SPECIFICATION Spec
CONSTANTS
  NCalls = 2
  Providers = {p1, p2}
  NoProvider = NoProvider
  Decisions = {"connected", "cancel"}
  RateOutcomes = {"allowed", "denied", "error"}
  None = None
  MaxResumes = 3
  MaxAborts = 0
SYMMETRY ProviderSymmetry
INVARIANT PausedCanResume
CHECK_DEADLOCK FALSE
