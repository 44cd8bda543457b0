SPECIFICATION SearchSpec
CONSTANTS
  p1 = p1
  p2 = p2
  q1 = q1
  u1 = u1
  p = p
  q = q
  u = u
  w1 = w1
  w2 = w2
  NoWorker = NoWorker
  FixedTools <- TheFixedTools
  OwnTools = {u1}
  ToolProviders <- TheProviders
  ProviderOf <- TheProvider
  Workers <- TheWorkers
  Threads = {a}
  TopK = 2
  PerProvider = 1
  FetchLimit = 3
SYMMETRY Interchangeable
INVARIANTS
  SearchTypeOK
  ProvidersFound
PROPERTY
  AddedIsSearchable
