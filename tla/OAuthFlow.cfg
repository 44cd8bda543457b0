SPECIFICATION Spec
CONSTANTS
  Flows = {f1, f2}
  Callbacks = {c1, c2, c3}
  Users = {u1, u2}
  Providers = {google, notion}
  Pkce = {google}
  NoUser = NoUser
  NoProvider = NoProvider
  NoFlow = NoFlow
SYMMETRY Interchangeable
INVARIANTS
  TypeOK
  StatePostsOnce
PROPERTY AuthorizationIsOneShot
CHECK_DEADLOCK FALSE
