SPECIFICATION Spec
CONSTANTS
  Emails = {e1}
  Repos = {r1}
  Ids = {i1, i2}
  Tokens = {t1, t2}
  Apis = {a1}
  Handlers = {h1, h2}
  NoId = NoId
  NoToken = NoToken
  NoApi = NoApi
  MaxFaults = 1
SYMMETRY Symmetry
INVARIANTS
  TypeOK
  PendingIsTracked
  DeletedMeansCompensated
  ApiTokenOnlyOnceConfirmed
PROPERTIES
  SettledOnce
  CompensationIsConfined
  ImplementsContract
CHECK_DEADLOCK FALSE
