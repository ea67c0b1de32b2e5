SPECIFICATION Spec
CONSTANTS
  Emails = {e1}
  Repos = {r1}
  Ids = {i1, i2}
  Tokens = {t1, t2}
  Apis = {a1, a2}
  Handlers = {h1, h2}
  NoId = NoId
  NoToken = NoToken
  NoApi = NoApi
  MaxFaults = 0
SYMMETRY Symmetry
PROPERTIES
  ActiveIsNeverReset
CHECK_DEADLOCK FALSE
