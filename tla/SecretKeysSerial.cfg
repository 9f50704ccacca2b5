CONSTANTS
  Handlers = {h1}
  Keys = {k1, k2, k3, k4}
  Apps = {a1, a2}
  NoKey = NoKey
  NoApp = NoApp
SPECIFICATION KSpec
INVARIANTS KTypeOK OneCurrent AtMostTwoActive
PROPERTY RevokedStaysRevoked
