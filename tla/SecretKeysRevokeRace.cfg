CONSTANTS
  Handlers = {h1, h2}
  Keys = {k1}
  Apps = {a1}
  NoKey = NoKey
  NoApp = NoApp
SPECIFICATION KSpec
PROPERTY RevokedStaysRevoked
