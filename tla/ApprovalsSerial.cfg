CONSTANTS
  Handlers = {h1}
  Keys = {k1, k2}
  Apps = {a1}
  NoKey = NoKey
  NoApp = NoApp
  Users = {root, ana}
  Root = root
  Teams = {t1}
  Reqs = {r1}
  ActionTypes = {"secret_key_create", "secret_key_delete", "toggle_enable"}
  Lifetime = 0
  MaxTime = 1
  NoUser = NoUser
  NoReq = NoReq
  NoTeam = NoTeam
SPECIFICATION Spec
INVARIANTS RejectedKeyNeverWorks FourEyes
SYMMETRY RecordSymmetry
