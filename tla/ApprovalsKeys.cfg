CONSTANTS
  Handlers = {h1, h2}
  Keys = {k1}
  Apps = {a1}
  NoKey = NoKey
  NoApp = NoApp
  Users = {root, ana}
  Root = root
  Teams = {t1}
  Reqs = {r1}
  ActionTypes = {"secret_key_create"}
  Lifetime = 0
  MaxTime = 0
  NoUser = NoUser
  NoReq = NoReq
  NoTeam = NoTeam
SPECIFICATION Spec
INVARIANTS TypeOK FourEyes NoKeyBeforeApproval UndecidedKeepsName DecidersWereAppointed
PROPERTIES NeverReopened KeyDiscipline
SYMMETRY HandlerSymmetry
