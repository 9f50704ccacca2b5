CONSTANTS
  Handlers = {h1, h2}
  Keys = {}
  Apps = {a1}
  NoKey = NoKey
  NoApp = NoApp
  Users = {root, ana}
  Root = root
  Teams = {t1}
  Reqs = {r1}
  ActionTypes = {"toggle_enable"}
  Lifetime = 0
  MaxTime = 0
  NoUser = NoUser
  NoReq = NoReq
  NoTeam = NoTeam
SPECIFICATION Spec
PROPERTY DecisionIsFinal
