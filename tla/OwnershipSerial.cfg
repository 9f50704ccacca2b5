SPECIFICATION OSpec
CONSTANTS
    Teams = {t1, t2}
    Apps = {a1, a2}
    Users = {ann}
    Names = {m, n}
    Handlers = {h1}
    MaxFailures = 1
    None = None
INVARIANTS OTypeOK NoGhosts ViewsAgree HighestIsMaximum RefusedLeavesNothing
PROPERTY MoveReplaces
SYMMETRY Symmetry
CHECK_DEADLOCK FALSE
