SPECIFICATION ASpec
CONSTANTS
    Users = {root, ann, bob}
    Root = root
    Teams = {t1}
    Sessions = {s1, s2}
    Handlers = {h1}
    MaxPw = 2
    MaxFailures = 1
    None = None
INVARIANTS ATypeOK OnlyRootIsRoot CleanResetLocksOut TokensAreCurrent NothingDangling
SYMMETRY Symmetry
CHECK_DEADLOCK FALSE
