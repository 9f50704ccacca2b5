-------------------------------- MODULE Accounts --------------------------------
(***************************************************************************)
(* Accounts, passwords and sessions: usecase/auth_usecase.go,              *)
(* usecase/user_usecase.go and the handlers of handler/auth_handler.go and *)
(* handler/user_management_handler.go that call them.                      *)
(*                                                                         *)
(* Every handler is a sequence of database steps; f[h] holds what handler  *)
(* h has loaded.  userRepository.Update is gorm's Save: it writes back     *)
(* every column of the struct the handler holds, whatever the row has      *)
(* become since, and adds the memberships the struct was loaded with.      *)
(*                                                                         *)
(* A password is a number: the n-th one anybody was given or chose is n,   *)
(* so a higher number is a later password.                                 *)
(***************************************************************************)
EXTENDS Naturals, FiniteSets

CONSTANTS Users, Root,      \* user identifiers, never reused; the one Init creates
          Teams, Sessions,  \* session identifiers, never reused
          Handlers,
          MaxPw,            \* bound on the passwords in use over time
          MaxFailures,      \* bound on database calls that fail
          None

ASSUME AccountsAssumption ==
    /\ Root \in Users /\ None \notin Users \cup Sessions
    /\ MaxPw \in Nat /\ MaxFailures \in Nat

VARIABLES users,      \* table users
          team_users, \* table team_users: none, member or approver
          sessions,   \* table sessions
          f,          \* what each handler holds between two database steps
          failures,   \* database calls that have failed so far
          issued,     \* history: passwords issued so far
          barred      \* history: the password of the last administrative reset

avars == <<users, team_users, sessions, f, failures, issued, barred>>

Roles == {"root", "admin", "user"}
NoRow == [role |-> "unborn", pw |-> 0, must |-> FALSE, active |-> FALSE]
Rows == [role : Roles \cup {"unborn", "deleted"}, pw : Nat,
         must : BOOLEAN, active : BOOLEAN]
Ranks == {"none", "member", "approver"}
SessionRows == [state : {"unused", "open", "gone"},
                user : Users \cup {None},
                purpose : {"auth", "password_change"},
                pw : Nat]      \* history: the password that opened it
NoSession == [state |-> "unused", user |-> None, purpose |-> "auth", pw |-> 0]

(* A User struct as GetByID fills it: the row and the teams of its user.    *)
Structs == [id : Users \cup {None}, role : Roles \cup {"unborn", "deleted"},
            pw : Nat, must : BOOLEAN, active : BOOLEAN, teams : SUBSET Teams]
NoStruct == [id |-> None, role |-> "unborn", pw |-> 0, must |-> FALSE,
             active |-> FALSE, teams |-> {}]

(* me: the user the middleware put into the context; row: the user the      *)
(* handler is about to write; uid, via: the user and the session it is for. *)
Frames == [op : {"none", "login", "first", "page", "api", "profile", "reset",
                 "status", "update", "delete", "create"},
           pc : {"idle", "open", "tokenUser", "consume", "auth", "load",
                 "actor", "admitted", "check", "save", "drop", "teams",
                 "recheck", "unlink", "erase", "insert", "join", "flag"},
           me : Structs, row : Structs,
           uid : Users \cup {None}, via : Sessions \cup {None},
           add : SUBSET Teams, remove : SUBSET Teams, flag : BOOLEAN]
Idle == [op |-> "none", pc |-> "idle", me |-> NoStruct, row |-> NoStruct,
         uid |-> None, via |-> None, add |-> {}, remove |-> {}, flag |-> FALSE]

ATypeOK ==
    /\ users \in [Users -> Rows]
    /\ team_users \in [Teams -> [Users -> Ranks]]
    /\ sessions \in [Sessions -> SessionRows]
    /\ f \in [Handlers -> Frames]
    /\ failures \in 0..MaxFailures
    /\ issued \in Nat /\ barred \in [Users -> Nat]

-----------------------------------------------------------------------------
(* Rows and structs.                                                        *)

Exists(u) == users[u].role \in Roles
Load(u) == [id |-> u, role |-> users[u].role, pw |-> users[u].pw,
            must |-> users[u].must, active |-> users[u].active,
            teams |-> {t \in Teams : team_users[t][u] # "none"}]

(* userRepository.Update: gorm's Save of a struct with preloaded teams.     *)
Save(s) ==
    /\ users' = [users EXCEPT ![s.id] =
                   [role |-> s.role, pw |-> s.pw, must |-> s.must,
                    active |-> s.active]]
    /\ team_users' = [t \in Teams |->
         IF t \in s.teams /\ team_users[t][s.id] = "none"
         THEN [team_users[t] EXCEPT ![s.id] = "member"] ELSE team_users[t]]

(* SetPassword with a password nobody had before.                           *)
SetPassword(s, must) == [s EXCEPT !.pw = issued + 1, !.must = must]
Issue == issued < MaxPw /\ issued' = issued + 1

Gone == [NoSession EXCEPT !.state = "gone"]
Stored(s) == sessions[s].state = "open"
DeleteByID(s) == sessions' = [sessions EXCEPT ![s] = Gone]
DeleteByUserID(u) ==
    sessions' = [s \in Sessions |->
        IF Stored(s) /\ sessions[s].user = u THEN Gone
        ELSE sessions[s]]

(* Admins manage whoever shares a team with them, root everybody, nobody    *)
(* root or themselves.                                                      *)
canManageUser(me, target) ==
    /\ target.role # "root" /\ target.id # me.id
    /\ me.role = "root" \/ (me.role = "admin" /\ me.teams \cap target.teams # {})

At(h, pc) == f[h].pc = pc
End(h) == f' = [f EXCEPT ![h] = Idle]
Goto(h, pc) == f' = [f EXCEPT ![h].pc = pc]
History == <<failures, issued, barred>>
Tables == <<users, team_users, sessions>>

-----------------------------------------------------------------------------
(* A new installation, or one whose root and first admin are at work.       *)

Fresh == users = [u \in Users |-> NoRow]
Row(role) == [role |-> role, pw |-> 0, must |-> FALSE, active |-> TRUE]

AInit ==
    /\ f = [h \in Handlers |-> Idle] /\ failures = 0
    /\ issued = 0 /\ barred = [u \in Users |-> 0]
    /\ sessions = [s \in Sessions |-> NoSession]
    /\ \/ /\ Fresh
          /\ team_users = [t \in Teams |-> [u \in Users |-> "none"]]
       \/ \E a \in Users \ {Root} :
            /\ users = [u \in Users |->
                 IF u = Root THEN Row("root")
                 ELSE IF u = a THEN Row("admin") ELSE NoRow]
            /\ team_users = [t \in Teams |-> [u \in Users |->
                 IF u = a THEN "member" ELSE "none"]]

(* InitializeRootUser, at every start of the server.                        *)
InitializeRootUser ==
    /\ \A u \in Users : ~Exists(u)
    /\ users[Root].role = "unborn" /\ Issue
    /\ users' = [users EXCEPT ![Root] = [role |-> "root", pw |-> issued + 1,
                                         must |-> TRUE, active |-> TRUE]]
    /\ UNCHANGED <<team_users, sessions, f, failures, barred>>

-----------------------------------------------------------------------------
(* Login: Authenticate, then a session, or a password change token for a    *)
(* user that must change the password first.                                *)

Authenticates(u, p) == Exists(u) /\ users[u].pw = p /\ users[u].active

Login(h, u, p) ==
    /\ At(h, "idle") /\ Authenticates(u, p)
    /\ f' = [f EXCEPT ![h] = [Idle EXCEPT !.op = "login", !.pc = "open",
                                          !.uid = u, !.row = Load(u)]]
    /\ UNCHANGED <<Tables, History>>

createSession(h, s) ==
    /\ At(h, "open") /\ sessions[s].state = "unused"
    /\ sessions' = [sessions EXCEPT ![s] =
         [state |-> "open", user |-> f[h].uid, pw |-> f[h].row.pw,
          purpose |-> IF f[h].row.must THEN "password_change" ELSE "auth"]]
    /\ End(h) /\ UNCHANGED <<users, team_users, History>>

Logout(h, s) ==
    /\ At(h, "idle") /\ Stored(s) /\ DeleteByID(s)
    /\ UNCHANGED <<users, team_users, f, History>>

(* ValidateToken and ValidatePasswordChangeToken: the session by its hash.  *)
(* The clock may have passed expires_at since the session was last used:    *)
(* then it is deleted and refused, and no one can tell when it expired.     *)
ReadToken(h, s, op) ==
    LET purpose == IF op \in {"first", "page"} THEN "password_change" ELSE "auth"
    IN  /\ At(h, "idle") /\ Stored(s) /\ sessions[s].purpose = purpose
        /\ \/ /\ f' = [f EXCEPT ![h] =
                   [Idle EXCEPT !.op = op, !.uid = sessions[s].user,
                      !.via = IF purpose = "auth" THEN None ELSE s,
                      !.pc = IF purpose = "auth" THEN "actor" ELSE "tokenUser"]]
              /\ UNCHANGED sessions
           \/ DeleteByID(s) /\ UNCHANGED f
        /\ UNCHANGED <<users, team_users, History>>

-----------------------------------------------------------------------------
(* The forced password change, with the token of the login or with the      *)
(* user's identifier and name in the request.                               *)

LoadTokenUser(h) ==
    /\ At(h, "tokenUser")
    /\ \/ Exists(f[h].uid) /\ users[f[h].uid].must /\ Goto(h, "consume")
       \/ ~(Exists(f[h].uid) /\ users[f[h].uid].must) /\ End(h)
    /\ UNCHANGED <<Tables, History>>

AfterConsume(h) == IF f[h].op = "page" THEN End(h) ELSE Goto(h, "auth")

(* The error of this DeleteByID is ignored: see FailIgnored.                *)
ConsumeToken(h) ==
    /\ At(h, "consume") /\ DeleteByID(f[h].via) /\ AfterConsume(h)
    /\ UNCHANGED <<users, team_users, History>>

FirstTimeByName(h, u) ==
    /\ At(h, "idle") /\ Exists(u)
    /\ f' = [f EXCEPT ![h] = [Idle EXCEPT !.op = "first", !.pc = "auth", !.uid = u]]
    /\ UNCHANGED <<Tables, History>>

CheckCurrentPassword(h, p) ==
    LET u == f[h].uid  ok == Authenticates(u, p) /\ users[u].must
    IN  /\ At(h, "auth")
        /\ (ok /\ Goto(h, "load")) \/ (~ok /\ End(h))
        /\ UNCHANGED <<Tables, History>>

LoadFirstTime(h) ==
    LET u == f[h].uid  ok == Exists(u) /\ users[u].must
    IN  /\ At(h, "load")
        /\ \/ /\ ok /\ Issue
              /\ f' = [f EXCEPT ![h].row = SetPassword(Load(u), FALSE),
                                ![h].pc = "save"]
           \/ ~ok /\ End(h) /\ UNCHANGED issued
        /\ UNCHANGED <<Tables, failures, barred>>

-----------------------------------------------------------------------------
(* Everything behind the ValidateToken middleware.  A user who must change  *)
(* the password gets no further than the profile's password change.         *)

LoadActor(h) ==
    LET u == f[h].uid
        ok == /\ Exists(u) /\ users[u].active
              /\ users[u].must => f[h].op = "profile"
    IN  /\ At(h, "actor")
        /\ \/ ok /\ f' = [f EXCEPT ![h].me = Load(u), ![h].pc = "admitted"]
           \/ ~ok /\ End(h)
        /\ UNCHANGED <<Tables, History>>

RequireRoot(h) == f[h].me.role = "root"
RequireAdmin(h) == f[h].me.role \in {"root", "admin"}
Admitted(h) == At(h, "admitted") /\ f[h].op = "api"

(* The frame of a handler that is about to write struct s back.             *)
Writes(op, s) == [Idle EXCEPT !.op = op, !.pc = "check", !.uid = s.id, !.row = s]

(* The user's own change: the struct is the one the middleware loaded.      *)
ChangePassword(h, p) ==
    LET me == f[h].me
    IN  /\ At(h, "admitted") /\ f[h].op = "profile"
        /\ p = me.pw /\ Issue
        /\ f' = [f EXCEPT ![h] = Writes("profile", SetPassword(me, FALSE))]
        /\ UNCHANGED <<Tables, failures, barred>>

ResetUserPassword(h, u) ==
    /\ Admitted(h) /\ RequireAdmin(h) /\ Exists(u)
    /\ canManageUser(f[h].me, Load(u)) /\ Issue
    /\ f' = [f EXCEPT ![h] = Writes("reset", SetPassword(Load(u), TRUE))]
    /\ UNCHANGED <<Tables, failures, barred>>

SetUserStatus(h, u, active) ==
    /\ Admitted(h) /\ RequireAdmin(h) /\ Exists(u)
    /\ canManageUser(f[h].me, Load(u))
    /\ f' = [f EXCEPT ![h] = Writes("status", [Load(u) EXCEPT !.active = active])]
    /\ UNCHANGED <<Tables, History>>

(* Mistake: root may hand the role on.                                      *)
MayUpdateAnyone(me, target, role) ==
    role = "root" \/ target.role = "root" => me.role = "root"

(* Role "root" only for the root itself; the role of root only by itself.   *)
MayUpdate(me, target, role) ==
    IF role = "root" THEN me.role = "root" /\ me.id = target.id
    ELSE target.role = "root" => me.role = "root" /\ me.id = target.id

UpdateUser(h, u, role, add, remove) ==
    /\ Admitted(h) /\ RequireRoot(h) /\ Exists(u)
    /\ MayUpdate(f[h].me, Load(u), role)
    /\ f' = [f EXCEPT ![h] = [Writes("update", [Load(u) EXCEPT !.role = role])
                              EXCEPT !.add = add, !.remove = remove]]
    /\ UNCHANGED <<Tables, History>>

DeleteUser(h, u) ==
    /\ Admitted(h) /\ RequireRoot(h) /\ Exists(u)
    /\ users[u].role # "root" /\ u # f[h].me.id
    /\ f' = [f EXCEPT ![h] = [Idle EXCEPT !.op = "delete", !.uid = u,
                                          !.pc = "recheck"]]
    /\ UNCHANGED <<Tables, History>>

CreateUser(h, u, role, t, approver) ==
    LET me == f[h].me
        new == [id |-> u, role |-> role, pw |-> 0, must |-> TRUE,
                active |-> TRUE, teams |-> {}]
    IN  /\ Admitted(h) /\ RequireAdmin(h)
        /\ users[u].role = "unborn" /\ \A g \in Handlers : f[g].uid # u
        /\ role # "root" /\ (me.role = "root" \/ t \in me.teams)
        /\ Issue
        /\ f' = [f EXCEPT ![h].op = "create", ![h].uid = u, ![h].pc = "insert",
                          ![h].row = SetPassword(new, TRUE), ![h].add = {t},
                          ![h].flag = approver /\ me.role = "root" /\ role = "admin"]
        /\ UNCHANGED <<Tables, failures, barred>>

-----------------------------------------------------------------------------
(* The steps the handlers share.                                            *)

(* UserUseCase.UpdateUser looks the row up before it saves the struct.      *)
CheckExists(h) ==
    /\ At(h, "check")
    /\ (Exists(f[h].row.id) /\ Goto(h, "save")) \/ (~Exists(f[h].row.id) /\ End(h))
    /\ UNCHANGED <<Tables, History>>

(* Mistake: a reset leaves the sessions of its target open.                 *)
AfterSaveKeepingSessions(h) ==
    IF f[h].op = "first" THEN Goto(h, "drop")
    ELSE IF f[h].op = "update" THEN Goto(h, "teams") ELSE End(h)

(* Mistake: the forced change drops no session, not even its token.         *)
AfterSaveKeepingToken(h) ==
    IF f[h].op = "reset" THEN Goto(h, "drop")
    ELSE IF f[h].op = "update" THEN Goto(h, "teams") ELSE End(h)

AfterSave(h) ==
    IF f[h].op \in {"reset", "first"} THEN Goto(h, "drop")
    ELSE IF f[h].op = "update" THEN Goto(h, "teams") ELSE End(h)

SaveUser(h) ==
    LET u == f[h].row.id
    IN  /\ At(h, "save") /\ Save(f[h].row) /\ AfterSave(h)
        /\ barred' = IF f[h].op = "reset"
                     THEN [barred EXCEPT ![u] = f[h].row.pw] ELSE barred
        /\ UNCHANGED <<sessions, failures, issued>>

InvalidateSessions(h) ==
    /\ At(h, "drop") /\ DeleteByUserID(f[h].uid)
    /\ IF f[h].op = "delete" THEN Goto(h, "unlink") ELSE End(h)
    /\ UNCHANGED <<users, team_users, History>>

(* Mistake: the account is deleted, its sessions are not.                   *)
RecheckDeleteKeepingSessions(h) ==
    LET u == f[h].uid  ok == Exists(u) /\ users[u].role # "root"
    IN  /\ At(h, "recheck")
        /\ (ok /\ Goto(h, "unlink")) \/ (~ok /\ End(h))
        /\ UNCHANGED <<Tables, History>>

(* UserUseCase.DeleteUser: look again, drop the sessions, then the rows of  *)
(* team_users, then the user.                                               *)
RecheckDelete(h) ==
    LET u == f[h].uid  ok == Exists(u) /\ users[u].role # "root"
    IN  /\ At(h, "recheck")
        /\ (ok /\ Goto(h, "drop")) \/ (~ok /\ End(h))
        /\ UNCHANGED <<Tables, History>>

(* Mistake: the rows are marked instead of deleted.                         *)
MarkMemberships(h) ==
    /\ At(h, "unlink")
    /\ team_users' = [t \in Teams |-> [team_users[t] EXCEPT ![f[h].uid] = "deleted"]]
    /\ Goto(h, "erase") /\ UNCHANGED <<users, sessions, History>>

DeleteMemberships(h) ==
    /\ At(h, "unlink")
    /\ team_users' = [t \in Teams |-> [team_users[t] EXCEPT ![f[h].uid] = "none"]]
    /\ Goto(h, "erase") /\ UNCHANGED <<users, sessions, History>>

DeleteRow(h) ==
    /\ At(h, "erase") /\ End(h)
    /\ users' = [users EXCEPT ![f[h].uid] = [NoRow EXCEPT !.role = "deleted"]]
    /\ UNCHANGED <<team_users, sessions, History>>

InsertUser(h) ==
    LET s == f[h].row
    IN  /\ At(h, "insert") /\ Goto(h, "join")
        /\ users' = [users EXCEPT ![s.id] =
             [role |-> s.role, pw |-> s.pw, must |-> s.must, active |-> s.active]]
        /\ UNCHANGED <<team_users, sessions, History>>

(* TeamUseCase.AddUserToTeam and RemoveUserFromTeam, each with its lookups; *)
(* teams are not deleted here.                                              *)
CanJoin(t, u) == Exists(u) /\ team_users[t][u] = "none"
AddUserToTeam(t, u) ==
    IF CanJoin(t, u) THEN team_users' = [team_users EXCEPT ![t][u] = "member"]
    ELSE UNCHANGED team_users

RemoveUserFromTeam(t, u) ==
    IF Exists(u) THEN team_users' = [team_users EXCEPT ![t][u] = "none"]
    ELSE UNCHANGED team_users

(* CreateUser: the team, and the approver flag when root asked for it.      *)
JoinTeam(h) ==
    LET u == f[h].uid
    IN  /\ At(h, "join")
        /\ \A t \in f[h].add : AddUserToTeam(t, u)
        /\ IF f[h].flag /\ \A t \in f[h].add : CanJoin(t, u)
           THEN Goto(h, "flag") ELSE End(h)
        /\ UNCHANGED <<users, sessions, History>>

(* SetTeamApprover reads both users again and needs the row of team_users.  *)
(* An admin needs approvals to be enabled, which is not a matter here.      *)
SetTeamApprover(h) ==
    LET u == f[h].uid
        ok(t) == /\ users[f[h].me.id].role \in {"root", "admin"}
                 /\ users[u].role \in {"root", "admin"}
                 /\ team_users[t][u] # "none"
    IN  /\ At(h, "flag") /\ End(h)
        /\ team_users' = [t \in Teams |->
             IF t \in f[h].add /\ ok(t) THEN [team_users[t] EXCEPT ![u] = "approver"]
             ELSE team_users[t]]
        /\ UNCHANGED <<users, sessions, History>>

(* UpdateUser: first the teams to remove, then the teams to add; the error  *)
(* of one team does not stop the others.                                    *)
UpdateTeams(h) ==
    LET g == f[h]
    IN  /\ At(h, "teams")
        /\ \/ \E t \in g.remove :
                /\ RemoveUserFromTeam(t, g.uid)
                /\ f' = [f EXCEPT ![h].remove = @ \ {t}]
           \/ /\ g.remove = {}
              /\ \E t \in g.add : /\ AddUserToTeam(t, g.uid)
                                  /\ f' = [f EXCEPT ![h].add = @ \ {t}]
           \/ g.remove = {} /\ g.add = {} /\ End(h) /\ UNCHANGED team_users
        /\ UNCHANGED <<users, sessions, History>>

-----------------------------------------------------------------------------
(* A database call fails: the handler answers with an error and stops, or   *)
(* goes on where the code ignores or only collects the error.               *)

Writing == {"open", "save", "drop", "unlink", "erase", "insert", "flag"}

Fail(h) ==
    /\ failures < MaxFailures /\ f[h].pc \in Writing \cup {"join"}
    /\ failures' = failures + 1 /\ End(h)
    /\ UNCHANGED <<Tables, issued, barred>>

FailIgnored(h) ==
    /\ failures < MaxFailures /\ failures' = failures + 1
    /\ \/ At(h, "consume") /\ AfterConsume(h)
       \/ /\ At(h, "teams")
          /\ \/ \E t \in f[h].remove : f' = [f EXCEPT ![h].remove = @ \ {t}]
             \/ f[h].remove = {} /\ \E t \in f[h].add :
                                      f' = [f EXCEPT ![h].add = @ \ {t}]
    /\ UNCHANGED <<Tables, issued, barred>>

Start(h) ==
    \/ \E u \in Users, p \in 0..MaxPw : Login(h, u, p)
    \/ \E u \in Users : FirstTimeByName(h, u)
    \/ \E s \in Sessions :
         \/ Logout(h, s)
         \/ \E op \in {"first", "page", "api", "profile"} : ReadToken(h, s, op)

Manage(h) ==
    \/ \E p \in 0..MaxPw : ChangePassword(h, p)
    \/ \E u \in Users :
         \/ ResetUserPassword(h, u) \/ DeleteUser(h, u)
         \/ \E active \in BOOLEAN : SetUserStatus(h, u, active)
         \/ \E role \in Roles, add \in SUBSET Teams, remove \in SUBSET Teams :
              UpdateUser(h, u, role, add, remove)
         \/ \E role \in Roles, t \in Teams, approver \in BOOLEAN :
              CreateUser(h, u, role, t, approver)

Proceed(h) ==
    \/ \E s \in Sessions : createSession(h, s)
    \/ \E p \in 0..MaxPw : CheckCurrentPassword(h, p)
    \/ LoadTokenUser(h) \/ ConsumeToken(h) \/ LoadFirstTime(h) \/ LoadActor(h)
    \/ CheckExists(h) \/ SaveUser(h) \/ InvalidateSessions(h)
    \/ RecheckDelete(h) \/ DeleteMemberships(h) \/ DeleteRow(h)
    \/ InsertUser(h) \/ JoinTeam(h) \/ SetTeamApprover(h) \/ UpdateTeams(h)
    \/ Fail(h) \/ FailIgnored(h)

ANext ==
    \/ InitializeRootUser
    \/ \E h \in Handlers : Start(h) \/ Manage(h) \/ Proceed(h)

ASpec == AInit /\ [][ANext]_avars

-----------------------------------------------------------------------------
(* Properties.                                                              *)

(* Nobody but the account InitializeRootUser created ever has the role      *)
(* root, whatever handlers overlap and however stale the structs they save. *)
OnlyRootIsRoot == \A u \in Users : users[u].role = "root" => u = Root

Quiescent == \A h \in Handlers : At(h, "idle")

(* A session the ValidateToken middleware lets through to the application.  *)
Passes(s) ==
    LET u == sessions[s].user
    IN  /\ sessions[s].state = "open" /\ sessions[s].purpose = "auth"
        /\ Exists(u) /\ users[u].active /\ ~users[u].must

(* ResetUserPassword: "qualquer sessao existente do alvo deve morrer junto, *)
(* nao so a senha antiga".  Once a reset is over, no session opened with an *)
(* earlier password gets through, whatever the user does later.             *)
ResetLocksOut ==
    Quiescent => \A s \in Sessions :
        Passes(s) => sessions[s].pw >= barred[sessions[s].user]

(* The same as long as no database call has failed.                         *)
CleanResetLocksOut == failures = 0 => ResetLocksOut

(* ChangePasswordFirstTime: every session of the user, "incluindo o proprio *)
(* token", ends with the change.  As long as no database call has failed, a *)
(* password change token is outstanding only while the password it was      *)
(* issued for still has to be changed.                                      *)
TokensAreCurrent ==
    failures = 0 /\ Quiescent => \A s \in Sessions :
        Stored(s) /\ sessions[s].purpose = "password_change" =>
            /\ users[sessions[s].user].must
            /\ users[sessions[s].user].pw = sessions[s].pw

(* DeleteUser and userRepository.Delete leave no session and no membership  *)
(* of an account that is gone, wherever one of their steps fails.           *)
NothingDangling ==
    /\ \A s \in Sessions : Stored(s) => Exists(sessions[s].user)
    /\ \A t \in Teams, u \in Users : team_users[t][u] # "none" => Exists(u)
=============================================================================
