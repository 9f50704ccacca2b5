----------------------------- MODULE AccountsProofs -----------------------------
(***************************************************************************)
(* Type correctness and the uniqueness of root, for any number of users,   *)
(* teams, sessions and overlapping handlers; and, for one handler at a     *)
(* time, what a reset, a forced password change and the deletion of an     *)
(* account leave behind.                                                   *)
(***************************************************************************)
EXTENDS Accounts, TLAPS

-----------------------------------------------------------------------------
(* The inductive invariant.                                                 *)

(* Where a handler is about to load the user it is for.                     *)
Bound == {"open", "tokenUser", "consume", "auth", "load", "actor"}

(* Where CreateUser still has to put the new user into its team.            *)
Joining == {"insert", "join"}

(* A struct a handler may hold, however stale: it has the role root only if *)
(* it is of the root.                                                       *)
StructOK(s) == s \in Structs /\ (s.role = "root" => s.id = Root)

FrameOK(g) ==
    /\ g \in Frames /\ StructOK(g.me) /\ StructOK(g.row)
    /\ g.pc \in Bound => g.uid \in Users
    /\ g.pc \in Joining => g.add # {}

UsersOK == users \in [Users -> Rows] /\ OnlyRootIsRoot
TeamsOK == team_users \in [Teams -> [Users -> Ranks]]
SessionsOK ==
    /\ sessions \in [Sessions -> SessionRows]
    /\ \A s \in Sessions : Stored(s) => sessions[s].user \in Users
HandlersOK == f \in [Handlers -> Frames] /\ \A h \in Handlers : FrameOK(f[h])
HistoryOK ==
    failures \in 0..MaxFailures /\ issued \in Nat /\ barred \in [Users -> Nat]

AInv == UsersOK /\ TeamsOK /\ SessionsOK /\ HandlersOK /\ HistoryOK

-----------------------------------------------------------------------------
(* Structs and frames.                                                      *)

(* A handler that holds nothing holds nothing wrong.                        *)
LEMMA IdleOK == FrameOK(Idle) /\ StructOK(NoStruct)
<1>1. NoStruct \in Structs  BY DEF NoStruct, Structs
<1>2. StructOK(NoStruct)  BY <1>1 DEF StructOK, NoStruct
<1>3. Idle \in Frames  BY <1>1 DEF Idle, Frames
<1> QED  BY <1>2, <1>3 DEF Idle, FrameOK, Bound, Joining

(* A step that gives one handler a new frame.                               *)
LEMMA FrameStays ==
    ASSUME HandlersOK, NEW h \in Handlers, NEW x, FrameOK(x), f' = [f EXCEPT ![h] = x]
    PROVE  HandlersOK'
  BY DEF HandlersOK, FrameOK

(* A handler that answers forgets everything.                               *)
LEMMA EndOK == ASSUME HandlersOK, NEW h \in Handlers, End(h) PROVE HandlersOK'
  BY IdleOK, FrameStays DEF End

(* A handler that goes on keeps what it holds.                              *)
LEMMA GotoOK ==
    ASSUME HandlersOK, NEW h \in Handlers, NEW pc, Goto(h, pc),
           pc \in {"idle", "open", "tokenUser", "consume", "auth", "load",
                   "actor", "admitted", "check", "save", "drop", "teams",
                   "recheck", "unlink", "erase", "insert", "join", "flag"},
           pc \in Bound => f[h].uid \in Users, pc \in Joining => f[h].add # {}
    PROVE  HandlersOK'
<1> DEFINE x == [f[h] EXCEPT !.pc = pc]
<1>1. f[h] \in Frames /\ FrameOK(f[h])  BY DEF HandlersOK
<1>2. x \in Frames  BY <1>1 DEF Frames
<1>3. x.me = f[h].me /\ x.row = f[h].row /\ x.uid = f[h].uid /\ x.pc = pc
      /\ x.add = f[h].add
  BY <1>1 DEF Frames
<1>4. f' = [f EXCEPT ![h] = x]  BY DEF Goto, HandlersOK
<1> HIDE DEF x
<1>5. FrameOK(x)  BY <1>1, <1>2, <1>3 DEF FrameOK
<1> QED  BY <1>4, <1>5, FrameStays

(* GetByID returns a struct of the user it was asked for.                   *)
LEMMA LoadOK ==
    ASSUME UsersOK, NEW u \in Users
    PROVE  StructOK(Load(u)) /\ Load(u).id = u
<1>1. users[u] \in Rows  BY DEF UsersOK
<1>2. Load(u) \in Structs  BY <1>1 DEF Load, Structs, Rows
<1> QED  BY <1>2 DEF StructOK, Load, UsersOK, OnlyRootIsRoot

(* SetPassword changes neither the role nor the identifier.                 *)
LEMMA SetPasswordOK ==
    ASSUME HistoryOK, NEW s, StructOK(s), NEW must \in BOOLEAN
    PROVE  StructOK(SetPassword(s, must))
<1>1. issued + 1 \in Nat /\ s \in Structs  BY DEF HistoryOK, StructOK
<1>2. SetPassword(s, must) \in Structs  BY <1>1 DEF SetPassword, Structs
<1>3. SetPassword(s, must).role = s.role /\ SetPassword(s, must).id = s.id
  BY <1>1 DEF SetPassword, Structs
<1> QED  BY <1>2, <1>3 DEF StructOK

(* gorm's Save of any struct a handler may hold, even one of a user that is *)
(* gone or one that was loaded long ago.                                    *)
LEMMA SaveOK ==
    ASSUME UsersOK, TeamsOK, NEW s, StructOK(s), Save(s)
    PROVE  UsersOK' /\ TeamsOK'
<1> DEFINE x == [role |-> s.role, pw |-> s.pw, must |-> s.must, active |-> s.active]
<1>1. users' = [users EXCEPT ![s.id] = x]  BY DEF Save
<1>2. x \in Rows /\ x.role = s.role  BY DEF StructOK, Structs, Rows
<1> HIDE DEF x
<1>3. UsersOK'  BY <1>1, <1>2 DEF UsersOK, OnlyRootIsRoot, StructOK
<1>4. TeamsOK'
  <2>1. \A t \in Teams : team_users'[t] \in [Users -> Ranks]
    BY DEF Save, TeamsOK, Ranks
  <2>2. team_users' = [t \in Teams |-> team_users'[t]]  BY DEF Save
  <2> QED  BY <2>1, <2>2 DEF TeamsOK
<1> QED  BY <1>3, <1>4

(* The frame of a handler that is about to write a struct back.             *)
LEMMA WritesOK ==
    ASSUME NEW s, StructOK(s), NEW op \in {"profile", "reset", "status", "update"}
    PROVE  FrameOK(Writes(op, s)) /\ Writes(op, s) \in Frames
<1>1. Idle \in Frames /\ StructOK(NoStruct) /\ s \in Structs  BY IdleOK DEF FrameOK, StructOK
<1>2. s.id \in Users \cup {None}  BY <1>1 DEF Structs
<1>3. Writes(op, s) \in Frames  BY <1>1, <1>2 DEF Writes, Frames
<1>4. /\ Writes(op, s).me = NoStruct /\ Writes(op, s).row = s
      /\ Writes(op, s).pc = "check"
  BY DEF Writes, Idle
<1> QED  BY <1>1, <1>3, <1>4 DEF FrameOK, Bound, Joining

(* Deleting sessions leaves none without a user.                            *)
LEMMA DeleteOK ==
    ASSUME SessionsOK,
           \/ \E s : DeleteByID(s)
           \/ \E u : DeleteByUserID(u)
    PROVE  SessionsOK'
<1>1. Gone \in SessionRows /\ Gone.state = "gone"
  BY DEF Gone, NoSession, SessionRows
<1>2. CASE \E s : DeleteByID(s)
  BY <1>1, <1>2 DEF DeleteByID, SessionsOK, Stored
<1>3. CASE \E u : DeleteByUserID(u)
  BY <1>1, <1>3 DEF DeleteByUserID, SessionsOK, Stored
<1> QED  BY <1>2, <1>3

(* Stutterings of one part of the state.                                    *)
LEMMA UsersStay == ASSUME UsersOK, users' = users PROVE UsersOK'
  BY DEF UsersOK, OnlyRootIsRoot

(* The same of the sessions.                                                *)
LEMMA SessionsStay == ASSUME SessionsOK, sessions' = sessions PROVE SessionsOK'
  BY DEF SessionsOK, Stored

(* A step that changes only what one handler holds.                         *)
LEMMA HandlerStep ==
    ASSUME AInv, HandlersOK', UNCHANGED <<users, team_users, sessions>>, HistoryOK'
    PROVE  AInv'
  BY UsersStay, SessionsStay DEF AInv, TeamsOK

(* A password is issued.                                                    *)
LEMMA IssueOK ==
    ASSUME HistoryOK, Issue, UNCHANGED <<failures, barred>> PROVE HistoryOK'
  BY DEF HistoryOK, Issue

(* The same of the history.                                                 *)
LEMMA HistoryStays == ASSUME HistoryOK, UNCHANGED History PROVE HistoryOK'
  BY DEF HistoryOK, History

-----------------------------------------------------------------------------
(* Every action preserves the invariant.                                    *)

(* The root account appears.                                                *)
LEMMA InitializeRootUserStep == ASSUME AInv, InitializeRootUser PROVE AInv'
<1> DEFINE x == [role |-> "root", pw |-> issued + 1, must |-> TRUE, active |-> TRUE]
<1>1. users' = [users EXCEPT ![Root] = x] /\ Issue /\ UNCHANGED <<failures, barred>>
      /\ UNCHANGED <<team_users, sessions, f>>
  BY DEF InitializeRootUser
<1>2. x \in Rows  BY DEF AInv, HistoryOK, Rows, Roles
<1> HIDE DEF x
<1>3. UsersOK'  BY <1>1, <1>2 DEF AInv, UsersOK, OnlyRootIsRoot
<1>4. HistoryOK'  BY <1>1, IssueOK DEF AInv
<1>5. SessionsOK'  BY <1>1, SessionsStay DEF AInv
<1> QED  BY <1>1, <1>3, <1>4, <1>5 DEF AInv, TeamsOK, HandlersOK

(* A session is opened for the user that logged in, used or ended.          *)
LEMMA LoginStep ==
    ASSUME AInv, NEW h \in Handlers, NEW u \in Users, NEW p, Login(h, u, p) PROVE AInv'
<1> DEFINE x == [Idle EXCEPT !.op = "login", !.pc = "open", !.uid = u, !.row = Load(u)]
<1>1. f' = [f EXCEPT ![h] = x] /\ UNCHANGED <<users, team_users, sessions>>
      /\ UNCHANGED History
  BY DEF Login, Tables
<1>2. StructOK(Load(u)) /\ Load(u) \in Structs  BY LoadOK DEF AInv, StructOK
<1>3. Idle \in Frames /\ StructOK(NoStruct)  BY IdleOK DEF FrameOK
<1>4. x \in Frames  BY <1>2, <1>3 DEF Frames
<1>5. x.me = NoStruct /\ x.row = Load(u) /\ x.uid = u /\ x.pc = "open"  BY DEF Idle
<1> HIDE DEF x
<1>6. FrameOK(x)  BY <1>2, <1>3, <1>4, <1>5 DEF FrameOK, Joining
<1>7. HandlersOK'  BY <1>1, <1>6, FrameStays DEF AInv
<1> QED  BY <1>1, <1>7, HandlerStep, HistoryStays DEF AInv

(* createSession.                                                           *)
LEMMA CreateSessionStep ==
    ASSUME AInv, NEW h \in Handlers, NEW s \in Sessions, createSession(h, s) PROVE AInv'
<1> DEFINE x == [state |-> "open", user |-> f[h].uid, pw |-> f[h].row.pw,
                 purpose |-> IF f[h].row.must THEN "password_change" ELSE "auth"]
<1>1. /\ sessions' = [sessions EXCEPT ![s] = x] /\ End(h) /\ f[h].pc = "open"
      /\ UNCHANGED <<users, team_users>> /\ UNCHANGED History
  BY DEF createSession, At
<1>2. FrameOK(f[h]) /\ f[h].uid \in Users /\ f[h].row.pw \in Nat
  BY <1>1 DEF AInv, HandlersOK, FrameOK, Bound, StructOK, Structs
<1>3. x \in SessionRows /\ x.user \in Users  BY <1>2 DEF SessionRows
<1> HIDE DEF x
<1>4. SessionsOK'  BY <1>1, <1>3 DEF AInv, SessionsOK, Stored
<1>5. HandlersOK'  BY <1>1, EndOK DEF AInv
<1> QED  BY <1>1, <1>4, <1>5, UsersStay, HistoryStays DEF AInv, TeamsOK

(* Logout.                                                                  *)
LEMMA LogoutStep ==
    ASSUME AInv, NEW h \in Handlers, NEW s \in Sessions, Logout(h, s) PROVE AInv'
<1>1. SessionsOK'  BY DeleteOK DEF AInv, Logout
<1> QED  BY <1>1, UsersStay, HistoryStays DEF AInv, Logout, TeamsOK, HandlersOK

(* ValidateToken and ValidatePasswordChangeToken find a session of a user,  *)
(* or end it.                                                               *)
LEMMA ReadTokenStep ==
    ASSUME AInv, NEW h \in Handlers, NEW s \in Sessions,
           NEW op \in {"first", "page", "api", "profile"}, ReadToken(h, s, op)
    PROVE  AInv'
<1> DEFINE purpose == IF op \in {"first", "page"} THEN "password_change" ELSE "auth"
           x == [Idle EXCEPT !.op = op, !.uid = sessions[s].user,
                   !.via = IF purpose = "auth" THEN None ELSE s,
                   !.pc = IF purpose = "auth" THEN "actor" ELSE "tokenUser"]
<1>1. /\ Stored(s) /\ UNCHANGED <<users, team_users>> /\ UNCHANGED History
      /\ \/ f' = [f EXCEPT ![h] = x] /\ UNCHANGED sessions
         \/ DeleteByID(s) /\ UNCHANGED f
  BY DEF ReadToken
<1>2. Idle \in Frames /\ StructOK(NoStruct)  BY IdleOK DEF FrameOK
<1>3. sessions[s].user \in Users  BY <1>1 DEF AInv, SessionsOK
<1>4. x \in Frames  BY <1>2, <1>3 DEF Frames
<1>5. x.me = NoStruct /\ x.row = NoStruct /\ x.uid = sessions[s].user
      /\ x.pc \in {"actor", "tokenUser"}
  BY DEF Idle
<1> HIDE DEF x
<1>6. FrameOK(x)  BY <1>2, <1>3, <1>4, <1>5 DEF FrameOK, Joining
<1>7. HandlersOK' /\ SessionsOK'
  BY <1>1, <1>6, FrameStays, DeleteOK, SessionsStay DEF AInv, HandlersOK
<1> QED  BY <1>1, <1>7, UsersStay, HistoryStays DEF AInv, TeamsOK

(* The forced change of the password.                                       *)
LEMMA LoadTokenUserStep ==
    ASSUME AInv, NEW h \in Handlers, LoadTokenUser(h) PROVE AInv'
<1>1. /\ Goto(h, "consume") \/ End(h)
      /\ UNCHANGED <<users, team_users, sessions>> /\ UNCHANGED History
  BY DEF LoadTokenUser, At, Tables
<1>2. f[h].uid \in Users
  BY DEF LoadTokenUser, At, AInv, HandlersOK, FrameOK, Bound
<1>3. HandlersOK'  BY <1>1, <1>2, EndOK, GotoOK DEF AInv, Joining
<1> QED  BY <1>1, <1>3, HandlerStep, HistoryStays DEF AInv

(* The token's user is still the one the change is for.                     *)
LEMMA AfterConsumeOK ==
    ASSUME AInv, NEW h \in Handlers, At(h, "consume"), AfterConsume(h) PROVE HandlersOK'
<1>1. f[h].uid \in Users  BY DEF At, AInv, HandlersOK, FrameOK, Bound
<1>2. Goto(h, "auth") \/ End(h)  BY DEF AfterConsume
<1> QED  BY <1>1, <1>2, EndOK, GotoOK DEF AInv, Joining

(* The token is deleted.                                                    *)
LEMMA ConsumeTokenStep ==
    ASSUME AInv, NEW h \in Handlers, ConsumeToken(h) PROVE AInv'
<1>1. HandlersOK'  BY AfterConsumeOK DEF ConsumeToken
<1>2. SessionsOK'  BY DeleteOK DEF AInv, ConsumeToken
<1> QED  BY <1>1, <1>2, UsersStay, HistoryStays DEF AInv, ConsumeToken, TeamsOK

(* The change is asked for by name.                                         *)
LEMMA FirstTimeByNameStep ==
    ASSUME AInv, NEW h \in Handlers, NEW u \in Users, FirstTimeByName(h, u) PROVE AInv'
<1> DEFINE x == [Idle EXCEPT !.op = "first", !.pc = "auth", !.uid = u]
<1>1. f' = [f EXCEPT ![h] = x] /\ UNCHANGED <<users, team_users, sessions>>
      /\ UNCHANGED History
  BY DEF FirstTimeByName, Tables
<1>2. Idle \in Frames /\ StructOK(NoStruct)  BY IdleOK DEF FrameOK
<1>3. x \in Frames  BY <1>2 DEF Frames
<1>4. x.me = NoStruct /\ x.row = NoStruct /\ x.uid = u /\ x.pc \in {"auth", "recheck"}
  BY DEF Idle
<1> HIDE DEF x
<1>5. FrameOK(x)  BY <1>2, <1>3, <1>4 DEF FrameOK, Joining
<1>6. HandlersOK'  BY <1>1, <1>5, FrameStays DEF AInv
<1> QED  BY <1>1, <1>6, HandlerStep, HistoryStays DEF AInv

(* The current password is checked.                                         *)
LEMMA CheckCurrentPasswordStep ==
    ASSUME AInv, NEW h \in Handlers, NEW p, CheckCurrentPassword(h, p) PROVE AInv'
<1>1. /\ Goto(h, "load") \/ End(h)
      /\ UNCHANGED <<users, team_users, sessions>> /\ UNCHANGED History
  BY DEF CheckCurrentPassword, Tables
<1>2. f[h].uid \in Users
  BY DEF CheckCurrentPassword, At, AInv, HandlersOK, FrameOK, Bound
<1>3. HandlersOK'  BY <1>1, <1>2, EndOK, GotoOK DEF AInv, Joining
<1> QED  BY <1>1, <1>3, HandlerStep, HistoryStays DEF AInv

(* A handler that keeps its frame but for one struct.                       *)
LEMMA HoldsOK ==
    ASSUME HandlersOK, NEW h \in Handlers, NEW s, StructOK(s),
           \/ f' = [f EXCEPT ![h].row = s, ![h].pc = "save"]
           \/ f' = [f EXCEPT ![h].me = s, ![h].pc = "admitted"]
    PROVE  HandlersOK'
<1>1. f \in [Handlers -> Frames] /\ f[h] \in Frames /\ FrameOK(f[h]) /\ s \in Structs
  BY DEF HandlersOK, StructOK
<1>2. CASE f' = [f EXCEPT ![h].row = s, ![h].pc = "save"]
  <2> DEFINE x == [f[h] EXCEPT !.row = s, !.pc = "save"]
  <2>1. f' = [f EXCEPT ![h] = x]  BY <1>1, <1>2
  <2>2. x \in Frames  BY <1>1 DEF Frames
  <2>3. x.me = f[h].me /\ x.row = s /\ x.pc = "save"  BY <1>1 DEF Frames
  <2> HIDE DEF x
  <2>4. FrameOK(x)  BY <1>1, <2>2, <2>3 DEF FrameOK, Bound, Joining
  <2> QED  BY <2>1, <2>4, FrameStays
<1>3. CASE f' = [f EXCEPT ![h].me = s, ![h].pc = "admitted"]
  <2> DEFINE x == [f[h] EXCEPT !.me = s, !.pc = "admitted"]
  <2>1. f' = [f EXCEPT ![h] = x]  BY <1>1, <1>3
  <2>2. x \in Frames  BY <1>1 DEF Frames
  <2>3. x.row = f[h].row /\ x.me = s /\ x.pc = "admitted"  BY <1>1 DEF Frames
  <2> HIDE DEF x
  <2>4. FrameOK(x)  BY <1>1, <2>2, <2>3 DEF FrameOK, Bound, Joining
  <2> QED  BY <2>1, <2>4, FrameStays
<1> QED  BY <1>2, <1>3

(* ChangePasswordFirstTime loads the user it is for.                        *)
LEMMA LoadFirstTimeStep ==
    ASSUME AInv, NEW h \in Handlers, LoadFirstTime(h) PROVE AInv'
<1> DEFINE u == f[h].uid
<1>1. u \in Users  BY DEF LoadFirstTime, At, AInv, HandlersOK, FrameOK, Bound
<1>2. StructOK(SetPassword(Load(u), FALSE))  BY <1>1, LoadOK, SetPasswordOK DEF AInv
<1>3. /\ UNCHANGED <<users, team_users, sessions>> /\ UNCHANGED <<failures, barred>>
      /\ \/ /\ Issue
            /\ f' = [f EXCEPT ![h].row = SetPassword(Load(u), FALSE), ![h].pc = "save"]
         \/ End(h) /\ UNCHANGED issued
  BY DEF LoadFirstTime, Tables
<1> HIDE DEF u
<1>4. HandlersOK'  BY <1>2, <1>3, HoldsOK, EndOK DEF AInv
<1>5. HistoryOK'  BY <1>3, IssueOK DEF AInv, HistoryOK
<1> QED  BY <1>3, <1>4, <1>5, HandlerStep

(* The middleware puts the user of the session into the context.            *)
LEMMA LoadActorStep ==
    ASSUME AInv, NEW h \in Handlers, LoadActor(h) PROVE AInv'
<1> DEFINE u == f[h].uid
<1>1. u \in Users  BY DEF LoadActor, At, AInv, HandlersOK, FrameOK, Bound
<1>2. StructOK(Load(u))  BY <1>1, LoadOK DEF AInv
<1>3. /\ UNCHANGED <<users, team_users, sessions>> /\ UNCHANGED History
      /\ \/ f' = [f EXCEPT ![h].me = Load(u), ![h].pc = "admitted"]
         \/ End(h)
  BY DEF LoadActor, Tables
<1> HIDE DEF u
<1>4. HandlersOK'  BY <1>2, <1>3, HoldsOK, EndOK DEF AInv
<1> QED  BY <1>3, <1>4, HandlerStep, HistoryStays DEF AInv

(* The management of accounts: every struct about to be written is one that *)
(* was loaded, and only root's update changes a role.                       *)
LEMMA ChangePasswordStep ==
    ASSUME AInv, NEW h \in Handlers, NEW p, ChangePassword(h, p) PROVE AInv'
<1>1. StructOK(f[h].me)  BY DEF AInv, HandlersOK, FrameOK
<1>2. FrameOK(Writes("profile", SetPassword(f[h].me, FALSE)))
  BY <1>1, SetPasswordOK, WritesOK DEF AInv
<1>3. /\ f' = [f EXCEPT ![h] = Writes("profile", SetPassword(f[h].me, FALSE))] /\ Issue
      /\ UNCHANGED <<users, team_users, sessions>> /\ UNCHANGED <<failures, barred>>
  BY DEF ChangePassword, Tables
<1>4. HandlersOK'  BY <1>2, <1>3, FrameStays DEF AInv
<1>5. HistoryOK'  BY <1>3, IssueOK DEF AInv
<1> QED  BY <1>3, <1>4, <1>5, HandlerStep

(* ResetUserPassword.                                                       *)
LEMMA ResetUserPasswordStep ==
    ASSUME AInv, NEW h \in Handlers, NEW u \in Users, ResetUserPassword(h, u) PROVE AInv'
<1>1. FrameOK(Writes("reset", SetPassword(Load(u), TRUE)))
  BY LoadOK, SetPasswordOK, WritesOK DEF AInv
<1>2. /\ f' = [f EXCEPT ![h] = Writes("reset", SetPassword(Load(u), TRUE))] /\ Issue
      /\ UNCHANGED <<users, team_users, sessions>> /\ UNCHANGED <<failures, barred>>
  BY DEF ResetUserPassword, Tables
<1>3. HandlersOK'  BY <1>1, <1>2, FrameStays DEF AInv
<1>4. HistoryOK'  BY <1>2, IssueOK DEF AInv
<1> QED  BY <1>2, <1>3, <1>4, HandlerStep

(* SetUserStatus.                                                           *)
LEMMA SetUserStatusStep ==
    ASSUME AInv, NEW h \in Handlers, NEW u \in Users, NEW active \in BOOLEAN,
           SetUserStatus(h, u, active)
    PROVE  AInv'
<1> DEFINE s == [Load(u) EXCEPT !.active = active]
<1>1. StructOK(Load(u)) /\ Load(u) \in Structs  BY LoadOK DEF AInv, StructOK
<1>2. s \in Structs /\ s.role = Load(u).role /\ s.id = Load(u).id  BY <1>1 DEF Structs
<1>3. /\ f' = [f EXCEPT ![h] = Writes("status", s)]
      /\ UNCHANGED <<users, team_users, sessions>> /\ UNCHANGED History
  BY DEF SetUserStatus, Tables
<1> HIDE DEF s
<1>4. StructOK(s)  BY <1>1, <1>2 DEF StructOK
<1>5. HandlersOK'  BY <1>3, <1>4, WritesOK, FrameStays DEF AInv
<1> QED  BY <1>3, <1>5, HandlerStep, HistoryStays DEF AInv

(* UpdateUser: whoever is given the role root is the root already, even if  *)
(* the actor was loaded long ago.                                           *)
LEMMA UpdateUserStep ==
    ASSUME AInv, NEW h \in Handlers, NEW u \in Users, NEW role \in Roles,
           NEW add \in SUBSET Teams, NEW remove \in SUBSET Teams,
           UpdateUser(h, u, role, add, remove)
    PROVE  AInv'
<1> DEFINE s == [Load(u) EXCEPT !.role = role]
           x == [Writes("update", s) EXCEPT !.add = add, !.remove = remove]
<1>1. StructOK(Load(u)) /\ Load(u) \in Structs /\ Load(u).id = u
  BY LoadOK DEF AInv, StructOK
<1>2. s \in Structs /\ s.role = role /\ s.id = u  BY <1>1 DEF Structs
<1>3. /\ f' = [f EXCEPT ![h] = x] /\ MayUpdate(f[h].me, Load(u), role)
      /\ UNCHANGED <<users, team_users, sessions>> /\ UNCHANGED History
  BY DEF UpdateUser, Tables
<1>4. StructOK(f[h].me)  BY DEF AInv, HandlersOK, FrameOK
<1>5. role = "root" => u = Root  BY <1>1, <1>3, <1>4 DEF MayUpdate, StructOK
<1> HIDE DEF s
<1>6. StructOK(s)  BY <1>2, <1>5 DEF StructOK
<1>7. FrameOK(Writes("update", s)) /\ Writes("update", s) \in Frames  BY <1>6, WritesOK
<1>8. x \in Frames  BY <1>7 DEF Frames
<1>9. /\ Writes("update", s).pc = "check"
      /\ x.me = Writes("update", s).me /\ x.row = Writes("update", s).row
      /\ x.pc = Writes("update", s).pc /\ x.uid = Writes("update", s).uid
  BY <1>7 DEF Frames, Writes, Idle
<1> HIDE DEF x
<1>10. FrameOK(x)  BY <1>7, <1>8, <1>9 DEF FrameOK, Joining
<1>11. HandlersOK'  BY <1>3, <1>10, FrameStays DEF AInv
<1> QED  BY <1>3, <1>11, HandlerStep, HistoryStays DEF AInv

(* DeleteUser.                                                              *)
LEMMA DeleteUserStep ==
    ASSUME AInv, NEW h \in Handlers, NEW u \in Users, DeleteUser(h, u) PROVE AInv'
<1> DEFINE x == [Idle EXCEPT !.op = "delete", !.uid = u, !.pc = "recheck"]
<1>1. f' = [f EXCEPT ![h] = x] /\ UNCHANGED <<users, team_users, sessions>>
      /\ UNCHANGED History
  BY DEF DeleteUser, Tables
<1>2. Idle \in Frames /\ StructOK(NoStruct)  BY IdleOK DEF FrameOK
<1>3. x \in Frames  BY <1>2 DEF Frames
<1>4. x.me = NoStruct /\ x.row = NoStruct /\ x.uid = u /\ x.pc \in {"auth", "recheck"}
  BY DEF Idle
<1> HIDE DEF x
<1>5. FrameOK(x)  BY <1>2, <1>3, <1>4 DEF FrameOK, Joining
<1>6. HandlersOK'  BY <1>1, <1>5, FrameStays DEF AInv
<1> QED  BY <1>1, <1>6, HandlerStep, HistoryStays DEF AInv

(* CreateUser: nobody is created as root.                                   *)
LEMMA CreateUserStep ==
    ASSUME AInv, NEW h \in Handlers, NEW u \in Users, NEW role \in Roles, NEW t \in Teams,
           NEW approver \in BOOLEAN, CreateUser(h, u, role, t, approver)
    PROVE  AInv'
<1> DEFINE new == [id |-> u, role |-> role, pw |-> 0, must |-> TRUE, active |-> TRUE,
                   teams |-> {}]
           s == SetPassword(new, TRUE)
           flag == approver /\ f[h].me.role = "root" /\ role = "admin"
           x == [f[h] EXCEPT !.op = "create", !.uid = u, !.pc = "insert", !.row = s,
                             !.add = {t}, !.flag = flag]
<1>1. /\ role # "root" /\ Issue
      /\ f' = [f EXCEPT ![h].op = "create", ![h].uid = u, ![h].pc = "insert",
                        ![h].row = s, ![h].add = {t}, ![h].flag = flag]
      /\ UNCHANGED <<users, team_users, sessions>> /\ UNCHANGED <<failures, barred>>
  BY DEF CreateUser, Tables
<1>2. new \in Structs /\ new.role = role  BY DEF Structs
<1>3. StructOK(new)  BY <1>1, <1>2 DEF StructOK
<1>4. StructOK(s)  BY <1>3, SetPasswordOK DEF AInv
<1>5. flag \in BOOLEAN  BY Zenon
<1>6. f \in [Handlers -> Frames] /\ f[h] \in Frames /\ FrameOK(f[h])
  BY DEF AInv, HandlersOK
<1> HIDE DEF s, flag
<1>7. f' = [f EXCEPT ![h] = x]  BY <1>1, <1>6
<1>8. s \in Structs /\ {t} \in SUBSET Teams  BY <1>4 DEF StructOK
<1>9. x \in Frames  BY <1>5, <1>6, <1>8 DEF Frames
<1>10. x.me = f[h].me /\ x.row = s /\ x.uid = u /\ x.add = {t}  BY <1>6 DEF Frames
<1> HIDE DEF x
<1>11. FrameOK(x)  BY <1>4, <1>6, <1>9, <1>10 DEF FrameOK
<1>12. HandlersOK'  BY <1>7, <1>11, FrameStays DEF AInv
<1>13. HistoryOK'  BY <1>1, IssueOK DEF AInv
<1> QED  BY <1>1, <1>12, <1>13, HandlerStep

(* The steps the handlers share.                                            *)
LEMMA CheckExistsStep ==
    ASSUME AInv, NEW h \in Handlers, CheckExists(h) PROVE AInv'
<1>1. /\ Goto(h, "save") \/ End(h)
      /\ UNCHANGED <<users, team_users, sessions>> /\ UNCHANGED History
  BY DEF CheckExists, Tables
<1>2. HandlersOK'  BY <1>1, EndOK, GotoOK DEF AInv, Bound, Joining
<1> QED  BY <1>1, <1>2, HandlerStep, HistoryStays DEF AInv

(* userRepository.Update.                                                   *)
LEMMA SaveUserStep ==
    ASSUME AInv, NEW h \in Handlers, SaveUser(h) PROVE AInv'
<1>1. /\ Save(f[h].row) /\ UNCHANGED <<sessions, failures, issued>>
      /\ Goto(h, "drop") \/ Goto(h, "teams") \/ End(h)
      /\ \/ barred' = [barred EXCEPT ![f[h].row.id] = f[h].row.pw]
         \/ barred' = barred
  BY DEF SaveUser, AfterSave
<1>2. StructOK(f[h].row) /\ f[h].row.pw \in Nat
  BY DEF AInv, HandlersOK, FrameOK, StructOK, Structs
<1>3. UsersOK' /\ TeamsOK'  BY <1>1, <1>2, SaveOK DEF AInv
<1>4. HandlersOK'  BY <1>1, EndOK, GotoOK DEF AInv, Bound, Joining
<1>5. HistoryOK'  BY <1>1, <1>2 DEF AInv, HistoryOK
<1>6. SessionsOK'  BY <1>1, SessionsStay DEF AInv
<1> QED  BY <1>3, <1>4, <1>5, <1>6 DEF AInv

(* Sessions are dropped.                                                    *)
LEMMA InvalidateSessionsStep ==
    ASSUME AInv, NEW h \in Handlers, InvalidateSessions(h) PROVE AInv'
<1>1. /\ Goto(h, "unlink") \/ End(h)
      /\ UNCHANGED <<users, team_users>> /\ UNCHANGED History
  BY DEF InvalidateSessions
<1>2. SessionsOK'  BY DeleteOK DEF AInv, InvalidateSessions
<1>3. HandlersOK'  BY <1>1, EndOK, GotoOK DEF AInv, Bound, Joining
<1> QED  BY <1>1, <1>2, <1>3, UsersStay, HistoryStays DEF AInv, TeamsOK

(* UserUseCase.DeleteUser looks again.                                      *)
LEMMA RecheckDeleteStep ==
    ASSUME AInv, NEW h \in Handlers, RecheckDelete(h) PROVE AInv'
<1>1. /\ Goto(h, "drop") \/ End(h)
      /\ UNCHANGED <<users, team_users, sessions>> /\ UNCHANGED History
  BY DEF RecheckDelete, Tables
<1>2. HandlersOK'  BY <1>1, EndOK, GotoOK DEF AInv, Bound, Joining
<1> QED  BY <1>1, <1>2, HandlerStep, HistoryStays DEF AInv

(* Steps that change only the memberships.                                  *)
LEMMA MembersStep ==
    ASSUME AInv, HandlersOK', TeamsOK', UNCHANGED <<users, sessions>>, HistoryOK'
    PROVE  AInv'
  BY UsersStay, SessionsStay DEF AInv

(* Memberships are deleted.                                                 *)
LEMMA DeleteMembershipsStep ==
    ASSUME AInv, NEW h \in Handlers, DeleteMemberships(h) PROVE AInv'
<1>1. TeamsOK'
  <2>1. \A t \in Teams : [team_users[t] EXCEPT ![f[h].uid] = "none"] \in [Users -> Ranks]
    BY DEF AInv, TeamsOK, Ranks
  <2> QED  BY <2>1 DEF DeleteMemberships, TeamsOK
<1>2. HandlersOK'  BY GotoOK DEF AInv, DeleteMemberships, Bound, Joining
<1> QED  BY <1>1, <1>2, MembersStep, HistoryStays DEF AInv, DeleteMemberships

(* The account is deleted.                                                  *)
LEMMA DeleteRowStep ==
    ASSUME AInv, NEW h \in Handlers, DeleteRow(h) PROVE AInv'
<1> DEFINE x == [NoRow EXCEPT !.role = "deleted"]
<1>1. x \in Rows /\ x.role = "deleted"  BY DEF NoRow, Rows
<1>2. users' = [users EXCEPT ![f[h].uid] = x]  BY DEF DeleteRow
<1> HIDE DEF x
<1>3. UsersOK'  BY <1>1, <1>2 DEF AInv, UsersOK, OnlyRootIsRoot
<1>4. HandlersOK'  BY EndOK DEF AInv, DeleteRow
<1> QED  BY <1>3, <1>4, SessionsStay, HistoryStays DEF AInv, DeleteRow, TeamsOK

(* The account is inserted.                                                 *)
LEMMA InsertUserStep ==
    ASSUME AInv, NEW h \in Handlers, InsertUser(h) PROVE AInv'
<1> DEFINE s == f[h].row
           x == [role |-> s.role, pw |-> s.pw, must |-> s.must, active |-> s.active]
<1>1. users' = [users EXCEPT ![s.id] = x]  BY DEF InsertUser
<1>2. StructOK(s)  BY DEF AInv, HandlersOK, FrameOK
<1> HIDE DEF s
<1>3. x \in Rows /\ x.role = s.role  BY <1>2 DEF StructOK, Structs, Rows
<1> HIDE DEF x
<1>4. UsersOK'  BY <1>1, <1>2, <1>3 DEF AInv, UsersOK, OnlyRootIsRoot, StructOK
<1>5. f[h].add # {}  BY DEF InsertUser, At, AInv, HandlersOK, FrameOK, Joining
<1>6. HandlersOK'  BY <1>5, GotoOK DEF AInv, InsertUser, Bound
<1> QED  BY <1>4, <1>6, SessionsStay, HistoryStays DEF AInv, InsertUser, TeamsOK

(* One membership more or less.                                             *)
LEMMA MemberOK ==
    ASSUME TeamsOK, NEW t \in Teams, NEW u,
           AddUserToTeam(t, u) \/ RemoveUserFromTeam(t, u)
    PROVE  TeamsOK'
<1>1. \A rank \in Ranks : [team_users EXCEPT ![t][u] = rank] \in [Teams -> [Users -> Ranks]]
  BY DEF TeamsOK
<1> QED  BY <1>1 DEF TeamsOK, AddUserToTeam, RemoveUserFromTeam, Ranks

(* A frame whose teams have changed.                                        *)
LEMMA FewerOK ==
    ASSUME HandlersOK, NEW h \in Handlers, At(h, "teams"), NEW T \in SUBSET Teams,
           \/ f' = [f EXCEPT ![h].remove = T]
           \/ f' = [f EXCEPT ![h].add = T]
    PROVE  HandlersOK'
<1>1. f \in [Handlers -> Frames] /\ f[h] \in Frames /\ FrameOK(f[h])  BY DEF HandlersOK
<1>2. CASE f' = [f EXCEPT ![h].remove = T]
  <2> DEFINE x == [f[h] EXCEPT !.remove = T]
  <2>1. f' = [f EXCEPT ![h] = x]  BY <1>1, <1>2
  <2>2. x \in Frames  BY <1>1 DEF Frames
  <2>3. x.me = f[h].me /\ x.row = f[h].row /\ x.pc = f[h].pc /\ x.uid = f[h].uid
    BY <1>1 DEF Frames
  <2> HIDE DEF x
  <2> QED  BY <1>1, <2>1, <2>2, <2>3, FrameStays DEF FrameOK, Joining, At
<1>3. CASE f' = [f EXCEPT ![h].add = T]
  <2> DEFINE x == [f[h] EXCEPT !.add = T]
  <2>1. f' = [f EXCEPT ![h] = x]  BY <1>1, <1>3
  <2>2. x \in Frames  BY <1>1 DEF Frames
  <2>3. x.me = f[h].me /\ x.row = f[h].row /\ x.pc = f[h].pc /\ x.uid = f[h].uid
    BY <1>1 DEF Frames
  <2> HIDE DEF x
  <2> QED  BY <1>1, <2>1, <2>2, <2>3, FrameStays DEF FrameOK, Joining, At
<1> QED  BY <1>2, <1>3

(* The new user joins its team.                                             *)
LEMMA JoinTeamStep ==
    ASSUME AInv, NEW h \in Handlers, JoinTeam(h) PROVE AInv'
<1>1. f[h].add # {} /\ f[h].add \subseteq Teams
  BY DEF JoinTeam, At, AInv, HandlersOK, FrameOK, Joining, Frames
<1>2. PICK t \in Teams : AddUserToTeam(t, f[h].uid)  BY <1>1 DEF JoinTeam
<1>3. TeamsOK'  BY <1>2, MemberOK DEF AInv
<1>4. Goto(h, "flag") \/ End(h)  BY DEF JoinTeam
<1>5. HandlersOK'  BY <1>4, EndOK, GotoOK DEF AInv, Bound, Joining
<1> QED  BY <1>3, <1>5, MembersStep, HistoryStays DEF AInv, JoinTeam

(* The new user becomes an approver.                                        *)
LEMMA SetTeamApproverStep ==
    ASSUME AInv, NEW h \in Handlers, SetTeamApprover(h) PROVE AInv'
<1>1. TeamsOK'
  <2>1. \A t \in Teams : team_users'[t] \in [Users -> Ranks]
    BY DEF SetTeamApprover, AInv, TeamsOK, Ranks
  <2>2. team_users' = [t \in Teams |-> team_users'[t]]  BY DEF SetTeamApprover
  <2> QED  BY <2>1, <2>2 DEF TeamsOK
<1>2. HandlersOK'  BY EndOK DEF AInv, SetTeamApprover
<1> QED  BY <1>1, <1>2, MembersStep, HistoryStays DEF AInv, SetTeamApprover

(* UpdateUser changes one membership after the other.                       *)
LEMMA UpdateTeamsStep ==
    ASSUME AInv, NEW h \in Handlers, UpdateTeams(h) PROVE AInv'
<1>1. f[h].add \subseteq Teams /\ f[h].remove \subseteq Teams /\ At(h, "teams")
  BY DEF UpdateTeams, AInv, HandlersOK, Frames
<1>2. UNCHANGED <<users, sessions>> /\ UNCHANGED History  BY DEF UpdateTeams
<1>3. CASE \E t \in f[h].remove :
             /\ RemoveUserFromTeam(t, f[h].uid)
             /\ f' = [f EXCEPT ![h].remove = @ \ {t}]
  <2>1. PICK t \in Teams : /\ RemoveUserFromTeam(t, f[h].uid)
                           /\ f' = [f EXCEPT ![h].remove = @ \ {t}]
    BY <1>1, <1>3
  <2>2. f' = [f EXCEPT ![h].remove = f[h].remove \ {t}]  BY <2>1 DEF AInv, HandlersOK
  <2>3. f[h].remove \ {t} \in SUBSET Teams  BY <1>1
  <2>4. HandlersOK'  BY <1>1, <2>2, <2>3, FewerOK DEF AInv
  <2>5. TeamsOK'  BY <2>1, MemberOK DEF AInv
  <2> QED  BY <1>2, <2>4, <2>5, MembersStep, HistoryStays DEF AInv
<1>4. CASE \E t \in f[h].add :
             /\ AddUserToTeam(t, f[h].uid)
             /\ f' = [f EXCEPT ![h].add = @ \ {t}]
  <2>1. PICK t \in Teams : /\ AddUserToTeam(t, f[h].uid)
                           /\ f' = [f EXCEPT ![h].add = @ \ {t}]
    BY <1>1, <1>4
  <2>2. f' = [f EXCEPT ![h].add = f[h].add \ {t}]  BY <2>1 DEF AInv, HandlersOK
  <2>3. f[h].add \ {t} \in SUBSET Teams  BY <1>1
  <2>4. HandlersOK'  BY <1>1, <2>2, <2>3, FewerOK DEF AInv
  <2>5. TeamsOK'  BY <2>1, MemberOK DEF AInv
  <2> QED  BY <1>2, <2>4, <2>5, MembersStep, HistoryStays DEF AInv
<1>5. CASE End(h) /\ UNCHANGED team_users
  BY <1>2, <1>5, EndOK, MembersStep, HistoryStays DEF AInv, TeamsOK
<1> QED  BY <1>3, <1>4, <1>5 DEF UpdateTeams

(* A database call fails: what is stored stays as it is.                    *)
LEMMA FailureOK ==
    ASSUME HistoryOK, failures < MaxFailures, failures' = failures + 1,
           UNCHANGED <<issued, barred>>
    PROVE  HistoryOK'
  BY AccountsAssumption DEF HistoryOK

(* A handler stops at the error.                                            *)
LEMMA FailStep == ASSUME AInv, NEW h \in Handlers, Fail(h) PROVE AInv'
<1>1. HandlersOK' /\ HistoryOK'  BY EndOK, FailureOK DEF AInv, Fail
<1> QED  BY <1>1, HandlerStep DEF Fail, Tables

(* A handler goes on after the error.                                       *)
LEMMA FailIgnoredStep == ASSUME AInv, NEW h \in Handlers, FailIgnored(h) PROVE AInv'
<1>1. HistoryOK' /\ UNCHANGED <<users, team_users, sessions>>
  BY FailureOK DEF AInv, FailIgnored, Tables
<1>2. CASE At(h, "consume") /\ AfterConsume(h)
  BY <1>1, <1>2, AfterConsumeOK, HandlerStep
<1>3. CASE At(h, "teams") /\ \E t \in f[h].remove : f' = [f EXCEPT ![h].remove = @ \ {t}]
  <2>1. PICK t \in f[h].remove : f' = [f EXCEPT ![h].remove = @ \ {t}]  BY <1>3
  <2>2. f' = [f EXCEPT ![h].remove = f[h].remove \ {t}]  BY <2>1 DEF AInv, HandlersOK
  <2>3. f[h].remove \ {t} \in SUBSET Teams  BY DEF AInv, HandlersOK, Frames
  <2>4. HandlersOK'  BY <1>3, <2>2, <2>3, FewerOK DEF AInv
  <2> QED  BY <1>1, <2>4, HandlerStep
<1>4. CASE At(h, "teams") /\ \E t \in f[h].add : f' = [f EXCEPT ![h].add = @ \ {t}]
  <2>1. PICK t \in f[h].add : f' = [f EXCEPT ![h].add = @ \ {t}]  BY <1>4
  <2>2. f' = [f EXCEPT ![h].add = f[h].add \ {t}]  BY <2>1 DEF AInv, HandlersOK
  <2>3. f[h].add \ {t} \in SUBSET Teams  BY DEF AInv, HandlersOK, Frames
  <2>4. HandlersOK'  BY <1>4, <2>2, <2>3, FewerOK DEF AInv
  <2> QED  BY <1>1, <2>4, HandlerStep
<1> QED  BY <1>2, <1>3, <1>4 DEF FailIgnored

-----------------------------------------------------------------------------
(* The theorems.                                                            *)

(* The invariant holds on a new installation and on one that is at work.    *)
LEMMA AccountsInit == AInit => AInv
<1> SUFFICES ASSUME AInit PROVE AInv  OBVIOUS
<1>1. NoRow \in Rows /\ \A role \in Roles : Row(role) \in Rows
  BY DEF NoRow, Row, Rows
<1>2. NoRow.role = "unborn" /\ \A role \in Roles : Row(role).role = role
  BY DEF NoRow, Row
<1>3. UsersOK
  <2>1. CASE Fresh  BY <1>1, <1>2, <2>1 DEF UsersOK, OnlyRootIsRoot, Fresh
  <2>2. CASE ~Fresh
    <3>1. PICK a \in Users \ {Root} : users = [u \in Users |->
               IF u = Root THEN Row("root") ELSE IF u = a THEN Row("admin") ELSE NoRow]
      BY <2>2 DEF AInit
    <3>2. "root" \in Roles /\ "admin" \in Roles  BY DEF Roles
    <3> QED  BY <1>1, <1>2, <3>1, <3>2 DEF UsersOK, OnlyRootIsRoot
  <2> QED  BY <2>1, <2>2
<1>4. TeamsOK
  <2>1. CASE team_users = [t \in Teams |-> [u \in Users |-> "none"]]
    BY <2>1 DEF TeamsOK, Ranks
  <2>2. CASE \E a \in Users : team_users = [t \in Teams |-> [u \in Users |->
                                 IF u = a THEN "member" ELSE "none"]]
    BY <2>2 DEF TeamsOK, Ranks
  <2> QED  BY <2>1, <2>2 DEF AInit
<1>5. SessionsOK
  <2>1. NoSession \in SessionRows /\ NoSession.state = "unused"
    BY DEF NoSession, SessionRows
  <2> QED  BY <2>1 DEF AInit, SessionsOK, Stored
<1>6. HandlersOK  BY IdleOK DEF AInit, HandlersOK, FrameOK
<1>7. HistoryOK  BY AccountsAssumption DEF AInit, HistoryOK
<1> QED  BY <1>3, <1>4, <1>5, <1>6, <1>7 DEF AInv

(* Every step preserves the invariant.                                      *)
LEMMA AccountsNext == AInv /\ [ANext]_avars => AInv'
<1> SUFFICES ASSUME AInv, [ANext]_avars PROVE AInv'  OBVIOUS
<1>1. CASE UNCHANGED avars
  BY <1>1, HandlerStep, HistoryStays DEF avars, AInv, HandlersOK, History
<1>2. CASE InitializeRootUser  BY <1>2, InitializeRootUserStep
<1>3. ASSUME NEW h \in Handlers, Start(h) PROVE AInv'
  BY <1>3, LoginStep, FirstTimeByNameStep, LogoutStep, ReadTokenStep DEF Start
<1>4. ASSUME NEW h \in Handlers, Manage(h) PROVE AInv'
  BY <1>4, ChangePasswordStep, ResetUserPasswordStep, DeleteUserStep, SetUserStatusStep,
     UpdateUserStep, CreateUserStep DEF Manage
<1>5. ASSUME NEW h \in Handlers, Proceed(h) PROVE AInv'
  BY <1>5, CreateSessionStep, CheckCurrentPasswordStep, LoadTokenUserStep,
     ConsumeTokenStep, LoadFirstTimeStep, LoadActorStep, CheckExistsStep, SaveUserStep,
     InvalidateSessionsStep, RecheckDeleteStep, DeleteMembershipsStep, DeleteRowStep,
     InsertUserStep, JoinTeamStep, SetTeamApproverStep, UpdateTeamsStep, FailStep,
     FailIgnoredStep DEF Proceed
<1> QED  BY <1>1, <1>2, <1>3, <1>4, <1>5 DEF ANext

(* Rows, memberships, sessions and what handlers hold stay well-formed.     *)
THEOREM AccountsTypeCorrect == ASpec => []ATypeOK
<1>1. AInv => ATypeOK
  BY DEF AInv, UsersOK, TeamsOK, SessionsOK, HandlersOK, HistoryOK, ATypeOK
<1> QED  BY <1>1, AccountsInit, AccountsNext, PTL DEF ASpec

(* Nobody but the account InitializeRootUser created ever has the role      *)
(* root: neither UpdateUser nor CreateUser gives it away, and no stale      *)
(* struct any of the overlapping handlers saves brings it to another        *)
(* account, whatever database calls fail on the way.                        *)
THEOREM RootIsUnique == ASpec => []OnlyRootIsRoot
<1>1. AInv => OnlyRootIsRoot  BY DEF AInv, UsersOK
<1> QED  BY <1>1, AccountsInit, AccountsNext, PTL DEF ASpec

-----------------------------------------------------------------------------
(* One handler at a time                                                    *)
(*                                                                          *)
(* Between two steps of its own nothing else happens, so the structs a      *)
(* handler saves are those of the rows.  With two handlers all of what      *)
(* follows is false: a stale struct brings an old password or a deleted     *)
(* account back.                                                            *)

Serial == \A h, k \in Handlers : h = k

(* A reset or a forced change has saved the new password and still has to   *)
(* drop the sessions of u.                                                  *)
Dropping(u) == \E h \in Handlers :
    f[h].pc = "drop" /\ f[h].uid = u /\ f[h].op \in {"reset", "first"}

(* The passwords of the accounts that exist were issued after the last      *)
(* reset, or by it.                                                         *)
AccountsFit ==
    \A u \in Users : /\ Exists(u) => barred[u] <= users[u].pw /\ users[u].pw <= issued
                     /\ users[u].role = "unborn" => barred[u] = 0

(* A session was opened after the last reset, an ordinary one by a user who *)
(* need not change the password, a token for the password to be changed.    *)
SessionFits(s) ==
    LET u == sessions[s].user
    IN  /\ barred[u] <= sessions[s].pw
        /\ sessions[s].purpose = "auth" => ~users[u].must
        /\ sessions[s].purpose = "password_change" =>
             users[u].must /\ users[u].pw = sessions[s].pw

SessionsCurrent ==
    failures = 0 => \A s \in Sessions : Stored(s) =>
        SessionFits(s) \/ Dropping(sessions[s].user)

(* What a handler in the middle of a call can rely on.                      *)
Relies(x) ==
    /\ x.pc \in {"tokenUser", "consume"} => x.op \in {"first", "page"}
    /\ x.pc \in {"auth", "load"} => x.op = "first"
    /\ x.pc = "open" =>
         Exists(x.uid) /\ x.row.pw = users[x.uid].pw /\ x.row.must = users[x.uid].must
    /\ x.pc = "actor" => Exists(x.uid) /\ (failures = 0 => ~users[x.uid].must)
    /\ x.pc = "admitted" =>
         /\ x.me.id \in Users /\ Exists(x.me.id) /\ x.me.role \in Roles
         /\ x.me.pw = users[x.me.id].pw
         /\ failures = 0 => ~users[x.me.id].must
    /\ x.pc \in {"check", "save"} =>
         /\ x.row.id \in Users /\ x.uid = x.row.id
         /\ Exists(x.row.id) /\ x.row.role \in Roles
         /\ users[x.row.id].pw <= x.row.pw /\ x.row.pw <= issued
         /\ x.op \in {"status", "update"} =>
              x.row.pw = users[x.row.id].pw /\ x.row.must = users[x.row.id].must
         /\ x.op = "profile" => ~x.row.must /\ (failures = 0 => ~users[x.row.id].must)
         /\ x.op \in {"status", "update", "profile", "reset", "first"}
    /\ x.pc \in {"unlink", "erase"} =>
         \A s \in Sessions : Stored(s) => sessions[s].user # x.uid
    /\ x.pc = "erase" => \A t \in Teams : x.uid \in Users => team_users[t][x.uid] = "none"
    /\ x.pc = "insert" =>
         /\ x.row.id \in Users /\ users[x.row.id].role = "unborn"
         /\ x.row.role \in Roles /\ x.row.pw <= issued
         /\ \E u \in Users : Exists(u)

SAInv == /\ AInv /\ NothingDangling /\ AccountsFit /\ SessionsCurrent
         /\ \A h \in Handlers : Relies(f[h])

(* The invariant from its parts: the only frame is the one of the step.     *)
LEMMA SerialParts ==
    ASSUME Serial, NEW h \in Handlers, AInv', NothingDangling', AccountsFit',
           SessionsCurrent', Relies(f[h])'
    PROVE  SAInv'
  BY DEF Serial, SAInv

(* Places where a handler relies on nothing it has read.                    *)
Free == {"idle", "drop", "teams", "recheck", "join", "flag"}

(* There the invariant says nothing of its frame.                           *)
LEMMA FreeRelies ==
    ASSUME NEW h \in Handlers, f'[h].pc \in Free PROVE Relies(f[h])'
  BY DEF Relies, Free

(* Nor of a handler that has answered.                                      *)
LEMMA EndRelies ==
    ASSUME AInv, NEW h \in Handlers, End(h) PROVE Relies(f[h])' /\ f'[h] = Idle
<1>1. f'[h] = Idle /\ Idle.pc = "idle"
  BY DEF End, AInv, HandlersOK, Idle
<1> QED  BY <1>1, FreeRelies DEF Free

(* A handler that goes on keeps the rest of its frame.                      *)
LEMMA GotoFields ==
    ASSUME AInv, NEW h \in Handlers, NEW l, Goto(h, l)
    PROVE  /\ f'[h].pc = l /\ f'[h].op = f[h].op /\ f'[h].uid = f[h].uid
           /\ f'[h].me = f[h].me /\ f'[h].row = f[h].row
<1>1. f \in [Handlers -> Frames] /\ f[h] \in Frames
  BY DEF AInv, HandlersOK
<1>2. f'[h] = [f[h] EXCEPT !.pc = l]
  BY <1>1 DEF Goto
<1> QED  BY <1>1, <1>2 DEF Frames

(* A step that gives one handler a new frame.                               *)
LEMMA NewFrame ==
    ASSUME AInv, NEW h \in Handlers, NEW x, f' = [f EXCEPT ![h] = x]
    PROVE  f'[h] = x
  BY DEF AInv, HandlersOK

(* With one handler, and it not about to drop sessions, nobody is.          *)
LEMMA NobodyDrops ==
    ASSUME Serial, NEW h \in Handlers, f[h].pc # "drop" PROVE \A u : ~Dropping(u)
  BY DEF Serial, Dropping

(* Steps that touch no account and no membership, and add no session.       *)
LEMMA TablesShrink ==
    ASSUME Serial, SAInv, NEW h \in Handlers, UNCHANGED <<users, team_users, barred>>,
           issued' \in Nat, issued <= issued',
           \A s \in Sessions : Stored(s)' => Stored(s) /\ sessions'[s] = sessions[s],
           \/ failures' # 0
           \/ failures' = failures /\ f[h].pc # "drop"
    PROVE  NothingDangling' /\ AccountsFit' /\ SessionsCurrent'
<1>1. NothingDangling'
  BY DEF SAInv, NothingDangling, Exists
<1>2. AccountsFit'
  BY DEF SAInv, AccountsFit, Exists, AInv, HistoryOK, UsersOK, Rows
<1>3. SessionsCurrent'
  <2>1. CASE failures' # 0
    BY <2>1 DEF SessionsCurrent
  <2>2. CASE failures' = failures /\ f[h].pc # "drop"
    <3> SUFFICES ASSUME failures' = 0, NEW s \in Sessions, Stored(s)'
                 PROVE  SessionFits(s)'
      BY DEF SessionsCurrent
    <3>1. Stored(s) /\ sessions'[s] = sessions[s]
      OBVIOUS
    <3>2. SessionFits(s)
      BY <2>2, <3>1, NobodyDrops DEF SAInv, SessionsCurrent
    <3> QED  BY <3>1, <3>2 DEF SessionFits
  <2> QED  BY <2>1, <2>2
<1> QED  BY <1>1, <1>2, <1>3

(* Steps that change no table at all.                                       *)
LEMMA TablesSame ==
    ASSUME Serial, SAInv, NEW h \in Handlers, UNCHANGED Tables, UNCHANGED barred,
           issued' \in Nat, issued <= issued',
           \/ failures' # 0
           \/ failures' = failures /\ f[h].pc # "drop"
    PROVE  NothingDangling' /\ AccountsFit' /\ SessionsCurrent'
<1>1. \A s \in Sessions : Stored(s)' => Stored(s) /\ sessions'[s] = sessions[s]
  BY DEF Tables, Stored
<1> QED  BY <1>1, TablesShrink DEF Tables

(* The history of steps without a failure and without a new password.       *)
LEMMA SameHistory ==
    ASSUME SAInv, UNCHANGED History
    PROVE  UNCHANGED barred /\ issued' \in Nat /\ issued <= issued' /\ failures' = failures
  BY DEF SAInv, AInv, HistoryOK, History

(* The same with a new password.                                            *)
LEMMA IssuedHistory ==
    ASSUME SAInv, Issue
    PROVE  issued \in Nat /\ issued' \in Nat /\ issued <= issued' /\ issued' = issued + 1
  BY DEF SAInv, AInv, HistoryOK, Issue

(* What a loaded struct holds.                                              *)
LEMMA LoadFields ==
    ASSUME NEW u
    PROVE  /\ Load(u).id = u /\ Load(u).role = users[u].role /\ Load(u).pw = users[u].pw
           /\ Load(u).must = users[u].must
  BY DEF Load

(* Deleting one session.                                                    *)
LEMMA OneSessionLess ==
    ASSUME SAInv, NEW d, DeleteByID(d)
    PROVE  \A s \in Sessions : Stored(s)' => Stored(s) /\ sessions'[s] = sessions[s]
<1>1. Gone.state = "gone"
  BY DEF Gone, NoSession
<1> QED  BY <1>1 DEF SAInv, AInv, SessionsOK, DeleteByID, Stored

-----------------------------------------------------------------------------
(* The root account appears when no other exists.                           *)
LEMMA InitializeRootUserSerial ==
    ASSUME Serial, SAInv, InitializeRootUser PROVE SAInv'
<1> DEFINE x == [role |-> "root", pw |-> issued + 1, must |-> TRUE, active |-> TRUE]
<1>1. /\ \A u \in Users : ~Exists(u)
      /\ users[Root].role = "unborn" /\ Issue /\ users' = [users EXCEPT ![Root] = x]
      /\ UNCHANGED <<team_users, sessions, f, failures, barred>>
  BY DEF InitializeRootUser
<1>2. x.role = "root" /\ x.pw = issued + 1
  OBVIOUS
<1> HIDE DEF x
<1>3. AInv'
  BY InitializeRootUserStep DEF SAInv
<1>4. /\ Root \in Users /\ users'[Root] = x
      /\ \A u \in Users : u # Root => users'[u] = users[u]
  BY <1>1, AccountsAssumption DEF SAInv, AInv, UsersOK
<1>5. \A s \in Sessions : ~Stored(s)
  BY <1>1 DEF SAInv, NothingDangling, AInv, SessionsOK
<1>6. \A t \in Teams, u \in Users : team_users[t][u] = "none"
  BY <1>1 DEF SAInv, NothingDangling
<1>7. \A s \in Sessions : ~Stored(s)'
  BY <1>1, <1>5 DEF Stored
<1>8. NothingDangling'
  BY <1>1, <1>6, <1>7 DEF NothingDangling
<1>9. AccountsFit'
  BY <1>1, <1>2, <1>4, IssuedHistory DEF SAInv, AccountsFit, Exists, Roles
<1>10. SessionsCurrent'
  BY <1>7 DEF SessionsCurrent
<1>11. ASSUME NEW h \in Handlers PROVE Relies(f[h])'
  <2>1. f[h].pc \notin {"open", "actor", "admitted", "check", "save", "insert"}
    BY <1>1 DEF SAInv, Relies, AInv, HandlersOK, FrameOK, Bound
  <2> QED  BY <1>1, <1>6, <1>7, <2>1 DEF Relies, SAInv
<1> QED  BY <1>3, <1>8, <1>9, <1>10, <1>11 DEF SAInv

(* The struct of a login is the row.                                        *)
LEMMA LoginSerial ==
    ASSUME Serial, SAInv, NEW h \in Handlers, NEW u \in Users, NEW p, Login(h, u, p)
    PROVE  SAInv'
<1>1. AInv'
  BY LoginStep DEF SAInv
<1>2. /\ f[h].pc = "idle" /\ Exists(u) /\ UNCHANGED Tables /\ UNCHANGED History
      /\ f' = [f EXCEPT ![h] = [Idle EXCEPT !.op = "login", !.pc = "open",
                                            !.uid = u, !.row = Load(u)]]
  BY DEF Login, At, Authenticates
<1>3. PICK x : x = [Idle EXCEPT !.op = "login", !.pc = "open", !.uid = u, !.row = Load(u)]
  OBVIOUS
<1>4. x.pc = "open" /\ x.uid = u /\ x.row = Load(u)
  BY <1>3 DEF Idle
<1>5. f'[h] = x
  BY <1>2, <1>3, NewFrame DEF SAInv
<1>6. Relies(f[h])'
  BY <1>2, <1>4, <1>5, LoadFields DEF Relies, Tables, Exists
<1> QED  BY <1>1, <1>2, <1>6, TablesSame, SameHistory, SerialParts

(* A session is opened for a password that is current.                      *)
LEMMA CreateSessionSerial ==
    ASSUME Serial, SAInv, NEW h \in Handlers, NEW d \in Sessions, createSession(h, d)
    PROVE  SAInv'
<1> DEFINE u == f[h].uid
           x == [state |-> "open", user |-> f[h].uid, pw |-> f[h].row.pw,
                 purpose |-> IF f[h].row.must THEN "password_change" ELSE "auth"]
<1>1. AInv'
  BY CreateSessionStep DEF SAInv
<1>2. /\ f[h].pc = "open" /\ End(h) /\ sessions' = [sessions EXCEPT ![d] = x]
      /\ UNCHANGED <<users, team_users>> /\ UNCHANGED History
  BY DEF createSession, At
<1>3. u \in Users /\ Exists(u) /\ f[h].row.pw = users[u].pw /\ f[h].row.must = users[u].must
  BY <1>2 DEF SAInv, Relies, AInv, HandlersOK, FrameOK, Bound
<1>4. /\ x.user = u /\ x.pw = users[u].pw
      /\ x.purpose = "auth" => ~users[u].must
      /\ x.purpose = "password_change" => users[u].must
  BY <1>3
<1> HIDE DEF x, u
<1>5. sessions'[d] = x /\ \A s \in Sessions : s # d => sessions'[s] = sessions[s]
  BY <1>2 DEF SAInv, AInv, SessionsOK
<1>6. NothingDangling'
  BY <1>2, <1>3, <1>4, <1>5 DEF SAInv, NothingDangling, Stored, Exists
<1>7. AccountsFit'
  BY <1>2 DEF SAInv, AccountsFit, Exists, History
<1>8. SessionsCurrent'
  <2> SUFFICES ASSUME failures' = 0, NEW s \in Sessions, Stored(s)' PROVE SessionFits(s)'
    BY DEF SessionsCurrent
  <2>1. failures = 0 /\ UNCHANGED <<users, barred>>
    BY <1>2 DEF History
  <2>2. CASE s = d
    <3>1. barred[u] <= users[u].pw
      BY <1>3 DEF SAInv, AccountsFit
    <3> QED  BY <1>4, <1>5, <2>1, <2>2, <3>1 DEF SessionFits
  <2>3. CASE s # d
    <3>1. Stored(s) /\ sessions'[s] = sessions[s]
      BY <1>5, <2>3 DEF Stored
    <3>2. SessionFits(s)
      BY <1>2, <2>1, <3>1, NobodyDrops DEF SAInv, SessionsCurrent
    <3> QED  BY <2>1, <3>1, <3>2 DEF SessionFits
  <2> QED  BY <2>2, <2>3
<1> QED  BY <1>1, <1>2, <1>6, <1>7, <1>8, EndRelies, SerialParts DEF SAInv

(* Logout.                                                                  *)
LEMMA LogoutSerial ==
    ASSUME Serial, SAInv, NEW h \in Handlers, NEW d \in Sessions, Logout(h, d)
    PROVE  SAInv'
<1>1. AInv'
  BY LogoutStep DEF SAInv
<1>2. /\ f[h].pc = "idle" /\ f' = f /\ DeleteByID(d)
      /\ UNCHANGED <<users, team_users>> /\ UNCHANGED History
  BY DEF Logout, At
<1>3. \A s \in Sessions : Stored(s)' => Stored(s) /\ sessions'[s] = sessions[s]
  BY <1>2, OneSessionLess
<1>4. NothingDangling' /\ AccountsFit' /\ SessionsCurrent'
  BY <1>2, <1>3, TablesShrink, SameHistory
<1> QED  BY <1>1, <1>2, <1>4, FreeRelies, SerialParts DEF Free

(* Without a failure the user of an ordinary session need not change the    *)
(* password.                                                                *)
LEMMA ReadTokenSerial ==
    ASSUME Serial, SAInv, NEW h \in Handlers, NEW d \in Sessions,
           NEW op \in {"first", "page", "api", "profile"}, ReadToken(h, d, op)
    PROVE  SAInv'
<1>1. AInv'
  BY ReadTokenStep DEF SAInv
<1>2. /\ f[h].pc = "idle" /\ Stored(d) /\ UNCHANGED <<users, team_users>>
      /\ UNCHANGED History
  BY DEF ReadToken, At
<1>3. CASE DeleteByID(d) /\ UNCHANGED f
  <2>1. \A s \in Sessions : Stored(s)' => Stored(s) /\ sessions'[s] = sessions[s]
    BY <1>3, OneSessionLess
  <2>2. NothingDangling' /\ AccountsFit' /\ SessionsCurrent'
    BY <1>2, <2>1, TablesShrink, SameHistory
  <2> QED  BY <1>1, <1>2, <1>3, <2>2, FreeRelies, SerialParts DEF Free
<1>4. CASE ~(DeleteByID(d) /\ UNCHANGED f)
  <2>1. PICK purpose, v, l :
          /\ purpose = (IF op \in {"first", "page"} THEN "password_change" ELSE "auth")
          /\ v = (IF purpose = "auth" THEN None ELSE d)
          /\ l = (IF purpose = "auth" THEN "actor" ELSE "tokenUser")
    OBVIOUS
  <2>2. /\ sessions[d].purpose = purpose /\ UNCHANGED sessions
        /\ f' = [f EXCEPT ![h] = [Idle EXCEPT !.op = op, !.uid = sessions[d].user,
                                              !.via = v, !.pc = l]]
    BY <1>4, <2>1 DEF ReadToken
  <2>3. PICK x : x = [Idle EXCEPT !.op = op, !.uid = sessions[d].user, !.via = v, !.pc = l]
    OBVIOUS
  <2>4. x.pc = l /\ x.uid = sessions[d].user /\ x.op = op
    BY <2>3 DEF Idle
  <2>5. f'[h] = x
    BY <2>2, <2>3, NewFrame DEF SAInv
  <2>6. NothingDangling' /\ AccountsFit' /\ SessionsCurrent'
    BY <1>2, <2>2, TablesSame, SameHistory DEF Tables
  <2>7. Exists(sessions[d].user)
    BY <1>2 DEF SAInv, NothingDangling
  <2>8. failures = 0 /\ purpose = "auth" => ~users[sessions[d].user].must
    BY <1>2, <2>2, NobodyDrops DEF SAInv, SessionsCurrent, SessionFits
  <2>9. CASE purpose = "auth"
    <3>1. Relies(f[h])'
      BY <1>2, <2>1, <2>4, <2>5, <2>7, <2>8, <2>9 DEF Relies, Exists, History
    <3> QED  BY <1>1, <2>6, <3>1, SerialParts
  <2>10. CASE purpose # "auth"
    <3>1. op \in {"first", "page"} /\ l = "tokenUser"
      BY <2>1, <2>10
    <3>2. Relies(f[h])'
      BY <2>4, <2>5, <3>1 DEF Relies
    <3> QED  BY <1>1, <2>6, <3>2, SerialParts
  <2> QED  BY <2>9, <2>10
<1> QED  BY <1>3, <1>4

-----------------------------------------------------------------------------
(* Steps that only look, and go on to a place that relies on nothing.       *)
LEMMA LooksSerial ==
    ASSUME Serial, SAInv, NEW h \in Handlers, AInv', UNCHANGED Tables, UNCHANGED History,
           f[h].pc # "drop", NEW l, Goto(h, l) \/ End(h),
           \/ l \in Free
           \/ l = "consume" /\ f[h].pc = "tokenUser"
           \/ l = "load" /\ f[h].pc = "auth"
    PROVE  SAInv'
<1>1. NothingDangling' /\ AccountsFit' /\ SessionsCurrent'
  BY TablesSame, SameHistory
<1>2. CASE End(h)
  BY <1>1, <1>2, EndRelies, SerialParts DEF SAInv
<1>3. CASE Goto(h, l)
  <2>1. f'[h].pc = l /\ f'[h].op = f[h].op
    BY <1>3, GotoFields DEF SAInv
  <2>2. Relies(f[h])'
    BY <2>1 DEF SAInv, Relies, Free
  <2> QED  BY <1>1, <2>2, SerialParts
<1> QED  BY <1>2, <1>3

(* The forced change: the token is looked at.                               *)
LEMMA LoadTokenUserSerial ==
    ASSUME Serial, SAInv, NEW h \in Handlers, LoadTokenUser(h) PROVE SAInv'
<1>1. AInv' /\ f[h].pc = "tokenUser" /\ UNCHANGED Tables /\ UNCHANGED History
      /\ (Goto(h, "consume") \/ End(h))
  BY LoadTokenUserStep DEF SAInv, LoadTokenUser, At
<1> QED  BY <1>1, LooksSerial DEF Free

(* The forced change: the current password is checked.                      *)
LEMMA CheckCurrentPasswordSerial ==
    ASSUME Serial, SAInv, NEW h \in Handlers, NEW p, CheckCurrentPassword(h, p)
    PROVE  SAInv'
<1>1. AInv' /\ f[h].pc = "auth" /\ UNCHANGED Tables /\ UNCHANGED History
      /\ (Goto(h, "load") \/ End(h))
  BY CheckCurrentPasswordStep DEF SAInv, CheckCurrentPassword, At
<1> QED  BY <1>1, LooksSerial DEF Free

(* The deletion of an account: it is looked at again.                       *)
LEMMA RecheckDeleteSerial ==
    ASSUME Serial, SAInv, NEW h \in Handlers, RecheckDelete(h) PROVE SAInv'
<1>1. AInv' /\ f[h].pc # "drop" /\ UNCHANGED Tables /\ UNCHANGED History
      /\ (Goto(h, "drop") \/ End(h))
  BY RecheckDeleteStep DEF SAInv, RecheckDelete, At
<1> QED  BY <1>1, LooksSerial DEF Free

(* After the token: the page is shown, or the change goes on.               *)
LEMMA AfterConsumeRelies ==
    ASSUME SAInv, NEW h \in Handlers, f[h].pc = "consume", AfterConsume(h)
    PROVE  Relies(f[h])'
<1>1. f[h].op \in {"first", "page"}
  BY DEF SAInv, Relies
<1>2. CASE f[h].op = "page"
  BY <1>2, EndRelies DEF SAInv, AfterConsume
<1>3. CASE f[h].op = "first"
  <2>1. f'[h].pc = "auth" /\ f'[h].op = "first"
    BY <1>3, GotoFields DEF SAInv, AfterConsume
  <2> QED  BY <2>1 DEF Relies
<1> QED  BY <1>1, <1>2, <1>3

(* The token is deleted.                                                    *)
LEMMA ConsumeTokenSerial ==
    ASSUME Serial, SAInv, NEW h \in Handlers, ConsumeToken(h) PROVE SAInv'
<1>1. AInv'
  BY ConsumeTokenStep DEF SAInv
<1>2. /\ f[h].pc = "consume" /\ AfterConsume(h) /\ DeleteByID(f[h].via)
      /\ UNCHANGED <<users, team_users>> /\ UNCHANGED History
  BY DEF ConsumeToken, At
<1>3. PICK d : d = f[h].via
  OBVIOUS
<1>4. \A s \in Sessions : Stored(s)' => Stored(s) /\ sessions'[s] = sessions[s]
  BY <1>2, <1>3, OneSessionLess
<1>5. NothingDangling' /\ AccountsFit' /\ SessionsCurrent'
  BY <1>2, <1>4, TablesShrink, SameHistory
<1> QED  BY <1>1, <1>2, <1>5, AfterConsumeRelies, SerialParts

(* The forced change asked for by name.                                     *)
LEMMA FirstTimeByNameSerial ==
    ASSUME Serial, SAInv, NEW h \in Handlers, NEW u \in Users, FirstTimeByName(h, u)
    PROVE  SAInv'
<1>1. AInv'
  BY FirstTimeByNameStep DEF SAInv
<1>2. /\ f[h].pc = "idle" /\ UNCHANGED Tables /\ UNCHANGED History
      /\ f' = [f EXCEPT ![h] = [Idle EXCEPT !.op = "first", !.pc = "auth", !.uid = u]]
  BY DEF FirstTimeByName, At
<1>3. PICK x : x = [Idle EXCEPT !.op = "first", !.pc = "auth", !.uid = u]
  OBVIOUS
<1>4. x.pc = "auth" /\ x.op = "first"
  BY <1>3 DEF Idle
<1>5. f'[h] = x
  BY <1>2, <1>3, NewFrame DEF SAInv
<1>6. Relies(f[h])'
  BY <1>4, <1>5 DEF Relies
<1> QED  BY <1>1, <1>2, <1>6, TablesSame, SameHistory, SerialParts

(* A struct with a new password.                                            *)
LEMMA SetPasswordFields ==
    ASSUME NEW s \in Structs, NEW must
    PROVE  /\ SetPassword(s, must).id = s.id /\ SetPassword(s, must).role = s.role
           /\ SetPassword(s, must).pw = issued + 1 /\ SetPassword(s, must).must = must
  BY DEF SetPassword, Structs

(* What a handler that is about to write a struct back has to show.         *)
LEMMA RowRelies ==
    ASSUME NEW h \in Handlers, NEW s, f'[h].row = s, f'[h].uid = s.id,
           f'[h].pc \in {"check", "save"}, s.id \in Users, s.role \in Roles,
           Exists(s.id)', users'[s.id].pw <= s.pw, s.pw <= issued',
           f'[h].op \in {"status", "update", "profile", "reset", "first"},
           f'[h].op \in {"status", "update"} =>
               s.pw = users'[s.id].pw /\ s.must = users'[s.id].must,
           f'[h].op = "profile" => ~s.must /\ (failures' = 0 => ~users'[s.id].must)
    PROVE  Relies(f[h])'
<1>1. f'[h].pc \notin Free \cup {"tokenUser", "consume", "auth", "load", "open", "actor",
                                "admitted", "unlink", "erase", "insert"}
  BY DEF Free
<1> QED  BY <1>1 DEF Relies

(* The forced change loads the account and sets the password.               *)
LEMMA LoadFirstTimeSerial ==
    ASSUME Serial, SAInv, NEW h \in Handlers, LoadFirstTime(h) PROVE SAInv'
<1>1. AInv'
  BY LoadFirstTimeStep DEF SAInv
<1>2. f[h].pc = "load" /\ UNCHANGED Tables /\ UNCHANGED <<failures, barred>>
  BY DEF LoadFirstTime, At
<1>3. CASE End(h) /\ UNCHANGED issued
  <2>1. UNCHANGED History
    BY <1>2, <1>3 DEF History
  <2> QED  BY <1>1, <1>2, <1>3, <2>1, LooksSerial DEF Free
<1>4. CASE ~(End(h) /\ UNCHANGED issued)
  <2>1. PICK u, s : u = f[h].uid /\ s = SetPassword(Load(u), FALSE)
    OBVIOUS
  <2>2. /\ Exists(u) /\ Issue
        /\ f' = [f EXCEPT ![h].row = s, ![h].pc = "save"]
    BY <1>4, <2>1 DEF LoadFirstTime
  <2>3. u \in Users /\ f \in [Handlers -> Frames] /\ f[h] \in Frames
    BY <1>2, <2>1 DEF SAInv, AInv, HandlersOK, FrameOK, Bound
  <2>4. PICK r \in Structs : /\ r = Load(u) /\ r.id = u /\ r.role = users[u].role
    BY <2>3, LoadOK, LoadFields DEF SAInv, AInv, StructOK
  <2>5. s.id = u /\ s.role = users[u].role /\ s.pw = issued + 1
    BY <2>1, <2>4, SetPasswordFields
  <2>6. PICK x : x = [f[h] EXCEPT !.row = s, !.pc = "save"]
    OBVIOUS
  <2>7. x.row = s /\ x.pc = "save" /\ x.uid = u /\ x.op = f[h].op
    BY <2>1, <2>3, <2>6 DEF Frames
  <2>8. f'[h] = x
    BY <2>2, <2>3, <2>6
  <2>9. users[u].pw <= issued /\ users[u].pw \in Nat
    BY <2>2, <2>3 DEF SAInv, AccountsFit, AInv, UsersOK, Rows
  <2>10. issued' = issued + 1 /\ issued \in Nat
    BY <2>2, IssuedHistory
  <2>11. f[h].op = "first"
    BY <1>2 DEF SAInv, Relies
  <2>12. Relies(f[h])'
    <3>1. users' = users /\ Exists(u)' /\ s.role \in Roles /\ s.id \in Users
      BY <1>2, <2>2, <2>3, <2>5 DEF Tables, Exists
    <3>2. users'[s.id].pw <= s.pw /\ s.pw <= issued'
      BY <2>5, <2>9, <2>10, <3>1
    <3>3. f'[h].row = s /\ f'[h].uid = s.id /\ f'[h].pc = "save" /\ f'[h].op = "first"
      BY <2>5, <2>7, <2>8, <2>11
    <3>4. Exists(s.id)'
      BY <2>5, <3>1 DEF Exists
    <3> QED  BY <3>1, <3>2, <3>3, <3>4, RowRelies
  <2>13. NothingDangling' /\ AccountsFit' /\ SessionsCurrent'
    BY <1>2, <2>2, TablesSame, IssuedHistory
  <2> QED  BY <1>1, <2>12, <2>13, SerialParts
<1> QED  BY <1>3, <1>4

(* The middleware loads the row as it is.                                   *)
LEMMA LoadActorSerial ==
    ASSUME Serial, SAInv, NEW h \in Handlers, LoadActor(h) PROVE SAInv'
<1>1. AInv'
  BY LoadActorStep DEF SAInv
<1>2. f[h].pc = "actor" /\ UNCHANGED Tables /\ UNCHANGED History
  BY DEF LoadActor, At
<1>3. CASE End(h)
  BY <1>1, <1>2, <1>3, LooksSerial DEF Free
<1>4. CASE ~End(h)
  <2>1. PICK u, s : u = f[h].uid /\ s = Load(u)
    OBVIOUS
  <2>2. Exists(u) /\ f' = [f EXCEPT ![h].me = s, ![h].pc = "admitted"]
    BY <1>4, <2>1 DEF LoadActor
  <2>3. u \in Users /\ f \in [Handlers -> Frames] /\ f[h] \in Frames
    BY <1>2, <2>1 DEF SAInv, AInv, HandlersOK, FrameOK, Bound
  <2>4. s.id = u /\ s.role = users[u].role /\ s.pw = users[u].pw
    BY <2>1, LoadFields
  <2>5. PICK x : x = [f[h] EXCEPT !.me = s, !.pc = "admitted"]
    OBVIOUS
  <2>6. x.me = s /\ x.pc = "admitted"
    BY <2>3, <2>5 DEF Frames
  <2>7. f'[h] = x
    BY <2>2, <2>3, <2>5
  <2>8. failures = 0 => ~users[u].must
    BY <1>2, <2>1 DEF SAInv, Relies
  <2>9. Relies(f[h])'
    BY <1>2, <2>2, <2>3, <2>4, <2>6, <2>7, <2>8 DEF Relies, Exists, Tables, History
  <2> QED  BY <1>1, <1>2, <2>9, TablesSame, SameHistory, SerialParts
<1> QED  BY <1>3, <1>4

-----------------------------------------------------------------------------
(* The management of accounts                                               *)

(* An admitted handler that goes on to write a struct back.                 *)
LEMMA WritesSerial ==
    ASSUME Serial, SAInv, NEW h \in Handlers, f[h].pc = "admitted", AInv',
           NEW x, f' = [f EXCEPT ![h] = x], NEW s, x.row = s, x.uid = s.id, x.pc = "check",
           UNCHANGED Tables, UNCHANGED <<failures, barred>>,
           issued' \in Nat, issued <= issued', s.id \in Users, s.role \in Roles,
           Exists(s.id), users[s.id].pw <= s.pw, s.pw <= issued',
           x.op \in {"status", "update", "profile", "reset", "first"},
           x.op \in {"status", "update"} =>
               s.pw = users[s.id].pw /\ s.must = users[s.id].must,
           x.op = "profile" => ~s.must /\ (failures = 0 => ~users[s.id].must)
    PROVE  SAInv'
<1>1. NothingDangling' /\ AccountsFit' /\ SessionsCurrent'
  BY TablesSame
<1>2. f'[h] = x
  BY NewFrame DEF SAInv
<1>3. users' = users /\ failures' = failures /\ Exists(s.id)'
  BY DEF Tables, Exists
<1>4. Relies(f[h])'
  BY <1>2, <1>3, RowRelies
<1> QED  BY <1>1, <1>4, SerialParts

(* The frame of such a handler.                                             *)
LEMMA WritesFields ==
    ASSUME NEW op, NEW s
    PROVE  /\ Writes(op, s).row = s /\ Writes(op, s).uid = s.id
           /\ Writes(op, s).pc = "check" /\ Writes(op, s).op = op
  BY DEF Writes, Idle

(* The passwords of the accounts that exist have been issued.               *)
LEMMA PasswordsIssued ==
    ASSUME SAInv, NEW u \in Users, Exists(u)
    PROVE  users[u].pw \in Nat /\ issued \in Nat /\ users[u].pw <= issued
  BY DEF SAInv, AccountsFit, AInv, UsersOK, HistoryOK, Rows

(* The user's own change: the struct the middleware loaded is the row.      *)
LEMMA ChangePasswordSerial ==
    ASSUME Serial, SAInv, NEW h \in Handlers, NEW p, ChangePassword(h, p) PROVE SAInv'
<1>1. AInv'
  BY ChangePasswordStep DEF SAInv
<1>2. PICK s : s = SetPassword(f[h].me, FALSE)
  OBVIOUS
<1>3. /\ f[h].pc = "admitted" /\ Issue /\ UNCHANGED Tables /\ UNCHANGED <<failures, barred>>
      /\ f' = [f EXCEPT ![h] = Writes("profile", s)]
  BY <1>2 DEF ChangePassword, At
<1>4. f[h].me \in Structs
  BY DEF SAInv, AInv, HandlersOK, Frames
<1>5. /\ f[h].me.id \in Users /\ Exists(f[h].me.id) /\ f[h].me.role \in Roles
      /\ failures = 0 => ~users[f[h].me.id].must
  BY <1>3 DEF SAInv, Relies
<1>6. PICK me \in Structs : me = f[h].me
  BY <1>4
<1>7. s.id = me.id /\ s.role = me.role /\ s.pw = issued + 1 /\ s.must = FALSE
  BY <1>2, <1>6, SetPasswordFields
<1>8. issued \in Nat /\ issued' \in Nat /\ issued <= issued' /\ issued' = issued + 1
  BY <1>3, IssuedHistory
<1>9. users[s.id].pw \in Nat /\ users[s.id].pw <= issued
  BY <1>5, <1>6, <1>7, PasswordsIssued
<1>10. users[s.id].pw <= s.pw /\ s.pw <= issued'
  BY <1>7, <1>8, <1>9
<1>11. PICK x : x = Writes("profile", s)
  OBVIOUS
<1>12. x.row = s /\ x.uid = s.id /\ x.pc = "check" /\ x.op = "profile"
  BY <1>11, WritesFields
<1>13. s.id \in Users /\ s.role \in Roles /\ Exists(s.id) /\ ~s.must
       /\ (failures = 0 => ~users[s.id].must)
  BY <1>5, <1>6, <1>7
<1> QED  BY <1>1, <1>3, <1>8, <1>10, <1>11, <1>12, <1>13, WritesSerial

(* A reset gives the account a password of its own.                         *)
LEMMA ResetUserPasswordSerial ==
    ASSUME Serial, SAInv, NEW h \in Handlers, NEW u \in Users, ResetUserPassword(h, u)
    PROVE  SAInv'
<1>1. AInv'
  BY ResetUserPasswordStep DEF SAInv
<1>2. PICK s : s = SetPassword(Load(u), TRUE)
  OBVIOUS
<1>3. /\ f[h].pc = "admitted" /\ Issue /\ UNCHANGED Tables /\ UNCHANGED <<failures, barred>>
      /\ f' = [f EXCEPT ![h] = Writes("reset", s)] /\ Exists(u)
  BY <1>2 DEF ResetUserPassword, Admitted, At
<1>4. PICK r \in Structs : r = Load(u) /\ r.id = u /\ r.role = users[u].role
  BY LoadOK, LoadFields DEF SAInv, AInv, StructOK
<1>5. s.id = u /\ s.role = users[u].role /\ s.pw = issued + 1
  BY <1>2, <1>4, SetPasswordFields
<1>6. issued \in Nat /\ issued' \in Nat /\ issued <= issued' /\ issued' = issued + 1
  BY <1>3, IssuedHistory
<1>7. users[u].pw \in Nat /\ users[u].pw <= issued
  BY <1>3, PasswordsIssued
<1>8. users[s.id].pw <= s.pw /\ s.pw <= issued'
  BY <1>5, <1>6, <1>7
<1>9. PICK x : x = Writes("reset", s)
  OBVIOUS
<1>10. x.row = s /\ x.uid = s.id /\ x.pc = "check" /\ x.op = "reset"
  BY <1>9, WritesFields
<1>11. s.id \in Users /\ s.role \in Roles /\ Exists(s.id)
  BY <1>3, <1>5 DEF Exists
<1> QED  BY <1>1, <1>3, <1>6, <1>8, <1>9, <1>10, <1>11, WritesSerial

(* An account is switched on or off.                                        *)
LEMMA SetUserStatusSerial ==
    ASSUME Serial, SAInv, NEW h \in Handlers, NEW u \in Users, NEW active \in BOOLEAN,
           SetUserStatus(h, u, active)
    PROVE  SAInv'
<1>1. AInv'
  BY SetUserStatusStep DEF SAInv
<1>2. PICK s : s = [Load(u) EXCEPT !.active = active]
  OBVIOUS
<1>3. /\ f[h].pc = "admitted" /\ UNCHANGED Tables /\ UNCHANGED History
      /\ f' = [f EXCEPT ![h] = Writes("status", s)] /\ Exists(u)
  BY <1>2 DEF SetUserStatus, Admitted, At
<1>4. s.id = u /\ s.role = users[u].role /\ s.pw = users[u].pw /\ s.must = users[u].must
  BY <1>2 DEF Load
<1>5. UNCHANGED <<failures, barred>> /\ issued' = issued /\ issued' \in Nat /\ issued <= issued'
  BY <1>3, SameHistory DEF History
<1>6. users[u].pw \in Nat /\ users[u].pw <= issued
  BY <1>3, PasswordsIssued
<1>7. users[s.id].pw <= s.pw /\ s.pw <= issued'
  BY <1>4, <1>5, <1>6
<1>8. PICK x : x = Writes("status", s)
  OBVIOUS
<1>9. x.row = s /\ x.uid = s.id /\ x.pc = "check" /\ x.op = "status"
  BY <1>8, WritesFields
<1>10. s.id \in Users /\ s.role \in Roles /\ Exists(s.id)
       /\ s.pw = users[s.id].pw /\ s.must = users[s.id].must
  BY <1>3, <1>4 DEF Exists
<1> QED  BY <1>1, <1>3, <1>5, <1>7, <1>8, <1>9, <1>10, WritesSerial

(* An account is given a role and teams.                                    *)
LEMMA UpdateUserSerial ==
    ASSUME Serial, SAInv, NEW h \in Handlers, NEW u \in Users, NEW role \in Roles,
           NEW add \in SUBSET Teams, NEW remove \in SUBSET Teams,
           UpdateUser(h, u, role, add, remove)
    PROVE  SAInv'
<1>1. AInv'
  BY UpdateUserStep DEF SAInv
<1>2. PICK s : s = [Load(u) EXCEPT !.role = role]
  OBVIOUS
<1>3. PICK x : x = [Writes("update", s) EXCEPT !.add = add, !.remove = remove]
  OBVIOUS
<1>4. /\ f[h].pc = "admitted" /\ UNCHANGED Tables /\ UNCHANGED History
      /\ f' = [f EXCEPT ![h] = x] /\ Exists(u)
  BY <1>2, <1>3 DEF UpdateUser, Admitted, At
<1>5. s.id = u /\ s.role = role /\ s.pw = users[u].pw /\ s.must = users[u].must
  BY <1>2 DEF Load
<1>6. UNCHANGED <<failures, barred>> /\ issued' = issued /\ issued' \in Nat /\ issued <= issued'
  BY <1>4, SameHistory DEF History
<1>7. users[u].pw \in Nat /\ users[u].pw <= issued
  BY <1>4, PasswordsIssued
<1>8. users[s.id].pw <= s.pw /\ s.pw <= issued'
  BY <1>5, <1>6, <1>7
<1>9. x.row = s /\ x.uid = s.id /\ x.pc = "check" /\ x.op = "update"
  BY <1>3 DEF Writes, Idle
<1>10. s.id \in Users /\ s.role \in Roles /\ Exists(s.id)
       /\ s.pw = users[s.id].pw /\ s.must = users[s.id].must
  BY <1>4, <1>5
<1> QED  BY <1>1, <1>4, <1>6, <1>8, <1>9, <1>10, WritesSerial

(* The deletion of an account is asked for.                                 *)
LEMMA DeleteUserSerial ==
    ASSUME Serial, SAInv, NEW h \in Handlers, NEW u \in Users, DeleteUser(h, u) PROVE SAInv'
<1>1. AInv'
  BY DeleteUserStep DEF SAInv
<1>2. PICK x : x = [Idle EXCEPT !.op = "delete", !.uid = u, !.pc = "recheck"]
  OBVIOUS
<1>3. /\ f[h].pc = "admitted" /\ UNCHANGED Tables /\ UNCHANGED History
      /\ f' = [f EXCEPT ![h] = x]
  BY <1>2 DEF DeleteUser, Admitted, At
<1>4. f'[h] = x /\ x.pc = "recheck"
  BY <1>2, <1>3, NewFrame DEF SAInv, Idle
<1>5. Relies(f[h])'
  BY <1>4, FreeRelies DEF Free
<1> QED  BY <1>1, <1>3, <1>5, TablesSame, SameHistory, SerialParts

(* A new account gets its first password before its row is there.           *)
LEMMA CreateUserSerial ==
    ASSUME Serial, SAInv, NEW h \in Handlers, NEW u \in Users, NEW role \in Roles,
           NEW t \in Teams, NEW approver \in BOOLEAN, CreateUser(h, u, role, t, approver)
    PROVE  SAInv'
<1>1. AInv'
  BY CreateUserStep DEF SAInv
<1>2. PICK new, s, flag :
        /\ new = [id |-> u, role |-> role, pw |-> 0, must |-> TRUE, active |-> TRUE,
                  teams |-> {}]
        /\ s = SetPassword(new, TRUE)
        /\ flag = (approver /\ f[h].me.role = "root" /\ role = "admin")
  OBVIOUS
<1>3. /\ f[h].pc = "admitted" /\ Issue /\ UNCHANGED Tables /\ UNCHANGED <<failures, barred>>
      /\ users[u].role = "unborn"
      /\ f' = [f EXCEPT ![h].op = "create", ![h].uid = u, ![h].pc = "insert",
                        ![h].row = s, ![h].add = {t}, ![h].flag = flag]
  BY <1>2 DEF CreateUser, Admitted, At
<1>4. new \in Structs /\ new.id = u /\ new.role = role
  BY <1>2 DEF Structs
<1>5. s.id = u /\ s.role = role /\ s.pw = issued + 1
  BY <1>2, <1>4, SetPasswordFields
<1>6. f \in [Handlers -> Frames] /\ f[h] \in Frames
  BY DEF SAInv, AInv, HandlersOK
<1>7. PICK x : x = [f[h] EXCEPT !.op = "create", !.uid = u, !.pc = "insert", !.row = s,
                                !.add = {t}, !.flag = flag]
  OBVIOUS
<1>8. x.pc = "insert" /\ x.row = s
  BY <1>6, <1>7 DEF Frames
<1>9. f'[h] = x
  BY <1>3, <1>6, <1>7
<1>10. \E v \in Users : Exists(v)
  BY <1>3 DEF SAInv, Relies
<1>11. issued \in Nat /\ issued' \in Nat /\ issued <= issued' /\ issued' = issued + 1
  BY <1>3, IssuedHistory
<1>12. users' = users /\ (\E v \in Users : Exists(v)')
  BY <1>3, <1>10 DEF Tables, Exists
<1>13. s.pw <= issued'
  BY <1>5, <1>11
<1>14. Relies(f[h])'
  BY <1>3, <1>5, <1>8, <1>9, <1>12, <1>13 DEF Relies
<1> QED  BY <1>1, <1>3, <1>11, <1>14, TablesSame, SerialParts

-----------------------------------------------------------------------------
(* The steps the handlers share                                             *)

(* The row is looked up before it is written.                               *)
LEMMA CheckExistsSerial ==
    ASSUME Serial, SAInv, NEW h \in Handlers, CheckExists(h) PROVE SAInv'
<1>1. AInv'
  BY CheckExistsStep DEF SAInv
<1>2. /\ f[h].pc = "check" /\ UNCHANGED Tables /\ UNCHANGED History
      /\ Goto(h, "save") \/ End(h)
  BY DEF CheckExists, At
<1>3. NothingDangling' /\ AccountsFit' /\ SessionsCurrent'
  BY <1>2, TablesSame, SameHistory
<1>4. CASE End(h)
  BY <1>1, <1>3, <1>4, EndRelies, SerialParts DEF SAInv
<1>5. CASE Goto(h, "save")
  <2>1. f'[h].pc = "save" /\ f'[h].op = f[h].op /\ f'[h].uid = f[h].uid /\ f'[h].row = f[h].row
    BY <1>5, GotoFields DEF SAInv
  <2>2. users' = users /\ failures' = failures /\ issued' = issued
    BY <1>2 DEF Tables, History
  <2>3. Relies(f[h])
    BY DEF SAInv
  <2>4. Relies(f[h])'
    BY <1>2, <2>1, <2>2, <2>3 DEF Relies, Exists
  <2> QED  BY <1>1, <1>3, <2>4, SerialParts
<1> QED  BY <1>2, <1>4, <1>5

(* gorm's Save writes the row of the struct and joins its teams.            *)
LEMMA SaveFields ==
    ASSUME AInv, NEW s, s.id \in Users, s.role \in Roles, Save(s)
    PROVE  /\ users'[s.id].role = s.role /\ users'[s.id].pw = s.pw
           /\ users'[s.id].must = s.must
           /\ \A u \in Users : u # s.id => users'[u] = users[u]
           /\ \A u \in Users : Exists(u) => Exists(u)'
           /\ Exists(s.id)'
           /\ \A t \in Teams, u \in Users : u # s.id => team_users'[t][u] = team_users[t][u]
<1> DEFINE x == [role |-> s.role, pw |-> s.pw, must |-> s.must, active |-> s.active]
<1>1. users' = [users EXCEPT ![s.id] = x]
  BY DEF Save
<1>2. x.role = s.role /\ x.pw = s.pw /\ x.must = s.must
  OBVIOUS
<1> HIDE DEF x
<1>3. users'[s.id] = x /\ \A u \in Users : u # s.id => users'[u] = users[u]
  BY <1>1 DEF AInv, UsersOK
<1>4. Exists(s.id)' /\ \A u \in Users : Exists(u) => Exists(u)'
  BY <1>2, <1>3 DEF Exists
<1>5. ASSUME NEW t \in Teams, NEW u \in Users, u # s.id
      PROVE  team_users'[t][u] = team_users[t][u]
  <2>1. team_users[t] \in [Users -> Ranks]
    BY DEF AInv, TeamsOK
  <2>2. \/ team_users'[t] = [team_users[t] EXCEPT ![s.id] = "member"]
        \/ team_users'[t] = team_users[t]
    BY DEF Save
  <2> QED  BY <1>5, <2>1, <2>2
<1> QED  BY <1>2, <1>3, <1>4, <1>5

(* The struct is written: a reset and a forced change go on to drop the     *)
(* sessions, the others leave the password and the duty to change it alone  *)
(* or belong to a user who has no token.                                    *)
LEMMA SaveUserSerial ==
    ASSUME Serial, SAInv, NEW h \in Handlers, SaveUser(h) PROVE SAInv'
<1>1. AInv'
  BY SaveUserStep DEF SAInv
<1>2. PICK s : s = f[h].row
  OBVIOUS
<1>3. /\ f[h].pc = "save" /\ Save(s) /\ AfterSave(h)
      /\ barred' = (IF f[h].op = "reset" THEN [barred EXCEPT ![s.id] = s.pw] ELSE barred)
      /\ UNCHANGED <<sessions, failures, issued>>
  BY <1>2 DEF SaveUser, At
<1>4. Relies(f[h])
  BY DEF SAInv
<1>5. /\ s.id \in Users /\ f[h].uid = s.id /\ Exists(s.id) /\ s.role \in Roles
      /\ users[s.id].pw <= s.pw /\ s.pw <= issued
      /\ f[h].op \in {"status", "update", "profile", "reset", "first"}
  BY <1>2, <1>3, <1>4 DEF Relies
<1>6. /\ users'[s.id].role = s.role /\ users'[s.id].pw = s.pw
      /\ users'[s.id].must = s.must
      /\ \A u \in Users : u # s.id => users'[u] = users[u]
      /\ \A u \in Users : Exists(u) => Exists(u)'
      /\ Exists(s.id)'
      /\ \A t \in Teams, u \in Users : u # s.id => team_users'[t][u] = team_users[t][u]
  BY <1>3, <1>5, SaveFields DEF SAInv
<1>7. /\ barred'[s.id] = IF f[h].op = "reset" THEN s.pw ELSE barred[s.id]
      /\ \A u \in Users : u # s.id => barred'[u] = barred[u]
  BY <1>3, <1>5 DEF SAInv, AInv, HistoryOK
<1>8. NothingDangling'
  <2>1. \A d \in Sessions : Stored(d)' => Exists(sessions[d].user)'
    <3> SUFFICES ASSUME NEW d \in Sessions, Stored(d)' PROVE Exists(sessions[d].user)'
      OBVIOUS
    <3>1. Stored(d) /\ sessions' = sessions
      BY <1>3 DEF Stored
    <3>2. sessions[d].user \in Users /\ Exists(sessions[d].user)
      BY <3>1 DEF SAInv, NothingDangling, AInv, SessionsOK
    <3>3. PICK u \in Users : u = sessions[d].user
      BY <3>2
    <3>4. Exists(u)'
      BY <1>6, <3>2, <3>3
    <3> QED  BY <3>1, <3>3, <3>4 DEF Exists
  <2>2. \A t \in Teams, u \in Users : team_users'[t][u] # "none" => Exists(u)'
    <3> SUFFICES ASSUME NEW t \in Teams, NEW u \in Users, team_users'[t][u] # "none"
                 PROVE  Exists(u)'
      OBVIOUS
    <3>1. CASE u = s.id
      BY <1>6, <3>1
    <3>2. CASE u # s.id
      BY <1>6, <3>2 DEF SAInv, NothingDangling
    <3> QED  BY <3>1, <3>2
  <2> QED  BY <2>1, <2>2 DEF NothingDangling
<1>9. AccountsFit'
  <2>1. s.pw \in Nat /\ users[s.id].pw \in Nat /\ barred[s.id] \in Nat /\ issued \in Nat
    BY <1>2, <1>5 DEF SAInv, AInv, UsersOK, HistoryOK, HandlersOK, FrameOK, StructOK,
                      Structs, Rows
  <2>2. barred[s.id] <= users[s.id].pw
    BY <1>5 DEF SAInv, AccountsFit
  <2>3. barred'[s.id] <= s.pw /\ s.pw <= issued'
    BY <1>3, <1>5, <1>7, <2>1, <2>2
  <2>4. s.role # "unborn"
    BY <1>5 DEF Roles
  <2> SUFFICES ASSUME NEW u \in Users
               PROVE  /\ Exists(u)' => barred'[u] <= users'[u].pw /\ users'[u].pw <= issued'
                      /\ users'[u].role = "unborn" => barred'[u] = 0
    BY DEF AccountsFit
  <2>5. CASE u = s.id
    BY <1>6, <2>3, <2>4, <2>5
  <2>6. CASE u # s.id
    BY <1>3, <1>6, <1>7, <2>6 DEF SAInv, AccountsFit, Exists
  <2> QED  BY <2>5, <2>6
<1>10. SessionsCurrent'
  <2> SUFFICES ASSUME failures' = 0, NEW d \in Sessions, Stored(d)'
               PROVE  SessionFits(d)' \/ Dropping(sessions[d].user)'
    BY DEF SessionsCurrent
  <2>1. failures = 0 /\ Stored(d) /\ sessions' = sessions
    BY <1>3 DEF Stored
  <2>2. PICK u : u = sessions[d].user
    OBVIOUS
  <2>3. SessionFits(d)
    BY <1>3, <2>1, NobodyDrops DEF SAInv, SessionsCurrent
  <2>4. u \in Users
    BY <2>1, <2>2 DEF SAInv, AInv, SessionsOK
  <2>5. CASE u # s.id
    BY <1>6, <1>7, <2>1, <2>2, <2>3, <2>4, <2>5 DEF SessionFits
  <2>6. CASE u = s.id /\ f[h].op \in {"reset", "first"}
    <3>1. Goto(h, "drop")
      BY <1>3, <2>6 DEF AfterSave
    <3>2. f'[h].pc = "drop" /\ f'[h].uid = u /\ f'[h].op \in {"reset", "first"}
      BY <1>5, <2>6, <3>1, GotoFields DEF SAInv
    <3> QED  BY <2>1, <2>2, <3>2 DEF Dropping
  <2>7. CASE u = s.id /\ f[h].op \in {"status", "update"}
    <3>1. s.pw = users[u].pw /\ s.must = users[u].must
      BY <1>2, <1>3, <1>4, <2>7 DEF Relies
    <3>2. users'[u].pw = users[u].pw /\ users'[u].must = users[u].must
      BY <1>6, <2>7, <3>1
    <3>3. barred'[u] = barred[u]
      BY <1>7, <2>7
    <3> QED  BY <2>1, <2>2, <2>3, <3>2, <3>3 DEF SessionFits
  <2>8. CASE u = s.id /\ f[h].op = "profile"
    <3>1. ~s.must /\ ~users[u].must
      BY <1>2, <1>3, <1>4, <2>1, <2>8 DEF Relies
    <3>2. sessions[d].purpose # "password_change"
      BY <2>2, <2>3, <3>1 DEF SessionFits
    <3>3. barred'[u] = barred[u] /\ ~users'[u].must
      BY <1>6, <1>7, <2>8, <3>1
    <3> QED  BY <2>1, <2>2, <2>3, <3>2, <3>3 DEF SessionFits
  <2> QED  BY <1>5, <2>5, <2>6, <2>7, <2>8
<1>11. Relies(f[h])'
  <2>1. Goto(h, "drop") \/ Goto(h, "teams") \/ End(h)
    BY <1>3 DEF AfterSave
  <2>2. CASE End(h)
    BY <2>2, EndRelies DEF SAInv
  <2>3. CASE Goto(h, "drop") \/ Goto(h, "teams")
    <3>1. f'[h].pc \in Free
      BY <2>3, GotoFields DEF SAInv, Free
    <3> QED  BY <3>1, FreeRelies
  <2> QED  BY <2>1, <2>2, <2>3
<1> QED  BY <1>1, <1>8, <1>9, <1>10, <1>11, SerialParts

(* The sessions of an account are dropped.                                  *)
LEMMA InvalidateSessionsSerial ==
    ASSUME Serial, SAInv, NEW h \in Handlers, InvalidateSessions(h) PROVE SAInv'
<1>1. AInv'
  BY InvalidateSessionsStep DEF SAInv
<1>2. PICK v : v = f[h].uid
  OBVIOUS
<1>3. /\ f[h].pc = "drop" /\ DeleteByUserID(v) /\ UNCHANGED <<users, team_users>>
      /\ UNCHANGED History /\ (Goto(h, "unlink") \/ End(h))
  BY <1>2 DEF InvalidateSessions, At
<1>4. Gone.state = "gone"
  BY DEF Gone, NoSession
<1>5. \A s \in Sessions : Stored(s)' => /\ Stored(s) /\ sessions'[s] = sessions[s]
                                        /\ sessions[s].user # v
  BY <1>3, <1>4 DEF DeleteByUserID, Stored
<1>6. NothingDangling'
  BY <1>3, <1>5 DEF SAInv, NothingDangling, Exists
<1>7. AccountsFit'
  BY <1>3 DEF SAInv, AccountsFit, Exists, History
<1>8. SessionsCurrent'
  <2> SUFFICES ASSUME failures' = 0, NEW s \in Sessions, Stored(s)' PROVE SessionFits(s)'
    BY DEF SessionsCurrent
  <2>1. failures = 0 /\ UNCHANGED <<users, barred>>
    BY <1>3 DEF History
  <2>2. Stored(s) /\ sessions'[s] = sessions[s] /\ sessions[s].user # v
    BY <1>5
  <2>3. ~Dropping(sessions[s].user)
    BY <1>2, <2>2 DEF Dropping, Serial
  <2>4. SessionFits(s)
    BY <2>1, <2>2, <2>3 DEF SAInv, SessionsCurrent
  <2> QED  BY <2>1, <2>2, <2>4 DEF SessionFits
<1>9. CASE End(h)
  BY <1>1, <1>6, <1>7, <1>8, <1>9, EndRelies, SerialParts DEF SAInv
<1>10. CASE Goto(h, "unlink")
  <2>1. f'[h].pc = "unlink" /\ f'[h].uid = v
    BY <1>2, <1>10, GotoFields DEF SAInv
  <2>2. \A s \in Sessions : Stored(s)' => sessions'[s].user # f'[h].uid
    BY <1>5, <2>1
  <2>3. Relies(f[h])'
    BY <2>1, <2>2 DEF Relies
  <2> QED  BY <1>1, <1>6, <1>7, <1>8, <2>3, SerialParts
<1> QED  BY <1>3, <1>9, <1>10

-----------------------------------------------------------------------------
(* Memberships                                                              *)

(* Steps that change only memberships, and give none to an account that     *)
(* does not exist.                                                          *)
LEMMA MembersSerial ==
    ASSUME Serial, SAInv, NEW h \in Handlers, AInv', f[h].pc # "drop",
           UNCHANGED <<users, sessions>>, UNCHANGED History,
           \A t \in Teams, u \in Users : team_users'[t][u] # "none" => Exists(u),
           Relies(f[h])'
    PROVE  SAInv'
<1>1. NothingDangling'
  BY DEF SAInv, NothingDangling, Exists, Stored
<1>2. AccountsFit'
  BY DEF SAInv, AccountsFit, Exists, History
<1>3. SessionsCurrent'
  <2> SUFFICES ASSUME failures' = 0, NEW s \in Sessions, Stored(s)' PROVE SessionFits(s)'
    BY DEF SessionsCurrent
  <2>1. failures = 0 /\ barred' = barred /\ Stored(s)
    BY DEF History, Stored
  <2>2. SessionFits(s)
    BY <2>1, NobodyDrops DEF SAInv, SessionsCurrent
  <2> QED  BY <2>1, <2>2 DEF SessionFits
<1> QED  BY <1>1, <1>2, <1>3, SerialParts

(* The memberships of an account are deleted.                               *)
LEMMA DeleteMembershipsSerial ==
    ASSUME Serial, SAInv, NEW h \in Handlers, DeleteMemberships(h) PROVE SAInv'
<1>1. AInv'
  BY DeleteMembershipsStep DEF SAInv
<1>2. PICK v : v = f[h].uid
  OBVIOUS
<1>3. /\ f[h].pc = "unlink" /\ Goto(h, "erase")
      /\ UNCHANGED <<users, sessions>> /\ UNCHANGED History
      /\ team_users' = [t \in Teams |-> [team_users[t] EXCEPT ![v] = "none"]]
  BY <1>2 DEF DeleteMemberships, At
<1>4. \A t \in Teams : team_users[t] \in [Users -> Ranks]
  BY DEF SAInv, AInv, TeamsOK
<1>5. \A t \in Teams, u \in Users :
        team_users'[t][u] = IF u = v THEN "none" ELSE team_users[t][u]
  BY <1>3, <1>4
<1>6. \A t \in Teams, u \in Users : team_users'[t][u] # "none" => Exists(u)
  BY <1>5 DEF SAInv, NothingDangling
<1>7. f'[h].pc = "erase" /\ f'[h].uid = v
  BY <1>2, <1>3, GotoFields DEF SAInv
<1>8. \A s \in Sessions : Stored(s) => sessions[s].user # v
  BY <1>2, <1>3 DEF SAInv, Relies
<1>9. \A s \in Sessions : Stored(s)' => sessions'[s].user # v
  BY <1>3, <1>8 DEF Stored
<1>10. \A t \in Teams : v \in Users => team_users'[t][v] = "none"
  BY <1>5
<1>11. Relies(f[h])'
  BY <1>7, <1>9, <1>10 DEF Relies
<1> QED  BY <1>1, <1>3, <1>6, <1>11, MembersSerial

(* One membership more, of an account that exists, or one less.             *)
LEMMA OneMember ==
    ASSUME SAInv, NEW t \in Teams, NEW v,
           AddUserToTeam(t, v) \/ RemoveUserFromTeam(t, v)
    PROVE  \A k \in Teams, u \in Users : team_users'[k][u] # "none" => Exists(u)
<1>1. /\ team_users \in [Teams -> [Users -> Ranks]]
      /\ \A k \in Teams, u \in Users : team_users[k][u] # "none" => Exists(u)
  BY DEF SAInv, AInv, TeamsOK, NothingDangling
<1>2. CASE team_users' = team_users
  BY <1>1, <1>2
<1>3. CASE Exists(v) /\ team_users' = [team_users EXCEPT ![t][v] = "member"]
  BY <1>1, <1>3
<1>4. CASE team_users' = [team_users EXCEPT ![t][v] = "none"]
  BY <1>1, <1>4
<1> QED  BY <1>2, <1>3, <1>4 DEF AddUserToTeam, RemoveUserFromTeam, CanJoin

(* The new user joins its team.                                             *)
LEMMA JoinTeamSerial ==
    ASSUME Serial, SAInv, NEW h \in Handlers, JoinTeam(h) PROVE SAInv'
<1>1. AInv'
  BY JoinTeamStep DEF SAInv
<1>2. /\ f[h].pc = "join" /\ UNCHANGED <<users, sessions>> /\ UNCHANGED History
      /\ Goto(h, "flag") \/ End(h)
  BY DEF JoinTeam, At
<1>3. f[h].add # {} /\ f[h].add \subseteq Teams
  BY <1>2 DEF SAInv, AInv, HandlersOK, FrameOK, Joining, Frames
<1>4. PICK t \in Teams : AddUserToTeam(t, f[h].uid)
  BY <1>3 DEF JoinTeam
<1>5. \A k \in Teams, u \in Users : team_users'[k][u] # "none" => Exists(u)
  BY <1>4, OneMember DEF SAInv
<1>6. Relies(f[h])'
  BY <1>2, EndRelies, GotoFields, FreeRelies DEF SAInv, Free
<1> QED  BY <1>1, <1>2, <1>5, <1>6, MembersSerial

(* The new user becomes an approver of a team it is in.                     *)
LEMMA SetTeamApproverSerial ==
    ASSUME Serial, SAInv, NEW h \in Handlers, SetTeamApprover(h) PROVE SAInv'
<1>1. AInv'
  BY SetTeamApproverStep DEF SAInv
<1>2. PICK v : v = f[h].uid
  OBVIOUS
<1>3. /\ f[h].pc = "flag" /\ End(h) /\ UNCHANGED <<users, sessions>> /\ UNCHANGED History
      /\ \A t \in Teams :
           \/ team_users[t][v] # "none" /\ team_users'[t] = [team_users[t] EXCEPT ![v] = "approver"]
           \/ team_users'[t] = team_users[t]
  BY <1>2 DEF SetTeamApprover, At
<1>4. \A t \in Teams : team_users[t] \in [Users -> Ranks]
  BY DEF SAInv, AInv, TeamsOK
<1>5. \A t \in Teams, u \in Users : team_users'[t][u] # "none" => team_users[t][u] # "none"
  BY <1>3, <1>4
<1>6. \A t \in Teams, u \in Users : team_users'[t][u] # "none" => Exists(u)
  BY <1>5 DEF SAInv, NothingDangling
<1>7. Relies(f[h])'
  BY <1>3, EndRelies DEF SAInv
<1> QED  BY <1>1, <1>3, <1>6, <1>7, MembersSerial

(* A handler with one team less to deal with.                               *)
LEMMA FewerRelies ==
    ASSUME AInv, NEW h \in Handlers, f[h].pc = "teams", NEW t,
           \/ f' = [f EXCEPT ![h].remove = @ \ {t}]
           \/ f' = [f EXCEPT ![h].add = @ \ {t}]
    PROVE  Relies(f[h])'
<1>1. f \in [Handlers -> Frames] /\ f[h] \in Frames
  BY DEF AInv, HandlersOK
<1>2. f'[h].pc = "teams"
  BY <1>1 DEF Frames
<1> QED  BY <1>2, FreeRelies DEF Free

(* UpdateUser changes one membership after the other.                       *)
LEMMA UpdateTeamsSerial ==
    ASSUME Serial, SAInv, NEW h \in Handlers, UpdateTeams(h) PROVE SAInv'
<1>1. AInv'
  BY UpdateTeamsStep DEF SAInv
<1>2. /\ f[h].pc = "teams" /\ UNCHANGED <<users, sessions>> /\ UNCHANGED History
      /\ f[h].add \subseteq Teams /\ f[h].remove \subseteq Teams
  BY DEF UpdateTeams, At, SAInv, AInv, HandlersOK, Frames
<1>3. CASE \E t \in f[h].remove :
             /\ RemoveUserFromTeam(t, f[h].uid)
             /\ f' = [f EXCEPT ![h].remove = @ \ {t}]
  <2>1. PICK t \in Teams : /\ RemoveUserFromTeam(t, f[h].uid)
                           /\ f' = [f EXCEPT ![h].remove = @ \ {t}]
    BY <1>2, <1>3
  <2>2. \A k \in Teams, u \in Users : team_users'[k][u] # "none" => Exists(u)
    BY <2>1, OneMember DEF SAInv
  <2>3. Relies(f[h])'
    BY <1>2, <2>1, FewerRelies DEF SAInv
  <2> QED  BY <1>1, <1>2, <2>2, <2>3, MembersSerial
<1>4. CASE \E t \in f[h].add :
             /\ AddUserToTeam(t, f[h].uid)
             /\ f' = [f EXCEPT ![h].add = @ \ {t}]
  <2>1. PICK t \in Teams : /\ AddUserToTeam(t, f[h].uid)
                           /\ f' = [f EXCEPT ![h].add = @ \ {t}]
    BY <1>2, <1>4
  <2>2. \A k \in Teams, u \in Users : team_users'[k][u] # "none" => Exists(u)
    BY <2>1, OneMember DEF SAInv
  <2>3. Relies(f[h])'
    BY <1>2, <2>1, FewerRelies DEF SAInv
  <2> QED  BY <1>1, <1>2, <2>2, <2>3, MembersSerial
<1>5. CASE End(h) /\ UNCHANGED team_users
  <2>1. \A t \in Teams, u \in Users : team_users'[t][u] # "none" => Exists(u)
    BY <1>5 DEF SAInv, NothingDangling
  <2> QED  BY <1>1, <1>2, <1>5, <2>1, EndRelies, MembersSerial DEF SAInv
<1> QED  BY <1>3, <1>4, <1>5 DEF UpdateTeams

-----------------------------------------------------------------------------
(* Rows that come and go, and calls that fail                               *)

(* The account is deleted once nothing refers to it.                        *)
LEMMA DeleteRowSerial ==
    ASSUME Serial, SAInv, NEW h \in Handlers, DeleteRow(h) PROVE SAInv'
<1>1. AInv'
  BY DeleteRowStep DEF SAInv
<1>2. PICK v, x : v = f[h].uid /\ x = [NoRow EXCEPT !.role = "deleted"]
  OBVIOUS
<1>3. x.role = "deleted"
  BY <1>2 DEF NoRow
<1>4. /\ f[h].pc = "erase" /\ End(h) /\ users' = [users EXCEPT ![v] = x]
      /\ UNCHANGED <<team_users, sessions>> /\ UNCHANGED History
  BY <1>2 DEF DeleteRow, At
<1>5. \A u \in Users : users'[u] = IF u = v THEN x ELSE users[u]
  BY <1>4 DEF SAInv, AInv, UsersOK
<1>6. /\ \A s \in Sessions : Stored(s) => sessions[s].user # v
      /\ \A t \in Teams : v \in Users => team_users[t][v] = "none"
  BY <1>2, <1>4 DEF SAInv, Relies
<1>7. \A u \in Users : u # v => (Exists(u)' <=> Exists(u))
  BY <1>5 DEF Exists
<1>8. \A s \in Sessions : Stored(s) => sessions[s].user \in Users
  BY DEF SAInv, AInv, SessionsOK
<1>9. NothingDangling'
  <2>1. ASSUME NEW s \in Sessions, Stored(s)' PROVE Exists(sessions[s].user)'
    <3>1. Stored(s) /\ sessions' = sessions
      BY <1>4, <2>1 DEF Stored
    <3>2. PICK u \in Users : u = sessions[s].user
      BY <1>8, <3>1
    <3>3. Exists(u) /\ u # v
      BY <1>6, <3>1, <3>2 DEF SAInv, NothingDangling
    <3> QED  BY <1>5, <3>1, <3>2, <3>3 DEF Exists
  <2>2. \A t \in Teams, u \in Users : team_users'[t][u] # "none" => Exists(u)'
    BY <1>4, <1>6, <1>7 DEF SAInv, NothingDangling
  <2> QED  BY <2>1, <2>2 DEF NothingDangling
<1>10. AccountsFit'
  <2> SUFFICES ASSUME NEW u \in Users
               PROVE  /\ Exists(u)' => barred'[u] <= users'[u].pw /\ users'[u].pw <= issued'
                      /\ users'[u].role = "unborn" => barred'[u] = 0
    BY DEF AccountsFit
  <2>1. CASE u = v
    BY <1>3, <1>5, <2>1 DEF Exists, Roles
  <2>2. CASE u # v
    BY <1>4, <1>5, <2>2 DEF SAInv, AccountsFit, Exists, History
  <2> QED  BY <2>1, <2>2
<1>11. SessionsCurrent'
  <2> SUFFICES ASSUME failures' = 0, NEW s \in Sessions, Stored(s)' PROVE SessionFits(s)'
    BY DEF SessionsCurrent
  <2>1. failures = 0 /\ barred' = barred /\ sessions' = sessions /\ Stored(s)
    BY <1>4 DEF History, Stored
  <2>2. SessionFits(s)
    BY <1>4, <2>1, NobodyDrops DEF SAInv, SessionsCurrent
  <2>3. users'[sessions[s].user] = users[sessions[s].user]
    BY <1>5, <1>6, <1>8, <2>1
  <2> QED  BY <2>1, <2>2, <2>3 DEF SessionFits
<1> QED  BY <1>1, <1>4, <1>9, <1>10, <1>11, EndRelies, SerialParts DEF SAInv

(* The account is inserted; nobody has a session of it yet.                 *)
LEMMA InsertUserSerial ==
    ASSUME Serial, SAInv, NEW h \in Handlers, InsertUser(h) PROVE SAInv'
<1>1. AInv'
  BY InsertUserStep DEF SAInv
<1>2. PICK s, x : /\ s = f[h].row
                  /\ x = [role |-> s.role, pw |-> s.pw, must |-> s.must, active |-> s.active]
  OBVIOUS
<1>3. x.role = s.role /\ x.pw = s.pw
  BY <1>2
<1>4. /\ f[h].pc = "insert" /\ Goto(h, "join") /\ users' = [users EXCEPT ![s.id] = x]
      /\ UNCHANGED <<team_users, sessions>> /\ UNCHANGED History
  BY <1>2 DEF InsertUser, At
<1>5. /\ s.id \in Users /\ users[s.id].role = "unborn" /\ s.role \in Roles
      /\ s.pw <= issued
  BY <1>2, <1>4 DEF SAInv, Relies
<1>6. \A u \in Users : users'[u] = IF u = s.id THEN x ELSE users[u]
  BY <1>4, <1>5 DEF SAInv, AInv, UsersOK
<1>7. ~Exists(s.id)
  BY <1>5 DEF Exists, Roles
<1>8. \A u \in Users : Exists(u) => Exists(u)' /\ users'[u] = users[u]
  BY <1>6, <1>7 DEF Exists
<1>9. \A d \in Sessions : Stored(d) => sessions[d].user \in Users /\ Exists(sessions[d].user)
  BY DEF SAInv, AInv, SessionsOK, NothingDangling
<1>10. NothingDangling'
  <2>1. ASSUME NEW d \in Sessions, Stored(d)' PROVE Exists(sessions[d].user)'
    <3>1. Stored(d) /\ sessions' = sessions
      BY <1>4, <2>1 DEF Stored
    <3>2. PICK u \in Users : u = sessions[d].user /\ Exists(u)
      BY <1>9, <3>1
    <3> QED  BY <1>8, <3>1, <3>2 DEF Exists
  <2>2. \A t \in Teams, u \in Users : team_users'[t][u] # "none" => Exists(u)'
    BY <1>4, <1>8 DEF SAInv, NothingDangling
  <2> QED  BY <2>1, <2>2 DEF NothingDangling
<1>11. AccountsFit'
  <2> SUFFICES ASSUME NEW u \in Users
               PROVE  /\ Exists(u)' => barred'[u] <= users'[u].pw /\ users'[u].pw <= issued'
                      /\ users'[u].role = "unborn" => barred'[u] = 0
    BY DEF AccountsFit
  <2>1. CASE u = s.id
    <3>1. barred[u] = 0 /\ barred' = barred /\ issued' = issued
      BY <1>4, <1>5, <2>1 DEF SAInv, AccountsFit, History
    <3>2. s.pw \in Nat
      BY <1>2 DEF SAInv, AInv, HandlersOK, FrameOK, StructOK, Structs
    <3>3. users'[u].pw = s.pw /\ users'[u].role # "unborn"
      BY <1>3, <1>5, <1>6, <2>1 DEF Roles
    <3> QED  BY <1>5, <3>1, <3>2, <3>3
  <2>2. CASE u # s.id
    BY <1>4, <1>6, <2>2 DEF SAInv, AccountsFit, Exists, History
  <2> QED  BY <2>1, <2>2
<1>12. SessionsCurrent'
  <2> SUFFICES ASSUME failures' = 0, NEW d \in Sessions, Stored(d)' PROVE SessionFits(d)'
    BY DEF SessionsCurrent
  <2>1. failures = 0 /\ barred' = barred /\ sessions' = sessions /\ Stored(d)
    BY <1>4 DEF History, Stored
  <2>2. SessionFits(d)
    BY <1>4, <2>1, NobodyDrops DEF SAInv, SessionsCurrent
  <2>3. users'[sessions[d].user] = users[sessions[d].user]
    BY <1>8, <1>9, <2>1
  <2> QED  BY <2>1, <2>2, <2>3 DEF SessionFits
<1>13. Relies(f[h])'
  <2>1. f'[h].pc \in Free
    BY <1>4, GotoFields DEF SAInv, Free
  <2> QED  BY <2>1, FreeRelies
<1> QED  BY <1>1, <1>10, <1>11, <1>12, <1>13, SerialParts

(* From the first failure on, sessions are no longer spoken of.             *)
LEMMA FailureSerial ==
    ASSUME Serial, SAInv, NEW h \in Handlers, AInv', failures' = failures + 1,
           UNCHANGED Tables, UNCHANGED <<issued, barred>>, Relies(f[h])'
    PROVE  SAInv'
<1>1. failures' # 0 /\ issued' \in Nat /\ issued <= issued'
  BY DEF SAInv, AInv, HistoryOK
<1> QED  BY <1>1, TablesSame, SerialParts

(* A handler stops at the error.                                            *)
LEMMA FailSerial == ASSUME Serial, SAInv, NEW h \in Handlers, Fail(h) PROVE SAInv'
  BY FailStep, EndRelies, FailureSerial DEF SAInv, Fail

(* A handler goes on after the error.                                       *)
LEMMA FailIgnoredSerial ==
    ASSUME Serial, SAInv, NEW h \in Handlers, FailIgnored(h) PROVE SAInv'
<1>1. AInv'
  BY FailIgnoredStep DEF SAInv
<1>2. failures' = failures + 1 /\ UNCHANGED Tables /\ UNCHANGED <<issued, barred>>
  BY DEF FailIgnored
<1>3. CASE f[h].pc = "consume" /\ AfterConsume(h)
  BY <1>1, <1>2, <1>3, AfterConsumeRelies, FailureSerial
<1>4. CASE f[h].pc = "teams" /\ \E t : \/ f' = [f EXCEPT ![h].remove = @ \ {t}]
                                       \/ f' = [f EXCEPT ![h].add = @ \ {t}]
  BY <1>1, <1>2, <1>4, FewerRelies, FailureSerial DEF SAInv
<1> QED  BY <1>3, <1>4 DEF FailIgnored, At

-----------------------------------------------------------------------------
(* The theorems for one handler at a time                                   *)

(* The invariant holds at the start.                                        *)
LEMMA SerialInit == AInit => SAInv
<1> SUFFICES ASSUME AInit PROVE SAInv
  OBVIOUS
<1>1. AInv
  BY AccountsInit
<1>2. \A s \in Sessions : ~Stored(s)
  BY DEF AInit, Stored, NoSession
<1>3. NoRow.role = "unborn" /\ \A role \in Roles : Row(role).role = role /\ Row(role).pw = 0
  BY DEF NoRow, Row
<1>4. "root" \in Roles /\ "admin" \in Roles /\ "unborn" \notin Roles
  BY DEF Roles
<1>5. \A t \in Teams, u \in Users : team_users[t][u] # "none" => Exists(u)
  <2>1. CASE team_users = [t \in Teams |-> [u \in Users |-> "none"]]
    BY <2>1
  <2>2. CASE \E a \in Users \ {Root} :
               /\ users = [u \in Users |->
                    IF u = Root THEN Row("root")
                    ELSE IF u = a THEN Row("admin") ELSE NoRow]
               /\ team_users = [t \in Teams |-> [u \in Users |->
                    IF u = a THEN "member" ELSE "none"]]
    BY <1>3, <1>4, <2>2 DEF Exists
  <2> QED  BY <2>1, <2>2 DEF AInit
<1>6. \A u \in Users : Exists(u) => users[u].pw = 0
  <2>1. CASE Fresh
    BY <1>3, <1>4, <2>1 DEF Fresh, Exists
  <2>2. CASE \E a \in Users \ {Root} : users = [u \in Users |->
               IF u = Root THEN Row("root") ELSE IF u = a THEN Row("admin") ELSE NoRow]
    BY <1>3, <1>4, <2>2 DEF Exists
  <2> QED  BY <2>1, <2>2 DEF AInit
<1>7. NothingDangling
  BY <1>2, <1>5 DEF NothingDangling
<1>8. AccountsFit
  BY <1>6 DEF AInit, AccountsFit
<1>9. SessionsCurrent
  BY <1>2 DEF SessionsCurrent
<1>10. \A h \in Handlers : Relies(f[h])
  BY DEF AInit, Relies, Idle
<1> QED  BY <1>1, <1>7, <1>8, <1>9, <1>10 DEF SAInv

(* A step that changes nothing.                                             *)
LEMMA SerialStutter == ASSUME SAInv, UNCHANGED avars PROVE SAInv'
<1>1. AInv'
  BY AccountsNext DEF SAInv
<1>2. NothingDangling'
  BY DEF SAInv, avars, NothingDangling, Stored, Exists
<1>3. AccountsFit'
  BY DEF SAInv, avars, AccountsFit, Exists
<1>4. SessionsCurrent'
  BY DEF SAInv, avars, SessionsCurrent, SessionFits, Dropping, Stored
<1>5. \A h \in Handlers : Relies(f[h])'
  BY DEF SAInv, avars, Relies, Exists, Stored
<1> QED  BY <1>1, <1>2, <1>3, <1>4, <1>5 DEF SAInv

(* Every step preserves the invariant.                                      *)
LEMMA SerialNext == ASSUME Serial PROVE SAInv /\ [ANext]_avars => SAInv'
<1> SUFFICES ASSUME SAInv, [ANext]_avars PROVE SAInv'
  OBVIOUS
<1>1. CASE UNCHANGED avars
  BY <1>1, SerialStutter
<1>2. CASE InitializeRootUser
  BY <1>2, InitializeRootUserSerial
<1>3. ASSUME NEW h \in Handlers, Start(h) PROVE SAInv'
  BY <1>3, LoginSerial, FirstTimeByNameSerial, LogoutSerial, ReadTokenSerial DEF Start
<1>4. ASSUME NEW h \in Handlers, Manage(h) PROVE SAInv'
  BY <1>4, ChangePasswordSerial, ResetUserPasswordSerial, DeleteUserSerial,
     SetUserStatusSerial, UpdateUserSerial, CreateUserSerial DEF Manage
<1>5. ASSUME NEW h \in Handlers, Proceed(h) PROVE SAInv'
  BY <1>5, CreateSessionSerial, CheckCurrentPasswordSerial, LoadTokenUserSerial,
     ConsumeTokenSerial, LoadFirstTimeSerial, LoadActorSerial, CheckExistsSerial,
     SaveUserSerial, InvalidateSessionsSerial, RecheckDeleteSerial,
     DeleteMembershipsSerial, DeleteRowSerial, InsertUserSerial, JoinTeamSerial,
     SetTeamApproverSerial, UpdateTeamsSerial, FailSerial, FailIgnoredSerial DEF Proceed
<1> QED  BY <1>1, <1>2, <1>3, <1>4, <1>5 DEF ANext

(* One handler at a time keeps accounts, sessions and what the handler      *)
(* holds in step with each other.                                           *)
THEOREM SerialAccounts == ASSUME Serial PROVE ASpec => []SAInv
  BY SerialInit, SerialNext, PTL DEF ASpec

(* While nobody is at work, no handler is about to drop sessions.           *)
LEMMA QuietFits ==
    ASSUME SAInv, Quiescent, failures = 0, NEW s \in Sessions, Stored(s)
    PROVE  SessionFits(s)
<1>1. \A u : ~Dropping(u)
  BY DEF Quiescent, At, Dropping
<1> QED  BY <1>1 DEF SAInv, SessionsCurrent

(* Once a reset that met no failing database call is over, no session       *)
(* opened with an earlier password gets through the middleware: the row     *)
(* and the sessions are written by two calls, and with one handler at a     *)
(* time no login can come between them.                                     *)
THEOREM SerialResetLocksOut == ASSUME Serial PROVE ASpec => []CleanResetLocksOut
<1>1. SAInv => CleanResetLocksOut
  <2> SUFFICES ASSUME SAInv, failures = 0, Quiescent, NEW s \in Sessions, Passes(s)
               PROVE  sessions[s].pw >= barred[sessions[s].user]
    BY DEF CleanResetLocksOut, ResetLocksOut
  <2>1. Stored(s)
    BY DEF Passes, Stored
  <2>2. barred[sessions[s].user] <= sessions[s].pw
    BY <2>1, QuietFits DEF SessionFits
  <2> QED  BY <2>2
<1> QED  BY <1>1, SerialAccounts, PTL

(* A password change token is outstanding only while the password it was    *)
(* issued for still has to be changed, as long as no database call failed.  *)
THEOREM SerialTokens == ASSUME Serial PROVE ASpec => []TokensAreCurrent
<1>1. SAInv => TokensAreCurrent
  BY QuietFits DEF TokensAreCurrent, SessionFits
<1> QED  BY <1>1, SerialAccounts, PTL

(* No session and no membership of an account that is gone, wherever        *)
(* DeleteUser or CreateUser is interrupted by a failing database call.      *)
THEOREM SerialNothingDangling == ASSUME Serial PROVE ASpec => []NothingDangling
<1>1. SAInv => NothingDangling
  BY DEF SAInv
<1> QED  BY <1>1, SerialAccounts, PTL
=============================================================================
