---------------------------- MODULE OwnershipProofs ----------------------------
(***************************************************************************)
(* Teams, applications and the tables that join them.  For any number of   *)
(* handlers: every variable keeps its type, and the permission reported of *)
(* a user is the highest of the user's teams.  For one handler at a time,  *)
(* with database calls that fail at any statement: no row outlives what it *)
(* points to, and what follows from that.                                  *)
(***************************************************************************)
EXTENDS Ownership, TLAPS, FiniteSetTheorems, WellFoundedInduction

Ops == {"none", "createApp", "executeCreate", "updateApp", "deleteApp",
        "updateTeam", "deleteTeam", "addUser", "addApp"}
Places == {"idle", "insert", "bindCheck", "bind", "rollback", "rename",
           "strip", "stripNext", "eraseApp", "checkTeam", "saveTeam",
           "unlinkUsers", "unlinkApps", "eraseTeam", "append"}

(* The places where a handler uses a name, an application or a team.        *)
NameAt == {"insert", "rename", "checkTeam", "saveTeam"}
AppAt == {"insert", "bindCheck", "bind", "rollback", "rename", "strip", "stripNext",
          "eraseApp"}
TeamAt == {"insert", "bindCheck", "bind", "strip", "stripNext", "checkTeam",
           "saveTeam", "unlinkUsers", "unlinkApps", "eraseTeam", "append"}

(* There the request has given it one.                                      *)
Shape(f) ==
    /\ f.pc \in NameAt => f.name \in Names
    /\ f.pc \in AppAt => f.app \in Apps
    /\ f.pc \in TeamAt => f.team \in Teams

OInv == OTypeOK /\ \A h \in Handlers : Shape(g[h])

-----------------------------------------------------------------------------
(* Frames *)

(* Frames, with the sets of its two labels named.                           *)
LEMMA FrameSets ==
  Frames = [op : Ops, pc : Places, team : Teams \cup {None}, app : Apps \cup {None},
            name : Names \cup {None}, perm : Permissions, list : SUBSET Teams,
            members : SUBSET Users, linked : [Apps -> Names \cup {None}]]
  BY DEF Frames, Ops, Places

(* The empty frame.                                                         *)
LEMMA IdleOK ==
  /\ Idle \in Frames /\ Shape(Idle)
  /\ Idle.op = "none" /\ Idle.pc = "idle" /\ Idle.perm = "admin"
  /\ Idle.team = None /\ Idle.app = None /\ Idle.name = None
  BY DEF Idle, Frames, Permissions, Shape, NameAt, AppAt, TeamAt

(* A frame that only moves on.                                              *)
LEMMA MovedOK ==
  ASSUME NEW f \in Frames, NEW pc \in Places
  PROVE  /\ [f EXCEPT !.pc = pc] \in Frames
         /\ [f EXCEPT !.pc = pc].pc = pc
         /\ [f EXCEPT !.pc = pc].op = f.op
         /\ [f EXCEPT !.pc = pc].team = f.team
         /\ [f EXCEPT !.pc = pc].app = f.app
         /\ [f EXCEPT !.pc = pc].name = f.name
         /\ [f EXCEPT !.pc = pc].perm = f.perm
         /\ [f EXCEPT !.pc = pc].list = f.list
         /\ [f EXCEPT !.pc = pc].members = f.members
         /\ [f EXCEPT !.pc = pc].linked = f.linked
  BY DEF Frames, Places

(* The frame of a call.                                                     *)
Called(o, l, t, a, n) ==
    [Idle EXCEPT !.op = o, !.pc = l, !.team = t, !.app = a, !.name = n]

(* It holds the request and the permission admin.                           *)
LEMMA CalledOK ==
  ASSUME NEW o \in Ops, NEW l \in Places, NEW t \in Teams \cup {None},
         NEW a \in Apps \cup {None}, NEW n \in Names \cup {None}
  PROVE  /\ Called(o, l, t, a, n) \in Frames
         /\ Called(o, l, t, a, n).op = o /\ Called(o, l, t, a, n).pc = l
         /\ Called(o, l, t, a, n).team = t /\ Called(o, l, t, a, n).app = a
         /\ Called(o, l, t, a, n).name = n /\ Called(o, l, t, a, n).perm = "admin"
<1>1. Called(o, l, t, a, n) \in Frames
  BY IdleOK, FrameSets DEF Called
<1>2. /\ Called(o, l, t, a, n).op = o /\ Called(o, l, t, a, n).pc = l
      /\ Called(o, l, t, a, n).team = t
  BY DEF Idle, Called
<1>3. /\ Called(o, l, t, a, n).app = a
      /\ Called(o, l, t, a, n).name = n /\ Called(o, l, t, a, n).perm = "admin"
  BY DEF Idle, Called
<1> QED  BY <1>1, <1>2, <1>3

(* The other handlers keep their frames.                                    *)
LEMMA FrameStep ==
  ASSUME OInv, NEW h \in Handlers, NEW f \in Frames, Shape(f),
         g' = [g EXCEPT ![h] = f]
  PROVE  /\ g' \in [Handlers -> Frames]
         /\ \A k \in Handlers : Shape(g'[k])
         /\ g'[h] = f
  BY DEF OInv, OTypeOK

(* A handler that ends.                                                     *)
LEMMA EndStep ==
  ASSUME OInv, NEW h \in Handlers, End(h)
  PROVE  /\ g' \in [Handlers -> Frames]
         /\ \A k \in Handlers : Shape(g'[k])
         /\ g'[h] = Idle
  BY IdleOK, FrameStep DEF End

(* A handler that moves on to where its request suffices.                   *)
LEMMA GotoStep ==
  ASSUME OInv, NEW h \in Handlers, NEW l \in Places, Goto(h, l),
         l \in NameAt => g[h].name \in Names,
         l \in AppAt => g[h].app \in Apps,
         l \in TeamAt => g[h].team \in Teams
  PROVE  /\ g' \in [Handlers -> Frames]
         /\ \A k \in Handlers : Shape(g'[k])
         /\ g'[h].pc = l /\ g'[h].op = g[h].op /\ g'[h].team = g[h].team
         /\ g'[h].app = g[h].app /\ g'[h].name = g[h].name
         /\ g'[h].perm = g[h].perm /\ g'[h].list = g[h].list
         /\ g'[h].members = g[h].members /\ g'[h].linked = g[h].linked
<1>1. g[h] \in Frames  BY DEF OInv, OTypeOK
<1>2. PICK f : f = [g[h] EXCEPT !.pc = l]
  OBVIOUS
<1>3. /\ f \in Frames
      /\ f.pc = l /\ f.op = g[h].op /\ f.team = g[h].team /\ f.app = g[h].app
      /\ f.name = g[h].name /\ f.perm = g[h].perm /\ f.list = g[h].list
      /\ f.members = g[h].members /\ f.linked = g[h].linked
  BY <1>1, <1>2, MovedOK
<1>4. g' = [g EXCEPT ![h] = f]  BY <1>2 DEF Goto
<1>5. Shape(f)  BY <1>3 DEF Shape
<1> QED  BY <1>3, <1>4, <1>5, FrameStep

(* A handler that begins a call.                                            *)
LEMMA CallStep ==
  ASSUME OInv, NEW h \in Handlers, NEW o \in Ops, NEW l \in Places,
         NEW t \in Teams \cup {None}, NEW a \in Apps \cup {None},
         NEW n \in Names \cup {None}, Call(h, o, l, t, a, n),
         l \in NameAt => n \in Names, l \in AppAt => a \in Apps, l \in TeamAt => t \in Teams
  PROVE  /\ g' \in [Handlers -> Frames]
         /\ \A k \in Handlers : Shape(g'[k])
         /\ g'[h].op = o /\ g'[h].pc = l /\ g'[h].team = t /\ g'[h].app = a
         /\ g'[h].name = n /\ g'[h].perm = "admin"
<1>1. PICK f \in Frames :
         /\ f = Called(o, l, t, a, n)
         /\ f.op = o /\ f.pc = l /\ f.team = t /\ f.app = a /\ f.name = n
         /\ f.perm = "admin"
  BY CalledOK
<1>2. g' = [g EXCEPT ![h] = f]  BY <1>1 DEF Call, Called
<1>3. Shape(f)  BY <1>1 DEF Shape
<1> QED  BY <1>1, <1>2, <1>3, FrameStep

-----------------------------------------------------------------------------
(* Every action keeps the types; a lemma for each.                          *)

USE DEF At

(* Nobody has called anything and the tables are empty.                     *)
LEMMA OInitInv == ASSUME OInit PROVE OInv
  BY IdleOK, OwnershipAssumption DEF OInit, OInv, OTypeOK, NameOrGone, Permissions

(* A step that changes no table but only a frame.                           *)
LEMMA TablesStay ==
  ASSUME OInv, g' \in [Handlers -> Frames], \A k \in Handlers : Shape(g'[k]),
         UNCHANGED Tables, UNCHANGED Rest
  PROVE  OInv'
  BY DEF OInv, OTypeOK, Tables, Rest

(* The tables of a step that leaves the frames alone.                       *)
LEMMA CreateTeamTyped ==
  ASSUME OInv, NEW h \in Handlers, NEW t \in Teams, NEW n \in Names, CreateTeam(h, t, n)
  PROVE  OInv'
  BY DEF OInv, OTypeOK, CreateTeam, NameOrGone, Rest

(* A team is loaded with its members and its applications.                  *)
LEMMA UpdateTeamTyped ==
  ASSUME OInv, NEW h \in Handlers, NEW t \in Teams, NEW n \in Names, UpdateTeam(h, t, n)
  PROVE  /\ OInv'
         /\ g'[h].op = "updateTeam" /\ g'[h].pc = "checkTeam"
         /\ \A a \in Apps : g'[h].linked[a] # None => AppExists(a)
<1> DEFINE U == GetUsersByTeamID(t)
           L == [a \in Apps |-> IF a \in GetApplicationsByTeamID(t) THEN apps[a] ELSE None]
<1>1. U \in SUBSET Users /\ L \in [Apps -> Names \cup {None}]
  BY DEF OInv, OTypeOK, GetUsersByTeamID, GetApplicationsByTeamID, AppExists
<1>2. \A a \in Apps : L[a] # None => AppExists(a)
  BY DEF GetApplicationsByTeamID
<1>3. g' = [g EXCEPT ![h] =
         [Idle EXCEPT !.op = "updateTeam", !.pc = "checkTeam", !.team = t,
                      !.name = n, !.members = U, !.linked = L]]
  BY DEF UpdateTeam
<1> HIDE DEF U, L
<1>4. PICK f : f = [Idle EXCEPT !.op = "updateTeam", !.pc = "checkTeam", !.team = t,
                                !.name = n, !.members = U, !.linked = L]
  OBVIOUS
<1>5. f \in Frames
  BY <1>1, <1>4, IdleOK, FrameSets DEF Ops, Places
<1>6. /\ f.op = "updateTeam" /\ f.pc = "checkTeam" /\ f.team = t /\ f.name = n
      /\ f.linked = L
  BY <1>4 DEF Idle
<1>7. Shape(f)
  BY <1>6 DEF Shape, NameAt, AppAt, TeamAt
<1>8. g' \in [Handlers -> Frames] /\ (\A k \in Handlers : Shape(g'[k])) /\ g'[h] = f
  BY <1>3, <1>4, <1>5, <1>7, FrameStep
<1>9. OInv'
  BY <1>8, TablesStay DEF UpdateTeam
<1> QED  BY <1>2, <1>6, <1>8, <1>9

(* The second look at the team and the name.                                *)
LEMMA CheckTeamTyped ==
  ASSUME OInv, NEW h \in Handlers, CheckTeam(h)
  PROVE  OInv'
<1>1. CASE End(h)
  BY <1>1, EndStep, TablesStay DEF CheckTeam
<1>2. CASE Goto(h, "saveTeam")
  <2>1. g[h].name \in Names /\ g[h].team \in Teams
    BY DEF OInv, Shape, CheckTeam, NameAt, TeamAt
  <2> QED  BY <1>2, <2>1, GotoStep, TablesStay DEF CheckTeam, Places, AppAt
<1> QED  BY <1>1, <1>2 DEF CheckTeam

(* The struct is saved, with the rows it was preloaded with.                *)
LEMMA SaveTeamTyped ==
  ASSUME OInv, NEW h \in Handlers, SaveTeam(h)
  PROVE  OInv'
<1>1. /\ g' \in [Handlers -> Frames]
      /\ \A k \in Handlers : Shape(g'[k])
  BY EndStep DEF SaveTeam
<1>2. CASE UNCHANGED Tables
  BY <1>1, <1>2, TablesStay DEF SaveTeam
<1>3. CASE ~UNCHANGED Tables
  <2>1. /\ g[h].name \in Names /\ g[h].team \in Teams /\ g[h].members \subseteq Users
        /\ g[h].linked \in [Apps -> Names \cup {None}]
    BY DEF OInv, OTypeOK, Shape, SaveTeam, NameAt, TeamAt, Frames
  <2>2. teams' \in [Teams -> NameOrGone]
    BY <1>3, <2>1 DEF OInv, OTypeOK, SaveTeam, NameOrGone
  <2>3. team_users' \subseteq Teams \X Users
    BY <1>3, <2>1 DEF OInv, OTypeOK, SaveTeam
  <2>4. team_applications' \in [Teams -> [Apps -> Permissions \cup {"none"}]]
    BY <1>3, <2>1 DEF OInv, OTypeOK, SaveTeam, Permissions
  <2>5. apps' \in [Apps -> NameOrGone]
    BY <1>3, <2>1 DEF OInv, OTypeOK, SaveTeam, NameOrGone
  <2>6. UNCHANGED <<failures, told>>
    BY DEF SaveTeam, Rest
  <2> QED  BY <1>1, <2>2, <2>3, <2>4, <2>5, <2>6 DEF OInv, OTypeOK
<1> QED  BY <1>2, <1>3

(* The three statements that delete a team.                                 *)
LEMMA DeleteTeamTyped ==
  ASSUME OInv, NEW h \in Handlers, NEW t \in Teams, DeleteTeam(h, t)
  PROVE  OInv' /\ g'[h].op = "deleteTeam" /\ g'[h].pc = "unlinkUsers"
<1>1. /\ g' \in [Handlers -> Frames]
      /\ \A k \in Handlers : Shape(g'[k])
      /\ g'[h].op = "deleteTeam" /\ g'[h].pc = "unlinkUsers"
  BY CallStep DEF DeleteTeam, Ops, Places, NameAt, AppAt
<1> QED  BY <1>1, TablesStay DEF DeleteTeam

(* The members' rows.                                                       *)
LEMMA UnlinkUsersTyped ==
  ASSUME OInv, NEW h \in Handlers, UnlinkUsers(h)
  PROVE  OInv' /\ g'[h].pc = "unlinkApps" /\ g'[h].team = g[h].team
               /\ g[h].team \in Teams /\ g'[h].op = g[h].op /\ g'[h].perm = g[h].perm
<1>1. g[h].team \in Teams
  BY DEF OInv, Shape, UnlinkUsers, TeamAt
<1>2. /\ g' \in [Handlers -> Frames]
      /\ \A k \in Handlers : Shape(g'[k])
      /\ g'[h].pc = "unlinkApps" /\ g'[h].team = g[h].team
      /\ g'[h].op = g[h].op /\ g'[h].perm = g[h].perm
  BY <1>1, GotoStep DEF UnlinkUsers, Places, NameAt, AppAt
<1> QED  BY <1>1, <1>2 DEF OInv, OTypeOK, UnlinkUsers, Rest

(* The applications' rows.                                                  *)
LEMMA UnlinkAppsTyped ==
  ASSUME OInv, NEW h \in Handlers, UnlinkApps(h)
  PROVE  OInv' /\ g'[h].pc = "eraseTeam" /\ g'[h].team = g[h].team
               /\ g[h].team \in Teams /\ g'[h].op = g[h].op /\ g'[h].perm = g[h].perm
<1>1. g[h].team \in Teams
  BY DEF OInv, Shape, UnlinkApps, TeamAt
<1>2. /\ g' \in [Handlers -> Frames]
      /\ \A k \in Handlers : Shape(g'[k])
      /\ g'[h].pc = "eraseTeam" /\ g'[h].team = g[h].team
      /\ g'[h].op = g[h].op /\ g'[h].perm = g[h].perm
  BY <1>1, GotoStep DEF UnlinkApps, Places, NameAt, AppAt
<1>3. team_applications' \in [Teams -> [Apps -> Permissions \cup {"none"}]]
  BY DEF OInv, OTypeOK, UnlinkApps
<1> QED  BY <1>1, <1>2, <1>3 DEF OInv, OTypeOK, UnlinkApps, Rest

(* The team itself.                                                         *)
LEMMA EraseTeamTyped ==
  ASSUME OInv, NEW h \in Handlers, EraseTeam(h)
  PROVE  OInv' /\ g'[h] = Idle
<1>1. /\ g' \in [Handlers -> Frames]
      /\ \A k \in Handlers : Shape(g'[k])
      /\ g'[h] = Idle
  BY EndStep DEF EraseTeam
<1> QED  BY <1>1 DEF OInv, OTypeOK, EraseTeam, NameOrGone, Rest

(* A user to be added to a team.                                            *)
LEMMA AddUserTyped ==
  ASSUME OInv, NEW h \in Handlers, NEW t \in Teams, NEW u \in Users, AddUserToTeam(h, t, u)
  PROVE  OInv' /\ g'[h].op = "addUser" /\ g'[h].pc = "append"
<1>1. PICK f : f = [Idle EXCEPT !.op = "addUser", !.pc = "append", !.team = t,
                                !.members = {u}]
  OBVIOUS
<1>2. f \in Frames
  BY <1>1, IdleOK, FrameSets DEF Ops, Places
<1>3. f.op = "addUser" /\ f.pc = "append" /\ f.team = t
  BY <1>1 DEF Idle
<1>4. Shape(f)
  BY <1>3 DEF Shape, NameAt, AppAt, TeamAt
<1>5. g' = [g EXCEPT ![h] = f]
  BY <1>1 DEF AddUserToTeam
<1>6. /\ g' \in [Handlers -> Frames]
      /\ \A k \in Handlers : Shape(g'[k])
      /\ g'[h] = f
  BY <1>2, <1>4, <1>5, FrameStep
<1> QED  BY <1>3, <1>6, TablesStay DEF AddUserToTeam

(* The row of the user.                                                     *)
LEMMA AppendUserTyped ==
  ASSUME OInv, NEW h \in Handlers, AppendUser(h)
  PROVE  OInv' /\ g'[h] = Idle
<1>1. /\ g' \in [Handlers -> Frames]
      /\ \A k \in Handlers : Shape(g'[k])
      /\ g'[h] = Idle
  BY EndStep DEF AppendUser
<1>2. g[h].team \in Teams /\ g[h].members \subseteq Users
  BY DEF OInv, OTypeOK, Shape, AppendUser, TeamAt, Frames
<1> QED  BY <1>1, <1>2 DEF OInv, OTypeOK, AppendUser, Rest

(* The single statements that remove a user or an application of a team, or *)
(* change the permission.                                                   *)
LEMMA RemoveUserTyped ==
  ASSUME OInv, NEW h \in Handlers, NEW t \in Teams, NEW u \in Users,
         RemoveUserFromTeam(h, t, u)
  PROVE  OInv'
  BY DEF OInv, OTypeOK, RemoveUserFromTeam, Rest

(* The association is removed.                                              *)
LEMMA RemoveAppTyped ==
  ASSUME OInv, NEW h \in Handlers, NEW t \in Teams, NEW a \in Apps,
         RemoveApplicationFromTeam(h, t, a)
  PROVE  OInv'
  BY DEF OInv, OTypeOK, RemoveApplicationFromTeam, Rest

(* The permission is one ValidatePermission accepts.                        *)
LEMMA UpdatePermissionTyped ==
  ASSUME OInv, NEW h \in Handlers, NEW t \in Teams, NEW a \in Apps,
         NEW perm \in Permissions, UpdateApplicationPermission(h, t, a, perm)
  PROVE  OInv'
  BY DEF OInv, OTypeOK, UpdateApplicationPermission, Rest

(* An application to be added to a team.                                    *)
LEMMA AddAppTyped ==
  ASSUME OInv, NEW h \in Handlers, NEW t \in Teams, NEW a \in Apps,
         NEW perm \in Permissions, AddApplicationToTeam(h, t, a, perm)
  PROVE  OInv' /\ g'[h].op = "addApp" /\ g'[h].pc = "bindCheck"
<1>1. PICK f : f = [Idle EXCEPT !.op = "addApp", !.pc = "bindCheck",
                                !.team = t, !.app = a, !.perm = perm]
  OBVIOUS
<1>2. f \in Frames
  BY <1>1, IdleOK, FrameSets DEF Ops, Places
<1>3. f.op = "addApp" /\ f.pc = "bindCheck" /\ f.team = t /\ f.app = a
  BY <1>1 DEF Idle
<1>4. Shape(f)
  BY <1>3 DEF Shape, NameAt, AppAt, TeamAt
<1>5. g' = [g EXCEPT ![h] = f]
  BY <1>1 DEF AddApplicationToTeam
<1>6. /\ g' \in [Handlers -> Frames]
      /\ \A k \in Handlers : Shape(g'[k])
      /\ g'[h] = f
  BY <1>2, <1>4, <1>5, FrameStep
<1> QED  BY <1>3, <1>6, TablesStay DEF AddApplicationToTeam

(* A new application, on request or after an approval.                      *)
LEMMA CreateAppTyped ==
  ASSUME OInv, NEW h \in Handlers, NEW a \in Apps, NEW n \in Names, NEW t \in Teams,
         CreateApplication(h, a, n, t) \/ executeApplicationCreate(h, a, n, t)
  PROVE  /\ OInv' /\ UNCHANGED Tables /\ UNCHANGED Rest
         /\ g'[h].op \in {"createApp", "executeCreate"} /\ g'[h].pc = "insert"
         /\ g'[h].app = a /\ apps[a] = "unborn"
<1>1. /\ g' \in [Handlers -> Frames]
      /\ \A k \in Handlers : Shape(g'[k])
      /\ g'[h].op \in {"createApp", "executeCreate"} /\ g'[h].pc = "insert"
      /\ g'[h].app = a
  BY CallStep DEF CreateApplication, executeApplicationCreate, Ops, Places
<1> QED  BY <1>1, TablesStay DEF CreateApplication, executeApplicationCreate

(* Its row.                                                                 *)
LEMMA InsertTyped ==
  ASSUME OInv, NEW h \in Handlers, InsertApplication(h)
  PROVE  /\ OInv' /\ g'[h].pc = "bindCheck" /\ g'[h].op = g[h].op
         /\ g'[h].perm = g[h].perm /\ g'[h].app = g[h].app
         /\ g[h].app \in Apps /\ g[h].name \in Names
<1>1. g[h].app \in Apps /\ g[h].name \in Names /\ g[h].team \in Teams
  BY DEF OInv, Shape, InsertApplication, NameAt, AppAt, TeamAt
<1>2. /\ g' \in [Handlers -> Frames]
      /\ \A k \in Handlers : Shape(g'[k])
      /\ g'[h].pc = "bindCheck" /\ g'[h].op = g[h].op /\ g'[h].perm = g[h].perm
      /\ g'[h].app = g[h].app
  BY <1>1, GotoStep DEF InsertApplication, Places
<1> QED  BY <1>1, <1>2 DEF OInv, OTypeOK, InsertApplication, NameOrGone, Rest

(* A failed association ends the call or rolls the new application back.    *)
LEMMA BindErrorStep ==
  ASSUME OInv, NEW h \in Handlers, g[h].pc \in {"bindCheck", "bind"}, OnBindError(h)
  PROVE  /\ g' \in [Handlers -> Frames]
         /\ \A k \in Handlers : Shape(g'[k])
         /\ \/ g[h].op # "createApp" /\ g'[h] = Idle
            \/ g[h].op = "createApp" /\ g'[h].pc = "rollback" /\ g'[h].op = "createApp"
<1>1. g[h].app \in Apps
  BY DEF OInv, Shape, AppAt
<1>2. CASE g[h].op # "createApp"
  BY <1>2, EndStep DEF OnBindError
<1>3. CASE g[h].op = "createApp"
  BY <1>1, <1>3, GotoStep DEF OnBindError, Places, NameAt, TeamAt
<1> QED  BY <1>2, <1>3

(* The checks before the association.                                       *)
LEMMA CheckBindTyped ==
  ASSUME OInv, NEW h \in Handlers, CheckBind(h)
  PROVE  /\ OInv' /\ UNCHANGED Tables /\ UNCHANGED Rest
         /\ \/ g'[h] = Idle
            \/ g'[h].pc = "rollback" /\ g'[h].op = "createApp"
            \/ /\ g'[h].pc = "bind" /\ g'[h].op = g[h].op /\ g'[h].perm = g[h].perm
               /\ g'[h].team = g[h].team /\ g'[h].app = g[h].app
               /\ g[h].app \in Apps /\ g[h].team \in Teams
               /\ TeamExists(g[h].team) /\ AppExists(g[h].app)
               /\ ~Linked(g[h].team, g[h].app)
<1>1. g[h].app \in Apps /\ g[h].team \in Teams
  BY DEF OInv, Shape, CheckBind, AppAt, TeamAt
<1>2. UNCHANGED Tables /\ UNCHANGED Rest
  BY DEF CheckBind
<1>3. CASE OnBindError(h)
  BY <1>2, <1>3, BindErrorStep, TablesStay DEF CheckBind
<1>4. CASE ~OnBindError(h)
  <2>1. /\ Goto(h, "bind") /\ TeamExists(g[h].team) /\ AppExists(g[h].app)
        /\ ~Linked(g[h].team, g[h].app)
    BY <1>1, <1>4 DEF CheckBind, GetApplicationsByTeamID
  <2>2. /\ g' \in [Handlers -> Frames]
        /\ \A k \in Handlers : Shape(g'[k])
        /\ g'[h].pc = "bind" /\ g'[h].op = g[h].op /\ g'[h].perm = g[h].perm
        /\ g'[h].team = g[h].team /\ g'[h].app = g[h].app
    BY <1>1, <2>1, GotoStep DEF Places, NameAt
  <2> QED  BY <1>1, <1>2, <2>1, <2>2, TablesStay
<1> QED  BY <1>3, <1>4

(* The insertion of the association.                                        *)
LEMMA BindTyped ==
  ASSUME OInv, NEW h \in Handlers, Bind(h)
  PROVE  /\ OInv'
         /\ g[h].app \in Apps /\ g[h].team \in Teams /\ g[h].perm \in Permissions
         /\ \/ /\ g'[h] = Idle \/ (g'[h].pc = "rollback" /\ g'[h].op = "createApp")
               /\ Linked(g[h].team, g[h].app) /\ UNCHANGED <<team_applications, told>>
            \/ /\ g'[h] = Idle
               /\ team_applications' =
                    [team_applications EXCEPT ![g[h].team][g[h].app] = g[h].perm]
               /\ told' = told \/ told' = [told EXCEPT ![g[h].app] = "created"]
<1>1. g[h].app \in Apps /\ g[h].team \in Teams /\ g[h].perm \in Permissions
  BY DEF OInv, OTypeOK, Shape, Bind, AppAt, TeamAt, Frames
<1>2. CASE Linked(g[h].team, g[h].app)
  <2>1. /\ OnBindError(h)
        /\ UNCHANGED <<teams, apps, team_users, team_applications, failures, told>>
    BY <1>2 DEF Bind
  <2>2. /\ g' \in [Handlers -> Frames]
        /\ \A k \in Handlers : Shape(g'[k])
        /\ g'[h] = Idle \/ (g'[h].pc = "rollback" /\ g'[h].op = "createApp")
    BY <2>1, BindErrorStep DEF Bind
  <2> QED  BY <1>1, <1>2, <2>1, <2>2, TablesStay DEF Tables, Rest
<1>3. CASE ~Linked(g[h].team, g[h].app)
  <2>1. /\ End(h) /\ UNCHANGED <<teams, apps, team_users, failures>>
        /\ team_applications' =
             [team_applications EXCEPT ![g[h].team][g[h].app] = g[h].perm]
        /\ told' = told \/ told' = [told EXCEPT ![g[h].app] = "created"]
    BY <1>3 DEF Bind
  <2>2. /\ g' \in [Handlers -> Frames]
        /\ \A k \in Handlers : Shape(g'[k])
        /\ g'[h] = Idle
    BY <2>1, EndStep
  <2>3. /\ team_applications' \in [Teams -> [Apps -> Permissions \cup {"none"}]]
        /\ told' \in [Apps -> {"nothing", "created", "refused", "stuck"}]
    BY <1>1, <2>1 DEF OInv, OTypeOK
  <2> QED  BY <1>1, <2>1, <2>2, <2>3 DEF OInv, OTypeOK
<1> QED  BY <1>2, <1>3

(* The transaction that deletes an application keeps the tables' types.     *)
LEMMA EraseTyped ==
  ASSUME OInv, NEW a \in Apps, EraseApplication(a)
  PROVE  /\ apps' \in [Apps -> NameOrGone]
         /\ team_applications' \in [Teams -> [Apps -> Permissions \cup {"none"}]]
  BY DEF OInv, OTypeOK, EraseApplication, NameOrGone

(* The rollback of a creation.                                              *)
LEMMA RollbackTyped ==
  ASSUME OInv, NEW h \in Handlers, Rollback(h)
  PROVE  /\ OInv' /\ g'[h] = Idle /\ g[h].app \in Apps
<1>1. g[h].app \in Apps
  BY DEF OInv, Shape, Rollback, AppAt
<1>2. /\ g' \in [Handlers -> Frames]
      /\ \A k \in Handlers : Shape(g'[k])
      /\ g'[h] = Idle
  BY EndStep DEF Rollback
<1>3. /\ apps' \in [Apps -> NameOrGone]
      /\ team_applications' \in [Teams -> [Apps -> Permissions \cup {"none"}]]
  BY <1>1, EraseTyped DEF Rollback, OInv, OTypeOK
<1>4. told' \in [Apps -> {"nothing", "created", "refused", "stuck"}]
  BY DEF Rollback, OInv, OTypeOK
<1> QED  BY <1>1, <1>2, <1>3, <1>4 DEF OInv, OTypeOK, Rollback

(* The deletion of an application.                                          *)
LEMMA DeleteAppTyped ==
  ASSUME OInv, NEW h \in Handlers, NEW a \in Apps, DeleteApplication(h, a)
  PROVE  OInv' /\ g'[h].op = "deleteApp" /\ g'[h].pc = "eraseApp"
<1>1. /\ g' \in [Handlers -> Frames]
      /\ \A k \in Handlers : Shape(g'[k])
      /\ g'[h].op = "deleteApp" /\ g'[h].pc = "eraseApp"
  BY CallStep DEF DeleteApplication, Ops, Places, NameAt, TeamAt
<1> QED  BY <1>1, TablesStay DEF DeleteApplication

(* Its transaction.                                                         *)
LEMMA EraseAppTyped ==
  ASSUME OInv, NEW h \in Handlers, EraseApp(h)
  PROVE  /\ OInv' /\ g'[h] = Idle /\ g[h].app \in Apps
<1>1. g[h].app \in Apps
  BY DEF OInv, Shape, EraseApp, AppAt
<1>2. /\ g' \in [Handlers -> Frames]
      /\ \A k \in Handlers : Shape(g'[k])
      /\ g'[h] = Idle
  BY EndStep DEF EraseApp
<1>3. /\ apps' \in [Apps -> NameOrGone]
      /\ team_applications' \in [Teams -> [Apps -> Permissions \cup {"none"}]]
  BY <1>1, EraseTyped DEF EraseApp
<1> QED  BY <1>1, <1>2, <1>3 DEF OInv, OTypeOK, EraseApp, Rest

(* A renaming, with or without a new team.                                  *)
LEMMA UpdateAppTyped ==
  ASSUME OInv, NEW h \in Handlers, NEW a \in Apps, NEW n \in Names,
         NEW t \in Teams \cup {None}, UpdateApplication(h, a, n, t)
  PROVE  /\ OInv' /\ g'[h].op = "updateApp" /\ g'[h].pc = "rename"
         /\ g'[h].app = a /\ g'[h].perm = "admin"
<1>1. /\ g' \in [Handlers -> Frames]
      /\ \A k \in Handlers : Shape(g'[k])
      /\ g'[h].op = "updateApp" /\ g'[h].pc = "rename"
      /\ g'[h].app = a /\ g'[h].perm = "admin"
  BY CallStep DEF UpdateApplication, Ops, Places, TeamAt
<1> QED  BY <1>1, TablesStay DEF UpdateApplication

(* The renaming itself.                                                     *)
LEMMA RenameTyped ==
  ASSUME OInv, NEW h \in Handlers, RenameApplication(h)
  PROVE  /\ OInv' /\ g[h].app \in Apps /\ g[h].name \in Names
         /\ \/ g'[h] = Idle
            \/ g'[h].pc = "strip" /\ g'[h].op = g[h].op /\ g'[h].perm = g[h].perm
<1>1. g[h].app \in Apps /\ g[h].name \in Names /\ g[h].team \in Teams \cup {None}
  BY DEF OInv, OTypeOK, Shape, RenameApplication, NameAt, AppAt, Frames
<1>2. /\ g' \in [Handlers -> Frames]
      /\ \A k \in Handlers : Shape(g'[k])
      /\ \/ g'[h] = Idle
         \/ g'[h].pc = "strip" /\ g'[h].op = g[h].op /\ g'[h].perm = g[h].perm
  <2>1. CASE g[h].team = None
    BY <2>1, EndStep DEF RenameApplication
  <2>2. CASE g[h].team # None
    BY <1>1, <2>2, GotoStep DEF RenameApplication, Places, NameAt
  <2> QED  BY <2>1, <2>2
<1> QED  BY <1>1, <1>2 DEF OInv, OTypeOK, RenameApplication, NameOrGone, Rest

(* The teams the application is in are listed.                              *)
LEMMA StripTyped ==
  ASSUME OInv, NEW h \in Handlers, RemoveApplicationFromAllTeams(h)
  PROVE  /\ OInv' /\ g[h].app \in Apps
         /\ \/ g'[h] = Idle
            \/ /\ g'[h].pc = "stripNext" /\ g'[h].op = g[h].op /\ g'[h].perm = g[h].perm
               /\ g'[h].app = g[h].app /\ g'[h].list = GetTeamsByApplicationID(g[h].app)
<1>1. g[h] \in Frames /\ g[h].app \in Apps /\ g[h].team \in Teams
  BY DEF OInv, OTypeOK, Shape, RemoveApplicationFromAllTeams, AppAt, TeamAt
<1>2. CASE End(h)
  BY <1>1, <1>2, EndStep, TablesStay DEF RemoveApplicationFromAllTeams
<1>3. CASE ~End(h)
  <2>1. PICK list : list = GetTeamsByApplicationID(g[h].app)
    OBVIOUS
  <2>2. list \in SUBSET Teams
    BY <2>1 DEF GetTeamsByApplicationID
  <2>3. PICK f : f = [g[h] EXCEPT !.pc = "stripNext", !.list = list]
    OBVIOUS
  <2>4. f \in Frames
    BY <1>1, <2>2, <2>3, FrameSets DEF Places
  <2>5. /\ f.pc = "stripNext" /\ f.op = g[h].op /\ f.perm = g[h].perm
        /\ f.app = g[h].app /\ f.team = g[h].team /\ f.list = list
    BY <1>1, <2>3, FrameSets
  <2>6. Shape(f)
    BY <1>1, <2>5 DEF Shape, NameAt
  <2>7. g' = [g EXCEPT ![h] = f]
    BY <1>3, <2>1, <2>3 DEF RemoveApplicationFromAllTeams
  <2>8. /\ g' \in [Handlers -> Frames]
        /\ \A k \in Handlers : Shape(g'[k])
        /\ g'[h] = f
    BY <2>4, <2>6, <2>7, FrameStep
  <2>9. OInv'
    BY <2>8, TablesStay DEF RemoveApplicationFromAllTeams
  <2> QED  BY <1>1, <2>1, <2>5, <2>8, <2>9
<1> QED  BY <1>2, <1>3

(* One of them lets go of it, or none is left.                              *)
LEMMA StripNextTyped ==
  ASSUME OInv, NEW h \in Handlers, StripNext(h)
  PROVE  /\ OInv' /\ g[h].app \in Apps
         /\ g'[h].op = g[h].op /\ g'[h].perm = g[h].perm /\ g'[h].app = g[h].app
         /\ \/ /\ g[h].list = {} /\ g'[h].pc = "bindCheck" /\ UNCHANGED team_applications
            \/ \E t \in g[h].list :
                 /\ t \in Teams /\ g'[h].pc = "stripNext" /\ g'[h].list = g[h].list \ {t}
                 /\ team_applications' =
                      [team_applications EXCEPT ![t][g[h].app] = "none"]
<1>1. g[h] \in Frames /\ g[h].app \in Apps /\ g[h].team \in Teams
  BY DEF OInv, OTypeOK, Shape, StripNext, AppAt, TeamAt
<1>2. CASE g[h].list = {} /\ Goto(h, "bindCheck") /\ UNCHANGED team_applications
  <2>1. /\ g' \in [Handlers -> Frames]
        /\ \A k \in Handlers : Shape(g'[k])
        /\ g'[h].pc = "bindCheck" /\ g'[h].op = g[h].op /\ g'[h].perm = g[h].perm
        /\ g'[h].app = g[h].app
    BY <1>1, <1>2, GotoStep DEF Places, NameAt
  <2>2. OInv'
    BY <1>2, <2>1, TablesStay DEF StripNext, Tables
  <2> QED  BY <1>1, <1>2, <2>1, <2>2
<1>3. ASSUME NEW t \in g[h].list,
             team_applications' = [team_applications EXCEPT ![t][g[h].app] = "none"],
             g' = [g EXCEPT ![h].list = @ \ {t}]
      PROVE  /\ OInv' /\ t \in Teams
             /\ g'[h].op = g[h].op /\ g'[h].perm = g[h].perm /\ g'[h].app = g[h].app
             /\ g'[h].pc = "stripNext" /\ g'[h].list = g[h].list \ {t}
  <2>1. t \in Teams /\ g[h].pc = "stripNext"
    BY <1>1, <1>3 DEF Frames, StripNext
  <2>2. PICK f : f = [g[h] EXCEPT !.list = g[h].list \ {t}]
    OBVIOUS
  <2>3. f \in Frames
    BY <1>1, <2>2, FrameSets
  <2>4. /\ f.pc = g[h].pc /\ f.op = g[h].op /\ f.perm = g[h].perm
        /\ f.app = g[h].app /\ f.team = g[h].team /\ f.list = g[h].list \ {t}
    BY <1>1, <2>2, FrameSets
  <2>5. Shape(f)
    BY <1>1, <2>1, <2>4 DEF Shape, NameAt
  <2>6. g' = [g EXCEPT ![h] = f]
    BY <1>3, <2>2
  <2>7. /\ g' \in [Handlers -> Frames]
        /\ \A k \in Handlers : Shape(g'[k])
        /\ g'[h] = f
    BY <2>3, <2>5, <2>6, FrameStep
  <2>8. team_applications' \in [Teams -> [Apps -> Permissions \cup {"none"}]]
    BY <1>1, <1>3, <2>1 DEF OInv, OTypeOK
  <2>9. OInv'
    BY <2>7, <2>8 DEF OInv, OTypeOK, StripNext, Rest
  <2> QED  BY <2>1, <2>4, <2>7, <2>9
<1> QED  BY <1>1, <1>2, <1>3 DEF StripNext

(* A statement fails.                                                       *)
LEMMA FailTyped ==
  ASSUME OInv, NEW h \in Handlers, Fail(h)
  PROVE  /\ OInv' /\ UNCHANGED Tables
         /\ g'[h] = Idle \/ (g'[h].pc = "rollback" /\ g'[h].op = "createApp")
         /\ told' = told \/ told' = [told EXCEPT ![g[h].app] = "stuck"]
<1>1. /\ g' \in [Handlers -> Frames]
      /\ \A k \in Handlers : Shape(g'[k])
      /\ g'[h] = Idle \/ (g'[h].pc = "rollback" /\ g'[h].op = "createApp")
  <2>1. CASE g[h].pc \in {"bindCheck", "bind"}
    BY <2>1, BindErrorStep DEF Fail
  <2>2. CASE g[h].pc \notin {"bindCheck", "bind"}
    BY <2>2, EndStep DEF Fail
  <2> QED  BY <2>1, <2>2
<1>2. failures' \in 0..MaxFailures
  BY OwnershipAssumption DEF Fail, OInv, OTypeOK
<1>3. /\ told' \in [Apps -> {"nothing", "created", "refused", "stuck"}]
      /\ told' = told \/ told' = [told EXCEPT ![g[h].app] = "stuck"]
  BY DEF Fail, OInv, OTypeOK
<1>4. UNCHANGED Tables
  BY DEF Fail
<1> QED  BY <1>1, <1>2, <1>3, <1>4 DEF OInv, OTypeOK, Tables

(* Every step of a handler keeps the invariant.                             *)
LEMMA ONextInv == OInv /\ [ONext]_ovars => OInv'
<1> SUFFICES ASSUME OInv, [ONext]_ovars PROVE OInv'
  OBVIOUS
<1>1. ASSUME NEW h \in Handlers, TeamStep(h) PROVE OInv'
  BY <1>1, CreateTeamTyped, UpdateTeamTyped, CheckTeamTyped, SaveTeamTyped,
     DeleteTeamTyped, UnlinkUsersTyped, UnlinkAppsTyped, EraseTeamTyped, AddUserTyped,
     AppendUserTyped, RemoveUserTyped, RemoveAppTyped, UpdatePermissionTyped,
     AddAppTyped DEF TeamStep
<1>2. ASSUME NEW h \in Handlers, AppStep(h) PROVE OInv'
  BY <1>2, CreateAppTyped, InsertTyped, CheckBindTyped, BindTyped, RollbackTyped,
     DeleteAppTyped, EraseAppTyped, UpdateAppTyped, RenameTyped, StripTyped,
     StripNextTyped DEF AppStep
<1>3. CASE UNCHANGED ovars
  BY <1>3 DEF OInv, OTypeOK, ovars
<1> QED  BY <1>1, <1>2, <1>3, FailTyped DEF ONext

(* For any number of handlers, every variable keeps its type: in particular *)
(* the only permission levels stored are the three ValidatePermission       *)
(* accepts.                                                                 *)
THEOREM OTypeCorrect == OSpec => []OTypeOK
<1>1. OInv => OTypeOK  BY DEF OInv
<1> QED  BY <1>1, OInitInv, ONextInv, PTL DEF OSpec

-----------------------------------------------------------------------------
(* The permission a user has: the loop over the rows, in any order.         *)

Before == {ij \in Nat \X Nat : ij[1] < ij[2]}

(* Every non-empty set of numbers has a least element.                       *)
LEMMA Least ==
    ASSUME NEW T \in SUBSET Nat, T # {} PROVE \E x \in T : \A y \in T : x <= y
<1>1. IsWellFoundedOn(Before, Nat)
  BY NatLessThanWellFounded, Zenon DEF Before, OpToRel
<1>2. PICK x \in T : \A y \in T : ~(<<y, x>> \in Before)
  BY <1>1, WFMin
<1>3. ASSUME NEW y \in T PROVE x <= y
  <2>1. x \in Nat /\ y \in Nat  OBVIOUS
  <2>2. <<y, x>> \in Before <=> y < x  BY <2>1 DEF Before
  <2> QED  BY <1>2, <2>1, <2>2
<1> QED  BY <1>3

(* A non-empty set of positions has a last one.                              *)
LEMMA LastPosition ==
    ASSUME NEW N \in Nat, NEW s \in SUBSET (1..N), s # {}
    PROVE  Max(s) \in s /\ \A y \in s : Max(s) >= y
<1> DEFINE T == {N - y : y \in s}
<1>1. T \in SUBSET Nat /\ T # {}
  <2>1. \A y \in s : N - y \in Nat
    <3>1. \A y \in 1..N : N - y \in Nat  OBVIOUS
    <3> QED  BY <3>1
  <2> QED  BY <2>1
<1>2. PICK d \in T : \A y \in T : d <= y
  <2> HIDE DEF T
  <2> QED  BY <1>1, Least
<1>3. PICK x \in s : d = N - x  OBVIOUS
<1>4. ASSUME NEW y \in s PROVE x >= y
  <2>1. N - y \in T  OBVIOUS
  <2> HIDE DEF T
  <2>2. x \in Nat /\ y \in Nat
    <3>1. x \in 1..N /\ y \in 1..N  OBVIOUS
    <3> QED  BY <3>1
  <2>3. N - x <= N - y  BY <1>2, <1>3, <2>1
  <2> QED  BY <2>2, <2>3
<1> QED  BY <1>4 DEF Max

(* The highest of some permissions.                                          *)
Best(P) == IF "admin" \in P THEN "admin" ELSE IF "write" \in P THEN "write" ELSE "read"

(* One more row.                                                             *)
LEMMA BestStep ==
    ASSUME NEW P \in SUBSET Permissions, NEW perm \in Permissions, P # {}
    PROVE  HigherPermission(Best(P), perm) = Best(P \cup {perm})
  BY DEF Best, HigherPermission, Permissions

(* The loop of UserCanAccessApplication computes the highest permission of   *)
(* the rows.                                                                 *)
LEMMA HighestIsBest ==
    ASSUME NEW N \in Nat \ {0}, NEW rows \in [1..N -> Permissions]
    PROVE  HighestPermission(rows) = Best({rows[i] : i \in 1..N})
<1> DEFINE F(e) == [s \in SUBSET (1..N) |->
                      IF s = {} THEN rows[1]
                      ELSE HigherPermission(e[s \ {Max(s)}], rows[Max(s)])]
           Seen(s) == {rows[1]} \cup {rows[i] : i \in s}
           a == [s \in SUBSET (1..N) |-> Best(Seen(s))]
           it == CHOOSE e : e = F(e)
<1>0. 1 \in 1..N /\ rows[1] \in Permissions  OBVIOUS
<1>1. ASSUME NEW s \in SUBSET (1..N)
      PROVE  Best(Seen(s)) = IF s = {} THEN rows[1]
                             ELSE HigherPermission(Best(Seen(s \ {Max(s)})), rows[Max(s)])
  <2>1. CASE s = {}
    <3>1. Seen(s) = {rows[1]}  BY <2>1
    <3> HIDE DEF Seen
    <3> QED  BY <1>0, <2>1, <3>1 DEF Best, Permissions
  <2>2. CASE s # {}
    <3>1. PICK x \in s : x = Max(s)  BY <2>2, LastPosition
    <3>2. Seen(s) = Seen(s \ {x}) \cup {rows[x]}  OBVIOUS
    <3>3. Seen(s \ {x}) \in SUBSET Permissions /\ Seen(s \ {x}) # {} /\ rows[x] \in Permissions
      BY <1>0
    <3> HIDE DEF Seen
    <3> QED  BY <2>2, <3>1, <3>2, <3>3, BestStep
  <2> QED  BY <2>1, <2>2
<1>2. a = F(a)
  <2>1. ASSUME NEW s \in SUBSET (1..N)
        PROVE  a[s] = IF s = {} THEN rows[1]
                      ELSE HigherPermission(a[s \ {Max(s)}], rows[Max(s)])
    <3>1. a[s \ {Max(s)}] = Best(Seen(s \ {Max(s)})) /\ a[s] = Best(Seen(s))  OBVIOUS
    <3> HIDE DEF a, Seen
    <3> QED  BY <1>1, <3>1
  <2> HIDE DEF Seen
  <2>2. a = [s \in SUBSET (1..N) |-> a[s]]  OBVIOUS
  <2> HIDE DEF a
  <2> QED  BY <2>1, <2>2
<1>3. \E e : e = F(e)  BY <1>2
<1>4. it = F(it)  BY <1>3
<1>5. ASSUME NEW s \in SUBSET (1..N)
      PROVE  it[s] = IF s = {} THEN rows[1]
                     ELSE HigherPermission(it[s \ {Max(s)}], rows[Max(s)])
  <2> HIDE DEF it
  <2> QED  BY <1>4
<1>6. HighestPermission(rows) = it[1..N]
  <2>1. DOMAIN rows = 1..N  OBVIOUS
  <2> QED  BY <2>1 DEF HighestPermission, FoldLeft, MapThenFoldSet
<1> HIDE DEF it, a, F, Seen
<1>7. it[1..N] = Best(Seen(1..N))
  <2> DEFINE T == {k \in 0..N : it[1..k] # Best(Seen(1..k))}
  <2> SUFFICES ASSUME T # {} PROVE FALSE
    <3>1. N \in 0..N  OBVIOUS
    <3> QED  BY <3>1
  <2>1. PICK k \in T : \A y \in T : k <= y
    <3>1. T \in SUBSET Nat  OBVIOUS
    <3> HIDE DEF T
    <3> QED  BY <3>1, Least
  <2>2. k \in 0..N /\ 1..k \in SUBSET (1..N)  OBVIOUS
  <2>3. CASE k = 0
    <3>1. 1..k = {}  BY <2>3
    <3> QED  BY <1>1, <1>5, <2>1, <2>2, <3>1
  <2>4. CASE k # 0
    <3>1. k - 1 \in 0..N /\ ~(k <= k - 1) /\ k \in 1..k  BY <2>2, <2>4
    <3>2. Max(1..k) = k
      <4>1. Max(1..k) \in 1..k /\ \A y \in 1..k : Max(1..k) >= y
        BY <2>2, <3>1, LastPosition
      <4>2. PICK x \in 1..k : x = Max(1..k)  BY <4>1
      <4>3. x >= k  BY <3>1, <4>1, <4>2
      <4> QED  BY <2>2, <4>2, <4>3
    <3>3. (1..k) \ {k} = 1..(k - 1)  BY <2>2, <3>1
    <3>4. it[1..(k - 1)] = Best(Seen(1..(k - 1)))  BY <2>1, <3>1
    <3>5. 1..k # {}  BY <3>1
    <3>6. it[1..k] = HigherPermission(it[1..(k - 1)], rows[k])
      BY <1>5, <2>2, <3>2, <3>3, <3>5
    <3>7. Best(Seen(1..k)) = HigherPermission(Best(Seen(1..(k - 1))), rows[k])
      BY <1>1, <2>2, <3>2, <3>3, <3>5
    <3> QED  BY <2>1, <3>4, <3>6, <3>7
  <2> QED  BY <2>3, <2>4
<1>8. Seen(1..N) = {rows[i] : i \in 1..N}  BY <1>0 DEF Seen
<1> QED  BY <1>6, <1>7, <1>8

(* What the property says of one application and one user.                   *)
LEMMA HighestOf ==
    ASSUME OTypeOK, IsFiniteSet(Teams), NEW u \in Users, NEW a \in Apps,
           NEW T, T = GetUserTeamApplicationPermissions(u, a), T # {},
           NEW order \in Bijection(1..Cardinality(T), T)
    PROVE  HighestPermission([i \in 1..Cardinality(T) |-> team_applications[order[i]][a]]) =
              Best({team_applications[t][a] : t \in T})
<1>1. T \in SUBSET Teams  BY DEF GetUserTeamApplicationPermissions
<1>2. PICK N \in Nat \ {0} : N = Cardinality(T)
  BY <1>1, FS_Subset, FS_CardinalityType, FS_EmptySet
<1>3. \A t \in T : team_applications[t][a] \in Permissions
  BY <1>1 DEF GetUserTeamApplicationPermissions, Linked, OTypeOK
<1>4. /\ order \in [1..N -> T] /\ \A t \in T : \E i \in 1..N : order[i] = t
  BY <1>2 DEF Bijection, Injection, Surjection
<1> DEFINE rows == [i \in 1..N |-> team_applications[order[i]][a]]
<1>5. rows \in [1..N -> Permissions]  BY <1>3, <1>4
<1>6. {rows[i] : i \in 1..N} = {team_applications[t][a] : t \in T}  BY <1>4
<1>7. PICK r \in [1..N -> Permissions] : r = rows  BY <1>5
<1>8. HighestPermission(r) = Best({r[i] : i \in 1..N})  BY HighestIsBest
<1> QED  BY <1>2, <1>6, <1>7, <1>8

(* With stored levels of the right type the loop reports the highest.        *)
LEMMA HighestHolds == ASSUME OTypeOK, IsFiniteSet(Teams) PROVE HighestIsMaximum
<1> DEFINE Of(u, a) == GetUserTeamApplicationPermissions(u, a)
           Have(u, a) == {team_applications[t][a] : t \in Of(u, a)}
           Rows(u, a, order) ==
               [i \in 1..Cardinality(Of(u, a)) |-> team_applications[order[i]][a]]
<1>1. ASSUME NEW u \in Users, NEW a \in Apps, Of(u, a) # {},
             NEW order \in Bijection(1..Cardinality(Of(u, a)), Of(u, a))
      PROVE  /\ HighestPermission(Rows(u, a, order)) = Best(Have(u, a))
             /\ UserCanModifyApplication(HighestPermission(Rows(u, a, order))) <=>
                   Have(u, a) # {"read"}
  <2>1. PICK T : T = Of(u, a)  OBVIOUS
  <2>2. HighestPermission(Rows(u, a, order)) = Best(Have(u, a))
    BY <1>1, <2>1, HighestOf
  <2>3. \A t \in T : team_applications[t][a] \in Permissions
    BY <2>1 DEF GetUserTeamApplicationPermissions, Linked, OTypeOK
  <2>4. PICK P : P = Have(u, a)  OBVIOUS
  <2>5. P \in SUBSET Permissions /\ P # {}  BY <1>1, <2>1, <2>3, <2>4
  <2>6. UserCanModifyApplication(Best(P)) <=> P # {"read"}
    BY <2>5 DEF UserCanModifyApplication, Best, Permissions
  <2> HIDE DEF Rows, Have
  <2> QED  BY <2>2, <2>4, <2>6
<1> QED  BY <1>1 DEF HighestIsMaximum, Best

(* For any number of handlers and any order in which the database returns    *)
(* the rows, UserCanAccessApplication reports the highest permission the     *)
(* teams of the user have.                                                   *)
THEOREM HighestReported ==
    ASSUME IsFiniteSet(Teams) PROVE OSpec => []HighestIsMaximum
<1>1. OTypeOK => HighestIsMaximum  BY HighestHolds
<1> QED  BY <1>1, OTypeCorrect, PTL

-----------------------------------------------------------------------------
(* One handler at a time                                                    *)
(*                                                                          *)
(* Between two of its own statements nothing else happens, so what a        *)
(* handler found is still so when it uses it.  With two handlers all of     *)
(* this is false: a Save resurrects what was deleted meanwhile, and a Bind  *)
(* links a team that is gone.                                               *)

Serial == \A h, k \in Handlers : h = k

(* What a handler in the middle of a call can rely on.                      *)
UpToDate(f) ==
    /\ f.op = "updateApp" => f.perm = "admin"
    /\ f.pc \in {"checkTeam", "saveTeam"} =>
         \A a \in Apps : f.linked[a] # None => AppExists(a)
    /\ f.pc \in {"unlinkApps", "eraseTeam"} => \A r \in team_users : r[1] # f.team
    /\ f.pc = "eraseTeam" => \A a \in Apps : ~Linked(f.team, a)
    /\ f.pc = "insert" => apps[f.app] = "unborn"
    /\ f.pc = "rename" => AppExists(f.app)
    /\ f.pc = "stripNext" => \A t \in Teams : Linked(t, f.app) => t \in f.list
    /\ f.op = "updateApp" /\ f.pc \in {"bindCheck", "bind"} =>
         \A t \in Teams : ~Linked(t, f.app)
    /\ f.pc = "bind" => TeamExists(f.team) /\ AppExists(f.app) /\ ~Linked(f.team, f.app)

SInv == OInv /\ NoGhosts /\ RefusedLeavesNothing /\ \A h \in Handlers : UpToDate(g[h])

USE DEF TeamExists, AppExists, Linked

(* The invariant from its parts: the only frame is the one of the step.     *)
LEMMA SerialParts ==
  ASSUME Serial, NEW h \in Handlers, OInv', NoGhosts', RefusedLeavesNothing',
         UpToDate(g[h])'
  PROVE  SInv'
  BY DEF Serial, SInv

(* A handler between two calls relies on nothing.                           *)
LEMMA IdleRelies ==
  ASSUME NEW h \in Handlers, g'[h] = Idle PROVE UpToDate(g[h])'
  BY IdleOK DEF UpToDate

(* Nor does one that has only begun.                                        *)
LEMMA BegunRelies ==
  ASSUME NEW h \in Handlers,
         g'[h].op # "updateApp" \/ g'[h].perm = "admin",
         g'[h].pc \in {"idle", "unlinkUsers", "append", "rollback", "eraseApp", "strip"}
  PROVE  UpToDate(g[h])'
  BY DEF UpToDate

(* Steps that change no table keep what is said of the tables.              *)
LEMMA TablesKept ==
  ASSUME SInv, UNCHANGED Tables,
         told' = told \/ \E a \in Apps \cup {None} : told' = [told EXCEPT ![a] = "stuck"]
  PROVE  NoGhosts' /\ RefusedLeavesNothing'
<1>1. NoGhosts'
  BY DEF SInv, NoGhosts, Tables
<1>2. \A a \in Apps : told'[a] = "refused" => told[a] = "refused"
  BY DEF SInv, OInv, OTypeOK
<1>3. RefusedLeavesNothing'
  BY <1>2 DEF SInv, RefusedLeavesNothing, Tables
<1> QED  BY <1>1, <1>3

(* A new team.                                                              *)
LEMMA CreateTeamSerial ==
  ASSUME Serial, SInv, NEW h \in Handlers, NEW t \in Teams, NEW n \in Names,
         CreateTeam(h, t, n)
  PROVE  SInv'
<1> USE DEF CreateTeam, Rest
<1>1. OInv'  BY CreateTeamTyped DEF SInv
<1>2. NoGhosts'  BY DEF SInv, OInv, OTypeOK, NoGhosts
<1>3. RefusedLeavesNothing'  BY DEF SInv, RefusedLeavesNothing
<1>4. UpToDate(g[h])'  BY DEF SInv, UpToDate
<1> QED  BY <1>1, <1>2, <1>3, <1>4, SerialParts

(* What is preloaded exists.                                                *)
LEMMA UpdateTeamSerial ==
  ASSUME Serial, SInv, NEW h \in Handlers, NEW t \in Teams, NEW n \in Names,
         UpdateTeam(h, t, n)
  PROVE  SInv'
<1>1. /\ OInv'
      /\ g'[h].op = "updateTeam" /\ g'[h].pc = "checkTeam"
      /\ \A a \in Apps : g'[h].linked[a] # None => AppExists(a)
  BY UpdateTeamTyped DEF SInv
<1>2. UNCHANGED Tables /\ UNCHANGED Rest
  BY DEF UpdateTeam
<1>3. NoGhosts' /\ RefusedLeavesNothing'
  BY <1>2, TablesKept DEF Rest
<1>4. UpToDate(g[h])'
  BY <1>1, <1>2 DEF UpToDate, Tables
<1> QED  BY <1>1, <1>3, <1>4, SerialParts

(* The second look changes nothing.                                         *)
LEMMA CheckTeamSerial ==
  ASSUME Serial, SInv, NEW h \in Handlers, CheckTeam(h)
  PROVE  SInv'
<1>1. OInv'
  BY CheckTeamTyped DEF SInv
<1>2. UNCHANGED Tables /\ UNCHANGED Rest
  BY DEF CheckTeam
<1>3. NoGhosts' /\ RefusedLeavesNothing'
  BY <1>2, TablesKept DEF Rest
<1>4. CASE End(h)
  BY <1>1, <1>3, <1>4, EndStep, IdleRelies, SerialParts DEF SInv
<1>5. CASE Goto(h, "saveTeam")
  <2>1. g[h].name \in Names /\ g[h].team \in Teams /\ g[h].pc = "checkTeam"
    BY DEF SInv, OInv, Shape, CheckTeam, NameAt, TeamAt
  <2>2. /\ g'[h].pc = "saveTeam" /\ g'[h].op = g[h].op /\ g'[h].perm = g[h].perm
        /\ g'[h].linked = g[h].linked
    BY <1>5, <2>1, GotoStep DEF SInv, Places, AppAt
  <2>3. UpToDate(g[h])'
    BY <1>2, <2>1, <2>2 DEF SInv, UpToDate, Tables
  <2> QED  BY <1>1, <1>3, <2>3, SerialParts
<1> QED  BY <1>4, <1>5 DEF CheckTeam

(* Save re-adds only associations of applications that exist.               *)
LEMMA SaveTeamSerial ==
  ASSUME Serial, SInv, NEW h \in Handlers, SaveTeam(h)
  PROVE  SInv'
<1>1. OInv' /\ g'[h] = Idle /\ UNCHANGED Rest
  BY SaveTeamTyped, EndStep DEF SInv, SaveTeam
<1>2. UpToDate(g[h])'
  BY <1>1, IdleRelies
<1>3. CASE UNCHANGED Tables
  BY <1>1, <1>2, <1>3, TablesKept, SerialParts DEF Rest
<1>4. CASE ~UNCHANGED Tables
  <2>1. /\ g[h].name \in Names /\ g[h].team \in Teams /\ g[h].pc = "saveTeam"
    BY DEF SInv, OInv, OTypeOK, Shape, SaveTeam, NameAt, TeamAt
  <2>2. PICK t, n, M, L : t = g[h].team /\ n = g[h].name /\ M = g[h].members /\ L = g[h].linked
    OBVIOUS
  <2>3. /\ teams' = [teams EXCEPT ![t] = n]
        /\ team_users' = team_users \cup ({t} \X M)
        /\ team_applications' = [team_applications EXCEPT ![t] =
             [a \in Apps |-> IF L[a] # None /\ team_applications[t][a] = "none"
                             THEN "read" ELSE team_applications[t][a]]]
        /\ apps' = [a \in Apps |->
             IF L[a] # None /\ ~AppExists(a) THEN L[a] ELSE apps[a]]
    BY <1>4, <2>2 DEF SaveTeam
  <2>4. t \in Teams /\ n \in Names /\ \A a \in Apps : L[a] # None => AppExists(a)
    BY <2>1, <2>2 DEF SInv, UpToDate
  <2>5. apps' = apps
    <3>1. \A a \in Apps : apps'[a] = apps[a]
      BY <2>3, <2>4
    <3>2. apps \in [Apps -> NameOrGone] /\ apps' \in [Apps -> NameOrGone]
      BY <1>1 DEF SInv, OInv, OTypeOK
    <3> QED  BY <3>1, <3>2
  <2>6. \A x \in Teams : TeamExists(x) \/ x = t => TeamExists(x)'
    BY <2>3, <2>4 DEF SInv, OInv, OTypeOK
  <2>7. \A x \in Teams, a \in Apps :
           Linked(x, a)' => Linked(x, a) \/ (x = t /\ AppExists(a))
    BY <2>3, <2>4 DEF SInv, OInv, OTypeOK
  <2>8. NoGhosts'
    <3>1. \A r \in team_users' : TeamExists(r[1])'
      BY <2>3, <2>4, <2>6 DEF SInv, NoGhosts
    <3>2. \A x \in Teams, a \in Apps : Linked(x, a)' => TeamExists(x)' /\ AppExists(a)'
      BY <2>5, <2>6, <2>7 DEF SInv, NoGhosts
    <3> QED  BY <3>1, <3>2 DEF NoGhosts
  <2>9. RefusedLeavesNothing'
    BY <1>1, <2>5, <2>7, OwnershipAssumption DEF SInv, RefusedLeavesNothing, Rest
  <2> QED  BY <1>1, <1>2, <2>8, <2>9, SerialParts
<1> QED  BY <1>3, <1>4

(* The deletion of a team begins.                                           *)
LEMMA DeleteTeamSerial ==
  ASSUME Serial, SInv, NEW h \in Handlers, NEW t \in Teams, DeleteTeam(h, t)
  PROVE  SInv'
<1>1. OInv' /\ g'[h].op = "deleteTeam" /\ g'[h].pc = "unlinkUsers"
  BY DeleteTeamTyped DEF SInv
<1>2. NoGhosts' /\ RefusedLeavesNothing'
  BY TablesKept DEF DeleteTeam, Rest
<1> QED  BY <1>1, <1>2, BegunRelies, SerialParts

(* No member is left.                                                       *)
LEMMA UnlinkUsersSerial ==
  ASSUME Serial, SInv, NEW h \in Handlers, UnlinkUsers(h)
  PROVE  SInv'
<1> USE DEF UnlinkUsers, Rest
<1>1. /\ OInv' /\ g'[h].pc = "unlinkApps" /\ g'[h].team = g[h].team
      /\ g'[h].op = g[h].op /\ g'[h].perm = g[h].perm
  BY UnlinkUsersTyped DEF SInv
<1>2. NoGhosts'  BY DEF SInv, NoGhosts
<1>3. RefusedLeavesNothing'  BY DEF SInv, RefusedLeavesNothing
<1>4. UpToDate(g[h])'  BY <1>1 DEF SInv, UpToDate
<1> QED  BY <1>1, <1>2, <1>3, <1>4, SerialParts

(* Nor an application.                                                      *)
LEMMA UnlinkAppsSerial ==
  ASSUME Serial, SInv, NEW h \in Handlers, UnlinkApps(h)
  PROVE  SInv'
<1> USE DEF UnlinkApps, Rest
<1>1. /\ OInv' /\ g'[h].pc = "eraseTeam" /\ g'[h].team = g[h].team
      /\ g[h].team \in Teams /\ g'[h].op = g[h].op /\ g'[h].perm = g[h].perm
  BY UnlinkAppsTyped DEF SInv
<1>2. \A t \in Teams, a \in Apps : Linked(t, a)' => Linked(t, a) /\ t # g[h].team
  BY <1>1 DEF SInv, OInv, OTypeOK
<1>3. NoGhosts'  BY <1>2 DEF SInv, NoGhosts
<1>4. RefusedLeavesNothing'  BY <1>2 DEF SInv, RefusedLeavesNothing
<1>5. UpToDate(g[h])'  BY <1>1, <1>2 DEF SInv, UpToDate
<1> QED  BY <1>1, <1>3, <1>4, <1>5, SerialParts

(* So nothing points to the team when its row goes.                         *)
LEMMA EraseTeamSerial ==
  ASSUME Serial, SInv, NEW h \in Handlers, EraseTeam(h)
  PROVE  SInv'
<1> USE DEF EraseTeam, Rest
<1>1. OInv' /\ g'[h] = Idle
  BY EraseTeamTyped DEF SInv
<1>2. \A t \in Teams : t # g[h].team /\ TeamExists(t) => TeamExists(t)'
  BY DEF SInv, OInv, OTypeOK
<1>3. NoGhosts'  BY <1>2 DEF SInv, OInv, OTypeOK, NoGhosts, UpToDate
<1>4. RefusedLeavesNothing'  BY DEF SInv, RefusedLeavesNothing
<1> QED  BY <1>1, <1>3, <1>4, IdleRelies, SerialParts

(* A user to be added.                                                      *)
LEMMA AddUserSerial ==
  ASSUME Serial, SInv, NEW h \in Handlers, NEW t \in Teams, NEW u \in Users,
         AddUserToTeam(h, t, u)
  PROVE  SInv'
<1>1. OInv' /\ g'[h].op = "addUser" /\ g'[h].pc = "append"
  BY AddUserTyped DEF SInv
<1>2. NoGhosts' /\ RefusedLeavesNothing'
  BY TablesKept DEF AddUserToTeam, Rest
<1> QED  BY <1>1, <1>2, BegunRelies, SerialParts

(* The team is looked up once more.                                         *)
LEMMA AppendUserSerial ==
  ASSUME Serial, SInv, NEW h \in Handlers, AppendUser(h)
  PROVE  SInv'
<1> USE DEF AppendUser, Rest
<1>1. OInv' /\ g'[h] = Idle
  BY AppendUserTyped DEF SInv
<1>2. NoGhosts'  BY DEF SInv, NoGhosts
<1>3. RefusedLeavesNothing'  BY DEF SInv, RefusedLeavesNothing
<1> QED  BY <1>1, <1>2, <1>3, IdleRelies, SerialParts

(* One row less.                                                            *)
LEMMA RemoveUserSerial ==
  ASSUME Serial, SInv, NEW h \in Handlers, NEW t \in Teams, NEW u \in Users,
         RemoveUserFromTeam(h, t, u)
  PROVE  SInv'
<1> USE DEF RemoveUserFromTeam, Rest
<1>1. OInv'  BY RemoveUserTyped DEF SInv
<1>2. NoGhosts'  BY DEF SInv, NoGhosts
<1>3. RefusedLeavesNothing'  BY DEF SInv, RefusedLeavesNothing
<1>4. UpToDate(g[h])'  BY DEF SInv, UpToDate
<1> QED  BY <1>1, <1>2, <1>3, <1>4, SerialParts

(* One association less.                                                    *)
LEMMA RemoveAppSerial ==
  ASSUME Serial, SInv, NEW h \in Handlers, NEW t \in Teams, NEW a \in Apps,
         RemoveApplicationFromTeam(h, t, a)
  PROVE  SInv'
<1> USE DEF RemoveApplicationFromTeam, Rest
<1>1. OInv'  BY RemoveAppTyped DEF SInv
<1>2. \A x \in Teams, b \in Apps : Linked(x, b)' => Linked(x, b)
  BY DEF SInv, OInv, OTypeOK
<1>3. NoGhosts'  BY <1>2 DEF SInv, NoGhosts
<1>4. RefusedLeavesNothing'  BY <1>2 DEF SInv, RefusedLeavesNothing
<1>5. UpToDate(g[h])'  BY DEF SInv, UpToDate
<1> QED  BY <1>1, <1>3, <1>4, <1>5, SerialParts

(* Another permission for the same associations.                            *)
LEMMA UpdatePermissionSerial ==
  ASSUME Serial, SInv, NEW h \in Handlers, NEW t \in Teams, NEW a \in Apps,
         NEW perm \in Permissions, UpdateApplicationPermission(h, t, a, perm)
  PROVE  SInv'
<1> USE DEF UpdateApplicationPermission, Rest
<1>1. OInv'  BY UpdatePermissionTyped DEF SInv
<1>2. \A x \in Teams, b \in Apps : Linked(x, b)' => Linked(x, b)
  BY DEF SInv, OInv, OTypeOK
<1>3. NoGhosts'  BY <1>2 DEF SInv, NoGhosts
<1>4. RefusedLeavesNothing'  BY <1>2 DEF SInv, RefusedLeavesNothing
<1>5. UpToDate(g[h])'  BY DEF SInv, UpToDate
<1> QED  BY <1>1, <1>3, <1>4, <1>5, SerialParts

(* An association to be checked.                                            *)
LEMMA AddAppSerial ==
  ASSUME Serial, SInv, NEW h \in Handlers, NEW t \in Teams, NEW a \in Apps,
         NEW perm \in Permissions, AddApplicationToTeam(h, t, a, perm)
  PROVE  SInv'
<1>1. OInv' /\ g'[h].op = "addApp" /\ g'[h].pc = "bindCheck"
  BY AddAppTyped DEF SInv
<1>2. NoGhosts' /\ RefusedLeavesNothing'
  BY TablesKept DEF AddApplicationToTeam, Rest
<1>3. UpToDate(g[h])'  BY <1>1 DEF UpToDate
<1> QED  BY <1>1, <1>2, <1>3, SerialParts

(* The identifier of a new application is unused.                           *)
LEMMA CreateAppSerial ==
  ASSUME Serial, SInv, NEW h \in Handlers, NEW a \in Apps, NEW n \in Names,
         NEW t \in Teams, CreateApplication(h, a, n, t) \/ executeApplicationCreate(h, a, n, t)
  PROVE  SInv'
<1>1. /\ OInv' /\ UNCHANGED Tables /\ UNCHANGED Rest
      /\ g'[h].op \in {"createApp", "executeCreate"} /\ g'[h].pc = "insert"
      /\ g'[h].app = a /\ apps[a] = "unborn"
  BY CreateAppTyped DEF SInv
<1>2. NoGhosts' /\ RefusedLeavesNothing'
  BY <1>1, TablesKept DEF Rest
<1>3. UpToDate(g[h])'  BY <1>1 DEF UpToDate, Tables
<1> QED  BY <1>1, <1>2, <1>3, SerialParts

(* Nobody was told that it was refused.                                     *)
LEMMA InsertSerial ==
  ASSUME Serial, SInv, NEW h \in Handlers, InsertApplication(h)
  PROVE  SInv'
<1> USE DEF InsertApplication, Rest
<1>1. /\ OInv' /\ g'[h].pc = "bindCheck" /\ g'[h].op = g[h].op
      /\ g'[h].perm = g[h].perm /\ g'[h].app = g[h].app
      /\ g[h].app \in Apps /\ g[h].name \in Names
  BY InsertTyped DEF SInv
<1>2. apps[g[h].app] = "unborn"
  BY DEF SInv, UpToDate
<1>3. \A a \in Apps : /\ AppExists(a) => AppExists(a)'
                      /\ a # g[h].app => apps'[a] = apps[a]
  BY <1>1 DEF SInv, OInv, OTypeOK
<1>4. NoGhosts'  BY <1>3 DEF SInv, NoGhosts
<1>5. RefusedLeavesNothing'  BY <1>2, <1>3 DEF SInv, RefusedLeavesNothing
<1>6. \A t \in Teams : ~Linked(t, g[h].app)
  BY <1>1, <1>2, OwnershipAssumption DEF SInv, NoGhosts
<1>7. UpToDate(g[h])'  BY <1>1, <1>6 DEF SInv, UpToDate
<1> QED  BY <1>1, <1>4, <1>5, <1>7, SerialParts

(* What the checks found holds when the row is inserted.                    *)
LEMMA CheckBindSerial ==
  ASSUME Serial, SInv, NEW h \in Handlers, CheckBind(h)
  PROVE  SInv'
<1>1. /\ OInv' /\ UNCHANGED Tables /\ UNCHANGED Rest
      /\ \/ g'[h] = Idle
         \/ g'[h].pc = "rollback" /\ g'[h].op = "createApp"
         \/ /\ g'[h].pc = "bind" /\ g'[h].op = g[h].op /\ g'[h].perm = g[h].perm
            /\ g'[h].team = g[h].team /\ g'[h].app = g[h].app
            /\ g[h].app \in Apps /\ g[h].team \in Teams
            /\ TeamExists(g[h].team) /\ AppExists(g[h].app)
            /\ ~Linked(g[h].team, g[h].app)
  BY CheckBindTyped DEF SInv
<1>2. NoGhosts' /\ RefusedLeavesNothing'
  BY <1>1, TablesKept DEF Rest
<1>3. CASE g'[h] = Idle
  BY <1>1, <1>2, <1>3, IdleRelies, SerialParts
<1>4. CASE g'[h].pc = "rollback" /\ g'[h].op = "createApp"
  BY <1>1, <1>2, <1>4, BegunRelies, SerialParts
<1>5. CASE /\ g'[h].pc = "bind" /\ g'[h].op = g[h].op /\ g'[h].perm = g[h].perm
           /\ g'[h].team = g[h].team /\ g'[h].app = g[h].app
           /\ g[h].app \in Apps /\ g[h].team \in Teams
           /\ TeamExists(g[h].team) /\ AppExists(g[h].app)
           /\ ~Linked(g[h].team, g[h].app)
  <2>1. UNCHANGED <<teams, apps, team_users, team_applications>> /\ g[h].pc = "bindCheck"
    BY <1>1 DEF Tables, CheckBind
  <2>2. UpToDate(g[h])'
    BY <1>5, <2>1 DEF SInv, UpToDate
  <2> QED  BY <1>1, <1>2, <2>2, SerialParts
<1> QED  BY <1>1, <1>3, <1>4, <1>5

(* The association links a team and an application that exist.              *)
LEMMA BindSerial ==
  ASSUME Serial, SInv, NEW h \in Handlers, Bind(h)
  PROVE  /\ SInv'
         /\ g[h].app \in Apps /\ g[h].team \in Teams
         /\ team_applications' =
              [team_applications EXCEPT ![g[h].team][g[h].app] = g[h].perm]
<1>1. /\ OInv'
      /\ g[h].app \in Apps /\ g[h].team \in Teams /\ g[h].perm \in Permissions
      /\ \/ Linked(g[h].team, g[h].app)
         \/ /\ g'[h] = Idle
            /\ team_applications' =
                 [team_applications EXCEPT ![g[h].team][g[h].app] = g[h].perm]
            /\ told' = told \/ told' = [told EXCEPT ![g[h].app] = "created"]
  BY BindTyped DEF SInv
<1>2. TeamExists(g[h].team) /\ AppExists(g[h].app) /\ ~Linked(g[h].team, g[h].app)
  BY DEF SInv, UpToDate, Bind
<1>3. UNCHANGED <<teams, apps, team_users>>
  BY DEF Bind
<1>4. \A t \in Teams, a \in Apps :
         Linked(t, a)' => Linked(t, a) \/ (t = g[h].team /\ a = g[h].app)
  BY <1>1, <1>2 DEF SInv, OInv, OTypeOK
<1>5. NoGhosts'
  BY <1>2, <1>3, <1>4 DEF SInv, NoGhosts
<1>6. \A a \in Apps : told'[a] = "refused" => told[a] = "refused"
  BY <1>1, <1>2 DEF SInv, OInv, OTypeOK
<1>7. RefusedLeavesNothing'
  BY <1>2, <1>3, <1>4, <1>6, OwnershipAssumption DEF SInv, RefusedLeavesNothing
<1> QED  BY <1>1, <1>2, <1>5, <1>7, IdleRelies, SerialParts

(* The transaction leaves nothing of the application, and no ghost.         *)
LEMMA EraseSerial ==
  ASSUME SInv, NEW a \in Apps, EraseApplication(a), UNCHANGED <<teams, team_users>>
  PROVE  /\ NoGhosts'
         /\ apps'[a] = "deleted" /\ \A t \in Teams : ~Linked(t, a)'
         /\ \A b \in Apps : apps[b] = "deleted" => apps'[b] = "deleted"
         /\ \A t \in Teams, b \in Apps : Linked(t, b)' => Linked(t, b)
<1>1. \A t \in Teams, b \in Apps : Linked(t, b)' => Linked(t, b) /\ b # a
  BY DEF SInv, OInv, OTypeOK, EraseApplication
<1>2. /\ apps'[a] = "deleted"
      /\ \A b \in Apps : b # a => apps'[b] = apps[b]
  BY DEF SInv, OInv, OTypeOK, EraseApplication
<1>3. NoGhosts'
  BY <1>1, <1>2 DEF SInv, NoGhosts
<1> QED  BY <1>1, <1>2, <1>3

(* "refused" is told when the application is gone.                          *)
LEMMA RollbackSerial ==
  ASSUME Serial, SInv, NEW h \in Handlers, Rollback(h)
  PROVE  SInv'
<1>1. OInv' /\ g'[h] = Idle /\ g[h].app \in Apps
  BY RollbackTyped DEF SInv
<1>2. PICK a \in Apps : a = g[h].app
  BY <1>1
<1>3. CASE AppExists(g[h].app)
  <2>1. /\ EraseApplication(a) /\ UNCHANGED <<teams, team_users>>
        /\ told' = [told EXCEPT ![a] = "refused"]
    BY <1>2, <1>3 DEF Rollback
  <2>2. /\ NoGhosts'
        /\ apps'[a] = "deleted" /\ \A t \in Teams : ~Linked(t, a)'
        /\ \A b \in Apps : apps[b] = "deleted" => apps'[b] = "deleted"
        /\ \A t \in Teams, b \in Apps : Linked(t, b)' => Linked(t, b)
    BY <2>1, EraseSerial
  <2>3. \A b \in Apps : b # a => told'[b] = told[b]
    BY <2>1 DEF SInv, OInv, OTypeOK
  <2>4. RefusedLeavesNothing'
    BY <2>2, <2>3 DEF SInv, RefusedLeavesNothing
  <2> QED  BY <1>1, <2>2, <2>4, IdleRelies, SerialParts
<1>4. CASE ~AppExists(g[h].app)
  <2>1. UNCHANGED Tables /\ told' = [told EXCEPT ![g[h].app] = "stuck"]
    BY <1>4 DEF Rollback, Tables
  <2>2. NoGhosts' /\ RefusedLeavesNothing'
    BY <1>1, <2>1, TablesKept
  <2> QED  BY <1>1, <2>2, IdleRelies, SerialParts
<1> QED  BY <1>3, <1>4

(* The deletion of an application begins.                                   *)
LEMMA DeleteAppSerial ==
  ASSUME Serial, SInv, NEW h \in Handlers, NEW a \in Apps, DeleteApplication(h, a)
  PROVE  SInv'
<1>1. OInv' /\ g'[h].op = "deleteApp" /\ g'[h].pc = "eraseApp"
  BY DeleteAppTyped DEF SInv
<1>2. NoGhosts' /\ RefusedLeavesNothing'
  BY TablesKept DEF DeleteApplication, Rest
<1> QED  BY <1>1, <1>2, BegunRelies, SerialParts

(* Its transaction.                                                         *)
LEMMA EraseAppSerial ==
  ASSUME Serial, SInv, NEW h \in Handlers, EraseApp(h)
  PROVE  SInv'
<1>1. OInv' /\ g'[h] = Idle /\ g[h].app \in Apps
  BY EraseAppTyped DEF SInv
<1>2. EraseApplication(g[h].app) /\ UNCHANGED <<teams, team_users, told>>
  BY DEF EraseApp, Rest
<1>3. /\ NoGhosts'
      /\ \A b \in Apps : apps[b] = "deleted" => apps'[b] = "deleted"
      /\ \A t \in Teams, b \in Apps : Linked(t, b)' => Linked(t, b)
  <2>1. PICK a \in Apps : a = g[h].app
    BY <1>1
  <2> QED  BY <1>2, <2>1, EraseSerial
<1>4. RefusedLeavesNothing'
  BY <1>2, <1>3 DEF SInv, RefusedLeavesNothing
<1> QED  BY <1>1, <1>3, <1>4, IdleRelies, SerialParts

(* A renaming begins.                                                       *)
LEMMA UpdateAppSerial ==
  ASSUME Serial, SInv, NEW h \in Handlers, NEW a \in Apps, NEW n \in Names,
         NEW t \in Teams \cup {None}, UpdateApplication(h, a, n, t)
  PROVE  SInv'
<1>1. /\ OInv' /\ g'[h].op = "updateApp" /\ g'[h].pc = "rename"
      /\ g'[h].app = a /\ g'[h].perm = "admin"
  BY UpdateAppTyped DEF SInv
<1>2. NoGhosts' /\ RefusedLeavesNothing'
  BY TablesKept DEF UpdateApplication, Rest
<1>3. UpToDate(g[h])'  BY <1>1 DEF UpToDate, UpdateApplication, Tables
<1> QED  BY <1>1, <1>2, <1>3, SerialParts

(* The application renamed exists.                                          *)
LEMMA RenameSerial ==
  ASSUME Serial, SInv, NEW h \in Handlers, RenameApplication(h)
  PROVE  SInv'
<1>1. /\ OInv' /\ g[h].app \in Apps /\ g[h].name \in Names
      /\ \/ g'[h] = Idle
         \/ g'[h].pc = "strip" /\ g'[h].op = g[h].op /\ g'[h].perm = g[h].perm
  BY RenameTyped DEF SInv
<1>2. /\ apps' = [apps EXCEPT ![g[h].app] = g[h].name] /\ AppExists(g[h].app)
      /\ UNCHANGED <<teams, team_users, team_applications, told>>
  BY DEF RenameApplication, Rest, SInv, UpToDate
<1>3. \A a \in Apps : /\ AppExists(a) => AppExists(a)'
                      /\ a # g[h].app => apps'[a] = apps[a]
  BY <1>1, <1>2 DEF SInv, OInv, OTypeOK
<1>4. NoGhosts'  BY <1>2, <1>3 DEF SInv, NoGhosts
<1>5. RefusedLeavesNothing'
  BY <1>2, <1>3, OwnershipAssumption DEF SInv, RefusedLeavesNothing
<1>6. UpToDate(g[h])'
  BY <1>1, IdleRelies, BegunRelies DEF SInv, UpToDate
<1> QED  BY <1>1, <1>4, <1>5, <1>6, SerialParts

(* Without ghosts the teams that exist are all the teams it is in.          *)
LEMMA StripSerial ==
  ASSUME Serial, SInv, NEW h \in Handlers, RemoveApplicationFromAllTeams(h)
  PROVE  SInv'
<1>1. /\ OInv' /\ g[h].app \in Apps
      /\ \/ g'[h] = Idle
         \/ /\ g'[h].pc = "stripNext" /\ g'[h].op = g[h].op /\ g'[h].perm = g[h].perm
            /\ g'[h].app = g[h].app /\ g'[h].list = GetTeamsByApplicationID(g[h].app)
  BY StripTyped DEF SInv
<1>2. UNCHANGED Tables /\ UNCHANGED Rest
  BY DEF RemoveApplicationFromAllTeams
<1>3. NoGhosts' /\ RefusedLeavesNothing'
  BY <1>2, TablesKept DEF Rest
<1>4. \A t \in Teams : Linked(t, g[h].app) => t \in GetTeamsByApplicationID(g[h].app)
  BY <1>1 DEF SInv, NoGhosts, GetTeamsByApplicationID
<1>5. CASE g'[h] = Idle
  BY <1>1, <1>3, <1>5, IdleRelies, SerialParts
<1>6. CASE /\ g'[h].pc = "stripNext" /\ g'[h].op = g[h].op /\ g'[h].perm = g[h].perm
           /\ g'[h].app = g[h].app /\ g'[h].list = GetTeamsByApplicationID(g[h].app)
  <2>1. team_applications' = team_applications
    BY <1>2 DEF Tables
  <2>2. UpToDate(g[h])'
    BY <1>4, <1>6, <2>1 DEF SInv, UpToDate
  <2> QED  BY <1>1, <1>3, <2>2, SerialParts
<1> QED  BY <1>1, <1>5, <1>6

(* At the end of the list the application is in no team.                    *)
LEMMA StripNextSerial ==
  ASSUME Serial, SInv, NEW h \in Handlers, StripNext(h)
  PROVE  SInv'
<1>1. /\ OInv' /\ g[h].app \in Apps
      /\ g'[h].op = g[h].op /\ g'[h].perm = g[h].perm /\ g'[h].app = g[h].app
      /\ \/ /\ g[h].list = {} /\ g'[h].pc = "bindCheck" /\ UNCHANGED team_applications
         \/ \E t \in g[h].list :
              /\ t \in Teams /\ g'[h].pc = "stripNext" /\ g'[h].list = g[h].list \ {t}
              /\ team_applications' =
                   [team_applications EXCEPT ![t][g[h].app] = "none"]
  BY StripNextTyped DEF SInv
<1>2. UNCHANGED <<teams, apps, team_users, told>> /\ g[h].pc = "stripNext"
  BY DEF StripNext, Rest
<1>3. \A x \in Teams, a \in Apps : Linked(x, a)' => Linked(x, a)
  BY <1>1 DEF SInv, OInv, OTypeOK
<1>4. NoGhosts'  BY <1>2, <1>3 DEF SInv, NoGhosts
<1>5. RefusedLeavesNothing'  BY <1>2, <1>3 DEF SInv, RefusedLeavesNothing
<1>6. CASE g[h].list = {} /\ g'[h].pc = "bindCheck" /\ UNCHANGED team_applications
  <2>1. \A t \in Teams : ~Linked(t, g[h].app)
    BY <1>2, <1>6 DEF SInv, UpToDate
  <2>2. UpToDate(g[h])'
    BY <1>1, <1>6, <2>1 DEF SInv, UpToDate
  <2> QED  BY <1>1, <1>4, <1>5, <2>2, SerialParts
<1>7. ASSUME NEW t \in g[h].list, t \in Teams, g'[h].pc = "stripNext",
             g'[h].list = g[h].list \ {t},
             team_applications' = [team_applications EXCEPT ![t][g[h].app] = "none"]
      PROVE  SInv'
  <2>1. \A x \in Teams : Linked(x, g[h].app)' => x \in g[h].list \ {t}
    BY <1>1, <1>2, <1>7 DEF SInv, UpToDate, OInv, OTypeOK
  <2>2. UpToDate(g[h])'
    BY <1>1, <1>7, <2>1 DEF SInv, UpToDate
  <2> QED  BY <1>1, <1>4, <1>5, <2>2, SerialParts
<1> QED  BY <1>1, <1>6, <1>7

(* A failure ends the call, or begins the rollback of a creation.           *)
LEMMA FailSerial ==
  ASSUME Serial, SInv, NEW h \in Handlers, Fail(h)
  PROVE  SInv'
<1>1. /\ OInv' /\ UNCHANGED Tables
      /\ g'[h] = Idle \/ (g'[h].pc = "rollback" /\ g'[h].op = "createApp")
      /\ told' = told \/ told' = [told EXCEPT ![g[h].app] = "stuck"]
  BY FailTyped DEF SInv
<1>2. g[h].app \in Apps \cup {None}
  BY DEF SInv, OInv, OTypeOK, Frames
<1>3. NoGhosts' /\ RefusedLeavesNothing'
  BY <1>1, <1>2, TablesKept
<1> QED  BY <1>1, <1>3, IdleRelies, BegunRelies, SerialParts

-----------------------------------------------------------------------------
(* The serial invariant is inductive.                                       *)
LEMMA SNextInv == ASSUME Serial PROVE SInv /\ [ONext]_ovars => SInv'
<1> SUFFICES ASSUME SInv, [ONext]_ovars PROVE SInv'
  OBVIOUS
<1>1. ASSUME NEW h \in Handlers, TeamStep(h) PROVE SInv'
  BY <1>1, CreateTeamSerial, UpdateTeamSerial, CheckTeamSerial, SaveTeamSerial,
     DeleteTeamSerial, UnlinkUsersSerial, UnlinkAppsSerial, EraseTeamSerial,
     AddUserSerial, AppendUserSerial, RemoveUserSerial, RemoveAppSerial,
     UpdatePermissionSerial, AddAppSerial DEF TeamStep
<1>2. ASSUME NEW h \in Handlers, AppStep(h) PROVE SInv'
  BY <1>2, CreateAppSerial, InsertSerial, CheckBindSerial, BindSerial, RollbackSerial,
     DeleteAppSerial, EraseAppSerial, UpdateAppSerial, RenameSerial, StripSerial,
     StripNextSerial DEF AppStep
<1>3. CASE UNCHANGED ovars
  BY <1>3 DEF SInv, OInv, OTypeOK, NoGhosts, RefusedLeavesNothing, UpToDate, ovars
<1> QED  BY <1>1, <1>2, <1>3, FailSerial DEF ONext

(* Nothing exists at first.                                                 *)
LEMMA SInitInv == ASSUME OInit PROVE SInv
<1>1. NoGhosts /\ RefusedLeavesNothing
  BY DEF OInit, NoGhosts, RefusedLeavesNothing
<1>2. \A h \in Handlers : UpToDate(g[h])
  BY IdleOK DEF OInit, UpToDate
<1> QED  BY <1>1, <1>2, OInitInv DEF SInv

(* One handler: the invariant holds in every reachable state.               *)
THEOREM SInvariance == ASSUME Serial PROVE OSpec => []SInv
  BY SInitInv, SNextInv, PTL DEF OSpec

(* One handler: no row of a join table outlives its team or its             *)
(* application, wherever a call is cut short by a failing statement.        *)
THEOREM SerialNoGhosts == ASSUME Serial PROVE OSpec => []NoGhosts
<1>1. SInv => NoGhosts  BY DEF SInv
<1> QED  BY <1>1, SInvariance, PTL

(* Without ghosts the three queries about ownership agree, in any state.    *)
LEMMA NoGhostsViews == NoGhosts => ViewsAgree
<1> SUFFICES ASSUME NoGhosts PROVE ViewsAgree
  OBVIOUS
<1>1. ASSUME NEW u \in Users, NEW a \in Apps
      PROVE  a \in GetAllApplications(u) <=> UserCanAccessApplication(u, a)
  BY DEF NoGhosts, GetAllApplications, UserCanAccessApplication, GetTeamsByUserID,
     GetApplicationsByTeamID, GetUserTeamApplicationPermissions
<1>2. ASSUME NEW t \in Teams, TeamExists(t)
      PROVE  ApplicationCount(t) = Cardinality(GetApplicationsByTeamID(t))
  <2>1. {a \in Apps : Linked(t, a)} = GetApplicationsByTeamID(t)
    BY DEF NoGhosts, GetApplicationsByTeamID
  <2> QED  BY <2>1 DEF ApplicationCount
<1> QED  BY <1>1, <1>2 DEF ViewsAgree

(* One handler: the list of a user's applications, the access check and the *)
(* counts of GET /teams agree.                                              *)
THEOREM SerialViewsAgree == ASSUME Serial PROVE OSpec => []ViewsAgree
  BY NoGhostsViews, SerialNoGhosts, PTL

(* One handler: after the answer that a creation was refused nothing of the *)
(* application is left.                                                     *)
THEOREM SerialRefused == ASSUME Serial PROVE OSpec => []RefusedLeavesNothing
<1>1. SInv => RefusedLeavesNothing  BY DEF SInv
<1> QED  BY <1>1, SInvariance, PTL

(* One handler: a move that reports success leaves the new team as the only *)
(* one the application is in, with the permission admin.                    *)
THEOREM SerialMove == ASSUME Serial PROVE OSpec => MoveReplaces
<1> DEFINE Moved(h) ==
             g[h].op = "updateApp" /\ g[h].pc = "bind" /\ g'[h].pc = "idle"
               /\ failures' = failures =>
             \A t \in Teams : team_applications'[t][g[h].app] =
                                IF t = g[h].team THEN "admin" ELSE "none"
<1>1. ASSUME SInv, ONext, NEW h \in Handlers PROVE Moved(h)
  <2> SUFFICES ASSUME g[h].op = "updateApp", g[h].pc = "bind", g'[h].pc = "idle",
                      failures' = failures
               PROVE  \A t \in Teams : team_applications'[t][g[h].app] =
                                         IF t = g[h].team THEN "admin" ELSE "none"
    OBVIOUS
  <2>1. PICK k \in Handlers : TeamStep(k) \/ AppStep(k) \/ Fail(k)
    BY <1>1 DEF ONext
  <2>2. k = h
    BY DEF Serial
  <2>3. ~Fail(h)
    BY <1>1 DEF Fail, SInv, OInv, OTypeOK
  <2>4. Bind(h)
    BY <2>1, <2>2, <2>3 DEF TeamStep, AppStep, CheckTeam, SaveTeam, UnlinkUsers,
       UnlinkApps, EraseTeam, AppendUser, DeleteTeam, CreateTeam, UpdateTeam,
       AddUserToTeam, RemoveUserFromTeam, RemoveApplicationFromTeam,
       AddApplicationToTeam, UpdateApplicationPermission, InsertApplication, CheckBind,
       Rollback, EraseApp, RenameApplication, RemoveApplicationFromAllTeams, StripNext,
       DeleteApplication, CreateApplication, executeApplicationCreate, UpdateApplication
  <2>5. /\ g[h].app \in Apps /\ g[h].team \in Teams
        /\ team_applications' =
             [team_applications EXCEPT ![g[h].team][g[h].app] = g[h].perm]
    BY <1>1, <2>4, BindSerial
  <2>6. g[h].perm = "admin" /\ \A t \in Teams : ~Linked(t, g[h].app)
    BY <1>1 DEF SInv, UpToDate
  <2> QED  BY <1>1, <2>5, <2>6 DEF SInv, OInv, OTypeOK
<1>2. SInv /\ [ONext]_ovars => [\A h \in Handlers : Moved(h)]_ovars
  BY <1>1
<1> QED
  BY <1>2, SInvariance, PTL DEF MoveReplaces, OSpec
=============================================================================
