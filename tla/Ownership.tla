------------------------------- MODULE Ownership -------------------------------
(***************************************************************************)
(* Teams, applications and the two tables that join them:                  *)
(* usecase/team_usecase.go, usecase/application_usecase.go, their          *)
(* repositories and the handlers of handler/team_handler.go and            *)
(* handler/application_handler.go.                                         *)
(*                                                                         *)
(* The server leaves SQLite's foreign keys off, so a row of team_users     *)
(* or team_applications may outlive what it points to.  Apart from the     *)
(* deletion of an application nothing here runs in a transaction: every    *)
(* statement is a step of its own, and g[h] holds what handler h knows     *)
(* between two statements.                                                 *)
(***************************************************************************)
EXTENDS Naturals, FiniteSets, Functions, SequencesExt

CONSTANTS Teams, Apps,   \* identifiers (ULIDs), never reused
          Users, Names,
          Handlers,
          MaxFailures,   \* bound on database calls that fail
          None

ASSUME OwnershipAssumption ==
    /\ None \notin Teams \cup Apps \cup Names
    /\ {"unborn", "deleted"} \cap Names = {}
    /\ MaxFailures \in Nat

VARIABLES teams,             \* table teams: the name, or why there is no row
          apps,              \* table applications, likewise
          team_users,        \* table team_users
          team_applications, \* table team_applications: the permission
          g,                 \* what each handler holds between two statements
          failures,          \* database calls that have failed so far
          told               \* history: the answer to the creation of an application

Tables == <<teams, apps, team_users, team_applications>>
ovars == <<teams, apps, team_users, team_applications, g, failures, told>>

Permissions == {"read", "write", "admin"}
NameOrGone == Names \cup {"unborn", "deleted"}

(* team, app, name, perm: the request; list: teams still to be stripped of  *)
(* the application; members, linked: what a loaded Team struct was          *)
(* preloaded with.                                                          *)
Frames == [op : {"none", "createApp", "executeCreate", "updateApp", "deleteApp",
                 "updateTeam", "deleteTeam", "addUser", "addApp"},
           pc : {"idle", "insert", "bindCheck", "bind", "rollback", "rename",
                 "strip", "stripNext", "eraseApp", "checkTeam", "saveTeam",
                 "unlinkUsers", "unlinkApps", "eraseTeam", "append"},
           team : Teams \cup {None}, app : Apps \cup {None},
           name : Names \cup {None}, perm : Permissions,
           list : SUBSET Teams, members : SUBSET Users,
           linked : [Apps -> Names \cup {None}]]
Idle == [op |-> "none", pc |-> "idle", team |-> None, app |-> None,
         name |-> None, perm |-> "admin", list |-> {}, members |-> {},
         linked |-> [a \in Apps |-> None]]

OTypeOK ==
    /\ teams \in [Teams -> NameOrGone] /\ apps \in [Apps -> NameOrGone]
    /\ team_users \subseteq Teams \X Users
    /\ team_applications \in [Teams -> [Apps -> Permissions \cup {"none"}]]
    /\ g \in [Handlers -> Frames]
    /\ failures \in 0..MaxFailures
    /\ told \in [Apps -> {"nothing", "created", "refused", "stuck"}]

-----------------------------------------------------------------------------
(* The queries.  Preload joins with the rows that exist; the raw queries on *)
(* permissions and counts do not look at teams.                             *)

TeamExists(t) == t \in Teams /\ teams[t] \in Names
AppExists(a) == a \in Apps /\ apps[a] \in Names
Linked(t, a) == team_applications[t][a] # "none"
GetByName(n) == {t \in Teams : teams[t] = n}

GetTeamsByUserID(u) == {t \in Teams : TeamExists(t) /\ <<t, u>> \in team_users}
GetUsersByTeamID(t) == {u \in Users : <<t, u>> \in team_users}
GetApplicationsByTeamID(t) == {a \in Apps : AppExists(a) /\ Linked(t, a)}
GetTeamsByApplicationID(a) == {t \in Teams : TeamExists(t) /\ Linked(t, a)}

(* Mistake: only the applications a team administers are listed.            *)
GetAllAdministered(u) ==
    {a \in Apps : AppExists(a)
        /\ \E t \in GetTeamsByUserID(u) : team_applications[t][a] = "admin"}

(* GET /applications for an admin or a user: over teams to their apps.      *)
GetAllApplications(u) ==
    LET ids == UNION {GetApplicationsByTeamID(t) : t \in GetTeamsByUserID(u)}
    IN  {a \in Apps : AppExists(a) /\ a \in ids}

GetUserTeamApplicationPermissions(u, a) ==
    {t \in Teams : Linked(t, a) /\ <<t, u>> \in team_users}

(* Mistake: the comparison looks only at the permission at hand.            *)
LaterPermission(highest, perm) ==
    IF perm = "admin" THEN "admin" ELSE IF perm = "write" THEN "write" ELSE highest

(* UserCanAccessApplication: the loop over the rows, in the order the       *)
(* database returns them.                                                   *)
HigherPermission(highest, perm) ==
    IF perm = "admin" THEN "admin"
    ELSE IF perm = "write" /\ highest = "read" THEN "write" ELSE highest
HighestPermission(rows) == FoldLeft(HigherPermission, rows[1], rows)

UserCanAccessApplication(u, a) ==
    AppExists(a) /\ GetUserTeamApplicationPermissions(u, a) # {}
UserCanModifyApplication(highest) == highest \in {"write", "admin"}

(* GET /teams: the count beside the name, over the join table alone.        *)
ApplicationCount(t) == Cardinality({a \in Apps : Linked(t, a)})

-----------------------------------------------------------------------------
(* Frames.                                                                  *)

At(h, pc) == g[h].pc = pc
End(h) == g' = [g EXCEPT ![h] = Idle]
Goto(h, pc) == g' = [g EXCEPT ![h].pc = pc]
Call(h, op, pc, t, a, n) ==
    g' = [g EXCEPT ![h] = [Idle EXCEPT !.op = op, !.pc = pc, !.team = t,
                                       !.app = a, !.name = n]]
Rest == <<failures, told>>

OInit ==
    /\ teams = [t \in Teams |-> "unborn"] /\ apps = [a \in Apps |-> "unborn"]
    /\ team_users = {}
    /\ team_applications = [t \in Teams |-> [a \in Apps |-> "none"]]
    /\ g = [h \in Handlers |-> Idle] /\ failures = 0
    /\ told = [a \in Apps |-> "nothing"]

-----------------------------------------------------------------------------
(* Teams.                                                                   *)

(* The name is looked up first and has a unique index besides.              *)
CreateTeam(h, t, n) ==
    /\ At(h, "idle") /\ teams[t] = "unborn" /\ GetByName(n) = {}
    /\ teams' = [teams EXCEPT ![t] = n]
    /\ UNCHANGED <<apps, team_users, team_applications, g, Rest>>

(* UpdateTeam: load the team with its members and applications, look it and *)
(* the new name up, then Save the struct: gorm also inserts the members'    *)
(* and applications' rows it was preloaded with wherever they are gone, and *)
(* a re-added association gets the column's default permission.             *)
UpdateTeam(h, t, n) ==
    /\ At(h, "idle") /\ TeamExists(t)
    /\ g' = [g EXCEPT ![h] =
         [Idle EXCEPT !.op = "updateTeam", !.pc = "checkTeam", !.team = t,
                      !.name = n, !.members = GetUsersByTeamID(t),
                      !.linked = [a \in Apps |->
                         IF a \in GetApplicationsByTeamID(t) THEN apps[a] ELSE None]]]
    /\ UNCHANGED <<Tables, Rest>>

CheckTeam(h) ==
    LET ok == /\ TeamExists(g[h].team)
              /\ GetByName(g[h].name) \subseteq {g[h].team}
    IN  /\ At(h, "checkTeam")
        /\ IF ok THEN Goto(h, "saveTeam") ELSE End(h)
        /\ UNCHANGED <<Tables, Rest>>

SaveTeam(h) ==
    LET t == g[h].team
        loaded(a) == g[h].linked[a] # None
    IN  /\ At(h, "saveTeam") /\ End(h)
        /\ IF GetByName(g[h].name) \subseteq {t}
           THEN /\ teams' = [teams EXCEPT ![t] = g[h].name]
                /\ team_users' = team_users \cup ({t} \X g[h].members)
                /\ team_applications' = [team_applications EXCEPT ![t] =
                     [a \in Apps |-> IF loaded(a) /\ ~Linked(t, a) THEN "read" ELSE @[a]]]
                /\ apps' = [a \in Apps |->
                     IF loaded(a) /\ ~AppExists(a) THEN g[h].linked[a] ELSE apps[a]]
           ELSE UNCHANGED Tables
        /\ UNCHANGED Rest

(* teamRepository.Delete: three statements, the team last.                  *)
DeleteTeam(h, t) ==
    /\ At(h, "idle") /\ TeamExists(t)
    /\ Call(h, "deleteTeam", "unlinkUsers", t, None, None)
    /\ UNCHANGED <<Tables, Rest>>

UnlinkUsers(h) ==
    /\ At(h, "unlinkUsers") /\ Goto(h, "unlinkApps")
    /\ team_users' = {r \in team_users : r[1] # g[h].team}
    /\ UNCHANGED <<teams, apps, team_applications, Rest>>

(* Mistake: the associations with applications are left.                    *)
UnlinkNothing(h) ==
    /\ At(h, "unlinkApps") /\ Goto(h, "eraseTeam")
    /\ UNCHANGED <<Tables, Rest>>

UnlinkApps(h) ==
    /\ At(h, "unlinkApps") /\ Goto(h, "eraseTeam")
    /\ team_applications' = [team_applications EXCEPT ![g[h].team] =
                               [a \in Apps |-> "none"]]
    /\ UNCHANGED <<teams, apps, team_users, Rest>>

EraseTeam(h) ==
    /\ At(h, "eraseTeam") /\ End(h)
    /\ teams' = [teams EXCEPT ![g[h].team] = "deleted"]
    /\ UNCHANGED <<apps, team_users, team_applications, Rest>>

(* Users exist throughout: their deletion is in Accounts.                   *)
AddUserToTeam(h, t, u) ==
    /\ At(h, "idle") /\ TeamExists(t) /\ t \notin GetTeamsByUserID(u)
    /\ g' = [g EXCEPT ![h] = [Idle EXCEPT !.op = "addUser", !.pc = "append",
                                          !.team = t, !.members = {u}]]
    /\ UNCHANGED <<Tables, Rest>>

(* The repository reads the team once more before it appends.               *)
AppendUser(h) ==
    /\ At(h, "append") /\ End(h)
    /\ team_users' = IF TeamExists(g[h].team)
                     THEN team_users \cup ({g[h].team} \X g[h].members)
                     ELSE team_users
    /\ UNCHANGED <<teams, apps, team_applications, Rest>>

RemoveUserFromTeam(h, t, u) ==
    /\ At(h, "idle") /\ TeamExists(t) /\ team_users' = team_users \ {<<t, u>>}
    /\ UNCHANGED <<teams, apps, team_applications, g, Rest>>

(* The association of an application: checked, then inserted (see Bind).    *)
AddApplicationToTeam(h, t, a, perm) ==
    /\ At(h, "idle")
    /\ g' = [g EXCEPT ![h] = [Idle EXCEPT !.op = "addApp", !.pc = "bindCheck",
                                !.team = t, !.app = a, !.perm = perm]]
    /\ UNCHANGED <<Tables, Rest>>

RemoveApplicationFromTeam(h, t, a) ==
    /\ At(h, "idle") /\ TeamExists(t) /\ AppExists(a)
    /\ team_applications' = [team_applications EXCEPT ![t][a] = "none"]
    /\ UNCHANGED <<teams, apps, team_users, g, Rest>>

(* Mistake: ValidatePermission is not called, and the level is stored as    *)
(* the request spells it.                                                   *)
UpdateUnvalidatedPermission(h, t, a, perm) ==
    /\ At(h, "idle") /\ TeamExists(t) /\ AppExists(a) /\ Linked(t, a)
    /\ team_applications' = [team_applications EXCEPT ![t][a] = "owner"]
    /\ UNCHANGED <<teams, apps, team_users, g, Rest>>

UpdateApplicationPermission(h, t, a, perm) ==
    /\ At(h, "idle") /\ TeamExists(t) /\ AppExists(a) /\ Linked(t, a)
    /\ team_applications' = [team_applications EXCEPT ![t][a] = perm]
    /\ UNCHANGED <<teams, apps, team_users, g, Rest>>

-----------------------------------------------------------------------------
(* Applications.  The name of a new one is looked up but has no index; an   *)
(* approved creation (executeApplicationCreateAction) looks the team up     *)
(* instead, and never rolls back.                                           *)

CreateApplication(h, a, n, t) ==
    /\ At(h, "idle") /\ apps[a] = "unborn" /\ \A k \in Handlers : g[k].app # a
    /\ \A b \in Apps : apps[b] # n
    /\ Call(h, "createApp", "insert", t, a, n) /\ UNCHANGED <<Tables, Rest>>

executeApplicationCreate(h, a, n, t) ==
    /\ At(h, "idle") /\ apps[a] = "unborn" /\ \A k \in Handlers : g[k].app # a
    /\ TeamExists(t)
    /\ Call(h, "executeCreate", "insert", t, a, n) /\ UNCHANGED <<Tables, Rest>>

InsertApplication(h) ==
    /\ At(h, "insert") /\ Goto(h, "bindCheck")
    /\ apps' = [apps EXCEPT ![g[h].app] = g[h].name]
    /\ UNCHANGED <<teams, team_users, team_applications, Rest>>

(* What a handler does when AddApplicationToTeam returned an error.         *)
OnBindError(h) == IF g[h].op = "createApp" THEN Goto(h, "rollback") ELSE End(h)

CheckBind(h) ==
    LET ok == /\ TeamExists(g[h].team) /\ AppExists(g[h].app)
              /\ g[h].app \notin GetApplicationsByTeamID(g[h].team)
    IN  /\ At(h, "bindCheck")
        /\ IF ok THEN Goto(h, "bind") ELSE OnBindError(h)
        /\ UNCHANGED <<Tables, Rest>>

(* The insertion fails on the primary key when the row is there already.    *)
Bind(h) ==
    LET t == g[h].team  a == g[h].app
    IN  /\ At(h, "bind")
        /\ IF Linked(t, a)
           THEN OnBindError(h) /\ UNCHANGED <<team_applications, told>>
           ELSE /\ team_applications' = [team_applications EXCEPT ![t][a] = g[h].perm]
                /\ told' = IF g[h].op = "createApp"
                           THEN [told EXCEPT ![a] = "created"] ELSE told
                /\ End(h)
        /\ UNCHANGED <<teams, apps, team_users, failures>>

(* ApplicationUseCase.DeleteApplication: the toggles go first (ToggleTree), *)
(* then one transaction with the associations and the service keys.         *)
EraseApplication(a) ==
    /\ apps' = [apps EXCEPT ![a] = "deleted"]
    /\ team_applications' = [t \in Teams |->
                               [team_applications[t] EXCEPT ![a] = "none"]]

(* Mistake: the answer is sent although nothing was rolled back.            *)
RollbackNothing(h) ==
    /\ At(h, "rollback") /\ End(h)
    /\ told' = [told EXCEPT ![g[h].app] = "refused"]
    /\ UNCHANGED <<Tables, failures>>

Rollback(h) ==
    /\ At(h, "rollback") /\ End(h)
    /\ IF AppExists(g[h].app)
       THEN /\ EraseApplication(g[h].app)
            /\ told' = [told EXCEPT ![g[h].app] = "refused"]
       ELSE /\ UNCHANGED <<apps, team_applications>>
            /\ told' = [told EXCEPT ![g[h].app] = "stuck"]
    /\ UNCHANGED <<teams, team_users, failures>>

DeleteApplication(h, a) ==
    /\ At(h, "idle") /\ AppExists(a)
    /\ Call(h, "deleteApp", "eraseApp", None, a, None)
    /\ UNCHANGED <<Tables, Rest>>

EraseApp(h) ==
    /\ At(h, "eraseApp") /\ EraseApplication(g[h].app) /\ End(h)
    /\ UNCHANGED <<teams, team_users, Rest>>

(* UpdateApplication, and executeApplicationUpdateAction which mirrors it:  *)
(* rename, then with a team: strip it of every team it is in, and bind it   *)
(* to the new one.                                                          *)
UpdateApplication(h, a, n, t) ==
    /\ At(h, "idle") /\ AppExists(a)
    /\ Call(h, "updateApp", "rename", t, a, n) /\ UNCHANGED <<Tables, Rest>>

RenameApplication(h) ==
    /\ At(h, "rename")
    /\ apps' = [apps EXCEPT ![g[h].app] = g[h].name]
    /\ IF g[h].team = None THEN End(h) ELSE Goto(h, "strip")
    /\ UNCHANGED <<teams, team_users, team_applications, Rest>>

RemoveApplicationFromAllTeams(h) ==
    LET a == g[h].app
    IN  /\ At(h, "strip")
        /\ IF AppExists(a)
           THEN g' = [g EXCEPT ![h].pc = "stripNext",
                               ![h].list = GetTeamsByApplicationID(a)]
           ELSE End(h)
        /\ UNCHANGED <<Tables, Rest>>

(* Mistake: the loop ends after the first team.                             *)
StripFirst(h) ==
    /\ At(h, "stripNext")
    /\ \/ \E t \in g[h].list :
            /\ team_applications' = [team_applications EXCEPT ![t][g[h].app] = "none"]
            /\ g' = [g EXCEPT ![h].list = {}]
       \/ g[h].list = {} /\ Goto(h, "bindCheck") /\ UNCHANGED team_applications
    /\ UNCHANGED <<teams, apps, team_users, Rest>>

StripNext(h) ==
    /\ At(h, "stripNext")
    /\ \/ \E t \in g[h].list :
            /\ team_applications' = [team_applications EXCEPT ![t][g[h].app] = "none"]
            /\ g' = [g EXCEPT ![h].list = @ \ {t}]
       \/ g[h].list = {} /\ Goto(h, "bindCheck") /\ UNCHANGED team_applications
    /\ UNCHANGED <<teams, apps, team_users, Rest>>

-----------------------------------------------------------------------------
(* A statement fails.                                                       *)

Fail(h) ==
    /\ failures < MaxFailures /\ ~At(h, "idle")
    /\ failures' = failures + 1
    /\ IF g[h].pc \in {"bindCheck", "bind"} THEN OnBindError(h) ELSE End(h)
    /\ told' = IF At(h, "rollback") THEN [told EXCEPT ![g[h].app] = "stuck"] ELSE told
    /\ UNCHANGED Tables

TeamStep(h) ==
    \/ CheckTeam(h) \/ SaveTeam(h) \/ UnlinkUsers(h) \/ UnlinkApps(h)
    \/ EraseTeam(h) \/ AppendUser(h)
    \/ \E t \in Teams :
         \/ DeleteTeam(h, t)
         \/ \E n \in Names : CreateTeam(h, t, n) \/ UpdateTeam(h, t, n)
         \/ \E u \in Users : AddUserToTeam(h, t, u) \/ RemoveUserFromTeam(h, t, u)
         \/ \E a \in Apps : RemoveApplicationFromTeam(h, t, a)
         \/ \E a \in Apps, perm \in Permissions :
              AddApplicationToTeam(h, t, a, perm)
              \/ UpdateApplicationPermission(h, t, a, perm)

AppStep(h) ==
    \/ InsertApplication(h) \/ CheckBind(h) \/ Bind(h) \/ Rollback(h)
    \/ EraseApp(h) \/ RenameApplication(h) \/ RemoveApplicationFromAllTeams(h)
    \/ StripNext(h)
    \/ \E a \in Apps :
         \/ DeleteApplication(h, a)
         \/ \E n \in Names, t \in Teams :
              CreateApplication(h, a, n, t) \/ executeApplicationCreate(h, a, n, t)
         \/ \E n \in Names, t \in Teams \cup {None} : UpdateApplication(h, a, n, t)

ONext == \E h \in Handlers : TeamStep(h) \/ AppStep(h) \/ Fail(h)
OSpec == OInit /\ [][ONext]_ovars

-----------------------------------------------------------------------------
(* Properties.                                                              *)

(* No row of team_users or team_applications outlives its team or its       *)
(* application, wherever a deletion, a move or a rollback is cut short.     *)
NoGhosts ==
    /\ \A r \in team_users : TeamExists(r[1])
    /\ \A t \in Teams, a \in Apps : Linked(t, a) => TeamExists(t) /\ AppExists(a)

(* Three queries answer who owns what: the list of applications of a user   *)
(* (over the tables that Preload joins), UserCanAccessApplication (over the *)
(* join tables alone) and the counts of GET /teams.  They agree.            *)
ViewsAgree ==
    /\ \A u \in Users, a \in Apps :
         a \in GetAllApplications(u) <=> UserCanAccessApplication(u, a)
    /\ \A t \in Teams : TeamExists(t) =>
         ApplicationCount(t) = Cardinality(GetApplicationsByTeamID(t))

(* The permission UserCanAccessApplication reports is the highest the       *)
(* user's teams have, in whatever order the rows come.                      *)
HighestIsMaximum ==
    \A u \in Users, a \in Apps :
        LET T == GetUserTeamApplicationPermissions(u, a)
            P == {team_applications[t][a] : t \in T}
        IN  \A order \in Bijection(1..Cardinality(T), T) :
              T # {} =>
                LET top == HighestPermission(
                             [i \in 1..Cardinality(T) |-> team_applications[order[i]][a]])
                IN  /\ top = IF "admin" \in P THEN "admin"
                             ELSE IF "write" \in P THEN "write" ELSE "read"
                    /\ UserCanModifyApplication(top) <=> P # {"read"}

(* "If the team association fails, the just-created application is deleted  *)
(* again and 400 is returned": after that answer nothing of it is left.     *)
RefusedLeavesNothing ==
    \A a \in Apps : told[a] = "refused" =>
        apps[a] = "deleted" /\ \A t \in Teams : ~Linked(t, a)

(* "This is a full replace, not an add": when a move succeeds, the new team *)
(* is the only one the application is in, and has the permission admin.     *)
MoveReplaces ==
    [][\A h \in Handlers :
         g[h].op = "updateApp" /\ g[h].pc = "bind" /\ g'[h].pc = "idle"
           /\ failures' = failures =>
         \A t \in Teams : team_applications'[t][g[h].app] =
                            IF t = g[h].team THEN "admin" ELSE "none"]_ovars
=============================================================================
