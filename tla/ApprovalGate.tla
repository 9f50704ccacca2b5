------------------------------ MODULE ApprovalGate ------------------------------
(***************************************************************************)
(* The middleware in front of every mutation of toggles, applications and  *)
(* service keys (middleware/approval.go), and the settings it consults     *)
(* (entity/approval_settings.go and their repository).                     *)
(*                                                                         *)
(* One request reads the settings up to three times, each time with a      *)
(* query of its own, while root may be changing them.  The repository      *)
(* keeps no more than one row in mind, but nothing keeps the table to one: *)
(* Get inserts the defaults when it finds no row, and two first readers    *)
(* both do.  First returns the row with the smallest identifier, and       *)
(* identifiers grow with the time they are drawn, not stored.              *)
(***************************************************************************)
EXTENDS Naturals, FiniteSets

CONSTANTS Requests,     \* one HTTP request each
          ActionTypes,  \* the action types of this instance
          MaxRows,      \* bound on the rows of approval_settings
          MaxFailures,  \* bound on database calls that fail
          None

AllTypes == {"toggle_create", "toggle_update", "toggle_delete", "toggle_enable",
             "toggle_disable", "toggle_rule", "application_create",
             "application_update", "application_delete", "secret_key_create",
             "secret_key_delete"}

ASSUME GateAssumption ==
    ActionTypes \subseteq AllTypes /\ MaxRows \in Nat /\ MaxFailures \in Nat

VARIABLES rows,      \* table approval_settings
          first,     \* the row First finds: the smallest identifier stored, or 0
          drawn,     \* identifiers drawn so far
          m,         \* what each request is and holds between two queries
          failures,  \* database calls that have failed so far
          fresh,     \* history: the installation started without a row
          always     \* history: requests for which approval was required all along

gvars == <<rows, first, drawn, m, failures, fresh, always>>

-----------------------------------------------------------------------------
(* Settings.                                                                *)

Settings == [enabled : BOOLEAN, required : SUBSET ActionTypes]
ASSUME NoneAssumption == None \notin Settings

(* NewApprovalSettings: switched off, with the critical actions ticked.     *)
Default ==
    [enabled |-> FALSE,
     required |-> ActionTypes \cap
        {"toggle_delete", "toggle_rule", "application_create", "application_update",
         "application_delete", "secret_key_create", "secret_key_delete"}]

RequiresApproval(s, act) == s.enabled /\ act \in s.required

(* ApplyUpdate: the switch, the set of actions, or both.                    *)
Patches == [enabled : {"same", "on", "off"}, required : (SUBSET ActionTypes) \cup {None}]
ApplyUpdate(s, p) ==
    [enabled |-> IF p.enabled = "same" THEN s.enabled ELSE p.enabled = "on",
     required |-> IF p.required = None THEN s.required ELSE p.required]

-----------------------------------------------------------------------------
(* The routes behind the middleware.  Of a path only the fixed segments     *)
(* count, of a body only what getActionType looks at.                       *)

Bodies == [enabled : {"absent", "on", "off"}, rule : BOOLEAN]
Route(method, segments) == [method |-> method, segments |-> segments]
Routes == {Route("POST", {"applications"}), Route("PUT", {"applications"}),
           Route("DELETE", {"applications"}),
           Route("POST", {"applications", "generate-secret"}),
           Route("POST", {"applications", "toggles"}),
           Route("PUT", {"applications", "toggles", "bulk"}),
           Route("PUT", {"applications", "toggles"}),
           Route("DELETE", {"applications", "toggles"}),
           Route("PUT", {"applications", "toggle"}),
           Route("DELETE", {"secret-keys"})}

(* The cases of getActionType in the order of the code: the first that      *)
(* applies counts, and "/toggle" is also found in "/toggles".               *)
OtherActionType(r, b) ==
    LET has(s) == s \in r.segments
        is(method) == r.method = method
        switched == IF b.enabled = "on" THEN "toggle_enable" ELSE "toggle_disable"
    IN  IF is("PUT") /\ has("applications") /\ ~(has("toggle") \/ has("toggles"))
             THEN "application_update"
        ELSE IF is("POST") /\ has("toggles") THEN "toggle_create"
        ELSE IF is("DELETE") /\ has("toggles") THEN "toggle_delete"
        ELSE IF is("PUT") /\ has("bulk") THEN switched
        ELSE IF is("PUT") /\ has("toggles")
             THEN IF b.rule THEN "toggle_rule" ELSE "toggle_update"
        ELSE IF is("PUT") /\ has("toggle")
             THEN IF b.enabled = "absent" THEN "toggle_update" ELSE switched
        ELSE "unknown"

getActionType(r, b) ==
    LET has(s) == s \in r.segments
        is(method) == r.method = method
    IN  IF is("POST") /\ has("generate-secret") THEN "secret_key_create"
        ELSE IF is("DELETE") /\ has("secret-keys") THEN "secret_key_delete"
        ELSE IF is("POST") /\ has("applications") /\ ~has("toggles") THEN "application_create"
        ELSE IF is("DELETE") /\ has("applications") /\ ~has("toggles") THEN "application_delete"
        ELSE OtherActionType(r, b)

(* The action type the API documentation gives to each route.               *)
Documented(r, b) ==
    LET switched == IF b.enabled = "on" THEN "toggle_enable" ELSE "toggle_disable"
    IN  CASE r = Route("POST", {"applications"}) -> "application_create"
          [] r = Route("PUT", {"applications"}) -> "application_update"
          [] r = Route("DELETE", {"applications"}) -> "application_delete"
          [] r = Route("POST", {"applications", "generate-secret"}) -> "secret_key_create"
          [] r = Route("DELETE", {"secret-keys"}) -> "secret_key_delete"
          [] r = Route("POST", {"applications", "toggles"}) -> "toggle_create"
          [] r = Route("DELETE", {"applications", "toggles"}) -> "toggle_delete"
          [] r = Route("PUT", {"applications", "toggles"}) ->
               (IF b.rule THEN "toggle_rule" ELSE "toggle_update")
          [] r = Route("PUT", {"applications", "toggle"}) ->
               (IF b.enabled = "absent" THEN "toggle_update" ELSE switched)
          [] OTHER -> switched

(* RequireApprovalAware(minimum role): root to delete an application.       *)
requiredRole(r) ==
    IF r.method = "DELETE" /\ r.segments = {"applications"} THEN "root" ELSE "admin"
hasRequiredRole(role, required) ==
    IF required = "root" THEN role = "root" ELSE role \in {"root", "admin"}

-----------------------------------------------------------------------------
(* Requests.  A request is a mutation by somebody or root's update of the   *)
(* settings; row and id are the struct an update has loaded and the         *)
(* identifier drawn for a row about to be stored.  act is what the          *)
(* middleware takes the request for, means what it is documented to be.     *)

Roles == {"root", "admin", "user"}
Frames ==
    [pc : {"unborn", "enabled", "required", "team", "create", "persist",
           "settings", "save", "direct", "requested", "refused"},
     update : BOOLEAN, role : Roles, act : ActionTypes \cup {"none"},
     means : ActionTypes \cup {"none"}, mayPass : BOOLEAN, seeding : BOOLEAN, id : 0..MaxRows,
     row : Settings, patch : Patches]

NoPatch == [enabled |-> "same", required |-> None]
Unborn == [pc |-> "unborn", update |-> FALSE, role |-> "user", act |-> "none",
           means |-> "none", mayPass |-> FALSE, seeding |-> FALSE, id |-> 0, row |-> Default,
           patch |-> NoPatch]

Stored == {i \in 1..MaxRows : rows[i] # None}

PTypeOK ==
    /\ rows \in [1..MaxRows -> Settings \cup {None}]
    /\ first \in 0..MaxRows /\ drawn \in 0..MaxRows
    /\ m \in [Requests -> Frames]
    /\ failures \in 0..MaxFailures
    /\ fresh \in BOOLEAN /\ always \in SUBSET Requests
    /\ first = 0 <=> Stored = {}
    /\ first # 0 => first \in Stored /\ \A i \in Stored : first <= i

InForce == IF first = 0 THEN Default ELSE rows[first]

(* A server without a row of settings, or one whose root has made a choice. *)
GInit ==
    /\ m = [r \in Requests |-> Unborn] /\ failures = 0 /\ always = {}
    /\ \/ /\ fresh = TRUE /\ first = 0 /\ drawn = 0
          /\ rows = [i \in 1..MaxRows |-> None]
       \/ /\ fresh = FALSE /\ first = 1 /\ drawn = 1 /\ MaxRows > 0
          /\ \E s \in Settings : rows = [i \in 1..MaxRows |->
                                           IF i = 1 THEN s ELSE None]

(* always forgets the requests that need no approval from now on.           *)
Watch == always' = {r \in always : RequiresApproval(InForce', m[r].means)}

At(r, pc) == m[r].pc = pc
Goto(r, pc) ==
    m' = [m EXCEPT ![r] = [@ EXCEPT !.pc = pc, !.seeding = FALSE, !.id = 0,
                                    !.row = Default, !.patch = NoPatch]]
CheckRole(r) == Goto(r, IF m[r].mayPass THEN "direct" ELSE "refused")

(* The description and the data of the request to come are not told apart;  *)
(* what counts is the team it will belong to.                               *)
createApprovalRequest(r) == Goto(r, "team")

(* Root passes at once.                                                     *)
Mutate(r, role, route, body) ==
    LET act == getActionType(route, body)
        means == Documented(route, body)
        mayPass == hasRequiredRole(role, requiredRole(route))
    IN  /\ At(r, "unborn") /\ {act, means} \subseteq ActionTypes
        /\ m' = [m EXCEPT ![r] =
             [Unborn EXCEPT !.role = role, !.act = act, !.means = means, !.mayPass = mayPass,
                            !.pc = IF role = "root" THEN "direct" ELSE "enabled"]]
        /\ always' = IF role # "root" /\ RequiresApproval(InForce, means)
                     THEN always \cup {r} ELSE always
        /\ UNCHANGED <<rows, first, drawn, failures, fresh>>

UpdateApprovalSettings(r, patch) ==
    /\ At(r, "unborn")
    /\ m' = [m EXCEPT ![r] = [Unborn EXCEPT !.update = TRUE, !.role = "root",
                                !.patch = patch, !.pc = "settings"]]
    /\ UNCHANGED <<rows, first, drawn, failures, fresh, always>>

(* Mistake: whoever has the role the route needs is let through before the  *)
(* second query.                                                            *)
ConsultRoleFirst(r, s, i) ==
    \/ At(r, "enabled") /\ (IF s.enabled THEN Goto(r, "required") ELSE CheckRole(r))
    \/ /\ At(r, "required")
       /\ IF m[r].mayPass THEN CheckRole(r) ELSE createApprovalRequest(r)
    \/ /\ At(r, "create")
       /\ Goto(r, IF RequiresApproval(s, m[r].act) THEN "persist" ELSE "refused")
    \/ /\ At(r, "settings")
       /\ m' = [m EXCEPT ![r] = [@ EXCEPT !.pc = "save", !.seeding = FALSE, !.id = i,
                                    !.row = ApplyUpdate(s, m[r].patch),
                                    !.patch = NoPatch]]

(* What a request does with the settings s it was given as row i.           *)
Consult(r, s, i) ==
    \/ At(r, "enabled") /\ (IF s.enabled THEN Goto(r, "required") ELSE CheckRole(r))
    \/ /\ At(r, "required")
       /\ IF RequiresApproval(s, m[r].act) THEN createApprovalRequest(r) ELSE CheckRole(r)
    \/ /\ At(r, "create")
       /\ Goto(r, IF RequiresApproval(s, m[r].act) THEN "persist" ELSE "refused")
    \/ /\ At(r, "settings")
       /\ m' = [m EXCEPT ![r] = [@ EXCEPT !.pc = "save", !.seeding = FALSE, !.id = i,
                                    !.row = ApplyUpdate(s, m[r].patch),
                                    !.patch = NoPatch]]

(* approvalSettingsRepository.Get: the first row, or an identifier for a    *)
(* row with the defaults.                                                   *)
Get(r) ==
    /\ ~m[r].seeding
    /\ \/ first # 0 /\ Consult(r, rows[first], first) /\ UNCHANGED drawn
       \/ /\ first = 0 /\ drawn < MaxRows
          /\ m[r].pc \in {"enabled", "required", "create", "settings"}
          /\ drawn' = drawn + 1
          /\ m' = [m EXCEPT ![r].seeding = TRUE, ![r].id = drawn + 1]
    /\ UNCHANGED <<rows, first, failures, fresh, always>>

(* Mistake: the row stored last counts.                                     *)
CreateLast(r) ==
    /\ m[r].seeding
    /\ rows' = [rows EXCEPT ![m[r].id] = Default] /\ first' = m[r].id
    /\ Consult(r, Default, m[r].id) /\ Watch
    /\ UNCHANGED <<drawn, failures, fresh>>

Create(r) ==
    LET i == m[r].id
    IN  /\ m[r].seeding
        /\ rows' = [rows EXCEPT ![i] = Default]
        /\ first' = IF first = 0 \/ i < first THEN i ELSE first
        /\ Consult(r, Default, i) /\ Watch
        /\ UNCHANGED <<drawn, failures, fresh>>

(* Mistake: the request is filed on the strength of an earlier query.       *)
determineTeamIDOnly(r) ==
    /\ At(r, "team") /\ (Goto(r, "persist") \/ Goto(r, "refused"))
    /\ UNCHANGED <<rows, first, drawn, failures, fresh, always>>

(* determineTeamID, and then everything createApprovalRequestUnchecked may  *)
(* object to (see Approvals).                                               *)
determineTeamID(r) ==
    /\ At(r, "team") /\ (Goto(r, "create") \/ Goto(r, "refused"))
    /\ UNCHANGED <<rows, first, drawn, failures, fresh, always>>

CreateApprovalRequest(r) ==
    /\ At(r, "persist") /\ (Goto(r, "requested") \/ Goto(r, "refused"))
    /\ UNCHANGED <<rows, first, drawn, failures, fresh, always>>

(* The whole row is written, whatever it has become since it was read.      *)
SaveSettings(r) ==
    /\ At(r, "save") /\ Goto(r, "direct")
    /\ rows' = [rows EXCEPT ![m[r].id] = m[r].row]
    /\ UNCHANGED <<first, drawn, failures, fresh>> /\ Watch

(* A query fails.  Asked whether approval is enabled at all, the middleware *)
(* takes an error for a no.                                                 *)
Fail(r) ==
    /\ failures < MaxFailures /\ failures' = failures + 1
    /\ m[r].pc \in {"enabled", "required", "team", "create", "persist", "settings", "save"}
    /\ IF At(r, "enabled") THEN CheckRole(r) ELSE Goto(r, "refused")
    /\ UNCHANGED <<rows, first, drawn, fresh, always>>

GNext ==
    \E r \in Requests :
        \/ \E role \in Roles, route \in Routes, body \in Bodies : Mutate(r, role, route, body)
        \/ \E patch \in Patches : UpdateApprovalSettings(r, patch)
        \/ Get(r) \/ Create(r) \/ determineTeamID(r) \/ CreateApprovalRequest(r)
        \/ SaveSettings(r) \/ Fail(r)

GSpec == GInit /\ [][GNext]_gvars

-----------------------------------------------------------------------------
(* Properties.                                                              *)

(* "If the workflow is enabled and required for that action type, the       *)
(* handler is not invoked": a request of anybody but root for which that    *)
(* was so from its arrival to its answer never goes straight through.       *)
GateHolds == \A r \in always : ~At(r, "direct")

(* The same as long as no database call has failed.                         *)
CleanGateHolds == failures = 0 => GateHolds

-----------------------------------------------------------------------------
(* The middleware implements ApprovalPolicy: a request is judged by the     *)
(* last settings it reads.  One that found no row has nothing more to ask,  *)
(* whether or not the row it is about to insert can be stored.              *)

Kind(r) == [update |-> m[r].update, role |-> m[r].role, act |-> m[r].act,
            mayPass |-> m[r].mayPass]
Kinds == [update : BOOLEAN, role : Roles, act : ActionTypes \cup {"none"},
          mayPass : BOOLEAN]
Verdict(r) ==
    IF m[r].seeding /\ At(r, "enabled")
    THEN IF m[r].mayPass THEN "direct" ELSE "refused"
    ELSE IF At(r, "persist") THEN "owed"
    ELSE IF m[r].pc \in {"enabled", "required", "team", "create", "settings", "save"}
    THEN "waiting" ELSE m[r].pc

KindRequires(s, k) == RequiresApproval(s, k.act)
IsExempt(k) == k.role = "root" /\ ~k.update
MayPass(k) == k.mayPass
IsUpdate(k) == k.update

Policy == INSTANCE ApprovalPolicy WITH
    RequiresApproval <- KindRequires, Exempt <- IsExempt, Permitted <- MayPass,
    Updates <- IsUpdate, force <- InForce,
    kind <- [r \in Requests |-> Kind(r)],
    verdict <- [r \in Requests |-> Verdict(r)], faults <- failures

(* Every behaviour of the middleware is one of the policy: whatever root    *)
(* changes between its queries, a request goes through, or is filed, only   *)
(* if the settings in force at one moment of its stay say so.               *)
ImplementsPolicy == Policy!PolicySpec
=============================================================================
