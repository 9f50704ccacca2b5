------------------------------- MODULE Approvals -------------------------------
(***************************************************************************)
(* The approval workflow (usecase/approval_usecase.go): a member of a team *)
(* asks for a change, an approver of the team or root approves or rejects  *)
(* it, the requester may withdraw it while it is pending, and a separate   *)
(* call executes what was approved.                                        *)
(*                                                                         *)
(* The module extends SecretKeys: a request for a new service key creates  *)
(* the key, inactive, together with the request; executing the request     *)
(* rotates the keys of the application and activates the new one.          *)
(*                                                                         *)
(* As in SecretKeys every handler is a sequence of database steps and      *)
(* rf[h] holds what handler h has read.  The columns of a request that no  *)
(* code path assigns after NewApprovalRequest are kept in issued[r]; the   *)
(* columns a decision writes are requests[r].                              *)
(***************************************************************************)
EXTENDS SecretKeys

CONSTANTS Users, Root,           \* Root has the role root, for good
          Teams, Reqs,           \* request identifiers, never reused
          ActionTypes,           \* the action types of this instance
          Lifetime,              \* expires_at - created_at (seven days)
          MaxTime,               \* bound on the clock
          NoUser, NoReq, NoTeam

AllActionTypes ==
    {"toggle_create", "toggle_update", "toggle_delete", "toggle_enable",
     "toggle_disable", "toggle_rule", "application_create",
     "application_update", "application_delete", "secret_key_create",
     "secret_key_delete"}

ASSUME ApprovalsAssumption ==
    /\ Root \in Users
    /\ NoUser \notin Users /\ NoReq \notin Reqs /\ NoTeam \notin Teams
    /\ ActionTypes \subseteq AllActionTypes
    /\ Lifetime \in Nat /\ MaxTime \in Nat

(* Both policies test for root first, so root's own rows of team_users never *)
(* matter and are left out.                                                  *)
NonRoot == Users \ {Root}

VARIABLES requests,    \* table approval_requests: status, by, at, named
          issued,      \* what was asked, fixed at creation
          teamUsers,   \* table team_users: none, member or approver
          admins,      \* table users: who has the role admin; the rest have "user"
          required,    \* action types that need approval, {} when disabled
          now,         \* the clock
          rf,          \* what each handler holds between two database steps
          decisions,   \* history: every decision that was saved
          executed,    \* history: every execution that took effect
          appointed    \* history: who was made approver of which team as an admin

rvars == <<requests, issued, teamUsers, admins, required, now, rf, decisions,
           executed, appointed>>
vars == <<kvars, rvars>>

Statuses == {"pending", "approved", "rejected", "expired"}
NoRow == [status |-> "absent", by |-> NoUser, at |-> 0, named |-> FALSE]
Rows == [status : Statuses \cup {"absent"}, by : Users \cup {NoUser},
         at : Nat, named : BOOLEAN]
NoMeta == [requester |-> NoUser, team |-> NoTeam, action |-> "none",
           app |-> NoApp, key |-> NoKey, expires |-> 0]
Metas == [requester : Users, team : Teams, action : ActionTypes,
          app : Apps, key : Keys \cup {NoKey}, expires : Nat]
NoReqFrame == [pc |-> "idle", op |-> "none", user |-> NoUser, req |-> NoReq,
               row |-> NoRow, meta |-> NoMeta]
ReqFrames == [pc : {"idle", "newkey", "persist", "read", "save", "dropkey", "delete",
                    "exec", "activating"},
              op : {"none", "create", "approve", "reject", "withdraw", "execute"},
              user : Users \cup {NoUser}, req : Reqs \cup {NoReq},
              row : Rows, meta : Metas \cup {NoMeta}]

TypeOK ==
    /\ KTypeOK
    /\ requests \in [Reqs -> Rows]
    /\ issued \in [Reqs -> Metas \cup {NoMeta}]
    /\ teamUsers \in [Teams \X NonRoot -> {"none", "member", "approver"}]
    /\ required \in SUBSET ActionTypes
    /\ now \in Nat
    /\ rf \in [Handlers -> ReqFrames]
    /\ decisions \in SUBSET [req : Reqs, verdict : {"approved", "rejected"},
                             by : Users, at : Nat]
    /\ executed \in SUBSET [req : Reqs, by : Users]
    /\ admins \in SUBSET NonRoot
    /\ appointed \in SUBSET (Teams \X NonRoot)

Init ==
    /\ KInit
    /\ requests = [r \in Reqs |-> NoRow]
    /\ issued = [r \in Reqs |-> NoMeta]
    /\ teamUsers = [tu \in Teams \X NonRoot |-> "none"]
    /\ required = {}
    /\ now = 0
    /\ rf = [h \in Handlers |-> NoReqFrame]
    /\ decisions = {}
    /\ executed = {}
    /\ admins \in SUBSET NonRoot
    /\ appointed = {}

-----------------------------------------------------------------------------
(* Policies *)

IsUserApprover(u, t) == teamUsers[<<t, u>>] = "approver"
CanAct(u, t) == u # Root => IsUserApprover(u, t)
CanRead(u, t) == u # Root => teamUsers[<<t, u>>] # "none"
IsExpired(r) == now > issued[r].expires
(* Mistakes: the requester may decide, or anybody after the deadline.       *)
CanBeApprovedByAnyone(r, row, u) == row.status = "pending" /\ ~IsExpired(r)
CanBeApprovedLate(r, row, u) == issued[r].requester # u /\ row.status = "pending"

CanBeApprovedBy(r, row, u) ==
    /\ issued[r].requester # u
    /\ row.status = "pending"
    /\ ~IsExpired(r)

Idle(h) == KIdle(h) /\ rf[h].pc = "idle"
End(h) == rf' = [rf EXCEPT ![h] = NoReqFrame]
Requested(r) == issued[r] # NoMeta
KeyRequest(r) == issued[r].action = "secret_key_create"

(* Action types whose effect is on tables of other modules.                 *)
ElsewhereTypes ==
    AllActionTypes \ {"application_delete", "secret_key_create", "secret_key_delete"}

-----------------------------------------------------------------------------
(* Opening a request (createApprovalRequestUnchecked) *)

RequiresApproval(act) == act \in required

(* CreateApprovalRequest accepts the types that need approval,              *)
(* CreateSuggestion the two toggle types of POST .../suggest.               *)
MayRequest(act) == RequiresApproval(act) \/ act \in {"toggle_enable", "toggle_disable"}

(* The key an action is about: none yet for a key to be created; for a key   *)
(* to be revoked whatever identifier the caller gives. The middleware takes *)
(* the application from the key, POST /approval/requests takes both as they *)
(* come, so the key may be gone or belong to another application.           *)
RequestKey(act, k) ==
    \/ act = "secret_key_delete" /\ k \in Keys /\ Created(k)
    \/ act # "secret_key_delete" /\ k = NoKey

BeginRequest(h, u, t, act, a, k) ==
    /\ Idle(h)
    /\ MayRequest(act) /\ CanRead(u, t) /\ a \in apps
    /\ RequestKey(act, k)
    /\ rf' = [rf EXCEPT ![h] = [NoReqFrame EXCEPT
                 !.pc = IF act = "secret_key_create" THEN "newkey" ELSE "persist",
                 !.op = "create", !.user = u,
                 !.meta = [requester |-> u, team |-> t, action |-> act,
                           app |-> a, key |-> k, expires |-> now + Lifetime]]]
    /\ UNCHANGED <<kvars, requests, issued, teamUsers, admins, required, now,
                   decisions, executed, appointed>>

(* A requested key is created, inactive, before the request is stored; the   *)
(* clock of the request starts after it (NewApprovalRequest).                *)
CreateRequestedKey(h, k) ==
    /\ rf[h].pc = "newkey"
    /\ CreatePendingSecretKey(h, rf[h].meta.app, k)
    /\ rf' = [rf EXCEPT ![h].pc = "persist", ![h].meta.key = k,
                        ![h].meta.expires = now + Lifetime]
    /\ UNCHANGED <<requests, issued, teamUsers, admins, required, now, decisions,
                   executed, appointed>>

PersistRequest(h, r) ==
    /\ rf[h].pc = "persist"
    /\ ~Requested(r)
    /\ issued' = [issued EXCEPT ![r] = rf[h].meta]
    /\ requests' = [requests EXCEPT ![r] =
                       [status |-> "pending", by |-> NoUser, at |-> 0, named |-> TRUE]]
    /\ End(h)
    /\ UNCHANGED <<kvars, teamUsers, admins, required, now, decisions, executed,
                   appointed>>

-----------------------------------------------------------------------------
(* Approve, reject, withdraw and execute start by reading the request.      *)

ReadRequest(h, op, u, r) ==
    /\ Idle(h)
    /\ requests[r].status # "absent"
    /\ rf' = [rf EXCEPT ![h] = [NoReqFrame EXCEPT
                 !.pc = "read", !.op = op, !.user = u, !.req = r,
                 !.row = requests[r]]]
    /\ UNCHANGED <<kvars, requests, issued, teamUsers, admins, required, now,
                   decisions, executed, appointed>>

(* Mistakes: a status the schema does not know, a rejection that sends the  *)
(* request back.                                                            *)
VerdictUnknown(op) == IF op = "approve" THEN "approved" ELSE "refused"
VerdictSentBack(op) == IF op = "approve" THEN "approved" ELSE "pending"

(* CanBeApprovedBy on what was read, CanAct on the current team_users, then *)
(* Approve or Reject on the struct in memory.  GetByID does not select the  *)
(* frozen names, so the struct that is going to be saved has none.          *)
Verdict(op) == IF op = "approve" THEN "approved" ELSE "rejected"

CheckDecision(h) ==
    /\ rf[h].pc = "read" /\ rf[h].op \in {"approve", "reject"}
    /\ CanBeApprovedBy(rf[h].req, rf[h].row, rf[h].user)
    /\ CanAct(rf[h].user, issued[rf[h].req].team)
    /\ rf' = [rf EXCEPT ![h].pc = "save",
                        ![h].row = [status |-> Verdict(rf[h].op),
                                    by |-> rf[h].user, at |-> now,
                                    named |-> FALSE]]
    /\ UNCHANGED <<kvars, requests, issued, teamUsers, admins, required, now,
                   decisions, executed, appointed>>

(* repository Update is gorm's Save: all columns of the struct, inserted    *)
(* again when the row was deleted in the meantime.                          *)
SaveDecision(h) ==
    /\ rf[h].pc = "save"
    /\ requests' = [requests EXCEPT ![rf[h].req] = rf[h].row]
    /\ decisions' = decisions \cup
          {[req |-> rf[h].req, verdict |-> rf[h].row.status,
            by |-> rf[h].user, at |-> rf[h].row.at]}
    /\ IF rf[h].op = "reject" /\ KeyRequest(rf[h].req)
         THEN rf' = [rf EXCEPT ![h].pc = "dropkey"]
         ELSE End(h)
    /\ UNCHANGED <<kvars, issued, teamUsers, admins, required, now, executed,
                   appointed>>

(* Mistake: the key is deactivated instead of deleted.                      *)
DeactivateRejectedKey(h) ==
    /\ rf[h].pc = "dropkey"
    /\ keys' = [keys EXCEPT ![issued[rf[h].req].key] = "pending"]
    /\ End(h)
    /\ UNCHANGED <<owner, apps, kf, requests, issued, teamUsers, admins, required,
                   now, decisions, executed, appointed>>

(* RejectRequest deletes the key that was waiting for the decision.         *)
DropRejectedKey(h) ==
    /\ rf[h].pc = "dropkey"
    /\ Delete(issued[rf[h].req].key)
    /\ End(h)
    /\ UNCHANGED <<kf, requests, issued, teamUsers, admins, required, now,
                   decisions, executed, appointed>>

(* WithdrawRequest: own and pending when read; the key goes first.          *)
MayWithdraw(h) ==
    /\ rf[h].pc = "read" /\ rf[h].op = "withdraw"
    /\ issued[rf[h].req].requester = rf[h].user
    /\ rf[h].row.status = "pending"

DropWithdrawnKey(h) ==
    /\ MayWithdraw(h) /\ KeyRequest(rf[h].req)
    /\ Delete(issued[rf[h].req].key)
    /\ rf' = [rf EXCEPT ![h].pc = "delete"]
    /\ UNCHANGED <<kf, requests, issued, teamUsers, admins, required, now,
                   decisions, executed, appointed>>

DeleteRequest(h) ==
    /\ \/ rf[h].pc = "delete"
       \/ MayWithdraw(h) /\ ~KeyRequest(rf[h].req)
    /\ requests' = [requests EXCEPT ![rf[h].req] = NoRow]
    /\ End(h)
    /\ UNCHANGED <<kvars, issued, teamUsers, admins, required, now, decisions,
                   executed, appointed>>

-----------------------------------------------------------------------------
(* ExecuteApprovedAction.  The status stays "approved": there is no         *)
(* executed status, so a request can be executed again.                     *)

(* Mistake: execution without looking at the status.                        *)
CheckExecuteUndecided(h) ==
    /\ rf[h].pc = "read" /\ rf[h].op = "execute"
    /\ CanAct(rf[h].user, issued[rf[h].req].team)
    /\ rf' = [rf EXCEPT ![h].pc = "exec"]
    /\ UNCHANGED <<kvars, requests, issued, teamUsers, admins, required, now,
                   decisions, executed, appointed>>

CheckExecute(h) ==
    /\ rf[h].pc = "read" /\ rf[h].op = "execute"
    /\ CanAct(rf[h].user, issued[rf[h].req].team)
    /\ rf[h].row.status = "approved"
    /\ rf' = [rf EXCEPT ![h].pc = "exec"]
    /\ UNCHANGED <<kvars, requests, issued, teamUsers, admins, required, now,
                   decisions, executed, appointed>>

Effect(h) == executed' = executed \cup {[req |-> rf[h].req, by |-> rf[h].user]}

(* secret_key_delete, application_delete and the types of other modules.    *)
ExecuteInOneStep(h) ==
    LET m == issued[rf[h].req]
    IN  /\ rf[h].pc = "exec"
        /\ \/ m.action = "secret_key_delete" /\ RevokeSecretKey(h, m.key)
           \/ m.action = "application_delete" /\ DeleteApplication(h, m.app)
           \/ m.action \in ElsewhereTypes /\ UNCHANGED kvars
        /\ Effect(h)
        /\ End(h)
        /\ UNCHANGED <<requests, issued, teamUsers, admins, required, now,
                       decisions, appointed>>

(* secret_key_create: ActivateAndRotateSecretKey on the waiting key.        *)
ExecuteKeyCreate(h) ==
    LET m == issued[rf[h].req]
    IN  /\ rf[h].pc = "exec" /\ m.action = "secret_key_create"
        /\ BeginActivate(h, m.key, m.app)
        /\ rf' = [rf EXCEPT ![h].pc = "activating"]
        /\ UNCHANGED <<requests, issued, teamUsers, admins, required, now,
                       decisions, executed, appointed>>

ExecuteRotateKey(h, t) == RotateKey(h, t) /\ UNCHANGED rvars

ExecuteActivateRead(h) == ActivateRead(h) /\ UNCHANGED rvars

ExecuteActivateSave(h) ==
    /\ rf[h].pc = "activating"
    /\ ActivateSave(h)
    /\ Effect(h)
    /\ End(h)
    /\ UNCHANGED <<requests, issued, teamUsers, admins, required, now, decisions,
                   appointed>>

(* A refused check, a database error or the end of the process: the handler *)
(* stops where it is.                                                       *)
Fail(h) ==
    /\ ~Idle(h)
    /\ Finish(h) /\ End(h)
    /\ UNCHANGED <<keys, owner, apps, requests, issued, teamUsers, admins, required,
                   now, decisions, executed, appointed>>

-----------------------------------------------------------------------------
(* Administration, by root *)

(* Mistake: the requests are loaded with GetByID and saved one by one.      *)
MarkExpiredBySaving(h) ==
    /\ Idle(h)
    /\ requests' = [r \in Reqs |->
          IF requests[r].status = "pending" /\ issued[r].expires <= now
            THEN [requests[r] EXCEPT !.status = "expired", !.named = FALSE]
            ELSE requests[r]]
    /\ UNCHANGED <<kvars, issued, teamUsers, admins, required, now, rf, decisions,
                   executed, appointed>>

MarkExpiredRequests(h) ==
    /\ Idle(h)
    /\ requests' = [r \in Reqs |->
          IF requests[r].status = "pending" /\ issued[r].expires <= now
            THEN [requests[r] EXCEPT !.status = "expired"] ELSE requests[r]]
    /\ UNCHANGED <<kvars, issued, teamUsers, admins, required, now, rf, decisions,
                   executed, appointed>>

Appoint(t, u, on) ==
    /\ teamUsers' = [teamUsers EXCEPT ![<<t, u>>] = IF on THEN "approver" ELSE "member"]
    /\ appointed' = IF on /\ u \in admins THEN appointed \cup {<<t, u>>} ELSE appointed

(* Mistake: anybody can be made an approver.                                *)
SetAnyApprover(h, t, u, on) ==
    /\ Idle(h)
    /\ teamUsers[<<t, u>>] # "none"
    /\ Appoint(t, u, on)
    /\ UNCHANGED <<kvars, requests, issued, admins, required, now, rf, decisions, executed>>

(* The role is looked at here and never again.  Reading it and setting the  *)
(* flag are two queries; a change of role in between may as well come after *)
(* them, for nothing else reads the role.                                   *)
SetTeamApprover(h, t, u, on) ==
    /\ Idle(h)
    /\ teamUsers[<<t, u>>] # "none"
    /\ on => u \in admins
    /\ Appoint(t, u, on)
    /\ UNCHANGED <<kvars, requests, issued, admins, required, now, rf, decisions, executed>>

(* UpdateUser of the user management saves the role and leaves the approver *)
(* flag alone; the teams it adds and removes are the two steps below.  The  *)
(* races of that handler on the rest of the row are in Accounts.            *)
UpdateUser(h, u, role) ==
    /\ Idle(h)
    /\ admins' = IF role = "admin" THEN admins \cup {u} ELSE admins \ {u}
    /\ UNCHANGED <<kvars, requests, issued, teamUsers, required, now, rf, decisions,
                   executed, appointed>>

AddUserToTeam(h, t, u) ==
    /\ Idle(h)
    /\ teamUsers[<<t, u>>] = "none"
    /\ teamUsers' = [teamUsers EXCEPT ![<<t, u>>] = "member"]
    /\ UNCHANGED <<kvars, requests, issued, admins, required, now, rf, decisions,
                   executed, appointed>>

RemoveUserFromTeam(h, t, u) ==
    /\ Idle(h)
    /\ teamUsers[<<t, u>>] # "none"
    /\ teamUsers' = [teamUsers EXCEPT ![<<t, u>>] = "none"]
    /\ UNCHANGED <<kvars, requests, issued, admins, required, now, rf, decisions,
                   executed, appointed>>

UpdateApprovalSettings(h, S) ==
    /\ Idle(h)
    /\ required' = S
    /\ UNCHANGED <<kvars, requests, issued, teamUsers, admins, now, rf, decisions,
                   executed, appointed>>

(* Root's own changes skip the workflow (ApprovalAware), and clients of an  *)
(* application use its keys at any time.                                    *)
DirectKeyStep(h) ==
    /\ rf[h].pc = "idle"
    /\ \/ \E k \in Keys : RevokeSecretKey(h, k)
       \/ \E a \in Apps : DeleteApplication(h, a)
       \/ \E a \in Apps : BeginRegenerate(h, a)
       \/ \E t \in kf[h].todo : RotateKey(h, t)
       \/ \E k \in Keys : RegenerateCreate(h, k)
       \/ \E k \in Keys : ValidateRead(h, k)
       \/ ValidateTouch(h)
    /\ UNCHANGED rvars

Tick ==
    /\ now < MaxTime
    /\ now' = now + 1
    /\ UNCHANGED <<kvars, requests, issued, teamUsers, admins, required, rf,
                   decisions, executed, appointed>>

-----------------------------------------------------------------------------
RequestStep(h) ==
    \/ \E u \in Users, t \in Teams, act \in ActionTypes, a \in Apps,
          k \in Keys \cup {NoKey} : BeginRequest(h, u, t, act, a, k)
    \/ \E k \in Keys : CreateRequestedKey(h, k)
    \/ \E r \in Reqs : PersistRequest(h, r)
    \/ \E op \in {"approve", "reject", "withdraw", "execute"}, u \in Users, r \in Reqs :
          ReadRequest(h, op, u, r)
    \/ CheckDecision(h) \/ SaveDecision(h) \/ DropRejectedKey(h)
    \/ DropWithdrawnKey(h) \/ DeleteRequest(h)
    \/ CheckExecute(h) \/ ExecuteInOneStep(h) \/ ExecuteKeyCreate(h)
    \/ rf[h].pc = "activating" /\ \E t \in kf[h].todo : ExecuteRotateKey(h, t)
    \/ ExecuteActivateRead(h) \/ ExecuteActivateSave(h)
    \/ Fail(h)

AdminStep(h) ==
    \/ MarkExpiredRequests(h)
    \/ \E t \in Teams, u \in NonRoot :
          \/ \E on \in BOOLEAN : SetTeamApprover(h, t, u, on)
          \/ AddUserToTeam(h, t, u)
          \/ RemoveUserFromTeam(h, t, u)
    \/ \E u \in NonRoot, role \in {"admin", "user"} : UpdateUser(h, u, role)
    \/ \E S \in SUBSET ActionTypes : UpdateApprovalSettings(h, S)

Next ==
    \/ \E h \in Handlers : RequestStep(h) \/ AdminStep(h) \/ DirectKeyStep(h)
    \/ Tick

Spec == Init /\ [][Next]_vars

-----------------------------------------------------------------------------
(* Whatever takes effect through the workflow was approved before, in time, *)
(* by somebody other than the requester - however the handlers of approval, *)
(* rejection, withdrawal, expiry and execution interleave.                  *)
Approval(d, r) ==
    /\ d.req = r /\ d.verdict = "approved"
    /\ d.by # issued[r].requester
    /\ d.at <= issued[r].expires

FourEyes == \A e \in executed : \E d \in decisions : Approval(d, e.req)

(* "Only admin and root can be approvers": whoever decided was root or had  *)
(* been made an approver of the team of that request while an admin, over   *)
(* all changes of roles, flags and memberships before and after.  That the  *)
(* decider still is an admin is not true: a demotion keeps the flag, and    *)
(* CanAct asks for the flag alone.                                          *)
DecidersWereAppointed ==
    \A d \in decisions : d.by # Root => <<issued[d.req].team, d.by>> \in appointed

(* The plain text of a requested key is handed out at once; it must         *)
(* authenticate nothing until the request has been approved.                *)
NoKeyBeforeApproval ==
    \A r \in Reqs :
        KeyRequest(r) /\ keys[issued[r].key] \in ActiveStates
            => \E d \in decisions : Approval(d, r)

(* No step, not even the Save of a row read long ago, makes a request that  *)
(* was decided, expired or withdrawn wait for a decision again.             *)
NeverReopened ==
    [][\A r \in Reqs : Requested(r) /\ requests[r].status # "pending"
                          => requests'[r].status # "pending"]_vars

(* The workflow touches keys only through the operations of SecretKeys.     *)
KeyDiscipline == KSpec

(* An approved or rejected request is a decision of record: its status      *)
(* never changes again and its row "is never deleted (it stays forever as   *)
(* history)", says the comment of entity.ApprovalRequest.  Not so when a    *)
(* withdrawal read the request before the decision was saved, or when two   *)
(* decisions overlap.                                                       *)
DecisionIsFinal ==
    [][\A r \in Reqs : requests[r].status \in {"approved", "rejected"}
                          => requests'[r].status = requests[r].status]_vars

(* The key of a rejected request never authenticates: RejectRequest deletes *)
(* it, and it "never came to be valid".                                     *)
RejectedKeyNeverWorks ==
    \A r \in Reqs : requests[r].status = "rejected" /\ KeyRequest(r)
                       => keys[issued[r].key] \notin ActiveStates

(* A request nobody decided shows the name of its application even after    *)
(* the application is deleted: COALESCE of the frozen name and of the live  *)
(* row in GetWithDetails.  Once it is decided this no longer holds: the     *)
(* Save of a decision wipes the frozen names, which GetByID does not load.  *)
ShownName(r) == requests[r].named \/ issued[r].app \in apps
UndecidedKeepsName ==
    \A r \in Reqs : requests[r].status \in {"pending", "expired"} => ShownName(r)
=============================================================================
