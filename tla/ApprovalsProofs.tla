---------------------------- MODULE ApprovalsProofs ----------------------------
(***************************************************************************)
(* Four eyes for any number of handlers, users, teams and requests: what   *)
(* the workflow executes was approved, in time, by somebody other than the *)
(* requester; whoever decided was root or had been made an approver of the *)
(* team as an admin; and a request that was decided never waits again.     *)
(***************************************************************************)
EXTENDS Approvals, SecretKeysProofs

(* The request has an approval on record.                                   *)
HasApproval(r) == \E d \in decisions : Approval(d, r)

(* SetTeamApprover is the only way to become an approver, and asks for the  *)
(* role admin then; later the role may be taken away.                       *)
ApproversAppointed ==
    \A t \in Teams, u \in NonRoot :
        teamUsers[<<t, u>>] = "approver" => <<t, u>> \in appointed

(* Root, or an approver of the team of the request at some time.            *)
Entitled(u, r) == u # Root => <<issued[r].team, u>> \in appointed

(* A row in the table was requested, an approved one has its approval.      *)
RowsOK ==
    \A r \in Reqs : /\ requests[r].status # "absent" => Requested(r)
                    /\ requests[r].status = "approved" => HasApproval(r)

(* What a handler read stays good to act on: a decision that is about to be *)
(* saved passed the checks, and an execution under way has an approval.     *)
FrameOK(h) ==
    LET f == rf[h]
    IN  /\ f.pc \in {"newkey", "persist"} => f.meta \in Metas
        /\ f.pc \in {"read", "save", "dropkey", "delete", "exec", "activating"} =>
              f.req \in Reqs /\ f.user \in Users /\ Requested(f.req)
        /\ f.pc = "read" /\ f.row.status = "approved" => HasApproval(f.req)
        /\ f.pc = "save" =>
              /\ f.row.status \in {"approved", "rejected"}
              /\ Entitled(f.user, f.req)
              /\ f.row.status = "approved" =>
                    /\ f.user # issued[f.req].requester
                    /\ f.row.at <= issued[f.req].expires
        /\ f.pc \in {"exec", "activating"} => HasApproval(f.req)

(* Everything executed was requested and approved.                          *)
ExecutedOK == \A e \in executed : Requested(e.req) /\ HasApproval(e.req)

(* Everything decided was requested and decided by somebody entitled.       *)
DecidedOK == \A d \in decisions : Requested(d.req) /\ Entitled(d.by, d.req)

AInv ==
    /\ TypeOK
    /\ ApproversAppointed
    /\ RowsOK
    /\ \A h \in Handlers : FrameOK(h)
    /\ ExecutedOK
    /\ DecidedOK

-----------------------------------------------------------------------------
(* What was asked never changes, and neither decisions nor appointments are *)
(* forgotten.                                                               *)
Recorded ==
    /\ \A r \in Reqs : Requested(r) => issued'[r] = issued[r]
    /\ decisions \subseteq decisions'
    /\ appointed \subseteq appointed'

(* So an approval stays one.                                                *)
LEMMA ApprovalStays ==
    ASSUME Recorded, NEW r \in Reqs, Requested(r)
    PROVE  Requested(r)' /\ (HasApproval(r) => HasApproval(r)')
  BY DEF Recorded, Requested, HasApproval, Approval

(* And so does the title of whoever decided.                                *)
LEMMA TitleStays ==
    ASSUME Recorded, NEW r \in Reqs, Requested(r), NEW u, Entitled(u, r)
    PROVE  Entitled(u, r)'
  BY DEF Recorded, Requested, Entitled

(* A step that decides nothing keeps what is known of the decisions.        *)
LEMMA DecidedStays ==
    ASSUME AInv, Recorded, decisions' = decisions PROVE DecidedOK'
<1> SUFFICES ASSUME NEW d \in decisions PROVE Requested(d.req)' /\ Entitled(d.by, d.req)'
  BY DEF DecidedOK
<1>1. d.req \in Reqs /\ Requested(d.req) /\ Entitled(d.by, d.req)
  BY DEF AInv, DecidedOK, TypeOK
<1> QED  BY <1>1, ApprovalStays, TitleStays

(* The frame of a handler that does not step stays good.                    *)
LEMMA OtherFrames ==
    ASSUME AInv, Recorded, NEW g \in Handlers, rf'[g] = rf[g] PROVE FrameOK(g)'
<1> DEFINE f == rf[g]
<1>0. FrameOK(g)  BY DEF AInv
<1>1. ASSUME f.req \in Reqs, Requested(f.req)
      PROVE  /\ issued'[f.req] = issued[f.req] /\ Requested(f.req)'
             /\ HasApproval(f.req) => HasApproval(f.req)'
             /\ Entitled(f.user, f.req) => Entitled(f.user, f.req)'
  BY <1>1, ApprovalStays, TitleStays DEF Recorded
<1> QED  BY <1>0, <1>1 DEF FrameOK

(* An idle handler has a frame of the type.                                 *)
LEMMA NoReqFrameTyped == NoReqFrame \in ReqFrames /\ NoRow \in Rows
<1>1. NoRow \in Rows  BY DEF NoRow, Rows
<1> QED  BY <1>1 DEF NoReqFrame, ReqFrames

(* A handler that ends.                                                     *)
LEMMA EndFacts ==
    ASSUME AInv, NEW h \in Handlers, End(h)
    PROVE  /\ rf' \in [Handlers -> ReqFrames] /\ FrameOK(h)'
           /\ \A g \in Handlers \ {h} : rf'[g] = rf[g]
<1>1. rf'[h] = NoReqFrame  BY DEF AInv, TypeOK, End
<1>2. FrameOK(h)'  BY <1>1 DEF FrameOK, NoReqFrame
<1> QED  BY <1>2, NoReqFrameTyped DEF AInv, TypeOK, End

(* CanAct asks for the flag alone, and the flag for an appointment.         *)
LEMMA ActorsEntitled ==
    ASSUME AInv, NEW u \in Users, NEW q \in Reqs, issued[q].team \in Teams,
           CanAct(u, issued[q].team)
    PROVE  Entitled(u, q)
  BY DEF AInv, ApproversAppointed, CanAct, IsUserApprover, NonRoot, Entitled

(* A request that is on record has the columns of one.                      *)
LEMMA RequestedTyped ==
    ASSUME TypeOK, NEW r \in Reqs, Requested(r) PROVE issued[r] \in Metas
  BY DEF TypeOK, Requested

(* NoMeta is not the content of a request: NoUser asks for nothing.         *)
LEMMA MetasAreNotNoMeta == NoMeta \notin Metas
  BY ApprovalsAssumption DEF NoMeta, Metas

(* A step that writes no table of the workflow.                             *)
LEMMA QuietStep ==
    ASSUME AInv, NEW h \in Handlers, KTypeOK',
           UNCHANGED <<requests, issued, teamUsers, admins, required, now, decisions,
                       executed, appointed>>,
           rf' \in [Handlers -> ReqFrames], FrameOK(h)',
           \A g \in Handlers \ {h} : rf'[g] = rf[g]
    PROVE  AInv'
<1> USE DEF AInv
<1>1. TypeOK'  BY DEF TypeOK
<1>2. Recorded  BY DEF Recorded
<1>3. \A g \in Handlers : FrameOK(g)'  BY <1>2, OtherFrames
<1>4. ApproversAppointed'  BY DEF ApproversAppointed
<1>5. RowsOK' /\ ExecutedOK'  BY DEF RowsOK, ExecutedOK, Requested, HasApproval, Approval
<1> QED  BY <1>1, <1>2, <1>3, <1>4, <1>5, DecidedStays

(* The initial state: nothing was asked, decided or executed.               *)
LEMMA InitInv == ASSUME Init PROVE AInv
<1> USE DEF Init
<1>1. TypeOK
  <2>1. KTypeOK  BY NoFrameTyped DEF KInit, KTypeOK, KeyStates
  <2> QED  BY <2>1, NoReqFrameTyped DEF TypeOK
<1>2. ApproversAppointed  BY DEF ApproversAppointed
<1>3. RowsOK /\ ExecutedOK /\ DecidedOK  BY DEF RowsOK, ExecutedOK, DecidedOK, NoRow
<1>4. \A h \in Handlers : FrameOK(h)  BY DEF FrameOK, NoReqFrame
<1> QED  BY <1>1, <1>2, <1>3, <1>4 DEF AInv

-----------------------------------------------------------------------------
(* Opening a request *)

(* The frame holds what is asked for.                                       *)
LEMMA BeginRequestInv ==
    ASSUME AInv, NEW h \in Handlers, NEW u \in Users, NEW t \in Teams,
           NEW act \in ActionTypes, NEW a \in Apps, NEW k \in Keys \cup {NoKey},
           BeginRequest(h, u, t, act, a, k)
    PROVE  AInv'
<1> USE DEF AInv, BeginRequest
<1> DEFINE meta == [requester |-> u, team |-> t, action |-> act,
                    app |-> a, key |-> k, expires |-> now + Lifetime]
           l == IF act = "secret_key_create" THEN "newkey" ELSE "persist"
           f == [NoReqFrame EXCEPT !.pc = l, !.op = "create", !.user = u, !.meta = meta]
<1>1. meta \in Metas
  BY ApprovalsAssumption DEF Metas, TypeOK
<1>2. rf' = [rf EXCEPT ![h] = f]
  OBVIOUS
<1>3. l \in {"newkey", "persist"}
  OBVIOUS
<1> HIDE DEF meta, l
<1>4. f \in ReqFrames
  BY <1>1, <1>3, NoReqFrameTyped DEF ReqFrames
<1>5. f.pc = l /\ f.meta = meta
  BY DEF NoReqFrame
<1> HIDE DEF f
<1>6. rf'[h] = f /\ rf' \in [Handlers -> ReqFrames]
  BY <1>2, <1>4 DEF TypeOK
<1>7. FrameOK(h)'
  BY <1>1, <1>3, <1>5, <1>6 DEF FrameOK
<1> QED  BY <1>2, <1>6, <1>7, QuietStep DEF TypeOK, KTypeOK, kvars

(* The key is created before the request is stored.                         *)
LEMMA CreateRequestedKeyInv ==
    ASSUME AInv, NEW h \in Handlers, NEW k \in Keys, CreateRequestedKey(h, k)
    PROVE  AInv'
<1> USE DEF AInv, CreateRequestedKey
<1> DEFINE meta == [rf[h].meta EXCEPT !.key = k, !.expires = now + Lifetime]
           f == [rf[h] EXCEPT !.pc = "persist", !.meta = meta]
<1>1. rf[h] \in ReqFrames /\ rf[h].meta \in Metas
  BY DEF TypeOK, FrameOK
<1>2. meta \in Metas
  <2>1. now + Lifetime \in Nat  BY ApprovalsAssumption DEF TypeOK
  <2> QED  BY <1>1, <2>1 DEF Metas
<1>3. rf' = [rf EXCEPT ![h] = f]
  BY <1>1 DEF TypeOK, ReqFrames, Metas
<1> HIDE DEF meta
<1>4. f \in ReqFrames /\ f.pc = "persist" /\ f.meta = meta
  BY <1>1, <1>2 DEF ReqFrames
<1> HIDE DEF f
<1>5. rf'[h] = f /\ rf' \in [Handlers -> ReqFrames]
  BY <1>3, <1>4 DEF TypeOK
<1>6. FrameOK(h)'
  BY <1>2, <1>4, <1>5 DEF FrameOK
<1>7. KTypeOK'
  BY <1>1, CreatePendingTyped DEF TypeOK, Metas
<1> QED  BY <1>3, <1>5, <1>6, <1>7, QuietStep DEF TypeOK

(* The request is stored under an identifier that was never used.           *)
LEMMA PersistRequestInv ==
    ASSUME AInv, NEW h \in Handlers, NEW r \in Reqs, PersistRequest(h, r)
    PROVE  AInv'
<1> USE DEF AInv, PersistRequest
<1> DEFINE row == [status |-> "pending", by |-> NoUser, at |-> 0, named |-> TRUE]
<1>1. rf[h].meta \in Metas
  BY DEF FrameOK
<1>2. row \in Rows
  BY DEF Rows, Statuses
<1>3. /\ issued' = [issued EXCEPT ![r] = rf[h].meta]
      /\ requests' = [requests EXCEPT ![r] = row]
  OBVIOUS
<1>4. row.status = "pending"
  OBVIOUS
<1> HIDE DEF row
<1>5. Recorded
  BY <1>3 DEF Recorded, TypeOK
<1>6. TypeOK'
  BY <1>1, <1>2, <1>3, EndFacts DEF TypeOK, KTypeOK, kvars
<1>7. ApproversAppointed'
  BY DEF ApproversAppointed
<1>8. RowsOK'
  <2> SUFFICES ASSUME NEW x \in Reqs
               PROVE  /\ requests'[x].status # "absent" => Requested(x)'
                      /\ requests'[x].status = "approved" => HasApproval(x)'
    BY DEF RowsOK
  <2>1. CASE x = r
    <3>1. requests'[x].status = "pending"  BY <1>3, <1>4, <2>1 DEF TypeOK
    <3>2. issued'[x] \in Metas  BY <1>1, <1>3, <2>1 DEF TypeOK
    <3> QED  BY <3>1, <3>2, MetasAreNotNoMeta DEF Requested
  <2>2. CASE x # r
    <3>1. requests'[x] = requests[x]  BY <1>3, <2>2 DEF TypeOK
    <3>2. requests[x].status # "absent" => Requested(x)  BY DEF RowsOK
    <3>3. requests[x].status = "approved" => HasApproval(x)  BY DEF RowsOK
    <3>4. Requested(x) => Requested(x)' /\ (HasApproval(x) => HasApproval(x)')
      BY <1>5, ApprovalStays
    <3> QED  BY <3>1, <3>2, <3>3, <3>4
  <2> QED  BY <2>1, <2>2
<1>9. \A g \in Handlers : FrameOK(g)'
  BY <1>5, EndFacts, OtherFrames
<1>10. ExecutedOK'
  BY <1>5, ApprovalStays DEF ExecutedOK, TypeOK
<1> QED  BY <1>5, <1>6, <1>7, <1>8, <1>9, <1>10, DecidedStays

-----------------------------------------------------------------------------
(* Deciding, withdrawing and executing *)

(* The row read is the row of the table.                                    *)
LEMMA ReadRequestInv ==
    ASSUME AInv, NEW h \in Handlers, NEW u \in Users, NEW r \in Reqs,
           NEW op \in {"approve", "reject", "withdraw", "execute"},
           ReadRequest(h, op, u, r)
    PROVE  AInv'
<1> USE DEF AInv, ReadRequest
<1> DEFINE f == [NoReqFrame EXCEPT !.pc = "read", !.op = op, !.user = u,
                                   !.req = r, !.row = requests[r]]
<1>1. requests[r] \in Rows
  BY DEF TypeOK
<1>2. rf' = [rf EXCEPT ![h] = f]
  OBVIOUS
<1>3. f \in ReqFrames
  BY <1>1, NoReqFrameTyped DEF ReqFrames
<1>4. f.pc = "read" /\ f.req = r /\ f.user = u /\ f.row = requests[r]
  BY DEF NoReqFrame
<1> HIDE DEF f
<1>5. rf'[h] = f /\ rf' \in [Handlers -> ReqFrames]
  BY <1>2, <1>3 DEF TypeOK
<1>6. Requested(r) /\ (requests[r].status = "approved" => HasApproval(r))
  BY DEF RowsOK
<1>7. Requested(r)' /\ (HasApproval(r) => HasApproval(r)')
  BY <1>6 DEF Requested, HasApproval, Approval
<1>8. FrameOK(h)'
  BY <1>4, <1>5, <1>6, <1>7 DEF FrameOK
<1> QED  BY <1>2, <1>5, <1>8, QuietStep DEF TypeOK, KTypeOK, kvars

(* A decision leaves the checks only with a decider who may decide.         *)
LEMMA CheckDecisionInv ==
    ASSUME AInv, NEW h \in Handlers, CheckDecision(h) PROVE AInv'
<1> USE DEF AInv, CheckDecision
<1> DEFINE row == [status |-> Verdict(rf[h].op), by |-> rf[h].user, at |-> now,
                   named |-> FALSE]
           f == [rf[h] EXCEPT !.pc = "save", !.row = row]
<1>0. PICK r \in Reqs, u \in Users :
         r = rf[h].req /\ u = rf[h].user /\ Requested(r)
  BY DEF FrameOK
<1>1. rf[h] \in ReqFrames
  BY DEF TypeOK
<1>2. issued[r] \in Metas
  BY <1>0, RequestedTyped
<1>3. issued[r].team \in Teams /\ issued[r].expires \in Nat /\ now \in Nat
  BY <1>2 DEF Metas, TypeOK
<1>4. Entitled(u, r)
  BY <1>0, <1>3, ActorsEntitled
<1>5. u # issued[r].requester /\ now <= issued[r].expires
  BY <1>0, <1>3 DEF CanBeApprovedBy, IsExpired
<1>6. row \in Rows /\ row.status \in {"approved", "rejected"} /\ row.at = now
  BY <1>0, <1>3 DEF Rows, Statuses, Verdict
<1>7. rf' = [rf EXCEPT ![h] = f]
  BY <1>1 DEF TypeOK
<1> HIDE DEF row
<1>8. f \in ReqFrames /\ f.pc = "save" /\ f.row = row /\ f.req = r /\ f.user = u
  BY <1>0, <1>1, <1>6 DEF ReqFrames
<1> HIDE DEF f
<1>9. rf'[h] = f /\ rf' \in [Handlers -> ReqFrames]
  BY <1>7, <1>8 DEF TypeOK
<1>10. Requested(r)' /\ issued' = issued /\ Entitled(u, r)'
  BY <1>0, <1>4 DEF Requested, Entitled
<1>11. FrameOK(h)'
  BY <1>4, <1>5, <1>6, <1>8, <1>9, <1>10 DEF FrameOK
<1> QED  BY <1>7, <1>9, <1>11, QuietStep DEF TypeOK, KTypeOK, kvars

(* Saving a decision puts it on record, whatever the row has become since   *)
(* it was read.                                                             *)
LEMMA SaveDecisionInv ==
    ASSUME AInv, NEW h \in Handlers, SaveDecision(h) PROVE AInv'
<1> USE DEF AInv, SaveDecision
<1>0. PICK r \in Reqs, u \in Users, row \in Rows :
         /\ r = rf[h].req /\ u = rf[h].user /\ row = rf[h].row /\ Requested(r)
         /\ row.status \in {"approved", "rejected"}
         /\ Entitled(u, r)
         /\ row.status = "approved" => /\ u # issued[r].requester
                                       /\ row.at <= issued[r].expires
  BY DEF FrameOK, TypeOK, ReqFrames
<1> DEFINE d == [req |-> r, verdict |-> row.status, by |-> u, at |-> row.at]
<1>1. requests' = [requests EXCEPT ![r] = row] /\ decisions' = decisions \cup {d}
  BY <1>0
<1>2. d \in [req : Reqs, verdict : {"approved", "rejected"}, by : Users, at : Nat]
  BY <1>0 DEF Rows
<1>3. Recorded
  BY <1>1 DEF Recorded
<1>4. ASSUME row.status = "approved" PROVE HasApproval(r)'
  <2>1. Approval(d, r)'  BY <1>0, <1>4 DEF Approval
  <2> QED  BY <1>1, <2>1 DEF HasApproval
<1> HIDE DEF d
<1>5. RowsOK'
  <2> SUFFICES ASSUME NEW x \in Reqs
               PROVE  /\ requests'[x].status # "absent" => Requested(x)'
                      /\ requests'[x].status = "approved" => HasApproval(x)'
    BY DEF RowsOK
  <2>1. Requested(x) => Requested(x)' /\ (HasApproval(x) => HasApproval(x)')
    BY <1>3, ApprovalStays
  <2>2. CASE x = r
    BY <1>0, <1>1, <1>4, <2>1, <2>2 DEF TypeOK
  <2>3. CASE x # r
    <3>1. requests'[x] = requests[x]  BY <1>1, <2>3 DEF TypeOK
    <3> QED  BY <2>1, <3>1 DEF RowsOK
  <2> QED  BY <2>2, <2>3
<1>6. /\ rf' \in [Handlers -> ReqFrames] /\ FrameOK(h)'
      /\ \A g \in Handlers \ {h} : rf'[g] = rf[g]
  <2>1. CASE rf[h].op = "reject" /\ KeyRequest(rf[h].req)
    <3> DEFINE f == [rf[h] EXCEPT !.pc = "dropkey"]
    <3>1. rf' = [rf EXCEPT ![h] = f] /\ rf[h] \in ReqFrames  BY <2>1 DEF TypeOK
    <3>2. f \in ReqFrames /\ f.pc = "dropkey" /\ f.req = r /\ f.user = u
      BY <1>0, <3>1 DEF ReqFrames
    <3> HIDE DEF f
    <3>3. rf'[h] = f /\ rf' \in [Handlers -> ReqFrames]  BY <3>1, <3>2 DEF TypeOK
    <3>4. Requested(r)'  BY <1>0 DEF Requested
    <3>5. FrameOK(h)'  BY <3>2, <3>3, <3>4 DEF FrameOK
    <3> QED  BY <3>1, <3>3, <3>5 DEF TypeOK
  <2>2. CASE ~(rf[h].op = "reject" /\ KeyRequest(rf[h].req))
    BY <2>2, EndFacts
  <2> QED  BY <2>1, <2>2
<1>7. TypeOK'
  <2>1. KTypeOK'  BY DEF TypeOK, KTypeOK, kvars
  <2>2. requests' \in [Reqs -> Rows]  BY <1>1 DEF TypeOK
  <2>3. decisions' \in SUBSET [req : Reqs, verdict : {"approved", "rejected"},
                               by : Users, at : Nat]
    BY <1>1, <1>2 DEF TypeOK
  <2> QED  BY <1>6, <2>1, <2>2, <2>3 DEF TypeOK
<1>8. ApproversAppointed'
  BY DEF ApproversAppointed
<1>9. \A g \in Handlers : FrameOK(g)'
  BY <1>3, <1>6, OtherFrames
<1>10. ExecutedOK'
  BY <1>3, ApprovalStays DEF ExecutedOK, TypeOK
<1>11. DecidedOK'
  <2> SUFFICES ASSUME NEW x \in decisions'
               PROVE  Requested(x.req)' /\ Entitled(x.by, x.req)'
    BY DEF DecidedOK
  <2>1. x.req \in Reqs /\ Requested(x.req) /\ Entitled(x.by, x.req)
    <3>1. CASE x = d
      <4>1. d.req = r /\ d.by = u  BY DEF d
      <4> QED  BY <1>0, <3>1, <4>1
    <3>2. CASE x \in decisions  BY <3>2 DEF DecidedOK, TypeOK
    <3> QED  BY <1>1, <3>1, <3>2
  <2> QED  BY <1>3, <2>1, ApprovalStays, TitleStays
<1> QED  BY <1>5, <1>7, <1>8, <1>9, <1>10, <1>11

(* A rejected key is deleted.                                               *)
LEMMA DropRejectedKeyInv ==
    ASSUME AInv, NEW h \in Handlers, DropRejectedKey(h) PROVE AInv'
<1> USE DEF AInv, DropRejectedKey
<1>1. KTypeOK'  BY DeleteTyped DEF TypeOK, KTypeOK
<1> QED  BY <1>1, EndFacts, QuietStep

(* A withdrawn request loses its key, then its row.                         *)
LEMMA DropWithdrawnKeyInv ==
    ASSUME AInv, NEW h \in Handlers, DropWithdrawnKey(h) PROVE AInv'
<1> USE DEF AInv, DropWithdrawnKey
<1> DEFINE f == [rf[h] EXCEPT !.pc = "delete"]
<1>0. PICK r \in Reqs, u \in Users :
         r = rf[h].req /\ u = rf[h].user /\ Requested(r)
  BY DEF FrameOK, MayWithdraw
<1>1. KTypeOK'  BY DeleteTyped DEF TypeOK, KTypeOK
<1>2. rf' = [rf EXCEPT ![h] = f] /\ rf[h] \in ReqFrames
  BY DEF TypeOK
<1>3. f \in ReqFrames /\ f.pc = "delete" /\ f.req = r /\ f.user = u
  BY <1>0, <1>2 DEF ReqFrames
<1> HIDE DEF f
<1>4. rf'[h] = f /\ rf' \in [Handlers -> ReqFrames]
  BY <1>2, <1>3 DEF TypeOK
<1>5. FrameOK(h)'
  <2>1. Requested(r)'  BY <1>0 DEF Requested
  <2> QED  BY <1>3, <1>4, <2>1 DEF FrameOK
<1> QED  BY <1>1, <1>2, <1>4, <1>5, QuietStep DEF TypeOK

(* A row can only disappear.                                                *)
LEMMA DeleteRequestInv ==
    ASSUME AInv, NEW h \in Handlers, DeleteRequest(h) PROVE AInv'
<1> USE DEF AInv, DeleteRequest
<1>1. requests' = [requests EXCEPT ![rf[h].req] = NoRow]
  OBVIOUS
<1>2. Recorded
  BY DEF Recorded
<1>3. TypeOK'
  BY <1>1, NoReqFrameTyped, EndFacts DEF TypeOK, KTypeOK, kvars
<1>4. RowsOK'
  <2> SUFFICES ASSUME NEW x \in Reqs
               PROVE  /\ requests'[x].status # "absent" => Requested(x)'
                      /\ requests'[x].status = "approved" => HasApproval(x)'
    BY DEF RowsOK
  <2>1. Requested(x) => Requested(x)' /\ (HasApproval(x) => HasApproval(x)')
    BY <1>2, ApprovalStays
  <2>2. requests'[x] \in {requests[x], NoRow}  BY <1>1 DEF TypeOK
  <2>3. NoRow.status = "absent"  BY DEF NoRow
  <2> QED  BY <2>1, <2>2, <2>3 DEF RowsOK
<1>5. ApproversAppointed'
  BY DEF ApproversAppointed
<1>6. \A g \in Handlers : FrameOK(g)'
  BY <1>2, EndFacts, OtherFrames
<1>7. ExecutedOK'
  BY <1>2, ApprovalStays DEF ExecutedOK, TypeOK
<1> QED  BY <1>2, <1>3, <1>4, <1>5, <1>6, <1>7, DecidedStays

(* Execution starts only from a row that was read as approved.              *)
LEMMA CheckExecuteInv ==
    ASSUME AInv, NEW h \in Handlers, CheckExecute(h) PROVE AInv'
<1> USE DEF AInv, CheckExecute
<1> DEFINE f == [rf[h] EXCEPT !.pc = "exec"]
<1>0. PICK r \in Reqs, u \in Users :
         r = rf[h].req /\ u = rf[h].user /\ Requested(r) /\ HasApproval(r)
  BY DEF FrameOK
<1>1. rf' = [rf EXCEPT ![h] = f] /\ rf[h] \in ReqFrames
  BY DEF TypeOK
<1>2. f \in ReqFrames /\ f.pc = "exec" /\ f.req = r /\ f.user = u
  BY <1>0, <1>1 DEF ReqFrames
<1> HIDE DEF f
<1>3. rf'[h] = f /\ rf' \in [Handlers -> ReqFrames]
  BY <1>1, <1>2 DEF TypeOK
<1>4. FrameOK(h)'
  <2>1. Requested(r)' /\ HasApproval(r)'
    BY <1>0 DEF Requested, HasApproval, Approval
  <2> QED  BY <1>2, <1>3, <2>1 DEF FrameOK
<1> QED  BY <1>1, <1>3, <1>4, QuietStep DEF TypeOK, KTypeOK, kvars

(* What takes effect has its approval: the last step of any execution.      *)
LEMMA EffectInv ==
    ASSUME AInv, NEW h \in Handlers, rf[h].pc \in {"exec", "activating"},
           KTypeOK', Effect(h), End(h),
           UNCHANGED <<requests, issued, teamUsers, admins, required, now, decisions,
                       appointed>>
    PROVE  AInv'
<1> USE DEF AInv
<1>0. PICK r \in Reqs, u \in Users :
         r = rf[h].req /\ u = rf[h].user /\ Requested(r) /\ HasApproval(r)
  BY DEF FrameOK
<1>1. executed' = executed \cup {[req |-> r, by |-> u]}
  BY <1>0 DEF Effect
<1>2. Recorded
  BY DEF Recorded
<1>3. TypeOK'
  <2>1. [req |-> r, by |-> u] \in [req : Reqs, by : Users]  OBVIOUS
  <2>2. executed' \in SUBSET [req : Reqs, by : Users]  BY <1>1, <2>1 DEF TypeOK
  <2> QED  BY <2>2, EndFacts DEF TypeOK
<1>4. ExecutedOK'
  <2> SUFFICES ASSUME NEW e \in executed' PROVE Requested(e.req)' /\ HasApproval(e.req)'
    BY DEF ExecutedOK
  <2>1. e.req \in Reqs /\ Requested(e.req) /\ HasApproval(e.req)
    BY <1>0, <1>1 DEF ExecutedOK, TypeOK
  <2> QED  BY <1>2, <2>1, ApprovalStays
<1>5. ApproversAppointed'
  BY DEF ApproversAppointed
<1>6. RowsOK'
  BY <1>2, ApprovalStays DEF RowsOK
<1>7. \A g \in Handlers : FrameOK(g)'
  BY <1>2, EndFacts, OtherFrames
<1> QED  BY <1>2, <1>3, <1>4, <1>5, <1>6, <1>7, DecidedStays

(* Revocation, deletion of the application, and effects on other tables.    *)
LEMMA ExecuteInOneStepInv ==
    ASSUME AInv, NEW h \in Handlers, ExecuteInOneStep(h) PROVE AInv'
<1>1. KTypeOK'
  <2>1. KTypeOK  BY DEF AInv, TypeOK
  <2>2. CASE RevokeSecretKey(h, issued[rf[h].req].key)  BY <2>1, <2>2, RevokeTyped
  <2>3. CASE DeleteApplication(h, issued[rf[h].req].app)
    BY <2>1, <2>3, DeleteApplicationTyped
  <2>4. CASE UNCHANGED kvars  BY <2>1, <2>4 DEF KTypeOK, kvars
  <2> QED  BY <2>2, <2>3, <2>4 DEF ExecuteInOneStep
<1> QED  BY <1>1, EffectInv DEF ExecuteInOneStep

(* Activation of a requested key: rotation first.                           *)
LEMMA ExecuteKeyCreateInv ==
    ASSUME AInv, NEW h \in Handlers, ExecuteKeyCreate(h) PROVE AInv'
<1> USE DEF AInv, ExecuteKeyCreate
<1> DEFINE f == [rf[h] EXCEPT !.pc = "activating"]
<1>0. PICK r \in Reqs, u \in Users :
         r = rf[h].req /\ u = rf[h].user /\ Requested(r) /\ HasApproval(r)
  BY DEF FrameOK
<1>1. rf' = [rf EXCEPT ![h] = f] /\ rf[h] \in ReqFrames
  BY DEF TypeOK
<1>2. f \in ReqFrames /\ f.pc = "activating" /\ f.req = r /\ f.user = u
  BY <1>0, <1>1 DEF ReqFrames
<1> HIDE DEF f
<1>3. rf'[h] = f /\ rf' \in [Handlers -> ReqFrames]
  BY <1>1, <1>2 DEF TypeOK
<1>4. FrameOK(h)'
  <2>1. Requested(r)' /\ HasApproval(r)'
    BY <1>0 DEF Requested, HasApproval, Approval
  <2> QED  BY <1>2, <1>3, <2>1 DEF FrameOK
<1>5. KTypeOK'
  <2>1. issued[r].key \in Keys \cup {NoKey} /\ issued[r].app \in Apps \cup {NoApp}
    BY <1>0, RequestedTyped DEF Metas
  <2>2. BeginRotation(h, "activate", issued[r].app, issued[r].key)
    BY <1>0 DEF BeginActivate
  <2> QED  BY <2>1, <2>2, BeginRotationTyped DEF TypeOK
<1> QED  BY <1>1, <1>3, <1>4, <1>5, QuietStep DEF TypeOK

(* A step on keys alone.                                                    *)
LEMMA KeyStepInv == ASSUME AInv, KTypeOK', UNCHANGED rvars PROVE AInv'
<1> USE DEF AInv, rvars
<1>1. TypeOK'  BY DEF TypeOK
<1>2. ApproversAppointed'  BY DEF ApproversAppointed
<1>3. RowsOK' /\ ExecutedOK'
  BY DEF RowsOK, ExecutedOK, Requested, HasApproval, Approval
<1>4. Recorded  BY DEF Recorded
<1>5. \A g \in Handlers : FrameOK(g)'  BY <1>4, OtherFrames
<1> QED  BY <1>1, <1>2, <1>3, <1>4, <1>5, DecidedStays

(* The end of an activation.                                                *)
LEMMA ExecuteActivateSaveInv ==
    ASSUME AInv, NEW h \in Handlers, ExecuteActivateSave(h) PROVE AInv'
<1>1. KTypeOK'  BY ActivateSaveTyped DEF AInv, TypeOK, ExecuteActivateSave
<1> QED  BY <1>1, EffectInv DEF ExecuteActivateSave

(* A handler that gives up leaves the tables as they are.                   *)
LEMMA FailInv == ASSUME AInv, NEW h \in Handlers, Fail(h) PROVE AInv'
<1>1. KTypeOK'  BY FinishTyped DEF AInv, TypeOK, KTypeOK, Fail
<1> QED  BY <1>1, EndFacts, QuietStep DEF Fail

-----------------------------------------------------------------------------
(* Administration *)

(* A step that writes neither requests nor decisions.                       *)
LEMMA AdminStepInv ==
    ASSUME AInv, TypeOK', ApproversAppointed', appointed \subseteq appointed',
           UNCHANGED <<requests, issued, rf, decisions, executed>>
    PROVE  AInv'
<1> USE DEF AInv
<1>1. RowsOK' /\ ExecutedOK'
  BY DEF RowsOK, ExecutedOK, Requested, HasApproval, Approval
<1>2. Recorded  BY DEF Recorded
<1>3. \A g \in Handlers : FrameOK(g)'  BY <1>2, OtherFrames
<1> QED  BY <1>1, <1>2, <1>3, DecidedStays

(* Expiry turns pending rows into expired ones.                             *)
LEMMA MarkExpiredInv ==
    ASSUME AInv, NEW h \in Handlers, MarkExpiredRequests(h) PROVE AInv'
<1> USE DEF AInv, MarkExpiredRequests
<1>1. Recorded
  BY DEF Recorded
<1>2. \A x \in Reqs : \/ requests'[x] = requests[x]
                      \/ /\ requests[x].status = "pending"
                         /\ requests'[x] = [requests[x] EXCEPT !.status = "expired"]
  OBVIOUS
<1>3. TypeOK'
  <2>1. \A x \in Reqs : [requests[x] EXCEPT !.status = "expired"] \in Rows
    BY DEF TypeOK, Rows, Statuses
  <2>2. requests' \in [Reqs -> Rows]  BY <2>1 DEF TypeOK
  <2>3. KTypeOK'  BY DEF TypeOK, KTypeOK, kvars
  <2> QED  BY <2>2, <2>3 DEF TypeOK
<1>4. RowsOK'
  <2> SUFFICES ASSUME NEW x \in Reqs
               PROVE  /\ requests'[x].status # "absent" => Requested(x)'
                      /\ requests'[x].status = "approved" => HasApproval(x)'
    BY DEF RowsOK
  <2>1. Requested(x) => Requested(x)' /\ (HasApproval(x) => HasApproval(x)')
    BY <1>1, ApprovalStays
  <2>2. CASE requests'[x] = requests[x]  BY <2>1, <2>2 DEF RowsOK
  <2>3. CASE /\ requests[x].status = "pending"
             /\ requests'[x] = [requests[x] EXCEPT !.status = "expired"]
    BY <2>1, <2>3 DEF RowsOK, TypeOK, Rows
  <2> QED  BY <1>2, <2>2, <2>3
<1>5. ApproversAppointed' /\ ExecutedOK'
  BY <1>1, ApprovalStays DEF ApproversAppointed, ExecutedOK, TypeOK
<1>6. \A g \in Handlers : FrameOK(g)'
  BY <1>1, OtherFrames
<1> QED  BY <1>1, <1>3, <1>4, <1>5, <1>6, DecidedStays

(* Only an admin becomes an approver, and it goes on record.                *)
LEMMA TeamInv ==
    ASSUME AInv, NEW h \in Handlers, NEW t \in Teams, NEW u \in NonRoot,
           \/ \E on \in BOOLEAN : SetTeamApprover(h, t, u, on)
           \/ AddUserToTeam(h, t, u)
           \/ RemoveUserFromTeam(h, t, u)
    PROVE  AInv'
<1> USE DEF AInv, SetTeamApprover, Appoint, AddUserToTeam, RemoveUserFromTeam
<1> DEFINE Changed(v, S) == /\ teamUsers' = [teamUsers EXCEPT ![<<t, u>>] = v]
                            /\ appointed' = appointed \cup S
                            /\ v = "approver" => S = {<<t, u>>}
<1>1. PICK v \in {"none", "member", "approver"}, S \in {{}, {<<t, u>>}} : Changed(v, S)
  <2>1. ASSUME SetTeamApprover(h, t, u, TRUE) PROVE Changed("approver", {<<t, u>>})
    BY <2>1
  <2>2. ASSUME SetTeamApprover(h, t, u, FALSE) PROVE Changed("member", {})
    BY <2>2
  <2>3. ASSUME AddUserToTeam(h, t, u) PROVE Changed("member", {})
    BY <2>3
  <2>4. ASSUME RemoveUserFromTeam(h, t, u) PROVE Changed("none", {})
    BY <2>4
  <2> HIDE DEF Changed
  <2> QED  BY <2>1, <2>2, <2>3, <2>4
<1>2. TypeOK'
  BY <1>1 DEF TypeOK, KTypeOK, kvars
<1>3. ApproversAppointed'
  BY <1>1 DEF ApproversAppointed, TypeOK
<1>4. appointed \subseteq appointed'
  BY <1>1
<1> QED  BY <1>2, <1>3, <1>4, AdminStepInv

(* A role changes: no flag and no decision with it.                         *)
LEMMA UpdateUserInv ==
    ASSUME AInv, NEW h \in Handlers, NEW u \in NonRoot, NEW role, UpdateUser(h, u, role)
    PROVE  AInv'
<1>1. TypeOK' /\ ApproversAppointed'
  BY DEF AInv, TypeOK, KTypeOK, kvars, ApproversAppointed, UpdateUser
<1> QED  BY <1>1, AdminStepInv DEF UpdateUser

(* The settings change.                                                     *)
LEMMA SettingsInv ==
    ASSUME AInv, NEW h \in Handlers, NEW S \in SUBSET ActionTypes,
           UpdateApprovalSettings(h, S)
    PROVE  AInv'
<1>1. TypeOK' /\ ApproversAppointed'
  BY DEF AInv, TypeOK, KTypeOK, kvars, ApproversAppointed, UpdateApprovalSettings
<1> QED  BY <1>1, AdminStepInv DEF UpdateApprovalSettings

(* The clock advances.                                                      *)
LEMMA TickInv == ASSUME AInv, Tick PROVE AInv'
<1>1. TypeOK' /\ ApproversAppointed'
  BY DEF AInv, TypeOK, KTypeOK, kvars, ApproversAppointed, Tick
<1> QED  BY <1>1, AdminStepInv DEF Tick

(* Root's own changes and the clients' use of keys.                         *)
LEMMA DirectKeyStepInv ==
    ASSUME AInv, NEW h \in Handlers, DirectKeyStep(h) PROVE AInv'
<1>1. KTypeOK  BY DEF AInv, TypeOK
<1>2. KTypeOK'
  <2>1. ASSUME NEW a \in Apps, BeginRegenerate(h, a) PROVE KTypeOK'
    BY <1>1, <2>1, BeginRotationTyped DEF BeginRegenerate
  <2> QED
    BY <1>1, <2>1, RevokeTyped, DeleteApplicationTyped, RotateKeyTyped,
       RegenerateCreateTyped, ValidateReadTyped, ValidateTouchTyped DEF DirectKeyStep
<1> QED  BY <1>2, KeyStepInv DEF DirectKeyStep

-----------------------------------------------------------------------------
(* The invariant is inductive.                                              *)
LEMMA NextInv == AInv /\ [Next]_vars => AInv'
<1> SUFFICES ASSUME AInv, [Next]_vars PROVE AInv'
  OBVIOUS
<1>1. ASSUME NEW h \in Handlers, RequestStep(h) PROVE AInv'
  <2>1. ASSUME NEW t, ExecuteRotateKey(h, t) PROVE AInv'
    <3>1. KTypeOK'  BY <2>1, RotateKeyTyped DEF AInv, TypeOK, ExecuteRotateKey
    <3> QED  BY <2>1, <3>1, KeyStepInv DEF ExecuteRotateKey
  <2>2. ASSUME ExecuteActivateRead(h) PROVE AInv'
    <3>1. KTypeOK'  BY <2>2, ActivateReadTyped DEF AInv, TypeOK, ExecuteActivateRead
    <3> QED  BY <2>2, <3>1, KeyStepInv DEF ExecuteActivateRead
  <2> QED
    BY <1>1, <2>1, <2>2, BeginRequestInv, CreateRequestedKeyInv, PersistRequestInv,
       ReadRequestInv, CheckDecisionInv, SaveDecisionInv, DropRejectedKeyInv,
       DropWithdrawnKeyInv, DeleteRequestInv, CheckExecuteInv, ExecuteInOneStepInv,
       ExecuteKeyCreateInv, ExecuteActivateSaveInv, FailInv DEF RequestStep
<1>2. ASSUME NEW h \in Handlers, AdminStep(h) PROVE AInv'
  BY <1>2, MarkExpiredInv, TeamInv, UpdateUserInv, SettingsInv DEF AdminStep
<1>3. CASE UNCHANGED vars
  <2>1. KTypeOK'  BY <1>3 DEF AInv, TypeOK, KTypeOK, vars, kvars
  <2> QED  BY <1>3, <2>1, KeyStepInv DEF vars
<1> QED  BY <1>1, <1>2, <1>3, DirectKeyStepInv, TickInv DEF Next

(* The inductive invariant holds in every reachable state.                  *)
THEOREM Invariance == Spec => []AInv
  BY InitInv, NextInv, PTL DEF Spec

(* Every table, frame and history keeps its type.                           *)
THEOREM TypeCorrect == Spec => []TypeOK
<1>1. AInv => TypeOK  BY DEF AInv
<1> QED  BY <1>1, Invariance, PTL

(* Nothing takes effect through the workflow without an approval in time by *)
(* somebody other than the requester.                                       *)
THEOREM FourEyesHolds == Spec => []FourEyes
<1>1. AInv => FourEyes  BY DEF AInv, ExecutedOK, FourEyes, HasApproval
<1> QED  BY <1>1, Invariance, PTL

(* Every decision on record was made by root or by somebody who had been    *)
(* made an approver of that team as an admin, whatever became of roles,     *)
(* flags and memberships while the decision was under way or since.         *)
THEOREM DecidersAppointed == Spec => []DecidersWereAppointed
<1>1. AInv => DecidersWereAppointed
  BY DEF AInv, DecidedOK, Entitled, DecidersWereAppointed
<1> QED  BY <1>1, Invariance, PTL

(* A request that was decided, expired or withdrawn never waits again: a    *)
(* pending row comes only from PersistRequest, under a fresh identifier.    *)
THEOREM NeverReopenedHolds == Spec => NeverReopened
<1> DEFINE Closed == \A r \in Reqs : Requested(r) /\ requests[r].status # "pending"
                                        => requests'[r].status # "pending"
<1>1. ASSUME AInv, Next PROVE Closed
  <2> USE DEF AInv
  <2>1. ASSUME NEW h \in Handlers, NEW r \in Reqs, PersistRequest(h, r) PROVE Closed
    BY <2>1 DEF PersistRequest, TypeOK
  <2>2. ASSUME NEW h \in Handlers, SaveDecision(h) PROVE Closed
    BY <1>1, <2>2 DEF SaveDecision, FrameOK, TypeOK
  <2>3. ASSUME NEW h \in Handlers, DeleteRequest(h) PROVE Closed
    BY <1>1, <2>3 DEF DeleteRequest, NoRow, TypeOK
  <2>4. ASSUME NEW h \in Handlers, MarkExpiredRequests(h) PROVE Closed
    BY <2>4 DEF MarkExpiredRequests
  <2>5. ASSUME requests' = requests PROVE Closed
    BY <2>5
  <2> HIDE DEF Closed
  <2>6. ASSUME NEW h \in Handlers, RequestStep(h) PROVE Closed
    <3>1. ASSUME NEW u \in Users, NEW t \in Teams, NEW act \in ActionTypes,
                 NEW a \in Apps, NEW k \in Keys \cup {NoKey},
                 BeginRequest(h, u, t, act, a, k)
          PROVE  Closed
      BY <2>5, <3>1 DEF BeginRequest
    <3>2. ASSUME NEW op \in {"approve", "reject", "withdraw", "execute"},
                 NEW u \in Users, NEW r \in Reqs, ReadRequest(h, op, u, r)
          PROVE  Closed
      BY <2>5, <3>2 DEF ReadRequest
    <3>3. CASE CheckDecision(h) \/ DropRejectedKey(h) \/ DropWithdrawnKey(h) \/ CheckExecute(h)
      BY <2>5, <3>3 DEF CheckDecision, DropRejectedKey, DropWithdrawnKey, CheckExecute
    <3>4. CASE ExecuteInOneStep(h) \/ ExecuteKeyCreate(h) \/ ExecuteActivateRead(h)
                  \/ ExecuteActivateSave(h) \/ Fail(h)
      BY <2>5, <3>4 DEF ExecuteInOneStep, ExecuteKeyCreate, ExecuteActivateRead,
         ExecuteActivateSave, Fail, rvars
    <3>5. ASSUME NEW k \in Keys, CreateRequestedKey(h, k) PROVE Closed
      BY <2>5, <3>5 DEF CreateRequestedKey
    <3>6. ASSUME NEW t, ExecuteRotateKey(h, t) PROVE Closed
      BY <2>5, <3>6 DEF ExecuteRotateKey, rvars
    <3> QED
      BY <2>1, <2>2, <2>3, <2>6, <3>1, <3>2, <3>3, <3>4, <3>5, <3>6 DEF RequestStep
  <2>7. ASSUME NEW h \in Handlers, AdminStep(h) PROVE Closed
    BY <2>4, <2>5, <2>7 DEF AdminStep, SetTeamApprover, UpdateUser, AddUserToTeam,
       RemoveUserFromTeam, UpdateApprovalSettings
  <2>8. ASSUME NEW h \in Handlers, DirectKeyStep(h) PROVE Closed
    BY <2>5, <2>8 DEF DirectKeyStep, rvars
  <2>9. CASE Tick
    BY <2>5, <2>9 DEF Tick
  <2> QED  BY <1>1, <2>6, <2>7, <2>8, <2>9 DEF Next
<1>2. AInv /\ [Next]_vars => [Closed]_vars
  BY <1>1
<1> QED  BY <1>2, Invariance, PTL DEF NeverReopened, Spec
================================================================================
