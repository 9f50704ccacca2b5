-------------------------- MODULE RequestedKeysProofs --------------------------
(***************************************************************************)
(* Keys that wait for approval, for any number of handlers, keys and       *)
(* requests: a requested key authenticates nothing before its request is   *)
(* approved, the workflow touches keys only as SecretKeys allows, and an   *)
(* undecided request keeps the name of its application.  For one handler   *)
(* at a time: a decision is final, and a rejected key never works.         *)
(***************************************************************************)
EXTENDS ApprovalsProofs

(* The handler's next writes may make the key work: it listed the key as    *)
(* active, read it as active in order to touch it, or is activating it.     *)
Holds(f, k) ==
    \/ \E t \in f.todo : t[1] = k
    \/ f.pc = "touch" /\ f.key = k
    \/ f.op = "activate" /\ f.key = k

(* The key does not work and nobody is about to make it work.               *)
Waiting(k) == keys[k] \notin ActiveStates /\ \A h \in Handlers : ~Holds(kf[h], k)

(* What a request, stored or about to be stored, says about its key.        *)
MetaOK(m) ==
    /\ m.action = "secret_key_create" => m.key \in Keys /\ owner[m.key] = m.app
    /\ m.action = "secret_key_delete" => m.key \in Keys

(* A handler that created a key and did not store its request yet.          *)
Claims(f) == f.pc = "persist" /\ f.meta.action = "secret_key_create"

RequestsOK ==
    /\ \A r \in Reqs : Requested(r) => MetaOK(issued[r])
    /\ \A r \in Reqs : KeyRequest(r) => Waiting(issued[r].key) \/ HasApproval(r)
    /\ \A r, q \in Reqs :
          KeyRequest(r) /\ KeyRequest(q) /\ issued[r].key = issued[q].key => r = q

ClaimsOK ==
    \A h \in Handlers :
        /\ rf[h].pc = "newkey" => rf[h].meta.action = "secret_key_create"
        /\ rf[h].pc = "persist" => MetaOK(rf[h].meta)
        /\ Claims(rf[h]) =>
              /\ Waiting(rf[h].meta.key)
              /\ \A r \in Reqs : KeyRequest(r) => issued[r].key # rf[h].meta.key
              /\ \A g \in Handlers : Claims(rf[g]) /\ rf[g].meta.key = rf[h].meta.key
                                        => g = h

(* Only an execution activates, the key of its request; every other handler *)
(* of the workflow holds no key.                                            *)
Running(h) ==
    /\ kf[h].op = "activate" =>
          /\ rf[h].pc = "activating" /\ KeyRequest(rf[h].req)
          /\ kf[h].key = issued[rf[h].req].key
    /\ kf[h].pc = "activate" => kf[h].op = "activate"
    /\ kf[h].op = "regenerate" => kf[h].app \in Apps
    /\ rf[h].pc \notin {"idle", "activating"} => KIdle(h)
    /\ KIdle(h) => kf[h] = NoFrame
    /\ rf[h].pc = "dropkey" => KeyRequest(rf[h].req)

(* An identifier that was never given out is in nobody's hands.              *)
FreshOK == \A k \in Keys : Fresh(k) => Waiting(k)

KInv == RequestsOK /\ ClaimsOK /\ FreshOK /\ \A h \in Handlers : Running(h)

NamedOK ==
    \A r \in Reqs : requests[r].status \in {"pending", "expired"} => requests[r].named

-----------------------------------------------------------------------------
(* Key steps *)

(* A key step leaves owners alone and, outside S, waiting keys waiting; the *)
(* keys of S are created.                                                   *)
Keeps(S) ==
    /\ \A k \in Keys : Created(k) => owner'[k] = owner[k]
    /\ \A k \in Keys \ S : Waiting(k) => Waiting(k)'
    /\ \A k \in S : Created(k)'

(* A step makes a key work, or takes it in hand, only if the key worked     *)
(* before or the handler had it in hand.                                    *)
LEMMA WaitingStays ==
    ASSUME NEW h \in Handlers, NEW S,
           \A g \in Handlers \ {h} : kf'[g] = kf[g],
           \A k \in Keys \ S : keys'[k] \in ActiveStates \/ Holds(kf'[h], k)
                                  => keys[k] \in ActiveStates \/ Holds(kf[h], k)
    PROVE  \A k \in Keys \ S : Waiting(k) => Waiting(k)'
<1> SUFFICES ASSUME NEW k \in Keys \ S, Waiting(k) PROVE Waiting(k)'
  OBVIOUS
<1>1. keys'[k] \notin ActiveStates /\ ~Holds(kf'[h], k)
  BY DEF Waiting
<1>2. ASSUME NEW g \in Handlers PROVE ~Holds(kf'[g], k)
  BY <1>1 DEF Waiting
<1> QED  BY <1>1, <1>2 DEF Waiting, Holds

(* A handler without frame holds nothing.                                   *)
LEMMA NoFrameHolds == \A k : ~Holds(NoFrame, k)
  BY DEF Holds, NoFrame

(* The end of a handler's work on keys.                                     *)
LEMMA FinishFacts ==
    ASSUME KTypeOK, NEW h \in Handlers, Finish(h)
    PROVE  kf'[h] = NoFrame /\ \A g \in Handlers \ {h} : kf'[g] = kf[g]
  BY DEF KTypeOK, Finish

(* Nothing about keys changes.                                              *)
LEMMA StutterKeeps == ASSUME UNCHANGED kvars PROVE Keeps({})
  BY DEF kvars, Keeps, Waiting, Created, Fresh, Holds

(* A row is deleted.                                                        *)
LEMMA DeleteKeeps ==
    ASSUME KTypeOK, NEW k, Delete(k), kf' = kf PROVE Keeps({})
<1>1. \A x \in Keys : keys'[x] \in ActiveStates => keys[x] \in ActiveStates
  BY DEF Delete, KTypeOK, ActiveStates
<1>2. \A x \in Keys : Waiting(x) => Waiting(x)'
  BY <1>1 DEF Waiting, Holds
<1> QED  BY <1>2 DEF Keeps, Delete

(* A key is created that nobody holds, or the handler ends with it.         *)
LEMMA CreateKeeps ==
    ASSUME KTypeOK, NEW h \in Handlers, NEW k \in Keys, NEW a \in Apps, NEW st,
           Create(k, a, st), kf' = kf \/ Finish(h)
    PROVE  Keeps({k}) /\ owner'[k] = a /\ keys'[k] = st
<1> USE DEF Create
<1>1. owner'[k] = a /\ keys'[k] = st /\ Created(k)'
  BY SecretKeysAssumption DEF KTypeOK, Created, Fresh
<1>2. \A x \in Keys : Created(x) => owner'[x] = owner[x]
  BY DEF KTypeOK, Created
<1>3. \A x \in Keys \ {k} : keys'[x] = keys[x]
  BY DEF KTypeOK
<1>4. \A g \in Handlers \ {h} : kf'[g] = kf[g]
  BY FinishFacts
<1>5. \A x : Holds(kf'[h], x) => Holds(kf[h], x)
  BY FinishFacts, NoFrameHolds
<1>6. \A x \in Keys \ {k} : Waiting(x) => Waiting(x)'
  BY <1>3, <1>4, <1>5, WaitingStays
<1> QED  BY <1>1, <1>2, <1>6 DEF Keeps

(* A key the handler has in hand is saved.                                  *)
LEMMA SaveKeeps ==
    ASSUME KTypeOK, NEW h \in Handlers, NEW k, NEW st, NEW loaded, Save(k, st, loaded),
           Holds(kf[h], k), \A x : Holds(kf'[h], x) => Holds(kf[h], x),
           \A g \in Handlers \ {h} : kf'[g] = kf[g]
    PROVE  Keeps({})
<1>1. \A x \in Keys \ {k} : keys'[x] = keys[x]
  BY DEF KTypeOK, Save
<1>2. \A x \in Keys \ {} : Waiting(x) => Waiting(x)'
  BY <1>1, WaitingStays
<1> QED  BY <1>2 DEF Keeps, Save

(* Deletion of an application with its keys.                                *)
LEMMA DeleteApplicationKeeps ==
    ASSUME KTypeOK, NEW h \in Handlers, NEW a, DeleteApplication(h, a) PROVE Keeps({})
<1>1. \A x \in Keys : keys'[x] \in ActiveStates => keys[x] \in ActiveStates
  BY DEF DeleteApplication, KTypeOK, ActiveStates
<1>2. \A x \in Keys : Waiting(x) => Waiting(x)'
  BY <1>1 DEF Waiting, Holds, DeleteApplication
<1> QED  BY <1>2 DEF Keeps, DeleteApplication

(* The listing of a rotation holds keys that work, and the key to activate. *)
LEMMA BeginRotationKeeps ==
    ASSUME KTypeOK, NEW h \in Handlers, NEW op, NEW a, NEW k, BeginRotation(h, op, a, k),
           NEW S, op = "activate" => k \in S, \A x \in S : Created(x)
    PROVE  /\ Keeps(S)
           /\ kf'[h].pc = "rotate" /\ kf'[h].op = op /\ kf'[h].key = k /\ kf'[h].app = a
           /\ \A g \in Handlers \ {h} : kf'[g] = kf[g]
<1> DEFINE todo == {<<x, keys[x]>> : x \in ActiveKeys(a)}
           b == a \in apps
           f == [NoFrame EXCEPT !.pc = "rotate", !.op = op, !.app = a, !.key = k,
                                !.loaded = b, !.todo = todo]
<1>1. kf' = [kf EXCEPT ![h] = f] /\ UNCHANGED <<keys, owner, apps>>
  BY DEF BeginRotation
<1>2. \A t \in todo : keys[t[1]] \in ActiveStates
  BY DEF ActiveKeys
<1> HIDE DEF todo, b
<1>3. f.pc = "rotate" /\ f.op = op /\ f.key = k /\ f.app = a /\ f.todo = todo
  BY DEF NoFrame
<1> HIDE DEF f
<1>4. kf'[h] = f /\ \A g \in Handlers \ {h} : kf'[g] = kf[g]
  BY <1>1 DEF KTypeOK
<1>5. \A x \in Keys \ S : Holds(f, x) => keys[x] \in ActiveStates
  BY <1>2, <1>3 DEF Holds
<1>6. \A x \in Keys \ S : Waiting(x) => Waiting(x)'
  BY <1>1, <1>4, <1>5, WaitingStays
<1>7. \A x \in S : Created(x)'
  BY <1>1 DEF Created, Fresh
<1>8. Keeps(S)
  BY <1>1, <1>6, <1>7 DEF Keeps
<1> QED  BY <1>3, <1>4, <1>8

(* A listed key is demoted or revoked.                                      *)
LEMMA RotateKeyKeeps ==
    ASSUME KTypeOK, NEW h \in Handlers, NEW t, RotateKey(h, t)
    PROVE  /\ Keeps({})
           /\ kf'[h].pc = kf[h].pc /\ kf'[h].op = kf[h].op
           /\ kf'[h].key = kf[h].key /\ kf'[h].app = kf[h].app
           /\ \A g \in Handlers \ {h} : kf'[g] = kf[g]
<1> USE DEF RotateKey
<1> DEFINE f == [kf[h] EXCEPT !.todo = kf[h].todo \ {t}]
<1>1. kf' = [kf EXCEPT ![h] = f] /\ kf[h] \in Frames
  BY DEF KTypeOK
<1>2. /\ f.pc = kf[h].pc /\ f.op = kf[h].op /\ f.key = kf[h].key
      /\ f.app = kf[h].app /\ f.todo = kf[h].todo \ {t}
  BY <1>1 DEF Frames
<1> HIDE DEF f
<1>3. kf'[h] = f /\ \A g \in Handlers \ {h} : kf'[g] = kf[g]
  BY <1>1 DEF KTypeOK
<1>4. \A x : Holds(f, x) => Holds(kf[h], x)
  BY <1>2 DEF Holds
<1>5. Holds(kf[h], t[1])
  BY DEF Holds
<1>6. CASE t[2] = "current"
  BY <1>2, <1>3, <1>4, <1>5, <1>6, SaveKeeps
<1>7. CASE t[2] # "current"
  <2>1. Delete(t[1])  BY <1>7
  <2>2. \A x \in Keys : keys'[x] \in ActiveStates => keys[x] \in ActiveStates
    BY <2>1 DEF Delete, KTypeOK, ActiveStates
  <2>3. \A x \in Keys \ {} : Waiting(x) => Waiting(x)'
    BY <1>3, <1>4, <2>2, WaitingStays
  <2>4. owner' = owner  BY <2>1 DEF Delete
  <2> QED  BY <1>2, <1>3, <2>3, <2>4 DEF Keeps
<1> QED  BY <1>6, <1>7

(* The lookup of the key to activate.                                       *)
LEMMA ActivateReadKeeps ==
    ASSUME KTypeOK, NEW h \in Handlers, ActivateRead(h)
    PROVE  /\ Keeps({})
           /\ kf'[h].pc = "activate" /\ kf'[h].op = kf[h].op /\ kf'[h].key = kf[h].key
           /\ \A g \in Handlers \ {h} : kf'[g] = kf[g]
<1> USE DEF ActivateRead
<1> DEFINE b == owner[kf[h].key] \in apps
           f == [kf[h] EXCEPT !.pc = "activate", !.loaded = b]
<1>1. kf' = [kf EXCEPT ![h] = f] /\ kf[h] \in Frames
  BY DEF KTypeOK
<1> HIDE DEF b
<1>2. /\ f.pc = "activate" /\ f.op = kf[h].op /\ f.key = kf[h].key
      /\ f.todo = kf[h].todo
  BY <1>1 DEF Frames
<1> HIDE DEF f
<1>3. kf'[h] = f /\ \A g \in Handlers \ {h} : kf'[g] = kf[g]
  BY <1>1 DEF KTypeOK
<1>4. \A x : Holds(f, x) => Holds(kf[h], x)
  BY <1>2 DEF Holds
<1>5. keys' = keys /\ owner' = owner
  OBVIOUS
<1>6. \A x \in Keys \ {} : Waiting(x) => Waiting(x)'
  BY <1>3, <1>4, <1>5, WaitingStays
<1> QED  BY <1>2, <1>3, <1>5, <1>6 DEF Keeps

(* Activation of the key in hand.                                           *)
LEMMA ActivateSaveKeeps ==
    ASSUME KTypeOK, NEW h \in Handlers, kf[h].op = "activate", ActivateSave(h)
    PROVE  Keeps({})
<1>1. Holds(kf[h], kf[h].key)  BY DEF Holds
<1> QED  BY <1>1, FinishFacts, NoFrameHolds, SaveKeeps DEF ActivateSave

(* A client presents a key that works.                                      *)
LEMMA ValidateReadKeeps ==
    ASSUME KTypeOK, NEW h \in Handlers, NEW k, ValidateRead(h, k)
    PROVE  /\ Keeps({})
           /\ kf'[h].pc = "touch" /\ kf'[h].op = "validate"
           /\ \A g \in Handlers \ {h} : kf'[g] = kf[g]
<1> USE DEF ValidateRead
<1> DEFINE b == owner[k] \in apps
           f == [NoFrame EXCEPT !.pc = "touch", !.op = "validate", !.key = k,
                                !.state = keys[k], !.loaded = b]
<1>1. kf' = [kf EXCEPT ![h] = f] /\ UNCHANGED <<keys, owner, apps>>
  OBVIOUS
<1> HIDE DEF b
<1>2. f.pc = "touch" /\ f.op = "validate" /\ f.key = k /\ f.todo = {}
  BY DEF NoFrame
<1> HIDE DEF f
<1>3. kf'[h] = f /\ \A g \in Handlers \ {h} : kf'[g] = kf[g]
  BY <1>1 DEF KTypeOK
<1>4. \A x : Holds(f, x) => keys[x] \in ActiveStates
  BY <1>2 DEF Holds
<1>5. \A x \in Keys \ {} : Waiting(x) => Waiting(x)'
  BY <1>1, <1>3, <1>4, WaitingStays
<1> QED  BY <1>1, <1>2, <1>3, <1>5 DEF Keeps

(* It is saved back.                                                        *)
LEMMA ValidateTouchKeeps ==
    ASSUME KTypeOK, NEW h \in Handlers, ValidateTouch(h) PROVE Keeps({})
<1>1. Holds(kf[h], kf[h].key)  BY DEF Holds, ValidateTouch
<1> QED  BY <1>1, FinishFacts, NoFrameHolds, SaveKeeps DEF ValidateTouch

(* A handler that gives up.                                                 *)
LEMMA FinishKeeps ==
    ASSUME KTypeOK, NEW h \in Handlers, Finish(h), UNCHANGED <<keys, owner, apps>>
    PROVE  Keeps({})
<1>1. kf'[h] = NoFrame /\ \A g \in Handlers \ {h} : kf'[g] = kf[g]
  BY FinishFacts
<1>2. \A x \in Keys \ {} : Waiting(x) => Waiting(x)'
  BY <1>1, NoFrameHolds, WaitingStays
<1> QED  BY <1>2 DEF Keeps

-----------------------------------------------------------------------------
(* Steps of the workflow *)

(* Only what was asked for can be a request for a key, and the key of such  *)
(* a request, or of one about to be stored, was created.                    *)
LEMMA RequestedKeyCreated ==
    ASSUME AInv, KInv
    PROVE  /\ \A r \in Reqs : KeyRequest(r) =>
                 Requested(r) /\ issued[r].key \in Keys /\ Created(issued[r].key)
           /\ \A h \in Handlers : Claims(rf[h]) =>
                 rf[h].meta.key \in Keys /\ Created(rf[h].meta.key)
<1>1. ASSUME NEW r \in Reqs, KeyRequest(r)
      PROVE  Requested(r) /\ issued[r].key \in Keys /\ Created(issued[r].key)
  <2>1. Requested(r)  BY <1>1 DEF KeyRequest, Requested, NoMeta
  <2>2. issued[r].app \in Apps  BY <2>1, RequestedTyped DEF AInv, Metas
  <2>3. issued[r].key \in Keys /\ owner[issued[r].key] = issued[r].app
    BY <1>1, <2>1 DEF KInv, RequestsOK, MetaOK, KeyRequest
  <2> QED  BY <2>1, <2>2, <2>3, SecretKeysAssumption DEF Created, Fresh
<1>2. ASSUME NEW h \in Handlers, Claims(rf[h])
      PROVE  rf[h].meta.key \in Keys /\ Created(rf[h].meta.key)
  <2>1. rf[h].meta.app \in Apps  BY <1>2 DEF AInv, FrameOK, Metas, Claims
  <2>2. rf[h].meta.key \in Keys /\ owner[rf[h].meta.key] = rf[h].meta.app
    BY <1>2 DEF KInv, ClaimsOK, MetaOK, Claims
  <2> QED  BY <2>1, <2>2, SecretKeysAssumption DEF Created, Fresh
<1> QED  BY <1>1, <1>2

(* What a request says about its key stays true.                            *)
LEMMA MetaStays ==
    ASSUME NEW S, Keeps(S), NEW m \in Metas, MetaOK(m) PROVE MetaOK(m)'
<1>1. ASSUME m.action = "secret_key_create" PROVE owner'[m.key] = m.app
  <2>1. m.key \in Keys /\ owner[m.key] = m.app /\ m.app \in Apps
    BY <1>1 DEF MetaOK, Metas
  <2> QED  BY <2>1, SecretKeysAssumption DEF Keeps, Created, Fresh
<1> QED  BY <1>1 DEF MetaOK

(* An identifier that is still fresh was fresh before.                      *)
LEMMA FreshStays ==
    ASSUME KInv, NEW S, Keeps(S) PROVE FreshOK'
<1> SUFFICES ASSUME NEW k \in Keys, Fresh(k)' PROVE Waiting(k)'
  BY DEF FreshOK
<1>1. Fresh(k) /\ k \notin S  BY DEF Keeps, Created, Fresh
<1> QED  BY <1>1 DEF KInv, FreshOK, Keeps

(* A handler that does not step.                                            *)
LEMMA RunningStays ==
    ASSUME AInv, KInv, Recorded, NEW g \in Handlers, rf'[g] = rf[g], kf'[g] = kf[g]
    PROVE  Running(g)'
<1>1. Running(g) /\ FrameOK(g)  BY DEF AInv, KInv
<1>2. rf[g].pc \in {"activating", "dropkey"} => issued'[rf[g].req] = issued[rf[g].req]
  BY <1>1 DEF FrameOK, Recorded
<1> QED  BY <1>1, <1>2 DEF Running, KIdle, KeyRequest

(* A step that neither opens a request nor creates its key.                 *)
LEMMA QuietKeys ==
    ASSUME AInv, KInv, NEW h \in Handlers, NEW S, Keeps(S),
           issued' = issued, appointed' = appointed,
           decisions \subseteq decisions',
           \A r \in Reqs : KeyRequest(r) /\ issued[r].key \in S => HasApproval(r),
           \A g \in Handlers : Claims(rf[g]) => rf[g].meta.key \notin S,
           \A g \in Handlers \ {h} : rf'[g] = rf[g] /\ kf'[g] = kf[g],
           rf'[h] = rf[h] \/ rf'[h].pc \notin {"newkey", "persist"},
           Running(h)'
    PROVE  KInv'
<1>0. Recorded
  BY DEF Recorded
<1>1. RequestsOK'
  <2>1. ASSUME NEW r \in Reqs, Requested(r)' PROVE MetaOK(issued[r])'
    <3>1. Requested(r)  BY <2>1 DEF Requested
    <3>2. issued[r] \in Metas /\ MetaOK(issued[r])
      BY <3>1, RequestedTyped DEF AInv, KInv, RequestsOK
    <3>3. \A m \in Metas : MetaOK(m) => MetaOK(m)'  BY MetaStays
    <3> QED  BY <3>2, <3>3 DEF MetaOK
  <2>2. ASSUME NEW r \in Reqs, KeyRequest(r)'
        PROVE  Waiting(issued[r].key)' \/ HasApproval(r)'
    <3>1. KeyRequest(r)  BY <2>2 DEF KeyRequest
    <3>2. Requested(r) /\ issued[r].key \in Keys  BY <3>1, RequestedKeyCreated
    <3>3. HasApproval(r) => HasApproval(r)'  BY <1>0, <3>2, ApprovalStays
    <3>4. Waiting(issued[r].key) \/ HasApproval(r)  BY <3>1 DEF KInv, RequestsOK
    <3>5. ASSUME ~HasApproval(r) PROVE Waiting(issued[r].key)'
      <4>1. issued[r].key \notin S /\ Waiting(issued[r].key)  BY <3>1, <3>4, <3>5
      <4>2. \A k \in Keys \ S : Waiting(k) => Waiting(k)'  BY DEF Keeps
      <4> QED  BY <3>2, <4>1, <4>2 DEF Waiting
    <3> QED  BY <3>3, <3>5
  <2>3. \A r, q \in Reqs : KeyRequest(r)' /\ KeyRequest(q)'
                              /\ issued'[r].key = issued'[q].key => r = q
    BY DEF KInv, RequestsOK, KeyRequest
  <2> QED  BY <2>1, <2>2, <2>3 DEF RequestsOK
<1>2. ClaimsOK'
  <2> SUFFICES ASSUME NEW g \in Handlers, rf'[g].pc \in {"newkey", "persist"}
               PROVE  /\ rf'[g].pc = "newkey" => rf'[g].meta.action = "secret_key_create"
                      /\ rf'[g].pc = "persist" => MetaOK(rf[g].meta)'
                      /\ Claims(rf[g])' =>
                            /\ Waiting(rf[g].meta.key)'
                            /\ \A r \in Reqs : KeyRequest(r)' => issued'[r].key # rf'[g].meta.key
                            /\ \A x \in Handlers :
                                  Claims(rf[x])' /\ rf'[x].meta.key = rf'[g].meta.key => x = g
    BY DEF ClaimsOK, Claims
  <2>1. rf'[g] = rf[g]
    OBVIOUS
  <2>2. rf[g].meta \in Metas  BY <2>1 DEF AInv, FrameOK
  <2>3. rf[g].pc = "persist" => MetaOK(rf[g].meta)'
    <3>1. rf[g].pc = "persist" => MetaOK(rf[g].meta)  BY DEF KInv, ClaimsOK
    <3>2. \A m \in Metas : MetaOK(m) => MetaOK(m)'  BY MetaStays
    <3> QED  BY <2>1, <2>2, <3>1, <3>2 DEF MetaOK
  <2>4. ASSUME Claims(rf[g]) PROVE Waiting(rf[g].meta.key)'
    <3>1. rf[g].meta.key \in Keys \ S  BY <2>4, RequestedKeyCreated
    <3>2. Waiting(rf[g].meta.key)  BY <2>4 DEF KInv, ClaimsOK
    <3>3. \A k \in Keys \ S : Waiting(k) => Waiting(k)'  BY DEF Keeps
    <3> QED  BY <2>1, <3>1, <3>2, <3>3 DEF Waiting
  <2>5. ASSUME NEW x \in Handlers, Claims(rf[x])' PROVE rf'[x] = rf[x] /\ Claims(rf[x])
    BY <2>5 DEF Claims
  <2> QED  BY <2>1, <2>3, <2>4, <2>5 DEF KInv, ClaimsOK, Claims, KeyRequest
<1>3. FreshOK'
  BY FreshStays
<1>4. \A g \in Handlers : Running(g)'
  BY <1>0, RunningStays
<1> QED  BY <1>1, <1>2, <1>3, <1>4 DEF KInv

(* A handler of the workflow that touches no key.                           *)
LEMMA QuietRunning ==
    ASSUME AInv, KInv, NEW h \in Handlers, rf[h].pc # "activating", KIdle(h), kf' = kf,
           rf'[h].pc = "dropkey" => KeyRequest(rf[h].req)'
    PROVE  Running(h)'
<1>1. kf[h] = NoFrame  BY DEF KInv, Running
<1> QED  BY <1>1 DEF Running, KIdle, NoFrame

(* A request is asked for; if for a key, the key comes next.                *)
LEMMA BeginRequestKeys ==
    ASSUME AInv, KInv, NEW h \in Handlers, NEW u \in Users, NEW t \in Teams,
           NEW act \in ActionTypes, NEW a \in Apps, NEW k \in Keys \cup {NoKey},
           BeginRequest(h, u, t, act, a, k)
    PROVE  KInv'
<1> USE DEF BeginRequest
<1> DEFINE meta == [requester |-> u, team |-> t, action |-> act,
                    app |-> a, key |-> k, expires |-> now + Lifetime]
           l == IF act = "secret_key_create" THEN "newkey" ELSE "persist"
           f == [NoReqFrame EXCEPT !.pc = l, !.op = "create", !.user = u, !.meta = meta]
<1>1. rf' = [rf EXCEPT ![h] = f]
  OBVIOUS
<1>2. /\ l = "newkey" => meta.action = "secret_key_create"
      /\ l = "persist" => meta.action # "secret_key_create"
      /\ meta.action = "secret_key_delete" => meta.key \in Keys
      /\ l \in {"newkey", "persist"}
  BY DEF RequestKey
<1> HIDE DEF meta, l
<1>3. f.pc = l /\ f.meta = meta
  BY DEF NoReqFrame
<1> HIDE DEF f
<1>4. rf'[h] = f /\ \A g \in Handlers \ {h} : rf'[g] = rf[g]
  BY <1>1 DEF AInv, TypeOK
<1>5. UNCHANGED <<kvars, issued, decisions>> /\ KIdle(h) /\ rf[h].pc = "idle"
  BY DEF Idle
<1>6. Recorded
  BY <1>5 DEF Recorded
<1>7. /\ \A x : Waiting(x)' = Waiting(x)
      /\ \A m : MetaOK(m)' = MetaOK(m)
      /\ \A r : KeyRequest(r)' = KeyRequest(r) /\ Requested(r)' = Requested(r)
      /\ \A r : HasApproval(r)' = HasApproval(r)
  BY <1>5 DEF Waiting, MetaOK, KeyRequest, Requested, HasApproval, Approval, kvars
<1>8. RequestsOK'
  BY <1>5, <1>7 DEF KInv, RequestsOK
<1>9. ~Claims(rf[h])'
  BY <1>2, <1>3, <1>4 DEF Claims
<1>10. ClaimsOK'
  <2>1. ASSUME NEW g \in Handlers \ {h}
        PROVE  /\ Claims(rf[g])' = Claims(rf[g])
               /\ MetaOK(rf[g].meta)' = MetaOK(rf[g].meta)
               /\ Waiting(rf[g].meta.key)' = Waiting(rf[g].meta.key)
    BY <1>4, <1>5 DEF Claims, MetaOK, Waiting, kvars
  <2>2. rf'[h].pc = "persist" => MetaOK(rf[h].meta)'
    BY <1>2, <1>3, <1>4 DEF MetaOK
  <2>3. rf'[h].pc = "newkey" => rf'[h].meta.action = "secret_key_create"
    BY <1>2, <1>3, <1>4
  <2> SUFFICES ASSUME NEW g \in Handlers \ {h}
               PROVE  /\ rf'[g].pc = "newkey" => rf'[g].meta.action = "secret_key_create"
                      /\ rf'[g].pc = "persist" => MetaOK(rf[g].meta)'
                      /\ Claims(rf[g])' =>
                            /\ Waiting(rf[g].meta.key)'
                            /\ \A r \in Reqs : KeyRequest(r)' => issued'[r].key # rf'[g].meta.key
                            /\ \A x \in Handlers :
                                  Claims(rf[x])' /\ rf'[x].meta.key = rf'[g].meta.key => x = g
    BY <1>9, <2>2, <2>3 DEF ClaimsOK
  <2>4. /\ rf[g].pc = "newkey" => rf[g].meta.action = "secret_key_create"
        /\ rf[g].pc = "persist" => MetaOK(rf[g].meta)
        /\ Claims(rf[g]) =>
              /\ Waiting(rf[g].meta.key)
              /\ \A r \in Reqs : KeyRequest(r) => issued[r].key # rf[g].meta.key
              /\ \A x \in Handlers :
                    Claims(rf[x]) /\ rf[x].meta.key = rf[g].meta.key => x = g
    BY DEF KInv, ClaimsOK
  <2> QED  BY <1>4, <1>5, <1>7, <1>9, <2>1, <2>4
<1>11. FreshOK'
  BY <1>5, <1>7 DEF KInv, FreshOK, Fresh, kvars
<1>12. Running(h)'
  BY <1>2, <1>3, <1>4, <1>5, QuietRunning DEF kvars
<1>13. \A g \in Handlers : Running(g)'
  BY <1>4, <1>5, <1>6, <1>12, RunningStays DEF kvars
<1> QED  BY <1>8, <1>10, <1>11, <1>13 DEF KInv

(* The key of a request is created under a fresh identifier: it waits, and  *)
(* no other request has it.                                                 *)
LEMMA CreateRequestedKeyKeys ==
    ASSUME AInv, KInv, NEW h \in Handlers, NEW k \in Keys, CreateRequestedKey(h, k)
    PROVE  KInv'
<1> USE DEF CreateRequestedKey, CreatePendingSecretKey
<1> DEFINE meta == [rf[h].meta EXCEPT !.key = k, !.expires = now + Lifetime]
           f == [rf[h] EXCEPT !.pc = "persist", !.meta = meta]
<1>0. KTypeOK /\ rf[h] \in ReqFrames /\ rf[h].meta \in Metas
  BY DEF AInv, TypeOK, FrameOK
<1>1. rf' = [rf EXCEPT ![h] = f]
  BY <1>0 DEF AInv, TypeOK, ReqFrames, Metas
<1>2. meta.action = "secret_key_create" /\ meta.key = k /\ meta.app = rf[h].meta.app
  BY <1>0 DEF KInv, ClaimsOK, Metas
<1> HIDE DEF meta
<1>3. f.pc = "persist" /\ f.meta = meta
  BY <1>0 DEF ReqFrames
<1> HIDE DEF f
<1>4. rf'[h] = f /\ \A g \in Handlers \ {h} : rf'[g] = rf[g]
  BY <1>1 DEF AInv, TypeOK
<1>5. Fresh(k) /\ Create(k, rf[h].meta.app, "pending") /\ kf' = kf /\ KIdle(h)
  BY DEF Create
<1>6. Keeps({k}) /\ owner'[k] = rf[h].meta.app /\ keys'[k] = "pending"
  <2>1. rf[h].meta.app \in Apps  BY <1>0 DEF Metas
  <2> QED  BY <1>0, <1>5, <2>1, CreateKeeps
<1>7. Waiting(k)'
  <2>1. \A g \in Handlers : ~Holds(kf[g], k)  BY <1>5 DEF KInv, FreshOK, Waiting
  <2> QED  BY <1>5, <1>6, <2>1 DEF Waiting, ActiveStates, Holds
<1>8. Recorded /\ issued' = issued /\ decisions' = decisions
  BY DEF Recorded
<1>9. /\ \A r \in Reqs : KeyRequest(r) => issued[r].key \in Keys \ {k}
      /\ \A g \in Handlers : Claims(rf[g]) => rf[g].meta.key \in Keys \ {k}
  BY <1>5, RequestedKeyCreated DEF Created
<1>10. /\ \A r : KeyRequest(r)' = KeyRequest(r) /\ Requested(r)' = Requested(r)
       /\ \A r : HasApproval(r)' = HasApproval(r)
  BY <1>8 DEF KeyRequest, Requested, HasApproval, Approval
<1>11. \A m \in Metas : MetaOK(m) => MetaOK(m)'
  BY <1>6, MetaStays
<1>12. \A x \in Keys \ {k} : Waiting(x) => Waiting(x)'
  BY <1>6 DEF Keeps
<1>13. RequestsOK'
  <2>1. ASSUME NEW r \in Reqs, Requested(r) PROVE MetaOK(issued[r])'
    <3>1. issued[r] \in Metas /\ MetaOK(issued[r])
      BY <2>1, RequestedTyped DEF AInv, KInv, RequestsOK
    <3> QED  BY <1>8, <1>11, <3>1 DEF MetaOK
  <2>2. ASSUME NEW r \in Reqs, KeyRequest(r), ~HasApproval(r)
        PROVE  Waiting(issued[r].key)'
    <3>1. Waiting(issued[r].key)  BY <2>2 DEF KInv, RequestsOK
    <3> QED  BY <1>8, <1>9, <1>12, <2>2, <3>1 DEF Waiting
  <2>3. \A r, q \in Reqs : KeyRequest(r) /\ KeyRequest(q)
                              /\ issued[r].key = issued[q].key => r = q
    BY DEF KInv, RequestsOK
  <2> QED  BY <1>8, <1>10, <2>1, <2>2, <2>3 DEF RequestsOK
<1>14. ClaimsOK'
  <2>1. ASSUME NEW g \in Handlers \ {h}
        PROVE  /\ Claims(rf[g])' = Claims(rf[g])
               /\ rf[g].pc = "persist" => MetaOK(rf[g].meta)'
               /\ Claims(rf[g]) => Waiting(rf[g].meta.key)'
    <3>1. Claims(rf[g])' = Claims(rf[g])  BY <1>4 DEF Claims
    <3>2. ASSUME rf[g].pc = "persist" PROVE MetaOK(rf[g].meta)'
      <4>1. rf[g].meta \in Metas /\ MetaOK(rf[g].meta)
        BY <3>2 DEF AInv, FrameOK, KInv, ClaimsOK
      <4> QED  BY <1>4, <1>11, <4>1 DEF MetaOK
    <3>3. ASSUME Claims(rf[g]) PROVE Waiting(rf[g].meta.key)'
      <4>1. Waiting(rf[g].meta.key)  BY <3>3 DEF KInv, ClaimsOK
      <4> QED  BY <1>4, <1>9, <1>12, <3>3, <4>1 DEF Waiting
    <3> QED  BY <3>1, <3>2, <3>3
  <2>2. MetaOK(rf[h].meta)' /\ Waiting(rf[h].meta.key)' /\ Claims(rf[h])'
    BY <1>2, <1>3, <1>4, <1>6, <1>7 DEF MetaOK, Claims, Waiting
  <2>3. rf'[h].pc = "persist" /\ rf'[h].meta.key = k
    BY <1>2, <1>3, <1>4
  <2> SUFFICES ASSUME NEW g \in Handlers
               PROVE  /\ rf'[g].pc = "newkey" => rf'[g].meta.action = "secret_key_create"
                      /\ rf'[g].pc = "persist" => MetaOK(rf[g].meta)'
                      /\ Claims(rf[g])' =>
                            /\ Waiting(rf[g].meta.key)'
                            /\ \A r \in Reqs : KeyRequest(r)' => issued'[r].key # rf'[g].meta.key
                            /\ \A x \in Handlers :
                                  Claims(rf[x])' /\ rf'[x].meta.key = rf'[g].meta.key => x = g
    BY DEF ClaimsOK
  <2>4. CASE g = h
    BY <1>4, <1>8, <1>9, <1>10, <2>1, <2>2, <2>3, <2>4
  <2>5. CASE g # h
    <3>1. /\ rf[g].pc = "newkey" => rf[g].meta.action = "secret_key_create"
          /\ Claims(rf[g]) =>
                /\ \A r \in Reqs : KeyRequest(r) => issued[r].key # rf[g].meta.key
                /\ \A x \in Handlers :
                      Claims(rf[x]) /\ rf[x].meta.key = rf[g].meta.key => x = g
      BY DEF KInv, ClaimsOK
    <3>2. rf'[g] = rf[g]  BY <1>4, <2>5
    <3> QED  BY <1>4, <1>8, <1>9, <1>10, <2>1, <2>3, <2>5, <3>1, <3>2
  <2> QED  BY <2>4, <2>5
<1>15. FreshOK'
  BY <1>6, FreshStays
<1>16. Running(h)'
  BY <1>3, <1>4, <1>5, QuietRunning
<1>17. \A g \in Handlers : Running(g)'
  BY <1>4, <1>5, <1>8, <1>16, RunningStays
<1> QED  BY <1>13, <1>14, <1>15, <1>17 DEF KInv

(* The request is stored: it takes over the key of the handler.             *)
LEMMA PersistRequestKeys ==
    ASSUME AInv, KInv, NEW h \in Handlers, NEW r \in Reqs, PersistRequest(h, r)
    PROVE  KInv'
<1> USE DEF PersistRequest
<1> DEFINE m == rf[h].meta
<1>1. /\ issued' = [issued EXCEPT ![r] = m] /\ m \in Metas /\ MetaOK(m)
      /\ issued[r] = NoMeta
  BY DEF AInv, FrameOK, KInv, ClaimsOK, Requested
<1>2. UNCHANGED <<kvars, decisions>> /\ Recorded
  BY <1>1 DEF Recorded, AInv, TypeOK, Requested
<1>3. issued'[r] = m /\ \A x \in Reqs \ {r} : issued'[x] = issued[x]
  BY <1>1 DEF AInv, TypeOK
<1>4. rf'[h] = NoReqFrame /\ \A g \in Handlers \ {h} : rf'[g] = rf[g]
  BY DEF AInv, TypeOK, End
<1>5. KIdle(h) /\ ~KeyRequest(r) /\ NoReqFrame.pc = "idle"
  BY <1>1 DEF KInv, Running, KeyRequest, NoMeta, NoReqFrame
<1>6. m.action = "secret_key_create" => Claims(rf[h])
  BY DEF Claims
<1>7. \A x \in Reqs \ {r} : KeyRequest(x)' = KeyRequest(x)
  BY <1>3 DEF KeyRequest
<1>8. KeyRequest(r)' => Claims(rf[h])
  BY <1>3, <1>6 DEF KeyRequest
<1>9. \A x \in Reqs : KeyRequest(x) => (HasApproval(x) => HasApproval(x)')
  BY <1>2, ApprovalStays, RequestedKeyCreated
<1> HIDE DEF m
<1>10. RequestsOK'
  <2>1. ASSUME NEW x \in Reqs, Requested(x)' PROVE MetaOK(issued[x])'
    <3>1. CASE x = r
      BY <1>1, <1>2, <1>3, <3>1 DEF MetaOK, kvars
    <3>2. CASE x # r
      <4>1. issued'[x] = issued[x] /\ Requested(x)  BY <1>3, <2>1, <3>2 DEF Requested
      <4>2. MetaOK(issued[x])  BY <4>1 DEF KInv, RequestsOK
      <4> QED  BY <1>2, <4>1, <4>2 DEF MetaOK, kvars
    <3> QED  BY <3>1, <3>2
  <2>2. ASSUME NEW x \in Reqs, KeyRequest(x)'
        PROVE  Waiting(issued[x].key)' \/ HasApproval(x)'
    <3>1. CASE x = r
      <4>1. Waiting(m.key)  BY <1>8, <2>2, <3>1 DEF KInv, ClaimsOK, m
      <4> QED  BY <1>2, <1>3, <3>1, <4>1 DEF Waiting, kvars
    <3>2. CASE x # r
      <4>1. KeyRequest(x) /\ issued'[x] = issued[x]  BY <1>3, <1>7, <2>2, <3>2
      <4>2. Waiting(issued[x].key) \/ HasApproval(x)  BY <4>1 DEF KInv, RequestsOK
      <4>3. Waiting(issued[x].key) => Waiting(issued[x].key)'
        BY <1>2, <4>1 DEF Waiting, kvars
      <4> QED  BY <1>9, <4>1, <4>2, <4>3
    <3> QED  BY <3>1, <3>2
  <2>3. ASSUME NEW x \in Reqs, NEW q \in Reqs, KeyRequest(x)', KeyRequest(q)',
               issued'[x].key = issued'[q].key
        PROVE  x = q
    <3>1. \A y \in Reqs : KeyRequest(r)' /\ KeyRequest(y) => issued[y].key # m.key
      BY <1>8 DEF KInv, ClaimsOK, m
    <3>2. \A y, z \in Reqs : KeyRequest(y) /\ KeyRequest(z)
                                /\ issued[y].key = issued[z].key => y = z
      BY DEF KInv, RequestsOK
    <3> QED  BY <1>3, <1>7, <2>3, <3>1, <3>2
  <2> QED  BY <2>1, <2>2, <2>3 DEF RequestsOK
<1>11. ClaimsOK'
  <2>1. ~Claims(rf[h])' /\ rf'[h].pc = "idle"  BY <1>4, <1>5 DEF Claims
  <2> SUFFICES ASSUME NEW g \in Handlers \ {h}
               PROVE  /\ rf'[g].pc = "newkey" => rf'[g].meta.action = "secret_key_create"
                      /\ rf'[g].pc = "persist" => MetaOK(rf[g].meta)'
                      /\ Claims(rf[g])' =>
                            /\ Waiting(rf[g].meta.key)'
                            /\ \A x \in Reqs : KeyRequest(x)' => issued'[x].key # rf'[g].meta.key
                            /\ \A x \in Handlers :
                                  Claims(rf[x])' /\ rf'[x].meta.key = rf'[g].meta.key => x = g
    BY <2>1 DEF ClaimsOK
  <2>2. /\ rf[g].pc = "newkey" => rf[g].meta.action = "secret_key_create"
        /\ rf[g].pc = "persist" => MetaOK(rf[g].meta)
        /\ Claims(rf[g]) =>
              /\ Waiting(rf[g].meta.key)
              /\ \A x \in Reqs : KeyRequest(x) => issued[x].key # rf[g].meta.key
              /\ \A x \in Handlers :
                    Claims(rf[x]) /\ rf[x].meta.key = rf[g].meta.key => x = g
    BY DEF KInv, ClaimsOK
  <2>3. ASSUME NEW x \in Handlers \ {h} PROVE Claims(rf[x])' = Claims(rf[x])
    BY <1>4 DEF Claims
  <2>4. /\ MetaOK(rf[g].meta)' = MetaOK(rf[g].meta)
        /\ Waiting(rf[g].meta.key)' = Waiting(rf[g].meta.key)
    BY <1>2, <1>4 DEF MetaOK, Waiting, kvars
  <2>5. ASSUME Claims(rf[g]), KeyRequest(r)' PROVE m.key # rf[g].meta.key
    BY <1>8, <2>2, <2>5 DEF m
  <2> QED  BY <1>3, <1>4, <1>7, <2>1, <2>2, <2>3, <2>4, <2>5
<1>12. FreshOK'
  BY <1>2, StutterKeeps, FreshStays
<1>13. Running(h)'
  BY <1>2, <1>4, <1>5, QuietRunning DEF kvars
<1>14. \A g \in Handlers : Running(g)'
  BY <1>2, <1>4, <1>13, RunningStays DEF kvars
<1> QED  BY <1>10, <1>11, <1>12, <1>14 DEF KInv

(* Steps of a handler on the tables of the workflow only.                   *)
LEMMA TableStepKeys ==
    ASSUME AInv, KInv, NEW h \in Handlers, rf[h].pc # "activating", KIdle(h),
           UNCHANGED kvars, issued' = issued, appointed' = appointed,
           decisions \subseteq decisions',
           \A g \in Handlers \ {h} : rf'[g] = rf[g],
           rf'[h].pc \notin {"newkey", "persist"},
           rf'[h].pc = "dropkey" => KeyRequest(rf[h].req)'
    PROVE  KInv'
<1>1. Keeps({}) /\ kf' = kf
  BY StutterKeeps DEF kvars
<1>2. Running(h)'
  BY <1>1, QuietRunning
<1> QED  BY <1>1, <1>2, QuietKeys

(* The key of a rejected or withdrawn request is deleted.                   *)
LEMMA DropKeyKeys ==
    ASSUME AInv, KInv, NEW h \in Handlers, rf[h].pc # "activating", KIdle(h), NEW k,
           Delete(k), kf' = kf, UNCHANGED <<issued, decisions, appointed>>,
           \A g \in Handlers \ {h} : rf'[g] = rf[g],
           rf'[h].pc \notin {"newkey", "persist", "dropkey"}
    PROVE  KInv'
<1>1. Keeps({})
  BY DeleteKeeps DEF AInv, TypeOK
<1>2. Running(h)'
  BY QuietRunning
<1> QED  BY <1>1, <1>2, QuietKeys

(* The end of a request.                                                    *)
LEMMA EndIdle ==
    ASSUME AInv, NEW h \in Handlers, End(h)
    PROVE  rf'[h].pc = "idle" /\ \A g \in Handlers \ {h} : rf'[g] = rf[g]
  BY DEF AInv, TypeOK, End, NoReqFrame

(* A handler that moves on.                                                 *)
LEMMA MoveFacts ==
    ASSUME AInv, NEW h \in Handlers, NEW l, rf' = [rf EXCEPT ![h].pc = l]
    PROVE  /\ rf'[h].pc = l /\ rf'[h].req = rf[h].req
           /\ \A g \in Handlers \ {h} : rf'[g] = rf[g]
<1> DEFINE f == [rf[h] EXCEPT !.pc = l]
<1>1. rf' = [rf EXCEPT ![h] = f] /\ rf[h] \in ReqFrames  BY DEF AInv, TypeOK
<1>2. f.pc = l /\ f.req = rf[h].req  BY <1>1 DEF ReqFrames
<1> HIDE DEF f
<1> QED  BY <1>1, <1>2 DEF AInv, TypeOK

(* A handler of the workflow is idle as far as keys are concerned.          *)
LEMMA WorkflowIdle ==
    ASSUME KInv, NEW h \in Handlers, rf[h].pc \notin {"idle", "activating"}
    PROVE  KIdle(h)
  BY DEF KInv, Running

(* Reading, checking and saving decisions.                                  *)
LEMMA DecideKeys ==
    ASSUME AInv, KInv, NEW h \in Handlers,
           \/ \E op \in {"approve", "reject", "withdraw", "execute"},
                 u \in Users, r \in Reqs : ReadRequest(h, op, u, r)
           \/ CheckDecision(h) \/ SaveDecision(h)
           \/ DeleteRequest(h) \/ CheckExecute(h)
    PROVE  KInv'
<1>1. ASSUME NEW op \in {"approve", "reject", "withdraw", "execute"},
             NEW u \in Users, NEW r \in Reqs, ReadRequest(h, op, u, r)
      PROVE  KInv'
  <2> USE <1>1 DEF ReadRequest
  <2>1. rf'[h].pc = "read" /\ \A g \in Handlers \ {h} : rf'[g] = rf[g]
    BY DEF AInv, TypeOK, NoReqFrame
  <2>2. KIdle(h) /\ rf[h].pc = "idle"  BY DEF Idle
  <2> QED  BY <2>1, <2>2, TableStepKeys
<1>2. CASE CheckDecision(h)
  <2> USE <1>2 DEF CheckDecision
  <2>1. rf'[h].pc = "save" /\ \A g \in Handlers \ {h} : rf'[g] = rf[g]
    <3>1. rf[h] \in ReqFrames  BY DEF AInv, TypeOK
    <3>2. PICK row : rf' = [rf EXCEPT ![h] = [rf[h] EXCEPT !.pc = "save", !.row = row]]
      BY DEF AInv, TypeOK
    <3>3. [rf[h] EXCEPT !.pc = "save", !.row = row].pc = "save"  BY <3>1 DEF ReqFrames
    <3> QED  BY <3>2, <3>3 DEF AInv, TypeOK
  <2>2. KIdle(h)  BY WorkflowIdle
  <2> QED  BY <2>1, <2>2, TableStepKeys
<1>3. CASE SaveDecision(h)
  <2> USE <1>3 DEF SaveDecision
  <2>1. KIdle(h) /\ UNCHANGED kvars /\ issued' = issued /\ decisions \subseteq decisions'
    BY WorkflowIdle
  <2>2. CASE rf[h].op = "reject" /\ KeyRequest(rf[h].req)
    <3>1. /\ rf'[h].pc = "dropkey" /\ rf'[h].req = rf[h].req
          /\ \A g \in Handlers \ {h} : rf'[g] = rf[g]
      BY <2>2, MoveFacts
    <3>2. KeyRequest(rf[h].req)'  BY <2>1, <2>2, <3>1 DEF KeyRequest
    <3> QED  BY <2>1, <3>1, <3>2, TableStepKeys
  <2>3. CASE ~(rf[h].op = "reject" /\ KeyRequest(rf[h].req))
    BY <2>1, <2>3, EndIdle, TableStepKeys
  <2> QED  BY <2>2, <2>3
<1>4. CASE DeleteRequest(h)
  <2> USE <1>4 DEF DeleteRequest, MayWithdraw
  <2>1. KIdle(h)  BY WorkflowIdle
  <2> QED  BY <2>1, EndIdle, TableStepKeys
<1>5. CASE CheckExecute(h)
  <2> USE <1>5 DEF CheckExecute
  <2>1. KIdle(h)  BY WorkflowIdle
  <2> QED  BY <2>1, MoveFacts, TableStepKeys
<1> QED  BY <1>1, <1>2, <1>3, <1>4, <1>5

(* Rejection and withdrawal delete the key.                                 *)
LEMMA DropKeys ==
    ASSUME AInv, KInv, NEW h \in Handlers, DropRejectedKey(h) \/ DropWithdrawnKey(h)
    PROVE  KInv'
<1>1. CASE DropRejectedKey(h)
  BY <1>1, WorkflowIdle, EndIdle, DropKeyKeys DEF DropRejectedKey
<1>2. CASE DropWithdrawnKey(h)
  BY <1>2, WorkflowIdle, MoveFacts, DropKeyKeys DEF DropWithdrawnKey, MayWithdraw
<1> QED  BY <1>1, <1>2

(* A step of an execution, or of root or a client, on keys already in hand. *)
LEMMA KeyStepKeys ==
    ASSUME AInv, KInv, NEW h \in Handlers, Keeps({}), UNCHANGED rvars,
           \A g \in Handlers \ {h} : kf'[g] = kf[g],
           /\ ~KIdle(h)' \/ kf'[h] = NoFrame
           /\ kf'[h].op = "activate" => kf[h].op = "activate" /\ kf'[h].key = kf[h].key
           /\ kf'[h].pc = "activate" => kf'[h].op = "activate"
           /\ kf'[h].op = "regenerate" => kf'[h].app \in Apps
           /\ rf[h].pc \in {"idle", "activating"}
    PROVE  KInv'
<1>1. Running(h)'
  <2>1. Running(h)  BY DEF KInv
  <2> QED  BY <2>1 DEF Running, rvars, KeyRequest
<1>2. KInv'
  <2>1. /\ issued' = issued /\ decisions \subseteq decisions' /\ rf' = rf
        /\ appointed' = appointed
    BY DEF rvars
  <2> QED  BY <1>1, <2>1, QuietKeys
<1> QED  BY <1>2

(* Execution in one step.                                                   *)
LEMMA ExecuteInOneStepKeys ==
    ASSUME AInv, KInv, NEW h \in Handlers, ExecuteInOneStep(h) PROVE KInv'
<1> USE DEF ExecuteInOneStep
<1>0. KTypeOK /\ KIdle(h)
  BY WorkflowIdle DEF AInv, TypeOK
<1>1. Keeps({}) /\ kf' = kf
  <2>1. CASE RevokeSecretKey(h, issued[rf[h].req].key)
    BY <1>0, <2>1, DeleteKeeps DEF RevokeSecretKey
  <2>2. CASE DeleteApplication(h, issued[rf[h].req].app)
    <3>1. Keeps({})  BY <1>0, <2>2, DeleteApplicationKeeps
    <3> QED  BY <2>2, <3>1 DEF DeleteApplication
  <2>3. CASE UNCHANGED kvars
    BY <2>3, StutterKeeps DEF kvars
  <2> QED  BY <2>1, <2>2, <2>3
<1>2. rf'[h].pc = "idle" /\ \A g \in Handlers \ {h} : rf'[g] = rf[g]
  BY EndIdle
<1>3. Running(h)'
  BY <1>0, <1>1, <1>2, QuietRunning
<1>4. issued' = issued /\ decisions \subseteq decisions'
  OBVIOUS
<1> QED  BY <1>1, <1>2, <1>3, <1>4, QuietKeys

(* Execution of a request for a key takes that key in hand, and no other    *)
(* request has it.                                                          *)
LEMMA ExecuteKeyCreateKeys ==
    ASSUME AInv, KInv, NEW h \in Handlers, ExecuteKeyCreate(h) PROVE KInv'
<1> USE DEF ExecuteKeyCreate
<1>0. PICK q \in Reqs : q = rf[h].req /\ HasApproval(q)
  BY DEF AInv, FrameOK
<1>1. PICK k : k = issued[q].key
  OBVIOUS
<1>2. KeyRequest(q)
  BY <1>0 DEF KeyRequest
<1>3. k \in Keys /\ Created(k) /\ KTypeOK
  BY <1>1, <1>2, RequestedKeyCreated DEF AInv, TypeOK
<1>4. issued' = issued /\ decisions \subseteq decisions'
  OBVIOUS
<1>5. /\ rf'[h].pc = "activating" /\ rf'[h].req = q
      /\ \A g \in Handlers \ {h} : rf'[g] = rf[g]
  BY <1>0, MoveFacts
<1>6. /\ Keeps({k})
      /\ kf'[h].pc = "rotate" /\ kf'[h].op = "activate" /\ kf'[h].key = k
      /\ \A g \in Handlers \ {h} : kf'[g] = kf[g]
  <2>1. PICK a : BeginRotation(h, "activate", a, k)
    BY <1>0, <1>1 DEF BeginActivate
  <2> QED  BY <1>3, <2>1, BeginRotationKeeps
<1>7. Running(h)'
  BY <1>1, <1>2, <1>4, <1>5, <1>6 DEF Running, KIdle, KeyRequest
<1>8. /\ \A r \in Reqs : KeyRequest(r) /\ issued[r].key \in {k} => HasApproval(r)
      /\ \A g \in Handlers : Claims(rf[g]) => rf[g].meta.key \notin {k}
  BY <1>0, <1>1, <1>2 DEF KInv, RequestsOK, ClaimsOK
<1> QED  BY <1>4, <1>5, <1>6, <1>7, <1>8, QuietKeys

(* Rotation and lookup during an execution.                                 *)
LEMMA ExecuteRotateKeys ==
    ASSUME AInv, KInv, NEW h \in Handlers,
           \/ rf[h].pc = "activating" /\ \E t \in kf[h].todo : ExecuteRotateKey(h, t)
           \/ ExecuteActivateRead(h)
    PROVE  KInv'
<1>0. KTypeOK
  BY DEF AInv, TypeOK
<1>1. ASSUME rf[h].pc = "activating", NEW t, ExecuteRotateKey(h, t) PROVE KInv'
  <2> USE <1>1 DEF ExecuteRotateKey
  <2>1. /\ Keeps({})
        /\ kf'[h].pc = kf[h].pc /\ kf'[h].op = kf[h].op
        /\ kf'[h].key = kf[h].key /\ kf'[h].app = kf[h].app
        /\ \A g \in Handlers \ {h} : kf'[g] = kf[g]
    BY <1>0, RotateKeyKeeps
  <2>2. kf[h].pc = "rotate" /\ (kf[h].op = "regenerate" => kf[h].app \in Apps)
    BY DEF RotateKey, KInv, Running
  <2> QED  BY <2>1, <2>2, KeyStepKeys DEF KIdle
<1>2. CASE ExecuteActivateRead(h)
  <2> USE <1>2 DEF ExecuteActivateRead
  <2>1. /\ Keeps({})
        /\ kf'[h].pc = "activate" /\ kf'[h].op = kf[h].op /\ kf'[h].key = kf[h].key
        /\ \A g \in Handlers \ {h} : kf'[g] = kf[g]
    BY <1>0, ActivateReadKeeps
  <2>2. rf[h].pc = "activating" /\ kf[h].op = "activate"
    BY DEF ActivateRead, KInv, Running
  <2> QED  BY <2>1, <2>2, KeyStepKeys DEF KIdle
<1> QED  BY <1>1, <1>2

(* An execution or a failure ends with the key in hand saved or let go.     *)
LEMMA EndKeys ==
    ASSUME AInv, KInv, NEW h \in Handlers, Keeps({}), Finish(h), End(h),
           UNCHANGED <<issued, decisions, appointed>>
    PROVE  KInv'
<1>1. kf'[h] = NoFrame /\ \A g \in Handlers \ {h} : kf'[g] = kf[g]
  BY FinishFacts DEF AInv, TypeOK
<1>2. rf'[h].pc = "idle" /\ \A g \in Handlers \ {h} : rf'[g] = rf[g]
  BY EndIdle
<1>3. Running(h)'
  BY <1>1, <1>2 DEF Running, KIdle, NoFrame
<1> QED  BY <1>1, <1>2, <1>3, QuietKeys

(* The end of an execution.                                                 *)
LEMMA ExecuteActivateSaveKeys ==
    ASSUME AInv, KInv, NEW h \in Handlers, ExecuteActivateSave(h) \/ Fail(h)
    PROVE  KInv'
<1>0. KTypeOK
  BY DEF AInv, TypeOK
<1>1. CASE ExecuteActivateSave(h)
  <2>1. kf[h].op = "activate"  BY <1>1 DEF KInv, Running, ExecuteActivateSave, ActivateSave
  <2>2. Keeps({})  BY <1>0, <1>1, <2>1, ActivateSaveKeeps DEF ExecuteActivateSave
  <2> QED  BY <1>1, <2>2, EndKeys DEF ExecuteActivateSave, ActivateSave
<1>2. CASE Fail(h)
  <2>1. Keeps({})  BY <1>0, <1>2, FinishKeeps DEF Fail
  <2> QED  BY <1>2, <2>1, EndKeys DEF Fail
<1> QED  BY <1>1, <1>2

(* Root's own changes and the clients' use of keys take in hand only keys   *)
(* that work.                                                               *)
LEMMA DirectKeyStepKeys ==
    ASSUME AInv, KInv, NEW h \in Handlers, DirectKeyStep(h) PROVE KInv'
<1>0. KTypeOK /\ rf[h].pc = "idle" /\ UNCHANGED rvars /\ kf[h].op # "activate"
      /\ (KIdle(h) => kf[h] = NoFrame)
  BY DEF AInv, TypeOK, DirectKeyStep, KInv, Running
<1>8. NoFrame.op = "none" /\ NoFrame.pc = "idle"
  BY DEF NoFrame
<1>1. ASSUME NEW k \in Keys, RevokeSecretKey(h, k) PROVE KInv'
  <2> USE <1>1 DEF RevokeSecretKey
  <2>1. Keeps({})  BY <1>0, DeleteKeeps
  <2>2. kf'[h] = NoFrame /\ kf' = kf  BY <1>0
  <2> QED  BY <1>0, <1>8, <2>1, <2>2, KeyStepKeys
<1>2. ASSUME NEW a \in Apps, DeleteApplication(h, a) PROVE KInv'
  <2>1. Keeps({})  BY <1>0, <1>2, DeleteApplicationKeeps
  <2>2. kf'[h] = NoFrame /\ kf' = kf  BY <1>0, <1>2 DEF DeleteApplication
  <2> QED  BY <1>0, <1>8, <2>1, <2>2, KeyStepKeys
<1>3. ASSUME NEW a \in Apps, BeginRegenerate(h, a) PROVE KInv'
  <2>0. BeginRotation(h, "regenerate", a, NoKey)  BY <1>3 DEF BeginRegenerate
  <2>1. /\ Keeps({})
        /\ kf'[h].pc = "rotate" /\ kf'[h].op = "regenerate" /\ kf'[h].app = a
        /\ \A g \in Handlers \ {h} : kf'[g] = kf[g]
    BY <1>0, <2>0, BeginRotationKeeps
  <2> QED  BY <1>0, <2>1, KeyStepKeys DEF KIdle
<1>4. ASSUME NEW t, RotateKey(h, t) PROVE KInv'
  <2>1. /\ Keeps({})
        /\ kf'[h].pc = kf[h].pc /\ kf'[h].op = kf[h].op
        /\ kf'[h].key = kf[h].key /\ kf'[h].app = kf[h].app
        /\ \A g \in Handlers \ {h} : kf'[g] = kf[g]
    BY <1>0, <1>4, RotateKeyKeeps
  <2>2. kf[h].pc = "rotate" /\ (kf[h].op = "regenerate" => kf[h].app \in Apps)
    BY <1>4 DEF RotateKey, KInv, Running
  <2> QED  BY <1>0, <2>1, <2>2, KeyStepKeys DEF KIdle
<1>5. ASSUME NEW k \in Keys, RegenerateCreate(h, k) PROVE KInv'
  <2> USE <1>5 DEF RegenerateCreate
  <2>1. Fresh(k)  BY DEF Create
  <2>2. kf[h].app \in Apps  BY DEF KInv, Running
  <2>3. Keeps({k})  BY <1>0, <2>2, CreateKeeps
  <2>4. kf'[h] = NoFrame /\ \A g \in Handlers \ {h} : kf'[g] = kf[g]
    BY <1>0, FinishFacts
  <2>5. UNCHANGED <<rf, issued, decisions, appointed>>  BY <1>0 DEF rvars
  <2>6. Running(h)'  BY <1>0, <2>4, <2>5 DEF Running, KIdle, NoFrame
  <2>7. /\ \A r \in Reqs : KeyRequest(r) => issued[r].key \notin {k}
        /\ \A g \in Handlers : Claims(rf[g]) => rf[g].meta.key \notin {k}
    BY <2>1, RequestedKeyCreated DEF Created
  <2> QED  BY <2>3, <2>4, <2>5, <2>6, <2>7, QuietKeys
<1>6. ASSUME NEW k \in Keys, ValidateRead(h, k) PROVE KInv'
  <2>1. /\ Keeps({})
        /\ kf'[h].pc = "touch" /\ kf'[h].op = "validate"
        /\ \A g \in Handlers \ {h} : kf'[g] = kf[g]
    BY <1>0, <1>6, ValidateReadKeeps
  <2> QED  BY <1>0, <2>1, KeyStepKeys DEF KIdle
<1>7. ASSUME ValidateTouch(h) PROVE KInv'
  <2>1. Keeps({})  BY <1>0, <1>7, ValidateTouchKeeps
  <2>2. kf'[h] = NoFrame /\ \A g \in Handlers \ {h} : kf'[g] = kf[g]
    BY <1>0, <1>7, FinishFacts DEF ValidateTouch
  <2> QED  BY <1>0, <1>8, <2>1, <2>2, KeyStepKeys
<1> QED  BY <1>1, <1>2, <1>3, <1>4, <1>5, <1>6, <1>7 DEF DirectKeyStep

(* Steps that touch neither keys nor frames nor what was asked.             *)
LEMMA AdminKeys ==
    ASSUME KInv, UNCHANGED <<kvars, issued, rf, decisions>> PROVE KInv'
<1>1. RequestsOK' /\ ClaimsOK' /\ FreshOK'
  BY DEF KInv, RequestsOK, ClaimsOK, FreshOK, Requested, KeyRequest, MetaOK, Waiting,
     HasApproval, Approval, Claims, Fresh, kvars
<1>2. \A g \in Handlers : Running(g)'
  BY DEF KInv, Running, KIdle, KeyRequest, kvars
<1> QED  BY <1>1, <1>2 DEF KInv

-----------------------------------------------------------------------------
(* The invariant is inductive.                                              *)
LEMMA NextKeys == AInv /\ KInv /\ [Next]_vars => KInv'
<1> SUFFICES ASSUME AInv, KInv, [Next]_vars PROVE KInv'
  OBVIOUS
<1>1. ASSUME NEW h \in Handlers, RequestStep(h) PROVE KInv'
  BY <1>1, BeginRequestKeys, CreateRequestedKeyKeys, PersistRequestKeys, DecideKeys,
     DropKeys, ExecuteInOneStepKeys, ExecuteKeyCreateKeys, ExecuteRotateKeys,
     ExecuteActivateSaveKeys DEF RequestStep
<1>2. ASSUME NEW h \in Handlers, AdminStep(h) PROVE KInv'
  BY <1>2, AdminKeys DEF AdminStep, MarkExpiredRequests, SetTeamApprover,
     AddUserToTeam, RemoveUserFromTeam, UpdateUser, UpdateApprovalSettings
<1>3. CASE Tick
  BY <1>3, AdminKeys DEF Tick
<1>4. CASE UNCHANGED vars
  BY <1>4, AdminKeys DEF vars, rvars
<1> QED  BY <1>1, <1>2, <1>3, <1>4, DirectKeyStepKeys DEF Next

(* Initially there are no keys and no requests.                             *)
LEMMA InitKeys == Init => KInv
<1> SUFFICES ASSUME Init PROVE KInv
  OBVIOUS
<1> USE DEF Init, KInit
<1>1. \A k \in Keys : Waiting(k)
  BY NoFrameHolds DEF Waiting, ActiveStates
<1>2. \A r \in Reqs : ~Requested(r) /\ ~KeyRequest(r)
  BY DEF Requested, KeyRequest, NoMeta
<1>3. \A h \in Handlers : rf[h] = NoReqFrame /\ kf[h] = NoFrame
  OBVIOUS
<1>4. RequestsOK /\ FreshOK
  BY <1>1, <1>2 DEF RequestsOK, FreshOK
<1>5. ClaimsOK
  BY <1>3 DEF ClaimsOK, Claims, NoReqFrame
<1>6. \A h \in Handlers : Running(h)
  BY <1>3 DEF Running, KIdle, NoFrame, NoReqFrame
<1> QED  BY <1>4, <1>5, <1>6 DEF KInv

(* The inductive invariant of requested keys.                               *)
THEOREM KeyInvariance == Spec => []KInv
  BY Invariance, InitKeys, NextKeys, PTL DEF Spec

(* The plain text of a requested key is handed out at once, but the key     *)
(* authenticates nothing until an admin or root other than the requester    *)
(* approved the request in time: whatever handlers list, touch, rotate,     *)
(* regenerate or execute in the meantime.                                   *)
THEOREM NoKeyBeforeApprovalHolds == Spec => []NoKeyBeforeApproval
<1>1. KInv => NoKeyBeforeApproval
  BY DEF KInv, RequestsOK, NoKeyBeforeApproval, Waiting, HasApproval
<1> QED  BY <1>1, KeyInvariance, PTL

-----------------------------------------------------------------------------
(* The workflow is a client of SecretKeys *)

(* Steps of the request handlers are steps of the key handlers.  Rejection  *)
(* and withdrawal revoke a key that was created; an execution activates the *)
(* key under the application that owns it.                                  *)
LEMMA RequestStepRefines ==
    ASSUME AInv, KInv, NEW h \in Handlers, RequestStep(h) PROVE [KNext]_kvars
<1> USE DEF KNext
<1>1. ASSUME KHandler(h) PROVE [KNext]_kvars
  BY <1>1
<1>2. ASSUME UNCHANGED kvars PROVE [KNext]_kvars
  BY <1>2
<1> HIDE DEF KNext
<1>3. ASSUME NEW u \in Users, NEW t \in Teams, NEW act \in ActionTypes,
             NEW a \in Apps, NEW k \in Keys \cup {NoKey},
             BeginRequest(h, u, t, act, a, k)
      PROVE  [KNext]_kvars
  BY <1>2, <1>3 DEF BeginRequest
<1>4. ASSUME NEW k \in Keys, CreateRequestedKey(h, k) PROVE [KNext]_kvars
  <2>1. rf[h].meta.app \in Apps  BY <1>4 DEF CreateRequestedKey, AInv, FrameOK, Metas
  <2> QED  BY <1>1, <1>4, <2>1 DEF CreateRequestedKey, KHandler
<1>5. ASSUME NEW r \in Reqs, PersistRequest(h, r) PROVE [KNext]_kvars
  BY <1>2, <1>5 DEF PersistRequest
<1>6. ASSUME NEW op \in {"approve", "reject", "withdraw", "execute"},
             NEW u \in Users, NEW r \in Reqs, ReadRequest(h, op, u, r)
      PROVE  [KNext]_kvars
  BY <1>2, <1>6 DEF ReadRequest
<1>7. CASE CheckDecision(h) \/ SaveDecision(h) \/ DeleteRequest(h) \/ CheckExecute(h)
  BY <1>2, <1>7 DEF CheckDecision, SaveDecision, DeleteRequest, CheckExecute
<1>8. CASE DropRejectedKey(h) \/ DropWithdrawnKey(h)
  <2>1. PICK q \in Reqs : q = rf[h].req /\ KeyRequest(q)
    BY <1>8 DEF DropRejectedKey, DropWithdrawnKey, MayWithdraw, AInv, FrameOK, KInv, Running
  <2>2. PICK k \in Keys : k = issued[q].key /\ Created(k)
    BY <2>1, RequestedKeyCreated
  <2>3. KIdle(h)
    BY <1>8, WorkflowIdle DEF DropRejectedKey, DropWithdrawnKey, MayWithdraw
  <2>4. Delete(k) /\ kf' = kf
    BY <1>8, <2>1, <2>2 DEF DropRejectedKey, DropWithdrawnKey
  <2>5. RevokeSecretKey(h, k)
    BY <2>2, <2>3, <2>4 DEF RevokeSecretKey
  <2> QED  BY <1>1, <2>5 DEF KHandler
<1>9. CASE ExecuteInOneStep(h)
  <2>1. PICK q \in Reqs : q = rf[h].req /\ Requested(q)
    BY <1>9 DEF ExecuteInOneStep, AInv, FrameOK
  <2>2. issued[q].app \in Apps
    BY <2>1, RequestedTyped DEF AInv, Metas
  <2>3. CASE issued[q].action = "secret_key_delete" /\ RevokeSecretKey(h, issued[q].key)
    <3>1. issued[q].key \in Keys  BY <2>1, <2>3 DEF KInv, RequestsOK, MetaOK
    <3> QED  BY <1>1, <2>3, <3>1 DEF KHandler
  <2>4. CASE DeleteApplication(h, issued[q].app)
    BY <1>1, <2>2, <2>4 DEF KHandler
  <2> QED  BY <1>2, <1>9, <2>1, <2>3, <2>4 DEF ExecuteInOneStep
<1>10. CASE ExecuteKeyCreate(h)
  <2>1. PICK q \in Reqs : q = rf[h].req /\ KeyRequest(q)
    BY <1>10 DEF ExecuteKeyCreate, KeyRequest, AInv, FrameOK
  <2>2. issued[q].key \in Keys /\ Requested(q)
    BY <2>1, RequestedKeyCreated
  <2>3. owner[issued[q].key] = issued[q].app
    BY <2>1, <2>2 DEF KInv, RequestsOK, MetaOK, KeyRequest
  <2>4. BeginActivate(h, issued[q].key, owner[issued[q].key])
    BY <1>10, <2>1, <2>3 DEF ExecuteKeyCreate
  <2> QED  BY <1>1, <2>2, <2>4 DEF KHandler
<1>11. ASSUME NEW t \in kf[h].todo, ExecuteRotateKey(h, t) PROVE [KNext]_kvars
  BY <1>1, <1>11 DEF ExecuteRotateKey, KHandler
<1>12. CASE ExecuteActivateRead(h) \/ ExecuteActivateSave(h)
  BY <1>1, <1>12 DEF ExecuteActivateRead, ExecuteActivateSave, KHandler
<1>13. CASE Fail(h)
  <2>1. CASE KIdle(h)
    <3>1. kf[h] = NoFrame  BY <2>1 DEF KInv, Running
    <3>2. kf' = kf  BY <1>13, <3>1 DEF Fail, Finish, AInv, TypeOK, KTypeOK
    <3> QED  BY <1>2, <1>13, <3>2 DEF Fail, kvars
  <2>2. CASE ~KIdle(h)
    BY <1>1, <1>13, <2>2 DEF Fail, KFail, KHandler
  <2> QED  BY <2>1, <2>2
<1> QED
  BY <1>3, <1>4, <1>5, <1>6, <1>7, <1>8, <1>9, <1>10, <1>11, <1>12, <1>13 DEF RequestStep

(* The approval workflow implements the specification of the keys: every    *)
(* step on keys that a request, a decision, an execution, root or a client  *)
(* takes is one that SecretKeys allows the handler.                         *)
THEOREM KeyDisciplineHolds == Spec => KeyDiscipline
<1>1. Init => KInit
  BY DEF Init
<1>2. AInv /\ KInv /\ [Next]_vars => [KNext]_kvars
  <2> SUFFICES ASSUME AInv, KInv, [Next]_vars PROVE [KNext]_kvars
    OBVIOUS
  <2>1. ASSUME NEW h \in Handlers, AdminStep(h) PROVE UNCHANGED kvars
    BY <2>1 DEF AdminStep, MarkExpiredRequests, SetTeamApprover, AddUserToTeam,
       RemoveUserFromTeam, UpdateUser, UpdateApprovalSettings
  <2>2. ASSUME NEW h \in Handlers, DirectKeyStep(h) PROVE KNext
    BY <2>2 DEF DirectKeyStep, KNext, KHandler
  <2>3. CASE Tick
    BY <2>3 DEF Tick
  <2>4. CASE UNCHANGED vars
    BY <2>4 DEF vars
  <2> QED  BY <2>1, <2>2, <2>3, <2>4, RequestStepRefines DEF Next
<1> QED  BY <1>1, <1>2, Invariance, KeyInvariance, PTL DEF Spec, KSpec, KeyDiscipline

-----------------------------------------------------------------------------
(* Frozen names *)

(* A row that is not decided has its frozen name: only a decision saves a   *)
(* row without it.                                                          *)
LEMMA NamedRows ==
    ASSUME AInv, NamedOK,
           \A r \in Reqs : \/ requests'[r] = requests[r]
                           \/ requests'[r].named
                           \/ requests'[r].status \notin {"pending", "expired"}
    PROVE  NamedOK'
  BY DEF NamedOK

(* The steps that write the table of requests.                              *)
LEMMA NextNamed == AInv /\ NamedOK /\ [Next]_vars => NamedOK'
<1> SUFFICES ASSUME AInv, NamedOK, [Next]_vars PROVE NamedOK'
  OBVIOUS
<1>1. ASSUME NEW h \in Handlers, NEW r \in Reqs, PersistRequest(h, r) PROVE NamedOK'
  BY <1>1, NamedRows DEF PersistRequest, AInv, TypeOK
<1>2. ASSUME NEW h \in Handlers, SaveDecision(h) PROVE NamedOK'
  BY <1>2, NamedRows DEF SaveDecision, AInv, FrameOK, TypeOK
<1>3. ASSUME NEW h \in Handlers, DeleteRequest(h) PROVE NamedOK'
  BY <1>3, NamedRows DEF DeleteRequest, NoRow, AInv, TypeOK
<1>4. ASSUME NEW h \in Handlers, MarkExpiredRequests(h) PROVE NamedOK'
  <2>1. ASSUME NEW x \in Reqs, requests'[x] # requests[x] PROVE requests'[x].named
    <3>1. /\ requests[x].status = "pending" /\ requests[x] \in Rows
          /\ requests'[x] = [requests[x] EXCEPT !.status = "expired"]
      BY <1>4, <2>1 DEF MarkExpiredRequests, AInv, TypeOK
    <3>2. requests[x].named  BY <3>1 DEF NamedOK
    <3> QED  BY <3>1, <3>2 DEF Rows
  <2> QED  BY <2>1, NamedRows
<1>5. ASSUME requests' = requests PROVE NamedOK'
  BY <1>5 DEF NamedOK
<1>6. ASSUME NEW h \in Handlers, RequestStep(h) PROVE NamedOK'
  <2>1. ASSUME NEW u \in Users, NEW t \in Teams, NEW act \in ActionTypes,
               NEW a \in Apps, NEW k \in Keys \cup {NoKey},
               BeginRequest(h, u, t, act, a, k)
        PROVE  NamedOK'
    BY <1>5, <2>1 DEF BeginRequest
  <2>2. ASSUME NEW op \in {"approve", "reject", "withdraw", "execute"},
               NEW u \in Users, NEW r \in Reqs, ReadRequest(h, op, u, r)
        PROVE  NamedOK'
    BY <1>5, <2>2 DEF ReadRequest
  <2>3. ASSUME NEW k \in Keys, CreateRequestedKey(h, k) PROVE NamedOK'
    BY <1>5, <2>3 DEF CreateRequestedKey
  <2>4. ASSUME NEW t, ExecuteRotateKey(h, t) PROVE NamedOK'
    BY <1>5, <2>4 DEF ExecuteRotateKey, rvars
  <2>5. CASE \/ CheckDecision(h) \/ DropRejectedKey(h) \/ DropWithdrawnKey(h)
             \/ CheckExecute(h) \/ ExecuteInOneStep(h) \/ ExecuteKeyCreate(h)
             \/ ExecuteActivateRead(h) \/ ExecuteActivateSave(h) \/ Fail(h)
    BY <1>5, <2>5 DEF CheckDecision, DropRejectedKey, DropWithdrawnKey, CheckExecute,
       ExecuteInOneStep, ExecuteKeyCreate, ExecuteActivateRead, ExecuteActivateSave,
       Fail, rvars
  <2> QED  BY <1>1, <1>2, <1>3, <1>6, <2>1, <2>2, <2>3, <2>4, <2>5 DEF RequestStep
<1>7. ASSUME NEW h \in Handlers, AdminStep(h) PROVE NamedOK'
  BY <1>4, <1>5, <1>7 DEF AdminStep, SetTeamApprover, AddUserToTeam,
     RemoveUserFromTeam, UpdateUser, UpdateApprovalSettings
<1>8. ASSUME NEW h \in Handlers, DirectKeyStep(h) PROVE NamedOK'
  BY <1>5, <1>8 DEF DirectKeyStep, rvars
<1>9. CASE Tick \/ UNCHANGED vars
  BY <1>5, <1>9 DEF Tick, vars, rvars
<1> QED  BY <1>6, <1>7, <1>8, <1>9 DEF Next

(* A request nobody decided shows the name of its application, even after   *)
(* the application is gone.                                                 *)
THEOREM UndecidedKeepsNameHolds == Spec => []UndecidedKeepsName
<1>1. Init => NamedOK
  BY DEF Init, NamedOK, NoRow
<1>2. NamedOK => UndecidedKeepsName
  BY DEF NamedOK, UndecidedKeepsName, ShownName
<1> QED  BY <1>1, <1>2, NextNamed, Invariance, PTL DEF Spec

-----------------------------------------------------------------------------
(* One handler at a time *)

(* The row a handler read is still the row of the table; a decision or a    *)
(* withdrawal under way finds the request pending.                          *)
RowUpToDate(f) ==
    /\ f.pc = "read" => requests[f.req] = f.row
    /\ f.pc \in {"save", "delete"} => requests[f.req].status = "pending"

(* Every decision on record is the status of its request.                   *)
DecisionsStand == \A d \in decisions : requests[d.req].status = d.verdict

DecisionInv == DecisionsStand /\ \A h \in Handlers : RowUpToDate(rf[h])

(* Decided rows stay as they are.                                           *)
Final == \A r \in Reqs : requests[r].status \in {"approved", "rejected"}
                              => requests'[r].status = requests[r].status

(* A step that leaves requests and decisions alone.                         *)
LEMMA SameRows ==
    ASSUME Serial, DecisionInv, NEW h \in Handlers, UNCHANGED <<requests, decisions>>,
           RowUpToDate(rf[h])'
    PROVE  DecisionInv' /\ Final
<1>1. \A g \in Handlers : RowUpToDate(rf[g])'
  <2> SUFFICES ASSUME NEW g \in Handlers PROVE RowUpToDate(rf[g])'
    OBVIOUS
  <2>1. g = h  BY DEF Serial
  <2> QED  BY <2>1
<1> QED  BY <1>1 DEF DecisionInv, DecisionsStand, Final

(* The same, when the handler ends or is none of those above.               *)
LEMMA QuietRows ==
    ASSUME Serial, DecisionInv, NEW h \in Handlers, UNCHANGED <<requests, decisions>>,
           rf'[h].pc \notin {"read", "save", "delete"}
    PROVE  DecisionInv' /\ Final
<1>1. RowUpToDate(rf[h])'  BY DEF RowUpToDate
<1> QED  BY <1>1, SameRows

(* A step that changes one undecided row.                                   *)
LEMMA OneRow ==
    ASSUME Serial, AInv, DecisionInv, NEW h \in Handlers, NEW r \in Reqs, NEW row,
           requests[r].status \notin {"approved", "rejected"},
           requests' = [requests EXCEPT ![r] = row],
           \/ decisions' = decisions
           \/ \E d : decisions' = decisions \cup {d} /\ d.req = r /\ d.verdict = row.status,
           rf'[h].pc \notin {"read", "save", "delete"}
    PROVE  DecisionInv' /\ Final
<1>1. requests'[r] = row /\ \A x \in Reqs \ {r} : requests'[x] = requests[x]
  BY DEF AInv, TypeOK
<1>2. \A d \in decisions : d.req \in Reqs \ {r}
  BY DEF DecisionInv, DecisionsStand, AInv, TypeOK
<1>3. DecisionsStand'
  BY <1>1, <1>2 DEF DecisionInv, DecisionsStand
<1>4. Final
  BY <1>1 DEF Final
<1>5. \A g \in Handlers : RowUpToDate(rf[g])'
  <2> SUFFICES ASSUME NEW g \in Handlers PROVE RowUpToDate(rf[g])'
    OBVIOUS
  <2>1. g = h  BY DEF Serial
  <2> QED  BY <2>1 DEF RowUpToDate
<1> QED  BY <1>3, <1>4, <1>5 DEF DecisionInv

(* Deciding, one request at a time.                                         *)
LEMMA DecideFinal ==
    ASSUME Serial, AInv, DecisionInv, NEW h \in Handlers,
           \/ \E op \in {"approve", "reject", "withdraw", "execute"},
                 u \in Users, r \in Reqs : ReadRequest(h, op, u, r)
           \/ CheckDecision(h) \/ SaveDecision(h)
           \/ DropWithdrawnKey(h) \/ DeleteRequest(h)
    PROVE  DecisionInv' /\ Final
<1>0. RowUpToDate(rf[h]) /\ FrameOK(h) /\ rf[h] \in ReqFrames
  BY DEF DecisionInv, AInv, TypeOK
<1>1. ASSUME NEW op \in {"approve", "reject", "withdraw", "execute"},
             NEW u \in Users, NEW r \in Reqs, ReadRequest(h, op, u, r)
      PROVE  DecisionInv' /\ Final
  <2> USE <1>1 DEF ReadRequest
  <2>1. rf'[h].pc = "read" /\ rf'[h].req = r /\ rf'[h].row = requests[r]
    BY DEF AInv, TypeOK, NoReqFrame
  <2>2. RowUpToDate(rf[h])'  BY <2>1 DEF RowUpToDate
  <2> QED  BY <2>2, SameRows
<1>2. CASE CheckDecision(h)
  <2> USE <1>2 DEF CheckDecision
  <2>1. PICK row : rf' = [rf EXCEPT ![h] = [rf[h] EXCEPT !.pc = "save", !.row = row]]
    BY DEF AInv, TypeOK
  <2>2. LET f == [rf[h] EXCEPT !.pc = "save", !.row = row]
        IN  f.pc = "save" /\ f.req = rf[h].req
    BY <1>0 DEF ReqFrames
  <2>3. rf'[h].pc = "save" /\ rf'[h].req = rf[h].req
    BY <2>1, <2>2 DEF AInv, TypeOK
  <2>4. requests[rf[h].req].status = "pending"
    BY <1>0 DEF RowUpToDate, CanBeApprovedBy
  <2>5. RowUpToDate(rf[h])'  BY <2>3, <2>4 DEF RowUpToDate
  <2> QED  BY <2>5, SameRows
<1>3. CASE SaveDecision(h)
  <2> USE <1>3 DEF SaveDecision
  <2>1. PICK r \in Reqs : r = rf[h].req
    BY <1>0 DEF FrameOK
  <2>2. PICK row : row = rf[h].row
    OBVIOUS
  <2>3. requests[r].status = "pending"  BY <1>0, <2>1 DEF RowUpToDate
  <2>4. PICK d : /\ d = [req |-> r, verdict |-> row.status, by |-> rf[h].user, at |-> row.at]
                 /\ decisions' = decisions \cup {d}
    BY <2>1, <2>2
  <2>5. d.req = r /\ d.verdict = row.status  BY <2>4
  <2>6. rf'[h].pc \in {"idle", "dropkey"}  BY EndIdle, MoveFacts
  <2>7. requests' = [requests EXCEPT ![r] = row]  BY <2>1, <2>2
  <2>8. \E x : decisions' = decisions \cup {x} /\ x.req = r /\ x.verdict = row.status
    BY <2>4, <2>5
  <2> QED  BY <2>3, <2>6, <2>7, <2>8, OneRow
<1>4. CASE DropWithdrawnKey(h)
  <2> USE <1>4 DEF DropWithdrawnKey, MayWithdraw
  <2>1. rf'[h].pc = "delete" /\ rf'[h].req = rf[h].req  BY MoveFacts
  <2>2. requests[rf[h].req].status = "pending"  BY <1>0 DEF RowUpToDate
  <2>3. RowUpToDate(rf[h])'  BY <2>1, <2>2 DEF RowUpToDate
  <2> QED  BY <2>3, SameRows
<1>5. CASE DeleteRequest(h)
  <2> USE <1>5 DEF DeleteRequest, MayWithdraw
  <2>1. PICK r \in Reqs : r = rf[h].req  BY <1>0 DEF FrameOK
  <2>2. requests[r].status = "pending"  BY <1>0, <2>1 DEF RowUpToDate
  <2>3. rf'[h].pc = "idle"  BY EndIdle
  <2>4. requests' = [requests EXCEPT ![r] = NoRow]  BY <2>1
  <2> QED  BY <2>2, <2>3, <2>4, OneRow
<1> QED  BY <1>1, <1>2, <1>3, <1>4, <1>5

(* Every step of the only handler.                                          *)
LEMMA NextFinal ==
    ASSUME Serial, AInv, KInv, DecisionInv, [Next]_vars PROVE DecisionInv' /\ Final
<1>1. ASSUME NEW h \in Handlers, RequestStep(h) PROVE DecisionInv' /\ Final
  <2>1. ASSUME NEW u \in Users, NEW t \in Teams, NEW act \in ActionTypes,
               NEW a \in Apps, NEW k \in Keys \cup {NoKey},
               BeginRequest(h, u, t, act, a, k)
        PROVE  DecisionInv' /\ Final
    <3>1. rf'[h].pc \in {"newkey", "persist"}
      BY <2>1 DEF BeginRequest, AInv, TypeOK, NoReqFrame
    <3> QED  BY <2>1, <3>1, QuietRows DEF BeginRequest
  <2>2. ASSUME NEW k \in Keys, CreateRequestedKey(h, k) PROVE DecisionInv' /\ Final
    <3>0. rf[h] \in ReqFrames /\ rf[h].meta \in Metas
      BY <2>2 DEF CreateRequestedKey, AInv, TypeOK, FrameOK
    <3> DEFINE m == [rf[h].meta EXCEPT !.key = k, !.expires = now + Lifetime]
               f == [rf[h] EXCEPT !.pc = "persist", !.meta = m]
    <3>1. rf' = [rf EXCEPT ![h] = f]
      BY <2>2, <3>0 DEF CreateRequestedKey, AInv, TypeOK, ReqFrames, Metas
    <3> HIDE DEF m
    <3>2. f.pc = "persist"  BY <3>0 DEF ReqFrames
    <3> HIDE DEF f
    <3>3. rf'[h].pc = "persist"  BY <3>1, <3>2 DEF AInv, TypeOK
    <3> QED  BY <2>2, <3>3, QuietRows DEF CreateRequestedKey
  <2>3. ASSUME NEW r \in Reqs, PersistRequest(h, r) PROVE DecisionInv' /\ Final
    <3>1. requests[r].status = "absent"
      BY <2>3 DEF PersistRequest, AInv, RowsOK
    <3>2. rf'[h].pc = "idle"  BY <2>3, EndIdle DEF PersistRequest
    <3> QED  BY <2>3, <3>1, <3>2, OneRow DEF PersistRequest
  <2>4. CASE DropRejectedKey(h)
    BY <2>4, EndIdle, QuietRows DEF DropRejectedKey
  <2>5. CASE CheckExecute(h) \/ ExecuteKeyCreate(h)
    BY <2>5, MoveFacts, QuietRows DEF CheckExecute, ExecuteKeyCreate
  <2>6. CASE ExecuteInOneStep(h) \/ ExecuteActivateSave(h) \/ Fail(h)
    BY <2>6, EndIdle, QuietRows DEF ExecuteInOneStep, ExecuteActivateSave, Fail
  <2>7. ASSUME NEW t, rf[h].pc = "activating", ExecuteRotateKey(h, t)
        PROVE  DecisionInv' /\ Final
    BY <2>7, QuietRows DEF ExecuteRotateKey, rvars
  <2>8. CASE ExecuteActivateRead(h)
    <3>1. rf[h].pc = "activating"
      BY <2>8 DEF ExecuteActivateRead, ActivateRead, KInv, Running
    <3> QED  BY <2>8, <3>1, QuietRows DEF ExecuteActivateRead, rvars
  <2> QED
    BY <1>1, <2>1, <2>2, <2>3, <2>4, <2>5, <2>6, <2>7, <2>8, DecideFinal DEF RequestStep
<1>2. ASSUME NEW h \in Handlers, MarkExpiredRequests(h) PROVE DecisionInv' /\ Final
  <2> USE <1>2 DEF MarkExpiredRequests
  <2>1. \A r \in Reqs : requests[r].status # "pending" => requests'[r] = requests[r]
    OBVIOUS
  <2>2. Final  BY <2>1 DEF Final
  <2>3. DecisionsStand'  BY <2>1 DEF DecisionInv, DecisionsStand, AInv, TypeOK
  <2>4. \A g \in Handlers : rf'[g].pc = "idle"  BY DEF Idle, Serial
  <2>5. \A g \in Handlers : RowUpToDate(rf[g])'  BY <2>4 DEF RowUpToDate
  <2> QED  BY <2>2, <2>3, <2>5 DEF DecisionInv
<1>3. ASSUME UNCHANGED <<requests, rf, decisions>> PROVE DecisionInv' /\ Final
  BY <1>3 DEF DecisionInv, DecisionsStand, RowUpToDate, Final
<1>4. ASSUME NEW h \in Handlers, AdminStep(h) PROVE DecisionInv' /\ Final
  BY <1>2, <1>3, <1>4 DEF AdminStep, SetTeamApprover, AddUserToTeam,
     RemoveUserFromTeam, UpdateUser, UpdateApprovalSettings
<1>5. ASSUME NEW h \in Handlers, DirectKeyStep(h) PROVE DecisionInv' /\ Final
  BY <1>3, <1>5 DEF DirectKeyStep, rvars
<1>6. CASE Tick \/ UNCHANGED vars
  BY <1>3, <1>6 DEF Tick, vars, rvars
<1> QED  BY <1>1, <1>4, <1>5, <1>6 DEF Next

(* One request at a time, what was decided stays the status of the request. *)
THEOREM DecisionInvariance == ASSUME Serial PROVE Spec => []DecisionInv
<1>1. Init => DecisionInv
  BY DEF Init, DecisionInv, DecisionsStand, RowUpToDate, NoReqFrame
<1>2. AInv /\ KInv /\ DecisionInv /\ [Next]_vars => DecisionInv'
  BY NextFinal
<1> QED  BY <1>1, <1>2, Invariance, KeyInvariance, PTL DEF Spec

(* One request at a time, a decision is final and its row is never deleted. *)
THEOREM SerialDecisionIsFinal == ASSUME Serial PROVE Spec => DecisionIsFinal
<1>1. AInv /\ KInv /\ DecisionInv /\ [Next]_vars =>
        [\A r \in Reqs : requests[r].status \in {"approved", "rejected"}
                             => requests'[r].status = requests[r].status]_vars
  BY NextFinal DEF Final
<1> QED
  BY <1>1, Invariance, KeyInvariance, DecisionInvariance, PTL DEF Spec, DecisionIsFinal

(* One request at a time, the key of a rejected request never works: a      *)
(* rejection that stands leaves no approval, and without approval the key   *)
(* still waits.                                                             *)
THEOREM SerialRejectedKey == ASSUME Serial PROVE Spec => []RejectedKeyNeverWorks
<1>1. AInv /\ KInv /\ DecisionInv => RejectedKeyNeverWorks
  <2> SUFFICES ASSUME AInv, KInv, DecisionInv, NEW r \in Reqs,
                      requests[r].status = "rejected", KeyRequest(r)
               PROVE  keys[issued[r].key] \notin ActiveStates
    BY DEF RejectedKeyNeverWorks
  <2>1. ~HasApproval(r)  BY DEF DecisionInv, DecisionsStand, HasApproval, Approval
  <2>2. Waiting(issued[r].key)  BY <2>1 DEF KInv, RequestsOK
  <2> QED  BY <2>2 DEF Waiting
<1> QED  BY <1>1, Invariance, KeyInvariance, DecisionInvariance, PTL

(* The guarantees of the keys hold in the whole workflow, because it        *)
(* implements their specification.                                          *)
THEOREM WorkflowKeepsKeys ==
    ASSUME Serial PROVE Spec => []OneCurrent /\ []AtMostTwoActive /\ RevokedStaysRevoked
<1>1. KeyDiscipline => []OneCurrent /\ []AtMostTwoActive /\ RevokedStaysRevoked
  BY SerialOneCurrent, SerialAtMostTwo, SerialRevocation DEF KeyDiscipline
<1> QED  BY <1>1, KeyDisciplineHolds
================================================================================
