--------------------------- MODULE SecretKeysProofs ---------------------------
(***************************************************************************)
(* Type correctness of the service keys, for any number of handlers, keys  *)
(* and applications.  The lemma of each repository or use-case step is     *)
(* stated on its own because Approvals takes the same steps.  For one      *)
(* handler at a time: how many keys are active and current, and that       *)
(* nothing revoked or deleted comes back.                                  *)
(***************************************************************************)
EXTENDS SecretKeys, TLAPS

(* An idle handler has a frame of the type.                                 *)
LEMMA NoFrameTyped == NoFrame \in Frames
  BY DEF NoFrame, Frames, KeyStates

(* A handler that ends or gives up.                                         *)
LEMMA FinishTyped ==
    ASSUME KTypeOK, NEW h \in Handlers, Finish(h) PROVE kf' \in [Handlers -> Frames]
  BY NoFrameTyped DEF Finish, KTypeOK

(* The writes of the repositories.                                          *)
LEMMA CreateTyped ==
    ASSUME KTypeOK, NEW k \in Keys, NEW a \in Apps \cup {NoApp},
           NEW st \in KeyStates, Create(k, a, st)
    PROVE  /\ keys' \in [Keys -> KeyStates]
           /\ owner' \in [Keys -> Apps \cup {NoApp}]
           /\ apps' \in SUBSET Apps
  BY DEF KTypeOK, Create

(* Save of a key that was read earlier.                                     *)
LEMMA SaveTyped ==
    ASSUME KTypeOK, NEW k, NEW st \in KeyStates, NEW loaded \in BOOLEAN,
           Save(k, st, loaded)
    PROVE  /\ keys' \in [Keys -> KeyStates]
           /\ owner' \in [Keys -> Apps \cup {NoApp}]
           /\ apps' \in SUBSET Apps
  BY DEF KTypeOK, Save

(* Deletion of a row, there or not.                                         *)
LEMMA DeleteTyped ==
    ASSUME KTypeOK, NEW k, Delete(k)
    PROVE  /\ keys' \in [Keys -> KeyStates]
           /\ owner' \in [Keys -> Apps \cup {NoApp}]
           /\ apps' \in SUBSET Apps
  BY DEF KTypeOK, Delete, KeyStates

(* A key that waits for approval.                                           *)
LEMMA CreatePendingTyped ==
    ASSUME KTypeOK, NEW h \in Handlers, NEW a \in Apps, NEW k \in Keys,
           CreatePendingSecretKey(h, a, k)
    PROVE  KTypeOK'
<1>1. "pending" \in KeyStates  BY DEF KeyStates
<1> QED  BY <1>1, CreateTyped DEF CreatePendingSecretKey, KTypeOK

(* Revocation.                                                              *)
LEMMA RevokeTyped ==
    ASSUME KTypeOK, NEW h \in Handlers, NEW k, RevokeSecretKey(h, k) PROVE KTypeOK'
  BY DeleteTyped DEF RevokeSecretKey, KTypeOK

(* The transaction that deletes an application with its keys.               *)
LEMMA DeleteApplicationTyped ==
    ASSUME KTypeOK, NEW h \in Handlers, NEW a, DeleteApplication(h, a) PROVE KTypeOK'
  BY DEF DeleteApplication, KTypeOK, KeyStates

(* The listing that starts a rotation holds active keys only.               *)
LEMMA BeginRotationTyped ==
    ASSUME KTypeOK, NEW h \in Handlers, NEW op \in {"regenerate", "activate"},
           NEW a \in Apps \cup {NoApp}, NEW k \in Keys \cup {NoKey},
           BeginRotation(h, op, a, k)
    PROVE  KTypeOK'
<1> DEFINE todo == {<<x, keys[x]>> : x \in ActiveKeys(a)}
           b == a \in apps
<1>1. todo \in SUBSET (Keys \X ActiveStates) /\ b \in BOOLEAN
  BY DEF ActiveKeys
<1>2. /\ kf' = [kf EXCEPT ![h] = [NoFrame EXCEPT !.pc = "rotate", !.op = op,
                   !.app = a, !.key = k, !.loaded = b, !.todo = todo]]
      /\ UNCHANGED <<keys, owner, apps>>
  BY DEF BeginRotation
<1> HIDE DEF todo, b
<1>3. [NoFrame EXCEPT !.pc = "rotate", !.op = op, !.app = a, !.key = k,
                      !.loaded = b, !.todo = todo] \in Frames
  BY <1>1, NoFrameTyped DEF Frames
<1> QED  BY <1>2, <1>3 DEF KTypeOK

(* One key of the listing is demoted or revoked.                            *)
LEMMA RotateKeyTyped ==
    ASSUME KTypeOK, NEW h \in Handlers, NEW t, RotateKey(h, t) PROVE KTypeOK'
<1> USE DEF RotateKey
<1>1. kf[h] \in Frames /\ kf[h].loaded \in BOOLEAN  BY DEF KTypeOK, Frames
<1>2. [kf[h] EXCEPT !.todo = kf[h].todo \ {t}] \in Frames  BY <1>1 DEF Frames
<1>3. kf' = [kf EXCEPT ![h] = [kf[h] EXCEPT !.todo = kf[h].todo \ {t}]]  BY DEF KTypeOK
<1>4. "previous" \in KeyStates  BY DEF KeyStates
<1>5. /\ keys' \in [Keys -> KeyStates]
      /\ owner' \in [Keys -> Apps \cup {NoApp}]
      /\ apps' \in SUBSET Apps
  BY <1>1, <1>4, SaveTyped, DeleteTyped
<1> QED  BY <1>2, <1>3, <1>5 DEF KTypeOK

(* The new current key.                                                     *)
LEMMA RegenerateCreateTyped ==
    ASSUME KTypeOK, NEW h \in Handlers, NEW k \in Keys, RegenerateCreate(h, k)
    PROVE  KTypeOK'
<1>1. "current" \in KeyStates /\ kf[h].app \in Apps \cup {NoApp}
  BY DEF KeyStates, KTypeOK, Frames
<1> QED  BY <1>1, CreateTyped, FinishTyped DEF RegenerateCreate, KTypeOK

(* The lookup of the key to activate.                                       *)
LEMMA ActivateReadTyped ==
    ASSUME KTypeOK, NEW h \in Handlers, ActivateRead(h) PROVE KTypeOK'
<1> DEFINE b == owner[kf[h].key] \in apps
<1>1. kf[h] \in Frames /\ b \in BOOLEAN  BY DEF KTypeOK
<1>2. /\ kf' = [kf EXCEPT ![h] = [kf[h] EXCEPT !.pc = "activate", !.loaded = b]]
      /\ UNCHANGED <<keys, owner, apps>>
  BY DEF ActivateRead, KTypeOK
<1> HIDE DEF b
<1>3. [kf[h] EXCEPT !.pc = "activate", !.loaded = b] \in Frames  BY <1>1 DEF Frames
<1> QED  BY <1>2, <1>3 DEF KTypeOK

(* Its activation.                                                          *)
LEMMA ActivateSaveTyped ==
    ASSUME KTypeOK, NEW h \in Handlers, ActivateSave(h) PROVE KTypeOK'
<1>1. "current" \in KeyStates /\ kf[h].loaded \in BOOLEAN
  BY DEF KeyStates, KTypeOK, Frames
<1> QED  BY <1>1, SaveTyped, FinishTyped DEF ActivateSave, KTypeOK

(* The lookup of a key a client presents.                                   *)
LEMMA ValidateReadTyped ==
    ASSUME KTypeOK, NEW h \in Handlers, NEW k \in Keys, ValidateRead(h, k)
    PROVE  KTypeOK'
<1> DEFINE b == owner[k] \in apps
<1>1. keys[k] \in KeyStates /\ b \in BOOLEAN  BY DEF KTypeOK
<1>2. /\ kf' = [kf EXCEPT ![h] = [NoFrame EXCEPT !.pc = "touch", !.op = "validate",
                   !.key = k, !.state = keys[k], !.loaded = b]]
      /\ UNCHANGED <<keys, owner, apps>>
  BY DEF ValidateRead
<1> HIDE DEF b
<1>3. [NoFrame EXCEPT !.pc = "touch", !.op = "validate", !.key = k,
                      !.state = keys[k], !.loaded = b] \in Frames
  BY <1>1, NoFrameTyped DEF Frames
<1> QED  BY <1>2, <1>3 DEF KTypeOK

(* Saving it back.                                                          *)
LEMMA ValidateTouchTyped ==
    ASSUME KTypeOK, NEW h \in Handlers, ValidateTouch(h) PROVE KTypeOK'
<1>1. kf[h].state \in KeyStates /\ kf[h].loaded \in BOOLEAN
  BY DEF KTypeOK, Frames
<1> QED  BY <1>1, SaveTyped, FinishTyped DEF ValidateTouch, KTypeOK

(* A handler that gives up.                                                 *)
LEMMA KFailTyped ==
    ASSUME KTypeOK, NEW h \in Handlers, KFail(h) PROVE KTypeOK'
  BY FinishTyped DEF KFail, KTypeOK

-----------------------------------------------------------------------------
(* Keys, owners and frames keep their types: a rotation never holds an      *)
(* inactive key and a saved state is always one of the four.                *)
THEOREM KTypeCorrect == KSpec => []KTypeOK
<1>1. KInit => KTypeOK
  BY NoFrameTyped DEF KInit, KTypeOK, KeyStates
<1>2. KTypeOK /\ [KNext]_kvars => KTypeOK'
  <2> SUFFICES ASSUME KTypeOK, [KNext]_kvars PROVE KTypeOK'
    OBVIOUS
  <2>1. ASSUME NEW h \in Handlers, KHandler(h) PROVE KTypeOK'
    <3>1. ASSUME NEW a \in Apps, BeginRegenerate(h, a) PROVE KTypeOK'
      BY <3>1, BeginRotationTyped DEF BeginRegenerate
    <3>2. ASSUME NEW k \in Keys, BeginActivate(h, k, owner[k]) PROVE KTypeOK'
      <4>1. owner[k] \in Apps \cup {NoApp}  BY DEF KTypeOK
      <4> QED  BY <3>2, <4>1, BeginRotationTyped DEF BeginActivate
    <3> QED
      BY <2>1, <3>1, <3>2, CreatePendingTyped, RevokeTyped, DeleteApplicationTyped,
         RotateKeyTyped, RegenerateCreateTyped, ActivateReadTyped, ActivateSaveTyped,
         ValidateReadTyped, ValidateTouchTyped, KFailTyped DEF KHandler
  <2>2. CASE UNCHANGED kvars
    BY <2>2 DEF KTypeOK, kvars
  <2> QED  BY <2>1, <2>2 DEF KNext
<1> QED  BY <1>1, <1>2, PTL DEF KSpec

-----------------------------------------------------------------------------
(* One handler at a time *)

(* Requests are served one after the other.  Without this the invariants    *)
(* below fail: two rotations, or a rotation and a use, of the same keys     *)
(* interleave (the runs with several handlers show it).                     *)
Serial == \A g, h \in Handlers : g = h

(* What a rotation listed is still so; what it has not listed, or has dealt *)
(* with, is at most one key, which it demoted.                              *)
RotationOK(f) ==
    /\ f.app \in Apps /\ f.op \in {"regenerate", "activate"}
    /\ f.op = "activate" => f.key \in Keys /\ owner[f.key] = f.app
    /\ f.loaded => f.app \in apps
    /\ \A t \in f.todo : keys[t[1]] = t[2] /\ owner[t[1]] = f.app
    /\ \A x \in ActiveKeys(f.app) :
          \/ <<x, keys[x]>> \in f.todo
          \/ /\ keys[x] = "previous"
             /\ \A y \in ActiveKeys(f.app) :
                   y # x => keys[y] = "previous" /\ <<y, keys[y]>> \in f.todo

(* The key about to be activated exists, and the rotation left room for it. *)
ActivationOK(f) ==
    /\ f.key \in Keys /\ owner[f.key] \in Apps /\ keys[f.key] # "absent"
    /\ f.loaded => owner[f.key] \in apps
    /\ \A x, y \in ActiveKeys(owner[f.key]) : x = y /\ keys[x] = "previous"

(* The key about to be touched is as it was read.                           *)
TouchOK(f) ==
    /\ f.key \in Keys /\ owner[f.key] \in Apps
    /\ keys[f.key] = f.state /\ f.state \in ActiveStates
    /\ f.loaded => owner[f.key] \in apps

(* What the handler holds agrees with the tables.                           *)
UpToDate(f) ==
    /\ f.pc = "rotate" => RotationOK(f)
    /\ f.pc = "activate" => ActivationOK(f)
    /\ f.pc = "touch" => TouchOK(f)

FreshAbsent == \A k \in Keys : Fresh(k) => keys[k] = "absent"

SerialInv ==
    /\ KTypeOK /\ FreshAbsent
    /\ OneCurrent /\ AtMostTwoActive
    /\ \A h \in Handlers : UpToDate(kf[h])

(* What a step may not do: bring back a revoked key or a deleted            *)
(* application.                                                             *)
NothingRevived ==
    /\ \A k \in Keys : Created(k) /\ keys[k] = "absent" => keys'[k] = "absent"
    /\ apps' \subseteq apps

(* The handler that steps is the only one.                                  *)
LEMMA SerialFrames ==
    ASSUME Serial, NEW h \in Handlers, UpToDate(kf[h])'
    PROVE  \A g \in Handlers : UpToDate(kf[g])'
<1> SUFFICES ASSUME NEW g \in Handlers PROVE UpToDate(kf[g])'
  OBVIOUS
<1>1. g = h  BY DEF Serial
<1> QED  BY <1>1

(* A handler without frame.                                                 *)
LEMMA NoFrameUpToDate ==
    ASSUME KTypeOK, NEW h \in Handlers, kf'[h] = NoFrame PROVE UpToDate(kf[h])'
<1>1. NoFrame.pc = "idle"  BY DEF NoFrame
<1> QED  BY <1>1 DEF UpToDate

(* The only handler is idle: it holds nothing that a write could outdate.   *)
LEMMA IdleUpToDate ==
    ASSUME NEW h \in Handlers, KIdle(h), kf' = kf PROVE UpToDate(kf[h])'
  BY DEF UpToDate, KIdle

(* Demoting and deleting keys keeps their number and the one current key.   *)
LEMMA FewerKeys ==
    ASSUME SerialInv, owner' = owner,
           \A k \in Keys : \/ keys'[k] = keys[k] \/ keys'[k] = "absent"
                           \/ keys[k] = "current" /\ keys'[k] = "previous"
    PROVE  OneCurrent' /\ AtMostTwoActive' /\ FreshAbsent'
<1>1. \A k \in Keys : /\ keys'[k] = "current" => keys[k] = "current"
                      /\ keys'[k] \in ActiveStates => keys[k] \in ActiveStates
                      /\ keys[k] = "absent" => keys'[k] = "absent"
  BY DEF ActiveStates
<1>2. OneCurrent'
  BY <1>1 DEF SerialInv, OneCurrent
<1>3. \A a \in Apps : ActiveKeys(a)' \subseteq ActiveKeys(a)
  BY <1>1 DEF ActiveKeys
<1>4. AtMostTwoActive'
  BY <1>3 DEF SerialInv, AtMostTwoActive
<1>5. FreshAbsent'
  BY <1>1 DEF SerialInv, FreshAbsent, Fresh
<1> QED  BY <1>2, <1>4, <1>5

(* Writing back a key as it is changes nothing.                             *)
LEMMA SaveSame ==
    ASSUME KTypeOK, NEW k \in Keys, NEW st, NEW loaded, Save(k, st, loaded),
           loaded => owner[k] \in apps, keys[k] = st
    PROVE  UNCHANGED <<keys, owner, apps>>
  BY DEF Save, KTypeOK

(* A new key, while the application has at most one, which is not current.  *)
LEMMA AddCurrent ==
    ASSUME SerialInv, NEW k \in Keys, NEW a \in Apps,
           owner'[k] = a, keys'[k] = "current",
           \A x \in Keys \ {k} : keys'[x] = keys[x] /\ owner'[x] = owner[x],
           \A x, y \in ActiveKeys(a) : x = y /\ keys[x] = "previous",
           owner[k] = a \/ keys[k] = "absent"
    PROVE  OneCurrent' /\ AtMostTwoActive' /\ FreshAbsent'
<1>1. OneCurrent'
  <2> SUFFICES ASSUME NEW x \in Keys, NEW y \in Keys, keys'[x] = "current",
                      keys'[y] = "current", owner'[x] = owner'[y]
               PROVE  x = y
    BY DEF OneCurrent
  <2>1. \A z \in Keys \ {k} : keys'[z] = "current" => owner'[z] # a
    BY DEF ActiveKeys, ActiveStates
  <2> QED  BY <2>1 DEF SerialInv, OneCurrent
<1>2. AtMostTwoActive'
  <2> SUFFICES ASSUME NEW b \in Apps, NEW x \in ActiveKeys(b)', NEW y \in ActiveKeys(b)',
                      NEW z \in ActiveKeys(b)'
               PROVE  x = y \/ y = z \/ x = z
    BY DEF AtMostTwoActive
  <2>1. \A w \in ActiveKeys(b)' : w = k \/ w \in ActiveKeys(b)
    BY DEF ActiveKeys
  <2>2. CASE b = a
    BY <2>1, <2>2
  <2>3. CASE b # a
    <3>1. k \notin ActiveKeys(b)'  BY <2>3 DEF ActiveKeys
    <3> QED  BY <2>1, <3>1 DEF SerialInv, AtMostTwoActive
  <2> QED  BY <2>2, <2>3
<1>3. FreshAbsent'
  BY SecretKeysAssumption DEF SerialInv, FreshAbsent, Fresh
<1> QED  BY <1>1, <1>2, <1>3

(* A key that waits for approval does not count.                            *)
LEMMA CreatePendingSerial ==
    ASSUME Serial, SerialInv, NEW h \in Handlers, NEW a \in Apps, NEW k \in Keys,
           CreatePendingSecretKey(h, a, k)
    PROVE  SerialInv' /\ NothingRevived
<1> USE DEF CreatePendingSecretKey, Create
<1>1. KTypeOK'
  BY CreatePendingTyped DEF SerialInv
<1>2. /\ keys'[k] = "pending" /\ owner'[k] = a /\ owner[k] = NoApp /\ apps' = apps
      /\ \A x \in Keys \ {k} : keys'[x] = keys[x] /\ owner'[x] = owner[x]
  BY DEF SerialInv, KTypeOK, Fresh
<1>3. OneCurrent'
  BY <1>2 DEF SerialInv, OneCurrent
<1>4. \A b \in Apps : ActiveKeys(b)' \subseteq ActiveKeys(b)
  BY <1>2 DEF ActiveKeys, ActiveStates
<1>5. AtMostTwoActive'
  BY <1>4 DEF SerialInv, AtMostTwoActive
<1>6. FreshAbsent'
  BY <1>2, SecretKeysAssumption DEF SerialInv, FreshAbsent, Fresh
<1>7. \A g \in Handlers : UpToDate(kf[g])'
  BY IdleUpToDate, SerialFrames
<1>8. NothingRevived
  BY <1>2 DEF NothingRevived, Created, Fresh
<1> QED  BY <1>1, <1>3, <1>5, <1>6, <1>7, <1>8 DEF SerialInv

(* Revocation.                                                              *)
LEMMA RevokeSerial ==
    ASSUME Serial, SerialInv, NEW h \in Handlers, NEW k, RevokeSecretKey(h, k)
    PROVE  SerialInv' /\ NothingRevived
<1> USE DEF RevokeSecretKey
<1>1. KTypeOK'
  BY RevokeTyped DEF SerialInv
<1>2. owner' = owner /\ apps' = apps
  BY DEF Delete
<1>3. \A x \in Keys : keys'[x] = keys[x] \/ keys'[x] = "absent"
  BY DEF SerialInv, KTypeOK, Delete
<1>4. OneCurrent' /\ AtMostTwoActive' /\ FreshAbsent'
  BY <1>2, <1>3, FewerKeys
<1>5. \A g \in Handlers : UpToDate(kf[g])'
  BY IdleUpToDate, SerialFrames
<1>6. NothingRevived
  BY <1>2, <1>3 DEF NothingRevived
<1> QED  BY <1>1, <1>4, <1>5, <1>6 DEF SerialInv

(* Deletion of the application with its keys.                               *)
LEMMA DeleteApplicationSerial ==
    ASSUME Serial, SerialInv, NEW h \in Handlers, NEW a, DeleteApplication(h, a)
    PROVE  SerialInv' /\ NothingRevived
<1> USE DEF DeleteApplication
<1>1. KTypeOK'
  BY DeleteApplicationTyped DEF SerialInv
<1>2. \A x \in Keys : keys'[x] = keys[x] \/ keys'[x] = "absent"
  BY DEF SerialInv, KTypeOK
<1>3. OneCurrent' /\ AtMostTwoActive' /\ FreshAbsent'
  BY <1>2, FewerKeys
<1>4. \A g \in Handlers : UpToDate(kf[g])'
  BY IdleUpToDate, SerialFrames
<1>5. NothingRevived
  BY <1>2 DEF NothingRevived
<1> QED  BY <1>1, <1>3, <1>4, <1>5 DEF SerialInv

(* A step that only changes the frame of the handler.                       *)
LEMMA FrameOnlySerial ==
    ASSUME Serial, SerialInv, NEW h \in Handlers, KTypeOK', UNCHANGED <<keys, owner, apps>>,
           UpToDate(kf[h])'
    PROVE  SerialInv' /\ NothingRevived
<1>1. OneCurrent' /\ AtMostTwoActive' /\ FreshAbsent'
  BY FewerKeys
<1>2. \A g \in Handlers : UpToDate(kf[g])'
  BY SerialFrames
<1>3. NothingRevived
  BY DEF NothingRevived
<1> QED  BY <1>1, <1>2, <1>3 DEF SerialInv

(* A frame that agrees with the tables after the step.                      *)
LEMMA FrameUpToDate ==
    ASSUME NEW h \in Handlers, NEW f, kf'[h] = f, UNCHANGED <<keys, owner, apps>>,
           UpToDate(f)
    PROVE  UpToDate(kf[h])'
  BY DEF UpToDate, RotationOK, ActivationOK, TouchOK, ActiveKeys

(* The listing of a rotation.                                               *)
LEMMA BeginRotationSerial ==
    ASSUME Serial, SerialInv, NEW h \in Handlers, NEW op \in {"regenerate", "activate"},
           NEW a \in Apps, NEW k \in Keys \cup {NoKey},
           op = "activate" => k \in Keys /\ owner[k] = a, BeginRotation(h, op, a, k)
    PROVE  SerialInv' /\ NothingRevived
<1> USE DEF BeginRotation
<1>1. KTypeOK'
  BY BeginRotationTyped DEF SerialInv
<1>2. PICK todo, b : todo = {<<x, keys[x]>> : x \in ActiveKeys(a)} /\ b = (a \in apps)
  OBVIOUS
<1>3. PICK f : f = [NoFrame EXCEPT !.pc = "rotate", !.op = op, !.app = a, !.key = k,
                                   !.loaded = b, !.todo = todo]
  OBVIOUS
<1>4. kf'[h] = f
  BY <1>2, <1>3 DEF SerialInv, KTypeOK
<1>5. /\ f.pc = "rotate" /\ f.op = op /\ f.app = a /\ f.key = k
      /\ f.loaded = b /\ f.todo = todo
  BY <1>3 DEF NoFrame
<1>6. /\ \A t \in todo : keys[t[1]] = t[2] /\ owner[t[1]] = a
      /\ \A x \in ActiveKeys(a) : <<x, keys[x]>> \in todo
  BY <1>2 DEF ActiveKeys
<1>7. RotationOK(f)
  BY <1>2, <1>5, <1>6 DEF RotationOK
<1>8. UpToDate(f)
  BY <1>5, <1>7 DEF UpToDate
<1> QED  BY <1>1, <1>4, <1>8, FrameUpToDate, FrameOnlySerial

(* The current key is demoted, a previous one revoked.                      *)
LEMMA RotateKeySerial ==
    ASSUME Serial, SerialInv, NEW h \in Handlers, NEW t, RotateKey(h, t)
    PROVE  SerialInv' /\ NothingRevived
<1> USE DEF RotateKey
<1>1. KTypeOK'
  BY RotateKeyTyped DEF SerialInv
<1>2. PICK f : f = kf[h]
  OBVIOUS
<1>3. /\ f \in Frames /\ f.pc = "rotate" /\ t \in f.todo /\ RotationOK(f)
  BY <1>2 DEF SerialInv, KTypeOK, UpToDate
<1>4. PICK k \in Keys, st \in ActiveStates : t = <<k, st>>
  BY <1>3 DEF Frames
<1>5. keys[k] = st /\ owner[k] = f.app /\ f.app \in Apps
  BY <1>3, <1>4 DEF RotationOK
<1>6. /\ owner' = owner /\ apps' = apps
      /\ keys' = [keys EXCEPT ![k] = IF st = "current" THEN "previous" ELSE "absent"]
  <2>1. CASE st = "current"
    <3>1. Save(k, "previous", f.loaded)  BY <1>2, <1>4, <2>1
    <3>2. f.loaded => owner[k] \in apps  BY <1>3, <1>5 DEF RotationOK
    <3> QED  BY <2>1, <3>1, <3>2 DEF Save
  <2>2. CASE st # "current"
    <3>1. Delete(k)  BY <1>4, <2>2
    <3> QED  BY <2>2, <3>1 DEF Delete
  <2> QED  BY <2>1, <2>2
<1>7. /\ keys'[k] = (IF st = "current" THEN "previous" ELSE "absent")
      /\ \A x \in Keys \ {k} : keys'[x] = keys[x]
  BY <1>6 DEF SerialInv, KTypeOK
<1>8. OneCurrent' /\ AtMostTwoActive' /\ FreshAbsent'
  BY <1>5, <1>6, <1>7, FewerKeys
<1>9. NothingRevived
  <2>1. keys[k] # "absent"  BY <1>5 DEF ActiveStates
  <2> QED  BY <1>6, <1>7, <2>1 DEF NothingRevived
<1>10. PICK e : e = [f EXCEPT !.todo = f.todo \ {t}]
  OBVIOUS
<1>11. /\ kf'[h] = e /\ e.pc = "rotate" /\ e.op = f.op /\ e.app = f.app /\ e.key = f.key
       /\ e.loaded = f.loaded /\ e.todo = f.todo \ {t}
  <2>1. /\ e.pc = "rotate" /\ e.op = f.op /\ e.app = f.app /\ e.key = f.key
        /\ e.loaded = f.loaded /\ e.todo = f.todo \ {t}
    BY <1>3, <1>10 DEF Frames
  <2>2. kf'[h] = e  BY <1>2, <1>10 DEF SerialInv, KTypeOK
  <2> QED  BY <2>1, <2>2
<1>12. \A x \in Keys : x \in ActiveKeys(f.app)' =>
             x \in ActiveKeys(f.app) /\ (x = k => st = "current")
  BY <1>5, <1>6, <1>7 DEF ActiveKeys, ActiveStates
<1>13. \A u \in e.todo : keys'[u[1]] = u[2] /\ owner'[u[1]] = f.app
  <2> SUFFICES ASSUME NEW u \in f.todo, u # t
               PROVE  keys'[u[1]] = u[2] /\ owner'[u[1]] = f.app
    BY <1>11
  <2>1. PICK y \in Keys, sy \in ActiveStates : u = <<y, sy>>  BY <1>3 DEF Frames
  <2>2. keys[y] = sy /\ owner[y] = f.app  BY <1>3, <2>1 DEF RotationOK
  <2>3. y # k  BY <1>4, <1>5, <2>1, <2>2
  <2> QED  BY <1>6, <1>7, <2>1, <2>2, <2>3
<1>14. ASSUME NEW x \in ActiveKeys(f.app)'
       PROVE  \/ <<x, keys'[x]>> \in e.todo
              \/ /\ keys'[x] = "previous"
                 /\ \A y \in ActiveKeys(f.app)' :
                       y # x => keys'[y] = "previous" /\ <<y, keys'[y]>> \in e.todo
  <2>0. x \in Keys /\ x \in ActiveKeys(f.app)  BY <1>12 DEF ActiveKeys
  <2>1. \A w \in ActiveKeys(f.app) :
           \/ <<w, keys[w]>> \in f.todo
           \/ /\ keys[w] = "previous"
              /\ \A y \in ActiveKeys(f.app) :
                    y # w => keys[y] = "previous" /\ <<y, keys[y]>> \in f.todo
    BY <1>3 DEF RotationOK
  <2>2. k \in ActiveKeys(f.app)  BY <1>5 DEF ActiveKeys
  <2>3. CASE x = k
    <3>1. st = "current" /\ keys'[x] = "previous"  BY <1>7, <1>12, <2>0, <2>3
    <3>2. ASSUME NEW y \in ActiveKeys(f.app)', y # x
          PROVE  keys'[y] = "previous" /\ <<y, keys'[y]>> \in e.todo
      <4>1. y \in Keys /\ y \in ActiveKeys(f.app)  BY <1>12 DEF ActiveKeys
      <4>2. <<y, keys[y]>> \in f.todo  BY <1>5, <2>1, <2>2, <2>3, <3>1, <3>2, <4>1
      <4>3. keys[y] = "previous"
        BY <1>5, <2>3, <3>1, <3>2, <4>1 DEF SerialInv, OneCurrent, ActiveKeys, ActiveStates
      <4> QED  BY <1>4, <1>7, <1>11, <2>3, <3>2, <4>1, <4>2, <4>3
    <3> QED  BY <3>1, <3>2
  <2>4. CASE x # k /\ <<x, keys[x]>> \in f.todo
    BY <1>4, <1>7, <1>11, <2>0, <2>4
  <2>5. CASE x # k /\ <<x, keys[x]>> \notin f.todo
    <3>1. keys'[x] = "previous"  BY <1>7, <2>0, <2>1, <2>5
    <3>2. st = "previous"  BY <1>5, <2>0, <2>1, <2>2, <2>5
    <3>3. ASSUME NEW y \in ActiveKeys(f.app)', y # x
          PROVE  keys'[y] = "previous" /\ <<y, keys'[y]>> \in e.todo
      <4>1. y \in Keys /\ y \in ActiveKeys(f.app) /\ y # k  BY <1>12, <3>2 DEF ActiveKeys
      <4>2. keys[y] = "previous" /\ <<y, keys[y]>> \in f.todo  BY <2>0, <2>1, <2>5, <3>3, <4>1
      <4> QED  BY <1>4, <1>7, <1>11, <4>1, <4>2
    <3> QED  BY <3>1, <3>3
  <2> QED  BY <2>3, <2>4, <2>5
<1>15. UpToDate(kf[h])'
  <2>1. RotationOK(e)'  BY <1>3, <1>6, <1>11, <1>13, <1>14 DEF RotationOK
  <2> QED  BY <1>11, <2>1 DEF UpToDate, RotationOK, ActiveKeys
<1>16. \A g \in Handlers : UpToDate(kf[g])'
  BY <1>15, SerialFrames
<1> QED  BY <1>1, <1>8, <1>9, <1>16 DEF SerialInv

(* The new current key, after the rotation.                                 *)
LEMMA RegenerateCreateSerial ==
    ASSUME Serial, SerialInv, NEW h \in Handlers, NEW k \in Keys, RegenerateCreate(h, k)
    PROVE  SerialInv' /\ NothingRevived
<1> USE DEF RegenerateCreate, Create
<1>1. KTypeOK'
  BY RegenerateCreateTyped DEF SerialInv
<1>2. PICK a \in Apps : a = kf[h].app /\ \A x, y \in ActiveKeys(a) : x = y /\ keys[x] = "previous"
  BY DEF SerialInv, UpToDate, RotationOK
<1>3. /\ keys'[k] = "current" /\ owner'[k] = a /\ owner[k] = NoApp /\ apps' = apps
      /\ \A x \in Keys \ {k} : keys'[x] = keys[x] /\ owner'[x] = owner[x]
  BY <1>2 DEF SerialInv, KTypeOK, Fresh
<1>4. keys[k] = "absent"
  BY <1>3 DEF SerialInv, FreshAbsent, Fresh
<1>5. OneCurrent' /\ AtMostTwoActive' /\ FreshAbsent'
  BY <1>2, <1>3, <1>4, AddCurrent
<1>6. kf'[h] = NoFrame
  BY DEF Finish, SerialInv, KTypeOK
<1>7. \A g \in Handlers : UpToDate(kf[g])'
  BY <1>6, NoFrameUpToDate, SerialFrames DEF SerialInv
<1>8. NothingRevived
  BY <1>3 DEF NothingRevived, Created, Fresh
<1> QED  BY <1>1, <1>5, <1>7, <1>8 DEF SerialInv

(* The lookup of the key to activate.                                       *)
LEMMA ActivateReadSerial ==
    ASSUME Serial, SerialInv, NEW h \in Handlers, ActivateRead(h)
    PROVE  SerialInv' /\ NothingRevived
<1> USE DEF ActivateRead
<1>1. KTypeOK'
  BY ActivateReadTyped DEF SerialInv
<1>2. PICK f, b : f = kf[h] /\ b = (owner[kf[h].key] \in apps)
  OBVIOUS
<1>3. /\ f \in Frames /\ RotationOK(f) /\ f.op = "activate" /\ f.todo = {}
      /\ keys[f.key] # "absent"
  BY <1>2 DEF SerialInv, KTypeOK, UpToDate
<1>4. PICK e : e = [f EXCEPT !.pc = "activate", !.loaded = b]
  OBVIOUS
<1>5. e.pc = "activate" /\ e.key = f.key /\ e.loaded = b
  BY <1>3, <1>4 DEF Frames
<1>6. kf'[h] = e
  BY <1>2, <1>4 DEF SerialInv, KTypeOK
<1>7. ActivationOK(e)
  BY <1>2, <1>3, <1>5 DEF RotationOK, ActivationOK
<1>8. UpToDate(e)
  BY <1>5, <1>7 DEF UpToDate
<1> QED  BY <1>1, <1>6, <1>8, FrameUpToDate, FrameOnlySerial

(* Its activation.                                                          *)
LEMMA ActivateSaveSerial ==
    ASSUME Serial, SerialInv, NEW h \in Handlers, ActivateSave(h)
    PROVE  SerialInv' /\ NothingRevived
<1> USE DEF ActivateSave
<1>1. KTypeOK'
  BY ActivateSaveTyped DEF SerialInv
<1>2. PICK f, k : f = kf[h] /\ k = f.key
  OBVIOUS
<1>3. ActivationOK(f)
  BY <1>2 DEF SerialInv, UpToDate
<1>4. /\ k \in Keys /\ owner[k] \in Apps /\ keys[k] # "absent"
      /\ \A x, y \in ActiveKeys(owner[k]) : x = y /\ keys[x] = "previous"
  BY <1>2, <1>3 DEF ActivationOK
<1>5. keys' = [keys EXCEPT ![k] = "current"] /\ owner' = owner /\ apps' = apps
  BY <1>2, <1>3 DEF Save, ActivationOK
<1>6. keys'[k] = "current" /\ \A x \in Keys \ {k} : keys'[x] = keys[x]
  BY <1>4, <1>5 DEF SerialInv, KTypeOK
<1>7. OneCurrent' /\ AtMostTwoActive' /\ FreshAbsent'
  BY <1>4, <1>5, <1>6, AddCurrent
<1>8. kf'[h] = NoFrame
  BY DEF Finish, SerialInv, KTypeOK
<1>9. \A g \in Handlers : UpToDate(kf[g])'
  BY <1>8, NoFrameUpToDate, SerialFrames DEF SerialInv
<1>10. NothingRevived
  BY <1>4, <1>5, <1>6 DEF NothingRevived
<1> QED  BY <1>1, <1>7, <1>9, <1>10 DEF SerialInv

(* A client presents a key.                                                 *)
LEMMA ValidateReadSerial ==
    ASSUME Serial, SerialInv, NEW h \in Handlers, NEW k \in Keys, ValidateRead(h, k)
    PROVE  SerialInv' /\ NothingRevived
<1> USE DEF ValidateRead
<1>1. KTypeOK'
  BY ValidateReadTyped DEF SerialInv
<1>2. PICK b, st : b = (owner[k] \in apps) /\ st = keys[k]
  OBVIOUS
<1>3. PICK f : f = [NoFrame EXCEPT !.pc = "touch", !.op = "validate", !.key = k,
                                   !.state = st, !.loaded = b]
  OBVIOUS
<1>4. kf'[h] = f
  BY <1>2, <1>3 DEF SerialInv, KTypeOK
<1>5. f.pc = "touch" /\ f.key = k /\ f.state = st /\ f.loaded = b
  BY <1>3 DEF NoFrame
<1>6. owner[k] \in Apps
  BY DEF SerialInv, KTypeOK, FreshAbsent, Fresh, ActiveStates
<1>7. TouchOK(f)
  BY <1>2, <1>5, <1>6 DEF TouchOK
<1>8. UpToDate(f)
  BY <1>5, <1>7 DEF UpToDate
<1> QED  BY <1>1, <1>4, <1>8, FrameUpToDate, FrameOnlySerial

(* The key is saved back as it is.                                          *)
LEMMA ValidateTouchSerial ==
    ASSUME Serial, SerialInv, NEW h \in Handlers, ValidateTouch(h)
    PROVE  SerialInv' /\ NothingRevived
<1> USE DEF ValidateTouch
<1>1. KTypeOK'
  BY ValidateTouchTyped DEF SerialInv
<1>2. TouchOK(kf[h])
  BY DEF SerialInv, UpToDate
<1>3. UNCHANGED <<keys, owner, apps>>
  BY <1>2, SaveSame DEF TouchOK, SerialInv
<1>4. kf'[h] = NoFrame
  BY DEF Finish, SerialInv, KTypeOK
<1> QED  BY <1>1, <1>3, <1>4, NoFrameUpToDate, FrameOnlySerial DEF SerialInv

(* A handler that gives up, even in the middle of a rotation.               *)
LEMMA KFailSerial ==
    ASSUME Serial, SerialInv, NEW h \in Handlers, KFail(h)
    PROVE  SerialInv' /\ NothingRevived
<1>1. KTypeOK'
  BY KFailTyped DEF SerialInv
<1>2. kf'[h] = NoFrame /\ UNCHANGED <<keys, owner, apps>>
  BY DEF KFail, Finish, SerialInv, KTypeOK
<1> QED  BY <1>1, <1>2, NoFrameUpToDate, FrameOnlySerial DEF SerialInv

(* One handler: the invariant is inductive, and no step revives anything.   *)
LEMMA SerialNext ==
    ASSUME Serial, SerialInv, [KNext]_kvars PROVE SerialInv' /\ NothingRevived
<1>1. ASSUME NEW h \in Handlers, KHandler(h) PROVE SerialInv' /\ NothingRevived
  <2>1. ASSUME NEW a \in Apps, BeginRegenerate(h, a) PROVE SerialInv' /\ NothingRevived
    BY <2>1, BeginRotationSerial DEF BeginRegenerate
  <2>2. ASSUME NEW k \in Keys, BeginActivate(h, k, owner[k])
        PROVE  SerialInv' /\ NothingRevived
    <3>1. PICK a \in Apps : a = owner[k]
      BY <2>2 DEF BeginActivate, Created, Fresh, SerialInv, KTypeOK
    <3>2. BeginRotation(h, "activate", a, k)  BY <2>2, <3>1 DEF BeginActivate
    <3> QED  BY <3>1, <3>2, BeginRotationSerial
  <2> QED
    BY <1>1, <2>1, <2>2, CreatePendingSerial, RevokeSerial, DeleteApplicationSerial,
       RotateKeySerial, RegenerateCreateSerial, ActivateReadSerial, ActivateSaveSerial,
       ValidateReadSerial, ValidateTouchSerial, KFailSerial DEF KHandler
<1>2. CASE UNCHANGED kvars
  <2>1. KTypeOK'  BY <1>2 DEF SerialInv, KTypeOK, kvars
  <2>2. OneCurrent' /\ AtMostTwoActive' /\ FreshAbsent'  BY <1>2, FewerKeys DEF kvars
  <2>3. \A g \in Handlers : UpToDate(kf[g])'
    BY <1>2 DEF SerialInv, UpToDate, RotationOK, ActivationOK, TouchOK, ActiveKeys, kvars
  <2> QED  BY <1>2, <2>1, <2>2, <2>3 DEF SerialInv, NothingRevived, kvars
<1> QED  BY <1>1, <1>2 DEF KNext

(* One handler: what it holds agrees with the tables in every state.        *)
THEOREM SerialInvariance == ASSUME Serial PROVE KSpec => []SerialInv
<1>1. KInit => SerialInv
  <2> SUFFICES ASSUME KInit PROVE SerialInv
    OBVIOUS
  <2> USE DEF KInit
  <2>1. KTypeOK  BY NoFrameTyped DEF KTypeOK, KeyStates
  <2>2. OneCurrent /\ AtMostTwoActive /\ FreshAbsent
    BY DEF OneCurrent, AtMostTwoActive, FreshAbsent, ActiveKeys, ActiveStates
  <2>3. \A h \in Handlers : UpToDate(kf[h])  BY DEF UpToDate, NoFrame
  <2> QED  BY <2>1, <2>2, <2>3 DEF SerialInv
<1>2. SerialInv /\ [KNext]_kvars => SerialInv'
  BY SerialNext
<1> QED  BY <1>1, <1>2, PTL DEF KSpec

(* As long as requests are served one at a time, an application has at most *)
(* one current key, whatever rotations and activations failed half-way.     *)
THEOREM SerialOneCurrent == ASSUME Serial PROVE KSpec => []OneCurrent
<1>1. SerialInv => OneCurrent  BY DEF SerialInv
<1> QED  BY <1>1, SerialInvariance, PTL

(* And at most two of its keys authenticate.                                *)
THEOREM SerialAtMostTwo == ASSUME Serial PROVE KSpec => []AtMostTwoActive
<1>1. SerialInv => AtMostTwoActive  BY DEF SerialInv
<1> QED  BY <1>1, SerialInvariance, PTL

(* One request at a time, a revoked key never authenticates again: every    *)
(* Save finds the row it was read from.                                     *)
THEOREM SerialRevocation == ASSUME Serial PROVE KSpec => RevokedStaysRevoked
<1>1. SerialInv /\ [KNext]_kvars =>
        [\A k \in Keys : Created(k) /\ keys[k] = "absent" => keys'[k] = "absent"]_kvars
  BY SerialNext DEF NothingRevived
<1> QED  BY <1>1, SerialInvariance, PTL DEF KSpec, RevokedStaysRevoked
================================================================================
