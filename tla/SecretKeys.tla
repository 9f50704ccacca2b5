------------------------------ MODULE SecretKeys ------------------------------
(***************************************************************************)
(* Service keys of an application: creation, rotation with an overlap      *)
(* window, activation of a key that was waiting for approval, use and      *)
(* revocation (usecase/secret_key_usecase.go and its repository).          *)
(*                                                                         *)
(* Every HTTP request runs in a goroutine of its own and no use case here  *)
(* opens a transaction, so a handler is a sequence of database steps and   *)
(* the steps of different handlers interleave.  What a handler has read    *)
(* stays in its frame kf[h] until it writes.                               *)
(*                                                                         *)
(* A row is abstracted to its (active, is_current) pair: pending is        *)
(* (false, true), current (true, true), previous (true, false), and absent *)
(* means that there is no row.                                             *)
(***************************************************************************)
EXTENDS Naturals, FiniteSets

CONSTANTS Handlers,   \* goroutines serving requests
          Keys,       \* key identifiers (ULIDs, never reused)
          Apps,       \* applications
          NoKey, NoApp

ASSUME SecretKeysAssumption == NoKey \notin Keys /\ NoApp \notin Apps

VARIABLES keys,    \* table secret_keys, one state per identifier
          owner,   \* application_id of every key ever created
          apps,    \* table applications: the rows that exist
          kf       \* what each handler holds between two database steps

kvars == <<keys, owner, apps, kf>>

KeyStates == {"absent", "pending", "current", "previous"}
ActiveStates == {"current", "previous"}

NoFrame == [pc |-> "idle", op |-> "none", app |-> NoApp, key |-> NoKey,
            state |-> "absent", loaded |-> FALSE, todo |-> {}]

Frames == [pc : {"idle", "rotate", "activate", "touch"},
           op : {"none", "regenerate", "activate", "validate"},
           app : Apps \cup {NoApp}, key : Keys \cup {NoKey},
           state : KeyStates, loaded : BOOLEAN,
           todo : SUBSET (Keys \X ActiveStates)]

KTypeOK ==
    /\ keys \in [Keys -> KeyStates]
    /\ owner \in [Keys -> Apps \cup {NoApp}]
    /\ apps \in SUBSET Apps
    /\ kf \in [Handlers -> Frames]

KInit ==
    /\ keys = [k \in Keys |-> "absent"]
    /\ owner = [k \in Keys |-> NoApp]
    /\ apps = Apps
    /\ kf = [h \in Handlers |-> NoFrame]

-----------------------------------------------------------------------------
(* The repository *)

Fresh(k) == owner[k] = NoApp
Created(k) == ~Fresh(k)

(* Mistake: rotation without "if !key.Active continue".                     *)
ActiveKeysUnfiltered(a) == {k \in Keys : owner[k] = a /\ keys[k] # "absent"}

ActiveKeys(a) == {k \in Keys : owner[k] = a /\ keys[k] \in ActiveStates}

Create(k, a, st) ==
    /\ Fresh(k)
    /\ keys' = [keys EXCEPT ![k] = st]
    /\ owner' = [owner EXCEPT ![k] = a]
    /\ apps' = apps

(* gorm's Save writes every column of the struct; when no row matches it    *)
(* inserts one, so saving a key read before its deletion brings it back.    *)
(* Save also inserts the preloaded Application when its row is gone.        *)
Save(k, st, loaded) ==
    /\ keys' = [keys EXCEPT ![k] = st]
    /\ apps' = IF loaded THEN apps \cup ({owner[k]} \cap Apps) ELSE apps
    /\ owner' = owner

Delete(k) ==
    /\ keys' = [keys EXCEPT ![k] = "absent"]
    /\ UNCHANGED <<owner, apps>>

Finish(h) == kf' = [kf EXCEPT ![h] = NoFrame]
KIdle(h) == kf[h].pc = "idle"

-----------------------------------------------------------------------------
(* One-step operations *)

(* Mistake: a requested key that is active from the start.                  *)
CreateActiveSecretKey(h, a, k) ==
    /\ KIdle(h)
    /\ Create(k, a, "current")
    /\ kf' = kf

(* createSecretKey with active = false: the plain text is handed out now,   *)
(* the key authenticates only once activated.                               *)
CreatePendingSecretKey(h, a, k) ==
    /\ KIdle(h)
    /\ Create(k, a, "pending")
    /\ kf' = kf

(* RevokeSecretKey and DeleteSecretKey: both delete the row.                *)
RevokeSecretKey(h, k) ==
    /\ KIdle(h)
    /\ Created(k)
    /\ Delete(k)
    /\ kf' = kf

(* The one transaction of the system, as far as keys are concerned.         *)
DeleteApplication(h, a) ==
    /\ KIdle(h)
    /\ a \in apps
    /\ apps' = apps \ {a}
    /\ keys' = [k \in Keys |-> IF owner[k] = a THEN "absent" ELSE keys[k]]
    /\ UNCHANGED <<owner, kf>>

-----------------------------------------------------------------------------
(* rotateExistingKeys: list the keys of the application, then demote or     *)
(* revoke them one by one.  The query has no ORDER BY: any order.           *)

BeginRotation(h, op, a, k) ==
    /\ KIdle(h)
    /\ kf' = [kf EXCEPT ![h] = [NoFrame EXCEPT
                 !.pc = "rotate", !.op = op, !.app = a, !.key = k,
                 !.loaded = (a \in apps),
                 !.todo = {<<x, keys[x]>> : x \in ActiveKeys(a)}]]
    /\ UNCHANGED <<keys, owner, apps>>

(* Mistakes: the current key is not demoted, the previous one not revoked.  *)
RotateKeepingCurrent(h, t) ==
    /\ kf[h].pc = "rotate"
    /\ t \in kf[h].todo
    /\ IF t[2] = "current" THEN UNCHANGED <<keys, owner, apps>> ELSE Delete(t[1])
    /\ kf' = [kf EXCEPT ![h].todo = @ \ {t}]

RotateKeepingPrevious(h, t) ==
    /\ kf[h].pc = "rotate"
    /\ t \in kf[h].todo
    /\ IF t[2] = "current"
         THEN Save(t[1], "previous", kf[h].loaded)
         ELSE UNCHANGED <<keys, owner, apps>>
    /\ kf' = [kf EXCEPT ![h].todo = @ \ {t}]

RotateKey(h, t) ==
    /\ kf[h].pc = "rotate"
    /\ t \in kf[h].todo
    /\ IF t[2] = "current"
         THEN Save(t[1], "previous", kf[h].loaded)
         ELSE Delete(t[1])
    /\ kf' = [kf EXCEPT ![h].todo = @ \ {t}]

(* RegenerateSecretKey: rotate, then create the new current key.            *)
BeginRegenerate(h, a) == BeginRotation(h, "regenerate", a, NoKey)

RegenerateCreate(h, k) ==
    /\ kf[h].pc = "rotate" /\ kf[h].op = "regenerate" /\ kf[h].todo = {}
    /\ Create(k, kf[h].app, "current")
    /\ Finish(h)

(* ActivateAndRotateSecretKey: the rotation comes before the lookup of the  *)
(* key to activate, and nothing undoes it when the lookup fails.            *)
BeginActivate(h, k, a) ==
    /\ Created(k)
    /\ BeginRotation(h, "activate", a, k)

(* Mistake: the key is activated without being looked up.                   *)
ActivateUnread(h) ==
    /\ kf[h].pc = "rotate" /\ kf[h].op = "activate" /\ kf[h].todo = {}
    /\ kf' = [kf EXCEPT ![h].pc = "activate",
                        ![h].loaded = (owner[kf[h].key] \in apps)]
    /\ UNCHANGED <<keys, owner, apps>>

ActivateRead(h) ==
    /\ kf[h].pc = "rotate" /\ kf[h].op = "activate" /\ kf[h].todo = {}
    /\ keys[kf[h].key] # "absent"
    /\ kf' = [kf EXCEPT ![h].pc = "activate",
                        ![h].loaded = (owner[kf[h].key] \in apps)]
    /\ UNCHANGED <<keys, owner, apps>>

ActivateSave(h) ==
    /\ kf[h].pc = "activate"
    /\ Save(kf[h].key, "current", kf[h].loaded)
    /\ Finish(h)

-----------------------------------------------------------------------------
(* ValidateSecretKey: look the hash up, refuse an inactive key, then save   *)
(* the whole row back only to record last_used_at.                          *)

ValidateRead(h, k) ==
    /\ KIdle(h)
    /\ keys[k] \in ActiveStates
    /\ kf' = [kf EXCEPT ![h] = [NoFrame EXCEPT
                 !.pc = "touch", !.op = "validate", !.key = k,
                 !.state = keys[k], !.loaded = (owner[k] \in apps)]]
    /\ UNCHANGED <<keys, owner, apps>>

ValidateTouch(h) ==
    /\ kf[h].pc = "touch"
    /\ Save(kf[h].key, kf[h].state, kf[h].loaded)
    /\ Finish(h)

(* A handler gives up: a database error, a lookup that finds nothing, or    *)
(* the process stops.  What it has written stays written.                   *)
KFail(h) ==
    /\ ~KIdle(h)
    /\ Finish(h)
    /\ UNCHANGED <<keys, owner, apps>>

-----------------------------------------------------------------------------
KHandler(h) ==
    \/ \E a \in Apps, k \in Keys : CreatePendingSecretKey(h, a, k)
    \/ \E k \in Keys : RevokeSecretKey(h, k)
    \/ \E a \in Apps : DeleteApplication(h, a)
    \/ \E a \in Apps : BeginRegenerate(h, a)
    \/ \E k \in Keys : RegenerateCreate(h, k)
    \/ \E k \in Keys : BeginActivate(h, k, owner[k])
    \/ \E t \in kf[h].todo : RotateKey(h, t)
    \/ ActivateRead(h)
    \/ ActivateSave(h)
    \/ \E k \in Keys : ValidateRead(h, k)
    \/ ValidateTouch(h)
    \/ KFail(h)

KNext == \E h \in Handlers : KHandler(h)

KSpec == KInit /\ [][KNext]_kvars

-----------------------------------------------------------------------------
(* At most one key of an application is the current one: rotation demotes   *)
(* the old current key before the new one appears.                          *)
OneCurrent ==
    \A k1, k2 \in Keys :
        keys[k1] = "current" /\ keys[k2] = "current" /\ owner[k1] = owner[k2]
            => k1 = k2

(* GetSecretKeysByApplicationID returns "at most 2 (current + previous)":   *)
(* no three keys of one application authenticate, whatever sequence of      *)
(* rotations, activations, re-executions and failures came before.          *)
AtMostTwoActive ==
    \A a \in Apps : \A k1, k2, k3 \in ActiveKeys(a) :
        k1 = k2 \/ k2 = k3 \/ k1 = k3

(* RevokeSecretKey: a revoked key never authenticates again.                *)
RevokedStaysRevoked ==
    [][\A k \in Keys : Created(k) /\ keys[k] = "absent" => keys'[k] = "absent"]_kvars
=============================================================================
