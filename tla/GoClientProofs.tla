---------------------------- MODULE GoClientProofs ----------------------------
(***************************************************************************)
(* Safety of the Go client's life cycle for any number of goroutines and   *)
(* any number of changes on the server.                                    *)
(***************************************************************************)
EXTENDS GoClient, TLAPS

USE DEF Caches

(* refreshMu is held exactly by the goroutine inside refreshOnce.           *)
Mutex == \A p \in Procs : pc[p] \in Fetching <=> refreshMu = p

(* p is in the part of Start behind the swap of started.                    *)
Starting(p) ==
    \/ pc[p] \in {"makeStop", "makeDone", "spawn"}
    \/ op[p] = "start" /\ pc[p] \in {"lock"} \cup Fetching

(* At most one goroutine gets there, and before the loop exists.            *)
OneStarter ==
    /\ ~started => pc[Loop] = "idle"
    /\ \A p \in Callers : Starting(p) => started /\ pc[Loop] = "idle"
    /\ \A p, q \in Callers : Starting(p) /\ Starting(q) => p = q
    /\ pc[Loop] \in {"idle", "wait", "lock", "ended"} \cup Fetching
    /\ pc[Loop] # "idle" => op[Loop] = "loop"

(* Shutdown's steps come after its flag.                                    *)
FlagFirst ==
    /\ returned => shutdown
    /\ \A p \in Callers : pc[p] \in {"stop", "done", "await", "hung", "clear"} => shutdown

(* The snapshot, and what the goroutine holding the mutex knows of it.      *)
Coherent ==
    /\ cache.etag \in {0, cache.app}
    /\ cache.app <= server
    /\ \A p \in Procs : pc[p] = "fetch" => resp[p].etag = cache.etag
    /\ \A p \in Procs : pc[p] \in {"answer", "apply"} =>
          /\ resp[p].kind = "304" => resp[p].app = cache.app /\ resp[p].etag \in {0, resp[p].app}
          /\ resp[p].kind = "200" => /\ resp[p].etag \in {0, resp[p].app}
                                     /\ cache.app <= resp[p].app
                                     /\ resp[p].app <= server

GInv == GTypeOK /\ Mutex /\ OneStarter /\ FlagFirst /\ Coherent /\ ShutdownTerminal

-----------------------------------------------------------------------------
(* The initial state: nobody has called anything and the cache is empty.    *)
LEMMA GInitInv == ASSUME GInit PROVE GInv
<1> USE GoClientAssumption DEF GInit, Procs, Fetching, Empty, NoAnswer
<1>1. GTypeOK
  <2>1. 0 \in Revisions /\ server \in Revisions \ {0}  BY DEF Revisions
  <2>2. cache \in [app : Revisions, etag : Revisions, failing : BOOLEAN]  BY <2>1
  <2> QED  BY <2>1, <2>2 DEF GTypeOK, Channel
<1>2. Mutex  BY DEF Mutex
<1>3. OneStarter  BY DEF GTypeOK, OneStarter, Starting
<1>4. FlagFirst  BY DEF GTypeOK, FlagFirst
<1>5. Coherent  BY DEF GTypeOK, Coherent
<1>6. ShutdownTerminal  BY DEF GTypeOK, ShutdownTerminal
<1> QED  BY <1>1, <1>2, <1>3, <1>4, <1>5, <1>6 DEF GInv

(* Every action keeps the invariant; a lemma for each.                      *)

(* The ETag sent is the one of the snapshot held; nothing is fetched after the flag. *)
LEMMA LockInv ==
  ASSUME NEW p \in Procs, GInv, Lock(p) PROVE GInv'
<1> USE GoClientAssumption DEF GInv, Lock, Procs, Fetching, lifecycle
<1> USE DEF Goto, Call, Return, AfterRefresh, NoAnswer
<1>1. GTypeOK'  BY DEF GTypeOK, Revisions
<1>2. Mutex'  BY DEF GTypeOK, Mutex
<1>3. OneStarter'  BY DEF GTypeOK, OneStarter, Starting
<1>4. FlagFirst'  BY DEF GTypeOK, FlagFirst
<1>5. Coherent'  BY DEF GTypeOK, Coherent, Revisions
<1>6. ShutdownTerminal'  BY DEF GTypeOK, ShutdownTerminal, FlagFirst
<1> QED  BY <1>1, <1>2, <1>3, <1>4, <1>5, <1>6

(* A 304 tells that the snapshot held is the server's.                      *)
LEMMA ServeInv ==
  ASSUME NEW p \in Procs, GInv, Serve(p) PROVE GInv'
<1> USE GoClientAssumption DEF GInv, Serve, Procs, Fetching, lifecycle
<1> USE DEF Goto
<1>1. GTypeOK'  BY DEF GTypeOK, Revisions
<1>2. Mutex'  BY DEF GTypeOK, Mutex
<1>3. OneStarter'  BY DEF GTypeOK, OneStarter, Starting
<1>4. FlagFirst'  BY DEF GTypeOK, FlagFirst
<1>5. Coherent'  BY DEF GTypeOK, Coherent, Revisions
<1>6. ShutdownTerminal'  BY DEF GTypeOK, ShutdownTerminal
<1> QED  BY <1>1, <1>2, <1>3, <1>4, <1>5, <1>6

(* The invariant over FetchError.                                           *)
LEMMA FetchErrorInv ==
  ASSUME NEW p \in Procs, GInv, FetchError(p) PROVE GInv'
<1> USE GoClientAssumption DEF GInv, FetchError, Procs, Fetching, lifecycle
<1> USE DEF Goto, NoAnswer
<1>1. GTypeOK'  BY DEF GTypeOK, Revisions
<1>2. Mutex'  BY DEF GTypeOK, Mutex
<1>3. OneStarter'  BY DEF GTypeOK, OneStarter, Starting
<1>4. FlagFirst'  BY DEF GTypeOK, FlagFirst
<1>5. Coherent'  BY DEF GTypeOK, Coherent
<1>6. ShutdownTerminal'  BY DEF GTypeOK, ShutdownTerminal
<1> QED  BY <1>1, <1>2, <1>3, <1>4, <1>5, <1>6

(* The invariant over Receive.                                              *)
LEMMA ReceiveInv ==
  ASSUME NEW p \in Procs, GInv, Receive(p) PROVE GInv'
<1> USE GoClientAssumption DEF GInv, Receive, Procs, Fetching, lifecycle
<1> USE DEF Goto, Call, Return, AfterRefresh, NoAnswer
<1>1. GTypeOK'  BY DEF GTypeOK, Revisions
<1>2. Mutex'  BY DEF GTypeOK, Mutex
<1>3. OneStarter'  BY DEF GTypeOK, OneStarter, Starting
<1>4. FlagFirst'  BY DEF GTypeOK, FlagFirst
<1>5. Coherent'  BY DEF GTypeOK, Coherent, Mutex
<1>6. ShutdownTerminal'  BY DEF GTypeOK, ShutdownTerminal
<1> QED  BY <1>1, <1>2, <1>3, <1>4, <1>5, <1>6

(* The only goroutine that writes the snapshot is the holder of the mutex.  *)
LEMMA ApplyInv ==
  ASSUME NEW p \in Procs, GInv, Apply(p) PROVE GInv'
<1> USE GoClientAssumption DEF GInv, Apply, Procs, Fetching, lifecycle
<1> USE DEF Goto, Call, Return, AfterRefresh, NoAnswer, Recorded
<1>1. GTypeOK'
  <2>1. cache' \in [app : Revisions, etag : Revisions, failing : BOOLEAN]
    <3> USE DEF GTypeOK
    <3>1. CASE resp[p].kind = "200"  BY <3>1
    <3>2. CASE resp[p].kind = "304" /\ cache.app # 0  BY <3>2
    <3>3. CASE resp[p].kind # "200" /\ ~(resp[p].kind = "304" /\ cache.app # 0)
      BY <3>3
    <3> QED  BY <3>1, <3>2, <3>3
  <2> QED  BY <2>1 DEF GTypeOK, Revisions
<1>2. Mutex'  BY DEF GTypeOK, Mutex
<1>3. OneStarter'  BY DEF GTypeOK, OneStarter, Starting
<1>4. FlagFirst'  BY DEF GTypeOK, FlagFirst
<1>5. Coherent'
  <2> USE DEF GTypeOK, Coherent, Mutex, Revisions
  <2>1. /\ cache'.etag \in {0, cache'.app}
        /\ cache'.app <= server
    OBVIOUS
  <2>2. \A q \in Procs : pc'[q] \notin Fetching
    OBVIOUS
  <2> QED  BY <2>1, <2>2
<1>6. ShutdownTerminal'  BY DEF GTypeOK, ShutdownTerminal
<1> QED  BY <1>1, <1>2, <1>3, <1>4, <1>5, <1>6

(* The invariant over Start.                                                *)
LEMMA StartInv ==
  ASSUME NEW p \in Callers, GInv, Start(p) PROVE GInv'
<1> USE GoClientAssumption DEF GInv, Start, Procs, Fetching, lifecycle
<1> USE DEF Goto, Call
<1>1. GTypeOK'  BY DEF GTypeOK
<1>2. Mutex'  BY DEF GTypeOK, Mutex
<1>3. OneStarter'  BY DEF GTypeOK, OneStarter, Starting
<1>4. FlagFirst'  BY DEF GTypeOK, FlagFirst
<1>5. Coherent'  BY DEF GTypeOK, Coherent
<1>6. ShutdownTerminal'  BY DEF GTypeOK, ShutdownTerminal
<1> QED  BY <1>1, <1>2, <1>3, <1>4, <1>5, <1>6

(* The swap lets one caller through.                                        *)
LEMMA StartSwapInv ==
  ASSUME NEW p \in Callers, GInv, StartSwap(p) PROVE GInv'
<1> USE GoClientAssumption DEF GInv, StartSwap, Procs, Fetching, lifecycle
<1> USE DEF Goto, Call, Return
<1>1. GTypeOK'  BY DEF GTypeOK
<1>2. Mutex'  BY DEF GTypeOK, Mutex
<1>3. OneStarter'  BY DEF GTypeOK, OneStarter, Starting
<1>4. FlagFirst'  BY DEF GTypeOK, FlagFirst
<1>5. Coherent'  BY DEF GTypeOK, Coherent
<1>6. ShutdownTerminal'  BY DEF GTypeOK, ShutdownTerminal
<1> QED  BY <1>1, <1>2, <1>3, <1>4, <1>5, <1>6

(* The invariant over MakeStop.                                             *)
LEMMA MakeStopInv ==
  ASSUME NEW p \in Callers, GInv, MakeStop(p) PROVE GInv'
<1> USE GoClientAssumption DEF GInv, MakeStop, Procs, Fetching, lifecycle
<1> USE DEF Goto
<1>1. GTypeOK'  BY DEF GTypeOK, Channel
<1>2. Mutex'  BY DEF GTypeOK, Mutex
<1>3. OneStarter'  BY DEF GTypeOK, OneStarter, Starting
<1>4. FlagFirst'  BY DEF GTypeOK, FlagFirst
<1>5. Coherent'  BY DEF GTypeOK, Coherent
<1>6. ShutdownTerminal'  BY DEF GTypeOK, ShutdownTerminal
<1> QED  BY <1>1, <1>2, <1>3, <1>4, <1>5, <1>6

(* The invariant over MakeDone.                                             *)
LEMMA MakeDoneInv ==
  ASSUME NEW p \in Callers, GInv, MakeDone(p) PROVE GInv'
<1> USE GoClientAssumption DEF GInv, MakeDone, Procs, Fetching, lifecycle
<1> USE DEF Goto
<1>1. GTypeOK'  BY DEF GTypeOK, Channel
<1>2. Mutex'  BY DEF GTypeOK, Mutex
<1>3. OneStarter'  BY DEF GTypeOK, OneStarter, Starting
<1>4. FlagFirst'  BY DEF GTypeOK, FlagFirst
<1>5. Coherent'  BY DEF GTypeOK, Coherent
<1>6. ShutdownTerminal'  BY DEF GTypeOK, ShutdownTerminal
<1> QED  BY <1>1, <1>2, <1>3, <1>4, <1>5, <1>6

(* The loop starts only where it is idle.                                   *)
LEMMA SpawnInv ==
  ASSUME NEW p \in Callers, GInv, Spawn(p) PROVE GInv'
<1> USE GoClientAssumption DEF GInv, Spawn, Procs, Fetching, lifecycle
<1>1. GTypeOK'  BY DEF GTypeOK
<1>2. Mutex'  BY DEF GTypeOK, Mutex, OneStarter, Starting
<1>3. OneStarter'  BY DEF GTypeOK, OneStarter, Starting
<1>4. FlagFirst'  BY DEF GTypeOK, FlagFirst
<1>5. Coherent'  BY DEF GTypeOK, Coherent
<1>6. ShutdownTerminal'  BY DEF GTypeOK, ShutdownTerminal
<1> QED  BY <1>1, <1>2, <1>3, <1>4, <1>5, <1>6

(* The invariant over Refresh.                                              *)
LEMMA RefreshInv ==
  ASSUME NEW p \in Callers, GInv, Refresh(p) PROVE GInv'
<1> USE GoClientAssumption DEF GInv, Refresh, Procs, Fetching, lifecycle
<1> USE DEF Goto, Call
<1>1. GTypeOK'  BY DEF GTypeOK
<1>2. Mutex'  BY DEF GTypeOK, Mutex
<1>3. OneStarter'  BY DEF GTypeOK, OneStarter, Starting
<1>4. FlagFirst'  BY DEF GTypeOK, FlagFirst
<1>5. Coherent'  BY DEF GTypeOK, Coherent
<1>6. ShutdownTerminal'  BY DEF GTypeOK, ShutdownTerminal
<1> QED  BY <1>1, <1>2, <1>3, <1>4, <1>5, <1>6

(* The invariant over Shutdown.                                             *)
LEMMA ShutdownInv ==
  ASSUME NEW p \in Callers, GInv, Shutdown(p) PROVE GInv'
<1> USE GoClientAssumption DEF GInv, Shutdown, Procs, Fetching, lifecycle
<1> USE DEF Goto, Call
<1>1. GTypeOK'  BY DEF GTypeOK
<1>2. Mutex'  BY DEF GTypeOK, Mutex
<1>3. OneStarter'  BY DEF GTypeOK, OneStarter, Starting
<1>4. FlagFirst'  BY DEF GTypeOK, FlagFirst
<1>5. Coherent'  BY DEF GTypeOK, Coherent
<1>6. ShutdownTerminal'  BY DEF GTypeOK, ShutdownTerminal
<1> QED  BY <1>1, <1>2, <1>3, <1>4, <1>5, <1>6

(* The invariant over StopLoop.                                             *)
LEMMA StopLoopInv ==
  ASSUME NEW p \in Callers, GInv, StopLoop(p) PROVE GInv'
<1> USE GoClientAssumption DEF GInv, StopLoop, Procs, Fetching, lifecycle
<1> USE DEF Goto
<1>1. GTypeOK'  BY DEF GTypeOK, Channel
<1>2. Mutex'  BY DEF GTypeOK, Mutex
<1>3. OneStarter'  BY DEF GTypeOK, OneStarter, Starting
<1>4. FlagFirst'  BY DEF GTypeOK, FlagFirst
<1>5. Coherent'  BY DEF GTypeOK, Coherent
<1>6. ShutdownTerminal'  BY DEF GTypeOK, ShutdownTerminal
<1> QED  BY <1>1, <1>2, <1>3, <1>4, <1>5, <1>6

(* The invariant over ReadDone.                                             *)
LEMMA ReadDoneInv ==
  ASSUME NEW p \in Callers, GInv, ReadDone(p) PROVE GInv'
<1> USE GoClientAssumption DEF GInv, ReadDone, Procs, Fetching, lifecycle
<1> USE DEF Goto
<1>1. GTypeOK'  BY DEF GTypeOK
<1>2. Mutex'  BY DEF GTypeOK, Mutex
<1>3. OneStarter'  BY DEF GTypeOK, OneStarter, Starting
<1>4. FlagFirst'  BY DEF GTypeOK, FlagFirst
<1>5. Coherent'  BY DEF GTypeOK, Coherent
<1>6. ShutdownTerminal'  BY DEF GTypeOK, ShutdownTerminal
<1> QED  BY <1>1, <1>2, <1>3, <1>4, <1>5, <1>6

(* The invariant over AwaitLoop.                                            *)
LEMMA AwaitLoopInv ==
  ASSUME NEW p \in Callers, GInv, AwaitLoop(p) PROVE GInv'
<1> USE GoClientAssumption DEF GInv, AwaitLoop, Procs, Fetching, lifecycle
<1> USE DEF Goto
<1>1. GTypeOK'  BY DEF GTypeOK
<1>2. Mutex'  BY DEF GTypeOK, Mutex
<1>3. OneStarter'  BY DEF GTypeOK, OneStarter, Starting
<1>4. FlagFirst'  BY DEF GTypeOK, FlagFirst
<1>5. Coherent'  BY DEF GTypeOK, Coherent
<1>6. ShutdownTerminal'  BY DEF GTypeOK, ShutdownTerminal
<1> QED  BY <1>1, <1>2, <1>3, <1>4, <1>5, <1>6

(* With the mutex free nobody is inside refreshOnce.                        *)
LEMMA ClearInv ==
  ASSUME NEW p \in Callers, GInv, Clear(p) PROVE GInv'
<1> USE GoClientAssumption DEF GInv, Clear, Procs, Fetching, lifecycle
<1> USE DEF Goto, Call, Return, Empty
<1>1. GTypeOK'  BY DEF GTypeOK, Revisions
<1>2. Mutex'  BY DEF GTypeOK, Mutex
<1>3. OneStarter'  BY DEF GTypeOK, OneStarter, Starting
<1>4. FlagFirst'  BY DEF GTypeOK, FlagFirst
<1>5. Coherent'  BY DEF GTypeOK, Coherent, Mutex, Revisions
<1>6. ShutdownTerminal'  BY DEF GTypeOK, ShutdownTerminal, Mutex
<1> QED  BY <1>1, <1>2, <1>3, <1>4, <1>5, <1>6

(* The invariant over LoopWake.                                             *)
LEMMA LoopWakeInv ==
  ASSUME GInv, LoopWake PROVE GInv'
<1> USE GoClientAssumption DEF GInv, LoopWake, Procs, Fetching, lifecycle
<1> USE DEF Goto
<1>1. GTypeOK'  BY DEF GTypeOK
<1>2. Mutex'  BY DEF GTypeOK, Mutex
<1>3. OneStarter'  BY DEF GTypeOK, OneStarter, Starting
<1>4. FlagFirst'  BY DEF GTypeOK, FlagFirst
<1>5. Coherent'  BY DEF GTypeOK, Coherent
<1>6. ShutdownTerminal'  BY DEF GTypeOK, ShutdownTerminal
<1> QED  BY <1>1, <1>2, <1>3, <1>4, <1>5, <1>6

(* The invariant over LoopStop.                                             *)
LEMMA LoopStopInv ==
  ASSUME GInv, LoopStop PROVE GInv'
<1> USE GoClientAssumption DEF GInv, LoopStop, Procs, Fetching, lifecycle
<1> USE DEF Goto
<1>1. GTypeOK'  BY DEF GTypeOK, Channel
<1>2. Mutex'  BY DEF GTypeOK, Mutex
<1>3. OneStarter'  BY DEF GTypeOK, OneStarter, Starting
<1>4. FlagFirst'  BY DEF GTypeOK, FlagFirst
<1>5. Coherent'  BY DEF GTypeOK, Coherent
<1>6. ShutdownTerminal'  BY DEF GTypeOK, ShutdownTerminal
<1> QED  BY <1>1, <1>2, <1>3, <1>4, <1>5, <1>6

(* The invariant over ServerChange.                                         *)
LEMMA ServerChangeInv ==
  ASSUME GInv, ServerChange PROVE GInv'
<1> USE GoClientAssumption DEF GInv, ServerChange, Procs, Fetching, lifecycle
<1>1. GTypeOK'  BY DEF GTypeOK, Revisions
<1>2. Mutex'  BY DEF GTypeOK, Mutex
<1>3. OneStarter'  BY DEF GTypeOK, OneStarter, Starting
<1>4. FlagFirst'  BY DEF GTypeOK, FlagFirst
<1>5. Coherent'  BY DEF GTypeOK, Coherent, Revisions
<1>6. ShutdownTerminal'  BY DEF GTypeOK, ShutdownTerminal
<1> QED  BY <1>1, <1>2, <1>3, <1>4, <1>5, <1>6

(* The invariant is inductive.                                               *)
LEMMA GNextInv == GInv /\ [GNext]_gvars => GInv'
<1> SUFFICES ASSUME GInv, [GNext]_gvars PROVE GInv'
  OBVIOUS
<1>1. ASSUME NEW p \in Procs, RefreshOnce(p) PROVE GInv'
  BY <1>1, LockInv, ServeInv, FetchErrorInv, ReceiveInv, ApplyInv DEF RefreshOnce
<1>2. ASSUME NEW p \in Callers, StartSteps(p) PROVE GInv'
  BY <1>2, StartSwapInv, MakeStopInv, MakeDoneInv, SpawnInv DEF StartSteps
<1>3. ASSUME NEW p \in Callers, ShutdownSteps(p) PROVE GInv'
  BY <1>3, StopLoopInv, ReadDoneInv, AwaitLoopInv, ClearInv DEF ShutdownSteps
<1>4. CASE UNCHANGED gvars
  BY <1>4 DEF GInv, GTypeOK, Mutex, OneStarter, Starting, FlagFirst, Coherent,
     ShutdownTerminal, gvars, lifecycle
<1> QED
  BY <1>1, <1>2, <1>3, <1>4, StartInv, RefreshInv, ShutdownInv, LoopWakeInv,
     LoopStopInv, ServerChangeInv DEF GNext

(* The inductive invariant holds in every reachable state.                   *)
THEOREM GInvariance == GSpec => []GInv
  BY GInitInv, GNextInv, PTL DEF GSpec

-----------------------------------------------------------------------------
(* Every variable of the client keeps its type.                              *)
THEOREM GTypeCorrect == GSpec => []GTypeOK
<1>1. GInv => GTypeOK  BY DEF GInv
<1> QED  BY <1>1, GInvariance, PTL

(* Once Shutdown has returned the cache stays empty and nobody fetches,      *)
(* whatever other goroutines were doing when it was called.                  *)
THEOREM ShutdownIsTerminal == GSpec => []ShutdownTerminal
<1>1. GInv => ShutdownTerminal  BY DEF GInv
<1> QED  BY <1>1, GInvariance, PTL

(* The ETag held is the one of the snapshot held, and a 304 is recorded      *)
(* against the snapshot that was revalidated.                                *)
THEOREM ValidatorIsCoherent == GSpec => []ValidatorMatches
<1>1. GInv => ValidatorMatches  BY DEF GInv, Coherent, ValidatorMatches
<1> QED  BY <1>1, GInvariance, PTL

(* Before Shutdown no refresh replaces the snapshot by an older one.         *)
THEOREM SnapshotsAdvance == GSpec => NeverGoesBack
<1> DEFINE Forward == ~shutdown => cache'.app >= cache.app
<1>1. ASSUME GInv, GNext PROVE Forward
  <2> USE <1>1 DEF GInv
  <2>1. ASSUME NEW p \in Procs, Apply(p) PROVE Forward
    BY <2>1 DEF Apply, Recorded, GTypeOK, Coherent, Revisions
  <2>2. ASSUME NEW p \in Callers, Clear(p) PROVE Forward
    BY <2>2 DEF Clear, FlagFirst
  <2>3. CASE cache' = cache
    BY <2>3 DEF GTypeOK, Revisions
  <2> QED
    BY <2>1, <2>2, <2>3 DEF GNext, RefreshOnce, Lock, Serve, FetchError, Receive,
       Start, StartSteps, StartSwap, MakeStop, MakeDone, Spawn, Refresh, Shutdown,
       ShutdownSteps, StopLoop, ReadDone, AwaitLoop, LoopWake, LoopStop, ServerChange
<1>2. GInv /\ [GNext]_gvars => [Forward]_gvars
  BY <1>1
<1> QED
  BY <1>2, GInvariance, PTL DEF NeverGoesBack, GSpec

-----------------------------------------------------------------------------
(* The background loop and its two channels *)

(* Start's steps are made in a call of Start.                                *)
InStart == \A q \in Callers :
    pc[q] \in {"swap", "makeStop", "makeDone", "spawn"} => op[q] = "start"

(* The channels exist from before the loop is launched, refreshDone is       *)
(* closed only by the loop, and stopRefresh is not made for nothing.         *)
ChannelsOK ==
    /\ \A q \in Callers : /\ pc[q] \in {"makeDone", "spawn"} => stopRefresh # "nil"
                          /\ pc[q] = "spawn" => refreshDone = "open"
    /\ pc[Loop] # "idle" => stopRefresh # "nil" /\ refreshDone # "nil"
    /\ refreshDone = "closed" => pc[Loop] = "ended"
    /\ stopRefresh # "nil" => \/ pc[Loop] # "idle"
                              \/ \E q \in Callers : pc[q] \in {"makeDone", "spawn"}

(* A Shutdown that no Start overlaps: no Start comes later, the channel that *)
(* is waited on exists, and behind the wait the loop is not running.         *)
CleanShutdown ==
    shutdown /\ ~overlap =>
       /\ \A q \in Callers : op[q] # "start" /\ pc[q] # "hung"
       /\ \A q \in Callers : pc[q] = "done" => stopRefresh # "nil"
       /\ \A q \in Callers : pc[q] = "clear" => pc[Loop] \in {"idle", "ended"}
       /\ returned => pc[Loop] \in {"idle", "ended"}

LoopInv == InStart /\ ChannelsOK /\ CleanShutdown

(* Nobody has made a channel or launched the loop.                           *)
LEMMA LoopInitInv == ASSUME GInit PROVE LoopInv
  BY GoClientAssumption DEF GInit, Procs, LoopInv, InStart, ChannelsOK, CleanShutdown

(* refreshOnce touches no channel, and the loop keeps running.               *)
LEMMA LockLoop ==
  ASSUME NEW p \in Procs, GInv, LoopInv, Lock(p) PROVE LoopInv'
<1> USE GoClientAssumption DEF GInv, LoopInv, Lock, Procs, Fetching, lifecycle, GTypeOK
<1> USE DEF Goto, Call, Return, AfterRefresh
<1>1. InStart'  BY DEF InStart
<1>2. ChannelsOK'  BY DEF ChannelsOK, OneStarter, Starting, Channel
<1>3. CleanShutdown'
  BY DEF CleanShutdown, InStart, ChannelsOK, OneStarter, Starting, FlagFirst, Channel
<1> QED  BY <1>1, <1>2, <1>3

(* The loop invariant over Serve.                                           *)
LEMMA ServeLoop ==
  ASSUME NEW p \in Procs, GInv, LoopInv, Serve(p) PROVE LoopInv'
<1> USE GoClientAssumption DEF GInv, LoopInv, Serve, Procs, Fetching, lifecycle, GTypeOK
<1> USE DEF Goto
<1>1. InStart'  BY DEF InStart
<1>2. ChannelsOK'  BY DEF ChannelsOK, OneStarter, Starting, Channel
<1>3. CleanShutdown'
  BY DEF CleanShutdown, InStart, ChannelsOK, OneStarter, Starting, FlagFirst, Channel
<1> QED  BY <1>1, <1>2, <1>3

(* The loop invariant over FetchError.                                      *)
LEMMA FetchErrorLoop ==
  ASSUME NEW p \in Procs, GInv, LoopInv, FetchError(p) PROVE LoopInv'
<1> USE GoClientAssumption DEF GInv, LoopInv, FetchError, Procs, Fetching, lifecycle, GTypeOK
<1> USE DEF Goto
<1>1. InStart'  BY DEF InStart
<1>2. ChannelsOK'  BY DEF ChannelsOK, OneStarter, Starting, Channel
<1>3. CleanShutdown'
  BY DEF CleanShutdown, InStart, ChannelsOK, OneStarter, Starting, FlagFirst, Channel
<1> QED  BY <1>1, <1>2, <1>3

(* The loop invariant over Receive.                                         *)
LEMMA ReceiveLoop ==
  ASSUME NEW p \in Procs, GInv, LoopInv, Receive(p) PROVE LoopInv'
<1> USE GoClientAssumption DEF GInv, LoopInv, Receive, Procs, Fetching, lifecycle, GTypeOK
<1> USE DEF Goto, Call, Return, AfterRefresh
<1>1. InStart'  BY DEF InStart
<1>2. ChannelsOK'  BY DEF ChannelsOK, OneStarter, Starting, Channel
<1>3. CleanShutdown'
  BY DEF CleanShutdown, InStart, ChannelsOK, OneStarter, Starting, FlagFirst, Channel
<1> QED  BY <1>1, <1>2, <1>3

(* The loop invariant over Apply.                                           *)
LEMMA ApplyLoop ==
  ASSUME NEW p \in Procs, GInv, LoopInv, Apply(p) PROVE LoopInv'
<1> USE GoClientAssumption DEF GInv, LoopInv, Apply, Procs, Fetching, lifecycle, GTypeOK
<1> USE DEF Goto, Call, Return, AfterRefresh
<1>1. InStart'  BY DEF InStart
<1>2. ChannelsOK'  BY DEF ChannelsOK, OneStarter, Starting, Channel
<1>3. CleanShutdown'
  BY DEF CleanShutdown, InStart, ChannelsOK, OneStarter, Starting, FlagFirst, Channel
<1> QED  BY <1>1, <1>2, <1>3

(* No call of Start begins after the flag.                                  *)
LEMMA StartLoop ==
  ASSUME NEW p \in Callers, GInv, LoopInv, Start(p) PROVE LoopInv'
<1> USE GoClientAssumption DEF GInv, LoopInv, Start, Procs, Fetching, lifecycle, GTypeOK
<1> USE DEF Goto, Call
<1>1. InStart'  BY DEF InStart
<1>2. ChannelsOK'  BY DEF ChannelsOK, OneStarter, Starting, Channel
<1>3. CleanShutdown'
  BY DEF CleanShutdown, InStart, ChannelsOK, OneStarter, Starting, FlagFirst, Channel
<1> QED  BY <1>1, <1>2, <1>3

(* The loop invariant over StartSwap.                                       *)
LEMMA StartSwapLoop ==
  ASSUME NEW p \in Callers, GInv, LoopInv, StartSwap(p) PROVE LoopInv'
<1> USE GoClientAssumption DEF GInv, LoopInv, StartSwap, Procs, Fetching, lifecycle, GTypeOK
<1> USE DEF Goto, Call, Return
<1>1. InStart'  BY DEF InStart
<1>2. ChannelsOK'  BY DEF ChannelsOK, OneStarter, Starting, Channel
<1>3. CleanShutdown'
  BY DEF CleanShutdown, InStart, ChannelsOK, OneStarter, Starting, FlagFirst, Channel
<1> QED  BY <1>1, <1>2, <1>3

(* The loop invariant over MakeStop.                                        *)
LEMMA MakeStopLoop ==
  ASSUME NEW p \in Callers, GInv, LoopInv, MakeStop(p) PROVE LoopInv'
<1> USE GoClientAssumption DEF GInv, LoopInv, MakeStop, Procs, Fetching, lifecycle, GTypeOK
<1> USE DEF Goto
<1>1. InStart'  BY DEF InStart
<1>2. ChannelsOK'  BY DEF ChannelsOK, OneStarter, Starting, Channel
<1>3. CleanShutdown'
  BY DEF CleanShutdown, InStart, ChannelsOK, OneStarter, Starting, FlagFirst, Channel
<1> QED  BY <1>1, <1>2, <1>3

(* refreshDone is made while the loop does not exist.                       *)
LEMMA MakeDoneLoop ==
  ASSUME NEW p \in Callers, GInv, LoopInv, MakeDone(p) PROVE LoopInv'
<1> USE GoClientAssumption DEF GInv, LoopInv, MakeDone, Procs, Fetching, lifecycle, GTypeOK
<1> USE DEF Goto
<1>1. InStart'  BY DEF InStart
<1>2. ChannelsOK'  BY DEF ChannelsOK, OneStarter, Starting, Channel
<1>3. CleanShutdown'
  BY DEF CleanShutdown, InStart, ChannelsOK, OneStarter, Starting, FlagFirst, Channel
<1> QED  BY <1>1, <1>2, <1>3

(* The loop is launched by a Start, so not behind a clean Shutdown.         *)
LEMMA SpawnLoop ==
  ASSUME NEW p \in Callers, GInv, LoopInv, Spawn(p) PROVE LoopInv'
<1> USE GoClientAssumption DEF GInv, LoopInv, Spawn, Procs, Fetching, lifecycle, GTypeOK
<1>1. InStart'  BY DEF InStart
<1>2. ChannelsOK'  BY DEF ChannelsOK, OneStarter, Starting, Channel
<1>3. CleanShutdown'
  BY DEF CleanShutdown, InStart, ChannelsOK, OneStarter, Starting, FlagFirst, Channel
<1> QED  BY <1>1, <1>2, <1>3

(* The loop invariant over Refresh.                                         *)
LEMMA RefreshLoop ==
  ASSUME NEW p \in Callers, GInv, LoopInv, Refresh(p) PROVE LoopInv'
<1> USE GoClientAssumption DEF GInv, LoopInv, Refresh, Procs, Fetching, lifecycle, GTypeOK
<1> USE DEF Goto, Call
<1>1. InStart'  BY DEF InStart
<1>2. ChannelsOK'  BY DEF ChannelsOK, OneStarter, Starting, Channel
<1>3. CleanShutdown'
  BY DEF CleanShutdown, InStart, ChannelsOK, OneStarter, Starting, FlagFirst, Channel
<1> QED  BY <1>1, <1>2, <1>3

(* overlap records whether some Start is under way when the flag is set.    *)
LEMMA ShutdownLoop ==
  ASSUME NEW p \in Callers, GInv, LoopInv, Shutdown(p) PROVE LoopInv'
<1> USE GoClientAssumption DEF GInv, LoopInv, Shutdown, Procs, Fetching, lifecycle, GTypeOK
<1> USE DEF Goto, Call
<1>1. InStart'  BY DEF InStart
<1>2. ChannelsOK'  BY DEF ChannelsOK, OneStarter, Starting, Channel
<1>3. CleanShutdown'
  BY DEF CleanShutdown, InStart, ChannelsOK, OneStarter, Starting, FlagFirst, Channel
<1> QED  BY <1>1, <1>2, <1>3

(* Without stopRefresh the loop does not exist.                             *)
LEMMA StopLoopLoop ==
  ASSUME NEW p \in Callers, GInv, LoopInv, StopLoop(p) PROVE LoopInv'
<1> USE GoClientAssumption DEF GInv, LoopInv, StopLoop, Procs, Fetching, lifecycle, GTypeOK
<1> USE DEF Goto
<1>1. InStart'  BY DEF InStart
<1>2. ChannelsOK'  BY DEF ChannelsOK, OneStarter, Starting, Channel
<1>3. CleanShutdown'
  BY DEF CleanShutdown, InStart, ChannelsOK, OneStarter, Starting, FlagFirst, Channel
<1> QED  BY <1>1, <1>2, <1>3

(* With stopRefresh and no Start under way refreshDone exists.              *)
LEMMA ReadDoneLoop ==
  ASSUME NEW p \in Callers, GInv, LoopInv, ReadDone(p) PROVE LoopInv'
<1> USE GoClientAssumption DEF GInv, LoopInv, ReadDone, Procs, Fetching, lifecycle, GTypeOK
<1> USE DEF Goto
<1>1. InStart'  BY DEF InStart
<1>2. ChannelsOK'  BY DEF ChannelsOK, OneStarter, Starting, Channel
<1>3. CleanShutdown'
  <2> SUFFICES ASSUME shutdown, ~overlap PROVE CleanShutdown'
    BY DEF CleanShutdown
  <2>1. pc[p] = "done" /\ \A q \in Callers : pc[q] \notin {"makeDone", "spawn"}
    BY DEF CleanShutdown, InStart
  <2>2. refreshDone # "nil"
    BY <2>1 DEF CleanShutdown, ChannelsOK
  <2> QED  BY <2>2 DEF CleanShutdown
<1> QED  BY <1>1, <1>2, <1>3

(* refreshDone is closed: the loop has ended.                               *)
LEMMA AwaitLoopLoop ==
  ASSUME NEW p \in Callers, GInv, LoopInv, AwaitLoop(p) PROVE LoopInv'
<1> USE GoClientAssumption DEF GInv, LoopInv, AwaitLoop, Procs, Fetching, lifecycle, GTypeOK
<1> USE DEF Goto
<1>1. InStart'  BY DEF InStart
<1>2. ChannelsOK'  BY DEF ChannelsOK, OneStarter, Starting, Channel
<1>3. CleanShutdown'
  BY DEF CleanShutdown, InStart, ChannelsOK, OneStarter, Starting, FlagFirst, Channel
<1> QED  BY <1>1, <1>2, <1>3

(* The loop invariant over Clear.                                           *)
LEMMA ClearLoop ==
  ASSUME NEW p \in Callers, GInv, LoopInv, Clear(p) PROVE LoopInv'
<1> USE GoClientAssumption DEF GInv, LoopInv, Clear, Procs, Fetching, lifecycle, GTypeOK
<1> USE DEF Goto, Call, Return
<1>1. InStart'  BY DEF InStart
<1>2. ChannelsOK'  BY DEF ChannelsOK, OneStarter, Starting, Channel
<1>3. CleanShutdown'
  BY DEF CleanShutdown, InStart, ChannelsOK, OneStarter, Starting, FlagFirst, Channel
<1> QED  BY <1>1, <1>2, <1>3

(* The loop invariant over LoopWake.                                        *)
LEMMA LoopWakeLoop ==
  ASSUME GInv, LoopInv, LoopWake PROVE LoopInv'
<1> USE GoClientAssumption DEF GInv, LoopInv, LoopWake, Procs, Fetching, lifecycle, GTypeOK
<1> USE DEF Goto
<1>1. InStart'  BY DEF InStart
<1>2. ChannelsOK'  BY DEF ChannelsOK, OneStarter, Starting, Channel
<1>3. CleanShutdown'
  BY DEF CleanShutdown, InStart, ChannelsOK, OneStarter, Starting, FlagFirst, Channel
<1> QED  BY <1>1, <1>2, <1>3

(* The loop invariant over LoopStop.                                        *)
LEMMA LoopStopLoop ==
  ASSUME GInv, LoopInv, LoopStop PROVE LoopInv'
<1> USE GoClientAssumption DEF GInv, LoopInv, LoopStop, Procs, Fetching, lifecycle, GTypeOK
<1> USE DEF Goto
<1>1. InStart'  BY DEF InStart
<1>2. ChannelsOK'  BY DEF ChannelsOK, OneStarter, Starting, Channel
<1>3. CleanShutdown'
  BY DEF CleanShutdown, InStart, ChannelsOK, OneStarter, Starting, FlagFirst, Channel
<1> QED  BY <1>1, <1>2, <1>3

(* The loop's invariant is inductive, given the client's.                    *)
LEMMA LoopNextInv == GInv /\ LoopInv /\ [GNext]_gvars => LoopInv'
<1> SUFFICES ASSUME GInv, LoopInv, [GNext]_gvars PROVE LoopInv'
  OBVIOUS
<1>1. ASSUME NEW p \in Procs, RefreshOnce(p) PROVE LoopInv'
  BY <1>1, LockLoop, ServeLoop, FetchErrorLoop, ReceiveLoop, ApplyLoop DEF RefreshOnce
<1>2. ASSUME NEW p \in Callers, StartSteps(p) PROVE LoopInv'
  BY <1>2, StartSwapLoop, MakeStopLoop, MakeDoneLoop, SpawnLoop DEF StartSteps
<1>3. ASSUME NEW p \in Callers, ShutdownSteps(p) PROVE LoopInv'
  BY <1>3, StopLoopLoop, ReadDoneLoop, AwaitLoopLoop, ClearLoop DEF ShutdownSteps
<1>4. CASE UNCHANGED gvars \/ ServerChange
  BY <1>4 DEF LoopInv, InStart, ChannelsOK, CleanShutdown, gvars, lifecycle, ServerChange
<1> QED
  BY <1>1, <1>2, <1>3, <1>4, StartLoop, RefreshLoop, ShutdownLoop, LoopWakeLoop,
     LoopStopLoop DEF GNext

(* When a Shutdown that no Start overlapped has returned, the background      *)
(* loop has ended or never existed, and never runs again.                    *)
THEOREM ShutdownEndsLoop == GSpec => []ShutdownStopsLoop
<1>1. GInv /\ LoopInv => ShutdownStopsLoop
  BY DEF GInv, FlagFirst, LoopInv, CleanShutdown, ShutdownStopsLoop
<1> QED
  BY <1>1, GInvariance, LoopInitInv, LoopNextInv, PTL DEF GSpec
=============================================================================
