------------------------------- MODULE GoClient -------------------------------
(***************************************************************************)
(* The life cycle of the Go client (totoggle_go/client.go and its cache):  *)
(* Start fetches the catalogue and launches the refresh loop, Refresh      *)
(* fetches on demand, Shutdown stops the loop and clears the cache.  Any   *)
(* number of goroutines of the application call them; refreshMu serialises *)
(* the fetches, each of which revalidates with the ETag of the snapshot    *)
(* held (cache.go, serverapi/fetch.go).                                    *)
(*                                                                         *)
(* A catalogue is abstracted to its revision number; the ETag is the       *)
(* quoted revision, 0 when there is none.                                  *)
(***************************************************************************)
EXTENDS Naturals

CONSTANTS Callers,       \* goroutines of the application
          Loop,          \* the goroutine of refreshLoop
          NoProc,
          MaxRevision    \* bound on the changes of the server's catalogue

ASSUME GoClientAssumption ==
    /\ Loop \notin Callers /\ NoProc \notin Callers \cup {Loop}
    /\ MaxRevision \in Nat \ {0}

Procs == Callers \cup {Loop}

VARIABLES started, shutdown,   \* the two atomic flags
          stopRefresh,         \* channels: nil, open or closed
          refreshDone,
          refreshMu,           \* holder of the mutex
          cache,               \* snapshot, its ETag, ConsecutiveFailures > 0
          pc, op,              \* where each goroutine is, in which call
          resp,                \* the answer each goroutine waits for or holds
          server,              \* the current revision on the server
          returned,            \* history: the Shutdown that took effect returned
          overlap              \* history: it was called while Start was running

lifecycle == <<started, shutdown, stopRefresh, refreshDone, returned, overlap>>
gvars == <<lifecycle, refreshMu, cache, pc, op, resp, server>>

Revisions == 0..MaxRevision
Channel == {"nil", "open", "closed"}
Caches == [app : Revisions, etag : Revisions, failing : BOOLEAN]
Empty == [app |-> 0, etag |-> 0, failing |-> FALSE]
NoAnswer == [kind |-> "none", app |-> 0, etag |-> 0]
Fetching == {"fetch", "answer", "apply"}

GTypeOK ==
    /\ started \in BOOLEAN /\ shutdown \in BOOLEAN
    /\ returned \in BOOLEAN /\ overlap \in BOOLEAN
    /\ stopRefresh \in Channel /\ refreshDone \in Channel
    /\ refreshMu \in Procs \cup {NoProc}
    /\ cache \in Caches
    /\ pc \in [Procs -> {"idle", "swap", "lock", "makeStop", "makeDone", "spawn",
                         "stop", "done", "await", "hung", "clear", "wait",
                         "ended"} \cup Fetching]
    /\ op \in [Procs -> {"none", "start", "refresh", "loop", "shutdown"}]
    /\ resp \in [Procs -> [kind : {"none", "200", "304", "error"},
                           app : Revisions, etag : Revisions]]
    /\ server \in Revisions \ {0}

GInit ==
    /\ started = FALSE /\ shutdown = FALSE /\ returned = FALSE /\ overlap = FALSE
    /\ stopRefresh = "nil" /\ refreshDone = "nil"
    /\ refreshMu = NoProc
    /\ cache = Empty
    /\ pc = [p \in Procs |-> "idle"]
    /\ op = [p \in Procs |-> "none"]
    /\ resp = [p \in Procs |-> NoAnswer]
    /\ server = 1

Goto(p, l) == pc' = [pc EXCEPT ![p] = l]
Call(p, o, l) == op' = [op EXCEPT ![p] = o] /\ Goto(p, l)
Return(p) == Call(p, "none", "idle")

-----------------------------------------------------------------------------
(* refreshOnce *)

(* Mistake: the loop ends after its first refresh.                          *)
AfterOnlyRefresh(p) ==
    CASE op[p] = "start" -> Goto(p, "makeStop") /\ op' = op
      [] op[p] = "loop"  -> Goto(p, "ended") /\ op' = op
      [] OTHER           -> Return(p)

(* Where refreshOnce returns to.                                            *)
AfterRefresh(p) ==
    CASE op[p] = "start" -> Goto(p, "makeStop") /\ op' = op
      [] op[p] = "loop"  -> Goto(p, "wait") /\ op' = op
      [] OTHER           -> Return(p)

(* Mistake: no mutual exclusion between refreshes.                          *)
LockShared(p) ==
    /\ pc[p] = "lock"
    /\ IF shutdown
         THEN AfterRefresh(p) /\ resp' = resp
         ELSE /\ resp' = [resp EXCEPT ![p] = [NoAnswer EXCEPT !.etag = cache.etag]]
              /\ Goto(p, "fetch") /\ op' = op
    /\ UNCHANGED <<lifecycle, refreshMu, cache, server>>

(* Lock, first look at shutdown, and the ETag of the snapshot held.         *)
Lock(p) ==
    /\ pc[p] = "lock" /\ refreshMu = NoProc
    /\ IF shutdown
         THEN AfterRefresh(p) /\ UNCHANGED <<refreshMu, resp>>
         ELSE /\ refreshMu' = p
              /\ resp' = [resp EXCEPT ![p] = [NoAnswer EXCEPT !.etag = cache.etag]]
              /\ Goto(p, "fetch") /\ op' = op
    /\ UNCHANGED <<lifecycle, cache, server>>

(* The server answers with the catalogue of that moment, 304 when the ETag  *)
(* sent is the current one; a proxy may drop the ETag header.               *)
Serve(p) ==
    /\ pc[p] = "fetch"
    /\ \E etag \in {0, server} :
          resp' = [resp EXCEPT ![p] =
             [kind |-> IF @.etag = server THEN "304" ELSE "200",
              app |-> server, etag |-> etag]]
    /\ Goto(p, "answer")
    /\ UNCHANGED <<lifecycle, refreshMu, cache, op, server>>

(* A refused key, another status, an undecodable body, a timeout - before   *)
(* or after the server answered.                                            *)
FetchError(p) ==
    /\ pc[p] \in {"fetch", "answer"} /\ resp[p].kind # "error"
    /\ resp' = [resp EXCEPT ![p] = [NoAnswer EXCEPT !.kind = "error"]]
    /\ Goto(p, "answer")
    /\ UNCHANGED <<lifecycle, refreshMu, cache, op, server>>

(* Fetch returns; second look at shutdown.                                  *)
Receive(p) ==
    /\ pc[p] = "answer"
    /\ IF shutdown
         THEN /\ AfterRefresh(p)
              /\ refreshMu' = NoProc
              /\ resp' = [resp EXCEPT ![p] = NoAnswer]
         ELSE Goto(p, "apply") /\ UNCHANGED <<refreshMu, resp, op>>
    /\ UNCHANGED <<lifecycle, cache, server>>

(* Mistakes: the health of the cache is not kept; a catalogue without ETag  *)
(* keeps the validator of the one it replaces.                              *)
RecordedWithoutHealth(a) ==
    IF a.kind = "200" THEN [app |-> a.app, etag |-> a.etag] ELSE cache

RecordedOldValidator(a) ==
    CASE a.kind = "200" -> [app |-> a.app, failing |-> FALSE,
                            etag |-> IF a.etag = 0 THEN cache.etag ELSE a.etag]
      [] a.kind = "304" /\ cache.app # 0 ->
            [cache EXCEPT !.failing = FALSE, !.etag = IF a.etag = 0 THEN @ ELSE a.etag]
      [] OTHER -> [cache EXCEPT !.failing = TRUE]

(* RecordFailure, RecordFreshness or UpdateCatalog; then Unlock.            *)
Recorded(a) ==
    CASE a.kind = "200" -> [app |-> a.app, etag |-> a.etag, failing |-> FALSE]
      [] a.kind = "304" /\ cache.app # 0 ->
            [cache EXCEPT !.failing = FALSE, !.etag = IF a.etag = 0 THEN @ ELSE a.etag]
      [] OTHER -> [cache EXCEPT !.failing = TRUE]

Apply(p) ==
    /\ pc[p] = "apply"
    /\ cache' = Recorded(resp[p])
    /\ refreshMu' = NoProc
    /\ resp' = [resp EXCEPT ![p] = NoAnswer]
    /\ AfterRefresh(p)
    /\ UNCHANGED <<lifecycle, server>>

-----------------------------------------------------------------------------
(* Start and Refresh *)

Start(p) ==
    /\ pc[p] = "idle" /\ ~shutdown
    /\ Call(p, "start", "swap")
    /\ UNCHANGED <<lifecycle, refreshMu, cache, resp, server>>

StartSwap(p) ==
    /\ pc[p] = "swap"
    /\ started' = TRUE
    /\ IF started THEN Return(p) ELSE Goto(p, "lock") /\ op' = op
    /\ UNCHANGED <<shutdown, stopRefresh, refreshDone, returned, overlap, refreshMu, cache, resp, server>>

(* Three statements after the first fetch; nothing orders them with the     *)
(* reads in Shutdown.                                                       *)
MakeStop(p) ==
    /\ pc[p] = "makeStop"
    /\ stopRefresh' = "open"
    /\ Goto(p, "makeDone")
    /\ UNCHANGED <<started, shutdown, refreshDone, returned, overlap, refreshMu, cache, op, resp, server>>

MakeDone(p) ==
    /\ pc[p] = "makeDone"
    /\ refreshDone' = "open"
    /\ Goto(p, "spawn")
    /\ UNCHANGED <<started, shutdown, stopRefresh, returned, overlap, refreshMu, cache, op, resp, server>>

Spawn(p) ==
    /\ pc[p] = "spawn"
    /\ pc' = [pc EXCEPT ![p] = "idle", ![Loop] = "wait"]
    /\ op' = [op EXCEPT ![p] = "none", ![Loop] = "loop"]
    /\ UNCHANGED <<lifecycle, refreshMu, cache, resp, server>>

Refresh(p) ==
    /\ pc[p] = "idle" /\ started /\ ~shutdown
    /\ Call(p, "refresh", "lock")
    /\ UNCHANGED <<lifecycle, refreshMu, cache, resp, server>>

-----------------------------------------------------------------------------
(* refreshLoop: wait for the timer or for stop.                             *)

LoopWake ==
    /\ pc[Loop] = "wait"
    /\ Goto(Loop, "lock")
    /\ UNCHANGED <<lifecycle, refreshMu, cache, op, resp, server>>

(* Mistake: no deferred close of refreshDone.                               *)
LoopStopSilent ==
    /\ pc[Loop] = "wait" /\ stopRefresh = "closed"
    /\ Goto(Loop, "ended")
    /\ UNCHANGED <<lifecycle, refreshMu, cache, op, resp, server>>

LoopStop ==
    /\ pc[Loop] = "wait" /\ stopRefresh = "closed"
    /\ Goto(Loop, "ended")
    /\ refreshDone' = "closed"
    /\ UNCHANGED <<started, shutdown, stopRefresh, returned, overlap, refreshMu, cache, op, resp, server>>

-----------------------------------------------------------------------------
(* Shutdown *)

Shutdown(p) ==
    /\ pc[p] = "idle" /\ ~shutdown
    /\ shutdown' = TRUE
    /\ overlap' = (\E q \in Callers : op[q] = "start")
    /\ Call(p, "shutdown", "stop")
    /\ UNCHANGED <<started, stopRefresh, refreshDone, returned, refreshMu, cache, resp, server>>

StopLoop(p) ==
    /\ pc[p] = "stop"
    /\ IF stopRefresh = "nil"
         THEN Goto(p, "clear") /\ stopRefresh' = stopRefresh
         ELSE Goto(p, "done") /\ stopRefresh' = "closed"
    /\ UNCHANGED <<started, shutdown, refreshDone, returned, overlap, refreshMu, cache, op, resp, server>>

(* The channel to wait on is read once; a receive from nil never returns.   *)
ReadDone(p) ==
    /\ pc[p] = "done"
    /\ Goto(p, IF refreshDone = "nil" THEN "hung" ELSE "await")
    /\ UNCHANGED <<lifecycle, refreshMu, cache, op, resp, server>>

(* Mistake: Shutdown does not wait for the loop to confirm.                 *)
AwaitNobody(p) ==
    /\ pc[p] = "await"
    /\ Goto(p, "clear")
    /\ UNCHANGED <<lifecycle, refreshMu, cache, op, resp, server>>

AwaitLoop(p) ==
    /\ pc[p] = "await" /\ refreshDone = "closed"
    /\ Goto(p, "clear")
    /\ UNCHANGED <<lifecycle, refreshMu, cache, op, resp, server>>

(* Mistake: the cache is cleared without waiting for refreshMu.             *)
ClearUnlocked(p) ==
    /\ pc[p] = "clear"
    /\ cache' = Empty
    /\ returned' = TRUE
    /\ Return(p)
    /\ UNCHANGED <<started, shutdown, stopRefresh, refreshDone, overlap, refreshMu, resp, server>>

Clear(p) ==
    /\ pc[p] = "clear" /\ refreshMu = NoProc
    /\ cache' = Empty
    /\ returned' = TRUE
    /\ Return(p)
    /\ UNCHANGED <<started, shutdown, stopRefresh, refreshDone, overlap, refreshMu, resp, server>>

-----------------------------------------------------------------------------
(* Somebody changes a toggle of the application.                            *)
ServerChange ==
    /\ server < MaxRevision
    /\ server' = server + 1
    /\ UNCHANGED <<lifecycle, refreshMu, cache, pc, op, resp>>

RefreshOnce(p) == Lock(p) \/ Serve(p) \/ FetchError(p) \/ Receive(p) \/ Apply(p)
StartSteps(p) == StartSwap(p) \/ MakeStop(p) \/ MakeDone(p) \/ Spawn(p)
ShutdownSteps(p) == StopLoop(p) \/ ReadDone(p) \/ AwaitLoop(p) \/ Clear(p)

GNext ==
    \/ \E p \in Procs : RefreshOnce(p)
    \/ \E p \in Callers : \/ Start(p) \/ StartSteps(p) \/ Refresh(p)
                          \/ Shutdown(p) \/ ShutdownSteps(p)
    \/ LoopWake \/ LoopStop
    \/ ServerChange

GSpec == GInit /\ [][GNext]_gvars

(* What the runtime guarantees: runnable goroutines run, the mutex does not *)
(* starve a waiter, a request ends (HTTPTimeout), the timer of a wait       *)
(* fires, and a wait that starts on a closed channel ends.  Eventually a    *)
(* request of the loop succeeds if it is made again and again.              *)
Fairness ==
    /\ \A p \in Procs : /\ SF_gvars(Lock(p))
                        /\ WF_gvars(Serve(p) \/ FetchError(p))
                        /\ WF_gvars(Receive(p) \/ Apply(p))
    /\ \A p \in Callers : /\ WF_gvars(StartSteps(p))
                          /\ SF_gvars(ShutdownSteps(p))
    /\ WF_gvars(LoopWake) /\ SF_gvars(LoopStop)
    /\ SF_gvars(Serve(Loop))
    /\ SF_gvars(resp[Loop].kind # "error" /\ Receive(Loop))

GFairSpec == GSpec /\ Fairness

-----------------------------------------------------------------------------
(* Shutdown's cache clear is "the terminal lifecycle action": once it has   *)
(* returned the cache stays empty and no request is under way, however      *)
(* late an answer comes and whoever asked for it.                           *)
ShutdownTerminal ==
    returned => cache = Empty /\ \A p \in Procs : pc[p] \notin Fetching

(* The validator belongs to the snapshot, and a 304 is only ever recorded   *)
(* against the snapshot it revalidates.                                     *)
ValidatorMatches ==
    /\ cache.etag # 0 => cache.etag = cache.app
    /\ \A p \in Procs : pc[p] = "apply" /\ resp[p].kind = "304"
                           => cache.app = resp[p].app

(* Concurrent refreshes never replace a snapshot by an older one.           *)
NeverGoesBack == [][~shutdown => cache'.app >= cache.app]_gvars

(* While the loop runs the cache catches up with a server that no longer    *)
(* changes, whatever manual refreshes and failed requests do in between.    *)
CatchesUp == pc[Loop] = "wait" ~> (cache.app = server \/ shutdown)

(* Shutdown returns, unless it was called while Start was running.          *)
ShutdownReturns == shutdown /\ ~overlap ~> returned

(* "Shutdown stops the background refresh loop": when it returns the loop   *)
(* has ended or never will run, unless Shutdown was called while Start was  *)
(* running; then Start may launch the loop afterwards.                      *)
ShutdownStopsLoop == returned /\ ~overlap => pc[Loop] \in {"idle", "ended"}
=============================================================================
