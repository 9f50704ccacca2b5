----------------------------- MODULE ApprovalPolicy -----------------------------
(***************************************************************************)
(* What the approval middleware promises, whatever queries it makes: every *)
(* request is judged once, by the settings in force at that moment.  It    *)
(* goes straight to its handler only when approval is not required then,   *)
(* and is turned into an approval request only when approval is required.  *)
(*                                                                         *)
(* The two exceptions of the code are part of the promise: a database call *)
(* that fails may let a request through unjudged, and on an installation   *)
(* that started without a row of settings a late reader may put the        *)
(* defaults back in force.                                                 *)
(***************************************************************************)
EXTENDS Naturals

CONSTANTS Requests, Kinds, Settings, Default,
          RequiresApproval(_, _),  \* settings, kind of request
          Exempt(_),               \* kinds that are never judged
          Permitted(_),            \* kinds whose sender has the role they need
          Updates(_)               \* kinds that change the settings

VARIABLES force,    \* the settings in force
          kind,     \* what each request asks for
          verdict,  \* what became of it
          faults,   \* database calls that have failed
          fresh     \* the installation started without a row of settings

pvars == <<force, kind, verdict, faults, fresh>>

Verdicts == {"unborn", "waiting", "owed", "direct", "requested", "refused"}

PolicyInit ==
    /\ force \in Settings /\ fresh \in BOOLEAN /\ (fresh => force = Default)
    /\ kind \in [Requests -> Kinds] /\ faults = 0
    /\ verdict = [r \in Requests |-> "unborn"]

Becomes(r, from, to) ==
    verdict[r] = from /\ verdict' = [verdict EXCEPT ![r] = to]

Arrive(r) ==
    /\ kind'[r] \in Kinds /\ kind' = [kind EXCEPT ![r] = kind'[r]]
    /\ Becomes(r, "unborn", IF Exempt(kind'[r]) THEN "direct" ELSE "waiting")
    /\ UNCHANGED <<force, faults, fresh>>

Fault == faults' = faults + 1

Pass(r) ==
    /\ Becomes(r, "waiting", "direct") /\ ~Updates(kind[r]) /\ Permitted(kind[r])
    /\ \/ ~RequiresApproval(force, kind[r]) /\ UNCHANGED faults
       \/ Fault
    /\ UNCHANGED <<force, kind, fresh>>

(* Nothing but a fault, or the rules of the approval workflow itself, can   *)
(* keep a request that is owed an approval from being filed.                *)
Owe(r) ==
    /\ RequiresApproval(force, kind[r]) /\ Becomes(r, "waiting", "owed")
    /\ UNCHANGED <<force, kind, faults, fresh>>

File(r) ==
    /\ Becomes(r, "owed", "requested")
    /\ UNCHANGED <<force, kind, faults, fresh>>

Refuse(r) ==
    /\ Becomes(r, "waiting", "refused") \/ Becomes(r, "owed", "refused")
    /\ UNCHANGED faults \/ Fault
    /\ UNCHANGED <<force, kind, fresh>>

(* A reader that found no row stores the defaults, or fails to.             *)
Reset ==
    /\ fresh /\ force' = Default
    /\ UNCHANGED <<kind, verdict, faults, fresh>>

Stumble ==
    /\ fresh /\ Fault
    /\ UNCHANGED <<force, kind, verdict, fresh>>

Change(r) ==
    /\ Updates(kind[r]) /\ Becomes(r, "waiting", "direct")
    /\ force' \in Settings
    /\ UNCHANGED <<kind, faults, fresh>>

PolicyNext ==
    \/ Reset \/ Stumble
    \/ \E r \in Requests :
         \/ Arrive(r) \/ Pass(r) \/ Owe(r) \/ File(r) \/ Refuse(r) \/ Change(r)

PolicySpec == PolicyInit /\ [][PolicyNext]_pvars
=============================================================================
