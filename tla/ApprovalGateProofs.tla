--------------------------- MODULE ApprovalGateProofs ---------------------------
(***************************************************************************)
(* The middleware implements ApprovalPolicy, for any number of concurrent  *)
(* requests, rows of settings and action types.                            *)
(***************************************************************************)
EXTENDS ApprovalGate, TLAPS

-----------------------------------------------------------------------------
(* The inductive invariant.                                                 *)

Asking == {"enabled", "required", "team", "create", "persist"}

(* What a request knows: one that is past its first query has seen a row    *)
(* (and rows are never deleted), one about to insert the defaults is on an  *)
(* installation that started without a row, and an update holds a row that  *)
(* is stored.                                                               *)
RequestOK(r) ==
    /\ m[r].pc \in {"required", "team", "create", "persist"} => first # 0
    /\ m[r].pc \in Asking => ~m[r].update
    /\ m[r].pc \in {"settings", "save"} => m[r].update
    /\ m[r].seeding => fresh /\ m[r].pc \in {"enabled", "settings"} /\ m[r].id # 0
    /\ m[r].pc = "save" => m[r].id \in Stored

GInv ==
    /\ PTypeOK
    /\ first = 0 => fresh
    /\ \A r \in Requests : RequestOK(r)

(* NewApprovalSettings returns settings.                                    *)
LEMMA DefaultTyped == Default \in Settings
  BY DEF Default, Settings

(* The settings in force are settings.                                      *)
LEMMA InForceTyped == ASSUME PTypeOK PROVE InForce \in Settings
  BY DefaultTyped DEF PTypeOK, InForce, Stored

(* A request that has not arrived is a request.                             *)
LEMMA UnbornTyped ==
    ASSUME PTypeOK PROVE Unborn \in Frames /\ NoPatch \in Patches
<1>1. NoPatch \in Patches  BY DEF NoPatch, Patches
<1>2. 0 \in 0..MaxRows  BY GateAssumption
<1> QED  BY <1>1, <1>2, DefaultTyped DEF Unborn, Frames, Roles

(* A frame that moves on and drops what it held.                            *)
Moved(r, pc) == [m[r] EXCEPT !.pc = pc, !.seeding = FALSE, !.id = 0,
                             !.row = Default, !.patch = NoPatch]

PCs == {"unborn", "enabled", "required", "team", "create", "persist",
        "settings", "save", "direct", "requested", "refused"}

(* A frame that moves on stays a frame.                                     *)
LEMMA MovedTyped ==
    ASSUME PTypeOK, NEW r \in Requests, NEW pc \in PCs
    PROVE  Moved(r, pc) \in Frames
<1>1. NoPatch \in Patches /\ 0 \in 0..MaxRows  BY UnbornTyped, GateAssumption
<1> QED  BY <1>1, DefaultTyped DEF PTypeOK, Frames, Moved, PCs

(* Goto moves one frame.                                                    *)
LEMMA GotoMoves ==
    ASSUME PTypeOK, NEW r \in Requests, NEW pc \in PCs, Goto(r, pc)
    PROVE  m' = [m EXCEPT ![r] = Moved(r, pc)] /\ m' \in [Requests -> Frames]
  BY MovedTyped DEF Goto, Moved, PTypeOK

-----------------------------------------------------------------------------
(* The refinement mapping.                                                  *)

K == [r \in Requests |-> Kind(r)]
V == [r \in Requests |-> Verdict(r)]

(* A step that changes one frame changes one verdict, and no kind unless    *)
(* the request is new.                                                      *)
LEMMA OneMoves ==
    ASSUME m \in [Requests -> Frames], NEW r \in Requests, NEW x \in Frames,
           m' = [m EXCEPT ![r] = x]
    PROVE  /\ V' = [V EXCEPT ![r] = V'[r]]
           /\ K' = [K EXCEPT ![r] = K'[r]]
  BY DEF V, K, Verdict, Kind, At

(* What a request asks for is settled when it arrives.                      *)
LEMMA KindStays ==
    ASSUME m \in [Requests -> Frames], NEW r \in Requests, NEW x \in Frames,
           m' = [m EXCEPT ![r] = x],
           x.update = m[r].update, x.role = m[r].role, x.act = m[r].act,
           x.mayPass = m[r].mayPass
    PROVE  K' = K
  BY DEF K, Kind


(* The row First finds after a row has been stored.                         *)
LEMMA StoreTyped ==
    ASSUME PTypeOK, NEW i \in 1..MaxRows, NEW x \in Settings,
           rows' = [rows EXCEPT ![i] = x],
           first' = IF first = 0 \/ i < first THEN i ELSE first
    PROVE  /\ rows' \in [1..MaxRows -> Settings \cup {None}]
           /\ first' \in 0..MaxRows /\ first' # 0
           /\ Stored' = Stored \cup {i}
           /\ first' \in Stored' /\ \A j \in Stored' : first' <= j
           /\ InForce' = IF first' = i THEN x ELSE InForce
  BY NoneAssumption, GateAssumption DEF PTypeOK, Stored, InForce

-----------------------------------------------------------------------------
(* The steps of the policy, in terms of the mapping.                        *)

Rest == fresh' = fresh /\ K' = K

(* A step no one can tell from the settings, the verdicts and the faults.   *)
LEMMA Stutters ==
    ASSUME V' = V, failures' = failures, InForce' = InForce, Rest
    PROVE  UNCHANGED Policy!pvars
  BY DEF Rest, V, K, Policy!pvars

(* A request goes through: the settings in force ask for no approval, or a  *)
(* query failed.                                                            *)
LEMMA Passes ==
    ASSUME NEW r \in Requests, V[r] = "waiting", V' = [V EXCEPT ![r] = "direct"],
           ~m[r].update, m[r].mayPass,
           \/ ~RequiresApproval(InForce, m[r].act) /\ failures' = failures
           \/ failures' = failures + 1,
           InForce' = InForce, Rest
    PROVE  Policy!PolicyNext
<1>1. Policy!Pass(r)
  BY DEF Rest, V, K, Kind, Policy!Pass, Policy!Becomes, Policy!Fault,
         IsUpdate, MayPass, KindRequires
<1> QED  BY <1>1 DEF Policy!PolicyNext

(* A request is to be filed: the settings in force ask for approval.        *)
LEMMA Owes ==
    ASSUME NEW r \in Requests, V[r] = "waiting", V' = [V EXCEPT ![r] = "owed"],
           RequiresApproval(InForce, m[r].act), failures' = failures,
           InForce' = InForce, Rest
    PROVE  Policy!PolicyNext
<1>1. Policy!Owe(r)
  BY DEF Rest, V, K, Kind, Policy!Owe, Policy!Becomes, KindRequires
<1> QED  BY <1>1 DEF Policy!PolicyNext

(* A request that was to be filed is filed.                                 *)
LEMMA Files ==
    ASSUME NEW r \in Requests, V[r] = "owed", V' = [V EXCEPT ![r] = "requested"],
           failures' = failures, InForce' = InForce, Rest
    PROVE  Policy!PolicyNext
<1>1. Policy!File(r)
  BY DEF Rest, V, K, Policy!File, Policy!Becomes
<1> QED  BY <1>1 DEF Policy!PolicyNext

(* A request is refused.                                                    *)
LEMMA Refuses ==
    ASSUME NEW r \in Requests, V[r] \in {"waiting", "owed"},
           V' = [V EXCEPT ![r] = "refused"],
           failures' = failures \/ failures' = failures + 1,
           InForce' = InForce, Rest
    PROVE  Policy!PolicyNext
<1>1. Policy!Refuse(r)
  BY DEF Rest, Policy!Refuse, Policy!Becomes, Policy!Fault, V, K
<1> QED  BY <1>1 DEF Policy!PolicyNext

(* The defaults come into force on an installation that started without a   *)
(* row.                                                                     *)
LEMMA Resets ==
    ASSUME fresh, InForce' = Default, V' = V, failures' = failures, Rest
    PROVE  Policy!PolicyNext
<1>1. Policy!Reset  BY DEF Rest, V, K, Policy!Reset
<1> QED  BY <1>1 DEF Policy!PolicyNext

(* A reader that found no row fails to store one.                           *)
LEMMA Stumbles ==
    ASSUME fresh, InForce' = InForce, V' = V, failures' = failures + 1, Rest
    PROVE  Policy!PolicyNext
<1>1. Policy!Stumble  BY DEF Rest, V, K, Policy!Stumble, Policy!Fault
<1> QED  BY <1>1 DEF Policy!PolicyNext

(* Root's update takes effect.                                              *)
LEMMA Changes ==
    ASSUME NEW r \in Requests, V[r] = "waiting", V' = [V EXCEPT ![r] = "direct"],
           m[r].update, InForce' \in Settings, failures' = failures, Rest
    PROVE  Policy!PolicyNext
<1>1. Policy!Change(r)
  BY DEF Rest, V, K, Kind, Policy!Change, Policy!Becomes, IsUpdate
<1> QED  BY <1>1 DEF Policy!PolicyNext

(* A request arrives, and root's mutations go through at once.              *)
LEMMA Arrives ==
    ASSUME NEW r \in Requests, V[r] = "unborn",
           V' = [V EXCEPT ![r] = IF IsExempt(K'[r]) THEN "direct" ELSE "waiting"],
           K'[r] \in Kinds, K' = [K EXCEPT ![r] = K'[r]],
           InForce' = InForce, failures' = failures, fresh' = fresh
    PROVE  Policy!PolicyNext
<1>1. Policy!Arrive(r)
  BY DEF V, K, Kind, Verdict, At, Policy!Arrive, Policy!Becomes
<1> QED  BY <1>1 DEF Policy!PolicyNext

-----------------------------------------------------------------------------
(* Frames that move.                                                        *)

(* The verdict on a request that has just moved to pc.                      *)
Out(pc) == IF pc = "persist" THEN "owed"
           ELSE IF pc \in {"enabled", "required", "team", "create", "settings", "save"}
           THEN "waiting" ELSE pc

(* A request that moves gets the verdict of the place it moves to.          *)
LEMMA MovedVerdict ==
    ASSUME PTypeOK, NEW r \in Requests, NEW pc \in PCs,
           m' = [m EXCEPT ![r] = Moved(r, pc)]
    PROVE  /\ K' = K
           /\ V' = [V EXCEPT ![r] = Out(pc)]
           /\ V[r] = Verdict(r)
<1>1. m \in [Requests -> Frames]  BY DEF PTypeOK
<1>2. Moved(r, pc) \in Frames  BY MovedTyped
<1>3. /\ Moved(r, pc).update = m[r].update /\ Moved(r, pc).role = m[r].role
      /\ Moved(r, pc).act = m[r].act /\ Moved(r, pc).mayPass = m[r].mayPass
      /\ Moved(r, pc).pc = pc /\ Moved(r, pc).seeding = FALSE
  BY <1>1 DEF Moved, Frames
<1>4. K' = K  BY <1>1, <1>2, <1>3, KindStays
<1>5. m'[r].pc = pc /\ m'[r].seeding = FALSE  BY <1>1, <1>3
<1>6. Verdict(r)' = Out(pc)  BY <1>5 DEF Kind, Verdict, At, Out, PCs
<1>7. V'[r] = Out(pc)  BY <1>6 DEF Kind, V, Verdict, At
<1>8. V[r] = Verdict(r)  BY DEF V
<1> QED  BY <1>1, <1>2, <1>4, <1>7, <1>8, OneMoves

(* What other requests know stays true.                                     *)
LEMMA OthersOK ==
    ASSUME GInv, NEW r \in Requests, NEW x \in Frames, m' = [m EXCEPT ![r] = x],
           fresh' = fresh, first # 0 => first' # 0, Stored \subseteq Stored',
           RequestOK(r)'
    PROVE  \A q \in Requests : RequestOK(q)'
<1>1. SUFFICES ASSUME NEW q \in Requests, q # r PROVE RequestOK(q)'
  OBVIOUS
<1>2. m'[q] = m[q] /\ RequestOK(q)  BY <1>1 DEF GInv, PTypeOK
<1> QED  BY <1>2 DEF RequestOK

(* A request that moves on in the order of the code knows what it should.   *)
LEMMA MovedOK ==
    ASSUME GInv, NEW r \in Requests, NEW pc \in PCs, m' = [m EXCEPT ![r] = Moved(r, pc)],
           fresh' = fresh, first # 0 => first' # 0, Stored \subseteq Stored',
           pc \in {"required", "team", "create", "persist"} => first' # 0 /\ ~m[r].update,
           pc \in {"direct", "refused", "requested", "required", "team", "create", "persist"}
    PROVE  \A q \in Requests : RequestOK(q)'
<1>1. Moved(r, pc) \in Frames  BY MovedTyped DEF GInv
<1>2. m'[r].pc = pc /\ m'[r].seeding = FALSE /\ m'[r].update = m[r].update
  BY DEF Moved, GInv, PTypeOK, Frames
<1>3. RequestOK(r)'  BY <1>2 DEF RequestOK, Asking
<1> QED  BY <1>1, <1>3, OthersOK

-----------------------------------------------------------------------------
(* Every action preserves the invariant and is a step of the policy.        *)

PolicyStep == Policy!PolicyNext \/ UNCHANGED Policy!pvars

(* A step that leaves the table of settings alone.                          *)
LEMMA TableStays ==
    ASSUME GInv, UNCHANGED <<rows, first, fresh>>
    PROVE  InForce' = InForce /\ Stored' = Stored
  BY DEF InForce, Stored

(* The invariant, after a step that leaves the table alone.                 *)
LEMMA InvStays ==
    ASSUME GInv, UNCHANGED <<rows, first, fresh>>, m' \in [Requests -> Frames],
           drawn' \in 0..MaxRows, failures' \in 0..MaxFailures, always' \subseteq Requests,
           \A q \in Requests : RequestOK(q)'
    PROVE  GInv'
<1>1. Stored' = Stored  BY DEF Stored
<1>2. PTypeOK'  BY <1>1 DEF GInv, PTypeOK
<1> QED  BY <1>2 DEF GInv

(* A request moves without touching the table, and without a new verdict    *)
(* or with a refusal.                                                       *)
LEMMA MoveStep ==
    ASSUME GInv, NEW r \in Requests, NEW pc \in PCs, Goto(r, pc),
           UNCHANGED <<rows, first, fresh, always>>, drawn' = drawn,
           failures' = failures \/ (failures' = failures + 1 /\ pc = "refused"),
           failures' \in 0..MaxFailures,
           V[r] \in {"waiting", "owed"},
           pc = "refused" \/ (Out(pc) = V[r]),
           pc \in {"required", "team", "create", "persist"} => first # 0 /\ ~m[r].update,
           pc \in {"refused", "required", "team", "create", "persist"}
    PROVE  GInv' /\ PolicyStep
<1>1. PTypeOK  BY DEF GInv
<1>2. m' = [m EXCEPT ![r] = Moved(r, pc)] /\ m' \in [Requests -> Frames]
  BY <1>1, GotoMoves
<1>3. InForce' = InForce /\ Stored' = Stored  BY TableStays
<1>4. \A q \in Requests : RequestOK(q)'
  BY <1>2, <1>3, MovedOK
<1>5. GInv'  BY <1>1, <1>2, <1>4, InvStays DEF PTypeOK
<1>6. K' = K /\ V' = [V EXCEPT ![r] = Out(pc)]  BY <1>1, <1>2, MovedVerdict
<1>7. CASE pc = "refused"
  <2>1. V' = [V EXCEPT ![r] = "refused"]  BY <1>6, <1>7 DEF Out
  <2> QED  BY <2>1, <1>3, <1>5, <1>6, Refuses DEF PolicyStep, Rest
<1>8. CASE pc # "refused"
  <2>1. V' = V  BY <1>6, <1>8 DEF V
  <2> QED  BY <2>1, <1>3, <1>5, <1>6, <1>8, Stutters DEF PolicyStep, Rest
<1> QED  BY <1>7, <1>8

(* CheckRole, once it is settled that the request needs no approval, or     *)
(* that nobody could tell.                                                  *)
LEMMA CheckRoleStep ==
    ASSUME GInv, NEW r \in Requests, CheckRole(r),
           UNCHANGED <<rows, first, fresh, always>>, drawn' = drawn,
           \/ failures' = failures /\ ~RequiresApproval(InForce, m[r].act)
           \/ failures' = failures + 1,
           failures' \in 0..MaxFailures,
           V[r] = "waiting", ~m[r].update
    PROVE  GInv' /\ PolicyStep
<1>1. PTypeOK  BY DEF GInv
<1>2. CASE ~m[r].mayPass
  <2>1. Goto(r, "refused")  BY <1>2 DEF CheckRole
  <2>2. "refused" \in PCs  BY DEF PCs
  <2> QED  BY <2>1, <2>2, MoveStep
<1>3. CASE m[r].mayPass
  <2>1. Goto(r, "direct") /\ "direct" \in PCs  BY <1>3 DEF CheckRole, PCs
  <2>2. m' = [m EXCEPT ![r] = Moved(r, "direct")] /\ m' \in [Requests -> Frames]
    BY <1>1, <2>1, GotoMoves
  <2>3. InForce' = InForce /\ Stored' = Stored  BY TableStays
  <2>4. \A q \in Requests : RequestOK(q)'  BY <2>1, <2>2, <2>3, MovedOK
  <2>5. GInv'  BY <1>1, <2>2, <2>4, InvStays DEF PTypeOK
  <2>6. K' = K /\ V' = [V EXCEPT ![r] = Out("direct")]
    BY <1>1, <2>1, <2>2, MovedVerdict
  <2>7. V' = [V EXCEPT ![r] = "direct"]  BY <2>6 DEF Out
  <2> QED  BY <1>3, <2>3, <2>5, <2>6, <2>7, Passes DEF PolicyStep, Rest
<1> QED  BY <1>2, <1>3

(* Where a request stands according to the policy.                          *)
LEMMA Standing ==
    ASSUME GInv, NEW r \in Requests
    PROVE  /\ V[r] = Verdict(r) /\ RequestOK(r) /\ m[r] \in Frames
           /\ m[r].pc \in {"required", "team", "create", "settings", "save"}
                => V[r] = "waiting"
           /\ m[r].pc = "enabled" /\ ~m[r].seeding => V[r] = "waiting"
           /\ m[r].pc = "persist" => V[r] = "owed"
           /\ m[r].pc = "unborn" => V[r] = "unborn"
<1>1. V[r] = Verdict(r)  BY DEF V, Verdict, At, Kind
<1>2. RequestOK(r) /\ m[r] \in Frames  BY DEF GInv, PTypeOK
<1>3. /\ m[r].pc \in {"required", "team", "create", "settings", "save"}
           => Verdict(r) = "waiting"
      /\ m[r].pc = "enabled" /\ ~m[r].seeding => Verdict(r) = "waiting"
      /\ m[r].pc = "persist" => Verdict(r) = "owed"
      /\ m[r].pc = "unborn" => Verdict(r) = "unborn"
  BY DEF Verdict, At, Kind
<1> QED  BY <1>1, <1>2, <1>3

(* determineTeamID brings a request no verdict but a refusal.               *)
LEMMA DetermineTeamStep ==
    ASSUME GInv, NEW r \in Requests, determineTeamID(r) PROVE GInv' /\ PolicyStep
<1>1. V[r] = "waiting" /\ ~m[r].update /\ first # 0
  BY Standing DEF RequestOK, Asking, determineTeamID, At
<1>2. "create" \in PCs /\ "refused" \in PCs /\ Out("create") = "waiting"
  BY DEF PCs, Out
<1>3. /\ failures' = failures /\ failures' \in 0..MaxFailures
      /\ UNCHANGED <<rows, first, fresh, always>> /\ drawn' = drawn
      /\ Goto(r, "create") \/ Goto(r, "refused")
  BY DEF GInv, PTypeOK, determineTeamID
<1>4. CASE Goto(r, "create")
  BY <1>1, <1>2, <1>3, <1>4, MoveStep
<1>5. CASE Goto(r, "refused")
  BY <1>1, <1>2, <1>3, <1>5, MoveStep
<1> QED  BY <1>3, <1>4, <1>5

(* CreateApprovalRequest files what is owed, or the workflow objects.       *)
LEMMA CreateApprovalRequestStep ==
    ASSUME GInv, NEW r \in Requests, CreateApprovalRequest(r) PROVE GInv' /\ PolicyStep
<1>1. V[r] = "owed"  BY Standing DEF CreateApprovalRequest, At
<1>2. /\ failures' = failures /\ failures' \in 0..MaxFailures
      /\ UNCHANGED <<rows, first, fresh, always>> /\ drawn' = drawn
      /\ Goto(r, "requested") \/ Goto(r, "refused")
  BY DEF GInv, PTypeOK, CreateApprovalRequest
<1>3. PTypeOK /\ "refused" \in PCs /\ "requested" \in PCs  BY DEF GInv, PCs
<1>4. CASE Goto(r, "refused")  BY <1>1, <1>2, <1>3, <1>4, MoveStep
<1>5. CASE Goto(r, "requested")
  <2>2. m' = [m EXCEPT ![r] = Moved(r, "requested")] /\ m' \in [Requests -> Frames]
    BY <1>3, <1>5, GotoMoves
  <2>3. InForce' = InForce /\ Stored' = Stored  BY <1>2, TableStays
  <2>4. \A q \in Requests : RequestOK(q)'  BY <1>2, <1>3, <2>2, <2>3, MovedOK
  <2>5. GInv'  BY <1>2, <1>3, <2>2, <2>4, InvStays DEF PTypeOK
  <2>6. K' = K /\ V' = [V EXCEPT ![r] = Out("requested")]
    BY <1>3, <2>2, MovedVerdict
  <2>7. V' = [V EXCEPT ![r] = "requested"]  BY <2>6 DEF Out
  <2> QED  BY <1>1, <1>2, <2>3, <2>5, <2>6, <2>7, Files DEF PolicyStep, Rest
<1> QED  BY <1>2, <1>4, <1>5

(* An update that has read the settings s as row i.                         *)
Loaded(r, s, i) == [m[r] EXCEPT !.pc = "save", !.seeding = FALSE, !.id = i,
                                !.row = ApplyUpdate(s, m[r].patch), !.patch = NoPatch]

(* ApplyUpdate returns settings.                                            *)
LEMMA UpdateTyped ==
    ASSUME NEW s \in Settings, NEW p \in Patches PROVE ApplyUpdate(s, p) \in Settings
  BY DEF ApplyUpdate, Patches, Settings

(* Reading the settings does not change the standing of an update.          *)
LEMMA LoadedOK ==
    ASSUME GInv, NEW r \in Requests, NEW s \in Settings, NEW i \in 0..MaxRows,
           At(r, "settings"), m' = [m EXCEPT ![r] = Loaded(r, s, i)],
           fresh' = fresh, first # 0 => first' # 0, Stored \subseteq Stored',
           i \in Stored'
    PROVE  /\ m' \in [Requests -> Frames] /\ K' = K /\ V' = V
           /\ \A q \in Requests : RequestOK(q)'
<1>1. m \in [Requests -> Frames] /\ m[r] \in Frames /\ PTypeOK  BY DEF GInv, PTypeOK
<1>2. NoPatch \in Patches  BY <1>1, UnbornTyped
<1>3. ApplyUpdate(s, m[r].patch) \in Settings  BY <1>1, UpdateTyped DEF Frames
<1>4. Loaded(r, s, i) \in Frames
  BY <1>1, <1>2, <1>3 DEF Loaded, Frames
<1>5. /\ Loaded(r, s, i).update = m[r].update /\ Loaded(r, s, i).role = m[r].role
      /\ Loaded(r, s, i).act = m[r].act /\ Loaded(r, s, i).mayPass = m[r].mayPass
      /\ Loaded(r, s, i).pc = "save" /\ Loaded(r, s, i).seeding = FALSE
      /\ Loaded(r, s, i).id = i
  BY <1>1 DEF Loaded, Frames
<1>6. m' \in [Requests -> Frames]  BY <1>1, <1>4
<1>7. K' = K  BY <1>1, <1>4, <1>5, KindStays
<1>8. /\ m'[r].pc = "save" /\ m'[r].seeding = FALSE /\ m'[r].id = i
      /\ m'[r].update = m[r].update
  BY <1>1, <1>5
<1>9. V[r] = "waiting" /\ m[r].update  BY Standing DEF At, RequestOK
<1>10. Verdict(r)' = "waiting"  BY <1>8 DEF Kind, Verdict, At
<1>11. V'[r] = "waiting"  BY <1>10 DEF Kind, V, Verdict, At
<1>12. V' = [V EXCEPT ![r] = V'[r]]  BY <1>1, <1>4, OneMoves
<1>13. V' = V  BY <1>9, <1>11, <1>12 DEF V, Kind, Verdict, At
<1>14. RequestOK(r)'  BY <1>8, <1>9 DEF RequestOK, Asking
<1>15. \A q \in Requests : RequestOK(q)'  BY <1>4, <1>14, OthersOK
<1> QED  BY <1>6, <1>7, <1>13, <1>15

(* A query that finds a row.                                                *)
LEMMA FoundStep ==
    ASSUME GInv, NEW r \in Requests, ~m[r].seeding, first # 0,
           Consult(r, rows[first], first), drawn' = drawn,
           UNCHANGED <<rows, first, failures, fresh, always>>
    PROVE  GInv' /\ PolicyStep
<1>1. PTypeOK /\ InForce = rows[first] /\ InForce \in Settings /\ first \in Stored
  BY InForceTyped DEF GInv, InForce, PTypeOK
<1>2. /\ failures' = failures /\ failures' \in 0..MaxFailures
      /\ UNCHANGED <<rows, first, fresh, always>>
  BY <1>1 DEF PTypeOK
<1>3. InForce' = InForce /\ Stored' = Stored  BY <1>2, TableStays
<1>4. "required" \in PCs /\ "team" \in PCs /\ "persist" \in PCs /\ "refused" \in PCs
  BY DEF PCs
<1>5. Out("required") = "waiting" /\ Out("team") = "waiting" /\ Out("persist") = "owed"
  BY DEF Out
<1>6. CASE At(r, "enabled")
  <2>1. V[r] = "waiting" /\ ~m[r].update
    BY <1>6, Standing DEF At, RequestOK, Asking
  <2>2. IF InForce.enabled THEN Goto(r, "required") ELSE CheckRole(r)
    BY <1>1, <1>6 DEF Consult, At
  <2>3. CASE InForce.enabled
    <3>1. Goto(r, "required")  BY <2>2, <2>3
    <3> QED  BY <1>2, <1>4, <1>5, <2>1, <3>1, MoveStep
  <2>4. CASE ~InForce.enabled
    <3>1. CheckRole(r)  BY <2>2, <2>4
    <3>2. ~RequiresApproval(InForce, m[r].act)  BY <2>4 DEF RequiresApproval
    <3> QED  BY <1>2, <2>1, <3>1, <3>2, CheckRoleStep
  <2> QED  BY <2>3, <2>4
<1>7. CASE At(r, "required")
  <2>1. V[r] = "waiting" /\ ~m[r].update
    BY <1>7, Standing DEF At, RequestOK, Asking
  <2>2. IF RequiresApproval(InForce, m[r].act) THEN Goto(r, "team") ELSE CheckRole(r)
    BY <1>1, <1>7 DEF Consult, At, createApprovalRequest
  <2>3. CASE RequiresApproval(InForce, m[r].act)
    <3>1. Goto(r, "team")  BY <2>2, <2>3
    <3> QED  BY <1>2, <1>4, <1>5, <2>1, <3>1, MoveStep
  <2>4. CASE ~RequiresApproval(InForce, m[r].act)
    <3>1. CheckRole(r)  BY <2>2, <2>4
    <3> QED  BY <1>2, <2>1, <2>4, <3>1, CheckRoleStep
  <2> QED  BY <2>3, <2>4
<1>8. CASE At(r, "create")
  <2>1. V[r] = "waiting" /\ ~m[r].update
    BY <1>8, Standing DEF At, RequestOK, Asking
  <2>2. Goto(r, IF RequiresApproval(InForce, m[r].act) THEN "persist" ELSE "refused")
    BY <1>1, <1>8 DEF Consult, At
  <2>3. CASE RequiresApproval(InForce, m[r].act)
    <3>1. Goto(r, "persist")  BY <2>2, <2>3
    <3>2. m' = [m EXCEPT ![r] = Moved(r, "persist")] /\ m' \in [Requests -> Frames]
      BY <1>1, <1>4, <3>1, GotoMoves
    <3>3. \A q \in Requests : RequestOK(q)'  BY <1>2, <1>3, <1>4, <2>1, <3>2, MovedOK
    <3>4. GInv'  BY <1>1, <1>2, <3>2, <3>3, InvStays DEF PTypeOK
    <3>5. K' = K /\ V' = [V EXCEPT ![r] = Out("persist")]
      BY <1>1, <1>4, <3>2, MovedVerdict
    <3>6. V' = [V EXCEPT ![r] = "owed"]  BY <1>5, <3>5
    <3>7. Policy!PolicyNext  BY <1>2, <1>3, <2>1, <2>3, <3>5, <3>6, Owes DEF Rest
    <3> QED  BY <3>4, <3>7 DEF PolicyStep
  <2>4. CASE ~RequiresApproval(InForce, m[r].act)
    <3>1. Goto(r, "refused")  BY <2>2, <2>4
    <3> QED  BY <1>2, <1>4, <2>1, <3>1, MoveStep
  <2> QED  BY <2>3, <2>4
<1>9. CASE At(r, "settings")
  <2>1. m' = [m EXCEPT ![r] = Loaded(r, InForce, first)]
    BY <1>1, <1>9 DEF Consult, At, Loaded
  <2>2. first \in 0..MaxRows  BY <1>1 DEF PTypeOK
  <2>3. /\ m' \in [Requests -> Frames] /\ K' = K /\ V' = V
        /\ \A q \in Requests : RequestOK(q)'
    BY <1>1, <1>2, <1>3, <1>9, <2>1, <2>2, LoadedOK
  <2>4. GInv'  BY <1>1, <1>2, <2>3, InvStays DEF PTypeOK
  <2> QED  BY <1>2, <1>3, <2>3, <2>4, Stutters DEF PolicyStep, Rest
<1> QED  BY <1>6, <1>7, <1>8, <1>9 DEF Consult

(* A query that finds none: a mutation is judged by the defaults at once.   *)
LEMMA EmptyStep ==
    ASSUME GInv, NEW r \in Requests, ~m[r].seeding, first = 0, drawn < MaxRows,
           m[r].pc \in {"enabled", "required", "create", "settings"},
           drawn' = drawn + 1,
           m' = [m EXCEPT ![r].seeding = TRUE, ![r].id = drawn + 1],
           UNCHANGED <<rows, first, failures, fresh, always>>
    PROVE  GInv' /\ PolicyStep
<1> DEFINE x == [m[r] EXCEPT !.seeding = TRUE, !.id = drawn + 1]
<1>1. PTypeOK /\ m \in [Requests -> Frames] /\ m[r] \in Frames  BY DEF GInv, PTypeOK
<1>2. drawn + 1 \in 0..MaxRows /\ drawn + 1 # 0  BY <1>1, GateAssumption DEF PTypeOK
<1>3. m' = [m EXCEPT ![r] = x]  BY <1>1
<1>4. x \in Frames  BY <1>1, <1>2 DEF Frames
<1>5. /\ x.update = m[r].update /\ x.role = m[r].role /\ x.act = m[r].act
      /\ x.mayPass = m[r].mayPass /\ x.pc = m[r].pc /\ x.seeding = TRUE
      /\ x.id = drawn + 1
  BY <1>1 DEF Frames
<1>6. /\ m'[r].update = m[r].update /\ m'[r].mayPass = m[r].mayPass
      /\ m'[r].pc = m[r].pc /\ m'[r].seeding = TRUE /\ m'[r].id # 0
  BY <1>1, <1>2, <1>3, <1>5
<1> HIDE DEF x
<1>7. RequestOK(r) /\ fresh /\ m[r].pc \in {"enabled", "settings"}
  BY Standing DEF GInv, RequestOK
<1>8. /\ UNCHANGED <<rows, first, fresh, always>> /\ failures' = failures
      /\ failures' \in 0..MaxFailures
  BY <1>1 DEF PTypeOK
<1>9. InForce' = InForce /\ Stored' = Stored  BY <1>8, TableStays
<1>10. RequestOK(r)'  BY <1>6, <1>7, <1>8 DEF RequestOK, Asking
<1>11. \A q \in Requests : RequestOK(q)'  BY <1>3, <1>4, <1>8, <1>9, <1>10, OthersOK
<1>12. m' \in [Requests -> Frames]  BY <1>1, <1>3, <1>4
<1>13. GInv'  BY <1>1, <1>2, <1>8, <1>11, <1>12, InvStays DEF PTypeOK
<1>14. K' = K  BY <1>1, <1>3, <1>4, <1>5, KindStays
<1>15. V' = [V EXCEPT ![r] = V'[r]]  BY <1>1, <1>3, <1>4, OneMoves
<1>16. V'[r] = Verdict(r)'  BY DEF V, Verdict, At, Kind
<1>17. CASE m[r].pc = "settings"
  <2>1. V[r] = "waiting"  BY <1>17, Standing
  <2>2. Verdict(r)' = "waiting"  BY <1>6, <1>17 DEF Verdict, At, Kind
  <2>3. V'[r] = V[r]  BY <1>16, <2>1, <2>2
  <2>4. V = [q \in Requests |-> V[q]]  BY DEF V, Kind, Verdict, At
  <2>5. V' = V  BY <1>15, <2>3, <2>4
  <2> QED  BY <1>8, <1>9, <1>13, <1>14, <2>5, Stutters DEF PolicyStep, Rest
<1>18. CASE m[r].pc = "enabled"
  <2>1. V[r] = "waiting" /\ ~m[r].update  BY <1>7, <1>18, Standing DEF RequestOK, Asking
  <2>2. Verdict(r)' = IF m[r].mayPass THEN "direct" ELSE "refused"
    BY <1>6, <1>18 DEF Verdict, At, Kind
  <2>3. InForce = Default /\ ~RequiresApproval(InForce, m[r].act)
    BY DEF InForce, Default, RequiresApproval
  <2>4. CASE m[r].mayPass
    <3>1. V' = [V EXCEPT ![r] = "direct"]  BY <1>15, <1>16, <2>2, <2>4
    <3>2. Policy!PolicyNext
      BY <1>8, <1>9, <1>14, <2>1, <2>3, <2>4, <3>1, Passes DEF Rest
    <3> QED  BY <1>13, <3>2 DEF PolicyStep
  <2>5. CASE ~m[r].mayPass
    <3>1. V' = [V EXCEPT ![r] = "refused"]  BY <1>15, <1>16, <2>2, <2>5
    <3>2. Policy!PolicyNext  BY <1>8, <1>9, <1>14, <2>1, <3>1, Refuses DEF Rest
    <3> QED  BY <1>13, <3>2 DEF PolicyStep
  <2> QED  BY <2>4, <2>5
<1> QED  BY <1>7, <1>17, <1>18

(* Either way the middleware has asked for the settings in force.           *)
LEMMA GetStep ==
    ASSUME GInv, NEW r \in Requests, Get(r) PROVE GInv' /\ PolicyStep
<1>1. /\ ~m[r].seeding /\ UNCHANGED <<rows, first, failures, fresh, always>>
      /\ \/ first # 0 /\ Consult(r, rows[first], first) /\ drawn' = drawn
         \/ /\ first = 0 /\ drawn < MaxRows
            /\ m[r].pc \in {"enabled", "required", "create", "settings"}
            /\ drawn' = drawn + 1
            /\ m' = [m EXCEPT ![r].seeding = TRUE, ![r].id = drawn + 1]
  BY DEF Get
<1>2. CASE first # 0  BY <1>1, <1>2, FoundStep
<1>3. CASE first = 0  BY <1>1, <1>3, EmptyStep
<1> QED  BY <1>2, <1>3

(* The answer to a mutation that found no row: it was given with the query. *)
LEMMA AnswerStays ==
    ASSUME GInv, NEW r \in Requests, m[r].seeding, At(r, "enabled"), CheckRole(r),
           fresh' = fresh, first # 0 => first' # 0, Stored \subseteq Stored'
    PROVE  /\ m' \in [Requests -> Frames] /\ K' = K /\ V' = V
           /\ \A q \in Requests : RequestOK(q)'
<1> DEFINE pc == IF m[r].mayPass THEN "direct" ELSE "refused"
<1>1. PTypeOK /\ V[r] = Verdict(r)  BY Standing DEF GInv
<1>2. pc \in PCs /\ pc \in {"direct", "refused"} /\ Out(pc) = pc  BY DEF PCs, Out
<1>3. Goto(r, pc)  BY DEF CheckRole
<1>4. Verdict(r) = pc  BY DEF Verdict, At, Kind
<1> HIDE DEF pc
<1>5. m' = [m EXCEPT ![r] = Moved(r, pc)] /\ m' \in [Requests -> Frames]
  BY <1>1, <1>2, <1>3, GotoMoves
<1>6. K' = K /\ V' = [V EXCEPT ![r] = Out(pc)]  BY <1>1, <1>2, <1>5, MovedVerdict
<1>7. V = [q \in Requests |-> V[q]]  BY DEF V, Kind, Verdict, At
<1>8. V' = V  BY <1>1, <1>2, <1>4, <1>6, <1>7
<1>9. \A q \in Requests : RequestOK(q)'  BY <1>2, <1>5, MovedOK
<1> QED  BY <1>5, <1>6, <1>8, <1>9

(* The defaults are stored.  They are in force from then on if no row with  *)
(* a smaller identifier is there, even though root may have chosen          *)
(* otherwise: the reset the policy allows a fresh installation.             *)
LEMMA CreateStep ==
    ASSUME GInv, NEW r \in Requests, Create(r) PROVE GInv' /\ PolicyStep
<1> DEFINE i == m[r].id
<1>1. /\ m[r].seeding /\ rows' = [rows EXCEPT ![i] = Default]
      /\ first' = IF first = 0 \/ i < first THEN i ELSE first
      /\ Consult(r, Default, i) /\ always' \subseteq always
      /\ drawn' = drawn /\ failures' = failures /\ fresh' = fresh
  BY DEF Create, Watch
<1>2. PTypeOK /\ m[r] \in Frames /\ fresh /\ m[r].pc \in {"enabled", "settings"}
      /\ i # 0
  BY <1>1, Standing DEF GInv, RequestOK
<1>3. i \in 1..MaxRows /\ i \in 0..MaxRows  BY <1>2, GateAssumption DEF Frames
<1> HIDE DEF i
<1>4. /\ rows' \in [1..MaxRows -> Settings \cup {None}]
      /\ first' \in 0..MaxRows /\ first' # 0
      /\ Stored' = Stored \cup {i}
      /\ first' \in Stored' /\ \A j \in Stored' : first' <= j
      /\ InForce' = IF first' = i THEN Default ELSE InForce
  BY <1>1, <1>2, <1>3, DefaultTyped, StoreTyped
<1>5. /\ m' \in [Requests -> Frames] /\ K' = K /\ V' = V
      /\ \A q \in Requests : RequestOK(q)'
  <2>1. CASE m[r].pc = "enabled"
    <3>1. CheckRole(r) /\ At(r, "enabled")
      BY <1>1, <2>1 DEF Consult, At, Default
    <3> QED  BY <1>1, <1>4, <3>1, AnswerStays
  <2>2. CASE m[r].pc = "settings"
    <3>1. m' = [m EXCEPT ![r] = Loaded(r, Default, i)] /\ At(r, "settings")
      BY <1>1, <2>2 DEF Consult, At, Loaded
    <3> QED  BY <1>1, <1>3, <1>4, <3>1, DefaultTyped, LoadedOK
  <2> QED  BY <1>2, <2>1, <2>2
<1>6. PTypeOK'  BY <1>1, <1>2, <1>4, <1>5 DEF PTypeOK
<1>7. GInv'  BY <1>4, <1>5, <1>6 DEF GInv
<1>8. CASE first' = i
  <2>1. Policy!PolicyNext  BY <1>1, <1>2, <1>4, <1>5, <1>8, Resets DEF Rest
  <2> QED  BY <1>7, <2>1 DEF PolicyStep
<1>9. CASE first' # i
  <2>1. UNCHANGED Policy!pvars  BY <1>1, <1>4, <1>5, <1>9, Stutters DEF Rest
  <2> QED  BY <1>7, <2>1 DEF PolicyStep
<1> QED  BY <1>8, <1>9

(* Root's update is written: the only step that changes the settings of an  *)
(* installation that has a row.                                             *)
LEMMA SaveSettingsStep ==
    ASSUME GInv, NEW r \in Requests, SaveSettings(r) PROVE GInv' /\ PolicyStep
<1> DEFINE i == m[r].id
<1>1. /\ At(r, "save") /\ Goto(r, "direct") /\ rows' = [rows EXCEPT ![i] = m[r].row]
      /\ first' = first /\ drawn' = drawn /\ failures' = failures /\ fresh' = fresh
      /\ always' \subseteq always
  BY DEF SaveSettings, Watch
<1>2. PTypeOK /\ m[r] \in Frames /\ m[r].update /\ i \in Stored /\ V[r] = "waiting"
  BY <1>1, Standing DEF GInv, RequestOK, At
<1>3. i \in 1..MaxRows /\ m[r].row \in Settings  BY <1>2 DEF Stored, Frames
<1>4. first' = IF first = 0 \/ i < first THEN i ELSE first
  BY <1>1, <1>2, <1>3, GateAssumption DEF PTypeOK
<1> HIDE DEF i
<1>5. /\ rows' \in [1..MaxRows -> Settings \cup {None}]
      /\ first' \in 0..MaxRows /\ first' # 0
      /\ Stored' = Stored \cup {i}
      /\ first' \in Stored' /\ \A j \in Stored' : first' <= j
  BY <1>1, <1>2, <1>3, <1>4, StoreTyped
<1>6. "direct" \in PCs  BY DEF PCs
<1>7. m' = [m EXCEPT ![r] = Moved(r, "direct")] /\ m' \in [Requests -> Frames]
  BY <1>1, <1>2, <1>6, GotoMoves
<1>8. K' = K /\ V' = [V EXCEPT ![r] = Out("direct")]  BY <1>2, <1>6, <1>7, MovedVerdict
<1>9. V' = [V EXCEPT ![r] = "direct"]  BY <1>8 DEF Out
<1>10. \A q \in Requests : RequestOK(q)'  BY <1>1, <1>5, <1>6, <1>7, MovedOK
<1>11. PTypeOK'  BY <1>1, <1>2, <1>5, <1>7 DEF PTypeOK
<1>12. GInv'  BY <1>5, <1>10, <1>11 DEF GInv
<1>13. InForce' \in Settings  BY <1>11, <1>5, DefaultTyped DEF PTypeOK, InForce, Stored
<1>14. Policy!PolicyNext  BY <1>1, <1>2, <1>8, <1>9, <1>13, Changes DEF Rest
<1> QED  BY <1>12, <1>14 DEF PolicyStep

(* A query fails.                                                           *)
LEMMA FailStep ==
    ASSUME GInv, NEW r \in Requests, Fail(r) PROVE GInv' /\ PolicyStep
<1>1. /\ failures' = failures + 1 /\ failures' \in 0..MaxFailures
      /\ UNCHANGED <<rows, first, fresh, always>> /\ drawn' = drawn
  BY GateAssumption DEF Fail, GInv, PTypeOK
<1>2. m[r].pc \in {"enabled", "required", "team", "create", "persist", "settings", "save"}
  BY DEF Fail
<1>3. IF At(r, "enabled") THEN CheckRole(r) ELSE Goto(r, "refused")  BY DEF Fail
<1>4. InForce' = InForce /\ Stored' = Stored  BY <1>1, TableStays
<1>5. CASE At(r, "enabled") /\ m[r].seeding
  <2>1. CheckRole(r) /\ fresh  BY <1>3, <1>5, Standing DEF RequestOK
  <2>2. /\ m' \in [Requests -> Frames] /\ K' = K /\ V' = V
        /\ \A q \in Requests : RequestOK(q)'
    BY <1>1, <1>4, <1>5, <2>1, AnswerStays
  <2>3. PTypeOK  BY DEF GInv
  <2>4. GInv'  BY <1>1, <2>2, <2>3, InvStays DEF PTypeOK
  <2>5. Policy!PolicyNext  BY <1>1, <1>4, <2>1, <2>2, Stumbles DEF Rest
  <2> QED  BY <2>4, <2>5 DEF PolicyStep
<1>6. CASE At(r, "enabled") /\ ~m[r].seeding
  <2>1. CheckRole(r)  BY <1>3, <1>6
  <2>2. V[r] = "waiting" /\ ~m[r].update  BY <1>6, Standing DEF RequestOK, Asking, At
  <2> QED  BY <1>1, <2>1, <2>2, CheckRoleStep
<1>7. CASE ~At(r, "enabled")
  <2>1. Goto(r, "refused")  BY <1>3, <1>7
  <2>2. V[r] \in {"waiting", "owed"}  BY <1>2, <1>7, Standing DEF At
  <2>3. "refused" \in PCs  BY DEF PCs
  <2> QED  BY <1>1, <2>1, <2>2, <2>3, MoveStep
<1> QED  BY <1>5, <1>6, <1>7

(* A request that arrives.                                                  *)
LEMMA ArriveStep ==
    ASSUME GInv, NEW r \in Requests, NEW x \in Frames, At(r, "unborn"),
           m' = [m EXCEPT ![r] = x], ~x.seeding,
           \/ x.pc = "direct" /\ x.role = "root" /\ ~x.update
           \/ x.pc = "enabled" /\ x.role # "root" /\ ~x.update
           \/ x.pc = "settings" /\ x.update,
           UNCHANGED <<rows, first, drawn, failures, fresh>>, always' \subseteq Requests
    PROVE  GInv' /\ PolicyStep
<1>1. PTypeOK /\ m \in [Requests -> Frames] /\ V[r] = "unborn"
  BY Standing DEF GInv, PTypeOK, At
<1>2. m'[r] = x /\ m' \in [Requests -> Frames]  BY <1>1
<1>3. /\ UNCHANGED <<rows, first, fresh>> /\ drawn' \in 0..MaxRows
      /\ failures' \in 0..MaxFailures /\ failures' = failures
  BY <1>1 DEF PTypeOK
<1>4. InForce' = InForce /\ Stored' = Stored  BY <1>3, TableStays
<1>5. RequestOK(r)'  BY <1>2 DEF RequestOK, Asking
<1>6. \A q \in Requests : RequestOK(q)'  BY <1>3, <1>4, <1>5, OthersOK
<1>7. GInv'  BY <1>2, <1>3, <1>6, InvStays
<1>8. V' = [V EXCEPT ![r] = V'[r]] /\ K' = [K EXCEPT ![r] = K'[r]]
  BY <1>1, OneMoves
<1>9. V'[r] = Verdict(r)'  BY DEF V, Verdict, At, Kind
<1>10. K'[r] = [update |-> x.update, role |-> x.role, act |-> x.act, mayPass |-> x.mayPass]
  BY <1>2 DEF K, Kind
<1>11. Verdict(r)' = IF x.pc = "direct" THEN "direct" ELSE "waiting"
  BY <1>2 DEF Verdict, At, Kind
<1>12. K'[r] \in Kinds  BY <1>10 DEF Kinds, Frames
<1>13. IsExempt(K'[r]) <=> x.pc = "direct"  BY <1>10 DEF IsExempt
<1>14. V'[r] = IF IsExempt(K'[r]) THEN "direct" ELSE "waiting"
  BY <1>9, <1>11, <1>13
<1>15. Policy!PolicyNext  BY <1>1, <1>3, <1>4, <1>8, <1>12, <1>14, Arrives
<1> QED  BY <1>7, <1>15 DEF PolicyStep

(* A mutation arrives.                                                      *)
LEMMA MutateStep ==
    ASSUME GInv, NEW r \in Requests, NEW role \in Roles, NEW route \in Routes,
           NEW body \in Bodies, Mutate(r, role, route, body)
    PROVE  GInv' /\ PolicyStep
<1> DEFINE act == getActionType(route, body)
           means == Documented(route, body)
           mayPass == hasRequiredRole(role, requiredRole(route))
           x == [Unborn EXCEPT !.role = role, !.act = act, !.means = means,
                               !.mayPass = mayPass,
                               !.pc = IF role = "root" THEN "direct" ELSE "enabled"]
<1>1. /\ At(r, "unborn") /\ act \in ActionTypes /\ means \in ActionTypes
      /\ m' = [m EXCEPT ![r] = x]
      /\ UNCHANGED <<rows, first, drawn, failures, fresh>>
  BY DEF Mutate
<1>2. always' \subseteq Requests  BY DEF Mutate, GInv, PTypeOK
<1>3. mayPass \in BOOLEAN
  <2>1. (role = "root") \in BOOLEAN /\ (role \in {"root", "admin"}) \in BOOLEAN
    OBVIOUS
  <2> QED  BY <2>1, Zenon DEF hasRequiredRole
<1> HIDE DEF act, means, mayPass
<1>4. Unborn \in Frames  BY UnbornTyped DEF GInv
<1>5. x \in Frames  BY <1>1, <1>3, <1>4 DEF Frames
<1>6. /\ x.pc = (IF role = "root" THEN "direct" ELSE "enabled") /\ x.role = role
      /\ x.update = FALSE /\ x.seeding = FALSE
  BY DEF Unborn
<1> HIDE DEF x
<1>7. \/ x.pc = "direct" /\ x.role = "root" /\ ~x.update
      \/ x.pc = "enabled" /\ x.role # "root" /\ ~x.update
  BY <1>6
<1> QED  BY <1>1, <1>2, <1>5, <1>6, <1>7, ArriveStep

(* Root's update of the settings arrives.                                   *)
LEMMA UpdateStep ==
    ASSUME GInv, NEW r \in Requests, NEW patch \in Patches, UpdateApprovalSettings(r, patch)
    PROVE  GInv' /\ PolicyStep
<1> DEFINE x == [Unborn EXCEPT !.update = TRUE, !.role = "root", !.patch = patch,
                               !.pc = "settings"]
<1>1. /\ At(r, "unborn") /\ m' = [m EXCEPT ![r] = x]
      /\ UNCHANGED <<rows, first, drawn, failures, fresh>>
  BY DEF UpdateApprovalSettings
<1>2. always' \subseteq Requests  BY DEF UpdateApprovalSettings, GInv, PTypeOK
<1>3. Unborn \in Frames  BY UnbornTyped DEF GInv
<1>4. x \in Frames  BY <1>3 DEF Frames, Roles
<1>5. x.pc = "settings" /\ x.update = TRUE /\ x.seeding = FALSE  BY DEF Unborn
<1> HIDE DEF x
<1> QED  BY <1>1, <1>2, <1>4, <1>5, ArriveStep

-----------------------------------------------------------------------------
(* The theorems.                                                            *)

(* The invariant holds at the start.                                        *)
LEMMA GateInit == GInit => GInv
<1> SUFFICES ASSUME GInit PROVE GInv  OBVIOUS
<1>1. m \in [Requests -> Frames]
  <2>1. 0 \in 0..MaxRows /\ NoPatch \in Patches  BY GateAssumption DEF NoPatch, Patches
  <2>2. Unborn \in Frames  BY <2>1, DefaultTyped DEF Unborn, Frames, Roles
  <2> QED  BY <2>2 DEF GInit
<1>2. failures \in 0..MaxFailures /\ always \in SUBSET Requests
  BY GateAssumption DEF GInit
<1>3. /\ rows \in [1..MaxRows -> Settings \cup {None}]
      /\ first \in 0..MaxRows /\ drawn \in 0..MaxRows /\ fresh \in BOOLEAN
      /\ first = 0 <=> Stored = {}
      /\ first # 0 => first \in Stored /\ \A i \in Stored : first <= i
      /\ first = 0 => fresh
  <2>1. CASE /\ fresh = TRUE /\ first = 0 /\ drawn = 0
             /\ rows = [i \in 1..MaxRows |-> None]
    BY <2>1, GateAssumption DEF Stored
  <2>2. ASSUME NEW s \in Settings,
               fresh = FALSE, first = 1, drawn = 1, MaxRows > 0,
               rows = [i \in 1..MaxRows |-> IF i = 1 THEN s ELSE None]
        PROVE  /\ rows \in [1..MaxRows -> Settings \cup {None}]
               /\ first \in 0..MaxRows /\ drawn \in 0..MaxRows /\ fresh \in BOOLEAN
               /\ first = 0 <=> Stored = {}
               /\ first # 0 => first \in Stored /\ \A i \in Stored : first <= i
               /\ first = 0 => fresh
    <3>1. 1 \in 1..MaxRows /\ 1 \in 0..MaxRows  BY <2>2, GateAssumption
    <3>2. rows[1] = s /\ \A i \in 1..MaxRows : i # 1 => rows[i] = None  BY <2>2, <3>1
    <3>3. Stored = {1}  BY <3>1, <3>2, NoneAssumption DEF Stored
    <3>4. rows \in [1..MaxRows -> Settings \cup {None}]  BY <2>2
    <3>5. fresh \in BOOLEAN  BY <2>2, Zenon
    <3>6. first \in 0..MaxRows /\ drawn \in 0..MaxRows  BY <2>2, <3>1
    <3>7. first # 0 /\ Stored # {}  BY <2>2, <3>3
    <3>8. first \in Stored /\ \A i \in Stored : first <= i  BY <2>2, <3>3
    <3> QED  BY <3>4, <3>5, <3>6, <3>7, <3>8
  <2> QED  BY <2>1, <2>2 DEF GInit
<1>4. \A r \in Requests : RequestOK(r)  BY DEF GInit, Unborn, RequestOK, Asking
<1> QED  BY <1>1, <1>2, <1>3, <1>4 DEF GInv, PTypeOK

(* Every step preserves the invariant and is a step of the policy.          *)
LEMMA GateNext == GInv /\ [GNext]_gvars => GInv' /\ PolicyStep
<1> SUFFICES ASSUME GInv, [GNext]_gvars PROVE GInv' /\ PolicyStep  OBVIOUS
<1>1. CASE UNCHANGED gvars
  <2>1. UNCHANGED <<rows, first, drawn, m, failures, fresh, always>>  BY <1>1 DEF gvars
  <2>2. InForce' = InForce /\ Stored' = Stored  BY <2>1, TableStays
  <2>3. K' = K /\ V' = V  BY <2>1 DEF K, V, Kind, Verdict, At
  <2>4. \A q \in Requests : RequestOK(q)'  BY <2>1, <2>2 DEF GInv, RequestOK
  <2>5. GInv'  BY <2>1, <2>4, InvStays DEF GInv, PTypeOK
  <2> QED  BY <2>1, <2>2, <2>3, <2>5, Stutters DEF PolicyStep, Rest
<1>2. CASE GNext
  <2>1. PICK r \in Requests :
           \/ \E role \in Roles, route \in Routes, body \in Bodies :
                 Mutate(r, role, route, body)
           \/ \E patch \in Patches : UpdateApprovalSettings(r, patch)
           \/ Get(r) \/ Create(r) \/ determineTeamID(r) \/ CreateApprovalRequest(r)
           \/ SaveSettings(r) \/ Fail(r)
    BY <1>2 DEF GNext
  <2> QED
    BY <2>1, MutateStep, UpdateStep, GetStep, CreateStep, DetermineTeamStep,
       CreateApprovalRequestStep, SaveSettingsStep, FailStep
<1> QED  BY <1>1, <1>2

(* The table of settings and every request stay well-formed: the row First  *)
(* finds is the stored row with the smallest identifier, whatever order     *)
(* concurrent first readers draw and store theirs in.                       *)
THEOREM GateTypeCorrect == GSpec => []PTypeOK
<1>1. GInv => PTypeOK  BY DEF GInv
<1>2. GInv /\ [GNext]_gvars => GInv'  BY GateNext
<1> QED  BY <1>1, <1>2, GateInit, PTL DEF GSpec

(* The initial states of the middleware are states the policy may start in. *)
LEMMA PolicyStarts == GInit => Policy!PolicyInit
<1> SUFFICES ASSUME GInit PROVE Policy!PolicyInit  OBVIOUS
<1>1. GInv  BY GateInit
<1>2. InForce \in Settings /\ fresh \in BOOLEAN /\ (fresh => InForce = Default)
  BY <1>1, InForceTyped DEF GInv, PTypeOK, GInit, InForce
<1>3. \A r \in Requests : Kind(r) \in Kinds
  BY <1>1 DEF GInv, PTypeOK, Frames, Kind, Kinds
<1>4. \A r \in Requests : Verdict(r) = "unborn"
  BY DEF GInit, Unborn, Verdict, At, Kind
<1> QED  BY <1>2, <1>3, <1>4 DEF GInit, Policy!PolicyInit

(* The middleware implements the policy: whatever its three queries, the    *)
(* updates of root, the concurrent first readers and the failing queries    *)
(* interleave to, every request is judged by settings that were in force at *)
(* one moment of its stay, but for the two exceptions the policy names.     *)
THEOREM GateImplementsPolicy == GSpec => ImplementsPolicy
<1>1. GInv /\ [GNext]_gvars => GInv' /\ [Policy!PolicyNext]_(Policy!pvars)
  BY GateNext DEF PolicyStep
<1> QED  BY <1>1, GateInit, PolicyStarts, PTL DEF GSpec, ImplementsPolicy, Policy!PolicySpec

-----------------------------------------------------------------------------
(* The gate holds as long as no query fails.                                *)

(* getActionType takes every route of the API for what it is documented to  *)
(* be, although its cases overlap and "/toggle" is also found in "/toggles".*)
LEMMA RouteDocumented ==
    ASSUME NEW route \in Routes, NEW body \in Bodies
    PROVE  getActionType(route, body) = Documented(route, body)
<1> USE DEF getActionType, OtherActionType, Documented, Route
<1>1. CASE route = Route("POST", {"applications"})  BY <1>1
<1>2. CASE route = Route("PUT", {"applications"})  BY <1>2
<1>3. CASE route = Route("DELETE", {"applications"})  BY <1>3
<1>4. CASE route = Route("POST", {"applications", "generate-secret"})  BY <1>4
<1>5. CASE route = Route("POST", {"applications", "toggles"})  BY <1>5
<1>6. CASE route = Route("PUT", {"applications", "toggles", "bulk"})  BY <1>6
<1>7. CASE route = Route("PUT", {"applications", "toggles"})  BY <1>7
<1>8. CASE route = Route("DELETE", {"applications", "toggles"})  BY <1>8
<1>9. CASE route = Route("PUT", {"applications", "toggle"})  BY <1>9
<1>10. CASE route = Route("DELETE", {"secret-keys"})  BY <1>10
<1> QED
  BY <1>1, <1>2, <1>3, <1>4, <1>5, <1>6, <1>7, <1>8, <1>9, <1>10 DEF Routes

(* A request that has needed approval all along was never let through, has  *)
(* found a row, and its first query, its second and its third are told the  *)
(* same.                                                                    *)
AlwaysOK(r) ==
    /\ RequiresApproval(InForce, m[r].means) /\ m[r].act = m[r].means
    /\ ~m[r].seeding /\ first # 0
    /\ m[r].pc \in {"enabled", "required", "team", "create", "persist", "requested",
                    "refused"}

CInv == failures = 0 => \A r \in always : AlwaysOK(r)

(* Nothing changes for a request another one steps beside.                  *)
LEMMA BesideStays ==
    ASSUME GInv, NEW r \in Requests, NEW x, m' = [m EXCEPT ![r] = x],
           NEW q \in Requests, q # r, AlwaysOK(q),
           RequiresApproval(InForce', m[q].means), first' # 0
    PROVE  AlwaysOK(q)'
<1>1. m'[q] = m[q]  BY DEF GInv, PTypeOK
<1> QED  BY <1>1 DEF AlwaysOK, RequiresApproval

(* A watched request moves on.                                              *)
LEMMA MovedStays ==
    ASSUME GInv, NEW r \in Requests, AlwaysOK(r), NEW pc \in PCs, Goto(r, pc),
           pc \in {"required", "team", "create", "persist", "requested", "refused"},
           InForce' = InForce, first' = first
    PROVE  AlwaysOK(r)'
<1>1. m' = [m EXCEPT ![r] = Moved(r, pc)]  BY GotoMoves DEF GInv
<1>2. /\ m'[r].pc = pc /\ m'[r].seeding = FALSE /\ m'[r].act = m[r].act
      /\ m'[r].means = m[r].means
  BY <1>1 DEF Moved, GInv, PTypeOK, Frames
<1> QED  BY <1>2 DEF AlwaysOK, RequiresApproval

(* A step of one request that leaves the settings alone.                    *)
LEMMA GateStays ==
    ASSUME GInv, CInv, NEW r \in Requests, NEW x, m' = [m EXCEPT ![r] = x],
           UNCHANGED <<rows, first, fresh>>, failures' = failures,
           \A q \in always' : q # r => q \in always,
           failures = 0 /\ r \in always' => AlwaysOK(r)'
    PROVE  CInv'
<1>1. SUFFICES ASSUME failures = 0, NEW q \in always' PROVE AlwaysOK(q)'
  BY DEF CInv
<1>2. CASE q = r  BY <1>1, <1>2
<1>3. CASE q # r
  <2>1. q \in always /\ AlwaysOK(q)  BY <1>1, <1>3 DEF CInv
  <2>2. q \in Requests  BY <2>1 DEF GInv, PTypeOK
  <2>3. InForce' = InForce  BY TableStays
  <2> QED  BY <1>3, <2>1, <2>2, <2>3, BesideStays DEF AlwaysOK
<1> QED  BY <1>2, <1>3

(* A step that stores a row, of a request that is not watched: always keeps *)
(* the requests that need approval still.                                   *)
LEMMA WatchStays ==
    ASSUME GInv, CInv, NEW r \in Requests, NEW x, m' = [m EXCEPT ![r] = x], Watch,
           failures' = failures, first' # 0, r \in always => ~AlwaysOK(r)
    PROVE  CInv'
<1>1. SUFFICES ASSUME failures = 0, NEW q \in always' PROVE AlwaysOK(q)'
  BY DEF CInv
<1>2. q \in always /\ RequiresApproval(InForce', m[q].means)  BY <1>1 DEF Watch
<1>3. AlwaysOK(q) /\ q # r /\ q \in Requests  BY <1>1, <1>2 DEF CInv, GInv, PTypeOK
<1> QED  BY <1>2, <1>3, BesideStays

(* Every action keeps it so.                                                *)
LEMMA CleanNext ==
    ASSUME GInv, CInv, NEW r \in Requests,
           \/ \E role \in Roles, route \in Routes, body \in Bodies :
                 Mutate(r, role, route, body)
           \/ \E patch \in Patches : UpdateApprovalSettings(r, patch)
           \/ Get(r) \/ Create(r) \/ determineTeamID(r) \/ CreateApprovalRequest(r)
           \/ SaveSettings(r) \/ Fail(r)
    PROVE  CInv'
<1> USE DEF At
<1>0. PTypeOK /\ m \in [Requests -> Frames] /\ RequestOK(r) /\ m[r] \in Frames
  BY DEF GInv, PTypeOK
<1>1. ASSUME NEW role \in Roles, NEW route \in Routes, NEW body \in Bodies,
             Mutate(r, role, route, body)
      PROVE  CInv'
  <2> DEFINE act == getActionType(route, body)
             means == Documented(route, body)
             mayPass == hasRequiredRole(role, requiredRole(route))
             x == [Unborn EXCEPT !.role = role, !.act = act, !.means = means,
                                 !.mayPass = mayPass,
                                 !.pc = IF role = "root" THEN "direct" ELSE "enabled"]
  <2>1. /\ m[r].pc = "unborn" /\ m' = [m EXCEPT ![r] = x]
        /\ UNCHANGED <<rows, first, fresh>> /\ failures' = failures
        /\ always' = IF role # "root" /\ RequiresApproval(InForce, means)
                     THEN always \cup {r} ELSE always
    BY <1>1 DEF Mutate
  <2>2. act = means  BY RouteDocumented
  <2> HIDE DEF act, means, mayPass
  <2>3. /\ x.act = act /\ x.means = means /\ x.seeding = FALSE
        /\ x.pc = (IF role = "root" THEN "direct" ELSE "enabled")
    BY DEF Unborn
  <2>4. m'[r] = x  BY <1>0, <2>1
  <2> HIDE DEF x
  <2>5. failures = 0 => ~(r \in always)  BY <2>1 DEF CInv, AlwaysOK
  <2>6. InForce' = InForce  BY <2>1, TableStays
  <2>7. failures = 0 /\ r \in always' => AlwaysOK(r)'
    <3> SUFFICES ASSUME failures = 0, r \in always' PROVE AlwaysOK(r)'  OBVIOUS
    <3>1. role # "root" /\ RequiresApproval(InForce, means)  BY <2>1, <2>5
    <3>2. first # 0  BY <3>1 DEF InForce, Default, RequiresApproval
    <3>3. RequiresApproval(InForce, means)'  BY <2>6, <3>1 DEF RequiresApproval
    <3>4. /\ m'[r].act = means /\ m'[r].means = means /\ m'[r].seeding = FALSE
          /\ m'[r].pc = "enabled"
      BY <2>2, <2>3, <2>4, <3>1
    <3>5. RequiresApproval(InForce', m'[r].means)
      BY <2>6, <3>1, <3>4 DEF RequiresApproval
    <3> QED  BY <2>1, <3>2, <3>4, <3>5 DEF AlwaysOK
  <2>8. \A q \in always' : q # r => q \in always  BY <2>1
  <2> QED  BY <2>1, <2>7, <2>8, GateStays
<1>2. ASSUME NEW patch \in Patches, UpdateApprovalSettings(r, patch) PROVE CInv'
  <2>1. failures = 0 => ~(r \in always)
    BY <1>2 DEF UpdateApprovalSettings, CInv, AlwaysOK
  <2>2. /\ m' = [m EXCEPT ![r] = [Unborn EXCEPT !.update = TRUE, !.role = "root",
                                    !.patch = patch, !.pc = "settings"]]
        /\ UNCHANGED <<rows, first, fresh>> /\ failures' = failures /\ always' = always
    BY <1>2 DEF UpdateApprovalSettings
  <2> QED  BY <2>1, <2>2, GateStays
<1>3. CASE Get(r)
  <2>1. /\ UNCHANGED <<rows, first, fresh>> /\ failures' = failures /\ always' = always
        /\ ~m[r].seeding
    BY <1>3 DEF Get
  <2>2. InForce' = InForce  BY <2>1, TableStays
  <2>3. \E x : m' = [m EXCEPT ![r] = x]
    BY <1>3 DEF Get, Consult, Goto, CheckRole, createApprovalRequest
  <2>4. ASSUME r \in always, failures = 0 PROVE AlwaysOK(r)'
    <3>1. AlwaysOK(r)  BY <2>4 DEF CInv
    <3>2. /\ first # 0 /\ InForce = rows[first] /\ InForce.enabled
          /\ RequiresApproval(InForce, m[r].act) /\ m[r].pc # "settings"
      BY <3>1 DEF AlwaysOK, InForce, RequiresApproval
    <3>3. PICK pc \in {"required", "team", "persist"} : Goto(r, pc)
      BY <1>3, <3>2 DEF Get, Consult, createApprovalRequest
    <3>4. pc \in PCs  BY <3>3 DEF PCs
    <3> QED  BY <2>1, <2>2, <3>1, <3>3, <3>4, MovedStays
  <2> QED  BY <2>1, <2>3, <2>4, GateStays
<1>4. CASE Create(r)
  <2>1. Watch /\ failures' = failures /\ m[r].seeding  BY <1>4 DEF Create
  <2>2. \E x : m' = [m EXCEPT ![r] = x]
    BY <1>4 DEF Create, Consult, Goto, CheckRole, createApprovalRequest
  <2>3. m[r].id \in 1..MaxRows
    BY <1>0, <2>1, GateAssumption DEF RequestOK, Frames
  <2>4. first' # 0  BY <1>0, <1>4, <2>3, GateAssumption DEF Create, PTypeOK
  <2>5. ~AlwaysOK(r)  BY <2>1 DEF AlwaysOK
  <2> QED  BY <2>1, <2>2, <2>4, <2>5, WatchStays
<1>5. CASE determineTeamID(r)
  <2>1. /\ UNCHANGED <<rows, first, fresh>> /\ failures' = failures /\ always' = always
        /\ Goto(r, "create") \/ Goto(r, "refused")
    BY <1>5 DEF determineTeamID
  <2>2. InForce' = InForce  BY <2>1, TableStays
  <2>3. "create" \in PCs /\ "refused" \in PCs  BY DEF PCs
  <2>4. r \in always /\ failures = 0 => AlwaysOK(r)'
    BY <2>1, <2>2, <2>3, MovedStays DEF CInv
  <2>5. \E x : m' = [m EXCEPT ![r] = x]  BY <2>1 DEF Goto
  <2> QED  BY <2>1, <2>4, <2>5, GateStays
<1>6. CASE CreateApprovalRequest(r)
  <2>1. /\ UNCHANGED <<rows, first, fresh>> /\ failures' = failures /\ always' = always
        /\ Goto(r, "requested") \/ Goto(r, "refused")
    BY <1>6 DEF CreateApprovalRequest
  <2>2. InForce' = InForce  BY <2>1, TableStays
  <2>3. "requested" \in PCs /\ "refused" \in PCs  BY DEF PCs
  <2>4. r \in always /\ failures = 0 => AlwaysOK(r)'
    BY <2>1, <2>2, <2>3, MovedStays DEF CInv
  <2>5. \E x : m' = [m EXCEPT ![r] = x]  BY <2>1 DEF Goto
  <2> QED  BY <2>1, <2>4, <2>5, GateStays
<1>7. CASE SaveSettings(r)
  <2>1. Watch /\ failures' = failures /\ m[r].pc = "save" /\ first' = first
    BY <1>7 DEF SaveSettings
  <2>2. \E x : m' = [m EXCEPT ![r] = x]  BY <1>7 DEF SaveSettings, Goto
  <2>3. first' # 0  BY <1>0, <2>1 DEF RequestOK, PTypeOK
  <2>4. ~AlwaysOK(r)  BY <2>1 DEF AlwaysOK
  <2> QED  BY <2>1, <2>2, <2>3, <2>4, WatchStays
<1>8. CASE Fail(r)
  <2>1. failures' # 0  BY <1>0, <1>8, GateAssumption DEF Fail, PTypeOK
  <2> QED  BY <2>1 DEF CInv
<1> QED  BY <1>1, <1>2, <1>3, <1>4, <1>5, <1>6, <1>7, <1>8

(* "If the workflow is enabled and required for that action type, the       *)
(* handler is not invoked": as long as no query has failed, no request of   *)
(* anybody but root that needed approval from its arrival on is let         *)
(* through, however the settings change around it and whoever stores a      *)
(* first row of settings meanwhile.                                         *)
THEOREM CleanGate == GSpec => []CleanGateHolds
<1>1. GInit => GInv /\ CInv
  <2>1. GInit => CInv  BY DEF GInit, CInv
  <2> QED  BY <2>1, GateInit
<1>2. GInv /\ CInv /\ [GNext]_gvars => GInv' /\ CInv'
  <2> SUFFICES ASSUME GInv, CInv, [GNext]_gvars PROVE GInv' /\ CInv'  OBVIOUS
  <2>1. GInv'  BY GateNext
  <2>2. CASE UNCHANGED gvars
    <3>1. CInv'
      BY <2>2 DEF gvars, CInv, AlwaysOK, InForce, RequiresApproval
    <3> QED  BY <2>1, <3>1
  <2>3. CASE GNext
    <3>1. CInv'  BY <2>3, CleanNext DEF GNext
    <3> QED  BY <2>1, <3>1
  <2> QED  BY <2>2, <2>3
<1>3. GInv /\ CInv => CleanGateHolds
  BY DEF GInv, PTypeOK, CInv, AlwaysOK, CleanGateHolds, GateHolds, At
<1> QED  BY <1>1, <1>2, <1>3, PTL DEF GSpec
=============================================================================
