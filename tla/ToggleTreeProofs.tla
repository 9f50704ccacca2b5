--------------------------- MODULE ToggleTreeProofs ---------------------------
(***************************************************************************)
(* The forest of toggles stays well formed for any number of concurrent    *)
(* handlers, toggles and levels: no operation ever changes the path or the *)
(* parent of a toggle that is stored, and what a handler remembers of a    *)
(* toggle it looked up earlier stays true of it.  In a well-formed forest  *)
(* the three readers of the table agree.  For one handler at a time:       *)
(* nothing deleted is lost.                                                *)
(***************************************************************************)
EXTENDS ToggleTree, TLAPS, WellFoundedInduction

(* What each handler remembers is still so.                                 *)
FrameOK(h) ==
    LET f == tf[h]
    IN  /\ f.pc \in {"lookup", "insert"} =>
              /\ f.path \in Paths /\ f.level \in 1..Len(f.path)
              /\ IF f.level = 1 THEN f.node = NoNode
                 ELSE /\ f.node \in Nodes
                      /\ toggles[f.node].path = SubSeq(f.path, 1, f.level - 1)
        /\ f.pc = "save" => /\ f.node \in Nodes /\ Stored(f.node)
                            /\ f.row.path = toggles[f.node].path
                            /\ f.row.parent = toggles[f.node].parent
        /\ f.pc \in {"mark", "check"} => f.node \in Nodes
        /\ f.pc = "walk" => f.stack # << >>

FramesOK == \A h \in Handlers : FrameOK(h)

TInv == TTypeOK /\ PathExtendsParent /\ FramesOK

(* No step moves a stored toggle.                                           *)
Unmoved == \A n \in Nodes : Stored(n) => /\ toggles'[n].path = toggles[n].path
                                         /\ toggles'[n].parent = toggles[n].parent

-----------------------------------------------------------------------------
(* Prefixes of a path (ParseTogglePath, BuildTogglePath).                   *)
LEMMA PrefixFacts ==
    ASSUME NEW p \in Paths, NEW l \in 1..Len(p)
    PROVE  /\ Len(p) \in Nat \ {0}
           /\ SubSeq(p, 1, l) \in Paths
           /\ Len(SubSeq(p, 1, l)) = l
           /\ SubSeq(p, 1, l) # << >>
           /\ l > 1 => SubSeq(SubSeq(p, 1, l), 1, l - 1) = SubSeq(p, 1, l - 1)
<1>1. p \in Seq(Names) /\ p # << >>
  BY ToggleTreeAssumption
<1>2. Len(p) \in Nat \ {0}
  BY <1>1
<1>3. SubSeq(p, 1, l) \in Paths
  BY ToggleTreeAssumption
<1>4. Len(SubSeq(p, 1, l)) = l
  BY <1>1, <1>2
<1>5. SubSeq(p, 1, l) # << >>
  BY <1>3, ToggleTreeAssumption
<1>6. ASSUME l > 1 PROVE SubSeq(SubSeq(p, 1, l), 1, l - 1) = SubSeq(p, 1, l - 1)
  BY <1>1, <1>2, <1>4, <1>6
<1> QED  BY <1>2, <1>3, <1>4, <1>5, <1>6

(* NoPath is no path, so a toggle with a path is stored.                    *)
LEMMA PathsNonEmpty ==
    \A p \in Paths : p # NoPath /\ p \in Seq(Names) /\ Len(p) \in Nat \ {0}
  BY ToggleTreeAssumption DEF NoPath

(* An idle handler has a frame of the type.                                 *)
LEMMA NoCallTyped == NoCall \in Calls /\ NoToggle \in Toggles
<1>1. NoToggle \in Toggles  BY DEF NoToggle, Toggles
<1>2. << >> \in Seq([node : Nodes, kids : SUBSET Nodes])  OBVIOUS
<1> QED  BY <1>1, <1>2 DEF NoCall, Calls

(* The initial state: an empty table.                                       *)
LEMMA TInitInv == ASSUME TInit PROVE TInv
<1> USE DEF TInit
<1>1. TTypeOK  BY NoCallTyped DEF TTypeOK
<1>2. PathExtendsParent  BY DEF PathExtendsParent, Stored, NoToggle
<1>3. FramesOK  BY DEF FramesOK, FrameOK, NoCall
<1> QED  BY <1>1, <1>2, <1>3 DEF TInv

-----------------------------------------------------------------------------
(* PathExtendsParent for one toggle.                                        *)
WellPlaced(n) ==
    IF Len(toggles[n].path) = 1 THEN toggles[n].parent = NoNode
    ELSE /\ toggles[n].parent \in Nodes
         /\ toggles[toggles[n].parent].path =
               SubSeq(toggles[n].path, 1, Len(toggles[n].path) - 1)

(* PathExtendsParent, toggle by toggle.                                     *)
LEMMA PlacedMeans == PathExtendsParent <=> \A n \in Nodes : Stored(n) => WellPlaced(n)
  BY DEF PathExtendsParent, WellPlaced

(* A toggle that was stored stays well placed when no stored toggle moves:  *)
(* its parent was stored too.                                               *)
LEMMA StaysPlaced ==
    ASSUME TInv, Unmoved, NEW n \in Nodes, Stored(n) PROVE WellPlaced(n)'
<1> DEFINE p == toggles[n].path
           m == toggles[n].parent
<1>1. toggles'[n].path = p /\ toggles'[n].parent = m /\ p \in Paths /\ WellPlaced(n)
  BY PlacedMeans DEF Unmoved, TInv, TTypeOK, Toggles, Stored, NoPath
<1>2. CASE Len(p) = 1
  BY <1>1, <1>2 DEF WellPlaced
<1>3. CASE Len(p) # 1
  <2>1. m \in Nodes /\ toggles[m].path = SubSeq(p, 1, Len(p) - 1)
    BY <1>1, <1>3 DEF WellPlaced
  <2>2. Len(p) - 1 \in 1..Len(p)
    <3>1. Len(p) \in Nat \ {0}  BY <1>1, PathsNonEmpty
    <3> HIDE DEF p
    <3> QED  BY <1>3, <3>1
  <2>3. Stored(m)
    BY <1>1, <2>1, <2>2, PrefixFacts DEF Stored, NoPath
  <2> QED  BY <1>1, <1>3, <2>1, <2>3 DEF Unmoved, WellPlaced
<1> QED  BY <1>2, <1>3

(* The next state is well formed when no stored toggle moves and the newly   *)
(* stored ones are well placed.                                              *)
LEMMA ForestKept ==
    ASSUME TInv, Unmoved, \A n \in Nodes : Stored(n)' /\ ~Stored(n) => WellPlaced(n)'
    PROVE  PathExtendsParent'
<1>1. \A n \in Nodes : Stored(n)' => WellPlaced(n)'
  BY StaysPlaced
<1> QED  BY <1>1 DEF PathExtendsParent, WellPlaced

(* The frame of a handler that does not step stays true.                    *)
LEMMA OtherFrames ==
    ASSUME TInv, Unmoved, NEW g \in Handlers, tf'[g] = tf[g]
    PROVE  FrameOK(g)'
<1> DEFINE f == tf[g]
<1>0. FrameOK(g)  BY DEF TInv, FramesOK
<1>1. ASSUME f.pc \in {"lookup", "insert"}, f.level # 1
      PROVE  Stored(f.node) /\ f.node \in Nodes
  <2>1. f.path \in Paths /\ f.level - 1 \in 1..Len(f.path)
    BY <1>0, <1>1, PathsNonEmpty DEF FrameOK
  <2> QED  BY <1>0, <1>1, <2>1, PrefixFacts DEF FrameOK, Stored, NoPath
<1>2. ASSUME f.pc = "save" PROVE Stored(f.node) /\ f.node \in Nodes
  BY <1>0, <1>2 DEF FrameOK
<1>3. f.pc \in {"lookup", "insert"} /\ f.level # 1 => toggles'[f.node].path = toggles[f.node].path
  BY <1>1 DEF Unmoved
<1>4. f.pc = "save" => /\ toggles'[f.node].path = toggles[f.node].path
                       /\ toggles'[f.node].parent = toggles[f.node].parent
  BY <1>2 DEF Unmoved
<1> QED  BY <1>0, <1>3, <1>4 DEF FrameOK, Stored

(* What is left to show for a step of handler h that stores nothing new.    *)
LEMMA StepKeeps ==
    ASSUME TInv, NEW h \in Handlers,
           TTypeOK', Unmoved, FrameOK(h)',
           \A n \in Nodes : Stored(n)' => Stored(n),
           \A g \in Handlers \ {h} : tf'[g] = tf[g]
    PROVE  TInv'
<1>1. PathExtendsParent'  BY ForestKept
<1>2. FramesOK'  BY OtherFrames DEF FramesOK
<1> QED  BY <1>1, <1>2 DEF TInv

(* The table is not touched.                                                *)
LEMMA ReadKeeps ==
    ASSUME TInv, NEW h \in Handlers, toggles' = toggles, TTypeOK', FrameOK(h)',
           \A g \in Handlers \ {h} : tf'[g] = tf[g]
    PROVE  TInv'
<1>1. Unmoved /\ \A n \in Nodes : Stored(n)' => Stored(n)
  BY DEF Unmoved, Stored
<1> QED  BY <1>1, StepKeeps

-----------------------------------------------------------------------------
(* Every action keeps the invariant; a lemma for each.                      *)

(* The invariant over BeginCreate.                                          *)
LEMMA BeginCreateInv ==
    ASSUME TInv, NEW h \in Handlers, NEW p \in Paths, BeginCreate(h, p)
    PROVE  TInv'
<1> USE DEF TInv, BeginCreate
<1>0. [NoCall EXCEPT !.pc = "lookup", !.op = "create", !.path = p] \in Calls
  BY NoCallTyped DEF Calls, TTypeOK, Toggles
<1>1. TTypeOK'  BY <1>0 DEF TTypeOK
<1>2. FrameOK(h)'  BY PathsNonEmpty DEF NoCall, TTypeOK, Calls, Toggles, FramesOK, FrameOK, Stored
<1>3. \A g \in Handlers \ {h} : tf'[g] = tf[g]  BY DEF TTypeOK
<1> QED  BY <1>1, <1>2, <1>3, ReadKeeps

(* The invariant over BeginUpdate.                                          *)
LEMMA BeginUpdateInv ==
    ASSUME TInv, NEW h \in Handlers, NEW op \in {"update", "bulk", "cascade"}, NEW S \in SUBSET Nodes,
           NEW value \in BOOLEAN,
           BeginUpdate(h, op, S, value)
    PROVE  TInv'
<1> USE DEF TInv, BeginUpdate
<1>0. [NoCall EXCEPT !.pc = "read", !.op = op, !.todo = S, !.value = value] \in Calls
  BY NoCallTyped DEF Calls, TTypeOK, Toggles
<1>1. TTypeOK'  BY <1>0 DEF TTypeOK
<1>2. FrameOK(h)'  BY DEF NoCall, TTypeOK, Calls, Toggles, FramesOK, FrameOK, Stored
<1>3. \A g \in Handlers \ {h} : tf'[g] = tf[g]  BY DEF TTypeOK
<1> QED  BY <1>1, <1>2, <1>3, ReadKeeps

(* The invariant over ReadToggle.                                           *)
LEMMA ReadToggleInv ==
    ASSUME TInv, NEW h \in Handlers, NEW n \in Nodes,
           ReadToggle(h, n)
    PROVE  TInv'
<1> USE DEF TInv, ReadToggle, Live
<1> DEFINE row == [toggles[n] EXCEPT !.enabled = tf[h].value]
<1>0. [tf[h] EXCEPT !.pc = "save", !.node = n, !.row = row] \in Calls
  <2>1. tf[h] \in Calls /\ toggles[n] \in Toggles  BY DEF TTypeOK
  <2>2. tf[h].value \in BOOLEAN  BY <2>1 DEF Calls
  <2>3. row \in Toggles  BY <2>1, <2>2 DEF Toggles
  <2> HIDE DEF row
  <2> QED  BY <2>1, <2>3 DEF Calls
<1>1. TTypeOK'  BY <1>0 DEF TTypeOK
<1>2. FrameOK(h)'  BY DEF TTypeOK, Calls, Toggles, FramesOK, FrameOK, Stored
<1>3. \A g \in Handlers \ {h} : tf'[g] = tf[g]  BY DEF TTypeOK
<1> QED  BY <1>1, <1>2, <1>3, ReadKeeps

(* The invariant over BeginDelete.                                          *)
LEMMA BeginDeleteInv ==
    ASSUME TInv, NEW h \in Handlers, NEW n \in Nodes,
           BeginDelete(h, n)
    PROVE  TInv'
<1> USE DEF TInv, BeginDelete
<1>0. [NoCall EXCEPT !.pc = "mark", !.op = "delete", !.node = n] \in Calls
  BY NoCallTyped DEF Calls, TTypeOK, Toggles
<1>1. TTypeOK'  BY <1>0 DEF TTypeOK
<1>2. FrameOK(h)'  BY DEF NoCall, TTypeOK, Calls, Toggles, FramesOK, FrameOK, Stored
<1>3. \A g \in Handlers \ {h} : tf'[g] = tf[g]  BY DEF TTypeOK
<1> QED  BY <1>1, <1>2, <1>3, ReadKeeps

(* The invariant over BeginRestore.                                         *)
LEMMA BeginRestoreInv ==
    ASSUME TInv, NEW h \in Handlers, NEW n \in Nodes,
           BeginRestore(h, n)
    PROVE  TInv'
<1> USE DEF TInv, BeginRestore
<1>0. [NoCall EXCEPT !.pc = "check", !.op = "restore",
                            !.node = n, !.todo = {n}] \in Calls
  BY NoCallTyped DEF Calls, TTypeOK, Toggles
<1>1. TTypeOK'  BY <1>0 DEF TTypeOK
<1>2. FrameOK(h)'  BY DEF NoCall, TTypeOK, Calls, Toggles, FramesOK, FrameOK, Stored
<1>3. \A g \in Handlers \ {h} : tf'[g] = tf[g]  BY DEF TTypeOK
<1> QED  BY <1>1, <1>2, <1>3, ReadKeeps

(* The invariant over TFail.                                                *)
LEMMA TFailInv ==
    ASSUME TInv, NEW h \in Handlers,
           TFail(h)
    PROVE  TInv'
<1> USE DEF TInv, TFail, Return
<1>0. NoCall \in Calls  BY NoCallTyped
<1>1. TTypeOK'  BY <1>0 DEF TTypeOK
<1>2. FrameOK(h)'  BY DEF NoCall, TTypeOK, Calls, Toggles, FramesOK, FrameOK, Stored
<1>3. \A g \in Handlers \ {h} : tf'[g] = tf[g]  BY DEF TTypeOK
<1> QED  BY <1>1, <1>2, <1>3, ReadKeeps

(* One level further down: what Descend does to the frame of h.             *)
LEMMA DescendFacts ==
    ASSUME TTypeOK, NEW h \in Handlers, NEW n \in Nodes, Descend(h, n),
           tf[h].path \in Paths, tf[h].level \in 1..Len(tf[h].path),
           toggles'[n].path = Prefix(h)
    PROVE  /\ tf' \in [Handlers -> Calls]
           /\ FrameOK(h)'
           /\ \A g \in Handlers \ {h} : tf'[g] = tf[g]
<1> USE DEF Descend
<1> DEFINE f == tf[h]
<1>1. CASE LastLevel(h)
  <2>1. tf' = [tf EXCEPT ![h] = NoCall]  BY <1>1 DEF Return
  <2>2. FrameOK(h)'  BY <2>1 DEF TTypeOK, FrameOK, NoCall
  <2> QED  BY <2>1, <2>2, NoCallTyped DEF TTypeOK
<1>2. CASE ~LastLevel(h)
  <2>1. f \in Calls /\ tf' = [tf EXCEPT ![h] = [f EXCEPT !.pc = "lookup", !.node = n, !.level = f.level + 1]]
    BY <1>2 DEF TTypeOK
  <2>2. f.level + 1 \in 2..Len(f.path)
    BY <1>2, PathsNonEmpty DEF LastLevel
  <2>3. [f EXCEPT !.pc = "lookup", !.node = n, !.level = f.level + 1] \in Calls
    <3>1. f.level + 1 \in Nat \ {0}  BY <2>1 DEF Calls
    <3> QED  BY <2>1, <3>1 DEF Calls
  <2>4. FrameOK(h)'
    BY <2>1, <2>2 DEF FrameOK, Prefix, TTypeOK, Calls
  <2> QED  BY <2>1, <2>3, <2>4 DEF TTypeOK
<1> QED  BY <1>1, <1>2

(* Creation takes the toggle it finds on a level for the parent of the next. *)
LEMMA LookupLevelInv ==
    ASSUME TInv, NEW h \in Handlers, LookupLevel(h) PROVE TInv'
<1> USE DEF TInv, LookupLevel
<1>1. tf[h].path \in Paths /\ tf[h].level \in 1..Len(tf[h].path)
  BY DEF FramesOK, FrameOK
<1>2. CASE Exists(Prefix(h))
  <2>1. PICK n \in GetByPath(Prefix(h)) : Descend(h, n)  BY <1>2
  <2>2. n \in Nodes /\ toggles'[n].path = Prefix(h)  BY <2>1 DEF GetByPath
  <2>3. /\ tf' \in [Handlers -> Calls] /\ FrameOK(h)'
        /\ \A g \in Handlers \ {h} : tf'[g] = tf[g]
    BY <1>1, <2>1, <2>2, DescendFacts
  <2>4. TTypeOK'  BY <2>3 DEF TTypeOK
  <2> QED  BY <2>3, <2>4, ReadKeeps
<1>3. CASE ~Exists(Prefix(h))
  <2>1. tf' = [tf EXCEPT ![h].pc = "insert"]  BY <1>3
  <2>2. [tf[h] EXCEPT !.pc = "insert"] \in Calls  BY DEF TTypeOK, Calls
  <2>3. TTypeOK'  BY <2>1, <2>2 DEF TTypeOK
  <2>4. FrameOK(h)'  BY <2>1 DEF FramesOK, FrameOK, TTypeOK, Calls, Stored
  <2> QED  BY <2>1, <2>3, <2>4, ReadKeeps DEF TTypeOK
<1> QED  BY <1>2, <1>3

(* The inserted toggle extends the path of the parent the frame remembers.   *)
LEMMA InsertLevelInv ==
    ASSUME TInv, NEW h \in Handlers, NEW n \in Nodes, InsertLevel(h, n) PROVE TInv'
<1> USE DEF TInv, InsertLevel
<1> DEFINE f == tf[h]
           row == [path |-> Prefix(h), parent |-> f.node, enabled |-> TRUE,
                   deleted |-> FALSE, root |-> FALSE]
<1>1. /\ f.path \in Paths /\ f.level \in 1..Len(f.path)
      /\ IF f.level = 1 THEN f.node = NoNode
         ELSE f.node \in Nodes /\ toggles[f.node].path = SubSeq(f.path, 1, f.level - 1)
  BY DEF FramesOK, FrameOK
<1>2. Prefix(h) \in Paths /\ Len(Prefix(h)) = f.level /\ f.level \in Nat \ {0}
  BY <1>1, PrefixFacts DEF Prefix, TTypeOK, Calls
<1>3. row \in Toggles
  BY <1>2 DEF TTypeOK, Calls, Toggles
<1>4. toggles' = [toggles EXCEPT ![n] = row]
  OBVIOUS
<1> HIDE DEF row
<1>5. Unmoved
  BY <1>4 DEF Unmoved, TTypeOK
<1>6. toggles'[n] = row /\ row.path = Prefix(h) /\ row.parent = f.node
  BY <1>4 DEF row, TTypeOK
<1>7. /\ tf' \in [Handlers -> Calls] /\ FrameOK(h)'
      /\ \A g \in Handlers \ {h} : tf'[g] = tf[g]
  BY <1>1, <1>6, DescendFacts
<1>8. TTypeOK'
  BY <1>3, <1>4, <1>7 DEF TTypeOK
<1>9. FramesOK'
  BY <1>5, <1>7, OtherFrames DEF FramesOK
<1>10. WellPlaced(n)'
  <2>1. CASE f.level = 1
    BY <1>1, <1>2, <1>6, <2>1 DEF WellPlaced
  <2>2. CASE f.level # 1
    <3>1. f.level - 1 \in 1..Len(f.path) /\ f.level > 1
      BY <1>1, <1>2, <2>2, PathsNonEmpty
    <3>2. Stored(f.node)
      BY <1>1, <2>2, <3>1, PrefixFacts DEF Stored, NoPath
    <3>3. toggles'[f.node].path = SubSeq(f.path, 1, f.level - 1)
      BY <1>1, <1>5, <2>2, <3>2 DEF Unmoved
    <3>4. SubSeq(Prefix(h), 1, f.level - 1) = SubSeq(f.path, 1, f.level - 1)
      BY <1>1, <3>1, PrefixFacts DEF Prefix
    <3> QED  BY <1>1, <1>2, <1>6, <2>2, <3>3, <3>4 DEF WellPlaced
  <2> QED  BY <2>1, <2>2
<1>11. \A x \in Nodes : Stored(x)' /\ ~Stored(x) => x = n
  BY <1>4 DEF Stored, TTypeOK
<1>12. PathExtendsParent'
  BY <1>5, <1>10, <1>11, ForestKept
<1> QED  BY <1>8, <1>9, <1>12

(* The saved row is the one read, with the same path and parent.             *)
LEMMA SaveToggleInv ==
    ASSUME TInv, NEW h \in Handlers, SaveToggle(h) PROVE TInv'
<1> USE DEF TInv, SaveToggle
<1> DEFINE f == tf[h]
           rest == (f.todo \ {f.node}) \cup
                   (IF f.op = "cascade" THEN GetChildren(f.node) ELSE {})
<1>1. /\ f \in Calls /\ f.row \in Toggles /\ f.node \in Nodes /\ Stored(f.node)
      /\ f.row.path = toggles[f.node].path /\ f.row.parent = toggles[f.node].parent
  BY DEF TTypeOK, Calls, FramesOK, FrameOK
<1>2. toggles' = [toggles EXCEPT ![f.node] = f.row]
  BY DEF Update
<1>3. Unmoved /\ \A n \in Nodes : Stored(n)' => Stored(n)
  BY <1>1, <1>2 DEF Unmoved, Stored, TTypeOK
<1>4. /\ tf' \in [Handlers -> Calls] /\ FrameOK(h)'
      /\ \A g \in Handlers \ {h} : tf'[g] = tf[g]
  <2>1. CASE rest = {}
    <3>1. tf' = [tf EXCEPT ![h] = NoCall]  BY <2>1 DEF Return
    <3>2. FrameOK(h)'  BY <3>1 DEF TTypeOK, FrameOK, NoCall
    <3> QED  BY <3>1, <3>2, NoCallTyped DEF TTypeOK
  <2>2. CASE rest # {}
    <3>1. tf' = [tf EXCEPT ![h] = [f EXCEPT !.pc = "read", !.todo = rest]]
      BY <2>2 DEF TTypeOK
    <3>2. rest \in SUBSET Nodes  BY <1>1 DEF Calls, GetChildren, GetChildrenUnscoped
    <3> HIDE DEF rest
    <3>3. [f EXCEPT !.pc = "read", !.todo = rest] \in Calls  BY <1>1, <3>2 DEF Calls
    <3>4. FrameOK(h)'  BY <1>1, <3>1 DEF TTypeOK, Calls, FrameOK
    <3> QED  BY <3>1, <3>3, <3>4 DEF TTypeOK
  <2> QED  BY <2>1, <2>2
<1>5. TTypeOK'  BY <1>1, <1>2, <1>4 DEF TTypeOK
<1> QED  BY <1>3, <1>4, <1>5, StepKeeps

(* The walk over a subtree starts at its root.                               *)
LEMMA EnterTyped ==
    ASSUME NEW n \in Nodes, NEW kids \in SUBSET Nodes
    PROVE  /\ Enter(n, kids) \in [node : Nodes, kids : SUBSET Nodes]
           /\ <<Enter(n, kids)>> \in Seq([node : Nodes, kids : SUBSET Nodes])
           /\ <<Enter(n, kids)>> # << >>
  BY DEF Enter

(* The archive root is marked; nothing moves.                                *)
LEMMA MarkDeletionMetaInv ==
    ASSUME TInv, NEW h \in Handlers, MarkDeletionMeta(h) PROVE TInv'
<1> USE DEF TInv, MarkDeletionMeta
<1> DEFINE f == tf[h]
           stack == <<Enter(f.node, GetChildren(f.node))>>
<1>1. f \in Calls /\ f.node \in Nodes /\ toggles[f.node] \in Toggles
  BY DEF TTypeOK, FramesOK, FrameOK
<1>2. stack \in Seq([node : Nodes, kids : SUBSET Nodes]) /\ stack # << >>
  BY <1>1, EnterTyped DEF GetChildren, GetChildrenUnscoped
<1>3. tf' = [tf EXCEPT ![h] = [f EXCEPT !.pc = "walk", !.stack = stack]]
  BY DEF TTypeOK
<1> HIDE DEF stack
<1>4. [f EXCEPT !.pc = "walk", !.stack = stack] \in Calls  BY <1>1, <1>2 DEF Calls
<1>5. toggles' \in [Nodes -> Toggles]
  <2>1. [toggles[f.node] EXCEPT !.root = TRUE] \in Toggles  BY <1>1 DEF Toggles
  <2> QED  BY <1>1, <2>1 DEF TTypeOK
<1>6. Unmoved /\ \A n \in Nodes : Stored(n)' => Stored(n)
  BY <1>1 DEF Unmoved, Stored, TTypeOK, Toggles
<1>7. TTypeOK'  BY <1>3, <1>4, <1>5 DEF TTypeOK
<1>8. FrameOK(h)'  BY <1>1, <1>2, <1>3 DEF TTypeOK, Calls, FrameOK
<1> QED  BY <1>3, <1>6, <1>7, <1>8, StepKeeps DEF TTypeOK

(* The collision check reads the subtree, then the walk starts.              *)
LEMMA CheckRestoreCollisionInv ==
    ASSUME TInv, NEW h \in Handlers, NEW n \in Nodes, CheckRestoreCollision(h, n)
    PROVE  TInv'
<1> USE DEF TInv, CheckRestoreCollision
<1> DEFINE f == tf[h]
           rest == (f.todo \ {n}) \cup GetChildrenUnscoped(n)
           stack == <<Enter(f.node, GetChildrenUnscoped(f.node))>>
<1>1. f \in Calls /\ f.node \in Nodes /\ f.pc = "check"
  BY DEF TTypeOK, FramesOK, FrameOK
<1>2. stack \in Seq([node : Nodes, kids : SUBSET Nodes]) /\ stack # << >>
  BY <1>1, EnterTyped DEF GetChildrenUnscoped
<1>3. rest \in SUBSET Nodes
  BY <1>1 DEF Calls, GetChildrenUnscoped
<1>4. CASE rest # {}
  <2>1. tf' = [tf EXCEPT ![h] = [f EXCEPT !.todo = rest]]  BY <1>4 DEF TTypeOK
  <2> HIDE DEF rest
  <2>2. [f EXCEPT !.todo = rest] \in Calls  BY <1>1, <1>3 DEF Calls
  <2>3. TTypeOK'  BY <2>1, <2>2 DEF TTypeOK
  <2>4. FrameOK(h)'  BY <1>1, <2>1 DEF TTypeOK, Calls, FrameOK
  <2> QED  BY <2>1, <2>3, <2>4, ReadKeeps DEF TTypeOK
<1>5. CASE rest = {}
  <2>1. tf' = [tf EXCEPT ![h] = [f EXCEPT !.pc = "walk", !.todo = {}, !.stack = stack]]
    BY <1>5 DEF TTypeOK
  <2> HIDE DEF stack
  <2>2. [f EXCEPT !.pc = "walk", !.todo = {}, !.stack = stack] \in Calls
    BY <1>1, <1>2 DEF Calls
  <2>3. TTypeOK'  BY <2>1, <2>2 DEF TTypeOK
  <2>4. FrameOK(h)'  BY <1>1, <1>2, <2>1 DEF TTypeOK, Calls, FrameOK
  <2> QED  BY <2>1, <2>3, <2>4, ReadKeeps DEF TTypeOK
<1> QED  BY <1>4, <1>5

(* The stack of a walk: its top and what is below it.                        *)
LEMMA StackFacts ==
    ASSUME TInv, NEW h \in Handlers, tf[h].pc = "walk"
    PROVE  /\ Top(h) \in [node : Nodes, kids : SUBSET Nodes]
           /\ Below(h) \in Seq([node : Nodes, kids : SUBSET Nodes])
<1> DEFINE s == tf[h].stack
           T == [node : Nodes, kids : SUBSET Nodes]
<1>1. s \in Seq(T) /\ s # << >>
  BY DEF TInv, TTypeOK, Calls, FramesOK, FrameOK
<1> HIDE DEF T
<1>2. Len(s) \in Nat \ {0} /\ Len(s) \in 1..Len(s)
  BY <1>1
<1>3. s[Len(s)] \in T
  BY <1>1, <1>2
<1>4. SubSeq(s, 1, Len(s) - 1) \in Seq(T)
  BY <1>1, <1>2
<1> QED  BY <1>3, <1>4 DEF Top, Below, T

(* A recursive call: a frame is pushed.                                      *)
LEMMA WalkDownInv ==
    ASSUME TInv, NEW h \in Handlers, NEW c \in Nodes, WalkDown(h, c) PROVE TInv'
<1> USE DEF TInv, WalkDown
<1> DEFINE f == tf[h]
           T == [node : Nodes, kids : SUBSET Nodes]
           kids == IF f.op = "delete" THEN GetChildren(c) ELSE GetChildrenUnscoped(c)
           upper == Enter(Top(h).node, Top(h).kids \ {c})
           stack == Append(Append(Below(h), upper), Enter(c, kids))
<1>1. f \in Calls /\ f.pc = "walk" /\ Top(h) \in T /\ Below(h) \in Seq(T)
  BY StackFacts DEF TTypeOK
<1>2. upper \in T /\ Enter(c, kids) \in T
  BY <1>1 DEF Enter, GetChildren, GetChildrenUnscoped
<1>3. toggles' = toggles /\ tf' = [tf EXCEPT ![h] = [f EXCEPT !.stack = stack]]
  BY DEF TTypeOK
<1> HIDE DEF T, kids, upper
<1>4. stack \in Seq(T) /\ stack # << >>
  BY <1>1, <1>2
<1> HIDE DEF stack, WalkDown
<1>5. [f EXCEPT !.stack = stack] \in Calls  BY <1>1, <1>4 DEF Calls, T
<1>6. TTypeOK'  BY <1>3, <1>5 DEF TTypeOK
<1>7. FrameOK(h)'
  <2>1. tf'[h].pc = "walk" /\ tf'[h].stack = stack  BY <1>1, <1>3 DEF TTypeOK, Calls
  <2> QED  BY <1>4, <2>1 DEF FrameOK
<1> QED  BY <1>3, <1>6, <1>7, ReadKeeps DEF TTypeOK

(* The end of a recursive call: a toggle is deleted or revived in place.     *)
LEMMA WalkUpInv ==
    ASSUME TInv, NEW h \in Handlers, WalkUp(h) PROVE TInv'
<1> USE DEF TInv, WalkUp
<1> DEFINE f == tf[h]
           T == [node : Nodes, kids : SUBSET Nodes]
           n == Top(h).node
<1>1. f \in Calls /\ f.pc = "walk" /\ n \in Nodes /\ Below(h) \in Seq(T)
  BY StackFacts DEF TTypeOK
<1> HIDE DEF n
<1>2. toggles[n] \in Toggles  BY <1>1 DEF TTypeOK
<1>3. toggles' = [toggles EXCEPT ![n] = IF f.op = "delete"
                     THEN [toggles[n] EXCEPT !.deleted = TRUE]
                     ELSE [toggles[n] EXCEPT !.deleted = FALSE, !.root = FALSE]]
  BY <1>1 DEF n, TTypeOK
<1>4. toggles' \in [Nodes -> Toggles]
  <2>1. /\ [toggles[n] EXCEPT !.deleted = TRUE] \in Toggles
        /\ [toggles[n] EXCEPT !.deleted = FALSE, !.root = FALSE] \in Toggles
    BY <1>2 DEF Toggles
  <2> QED  BY <1>1, <1>3, <2>1 DEF TTypeOK
<1>5. Unmoved /\ \A x \in Nodes : Stored(x)' => Stored(x)
  BY <1>1, <1>2, <1>3 DEF Unmoved, Stored, TTypeOK, Toggles
<1>6. /\ tf' \in [Handlers -> Calls] /\ FrameOK(h)'
      /\ \A g \in Handlers \ {h} : tf'[g] = tf[g]
  <2>1. CASE Below(h) = << >>
    <3>1. tf' = [tf EXCEPT ![h] = NoCall]  BY <2>1 DEF Return
    <3>2. FrameOK(h)'  BY <3>1 DEF TTypeOK, FrameOK, NoCall
    <3> QED  BY <3>1, <3>2, NoCallTyped DEF TTypeOK
  <2>2. CASE Below(h) # << >>
    <3>1. tf' = [tf EXCEPT ![h] = [f EXCEPT !.stack = Below(h)]]  BY <2>2 DEF TTypeOK
    <3>2. [f EXCEPT !.stack = Below(h)] \in Calls  BY <1>1 DEF Calls
    <3>3. FrameOK(h)'  BY <1>1, <2>2, <3>1 DEF TTypeOK, Calls, FrameOK
    <3> QED  BY <3>1, <3>2, <3>3 DEF TTypeOK
  <2> QED  BY <2>1, <2>2
<1>7. TTypeOK'  BY <1>4, <1>6 DEF TTypeOK
<1> QED  BY <1>5, <1>6, <1>7, StepKeeps

-----------------------------------------------------------------------------
(* The invariant is inductive.                                               *)
LEMMA TNextInv == TInv /\ [TNext]_tvars => TInv'
<1> SUFFICES ASSUME TInv, [TNext]_tvars PROVE TInv'
  OBVIOUS
<1>1. ASSUME NEW h \in Handlers, THandler(h) PROVE TInv'
  BY <1>1, BeginCreateInv, LookupLevelInv, InsertLevelInv, BeginUpdateInv,
     ReadToggleInv, SaveToggleInv, BeginDeleteInv, MarkDeletionMetaInv, WalkDownInv,
     WalkUpInv, BeginRestoreInv, CheckRestoreCollisionInv, TFailInv DEF THandler
<1>2. CASE UNCHANGED tvars
  BY <1>2 DEF TInv, TTypeOK, PathExtendsParent, FramesOK, FrameOK, Stored, tvars
<1> QED  BY <1>1, <1>2 DEF TNext

(* The inductive invariant holds in every reachable state.                   *)
THEOREM TInvariance == TSpec => []TInv
  BY TInitInv, TNextInv, PTL DEF TSpec

(* Rows, frames and recursion stacks keep their types.                       *)
THEOREM TTypeCorrect == TSpec => []TTypeOK
<1>1. TInv => TTypeOK  BY DEF TInv
<1> QED  BY <1>1, TInvariance, PTL

(* The path of a toggle extends the path of its parent by one name, however  *)
(* many handlers create, switch, delete and restore at the same time.        *)
THEOREM ForestWellFormed == TSpec => []PathExtendsParent
<1>1. TInv => PathExtendsParent  BY DEF TInv
<1> QED  BY <1>1, TInvariance, PTL

-----------------------------------------------------------------------------
(* The three readers of the table.  They recurse along the parents or the   *)
(* levels; what they compute is shown by least counterexample.              *)

Before == {ij \in Nat \X Nat : ij[1] < ij[2]}

(* Every non-empty set of numbers has a least element.                       *)
LEMMA Least ==
    ASSUME NEW T \in SUBSET Nat, T # {} PROVE \E x \in T : \A y \in T : x <= y
<1>1. IsWellFoundedOn(Before, Nat)
  BY NatLessThanWellFounded, Zenon DEF Before, OpToRel
<1>2. PICK x \in T : \A y \in T : ~(<<y, x>> \in Before)
  BY <1>1, WFMin
<1>3. ASSUME NEW y \in T PROVE x <= y
  <2>1. x \in Nat /\ y \in Nat  OBVIOUS
  <2>2. <<y, x>> \in Before <=> y < x  BY <2>1 DEF Before
  <2> QED  BY <1>2, <2>1, <2>2
<1> QED  BY <1>3

(* A toggle and the toggles above it, without recursion: what every set      *)
(* that holds the toggle and is closed under parents contains.               *)
Parent(n) == toggles[n].parent
UpClosed(S) == \A x \in S : Parent(x) # NoNode => Parent(x) \in S
Kin(n) == {k \in Nodes : \A S \in SUBSET Nodes : n \in S /\ UpClosed(S) => k \in S}

(* The toggles above n are n and the toggles above its parent.               *)
LEMMA KinStep ==
    ASSUME TTypeOK, NEW n \in Nodes
    PROVE  Kin(n) = {n} \cup (IF Parent(n) = NoNode THEN {} ELSE Kin(Parent(n)))
<1>0. Parent(n) \in Nodes \cup {NoNode}  BY DEF Parent, TTypeOK, Toggles
<1>1. n \in Kin(n)  BY DEF Kin
<1>2. CASE Parent(n) = NoNode
  <2>1. {n} \in SUBSET Nodes /\ UpClosed({n})  BY <1>2 DEF UpClosed
  <2>2. Kin(n) \subseteq {n}  BY <2>1 DEF Kin
  <2> QED  BY <1>1, <1>2, <2>2
<1>3. CASE Parent(n) # NoNode
  <2>0. Parent(n) \in Nodes  BY <1>0, <1>3
  <2>1. Kin(Parent(n)) \subseteq Kin(n)  BY <1>3, <2>0 DEF Kin, UpClosed
  <2>2. ASSUME NEW k \in Kin(n), k # n PROVE k \in Kin(Parent(n))
    <3> SUFFICES ASSUME NEW S \in SUBSET Nodes, Parent(n) \in S, UpClosed(S) PROVE k \in S
      BY <2>2 DEF Kin
    <3>1. S \cup {n} \in SUBSET Nodes /\ n \in S \cup {n} /\ UpClosed(S \cup {n})
      BY DEF UpClosed
    <3> QED  BY <2>2, <3>1 DEF Kin
  <2> QED  BY <1>1, <1>3, <2>1, <2>2
<1> QED  BY <1>2, <1>3

(* Up to the root, every toggle is on and no parent is missing; every one   *)
(* is live.                                                                  *)
Lit(n) == \A k \in Kin(n) : /\ toggles[k].enabled
                            /\ Parent(k) # NoNode => Live(Parent(k))
Reached(n) == \A k \in Kin(n) : Live(k)

(* Lit satisfies the equation of isToggleEnabled.                            *)
LEMMA LitStep ==
    ASSUME TTypeOK, NEW n \in Nodes
    PROVE  Lit(n) <=> /\ toggles[n].enabled
                      /\ Parent(n) # NoNode => Live(Parent(n)) /\ Lit(Parent(n))
<1>1. CASE Parent(n) = NoNode
  BY <1>1, KinStep DEF Lit
<1>2. CASE Parent(n) # NoNode
  BY <1>2, KinStep DEF Lit
<1> QED  BY <1>1, <1>2

(* A toggle is reached from the roots when it is live and its parent is.     *)
LEMMA ReachedStep ==
    ASSUME TTypeOK, NEW n \in Nodes
    PROVE  Reached(n) <=> Live(n) /\ (Parent(n) # NoNode => Reached(Parent(n)))
<1>1. CASE Parent(n) = NoNode
  BY <1>1, KinStep DEF Reached
<1>2. CASE Parent(n) # NoNode
  BY <1>2, KinStep DEF Reached
<1> QED  BY <1>1, <1>2

(* Nothing that evaluates to on hangs below a deleted toggle.                *)
LEMMA LitReached ==
    ASSUME TTypeOK, NEW n \in Nodes, Live(n), Lit(n) PROVE Reached(n)
<1> DEFINE S == {k \in Kin(n) : Live(k)}
<1>1. n \in S  BY KinStep
<1>2. S \in SUBSET Nodes  BY DEF Kin
<1>3. ASSUME NEW x \in S, Parent(x) # NoNode PROVE Parent(x) \in S
  <2>1. x \in Nodes /\ x \in Kin(n)  BY <1>2
  <2>2. Parent(x) \in Nodes  BY <1>3, <2>1 DEF Parent, TTypeOK, Toggles
  <2>3. Live(Parent(x))  BY <1>3, <2>1 DEF Lit
  <2>4. Parent(x) \in Kin(n)  BY <1>3, <2>1, <2>2 DEF Kin, UpClosed
  <2> QED  BY <2>3, <2>4
<1>4. UpClosed(S)  BY <1>3 DEF UpClosed
<1>5. Kin(n) \subseteq S
  <2> HIDE DEF S
  <2> QED  BY <1>1, <1>2, <1>4 DEF Kin
<1> QED  BY <1>5 DEF Reached

(* What the parent of a live toggle looks like.                              *)
LEMMA ParentFacts ==
    ASSUME TInv, NEW n \in Nodes, Stored(n)
    PROVE  /\ toggles[n].path \in Paths /\ Len(toggles[n].path) \in Nat \ {0}
           /\ Parent(n) = NoNode <=> Len(toggles[n].path) = 1
           /\ Parent(n) # NoNode =>
                /\ Parent(n) \in Nodes /\ Stored(Parent(n))
                /\ toggles[Parent(n)].path =
                      SubSeq(toggles[n].path, 1, Len(toggles[n].path) - 1)
                /\ Len(toggles[Parent(n)].path) = Len(toggles[n].path) - 1
<1> DEFINE p == toggles[n].path
           l == Len(p)
<1>1. p \in Paths /\ l \in Nat \ {0} /\ WellPlaced(n)
  BY PlacedMeans, PathsNonEmpty DEF TInv, TTypeOK, Toggles, Stored, NoPath
<1>2. CASE l = 1
  BY <1>1, <1>2 DEF WellPlaced, Parent
<1>3. CASE l # 1
  <2>1. Parent(n) \in Nodes /\ toggles[Parent(n)].path = SubSeq(p, 1, l - 1)
    BY <1>1, <1>3 DEF WellPlaced, Parent
  <2>2. l - 1 \in 1..l
    <3> HIDE DEF l
    <3> QED  BY <1>1, <1>3
  <2>3. SubSeq(p, 1, l - 1) # << >> /\ Len(SubSeq(p, 1, l - 1)) = l - 1
    BY <1>1, <2>2, PrefixFacts
  <2> QED  BY <1>1, <1>3, <2>1, <2>3, ToggleTreeAssumption DEF Stored, NoPath
<1> QED  BY <1>2, <1>3

(* isToggleEnabled returns: its equation has a solution.                     *)
LEMMA EnabledStep ==
    ASSUME TTypeOK, NEW n \in Nodes
    PROVE  IsToggleEnabled[n] =
              (/\ toggles[n].enabled
               /\ Parent(n) # NoNode => Live(Parent(n)) /\ IsToggleEnabled[Parent(n)])
<1> DEFINE F(g) == [q \in Nodes |->
                      /\ toggles[q].enabled
                      /\ toggles[q].parent # NoNode =>
                            Live(toggles[q].parent) /\ g[toggles[q].parent]]
           a == [q \in Nodes |-> Lit(q)]
<1>1. a = F(a)
  <2>1. ASSUME NEW q \in Nodes
        PROVE  a[q] = (/\ toggles[q].enabled
                       /\ toggles[q].parent # NoNode =>
                            Live(toggles[q].parent) /\ a[toggles[q].parent])
    <3>1. toggles[q].parent \in Nodes \cup {NoNode}  BY DEF TTypeOK, Toggles
    <3>2. toggles[q].enabled \in BOOLEAN  BY DEF TTypeOK, Toggles
    <3>3. Lit(q) \in BOOLEAN  BY DEF Lit
    <3> QED  BY <3>1, <3>2, <3>3, LitStep DEF Parent
  <2> QED  BY <2>1
<1>2. \E g : g = F(g)  BY <1>1
<1>3. IsToggleEnabled = CHOOSE g : g = F(g)  BY DEF IsToggleEnabled
<1>4. IsToggleEnabled = F(IsToggleEnabled)  BY <1>2, <1>3
<1> QED  BY <1>4 DEF Parent

(* What it returns for a stored toggle: the parents' paths get shorter.      *)
LEMMA EnabledIsLit ==
    ASSUME TInv, NEW n \in Nodes, Stored(n) PROVE IsToggleEnabled[n] <=> Lit(n)
<1> DEFINE Bad(m) == Stored(m) /\ ~(IsToggleEnabled[m] <=> Lit(m))
           T == {Len(toggles[m].path) : m \in {x \in Nodes : Bad(x)}}
<1> SUFFICES ASSUME Bad(n) PROVE FALSE  OBVIOUS
<1>0. TTypeOK  BY DEF TInv
<1>1. T \in SUBSET Nat /\ T # {}
  <2>1. \A m \in Nodes : Bad(m) => Len(toggles[m].path) \in Nat  BY ParentFacts
  <2> HIDE DEF Bad
  <2> QED  BY <2>1
<1>2. PICK least \in T : \A y \in T : least <= y
  <2> HIDE DEF T
  <2> QED  BY <1>1, Least
<1>3. PICK m \in Nodes : Bad(m) /\ least = Len(toggles[m].path)  OBVIOUS
<1>4. CASE Parent(m) = NoNode
  BY <1>0, <1>3, <1>4, EnabledStep, LitStep
<1>5. CASE Parent(m) # NoNode
  <2>1. /\ Parent(m) \in Nodes /\ Stored(Parent(m)) /\ least \in Nat
        /\ Len(toggles[Parent(m)].path) = least - 1
    BY <1>3, <1>5, ParentFacts
  <2>2. ~Bad(Parent(m))
    <3>1. ASSUME Bad(Parent(m)) PROVE least - 1 \in T  BY <2>1, <3>1
    <3>2. ~(least <= least - 1)  BY <2>1
    <3> QED  BY <1>2, <3>1, <3>2
  <2>3. IsToggleEnabled[Parent(m)] <=> Lit(Parent(m))  BY <2>1, <2>2
  <2> QED  BY <1>0, <1>3, <1>5, <2>3, EnabledStep, LitStep
<1> QED  BY <1>4, <1>5

(* Paths have a greatest length: the column that stores them is a           *)
(* varchar(1000).                                                            *)
BoundedDepth == \E b \in Nat : \A p \in Paths : Len(p) <= b

(* The levels of the admin's tree end at the greatest length of a path.      *)
LEMMA MaxLevelFacts ==
    ASSUME BoundedDepth, NEW q \in Paths
    PROVE  MaxLevel \in Nat /\ \A p \in Paths : Len(p) <= MaxLevel
<1> DEFINE T == {b \in Nat : \A p \in Paths : Len(p) <= b}
<1>1. PICK b \in T : \A y \in T : b <= y
  <2>1. T \in SUBSET Nat /\ T # {}  BY DEF BoundedDepth
  <2> HIDE DEF T
  <2> QED  BY <2>1, Least
<1>2. b \in Nat /\ \A p \in Paths : Len(p) \in Nat \ {0} /\ Len(p) <= b  BY PathsNonEmpty
<1>3. \E p \in Paths : Len(p) = b
  <2> SUFFICES ASSUME \A p \in Paths : Len(p) # b PROVE FALSE  OBVIOUS
  <2>1. \A p \in Paths : Len(p) <= b - 1  BY <1>2
  <2>2. b - 1 \in Nat
    <3>1. Len(q) \in Nat \ {0} /\ Len(q) <= b  BY <1>2
    <3> QED  BY <1>2, <3>1
  <2>3. b - 1 \in T  BY <2>1, <2>2
  <2>4. b <= b - 1  BY <1>1, <2>3
  <2> QED  BY <1>2, <2>4
<1>4. \E l \in {Len(p) : p \in Paths} : \A p \in Paths : Len(p) <= l
  BY <1>2, <1>3
<1>5. /\ MaxLevel \in {Len(p) : p \in Paths}
      /\ \A p \in Paths : Len(p) <= MaxLevel
  BY <1>4 DEF MaxLevel
<1> QED  BY <1>2, <1>5

(* One level of the admin's tree from the level above it.                    *)
Level(l, above) ==
    IF l = 1 THEN {<<n, toggles[n].enabled>> : n \in AtLevel(1)}
    ELSE UNION {{<<n, toggles[n].enabled /\ up[2]>> :
                   n \in {c \in AtLevel(l) : toggles[c].parent = up[1]}} : up \in above}

(* The toggles of a level that are reached from the roots, with their state. *)
Shown(l) == {<<n, Lit(n)>> : n \in {c \in AtLevel(l) : Reached(c)}}

(* Shown satisfies the equation of buildHierarchyArray on the first level.   *)
LEMMA ShownFirst ==
    ASSUME TInv PROVE Shown(1) = Level(1, {})
<1>0. TTypeOK  BY DEF TInv
<1>1. ASSUME NEW n \in AtLevel(1)
      PROVE  Reached(n) /\ (Lit(n) = toggles[n].enabled)
  <2>1. n \in Nodes /\ Live(n) /\ Stored(n) /\ Len(toggles[n].path) = 1
    BY DEF AtLevel, Live
  <2>2. Parent(n) = NoNode  BY <2>1, ParentFacts
  <2>3. Lit(n) \in BOOLEAN /\ toggles[n].enabled \in BOOLEAN
    BY <1>0, <2>1 DEF Lit, TTypeOK, Toggles
  <2> QED  BY <1>0, <2>1, <2>2, <2>3, LitStep, ReachedStep
<1>2. Level(1, {}) = {<<n, toggles[n].enabled>> : n \in AtLevel(1)}  BY DEF Level
<1> QED  BY <1>1, <1>2 DEF Shown

(* And on every further level.                                               *)
LEMMA ShownNext ==
    ASSUME TInv, NEW l \in Nat, l > 1 PROVE Shown(l) = Level(l, Shown(l - 1))
<1>0. TTypeOK  BY DEF TInv
<1>1. ASSUME NEW n \in AtLevel(l)
      PROVE  /\ n \in Nodes
             /\ Parent(n) \in Nodes
             /\ Reached(n) <=> Parent(n) \in AtLevel(l - 1) /\ Reached(Parent(n))
             /\ Reached(n) => (Lit(n) = (toggles[n].enabled /\ Lit(Parent(n))))
  <2>1. n \in Nodes /\ Live(n) /\ Stored(n) /\ Len(toggles[n].path) = l
    BY DEF AtLevel, Live
  <2>2. /\ Parent(n) # NoNode /\ Parent(n) \in Nodes
        /\ Len(toggles[Parent(n)].path) = l - 1
    <3>1. l # 1  OBVIOUS
    <3> QED  BY <2>1, <3>1, ParentFacts
  <2>3. Reached(Parent(n)) => Live(Parent(n))  BY <1>0, <2>2, ReachedStep
  <2>4. Reached(n) <=> Parent(n) \in AtLevel(l - 1) /\ Reached(Parent(n))
    BY <1>0, <2>1, <2>2, <2>3, ReachedStep DEF AtLevel
  <2>5. ASSUME Reached(n) PROVE Lit(n) = (toggles[n].enabled /\ Lit(Parent(n)))
    <3>1. Live(Parent(n))  BY <2>3, <2>4, <2>5
    <3>2. Lit(n) \in BOOLEAN /\ toggles[n].enabled \in BOOLEAN
      BY <1>0, <2>1 DEF Lit, TTypeOK, Toggles
    <3> QED  BY <1>0, <2>1, <2>2, <3>1, <3>2, LitStep
  <2> QED  BY <2>1, <2>2, <2>4, <2>5
<1>2. Level(l, Shown(l - 1)) =
        UNION {{<<n, toggles[n].enabled /\ up[2]>> :
                   n \in {c \in AtLevel(l) : Parent(c) = up[1]}} : up \in Shown(l - 1)}
  BY DEF Level, Parent
<1>3. ASSUME NEW x \in Shown(l) PROVE x \in Level(l, Shown(l - 1))
  <2>1. PICK n \in AtLevel(l) : Reached(n) /\ x = <<n, Lit(n)>>  BY DEF Shown
  <2> DEFINE up == <<Parent(n), Lit(Parent(n))>>
  <2>2. up \in Shown(l - 1)  BY <1>1, <2>1 DEF Shown
  <2>3. up[1] = Parent(n) /\ up[2] = Lit(Parent(n))  OBVIOUS
  <2>4. x = <<n, toggles[n].enabled /\ up[2]>>  BY <1>1, <2>1, <2>3
  <2> HIDE DEF up
  <2> QED  BY <1>2, <2>1, <2>2, <2>3, <2>4
<1>4. ASSUME NEW x \in Level(l, Shown(l - 1)) PROVE x \in Shown(l)
  <2>1. PICK up \in Shown(l - 1) :
           x \in {<<n, toggles[n].enabled /\ up[2]>> :
                     n \in {c \in AtLevel(l) : Parent(c) = up[1]}}
    BY <1>2
  <2>2. PICK n \in AtLevel(l) : Parent(n) = up[1] /\ x = <<n, toggles[n].enabled /\ up[2]>>
    BY <2>1
  <2>3. PICK m \in AtLevel(l - 1) : Reached(m) /\ up = <<m, Lit(m)>>  BY DEF Shown
  <2>4. up[1] = m /\ up[2] = Lit(m)  BY <2>3
  <2>5. Reached(n) /\ x = <<n, Lit(n)>>  BY <1>1, <2>2, <2>3, <2>4
  <2> QED  BY <2>5 DEF Shown
<1> QED  BY <1>3, <1>4

(* buildHierarchyArray shows exactly these toggles.                          *)
LEMMA HierarchyIsShown ==
    ASSUME TInv, MaxLevel \in Nat
    PROVE  BuildHierarchy = UNION {Shown(l) : l \in 1..MaxLevel}
<1> DEFINE F(g) == [l \in 1..MaxLevel |->
                      IF l = 1 THEN {<<n, toggles[n].enabled>> : n \in AtLevel(1)}
                      ELSE UNION {{<<n, toggles[n].enabled /\ up[2]>> :
                                     n \in {c \in AtLevel(l) : toggles[c].parent = up[1]}} :
                                   up \in g[l - 1]}]
           a == [l \in 1..MaxLevel |-> Shown(l)]
           s == CHOOSE g : g = F(g)
<1>1. a = F(a)
  <2>1. ASSUME NEW l \in 1..MaxLevel
        PROVE  a[l] = F(a)[l]
    <3>1. CASE l = 1
      BY <3>1, ShownFirst DEF Level
    <3>2. CASE l # 1
      <4>1. l \in Nat /\ l > 1 /\ l - 1 \in 1..MaxLevel  BY <3>2
      <4>2. a[l - 1] = Shown(l - 1)  BY <4>1
      <4>3. a[l] = Level(l, a[l - 1])  BY <4>1, <4>2, ShownNext
      <4> HIDE DEF a
      <4> QED  BY <3>2, <4>3 DEF Level
    <3> QED  BY <3>1, <3>2
  <2>2. a = [l \in 1..MaxLevel |-> F(a)[l]]  BY <2>1
  <2> HIDE DEF a
  <2> QED  BY <2>2
<1>2. \E g : g = F(g)  BY <1>1
<1>3. s = F(s)  BY <1>2
<1>4. ASSUME NEW l \in 1..MaxLevel
      PROVE  s[l] = IF l = 1 THEN Level(1, {}) ELSE Level(l, s[l - 1])
  <2> HIDE DEF s
  <2> QED  BY <1>3 DEF Level
<1>5. BuildHierarchy = UNION {s[l] : l \in 1..MaxLevel}  BY DEF BuildHierarchy
<1> HIDE DEF s, F, a
<1>6. ASSUME NEW k \in 1..MaxLevel PROVE s[k] = Shown(k)
  <2> DEFINE T == {l \in 1..MaxLevel : s[l] # Shown(l)}
  <2> SUFFICES ASSUME T # {} PROVE FALSE  OBVIOUS
  <2>1. PICK l \in T : \A y \in T : l <= y
    <3>1. T \in SUBSET Nat  OBVIOUS
    <3> HIDE DEF T
    <3> QED  BY <3>1, Least
  <2>2. CASE l = 1
    BY <1>4, <2>2, ShownFirst
  <2>3. CASE l # 1
    <3>1. l \in Nat /\ l > 1 /\ l - 1 \in 1..MaxLevel /\ ~(l <= l - 1)  BY <2>3
    <3>2. s[l - 1] = Shown(l - 1)  BY <2>1, <3>1
    <3>3. s[l] = Level(l, s[l - 1])  BY <1>4, <2>3
    <3> QED  BY <3>1, <3>2, <3>3, ShownNext
  <2> QED  BY <2>2, <2>3
<1> QED  BY <1>5, <1>6

(* The client, which goes by path, sees the parent by its path.              *)
LEMMA SdkStep ==
    ASSUME TInv, UniqueLivePath, NEW n \in Nodes, Live(n),
           Parent(n) # NoNode => Live(Parent(n))
    PROVE  SdkActive(toggles[n].path) <=>
              /\ toggles[n].enabled
              /\ Parent(n) # NoNode => SdkActive(toggles[Parent(n)].path)
<1> DEFINE p == toggles[n].path
           q == toggles[Parent(n)].path
<1>1. /\ Stored(n) /\ p \in Paths /\ Len(p) \in Nat \ {0}
      /\ Parent(n) = NoNode <=> Len(p) = 1
  BY ParentFacts DEF Live
<1>2. \A m \in Nodes : Live(m) =>
         /\ Exists(toggles[m].path)
         /\ On(toggles[m].path) <=> toggles[m].enabled
  BY DEF UniqueLivePath, Exists, On, GetByPath
<1>3. CASE Parent(n) = NoNode
  <2>1. Len(p) = 1  BY <1>1, <1>3
  <2>2. 1..(Len(p) - 1) = {}  BY <2>1
  <2> QED  BY <1>2, <1>3, <2>2 DEF SdkActive
<1>4. CASE Parent(n) # NoNode
  <2>1. /\ Parent(n) \in Nodes /\ Stored(Parent(n)) /\ q = SubSeq(p, 1, Len(p) - 1)
        /\ Len(q) = Len(p) - 1
    BY <1>1, <1>4, ParentFacts
  <2>2. PICK k \in Nat : k = Len(p) - 1 /\ k >= 1
    <3>1. PICK j \in Nat \ {0} : j = Len(p)  BY <1>1
    <3>2. j # 1  BY <1>1, <1>4, <3>1
    <3>3. j - 1 \in Nat /\ j - 1 >= 1  BY <3>2
    <3> QED  BY <3>1, <3>3
  <2>3. p \in Seq(Names)  BY <1>1, PathsNonEmpty
  <2>4. ASSUME NEW i \in 1..k PROVE SubSeq(q, 1, i) = SubSeq(p, 1, i)
    BY <2>1, <2>2, <2>3
  <2>5. SubSeq(q, 1, k) = q  BY <2>1, <2>2, <2>4
  <2>6. 1..k = (1..(k - 1)) \cup {k}  BY <2>2
  <2>7. SubSeq(p, 1, k) = q  BY <2>1, <2>2
  <2>8. Live(Parent(n)) /\ Exists(q)  BY <1>2, <1>4, <2>1
  <2>9. SdkActive(p) <=> /\ On(p) /\ On(q)
                         /\ \A i \in 1..(k - 1) :
                               Exists(SubSeq(p, 1, i)) => On(SubSeq(p, 1, i))
    BY <2>2, <2>6, <2>7, <2>8 DEF SdkActive
  <2>10. SdkActive(q) <=> /\ On(q)
                          /\ \A i \in 1..(k - 1) :
                               Exists(SubSeq(p, 1, i)) => On(SubSeq(p, 1, i))
    <3>1. \A i \in 1..(k - 1) : i \in 1..k  BY <2>2
    <3> QED  BY <2>1, <2>2, <2>4, <3>1 DEF SdkActive
  <2> QED  BY <1>2, <1>4, <2>9, <2>10
<1> QED  BY <1>3, <1>4

(* Under unique paths and without orphans the client agrees with the server. *)
LEMMA SdkIsLit ==
    ASSUME TInv, UniqueLivePath, NoOrphan, NEW n \in Nodes, Live(n)
    PROVE  SdkActive(toggles[n].path) <=> Lit(n)
<1> DEFINE Bad(m) == Live(m) /\ ~(SdkActive(toggles[m].path) <=> Lit(m))
           T == {Len(toggles[m].path) : m \in {x \in Nodes : Bad(x)}}
<1> SUFFICES ASSUME Bad(n) PROVE FALSE  OBVIOUS
<1>0. TTypeOK  BY DEF TInv
<1>1. T \in SUBSET Nat /\ T # {}
  <2>1. \A m \in Nodes : Bad(m) => Len(toggles[m].path) \in Nat  BY ParentFacts DEF Live
  <2> HIDE DEF Bad
  <2> QED  BY <2>1
<1>2. PICK least \in T : \A y \in T : least <= y
  <2> HIDE DEF T
  <2> QED  BY <1>1, Least
<1>3. PICK m \in Nodes : Bad(m) /\ least = Len(toggles[m].path)  OBVIOUS
<1>4. Parent(m) # NoNode => Live(Parent(m))  BY <1>3 DEF NoOrphan, Parent
<1>5. CASE Parent(m) = NoNode
  BY <1>0, <1>3, <1>5, SdkStep, LitStep
<1>6. CASE Parent(m) # NoNode
  <2>1. /\ Parent(m) \in Nodes /\ least \in Nat
        /\ Len(toggles[Parent(m)].path) = least - 1
    BY <1>3, <1>6, ParentFacts DEF Live
  <2>2. ~Bad(Parent(m))
    <3>1. ASSUME Bad(Parent(m)) PROVE least - 1 \in T  BY <2>1, <3>1
    <3>2. ~(least <= least - 1)  BY <2>1
    <3> QED  BY <1>2, <3>1, <3>2
  <2>3. SdkActive(toggles[Parent(m)].path) <=> Lit(Parent(m))  BY <1>4, <1>6, <2>2
  <2> QED  BY <1>0, <1>3, <1>4, <1>6, <2>3, SdkStep, LitStep
<1> QED  BY <1>5, <1>6

(* In a well-formed forest the three readers agree.                          *)
LEMMA ReadersAgree == ASSUME TInv, BoundedDepth PROVE EvaluatorsAgree
<1> SUFFICES ASSUME NEW n \in Nodes, Live(n)
             PROVE  /\ IsToggleEnabled[n] <=> <<n, TRUE>> \in BuildHierarchy
                    /\ UniqueLivePath /\ NoOrphan =>
                          (SdkActive(toggles[n].path) <=> IsToggleEnabled[n])
  BY DEF EvaluatorsAgree
<1>0. TTypeOK /\ Stored(n)  BY DEF TInv, Live
<1> DEFINE l == Len(toggles[n].path)
<1>1. toggles[n].path \in Paths /\ l \in Nat \ {0}  BY <1>0, ParentFacts
<1>2. MaxLevel \in Nat /\ l <= MaxLevel  BY <1>1, MaxLevelFacts
<1>3. l \in 1..MaxLevel  BY <1>1, <1>2
<1>4. IsToggleEnabled[n] <=> Lit(n)  BY <1>0, EnabledIsLit
<1>5. ASSUME Lit(n) PROVE <<n, TRUE>> \in BuildHierarchy
  <2>1. Reached(n)  BY <1>0, <1>5, LitReached
  <2>2. Lit(n) = TRUE  BY <1>5 DEF Lit
  <2>3. <<n, TRUE>> \in Shown(l)  BY <2>1, <2>2 DEF Shown, AtLevel
  <2> QED  BY <1>2, <1>3, <2>3, HierarchyIsShown
<1>6. ASSUME <<n, TRUE>> \in BuildHierarchy PROVE Lit(n)
  <2>1. PICK k \in 1..MaxLevel : <<n, TRUE>> \in Shown(k)  BY <1>2, <1>6, HierarchyIsShown
  <2>2. PICK m \in AtLevel(k) : <<n, TRUE>> = <<m, Lit(m)>>  BY <2>1 DEF Shown
  <2> QED  BY <2>2
<1>7. ASSUME UniqueLivePath, NoOrphan
      PROVE  SdkActive(toggles[n].path) <=> IsToggleEnabled[n]
  BY <1>4, <1>7, SdkIsLit
<1> QED  BY <1>4, <1>5, <1>6, <1>7

(* Whatever the handlers do at the same time, the server's own evaluation    *)
(* and the admin's tree agree on every live toggle, and the client agrees    *)
(* with them where paths are unique and nothing is live below a deleted      *)
(* toggle.  The admin's tree is built up to the greatest depth of a path.    *)
THEOREM EvaluatorsAgreeAlways ==
    ASSUME BoundedDepth PROVE TSpec => []EvaluatorsAgree
<1>1. TInv => EvaluatorsAgree  BY ReadersAgree
<1> QED  BY <1>1, TInvariance, PTL

-----------------------------------------------------------------------------
(* One request after the other.  Two handlers break what follows: a switch  *)
(* saved from a row that was read before a deletion marked it takes the     *)
(* mark away.                                                                *)

Serial == \A g, h \in Handlers : g = h

(* A toggle can be restored with itself or with one above it.                *)
Archived(n) == \E k \in Kin(n) : toggles[k].root

(* Nothing at or below a toggle is deleted.                                  *)
Clean(n) == \A x \in Nodes : Stored(x) /\ n \in Kin(x) => ~toggles[x].deleted

(* An entry of the recursion's stack: a deletion works below the archive     *)
(* root it marked; a restoration is done with the children of the toggle     *)
(* but for those on its list and the one it is in.                           *)
Entry(op, s, i) ==
    LET n == s[i].node
    IN  /\ n \in Nodes /\ Stored(n)
        /\ s[i].kids \subseteq GetChildrenUnscoped(n)
        /\ op = "delete" => Archived(n)
        /\ op # "delete" =>
              \A c \in GetChildrenUnscoped(n) :
                  c \in s[i].kids \/ (i < Len(s) /\ c = s[i + 1].node) \/ Clean(c)

(* What a handler that is alone relies on.                                   *)
Relies(h) ==
    LET f == tf[h]
    IN  /\ f.pc = "save" => /\ f.row.deleted = toggles[f.node].deleted
                            /\ f.row.root = toggles[f.node].root
        /\ f.pc = "mark" => f.op = "delete" /\ Live(f.node)
        /\ f.pc = "check" => f.op = "restore" /\ Stored(f.node)
        /\ f.pc = "walk" => \A i \in 1..Len(f.stack) : Entry(f.op, f.stack, i)

ArchiveOK == \A n \in Nodes : toggles[n].deleted => Stored(n) /\ Archived(n)

RInv == TInv /\ ArchiveOK /\ \A h \in Handlers : Relies(h)

-----------------------------------------------------------------------------
(* The toggles above a toggle                                               *)

(* Above a stored toggle every toggle is stored.                             *)
LEMMA KinStored ==
    ASSUME TInv, NEW n \in Nodes, Stored(n) PROVE \A k \in Kin(n) : Stored(k)
<1> DEFINE S == {k \in Nodes : Stored(k)}
<1>1. S \in SUBSET Nodes /\ n \in S /\ UpClosed(S)
  BY ParentFacts DEF UpClosed
<1> QED  BY <1>1 DEF Kin

(* Toggles that do not move stay below the same toggles.                     *)
LEMMA KinKept ==
    ASSUME TInv, TInv', Unmoved, NEW n \in Nodes, Stored(n) PROVE Kin(n)' = Kin(n)
<1> DEFINE S0 == {k \in Nodes : Stored(k)}
<1>1. \A k \in S0 : /\ Parent(k)' = Parent(k)
                    /\ Parent(k) # NoNode => Parent(k) \in S0
  BY ParentFacts DEF Unmoved, Parent
<1>2. ASSUME NEW k \in Kin(n) PROVE k \in Kin(n)'
  <2> SUFFICES ASSUME NEW S \in SUBSET Nodes, n \in S, UpClosed(S)' PROVE k \in S
    BY <1>2 DEF Kin
  <2>1. S \cap S0 \in SUBSET Nodes /\ n \in S \cap S0 /\ UpClosed(S \cap S0)
    BY <1>1 DEF UpClosed
  <2> QED  BY <1>2, <2>1 DEF Kin
<1>3. ASSUME NEW k \in Kin(n)' PROVE k \in Kin(n)
  <2> SUFFICES ASSUME NEW S \in SUBSET Nodes, n \in S, UpClosed(S) PROVE k \in S
    BY <1>3 DEF Kin
  <2>1. PICK R \in SUBSET Nodes : R = S \cap S0  OBVIOUS
  <2>2. n \in R /\ UpClosed(R)'
    BY <1>1, <2>1 DEF UpClosed
  <2> QED  BY <1>3, <2>1, <2>2 DEF Kin
<1> QED  BY <1>2, <1>3

(* What is above n and is not n is above a child of it.                      *)
LEMMA ThroughChild ==
    ASSUME TInv, NEW x \in Nodes, Stored(x), NEW n \in Kin(x), n # x
    PROVE  \E c \in GetChildrenUnscoped(n) : c \in Kin(x)
<1> SUFFICES ASSUME \A c \in GetChildrenUnscoped(n) : c \notin Kin(x) PROVE FALSE
  OBVIOUS
<1> DEFINE S == Kin(x) \ {n}
<1>1. S \in SUBSET Nodes /\ x \in S  BY DEF Kin
<1>2. ASSUME NEW y \in S, Parent(y) # NoNode PROVE Parent(y) \in S
  <2>1. y \in Nodes /\ y \in Kin(x) /\ Stored(y)  BY <1>1, KinStored
  <2>2. Parent(y) \in Nodes  BY <1>2, <2>1, ParentFacts
  <2>3. Parent(y) \in Kin(x)  BY <1>2, <2>1, <2>2 DEF Kin, UpClosed
  <2>4. Parent(y) # n  BY <2>1 DEF GetChildrenUnscoped, Parent
  <2> QED  BY <2>3, <2>4
<1>3. UpClosed(S)  BY <1>2 DEF UpClosed
<1>4. n \in S
  <2> HIDE DEF S
  <2> QED  BY <1>1, <1>3 DEF Kin
<1> QED  BY <1>4

(* A toggle is archived with its parent.                                     *)
LEMMA ArchivedBelow ==
    ASSUME TInv, NEW n \in Nodes, Archived(n), NEW c \in GetChildrenUnscoped(n)
    PROVE  c \in Nodes /\ Stored(c) /\ Archived(c)
<1>1. c \in Nodes /\ Stored(c) /\ Parent(c) = n  BY DEF GetChildrenUnscoped, Parent
<1>2. n # NoNode  BY ToggleTreeAssumption
<1>3. Kin(n) \subseteq Kin(c)  BY <1>1, <1>2, KinStep DEF TInv
<1> QED  BY <1>1, <1>3 DEF Archived

(* The chain of parents, as Lineage computes it, for a stored toggle.        *)
LEMMA LineageIsKin ==
    ASSUME TInv, NEW n \in Nodes, Stored(n) PROVE Lineage(n) = Kin(n)
<1> DEFINE F(g) == [m \in Nodes |->
                      {m} \cup (IF toggles[m].parent = NoNode THEN {} ELSE g[toggles[m].parent])]
           a == [m \in Nodes |-> Kin(m)]
           s == CHOOSE g : g = F(g)
<1>0. TTypeOK  BY DEF TInv
<1>1. a = F(a)
  <2>1. ASSUME NEW q \in Nodes
        PROVE  a[q] = {q} \cup (IF toggles[q].parent = NoNode THEN {} ELSE a[toggles[q].parent])
    <3>1. toggles[q].parent \in Nodes \cup {NoNode}  BY <1>0 DEF TTypeOK, Toggles
    <3> QED  BY <1>0, <3>1, KinStep DEF Parent
  <2> QED  BY <2>1
<1>2. \E g : g = F(g)  BY <1>1
<1>3. s = F(s)  BY <1>2
<1>4. \A m \in Nodes : s[m] = {m} \cup (IF Parent(m) = NoNode THEN {} ELSE s[Parent(m)])
  <2> HIDE DEF s
  <2> QED  BY <1>3 DEF Parent
<1>5. Lineage(n) = s[n]  BY DEF Lineage
<1> HIDE DEF s, F, a
<1>6. s[n] = Kin(n)
  <2> DEFINE Bad(m) == Stored(m) /\ s[m] # Kin(m)
             T == {Len(toggles[m].path) : m \in {x \in Nodes : Bad(x)}}
  <2> SUFFICES ASSUME Bad(n) PROVE FALSE  OBVIOUS
  <2>1. T \in SUBSET Nat /\ T # {}
    <3>1. \A m \in Nodes : Bad(m) => Len(toggles[m].path) \in Nat  BY ParentFacts
    <3> HIDE DEF Bad
    <3> QED  BY <3>1
  <2>2. PICK least \in T : \A y \in T : least <= y
    <3> HIDE DEF T
    <3> QED  BY <2>1, Least
  <2>3. PICK m \in Nodes : Bad(m) /\ least = Len(toggles[m].path)  OBVIOUS
  <2>4. CASE Parent(m) = NoNode
    BY <1>0, <1>4, <2>3, <2>4, KinStep
  <2>5. CASE Parent(m) # NoNode
    <3>1. /\ Parent(m) \in Nodes /\ Stored(Parent(m)) /\ least \in Nat
          /\ Len(toggles[Parent(m)].path) = least - 1
      BY <2>3, <2>5, ParentFacts
    <3>2. ~Bad(Parent(m))
      <4>1. ASSUME Bad(Parent(m)) PROVE least - 1 \in T  BY <3>1, <4>1
      <4>2. ~(least <= least - 1)  BY <3>1
      <4> QED  BY <2>2, <4>1, <4>2
    <3>3. s[Parent(m)] = Kin(Parent(m))  BY <3>1, <3>2
    <3> QED  BY <1>0, <1>4, <2>3, <2>5, <3>3, KinStep
  <2> QED  BY <2>4, <2>5
<1> QED  BY <1>5, <1>6

(* The invariant says that nothing deleted is lost.                          *)
LEMMA ArchiveMeans == ASSUME TInv, ArchiveOK PROVE Recoverable
  BY LineageIsKin DEF ArchiveOK, Archived, Recoverable

-----------------------------------------------------------------------------
(* The archive, step by step                                                *)

(* What is left to show for a step.                                          *)
LEMMA RecoverParts ==
    ASSUME Serial, RInv, NEW h \in Handlers, THandler(h), ArchiveOK', Relies(h)'
    PROVE  RInv'
<1>1. TInv'  BY TNextInv DEF RInv, TNext
<1>2. \A g \in Handlers : Relies(g)'  BY DEF Serial
<1> QED  BY <1>1, <1>2 DEF RInv

(* A step that does not write.                                               *)
LEMMA SameTable ==
    ASSUME RInv, toggles' = toggles PROVE ArchiveOK'
  BY DEF RInv, ArchiveOK, Archived, Stored, Kin, UpClosed, Parent

(* A step that does not write sees the same entries.                         *)
LEMMA SameEntry ==
    ASSUME toggles' = toggles, NEW op, NEW s, NEW i, Entry(op, s, i)
    PROVE  Entry(op, s, i)'
  BY DEF Entry, GetChildrenUnscoped, Archived, Clean, Stored, Kin, UpClosed, Parent

(* A step that archives what it deletes and takes no mark away.              *)
LEMMA ArchiveKept ==
    ASSUME RInv, TInv', Unmoved,
           \A x \in Nodes : toggles'[x].deleted =>
               toggles[x].deleted \/ (Stored(x) /\ Archived(x)),
           \A x \in Nodes : Stored(x) /\ toggles[x].root => toggles'[x].root
    PROVE  ArchiveOK' /\ \A x \in Nodes : Stored(x) /\ Archived(x) => Archived(x)'
<1>0. TInv /\ ArchiveOK  BY DEF RInv
<1>1. ASSUME NEW x \in Nodes, Stored(x), Archived(x) PROVE Archived(x)'
  <2>1. PICK k \in Kin(x) : toggles[k].root  BY <1>1 DEF Archived
  <2>2. k \in Nodes /\ Stored(k)  BY <1>0, <1>1, KinStored DEF Kin
  <2>3. k \in Kin(x)' /\ toggles'[k].root  BY <1>0, <1>1, <2>1, <2>2, KinKept
  <2> QED  BY <2>3 DEF Archived
<1>2. ASSUME NEW x \in Nodes, toggles'[x].deleted PROVE Stored(x)' /\ Archived(x)'
  <2>1. Stored(x) /\ Archived(x)  BY <1>0, <1>2 DEF ArchiveOK
  <2>2. Stored(x)'  BY <2>1 DEF Unmoved, Stored
  <2> QED  BY <1>1, <2>1, <2>2
<1> QED  BY <1>1, <1>2 DEF ArchiveOK

(* An idle handler, or one that creates or looks, relies on nothing.         *)
LEMMA FreeRelies ==
    ASSUME NEW h \in Handlers, tf'[h].pc \in {"idle", "lookup", "insert", "read"}
    PROVE  Relies(h)'
  BY DEF Relies

(* The steps that only look, and go on to a place that relies on nothing.    *)
LEMMA LooksRecover ==
    ASSUME Serial, RInv, NEW h \in Handlers, THandler(h), toggles' = toggles,
           tf'[h].pc \in {"idle", "lookup", "insert", "read"}
    PROVE  RInv'
  BY FreeRelies, SameTable, RecoverParts

(* A creation begins.                                                        *)
LEMMA BeginCreateRecover ==
    ASSUME Serial, RInv, NEW h \in Handlers, NEW p \in Paths, BeginCreate(h, p)
    PROVE  RInv'
<1>1. toggles' = toggles /\ tf'[h].pc = "lookup"
  BY DEF BeginCreate, RInv, TInv, TTypeOK, NoCall
<1> QED  BY <1>1, LooksRecover DEF THandler

(* A level is found or not.                                                  *)
LEMMA LookupLevelRecover ==
    ASSUME Serial, RInv, NEW h \in Handlers, LookupLevel(h) PROVE RInv'
<1>1. toggles' = toggles /\ tf'[h].pc \in {"idle", "lookup", "insert"}
  <2>1. CASE Exists(Prefix(h))
    <3>1. PICK n \in GetByPath(Prefix(h)) : Descend(h, n)  BY <2>1 DEF LookupLevel
    <3>2. tf'[h].pc \in {"idle", "lookup"}
      BY <3>1 DEF Descend, Return, RInv, TInv, TTypeOK, Calls, NoCall
    <3> QED  BY <3>2 DEF LookupLevel
  <2>2. CASE ~Exists(Prefix(h))
    BY <2>2 DEF LookupLevel, RInv, TInv, TTypeOK, Calls
  <2> QED  BY <2>1, <2>2
<1> QED  BY <1>1, LooksRecover DEF THandler

(* The new toggle is not deleted, and nothing is below it yet.               *)
LEMMA InsertLevelRecover ==
    ASSUME Serial, RInv, NEW h \in Handlers, NEW n \in Nodes, InsertLevel(h, n)
    PROVE  RInv'
<1>0. TInv /\ toggles \in [Nodes -> Toggles]  BY DEF RInv, TInv, TTypeOK
<1>1. TInv'  BY <1>0, InsertLevelInv
<1>2. ~Stored(n) /\ ~toggles'[n].deleted /\ \A x \in Nodes \ {n} : toggles'[x] = toggles[x]
  BY <1>0 DEF InsertLevel
<1>3. Unmoved  BY <1>2 DEF Unmoved
<1>4. ArchiveOK'  BY <1>1, <1>2, <1>3, ArchiveKept
<1>5. tf'[h].pc \in {"idle", "lookup"}
  BY DEF InsertLevel, Descend, Return, RInv, TInv, TTypeOK, Calls, NoCall
<1> QED  BY <1>4, <1>5, FreeRelies, RecoverParts DEF THandler

(* A switch begins.                                                          *)
LEMMA BeginUpdateRecover ==
    ASSUME Serial, RInv, NEW h \in Handlers, NEW op \in {"update", "bulk", "cascade"},
           NEW S \in (SUBSET Nodes) \ {{}}, NEW value \in BOOLEAN,
           BeginUpdate(h, op, S, value)
    PROVE  RInv'
<1>1. toggles' = toggles /\ tf'[h].pc = "read"
  BY DEF BeginUpdate, RInv, TInv, TTypeOK, NoCall
<1> QED  BY <1>1, LooksRecover DEF THandler

(* The row that will be saved carries the marks of the toggle.               *)
LEMMA ReadToggleRecover ==
    ASSUME Serial, RInv, NEW h \in Handlers, NEW n \in Nodes, ReadToggle(h, n)
    PROVE  RInv'
<1> DEFINE row == [toggles[n] EXCEPT !.enabled = tf[h].value]
<1>1. /\ toggles' = toggles /\ tf'[h].pc = "save" /\ tf'[h].node = n /\ tf'[h].row = row
  BY DEF ReadToggle, RInv, TInv, TTypeOK, Calls
<1>2. row.deleted = toggles[n].deleted /\ row.root = toggles[n].root
  BY DEF RInv, TInv, TTypeOK, Toggles
<1> HIDE DEF row
<1>3. Relies(h)'  BY <1>1, <1>2 DEF Relies
<1> QED  BY <1>1, <1>3, SameTable, RecoverParts DEF THandler

(* They are what is in the table when it is saved.                           *)
LEMMA SaveToggleRecover ==
    ASSUME Serial, RInv, NEW h \in Handlers, SaveToggle(h) PROVE RInv'
<1>0. TInv /\ toggles \in [Nodes -> Toggles]  BY DEF RInv, TInv, TTypeOK
<1>1. TInv'  BY <1>0, SaveToggleInv
<1>2. PICK n \in Nodes : n = tf[h].node /\ Stored(n)
  BY <1>0 DEF SaveToggle, TInv, FramesOK, FrameOK
<1>3. toggles' = [toggles EXCEPT ![n] = tf[h].row]  BY <1>2 DEF SaveToggle, Update
<1>4. /\ tf[h].row.path = toggles[n].path /\ tf[h].row.parent = toggles[n].parent
      /\ tf[h].row.deleted = toggles[n].deleted /\ tf[h].row.root = toggles[n].root
  BY <1>2 DEF SaveToggle, RInv, TInv, FramesOK, FrameOK, Relies
<1>5. \A x \in Nodes : /\ toggles'[x].path = toggles[x].path
                       /\ toggles'[x].parent = toggles[x].parent
                       /\ toggles'[x].deleted = toggles[x].deleted
                       /\ toggles'[x].root = toggles[x].root
  BY <1>0, <1>3, <1>4
<1>6. Unmoved  BY <1>5 DEF Unmoved
<1>7. ArchiveOK'  BY <1>1, <1>5, <1>6, ArchiveKept
<1>8. tf'[h].pc \in {"idle", "read"}
  BY DEF SaveToggle, Return, RInv, TInv, TTypeOK, Calls, NoCall
<1> QED  BY <1>7, <1>8, FreeRelies, RecoverParts DEF THandler

(* A deletion begins at a live toggle.                                       *)
LEMMA BeginDeleteRecover ==
    ASSUME Serial, RInv, NEW h \in Handlers, NEW n \in Nodes, BeginDelete(h, n)
    PROVE  RInv'
<1>1. /\ toggles' = toggles /\ tf'[h].pc = "mark" /\ tf'[h].op = "delete"
      /\ tf'[h].node = n /\ Live(n)
  BY DEF BeginDelete, RInv, TInv, TTypeOK, NoCall
<1>2. Relies(h)'  BY <1>1 DEF Relies, Live, Stored
<1> QED  BY <1>1, <1>2, SameTable, RecoverParts DEF THandler

(* A restoration begins at an archive root.                                  *)
LEMMA BeginRestoreRecover ==
    ASSUME Serial, RInv, NEW h \in Handlers, NEW n \in Nodes, BeginRestore(h, n)
    PROVE  RInv'
<1>1. /\ toggles' = toggles /\ tf'[h].pc = "check" /\ tf'[h].op = "restore"
      /\ tf'[h].node = n /\ Stored(n)
  BY DEF BeginRestore, RInv, TInv, TTypeOK, NoCall
<1>2. Relies(h)'  BY <1>1 DEF Relies, Stored
<1> QED  BY <1>1, <1>2, SameTable, RecoverParts DEF THandler

(* A handler that gives up, even in the middle of a walk.                    *)
LEMMA TFailRecover ==
    ASSUME Serial, RInv, NEW h \in Handlers, TFail(h) PROVE RInv'
<1>1. toggles' = toggles /\ tf'[h].pc = "idle"
  BY DEF TFail, Return, RInv, TInv, TTypeOK, NoCall
<1> QED  BY <1>1, LooksRecover DEF THandler

(* The walk of a deletion starts at the toggle that was marked.              *)
LEMMA MarkDeletionMetaRecover ==
    ASSUME Serial, RInv, NEW h \in Handlers, MarkDeletionMeta(h) PROVE RInv'
<1>0. TInv /\ toggles \in [Nodes -> Toggles]  BY DEF RInv, TInv, TTypeOK
<1>1. TInv'  BY <1>0, MarkDeletionMetaInv
<1>2. PICK n \in Nodes : n = tf[h].node /\ Live(n) /\ tf[h].op = "delete"
  BY <1>0 DEF MarkDeletionMeta, RInv, TInv, FramesOK, FrameOK, Relies
<1>3. toggles' = [toggles EXCEPT ![n].root = TRUE]  BY <1>2 DEF MarkDeletionMeta
<1>4. \A x \in Nodes : /\ toggles'[x].path = toggles[x].path
                       /\ toggles'[x].parent = toggles[x].parent
                       /\ toggles'[x].deleted = toggles[x].deleted
                       /\ toggles'[x].root = (x = n \/ toggles[x].root)
  BY <1>0, <1>3 DEF Toggles
<1>5. Unmoved  BY <1>4 DEF Unmoved
<1>6. ArchiveOK'  BY <1>1, <1>4, <1>5, ArchiveKept
<1>7. Stored(n) /\ Stored(n)' /\ toggles'[n].root  BY <1>2, <1>4 DEF Live, Stored
<1>8. Archived(n)'
  <2>1. n \in Kin(n)'  BY DEF Kin
  <2> QED  BY <1>7, <2>1 DEF Archived
<1>9. PICK kids \in SUBSET Nodes : kids = GetChildren(n)
  BY DEF GetChildren, GetChildrenUnscoped
<1>10. kids \subseteq GetChildrenUnscoped(n)'
  BY <1>4, <1>9 DEF GetChildren, GetChildrenUnscoped, Stored
<1>11. /\ tf'[h].pc = "walk" /\ tf'[h].op = "delete"
       /\ tf'[h].stack = <<[node |-> n, kids |-> kids]>>
  BY <1>2, <1>9 DEF MarkDeletionMeta, Enter, TInv, TTypeOK, Calls, RInv
<1>12. PICK s : s = <<[node |-> n, kids |-> kids]>>  OBVIOUS
<1>13. Len(s) = 1 /\ s[1].node = n /\ s[1].kids = kids  BY <1>12
<1>14. Entry("delete", s, 1)'
  BY <1>7, <1>8, <1>10, <1>13 DEF Entry
<1>15. \A i \in 1..Len(s) : i = 1  BY <1>13
<1>16. Relies(h)'  BY <1>11, <1>12, <1>14, <1>15 DEF Relies
<1> QED  BY <1>6, <1>16, RecoverParts DEF THandler

(* The walk of a restoration starts with all the children.                   *)
LEMMA CheckRestoreCollisionRecover ==
    ASSUME Serial, RInv, NEW h \in Handlers, NEW m \in Nodes, CheckRestoreCollision(h, m)
    PROVE  RInv'
<1>0. TInv  BY DEF RInv
<1>1. toggles' = toggles  BY DEF CheckRestoreCollision
<1>2. PICK n \in Nodes : n = tf[h].node /\ Stored(n) /\ tf[h].op = "restore"
  BY <1>0 DEF CheckRestoreCollision, RInv, TInv, FramesOK, FrameOK, Relies
<1>3. PICK kids \in SUBSET Nodes : kids = GetChildrenUnscoped(n)
  BY DEF GetChildrenUnscoped
<1>4. PICK s : s = <<[node |-> n, kids |-> kids]>>  OBVIOUS
<1>5. Len(s) = 1 /\ s[1].node = n /\ s[1].kids = kids  BY <1>4
<1>6. Entry("restore", s, 1)  BY <1>2, <1>3, <1>5 DEF Entry
<1>7. Entry("restore", s, 1)'  BY <1>1, <1>6, SameEntry
<1>8. tf'[h].op = "restore" /\ tf'[h].node = n
  BY <1>2 DEF CheckRestoreCollision, TInv, TTypeOK, Calls, RInv
<1>9. \/ tf'[h].pc = "check"
      \/ tf'[h].pc = "walk" /\ tf'[h].stack = s
  BY <1>2, <1>3, <1>4 DEF CheckRestoreCollision, Enter, TInv, TTypeOK, Calls, RInv
<1>10. Stored(n)'  BY <1>1, <1>2 DEF Stored
<1>11. \A i \in 1..Len(s) : i = 1  BY <1>5
<1>12. Relies(h)'  BY <1>7, <1>8, <1>9, <1>10, <1>11 DEF Relies
<1> QED  BY <1>1, <1>12, SameTable, RecoverParts DEF THandler

(* The stack of a walk.                                                      *)
LEMMA WalkStack ==
    ASSUME TInv, NEW h \in Handlers, tf[h].pc = "walk"
    PROVE  \E s \in Seq([node : Nodes, kids : SUBSET Nodes]) :
              /\ s = tf[h].stack /\ Len(s) \in Nat \ {0}
              /\ Top(h) = s[Len(s)] /\ Below(h) = SubSeq(s, 1, Len(s) - 1)
<1>1. tf[h].stack \in Seq([node : Nodes, kids : SUBSET Nodes]) /\ tf[h].stack # << >>
  BY DEF TInv, TTypeOK, Calls, FramesOK, FrameOK
<1>2. PICK s \in Seq([node : Nodes, kids : SUBSET Nodes]) : s = tf[h].stack  BY <1>1
<1>3. Len(s) \in Nat \ {0}
  <2>1. PICK T : T = [node : Nodes, kids : SUBSET Nodes]  OBVIOUS
  <2>2. s \in Seq(T) /\ s # << >>  BY <1>1, <1>2, <2>1
  <2> QED  BY <2>2
<1> QED  BY <1>2, <1>3 DEF Top, Below

(* A recursive call on the next child.                                       *)
LEMMA WalkDownRecover ==
    ASSUME Serial, RInv, NEW h \in Handlers, NEW c \in Nodes, WalkDown(h, c) PROVE RInv'
<1>0. TInv  BY DEF RInv
<1>1. toggles' = toggles /\ tf[h].pc = "walk"  BY DEF WalkDown
<1> DEFINE T == [node : Nodes, kids : SUBSET Nodes]
<1>2. PICK s \in Seq(T) :
        /\ s = tf[h].stack /\ Len(s) \in Nat \ {0}
        /\ Top(h) = s[Len(s)] /\ Below(h) = SubSeq(s, 1, Len(s) - 1)
  BY <1>0, <1>1, WalkStack
<1>3. PICK l \in Nat \ {0} : l = Len(s)  BY <1>2
<1>4. PICK op : op = tf[h].op  OBVIOUS
<1>5. s[l] \in T /\ c \in s[l].kids /\ \A i \in 1..l : Entry(op, s, i)
  <2>1. c \in s[l].kids  BY <1>2, <1>3 DEF WalkDown
  <2>2. \A i \in 1..l : Entry(op, s, i)  BY <1>1, <1>2, <1>3, <1>4 DEF RInv, Relies
  <2> HIDE DEF T
  <2>3. s[l] \in T  BY <1>2, <1>3
  <2> QED  BY <2>1, <2>2, <2>3
<1>6. PICK kids \in SUBSET Nodes :
        kids = IF op = "delete" THEN GetChildren(c) ELSE GetChildrenUnscoped(c)
  BY DEF GetChildren, GetChildrenUnscoped
<1>7. PICK e \in T : /\ e.node = s[l].node /\ e.kids = s[l].kids \ {c}
                     /\ e = Enter(s[l].node, s[l].kids \ {c})
  BY <1>5 DEF Enter
<1>8. PICK d \in T : d.node = c /\ d.kids = kids /\ d = Enter(c, kids)
  BY DEF Enter
<1>9. PICK t : t = Append(Append(SubSeq(s, 1, l - 1), e), d)  OBVIOUS
<1>10. tf'[h].pc = "walk" /\ tf'[h].op = op /\ tf'[h].stack = t
  <2>1. tf' = [tf EXCEPT ![h].stack = t]
    BY <1>2, <1>3, <1>4, <1>6, <1>7, <1>8, <1>9 DEF WalkDown
  <2> QED  BY <1>0, <1>1, <1>4, <2>1 DEF TInv, TTypeOK, Calls
<1>11. /\ Len(t) = l + 1 /\ t[l] = e /\ t[l + 1] = d
       /\ \A i \in 1..(l - 1) : t[i] = s[i]
  <2> HIDE DEF T
  <2>1. PICK b \in Seq(T) : /\ b = SubSeq(s, 1, l - 1) /\ Len(b) = l - 1
                            /\ \A i \in 1..(l - 1) : b[i] = s[i]
    <3>1. l - 1 \in 0..l  OBVIOUS
    <3>2. SubSeq(s, 1, l - 1) \in Seq(T) /\ Len(SubSeq(s, 1, l - 1)) = l - 1
      BY <1>2, <1>3, <3>1
    <3>3. \A i \in 1..(l - 1) : SubSeq(s, 1, l - 1)[i] = s[i]
      BY <1>2, <1>3, <3>1
    <3> QED  BY <3>2, <3>3
  <2>2. PICK a \in Seq(T) : /\ a = Append(b, e) /\ Len(a) = l /\ a[l] = e
                            /\ \A i \in 1..(l - 1) : a[i] = s[i]
    <3>1. Append(b, e) \in Seq(T) /\ Len(Append(b, e)) = l  BY <1>7, <2>1
    <3>2. Append(b, e)[l] = e  BY <1>7, <2>1
    <3>3. \A i \in 1..(l - 1) : Append(b, e)[i] = b[i]  BY <1>7, <2>1
    <3> QED  BY <2>1, <3>1, <3>2, <3>3
  <2>3. t = Append(a, d)  BY <1>9, <2>1, <2>2
  <2> QED  BY <2>2, <2>3
<1> HIDE DEF T
<1>12. ASSUME NEW i \in 1..(l - 1) PROVE Entry(op, t, i)
  <2>1. i \in 1..l /\ i < l /\ i < Len(t) /\ t[i] = s[i]  BY <1>11
  <2>2. t[i + 1].node = s[i + 1].node
    <3>1. CASE i + 1 = l  BY <1>7, <1>11, <3>1
    <3>2. CASE i + 1 # l
      <4>1. i + 1 \in 1..(l - 1)  BY <3>2
      <4> QED  BY <1>11, <4>1
    <3> QED  BY <3>1, <3>2
  <2> QED  BY <1>3, <1>5, <2>1, <2>2 DEF Entry
<1>13. Entry(op, s, l)  BY <1>5
<1>14. Entry(op, t, l)
  <2>1. l < Len(t) /\ ~(l < Len(s)) /\ t[l + 1].node = c  BY <1>3, <1>8, <1>11
  <2> QED  BY <1>7, <1>11, <1>13, <2>1 DEF Entry
<1>15. Entry(op, t, l + 1)
  <2>1. c \in GetChildrenUnscoped(s[l].node) /\ s[l].node \in Nodes  BY <1>5, <1>13 DEF Entry
  <2>2. Stored(c) /\ (op = "delete" => Archived(c))
    BY <1>0, <1>13, <2>1, ArchivedBelow DEF Entry, GetChildrenUnscoped
  <2>3. /\ kids \subseteq GetChildrenUnscoped(c)
        /\ op # "delete" => kids = GetChildrenUnscoped(c)
    BY <1>6 DEF GetChildren
  <2> QED  BY <1>8, <1>11, <2>2, <2>3 DEF Entry
<1>16. ASSUME NEW i \in 1..Len(t) PROVE Entry(op, t, i)
  <2>1. i \in 1..(l - 1) \/ i = l \/ i = l + 1  BY <1>11
  <2> QED  BY <1>12, <1>14, <1>15, <2>1
<1>17. \A i \in 1..Len(t) : Entry(op, t, i)'  BY <1>1, <1>16, SameEntry
<1>18. Relies(h)'  BY <1>10, <1>17 DEF Relies
<1> QED  BY <1>1, <1>18, SameTable, RecoverParts DEF THandler

(* A toggle whose children are clean is restored: nothing below it is        *)
(* deleted, so its mark is no longer needed.                                 *)
LEMMA RestoreOne ==
    ASSUME RInv, TInv', NEW n \in Nodes, Stored(n),
           \A c \in GetChildrenUnscoped(n) : Clean(c),
           \A x \in Nodes : /\ toggles'[x].path = toggles[x].path
                            /\ toggles'[x].parent = toggles[x].parent,
           ~toggles'[n].deleted,
           \A x \in Nodes \ {n} : toggles'[x] = toggles[x]
    PROVE  ArchiveOK' /\ Clean(n)' /\ \A x \in Nodes : Clean(x) => Clean(x)'
<1>0. TInv /\ ArchiveOK /\ Unmoved  BY DEF RInv, Unmoved
<1>1. \A x \in Nodes : Stored(x)' <=> Stored(x)  BY DEF Stored
<1>2. \A x \in Nodes : Stored(x) => Kin(x)' = Kin(x)  BY <1>0, KinKept
<1>3. ASSUME NEW x \in Nodes, Stored(x), n \in Kin(x) PROVE ~toggles'[x].deleted
  <2>1. CASE x = n  BY <2>1
  <2>2. CASE x # n
    <3>1. PICK c \in GetChildrenUnscoped(n) : c \in Kin(x)
      BY <1>0, <1>3, <2>2, ThroughChild
    <3>2. ~toggles[x].deleted  BY <1>3, <3>1 DEF Clean
    <3> QED  BY <2>2, <3>2
  <2> QED  BY <2>1, <2>2
<1>4. Clean(n)'  BY <1>1, <1>2, <1>3 DEF Clean
<1>5. ASSUME NEW y \in Nodes, Clean(y) PROVE Clean(y)'
  <2>1. ASSUME NEW x \in Nodes, Stored(x), y \in Kin(x) PROVE ~toggles'[x].deleted
    BY <1>5, <2>1 DEF Clean
  <2> QED  BY <1>1, <1>2, <2>1 DEF Clean
<1>6. ASSUME NEW x \in Nodes, toggles'[x].deleted PROVE Stored(x)' /\ Archived(x)'
  <2>1. x # n /\ toggles[x].deleted  BY <1>6
  <2>2. Stored(x) /\ Archived(x)  BY <1>0, <2>1 DEF ArchiveOK
  <2>3. PICK k \in Kin(x) : toggles[k].root  BY <2>2 DEF Archived
  <2>4. k \in Nodes /\ k # n  BY <1>3, <1>6, <2>2 DEF Kin
  <2>5. k \in Kin(x)' /\ toggles'[k].root  BY <1>2, <2>2, <2>3, <2>4
  <2> QED  BY <1>1, <2>2, <2>5 DEF Archived
<1> QED  BY <1>4, <1>5, <1>6 DEF ArchiveOK

(* The end of a recursive call.                                              *)
LEMMA WalkUpRecover ==
    ASSUME Serial, RInv, NEW h \in Handlers, WalkUp(h) PROVE RInv'
<1>0. TInv /\ toggles \in [Nodes -> Toggles]  BY DEF RInv, TInv, TTypeOK
<1>1. TInv' /\ tf[h].pc = "walk"  BY <1>0, WalkUpInv DEF WalkUp
<1> DEFINE T == [node : Nodes, kids : SUBSET Nodes]
<1>2. PICK s \in Seq(T) :
        /\ s = tf[h].stack /\ Len(s) \in Nat \ {0}
        /\ Top(h) = s[Len(s)] /\ Below(h) = SubSeq(s, 1, Len(s) - 1)
  BY <1>0, <1>1, WalkStack
<1>3. PICK l \in Nat \ {0} : l = Len(s)  BY <1>2
<1>4. PICK op : op = tf[h].op  OBVIOUS
<1>5. \A i \in 1..l : Entry(op, s, i)  BY <1>1, <1>2, <1>3, <1>4 DEF RInv, Relies
<1>6. l \in 1..l /\ Entry(op, s, l)  BY <1>5
<1>7. PICK n \in Nodes : n = s[l].node /\ Stored(n)  BY <1>6 DEF Entry
<1>8. s[l].kids = {} /\ n = Top(h).node  BY <1>2, <1>3, <1>7 DEF WalkUp
<1>9. PICK t \in Seq(T) : /\ t = Below(h) /\ Len(t) = l - 1
                          /\ \A i \in 1..(l - 1) : t[i] = s[i]
  <2> HIDE DEF T
  <2>1. l - 1 \in 0..l  OBVIOUS
  <2>2. SubSeq(s, 1, l - 1) \in Seq(T) /\ Len(SubSeq(s, 1, l - 1)) = l - 1
    BY <1>2, <1>3, <2>1
  <2>3. \A i \in 1..(l - 1) : SubSeq(s, 1, l - 1)[i] = s[i]
    BY <1>2, <1>3, <2>1
  <2> QED  BY <1>2, <1>3, <2>2, <2>3
<1> HIDE DEF T
<1>10. \/ tf'[h].pc = "idle"
       \/ tf'[h].pc = "walk" /\ tf'[h].op = op /\ tf'[h].stack = t
  <2>1. \/ tf' = [tf EXCEPT ![h] = NoCall]
        \/ tf' = [tf EXCEPT ![h].stack = t]
    BY <1>9 DEF WalkUp, Return
  <2>2. tf \in [Handlers -> Calls]  BY <1>0 DEF TInv, TTypeOK
  <2>3. CASE tf' = [tf EXCEPT ![h] = NoCall]  BY <2>2, <2>3 DEF NoCall
  <2>4. CASE tf' = [tf EXCEPT ![h].stack = t]
    BY <1>1, <1>4, <2>2, <2>4 DEF Calls
  <2> QED  BY <2>1, <2>3, <2>4
<1>11. ASSUME ArchiveOK', \A i \in 1..(l - 1) : Entry(op, t, i)'
       PROVE  RInv'
  <2>1. Relies(h)'  BY <1>9, <1>10, <1>11 DEF Relies
  <2> QED  BY <1>11, <2>1, RecoverParts DEF THandler
<1>12. ASSUME NEW i \in 1..(l - 1)
       PROVE  /\ i \in 1..l /\ t[i] = s[i]
              /\ i < Len(t) \/ s[i + 1].node = n
              /\ i < Len(t) => t[i + 1] = s[i + 1]
  <2>1. i \in 1..l /\ t[i] = s[i]  BY <1>9
  <2>2. CASE i + 1 = l  BY <1>7, <1>9, <2>1, <2>2
  <2>3. CASE i + 1 # l
    <3>1. i < Len(t) /\ i + 1 \in 1..(l - 1)  BY <1>9, <2>3
    <3> QED  BY <1>9, <2>1, <3>1
  <2> QED  BY <2>2, <2>3
<1>13. CASE op = "delete"
  <2>1. toggles' = [toggles EXCEPT ![n].deleted = TRUE]
    BY <1>4, <1>8, <1>13 DEF WalkUp
  <2>2. \A x \in Nodes : /\ toggles'[x].path = toggles[x].path
                         /\ toggles'[x].parent = toggles[x].parent
                         /\ toggles'[x].root = toggles[x].root
                         /\ x # n => toggles'[x].deleted = toggles[x].deleted
    BY <1>0, <2>1 DEF Toggles
  <2>3. Archived(n)  BY <1>6, <1>7, <1>13 DEF Entry
  <2>4. Unmoved  BY <2>2 DEF Unmoved
  <2>5. /\ ArchiveOK'
        /\ \A x \in Nodes : Stored(x) /\ Archived(x) => Archived(x)'
    BY <1>1, <1>7, <2>2, <2>3, <2>4, ArchiveKept
  <2>6. ASSUME NEW i \in 1..(l - 1) PROVE Entry(op, t, i)'
    <3>1. Entry(op, s, i) /\ t[i] = s[i]  BY <1>5, <1>12
    <3>2. PICK m \in Nodes : m = s[i].node  BY <3>1 DEF Entry
    <3>3. Stored(m) /\ Archived(m) /\ s[i].kids \subseteq GetChildrenUnscoped(m)
      BY <1>13, <3>1, <3>2 DEF Entry
    <3>4. Stored(m)' /\ Archived(m)' /\ GetChildrenUnscoped(m)' = GetChildrenUnscoped(m)
      BY <2>2, <2>5, <3>3 DEF Stored, GetChildrenUnscoped
    <3> QED  BY <1>13, <3>1, <3>2, <3>3, <3>4 DEF Entry
  <2> QED  BY <1>11, <2>5, <2>6
<1>14. CASE op # "delete"
  <2>1. toggles' = [toggles EXCEPT ![n].deleted = FALSE, ![n].root = FALSE]
    BY <1>4, <1>8, <1>14 DEF WalkUp
  <2>2. /\ \A x \in Nodes : /\ toggles'[x].path = toggles[x].path
                            /\ toggles'[x].parent = toggles[x].parent
        /\ ~toggles'[n].deleted
        /\ \A x \in Nodes \ {n} : toggles'[x] = toggles[x]
    BY <1>0, <2>1 DEF Toggles
  <2>3. \A c \in GetChildrenUnscoped(n) : Clean(c)
    <3>1. ~(l < Len(s))  BY <1>3
    <3> QED  BY <1>6, <1>7, <1>8, <1>14, <3>1 DEF Entry
  <2>4. ArchiveOK' /\ Clean(n)' /\ \A x \in Nodes : Clean(x) => Clean(x)'
    BY <1>1, <1>7, <2>2, <2>3, RestoreOne
  <2>5. ASSUME NEW i \in 1..(l - 1) PROVE Entry(op, t, i)'
    <3>1. Entry(op, s, i) /\ t[i] = s[i]  BY <1>5, <1>12
    <3>2. PICK m \in Nodes : m = s[i].node  BY <3>1 DEF Entry
    <3>3. Stored(m) /\ s[i].kids \subseteq GetChildrenUnscoped(m)
      BY <3>1, <3>2 DEF Entry
    <3>4. Stored(m)' /\ GetChildrenUnscoped(m)' = GetChildrenUnscoped(m)
      BY <2>2, <3>3 DEF Stored, GetChildrenUnscoped
    <3>5. ASSUME NEW c \in GetChildrenUnscoped(m)
          PROVE  c \in t[i].kids \/ (i < Len(t) /\ c = t[i + 1].node) \/ Clean(c)'
      <4>1. c \in Nodes  BY DEF GetChildrenUnscoped
      <4>2. c \in s[i].kids \/ c = s[i + 1].node \/ Clean(c)
        BY <1>14, <3>1, <3>2 DEF Entry
      <4>3. CASE c = s[i + 1].node
        BY <1>12, <2>4, <4>3
      <4> QED  BY <2>4, <3>1, <4>1, <4>2, <4>3
    <3> QED  BY <1>14, <3>1, <3>2, <3>3, <3>4, <3>5 DEF Entry
  <2> QED  BY <1>11, <2>4, <2>5
<1> QED  BY <1>13, <1>14

-----------------------------------------------------------------------------
(* The initial table is empty.                                               *)
LEMMA RInitInv == ASSUME TInit PROVE RInv
<1>1. TInv  BY TInitInv
<1>2. ArchiveOK  BY DEF TInit, ArchiveOK, NoToggle
<1>3. \A h \in Handlers : Relies(h)  BY DEF TInit, Relies, NoCall
<1> QED  BY <1>1, <1>2, <1>3 DEF RInv

(* The invariant of requests served one after the other is inductive.        *)
LEMMA RNextInv == ASSUME Serial PROVE RInv /\ [TNext]_tvars => RInv'
<1> SUFFICES ASSUME RInv, [TNext]_tvars PROVE RInv'
  OBVIOUS
<1>1. ASSUME NEW h \in Handlers, THandler(h) PROVE RInv'
  BY <1>1, BeginCreateRecover, LookupLevelRecover, InsertLevelRecover, BeginUpdateRecover,
     ReadToggleRecover, SaveToggleRecover, BeginDeleteRecover, MarkDeletionMetaRecover,
     WalkDownRecover, WalkUpRecover, BeginRestoreRecover, CheckRestoreCollisionRecover,
     TFailRecover DEF THandler
<1>2. CASE UNCHANGED tvars
  <2>1. toggles' = toggles /\ tf' = tf  BY <1>2 DEF tvars
  <2>2. TInv'  BY TNextInv DEF RInv
  <2>3. ArchiveOK'  BY <2>1, SameTable
  <2>4. ASSUME NEW h \in Handlers PROVE Relies(h)'
    <3>1. Relies(h)  BY DEF RInv
    <3>2. PICK f : f = tf[h]  OBVIOUS
    <3>3. f.pc = "walk" => \A i \in 1..Len(f.stack) : Entry(f.op, f.stack, i)'
      BY <2>1, <3>1, <3>2, SameEntry DEF Relies
    <3> QED  BY <2>1, <3>1, <3>2, <3>3 DEF Relies, Live, Stored
  <2> QED  BY <2>2, <2>3, <2>4 DEF RInv
<1> QED  BY <1>1, <1>2 DEF TNext

(* When requests are served one after the other, every deleted toggle or one *)
(* above it is the root of an archived deletion, also after deletions and    *)
(* restorations that failed half way, at any depth.                          *)
THEOREM SerialRecoverable == ASSUME Serial PROVE TSpec => []Recoverable
<1>1. TInit => RInv  BY RInitInv
<1>2. RInv /\ [TNext]_tvars => RInv'  BY RNextInv
<1>3. RInv => Recoverable  BY ArchiveMeans DEF RInv
<1> QED  BY <1>1, <1>2, <1>3, PTL DEF TSpec
=============================================================================
