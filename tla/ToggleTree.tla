------------------------------ MODULE ToggleTree ------------------------------
(***************************************************************************)
(* The toggles of one application (usecase/toggle_usecase.go and           *)
(* database/toggle_repository.go): a forest whose nodes are created level  *)
(* by level from a dotted path, switched alone, in bulk or with all their  *)
(* descendants, soft-deleted as a subtree and restored from the archive.   *)
(*                                                                         *)
(* No operation opens a transaction and the table has no unique index on   *)
(* (app_id, path), so each operation is a sequence of database steps that  *)
(* interleaves with those of the other handlers; tf[h] is the call stack   *)
(* of handler h.  Queries without ORDER BY return rows in any order.       *)
(***************************************************************************)
EXTENDS Naturals, Sequences, FiniteSets

CONSTANTS Handlers,   \* goroutines serving requests
          Nodes,      \* toggle identifiers (ULIDs, never reused)
          Names,      \* the parts of a dotted path
          Paths,      \* the dotted paths, as sequences of names
          NoNode

(* Paths is closed under ParseTogglePath: with a path come its prefixes.    *)
ASSUME ToggleTreeAssumption ==
    /\ NoNode \notin Nodes
    /\ Paths \subseteq Seq(Names) \ {<< >>}
    /\ \A p \in Paths : \A i \in 1..Len(p) : SubSeq(p, 1, i) \in Paths

VARIABLES toggles,   \* table toggles
          tf         \* what each handler holds between two database steps

tvars == <<toggles, tf>>

NoPath == << >>
NoToggle == [path |-> NoPath, parent |-> NoNode, enabled |-> FALSE,
             deleted |-> FALSE, root |-> FALSE]
Toggles == [path : Paths \cup {NoPath}, parent : Nodes \cup {NoNode},
            enabled : BOOLEAN, deleted : BOOLEAN, root : BOOLEAN]
NoCall == [pc |-> "idle", op |-> "none", path |-> NoPath, level |-> 1,
           node |-> NoNode, value |-> FALSE, row |-> NoToggle,
           todo |-> {}, stack |-> << >>]
Calls == [pc : {"idle", "lookup", "insert", "read", "save", "mark", "check", "walk"},
          op : {"none", "create", "update", "bulk", "cascade", "delete", "restore"},
          path : Paths \cup {NoPath}, level : Nat \ {0},
          node : Nodes \cup {NoNode}, value : BOOLEAN, row : Toggles,
          todo : SUBSET Nodes,
          stack : Seq([node : Nodes, kids : SUBSET Nodes])]

TTypeOK ==
    /\ toggles \in [Nodes -> Toggles]
    /\ tf \in [Handlers -> Calls]

TInit ==
    /\ toggles = [n \in Nodes |-> NoToggle]
    /\ tf = [h \in Handlers |-> NoCall]

-----------------------------------------------------------------------------
(* The repository *)

Stored(n) == toggles[n].path # NoPath
Live(n) == Stored(n) /\ ~toggles[n].deleted
GetByPath(p) == {n \in Nodes : Live(n) /\ toggles[n].path = p}
Exists(p) == GetByPath(p) # {}
GetChildrenUnscoped(n) == {m \in Nodes : Stored(m) /\ toggles[m].parent = n}
(* Mistake: the parent is taken for one of the children.                    *)
GetRelatives(n) == {m \in GetChildrenUnscoped(n) : Live(m)} \cup {toggles[n].parent}

GetChildren(n) == {m \in GetChildrenUnscoped(n) : Live(m)}

(* gorm's Save: all columns of the struct, deleted_at included, so a toggle *)
(* read before its deletion is live again after it.                         *)
Update(n, row) == toggles' = [toggles EXCEPT ![n] = row]

Return(h) == tf' = [tf EXCEPT ![h] = NoCall]
TIdle(h) == tf[h].pc = "idle"

-----------------------------------------------------------------------------
(* CreateToggle and createToggleHierarchy *)

BeginCreate(h, p) ==
    /\ TIdle(h)
    /\ ~Exists(p)
    /\ tf' = [tf EXCEPT ![h] = [NoCall EXCEPT !.pc = "lookup", !.op = "create",
                                              !.path = p]]
    /\ toggles' = toggles

Prefix(h) == SubSeq(tf[h].path, 1, tf[h].level)
LastLevel(h) == tf[h].level = Len(tf[h].path)

(* Mistake: the next level forgets its parent.                              *)
DescendDetached(h, n) ==
    IF LastLevel(h) THEN Return(h)
    ELSE tf' = [tf EXCEPT ![h].pc = "lookup", ![h].level = @ + 1]

(* n is the toggle of the current level: go one level down below it.        *)
Descend(h, n) ==
    IF LastLevel(h) THEN Return(h)
    ELSE tf' = [tf EXCEPT ![h].pc = "lookup", ![h].node = n, ![h].level = @ + 1]

LookupLevel(h) ==
    /\ tf[h].pc = "lookup"
    /\ IF Exists(Prefix(h))
         THEN \E n \in GetByPath(Prefix(h)) : Descend(h, n)
         ELSE tf' = [tf EXCEPT ![h].pc = "insert"]
    /\ toggles' = toggles

(* Every level is inserted enabled, also when an approved creation asks for *)
(* a disabled toggle: the column has default:true, and gorm's Create takes  *)
(* the default for a false.                                                 *)
InsertLevel(h, n) ==
    /\ tf[h].pc = "insert"
    /\ ~Stored(n)
    /\ toggles' = [toggles EXCEPT ![n] =
          [path |-> Prefix(h), parent |-> tf[h].node, enabled |-> TRUE,
           deleted |-> FALSE, root |-> FALSE]]
    /\ Descend(h, n)

-----------------------------------------------------------------------------
(* UpdateToggle, UpdateToggleByID and UpdateToggleWithRule switch one       *)
(* toggle, BulkUpdateEnabled each of a list, UpdateEnabledRecursively a     *)
(* toggle and then, one by one, its children.                               *)

BeginUpdate(h, op, S, value) ==
    /\ TIdle(h)
    /\ \A n \in S : Stored(n)
    /\ op # "bulk" => Cardinality(S) = 1
    /\ tf' = [tf EXCEPT ![h] = [NoCall EXCEPT !.pc = "read", !.op = op,
                                              !.todo = S, !.value = value]]
    /\ toggles' = toggles

ReadToggle(h, n) ==
    /\ tf[h].pc = "read" /\ n \in tf[h].todo
    /\ Live(n)
    /\ tf' = [tf EXCEPT ![h].pc = "save", ![h].node = n,
                        ![h].row = [toggles[n] EXCEPT !.enabled = tf[h].value]]
    /\ toggles' = toggles

SaveToggle(h) ==
    LET n == tf[h].node
        rest == (tf[h].todo \ {n}) \cup
                (IF tf[h].op = "cascade" THEN GetChildren(n) ELSE {})
    IN  /\ tf[h].pc = "save"
        /\ Update(n, tf[h].row)
        /\ IF rest = {} THEN Return(h)
           ELSE tf' = [tf EXCEPT ![h].pc = "read", ![h].todo = rest]

-----------------------------------------------------------------------------
(* DeleteToggleByID: mark the archive root, then delete children first.     *)

Enter(n, kids) == [node |-> n, kids |-> kids]
Top(h) == tf[h].stack[Len(tf[h].stack)]
Below(h) == SubSeq(tf[h].stack, 1, Len(tf[h].stack) - 1)

BeginDelete(h, n) ==
    /\ TIdle(h)
    /\ Live(n)
    /\ tf' = [tf EXCEPT ![h] = [NoCall EXCEPT !.pc = "mark", !.op = "delete", !.node = n]]
    /\ toggles' = toggles

(* Mistake: the archive root is not marked.                                 *)
DeleteUnmarked(h) ==
    /\ tf[h].pc = "mark"
    /\ tf' = [tf EXCEPT ![h].pc = "walk",
                        ![h].stack = <<Enter(tf[h].node, GetChildren(tf[h].node))>>]
    /\ toggles' = toggles

MarkDeletionMeta(h) ==
    LET n == tf[h].node
    IN  /\ tf[h].pc = "mark"
        /\ toggles' = IF Live(n) THEN [toggles EXCEPT ![n].root = TRUE] ELSE toggles
        /\ tf' = [tf EXCEPT ![h].pc = "walk", ![h].stack = <<Enter(n, GetChildren(n))>>]

(* One recursive call of the repository's Delete or Restore.                *)
WalkDown(h, c) ==
    /\ tf[h].pc = "walk" /\ c \in Top(h).kids
    /\ LET kids == IF tf[h].op = "delete" THEN GetChildren(c) ELSE GetChildrenUnscoped(c)
       IN  tf' = [tf EXCEPT ![h].stack =
              Append(Append(Below(h), Enter(Top(h).node, Top(h).kids \ {c})), Enter(c, kids))]
    /\ toggles' = toggles

(* The end of that call: the statement on the node itself.                  *)
WalkUp(h) ==
    LET n == Top(h).node
    IN  /\ tf[h].pc = "walk" /\ Top(h).kids = {}
        /\ toggles' = IF tf[h].op = "delete"
                        THEN [toggles EXCEPT ![n].deleted = TRUE]
                        ELSE [toggles EXCEPT ![n].deleted = FALSE, ![n].root = FALSE]
        /\ IF Below(h) = << >> THEN Return(h)
           ELSE tf' = [tf EXCEPT ![h].stack = Below(h)]

-----------------------------------------------------------------------------
(* RestoreToggle: checkRestoreCollision over the whole subtree, then the    *)
(* repository's Restore over it.                                            *)

BeginRestore(h, n) ==
    /\ TIdle(h)
    /\ Stored(n) /\ toggles[n].root
    /\ tf' = [tf EXCEPT ![h] = [NoCall EXCEPT !.pc = "check", !.op = "restore",
                                              !.node = n, !.todo = {n}]]
    /\ toggles' = toggles

CheckRestoreCollision(h, n) ==
    LET rest == (tf[h].todo \ {n}) \cup GetChildrenUnscoped(n)
    IN  /\ tf[h].pc = "check" /\ n \in tf[h].todo
        /\ ~Exists(toggles[n].path)
        /\ tf' = IF rest # {} THEN [tf EXCEPT ![h].todo = rest]
                 ELSE [tf EXCEPT ![h].pc = "walk", ![h].todo = {}, ![h].stack =
                         <<Enter(tf[h].node, GetChildrenUnscoped(tf[h].node))>>]
        /\ toggles' = toggles

(* A refusal, a database error or the end of the process: what was written  *)
(* before stays written.                                                    *)
TFail(h) == ~TIdle(h) /\ Return(h) /\ toggles' = toggles

-----------------------------------------------------------------------------
(* Three readers of the table *)

(* Mistake: a parent that is not found does not count.                      *)
IsToggleEnabledOrphaned ==
    LET on[n \in Nodes] ==
          /\ toggles[n].enabled
          /\ toggles[n].parent # NoNode /\ Live(toggles[n].parent) => on[toggles[n].parent]
    IN  on

(* isToggleEnabled: the own bit and, up the parent identifiers, every       *)
(* ancestor's; a parent that GetByID does not find means off.               *)
IsToggleEnabled ==
    LET on[n \in Nodes] ==
          /\ toggles[n].enabled
          /\ toggles[n].parent # NoNode =>
                Live(toggles[n].parent) /\ on[toggles[n].parent]
    IN  on

(* buildHierarchyArray, the admin's tree: level by level from the roots,    *)
(* each node with its effective state.                                      *)
AtLevel(l) == {n \in Nodes : Live(n) /\ Len(toggles[n].path) = l}
MaxLevel == CHOOSE l \in {Len(p) : p \in Paths} : \A p \in Paths : Len(p) <= l
BuildHierarchy ==
    LET shown[l \in 1..MaxLevel] ==
          IF l = 1 THEN {<<n, toggles[n].enabled>> : n \in AtLevel(1)}
          ELSE UNION {{<<n, toggles[n].enabled /\ up[2]>> :
                         n \in {c \in AtLevel(l) : toggles[c].parent = up[1]}} :
                       up \in shown[l - 1]}
    IN  UNION {shown[l] : l \in 1..MaxLevel}

(* The Go client on the flat catalogue of GET /api/toggles: ancestors are   *)
(* found by path, and one that is missing does not count.                   *)
On(p) == \E n \in GetByPath(p) : toggles[n].enabled
SdkActive(p) ==
    /\ On(p)
    /\ \A i \in 1..(Len(p) - 1) : Exists(SubSeq(p, 1, i)) => On(SubSeq(p, 1, i))

-----------------------------------------------------------------------------
THandler(h) ==
    \/ \E p \in Paths : BeginCreate(h, p)
    \/ LookupLevel(h)
    \/ \E n \in Nodes : InsertLevel(h, n)
    \/ \E op \in {"update", "bulk", "cascade"}, S \in (SUBSET Nodes) \ {{}},
          value \in BOOLEAN : BeginUpdate(h, op, S, value)
    \/ \E n \in Nodes : ReadToggle(h, n)
    \/ SaveToggle(h)
    \/ \E n \in Nodes : BeginDelete(h, n)
    \/ MarkDeletionMeta(h)
    \/ \E n \in Nodes : WalkDown(h, n)
    \/ WalkUp(h)
    \/ \E n \in Nodes : BeginRestore(h, n)
    \/ \E n \in Nodes : CheckRestoreCollision(h, n)
    \/ TFail(h)

TNext == \E h \in Handlers : THandler(h)

TSpec == TInit /\ [][TNext]_tvars

-----------------------------------------------------------------------------
(* The path of a toggle is the path of its parent and one more name, also   *)
(* for toggles created while an ancestor was deleted, restored or created   *)
(* again: BuildHierarchy finds children by level and parent together.       *)
PathExtendsParent ==
    \A n \in Nodes : Stored(n) =>
        LET p == toggles[n].path
        IN  IF Len(p) = 1 THEN toggles[n].parent = NoNode
            ELSE /\ toggles[n].parent \in Nodes
                 /\ toggles[toggles[n].parent].path = SubSeq(p, 1, Len(p) - 1)

(* The chain of parents of n, n included.                                   *)
Lineage(n) ==
    LET up[m \in Nodes] ==
          {m} \cup (IF toggles[m].parent = NoNode THEN {} ELSE up[toggles[m].parent])
    IN  up[n]

(* Nothing deleted is lost: a soft-deleted toggle or one of its ancestors   *)
(* is marked as the root of an archived deletion, whatever sequence of      *)
(* deletions, restorations, re-creations and failed operations came before. *)
Recoverable ==
    \A n \in Nodes : toggles[n].deleted => \E m \in Lineage(n) : toggles[m].root

(* The server's own evaluation and the admin's tree agree on every live     *)
(* toggle, and so does the client's, which goes by path and not by parent,  *)
(* as long as paths are unique and no toggle is live below a deleted one.   *)
UniqueLivePath ==
    \A m, n \in Nodes : Live(m) /\ Live(n) /\ toggles[m].path = toggles[n].path => m = n
NoOrphan == \A n \in Nodes : Live(n) /\ toggles[n].parent # NoNode => Live(toggles[n].parent)
EvaluatorsAgree ==
    \A n \in Nodes : Live(n) =>
        /\ IsToggleEnabled[n] <=> <<n, TRUE>> \in BuildHierarchy
        /\ UniqueLivePath /\ NoOrphan =>
              (SdkActive(toggles[n].path) <=> IsToggleEnabled[n])
=============================================================================
