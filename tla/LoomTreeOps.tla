---------------------------- MODULE LoomTreeOps ----------------------------
(***************************************************************************)
(* The conversation tree as a value: what drowse/loom/tree.py stores, how  *)
(* its mutators change it, what its loader accepts, the `tree_mutated`     *)
(* frame of a mutation, and how the dashboard applies such a frame         *)
(* (webui/src/lib/stores/loom.svelte.ts).                                  *)
(*                                                                         *)
(* A tree is the record to_dict writes.  A node keeps its parent, seat,    *)
(* text (a sequence of words) and whether it carries a generation receipt. *)
(* Labels, token rows, readings, notes and stars are left out; sibling     *)
(* order is kept.                                                          *)
(***************************************************************************)
EXTENDS Integers, Sequences, FiniteSets, SequencesExt

CONSTANTS Ids, Words, None

Seats == {"user", "assistant"}

Node(p, s, t, g) == [parent |-> p, seat |-> s, text |-> t, gen |-> g]

Live(T) == DOMAIN T.nodes

\* The nodes n leads to by repeated steps, n included.
Closure(step, n) ==
  {m \in DOMAIN step : \A S \in SUBSET DOMAIN step :
     n \in S /\ (\A x \in S : step[x] \subseteq S) => m \in S}

\* n and its ancestors, along parent_id.
Above(T, n) ==
  Closure([x \in Live(T) |-> {T.nodes[x].parent} \ {None}], n)

\* The subtree of n, along children_of.
Below(T, n) == Closure([x \in Live(T) |-> ToSet(T.kids[x])], n)

---------------------------------------------------------------------------
(* Mutators, without the revision.                                         *)

FreshTree(id) ==
  [nodes |-> [x \in {id} |-> Node(None, "system", <<>>, FALSE)],
   kids |-> [x \in {id} |-> <<>>], root |-> id, active |-> id, rev |-> 0]

\* _add_child
WithChild(T, id, node) ==
  [T EXCEPT
     !.nodes = [x \in Live(T) \cup {id} |-> IF x = id THEN node ELSE T.nodes[x]],
     !.kids = [x \in Live(T) \cup {id} |->
                 IF x = id THEN <<>>
                 ELSE IF x = node.parent THEN Append(T.kids[x], id)
                 ELSE T.kids[x]]]

WithNode(T, n, node) == [T EXCEPT !.nodes[n] = node]

WithActive(T, n) == [T EXCEPT !.active = n]

\* A list of children, none twice, without the child c.
Less(list, c) ==
  IF c \in ToSet(list) THEN RemoveAt(list, CHOOSE i \in DOMAIN list : list[i] = c)
                       ELSE list

\* delete_subtree: the active pointer falls back to the parent.
Without(T, n) ==
  LET gone == Below(T, n)
      p == T.nodes[n].parent
  IN  [T EXCEPT
         !.nodes = [x \in Live(T) \ gone |-> T.nodes[x]],
         !.kids = [x \in Live(T) \ gone |-> IF x = p THEN Less(T.kids[x], n)
                                                    ELSE T.kids[x]],
         !.active = IF @ \in gone THEN p ELSE @]

\* The user child add_user_turn finds again instead of growing the tree.
SameUserTurns(T, p, t) ==
  {c \in ToSet(T.kids[p]) : T.nodes[c].seat = "user" /\ T.nodes[c].text = t}

\* What from_dict accepts: _validate_structure.
ValidTree(T) ==
  /\ DOMAIN T.kids = Live(T)
  /\ T.root \in Live(T) /\ T.active \in Live(T)
  /\ T.nodes[T.root].parent = None /\ T.nodes[T.root].seat = "system"
  /\ \A p \in Live(T) : IsInjective(T.kids[p])
  /\ \A p \in Live(T) : \A c \in ToSet(T.kids[p]) :
       c \in Live(T) /\ T.nodes[c].parent = p
  /\ UNION {ToSet(T.kids[p]) : p \in Live(T)} = Live(T) \ {T.root}
  /\ Below(T, T.root) = Live(T)

---------------------------------------------------------------------------
(* The frame of a mutation and its application.                            *)

\* node_json: the node and its children, as they are when the event is emitted.
Detail(T, n) == [id |-> n, node |-> T.nodes[n], kids |-> T.kids[n]]

\* LoomMutated with the payload _on_loom_event puts into it; active is None
\* when the mutator leaves the pointer alone.
Frame(T, op, added, removed, updated, active) ==
  [op |-> op, rev |-> T.rev,
   added |-> [i \in DOMAIN added |-> Detail(T, added[i])],
   removed |-> removed,
   updated |-> [i \in DOMAIN updated |-> Detail(T, updated[i])],
   active |-> active]

\* attachChild
Attach_Twice(kids, p, c) ==
  LET old == IF p \in DOMAIN kids THEN kids[p] ELSE <<>>
  IN  (p :> Append(old, c)) @@ kids
Attach(kids, p, c) ==
  LET old == IF p \in DOMAIN kids THEN kids[p] ELSE <<>>
  IN  IF c \in ToSet(old) THEN kids ELSE (p :> Append(old, c)) @@ kids

\* upsertLoomNode
Upsert(M, d) ==
  LET seeded == IF d.id \in DOMAIN M.kids THEN M.kids
                ELSE (d.id :> d.kids) @@ M.kids
  IN  [M EXCEPT !.nodes = (d.id :> d.node) @@ @,
                !.kids = IF d.node.parent = None THEN seeded
                         ELSE Attach(seeded, d.node.parent, d.id),
                !.root = IF d.node.parent = None THEN d.id ELSE @]

\* A removed node goes with its own children entry and out of its parent's.
Dropped(M, gone) ==
  [M EXCEPT
     !.nodes = [n \in DOMAIN @ \ gone |-> @[n]],
     !.kids = [p \in DOMAIN @ \ gone |->
                 SelectSeq(@[p], LAMBDA c :
                   ~(c \in gone \cap DOMAIN M.nodes /\ M.nodes[c].parent = p))]]

\* applyTreeDelta past its gap check.  A root that is gone is found again
\* among the parentless nodes, the added ones first.
Applied(M, ev) ==
  LET grown == FoldLeft(Upsert, M, ev.added)
      M1 == FoldLeft(Upsert, Dropped(grown, ev.removed), ev.updated)
      roots == {n \in DOMAIN M1.nodes : M1.nodes[n].parent = None}
      fresh == {n \in roots : \E i \in DOMAIN ev.added : ev.added[i].id = n}
  IN  [M1 EXCEPT
         !.active = IF ev.active = None THEN @ ELSE ev.active,
         !.root = IF @ \in DOMAIN M1.nodes \/ roots = {} THEN @
                  ELSE CHOOSE n \in roots : fresh # {} => n \in fresh,
         !.rev = ev.rev]
=============================================================================
