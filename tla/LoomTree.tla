------------------------------ MODULE LoomTree ------------------------------
(***************************************************************************)
(* The session's conversation tree shared by one generation and the tree   *)
(* calls of other threads.  Every mutator is atomic under the tree's own   *)
(* lock; a generation opens its turn, reserves its branch, renders, decodes*)
(* and finalizes in separate steps, and the other calls run between them.  *)
(*                                                                         *)
(*   drowse/loom/tree.py           the mutators and the reservation        *)
(*   drowse/loom/ops.py            begin_generation_turn, append_turn      *)
(*   drowse/session/engine.py      resolve_call and generate_one           *)
(*   drowse/generation/render.py   prepare_input                           *)
(*   drowse/session/session.py     restore_tree                            *)
(*                                                                         *)
(* The session runs one generation at a time (DrowseSession).              *)
(***************************************************************************)
EXTENDS LoomTreeOps

CONSTANTS
  Clients,   \* what the callers of a behaviour may do: records of ClientKinds
  Named,     \* BOOLEAN: generate calls name their parent node
  MaxText    \* bound: no text is longer

AllCalls == {"generate", "append", "edit", "branch", "graft", "navigate",
             "delete", "decorate", "reset", "restore"}

\* calls: the tree calls made; inputs: None, or the text of a new user turn;
\* seats: the seats a generation writes in; stops: session.stop is called;
\* maxRev: bound, no call starts at a higher revision.
ASSUME ClientsAssumption ==
  \A c \in Clients :
    /\ c.calls \subseteq AllCalls /\ c.seats \subseteq Seats
    /\ \A t \in c.inputs \ {None} : t \in Seq(Words) /\ Len(t) <= MaxText
    /\ c.stops \in BOOLEAN /\ c.maxRev \in Nat
ASSUME NodesAssumption ==
  None \notin Ids /\ None \notin Words /\ MaxText \in Nat

VARIABLES
  client,       \* the callers of this behaviour
  tree,         \* session.tree
  reservation,  \* tree._reservation
  gen,          \* the generation in flight
  saved,        \* a tree document saved earlier
  emitted,      \* the frames of the LoomMutated events of the last step
  used          \* history: every node id ever made (a ULID is never reused)

vars == <<client, tree, reservation, gen, saved, emitted, used>>

Calls == client.calls
Inputs == client.inputs
GenSeats == client.seats
Stops == client.stops

NoPrompt == [past |-> <<>>, turn |-> None]
NoGen == [pc |-> "idle", input |-> None, parent |-> None, seat |-> "assistant",
          history |-> None, cont |-> None, prefix |-> <<>>, anchor |-> None,
          target |-> None, prompt |-> NoPrompt, out |-> <<>>]

Init ==
  /\ client \in Clients
  /\ \E id \in Ids : tree = FreshTree(id) /\ used = {id}
  /\ reservation = None
  /\ gen = NoGen
  /\ saved = None
  /\ emitted = <<>>

Known(n) == n \in Live(tree)
Fresh == Ids \ used
MayStart == tree.rev < client.maxRev

\* A mutation: one revision, one event.
Commit(T, op, added, removed, updated, active) ==
  LET T1 == [T EXCEPT !.rev = tree.rev + 1]
  IN  tree' = T1 /\ emitted' = <<Frame(T1, op, added, removed, updated, active)>>

---------------------------------------------------------------------------
(* Mutators the generation and the other callers share.                    *)

\* The first of the equal user turns.
FirstSame(p, t, n) ==
  LET kids == tree.kids[p]
      same == SameUserTurns(tree, p, t) IN
  \E i \in DOMAIN kids :
    /\ n = kids[i] /\ n \in same
    /\ \A j \in 1..(i - 1) : kids[j] \notin same

\* add_user_turn: an identical user child is navigated to, or a child is added.
\* n is the turn it returns.
AddUserTurn(p, t, n) ==
  IF SameUserTurns(tree, p, t) # {}
  THEN /\ FirstSame(p, t, n) /\ UNCHANGED used
       /\ Commit(WithActive(tree, n), "navigate", <<>>, {}, <<>>, n)
  ELSE /\ n \in Fresh /\ used' = used \cup {n}
       /\ Commit(WithActive(WithChild(tree, n, Node(p, "user", t, FALSE)), n),
                 "add_user", <<n>>, {}, <<>>, n)

\* _refuse_if_reserved for a node: the reservation, an ancestor or a
\* descendant of it.  With its root deleted the walk up from it raises.
Reserved_BelowOnly(n) == reservation # None /\ reservation \in Above(tree, n)
Reserved(n) ==
  /\ reservation # None
  /\ Known(reservation) =>
       reservation \in Above(tree, n) \/ n \in Above(tree, reservation)

---------------------------------------------------------------------------
(* One generation on the tree.                                             *)

At(l) == gen.pc = l
Becomes(g) == gen' = g

\* An error: what is left is the release.
Abort == gen' = [gen EXCEPT !.pc = "release"]
AbortNow == Abort /\ emitted' = <<>> /\ UNCHANGED <<tree, reservation, saved, used>>

\* parent_node_id, else the active node at the time it is asked for.
ParentOr(p) == IF p = None THEN tree.active ELSE p

\* resolve_call: the chat-history anchor is read now, and with it the leaf
\* this call continues in place (same seat) and its text, the forced prefix.
Resolve(input, p, seat, append) ==
  LET leaf == ParentOr(p)
      coalesces == append /\ input = None
      continues == coalesces /\ tree.nodes[leaf].seat = seat
  IN
  /\ "generate" \in Calls /\ At("idle") /\ MayStart
  /\ coalesces => Known(leaf)
  /\ Becomes([NoGen EXCEPT
       !.pc = IF input # None /\ seat = "assistant" THEN "check" ELSE "open",
       !.input = input, !.parent = p, !.seat = seat,
       !.history = IF continues THEN tree.nodes[leaf].parent ELSE leaf,
       !.cont = IF continues THEN leaf ELSE None,
       !.prefix = IF continues THEN tree.nodes[leaf].text ELSE <<>>])
  /\ emitted' = <<>>
  /\ UNCHANGED <<tree, reservation, saved, used>>

\* check_user_send_target: a send may not hang under a user turn that waits for
\* its reply.
CheckTarget ==
  LET p == ParentOr(gen.parent) IN
  /\ At("check")
  /\ Known(p) => tree.nodes[p].seat # "user"
  /\ Becomes([gen EXCEPT !.pc = "open"])
  /\ emitted' = <<>>
  /\ UNCHANGED <<tree, reservation, saved, used>>

\* begin_generation_turn up to the reservation: a text input first commits its
\* user turn.
OpenTurn ==
  LET p == ParentOr(gen.parent) IN
  /\ At("open")
  /\ IF gen.input = None
     THEN /\ Becomes([gen EXCEPT !.pc = "reserve", !.anchor = p])
          /\ emitted' = <<>> /\ UNCHANGED <<tree, used>>
     ELSE /\ Known(p)
          /\ \E n \in Ids :
               /\ AddUserTurn(p, gen.input, n)
               /\ Becomes([gen EXCEPT !.pc = "reserve", !.anchor = n])
  /\ UNCHANGED <<reservation, saved>>

Reserve_Nothing == UNCHANGED reservation
Reserve == reservation' = gen.anchor

ReserveBranch ==
  /\ At("reserve")
  /\ Reserve
  /\ Becomes([gen EXCEPT !.pc = "begin"])
  /\ emitted' = <<>>
  /\ UNCHANGED <<tree, saved, used>>

BeginContinuation ==
  LET n == gen.cont
      old == tree.nodes[n] IN
  /\ At("begin") /\ n # None /\ Known(n)
  /\ Commit(WithActive(WithNode(tree, n, Node(old.parent, old.seat, <<>>, TRUE)), n),
            "begin_assistant", <<>>, {}, <<n>>, n)
  /\ Becomes([gen EXCEPT !.pc = "render", !.target = n])
  /\ UNCHANGED <<reservation, saved, used>>

BeginAssistant(n) ==
  /\ At("begin") /\ gen.cont = None /\ Known(gen.anchor)
  /\ n \in Fresh /\ used' = used \cup {n}
  /\ Commit(WithActive(WithChild(tree, n, Node(gen.anchor, gen.seat, <<>>, TRUE)), n),
            "begin_assistant", <<n>>, {}, <<>>, n)
  /\ Becomes([gen EXCEPT !.pc = "render", !.target = n])
  /\ UNCHANGED <<reservation, saved>>

\* The turns of a branch without the synthetic root; the parents order them.
Past(T, n) == [m \in Above(T, n) \ {T.root} |-> T.nodes[m].text]

\* prepare_input: the path to the history anchor, then the call's own input.
Render_FromActive ==
  /\ At("render") /\ Known(tree.active)
  /\ Becomes([gen EXCEPT !.pc = "decode",
       !.prompt = [past |-> Past(tree, tree.active), turn |-> gen.input]])
  /\ emitted' = <<>>
  /\ UNCHANGED <<tree, reservation, saved, used>>
Render ==
  /\ At("render") /\ Known(gen.history)
  /\ Becomes([gen EXCEPT !.pc = "decode",
       !.prompt = [past |-> Past(tree, gen.history), turn |-> gen.input]])
  /\ emitted' = <<>>
  /\ UNCHANGED <<tree, reservation, saved, used>>

\* The i-th token may be decoded: max_new_tokens.
WithinBudget_OffByOne(i) == i <= MaxText + 1
WithinBudget(i) == i <= MaxText

\* One decoded token: the next of the forced prefix, then a sampled one.  Its
\* row goes to the target without a revision.
Token ==
  LET i == Len(gen.out) + 1 IN
  /\ At("decode") /\ WithinBudget(i) /\ Known(gen.target)
  /\ \E w \in IF i <= Len(gen.prefix) THEN {gen.prefix[i]} ELSE Words :
       Becomes([gen EXCEPT !.out = Append(@, w)])
  /\ emitted' = <<>>
  /\ UNCHANGED <<tree, reservation, saved, used>>

\* finalize_assistant, once the decode ended or was stopped.
Finalize ==
  LET n == gen.target IN
  /\ At("decode") /\ Known(n)
  /\ Stops \/ Len(gen.out) >= Len(gen.prefix)
  /\ Commit(WithNode(tree, n, [tree.nodes[n] EXCEPT !.text = gen.out]),
            "finalize_assistant", <<>>, {}, <<n>>, None)
  /\ Becomes([gen EXCEPT !.pc = "release"])
  /\ UNCHANGED <<reservation, saved, used>>

\* A refused turn, a node that is gone, or any error of a step.
Fail == gen.pc \in {"check", "open", "reserve", "begin", "render", "decode"} /\ AbortNow

\* _release_generation
Release ==
  /\ At("release")
  /\ reservation' = None
  /\ gen' = NoGen
  /\ emitted' = <<>>
  /\ UNCHANGED <<tree, saved, used>>

Generation ==
  \/ CheckTarget \/ OpenTurn \/ ReserveBranch \/ BeginContinuation
  \/ (\E n \in Ids : BeginAssistant(n))
  \/ Render \/ Token \/ Finalize \/ Fail \/ Release

---------------------------------------------------------------------------
(* The calls of other threads.                                             *)

May(call) == call \in Calls /\ MayStart
Elsewhere == UNCHANGED <<reservation, gen, saved>>

\* append_turn onto a message of the same seat: it becomes authored.
AppendAuthored(n, w) ==
  LET old == tree.nodes[n] IN
  /\ May("append") /\ Known(n) /\ n # tree.root /\ ~Reserved(n)
  /\ Len(old.text) < MaxText
  /\ Commit(WithActive(WithNode(tree, n,
                Node(old.parent, old.seat, Append(old.text, w), FALSE)), n),
            "edit", <<>>, {}, <<n>>, n)
  /\ Elsewhere /\ UNCHANGED used

AppendUserTurn(p, w) ==
  /\ May("append") /\ Known(p) /\ tree.nodes[p].seat # "user"
  /\ \E n \in Ids : AddUserTurn(p, <<w>>, n)
  /\ Elsewhere

\* add_assistant_turn: an empty node, then its text, in one locked call.
AppendAssistantTurn(p, w, n) ==
  LET T1 == [WithActive(WithChild(tree, n, Node(p, "assistant", <<>>, FALSE)), n)
               EXCEPT !.rev = @ + 1]
      T2 == [WithNode(T1, n, Node(p, "assistant", <<w>>, FALSE)) EXCEPT !.rev = @ + 1] IN
  /\ May("append") /\ Known(p) /\ tree.nodes[p].seat # "assistant"
  /\ n \in Fresh /\ used' = used \cup {n}
  /\ tree' = T2
  /\ emitted' = <<Frame(T1, "begin_assistant", <<n>>, {}, <<>>, n),
                  Frame(T2, "finalize_assistant", <<>>, {}, <<n>>, None)>>
  /\ Elsewhere

Texts == {<<w>> : w \in Words} \cup {<<v, w>> : v \in Words, w \in Words}

Edit(n, t) ==
  /\ May("edit") /\ Known(n) /\ n # tree.root /\ ~Reserved(n)
  /\ Commit(WithNode(tree, n, [tree.nodes[n] EXCEPT !.text = t]),
            "edit", <<>>, {}, <<n>>, None)
  /\ Elsewhere /\ UNCHANGED used

\* A sibling of s, in either seat, made active or not; always allowed.
Branch(s, seat, t, n, moves) ==
  LET T1 == WithChild(tree, n, Node(tree.nodes[s].parent, seat, t, FALSE)) IN
  /\ May("branch") /\ Known(s) /\ s # tree.root
  /\ n \in Fresh /\ used' = used \cup {n}
  /\ IF moves THEN Commit(WithActive(T1, n), "branch", <<n>>, {}, <<>>, n)
              ELSE Commit(T1, "branch", <<n>>, {}, <<>>, None)
  /\ Elsewhere

\* A prepared chain, here a user turn and its reply, in one mutation.
Graft(p, t, u, n, m) ==
  /\ May("graft") /\ Known(p)
  /\ {n, m} \subseteq Fresh /\ n # m /\ used' = used \cup {n, m}
  /\ Commit(WithActive(WithChild(WithChild(tree, n, Node(p, "user", t, FALSE)),
                                 m, Node(n, "assistant", u, FALSE)), m),
            "import", <<n, m>>, {}, <<>>, m)
  /\ Elsewhere

\* navigate; rewind navigates to an ancestor.
Navigate(n) ==
  /\ May("navigate") /\ Known(n) /\ n # tree.active
  /\ Commit(WithActive(tree, n), "navigate", <<>>, {}, <<>>, n)
  /\ Elsewhere /\ UNCHANGED used

\* The frame carries the active pointer only when it moved.
DeleteSubtree_NodeOnly(n) ==
  LET T1 == [Without(tree, n) EXCEPT
              !.active = IF tree.active = n THEN tree.nodes[n].parent ELSE tree.active] IN
  /\ May("delete") /\ Known(n) /\ n # tree.root /\ ~Reserved(n)
  /\ Commit(T1, "delete", <<>>, {n}, <<>>,
            IF T1.active = tree.active THEN None ELSE T1.active)
  /\ Elsewhere /\ UNCHANGED used
DeleteSubtree(n) ==
  LET T1 == Without(tree, n) IN
  /\ May("delete") /\ Known(n) /\ n # tree.root /\ ~Reserved(n)
  /\ Commit(T1, "delete", <<>>, Below(tree, n), <<>>,
            IF T1.active = tree.active THEN None ELSE T1.active)
  /\ Elsewhere /\ UNCHANGED used

\* star, annotate, the cast and captured prompt rows: a revision and a frame.
Decorate(n) ==
  /\ May("decorate") /\ Known(n)
  /\ Commit(tree, "star", <<>>, {}, <<n>>, None)
  /\ Elsewhere /\ UNCHANGED used

Reset(id) ==
  /\ May("reset") /\ reservation = None
  /\ id \in Fresh /\ used' = used \cup {id}
  /\ Commit(FreshTree(id), "reset", <<id>>, Live(tree), <<>>, id)
  /\ Elsewhere

\* to_dict; the document can be restored later.
Save ==
  /\ "restore" \in Calls
  /\ saved' = tree
  /\ emitted' = <<>>
  /\ UNCHANGED <<tree, reservation, gen, used>>

\* restore_tree, whose caller guarantees that nothing generates.  The dashboard
\* fetches the tree again on a restore frame, so its node lists are left out.
Restore_KeepsRev ==
  /\ May("restore") /\ saved # None /\ At("idle")
  /\ tree' = saved
  /\ emitted' = <<Frame(tree', "restore", <<>>, {}, <<>>, saved.active)>>
  /\ reservation' = None
  /\ UNCHANGED <<gen, saved, used>>
Restore ==
  /\ May("restore") /\ saved # None /\ At("idle")
  /\ tree' = [saved EXCEPT !.rev = 1 + IF @ > tree.rev THEN @ ELSE tree.rev]
  /\ emitted' = <<Frame(tree', "restore", <<>>, {}, <<>>, saved.active)>>
  /\ reservation' = None
  /\ UNCHANGED <<gen, saved, used>>

TreeCalls ==
  \/ \E n \in Ids, w \in Words :
       AppendAuthored(n, w) \/ AppendUserTurn(n, w)
  \/ \E p, n \in Ids, w \in Words : AppendAssistantTurn(p, w, n)
  \/ \E n \in Ids, t \in Texts : Edit(n, t)
  \/ \E s, n \in Ids, seat \in Seats, t \in Texts, moves \in BOOLEAN :
       Branch(s, seat, t, n, moves)
  \/ \E p, n, m \in Ids, t, u \in Texts : Graft(p, t, u, n, m)
  \/ \E n \in Ids : Navigate(n) \/ DeleteSubtree(n) \/ Decorate(n) \/ Reset(n)
  \/ Save \/ Restore

\* A caller names a node it has seen, or none.
Generate ==
  \E input \in Inputs, p \in IF Named THEN used ELSE used \cup {None},
     seat \in GenSeats, append \in BOOLEAN : Resolve(input, p, seat, append)

Next == (Generate \/ Generation \/ TreeCalls) /\ UNCHANGED client

Spec == Init /\ [][Next]_vars

---------------------------------------------------------------------------
(* Properties.                                                             *)

NodeRecords ==
  [parent : Ids \cup {None}, seat : Seats \cup {"system"}, text : Seq(Words),
   gen : BOOLEAN]

Shape(T) ==
  /\ Live(T) \subseteq Ids
  /\ T \in [nodes : [Live(T) -> NodeRecords], kids : [Live(T) -> Seq(Live(T))],
            root : Live(T), active : Live(T), rev : Nat]

Stages == {"idle", "check", "open", "reserve", "begin", "render", "decode", "release"}

GenShape ==
  LET Seen == used \cup {None} IN
  /\ gen \in [pc : Stages, input : Seq(Words) \cup {None}, parent : Seen,
              seat : Seats, history : Ids \cup {None}, cont : Seen,
              prefix : Seq(Words), anchor : Seen, target : Seen,
              prompt : {gen.prompt}, out : Seq(Words)]
  /\ Len(gen.out) <= MaxText

TypeOK ==
  /\ client \in Clients
  /\ Live(tree) \subseteq used /\ used \subseteq Ids
  /\ Shape(tree) /\ (saved # None => Shape(saved) /\ Live(saved) \subseteq used)
  /\ reservation \in used \cup {None}
  /\ GenShape

\* The tree, and every document saved of it, is one the loader accepts: a
\* rooted tree whose two child relations agree, with a live active node.
TreeIsValid == ValidTree(tree) /\ (saved # None => ValidTree(saved))

\* The past the model was shown is the branch its reply hangs under, for as
\* long as it decodes: nobody moves, edits or deletes a turn of it.  (A turn the
\* call commits itself is rendered from the call, not from the tree.)
PastOf(n) ==
  LET p == tree.nodes[n].parent
  IN  Past(tree, IF gen.input = None THEN p ELSE tree.nodes[p].parent)

PromptIsTheBranch ==
  At("decode") => Known(gen.target) /\ gen.prompt.past = PastOf(gen.target)

\* The branch a generation streams into is the reserved one.
TargetIsReserved ==
  At("decode") => Known(gen.target) /\ reservation \in Above(tree, gen.target)

\* A reply streams under the branch the model was prompted with, and nobody else
\* may change that branch meanwhile.
ReplyHangsUnderItsPrompt == PromptIsTheBranch /\ TargetIsReserved

\* The two calls above, step by step.  A continued message hangs where it hung
\* when the call was resolved.
ContinuesInPlace ==
  gen.pc \in {"check", "open", "reserve", "begin"} /\ gen.cont # None =>
    /\ gen.input = None /\ gen.parent = gen.cont
    /\ gen.pc \in {"reserve", "begin"} => gen.anchor = gen.cont
    /\ Known(gen.cont) => tree.nodes[gen.cont].parent = gen.history

\* A new message will hang under the node it was resolved against, or under the
\* user turn the call committed there.
HangsWhereResolved ==
  gen.pc \in {"check", "open", "reserve", "begin"} /\ gen.cont = None =>
    /\ gen.history = gen.parent /\ gen.parent # None
    /\ gen.pc \in {"reserve", "begin"} =>
         IF gen.input = None THEN gen.anchor = gen.history
         ELSE Known(gen.anchor) => tree.nodes[gen.anchor].parent = gen.history

\* From its beginning the message hangs there, on a reserved branch.
Linked ==
  gen.pc \in {"render", "decode"} =>
    /\ Known(gen.target) /\ Known(gen.anchor)
    /\ IF gen.cont # None
       THEN /\ gen.input = None /\ gen.target = gen.anchor
            /\ tree.nodes[gen.target].parent = gen.history
       ELSE /\ tree.nodes[gen.target].parent = gen.anchor
            /\ IF gen.input = None THEN gen.anchor = gen.history
               ELSE tree.nodes[gen.anchor].parent = gen.history

BranchIsReserved ==
  gen.pc \in {"begin", "render", "decode"} => reservation = gen.anchor

PromptedPast ==
  gen.pc = "decode" => Known(gen.history) /\ gen.prompt.past = Past(tree, gen.history)

TreeInv == TypeOK /\ TreeIsValid
BranchInv ==
  ContinuesInPlace /\ HangsWhereResolved /\ Linked /\ BranchIsReserved /\ PromptedPast

\* The frames of a mutation turn the tree before it into the tree after it.
FramesReproduceTree ==
  [][emitted' # emitted /\ (\A i \in DOMAIN emitted' : emitted'[i].op # "restore")
       => FoldLeft(Applied, tree, emitted') = tree']_vars

\* Revisions only grow, over restores of older documents too: a client that has
\* seen a revision takes every later frame as a forward step.
RevisionsGrow ==
  [][tree' # tree => tree'.rev > tree.rev]_vars

\* A mirror that applies each frame in order, and skips what is not newer, is
\* the tree.
MirrorsFollow == FramesReproduceTree /\ RevisionsGrow

\* A continued message keeps its text, with the new tail or without.
ContinuationKeepsText ==
  At("release") /\ gen.cont # None /\ Known(gen.cont)
    => IsPrefix(gen.prefix, tree.nodes[gen.cont].text)
=============================================================================
