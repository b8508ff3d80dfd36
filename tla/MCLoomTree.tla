----------------------------- MODULE MCLoomTree -----------------------------
(***************************************************************************)
(* Instances of LoomTree for TLC.  No definition tells one node id from    *)
(* another (the first of equal turns is taken by its place among its       *)
(* siblings), so the ids are symmetric.                                    *)
(***************************************************************************)
EXTENDS LoomTree, TLC

\* Continuations and sends of a one-word turn.
AnyInput == {None} \cup {<<w>> : w \in Words}

\* Editors of a tree nothing generates into, and a generation among other calls.
Editors == [calls |-> AllCalls \ {"generate"}, inputs |-> {}, seats |-> {}, stops |-> FALSE, maxRev |-> 4]
Chatters == [calls |-> {"generate", "append", "edit", "navigate", "delete", "reset"}, inputs |-> AnyInput,
             seats |-> {"user", "assistant"}, stops |-> TRUE, maxRev |-> 4]
EditorsOrChatters == {Editors, Chatters}

Sym == Permutations(Ids)
=============================================================================
