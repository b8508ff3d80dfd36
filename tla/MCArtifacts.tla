---------------------------- MODULE MCArtifacts ----------------------------
(***************************************************************************)
(* What is kept on disk, for TLC: a behaviour is one of a manifold folder, *)
(* of two folders that are merged, or of a lens and its store.             *)
(* The folder: a fit of one model and the pair a transfer makes of it for  *)
(* another; fits, clears and merges of targets other than these take the   *)
(* same locks and keys.                                                    *)
(***************************************************************************)
EXTENDS ManifoldStore, LensFit

CONSTANTS m1, m2, raw, from

VARIABLE part

BothPairs == {<<m1, raw>>, <<m2, from>>}
MappedPairs == {<<m2, from>>}
AllScopes == {<<All, All>>, <<m1, raw>>}

\* Checkpoints can fall on a corpus's end or not, and corpora share a prefix.
SharedPrefixes == {<<1, 2, 3>>, <<1>>, <<1, 4>>}
NestedLayers == {{1}, {1, 2}}

AnyOf(S) == CHOOSE x \in S : TRUE

\* Bounds: MaxOps operations on one folder, or two on two folders, of which a
\* merge has one as its source and one as its destination.
OnOneFolder ==
  \A p \in Procs : {task'[p].folder, task'[p].src} \cap Folders
                   \subseteq {AnyOf(Folders)}
TwoOperations == ops' <= 2

MCInit ==
  /\ StoreInit /\ LensInit
  /\ part \in {"store", "merges", "fit"}
  /\ template = AnyOf(Corpora)
  /\ part = "merges" => "merge" \in menu
  /\ part = "fit" => menu = AnyOf(Menus) /\ \A f \in Installed : dir[f].kind = "authored"

MCNext ==
  \/ part = "store" /\ StoreNext /\ OnOneFolder /\ UNCHANGED <<part, lensVars>>
  \/ part = "merges" /\ StoreNext /\ TwoOperations /\ UNCHANGED <<part, lensVars>>
  \/ part = "fit" /\ LensNext /\ UNCHANGED <<part, storeVars>>

MCSpec == MCInit /\ [][MCNext]_<<part, storeVars, lensVars>>
=============================================================================
