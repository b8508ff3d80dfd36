------------------------------- MODULE MCFits -------------------------------
(***************************************************************************)
(* Fits, what a session holds of them and how they travel, for TLC: a      *)
(* behaviour is one of the fit pipeline; of the registry with requests in  *)
(* several steps, or with polls of analytics; or of manifolds that are     *)
(* exported and installed.                                                 *)
(***************************************************************************)
EXTENDS FitCapture, ArtifactRegistry, Distribution

VARIABLE part

Spec_(corpus, mode) == [corpus |-> corpus, mode |-> mode]
Ask(folder, sae, scope, mode, force, dls) ==
  [folder |-> folder, sae |-> sae, scope |-> scope, mode |-> mode, force |-> force, dls |-> dls]
Sae(revision, fingerprint) == [release |-> "sae", revision |-> revision, fingerprint |-> fingerprint]

TwoSpecs == {Spec_("c", "auto"), Spec_("d", "authored")}
TwoRows == [c \in {"c", "d"} |-> IF c = "c" THEN 3 ELSE 2]
SaeLayers == [r \in {"sae"} |-> {2}]
SomeRequests ==
  { Ask("f", Missing, Missing, Missing, FALSE, TRUE), Ask("f", Missing, {1}, "pca", TRUE, TRUE),
    Ask("g", Sae(1, 1), Missing, Missing, FALSE, FALSE),
    Ask("g", Sae(Missing, 1), {2}, Missing, FALSE, TRUE) }

SymmetricActors == Permutations(Fitters) \cup Permutations(Hosts)

\* Who is about: archives and templates; archives, fits and authors; the Hub;
\* copies of folders, with templates and with fits.
CONSTANTS a1, t1, t2
FiveJourneys ==
  { {"export", "file", "template"}, {"file", "fit", "author"}, {"push", "hub", "edit"},
    {"folder", "edit", "template"}, {"folder", "fit", "edit"} }

Key(ns, variant) == [ns |-> ns, name |-> "a", variant |-> variant]
SomeKeys == {Key(Bare, "raw"), Key("local", "raw"), Key("local", "role"), Key(Bare, "sae-r")}
BareVariantToo == SomeKeys \cup {Key(Bare, "sae")}

\* Folder f starts as a discover folder, g as authored geometry.  The manifolds
\* at hand and the commit say t1 (an archive says either), and what was packed
\* is named a1: the other texts and names are like them.
MCInit ==
  /\ FitCaptureInit /\ RegistryInit /\ TripInit
  /\ authored["f"].mode = "auto" /\ authored["g"].mode = "authored"
  /\ part \in {"fits", "registry", "polls", "trip"}
  /\ part \notin {"registry", "polls"} => \A f \in ArtifactFolders : ~corpora[f].role
  /\ shared # t2 /\ \A n \in Places : home[n] # Gone => home[n].corpus = t1
  /\ archive # Gone => archive.body.folder.name = a1
  /\ hub # <<>> => hub[1].summary.name = a1 /\ hub[1].summary.corpus = t1
  /\ part # "trip" => /\ journey = {"folder", "fit", "edit"} /\ shared = Gone
                      /\ home = [n \in Places |-> Gone]

MCNext ==
  /\ UNCHANGED part
  /\ \/ part = "fits" /\ FitCaptureNext /\ UNCHANGED <<registryVars, tripVars>>
     \/ part = "registry" /\ RegistryNext /\ poll' = Nothing /\ UNCHANGED <<fitVars, tripVars>>
     \/ part = "polls" /\ RegistryNext /\ route' = Nothing /\ attaching' = Nothing
        /\ UNCHANGED <<fitVars, tripVars>>
     \/ part = "trip" /\ TripNext /\ UNCHANGED <<fitVars, registryVars>>

MCSpec == MCInit /\ [][MCNext]_<<part, fitVars, registryVars, tripVars>>
=============================================================================
