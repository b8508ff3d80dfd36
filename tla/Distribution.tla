---------------------------- MODULE Distribution ----------------------------
(***************************************************************************)
(* How a manifold travels: exported to a .drowse archive, pushed to the    *)
(* Hub, and installed from an archive, from the Hub or from a folder,      *)
(* together with the template it refers to.                                *)
(*                                                                         *)
(*   drowse/store/archive.py     closures, export, extraction              *)
(*   drowse/store/install.py     install_manifold, install_closure         *)
(*   drowse/store/hub.py         push_manifold, pull_manifold              *)
(*   drowse/store/templates.py   the template artifact and its lock        *)
(*                                                                         *)
(* A file's content is what it says, not its bytes: a manifest its labels, *)
(* a corpus its text, a pair the node hash it carries.  The folder of a    *)
(* manifold is replaced in one step (its crash windows are ManifoldStore's)*)
(* and there is one template.  The Hub is an append-only list of commits.  *)
(***************************************************************************)
EXTENDS Integers, Sequences, FiniteSets

CONSTANTS
  Hosts,       \* command lines and servers that share one home
  Places,       \* manifold names under local/
  Texts,       \* what a corpus, or a template's rendering, may say
  Models,      \* models a manifold may be fitted for
  Gone, Unset,
  Journeys,    \* the menus: the operations of a behaviour are those of one
  AuthorsMeetInstalls, \* whether a from-template overlaps an install
  MaxTrips,    \* bound: operations started
  MaxLosses    \* bound: crashes and damaged archives

TripOps == {"file", "hub", "folder", "export", "push", "author", "fit",
            "edit", "template"}

\* A node hash, a fitted pair, a manifold folder, a closure, and what a process carries.
Shas == Texts \X Texts \X (Texts \cup {Gone, Unset})
Pairs == [name : Places, of : Shas]
Folders ==
  [name : Places, labels : Texts, ref : BOOLEAN, corpus : Texts, fits : [Models -> Pairs \cup {Unset}],
   source : Nat \cup {Unset}, id : Nat \cup {Unset}]
Closures == [folder : Folders, template : Texts \cup {Gone, Unset}]

ASSUME DistributionAssumption ==
  /\ Unset \notin Hosts \cup Places \cup Texts \cup Nat \cup {Gone} \cup Pairs \cup Folders \cup Closures
  /\ Gone \notin Texts
  /\ \A j \in Journeys : j \subseteq TripOps
  /\ AuthorsMeetInstalls \in BOOLEAN
  /\ MaxTrips \in Nat /\ MaxLosses \in Nat

VARIABLES
  home,       \* the manifold folder of each name, or Gone
  shared,     \* what the template on disk renders to, or Gone
  archive,    \* the .drowse file on disk, or Gone
  hub,        \* the commits of the repository
  at, trip,   \* where each process is, and what it carries
  journey, trips, losses,
  era,        \* history: how often the folder of each name was replaced
  strays,     \* history: a fit was published in a folder it did not begin in
  parcel      \* history: what the last install put in place

tripVars == <<home, shared, archive, hub, at, trip, journey, trips, losses,
              era, strays, parcel>>

NoFits == [m \in Models |-> Unset]

\* A manifold folder: the manifest's name, labels, template reference, source
\* and artifact id; the corpus; and the fitted pairs, each with the name and
\* node hash of its sidecar.
Manifold(n, templated, text) ==
  [name |-> n, labels |-> text, ref |-> templated, corpus |-> text,
   fits |-> NoFits, source |-> Unset, id |-> Unset]

\* A closure is a folder and the template it refers to; an archive is a
\* closure and the digests its pack manifest declares.
Closure(f, text) == [folder |-> f, template |-> IF f.ref THEN text ELSE Unset]
Archive(c) == [body |-> c, digests |-> c]

\* A manifold's node hash folds in the template it resolves.
NodesSha(f, text) == <<f.labels, f.corpus, IF f.ref THEN text ELSE Unset>>

NoTrip == [op |-> Unset, name |-> Unset, to |-> Unset, force |-> FALSE,
           keep |-> {}, closure |-> Unset, commit |-> Unset,
           declared |-> Unset, snap |-> Unset, began |-> Unset]

\* The places at which a process holds the manifest lock of its target, and
\* those at which it holds the template's.
ManifestHeld == {"tlock", "decide", "ptemplate", "pmanifold",
                 "xlock", "xcheck", "xwrite", "authored"}
TemplateHeld_Never == {}
TemplateHeld == {"decide", "ptemplate", "pmanifold", "xcheck", "xwrite"}

Destination(p) == IF trip[p].to # Unset THEN trip[p].to ELSE trip[p].name
ManifestIsFree(n, p) ==
  \A q \in Hosts \ {p} : at[q] \in ManifestHeld => Destination(q) # n
HoldsTemplate(q) ==
  at[q] \in TemplateHeld /\ trip[q].closure # Unset /\ trip[q].closure.folder.ref
TemplateIsFree(p) == \A q \in Hosts \ {p} : ~HoldsTemplate(q)

Move(p, l) == at' = [at EXCEPT ![p] = l]
Rest(p) == Move(p, "idle") /\ trip' = [trip EXCEPT ![p] = NoTrip]
Ground == <<home, shared, archive, hub, era, strays, parcel>>
Fixed == <<journey, trips, losses>>

Depart(p, call, l) ==
  /\ at[p] = "idle" /\ trips < MaxTrips /\ call.op \in journey
  /\ trips' = trips + 1 /\ Move(p, l)
  /\ trip' = [trip EXCEPT ![p] = call]
  /\ UNCHANGED <<Ground, journey, losses>>

Fail(p) == Rest(p) /\ UNCHANGED <<Ground, Fixed>>
Carry(p, c, l) ==
  /\ trip' = [trip EXCEPT ![p].closure = c]
  /\ Move(p, l) /\ UNCHANGED <<Ground, Fixed>>

-----------------------------------------------------------------------------
(* What is proved of a closure and of a fitted pair.                       *)

\* validate_closure: the template is there exactly when the manifold refers to
\* one, and renders to the manifold's labels and corpus.
ClosureAgrees_Trusted(c) == TRUE
ClosureAgrees(c) ==
  LET f == c.folder IN
  IF f.ref THEN c.template = f.labels /\ c.template = f.corpus
           ELSE c.template = Unset

\* validate_fitted_pair: the pair is this manifold's, of this corpus and
\* template.
PairIsProven(f, m, text) ==
  f.fits[m] # Unset =>
    f.fits[m].name = f.name /\ f.fits[m].of = NodesSha(f, text)

PairsAreProven(c) == \A m \in Models : PairIsProven(c.folder, m, c.template)

-----------------------------------------------------------------------------
(* Export.                                                                 *)

Export(p, n, keep) ==
  Depart(p, [NoTrip EXCEPT !.op = "export", !.name = n, !.keep = keep], "xstart")

Push(p, n, keep) ==
  Depart(p, [NoTrip EXCEPT !.op = "push", !.name = n, !.keep = keep], "xstart")

\* _source_closure_locks: the manifest's lock, and a first read that says
\* whether a template's lock is wanted.
LockSource(p) ==
  /\ at[p] = "xstart"
  /\ IF home[trip[p].name] = Gone THEN Fail(p)
     ELSE /\ ManifestIsFree(trip[p].name, p)
          /\ Carry(p, Closure(home[trip[p].name], Unset), "xlock")

LockSourceTemplate(p) ==
  /\ at[p] = "xlock"
  /\ trip[p].closure.folder.ref => TemplateIsFree(p)
  /\ Move(p, "xcheck") /\ UNCHANGED <<trip, Ground, Fixed>>

\* The folder as it is transported: the pairs that were asked for, without the
\* keys that belong to one installation.
Transported(f, keep) ==
  [f EXCEPT !.fits = [m \in Models |-> IF m \in keep THEN @[m] ELSE Unset],
            !.id = Unset]

\* The pairs that are kept are proven, and the template is checked, on what
\* the folder and the template say now.
CheckSource(p) ==
  /\ at[p] = "xcheck"
  /\ LET f == Transported(home[trip[p].name], trip[p].keep)
         c == Closure(f, shared) IN
     IF ~ClosureAgrees(c) \/ ~PairsAreProven(c) THEN Fail(p)
     ELSE Carry(p, c, "xwrite")

\* _write_archive: the files are hashed and copied into a temporary archive
\* that replaces the destination, or is left for the upload.
WriteArchive(p) ==
  /\ at[p] = "xwrite"
  /\ LET a == Archive(Closure(Transported(home[trip[p].name], trip[p].keep), shared)) IN
     IF trip[p].op = "export"
     THEN archive' = a /\ Rest(p)
     ELSE /\ trip' = [trip EXCEPT ![p].closure = a.body]
          /\ Move(p, "upload") /\ UNCHANGED archive
  /\ UNCHANGED <<home, shared, hub, era, strays, parcel, Fixed>>

\* One commit holds the archive and the summary manifest read back from it;
\* the upload may fail.
Upload(p) ==
  /\ at[p] = "upload"
  /\ \/ /\ hub' = Append(hub, [archive |-> Archive(trip[p].closure),
                               summary |-> trip[p].closure.folder])
     \/ UNCHANGED hub
  /\ Rest(p) /\ UNCHANGED <<home, shared, archive, era, strays, parcel, Fixed>>

-----------------------------------------------------------------------------
(* Install: each source makes a closure in a private staging area.         *)

Install(p, from, n, to, force) ==
  Depart(p, [NoTrip EXCEPT !.op = from, !.name = n, !.to = to, !.force = force],
        CASE from = "file" -> "open" [] from = "hub" -> "resolve"
          [] from = "folder" -> "load")

\* extract_drowse_archive: every entry is hashed as it is written, and the
\* closure is validated.
Extracted_Unhashed(a) == ClosureAgrees(a.body)
Extracted(a) == a.body = a.digests /\ ClosureAgrees(a.body)

OpenArchive(p) ==
  /\ at[p] = "open"
  /\ IF archive = Gone \/ ~Extracted(archive) THEN Fail(p)
     ELSE /\ trip' = [trip EXCEPT ![p].closure = archive.body,
                                  ![p].declared = archive.digests.folder]
          /\ Move(p, "mlock") /\ UNCHANGED <<Ground, Fixed>>

\* resolve_manifold_repo: a branch is resolved to its commit once, and the
\* download names that commit.
Resolve(p) ==
  /\ at[p] = "resolve"
  /\ IF hub = <<>> THEN Fail(p)
     ELSE /\ trip' = [trip EXCEPT ![p].commit = Len(hub)]
          /\ Move(p, "download") /\ UNCHANGED <<Ground, Fixed>>

CommitOf_Branch(p) == Len(hub)
CommitOf(p) == trip[p].commit

Download(p) ==
  /\ at[p] = "download"
  /\ LET a == hub[CommitOf(p)].archive IN
     IF ~Extracted(a) THEN Fail(p) ELSE Carry(p, a.body, "mlock")

\* _materialize_local_closure takes no lock: the folder is loaded with its
\* integrity checked, then its files are copied, then the template, and the
\* copy is validated.
LoadLocal(p) ==
  /\ at[p] = "load"
  /\ IF home[trip[p].name] = Gone THEN Fail(p)
     ELSE Carry(p, Closure(home[trip[p].name], Unset), "copy")

CopyLocal(p) ==
  /\ at[p] = "copy"
  /\ LET now == home[trip[p].name]  f == trip[p].closure.folder IN
     IF now = Gone \/ now.fits # f.fits THEN Fail(p)
     ELSE Carry(p, Closure([f EXCEPT !.corpus = now.corpus], Unset), "copytemplate")

CopyLocalTemplate(p) ==
  /\ at[p] = "copytemplate"
  /\ LET c == Closure(trip[p].closure.folder, shared) IN
     IF ~ClosureAgrees(c) THEN Fail(p) ELSE Carry(p, c, "mlock")

\* install_closure: the manifest's lock, then the template's.
LockTarget(p) ==
  /\ at[p] = "mlock" /\ ManifestIsFree(trip[p].to, p)
  /\ Move(p, "tlock") /\ UNCHANGED <<trip, Ground, Fixed>>

LockTemplate(p) ==
  /\ at[p] = "tlock"
  /\ trip[p].closure.folder.ref => TemplateIsFree(p)
  /\ Move(p, "decide") /\ UNCHANGED <<trip, Ground, Fixed>>

\* _template_dependents: the other installed manifolds that refer to it.
Dependents_None(to) == {}
Dependents(to) == {n \in Places \ {to} : home[n] # Gone /\ home[n].ref}

\* _template_needs_install, as a verdict: a different template is replaced
\* only by force and only when no other manifold refers to it.
TemplateVerdict(p) ==
  LET c == trip[p].closure IN
  CASE ~c.folder.ref -> "keep"
    [] c.folder.ref /\ shared = Gone -> "install"
    [] c.folder.ref /\ shared = c.template -> "keep"
    [] OTHER -> IF trip[p].force /\ Dependents(trip[p].to) = {}
                THEN "install" ELSE "conflict"

\* _rewrite_identity: the destination's name in the manifest and in every
\* sidecar, the source (a commit, or local), and no key of another installation.
Rewritten_KeepsId(p) ==
  LET f == trip[p].closure.folder IN
  [f EXCEPT !.name = trip[p].to, !.source = trip[p].commit,
            !.fits = [m \in Models |-> IF @[m] = Unset THEN Unset
                                       ELSE [@[m] EXCEPT !.name = trip[p].to]]]
Rewritten(p) ==
  LET f == trip[p].closure.folder IN
  [f EXCEPT !.name = trip[p].to, !.source = trip[p].commit, !.id = Unset,
            !.fits = [m \in Models |-> IF @[m] = Unset THEN Unset
                                       ELSE [@[m] EXCEPT !.name = trip[p].to]]]

\* Conflict, policy, rewrite, and the proof of every pair that is published.
Decide(p) ==
  /\ at[p] = "decide"
  /\ LET c == [trip[p].closure EXCEPT !.folder = Rewritten(p)]
         verdict == TemplateVerdict(p) IN
     IF (home[trip[p].to] # Gone /\ ~trip[p].force)
        \/ verdict = "conflict" \/ ~PairsAreProven(c)
     THEN Fail(p)
     ELSE Carry(p, c, IF verdict = "install" THEN "ptemplate" ELSE "pmanifold")

PromoteTemplate(p) ==
  /\ at[p] = "ptemplate"
  /\ shared' = trip[p].closure.template
  /\ Move(p, "pmanifold")
  /\ UNCHANGED <<home, archive, hub, trip, era, strays, parcel, Fixed>>

PromoteManifold(p) ==
  /\ at[p] = "pmanifold"
  /\ LET f == trip[p].closure.folder IN
     /\ home' = [home EXCEPT ![trip[p].to] = f]
     /\ parcel' = [closure |-> Closure(f, shared), commit |-> trip[p].commit,
                   declared |-> trip[p].declared]
  /\ era' = [era EXCEPT ![trip[p].to] = @ + 1]
  /\ Rest(p) /\ UNCHANGED <<shared, archive, hub, strays, Fixed>>

-----------------------------------------------------------------------------
(* The others who write: authoring, templates, fits.                       *)

\* create_manifold_from_template holds the manifest's lock and resolves the
\* template without the template's.
Author(p, n, force) ==
  Depart(p, [NoTrip EXCEPT !.op = "author", !.name = n, !.force = force], "resolving")

Installing(q) == at[q] \in {"decide", "ptemplate", "pmanifold"}
ResolveTemplate(p) ==
  /\ at[p] = "resolving" /\ ManifestIsFree(trip[p].name, p)
  /\ IF shared = Gone THEN Fail(p)
     ELSE Carry(p, Closure(Manifold(trip[p].name, TRUE, shared), shared), "authored")

PublishAuthored(p) ==
  /\ at[p] = "authored"
  /\ ~AuthorsMeetInstalls => \A q \in Hosts : ~Installing(q)
  /\ IF home[trip[p].name] # Gone /\ ~trip[p].force THEN Fail(p)
     ELSE /\ home' = [home EXCEPT ![trip[p].name] = trip[p].closure.folder]
          /\ era' = [era EXCEPT ![trip[p].name] = @ + 1]
          /\ Rest(p) /\ UNCHANGED <<shared, archive, hub, strays, parcel, Fixed>>

\* The corpus of a manifold without a template is edited under its lock.
Edit(n, text) ==
  /\ "edit" \in journey /\ trips < MaxTrips /\ trips' = trips + 1
  /\ \A p \in Hosts : at[p] \in ManifestHeld => Destination(p) # n
  /\ IF home[n] = Gone
     THEN home' = [home EXCEPT ![n] = Manifold(n, FALSE, text)]
     ELSE /\ ~home[n].ref /\ home[n].corpus # text
          /\ home' = [home EXCEPT ![n].labels = text, ![n].corpus = text]
  /\ UNCHANGED <<shared, archive, hub, at, trip, journey, losses, era, strays, parcel>>

\* create_template_folder with force, remove_template_folder: no dependent is
\* asked.
WriteTemplate(text) ==
  /\ "template" \in journey /\ trips < MaxTrips /\ trips' = trips + 1
  /\ text # shared /\ \A p \in Hosts : ~HoldsTemplate(p)
  /\ shared' = text
  /\ UNCHANGED <<home, archive, hub, at, trip, journey, losses, era, strays, parcel>>

\* A fit names the folder's generation when it begins (an id is given to a
\* folder that has none) and publishes only into that one.
Generation(n) == <<home[n].id, NodesSha(home[n], shared)>>

BeginFit(p, n, m) ==
  /\ home[n] # Gone /\ ManifestIsFree(n, p)
  /\ home[n].ref => shared = home[n].corpus
  /\ at[p] = "idle" /\ trips < MaxTrips /\ "fit" \in journey
  /\ trips' = trips + 1 /\ Move(p, "fitting")
  /\ LET id == IF home[n].id = Unset THEN trips ELSE home[n].id IN
     /\ home' = [home EXCEPT ![n].id = id]
     /\ trip' = [trip EXCEPT ![p] =
          [NoTrip EXCEPT !.op = "fit", !.name = n, !.keep = {m}, !.began = era[n],
                         !.snap = <<id, NodesSha(home[n], shared)>>]]
  /\ UNCHANGED <<shared, archive, hub, journey, losses, era, strays, parcel>>

PublishFit(p) ==
  /\ at[p] = "fitting" /\ ManifestIsFree(trip[p].name, p)
  /\ LET n == trip[p].name IN
     IF home[n] = Gone \/ Generation(n) # trip[p].snap THEN Fail(p)
     ELSE /\ home' = [home EXCEPT ![n].fits = [m \in Models |->
               IF m \in trip[p].keep
               THEN [name |-> n, of |-> NodesSha(home[n], shared)] ELSE @[m]]]
          /\ strays' = (strays \/ era[n] # trip[p].began)
          /\ Rest(p) /\ UNCHANGED <<shared, archive, hub, era, parcel, Fixed>>

-----------------------------------------------------------------------------
(* What goes wrong.                                                        *)

\* A process dies: its locks and its staging area go with it.
HostDies(p) ==
  /\ at[p] # "idle" /\ losses < MaxLosses
  /\ losses' = losses + 1 /\ Rest(p) /\ UNCHANGED <<Ground, journey, trips>>

\* An entry of the archive on disk is damaged.
DamageArchive ==
  /\ archive # Gone /\ losses < MaxLosses
  /\ \/ \E text \in Texts \ {archive.body.folder.corpus} :
           archive' = [archive EXCEPT !.body.folder.corpus = text]
     \/ \E m \in Models : archive.body.folder.fits[m] # Unset
           /\ archive' = [archive EXCEPT !.body.folder.fits[m] = Unset]
  /\ losses' = losses + 1
  /\ UNCHANGED <<home, shared, hub, at, trip, journey, trips, era, strays, parcel>>

-----------------------------------------------------------------------------
\* A manifold made earlier, and what an earlier export packed, here or
\* elsewhere: the templated ones are fitted.
MadeEarlier(n, ref, text) ==
  LET f == Manifold(n, ref, text) IN
  IF ref THEN [f EXCEPT !.fits = [m \in Models |->
                 [name |-> n, of |-> NodesSha(f, text)]]]
         ELSE f
Packed ==
  {Archive(Closure(MadeEarlier(n, ref, text), text)) :
     n \in Places, ref \in BOOLEAN, text \in Texts}

TripInit ==
  /\ shared \in Texts \cup {Gone}
  /\ home \in [Places -> {Gone} \cup
       {MadeEarlier(n, ref, text) : n \in Places, ref \in BOOLEAN, text \in Texts}]
  /\ \A n \in Places : home[n] # Gone =>
       home[n].name = n /\ (home[n].ref => home[n].corpus = shared)
  /\ journey \in Journeys
  /\ archive \in IF "file" \in journey THEN Packed ELSE {Gone}
  /\ hub \in IF "hub" \in journey
            THEN {<<[archive |-> a, summary |-> a.body.folder]>> : a \in Packed}
            ELSE {<<>>}
  /\ at = [p \in Hosts |-> "idle"] /\ trip = [p \in Hosts |-> NoTrip]
  /\ trips = 0 /\ losses = 0
  /\ era = [n \in Places |-> 0] /\ strays = FALSE /\ parcel = Gone

TripStart(p) ==
  \/ \E n \in Places, keep \in {Models, {}} : Export(p, n, keep) \/ Push(p, n, keep)
  \/ \E from \in {"file", "hub", "folder"}, n, to \in Places, force \in BOOLEAN :
       /\ from # "folder" => n = to
       /\ Install(p, from, n, to, force)
  \/ \E n \in Places, force \in BOOLEAN : Author(p, n, force)
  \/ \E n \in Places, m \in Models : BeginFit(p, n, m)

TripStep(p) ==
  \/ LockSource(p) \/ LockSourceTemplate(p) \/ CheckSource(p)
  \/ WriteArchive(p) \/ Upload(p)
  \/ OpenArchive(p) \/ Resolve(p) \/ Download(p)
  \/ LoadLocal(p) \/ CopyLocal(p) \/ CopyLocalTemplate(p)
  \/ LockTarget(p) \/ LockTemplate(p) \/ Decide(p)
  \/ PromoteTemplate(p) \/ PromoteManifold(p)
  \/ ResolveTemplate(p) \/ PublishAuthored(p) \/ PublishFit(p)
  \/ HostDies(p)

TripNext ==
  \/ \E p \in Hosts : TripStart(p) \/ TripStep(p)
  \/ \E n \in Places, text \in Texts : Edit(n, text)
  \/ \E text \in Texts \cup {Gone} : WriteTemplate(text)
  \/ DamageArchive

TripSpec == TripInit /\ [][TripNext]_tripVars

-----------------------------------------------------------------------------
\* A closure holds together: its template renders to its corpus, and each of
\* its pairs was fitted on just that corpus and template, under its name.
IsWhole(c) ==
  LET f == c.folder IN
  /\ f.ref => c.template = f.labels /\ c.template = f.corpus
  /\ \A m \in Models : f.fits[m] # Unset =>
       f.fits[m] = [name |-> f.name, of |-> <<f.labels, f.corpus, c.template>>]

SameContent(f, g) ==
  /\ <<f.labels, f.corpus, f.ref>> = <<g.labels, g.corpus, g.ref>>
  /\ \A m \in Models : (f.fits[m] = Unset) = (g.fits[m] = Unset)

\* Whatever else was writing the manifold and its template, and whatever died,
\* an archive is of one moment; what an install puts in place is whole at that
\* moment, and is what its archive declared, or the commit its source names; and
\* a fit never lands in a folder that an install put in place of the one it began on.
TravelsWhole ==
  /\ archive # Gone => IsWhole(archive.digests)
  /\ \A k \in 1..Len(hub) :
       /\ IsWhole(hub[k].archive.digests)
       /\ hub[k].summary = hub[k].archive.digests.folder
  /\ parcel # Gone =>
       /\ IsWhole(parcel.closure)
       /\ parcel.declared # Unset =>
            SameContent(parcel.closure.folder, parcel.declared)
       /\ parcel.closure.folder.source = parcel.commit
       /\ parcel.commit # Unset =>
            SameContent(parcel.closure.folder,
                        hub[parcel.commit].archive.digests.folder)
  /\ ~strays

\* An install never replaces a template under another manifold that refers to
\* it, however installs, removals and crashes interleave.
SharedTemplateIsKept ==
  [][(shared # Gone /\ shared' # shared) =>
       \A p \in Hosts : at[p] = "ptemplate" /\ at'[p] = "pmanifold" =>
         \A n \in Places \ {trip[p].to} : home[n] # Gone => ~home[n].ref]_tripVars
=============================================================================
