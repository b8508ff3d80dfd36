--------------------------- MODULE ManifoldStore ---------------------------
(***************************************************************************)
(* Manifold folders on disk, as threads and processes fit, author, clear,  *)
(* remove, replace and merge them, and as crashes leave them.              *)
(*                                                                         *)
(*   drowse/fit/publish.py               snapshot and compare-and-swap     *)
(*   drowse/fit/pipeline.py              fit                               *)
(*   drowse/fit/bake.py                  merge                             *)
(*   drowse/base/staging.py              recover_backup, promote           *)
(*   drowse/store/manifold_folder.py     locks, proofs, corpus swap        *)
(*   drowse/store/manifold_tensors.py    save_manifold                     *)
(*   drowse/store/manifold_lifecycle.py  clear, rm                         *)
(*   drowse/store/manifold_authoring.py  create, update, baked folders     *)
(*                                                                         *)
(* A lock is held exactly while its holder is in a section of the code, so *)
(* the locks are read off the program counters.  A process that dies loses *)
(* its locks and its memory; renames and single files are atomic.          *)
(***************************************************************************)
EXTENDS Integers, Sequences, TLC

CONSTANTS
  Procs,       \* threads and processes that use the store
  Folders,     \* manifold names
  Targets,     \* the fitted pairs of a folder, by model and variant
  Scopes,      \* what a clear may select: a model or All, a variant or All
  Transferred, \* the targets a transfer writes; a fit writes the others
  Corpora,     \* node corpora; a template renders to one of them
  Installed,   \* the folders that are installed and fitted at the start
  Absent, None, All,
  Menus,       \* the operations a behaviour runs are those of one menu
  MaxOps,      \* bound: operations and template edits
  MaxCrashes   \* bound: processes that die

StoreOps == {"fit", "clear", "remove", "create", "refresh", "update",
             "merge", "transfer", "template"}
Missing == None    \* nodes/ is not there

ASSUME StoreAssumption ==
  /\ None \notin Procs \cup Corpora \cup Nat
  /\ Transferred \subseteq Targets /\ Installed \subseteq Folders
  /\ \A menu \in Menus : menu \subseteq StoreOps
  /\ \A t \in Targets : Len(t) = 2 /\ All \notin {t[1], t[2]}
  /\ \A s \in Scopes : s = <<s[1], s[2]>>
  /\ MaxOps \in Nat /\ MaxCrashes \in Nat

VARIABLES
  dir,       \* the folder under its name, or Absent
  backup,    \* the folder parked by a swap, or Absent
  template,  \* what the template the folders refer to renders to
  pc, task,  \* where each process is, and what it is doing
  menu, ops, crashes,
  lasting    \* history: which folder a name should hold

storeVars == <<dir, backup, template, pc, task, menu, ops, crashes, lasting>>

\* What most steps of a call leave alone.
World == <<backup, template, menu, ops, crashes, lasting>>

NoPairs == [t \in Targets |-> None]

\* A folder: its manifest (identity, epochs, proofs, coordinates), its corpus,
\* and the two halves of each fitted pair.  birth and clears are history.
Folder(kind, corpus, birth) ==
  [kind |-> kind, nodes |-> corpus, coords |-> corpus,
   id |-> None, epochs |-> [s \in Scopes |-> 0],
   side |-> NoPairs, tens |-> NoPairs, proof |-> NoPairs,
   birth |-> birth, clears |-> [t \in Targets |-> 0]]

\* A folder whose pair of target t was fitted, or baked, by operation n.
WithPair(d, t, n) ==
  LET s == [no |-> n, of |-> <<d.nodes, d.coords>>] IN
  [d EXCEPT !.side[t] = s, !.tens[t] = n, !.proof[t] = [side |-> s, tens |-> n]]

NoSnapshot == [id |-> None, epochs |-> <<>>, authoring |-> None, source |-> None]

\* What a process is doing: the call's arguments, the stage of a fit, what the
\* fit saw in the folder (snap, and for the record birth and clears), and the
\* template it resolved; locked are the pairs whose locks it holds.
NoTask ==
  [op |-> None, no |-> 0, folder |-> None, target |-> None, scope |-> None,
   corpus |-> None, force |-> FALSE, src |-> None, stage |-> None,
   tmpl |-> None, snap |-> NoSnapshot, birth |-> 0, clears |-> 0, locked |-> {}]

---------------------------------------------------------------------------
(* Locks, read off the program counters.                                   *)

ManifestSection ==
  {"repair", "snapshot", "swap", "meta", "saveSide", "saveTensor", "prove",
   "deleteFiles", "clearManifest", "removeDir",
   "recover", "park", "promote", "dropBackup", "mergeRead"}

HoldsManifest(p, f) == pc[p] \in ManifestSection /\ task[p].folder = f
ManifestFree(p, f) == \A q \in Procs \ {p} : ~HoldsManifest(q, f)

HoldsPair(p, f, t) == task[p].folder = f /\ t \in task[p].locked
PairsFree(p, f, ts) == \A q \in Procs \ {p}, t \in ts : ~HoldsPair(q, f, t)
PairFree(p, f, t) == PairsFree(p, f, {t})

FitSection == {"prepare", "repair", "snapshot", "swap", "meta", "lookup",
               "confirm", "publish", "saveSide", "saveTensor", "prove"}
FitFree(p, f, t) ==
  \A q \in Procs \ {p} : ~( /\ task[q].op = "fit" /\ pc[q] \in FitSection
                            /\ task[q].folder = f /\ task[q].target = t )

GoTo(p, l) == pc' = [pc EXCEPT ![p] = l]

\* The call returns or raises; its locks go with it.
Leave_KeepsLocks(p) == GoTo(p, "idle") /\ UNCHANGED task
Leave(p) ==
  /\ GoTo(p, "idle")
  /\ task' = [task EXCEPT ![p] = NoTask]

Start(p, call, first) ==
  /\ pc[p] = "idle" /\ call.op \in menu /\ ops < MaxOps
  /\ ops' = ops + 1
  /\ task' = [task EXCEPT ![p] = [call EXCEPT !.no = ops + 1]]
  /\ GoTo(p, first)
  /\ UNCHANGED <<dir, backup, template, menu, crashes, lasting>>

---------------------------------------------------------------------------
(* What is read off a folder.                                              *)

\* The epochs a revision of target t includes.
EpochKeys_NotModel(t) == Scopes \cap {<<All, All>>, <<All, t[2]>>}
EpochKeys(t) == Scopes \cap ({All, t[1]} \X {All, t[2]})

Selects(scope, t) == scope[1] \in {All, t[1]} /\ scope[2] \in {All, t[2]}

\* nodes_sha256: the corpus with the coordinates, or with the template.
Authoring(d, tmpl) ==
  <<d.nodes, IF d.kind = "templated" THEN tmpl ELSE d.coords>>

Revision_NoIdentity(d, t, tmpl) ==
  [NoSnapshot EXCEPT !.epochs = [s \in EpochKeys(t) |-> d.epochs[s]],
                     !.authoring = Authoring(d, tmpl)]
Revision(d, t, tmpl) ==
  [NoSnapshot EXCEPT !.id = d.id,
                     !.epochs = [s \in EpochKeys(t) |-> d.epochs[s]],
                     !.authoring = Authoring(d, tmpl)]

\* prove_pair: the manifest's digests are those of the halves on disk.
Proven_TensorOnly(d, t) == d.proof[t] # None /\ d.proof[t].tens = d.tens[t]
Proven(d, t) ==
  d.proof[t] # None /\ d.proof[t] = [side |-> d.side[t], tens |-> d.tens[t]]

HalfPair(d, t) == (d.side[t] = None) # (d.tens[t] = None)

---------------------------------------------------------------------------
(* ManifoldExtractionPipeline.fit: a snapshot under the manifest lock, the *)
(* published fit if it is current, else the device work and a publication  *)
(* that compares and swaps.                                                *)

Fit(p, f, t, force) ==
  /\ FitFree(p, f, t)
  /\ Start(p, [NoTask EXCEPT !.op = "fit", !.folder = f, !.target = t,
                             !.force = force, !.stage = "prepare"], "prepare")

\* The manifest lock is taken for the snapshot of a stage; the snapshot of
\* `prepare` repairs a half pair first, under the pair lock.
EnterSnapshot(p) ==
  LET f == task[p].folder IN
  /\ pc[p] \in {"prepare", "confirm", "publish"}
  /\ ManifestFree(p, f)
  /\ IF dir[f] = Absent
     THEN Leave(p)
     ELSE /\ GoTo(p, IF pc[p] = "prepare" THEN "repair" ELSE "snapshot")
          /\ task' = [task EXCEPT ![p].tmpl = None]
  /\ UNCHANGED <<dir, World>>

Repaired(d, t) ==
  IF HalfPair(d, t)
  THEN [d EXCEPT !.side[t] = None, !.tens[t] = None, !.proof[t] = None]
  ELSE d

Repair(p) ==
  LET f == task[p].folder  t == task[p].target IN
  /\ pc[p] = "repair"
  /\ PairFree(p, f, t)
  /\ dir' = [dir EXCEPT ![f] = Repaired(@, t)]
  /\ GoTo(p, "snapshot")
  /\ UNCHANGED <<task, World>>

WithIdentity(d, id) == IF d.id = None THEN [d EXCEPT !.id = id] ELSE d

\* The check that compares the revision of now with the snapshot's.
Unchanged(p, d, tmpl) == Revision(d, task[p].target, tmpl) = task[p].snap

\* _authoring_snapshot_locked.  A folder without an identity gets one, a
\* templated corpus that drifted is rewritten (and read again), then the
\* revision is taken, or compared with the one the fit runs against.
TakeSnapshot(p) ==
  LET f == task[p].folder  t == task[p].target
      d == WithIdentity(dir[f], <<task[p].no, task[p].stage>>)
      tmpl == IF task[p].tmpl = None THEN template ELSE task[p].tmpl
      drifted == d.kind = "templated" /\ d.nodes # tmpl
  IN
  /\ pc[p] = "snapshot"
  /\ dir' = [dir EXCEPT ![f] = IF drifted /\ d.nodes # Missing
                               THEN [d EXCEPT !.nodes = Missing] ELSE d]
  /\ \/ /\ d.nodes = Missing \/ d.kind = "baked"
        /\ Leave(p)
     \/ /\ d.nodes # Missing /\ d.kind # "baked" /\ drifted
        /\ task' = [task EXCEPT ![p].tmpl = tmpl, ![p].corpus = tmpl]
        /\ GoTo(p, "swap")
     \/ /\ d.nodes # Missing /\ d.kind # "baked" /\ ~drifted
        /\ CASE task[p].stage = "prepare" ->
                  /\ task' = [task EXCEPT ![p].snap = Revision(d, t, tmpl),
                                          ![p].birth = d.birth,
                                          ![p].clears = d.clears[t]]
                  /\ GoTo(p, "lookup")
             [] task[p].stage = "publish" /\ Unchanged(p, d, tmpl) ->
                  UNCHANGED task /\ GoTo(p, "saveSide")
             [] OTHER -> Leave(p)
  /\ UNCHANGED World

\* write_node_corpus has removed nodes/; the staged corpus takes its place.
SwapCorpus(p) ==
  /\ pc[p] = "swap"
  /\ dir' = [dir EXCEPT ![task[p].folder].nodes = task[p].corpus]
  /\ GoTo(p, "meta")
  /\ UNCHANGED <<task, World>>

\* write_metadata: the coordinates of the new corpus.
WriteMetadata(p) ==
  LET f == task[p].folder IN
  /\ pc[p] = "meta"
  /\ dir' = [dir EXCEPT ![f].coords = task[p].corpus]
  /\ IF task[p].op = "fit"
     THEN GoTo(p, "snapshot") /\ UNCHANGED task
     ELSE Leave(p)
  /\ UNCHANGED World

\* load_published_fit, under the pair lock alone: a proven pair whose sidecar
\* records these inputs.  A hit is returned if the revision is confirmed; a
\* miss is computed, and then published.
LookUp_KeepsPairLock(p) ==
  LET f == task[p].folder  t == task[p].target
      hit == /\ ~task[p].force /\ dir[f] # Absent /\ Proven(dir[f], t)
             /\ dir[f].side[t].of = task[p].snap.authoring
      stage == IF hit THEN "confirm" ELSE "publish"
  IN
  /\ pc[p] = "lookup"
  /\ PairFree(p, f, t)
  /\ task' = [task EXCEPT ![p].stage = stage,
                          ![p].locked = {t}]
  /\ GoTo(p, stage)
  /\ UNCHANGED <<dir, World>>
LookUp(p) ==
  LET f == task[p].folder  t == task[p].target
      hit == /\ ~task[p].force /\ dir[f] # Absent /\ Proven(dir[f], t)
             /\ dir[f].side[t].of = task[p].snap.authoring
      stage == IF hit THEN "confirm" ELSE "publish"
  IN
  /\ pc[p] = "lookup"
  /\ PairFree(p, f, t)
  /\ task' = [task EXCEPT ![p].stage = stage]
  /\ GoTo(p, stage)
  /\ UNCHANGED <<dir, World>>

\* The device work raises: the fit ends with nothing published.
FitFails(p) ==
  /\ pc[p] = "publish"
  /\ Leave(p)
  /\ UNCHANGED <<dir, World>>

\* save_manifold replaces the sidecar, then the tensor, under the pair lock.
SaveSidecar(p) ==
  LET f == task[p].folder  t == task[p].target IN
  /\ pc[p] = "saveSide"
  /\ PairFree(p, f, t)
  /\ dir' = [dir EXCEPT ![f].side[t] =
               [no |-> task[p].no, of |-> task[p].snap.authoring]]
  /\ task' = [task EXCEPT ![p].locked = @ \cup {t}]
  /\ GoTo(p, "saveTensor")
  /\ UNCHANGED World

SaveTensor(p) ==
  LET f == task[p].folder  t == task[p].target IN
  /\ pc[p] = "saveTensor"
  /\ dir' = [dir EXCEPT ![f].tens[t] = task[p].no]
  /\ task' = [task EXCEPT ![p].locked =
                            IF task[p].op = "transfer" THEN @ ELSE {}]
  /\ GoTo(p, "prove")
  /\ UNCHANGED World

\* update_file_hashes: the manifest vouches for the files just written.
ProofsAfter(d, t) ==
  [d.proof EXCEPT ![t] = [side |-> d.side[t], tens |-> d.tens[t]]]

Prove(p) ==
  LET f == task[p].folder  t == task[p].target IN
  /\ pc[p] = "prove"
  /\ dir' = [dir EXCEPT ![f].proof = ProofsAfter(dir[f], t)]
  /\ Leave(p)
  /\ UNCHANGED World

---------------------------------------------------------------------------
(* clear and rm.                                                           *)

\* The halves of the selected pairs that are on disk.
OnDisk(d, ts) == {t \in ts : d.side[t] # None \/ d.tens[t] # None}

WithoutFiles(d, ts) ==
  [d EXCEPT !.side = [t \in Targets |-> IF t \in ts THEN None ELSE @[t]],
            !.tens = [t \in Targets |-> IF t \in ts THEN None ELSE @[t]]]

Clear(p, f, scope) ==
  Start(p, [NoTask EXCEPT !.op = "clear", !.folder = f, !.scope = scope],
        "clear")

RemoveFolder(p, f) ==
  Start(p, [NoTask EXCEPT !.op = "remove", !.folder = f,
                          !.scope = <<All, All>>], "remove")

\* A folder that is not there, and a clear of a baked one, are refused.
EnterDelete(p) ==
  LET f == task[p].folder IN
  /\ pc[p] \in {"clear", "remove"}
  /\ ManifestFree(p, f)
  /\ IF dir[f] = Absent \/ (pc[p] = "clear" /\ dir[f].kind = "baked")
     THEN Leave(p)
     ELSE GoTo(p, "deleteFiles") /\ UNCHANGED task
  /\ UNCHANGED <<dir, World>>

DeleteFiles(p) ==
  LET f == task[p].folder
      ts == OnDisk(dir[f], {t \in Targets : Selects(task[p].scope, t)})
  IN
  /\ pc[p] = "deleteFiles"
  /\ PairsFree(p, f, ts)
  /\ dir' = [dir EXCEPT ![f] = WithoutFiles(@, ts)]
  /\ task' = [task EXCEPT ![p].locked = ts]
  /\ GoTo(p, IF task[p].op = "clear" THEN "clearManifest" ELSE "removeDir")
  /\ UNCHANGED World

\* The proofs of a clear's targets go, and its epoch is bumped.
Cleared(d, scope) ==
  [d EXCEPT !.proof = [t \in Targets |->
                         IF Selects(scope, t) THEN None ELSE @[t]],
            !.epochs[scope] = @ + 1,
            !.clears = [t \in Targets |->
                          IF Selects(scope, t) THEN @[t] + 1 ELSE @[t]]]

ClearManifest(p) ==
  LET f == task[p].folder IN
  /\ pc[p] = "clearManifest"
  /\ dir' = [dir EXCEPT ![f] = Cleared(@, task[p].scope)]
  /\ Leave(p)
  /\ UNCHANGED World

\* One rename takes the folder out of its namespace.
RemoveDir(p) ==
  LET f == task[p].folder IN
  /\ pc[p] = "removeDir"
  /\ dir' = [dir EXCEPT ![f] = Absent]
  /\ lasting' = [lasting EXCEPT ![f] = None]
  /\ Leave(p)
  /\ UNCHANGED <<backup, template, menu, ops, crashes>>

---------------------------------------------------------------------------
(* transfer: the source pair is proved, an alignment is computed without a *)
(* lock, and the mapped pair is saved if the source is still that pair.    *)

Transfer(p, f, src, t, force) ==
  Start(p, [NoTask EXCEPT !.op = "transfer", !.folder = f, !.src = src,
                          !.target = t, !.force = force], "preflight")

Transferable(d, src, t, force) ==
  Proven(d, src) /\ (Proven(d, t) => force)

\* _transfer_preflight_locked, with the locks of both pairs.
Preflight(p) ==
  LET f == task[p].folder  src == task[p].src  t == task[p].target IN
  /\ pc[p] = "preflight"
  /\ ManifestFree(p, f) /\ PairsFree(p, f, {src, t})
  /\ IF dir[f] # Absent /\ Transferable(dir[f], src, t, task[p].force)
     THEN /\ task' = [task EXCEPT ![p].snap.source =
                                             dir[f].proof[src]]
          /\ GoTo(p, "mapSource")
     ELSE Leave(p)
  /\ UNCHANGED <<dir, World>>

SameSource_Unchecked(p, d) == TRUE
SameSource(p, d) == d.proof[task[p].src] = task[p].snap.source

\* A stale source is refused; what is left of an unproven target goes.
MapSource(p) ==
  LET f == task[p].folder  src == task[p].src  t == task[p].target
      d == dir[f]
      usable == /\ d # Absent /\ Transferable(d, src, t, task[p].force)
                /\ SameSource(p, d) /\ d.nodes # Missing
                /\ d.side[src].of = Authoring(d, template)
  IN
  /\ pc[p] = "mapSource"
  /\ ManifestFree(p, f) /\ PairsFree(p, f, {src, t})
  /\ \/ /\ usable
        /\ dir' = [dir EXCEPT ![f] =
                     IF Proven(@, t) THEN @
                     ELSE [WithoutFiles(@, {t}) EXCEPT !.proof[t] = None]]
        /\ task' = [task EXCEPT ![p].snap.authoring = Authoring(d, template),
                                ![p].locked = {src, t}]
        /\ GoTo(p, "saveSide")
     \/ Leave(p) /\ UNCHANGED dir
  /\ UNCHANGED World

---------------------------------------------------------------------------
(* Whole-folder writers: create, the refresh of a bundled folder, a merge. *)

Create(p, f, kind, c, force) ==
  Start(p, [NoTask EXCEPT !.op = "create", !.folder = f, !.stage = kind,
                          !.corpus = c, !.force = force], "replace")

Refresh(p, f, c) ==
  Start(p, [NoTask EXCEPT !.op = "refresh", !.folder = f, !.stage = "authored",
                          !.corpus = c, !.force = TRUE], "replace")

Merge(p, f, src, t, force) ==
  Start(p, [NoTask EXCEPT !.op = "merge", !.folder = f, !.src = src,
                          !.target = t, !.stage = "baked", !.force = force],
        "replace")

EnterReplace(p) ==
  /\ pc[p] = "replace"
  /\ ManifestFree(p, task[p].folder)
  /\ GoTo(p, IF task[p].op = "merge" THEN "mergeRead" ELSE "recover")
  /\ UNCHANGED <<dir, task, World>>

\* _resolve_component, with the destination's manifest lock held: the source's
\* locks are taken too, and its pair is read if it is proven and current.
MergeRead(p) ==
  LET g == task[p].src  t == task[p].target
      usable == /\ dir[g] # Absent /\ dir[g].nodes # Missing
                /\ Proven(dir[g], t)
                /\ \/ dir[g].kind = "baked"
                   \/ dir[g].side[t].of = Authoring(dir[g], template)
  IN
  /\ pc[p] = "mergeRead"
  /\ ManifestFree(p, g) /\ PairFree(p, g, t)
  /\ IF usable
     THEN /\ GoTo(p, "recover")
          /\ task' = [task EXCEPT ![p].corpus = dir[g].nodes]
     ELSE Leave(p)
  /\ UNCHANGED <<dir, World>>

\* recover_backup, then the policy on a name that is taken.
Recover_NeverRestores(f) == UNCHANGED dir
Recover(f) == dir' = [dir EXCEPT ![f] = IF @ = Absent THEN backup[f] ELSE @]

RecoverBackup(p) ==
  LET f == task[p].folder IN
  /\ pc[p] = "recover"
  /\ Recover(f)
  /\ backup' = [backup EXCEPT ![f] = Absent]
  /\ IF dir'[f] # Absent /\ ~task[p].force
     THEN Leave(p)
     ELSE GoTo(p, "park") /\ UNCHANGED task
  /\ UNCHANGED <<template, menu, ops, crashes, lasting>>

\* promote's first rename.  The staged folder is built by then.
Park(p) ==
  LET f == task[p].folder
      ts == IF dir[f] = Absent THEN {} ELSE OnDisk(dir[f], Targets)
  IN
  /\ pc[p] = "park"
  /\ PairsFree(p, f, ts)
  /\ backup' = [backup EXCEPT ![f] = dir[f]]
  /\ dir' = [dir EXCEPT ![f] = Absent]
  /\ task' = [task EXCEPT ![p].locked = ts]
  /\ GoTo(p, "promote")
  /\ UNCHANGED <<template, menu, ops, crashes, lasting>>

\* What the writer staged.  The refresh of a bundled folder carries the fitted
\* pairs of the one it replaces, with their proofs, and nothing else of it.
Staged(p) ==
  LET f == task[p].folder
      new == Folder(task[p].stage, task[p].corpus, task[p].no)
      old == backup[f]
  IN CASE task[p].op = "merge" -> WithPair(new, task[p].target, task[p].no)
       [] task[p].op = "refresh" /\ old # Absent ->
            [new EXCEPT !.side = old.side, !.tens = old.tens,
                        !.proof = old.proof]
       [] OTHER -> new

\* The second rename, or its failure, which puts the old folder back.
Promote(p) ==
  LET f == task[p].folder IN
  /\ pc[p] = "promote"
  /\ dir' = [dir EXCEPT ![f] = Staged(p)]
  /\ lasting' = [lasting EXCEPT ![f] = task[p].no]
  /\ IF backup[f] = Absent THEN Leave(p)
     ELSE GoTo(p, "dropBackup") /\ UNCHANGED task
  /\ UNCHANGED <<backup, template, menu, ops, crashes>>

PutBack(f) ==
  /\ dir' = [dir EXCEPT ![f] = backup[f]]
  /\ backup' = [backup EXCEPT ![f] = Absent]

PromoteFails(p) ==
  /\ pc[p] = "promote"
  /\ PutBack(task[p].folder) \/ UNCHANGED <<dir, backup>>
  /\ Leave(p)
  /\ UNCHANGED <<template, menu, ops, crashes, lasting>>

\* The parked folder is deleted; an error in it is ignored.
DropBackup(p) ==
  /\ pc[p] = "dropBackup"
  /\ \/ backup' = [backup EXCEPT ![task[p].folder] = Absent]
     \/ UNCHANGED backup
  /\ Leave(p)
  /\ UNCHANGED <<dir, template, menu, ops, crashes, lasting>>

---------------------------------------------------------------------------
(* In-place authoring, templates, crashes.                                 *)

Update(p, f, c) ==
  Start(p, [NoTask EXCEPT !.op = "update", !.folder = f, !.corpus = c],
        "update")

\* A folder whose corpus is missing does not load; only authored ones take it.
EnterUpdate(p) ==
  LET f == task[p].folder IN
  /\ pc[p] = "update"
  /\ ManifestFree(p, f)
  /\ IF dir[f] # Absent /\ dir[f].kind = "authored" /\ dir[f].nodes # Missing
     THEN /\ dir' = [dir EXCEPT ![f].nodes = Missing]
          /\ GoTo(p, "swap")
          /\ UNCHANGED task
     ELSE Leave(p) /\ UNCHANGED dir
  /\ UNCHANGED World

EditTemplate(c) ==
  /\ "template" \in menu /\ ops < MaxOps /\ template # c
  /\ template' = c
  /\ ops' = ops + 1
  /\ UNCHANGED <<dir, backup, pc, task, menu, crashes, lasting>>

Crash(p) ==
  /\ pc[p] # "idle" /\ crashes < MaxCrashes
  /\ crashes' = crashes + 1
  /\ Leave(p)
  /\ UNCHANGED <<dir, backup, template, menu, ops, lasting>>

---------------------------------------------------------------------------
\* A folder with all its pairs fitted.
FittedFolder(kind, c) ==
  LET half == [no |-> 0, of |-> <<c, c>>] IN
  [Folder(kind, c, 0) EXCEPT
     !.id = <<0, "prepare">>,
     !.side = [t \in Targets |-> half], !.tens = [t \in Targets |-> 0],
     !.proof = [t \in Targets |-> [side |-> half, tens |-> 0]]]

StoreInit ==
  \E kind \in {"authored", "templated"}, c \in Corpora :
    /\ dir = [f \in Folders |-> IF f \in Installed THEN FittedFolder(kind, c)
                               ELSE Absent]
    /\ backup = [f \in Folders |-> Absent]
    /\ template = c
    /\ pc = [p \in Procs |-> "idle"]
    /\ task = [p \in Procs |-> NoTask]
    /\ menu \in Menus /\ ops = 0 /\ crashes = 0
    /\ lasting = [f \in Folders |-> IF f \in Installed THEN 0 ELSE None]

\* What a process inside a call does next.
Proceed(p) ==
  \/ EnterSnapshot(p) \/ Repair(p) \/ TakeSnapshot(p) \/ SwapCorpus(p)
  \/ WriteMetadata(p) \/ LookUp(p) \/ FitFails(p) \/ SaveSidecar(p)
  \/ SaveTensor(p) \/ Prove(p) \/ EnterDelete(p) \/ DeleteFiles(p)
  \/ ClearManifest(p) \/ RemoveDir(p) \/ EnterReplace(p) \/ MergeRead(p)
  \/ RecoverBackup(p) \/ Park(p) \/ Promote(p) \/ PromoteFails(p)
  \/ DropBackup(p) \/ EnterUpdate(p) \/ Preflight(p) \/ MapSource(p)

Call(p) == \E f \in Folders :
  \/ \E t \in Targets, force \in BOOLEAN :
       \/ t \notin Transferred /\ Fit(p, f, t, force)
       \/ t \in Transferred /\ \E src \in Targets \ Transferred :
            Transfer(p, f, src, t, force)
       \/ \E src \in Folders : Merge(p, f, src, t, force)
  \/ \E scope \in Scopes : Clear(p, f, scope)
  \/ RemoveFolder(p, f)
  \/ \E c \in Corpora :
       \/ Refresh(p, f, c)
       \/ Update(p, f, c)
       \/ \E kind \in {"authored", "templated"}, force \in BOOLEAN :
            Create(p, f, kind, c, force)

StoreNext ==
  \/ \E p \in Procs : Call(p) \/ Proceed(p) \/ Crash(p)
  \/ \E c \in Corpora : EditTemplate(c)

StoreSpec == StoreInit /\ [][StoreNext]_storeVars

SymmetricProcs == Permutations(Procs)

---------------------------------------------------------------------------
(* Properties.                                                             *)

Pcs == ManifestSection \cup FitSection \cup
       {"idle", "clear", "remove", "replace", "update", "preflight", "mapSource"}

\* A fitted half, the identity a folder is given, what a manifest vouches for,
\* and a folder.
Halves == [no : Nat, of : Corpora \X Corpora]
Stages == {"prepare", "confirm", "publish"}
Identities == Nat \X Stages
Proofs == [side : Halves \cup {None}, tens : Nat \cup {None}]
FolderKinds == {"authored", "templated", "baked"}
FolderRecords ==
  [kind : FolderKinds, nodes : Corpora \cup {Missing}, coords : Corpora,
   id : Identities \cup {None}, epochs : [Scopes -> Nat],
   side : [Targets -> Halves \cup {None}], tens : [Targets -> Nat \cup {None}],
   proof : [Targets -> Proofs \cup {None}], birth : Nat, clears : [Targets -> Nat]]

\* What stands for nothing is none of the things it stands beside.
ASSUME SentinelsAssumption ==
  None \notin Halves \cup Identities \cup Proofs /\ Absent \notin FolderRecords

StoreTypeOK ==
  /\ dir \in [Folders -> FolderRecords \cup {Absent}]
  /\ backup \in [Folders -> FolderRecords \cup {Absent}]
  /\ template \in Corpora
  /\ pc \in [Procs -> Pcs]
  /\ \A p \in Procs : pc[p] = "idle" <=> task[p] = NoTask
  /\ ops \in 0..MaxOps /\ crashes \in 0..MaxCrashes

\* A pair the manifest vouches for is the sidecar and the tensor of one fit,
\* whatever died between the two replacements and the proof (save_manifold,
\* update_file_hashes, prove_pair).
ProvenPairIsWhole ==
  \A f \in Folders, t \in Targets :
    dir[f] # Absent /\ Proven(dir[f], t) =>
      dir[f].side[t] # None /\ dir[f].side[t].no = dir[f].tens[t]

\* A fit is saved only into the folder it was computed from: the same folder
\* under that name, its target not cleared since, its corpus and coordinates
\* those of the snapshot (publish_fit_if_current).
PublishesWhatItSaw ==
  \A p \in Procs :
    task[p].op = "fit" /\ pc[p] \in {"saveSide", "saveTensor", "prove"} =>
      LET d == dir[task[p].folder] IN
      /\ d # Absent
      /\ d.birth = task[p].birth
      /\ d.clears[task[p].target] = task[p].clears
      /\ d.nodes = task[p].snap.authoring[1]
      /\ d.kind = "authored" => d.coords = task[p].snap.authoring[2]

\* A transfer maps the pair its alignment was computed from: that sidecar and
\* that tensor are on disk until the mapped pair is proved, whatever was fitted,
\* cleared or refreshed between the two transactions (transfer_manifold).
TransfersWhatItAligned ==
  \A p \in Procs :
    task[p].op = "transfer" /\ pc[p] \in {"saveSide", "saveTensor", "prove"} =>
      LET d == dir[task[p].folder]  src == task[p].src IN
      d # Absent /\ task[p].snap.source = [side |-> d.side[src],
                                          tens |-> d.tens[src]]

\* What a reader takes for a fit is one: computed from what is in the folder,
\* and the two files of one computation.
SavesWhatItComputed ==
  ProvenPairIsWhole /\ PublishesWhatItSaw /\ TransfersWhatItAligned

\* A folder that was installed and not removed is under its name or parked
\* where the next writer restores it, at any crash and failed rename (promote,
\* recover_backup).
FolderIsNeverLost ==
  \A f \in Folders : lasting[f] # None =>
    LET d == IF dir[f] = Absent THEN backup[f] ELSE dir[f] IN
    d # Absent /\ d.birth = lasting[f]

\* Writers of one folder, dying at any step, neither lose it nor leave in it
\* what a reader would wrongly take for a fit.
FolderIsSound == SavesWhatItComputed /\ FolderIsNeverLost

\* Merges that wait for each other: each reads its source under the lock of its
\* destination (bake.py:261), and its source is the destination of another.
CrossedMerges(ps) ==
  /\ ps # {}
  /\ \A p \in ps :
       /\ pc[p] = "mergeRead"
       /\ \E q \in ps \ {p} : task[p].src = task[q].folder

\* Of the calls of all processes one can go on, whatever folders and pairs they
\* lock, unless merges have crossed.  The order of the locks ("Artifact locks",
\* ARCHITECTURE.md:757) keeps fits, transfers, clears, removals and writers from
\* waiting for each other, and one merge from any of them; it does not order
\* two manifests, which merges alone hold together.
NobodyWaitsForEver ==
  \/ \A p \in Procs : pc[p] = "idle"
  \/ \E p \in Procs : ENABLED Proceed(p)
  \/ \E ps \in SUBSET Procs : CrossedMerges(ps)

\* A removed folder does not come back: staging.py:49-50 says of a backup beside
\* a live folder that "it is discarded".
RemovedStaysRemoved ==
  \A f \in Folders : lasting[f] = None => dir[f] = Absent

=============================================================================
