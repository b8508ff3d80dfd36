------------------------------ MODULE StoreProofs ------------------------------
(***************************************************************************)
(* What the manifold folders and the lens store promise, for any           *)
(* processes, names, targets, scopes, corpora, layers and bounds.          *)
(*                                                                         *)
(*   StoreInvariant       the inductive invariant                          *)
(*   StoreTypeCorrect     every folder, parked folder and task is one      *)
(*   FoldersStaySound     no writer loses a folder, and what a manifest    *)
(*                        vouches for was computed from that folder        *)
(*   LensFitInvariant     what a lens run knows at each of its places       *)
(*   DurableStays         a manifest on disk goes only for a complete lens  *)
(*   LensExactInvariant   what the matrices on disk and in memory are of    *)
(*   LensStaysExact       no document counted twice, missed or borrowed     *)
(***************************************************************************)
EXTENDS ManifoldStore, LensFit, TLAPS

\* What a process is doing.
NoEpochs == <<>>
EpochMaps == {NoEpochs} \cup UNION {[EpochKeys(t) -> Nat] : t \in Targets}
Snapshots ==
  [id : Identities \cup {None}, epochs : EpochMaps,
   authoring : (Corpora \X Corpora) \cup {None}, source : Proofs \cup {None}]
Tasks ==
  [op : StoreOps \cup {None}, no : Nat, folder : Folders \cup {None},
   target : Targets \cup {None}, scope : Scopes \cup {<<All, All>>, None},
   corpus : Corpora \cup {None}, force : BOOLEAN, src : Targets \cup Folders \cup {None},
   stage : Stages \cup FolderKinds \cup {None}, tmpl : Corpora \cup {None},
   snap : Snapshots, birth : Nat, clears : Nat, locked : SUBSET Targets]

Writing == {"create", "refresh", "merge"}

\* The call a process can be in at each place of the code.
CallAt(l, op) ==
  /\ l \in {"prepare", "repair", "snapshot", "lookup", "confirm", "publish"} => op = "fit"
  /\ l \in {"swap", "meta"} => op \in {"fit", "update"}
  /\ l \in {"saveSide", "saveTensor", "prove"} => op \in {"fit", "transfer"}
  /\ l \in {"preflight", "mapSource"} => op = "transfer"
  /\ l \in {"clear", "clearManifest"} => op = "clear"
  /\ l \in {"remove", "removeDir"} => op = "remove"
  /\ l = "deleteFiles" => op \in {"clear", "remove"}
  /\ l \in {"replace", "recover", "park", "promote", "dropBackup"} => op \in Writing
  /\ l = "mergeRead" => op = "merge"
  /\ l = "update" => op = "update"

\* The arguments of the call w at l, the n-th call being the last one made.
Arguments(l, w, n) ==
  l # "idle" =>
    /\ CallAt(l, w.op) /\ w.no \in 1..n /\ w.folder \in Folders
    /\ w.op = "fit" => w.target \in Targets /\ w.stage \in Stages
    /\ w.op = "fit" /\ l \in {"prepare", "repair", "lookup"} => w.stage = "prepare"
    /\ w.op = "fit" /\ l \in {"confirm", "publish"} => w.stage = l
    /\ w.op = "transfer" => w.target \in Transferred /\ w.src \in Targets \ Transferred
    /\ w.op = "clear" => w.scope \in Scopes
    /\ w.op \in Writing => w.stage \in FolderKinds
    /\ w.op = "merge" => w.src \in Folders /\ w.target \in Targets
    /\ w.op \in {"create", "refresh", "update"} => w.corpus \in Corpora
    /\ l \in {"swap", "meta", "recover", "park", "promote"} => w.corpus \in Corpora
    /\ l = "saveSide" => w.snap.authoring \in Corpora \X Corpora

\* One process at a time works in a folder.
OneWriter ==
  \A p, q \in Procs :
    /\ pc[p] \in ManifestSection /\ pc[q] \in ManifestSection
    /\ task[p].folder = task[q].folder
    => p = q

\* What the process that holds a folder knows: d is the folder under its name, b
\* the one parked.
Holds(l, w, d, b) ==
  /\ l \in {"repair", "snapshot", "swap", "meta", "saveSide", "saveTensor", "prove",
            "deleteFiles", "clearManifest", "removeDir", "dropBackup"} => d # Absent
  /\ l = "park" => b = Absent
  /\ l = "promote" => d = Absent
  /\ l \in {"saveTensor", "prove"} =>
       d.side[w.target] # None /\ d.side[w.target].no = w.no
  /\ l = "prove" => d.tens[w.target] = w.no

\* A fit that saves saves into the folder it saw; a transfer maps the pair that
\* is there.
SavesInto(l, w, d) ==
  l \in {"saveSide", "saveTensor", "prove"} =>
    /\ w.op = "fit" =>
         /\ d.birth = w.birth /\ d.clears[w.target] = w.clears
         /\ d.nodes = w.snap.authoring[1]
         /\ d.kind = "authored" => d.coords = w.snap.authoring[2]
    /\ w.op = "transfer" =>
         w.snap.source = [side |-> d.side[w.src], tens |-> d.tens[w.src]]

\* A manifest vouches for whole pairs only.
Vouched(d) ==
  d # Absent =>
    \A t \in Targets : d.proof[t] # None =>
      d.proof[t].side # None /\ d.proof[t].side.no = d.proof[t].tens

\* A folder that should be there is, under its name or parked.
Kept(d, b, birth) ==
  birth # None => IF d # Absent THEN d.birth = birth ELSE b # Absent /\ b.birth = birth

\* A fit has taken its snapshot.
Snapped(l, w) ==
  l # "idle" /\ w.op = "fit" /\ (l = "lookup" \/ w.stage \in {"confirm", "publish"})

\* A folder with the identity a fit saw is the folder it saw; and while the epochs
\* are those it saw, its target was not cleared.
Seen(w, d) ==
  d # Absent /\ d.id = w.snap.id =>
    /\ d.birth = w.birth
    /\ \A s \in EpochKeys(w.target) : d.epochs[s] >= w.snap.epochs[s]
    /\ (\A s \in EpochKeys(w.target) : d.epochs[s] = w.snap.epochs[s])
         => d.clears[w.target] = w.clears

SnapshotsIdentify ==
  \A p \in Procs : Snapped(pc[p], task[p]) =>
    LET w == task[p] IN
    /\ w.snap.id \in Identities /\ w.snap.id[1] <= ops
    /\ w.snap.epochs \in [EpochKeys(w.target) -> Nat]
    /\ Seen(w, dir[w.folder]) /\ Seen(w, backup[w.folder])

\* The identity a fit may yet give, at stage s, to the folder d: no folder of the
\* name has it, and no snapshot of it.
MayGive(l, w, d, s) ==
  /\ l # "idle" /\ w.op = "fit"
  /\ \/ l \in {"prepare", "repair"}
     \/ l \in {"snapshot", "swap", "meta"} /\ s = w.stage /\ d.id = None
     \/ w.stage = "prepare" /\ s # "prepare"
     \/ l \in {"confirm", "publish"} /\ s # "prepare"
Unused(f, id) ==
  /\ dir[f] # Absent => dir[f].id # id
  /\ backup[f] # Absent => backup[f].id # id
  /\ \A q \in Procs :
       Snapped(pc[q], task[q]) /\ task[q].folder = f => task[q].snap.id # id
IdentitiesAreNew ==
  /\ \A p, q \in Procs :
       pc[p] # "idle" /\ pc[q] # "idle" /\ task[p].no = task[q].no => p = q
  /\ \A f \in Folders :
       /\ dir[f] # Absent /\ dir[f].id # None => dir[f].id[1] <= ops
       /\ backup[f] # Absent /\ backup[f].id # None => backup[f].id[1] <= ops
       /\ dir[f] # Absent /\ backup[f] # Absent /\ dir[f].id = backup[f].id
          => dir[f].id = None
  /\ \A p \in Procs, s \in Stages :
       MayGive(pc[p], task[p], dir[task[p].folder], s) =>
         Unused(task[p].folder, <<task[p].no, s>>)

\* The inductive invariant, in parts.
ShapeInv ==
  /\ StoreTypeOK /\ task \in [Procs -> Tasks] /\ lasting \in [Folders -> Nat \cup {None}]
  /\ \A p \in Procs : Arguments(pc[p], task[p], ops)
WriterInv ==
  \A p \in Procs :
    /\ Holds(pc[p], task[p], dir[task[p].folder], backup[task[p].folder])
    /\ SavesInto(pc[p], task[p], dir[task[p].folder])
FolderInv ==
  \A f \in Folders :
    Vouched(dir[f]) /\ Vouched(backup[f]) /\ Kept(dir[f], backup[f], lasting[f])
HistoryInv == SnapshotsIdentify /\ IdentitiesAreNew
StoreInv == ShapeInv /\ OneWriter /\ WriterInv /\ FolderInv /\ HistoryInv

---------------------------------------------------------------------------
(* Folders.                                                                *)

\* The same folder, as far as a snapshot tells.
Same(d, e) ==
  e.id = d.id /\ e.birth = d.birth /\ e.epochs = d.epochs /\ e.clears = d.clears

\* The same folder, with no epoch taken back and none of its targets cleared
\* without an epoch that says so.
Later(d, e) ==
  /\ e.id = d.id /\ e.birth = d.birth
  /\ \A s \in Scopes : e.epochs[s] >= d.epochs[s]
  /\ \A t \in Targets :
       (\A s \in EpochKeys(t) : e.epochs[s] = d.epochs[s]) => e.clears[t] = d.clears[t]

LEMMA SameIsLater ==
  ASSUME NEW d \in FolderRecords, NEW e, Same(d, e)
  PROVE  Later(d, e)
BY DEF Same, Later, FolderRecords

\* The corpus, and the coordinates, of a folder are replaced.
LEMMA SetNodes ==
  ASSUME NEW d \in FolderRecords, NEW c \in Corpora \cup {Missing}
  PROVE  LET e == [d EXCEPT !.nodes = c] IN
         /\ e \in FolderRecords /\ Same(d, e) /\ e.nodes = c
         /\ e.kind = d.kind /\ e.proof = d.proof
BY DEF FolderRecords, Same

LEMMA SetCoords ==
  ASSUME NEW d \in FolderRecords, NEW c \in Corpora
  PROVE  LET e == [d EXCEPT !.coords = c] IN
         /\ e \in FolderRecords /\ Same(d, e) /\ e.proof = d.proof
BY DEF FolderRecords, Same

\* A half is replaced.
LEMMA SetSide ==
  ASSUME NEW d \in FolderRecords, NEW t \in Targets, NEW s \in Halves \cup {None}
  PROVE  LET e == [d EXCEPT !.side[t] = s] IN
         /\ e \in FolderRecords /\ Same(d, e) /\ e.proof = d.proof /\ e.tens = d.tens
         /\ e.nodes = d.nodes /\ e.kind = d.kind /\ e.coords = d.coords
         /\ e.side[t] = s /\ \A u \in Targets \ {t} : e.side[u] = d.side[u]
BY DEF FolderRecords, Same

LEMMA SetTens ==
  ASSUME NEW d \in FolderRecords, NEW t \in Targets, NEW n \in Nat \cup {None}
  PROVE  LET e == [d EXCEPT !.tens[t] = n] IN
         /\ e \in FolderRecords /\ Same(d, e) /\ e.proof = d.proof /\ e.side = d.side
         /\ e.nodes = d.nodes /\ e.kind = d.kind /\ e.coords = d.coords
         /\ e.tens[t] = n /\ \A u \in Targets \ {t} : e.tens[u] = d.tens[u]
BY DEF FolderRecords, Same

\* The manifest vouches for the pair of one target.
LEMMA SetProof ==
  ASSUME NEW d \in FolderRecords, NEW t \in Targets, Vouched(d),
         d.side[t] \in Halves, d.tens[t] \in Nat, d.side[t].no = d.tens[t]
  PROVE  LET e == [d EXCEPT !.proof = ProofsAfter(d, t)] IN
         e \in FolderRecords /\ Same(d, e) /\ Vouched(e)
<1>1. d # Absent /\ None \notin Halves
  BY SentinelsAssumption
<1>2. [side |-> d.side[t], tens |-> d.tens[t]] \in Proofs
  BY DEF Proofs
<1>3. ProofsAfter(d, t) \in [Targets -> Proofs \cup {None}]
  BY <1>2 DEF ProofsAfter, FolderRecords
<1>4. [d EXCEPT !.proof = ProofsAfter(d, t)] \in FolderRecords
  BY <1>3 DEF FolderRecords
<1>5. \A u \in Targets : ProofsAfter(d, t)[u] # None =>
        ProofsAfter(d, t)[u].side # None /\ ProofsAfter(d, t)[u].side.no = ProofsAfter(d, t)[u].tens
  BY <1>1, <1>2 DEF ProofsAfter, FolderRecords, Vouched
<1> QED
  BY <1>4, <1>5 DEF FolderRecords, Same, Vouched

\* Halves go, with or without their proofs.
LEMMA DropHalves ==
  ASSUME NEW d \in FolderRecords, NEW ts
  PROVE  LET e == WithoutFiles(d, ts) IN
         /\ e \in FolderRecords /\ Same(d, e) /\ e.proof = d.proof
         /\ e.nodes = d.nodes /\ e.kind = d.kind /\ e.coords = d.coords
         /\ \A u \in Targets \ ts : e.side[u] = d.side[u] /\ e.tens[u] = d.tens[u]
BY DEF FolderRecords, Same, WithoutFiles

LEMMA DropProof ==
  ASSUME NEW d \in FolderRecords, NEW t \in Targets, Vouched(d)
  PROVE  LET e == [d EXCEPT !.proof[t] = None] IN
         /\ e \in FolderRecords /\ Same(d, e) /\ Vouched(e)
         /\ e.nodes = d.nodes /\ e.kind = d.kind /\ e.coords = d.coords
         /\ e.side = d.side /\ e.tens = d.tens
<1>1. d # Absent
  BY SentinelsAssumption
<1>2. [d EXCEPT !.proof[t] = None] \in FolderRecords
  BY DEF FolderRecords
<1>3. \A u \in Targets : [d EXCEPT !.proof[t] = None].proof[u] # None =>
        [d EXCEPT !.proof[t] = None].proof[u] = d.proof[u]
  BY DEF FolderRecords
<1> QED
  BY <1>1, <1>2, <1>3 DEF FolderRecords, Same, Vouched

\* A half without its other half goes, and its proof.
LEMMA RepairedFolder ==
  ASSUME NEW d \in FolderRecords, NEW t \in Targets, Vouched(d)
  PROVE  LET e == Repaired(d, t) IN e \in FolderRecords /\ Same(d, e) /\ Vouched(e)
<1>1. CASE HalfPair(d, t)
  <2> DEFINE a == [d EXCEPT !.side[t] = None]
  <2>1. a \in FolderRecords /\ Same(d, a) /\ a.proof = d.proof
    BY SetSide
  <2>2. Repaired(d, t) = [[a EXCEPT !.tens[t] = None] EXCEPT !.proof[t] = None]
    BY <1>1 DEF Repaired
  <2> HIDE DEF a
  <2> DEFINE b == [a EXCEPT !.tens[t] = None]
  <2>3. b \in FolderRecords /\ Same(a, b) /\ b.proof = a.proof
    BY <2>1, SetTens
  <2> HIDE DEF b
  <2>4. Vouched(b)
    BY <2>1, <2>3, SentinelsAssumption DEF Vouched
  <2> DEFINE c == [b EXCEPT !.proof[t] = None]
  <2>5. c \in FolderRecords /\ Same(b, c) /\ Vouched(c)
    BY <2>3, <2>4, DropProof
  <2>6. Repaired(d, t) = c
    BY <2>2 DEF b
  <2> HIDE DEF c
  <2> QED
    BY <2>1, <2>3, <2>5, <2>6 DEF Same
<1>2. CASE ~HalfPair(d, t)
  BY <1>2 DEF Repaired, Same
<1> QED
  BY <1>1, <1>2

\* A clear of a scope takes the proofs it selects, and bumps the scope's epoch: one
\* of the epochs of every target it selects.
LEMMA SelectedByKeys ==
  ASSUME NEW t \in Targets, NEW scope \in Scopes, Selects(scope, t)
  PROVE  scope \in EpochKeys(t)
BY StoreAssumption DEF Selects, EpochKeys, StoreAssumption

LEMMA ClearedFolder ==
  ASSUME NEW d \in FolderRecords, NEW scope \in Scopes, Vouched(d)
  PROVE  LET e == Cleared(d, scope) IN
         e \in FolderRecords /\ Later(d, e) /\ Vouched(e)
<1> DEFINE e == Cleared(d, scope)
<1>1. e \in FolderRecords
  <2> DEFINE epochs == [d.epochs EXCEPT ![scope] = @ + 1]
             proof == [t \in Targets |-> IF Selects(scope, t) THEN None ELSE d.proof[t]]
             clears == [t \in Targets |->
                          IF Selects(scope, t) THEN d.clears[t] + 1 ELSE d.clears[t]]
  <2>1. epochs \in [Scopes -> Nat]
    BY DEF FolderRecords
  <2>2. proof \in [Targets -> Proofs \cup {None}]
    BY DEF FolderRecords
  <2>3. clears \in [Targets -> Nat]
    BY DEF FolderRecords
  <2>4. e = [d EXCEPT !.proof = proof, !.epochs = epochs, !.clears = clears]
    BY DEF Cleared, FolderRecords
  <2> HIDE DEF e, epochs, proof, clears
  <2> QED
    BY <2>1, <2>2, <2>3, <2>4 DEF FolderRecords
<1>2. e.id = d.id /\ e.birth = d.birth
  BY DEF Cleared, FolderRecords
<1>3. \A s \in Scopes : e.epochs[s] = IF s = scope THEN d.epochs[s] + 1 ELSE d.epochs[s]
  BY DEF Cleared, FolderRecords
<1>4. \A t \in Targets : ~Selects(scope, t) => e.clears[t] = d.clears[t]
  BY DEF Cleared, FolderRecords
<1>5. \A t \in Targets : e.proof[t] # None => e.proof[t] = d.proof[t]
  BY DEF Cleared, FolderRecords
<1>6. d.epochs \in [Scopes -> Nat] /\ d # Absent
  BY SentinelsAssumption DEF FolderRecords
<1> HIDE DEF e
<1>7. Vouched(e)
  BY <1>5, <1>6 DEF Vouched
<1>8. Later(d, e)
  BY <1>2, <1>3, <1>4, <1>6, SelectedByKeys DEF Later
<1> QED
  BY <1>1, <1>7, <1>8 DEF e

\* The folders that are written new.
LEMMA NewFolder ==
  ASSUME NEW kind \in FolderKinds, NEW c \in Corpora, NEW n \in Nat
  PROVE  LET e == Folder(kind, c, n) IN
         e \in FolderRecords /\ e.id = None /\ e.birth = n /\ Vouched(e)
BY DEF Folder, FolderRecords, NoPairs, Vouched

LEMMA BakedFolder ==
  ASSUME NEW kind \in FolderKinds, NEW c \in Corpora, NEW n \in Nat, NEW t \in Targets
  PROVE  LET e == WithPair(Folder(kind, c, n), t, n) IN
         e \in FolderRecords /\ e.id = None /\ e.birth = n /\ Vouched(e)
<1> DEFINE s == [no |-> n, of |-> <<c, c>>]
           d == Folder(kind, c, n)
           pair == [side |-> s, tens |-> n]
<1>1. s \in Halves /\ s.no = n
  BY DEF Halves
<1>2. pair \in Proofs /\ pair.side = s /\ pair.tens = n
  BY <1>1 DEF Proofs
<1>3. s # None
  BY <1>1, SentinelsAssumption
<1>4. d \in FolderRecords /\ d.id = None /\ d.birth = n /\ d.proof = NoPairs
  BY DEF Folder, FolderRecords, NoPairs
<1>5. WithPair(d, t, n) = [[[d EXCEPT !.side[t] = s] EXCEPT !.tens[t] = n] EXCEPT !.proof[t] = pair]
  BY DEF WithPair, Folder
<1> HIDE DEF s, d, pair
<1> DEFINE a == [d EXCEPT !.side[t] = s]
<1>6. a \in FolderRecords /\ Same(d, a) /\ a.proof = d.proof
  BY <1>1, <1>4, SetSide
<1> HIDE DEF a
<1> DEFINE b == [a EXCEPT !.tens[t] = n]
<1>7. b \in FolderRecords /\ Same(a, b) /\ b.proof = a.proof
  BY <1>6, SetTens
<1> HIDE DEF b
<1> DEFINE e == [b EXCEPT !.proof[t] = pair]
<1>8. e \in FolderRecords /\ e.id = b.id /\ e.birth = b.birth
  BY <1>2, <1>7 DEF FolderRecords
<1>9. \A u \in Targets : e.proof[u] = IF u = t THEN pair ELSE None
  BY <1>4, <1>6, <1>7 DEF FolderRecords, NoPairs
<1>10. WithPair(d, t, n) = e
  BY <1>5 DEF a, b
<1> HIDE DEF e
<1>11. Vouched(e)
  BY <1>2, <1>1, <1>3, <1>9 DEF Vouched
<1> QED
  BY <1>4, <1>6, <1>7, <1>8, <1>10, <1>11 DEF Same, d

LEMMA CarriedFolder ==
  ASSUME NEW new \in FolderRecords, NEW old \in FolderRecords, Vouched(old)
  PROVE  LET e == [new EXCEPT !.side = old.side, !.tens = old.tens, !.proof = old.proof] IN
         e \in FolderRecords /\ e.id = new.id /\ e.birth = new.birth /\ Vouched(e)
<1>1. old # Absent
  BY SentinelsAssumption
<1> QED
  BY <1>1 DEF FolderRecords, Vouched

LEMMA InstalledFolder ==
  ASSUME NEW kind \in {"authored", "templated"}, NEW c \in Corpora
  PROVE  LET e == FittedFolder(kind, c) IN
         /\ e \in FolderRecords /\ e.id = <<0, "prepare">> /\ e.birth = 0 /\ Vouched(e)
<1> DEFINE half == [no |-> 0, of |-> <<c, c>>]
           pair == [side |-> half, tens |-> 0]
           d == Folder(kind, c, 0)
           sides == [t \in Targets |-> half]
           tensors == [t \in Targets |-> 0]
           pairs == [t \in Targets |-> pair]
           e == [d EXCEPT !.id = <<0, "prepare">>, !.side = sides,
                          !.tens = tensors, !.proof = pairs]
<1>1. half \in Halves /\ half.no = 0
  BY DEF Halves
<1>2. pair \in Proofs /\ pair.side = half /\ pair.tens = 0
  BY <1>1 DEF Proofs
<1>3. half # None
  BY <1>1, SentinelsAssumption
<1>4. <<0, "prepare">> \in Identities
  BY DEF Identities, Stages
<1>5. d \in FolderRecords /\ d.birth = 0
  BY NewFolder DEF FolderKinds
<1>6. FittedFolder(kind, c) = e
  BY DEF FittedFolder
<1> HIDE DEF half, pair, d
<1>7. /\ sides \in [Targets -> Halves \cup {None}]
      /\ tensors \in [Targets -> Nat \cup {None}]
      /\ pairs \in [Targets -> Proofs \cup {None}]
      /\ \A u \in Targets : pairs[u] = pair
  BY <1>1, <1>2
<1> HIDE DEF sides, tensors, pairs
<1>8. e \in FolderRecords /\ e.id = <<0, "prepare">> /\ e.birth = 0 /\ e.proof = pairs
  BY <1>4, <1>5, <1>7 DEF FolderRecords
<1> HIDE DEF e
<1>9. Vouched(e)
  BY <1>1, <1>2, <1>3, <1>7, <1>8 DEF Vouched
<1> QED
  BY <1>6, <1>8, <1>9

\* A folder that had no identity gets one.
LEMMA IdentifiedFolder ==
  ASSUME NEW d \in FolderRecords, NEW id \in Identities, Vouched(d)
  PROVE  LET e == WithIdentity(d, id) IN
         /\ e \in FolderRecords /\ Vouched(e)
         /\ e.id = IF d.id = None THEN id ELSE d.id
         /\ e.birth = d.birth /\ e.epochs = d.epochs /\ e.clears = d.clears
         /\ e.nodes = d.nodes /\ e.kind = d.kind /\ e.coords = d.coords
<1>1. d # Absent /\ id # None
  BY SentinelsAssumption
<1> QED
  BY <1>1 DEF WithIdentity, FolderRecords, Vouched

---------------------------------------------------------------------------
(* A step of one process inside a call: it goes on at l with the task w, and *)
(* leaves the folder d under its name, b parked, and birth as what the name  *)
(* should hold.                                                              *)

Sole(p) ==
  \A q \in Procs \ {p} :
    ~(pc[q] \in ManifestSection /\ task[q].folder = task[p].folder)

\* Where the folder e that is there afterwards comes from: it was written new, it
\* is a later state of one that was there, or the process gave it an identity.
Descends(p, e, l, w, d) ==
  e # Absent =>
    \/ e.id = None
    \/ dir[task[p].folder] # Absent /\ Later(dir[task[p].folder], e)
    \/ backup[task[p].folder] # Absent /\ Later(backup[task[p].folder], e)
    \/ \E s \in Stages :
         /\ e.id = <<task[p].no, s>>
         /\ MayGive(pc[p], task[p], dir[task[p].folder], s)
         /\ ~MayGive(l, w, d, s)

Disk(p, l, w, d, b, birth) ==
  LET f == task[p].folder IN
  /\ d \in FolderRecords \cup {Absent} /\ b \in FolderRecords \cup {Absent}
  /\ birth \in Nat \cup {None}
  /\ Vouched(d) /\ Vouched(b) /\ Kept(d, b, birth)
  /\ Descends(p, d, l, w, d) /\ Descends(p, b, l, w, d)
  /\ d # Absent /\ b # Absent /\ d.id = b.id => d.id = None
  /\ d # dir[f] \/ b # backup[f] => Sole(p)

\* The snapshot of a fit: the one it had, or that of the folder d.
Carries(v, w) ==
  w.target = v.target /\ w.snap = v.snap /\ w.birth = v.birth /\ w.clears = v.clears
JustTaken(w, d) ==
  /\ d \in FolderRecords /\ d.id \in Identities /\ w.target \in Targets
  /\ w.snap.id = d.id /\ w.birth = d.birth /\ w.clears = d.clears[w.target]
  /\ w.snap.epochs = [s \in EpochKeys(w.target) |-> d.epochs[s]]

Proc(p, l, w, d, b) ==
  /\ l \in Pcs /\ w \in Tasks /\ (l = "idle" <=> w = NoTask)
  /\ Arguments(l, w, ops)
  /\ l # "idle" => w.folder = task[p].folder /\ w.no = task[p].no
  /\ l \in ManifestSection => Sole(p)
  /\ Holds(l, w, d, b) /\ SavesInto(l, w, d)
  /\ Snapped(l, w) => (Snapped(pc[p], task[p]) /\ Carries(task[p], w)) \/ JustTaken(w, d)
  /\ \A s \in Stages :
       MayGive(l, w, d, s) => MayGive(pc[p], task[p], dir[task[p].folder], s)

Goes(p, l, w) ==
  pc' = [pc EXCEPT ![p] = l] /\ task' = [task EXCEPT ![p] = w]
Leaves(p, d, b, birth) ==
  LET f == task[p].folder IN
  /\ dir' = [dir EXCEPT ![f] = d] /\ backup' = [backup EXCEPT ![f] = b]
  /\ lasting' = [lasting EXCEPT ![f] = birth]
  /\ template' = template /\ ops' = ops /\ crashes' \in 0..MaxCrashes

LEMMA StepKeepsInvariant ==
  ASSUME StoreInv, NEW p \in Procs, pc[p] # "idle",
         NEW l, NEW w, NEW d, NEW b, NEW birth,
         Goes(p, l, w), Leaves(p, d, b, birth),
         Proc(p, l, w, d, b), Disk(p, l, w, d, b, birth)
  PROVE  StoreInv'
<1> DEFINE f == task[p].folder
<1>0. f \in Folders /\ p \in Procs /\ task[p].no \in 1..ops /\ ops \in Nat
  BY StoreAssumption DEF StoreInv, ShapeInv, StoreTypeOK, Arguments, StoreAssumption
<1>1. /\ dir' \in [Folders -> FolderRecords \cup {Absent}]
      /\ backup' \in [Folders -> FolderRecords \cup {Absent}]
      /\ lasting' \in [Folders -> Nat \cup {None}]
      /\ pc' \in [Procs -> Pcs] /\ task' \in [Procs -> Tasks]
  BY <1>0 DEF StoreInv, ShapeInv, StoreTypeOK, Goes, Leaves, Proc, Disk
<1>2. /\ pc'[p] = l /\ task'[p] = w
      /\ \A q \in Procs \ {p} : pc'[q] = pc[q] /\ task'[q] = task[q]
  BY DEF StoreInv, ShapeInv, StoreTypeOK, Goes
<1>3. /\ dir'[f] = d /\ backup'[f] = b /\ lasting'[f] = birth
      /\ \A g \in Folders \ {f} :
           dir'[g] = dir[g] /\ backup'[g] = backup[g] /\ lasting'[g] = lasting[g]
  BY <1>0 DEF StoreInv, ShapeInv, StoreTypeOK, Leaves
<1>4. ops' = ops /\ template' = template /\ crashes' \in 0..MaxCrashes
  BY DEF Leaves
<1>5. ShapeInv'
  <2>1. \A q \in Procs : pc'[q] = "idle" <=> task'[q] = NoTask
    BY <1>2 DEF Proc, StoreInv, ShapeInv, StoreTypeOK
  <2>2. \A q \in Procs : Arguments(pc'[q], task'[q], ops')
    BY <1>2, <1>4 DEF Proc, StoreInv, ShapeInv
  <2> QED
    BY <1>1, <1>4, <2>1, <2>2 DEF StoreInv, ShapeInv, StoreTypeOK
<1>6. OneWriter'
  <2> SUFFICES ASSUME NEW q \in Procs, NEW r \in Procs,
                      pc'[q] \in ManifestSection, pc'[r] \in ManifestSection,
                      task'[q].folder = task'[r].folder, q # r
               PROVE  FALSE
    BY DEF OneWriter
  <2>1. "idle" \notin ManifestSection
    BY DEF ManifestSection
  <2>2. CASE q = p
    BY <1>2, <2>1, <2>2 DEF Proc, Sole
  <2>3. CASE r = p
    BY <1>2, <2>1, <2>3 DEF Proc, Sole
  <2>4. CASE q # p /\ r # p
    BY <1>2, <2>4 DEF StoreInv, OneWriter
  <2> QED
    BY <2>2, <2>3, <2>4
<1>7. WriterInv'
  <2> SUFFICES ASSUME NEW q \in Procs
               PROVE  /\ Holds(pc'[q], task'[q], dir'[task'[q].folder], backup'[task'[q].folder])
                      /\ SavesInto(pc'[q], task'[q], dir'[task'[q].folder])
    BY DEF WriterInv
  <2>1. CASE q = p
    <3>1. CASE l = "idle"
      BY <1>2, <2>1, <3>1 DEF Holds, SavesInto
    <3>2. CASE l # "idle"
      BY <1>2, <1>3, <2>1, <3>2 DEF Proc
    <3> QED
      BY <3>1, <3>2
  <2>2. CASE q # p
    <3>1. /\ Holds(pc[q], task[q], dir[task[q].folder], backup[task[q].folder])
          /\ SavesInto(pc[q], task[q], dir[task[q].folder])
      BY DEF StoreInv, WriterInv
    <3>2. CASE pc[q] \notin ManifestSection
      BY <1>2, <2>2, <3>2 DEF Holds, SavesInto, ManifestSection
    <3>3. CASE pc[q] \in ManifestSection
      <4>1. task[q].folder \in Folders
        BY <3>3 DEF StoreInv, ShapeInv, Arguments, ManifestSection
      <4>2. dir'[task[q].folder] = dir[task[q].folder] /\ backup'[task[q].folder] = backup[task[q].folder]
        BY <1>3, <2>2, <3>3, <4>1 DEF Disk, Sole
      <4> QED
        BY <1>2, <2>2, <3>1, <4>2
    <3> QED
      BY <3>2, <3>3
  <2> QED
    BY <2>1, <2>2
<1>8. FolderInv'
  BY <1>3 DEF StoreInv, FolderInv, Disk
<1>9. SnapshotsIdentify'
  <2> SUFFICES ASSUME NEW q \in Procs, Snapped(pc'[q], task'[q])
               PROVE  LET v == task'[q] IN
                      /\ v.snap.id \in Identities /\ v.snap.id[1] <= ops'
                      /\ v.snap.epochs \in [EpochKeys(v.target) -> Nat]
                      /\ Seen(v, dir'[v.folder]) /\ Seen(v, backup'[v.folder])
    BY DEF SnapshotsIdentify
  <2> DEFINE v == task'[q]
  <2>1. v.folder \in Folders /\ (q = p => v.folder = f)
    BY <1>2, <1>5 DEF Snapped, ShapeInv, Arguments, Proc
  <2>2. CASE /\ Snapped(pc[q], task[q]) /\ Carries(task[q], v)
             /\ v.folder = task[q].folder
    <3>1. /\ v.snap.id \in Identities /\ v.snap.id[1] <= ops
          /\ v.snap.epochs \in [EpochKeys(v.target) -> Nat]
          /\ Seen(v, dir[v.folder]) /\ Seen(v, backup[v.folder])
      BY <2>2 DEF StoreInv, HistoryInv, SnapshotsIdentify, Carries, Seen
    <3>2. CASE v.folder # f
      BY <1>3, <1>4, <2>1, <3>1, <3>2
    <3>3. CASE v.folder = f
      <4>1. v.target \in Targets
        BY <1>5 DEF ShapeInv, Arguments, Snapped
      <4>2. SUFFICES ASSUME NEW e \in {d, b} PROVE Seen(v, e)
        BY <1>3, <1>4, <3>1, <3>3
      <4>3. Descends(p, e, l, w, d) /\ e \in FolderRecords \cup {Absent}
        BY DEF Disk
      <4>4. SUFFICES ASSUME e # Absent, e.id = v.snap.id
                     PROVE  /\ e.birth = v.birth
                            /\ \A s \in EpochKeys(v.target) : e.epochs[s] >= v.snap.epochs[s]
                            /\ (\A s \in EpochKeys(v.target) : e.epochs[s] = v.snap.epochs[s])
                                 => e.clears[v.target] = v.clears
        BY DEF Seen
      <4>5. e.id # None
        BY <3>1, <4>4, SentinelsAssumption
      <4>6. ASSUME NEW o \in FolderRecords, o # Absent, Seen(v, o), Later(o, e)
            PROVE  /\ e.birth = v.birth
                   /\ \A s \in EpochKeys(v.target) : e.epochs[s] >= v.snap.epochs[s]
                   /\ (\A s \in EpochKeys(v.target) : e.epochs[s] = v.snap.epochs[s])
                        => e.clears[v.target] = v.clears
        <5>1. /\ o.id = e.id /\ o.birth = e.birth
              /\ \A s \in Scopes : e.epochs[s] >= o.epochs[s]
              /\ (\A s \in EpochKeys(v.target) : e.epochs[s] = o.epochs[s])
                   => e.clears[v.target] = o.clears[v.target]
          BY <4>1, <4>6 DEF Later
        <5>2. /\ o.birth = v.birth
              /\ \A s \in EpochKeys(v.target) : o.epochs[s] >= v.snap.epochs[s]
              /\ (\A s \in EpochKeys(v.target) : o.epochs[s] = v.snap.epochs[s])
                   => o.clears[v.target] = v.clears
          BY <4>4, <4>6, <5>1 DEF Seen
        <5>3. EpochKeys(v.target) \subseteq Scopes
          BY DEF EpochKeys
        <5>4. \A s \in EpochKeys(v.target) :
                e.epochs[s] \in Nat /\ o.epochs[s] \in Nat /\ v.snap.epochs[s] \in Nat
          BY <3>1, <4>3, <4>4, <5>3 DEF FolderRecords
        <5> HIDE DEF v
        <5>5. \A s \in EpochKeys(v.target) : e.epochs[s] >= v.snap.epochs[s]
          BY <5>1, <5>2, <5>3, <5>4
        <5>6. ASSUME \A s \in EpochKeys(v.target) : e.epochs[s] = v.snap.epochs[s]
              PROVE  e.clears[v.target] = v.clears
          <6>1. \A s \in EpochKeys(v.target) :
                  o.epochs[s] = v.snap.epochs[s] /\ e.epochs[s] = o.epochs[s]
            BY <5>1, <5>2, <5>3, <5>4, <5>6
          <6> QED
            BY <5>1, <5>2, <6>1
        <5> QED
          BY <5>1, <5>2, <5>5, <5>6
      <4>7. CASE dir[f] # Absent /\ Later(dir[f], e)
        <5>1. dir[f] \in FolderRecords
          BY <1>0, <4>7 DEF StoreInv, ShapeInv, StoreTypeOK
        <5> QED
          BY <3>1, <3>3, <4>6, <4>7, <5>1
      <4>8. CASE backup[f] # Absent /\ Later(backup[f], e)
        <5>1. backup[f] \in FolderRecords
          BY <1>0, <4>8 DEF StoreInv, ShapeInv, StoreTypeOK
        <5> QED
          BY <3>1, <3>3, <4>6, <4>8, <5>1
      <4>9. ASSUME NEW s \in Stages, e.id = <<task[p].no, s>>,
                   MayGive(pc[p], task[p], dir[f], s)
            PROVE  FALSE
        <5>1. Unused(f, <<task[p].no, s>>)
          BY <4>9 DEF StoreInv, HistoryInv, IdentitiesAreNew
        <5> QED
          BY <2>2, <3>3, <4>4, <4>9, <5>1 DEF Unused, Carries
      <4> QED
        BY <4>3, <4>4, <4>5, <4>7, <4>8, <4>9 DEF Descends
    <3> QED
      BY <3>2, <3>3
  <2>3. CASE q = p /\ JustTaken(w, d)
    <3>1. d # Absent /\ d.id # None /\ d \in FolderRecords
      BY <2>3, SentinelsAssumption DEF JustTaken
    <3>2. \A s \in EpochKeys(w.target) : d.epochs[s] \in Nat
      BY <3>1 DEF EpochKeys, FolderRecords
    <3>3. d.id[1] <= ops
      <4>1. CASE \E s \in Stages : d.id = <<task[p].no, s>>
        BY <1>0, <4>1
      <4>2. CASE dir[f] # Absent /\ Later(dir[f], d)
        BY <1>0, <3>1, <4>2 DEF Later, StoreInv, HistoryInv, IdentitiesAreNew
      <4>3. CASE backup[f] # Absent /\ Later(backup[f], d)
        BY <1>0, <3>1, <4>3 DEF Later, StoreInv, HistoryInv, IdentitiesAreNew
      <4> QED
        BY <3>1, <4>1, <4>2, <4>3 DEF Disk, Descends
    <3>4. Seen(w, d)
      BY <2>3, <3>2 DEF JustTaken, Seen
    <3>5. Seen(w, b)
      BY <2>3, <3>1 DEF Seen, JustTaken, Disk
    <3>6. w.snap.epochs \in [EpochKeys(w.target) -> Nat]
      BY <2>3, <3>2 DEF JustTaken
    <3> QED
      BY <1>2, <1>3, <1>4, <2>1, <2>3, <3>3, <3>4, <3>5, <3>6 DEF JustTaken
  <2> QED
    BY <1>2, <2>1, <2>2, <2>3 DEF Proc, Carries, Snapped
<1>10. \A q, r \in Procs :
         pc'[q] # "idle" /\ pc'[r] # "idle" /\ task'[q].no = task'[r].no => q = r
  <2>1. \A q \in Procs : pc'[q] # "idle" => pc[q] # "idle" /\ task'[q].no = task[q].no
    BY <1>2 DEF Proc
  <2> QED
    BY <2>1 DEF StoreInv, HistoryInv, IdentitiesAreNew
<1>11. \A e \in {d, b} : e # Absent /\ e.id # None => e.id[1] <= ops
  <2> TAKE e \in {d, b}
  <2> HAVE e # Absent /\ e.id # None
  <2>1. CASE \E s \in Stages : e.id = <<task[p].no, s>>
    BY <1>0, <2>1
  <2>2. CASE dir[f] # Absent /\ Later(dir[f], e)
    BY <1>0, <2>2 DEF Later, StoreInv, HistoryInv, IdentitiesAreNew
  <2>3. CASE backup[f] # Absent /\ Later(backup[f], e)
    BY <1>0, <2>3 DEF Later, StoreInv, HistoryInv, IdentitiesAreNew
  <2> QED
    BY <2>1, <2>2, <2>3 DEF Disk, Descends
<1>12. \A g \in Folders :
         /\ dir'[g] # Absent /\ dir'[g].id # None => dir'[g].id[1] <= ops
         /\ backup'[g] # Absent /\ backup'[g].id # None => backup'[g].id[1] <= ops
         /\ dir'[g] # Absent /\ backup'[g] # Absent /\ dir'[g].id = backup'[g].id
            => dir'[g].id = None
  <2> TAKE g \in Folders
  <2>1. CASE g = f
    BY <1>3, <1>11, <2>1 DEF Disk
  <2>2. CASE g # f
    BY <1>3, <2>2 DEF StoreInv, HistoryInv, IdentitiesAreNew
  <2> QED
    BY <2>1, <2>2
<1>13. ASSUME NEW q \in Procs, NEW s \in Stages,
              MayGive(pc'[q], task'[q], dir'[task'[q].folder], s)
       PROVE  Unused(task[q].folder, <<task[q].no, s>>)'
  <2> DEFINE g == task'[q].folder
             id == <<task'[q].no, s>>
  <2>1. /\ pc'[q] # "idle" /\ pc[q] # "idle"
        /\ g = task[q].folder /\ task'[q].no = task[q].no /\ g \in Folders
    BY <1>2, <1>5, <1>13 DEF MayGive, Proc, ShapeInv, Arguments
  <2>2. MayGive(pc[q], task[q], dir[g], s)
    <3>1. CASE q = p
      BY <1>2, <1>3, <1>13, <2>1, <3>1 DEF Proc
    <3>2. CASE q # p /\ dir'[g] = dir[g]
      BY <1>2, <1>13, <2>1, <3>2
    <3>3. CASE q # p /\ dir'[g] # dir[g]
      <4>1. g = f /\ pc[q] \notin ManifestSection
        BY <1>3, <2>1, <3>3 DEF Disk, Sole
      <4> QED
        BY <1>2, <1>13, <2>1, <3>3, <4>1 DEF MayGive, ManifestSection
    <3> QED
      BY <3>1, <3>2, <3>3
  <2>3. Unused(g, id)
    BY <2>1, <2>2 DEF StoreInv, HistoryInv, IdentitiesAreNew
  <2>4. id \in Identities /\ id # None
    <3>1. task[q].no \in Nat
      BY <2>1 DEF StoreInv, ShapeInv, Arguments
    <3>2. id \in Identities
      BY <2>1, <3>1 DEF Identities
    <3> QED
      BY <3>2, SentinelsAssumption
  <2>5. \A e \in {d, b} : g = f /\ e # Absent => e.id # id
    <3> TAKE e \in {d, b}
    <3> HAVE g = f /\ e # Absent
    <3>1. CASE dir[f] # Absent /\ Later(dir[f], e)
      BY <2>3, <3>1 DEF Later, Unused
    <3>2. CASE backup[f] # Absent /\ Later(backup[f], e)
      BY <2>3, <3>2 DEF Later, Unused
    <3>3. ASSUME NEW u \in Stages, e.id = <<task[p].no, u>>, ~MayGive(l, w, d, u)
          PROVE  e.id # id
      <4>1. CASE q = p
        BY <1>2, <1>3, <1>13, <3>3, <4>1
      <4>2. CASE q # p
        BY <2>1, <3>3, <4>2 DEF StoreInv, HistoryInv, IdentitiesAreNew
      <4> QED
        BY <4>1, <4>2
    <3> QED
      BY <2>4, <3>1, <3>2, <3>3 DEF Disk, Descends
  <2>6. /\ dir'[g] # Absent => dir'[g].id # id
        /\ backup'[g] # Absent => backup'[g].id # id
    BY <1>3, <2>1, <2>3, <2>5 DEF Unused
  <2>7. ASSUME NEW r \in Procs, Snapped(pc'[r], task'[r]), task'[r].folder = g
        PROVE  task'[r].snap.id # id
    <3>1. CASE Snapped(pc[r], task[r]) /\ task'[r].snap = task[r].snap
               /\ task'[r].folder = task[r].folder
      BY <2>3, <2>7, <3>1 DEF Unused
    <3>2. CASE r = p /\ JustTaken(w, d)
      <4>1. g = f /\ d # Absent
        BY <1>2, <2>7, <3>2, SentinelsAssumption DEF Proc, Snapped, JustTaken
      <4> QED
        BY <1>2, <2>5, <3>2, <4>1 DEF JustTaken
    <3> QED
      BY <1>2, <2>7, <3>1, <3>2 DEF Proc, Carries, Snapped
  <2> QED
    BY <2>6, <2>7 DEF Unused
<1>14. IdentitiesAreNew'
  BY <1>4, <1>10, <1>12, <1>13 DEF IdentitiesAreNew
<1> QED
  BY <1>5, <1>6, <1>7, <1>8, <1>9, <1>14 DEF StoreInv, HistoryInv

\* Who works in a folder, or takes its lock, is alone there.
LEMMA WriterIsAlone ==
  ASSUME StoreInv, NEW p \in Procs,
         pc[p] \in ManifestSection \/ ManifestFree(p, task[p].folder)
  PROVE  Sole(p)
BY DEF StoreInv, OneWriter, Sole, ManifestFree, HoldsManifest

\* What is known of the folder of a process inside a call.
LEMMA FolderOfCall ==
  ASSUME StoreInv, NEW p \in Procs, pc[p] # "idle"
  PROVE  LET f == task[p].folder IN
         /\ f \in Folders /\ task[p] \in Tasks /\ task[p] # NoTask
         /\ ops \in Nat /\ task[p].no \in 1..ops /\ Arguments(pc[p], task[p], ops)
         /\ dir[f] \in FolderRecords \cup {Absent} /\ Vouched(dir[f])
         /\ backup[f] \in FolderRecords \cup {Absent} /\ Vouched(backup[f])
         /\ lasting[f] \in Nat \cup {None} /\ Kept(dir[f], backup[f], lasting[f])
         /\ Holds(pc[p], task[p], dir[f], backup[f]) /\ SavesInto(pc[p], task[p], dir[f])
         /\ template \in Corpora /\ pc[p] \in Pcs
BY StoreAssumption
DEF StoreInv, ShapeInv, StoreTypeOK, Arguments, FolderInv, WriterInv, StoreAssumption

\* The folders do not change.
LEMMA UnchangedDisk ==
  ASSUME StoreInv, NEW p \in Procs, pc[p] # "idle", NEW l, NEW w
  PROVE  LET f == task[p].folder IN Disk(p, l, w, dir[f], backup[f], lasting[f])
<1> DEFINE f == task[p].folder
<1>1. /\ dir[f] # Absent => Later(dir[f], dir[f])
      /\ backup[f] # Absent => Later(backup[f], backup[f])
  BY FolderOfCall DEF Later, FolderRecords
<1>2. dir[f] # Absent /\ backup[f] # Absent /\ dir[f].id = backup[f].id => dir[f].id = None
  BY FolderOfCall DEF StoreInv, HistoryInv, IdentitiesAreNew
<1> QED
  BY <1>1, <1>2, FolderOfCall DEF Disk, Descends

\* The process rewrites its folder in place.
LEMMA RewrittenDisk ==
  ASSUME StoreInv, NEW p \in Procs, pc[p] # "idle", NEW l, NEW w, Sole(p),
         dir[task[p].folder] # Absent,
         NEW d \in FolderRecords, Later(dir[task[p].folder], d), Vouched(d)
  PROVE  LET f == task[p].folder IN Disk(p, l, w, d, backup[f], lasting[f])
<1> DEFINE f == task[p].folder
<1>1. backup[f] # Absent => Later(backup[f], backup[f])
  BY FolderOfCall DEF Later, FolderRecords
<1>2. backup[f] # Absent /\ d.id = backup[f].id => d.id = None
  BY FolderOfCall DEF StoreInv, HistoryInv, IdentitiesAreNew, Later
<1>3. Kept(d, backup[f], lasting[f])
  BY FolderOfCall, SentinelsAssumption DEF Kept, Later
<1> QED
  BY <1>1, <1>2, <1>3, FolderOfCall DEF Disk, Descends

\* The call ends.
LEMMA NoTaskIsTask == NoTask \in Tasks
<1>1. NoEpochs \in EpochMaps
  BY DEF EpochMaps
<1>2. NoSnapshot = [id |-> None, epochs |-> NoEpochs, authoring |-> None, source |-> None]
  BY DEF NoSnapshot, NoEpochs
<1>3. NoSnapshot \in Snapshots
  BY <1>1, <1>2 DEF Snapshots
<1> QED
  BY <1>3 DEF NoTask, Tasks

LEMMA EndedCall ==
  ASSUME NEW p, NEW d, NEW b
  PROVE  Proc(p, "idle", NoTask, d, b)
BY NoTaskIsTask
DEF Proc, Pcs, Arguments, ManifestSection, Holds, SavesInto, Snapped, MayGive

LEMMA EndKeepsInvariant ==
  ASSUME StoreInv, NEW p \in Procs, pc[p] # "idle", Leave(p),
         NEW d, NEW b, NEW birth,
         Leaves(p, d, b, birth), Disk(p, "idle", NoTask, d, b, birth)
  PROVE  StoreInv'
<1>1. Goes(p, "idle", NoTask)
  BY DEF Leave, GoTo, Goes
<1> QED
  BY <1>1, EndedCall, StepKeepsInvariant

\* The process moves, and the folders do not.
LEMMA MoveKeepsInvariant ==
  ASSUME StoreInv, NEW p \in Procs, pc[p] # "idle", NEW l, NEW w, Goes(p, l, w),
         Proc(p, l, w, dir[task[p].folder], backup[task[p].folder]),
         dir' = dir, backup' = backup, lasting' = lasting, template' = template,
         ops' = ops, crashes' \in 0..MaxCrashes
  PROVE  StoreInv'
<1> DEFINE f == task[p].folder
<1>1. Leaves(p, dir[f], backup[f], lasting[f])
  BY FolderOfCall DEF Leaves, StoreInv, ShapeInv, StoreTypeOK
<1> QED
  BY <1>1, UnchangedDisk, StepKeepsInvariant

\* The process moves and rewrites its folder.
LEMMA RewriteKeepsInvariant ==
  ASSUME StoreInv, NEW p \in Procs, pc[p] # "idle", NEW l, NEW w, Goes(p, l, w),
         NEW d \in FolderRecords,
         dir[task[p].folder] # Absent, Later(dir[task[p].folder], d), Vouched(d), Sole(p),
         Proc(p, l, w, d, backup[task[p].folder]),
         dir' = [dir EXCEPT ![task[p].folder] = d], UNCHANGED World
  PROVE  StoreInv'
<1> DEFINE f == task[p].folder
<1>1. Leaves(p, d, backup[f], lasting[f])
  BY FolderOfCall DEF Leaves, World, StoreInv, ShapeInv, StoreTypeOK
<1> QED
  BY <1>1, RewrittenDisk, StepKeepsInvariant

\* Any of the steps that end a call without touching a folder.
LEMMA LeaveKeepsInvariant ==
  ASSUME StoreInv, NEW p \in Procs, pc[p] # "idle", Leave(p), UNCHANGED <<dir, World>>
  PROVE  StoreInv'
<1>1. Goes(p, "idle", NoTask)
  BY DEF Leave, GoTo, Goes
<1>2. crashes' \in 0..MaxCrashes
  BY DEF World, StoreInv, ShapeInv, StoreTypeOK
<1> QED
  BY <1>1, <1>2, EndedCall, MoveKeepsInvariant DEF World

LEMMA RewriteAndLeave ==
  ASSUME StoreInv, NEW p \in Procs, pc[p] # "idle", Leave(p), UNCHANGED World,
         NEW d \in FolderRecords,
         dir[task[p].folder] # Absent, Later(dir[task[p].folder], d), Vouched(d), Sole(p),
         dir' = [dir EXCEPT ![task[p].folder] = d]
  PROVE  StoreInv'
<1>1. Goes(p, "idle", NoTask)
  BY DEF Leave, GoTo, Goes
<1> QED
  BY <1>1, EndedCall, RewriteKeepsInvariant

---------------------------------------------------------------------------
(* Calls, template edits, crashes, and the initial states.                   *)

LEMMA CrashKeepsInvariant ==
  ASSUME StoreInv, NEW p \in Procs, Crash(p)
  PROVE  StoreInv'
<1>1. Goes(p, "idle", NoTask) /\ pc[p] # "idle" /\ crashes' \in 0..MaxCrashes
  BY StoreAssumption DEF Crash, Leave, GoTo, Goes, StoreInv, ShapeInv, StoreTypeOK, StoreAssumption
<1> QED
  BY <1>1, EndedCall, MoveKeepsInvariant DEF Crash

LEMMA ArgumentsStay ==
  ASSUME NEW l, NEW w, NEW n \in Nat, Arguments(l, w, n)
  PROVE  Arguments(l, w, n + 1)
<1>1. 1..n \subseteq 1..(n + 1)
  OBVIOUS
<1> QED
  BY <1>1 DEF Arguments

LEMMA EditKeepsInvariant ==
  ASSUME StoreInv, NEW c \in Corpora, EditTemplate(c)
  PROVE  StoreInv'
<1>1. ops' = ops + 1 /\ ops \in Nat /\ ops' \in 0..MaxOps /\ template' \in Corpora
  BY StoreAssumption DEF EditTemplate, StoreInv, ShapeInv, StoreTypeOK, StoreAssumption
<1>2. UNCHANGED <<dir, backup, pc, task, crashes, lasting>>
  BY DEF EditTemplate
<1>3. ShapeInv'
  <2>1. \A p \in Procs : Arguments(pc[p], task[p], ops')
    BY <1>1, ArgumentsStay DEF StoreInv, ShapeInv
  <2> QED
    BY <1>1, <1>2, <2>1 DEF StoreInv, ShapeInv, StoreTypeOK
<1>4. OneWriter' /\ WriterInv' /\ FolderInv'
  BY <1>2 DEF StoreInv, OneWriter, WriterInv, FolderInv
<1>5. SnapshotsIdentify'
  <2>1. \A p \in Procs : Snapped(pc[p], task[p]) =>
          task[p].snap.id[1] <= ops' /\ task[p].snap.id \in Identities
    BY <1>1 DEF StoreInv, HistoryInv, SnapshotsIdentify, Identities
  <2> QED
    BY <1>2, <2>1 DEF StoreInv, HistoryInv, SnapshotsIdentify
<1>6. IdentitiesAreNew'
  <2>1. \A f \in Folders :
          /\ dir[f] # Absent /\ dir[f].id # None => dir[f].id[1] \in Nat
          /\ backup[f] # Absent /\ backup[f].id # None => backup[f].id[1] \in Nat
    BY DEF StoreInv, ShapeInv, StoreTypeOK, FolderRecords, Identities
  <2>2. \A f \in Folders :
          /\ dir[f] # Absent /\ dir[f].id # None => dir[f].id[1] <= ops'
          /\ backup[f] # Absent /\ backup[f].id # None => backup[f].id[1] <= ops'
    BY <1>1, <2>1 DEF StoreInv, HistoryInv, IdentitiesAreNew
  <2> QED
    BY <1>2, <2>2 DEF StoreInv, HistoryInv, IdentitiesAreNew, Unused
<1> QED
  BY <1>3, <1>4, <1>5, <1>6 DEF StoreInv, HistoryInv

Firsts == {"prepare", "clear", "remove", "preflight", "replace", "update"}

LEMMA StartKeepsInvariant ==
  ASSUME StoreInv, NEW p \in Procs, NEW call \in Tasks, NEW first \in Firsts,
         Start(p, call, first), call.op \in StoreOps,
         Arguments(first, [call EXCEPT !.no = ops + 1], ops + 1)
  PROVE  StoreInv'
<1> DEFINE w == [call EXCEPT !.no = ops + 1]
<1>1. ops' = ops + 1 /\ ops \in Nat /\ ops' \in 0..MaxOps
  BY StoreAssumption DEF Start, StoreInv, ShapeInv, StoreTypeOK, StoreAssumption
<1>2. UNCHANGED <<dir, backup, template, crashes, lasting>>
  BY DEF Start
<1>3. /\ pc[p] = "idle" /\ pc'[p] = first /\ task'[p] = w
      /\ \A q \in Procs \ {p} : pc'[q] = pc[q] /\ task'[q] = task[q]
      /\ pc' \in [Procs -> Pcs]
  BY DEF Start, GoTo, StoreInv, ShapeInv, StoreTypeOK, Firsts, Pcs, FitSection, ManifestSection
<1>4. w \in Tasks /\ w.no = ops + 1 /\ w.op = call.op /\ w.stage = call.stage
  BY <1>1 DEF Tasks
<1>5. task' \in [Procs -> Tasks]
  BY <1>4 DEF Start, StoreInv, ShapeInv
<1>6. first # "idle" /\ first \notin ManifestSection /\ first # "lookup"
  BY DEF Firsts, ManifestSection
<1>7. w # NoTask
  BY <1>1, <1>4 DEF NoTask
<1> HIDE DEF w
<1>8. ShapeInv'
  <2>1. \A q \in Procs : Arguments(pc'[q], task'[q], ops')
    BY <1>1, <1>3, ArgumentsStay DEF StoreInv, ShapeInv, w
  <2>2. \A q \in Procs : pc'[q] = "idle" <=> task'[q] = NoTask
    BY <1>3, <1>6, <1>7 DEF StoreInv, ShapeInv, StoreTypeOK
  <2> QED
    BY <1>1, <1>2, <1>3, <1>5, <2>1, <2>2 DEF StoreInv, ShapeInv, StoreTypeOK
<1>9. OneWriter'
  BY <1>3, <1>6 DEF StoreInv, OneWriter
<1>10. WriterInv'
  <2>1. \A d, b : Holds(first, w, d, b) /\ SavesInto(first, w, d)
    BY DEF Holds, SavesInto, Firsts
  <2> QED
    BY <1>2, <1>3, <2>1 DEF StoreInv, WriterInv
<1>11. FolderInv'
  BY <1>2 DEF StoreInv, FolderInv
<1>12. ~Snapped(first, w)
  <2>1. CallAt(first, w.op) /\ (w.op = "fit" /\ first = "prepare" => w.stage = "prepare")
    BY <1>3, <1>6, <1>8 DEF ShapeInv, Arguments
  <2>2. w.op = "fit" => first = "prepare"
    BY <2>1 DEF CallAt, Firsts, Writing
  <2> QED
    BY <1>6, <2>1, <2>2 DEF Snapped
<1>13. SnapshotsIdentify'
  <2>1. \A q \in Procs : Snapped(pc'[q], task'[q]) =>
          /\ q # p /\ Snapped(pc[q], task[q])
          /\ task[q].snap.id[1] <= ops' /\ task[q].snap.id \in Identities
    BY <1>1, <1>3, <1>12 DEF StoreInv, HistoryInv, SnapshotsIdentify, Identities
  <2> QED
    BY <1>2, <1>3, <2>1 DEF StoreInv, HistoryInv, SnapshotsIdentify
<1>14. \A q, r \in Procs :
         pc'[q] # "idle" /\ pc'[r] # "idle" /\ task'[q].no = task'[r].no => q = r
  <2>1. \A q \in Procs : pc[q] # "idle" => task[q].no \in 1..ops
    BY DEF StoreInv, ShapeInv, Arguments
  <2>2. \A q \in Procs \ {p} : pc[q] # "idle" => task[q].no # ops + 1
    BY <1>1, <2>1
  <2> QED
    BY <1>3, <1>4, <2>2 DEF StoreInv, HistoryInv, IdentitiesAreNew
<1>15. \A f \in Folders :
         /\ dir[f] # Absent /\ dir[f].id # None =>
              dir[f].id[1] \in Nat /\ dir[f].id[1] <= ops
         /\ backup[f] # Absent /\ backup[f].id # None =>
              backup[f].id[1] \in Nat /\ backup[f].id[1] <= ops
  BY DEF StoreInv, HistoryInv, IdentitiesAreNew, ShapeInv, StoreTypeOK, FolderRecords, Identities
<1>16. \A f \in Folders :
         /\ dir[f] # Absent /\ dir[f].id # None => dir[f].id[1] <= ops'
         /\ backup[f] # Absent /\ backup[f].id # None => backup[f].id[1] <= ops'
         /\ dir[f] # Absent /\ backup[f] # Absent /\ dir[f].id = backup[f].id
            => dir[f].id = None
  BY <1>1, <1>15 DEF StoreInv, HistoryInv, IdentitiesAreNew
<1>17. ASSUME NEW q \in Procs, NEW s \in Stages,
              MayGive(pc'[q], task'[q], dir'[task'[q].folder], s)
       PROVE  Unused(task[q].folder, <<task[q].no, s>>)'
  <2>1. CASE q # p
    <3>1. Unused(task[q].folder, <<task[q].no, s>>)
      BY <1>2, <1>3, <1>17, <2>1 DEF StoreInv, HistoryInv, IdentitiesAreNew
    <3>2. \A r \in Procs : Snapped(pc'[r], task'[r]) => r # p
      BY <1>3, <1>12
    <3> QED
      BY <1>2, <1>3, <2>1, <3>1, <3>2 DEF Unused
  <2>2. CASE q = p
    <3> DEFINE id == <<ops + 1, s>>
    <3>1. id \in Identities /\ id[1] = ops + 1 /\ id # None
      BY <1>1, SentinelsAssumption DEF Identities
    <3>2. w.folder \in Folders
      BY <1>3, <1>6, <1>8 DEF ShapeInv, Arguments
    <3>3. /\ dir[w.folder] # Absent => dir[w.folder].id # id
          /\ backup[w.folder] # Absent => backup[w.folder].id # id
      <4>1. ASSUME NEW e \in {dir[w.folder], backup[w.folder]}, e # Absent, e.id = id
            PROVE  FALSE
        <5>1. e.id[1] <= ops
          BY <1>15, <3>1, <3>2, <4>1
        <5> QED
          BY <1>1, <3>1, <4>1, <5>1
      <4> QED
        BY <4>1
    <3>4. ASSUME NEW r \in Procs, Snapped(pc'[r], task'[r])
          PROVE  task'[r].snap.id # id
      <4>1. r # p /\ Snapped(pc[r], task[r]) /\ task'[r] = task[r]
        BY <1>3, <1>12, <3>4
      <4>2. task[r].snap.id[1] <= ops
        BY <4>1 DEF StoreInv, HistoryInv, SnapshotsIdentify
      <4> QED
        BY <1>1, <3>1, <4>1, <4>2
    <3> HIDE DEF id
    <3> QED
      BY <1>2, <1>3, <1>4, <2>2, <3>3, <3>4 DEF Unused, id
  <2> QED
    BY <2>1, <2>2
<1>18. IdentitiesAreNew'
  BY <1>2, <1>14, <1>16, <1>17 DEF IdentitiesAreNew
<1> QED
  BY <1>8, <1>9, <1>10, <1>11, <1>13, <1>18 DEF StoreInv, HistoryInv

LEMMA CallKeepsInvariant ==
  ASSUME StoreInv, NEW p \in Procs, Call(p)
  PROVE  StoreInv'
<1>0. ops + 1 \in Nat /\ ops + 1 \in 1..(ops + 1)
  BY StoreAssumption DEF StoreInv, ShapeInv, StoreTypeOK, StoreAssumption
<1> SUFFICES ASSUME NEW f \in Folders,
                    \/ \E t \in Targets, force \in BOOLEAN :
                         \/ t \notin Transferred /\ Fit(p, f, t, force)
                         \/ t \in Transferred /\ \E src \in Targets \ Transferred :
                              Transfer(p, f, src, t, force)
                         \/ \E src \in Folders : Merge(p, f, src, t, force)
                    \/ \E scope \in Scopes : Clear(p, f, scope)
                    \/ RemoveFolder(p, f)
                    \/ \E c \in Corpora :
                         \/ Refresh(p, f, c)
                         \/ Update(p, f, c)
                         \/ \E kind \in {"authored", "templated"}, force \in BOOLEAN :
                              Create(p, f, kind, c, force)
             PROVE  StoreInv'
  BY DEF Call
<1>1. ASSUME NEW t \in Targets, NEW force \in BOOLEAN, Fit(p, f, t, force)
     PROVE  StoreInv'
  <2> DEFINE call == [NoTask EXCEPT !.op = "fit", !.folder = f, !.target = t, !.force = force, !.stage = "prepare"]
             w == [call EXCEPT !.no = ops + 1]
  <2>1. call \in Tasks
    BY NoTaskIsTask, <1>1 DEF Tasks, StoreOps, Stages, FolderKinds
  <2>2. Arguments("prepare", w, ops + 1)
    BY <1>0, <1>1 DEF NoTask, Arguments, CallAt, Writing, Stages, FolderKinds
  <2>3. Start(p, call, "prepare")
    BY <1>1 DEF Fit
  <2>4. call.op \in StoreOps
    BY DEF NoTask, StoreOps
  <2> HIDE DEF call
  <2> QED
    BY <2>1, <2>2, <2>3, <2>4, StartKeepsInvariant DEF Firsts
<1>2. ASSUME NEW t \in Transferred, NEW src \in Targets \ Transferred, NEW force \in BOOLEAN, Transfer(p, f, src, t, force)
     PROVE  StoreInv'
  <2> DEFINE call == [NoTask EXCEPT !.op = "transfer", !.folder = f, !.src = src, !.target = t, !.force = force]
             w == [call EXCEPT !.no = ops + 1]
  <2>1. call \in Tasks
    BY NoTaskIsTask, StoreAssumption, <1>2 DEF Tasks, StoreOps, StoreAssumption
  <2>2. Arguments("preflight", w, ops + 1)
    BY <1>0, <1>2 DEF NoTask, Arguments, CallAt, Writing, Stages, FolderKinds
  <2>3. Start(p, call, "preflight")
    BY <1>2 DEF Transfer
  <2>4. call.op \in StoreOps
    BY DEF NoTask, StoreOps
  <2> HIDE DEF call
  <2> QED
    BY <2>1, <2>2, <2>3, <2>4, StartKeepsInvariant DEF Firsts
<1>3. ASSUME NEW src \in Folders, NEW t \in Targets, NEW force \in BOOLEAN, Merge(p, f, src, t, force)
     PROVE  StoreInv'
  <2> DEFINE call == [NoTask EXCEPT !.op = "merge", !.folder = f, !.src = src, !.target = t, !.stage = "baked", !.force = force]
             w == [call EXCEPT !.no = ops + 1]
  <2>1. call \in Tasks
    BY NoTaskIsTask, <1>3 DEF Tasks, StoreOps, Stages, FolderKinds
  <2>2. Arguments("replace", w, ops + 1)
    BY <1>0, <1>3 DEF NoTask, Arguments, CallAt, Writing, Stages, FolderKinds
  <2>3. Start(p, call, "replace")
    BY <1>3 DEF Merge
  <2>4. call.op \in StoreOps
    BY DEF NoTask, StoreOps
  <2> HIDE DEF call
  <2> QED
    BY <2>1, <2>2, <2>3, <2>4, StartKeepsInvariant DEF Firsts
<1>4. ASSUME NEW scope \in Scopes, Clear(p, f, scope)
     PROVE  StoreInv'
  <2> DEFINE call == [NoTask EXCEPT !.op = "clear", !.folder = f, !.scope = scope]
             w == [call EXCEPT !.no = ops + 1]
  <2>1. call \in Tasks
    BY NoTaskIsTask, <1>4 DEF Tasks, StoreOps, Stages, FolderKinds
  <2>2. Arguments("clear", w, ops + 1)
    BY <1>0, <1>4 DEF NoTask, Arguments, CallAt, Writing, Stages, FolderKinds
  <2>3. Start(p, call, "clear")
    BY <1>4 DEF Clear
  <2>4. call.op \in StoreOps
    BY DEF NoTask, StoreOps
  <2> HIDE DEF call
  <2> QED
    BY <2>1, <2>2, <2>3, <2>4, StartKeepsInvariant DEF Firsts
<1>5. ASSUME RemoveFolder(p, f)
     PROVE  StoreInv'
  <2> DEFINE call == [NoTask EXCEPT !.op = "remove", !.folder = f, !.scope = <<All, All>>]
             w == [call EXCEPT !.no = ops + 1]
  <2>1. call \in Tasks
    BY NoTaskIsTask, <1>5 DEF Tasks, StoreOps
  <2>2. Arguments("remove", w, ops + 1)
    BY <1>0, <1>5 DEF NoTask, Arguments, CallAt, Writing, Stages, FolderKinds
  <2>3. Start(p, call, "remove")
    BY <1>5 DEF RemoveFolder
  <2>4. call.op \in StoreOps
    BY DEF NoTask, StoreOps
  <2> HIDE DEF call
  <2> QED
    BY <2>1, <2>2, <2>3, <2>4, StartKeepsInvariant DEF Firsts
<1>6. ASSUME NEW c \in Corpora, Refresh(p, f, c)
     PROVE  StoreInv'
  <2> DEFINE call == [NoTask EXCEPT !.op = "refresh", !.folder = f, !.stage = "authored", !.corpus = c, !.force = TRUE]
             w == [call EXCEPT !.no = ops + 1]
  <2>1. call \in Tasks
    BY NoTaskIsTask, <1>6 DEF Tasks, StoreOps, Stages, FolderKinds
  <2>2. Arguments("replace", w, ops + 1)
    BY <1>0, <1>6 DEF NoTask, Arguments, CallAt, Writing, Stages, FolderKinds
  <2>3. Start(p, call, "replace")
    BY <1>6 DEF Refresh
  <2>4. call.op \in StoreOps
    BY DEF NoTask, StoreOps
  <2> HIDE DEF call
  <2> QED
    BY <2>1, <2>2, <2>3, <2>4, StartKeepsInvariant DEF Firsts
<1>7. ASSUME NEW c \in Corpora, Update(p, f, c)
     PROVE  StoreInv'
  <2> DEFINE call == [NoTask EXCEPT !.op = "update", !.folder = f, !.corpus = c]
             w == [call EXCEPT !.no = ops + 1]
  <2>1. call \in Tasks
    BY NoTaskIsTask, <1>7 DEF Tasks, StoreOps, Stages, FolderKinds
  <2>2. Arguments("update", w, ops + 1)
    BY <1>0, <1>7 DEF NoTask, Arguments, CallAt, Writing, Stages, FolderKinds
  <2>3. Start(p, call, "update")
    BY <1>7 DEF Update
  <2>4. call.op \in StoreOps
    BY DEF NoTask, StoreOps
  <2> HIDE DEF call
  <2> QED
    BY <2>1, <2>2, <2>3, <2>4, StartKeepsInvariant DEF Firsts
<1>8. ASSUME NEW kind \in {"authored", "templated"}, NEW c \in Corpora, NEW force \in BOOLEAN, Create(p, f, kind, c, force)
     PROVE  StoreInv'
  <2> DEFINE call == [NoTask EXCEPT !.op = "create", !.folder = f, !.stage = kind, !.corpus = c, !.force = force]
             w == [call EXCEPT !.no = ops + 1]
  <2>1. call \in Tasks
    BY NoTaskIsTask, <1>8 DEF Tasks, StoreOps, Stages, FolderKinds
  <2>2. Arguments("replace", w, ops + 1)
    BY <1>0, <1>8 DEF NoTask, Arguments, CallAt, Writing, Stages, FolderKinds
  <2>3. Start(p, call, "replace")
    BY <1>8 DEF Create
  <2>4. call.op \in StoreOps
    BY DEF NoTask, StoreOps
  <2> HIDE DEF call
  <2> QED
    BY <2>1, <2>2, <2>3, <2>4, StartKeepsInvariant DEF Firsts
<1> QED
  BY <1>1, <1>2, <1>3, <1>4, <1>5, <1>6, <1>7, <1>8

LEMMA InitHolds ==
  ASSUME StoreInit
  PROVE  StoreInv
<1> PICK kind \in {"authored", "templated"}, c \in Corpora :
      /\ dir = [f \in Folders |-> IF f \in Installed THEN FittedFolder(kind, c)
                                 ELSE Absent]
      /\ backup = [f \in Folders |-> Absent]
      /\ template = c
      /\ pc = [p \in Procs |-> "idle"]
      /\ task = [p \in Procs |-> NoTask]
      /\ menu \in Menus /\ ops = 0 /\ crashes = 0
      /\ lasting = [f \in Folders |-> IF f \in Installed THEN 0 ELSE None]
  BY DEF StoreInit
<1> DEFINE e == FittedFolder(kind, c)
<1>1. /\ e \in FolderRecords /\ e.id = <<0, "prepare">> /\ e.birth = 0
      /\ Vouched(e) /\ e # Absent
  BY InstalledFolder, SentinelsAssumption
<1> HIDE DEF e
<1>2. /\ \A f \in Folders : dir[f] = IF f \in Installed THEN e ELSE Absent
      /\ \A f \in Folders : backup[f] = Absent
      /\ \A f \in Folders : lasting[f] = IF f \in Installed THEN 0 ELSE None
      /\ \A p \in Procs : pc[p] = "idle" /\ task[p] = NoTask
  BY DEF e
<1>3. ShapeInv
  <2>1. /\ dir \in [Folders -> FolderRecords \cup {Absent}]
        /\ backup \in [Folders -> FolderRecords \cup {Absent}]
        /\ lasting \in [Folders -> Nat \cup {None}]
    BY <1>1 DEF e
  <2>2. pc \in [Procs -> Pcs] /\ task \in [Procs -> Tasks]
    BY NoTaskIsTask DEF Pcs
  <2>3. \A p \in Procs : Arguments(pc[p], task[p], ops)
    BY <1>2 DEF Arguments
  <2> QED
    BY <1>2, <2>1, <2>2, <2>3, StoreAssumption DEF ShapeInv, StoreTypeOK, StoreAssumption
<1>4. OneWriter /\ WriterInv
  BY <1>2 DEF OneWriter, WriterInv, Holds, SavesInto, ManifestSection
<1>5. FolderInv
  BY <1>1, <1>2 DEF FolderInv, Vouched, Kept
<1>6. SnapshotsIdentify
  BY <1>2 DEF SnapshotsIdentify, Snapped
<1>7. IdentitiesAreNew
  BY <1>1, <1>2 DEF IdentitiesAreNew, MayGive
<1> QED
  BY <1>3, <1>4, <1>5, <1>6, <1>7 DEF StoreInv, HistoryInv

---------------------------------------------------------------------------
(* The steps of a fit.                                                       *)

\* The process goes on in its call.
LEMMA GoesOn ==
  ASSUME StoreInv, NEW p \in Procs, pc[p] # "idle",
         NEW l \in Pcs \ {"idle"}, NEW w \in Tasks, NEW d, NEW b,
         w.folder = task[p].folder, w.no = task[p].no, Arguments(l, w, ops),
         l \in ManifestSection => Sole(p),
         Holds(l, w, d, b), SavesInto(l, w, d),
         Snapped(l, w) => (Snapped(pc[p], task[p]) /\ Carries(task[p], w)) \/ JustTaken(w, d),
         \A s \in Stages :
           MayGive(l, w, d, s) => MayGive(pc[p], task[p], dir[task[p].folder], s)
  PROVE  Proc(p, l, w, d, b)
<1>1. w # NoTask
  BY FolderOfCall DEF NoTask
<1> QED
  BY <1>1 DEF Proc

LEMMA EnterSnapshotStep ==
  ASSUME StoreInv, NEW p \in Procs, EnterSnapshot(p)
  PROVE  StoreInv'
<1> DEFINE f == task[p].folder
           l == IF pc[p] = "prepare" THEN "repair" ELSE "snapshot"
           w == [task[p] EXCEPT !.tmpl = None]
<1>1. pc[p] \in {"prepare", "confirm", "publish"} /\ pc[p] # "idle" /\ Sole(p)
  BY WriterIsAlone DEF EnterSnapshot
<1>2. CASE dir[f] = Absent
  BY <1>1, <1>2, LeaveKeepsInvariant DEF EnterSnapshot
<1>3. CASE dir[f] # Absent
  <2>1. /\ w \in Tasks /\ w.op = task[p].op /\ w.no = task[p].no /\ w.folder = f
        /\ w.stage = task[p].stage /\ Carries(task[p], w)
    BY <1>1, FolderOfCall DEF Tasks, Carries
  <2>2. Goes(p, l, w)
    BY <1>3 DEF EnterSnapshot, GoTo, Goes
  <2> HIDE DEF w
  <2>3. w.op = "fit" /\ w.stage \in Stages /\ w.target \in Targets /\ w.stage = pc[p]
    BY <1>1, <2>1, FolderOfCall DEF Arguments, CallAt, Carries
  <2>4. Arguments(l, w, ops)
    BY <1>1, <2>1, <2>3, FolderOfCall DEF Arguments, CallAt
  <2>5. Holds(l, w, dir[f], backup[f]) /\ SavesInto(l, w, dir[f])
    BY <1>3 DEF Holds, SavesInto
  <2>6. Snapped(l, w) => Snapped(pc[p], task[p])
    BY <1>1, <2>1, <2>3 DEF Snapped
  <2>7. \A s \in Stages : MayGive(l, w, dir[f], s) => MayGive(pc[p], task[p], dir[f], s)
    BY <1>1, <2>1, <2>3 DEF MayGive
  <2>8. l \in Pcs \ {"idle"}
    BY DEF Pcs, ManifestSection
  <2> HIDE DEF l
  <2>9. Proc(p, l, w, dir[f], backup[f])
    BY <1>1, <2>1, <2>4, <2>5, <2>6, <2>7, <2>8, GoesOn
  <2> QED
    BY <1>1, <2>2, <2>9, MoveKeepsInvariant
    DEF EnterSnapshot, World, StoreInv, ShapeInv, StoreTypeOK
<1> QED
  BY <1>2, <1>3

LEMMA RepairStep ==
  ASSUME StoreInv, NEW p \in Procs, Repair(p)
  PROVE  StoreInv'
<1> DEFINE f == task[p].folder
           w == task[p]
           d == Repaired(dir[f], task[p].target)
<1>1. pc[p] = "repair" /\ pc[p] # "idle" /\ Sole(p)
  BY WriterIsAlone DEF Repair, ManifestSection
<1>2. w.op = "fit" /\ w.stage = "prepare" /\ w.target \in Targets
  BY <1>1, FolderOfCall DEF Arguments, CallAt
<1>3. dir[f] # Absent
  BY <1>1, FolderOfCall DEF Holds
<1>4. d \in FolderRecords /\ Later(dir[f], d) /\ Vouched(d) /\ d # Absent
  BY <1>1, <1>2, <1>3, FolderOfCall, RepairedFolder, SameIsLater, SentinelsAssumption
<1>5. Goes(p, "snapshot", w) /\ dir' = [dir EXCEPT ![f] = d] /\ UNCHANGED World
  BY DEF Repair, GoTo, Goes, StoreInv, ShapeInv
<1> HIDE DEF d
<1>6. Proc(p, "snapshot", w, d, backup[f])
  <2>1. Arguments("snapshot", w, ops)
    BY <1>1, <1>2, FolderOfCall DEF Arguments, CallAt, Stages
  <2>2. Holds("snapshot", w, d, backup[f]) /\ SavesInto("snapshot", w, d)
    BY <1>4 DEF Holds, SavesInto
  <2>3. ~Snapped("snapshot", w)
    BY <1>2 DEF Snapped
  <2>4. \A s \in Stages : MayGive(pc[p], w, dir[f], s)
    BY <1>1, <1>2 DEF MayGive
  <2> QED
    BY <1>1, <2>1, <2>2, <2>3, <2>4, FolderOfCall, GoesOn DEF Pcs, ManifestSection
<1> QED
  BY <1>1, <1>3, <1>4, <1>5, <1>6, RewriteKeepsInvariant

LEMMA SwapCorpusStep ==
  ASSUME StoreInv, NEW p \in Procs, SwapCorpus(p)
  PROVE  StoreInv'
<1> DEFINE f == task[p].folder
           w == task[p]
           d == [dir[f] EXCEPT !.nodes = w.corpus]
<1>1. pc[p] = "swap" /\ pc[p] # "idle" /\ Sole(p)
  BY WriterIsAlone DEF SwapCorpus, ManifestSection
<1>2. w.corpus \in Corpora /\ w.op \in {"fit", "update"}
  BY <1>1, FolderOfCall DEF Arguments, CallAt
<1>3. dir[f] # Absent /\ dir[f] \in FolderRecords
  BY <1>1, FolderOfCall DEF Holds
<1>4. /\ d \in FolderRecords /\ Later(dir[f], d) /\ d.id = dir[f].id
      /\ d.proof = dir[f].proof
  <2>1. d \in FolderRecords /\ Same(dir[f], d) /\ d.proof = dir[f].proof
    BY <1>2, <1>3, SetNodes
  <2> HIDE DEF d
  <2> QED
    BY <1>3, <2>1, SameIsLater DEF Same
<1>5. Goes(p, "meta", w) /\ dir' = [dir EXCEPT ![f] = d] /\ UNCHANGED World
  BY DEF SwapCorpus, GoTo, Goes, StoreInv, ShapeInv
<1> HIDE DEF d
<1>6. Vouched(d) /\ d # Absent
  <2>1. Vouched(dir[f]) /\ d # Absent
    BY <1>1, <1>4, FolderOfCall, SentinelsAssumption
  <2> QED
    BY <1>3, <1>4, <2>1 DEF Vouched
<1>7. Proc(p, "meta", w, d, backup[f])
  <2>1. Arguments("meta", w, ops)
    BY <1>1, <1>2, FolderOfCall DEF Arguments, CallAt
  <2>2. Holds("meta", w, d, backup[f]) /\ SavesInto("meta", w, d)
    BY <1>6 DEF Holds, SavesInto
  <2>3. Snapped("meta", w) => Snapped(pc[p], w) /\ Carries(w, w)
    BY <1>1 DEF Snapped, Carries
  <2>4. \A s \in Stages : MayGive("meta", w, d, s) => MayGive(pc[p], w, dir[f], s)
    BY <1>1, <1>4 DEF MayGive
  <2> QED
    BY <1>1, <2>1, <2>2, <2>3, <2>4, FolderOfCall, GoesOn DEF Pcs, ManifestSection
<1> QED
  BY <1>1, <1>3, <1>4, <1>5, <1>6, <1>7, RewriteKeepsInvariant

LEMMA WriteMetadataStep ==
  ASSUME StoreInv, NEW p \in Procs, WriteMetadata(p)
  PROVE  StoreInv'
<1> DEFINE f == task[p].folder
           w == task[p]
           d == [dir[f] EXCEPT !.coords = w.corpus]
<1>1. pc[p] = "meta" /\ pc[p] # "idle" /\ Sole(p)
  BY WriterIsAlone DEF WriteMetadata, ManifestSection
<1>2. w.corpus \in Corpora /\ w.op \in {"fit", "update"}
  BY <1>1, FolderOfCall DEF Arguments, CallAt
<1>3. dir[f] # Absent /\ dir[f] \in FolderRecords
  BY <1>1, FolderOfCall DEF Holds
<1>4. /\ d \in FolderRecords /\ Later(dir[f], d) /\ d.id = dir[f].id
      /\ d.proof = dir[f].proof
  <2>1. d \in FolderRecords /\ Same(dir[f], d) /\ d.proof = dir[f].proof
    BY <1>2, <1>3, SetCoords
  <2> HIDE DEF d
  <2> QED
    BY <1>3, <2>1, SameIsLater DEF Same
<1>5. dir' = [dir EXCEPT ![f] = d] /\ UNCHANGED World
  BY DEF WriteMetadata, StoreInv, ShapeInv
<1> HIDE DEF d
<1>6. Vouched(d) /\ d # Absent
  <2>1. Vouched(dir[f]) /\ d # Absent
    BY <1>1, <1>4, FolderOfCall, SentinelsAssumption
  <2> QED
    BY <1>3, <1>4, <2>1 DEF Vouched
<1>7. CASE w.op = "fit"
  <2>1. Arguments("snapshot", w, ops)
    BY <1>1, <1>7, FolderOfCall DEF Arguments, CallAt
  <2>2. Holds("snapshot", w, d, backup[f]) /\ SavesInto("snapshot", w, d)
    BY <1>6 DEF Holds, SavesInto
  <2>3. Snapped("snapshot", w) => Snapped(pc[p], w) /\ Carries(w, w)
    BY <1>1 DEF Snapped, Carries
  <2>4. \A s \in Stages : MayGive("snapshot", w, d, s) => MayGive(pc[p], w, dir[f], s)
    BY <1>1, <1>4 DEF MayGive
  <2>5. Proc(p, "snapshot", w, d, backup[f])
    BY <1>1, <2>1, <2>2, <2>3, <2>4, FolderOfCall, GoesOn DEF Pcs, ManifestSection
  <2>6. Goes(p, "snapshot", w)
    BY <1>7 DEF WriteMetadata, GoTo, Goes, StoreInv, ShapeInv
  <2> QED
    BY <1>1, <1>3, <1>4, <1>5, <1>6, <2>5, <2>6, RewriteKeepsInvariant
<1>8. CASE w.op # "fit"
  BY <1>1, <1>3, <1>4, <1>5, <1>6, <1>8, RewriteAndLeave DEF WriteMetadata
<1> QED
  BY <1>7, <1>8

LEMMA LookUpStep ==
  ASSUME StoreInv, NEW p \in Procs, LookUp(p)
  PROVE  StoreInv'
<1> DEFINE f == task[p].folder
<1>1. pc[p] = "lookup" /\ pc[p] # "idle"
  BY DEF LookUp
<1>2. PICK l \in {"confirm", "publish"} :
        task' = [task EXCEPT ![p].stage = l] /\ GoTo(p, l)
  BY DEF LookUp
<1> DEFINE w == [task[p] EXCEPT !.stage = l]
<1>3. /\ w \in Tasks /\ w.op = task[p].op /\ w.no = task[p].no /\ w.folder = f
      /\ w.stage = l /\ Carries(task[p], w)
  BY <1>1, FolderOfCall DEF Tasks, Carries, Stages
<1>4. Goes(p, l, w)
  BY <1>2 DEF GoTo, Goes
<1> HIDE DEF w
<1>5. task[p].op = "fit" /\ task[p].stage = "prepare" /\ task[p].target \in Targets
  BY <1>1, FolderOfCall DEF Arguments, CallAt
<1>6. Proc(p, l, w, dir[f], backup[f])
  <2>1. Arguments(l, w, ops)
    BY <1>1, <1>2, <1>3, <1>5, FolderOfCall DEF Arguments, CallAt, Carries, Writing, Stages
  <2>2. Holds(l, w, dir[f], backup[f]) /\ SavesInto(l, w, dir[f])
    BY <1>2 DEF Holds, SavesInto
  <2>3. Snapped(pc[p], task[p])
    BY <1>1, <1>5 DEF Snapped
  <2>4. \A s \in Stages : MayGive(l, w, dir[f], s) => MayGive(pc[p], task[p], dir[f], s)
    BY <1>1, <1>2, <1>3, <1>5 DEF MayGive
  <2>5. l \in Pcs \ {"idle"} /\ l \notin ManifestSection
    BY <1>2 DEF Pcs, FitSection, ManifestSection
  <2> QED
    BY <1>1, <1>3, <2>1, <2>2, <2>3, <2>4, <2>5, FolderOfCall, GoesOn
<1> QED
  BY <1>1, <1>4, <1>6, MoveKeepsInvariant DEF LookUp, World, StoreInv, ShapeInv, StoreTypeOK

LEMMA FitFailsStep ==
  ASSUME StoreInv, NEW p \in Procs, FitFails(p)
  PROVE  StoreInv'
BY LeaveKeepsInvariant DEF FitFails

\* save_manifold and update_file_hashes, for a fit and for a transfer.
LEMMA SaveSidecarStep ==
  ASSUME StoreInv, NEW p \in Procs, SaveSidecar(p)
  PROVE  StoreInv'
<1> DEFINE f == task[p].folder
           t == task[p].target
           half == [no |-> task[p].no, of |-> task[p].snap.authoring]
           d == [dir[f] EXCEPT !.side[t] = half]
           w == [task[p] EXCEPT !.locked = @ \cup {t}]
<1>1. pc[p] = "saveSide" /\ pc[p] # "idle" /\ Sole(p)
  BY WriterIsAlone DEF SaveSidecar, ManifestSection
<1>2. /\ task[p].op \in {"fit", "transfer"} /\ t \in Targets
      /\ task[p].op = "transfer" => task[p].src \in Targets \ {t}
      /\ task[p].snap.authoring \in Corpora \X Corpora
  BY <1>1, FolderOfCall, StoreAssumption DEF Arguments, CallAt, StoreAssumption
<1>3. dir[f] # Absent /\ dir[f] \in FolderRecords /\ SavesInto("saveSide", task[p], dir[f])
  BY <1>1, FolderOfCall DEF Holds
<1>4. half \in Halves /\ half.no = task[p].no /\ half # None
  BY <1>1, <1>2, FolderOfCall, SentinelsAssumption DEF Halves
<1>5. Goes(p, "saveTensor", w) /\ dir' = [dir EXCEPT ![f] = d] /\ UNCHANGED World
  BY DEF SaveSidecar, GoTo, Goes
<1> HIDE DEF half
<1>6. /\ d \in FolderRecords /\ Same(dir[f], d) /\ d.proof = dir[f].proof
      /\ d.tens = dir[f].tens /\ d.nodes = dir[f].nodes /\ d.kind = dir[f].kind
      /\ d.coords = dir[f].coords /\ d.side[t] = half
      /\ \A u \in Targets \ {t} : d.side[u] = dir[f].side[u]
  BY <1>2, <1>3, <1>4, SetSide
<1>7. /\ w \in Tasks /\ w.op = task[p].op /\ w.no = task[p].no /\ w.folder = f
      /\ w.stage = task[p].stage /\ w.src = task[p].src /\ Carries(task[p], w)
  BY <1>1, <1>2, FolderOfCall DEF Tasks, Carries
<1> HIDE DEF d, w
<1>8. Later(dir[f], d) /\ d # Absent /\ Vouched(d)
  <2>1. Vouched(dir[f]) /\ d # Absent
    BY <1>1, <1>6, FolderOfCall, SentinelsAssumption
  <2> QED
    BY <1>3, <1>6, <2>1, SameIsLater DEF Vouched
<1>9. Proc(p, "saveTensor", w, d, backup[f])
  <2>1. Arguments("saveTensor", w, ops)
    BY <1>1, <1>2, <1>7, FolderOfCall DEF Arguments, CallAt, Carries, Writing
  <2>2. Holds("saveTensor", w, d, backup[f])
    BY <1>4, <1>6, <1>7, <1>8 DEF Holds, Carries
  <2>3. SavesInto("saveTensor", w, d)
    BY <1>2, <1>3, <1>6, <1>7 DEF SavesInto, Carries, Same
  <2>4. Snapped("saveTensor", w) => Snapped(pc[p], task[p])
    BY <1>1, <1>7 DEF Snapped
  <2>5. \A s \in Stages : MayGive("saveTensor", w, d, s) => MayGive(pc[p], task[p], dir[f], s)
    BY <1>1, <1>7 DEF MayGive
  <2> QED
    BY <1>1, <1>7, <2>1, <2>2, <2>3, <2>4, <2>5, FolderOfCall, GoesOn DEF Pcs, ManifestSection
<1> QED
  BY <1>1, <1>3, <1>5, <1>6, <1>8, <1>9, RewriteKeepsInvariant

LEMMA SaveTensorStep ==
  ASSUME StoreInv, NEW p \in Procs, SaveTensor(p)
  PROVE  StoreInv'
<1> DEFINE f == task[p].folder
           t == task[p].target
           n == task[p].no
           locked == IF task[p].op = "transfer" THEN task[p].locked ELSE {}
           d == [dir[f] EXCEPT !.tens[t] = n]
           w == [task[p] EXCEPT !.locked = locked]
<1>1. pc[p] = "saveTensor" /\ pc[p] # "idle" /\ Sole(p)
  BY WriterIsAlone DEF SaveTensor, ManifestSection
<1>2. /\ task[p].op \in {"fit", "transfer"} /\ t \in Targets /\ n \in Nat
      /\ task[p].op = "transfer" => task[p].src \in Targets \ {t}
  BY <1>1, FolderOfCall, StoreAssumption DEF Arguments, CallAt, StoreAssumption
<1>3. /\ dir[f] # Absent /\ dir[f] \in FolderRecords
      /\ SavesInto("saveTensor", task[p], dir[f])
      /\ dir[f].side[t] # None /\ dir[f].side[t].no = n
  BY <1>1, FolderOfCall DEF Holds
<1>4. Goes(p, "prove", w) /\ dir' = [dir EXCEPT ![f] = d] /\ UNCHANGED World
  BY DEF SaveTensor, GoTo, Goes
<1>5. /\ d \in FolderRecords /\ Same(dir[f], d) /\ d.proof = dir[f].proof
      /\ d.side = dir[f].side /\ d.nodes = dir[f].nodes /\ d.kind = dir[f].kind
      /\ d.coords = dir[f].coords /\ d.tens[t] = n
      /\ \A u \in Targets \ {t} : d.tens[u] = dir[f].tens[u]
  <2>1. n \in Nat \cup {None} /\ t \in Targets /\ dir[f] \in FolderRecords
    BY <1>2, <1>3
  <2> DEFINE old == dir[f]
  <2> HIDE DEF n, t, old, w
  <2>2. LET e == [old EXCEPT !.tens[t] = n] IN
        /\ e \in FolderRecords /\ Same(old, e) /\ e.proof = old.proof /\ e.side = old.side
        /\ e.nodes = old.nodes /\ e.kind = old.kind /\ e.coords = old.coords
        /\ e.tens[t] = n /\ \A u \in Targets \ {t} : e.tens[u] = old.tens[u]
    BY <2>1, SetTens DEF old
  <2> QED
    BY <2>2 DEF old
<1>6. locked \in SUBSET Targets
  BY <1>1, FolderOfCall DEF Tasks
<1> HIDE DEF locked
<1>7. /\ w \in Tasks /\ w.op = task[p].op /\ w.no = n /\ w.folder = f
      /\ w.stage = task[p].stage /\ w.src = task[p].src /\ Carries(task[p], w)
  BY <1>1, <1>6, FolderOfCall DEF Tasks, Carries
<1> HIDE DEF d, w
<1>8. Later(dir[f], d) /\ d # Absent /\ Vouched(d)
  <2>1. Vouched(dir[f]) /\ d # Absent
    BY <1>1, <1>5, FolderOfCall, SentinelsAssumption
  <2> QED
    BY <1>3, <1>5, <2>1, SameIsLater DEF Vouched
<1>9. Proc(p, "prove", w, d, backup[f])
  <2>1. Arguments("prove", w, ops)
    BY <1>1, <1>2, <1>7, FolderOfCall DEF Arguments, CallAt, Carries, Writing
  <2>2. Holds("prove", w, d, backup[f])
    BY <1>3, <1>5, <1>7, <1>8 DEF Holds, Carries
  <2>3. SavesInto("prove", w, d)
    <3>1. CASE w.op = "fit"
      BY <1>3, <1>5, <1>7, <3>1 DEF SavesInto, Carries, Same
    <3>2. CASE w.op = "transfer"
      BY <1>2, <1>3, <1>5, <1>7, <3>2 DEF SavesInto, Carries
    <3>3. CASE w.op \notin {"fit", "transfer"}
      BY <3>3 DEF SavesInto
    <3> QED
      BY <3>1, <3>2, <3>3
  <2>4. Snapped("prove", w) => Snapped(pc[p], task[p])
    BY <1>1, <1>7 DEF Snapped
  <2>5. \A s \in Stages : MayGive("prove", w, d, s) => MayGive(pc[p], task[p], dir[f], s)
    BY <1>1, <1>7 DEF MayGive
  <2> QED
    BY <1>1, <1>7, <2>1, <2>2, <2>3, <2>4, <2>5, FolderOfCall, GoesOn DEF Pcs, ManifestSection
<1> QED
  BY <1>1, <1>3, <1>4, <1>5, <1>8, <1>9, RewriteKeepsInvariant

LEMMA ProveStep ==
  ASSUME StoreInv, NEW p \in Procs, Prove(p)
  PROVE  StoreInv'
<1> DEFINE f == task[p].folder
           t == task[p].target
           d == [dir[f] EXCEPT !.proof = ProofsAfter(dir[f], t)]
<1>1. pc[p] = "prove" /\ pc[p] # "idle" /\ Sole(p)
  BY WriterIsAlone DEF Prove, ManifestSection
<1>2. t \in Targets /\ task[p].no \in Nat
  BY <1>1, FolderOfCall, StoreAssumption DEF Arguments, CallAt, StoreAssumption
<1>3. /\ dir[f] # Absent /\ dir[f] \in FolderRecords /\ Vouched(dir[f])
      /\ dir[f].side[t] # None /\ dir[f].side[t].no = task[p].no
      /\ dir[f].tens[t] = task[p].no
  BY <1>1, FolderOfCall DEF Holds
<1>4. dir[f].side[t] \in Halves /\ dir[f].tens[t] \in Nat
  BY <1>2, <1>3 DEF FolderRecords
<1>5. d \in FolderRecords /\ Same(dir[f], d) /\ Vouched(d)
  BY <1>2, <1>3, <1>4, SetProof
<1>6. dir' = [dir EXCEPT ![f] = d] /\ UNCHANGED World /\ Leave(p)
  BY DEF Prove
<1> HIDE DEF d
<1> QED
  BY <1>1, <1>3, <1>5, <1>6, SameIsLater, RewriteAndLeave

---------------------------------------------------------------------------
(* clear, rm and transfer.                                                   *)

LEMMA EnterDeleteStep ==
  ASSUME StoreInv, NEW p \in Procs, EnterDelete(p)
  PROVE  StoreInv'
<1> DEFINE f == task[p].folder
           w == task[p]
<1>1. pc[p] \in {"clear", "remove"} /\ pc[p] # "idle" /\ Sole(p)
  BY WriterIsAlone DEF EnterDelete
<1>2. CASE dir[f] = Absent \/ (pc[p] = "clear" /\ dir[f].kind = "baked")
  BY <1>1, <1>2, LeaveKeepsInvariant DEF EnterDelete
<1>3. CASE ~(dir[f] = Absent \/ (pc[p] = "clear" /\ dir[f].kind = "baked"))
  <2>1. Goes(p, "deleteFiles", w) /\ UNCHANGED <<dir, World>>
    BY <1>3 DEF EnterDelete, GoTo, Goes, StoreInv, ShapeInv
  <2>2. w.op \in {"clear", "remove"}
    BY <1>1, FolderOfCall DEF Arguments, CallAt
  <2>3. Arguments("deleteFiles", w, ops)
    BY <1>1, <2>2, FolderOfCall DEF Arguments, CallAt
  <2>4. Holds("deleteFiles", w, dir[f], backup[f]) /\ SavesInto("deleteFiles", w, dir[f])
    BY <1>3 DEF Holds, SavesInto
  <2>5. Proc(p, "deleteFiles", w, dir[f], backup[f])
    BY <1>1, <2>2, <2>3, <2>4, FolderOfCall, GoesOn DEF Pcs, ManifestSection, Snapped, MayGive
  <2> QED
    BY <1>1, <2>1, <2>5, MoveKeepsInvariant DEF World, StoreInv, ShapeInv, StoreTypeOK
<1> QED
  BY <1>2, <1>3

LEMMA DeleteFilesStep ==
  ASSUME StoreInv, NEW p \in Procs, DeleteFiles(p)
  PROVE  StoreInv'
<1> DEFINE f == task[p].folder
           ts == OnDisk(dir[f], {t \in Targets : Selects(task[p].scope, t)})
           l == IF task[p].op = "clear" THEN "clearManifest" ELSE "removeDir"
           d == WithoutFiles(dir[f], ts)
           w == [task[p] EXCEPT !.locked = ts]
<1>1. pc[p] = "deleteFiles" /\ pc[p] # "idle" /\ Sole(p)
  BY WriterIsAlone DEF DeleteFiles, ManifestSection
<1>2. task[p].op \in {"clear", "remove"}
  BY <1>1, FolderOfCall DEF Arguments, CallAt
<1>3. dir[f] # Absent /\ dir[f] \in FolderRecords /\ Vouched(dir[f])
  BY <1>1, FolderOfCall DEF Holds
<1>4. Goes(p, l, w) /\ dir' = [dir EXCEPT ![f] = d] /\ UNCHANGED World
  BY DEF DeleteFiles, GoTo, Goes
<1>5. ts \in SUBSET Targets
  BY DEF OnDisk
<1> HIDE DEF ts
<1>6. d \in FolderRecords /\ Same(dir[f], d) /\ d.proof = dir[f].proof
  BY <1>3, DropHalves
<1>7. /\ w \in Tasks /\ w.op = task[p].op /\ w.no = task[p].no /\ w.folder = f
      /\ w.scope = task[p].scope
  BY <1>1, <1>5, FolderOfCall DEF Tasks
<1> HIDE DEF d, w
<1>8. Later(dir[f], d) /\ d # Absent /\ Vouched(d)
  BY <1>3, <1>6, SameIsLater, SentinelsAssumption DEF Vouched
<1>9. Proc(p, l, w, d, backup[f])
  <2>1. Arguments(l, w, ops)
    BY <1>1, <1>2, <1>7, FolderOfCall DEF Arguments, CallAt, Writing
  <2>2. Holds(l, w, d, backup[f]) /\ SavesInto(l, w, d)
    BY <1>8 DEF Holds, SavesInto
  <2> QED
    BY <1>1, <1>2, <1>7, <2>1, <2>2, FolderOfCall, GoesOn DEF Pcs, ManifestSection, Snapped, MayGive
<1> QED
  BY <1>1, <1>3, <1>4, <1>6, <1>8, <1>9, RewriteKeepsInvariant

LEMMA ClearManifestStep ==
  ASSUME StoreInv, NEW p \in Procs, ClearManifest(p)
  PROVE  StoreInv'
<1> DEFINE f == task[p].folder
           d == Cleared(dir[f], task[p].scope)
<1>1. pc[p] = "clearManifest" /\ pc[p] # "idle" /\ Sole(p)
  BY WriterIsAlone DEF ClearManifest, ManifestSection
<1>2. task[p].scope \in Scopes
  BY <1>1, FolderOfCall DEF Arguments, CallAt
<1>3. dir[f] # Absent /\ dir[f] \in FolderRecords /\ Vouched(dir[f])
  BY <1>1, FolderOfCall DEF Holds
<1>4. d \in FolderRecords /\ Later(dir[f], d) /\ Vouched(d)
  BY <1>2, <1>3, ClearedFolder
<1>5. dir' = [dir EXCEPT ![f] = d] /\ UNCHANGED World /\ Leave(p)
  BY DEF ClearManifest
<1> HIDE DEF d
<1> QED
  BY <1>1, <1>3, <1>4, <1>5, RewriteAndLeave

LEMMA RemoveDirStep ==
  ASSUME StoreInv, NEW p \in Procs, RemoveDir(p)
  PROVE  StoreInv'
<1> DEFINE f == task[p].folder
<1>1. pc[p] = "removeDir" /\ pc[p] # "idle" /\ Sole(p)
  BY WriterIsAlone DEF RemoveDir, ManifestSection
<1>2. Leaves(p, Absent, backup[f], None) /\ Leave(p)
  BY DEF RemoveDir, Leaves, StoreInv, ShapeInv, StoreTypeOK
<1>3. backup[f] # Absent => Later(backup[f], backup[f])
  BY <1>1, FolderOfCall DEF Later, FolderRecords
<1>4. Disk(p, "idle", NoTask, Absent, backup[f], None)
  BY <1>1, <1>3, FolderOfCall DEF Disk, Descends, Vouched, Kept
<1> QED
  BY <1>1, <1>2, <1>4, EndKeepsInvariant

LEMMA PreflightStep ==
  ASSUME StoreInv, NEW p \in Procs, Preflight(p)
  PROVE  StoreInv'
<1> DEFINE f == task[p].folder
           src == task[p].src
           vouched == dir[f].proof[src]
           snap == [task[p].snap EXCEPT !.source = vouched]
           w == [task[p] EXCEPT !.snap = snap]
<1>1. pc[p] = "preflight" /\ pc[p] # "idle"
  BY DEF Preflight
<1>2. CASE ~(dir[f] # Absent /\ Transferable(dir[f], src, task[p].target, task[p].force))
  BY <1>1, <1>2, LeaveKeepsInvariant DEF Preflight
<1>3. CASE dir[f] # Absent /\ Transferable(dir[f], src, task[p].target, task[p].force)
  <2>1. /\ task[p].op = "transfer" /\ task[p].target \in Transferred
        /\ src \in Targets \ Transferred
    BY <1>1, FolderOfCall DEF Arguments, CallAt
  <2>2. Goes(p, "mapSource", w) /\ UNCHANGED <<dir, World>>
    BY <1>3 DEF Preflight, GoTo, Goes
  <2>3. vouched \in Proofs \cup {None}
    BY <1>1, <1>3, <2>1, FolderOfCall DEF FolderRecords
  <2> HIDE DEF vouched
  <2>4. snap \in Snapshots
    BY <1>1, <2>3, FolderOfCall DEF Tasks, Snapshots
  <2> HIDE DEF snap
  <2>5. /\ w \in Tasks /\ w.op = task[p].op /\ w.no = task[p].no /\ w.folder = f
        /\ w.src = src /\ w.target = task[p].target
    BY <1>1, <2>4, FolderOfCall DEF Tasks
  <2> HIDE DEF w
  <2>6. Arguments("mapSource", w, ops)
    BY <1>1, <2>1, <2>5, FolderOfCall DEF Arguments, CallAt, Writing
  <2>7. Holds("mapSource", w, dir[f], backup[f]) /\ SavesInto("mapSource", w, dir[f])
    BY DEF Holds, SavesInto
  <2>8. Proc(p, "mapSource", w, dir[f], backup[f])
    BY <1>1, <2>1, <2>5, <2>6, <2>7, GoesOn DEF Pcs, ManifestSection, Snapped, MayGive
  <2> QED
    BY <1>1, <2>2, <2>8, MoveKeepsInvariant DEF World, StoreInv, ShapeInv, StoreTypeOK
<1> QED
  BY <1>2, <1>3

LEMMA MapSourceStep ==
  ASSUME StoreInv, NEW p \in Procs, MapSource(p)
  PROVE  StoreInv'
<1> DEFINE f == task[p].folder
           src == task[p].src
           t == task[p].target
           e == dir[f]
           authoring == Authoring(e, template)
           a == WithoutFiles(e, {t})
           d == IF Proven(e, t) THEN e ELSE [a EXCEPT !.proof[t] = None]
           snap == [task[p].snap EXCEPT !.authoring = authoring]
           locked == {src, t}
           w == [task[p] EXCEPT !.snap = snap, !.locked = locked]
<1>1. pc[p] = "mapSource" /\ pc[p] # "idle" /\ Sole(p)
  BY WriterIsAlone DEF MapSource
<1>2. CASE Leave(p) /\ UNCHANGED dir
  BY <1>1, <1>2, LeaveKeepsInvariant DEF MapSource
<1>3. CASE /\ e # Absent /\ Proven(e, src) /\ SameSource(p, e) /\ e.nodes # Missing
           /\ dir' = [dir EXCEPT ![f] = d] /\ Goes(p, "saveSide", w)
  <2>1. /\ task[p].op = "transfer" /\ t \in Targets /\ src \in Targets \ {t}
        /\ task[p].target \in Transferred /\ task[p].src \in Targets \ Transferred
    BY <1>1, FolderOfCall, StoreAssumption DEF Arguments, CallAt, StoreAssumption
  <2>2. e \in FolderRecords /\ Vouched(e) /\ template \in Corpora
    BY <1>1, <1>3, FolderOfCall
  <2>3. authoring \in Corpora \X Corpora
    BY <1>3, <2>2 DEF Authoring, FolderRecords, Missing
  <2>4. task[p].snap.source = [side |-> e.side[src], tens |-> e.tens[src]]
    BY <1>3 DEF SameSource, Proven
  <2> HIDE DEF authoring
  <2>5. /\ snap \in Snapshots /\ snap.source = task[p].snap.source
        /\ snap.authoring = authoring
    BY <1>1, <2>3, FolderOfCall DEF Tasks, Snapshots
  <2> HIDE DEF snap
  <2>6. /\ w \in Tasks /\ w.op = task[p].op /\ w.no = task[p].no /\ w.folder = f
        /\ w.src = src /\ w.target = t /\ w.snap = snap
    <3>1. locked \in SUBSET Targets /\ task[p] \in Tasks
      BY <1>1, <2>1, FolderOfCall
    <3> HIDE DEF locked
    <3> DEFINE v == [task[p] EXCEPT !.snap = snap]
    <3>2. /\ v \in Tasks /\ v.op = task[p].op /\ v.no = task[p].no /\ v.folder = f
          /\ v.src = src /\ v.target = t /\ v.snap = snap
      BY <2>5, <3>1 DEF Tasks
    <3>3. w = [v EXCEPT !.locked = locked]
      OBVIOUS
    <3> HIDE DEF v, w
    <3> QED
      BY <3>1, <3>2, <3>3 DEF Tasks
  <2> HIDE DEF w
  <2>7. /\ d \in FolderRecords /\ Same(e, d) /\ Vouched(d)
        /\ d.side[src] = e.side[src] /\ d.tens[src] = e.tens[src]
    <3>1. CASE Proven(e, t)
      BY <2>2, <3>1 DEF Same
    <3>2. CASE ~Proven(e, t)
      <4>1. /\ a \in FolderRecords /\ Same(e, a) /\ a.proof = e.proof
            /\ a.side[src] = e.side[src] /\ a.tens[src] = e.tens[src]
        <5>1. /\ a \in FolderRecords /\ Same(e, a) /\ a.proof = e.proof
              /\ \A u \in Targets \ {t} : a.side[u] = e.side[u] /\ a.tens[u] = e.tens[u]
          BY <2>2, DropHalves
        <5> HIDE DEF a
        <5> QED
          BY <2>1, <5>1
      <4> HIDE DEF a
      <4>2. Vouched(a)
        BY <1>3, <2>2, <4>1, SentinelsAssumption DEF Vouched
      <4> DEFINE b == [a EXCEPT !.proof[t] = None]
      <4>3. b \in FolderRecords /\ Same(a, b) /\ Vouched(b) /\ b.side = a.side /\ b.tens = a.tens
        BY <2>1, <4>1, <4>2, DropProof
      <4>4. d = b
        BY <3>2
      <4> HIDE DEF b, d
      <4> QED
        BY <4>1, <4>3, <4>4 DEF Same
    <3> QED
      BY <3>1, <3>2
  <2> HIDE DEF d
  <2>8. Later(e, d) /\ d # Absent
    BY <2>2, <2>7, SameIsLater, SentinelsAssumption
  <2>9. Arguments("saveSide", w, ops)
    BY <1>1, <2>1, <2>3, <2>5, <2>6, FolderOfCall DEF Arguments, CallAt, Writing
  <2>10. Holds("saveSide", w, d, backup[f]) /\ SavesInto("saveSide", w, d)
    BY <2>1, <2>4, <2>5, <2>6, <2>7, <2>8 DEF Holds, SavesInto
  <2>11. Proc(p, "saveSide", w, d, backup[f])
    BY <1>1, <2>1, <2>6, <2>9, <2>10, GoesOn DEF Pcs, ManifestSection, Snapped, MayGive
  <2> QED
    BY <1>1, <1>3, <2>7, <2>8, <2>11, RewriteKeepsInvariant DEF MapSource
<1> QED
  BY <1>2, <1>3 DEF MapSource, Transferable, GoTo, Goes

---------------------------------------------------------------------------
(* Whole-folder writers.                                                     *)

LEMMA EnterReplaceStep ==
  ASSUME StoreInv, NEW p \in Procs, EnterReplace(p)
  PROVE  StoreInv'
<1> DEFINE f == task[p].folder
           l == IF task[p].op = "merge" THEN "mergeRead" ELSE "recover"
           w == task[p]
<1>1. pc[p] = "replace" /\ pc[p] # "idle" /\ Sole(p)
  BY WriterIsAlone DEF EnterReplace
<1>2. Goes(p, l, w) /\ UNCHANGED <<dir, World>>
  BY DEF EnterReplace, GoTo, Goes, StoreInv, ShapeInv
<1>3. w.op \in Writing
  BY <1>1, FolderOfCall DEF Arguments, CallAt
<1>4. Arguments(l, w, ops)
  BY <1>1, <1>3, FolderOfCall DEF Arguments, CallAt, Writing
<1>5. Holds(l, w, dir[f], backup[f]) /\ SavesInto(l, w, dir[f])
  BY DEF Holds, SavesInto
<1>6. Proc(p, l, w, dir[f], backup[f])
  BY <1>1, <1>3, <1>4, <1>5, FolderOfCall, GoesOn
  DEF Pcs, ManifestSection, Snapped, MayGive, Writing
<1> QED
  BY <1>1, <1>2, <1>6, MoveKeepsInvariant DEF World, StoreInv, ShapeInv, StoreTypeOK

LEMMA MergeReadStep ==
  ASSUME StoreInv, NEW p \in Procs, MergeRead(p)
  PROVE  StoreInv'
<1> DEFINE f == task[p].folder
           g == task[p].src
           c == dir[g].nodes
           w == [task[p] EXCEPT !.corpus = c]
<1>1. pc[p] = "mergeRead" /\ pc[p] # "idle" /\ Sole(p)
  BY WriterIsAlone DEF MergeRead, ManifestSection
<1>2. UNCHANGED <<dir, World>>
  BY DEF MergeRead
<1>3. CASE Leave(p)
  BY <1>1, <1>2, <1>3, LeaveKeepsInvariant
<1>4. CASE Goes(p, "recover", w) /\ dir[g] # Absent /\ c # Missing
  <2>1. task[p].op = "merge" /\ g \in Folders
    BY <1>1, FolderOfCall DEF Arguments, CallAt
  <2>2. c \in Corpora
    <3>1. dir[g] \in FolderRecords
      BY <1>4, <2>1 DEF StoreInv, ShapeInv, StoreTypeOK
    <3> QED
      BY <1>4, <3>1 DEF FolderRecords
  <2> HIDE DEF c
  <2>3. /\ w \in Tasks /\ w.op = task[p].op /\ w.no = task[p].no /\ w.folder = f
        /\ w.stage = task[p].stage /\ w.src = g /\ w.target = task[p].target
        /\ w.corpus = c
    BY <1>1, <2>2, FolderOfCall DEF Tasks
  <2> HIDE DEF w
  <2>4. Arguments("recover", w, ops)
    BY <1>1, <2>1, <2>2, <2>3, FolderOfCall DEF Arguments, CallAt, Writing
  <2>5. Holds("recover", w, dir[f], backup[f]) /\ SavesInto("recover", w, dir[f])
    BY DEF Holds, SavesInto
  <2>6. Proc(p, "recover", w, dir[f], backup[f])
    BY <1>1, <2>1, <2>3, <2>4, <2>5, GoesOn DEF Pcs, ManifestSection, Snapped, MayGive
  <2> QED
    BY <1>1, <1>2, <1>4, <2>6, MoveKeepsInvariant DEF World, StoreInv, ShapeInv, StoreTypeOK
<1> QED
  BY <1>3, <1>4 DEF MergeRead, GoTo, Goes

\* Versions that were there already.
LEMMA OldVersions ==
  ASSUME StoreInv, NEW p \in Procs, pc[p] # "idle", NEW l, NEW w, NEW d,
         NEW e \in {dir[task[p].folder], backup[task[p].folder], Absent}
  PROVE  /\ Descends(p, e, l, w, d) /\ Vouched(e)
         /\ e \in FolderRecords \cup {Absent}
<1>1. Vouched(e) /\ e \in FolderRecords \cup {Absent}
  <2>1. Vouched(Absent)
    BY DEF Vouched
  <2> QED
    BY <2>1, FolderOfCall
<1>2. e \in FolderRecords => Later(e, e)
  BY DEF Later, FolderRecords
<1>3. Descends(p, e, l, w, d)
  BY <1>1, <1>2 DEF Descends
<1> QED
  BY <1>1, <1>3

LEMMA RecoverBackupStep ==
  ASSUME StoreInv, NEW p \in Procs, RecoverBackup(p)
  PROVE  StoreInv'
<1> DEFINE f == task[p].folder
           d == IF dir[f] = Absent THEN backup[f] ELSE dir[f]
           w == task[p]
<1>1. pc[p] = "recover" /\ pc[p] # "idle" /\ Sole(p)
  BY WriterIsAlone DEF RecoverBackup, ManifestSection
<1>2. Leaves(p, d, Absent, lasting[f])
  BY <1>1, FolderOfCall DEF RecoverBackup, Recover, Leaves, StoreInv, ShapeInv, StoreTypeOK
<1>3. \A l, v : Disk(p, l, v, d, Absent, lasting[f])
  <2>1. d \in {dir[f], backup[f], Absent}
    OBVIOUS
  <2>2. Kept(d, Absent, lasting[f])
    BY <1>1, FolderOfCall DEF Kept
  <2> HIDE DEF d
  <2> QED
    BY <1>1, <2>1, <2>2, FolderOfCall, OldVersions DEF Disk
<1>4. CASE Leave(p)
  BY <1>1, <1>2, <1>3, <1>4, EndKeepsInvariant
<1>5. CASE Goes(p, "park", w)
  <2>1. w.op \in Writing
    BY <1>1, FolderOfCall DEF Arguments, CallAt
  <2>2. Arguments("park", w, ops)
    BY <1>1, <2>1, FolderOfCall DEF Arguments, CallAt, Writing
  <2>3. Holds("park", w, d, Absent) /\ SavesInto("park", w, d)
    BY DEF Holds, SavesInto
  <2> HIDE DEF d
  <2>4. Proc(p, "park", w, d, Absent)
    BY <1>1, <2>1, <2>2, <2>3, FolderOfCall, GoesOn
    DEF Pcs, ManifestSection, Snapped, MayGive, Writing
  <2> QED
    BY <1>1, <1>2, <1>3, <1>5, <2>4, StepKeepsInvariant
<1> QED
  BY <1>4, <1>5 DEF RecoverBackup, GoTo, Goes, StoreInv, ShapeInv

LEMMA ParkStep ==
  ASSUME StoreInv, NEW p \in Procs, Park(p)
  PROVE  StoreInv'
<1> DEFINE f == task[p].folder
           ts == IF dir[f] = Absent THEN {} ELSE OnDisk(dir[f], Targets)
           w == [task[p] EXCEPT !.locked = ts]
<1>1. pc[p] = "park" /\ pc[p] # "idle" /\ Sole(p)
  BY WriterIsAlone DEF Park, ManifestSection
<1>2. task[p].op \in Writing
  BY <1>1, FolderOfCall DEF Arguments, CallAt
<1>3. Goes(p, "promote", w)
  BY DEF Park, GoTo, Goes
<1>4. ts \in SUBSET Targets
  BY DEF OnDisk
<1> HIDE DEF ts
<1>5. /\ w \in Tasks /\ w.op = task[p].op /\ w.no = task[p].no /\ w.folder = f
      /\ w.stage = task[p].stage /\ w.src = task[p].src /\ w.target = task[p].target
      /\ w.corpus = task[p].corpus
  BY <1>1, <1>4, FolderOfCall DEF Tasks
<1> HIDE DEF w
<1>6. Leaves(p, Absent, dir[f], lasting[f])
  BY <1>1, FolderOfCall DEF Park, Leaves, StoreInv, ShapeInv, StoreTypeOK
<1>7. Disk(p, "promote", w, Absent, dir[f], lasting[f])
  <2>1. backup[f] = Absent
    BY <1>1, FolderOfCall DEF Holds
  <2>2. Kept(Absent, dir[f], lasting[f])
    BY <1>1, <2>1, FolderOfCall DEF Kept
  <2> QED
    BY <1>1, <2>2, FolderOfCall, OldVersions DEF Disk
<1>8. Proc(p, "promote", w, Absent, dir[f])
  <2>1. Arguments("promote", w, ops)
    BY <1>1, <1>2, <1>5, FolderOfCall DEF Arguments, CallAt, Writing
  <2>2. Holds("promote", w, Absent, dir[f]) /\ SavesInto("promote", w, Absent)
    BY DEF Holds, SavesInto
  <2> QED
    BY <1>1, <1>2, <1>5, <2>1, <2>2, GoesOn DEF Pcs, ManifestSection, Snapped, MayGive, Writing
<1> QED
  BY <1>1, <1>3, <1>6, <1>7, <1>8, StepKeepsInvariant

\* What a writer stages has no identity yet, and vouches for whole pairs.
LEMMA StagedFolder ==
  ASSUME StoreInv, NEW p \in Procs, pc[p] = "promote"
  PROVE  /\ Staged(p) \in FolderRecords /\ Staged(p).id = None
         /\ Staged(p).birth = task[p].no /\ Vouched(Staged(p))
<1> DEFINE f == task[p].folder
           n == task[p].no
           new == Folder(task[p].stage, task[p].corpus, n)
<1>0. pc[p] # "idle"
  OBVIOUS
<1>1. /\ task[p].op \in Writing /\ task[p].stage \in FolderKinds
      /\ task[p].corpus \in Corpora /\ n \in Nat
      /\ task[p].op = "merge" => task[p].target \in Targets
  BY <1>0, FolderOfCall DEF Arguments, CallAt
<1>2. new \in FolderRecords /\ new.id = None /\ new.birth = n /\ Vouched(new)
  BY <1>1, NewFolder
<1>3. CASE task[p].op = "merge"
  BY <1>1, <1>3, BakedFolder DEF Staged
<1>4. CASE task[p].op = "refresh" /\ backup[f] # Absent
  <2>1. backup[f] \in FolderRecords /\ Vouched(backup[f])
    BY <1>0, <1>4, FolderOfCall
  <2>2. Staged(p) = [new EXCEPT !.side = backup[f].side, !.tens = backup[f].tens,
                                !.proof = backup[f].proof]
    BY <1>4 DEF Staged
  <2> DEFINE old == backup[f]
  <2> HIDE DEF new, old
  <2>3. old \in FolderRecords /\ Vouched(old)
    BY <2>1 DEF old
  <2>4. Staged(p) = [new EXCEPT !.side = old.side, !.tens = old.tens, !.proof = old.proof]
    BY <2>2 DEF old
  <2> DEFINE e == [new EXCEPT !.side = old.side, !.tens = old.tens, !.proof = old.proof]
  <2>5. e \in FolderRecords /\ e.id = new.id /\ e.birth = new.birth /\ Vouched(e)
    BY <1>2, <2>3, CarriedFolder
  <2> HIDE DEF e
  <2> QED
    BY <1>2, <2>4, <2>5 DEF e
<1>5. CASE task[p].op # "merge" /\ ~(task[p].op = "refresh" /\ backup[f] # Absent)
  BY <1>2, <1>5 DEF Staged
<1> QED
  BY <1>3, <1>4, <1>5

LEMMA PromoteStep ==
  ASSUME StoreInv, NEW p \in Procs, Promote(p)
  PROVE  StoreInv'
<1> DEFINE f == task[p].folder
           d == Staged(p)
           w == task[p]
<1>1. pc[p] = "promote" /\ pc[p] # "idle" /\ Sole(p)
  BY WriterIsAlone DEF Promote, ManifestSection
<1>2. d \in FolderRecords /\ d.id = None /\ d.birth = w.no /\ Vouched(d) /\ d # Absent
  BY <1>1, StagedFolder, SentinelsAssumption
<1>3. dir' = [dir EXCEPT ![f] = d]
  BY DEF Promote
<1> HIDE DEF d
<1>4. Leaves(p, d, backup[f], w.no)
  BY <1>3 DEF Promote, Leaves, StoreInv, ShapeInv, StoreTypeOK
<1>5. \A l, v : Disk(p, l, v, d, backup[f], w.no)
  <2> TAKE l, v
  <2>1. Descends(p, d, l, v, d)
    BY <1>2 DEF Descends
  <2>2. Descends(p, backup[f], l, v, d)
    BY <1>1, OldVersions
  <2>3. Kept(d, backup[f], w.no) /\ w.no \in Nat
    BY <1>1, <1>2, FolderOfCall DEF Kept
  <2> QED
    BY <1>1, <1>2, <2>1, <2>2, <2>3, FolderOfCall DEF Disk
<1>6. CASE Leave(p)
  BY <1>1, <1>4, <1>5, <1>6, EndKeepsInvariant
<1>7. CASE Goes(p, "dropBackup", w)
  <2>1. w.op \in Writing
    BY <1>1, FolderOfCall DEF Arguments, CallAt
  <2>2. Arguments("dropBackup", w, ops)
    BY <1>1, <2>1, FolderOfCall DEF Arguments, CallAt, Writing
  <2>3. Holds("dropBackup", w, d, backup[f]) /\ SavesInto("dropBackup", w, d)
    BY <1>2 DEF Holds, SavesInto
  <2>4. Proc(p, "dropBackup", w, d, backup[f])
    BY <1>1, <2>1, <2>2, <2>3, FolderOfCall, GoesOn
    DEF Pcs, ManifestSection, Snapped, MayGive, Writing
  <2> QED
    BY <1>1, <1>4, <1>5, <1>7, <2>4, StepKeepsInvariant
<1> QED
  BY <1>6, <1>7 DEF Promote, GoTo, Goes, StoreInv, ShapeInv

LEMMA PromoteFailsStep ==
  ASSUME StoreInv, NEW p \in Procs, PromoteFails(p)
  PROVE  StoreInv'
<1> DEFINE f == task[p].folder
<1>1. pc[p] = "promote" /\ pc[p] # "idle" /\ Sole(p) /\ Leave(p)
  BY WriterIsAlone DEF PromoteFails, ManifestSection
<1>2. CASE UNCHANGED <<dir, backup>>
  BY <1>1, <1>2, LeaveKeepsInvariant DEF PromoteFails, World
<1>3. CASE PutBack(f)
  <2>1. Leaves(p, backup[f], Absent, lasting[f])
    BY <1>1, <1>3, FolderOfCall
    DEF PromoteFails, PutBack, Leaves, StoreInv, ShapeInv, StoreTypeOK
  <2>2. dir[f] = Absent
    BY <1>1, FolderOfCall DEF Holds
  <2>3. Kept(backup[f], Absent, lasting[f])
    BY <1>1, <2>2, FolderOfCall DEF Kept
  <2>4. Disk(p, "idle", NoTask, backup[f], Absent, lasting[f])
    BY <1>1, <2>3, FolderOfCall, OldVersions DEF Disk
  <2> QED
    BY <1>1, <2>1, <2>4, EndKeepsInvariant
<1> QED
  BY <1>2, <1>3 DEF PromoteFails

LEMMA DropBackupStep ==
  ASSUME StoreInv, NEW p \in Procs, DropBackup(p)
  PROVE  StoreInv'
<1> DEFINE f == task[p].folder
<1>1. pc[p] = "dropBackup" /\ pc[p] # "idle" /\ Sole(p) /\ Leave(p)
  BY WriterIsAlone DEF DropBackup, ManifestSection
<1>2. CASE UNCHANGED backup
  BY <1>1, <1>2, LeaveKeepsInvariant DEF DropBackup, World
<1>3. CASE backup' = [backup EXCEPT ![f] = Absent]
  <2>1. Leaves(p, dir[f], Absent, lasting[f])
    BY <1>1, <1>3, FolderOfCall DEF DropBackup, Leaves, StoreInv, ShapeInv, StoreTypeOK
  <2>2. Kept(dir[f], Absent, lasting[f])
    BY <1>1, FolderOfCall DEF Kept, Holds
  <2>3. Disk(p, "idle", NoTask, dir[f], Absent, lasting[f])
    BY <1>1, <2>2, FolderOfCall, OldVersions DEF Disk
  <2> QED
    BY <1>1, <2>1, <2>3, EndKeepsInvariant
<1> QED
  BY <1>2, <1>3 DEF DropBackup

LEMMA EnterUpdateStep ==
  ASSUME StoreInv, NEW p \in Procs, EnterUpdate(p)
  PROVE  StoreInv'
<1> DEFINE f == task[p].folder
           d == [dir[f] EXCEPT !.nodes = Missing]
           w == task[p]
<1>1. pc[p] = "update" /\ pc[p] # "idle" /\ Sole(p) /\ UNCHANGED World
  BY WriterIsAlone DEF EnterUpdate
<1>2. CASE Leave(p) /\ UNCHANGED dir
  BY <1>1, <1>2, LeaveKeepsInvariant
<1>3. CASE dir[f] # Absent /\ dir' = [dir EXCEPT ![f] = d] /\ Goes(p, "swap", w)
  <2>1. dir[f] \in FolderRecords /\ Vouched(dir[f])
    BY <1>1, <1>3, FolderOfCall
  <2>2. d \in FolderRecords /\ Same(dir[f], d) /\ d.proof = dir[f].proof
    BY <2>1, SetNodes
  <2> HIDE DEF d
  <2>3. Later(dir[f], d) /\ Vouched(d) /\ d # Absent
    BY <1>3, <2>1, <2>2, SameIsLater, SentinelsAssumption DEF Vouched
  <2>4. w.op = "update"
    BY <1>1, FolderOfCall DEF Arguments, CallAt
  <2>5. Arguments("swap", w, ops)
    BY <1>1, <2>4, FolderOfCall DEF Arguments, CallAt, Writing
  <2>6. Holds("swap", w, d, backup[f]) /\ SavesInto("swap", w, d)
    BY <2>3 DEF Holds, SavesInto
  <2>7. Proc(p, "swap", w, d, backup[f])
    BY <1>1, <2>4, <2>5, <2>6, FolderOfCall, GoesOn DEF Pcs, ManifestSection, Snapped, MayGive
  <2> QED
    BY <1>1, <1>3, <2>2, <2>3, <2>7, RewriteKeepsInvariant
<1> QED
  BY <1>2, <1>3 DEF EnterUpdate, GoTo, Goes, StoreInv, ShapeInv

---------------------------------------------------------------------------
(* The snapshot of a fit.                                                    *)

LEMMA RevisionOf ==
  ASSUME NEW d, NEW t, NEW tmpl
  PROVE  Revision(d, t, tmpl) =
           [id |-> d.id, epochs |-> [s \in EpochKeys(t) |-> d.epochs[s]],
            authoring |-> Authoring(d, tmpl), source |-> None]
<1> DEFINE epochs == [s \in EpochKeys(t) |-> d.epochs[s]]
<1>1. NoSnapshot = [id |-> None, epochs |-> NoEpochs, authoring |-> None, source |-> None]
  BY DEF NoSnapshot, NoEpochs
<1>2. Revision(d, t, tmpl) =
        [NoSnapshot EXCEPT !.id = d.id, !.epochs = epochs, !.authoring = Authoring(d, tmpl)]
  BY DEF Revision
<1> HIDE DEF epochs
<1>3. Revision(d, t, tmpl) = [id |-> d.id, epochs |-> epochs,
                              authoring |-> Authoring(d, tmpl), source |-> None]
  BY <1>1, <1>2
<1> QED
  BY <1>3 DEF epochs

LEMMA TakeSnapshotStep ==
  ASSUME StoreInv, NEW p \in Procs, TakeSnapshot(p)
  PROVE  StoreInv'
<1> DEFINE f == task[p].folder
           t == task[p].target
           v == task[p]
           old == dir[f]
           id == <<v.no, v.stage>>
           e == WithIdentity(old, id)
           tmpl == IF v.tmpl = None THEN template ELSE v.tmpl
           drifted == e.kind = "templated" /\ e.nodes # tmpl
           d == IF drifted /\ e.nodes # Missing THEN [e EXCEPT !.nodes = Missing] ELSE e
<1>1. pc[p] = "snapshot" /\ pc[p] # "idle" /\ Sole(p) /\ UNCHANGED World
  BY WriterIsAlone DEF TakeSnapshot, ManifestSection
<1>2. v.op = "fit" /\ v.stage \in Stages /\ t \in Targets /\ v \in Tasks /\ v.no \in 1..ops
  BY <1>1, FolderOfCall DEF Arguments, CallAt
<1>3. old # Absent /\ old \in FolderRecords /\ Vouched(old)
  BY <1>1, FolderOfCall DEF Holds
<1>4. id \in Identities /\ id # None
  BY <1>1, <1>2, FolderOfCall, SentinelsAssumption DEF Identities
<1>5. tmpl \in Corpora
  BY <1>1, FolderOfCall DEF Tasks
<1>6. dir' = [dir EXCEPT ![f] = d]
  BY DEF TakeSnapshot
<1> HIDE DEF id
<1>7. /\ e \in FolderRecords /\ Vouched(e) /\ e.id = (IF old.id = None THEN id ELSE old.id)
      /\ e.birth = old.birth /\ e.epochs = old.epochs /\ e.clears = old.clears
      /\ e.nodes = old.nodes /\ e.kind = old.kind /\ e.coords = old.coords
  BY <1>3, <1>4, IdentifiedFolder
<1> HIDE DEF e, tmpl
<1>8. /\ d \in FolderRecords /\ Same(e, d) /\ Vouched(d) /\ d # Absent
      /\ d.id # None /\ d.id \in Identities
  <2>1. d \in FolderRecords /\ Same(e, d) /\ d.proof = e.proof
    BY <1>7, SetNodes DEF Same
  <2> HIDE DEF d
  <2>2. e # Absent /\ d # Absent
    BY <1>7, <2>1, SentinelsAssumption
  <2>3. d.id # None /\ d.id = e.id
    BY <1>4, <1>7, <2>1 DEF Same
  <2>4. d.id \in Identities
    BY <2>1, <2>3 DEF FolderRecords
  <2> QED
    BY <1>7, <2>1, <2>2, <2>3, <2>4 DEF Vouched
\* The identity that is given is one the fit may give.
<1>9. old.id = None => MayGive(pc[p], v, old, v.stage)
  BY <1>1, <1>2 DEF MayGive
<1>10. old.id = None => Unused(f, id)
  BY <1>2, <1>9 DEF StoreInv, HistoryInv, IdentitiesAreNew, id
<1>11. old.id # None => Later(old, d)
  <2>1. old.id # None => Same(old, d)
    BY <1>7, <1>8 DEF Same
  <2> HIDE DEF d
  <2> QED
    BY <1>3, <2>1, SameIsLater
<1>12. backup[f] # Absent => Later(backup[f], backup[f]) /\ backup[f].id # d.id
  <2>1. backup[f] # Absent => Later(backup[f], backup[f])
    BY <1>1, FolderOfCall DEF Later, FolderRecords
  <2>2. backup[f] # Absent /\ old.id # None => backup[f].id # d.id
    BY <1>1, <1>3, <1>7, <1>8, FolderOfCall DEF Same, StoreInv, HistoryInv, IdentitiesAreNew
  <2>3. backup[f] # Absent /\ old.id = None => backup[f].id # d.id
    BY <1>7, <1>8, <1>10 DEF Same, Unused
  <2> QED
    BY <2>1, <2>2, <2>3
<1>13. Kept(d, backup[f], lasting[f])
  BY <1>1, <1>3, <1>7, <1>8, FolderOfCall DEF Kept, Same
<1> HIDE DEF d
\* Wherever the fit goes, it gives that identity no more.
<1>14. ASSUME NEW l, NEW w, old.id = None => ~MayGive(l, w, d, v.stage)
       PROVE  Disk(p, l, w, d, backup[f], lasting[f])
  <2>1. Descends(p, d, l, w, d)
    <3>1. CASE old.id = None
      BY <1>2, <1>7, <1>8, <1>9, <1>14, <3>1 DEF Descends, Same, id
    <3>2. CASE old.id # None
      BY <1>3, <1>11, <3>2 DEF Descends
    <3> QED
      BY <3>1, <3>2
  <2>2. Descends(p, backup[f], l, w, d)
    BY <1>12 DEF Descends
  <2> QED
    BY <1>1, <1>8, <1>12, <1>13, <2>1, <2>2, FolderOfCall DEF Disk
<1>15. Leaves(p, d, backup[f], lasting[f])
  BY <1>1, <1>6, FolderOfCall DEF Leaves, World, StoreInv, ShapeInv, StoreTypeOK
<1>16. CASE Leave(p)
  BY <1>1, <1>14, <1>15, <1>16, EndKeepsInvariant DEF MayGive
\* A templated corpus that drifted is rewritten.
<1>17. CASE task' = [task EXCEPT ![p].tmpl = tmpl, ![p].corpus = tmpl] /\ GoTo(p, "swap")
  <2> DEFINE w == [v EXCEPT !.tmpl = tmpl, !.corpus = tmpl]
  <2>1. Goes(p, "swap", w)
    BY <1>17 DEF Goes, GoTo
  <2>2. /\ w \in Tasks /\ w.op = v.op /\ w.no = v.no /\ w.folder = f /\ w.stage = v.stage
        /\ w.corpus = tmpl /\ Carries(v, w)
    BY <1>2, <1>5 DEF Tasks, Carries
  <2> HIDE DEF w
  <2>3. Arguments("swap", w, ops)
    BY <1>1, <1>2, <1>5, <2>2, FolderOfCall DEF Arguments, CallAt, Carries, Writing
  <2>4. Holds("swap", w, d, backup[f]) /\ SavesInto("swap", w, d)
    BY <1>8 DEF Holds, SavesInto
  <2>5. Snapped("swap", w) => Snapped(pc[p], v)
    BY <1>1, <2>2 DEF Snapped
  <2>6. \A s \in Stages : MayGive("swap", w, d, s) => MayGive(pc[p], v, old, s)
    BY <1>1, <1>2, <1>8, <2>2 DEF MayGive
  <2>7. ~MayGive("swap", w, d, v.stage)
    BY <1>8, <2>2 DEF MayGive
  <2>8. Proc(p, "swap", w, d, backup[f])
    BY <1>1, <2>2, <2>3, <2>4, <2>5, <2>6, GoesOn DEF Pcs, ManifestSection
  <2> QED
    BY <1>1, <1>14, <1>15, <2>1, <2>7, <2>8, StepKeepsInvariant
\* The revision a fit starts from.
<1>18. CASE /\ ~drifted /\ e.nodes # Missing /\ v.stage = "prepare"
            /\ task' = [task EXCEPT ![p].snap = Revision(e, t, tmpl),
                                    ![p].birth = e.birth,
                                    ![p].clears = e.clears[t]]
            /\ GoTo(p, "lookup")
  <2> DEFINE snap == Revision(e, t, tmpl)
             epochs == [s \in EpochKeys(t) |-> e.epochs[s]]
             w == [v EXCEPT !.snap = snap, !.birth = e.birth, !.clears = e.clears[t]]
  <2>1. d = e
    BY <1>18 DEF d
  <2>2. Goes(p, "lookup", w)
    BY <1>18 DEF Goes, GoTo
  <2>3. e.birth \in Nat /\ e.clears[t] \in Nat
    BY <1>2, <1>7 DEF FolderRecords
  <2>4. snap \in Snapshots /\ snap.id = e.id /\ snap.epochs = epochs
    <3>1. epochs \in [EpochKeys(t) -> Nat]
      BY <1>7 DEF EpochKeys, FolderRecords
    <3>2. epochs \in EpochMaps
      BY <1>2, <3>1 DEF EpochMaps
    <3>3. Authoring(e, tmpl) \in Corpora \X Corpora
      BY <1>5, <1>7, <1>18 DEF Authoring, FolderRecords, Missing
    <3>4. snap = [id |-> e.id, epochs |-> epochs, authoring |-> Authoring(e, tmpl), source |-> None]
      BY RevisionOf
    <3> HIDE DEF epochs, snap
    <3> QED
      BY <1>8, <2>1, <3>2, <3>3, <3>4 DEF Snapshots
  <2> HIDE DEF snap
  <2>5. /\ w \in Tasks /\ w.op = v.op /\ w.no = v.no /\ w.folder = f /\ w.stage = v.stage
        /\ w.target = t /\ w.snap = snap /\ w.birth = e.birth /\ w.clears = e.clears[t]
    BY <1>2, <2>3, <2>4 DEF Tasks
  <2> HIDE DEF w
  <2>6. Arguments("lookup", w, ops)
    BY <1>1, <1>2, <1>18, <2>5, FolderOfCall DEF Arguments, CallAt, Writing
  <2>7. Holds("lookup", w, d, backup[f]) /\ SavesInto("lookup", w, d)
    BY DEF Holds, SavesInto
  <2>8. JustTaken(w, d)
    BY <1>2, <1>8, <2>1, <2>4, <2>5 DEF JustTaken
  <2>9. \A s \in Stages : MayGive("lookup", w, d, s) => MayGive(pc[p], v, old, s)
    BY <1>1, <1>2, <2>5 DEF MayGive
  <2>10. ~MayGive("lookup", w, d, v.stage)
    BY <1>18, <2>5 DEF MayGive
  <2>11. Proc(p, "lookup", w, d, backup[f])
    BY <1>1, <2>5, <2>6, <2>7, <2>8, <2>9, GoesOn DEF Pcs, FitSection, ManifestSection
  <2> QED
    BY <1>1, <1>14, <1>15, <2>2, <2>10, <2>11, StepKeepsInvariant
\* The revision is still the one the fit was computed from: so is the folder.
<1>19. CASE /\ ~drifted /\ e.nodes # Missing /\ e.kind # "baked" /\ v.stage = "publish"
            /\ Unchanged(p, e, tmpl) /\ UNCHANGED task /\ GoTo(p, "saveSide")
  <2>1. d = e
    BY <1>19 DEF d
  <2>2. Goes(p, "saveSide", v)
    BY <1>19 DEF Goes, GoTo, StoreInv, ShapeInv
  <2>3. Snapped(pc[p], v)
    BY <1>1, <1>2, <1>19 DEF Snapped
  <2>4. /\ v.snap.id = e.id /\ v.snap.authoring = Authoring(e, tmpl)
        /\ \A s \in EpochKeys(t) : v.snap.epochs[s] = e.epochs[s]
    BY <1>19, RevisionOf DEF Unchanged
  <2>5. old.id # None
    BY <1>7, <1>10, <2>3, <2>4 DEF Unused
  <2>6. Seen(v, old)
    BY <2>3 DEF StoreInv, HistoryInv, SnapshotsIdentify
  <2>7. e.birth = v.birth /\ e.clears[t] = v.clears
    BY <1>3, <1>7, <2>4, <2>5, <2>6 DEF Seen
  <2>8. /\ v.snap.authoring \in Corpora \X Corpora
        /\ e.nodes = v.snap.authoring[1]
        /\ e.kind = "authored" => e.coords = v.snap.authoring[2]
    BY <1>5, <1>7, <1>19, <2>4 DEF Authoring, FolderRecords, Missing
  <2>9. Arguments("saveSide", v, ops)
    BY <1>1, <1>2, <2>8, FolderOfCall DEF Arguments, CallAt, Writing
  <2>10. Holds("saveSide", v, d, backup[f])
    BY <1>8 DEF Holds
  <2>11. SavesInto("saveSide", v, d)
    BY <1>2, <2>1, <2>7, <2>8 DEF SavesInto
  <2>12. \A s \in Stages : ~MayGive("saveSide", v, d, s)
    BY <1>19 DEF MayGive
  <2>13. Proc(p, "saveSide", v, d, backup[f])
    BY <1>1, <1>2, <2>3, <2>9, <2>10, <2>11, <2>12, GoesOn DEF Pcs, ManifestSection, Carries
  <2> QED
    BY <1>1, <1>2, <1>14, <1>15, <2>2, <2>12, <2>13, StepKeepsInvariant
<1> QED
  BY <1>16, <1>17, <1>18, <1>19 DEF TakeSnapshot, e, tmpl, id

---------------------------------------------------------------------------
(* The theorems.                                                             *)

\* The invariant of the manifold folders holds of every run: each process is in
\* a section its call goes through, one at a time works in a folder, a snapshot
\* identifies the folder it was taken of, and no identity is given twice.
THEOREM StoreInvariant == StoreSpec => []StoreInv
<1>1. StoreInit => StoreInv
  BY InitHolds
<1>2. StoreInv /\ [StoreNext]_storeVars => StoreInv'
  <2> SUFFICES ASSUME StoreInv, [StoreNext]_storeVars PROVE StoreInv'
    OBVIOUS
  <2>1. CASE UNCHANGED storeVars
    BY <2>1 DEF storeVars, StoreInv, ShapeInv, StoreTypeOK, OneWriter, WriterInv, FolderInv,
                HistoryInv, SnapshotsIdentify, IdentitiesAreNew, Unused
  <2>2. ASSUME NEW p \in Procs, Proceed(p) PROVE StoreInv'
    BY <2>2, EnterSnapshotStep, RepairStep, TakeSnapshotStep, SwapCorpusStep, WriteMetadataStep,
       LookUpStep, FitFailsStep, SaveSidecarStep, SaveTensorStep, ProveStep, EnterDeleteStep,
       DeleteFilesStep, ClearManifestStep, RemoveDirStep, EnterReplaceStep, MergeReadStep,
       RecoverBackupStep, ParkStep, PromoteStep, PromoteFailsStep, DropBackupStep,
       EnterUpdateStep, PreflightStep, MapSourceStep DEF Proceed
  <2> QED
    BY <2>1, <2>2, CallKeepsInvariant, CrashKeepsInvariant, EditKeepsInvariant DEF StoreNext
<1> QED
  BY <1>1, <1>2, PTL DEF StoreSpec

\* A folder, under its name or parked, is a folder in every run, and a process
\* that is in no call holds nothing.
THEOREM StoreTypeCorrect == StoreSpec => []StoreTypeOK
<1>1. StoreInv => StoreTypeOK
  BY DEF StoreInv, ShapeInv
<1> QED
  BY <1>1, StoreInvariant, PTL

\* Writers of one folder that die at any step neither lose it nor leave in it what
\* a reader would wrongly take for a fit (publish_fit_if_current, prove_pair,
\* promote, recover_backup, transfer_manifold).
THEOREM FoldersStaySound == StoreSpec => []FolderIsSound
<1>1. StoreInv => FolderIsSound
  <2> SUFFICES ASSUME StoreInv PROVE FolderIsSound
    OBVIOUS
  <2>1. ProvenPairIsWhole
    BY DEF StoreInv, FolderInv, Vouched, ProvenPairIsWhole, Proven
  <2>2. PublishesWhatItSaw /\ TransfersWhatItAligned
    <3> SUFFICES ASSUME NEW p \in Procs, pc[p] \in {"saveSide", "saveTensor", "prove"}
                 PROVE  LET d == dir[task[p].folder] IN
                        /\ task[p].op = "fit" =>
                             /\ d # Absent /\ d.birth = task[p].birth
                             /\ d.clears[task[p].target] = task[p].clears
                             /\ d.nodes = task[p].snap.authoring[1]
                             /\ d.kind = "authored" => d.coords = task[p].snap.authoring[2]
                        /\ task[p].op = "transfer" =>
                             d # Absent /\ task[p].snap.source = [side |-> d.side[task[p].src],
                                                                 tens |-> d.tens[task[p].src]]
      BY DEF PublishesWhatItSaw, TransfersWhatItAligned
    <3> QED
      BY DEF StoreInv, WriterInv, Holds, SavesInto
  <2>3. FolderIsNeverLost
    BY DEF StoreInv, FolderInv, Kept, FolderIsNeverLost
  <2> QED
    BY <2>1, <2>2, <2>3 DEF FolderIsSound, SavesWhatItComputed
<1> QED
  BY <1>1, StoreInvariant, PTL

(***************************************************************************)
(* The lens on disk: the inductive invariant.                              *)
(***************************************************************************)

SyncPcs == {"sync", "collect", "syncAgain"}
RunPcs == {"plan", "reap", "settle", "evict", "estimate", "checkpoint", "shards", "pointer", "fail",
           "unlink", "syncPromoted", "adopt"}
RemovePcs == {"removeFinal", "removeCheckpoint"}
Contents == UNION {[layers -> Ids] : layers \in SUBSET LensLayers}

\* A run is at a place, or comes to it once what it wrote has settled.
Heads(place) == fpc = place \/ (fpc \in SyncPcs /\ fit.next = place)

PointerOK(p) == p = NoLens \/ (p \in LensPointers /\ p.n <= Len(p.corpus))
Complete(p) == p # NoLens => p.n = Len(p.corpus)
DiskOK(d) ==
  /\ d = [final |-> d.final, ckpt |-> d.ckpt, files |-> d.files]
  /\ PointerOK(d.final) /\ PointerOK(d.ckpt) /\ Complete(d.final)

FitTypes ==
  /\ DiskOK(disk) /\ DiskOK(synced)
  /\ DOMAIN fit = DOMAIN NoFit
  /\ PointerOK(fit.final) /\ PointerOK(fit.ckpt)
  /\ fit.action \in FitActions \cup {NoLens}
  /\ fit.ids \in Contents
  /\ DOMAIN fit.lens \subseteq LensLayers /\ DOMAIN fit.have \subseteq LensLayers
  /\ fpc \in {"idle"} \cup SyncPcs \cup RunPcs \cup RemovePcs
  /\ (fpc \in RunPcs \/ (fpc \in SyncPcs /\ fit.next # "return")) => fit.op \in FitOps
  /\ fpc # "idle" /\ fit.op \in FitOps =>
       (fit.corpus \in PromptSets /\ fit.sources \in LayerChoices /\ fit.n \in 0..Len(fit.corpus))
  /\ fpc = "removeFinal" => fit.op = "remove"

\* What a run has decided at each place, and where it goes on from a save.
FitPlaces ==
  /\ fpc \in SyncPcs => fit.next \in {"return", "settle", "estimate", "fail", "unlink", "plan", "adopt"}
  /\ fpc = "checkpoint" => fit.next \in {"estimate", "fail"}
  /\ fpc \in {"shards", "pointer"} =>
       \/ fit.save = "final" /\ fit.next = "unlink" /\ fit.n = Len(fit.corpus)
       \/ fit.save = "ckpt" /\ fit.next \in {"estimate", "fail"}
  /\ (fpc \in {"evict", "estimate", "checkpoint", "shards", "pointer", "syncPromoted", "adopt"}
      \/ (fpc \in SyncPcs /\ fit.next \in {"estimate", "unlink", "adopt"})) => fit.action \in {"topup", "resume"}
  /\ ((fpc = "reap" /\ fit.op # "prove") \/ Heads("settle")) => fit.action = "noop"
  /\ Heads("plan") => fit.action = NoLens
  /\ fpc = "unlink" => fit.action \in {NoLens, "topup", "resume"}

\* What a run was told of the disk it plans on.
PlanInv ==
  /\ fpc = "plan" => (fit.final \in {NoLens, disk.final} /\ fit.ckpt \in {NoLens, disk.ckpt})
  /\ (fpc \in SyncPcs /\ fit.next = "plan") => (fit.final = NoLens /\ fit.ckpt = NoLens)
  /\ (fpc = "unlink" /\ fit.action = NoLens) => (fit.final = NoLens /\ fit.ckpt = NoLens)
  /\ ((fpc = "reap" /\ fit.op # "prove") \/ Heads("settle")) =>
       /\ disk.final # NoLens /\ fit.final = disk.final
       /\ disk.final.corpus = fit.corpus /\ disk.final.n = Len(fit.corpus)

\* The layers a run fits and those it has already are all it was asked for.
CoverInv ==
  /\ fit.action \in {"noop", "topup", "resume"} => fit.sources \subseteq DOMAIN fit.lens \cup DOMAIN fit.have
  /\ fit.action = "noop" => DOMAIN fit.lens = {}
  /\ fit.action = "resume" => DOMAIN fit.have = {}
  /\ fpc \in {"shards", "pointer"} => DOMAIN fit.ids \subseteq DOMAIN ToSave
  /\ fpc = "pointer" => DOMAIN fit.ids = DOMAIN ToSave

\* What has been published is what was asked.
Published == Heads("adopt") \/ fpc = "syncPromoted" \/ (Heads("unlink") /\ fit.action # NoLens)
PublishedInv ==
  Published =>
    /\ disk.final # NoLens /\ disk.final.corpus = fit.corpus /\ disk.final.n = fit.n
    /\ fit.n = Len(fit.corpus) /\ PointerLayers(disk.final) = DOMAIN AllMatrices

LensFitInv == FitTypes /\ FitPlaces /\ PlanInv /\ CoverInv /\ PublishedInv

\* A pointer's shards are there and of its documents, but for damage.
Exact(p, files) ==
  p # NoLens => \A l \in PointerLayers(p) :
    p.files[l] \in DOMAIN files /\ files[p.files[l]] \in {Damaged, FirstDocs(p.corpus, p.n)}

\* Unless a publication was torn, the disk and what power loss keeps of it hold the shards
\* of each other's pointers, and the pointers differ only while one is being replaced.
SyncedInv ==
  ~torn =>
    /\ \A p \in {disk.final, disk.ckpt, synced.final, synced.ckpt} :
         Exact(p, disk.files) /\ FilesOf(p) \subseteq DOMAIN synced.files
    /\ fpc \notin {"sync", "syncPromoted", "removeCheckpoint"} =>
         disk.final = synced.final /\ disk.ckpt = synced.ckpt

\* The shards of a save are there, and no pointer names the new ones before they are all synced.
SaveInv ==
  fpc \in {"shards", "pointer"} =>
    /\ \A l \in DOMAIN fit.ids :
         /\ fit.ids[l] \in DOMAIN disk.files
         /\ disk.files[fit.ids[l]] \in {Damaged, FirstDocs(fit.corpus, fit.n)}
         /\ fpc = "pointer" => fit.ids[l] \in DOMAIN synced.files
    /\ \A p \in {disk.final, disk.ckpt, synced.final, synced.ckpt} : FilesOf(p) \cap fit.new = {}

\* A run sums the first documents of its corpus, and what it has already is of all of them.
MatrixInv ==
  /\ \A l \in DOMAIN fit.lens : fit.lens[l] = FirstDocs(fit.corpus, fit.n)
  /\ \A l \in DOMAIN fit.have : fit.have[l] = fit.corpus

ExactInv ==
  /\ Exact(disk.final, disk.files) /\ Exact(disk.ckpt, disk.files)
  /\ SyncedInv /\ SaveInv /\ MatrixInv /\ ResidentIsWhole

---------------------------------------------------------------------------
(* Documents, pointers and disks.                                          *)

LEMMA LensFitConstants ==
  /\ \A c \in PromptSets : c \in Seq(Nat) /\ c # <<>>
  /\ \A S \in LayerChoices : S \subseteq LensLayers
  /\ NoLens \notin LensProcs /\ NoLens \notin LensPointers /\ NoLens \notin FitActions
BY LensFitAssumption

LEMMA DocsAre ==
  ASSUME NEW c \in PromptSets
  PROVE  /\ c \in Seq(Nat) /\ Len(c) \in Nat /\ FirstDocs(c, Len(c)) = c /\ FirstDocs(c, 0) = <<>>
         /\ \A n \in 0..Len(c) : FirstDocs(FirstDocs(c, n), n) = FirstDocs(c, n)
         /\ \A n \in 0..Len(c) : n < Len(c) => Append(FirstDocs(c, n), c[n + 1]) = FirstDocs(c, n + 1)
<1>1. c \in Seq(Nat) BY LensFitConstants
<1> QED BY <1>1 DEF FirstDocs

LEMMA PointerIs ==
  ASSUME NEW c \in PromptSets, NEW n \in 0..Len(c), NEW files \in Contents
  PROVE  /\ PointerOK(Pointer(c, n, files)) /\ Pointer(c, n, files) # NoLens
         /\ Pointer(c, n, files).corpus = c /\ Pointer(c, n, files).n = n /\ Pointer(c, n, files).files = files
<1>1. n \in Nat BY DocsAre
<1>2. Pointer(c, n, files) \in LensPointers BY <1>1 DEF Pointer, LensPointers, Contents
<1> QED BY <1>2, LensFitConstants, DocsAre DEF PointerOK, Pointer

LEMMA PointerHas ==
  ASSUME NEW p, PointerOK(p), p # NoLens
  PROVE  /\ p.corpus \in PromptSets /\ p.n \in 0..Len(p.corpus) /\ p.files \in Contents
         /\ PointerLayers(p) \subseteq LensLayers /\ \A l \in PointerLayers(p) : p.files[l] \in Ids
<1>1. p \in LensPointers /\ p.n <= Len(p.corpus) BY DEF PointerOK
<1>2. p.corpus \in PromptSets /\ p.n \in Nat /\ p.files \in Contents BY <1>1 DEF LensPointers, Contents
<1> QED BY <1>1, <1>2 DEF PointerLayers, Contents

\* A durable lens that matches is of the first documents of the corpus.
LEMMA DurableIs ==
  ASSUME NEW d, PointerOK(d), NEW c \in PromptSets, DurableMatches(d, c)
  PROVE  /\ d # NoLens /\ d.n \in 0..Len(c) /\ FirstDocs(d.corpus, d.n) = FirstDocs(c, d.n)
         /\ d.n >= Len(c) => (d.corpus = c /\ d.n = Len(c))
<1>1. d # NoLens BY DEF DurableMatches
<1>2. d.n \in 0..Len(d.corpus) /\ d.corpus \in PromptSets BY <1>1, PointerHas
<1>3. CASE d.corpus = c BY <1>1, <1>2, <1>3, DocsAre
<1>4. CASE d.n <= Len(c) /\ d.corpus = FirstDocs(c, d.n)
  <2>1. d.n \in 0..Len(c) BY <1>2, <1>4, DocsAre
  <2>2. FirstDocs(d.corpus, d.n) = FirstDocs(c, d.n) BY <1>4, <2>1, DocsAre
  <2>3. d.n >= Len(c) => d.n = Len(c) BY <2>1, DocsAre
  <2> QED BY <1>1, <1>4, <2>1, <2>2, <2>3, DocsAre
<1> QED BY <1>3, <1>4 DEF DurableMatches

LEMMA CheckpointIs ==
  ASSUME NEW p, PointerOK(p), NEW c \in PromptSets, NEW layers, CheckpointMatches(p, c, layers)
  PROVE  /\ p # NoLens /\ p.n \in 0..Len(c) /\ FirstDocs(p.corpus, p.n) = FirstDocs(c, p.n)
         /\ PointerLayers(p) = layers
<1>1. p # NoLens /\ PrefixOf(p, c) /\ PointerLayers(p) = layers BY DEF CheckpointMatches
<1>2. p.n \in 0..Len(p.corpus) BY <1>1, PointerHas
<1>3. CASE p.corpus = c BY <1>1, <1>2, <1>3
<1>4. CASE p.n <= Len(c) /\ FirstDocs(p.corpus, p.n) = FirstDocs(c, p.n) BY <1>1, <1>2, <1>4, DocsAre
<1> QED BY <1>1, <1>3, <1>4 DEF PrefixOf

LEMMA DiskHas ==
  ASSUME NEW d, DiskOK(d)
  PROVE  /\ PointerOK(d.final) /\ PointerOK(d.ckpt) /\ Complete(d.final)
         /\ PointerOK(NoLens) /\ Complete(NoLens)
BY DEF DiskOK, PointerOK, Complete

LEMMA DiskIs ==
  ASSUME NEW d, NEW f, NEW k, NEW files, d = [final |-> f, ckpt |-> k, files |-> files],
         PointerOK(f), PointerOK(k), Complete(f)
  PROVE  DiskOK(d)
BY DEF DiskOK

LEMMA FinalPut ==
  ASSUME NEW d, DiskOK(d), NEW p, PointerOK(p), Complete(p)
  PROVE  /\ DiskOK([d EXCEPT !.final = p]) /\ [d EXCEPT !.final = p].final = p
         /\ [d EXCEPT !.final = p].ckpt = d.ckpt /\ [d EXCEPT !.final = p].files = d.files
<1>1. [d EXCEPT !.final = p] = [final |-> p, ckpt |-> d.ckpt, files |-> d.files] BY DEF DiskOK
<1> QED BY <1>1 DEF DiskOK

LEMMA CkptPut ==
  ASSUME NEW d, DiskOK(d), NEW p, PointerOK(p)
  PROVE  /\ DiskOK([d EXCEPT !.ckpt = p]) /\ [d EXCEPT !.ckpt = p].ckpt = p
         /\ [d EXCEPT !.ckpt = p].final = d.final /\ [d EXCEPT !.ckpt = p].files = d.files
<1>1. [d EXCEPT !.ckpt = p] = [final |-> d.final, ckpt |-> p, files |-> d.files] BY DEF DiskOK
<1> QED BY <1>1 DEF DiskOK

LEMMA FilesPut ==
  ASSUME NEW d, DiskOK(d), NEW files
  PROVE  /\ DiskOK([d EXCEPT !.files = files]) /\ [d EXCEPT !.files = files].files = files
         /\ [d EXCEPT !.files = files].final = d.final /\ [d EXCEPT !.files = files].ckpt = d.ckpt
<1>1. [d EXCEPT !.files = files] = [final |-> d.final, ckpt |-> d.ckpt, files |-> files] BY DEF DiskOK
<1> QED BY <1>1 DEF DiskOK

LEMMA FilesKept ==
  ASSUME NEW d, DiskOK(d), NEW ids
  PROVE  /\ DiskOK(KeepFiles(d, ids)) /\ KeepFiles(d, ids).final = d.final /\ KeepFiles(d, ids).ckpt = d.ckpt
         /\ KeepFiles(d, ids).files = [i \in DOMAIN d.files \cap ids |-> d.files[i]]
<1>1. KeepFiles(d, ids) = [d EXCEPT !.files = [i \in DOMAIN d.files \cap ids |-> d.files[i]]] BY DEF KeepFiles
<1> QED BY <1>1, FilesPut

LEMMA CollectedIs ==
  ASSUME NEW d, DiskOK(d)
  PROVE  /\ DiskOK(Collected(d)) /\ Collected(d).final = d.final /\ Collected(d).ckpt = d.ckpt
         /\ Collected(d).files = [i \in DOMAIN d.files \cap Referenced(d) |-> d.files[i]]
BY FilesKept DEF Collected

LEMMA SpoiledIs ==
  ASSUME NEW d, DiskOK(d), NEW i
  PROVE  /\ DiskOK(Spoiled(d, i)) /\ Spoiled(d, i).final = d.final /\ Spoiled(d, i).ckpt = d.ckpt
         /\ Spoiled(d, i).files = [j \in DOMAIN d.files |-> IF j = i THEN Damaged ELSE d.files[j]]
<1>1. Spoiled(d, i) = [d EXCEPT !.files = [j \in DOMAIN d.files |-> IF j = i THEN Damaged ELSE d.files[j]]]
  BY DEF Spoiled
<1> QED BY <1>1, FilesPut

LEMMA SidecarIs ==
  ASSUME NEW p PROVE Sidecar(p) = NoLens \/ (Sidecar(p) = p /\ p # NoLens /\ FilesOf(p) \subseteq DOMAIN disk.files)
BY DEF Sidecar

---------------------------------------------------------------------------
(* The plan.                                                               *)

LEMMA PlanIs ==
  ASSUME NEW plan, plan = LensFitPlan
  PROVE  \/ plan.action = "refuse"
         \/ /\ plan.action = "noop" /\ plan.ckpt = FALSE
            /\ DurableMatches(fit.final, fit.corpus) /\ fit.final.n >= Len(fit.corpus)
            /\ fit.sources \subseteq PointerLayers(fit.final)
            /\ plan.use = "disk" \/ (plan.use = "resident" /\ ResidentIs(fit.final, fit.sources))
         \/ /\ plan.action = "topup" /\ plan.use = "disk" /\ plan.layers = fit.sources \ PointerLayers(fit.final)
            /\ DurableMatches(fit.final, fit.corpus) /\ fit.final.n >= Len(fit.corpus)
            /\ plan.ckpt => CheckpointMatches(fit.ckpt, fit.corpus, fit.sources \ PointerLayers(fit.final))
         \/ /\ plan.action = "resume" /\ plan.layers = fit.sources /\ plan.use = "none"
            /\ plan.ckpt => CheckpointMatches(fit.ckpt, fit.corpus, fit.sources)
         \/ /\ plan.action = "resume" /\ plan.layers = fit.sources /\ plan.ckpt = FALSE
            /\ DurableMatches(fit.final, fit.corpus) /\ fit.sources \subseteq PointerLayers(fit.final)
            /\ plan.use = "disk" \/ (plan.use = "resident" /\ ResidentIs(fit.final, fit.sources))
BY DEF LensFitPlan, Decision

LEMMA StartIs ==
  ASSUME LensFitInv, fpc = "plan", NEW plan, plan = LensFitPlan, plan.action # "refuse"
  PROVE  /\ plan.action \in {"noop", "topup", "resume"} /\ CountStart(plan) \in 0..Len(fit.corpus)
         /\ DOMAIN LensStart(plan) \subseteq LensLayers /\ DOMAIN HaveStart(plan) \subseteq LensLayers
         /\ fit.sources \subseteq DOMAIN LensStart(plan) \cup DOMAIN HaveStart(plan)
         /\ plan.action = "noop" => DOMAIN LensStart(plan) = {}
         /\ plan.action = "resume" => DOMAIN HaveStart(plan) = {}
         /\ plan.action = "noop" => (fit.final # NoLens /\ fit.final.corpus = fit.corpus /\ fit.final.n = Len(fit.corpus))
<1>1. /\ fit.corpus \in PromptSets /\ fit.sources \in LayerChoices
      /\ PointerOK(fit.final) /\ PointerOK(fit.ckpt)
  BY DEF LensFitInv, FitTypes, RunPcs
<1>2. Len(fit.corpus) \in Nat /\ fit.sources \subseteq LensLayers BY <1>1, DocsAre, LensFitConstants
<1>3. CASE /\ plan.action = "noop" /\ plan.ckpt = FALSE
           /\ DurableMatches(fit.final, fit.corpus) /\ fit.final.n >= Len(fit.corpus)
           /\ fit.sources \subseteq PointerLayers(fit.final)
           /\ plan.use = "disk" \/ (plan.use = "resident" /\ ResidentIs(fit.final, fit.sources))
  <2>1. /\ fit.final # NoLens /\ fit.final.corpus = fit.corpus /\ fit.final.n = Len(fit.corpus)
        /\ PointerLayers(fit.final) \subseteq LensLayers
    BY <1>1, <1>3, DurableIs, PointerHas
  <2>2. LensStart(plan) = <<>> /\ HaveStart(plan) = Durable(plan) BY <1>3 DEF LensStart, HaveStart
  <2>3. CountStart(plan) = 0 BY <1>3 DEF CountStart, FromCheckpoint, Continued
  <2>4. CASE plan.use = "disk"
    <3>1. Durable(plan) = Matrices(fit.final, fit.sources) BY <1>3, <2>4 DEF Durable, Asked
    <3> QED BY <1>2, <1>3, <2>1, <2>2, <2>3, <3>1 DEF Matrices
  <2>5. CASE plan.use = "resident" /\ ResidentIs(fit.final, fit.sources)
    <3>1. Durable(plan) = resident.lens BY <2>5 DEF Durable
    <3> QED BY <1>2, <1>3, <2>1, <2>2, <2>3, <2>5, <3>1 DEF ResidentIs
  <2> QED BY <1>3, <2>4, <2>5
<1>4. CASE /\ plan.action = "topup" /\ plan.use = "disk" /\ plan.layers = fit.sources \ PointerLayers(fit.final)
           /\ DurableMatches(fit.final, fit.corpus) /\ fit.final.n >= Len(fit.corpus)
           /\ plan.ckpt => CheckpointMatches(fit.ckpt, fit.corpus, fit.sources \ PointerLayers(fit.final))
  <2>1. /\ fit.final # NoLens /\ PointerLayers(fit.final) \subseteq LensLayers
    BY <1>1, <1>4, DurableIs, PointerHas
  <2>2. HaveStart(plan) = Matrices(fit.final, PointerLayers(fit.final)) BY <1>4 DEF HaveStart, Durable, Asked
  <2>3. CASE FromCheckpoint(plan)
    <3>1. CheckpointMatches(fit.ckpt, fit.corpus, fit.sources \ PointerLayers(fit.final))
      BY <1>4, <2>3 DEF FromCheckpoint
    <3>2. fit.ckpt.n \in 0..Len(fit.corpus) /\ PointerLayers(fit.ckpt) = fit.sources \ PointerLayers(fit.final)
      BY <1>1, <3>1, CheckpointIs
    <3>3. LensStart(plan) = Matrices(fit.ckpt, PointerLayers(fit.ckpt)) /\ CountStart(plan) = fit.ckpt.n
      BY <1>4, <2>3 DEF LensStart, CountStart
    <3> QED BY <1>2, <1>4, <2>1, <2>2, <3>2, <3>3 DEF Matrices
  <2>4. CASE ~FromCheckpoint(plan)
    <3>1. DOMAIN LensStart(plan) = plan.layers /\ CountStart(plan) = 0
      BY <1>4, <2>4 DEF LensStart, CountStart, Continued
    <3> QED BY <1>2, <1>4, <2>1, <2>2, <3>1 DEF Matrices
  <2> QED BY <2>3, <2>4
<1>5. CASE /\ plan.action = "resume" /\ plan.layers = fit.sources /\ plan.use = "none"
           /\ plan.ckpt => CheckpointMatches(fit.ckpt, fit.corpus, fit.sources)
  <2>1. HaveStart(plan) = <<>> BY <1>5 DEF HaveStart
  <2>2. CASE FromCheckpoint(plan)
    <3>1. CheckpointMatches(fit.ckpt, fit.corpus, fit.sources) BY <1>5, <2>2 DEF FromCheckpoint
    <3>2. fit.ckpt.n \in 0..Len(fit.corpus) /\ PointerLayers(fit.ckpt) = fit.sources BY <1>1, <3>1, CheckpointIs
    <3>3. LensStart(plan) = Matrices(fit.ckpt, PointerLayers(fit.ckpt)) /\ CountStart(plan) = fit.ckpt.n
      BY <1>5, <2>2 DEF LensStart, CountStart
    <3> QED BY <1>2, <1>5, <2>1, <3>2, <3>3 DEF Matrices
  <2>3. CASE ~FromCheckpoint(plan)
    <3>1. DOMAIN LensStart(plan) = plan.layers /\ CountStart(plan) = 0
      BY <1>5, <2>3 DEF LensStart, CountStart, Continued
    <3> QED BY <1>2, <1>5, <2>1, <3>1
  <2> QED BY <2>2, <2>3
<1>6. CASE /\ plan.action = "resume" /\ plan.layers = fit.sources /\ plan.ckpt = FALSE
           /\ DurableMatches(fit.final, fit.corpus) /\ fit.sources \subseteq PointerLayers(fit.final)
           /\ plan.use = "disk" \/ (plan.use = "resident" /\ ResidentIs(fit.final, fit.sources))
  <2>1. HaveStart(plan) = <<>> BY <1>6 DEF HaveStart
  <2>2. fit.final.n \in 0..Len(fit.corpus) BY <1>1, <1>6, DurableIs
  <2>3. DOMAIN LensStart(plan) = plan.layers /\ CountStart(plan) = fit.final.n
    BY <1>6 DEF LensStart, CountStart, Continued, FromCheckpoint
  <2> QED BY <1>2, <1>6, <2>1, <2>2, <2>3
<1> QED BY <1>3, <1>4, <1>5, <1>6, PlanIs

---------------------------------------------------------------------------
(* What every step keeps.                                                  *)

LEMMA NoneIs == <<>> \in Contents /\ DOMAIN <<>> = {}
BY DEF Contents

LEMMA IdleHolds ==
  ASSUME fit' = NoFit, fpc' = "idle", DiskOK(disk'), DiskOK(synced')
  PROVE  LensFitInv'
<1> DEFINE none == <<>>
<1>1. none \in Contents /\ DOMAIN none = {} BY NoneIs
<1>2. PointerOK(NoLens) /\ NoLens \notin FitActions BY LensFitConstants DEF PointerOK
<1>3. /\ DOMAIN fit' = DOMAIN NoFit /\ fit'.final = NoLens /\ fit'.ckpt = NoLens /\ fit'.action = NoLens
      /\ fit'.ids = none /\ DOMAIN fit'.lens = {} /\ DOMAIN fit'.have = {}
  BY <1>1 DEF NoFit
<1>4. FitTypes' BY <1>1, <1>2, <1>3 DEF FitTypes, RunPcs, SyncPcs
<1>5. FitPlaces' /\ PlanInv' /\ CoverInv' /\ PublishedInv'
  BY <1>2, <1>3 DEF FitPlaces, PlanInv, CoverInv, PublishedInv, Published, Heads, SyncPcs, FitActions
<1> QED BY <1>4, <1>5 DEF LensFitInv

LEMMA KeptHolds ==
  ASSUME LensFitInv, fit' = fit, fpc' = fpc, DiskOK(disk'), DiskOK(synced'),
         disk'.final = disk.final, disk'.ckpt = disk.ckpt
  PROVE  LensFitInv'
BY DEF LensFitInv, FitTypes, FitPlaces, PlanInv, CoverInv, PublishedInv, Published, Heads, AllMatrices, ToSave,
   Complete, PointerOK

---------------------------------------------------------------------------
(* Each step keeps the invariant.                                          *)

LEMMA SyncKeeps ==
  ASSUME LensFitInv, Sync \/ Collect \/ SyncAgain
  PROVE  LensFitInv'
<1> USE DEF Goto, Return, Beside
<1>1. DiskOK(disk) /\ DiskOK(synced) BY DEF LensFitInv, FitTypes
<1>2. DiskOK(Collected(disk)) /\ Collected(disk).final = disk.final /\ Collected(disk).ckpt = disk.ckpt
  BY <1>1, CollectedIs
<1>3. DiskOK(disk') /\ DiskOK(synced') /\ disk'.final = disk.final /\ disk'.ckpt = disk.ckpt
  BY <1>1, <1>2 DEF Sync, Collect, SyncAgain
<1>4. CASE fit' = NoFit /\ fpc' = "idle" BY <1>3, <1>4, IdleHolds
<1>5. CASE fit' = fit /\ fpc \in SyncPcs /\ (fpc' \in SyncPcs \/ (fpc' = fit.next /\ fit.next # "return"))
  <2>1. fit.next \in {"return", "settle", "estimate", "fail", "unlink", "plan", "adopt"}
    BY <1>5 DEF LensFitInv, FitPlaces
  <2>2. FitTypes' BY <1>3, <1>5, <2>1 DEF LensFitInv, FitTypes, SyncPcs, RunPcs, RemovePcs
  <2>3. FitPlaces' BY <1>3, <1>5, <2>1 DEF LensFitInv, FitTypes, FitPlaces, SyncPcs, RunPcs, Heads
  <2>4. PlanInv'
    BY <1>3, <1>5, <2>1, LensFitConstants DEF LensFitInv, FitPlaces, FitActions, PlanInv, SyncPcs, Heads
  <2>5. CoverInv' BY <1>3, <1>5, <2>1 DEF LensFitInv, FitTypes, CoverInv, SyncPcs, RunPcs, Heads, ToSave, AllMatrices
  <2>6. PublishedInv' BY <1>3, <1>5, <2>1 DEF LensFitInv, FitTypes, PublishedInv, Published, SyncPcs, RunPcs, Heads, AllMatrices
  <2> QED BY <2>2, <2>3, <2>4, <2>5, <2>6 DEF LensFitInv
<1> QED BY <1>4, <1>5 DEF Sync, Collect, SyncAgain, SyncPcs

LEMMA BeginKeeps ==
  ASSUME LensFitInv, NEW p \in LensProcs, NEW op \in FitOps, NEW c \in PromptSets, NEW S \in LayerChoices,
         NEW k \in Cadences, Begin(p, op, c, S, k)
  PROVE  LensFitInv'
<1> DEFINE none == <<>>
<1>1. DiskOK(disk) /\ DiskOK(synced) BY DEF LensFitInv, FitTypes
<1>2. DiskOK(Collected(disk)) /\ Collected(disk).final = disk.final /\ Collected(disk).ckpt = disk.ckpt
  BY <1>1, CollectedIs
<1>3. DiskOK(disk') /\ DiskOK(synced') /\ disk'.final = disk.final /\ disk'.ckpt = disk.ckpt
  BY <1>1, <1>2 DEF Begin
<1>4. PointerOK(disk.final) /\ PointerOK(disk.ckpt) /\ PointerOK(NoLens) BY <1>1, DiskHas
<1>5. /\ DOMAIN fit' = DOMAIN NoFit /\ fit'.op = op /\ fit'.corpus = c /\ fit'.sources = S
      /\ fit'.final = (IF op = "force" THEN NoLens ELSE Sidecar(disk.final))
      /\ fit'.ckpt = (IF op = "force" THEN NoLens ELSE Sidecar(disk.ckpt))
      /\ fit'.action = NoLens /\ fit'.ids = none /\ fit'.lens = none /\ fit'.have = none /\ fit'.n = 0
  BY DEF Begin, NoFit
<1>6. fit'.final \in {NoLens, disk.final} /\ fit'.ckpt \in {NoLens, disk.ckpt} BY <1>5, SidecarIs
<1>7. fpc' = IF op = "force" THEN "unlink" ELSE "plan" BY DEF Begin
<1>8. none \in Contents /\ DOMAIN none = {} BY NoneIs
<1>9. FitTypes'
  BY <1>3, <1>4, <1>5, <1>6, <1>7, <1>8, DocsAre DEF FitTypes, FitOps, SyncPcs, RunPcs
<1>10. FitPlaces' BY <1>5, <1>7 DEF FitPlaces, Heads, SyncPcs
<1>11. PlanInv' BY <1>3, <1>5, <1>6, <1>7 DEF PlanInv, Heads, SyncPcs
<1>12. CoverInv' BY <1>5, <1>7, LensFitConstants DEF CoverInv, FitActions
<1>13. PublishedInv' BY <1>5, <1>7 DEF PublishedInv, Published, Heads, SyncPcs
<1> QED BY <1>9, <1>10, <1>11, <1>12, <1>13 DEF LensFitInv

LEMMA PlanKeeps ==
  ASSUME LensFitInv, PlanFit
  PROVE  LensFitInv'
<1> DEFINE plan == LensFitPlan
<1>1. /\ fpc = "plan" /\ DiskOK(disk') /\ DiskOK(synced') /\ disk' = disk /\ fit.op \in FitOps /\ PointerOK(NoLens)
      /\ fit.action = NoLens /\ NoLens \notin FitActions
  BY LensFitConstants, DiskHas DEF LensFitInv, FitTypes, PlanFit, RunPcs, FitPlaces, Heads
<1>2. CASE BadFinal(plan)
  <2>1. fit' = [fit EXCEPT !.final = NoLens] /\ fpc' = fpc BY <1>2 DEF PlanFit
  <2> QED BY <1>1, <2>1 DEF LensFitInv, FitTypes, FitPlaces, PlanInv, CoverInv, PublishedInv, Published, Heads,
       SyncPcs, FitActions
<1>3. CASE ~BadFinal(plan) /\ BadCheckpoint(plan) /\ plan.action = "resume"
  <2>1. fit' = [fit EXCEPT !.ckpt = NoLens, !.had = @ \/ resident # resident'] /\ fpc' = fpc BY <1>3 DEF PlanFit
  <2> QED BY <1>1, <2>1 DEF LensFitInv, FitTypes, FitPlaces, PlanInv, CoverInv, PublishedInv, Published, Heads,
       SyncPcs, FitActions
<1>4. CASE ~BadFinal(plan) /\ ~(BadCheckpoint(plan) /\ plan.action = "resume")
  <2> DEFINE f == [fit EXCEPT !.action = plan.action, !.layers = plan.layers, !.n = CountStart(plan),
                         !.start = CountStart(plan), !.have = HaveStart(plan), !.lens = LensStart(plan)]
  <2>1. Planned(plan, f) BY <1>4 DEF PlanFit
  <2>2. CASE plan.action = "refuse"
    <3>1. fit' = NoFit /\ fpc' = "idle" BY <2>1, <2>2 DEF Planned, Return
    <3> QED BY <1>1, <3>1, IdleHolds
  <2>3. CASE plan.action # "refuse"
    <3>1. /\ plan.action \in {"noop", "topup", "resume"} /\ CountStart(plan) \in 0..Len(fit.corpus)
          /\ DOMAIN LensStart(plan) \subseteq LensLayers /\ DOMAIN HaveStart(plan) \subseteq LensLayers
          /\ fit.sources \subseteq DOMAIN LensStart(plan) \cup DOMAIN HaveStart(plan)
          /\ plan.action = "noop" => DOMAIN LensStart(plan) = {}
          /\ plan.action = "resume" => DOMAIN HaveStart(plan) = {}
          /\ plan.action = "noop" => (fit.final # NoLens /\ fit.final.corpus = fit.corpus /\ fit.final.n = Len(fit.corpus))
      BY <1>1, <2>3, StartIs
    <3>2. /\ fit' = f
          /\ fpc' = IF plan.action = "noop" THEN "reap" ELSE IF plan.action = "topup" THEN "estimate" ELSE "evict"
      BY <2>1, <3>1 DEF Planned
    <3>3. /\ DOMAIN fit' = DOMAIN NoFit /\ fit'.op = fit.op /\ fit'.corpus = fit.corpus /\ fit'.sources = fit.sources
          /\ fit'.final = fit.final /\ fit'.ckpt = fit.ckpt /\ fit'.ids = fit.ids
          /\ fit'.action = plan.action /\ fit'.n = CountStart(plan)
          /\ fit'.lens = LensStart(plan) /\ fit'.have = HaveStart(plan)
      BY <3>2 DEF LensFitInv, FitTypes
    <3> HIDE DEF plan
    <3>4. FitTypes' BY <1>1, <3>1, <3>2, <3>3 DEF LensFitInv, FitTypes, FitActions, RunPcs, SyncPcs
    <3>5. FitPlaces' BY <1>1, <3>1, <3>2, <3>3 DEF LensFitInv, FitPlaces, Heads, SyncPcs
    <3>6. PlanInv' BY <1>1, <3>1, <3>2, <3>3 DEF LensFitInv, PlanInv, Heads, SyncPcs
    <3>7. CoverInv' BY <1>1, <3>1, <3>2, <3>3 DEF LensFitInv, CoverInv
    <3>8. PublishedInv' BY <1>1, <3>1, <3>2, <3>3 DEF LensFitInv, PublishedInv, Published, Heads, SyncPcs
    <3> QED BY <3>4, <3>5, <3>6, <3>7, <3>8 DEF LensFitInv
  <2> QED BY <2>2, <2>3
<1> QED BY <1>2, <1>3, <1>4

\* What the places of a run say of it, for the steps that are taken there.
LEMMA AtPlace ==
  ASSUME LensFitInv
  PROVE  /\ DiskOK(disk) /\ DiskOK(synced) /\ NoLens \notin FitActions
         /\ fpc \in RunPcs => (/\ fit.op \in FitOps /\ fit.corpus \in PromptSets /\ fit.sources \in LayerChoices
                               /\ fit.n \in 0..Len(fit.corpus) /\ Len(fit.corpus) \in Nat)
BY LensFitConstants, DocsAre DEF LensFitInv, FitTypes, RunPcs

LEMMA ProveKeeps ==
  ASSUME LensFitInv, ProveNoop
  PROVE  LensFitInv'
<1>1. DiskOK(disk') /\ DiskOK(synced') /\ fpc = "plan" BY AtPlace DEF ProveNoop
<1>2. CASE fit' = NoFit /\ fpc' = "idle" BY <1>1, <1>2, IdleHolds
<1>3. CASE fit' = fit /\ fpc' = "reap" /\ disk' = disk /\ fit.op = "prove"
  BY <1>1, <1>3, AtPlace DEF LensFitInv, FitTypes, FitPlaces, PlanInv, CoverInv, PublishedInv, Published, Heads,
     SyncPcs, RunPcs
<1> QED BY <1>2, <1>3 DEF ProveNoop, Goto, Return

LEMMA ReapKeeps ==
  ASSUME LensFitInv, Reap
  PROVE  LensFitInv'
<1> DEFINE done == IF fit.op = "prove" THEN "return" ELSE "settle"
<1>1. fpc = "reap" BY DEF Reap
<1>2. DiskOK(disk) /\ DiskOK(synced) /\ fit.op \in FitOps /\ DOMAIN fit = DOMAIN NoFit
  BY <1>1, AtPlace DEF RunPcs, LensFitInv, FitTypes
<1>3. DiskOK(disk') /\ DiskOK(synced') /\ disk'.final = disk.final
  <2>1. /\ DiskOK([disk EXCEPT !.ckpt = NoLens]) /\ [disk EXCEPT !.ckpt = NoLens].final = disk.final
    BY <1>2, DiskHas, CkptPut
  <2> QED BY <1>2, <2>1 DEF Reap
<1>4. CASE fit' = [fit EXCEPT !.next = done] /\ fpc' = "sync"
  <2>1. /\ DOMAIN fit' = DOMAIN NoFit /\ fit'.op = fit.op /\ fit'.corpus = fit.corpus /\ fit'.sources = fit.sources
        /\ fit'.final = fit.final /\ fit'.ckpt = fit.ckpt /\ fit'.ids = fit.ids /\ fit'.action = fit.action
        /\ fit'.n = fit.n /\ fit'.lens = fit.lens /\ fit'.have = fit.have /\ fit'.next = done
    BY <1>2, <1>4
  <2> QED BY <1>1, <1>2, <1>3, <1>4, <2>1, AtPlace DEF LensFitInv, FitTypes, FitPlaces, PlanInv, CoverInv,
       PublishedInv, Published, Heads, SyncPcs, RunPcs
<1>5. CASE fit' = NoFit /\ fpc' = "idle" BY <1>3, <1>5, IdleHolds
<1>6. CASE fit' = fit /\ fpc' = "settle" /\ fit.op # "prove"
  BY <1>1, <1>2, <1>3, <1>6, AtPlace DEF LensFitInv, FitTypes, FitPlaces, PlanInv, CoverInv,
       PublishedInv, Published, Heads, SyncPcs, RunPcs
<1> QED BY <1>4, <1>5, <1>6 DEF Reap, Settled, Goto, Return

LEMMA EndKeeps ==
  ASSUME LensFitInv, Settle \/ Adopt \/ FailFit
  PROVE  LensFitInv'
<1>1. DiskOK(disk') /\ DiskOK(synced') BY AtPlace DEF Settle, Adopt, FailFit
<1>2. fit' = NoFit /\ fpc' = "idle" BY DEF Settle, Adopt, FailFit, Return
<1> QED BY <1>1, <1>2, IdleHolds

LEMMA ReusedIs ==
  ASSUME LensFitInv, NEW kind
  PROVE  Reused(kind) \in Contents /\ DOMAIN Reused(kind) \subseteq DOMAIN fit.have
<1> DEFINE none == <<>>
<1>1. none \in Contents /\ DOMAIN none = {} BY NoneIs
<1>2. CASE Sidecar(disk.final) # NoLens
  <2>1. disk.final # NoLens /\ Sidecar(disk.final) = disk.final BY <1>2, SidecarIs
  <2>2. disk.final.files \in Contents /\ PointerLayers(disk.final) \subseteq LensLayers
        /\ \A l \in PointerLayers(disk.final) : disk.final.files[l] \in Ids
    BY <2>1, AtPlace, DiskHas, PointerHas
  <2> DEFINE kept == {k \in DOMAIN fit.have \cap PointerLayers(disk.final) :
                        disk.files[disk.final.files[k]] # Damaged}
  <2>3. Reused(kind) = none \/ Reused(kind) = [l \in kept |-> disk.final.files[l]]
    BY <2>1 DEF Reused
  <2>4. kept \subseteq LensLayers /\ \A l \in kept : disk.final.files[l] \in Ids BY <2>2
  <2>5. kept \subseteq DOMAIN fit.have OBVIOUS
  <2> HIDE DEF kept
  <2>6. [l \in kept |-> disk.final.files[l]] \in [kept -> Ids] BY <2>4
  <2>7. [l \in kept |-> disk.final.files[l]] \in Contents BY <2>4, <2>6 DEF Contents
  <2> QED BY <1>1, <2>3, <2>5, <2>7
<1>3. CASE Sidecar(disk.final) = NoLens
  <2>1. Reused(kind) = none BY <1>3 DEF Reused
  <2> QED BY <1>1, <2>1
<1> QED BY <1>2, <1>3

LEMMA SaveStarts ==
  ASSUME LensFitInv, fpc \in {"evict", "estimate"}, fit.n = Len(fit.corpus), NEW f, NEW had,
         f \in {fit, [fit EXCEPT !.had = had]}, StartSave(f, "final", "unlink"), disk' = disk, synced' = synced
  PROVE  LensFitInv'
<1>1. /\ DiskOK(disk) /\ DiskOK(synced) /\ fit.op \in FitOps /\ DOMAIN fit = DOMAIN NoFit
  BY AtPlace DEF RunPcs, LensFitInv, FitTypes
<1>2. fit' = [f EXCEPT !.save = "final", !.next = "unlink", !.ids = Reused("final"), !.new = {}] /\ fpc' = "shards"
  BY DEF StartSave
<1>3. /\ DOMAIN fit' = DOMAIN NoFit /\ fit'.op = fit.op /\ fit'.corpus = fit.corpus /\ fit'.sources = fit.sources
      /\ fit'.final = fit.final /\ fit'.ckpt = fit.ckpt /\ fit'.ids = Reused("final") /\ fit'.action = fit.action
      /\ fit'.n = fit.n /\ fit'.lens = fit.lens /\ fit'.have = fit.have /\ fit'.next = "unlink" /\ fit'.save = "final"
  <2>1. /\ DOMAIN f = DOMAIN NoFit /\ f.op = fit.op /\ f.corpus = fit.corpus /\ f.sources = fit.sources
        /\ f.final = fit.final /\ f.ckpt = fit.ckpt /\ f.action = fit.action
        /\ f.n = fit.n /\ f.lens = fit.lens /\ f.have = fit.have
    <3>1. CASE f = fit BY <1>1, <3>1
    <3>2. CASE f = [fit EXCEPT !.had = had] BY <1>1, <3>2
    <3> QED BY <3>1, <3>2
  <2> QED BY <1>2, <2>1 DEF NoFit
<1>4. Reused("final") \in Contents /\ DOMAIN Reused("final") \subseteq DOMAIN fit.have BY ReusedIs
<1>5. FitTypes' BY <1>1, <1>2, <1>3, <1>4 DEF LensFitInv, FitTypes, SyncPcs, RunPcs
<1>6. FitPlaces' BY <1>2, <1>3 DEF LensFitInv, FitPlaces, Heads, SyncPcs
<1>7. PlanInv' BY <1>2, <1>3 DEF LensFitInv, PlanInv, Heads, SyncPcs
<1>8. DOMAIN ToSave' = DOMAIN fit.lens \cup DOMAIN fit.have BY <1>3 DEF ToSave, AllMatrices
<1>9. CoverInv' BY <1>2, <1>3, <1>4, <1>8 DEF LensFitInv, CoverInv
<1>10. PublishedInv' BY <1>2, <1>3 DEF PublishedInv, Published, Heads, SyncPcs
<1> QED BY <1>5, <1>6, <1>7, <1>9, <1>10 DEF LensFitInv

LEMMA EvictKeeps ==
  ASSUME LensFitInv, Evict
  PROVE  LensFitInv'
<1> DEFINE had == fit.had \/ resident # resident'
           f == [fit EXCEPT !.had = had]
<1>1. fpc = "evict" /\ disk' = disk /\ synced' = synced BY DEF Evict
<1>2. CASE fit.n < Len(fit.corpus)
  <2>1. fpc' = "estimate" /\ fit' = f BY <1>2 DEF Evict
  <2>2. DOMAIN fit = DOMAIN NoFit BY DEF LensFitInv, FitTypes
  <2> HIDE DEF had
  <2> QED BY <1>1, <2>1, <2>2, AtPlace DEF LensFitInv, FitTypes, FitPlaces, PlanInv, CoverInv,
       PublishedInv, Published, Heads, SyncPcs, RunPcs, ToSave, AllMatrices
<1>3. CASE ~(fit.n < Len(fit.corpus))
  <2>1. StartSave(f, "final", "unlink") BY <1>3 DEF Evict
  <2>2. fit.n = Len(fit.corpus) BY <1>1, <1>3, AtPlace DEF RunPcs
  <2> HIDE DEF had
  <2> QED BY <1>1, <2>1, <2>2, SaveStarts
<1> QED BY <1>2, <1>3

LEMMA EstimateKeeps ==
  ASSUME LensFitInv, Estimate
  PROVE  LensFitInv'
<1> DEFINE f == [fit EXCEPT !.lens = Summed, !.n = @ + 1]
<1>1. /\ fpc = "estimate" /\ fit.n < Len(fit.corpus) /\ disk' = disk /\ synced' = synced
      /\ \/ fpc' = "checkpoint" /\ fit' = [f EXCEPT !.next = "estimate"]
         \/ fpc' = fpc /\ fit' = f
  BY DEF Estimate
<1>2. DOMAIN fit = DOMAIN NoFit BY DEF LensFitInv, FitTypes
<1>3. /\ DOMAIN fit' = DOMAIN NoFit /\ fit'.op = fit.op /\ fit'.corpus = fit.corpus /\ fit'.sources = fit.sources
      /\ fit'.final = fit.final /\ fit'.ckpt = fit.ckpt /\ fit'.ids = fit.ids /\ fit'.action = fit.action
      /\ fit'.n = fit.n + 1 /\ fit'.lens = Summed /\ fit'.have = fit.have
      /\ fit'.next = IF fpc' = "checkpoint" THEN "estimate" ELSE fit.next
  <2>1. /\ DOMAIN f = DOMAIN NoFit /\ f.op = fit.op /\ f.corpus = fit.corpus /\ f.sources = fit.sources
        /\ f.final = fit.final /\ f.ckpt = fit.ckpt /\ f.ids = fit.ids /\ f.action = fit.action
        /\ f.n = fit.n + 1 /\ f.lens = Summed /\ f.have = fit.have /\ f.next = fit.next
    BY <1>2
  <2>2. \/ fpc' = "checkpoint" /\ fit' = [f EXCEPT !.next = "estimate"]
        \/ fpc' = "estimate" /\ fit' = f
    BY <1>1
  <2> HIDE DEF f
  <2> QED BY <2>1, <2>2 DEF NoFit
<1>4. DOMAIN Summed = DOMAIN fit.lens BY DEF Summed
<1>5. fit.n + 1 \in 0..Len(fit.corpus) BY <1>1, AtPlace DEF RunPcs
<1> HIDE DEF f
<1>6. /\ fpc' \in {"checkpoint", "estimate"} /\ fpc = "estimate" /\ disk' = disk /\ synced' = synced
      /\ fpc' = "checkpoint" => fit'.next = "estimate"
  BY <1>1, <1>3
<1>7. FitTypes' BY <1>3, <1>4, <1>5, <1>6, AtPlace DEF LensFitInv, FitTypes, RunPcs, SyncPcs
<1>8. FitPlaces' BY <1>3, <1>6 DEF LensFitInv, FitPlaces, Heads, SyncPcs
<1>9. PlanInv' BY <1>3, <1>6 DEF LensFitInv, PlanInv, Heads, SyncPcs
<1>10. CoverInv' BY <1>3, <1>4, <1>6 DEF LensFitInv, CoverInv
<1>11. PublishedInv' BY <1>6 DEF PublishedInv, Published, Heads, SyncPcs
<1> QED BY <1>7, <1>8, <1>9, <1>10, <1>11 DEF LensFitInv

LEMMA CancelKeeps ==
  ASSUME LensFitInv, CancelFit \/ EstimateFails
  PROVE  LensFitInv'
<1>1. /\ fpc = "estimate" /\ disk' = disk /\ synced' = synced
      /\ \/ fpc' = "checkpoint" /\ fit' = [fit EXCEPT !.next = "fail"]
         \/ fpc' = "fail" /\ fit' = fit
  BY DEF CancelFit, EstimateFails, Goto
<1>2. DOMAIN fit = DOMAIN NoFit BY DEF LensFitInv, FitTypes
<1>3. /\ DOMAIN fit' = DOMAIN NoFit /\ fit'.op = fit.op /\ fit'.corpus = fit.corpus /\ fit'.sources = fit.sources
      /\ fit'.final = fit.final /\ fit'.ckpt = fit.ckpt /\ fit'.ids = fit.ids /\ fit'.action = fit.action
      /\ fit'.n = fit.n /\ fit'.lens = fit.lens /\ fit'.have = fit.have
      /\ fit'.next = IF fpc' = "checkpoint" THEN "fail" ELSE fit.next
  <2>1. CASE fpc' = "checkpoint" /\ fit' = [fit EXCEPT !.next = "fail"] BY <1>2, <2>1
  <2>2. CASE fpc' = "fail" /\ fit' = fit BY <1>2, <2>2
  <2> QED BY <1>1, <2>1, <2>2
<1>4. fpc = "estimate" /\ disk' = disk /\ synced' = synced /\ fpc' \in {"checkpoint", "fail"} BY <1>1
<1> QED BY <1>3, <1>4, AtPlace DEF LensFitInv, FitTypes, FitPlaces, PlanInv, CoverInv,
       PublishedInv, Published, Heads, SyncPcs, RunPcs

LEMMA CheckpointKeeps ==
  ASSUME LensFitInv, Checkpoint
  PROVE  LensFitInv'
<1> DEFINE none == <<>>
<1>1. /\ fpc = "checkpoint" /\ disk' = disk /\ synced' = synced /\ fpc' = "shards"
      /\ fit' = [fit EXCEPT !.save = "ckpt", !.ids = none, !.new = {}, !.wrote = TRUE]
  BY DEF Checkpoint
<1>2. DOMAIN fit = DOMAIN NoFit BY DEF LensFitInv, FitTypes
<1>3. none \in Contents /\ DOMAIN none = {} BY NoneIs
<1> HIDE DEF none
<1> QED BY <1>1, <1>2, <1>3, AtPlace DEF LensFitInv, FitTypes, FitPlaces, PlanInv, CoverInv,
       PublishedInv, Published, Heads, SyncPcs, RunPcs

LEMMA PublishKeeps ==
  ASSUME LensFitInv, Publish
  PROVE  LensFitInv'
<1>1. fpc = "estimate" /\ fit.n = Len(fit.corpus) /\ synced' = synced BY DEF Publish
<1>2. DOMAIN fit = DOMAIN NoFit /\ DiskOK(disk) /\ DiskOK(synced) BY DEF LensFitInv, FitTypes
<1>3. CASE Promotable
  <2>1. disk' = [disk EXCEPT !.final = disk.ckpt] /\ fpc' = "syncPromoted" /\ fit' = fit
    BY <1>3 DEF Publish, Goto
  <2>2. /\ disk.ckpt # NoLens /\ disk.ckpt.n = fit.n /\ disk.ckpt.corpus = fit.corpus
        /\ PointerLayers(disk.ckpt) = DOMAIN fit.lens /\ fit.action = "resume"
    BY <1>3, SidecarIs DEF Promotable
  <2>3. Complete(disk.ckpt) BY <1>1, <2>2 DEF Complete
  <2>4. DiskOK(disk') /\ disk'.final = disk.ckpt /\ disk'.ckpt = disk.ckpt BY <1>2, <2>1, <2>3, DiskHas, FinalPut
  <2>5. DOMAIN AllMatrices = DOMAIN fit.lens BY <2>2 DEF LensFitInv, CoverInv, AllMatrices
  <2>6. DOMAIN AllMatrices' = DOMAIN AllMatrices BY <2>1 DEF AllMatrices
  <2> QED BY <1>1, <1>2, <2>1, <2>2, <2>4, <2>5, <2>6, AtPlace DEF LensFitInv, FitTypes, FitPlaces, PlanInv, CoverInv,
       PublishedInv, Published, Heads, SyncPcs, RunPcs
<1>4. CASE ~Promotable
  <2>1. StartSave(fit, "final", "unlink") /\ disk' = disk BY <1>4 DEF Publish
  <2> QED BY <1>1, <2>1, SaveStarts
<1> QED BY <1>3, <1>4

LEMMA PromotedKeeps ==
  ASSUME LensFitInv, SyncPromoted
  PROVE  LensFitInv'
<1>1. fpc = "syncPromoted" /\ fpc' = "unlink" /\ fit' = fit /\ disk' = disk /\ synced' = disk
  BY DEF SyncPromoted, Goto
<1>2. DOMAIN AllMatrices' = DOMAIN AllMatrices BY <1>1 DEF AllMatrices
<1> QED BY <1>1, <1>2, AtPlace DEF LensFitInv, FitTypes, FitPlaces, PlanInv, CoverInv,
       PublishedInv, Published, Heads, SyncPcs, RunPcs, FitActions

LEMMA UnlinkKeeps ==
  ASSUME LensFitInv, UnlinkCheckpoint
  PROVE  LensFitInv'
<1> DEFINE next == IF fit.action = NoLens THEN "plan" ELSE "adopt"
<1>1. /\ fpc = "unlink" /\ disk' = [disk EXCEPT !.ckpt = NoLens] /\ synced' = synced /\ fpc' = "sync"
      /\ fit' = [fit EXCEPT !.next = next]
  BY DEF UnlinkCheckpoint, Settled
<1>2. DOMAIN fit = DOMAIN NoFit /\ DiskOK(disk) /\ DiskOK(synced) BY DEF LensFitInv, FitTypes
<1>3. DiskOK(disk') /\ disk'.final = disk.final /\ disk'.ckpt = NoLens BY <1>1, <1>2, DiskHas, CkptPut
<1>4. /\ DOMAIN fit' = DOMAIN NoFit /\ fit'.op = fit.op /\ fit'.corpus = fit.corpus /\ fit'.sources = fit.sources
      /\ fit'.final = fit.final /\ fit'.ckpt = fit.ckpt /\ fit'.ids = fit.ids /\ fit'.action = fit.action
      /\ fit'.n = fit.n /\ fit'.lens = fit.lens /\ fit'.have = fit.have /\ fit'.next = next
  BY <1>1, <1>2
<1>5. DOMAIN AllMatrices' = DOMAIN AllMatrices BY <1>4 DEF AllMatrices
<1> QED BY <1>1, <1>2, <1>3, <1>4, <1>5, AtPlace DEF LensFitInv, FitTypes, FitPlaces, PlanInv, CoverInv,
       PublishedInv, Published, Heads, SyncPcs, RunPcs, FitActions

LEMMA WithIs ==
  ASSUME NEW g, NEW x, NEW y
  PROVE  /\ DOMAIN With(g, x, y) = DOMAIN g \cup {x} /\ With(g, x, y)[x] = y
         /\ \A z \in DOMAIN g : z # x => With(g, x, y)[z] = g[z]
         /\ (g \in Contents /\ x \in LensLayers /\ y \in Ids) => With(g, x, y) \in Contents
<1>1. With(g, x, y) = [z \in DOMAIN g \cup {x} |-> IF z = x THEN y ELSE g[z]] BY DEF With
<1>2. ASSUME g \in Contents, x \in LensLayers, y \in Ids PROVE With(g, x, y) \in Contents
  <2>1. PICK layers \in SUBSET LensLayers : g \in [layers -> Ids] BY <1>2 DEF Contents
  <2>2. With(g, x, y) \in [layers \cup {x} -> Ids] BY <1>1, <1>2, <2>1
  <2>3. layers \cup {x} \in SUBSET LensLayers BY <1>2
  <2> QED BY <2>2, <2>3 DEF Contents
<1> QED BY <1>1, <1>2

LEMMA ShardKeeps ==
  ASSUME LensFitInv, WriteShard
  PROVE  LensFitInv'
<1>1. PICK l \in DOMAIN ToSave \ DOMAIN fit.ids, i \in Ids :
        /\ disk' = [disk EXCEPT !.files = With(@, i, ToSave[l])]
        /\ fit' = [fit EXCEPT !.ids = With(@, l, i), !.new = @ \cup {i}]
  BY DEF WriteShard
<1>2. fpc = "shards" /\ fpc' = "shards" /\ synced' = synced BY DEF WriteShard
<1>3. DOMAIN fit = DOMAIN NoFit /\ DiskOK(disk) /\ DiskOK(synced) /\ fit.ids \in Contents
      /\ DOMAIN fit.lens \subseteq LensLayers /\ DOMAIN fit.have \subseteq LensLayers
  BY DEF LensFitInv, FitTypes
<1>4. disk' = [disk EXCEPT !.files = With(disk.files, i, ToSave[l])] BY <1>1, <1>3 DEF DiskOK
<1>5. DiskOK(disk') /\ disk'.final = disk.final /\ disk'.ckpt = disk.ckpt BY <1>3, <1>4, FilesPut
<1>6. fit' = [fit EXCEPT !.ids = With(fit.ids, l, i), !.new = fit.new \cup {i}] BY <1>1, <1>3 DEF NoFit
<1>7. /\ DOMAIN fit' = DOMAIN NoFit /\ fit'.op = fit.op /\ fit'.corpus = fit.corpus /\ fit'.sources = fit.sources
      /\ fit'.final = fit.final /\ fit'.ckpt = fit.ckpt /\ fit'.ids = With(fit.ids, l, i) /\ fit'.action = fit.action
      /\ fit'.n = fit.n /\ fit'.lens = fit.lens /\ fit'.have = fit.have /\ fit'.next = fit.next
      /\ fit'.save = fit.save
  BY <1>3, <1>6 DEF NoFit
<1>8. DOMAIN ToSave \subseteq DOMAIN fit.lens \cup DOMAIN fit.have BY DEF ToSave, AllMatrices
<1>9. l \in LensLayers BY <1>3, <1>8
<1>10. With(fit.ids, l, i) \in Contents /\ DOMAIN With(fit.ids, l, i) = DOMAIN fit.ids \cup {l}
  <2>1. DOMAIN With(fit.ids, l, i) = DOMAIN fit.ids \cup {l} BY DEF With
  <2>2. fit.ids \in Contents /\ l \in LensLayers /\ i \in Ids BY <1>3, <1>9
  <2> QED BY <2>1, <2>2, WithIs
<1>11. DOMAIN ToSave' = DOMAIN ToSave BY <1>7 DEF ToSave, AllMatrices
<1>12. l \in DOMAIN ToSave OBVIOUS
<1>13. FitTypes' BY <1>2, <1>3, <1>5, <1>7, <1>10, AtPlace DEF LensFitInv, FitTypes, SyncPcs, RunPcs
<1>14. FitPlaces' BY <1>2, <1>7 DEF LensFitInv, FitPlaces, Heads, SyncPcs
<1>15. PlanInv' BY <1>2, <1>5, <1>7 DEF LensFitInv, PlanInv, Heads, SyncPcs
<1>16. CoverInv' BY <1>2, <1>7, <1>10, <1>11, <1>12 DEF LensFitInv, CoverInv
<1>17. PublishedInv' BY <1>2 DEF PublishedInv, Published, Heads, SyncPcs
<1> QED BY <1>13, <1>14, <1>15, <1>16, <1>17 DEF LensFitInv

LEMMA ShardsKeep ==
  ASSUME LensFitInv, SyncShards
  PROVE  LensFitInv'
<1>1. /\ fpc = "shards" /\ fpc' = "pointer" /\ fit' = fit /\ disk' = disk /\ synced' = disk
      /\ DOMAIN fit.ids = DOMAIN ToSave
  BY DEF SyncShards, Goto
<1>2. DOMAIN ToSave' = DOMAIN ToSave BY <1>1 DEF ToSave, AllMatrices
<1> QED BY <1>1, <1>2, AtPlace DEF LensFitInv, FitTypes, FitPlaces, PlanInv, CoverInv,
       PublishedInv, Published, Heads, SyncPcs, RunPcs

LEMMA WrittenIs ==
  ASSUME LensFitInv, fpc = "pointer"
  PROVE  /\ DiskOK(Written(disk)) /\ Written(disk).files = disk.files
         /\ PointerOK(Pointer(fit.corpus, fit.n, fit.ids)) /\ Pointer(fit.corpus, fit.n, fit.ids) # NoLens
         /\ fit.save = "final" => (Written(disk).final = Pointer(fit.corpus, fit.n, fit.ids)
                                   /\ Written(disk).ckpt = disk.ckpt)
         /\ fit.save # "final" => (Written(disk).ckpt = Pointer(fit.corpus, fit.n, fit.ids)
                                   /\ Written(disk).final = disk.final)
<1> DEFINE ptr == Pointer(fit.corpus, fit.n, fit.ids)
<1>1. fit.corpus \in PromptSets /\ fit.n \in 0..Len(fit.corpus) /\ fit.ids \in Contents /\ DiskOK(disk)
  BY AtPlace DEF LensFitInv, FitTypes, RunPcs
<1>2. PointerOK(ptr) /\ ptr # NoLens /\ ptr.corpus = fit.corpus /\ ptr.n = fit.n BY <1>1, PointerIs
<1>3. fit.save = "final" => Complete(ptr) BY <1>2 DEF LensFitInv, FitPlaces, Complete
<1>4. Written(disk) = IF fit.save = "final" THEN [disk EXCEPT !.final = ptr] ELSE [disk EXCEPT !.ckpt = ptr]
  BY DEF Written
<1> HIDE DEF ptr
<1>5. CASE fit.save = "final" BY <1>1, <1>2, <1>3, <1>4, <1>5, FinalPut DEF ptr
<1>6. CASE fit.save # "final" BY <1>1, <1>2, <1>4, <1>6, CkptPut DEF ptr
<1> QED BY <1>5, <1>6

LEMMA PointerKeeps ==
  ASSUME LensFitInv, WritePointer
  PROVE  LensFitInv'
<1>1. fpc = "pointer" /\ fpc' = "sync" /\ fit' = fit /\ disk' = Written(disk) /\ synced' = synced
  BY DEF WritePointer, Goto
<1> DEFINE ptr == Pointer(fit.corpus, fit.n, fit.ids)
<1>2. /\ DiskOK(disk') /\ ptr # NoLens
      /\ fit.save = "final" => disk'.final = ptr
      /\ fit.save # "final" => disk'.final = disk.final
  BY <1>1, WrittenIs
<1>3. ptr.corpus = fit.corpus /\ ptr.n = fit.n /\ PointerLayers(ptr) = DOMAIN fit.ids BY DEF Pointer, PointerLayers
<1>4. DOMAIN fit.ids = DOMAIN ToSave BY <1>1 DEF LensFitInv, CoverInv
<1>5. fit.save = "final" => DOMAIN ToSave = DOMAIN AllMatrices BY DEF ToSave
<1>6. DOMAIN AllMatrices' = DOMAIN AllMatrices BY <1>1 DEF AllMatrices
<1>7. \/ fit.save = "final" /\ fit.next = "unlink" /\ fit.n = Len(fit.corpus)
      \/ fit.save # "final" /\ fit.next \in {"estimate", "fail"}
  BY <1>1 DEF LensFitInv, FitPlaces
<1> HIDE DEF ptr
<1>8. FitTypes' BY <1>1, <1>2, AtPlace DEF LensFitInv, FitTypes, SyncPcs, RunPcs
<1>9. FitPlaces' BY <1>1, <1>7 DEF LensFitInv, FitPlaces, Heads, SyncPcs
<1>10. PlanInv' BY <1>1, <1>7 DEF LensFitInv, PlanInv, Heads, SyncPcs
<1>11. CoverInv' BY <1>1 DEF LensFitInv, CoverInv
<1>12. PublishedInv'
  BY <1>1, <1>2, <1>3, <1>4, <1>5, <1>6, <1>7 DEF PublishedInv, Published, Heads, SyncPcs
<1> QED BY <1>8, <1>9, <1>10, <1>11, <1>12 DEF LensFitInv

LEMMA SaveFailKeeps ==
  ASSUME LensFitInv, SaveFails
  PROVE  LensFitInv'
<1>1. fpc \in {"shards", "pointer"} /\ fpc' = "fail" /\ fit' = fit /\ synced' = synced BY DEF SaveFails, Goto
<1>2. DiskOK(disk')
  <2>1. CASE disk' = KeepFiles(disk, DOMAIN disk.files \ fit.new) BY <2>1, AtPlace, FilesKept
  <2>2. CASE fpc = "pointer" /\ disk' = Written(disk) BY <2>2, WrittenIs
  <2> QED BY <2>1, <2>2 DEF SaveFails
<1> QED BY <1>1, <1>2, AtPlace DEF LensFitInv, FitTypes, FitPlaces, PlanInv, CoverInv,
       PublishedInv, Published, Heads, SyncPcs, RunPcs

LEMMA RemoveKeeps ==
  ASSUME LensFitInv, (\E p \in LensProcs : StartRemove(p)) \/ RemoveFinal \/ RemoveCheckpoint
  PROVE  LensFitInv'
<1>1. DOMAIN fit = DOMAIN NoFit /\ DiskOK(disk) /\ DiskOK(synced) BY DEF LensFitInv, FitTypes
<1>2. CASE \E p \in LensProcs : StartRemove(p)
  <2>1. PICK p \in LensProcs : StartRemove(p) BY <1>2
  <2> DEFINE none == <<>>
  <2>2. /\ fit' = [NoFit EXCEPT !.by = p, !.op = "remove"] /\ fpc' = "removeFinal" /\ disk' = disk /\ synced' = synced
    BY <2>1 DEF StartRemove, Goto
  <2>3. /\ DOMAIN fit' = DOMAIN NoFit /\ fit'.op = "remove" /\ fit'.final = NoLens /\ fit'.ckpt = NoLens
        /\ fit'.action = NoLens /\ fit'.ids = none /\ fit'.lens = none /\ fit'.have = none
    BY <2>2 DEF NoFit
  <2>4. none \in Contents /\ DOMAIN none = {} BY NoneIs
  <2> HIDE DEF none
  <2> QED BY <1>1, <2>2, <2>3, <2>4, AtPlace, DiskHas DEF LensFitInv, FitTypes, FitPlaces, PlanInv, CoverInv,
       PublishedInv, Published, Heads, SyncPcs, RunPcs, RemovePcs, FitActions, FitOps
<1>3. CASE RemoveFinal
  <2>1. /\ fpc = "removeFinal" /\ fpc' = "removeCheckpoint" /\ fit' = fit /\ synced' = synced
        /\ disk' = [disk EXCEPT !.final = NoLens]
    BY <1>3 DEF RemoveFinal, Goto
  <2>2. DiskOK(disk') BY <1>1, <2>1, DiskHas, FinalPut
  <2> QED BY <1>1, <2>1, <2>2, AtPlace DEF LensFitInv, FitTypes, FitPlaces, PlanInv, CoverInv,
       PublishedInv, Published, Heads, SyncPcs, RunPcs, RemovePcs, FitOps
<1>4. CASE RemoveCheckpoint
  <2>1. /\ fpc = "removeCheckpoint" /\ fpc' = "sync" /\ fit' = [fit EXCEPT !.next = "return"] /\ synced' = synced
        /\ disk' = [disk EXCEPT !.ckpt = NoLens]
    BY <1>4 DEF RemoveCheckpoint, Settled
  <2>2. DiskOK(disk') BY <1>1, <2>1, DiskHas, CkptPut
  <2>3. /\ DOMAIN fit' = DOMAIN NoFit /\ fit'.op = fit.op /\ fit'.corpus = fit.corpus /\ fit'.sources = fit.sources
        /\ fit'.final = fit.final /\ fit'.ckpt = fit.ckpt /\ fit'.ids = fit.ids /\ fit'.action = fit.action
        /\ fit'.n = fit.n /\ fit'.lens = fit.lens /\ fit'.have = fit.have /\ fit'.next = "return"
    BY <1>1, <2>1
  <2> QED BY <1>1, <2>1, <2>2, <2>3, AtPlace DEF LensFitInv, FitTypes, FitPlaces, PlanInv, CoverInv,
       PublishedInv, Published, Heads, SyncPcs, RunPcs, RemovePcs
<1> QED BY <1>2, <1>3, <1>4

LEMMA ReadKeeps ==
  ASSUME LensFitInv, (\E load \in BOOLEAN : RefreshLens(load)) \/ LoadResident
  PROVE  LensFitInv'
<1>1. DiskOK(disk) /\ DiskOK(synced) BY AtPlace
<1>2. fit' = fit /\ fpc' = fpc /\ synced' = synced /\ disk' \in {disk, Collected(disk)} BY DEF RefreshLens, LoadResident
<1> QED BY <1>1, <1>2, CollectedIs, KeptHolds

LEMMA FaultKeeps ==
  ASSUME LensFitInv, (\E p \in LensProcs : Kill(p)) \/ PowerLoss \/ Damage
  PROVE  LensFitInv'
<1>1. DiskOK(disk) /\ DiskOK(synced) BY AtPlace
<1>2. CASE \E p \in LensProcs : Kill(p)
  <2>1. disk' = disk /\ synced' = synced /\ ((fit' = NoFit /\ fpc' = "idle") \/ (fit' = fit /\ fpc' = fpc))
    BY <1>2 DEF Kill, Dies, Return
  <2> QED BY <1>1, <2>1, IdleHolds, KeptHolds
<1>3. CASE PowerLoss
  <2>1. PICK f \in {disk.final, synced.final}, k \in {disk.ckpt, synced.ckpt} :
          \E files : disk' = [final |-> f, ckpt |-> k, files |-> files]
    BY <1>3 DEF PowerLoss
  <2>2. PICK files : disk' = [final |-> f, ckpt |-> k, files |-> files] BY <2>1
  <2>3. PointerOK(f) /\ PointerOK(k) /\ Complete(f) BY <1>1, DiskHas
  <2>6. DiskOK(disk') BY <2>2, <2>3, DiskIs
  <2>7. synced' = disk' /\ fit' = NoFit /\ fpc' = "idle" BY <1>3 DEF PowerLoss, Return
  <2> QED BY <2>6, <2>7, IdleHolds
<1>4. CASE Damage
  <2>1. PICK i \in DOMAIN disk.files : disk' = Spoiled(disk, i) /\ synced' = Spoiled(synced, i) BY <1>4 DEF Damage
  <2>2. fit' = fit /\ fpc' = fpc BY <1>4 DEF Damage
  <2> QED BY <1>1, <2>1, <2>2, SpoiledIs, KeptHolds
<1> QED BY <1>2, <1>3, <1>4

LEMMA LensInitHolds ==
  ASSUME LensInit PROVE LensFitInv
<1> DEFINE none == <<>>
<1>1. none \in Contents /\ DOMAIN none = {} BY NoneIs
<1>2. /\ DOMAIN fit = DOMAIN NoFit /\ fit.final = NoLens /\ fit.ckpt = NoLens /\ fit.action = NoLens
      /\ fit.ids = none /\ fit.lens = none /\ fit.have = none /\ fpc = "idle"
  BY DEF LensInit, NoFit
<1>3. DiskOK(disk) /\ DiskOK(synced) BY DEF LensInit, Bare, DiskOK, PointerOK, Complete
<1>4. PointerOK(NoLens) BY DEF PointerOK
<1> HIDE DEF none
<1> QED BY <1>1, <1>2, <1>3, <1>4, LensFitConstants DEF LensFitInv, FitTypes, FitPlaces, PlanInv, CoverInv,
       PublishedInv, Published, Heads, SyncPcs, RunPcs, FitActions

LEMMA LensStepHolds ==
  ASSUME LensFitInv, [LensNext]_lensVars
  PROVE  LensFitInv'
<1>1. CASE UNCHANGED lensVars BY <1>1, AtPlace, KeptHolds DEF lensVars
<1>2. CASE LensNext
  BY <1>2, BeginKeeps, PlanKeeps, ProveKeeps, ReapKeeps, EndKeeps, EvictKeeps, EstimateKeeps, CancelKeeps,
     CheckpointKeeps, PublishKeeps, PromotedKeeps, UnlinkKeeps, ShardKeeps, ShardsKeep, PointerKeeps,
     SaveFailKeeps, SyncKeeps, RemoveKeeps, ReadKeeps, FaultKeeps DEF LensNext
<1> QED BY <1>1, <1>2

\* Whatever a lens run is at, it knows what it was asked, what is published is complete and of the
\* layers the run fitted or had, and what it plans on is what is on the disk.
THEOREM LensFitInvariant == LensSpec => []LensFitInv
<1>1. LensInit => LensFitInv BY LensInitHolds
<1>2. LensFitInv /\ [LensNext]_lensVars => LensFitInv' BY LensStepHolds
<1> QED BY <1>1, <1>2, PTL DEF LensSpec

\* DurableIsKept for every corpus, set of layers, process and fault: a manifest that reached the
\* disk goes only for a complete lens, or on request.
THEOREM DurableStays == LensSpec => DurableIsKept
<1> DEFINE A == disk.final # NoLens /\ synced.final # NoLens /\ fit.op # "remove" =>
                   (disk'.final # NoLens /\ disk'.final.n = Len(disk'.final.corpus))
<1>1. ASSUME LensFitInv, LensFitInv', [LensNext]_lensVars PROVE [A]_lensVars
  <2>1. SUFFICES ASSUME LensNext, disk.final # NoLens, synced.final # NoLens, fit.op # "remove"
                 PROVE  disk'.final # NoLens
    BY <1>1 DEF LensFitInv, FitTypes, DiskOK, Complete
  <2>2. DiskOK(disk) /\ DiskOK(synced) BY <1>1, AtPlace
  <2>3. ~RemoveFinal BY <1>1, <2>1 DEF RemoveFinal, LensFitInv, FitTypes
  <2>4. /\ Collected(disk).final = disk.final /\ [disk EXCEPT !.ckpt = NoLens].final = disk.final
        /\ \A ids : KeepFiles(disk, ids).final = disk.final
        /\ \A i : Spoiled(disk, i).final = disk.final
    BY <2>2, CollectedIs, CkptPut, DiskHas, FilesKept, SpoiledIs
  <2>5. \A files : [disk EXCEPT !.files = files].final = disk.final BY <2>2, FilesPut
  <2>6. ASSUME fpc = "pointer" PROVE Written(disk).final # NoLens BY <1>1, <2>1, <2>6, WrittenIs
  <2>7. CASE PowerLoss BY <2>1, <2>7 DEF PowerLoss
  <2>8. CASE WriteShard BY <2>1, <2>2, <2>5, <2>8 DEF WriteShard, DiskOK
  <2>9. CASE Publish
    <3>1. ASSUME Promotable PROVE [disk EXCEPT !.final = disk.ckpt].final # NoLens
      BY <2>2, <3>1, SidecarIs DEF Promotable, DiskOK
    <3> QED BY <2>1, <2>9, <3>1 DEF Publish
  <2>10. CASE \/ PlanFit \/ ProveNoop \/ Reap \/ Settle \/ Evict \/ Estimate \/ CancelFit \/ EstimateFails
              \/ Checkpoint \/ SyncPromoted \/ UnlinkCheckpoint \/ Adopt \/ FailFit
    BY <2>1, <2>4, <2>10 DEF PlanFit, ProveNoop, Reap, Settle, Evict, Estimate, CancelFit, EstimateFails,
       Checkpoint, SyncPromoted, UnlinkCheckpoint, Adopt, FailFit
  <2>11. CASE \/ SyncShards \/ WritePointer \/ SaveFails \/ Sync \/ Collect \/ SyncAgain
              \/ RemoveCheckpoint \/ LoadResident \/ Damage
    BY <2>1, <2>4, <2>6, <2>11 DEF SyncShards, WritePointer, SaveFails, Sync, Collect, SyncAgain,
       RemoveCheckpoint, LoadResident, Damage
  <2>12. CASE \/ \E p \in LensProcs, op \in FitOps, c \in PromptSets, S \in LayerChoices, k \in Cadences :
                   Begin(p, op, c, S, k)
              \/ \E p \in LensProcs : StartRemove(p) \/ Kill(p)
              \/ \E load \in BOOLEAN : RefreshLens(load)
    BY <2>1, <2>4, <2>12 DEF Begin, StartRemove, Kill, RefreshLens
  <2> QED BY <2>1, <2>3, <2>7, <2>8, <2>9, <2>10, <2>11, <2>12 DEF LensNext
<1>2. LensFitInv /\ LensFitInv' /\ [LensNext]_lensVars => [A]_lensVars BY <1>1
<1> QED BY <1>2, LensFitInvariant, PTL DEF LensSpec, DurableIsKept

---------------------------------------------------------------------------
(* What the matrices are of.                                               *)

Between == {"sync", "syncPromoted", "removeCheckpoint"}
SavePcs == {"shards", "pointer"}

\* A step that leaves the disk alone.
LEMMA PlaceHolds ==
  ASSUME ExactInv, disk' = disk, synced' = synced, torn' = torn, fpc \notin Between \/ fpc' = fpc,
         SaveInv', MatrixInv', ResidentIsWhole'
  PROVE  ExactInv'
<1>1. Exact(disk'.final, disk'.files) /\ Exact(disk'.ckpt, disk'.files) BY DEF ExactInv
<1>2. SyncedInv' BY DEF ExactInv, SyncedInv, Between
<1> QED BY <1>1, <1>2 DEF ExactInv

\* A step that makes what is on the disk durable.
LEMMA SyncHolds ==
  ASSUME ExactInv, disk' = disk, synced' = disk, SaveInv', MatrixInv', ResidentIsWhole'
  PROVE  ExactInv'
<1>1. Exact(disk'.final, disk'.files) /\ Exact(disk'.ckpt, disk'.files) BY DEF ExactInv
<1>2. \A p \in {disk.final, disk.ckpt} : Exact(p, disk.files) /\ FilesOf(p) \subseteq DOMAIN disk.files
  BY DEF ExactInv, Exact, FilesOf
<1>3. SyncedInv' BY <1>2 DEF SyncedInv
<1> QED BY <1>1, <1>3 DEF ExactInv

\* A step that drops a pointer, or lets the manifest be the checkpoint.
LEMMA DropHolds ==
  ASSUME ExactInv, synced' = synced, torn' = torn, disk'.files = disk.files,
         disk'.final \in {NoLens, disk.final, disk.ckpt}, disk'.ckpt \in {NoLens, disk.ckpt},
         fpc' \in Between, MatrixInv', ResidentIsWhole'
  PROVE  ExactInv'
<1>1. \A files : Exact(NoLens, files) BY DEF Exact
<1>2. FilesOf(NoLens) = {} BY DEF FilesOf
<1>3. Exact(disk'.final, disk'.files) /\ Exact(disk'.ckpt, disk'.files) BY <1>1 DEF ExactInv
<1>4. SyncedInv' BY <1>1, <1>2 DEF ExactInv, SyncedInv, Between
<1>5. SaveInv' BY DEF SaveInv, Between
<1> QED BY <1>3, <1>4, <1>5 DEF ExactInv

LEMMA ReferencedIs ==
  ASSUME NEW d
  PROVE  FilesOf(d.final) \subseteq Referenced(d) /\ FilesOf(d.ckpt) \subseteq Referenced(d)
BY DEF Referenced

\* Files no pointer names may go.
LEMMA ExactOn ==
  ASSUME NEW p, NEW files, Exact(p, files), NEW kept, FilesOf(p) \subseteq kept
  PROVE  Exact(p, [i \in DOMAIN files \cap kept |-> files[i]])
BY DEF Exact, FilesOf

LEMMA CollectHolds ==
  ASSUME ExactInv, DiskOK(disk), disk' = Collected(disk), synced' = synced, torn' = torn,
         fpc \notin Between, fpc' \notin SavePcs, MatrixInv', ResidentIsWhole'
  PROVE  ExactInv'
<1>1. /\ disk'.final = disk.final /\ disk'.ckpt = disk.ckpt
      /\ disk'.files = [i \in DOMAIN disk.files \cap Referenced(disk) |-> disk.files[i]]
  BY CollectedIs
<1>2. \A p \in {disk.final, disk.ckpt} : FilesOf(p) \subseteq Referenced(disk) BY ReferencedIs
<1>3. \A p \in {disk.final, disk.ckpt} : Exact(p, disk'.files) BY <1>1, <1>2, ExactOn DEF ExactInv
<1>4. SyncedInv' BY <1>1, <1>3 DEF ExactInv, SyncedInv, Between
<1>5. SaveInv' BY DEF SaveInv, SavePcs
<1> QED BY <1>1, <1>3, <1>4, <1>5 DEF ExactInv

LEMMA NothingHeld ==
  ASSUME fit' = NoFit PROVE MatrixInv'
BY NoneIs DEF MatrixInv, NoFit

LEMMA SyncExact ==
  ASSUME LensFitInv, ExactInv, Sync \/ Collect \/ SyncAgain \/ SyncShards \/ SyncPromoted
  PROVE  ExactInv'
<1> USE DEF Goto, Return, Beside
<1>1. resident' = resident BY DEF Sync, Collect, SyncAgain, SyncShards, SyncPromoted
<1>2. ResidentIsWhole' BY <1>1 DEF ExactInv, ResidentIsWhole
<1>3. MatrixInv'
  <2>1. CASE fit' = fit BY <2>1 DEF ExactInv, MatrixInv
  <2>2. CASE fit' = NoFit BY <2>2, NothingHeld
  <2> QED BY <2>1, <2>2 DEF Sync, Collect, SyncAgain, SyncShards, SyncPromoted
<1>4. CASE Collect
  <2>1. /\ DiskOK(disk) /\ disk' = Collected(disk) /\ synced' = synced /\ torn' = torn
        /\ fpc \notin Between /\ fpc' \notin SavePcs
    BY <1>4, AtPlace DEF Collect, Between, SavePcs
  <2> QED BY <1>2, <1>3, <2>1, CollectHolds
<1>5. CASE SyncShards
  <2>1. disk' = disk /\ synced' = disk /\ fit' = fit /\ fpc = "shards" BY <1>5 DEF SyncShards
  <2>2. SaveInv' BY <2>1 DEF ExactInv, SaveInv
  <2> QED BY <1>2, <1>3, <2>1, <2>2, SyncHolds
<1>6. CASE Sync \/ SyncAgain \/ SyncPromoted
  <2>1. disk' = disk /\ synced' = disk BY <1>6 DEF Sync, SyncAgain, SyncPromoted
  <2>2. fpc' \notin {"shards", "pointer"}
    BY <1>6 DEF Sync, SyncAgain, SyncPromoted, LensFitInv, FitPlaces, SyncPcs
  <2>3. SaveInv' BY <2>2 DEF SaveInv
  <2> QED BY <1>2, <1>3, <2>1, <2>3, SyncHolds
<1> QED BY <1>4, <1>5, <1>6

\* A run that has loaded nothing yet, or has ended, holds no matrices.
LEMMA BeginExact ==
  ASSUME LensFitInv, ExactInv,
         (\E p \in LensProcs, op \in FitOps, c \in PromptSets, S \in LayerChoices, k \in Cadences :
            Begin(p, op, c, S, k)) \/ \E p \in LensProcs : StartRemove(p)
  PROVE  ExactInv'
<1>1. /\ fpc = "idle" /\ fpc' \in {"unlink", "plan", "removeFinal"} /\ synced' = synced /\ torn' = torn
      /\ resident' = resident /\ disk' \in {disk, Collected(disk)}
  BY DEF Begin, StartRemove, Beside, Goto, FitLockFree
<1>2. ResidentIsWhole' BY <1>1 DEF ExactInv, ResidentIsWhole
<1>3. fit'.lens = NoFit.lens /\ fit'.have = NoFit.have
  <2>1. CASE \E p \in LensProcs, op \in FitOps, c \in PromptSets, S \in LayerChoices, k \in Cadences :
               Begin(p, op, c, S, k)
    <3>1. PICK p \in LensProcs, op \in FitOps, c \in PromptSets, S \in LayerChoices, k \in Cadences :
            Begin(p, op, c, S, k)
      BY <2>1
    <3> DEFINE final == IF op = "force" THEN NoLens ELSE Sidecar(disk.final)
               ckpt == IF op = "force" THEN NoLens ELSE Sidecar(disk.ckpt)
    <3>2. fit' = [NoFit EXCEPT !.by = p, !.op = op, !.corpus = c, !.sources = S, !.every = k,
                               !.final = final, !.ckpt = ckpt]
      BY <3>1 DEF Begin
    <3> HIDE DEF final, ckpt
    <3> QED BY <3>2 DEF NoFit
  <2>2. CASE \E p \in LensProcs : StartRemove(p) BY <2>2 DEF StartRemove, NoFit
  <2> QED BY <2>1, <2>2
<1>4. MatrixInv' BY <1>3, NoneIs DEF MatrixInv, NoFit
<1>5. SaveInv' BY <1>1 DEF SaveInv
<1>6. CASE disk' = disk BY <1>1, <1>2, <1>4, <1>5, <1>6, PlaceHolds DEF Between
<1>7. CASE disk' = Collected(disk)
  <2>1. fpc \notin Between /\ fpc' \notin SavePcs BY <1>1 DEF Between, SavePcs
  <2> QED BY <1>1, <1>2, <1>4, <1>7, <2>1, AtPlace, CollectHolds
<1> QED BY <1>1, <1>6, <1>7

\* A pointer that loads is of exactly the documents it counts.
LEMMA LoadedIs ==
  ASSUME NEW p, Exact(p, disk.files), NEW layers, Loads(p, layers)
  PROVE  /\ p # NoLens /\ layers \subseteq PointerLayers(p)
         /\ \A l \in layers : Matrices(p, layers)[l] = FirstDocs(p.corpus, p.n)
BY DEF Exact, Loads, Matrices

\* Whichever of manifest, checkpoint and resident a fit starts from, what it has summed is of the
\* documents it counts, and what it need not sum is of the whole corpus.
LEMMA StartExact ==
  ASSUME LensFitInv, ExactInv, fpc = "plan", NEW plan, plan = LensFitPlan, plan.action # "refuse",
         ~BadFinal(plan), ~(BadCheckpoint(plan) /\ plan.action = "resume")
  PROVE  /\ \A l \in DOMAIN LensStart(plan) : LensStart(plan)[l] = FirstDocs(fit.corpus, CountStart(plan))
         /\ \A l \in DOMAIN HaveStart(plan) : HaveStart(plan)[l] = fit.corpus
<1> DEFINE none == <<>>
           d == fit.final
           k == fit.ckpt
           c == fit.corpus
<1>1. c \in PromptSets /\ fit.sources \in LayerChoices /\ PointerOK(d) /\ PointerOK(k)
  BY DEF LensFitInv, FitTypes, RunPcs
<1>2. FirstDocs(c, Len(c)) = c /\ FirstDocs(c, 0) = none /\ Len(c) \in Nat /\ DOMAIN none = {} BY <1>1, DocsAre, NoneIs
<1>3. Exact(d, disk.files) /\ Exact(k, disk.files)
  <2>1. \A files : Exact(NoLens, files) BY DEF Exact
  <2> QED BY <2>1 DEF LensFitInv, PlanInv, ExactInv
<1>4. ASSUME FromCheckpoint(plan), NEW layers, CheckpointMatches(k, c, layers)
      PROVE  /\ DOMAIN Matrices(k, PointerLayers(k)) = PointerLayers(k)
             /\ \A l \in PointerLayers(k) : Matrices(k, PointerLayers(k))[l] = FirstDocs(c, k.n)
  <2>1. Loads(k, PointerLayers(k)) BY <1>4 DEF FromCheckpoint, BadCheckpoint
  <2>2. FirstDocs(k.corpus, k.n) = FirstDocs(c, k.n) BY <1>1, <1>4, CheckpointIs
  <2>3. \A l \in PointerLayers(k) : Matrices(k, PointerLayers(k))[l] = FirstDocs(k.corpus, k.n)
    BY <1>3, <2>1, LoadedIs
  <2> QED BY <2>2, <2>3 DEF Matrices
<1>5. ASSUME plan.use = "disk"
      PROVE  Durable(plan) = Matrices(d, Asked(plan)) /\ DOMAIN Durable(plan) = Asked(plan)
             /\ \A l \in Asked(plan) : Durable(plan)[l] = FirstDocs(d.corpus, d.n)
  <2>1. Loads(d, Asked(plan)) BY <1>5 DEF BadFinal
  <2>2. Durable(plan) = Matrices(d, Asked(plan)) BY <1>5 DEF Durable
  <2>3. \A l \in Asked(plan) : Matrices(d, Asked(plan))[l] = FirstDocs(d.corpus, d.n) BY <1>3, <2>1, LoadedIs
  <2>4. DOMAIN Matrices(d, Asked(plan)) = Asked(plan) BY DEF Matrices
  <2> QED BY <2>2, <2>3, <2>4
<1>6. ASSUME plan.use = "resident", ResidentIs(d, fit.sources), d # NoLens
      PROVE  /\ DOMAIN Durable(plan) = PointerLayers(d)
             /\ \A l \in PointerLayers(d) : Durable(plan)[l] = FirstDocs(d.corpus, d.n)
  <2>1. Durable(plan) = resident.lens BY <1>6 DEF Durable
  <2>2. resident # NoLens /\ resident.id = d /\ DOMAIN resident.lens = PointerLayers(d) BY <1>6 DEF ResidentIs
  <2> QED BY <1>6, <2>1, <2>2 DEF ExactInv, ResidentIsWhole
<1>7. CASE /\ plan.action = "noop" /\ plan.ckpt = FALSE
           /\ DurableMatches(d, c) /\ d.n >= Len(c)
           /\ fit.sources \subseteq PointerLayers(d)
           /\ plan.use = "disk" \/ (plan.use = "resident" /\ ResidentIs(d, fit.sources))
  <2>1. d # NoLens /\ d.corpus = c /\ d.n = Len(c) BY <1>1, <1>7, DurableIs
  <2>2. LensStart(plan) = none /\ HaveStart(plan) = Durable(plan) BY <1>7 DEF LensStart, HaveStart
  <2>3. \A l \in DOMAIN Durable(plan) : Durable(plan)[l] = FirstDocs(d.corpus, d.n) BY <1>5, <1>6, <1>7, <2>1
  <2> QED BY <1>2, <2>1, <2>2, <2>3
<1>8. CASE /\ plan.action = "topup" /\ plan.use = "disk" /\ plan.layers = fit.sources \ PointerLayers(d)
           /\ DurableMatches(d, c) /\ d.n >= Len(c)
           /\ plan.ckpt => CheckpointMatches(k, c, fit.sources \ PointerLayers(d))
  <2>1. d # NoLens /\ d.corpus = c /\ d.n = Len(c) BY <1>1, <1>8, DurableIs
  <2>2. HaveStart(plan) = Durable(plan) BY <1>8 DEF HaveStart
  <2>3. \A l \in DOMAIN HaveStart(plan) : HaveStart(plan)[l] = c BY <1>2, <1>5, <1>8, <2>1, <2>2
  <2>4. CASE FromCheckpoint(plan)
    <3>1. LensStart(plan) = Matrices(k, PointerLayers(k)) /\ CountStart(plan) = k.n
      BY <1>8, <2>4 DEF LensStart, CountStart
    <3>2. CheckpointMatches(k, c, fit.sources \ PointerLayers(d)) BY <1>8, <2>4 DEF FromCheckpoint
    <3> QED BY <1>4, <2>3, <2>4, <3>1, <3>2
  <2>5. CASE ~FromCheckpoint(plan)
    <3>1. /\ LensStart(plan) = [l \in plan.layers |-> IF Continued(plan) THEN Durable(plan)[l] ELSE none]
          /\ ~Continued(plan) /\ CountStart(plan) = 0
      BY <1>8, <2>5 DEF LensStart, CountStart, Continued
    <3> QED BY <1>2, <2>3, <3>1
  <2> QED BY <2>4, <2>5
<1>9. CASE /\ plan.action = "resume" /\ plan.layers = fit.sources /\ plan.use = "none"
           /\ plan.ckpt => CheckpointMatches(k, c, fit.sources)
  <2>1. HaveStart(plan) = none BY <1>9 DEF HaveStart
  <2>2. CASE FromCheckpoint(plan)
    <3>1. LensStart(plan) = Matrices(k, PointerLayers(k)) /\ CountStart(plan) = k.n
      BY <1>9, <2>2 DEF LensStart, CountStart
    <3>2. CheckpointMatches(k, c, fit.sources) BY <1>9, <2>2 DEF FromCheckpoint
    <3> QED BY <1>2, <1>4, <2>1, <2>2, <3>1, <3>2
  <2>3. CASE ~FromCheckpoint(plan)
    <3>1. /\ LensStart(plan) = [l \in plan.layers |-> IF Continued(plan) THEN Durable(plan)[l] ELSE none]
          /\ ~Continued(plan) /\ CountStart(plan) = 0
      BY <1>9, <2>3 DEF LensStart, CountStart, Continued
    <3> QED BY <1>2, <2>1, <3>1
  <2> QED BY <2>2, <2>3
<1>10. CASE /\ plan.action = "resume" /\ plan.layers = fit.sources /\ plan.ckpt = FALSE
            /\ DurableMatches(d, c) /\ fit.sources \subseteq PointerLayers(d)
            /\ plan.use = "disk" \/ (plan.use = "resident" /\ ResidentIs(d, fit.sources))
  <2>1. d # NoLens /\ FirstDocs(d.corpus, d.n) = FirstDocs(c, d.n) BY <1>1, <1>10, DurableIs
  <2>2. HaveStart(plan) = none BY <1>10 DEF HaveStart
  <2>3. /\ LensStart(plan) = [l \in plan.layers |-> IF Continued(plan) THEN Durable(plan)[l] ELSE none]
        /\ Continued(plan) /\ CountStart(plan) = d.n
    BY <1>10 DEF LensStart, CountStart, Continued, FromCheckpoint
  <2>4. Asked(plan) = PointerLayers(d) BY <1>10 DEF Asked
  <2>5. \A l \in PointerLayers(d) : Durable(plan)[l] = FirstDocs(d.corpus, d.n) BY <1>5, <1>6, <1>10, <2>1, <2>4
  <2> QED BY <1>2, <1>10, <2>1, <2>2, <2>3, <2>5
<1> QED BY <1>7, <1>8, <1>9, <1>10, PlanIs

LEMMA PlanExact ==
  ASSUME LensFitInv, ExactInv, PlanFit
  PROVE  ExactInv'
<1> DEFINE plan == LensFitPlan
           f == [fit EXCEPT !.action = plan.action, !.layers = plan.layers, !.n = CountStart(plan),
                            !.start = CountStart(plan), !.have = HaveStart(plan), !.lens = LensStart(plan)]
<1>1. /\ fpc = "plan" /\ disk' = disk /\ synced' = synced /\ torn' = torn /\ DOMAIN fit = DOMAIN NoFit
      /\ fpc' \in {"plan", "idle", "reap", "estimate", "evict"} /\ resident' \in {resident, NoLens}
      /\ \/ fit' = [fit EXCEPT !.final = NoLens]
         \/ fit' = [fit EXCEPT !.ckpt = NoLens, !.had = @ \/ resident # resident']
         \/ fit' = NoFit
         \/ /\ fit' = f /\ plan.action # "refuse" /\ ~BadFinal(plan)
            /\ ~(BadCheckpoint(plan) /\ plan.action = "resume")
  <2>1. plan.action \in {"refuse", "noop", "topup", "resume"} BY PlanIs
  <2>2. fpc = "plan" /\ disk' = disk /\ synced' = synced /\ torn' = torn /\ DOMAIN fit = DOMAIN NoFit
    BY DEF PlanFit, Beside, LensFitInv, FitTypes
  <2>3. CASE BadFinal(plan) BY <2>2, <2>3 DEF PlanFit
  <2>4. CASE ~BadFinal(plan) /\ BadCheckpoint(plan) /\ plan.action = "resume"
    BY <2>2, <2>4 DEF PlanFit, EvictIfMine, Evicting
  <2>5. CASE ~BadFinal(plan) /\ ~(BadCheckpoint(plan) /\ plan.action = "resume")
    <3>1. Planned(plan, f) /\ resident' = resident BY <2>5 DEF PlanFit
    <3> HIDE DEF plan, f
    <3> QED BY <2>1, <2>2, <2>5, <3>1 DEF Planned, Return
  <2> QED BY <2>3, <2>4, <2>5
<1>2. ResidentIsWhole' BY <1>1 DEF ExactInv, ResidentIsWhole
<1>3. SaveInv' BY <1>1 DEF SaveInv
<1>4. MatrixInv'
  <2>1. CASE fit' = NoFit BY <2>1, NothingHeld
  <2>2. CASE \/ fit' = [fit EXCEPT !.final = NoLens]
             \/ fit' = [fit EXCEPT !.ckpt = NoLens, !.had = @ \/ resident # resident']
    <3>1. fit'.lens = fit.lens /\ fit'.have = fit.have /\ fit'.n = fit.n /\ fit'.corpus = fit.corpus
      <4>1. CASE fit' = [fit EXCEPT !.final = NoLens] BY <1>1, <4>1
      <4>2. CASE fit' = [fit EXCEPT !.ckpt = NoLens, !.had = @ \/ resident # resident'] BY <1>1, <4>2
      <4> QED BY <2>2, <4>1, <4>2
    <3> QED BY <3>1 DEF ExactInv, MatrixInv
  <2>3. CASE /\ fit' = f /\ plan.action # "refuse" /\ ~BadFinal(plan)
             /\ ~(BadCheckpoint(plan) /\ plan.action = "resume")
    <3>1. /\ \A l \in DOMAIN LensStart(plan) : LensStart(plan)[l] = FirstDocs(fit.corpus, CountStart(plan))
          /\ \A l \in DOMAIN HaveStart(plan) : HaveStart(plan)[l] = fit.corpus
      BY <1>1, <2>3, StartExact
    <3>2. /\ fit'.lens = LensStart(plan) /\ fit'.have = HaveStart(plan) /\ fit'.n = CountStart(plan)
          /\ fit'.corpus = fit.corpus
      BY <1>1, <2>3
    <3> HIDE DEF plan
    <3> QED BY <3>1, <3>2 DEF MatrixInv
  <2> QED BY <1>1, <2>1, <2>2, <2>3
<1>5. fpc \notin Between BY <1>1 DEF Between
<1> HIDE DEF plan, f
<1> QED BY <1>1, <1>2, <1>3, <1>4, <1>5, PlaceHolds

LEMMA ReapExact ==
  ASSUME LensFitInv, ExactInv, ProveNoop \/ Reap
  PROVE  ExactInv'
<1>1. /\ fpc \in {"plan", "reap"} /\ synced' = synced /\ torn' = torn /\ resident' = resident
      /\ DiskOK(disk) /\ DOMAIN fit = DOMAIN NoFit
  BY AtPlace DEF ProveNoop, Reap, Beside, LensFitInv, FitTypes
<1>2. ResidentIsWhole' BY <1>1 DEF ExactInv, ResidentIsWhole
<1>3. \/ fit' = fit /\ fpc' \in {"reap", "settle"} /\ disk' = disk
      \/ fit' = NoFit /\ fpc' = "idle" /\ disk' = disk
      \/ /\ fpc' = "sync" /\ disk' = [disk EXCEPT !.ckpt = NoLens]
         /\ fit' = [fit EXCEPT !.next = IF fit.op = "prove" THEN "return" ELSE "settle"]
  BY DEF ProveNoop, Reap, Goto, Return, Settled
<1>4. MatrixInv'
  <2>1. CASE fit' = NoFit BY <2>1, NothingHeld
  <2>2. CASE fit'.lens = fit.lens /\ fit'.have = fit.have /\ fit'.n = fit.n /\ fit'.corpus = fit.corpus
    BY <2>2 DEF ExactInv, MatrixInv
  <2> DEFINE next == IF fit.op = "prove" THEN "return" ELSE "settle"
  <2>3. CASE fit' = [fit EXCEPT !.next = next]
    <3> HIDE DEF next
    <3>1. fit'.lens = fit.lens /\ fit'.have = fit.have /\ fit'.n = fit.n /\ fit'.corpus = fit.corpus
      BY <1>1, <2>3
    <3> QED BY <2>2, <3>1
  <2> QED BY <1>3, <2>1, <2>2, <2>3
<1>5. CASE disk' = disk /\ fpc' \in {"reap", "settle", "idle"}
  <2>1. SaveInv' /\ fpc \notin Between BY <1>1, <1>5 DEF SaveInv, Between
  <2> QED BY <1>1, <1>2, <1>4, <1>5, <2>1, PlaceHolds
<1>6. CASE fpc' = "sync" /\ disk' = [disk EXCEPT !.ckpt = NoLens]
  <2>1. disk'.files = disk.files /\ disk'.final = disk.final /\ disk'.ckpt = NoLens BY <1>1, <1>6, DiskHas, CkptPut
  <2>2. fpc' \in Between BY <1>6 DEF Between
  <2> QED BY <1>1, <1>2, <1>4, <2>1, <2>2, DropHolds
<1> QED BY <1>3, <1>5, <1>6

\* A lens is put in memory as the whole of the manifest it is stamped with.
LEMMA AdoptedIs ==
  ASSUME NEW lens, Adopting(lens),
         Sidecar(disk.final) # NoLens =>
           (/\ DOMAIN lens = PointerLayers(disk.final)
            /\ \A l \in DOMAIN lens : lens[l] = FirstDocs(disk.final.corpus, disk.final.n))
  PROVE  ResidentIsWhole'
<1> DEFINE id == Sidecar(disk.final)
<1>1. CASE id = NoLens
  <2>1. resident' = [lens |-> lens, n |-> fit.n, id |-> NoLens] BY <1>1 DEF Adopting
  <2> QED BY <2>1 DEF ResidentIsWhole
<1>2. CASE id # NoLens
  <2>1. id = disk.final BY <1>2, SidecarIs
  <2>2. resident' = [lens |-> lens, n |-> id.n, id |-> id] BY <1>2 DEF Adopting
  <2>3. resident'.lens = lens /\ resident'.id = disk.final /\ resident'.n = disk.final.n BY <2>1, <2>2
  <2> QED BY <1>2, <2>3 DEF ResidentIsWhole
<1> QED BY <1>1, <1>2

LEMMA EndExact ==
  ASSUME LensFitInv, ExactInv, Settle \/ Adopt \/ FailFit
  PROVE  ExactInv'
<1>1. /\ fpc \in {"settle", "adopt", "fail"} /\ disk' = disk /\ synced' = synced /\ torn' = torn
      /\ fit' = NoFit /\ fpc' = "idle"
  BY DEF Settle, Adopt, FailFit, Return, Beside
<1>2. MatrixInv' BY <1>1, NothingHeld
<1>3. SaveInv' /\ fpc \notin Between BY <1>1 DEF SaveInv, Between
<1>4. ResidentIsWhole'
  <2>1. CASE resident' \in {resident, NoLens} BY <2>1 DEF ExactInv, ResidentIsWhole
  <2>2. fit.corpus \in PromptSets BY <1>1, AtPlace DEF LensFitInv, FitTypes, RunPcs
  <2>3. FirstDocs(fit.corpus, Len(fit.corpus)) = fit.corpus BY <2>2, DocsAre
  <2>4. CASE Settle /\ Stamped /\ Adopting(fit.have)
    <3>1. fit.final = disk.final /\ disk.final.corpus = fit.corpus /\ disk.final.n = Len(fit.corpus)
      BY <2>4 DEF Settle, LensFitInv, PlanInv, Heads
    <3>2. DOMAIN fit.have = PointerLayers(disk.final) BY <2>4, <3>1 DEF Stamped
    <3>3. \A l \in DOMAIN fit.have : fit.have[l] = fit.corpus BY DEF ExactInv, MatrixInv
    <3> QED BY <2>3, <2>4, <3>1, <3>2, <3>3, AdoptedIs
  <2>5. CASE Adopt /\ Adopting(AllMatrices)
    <3>1. /\ disk.final.corpus = fit.corpus /\ disk.final.n = fit.n /\ fit.n = Len(fit.corpus)
          /\ PointerLayers(disk.final) = DOMAIN AllMatrices
      BY <2>5 DEF Adopt, LensFitInv, PublishedInv, Published, Heads
    <3>2. \A l \in DOMAIN AllMatrices : AllMatrices[l] = fit.corpus
      BY <2>3, <3>1 DEF ExactInv, MatrixInv, AllMatrices
    <3> QED BY <2>3, <2>5, <3>1, <3>2, AdoptedIs
  <2>6. CASE FailFit /\ ~(resident' \in {resident, NoLens})
    <3> DEFINE ptr == Sidecar(disk.final)
    <3>1. ptr # NoLens /\ Loads(ptr, PointerLayers(ptr)) /\ Adopting(Matrices(ptr, PointerLayers(ptr)))
      BY <2>6 DEF FailFit
    <3>2. ptr = disk.final BY <3>1, SidecarIs
    <3>3. \A l \in PointerLayers(ptr) : Matrices(ptr, PointerLayers(ptr))[l] = FirstDocs(ptr.corpus, ptr.n)
      BY <3>1, <3>2, LoadedIs DEF ExactInv
    <3>4. DOMAIN Matrices(ptr, PointerLayers(ptr)) = PointerLayers(ptr) BY DEF Matrices
    <3> QED BY <3>1, <3>2, <3>3, <3>4, AdoptedIs
  <2> QED BY <2>1, <2>4, <2>5, <2>6 DEF Settle, Adopt, FailFit, Evicting
<1> QED BY <1>1, <1>2, <1>3, <1>4, PlaceHolds

LEMMA ReusedExact ==
  ASSUME LensFitInv, ExactInv, fpc \in {"evict", "estimate"}, NEW l \in DOMAIN Reused("final")
  PROVE  /\ Reused("final")[l] \in DOMAIN disk.files
         /\ disk.files[Reused("final")[l]] \in {Damaged, FirstDocs(fit.corpus, fit.n)}
<1>1. l \in DOMAIN <<>> \/ Reused("final") # <<>> OBVIOUS
<1>2. Reused("final") # <<>> BY <1>1, NoneIs
<1>3. /\ Sidecar(disk.final) = disk.final /\ disk.final # NoLens
      /\ disk.final.n = fit.n /\ disk.final.corpus = fit.corpus
      /\ Reused("final") = [k \in {k \in DOMAIN fit.have \cap PointerLayers(disk.final) :
                                     disk.files[disk.final.files[k]] # Damaged} |-> disk.final.files[k]]
  BY <1>2, SidecarIs DEF Reused
<1>4. Exact(disk.final, disk.files) BY DEF ExactInv
<1> QED BY <1>3, <1>4 DEF Exact

\* A save begins with the shards the manifest of this corpus has already, and none of its own.
LEMMA SaveExact ==
  ASSUME LensFitInv, ExactInv, fpc \in {"evict", "estimate"}, fit.n = Len(fit.corpus), NEW f, NEW had,
         f \in {fit, [fit EXCEPT !.had = had]}, StartSave(f, "final", "unlink"),
         disk' = disk, synced' = synced, torn' = torn, resident' \in {resident, NoLens}
  PROVE  ExactInv'
<1>1. fit' = [f EXCEPT !.save = "final", !.next = "unlink", !.ids = Reused("final"), !.new = {}] /\ fpc' = "shards"
  BY DEF StartSave
<1>2. /\ fit'.corpus = fit.corpus /\ fit'.n = fit.n /\ fit'.lens = fit.lens /\ fit'.have = fit.have
      /\ fit'.ids = Reused("final") /\ fit'.new = {}
  <2>1. DOMAIN fit = DOMAIN NoFit BY DEF LensFitInv, FitTypes
  <2>2. /\ DOMAIN f = DOMAIN NoFit /\ f.corpus = fit.corpus /\ f.n = fit.n /\ f.lens = fit.lens /\ f.have = fit.have
    <3>1. CASE f = fit BY <2>1, <3>1
    <3>2. CASE f = [fit EXCEPT !.had = had] BY <2>1, <3>2
    <3> QED BY <3>1, <3>2
  <2> QED BY <1>1, <2>2 DEF NoFit
<1>3. MatrixInv' BY <1>2 DEF ExactInv, MatrixInv
<1>4. ResidentIsWhole' BY DEF ExactInv, ResidentIsWhole
<1>5. SaveInv' BY <1>1, <1>2, ReusedExact DEF SaveInv
<1>6. fpc \notin Between BY DEF Between
<1> QED BY <1>3, <1>4, <1>5, <1>6, PlaceHolds

LEMMA RunExact ==
  ASSUME LensFitInv, ExactInv, Evict \/ Estimate \/ CancelFit \/ EstimateFails \/ Checkpoint
  PROVE  ExactInv'
<1>1. /\ fpc \in {"evict", "estimate", "checkpoint"} /\ disk' = disk /\ synced' = synced /\ torn' = torn
      /\ resident' \in {resident, NoLens} /\ DOMAIN fit = DOMAIN NoFit
  BY DEF Evict, Estimate, CancelFit, EstimateFails, Checkpoint, Beside, EvictIfMine, Evicting, LensFitInv, FitTypes
<1>2. fit.corpus \in PromptSets /\ fit.n \in 0..Len(fit.corpus) BY <1>1, AtPlace DEF RunPcs
<1>3. ResidentIsWhole' BY <1>1 DEF ExactInv, ResidentIsWhole
<1>4. fpc \notin Between BY <1>1 DEF Between
<1>5. CASE Evict /\ ~(fit.n < Len(fit.corpus))
  <2> DEFINE had == fit.had \/ resident # resident'
             f == [fit EXCEPT !.had = had]
  <2>1. StartSave(f, "final", "unlink") BY <1>5 DEF Evict
  <2>2. fit.n = Len(fit.corpus) /\ fpc = "evict" BY <1>2, <1>5, DocsAre DEF Evict
  <2>3. fpc \in {"evict", "estimate"} BY <2>2
  <2>4. disk' = disk /\ synced' = synced /\ torn' = torn /\ resident' \in {resident, NoLens} BY <1>1
  <2>5. f \in {fit, [fit EXCEPT !.had = had]} OBVIOUS
  <2> HIDE DEF had, f
  <2> QED BY <2>1, <2>2, <2>3, <2>4, <2>5, SaveExact
<1>6. CASE (Evict /\ fit.n < Len(fit.corpus)) \/ CancelFit \/ EstimateFails
  <2>1. /\ fit'.corpus = fit.corpus /\ fit'.n = fit.n /\ fit'.lens = fit.lens /\ fit'.have = fit.have
        /\ fpc' \in {"estimate", "checkpoint", "fail"}
    <3>1. CASE Evict /\ fit.n < Len(fit.corpus)
      <4> DEFINE had == fit.had \/ resident # resident'
      <4>1. fpc' = "estimate" /\ fit' = [fit EXCEPT !.had = had] BY <3>1 DEF Evict
      <4> HIDE DEF had
      <4> QED BY <1>1, <4>1
    <3>2. CASE CancelFit
      <4>1. \/ fpc' = "checkpoint" /\ fit' = [fit EXCEPT !.next = "fail"]
            \/ fpc' = "fail" /\ fit' = fit
        BY <3>2 DEF CancelFit, Goto
      <4>2. CASE fpc' = "checkpoint" /\ fit' = [fit EXCEPT !.next = "fail"] BY <1>1, <4>2
      <4>3. CASE fpc' = "fail" /\ fit' = fit BY <4>3
      <4> QED BY <4>1, <4>2, <4>3
    <3>3. CASE EstimateFails BY <1>1, <3>3 DEF EstimateFails, Goto
    <3> QED BY <1>6, <3>1, <3>2, <3>3
  <2>2. MatrixInv' BY <2>1 DEF ExactInv, MatrixInv
  <2>3. SaveInv' BY <2>1 DEF SaveInv
  <2> QED BY <1>1, <1>3, <1>4, <2>2, <2>3, PlaceHolds
<1>7. CASE Estimate
  <2> DEFINE f == [fit EXCEPT !.lens = Summed, !.n = @ + 1]
  <2>1. /\ fit.n < Len(fit.corpus)
        /\ \/ fpc' = "checkpoint" /\ fit' = [f EXCEPT !.next = "estimate"]
           \/ fpc' = "estimate" /\ fit' = f
    BY <1>7 DEF Estimate
  <2>2. DOMAIN f = DOMAIN NoFit /\ f.corpus = fit.corpus /\ f.n = fit.n + 1 /\ f.lens = Summed /\ f.have = fit.have
    BY <1>1
  <2> HIDE DEF f
  <2>3. fit'.corpus = fit.corpus /\ fit'.n = fit.n + 1 /\ fit'.lens = Summed /\ fit'.have = fit.have
    BY <2>1, <2>2 DEF NoFit
  <2>4. Append(FirstDocs(fit.corpus, fit.n), fit.corpus[fit.n + 1]) = FirstDocs(fit.corpus, fit.n + 1)
    BY <1>2, <2>1, DocsAre
  <2>5. \A l \in DOMAIN Summed : Summed[l] = FirstDocs(fit.corpus, fit.n + 1)
    BY <2>4 DEF Summed, ExactInv, MatrixInv
  <2>6. MatrixInv' BY <2>3, <2>5 DEF ExactInv, MatrixInv
  <2>7. SaveInv' BY <2>1 DEF SaveInv
  <2> QED BY <1>1, <1>3, <1>4, <2>6, <2>7, PlaceHolds
<1>8. CASE Checkpoint
  <2> DEFINE none == <<>>
  <2>1. fit' = [fit EXCEPT !.save = "ckpt", !.ids = none, !.new = {}, !.wrote = TRUE] /\ fpc' = "shards"
    BY <1>8 DEF Checkpoint
  <2>2. DOMAIN none = {} BY NoneIs
  <2> HIDE DEF none
  <2>3. /\ fit'.corpus = fit.corpus /\ fit'.n = fit.n /\ fit'.lens = fit.lens /\ fit'.have = fit.have
        /\ fit'.ids = none /\ fit'.new = {}
    BY <1>1, <2>1 DEF NoFit
  <2>4. MatrixInv' BY <2>3 DEF ExactInv, MatrixInv
  <2>5. SaveInv' BY <2>1, <2>2, <2>3 DEF SaveInv
  <2> QED BY <1>1, <1>3, <1>4, <2>4, <2>5, PlaceHolds
<1> QED BY <1>5, <1>6, <1>7, <1>8

LEMMA PublishExact ==
  ASSUME LensFitInv, ExactInv, Publish \/ UnlinkCheckpoint \/ RemoveFinal \/ RemoveCheckpoint
  PROVE  ExactInv'
<1>1. /\ synced' = synced /\ torn' = torn /\ resident' = resident /\ DiskOK(disk) /\ DOMAIN fit = DOMAIN NoFit
  BY AtPlace DEF Publish, UnlinkCheckpoint, RemoveFinal, RemoveCheckpoint, Beside, LensFitInv, FitTypes
<1>2. CASE Publish /\ ~Promotable
  <2>1. StartSave(fit, "final", "unlink") /\ disk' = disk /\ fit.n = Len(fit.corpus) /\ fpc = "estimate"
    BY <1>2 DEF Publish
  <2> QED BY <1>1, <2>1, SaveExact
<1>3. CASE ~(Publish /\ ~Promotable)
  <2>1. /\ fpc' \in Between
        /\ fit'.corpus = fit.corpus /\ fit'.n = fit.n /\ fit'.lens = fit.lens /\ fit'.have = fit.have
        /\ disk' \in {[disk EXCEPT !.final = disk.ckpt], [disk EXCEPT !.final = NoLens], [disk EXCEPT !.ckpt = NoLens]}
    <3>1. CASE Publish BY <1>1, <1>3, <3>1 DEF Publish, Goto, Between
    <3>2. CASE UnlinkCheckpoint BY <1>1, <3>2 DEF UnlinkCheckpoint, Settled, Between
    <3>3. CASE RemoveFinal BY <1>1, <3>3 DEF RemoveFinal, Goto, Between
    <3>4. CASE RemoveCheckpoint BY <1>1, <3>4 DEF RemoveCheckpoint, Settled, Between
    <3> QED BY <3>1, <3>2, <3>3, <3>4
  <2>2. /\ disk'.files = disk.files /\ disk'.final \in {NoLens, disk.final, disk.ckpt} /\ disk'.ckpt \in {NoLens, disk.ckpt}
    BY <1>1, <2>1 DEF DiskOK
  <2>3. MatrixInv' BY <2>1 DEF ExactInv, MatrixInv
  <2>4. ResidentIsWhole' BY <1>1 DEF ExactInv, ResidentIsWhole
  <2> QED BY <1>1, <2>1, <2>2, <2>3, <2>4, DropHolds
<1> QED BY <1>2, <1>3

LEMMA WrittenExact ==
  ASSUME LensFitInv, ExactInv, fpc = "pointer"
  PROVE  /\ \A p \in {Written(disk).final, Written(disk).ckpt} : Exact(p, disk.files)
         /\ ~torn => \A p \in {Written(disk).final, Written(disk).ckpt} : FilesOf(p) \subseteq DOMAIN synced.files
<1> DEFINE ptr == Pointer(fit.corpus, fit.n, fit.ids)
<1>1. /\ ptr.files = fit.ids /\ ptr.corpus = fit.corpus /\ ptr.n = fit.n /\ PointerLayers(ptr) = DOMAIN fit.ids
  BY DEF Pointer, PointerLayers
<1>2. \A p \in {Written(disk).final, Written(disk).ckpt} : p \in {ptr, disk.final, disk.ckpt} BY WrittenIs
<1> HIDE DEF ptr
<1>3. \A l \in DOMAIN fit.ids :
        /\ fit.ids[l] \in DOMAIN disk.files /\ disk.files[fit.ids[l]] \in {Damaged, FirstDocs(fit.corpus, fit.n)}
        /\ fit.ids[l] \in DOMAIN synced.files
  BY DEF ExactInv, SaveInv
<1>4. Exact(ptr, disk.files) BY <1>1, <1>3 DEF Exact
<1>5. FilesOf(ptr) \subseteq DOMAIN synced.files BY <1>1, <1>3 DEF FilesOf
<1> QED BY <1>2, <1>4, <1>5 DEF ExactInv, SyncedInv

LEMMA PointerExact ==
  ASSUME LensFitInv, ExactInv, WritePointer
  PROVE  ExactInv'
<1>1. /\ fpc = "pointer" /\ fpc' = "sync" /\ fit' = fit /\ disk' = Written(disk) /\ synced' = synced
      /\ torn' = torn /\ resident' = resident
  BY DEF WritePointer, Goto, Beside
<1>2. disk'.files = disk.files BY <1>1, WrittenIs
<1>3. Exact(disk'.final, disk'.files) /\ Exact(disk'.ckpt, disk'.files) BY <1>1, <1>2, WrittenExact
<1>4. SyncedInv' BY <1>1, <1>2, WrittenExact DEF ExactInv, SyncedInv
<1>5. SaveInv' BY <1>1 DEF SaveInv
<1>6. MatrixInv' BY <1>1 DEF ExactInv, MatrixInv
<1>7. ResidentIsWhole' BY <1>1 DEF ExactInv, ResidentIsWhole
<1> QED BY <1>3, <1>4, <1>5, <1>6, <1>7 DEF ExactInv

LEMMA SaveFailExact ==
  ASSUME LensFitInv, ExactInv, SaveFails
  PROVE  ExactInv'
<1>1. /\ fpc \in {"shards", "pointer"} /\ fpc' = "fail" /\ fit' = fit /\ synced' = synced
      /\ resident' = resident /\ DiskOK(disk)
  BY AtPlace DEF SaveFails, Goto
<1>2. SaveInv' BY <1>1 DEF SaveInv
<1>3. MatrixInv' BY <1>1 DEF ExactInv, MatrixInv
<1>4. ResidentIsWhole' BY <1>1 DEF ExactInv, ResidentIsWhole
<1>5. CASE disk' = KeepFiles(disk, DOMAIN disk.files \ fit.new) /\ torn' = torn
  <2> DEFINE kept == DOMAIN disk.files \ fit.new
  <2>1. /\ disk'.final = disk.final /\ disk'.ckpt = disk.ckpt
        /\ disk'.files = [i \in DOMAIN disk.files \cap kept |-> disk.files[i]]
    BY <1>1, <1>5, FilesKept
  <2>2. \A p \in {disk.final, disk.ckpt, synced.final, synced.ckpt} :
          Exact(p, disk.files) => (FilesOf(p) \subseteq kept /\ Exact(p, disk'.files))
    <3>1. TAKE p \in {disk.final, disk.ckpt, synced.final, synced.ckpt}
    <3>2. FilesOf(p) \cap fit.new = {} BY <1>1 DEF ExactInv, SaveInv
    <3>3. HAVE Exact(p, disk.files)
    <3>4. FilesOf(p) \subseteq DOMAIN disk.files BY <3>3 DEF Exact, FilesOf
    <3>5. FilesOf(p) \subseteq kept BY <3>2, <3>4
    <3> HIDE DEF kept
    <3> QED BY <2>1, <3>3, <3>5, ExactOn
  <2>3. Exact(disk'.final, disk'.files) /\ Exact(disk'.ckpt, disk'.files) BY <2>1, <2>2 DEF ExactInv
  <2>4. SyncedInv' BY <1>1, <1>5, <2>1, <2>2 DEF ExactInv, SyncedInv
  <2> QED BY <1>2, <1>3, <1>4, <2>3, <2>4 DEF ExactInv
<1>6. CASE fpc = "pointer" /\ disk' = Written(disk) /\ torn' = TRUE
  <2>1. disk'.files = disk.files BY <1>6, WrittenIs
  <2>2. Exact(disk'.final, disk'.files) /\ Exact(disk'.ckpt, disk'.files) BY <1>6, <2>1, WrittenExact
  <2>3. SyncedInv' BY <1>6 DEF SyncedInv
  <2> QED BY <1>2, <1>3, <1>4, <2>2, <2>3 DEF ExactInv
<1> QED BY <1>5, <1>6 DEF SaveFails

LEMMA FreshIs ==
  ASSUME NEW i, NewId(i)
  PROVE  /\ i \notin DOMAIN disk.files
         /\ \A p \in {disk.final, disk.ckpt, synced.final, synced.ckpt} : i \notin FilesOf(p)
BY DEF NewId, Fresh, Known

LEMMA ToSaveIs ==
  ASSUME LensFitInv, ExactInv, fpc = "shards", NEW l \in DOMAIN ToSave
  PROVE  ToSave[l] = FirstDocs(fit.corpus, fit.n)
<1>1. fit.corpus \in PromptSets BY AtPlace DEF RunPcs
<1>2. FirstDocs(fit.corpus, Len(fit.corpus)) = fit.corpus BY <1>1, DocsAre
<1>3. fit.save = "ckpt" \/ (fit.save = "final" /\ fit.n = Len(fit.corpus)) BY DEF LensFitInv, FitPlaces
<1>4. CASE fit.save = "ckpt" BY <1>4 DEF ToSave, ExactInv, MatrixInv
<1>5. CASE fit.save = "final" /\ fit.n = Len(fit.corpus)
  <2>1. ToSave = AllMatrices BY <1>5 DEF ToSave
  <2> QED BY <1>2, <1>5, <2>1 DEF AllMatrices, ExactInv, MatrixInv
<1> QED BY <1>3, <1>4, <1>5

\* A shard more disturbs no pointer.
LEMMA ExactWith ==
  ASSUME NEW p, NEW files, Exact(p, files), NEW i, i \notin DOMAIN files, NEW y
  PROVE  Exact(p, With(files, i, y))
BY DEF Exact, With

LEMMA ShardExact ==
  ASSUME LensFitInv, ExactInv, WriteShard
  PROVE  ExactInv'
<1>1. PICK l \in DOMAIN ToSave \ DOMAIN fit.ids, i \in Ids :
        /\ NewId(i)
        /\ disk' = [disk EXCEPT !.files = With(@, i, ToSave[l])]
        /\ fit' = [fit EXCEPT !.ids = With(@, l, i), !.new = @ \cup {i}]
  BY DEF WriteShard
<1>2. /\ fpc = "shards" /\ fpc' = "shards" /\ synced' = synced /\ torn' = torn /\ resident' = resident
      /\ DOMAIN fit = DOMAIN NoFit /\ DiskOK(disk)
  BY AtPlace DEF WriteShard, Beside, LensFitInv, FitTypes
<1>3. disk' = [disk EXCEPT !.files = With(disk.files, i, ToSave[l])] BY <1>1, <1>2 DEF DiskOK
<1>4. /\ disk'.files = With(disk.files, i, ToSave[l]) /\ disk'.final = disk.final /\ disk'.ckpt = disk.ckpt
  BY <1>2, <1>3, FilesPut
<1>5. fit' = [fit EXCEPT !.ids = With(fit.ids, l, i), !.new = fit.new \cup {i}] BY <1>1, <1>2 DEF NoFit
<1>6. /\ fit'.corpus = fit.corpus /\ fit'.n = fit.n /\ fit'.lens = fit.lens /\ fit'.have = fit.have
      /\ fit'.ids = With(fit.ids, l, i) /\ fit'.new = fit.new \cup {i}
  BY <1>2, <1>5 DEF NoFit
<1>7. /\ i \notin DOMAIN disk.files
      /\ \A p \in {disk.final, disk.ckpt, synced.final, synced.ckpt} : i \notin FilesOf(p)
  BY <1>1, FreshIs
<1>8. ToSave[l] = FirstDocs(fit.corpus, fit.n) BY <1>2, ToSaveIs
<1>9. \A p : Exact(p, disk.files) => Exact(p, disk'.files) BY <1>4, <1>7, ExactWith
<1>10. Exact(disk'.final, disk'.files) /\ Exact(disk'.ckpt, disk'.files) BY <1>4, <1>9 DEF ExactInv
<1>11. SyncedInv' BY <1>2, <1>4, <1>9 DEF ExactInv, SyncedInv
<1>12. SaveInv'
  <2>1. ASSUME NEW k \in DOMAIN fit'.ids
        PROVE  /\ fit'.ids[k] \in DOMAIN disk'.files
               /\ disk'.files[fit'.ids[k]] \in {Damaged, FirstDocs(fit.corpus, fit.n)}
    <3>1. CASE k = l
      <4>1. fit'.ids[k] = i BY <1>6, <3>1 DEF With
      <4>2. i \in DOMAIN disk'.files /\ disk'.files[i] = ToSave[l] BY <1>4 DEF With
      <4> QED BY <1>8, <4>1, <4>2
    <3>2. CASE k # l
      <4>1. k \in DOMAIN fit.ids /\ fit'.ids[k] = fit.ids[k] BY <1>6, <2>1, <3>2 DEF With
      <4>2. /\ fit.ids[k] \in DOMAIN disk.files
            /\ disk.files[fit.ids[k]] \in {Damaged, FirstDocs(fit.corpus, fit.n)}
        BY <1>2, <4>1 DEF ExactInv, SaveInv
      <4>3. fit.ids[k] # i BY <1>7, <4>2
      <4> QED BY <1>4, <4>1, <4>2, <4>3 DEF With
    <3> QED BY <3>1, <3>2
  <2>2. \A p \in {disk.final, disk.ckpt, synced.final, synced.ckpt} : FilesOf(p) \cap fit'.new = {}
    BY <1>2, <1>6, <1>7 DEF ExactInv, SaveInv
  <2>3. fit'.corpus = fit.corpus /\ fit'.n = fit.n BY <1>6
  <2> QED BY <1>2, <1>4, <2>1, <2>2, <2>3 DEF SaveInv
<1>13. MatrixInv' BY <1>6 DEF ExactInv, MatrixInv
<1>14. ResidentIsWhole' BY <1>2 DEF ExactInv, ResidentIsWhole
<1> QED BY <1>10, <1>11, <1>12, <1>13, <1>14 DEF ExactInv

LEMMA ReadExact ==
  ASSUME LensFitInv, ExactInv, (\E load \in BOOLEAN : RefreshLens(load)) \/ LoadResident
  PROVE  ExactInv'
<1>1. fit' = fit /\ fpc' = fpc /\ synced' = synced /\ torn' = torn /\ DiskOK(disk)
  BY AtPlace DEF RefreshLens, LoadResident
<1>2. MatrixInv' BY <1>1 DEF ExactInv, MatrixInv
<1>3. CASE \E load \in BOOLEAN : RefreshLens(load)
  <2>1. disk' = disk /\ resident' \in {resident, NoLens} BY <1>3 DEF RefreshLens
  <2>2. ResidentIsWhole' BY <2>1 DEF ExactInv, ResidentIsWhole
  <2>3. SaveInv' BY <1>1, <2>1 DEF ExactInv, SaveInv
  <2> QED BY <1>1, <1>2, <2>1, <2>2, <2>3, PlaceHolds
<1>4. CASE LoadResident
  <2> DEFINE ptr == Sidecar(disk.final)
             lens == Matrices(ptr, PointerLayers(ptr))
  <2>1. fpc = "idle" /\ fpc \notin Between /\ fpc' \notin SavePcs
    BY <1>1, <1>4 DEF LoadResident, FitLockFree, Between, SavePcs
  <2>2. CASE ptr # NoLens /\ Loads(ptr, PointerLayers(ptr))
    <3>1. resident' = [lens |-> lens, n |-> ptr.n, id |-> ptr] /\ disk' = Collected(disk)
      BY <1>4, <2>2 DEF LoadResident
    <3>2. ptr = disk.final BY <2>2, SidecarIs
    <3>3. Exact(ptr, disk.files) BY <3>2 DEF ExactInv
    <3>4. \A l \in PointerLayers(ptr) : lens[l] = FirstDocs(ptr.corpus, ptr.n) BY <2>2, <3>3, LoadedIs
    <3>5. DOMAIN lens = PointerLayers(ptr) BY DEF Matrices
    <3> HIDE DEF lens, ptr
    <3>6. resident'.lens = lens /\ resident'.n = ptr.n /\ resident'.id = ptr BY <3>1
    <3>7. ResidentIsWhole' BY <3>4, <3>5, <3>6 DEF ResidentIsWhole
    <3> QED BY <1>1, <1>2, <2>1, <3>1, <3>7, CollectHolds
  <2>3. CASE ~(ptr # NoLens /\ Loads(ptr, PointerLayers(ptr)))
    <3>1. resident' = NoLens /\ disk' = disk BY <1>4, <2>3 DEF LoadResident
    <3>2. ResidentIsWhole' BY <3>1 DEF ResidentIsWhole
    <3>3. SaveInv' BY <1>1, <2>1 DEF SaveInv
    <3> QED BY <1>1, <1>2, <3>1, <3>2, <3>3, PlaceHolds
  <2> QED BY <2>2, <2>3
<1> QED BY <1>3, <1>4

LEMMA KillExact ==
  ASSUME LensFitInv, ExactInv, NEW p \in LensProcs, Kill(p)
  PROVE  ExactInv'
<1>1. /\ disk' = disk /\ synced' = synced /\ resident' \in {resident, NoLens}
      /\ \/ fit.by = p /\ fit' = NoFit /\ fpc' = "idle"
         \/ fit.by # p /\ fit' = fit /\ fpc' = fpc
      /\ torn' = (torn \/ (fit.by = p /\ <<disk.final, disk.ckpt>> # <<synced.final, synced.ckpt>>))
  BY DEF Kill, Dies, Return
<1>2. ResidentIsWhole' BY <1>1 DEF ExactInv, ResidentIsWhole
<1>3. CASE fit.by = p /\ fit' = NoFit /\ fpc' = "idle"
  <2>1. MatrixInv' BY <1>3, NothingHeld
  <2>2. SaveInv' BY <1>3 DEF SaveInv
  <2>3. ~torn' => (~torn /\ disk.final = synced.final /\ disk.ckpt = synced.ckpt)
    <3>1. ASSUME ~torn' PROVE ~torn /\ <<disk.final, disk.ckpt>> = <<synced.final, synced.ckpt>> BY <1>1, <1>3, <3>1
    <3> QED BY <3>1
  <2>4. SyncedInv' BY <1>1, <2>3 DEF ExactInv, SyncedInv
  <2> QED BY <1>1, <1>2, <2>1, <2>2, <2>4 DEF ExactInv
<1>4. CASE fit.by # p /\ fit' = fit /\ fpc' = fpc
  <2>1. ~torn' => ~torn BY <1>1
  <2>2. MatrixInv' BY <1>4 DEF ExactInv, MatrixInv
  <2>3. SaveInv' BY <1>1, <1>4 DEF ExactInv, SaveInv
  <2>4. SyncedInv' BY <1>1, <1>4, <2>1 DEF ExactInv, SyncedInv
  <2> QED BY <1>1, <1>2, <2>2, <2>3, <2>4 DEF ExactInv
<1> QED BY <1>1, <1>3, <1>4

\* Power loss leaves each pointer or its predecessor, and the shards of either.
LEMMA PowerExact ==
  ASSUME LensFitInv, ExactInv, ~LossAfterInterrupt, PowerLoss
  PROVE  ExactInv'
<1>1. /\ ~torn /\ synced' = disk' /\ resident' = NoLens /\ fit' = NoFit /\ fpc' = "idle"
  BY DEF PowerLoss, Return
<1>2. PICK f \in {disk.final, synced.final}, k \in {disk.ckpt, synced.ckpt},
           lost \in SUBSET ((DOMAIN disk.files \ DOMAIN synced.files)
                            \cup (DOMAIN synced.files \ DOMAIN disk.files)) :
        disk' = [final |-> f, ckpt |-> k,
                 files |-> [i \in (DOMAIN disk.files \cup DOMAIN synced.files) \ lost |->
                              IF i \in DOMAIN disk.files THEN disk.files[i] ELSE synced.files[i]]]
  BY DEF PowerLoss
<1> DEFINE files == [i \in (DOMAIN disk.files \cup DOMAIN synced.files) \ lost |->
                       IF i \in DOMAIN disk.files THEN disk.files[i] ELSE synced.files[i]]
<1>3. ASSUME NEW i \in DOMAIN disk.files \cap DOMAIN synced.files
      PROVE  i \in DOMAIN files /\ files[i] = disk.files[i]
  BY <1>2
<1>4. disk'.final = f /\ disk'.ckpt = k /\ disk'.files = files BY <1>2
<1> HIDE DEF files
<1>5. \A p \in {f, k} : Exact(p, disk.files) /\ FilesOf(p) \subseteq DOMAIN synced.files
  BY <1>1, <1>2 DEF ExactInv, SyncedInv
<1>6. \A p \in {f, k} : Exact(p, files)
  <2>1. TAKE p \in {f, k}
  <2>2. SUFFICES ASSUME p # NoLens, NEW l \in PointerLayers(p)
                 PROVE  p.files[l] \in DOMAIN files /\ files[p.files[l]] \in {Damaged, FirstDocs(p.corpus, p.n)}
    BY DEF Exact
  <2>3. p.files[l] \in FilesOf(p) BY <2>2 DEF FilesOf
  <2>4. /\ p.files[l] \in DOMAIN disk.files /\ disk.files[p.files[l]] \in {Damaged, FirstDocs(p.corpus, p.n)}
    BY <1>5, <2>2 DEF Exact
  <2>5. p.files[l] \in DOMAIN synced.files BY <1>5, <2>3
  <2> QED BY <1>3, <2>4, <2>5
<1>7. \A p \in {f, k} : FilesOf(p) \subseteq DOMAIN files BY <1>6 DEF Exact, FilesOf
<1>8. Exact(disk'.final, disk'.files) /\ Exact(disk'.ckpt, disk'.files) BY <1>4, <1>6
<1>9. SyncedInv' BY <1>1, <1>4, <1>6, <1>7 DEF SyncedInv
<1>10. MatrixInv' /\ SaveInv' /\ ResidentIsWhole' BY <1>1, NothingHeld DEF SaveInv, ResidentIsWhole
<1> QED BY <1>8, <1>9, <1>10 DEF ExactInv

LEMMA ExactSpoiled ==
  ASSUME NEW p, NEW files, Exact(p, files), NEW i
  PROVE  Exact(p, [j \in DOMAIN files |-> IF j = i THEN Damaged ELSE files[j]])
BY DEF Exact

LEMMA DamageExact ==
  ASSUME LensFitInv, ExactInv, Damage
  PROVE  ExactInv'
<1>1. PICK i \in DOMAIN disk.files : disk' = Spoiled(disk, i) /\ synced' = Spoiled(synced, i) BY DEF Damage
<1>2. /\ disk'.final = disk.final /\ disk'.ckpt = disk.ckpt /\ synced'.final = synced.final /\ synced'.ckpt = synced.ckpt
      /\ disk'.files = [j \in DOMAIN disk.files |-> IF j = i THEN Damaged ELSE disk.files[j]]
      /\ synced'.files = [j \in DOMAIN synced.files |-> IF j = i THEN Damaged ELSE synced.files[j]]
  BY <1>1, AtPlace, SpoiledIs
<1>3. fit' = fit /\ fpc' = fpc /\ torn' = torn /\ resident' = resident BY DEF Damage
<1>4. \A p : Exact(p, disk.files) => Exact(p, disk'.files) BY <1>2, ExactSpoiled
<1>5. Exact(disk'.final, disk'.files) /\ Exact(disk'.ckpt, disk'.files) BY <1>2, <1>4 DEF ExactInv
<1>6. DOMAIN disk'.files = DOMAIN disk.files /\ DOMAIN synced'.files = DOMAIN synced.files BY <1>2
<1>7. SyncedInv' BY <1>2, <1>3, <1>4, <1>6 DEF ExactInv, SyncedInv
<1>8. SaveInv' BY <1>2, <1>3, <1>6 DEF ExactInv, SaveInv
<1>9. MatrixInv' BY <1>3 DEF ExactInv, MatrixInv
<1>10. ResidentIsWhole' BY <1>3 DEF ExactInv, ResidentIsWhole
<1> QED BY <1>5, <1>7, <1>8, <1>9, <1>10 DEF ExactInv

LEMMA ExactInitHolds ==
  ASSUME LensInit PROVE ExactInv
<1>1. \A files : Exact(NoLens, files) BY DEF Exact
<1>2. FilesOf(NoLens) = {} BY DEF FilesOf
<1>3. disk.final = NoLens /\ disk.ckpt = NoLens /\ synced.final = NoLens /\ synced.ckpt = NoLens BY DEF LensInit, Bare
<1>4. SyncedInv BY <1>1, <1>2, <1>3 DEF SyncedInv
<1>5. SaveInv /\ ResidentIsWhole BY DEF LensInit, SaveInv, ResidentIsWhole
<1>6. MatrixInv BY NoneIs DEF LensInit, MatrixInv, NoFit
<1> QED BY <1>1, <1>3, <1>4, <1>5, <1>6 DEF ExactInv

LEMMA ExactStepHolds ==
  ASSUME LensFitInv, ExactInv, ~LossAfterInterrupt, [LensNext]_lensVars
  PROVE  ExactInv'
<1>1. CASE UNCHANGED lensVars
  BY <1>1 DEF lensVars, Beside, ExactInv, SyncedInv, SaveInv, MatrixInv, ResidentIsWhole
<1>2. CASE LensNext
  BY <1>2, BeginExact, PlanExact, ReapExact, EndExact, RunExact, PublishExact, SyncExact, ShardExact, PointerExact,
     SaveFailExact, ReadExact, KillExact, PowerExact, DamageExact DEF LensNext
<1> QED BY <1>1, <1>2

\* What a lens claims to be of, it is of: on disk, in a running fit and in memory.
THEOREM LensExactInvariant == ~LossAfterInterrupt => (LensSpec => [](LensFitInv /\ ExactInv))
<1> SUFFICES ASSUME ~LossAfterInterrupt PROVE LensSpec => [](LensFitInv /\ ExactInv) OBVIOUS
<1>1. LensInit => ExactInv BY ExactInitHolds
<1>2. LensFitInv /\ ExactInv /\ [LensNext]_lensVars => ExactInv' BY ExactStepHolds
<1> QED BY <1>1, <1>2, LensFitInvariant, PTL DEF LensSpec

LEMMA ExactIsExact ==
  ASSUME LensFitInv, ExactInv PROVE LensIsExact
<1>1. PointersAreExact
  <2>1. SUFFICES ASSUME NEW ptr \in {disk.final, disk.ckpt} \ {NoLens}
                 PROVE  /\ ptr.n <= Len(ptr.corpus)
                        /\ \A l \in PointerLayers(ptr) :
                             /\ ptr.files[l] \in DOMAIN disk.files
                             /\ disk.files[ptr.files[l]] \in {Damaged, FirstDocs(ptr.corpus, ptr.n)}
    BY DEF PointersAreExact
  <2>2. PointerOK(ptr) /\ Exact(ptr, disk.files) BY AtPlace, DiskHas DEF ExactInv
  <2> QED BY <2>2 DEF PointerOK, Exact
<1>2. FitsWhatWasAsked
  <2>1. SUFFICES ASSUME fpc \in {"settle", "adopt"}
                 PROVE  \A l \in fit.sources : l \in DOMAIN AllMatrices /\ AllMatrices[l] = fit.corpus
    BY DEF FitsWhatWasAsked
  <2>2. fit.corpus \in PromptSets BY <2>1, AtPlace DEF RunPcs
  <2>3. FirstDocs(fit.corpus, Len(fit.corpus)) = fit.corpus BY <2>2, DocsAre
  <2>4. fit.action \in {"noop", "topup", "resume"} /\ (fpc = "settle" => fit.action = "noop")
    BY <2>1 DEF LensFitInv, FitPlaces, Heads
  <2>5. fit.sources \subseteq DOMAIN fit.lens \cup DOMAIN fit.have BY <2>4 DEF LensFitInv, CoverInv
  <2>6. DOMAIN fit.lens # {} => fit.n = Len(fit.corpus)
    BY <2>1, <2>4 DEF LensFitInv, CoverInv, PublishedInv, Published, Heads
  <2> QED BY <2>3, <2>5, <2>6 DEF AllMatrices, ExactInv, MatrixInv
<1>3. ResidentIsWhole BY DEF ExactInv
<1> QED BY <1>1, <1>2, <1>3 DEF LensIsExact, FilesAreExact

\* LensIsExact for every corpus, set of layers, process and fault: no document is counted twice,
\* left out, or taken from another corpus, on disk, in what a fit returns, or in memory.
THEOREM LensStaysExact == ~LossAfterInterrupt => (LensSpec => []LensIsExact)
<1>1. LensFitInv /\ ExactInv => LensIsExact BY ExactIsExact
<1> SUFFICES ASSUME ~LossAfterInterrupt PROVE LensSpec => []LensIsExact OBVIOUS
<1>2. LensSpec => [](LensFitInv /\ ExactInv) BY LensExactInvariant
<1> QED BY <1>1, <1>2, PTL
=============================================================================
