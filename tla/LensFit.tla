------------------------------ MODULE LensFit ------------------------------
(***************************************************************************)
(* One fitted lens on disk and in a session, through fits, removals,       *)
(* crashes and power loss.                                                 *)
(*                                                                         *)
(*   drowse/lens/lifecycle.py   plan_lens_fit, _FitRun                     *)
(*   drowse/lens/store.py       pointers, shards, checkpoints              *)
(*   drowse/lens/instrument.py  fit, has_compatible, adopt, evict          *)
(*   drowse/base/shards.py      generations, fit_lock                      *)
(*                                                                         *)
(* A lens is fitted on a corpus, a sequence of documents; a layer's matrix *)
(* is the sequence of documents that were averaged into it.  The estimator *)
(* itself is module LensEstimator.                                         *)
(***************************************************************************)
EXTENDS Integers, Sequences

CONSTANTS
  Session,      \* the process with a resident lens and a session-info route
  OtherProcs,   \* other processes that fit and remove the lens
  PromptSets, LensLayers, LayerChoices,
  Cadences,     \* values of checkpoint_every
  Ids,          \* generation names
  Damaged,      \* the content of a shard whose bytes went bad
  NoLens,
  MaxEvents,    \* bound: fits, proofs, removals and faults
  MaxFaults,    \* bound: crashes, power losses and damaged shards
  LossAfterInterrupt  \* bound: whether power may go after a run was interrupted
                      \* between its pointer write and the fsync, before the next

LensProcs == {Session} \cup OtherProcs

\* manifest.json and checkpoint.json: the corpus, the documents counted, and the
\* shard of each layer.
LensPointers ==
  [corpus : PromptSets, n : Nat, files : UNION {[layers -> Ids] : layers \in SUBSET LensLayers}]
FitActions == {"refuse", "noop", "topup", "resume"}

ASSUME LensFitAssumption ==
  /\ Session \notin OtherProcs
  /\ \A c \in PromptSets : c \in Seq(Nat) /\ c # <<>>
  /\ LensLayers \subseteq Nat /\ LayerChoices \subseteq (SUBSET LensLayers) \ {{}}
  /\ Cadences \subseteq Nat \ {0} /\ Ids \subseteq Nat
  /\ Damaged \notin Seq(Nat) /\ NoLens \notin LensProcs \cup LensPointers \cup FitActions
  /\ MaxEvents \in Nat /\ MaxFaults \in Nat /\ LossAfterInterrupt \in BOOLEAN

VARIABLES
  disk,      \* manifest.json, checkpoint.json and the shards, as a reader sees them
  synced,    \* the same, as of the last fsync_directory: what power loss keeps
  resident,  \* the session's lens and the identity it is stamped with, or NoLens
  fit,       \* the locals of the run that holds lens_fit_lock
  fpc,       \* where that run is
  info,      \* who holds state_lock and waits for lens_fit_lock: "idle" for nobody,
             \* "route" for the session-info route, "read" for a generation
  torn,      \* a run was interrupted between a pointer write and the next fsync
  fits, faults

lensVars == <<disk, synced, resident, fit, fpc, info, torn, fits, faults>>

\* What most steps leave alone.
Beside == <<info, torn, fits, faults>>

NoFit == [by |-> NoLens, op |-> NoLens, corpus |-> <<>>, sources |-> {}, every |-> 1,
          final |-> NoLens, ckpt |-> NoLens, action |-> NoLens, layers |-> {}, lens |-> <<>>,
          have |-> <<>>, n |-> 0, start |-> 0, wrote |-> FALSE, had |-> FALSE,
          save |-> NoLens, ids |-> <<>>, new |-> {}, next |-> NoLens]

Pointer(corpus, n, files) == [corpus |-> corpus, n |-> n, files |-> files]

FirstDocs(corpus, n) == SubSeq(corpus, 1, n)
PointerLayers(ptr) == DOMAIN ptr.files
FilesOf(ptr) == IF ptr = NoLens THEN {} ELSE {ptr.files[l] : l \in PointerLayers(ptr)}

Referenced(d) == FilesOf(d.final) \cup FilesOf(d.ckpt)
\* A function with one more argument.
With(f, x, y) == [z \in DOMAIN f \cup {x} |-> IF z = x THEN y ELSE f[z]]

KeepFiles(d, ids) == [d EXCEPT !.files = [i \in DOMAIN d.files \cap ids |-> d.files[i]]]

\* _cleanup_unreferenced_generations
Collected(d) == KeepFiles(d, Referenced(d))

\* _load_sidecar_at: a pointer whose shards exist, else "no lens".
Sidecar(ptr) == IF ptr # NoLens /\ FilesOf(ptr) \subseteq DOMAIN disk.files THEN ptr ELSE NoLens
\* _load_lens_at: the digests hold.
Loads(ptr, layers) ==
  /\ ptr # NoLens /\ layers \subseteq PointerLayers(ptr)
  /\ \A l \in layers : disk.files[ptr.files[l]] # Damaged
Matrices(ptr, layers) == [l \in layers |-> disk.files[ptr.files[l]]]

\* A generation name no file, pointer or identity knows (uuid4).
Known(ptr) == FilesOf(ptr)
Fresh == Ids \ ( DOMAIN disk.files \cup DOMAIN synced.files \cup fit.new
                 \cup UNION {Known(q) : q \in {disk.final, disk.ckpt, synced.final,
                                               synced.ckpt, fit.final, fit.ckpt,
                                               IF resident = NoLens THEN NoLens ELSE resident.id}} )
NewId(i) == i \in Fresh /\ \A j \in Fresh : i <= j

FitLockFree == fpc = "idle"
\* state_lock is held by the route while it waits; the fit takes it per call.
StateFree == info = "idle"

Bare == [final |-> NoLens, ckpt |-> NoLens, files |-> <<>>]

LensInit ==
  /\ disk = Bare /\ synced = Bare
  /\ resident = NoLens /\ fit = NoFit /\ fpc = "idle" /\ info = "idle"
  /\ torn = FALSE /\ fits = 0 /\ faults = 0

Budget == fits + faults < MaxEvents

Goto(l) == fpc' = l
Return == fpc' = "idle" /\ fit' = NoFit

---------------------------------------------------------------------------
(* The decision: plan_lens_fit.                                            *)

PrefixOf_AnyCorpus(ptr, corpus) == ptr.n <= Len(corpus)

PrefixOf(ptr, corpus) ==
  \/ ptr.corpus = corpus
  \/ ptr.n <= Len(corpus) /\ FirstDocs(ptr.corpus, ptr.n) = FirstDocs(corpus, ptr.n)

CheckpointMatches(ptr, corpus, layers) ==
  ptr # NoLens /\ ptr.n > 0 /\ PrefixOf(ptr, corpus) /\ PointerLayers(ptr) = layers

\* corpus_sha256 of the durable pointer is its whole corpus.
DurableMatches(ptr, corpus) ==
  /\ ptr # NoLens
  /\ ptr.corpus = corpus \/ (ptr.n <= Len(corpus) /\ ptr.corpus = FirstDocs(corpus, ptr.n))

ResidentIs(ptr, sources) ==
  /\ fit.by = Session /\ resident # NoLens
  /\ resident.n = ptr.n /\ DOMAIN resident.lens = PointerLayers(ptr)
  /\ sources \subseteq DOMAIN resident.lens /\ resident.id = ptr

\* The action, whence the durable lens is taken, whether the checkpoint is
\* loaded, and the layers to fit.
Decision(action, use, ckpt, layers) ==
  [action |-> action, use |-> use, ckpt |-> ckpt, layers |-> layers]

LensFitPlan ==
  LET d == fit.final
      S == fit.sources
      N == Len(fit.corpus)
      ckptOk == CheckpointMatches(fit.ckpt, fit.corpus, S)
      kept == PointerLayers(d)
      use == IF ResidentIs(d, S) THEN "resident" ELSE "disk" IN
  IF DurableMatches(d, fit.corpus) /\ d.n < N /\ kept \ S # {}
  THEN Decision("refuse", "none", FALSE, {})
  ELSE IF DurableMatches(d, fit.corpus) /\ ckptOk /\ fit.ckpt.n > d.n
  THEN Decision("resume", "none", TRUE, S)
  ELSE IF DurableMatches(d, fit.corpus) /\ d.n >= N /\ S \subseteq kept
  THEN Decision("noop", use, FALSE, S)
  ELSE IF DurableMatches(d, fit.corpus) /\ d.n >= N
  THEN Decision("topup", "disk", CheckpointMatches(fit.ckpt, fit.corpus, S \ kept), S \ kept)
  ELSE IF DurableMatches(d, fit.corpus) /\ S \subseteq kept
  THEN Decision("resume", use, FALSE, S)
  ELSE Decision("resume", "none", ckptOk, S)   \* from the checkpoint, or fresh

---------------------------------------------------------------------------
(* Writing: every call ends with fsync, collect, fsync.                    *)

Settled(next) == fpc' = "sync" /\ fit' = [fit EXCEPT !.next = next]

Sync_Later ==
  /\ fpc = "sync" /\ Goto("collect")
  /\ UNCHANGED <<disk, synced, resident, fit, Beside>>

Sync ==
  /\ fpc = "sync" /\ synced' = disk /\ torn' = FALSE /\ Goto("collect")
  /\ UNCHANGED <<disk, resident, fit, info, fits, faults>>

Collect ==
  /\ fpc = "collect" /\ disk' = Collected(disk) /\ Goto("syncAgain")
  /\ UNCHANGED <<synced, resident, fit, Beside>>

SyncAgain ==
  /\ fpc = "syncAgain" /\ synced' = disk
  /\ IF fit.next = "return" THEN Return ELSE Goto(fit.next) /\ UNCHANGED fit
  /\ UNCHANGED <<disk, resident, Beside>>

Reused_Always(kind) ==
  IF kind = "final" /\ Sidecar(disk.final) # NoLens
  THEN [l \in PointerLayers(disk.final) \cap (DOMAIN fit.lens \cup DOMAIN fit.have)
          |-> disk.final.files[l]]
  ELSE <<>>

\* _save_components for the manifest or the checkpoint: the layers in have are
\* carried over from the current manifest when it is of this very corpus.
Reused(kind) ==
  LET cur == Sidecar(disk.final) IN
  IF kind = "final" /\ cur # NoLens /\ cur.n = fit.n /\ cur.corpus = fit.corpus
  THEN [l \in {k \in DOMAIN fit.have \cap PointerLayers(cur) :
                 disk.files[cur.files[k]] # Damaged} |-> cur.files[l]]
  ELSE <<>>

StartSave(f, kind, next) ==
  /\ fpc' = "shards"
  /\ fit' = [f EXCEPT !.save = kind, !.next = next, !.ids = Reused(kind), !.new = {}]

AllMatrices == [l \in DOMAIN fit.lens \cup DOMAIN fit.have |->
                  IF l \in DOMAIN fit.lens THEN fit.lens[l] ELSE fit.have[l]]

ToSave == IF fit.save = "ckpt" THEN fit.lens ELSE AllMatrices

\* One immutable shard, written to a temporary, synced and renamed.
WriteShard ==
  /\ fpc = "shards"
  /\ \E l \in DOMAIN ToSave \ DOMAIN fit.ids, i \in Ids :
       /\ \A k \in DOMAIN ToSave \ DOMAIN fit.ids : l <= k
       /\ NewId(i)
       /\ disk' = [disk EXCEPT !.files = With(@, i, ToSave[l])]
       /\ fit' = [fit EXCEPT !.ids = With(@, l, i), !.new = @ \cup {i}]
  /\ UNCHANGED <<synced, resident, fpc, Beside>>

SyncShards ==
  /\ fpc = "shards" /\ DOMAIN fit.ids = DOMAIN ToSave
  /\ synced' = disk /\ torn' = FALSE /\ Goto("pointer")
  /\ UNCHANGED <<disk, resident, fit, info, fits, faults>>

Written(d) ==
  LET ptr == Pointer(fit.corpus, fit.n, fit.ids) IN
  IF fit.save = "final" THEN [d EXCEPT !.final = ptr] ELSE [d EXCEPT !.ckpt = ptr]

WritePointer ==
  /\ fpc = "pointer"
  /\ disk' = Written(disk) /\ Goto("sync")
  /\ UNCHANGED <<synced, resident, fit, Beside>>

\* An error while saving discards the new shards, unless the pointer already
\* names them (json_pointer_matches).
SaveFails ==
  /\ fpc \in {"shards", "pointer"}
  /\ \/ /\ disk' = KeepFiles(disk, DOMAIN disk.files \ fit.new)
        /\ UNCHANGED torn
     \/ fpc = "pointer" /\ disk' = Written(disk) /\ torn' = TRUE
  /\ Goto("fail")
  /\ UNCHANGED <<synced, resident, fit, info, fits, faults>>

---------------------------------------------------------------------------
(* A fit.                                                                  *)

\* Under the fit lock, where a fit first collects the leftovers of a crash.
Begin(p, op, corpus, sources, every) ==
  /\ FitLockFree /\ Budget /\ (p = Session => info # "read")
  /\ fits' = fits + 1
  /\ disk' = IF op = "prove" THEN disk ELSE Collected(disk)
  /\ fit' = [NoFit EXCEPT !.by = p, !.op = op, !.corpus = corpus, !.sources = sources,
                          !.every = every,
                          !.final = IF op = "force" THEN NoLens ELSE Sidecar(disk.final),
                          !.ckpt = IF op = "force" THEN NoLens ELSE Sidecar(disk.ckpt)]
  /\ fpc' = IF op = "force" THEN "unlink" ELSE "plan"
  /\ UNCHANGED <<synced, resident, info, torn, faults>>

\* The plan and the loads it asks for; a lens that does not load is planned
\* again without.
Planned(plan, f) ==
  CASE plan.action = "refuse" -> Return
    [] plan.action = "noop" -> fpc' = "reap" /\ fit' = f
    [] plan.action = "topup" -> fpc' = "estimate" /\ fit' = f
    [] plan.action = "resume" -> fpc' = "evict" /\ fit' = f

\* Only the session has a residency; evict and adopt take its state_lock.
Evicting == fit.by = Session /\ StateFree /\ resident' = NoLens
EvictIfMine == Evicting \/ (fit.by # Session /\ UNCHANGED resident)
Adopting(lens) ==
  /\ fit.by = Session /\ StateFree
  /\ LET id == Sidecar(disk.final) IN
     resident' = IF id = NoLens THEN [lens |-> lens, n |-> fit.n, id |-> NoLens]
                 ELSE [lens |-> lens, n |-> id.n, id |-> id]

\* What the plan loads: the durable lens from memory or disk, and the checkpoint.
Asked(plan) == IF plan.action = "noop" THEN fit.sources ELSE PointerLayers(fit.final)
Durable(plan) ==
  CASE plan.use = "none" -> <<>>
    [] plan.use = "resident" -> resident.lens
    [] plan.use = "disk" -> Matrices(fit.final, Asked(plan))
BadFinal(plan) == plan.use = "disk" /\ ~Loads(fit.final, Asked(plan))
BadCheckpoint(plan) == plan.ckpt /\ ~Loads(fit.ckpt, PointerLayers(fit.ckpt))
FromCheckpoint(plan) == plan.ckpt /\ ~BadCheckpoint(plan)
Continued(plan) == plan.action = "resume" /\ plan.use # "none"

\* Where the estimator begins, with what it has summed and what need not be summed.
CountStart(plan) ==
  IF FromCheckpoint(plan) THEN fit.ckpt.n ELSE IF Continued(plan) THEN fit.final.n ELSE 0
LensStart(plan) ==
  IF plan.action \in {"noop", "refuse"} THEN <<>>
  ELSE IF FromCheckpoint(plan) THEN Matrices(fit.ckpt, PointerLayers(fit.ckpt))
  ELSE [l \in plan.layers |-> IF Continued(plan) THEN Durable(plan)[l] ELSE <<>>]
HaveStart(plan) == IF plan.action \in {"noop", "topup"} THEN Durable(plan) ELSE <<>>

PlanFit ==
  /\ fpc = "plan" /\ fit.op \in {"fit", "force"}
  /\ LET plan == LensFitPlan
         f == [fit EXCEPT !.action = plan.action, !.layers = plan.layers, !.n = CountStart(plan),
                          !.start = CountStart(plan), !.have = HaveStart(plan), !.lens = LensStart(plan)]
     IN IF BadFinal(plan)
        THEN fit' = [fit EXCEPT !.final = NoLens] /\ UNCHANGED <<fpc, resident>>
        ELSE IF BadCheckpoint(plan) /\ plan.action = "resume"
        THEN /\ EvictIfMine /\ UNCHANGED fpc
             /\ fit' = [fit EXCEPT !.ckpt = NoLens, !.had = @ \/ resident # resident']
        ELSE Planned(plan, f) /\ UNCHANGED resident
  /\ UNCHANGED <<disk, synced, Beside>>

\* prove_lens_fit_noop: the weights are not loaded, the digests are checked.
ProveNoop ==
  /\ fpc = "plan" /\ fit.op = "prove"
  /\ LET d == fit.final IN
     IF /\ d # NoLens /\ d.corpus = fit.corpus /\ d.n >= Len(fit.corpus)
        /\ fit.sources \subseteq PointerLayers(d) /\ Loads(d, PointerLayers(d))
     THEN Goto("reap") /\ UNCHANGED fit
     ELSE Return
  /\ UNCHANGED <<disk, synced, resident, Beside>>

\* remove_subsumed_lens_checkpoint: a checkpoint the manifest contains.
Subsumes(final, ckpt) ==
  /\ final # NoLens /\ ckpt # NoLens
  /\ final.corpus = ckpt.corpus /\ final.n >= ckpt.n
  /\ PointerLayers(ckpt) \subseteq PointerLayers(final)

Reap ==
  /\ fpc = "reap"
  /\ LET final == Sidecar(disk.final)
         done == IF fit.op = "prove" THEN "return" ELSE "settle" IN
     IF /\ Subsumes(final, Sidecar(disk.ckpt)) /\ Loads(final, PointerLayers(final))
     THEN disk' = [disk EXCEPT !.ckpt = NoLens] /\ Settled(done)
     ELSE /\ IF done = "return" THEN Return ELSE Goto(done) /\ UNCHANGED fit
          /\ UNCHANGED disk
  /\ UNCHANGED <<synced, resident, Beside>>

Stamped_Always == TRUE

\* A no-op adopts a lens it loaded whole; a selective view is not stamped.
Stamped == DOMAIN fit.have = PointerLayers(fit.final)
Settle ==
  /\ fpc = "settle"
  /\ \/ Stamped /\ Adopting(fit.have)
     \/ ~Stamped /\ Evicting
     \/ fit.by # Session /\ UNCHANGED resident
  /\ Return
  /\ UNCHANGED <<disk, synced, Beside>>

\* The resident gives way to the estimator; a checkpoint that is already
\* complete is published as it is.
Evict ==
  /\ fpc = "evict" /\ EvictIfMine
  /\ LET f == [fit EXCEPT !.had = @ \/ resident # resident'] IN
     IF fit.n < Len(fit.corpus)
     THEN fpc' = "estimate" /\ fit' = f
     ELSE StartSave(f, "final", "unlink")
  /\ UNCHANGED <<disk, synced, Beside>>

\* One more document is summed into every layer being fitted.
Summed == [l \in DOMAIN fit.lens |-> Append(fit.lens[l], fit.corpus[fit.n + 1])]

Estimate ==
  /\ fpc = "estimate" /\ fit.n < Len(fit.corpus)
  /\ LET f == [fit EXCEPT !.lens = Summed, !.n = @ + 1] IN
     IF (f.n - f.start) % f.every = 0
     THEN fpc' = "checkpoint" /\ fit' = [f EXCEPT !.next = "estimate"]
     ELSE fit' = f /\ UNCHANGED fpc
  /\ UNCHANGED <<disk, synced, resident, Beside>>

\* Cancelled between prompt groups: what is summed becomes a checkpoint.
CancelFit ==
  /\ fpc = "estimate" /\ fit.n < Len(fit.corpus)
  /\ IF fit.n > fit.start
     THEN fpc' = "checkpoint" /\ fit' = [fit EXCEPT !.next = "fail"]
     ELSE Goto("fail") /\ UNCHANGED fit
  /\ UNCHANGED <<disk, synced, resident, Beside>>

\* Cancelled or failed within a group: the sums are dropped.
EstimateFails ==
  /\ fpc = "estimate" /\ fit.n < Len(fit.corpus)
  /\ Goto("fail")
  /\ UNCHANGED <<disk, synced, resident, fit, Beside>>

\* save_lens_checkpoint writes only the layers being fitted.
Checkpoint ==
  /\ fpc = "checkpoint"
  /\ fpc' = "shards"
  /\ fit' = [fit EXCEPT !.save = "ckpt", !.ids = <<>>, !.new = {}, !.wrote = TRUE]
  /\ UNCHANGED <<disk, synced, resident, Beside>>

Promotable_AnyProgress ==
  LET ptr == Sidecar(disk.ckpt) IN
  /\ fit.action = "resume" /\ fit.wrote /\ ptr # NoLens
  /\ ptr.corpus = fit.corpus /\ PointerLayers(ptr) = DOMAIN fit.lens

\* promote_lens_checkpoint: the terminal checkpoint is the lens.
Promotable ==
  LET ptr == Sidecar(disk.ckpt) IN
  /\ fit.action = "resume" /\ fit.wrote /\ ptr # NoLens
  /\ ptr.n = fit.n /\ ptr.corpus = fit.corpus /\ PointerLayers(ptr) = DOMAIN fit.lens

Publish ==
  /\ fpc = "estimate" /\ fit.n = Len(fit.corpus)
  /\ IF Promotable
     THEN /\ disk' = [disk EXCEPT !.final = disk.ckpt]
          /\ Goto("syncPromoted") /\ UNCHANGED fit
     ELSE StartSave(fit, "final", "unlink") /\ UNCHANGED disk
  /\ UNCHANGED <<synced, resident, Beside>>

SyncPromoted ==
  /\ fpc = "syncPromoted" /\ synced' = disk /\ Goto("unlink")
  /\ UNCHANGED <<disk, resident, fit, Beside>>

\* The checkpoint goes once the manifest is durable (and first, when forced).
UnlinkCheckpoint ==
  /\ fpc = "unlink"
  /\ disk' = [disk EXCEPT !.ckpt = NoLens]
  /\ Settled(IF fit.action = NoLens THEN "plan" ELSE "adopt")
  /\ UNCHANGED <<synced, resident, Beside>>

Adopt ==
  /\ fpc = "adopt"
  /\ \/ Adopting(AllMatrices)
     \/ fit.by # Session /\ UNCHANGED resident
  /\ Return
  /\ UNCHANGED <<disk, synced, Beside>>

\* A failed fit puts back the lens that is on disk, if it had evicted one.
FailFit ==
  /\ fpc = "fail"
  /\ LET ptr == Sidecar(disk.final) IN
     \/ /\ fit.had /\ ptr # NoLens /\ Loads(ptr, PointerLayers(ptr))
        /\ Adopting(Matrices(ptr, PointerLayers(ptr)))
     \/ /\ ~(fit.had /\ ptr # NoLens /\ Loads(ptr, PointerLayers(ptr)))
        /\ UNCHANGED resident
  /\ Return
  /\ UNCHANGED <<disk, synced, Beside>>

---------------------------------------------------------------------------
(* Removal.                                                                *)

StartRemove(p) ==
  /\ FitLockFree /\ Budget
  /\ fits' = fits + 1
  /\ fit' = [NoFit EXCEPT !.by = p, !.op = "remove"]
  /\ Goto("removeFinal")
  /\ UNCHANGED <<disk, synced, resident, info, torn, faults>>

RemoveFinal ==
  /\ fpc = "removeFinal"
  /\ disk' = [disk EXCEPT !.final = NoLens] /\ Goto("removeCheckpoint")
  /\ UNCHANGED <<synced, resident, fit, Beside>>

RemoveCheckpoint ==
  /\ fpc = "removeCheckpoint"
  /\ disk' = [disk EXCEPT !.ckpt = NoLens] /\ Settled("return")
  /\ UNCHANGED <<synced, resident, Beside>>

---------------------------------------------------------------------------
(* The session-info route and the reads that refresh the resident.         *)

\* _refresh: compare with the manifest on disk, and load only when it differs.
\* resident() loads an absent lens too; it runs under the exclusive guard, which
\* a fit of the session wants too, and the route runs under no lock.
RefreshLens(load) ==
  /\ StateFree /\ (load => fit.by # Session)
  /\ LET ptr == Sidecar(disk.final) IN
     \/ ptr = NoLens /\ resident # NoLens /\ resident' = NoLens /\ UNCHANGED info
     \/ /\ ptr # NoLens
        /\ IF resident = NoLens THEN load ELSE resident.id # ptr
        /\ info' = (IF load THEN "read" ELSE "route") /\ UNCHANGED resident
  /\ UNCHANGED <<disk, synced, fit, fpc, torn, fits, faults>>

\* load_lens takes the fit lock.
LoadResident ==
  /\ info # "idle" /\ FitLockFree
  /\ LET ptr == Sidecar(disk.final) IN
     IF ptr # NoLens /\ Loads(ptr, PointerLayers(ptr))
     THEN /\ resident' = [lens |-> Matrices(ptr, PointerLayers(ptr)), n |-> ptr.n, id |-> ptr]
          /\ disk' = Collected(disk)
     ELSE resident' = NoLens /\ UNCHANGED disk
  /\ info' = "idle"
  /\ UNCHANGED <<synced, fit, fpc, torn, fits, faults>>

---------------------------------------------------------------------------
(* Faults.                                                                 *)

Fault == Budget /\ faults < MaxFaults /\ faults' = faults + 1

\* A process dies; what it wrote stays.
Dies(p) ==
  /\ IF p = Session THEN resident' = NoLens /\ info' = "idle" ELSE UNCHANGED <<resident, info>>
  /\ IF fit.by = p THEN Return ELSE UNCHANGED <<fit, fpc>>

Kill(p) ==
  /\ Fault /\ (p = Session \/ fit.by = p)
  /\ Dies(p)
  /\ torn' = (torn \/ (fit.by = p /\ <<disk.final, disk.ckpt>> # <<synced.final, synced.ckpt>>))
  /\ UNCHANGED <<disk, synced, fits>>

\* Of the directory operations since the last fsync, any may be lost.
PowerLoss ==
  /\ Fault
  /\ torn => LossAfterInterrupt
  /\ \E f \in {disk.final, synced.final}, k \in {disk.ckpt, synced.ckpt},
        lost \in SUBSET ((DOMAIN disk.files \ DOMAIN synced.files)
                         \cup (DOMAIN synced.files \ DOMAIN disk.files)) :
       /\ disk' = [final |-> f, ckpt |-> k,
                   files |-> [i \in (DOMAIN disk.files \cup DOMAIN synced.files) \ lost |->
                                IF i \in DOMAIN disk.files THEN disk.files[i] ELSE synced.files[i]]]
       /\ synced' = disk' /\ torn' = FALSE
  /\ resident' = NoLens /\ info' = "idle" /\ Return
  /\ UNCHANGED fits

\* The bytes of a shard go bad.
Spoiled(d, i) == [d EXCEPT !.files = [j \in DOMAIN @ |-> IF j = i THEN Damaged ELSE @[j]]]
Damage ==
  /\ Fault
  /\ \E i \in DOMAIN disk.files : disk' = Spoiled(disk, i) /\ synced' = Spoiled(synced, i)
  /\ UNCHANGED <<resident, fit, fpc, info, torn, fits>>

FitOps == {"fit", "force", "prove"}

LensNext ==
  \/ \E p \in LensProcs, op \in FitOps, c \in PromptSets, S \in LayerChoices,
        k \in Cadences : Begin(p, op, c, S, k)
  \/ PlanFit \/ ProveNoop \/ Reap \/ Settle \/ Evict \/ Estimate \/ CancelFit
  \/ EstimateFails \/ Checkpoint \/ Publish \/ SyncPromoted \/ UnlinkCheckpoint
  \/ Adopt \/ FailFit
  \/ WriteShard \/ SyncShards \/ WritePointer \/ SaveFails \/ Sync \/ Collect \/ SyncAgain
  \/ \E p \in LensProcs : StartRemove(p) \/ Kill(p)
  \/ RemoveFinal \/ RemoveCheckpoint
  \/ \E load \in BOOLEAN : RefreshLens(load)
  \/ LoadResident \/ PowerLoss \/ Damage

LensSpec == LensInit /\ [][LensNext]_lensVars

---------------------------------------------------------------------------
(* Properties.                                                             *)

\* The pointers on disk, also those a crash or a power loss left, name shards
\* that exist and that average exactly the documents the pointer counts, for
\* each of its layers: none twice, none of another corpus.
PointersAreExact ==
  \A ptr \in {disk.final, disk.ckpt} \ {NoLens} :
    /\ ptr.n <= Len(ptr.corpus)
    /\ \A l \in PointerLayers(ptr) :
         /\ ptr.files[l] \in DOMAIN disk.files
         /\ disk.files[ptr.files[l]] \in {Damaged, FirstDocs(ptr.corpus, ptr.n)}

\* A fit returns the requested layers of a lens over the whole requested
\* corpus, whichever of manifest, checkpoint and resident it started from.
FitsWhatWasAsked ==
  fpc \in {"settle", "adopt"} =>
    \A l \in fit.sources : l \in DOMAIN AllMatrices /\ AllMatrices[l] = fit.corpus

\* No document is counted twice, left out or taken from another corpus, on disk
\* or in what a fit returns.
FilesAreExact == PointersAreExact /\ FitsWhatWasAsked

\* A resident stamped with a manifest is all of that manifest's lens.
ResidentIsWhole ==
  resident # NoLens /\ resident.id # NoLens =>
    /\ resident.n = resident.id.n
    /\ DOMAIN resident.lens = PointerLayers(resident.id)
    /\ \A l \in DOMAIN resident.lens :
         resident.lens[l] = FirstDocs(resident.id.corpus, resident.id.n)

\* On disk, in a running fit and in memory a lens is of the documents it claims.
LensIsExact == FilesAreExact /\ ResidentIsWhole

\* A manifest that reached the disk is not lost by a fit that fails, is
\* cancelled, or dies with the process or the power: it is only ever replaced
\* by a complete lens, or removed on request.
DurableIsKept ==
  [][ disk.final # NoLens /\ synced.final # NoLens /\ fit.op # "remove" =>
        disk'.final # NoLens /\ disk'.final.n = Len(disk'.final.corpus) ]_lensVars

\* The session-info route never waits, holding the lens state, for a fit that
\* needs that state to go on.
StateLockIsALeaf ==
  ~(info # "idle" /\ fit.by = Session /\ fpc \in {"settle", "evict", "adopt"})
=============================================================================
