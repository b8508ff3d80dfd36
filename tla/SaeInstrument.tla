---------------------------- MODULE SaeInstrument ----------------------------
(***************************************************************************)
(* The one resident SAE of a session, and what hangs on it.                *)
(*                                                                         *)
(*   drowse/sae/runtime.py      residency: load, unload, train, restore    *)
(*   drowse/sae/instrument.py   probes, live discovery, directions, runs   *)
(*   drowse/sae/sources.py      bindings, selection, feature metadata      *)
(*   drowse/readout/roster.py   the cached probe digests                   *)
(*                                                                         *)
(* A feature id means something only in one dictionary at one hook layer.  *)
(* Loads, unloads, trainings and generations take the exclusive section,   *)
(* which refuses whoever comes second.  Attaching a probe, asking for      *)
(* metadata, the live switch and the digests run beside them, in pieces.   *)
(***************************************************************************)
EXTENDS Integers, FiniteSets, Functions

CONSTANTS
  SaeThreads, Names, Features,
  Provider, Local,          \* SAELens releases; the name a training saves under
  LayersOf, WidthOf,        \* a release's hook layers, and the features it has
  None,
  MaxLoads,                 \* bound: loads that reach the swap
  MaxOps                    \* bound: operations begun

Releases == Provider \cup Local
HookLayers == UNION {LayersOf[r] : r \in Releases}

\* One dictionary: a release at a hook layer.
Dictionary(r, l) == <<r, l>>
DictionaryOf(res) == Dictionary(res.release, res.layer)

\* A metadata row: the dictionary whose maxActApprox it holds, or None, and
\* whether this session asked (`checked`, which is not saved).
Row(unit, checked) == [unit |-> unit, checked |-> checked]
Rows == [unit : (Releases \X HookLayers) \cup {None}, checked : BOOLEAN]
Metas == UNION {[got -> Rows] : got \in SUBSET Features}
Residencies == [n : Nat, release : Releases, layer : HookLayers, meta : Metas]

\* A training saves its SAE with the one layer it was trained at.
ASSUME SaeAssumption ==
  /\ Provider \cap Local = {} /\ None \notin Names \cup Releases \cup SaeThreads \cup Residencies
  /\ \A r \in Releases : LayersOf[r] # {} /\ WidthOf[r] \subseteq Features
  /\ \A r \in Local : \E l \in LayersOf[r] : LayersOf[r] = {l}
  /\ MaxLoads \in Nat /\ MaxOps \in Nat

VARIABLES
  resident,   \* SaeResidency, or None; n is its identity
  loaded,     \* the last n given
  source,     \* on disk: active selection, bindings, feature metadata, trained
  probes,     \* attached probes: name -> spec
  live,       \* the live-discovery config, or None
  directions, \* the registry's sae/<id> profiles: the residency they are from
  digests,    \* ProbeRoster._hashes["sae"]
  run,        \* the bound run of the generation in flight, or None
  gpu,        \* who is in the exclusive section
  op,         \* each thread's operation: where it is and what it has read
  begun,
  elsewhere   \* the selection was changed by another process since the last load

saeVars == <<resident, loaded, source, probes, live, directions, digests,
             run, gpu, op, begun, elsewhere>>

\* What an instrument call leaves alone, and what a residency change does.
Residency == <<resident, loaded, source, directions, elsewhere>>
Instrument == <<probes, live, directions, digests>>

Idle == [at |-> "idle", res |-> None, release |-> None, layer |-> 0, name |-> None,
         wanted |-> {}, feature |-> 0, entry |-> None, digest |-> None,
         expect |-> None]   \* a note: what a restart should make resident again

\* A mapping with one key written, and one mapping laid over another.
Put(f, k, v) == [x \in DOMAIN f \cup {k} |-> IF x = k THEN v ELSE f[x]]
Over(g, f) == [x \in DOMAIN g \cup DOMAIN f |-> IF x \in DOMAIN g THEN g[x] ELSE f[x]]

_needs_fetch(meta, f) == f \notin DOMAIN meta \/ (meta[f].unit = None /\ ~meta[f].checked)
UnitIn(meta, f) == IF f \in DOMAIN meta THEN meta[f].unit ELSE None
Saved(meta) == [f \in DOMAIN meta |-> Row(meta[f].unit, FALSE)]

max_act(f) == IF resident = None THEN None ELSE UnitIn(resident.meta, f)

SaeInit ==
  /\ resident = None /\ loaded = 0
  /\ source = [active |-> None, binding |-> <<>>, features |-> <<>>, trained |-> {}]
  /\ probes = <<>> /\ live = None /\ directions = <<>> /\ digests = <<>>
  /\ run = None /\ gpu = None /\ begun = 0 /\ elsewhere = FALSE
  /\ op = [t \in SaeThreads |-> Idle]

Begin(t) == op[t] = Idle /\ begun < MaxOps /\ begun' = begun + 1
At(t, place) == op[t].at = place
Become(t, o) == op' = [op EXCEPT ![t] = o]
End(t) == Become(t, Idle)

\* The exclusive section refuses; it never queues.
Enter(t) == gpu = None /\ gpu' = t
Leave == gpu' = None

---------------------------------------------------------------------------
(* Residency.                                                              *)

\* load, up to resolve_sae_backend: a release another process removed, or a
\* trained one that is not there, is refused with nothing changed.
LoadBegin(t) ==
  /\ Begin(t) /\ Enter(t)
  /\ \E r \in Provider \cup source.trained : \E l \in LayersOf[r] :
       Become(t, [Idle EXCEPT !.at = "load", !.release = r, !.layer = l])
  /\ UNCHANGED <<Residency, probes, live, digests, run>>

\* The download, the weights or the metadata file fail before anything is
\* published.
LoadFails(t) ==
  /\ At(t, "load") /\ Leave /\ End(t)
  /\ UNCHANGED <<Residency, probes, live, digests, run, begun>>

\* load_sae_feature_meta: rows saved for another binding are not read.
load_sae_feature_meta(r, l) ==
  IF r \in DOMAIN source.features /\ source.features[r].layer = l
  THEN source.features[r].rows ELSE <<>>

\* save_sae_metadata or SAE_SOURCES.select: published before the swap.
LoadPublish(t) ==
  /\ At(t, "load") /\ loaded < MaxLoads
  /\ LET r == op[t].release  l == op[t].layer
     IN /\ source' = [source EXCEPT
                        !.active = r,
                        !.binding = IF r \in Local THEN @ ELSE Put(@, r, l)]
        /\ Become(t, [op[t] EXCEPT !.at = "swap",
             !.entry = IF r \in Local THEN <<>> ELSE load_sae_feature_meta(r, l)])
  /\ elsewhere' = FALSE
  /\ UNCHANGED <<resident, loaded, Instrument, run, gpu, begun>>

\* forget
Without(f, keys) == Restrict(f, DOMAIN f \ keys)

\* _on_swap, under the state lock with the residency already swapped.
\* Mutant: the registered directions stay.
_on_swap_KeepsDirections ==
  /\ probes' = <<>> /\ live' = None /\ directions' = directions
  /\ digests' = Without(digests, DOMAIN probes)
_on_swap ==
  /\ probes' = <<>> /\ live' = None /\ directions' = <<>>
  /\ digests' = Without(digests, DOMAIN probes)

LoadSwap(t) ==
  /\ At(t, "swap")
  /\ loaded' = loaded + 1
  /\ resident' = [n |-> loaded + 1, release |-> op[t].release, layer |-> op[t].layer,
                  meta |-> op[t].entry]
  /\ _on_swap
  /\ Leave /\ End(t)
  /\ UNCHANGED <<source, run, begun, elsewhere>>

Unload(t) ==
  /\ Begin(t) /\ gpu = None /\ resident # None
  /\ resident' = None /\ _on_swap
  /\ UNCHANGED <<loaded, source, run, gpu, op, elsewhere>>

\* train holds the section up to save_local_sae, then loads as anyone does.
TrainBegin(t) ==
  /\ Begin(t) /\ Enter(t)
  /\ \E r \in Local : Become(t, [Idle EXCEPT !.at = "train", !.release = r])
  /\ UNCHANGED <<Residency, probes, live, digests, run>>

TrainSaves(t) ==
  /\ At(t, "train") /\ Leave
  /\ source' = [source EXCEPT !.trained = @ \cup {op[t].release}]
  /\ Become(t, [op[t] EXCEPT !.at = "trained"])
  /\ UNCHANGED <<resident, loaded, Instrument, run, begun, elsewhere>>

TrainFails(t) ==
  /\ At(t, "train") /\ Leave /\ End(t)
  /\ UNCHANGED <<Residency, probes, live, digests, run, begun>>

TrainLoads(t) ==
  /\ At(t, "trained") /\ Enter(t)
  /\ \E l \in LayersOf[op[t].release] :
       Become(t, [op[t] EXCEPT !.at = "load", !.layer = l])
  /\ UNCHANGED <<Residency, probes, live, digests, run, begun>>

\* Somebody else took the section between the two.
TrainRefused(t) ==
  /\ At(t, "trained") /\ gpu # None /\ End(t)
  /\ UNCHANGED <<Residency, probes, live, digests, run, gpu, begun>>

\* drowse sae use / rm in another process.
OtherProcess ==
  /\ begun < MaxOps /\ begun' = begun + 1 /\ elsewhere' = TRUE
  /\ \/ \E r \in DOMAIN source.binding \cup source.trained :
          source' = [source EXCEPT !.active = r]
     \/ \E r \in DOMAIN source.binding \cup source.trained :
          source' = [active |-> IF source.active = r THEN None ELSE source.active,
                     binding |-> Without(source.binding, {r}),
                     features |-> Without(source.features, {r}),
                     trained |-> source.trained \ {r}]
  /\ UNCHANGED <<resident, loaded, Instrument, run, gpu, op>>

\* The session closes; a new one runs restore_active with the binding it saved.
\* Mutant: the layer of the binding is not passed on.
RestoreLayers_Default(r) == LayersOf[r]
RestoreLayers(r) == IF r \in Local THEN LayersOf[r] ELSE {source.binding[r]}

Restart(t) ==
  /\ begun < MaxOps /\ begun' = begun + 1
  /\ op[t] = Idle /\ gpu = None /\ run = None
  /\ resident' = None /\ probes' = <<>> /\ live' = None /\ directions' = <<>>
  /\ digests' = <<>>
  /\ IF source.active = None \/ source.active \notin DOMAIN source.binding \cup source.trained
     THEN /\ op' = [u \in SaeThreads |-> Idle] /\ gpu' = None
     ELSE /\ \E l \in RestoreLayers(source.active) :
               op' = [u \in SaeThreads |-> IF u = t
                        THEN [Idle EXCEPT !.at = "load", !.release = source.active, !.layer = l,
                                !.expect = IF resident = None \/ elsewhere THEN None
                                           ELSE DictionaryOf(resident)]
                        ELSE Idle]
          /\ gpu' = t
  /\ UNCHANGED <<loaded, source, run, elsewhere>>

---------------------------------------------------------------------------
(* Metadata and probes.                                                    *)

\* attach and fetch_meta look under the state lock: what has no row and was
\* never asked for is fetched.
Ask(t) ==
  /\ Begin(t) /\ resident # None
  /\ \/ \E f \in WidthOf[resident.release], name \in Names :
          Become(t, [Idle EXCEPT !.res = resident, !.name = name, !.feature = f,
                       !.layer = resident.layer,
                       !.wanted = {g \in {f} : _needs_fetch(resident.meta, g)},
                       !.entry = UnitIn(resident.meta, f),
                       !.at = IF _needs_fetch(resident.meta, f) THEN "fetch" ELSE "attach"])
     \/ \E wanted \in SUBSET {f \in WidthOf[resident.release] : _needs_fetch(resident.meta, f)} :
          /\ wanted # {}
          /\ Become(t, [Idle EXCEPT !.res = resident, !.wanted = wanted, !.at = "fetch"])
  /\ UNCHANGED <<Residency, probes, live, digests, run, gpu>>

\* neuronpedia.fetch_feature: nothing (no such dictionary, or a lost request),
\* a page without a maximum, or the dictionary's own.
Answers(res, wanted) ==
  UNION { [got -> {Row(None, TRUE), Row(DictionaryOf(res), TRUE)}] :
          got \in IF res.release \in Local THEN {{}} ELSE SUBSET wanted }

Current(res) == resident # None /\ resident.n = res.n

\* _on_fetched: the probes of those features take the new unit.
\* Mutant: their digests stay.
_on_fetched_KeepsDigests(fetched) ==
  /\ probes' = [name \in DOMAIN probes |->
       IF probes[name].feature \in DOMAIN fetched
       THEN [probes[name] EXCEPT !.max_act = fetched[probes[name].feature].unit]
       ELSE probes[name]]
  /\ digests' = digests
_on_fetched(fetched) ==
  LET of == {name \in DOMAIN probes : probes[name].feature \in DOMAIN fetched}
  IN /\ probes' = [name \in DOMAIN probes |->
          IF name \in of
          THEN [probes[name] EXCEPT !.max_act = fetched[probes[name].feature].unit]
          ELSE probes[name]]
     /\ digests' = Without(digests, of)

\* _fetch: the rows land only in the residency they were read for; then an
\* attach goes on, unless the residency has changed.
\* Mutant: rows land in whatever is resident.
Lands_Anywhere(res) == resident # None
Lands(res) == Current(res)

Fetched(t) ==
  /\ At(t, "fetch")
  /\ \E fetched \in Answers(op[t].res, op[t].wanted) :
       /\ IF Lands(op[t].res) /\ fetched # <<>>
          THEN LET meta == Over(fetched, resident.meta)
               IN /\ resident' = [resident EXCEPT !.meta = meta]
                  /\ source' = [source EXCEPT !.features =
                       Put(@, resident.release, [layer |-> resident.layer, rows |-> Saved(meta)])]
                  /\ _on_fetched(fetched)
          ELSE UNCHANGED <<resident, source, probes, digests>>
       /\ IF op[t].name = None \/ ~Current(op[t].res) THEN End(t)
          ELSE Become(t, [op[t] EXCEPT !.at = "attach", !.entry =
                 IF op[t].feature \in DOMAIN fetched THEN fetched[op[t].feature].unit ELSE @])
  /\ UNCHANGED <<loaded, live, directions, run, gpu, begun, elsewhere>>

\* What was validated before is inserted inside the section; `late` notes that
\* a swap has come between.
Attach(t) ==
  /\ At(t, "attach") /\ gpu = None
  /\ probes' = Put(probes, op[t].name,
                   [feature |-> op[t].feature, layer |-> op[t].layer, max_act |-> op[t].entry,
                    n |-> op[t].res.n, late |-> ~Current(op[t].res)])
  /\ Become(t, [Idle EXCEPT !.at = "changed", !.name = op[t].name])
  /\ UNCHANGED <<Residency, live, digests, run, gpu, begun>>

AttachRefused(t) ==
  /\ At(t, "attach") /\ gpu # None /\ End(t)
  /\ UNCHANGED <<Residency, probes, live, digests, run, gpu, begun>>

try_detach(t) ==
  /\ Begin(t)
  /\ \E name \in DOMAIN probes :
       probes' = Without(probes, {name}) /\ Become(t, [Idle EXCEPT !.at = "changed", !.name = name])
  /\ UNCHANGED <<Residency, live, digests, run, gpu>>

\* ProbeRoster.changed, after the family's lock is released.
Changed(t) ==
  /\ At(t, "changed")
  /\ digests' = Without(digests, {op[t].name}) /\ End(t)
  /\ UNCHANGED <<Residency, probes, live, run, gpu, begun>>

\* SaeInstrument.probe_hash: what the readings of a probe mean.
Identity(name) ==
  [of |-> IF resident = None THEN None ELSE resident.release,
   layer |-> probes[name].layer, feature |-> probes[name].feature,
   unit |-> max_act(probes[name].feature)]

\* ProbeRoster.probe_hash: a miss computes under the family's lock and is cached
\* after it.
HashRead(t) ==
  /\ Begin(t)
  /\ \E name \in DOMAIN probes \ DOMAIN digests :
       Become(t, [Idle EXCEPT !.at = "hash", !.name = name, !.digest = Identity(name)])
  /\ UNCHANGED <<Residency, probes, live, digests, run, gpu>>

HashStore(t) ==
  /\ At(t, "hash") /\ End(t)
  /\ digests' = Put(digests, op[t].name, [is |-> op[t].digest,
       late |-> op[t].name \notin DOMAIN probes \/ Identity(op[t].name) # op[t].digest])
  /\ UNCHANGED <<Residency, probes, live, run, gpu, begun>>

---------------------------------------------------------------------------
(* Live discovery.                                                         *)

enable_live(t) ==
  /\ Begin(t) /\ resident # None
  /\ Become(t, [Idle EXCEPT !.at = "live", !.res = resident])
  /\ UNCHANGED <<Residency, probes, live, digests, run, gpu>>

EnabledLive(t) ==
  /\ At(t, "live") /\ End(t)
  /\ live' = [layer |-> op[t].res.layer, source |-> op[t].res.release,
              late |-> ~Current(op[t].res)]
  /\ UNCHANGED <<Residency, probes, digests, run, gpu, begun>>

disable_live(t) ==
  /\ begun < MaxOps /\ begun' = begun + 1
  /\ op[t] = Idle /\ live # None /\ live' = None
  /\ UNCHANGED <<Residency, probes, digests, run, gpu, op>>

---------------------------------------------------------------------------
(* A generation.                                                           *)

Generate(t) ==
  /\ Begin(t) /\ Enter(t)
  /\ Become(t, [Idle EXCEPT !.at = "compose"])
  /\ UNCHANGED <<Residency, probes, live, digests, run>>

\* The composer registers the directions its steering names, in the section.
register_direction(t) ==
  /\ At(t, "compose") /\ resident # None
  /\ \E f \in WidthOf[resident.release] :
       f \notin DOMAIN directions /\ directions' = Put(directions, f, resident.n)
  /\ UNCHANGED <<resident, loaded, source, elsewhere, probes, live, digests, run, gpu, op, begun>>

\* plan: the layers to capture, from the live registry.
Plan(t) ==
  /\ At(t, "compose")
  /\ Become(t, [op[t] EXCEPT !.at = "bind",
       !.wanted = (IF live = None THEN {} ELSE {live.layer})
                  \cup (IF probes # <<>> /\ resident # None THEN {resident.layer} ELSE {})])
  /\ UNCHANGED <<Residency, probes, live, digests, run, gpu, begun>>

\* bind: each spec with its unit resolved, and the live config, from one snapshot.
\* units and reads are notes: what each probe's readings were divided by, and
\* which residency encoded which layer.
bind(t) ==
  /\ At(t, "bind")
  /\ run' = [specs |-> [name \in DOMAIN probes |->
               IF probes[name].max_act # None THEN probes[name]
               ELSE [probes[name] EXCEPT !.max_act = max_act(probes[name].feature)]],
             live |-> live, captured |-> op[t].wanted,
             n |-> IF resident = None THEN 0 ELSE resident.n,
             units |-> [name \in DOMAIN probes |-> {}], reads |-> {}]
  /\ Become(t, [Idle EXCEPT !.at = "decode"])
  /\ UNCHANGED <<Residency, probes, live, digests, gpu, begun>>

\* _resolve_max_act of a bound run: the unit it was bound with.
\* Mutant: a missing one is looked up, as between generations.
_resolve_max_act_Live(spec) == IF spec.max_act # None THEN spec.max_act ELSE max_act(spec.feature)
_resolve_max_act(spec) == spec.max_act

\* One step's readings: pinned probes at the resident layer, live discovery at
\* its own, each only from a layer the capture holds.
Measure(t) ==
  /\ At(t, "decode") /\ resident # None
  /\ LET pinned == IF run.specs # <<>> THEN {resident.layer} \cap run.captured ELSE {}
         found == IF run.live # None THEN {run.live.layer} \cap run.captured ELSE {}
     IN run' = [run EXCEPT
          !.reads = @ \cup {[layer |-> l, by |-> resident.layer, n |-> resident.n] :
                              l \in pinned \cup found},
          !.units = [name \in DOMAIN run.specs |-> IF pinned = {} THEN @[name]
                       ELSE @[name] \cup {_resolve_max_act(run.specs[name])}]]
  /\ run' # run
  /\ UNCHANGED <<Residency, probes, live, digests, gpu, op, begun>>

\* finalize_gen: also after a step that failed.
close_run(t) ==
  /\ At(t, "decode") /\ run' = None /\ Leave /\ End(t)
  /\ UNCHANGED <<Residency, probes, live, digests, begun>>

SaeNext ==
  \/ OtherProcess
  \/ \E t \in SaeThreads :
       \/ LoadBegin(t) \/ LoadFails(t) \/ LoadPublish(t) \/ LoadSwap(t) \/ Unload(t)
       \/ TrainBegin(t) \/ TrainSaves(t) \/ TrainFails(t) \/ TrainLoads(t) \/ TrainRefused(t)
       \/ Restart(t)
       \/ Ask(t) \/ Fetched(t) \/ Attach(t) \/ AttachRefused(t) \/ try_detach(t) \/ Changed(t)
       \/ HashRead(t) \/ HashStore(t)
       \/ enable_live(t) \/ EnabledLive(t) \/ disable_live(t)
       \/ Generate(t) \/ register_direction(t) \/ Plan(t) \/ bind(t) \/ Measure(t) \/ close_run(t)

SaeSpec == SaeInit /\ [][SaeNext]_saeVars

---------------------------------------------------------------------------
(* Properties.                                                             *)

OfTheResident(n, layer) == resident # None /\ resident.n = n /\ resident.layer = layer

\* A swap leaves nothing that a feature id of the old dictionary is in: probes,
\* the live config and registered directions name the resident one.  What was
\* validated before a swap and inserted after it (`late`) is the exception the
\* README describes; the next swap takes it away too.
NothingOutlivesItsDictionary ==
  /\ \A name \in DOMAIN probes : LET spec == probes[name] IN
       spec.late \/ (OfTheResident(spec.n, spec.layer) /\ spec.feature \in WidthOf[resident.release])
  /\ live # None => live.late \/ (resident # None /\ live.layer = resident.layer
                                  /\ live.source = resident.release)
  /\ \A f \in DOMAIN directions : resident # None /\ directions[f] = resident.n
                                  /\ f \in WidthOf[resident.release]

UnitsIn(meta) == {meta[f].unit : f \in DOMAIN meta}
UnitsOf(specs) == {specs[name].max_act : name \in {m \in DOMAIN specs : ~specs[m].late}}

\* A probe's strength is divided by the maximum of its own feature: no metadata
\* of another release, or of another layer of the same one, reaches the cache,
\* the disk, a probe or a run, whenever a fetch comes back.
UnitsAreOfTheirDictionary ==
  /\ resident # None =>
       UnitsIn(resident.meta) \cup UnitsOf(probes) \subseteq {None, DictionaryOf(resident)}
  /\ \A r \in DOMAIN source.features :
       UnitsIn(source.features[r].rows) \subseteq {None, Dictionary(r, source.features[r].layer)}
  /\ run # None /\ resident # None => UnitsOf(run.specs) \subseteq {None, DictionaryOf(resident)}

\* A generation reads with one dictionary and one unit per probe, though
\* metadata arrives and probes, live switch and digests change beside it.
OneMeasurePerGeneration ==
  run # None =>
    /\ \A name \in DOMAIN run.units : Cardinality(run.units[name]) <= 1
    /\ \A read \in run.reads :
         /\ read.n = run.n
         /\ read.layer = read.by \/ (run.live # None /\ run.live.late)

\* A cached digest says what the probe's readings mean now: a unit that arrives,
\* a swap or a re-attachment drops it.  A digest stored after such a change but
\* computed before it (`late`) is the exception the README describes.
DigestIsCurrent ==
  \A name \in DOMAIN digests \cap DOMAIN probes :
    \/ digests[name].late
    \/ \E t \in SaeThreads : At(t, "changed") /\ op[t].name = name
    \/ digests[name].is = Identity(name)

\* Whatever is derived from the resident dictionary is derived from that one,
\* and a generation sees one of it.
DictionaryIsOne ==
  /\ NothingOutlivesItsDictionary /\ UnitsAreOfTheirDictionary
  /\ OneMeasurePerGeneration /\ DigestIsCurrent

\* A restart brings back the dictionary that was resident, at its layer, unless
\* another process selected or removed one.
RestartRestoresTheDictionary ==
  [][\A t \in SaeThreads :
       At(t, "swap") /\ op[t].expect # None /\ resident # resident' =>
         DictionaryOf(resident') = op[t].expect]_saeVars

---------------------------------------------------------------------------
(* The inductive invariant.                                                *)

IsSource ==
  source = [active |-> source.active, binding |-> source.binding,
            features |-> source.features, trained |-> source.trained]
IsOp(o) ==
  o = [at |-> o.at, res |-> o.res, release |-> o.release, layer |-> o.layer, name |-> o.name,
       wanted |-> o.wanted, feature |-> o.feature, entry |-> o.entry, digest |-> o.digest,
       expect |-> o.expect]
IsSpec(spec) ==
  spec = [feature |-> spec.feature, layer |-> spec.layer, max_act |-> spec.max_act,
          n |-> spec.n, late |-> spec.late]
IsRun(x) ==
  x = [specs |-> x.specs, live |-> x.live, captured |-> x.captured, n |-> x.n,
       units |-> x.units, reads |-> x.reads]

\* The shape of the state; on disk are layers that their releases have.
OpShape ==
  /\ loaded \in Nat /\ gpu \in SaeThreads \cup {None}
  /\ op = [t \in SaeThreads |-> op[t]] /\ \A t \in SaeThreads : IsOp(op[t])
ResidentShape ==
  resident # None => /\ resident \in Residencies /\ resident.n \in 1..loaded
                     /\ resident.layer \in LayersOf[resident.release]
SourceShape ==
  /\ IsSource /\ source.trained \subseteq Local
  /\ \A r \in DOMAIN source.binding : r \in Provider /\ source.binding[r] \in LayersOf[r]
  /\ \A r \in DOMAIN source.features : source.features[r].rows \in Metas
SpecShape == \A name \in DOMAIN probes : IsSpec(probes[name])

\* One thread is in the exclusive section, and a run is bound while it decodes.
InSection == {"load", "swap", "train", "compose", "bind", "decode"}
SectionInv ==
  /\ \A t \in SaeThreads : op[t].at \in InSection => gpu = t
  /\ run # None => \E t \in SaeThreads : At(t, "decode")

\* What a thread took with it still means what it meant: the residency it read
\* keeps its release and layer, the feature is one of it, a unit is of it.
Carried(o) ==
  /\ o.at \in {"fetch", "attach", "live"} =>
       /\ o.res \in Residencies /\ o.res.n \in 1..loaded
       /\ Current(o.res) => DictionaryOf(resident) = DictionaryOf(o.res)
  /\ o.at = "fetch" => o.wanted \subseteq Features
  /\ o.at = "attach" \/ (o.at = "fetch" /\ o.name # None) =>
       /\ o.layer = o.res.layer /\ o.feature \in WidthOf[o.res.release]
       /\ o.entry \in {None, DictionaryOf(o.res)}
  /\ o.at \in {"load", "swap"} => o.release \in Releases /\ o.layer \in LayersOf[o.release]
  /\ o.at = "swap" =>
       o.entry \in Metas /\ UnitsIn(o.entry) \subseteq {None, Dictionary(o.release, o.layer)}
  /\ o.at \in {"train", "trained"} => o.release \in Local
CarriedInv == \A t \in SaeThreads : Carried(op[t])

\* The run in flight, with the notes of what it has measured.
RunInv ==
  (\E t \in SaeThreads : At(t, "decode")) =>
    /\ IsRun(run) /\ DOMAIN run.units = DOMAIN run.specs
    /\ resident # None =>
         /\ run.n = resident.n /\ UnitsOf(run.specs) \subseteq {None, DictionaryOf(resident)}
         /\ run.live # None => run.live.late \/ run.live.layer = resident.layer
    /\ \A name \in DOMAIN run.units : run.units[name] \subseteq {run.specs[name].max_act}
    /\ \A read \in run.reads :
         /\ read.n = run.n
         /\ read.layer = read.by \/ (run.live # None /\ run.live.late)

\* The selection on disk is of the resident dictionary, or of the one about to be
\* swapped in, and a restart asks for what was resident before it.
Selects(r, l) ==
  /\ source.active = r
  /\ r \notin Local => r \in DOMAIN source.binding /\ source.binding[r] = l
SelectionInv ==
  /\ \A t \in SaeThreads :
       /\ op[t].at \in {"load", "swap"} /\ op[t].expect # None =>
            resident = None /\ op[t].expect = Dictionary(op[t].release, op[t].layer)
       /\ op[t].at \in {"train", "trained"} => op[t].expect = None
  /\ ~elsewhere =>
       /\ \A t \in SaeThreads : At(t, "swap") => Selects(op[t].release, op[t].layer)
       /\ resident # None /\ (\A t \in SaeThreads : ~At(t, "swap")) =>
            Selects(resident.release, resident.layer)

SaeInv == /\ OpShape /\ ResidentShape /\ SourceShape /\ SpecShape
          /\ SectionInv /\ CarriedInv /\ SelectionInv /\ RunInv
          /\ NothingOutlivesItsDictionary /\ UnitsAreOfTheirDictionary /\ DigestIsCurrent
=============================================================================
