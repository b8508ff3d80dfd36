------------------------------ MODULE FitCapture ------------------------------
(***************************************************************************)
(* A manifold fit, from its request to the pair it publishes.              *)
(*                                                                         *)
(*   drowse/fit/pipeline.py       ManifoldExtractionPipeline, FitInputs    *)
(*   drowse/fit/capture_cache.py  CaptureCache                             *)
(*   drowse/fit/node_stats.py     compute_manifold_node_stats              *)
(*   drowse/fit/capture.py        the batched capture forward, DLS         *)
(*   drowse/fit/preflight.py      the proof that a fit would do nothing    *)
(*   drowse/fit/neutral.py, drowse/store/neutral.py                        *)
(*   drowse/session/neutral.py    NeutralBaseline                          *)
(*                                                                         *)
(* Several sessions fit at once.  What they share is the disk: folders,    *)
(* published pairs, one capture cache and one neutral cache per model.     *)
(* The folder's own transactions, with their crashes, are ManifoldStore's: *)
(* here the snapshot and the compare-and-swap are one step each.           *)
(***************************************************************************)
EXTENDS Integers, Sequences, FiniteSets, TLC, Functions, SequencesExt

CONSTANTS
  Fitters,          \* sessions that fit
  FitFolders,       \* manifold folders
  Specs,            \* what a folder may be authored as: a corpus and a fit mode
  RowsOf,           \* rows of each corpus
  ModelLayers,      \* layers of the model
  Covered,          \* layers an SAE release covers, by release
  Requests,         \* what a fit may be asked for
  BatchMax,         \* _CAPTURE_BATCH_MAX
  CacheLimit,       \* shards the capture cache keeps
  MaxFits,          \* bound: fits begun
  MaxChanges,       \* bound: edits of what fits read
  MaxMishaps,       \* bound: crashes, damaged files, failed writes, memory that runs out
  Missing           \* no file, no value

ASSUME FitCaptureAssumption ==
  /\ \A s \in Specs : s.mode \in {"pca", "authored", "spectral", "auto"}
  /\ BatchMax \in Nat \ {0} /\ CacheLimit \in Nat
  /\ MaxFits \in Nat /\ MaxChanges \in Nat /\ MaxMishaps \in Nat

VARIABLES
  authored,     \* each folder's authoring
  texts,        \* the baseline prompts and the neutral corpus in force
  checkpoint,   \* the weights the model id loads
  published,    \* each target's pair, or Missing
  shards,       \* the capture cache: content by identity, kind and layer
  written,      \* identities by last write, oldest first
  ncache,       \* the neutral cache, or Missing
  session,      \* each fitter: its loaded weights and its neutral baseline, and (history)
                \* whether a whitener ever failed to build from what it had loaded
  fit,          \* each fitter's fit in progress, or Missing
  rowsWanted,   \* history: identities some fit needed the rows of
  spent         \* bounds used up

fitVars == <<authored, texts, checkpoint, published, shards, written, ncache, session, fit,
             rowsWanted, spent>>

-----------------------------------------------------------------------------
\* What a fit is keyed on.

Release(req) == IF req.sae = Missing THEN "raw" ELSE req.sae.release
Target(req) == <<req.folder, Release(req)>>
Explicit(req) == req.scope # Missing
Requested(req) == IF Explicit(req) THEN req.scope ELSE ModelLayers

\* The rendered rows of a corpus under its prompts, and the weights that read them.
CaptureIdentity(spec, prompts, weights) ==
  [corpus |-> spec.corpus, prompts |-> prompts, weights |-> weights]

FitInputs(req, spec, prompts, loaded) ==
  [req |-> req, spec |-> spec, prompts |-> prompts, loaded |-> loaded,
   id |-> CaptureIdentity(spec, prompts, loaded.weights)]

\* What the sidecar of a fit over these layers says.
base_metadata(in, layers) ==
  [spec |-> in.spec, capture |-> in.id, weights |-> in.loaded.weights, source |-> in.loaded.source,
   release |-> Release(in.req), evaluated |-> layers,
   fingerprint |-> IF in.req.sae = Missing THEN Missing ELSE in.req.sae.fingerprint,
   revision |-> IF in.req.sae = Missing THEN Missing ELSE in.req.sae.revision,
   full |-> in.req.sae # Missing /\ ~Explicit(in.req)]

accepts_AnyScope(in, side) ==
  side.spec = in.spec /\ side.capture = in.id /\ side.release = Release(in.req)
accepts_AnyPrompts(in, side) ==
  /\ side.spec = in.spec /\ side.weights = in.loaded.weights /\ side.release = Release(in.req)
  /\ in.req.sae = Missing /\ side.evaluated = Requested(in.req)
accepts(in, side) ==
  /\ side.spec = in.spec /\ side.weights = in.loaded.weights
  /\ side.capture = in.id /\ side.release = Release(in.req)
  /\ IF in.req.sae = Missing THEN side.revision = Missing /\ side.evaluated = Requested(in.req)
     ELSE /\ side.fingerprint = in.req.sae.fingerprint
          /\ in.req.sae.revision # Missing => side.revision = in.req.sae.revision
          /\ IF Explicit(in.req) THEN side.evaluated = Requested(in.req) ELSE side.full

\* The layers a fit covers; none when the release does not cover what was asked.
fit_layers(in) ==
  IF in.req.sae = Missing THEN Requested(in.req)
  ELSE IF ~Explicit(in.req) THEN Covered[in.req.sae.release] \cap ModelLayers
  ELSE IF Requested(in.req) \subseteq Covered[in.req.sae.release] THEN Requested(in.req) ELSE {}

-----------------------------------------------------------------------------
\* The proof, without the model, that a raw fit would do nothing.

LoadOf(source) == [weights |-> source, source |-> source]

\* The neutral cache binds a checkpoint's source to the weights it loads as.
ProvenWeights ==
  IF ncache # Missing /\ ncache.sound /\ ncache.source = checkpoint THEN ncache.weights ELSE Missing

preflight_NoPrompts(folder, scope) ==
  LET side == published[<<folder, "raw">>] IN
  /\ ProvenWeights # Missing /\ side # Missing
  /\ side.spec = authored[folder] /\ side.weights = ProvenWeights /\ side.source = checkpoint
  /\ side.evaluated = scope
preflight(folder, scope) ==
  LET side == published[<<folder, "raw">>] IN
  /\ ProvenWeights # Missing /\ side # Missing
  /\ side.spec = authored[folder] /\ side.weights = ProvenWeights /\ side.source = checkpoint
  /\ side.capture.corpus = authored[folder].corpus /\ side.capture.prompts = texts.prompts
  /\ side.evaluated = scope

-----------------------------------------------------------------------------
\* Bounds.

Spend(kind, most) == spent[kind] < most /\ spent' = [spent EXCEPT ![kind] = @ + 1]
Mishap == Spend("mishaps", MaxMishaps)

-----------------------------------------------------------------------------
\* The neutral baseline of a session: means and whitener of one load.

Neutral(weights) == [text |-> texts.neutral, weights |-> weights]

neutral_cache_matches_AnyWeights(loaded) ==
  ncache # Missing /\ ncache.sound /\ ncache.text = texts.neutral
neutral_cache_matches(loaded) ==
  /\ ncache # Missing /\ ncache.sound /\ ncache.text = texts.neutral
  /\ ncache.weights = loaded.weights /\ ncache.source = loaded.source

\* A cache written for a model without a known source does not validate again.
publish_neutral_cache(loaded) ==
  [text |-> texts.neutral, weights |-> loaded.weights, source |-> loaded.source,
   sound |-> loaded.source # Missing]

\* What the matching cache, or a capture of the neutral corpus, gives.
Activations(loaded) ==
  IF neutral_cache_matches(loaded) THEN [text |-> ncache.text, weights |-> ncache.weights]
  ELSE Neutral(loaded.weights)

HasBaseline(s) == s.means # Missing /\ s.whitener # Missing

\* Means and whitener of one load; but means are kept once built, and a whitener that
\* failed is built again at the next call, from what is loaded then.
ensure(p) ==
  LET s == session[p]
      acts == Activations(s.loaded)
      Built(builds) ==
        [s EXCEPT !.means = IF @ = Missing THEN acts ELSE @,
                  !.whitener = IF @ # Missing \/ ~builds THEN @ ELSE acts,
                  !.unbuilt = @ \/ ~builds]
  IN \/ HasBaseline(s) /\ UNCHANGED <<session, ncache, spent>>
     \/ \E builds \in BOOLEAN :
          /\ ~HasBaseline(s) /\ IF builds THEN UNCHANGED spent ELSE Mishap
          /\ ncache' = IF neutral_cache_matches(s.loaded) THEN ncache ELSE publish_neutral_cache(s.loaded)
          /\ session' = [session EXCEPT ![p] = Built(builds)]
     \/ ~HasBaseline(s) /\ Mishap /\ UNCHANGED <<session, ncache>>

-----------------------------------------------------------------------------
\* Stages of a fit.

At(p, phases) == fit[p] # Missing /\ fit[p].phase \in phases
Only(p, f) == fit' = [fit EXCEPT ![p] = f]
Ends(p) == Only(p, Missing)
Rows(id) == 1..RowsOf[id.corpus]
Whole(content, id) == content.id = id /\ ~content.torn /\ \A r \in Rows(id) : content.counts[r] = 1
NoLayer == [l \in {} |-> Missing]
Over(a, b) == [l \in DOMAIN a \cup DOMAIN b |-> IF l \in DOMAIN a THEN a[l] ELSE b[l]]

\* Under the target's lock: the request's mode goes into the folder, and the fit
\* works from one authoring revision.
take_authoring_snapshot(p) ==
  \E req \in Requests :
    /\ fit[p] = Missing /\ session[p].loaded # Missing /\ Spend("fits", MaxFits)
    /\ \A q \in Fitters : fit[q] # Missing => Target(fit[q].in.req) # Target(req)
    /\ req.mode # Missing => authored[req.folder].mode # "authored"
    /\ LET spec == IF req.mode = Missing THEN authored[req.folder]
                   ELSE [authored[req.folder] EXCEPT !.mode = req.mode]
       IN /\ authored' = [authored EXCEPT ![req.folder] = spec]
          /\ Only(p, [phase |-> "inputs", in |-> FitInputs(req, spec, texts.prompts, session[p].loaded),
                      stacks |-> NoLayer, rows |-> NoLayer, durable |-> {}, pass |-> Missing,
                      saves |-> <<>>, doomed |-> {}, kept |-> {}, curved |-> FALSE])
    /\ UNCHANGED <<texts, checkpoint, published, shards, written, ncache, session, rowsWanted>>

Current(in) == authored[in.req.folder] = in.spec /\ texts.prompts = in.prompts

Serves(in) ==
  ~in.req.force /\ published[Target(in.req)] # Missing /\ accepts(in, published[Target(in.req)])

load_published_fit(p) ==
  LET in == fit[p].in IN
  /\ At(p, {"inputs"}) /\ Serves(in)
  /\ Only(p, [fit[p] EXCEPT !.phase = "served"])
  /\ UNCHANGED <<authored, texts, checkpoint, published, shards, written, ncache, session, rowsWanted, spent>>

\* Returned if the authoring is still the one that was asked about, refused if not.
assert_authoring_revision(p) ==
  /\ At(p, {"served"})
  /\ Ends(p)
  /\ UNCHANGED <<authored, texts, checkpoint, published, shards, written, ncache, session, rowsWanted, spent>>

\* Coverage, then the baseline, before any pass of the model.
require_neutral_baseline(p) ==
  LET in == fit[p].in IN
  /\ At(p, {"inputs"}) /\ ~Serves(in)
  /\ IF fit_layers(in) = {} THEN Ends(p) /\ UNCHANGED <<session, ncache, spent>>
     ELSE /\ ensure(p)
          /\ IF HasBaseline(session'[p]) THEN Only(p, [fit[p] EXCEPT !.phase = "capture"]) ELSE Ends(p)
  /\ UNCHANGED <<authored, texts, checkpoint, published, shards, written, rowsWanted>>

-----------------------------------------------------------------------------
\* Capture: what the cache has, and one pass of the model over the rest.

CapturePhases == {"forward", "save"}
Capturing(p, id) ==
  \A q \in Fitters \ {p} : At(q, CapturePhases) => fit[q].in.id # id

\* A shard that is missing, torn or of another identity is a miss.
Reads_Unchecked(id, kind, layers) ==
  [l \in { m \in layers : <<id, kind, m>> \in DOMAIN shards /\ ~shards[<<id, kind, m>>].torn } |->
     shards[<<id, kind, l>>]]
Reads(id, kind, layers) ==
  [l \in { m \in layers : /\ <<id, kind, m>> \in DOMAIN shards
                          /\ ~shards[<<id, kind, m>>].torn /\ shards[<<id, kind, m>>].id = id } |->
     shards[<<id, kind, l>>]]

NewPass(layers, rows, id) ==
  [layers |-> layers, retains |-> rows, start |-> 0, batch |-> BatchMax, counts |-> [r \in Rows(id) |-> 0]]

retain_rows(in) == in.req.sae = Missing /\ in.spec.mode # "pca"

RowLayers_All(in, stacks) == fit_layers(in)
RowLayers(in, stacks) == DOMAIN stacks

capture(p) ==
  LET in == fit[p].in
      stacks == IF in.req.force THEN NoLayer ELSE Reads(in.id, "centroids", fit_layers(in))
      rows == IF retain_rows(in) /\ ~in.req.force THEN Reads(in.id, "rows", RowLayers(in, stacks)) ELSE NoLayer
      needed == (fit_layers(in) \ DOMAIN stacks) \cup
                (IF retain_rows(in) /\ in.spec.mode # "auto" THEN fit_layers(in) \ DOMAIN rows ELSE {})
      found == [fit[p] EXCEPT !.stacks = stacks, !.rows = rows, !.durable = DOMAIN rows]
  IN /\ At(p, {"capture"}) /\ Capturing(p, in.id)
     /\ Only(p, IF needed = {} THEN [found EXCEPT !.phase = "prune"]
                ELSE [found EXCEPT !.phase = "forward", !.pass = NewPass(needed, retain_rows(in), in.id)])
     /\ rowsWanted' = IF retain_rows(in) /\ in.spec.mode # "auto" THEN rowsWanted \cup {in.id} ELSE rowsWanted
     /\ UNCHANGED <<authored, texts, checkpoint, published, shards, written, ncache, session, spent>>

\* One batch is pooled and added to its nodes' sums, and its rows to the spool.
Chunk(pass, id) ==
  { r \in Rows(id) : pass.start < r /\ r <= pass.start + pass.batch }
Pooled(pass, chunk) ==
  [pass EXCEPT !.start = @ + Cardinality(chunk),
               !.counts = [r \in DOMAIN @ |-> IF r \in chunk THEN @[r] + 1 ELSE @[r]]]

PoolBatch(p) ==
  LET in == fit[p].in IN
  /\ At(p, {"forward"}) /\ fit[p].pass.start < RowsOf[in.id.corpus]
  /\ Only(p, [fit[p] EXCEPT !.pass = Pooled(@, Chunk(@, in.id))])
  /\ UNCHANGED <<authored, texts, checkpoint, published, shards, written, ncache, session, rowsWanted, spent>>

\* Memory runs out in the forward: the same rows again in batches of half the size.
Halved_Skips(pass) == [pass EXCEPT !.start = @ + pass.batch, !.batch = @ \div 2]
Halved(pass) == [pass EXCEPT !.batch = @ \div 2]
OutOfMemory(p) ==
  /\ At(p, {"forward"}) /\ fit[p].pass.start < RowsOf[fit[p].in.id.corpus] /\ Mishap
  /\ IF fit[p].pass.batch <= 1 THEN Ends(p) ELSE Only(p, [fit[p] EXCEPT !.pass = Halved(@)])
  /\ UNCHANGED <<authored, texts, checkpoint, published, shards, written, ncache, session, rowsWanted>>

Sorted(layers) == SetToSortSeq(layers, LAMBDA a, b : a < b)
SavesOf(kind, layers) == [i \in 1..Cardinality(layers) |-> <<kind, Sorted(layers)[i]>>]

\* A pass for centroids writes them, and rows unless they may not be needed; a pass
\* of a curved fit writes every row layer that is not on disk yet.
SavesAfter_Spool(f, fresh) ==
  SavesOf("centroids", f.pass.layers) \o SavesOf("rows", DOMAIN fresh)
SavesAfter(f, fresh) ==
  IF f.curved THEN SavesOf("rows", DOMAIN fresh \ f.durable)
  ELSE SavesOf("centroids", f.pass.layers) \o
       (IF f.in.spec.mode # "auto" THEN SavesOf("rows", DOMAIN fresh) ELSE <<>>)

\* The row stores of one fit may not hold the same layer twice.
PassEnds(p) ==
  LET f == fit[p]
      content == [id |-> f.in.id, counts |-> f.pass.counts, torn |-> FALSE]
      fresh == [l \in f.pass.layers |-> content]
      newRows == IF f.pass.retains THEN fresh ELSE NoLayer
      overlaps == DOMAIN newRows \cap DOMAIN f.rows # {}
      g == [f EXCEPT !.stacks = IF f.curved THEN @ ELSE Over(fresh, @),
                     !.rows = Over(newRows, @), !.pass = Missing]
  IN /\ At(p, {"forward"}) /\ f.pass.start >= RowsOf[f.in.id.corpus]
     /\ Only(p, IF overlaps THEN [f EXCEPT !.phase = "clash"]
                ELSE [g EXCEPT !.phase = "save",
                               !.saves = SavesAfter(f, IF f.curved THEN g.rows ELSE newRows)])
     /\ UNCHANGED <<authored, texts, checkpoint, published, shards, written, ncache, session, rowsWanted, spent>>

Touched(id) == Append(SelectSeq(written, LAMBDA x : x # id), id)
After(f) == IF f.curved THEN "publish" ELSE "prune"

SaveShard(p) ==
  LET f == fit[p]
      kind == Head(f.saves)[1]
      layer == Head(f.saves)[2]
      content == IF kind = "rows" THEN f.rows[layer] ELSE f.stacks[layer]
  IN /\ At(p, {"save"}) /\ f.saves # <<>>
     /\ shards' = [k \in DOMAIN shards \cup {<<f.in.id, kind, layer>>} |->
                     IF k = <<f.in.id, kind, layer>> THEN content ELSE shards[k]]
     /\ written' = Touched(f.in.id)
     /\ Only(p, [f EXCEPT !.saves = Tail(@), !.durable = IF kind = "rows" THEN @ \cup {layer} ELSE @])
     /\ UNCHANGED <<authored, texts, checkpoint, published, ncache, session, rowsWanted, spent>>

\* A write that fails costs the next fit a capture, never this one.
SavesEnd(p) ==
  /\ At(p, {"save"})
  /\ IF fit[p].saves = <<>> THEN UNCHANGED spent ELSE Mishap
  /\ Only(p, [fit[p] EXCEPT !.saves = <<>>, !.phase = After(fit[p])])
  /\ UNCHANGED <<authored, texts, checkpoint, published, shards, written, ncache, session, rowsWanted>>

-----------------------------------------------------------------------------
\* The bound of the cache: whole identities, least recently written first, never its own.

ShardsOf(id) == { k \in DOMAIN shards : k[1] = id }
Victims(own) ==
  LET others == SelectSeq(written, LAMBDA id : id # own /\ ShardsOf(id) # {})
      Left(n) == Cardinality(DOMAIN shards)
                 - Cardinality(UNION { ShardsOf(others[i]) : i \in 1..n })
      enough == { n \in 0..Len(others) : Left(n) <= CacheLimit }
      n == IF enough = {} THEN Len(others) ELSE CHOOSE i \in enough : \A j \in enough : i <= j
  IN UNION { ShardsOf(others[i]) : i \in 1..n }

\* Without a lock: what the scan saw goes, file by file.
prune(p) ==
  /\ At(p, {"prune"})
  /\ Only(p, [fit[p] EXCEPT !.doomed = Victims(fit[p].in.id), !.phase = "evict"])
  /\ UNCHANGED <<authored, texts, checkpoint, published, shards, written, ncache, session, rowsWanted, spent>>

Evict(p) ==
  /\ At(p, {"evict"})
  /\ IF fit[p].doomed = {}
     THEN Only(p, [fit[p] EXCEPT !.phase = "geometry"]) /\ UNCHANGED shards
     ELSE LET key == CHOOSE k \in fit[p].doomed : TRUE IN
          /\ shards' = [k \in DOMAIN shards \ {key} |-> shards[k]]
          /\ Only(p, [fit[p] EXCEPT !.doomed = @ \ {key}])
  /\ UNCHANGED <<authored, texts, checkpoint, published, written, ncache, session, rowsWanted, spent>>

-----------------------------------------------------------------------------
\* Geometry: flat, with the layers whose axes straddle neutral, or curved; or too
\* few nodes for what was derived.

Resolves(mode) == CASE mode = "pca" -> {FALSE} [] mode = "auto" -> BOOLEAN [] OTHER -> {TRUE}
compute_dls_axes(in) ==
  IF in.req.dls THEN (SUBSET fit_layers(in)) \ {{}} ELSE {fit_layers(in)}

resolve_fit_geometry(p) ==
  LET f == fit[p] IN
  /\ At(p, {"geometry"})
  /\ \/ \E curved \in Resolves(f.in.spec.mode) :
        \E kept \in IF curved THEN {fit_layers(f.in)} ELSE compute_dls_axes(f.in) :
          LET needsRows == curved /\ f.in.req.sae = Missing IN
          /\ Only(p, [f EXCEPT !.kept = kept, !.curved = needsRows,
                               !.rows = IF needsRows THEN @ ELSE NoLayer,
                               !.phase = IF needsRows THEN "sigma" ELSE "publish"])
          /\ rowsWanted' = IF needsRows THEN rowsWanted \cup {f.in.id} ELSE rowsWanted
     \/ Ends(p) /\ UNCHANGED rowsWanted
  /\ UNCHANGED <<authored, texts, checkpoint, published, shards, written, ncache, session, spent>>

\* A raw curved fit reads rows at every layer: the missing ones take one more pass.
curved_rows(p) ==
  LET f == fit[p]
      missing == f.kept \ DOMAIN f.rows
  IN /\ At(p, {"sigma"}) /\ Capturing(p, f.in.id)
     /\ Only(p, IF missing = {}
                THEN [f EXCEPT !.phase = "save", !.saves = SavesOf("rows", DOMAIN f.rows \ f.durable)]
                ELSE [f EXCEPT !.phase = "forward", !.pass = NewPass(missing, TRUE, f.in.id)])
     /\ UNCHANGED <<authored, texts, checkpoint, published, shards, written, ncache, session, rowsWanted, spent>>

\* All a fit is computed from: the request, the authoring, the load and its baseline.
ComputedFrom(in, s) ==
  [spec |-> in.spec, prompts |-> in.prompts, weights |-> in.loaded.weights,
   release |-> Release(in.req), layers |-> fit_layers(in),
   fingerprint |-> IF in.req.sae = Missing THEN Missing ELSE in.req.sae.fingerprint,
   dls |-> in.req.dls, means |-> s.means, whitener |-> s.whitener]

\* The pair, with what each part of it was computed from.
Fitted(p) ==
  LET f == fit[p] IN
  base_metadata(f.in, fit_layers(f.in)) @@
  ("fitted" :> f.kept) @@ ("centroids" :> Restrict(f.stacks, f.kept)) @@
  ("sigma" :> IF f.curved THEN Restrict(f.rows, f.kept) ELSE NoLayer) @@
  ("from" :> ComputedFrom(f.in, session[p])) @@ ("unbuilt" :> session[p].unbuilt) @@
  ("by" :> f.in.req)

publish_fit_if_current(p) ==
  LET in == fit[p].in IN
  /\ At(p, {"publish"})
  /\ published' = IF Current(in) THEN [published EXCEPT ![Target(in.req)] = Fitted(p)] ELSE published
  /\ Ends(p)
  /\ UNCHANGED <<authored, texts, checkpoint, shards, written, ncache, session, rowsWanted, spent>>

-----------------------------------------------------------------------------
\* Around the fits.

Unloaded == [loaded |-> Missing, means |-> Missing, whitener |-> Missing, unbuilt |-> FALSE]

\* A session loads the checkpoint, or weights of its own under the same model id.
Load(p) ==
  /\ fit[p] = Missing /\ session[p].loaded = Missing
  /\ \E loaded \in {LoadOf(checkpoint), [weights |-> 0, source |-> Missing]} :
       session' = [session EXCEPT ![p].loaded = loaded]
  /\ UNCHANGED <<authored, texts, checkpoint, published, shards, written, ncache, fit, rowsWanted, spent>>

\* Locks and spools go with the process; files stay.
Crash(p) ==
  /\ fit[p] # Missing /\ Mishap
  /\ Ends(p) /\ session' = [session EXCEPT ![p] = Unloaded]
  /\ UNCHANGED <<authored, texts, checkpoint, published, shards, written, ncache, rowsWanted>>

\* A folder is authored anew, a prompt or neutral file is overridden, the checkpoint is
\* replaced under its name.
Edited ==
  /\ Spend("changes", MaxChanges)
  /\ \/ \E f \in FitFolders, s \in Specs :
          authored' = [authored EXCEPT ![f] = s] /\ UNCHANGED <<texts, checkpoint>>
     \/ \E name \in {"prompts", "neutral"} :
          texts' = [texts EXCEPT ![name] = 3 - @] /\ UNCHANGED <<authored, checkpoint>>
     \/ checkpoint' = 3 - checkpoint /\ UNCHANGED <<authored, texts>>
  /\ UNCHANGED <<published, shards, written, ncache, session, fit, rowsWanted>>

\* A file is torn, or one is found under another identity's name.
Damaged ==
  /\ Mishap
  /\ \/ \E k \in DOMAIN shards :
          shards' = [shards EXCEPT ![k].torn = TRUE] /\ UNCHANGED <<written, ncache>>
     \/ \E k \in DOMAIN shards, f \in FitFolders :
          LET wrong == <<CaptureIdentity(authored[f], texts.prompts, checkpoint), k[2], k[3]>> IN
          /\ shards' = Over(wrong :> shards[k], shards) /\ written' = Touched(wrong[1])
          /\ UNCHANGED ncache
     \/ ncache # Missing /\ ncache' = [ncache EXCEPT !.sound = FALSE] /\ UNCHANGED <<shards, written>>
  /\ UNCHANGED <<authored, texts, checkpoint, published, session, fit, rowsWanted>>

FitCaptureInit ==
  /\ authored \in [FitFolders -> Specs]
  /\ texts = [prompts |-> 1, neutral |-> 1] /\ checkpoint = 1
  /\ published = [t \in FitFolders \X ({"raw"} \cup DOMAIN Covered) |-> Missing]
  /\ shards = [k \in {} |-> Missing] /\ written = <<>> /\ ncache = Missing
  /\ session = [p \in Fitters |-> [Unloaded EXCEPT !.loaded = LoadOf(1)]]
  /\ fit = [p \in Fitters |-> Missing]
  /\ rowsWanted = {} /\ spent = [fits |-> 0, changes |-> 0, mishaps |-> 0]

FitCaptureNext ==
  \/ \E p \in Fitters :
       \/ take_authoring_snapshot(p) \/ load_published_fit(p) \/ assert_authoring_revision(p)
       \/ require_neutral_baseline(p)
       \/ capture(p) \/ PoolBatch(p) \/ OutOfMemory(p) \/ PassEnds(p) \/ SaveShard(p) \/ SavesEnd(p)
       \/ prune(p) \/ Evict(p)
       \/ resolve_fit_geometry(p) \/ curved_rows(p) \/ publish_fit_if_current(p)
       \/ Load(p) \/ Crash(p)
  \/ Edited \/ Damaged
-----------------------------------------------------------------------------
\* Properties.

\* Every published layer comes from its own identity, each row counted once, whatever
\* was cached, torn, evicted or captured again on the way.  Its means and its whitener
\* are of the weights that were fitted, and of one neutral text unless a whitener of
\* this session failed, after which old means meet a whitener of the text then in force.
Sound(side) ==
  /\ \A l \in side.fitted :
       /\ l \in DOMAIN side.centroids /\ Whole(side.centroids[l], side.capture)
       /\ side.sigma # NoLayer => l \in DOMAIN side.sigma /\ Whole(side.sigma[l], side.capture)
  /\ side.from.means.weights = side.weights /\ side.from.whitener.weights = side.weights
  /\ side.from.means # side.from.whitener => side.unbuilt

\* The rows a fit spooled in case it came out curved never reach the disk when it did not.
SpoolIsNotKept == \A k \in DOMAIN shards : k[2] = "rows" => shards[k].id \in rowsWanted

\* A fit that is reused was computed from the authoring, prompts, weights, release and
\* layers that are asked for.  Reuse looks neither at dls (whether axes that do not tell
\* the nodes apart were dropped) nor at the neutral baseline: a fit of the other choice,
\* or of a neutral text no longer in force, is served as if it were the one asked for.
ReuseIgnores == {"dls", "means", "whitener"}
SameInputs(in, side) ==
  LET asked == ComputedFrom(in, Unloaded) IN
  \A x \in DOMAIN asked \ ReuseIgnores : side.from[x] = asked[x]
SameRequest(in, side) ==
  side.by.folder = in.req.folder /\ side.by.sae = in.req.sae /\ side.by.scope = in.req.scope

AcceptedIsTheFit ==
  \A p \in Fitters : fit[p] # Missing =>
    LET in == fit[p].in
        side == published[Target(in.req)]
    IN side # Missing =>
         /\ accepts(in, side) => SameInputs(in, side)
         /\ SameInputs(in, side) /\ SameRequest(in, side) => accepts(in, side)

\* What is proved without the model, a session that loaded it would accept.
ProofIsAHit ==
  \A f \in FitFolders, scope \in SUBSET ModelLayers :
    preflight(f, scope) =>
      accepts(FitInputs([folder |-> f, sae |-> Missing, scope |-> scope, mode |-> Missing, force |-> FALSE,
                         dls |-> TRUE],
                        authored[f], texts.prompts, LoadOf(checkpoint)),
              published[<<f, "raw">>])

\* A published fit is computed from whole captures of one load, and reused only where
\* all it was computed from is as asked, but for what reuse ignores (ReuseIgnores).
FitIsOfItsInputs ==
  /\ \A t \in DOMAIN published : published[t] # Missing => Sound(published[t])
  /\ \A p \in Fitters : ~At(p, {"clash"})
  /\ SpoolIsNotKept
  /\ AcceptedIsTheFit /\ ProofIsAHit
=============================================================================
