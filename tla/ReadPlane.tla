------------------------------- MODULE ReadPlane -------------------------------
(***************************************************************************)
(* What one generation measures, and at which forward.                     *)
(*                                                                         *)
(*   drowse/readout/planner.py         the demand and the capture plan     *)
(*   drowse/readout/capture_buffer.py  HiddenCapture                       *)
(*   drowse/generation/read_plane.py   begin, the step reads, finalize     *)
(*   drowse/generation/decode.py       the order of a decode step          *)
(*                                                                         *)
(* A slice is the number of the forward that produced it; a reading is the *)
(* set of <<layer, slice>> it was computed from.  The capture starts with  *)
(* what the generation before left in it.                                  *)
(***************************************************************************)
EXTENDS Integers, Sequences, SequencesExt, FiniteSetsExt

CONSTANTS
  ModelLayers,
  GeometryBand, GatedBand,  \* layers of the monitor's roster; of its gated probes
  LensBand, LiveBand,       \* layers of the pinned lens probes; of the live readout
  SaeBand,                  \* the hook layer
  AggTailDepth,             \* AGG_TAIL_DEPTH
  MaxForwards               \* max_new_tokens

ASSUME ReadPlaneAssumption ==
  /\ GeometryBand \cup LensBand \cup LiveBand \cup SaeBand \subseteq ModelLayers
  /\ GatedBand \subseteq GeometryBand
  /\ AggTailDepth \in Nat \ {0, 1} /\ MaxForwards \in Nat \ {0}

Families == {"geometry", "lens", "sae"}
Earlier == -1     \* a slice of the generation before
NoEndpoint == -2  \* no aggregate position

VARIABLES
  want,       \* the generation's consumers, rosters and gates
  capturing,  \* the capture plan in force
  buckets,    \* HiddenCapture._per_layer
  counted,    \* _forward_count
  buffers,    \* the persistent buffers
  rows,       \* the readings the step sink appended
  forwards,   \* forwards run
  generated,  \* generated_ids, each "content" or "special"
  emitted,    \* emit_map: indices of generated_ids shown to the consumer
  endpoint,   \* response_aggregate_index, "unset", or "hidden" after a stop at no visible text
  readsPc,
  gateRead, tapRead, finalReads

readsVars == <<want, capturing, buckets, counted, buffers, rows, forwards, generated,
               emitted, endpoint, readsPc, gateRead, tapRead, finalReads>>

\* clean: the compile-clean route is open, with no authored prompt rows to score.
Wants ==
  { w \in [attached : SUBSET Families, gates : SUBSET Families, live : BOOLEAN, loom : BOOLEAN,
           consumer : {"none", "scores", "layers", "subspace"}, hidden : BOOLEAN,
           readings : BOOLEAN, lensLive : BOOLEAN, saeLive : BOOLEAN,
           clean : BOOLEAN] :
      w.gates \subseteq w.attached /\ (~w.live => w.consumer = "none") }

-----------------------------------------------------------------------------
\* The demand.

per_token_full_consumer(w) == w.live /\ (w.loom \/ w.consumer # "none")
need_per_token(w) == "geometry" \in w.gates \/ per_token_full_consumer(w)
gating_only(w) == "geometry" \in w.gates /\ ~per_token_full_consumer(w)
lean_per_token(w) ==
  /\ need_per_token(w) /\ ~w.hidden /\ "geometry" \in w.attached \ w.gates
  /\ w.consumer = "none"

If(condition, layers) == IF condition THEN layers ELSE {}

GeometryLatest(w) ==
  LET consumed == "geometry" \in w.gates \/ per_token_full_consumer(w) IN
  If("geometry" \in w.attached /\ (consumed \/ w.readings),
     IF gating_only(w) /\ ~w.readings THEN GatedBand ELSE GeometryBand)

ReadPinned(w, family) == family \in w.attached /\ w.readings

\* A generation whose gated lens probes do not keep their layers captured.
LensLatest_NoGates(w) == If(w.lensLive, LiveBand) \cup If(ReadPinned(w, "lens"), LensBand)

LensLatest(w) ==
  If(w.lensLive, LiveBand) \cup If(ReadPinned(w, "lens") \/ "lens" \in w.gates, LensBand)
SaeLatest(w) == If(w.saeLive \/ ReadPinned(w, "sae") \/ "sae" \in w.gates, SaeBand)
ReadoutTail(w) == If(ReadPinned(w, "lens"), LensBand) \cup If(ReadPinned(w, "sae"), SaeBand)

\* depth 0: full retention.  tail: the layers the deep ring covers.
Retention(mode, depth, tail, sink) == [mode |-> mode, depth |-> depth, tail |-> tail, sink |-> sink]

PlannedRetention(w) ==
  LET monitor == ~w.hidden /\ "geometry" \in w.attached
      final == IF w.readings THEN AggTailDepth ELSE 1
      readout == {"lens", "sae"} \cap w.gates # {} \/ ReadoutTail(w) # {}
      tail == IF ReadoutTail(w) = {} THEN ModelLayers ELSE ReadoutTail(w)
  IN CASE w.hidden -> Retention("FULL", 0, ModelLayers, "none")
       [] monitor /\ need_per_token(w) /\ gating_only(w) ->
            Retention("GATING_SUBSET", final, ModelLayers, "subset")
       [] monitor /\ need_per_token(w) /\ lean_per_token(w) ->
            Retention("LEAN_INCREMENTAL", AggTailDepth, ModelLayers, "lean")
       [] monitor /\ need_per_token(w) /\ ~gating_only(w) /\ ~lean_per_token(w) ->
            IF readout THEN Retention("INCREMENTAL", final, tail, "full")
                       ELSE Retention("INCREMENTAL", 1, ModelLayers, "full")
       [] monitor /\ ~need_per_token(w) ->
            Retention("AGGREGATE_ONLY", AggTailDepth, ModelLayers, "none")
       [] ~w.hidden /\ ~monitor -> Retention("AGGREGATE_ONLY", final, ModelLayers, "none")

FullRetention == Retention("FULL", 0, ModelLayers, "none")

\* CaptureState: which layers are hooked, and what is kept of them.
Capturing(layers, persistent, kept) ==
  [attach |-> layers # {}, layers |-> layers, persistent |-> persistent,
   mode |-> kept.mode, depth |-> kept.depth, tail |-> kept.tail, sink |-> kept.sink]

plan_capture(w) ==
  LET layers == IF w.hidden THEN ModelLayers
                ELSE GeometryLatest(w) \cup LensLatest(w) \cup SaeLatest(w)
  IN Capturing(layers, layers # {} /\ ~w.hidden /\ w.clean,
               IF layers = {} THEN FullRetention ELSE PlannedRetention(w))

-----------------------------------------------------------------------------
\* The capture.

\* The one-slice buffer is filled once and not overwritten.
Retained_FirstOnly(bucket, slice, layer) ==
  IF capturing.depth = 0 \/ (capturing.depth > 1 /\ layer \in capturing.tail)
  THEN Append(bucket, slice)
  ELSE IF bucket = <<>> THEN <<slice>> ELSE bucket

\* The bucket of a layer once a forward's slice is kept under the plan.
Retained(bucket, slice, layer) ==
  IF capturing.depth = 0 THEN Append(bucket, slice)
  ELSE IF capturing.depth > 1 /\ layer \in capturing.tail
  THEN LET all == Append(bucket, slice)
       IN IF Len(all) > capturing.depth THEN Tail(all) ELSE all
  ELSE <<slice>>

LatestOf(kept, band) == { <<layer, Last(kept[layer])>> : layer \in
                            { l \in band \cap DOMAIN kept : kept[l] # <<>> } }
Latest(band) == LatestOf(buckets, band)

\* Counts tokens in place of forwards, and so forgets the one that gave EOS.
Pooled_ByTokens(forward, band) ==
  { LET bucket == buckets[layer]
        at == forward - (Len(generated) - Len(bucket))
    IN <<layer, bucket[Max({0, Min({at, Len(bucket) - 1})}) + 1]>> :
      layer \in { l \in band \cap DOMAIN buckets : buckets[l] # <<>> /\ l \in capturing.tail } }

\* tail_slice_at
Pooled(forward, band) ==
  { LET bucket == buckets[layer]
        at == forward - (counted - Len(bucket))
    IN <<layer, bucket[Max({0, Min({at, Len(bucket) - 1})}) + 1]>> :
      layer \in { l \in band \cap DOMAIN buckets : buckets[l] # <<>> /\ l \in capturing.tail } }

Stacked(forward, band) ==
  { <<layer, buckets[layer][forward + 1]>> : layer \in
      { l \in band \cap DOMAIN buckets : Len(buckets[l]) > forward } }

-----------------------------------------------------------------------------
NoReads == [f \in Families |-> {}]

ReadsInit ==
  /\ want \in Wants
  /\ capturing = Capturing({}, FALSE, FullRetention)
  /\ buckets = [l \in ModelLayers |-> <<Earlier>>] /\ counted = 1
  /\ buffers = [l \in ModelLayers |-> Earlier]
  /\ rows = <<>> /\ forwards = 0 /\ generated = <<>> /\ emitted = <<>> /\ endpoint = "unset"
  /\ readsPc = "begin" /\ gateRead = NoReads /\ tapRead = NoReads /\ finalReads = <<>>

\* begin: bind the runs, plan, install.  Without capture the buffers stay.
BeginReads ==
  /\ readsPc = "begin" /\ readsPc' = "decode"
  /\ capturing' = plan_capture(want)
  /\ rows' = <<>>
  /\ IF capturing'.attach
     THEN buckets' = [l \in capturing'.layers |-> <<>>] /\ counted' = 0
     ELSE UNCHANGED <<buckets, counted>>
  /\ UNCHANGED <<want, buffers, forwards, generated, emitted, endpoint, gateRead, tapRead, finalReads>>

\* Transient hooks retain inside the forward; the always-on ones only copy.
Forward ==
  /\ readsPc = "decode" /\ forwards < MaxForwards
  /\ readsPc' = "step" /\ forwards' = forwards + 1
  /\ buffers' = [l \in ModelLayers |-> forwards]
  /\ IF capturing.attach /\ ~capturing.persistent
     THEN /\ buckets' = [l \in DOMAIN buckets |-> Retained(buckets[l], forwards, l)]
          /\ counted' = IF capturing.depth > 0 THEN counted + 1 ELSE counted
     ELSE UNCHANGED <<buckets, counted>>
  /\ gateRead' = NoReads /\ tapRead' = NoReads
  /\ UNCHANGED <<want, capturing, rows, generated, emitted, endpoint, finalReads>>

SinkBand == IF capturing.sink = "subset" THEN GatedBand ELSE GeometryBand

\* step_callback: the persistent ingest, then the step sink.
StepCallback ==
  /\ readsPc = "step" /\ readsPc' = "gate"
  /\ IF capturing.persistent
     THEN /\ buckets' = [l \in DOMAIN buckets |-> Retained(buckets[l], buffers[l], l)]
          /\ counted' = counted + 1
     ELSE UNCHANGED <<buckets, counted>>
  /\ rows' = IF capturing.sink = "none" THEN rows ELSE Append(rows, LatestOf(buckets', SinkBand))
  /\ UNCHANGED <<want, capturing, buffers, forwards, generated, emitted, endpoint,
                 gateRead, tapRead, finalReads>>

\* score_callback: the row of this forward when a sink scored it.
GateCallback ==
  /\ readsPc = "gate" /\ readsPc' = "token"
  /\ gateRead' =
       [f \in Families |->
          IF f \notin want.gates THEN {}
          ELSE CASE f = "lens" -> Latest(LensBand)
                 [] f = "sae" -> Latest(SaeBand)
                 [] f = "geometry" ->
                      IF capturing.mode \in {"GATING_SUBSET", "INCREMENTAL"} /\ rows # <<>>
                      THEN { s \in Last(rows) : s[1] \in GatedBand }
                      ELSE Latest(GatedBand)]
  /\ UNCHANGED <<want, capturing, buckets, counted, buffers, rows, forwards, generated,
                 emitted, endpoint, tapRead, finalReads>>

NeedsScores ==
  /\ want.live /\ "geometry" \in want.attached
  /\ want.loom \/ want.consumer \in {"scores", "subspace"}

\* The token tap of a forward.
Tapped ==
  [f \in Families |->
     CASE f = "geometry" ->
            IF ~NeedsScores THEN {}
            ELSE IF capturing.mode \in {"INCREMENTAL", "LEAN_INCREMENTAL"} /\ rows # <<>>
            THEN Last(rows) ELSE Latest(GeometryBand)
       [] f = "lens" -> IF want.lensLive THEN Latest(LiveBand) ELSE {}
       [] f = "sae" -> IF want.saeLive THEN Latest(SaeBand) ELSE {}]

\* A token is shown now, or held back (part of a character, a delimiter).  A stop
\* sequence ends the visible text at this emission, or at an earlier one.
Token ==
  /\ readsPc = "token"
  /\ \E kind \in {"content", "special"}, shown \in BOOLEAN, stop \in BOOLEAN :
       /\ kind = "special" => ~shown /\ ~stop
       /\ generated' = Append(generated, kind)
       /\ emitted' = IF shown THEN Append(emitted, forwards - 1) ELSE emitted
       /\ tapRead' = IF shown THEN Tapped ELSE NoReads
       /\ endpoint' = IF ~stop THEN endpoint
                      ELSE IF emitted' = <<>> THEN "hidden" ELSE "shown"
       /\ readsPc' = IF stop THEN "finalize" ELSE "decode"
  /\ UNCHANGED <<want, capturing, buckets, counted, buffers, rows, forwards, gateRead, finalReads>>

\* EOS, a stop request between two forwards, or the budget.
Eos ==
  /\ readsPc = "token" /\ readsPc' = "finalize"
  /\ UNCHANGED <<want, capturing, buckets, counted, buffers, rows, forwards, generated,
                 emitted, endpoint, gateRead, tapRead, finalReads>>

Stopped ==
  /\ readsPc = "decode" /\ readsPc' = "finalize"
  /\ UNCHANGED <<want, capturing, buckets, counted, buffers, rows, forwards, generated,
                 emitted, endpoint, gateRead, tapRead, finalReads>>

\* last_content_index: walks back over special tokens, no further than the first.
last_content_index ==
  Max({0} \cup { i - 1 : i \in { j \in DOMAIN generated : generated[j] = "content" } })

aggregate_index ==
  CASE endpoint = "shown" -> Last(emitted)
    [] endpoint = "hidden" -> NoEndpoint
    [] endpoint = "unset" -> last_content_index

PooledAt(forward, band) ==
  IF forward = NoEndpoint THEN {}
  ELSE IF capturing.mode = "FULL" THEN Stacked(forward, band)
  ELSE Pooled(forward, band)

\* What finalize returns of each family.
Aggregates ==
  [f \in Families |->
     IF ~want.readings \/ generated = <<>> \/ f \notin want.attached THEN {}
     ELSE CASE f = "geometry" ->
                 IF capturing.mode # "INCREMENTAL" THEN PooledAt(aggregate_index, GeometryBand)
                 ELSE IF aggregate_index = NoEndpoint \/ aggregate_index >= Len(rows) THEN {}
                 ELSE rows[aggregate_index + 1]
            [] f = "lens" -> PooledAt(aggregate_index, LensBand)
            [] f = "sae" -> PooledAt(aggregate_index, SaeBand)]

\* The per-token stream: the rows cut to the generated length.
Stream ==
  IF ~want.readings \/ generated = <<>> \/ "geometry" \notin want.attached THEN <<>>
  ELSE IF capturing.mode \in {"INCREMENTAL", "LEAN_INCREMENTAL"}
  THEN SubSeq(rows, 1, Min({Len(rows), Len(generated)}))
  ELSE IF capturing.mode = "FULL"
  THEN [k \in 1..Len(generated) |-> Stacked(k - 1, GeometryBand)]
  ELSE <<>>

\* Keeps the last rows, and so the forward that gave EOS.
HiddenStates_LastRows ==
  IF ~want.hidden \/ generated = <<>> THEN <<>>
  ELSE [l \in { l \in DOMAIN buckets : Len(buckets[l]) >= Len(generated) } |->
          SubSeq(buckets[l], Len(buckets[l]) - Len(generated) + 1, Len(buckets[l]))]

\* return_hidden: the stack, cut to the generated length.
HiddenStates ==
  IF ~want.hidden \/ generated = <<>> THEN <<>>
  ELSE [l \in { l \in DOMAIN buckets : Len(buckets[l]) >= Len(generated) } |->
          SubSeq(buckets[l], 1, Len(generated))]

FinalizeReads ==
  /\ readsPc = "finalize" /\ readsPc' = "done"
  /\ finalReads' = [aggregate |-> Aggregates, stream |-> Stream, hidden |-> HiddenStates]
  /\ UNCHANGED <<want, capturing, buckets, counted, buffers, rows, forwards, generated,
                 emitted, endpoint, gateRead, tapRead>>

ReadsNext ==
  \/ BeginReads \/ Forward \/ StepCallback \/ GateCallback
  \/ Token \/ Eos \/ Stopped \/ FinalizeReads

ReadsSpec == ReadsInit /\ [][ReadsNext]_readsVars

-----------------------------------------------------------------------------
SlicesAt(forward, band) == { <<layer, forward>> : layer \in band }

\* Every gated family's gates read this forward, all of their layers: none is
\* left inactive by a layer that nobody captured, and none reads an old slice
\* (the score callback of a decode step).
GateReadsThisForward ==
  readsPc = "token" =>
    \A f \in want.gates :
      gateRead[f] = SlicesAt(forwards - 1, CASE f = "geometry" -> GatedBand
                                       [] f = "lens" -> LensBand
                                       [] f = "sae" -> SaeBand)

\* A token's measurements are of the forward that produced it, under every
\* retention and whatever else the generation reads (the token tap).
TapReadsThisForward ==
  /\ tapRead["geometry"] \in {{}, SlicesAt(forwards - 1, GeometryBand)}
  /\ tapRead["lens"] \in {{}, SlicesAt(forwards - 1, LiveBand)}
  /\ tapRead["sae"] \in {{}, SlicesAt(forwards - 1, SaeBand)}
  /\ readsPc = "decode" /\ generated # <<>> /\ emitted # <<>> /\ Last(emitted) = forwards - 1 =>
       /\ NeedsScores => tapRead["geometry"] = SlicesAt(forwards - 1, GeometryBand)
       /\ want.lensLive => tapRead["lens"] = SlicesAt(forwards - 1, LiveBand)
       /\ want.saeLive => tapRead["sae"] = SlicesAt(forwards - 1, SaeBand)

\* The forward the aggregate may be of: the one that produced the token, or the
\* oldest the ring still holds when it no longer holds that one.
Readable(forward) == {forward} \cup If(forward < forwards - AggTailDepth, {forwards - AggTailDepth})

\* All families' aggregates read the forward of the last visible content token,
\* past EOS, trailing specials and the text a stop sequence cut off.
FinalReadsTheToken ==
  readsPc = "done" /\ want.readings /\ generated # <<>> =>
    \A f \in want.attached :
      LET band == CASE f = "geometry" -> GeometryBand [] f = "lens" -> LensBand [] f = "sae" -> SaeBand
          read == finalReads.aggregate[f]
      IN IF aggregate_index = NoEndpoint THEN read = {}
         ELSE \E k \in Readable(aggregate_index) : read = SlicesAt(k, band)

\* Row k of what is returned for the generated tokens is of forward k, one row a
\* token, whichever way the rows were kept.
RowsFollowTokens ==
  readsPc = "done" /\ generated # <<>> =>
    /\ finalReads.stream = <<>> \/ Len(finalReads.stream) = Len(generated)
    /\ \A k \in DOMAIN finalReads.stream : finalReads.stream[k] = SlicesAt(k - 1, GeometryBand)
    /\ want.hidden =>
         finalReads.hidden = [l \in ModelLayers |-> [k \in 1..Len(generated) |-> k - 1]]

\* Every read of a generation is of the forward it is reported for: gates,
\* token readings, aggregates and rows.
ReadsAreOfTheirForward ==
  GateReadsThisForward /\ TapReadsThisForward /\ FinalReadsTheToken /\ RowsFollowTokens
=============================================================================
