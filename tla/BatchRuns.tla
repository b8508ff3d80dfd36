------------------------------ MODULE BatchRuns ------------------------------
(***************************************************************************)
(* Fans, batches and sweeps over the single-generation engine, and the     *)
(* caches their rows decode on.                                            *)
(*                                                                         *)
(*   drowse/session/batch.py               BatchRunner, FastBatchPath      *)
(*   drowse/session/engine.py              decode's routing, cache_prefix  *)
(*   drowse/generation/prefix_cache.py     PrefixCache, PrefixCacheEntry   *)
(*   drowse/generation/compile_runtime.py  CompiledRuntime                 *)
(*   drowse/model/static_cache.py          support probe, construction     *)
(*                                                                         *)
(* One thread runs a series row by row.  Another presses stop, and the     *)
(* caller's on_result callback may navigate the tree between two rows.  A  *)
(* KV cache is the sequence of tokens its attention entries hold, with the *)
(* sequence its recurrent states have seen.                                *)
(***************************************************************************)
EXTENDS Integers, Sequences, SequencesExt

CONSTANTS
  Prompts,          \* rendered inputs, sequences of tokens
  MinShared,        \* PREFIX_CACHE_MIN_TOKENS
  Budgets,          \* max_new_tokens a call may ask for; the largest is the default
  SlidingWindow,    \* ring of a static sliding layer
  MaxRows,          \* bound: rows of one series
  MaxSeries,        \* bound: series
  MaxNodes,         \* bound: nodes of the loom tree
  Nothing

PromptTokens == UNION {ToSet(p) : p \in Prompts}
Generated == "g"     \* a sampled token
RowTokens == PromptTokens \cup {Generated}

\* A cache by what it has seen, and a row in the decode loop on one of three.
Caches == [kv : Seq(RowTokens), seen : Seq(RowTokens)]
Rows == [on : {"prefix", "resident", "fresh"}, ids : Seq(RowTokens), fed : Seq(RowTokens),
         fresh : Caches, generated : Nat]

\* A series: its jobs, where they run, and the results so far.
Places == Nat \cup {Nothing}
Jobs == [input : Prompts \cup {Nothing}, start : Places, parent : Places]
Routes == [mayHit : BOOLEAN, eligible : BOOLEAN, static : BOOLEAN, budget : Nat]
Series ==
  [kind : {"fan", "batch"}, jobs : Seq(Jobs), route : Routes, stateless : BOOLEAN, stops : Nat,
   done : Seq(Places), cleanup : BOOLEAN, pc : {"next", "decoding", "collect", "check"}]

ASSUME BatchRunsAssumption ==
  /\ Prompts # {} /\ Prompts \subseteq Seq(PromptTokens)
  /\ \A p \in Prompts : Len(p) > 0
  /\ MinShared \in Nat \ {0} /\ Budgets \subseteq Nat \ {0}
  /\ \E b \in Budgets : \A c \in Budgets : c <= b
  /\ SlidingWindow \in Nat \ {0} /\ MaxRows \in Nat /\ MaxSeries \in Nat /\ MaxNodes \in Nat
  /\ Nothing \notin Nat \cup Series \cup Rows

VARIABLES
  runtime,      \* CompiledRuntime: compiled, cudaGraphs, static
  entry,        \* PrefixCache._entry, or Nothing; its left is history: what rows that raised on it fed
  resident,     \* CompiledRuntime._static_cache with its length, or Nothing
  loom,         \* the tree: parent and text of each node, and the active node
  series,       \* the run in progress, or Nothing
  row,          \* its row in the decode loop, or Nothing
  flagged,      \* GenerationState.stop_requested
  stopCount,    \* GenerationState.stop_count
  seriesRun,    \* series begun (bounded by MaxSeries)
  lateRows      \* history: rows begun since the first stop of this series

batchVars == <<runtime, entry, resident, loom, series, row, flagged, stopCount, seriesRun, lateRows>>

Default == CHOOSE b \in Budgets : \A c \in Budgets : c <= b
Larger(a, b) == IF a > b THEN a ELSE b

\* A cache that has seen s.
Cache(s) == [kv |-> s, seen |-> s]

\* compile only sticks on a GPU; StaticCache serves compiled or graph-capturing models.
Runtimes ==
  { r \in [compiled : BOOLEAN, cudaGraphs : BOOLEAN, static : BOOLEAN] :
      r.static => r.compiled \/ r.cudaGraphs }

\* What a call asks: how it steers, what keeps it off the fast paths, and the thread it runs on.
\* "offsets": compiled push; "static": affine hooks; "curved": always on; "phased": not in the prefill.
RowCalls ==
  { c \in [steering : {"none", "offsets", "static", "curved", "phased"},
           needs : {"nothing", "thinking", "hidden", "rows"}, transient : BOOLEAN,
           budget : Budgets, thread : {"owner", "worker"}] :
      /\ c.steering = "offsets" => runtime.compiled
      /\ c.thread = "worker" => runtime.cudaGraphs    \* elsewhere it makes no difference
      /\ IF runtime.compiled THEN c.needs = "hidden" => c.transient ELSE ~c.transient }

SteersThePrefill(call) == call.steering \in {"offsets", "static", "curved"}
all_fast_path(call) == call.steering \in {"none", "offsets"}
static_steerable(call) == call.steering = "static"
graph_thread_safe(call) == runtime.cudaGraphs => call.thread = "owner"

StaticEligible(call) ==
  runtime.static /\ graph_thread_safe(call) /\ (all_fast_path(call) \/ static_steerable(call))

\* The compiled module runs when the live hooks are those it was traced with.
CompiledClean(call) ==
  runtime.compiled /\ ~call.transient /\ all_fast_path(call) /\ graph_thread_safe(call)

\* decode's routing, for every row of the call.
Route(call) ==
  [ mayHit   |-> call.needs \notin {"hidden", "thinking"} /\ ~SteersThePrefill(call),
    eligible |-> StaticEligible(call),
    static   |-> IF runtime.compiled THEN CompiledClean(call) /\ runtime.static ELSE StaticEligible(call),
    budget   |-> call.budget ]

BatchInit ==
  /\ runtime \in Runtimes
  /\ entry = Nothing /\ resident = Nothing
  /\ loom = [parent |-> <<0>>, text |-> <<Nothing>>, active |-> 1]
  /\ series = Nothing /\ row = Nothing
  /\ flagged = FALSE /\ stopCount = 0 /\ seriesRun = 0 /\ lateRows = 0

-----------------------------------------------------------------------------
(* The loom turns a row opens.                                             *)

Nodes == 1..Len(loom.parent)
Reply == <<>>       \* the text of a generated node is its own

AddNode(l, parent, text) ==
  [parent |-> Append(l.parent, parent), text |-> Append(l.text, text), active |-> Len(l.parent) + 1]

\* add_user_turn: an identical child of the parent is taken again.
AddUserTurn(l, parent, text) ==
  LET same == {n \in 1..Len(l.parent) : l.parent[n] = parent /\ l.text[n] = text}
  IN IF same = {} THEN AddNode(l, parent, text)
     ELSE [l EXCEPT !.active = CHOOSE n \in same : \A o \in same : n <= o]

\* begin_generation_turn: a prompt commits its turn, None hangs under the anchor.
OpenTurn(l, input, parent) ==
  LET anchor == IF parent = Nothing THEN l.active ELSE parent
      turn == IF input = Nothing THEN [l EXCEPT !.active = anchor] ELSE AddUserTurn(l, anchor, input)
  IN AddNode(turn, turn.active, Reply)

\* What the row renders: the history of its anchor stands for itself in the prompt.
Rendered(input) == IF input = Nothing THEN CHOOSE p \in Prompts : TRUE ELSE input

-----------------------------------------------------------------------------
(* The prefix cache.                                                       *)

\* common_prefix: the shared leading run, which leaves every row a suffix.
common_prefix(rows) ==
  LET shortest == CHOOSE k \in {Len(rows[i]) : i \in DOMAIN rows} :
                    \A i \in DOMAIN rows : k <= Len(rows[i])
      agrees(k) == \A i \in DOMAIN rows : SubSeq(rows[i], 1, k) = SubSeq(rows[1], 1, k)
      run == CHOOSE k \in 0..shortest : agrees(k) /\ (k < shortest => ~agrees(k + 1))
      shared == IF run = shortest THEN run - 1 ELSE run
  IN IF shortest <= MinShared \/ shared < MinShared THEN Nothing ELSE SubSeq(rows[1], 1, shared)

\* PrefixCache.build; a static entry is sized for the prefix and the decode window.
Prefilled(p, static, budget) ==
  [prefix |-> p, cache |-> Cache(p), left |-> <<>>, static |-> static,
   max |-> IF static THEN Len(p) + budget ELSE 0]

\* PrefixCacheEntry.suffix_for.
suffix_for(ids, eligible, budget) ==
  /\ Len(ids) > Len(entry.prefix) /\ IsPrefix(entry.prefix, ids)
  /\ entry.static => eligible /\ Len(ids) + budget <= entry.max

\* PrefixCacheEntry.rollback: crop or rewind, and restore the recurrent states.
Rewound_StatesKept(c, p) == [kv |-> SubSeq(c.kv, 1, Len(p)), seen |-> c.seen]
Rewound(c, p) == [kv |-> SubSeq(c.kv, 1, Len(p)), seen |-> p]

\* A static sliding layer that filled its ring lost the prefix.
CannotRewind(e) == e.static /\ Len(e.cache.kv) > (IF SlidingWindow < e.max THEN SlidingWindow ELSE e.max)
                   /\ SlidingWindow < e.max

\* PrefixCache.release.
Released(e) == IF CannotRewind(e) THEN Nothing ELSE [e EXCEPT !.cache = Rewound(@, e.prefix), !.left = <<>>]

-----------------------------------------------------------------------------
(* Series.                                                                 *)

Job(input, start, parent) == [input |-> input, start |-> start, parent |-> parent]

Begin(kind, jobs, call, stateless, cleanup) ==
  /\ series' = [kind |-> kind, jobs |-> jobs, route |-> Route(call), stateless |-> stateless,
                stops |-> stopCount, done |-> <<>>, cleanup |-> cleanup, pc |-> "next"]
  /\ seriesRun' = seriesRun + 1
  /\ lateRows' = 0

MayBegin == series = Nothing /\ seriesRun < MaxSeries

\* fan: a stateful fan without a parent re-selects the node it started at.
Start_Unpinned(stateless, parent) == Nothing
Start(stateless, parent) == IF stateless \/ parent # Nothing THEN Nothing ELSE loom.active

Fan(n, input, parent, call, stateless) ==
  /\ Begin("fan", [i \in 1..n |-> Job(input, Start(stateless, parent), parent)], call, stateless, FALSE)
  /\ UNCHANGED <<runtime, entry, resident, loom, row, flagged, stopCount>>

\* fast_batch_blocked.
fast_batch_blocked(call) ==
  call.needs # "nothing" \/ call.steering = "phased"

\* FastBatchPath.run: None, and the serial loop, unless the call is stateless, has
\* several rows and needs nothing a row-shaped decode alone gives.
ServesAtOnce(prompts, call, stateless) ==
  stateless /\ Len(prompts) >= 2 /\ ~fast_batch_blocked(call)

\* FastBatchPath._execute: one HF generate for all rows, on caches of its own.
FastBatch(prompts, call, stateless) ==
  /\ ServesAtOnce(prompts, call, stateless)
  /\ flagged' = FALSE
  /\ seriesRun' = seriesRun + 1
  /\ lateRows' = 0
  /\ UNCHANGED <<runtime, entry, resident, loom, series, row, stopCount>>

\* batch without the fast path (a model that cannot take it, or a row-shaped call).
\* _cache_shared_prefix: rows of one prefix prefill it once.
Batch(prompts, call, stateless) ==
  LET shared == common_prefix(prompts)
      caches == /\ Len(prompts) >= 2 /\ stateless
                /\ call.needs \notin {"thinking", "hidden"} /\ ~SteersThePrefill(call)
                /\ shared # Nothing
  IN /\ entry' = IF caches THEN Prefilled(shared, runtime.static /\ call.steering = "none", call.budget)
                 ELSE entry
     /\ Begin("batch", [i \in DOMAIN prompts |-> Job(prompts[i], Nothing, Nothing)], call, stateless, caches)
     /\ UNCHANGED <<runtime, resident, loom, row, flagged, stopCount>>

\* sweep: a prompt spawns the shared turn and its rows anchor at that turn's parent.
Sweep(n, input, parent, call, stateless) ==
  LET at == IF parent = Nothing THEN loom.active ELSE parent
      shared == AddUserTurn(loom, at, input)
      opens == ~stateless /\ input # Nothing
      anchor == IF stateless THEN parent
                ELSE IF opens THEN shared.parent[shared.active] ELSE at
  IN /\ loom' = IF opens THEN shared ELSE loom
     /\ Begin("fan", [i \in 1..n |-> Job(input, Nothing, anchor)], call, stateless, FALSE)
     /\ UNCHANGED <<runtime, entry, resident, row, flagged, stopCount>>

-----------------------------------------------------------------------------
(* One row: run_jobs' loop body, the engine's routing, and the decode.     *)

Hits(ids, route) ==
  entry # Nothing /\ route.mayHit /\ suffix_for(ids, route.eligible, route.budget)

\* acquire_static_cache: reset in place when it is long enough, else built anew.
acquire_static_cache_Unreset(needed) ==
  IF resident # Nothing /\ resident.max >= needed THEN resident
  ELSE [cache |-> Cache(<<>>), max |-> needed]
acquire_static_cache(needed) ==
  [cache |-> Cache(<<>>), max |-> IF resident # Nothing /\ resident.max >= needed THEN resident.max ELSE needed]

\* Where the row's tokens go: the cached prefix, the session's static cache, a fresh one.
BeginRow(allocates) ==
  /\ series # Nothing /\ series.pc = "next" /\ Len(series.done) < Len(series.jobs)
  /\ LET job == series.jobs[Len(series.done) + 1]
         route == series.route
         at == IF job.start # Nothing THEN [loom EXCEPT !.active = job.start] ELSE loom
         turns == IF series.stateless THEN at ELSE OpenTurn(at, job.input, job.parent)
         ids == Rendered(job.input)
         hit == Hits(ids, route)
         static == route.static /\ ~hit /\ allocates
         reserve == Larger(route.budget, Default)
     IN /\ Len(turns.parent) <= MaxNodes
        /\ loom' = turns
        /\ resident' = IF static THEN acquire_static_cache(Len(ids) + reserve) ELSE resident
        /\ row' = [on |-> IF hit THEN "prefix" ELSE IF static THEN "resident" ELSE "fresh",
                   ids |-> ids, fed |-> IF hit THEN SubSeq(ids, Len(entry.prefix) + 1, Len(ids)) ELSE ids,
                   fresh |-> Cache(<<>>), generated |-> 0]
  /\ flagged' = FALSE
  /\ series' = [series EXCEPT !.pc = "decoding"]
  /\ lateRows' = IF stopCount # series.stops THEN lateRows + 1 ELSE 0
  /\ UNCHANGED <<runtime, entry, stopCount, seriesRun>>

InLoop == row # Nothing /\ series.pc = "decoding"

CacheOf == CASE row.on = "prefix" -> entry.cache
             [] row.on = "resident" -> resident.cache
             [] OTHER -> row.fresh

Fed == [kv |-> CacheOf.kv \o row.fed, seen |-> CacheOf.seen \o row.fed]

\* A forward over the tokens not yet fed, and a sampled token.
ForwardRow ==
  /\ InLoop /\ ~flagged /\ row.generated < series.route.budget
  /\ entry' = IF row.on = "prefix" THEN [entry EXCEPT !.cache = Fed] ELSE entry
  /\ resident' = IF row.on = "resident" THEN [resident EXCEPT !.cache = Fed] ELSE resident
  /\ row' = [row EXCEPT !.fresh = IF row.on = "fresh" THEN Fed ELSE @, !.fed = <<Generated>>,
                        !.generated = @ + 1]
  /\ UNCHANGED <<runtime, loom, series, flagged, stopCount, seriesRun, lateRows>>

\* The budget, an end token or the stop flag ends the loop; the hit is released.
EndRow ==
  /\ InLoop
  /\ row.generated > 0 \/ flagged
  /\ entry' = IF row.on = "prefix" THEN Released(entry) ELSE entry
  /\ row' = [row EXCEPT !.on = "fresh", !.fed = <<>>]
  /\ series' = [series EXCEPT !.pc = "collect"]
  /\ UNCHANGED <<runtime, resident, loom, flagged, stopCount, seriesRun, lateRows>>

\* The series ends; a batch drops the prefix it cached.
LeaveSeries(s) ==
  /\ series' = Nothing /\ row' = Nothing
  /\ entry' = IF s.cleanup THEN Nothing ELSE entry

\* What the forwards so far fed behind a cached prefix.
FedBehindPrefix ==
  SubSeq(row.ids, Len(entry.prefix) + 1, Len(row.ids)) \o [i \in 1..row.generated - 1 |-> Generated]

\* A callback raises in the decode: the exception ends the series and skips the
\* release, so a prefix the series does not drop keeps what the row fed.
RowRaises ==
  /\ InLoop /\ row.generated > 0
  /\ series' = Nothing /\ row' = Nothing
  /\ entry' = IF series.cleanup THEN Nothing
              ELSE IF row.on = "prefix" THEN [entry EXCEPT !.left = @ \o FedBehindPrefix]
              ELSE entry
  /\ UNCHANGED <<runtime, resident, loom, flagged, stopCount, seriesRun, lateRows>>

\* The result is kept with the node active now, then on_result runs.
Collect(target) ==
  /\ series # Nothing /\ series.pc = "collect"
  /\ series' = [series EXCEPT !.pc = "check",
                              !.done = Append(@, IF series.stateless THEN Nothing ELSE loom.active)]
  /\ row' = Nothing
  /\ loom' = [loom EXCEPT !.active = target]
  /\ UNCHANGED <<runtime, entry, resident, flagged, stopCount, seriesRun, lateRows>>

StopSeen_FlagOnly == flagged
StopSeen == stopCount # series.stops

NextRow ==
  /\ series # Nothing /\ series.pc = "check"
  /\ ~StopSeen /\ Len(series.done) < Len(series.jobs)
  /\ series' = [series EXCEPT !.pc = "next"]
  /\ UNCHANGED <<runtime, entry, resident, loom, row, flagged, stopCount, seriesRun, lateRows>>

EndSeries ==
  /\ series # Nothing /\ series.pc = "check"
  /\ StopSeen \/ Len(series.done) = Len(series.jobs)
  /\ LeaveSeries(series)
  /\ UNCHANGED <<runtime, resident, loom, flagged, stopCount, seriesRun, lateRows>>

\* request_stop, from any thread.
RequestStop ==
  /\ stopCount < 1
  /\ stopCount' = stopCount + 1 /\ flagged' = TRUE
  /\ UNCHANGED <<runtime, entry, resident, loom, series, row, seriesRun, lateRows>>

\* session.cache_prefix outside any scope and generation.
PrefillPrefix(p, static) ==
  /\ series = Nothing
  /\ entry' = IF p = <<>> THEN Nothing ELSE Prefilled(p, static /\ runtime.static, Default)
  /\ UNCHANGED <<runtime, resident, loom, series, row, flagged, stopCount, seriesRun, lateRows>>

-----------------------------------------------------------------------------
Cacheable == {<<>>} \cup {SubSeq(p, 1, Len(p) - 1) : p \in Prompts}

\* Where a row of a stateless series would hang makes no difference.
CallsSeries ==
  /\ MayBegin
  /\ \E call \in RowCalls, stateless \in BOOLEAN :
       \/ \E n \in 1..MaxRows, input \in Prompts \cup {Nothing}, parent \in {1, Nothing} :
            /\ stateless => parent = Nothing
            /\ Fan(n, input, parent, call, stateless) \/ Sweep(n, input, parent, call, stateless)
       \/ \E prompts \in SeqOf(Prompts, MaxRows) \ {<<>>} :
            Batch(prompts, call, stateless) \/ FastBatch(prompts, call, stateless)

BatchNext ==
  \/ CallsSeries
  \/ \E allocates \in BOOLEAN : BeginRow(allocates)
  \/ ForwardRow \/ EndRow \/ RowRaises
  \/ \E target \in Nodes : Collect(target)
  \/ NextRow \/ EndSeries \/ RequestStop
  \/ \E p \in Cacheable, static \in BOOLEAN : PrefillPrefix(p, static)

BatchSpec == BatchInit /\ [][BatchNext]_batchVars

-----------------------------------------------------------------------------
(* Properties.                                                             *)

\* A row's input, with what rows that raised on its cached prefix left behind it.
InputSeen ==
  IF row.on # "prefix" THEN row.ids
  ELSE SubSeq(row.ids, 1, Len(entry.prefix)) \o entry.left
         \o SubSeq(row.ids, Len(entry.prefix) + 1, Len(row.ids))

\* Whatever cache a row decodes on, the model has seen exactly the row's input
\* and the tokens generated after it: no token of another row, none twice, none
\* missing, in its attention and in its recurrent states, and never more than
\* a preallocated cache has room for.  Only a row on a prefix whose last row
\* raised also sees, behind the prefix, what that row fed.
ForwardsSeeTheirInput ==
  (InLoop /\ row.generated > 0) =>
    /\ CacheOf = Cache(InputSeen \o [i \in 1..row.generated - 1 |-> Generated])
    /\ row.on = "resident" => Len(resident.cache.kv) <= resident.max
    /\ (row.on = "prefix" /\ entry.static /\ entry.left = <<>>) => Len(entry.cache.kv) <= entry.max

\* Between rows the cached prefix is the prefix again, but for what rows that
\* raised on it fed since a row on it last ended.
PrefixIsWhole ==
  (entry # Nothing /\ ~(InLoop /\ row.on = "prefix")) =>
    entry.cache = Cache(entry.prefix \o entry.left)

RowsDecodeOnTheirOwn == ForwardsSeeTheirInput /\ PrefixIsWhole

\* After a stop at most one more row begins, whose reset cleared the flag.
StopEndsTheSeries == lateRows <= 1

\* The rows of a stateful fan or sweep hang side by side, whatever the callbacks
\* between them selected, and each result names its own row.
RowsAreSiblings ==
  (series # Nothing /\ series.kind = "fan" /\ ~series.stateless) =>
    \A i, j \in DOMAIN series.done :
      /\ loom.text[series.done[i]] = Reply
      /\ loom.parent[series.done[i]] = loom.parent[series.done[j]]
      /\ i # j => series.done[i] # series.done[j]

SeriesKeepsItsShape == StopEndsTheSeries /\ RowsAreSiblings

\* Rows of a batch, fan or sweep share caches, the stop flag and the tree, and
\* come out as if each had run alone; the first row on a prefix after one that
\* raised on it does not, and heals it.
RowsKeepApart == RowsDecodeOnTheirOwn /\ SeriesKeepsItsShape
=============================================================================
