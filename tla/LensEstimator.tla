--------------------------- MODULE LensEstimator ---------------------------
(***************************************************************************)
(* The lens estimator (drowse/lens/fit.py): sums the Jacobian of every     *)
(* prompt, output row by output row, and backs off when memory runs out.   *)
(*                                                                         *)
(*   fit_jacobian_lens            the groups, tasks and retries            *)
(*   _accumulate_prompt_jacobian  one pass over the rows of a span         *)
(*                                                                         *)
(* A sum is modelled by how often each output row of each prompt was added *)
(* to it.  A pass may run out of memory at every call that allocates.      *)
(***************************************************************************)
EXTENDS Integers, Sequences, SequencesExt

CONSTANTS
  NPrompts,         \* prompts of the corpus
  NRows,            \* output rows: d_model
  Layers,           \* source layers, in order
  PromptBatch,      \* prompt_batch
  DimBatch,         \* dim_batch
  BudgetRows,       \* rows the byte budget of a staging slot allows
  CheckpointEvery,
  Bases,            \* prompts already summed in the initial lens
  Requested,        \* requested VJP modes
  FaultsOn          \* device -> what may fail on it

Devices == DOMAIN FaultsOn
Faults == {"forward", "alloc", "vjp", "unsupported", "layer", "copy", "zero", "drain"}

ASSUME EstimatorAssumption ==
  /\ {NPrompts, NRows, PromptBatch, DimBatch, BudgetRows, CheckpointEvery} \subseteq Nat \ {0}
  /\ Devices \subseteq {"cpu", "mps", "cuda"}
  /\ \A d \in Devices : FaultsOn[d] \subseteq Faults
  /\ Bases \subseteq 0..(NPrompts - 1)
  /\ Requested \subseteq {"auto", "batched", "replicated"}

VARIABLES
  device, requested, base,  \* arguments of the fit
  vjp,       \* state["vjp_mode"]
  cursor,    \* prompts whose groups are complete, the initial lens's included
  target,    \* target_prompt_batch
  prompts,   \* active_prompt_batch
  ceiling,   \* prompt_bad_ceiling, 0 until memory ran out
  dims,      \* active_dim_batch
  group,     \* pending_group_width
  spans,     \* pending_tasks
  span,      \* the span being run; row is where its next pass starts
  batch,     \* the dim batch of this span's retries
  nextCheckpoint,
  buffers,   \* staging: slots (0 when released), rows of a slot, row limit
  pass,      \* _accumulate_prompt_jacobian's locals
  exc,       \* the exception that left the pass
  acc,       \* state["acc"]: additions per layer, prompt and row
  torn,      \* history: those of failed passes that no boundary counts
  saved,     \* the last checkpoint (of no prompts at first)
  cancel,    \* cancel_event
  step

estVars == <<device, requested, base, vjp, cursor, target, prompts, ceiling, dims, group,
             spans, span, batch, nextCheckpoint, buffers, pass, exc, acc, torn, saved, cancel, step>>

Arguments == <<device, requested, base>>
Config == <<Arguments, torn>>   \* only a failed pass tears
Plan == <<cursor, group, nextCheckpoint, saved>>
Widths == <<vjp, target, prompts, ceiling, dims>>

Least(a, b) == IF a < b THEN a ELSE b
Most(a, b) == IF a < b THEN b ELSE a

OutputRows == 0..(NRows - 1)
PromptIds == 1..NPrompts
LayerSet == Range(Layers)
Sums(f(_)) == [l \in LayerSet |-> [p \in PromptIds |-> [r \in OutputRows |-> f(p)]]]

\* The sum of the first n prompts.
Exact(n) == Sums(LAMBDA p : IF p <= n THEN 1 ELSE 0)

\* A sum with rows from..(to - 1) of the span's prompts added for some layers.
AddedTo(sum, layers, from, to) ==
  [l \in LayerSet |-> [p \in PromptIds |-> [r \in OutputRows |->
     IF l \in layers /\ p > span.from /\ p <= span.to /\ from <= r /\ r < to
     THEN sum[l][p][r] + 1 ELSE sum[l][p][r]]]]
Added(layers, from, to) == AddedTo(acc, layers, from, to)

NoSpan == [from |-> 0, to |-> 0, row |-> 0]
NoPass == [dim |-> 0, start |-> 0, upto |-> 0, pending |-> <<>>, bad |-> FALSE, written |-> 0]
NoExc == [kind |-> "none", until |-> 0]
NoBuffers == [slots |-> 0, rows |-> 0, limit |-> 0]

Width == span.to - span.from
MayFail(f) == f \in FaultsOn[device]
Batched == vjp = "batched"

---------------------------------------------------------------------------
(* Prompt groups.                                                          *)

EstInit ==
  /\ device \in Devices /\ requested \in Requested /\ base \in Bases
  /\ vjp = IF requested = "auto" THEN "batched" ELSE requested
  /\ cursor = base
  /\ target = IF requested = "replicated" THEN 1 ELSE PromptBatch
  /\ prompts = target /\ ceiling = 0 /\ dims = DimBatch
  /\ group = 0 /\ spans = <<>> /\ span = NoSpan /\ batch = 0
  /\ nextCheckpoint = CheckpointEvery
  /\ buffers = NoBuffers /\ pass = NoPass /\ exc = NoExc
  /\ acc = Exact(base) /\ torn = Exact(0)
  /\ saved = [n |-> 0, sums |-> Exact(0)] /\ cancel = FALSE
  /\ step = "group"

\* The user cancels; the estimator looks at the event between blocks.
Cancel ==
  /\ ~cancel /\ step \notin {"done", "failed", "refused", "cancelled"}
  /\ cancel' = TRUE
  /\ UNCHANGED <<Config, Plan, Widths, spans, span, batch, buffers, pass, exc, acc, step>>

StartGroup ==
  /\ step = "group" /\ cursor < NPrompts /\ ~cancel
  /\ LET w == Least(prompts, NPrompts - cursor) IN
       /\ group' = w
       /\ spans' = <<[from |-> cursor, to |-> cursor + w, row |-> 0]>>
  /\ step' = "take"
  /\ UNCHANGED <<Config, Widths, cursor, span, batch, nextCheckpoint, buffers, pass, exc,
                 acc, saved, cancel>>

CancelledBetweenGroups ==
  /\ step = "group" /\ cursor < NPrompts /\ cancel
  /\ saved' = IF cursor > base THEN [n |-> cursor, sums |-> acc] ELSE saved
  /\ step' = "cancelled"
  /\ UNCHANGED <<Config, Widths, cursor, group, nextCheckpoint, spans, span, batch,
                 buffers, pass, exc, acc, cancel>>

Finalize ==
  /\ step = "group" /\ cursor = NPrompts
  /\ step' = "done"
  /\ UNCHANGED <<Config, Plan, Widths, spans, span, batch, buffers, pass, exc, acc, cancel>>

TakeTask ==
  /\ step = "take"
  /\ span' = Head(spans) /\ spans' = Tail(spans)
  /\ batch' = Least(dims, NRows)
  /\ step' = "pass"
  /\ UNCHANGED <<Config, Plan, Widths, buffers, pass, exc, acc, cancel>>

\* The pass returned: the next span of the group, or the group is complete and
\* a checkpoint is due once the cadence was crossed.
EndGroup ==
  LET n == cursor + group
      due == n - base >= nextCheckpoint IN
  /\ cursor' = n
  /\ prompts' = IF ceiling = 0 THEN target ELSE prompts
  /\ saved' = IF due THEN [n |-> n, sums |-> acc] ELSE saved
  /\ nextCheckpoint' =
       IF due THEN ((n - base) \div CheckpointEvery + 1) * CheckpointEvery ELSE nextCheckpoint
  /\ step' = "group"

AfterPass ==
  /\ step = "returned"
  /\ IF cancel
     THEN /\ step' = "cancelled"
          /\ UNCHANGED <<Plan, prompts>>
     ELSE IF spans # <<>>
          THEN step' = "take" /\ UNCHANGED <<Plan, prompts>>
          ELSE EndGroup /\ UNCHANGED group
  /\ UNCHANGED <<Config, vjp, target, ceiling, dims, spans, span, batch, buffers, pass, exc,
                 acc, cancel>>

---------------------------------------------------------------------------
(* One pass over the rows of a span, from span.row.                        *)

\* The block a pass computes at once.
Block == Least(batch, NRows)
BlockEnd == Least(pass.dim + Block, NRows)

Smaller(rows, floor) == IF rows <= floor THEN 0 ELSE Most(floor, rows \div 2)

Capacities(rows, floor) ==
  LET chain[n \in 1..NRows] == IF n <= floor THEN {n} ELSE {n} \cup chain[Smaller(n, floor)]
  IN chain[rows]

\* The staging buffers a pass may get: as asked, or less when memory is short.
Allocated ==
  LET wanted == Least(NRows, Most(Block, BudgetRows))
      rows == IF buffers.limit = 0 THEN wanted ELSE Most(Block, Least(wanted, buffers.limit))
      slots == IF device = "cuda" THEN 2 ELSE 1 IN
  IF device = "cpu" \/ buffers.slots # 0 THEN {buffers}
  ELSE IF MayFail("alloc")
       THEN {[slots |-> s, rows |-> c, limit |-> buffers.limit] :
               s \in 1..slots, c \in Capacities(rows, Block)}
       ELSE {[slots |-> slots, rows |-> rows, limit |-> buffers.limit]}

Raise(kind) == exc' = [kind |-> kind, until |-> pass.upto] /\ step' = "caught"

BeginPass ==
  /\ step = "pass"
  /\ CASE cancel -> step' = "cancelled" /\ UNCHANGED <<pass, buffers>>
       [] ~cancel /\ ~Batched /\ Width # 1 -> step' = "refused" /\ UNCHANGED <<pass, buffers>>
       [] ~cancel /\ (Batched \/ Width = 1) /\ span.row = NRows ->
            step' = "returned" /\ UNCHANGED <<pass, buffers>>
       [] OTHER ->
            /\ buffers' \in Allocated
            /\ pass' = [NoPass EXCEPT !.dim = span.row, !.start = span.row, !.upto = span.row]
            /\ step' = "block"
  /\ UNCHANGED <<Config, Plan, Widths, spans, span, batch, exc, acc, cancel>>

\* The forward call, or the allocation of the buffers, runs out of memory.
ForwardFails ==
  /\ step = "pass" /\ ~cancel /\ (Batched \/ Width = 1)
  /\ MayFail("forward") \/ (MayFail("alloc") /\ buffers.slots = 0)
  /\ exc' = [kind |-> "oom", until |-> span.row]
  /\ pass' = [NoPass EXCEPT !.upto = span.row]
  /\ step' = "caught"
  /\ UNCHANGED <<Config, Plan, Widths, spans, span, batch, buffers, acc, cancel>>

CancelledInPass ==
  /\ step = "block" /\ cancel
  /\ step' = "cancelled"
  /\ UNCHANGED <<Config, Plan, Widths, spans, span, batch, buffers, pass, exc, acc, cancel>>

\* The backward pass of one block of rows.
Vjp ==
  /\ step = "block" /\ ~cancel /\ pass.dim < NRows
  /\ \/ step' = "write" /\ UNCHANGED exc
     \/ MayFail("vjp") /\ Raise("oom")
     \/ MayFail("unsupported") /\ requested = "auto" /\ Batched /\ Raise("unsupported")
  /\ UNCHANGED <<Config, Plan, Widths, spans, span, batch, buffers, pass, acc, cancel>>

\* commit_host_stripe: every layer is validated before any is added.
Commit(from, to) == acc' = Added(LayerSet, from, to)

\* Flush the stripe up to row end: the result is the pass after it, or a raise.
\* On CUDA the transfer in flight is committed, and this stripe's is started;
\* with one slot it is also waited for.
FlushMps(end) ==
  \/ /\ Commit(pass.start, end)
     /\ pass' = [pass EXCEPT !.start = end, !.upto = end]
     /\ UNCHANGED <<exc, step>>
  \/ /\ MayFail("copy") \/ MayFail("zero")
     /\ Raise("oom") /\ UNCHANGED <<acc, pass>>

Drained == IF pass.pending = <<>> THEN acc ELSE Added(LayerSet, pass.pending[1], pass.pending[2])
DrainedUpto == IF pass.pending = <<>> THEN pass.upto ELSE pass.pending[2]

FlushCuda(end) ==
  \/ /\ buffers.slots = 2
     /\ acc' = Drained
     /\ pass' = [pass EXCEPT !.start = end, !.upto = DrainedUpto, !.pending = <<pass.start, end>>]
     /\ UNCHANGED <<exc, step>>
  \/ /\ buffers.slots = 1
     /\ Commit(pass.start, end)
     /\ pass' = [pass EXCEPT !.start = end, !.upto = end]
     /\ UNCHANGED <<exc, step>>
  \/ /\ MayFail("zero") /\ buffers.slots = 2 /\ pass.pending # <<>>
     /\ pass' = [pass EXCEPT !.pending = <<>>]
     /\ Raise("oom") /\ UNCHANGED acc
  \/ /\ MayFail("drain") /\ buffers.slots = 1   \* the slot stays pending
     /\ pass' = [pass EXCEPT !.pending = <<pass.start, end>>, !.bad = TRUE]
     /\ Raise("oom") /\ UNCHANGED acc
  \/ /\ MayFail("copy")
     /\ acc' = Drained
     /\ pass' = [pass EXCEPT !.pending = <<>>, !.upto = DrainedUpto]
     /\ Raise("oom")

Flush(end) == IF device = "mps" THEN FlushMps(end) ELSE FlushCuda(end)

FlushFirst ==
  /\ step = "write" /\ device # "cpu" /\ BlockEnd - pass.start > buffers.rows
  /\ Flush(pass.dim)
  /\ UNCHANGED <<Config, Plan, Widths, spans, span, batch, buffers, cancel>>

StageBlock ==
  /\ step = "write" /\ device # "cpu" /\ BlockEnd - pass.start <= buffers.rows
  /\ \/ /\ pass' = [pass EXCEPT !.dim = BlockEnd]
        /\ step' = "block" /\ UNCHANGED exc
     \/ MayFail("layer") /\ Raise("oom") /\ UNCHANGED pass
  /\ UNCHANGED <<Config, Plan, Widths, spans, span, batch, buffers, acc, cancel>>

\* On the CPU a block is added to the sum at once, one layer after the other.
AddBlock ==
  /\ step = "write" /\ device = "cpu"
  /\ LET n == pass.written + 1 IN
     \/ /\ acc' = Added({Layers[n]}, pass.dim, BlockEnd)
        /\ IF n < Len(Layers)
           THEN pass' = [pass EXCEPT !.written = n] /\ UNCHANGED step
           ELSE /\ pass' = [pass EXCEPT !.written = 0, !.dim = BlockEnd, !.upto = BlockEnd]
                /\ step' = "block"
        /\ UNCHANGED exc
     \/ MayFail("layer") /\ Raise("oom") /\ UNCHANGED <<acc, pass>>
  /\ UNCHANGED <<Config, Plan, Widths, spans, span, batch, buffers, cancel>>

\* All rows are computed: flush what is staged, then drain.
FlushLast ==
  /\ step = "block" /\ pass.dim = NRows /\ device # "cpu" /\ pass.start < NRows
  /\ Flush(NRows)
  /\ UNCHANGED <<Config, Plan, Widths, spans, span, batch, buffers, cancel>>

EndPass ==
  /\ step = "block" /\ pass.dim = NRows /\ (device = "cpu" \/ pass.start = NRows)
  /\ \/ acc' = Drained /\ step' = "returned" /\ pass' = NoPass /\ UNCHANGED exc
     \/ /\ MayFail("zero") /\ pass.pending # <<>>
        /\ pass' = [pass EXCEPT !.pending = <<>>]
        /\ Raise("oom") /\ UNCHANGED acc
  /\ UNCHANGED <<Config, Plan, Widths, spans, span, batch, buffers, cancel>>

\* The handler of a failed pass commits the transfer in flight and reports the
\* rows that are in the sum.  Two things it cannot report: the layers of a block
\* that were added before one failed, on the CPU, and the rows committed before,
\* when it finds that transfer bad and its own error replaces the first.
Handle ==
  /\ step = "caught"
  /\ \/ /\ ~pass.bad
        /\ acc' = Drained
        /\ exc' = [kind |-> IF exc.kind = "oom" /\ DrainedUpto > span.row
                            THEN "committed" ELSE exc.kind,
                   until |-> DrainedUpto]
        /\ torn' = AddedTo(torn, {Layers[i] : i \in 1..pass.written}, pass.dim, BlockEnd)
     \/ /\ MayFail("drain") /\ pass.pending # <<>>
        /\ exc' = [kind |-> "oom", until |-> span.row]
        /\ torn' = AddedTo(torn, LayerSet, span.row, pass.upto)
        /\ UNCHANGED acc
  /\ pass' = NoPass
  /\ step' = "retry"
  /\ UNCHANGED <<Arguments, Plan, Widths, spans, span, batch, buffers, cancel>>

---------------------------------------------------------------------------
(* The retry scheduler.                                                    *)

\* The span split into narrower ones, whose rows below row are in the sum.
ChildWidth_Same(w) == Width
ChildWidth(w) == Most(1, Least(w, Width - 1))

Split(row, w) ==
  LET c == ChildWidth(w)
      n == (Width + c - 1) \div c IN
  spans' = [i \in 1..n |-> [from |-> span.from + (i - 1) * c,
                            to |-> Least(span.from + i * c, span.to), row |-> row]] \o spans

Again_FromItsStart(row) ==
  /\ step' = "pass"
  /\ UNCHANGED <<span, spans>>

Again(row) ==
  /\ span' = [span EXCEPT !.row = row]
  /\ step' = "pass"
  /\ UNCHANGED spans

\* The backend has no batched VJP: replicate from now on, one prompt at a time.
RetryReplicated ==
  /\ step = "retry" /\ exc.kind = "unsupported"
  /\ vjp' = "replicated" /\ target' = 1 /\ prompts' = 1
  /\ IF Width > 1
     THEN Split(exc.until, 1) /\ step' = "take" /\ UNCHANGED span
     ELSE Again(exc.until)
  /\ exc' = NoExc
  /\ UNCHANGED <<Config, Plan, ceiling, dims, batch, buffers, pass, acc, cancel>>

\* _downgrade_cuda_stripe_buffers: give the second transfer slot up.
RetryOneSlot ==
  /\ step = "retry" /\ exc.kind \in {"oom", "committed"} /\ buffers.slots = 2
  /\ buffers' = [buffers EXCEPT !.slots = 1]
  /\ Again(IF exc.kind = "committed" THEN exc.until ELSE span.row)
  /\ exc' = NoExc
  /\ UNCHANGED <<Config, Plan, Widths, batch, pass, acc, cancel>>

\* Fewer prompts at once: at once for a failure that committed nothing, and
\* once the dim batch is at its floor for one that did.
RetryNarrower ==
  /\ step = "retry" /\ buffers.slots # 2 /\ Width > 1
  /\ exc.kind = "oom" \/ (exc.kind = "committed" /\ batch <= 1)
  /\ ceiling' = IF ceiling = 0 THEN Width ELSE Least(ceiling, Width)
  /\ prompts' = Most(1, Width \div 2)
  /\ Split(IF exc.kind = "committed" THEN exc.until ELSE span.row, prompts')
  /\ exc' = NoExc /\ step' = "take"
  /\ UNCHANGED <<Config, Plan, vjp, target, dims, span, batch, buffers, pass, acc, cancel>>

\* Fewer rows at once, in smaller buffers (_shrink_device_stripe_buffers).
RetryFewerRows ==
  /\ step = "retry" /\ buffers.slots # 2 /\ batch > 1
  /\ exc.kind = "committed" \/ (exc.kind = "oom" /\ Width = 1)
  /\ batch' = Most(1, batch \div 2) /\ dims' = batch'
  /\ LET smaller == Smaller(buffers.rows, Most(1, batch')) IN
     buffers' = IF device = "cpu" \/ smaller = 0 THEN buffers
                ELSE [slots |-> 0, rows |-> 0, limit |-> smaller]
  /\ Again(IF exc.kind = "committed" THEN exc.until ELSE span.row)
  /\ exc' = NoExc
  /\ UNCHANGED <<Config, Plan, vjp, target, prompts, ceiling, pass, acc, cancel>>

GiveUp ==
  /\ step = "retry" /\ exc.kind \in {"oom", "committed"}
  /\ buffers.slots # 2 /\ Width = 1 /\ batch <= 1
  /\ step' = "failed"
  /\ UNCHANGED <<Config, Plan, Widths, spans, span, batch, buffers, pass, exc, acc, cancel>>

EstNext ==
  \/ Cancel \/ StartGroup \/ CancelledBetweenGroups \/ Finalize \/ TakeTask \/ AfterPass
  \/ BeginPass \/ ForwardFails \/ CancelledInPass \/ Vjp \/ FlushFirst \/ StageBlock
  \/ AddBlock \/ FlushLast \/ EndPass \/ Handle
  \/ RetryReplicated \/ RetryOneSlot \/ RetryNarrower \/ RetryFewerRows \/ GiveUp

EstSpec == EstInit /\ [][EstNext]_estVars /\ WF_estVars(EstNext)

---------------------------------------------------------------------------
(* Properties.                                                             *)

EstEnds == {"done", "cancelled", "failed", "refused"}

\* However often memory ran out, and whatever was split and retried, no output
\* row of a prompt is added to a layer's sum twice, but for those a failed pass
\* had torn, which are added once more for each time.
RowsCountOnce ==
  \A l \in LayerSet, p \in PromptIds, r \in OutputRows :
    torn[l][p][r] <= acc[l][p][r] /\ acc[l][p][r] <= 1 + torn[l][p][r]

\* The sum of the first n prompts and what was torn of them.
Told(n) == [l \in LayerSet |-> [p \in PromptIds |-> [r \in OutputRows |->
              IF p <= n THEN 1 + torn[l][p][r] ELSE 0]]]

\* A checkpoint, and the lens the fit returns, are the sum of the prompts they
\* count, no prompt half summed and none left out, with what was torn of those
\* and of no others.
CheckpointIsExact ==
  /\ saved.sums = Told(saved.n)
  /\ step = "done" => acc = Told(NPrompts)

\* A fit whose device stages its rows and validates what it transfers is never
\* torn; on CUDA it takes a transfer found bad behind one that was good.
WholeOnMps == device = "mps" => torn = Exact(0)

\* The sums a checkpoint or a lens is made of are exact over all retries, up to
\* the rows of the two failures after which the estimator adds rows again.
SumsAreExact == RowsCountOnce /\ CheckpointIsExact /\ WholeOnMps

\* The back-off ends: with memory running out at every pass, the fit still
\* completes, gives up or is cancelled.
FitEnds == <>(step \in EstEnds)

\* A pass of the replicated estimator is only asked for one prompt, so falling
\* back to it never fails the fit.
FallbackIsAccepted == step # "refused"
=============================================================================
