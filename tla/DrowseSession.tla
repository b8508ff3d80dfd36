--------------------------- MODULE DrowseSession ---------------------------
(***************************************************************************)
(* The session's execution discipline: the exclusive-GPU re-entrant lock   *)
(* (`_gen_lock`), the generation transaction and its phase, the steering   *)
(* scope stack with the plan installed from it, worker-thread streams, and *)
(* the session calls that race them.                                       *)
(*                                                                         *)
(*   drowse/session/engine.py      transaction, generate_one, _WorkerStream*)
(*   drowse/session/session.py     _gen_lock, _model_exclusive, release    *)
(*   drowse/steering/composer.py   SteeringScope, push, pop, rebuild_hooks *)
(*   drowse/generation/decode.py   GenerationState, generate_steered       *)
(*                                                                         *)
(* A thread is a caller (it runs session calls one after another, and      *)
(* calls again from its on_token callback) or the worker of a stream.      *)
(***************************************************************************)
EXTENDS Integers, Sequences, FiniteSets

CONSTANTS
  Callers,    \* threads that call the session
  Workers,    \* worker threads generate_stream can start
  Kinds,      \* steering expressions; each steers names of its own
  Prefill,    \* the expressions that fire in the prefill
  Voiced,     \* the expressions that select an assistant role
  None,       \* no thread, no expression
  Ops,        \* the session calls this instance makes
  MaxTokens,  \* max_new_tokens
  MaxStack    \* bound: no scope is entered above this depth

AllOps == {"steer", "generate", "stream", "exclusive", "fit", "stop",
           "prefix", "joint"}

Threads == Callers \cup Workers

ASSUME ThreadsAssumption == Callers \cap Workers = {} /\ None \notin Threads
ASSUME KindsAssumption ==
  Prefill \subseteq Kinds /\ Voiced \subseteq Kinds /\ None \notin Kinds
ASSUME BoundsAssumption ==
  Ops \subseteq AllOps /\ MaxTokens \in Nat /\ MaxStack \in Nat

VARIABLES
  lockOwner, lockDepth,  \* _gen_lock, a threading.RLock
  phase,                 \* engine.phase
  pc,                    \* where each thread is
  arg,                   \* the expression of the call a thread makes
  entered,               \* scopes a caller entered and did not close
  stack, roles,          \* composer._stack and composer._roles
  installed,             \* the plan the steering manager holds
  txn,                   \* the generation transaction in flight
  held,                  \* what it acquired: reservation, runs, capture
  stopRequested,         \* state.stop_requested
  cancelled,             \* workers whose cancellation event is set
  stream,                \* the worker of a caller's open stream
  prefix,                \* the prefix cache: none, clean or steered
  refused,               \* history: callers a push or pop refused as re-entrant
                         \* though they were in no callback
  asked, late            \* history: the stop asked of this generation, and
                         \* the forwards finished since

lockVars  == <<lockOwner, lockDepth>>
steerVars == <<stack, roles, installed>>
histVars  == <<asked, late>>
vars == <<lockVars, phase, pc, arg, entered, steerVars, txn, held,
          stopRequested, cancelled, stream, prefix, refused, histVars>>

NewTxn(k) == [steer |-> k, scoped |-> FALSE, failed |-> FALSE, tokens |-> 0]
NoTxn == NewTxn(None)

Init ==
  /\ lockOwner = None /\ lockDepth = 0
  /\ phase = "IDLE"
  /\ pc = [t \in Threads |-> "idle"]
  /\ arg = [t \in Threads |-> None]
  /\ entered = [c \in Callers |-> 0]
  /\ stack = <<>> /\ roles = <<>> /\ installed = <<>>
  /\ txn = NoTxn
  /\ held = {}
  /\ stopRequested = FALSE /\ cancelled = {}
  /\ stream = [c \in Callers |-> None]
  /\ prefix = "none"
  /\ refused = {}
  /\ asked = "no" /\ late = 0

---------------------------------------------------------------------------
(* The lock and the control flow of one thread.                            *)

CanLock_GenerationsOnly(t) == lockOwner \in {None, t} \/ phase = "IDLE"
CanLock(t) == lockOwner \in {None, t}

Acquire(t) == lockOwner' = t /\ lockDepth' = lockDepth + 1

Release_NotNested == lockDepth' = 0 /\ lockOwner' = None
Release ==
  /\ lockDepth' = lockDepth - 1
  /\ lockOwner' = IF lockDepth = 1 THEN None ELSE lockOwner

Generating == phase # "IDLE"
MidGeneration == phase \in {"RUNNING", "FINALIZING"}

\* A caller calls the session between its own calls or from on_token (a
\* worker's consumer only queues events).  One callback makes at most one call.
MayCall(t) == t \in Callers /\ pc[t] \in {"idle", "callback"}

InGeneration(t) == Generating /\ lockOwner = t

\* Where a call returns to: the decode loop when a callback made it.
Back(t) == IF InGeneration(t) THEN "check" ELSE "idle"

GoTo(t, l) == pc' = [pc EXCEPT ![t] = l]

\* The call raises before it changes anything.
Refuse(t) ==
  /\ GoTo(t, Back(t))
  /\ UNCHANGED <<lockVars, phase, arg, entered, steerVars, txn, held,
                 stopRequested, cancelled, stream, prefix, refused, histVars>>

---------------------------------------------------------------------------
(* Steering scopes: SteeringScope.__enter__ / close, composer.push / pop.  *)

PlanOf(s) == [i \in 1..Len(s) |-> s[i].kind]

SteersPrefill(s) == \E i \in 1..Len(s) : s[i].kind \in Prefill

PrefixAfter_Kept(s) == prefix
PrefixAfter(s) == IF SteersPrefill(s) THEN "none" ELSE prefix

Popped == SubSeq(stack, 1, Len(stack) - 1)

\* The loop that drops the trailing roles bound above depth.
DropOrphanRoles_OffByOne(depth) ==
  \E n \in 0..Len(roles) :
    /\ n > 0 => roles[n].depth <= depth + 1
    /\ \A i \in n+1..Len(roles) : roles[i].depth > depth + 1
    /\ roles' = SubSeq(roles, 1, n)
DropOrphanRoles(depth) ==
  \E n \in 0..Len(roles) :
    /\ n > 0 => roles[n].depth <= depth
    /\ \A i \in n+1..Len(roles) : roles[i].depth > depth
    /\ roles' = SubSeq(roles, 1, n)

PushFrame(t, k) ==
  /\ stack' = Append(stack, [by |-> t, gen |-> InGeneration(t), kind |-> k])
  /\ roles' = IF k \in Voiced
              THEN Append(roles, [depth |-> Len(stack) + 1, role |-> k])
              ELSE roles

PopFrame ==
  /\ stack' = Popped
  /\ DropOrphanRoles(Len(stack) - 1)

\* rebuild_hooks after a pop left the frames of s: the outer head is
\* installed, or, when it no longer composes, all steering goes off and the
\* pop raises.
Reinstall_KeepsOld(s, ok) ==
  /\ installed' = IF ok THEN PlanOf(s) ELSE installed
  /\ prefix' = IF ok THEN PrefixAfter(s) ELSE prefix
Reinstall(s, ok) ==
  /\ installed' = IF ok THEN PlanOf(s) ELSE <<>>
  /\ prefix' = IF ok THEN PrefixAfter(s) ELSE prefix

\* The guard of push and pop: _mid_generation_phase.
RefusesSteering_Never(t) == FALSE
RefusesSteering(t) == MidGeneration

Refused(t) == IF pc[t] = "idle" THEN refused \cup {t} ELSE refused

PushCall(t, k) ==
  /\ "steer" \in Ops /\ MayCall(t) /\ Len(stack) < MaxStack
  /\ IF RefusesSteering(t)
     THEN GoTo(t, Back(t)) /\ refused' = Refused(t) /\ UNCHANGED arg
     ELSE /\ GoTo(t, "push") /\ UNCHANGED refused
          /\ arg' = [arg EXCEPT ![t] = k]
  /\ UNCHANGED <<lockVars, phase, entered, steerVars, txn, held,
                 stopRequested, cancelled, stream, prefix, histVars>>

\* The blocking acquire, then the append; a generation enters the scope of
\* its own transaction here, holding the lock already.
PushAcquire(t) ==
  /\ pc[t] \in {"push", "enter"} /\ CanLock(t)
  /\ Acquire(t)
  /\ PushFrame(t, arg[t])
  /\ GoTo(t, "pushing")
  /\ UNCHANGED <<phase, arg, entered, installed, txn, held, stopRequested,
                 cancelled, stream, prefix, refused, histVars>>

PushDone(t) ==
  /\ pc[t] = "pushing"
  /\ installed' = PlanOf(stack)
  /\ prefix' = PrefixAfter(stack)
  /\ Release
  /\ IF InGeneration(t)
     THEN /\ GoTo(t, "prepare")
          /\ txn' = [txn EXCEPT !.scoped = TRUE]
          /\ UNCHANGED entered
     ELSE /\ GoTo(t, "idle")
          /\ entered' = [entered EXCEPT ![t] = @ + 1]
          /\ UNCHANGED txn
  /\ arg' = [arg EXCEPT ![t] = None]
  /\ UNCHANGED <<phase, stack, roles, held, stopRequested, cancelled,
                 stream, refused, histVars>>

\* The rebuild raises before it touches the installed plan.
PushFail(t) ==
  /\ pc[t] = "pushing"
  /\ PopFrame
  /\ Release
  /\ IF InGeneration(t)
     THEN /\ GoTo(t, "exit")
          /\ txn' = [txn EXCEPT !.failed = TRUE]
     ELSE GoTo(t, "idle") /\ UNCHANGED txn
  /\ arg' = [arg EXCEPT ![t] = None]
  /\ UNCHANGED <<phase, entered, installed, held, stopRequested,
                 cancelled, stream, prefix, refused, histVars>>

\* close() forgets that the scope is entered before the pop that may raise.
PopCall(t) ==
  /\ "steer" \in Ops /\ MayCall(t) /\ entered[t] > 0
  /\ entered' = [entered EXCEPT ![t] = @ - 1]
  /\ IF RefusesSteering(t)
     THEN GoTo(t, Back(t)) /\ refused' = Refused(t)
     ELSE GoTo(t, "pop") /\ UNCHANGED refused
  /\ UNCHANGED <<lockVars, phase, arg, steerVars, txn, held, stopRequested,
                 cancelled, stream, prefix, histVars>>

PopAcquire(t) ==
  /\ pc[t] = "pop" /\ CanLock(t)
  /\ Acquire(t)
  /\ PopFrame
  /\ GoTo(t, "popping")
  /\ UNCHANGED <<phase, arg, entered, installed, txn, held, stopRequested,
                 cancelled, stream, prefix, refused, histVars>>

PopDone(t, ok) ==
  /\ pc[t] = "popping"
  /\ Reinstall(stack, ok)
  /\ Release
  /\ GoTo(t, "idle")
  /\ UNCHANGED <<phase, arg, entered, stack, roles, txn, held, stopRequested,
                 cancelled, stream, refused, histVars>>

---------------------------------------------------------------------------
(* One generation: engine.transaction around generate_one.                 *)

\* transaction()'s entry: the non-blocking lock, then the re-entry guard.
CanBegin_LockOnly(t) == CanLock(t)
CanBegin(t) == CanLock(t) /\ ~Generating

BeginTransaction(t, k) ==
  IF ~CanBegin(t)
  THEN /\ GoTo(t, IF pc[t] = "start" THEN "done" ELSE Back(t))
       /\ UNCHANGED <<lockVars, phase, arg, txn, histVars>>
  ELSE /\ Acquire(t)
       /\ phase' = "PREAMBLE"
       /\ arg' = [arg EXCEPT ![t] = k]
       /\ txn' = NewTxn(k)
       /\ GoTo(t, "resolve")
       /\ asked' = "no" /\ late' = 0

Generate(t, k) ==
  /\ "generate" \in Ops /\ MayCall(t)
  /\ BeginTransaction(t, k)
  /\ UNCHANGED <<entered, steerVars, held, stopRequested, cancelled, stream,
                 prefix, refused>>

\* The worker thread runs generate_one inside its cancellation scope.
WorkerStarts(w) ==
  /\ pc[w] = "start"
  /\ BeginTransaction(w, arg[w])
  /\ UNCHANGED <<entered, steerVars, held, stopRequested, cancelled, stream,
                 prefix, refused>>

Fails(t) == txn' = [txn EXCEPT !.failed = TRUE] /\ GoTo(t, "exit")

\* resolve_call, the consumer plan, opening the scope: loads artifacts.
Resolve(t) ==
  /\ pc[t] = "resolve"
  /\ \/ GoTo(t, "loom") /\ UNCHANGED txn
     \/ Fails(t)
  /\ UNCHANGED <<lockVars, phase, arg, entered, steerVars, held,
                 stopRequested, cancelled, stream, prefix, refused, histVars>>

\* begin_generation_turn reserves the branch; a stateless call opens no node.
StartLoomTurn(t) ==
  /\ pc[t] = "loom"
  /\ \/ /\ held' \in {held, held \cup {"reservation"}}
        /\ GoTo(t, IF txn.steer = None THEN "prepare" ELSE "enter")
        /\ UNCHANGED txn
     \/ Fails(t) /\ held' = held \cup {"reservation"}
  /\ UNCHANGED <<lockVars, phase, arg, entered, steerVars, stopRequested,
                 cancelled, stream, prefix, refused, histVars>>

\* Renders the prompt, resets the decode state, plans the reads.
Prepare(t) ==
  /\ pc[t] = "prepare"
  /\ \/ stopRequested' = FALSE /\ GoTo(t, "begin") /\ UNCHANGED txn
     \/ Fails(t) /\ UNCHANGED stopRequested
  /\ UNCHANGED <<lockVars, phase, arg, entered, steerVars, held, cancelled,
                 stream, prefix, refused, histVars>>

\* reads.begin binds the instrument runs, then attaches the capture when a run
\* asks for one.
BeginReads(t) ==
  /\ pc[t] = "begin"
  /\ \/ /\ held' \in {held \cup {"runs"}, held \cup {"runs", "capture"}}
        /\ phase' = "RUNNING"
        /\ GoTo(t, "check") /\ UNCHANGED txn
     \/ /\ held' \in {held, held \cup {"runs"}, held \cup {"runs", "capture"}}
        /\ txn' = [txn EXCEPT !.failed = TRUE]
        /\ GoTo(t, "teardown") /\ UNCHANGED phase
  /\ UNCHANGED <<lockVars, arg, entered, steerVars, stopRequested, cancelled,
                 stream, prefix, refused, histVars>>

IsStopRequested_OwnOnly(t) == t \in cancelled
IsStopRequested_SharedOnly(t) == stopRequested
IsStopRequested(t) == stopRequested \/ t \in cancelled

\* The head of the decode loop.
LoopEnds_OffByOne(t) == IsStopRequested(t) \/ txn.tokens > MaxTokens
LoopEnds(t) == IsStopRequested(t) \/ txn.tokens >= MaxTokens

StopCheck(t) ==
  /\ pc[t] = "check"
  /\ GoTo(t, IF LoopEnds(t) THEN "teardown" ELSE "forward")
  /\ UNCHANGED <<lockVars, phase, arg, entered, steerVars, txn, held,
                 stopRequested, cancelled, stream, prefix, refused, histVars>>

\* One forward and its sample: an emitted token, an end of sequence, or an
\* error out of the loop.
Forward(t) ==
  /\ pc[t] = "forward"
  /\ \/ GoTo(t, "callback") /\ txn' = [txn EXCEPT !.tokens = @ + 1]
     \/ GoTo(t, "teardown") /\ UNCHANGED txn
     \/ GoTo(t, "teardown") /\ txn' = [txn EXCEPT !.failed = TRUE]
  /\ late' = IF asked = "running" \/ t \in cancelled THEN late + 1 ELSE late
  /\ UNCHANGED <<lockVars, phase, arg, entered, steerVars, held,
                 stopRequested, cancelled, stream, prefix, refused, asked>>

\* on_token returns, or raises out of the decode.
Callback(t) ==
  /\ pc[t] = "callback"
  /\ \/ GoTo(t, "check") /\ UNCHANGED txn
     \/ GoTo(t, "teardown") /\ txn' = [txn EXCEPT !.failed = TRUE]
  /\ UNCHANGED <<lockVars, phase, arg, entered, steerVars, held,
                 stopRequested, cancelled, stream, prefix, refused, histVars>>

\* The generation's own close of its scope, entered or not.
PopOwnScope_UnlessFailed(ok) ==
  IF txn.scoped /\ ~txn.failed THEN PopFrame /\ Reinstall(Popped, ok)
                                ELSE UNCHANGED <<steerVars, prefix>>
PopOwnScope(ok) ==
  IF txn.scoped THEN PopFrame /\ Reinstall(Popped, ok)
                ELSE UNCHANGED <<steerVars, prefix>>

\* The inner finally: detach the capture, pop the own scope, FINALIZING.  A
\* pop that raises leaves the finally before the phase moves.
Teardown(t) ==
  /\ pc[t] = "teardown"
  /\ held' = held \ {"capture"}
  /\ \E ok \in {TRUE, ~txn.scoped} :
       /\ PopOwnScope(ok)
       /\ phase' = IF ok THEN "FINALIZING" ELSE phase
       /\ txn' = [txn EXCEPT !.scoped = FALSE, !.failed = @ \/ ~ok]
       /\ GoTo(t, IF ok /\ ~txn.failed THEN "finalize" ELSE "exit")
  /\ UNCHANGED <<lockVars, arg, entered, stopRequested, cancelled, stream,
                 refused, histVars>>

\* The finalize reads run unsteered by this generation's scope.
Finalize(t) ==
  /\ pc[t] = "finalize"
  /\ \/ GoTo(t, "exit") /\ UNCHANGED txn
     \/ Fails(t)
  /\ UNCHANGED <<lockVars, phase, arg, entered, steerVars, held,
                 stopRequested, cancelled, stream, prefix, refused, histVars>>

\* _release_generation: the capture, the reservation, the instrument runs.
ReleaseGeneration_NotRuns == held' = held \ {"capture", "reservation"}
ReleaseGeneration == held' = {}

EndPhase_UnlessFailed == phase' = IF txn.failed THEN phase ELSE "IDLE"
EndPhase == phase' = "IDLE"

\* A worker ends by queueing its done event, whatever its generation raised.
Ended_UnlessFailed(t) ==
  IF t \in Workers /\ ~txn.failed THEN "done" ELSE "idle"
Ended(t) == IF t \in Workers THEN "done" ELSE "idle"

\* transaction()'s finally: a scope the body left entered is popped (its error
\* swallowed), the session releases, then the phase and the lock go.
EndTransaction(t) ==
  /\ pc[t] = "exit"
  /\ \E ok \in {TRUE, ~txn.scoped} : PopOwnScope(ok)
  /\ ReleaseGeneration
  /\ EndPhase
  /\ Release
  /\ txn' = NoTxn
  /\ GoTo(t, Ended(t))
  /\ asked' = "no" /\ late' = 0
  /\ arg' = [arg EXCEPT ![t] = None]
  /\ UNCHANGED <<entered, stopRequested, cancelled, stream, refused>>

---------------------------------------------------------------------------
(* The other session calls.                                                *)

\* stop(): any thread, any time; history records the phase it was asked in.
Stop(t) ==
  /\ "stop" \in Ops /\ MayCall(t)
  /\ stopRequested' = TRUE
  /\ asked' = CASE phase = "RUNNING" -> "running"
                [] phase = "PREAMBLE" -> "preamble"
                [] OTHER -> asked
  /\ GoTo(t, Back(t))
  /\ UNCHANGED <<lockVars, phase, arg, entered, steerVars, txn, held,
                 cancelled, stream, prefix, late, refused>>

\* generate_stream: _WorkerStream starts its worker thread.
StartStream(c, w, k) ==
  /\ "stream" \in Ops /\ pc[c] = "idle" /\ stream[c] = None
  /\ pc[w] = "idle"
  /\ stream' = [stream EXCEPT ![c] = w]
  /\ arg' = [arg EXCEPT ![w] = k]
  /\ GoTo(w, "start")
  /\ UNCHANGED <<lockVars, phase, entered, steerVars, txn, held,
                 stopRequested, cancelled, prefix, refused, histVars>>

\* close(), or the end of the iteration: cancel, then join.
CloseStream(c) ==
  /\ pc[c] = "idle" /\ stream[c] # None
  /\ cancelled' = cancelled \cup {stream[c]}
  /\ GoTo(c, "join")
  /\ UNCHANGED <<lockVars, phase, arg, entered, steerVars, txn, held,
                 stopRequested, stream, prefix, refused, histVars>>

\* _finish after the join.
JoinStream(c) ==
  /\ pc[c] = "join" /\ pc[stream[c]] = "done"
  /\ pc' = [pc EXCEPT ![c] = "idle", ![stream[c]] = "idle"]
  /\ arg' = [arg EXCEPT ![stream[c]] = None]
  /\ cancelled' = cancelled \ {stream[c]}
  /\ stream' = [stream EXCEPT ![c] = None]
  /\ UNCHANGED <<lockVars, phase, entered, steerVars, txn, held,
                 stopRequested, prefix, refused, histVars>>

\* assert_unsteered; cache_prefix asks the same.
Unsteered_Unchecked == TRUE
Unsteered_PlanOnly == installed = <<>>
Unsteered == stack = <<>>

\* _model_exclusive around a model operation.  guarded: it also refuses a
\* generation in flight (phase_msg).  unsteered: artifact-producing work,
\* which asserts under the lock that no scope is open.
Exclusive(t, guarded, unsteered) ==
  /\ MayCall(t)
  /\ IF ~CanLock(t) THEN Refuse(t)
     ELSE IF guarded /\ Generating THEN Refuse(t)
     ELSE IF unsteered /\ ~Unsteered THEN Refuse(t)
     ELSE /\ Acquire(t)
          /\ GoTo(t, IF unsteered THEN "fit" ELSE "work")
          /\ UNCHANGED <<phase, arg, entered, steerVars, txn, held,
                         stopRequested, cancelled, stream, prefix, refused,
                         histVars>>

ModelOp(t) == "exclusive" \in Ops /\ \E g \in BOOLEAN : Exclusive(t, g, FALSE)

Fit(t) == "fit" \in Ops /\ Exclusive(t, TRUE, TRUE)

EndExclusive(t) ==
  /\ pc[t] \in {"work", "fit"}
  /\ Release
  /\ GoTo(t, Back(t))
  /\ UNCHANGED <<phase, arg, entered, steerVars, txn, held, stopRequested,
                 cancelled, stream, prefix, refused, histVars>>

\* cache_prefix(messages): its two checks, then, holding no lock, the
\* detached capture and the prefill.
CachePrefix(t) ==
  /\ "prefix" \in Ops /\ MayCall(t)
  /\ IF ~Unsteered THEN Refuse(t)
     ELSE IF Generating THEN Refuse(t)
     ELSE /\ GoTo(t, "prefix")
          /\ UNCHANGED <<lockVars, phase, arg, entered, steerVars, txn, held,
                         stopRequested, cancelled, stream, prefix, refused,
                         histVars>>

InstalledSteersPrefill == \E i \in DOMAIN installed : installed[i] \in Prefill

StartPrefill(t) ==
  /\ pc[t] = "prefix"
  /\ held' = held \ {"capture"}
  /\ GoTo(t, IF InstalledSteersPrefill THEN "prefill_steered" ELSE "prefill")
  /\ UNCHANGED <<lockVars, phase, arg, entered, steerVars, txn, stopRequested,
                 cancelled, stream, prefix, refused, histVars>>

EndPrefill(t) ==
  /\ pc[t] \in {"prefill", "prefill_steered"}
  /\ prefix' = IF pc[t] = "prefill_steered" \/ InstalledSteersPrefill
               THEN "steered" ELSE "clean"
  /\ GoTo(t, "idle")
  /\ UNCHANGED <<lockVars, phase, arg, entered, steerVars, txn, held,
                 stopRequested, cancelled, stream, refused, histVars>>

\* joint_logprobs between its steering push and pop: forwards under no lock.
JointLogprobs(t) ==
  /\ "joint" \in Ops /\ t \in Callers /\ pc[t] = "idle"
  /\ GoTo(t, "replay")
  /\ UNCHANGED <<lockVars, phase, arg, entered, steerVars, txn, held,
                 stopRequested, cancelled, stream, prefix, refused, histVars>>

EndReplay(t) ==
  /\ pc[t] = "replay"
  /\ GoTo(t, "idle")
  /\ UNCHANGED <<lockVars, phase, arg, entered, steerVars, txn, held,
                 stopRequested, cancelled, stream, prefix, refused, histVars>>

---------------------------------------------------------------------------
\* The calls a thread chooses to make.
Calls(t) ==
  \/ \E k \in Kinds : PushCall(t, k)
  \/ PopCall(t)
  \/ \E k \in Kinds \cup {None} : Generate(t, k)
  \/ Stop(t)
  \/ ModelOp(t)
  \/ Fit(t)
  \/ CachePrefix(t)
  \/ JointLogprobs(t)

StreamCalls(c) ==
  \/ \E w \in Workers, k \in Kinds \cup {None} : StartStream(c, w, k)
  \/ CloseStream(c)

\* What a thread does inside a call.
Step(t) ==
  \/ PushAcquire(t) \/ PushDone(t) \/ PushFail(t)
  \/ PopAcquire(t) \/ (\E ok \in BOOLEAN : PopDone(t, ok))
  \/ WorkerStarts(t) \/ Resolve(t) \/ StartLoomTurn(t) \/ Prepare(t)
  \/ BeginReads(t) \/ StopCheck(t) \/ Forward(t) \/ Callback(t)
  \/ Teardown(t) \/ Finalize(t) \/ EndTransaction(t)
  \/ EndExclusive(t) \/ StartPrefill(t) \/ EndPrefill(t) \/ EndReplay(t)

Next ==
  \/ \E t \in Threads : Calls(t) \/ Step(t)
  \/ \E c \in Callers : StreamCalls(c) \/ JoinStream(c)

Spec == Init /\ [][Next]_vars

\* Every thread inside a call keeps running, and on_token returns.  Nothing is
\* assumed of when threads call, and nothing of who a free lock goes to.
Fairness ==
  /\ \A t \in Threads : WF_vars(Step(t))
  /\ \A c \in Callers : WF_vars(JoinStream(c))

FairSpec == Spec /\ Fairness

---------------------------------------------------------------------------
(* Types and the inductive invariant.                                      *)

Phases == {"IDLE", "PREAMBLE", "RUNNING", "FINALIZING"}
PreamblePCs == {"resolve", "loom", "enter", "prepare", "begin"}
DecodePCs == {"check", "forward", "callback"}
LockedPCs == PreamblePCs \cup DecodePCs \cup
             {"pushing", "popping", "work", "fit", "teardown", "finalize", "exit"}
UnlockedDevicePCs == {"prefill", "prefill_steered", "replay"}
WaitingPCs == {"idle", "push", "pop", "join", "prefix", "start", "done"}
PCs == LockedPCs \cup UnlockedDevicePCs \cup WaitingPCs
Resources == {"reservation", "runs", "capture"}

Frames == [by : Threads, gen : BOOLEAN, kind : Kinds]

ControlTypeOK ==
  /\ lockOwner \in Threads \cup {None} /\ lockDepth \in 0..2
  /\ phase \in Phases
  /\ pc \in [Threads -> PCs]
  /\ arg \in [Threads -> Kinds \cup {None}]
  /\ held \subseteq Resources
  /\ stopRequested \in BOOLEAN /\ cancelled \subseteq Workers
  /\ stream \in [Callers -> Workers \cup {None}]
  /\ refused \subseteq Callers
  /\ asked \in {"no", "preamble", "running"} /\ late \in Nat

SteeringTypeOK ==
  /\ entered \in [Callers -> Nat]
  /\ stack \in Seq(Frames)
  /\ roles \in Seq([depth : Nat, role : Voiced])
  /\ installed \in Seq(Kinds)
  /\ prefix \in {"none", "clean", "steered"}

Txns == [steer : Kinds \cup {None}, scoped : BOOLEAN, failed : BOOLEAN,
         tokens : 0..MaxTokens]

TypeOK == ControlTypeOK /\ SteeringTypeOK /\ txn \in Txns

\* The lock is held exactly by the thread inside a locked section, at the depth
\* its nesting gives; the phase is the one its generation has reached.
LockInv ==
  /\ \A t \in Threads : pc[t] \in LockedPCs <=> lockOwner = t
  /\ lockOwner = None => phase = "IDLE" /\ lockDepth = 0
  /\ \A t \in Threads : lockOwner = t =>
       lockDepth = IF Generating /\ pc[t] \in {"pushing", "work"} THEN 2 ELSE 1

PhaseInv ==
  \A t \in Threads :
    /\ pc[t] \in PreamblePCs => phase = "PREAMBLE"
    /\ pc[t] \in DecodePCs => phase = "RUNNING"
    /\ pc[t] = "pushing" => phase \in {"IDLE", "PREAMBLE"}
    /\ pc[t] = "work" => phase \in {"IDLE", "RUNNING"}
    /\ pc[t] \in {"popping", "fit"} => phase = "IDLE"
    /\ pc[t] = "teardown" => phase \in {"PREAMBLE", "RUNNING"}
    /\ pc[t] = "finalize" => phase = "FINALIZING"
    /\ pc[t] = "exit" => Generating

\* What a thread carries through its steps.
ArgInv ==
  \A t \in Threads :
    /\ pc[t] \in {"push", "enter"} => arg[t] \in Kinds
    /\ pc[t] \in {"resolve", "loom"} => arg[t] = txn.steer
    /\ pc[t] = "forward" => txn.tokens < MaxTokens

IInv == TypeOK /\ LockInv /\ PhaseInv /\ ArgInv

\* Nothing of a generation is left once it ended.
ReleaseInv == ~Generating => held = {} /\ txn = NoTxn

\* What is installed is the stack's plan, or nothing; while a scope is being
\* entered, the plan of the stack below it.
InstalledInv ==
  /\ (\A t \in Threads : pc[t] \notin {"pushing", "popping"})
       => installed \in {PlanOf(stack), <<>>}
  /\ \A t \in Threads : pc[t] = "pushing" =>
       stack # <<>> /\ installed \in {PlanOf(Popped), <<>>}
  /\ \A t \in Threads : pc[t] = "fit" => stack = <<>>

\* Roles are bound in the order of their frames, and are just those frames'.
RolesInv ==
  /\ \A i, j \in DOMAIN roles : i < j => roles[i].depth < roles[j].depth
  /\ \A i \in DOMAIN roles :
       /\ roles[i].depth \in DOMAIN stack
       /\ stack[roles[i].depth].kind = roles[i].role
  /\ \A k \in DOMAIN stack : stack[k].kind \in Voiced =>
       \E i \in DOMAIN roles : roles[i].depth = k

\* The only frame of a generation is the top one, and it is there exactly when
\* the generation is inside its scope, or is entering it.
FramesInv ==
  /\ \A i \in DOMAIN stack : stack[i].gen =>
       /\ i = Len(stack) /\ stack[i].by = lockOwner /\ Generating
       /\ txn.scoped \/ pc[lockOwner] = "pushing"
  /\ txn.scoped => stack # <<>> /\ stack[Len(stack)].gen
  /\ \A t \in Threads :
       /\ pc[t] = "pushing" => stack # <<>> /\ stack[Len(stack)].gen = Generating
       /\ pc[t] \in {"resolve", "loom", "enter", "pushing"} => ~txn.scoped

\* A forward that ran after the stop was the one in flight.
StopInv ==
  /\ asked = "running" => stopRequested /\ phase \in {"RUNNING", "FINALIZING"}
  /\ late <= 1
  /\ late = 1 =>
       /\ asked = "running" \/ lockOwner \in cancelled
       /\ phase \in {"RUNNING", "FINALIZING"}
       /\ pc[lockOwner] # "forward"

SessionInv ==
  IInv /\ ReleaseInv /\ InstalledInv /\ RolesInv /\ FramesInv /\ StopInv

---------------------------------------------------------------------------
(* Properties.                                                             *)

OnDevice(t) == pc[t] \in LockedPCs \cup UnlockedDevicePCs

\* The device has one user: two threads are never both issuing model work
\* (one global MPS command buffer; interleaved command streams abort).
OneDeviceUser ==
  \A t, u \in Threads : OnDevice(t) /\ OnDevice(u) => t = u

\* The hooks a decode runs under do not move: from its first stop check to the
\* end of its loop no thread, and none of its callbacks, changes the steering.
Decoding == phase = "RUNNING" /\ \A t \in Threads : pc[t] \notin {"teardown", "exit"}
SteeringStableInDecode == [][Decoding => UNCHANGED steerVars]_vars

\* The installed steering is a function of the stack whenever no thread is
\* inside a push or a pop: the composed stack, or nothing after a pop whose
\* outer head no longer composes.  It is never the plan of a popped scope.
InstalledFollowsStack ==
  (\A t \in Threads : pc[t] \notin {"pushing", "popping"})
    => installed \in {PlanOf(stack), <<>>}

\* The bound roles are those of the frames on the stack, at their depths.
RolesFollowStack ==
  {<<roles[i].depth, roles[i].role>> : i \in DOMAIN roles} =
  {<<i, stack[i].kind>> : i \in {j \in DOMAIN stack : stack[j].kind \in Voiced}}

\* A generation that entered its scope finds its own frame on top when it tears
\* the scope down, and no generation leaves a frame behind.
GenerationFramesAreOwned ==
  \A i \in DOMAIN stack : stack[i].gen =>
    /\ i = Len(stack) /\ stack[i].by = lockOwner /\ Generating

\* The stack is what is in force: its plan is installed, its roles are bound,
\* and every frame of a generation belongs to the one that runs.
SteeringFollowsStack ==
  InstalledFollowsStack /\ RolesFollowStack /\ GenerationFramesAreOwned

\* Between generations nothing of one is left: no reservation that would refuse
\* tree edits, no bound instrument run, no capture hook, no phase.
IdleMeansReleased ==
  (\A t \in Threads : pc[t] \in WaitingPCs)
    => held = {} /\ phase = "IDLE" /\ txn = NoTxn /\ lockDepth = 0

\* Artifact-producing model work (fits, neutral capture) runs unsteered.
FitsRunUnsteered ==
  (\E t \in Threads : pc[t] = "fit") => stack = <<>> /\ installed = <<>>

\* After a stop asked of a running decode, or a closed stream, at most the step
\* in flight still finishes.
StopIsPrompt == late <= 1

\* The session implements the abstract model access.
Access == INSTANCE ModelAccess WITH user <- lockOwner
ImplementsModelAccess == Access!Spec

\* Every generation that begins ends, whatever fails in it.
GenerationEnds == Generating ~> ~Generating

\* Closing a stream returns: the join waits for a worker that sees the cancel.
CloseReturns ==
  \A c \in Callers : pc[c] = "join" ~> pc[c] = "idle"

\* Every call comes back: the generation behind it ends, and so does a close.
CallsReturn == GenerationEnds /\ CloseReturns

\* A cached prefix is unsteered.
PrefixIsUnsteered == prefix # "steered"

\* No prefix stays cached under a stack that steers the prefill: decodes there
\* would start from a residual stream the steering never touched.
PrefixIsInvalidated ==
  (\A t \in Threads : pc[t] \notin {"pushing", "popping"})
    => prefix = "none" \/ ~SteersPrefill(stack)

\* A decode over a cached prefix starts where a full prefill would have.
PrefixIsNeutral == PrefixIsUnsteered /\ PrefixIsInvalidated

\* Only a thread inside a generation callback is refused as re-entering it:
\* another thread's push or pop waits for the generation.
OthersWait == \A c \in Callers : pc[c] = "idle" => c \notin refused

\* Once every scope is closed no role stays bound, even when an exit raised.
NoRoleLeftBound ==
  (\A t \in Threads : pc[t] = "idle") /\ (\A c \in Callers : entered[c] = 0)
    => roles = <<>>

\* A stop asked while the generation is in flight lets at most one step finish.
StopIsHonoured == asked = "preamble" => txn.tokens <= 1
=============================================================================
