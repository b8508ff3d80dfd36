--------------------------- MODULE ServerOperations ---------------------------
(***************************************************************************)
(* The server's long operations (drowse/server/operations.py, runtime.py   *)
(* and the receipts of ws_stream.py): HTTP operations in tasks of the      *)
(* server, generations of the WebSocket, lens preparations, the one FIFO   *)
(* session lock they wait for, the ledger of receipts that tells a client  *)
(* that lost its connection what became of its request, and the shutdown   *)
(* that joins them.                                                        *)
(*                                                                         *)
(* A job is the time it holds the lock and the model and how it ends; what *)
(* it writes is in ManifoldStore, LensFit and DrowseSession.  A size is a  *)
(* number of units of payload, a generation's frame weighs one.            *)
(***************************************************************************)
EXTENDS Integers, Sequences, FiniteSets, SequencesExt

CONSTANTS
  Params,      \* what a request asks for, as far as its fingerprint tells
  Rows,        \* siblings of a generation
  Fetch, Fit,  \* the lens family's preparations
  MaxEntries, MaxActive, MaxResult, MaxTotal, \* limits of OperationLedger
  MaxStarts,   \* bound: requests made and preparations started
  Shutdowns,   \* whether the server may stop
  None

\* How a request ends, those that are not admitted included.
Ends == {"completed", "failed", "cancelled", "timeout", "left", "interrupted",
         "unencoded", "existing", "conflict", "full"}

ASSUME OperationsAssumption ==
  /\ {MaxEntries, MaxActive, Rows} \subseteq Nat \ {0} /\ MaxActive <= MaxEntries
  /\ {MaxResult, MaxTotal, MaxStarts} \subseteq Nat
  /\ Shutdowns \in BOOLEAN /\ {None, Fetch, Fit} \cap Nat = {}
  /\ Fetch # Fit /\ None \notin {Fetch, Fit} \cup Ends

\* Requests are numbered as they are made, request ids as they are first used.
Requests == 1..MaxStarts
Ids == 1..MaxStarts
Preps == {Fetch, Fit}

VARIABLES
  op,      \* per request: its task or WebSocket handler
  lock,    \* app.state.session_lock: its holder, or None
  waiters, \* who waits for it, in order
  gen,     \* who holds the session's gen_lock, or None
  ledger,  \* app.state.operations
  prep,    \* per preparation: its task
  started, \* how many requests were made and preparations started
  server   \* "up", or how far the shutdown is

vars == <<op, lock, waiters, gen, ledger, prep, started, server>>

Unsent == [pc |-> "unsent", mode |-> "sse", id |-> None, here |-> TRUE, ran |-> FALSE,
           rows |-> <<>>, stopped |-> FALSE, end |-> None]

Init ==
  /\ op = [r \in Requests |-> Unsent]
  /\ lock = None /\ waiters = <<>> /\ gen = None
  /\ ledger = [rec |-> <<>>, order |-> <<>>, charge |-> <<>>, kept |-> <<>>]
  /\ prep = [p \in Preps |-> [pc |-> "idle", cancel |-> FALSE, end |-> None]]
  /\ started = 0 /\ server = "up"

At(r, l) == op[r].pc = l
Http(r) == op[r].mode # "ws"

---------------------------------------------------------------------------
(* OperationLedger.  rec and order are its OrderedDict of records; charge  *)
(* and kept are _retained: bytes by id, in the order they were charged.    *)

Terminal == {"completed", "failed", "interrupted", "cancelled"}

Known(L) == DOMAIN L.rec
Live(L, i) == i \in Known(L) /\ L.rec[i].state \notin Terminal
Finished(L, i) == i \in Known(L) /\ L.rec[i].state \in Terminal

Without(f, i) == [j \in DOMAIN f \ {i} |-> f[j]]
With(f, i, v) == [j \in DOMAIN f \cup {i} |-> IF j = i THEN v ELSE f[j]]

Admission(i, fingerprint) ==
  IF i \in Known(ledger)
  THEN IF ledger.rec[i].fingerprint = fingerprint THEN "existing" ELSE "conflict"
  ELSE IF Cardinality({j \in Known(ledger) : Live(ledger, j)}) >= MaxActive
       THEN "full" ELSE "new"

Oldest_OfAll(L) == 1
\* The record that makes room: the oldest finished one, by its place.
Oldest(L) == CHOOSE k \in DOMAIN L.order :
               /\ Finished(L, L.order[k])
               /\ \A j \in 1..(k - 1) : ~Finished(L, L.order[j])

Forget_KeepsCharge(L, k) ==
  LET i == L.order[k] IN
  [L EXCEPT !.rec = Without(@, i), !.order = RemoveAt(@, k)]
Forget(L, k) ==
  LET i == L.order[k] IN
  [L EXCEPT !.rec = Without(@, i), !.charge = Without(@, i),
            !.order = RemoveAt(@, k), !.kept = SelectSeq(@, LAMBDA j : j # i)]

Evict(L) == IF Cardinality(Known(L)) < MaxEntries THEN L ELSE Forget(L, Oldest(L))

Admit(L, i, r, kind, fingerprint) ==
  LET M == Evict(L) IN
  [M EXCEPT
     !.rec = With(@, i, [state |-> IF kind = "http" THEN "queued" ELSE "running", by |-> r,
                         kind |-> kind, fingerprint |-> fingerprint,
                         rows |-> <<>>, result |-> 0, error |-> FALSE]),
     !.order = Append(@, i)]

\* _touch with a state, for records that are not final yet.
Settle(L, i, state) == IF Live(L, i) THEN [L EXCEPT !.rec[i].state = state] ELSE L

Fail(L, i, state) ==
  IF Live(L, i) THEN [L EXCEPT !.rec[i].state = state, !.rec[i].error = TRUE] ELSE L

Load(L, ids) == MapThenSumSet(LAMBDA i : L.charge[i], ids)

\* _retain: the oldest finished payloads go until the rest fits the budget.
Retain(L, id, size) ==
  LET C == [L EXCEPT !.charge = With(@, id, size),
                     !.kept = IF Contains(@, id) THEN @ ELSE Append(@, id)]
      Spare == {k \in DOMAIN C.kept : C.kept[k] # id /\ Finished(C, C.kept[k])}
      First(k) == {C.kept[j] : j \in {n \in Spare : n < k}}
      Dropped == {C.kept[k] : k \in {n \in Spare :
                    Load(C, DOMAIN C.charge \ First(n)) > MaxTotal}}
  IN [C EXCEPT !.charge = [i \in DOMAIN @ \ Dropped |-> @[i]],
               !.kept = SelectSeq(@, LAMBDA i : i \notin Dropped),
               !.rec = [i \in DOMAIN @ |-> IF i \in Dropped
                          THEN [@[i] EXCEPT !.result = 0, !.rows = <<>>] ELSE @[i]]]

Lesser(a, b) == IF a < b THEN a ELSE b

\* complete: a payload too large for the ledger leaves its digest only.
Complete(L, i, size) ==
  IF ~Live(L, i) THEN L
  ELSE IF size <= Lesser(MaxResult, MaxTotal)
       THEN Retain([L EXCEPT !.rec[i].state = "completed", !.rec[i].result = size], i, size)
       ELSE [L EXCEPT !.rec[i].state = "completed"]

\* observe of the done frame of a sibling, which replaces an earlier one of it.
ObserveRow(L, i, row, reason) ==
  IF i \notin Known(L) THEN L
  ELSE Retain([L EXCEPT !.rec[i].rows = With(@, row, reason)], i,
              (IF i \in DOMAIN L.charge THEN L.charge[i] ELSE 0) + 1)

ObserveError(L, i) == IF i \in Known(L) THEN [L EXCEPT !.rec[i].error = TRUE] ELSE L

SettleDisconnected_AnyRows(L, i) ==
  IF ~Live(L, i) THEN L
  ELSE Settle(L, i,
         IF L.rec[i].error THEN "failed"
         ELSE IF \A k \in DOMAIN L.rec[i].rows : L.rec[i].rows[k] # "cancelled"
              THEN "completed" ELSE "cancelled")

SettleDisconnected(L, i) ==
  IF ~Live(L, i) THEN L
  ELSE Settle(L, i,
         IF L.rec[i].error THEN "failed"
         ELSE IF /\ Cardinality(DOMAIN L.rec[i].rows) = Rows
                 /\ \A k \in DOMAIN L.rec[i].rows : L.rec[i].rows[k] # "cancelled"
              THEN "completed" ELSE "cancelled")

---------------------------------------------------------------------------
(* The session lock: asyncio.Lock serves its waiters in order.             *)

Enqueue(x) == waiters' = Append(waiters, x)
Leave_Never(x) == UNCHANGED waiters
Leave(x) == waiters' = SelectSeq(waiters, LAMBDA y : y # x)

Granted(x) ==
  /\ lock = None /\ waiters # <<>> /\ Head(waiters) = x
  /\ lock' = x /\ waiters' = Tail(waiters)

Release == lock' = None /\ UNCHANGED waiters

---------------------------------------------------------------------------
(* A request and its admission.                                            *)

Submit(r, mode, i, params) ==
  LET kind == IF mode = "ws" THEN "generate" ELSE "http"
      fingerprint == <<kind, params>>
      admission == IF i = None THEN "new" ELSE Admission(i, fingerprint)
  IN /\ server = "up" /\ At(r, "unsent") /\ started < MaxStarts
     /\ \A q \in 1..(r - 1) : ~At(q, "unsent")
     /\ started' = started + 1
     /\ IF admission # "new"
        THEN /\ op' = [op EXCEPT ![r] = [Unsent EXCEPT !.pc = "done", !.mode = mode,
                                                       !.end = admission]]
             /\ UNCHANGED <<ledger, waiters>>
        ELSE /\ op' = [op EXCEPT ![r] = [Unsent EXCEPT !.pc = "queued", !.mode = mode, !.id = i]]
             /\ ledger' = IF i = None THEN ledger ELSE Admit(ledger, i, r, kind, fingerprint)
             /\ Enqueue(r)
     /\ UNCHANGED <<lock, gen, prep, server>>

Over(r, how) == [Unsent EXCEPT !.pc = "done", !.mode = op[r].mode, !.id = op[r].id,
                                !.ran = op[r].ran, !.end = how]
End(r, how) == op' = [op EXCEPT ![r] = Over(r, how)]

Withdrawn_EvenIfStarted(r) == op[r].mode = "sse" /\ op[r].id = None
\* _observe: who abandons its stream takes a queued job with it.
Withdrawn(r) == op[r].mode = "sse" /\ op[r].id = None /\ At(r, "queued")

\* A task is cancelled; the lock of a started one goes with it.
CancelTask(r) ==
  /\ End(r, "cancelled")
  /\ lock' = IF lock = r THEN None ELSE lock
  /\ gen' = IF gen = r THEN None ELSE gen
  /\ Leave(r)
  /\ ledger' = Fail(ledger, op[r].id, "interrupted")

\* A client that waits for JSON leaves no trace: its job goes on.
ClientLeaves(r) ==
  /\ op[r].here /\ op[r].mode # "json" /\ op[r].pc \notin {"unsent", "done"}
  /\ IF Withdrawn(r)
     THEN CancelTask(r)
     ELSE /\ op' = [op EXCEPT ![r].here = FALSE]
          /\ UNCHANGED <<lock, gen, waiters, ledger>>
  /\ UNCHANGED <<prep, started, server>>

\* session_lock gives up after SESSION_LOCK_TIMEOUT_SECONDS; a stream of
\* server-sent events waits without a bound.
LockTimesOut(r) ==
  /\ At(r, "queued") /\ op[r].mode # "sse"
  /\ Leave(r)
  /\ ledger' = Fail(ledger, op[r].id, "failed")
  /\ End(r, "timeout")
  /\ UNCHANGED <<lock, gen, prep, started, server>>

---------------------------------------------------------------------------
(* run_operation: a job of an HTTP request.                                *)

Starts(r) ==
  /\ At(r, "queued") /\ Http(r) /\ Granted(r)
  /\ op' = [op EXCEPT ![r].pc = "held", ![r].ran = TRUE]
  /\ ledger' = Settle(ledger, op[r].id, "running")
  /\ UNCHANGED <<gen, prep, started, server>>

\* The session admits one model operation and refuses the next.
TakesModel(r) ==
  /\ At(r, "held") /\ gen = None
  /\ gen' = r
  /\ op' = [op EXCEPT ![r].pc = "working"]
  /\ UNCHANGED <<lock, waiters, ledger, prep, started, server>>

JobFails(r) ==
  /\ \/ At(r, "held") /\ gen # None
     \/ At(r, "working")
  /\ End(r, "failed")
  /\ Release /\ gen' = IF gen = r THEN None ELSE gen
  /\ ledger' = Fail(ledger, op[r].id, "failed")
  /\ UNCHANGED <<prep, started, server>>

JobSucceeds(r, size) ==
  /\ At(r, "working") /\ Http(r)
  /\ End(r, "completed")
  /\ Release /\ gen' = None
  /\ ledger' = Complete(ledger, op[r].id, size)
  /\ UNCHANGED <<prep, started, server>>

\* An answer with NaN cannot be encoded (complete): the task dies with it, and
\* nobody settles the receipt.
AnswerFails(r) ==
  /\ At(r, "working") /\ Http(r) /\ op[r].id # None
  /\ End(r, "unencoded")
  /\ Release /\ gen' = None
  /\ UNCHANGED <<ledger, prep, started, server>>

---------------------------------------------------------------------------
(* _ws_handle_generate: a fan of generations and its receipt.          *)

FanStarts(r) ==
  /\ At(r, "queued") /\ ~Http(r) /\ Granted(r)
  /\ op' = [op EXCEPT ![r].pc = "row"]
  /\ UNCHANGED <<gen, ledger, prep, started, server>>

\* The started frame goes out and the worker takes the model.
RowStarts(r) ==
  /\ At(r, "row") /\ gen = None /\ op[r].here
  /\ gen' = r
  /\ op' = [op EXCEPT ![r].pc = "generating", ![r].ran = TRUE]
  /\ UNCHANGED <<lock, waiters, ledger, prep, started, server>>

ClientStops(r) ==
  /\ At(r, "generating") /\ op[r].here /\ ~op[r].stopped
  /\ op' = [op EXCEPT ![r].stopped = TRUE]
  /\ UNCHANGED <<lock, waiters, gen, ledger, prep, started, server>>

\* The handler reports what happened and the request is over.
FanEnds(r, L, how) ==
  /\ ledger' = L
  /\ End(r, how)
  /\ Release /\ gen' = IF gen = r THEN None ELSE gen

\* A row fails, or the model is busy: an error frame, and no more rows.
RowFails(r) ==
  /\ \/ At(r, "generating")
     \/ At(r, "row") /\ gen # None
  /\ op[r].here
  /\ FanEnds(r, Settle(ObserveError(ledger, op[r].id), op[r].id, "failed"), "failed")
  /\ UNCHANGED <<prep, started, server>>

Row_OffByOne(r) == Len(op[r].rows)
Row(r) == Len(op[r].rows) + 1

\* How a row ended, for this client: its stop turns the engine's stop into
\* a cancellation, but a row that reached its length stays one.  A row that ended is
\* recorded the same either way.
Reported(r, reason) == IF op[r].stopped /\ reason = "stop" THEN "cancelled" ELSE "ended"

\* The worker ends, and the row is in the ledger before its frame is sent.
RowEnds(r, reason) ==
  /\ At(r, "generating") /\ op[r].here
  /\ ledger' = ObserveRow(ledger, op[r].id, Row(r), Reported(r, reason))
  /\ op' = [op EXCEPT ![r].pc = "send", ![r].rows = Append(@, Reported(r, reason))]
  /\ gen' = None
  /\ UNCHANGED <<lock, waiters, prep, started, server>>

StateOf(r) == IF \E k \in DOMAIN op[r].rows : op[r].rows[k] = "cancelled"
              THEN "cancelled" ELSE "completed"

\* The done frame goes through the ledger once more, and out; the fan goes on
\* unless it was stopped.
Resent(r) == LET k == Len(op[r].rows) IN ObserveRow(ledger, op[r].id, k, op[r].rows[k])
RowSent(r) ==
  LET L == Resent(r)
  IN /\ At(r, "send") /\ op[r].here
     /\ IF Len(op[r].rows) < Rows /\ ~op[r].stopped
        THEN /\ ledger' = L
             /\ op' = [op EXCEPT ![r].pc = "row"]
             /\ UNCHANGED <<lock, waiters, gen>>
        ELSE FanEnds(r, Settle(L, op[r].id, StateOf(r)), StateOf(r))
     /\ UNCHANGED <<prep, started, server>>

\* What the thread of a fan that breaks off leaves in the ledger, once joined: its
\* row or its error.
Recovered(r, reason) ==
  IF ~At(r, "generating") THEN ledger
  ELSE IF reason = "error" THEN ObserveError(ledger, op[r].id)
  ELSE ObserveRow(ledger, op[r].id, Row(r), reason)

BreaksOff(r, reason, L, how) ==
  /\ ~Http(r)
  /\ \/ At(r, "generating")
     \/ op[r].pc \in {"queued", "row", "send"} /\ reason = "cancelled"
  /\ ledger' = L
  /\ End(r, how) /\ Leave(r)
  /\ lock' = IF lock = r THEN None ELSE lock
  /\ gen' = IF gen = r THEN None ELSE gen
  /\ UNCHANGED <<prep, started, server>>

\* The client is gone and the handler is cancelled: the receipt is settled from
\* the rows it has.
FanIsLeft(r, reason) ==
  /\ ~op[r].here
  /\ BreaksOff(r, reason, SettleDisconnected(Recovered(r, reason), op[r].id), "left")

\* A frame cannot be sent, or not be made: an error frame says so.  If that cannot
\* be sent either, or its handler is cancelled in it, the receipt is interrupted,
\* whatever the fan had done.
SendFails(r, reason, reported) ==
  LET L == IF At(r, "send") THEN Resent(r) ELSE Recovered(r, reason)
      M == ObserveError(L, op[r].id)
  IN /\ reported => op[r].here
     /\ IF reported
        THEN BreaksOff(r, reason, Settle(M, op[r].id, "failed"), "failed")
        ELSE BreaksOff(r, reason, Fail(M, op[r].id, "interrupted"), "interrupted")

---------------------------------------------------------------------------
(* Preparations: one of the family at a time, cancelled cooperatively.     *)

Preparing(p) == prep[p].pc # "idle"

RefusedIfBusy(p) == \A q \in Preps : ~Preparing(q)

PrepStart(p) ==
  /\ server = "up" /\ RefusedIfBusy(p) /\ started < MaxStarts
  /\ started' = started + 1
  /\ prep' = [prep EXCEPT ![p] = [pc |-> "corpus", cancel |-> FALSE, end |-> None]]
  /\ UNCHANGED <<op, lock, waiters, gen, ledger, server>>

\* request_cancel: a fit looks at its event, a fetch has none.
PrepCancel(p) ==
  /\ p = Fit /\ Preparing(p) /\ ~prep[p].cancel
  /\ prep' = [prep EXCEPT ![p].cancel = TRUE]
  /\ UNCHANGED <<op, lock, waiters, gen, ledger, started, server>>

PrepGoes(p, l) == prep' = [prep EXCEPT ![p].pc = l]
PrepEnds(p, how) == prep' = [prep EXCEPT ![p] = [pc |-> "idle", cancel |-> FALSE, end |-> how]]

\* The fetch of a lens, or the corpus and the no-op proof of a fit.
PrepFetched(p) ==
  /\ prep[p].pc = "corpus" /\ ~(p = Fit /\ prep[p].cancel)
  /\ \/ PrepGoes(p, "activate") /\ Enqueue(p)
     \/ p = Fit /\ PrepGoes(p, "fit") /\ UNCHANGED waiters
  /\ UNCHANGED <<op, lock, gen, ledger, started, server>>

\* session.lens.fit, in a thread that holds the model and no session lock.
FitTakesModel(p) ==
  /\ prep[p].pc = "fit" /\ gen = None
  /\ gen' = p
  /\ PrepGoes(p, "fitting")
  /\ UNCHANGED <<op, lock, waiters, ledger, started, server>>

FitFinishes(p) ==
  /\ prep[p].pc = "fitting"
  /\ gen' = None
  /\ PrepGoes(p, "enable") /\ Enqueue(p)
  /\ UNCHANGED <<op, lock, ledger, started, server>>

PrepFails(p) ==
  /\ \/ prep[p].pc \in {"corpus", "fitting"}
     \/ prep[p].pc = "fit" /\ (gen # None \/ prep[p].cancel)
  /\ gen' = IF gen = p THEN None ELSE gen
  /\ PrepEnds(p, IF p = Fit /\ prep[p].cancel THEN "cancelled" ELSE "error")
  /\ UNCHANGED <<op, lock, waiters, ledger, started, server>>

\* Selecting the source and turning its live readout on needs the session
\* lock; a no-op fit takes it once to select and once more to enable.
PrepGranted(p) ==
  /\ prep[p].pc \in {"activate", "enable"} /\ Granted(p)
  /\ PrepGoes(p, IF prep[p].pc = "activate" THEN "activating" ELSE "enabling")
  /\ UNCHANGED <<op, gen, ledger, started, server>>

PrepUnlocks(p) ==
  /\ prep[p].pc \in {"activating", "enabling"}
  /\ lock' = None
  /\ \/ prep[p].pc = "activating" /\ p = Fit /\ PrepGoes(p, "enable") /\ Enqueue(p)
     \/ prep[p].pc = "activating" /\ PrepEnds(p, "error") /\ UNCHANGED waiters
     \/ /\ prep[p].pc = "enabling" \/ p = Fetch
        /\ PrepEnds(p, "done") /\ UNCHANGED waiters
  /\ UNCHANGED <<op, gen, ledger, started, server>>

\* Activation that times out fails; live readout is best effort.
PrepTimesOut(p) ==
  /\ prep[p].pc \in {"activate", "enable"} /\ Contains(waiters, p)
  /\ Leave(p)
  /\ PrepEnds(p, IF prep[p].pc = "activate" THEN "error" ELSE "done")
  /\ UNCHANGED <<op, lock, gen, ledger, started, server>>

---------------------------------------------------------------------------
(* Shutdown, once every connection is closed.  The tasks of abandoned      *)
(* streams are left: the queued are cancelled, the started are joined;     *)
(* then the preparations are told to stop and joined.                      *)

Abandoned(r) == op[r].mode = "sse" /\ ~op[r].here

Queued(r) == At(r, "queued")

Shutdown ==
  LET gone == {r \in Requests : Queued(r)} IN
  /\ Shutdowns /\ server = "up"
  /\ \A r \in Requests : op[r].pc \in {"unsent", "done"} \/ Abandoned(r)
  /\ server' = "joining"
  /\ op' = [r \in Requests |-> IF r \in gone THEN Over(r, "cancelled")
                               ELSE op[r]]
  /\ waiters' = SelectSeq(waiters, LAMBDA x : x \notin gone)
  /\ ledger' = [ledger EXCEPT !.rec = [i \in DOMAIN @ |->
                  IF @[i].by \in gone THEN [@[i] EXCEPT !.state = "interrupted", !.error = TRUE]
                  ELSE @[i]]]
  /\ UNCHANGED <<lock, gen, prep, started>>

Joined_QueuedOnly(r) == ~Queued(r)
Joined(r) == op[r].pc \in {"unsent", "done"}

StopPreparations ==
  /\ server = "joining" /\ \A r \in Requests : Joined(r)
  /\ server' = "stopping"
  /\ prep' = [p \in Preps |-> [prep[p] EXCEPT !.cancel = p = Fit /\ Preparing(p)]]
  /\ UNCHANGED <<op, lock, waiters, gen, ledger, started>>

Down ==
  /\ server = "stopping" /\ \A p \in Preps : ~Preparing(p)
  /\ server' = "down"
  /\ UNCHANGED <<op, lock, waiters, gen, ledger, prep, started>>

---------------------------------------------------------------------------

UsedIds == {op[r].id : r \in Requests} \ {None}
Submits(r) ==
  \E mode \in {"sse", "json", "ws"}, i \in Ids \cup {None},
     params \in Params :
    /\ mode = "ws" => i # None
    /\ i # None => i <= Cardinality(UsedIds) + 1
    /\ Submit(r, mode, i, params)
Runs(r) ==
  \/ Starts(r) \/ TakesModel(r)
  \/ \E size \in 1..(MaxResult + 1) : JobSucceeds(r, size)
  \/ AnswerFails(r)
  \/ Http(r) /\ JobFails(r)
  \/ FanStarts(r) \/ RowStarts(r) \/ RowFails(r)
  \/ \E reason \in {"stop", "length"} : RowEnds(r, reason)
  \/ RowSent(r)
  \/ \E reason \in {"ended", "cancelled", "error"} : FanIsLeft(r, reason)
Prepares(p) ==
  \/ PrepFetched(p) \/ FitTakesModel(p) \/ FitFinishes(p) \/ PrepFails(p)
  \/ PrepGranted(p) \/ PrepUnlocks(p)

Next ==
  \/ \E r \in Requests :
       \/ Submits(r) \/ Runs(r) \/ ClientLeaves(r) \/ LockTimesOut(r) \/ ClientStops(r)
       \/ \E reason \in {"ended", "cancelled", "error"}, reported \in BOOLEAN :
            SendFails(r, reason, reported)
  \/ \E p \in Preps :
       \/ PrepStart(p) \/ PrepCancel(p) \/ Prepares(p) \/ PrepTimesOut(p)
  \/ Shutdown \/ StopPreparations \/ Down

\* The event loop and the worker threads go on: jobs end, and who is woken runs.
\* No step can be repeated for ever, so this is fair to each of them.
Progress ==
  \/ \E r \in Requests : Runs(r)
  \/ \E p \in Preps : Prepares(p)
  \/ StopPreparations \/ Down

Spec == Init /\ [][Next]_vars /\ WF_vars(Progress)

---------------------------------------------------------------------------
(* Properties.                                                             *)

Outcomes == {"ended", "cancelled"}
Operation ==
  [pc : {"unsent", "queued", "held", "working", "row", "generating", "send", "done"},
   mode : {"sse", "json", "ws"}, id : Ids \cup {None}, here : BOOLEAN, ran : BOOLEAN,
   rows : Seq(Outcomes), stopped : BOOLEAN, end : Ends \cup {None}]
Preparation ==
  [pc : {"idle", "corpus", "fit", "fitting", "activate", "activating", "enable", "enabling"},
   cancel : BOOLEAN, end : {"done", "error", "cancelled", None}]
RowSets == UNION {[K -> Outcomes] : K \in SUBSET (1..Rows)}
Entry == [state : Terminal \cup {"queued", "running"}, by : Requests,
          kind : {"http", "generate"}, fingerprint : {"http", "generate"} \X Params,
          rows : RowSets, result : 0..MaxResult, error : BOOLEAN]

IsLedger(L) ==
  L \in [rec : {L.rec}, order : {L.order}, charge : {L.charge}, kept : {L.kept}]

TypeOK ==
  /\ op \in [Requests -> Operation] /\ prep \in [Preps -> Preparation]
  /\ {lock, gen} \subseteq Requests \cup Preps \cup {None}
  /\ IsLedger(ledger)
  /\ Known(ledger) \subseteq Ids /\ ledger.rec \in [Known(ledger) -> Entry]
  /\ ledger.order \in Seq(Ids)
  /\ server \in {"up", "joining", "stopping", "down"}

\* What a receipt says is what its operation did: completed means the job, or
\* every row a client that left had asked for, came to its end; interrupted,
\* with an error, that the operation never began or that its socket could not be
\* told how it failed; and an operation that is over has its receipt settled, but
\* for one whose answer could not be encoded, which is never taken for one that
\* ended (OperationLedger, run_operation, _ws_handle_generate).
ReceiptTellsTheRun ==
  \A i \in Known(ledger) :
    LET c == ledger.rec[i]  o == op[c.by] IN
    /\ c.state \in Terminal <=> o.pc = "done" /\ o.end # "unencoded"
    /\ c.state = "completed" => o.end = "completed" \/ (o.end = "left" /\ ~c.error)
    /\ c.state = "completed" /\ o.end = "left" /\ i \in DOMAIN ledger.charge
         => DOMAIN c.rows = 1..Rows
    /\ c.state = "failed" => o.end \in {"failed", "timeout", "left"}
    /\ c.state = "interrupted" => c.error /\ (~o.ran \/ o.end = "interrupted")
    /\ c.state = "cancelled" => o.end \in {"cancelled", "left"} /\ c.kind = "generate"

\* An operation under way under an id is the only one: its receipt stays, with
\* every row it has sent, until it is over, whatever the ledger makes room for.
OneRunPerReceipt ==
  \A r \in Requests :
    op[r].id # None /\ op[r].pc \notin {"unsent", "done"} =>
      /\ op[r].id \in Known(ledger)
      /\ ledger.rec[op[r].id].by = r
      /\ ledger.rec[op[r].id].rows = op[r].rows

\* The ledger is bounded, and finds a finished record to evict whenever it
\* admits one; only a record it still has is charged for, and each that holds a result is.
LedgerIsBounded ==
  /\ Cardinality(Known(ledger)) <= MaxEntries
  /\ Cardinality({i \in Known(ledger) : Live(ledger, i)}) <= MaxActive
  /\ DOMAIN ledger.charge \subseteq Known(ledger)
  /\ \A i \in Known(ledger) :
       ledger.rec[i].result > 0 => i \in DOMAIN ledger.charge

\* Making room never costs a receipt somebody still needs.
ReceiptsAreKept == OneRunPerReceipt /\ LedgerIsBounded

\* Finished payloads exceed their budget only by what was still unfinished
\* when they were charged (OperationLedger._retain).
BudgetIsKept ==
  Load(ledger, {i \in DOMAIN ledger.charge : ledger.rec[i].kind = "http"}) <= MaxTotal

\* A client that lost its connection finds out what became of its request.
ReceiptsAreTrue == ReceiptTellsTheRun /\ ReceiptsAreKept

\* A job that has begun runs to its end, and one with a receipt is given up
\* by nobody but the shutdown (_observe, OperationTasks).
BegunIsFinished ==
  \A r \in Requests :
    op[r].end = "cancelled" /\ Http(r) => ~op[r].ran /\ (op[r].id = None \/ server # "up")

\* The server is down only when no worker is left: no operation, no
\* preparation, nobody with the lock or the model.
DownLeavesNoWorker ==
  server = "down" =>
    /\ lock = None /\ gen = None
    /\ \A r \in Requests : op[r].pc \in {"unsent", "done"}
    /\ \A p \in Preps : ~Preparing(p)

\* Nothing that has begun is abandoned, by a client that leaves or a shutdown.
NothingIsAbandoned == BegunIsFinished /\ DownLeavesNoWorker

Busy ==
  \/ \E r \in Requests : op[r].pc \notin {"unsent", "done"}
  \/ \E p \in Preps : Preparing(p)
  \/ server \in {"joining", "stopping"}

\* The server comes to rest: who waits for the lock gets it or gives up, every
\* admitted operation and every preparation ends, and so does a shutdown,
\* whatever was running or waiting when it began.
WorkIsFinished == Busy ~> ~Busy

\* A receipt that says completed has a row for every sibling. The client takes
\* anything less for an error (webui generationReceipt.ts).
CompletedIsWhole ==
  \A i \in Known(ledger) :
    LET c == ledger.rec[i] IN
    c.state = "completed" /\ c.kind = "generate" /\ i \in DOMAIN ledger.charge
      => DOMAIN c.rows = 1..Rows

---------------------------------------------------------------------------
(* The inductive invariant.                                                *)

\* What the place of an operation in its life tells of it.
Stage(o) ==
  /\ o.pc \in {"unsent", "queued"} => ~o.ran
  /\ o.pc \in {"held", "working"} => o.mode # "ws"
  /\ o.pc \in {"row", "generating", "send"} => o.mode = "ws"
  /\ o.pc \notin {"row", "generating", "send", "done"} => o.rows = <<>>
  /\ Len(o.rows) <= Rows
  /\ o.pc \in {"row", "generating"} => Len(o.rows) < Rows
  /\ o.pc = "send" => o.rows # <<>>
  /\ o.pc # "done" => o.end = None

\* The lock and the model are held by who is where they are held.
HoldsLock(x) ==
  \/ x \in Requests /\ op[x].pc \in {"held", "working", "row", "generating", "send"}
  \/ x \in Preps /\ prep[x].pc \in {"activating", "enabling"}
HoldsModel(x) ==
  \/ x \in Requests /\ op[x].pc \in {"working", "generating"}
  \/ x \in Preps /\ prep[x].pc = "fitting"
HolderInv == \A x \in Requests \cup Preps :
               (HoldsLock(x) <=> lock = x) /\ (HoldsModel(x) <=> gen = x)

JoinInv ==
  /\ server \in {"stopping", "down"} => \A r \in Requests : Joined(r)
  /\ server = "down" => \A p \in Preps : ~Preparing(p)

\* A record is of the one operation that has its id.
RecordsAreOwned ==
  \A i \in Known(ledger) :
    LET c == ledger.rec[i]  o == op[c.by] IN
    o.id = i /\ o.pc # "unsent" /\ (c.kind = "generate" <=> o.mode = "ws")

\* The order lists each record once.
Ordered(L) ==
  /\ \A k \in DOMAIN L.order : L.order[k] \in Known(L)
  /\ \A i \in Known(L) : \E k \in DOMAIN L.order : L.order[k] = i
  /\ \A k, n \in DOMAIN L.order : L.order[k] = L.order[n] => k = n

WorkInv ==
  /\ TypeOK /\ (\A r \in Requests : Stage(op[r])) /\ HolderInv /\ JoinInv
  /\ BegunIsFinished
ReceiptInv ==
  /\ RecordsAreOwned /\ Ordered(ledger)
  /\ ReceiptTellsTheRun /\ OneRunPerReceipt /\ LedgerIsBounded
OperationsInv == WorkInv /\ ReceiptInv
=============================================================================
