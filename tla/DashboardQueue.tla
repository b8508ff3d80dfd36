--------------------------- MODULE DashboardQueue ---------------------------
(***************************************************************************)
(* The dashboard's one generation slot (src/webui/src/lib/stores): what    *)
(* the user or an agent asks while a generation is in flight waits in      *)
(* pendingActions.queue and leaves it one item per answer; the slot is     *)
(* held by a reservation until the answer starts, by genStatus.active      *)
(* while it lasts.  The page is one thread: an action is one task of its   *)
(* event loop with the microtasks it leaves.  Messages and answers travel  *)
(* in order on one socket, and the server takes one request at a time.     *)
(***************************************************************************)
EXTENDS Integers, SequencesExt

CONSTANTS
  Desks,     \* which faults a session may meet, and who asks (records, see ASSUME)
  MaxAsks,   \* how often the user or an agent acts
  Nobody     \* no request is served

DeskType == [faults : SUBSET {"refused", "failed", "closed"}, regen : BOOLEAN, agents : BOOLEAN,
              toggles : BOOLEAN, eager : BOOLEAN]
ASSUME DesksAssumption == Desks \subseteq DeskType /\ MaxAsks \in Nat

VARIABLES
  desk,     \* the session's instance of the above
  page,     \* the stores of the page, and the socket's outgoing side
  serving,  \* the request the server works on
  frames,   \* its answers on their way to the page
  asks,     \* how many acts there were; an act's number names it
  edits     \* the rack edits that were not cancelled

queueVars == <<desk, page, serving, frames, asks, edits>>

Request(id, kind, drained) == [id |-> id, kind |-> kind, drained |-> drained]
Item(id, kind) == [id |-> id, kind |-> kind, edits |-> {}]
Frame(type, r) == [type |-> type, id |-> r.id, kind |-> r.kind]

IdlePage ==
  [queue |-> <<>>,       \* pendingActions.queue
   held |-> {},          \* reservations a dispatch's listener will release
   agents |-> {},        \* reservations an agent's run holds to its end
   checking |-> {},      \* those whose run still reads the session
   active |-> FALSE,     \* genStatus.active
   shadow |-> FALSE,     \* abState.processingAb
   timer |-> FALSE,      \* scheduledComparison
   zero |-> FALSE,       \* a drain is due after an agent's run
   auto |-> FALSE,       \* autoRegenState.enabled
   rack |-> {},          \* edits applied to the steering rack
   link |-> "open",      \* the channel
   waiting |-> <<>>,     \* requests that await it
   wire |-> <<>>,        \* messages on their way to the server
   said |-> <<>>]        \* the submissions sent, with the rack they carry

QueueInit ==
  /\ desk \in Desks
  /\ page \in {IdlePage, [IdlePage EXCEPT !.auto = TRUE]}
  /\ serving = Nobody /\ frames = <<>> /\ asks = 0 /\ edits = {}

-----------------------------------------------------------------------------
\* Sending.

Reserved(u) == u.held \cup u.agents # {}
Busy_WhileItStreams(u) == u.active \/ u.queue # <<>>
Busy(u) == Reserved(u) \/ u.active \/ u.queue # <<>>

Put(u, r) ==
  [u EXCEPT !.wire = Append(@, r),
            !.said = IF r.kind = "ui" THEN Append(@, [id |-> r.id, rack |-> u.rack]) ELSE @]

\* A closed channel is opened, and the request waits for it.
OnChannel(u, r) ==
  IF u.link = "open" THEN Put(u, r)
  ELSE [u EXCEPT !.link = "opening", !.waiting = Append(@, r)]

Dispatch(u, id, drained) ==
  OnChannel([u EXCEPT !.held = @ \cup {id}], Request(id, "ui", drained))

\* An agent's run refuses to start beside a comparison; its reservation ends with it.
ComparisonPending(u) == u.timer \/ u.shadow
RunAgent(u, id) ==
  IF ComparisonPending(u) THEN [u EXCEPT !.zero = TRUE]
  ELSE [u EXCEPT !.agents = @ \cup {id}, !.checking = @ \cup {id}]
EndAgent(u, id) == [u EXCEPT !.agents = @ \ {id}, !.checking = @ \ {id}, !.zero = TRUE]

Shadow(u) == OnChannel([u EXCEPT !.shadow = TRUE, !.active = TRUE], Request(0, "shadow", FALSE))
NoShadow(u) == [u EXCEPT !.shadow = FALSE, !.active = FALSE]

-----------------------------------------------------------------------------
\* The queue.

Enqueue(u, item) == [u EXCEPT !.queue = Append(@, item)]

\* A regeneration asks for the slot again when its turn comes.
Apply(u, item) ==
  CASE item.kind = "rack" -> [u EXCEPT !.rack = @ \cup item.edits]
    [] item.kind = "send" -> Dispatch(u, item.id, TRUE)
    [] item.kind = "regen" ->
         IF Busy(u) THEN Enqueue(u, Item(item.id, "send")) ELSE Dispatch(u, item.id, FALSE)
    [] item.kind = "agent" -> RunAgent(u, item.id)

CanDrain(u) == ~Reserved(u) /\ ~u.active /\ u.queue # <<>>
DrainOne(u) ==
  IF CanDrain(u) THEN Apply([u EXCEPT !.queue = Tail(@)], Head(u.queue)) ELSE u

\* What waits for no answer is applied at once, up to the first item that does.
Leading(q) == CHOOSE k \in 0..Len(q) :
                /\ \A i \in 1..k : q[i].kind = "rack"
                /\ k = Len(q) \/ q[k + 1].kind # "rack"
drainNextPendingAction(u) ==
  IF ~CanDrain(u) THEN u
  ELSE LET k == Leading(u.queue) IN
       DrainOne([u EXCEPT !.rack = @ \cup UNION {u.queue[i].edits : i \in 1..k},
                          !.queue = SubSeq(@, k + 1, Len(@))])

-----------------------------------------------------------------------------
\* The user, and agents.

\* Whoever is eager acts between an answer and the timers of 0 ms it left.
Ask(u) ==
  /\ asks < MaxAsks /\ (desk.eager \/ ~(page.timer \/ page.zero))
  /\ asks' = asks + 1 /\ page' = u /\ UNCHANGED <<desk, serving, frames>>

sendSubmit ==
  /\ Ask(IF Busy(page) THEN Enqueue(page, Item(asks + 1, "send")) ELSE Dispatch(page, asks + 1, FALSE))
  /\ UNCHANGED edits

regenMessage ==
  /\ desk.regen
  /\ Ask(IF Busy(page) THEN Enqueue(page, Item(asks + 1, "regen")) ELSE Dispatch(page, asks + 1, FALSE))
  /\ UNCHANGED edits

enqueueOrApply ==
  LET id == asks + 1
      bubble == [Item(id, "rack") EXCEPT !.edits = {id}] IN
  /\ Ask(IF ~Busy(page) THEN Apply(page, bubble)
         ELSE IF page.queue # <<>> /\ Last(page.queue).kind = "rack"
         THEN [page EXCEPT !.queue[Len(page.queue)].edits = @ \cup {id}]
         ELSE Enqueue(page, bubble))
  /\ edits' = edits \cup {id}

enqueueGeneration ==
  /\ desk.agents
  /\ Ask(IF Busy(page) THEN Enqueue(page, Item(asks + 1, "agent")) ELSE RunAgent(page, asks + 1))
  /\ UNCHANGED edits

cancelPendingAction ==
  \E i \in 1..Len(page.queue) :
    /\ Ask([page EXCEPT !.queue = RemoveAt(@, i)])
    /\ edits' = edits \ page.queue[i].edits

\* Turning comparisons on compares the last turn, if it has none, unless one is active.
toggleAutoRegen ==
  /\ desk.toggles
  /\ \E again \in IF page.auto \/ page.active \/ page.said = <<>> THEN {FALSE} ELSE BOOLEAN :
       Ask([page EXCEPT !.auto = ~@, !.timer = IF page.auto THEN FALSE ELSE again \/ @])
  /\ UNCHANGED edits

-----------------------------------------------------------------------------
\* The page's timers, and an agent's run.

Turn(u) == page' = u /\ UNCHANGED <<desk, serving, frames, asks, edits>>

ComparisonTimer ==
  /\ page.timer
  /\ LET u == [page EXCEPT !.timer = FALSE] IN
     Turn(IF ~u.auto \/ u.active \/ u.shadow THEN u ELSE Shadow(u))

DrainTimer == page.zero /\ Turn(drainNextPendingAction([page EXCEPT !.zero = FALSE]))

\* The run has read the session: the workspace is as it was, or it gives up.
AgentSends ==
  \E id \in page.checking :
    LET u == [page EXCEPT !.checking = @ \ {id}] IN
    \/ Turn(OnChannel(u, Request(id, "agent", FALSE)))
    \/ Turn(EndAgent(page, id))

\* A run whose request was lost with the channel asks for its status and ends.
AgentLost ==
  \E id \in page.agents \ page.checking :
    /\ ~ \E r \in Range(page.waiting \o page.wire) \cup ({serving} \ {Nobody}) \cup Range(frames) :
           r.id = id
    /\ Turn(EndAgent(page, id))

-----------------------------------------------------------------------------
\* The server: a request is refused, or starts and ends one way or the other.

Closing(r) == IF r.kind = "agent" THEN <<Frame("complete", r)>> ELSE <<>>
Answer(fs) == frames' = frames \o fs /\ UNCHANGED <<desk, asks, edits>>

ServerTakes ==
  /\ serving = Nobody /\ page.wire # <<>>
  /\ page' = [page EXCEPT !.wire = Tail(@)]
  /\ LET r == Head(page.wire) IN
     \/ serving' = r /\ Answer(<<Frame("started", r)>>)
     \/ /\ "refused" \in desk.faults
        /\ serving' = Nobody /\ Answer(<<Frame("error", r)>> \o Closing(r))
ServerEnds ==
  /\ serving # Nobody
  /\ serving' = Nobody /\ UNCHANGED page
  /\ \E type \in {"done"} \cup (IF "failed" \in desk.faults THEN {"error"} ELSE {}) :
       Answer(<<Frame(type, serving)>> \o Closing(serving))

-----------------------------------------------------------------------------
\* What a frame does to the page: the handler first, then the listeners.

Released(u, kind) == IF kind = "agent" THEN u ELSE [u EXCEPT !.held = {}]

OnStarted(u, kind) == Released([u EXCEPT !.active = TRUE], kind)

\* A comparison is due when the turn was generated and comparisons are on.
OnDone_DrainsAtOnce(u, kind, generated) ==
  LET v == NoShadow(u) IN
  IF kind = "agent" THEN v
  ELSE drainNextPendingAction([v EXCEPT !.timer = ~u.shadow /\ u.auto /\ generated])
OnDone(u, kind, generated) ==
  LET v == NoShadow(u) IN
  IF kind = "agent" THEN v
  ELSE IF ~u.shadow /\ u.auto /\ generated THEN [v EXCEPT !.timer = TRUE]
  ELSE drainNextPendingAction(v)

\* The queue moves before the listeners run; what follows an instant item, after.
OnError(u, kind) ==
  LET v == NoShadow(u)
      drained == IF kind = "agent" THEN v ELSE DrainOne(v)
      released == Released(drained, kind)
  IN IF kind # "agent" /\ CanDrain(v) /\ Head(v.queue).kind = "rack"
     THEN drainNextPendingAction(released) ELSE released

OnComplete(u, id) == EndAgent([u EXCEPT !.active = FALSE], id)

Receive ==
  /\ frames # <<>> /\ frames' = Tail(frames)
  /\ LET f == Head(frames) IN
     \/ f.type = "started" /\ page' = OnStarted(page, f.kind)
     \/ f.type = "done" /\ \E generated \in BOOLEAN : page' = OnDone(page, f.kind, generated)
     \/ f.type = "error" /\ page' = OnError(page, f.kind)
     \/ f.type = "complete" /\ page' = OnComplete(page, f.id)
  /\ UNCHANGED <<desk, serving, asks, edits>>

-----------------------------------------------------------------------------
\* The channel.

\* Everyone who waited for it fails; a failed item of the queue passes the turn on.
Failed(u) ==
  LET lost == Range(u.waiting)
      v == [u EXCEPT !.link = "closed", !.waiting = <<>>,
                     !.held = @ \ {r.id : r \in {x \in lost : x.kind = "ui"}},
                     !.agents = @ \ {r.id : r \in {x \in lost : x.kind = "agent"}},
                     !.zero = @ \/ \E r \in lost : r.kind = "agent"]
      w == IF \E r \in lost : r.kind = "shadow" THEN NoShadow(v) ELSE v
  IN IF \E r \in lost : r.drained THEN drainNextPendingAction(w) ELSE w

LinkOpens ==
  /\ page.link = "opening"
  /\ Turn(FoldSeq(LAMBDA r, u : Put(u, r), [page EXCEPT !.link = "open", !.waiting = <<>>], page.waiting))

\* Messages and answers on their way are lost, and the server drops the request.
LinkCloses ==
  /\ "closed" \in desk.faults /\ page.link # "closed"
  /\ serving' = Nobody /\ frames' = <<>>
  /\ LET u == [page EXCEPT !.wire = <<>>, !.link = "closed"] IN
     page' = IF page.link = "opening" THEN Failed(page)
             ELSE IF u.active \/ u.shadow \/ Busy(u) THEN OnError(u, "ui") ELSE u
  /\ UNCHANGED <<desk, asks, edits>>

UserNext ==
  \/ sendSubmit \/ regenMessage \/ enqueueOrApply \/ enqueueGeneration
  \/ cancelPendingAction \/ toggleAutoRegen
SystemNext ==
  \/ ComparisonTimer \/ DrainTimer \/ AgentSends \/ AgentLost
  \/ ServerTakes \/ ServerEnds \/ Receive \/ LinkOpens
QueueNext == UserNext \/ SystemNext \/ LinkCloses

-----------------------------------------------------------------------------
\* Properties.

InFlight ==
  page.waiting \o page.wire \o (IF serving = Nobody THEN <<>> ELSE <<serving>>)
  \o SelectSeq(frames, LAMBDA f : f.type \in {"done", "error"})

\* One request at a time is unanswered, whoever asked.
OneInFlight == Len(InFlight) =< 1

\* Submissions leave in the order they were made, each with the rack as it was
\* edited before it and nothing edited after.
SendsKeepTheirPlace ==
  \A i \in 1..Len(page.said) :
    /\ \A j \in 1..(i - 1) : page.said[j].id < page.said[i].id
    /\ page.said[i].rack \cap edits = {e \in edits : e < page.said[i].id}

\* What streams while comparisons claim the stream is a comparison.
ShadowIsAlone ==
  page.shadow => \A i \in 1..Len(InFlight) : InFlight[i].kind = "shadow"

\* Whatever waits in the queue has something to wait for.
QueueMoves ==
  page.queue # <<>> =>
    \/ InFlight # <<>> \/ page.checking # {} \/ page.timer \/ page.zero
    \/ \E i \in 1..Len(frames) : frames[i].type = "complete"
    \/ page.agents # {}

\* Where the page keeps its one slot: nobody acts between an answer and its timers,
\* switches comparisons on beside a submission, or meets an error.  Submissions keep
\* their place in whatever happens on one connection, and the queue moves on through
\* generations that fail, if no regeneration waits in it.
Patient == ~desk.eager /\ ~desk.toggles /\ desk.faults = {}
SlotIsSingle ==
  /\ Patient => OneInFlight /\ ShadowIsAlone
  /\ "closed" \notin desk.faults => SendsKeepTheirPlace
  /\ desk.faults \subseteq {"failed"} /\ ~desk.regen /\ ~desk.eager => QueueMoves
=============================================================================
