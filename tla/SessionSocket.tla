---------------------------- MODULE SessionSocket ----------------------------
(***************************************************************************)
(* The native WebSocket of the server (drowse/server/ws_stream.py).  Each  *)
(* connection has a reader, a task that forwards tree events and, one at a *)
(* time, a request handler that runs a fan of generations in a worker      *)
(* thread under the server's FIFO session lock (drowse/server/runtime.py). *)
(*                                                                         *)
(* A generation is its effect on the socket: the node it begins, a frame   *)
(* per token, the node it finalizes, or an error.  DrowseSession has its   *)
(* inside, LoomTree its effect on the tree.  Nodes are numbered as made.   *)
(***************************************************************************)
EXTENDS Integers, FiniteSets, SequencesExt

CONSTANTS
  Conns,        \* connections
  Fans,         \* those whose client asks for several siblings and stops them
  Siblings,     \* generations of such a request
  MaxRequests,  \* bound: requests of a connection
  MaxTokens,    \* bound: tokens of a generation
  MaxMoves,     \* bound: tree calls of other clients
  MaxQueue,     \* MAX_WS_OUTBOUND_EVENTS
  MaxLanded,    \* maxlen of tree_forwarded_finalized
  MaxPending,   \* MAX_WS_PENDING_MESSAGES
  None, All, Done

ASSUME SocketAssumption ==
  /\ {Siblings, MaxRequests, MaxQueue, MaxLanded, MaxPending} \subseteq Nat \ {0}
  /\ {MaxTokens, MaxMoves} \subseteq Nat /\ Fans \subseteq Conns
  /\ None # All /\ {None, All, Done} \cap Nat = {} /\ Done # None
  /\ None \notin Conns

VARIABLES
  lock,     \* app.state.session_lock: the connection holding it, or None
  waiters,  \* its waiters, in order
  inbox,    \* per connection: pending requests and the one control slot
  closed,   \* connections whose inbound buffer is closed
  req,      \* per connection: its outer loop and request handler
  work,     \* per connection: the worker thread of its request
  tokens,   \* per connection: the token queue of the current sibling
  frames,   \* per connection: tree_event_queue; a node stands for its finalize
            \* frame, None for any other tree frame
  landed,   \* per connection: the last nodes whose finalize frame was sent
  tree      \* the active node, the number of nodes made and of others' calls

vars == <<lock, waiters, inbox, closed, req, work, tokens, frames, landed, tree>>

EmptyQueue == [items |-> <<>>, closed |-> FALSE]
NoWorker == [pc |-> "none", target |-> None, out |-> 0, holder |-> None,
             cancelled |-> FALSE, result |-> FALSE]
NoRequest == [pc |-> "ready", num |-> 0, sib |-> 1, control |-> None,
              stopped |-> FALSE, took |-> FALSE, gone |-> FALSE]

Init ==
  /\ lock = None /\ waiters = <<>>
  /\ inbox = [c \in Conns |-> [msgs |-> <<>>, stop |-> None, sent |-> 0]]
  /\ closed = {}
  /\ req = [c \in Conns |-> NoRequest]
  /\ work = [c \in Conns |-> NoWorker]
  /\ tokens = [c \in Conns |-> EmptyQueue]
  /\ frames = [c \in Conns |-> EmptyQueue]
  /\ landed = [c \in Conns |-> <<>>]
  /\ tree = [active |-> 0, made |-> 0, moves |-> 0]

At(c, l) == req[c].pc = l
Ready(c) == req' = [req EXCEPT ![c] = NoRequest]
Goto(c, l) == req' = [req EXCEPT ![c].pc = l]

---------------------------------------------------------------------------
(* _OutboundQueue: a full queue closes itself and then its connection.     *)

Full_OffByOne(q) == Len(q.items) > MaxQueue
Full(q) == Len(q.items) >= MaxQueue

Put(q, item) ==
  IF q.closed THEN q
  ELSE IF Full(q) THEN [q EXCEPT !.closed = TRUE]
  ELSE [q EXCEPT !.items = Append(@, item)]

Overflows(q) == ~q.closed /\ Full(q)

\* _InboundBuffer.close
Close(cs) ==
  /\ closed' = closed \cup cs
  /\ inbox' = [c \in Conns |-> IF c \in cs THEN [inbox[c] EXCEPT !.msgs = <<>>] ELSE inbox[c]]

\* A mutation of the tree: a frame for every connection still subscribed.
Mutated(frame) ==
  LET subscribed == {c \in Conns : ~At(c, "closed")} IN
  /\ frames' = [c \in Conns |-> IF c \in subscribed THEN Put(frames[c], frame) ELSE frames[c]]
  /\ Close({c \in subscribed : Overflows(frames[c])})

---------------------------------------------------------------------------
(* The client and the reader task.                                         *)

ClientSends(c) ==
  /\ c \notin closed /\ inbox[c].sent < MaxRequests
  /\ IF Len(inbox[c].msgs) >= MaxPending
     THEN Close({c})
     ELSE /\ inbox' = [inbox EXCEPT ![c].msgs = Append(@, inbox[c].sent + 1),
                                    ![c].sent = @ + 1]
          /\ UNCHANGED closed
  /\ UNCHANGED <<lock, waiters, req, work, tokens, frames, landed, tree>>

\* A stop names a request or none; a stop of everything is not replaced.
ClientStops(c, r) ==
  /\ c \in Fans \ closed /\ r \in 1..inbox[c].sent \cup {All}
  /\ inbox[c].stop # All
  /\ inbox' = [inbox EXCEPT ![c].stop = r]
  /\ UNCHANGED <<lock, waiters, closed, req, work, tokens, frames, landed, tree>>

\* A disconnect, a protocol error or a send that times out.
Drops(c) ==
  /\ c \notin closed
  /\ Close({c})
  /\ UNCHANGED <<lock, waiters, req, work, tokens, frames, landed, tree>>

---------------------------------------------------------------------------
(* The outer loop and the session lock.                                    *)

\* A stop nobody waits for is dropped once no request is pending.
TakeMessage(c) ==
  /\ At(c, "ready") /\ c \notin closed
  /\ IF inbox[c].msgs # <<>>
     THEN /\ inbox' = [inbox EXCEPT ![c].msgs = Tail(@)]
          /\ req' = [req EXCEPT ![c] = [NoRequest EXCEPT
               !.pc = "lock", !.num = Head(inbox[c].msgs)]]
          /\ waiters' = Append(waiters, c)
     ELSE /\ inbox[c].stop # None
          /\ inbox' = [inbox EXCEPT ![c].stop = None]
          /\ UNCHANGED <<req, waiters>>
  /\ UNCHANGED <<lock, closed, work, tokens, frames, landed, tree>>

\* The subscription ends and the connection's queues go with it.
LeaveLoop(c) ==
  /\ At(c, "ready") /\ c \in closed
  /\ Goto(c, "closed")
  /\ frames' = [frames EXCEPT ![c] = [items |-> <<>>, closed |-> TRUE]]
  /\ landed' = [landed EXCEPT ![c] = <<>>]
  /\ inbox' = [inbox EXCEPT ![c] = [msgs |-> <<>>, stop |-> None, sent |-> MaxRequests]]
  /\ UNCHANGED <<lock, waiters, closed, work, tokens, tree>>

Granted(c) ==
  /\ At(c, "lock") /\ lock = None /\ waiters # <<>> /\ Head(waiters) = c
  /\ lock' = c /\ waiters' = Tail(waiters)
  /\ Goto(c, "start")
  /\ UNCHANGED <<inbox, closed, work, tokens, frames, landed, tree>>

LockTimeout(c) ==
  /\ At(c, "lock") /\ waiters' = Remove(waiters, c)
  /\ Ready(c)
  /\ UNCHANGED <<lock, inbox, closed, work, tokens, frames, landed, tree>>

\* The request ends: the lock goes back, and what was local to it is gone.
\* Mutant: a request that its closed connection cancelled keeps the lock.
EndRequest_KeepsLock(c) ==
  /\ lock' = IF c \in closed THEN lock ELSE None
  /\ req' = [req EXCEPT ![c] = NoRequest]
  /\ IF work[c].pc = "ended"
     THEN work' = [work EXCEPT ![c] = NoWorker] /\ tokens' = [tokens EXCEPT ![c] = EmptyQueue]
     ELSE UNCHANGED <<work, tokens>>
EndRequest(c) ==
  /\ lock' = None
  /\ req' = [req EXCEPT ![c] = NoRequest]
  /\ IF work[c].pc = "ended"
     THEN work' = [work EXCEPT ![c] = NoWorker] /\ tokens' = [tokens EXCEPT ![c] = EmptyQueue]
     ELSE UNCHANGED <<work, tokens>>

---------------------------------------------------------------------------
(* One sibling: _ws_stream_generation.                                     *)

StartSibling(c) ==
  /\ At(c, "start")
  /\ req' = [req EXCEPT ![c].pc = "stream", ![c].control = None]
  /\ work' = [work EXCEPT ![c] = [NoWorker EXCEPT !.pc = "begin"]]
  /\ tokens' = [tokens EXCEPT ![c] = EmptyQueue]
  /\ UNCHANGED <<lock, waiters, inbox, closed, frames, landed, tree>>

Matches(c, stop) == stop \in {All, req[c].num}

\* client_get: the control slot is emptied before the handler looks at it.
GetControl(c) ==
  /\ At(c, "stream") /\ c \notin closed
  /\ req[c].control = None /\ inbox[c].stop # None
  /\ req' = [req EXCEPT ![c].control = inbox[c].stop,
                        ![c].took = @ \/ Matches(c, inbox[c].stop)]
  /\ inbox' = [inbox EXCEPT ![c].stop = None]
  /\ UNCHANGED <<lock, waiters, closed, work, tokens, frames, landed, tree>>

HandleControl(c) ==
  LET stops == Matches(c, req[c].control) IN
  /\ At(c, "stream") /\ req[c].control # None
  /\ req' = [req EXCEPT ![c].control = None, ![c].stopped = @ \/ stops]
  /\ work' = [work EXCEPT ![c].cancelled = @ \/ stops]
  /\ UNCHANGED <<lock, waiters, inbox, closed, tokens, frames, landed, tree>>

SendToken(c) ==
  /\ At(c, "stream") /\ tokens[c].items # <<>> /\ Head(tokens[c].items) # Done
  /\ tokens' = [tokens EXCEPT ![c].items = Tail(@)]
  /\ UNCHANGED <<lock, waiters, inbox, closed, req, work, frames, landed, tree>>

\* The finally of the token loop: a stop that was taken and not yet handled
\* still counts.
PendingStop_Ignored(c) == FALSE
PendingStop(c) == req[c].control # None /\ Matches(c, req[c].control)

LeaveStream(c, gone) ==
  /\ req' = [req EXCEPT ![c].pc = "join", ![c].gone = gone, ![c].control = None,
                        ![c].stopped = @ \/ PendingStop(c)]
  /\ work' = [work EXCEPT ![c].cancelled = TRUE]
  /\ tokens' = [tokens EXCEPT ![c].closed = TRUE]
  /\ UNCHANGED <<lock, waiters, inbox, closed, frames, landed, tree>>

StreamEnds(c) ==
  /\ At(c, "stream") /\ tokens[c].items # <<>> /\ Head(tokens[c].items) = Done
  /\ LeaveStream(c, FALSE)

\* finish_worker: the thread is joined whatever happened to the request.
WorkerJoined_NotAwaited(c) == req[c].gone \/ work[c].pc = "ended"
WorkerJoined(c) == work[c].pc = "ended"

\* The done frame waits for the finalize frame of the node it names.
WaitsForTree_Never(c) == FALSE
WaitsForTree(c) == work[c].holder # None

Joined(c) ==
  /\ At(c, "join") /\ WorkerJoined(c)
  /\ IF req[c].gone \/ ~work[c].result
     THEN EndRequest(c)
     ELSE /\ Goto(c, IF WaitsForTree(c) THEN "await" ELSE "send")
          /\ UNCHANGED <<lock, work, tokens>>
  /\ UNCHANGED <<waiters, inbox, closed, frames, landed, tree>>

TreeLanded(c) ==
  /\ At(c, "await") /\ work[c].holder \in ToSet(landed[c])
  /\ Goto(c, "send")
  /\ UNCHANGED <<lock, waiters, inbox, closed, work, tokens, frames, landed, tree>>

Fanned(c) == IF c \in Fans THEN Siblings ELSE 1

SendDone(c) ==
  /\ At(c, "send")
  /\ IF req[c].stopped \/ req[c].sib = Fanned(c)
     THEN EndRequest(c)
     ELSE /\ req' = [req EXCEPT ![c].pc = "start", ![c].sib = @ + 1]
          /\ UNCHANGED <<lock, work, tokens>>
  /\ UNCHANGED <<waiters, inbox, closed, frames, landed, tree>>

\* A closed connection cancels its request at the await it is in.
Cancel(c) ==
  /\ c \in closed
  /\ \/ /\ At(c, "lock") /\ waiters' = Remove(waiters, c)
        /\ Goto(c, "ready")
        /\ UNCHANGED <<lock, inbox, closed, work, tokens, frames, landed, tree>>
     \/ At(c, "stream") /\ LeaveStream(c, TRUE)
     \/ /\ At(c, "join") /\ ~req[c].gone
        /\ req' = [req EXCEPT ![c].gone = TRUE]
        /\ UNCHANGED <<lock, waiters, inbox, closed, work, tokens, frames, landed, tree>>
     \/ /\ req[c].pc \in {"start", "await", "send"}
        /\ EndRequest(c)
        /\ UNCHANGED <<waiters, inbox, closed, frames, landed, tree>>

---------------------------------------------------------------------------
(* The worker thread of a request.                                         *)

WorkerBegins(c) ==
  /\ work[c].pc = "begin"
  /\ tree' = [tree EXCEPT !.made = @ + 1, !.active = tree.made + 1]
  /\ Mutated(None)
  /\ work' = [work EXCEPT ![c].pc = "run", ![c].target = tree.made + 1]
  /\ UNCHANGED <<lock, waiters, req, tokens, landed>>

\* The first token finds its node: build_token_event reads the active one.
WorkerTokens(c) ==
  LET node == IF work[c].holder = None THEN tree.active ELSE work[c].holder IN
  /\ work[c].pc = "run" /\ ~work[c].cancelled /\ work[c].out < MaxTokens
  /\ work' = [work EXCEPT ![c].holder = node, ![c].out = @ + 1]
  /\ tokens' = [tokens EXCEPT ![c] = Put(@, node)]
  /\ Close(IF Overflows(tokens[c]) THEN {c} ELSE {})
  /\ UNCHANGED <<lock, waiters, req, frames, landed, tree>>

WorkerFinalizes(c) ==
  /\ work[c].pc = "run"
  /\ Mutated(work[c].target)
  /\ work' = [work EXCEPT ![c].pc = "finish", ![c].result = TRUE]
  /\ UNCHANGED <<lock, waiters, req, tokens, landed, tree>>

WorkerFails(c) ==
  /\ work[c].pc \in {"begin", "run"}
  /\ work' = [work EXCEPT ![c].pc = "finish"]
  /\ UNCHANGED <<lock, waiters, inbox, closed, req, tokens, frames, landed, tree>>

WorkerEnds(c) ==
  /\ work[c].pc = "finish"
  /\ work' = [work EXCEPT ![c].pc = "ended"]
  /\ tokens' = [tokens EXCEPT ![c] = Put(@, Done)]
  /\ Close(IF Overflows(tokens[c]) THEN {c} ELSE {})
  /\ UNCHANGED <<lock, waiters, req, frames, landed, tree>>

---------------------------------------------------------------------------
(* The forwarder task, and tree calls of other clients (no session lock).  *)

Landed(deque, n) ==
  LET all == Append(deque, n)
  IN  IF Len(all) > MaxLanded THEN Tail(all) ELSE all

Forward(c) ==
  /\ ~At(c, "closed") /\ frames[c].items # <<>>
  /\ frames' = [frames EXCEPT ![c].items = Tail(@)]
  /\ IF Head(frames[c].items) = None THEN UNCHANGED landed
     ELSE landed' = [landed EXCEPT ![c] = Landed(@, Head(frames[c].items))]
  /\ UNCHANGED <<lock, waiters, inbox, closed, req, work, tokens, tree>>

\* tree_navigate: free relative to the generation.  (Calls that make another node
\* active are alike: node 0, the root, stands for one nobody finalizes.)
Navigate(n) ==
  /\ tree.moves < MaxMoves
  /\ n \in 0..tree.made /\ n # tree.active
  /\ tree' = [tree EXCEPT !.active = n, !.moves = @ + 1]
  /\ Mutated(None)
  /\ UNCHANGED <<lock, waiters, req, work, tokens, landed>>

Client(c) ==
  ClientSends(c) \/ Drops(c)
  \/ \E r \in 1..MaxRequests \cup {All} : ClientStops(c, r)

Handler(c) ==
  \/ TakeMessage(c) \/ LeaveLoop(c) \/ Granted(c) \/ StartSibling(c)
  \/ SendToken(c) \/ StreamEnds(c) \/ Joined(c) \/ TreeLanded(c) \/ SendDone(c)
  \/ Cancel(c)

Control(c) == GetControl(c) \/ HandleControl(c)

Worker(c) ==
  WorkerBegins(c) \/ WorkerTokens(c) \/ WorkerFinalizes(c) \/ WorkerFails(c)
  \/ WorkerEnds(c)

Next ==
  \/ \E c \in Conns : Client(c) \/ Handler(c) \/ Control(c) \/ Worker(c)
                         \/ Forward(c) \/ LockTimeout(c)
  \/ \E n \in 0..tree.made : Navigate(n)

\* Tasks and threads run; clients, timeouts and other callers owe nothing.
Fairness ==
  \A c \in Conns : /\ WF_vars(Handler(c)) /\ WF_vars(Control(c))
                   /\ WF_vars(Worker(c)) /\ WF_vars(Forward(c))

Spec == Init /\ [][Next]_vars /\ Fairness

---------------------------------------------------------------------------
(* Properties.                                                             *)

\* A worker thread runs only under its request's session lock: no request, not
\* even one whose client left, gives the lock back before its thread ended.
WorkerHoldsLock ==
  \A c \in Conns : work[c].pc \in {"begin", "run", "finish"} => lock = c

\* What the connection has still to hear of the nodes that were finalized.
FrameNodes(c) == {frames[c].items[i] : i \in DOMAIN frames[c].items} \ {None}

\* The done frame never overtakes the finalize frame of the node it names, whichever
\* that is, and follows its own wherever it names it.
DoneFollowsTree ==
  \A c \in Conns : At(c, "send") /\ work[c].holder # None =>
    /\ work[c].holder \notin FrameNodes(c)
    /\ work[c].holder = work[c].target => work[c].holder \in ToSet(landed[c])

\* Once a stop meant for a request was taken from the control slot, no further
\* generation of that request starts.
StopEndsFan ==
  [][\A c \in Conns : At(c, "start") /\ req'[c].pc = "stream" => ~req[c].took]_vars

Busy(c) == req[c].pc \in {"lock", "start", "stream", "join", "await", "send"}

\* A navigation before the first token made the reply name another node, and the
\* handler waits for that node's finalize frame.
Stranded(c) == At(c, "await") /\ work[c].holder # work[c].target

\* Every request comes to its end and gives the session lock back, unless one
\* whose first token was named after a node somebody navigated to holds it and its
\* client stays: whoever leaves is always done (wait_for_tree_finalization).
RequestEnds ==
  \A c \in Conns :
    Busy(c) ~> ~Busy(c) \/ (c \notin closed /\ \E d \in Conns \ closed : Stranded(d))

\* The frames of a generation name the node it streams into.
TokensNameTheirNode ==
  \A c \in Conns : work[c].holder # None => work[c].holder = work[c].target

---------------------------------------------------------------------------
(* The inductive invariant.                                                *)

Stops == Nat \cup {None, All}
WaitingPCs == {"ready", "lock", "closed"}
LockedPCs == {"start", "stream", "join", "await", "send"}
RunningPCs == {"begin", "run", "finish"}

Inboxes == [msgs : Seq(Nat), stop : Stops, sent : Nat]
Requests == [pc : WaitingPCs \cup LockedPCs, num : Nat, sib : Nat, control : Stops,
             stopped : BOOLEAN, took : BOOLEAN, gone : BOOLEAN]
Works == [pc : RunningPCs \cup {"none", "ended"}, target : Nat \cup {None},
          out : Nat, holder : Nat \cup {None}, cancelled : BOOLEAN,
          result : BOOLEAN]
Queues(S) == {q \in [items : Seq(S), closed : BOOLEAN] : Len(q.items) <= MaxQueue}

\* The shape of every record; the queues keep within their bound.
TypeOK ==
  /\ lock \in Conns \cup {None} /\ closed \subseteq Conns
  /\ inbox \in [Conns -> Inboxes]
  /\ req \in [Conns -> Requests] /\ work \in [Conns -> Works]
  /\ frames \in [Conns -> Queues(Nat \cup {None})]
  /\ landed \in [Conns -> Seq(Nat)]
  /\ tree \in [active : Nat, made : Nat, moves : Nat]

\* The lock is held exactly from the grant to the end of a request, and the
\* request's thread lives inside its token loop and the join after it.
HandlerInv ==
  \A c \in Conns :
    /\ req[c].pc \in LockedPCs <=> lock = c
    /\ work[c].pc \in RunningPCs => req[c].pc \in {"stream", "join"}
    /\ work[c].pc = "none" => req[c].pc \in WaitingPCs \cup {"start"}
    /\ work[c].pc = "ended" => req[c].pc \in LockedPCs

LandedNodes(c) == ToSet(landed[c])

\* Finalize frames are forwarded in the order in which the nodes were made.
FramesInv ==
  \A c \in Conns :
    /\ \A n \in FrameNodes(c) \cup LandedNodes(c) : n <= tree.made
    /\ \A i, j \in DOMAIN frames[c].items :
         i < j /\ frames[c].items[i] # None /\ frames[c].items[j] # None
           => frames[c].items[i] < frames[c].items[j]
    /\ \A l \in LandedNodes(c), n \in FrameNodes(c) : l < n

\* The thread that runs made the newest node; its tokens name one that was made.
NodeInv ==
  /\ tree.active <= tree.made
  /\ \A c \in Conns :
       /\ work[c].pc = "run" =>
            /\ work[c].target = tree.made /\ ~work[c].result
            /\ \A d \in Conns : tree.made \notin FrameNodes(d) \cup LandedNodes(d)
       /\ work[c].result => work[c].target = tree.made
       /\ work[c].pc \in {"none", "begin"} =>
            ~work[c].result /\ work[c].holder = None /\ work[c].target = None
       /\ work[c].holder # None => work[c].holder <= tree.made
       /\ req[c].pc \in {"await", "send"} => work[c].result

\* A stop that was taken has stopped the fan, or is about to.
TakenInv ==
  \A c \in Conns :
    /\ req[c].pc \in WaitingPCs \cup {"start"} => ~req[c].took
    /\ req[c].took => \/ req[c].stopped
                      \/ At(c, "stream") /\ PendingStop(c)

SocketInv == TypeOK /\ HandlerInv /\ FramesInv /\ NodeInv /\ DoneFollowsTree /\ TakenInv
=============================================================================
