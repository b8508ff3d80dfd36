------------------------- MODULE SessionSocketProofs -------------------------
(***************************************************************************)
(* What the socket of SessionSocket promises, for any connections, bounds  *)
(* and clients.                                                            *)
(*                                                                         *)
(*   SocketInvariant     the inductive invariant of the socket             *)
(*   LockOutlivesThread  a worker thread runs under its session lock       *)
(*   DoneIsLast          a done frame follows the finalize frame           *)
(*   StopIsFinal         a stop that was taken starts no further sibling   *)
(***************************************************************************)
EXTENDS SessionSocket, SequenceTheorems, TLAPS

\* The constants, one by one.
LEMMA Constants ==
  /\ MaxQueue \in Nat /\ MaxRequests \in Nat /\ MaxLanded \in Nat
  /\ None # All /\ None \notin Nat /\ All \notin Nat /\ None \notin Conns
BY SocketAssumption DEF SocketAssumption

---------------------------------------------------------------------------
(* The queues.                                                             *)

\* A queue takes the item at its end or, closed or full, none.
LEMMA PutAppends ==
  ASSUME NEW S, NEW q \in Queues(S), NEW x \in S
  PROVE  /\ Put(q, x) \in Queues(S)
         /\ Put(q, x).items \in {q.items, Append(q.items, x)}
<1>1. q.items \in Seq(S) /\ Len(q.items) <= MaxQueue /\ Len(q.items) \in Nat
  BY DEF Queues
<1>2. CASE q.closed
  BY <1>2 DEF Put
<1>3. CASE ~q.closed /\ Full(q)
  BY <1>3, <1>1 DEF Put, Queues
<1>4. CASE ~q.closed /\ ~Full(q)
  <2> DEFINE s == Append(q.items, x)
  <2>1. Put(q, x) = [q EXCEPT !.items = s]
    BY <1>4 DEF Put
  <2>2. s \in Seq(S) /\ Len(s) = Len(q.items) + 1
    BY <1>1, AppendProperties
  <2>3. Len(s) <= MaxQueue
    BY <2>2, <1>1, <1>4, Constants DEF Full
  <2> HIDE DEF s
  <2>4. [q EXCEPT !.items = s] \in Queues(S) /\ [q EXCEPT !.items = s].items = s
    BY <2>2, <2>3 DEF Queues
  <2> QED
    BY <2>1, <2>4 DEF s
<1> QED
  BY <1>2, <1>3, <1>4

\* The rest of a sequence: its elements, one place earlier.
LEMMA TailShifts ==
  ASSUME NEW S, NEW s \in Seq(S), s # <<>>
  PROVE  /\ Head(s) = s[1] /\ Head(s) \in S /\ 1 \in DOMAIN s
         /\ Tail(s) \in Seq(S) /\ Len(Tail(s)) = Len(s) - 1
         /\ \A i \in DOMAIN Tail(s) : i + 1 \in DOMAIN s /\ Tail(s)[i] = s[i + 1]
<1>1. /\ Tail(s) \in Seq(S) /\ Len(Tail(s)) = Len(s) - 1 /\ Len(s) \in Nat
      /\ Len(s) >= 1 /\ Head(s) = s[1] /\ DOMAIN s = 1..Len(s)
      /\ \A i \in 1..Len(Tail(s)) : Tail(s)[i] = s[i + 1]
  BY HeadTailProperties, EmptySeq
<1>2. DOMAIN Tail(s) = 1..Len(Tail(s))
  BY <1>1
<1> QED
  BY <1>1, <1>2, ElementOfSeq

\* The deque of landed nodes forgets its oldest and learns the new one.
LEMMA LandedAdds ==
  ASSUME NEW d \in Seq(Nat), NEW n \in Nat
  PROVE  /\ Landed(d, n) \in Seq(Nat)
         /\ ToSet(Landed(d, n)) \subseteq ToSet(d) \cup {n}
<1> DEFINE all == Append(d, n)
<1>1. /\ all \in Seq(Nat) /\ Len(all) = Len(d) + 1
      /\ \A i \in 1..Len(d) : all[i] = d[i]
      /\ all[Len(d) + 1] = n
  BY AppendProperties
<1>2. all # <<>> /\ DOMAIN all = 1..Len(d) + 1 /\ DOMAIN d = 1..Len(d)
  BY <1>1, EmptySeq
<1>3. Landed(d, n) \in {all, Tail(all)}
  BY DEF Landed
<1> HIDE DEF all
<1>4. ToSet(all) \subseteq ToSet(d) \cup {n}
  BY <1>1, <1>2 DEF ToSet
<1>5. /\ Tail(all) \in Seq(Nat)
      /\ \A i \in DOMAIN Tail(all) : i + 1 \in DOMAIN all /\ Tail(all)[i] = all[i + 1]
  BY <1>1, <1>2, TailShifts
<1>6. ToSet(Tail(all)) \subseteq ToSet(all)
  BY <1>5 DEF ToSet
<1> QED
  BY <1>1, <1>3, <1>4, <1>5, <1>6

\* Closing connections empties their inbox.
LEMMA CloseShape ==
  ASSUME TypeOK, NEW cs \in SUBSET Conns, Close(cs)
  PROVE  closed' \subseteq Conns /\ inbox' \in [Conns -> Inboxes]
<1>1. \A c \in Conns : inbox[c] \in Inboxes
  BY DEF TypeOK
<1>2. \A b \in Inboxes : [b EXCEPT !.msgs = <<>>] \in Inboxes
  BY EmptySeq DEF Inboxes
<1> QED
  BY <1>1, <1>2 DEF TypeOK, Close

\* A mutation of the tree puts one frame, at most, into each queue.
LEMMA MutatedShape ==
  ASSUME TypeOK, NEW f \in Nat \cup {None}, Mutated(f)
  PROVE  /\ closed' \subseteq Conns /\ inbox' \in [Conns -> Inboxes]
         /\ frames' \in [Conns -> Queues(Nat \cup {None})]
         /\ \A c \in Conns : frames'[c].items \in
              {frames[c].items, Append(frames[c].items, f)}
<1> DEFINE S == Nat \cup {None}
           subscribed == {c \in Conns : ~At(c, "closed")}
<1>1. \A c \in Conns : frames[c] \in Queues(S)
  BY DEF TypeOK
<1>2. \A c \in Conns : /\ Put(frames[c], f) \in Queues(S)
                       /\ Put(frames[c], f).items \in
                            {frames[c].items, Append(frames[c].items, f)}
  BY <1>1, PutAppends
<1>3. frames' = [c \in Conns |-> IF c \in subscribed THEN Put(frames[c], f) ELSE frames[c]]
  BY DEF Mutated
<1>4. Close({c \in subscribed : Overflows(frames[c])})
  BY DEF Mutated
<1>5. closed' \subseteq Conns /\ inbox' \in [Conns -> Inboxes]
  BY <1>4, CloseShape
<1> QED
  BY <1>1, <1>2, <1>3, <1>5

---------------------------------------------------------------------------
(* What each step does to the request and the thread of its connection.    *)

LEMMA MessageType ==
  ASSUME TypeOK, NEW c \in Conns
  PROVE  /\ inbox[c].stop \in Stops
         /\ inbox[c].msgs # <<>> => Head(inbox[c].msgs) \in Nat
<1>1. inbox[c].msgs \in Seq(Nat) /\ inbox[c].stop \in Stops
  BY DEF TypeOK, Inboxes
<1> HIDE DEF Stops
<1> QED
  BY <1>1, TailShifts

LEMMA TreeType ==
  ASSUME TypeOK
  PROVE  tree.made \in Nat /\ tree.active \in Nat /\ tree.made + 1 \in Nat
BY DEF TypeOK

LEMMA TakeMessageDoes ==
  ASSUME TypeOK, NEW c \in Conns, TakeMessage(c)
  PROVE  /\ req' \in [Conns -> Requests]
         /\ \A d \in Conns \ {c} : req'[d] = req[d]
         /\ work' = work
         /\ inbox[c].msgs # <<>> =>
              /\ req'[c].pc = "lock" /\ req'[c].num = Head(inbox[c].msgs)
              /\ req'[c].control = None /\ req'[c].stopped = FALSE
              /\ req'[c].took = FALSE
         /\ inbox[c].msgs = <<>> =>
              /\ req' = req
<1>1. req[c] \in Requests /\ work[c] \in Works
  BY DEF TypeOK
<1>2. req' \in [Conns -> Requests]
  <2>1. CASE inbox[c].msgs # <<>>
    <3> DEFINE r == [NoRequest EXCEPT !.pc = "lock", !.num =
       Head(inbox[c].msgs)]
    <3>1. r \in Requests
      BY <1>1, Constants, <2>1, MessageType DEF Requests, Works, Stops,
         WaitingPCs, LockedPCs, RunningPCs, NoRequest, NoWorker
    <3>2. req' = [req EXCEPT ![c] = r]
      BY <2>1 DEF TypeOK, TakeMessage, NoRequest, At
    <3> HIDE DEF r
    <3> QED
      BY <3>1, <3>2 DEF TypeOK
  <2>2. CASE inbox[c].msgs = <<>>
    <3> QED
      BY <2>2 DEF TypeOK, TakeMessage, NoRequest, At
  <2> QED
    BY <2>1, <2>2
<1>3. CASE inbox[c].msgs # <<>>
  <2>1. req' = [req EXCEPT ![c] = [NoRequest EXCEPT !.pc = "lock",
                                      !.num = Head(inbox[c].msgs)]]
    BY <1>3 DEF TakeMessage
  <2>2. req'[c] = [NoRequest EXCEPT !.pc = "lock", !.num = Head(inbox[c].msgs)]
    BY <2>1 DEF TypeOK
  <2>3. work' = work
    BY DEF TakeMessage
  <2> QED
    BY <2>1, <2>2, <2>3, <1>2, <1>3 DEF TypeOK, NoRequest
<1>4. CASE inbox[c].msgs = <<>>
  BY <1>4, <1>2 DEF TypeOK, TakeMessage, NoRequest, At, Requests, Works
<1> QED
  BY <1>3, <1>4

LEMMA LeaveLoopDoes ==
  ASSUME TypeOK, NEW c \in Conns, LeaveLoop(c)
  PROVE  /\ req' \in [Conns -> Requests]
         /\ \A d \in Conns \ {c} : req'[d] = req[d]
         /\ work' = work
         /\ req'[c].pc = "closed" /\ req'[c].num = req[c].num
         /\ req'[c].control = req[c].control /\ req'[c].stopped = req[c].stopped
         /\ req'[c].took = req[c].took
<1>1. req[c] \in Requests /\ work[c] \in Works
  BY DEF TypeOK
<1>2. req' \in [Conns -> Requests]
  <2> DEFINE r == [req[c] EXCEPT !.pc = "closed"]
  <2>1. r \in Requests
    BY <1>1, Constants DEF Requests, Works, Stops, WaitingPCs, LockedPCs,
       RunningPCs, NoRequest, NoWorker
  <2>2. req' = [req EXCEPT ![c] = r]
    BY DEF TypeOK, LeaveLoop, Goto, At
  <2> HIDE DEF r
  <2> QED
    BY <2>1, <2>2 DEF TypeOK
<1> QED
  BY <1>2 DEF TypeOK, LeaveLoop, Goto, At, Requests, Works

LEMMA GrantedDoes ==
  ASSUME TypeOK, NEW c \in Conns, Granted(c)
  PROVE  /\ req' \in [Conns -> Requests]
         /\ \A d \in Conns \ {c} : req'[d] = req[d]
         /\ work' = work
         /\ req'[c].pc = "start" /\ req'[c].num = req[c].num
         /\ req'[c].control = req[c].control /\ req'[c].stopped = req[c].stopped
         /\ req'[c].took = req[c].took
<1>1. req[c] \in Requests /\ work[c] \in Works
  BY DEF TypeOK
<1>2. req' \in [Conns -> Requests]
  <2> DEFINE r == [req[c] EXCEPT !.pc = "start"]
  <2>1. r \in Requests
    BY <1>1, Constants DEF Requests, Works, Stops, WaitingPCs, LockedPCs,
       RunningPCs, NoRequest, NoWorker
  <2>2. req' = [req EXCEPT ![c] = r]
    BY DEF TypeOK, Granted, Goto, At
  <2> HIDE DEF r
  <2> QED
    BY <2>1, <2>2 DEF TypeOK
<1> QED
  BY <1>2 DEF TypeOK, Granted, Goto, At, Requests, Works

LEMMA LockTimeoutDoes ==
  ASSUME TypeOK, NEW c \in Conns, LockTimeout(c)
  PROVE  /\ req' \in [Conns -> Requests]
         /\ \A d \in Conns \ {c} : req'[d] = req[d]
         /\ work' = work
         /\ req'[c].pc = "ready" /\ req'[c].num = 0 /\ req'[c].control = None
         /\ req'[c].stopped = FALSE /\ req'[c].took = FALSE
<1>1. req[c] \in Requests /\ work[c] \in Works
  BY DEF TypeOK
<1>2. req' \in [Conns -> Requests]
  <2> DEFINE r == NoRequest
  <2>1. r \in Requests
    BY <1>1, Constants DEF Requests, Works, Stops, WaitingPCs, LockedPCs,
       RunningPCs, NoRequest, NoWorker
  <2>2. req' = [req EXCEPT ![c] = r]
    BY DEF TypeOK, LockTimeout, Ready, NoRequest, At
  <2> HIDE DEF r
  <2> QED
    BY <2>1, <2>2 DEF TypeOK
<1> QED
  BY <1>2 DEF TypeOK, LockTimeout, Ready, NoRequest, At, Requests, Works

LEMMA StartSiblingDoes ==
  ASSUME TypeOK, NEW c \in Conns, StartSibling(c)
  PROVE  /\ req' \in [Conns -> Requests]
         /\ work' \in [Conns -> Works]
         /\ \A d \in Conns \ {c} : req'[d] = req[d] /\ work'[d] = work[d]
         /\ req'[c].pc = "stream" /\ req'[c].num = req[c].num
         /\ req'[c].control = None /\ req'[c].stopped = req[c].stopped
         /\ req'[c].took = req[c].took /\ work'[c].pc = "begin"
         /\ work'[c].target = None /\ work'[c].holder = None
         /\ work'[c].result = FALSE
<1>1. req[c] \in Requests /\ work[c] \in Works
  BY DEF TypeOK
<1>2. req' \in [Conns -> Requests]
  <2> DEFINE r == [req[c] EXCEPT !.pc = "stream", !.control = None]
  <2>1. r \in Requests
    BY <1>1, Constants DEF Requests, Works, Stops, WaitingPCs, LockedPCs,
       RunningPCs, NoRequest, NoWorker
  <2>2. req' = [req EXCEPT ![c] = r]
    BY DEF TypeOK, StartSibling, NoWorker, At
  <2> HIDE DEF r
  <2> QED
    BY <2>1, <2>2 DEF TypeOK
<1>3. work' \in [Conns -> Works]
  <2> DEFINE r == [NoWorker EXCEPT !.pc = "begin"]
  <2>1. r \in Works
    BY <1>1, Constants DEF Requests, Works, Stops, WaitingPCs, LockedPCs,
       RunningPCs, NoRequest, NoWorker
  <2>2. work' = [work EXCEPT ![c] = r]
    BY DEF TypeOK, StartSibling, NoWorker, At
  <2> HIDE DEF r
  <2> QED
    BY <2>1, <2>2 DEF TypeOK
<1> QED
  BY <1>2, <1>3 DEF TypeOK, StartSibling, NoWorker, At, Requests, Works

LEMMA GetControlDoes ==
  ASSUME TypeOK, NEW c \in Conns, GetControl(c)
  PROVE  /\ req' \in [Conns -> Requests]
         /\ \A d \in Conns \ {c} : req'[d] = req[d]
         /\ work' = work
         /\ req'[c].pc = req[c].pc /\ req'[c].num = req[c].num
         /\ req'[c].control = inbox[c].stop /\ req'[c].stopped = req[c].stopped
         /\ req'[c].took = (req[c].took \/ Matches(c, inbox[c].stop))
<1>1. req[c] \in Requests /\ work[c] \in Works
  BY DEF TypeOK
<1>2. req' \in [Conns -> Requests]
  <2> DEFINE r == [req[c] EXCEPT !.control = inbox[c].stop, !.took = @ \/
     Matches(c, inbox[c].stop)]
  <2>1. r \in Requests
    BY <1>1, Constants, MessageType DEF Requests, Works, Stops, WaitingPCs,
       LockedPCs, RunningPCs, NoRequest, NoWorker
  <2>2. req' = [req EXCEPT ![c] = r]
    BY DEF TypeOK, GetControl, At
  <2> HIDE DEF r
  <2> QED
    BY <2>1, <2>2 DEF TypeOK
<1> QED
  BY <1>2 DEF TypeOK, GetControl, At, Requests, Works

LEMMA HandleControlDoes ==
  ASSUME TypeOK, NEW c \in Conns, HandleControl(c)
  PROVE  /\ req' \in [Conns -> Requests]
         /\ work' \in [Conns -> Works]
         /\ \A d \in Conns \ {c} : req'[d] = req[d] /\ work'[d] = work[d]
         /\ req'[c].pc = req[c].pc /\ req'[c].num = req[c].num
         /\ req'[c].control = None
         /\ req'[c].stopped = (req[c].stopped \/ Matches(c, req[c].control))
         /\ req'[c].took = req[c].took /\ work'[c].pc = work[c].pc
         /\ work'[c].target = work[c].target /\ work'[c].holder = work[c].holder
         /\ work'[c].result = work[c].result
<1>1. req[c] \in Requests /\ work[c] \in Works
  BY DEF TypeOK
<1>2. req' \in [Conns -> Requests]
  <2> DEFINE r == [req[c] EXCEPT !.control = None, !.stopped = @ \/ Matches(c,
     req[c].control)]
  <2>1. r \in Requests
    BY <1>1, Constants DEF Requests, Works, Stops, WaitingPCs, LockedPCs,
       RunningPCs, NoRequest, NoWorker
  <2>2. req' = [req EXCEPT ![c] = r]
    BY DEF TypeOK, HandleControl, At
  <2> HIDE DEF r
  <2> QED
    BY <2>1, <2>2 DEF TypeOK
<1>3. work' \in [Conns -> Works]
  <2> DEFINE r == [work[c] EXCEPT !.cancelled = @ \/ Matches(c,
     req[c].control)]
  <2>1. r \in Works
    BY <1>1, Constants DEF Requests, Works, Stops, WaitingPCs, LockedPCs,
       RunningPCs, NoRequest, NoWorker
  <2>2. work' = [work EXCEPT ![c] = r]
    BY DEF TypeOK, HandleControl, At
  <2> HIDE DEF r
  <2> QED
    BY <2>1, <2>2 DEF TypeOK
<1> QED
  BY <1>2, <1>3 DEF TypeOK, HandleControl, At, Requests, Works

LEMMA LeaveStreamDoes ==
  ASSUME TypeOK, NEW c \in Conns, NEW gone \in BOOLEAN, LeaveStream(c, gone)
  PROVE  /\ req' \in [Conns -> Requests]
         /\ work' \in [Conns -> Works]
         /\ \A d \in Conns \ {c} : req'[d] = req[d] /\ work'[d] = work[d]
         /\ req'[c].pc = "join" /\ req'[c].num = req[c].num
         /\ req'[c].control = None
         /\ req'[c].stopped = (req[c].stopped \/ PendingStop(c))
         /\ req'[c].took = req[c].took /\ work'[c].pc = work[c].pc
         /\ work'[c].target = work[c].target /\ work'[c].holder = work[c].holder
         /\ work'[c].result = work[c].result
<1>1. req[c] \in Requests /\ work[c] \in Works
  BY DEF TypeOK
<1>2. req' \in [Conns -> Requests]
  <2> DEFINE r == [req[c] EXCEPT !.pc = "join", !.gone = gone, !.control =
     None, !.stopped = @ \/ PendingStop(c)]
  <2>1. r \in Requests
    BY <1>1, Constants DEF Requests, Works, Stops, WaitingPCs, LockedPCs,
       RunningPCs, NoRequest, NoWorker
  <2>2. req' = [req EXCEPT ![c] = r]
    BY DEF TypeOK, LeaveStream
  <2> HIDE DEF r
  <2> QED
    BY <2>1, <2>2 DEF TypeOK
<1>3. work' \in [Conns -> Works]
  <2> DEFINE r == [work[c] EXCEPT !.cancelled = TRUE]
  <2>1. r \in Works
    BY <1>1, Constants DEF Requests, Works, Stops, WaitingPCs, LockedPCs,
       RunningPCs, NoRequest, NoWorker
  <2>2. work' = [work EXCEPT ![c] = r]
    BY DEF TypeOK, LeaveStream
  <2> HIDE DEF r
  <2> QED
    BY <2>1, <2>2 DEF TypeOK
<1> QED
  BY <1>2, <1>3 DEF TypeOK, LeaveStream, Requests, Works

LEMMA EndRequestDoes ==
  ASSUME TypeOK, NEW c \in Conns, EndRequest(c)
  PROVE  /\ req' \in [Conns -> Requests]
         /\ work' \in [Conns -> Works]
         /\ \A d \in Conns \ {c} : req'[d] = req[d] /\ work'[d] = work[d]
         /\ work[c].pc = "ended" =>
              /\ req'[c].pc = "ready" /\ req'[c].num = 0
              /\ req'[c].control = None /\ req'[c].stopped = FALSE
              /\ req'[c].took = FALSE /\ work'[c].pc = "none"
              /\ work'[c].target = None /\ work'[c].holder = None
              /\ work'[c].result = FALSE
         /\ work[c].pc # "ended" =>
              /\ req'[c].pc = "ready" /\ req'[c].num = 0
              /\ req'[c].control = None /\ req'[c].stopped = FALSE
              /\ req'[c].took = FALSE /\ work' = work
<1>1. req[c] \in Requests /\ work[c] \in Works
  BY DEF TypeOK
<1>2. req' \in [Conns -> Requests]
  <2> DEFINE r == NoRequest
  <2>1. r \in Requests
    BY <1>1, Constants DEF Requests, Works, Stops, WaitingPCs, LockedPCs,
       RunningPCs, NoRequest, NoWorker
  <2>2. req' = [req EXCEPT ![c] = r]
    BY DEF TypeOK, EndRequest, NoRequest, NoWorker
  <2> HIDE DEF r
  <2> QED
    BY <2>1, <2>2 DEF TypeOK
<1>3. work' \in [Conns -> Works]
  <2>1. CASE work[c].pc = "ended"
    <3> DEFINE r == NoWorker
    <3>1. r \in Works
      BY <1>1, Constants, <2>1 DEF Requests, Works, Stops, WaitingPCs,
         LockedPCs, RunningPCs, NoRequest, NoWorker
    <3>2. work' = [work EXCEPT ![c] = r]
      BY <2>1 DEF TypeOK, EndRequest, NoRequest, NoWorker
    <3> HIDE DEF r
    <3> QED
      BY <3>1, <3>2 DEF TypeOK
  <2>2. CASE work[c].pc # "ended"
    <3> QED
      BY <2>2 DEF TypeOK, EndRequest, NoRequest, NoWorker
  <2> QED
    BY <2>1, <2>2
<1>4. CASE work[c].pc = "ended"
  BY <1>4, <1>2, <1>3 DEF TypeOK, EndRequest, NoRequest, NoWorker, Requests,
     Works
<1>5. CASE work[c].pc # "ended"
  BY <1>5, <1>2, <1>3 DEF TypeOK, EndRequest, NoRequest, NoWorker, Requests,
     Works
<1> QED
  BY <1>4, <1>5

LEMMA GotoDoes ==
  ASSUME TypeOK, NEW c \in Conns, NEW l \in WaitingPCs \cup LockedPCs, Goto(c, l)
  PROVE  /\ req' \in [Conns -> Requests]
         /\ \A d \in Conns \ {c} : req'[d] = req[d]
         /\ req'[c].pc = l /\ req'[c].num = req[c].num
         /\ req'[c].control = req[c].control /\ req'[c].stopped = req[c].stopped
         /\ req'[c].took = req[c].took
<1> DEFINE r == [req[c] EXCEPT !.pc = l]
<1>1. req[c] \in Requests
  BY DEF TypeOK
<1>2. r \in Requests
  BY <1>1 DEF Requests
<1>3. r.pc = l /\ r.num = req[c].num /\ r.control = req[c].control
      /\ r.stopped = req[c].stopped /\ r.took = req[c].took
  BY <1>1 DEF Requests
<1>4. req' = [req EXCEPT ![c] = r]
  BY DEF Goto
<1> HIDE DEF r
<1>5. /\ req' \in [Conns -> Requests] /\ req'[c] = r
      /\ \A d \in Conns \ {c} : req'[d] = req[d]
  BY <1>2, <1>4 DEF TypeOK
<1> QED
  BY <1>3, <1>5

LEMMA WorkerBeginsDoes ==
  ASSUME TypeOK, NEW c \in Conns, WorkerBegins(c)
  PROVE  /\ work' \in [Conns -> Works]
         /\ \A d \in Conns \ {c} : work'[d] = work[d]
         /\ req' = req
         /\ work'[c].pc = "run" /\ work'[c].target = tree.made + 1
         /\ work'[c].holder = work[c].holder /\ work'[c].result = work[c].result
<1>1. req[c] \in Requests /\ work[c] \in Works
  BY DEF TypeOK
<1>2. work' \in [Conns -> Works]
  <2> DEFINE r == [work[c] EXCEPT !.pc = "run", !.target = tree.made + 1]
  <2>1. r \in Works
    BY <1>1, Constants, TreeType DEF Requests, Works, Stops, WaitingPCs,
       LockedPCs, RunningPCs, NoRequest, NoWorker
  <2>2. work' = [work EXCEPT ![c] = r]
    BY DEF TypeOK, WorkerBegins
  <2> HIDE DEF r
  <2> QED
    BY <2>1, <2>2 DEF TypeOK
<1> QED
  BY <1>2 DEF TypeOK, WorkerBegins, Requests, Works

LEMMA WorkerTokensDoes ==
  ASSUME TypeOK, NEW c \in Conns, WorkerTokens(c)
  PROVE  /\ work' \in [Conns -> Works]
         /\ \A d \in Conns \ {c} : work'[d] = work[d]
         /\ req' = req
         /\ work'[c].pc = work[c].pc /\ work'[c].target = work[c].target
         /\ work[c].holder = None => work'[c].holder = tree.active
         /\ work[c].holder # None => work'[c].holder = work[c].holder
         /\ work'[c].result = work[c].result
<1> DEFINE node == IF work[c].holder = None THEN tree.active ELSE work[c].holder
           k == work[c].out + 1
           r == [work[c] EXCEPT !.holder = node, !.out = k]
<1>1. work[c] \in Works /\ k \in Nat
  BY DEF TypeOK, Works
<1>2. node \in Nat \cup {None}
  BY <1>1, TreeType DEF Works
<1>3. work' = [work EXCEPT ![c] = r] /\ req' = req
  BY DEF WorkerTokens
<1>4. /\ work[c].holder = None => node = tree.active
      /\ work[c].holder # None => node = work[c].holder
  OBVIOUS
<1> HIDE DEF node, k
<1>5. /\ r \in Works /\ r.pc = work[c].pc /\ r.target = work[c].target
      /\ r.holder = node /\ r.result = work[c].result
  BY <1>1, <1>2 DEF Works
<1> HIDE DEF r
<1>6. /\ work' \in [Conns -> Works] /\ work'[c] = r
      /\ \A d \in Conns \ {c} : work'[d] = work[d]
  BY <1>3, <1>5 DEF TypeOK
<1> QED
  BY <1>3, <1>4, <1>5, <1>6

LEMMA WorkerFinalizesDoes ==
  ASSUME TypeOK, NEW c \in Conns, WorkerFinalizes(c)
  PROVE  /\ work' \in [Conns -> Works]
         /\ \A d \in Conns \ {c} : work'[d] = work[d]
         /\ req' = req
         /\ work'[c].pc = "finish" /\ work'[c].target = work[c].target
         /\ work'[c].holder = work[c].holder /\ work'[c].result = TRUE
<1>1. req[c] \in Requests /\ work[c] \in Works
  BY DEF TypeOK
<1>2. work' \in [Conns -> Works]
  <2> DEFINE r == [work[c] EXCEPT !.pc = "finish", !.result = TRUE]
  <2>1. r \in Works
    BY <1>1, Constants DEF Requests, Works, Stops, WaitingPCs, LockedPCs,
       RunningPCs, NoRequest, NoWorker
  <2>2. work' = [work EXCEPT ![c] = r]
    BY DEF TypeOK, WorkerFinalizes
  <2> HIDE DEF r
  <2> QED
    BY <2>1, <2>2 DEF TypeOK
<1> QED
  BY <1>2 DEF TypeOK, WorkerFinalizes, Requests, Works

LEMMA WorkerFailsDoes ==
  ASSUME TypeOK, NEW c \in Conns, WorkerFails(c)
  PROVE  /\ work' \in [Conns -> Works]
         /\ \A d \in Conns \ {c} : work'[d] = work[d]
         /\ req' = req
         /\ work'[c].pc = "finish" /\ work'[c].target = work[c].target
         /\ work'[c].holder = work[c].holder /\ work'[c].result = work[c].result
<1>1. req[c] \in Requests /\ work[c] \in Works
  BY DEF TypeOK
<1>2. work' \in [Conns -> Works]
  <2> DEFINE r == [work[c] EXCEPT !.pc = "finish"]
  <2>1. r \in Works
    BY <1>1, Constants DEF Requests, Works, Stops, WaitingPCs, LockedPCs,
       RunningPCs, NoRequest, NoWorker
  <2>2. work' = [work EXCEPT ![c] = r]
    BY DEF TypeOK, WorkerFails
  <2> HIDE DEF r
  <2> QED
    BY <2>1, <2>2 DEF TypeOK
<1> QED
  BY <1>2 DEF TypeOK, WorkerFails, Requests, Works

LEMMA WorkerEndsDoes ==
  ASSUME TypeOK, NEW c \in Conns, WorkerEnds(c)
  PROVE  /\ work' \in [Conns -> Works]
         /\ \A d \in Conns \ {c} : work'[d] = work[d]
         /\ req' = req
         /\ work'[c].pc = "ended" /\ work'[c].target = work[c].target
         /\ work'[c].holder = work[c].holder /\ work'[c].result = work[c].result
<1>1. req[c] \in Requests /\ work[c] \in Works
  BY DEF TypeOK
<1>2. work' \in [Conns -> Works]
  <2> DEFINE r == [work[c] EXCEPT !.pc = "ended"]
  <2>1. r \in Works
    BY <1>1, Constants DEF Requests, Works, Stops, WaitingPCs, LockedPCs,
       RunningPCs, NoRequest, NoWorker
  <2>2. work' = [work EXCEPT ![c] = r]
    BY DEF TypeOK, WorkerEnds
  <2> HIDE DEF r
  <2> QED
    BY <2>1, <2>2 DEF TypeOK
<1> QED
  BY <1>2 DEF TypeOK, WorkerEnds, Requests, Works

\* A navigation moves the active node to one that was made.
LEMMA NavigateDoes ==
  ASSUME TypeOK, NEW n \in 0..tree.made, Navigate(n)
  PROVE  /\ tree' \in [active : Nat, made : Nat, moves : Nat]
         /\ tree'.made = tree.made /\ tree'.active = n /\ n <= tree.made /\ n \in Nat
<1>1. tree \in [active : Nat, made : Nat, moves : Nat]
  BY DEF TypeOK
<1> DEFINE k == tree.moves + 1
<1>2. tree' = [tree EXCEPT !.active = n, !.moves = k] /\ k \in Nat
  BY <1>1 DEF Navigate
<1>3. n \in Nat /\ n <= tree.made
  BY <1>1
<1> HIDE DEF k
<1> QED
  BY <1>1, <1>2, <1>3

\* SendDone, when siblings are left.
LEMMA NextSiblingDoes ==
  ASSUME TypeOK, NEW c \in Conns,
         req' = [req EXCEPT ![c].pc = "start", ![c].sib = @ + 1]
  PROVE  /\ req' \in [Conns -> Requests]
         /\ \A d \in Conns \ {c} : req'[d] = req[d]
         /\ req'[c].pc = "start" /\ req'[c].num = req[c].num
         /\ req'[c].control = req[c].control /\ req'[c].stopped = req[c].stopped
         /\ req'[c].took = req[c].took
<1> DEFINE k == req[c].sib + 1
           r == [req[c] EXCEPT !.pc = "start", !.sib = k]
<1>1. req[c] \in Requests /\ k \in Nat
  BY DEF TypeOK, Requests
<1>2. req' = [req EXCEPT ![c] = r]
  OBVIOUS
<1> HIDE DEF k
<1>3. r \in Requests
  BY <1>1 DEF Requests, LockedPCs
<1>4. r.pc = "start" /\ r.num = req[c].num /\ r.control = req[c].control
      /\ r.stopped = req[c].stopped /\ r.took = req[c].took
  BY <1>1 DEF Requests
<1> HIDE DEF r
<1>5. /\ req' \in [Conns -> Requests] /\ req'[c] = r
      /\ \A d \in Conns \ {c} : req'[d] = req[d]
  BY <1>2, <1>3 DEF TypeOK
<1> QED
  BY <1>4, <1>5

\* Cancel, while the handler joins its thread.
LEMMA GoneDoes ==
  ASSUME TypeOK, NEW c \in Conns, req' = [req EXCEPT ![c].gone = TRUE]
  PROVE  /\ req' \in [Conns -> Requests]
         /\ \A d \in Conns \ {c} : req'[d] = req[d]
         /\ req'[c].pc = req[c].pc /\ req'[c].num = req[c].num
         /\ req'[c].control = req[c].control /\ req'[c].stopped = req[c].stopped
         /\ req'[c].took = req[c].took
<1> DEFINE r == [req[c] EXCEPT !.gone = TRUE]
<1>1. req[c] \in Requests
  BY DEF TypeOK
<1>2. r \in Requests
  BY <1>1 DEF Requests
<1>3. r.pc = req[c].pc /\ r.num = req[c].num /\ r.control = req[c].control
      /\ r.stopped = req[c].stopped /\ r.took = req[c].took
  BY <1>1 DEF Requests
<1>4. req' = [req EXCEPT ![c] = r]
  OBVIOUS
<1> HIDE DEF r
<1>5. /\ req' \in [Conns -> Requests] /\ req'[c] = r
      /\ \A d \in Conns \ {c} : req'[d] = req[d]
  BY <1>2, <1>4 DEF TypeOK
<1> QED
  BY <1>3, <1>5

---------------------------------------------------------------------------
(* The parts of the invariant, one lemma each.                             *)

\* What the steps put into an inbox.
LEMMA InboxType ==
  ASSUME TypeOK, NEW c \in Conns
  PROVE  /\ \A r \in Stops : [inbox[c] EXCEPT !.stop = r] \in Inboxes
         /\ [inbox[c] EXCEPT !.msgs = Append(@, inbox[c].sent + 1), !.sent = @ + 1] \in Inboxes
         /\ inbox[c].msgs # <<>> => [inbox[c] EXCEPT !.msgs = Tail(@)] \in Inboxes
         /\ [msgs |-> <<>>, stop |-> None, sent |-> MaxRequests] \in Inboxes
         /\ None \in Stops /\ All \in Stops /\ Nat \subseteq Stops
<1> DEFINE k == inbox[c].sent + 1
           m == Append(inbox[c].msgs, k)
           t == Tail(inbox[c].msgs)
<1>1. inbox[c] \in Inboxes
  BY DEF TypeOK
<1>2. k \in Nat /\ inbox[c].msgs \in Seq(Nat)
  BY <1>1 DEF Inboxes
<1>3. m \in Seq(Nat) /\ (inbox[c].msgs # <<>> => t \in Seq(Nat))
  BY <1>2, AppendProperties, TailShifts
<1>4. <<>> \in Seq(Nat) /\ MaxRequests \in Nat
  BY Constants, EmptySeq
<1>5. None \in Stops /\ All \in Stops /\ Nat \subseteq Stops
  BY DEF Stops
<1> HIDE DEF k, m, t, Stops
<1>6. \A r \in Stops : [inbox[c] EXCEPT !.stop = r] \in Inboxes
  BY <1>1 DEF Inboxes
<1>7. [inbox[c] EXCEPT !.msgs = m, !.sent = k] \in Inboxes
  BY <1>1, <1>2, <1>3 DEF Inboxes
<1>8. inbox[c].msgs # <<>> => [inbox[c] EXCEPT !.msgs = t] \in Inboxes
  BY <1>1, <1>3 DEF Inboxes
<1>9. [msgs |-> <<>>, stop |-> None, sent |-> MaxRequests] \in Inboxes
  BY <1>4, <1>5 DEF Inboxes
<1> QED
  BY <1>5, <1>6, <1>7, <1>8, <1>9 DEF k, m, t

\* The types that a step of the request or the thread alone touches.
LEMMA TypeOfParts ==
  ASSUME TypeOK,
         lock' \in Conns \cup {None}, closed' \subseteq Conns,
         inbox' \in [Conns -> Inboxes], req' \in [Conns -> Requests],
         work' \in [Conns -> Works], UNCHANGED <<frames, landed, tree>>
  PROVE  TypeOK'
BY DEF TypeOK

\* Every step keeps the shape of the records.
LEMMA TypeStep ==
  ASSUME TypeOK, [Next]_vars
  PROVE  TypeOK'
<1>1. ASSUME NEW c \in Conns, ClientSends(c)
      PROVE  TypeOK'
  <2>1. UNCHANGED <<lock, req, work, frames, landed, tree>>
    BY <1>1 DEF ClientSends
  <2>2. CASE Len(inbox[c].msgs) >= MaxPending
    <3>1. Close({c})
      BY <1>1, <2>2 DEF ClientSends
    <3> QED
      BY <2>1, <3>1, CloseShape DEF TypeOK
  <2>3. CASE ~(Len(inbox[c].msgs) >= MaxPending)
    <3> DEFINE i == [inbox[c] EXCEPT !.msgs = Append(@, inbox[c].sent + 1), !.sent = @ + 1]
    <3>1. inbox' = [inbox EXCEPT ![c] = i] /\ closed' = closed
      BY <1>1, <2>3 DEF ClientSends
    <3>2. i \in Inboxes
      BY InboxType
    <3> HIDE DEF i
    <3> QED
      BY <2>1, <3>1, <3>2 DEF TypeOK
  <2> QED
    BY <2>2, <2>3
<1>2. ASSUME NEW c \in Conns, NEW r \in 1..MaxRequests \cup {All}, ClientStops(c, r)
      PROVE  TypeOK'
  <2> DEFINE i == [inbox[c] EXCEPT !.stop = r]
  <2>1. i \in Inboxes
    <3>1. r \in 1..MaxRequests => r \in Nat
      BY Constants
    <3>2. r \in Stops
      BY <1>2, <3>1 DEF Stops
    <3> QED
      BY <3>2, InboxType
  <2>2. /\ inbox' = [inbox EXCEPT ![c] = i]
        /\ UNCHANGED <<lock, closed, req, work, frames, landed, tree>>
    BY <1>2 DEF ClientStops
  <2> HIDE DEF i
  <2> QED
    BY <2>1, <2>2 DEF TypeOK
<1>3. ASSUME NEW c \in Conns, Drops(c)
      PROVE  TypeOK'
  <2>1. Close({c}) /\ UNCHANGED <<lock, req, work, frames, landed, tree>>
    BY <1>3 DEF Drops
  <2> QED
    BY <2>1, CloseShape DEF TypeOK
<1>4. ASSUME NEW c \in Conns, TakeMessage(c)
      PROVE  TypeOK'
  <2>1. UNCHANGED <<lock, closed, work, frames, landed, tree>>
    BY <1>4 DEF TakeMessage
  <2>2. inbox' \in [Conns -> Inboxes]
    <3> DEFINE i == [inbox[c] EXCEPT !.msgs = Tail(@)]
               j == [inbox[c] EXCEPT !.stop = None]
    <3>1. j \in Inboxes /\ (inbox[c].msgs # <<>> => i \in Inboxes)
      BY InboxType
    <3>2. inbox' = [inbox EXCEPT ![c] = IF inbox[c].msgs # <<>> THEN i ELSE j]
      BY <1>4 DEF TakeMessage
    <3> HIDE DEF i, j
    <3> QED
      BY <3>1, <3>2 DEF TypeOK
  <2>3. req' \in [Conns -> Requests]
    BY <1>4, TakeMessageDoes
  <2> QED
    BY <2>1, <2>2, <2>3, TypeOfParts DEF TypeOK
<1>5. ASSUME NEW c \in Conns, LeaveLoop(c)
      PROVE  TypeOK'
  <2> DEFINE i == [msgs |-> <<>>, stop |-> None, sent |-> MaxRequests]
             q == [items |-> <<>>, closed |-> TRUE]
  <2>1. i \in Inboxes
    BY InboxType
  <2>2. q \in Queues(Nat \cup {None}) /\ <<>> \in Seq(Nat)
    BY EmptySeq, Constants DEF Queues
  <2>3. /\ inbox' = [inbox EXCEPT ![c] = i] /\ frames' = [frames EXCEPT ![c] = q]
        /\ landed' = [landed EXCEPT ![c] = <<>>]
        /\ UNCHANGED <<lock, closed, work, tree>>
    BY <1>5 DEF LeaveLoop
  <2>4. req' \in [Conns -> Requests]
    BY <1>5, LeaveLoopDoes
  <2> HIDE DEF i, q
  <2> QED
    BY <2>1, <2>2, <2>3, <2>4 DEF TypeOK
<1>6. ASSUME NEW c \in Conns, Granted(c)
      PROVE  TypeOK'
  <2>1. UNCHANGED <<inbox, closed, work, frames, landed, tree>> /\ lock' = c
    BY <1>6 DEF Granted
  <2>2. req' \in [Conns -> Requests]
    BY <1>6, GrantedDoes
  <2> QED
    BY <2>1, <2>2, TypeOfParts DEF TypeOK
<1>7. ASSUME NEW c \in Conns, StartSibling(c)
      PROVE  TypeOK'
  <2>1. UNCHANGED <<lock, inbox, closed, frames, landed, tree>>
    BY <1>7 DEF StartSibling
  <2>2. req' \in [Conns -> Requests] /\ work' \in [Conns -> Works]
    BY <1>7, StartSiblingDoes
  <2> QED
    BY <2>1, <2>2, TypeOfParts DEF TypeOK
<1>8. ASSUME NEW c \in Conns, SendToken(c)
      PROVE  TypeOK'
  BY <1>8 DEF SendToken, TypeOK
<1>9. ASSUME NEW c \in Conns, StreamEnds(c)
      PROVE  TypeOK'
  <2>1. LeaveStream(c, FALSE)
    BY <1>9 DEF StreamEnds
  <2>2. UNCHANGED <<lock, inbox, closed, frames, landed, tree>>
    BY <2>1 DEF LeaveStream
  <2>3. req' \in [Conns -> Requests] /\ work' \in [Conns -> Works]
    BY <2>1, LeaveStreamDoes
  <2> QED
    BY <2>2, <2>3, TypeOfParts DEF TypeOK
<1>10. ASSUME NEW c \in Conns, Joined(c)
      PROVE  TypeOK'
  <2>1. UNCHANGED <<inbox, closed, frames, landed, tree>>
    BY <1>10 DEF Joined
  <2>2. CASE EndRequest(c)
    <3>1. req' \in [Conns -> Requests] /\ work' \in [Conns -> Works] /\ lock' = None
      BY <2>2, EndRequestDoes DEF EndRequest
    <3> QED
      BY <2>1, <3>1, TypeOfParts DEF TypeOK
  <2>3. ASSUME NEW l \in {"await", "send"}, Goto(c, l), UNCHANGED <<lock, work>>
        PROVE  TypeOK'
    <3>1. req' \in [Conns -> Requests]
      BY <2>3, GotoDoes DEF LockedPCs
    <3> QED
      BY <2>1, <2>3, <3>1, TypeOfParts DEF TypeOK
  <2> QED
    BY <1>10, <2>2, <2>3 DEF Joined
<1>11. ASSUME NEW c \in Conns, TreeLanded(c)
      PROVE  TypeOK'
  <2>1. Goto(c, "send") /\ UNCHANGED <<lock, inbox, closed, work, frames, landed, tree>>
    BY <1>11 DEF TreeLanded
  <2>2. req' \in [Conns -> Requests]
    BY <2>1, GotoDoes DEF LockedPCs
  <2> QED
    BY <2>1, <2>2, TypeOfParts DEF TypeOK
<1>12. ASSUME NEW c \in Conns, SendDone(c)
      PROVE  TypeOK'
  <2>1. UNCHANGED <<inbox, closed, frames, landed, tree>>
    BY <1>12 DEF SendDone
  <2>2. CASE EndRequest(c)
    <3>1. req' \in [Conns -> Requests] /\ work' \in [Conns -> Works] /\ lock' = None
      BY <2>2, EndRequestDoes DEF EndRequest
    <3> QED
      BY <2>1, <3>1, TypeOfParts DEF TypeOK
  <2>3. CASE ~EndRequest(c)
    <3>1. req' = [req EXCEPT ![c].pc = "start", ![c].sib = @ + 1]
          /\ UNCHANGED <<lock, work>>
      BY <1>12, <2>3 DEF SendDone
    <3>2. req' \in [Conns -> Requests]
      BY <3>1, NextSiblingDoes
    <3> QED
      BY <2>1, <3>1, <3>2, TypeOfParts DEF TypeOK
  <2> QED
    BY <2>2, <2>3
<1>13. ASSUME NEW c \in Conns, Cancel(c)
      PROVE  TypeOK'
  <2>1. UNCHANGED <<inbox, closed, frames, landed, tree>>
    BY <1>13 DEF Cancel, LeaveStream
  <2>2. CASE Goto(c, "ready") /\ UNCHANGED <<lock, work>>
    <3>1. req' \in [Conns -> Requests]
      BY <2>2, GotoDoes DEF WaitingPCs
    <3> QED
      BY <2>1, <2>2, <3>1, TypeOfParts DEF TypeOK
  <2>3. CASE LeaveStream(c, TRUE)
    <3>1. req' \in [Conns -> Requests] /\ work' \in [Conns -> Works] /\ lock' = lock
      BY <2>3, LeaveStreamDoes DEF LeaveStream
    <3> QED
      BY <2>1, <3>1, TypeOfParts DEF TypeOK
  <2>4. CASE req' = [req EXCEPT ![c].gone = TRUE] /\ UNCHANGED <<lock, work>>
    <3>1. req' \in [Conns -> Requests]
      BY <2>4, GoneDoes
    <3> QED
      BY <2>1, <2>4, <3>1, TypeOfParts DEF TypeOK
  <2>5. CASE EndRequest(c)
    <3>1. req' \in [Conns -> Requests] /\ work' \in [Conns -> Works] /\ lock' = None
      BY <2>5, EndRequestDoes DEF EndRequest
    <3> QED
      BY <2>1, <3>1, TypeOfParts DEF TypeOK
  <2> QED
    BY <1>13, <2>2, <2>3, <2>4, <2>5 DEF Cancel
<1>14. ASSUME NEW c \in Conns, GetControl(c)
      PROVE  TypeOK'
  <2> DEFINE i == [inbox[c] EXCEPT !.stop = None]
  <2>1. i \in Inboxes
    BY InboxType
  <2>2. /\ inbox' = [inbox EXCEPT ![c] = i]
        /\ UNCHANGED <<lock, closed, work, frames, landed, tree>>
    BY <1>14 DEF GetControl
  <2>3. req' \in [Conns -> Requests]
    BY <1>14, GetControlDoes
  <2> HIDE DEF i
  <2> QED
    BY <2>1, <2>2, <2>3, TypeOfParts DEF TypeOK
<1>15. ASSUME NEW c \in Conns, HandleControl(c)
      PROVE  TypeOK'
  <2>1. UNCHANGED <<lock, inbox, closed, frames, landed, tree>>
    BY <1>15 DEF HandleControl
  <2>2. req' \in [Conns -> Requests] /\ work' \in [Conns -> Works]
    BY <1>15, HandleControlDoes
  <2> QED
    BY <2>1, <2>2, TypeOfParts DEF TypeOK
<1>16. ASSUME NEW c \in Conns, WorkerBegins(c)
      PROVE  TypeOK'
  <2>1. /\ Mutated(None) /\ UNCHANGED <<lock, req, landed>>
        /\ tree' = [tree EXCEPT !.made = @ + 1, !.active = tree.made + 1]
    BY <1>16 DEF WorkerBegins
  <2>2. work' \in [Conns -> Works]
    BY <1>16, WorkerBeginsDoes
  <2>3. tree' \in [active : Nat, made : Nat, moves : Nat]
    <3> DEFINE m == tree.made + 1
    <3>1. tree' = [tree EXCEPT !.made = m, !.active = m] /\ m \in Nat
      BY <2>1, TreeType
    <3> HIDE DEF m
    <3> QED
      BY <3>1 DEF TypeOK
  <2>4. /\ closed' \subseteq Conns /\ inbox' \in [Conns -> Inboxes]
        /\ frames' \in [Conns -> Queues(Nat \cup {None})]
    BY <2>1, MutatedShape
  <2> QED
    BY <2>1, <2>2, <2>3, <2>4 DEF TypeOK
<1>17. ASSUME NEW c \in Conns, WorkerTokens(c)
      PROVE  TypeOK'
  <2>1. /\ Close(IF Overflows(tokens[c]) THEN {c} ELSE {})
        /\ UNCHANGED <<lock, req, frames, landed, tree>>
    BY <1>17 DEF WorkerTokens
  <2>2. closed' \subseteq Conns /\ inbox' \in [Conns -> Inboxes]
    BY <2>1, CloseShape
  <2>3. work' \in [Conns -> Works]
    BY <1>17, WorkerTokensDoes
  <2> QED
    BY <2>1, <2>2, <2>3, TypeOfParts DEF TypeOK
<1>18. ASSUME NEW c \in Conns, WorkerFinalizes(c)
      PROVE  TypeOK'
  <2>1. Mutated(work[c].target) /\ UNCHANGED <<lock, req, landed, tree>>
    BY <1>18 DEF WorkerFinalizes
  <2>2. work' \in [Conns -> Works]
    BY <1>18, WorkerFinalizesDoes
  <2>3. work[c].target \in Nat \cup {None}
    BY DEF TypeOK, Works
  <2>4. /\ closed' \subseteq Conns /\ inbox' \in [Conns -> Inboxes]
        /\ frames' \in [Conns -> Queues(Nat \cup {None})]
    BY <2>1, <2>3, MutatedShape
  <2> QED
    BY <2>1, <2>2, <2>4 DEF TypeOK
<1>19. ASSUME NEW c \in Conns, WorkerFails(c)
      PROVE  TypeOK'
  <2>1. UNCHANGED <<lock, inbox, closed, req, frames, landed, tree>>
    BY <1>19 DEF WorkerFails
  <2>2. work' \in [Conns -> Works]
    BY <1>19, WorkerFailsDoes
  <2> QED
    BY <2>1, <2>2, TypeOfParts DEF TypeOK
<1>20. ASSUME NEW c \in Conns, WorkerEnds(c)
      PROVE  TypeOK'
  <2>1. /\ Close(IF Overflows(tokens[c]) THEN {c} ELSE {})
        /\ UNCHANGED <<lock, req, frames, landed, tree>>
    BY <1>20 DEF WorkerEnds
  <2>2. closed' \subseteq Conns /\ inbox' \in [Conns -> Inboxes]
    BY <2>1, CloseShape
  <2>3. work' \in [Conns -> Works]
    BY <1>20, WorkerEndsDoes
  <2> QED
    BY <2>1, <2>2, <2>3, TypeOfParts DEF TypeOK
<1>21. ASSUME NEW c \in Conns, Forward(c)
      PROVE  TypeOK'
  <2> DEFINE S == Nat \cup {None}
             q == [frames[c] EXCEPT !.items = Tail(@)]
             n == Head(frames[c].items)
  <2>1. frames[c] \in Queues(S) /\ landed[c] \in Seq(Nat) /\ frames[c].items # <<>>
    BY <1>21 DEF TypeOK, Forward
  <2>2. /\ frames[c].items \in Seq(S) /\ Len(frames[c].items) <= MaxQueue
        /\ Len(frames[c].items) \in Nat
    BY <2>1 DEF Queues
  <2>3. /\ n \in S /\ Tail(frames[c].items) \in Seq(S)
        /\ Len(Tail(frames[c].items)) = Len(frames[c].items) - 1
    BY <2>1, <2>2, TailShifts
  <2>4. q \in Queues(S)
    <3> DEFINE t == Tail(frames[c].items)
    <3>1. t \in Seq(S) /\ Len(t) <= MaxQueue
      BY <2>2, <2>3, Constants
    <3> HIDE DEF t
    <3>2. [frames[c] EXCEPT !.items = t] \in Queues(S)
      BY <2>1, <3>1 DEF Queues
    <3> QED
      BY <3>2 DEF t
  <2>5. /\ frames' = [frames EXCEPT ![c] = q]
        /\ landed' = IF n = None THEN landed
                     ELSE [landed EXCEPT ![c] = Landed(landed[c], n)]
        /\ UNCHANGED <<lock, inbox, closed, req, work, tree>>
    BY <1>21 DEF Forward
  <2>6. n # None => Landed(landed[c], n) \in Seq(Nat)
    BY <2>1, <2>3, LandedAdds
  <2> HIDE DEF q, n
  <2>7. frames' \in [Conns -> Queues(S)] /\ landed' \in [Conns -> Seq(Nat)]
    BY <2>4, <2>5, <2>6 DEF TypeOK
  <2> QED
    BY <2>5, <2>7 DEF TypeOK
<1>22. ASSUME NEW c \in Conns, LockTimeout(c)
      PROVE  TypeOK'
  <2>1. UNCHANGED <<lock, inbox, closed, work, frames, landed, tree>>
    BY <1>22 DEF LockTimeout
  <2>2. req' \in [Conns -> Requests]
    BY <1>22, LockTimeoutDoes
  <2> QED
    BY <2>1, <2>2, TypeOfParts DEF TypeOK
<1>23. CASE UNCHANGED vars
  BY <1>23 DEF vars, TypeOK
<1>24. ASSUME NEW n \in 0..tree.made, Navigate(n)
      PROVE  TypeOK'
  <2>1. Mutated(None) /\ UNCHANGED <<lock, req, work, landed>>
    BY <1>24 DEF Navigate
  <2>2. tree' \in [active : Nat, made : Nat, moves : Nat]
    BY <1>24, NavigateDoes
  <2>3. /\ closed' \subseteq Conns /\ inbox' \in [Conns -> Inboxes]
        /\ frames' \in [Conns -> Queues(Nat \cup {None})]
    BY <2>1, MutatedShape
  <2> QED
    BY <2>1, <2>2, <2>3 DEF TypeOK
<1> QED
  BY <1>1, <1>2, <1>3, <1>4, <1>5, <1>6, <1>7, <1>8, <1>9, <1>10, <1>11,
     <1>12, <1>13, <1>14, <1>15, <1>16, <1>17, <1>18, <1>19, <1>20, <1>21,
     <1>22, <1>23, <1>24 DEF Next, Client, Handler, Control, Worker

\* A step of one connection keeps the others' part of HandlerInv.
LEMMA HandlerElsewhere ==
  ASSUME HandlerInv, NEW c \in Conns,
         \A d \in Conns \ {c} : req'[d].pc = req[d].pc /\ work'[d].pc = work[d].pc,
         \/ lock' = lock
         \/ lock = None /\ lock' = c
         \/ lock = c /\ lock' = None,
         /\ req'[c].pc \in LockedPCs <=> lock' = c
         /\ work'[c].pc \in RunningPCs => req'[c].pc \in {"stream", "join"}
         /\ work'[c].pc = "none" => req'[c].pc \in WaitingPCs \cup {"start"}
         /\ work'[c].pc = "ended" => req'[c].pc \in LockedPCs
  PROVE  HandlerInv'
BY Constants DEF HandlerInv

\* The same at one connection, before the step.
LEMMA HandlerHere ==
  ASSUME HandlerInv, NEW c \in Conns
  PROVE  /\ req[c].pc \in LockedPCs <=> lock = c
         /\ work[c].pc \in RunningPCs => req[c].pc \in {"stream", "join"}
         /\ work[c].pc = "none" => req[c].pc \in WaitingPCs \cup {"start"}
         /\ work[c].pc = "ended" => req[c].pc \in LockedPCs
BY DEF HandlerInv

\* The lock changes hands only with the request.
LEMMA HandlerStep ==
  ASSUME TypeOK, HandlerInv, NodeInv, [Next]_vars
  PROVE  HandlerInv'
<1>1. ASSUME NEW c \in Conns, ClientSends(c)
      PROVE  HandlerInv'
  BY <1>1 DEF ClientSends, Close, HandlerInv
<1>2. ASSUME NEW c \in Conns, NEW r \in 1..MaxRequests \cup {All}, ClientStops(c, r)
      PROVE  HandlerInv'
  BY <1>2 DEF ClientStops, HandlerInv
<1>3. ASSUME NEW c \in Conns, Drops(c)
      PROVE  HandlerInv'
  BY <1>3 DEF Drops, Close, HandlerInv
<1>4. ASSUME NEW c \in Conns, TakeMessage(c)
      PROVE  HandlerInv'
  BY <1>4, HandlerElsewhere, HandlerHere, TakeMessageDoes DEF TakeMessage, At,
     WaitingPCs, LockedPCs, RunningPCs
<1>5. ASSUME NEW c \in Conns, LeaveLoop(c)
      PROVE  HandlerInv'
  BY <1>5, HandlerElsewhere, HandlerHere, LeaveLoopDoes DEF LeaveLoop, Goto,
     At, WaitingPCs, LockedPCs, RunningPCs
<1>6. ASSUME NEW c \in Conns, Granted(c)
      PROVE  HandlerInv'
  BY <1>6, HandlerElsewhere, HandlerHere, GrantedDoes DEF Granted, Goto, At,
     WaitingPCs, LockedPCs, RunningPCs
<1>7. ASSUME NEW c \in Conns, StartSibling(c)
      PROVE  HandlerInv'
  BY <1>7, HandlerElsewhere, HandlerHere, StartSiblingDoes DEF StartSibling,
     At, WaitingPCs, LockedPCs, RunningPCs
<1>8. ASSUME NEW c \in Conns, SendToken(c)
      PROVE  HandlerInv'
  BY <1>8 DEF SendToken, HandlerInv
<1>9. ASSUME NEW c \in Conns, StreamEnds(c)
      PROVE  HandlerInv'
  <2>1. LeaveStream(c, FALSE) /\ At(c, "stream")
    BY <1>9 DEF StreamEnds
  <2>2. lock' = lock
    BY <2>1 DEF LeaveStream
  <2>3. /\ req'[c].pc = "join" /\ work'[c].pc = work[c].pc
        /\ \A d \in Conns \ {c} : req'[d] = req[d] /\ work'[d] = work[d]
    BY <2>1, LeaveStreamDoes
  <2> QED
    BY <2>1, <2>2, <2>3, HandlerElsewhere, HandlerHere DEF At, WaitingPCs,
       LockedPCs, RunningPCs
<1>10. ASSUME NEW c \in Conns, Joined(c)
      PROVE  HandlerInv'
  <2>1. At(c, "join") /\ work[c].pc = "ended"
    BY <1>10 DEF Joined, WorkerJoined
  <2>2. CASE EndRequest(c)
    <3>1. lock = c /\ work[c].pc = "ended"
      BY <2>1, HandlerHere DEF At, LockedPCs
    <3>2. lock' = None
      BY <2>2 DEF EndRequest
    <3>3. req'[c].pc = "ready" /\ work'[c].pc \notin RunningPCs \cup {"ended"}
      BY <2>2, <3>1, EndRequestDoes DEF RunningPCs
    <3>4. \A d \in Conns \ {c} : req'[d] = req[d] /\ work'[d] = work[d]
      BY <2>2, EndRequestDoes
    <3> QED
      BY <3>1, <3>2, <3>3, <3>4, HandlerElsewhere, Constants DEF At, WaitingPCs,
         LockedPCs, RunningPCs
  <2>3. ASSUME NEW l \in {"await", "send"}, Goto(c, l), UNCHANGED <<lock, work>>
        PROVE  HandlerInv'
    BY <2>1, <2>3, HandlerElsewhere, HandlerHere, GotoDoes DEF At, WaitingPCs,
       LockedPCs, RunningPCs
  <2> QED
    BY <1>10, <2>2, <2>3 DEF Joined
<1>11. ASSUME NEW c \in Conns, TreeLanded(c)
      PROVE  HandlerInv'
  <2>1. Goto(c, "send") /\ At(c, "await") /\ UNCHANGED <<lock, work>>
    BY <1>11 DEF TreeLanded
  <2> QED
    BY <2>1, HandlerElsewhere, HandlerHere, GotoDoes DEF At, WaitingPCs, LockedPCs,
       RunningPCs
<1>12. ASSUME NEW c \in Conns, SendDone(c)
      PROVE  HandlerInv'
  <2>1. At(c, "send")
    BY <1>12 DEF SendDone
  <2>2. CASE EndRequest(c)
    <3>1. lock = c /\ work[c].pc \notin RunningPCs
      BY <2>1, HandlerHere DEF At, WaitingPCs, LockedPCs, RunningPCs
    <3>2. lock' = None
      BY <2>2 DEF EndRequest
    <3>3. req'[c].pc = "ready" /\ work'[c].pc \notin RunningPCs \cup {"ended"}
      BY <2>2, <3>1, EndRequestDoes DEF RunningPCs
    <3>4. \A d \in Conns \ {c} : req'[d] = req[d] /\ work'[d] = work[d]
      BY <2>2, EndRequestDoes
    <3> QED
      BY <3>1, <3>2, <3>3, <3>4, HandlerElsewhere, Constants DEF At, WaitingPCs,
         LockedPCs, RunningPCs
  <2>3. CASE ~EndRequest(c)
    <3>1. req' = [req EXCEPT ![c].pc = "start", ![c].sib = @ + 1]
          /\ UNCHANGED <<lock, work>>
      BY <1>12, <2>3 DEF SendDone
    <3> QED
      BY <2>1, <3>1, HandlerElsewhere, HandlerHere, NextSiblingDoes DEF At,
         WaitingPCs, LockedPCs, RunningPCs
  <2> QED
    BY <2>2, <2>3
<1>13. ASSUME NEW c \in Conns, Cancel(c)
      PROVE  HandlerInv'
  <2>1. CASE At(c, "lock") /\ Goto(c, "ready") /\ UNCHANGED <<lock, work>>
    BY <2>1, HandlerElsewhere, HandlerHere, GotoDoes DEF At, WaitingPCs, LockedPCs,
       RunningPCs
  <2>2. CASE At(c, "stream") /\ LeaveStream(c, TRUE)
    <3>1. lock' = lock
      BY <2>2 DEF LeaveStream
    <3>2. /\ req'[c].pc = "join" /\ work'[c].pc = work[c].pc
          /\ \A d \in Conns \ {c} : req'[d] = req[d] /\ work'[d] = work[d]
      BY <2>2, LeaveStreamDoes
    <3> QED
      BY <2>2, <3>1, <3>2, HandlerElsewhere, HandlerHere DEF At, WaitingPCs,
         LockedPCs, RunningPCs
  <2>3. CASE At(c, "join") /\ req' = [req EXCEPT ![c].gone = TRUE]
               /\ UNCHANGED <<lock, work>>
    BY <2>3, HandlerElsewhere, HandlerHere, GoneDoes DEF At, WaitingPCs, LockedPCs,
       RunningPCs
  <2>4. CASE req[c].pc \in {"start", "await", "send"} /\ EndRequest(c)
    <3>1. lock = c /\ work[c].pc \notin RunningPCs
      BY <2>4, HandlerHere DEF At, WaitingPCs, LockedPCs, RunningPCs
    <3>2. lock' = None
      BY <2>4 DEF EndRequest
    <3>3. req'[c].pc = "ready" /\ work'[c].pc \notin RunningPCs \cup {"ended"}
      BY <2>4, <3>1, EndRequestDoes DEF RunningPCs
    <3>4. \A d \in Conns \ {c} : req'[d] = req[d] /\ work'[d] = work[d]
      BY <2>4, EndRequestDoes
    <3> QED
      BY <3>1, <3>2, <3>3, <3>4, HandlerElsewhere, Constants DEF At, WaitingPCs,
         LockedPCs, RunningPCs
  <2> QED
    BY <1>13, <2>1, <2>2, <2>3, <2>4 DEF Cancel
<1>14. ASSUME NEW c \in Conns, GetControl(c)
      PROVE  HandlerInv'
  BY <1>14, HandlerElsewhere, HandlerHere, GetControlDoes DEF GetControl, At,
     WaitingPCs, LockedPCs, RunningPCs
<1>15. ASSUME NEW c \in Conns, HandleControl(c)
      PROVE  HandlerInv'
  <2>1. At(c, "stream") /\ lock' = lock
    BY <1>15 DEF HandleControl
  <2> QED
    BY <1>15, <2>1, HandlerElsewhere, HandlerHere, HandleControlDoes DEF At,
       WaitingPCs, LockedPCs, RunningPCs
<1>16. ASSUME NEW c \in Conns, WorkerBegins(c)
      PROVE  HandlerInv'
  BY <1>16, HandlerElsewhere, HandlerHere, WorkerBeginsDoes DEF WorkerBegins,
     At, WaitingPCs, LockedPCs, RunningPCs
<1>17. ASSUME NEW c \in Conns, WorkerTokens(c)
      PROVE  HandlerInv'
  BY <1>17, HandlerElsewhere, HandlerHere, WorkerTokensDoes DEF WorkerTokens,
     Close, At, WaitingPCs, LockedPCs, RunningPCs
<1>18. ASSUME NEW c \in Conns, WorkerFinalizes(c)
      PROVE  HandlerInv'
  BY <1>18, HandlerElsewhere, HandlerHere, WorkerFinalizesDoes DEF
     WorkerFinalizes, At, WaitingPCs, LockedPCs, RunningPCs
<1>19. ASSUME NEW c \in Conns, WorkerFails(c)
      PROVE  HandlerInv'
  BY <1>19, HandlerElsewhere, HandlerHere, WorkerFailsDoes DEF WorkerFails,
     At, WaitingPCs, LockedPCs, RunningPCs
<1>20. ASSUME NEW c \in Conns, WorkerEnds(c)
      PROVE  HandlerInv'
  BY <1>20, HandlerElsewhere, HandlerHere, WorkerEndsDoes DEF WorkerEnds,
     Close, At, WaitingPCs, LockedPCs, RunningPCs
<1>21. ASSUME NEW c \in Conns, Forward(c)
      PROVE  HandlerInv'
  BY <1>21 DEF Forward, HandlerInv
<1>22. ASSUME NEW c \in Conns, LockTimeout(c)
      PROVE  HandlerInv'
  BY <1>22, HandlerElsewhere, HandlerHere, LockTimeoutDoes DEF LockTimeout,
     Ready, At, WaitingPCs, LockedPCs, RunningPCs
<1>23. CASE UNCHANGED vars
  BY <1>23 DEF vars, HandlerInv
<1>24. ASSUME NEW n \in 0..tree.made, Navigate(n)
      PROVE  HandlerInv'
  BY <1>24 DEF Navigate, HandlerInv
<1> QED
  BY <1>1, <1>2, <1>3, <1>4, <1>5, <1>6, <1>7, <1>8, <1>9, <1>10, <1>11,
     <1>12, <1>13, <1>14, <1>15, <1>16, <1>17, <1>18, <1>19, <1>20, <1>21,
     <1>22, <1>23, <1>24 DEF Next, Client, Handler, Control, Worker

\* A step of one connection keeps the others' part of TakenInv.
LEMMA TakenElsewhere ==
  ASSUME TakenInv, NEW c \in Conns,
         \A d \in Conns \ {c} : req'[d] = req[d],
         /\ req'[c].pc \in WaitingPCs \cup {"start"} => ~req'[c].took
         /\ req'[c].took => \/ req'[c].stopped
                            \/ req'[c].pc = "stream" /\ PendingStop(c)'
  PROVE  TakenInv'
BY DEF TakenInv, At, PendingStop, Matches

\* The same at one connection, before the step.
LEMMA TakenHere ==
  ASSUME TypeOK, TakenInv, NEW c \in Conns
  PROVE  /\ req[c].pc \in WaitingPCs \cup {"start"} => ~req[c].took
         /\ req[c].took => \/ req[c].stopped
                           \/ req[c].pc = "stream" /\ PendingStop(c)
         /\ req[c].took \in BOOLEAN /\ req[c].stopped \in BOOLEAN
BY DEF TakenInv, At, TypeOK, Requests

\* A taken stop stops the fan before its next sibling.
LEMMA TakenStep ==
  ASSUME TypeOK, TakenInv, [Next]_vars
  PROVE  TakenInv'
<1>1. ASSUME NEW c \in Conns, ClientSends(c)
      PROVE  TakenInv'
  BY <1>1 DEF ClientSends, Close, TakenInv, At, PendingStop, Matches
<1>2. ASSUME NEW c \in Conns, NEW r \in 1..MaxRequests \cup {All}, ClientStops(c, r)
      PROVE  TakenInv'
  BY <1>2 DEF ClientStops, TakenInv, At, PendingStop, Matches
<1>3. ASSUME NEW c \in Conns, Drops(c)
      PROVE  TakenInv'
  BY <1>3 DEF Drops, Close, TakenInv, At, PendingStop, Matches
<1>4. ASSUME NEW c \in Conns, TakeMessage(c)
      PROVE  TakenInv'
  BY <1>4, TakenElsewhere, TakenHere, TakeMessageDoes DEF TakeMessage, At,
     WaitingPCs, LockedPCs, RunningPCs, PendingStop, Matches
<1>5. ASSUME NEW c \in Conns, LeaveLoop(c)
      PROVE  TakenInv'
  BY <1>5, TakenElsewhere, TakenHere, LeaveLoopDoes DEF LeaveLoop, Goto, At,
     WaitingPCs, LockedPCs, RunningPCs, PendingStop, Matches
<1>6. ASSUME NEW c \in Conns, Granted(c)
      PROVE  TakenInv'
  BY <1>6, TakenElsewhere, TakenHere, GrantedDoes DEF Granted, Goto, At,
     WaitingPCs, LockedPCs, RunningPCs, PendingStop, Matches
<1>7. ASSUME NEW c \in Conns, StartSibling(c)
      PROVE  TakenInv'
  BY <1>7, TakenElsewhere, TakenHere, StartSiblingDoes, ZenonT(60) DEF StartSibling,
     At,
     WaitingPCs, LockedPCs, RunningPCs, PendingStop, Matches
<1>8. ASSUME NEW c \in Conns, SendToken(c)
      PROVE  TakenInv'
  BY <1>8 DEF SendToken, TakenInv, At, PendingStop, Matches
<1>9. ASSUME NEW c \in Conns, StreamEnds(c)
      PROVE  TakenInv'
  <2>1. LeaveStream(c, FALSE)
    BY <1>9 DEF StreamEnds
  <2> QED
    BY <2>1, TakenElsewhere, TakenHere, LeaveStreamDoes, ZenonT(60) DEF At,
       WaitingPCs,
       LockedPCs, RunningPCs
<1>10. ASSUME NEW c \in Conns, Joined(c)
      PROVE  TakenInv'
  <2>1. At(c, "join")
    BY <1>10 DEF Joined
  <2>2. CASE EndRequest(c)
    BY <2>2, TakenElsewhere, EndRequestDoes
  <2>3. ASSUME NEW l \in {"await", "send"}, Goto(c, l)
        PROVE  TakenInv'
    BY <2>1, <2>3, TakenElsewhere, TakenHere, GotoDoes DEF At, WaitingPCs,
       LockedPCs, RunningPCs
  <2> QED
    BY <1>10, <2>2, <2>3 DEF Joined
<1>11. ASSUME NEW c \in Conns, TreeLanded(c)
      PROVE  TakenInv'
  <2>1. Goto(c, "send") /\ At(c, "await")
    BY <1>11 DEF TreeLanded
  <2> QED
    BY <2>1, TakenElsewhere, TakenHere, GotoDoes DEF At, WaitingPCs, LockedPCs,
       RunningPCs
<1>12. ASSUME NEW c \in Conns, SendDone(c)
      PROVE  TakenInv'
  <2>1. At(c, "send")
    BY <1>12 DEF SendDone
  <2>2. CASE EndRequest(c)
    BY <2>2, TakenElsewhere, EndRequestDoes
  <2>3. CASE ~EndRequest(c)
    <3>1. req' = [req EXCEPT ![c].pc = "start", ![c].sib = @ + 1] /\ ~req[c].stopped
      BY <1>12, <2>3 DEF SendDone
    <3> QED
      BY <2>1, <3>1, TakenElsewhere, TakenHere, NextSiblingDoes DEF At, WaitingPCs,
         LockedPCs, RunningPCs
  <2> QED
    BY <2>2, <2>3
<1>13. ASSUME NEW c \in Conns, Cancel(c)
      PROVE  TakenInv'
  <2>1. CASE At(c, "lock") /\ Goto(c, "ready")
    BY <2>1, TakenElsewhere, TakenHere, GotoDoes DEF At, WaitingPCs, LockedPCs,
       RunningPCs
  <2>2. CASE At(c, "stream") /\ LeaveStream(c, TRUE)
    BY <2>2, TakenElsewhere, TakenHere, LeaveStreamDoes, ZenonT(60) DEF At,
       WaitingPCs,
       LockedPCs, RunningPCs
  <2>3. CASE At(c, "join") /\ req' = [req EXCEPT ![c].gone = TRUE]
    BY <2>3, TakenElsewhere, TakenHere, GoneDoes DEF At, WaitingPCs, LockedPCs,
       RunningPCs
  <2>4. CASE EndRequest(c)
    BY <2>4, TakenElsewhere, EndRequestDoes
  <2> QED
    BY <1>13, <2>1, <2>2, <2>3, <2>4 DEF Cancel
<1>14. ASSUME NEW c \in Conns, GetControl(c)
      PROVE  TakenInv'
  <2>1. At(c, "stream") /\ req[c].control = None /\ inbox[c].stop # None
    BY <1>14 DEF GetControl
  <2>2. req'[c].took => req[c].took \/ Matches(c, inbox[c].stop)
    BY <1>14, GetControlDoes, TakenHere
  <2>3. ~PendingStop(c)
    BY <2>1 DEF PendingStop
  <2>4. Matches(c, inbox[c].stop) => PendingStop(c)'
    BY <1>14, <2>1, GetControlDoes DEF PendingStop, Matches
  <2> QED
    BY <1>14, <2>1, <2>2, <2>3, <2>4, TakenElsewhere, TakenHere, GetControlDoes DEF
       At, WaitingPCs, LockedPCs, RunningPCs
<1>15. ASSUME NEW c \in Conns, HandleControl(c)
      PROVE  TakenInv'
  <2>1. At(c, "stream") /\ req[c].control # None
    BY <1>15 DEF HandleControl
  <2>2. req[c].took => req[c].stopped \/ Matches(c, req[c].control)
    BY <2>1, TakenHere DEF PendingStop
  <2> QED
    BY <1>15, <2>1, <2>2, TakenElsewhere, TakenHere, HandleControlDoes DEF At,
       WaitingPCs, LockedPCs, RunningPCs
<1>16. ASSUME NEW c \in Conns, WorkerBegins(c)
      PROVE  TakenInv'
  BY <1>16 DEF WorkerBegins, TakenInv, At, PendingStop, Matches
<1>17. ASSUME NEW c \in Conns, WorkerTokens(c)
      PROVE  TakenInv'
  BY <1>17 DEF WorkerTokens, Close, TakenInv, At, PendingStop, Matches
<1>18. ASSUME NEW c \in Conns, WorkerFinalizes(c)
      PROVE  TakenInv'
  BY <1>18 DEF WorkerFinalizes, TakenInv, At, PendingStop, Matches
<1>19. ASSUME NEW c \in Conns, WorkerFails(c)
      PROVE  TakenInv'
  BY <1>19 DEF WorkerFails, TakenInv, At, PendingStop, Matches
<1>20. ASSUME NEW c \in Conns, WorkerEnds(c)
      PROVE  TakenInv'
  BY <1>20 DEF WorkerEnds, Close, TakenInv, At, PendingStop, Matches
<1>21. ASSUME NEW c \in Conns, Forward(c)
      PROVE  TakenInv'
  BY <1>21 DEF Forward, TakenInv, At, PendingStop, Matches
<1>22. ASSUME NEW c \in Conns, LockTimeout(c)
      PROVE  TakenInv'
  BY <1>22, TakenElsewhere, TakenHere, LockTimeoutDoes DEF LockTimeout, Ready,
     At, WaitingPCs, LockedPCs, RunningPCs, PendingStop, Matches
<1>23. CASE UNCHANGED vars
  BY <1>23 DEF vars, TakenInv, At, PendingStop, Matches
<1>24. ASSUME NEW n \in 0..tree.made, Navigate(n)
      PROVE  TakenInv'
  BY <1>24 DEF Navigate, TakenInv, At, PendingStop, Matches
<1> QED
  BY <1>1, <1>2, <1>3, <1>4, <1>5, <1>6, <1>7, <1>8, <1>9, <1>10, <1>11,
     <1>12, <1>13, <1>14, <1>15, <1>16, <1>17, <1>18, <1>19, <1>20, <1>21,
     <1>22, <1>23, <1>24 DEF Next, Client, Handler, Control, Worker

\* A mutation adds its frame, if any, behind those that wait.
LEMMA MutatedFrames ==
  ASSUME TypeOK, NEW f \in Nat \cup {None}, Mutated(f)
  PROVE  \A d \in Conns :
           /\ \A i \in DOMAIN frames'[d].items :
                \/ i \in DOMAIN frames[d].items /\ frames'[d].items[i] = frames[d].items[i]
                \/ /\ frames'[d].items[i] = f
                   /\ \A j \in DOMAIN frames[d].items : j < i
           /\ \A i, j \in DOMAIN frames'[d].items :
                i < j => i \in DOMAIN frames[d].items
           /\ FrameNodes(d)' \subseteq FrameNodes(d) \cup ({f} \ {None})
<1> SUFFICES ASSUME NEW d \in Conns
             PROVE  /\ \A i \in DOMAIN frames'[d].items :
                         \/ /\ i \in DOMAIN frames[d].items
                            /\ frames'[d].items[i] = frames[d].items[i]
                         \/ /\ frames'[d].items[i] = f
                            /\ \A j \in DOMAIN frames[d].items : j < i
                    /\ \A i, j \in DOMAIN frames'[d].items :
                         i < j => i \in DOMAIN frames[d].items
                    /\ FrameNodes(d)' \subseteq FrameNodes(d) \cup ({f} \ {None})
  OBVIOUS
<1> DEFINE S == Nat \cup {None}
           s == frames[d].items
           t == frames'[d].items
<1>1. s \in Seq(S) /\ t \in {s, Append(s, f)}
  BY MutatedShape DEF TypeOK, Queues
<1> HIDE DEF s, t
<1>2. CASE t = s
  <2>1. \A i \in DOMAIN t : i \in DOMAIN s /\ t[i] = s[i]
    BY <1>2
  <2> QED
    BY <2>1 DEF s, t, FrameNodes
<1>3. CASE t = Append(s, f)
  <2>1. /\ DOMAIN s = 1..Len(s) /\ Len(s) \in Nat /\ DOMAIN t = 1..Len(s) + 1
        /\ \A i \in 1..Len(s) : t[i] = s[i]
        /\ t[Len(s) + 1] = f
    BY <1>1, <1>3, AppendProperties
  <2>2. \A i \in DOMAIN t : \/ i \in DOMAIN s /\ t[i] = s[i]
                            \/ t[i] = f /\ \A j \in DOMAIN s : j < i
    BY <2>1
  <2>3. \A i, j \in DOMAIN t : i < j => i \in DOMAIN s
    BY <2>1
  <2>4. {t[i] : i \in DOMAIN t} \subseteq {s[i] : i \in DOMAIN s} \cup {f}
    BY <2>2
  <2> QED
    BY <2>2, <2>3, <2>4 DEF s, t, FrameNodes
<1> QED
  BY <1>1, <1>2, <1>3

\* A forwarded frame leaves the queue; a finalize frame is landed.
LEMMA ForwardDoes ==
  ASSUME TypeOK, NEW c \in Conns, Forward(c)
  PROVE  /\ \A d \in Conns \ {c} : frames'[d] = frames[d] /\ landed'[d] = landed[d]
         /\ 1 \in DOMAIN frames[c].items
         /\ \A i \in DOMAIN frames'[c].items :
              /\ i + 1 \in DOMAIN frames[c].items /\ i \in Nat /\ i >= 1
              /\ frames'[c].items[i] = frames[c].items[i + 1]
         /\ FrameNodes(c)' \subseteq FrameNodes(c)
         /\ frames[c].items[1] = None => landed' = landed
         /\ frames[c].items[1] # None =>
              /\ frames[c].items[1] \in FrameNodes(c)
              /\ LandedNodes(c)' \subseteq LandedNodes(c) \cup {frames[c].items[1]}
<1> DEFINE S == Nat \cup {None}
           s == frames[c].items
           t == frames'[c].items
           n == Head(s)
<1>1. s \in Seq(S) /\ s # <<>> /\ landed[c] \in Seq(Nat)
  BY DEF TypeOK, Queues, Forward
<1>2. /\ frames' = [frames EXCEPT ![c] = [frames[c] EXCEPT !.items = Tail(s)]]
      /\ landed' = IF n = None THEN landed ELSE [landed EXCEPT ![c] = Landed(landed[c], n)]
  BY DEF Forward
<1>3. t = Tail(s) /\ \A d \in Conns \ {c} : frames'[d] = frames[d] /\ landed'[d] = landed[d]
  <2>1. frames'[c] = [frames[c] EXCEPT !.items = Tail(s)]
    BY <1>2 DEF TypeOK
  <2>2. frames[c] \in Queues(S)
    BY DEF TypeOK
  <2>3. t = Tail(s)
    BY <2>1, <2>2 DEF Queues
  <2> QED
    BY <1>2, <2>3 DEF TypeOK
<1>4. /\ n = s[1] /\ n \in S /\ 1 \in DOMAIN s /\ Len(t) \in Nat /\ DOMAIN t = 1..Len(t)
      /\ \A i \in DOMAIN t : i + 1 \in DOMAIN s /\ t[i] = s[i + 1]
  BY <1>1, <1>3, TailShifts
<1>5. n = None => landed' = landed
  BY <1>2
<1>6. n # None => LandedNodes(c)' \subseteq LandedNodes(c) \cup {n}
  <2> SUFFICES ASSUME n # None
               PROVE  LandedNodes(c)' \subseteq LandedNodes(c) \cup {n}
    OBVIOUS
  <2>1. landed'[c] = Landed(landed[c], n) /\ n \in Nat
    BY <1>2, <1>4 DEF TypeOK
  <2> HIDE DEF n
  <2> QED
    BY <2>1, <1>1, LandedAdds DEF LandedNodes
<1> HIDE DEF s, t, n
<1>7. {t[i] : i \in DOMAIN t} \subseteq {s[i] : i \in DOMAIN s}
  BY <1>4
<1>8. s[1] # None => s[1] \in {s[i] : i \in DOMAIN s} \ {None}
  BY <1>4
<1>9. \A i \in DOMAIN t : i \in Nat /\ i >= 1
  BY <1>4
<1> QED
  BY <1>3, <1>4, <1>5, <1>6, <1>7, <1>8, <1>9 DEF s, t, n, FrameNodes

\* Leaving the loop empties the queues.
LEMMA LeaveLoopFrames ==
  ASSUME TypeOK, NEW c \in Conns, LeaveLoop(c)
  PROVE  /\ \A d \in Conns \ {c} : frames'[d] = frames[d] /\ landed'[d] = landed[d]
         /\ DOMAIN frames'[c].items = {} /\ FrameNodes(c)' = {} /\ LandedNodes(c)' = {}
<1>1. /\ frames'[c] = [items |-> <<>>, closed |-> TRUE] /\ landed'[c] = <<>>
      /\ \A d \in Conns \ {c} : frames'[d] = frames[d] /\ landed'[d] = landed[d]
  BY DEF TypeOK, LeaveLoop
<1>2. DOMAIN frames'[c].items = {} /\ DOMAIN landed'[c] = {}
  BY <1>1
<1> QED
  BY <1>1, <1>2 DEF FrameNodes, LandedNodes, ToSet

\* The numbers of FramesInv.
LEMMA FrameTypes ==
  ASSUME TypeOK, NEW c \in Conns
  PROVE  /\ FrameNodes(c) \subseteq Nat /\ LandedNodes(c) \subseteq Nat
         /\ DOMAIN frames[c].items \subseteq Nat
         /\ \A i \in DOMAIN frames[c].items : frames[c].items[i] \in Nat \cup {None}
<1>1. frames[c].items \in Seq(Nat \cup {None}) /\ landed[c] \in Seq(Nat)
  BY DEF TypeOK, Queues
<1>2. /\ DOMAIN frames[c].items \subseteq Nat /\ \A i \in DOMAIN landed[c] : landed[c][i] \in Nat
      /\ \A i \in DOMAIN frames[c].items : frames[c].items[i] \in Nat \cup {None}
  BY <1>1
<1> QED
  BY <1>2 DEF FrameNodes, LandedNodes, ToSet

\* A mutation that finalizes nothing adds no node to what is to be heard of.
LEMMA OtherFrameKeeps ==
  ASSUME TypeOK, FramesInv, Mutated(None), landed' = landed,
         tree'.made \in {tree.made, tree.made + 1}
  PROVE  FramesInv'
<1> DEFINE f == None
<1>f. f \in Nat \cup {None} /\ Mutated(f)
  OBVIOUS
<1> HIDE DEF f
<1>e. ASSUME NEW d \in Conns
      PROVE  /\ \A i \in DOMAIN frames'[d].items :
                  \/ /\ i \in DOMAIN frames[d].items
                     /\ frames'[d].items[i] = frames[d].items[i]
                  \/ frames'[d].items[i] = f
             /\ FrameNodes(d)' \subseteq FrameNodes(d) \cup ({f} \ {None})
  BY <1>f, MutatedFrames
<1>0. ASSUME NEW d \in Conns
      PROVE  /\ \A i \in DOMAIN frames'[d].items :
                  \/ /\ i \in DOMAIN frames[d].items
                     /\ frames'[d].items[i] = frames[d].items[i]
                  \/ frames'[d].items[i] = None
             /\ FrameNodes(d)' \subseteq FrameNodes(d)
  BY <1>e DEF f
<1>1. ASSUME NEW d \in Conns
      PROVE  /\ \A n \in FrameNodes(d)' \cup LandedNodes(d)' : n <= tree'.made
             /\ \A i, j \in DOMAIN frames'[d].items :
                  i < j /\ frames'[d].items[i] # None /\ frames'[d].items[j] # None
                    => frames'[d].items[i] < frames'[d].items[j]
             /\ \A l \in LandedNodes(d)', n \in FrameNodes(d)' : l < n
  <2>1. /\ \A n \in FrameNodes(d) \cup LandedNodes(d) : n <= tree.made
        /\ \A i, j \in DOMAIN frames[d].items :
             i < j /\ frames[d].items[i] # None /\ frames[d].items[j] # None
               => frames[d].items[i] < frames[d].items[j]
        /\ \A l \in LandedNodes(d), n \in FrameNodes(d) : l < n
    BY DEF FramesInv
  <2>2. LandedNodes(d)' = LandedNodes(d)
    BY DEF LandedNodes, ToSet
  <2>3. /\ \A i \in DOMAIN frames'[d].items :
             \/ /\ i \in DOMAIN frames[d].items
                /\ frames'[d].items[i] = frames[d].items[i]
             \/ frames'[d].items[i] = None
        /\ FrameNodes(d)' \subseteq FrameNodes(d)
    BY <1>0
  <2>4. \A n \in FrameNodes(d)' \cup LandedNodes(d)' : n <= tree'.made
    BY <2>1, <2>2, <2>3, FrameTypes, TreeType
  <2> QED
    BY <2>1, <2>2, <2>3, <2>4
<1> QED
  BY <1>1 DEF FramesInv

\* Frames keep their order.
LEMMA FramesStep ==
  ASSUME TypeOK, FramesInv, NodeInv, [Next]_vars
  PROVE  FramesInv'
<1>1. ASSUME NEW c \in Conns, ClientSends(c)
      PROVE  FramesInv'
  <2>1. UNCHANGED <<frames, landed, tree>>
    BY <1>1 DEF ClientSends
  <2> QED
    BY <2>1 DEF FramesInv, FrameNodes, LandedNodes, ToSet
<1>2. ASSUME NEW c \in Conns, NEW r \in 1..MaxRequests \cup {All}, ClientStops(c, r)
      PROVE  FramesInv'
  BY <1>2 DEF ClientStops, FramesInv, FrameNodes, LandedNodes, ToSet
<1>3. ASSUME NEW c \in Conns, Drops(c)
      PROVE  FramesInv'
  BY <1>3, ZenonT(60) DEF Drops, Close, FramesInv, FrameNodes, LandedNodes, ToSet
<1>4. ASSUME NEW c \in Conns, TakeMessage(c)
      PROVE  FramesInv'
  <2>1. UNCHANGED <<frames, landed, tree>>
    BY <1>4 DEF TakeMessage
  <2> QED
    BY <2>1 DEF FramesInv, FrameNodes, LandedNodes, ToSet
<1>5. ASSUME NEW c \in Conns, LeaveLoop(c)
      PROVE  FramesInv'
  <2>1. tree' = tree
    BY <1>5 DEF LeaveLoop
  <2>2. \A d \in Conns \ {c} : /\ frames'[d] = frames[d]
                              /\ FrameNodes(d)' = FrameNodes(d)
                              /\ LandedNodes(d)' = LandedNodes(d)
    BY <1>5, LeaveLoopFrames DEF FrameNodes, LandedNodes, ToSet
  <2> QED
    BY <1>5, <2>1, <2>2, LeaveLoopFrames DEF FramesInv
<1>6. ASSUME NEW c \in Conns, Granted(c)
      PROVE  FramesInv'
  <2>1. UNCHANGED <<frames, landed, tree>>
    BY <1>6 DEF Granted
  <2> QED
    BY <2>1 DEF FramesInv, FrameNodes, LandedNodes, ToSet
<1>7. ASSUME NEW c \in Conns, StartSibling(c)
      PROVE  FramesInv'
  BY <1>7, SMTT(30) DEF StartSibling, FramesInv, FrameNodes, LandedNodes, ToSet
<1>8. ASSUME NEW c \in Conns, SendToken(c)
      PROVE  FramesInv'
  BY <1>8 DEF SendToken, FramesInv, FrameNodes, LandedNodes, ToSet
<1>9. ASSUME NEW c \in Conns, StreamEnds(c)
      PROVE  FramesInv'
  <2>1. UNCHANGED <<frames, landed, tree>>
    BY <1>9 DEF StreamEnds, LeaveStream
  <2> QED
    BY <2>1 DEF FramesInv, FrameNodes, LandedNodes, ToSet
<1>10. ASSUME NEW c \in Conns, Joined(c)
      PROVE  FramesInv'
  <2>1. UNCHANGED <<frames, landed, tree>>
    BY <1>10 DEF Joined
  <2> QED
    BY <2>1 DEF FramesInv, FrameNodes, LandedNodes, ToSet
<1>11. ASSUME NEW c \in Conns, TreeLanded(c)
      PROVE  FramesInv'
  BY <1>11, ZenonT(60) DEF TreeLanded, Goto, FramesInv, FrameNodes, LandedNodes, ToSet
<1>12. ASSUME NEW c \in Conns, SendDone(c)
      PROVE  FramesInv'
  <2>1. UNCHANGED <<frames, landed, tree>>
    BY <1>12 DEF SendDone
  <2> QED
    BY <2>1 DEF FramesInv, FrameNodes, LandedNodes, ToSet
<1>13. ASSUME NEW c \in Conns, Cancel(c)
      PROVE  FramesInv'
  <2>1. UNCHANGED <<frames, landed, tree>>
    BY <1>13 DEF Cancel, LeaveStream
  <2> QED
    BY <2>1 DEF FramesInv, FrameNodes, LandedNodes, ToSet
<1>14. ASSUME NEW c \in Conns, GetControl(c)
      PROVE  FramesInv'
  BY <1>14, SMTT(30) DEF GetControl, FramesInv, FrameNodes, LandedNodes, ToSet
<1>15. ASSUME NEW c \in Conns, HandleControl(c)
      PROVE  FramesInv'
  BY <1>15, SMTT(30) DEF HandleControl, FramesInv, FrameNodes, LandedNodes, ToSet
<1>16. ASSUME NEW c \in Conns, WorkerBegins(c)
      PROVE  FramesInv'
  <2>1. Mutated(None) /\ landed' = landed
    BY <1>16 DEF WorkerBegins
  <2>2. tree'.made = tree.made + 1
    BY <1>16 DEF WorkerBegins, TypeOK
  <2> QED
    BY <2>1, <2>2, OtherFrameKeeps
<1>17. ASSUME NEW c \in Conns, WorkerTokens(c)
      PROVE  FramesInv'
  BY <1>17, ZenonT(60) DEF WorkerTokens, Close, FramesInv, FrameNodes, LandedNodes,
     ToSet
<1>18. ASSUME NEW c \in Conns, WorkerFinalizes(c)
      PROVE  FramesInv'
  <2>1. Mutated(tree.made) /\ landed' = landed
    BY <1>18 DEF WorkerFinalizes, NodeInv
  <2>2. tree' = tree /\ tree.made \in Nat
    BY <1>18, TreeType DEF WorkerFinalizes
  <2>3. \A d \in Conns : tree.made \notin FrameNodes(d) \cup LandedNodes(d)
    BY <1>18 DEF WorkerFinalizes, NodeInv
  <2>4. ASSUME NEW d \in Conns
        PROVE  /\ \A n \in FrameNodes(d)' \cup LandedNodes(d)' : n <= tree'.made
               /\ \A i, j \in DOMAIN frames'[d].items :
                    i < j /\ frames'[d].items[i] # None /\ frames'[d].items[j] # None
                      => frames'[d].items[i] < frames'[d].items[j]
               /\ \A l \in LandedNodes(d)', n \in FrameNodes(d)' : l < n
    <3>1. /\ \A n \in FrameNodes(d) \cup LandedNodes(d) : n <= tree.made
          /\ \A i, j \in DOMAIN frames[d].items :
               i < j /\ frames[d].items[i] # None /\ frames[d].items[j] # None
                 => frames[d].items[i] < frames[d].items[j]
          /\ \A l \in LandedNodes(d), n \in FrameNodes(d) : l < n
      BY DEF FramesInv
    <3>2. LandedNodes(d)' = LandedNodes(d)
      BY <2>1 DEF LandedNodes, ToSet
    <3>3. /\ \A i \in DOMAIN frames'[d].items :
               \/ /\ i \in DOMAIN frames[d].items
                  /\ frames'[d].items[i] = frames[d].items[i]
               \/ frames'[d].items[i] = tree.made
          /\ \A i, j \in DOMAIN frames'[d].items : i < j => i \in DOMAIN frames[d].items
          /\ FrameNodes(d)' \subseteq FrameNodes(d) \cup {tree.made}
      BY <2>1, <2>2, MutatedFrames
    <3>4. \A n \in FrameNodes(d) \cup LandedNodes(d) : n < tree.made
      BY <2>2, <2>3, <3>1, FrameTypes
    <3>5. \A i \in DOMAIN frames[d].items :
            frames[d].items[i] # None => frames[d].items[i] \in FrameNodes(d)
      BY DEF FrameNodes
    <3>6. \A i, j \in DOMAIN frames'[d].items :
            i < j /\ frames'[d].items[i] # None /\ frames'[d].items[j] # None
              => frames'[d].items[i] < frames'[d].items[j]
      <4> SUFFICES ASSUME NEW i \in DOMAIN frames'[d].items,
                          NEW j \in DOMAIN frames'[d].items,
                          i < j, frames'[d].items[i] # None, frames'[d].items[j] # None
                   PROVE  frames'[d].items[i] < frames'[d].items[j]
        OBVIOUS
      <4>1. i \in DOMAIN frames[d].items
        BY <3>3
      <4>2. \/ frames'[d].items[i] = frames[d].items[i]
            \/ frames'[d].items[i] = tree.made
        BY <3>3
      <4>3. frames'[d].items[i] = frames[d].items[i]
        BY <2>1, <2>2, <4>1, MutatedFrames, FrameTypes
      <4>4. frames[d].items[i] < tree.made
        BY <3>4, <3>5, <4>1, <4>3
      <4>5. CASE j \in DOMAIN frames[d].items /\ frames'[d].items[j] = frames[d].items[j]
        BY <3>1, <4>1, <4>3, <4>5
      <4>6. CASE frames'[d].items[j] = tree.made
        BY <4>3, <4>4, <4>6
      <4> QED
        BY <3>3, <4>5, <4>6
    <3>7. \A n \in FrameNodes(d)' \cup LandedNodes(d)' : n <= tree'.made
      BY <2>2, <3>1, <3>2, <3>3
    <3>8. \A l \in LandedNodes(d)', n \in FrameNodes(d)' : l < n
      BY <3>1, <3>2, <3>3, <3>4
    <3> QED
      BY <3>6, <3>7, <3>8
  <2> QED
    BY <2>4 DEF FramesInv
<1>19. ASSUME NEW c \in Conns, WorkerFails(c)
      PROVE  FramesInv'
  BY <1>19 DEF WorkerFails, FramesInv, FrameNodes, LandedNodes, ToSet
<1>20. ASSUME NEW c \in Conns, WorkerEnds(c)
      PROVE  FramesInv'
  BY <1>20 DEF WorkerEnds, Close, FramesInv, FrameNodes, LandedNodes, ToSet
<1>21. ASSUME NEW c \in Conns, Forward(c)
      PROVE  FramesInv'
  <2>1. tree' = tree
    BY <1>21 DEF Forward
  <2>2. \A d \in Conns \ {c} : /\ frames'[d] = frames[d]
                              /\ FrameNodes(d)' = FrameNodes(d)
                              /\ LandedNodes(d)' = LandedNodes(d)
    BY <1>21, ForwardDoes DEF FrameNodes, LandedNodes, ToSet
  <2> DEFINE s == frames[c].items
             t == frames'[c].items
             n == s[1]
  <2>3. /\ \A m \in FrameNodes(c) \cup LandedNodes(c) : m <= tree.made
        /\ \A i, j \in DOMAIN s : i < j /\ s[i] # None /\ s[j] # None => s[i] < s[j]
        /\ \A l \in LandedNodes(c), m \in FrameNodes(c) : l < m
    BY DEF FramesInv
  <2>4. /\ 1 \in DOMAIN s /\ FrameNodes(c)' \subseteq FrameNodes(c)
        /\ \A i \in DOMAIN t : i + 1 \in DOMAIN s /\ i \in Nat /\ i >= 1 /\ t[i] = s[i + 1]
        /\ n = None => landed' = landed
        /\ n # None => /\ n \in FrameNodes(c)
                       /\ LandedNodes(c)' \subseteq LandedNodes(c) \cup {n}
    BY <1>21, ForwardDoes
  <2>5. FrameNodes(c)' = {t[i] : i \in DOMAIN t} \ {None}
    BY DEF FrameNodes
  <2> HIDE DEF s, t, n
  <2>6. \A m \in FrameNodes(c)' : n # None => n < m
    <3> SUFFICES ASSUME NEW i \in DOMAIN t, t[i] # None, n # None
                 PROVE  n < t[i]
      BY <2>5
    <3>1. i + 1 \in DOMAIN s /\ 1 < i + 1 /\ t[i] = s[i + 1] /\ 1 \in DOMAIN s
      BY <2>4
    <3> QED
      BY <3>1, <2>3 DEF n
  <2>7. /\ LandedNodes(c)' \subseteq LandedNodes(c) \cup ({n} \ {None})
        /\ \A m \in FrameNodes(c)' \cup LandedNodes(c)' : m <= tree'.made
    BY <2>1, <2>3, <2>4 DEF LandedNodes, ToSet
  <2>8. \A l \in LandedNodes(c)', m \in FrameNodes(c)' : l < m
    BY <2>3, <2>4, <2>6, <2>7
  <2>9. \A i, j \in DOMAIN t : i < j /\ t[i] # None /\ t[j] # None => t[i] < t[j]
    <3> SUFFICES ASSUME NEW i \in DOMAIN t, NEW j \in DOMAIN t,
                        i < j, t[i] # None, t[j] # None
                 PROVE  t[i] < t[j]
      OBVIOUS
    <3>1. /\ i + 1 \in DOMAIN s /\ j + 1 \in DOMAIN s /\ i + 1 < j + 1
          /\ t[i] = s[i + 1] /\ t[j] = s[j + 1]
      BY <2>4
    <3> QED
      BY <3>1, <2>3
  <2> QED
    BY <2>1, <2>2, <2>7, <2>8, <2>9 DEF FramesInv, s, t
<1>22. ASSUME NEW c \in Conns, LockTimeout(c)
      PROVE  FramesInv'
  BY <1>22 DEF LockTimeout, Ready, FramesInv, FrameNodes, LandedNodes, ToSet
<1>23. CASE UNCHANGED vars
  BY <1>23 DEF vars, FramesInv, FrameNodes, LandedNodes, ToSet
<1>24. ASSUME NEW n \in 0..tree.made, Navigate(n)
      PROVE  FramesInv'
  <2>1. Mutated(None) /\ landed' = landed
    BY <1>24 DEF Navigate
  <2>2. tree'.made = tree.made
    BY <1>24, NavigateDoes
  <2> QED
    BY <2>1, <2>2, OtherFrameKeeps
<1> QED
  BY <1>1, <1>2, <1>3, <1>4, <1>5, <1>6, <1>7, <1>8, <1>9, <1>10, <1>11,
     <1>12, <1>13, <1>14, <1>15, <1>16, <1>17, <1>18, <1>19, <1>20, <1>21,
     <1>22, <1>23, <1>24 DEF Next, Client, Handler, Control, Worker

\* NodeInv at one connection.
LEMMA NodeHere ==
  ASSUME NodeInv, NEW c \in Conns
  PROVE  /\ work[c].pc = "run" =>
              /\ work[c].target = tree.made /\ ~work[c].result
              /\ \A d \in Conns : tree.made \notin FrameNodes(d) \cup LandedNodes(d)
         /\ work[c].result => work[c].target = tree.made
         /\ work[c].pc \in {"none", "begin"} =>
              ~work[c].result /\ work[c].holder = None /\ work[c].target = None
         /\ work[c].holder # None => work[c].holder <= tree.made
         /\ req[c].pc \in {"await", "send"} => work[c].result
BY DEF NodeInv

\* A step of one connection that makes no node and moves no frame.
LEMMA NodeElsewhere ==
  ASSUME NodeInv, NEW c \in Conns, UNCHANGED <<frames, landed, tree>>,
         \A d \in Conns \ {c} : req'[d] = req[d] /\ work'[d] = work[d],
         /\ work'[c].pc = "run" =>
              work[c].pc = "run" /\ work'[c].target = tree.made /\ ~work'[c].result
         /\ work'[c].result => work'[c].target = tree.made
         /\ work'[c].pc \in {"none", "begin"} =>
              ~work'[c].result /\ work'[c].holder = None /\ work'[c].target = None
         /\ work'[c].holder # None => work'[c].holder <= tree.made
         /\ req'[c].pc \in {"await", "send"} => work'[c].result
  PROVE  NodeInv'
<1>1. \A d \in Conns : FrameNodes(d)' = FrameNodes(d) /\ LandedNodes(d)' = LandedNodes(d)
  BY DEF FrameNodes, LandedNodes, ToSet
<1>2. tree'.made = tree.made /\ tree'.active = tree.active
  OBVIOUS
<1>3. work'[c].pc = "run" =>
        \A d \in Conns : tree.made \notin FrameNodes(d) \cup LandedNodes(d)
  BY NodeHere
<1> QED
  BY <1>1, <1>2, <1>3 DEF NodeInv

\* The same when the request alone moves.
LEMMA NodeOfRequest ==
  ASSUME NodeInv, NEW c \in Conns, UNCHANGED <<work, frames, landed, tree>>,
         \A d \in Conns \ {c} : req'[d] = req[d],
         req'[c].pc \in {"await", "send"} => work[c].result
  PROVE  NodeInv'
BY NodeElsewhere, NodeHere

\* And when the request ends.
LEMMA NodeOfEnd ==
  ASSUME TypeOK, NodeInv, NEW c \in Conns, EndRequest(c),
         UNCHANGED <<frames, landed, tree>>
  PROVE  NodeInv'
<1>1. req'[c].pc = "ready" /\ \A d \in Conns \ {c} : req'[d] = req[d] /\ work'[d] = work[d]
  BY EndRequestDoes
<1>2. CASE work[c].pc = "ended"
  <2>1. /\ work'[c].pc = "none" /\ work'[c].target = None /\ work'[c].holder = None
        /\ ~work'[c].result
    BY <1>2, EndRequestDoes
  <2> QED
    BY <1>1, <2>1, NodeElsewhere
<1>3. CASE work[c].pc # "ended"
  <2>1. work' = work
    BY <1>3, EndRequestDoes
  <2> QED
    BY <1>1, <2>1, NodeOfRequest
<1> QED
  BY <1>2, <1>3

\* And when the handler leaves its token loop.
LEMMA NodeOfLeave ==
  ASSUME TypeOK, NodeInv, NEW c \in Conns, NEW gone \in BOOLEAN, LeaveStream(c, gone)
  PROVE  NodeInv'
<1>1. UNCHANGED <<frames, landed, tree>>
  BY DEF LeaveStream
<1>2. /\ req'[c].pc = "join" /\ work'[c].pc = work[c].pc /\ work'[c].target = work[c].target
      /\ work'[c].holder = work[c].holder /\ work'[c].result = work[c].result
      /\ \A d \in Conns \ {c} : req'[d] = req[d] /\ work'[d] = work[d]
  BY LeaveStreamDoes
<1> QED
  BY <1>1, <1>2, NodeElsewhere, NodeHere

\* Only the connection that holds the lock has a node in the making.
LEMMA OneMakes ==
  ASSUME TypeOK, HandlerInv, NodeInv, NEW c \in Conns, NEW d \in Conns \ {c},
         work[c].pc \in {"begin", "run"}
  PROVE  work[d].pc # "run" /\ ~work[d].result
<1>1. lock = c
  BY HandlerHere DEF RunningPCs, LockedPCs
<1>2. work[d].pc \in RunningPCs \cup {"none", "ended"} /\ req[d].pc \notin LockedPCs
  BY <1>1, HandlerHere DEF TypeOK, Works
<1>3. work[d].pc = "none"
  BY <1>2, HandlerHere DEF RunningPCs, LockedPCs
<1> QED
  BY <1>3, NodeHere

\* The newest node is the running thread's.
LEMMA NodeStep ==
  ASSUME TypeOK, HandlerInv, FramesInv, NodeInv, [Next]_vars
  PROVE  NodeInv'
<1>1. ASSUME NEW c \in Conns, ClientSends(c)
      PROVE  NodeInv'
  <2>1. UNCHANGED <<req, work, frames, landed, tree>>
    BY <1>1 DEF ClientSends
  <2> QED
    BY <2>1 DEF NodeInv, FrameNodes, LandedNodes, ToSet
<1>2. ASSUME NEW c \in Conns, NEW r \in 1..MaxRequests \cup {All}, ClientStops(c, r)
      PROVE  NodeInv'
  <2>1. UNCHANGED <<req, work, frames, landed, tree>>
    BY <1>2 DEF ClientStops
  <2> QED
    BY <2>1 DEF NodeInv, FrameNodes, LandedNodes, ToSet
<1>3. ASSUME NEW c \in Conns, Drops(c)
      PROVE  NodeInv'
  <2>1. UNCHANGED <<req, work, frames, landed, tree>>
    BY <1>3 DEF Drops
  <2> QED
    BY <2>1 DEF NodeInv, FrameNodes, LandedNodes, ToSet
<1>4. ASSUME NEW c \in Conns, TakeMessage(c)
      PROVE  NodeInv'
  <2>1. UNCHANGED <<work, frames, landed, tree>>
    BY <1>4 DEF TakeMessage
  <2>2. (req'[c].pc \in {"await", "send"} => work[c].result) /\ \A d \in Conns \ {c} : req'[d] = req[d]
    BY <1>4, TakeMessageDoes, NodeHere
  <2> QED
    BY <2>1, <2>2, NodeOfRequest
<1>5. ASSUME NEW c \in Conns, LeaveLoop(c)
      PROVE  NodeInv'
  <2>1. UNCHANGED <<work, tree>>
    BY <1>5 DEF LeaveLoop
  <2>2. \A d \in Conns : req'[d].pc \in {"await", "send"} => req[d] = req'[d]
    BY <1>5, LeaveLoopDoes
  <2>3. \A d \in Conns : /\ FrameNodes(d)' \subseteq FrameNodes(d)
                        /\ LandedNodes(d)' \subseteq LandedNodes(d)
    BY <1>5, LeaveLoopFrames, ZenonT(60) DEF FrameNodes, LandedNodes, ToSet
  <2> QED
    BY <2>1, <2>2, <2>3 DEF NodeInv
<1>6. ASSUME NEW c \in Conns, Granted(c)
      PROVE  NodeInv'
  <2>1. UNCHANGED <<work, frames, landed, tree>>
    BY <1>6 DEF Granted
  <2>2. req'[c].pc \notin {"await", "send"} /\ \A d \in Conns \ {c} : req'[d] = req[d]
    BY <1>6, GrantedDoes, NodeHere
  <2> QED
    BY <2>1, <2>2, NodeOfRequest
<1>7. ASSUME NEW c \in Conns, StartSibling(c)
      PROVE  NodeInv'
  <2>1. UNCHANGED <<frames, landed, tree>>
    BY <1>7 DEF StartSibling
  <2>2. /\ req'[c].pc = "stream" /\ work'[c].pc = "begin" /\ work'[c].target = None
        /\ work'[c].holder = None /\ ~work'[c].result
        /\ \A d \in Conns \ {c} : req'[d] = req[d] /\ work'[d] = work[d]
    BY <1>7, StartSiblingDoes
  <2> QED
    BY <2>1, <2>2, NodeElsewhere
<1>8. ASSUME NEW c \in Conns, SendToken(c)
      PROVE  NodeInv'
  <2>1. UNCHANGED <<req, work, frames, landed, tree>>
    BY <1>8 DEF SendToken
  <2> QED
    BY <2>1 DEF NodeInv, FrameNodes, LandedNodes, ToSet
<1>9. ASSUME NEW c \in Conns, StreamEnds(c)
      PROVE  NodeInv'
  <2>1. LeaveStream(c, FALSE)
    BY <1>9 DEF StreamEnds
  <2> QED
    BY <2>1, NodeOfLeave
<1>10. ASSUME NEW c \in Conns, Joined(c)
      PROVE  NodeInv'
  <2>1. UNCHANGED <<frames, landed, tree>>
    BY <1>10 DEF Joined
  <2>2. CASE EndRequest(c)
    BY <2>1, <2>2, NodeOfEnd
  <2>3. CASE ~EndRequest(c)
    <3>1. work[c].result /\ work' = work /\ \E l \in {"await", "send"} : Goto(c, l)
      BY <1>10, <2>3 DEF Joined
    <3>2. PICK l \in {"await", "send"} : Goto(c, l)
      BY <3>1
    <3>3. \A d \in Conns \ {c} : req'[d] = req[d]
      BY <3>2, GotoDoes DEF LockedPCs
    <3> QED
      BY <2>1, <3>1, <3>3, NodeOfRequest
  <2> QED
    BY <2>2, <2>3
<1>11. ASSUME NEW c \in Conns, TreeLanded(c)
      PROVE  NodeInv'
  <2>1. Goto(c, "send") /\ At(c, "await") /\ UNCHANGED <<work, frames, landed, tree>>
    BY <1>11 DEF TreeLanded
  <2>2. req'[c].pc = "send" /\ \A d \in Conns \ {c} : req'[d] = req[d]
    BY <2>1, GotoDoes DEF LockedPCs
  <2>3. work[c].result
    BY <2>1, NodeHere DEF At
  <2> QED
    BY <2>1, <2>2, <2>3, NodeOfRequest
<1>12. ASSUME NEW c \in Conns, SendDone(c)
      PROVE  NodeInv'
  <2>1. UNCHANGED <<frames, landed, tree>>
    BY <1>12 DEF SendDone
  <2>2. CASE EndRequest(c)
    BY <2>1, <2>2, NodeOfEnd
  <2>3. CASE ~EndRequest(c)
    <3>1. req' = [req EXCEPT ![c].pc = "start", ![c].sib = @ + 1] /\ work' = work
      BY <1>12, <2>3 DEF SendDone
    <3>2. req'[c].pc = "start" /\ \A d \in Conns \ {c} : req'[d] = req[d]
      BY <3>1, NextSiblingDoes
    <3> QED
      BY <2>1, <3>1, <3>2, NodeOfRequest
  <2> QED
    BY <2>2, <2>3
<1>13. ASSUME NEW c \in Conns, Cancel(c)
      PROVE  NodeInv'
  <2>1. UNCHANGED <<frames, landed, tree>>
    BY <1>13 DEF Cancel, LeaveStream
  <2>2. CASE Goto(c, "ready") /\ work' = work
    <3>1. req'[c].pc = "ready" /\ \A d \in Conns \ {c} : req'[d] = req[d]
      BY <2>2, GotoDoes DEF WaitingPCs
    <3> QED
      BY <2>1, <2>2, <3>1, NodeOfRequest
  <2>3. CASE LeaveStream(c, TRUE)
    BY <2>3, NodeOfLeave
  <2>4. CASE req' = [req EXCEPT ![c].gone = TRUE] /\ work' = work
    <3>1. req'[c].pc = req[c].pc /\ \A d \in Conns \ {c} : req'[d] = req[d]
      BY <2>4, GoneDoes
    <3> QED
      BY <2>1, <2>4, <3>1, NodeOfRequest, NodeHere
  <2>5. CASE EndRequest(c)
    BY <2>1, <2>5, NodeOfEnd
  <2> QED
    BY <1>13, <2>2, <2>3, <2>4, <2>5 DEF Cancel
<1>14. ASSUME NEW c \in Conns, GetControl(c)
      PROVE  NodeInv'
  <2>1. UNCHANGED <<work, frames, landed, tree>>
    BY <1>14 DEF GetControl
  <2>2. (req'[c].pc \in {"await", "send"} => work[c].result) /\ \A d \in Conns \ {c} : req'[d] = req[d]
    BY <1>14, GetControlDoes, NodeHere
  <2> QED
    BY <2>1, <2>2, NodeOfRequest
<1>15. ASSUME NEW c \in Conns, HandleControl(c)
      PROVE  NodeInv'
  <2>1. UNCHANGED <<frames, landed, tree>>
    BY <1>15 DEF HandleControl
  <2>2. /\ req'[c].pc = req[c].pc /\ work'[c].pc = work[c].pc
        /\ work'[c].target = work[c].target /\ work'[c].result = work[c].result /\ work'[c].holder = work[c].holder
        /\ \A d \in Conns \ {c} : req'[d] = req[d] /\ work'[d] = work[d]
    BY <1>15, HandleControlDoes
  <2> QED
    BY <2>1, <2>2, NodeElsewhere, NodeHere
<1>16. ASSUME NEW c \in Conns, WorkerBegins(c)
      PROVE  NodeInv'
  <2>1. Mutated(None) /\ landed' = landed /\ req' = req /\ work[c].pc = "begin"
    BY <1>16 DEF WorkerBegins
  <2>2. tree'.made = tree.made + 1 /\ tree'.active = tree.made + 1 /\ tree.made \in Nat
    BY <1>16, TreeType DEF WorkerBegins, TypeOK
  <2>3. \A d \in Conns : tree'.made \notin FrameNodes(d)' \cup LandedNodes(d)'
    <3> SUFFICES ASSUME NEW d \in Conns
                 PROVE  \A n \in FrameNodes(d)' \cup LandedNodes(d)' : n < tree'.made
      BY <2>2
    <3>1. FrameNodes(d)' \subseteq FrameNodes(d)
      BY <2>1, MutatedFrames
    <3>2. LandedNodes(d)' = LandedNodes(d)
      BY <2>1 DEF LandedNodes, ToSet
    <3>3. \A n \in FrameNodes(d) \cup LandedNodes(d) : n <= tree.made /\ n \in Nat
      BY FrameTypes DEF FramesInv
    <3> QED
      BY <2>2, <3>1, <3>2, <3>3
  <2>4. /\ work'[c].pc = "run" /\ work'[c].target = tree'.made /\ work'[c].holder = None
        /\ ~work'[c].result /\ ~work[c].result
        /\ \A d \in Conns \ {c} : work'[d] = work[d]
    BY <1>16, <2>1, <2>2, WorkerBeginsDoes, NodeHere
  <2>5. ASSUME NEW d \in Conns \ {c}
        PROVE  work'[d].pc # "run" /\ ~work'[d].result /\ work'[d] = work[d]
    BY <2>1, <2>4, OneMakes
  <2>6. req'[c].pc \notin {"await", "send"}
    BY <2>1, NodeHere
  <2>7. ASSUME NEW d \in Conns
        PROVE  /\ work'[d].pc \in {"none", "begin"} =>
                    ~work'[d].result /\ work'[d].holder = None /\ work'[d].target = None
               /\ work'[d].holder # None => work'[d].holder <= tree'.made
               /\ req'[d].pc \in {"await", "send"} => work'[d].result
    <3>1. work[d].holder \in Nat \cup {None} /\ tree.made \in Nat
      BY DEF TypeOK, Works
    <3>2. CASE d = c
      BY <2>4, <2>6, <3>2
    <3>3. CASE d # c
      BY <2>1, <2>2, <2>5, <3>1, <3>3, NodeHere
    <3> QED
      BY <3>2, <3>3
  <2>8. tree'.active <= tree'.made
    BY <2>2
  <2>9. ASSUME NEW d \in Conns
        PROVE  /\ work'[d].pc = "run" =>
                    /\ work'[d].target = tree'.made /\ ~work'[d].result
                    /\ \A e \in Conns :
                         tree'.made \notin FrameNodes(e)' \cup LandedNodes(e)'
               /\ work'[d].result => work'[d].target = tree'.made
               /\ work'[d].pc \in {"none", "begin"} =>
                    ~work'[d].result /\ work'[d].holder = None /\ work'[d].target = None
               /\ work'[d].holder # None => work'[d].holder <= tree'.made
               /\ req'[d].pc \in {"await", "send"} => work'[d].result
    <3>1. work'[d].pc = "run" => d = c /\ work'[d].target = tree'.made /\ ~work'[d].result
      BY <2>4, <2>5
    <3>2. work'[d].result => work'[d].target = tree'.made
      BY <2>4, <2>5
    <3>3. /\ work'[d].pc \in {"none", "begin"} =>
               ~work'[d].result /\ work'[d].holder = None /\ work'[d].target = None
          /\ work'[d].holder # None => work'[d].holder <= tree'.made
          /\ req'[d].pc \in {"await", "send"} => work'[d].result
      BY <2>7
    <3>4. work'[d].pc = "run" =>
            /\ work'[d].target = tree'.made /\ ~work'[d].result
            /\ \A e \in Conns : tree'.made \notin FrameNodes(e)' \cup LandedNodes(e)'
      BY <2>3, <3>1
    <3> QED
      BY <3>2, <3>3, <3>4
  <2> QED
    BY <2>8, <2>9, Zenon DEF NodeInv
<1>17. ASSUME NEW c \in Conns, WorkerTokens(c)
      PROVE  NodeInv'
  <2>1. UNCHANGED <<req, frames, landed, tree>>
    BY <1>17 DEF WorkerTokens
  <2>2. /\ work'[c].pc = work[c].pc /\ work'[c].target = work[c].target /\ work'[c].result = work[c].result
        /\ work'[c].holder \in {tree.active, work[c].holder}
        /\ \A d \in Conns \ {c} : work'[d] = work[d]
    BY <1>17, WorkerTokensDoes
  <2>3. work[c].pc = "run" /\ tree.active <= tree.made
    BY <1>17 DEF WorkerTokens, NodeInv
  <2> QED
    BY <2>1, <2>2, <2>3, NodeElsewhere, NodeHere
<1>18. ASSUME NEW c \in Conns, WorkerFinalizes(c)
      PROVE  NodeInv'
  <2>1. req' = req /\ tree' = tree /\ work[c].pc = "run"
    BY <1>18 DEF WorkerFinalizes
  <2>2. /\ work'[c].pc = "finish" /\ work'[c].target = work[c].target
        /\ work'[c].holder = work[c].holder /\ work'[c].result
        /\ \A d \in Conns \ {c} : work'[d] = work[d]
    BY <1>18, WorkerFinalizesDoes
  <2>3. work[c].target = tree.made
    BY <2>1, NodeHere
  <2>4. \A d \in Conns : work'[d].pc # "run"
    BY <2>1, <2>2, OneMakes
  <2>5. ASSUME NEW d \in Conns
        PROVE  /\ work'[d].result => work'[d].target = tree'.made
               /\ work'[d].pc \in {"none", "begin"} =>
                    ~work'[d].result /\ work'[d].holder = None /\ work'[d].target = None
               /\ work'[d].holder # None => work'[d].holder <= tree'.made
               /\ req'[d].pc \in {"await", "send"} => work'[d].result
    BY <2>1, <2>2, <2>3, NodeHere
  <2>6. tree'.active <= tree'.made
    BY <2>1 DEF NodeInv
  <2>7. ASSUME NEW d \in Conns
        PROVE  work'[d].pc = "run" =>
                 /\ work'[d].target = tree'.made /\ ~work'[d].result
                 /\ \A e \in Conns :
                      tree'.made \notin FrameNodes(e)' \cup LandedNodes(e)'
    BY <2>4
  <2> QED
    BY <2>5, <2>6, <2>7, Zenon DEF NodeInv
<1>19. ASSUME NEW c \in Conns, WorkerFails(c)
      PROVE  NodeInv'
  <2>1. UNCHANGED <<req, frames, landed, tree>>
    BY <1>19 DEF WorkerFails
  <2>2. /\ work'[c].pc = "finish" /\ work'[c].target = work[c].target /\ work'[c].result = work[c].result
        /\ work'[c].holder = work[c].holder
        /\ \A d \in Conns \ {c} : work'[d] = work[d]
    BY <1>19, WorkerFailsDoes
  <2> QED
    BY <2>1, <2>2, NodeElsewhere, NodeHere
<1>20. ASSUME NEW c \in Conns, WorkerEnds(c)
      PROVE  NodeInv'
  <2>1. UNCHANGED <<req, frames, landed, tree>>
    BY <1>20 DEF WorkerEnds
  <2>2. /\ work'[c].pc = "ended" /\ work'[c].target = work[c].target /\ work'[c].result = work[c].result
        /\ work'[c].holder = work[c].holder
        /\ \A d \in Conns \ {c} : work'[d] = work[d]
    BY <1>20, WorkerEndsDoes
  <2> QED
    BY <2>1, <2>2, NodeElsewhere, NodeHere
<1>21. ASSUME NEW c \in Conns, Forward(c)
      PROVE  NodeInv'
  <2>1. UNCHANGED <<req, work, tree>>
    BY <1>21 DEF Forward
  <2>2. \A d \in Conns : FrameNodes(d)' \cup LandedNodes(d)'
                          \subseteq FrameNodes(d) \cup LandedNodes(d)
    BY <1>21, ForwardDoes DEF FrameNodes, LandedNodes, ToSet
  <2> QED
    BY <2>1, <2>2 DEF NodeInv
<1>22. ASSUME NEW c \in Conns, LockTimeout(c)
      PROVE  NodeInv'
  <2>1. UNCHANGED <<work, frames, landed, tree>>
    BY <1>22 DEF LockTimeout
  <2>2. req'[c].pc \notin {"await", "send"} /\ \A d \in Conns \ {c} : req'[d] = req[d]
    BY <1>22, LockTimeoutDoes, NodeHere
  <2> QED
    BY <2>1, <2>2, NodeOfRequest
<1>23. CASE UNCHANGED vars
  BY <1>23 DEF vars, NodeInv, FrameNodes, LandedNodes, ToSet
<1>24. ASSUME NEW n \in 0..tree.made, Navigate(n)
      PROVE  NodeInv'
  <2>1. Mutated(None) /\ UNCHANGED <<req, work, landed>>
    BY <1>24 DEF Navigate
  <2>2. tree'.made = tree.made /\ tree'.active <= tree'.made
    BY <1>24, NavigateDoes
  <2>3. \A d \in Conns : /\ FrameNodes(d)' \subseteq FrameNodes(d)
                        /\ LandedNodes(d)' = LandedNodes(d)
    BY <2>1, MutatedFrames DEF LandedNodes, ToSet
  <2> QED
    BY <2>1, <2>2, <2>3 DEF NodeInv
<1> QED
  BY <1>1, <1>2, <1>3, <1>4, <1>5, <1>6, <1>7, <1>8, <1>9, <1>10, <1>11,
     <1>12, <1>13, <1>14, <1>15, <1>16, <1>17, <1>18, <1>19, <1>20, <1>21,
     <1>22, <1>23, <1>24 DEF Next, Client, Handler, Control, Worker

\* A step that neither sends nor takes a landed node away.
LEMMA DoneKeeps ==
  ASSUME DoneFollowsTree, NEW c \in Conns, UNCHANGED <<frames, landed>>,
         \A d \in Conns \ {c} : req'[d] = req[d] /\ work'[d] = work[d],
         req'[c].pc # "send" \/ (req'[c].pc = req[c].pc /\ work'[c] = work[c])
  PROVE  DoneFollowsTree'
<1>1. \A d \in Conns : FrameNodes(d)' = FrameNodes(d)
  BY DEF FrameNodes
<1> QED
  BY <1>1 DEF DoneFollowsTree, At

\* A handler that is about to send has no thread, and no other has one.
LEMMA NoneSends ==
  ASSUME HandlerInv, NEW c \in Conns, work[c].pc \in RunningPCs
  PROVE  \A d \in Conns : ~At(d, "send")
<1>1. req[c].pc \in {"stream", "join"} /\ lock = c
  BY HandlerHere DEF LockedPCs
<1>2. \A d \in Conns : req[d].pc = "send" => lock = d
  BY HandlerHere DEF LockedPCs
<1> QED
  BY <1>1, <1>2 DEF At

\* A done frame waits for its node.
LEMMA DoneStep ==
  ASSUME TypeOK, HandlerInv, FramesInv, NodeInv, DoneFollowsTree, [Next]_vars
  PROVE  DoneFollowsTree'
<1>1. ASSUME NEW c \in Conns, ClientSends(c)
      PROVE  DoneFollowsTree'
  <2>1. UNCHANGED <<req, work, frames, landed>>
    BY <1>1 DEF ClientSends
  <2> QED
    BY <2>1, DoneKeeps
<1>2. ASSUME NEW c \in Conns, NEW r \in 1..MaxRequests \cup {All}, ClientStops(c, r)
      PROVE  DoneFollowsTree'
  <2>1. UNCHANGED <<req, work, frames, landed>>
    BY <1>2 DEF ClientStops
  <2> QED
    BY <2>1, DoneKeeps
<1>3. ASSUME NEW c \in Conns, Drops(c)
      PROVE  DoneFollowsTree'
  <2>1. UNCHANGED <<req, work, frames, landed>>
    BY <1>3 DEF Drops
  <2> QED
    BY <2>1, DoneKeeps
<1>4. ASSUME NEW c \in Conns, TakeMessage(c)
      PROVE  DoneFollowsTree'
  <2>1. UNCHANGED <<work, frames, landed>>
    BY <1>4 DEF TakeMessage
  <2>2. (req'[c].pc = "lock" \/ req'[c].pc = req[c].pc) /\ \A d \in Conns \ {c} : req'[d] = req[d]
    BY <1>4, TakeMessageDoes
  <2> QED
    BY <2>1, <2>2, DoneKeeps
<1>5. ASSUME NEW c \in Conns, LeaveLoop(c)
      PROVE  DoneFollowsTree'
  <2>1. req'[c].pc = "closed" /\ work' = work
    BY <1>5, LeaveLoopDoes
  <2>2. \A d \in Conns \ {c} : req'[d] = req[d] /\ frames'[d] = frames[d] /\ landed'[d] = landed[d]
    BY <1>5, LeaveLoopDoes, LeaveLoopFrames
  <2> QED
    BY <2>1, <2>2 DEF DoneFollowsTree, FrameNodes, At
<1>6. ASSUME NEW c \in Conns, Granted(c)
      PROVE  DoneFollowsTree'
  <2>1. UNCHANGED <<work, frames, landed>>
    BY <1>6 DEF Granted
  <2>2. req'[c].pc # "send" /\ \A d \in Conns \ {c} : req'[d] = req[d]
    BY <1>6, GrantedDoes
  <2> QED
    BY <2>1, <2>2, DoneKeeps
<1>7. ASSUME NEW c \in Conns, StartSibling(c)
      PROVE  DoneFollowsTree'
  <2>1. /\ UNCHANGED <<frames, landed>> /\ req'[c].pc = "stream"
        /\ \A d \in Conns \ {c} : req'[d] = req[d] /\ work'[d] = work[d]
    BY <1>7, StartSiblingDoes DEF StartSibling
  <2> QED
    BY <2>1, DoneKeeps
<1>8. ASSUME NEW c \in Conns, SendToken(c)
      PROVE  DoneFollowsTree'
  <2>1. UNCHANGED <<req, work, frames, landed>>
    BY <1>8 DEF SendToken
  <2> QED
    BY <2>1, DoneKeeps
<1>9. ASSUME NEW c \in Conns, StreamEnds(c)
      PROVE  DoneFollowsTree'
  <2>1. LeaveStream(c, FALSE)
    BY <1>9 DEF StreamEnds
  <2>2. UNCHANGED <<frames, landed>>
    BY <2>1 DEF LeaveStream
  <2>3. req'[c].pc = "join" /\ \A d \in Conns \ {c} : req'[d] = req[d] /\ work'[d] = work[d]
    BY <2>1, LeaveStreamDoes
  <2> QED
    BY <2>2, <2>3, DoneKeeps
<1>10. ASSUME NEW c \in Conns, Joined(c)
      PROVE  DoneFollowsTree'
  <2>1. UNCHANGED <<frames, landed>>
    BY <1>10 DEF Joined
  <2>2. CASE EndRequest(c)
    <3>1. req'[c].pc = "ready" /\ \A d \in Conns \ {c} : req'[d] = req[d] /\ work'[d] = work[d]
      BY <2>2, EndRequestDoes
    <3> QED
      BY <2>1, <3>1, DoneKeeps
  <2>3. CASE Goto(c, "await") /\ work' = work
    <3>1. req'[c].pc = "await" /\ \A d \in Conns \ {c} : req'[d] = req[d]
      BY <2>3, GotoDoes DEF LockedPCs
    <3> QED
      BY <2>1, <2>3, <3>1, DoneKeeps
  <2>4. CASE Goto(c, "send") /\ work' = work /\ ~WaitsForTree(c)
    <3>1. \A d \in Conns \ {c} : req'[d] = req[d]
      BY <2>4, GotoDoes DEF LockedPCs
    <3> QED
      BY <2>1, <2>4, <3>1 DEF DoneFollowsTree, FrameNodes, At, WaitsForTree
  <2> QED
    BY <1>10, <2>2, <2>3, <2>4 DEF Joined
<1>11. ASSUME NEW c \in Conns, TreeLanded(c)
      PROVE  DoneFollowsTree'
  <2>1. /\ Goto(c, "send") /\ UNCHANGED <<work, frames, landed>>
        /\ work[c].holder \in LandedNodes(c)
    BY <1>11 DEF TreeLanded, LandedNodes
  <2>2. \A d \in Conns \ {c} : req'[d] = req[d]
    BY <2>1, GotoDoes DEF LockedPCs
  <2>3. work[c].holder \notin FrameNodes(c)
    <3>1. \A n \in FrameNodes(c) : work[c].holder < n /\ n \in Nat
      BY <2>1, FrameTypes DEF FramesInv
    <3> QED
      BY <3>1
  <2>4. \A d \in Conns : FrameNodes(d)' = FrameNodes(d)
    BY <2>1 DEF FrameNodes
  <2> QED
    BY <2>1, <2>2, <2>3, <2>4 DEF DoneFollowsTree, LandedNodes, At
<1>12. ASSUME NEW c \in Conns, SendDone(c)
      PROVE  DoneFollowsTree'
  <2>1. UNCHANGED <<frames, landed>>
    BY <1>12 DEF SendDone
  <2>2. CASE EndRequest(c)
    <3>1. req'[c].pc = "ready" /\ \A d \in Conns \ {c} : req'[d] = req[d] /\ work'[d] = work[d]
      BY <2>2, EndRequestDoes
    <3> QED
      BY <2>1, <3>1, DoneKeeps
  <2>3. CASE ~EndRequest(c)
    <3>1. req' = [req EXCEPT ![c].pc = "start", ![c].sib = @ + 1] /\ work' = work
      BY <1>12, <2>3 DEF SendDone
    <3>2. req'[c].pc = "start" /\ \A d \in Conns \ {c} : req'[d] = req[d]
      BY <3>1, NextSiblingDoes
    <3> QED
      BY <2>1, <3>1, <3>2, DoneKeeps
  <2> QED
    BY <2>2, <2>3
<1>13. ASSUME NEW c \in Conns, Cancel(c)
      PROVE  DoneFollowsTree'
  <2>1. UNCHANGED <<frames, landed>>
    BY <1>13 DEF Cancel, LeaveStream
  <2>2. CASE Goto(c, "ready") /\ work' = work
    <3>1. req'[c].pc = "ready" /\ \A d \in Conns \ {c} : req'[d] = req[d]
      BY <2>2, GotoDoes DEF WaitingPCs
    <3> QED
      BY <2>1, <2>2, <3>1, DoneKeeps
  <2>3. CASE LeaveStream(c, TRUE)
    <3>1. req'[c].pc = "join" /\ \A d \in Conns \ {c} : req'[d] = req[d] /\ work'[d] = work[d]
      BY <2>3, LeaveStreamDoes
    <3> QED
      BY <2>1, <3>1, DoneKeeps
  <2>4. CASE req' = [req EXCEPT ![c].gone = TRUE] /\ work' = work
    <3>1. req'[c].pc = req[c].pc /\ \A d \in Conns \ {c} : req'[d] = req[d]
      BY <2>4, GoneDoes
    <3> QED
      BY <2>1, <2>4, <3>1, DoneKeeps
  <2>5. CASE EndRequest(c)
    <3>1. req'[c].pc = "ready" /\ \A d \in Conns \ {c} : req'[d] = req[d] /\ work'[d] = work[d]
      BY <2>5, EndRequestDoes
    <3> QED
      BY <2>1, <3>1, DoneKeeps
  <2> QED
    BY <1>13, <2>2, <2>3, <2>4, <2>5 DEF Cancel
<1>14. ASSUME NEW c \in Conns, GetControl(c)
      PROVE  DoneFollowsTree'
  <2>1. UNCHANGED <<work, frames, landed>>
    BY <1>14 DEF GetControl
  <2>2. req'[c].pc = req[c].pc /\ \A d \in Conns \ {c} : req'[d] = req[d]
    BY <1>14, GetControlDoes
  <2> QED
    BY <2>1, <2>2, DoneKeeps
<1>15. ASSUME NEW c \in Conns, HandleControl(c)
      PROVE  DoneFollowsTree'
  <2>1. At(c, "stream") /\ UNCHANGED <<frames, landed>>
    BY <1>15 DEF HandleControl
  <2>2. /\ req'[c].pc = req[c].pc
        /\ \A d \in Conns \ {c} : req'[d] = req[d] /\ work'[d] = work[d]
    BY <1>15, HandleControlDoes
  <2> QED
    BY <2>1, <2>2, DoneKeeps DEF At
<1>16. ASSUME NEW c \in Conns, WorkerBegins(c)
      PROVE  DoneFollowsTree'
  <2>1. req' = req /\ work[c].pc \in RunningPCs
    BY <1>16 DEF WorkerBegins, RunningPCs
  <2> QED
    BY <2>1, NoneSends DEF DoneFollowsTree, At
<1>17. ASSUME NEW c \in Conns, WorkerTokens(c)
      PROVE  DoneFollowsTree'
  <2>1. req' = req /\ UNCHANGED <<frames, landed>> /\ work[c].pc \in RunningPCs
    BY <1>17 DEF WorkerTokens, RunningPCs
  <2>2. req[c].pc # "send" /\ \A d \in Conns \ {c} : work'[d] = work[d]
    BY <1>17, <2>1, WorkerTokensDoes, HandlerHere
  <2> QED
    BY <2>1, <2>2, DoneKeeps
<1>18. ASSUME NEW c \in Conns, WorkerFinalizes(c)
      PROVE  DoneFollowsTree'
  <2>1. req' = req /\ work[c].pc \in RunningPCs
    BY <1>18 DEF WorkerFinalizes, RunningPCs
  <2> QED
    BY <2>1, NoneSends DEF DoneFollowsTree, At
<1>19. ASSUME NEW c \in Conns, WorkerFails(c)
      PROVE  DoneFollowsTree'
  <2>1. req' = req /\ UNCHANGED <<frames, landed>> /\ work[c].pc \in RunningPCs
    BY <1>19 DEF WorkerFails, RunningPCs
  <2>2. req[c].pc # "send" /\ \A d \in Conns \ {c} : work'[d] = work[d]
    BY <1>19, <2>1, WorkerFailsDoes, HandlerHere
  <2> QED
    BY <2>1, <2>2, DoneKeeps
<1>20. ASSUME NEW c \in Conns, WorkerEnds(c)
      PROVE  DoneFollowsTree'
  <2>1. req' = req /\ UNCHANGED <<frames, landed>> /\ work[c].pc \in RunningPCs
    BY <1>20 DEF WorkerEnds, RunningPCs
  <2>2. req[c].pc # "send" /\ \A d \in Conns \ {c} : work'[d] = work[d]
    BY <1>20, <2>1, WorkerEndsDoes, HandlerHere
  <2> QED
    BY <2>1, <2>2, DoneKeeps
<1>21. ASSUME NEW c \in Conns, Forward(c)
      PROVE  DoneFollowsTree'
  <2>1. UNCHANGED <<req, work>>
    BY <1>21 DEF Forward
  <2>2. /\ \A d \in Conns \ {c} : /\ landed'[d] = landed[d]
                                 /\ FrameNodes(d)' = FrameNodes(d)
        /\ FrameNodes(c)' \subseteq FrameNodes(c)
    BY <1>21, ForwardDoes DEF FrameNodes
  <2>3. ASSUME At(c, "send"), work[c].holder # None, work[c].holder = work[c].target
        PROVE  landed' = landed
    <3>1. work[c].holder = tree.made
      BY <2>3, NodeHere DEF At
    <3>2. tree.made \in LandedNodes(c)
      BY <2>3, <3>1 DEF DoneFollowsTree, LandedNodes
    <3>3. \A n \in FrameNodes(c) : n <= tree.made /\ tree.made < n /\ n \in Nat
      BY <3>2, FrameTypes DEF FramesInv
    <3>4. FrameNodes(c) = {}
      BY <3>3, TreeType
    <3> QED
      BY <1>21, <3>4, ForwardDoes
  <2> QED
    BY <2>1, <2>2, <2>3 DEF DoneFollowsTree, At
<1>22. ASSUME NEW c \in Conns, LockTimeout(c)
      PROVE  DoneFollowsTree'
  <2>1. UNCHANGED <<work, frames, landed>>
    BY <1>22 DEF LockTimeout
  <2>2. req'[c].pc # "send" /\ \A d \in Conns \ {c} : req'[d] = req[d]
    BY <1>22, LockTimeoutDoes
  <2> QED
    BY <2>1, <2>2, DoneKeeps
<1>23. CASE UNCHANGED vars
  BY <1>23 DEF vars, DoneFollowsTree, FrameNodes, At
<1>24. ASSUME NEW n \in 0..tree.made, Navigate(n)
      PROVE  DoneFollowsTree'
  <2>1. Mutated(None) /\ UNCHANGED <<req, work, landed>>
    BY <1>24 DEF Navigate
  <2>2. \A d \in Conns : FrameNodes(d)' \subseteq FrameNodes(d)
    BY <2>1, MutatedFrames
  <2> QED
    BY <2>1, <2>2 DEF DoneFollowsTree, At
<1> QED
  BY <1>1, <1>2, <1>3, <1>4, <1>5, <1>6, <1>7, <1>8, <1>9, <1>10, <1>11,
     <1>12, <1>13, <1>14, <1>15, <1>16, <1>17, <1>18, <1>19, <1>20, <1>21,
     <1>22, <1>23, <1>24 DEF Next, Client, Handler, Control, Worker

---------------------------------------------------------------------------
(* The theorems.                                                           *)

\* The clauses of the assumption that Init rests on.
LEMMA InitHolds ==
  ASSUME Init
  PROVE  SocketInv
<1>1. TypeOK
  <2>1. <<>> \in Seq(Nat) /\ <<>> \in Seq(Nat \cup {None}) /\ Len(<<>>) = 0
    BY EmptySeq
  <2>2. NoRequest \in Requests /\ NoWorker \in Works
    BY DEF NoRequest, NoWorker, Requests, Works, Stops, WaitingPCs
  <2>3. [msgs |-> <<>>, stop |-> None, sent |-> 0] \in Inboxes
    BY <2>1 DEF Inboxes, Stops
  <2>4. EmptyQueue \in Queues(Nat \cup {None})
    BY <2>1, Constants DEF EmptyQueue, Queues
  <2> QED
    BY <2>1, <2>2, <2>3, <2>4 DEF Init, TypeOK
<1>2. HandlerInv /\ TakenInv /\ DoneFollowsTree
  BY Constants DEF Init, HandlerInv, TakenInv, DoneFollowsTree, At, NoRequest,
     NoWorker,
     WaitingPCs, LockedPCs, RunningPCs
<1>3. \A c \in Conns : /\ DOMAIN frames[c].items = {} /\ FrameNodes(c) = {}
                       /\ LandedNodes(c) = {}
  BY DEF Init, EmptyQueue, FrameNodes, LandedNodes, ToSet
<1>4. FramesInv /\ NodeInv
  BY <1>3, Constants DEF Init, FramesInv, NodeInv, NoRequest, NoWorker
<1> QED
  BY <1>1, <1>2, <1>4 DEF SocketInv

\* The inductive invariant of the socket: what the lock, the worker threads, the
\* tree frames and the stops of ws_stream.py owe each other.
THEOREM SocketInvariant == Spec => []SocketInv
<1>1. Init => SocketInv
  BY InitHolds
<1>2. SocketInv /\ [Next]_vars => SocketInv'
  BY TypeStep, HandlerStep, FramesStep, NodeStep, DoneStep, TakenStep DEF SocketInv
<1> QED
  BY <1>1, <1>2, PTL DEF Spec

\* WorkerHoldsLock: no request gives the session lock back before its worker
\* thread ended (finish_worker in _ws_stream_generation).
THEOREM LockOutlivesThread == Spec => []WorkerHoldsLock
<1>1. SocketInv => WorkerHoldsLock
  BY DEF SocketInv, HandlerInv, WorkerHoldsLock, RunningPCs, LockedPCs
<1> QED
  BY <1>1, SocketInvariant, PTL

\* DoneFollowsTree: the done frame waits in tree_forwarded_finalized for the
\* finalize frame of its node, and a deque of one place is long enough.
THEOREM DoneIsLast == Spec => []DoneFollowsTree
<1>1. SocketInv => DoneFollowsTree
  BY DEF SocketInv
<1> QED
  BY <1>1, SocketInvariant, PTL

\* StopEndsFan: a stop that client_get took from the control slot reaches the
\* fan loop, even when the token loop ends before it looks at it.
THEOREM StopIsFinal == Spec => StopEndsFan
<1>1. ASSUME SocketInv
      PROVE  \A c \in Conns : At(c, "start") /\ req'[c].pc = "stream" => ~req[c].took
  BY <1>1 DEF SocketInv, TakenInv, At
<1>2. Spec => [][\A c \in Conns : At(c, "start") /\ req'[c].pc = "stream"
                                    => ~req[c].took]_vars
  BY <1>1, SocketInvariant, PTL
<1> QED
  BY <1>2 DEF StopEndsFan

==============================================================================
