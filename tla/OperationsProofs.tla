--------------------------- MODULE OperationsProofs ---------------------------
(***************************************************************************)
(* What the server's operations promise, for any number of requests, any   *)
(* siblings, any limits of the ledger.                                     *)
(*                                                                         *)
(*   OperationsInvariant  the inductive invariant                          *)
(*   ReceiptsTellTheTruth what a receipt says is what happened             *)
(*   BegunWorkIsFinished  nothing that has begun is abandoned              *)
(***************************************************************************)
EXTENDS ServerOperations, FiniteSetTheorems, SequenceTheorems, TLAPS

\* The constants, one by one.
LEMMA OperationsConstants ==
  /\ MaxEntries \in Nat /\ MaxActive \in Nat /\ Rows \in Nat /\ MaxActive <= MaxEntries
  /\ MaxActive > 0 /\ MaxEntries > 0 /\ Rows > 0
  /\ MaxResult \in Nat /\ MaxTotal \in Nat /\ MaxStarts \in Nat
  /\ None \notin Nat /\ Fetch \notin Nat /\ Fit \notin Nat
  /\ Fetch # Fit /\ Fetch # None /\ Fit # None /\ None \notin Ends
  /\ Requests \subseteq Nat /\ Ids \subseteq Nat /\ IsFiniteSet(Ids)
  /\ None \notin Requests /\ None \notin Ids /\ None \notin Preps
  /\ Requests \cap Preps = {}
<1>1. IsFiniteSet(1..MaxStarts)
  BY OperationsAssumption, FS_Interval DEF OperationsAssumption
<1> QED
  BY <1>1, OperationsAssumption DEF OperationsAssumption, Requests, Ids, Preps

---------------------------------------------------------------------------
(* Sets of naturals and sequences.                                         *)

\* A finite, inhabited set of naturals has a least element.
LEMMA Least ==
  ASSUME NEW S \in SUBSET Nat, S # {}, IsFiniteSet(S)
  PROVE  \E n \in S : \A m \in S : n <= m
<1> DEFINE Below(n) == {m \in S : m <= n}
           F == {T \in SUBSET S : \E n \in S : T = Below(n)}
<1>1. IsWellFoundedOn(StrictSubsetOrdering(S), FiniteSubsetsOf(S))
  BY FS_StrictSubsetOrderingWellFounded
<1>2. F \subseteq FiniteSubsetsOf(S) /\ F # {}
  <2>1. \A T \in F : IsFiniteSet(T)
    BY FS_Subset
  <2>2. PICK n \in S : TRUE
    OBVIOUS
  <2>3. Below(n) \in F
    BY <2>2
  <2> QED
    BY <2>1, <2>3 DEF FiniteSubsetsOf
<1>3. PICK T \in F : \A U \in F : ~(<<U, T>> \in StrictSubsetOrdering(S))
  BY <1>1, <1>2, WFMin
<1>4. PICK n \in S : T = Below(n)
  BY <1>3
<1>5. ASSUME NEW m \in S, m < n
      PROVE  FALSE
  <2>0. m \in Nat /\ n \in Nat
    OBVIOUS
  <2>1. Below(m) \in F
    OBVIOUS
  <2>3. \A k \in Below(m) : k \in S /\ k \in Nat /\ k <= n
    BY <1>5, <2>0
  <2>4. n \in Below(n) /\ n \notin Below(m)
    BY <1>5, <2>0
  <2>2. <<Below(m), T>> \in StrictSubsetOrdering(S)
    BY <2>3, <2>4, <1>3, <1>4 DEF StrictSubsetOrdering
  <2> QED
    BY <2>1, <2>2, <1>3
<1> QED
  BY <1>5

\* A sequence without its element at a place.
LEMMA RemoveAtDoes ==
  ASSUME NEW S, NEW s \in Seq(S), NEW k \in DOMAIN s
  PROVE  /\ RemoveAt(s, k) \in Seq(S)
         /\ Len(RemoveAt(s, k)) = Len(s) - 1
         /\ \A j \in 1..(Len(s) - 1) :
              RemoveAt(s, k)[j] = IF j < k THEN s[j] ELSE s[j + 1]
<1> DEFINE a == SubSeq(s, 1, k - 1)  b == SubSeq(s, k + 1, Len(s))
<1>1. a \in Seq(S) /\ Len(a) = k - 1 /\ \A j \in 1..(k - 1) : a[j] = s[j]
  OBVIOUS
<1>2. b \in Seq(S) /\ Len(b) = Len(s) - k /\ \A j \in 1..(Len(s) - k) : b[j] = s[k + j]
  OBVIOUS
<1>3. RemoveAt(s, k) = a \o b
  BY DEF RemoveAt
<1> HIDE DEF a, b
<1>4. a \o b \in Seq(S) /\ Len(a \o b) = Len(s) - 1
  BY <1>1, <1>2
<1>5. ASSUME NEW j \in 1..(Len(s) - 1)
      PROVE  (a \o b)[j] = IF j < k THEN s[j] ELSE s[j + 1]
  <2>1. CASE j < k
    BY <2>1, <1>1, <1>2
  <2>2. CASE j >= k
    <3>1. (a \o b)[j] = b[j - (k - 1)]
      BY <2>2, <1>1, <1>2
    <3>2. j - (k - 1) \in 1..(Len(s) - k) /\ k + (j - (k - 1)) = j + 1
      BY <2>2
    <3> QED
      BY <2>2, <3>1, <3>2, <1>2
  <2>3. j \in Int /\ k \in Int
    OBVIOUS
  <2>4. j < k \/ j >= k
    BY <2>3
  <2> QED
    BY <2>1, <2>2, <2>4, Zenon
<1> QED
  BY <1>3, <1>4, <1>5

---------------------------------------------------------------------------
(* The ledger.                                                             *)

States == Terminal \cup {"queued", "running"}

Shape(L) ==
  /\ IsLedger(L)
  /\ Known(L) \subseteq Ids /\ L.rec \in [Known(L) -> Entry]

Charged(L) ==
  /\ DOMAIN L.charge \subseteq Known(L)
  /\ \A i \in Known(L) : L.rec[i].result > 0 => i \in DOMAIN L.charge

\* A record nobody wrote to: at most its payload was dropped, if it was over.
SameRecord(M, L, j) ==
  /\ M.rec[j].state = L.rec[j].state /\ M.rec[j].error = L.rec[j].error
  /\ Live(L, j) => M.rec[j].rows = L.rec[j].rows
  /\ j \in DOMAIN M.charge => j \in DOMAIN L.charge /\ M.rec[j].rows = L.rec[j].rows

\* M is L after writing to the record of i.
Kept(M, L, i) ==
  /\ Shape(M) /\ Charged(M) /\ Known(M) = Known(L) /\ M.order = L.order
  /\ \A j \in Known(L) : Live(M, j) => Live(L, j)
  /\ \A j \in Known(L) : M.rec[j].by = L.rec[j].by /\ M.rec[j].kind = L.rec[j].kind
  /\ \A j \in Known(L) : j # i => SameRecord(M, L, j)

\* Sets of rows: a row more or replaced.
LEMMA RowsWith ==
  /\ <<>> \in RowSets
  /\ \A f \in RowSets, k \in 1..Rows, v \in Outcomes : With(f, k, v) \in RowSets
  /\ \A f \in RowSets : DOMAIN f \subseteq 1..Rows
<1>1. <<>> \in RowSets
  <2>1. <<>> \in [{} -> Outcomes]
    OBVIOUS
  <2>2. {} \in SUBSET (1..Rows)
    OBVIOUS
  <2> QED
    BY <2>1, <2>2 DEF RowSets
<1>2. ASSUME NEW f \in RowSets, NEW k \in 1..Rows, NEW v \in Outcomes
      PROVE  With(f, k, v) \in RowSets
  <2>1. PICK K \in SUBSET (1..Rows) : f \in [K -> Outcomes]
    BY DEF RowSets
  <2>2. With(f, k, v) \in [K \cup {k} -> Outcomes]
    BY <2>1 DEF With
  <2> QED
    BY <2>2 DEF RowSets
<1>3. ASSUME NEW f \in RowSets
      PROVE  DOMAIN f \subseteq 1..Rows
  BY DEF RowSets
<1> QED
  BY <1>1, <1>2, <1>3

\* The fields of a record, and a record with one of them changed.
LEMMA EntryFields ==
  ASSUME NEW e \in Entry
  PROVE  /\ e.state \in States /\ e.by \in Requests /\ e.kind \in {"http", "generate"}
         /\ e.rows \in RowSets /\ e.result \in 0..MaxResult /\ e.error \in BOOLEAN
         /\ \A state \in States :
              LET n == [e EXCEPT !.state = state] IN
              /\ n \in Entry /\ n.state = state /\ n.by = e.by /\ n.kind = e.kind
              /\ n.rows = e.rows /\ n.result = e.result /\ n.error = e.error
         /\ \A rows \in RowSets :
              LET n == [e EXCEPT !.rows = rows] IN
              /\ n \in Entry /\ n.state = e.state /\ n.by = e.by /\ n.kind = e.kind
              /\ n.rows = rows /\ n.result = e.result /\ n.error = e.error
         /\ \A result \in 0..MaxResult :
              LET n == [e EXCEPT !.result = result] IN
              /\ n \in Entry /\ n.state = e.state /\ n.by = e.by /\ n.kind = e.kind
              /\ n.rows = e.rows /\ n.result = result /\ n.error = e.error
         /\ \A error \in BOOLEAN :
              LET n == [e EXCEPT !.error = error] IN
              /\ n \in Entry /\ n.state = e.state /\ n.by = e.by /\ n.kind = e.kind
              /\ n.rows = e.rows /\ n.result = e.result /\ n.error = error
<1> USE DEF Entry, States
<1>1. /\ e.state \in States /\ e.by \in Requests /\ e.kind \in {"http", "generate"}
      /\ e.rows \in RowSets /\ e.result \in 0..MaxResult /\ e.error \in BOOLEAN
  OBVIOUS
<1>2. ASSUME NEW state \in States
      PROVE  LET n == [e EXCEPT !.state = state] IN
             /\ n \in Entry /\ n.state = state /\ n.by = e.by /\ n.kind = e.kind
             /\ n.rows = e.rows /\ n.result = e.result /\ n.error = e.error
  OBVIOUS
<1>3. ASSUME NEW rows \in RowSets
      PROVE  LET n == [e EXCEPT !.rows = rows] IN
             /\ n \in Entry /\ n.state = e.state /\ n.by = e.by /\ n.kind = e.kind
             /\ n.rows = rows /\ n.result = e.result /\ n.error = e.error
  OBVIOUS
<1>4. ASSUME NEW result \in 0..MaxResult
      PROVE  LET n == [e EXCEPT !.result = result] IN
             /\ n \in Entry /\ n.state = e.state /\ n.by = e.by /\ n.kind = e.kind
             /\ n.rows = e.rows /\ n.result = result /\ n.error = e.error
  OBVIOUS
<1>5. ASSUME NEW error \in BOOLEAN
      PROVE  LET n == [e EXCEPT !.error = error] IN
             /\ n \in Entry /\ n.state = e.state /\ n.by = e.by /\ n.kind = e.kind
             /\ n.rows = e.rows /\ n.result = e.result /\ n.error = error
  OBVIOUS
<1> QED
  BY <1>1, <1>2, <1>3, <1>4, <1>5

\* The ledger itself, and two writes to one record.
LEMMA KeptByNobody ==
  ASSUME NEW L, Shape(L), Charged(L), NEW i
  PROVE  Kept(L, L, i)
BY DEF Kept, SameRecord

LEMMA KeptTwice ==
  ASSUME NEW L, NEW M, NEW N, NEW i, Kept(M, L, i), Kept(N, M, i)
  PROVE  Kept(N, L, i)
BY DEF Kept, SameRecord, Live

\* A record is rewritten.
LEMMA Rewritten ==
  ASSUME NEW L, Shape(L), Charged(L), NEW i \in Known(L), NEW e \in Entry, NEW M,
         M = [L EXCEPT !.rec = [L.rec EXCEPT ![i] = e]],
         e.by = L.rec[i].by, e.kind = L.rec[i].kind,
         e.state \notin Terminal => L.rec[i].state \notin Terminal,
         e.result > 0 => L.rec[i].result > 0
  PROVE  Kept(M, L, i) /\ M.rec[i] = e /\ M.charge = L.charge
<1>1. /\ M.rec = [L.rec EXCEPT ![i] = e] /\ M.order = L.order /\ M.charge = L.charge
      /\ IsLedger(M)
  BY DEF Shape, IsLedger
<1>2. /\ Known(M) = Known(L) /\ M.rec \in [Known(L) -> Entry] /\ M.rec[i] = e
      /\ \A j \in Known(L) : j # i => M.rec[j] = L.rec[j]
  BY <1>1 DEF Shape, Known
<1>3. Shape(M)
  BY <1>1, <1>2 DEF Shape
<1>4. Charged(M)
  BY <1>1, <1>2 DEF Charged
<1>5. \A j \in Known(L) : Live(M, j) => Live(L, j)
  BY <1>2 DEF Live
<1>6. \A j \in Known(L) : j # i => SameRecord(M, L, j)
  BY <1>1, <1>2 DEF SameRecord
<1> QED
  BY <1>1, <1>2, <1>3, <1>4, <1>5, <1>6 DEF Kept

\* _touch with a state.
LEMMA SettleDoes ==
  ASSUME NEW L, Shape(L), Charged(L), NEW i, NEW state \in States
  PROVE  /\ Kept(Settle(L, i, state), L, i)
         /\ Settle(L, i, state).charge = L.charge
         /\ i \in Known(L) =>
              /\ Settle(L, i, state).rec[i].state = IF Live(L, i) THEN state ELSE L.rec[i].state
              /\ Settle(L, i, state).rec[i].rows = L.rec[i].rows
              /\ Settle(L, i, state).rec[i].error = L.rec[i].error
<1>1. CASE ~Live(L, i)
  BY <1>1, KeptByNobody DEF Settle
<1>2. CASE Live(L, i)
  <2> DEFINE e == [L.rec[i] EXCEPT !.state = state]
             M == [L EXCEPT !.rec = [L.rec EXCEPT ![i] = e]]
  <2>1. i \in Known(L) /\ L.rec[i] \in Entry /\ L.rec[i].state \notin Terminal
    BY <1>2 DEF Shape, Live
  <2>2. e \in Entry /\ e.by = L.rec[i].by /\ e.kind = L.rec[i].kind
        /\ e.result = L.rec[i].result /\ e.state = state /\ e.rows = L.rec[i].rows
        /\ e.error = L.rec[i].error
    BY <2>1, EntryFields
  <2>3. Settle(L, i, state) = M
    BY <1>2 DEF Settle, Shape, IsLedger
  <2> HIDE DEF e
  <2>4. Kept(M, L, i) /\ M.rec[i] = e /\ M.charge = L.charge
    BY <2>1, <2>2, Rewritten
  <2> QED
    BY <1>2, <2>2, <2>3, <2>4
<1> QED
  BY <1>1, <1>2

\* fail and interrupt.
LEMMA FailDoes ==
  ASSUME NEW L, Shape(L), Charged(L), NEW i, NEW state \in States
  PROVE  /\ Kept(Fail(L, i, state), L, i)
         /\ Fail(L, i, state).charge = L.charge
         /\ i \in Known(L) => /\ Fail(L, i, state).rec[i].state =
                                   IF Live(L, i) THEN state ELSE L.rec[i].state
                              /\ Live(L, i) => Fail(L, i, state).rec[i].error
                              /\ Fail(L, i, state).rec[i].rows = L.rec[i].rows
<1>1. CASE ~Live(L, i)
  BY <1>1, KeptByNobody DEF Fail
<1>2. CASE Live(L, i)
  <2> DEFINE d == [L.rec[i] EXCEPT !.state = state]
             e == [d EXCEPT !.error = TRUE]
             M == [L EXCEPT !.rec = [L.rec EXCEPT ![i] = e]]
  <2>1. i \in Known(L) /\ L.rec[i] \in Entry /\ L.rec[i].state \notin Terminal
    BY <1>2 DEF Shape, Live
  <2>2. d \in Entry /\ d.by = L.rec[i].by /\ d.kind = L.rec[i].kind
        /\ d.result = L.rec[i].result /\ d.rows = L.rec[i].rows /\ d.state = state
    BY <2>1, EntryFields
  <2>3. Fail(L, i, state) = M
    BY <1>2, <2>1 DEF Fail, Shape, IsLedger
  <2> HIDE DEF d
  <2>4. e \in Entry /\ e.by = L.rec[i].by /\ e.kind = L.rec[i].kind
        /\ e.result = L.rec[i].result /\ e.rows = L.rec[i].rows /\ e.state = state
        /\ e.error
    BY <2>2, EntryFields, ZenonT(60)
  <2> HIDE DEF e
  <2>5. Kept(M, L, i) /\ M.rec[i] = e /\ M.charge = L.charge
    BY <2>1, <2>4, Rewritten
  <2> QED
    BY <1>2, <2>3, <2>4, <2>5
<1> QED
  BY <1>1, <1>2

\* observe of an error frame.
LEMMA ObserveErrorDoes ==
  ASSUME NEW L, Shape(L), Charged(L), NEW i
  PROVE  /\ Kept(ObserveError(L, i), L, i)
         /\ i \in Known(L) => /\ ObserveError(L, i).rec[i].error
                              /\ ObserveError(L, i).rec[i].state = L.rec[i].state
                              /\ ObserveError(L, i).rec[i].rows = L.rec[i].rows
<1>1. CASE i \notin Known(L)
  BY <1>1, KeptByNobody DEF ObserveError
<1>2. CASE i \in Known(L)
  <2> DEFINE e == [L.rec[i] EXCEPT !.error = TRUE]
             M == [L EXCEPT !.rec = [L.rec EXCEPT ![i] = e]]
  <2>1. L.rec[i] \in Entry
    BY <1>2 DEF Shape
  <2>2. e \in Entry /\ e.by = L.rec[i].by /\ e.kind = L.rec[i].kind
        /\ e.result = L.rec[i].result /\ e.state = L.rec[i].state
        /\ e.error /\ e.rows = L.rec[i].rows
    BY <2>1, EntryFields
  <2>3. ObserveError(L, i) = M
    BY <1>2 DEF ObserveError, Shape, IsLedger
  <2> HIDE DEF e
  <2>5. /\ e.state \notin Terminal => L.rec[i].state \notin Terminal
        /\ e.result > 0 => L.rec[i].result > 0
    BY <2>2
  <2>4. Kept(M, L, i) /\ M.rec[i] = e
    BY <1>2, <2>2, <2>5, Rewritten DEF Known
  <2> QED
    BY <1>2, <2>2, <2>3, <2>4
<1> QED
  BY <1>1, <1>2

\* _retain: the record that is charged is written to no further.
LEMMA RetainDoes ==
  ASSUME NEW L, Shape(L), DOMAIN L.charge \subseteq Known(L), NEW id \in Known(L), NEW size,
         \A j \in Known(L) : j # id /\ L.rec[j].result > 0 => j \in DOMAIN L.charge
  PROVE  LET M == Retain(L, id, size) IN
         /\ Kept(M, L, id) /\ M.rec[id] = L.rec[id] /\ id \in DOMAIN M.charge
<1> DEFINE ch == With(L.charge, id, size)
           kp == IF Contains(L.kept, id) THEN L.kept ELSE Append(L.kept, id)
           C == [L EXCEPT !.charge = ch, !.kept = kp]
           Spare == {k \in DOMAIN C.kept : C.kept[k] # id /\ Finished(C, C.kept[k])}
           First(k) == {C.kept[j] : j \in {n \in Spare : n < k}}
           Dropped == {C.kept[k] : k \in {n \in Spare :
                         Load(C, DOMAIN C.charge \ First(n)) > MaxTotal}}
           ch2 == [i \in DOMAIN C.charge \ Dropped |-> C.charge[i]]
           kp2 == SelectSeq(C.kept, LAMBDA i : i \notin Dropped)
           rec2 == [i \in DOMAIN C.rec |-> IF i \in Dropped
                      THEN [C.rec[i] EXCEPT !.result = 0, !.rows = <<>>] ELSE C.rec[i]]
           M == [C EXCEPT !.charge = ch2, !.kept = kp2, !.rec = rec2]
<1>1. Retain(L, id, size) = M
  BY DEF Retain
<1>0. DOMAIN ch = DOMAIN L.charge \cup {id}
  BY DEF With
<1> HIDE DEF ch, kp
<1>2. /\ C.rec = L.rec /\ C.order = L.order
      /\ DOMAIN C.charge = DOMAIN L.charge \cup {id}
      /\ IsLedger(C)
  <2>1. IsLedger(C) /\ C.rec = L.rec /\ C.order = L.order /\ C.charge = ch
    <3>1. IsLedger(L)
      BY DEF Shape
    <3> QED
      BY <3>1 DEF IsLedger
  <2> QED
    BY <1>0, <2>1
<1>3. \A j \in Dropped : j # id /\ Finished(L, j)
  BY <1>2, Zenon DEF Finished, Known
<1> HIDE DEF Dropped
<1>4. /\ M.rec = [i \in DOMAIN C.rec |-> IF i \in Dropped
                    THEN [C.rec[i] EXCEPT !.result = 0, !.rows = <<>>] ELSE C.rec[i]]
      /\ DOMAIN M.charge = DOMAIN C.charge \ Dropped /\ M.order = C.order
      /\ IsLedger(M)
  <2> HIDE DEF C
  <2>1. DOMAIN ch2 = DOMAIN C.charge \ Dropped
    OBVIOUS
  <2> HIDE DEF ch2, kp2, rec2
  <2>2. IsLedger(M) /\ M.rec = rec2 /\ M.order = C.order /\ M.charge = ch2
    BY <1>2 DEF IsLedger
  <2> QED
    BY <2>1, <2>2 DEF rec2
<1> HIDE DEF C, M, ch2, kp2, rec2
<1>5. /\ Known(M) = Known(L) /\ M.order = L.order
      /\ \A j \in Known(L) \ Dropped : M.rec[j] = L.rec[j]
      /\ \A j \in Known(L) \cap Dropped :
           M.rec[j] = [[L.rec[j] EXCEPT !.result = 0] EXCEPT !.rows = <<>>]
  BY <1>2, <1>4 DEF Known
<1>6. \A j \in Known(L) : M.rec[j] \in Entry /\ M.rec[j].state = L.rec[j].state
                          /\ M.rec[j].by = L.rec[j].by /\ M.rec[j].kind = L.rec[j].kind
                          /\ M.rec[j].error = L.rec[j].error
                          /\ (j \in Dropped => M.rec[j].result = 0)
  <2> SUFFICES ASSUME NEW j \in Known(L)
               PROVE  M.rec[j] \in Entry /\ M.rec[j].state = L.rec[j].state
                      /\ M.rec[j].by = L.rec[j].by /\ M.rec[j].kind = L.rec[j].kind
                      /\ M.rec[j].error = L.rec[j].error
                      /\ (j \in Dropped => M.rec[j].result = 0)
    OBVIOUS
  <2>1. L.rec[j] \in Entry
    BY DEF Shape
  <2>2. CASE j \notin Dropped
    BY <2>1, <2>2, <1>5
  <2>3. CASE j \in Dropped
    <3> DEFINE d == [L.rec[j] EXCEPT !.result = 0]
    <3>1. M.rec[j] = [d EXCEPT !.rows = <<>>]
      BY <2>3, <1>5
    <3>2. 0 \in 0..MaxResult
      BY OperationsConstants
    <3>3. d \in Entry /\ d.state = L.rec[j].state /\ d.by = L.rec[j].by
          /\ d.kind = L.rec[j].kind /\ d.result = 0 /\ d.error = L.rec[j].error
      BY <2>1, <3>2, EntryFields
    <3> HIDE DEF d
    <3> QED
      BY <3>1, <3>3, RowsWith, EntryFields
  <2> QED
    BY <2>2, <2>3
<1>7. Shape(M)
  BY <1>4, <1>5, <1>6 DEF Shape, Known
<1>8. Charged(M)
  <2>1. DOMAIN M.charge \subseteq Known(M)
    BY <1>2, <1>4, <1>5
  <2>2. ASSUME NEW j \in Known(L), M.rec[j].result > 0
        PROVE  j \in DOMAIN M.charge
    <3>1. j \notin Dropped
      BY <2>2, <1>6
    <3>2. L.rec[j].result > 0
      BY <2>2, <3>1, <1>5
    <3> QED
      BY <3>1, <3>2, <1>2, <1>4
  <2> QED
    BY <2>1, <2>2, <1>5 DEF Charged
<1>9. \A j \in Known(L) : Live(M, j) => Live(L, j)
  BY <1>5, <1>6 DEF Live
<1>10. \A j \in Known(L) : j # id => SameRecord(M, L, j)
  <2> SUFFICES ASSUME NEW j \in Known(L), j # id
               PROVE  SameRecord(M, L, j)
    OBVIOUS
  <2>1. CASE j \in Dropped
    BY <2>1, <1>3, <1>4, <1>6 DEF SameRecord, Live, Finished
  <2>2. CASE j \notin Dropped
    BY <2>2, <1>2, <1>4, <1>5 DEF SameRecord
  <2> QED
    BY <2>1, <2>2
<1>11. M.rec[id] = L.rec[id] /\ id \in DOMAIN M.charge
  BY <1>2, <1>3, <1>4, <1>5
<1> QED
  BY <1>1, <1>5, <1>6, <1>7, <1>8, <1>9, <1>10, <1>11 DEF Kept

\* complete.
LEMMA CompleteDoes ==
  ASSUME NEW L, Shape(L), Charged(L), NEW i, NEW size \in Nat
  PROVE  LET M == Complete(L, i, size) IN
         /\ Kept(M, L, i)
         /\ Live(L, i) => M.rec[i].state = "completed"
         /\ ~Live(L, i) => M = L
<1>1. CASE ~Live(L, i)
  BY <1>1, KeptByNobody DEF Complete
<1>2. CASE Live(L, i)
  <2> DEFINE d == [L.rec[i] EXCEPT !.state = "completed"]
             e == [d EXCEPT !.result = size]
             D == [L EXCEPT !.rec = [L.rec EXCEPT ![i] = d]]
             E == [L EXCEPT !.rec = [L.rec EXCEPT ![i] = e]]
  <2>1. i \in Known(L) /\ L.rec[i] \in Entry /\ L.rec[i].state \notin Terminal
    BY <1>2 DEF Shape, Live
  <2>2. d \in Entry /\ d.by = L.rec[i].by /\ d.kind = L.rec[i].kind
        /\ d.result = L.rec[i].result /\ d.state = "completed"
    <3>1. "completed" \in States
      BY DEF States, Terminal
    <3> QED
      BY <2>1, <3>1, EntryFields
  <2>3. CASE size > Lesser(MaxResult, MaxTotal)
    <3>1. Complete(L, i, size) = D
      BY <1>2, <2>3, OperationsConstants DEF Complete, Shape, IsLedger, Lesser
    <3> HIDE DEF d
    <3>2. Kept(D, L, i) /\ D.rec[i] = d
      BY <2>1, <2>2, Rewritten DEF Terminal
    <3> QED
      BY <1>2, <2>2, <3>1, <3>2
  <2>4. CASE size <= Lesser(MaxResult, MaxTotal)
    <3>1. Complete(L, i, size) = Retain(E, i, size)
      BY <1>2, <2>1, <2>4 DEF Complete, Shape, IsLedger
    <3>2. size \in 0..MaxResult
      BY <2>4, OperationsConstants DEF Lesser
    <3> HIDE DEF d
    <3>3. e \in Entry /\ e.by = L.rec[i].by /\ e.kind = L.rec[i].kind /\ e.state = "completed"
      BY <2>2, <3>2, EntryFields
    <3> HIDE DEF e
    <3>4. /\ E.rec = [L.rec EXCEPT ![i] = e] /\ E.order = L.order /\ E.charge = L.charge
          /\ IsLedger(E)
      BY DEF Shape, IsLedger
    <3>5. /\ Known(E) = Known(L) /\ E.rec \in [Known(L) -> Entry] /\ E.rec[i] = e
          /\ \A j \in Known(L) : j # i => E.rec[j] = L.rec[j]
      BY <2>1, <3>3, <3>4 DEF Shape, Known
    <3> HIDE DEF E
    <3>6. Shape(E)
      BY <3>4, <3>5 DEF Shape
    <3>7. DOMAIN E.charge \subseteq Known(E)
      BY <3>4, <3>5 DEF Charged
    <3>8. \A j \in Known(E) : j # i /\ E.rec[j].result > 0 => j \in DOMAIN E.charge
      BY <3>4, <3>5 DEF Charged
    <3>9. LET M == Retain(E, i, size) IN Kept(M, E, i) /\ M.rec[i] = E.rec[i]
      BY <2>1, <3>5, <3>6, <3>7, <3>8, RetainDoes
    <3> DEFINE M == Retain(E, i, size)
    <3> HIDE DEF M
    <3>10. Kept(M, E, i) /\ M.rec[i] = E.rec[i]
      BY <3>9 DEF M
    <3>11. Kept(M, L, i)
      <4>1. /\ Shape(M) /\ Charged(M) /\ Known(M) = Known(L) /\ M.order = L.order
        BY <3>4, <3>5, <3>10 DEF Kept
      <4>2. \A j \in Known(L) : j # i => SameRecord(M, E, j)
        BY <3>5, <3>10 DEF Kept
      <4>3. \A j \in Known(L) : j # i => SameRecord(M, L, j)
        BY <4>2, <3>4, <3>5 DEF SameRecord, Live
      <4>4. \A j \in Known(L) : M.rec[j].by = L.rec[j].by /\ M.rec[j].kind = L.rec[j].kind
        BY <3>3, <3>5, <3>10 DEF Kept
      <4>5. \A j \in Known(L) : Live(M, j) => Live(L, j)
        BY <2>1, <4>1, <4>3 DEF SameRecord, Live
      <4> QED
        BY <4>1, <4>3, <4>4, <4>5 DEF Kept
    <3> QED
      BY <1>2, <3>1, <3>3, <3>5, <3>10, <3>11 DEF M
  <2> QED
    BY <2>3, <2>4, OperationsConstants DEF Lesser
<1> QED
  BY <1>1, <1>2

\* observe of a done frame.
LEMMA ObserveRowDoes ==
  ASSUME NEW L, Shape(L), Charged(L), NEW i, NEW row \in 1..Rows, NEW reason \in Outcomes,
         NEW M, M = ObserveRow(L, i, row, reason)
  PROVE  /\ Kept(M, L, i)
         /\ i \in Known(L) =>
              /\ M.rec[i].rows = With(L.rec[i].rows, row, reason)
              /\ M.rec[i].state = L.rec[i].state /\ M.rec[i].error = L.rec[i].error
              /\ i \in DOMAIN M.charge
<1>1. CASE i \notin Known(L)
  BY <1>1, KeptByNobody DEF ObserveRow
<1>2. CASE i \in Known(L)
  <2> DEFINE e == [L.rec[i] EXCEPT !.rows = With(L.rec[i].rows, row, reason)]
             E == [L EXCEPT !.rec = [L.rec EXCEPT ![i] = e]]
             size == (IF i \in DOMAIN L.charge THEN L.charge[i] ELSE 0) + 1
             R == Retain(E, i, size)
  <2>1. L.rec[i] \in Entry
    BY <1>2 DEF Shape
  <2>2. With(L.rec[i].rows, row, reason) \in RowSets
    BY <2>1, EntryFields, RowsWith
  <2>3. e \in Entry /\ e.by = L.rec[i].by /\ e.kind = L.rec[i].kind
        /\ e.result = L.rec[i].result /\ e.state = L.rec[i].state
        /\ e.rows = With(L.rec[i].rows, row, reason) /\ e.error = L.rec[i].error
    BY <2>1, <2>2, EntryFields
  <2>4. M = R
    BY <1>2 DEF ObserveRow, Shape, IsLedger
  <2> HIDE DEF e, size
  <2>5. /\ e.state \notin Terminal => L.rec[i].state \notin Terminal
        /\ e.result > 0 => L.rec[i].result > 0
    BY <2>3
  <2>6. Kept(E, L, i) /\ E.rec[i] = e
    BY <1>2, <2>3, <2>5, Rewritten DEF Known
  <2> HIDE DEF E
  <2>7. Shape(E) /\ Charged(E) /\ Known(E) = Known(L)
    BY <2>6 DEF Kept
  <2>8. Kept(R, E, i) /\ R.rec[i] = E.rec[i] /\ i \in DOMAIN R.charge
    BY <1>2, <2>7, RetainDoes DEF Charged
  <2> HIDE DEF R
  <2>9. Kept(R, L, i)
    BY <2>6, <2>8, KeptTwice
  <2> QED
    BY <1>2, <2>3, <2>4, <2>6, <2>8, <2>9
<1> QED
  BY <1>1, <1>2

\* settle_disconnected: only a record with a row for every sibling is completed.
LEMMA SettleDisconnectedDoes ==
  ASSUME NEW L, Shape(L), Charged(L), NEW i
  PROVE  LET M == SettleDisconnected(L, i) IN
         /\ Kept(M, L, i)
         /\ ~Live(L, i) => M = L
         /\ Live(L, i) =>
              \E state \in {"completed", "failed", "cancelled"} :
                /\ M.rec[i].state = state /\ M.rec[i].error = L.rec[i].error
                /\ M.rec[i].rows = L.rec[i].rows
                /\ state = "completed" => ~L.rec[i].error /\ DOMAIN L.rec[i].rows = 1..Rows
<1>1. CASE ~Live(L, i)
  BY <1>1, KeptByNobody DEF SettleDisconnected
<1>2. CASE Live(L, i)
  <2>1. i \in Known(L) /\ L.rec[i] \in Entry
    BY <1>2 DEF Shape, Live
  <2>2. PICK state \in {"completed", "failed", "cancelled"} :
          /\ SettleDisconnected(L, i) = Settle(L, i, state)
          /\ state = "completed" => /\ ~L.rec[i].error
                                    /\ Cardinality(DOMAIN L.rec[i].rows) = Rows
    BY <1>2, Zenon DEF SettleDisconnected
  <2>3. Cardinality(DOMAIN L.rec[i].rows) = Rows => DOMAIN L.rec[i].rows = 1..Rows
    <3>1. DOMAIN L.rec[i].rows \in SUBSET (1..Rows)
      BY <2>1, EntryFields, RowsWith
    <3>2. IsFiniteSet(1..Rows) /\ Cardinality(1..Rows) = Rows
      BY FS_Interval, OperationsConstants
    <3> QED
      BY <3>1, <3>2, FS_Subset
  <2>4. state \in States
    BY DEF States, Terminal
  <2>5. /\ Kept(Settle(L, i, state), L, i)
        /\ Settle(L, i, state).rec[i].state = state
        /\ Settle(L, i, state).rec[i].error = L.rec[i].error
        /\ Settle(L, i, state).rec[i].rows = L.rec[i].rows
    BY <1>2, <2>1, <2>4, SettleDoes
  <2> QED
    BY <1>2, <2>2, <2>3, <2>5
<1> QED
  BY <1>1, <1>2

\* A ledger in order, and how many records it has.
Sorted(L) == L.order \in Seq(Ids) /\ Ordered(L)
LiveIds(L) == {i \in Known(L) : Live(L, i)}
Fits(L) == Cardinality(Known(L)) <= MaxEntries /\ Cardinality(LiveIds(L)) <= MaxActive

LEMMA KnownIsFinite ==
  ASSUME NEW L, Shape(L)
  PROVE  /\ IsFiniteSet(Known(L)) /\ Cardinality(Known(L)) \in Nat
         /\ IsFiniteSet(LiveIds(L)) /\ Cardinality(LiveIds(L)) \in Nat
         /\ Cardinality(LiveIds(L)) <= Cardinality(Known(L))
<1>1. Known(L) \in SUBSET Ids /\ LiveIds(L) \in SUBSET Known(L)
  BY DEF Shape, LiveIds
<1>2. IsFiniteSet(Known(L))
  BY <1>1, OperationsConstants, FS_Subset
<1>3. IsFiniteSet(LiveIds(L)) /\ Cardinality(LiveIds(L)) <= Cardinality(Known(L))
  BY <1>1, <1>2, FS_Subset
<1> QED
  BY <1>2, <1>3, FS_CardinalityType

\* A write to a record keeps the order and the bounds.
LEMMA KeptFits ==
  ASSUME NEW L, NEW M, NEW i, Shape(L), Sorted(L), Fits(L), Kept(M, L, i)
  PROVE  Sorted(M) /\ Fits(M)
<1>1. Shape(M) /\ Known(M) = Known(L) /\ M.order = L.order
  BY DEF Kept
<1>2. LiveIds(M) \in SUBSET LiveIds(L)
  BY DEF Kept, LiveIds, Live
<1>3. Cardinality(LiveIds(M)) <= Cardinality(LiveIds(L))
  BY <1>2, KnownIsFinite, FS_Subset
<1>4. Fits(M)
  BY <1>1, <1>3, KnownIsFinite, OperationsConstants DEF Fits
<1> QED
  BY <1>1, <1>4 DEF Sorted, Ordered

\* Room is made at the cost of one finished record.
LEMMA EvictDoes ==
  ASSUME NEW L, Shape(L), Charged(L), Sorted(L), Fits(L), Cardinality(LiveIds(L)) < MaxActive
  PROVE  LET M == Evict(L) IN
         /\ Shape(M) /\ Charged(M) /\ Sorted(M)
         /\ Known(M) \subseteq Known(L) /\ Cardinality(Known(M)) < MaxEntries
         /\ \A i \in Known(L) : Live(L, i) => i \in Known(M)
         /\ \A i \in Known(M) : M.rec[i] = L.rec[i]
                                /\ (i \in DOMAIN M.charge => i \in DOMAIN L.charge)
<1>1. CASE Cardinality(Known(L)) < MaxEntries
  BY <1>1 DEF Evict
<1>2. CASE ~(Cardinality(Known(L)) < MaxEntries)
  <2> DEFINE S == {k \in DOMAIN L.order : Finished(L, L.order[k])}
             k == Oldest(L)
             i == L.order[k]
             M == Forget(L, k)
  <2>1. \E j \in Known(L) : Finished(L, j)
    <3> SUFFICES ASSUME \A j \in Known(L) : ~Finished(L, j)
                 PROVE  FALSE
      OBVIOUS
    <3>1. LiveIds(L) = Known(L)
      BY DEF LiveIds, Live, Finished
    <3> QED
      BY <1>2, <3>1, KnownIsFinite, OperationsConstants
  <2>2. S # {} /\ S \in SUBSET Nat /\ IsFiniteSet(S)
    <3>1. S # {}
      BY <2>1 DEF Sorted, Ordered
    <3>2. DOMAIN L.order = 1..Len(L.order) /\ Len(L.order) \in Nat
      BY DEF Sorted
    <3>3. IsFiniteSet(1..Len(L.order))
      BY <3>2, FS_Interval
    <3> QED
      BY <3>1, <3>2, <3>3, FS_Subset
  <2>3. PICK n \in S : \A m \in S : n <= m
    <3> HIDE DEF S
    <3> QED
      BY <2>2, Least
  <2>4. \A j \in 1..(n - 1) : ~Finished(L, L.order[j])
    <3> SUFFICES ASSUME NEW j \in 1..(n - 1), Finished(L, L.order[j])
                 PROVE  FALSE
      OBVIOUS
    <3>1. n \in 1..Len(L.order) /\ Len(L.order) \in Nat
      BY DEF Sorted
    <3>2. j \in 1..Len(L.order) /\ j < n
      BY <3>1
    <3>3. j \in S
      BY <3>2 DEF Sorted
    <3> QED
      BY <2>3, <3>1, <3>2, <3>3
  <2>5. k \in DOMAIN L.order /\ Finished(L, i)
    BY <2>3, <2>4 DEF Oldest
  <2>6. Evict(L) = M
    BY <1>2 DEF Evict
  <2> HIDE DEF k
  <2>7. /\ IsLedger(M) /\ M.rec = Without(L.rec, i) /\ M.order = RemoveAt(L.order, k)
        /\ M.charge = Without(L.charge, i)
    <3> DEFINE kp == SelectSeq(L.kept, LAMBDA j : j # i)
    <3>1. M = [L EXCEPT !.rec = Without(L.rec, i), !.charge = Without(L.charge, i),
                        !.order = RemoveAt(L.order, k), !.kept = kp]
      BY DEF Forget
    <3>2. IsLedger(L)
      BY DEF Shape
    <3> HIDE DEF kp, M
    <3> QED
      BY <3>1, <3>2 DEF IsLedger
  <2> HIDE DEF M
  <2>8. /\ Known(M) = Known(L) \ {i} /\ DOMAIN M.charge = DOMAIN L.charge \ {i}
        /\ M.rec \in [Known(L) \ {i} -> Entry] /\ \A j \in Known(M) : M.rec[j] = L.rec[j]
    BY <2>7 DEF Without, Known, Shape
  <2>9. Shape(M) /\ Charged(M)
    BY <2>7, <2>8 DEF Shape, Charged
  <2>10. i \in Known(L)
    BY <2>5 DEF Finished
  <2>11. Cardinality(Known(M)) < MaxEntries
    <3>1. IsFiniteSet(Known(L)) /\ Cardinality(Known(L)) \in Nat
      BY KnownIsFinite
    <3>2. Cardinality(Known(L) \ {i}) = Cardinality(Known(L)) - 1
      BY <2>10, <3>1, FS_RemoveElement
    <3> QED
      BY <2>8, <3>1, <3>2, OperationsConstants DEF Fits
  <2>12. Sorted(M)
    <3> DEFINE s == L.order
               m == RemoveAt(s, k)
               From(j) == IF j < k THEN j ELSE j + 1
    <3>1. s \in Seq(Ids) /\ k \in DOMAIN s /\ Len(s) \in Nat /\ k \in 1..Len(s)
      BY <2>5 DEF Sorted
    <3>2. /\ m \in Seq(Ids) /\ Len(m) = Len(s) - 1
          /\ \A j \in 1..(Len(s) - 1) : m[j] = IF j < k THEN s[j] ELSE s[j + 1]
      BY <3>1, RemoveAtDoes
    <3> HIDE DEF s, m
    <3>3. DOMAIN m = 1..(Len(s) - 1) /\ DOMAIN s = 1..Len(s)
      BY <3>1, <3>2
    <3>4. \A j \in DOMAIN m : From(j) \in DOMAIN s \ {k} /\ m[j] = s[From(j)]
      BY <3>1, <3>2, <3>3
    <3>5. \A j, n_1 \in DOMAIN m : From(j) = From(n_1) => j = n_1
      BY <3>1, <3>3
    <3>6. \A n_1 \in DOMAIN s \ {k} : \E j \in DOMAIN m : From(j) = n_1
      <4> SUFFICES ASSUME NEW n_1 \in DOMAIN s \ {k}
                   PROVE  \E j \in DOMAIN m : From(j) = n_1
        OBVIOUS
      <4>1. n_1 \in 1..Len(s) /\ n_1 # k
        BY <3>3
      <4>2. CASE n_1 < k
        BY <4>1, <4>2, <3>1, <3>3
      <4>3. CASE n_1 > k
        <5>1. n_1 - 1 \in DOMAIN m /\ From(n_1 - 1) = n_1
          BY <4>1, <4>3, <3>1, <3>3
        <5> QED
          BY <5>1
      <4> QED
        BY <4>1, <4>2, <4>3, <3>1
    <3> HIDE DEF From
    <3>7. /\ \A n_1 \in DOMAIN s : s[n_1] \in Known(L)
          /\ \A j \in Known(L) : \E n_1 \in DOMAIN s : s[n_1] = j
          /\ \A j, n_1 \in DOMAIN s : s[j] = s[n_1] => j = n_1
      BY DEF Sorted, Ordered, s
    <3>8. i = s[k]
      BY DEF s
    <3>9. \A j \in DOMAIN m : m[j] \in Known(M)
      BY <3>1, <3>4, <3>7, <3>8, <2>8
    <3>10. \A j \in Known(M) : \E n_1 \in DOMAIN m : m[n_1] = j
      <4> SUFFICES ASSUME NEW j \in Known(M)
                   PROVE  \E n_1 \in DOMAIN m : m[n_1] = j
        OBVIOUS
      <4>1. PICK p \in DOMAIN s : s[p] = j
        BY <3>7, <2>8
      <4>2. p # k
        BY <4>1, <3>8, <2>8
      <4>3. PICK q \in DOMAIN m : From(q) = p
        BY <4>2, <3>6
      <4> QED
        BY <4>1, <4>3, <3>4
    <3>11. \A j, n_1 \in DOMAIN m : m[j] = m[n_1] => j = n_1
      BY <3>4, <3>5, <3>7
    <3>12. M.order = m
      BY <2>7 DEF m, s
    <3> QED
      BY <3>2, <3>9, <3>10, <3>11, <3>12 DEF Sorted, Ordered
  <2>13. \A j \in Known(L) : Live(L, j) => j \in Known(M)
    BY <2>5, <2>8 DEF Live, Finished
  <2> QED
    BY <2>6, <2>8, <2>9, <2>11, <2>12, <2>13
<1> QED
  BY <1>1, <1>2

\* A new record.
LEMMA AdmitDoes ==
  ASSUME NEW L, Shape(L), Charged(L), Sorted(L), Fits(L), Cardinality(LiveIds(L)) < MaxActive,
         NEW i \in Ids \ Known(L), NEW r \in Requests, NEW kind \in {"http", "generate"},
         NEW fingerprint \in {"http", "generate"} \X Params,
         NEW M, M = Admit(L, i, r, kind, fingerprint)
  PROVE  /\ Shape(M) /\ Charged(M) /\ Sorted(M) /\ Fits(M) /\ i \in Known(M)
         /\ M.rec[i].state \in {"queued", "running"} /\ M.rec[i].by = r /\ M.rec[i].kind = kind
         /\ M.rec[i].rows = <<>>
         /\ \A j \in Known(L) : Live(L, j) => j \in Known(M)
         /\ \A j \in Known(M) : j # i => /\ j \in Known(L) /\ M.rec[j] = L.rec[j]
                                         /\ (j \in DOMAIN M.charge => j \in DOMAIN L.charge)
<1> DEFINE E == Evict(L)
           state == IF kind = "http" THEN "queued" ELSE "running"
           e == [state |-> state, by |-> r, kind |-> kind, fingerprint |-> fingerprint,
                 rows |-> <<>>, result |-> 0, error |-> FALSE]
           A == [E EXCEPT !.rec = With(E.rec, i, e), !.order = Append(E.order, i)]
<1>1. M = A
  BY DEF Admit
<1>2. /\ Shape(E) /\ Charged(E) /\ Sorted(E)
      /\ Known(E) \subseteq Known(L) /\ Cardinality(Known(E)) < MaxEntries
      /\ \A j \in Known(L) : Live(L, j) => j \in Known(E)
      /\ \A j \in Known(E) : E.rec[j] = L.rec[j]
                             /\ (j \in DOMAIN E.charge => j \in DOMAIN L.charge)
  BY EvictDoes
<1>3. state \in {"queued", "running"} /\ state \notin Terminal
  BY DEF Terminal
<1> HIDE DEF state
<1>4. e \in Entry /\ e.state = state /\ e.by = r /\ e.kind = kind /\ e.rows = <<>> /\ e.result = 0
  BY <1>3, RowsWith, OperationsConstants DEF Entry
<1> HIDE DEF e, E
<1>5. IsLedger(M) /\ M.rec = With(E.rec, i, e) /\ M.order = Append(E.order, i) /\ M.charge = E.charge
  <2>1. IsLedger(E)
    BY <1>2 DEF Shape
  <2> QED
    BY <1>1, <2>1 DEF IsLedger
<1> HIDE DEF A
<1>6. i \notin Known(E)
  BY <1>2
<1>7. /\ Known(M) = Known(E) \cup {i} /\ M.rec \in [Known(E) \cup {i} -> Entry]
      /\ M.rec[i] = e /\ \A j \in Known(E) : M.rec[j] = E.rec[j]
  BY <1>2, <1>4, <1>5, <1>6 DEF With, Known, Shape
<1>8. Shape(M)
  BY <1>2, <1>5, <1>7 DEF Shape
<1>9. Charged(M)
  <2>1. \A j \in Known(M) : M.rec[j].result > 0 => j \in DOMAIN M.charge
    <3> SUFFICES ASSUME NEW j \in Known(M), M.rec[j].result > 0
                 PROVE  j \in DOMAIN M.charge
      OBVIOUS
    <3>1. j # i
      BY <1>4, <1>7
    <3> QED
      BY <3>1, <1>2, <1>5, <1>7 DEF Charged
  <2> QED
    BY <2>1, <1>2, <1>5, <1>7 DEF Charged
<1>10. Sorted(M)
  <2> DEFINE s == E.order
             m == Append(s, i)
  <2>1. s \in Seq(Ids) /\ Len(s) \in Nat /\ DOMAIN s = 1..Len(s)
    BY <1>2 DEF Sorted
  <2>2. /\ \A n \in DOMAIN s : s[n] \in Known(E)
        /\ \A j \in Known(E) : \E n \in DOMAIN s : s[n] = j
        /\ \A j, n \in DOMAIN s : s[j] = s[n] => j = n
    BY <1>2 DEF Sorted, Ordered
  <2> HIDE DEF s
  <2>3. /\ m \in Seq(Ids) /\ DOMAIN m = DOMAIN s \cup {Len(s) + 1} /\ m[Len(s) + 1] = i
        /\ \A n \in DOMAIN s : m[n] = s[n]
    BY <2>1
  <2>4. M.order = m
    BY <1>5 DEF s
  <2> HIDE DEF m
  <2>5. \A n \in DOMAIN m : m[n] \in Known(M)
    BY <2>2, <2>3, <1>7
  <2>6. \A j \in Known(M) : \E n \in DOMAIN m : m[n] = j
    BY <2>2, <2>3, <1>7
  <2>7. \A j, n \in DOMAIN m : m[j] = m[n] => j = n
    BY <2>2, <2>3, <1>6
  <2> QED
    BY <2>3, <2>4, <2>5, <2>6, <2>7 DEF Sorted, Ordered
<1>11. Fits(M)
  <2>1. Cardinality(Known(M)) <= MaxEntries
    <3>1. IsFiniteSet(Known(E)) /\ Cardinality(Known(E)) \in Nat
      BY <1>2, KnownIsFinite
    <3>2. Cardinality(Known(E) \cup {i}) = Cardinality(Known(E)) + 1
      BY <1>6, <3>1, FS_AddElement
    <3> QED
      BY <1>2, <1>7, <3>1, <3>2, OperationsConstants
  <2>2. LiveIds(M) \subseteq LiveIds(L) \cup {i}
    BY <1>2, <1>7 DEF LiveIds, Live
  <2>3. Cardinality(LiveIds(M)) <= MaxActive
    <3>1. /\ IsFiniteSet(LiveIds(L) \cup {i})
          /\ Cardinality(LiveIds(L) \cup {i}) <= Cardinality(LiveIds(L)) + 1
      <4>1. IsFiniteSet(LiveIds(L)) /\ Cardinality(LiveIds(L)) \in Nat
        BY KnownIsFinite
      <4>2. QED
        <5>1. /\ IsFiniteSet(LiveIds(L) \cup {i})
              /\ Cardinality(LiveIds(L) \cup {i}) = IF i \in LiveIds(L) THEN Cardinality(LiveIds(L))
                                                     ELSE Cardinality(LiveIds(L)) + 1
          BY <4>1, FS_AddElement
        <5> QED
          BY <4>1, <5>1
    <3>2. Cardinality(LiveIds(M)) <= Cardinality(LiveIds(L) \cup {i})
      BY <2>2, <3>1, FS_Subset
    <3> QED
      BY <3>1, <3>2, <1>8, KnownIsFinite, FS_CardinalityType, OperationsConstants
  <2> QED
    BY <2>1, <2>3 DEF Fits
<1>12. i \in Known(M) /\ \A j \in Known(L) : Live(L, j) => j \in Known(M)
  BY <1>2, <1>7
<1>13. \A j \in Known(M) : j # i => /\ j \in Known(L) /\ M.rec[j] = L.rec[j]
                                    /\ (j \in DOMAIN M.charge => j \in DOMAIN L.charge)
  BY <1>2, <1>5, <1>7
<1>14. /\ M.rec[i].state \in {"queued", "running"} /\ M.rec[i].by = r /\ M.rec[i].kind = kind
       /\ M.rec[i].rows = <<>>
  BY <1>3, <1>4, <1>7
<1> QED
  BY <1>8, <1>9, <1>10, <1>11, <1>12, <1>13, <1>14

---------------------------------------------------------------------------
(* Steps of a request.                                                     *)

\* What a record tells of its operation, the operation being o.
RecordTells(c, o, charged) ==
  /\ o.pc # "unsent" /\ (c.kind = "generate" <=> o.mode = "ws")
  /\ c.state \in Terminal <=> o.pc = "done" /\ o.end # "unencoded"
  /\ c.state = "completed" => o.end = "completed" \/ (o.end = "left" /\ ~c.error)
  /\ c.state = "completed" /\ o.end = "left" /\ charged => DOMAIN c.rows = 1..Rows
  /\ c.state = "failed" => o.end \in {"failed", "timeout", "left"}
  /\ c.state = "interrupted" => c.error /\ (~o.ran \/ o.end = "interrupted")
  /\ c.state = "cancelled" => o.end \in {"cancelled", "left"} /\ c.kind = "generate"

Tells(O, L) ==
  \A i \in Known(L) :
    O[L.rec[i].by].id = i /\ RecordTells(L.rec[i], O[L.rec[i].by], i \in DOMAIN L.charge)

RunsOf(O, L) ==
  \A r \in Requests :
    O[r].id # None /\ O[r].pc \notin {"unsent", "done"} =>
      O[r].id \in Known(L) /\ L.rec[O[r].id].by = r /\ L.rec[O[r].id].rows = O[r].rows

Books(L) == Shape(L) /\ Charged(L) /\ Sorted(L) /\ Fits(L)

WorkTypes ==
  /\ op \in [Requests -> Operation] /\ prep \in [Preps -> Preparation]
  /\ lock \in Requests \cup Preps \cup {None} /\ gen \in Requests \cup Preps \cup {None}
  /\ server \in {"up", "joining", "stopping", "down"}
Stages == \A r \in Requests : Stage(op[r])
Work == WorkTypes /\ Stages /\ HolderInv /\ JoinInv /\ BegunIsFinished

\* The invariant, in the parts the steps are checked by.
LEMMA Parts == OperationsInv <=> Work /\ Books(ledger) /\ Tells(op, ledger) /\ RunsOf(op, ledger)
<1>1. TypeOK /\ Ordered(ledger) /\ LedgerIsBounded <=> WorkTypes /\ Books(ledger)
  BY DEF TypeOK, WorkTypes, Books, Shape, Charged, Sorted, Fits, LedgerIsBounded,
     LiveIds
<1>2. RecordsAreOwned /\ ReceiptTellsTheRun <=> Tells(op, ledger)
  BY DEF RecordsAreOwned, ReceiptTellsTheRun, Tells, RecordTells
<1>3. OneRunPerReceipt <=> RunsOf(op, ledger)
  BY DEF OneRunPerReceipt, RunsOf
<1> QED
  BY <1>1, <1>2, <1>3 DEF OperationsInv, WorkInv, ReceiptInv, Work, Stages

LEMMA PartsNext ==
  OperationsInv' <=> Work' /\ Books(ledger') /\ Tells(op', ledger') /\ RunsOf(op', ledger')
<1>1. TypeOK' /\ Ordered(ledger)' /\ LedgerIsBounded' <=> WorkTypes' /\ Books(ledger')
  BY DEF TypeOK, WorkTypes, Books, Shape, Charged, Sorted, Fits, LedgerIsBounded,
     LiveIds,
     IsLedger, Known, Live, Ordered
<1>2. RecordsAreOwned' /\ ReceiptTellsTheRun' <=> Tells(op', ledger')
  BY DEF RecordsAreOwned, ReceiptTellsTheRun, Tells, RecordTells, Known
<1>3. OneRunPerReceipt' <=> RunsOf(op', ledger')
  BY DEF OneRunPerReceipt, RunsOf, Known
<1> QED
  BY <1>1, <1>2, <1>3 DEF OperationsInv, WorkInv, ReceiptInv, Work, Stages

\* r is the only request whose operation changes.
Alone(r) ==
  /\ op' \in [Requests -> Operation]
  /\ \A q \in Requests : q # r => op'[q] = op[q]

\* A step of a running operation that writes to its own record.
LEMMA RecordStep ==
  ASSUME NEW r \in Requests, Books(ledger), Tells(op, ledger), RunsOf(op, ledger),
         op \in [Requests -> Operation], Alone(r),
         op[r].pc \notin {"unsent", "done"}, op'[r].id = op[r].id,
         Kept(ledger', ledger, op[r].id),
         op[r].id # None =>
           /\ RecordTells(ledger'.rec[op[r].id], op'[r], op[r].id \in DOMAIN ledger'.charge)
           /\ op'[r].pc # "done" => ledger'.rec[op[r].id].rows = op'[r].rows
  PROVE  Books(ledger') /\ Tells(op', ledger') /\ RunsOf(op', ledger')
<1> DEFINE L == ledger  M == ledger'  O == op  N == op'  i == op[r].id
<1>1. Books(M)
  BY KeptFits DEF Books, Kept
<1>2. /\ Known(M) = Known(L) /\ \A j \in Known(L) : M.rec[j].by = L.rec[j].by
      /\ \A j \in Known(L) : M.rec[j].kind = L.rec[j].kind
      /\ \A j \in Known(L) : j # i => SameRecord(M, L, j)
  BY DEF Kept
<1>3. i # None => i \in Known(L) /\ L.rec[i].by = r
  BY DEF RunsOf
<1>4. \A j \in Known(L) : L.rec[j].by \in Requests
  BY EntryFields DEF Books, Shape
<1>5. ASSUME NEW j \in Known(M)
      PROVE  N[M.rec[j].by].id = j /\ RecordTells(M.rec[j], N[M.rec[j].by], j \in DOMAIN M.charge)
  <2>1. /\ j \in Known(L) /\ M.rec[j].by = L.rec[j].by /\ L.rec[j].by \in Requests
        /\ O[L.rec[j].by].id = j
        /\ RecordTells(L.rec[j], O[L.rec[j].by], j \in DOMAIN L.charge)
    BY <1>2, <1>4 DEF Tells
  <2>2. CASE L.rec[j].by = r
    <3>1. j = i /\ i # None
      BY <2>1, <2>2, OperationsConstants DEF Books, Shape
    <3> QED
      BY <2>1, <2>2, <3>1
  <2>3. CASE L.rec[j].by # r
    <3>1. N[L.rec[j].by] = O[L.rec[j].by]
      BY <2>1, <2>3 DEF Alone
    <3>2. j # i
      BY <1>3, <2>3, <2>1, OperationsConstants DEF Books, Shape
    <3>3. SameRecord(M, L, j) /\ M.rec[j].kind = L.rec[j].kind
      BY <1>2, <2>1, <3>2
    <3>4. RecordTells(M.rec[j], O[L.rec[j].by], j \in DOMAIN M.charge)
      <4> DEFINE o == O[L.rec[j].by]
      <4> HIDE DEF o
      <4>1. RecordTells(L.rec[j], o, j \in DOMAIN L.charge)
        BY <2>1 DEF o
      <4>2. RecordTells(M.rec[j], o, j \in DOMAIN M.charge)
        BY <4>1, <3>3 DEF RecordTells, SameRecord
      <4> QED
        BY <4>2 DEF o
    <3> QED
      BY <2>1, <3>1, <3>4
  <2> QED
    BY <2>2, <2>3
<1>6. ASSUME NEW q \in Requests, N[q].id # None, N[q].pc \notin {"unsent", "done"}
      PROVE  N[q].id \in Known(M) /\ M.rec[N[q].id].by = q /\ M.rec[N[q].id].rows = N[q].rows
  <2>1. CASE q = r
    BY <2>1, <1>2, <1>3, <1>6
  <2>2. CASE q # r
    <3> DEFINE j == O[q].id
    <3>1. N[q] = O[q]
      BY <2>2 DEF Alone
    <3>2. j \in Known(L) /\ L.rec[j].by = q /\ L.rec[j].rows = O[q].rows
      BY <1>6, <3>1 DEF RunsOf
    <3>3. j # i
      BY <1>3, <1>6, <2>2, <3>1, <3>2
    <3>4. Live(L, j)
      <4>1. RecordTells(L.rec[j], O[q], j \in DOMAIN L.charge)
        BY <3>2 DEF Tells
      <4>2. O[q].pc # "done"
        BY <1>6, <3>1
      <4> QED
        BY <3>2, <4>1, <4>2 DEF RecordTells, Live
    <3> QED
      BY <1>2, <3>1, <3>2, <3>3, <3>4 DEF SameRecord
  <2> QED
    BY <2>1, <2>2
<1>7. Tells(N, M) /\ RunsOf(N, M)
  BY <1>5, <1>6 DEF Tells, RunsOf
<1> QED
  BY <1>1, <1>7

\* A step of a request whose server has not joined the operations yet.
LEMMA WorkStep ==
  ASSUME NEW r \in Requests, Work, Alone(r), Stage(op'[r]), UNCHANGED <<prep, server>>,
         server \notin {"stopping", "down"},
         lock' = lock \/ {lock, lock'} \subseteq {None, r},
         gen' = gen \/ {gen, gen'} \subseteq {None, r},
         op'[r].pc \in {"held", "working", "row", "generating", "send"} <=> lock' = r,
         op'[r].pc \in {"working", "generating"} <=> gen' = r,
         op'[r].end = "cancelled" /\ op'[r].mode # "ws" =>
           ~op'[r].ran /\ (op'[r].id = None \/ server # "up")
  PROVE  Work'
<1>1. WorkTypes'
  BY DEF Work, WorkTypes, Alone
<1>2. Stages'
  BY DEF Work, Stages, Alone
<1>3. HolderInv'
  <2> SUFFICES ASSUME NEW x \in Requests \cup Preps
               PROVE  (HoldsLock(x)' <=> lock' = x) /\ (HoldsModel(x)' <=> gen' = x)
    BY DEF HolderInv
  <2>0. x # None /\ r # None /\ (x \in Requests => x \notin Preps)
    BY OperationsConstants
  <2>1. CASE x = r
    BY <2>0, <2>1 DEF HoldsLock, HoldsModel
  <2>2. CASE x # r
    <3>1. (HoldsLock(x)' <=> HoldsLock(x)) /\ (HoldsModel(x)' <=> HoldsModel(x))
      BY <2>2 DEF HoldsLock, HoldsModel, Alone
    <3>2. (lock' = x <=> lock = x) /\ (gen' = x <=> gen = x)
      BY <2>0, <2>2
    <3> QED
      BY <3>1, <3>2 DEF Work, HolderInv
  <2> QED
    BY <2>1, <2>2
<1>4. JoinInv'
  BY DEF Work, JoinInv
<1>5. BegunIsFinished'
  BY DEF Work, BegunIsFinished, Http, Alone
<1> QED
  BY <1>1, <1>2, <1>3, <1>4, <1>5 DEF Work

\* What is known of a running operation before its step.
LEMMA Running ==
  ASSUME Work, NEW r \in Requests, op[r].pc \notin {"unsent", "done"}
  PROVE  /\ server \notin {"stopping", "down"} /\ op[r] \in Operation /\ Stage(op[r])
         /\ op[r].id \in Ids \cup {None} /\ op[r].rows \in Seq(Outcomes)
         /\ (op[r].pc \in {"held", "working", "row", "generating", "send"} <=> lock = r)
         /\ (op[r].pc \in {"working", "generating"} <=> gen = r)
<1>1. server \notin {"stopping", "down"}
  BY DEF Work, JoinInv, Joined
<1>2. op[r] \in Operation /\ Stage(op[r])
  BY DEF Work, WorkTypes, Stages
<1>3. /\ op[r].pc \in {"held", "working", "row", "generating", "send"} <=> lock = r
      /\ op[r].pc \in {"working", "generating"} <=> gen = r
  BY OperationsConstants DEF Work, HolderInv, HoldsLock, HoldsModel
<1> QED
  BY <1>1, <1>2, <1>3 DEF Operation

\* And of its record.
LEMMA RunningRecord ==
  ASSUME op \in [Requests -> Operation], Books(ledger), Tells(op, ledger), RunsOf(op, ledger),
         NEW r \in Requests, op[r].pc \notin {"unsent", "done"}, op[r].id # None
  PROVE  /\ op[r].id \in Known(ledger) /\ Live(ledger, op[r].id)
         /\ ledger.rec[op[r].id] \in Entry /\ ledger.rec[op[r].id].rows = op[r].rows
         /\ RecordTells(ledger.rec[op[r].id], op[r], op[r].id \in DOMAIN ledger.charge)
<1>1. op[r].id \in Known(ledger) /\ ledger.rec[op[r].id].by = r
      /\ ledger.rec[op[r].id].rows = op[r].rows
  BY DEF RunsOf
<1>2. RecordTells(ledger.rec[op[r].id], op[r], op[r].id \in DOMAIN ledger.charge)
  BY <1>1 DEF Tells
<1> QED
  BY <1>1, <1>2 DEF RecordTells, Live, Books, Shape

\* An operation is over.
LEMMA OverDoes ==
  ASSUME op \in [Requests -> Operation], NEW r \in Requests, NEW how \in Ends, End(r, how)
  PROVE  /\ Alone(r)
         /\ op'[r].pc = "done" /\ op'[r].end = how /\ op'[r].rows = <<>>
         /\ op'[r].mode = op[r].mode /\ op'[r].id = op[r].id /\ op'[r].ran = op[r].ran
         /\ Stage(op'[r])
<1> DEFINE o == Over(r, how)
<1>1. op' = [op EXCEPT ![r] = o]
  BY DEF End
<1>2. op[r] \in Operation
  OBVIOUS
<1>3. /\ o.pc = "done" /\ o.end = how /\ o.rows = <<>>
      /\ o.mode = op[r].mode /\ o.id = op[r].id /\ o.ran = op[r].ran
  BY DEF Over, Unsent
<1>4. o \in Operation
  <2>1. <<>> \in Seq(Outcomes)
    BY EmptySeq
  <2>2. op[r].mode \in {"sse", "json", "ws"} /\ op[r].id \in Ids \cup {None} /\ op[r].ran \in BOOLEAN
    BY <1>2 DEF Operation
  <2> QED
    BY <2>1, <2>2 DEF Over, Unsent, Operation
<1> HIDE DEF o
<1>5. op' \in [Requests -> Operation] /\ op'[r] = o
      /\ \A q \in Requests : q # r => op'[q] = op[q]
  BY <1>1, <1>4
<1>6. Stage(o)
  BY <1>3, OperationsConstants DEF Stage
<1> QED
  BY <1>3, <1>5, <1>6 DEF Alone

\* The job takes the model.
LEMMA TakesModelKeeps ==
  ASSUME OperationsInv, NEW r \in Requests, TakesModel(r)
  PROVE  OperationsInv'
<1>0. Work /\ Books(ledger) /\ Tells(op, ledger) /\ RunsOf(op, ledger)
      /\ op \in [Requests -> Operation] /\ Shape(ledger) /\ Charged(ledger)
  BY Parts DEF Books, Work, WorkTypes
<1>1. /\ op[r].pc = "held"
      /\ op' = [op EXCEPT ![r] = [op[r] EXCEPT !.pc = "working"]]
      /\ UNCHANGED <<prep, server>> /\ lock' = lock /\ gen = None /\ gen' = r
  BY <1>0 DEF TakesModel, At
<1>2. op[r].pc \notin {"unsent", "done"}
  BY <1>1
<1>3. /\ server \notin {"stopping", "down"} /\ op[r] \in Operation /\ Stage(op[r])
      /\ op[r].rows \in Seq(Outcomes) /\ op[r].id \in Ids \cup {None}
      /\ (op[r].pc \in {"held", "working", "row", "generating", "send"} <=> lock = r)
      /\ (op[r].pc \in {"working", "generating"} <=> gen = r)
  BY <1>0, <1>2, Running
<1>4. LET o == [op[r] EXCEPT !.pc = "working"] IN
      /\ o \in Operation /\ o.id = op[r].id /\ o.mode = op[r].mode /\ o.end = op[r].end
      /\ o.pc = "working" /\ o.rows = op[r].rows /\ o.ran = op[r].ran
  BY <1>1, <1>3 DEF Operation
<1> DEFINE o == [op[r] EXCEPT !.pc = "working"]
<1>5. /\ op' = [op EXCEPT ![r] = o] /\ o \in Operation
      /\ o.id = op[r].id /\ o.mode = op[r].mode /\ o.end = op[r].end
      /\ o.pc = "working" /\ o.rows = op[r].rows /\ o.ran = op[r].ran
  BY <1>1, <1>4
<1> HIDE DEF o
<1>6. Alone(r) /\ op'[r] = o
  BY <1>0, <1>5 DEF Alone
<1>7. Stage(op'[r])
  BY <1>1, <1>3, <1>5, <1>6, OperationsConstants DEF Stage
<1>8. Work'
  <2>1. o.end # "cancelled"
    BY <1>1, <1>3, <1>5, OperationsConstants DEF Stage, Ends, Operation
  <2> QED
    BY <1>0, <1>1, <1>3, <1>5, <1>6, <1>7, <2>1, OperationsConstants, WorkStep
<1>9. Books(ledger') /\ Tells(op', ledger') /\ RunsOf(op', ledger')
  <2>1. ledger' = ledger
    BY DEF TakesModel
  <2>2. Kept(ledger', ledger, op[r].id)
    BY <1>0, <2>1, KeptByNobody
  <2>3. op[r].id # None =>
          /\ ledger.rec[op[r].id].rows = op[r].rows /\ Live(ledger, op[r].id)
          /\ RecordTells(ledger.rec[op[r].id], op[r], op[r].id \in DOMAIN ledger.charge)
    BY <1>0, <1>2, RunningRecord
  <2>4. op[r].id # None =>
          RecordTells(ledger.rec[op[r].id], o, op[r].id \in DOMAIN ledger.charge)
    BY <2>3, <1>1, <1>5 DEF RecordTells, Live, Terminal
  <2> QED
    BY <1>0, <1>2, <1>5, <1>6, <2>1, <2>2, <2>3, <2>4, RecordStep
<1> QED
  BY <1>8, <1>9, PartsNext

\* A fan gets the lock.
LEMMA FanStartsKeeps ==
  ASSUME OperationsInv, NEW r \in Requests, FanStarts(r)
  PROVE  OperationsInv'
<1>0. Work /\ Books(ledger) /\ Tells(op, ledger) /\ RunsOf(op, ledger)
      /\ op \in [Requests -> Operation] /\ Shape(ledger) /\ Charged(ledger)
  BY Parts DEF Books, Work, WorkTypes
<1>1. /\ op[r].pc = "queued" /\ op[r].mode = "ws"
      /\ op' = [op EXCEPT ![r] = [op[r] EXCEPT !.pc = "row"]]
      /\ UNCHANGED <<prep, server>> /\ gen' = gen /\ lock = None /\ lock' = r
  BY <1>0 DEF FanStarts, At, Granted, Http
<1>2. op[r].pc \notin {"unsent", "done"}
  BY <1>1
<1>3. /\ server \notin {"stopping", "down"} /\ op[r] \in Operation /\ Stage(op[r])
      /\ op[r].rows \in Seq(Outcomes) /\ op[r].id \in Ids \cup {None}
      /\ (op[r].pc \in {"held", "working", "row", "generating", "send"} <=> lock = r)
      /\ (op[r].pc \in {"working", "generating"} <=> gen = r)
  BY <1>0, <1>2, Running
<1>4. LET o == [op[r] EXCEPT !.pc = "row"] IN
      /\ o \in Operation /\ o.id = op[r].id /\ o.mode = op[r].mode /\ o.end = op[r].end
      /\ o.pc = "row" /\ o.rows = op[r].rows /\ o.ran = op[r].ran
  BY <1>1, <1>3 DEF Operation
<1> DEFINE o == [op[r] EXCEPT !.pc = "row"]
<1>5. /\ op' = [op EXCEPT ![r] = o] /\ o \in Operation
      /\ o.id = op[r].id /\ o.mode = op[r].mode /\ o.end = op[r].end
      /\ o.pc = "row" /\ o.rows = op[r].rows /\ o.ran = op[r].ran
  BY <1>1, <1>4
<1> HIDE DEF o
<1>6. Alone(r) /\ op'[r] = o
  BY <1>0, <1>5 DEF Alone
<1>7. Stage(op'[r])
  BY <1>1, <1>3, <1>5, <1>6, OperationsConstants DEF Stage
<1>8. Work'
  <2>1. o.end # "cancelled"
    BY <1>1, <1>3, <1>5, OperationsConstants DEF Stage, Ends, Operation
  <2> QED
    BY <1>0, <1>1, <1>3, <1>5, <1>6, <1>7, <2>1, OperationsConstants, WorkStep
<1>9. Books(ledger') /\ Tells(op', ledger') /\ RunsOf(op', ledger')
  <2>1. ledger' = ledger
    BY DEF FanStarts
  <2>2. Kept(ledger', ledger, op[r].id)
    BY <1>0, <2>1, KeptByNobody
  <2>3. op[r].id # None =>
          /\ ledger.rec[op[r].id].rows = op[r].rows /\ Live(ledger, op[r].id)
          /\ RecordTells(ledger.rec[op[r].id], op[r], op[r].id \in DOMAIN ledger.charge)
    BY <1>0, <1>2, RunningRecord
  <2>4. op[r].id # None =>
          RecordTells(ledger.rec[op[r].id], o, op[r].id \in DOMAIN ledger.charge)
    BY <2>3, <1>1, <1>5 DEF RecordTells, Live, Terminal
  <2> QED
    BY <1>0, <1>2, <1>5, <1>6, <2>1, <2>2, <2>3, <2>4, RecordStep
<1> QED
  BY <1>8, <1>9, PartsNext

\* A row takes the model.
LEMMA RowStartsKeeps ==
  ASSUME OperationsInv, NEW r \in Requests, RowStarts(r)
  PROVE  OperationsInv'
<1>0. Work /\ Books(ledger) /\ Tells(op, ledger) /\ RunsOf(op, ledger)
      /\ op \in [Requests -> Operation] /\ Shape(ledger) /\ Charged(ledger)
  BY Parts DEF Books, Work, WorkTypes
<1>1. /\ op[r].pc = "row"
      /\ op' = [op EXCEPT ![r] = [op[r] EXCEPT !.pc = "generating", !.ran = TRUE]]
      /\ UNCHANGED <<prep, server>> /\ lock' = lock /\ gen = None /\ gen' = r
  BY <1>0 DEF RowStarts, At
<1>2. op[r].pc \notin {"unsent", "done"}
  BY <1>1
<1>3. /\ server \notin {"stopping", "down"} /\ op[r] \in Operation /\ Stage(op[r])
      /\ op[r].rows \in Seq(Outcomes) /\ op[r].id \in Ids \cup {None}
      /\ (op[r].pc \in {"held", "working", "row", "generating", "send"} <=> lock = r)
      /\ (op[r].pc \in {"working", "generating"} <=> gen = r)
  BY <1>0, <1>2, Running
<1>4. LET o == [op[r] EXCEPT !.pc = "generating", !.ran = TRUE] IN
      /\ o \in Operation /\ o.id = op[r].id /\ o.mode = op[r].mode /\ o.end = op[r].end
      /\ o.pc = "generating" /\ o.rows = op[r].rows /\ o.ran = TRUE
  BY <1>1, <1>3 DEF Operation
<1> DEFINE o == [op[r] EXCEPT !.pc = "generating", !.ran = TRUE]
<1>5. /\ op' = [op EXCEPT ![r] = o] /\ o \in Operation
      /\ o.id = op[r].id /\ o.mode = op[r].mode /\ o.end = op[r].end
      /\ o.pc = "generating" /\ o.rows = op[r].rows /\ o.ran = TRUE
  BY <1>1, <1>4
<1> HIDE DEF o
<1>6. Alone(r) /\ op'[r] = o
  BY <1>0, <1>5 DEF Alone
<1>7. Stage(op'[r])
  BY <1>1, <1>3, <1>5, <1>6, OperationsConstants DEF Stage
<1>8. Work'
  <2>1. o.end # "cancelled"
    BY <1>1, <1>3, <1>5, OperationsConstants DEF Stage, Ends, Operation
  <2> QED
    BY <1>0, <1>1, <1>3, <1>5, <1>6, <1>7, <2>1, OperationsConstants, WorkStep
<1>9. Books(ledger') /\ Tells(op', ledger') /\ RunsOf(op', ledger')
  <2>1. ledger' = ledger
    BY DEF RowStarts
  <2>2. Kept(ledger', ledger, op[r].id)
    BY <1>0, <2>1, KeptByNobody
  <2>3. op[r].id # None =>
          /\ ledger.rec[op[r].id].rows = op[r].rows /\ Live(ledger, op[r].id)
          /\ RecordTells(ledger.rec[op[r].id], op[r], op[r].id \in DOMAIN ledger.charge)
    BY <1>0, <1>2, RunningRecord
  <2>4. op[r].id # None =>
          RecordTells(ledger.rec[op[r].id], o, op[r].id \in DOMAIN ledger.charge)
    BY <2>3, <1>1, <1>5 DEF RecordTells, Live, Terminal
  <2> QED
    BY <1>0, <1>2, <1>5, <1>6, <2>1, <2>2, <2>3, <2>4, RecordStep
<1> QED
  BY <1>8, <1>9, PartsNext

\* The client asks the fan to stop.
LEMMA ClientStopsKeeps ==
  ASSUME OperationsInv, NEW r \in Requests, ClientStops(r)
  PROVE  OperationsInv'
<1>0. Work /\ Books(ledger) /\ Tells(op, ledger) /\ RunsOf(op, ledger)
      /\ op \in [Requests -> Operation] /\ Shape(ledger) /\ Charged(ledger)
  BY Parts DEF Books, Work, WorkTypes
<1>1. /\ op[r].pc = "generating"
      /\ op' = [op EXCEPT ![r] = [op[r] EXCEPT !.stopped = TRUE]]
      /\ UNCHANGED <<prep, server>> /\ lock' = lock /\ gen' = gen
  BY <1>0 DEF ClientStops, At
<1>2. op[r].pc \notin {"unsent", "done"}
  BY <1>1
<1>3. /\ server \notin {"stopping", "down"} /\ op[r] \in Operation /\ Stage(op[r])
      /\ op[r].rows \in Seq(Outcomes) /\ op[r].id \in Ids \cup {None}
      /\ (op[r].pc \in {"held", "working", "row", "generating", "send"} <=> lock = r)
      /\ (op[r].pc \in {"working", "generating"} <=> gen = r)
  BY <1>0, <1>2, Running
<1>4. LET o == [op[r] EXCEPT !.stopped = TRUE] IN
      /\ o \in Operation /\ o.id = op[r].id /\ o.mode = op[r].mode /\ o.end = op[r].end
      /\ o.pc = "generating" /\ o.rows = op[r].rows /\ o.ran = op[r].ran
  BY <1>1, <1>3 DEF Operation
<1> DEFINE o == [op[r] EXCEPT !.stopped = TRUE]
<1>5. /\ op' = [op EXCEPT ![r] = o] /\ o \in Operation
      /\ o.id = op[r].id /\ o.mode = op[r].mode /\ o.end = op[r].end
      /\ o.pc = "generating" /\ o.rows = op[r].rows /\ o.ran = op[r].ran
  BY <1>1, <1>4
<1> HIDE DEF o
<1>6. Alone(r) /\ op'[r] = o
  BY <1>0, <1>5 DEF Alone
<1>7. Stage(op'[r])
  BY <1>1, <1>3, <1>5, <1>6, OperationsConstants DEF Stage
<1>8. Work'
  <2>1. o.end # "cancelled"
    BY <1>1, <1>3, <1>5, OperationsConstants DEF Stage, Ends, Operation
  <2> QED
    BY <1>0, <1>1, <1>3, <1>5, <1>6, <1>7, <2>1, OperationsConstants, WorkStep
<1>9. Books(ledger') /\ Tells(op', ledger') /\ RunsOf(op', ledger')
  <2>1. ledger' = ledger
    BY DEF ClientStops
  <2>2. Kept(ledger', ledger, op[r].id)
    BY <1>0, <2>1, KeptByNobody
  <2>3. op[r].id # None =>
          /\ ledger.rec[op[r].id].rows = op[r].rows /\ Live(ledger, op[r].id)
          /\ RecordTells(ledger.rec[op[r].id], op[r], op[r].id \in DOMAIN ledger.charge)
    BY <1>0, <1>2, RunningRecord
  <2>4. op[r].id # None =>
          RecordTells(ledger.rec[op[r].id], o, op[r].id \in DOMAIN ledger.charge)
    BY <2>3, <1>1, <1>5 DEF RecordTells, Live, Terminal
  <2> QED
    BY <1>0, <1>2, <1>5, <1>6, <2>1, <2>2, <2>3, <2>4, RecordStep
<1> QED
  BY <1>8, <1>9, PartsNext

\* The job of an HTTP request gets the lock.
LEMMA StartsKeeps ==
  ASSUME OperationsInv, NEW r \in Requests, Starts(r)
  PROVE  OperationsInv'
<1>0. Work /\ Books(ledger) /\ Tells(op, ledger) /\ RunsOf(op, ledger)
      /\ op \in [Requests -> Operation] /\ Shape(ledger) /\ Charged(ledger)
  BY Parts DEF Books, Work, WorkTypes
<1>1. /\ op[r].pc = "queued" /\ op[r].mode # "ws"
      /\ op' = [op EXCEPT ![r] = [op[r] EXCEPT !.pc = "held", !.ran = TRUE]]
      /\ UNCHANGED <<prep, server>> /\ gen' = gen /\ lock = None /\ lock' = r
  BY <1>0 DEF Starts, At, Granted, Http
<1>2. op[r].pc \notin {"unsent", "done"}
  BY <1>1
<1>3. /\ server \notin {"stopping", "down"} /\ op[r] \in Operation /\ Stage(op[r])
      /\ op[r].rows \in Seq(Outcomes) /\ op[r].id \in Ids \cup {None}
      /\ (op[r].pc \in {"held", "working", "row", "generating", "send"} <=> lock = r)
      /\ (op[r].pc \in {"working", "generating"} <=> gen = r)
  BY <1>0, <1>2, Running
<1>4. LET o == [op[r] EXCEPT !.pc = "held", !.ran = TRUE] IN
      /\ o \in Operation /\ o.id = op[r].id /\ o.mode = op[r].mode /\ o.end = op[r].end
      /\ o.pc = "held" /\ o.rows = op[r].rows /\ o.ran = TRUE
  BY <1>1, <1>3 DEF Operation
<1> DEFINE o == [op[r] EXCEPT !.pc = "held", !.ran = TRUE]
<1>5. /\ op' = [op EXCEPT ![r] = o] /\ o \in Operation
      /\ o.id = op[r].id /\ o.mode = op[r].mode /\ o.end = op[r].end
      /\ o.pc = "held" /\ o.rows = op[r].rows /\ o.ran = TRUE
  BY <1>1, <1>4
<1> HIDE DEF o
<1>6. Alone(r) /\ op'[r] = o
  BY <1>0, <1>5 DEF Alone
<1>7. Stage(op'[r])
  BY <1>1, <1>3, <1>5, <1>6, OperationsConstants DEF Stage
<1>8. Work'
  <2>1. o.end # "cancelled"
    BY <1>1, <1>3, <1>5, OperationsConstants DEF Stage, Ends, Operation
  <2> QED
    BY <1>0, <1>1, <1>3, <1>5, <1>6, <1>7, <2>1, OperationsConstants, WorkStep
<1>9. Books(ledger') /\ Tells(op', ledger') /\ RunsOf(op', ledger')
  <2> DEFINE i == op[r].id
  <2>1. ledger' = Settle(ledger, i, "running")
    BY DEF Starts
  <2>2. "running" \in States /\ "running" \notin Terminal
    BY DEF States, Terminal
  <2>3. /\ Kept(ledger', ledger, i) /\ ledger'.charge = ledger.charge
        /\ i \in Known(ledger) =>
             /\ ledger'.rec[i].state = IF Live(ledger, i) THEN "running" ELSE ledger.rec[i].state
             /\ ledger'.rec[i].rows = ledger.rec[i].rows
        /\ i \in Known(ledger) => ledger'.rec[i].kind = ledger.rec[i].kind
    BY <1>0, <2>1, <2>2, SettleDoes DEF Kept
  <2>4. i # None =>
          /\ i \in Known(ledger) /\ Live(ledger, i)
          /\ ledger.rec[i] \in Entry /\ ledger.rec[i].rows = op[r].rows
          /\ RecordTells(ledger.rec[i], op[r], i \in DOMAIN ledger.charge)
    BY <1>0, <1>2, RunningRecord
  <2>5. ASSUME i # None
        PROVE  /\ RecordTells(ledger'.rec[i], o, i \in DOMAIN ledger'.charge)
               /\ ledger'.rec[i].rows = o.rows
    <3> DEFINE c == ledger'.rec[i]
    <3>1. /\ c.state = "running" /\ c.rows = ledger.rec[i].rows /\ c.kind = ledger.rec[i].kind
      BY <2>3, <2>4, <2>5
    <3> HIDE DEF c
    <3>2. RecordTells(c, o, i \in DOMAIN ledger'.charge)
      BY <1>1, <1>5, <2>2, <2>4, <2>5, <3>1 DEF RecordTells, Terminal
    <3> QED
      BY <1>5, <2>4, <2>5, <3>1, <3>2 DEF c
  <2> QED
    BY <1>0, <1>2, <1>5, <1>6, <2>3, <2>5, RecordStep
<1> QED
  BY <1>8, <1>9, PartsNext

\* A row ends and is recorded.
LEMMA RowEndsKeeps ==
  ASSUME OperationsInv, NEW r \in Requests, NEW reason \in {"stop", "length"}, RowEnds(r, reason)
  PROVE  OperationsInv'
<1>0. Work /\ Books(ledger) /\ Tells(op, ledger) /\ RunsOf(op, ledger)
      /\ op \in [Requests -> Operation] /\ Shape(ledger) /\ Charged(ledger)
  BY Parts DEF Books, Work, WorkTypes
<1>1. /\ op[r].pc = "generating"
      /\ op' = [op EXCEPT ![r] = [op[r] EXCEPT !.pc = "send", !.rows = Append(op[r].rows, Reported(r, reason))]]
      /\ UNCHANGED <<prep, server>> /\ lock' = lock /\ gen' = None
  BY <1>0 DEF RowEnds, At
<1>2. op[r].pc \notin {"unsent", "done"}
  BY <1>1
<1>3. /\ server \notin {"stopping", "down"} /\ op[r] \in Operation /\ Stage(op[r])
      /\ op[r].rows \in Seq(Outcomes) /\ op[r].id \in Ids \cup {None}
      /\ (op[r].pc \in {"held", "working", "row", "generating", "send"} <=> lock = r)
      /\ (op[r].pc \in {"working", "generating"} <=> gen = r)
  BY <1>0, <1>2, Running
<1>10. /\ Reported(r, reason) \in Outcomes
       /\ Append(op[r].rows, Reported(r, reason)) \in Seq(Outcomes)
       /\ Len(Append(op[r].rows, Reported(r, reason))) = Len(op[r].rows) + 1
       /\ Append(op[r].rows, Reported(r, reason)) # <<>>
       /\ Len(op[r].rows) \in Nat
  <2>1. Reported(r, reason) \in Outcomes
    BY DEF Reported, Outcomes
  <2> QED
    BY <1>3, <2>1
<1>4. LET o == [op[r] EXCEPT !.pc = "send", !.rows = Append(op[r].rows, Reported(r, reason))] IN
      /\ o \in Operation /\ o.id = op[r].id /\ o.mode = op[r].mode /\ o.end = op[r].end
      /\ o.pc = "send" /\ o.rows = Append(op[r].rows, Reported(r, reason)) /\ o.ran = op[r].ran
  BY <1>1, <1>3, <1>10 DEF Operation
<1> DEFINE o == [op[r] EXCEPT !.pc = "send", !.rows = Append(op[r].rows, Reported(r, reason))]
<1>5. /\ op' = [op EXCEPT ![r] = o] /\ o \in Operation
      /\ o.id = op[r].id /\ o.mode = op[r].mode /\ o.end = op[r].end
      /\ o.pc = "send" /\ o.rows = Append(op[r].rows, Reported(r, reason)) /\ o.ran = op[r].ran
  BY <1>1, <1>4
<1> HIDE DEF o
<1>6. Alone(r) /\ op'[r] = o
  BY <1>0, <1>5 DEF Alone
<1>7. Stage(op'[r])
  BY <1>1, <1>3, <1>5, <1>6, <1>10, OperationsConstants DEF Stage
<1>8. Work'
  <2>1. o.end # "cancelled"
    BY <1>1, <1>3, <1>5, OperationsConstants DEF Stage, Ends, Operation
  <2> QED
    BY <1>0, <1>1, <1>3, <1>5, <1>6, <1>7, <2>1, OperationsConstants, WorkStep
<1>9. Books(ledger') /\ Tells(op', ledger') /\ RunsOf(op', ledger')
  <2> DEFINE i == op[r].id
             row == Row(r)
             how == Reported(r, reason)
  <2>1. ledger' = ObserveRow(ledger, i, row, how)
    BY DEF RowEnds
  <2>2. row = Len(op[r].rows) + 1 /\ row \in 1..Rows /\ how \in Outcomes
    BY <1>1, <1>3, OperationsConstants DEF Row, Reported, Outcomes, Stage
  <2>0. op[r].rows \in Seq(Outcomes) /\ o.rows = Append(op[r].rows, how)
    BY <1>3, <1>5
  <2> HIDE DEF row, how
  <2>3. /\ Kept(ledger', ledger, i)
        /\ i \in Known(ledger) =>
             /\ ledger'.rec[i].rows = With(ledger.rec[i].rows, row, how)
             /\ ledger'.rec[i].state = ledger.rec[i].state
    <3> HIDE DEF i
    <3> QED
      <4>1. Shape(ledger) /\ Charged(ledger) /\ row \in 1..Rows /\ how \in Outcomes
        BY <1>0, <2>2
      <4>2. \A M : M = ObserveRow(ledger, i, row, how) => Kept(M, ledger, i)
        BY <4>1, ObserveRowDoes
      <4>3. \A M : M = ObserveRow(ledger, i, row, how) /\ i \in Known(ledger) =>
              M.rec[i].state = ledger.rec[i].state
        BY <4>1, ObserveRowDoes
      <4>4. \A M : M = ObserveRow(ledger, i, row, how) /\ i \in Known(ledger) =>
              M.rec[i].rows = With(ledger.rec[i].rows, row, how)
        BY <4>1, ObserveRowDoes
      <4> QED
        BY <4>2, <4>3, <4>4, <2>1
  <2>6. i \in Known(ledger) => ledger'.rec[i].kind = ledger.rec[i].kind
    BY <2>3 DEF Kept
  <2>4. i # None =>
          /\ i \in Known(ledger) /\ Live(ledger, i)
          /\ ledger.rec[i] \in Entry /\ ledger.rec[i].rows = op[r].rows
          /\ RecordTells(ledger.rec[i], op[r], i \in DOMAIN ledger.charge)
    BY <1>0, <1>2, RunningRecord
  <2>5. ASSUME i # None
        PROVE  /\ RecordTells(ledger'.rec[i], o, i \in DOMAIN ledger'.charge)
               /\ ledger'.rec[i].rows = o.rows
    <3> DEFINE c == ledger'.rec[i]
               rows == With(ledger.rec[i].rows, row, how)
    <3>1. rows = Append(op[r].rows, how)
      BY <2>0, <2>2, <2>4, <2>5, SMTT(30) DEF With
    <3> HIDE DEF rows
    <3>2. /\ c.rows = rows /\ c.kind = ledger.rec[i].kind /\ c.state = ledger.rec[i].state
      BY <2>3, <2>4, <2>5, <2>6 DEF rows
    <3> HIDE DEF c
    <3>3. RecordTells(c, o, i \in DOMAIN ledger'.charge)
      BY <1>1, <1>5, <2>4, <2>5, <3>2 DEF RecordTells, Live, Terminal
    <3> QED
      BY <2>0, <3>1, <3>2, <3>3 DEF c
  <2> QED
    BY <1>0, <1>2, <1>5, <1>6, <2>3, <2>5, RecordStep
<1> QED
  BY <1>8, <1>9, PartsNext

---------------------------------------------------------------------------
(* Operations that end.                                                    *)

\* An operation that ends leaves its record as it says.
LEMMA EndStep ==
  ASSUME OperationsInv, NEW r \in Requests, op[r].pc \notin {"unsent", "done"},
         NEW how \in Ends, End(r, how), UNCHANGED <<prep, server>>,
         lock' = lock \/ {lock, lock'} \subseteq {None, r},
         gen' = gen \/ {gen, gen'} \subseteq {None, r}, lock' # r, gen' # r,
         how = "cancelled" /\ op[r].mode # "ws" =>
           ~op[r].ran /\ (op[r].id = None \/ server # "up"),
         Kept(ledger', ledger, op[r].id),
         op[r].id # None =>
           LET c == ledger'.rec[op[r].id] IN
           /\ c.state \in Terminal <=> how # "unencoded"
           /\ c.state = "interrupted" => how = "interrupted" /\ c.error
           /\ c.state = "completed" => how = "completed" \/ (how = "left" /\ ~c.error)
           /\ c.state = "completed" /\ how = "left" => DOMAIN c.rows = 1..Rows
           /\ c.state = "failed" => how \in {"failed", "timeout", "left"}
           /\ c.state = "cancelled" => how \in {"cancelled", "left"} /\ op[r].mode = "ws"
  PROVE  OperationsInv'
<1>0. Work /\ Books(ledger) /\ Tells(op, ledger) /\ RunsOf(op, ledger)
      /\ op \in [Requests -> Operation]
  BY Parts DEF Work, WorkTypes
<1>1. /\ Alone(r) /\ Stage(op'[r])
      /\ op'[r].pc = "done" /\ op'[r].end = how /\ op'[r].rows = <<>>
      /\ op'[r].mode = op[r].mode /\ op'[r].id = op[r].id /\ op'[r].ran = op[r].ran
  BY <1>0, OverDoes
<1>2. server \notin {"stopping", "down"}
  BY <1>0, Running
<1>3. Work'
  BY <1>0, <1>1, <1>2, WorkStep
<1>4. Books(ledger') /\ Tells(op', ledger') /\ RunsOf(op', ledger')
  <2> DEFINE i == op[r].id  c == ledger'.rec[i]
  <2>1. ASSUME i # None
        PROVE  RecordTells(c, op'[r], i \in DOMAIN ledger'.charge)
    <3>1. /\ i \in Known(ledger)
          /\ RecordTells(ledger.rec[i], op[r], i \in DOMAIN ledger.charge)
      BY <1>0, <2>1, RunningRecord
    <3>2. c.kind = ledger.rec[i].kind
      BY <3>1 DEF Kept
    <3>3. c.kind = "generate" <=> op'[r].mode = "ws"
      BY <1>1, <3>1, <3>2 DEF RecordTells
    <3>4. /\ c.state \in Terminal <=> how # "unencoded"
          /\ c.state = "interrupted" => how = "interrupted" /\ c.error
          /\ c.state = "completed" => how = "completed" \/ (how = "left" /\ ~c.error)
          /\ c.state = "completed" /\ how = "left" => DOMAIN c.rows = 1..Rows
          /\ c.state = "failed" => how \in {"failed", "timeout", "left"}
          /\ c.state = "cancelled" => how \in {"cancelled", "left"} /\ op[r].mode = "ws"
      BY <2>1
    <3> HIDE DEF c
    <3> QED
      BY <1>1, <3>3, <3>4 DEF RecordTells
  <2> QED
    BY <1>0, <1>1, <2>1, RecordStep
<1> QED
  BY <1>3, <1>4, PartsNext

\* What a running operation and its record are before it ends.
LEMMA Before ==
  ASSUME OperationsInv, NEW r \in Requests, op[r].pc \notin {"unsent", "done"}
  PROVE  /\ Shape(ledger) /\ Charged(ledger) /\ Stage(op[r]) /\ op[r] \in Operation
         /\ op[r].rows \in Seq(Outcomes)
         /\ (op[r].pc \in {"held", "working", "row", "generating", "send"} <=> lock = r)
         /\ (op[r].pc \in {"working", "generating"} <=> gen = r)
         /\ op[r].id # None => op[r].id \in Known(ledger) /\ Live(ledger, op[r].id)
         /\ op[r].id # None => ledger.rec[op[r].id].rows = op[r].rows
         /\ r # None /\ None # r
<1>1. Work /\ Books(ledger) /\ Tells(op, ledger) /\ RunsOf(op, ledger)
      /\ op \in [Requests -> Operation] /\ Shape(ledger) /\ Charged(ledger)
  BY Parts DEF Work, WorkTypes, Books
<1>2. /\ op[r] \in Operation /\ Stage(op[r]) /\ op[r].rows \in Seq(Outcomes)
      /\ (op[r].pc \in {"held", "working", "row", "generating", "send"} <=> lock = r)
      /\ (op[r].pc \in {"working", "generating"} <=> gen = r)
  BY <1>1, Running
<1>3. op[r].id # None => op[r].id \in Known(ledger) /\ Live(ledger, op[r].id)
                         /\ ledger.rec[op[r].id].rows = op[r].rows
  BY <1>1, RunningRecord
<1> QED
  BY <1>1, <1>2, <1>3, OperationsConstants

\* A receipt that fails.
LEMMA FailKeeps ==
  ASSUME OperationsInv, NEW r \in Requests, op[r].pc \notin {"unsent", "done"},
         NEW how \in {"failed", "timeout"}, End(r, how), UNCHANGED <<prep, server>>,
         lock' = lock \/ {lock, lock'} \subseteq {None, r},
         gen' = gen \/ {gen, gen'} \subseteq {None, r}, lock' # r, gen' # r,
         ledger' = Fail(ledger, op[r].id, "failed")
  PROVE  OperationsInv'
<1> DEFINE i == op[r].id
<1>1. "failed" \in States /\ "failed" \in Terminal \ {"interrupted"} /\ how \in Ends
  BY DEF States, Terminal, Ends
<1>2. /\ Shape(ledger) /\ Charged(ledger)
      /\ i # None => i \in Known(ledger) /\ Live(ledger, i)
  BY Before
<1>3. /\ Kept(ledger', ledger, i)
      /\ i \in Known(ledger) /\ Live(ledger, i) => ledger'.rec[i].state = "failed"
  BY <1>1, <1>2, FailDoes
<1>4. i # None => ledger'.rec[i].state = "failed"
  BY <1>2, <1>3
<1> QED
  BY <1>1, <1>3, <1>4, EndStep

LEMMA LockTimesOutKeeps ==
  ASSUME OperationsInv, NEW r \in Requests, LockTimesOut(r)
  PROVE  OperationsInv'
<1>1. /\ op[r].pc = "queued" /\ End(r, "timeout") /\ UNCHANGED <<prep, server, lock, gen>>
      /\ ledger' = Fail(ledger, op[r].id, "failed")
  BY DEF LockTimesOut, At
<1>2. lock # r /\ gen # r
  BY <1>1, Before
<1> QED
  BY <1>1, <1>2, FailKeeps

LEMMA JobFailsKeeps ==
  ASSUME OperationsInv, NEW r \in Requests, JobFails(r)
  PROVE  OperationsInv'
<1>1. /\ op[r].pc \in {"held", "working"} /\ End(r, "failed") /\ UNCHANGED <<prep, server>>
      /\ ledger' = Fail(ledger, op[r].id, "failed")
      /\ lock' = None /\ gen' = IF gen = r THEN None ELSE gen
  BY DEF JobFails, At, Release
<1>2. lock = r /\ r # None
  BY <1>1, Before
<1> QED
  BY <1>1, <1>2, FailKeeps

LEMMA JobSucceedsKeeps ==
  ASSUME OperationsInv, NEW r \in Requests, NEW size \in 1..(MaxResult + 1), JobSucceeds(r, size)
  PROVE  OperationsInv'
<1> DEFINE i == op[r].id
<1>1. /\ op[r].pc = "working" /\ End(r, "completed") /\ UNCHANGED <<prep, server>>
      /\ ledger' = Complete(ledger, i, size) /\ lock' = None /\ gen' = None
  BY DEF JobSucceeds, At, Release
<1>2. /\ lock = r /\ gen = r /\ r # None /\ Shape(ledger) /\ Charged(ledger)
      /\ i # None => i \in Known(ledger) /\ Live(ledger, i)
  BY <1>1, Before
<1>3. size \in Nat
  BY OperationsConstants
<1>4. /\ Kept(ledger', ledger, i)
      /\ Live(ledger, i) => ledger'.rec[i].state = "completed"
  BY <1>1, <1>2, <1>3, CompleteDoes
<1>5. "completed" \in Ends /\ "completed" \in Terminal \ {"interrupted"}
  BY DEF Ends, Terminal
<1> QED
  BY <1>1, <1>2, <1>4, <1>5, EndStep

\* The client leaves, and takes a queued stream without a receipt with it.
LEMMA ClientLeavesKeeps ==
  ASSUME OperationsInv, NEW r \in Requests, ClientLeaves(r)
  PROVE  OperationsInv'
<1>0. op[r].pc \notin {"unsent", "done"} /\ UNCHANGED <<prep, server>>
  BY DEF ClientLeaves
<1>1. CASE Withdrawn(r)
  <2>1. /\ op[r].pc = "queued" /\ op[r].id = None /\ End(r, "cancelled")
        /\ lock' = IF lock = r THEN None ELSE lock
        /\ gen' = IF gen = r THEN None ELSE gen
        /\ ledger' = Fail(ledger, op[r].id, "interrupted")
    BY <1>1 DEF ClientLeaves, CancelTask, Withdrawn, At
  <2>2. /\ Shape(ledger) /\ Charged(ledger) /\ Stage(op[r]) /\ r # None
        /\ lock # r /\ gen # r
    BY <1>0, <2>1, Before
  <2>3. ~op[r].ran
    BY <2>1, <2>2 DEF Stage
  <2>4. "interrupted" \in States /\ "cancelled" \in Ends
    BY DEF States, Terminal, Ends
  <2>5. Kept(ledger', ledger, op[r].id)
    BY <2>1, <2>2, <2>4, FailDoes
  <2> QED
    BY <1>0, <2>1, <2>2, <2>3, <2>4, <2>5, EndStep
<1>2. CASE ~Withdrawn(r)
  <2> DEFINE o == [op[r] EXCEPT !.here = FALSE]  i == op[r].id
  <2>0. Work /\ Books(ledger) /\ Tells(op, ledger) /\ RunsOf(op, ledger)
        /\ op \in [Requests -> Operation]
    BY Parts DEF Books, Work, WorkTypes
  <2>1. op' = [op EXCEPT ![r] = o] /\ UNCHANGED <<lock, gen, ledger>>
    BY <1>2 DEF ClientLeaves
  <2>2. /\ server \notin {"stopping", "down"} /\ op[r] \in Operation /\ Stage(op[r])
        /\ (op[r].pc \in {"held", "working", "row", "generating", "send"} <=> lock = r)
        /\ (op[r].pc \in {"working", "generating"} <=> gen = r)
    BY <1>0, <2>0, Running
  <2>3. /\ o \in Operation /\ o.id = op[r].id /\ o.mode = op[r].mode /\ o.end = op[r].end
        /\ o.rows = op[r].rows /\ o.pc = op[r].pc /\ o.ran = op[r].ran
    BY <2>2 DEF Operation
  <2> HIDE DEF o
  <2>4. Alone(r) /\ op'[r] = o
    BY <2>0, <2>1, <2>3 DEF Alone
  <2>5. Stage(op'[r])
    BY <2>2, <2>3, <2>4 DEF Stage
  <2>6. Work'
    <3>1. o.end # "cancelled"
      BY <1>0, <2>2, <2>3, OperationsConstants DEF Stage, Ends
    <3> QED
      BY <1>0, <2>0, <2>1, <2>2, <2>3, <2>4, <2>5, <3>1, WorkStep
  <2>7. Books(ledger') /\ Tells(op', ledger') /\ RunsOf(op', ledger')
    <3>1. i # None => /\ RecordTells(ledger.rec[i], op[r], i \in DOMAIN ledger.charge)
                      /\ ledger.rec[i].rows = op[r].rows
      BY <1>0, <2>0, RunningRecord
    <3>2. i # None => RecordTells(ledger.rec[i], o, i \in DOMAIN ledger.charge)
      BY <2>3, <3>1 DEF RecordTells
    <3>3. Kept(ledger', ledger, i)
      BY <2>0, <2>1, KeptByNobody DEF Books
    <3> QED
      BY <1>0, <2>0, <2>1, <2>3, <2>4, <3>1, <3>2, <3>3, RecordStep
  <2> QED
    BY <2>6, <2>7, PartsNext
<1> QED
  BY <1>1, <1>2

\* A row that fails ends the fan.
LEMMA RowFailsKeeps ==
  ASSUME OperationsInv, NEW r \in Requests, RowFails(r)
  PROVE  OperationsInv'
<1> DEFINE i == op[r].id
           L == ObserveError(ledger, i)
<1>1. /\ op[r].pc \in {"generating", "row"} /\ End(r, "failed") /\ UNCHANGED <<prep, server>>
      /\ ledger' = Settle(L, i, "failed")
      /\ lock' = None /\ gen' = IF gen = r THEN None ELSE gen
  BY DEF RowFails, FanEnds, At, Release
<1>2. /\ lock = r /\ r # None /\ Shape(ledger) /\ Charged(ledger)
      /\ i # None => i \in Known(ledger) /\ Live(ledger, i)
  BY <1>1, Before
<1>3. "failed" \in States /\ "failed" \in Terminal \ {"interrupted"} /\ "failed" \in Ends
  BY DEF States, Terminal, Ends
<1>4. Kept(L, ledger, i) /\ (i \in Known(ledger) => L.rec[i].state = ledger.rec[i].state)
  BY <1>2, ObserveErrorDoes
<1> HIDE DEF L
<1>5. Shape(L) /\ Charged(L) /\ Known(L) = Known(ledger)
  BY <1>4 DEF Kept
<1>6. i # None => i \in Known(L) /\ Live(L, i)
  BY <1>2, <1>4, <1>5 DEF Live
<1>7. Kept(ledger', L, i) /\ (i # None => ledger'.rec[i].state = "failed")
  BY <1>1, <1>3, <1>5, <1>6, SettleDoes
<1>8. Kept(ledger', ledger, i)
  BY <1>4, <1>7, KeptTwice
<1> QED
  BY <1>1, <1>2, <1>3, <1>7, <1>8, EndStep

\* Observing once more the row a record has already changes nothing of it.
LEMMA ObservedTwice ==
  ASSUME NEW L, Shape(L), Charged(L), NEW i, NEW rows \in Seq(Outcomes), rows # <<>>,
         Len(rows) <= Rows, i \in Known(L) => L.rec[i].rows = rows,
         NEW M, M = ObserveRow(L, i, Len(rows), rows[Len(rows)])
  PROVE  /\ Kept(M, L, i)
         /\ i \in Known(L) => M.rec[i].rows = rows /\ M.rec[i].state = L.rec[i].state
<1>1. Len(rows) \in 1..Rows /\ rows[Len(rows)] \in Outcomes /\ DOMAIN rows = 1..Len(rows)
      /\ rows = [j \in DOMAIN rows |-> rows[j]]
  BY OperationsConstants
<1>2. With(rows, Len(rows), rows[Len(rows)]) = rows
  BY <1>1 DEF With
<1>3. Kept(M, L, i)
  BY <1>1, ObserveRowDoes
<1>4. i \in Known(L) => M.rec[i].state = L.rec[i].state
  BY <1>1, ObserveRowDoes
<1>5. i \in Known(L) => M.rec[i].rows = With(L.rec[i].rows, Len(rows), rows[Len(rows)])
  BY <1>1, ObserveRowDoes
<1> QED
  BY <1>2, <1>3, <1>4, <1>5

\* The done frame is out: the next row, or the end of the fan.
LEMMA RowSentKeeps ==
  ASSUME OperationsInv, NEW r \in Requests, RowSent(r)
  PROVE  OperationsInv'
<1> DEFINE i == op[r].id  k == Len(op[r].rows)
           L == Resent(r)
           how == StateOf(r)
           o == [op[r] EXCEPT !.pc = "row"]
<1>1. op[r].pc = "send" /\ UNCHANGED <<prep, server>>
  BY DEF RowSent, At
<1>2. \/ k < Rows /\ ledger' = L /\ op' = [op EXCEPT ![r] = o] /\ UNCHANGED <<lock, gen>>
      \/ /\ ledger' = Settle(L, i, how) /\ End(r, how)
         /\ lock' = None /\ gen' = IF gen = r THEN None ELSE gen
  BY DEF RowSent, FanEnds, Release
<1>3. /\ lock = r /\ gen # r /\ r # None /\ Shape(ledger) /\ Charged(ledger)
      /\ op[r] \in Operation /\ Stage(op[r]) /\ op[r].rows \in Seq(Outcomes)
      /\ i # None => i \in Known(ledger) /\ Live(ledger, i)
      /\ i # None => ledger.rec[i].rows = op[r].rows
  BY <1>1, Before
<1>4. op[r].mode = "ws" /\ op[r].rows # <<>> /\ k <= Rows /\ k \in Nat
  BY <1>1, <1>3 DEF Stage
<1>5. None \notin Known(ledger)
  BY <1>3, OperationsConstants DEF Shape
<1>6. /\ Kept(L, ledger, i)
      /\ i \in Known(ledger) => L.rec[i].rows = op[r].rows /\ L.rec[i].state = ledger.rec[i].state
  BY <1>3, <1>4, <1>5, ObservedTwice DEF Resent
<1> HIDE DEF L
<1>7. Shape(L) /\ Charged(L) /\ Known(L) = Known(ledger)
  BY <1>6 DEF Kept
<1>8. CASE k < Rows /\ ledger' = L /\ op' = [op EXCEPT ![r] = o] /\ UNCHANGED <<lock, gen>>
  <2>0. Work /\ Books(ledger) /\ Tells(op, ledger) /\ RunsOf(op, ledger)
        /\ op \in [Requests -> Operation]
    BY Parts DEF Books, Work, WorkTypes
  <2>1. server \notin {"stopping", "down"}
    BY <1>1, <2>0, Running
  <2>2. /\ o \in Operation /\ o.id = op[r].id /\ o.mode = op[r].mode /\ o.end = op[r].end
        /\ o.rows = op[r].rows /\ o.pc = "row" /\ o.ran = op[r].ran
    BY <1>3 DEF Operation
  <2> HIDE DEF o
  <2>3. Alone(r) /\ op'[r] = o
    BY <1>8, <2>0, <2>2 DEF Alone
  <2>4. Stage(op'[r])
    BY <1>1, <1>3, <1>4, <1>8, <2>2, <2>3 DEF Stage
  <2>5. Work'
    BY <1>1, <1>3, <1>4, <1>8, <2>0, <2>1, <2>2, <2>3, <2>4, WorkStep
  <2>6. i # None =>
          /\ RecordTells(ledger'.rec[i], o, i \in DOMAIN ledger'.charge)
          /\ ledger'.rec[i].rows = o.rows
    <3> SUFFICES ASSUME i # None
                 PROVE  /\ RecordTells(ledger'.rec[i], o, i \in DOMAIN ledger'.charge)
                        /\ ledger'.rec[i].rows = o.rows
      OBVIOUS
    <3>1. /\ RecordTells(ledger.rec[i], op[r], i \in DOMAIN ledger.charge)
          /\ i \in Known(ledger) /\ Live(ledger, i)
      BY <1>1, <2>0, RunningRecord
    <3> DEFINE c == ledger'.rec[i]
    <3>2. c.state = ledger.rec[i].state /\ c.rows = op[r].rows /\ c.kind = ledger.rec[i].kind
      BY <1>6, <1>8, <3>1 DEF Kept
    <3> HIDE DEF c
    <3>3. RecordTells(c, o, i \in DOMAIN ledger'.charge)
      BY <1>1, <2>2, <3>1, <3>2 DEF RecordTells, Live, Terminal
    <3> QED
      BY <2>2, <3>2, <3>3 DEF c
  <2>7. Books(ledger') /\ Tells(op', ledger') /\ RunsOf(op', ledger')
    BY <1>1, <1>6, <1>8, <2>0, <2>2, <2>3, <2>6, RecordStep
  <2> QED
    BY <2>5, <2>7, PartsNext
<1>9. CASE /\ ledger' = Settle(L, i, how) /\ End(r, how)
           /\ lock' = None /\ gen' = IF gen = r THEN None ELSE gen
  <2>1. how \in {"cancelled", "completed"}
    BY DEF StateOf
  <2>2. how \in States /\ how \in Terminal \ {"interrupted"} /\ how \in Ends
    BY <2>1 DEF States, Terminal, Ends
  <2> HIDE DEF how
  <2>3. i # None => i \in Known(L) /\ Live(L, i)
    BY <1>3, <1>6, <1>7 DEF Live
  <2>4. Kept(ledger', L, i) /\ (i # None => ledger'.rec[i].state = how)
    BY <1>7, <1>9, <2>2, <2>3, SettleDoes
  <2>5. Kept(ledger', ledger, i)
    BY <1>6, <2>4, KeptTwice
  <2> QED
    BY <1>1, <1>3, <1>4, <1>9, <2>1, <2>2, <2>4, <2>5, EndStep
<1> QED
  BY <1>2, <1>8, <1>9

\* What the thread of a fan leaves in its record, or its row once more.
LEMMA RecoveredDoes ==
  ASSUME OperationsInv, NEW r \in Requests, NEW reason \in {"ended", "cancelled", "error"},
         op[r].pc \in {"generating", "queued", "row", "send"},
         NEW L, L = Recovered(r, reason) \/ (op[r].pc = "send" /\ L = Resent(r))
  PROVE  /\ Kept(L, ledger, op[r].id) /\ Shape(L) /\ Charged(L)
         /\ op[r].id # None => op[r].id \in Known(L) /\ Live(L, op[r].id)
<1> DEFINE i == op[r].id
<1>1. /\ r # None /\ Shape(ledger) /\ Charged(ledger)
      /\ Stage(op[r]) /\ op[r].rows \in Seq(Outcomes)
      /\ i # None => i \in Known(ledger) /\ Live(ledger, i)
      /\ i # None => ledger.rec[i].rows = op[r].rows
  BY Before
<1>2. Kept(L, ledger, i) /\ (i \in Known(ledger) => L.rec[i].state = ledger.rec[i].state)
  <2>1. CASE L = Recovered(r, reason) /\ ~At(r, "generating")
    BY <1>1, <2>1, KeptByNobody DEF Recovered
  <2>2. CASE L = Recovered(r, reason) /\ At(r, "generating") /\ reason = "error"
    BY <1>1, <2>2, ObserveErrorDoes DEF Recovered
  <2>3. CASE L = Recovered(r, reason) /\ At(r, "generating") /\ reason # "error"
    <3>1. Row(r) \in 1..Rows /\ reason \in Outcomes
      BY <1>1, <2>3, OperationsConstants DEF Row, Stage, At, Outcomes
    <3>2. L = ObserveRow(ledger, i, Row(r), reason)
      BY <2>3 DEF Recovered
    <3>3. Kept(L, ledger, i)
      BY <1>1, <3>1, <3>2, ObserveRowDoes
    <3>4. i \in Known(ledger) => L.rec[i].state = ledger.rec[i].state
      BY <1>1, <3>1, <3>2, ObserveRowDoes
    <3> QED
      BY <3>3, <3>4
  <2>4. CASE op[r].pc = "send" /\ L = Resent(r)
    <3>1. op[r].rows # <<>> /\ Len(op[r].rows) <= Rows
      BY <1>1, <2>4 DEF Stage
    <3>2. None \notin Known(ledger)
      BY <1>1, OperationsConstants DEF Shape
    <3> QED
      BY <1>1, <2>4, <3>1, <3>2, ObservedTwice DEF Resent
  <2> QED
    BY <2>1, <2>2, <2>3, <2>4
<1>3. Shape(L) /\ Charged(L) /\ Known(L) = Known(ledger)
  BY <1>2 DEF Kept
<1>4. i # None => i \in Known(L) /\ Live(L, i)
  BY <1>1, <1>2, <1>3 DEF Live
<1> QED
  BY <1>2, <1>3, <1>4

\* What a fan that breaks off does to all but its record.
LEMMA BreaksOffDoes ==
  ASSUME NEW r \in Requests, NEW reason, NEW L, NEW how, BreaksOff(r, reason, L, how)
  PROVE  /\ op[r].pc \in {"generating", "queued", "row", "send"} /\ op[r].mode = "ws"
         /\ UNCHANGED <<prep, server>> /\ End(r, how) /\ ledger' = L
         /\ lock' = IF lock = r THEN None ELSE lock
         /\ gen' = IF gen = r THEN None ELSE gen
  BY DEF BreaksOff, At, Http

\* The client of a fan is gone: its receipt is settled from the rows it has.
LEMMA FanIsLeftKeeps ==
  ASSUME OperationsInv, NEW r \in Requests, NEW reason \in {"ended", "cancelled", "error"},
         FanIsLeft(r, reason)
  PROVE  OperationsInv'
<1> DEFINE i == op[r].id
           L == Recovered(r, reason)
<1>1. BreaksOff(r, reason, SettleDisconnected(L, i), "left")
  BY DEF FanIsLeft
<1>2. /\ op[r].pc \in {"generating", "queued", "row", "send"} /\ op[r].mode = "ws"
      /\ UNCHANGED <<prep, server>> /\ End(r, "left")
      /\ ledger' = SettleDisconnected(L, i)
      /\ lock' = IF lock = r THEN None ELSE lock
      /\ gen' = IF gen = r THEN None ELSE gen
  BY <1>1, BreaksOffDoes
<1>3. r # None /\ Kept(L, ledger, i) /\ Shape(L) /\ Charged(L)
      /\ (i # None => i \in Known(L) /\ Live(L, i))
  BY <1>2, RecoveredDoes, OperationsConstants
<1> HIDE DEF L
<1>4. Kept(ledger', L, i)
  BY <1>2, <1>3, SettleDisconnectedDoes
<1>5. i # None =>
        /\ ledger'.rec[i].state \in {"completed", "failed", "cancelled"}
        /\ ledger'.rec[i].state = "completed" => /\ ~ledger'.rec[i].error
                                                 /\ DOMAIN ledger'.rec[i].rows = 1..Rows
  BY <1>2, <1>3, SettleDisconnectedDoes
<1>6. Kept(ledger', ledger, i)
  BY <1>3, <1>4, KeptTwice
<1>7. /\ "left" \in Ends /\ {"completed", "failed", "cancelled"} \subseteq Terminal \ {"interrupted"}
  BY DEF Ends, Terminal
<1> QED
  BY <1>2, <1>3, <1>5, <1>6, <1>7, EndStep

\* A frame could not be sent: the receipt fails or is interrupted, with an error.
LEMMA SendFailsKeeps ==
  ASSUME OperationsInv, NEW r \in Requests, NEW reason \in {"ended", "cancelled", "error"},
         NEW reported \in BOOLEAN, SendFails(r, reason, reported)
  PROVE  OperationsInv'
<1> DEFINE i == op[r].id
           L == IF At(r, "send") THEN Resent(r) ELSE Recovered(r, reason)
           M == ObserveError(L, i)
           how == IF reported THEN "failed" ELSE "interrupted"
           N == IF reported THEN Settle(M, i, "failed") ELSE Fail(M, i, "interrupted")
<1>1. BreaksOff(r, reason, N, how)
  BY DEF SendFails
<1>2. /\ op[r].pc \in {"generating", "queued", "row", "send"} /\ op[r].mode = "ws"
      /\ UNCHANGED <<prep, server>> /\ End(r, how) /\ ledger' = N
      /\ lock' = IF lock = r THEN None ELSE lock
      /\ gen' = IF gen = r THEN None ELSE gen
  BY <1>1, BreaksOffDoes
<1>3. L = Recovered(r, reason) \/ (op[r].pc = "send" /\ L = Resent(r))
  BY DEF At
<1> HIDE DEF L
<1>4. r # None /\ Kept(L, ledger, i) /\ Shape(L) /\ Charged(L)
      /\ (i # None => i \in Known(L) /\ Live(L, i))
  BY <1>2, <1>3, RecoveredDoes, OperationsConstants
<1>5. Kept(M, L, i) /\ (i \in Known(L) => M.rec[i].error /\ M.rec[i].state = L.rec[i].state)
  BY <1>4, ObserveErrorDoes
<1> HIDE DEF M
<1>6. Shape(M) /\ Charged(M) /\ (i # None => i \in Known(M) /\ Live(M, i))
  BY <1>4, <1>5 DEF Kept, Live
<1>7. {"failed", "interrupted"} \subseteq States /\ how \in Ends /\ how # "unencoded"
      /\ how \in {"failed", "interrupted"} /\ {"failed", "interrupted"} \subseteq Terminal
  BY DEF States, Terminal, Ends
<1>8. Kept(N, M, i) /\ (i # None => N.rec[i].state = how /\ (~reported => N.rec[i].error))
  <2>1. CASE reported
    BY <1>6, <1>7, <2>1, SettleDoes
  <2>2. CASE ~reported
    BY <1>6, <1>7, <2>2, FailDoes
  <2> QED
    BY <2>1, <2>2
<1> HIDE DEF N
<1>9. Kept(ledger', ledger, i)
  BY <1>2, <1>4, <1>5, <1>8, KeptTwice
<1>10. /\ how = "cancelled" => FALSE
       /\ i # None => /\ ledger'.rec[i].state = how
                      /\ how = "interrupted" => ledger'.rec[i].error
  BY <1>2, <1>7, <1>8
<1>11. lock' # r /\ gen' # r
  BY <1>2, <1>4
<1> HIDE DEF how
<1> QED
  BY <1>2, <1>4, <1>7, <1>9, <1>10, <1>11, EndStep

\* An answer that cannot be encoded leaves its receipt as it is.
LEMMA AnswerFailsKeeps ==
  ASSUME OperationsInv, NEW r \in Requests, AnswerFails(r)
  PROVE  OperationsInv'
<1> DEFINE i == op[r].id
<1>1. /\ op[r].pc = "working" /\ End(r, "unencoded") /\ UNCHANGED <<prep, server>>
      /\ ledger' = ledger /\ lock' = None /\ gen' = None
  BY DEF AnswerFails, At, Release
<1>2. /\ lock = r /\ gen = r /\ r # None /\ Shape(ledger) /\ Charged(ledger)
      /\ i # None => i \in Known(ledger) /\ Live(ledger, i)
  BY <1>1, Before
<1>3. Kept(ledger', ledger, i)
  BY <1>1, <1>2, KeptByNobody
<1>4. /\ "unencoded" \in Ends
      /\ i # None => /\ ledger'.rec[i].state \notin Terminal
                     /\ ledger'.rec[i].state \notin {"interrupted", "completed", "failed", "cancelled"}
  BY <1>1, <1>2 DEF Ends, Live, Terminal
<1> QED
  BY <1>1, <1>2, <1>3, <1>4, EndStep

\* A request is made, and admitted or refused.
LEMMA SubmitKeeps ==
  ASSUME OperationsInv, NEW r \in Requests, NEW mode \in {"sse", "json", "ws"},
         NEW i \in Ids \cup {None}, NEW params \in Params,
         mode = "ws" => i # None, Submit(r, mode, i, params)
  PROVE  OperationsInv'
<1>0. Work /\ Books(ledger) /\ Tells(op, ledger) /\ RunsOf(op, ledger)
      /\ op \in [Requests -> Operation]
  BY Parts DEF Work, WorkTypes
<1> DEFINE kind == IF mode = "ws" THEN "generate" ELSE "http"
           fingerprint == <<kind, params>>
           admission == IF i = None THEN "new" ELSE Admission(i, fingerprint)
           O1 == [Unsent EXCEPT !.pc = "done", !.mode = mode, !.end = admission]
           O2 == [Unsent EXCEPT !.pc = "queued", !.mode = mode, !.id = i]
<1>1. /\ server = "up" /\ op[r].pc = "unsent" /\ UNCHANGED <<lock, gen, prep, server>>
      /\ \/ admission # "new" /\ op' = [op EXCEPT ![r] = O1] /\ ledger' = ledger
         \/ /\ admission = "new" /\ op' = [op EXCEPT ![r] = O2]
            /\ ledger' = IF i = None THEN ledger ELSE Admit(ledger, i, r, kind, fingerprint)
  BY DEF Submit, At
<1>2. lock # r /\ gen # r
  BY <1>0, <1>1, OperationsConstants DEF Work, HolderInv, HoldsLock, HoldsModel
<1>3. \A j \in Known(ledger) : ledger.rec[j].by \in Requests \ {r}
  <2> SUFFICES ASSUME NEW j \in Known(ledger)
               PROVE  ledger.rec[j].by \in Requests \ {r}
    OBVIOUS
  <2>1. ledger.rec[j].by \in Requests
    BY <1>0, EntryFields DEF Books, Shape
  <2>2. op[ledger.rec[j].by].pc # "unsent"
    BY <1>0 DEF Tells, RecordTells
  <2> QED
    BY <1>1, <2>1, <2>2
<1>4. <<>> \in Seq(Outcomes) /\ Len(<<>>) = 0
  BY EmptySeq
<1>5. CASE admission # "new" /\ op' = [op EXCEPT ![r] = O1] /\ ledger' = ledger
  <2>1. admission \in {"existing", "conflict", "full"}
    BY <1>5 DEF Admission
  <2> HIDE DEF admission
  <2>2. /\ O1.pc = "done" /\ O1.end = admission /\ O1.rows = <<>> /\ O1 \in Operation
        /\ O1.id = None /\ O1.ran = FALSE
    BY <2>1, <1>4 DEF Unsent, Operation, Ends
  <2> HIDE DEF O1
  <2>3. Alone(r) /\ op'[r] = O1
    BY <1>0, <1>5, <2>2 DEF Alone
  <2>4. Stage(op'[r])
    BY <1>4, <2>2, <2>3, OperationsConstants DEF Stage
  <2>5. Work'
    BY <1>0, <1>1, <1>2, <2>1, <2>2, <2>3, <2>4, WorkStep
  <2>6. Tells(op', ledger')
    BY <1>0, <1>3, <1>5, <2>3 DEF Alone, Tells
  <2>7. RunsOf(op', ledger')
    BY <1>0, <1>5, <2>2, <2>3 DEF Alone, RunsOf
  <2> QED
    BY <1>0, <1>5, <2>5, <2>6, <2>7, PartsNext
<1>6. CASE /\ admission = "new" /\ op' = [op EXCEPT ![r] = O2]
           /\ ledger' = IF i = None THEN ledger ELSE Admit(ledger, i, r, kind, fingerprint)
  <2>1. /\ O2.pc = "queued" /\ O2.end = None /\ O2.rows = <<>> /\ O2 \in Operation
        /\ O2.id = i /\ O2.ran = FALSE /\ O2.mode = mode
    BY <1>4 DEF Unsent, Operation
  <2> HIDE DEF O2
  <2>2. Alone(r) /\ op'[r] = O2
    BY <1>0, <1>6, <2>1 DEF Alone
  <2>3. Stage(op'[r])
    BY <1>4, <2>1, <2>2, OperationsConstants DEF Stage
  <2>4. Work'
    BY <1>0, <1>1, <1>2, <2>1, <2>2, <2>3, WorkStep, OperationsConstants DEF Ends
  <2>5. CASE i = None
    <3>1. Tells(op', ledger')
      BY <1>0, <1>3, <1>6, <2>2, <2>5 DEF Alone, Tells
    <3>2. RunsOf(op', ledger')
      BY <1>0, <1>6, <2>1, <2>2, <2>5 DEF Alone, RunsOf
    <3> QED
      BY <1>0, <1>6, <2>4, <2>5, <3>1, <3>2, PartsNext
  <2>6. CASE i # None
    <3>1. i \in Ids \ Known(ledger) /\ Cardinality(LiveIds(ledger)) < MaxActive
      <4>1. /\ i \notin Known(ledger)
            /\ ~(Cardinality({j \in Known(ledger) : Live(ledger, j)}) >= MaxActive)
        BY <1>6, <2>6 DEF Admission
      <4>2. Cardinality(LiveIds(ledger)) \in Nat
        BY <1>0, KnownIsFinite DEF Books
      <4> QED
        BY <2>6, <4>1, <4>2, OperationsConstants DEF LiveIds
    <3>2. /\ kind \in {"http", "generate"} /\ fingerprint \in {"http", "generate"} \X Params
          /\ kind = "generate" <=> mode = "ws"
      OBVIOUS
    <3>3. ledger' = Admit(ledger, i, r, kind, fingerprint)
      BY <1>6, <2>6
    <3> HIDE DEF kind, fingerprint
    <3> DEFINE M == Admit(ledger, i, r, kind, fingerprint)
    <3>10. M = Admit(ledger, i, r, kind, fingerprint)
      OBVIOUS
    <3> HIDE DEF M
    <3>11. /\ Shape(ledger) /\ Charged(ledger) /\ Sorted(ledger) /\ Fits(ledger)
           /\ mode \in {"sse", "json", "ws"} /\ r \in Requests
      BY <1>0 DEF Books
    <3>12. LET N == M IN
           /\ Shape(N) /\ Charged(N) /\ Sorted(N) /\ Fits(N) /\ i \in Known(N)
           /\ N.rec[i].state \in {"queued", "running"} /\ N.rec[i].by = r /\ N.rec[i].kind = kind
           /\ N.rec[i].rows = <<>>
           /\ \A j \in Known(ledger) : Live(ledger, j) => j \in Known(N)
           /\ \A j \in Known(N) : j # i =>
                /\ j \in Known(ledger) /\ N.rec[j] = ledger.rec[j]
                /\ (j \in DOMAIN N.charge => j \in DOMAIN ledger.charge)
      <4> HIDE DEF admission, O1
      <4> QED
        BY <3>11, <3>1, <3>2, <3>10, AdmitDoes
    <3>4. /\ Shape(M) /\ Charged(M) /\ Sorted(M) /\ Fits(M) /\ i \in Known(M)
          /\ M.rec[i].state \in {"queued", "running"} /\ M.rec[i].by = r /\ M.rec[i].kind = kind
          /\ M.rec[i].rows = <<>>
      BY <3>12
    <3>5. \A j \in Known(ledger) : Live(ledger, j) => j \in Known(M)
      BY <3>12
    <3>6. \A j \in Known(M) : j # i => /\ j \in Known(ledger) /\ M.rec[j] = ledger.rec[j]
                                       /\ (j \in DOMAIN M.charge => j \in DOMAIN ledger.charge)
      BY <3>12
    <3>7. Books(ledger')
      BY <3>3, <3>4, <3>10 DEF Books
    <3>8. Tells(op', M)
      <4> SUFFICES ASSUME NEW j \in Known(M)
                   PROVE  /\ op'[M.rec[j].by].id = j
                          /\ RecordTells(M.rec[j], op'[M.rec[j].by], j \in DOMAIN M.charge)
        BY DEF Tells
      <4>1. CASE j = i
        <5>1. RecordTells(M.rec[i], O2, i \in DOMAIN M.charge)
          BY <2>1, <3>2, <3>4 DEF RecordTells, Terminal
        <5> QED
          BY <2>1, <2>2, <3>4, <4>1, <5>1
      <4>2. CASE j # i
        <5> DEFINE q == ledger.rec[j].by  o == op[q]  c == ledger.rec[j]
        <5>1. j \in Known(ledger) /\ M.rec[j] = c /\ q \in Requests \ {r}
              /\ (j \in DOMAIN M.charge => j \in DOMAIN ledger.charge)
          BY <1>3, <3>6, <4>2
        <5>2. o.id = j /\ RecordTells(c, o, j \in DOMAIN ledger.charge)
          BY <1>0, <5>1 DEF Tells
        <5>3. op'[q] = o
          BY <2>2, <5>1 DEF Alone
        <5> HIDE DEF o, c
        <5>4. RecordTells(c, o, j \in DOMAIN M.charge)
          BY <5>1, <5>2 DEF RecordTells
        <5> QED
          BY <5>1, <5>2, <5>3, <5>4 DEF c
      <4> QED
        BY <4>1, <4>2
    <3>9. RunsOf(op', M)
      <4> SUFFICES ASSUME NEW q \in Requests, op'[q].id # None, op'[q].pc \notin {"unsent", "done"}
                   PROVE  /\ op'[q].id \in Known(M) /\ M.rec[op'[q].id].by = q
                          /\ M.rec[op'[q].id].rows = op'[q].rows
        BY DEF RunsOf
      <4>1. CASE q = r
        BY <2>1, <2>2, <3>4, <4>1
      <4>2. CASE q # r
        <5> DEFINE j == op[q].id
        <5>1. op'[q] = op[q]
          BY <2>2, <4>2 DEF Alone
        <5>2. j \in Known(ledger) /\ ledger.rec[j].by = q /\ ledger.rec[j].rows = op[q].rows
          BY <1>0, <5>1 DEF RunsOf
        <5>3. Live(ledger, j)
          <6>1. RecordTells(ledger.rec[j], op[q], j \in DOMAIN ledger.charge)
            BY <1>0, <5>2 DEF Tells
          <6>2. op[q].pc # "done"
            BY <5>1
          <6> QED
            BY <5>2, <6>1, <6>2 DEF RecordTells, Live
        <5>4. j \in Known(M) /\ j # i
          BY <3>1, <3>5, <5>2, <5>3
        <5> QED
          BY <3>6, <5>1, <5>2, <5>4
      <4> QED
        BY <4>1, <4>2
    <3> QED
      BY <2>4, <3>3, <3>7, <3>8, <3>9, <3>10, PartsNext
  <2> QED
    BY <2>5, <2>6
<1> QED
  BY <1>1, <1>5, <1>6

---------------------------------------------------------------------------
(* Steps of a preparation.                                                 *)

\* p is the only preparation that goes on; nobody else gets the lock or the model.
LEMMA PrepStep ==
  ASSUME OperationsInv, NEW p \in Preps, NEW c \in Preparation,
         prep' = [prep EXCEPT ![p] = c], UNCHANGED <<op, ledger, server>>,
         lock' = lock \/ (lock \in {None, p} /\ lock' \in {None, p}),
         gen' = gen \/ (gen \in {None, p} /\ gen' \in {None, p}),
         c.pc \in {"activating", "enabling"} <=> lock' = p,
         c.pc = "fitting" <=> gen' = p,
         server = "down" => c.pc = "idle"
  PROVE  OperationsInv'
<1>1. Work /\ Books(ledger) /\ Tells(op, ledger) /\ RunsOf(op, ledger)
  BY Parts
<1>2. /\ prep' \in [Preps -> Preparation] /\ prep'[p] = c
      /\ \A q \in Preps : q # p => prep'[q] = prep[q]
  BY <1>1 DEF Work, WorkTypes
<1>3. WorkTypes'
  BY <1>1, <1>2 DEF Work, WorkTypes
<1>4. Stages' /\ BegunIsFinished'
  BY <1>1 DEF Work, Stages, BegunIsFinished, Http
<1>5. HolderInv'
  <2> SUFFICES ASSUME NEW x \in Requests \cup Preps
               PROVE  (HoldsLock(x)' <=> lock' = x) /\ (HoldsModel(x)' <=> gen' = x)
    BY DEF HolderInv
  <2>0. x # None /\ p # None /\ p \notin Requests
    BY OperationsConstants
  <2>1. CASE x = p
    BY <1>2, <2>0, <2>1 DEF HoldsLock, HoldsModel
  <2>2. CASE x # p
    <3>1. (HoldsLock(x)' <=> HoldsLock(x)) /\ (HoldsModel(x)' <=> HoldsModel(x))
      BY <1>2, <2>2 DEF HoldsLock, HoldsModel
    <3>2. (lock' = x <=> lock = x) /\ (gen' = x <=> gen = x)
      BY <2>0, <2>2
    <3> QED
      BY <1>1, <3>1, <3>2 DEF Work, HolderInv
  <2> QED
    BY <2>1, <2>2
<1>6. JoinInv'
  BY <1>1, <1>2 DEF Work, JoinInv, Joined, Preparing
<1> QED
  BY <1>1, <1>3, <1>4, <1>5, <1>6, PartsNext DEF Work

\* What is known of a preparation.
LEMMA PrepBefore ==
  ASSUME OperationsInv, NEW p \in Preps
  PROVE  /\ prep[p] \in Preparation /\ p # None
         /\ prep[p].pc \in {"activating", "enabling"} <=> lock = p
         /\ prep[p].pc = "fitting" <=> gen = p
         /\ server = "down" => prep[p].pc = "idle"
         /\ \A l \in {"idle", "corpus", "fit", "fitting", "activate", "activating",
                      "enable", "enabling"} :
              LET c == [prep[p] EXCEPT !.pc = l] IN c \in Preparation /\ c.pc = l
         /\ \A how \in {"done", "error", "cancelled", None} :
              [pc |-> "idle", cancel |-> FALSE, end |-> how] \in Preparation
<1>1. Work
  BY Parts
<1>2. prep[p] \in Preparation
  BY <1>1 DEF Work, WorkTypes
<1>3. /\ prep[p].pc \in {"activating", "enabling"} <=> lock = p
      /\ prep[p].pc = "fitting" <=> gen = p
  <2>1. /\ HoldsLock(p) <=> lock = p
        /\ HoldsModel(p) <=> gen = p
    BY <1>1 DEF Work, HolderInv
  <2>2. p \notin Requests
    BY OperationsConstants
  <2> QED
    BY <2>1, <2>2 DEF HoldsLock, HoldsModel
<1>4. server = "down" => prep[p].pc = "idle"
  BY <1>1 DEF Work, JoinInv, Preparing
<1>5. \A l \in {"idle", "corpus", "fit", "fitting", "activate", "activating", "enable", "enabling"} :
        LET c == [prep[p] EXCEPT !.pc = l] IN c \in Preparation /\ c.pc = l
  BY <1>2 DEF Preparation
<1>6. \A how \in {"done", "error", "cancelled", None} :
        [pc |-> "idle", cancel |-> FALSE, end |-> how] \in Preparation
  BY DEF Preparation
<1> QED
  BY <1>2, <1>3, <1>4, <1>5, <1>6, OperationsConstants

LEMMA PrepStartKeeps ==
  ASSUME OperationsInv, NEW p \in Preps, PrepStart(p)
  PROVE  OperationsInv'
<1> DEFINE c == [pc |-> "corpus", cancel |-> FALSE, end |-> None]
<1>1. c \in Preparation /\ c.pc = "corpus"
  BY DEF Preparation
<1>2. /\ prep' = [prep EXCEPT ![p] = c] /\ UNCHANGED <<op, ledger, server, lock, gen>>
      /\ prep[p].pc = "idle" /\ server = "up"
  BY DEF PrepStart, RefusedIfBusy, Preparing
<1> HIDE DEF c
<1>3. lock # p /\ gen # p
  BY <1>2, PrepBefore
<1> QED
  BY <1>1, <1>2, <1>3, PrepStep

LEMMA PrepCancelKeeps ==
  ASSUME OperationsInv, NEW p \in Preps, PrepCancel(p)
  PROVE  OperationsInv'
<1> DEFINE c == [prep[p] EXCEPT !.cancel = TRUE]
<1>1. /\ prep[p] \in Preparation
      /\ prep[p].pc \in {"activating", "enabling"} <=> lock = p
      /\ prep[p].pc = "fitting" <=> gen = p
      /\ server = "down" => prep[p].pc = "idle"
  BY PrepBefore
<1>2. c \in Preparation /\ c.pc = prep[p].pc
  BY <1>1 DEF Preparation
<1>3. prep' = [prep EXCEPT ![p] = c] /\ UNCHANGED <<op, ledger, server, lock, gen>>
  BY DEF PrepCancel
<1> HIDE DEF c
<1> QED
  BY <1>1, <1>2, <1>3, PrepStep

\* A preparation that goes to another place.
LEMMA PrepGoesOn ==
  ASSUME OperationsInv, NEW p \in Preps,
         NEW l \in {"fit", "fitting", "activate", "activating", "enable", "enabling"},
         PrepGoes(p, l), prep[p].pc # "idle", UNCHANGED <<op, ledger, server>>,
         lock' = lock \/ (lock \in {None, p} /\ lock' \in {None, p}),
         gen' = gen \/ (gen \in {None, p} /\ gen' \in {None, p}),
         l \in {"activating", "enabling"} <=> lock' = p,
         l = "fitting" <=> gen' = p
  PROVE  OperationsInv'
<1> DEFINE c == [prep[p] EXCEPT !.pc = l]
<1>1. c \in Preparation /\ c.pc = l /\ server # "down"
  <2>1. l \in {"idle", "corpus", "fit", "fitting", "activate", "activating", "enable", "enabling"}
    OBVIOUS
  <2>2. c \in Preparation /\ c.pc = l
    BY <2>1, PrepBefore, Zenon
  <2>3. server # "down"
    BY PrepBefore
  <2> QED
    BY <2>2, <2>3
<1>2. prep' = [prep EXCEPT ![p] = c]
  <2>1. prep \in [Preps -> Preparation]
    BY Parts DEF Work, WorkTypes
  <2> QED
    BY <2>1 DEF PrepGoes
<1> HIDE DEF c
<1> QED
  BY <1>1, <1>2, PrepStep

\* A preparation that ends.
LEMMA PrepIsOver ==
  ASSUME OperationsInv, NEW p \in Preps, NEW how \in {"done", "error", "cancelled"},
         PrepEnds(p, how), UNCHANGED <<op, ledger, server>>,
         lock' = lock \/ (lock \in {None, p} /\ lock' \in {None, p}),
         gen' = gen \/ (gen \in {None, p} /\ gen' \in {None, p}),
         lock' # p, gen' # p
  PROVE  OperationsInv'
<1> DEFINE c == [pc |-> "idle", cancel |-> FALSE, end |-> how]
<1>1. c \in Preparation /\ c.pc = "idle"
  BY PrepBefore
<1>2. prep' = [prep EXCEPT ![p] = c]
  BY DEF PrepEnds
<1> HIDE DEF c
<1> QED
  BY <1>1, <1>2, PrepStep

\* Every step of a preparation, and its time-out.
LEMMA PreparesKeeps ==
  ASSUME OperationsInv, NEW p \in Preps, Prepares(p) \/ PrepTimesOut(p)
  PROVE  OperationsInv'
<1>0. /\ p # None
      /\ prep[p].pc \in {"activating", "enabling"} <=> lock = p
      /\ prep[p].pc = "fitting" <=> gen = p
  BY PrepBefore
<1>1. CASE PrepFetched(p)
  <2>1. /\ prep[p].pc = "corpus" /\ UNCHANGED <<op, ledger, server, lock, gen>>
        /\ PrepGoes(p, "activate") \/ PrepGoes(p, "fit")
    BY <1>1 DEF PrepFetched
  <2> QED
    BY <1>0, <2>1, PrepGoesOn
<1>2. CASE FitTakesModel(p)
  <2>1. /\ prep[p].pc = "fit" /\ UNCHANGED <<op, ledger, server, lock>>
        /\ gen = None /\ gen' = p /\ PrepGoes(p, "fitting")
    BY <1>2 DEF FitTakesModel
  <2> QED
    BY <1>0, <2>1, PrepGoesOn
<1>3. CASE FitFinishes(p)
  <2>1. /\ prep[p].pc = "fitting" /\ UNCHANGED <<op, ledger, server, lock>>
        /\ gen' = None /\ PrepGoes(p, "enable")
    BY <1>3 DEF FitFinishes
  <2> QED
    BY <1>0, <2>1, PrepGoesOn
<1>4. CASE PrepFails(p)
  <2>1. /\ prep[p].pc \in {"corpus", "fitting", "fit"} /\ UNCHANGED <<op, ledger, server, lock>>
        /\ gen' = IF gen = p THEN None ELSE gen
        /\ PrepEnds(p, "cancelled") \/ PrepEnds(p, "error")
    BY <1>4 DEF PrepFails
  <2> QED
    BY <1>0, <2>1, PrepIsOver
<1>5. CASE PrepGranted(p)
  <2>1. /\ prep[p].pc \in {"activate", "enable"} /\ UNCHANGED <<op, ledger, server, gen>>
        /\ lock = None /\ lock' = p
        /\ PrepGoes(p, "activating") \/ PrepGoes(p, "enabling")
    BY <1>5 DEF PrepGranted, Granted
  <2> QED
    BY <1>0, <2>1, PrepGoesOn
<1>6. CASE PrepUnlocks(p)
  <2>1. /\ prep[p].pc \in {"activating", "enabling"} /\ UNCHANGED <<op, ledger, server, gen>>
        /\ lock' = None
        /\ PrepGoes(p, "enable") \/ PrepEnds(p, "error") \/ PrepEnds(p, "done")
    BY <1>6 DEF PrepUnlocks
  <2>2. CASE PrepGoes(p, "enable")
    BY <1>0, <2>1, <2>2, PrepGoesOn
  <2>3. CASE PrepEnds(p, "error") \/ PrepEnds(p, "done")
    BY <1>0, <2>1, <2>3, PrepIsOver
  <2> QED
    BY <2>1, <2>2, <2>3
<1>7. CASE PrepTimesOut(p)
  <2>1. /\ prep[p].pc \in {"activate", "enable"} /\ UNCHANGED <<op, ledger, server, lock, gen>>
        /\ PrepEnds(p, "error") \/ PrepEnds(p, "done")
    BY <1>7 DEF PrepTimesOut
  <2> QED
    BY <1>0, <2>1, PrepIsOver
<1> QED
  BY <1>1, <1>2, <1>3, <1>4, <1>5, <1>6, <1>7 DEF Prepares

---------------------------------------------------------------------------
(* The shutdown.                                                           *)

\* The preparations are told to stop, and then everything has.
LEMMA StopPreparationsKeeps ==
  ASSUME OperationsInv, StopPreparations
  PROVE  OperationsInv'
<1>1. Work /\ Books(ledger) /\ Tells(op, ledger) /\ RunsOf(op, ledger)
  BY Parts
<1>2. /\ server' = "stopping" /\ UNCHANGED <<op, lock, gen, ledger>>
      /\ \A r \in Requests : Joined(r)
      /\ prep' = [p \in Preps |-> [prep[p] EXCEPT !.cancel = p = Fit /\ Preparing(p)]]
  BY DEF StopPreparations
<1>3. \A c \in Preparation, v \in BOOLEAN : /\ [c EXCEPT !.cancel = v] \in Preparation
                                            /\ [c EXCEPT !.cancel = v].pc = c.pc
  BY DEF Preparation
<1>4. prep' \in [Preps -> Preparation] /\ \A p \in Preps : prep'[p].pc = prep[p].pc
  BY <1>1, <1>2, <1>3 DEF Work, WorkTypes
<1>5. WorkTypes' /\ Stages' /\ BegunIsFinished'
  BY <1>1, <1>2, <1>4 DEF Work, WorkTypes, Stages, BegunIsFinished, Http
<1>6. HolderInv'
  BY <1>1, <1>2, <1>4 DEF Work, HolderInv, HoldsLock, HoldsModel
<1>7. JoinInv'
  BY <1>2 DEF JoinInv, Joined
<1> QED
  BY <1>1, <1>2, <1>5, <1>6, <1>7, PartsNext DEF Work

LEMMA DownKeeps ==
  ASSUME OperationsInv, Down
  PROVE  OperationsInv'
<1>1. Work /\ Books(ledger) /\ Tells(op, ledger) /\ RunsOf(op, ledger)
  BY Parts
<1>2. /\ server = "stopping" /\ server' = "down" /\ UNCHANGED <<op, lock, gen, ledger, prep>>
      /\ \A p \in Preps : ~Preparing(p)
  BY DEF Down
<1>3. WorkTypes' /\ Stages' /\ BegunIsFinished' /\ HolderInv'
  BY <1>1, <1>2 DEF Work, WorkTypes, Stages, BegunIsFinished, Http, HolderInv,
     HoldsLock, HoldsModel
<1>4. JoinInv'
  BY <1>1, <1>2 DEF Work, JoinInv, Joined, Preparing
<1> QED
  BY <1>1, <1>2, <1>3, <1>4, PartsNext DEF Work

\* The queued are cancelled, with their receipts.
LEMMA ShutdownKeeps ==
  ASSUME OperationsInv, Shutdown
  PROVE  OperationsInv'
<1>1. Work /\ Books(ledger) /\ Tells(op, ledger) /\ RunsOf(op, ledger)
  BY Parts
<1>2. op \in [Requests -> Operation] /\ prep \in [Preps -> Preparation]
  BY <1>1 DEF Work, WorkTypes
<1> DEFINE gone == {r \in Requests : Queued(r)}
           L == ledger
           M == ledger'
           over(r) == Over(r, "cancelled")
           stop(i) == [[L.rec[i] EXCEPT !.state = "interrupted"] EXCEPT !.error = TRUE]
<1>3. /\ server = "up" /\ server' = "joining" /\ UNCHANGED <<lock, gen, prep>>
      /\ op' = [r \in Requests |-> IF r \in gone THEN over(r) ELSE op[r]]
      /\ \A r \in Requests : op[r].pc \in {"unsent", "done"} \/ Abandoned(r)
  BY DEF Shutdown
<1>4. \A r \in gone : /\ op[r].pc = "queued" /\ op[r].mode = "sse" /\ ~op[r].ran
                      /\ op[r] \in Operation /\ r \in Requests
  BY <1>1, <1>2, <1>3 DEF Queued, At, Abandoned, Work, Stages, Stage
<1>5. \A r \in gone :
        /\ over(r) \in Operation /\ Stage(over(r)) /\ over(r).pc = "done"
        /\ over(r).end = "cancelled" /\ over(r).rows = <<>> /\ over(r).mode = op[r].mode
        /\ over(r).id = op[r].id /\ over(r).ran = op[r].ran
  <2> SUFFICES ASSUME NEW r \in gone, NEW o, o = over(r)
               PROVE  /\ o \in Operation /\ Stage(o) /\ o.pc = "done" /\ o.end = "cancelled"
                      /\ o.rows = <<>>
                      /\ o.mode = op[r].mode /\ o.id = op[r].id /\ o.ran = op[r].ran
    OBVIOUS
  <2>1. /\ op[r] \in Operation /\ op[r].mode \in {"sse", "json", "ws"}
        /\ op[r].id \in Ids \cup {None} /\ op[r].ran \in BOOLEAN
    BY <1>4 DEF Operation
  <2>2. /\ o.pc = "done" /\ o.end = "cancelled" /\ o.rows = <<>>
        /\ o.mode = op[r].mode /\ o.id = op[r].id /\ o.ran = op[r].ran
    BY DEF Over, Unsent
  <2>3. o \in Operation
    BY <2>1, EmptySeq DEF Over, Unsent, Operation, Ends
  <2>4. Stage(o)
    BY <2>2, OperationsConstants DEF Stage
  <2> QED
    BY <2>2, <2>3, <2>4
<1> HIDE DEF over
<1>6. /\ op' \in [Requests -> Operation]
      /\ \A r \in gone : op'[r] = over(r)
      /\ \A r \in Requests \ gone : op'[r] = op[r] /\ op[r].pc # "queued"
  <2>1. \A r \in Requests \ gone : op[r].pc # "queued"
    BY DEF Queued, At
  <2>2. op' = [r \in Requests |-> IF r \in gone THEN over(r) ELSE op[r]]
    BY <1>3 DEF over
  <2>3. \A r \in gone : r \in Requests /\ over(r) \in Operation
    BY <1>5
  <2> HIDE DEF gone
  <2> QED
    BY <1>2, <2>1, <2>2, <2>3
<1>7. Work'
  <2>1. WorkTypes' /\ Stages'
    <3>1. \A r \in Requests : Stage(op'[r])
      BY <1>1, <1>5, <1>6 DEF Work, Stages
    <3> QED
      BY <1>1, <1>3, <1>6, <3>1 DEF Work, WorkTypes, Stages
  <2>2. \A r \in Requests :
          /\ op'[r].pc \in {"held", "working", "row", "generating", "send"}
               <=> op[r].pc \in {"held", "working", "row", "generating", "send"}
          /\ op'[r].pc \in {"working", "generating"} <=> op[r].pc \in {"working", "generating"}
    BY <1>4, <1>5, <1>6
  <2>3. HolderInv'
    BY <1>1, <1>3, <2>2 DEF Work, HolderInv, HoldsLock, HoldsModel
  <2>4. JoinInv'
    BY <1>3 DEF JoinInv
  <2>5. BegunIsFinished'
    <3> SUFFICES ASSUME NEW r \in Requests, op'[r].end = "cancelled", op'[r].mode # "ws"
                 PROVE  ~op'[r].ran /\ (op'[r].id = None \/ server' # "up")
      BY DEF BegunIsFinished, Http
    <3>1. CASE r \in gone
      BY <1>3, <1>4, <1>5, <1>6, <3>1
    <3>2. CASE r \notin gone
      BY <1>1, <1>3, <1>6, <3>2 DEF Work, BegunIsFinished, Http
    <3> QED
      BY <3>1, <3>2
  <2> QED
    BY <2>1, <2>3, <2>4, <2>5 DEF Work
<1>8. /\ IsLedger(M) /\ M.order = L.order /\ M.charge = L.charge
      /\ M.rec = [i \in Known(L) |-> IF L.rec[i].by \in gone THEN stop(i) ELSE L.rec[i]]
  <2>1. IsLedger(L)
    BY <1>1 DEF Books, Shape
  <2> HIDE DEF gone
  <2>2. M = [L EXCEPT !.rec = [i \in Known(L) |->
                                 IF L.rec[i].by \in gone THEN stop(i) ELSE L.rec[i]]]
    BY <2>1 DEF Shutdown, IsLedger, Known, gone
  <2> QED
    BY <2>1, <2>2 DEF IsLedger
<1>9. \A i \in Known(L) :
        /\ L.rec[i] \in Entry /\ stop(i) \in Entry /\ stop(i).state = "interrupted"
        /\ stop(i).by = L.rec[i].by /\ stop(i).kind = L.rec[i].kind
        /\ stop(i).rows = L.rec[i].rows /\ stop(i).result = L.rec[i].result /\ stop(i).error
  <2> SUFFICES ASSUME NEW i \in Known(L)
               PROVE  /\ L.rec[i] \in Entry /\ stop(i) \in Entry /\ stop(i).state = "interrupted"
                      /\ stop(i).by = L.rec[i].by /\ stop(i).kind = L.rec[i].kind
                      /\ stop(i).rows = L.rec[i].rows /\ stop(i).result = L.rec[i].result /\ stop(i).error
    OBVIOUS
  <2> DEFINE e == L.rec[i]  d == [e EXCEPT !.state = "interrupted"]
  <2>1. e \in Entry
    BY <1>1 DEF Books, Shape
  <2> HIDE DEF e
  <2>2. /\ d \in Entry /\ d.state = "interrupted" /\ d.by = e.by /\ d.kind = e.kind
        /\ d.rows = e.rows /\ d.result = e.result
    <3>1. "interrupted" \in States
      BY DEF States, Terminal
    <3> QED
      BY <2>1, <3>1, EntryFields, SMTT(30)
  <2> HIDE DEF d
  <2>3. LET n == [d EXCEPT !.error = TRUE] IN
        /\ n \in Entry /\ n.state = "interrupted" /\ n.by = e.by /\ n.kind = e.kind
        /\ n.rows = e.rows /\ n.result = e.result /\ n.error
    BY <2>2, EntryFields, ZenonT(60)
  <2> QED
    BY <2>1, <2>3 DEF d, e
<1> HIDE DEF stop, gone
<1>10. /\ Known(M) = Known(L) /\ M.rec \in [Known(L) -> Entry]
       /\ \A i \in Known(L) : M.rec[i] = IF L.rec[i].by \in gone THEN stop(i) ELSE L.rec[i]
  BY <1>8, <1>9 DEF Known
<1>11. \A i \in Known(L) : M.rec[i].by = L.rec[i].by /\ M.rec[i].kind = L.rec[i].kind
                           /\ M.rec[i].rows = L.rec[i].rows /\ M.rec[i].result = L.rec[i].result
  BY <1>9, <1>10
<1>12. Books(M)
  <2>1. Shape(M)
    BY <1>1, <1>8, <1>10 DEF Books, Shape
  <2>2. Charged(M)
    BY <1>1, <1>8, <1>10, <1>11 DEF Books, Charged
  <2>3. Sorted(M)
    BY <1>1, <1>8, <1>10 DEF Books, Sorted, Ordered
  <2>4. LiveIds(M) \in SUBSET LiveIds(L)
    BY <1>9, <1>10 DEF LiveIds, Live, Terminal
  <2>5. Fits(M)
    <3>1. Shape(L) /\ Fits(L)
      BY <1>1 DEF Books
    <3>2. Cardinality(LiveIds(M)) <= Cardinality(LiveIds(L))
      BY <2>4, <3>1, KnownIsFinite, FS_Subset
    <3> QED
      BY <1>10, <2>1, <3>1, <3>2, KnownIsFinite, OperationsConstants DEF Fits
  <2> QED
    BY <2>1, <2>2, <2>3, <2>5 DEF Books
<1>13. Tells(op', M)
  <2> SUFFICES ASSUME NEW i \in Known(M)
               PROVE  /\ op'[M.rec[i].by].id = i
                      /\ RecordTells(M.rec[i], op'[M.rec[i].by], i \in DOMAIN M.charge)
    BY DEF Tells
  <2> DEFINE q == L.rec[i].by  c == L.rec[i]  o == op[q]
  <2>1. i \in Known(L) /\ M.rec[i].by = q /\ q \in Requests
    BY <1>9, <1>10, <1>11, EntryFields
  <2>2. o.id = i /\ RecordTells(c, o, i \in DOMAIN M.charge)
    BY <1>1, <1>8, <2>1 DEF Tells
  <2>3. CASE q \notin gone
    BY <1>6, <1>10, <2>1, <2>2, <2>3
  <2>4. CASE q \in gone
    <3> DEFINE n == op'[q]  m == M.rec[i]
    <3>1. m.state = "interrupted" /\ m.kind = c.kind /\ m.error
      BY <1>9, <1>10, <2>1, <2>4
    <3>2. n.id = o.id /\ n.pc = "done" /\ n.mode = o.mode /\ ~n.ran /\ n.end = "cancelled"
      BY <1>4, <1>5, <1>6, <2>4
    <3> HIDE DEF n, m, c, o
    <3>3. RecordTells(m, n, i \in DOMAIN M.charge)
      BY <2>2, <3>1, <3>2 DEF RecordTells, Terminal
    <3> QED
      BY <2>1, <2>2, <3>2, <3>3 DEF n, m
  <2> QED
    BY <2>3, <2>4
<1>14. RunsOf(op', M)
  <2> SUFFICES ASSUME NEW r \in Requests, op'[r].id # None, op'[r].pc \notin {"unsent", "done"}
               PROVE  /\ op'[r].id \in Known(M) /\ M.rec[op'[r].id].by = r
                      /\ M.rec[op'[r].id].rows = op'[r].rows
    BY DEF RunsOf
  <2>1. r \notin gone /\ op'[r] = op[r]
    BY <1>5, <1>6
  <2> QED
    BY <1>1, <1>10, <1>11, <2>1 DEF RunsOf
<1> QED
  BY <1>7, <1>12, <1>13, <1>14, PartsNext

---------------------------------------------------------------------------
(* The theorems.                                                           *)

LEMMA InitHolds == Init => OperationsInv
<1> SUFFICES ASSUME Init PROVE OperationsInv
  OBVIOUS
<1>1. /\ op = [r \in Requests |-> Unsent] /\ lock = None /\ gen = None /\ server = "up"
      /\ prep = [p \in Preps |-> [pc |-> "idle", cancel |-> FALSE, end |-> None]]
      /\ ledger = [rec |-> <<>>, order |-> <<>>, charge |-> <<>>, kept |-> <<>>]
  BY DEF Init
<1>2. Unsent \in Operation /\ Stage(Unsent)
  BY EmptySeq, OperationsConstants DEF Unsent, Operation, Stage
<1>3. \A r \in Requests : op[r] = Unsent
  BY <1>1
<1>4. \A p \in Preps : prep[p].pc = "idle" /\ prep[p] \in Preparation
  BY <1>1 DEF Preparation
<1>5. WorkTypes /\ Stages
  BY <1>1, <1>2, <1>3, <1>4 DEF WorkTypes, Stages
<1>6. HolderInv
  BY <1>1, <1>3, <1>4, OperationsConstants DEF HolderInv, HoldsLock, HoldsModel,
     Unsent
<1>7. JoinInv /\ BegunIsFinished
  BY <1>1, <1>3, OperationsConstants DEF JoinInv, BegunIsFinished, Unsent, Ends
<1>8. /\ Known(ledger) = {} /\ DOMAIN ledger.charge = {} /\ ledger.order = <<>>
      /\ ledger.rec = <<>>
  BY <1>1 DEF Known
<1>9. Shape(ledger) /\ Charged(ledger)
  <2>1. IsLedger(ledger)
    BY <1>1 DEF IsLedger
  <2>2. ledger.rec \in [{} -> Entry]
    BY <1>8
  <2> QED
    BY <1>8, <2>1, <2>2 DEF Shape, Charged
<1>10. Sorted(ledger)
  BY <1>8, EmptySeq DEF Sorted, Ordered
<1>11. Fits(ledger)
  <2>1. LiveIds(ledger) = {}
    BY <1>8 DEF LiveIds
  <2> QED
    BY <1>8, <2>1, FS_EmptySet, OperationsConstants DEF Fits
<1>12. Tells(op, ledger) /\ RunsOf(op, ledger)
  BY <1>3, <1>8 DEF Tells, RunsOf, Unsent
<1> QED
  BY <1>5, <1>6, <1>7, <1>9, <1>10, <1>11, <1>12, Parts DEF Work, Books

LEMMA StepHolds == OperationsInv /\ [Next]_vars => OperationsInv'
<1> SUFFICES ASSUME OperationsInv, [Next]_vars PROVE OperationsInv'
  OBVIOUS
<1>1. ASSUME NEW r \in Requests, Submits(r) PROVE OperationsInv'
  <2>1. PICK mode \in {"sse", "json", "ws"}, i \in Ids \cup {None}, params \in Params :
          (mode = "ws" => i # None) /\ Submit(r, mode, i, params)
    BY <1>1, Zenon DEF Submits
  <2> QED
    BY <2>1, SubmitKeeps
<1>2. ASSUME NEW r \in Requests, Runs(r) PROVE OperationsInv'
  <2>1. ASSUME NEW size \in 1..(MaxResult + 1), JobSucceeds(r, size) PROVE OperationsInv'
    BY <2>1, JobSucceedsKeeps, OperationsConstants
  <2>2. ASSUME NEW reason \in {"stop", "length"}, RowEnds(r, reason) PROVE OperationsInv'
    BY <2>2, RowEndsKeeps
  <2>3. ASSUME NEW reason \in {"ended", "cancelled", "error"}, FanIsLeft(r, reason)
        PROVE  OperationsInv'
    BY <2>3, FanIsLeftKeeps
  <2>4. Starts(r) \/ TakesModel(r) \/ FanStarts(r) \/ RowStarts(r) => OperationsInv'
    BY StartsKeeps, TakesModelKeeps, FanStartsKeeps, RowStartsKeeps
  <2>5. JobFails(r) \/ AnswerFails(r) \/ RowFails(r) \/ RowSent(r) => OperationsInv'
    BY JobFailsKeeps, AnswerFailsKeeps, RowFailsKeeps, RowSentKeeps
  <2> QED
    BY <1>2, <2>1, <2>2, <2>3, <2>4, <2>5 DEF Runs
<1>3. ASSUME NEW r \in Requests, ClientLeaves(r) \/ LockTimesOut(r) \/ ClientStops(r)
      PROVE  OperationsInv'
  BY <1>3, ClientLeavesKeeps, LockTimesOutKeeps, ClientStopsKeeps
<1>7. ASSUME NEW r \in Requests, NEW reason \in {"ended", "cancelled", "error"},
             NEW reported \in BOOLEAN, SendFails(r, reason, reported)
      PROVE  OperationsInv'
  BY <1>7, SendFailsKeeps
<1>4. ASSUME NEW p \in Preps, PrepStart(p) \/ PrepCancel(p) \/ Prepares(p) \/ PrepTimesOut(p)
      PROVE  OperationsInv'
  BY <1>4, PrepStartKeeps, PrepCancelKeeps, PreparesKeeps
<1>5. Shutdown \/ StopPreparations \/ Down => OperationsInv'
  BY ShutdownKeeps, StopPreparationsKeeps, DownKeeps
<1>6. CASE UNCHANGED vars
  <2>1. UNCHANGED <<op, ledger, prep, lock, gen, server>>
    BY <1>6 DEF vars
  <2>2. Work /\ Books(ledger) /\ Tells(op, ledger) /\ RunsOf(op, ledger)
    BY Parts
  <2>3. Work'
    BY <2>1, <2>2 DEF Work, WorkTypes, Stages, HolderInv, HoldsLock, HoldsModel,
       JoinInv, Joined,
       Preparing, BegunIsFinished, Http
  <2> QED
    BY <2>1, <2>2, <2>3, PartsNext
<1> QED
  BY <1>1, <1>2, <1>3, <1>4, <1>5, <1>6, <1>7 DEF Next

\* The inductive invariant of the operations, their lock and their receipts.
THEOREM OperationsInvariant == Spec => []OperationsInv
<1>1. Init => OperationsInv
  BY InitHolds
<1>2. OperationsInv /\ [Next]_vars => OperationsInv'
  BY StepHolds
<1> QED
  BY <1>1, <1>2, PTL DEF Spec

\* What a receipt says is what its operation did, the operation under way under
\* an id keeps its receipt, and the ledger stays bounded (operations.py).
THEOREM ReceiptsTellTheTruth == Spec => []ReceiptsAreTrue
<1>1. OperationsInv => ReceiptsAreTrue
  BY DEF OperationsInv, ReceiptInv, ReceiptsAreTrue, ReceiptsAreKept
<1> QED
  BY <1>1, OperationsInvariant, PTL

\* Nobody abandons a job that has begun, and the server goes down only when no
\* worker is left (_observe, OperationTasks.shutdown).
THEOREM BegunWorkIsFinished == Spec => []NothingIsAbandoned
<1>1. OperationsInv => NothingIsAbandoned
  <2> SUFFICES ASSUME OperationsInv PROVE NothingIsAbandoned
    OBVIOUS
  <2>1. Work
    BY Parts
  <2>2. ASSUME server = "down" PROVE DownLeavesNoWorker
    <3>1. \A r \in Requests : op[r].pc \in {"unsent", "done"}
      BY <2>1, <2>2 DEF Work, JoinInv, Joined
    <3>2. \A p \in Preps : ~Preparing(p)
      BY <2>1, <2>2 DEF Work, JoinInv
    <3>3. \A x \in Requests \cup Preps : ~HoldsLock(x) /\ ~HoldsModel(x)
      BY <3>1, <3>2, OperationsConstants DEF HoldsLock, HoldsModel, Preparing
    <3>4. lock = None /\ gen = None
      BY <2>1, <3>3 DEF Work, WorkTypes, HolderInv
    <3> QED
      BY <3>1, <3>2, <3>4 DEF DownLeavesNoWorker
  <2> QED
    BY <2>1, <2>2 DEF NothingIsAbandoned, DownLeavesNoWorker, Work
<1> QED
  BY <1>1, OperationsInvariant, PTL
=============================================================================
