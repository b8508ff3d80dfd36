------------------------- MODULE DrowseSessionProofs -------------------------
(***************************************************************************)
(* Proofs about DrowseSession, for any threads, expressions and bounds.    *)
(*                                                                         *)
(*   InductiveInvariant            the lock, the phase and the program     *)
(*                                 counters agree                          *)
(*   TypeCorrect                   a consequence                           *)
(*   DeviceExclusion               one device user, when every call locks  *)
(*   SessionImplementsModelAccess  the refinement of ModelAccess           *)
(*   SteeringIsStableInDecode      the hooks of a decode never move        *)
(*                                                                         *)
(*   SessionInvariant              the inductive invariant of the session  *)
(*   ReleasedWhenIdle              an idle session holds nothing           *)
(*   SteeringIsTheStack            what is installed and bound is the      *)
(*                                 stack's                                 *)
(*   FitsAreUnsteered              a fit never runs under steering         *)
(*   StopTakesOneStep              a stopped decode finishes one forward   *)
(*   PrefixStaysNeutral            with one thread, a cached prefix is     *)
(*                                 clean                                   *)
(***************************************************************************)
EXTENDS DrowseSession, TLAPS, SequenceTheorems

\* The composed plan of a stack is a sequence of expressions.
LEMMA PlanType ==
  ASSUME NEW s \in Seq(Frames)
  PROVE  PlanOf(s) \in Seq(Kinds)
<1>1. \A i \in 1..Len(s) : s[i] \in Frames
  BY ElementOfSeq
<1>a. \A i \in 1..Len(s) : s[i].kind \in Kinds
  BY <1>1 DEF Frames
<1>2. Len(s) \in Nat
  OBVIOUS
<1> QED
  BY <1>a, <1>2, IsASeq DEF PlanOf

\* Every prefix of a sequence is a sequence over the same set.
LEMMA PrefixType ==
  ASSUME NEW S, NEW s \in Seq(S), NEW n \in Int, n <= Len(s)
  PROVE  SubSeq(s, 1, n) \in Seq(S)
<1>1. CASE n >= 1
  BY <1>1, SubSeqProperties
<1>2. CASE n < 1
  BY <1>2, SubSeqEmpty
<1> QED
  BY <1>1, <1>2

\* Popping a frame leaves a stack and roles of the right type.
LEMMA PopFrameType ==
  ASSUME SteeringTypeOK, PopFrame
  PROVE  /\ stack' \in Seq(Frames)
         /\ roles' \in Seq([depth : Nat, role : Voiced])
<1>1. Popped \in Seq(Frames)
  BY PrefixType DEF SteeringTypeOK, Popped
<1>2. PICK n \in 0..Len(roles) : roles' = SubSeq(roles, 1, n)
  BY DEF PopFrame, DropOrphanRoles
<1>3. roles' \in Seq([depth : Nat, role : Voiced])
  <2> DEFINE R == [depth : Nat, role : Voiced]
  <2>1. roles \in Seq(R) /\ n \in Int /\ n <= Len(roles)
    BY <1>2 DEF SteeringTypeOK
  <2> HIDE DEF R
  <2>2. SubSeq(roles, 1, n) \in Seq(R)
    BY <2>1, PrefixType
  <2> QED
    BY <1>2, <2>2 DEF R
<1> QED
  BY <1>1, <1>3 DEF PopFrame

\* So does pushing one.
LEMMA PushFrameType ==
  ASSUME SteeringTypeOK, NEW t \in Threads, NEW k \in Kinds, PushFrame(t, k)
  PROVE  /\ stack' \in Seq(Frames)
         /\ roles' \in Seq([depth : Nat, role : Voiced])
<1>1. [by |-> t, gen |-> InGeneration(t), kind |-> k] \in Frames
  BY DEF Frames, InGeneration
<1>2. stack' \in Seq(Frames)
  BY <1>1, AppendProperties DEF PushFrame, SteeringTypeOK
<1>3. k \in Voiced =>
        [depth |-> Len(stack) + 1, role |-> k] \in [depth : Nat, role : Voiced]
  BY DEF SteeringTypeOK
<1>4. roles' \in Seq([depth : Nat, role : Voiced])
  BY <1>3, AppendProperties DEF PushFrame, SteeringTypeOK
<1> QED
  BY <1>2, <1>4

\* A rebuild installs a plan of expressions and leaves a prefix of a known kind.
LEMMA ReinstallType ==
  ASSUME SteeringTypeOK, NEW s \in Seq(Frames), NEW ok \in BOOLEAN,
         Reinstall(s, ok)
  PROVE  /\ installed' \in Seq(Kinds)
         /\ prefix' \in {"none", "clean", "steered"}
BY PlanType DEF Reinstall, PrefixAfter, SteeringTypeOK

\* What a step changes of the transaction keeps it a transaction.
LEMMA TxnType ==
  /\ \A k \in Kinds \cup {None} : NewTxn(k) \in Txns
  /\ NoTxn \in Txns
  /\ txn \in Txns =>
       /\ [txn EXCEPT !.failed = TRUE] \in Txns
       /\ [txn EXCEPT !.scoped = TRUE] \in Txns
       /\ txn.tokens < MaxTokens => [txn EXCEPT !.tokens = @ + 1] \in Txns
<1> USE BoundsAssumption DEF Txns
<1>1. \A k \in Kinds \cup {None} : NewTxn(k) \in Txns
  BY DEF NewTxn
<1>2. NoTxn \in Txns
  BY <1>1 DEF NoTxn
<1>3. ASSUME txn \in Txns
      PROVE  /\ [txn EXCEPT !.failed = TRUE] \in Txns
             /\ [txn EXCEPT !.scoped = TRUE] \in Txns
  BY <1>3
<1>4. ASSUME txn \in Txns, txn.tokens < MaxTokens
      PROVE  [txn EXCEPT !.tokens = @ + 1] \in Txns
  <2>1. txn.tokens + 1 \in 0..MaxTokens
    BY <1>4
  <2> QED
    BY <1>4, <2>1
<1> QED
  BY <1>1, <1>2, <1>3, <1>4

\* A refused call only returns, to where its thread called from.
LEMMA RefuseStep ==
  ASSUME IInv, NEW t \in Threads, MayCall(t), Refuse(t)
  PROVE  IInv'
<1> USE ThreadsAssumption, KindsAssumption, BoundsAssumption
    DEF IInv, TypeOK, lockVars, steerVars, histVars, Threads, InGeneration,
        Generating, LockedPCs, PreamblePCs, DecodePCs
<1> USE DEF Refuse, MayCall, GoTo, Back
<1>1. ControlTypeOK'
  BY DEF ControlTypeOK, LockInv, PhaseInv, PCs, WaitingPCs, UnlockedDevicePCs,
     Phases, Resources
<1>2. SteeringTypeOK'
  BY DEF SteeringTypeOK
<1>3. txn' \in Txns
  OBVIOUS
<1>4. LockInv'
  BY DEF ControlTypeOK, LockInv, PhaseInv
<1>5. PhaseInv'
  BY DEF ControlTypeOK, LockInv, PhaseInv, Phases
<1>6. ArgInv'
  BY DEF ControlTypeOK, LockInv, PhaseInv, ArgInv
<1> QED
  BY <1>1, <1>2, <1>3, <1>4, <1>5, <1>6

\* A model operation is refused, or runs in a locked section of its own.
LEMMA ExclusiveStep ==
  ASSUME IInv, NEW t \in Threads, NEW g \in BOOLEAN, NEW u \in BOOLEAN,
         u => g, Exclusive(t, g, u)
  PROVE  IInv'
<1> SUFFICES ASSUME ~Refuse(t)
             PROVE  IInv'
  BY RefuseStep DEF Exclusive
<1> USE ThreadsAssumption, KindsAssumption, BoundsAssumption
    DEF IInv, TypeOK, lockVars, steerVars, histVars, Threads, InGeneration,
        Generating, LockedPCs, PreamblePCs, DecodePCs
<1> USE DEF Exclusive, MayCall, CanLock, Acquire, GoTo
<1>0. lockDepth \in 0..1 /\ lockDepth' \in 0..2
  BY DEF ControlTypeOK, LockInv, PhaseInv
<1>1. ControlTypeOK'
  <2>1. pc' \in [Threads -> PCs]
    BY DEF ControlTypeOK, PCs
  <2> QED
    BY <1>0, <2>1 DEF ControlTypeOK
<1>2. SteeringTypeOK'
  BY DEF SteeringTypeOK
<1>3. txn' \in Txns
  OBVIOUS
<1>4. LockInv'
  BY DEF ControlTypeOK, LockInv, PhaseInv
<1>5. PhaseInv'
  BY DEF ControlTypeOK, LockInv, PhaseInv, Phases
<1>6. ArgInv'
  BY DEF ControlTypeOK, LockInv, PhaseInv, ArgInv
<1> QED
  BY <1>1, <1>2, <1>3, <1>4, <1>5, <1>6

\* Every step preserves the inductive invariant.
LEMMA IInvStep ==
  ASSUME IInv, [Next]_vars
  PROVE  IInv'
<1> USE ThreadsAssumption, KindsAssumption, BoundsAssumption
    DEF IInv, TypeOK, lockVars, steerVars, histVars, Threads, InGeneration,
        Generating, LockedPCs, PreamblePCs, DecodePCs
<1>1. ASSUME NEW t \in Threads, NEW k \in Kinds, PushCall(t, k)
      PROVE  IInv'
  <2> USE <1>1 DEF PushCall, GoTo, Back
  <2>1. ControlTypeOK'
    BY DEF ControlTypeOK, LockInv, PhaseInv, MayCall, RefusesSteering,
       MidGeneration,
           Refused, PCs, WaitingPCs, UnlockedDevicePCs, Phases, Resources
  <2>2. SteeringTypeOK'
    BY DEF SteeringTypeOK
  <2>3. txn' \in Txns
    OBVIOUS
  <2>4. LockInv'
    BY DEF ControlTypeOK, LockInv, PhaseInv, MayCall, RefusesSteering, MidGeneration
  <2>5. PhaseInv'
    BY DEF ControlTypeOK, LockInv, PhaseInv, Phases, MayCall, RefusesSteering,
           MidGeneration
  <2>6. ArgInv'
    BY DEF ControlTypeOK, LockInv, PhaseInv, ArgInv, MayCall, RefusesSteering,
           MidGeneration
  <2> QED
    BY <2>1, <2>2, <2>3, <2>4, <2>5, <2>6
<1>2. ASSUME NEW t \in Threads, PopCall(t)
      PROVE  IInv'
  <2> USE <1>2 DEF PopCall, GoTo, Back
  <2>1. ControlTypeOK'
    BY DEF ControlTypeOK, LockInv, PhaseInv, MayCall, RefusesSteering,
       MidGeneration,
           Refused, PCs, WaitingPCs, UnlockedDevicePCs, Phases, Resources
  <2>2. SteeringTypeOK'
    BY DEF SteeringTypeOK, MayCall
  <2>3. txn' \in Txns
    OBVIOUS
  <2>4. LockInv'
    BY DEF ControlTypeOK, LockInv, PhaseInv, MayCall, RefusesSteering, MidGeneration
  <2>5. PhaseInv'
    BY DEF ControlTypeOK, LockInv, PhaseInv, Phases, MayCall, RefusesSteering,
           MidGeneration
  <2>6. ArgInv'
    BY DEF ControlTypeOK, LockInv, PhaseInv, ArgInv, MayCall, RefusesSteering,
           MidGeneration
  <2> QED
    BY <2>1, <2>2, <2>3, <2>4, <2>5, <2>6
<1>3. ASSUME NEW t \in Threads, NEW k \in Kinds \cup {None}, Generate(t, k)
      PROVE  IInv'
  <2> USE <1>3 DEF Generate, BeginTransaction, CanBegin, CanLock, Acquire, GoTo, Back
  <2>1. ControlTypeOK'
    BY DEF ControlTypeOK, LockInv, PhaseInv, MayCall, PCs, WaitingPCs,
           UnlockedDevicePCs, Phases, Resources
  <2>2. SteeringTypeOK'
    BY DEF SteeringTypeOK
  <2>3. txn' \in Txns
    BY TxnType
  <2>4. LockInv'
    BY DEF ControlTypeOK, LockInv, PhaseInv, MayCall
  <2>5. PhaseInv'
    BY DEF ControlTypeOK, LockInv, PhaseInv, Phases, MayCall
  <2>6. ArgInv'
    BY DEF ControlTypeOK, LockInv, PhaseInv, ArgInv, MayCall, NewTxn
  <2> QED
    BY <2>1, <2>2, <2>3, <2>4, <2>5, <2>6
<1>4. ASSUME NEW t \in Threads, Stop(t)
      PROVE  IInv'
  BY <1>4 DEF Stop, GoTo, Back, MayCall, ControlTypeOK, SteeringTypeOK, LockInv,
     PhaseInv, ArgInv, PCs, WaitingPCs, UnlockedDevicePCs, Phases, Resources
<1>5. ASSUME NEW t \in Threads, ModelOp(t)
      PROVE  IInv'
  BY <1>5, ExclusiveStep DEF ModelOp
<1>6. ASSUME NEW t \in Threads, Fit(t)
      PROVE  IInv'
  BY <1>6, ExclusiveStep DEF Fit
<1>7. ASSUME NEW t \in Threads, CachePrefix(t)
      PROVE  IInv'
  <2> SUFFICES ASSUME ~Refuse(t)
               PROVE  IInv'
    BY <1>7, RefuseStep DEF CachePrefix
  <2> USE <1>7 DEF CachePrefix, GoTo, Back, Unsteered
  <2>1. ControlTypeOK'
    <3>1. pc' \in [Threads -> PCs]
      BY DEF ControlTypeOK, PCs, WaitingPCs
    <3> QED
      BY <3>1 DEF ControlTypeOK
  <2>2. SteeringTypeOK'
    BY DEF SteeringTypeOK
  <2>3. txn' \in Txns
    OBVIOUS
  <2>4. LockInv'
    BY DEF ControlTypeOK, LockInv, PhaseInv, MayCall
  <2>5. PhaseInv'
    BY DEF ControlTypeOK, LockInv, PhaseInv, Phases, MayCall
  <2>6. ArgInv'
    BY DEF ControlTypeOK, LockInv, PhaseInv, ArgInv, MayCall
  <2> QED
    BY <2>1, <2>2, <2>3, <2>4, <2>5, <2>6
<1>8. ASSUME NEW t \in Threads, JointLogprobs(t)
      PROVE  IInv'
  BY <1>8 DEF JointLogprobs, GoTo, ControlTypeOK, SteeringTypeOK, LockInv,
     PhaseInv, ArgInv, PCs, WaitingPCs, UnlockedDevicePCs, Phases, Resources
<1>9. ASSUME NEW c \in Callers, NEW w \in Workers, NEW k \in Kinds \cup {None}, StartStream(c, w, k)
      PROVE  IInv'
  BY <1>9 DEF StartStream, GoTo, ControlTypeOK, SteeringTypeOK, LockInv,
     PhaseInv, ArgInv, PCs, WaitingPCs, UnlockedDevicePCs, Phases, Resources
<1>10. ASSUME NEW c \in Callers, CloseStream(c)
       PROVE  IInv'
  BY <1>10 DEF CloseStream, GoTo, ControlTypeOK, SteeringTypeOK, LockInv,
     PhaseInv, ArgInv, PCs, WaitingPCs, UnlockedDevicePCs, Phases, Resources
<1>11. ASSUME NEW c \in Callers, JoinStream(c)
       PROVE  IInv'
  <2> USE <1>11 DEF JoinStream, GoTo
  <2>1. ControlTypeOK'
    BY DEF ControlTypeOK, LockInv, PhaseInv, PCs, WaitingPCs, UnlockedDevicePCs,
           Phases, Resources
  <2>2. SteeringTypeOK'
    BY DEF SteeringTypeOK
  <2>3. txn' \in Txns
    OBVIOUS
  <2>4. LockInv'
    BY DEF ControlTypeOK, LockInv, PhaseInv
  <2>5. PhaseInv'
    BY DEF ControlTypeOK, LockInv, PhaseInv, Phases
  <2>6. ArgInv'
    BY DEF ControlTypeOK, LockInv, PhaseInv, ArgInv
  <2> QED
    BY <2>1, <2>2, <2>3, <2>4, <2>5, <2>6
<1>12. ASSUME NEW t \in Threads, PushAcquire(t)
       PROVE  IInv'
  <2> USE <1>12 DEF PushAcquire, CanLock, Acquire, GoTo
  <2>1. ControlTypeOK'
    BY DEF ControlTypeOK, LockInv, PhaseInv, PCs, WaitingPCs, UnlockedDevicePCs,
           Phases, Resources
  <2>2. SteeringTypeOK'
    BY PushFrameType DEF SteeringTypeOK, ArgInv, ControlTypeOK
  <2>3. txn' \in Txns
    OBVIOUS
  <2>4. LockInv'
    BY DEF ControlTypeOK, LockInv, PhaseInv
  <2>5. PhaseInv'
    BY DEF ControlTypeOK, LockInv, PhaseInv, Phases
  <2>6. ArgInv'
    BY DEF ControlTypeOK, LockInv, PhaseInv, ArgInv
  <2> QED
    BY <2>1, <2>2, <2>3, <2>4, <2>5, <2>6
<1>13. ASSUME NEW t \in Threads, PushDone(t)
       PROVE  IInv'
  <2> USE <1>13 DEF PushDone, Release, GoTo
  <2>1. ControlTypeOK'
    BY DEF ControlTypeOK, LockInv, PhaseInv, PCs, WaitingPCs, UnlockedDevicePCs,
           Phases, Resources
  <2>2. SteeringTypeOK'
    <3>1. installed' \in Seq(Kinds)
      BY PlanType DEF SteeringTypeOK
    <3>2. entered' \in [Callers -> Nat]
      BY DEF SteeringTypeOK
    <3> QED
      BY <3>1, <3>2 DEF SteeringTypeOK, PrefixAfter
  <2>3. txn' \in Txns
    BY TxnType
  <2>4. LockInv'
    BY DEF ControlTypeOK, LockInv, PhaseInv
  <2>5. PhaseInv'
    BY DEF ControlTypeOK, LockInv, PhaseInv, Phases
  <2>6. ArgInv'
    BY DEF ControlTypeOK, LockInv, PhaseInv, ArgInv
  <2> QED
    BY <2>1, <2>2, <2>3, <2>4, <2>5, <2>6
<1>14. ASSUME NEW t \in Threads, PushFail(t)
       PROVE  IInv'
  <2> USE <1>14 DEF PushFail, Release, GoTo
  <2>1. ControlTypeOK'
    BY DEF ControlTypeOK, LockInv, PhaseInv, PCs, WaitingPCs, UnlockedDevicePCs,
           Phases, Resources
  <2>2. SteeringTypeOK'
    BY PopFrameType DEF SteeringTypeOK
  <2>3. txn' \in Txns
    BY TxnType
  <2>4. LockInv'
    BY DEF ControlTypeOK, LockInv, PhaseInv
  <2>5. PhaseInv'
    BY DEF ControlTypeOK, LockInv, PhaseInv, Phases
  <2>6. ArgInv'
    BY DEF ControlTypeOK, LockInv, PhaseInv, ArgInv
  <2> QED
    BY <2>1, <2>2, <2>3, <2>4, <2>5, <2>6
<1>15. ASSUME NEW t \in Threads, PopAcquire(t)
       PROVE  IInv'
  <2> USE <1>15 DEF PopAcquire, CanLock, Acquire, GoTo
  <2>1. ControlTypeOK'
    BY DEF ControlTypeOK, LockInv, PhaseInv, PCs, WaitingPCs, UnlockedDevicePCs,
           Phases, Resources
  <2>2. SteeringTypeOK'
    BY PopFrameType DEF SteeringTypeOK
  <2>3. txn' \in Txns
    OBVIOUS
  <2>4. LockInv'
    BY DEF ControlTypeOK, LockInv, PhaseInv
  <2>5. PhaseInv'
    BY DEF ControlTypeOK, LockInv, PhaseInv, Phases
  <2>6. ArgInv'
    BY DEF ControlTypeOK, LockInv, PhaseInv, ArgInv
  <2> QED
    BY <2>1, <2>2, <2>3, <2>4, <2>5, <2>6
<1>16. ASSUME NEW t \in Threads, NEW ok \in BOOLEAN, PopDone(t, ok)
       PROVE  IInv'
  <2> USE <1>16 DEF PopDone, Release, GoTo
  <2>1. ControlTypeOK'
    BY DEF ControlTypeOK, LockInv, PhaseInv, PCs, WaitingPCs, UnlockedDevicePCs,
           Phases, Resources
  <2>2. SteeringTypeOK'
    BY ReinstallType DEF SteeringTypeOK
  <2>3. txn' \in Txns
    OBVIOUS
  <2>4. LockInv'
    BY DEF ControlTypeOK, LockInv, PhaseInv
  <2>5. PhaseInv'
    BY DEF ControlTypeOK, LockInv, PhaseInv, Phases
  <2>6. ArgInv'
    BY DEF ControlTypeOK, LockInv, PhaseInv, ArgInv
  <2> QED
    BY <2>1, <2>2, <2>3, <2>4, <2>5, <2>6
<1>17. ASSUME NEW t \in Threads, WorkerStarts(t)
       PROVE  IInv'
  <2> USE <1>17 DEF WorkerStarts, BeginTransaction, CanBegin, CanLock, Acquire, GoTo,
          Back
  <2>1. ControlTypeOK'
    BY DEF ControlTypeOK, LockInv, PhaseInv, PCs, WaitingPCs, UnlockedDevicePCs,
           Phases, Resources
  <2>2. SteeringTypeOK'
    BY DEF SteeringTypeOK
  <2>3. txn' \in Txns
    BY TxnType DEF ControlTypeOK
  <2>4. LockInv'
    BY DEF ControlTypeOK, LockInv, PhaseInv
  <2>5. PhaseInv'
    BY DEF ControlTypeOK, LockInv, PhaseInv, Phases
  <2>6. ArgInv'
    BY DEF ControlTypeOK, LockInv, PhaseInv, ArgInv, NewTxn
  <2> QED
    BY <2>1, <2>2, <2>3, <2>4, <2>5, <2>6
<1>18. ASSUME NEW t \in Threads, Resolve(t)
       PROVE  IInv'
  <2> USE <1>18 DEF Resolve, Fails, GoTo
  <2>1. ControlTypeOK'
    BY DEF ControlTypeOK, LockInv, PhaseInv, PCs, WaitingPCs, UnlockedDevicePCs,
           Phases, Resources
  <2>2. SteeringTypeOK'
    BY DEF SteeringTypeOK
  <2>3. txn' \in Txns
    BY TxnType
  <2>4. LockInv'
    BY DEF ControlTypeOK, LockInv, PhaseInv
  <2>5. PhaseInv'
    BY DEF ControlTypeOK, LockInv, PhaseInv, Phases
  <2>6. ArgInv'
    BY DEF ControlTypeOK, LockInv, PhaseInv, ArgInv
  <2> QED
    BY <2>1, <2>2, <2>3, <2>4, <2>5, <2>6
<1>19. ASSUME NEW t \in Threads, StartLoomTurn(t)
       PROVE  IInv'
  <2> USE <1>19 DEF StartLoomTurn, Fails, GoTo
  <2>1. ControlTypeOK'
    BY DEF ControlTypeOK, LockInv, PhaseInv, PCs, WaitingPCs, UnlockedDevicePCs,
           Phases, Resources
  <2>2. SteeringTypeOK'
    BY DEF SteeringTypeOK
  <2>3. txn' \in Txns
    BY TxnType
  <2>4. LockInv'
    BY DEF ControlTypeOK, LockInv, PhaseInv
  <2>5. PhaseInv'
    BY DEF ControlTypeOK, LockInv, PhaseInv, Phases
  <2>6. ArgInv'
    BY DEF ControlTypeOK, LockInv, PhaseInv, ArgInv
  <2> QED
    BY <2>1, <2>2, <2>3, <2>4, <2>5, <2>6
<1>20. ASSUME NEW t \in Threads, Prepare(t)
       PROVE  IInv'
  <2> USE <1>20 DEF Prepare, Fails, GoTo
  <2>1. ControlTypeOK'
    BY DEF ControlTypeOK, LockInv, PhaseInv, PCs, WaitingPCs, UnlockedDevicePCs,
           Phases, Resources
  <2>2. SteeringTypeOK'
    BY DEF SteeringTypeOK
  <2>3. txn' \in Txns
    BY TxnType
  <2>4. LockInv'
    BY DEF ControlTypeOK, LockInv, PhaseInv
  <2>5. PhaseInv'
    BY DEF ControlTypeOK, LockInv, PhaseInv, Phases
  <2>6. ArgInv'
    BY DEF ControlTypeOK, LockInv, PhaseInv, ArgInv
  <2> QED
    BY <2>1, <2>2, <2>3, <2>4, <2>5, <2>6
<1>21. ASSUME NEW t \in Threads, BeginReads(t)
       PROVE  IInv'
  <2> USE <1>21 DEF BeginReads, GoTo
  <2>0. held' \subseteq Resources
    BY DEF ControlTypeOK, Resources
  <2>1. ControlTypeOK'
    <3>1. phase' \in Phases /\ pc' \in [Threads -> PCs]
      BY DEF ControlTypeOK, PCs, LockedPCs, DecodePCs, Phases
    <3> QED
      BY <2>0, <3>1 DEF ControlTypeOK
  <2>2. SteeringTypeOK'
    BY DEF SteeringTypeOK
  <2>3. txn' \in Txns
    BY TxnType
  <2>4. LockInv'
    BY DEF ControlTypeOK, LockInv, PhaseInv
  <2>5. PhaseInv'
    BY DEF ControlTypeOK, LockInv, PhaseInv, Phases
  <2>6. ArgInv'
    BY DEF ControlTypeOK, LockInv, PhaseInv, ArgInv
  <2> QED
    BY <2>1, <2>2, <2>3, <2>4, <2>5, <2>6
<1>22. ASSUME NEW t \in Threads, StopCheck(t)
       PROVE  IInv'
  BY <1>22 DEF StopCheck, LoopEnds, GoTo, ControlTypeOK, SteeringTypeOK, LockInv,
     PhaseInv, ArgInv, PCs, WaitingPCs, UnlockedDevicePCs, Phases, Resources,
     Txns
<1>23. ASSUME NEW t \in Threads, Forward(t)
       PROVE  IInv'
  <2> USE <1>23 DEF Forward, GoTo
  <2>1. ControlTypeOK'
    BY DEF ControlTypeOK, LockInv, PhaseInv, PCs, WaitingPCs, UnlockedDevicePCs,
           Phases, Resources
  <2>2. SteeringTypeOK'
    BY DEF SteeringTypeOK
  <2>3. txn' \in Txns
    BY TxnType DEF ArgInv
  <2>4. LockInv'
    BY DEF ControlTypeOK, LockInv, PhaseInv
  <2>5. PhaseInv'
    BY DEF ControlTypeOK, LockInv, PhaseInv, Phases
  <2>6. ArgInv'
    BY DEF ControlTypeOK, LockInv, PhaseInv, ArgInv
  <2> QED
    BY <2>1, <2>2, <2>3, <2>4, <2>5, <2>6
<1>24. ASSUME NEW t \in Threads, Callback(t)
       PROVE  IInv'
  <2> USE <1>24 DEF Callback, GoTo
  <2>1. ControlTypeOK'
    BY DEF ControlTypeOK, LockInv, PhaseInv, PCs, WaitingPCs, UnlockedDevicePCs,
           Phases, Resources
  <2>2. SteeringTypeOK'
    BY DEF SteeringTypeOK
  <2>3. txn' \in Txns
    BY TxnType
  <2>4. LockInv'
    BY DEF ControlTypeOK, LockInv, PhaseInv
  <2>5. PhaseInv'
    BY DEF ControlTypeOK, LockInv, PhaseInv, Phases
  <2>6. ArgInv'
    BY DEF ControlTypeOK, LockInv, PhaseInv, ArgInv
  <2> QED
    BY <2>1, <2>2, <2>3, <2>4, <2>5, <2>6
<1>25. ASSUME NEW t \in Threads, Teardown(t)
       PROVE  IInv'
  <2> USE <1>25 DEF Teardown, PopOwnScope, GoTo
  <2>1. ControlTypeOK'
    BY DEF ControlTypeOK, LockInv, PhaseInv, PCs, WaitingPCs, UnlockedDevicePCs,
           Phases, Resources
  <2>2. SteeringTypeOK'
    <3>1. CASE txn.scoped
      <4>1. Popped \in Seq(Frames)
        BY PrefixType DEF SteeringTypeOK, Popped
      <4>2. PopFrame /\ \E ok \in BOOLEAN : Reinstall(Popped, ok)
        BY <3>1
      <4> QED
        BY <4>1, <4>2, PopFrameType, ReinstallType DEF SteeringTypeOK
    <3>2. CASE ~txn.scoped
      BY <3>2 DEF SteeringTypeOK
    <3> QED
      BY <3>1, <3>2
  <2>3. txn' \in Txns
    BY DEF Txns
  <2>4. LockInv'
    BY DEF ControlTypeOK, LockInv, PhaseInv
  <2>5. PhaseInv'
    BY DEF ControlTypeOK, LockInv, PhaseInv, Phases
  <2>6. ArgInv'
    BY DEF ControlTypeOK, LockInv, PhaseInv, ArgInv
  <2> QED
    BY <2>1, <2>2, <2>3, <2>4, <2>5, <2>6
<1>26. ASSUME NEW t \in Threads, Finalize(t)
       PROVE  IInv'
  <2> USE <1>26 DEF Finalize, Fails, GoTo
  <2>1. ControlTypeOK'
    BY DEF ControlTypeOK, LockInv, PhaseInv, PCs, WaitingPCs, UnlockedDevicePCs,
           Phases, Resources
  <2>2. SteeringTypeOK'
    BY DEF SteeringTypeOK
  <2>3. txn' \in Txns
    BY TxnType
  <2>4. LockInv'
    BY DEF ControlTypeOK, LockInv, PhaseInv
  <2>5. PhaseInv'
    BY DEF ControlTypeOK, LockInv, PhaseInv, Phases
  <2>6. ArgInv'
    BY DEF ControlTypeOK, LockInv, PhaseInv, ArgInv
  <2> QED
    BY <2>1, <2>2, <2>3, <2>4, <2>5, <2>6
<1>27. ASSUME NEW t \in Threads, EndTransaction(t)
       PROVE  IInv'
  <2> USE <1>27 DEF EndTransaction, PopOwnScope, ReleaseGeneration, EndPhase, Ended,
          Release, GoTo
  <2>1. ControlTypeOK'
    BY DEF ControlTypeOK, LockInv, PhaseInv, PCs, WaitingPCs, UnlockedDevicePCs,
           Phases, Resources
  <2>2. SteeringTypeOK'
    <3>1. CASE txn.scoped
      <4>1. Popped \in Seq(Frames)
        BY PrefixType DEF SteeringTypeOK, Popped
      <4>2. PopFrame /\ \E ok \in BOOLEAN : Reinstall(Popped, ok)
        BY <3>1
      <4> QED
        BY <4>1, <4>2, PopFrameType, ReinstallType DEF SteeringTypeOK
    <3>2. CASE ~txn.scoped
      BY <3>2 DEF SteeringTypeOK
    <3> QED
      BY <3>1, <3>2
  <2>3. txn' \in Txns
    BY TxnType
  <2>4. LockInv'
    BY DEF ControlTypeOK, LockInv, PhaseInv
  <2>5. PhaseInv'
    BY DEF ControlTypeOK, LockInv, PhaseInv, Phases
  <2>6. ArgInv'
    BY DEF ControlTypeOK, LockInv, PhaseInv, ArgInv, NewTxn, NoTxn
  <2> QED
    BY <2>1, <2>2, <2>3, <2>4, <2>5, <2>6
<1>28. ASSUME NEW t \in Threads, EndExclusive(t)
       PROVE  IInv'
  BY <1>28 DEF EndExclusive, Release, GoTo, Back, ControlTypeOK, SteeringTypeOK,
     LockInv, PhaseInv, ArgInv, PCs, WaitingPCs, UnlockedDevicePCs, Phases,
     Resources
<1>29. ASSUME NEW t \in Threads, StartPrefill(t)
       PROVE  IInv'
  BY <1>29 DEF StartPrefill, GoTo, ControlTypeOK, SteeringTypeOK, LockInv,
     PhaseInv, ArgInv, PCs, WaitingPCs, UnlockedDevicePCs, Phases, Resources
<1>30. ASSUME NEW t \in Threads, EndPrefill(t)
       PROVE  IInv'
  BY <1>30, ZenonT(60) DEF EndPrefill, GoTo, ControlTypeOK, SteeringTypeOK, LockInv,
     PhaseInv, ArgInv, PCs, WaitingPCs, UnlockedDevicePCs, Phases, Resources
<1>31. ASSUME NEW t \in Threads, EndReplay(t)
       PROVE  IInv'
  BY <1>31, ZenonT(60) DEF EndReplay, GoTo, ControlTypeOK, SteeringTypeOK, LockInv,
     PhaseInv,
     ArgInv, PCs, WaitingPCs, UnlockedDevicePCs, Phases, Resources
<1>32. CASE UNCHANGED vars
  BY <1>32 DEF vars, ControlTypeOK, SteeringTypeOK, LockInv, PhaseInv, ArgInv
<1> QED
  BY <1>1, <1>2, <1>3, <1>4, <1>5, <1>6, <1>7, <1>8, <1>9, <1>10, <1>11, <1>12,
     <1>13, <1>14, <1>15, <1>16, <1>17, <1>18, <1>19, <1>20, <1>21, <1>22, <1>23,
     <1>24, <1>25, <1>26, <1>27, <1>28, <1>29, <1>30, <1>31, <1>32 DEF Next,
     Calls, Step, StreamCalls

\* The initial state satisfies the inductive invariant.
LEMMA InitIInv == Init => IInv
<1> SUFFICES ASSUME Init
             PROVE  IInv
  OBVIOUS
<1> USE ThreadsAssumption, BoundsAssumption DEF Init, Threads
<1>1. ControlTypeOK
  <2>1. pc \in [Threads -> PCs]
    BY DEF PCs, WaitingPCs
  <2>2. held \subseteq Resources /\ phase \in Phases /\ lockDepth \in 0..2
    BY DEF Resources, Phases
  <2> QED
    BY <2>1, <2>2 DEF ControlTypeOK
<1>2. SteeringTypeOK
  BY DEF SteeringTypeOK
<1>3. txn \in Txns
  BY TxnType
<1>4. LockInv
  BY DEF LockInv, LockedPCs, PreamblePCs, DecodePCs, Generating
<1>5. PhaseInv /\ ArgInv
  BY DEF PhaseInv, ArgInv, PreamblePCs, DecodePCs
<1> QED
  BY <1>1, <1>2, <1>3, <1>4, <1>5 DEF IInv, TypeOK

\* In every reachable state the lock is held exactly by the thread inside a
\* locked section, at the depth its nesting gives, and the engine's phase is the
\* one its generation has reached.
THEOREM InductiveInvariant == Spec => []IInv
<1>1. Init => IInv
  BY InitIInv
<1>2. IInv /\ [Next]_vars => IInv'
  BY IInvStep
<1> QED
  BY <1>1, <1>2, PTL DEF Spec

\* Every variable keeps its type; in particular the re-entrant lock is never
\* nested deeper than two and no generation decodes more than MaxTokens tokens.
THEOREM TypeCorrect == Spec => []TypeOK
<1>1. IInv => TypeOK
  BY DEF IInv
<1> QED
  BY <1>1, InductiveInvariant, PTL

\* While every session call that does model work goes through the lock (no
\* cache_prefix, no joint_logprobs), no thread reaches unlocked device work.
LockedOps == Ops \cap {"prefix", "joint"} = {}

\* No thread forwards, or is about to, without the lock.
NoUnlockedWork ==
  \A t \in Threads : pc[t] \notin UnlockedDevicePCs \cup {"prefix"}

\* With that discipline every step keeps the threads out of unlocked work.
LEMMA NoUnlockedWorkStep ==
  ASSUME LockedOps, IInv, NoUnlockedWork, [Next]_vars
  PROVE  NoUnlockedWork'
<1> USE LockedOps, ThreadsAssumption DEF LockedOps, IInv, TypeOK, ControlTypeOK,
     NoUnlockedWork, UnlockedDevicePCs
<1>1. ASSUME NEW t \in Threads, NEW k \in Kinds, PushCall(t, k)
      PROVE  NoUnlockedWork'
  BY <1>1 DEF PushCall, GoTo, Back, MayCall
<1>2. ASSUME NEW t \in Threads, PopCall(t)
      PROVE  NoUnlockedWork'
  BY <1>2 DEF PopCall, GoTo, Back, MayCall
<1>3. ASSUME NEW t \in Threads, NEW k \in Kinds \cup {None}, Generate(t, k)
      PROVE  NoUnlockedWork'
  BY <1>3 DEF Generate, BeginTransaction, CanLock, Acquire, GoTo, Back,
     MayCall, NoTxn
<1>4. ASSUME NEW t \in Threads, Stop(t)
      PROVE  NoUnlockedWork'
  BY <1>4 DEF Stop, GoTo, Back, MayCall
<1>5. ASSUME NEW t \in Threads, ModelOp(t)
      PROVE  NoUnlockedWork'
  BY <1>5 DEF ModelOp, Exclusive, Refuse, CanLock, Acquire, GoTo, Back,
     MayCall
<1>6. ASSUME NEW t \in Threads, Fit(t)
      PROVE  NoUnlockedWork'
  BY <1>6 DEF Fit, Exclusive, Refuse, CanLock, Acquire, GoTo, Back, MayCall
<1>7. ASSUME NEW t \in Threads, CachePrefix(t)
      PROVE  NoUnlockedWork'
  BY <1>7 DEF CachePrefix, Refuse, GoTo, Back, MayCall
<1>8. ASSUME NEW t \in Threads, JointLogprobs(t)
      PROVE  NoUnlockedWork'
  BY <1>8 DEF JointLogprobs, GoTo
<1>9. ASSUME NEW c \in Callers, NEW w \in Workers, NEW k \in Kinds \cup {None}, StartStream(c, w, k)
      PROVE  NoUnlockedWork'
  BY <1>9 DEF StartStream, GoTo
<1>10. ASSUME NEW c \in Callers, CloseStream(c)
       PROVE  NoUnlockedWork'
  BY <1>10 DEF CloseStream, GoTo
<1>11. ASSUME NEW c \in Callers, JoinStream(c)
       PROVE  NoUnlockedWork'
  BY <1>11 DEF JoinStream, GoTo
<1>12. ASSUME NEW t \in Threads, PushAcquire(t)
       PROVE  NoUnlockedWork'
  BY <1>12 DEF PushAcquire, CanLock, Acquire, GoTo
<1>13. ASSUME NEW t \in Threads, PushDone(t)
       PROVE  NoUnlockedWork'
  BY <1>13 DEF PushDone, Release, GoTo
<1>14. ASSUME NEW t \in Threads, PushFail(t)
       PROVE  NoUnlockedWork'
  BY <1>14 DEF PushFail, Release, GoTo
<1>15. ASSUME NEW t \in Threads, PopAcquire(t)
       PROVE  NoUnlockedWork'
  BY <1>15 DEF PopAcquire, CanLock, Acquire, GoTo
<1>16. ASSUME NEW t \in Threads, NEW ok \in BOOLEAN, PopDone(t, ok)
       PROVE  NoUnlockedWork'
  BY <1>16 DEF PopDone, Release, GoTo
<1>17. ASSUME NEW t \in Threads, WorkerStarts(t)
       PROVE  NoUnlockedWork'
  BY <1>17 DEF WorkerStarts, BeginTransaction, CanLock, Acquire, GoTo,
     Back, NoTxn
<1>18. ASSUME NEW t \in Threads, Resolve(t)
       PROVE  NoUnlockedWork'
  BY <1>18 DEF Resolve, Fails, GoTo
<1>19. ASSUME NEW t \in Threads, StartLoomTurn(t)
       PROVE  NoUnlockedWork'
  BY <1>19 DEF StartLoomTurn, Fails, GoTo
<1>20. ASSUME NEW t \in Threads, Prepare(t)
       PROVE  NoUnlockedWork'
  BY <1>20 DEF Prepare, Fails, GoTo
<1>21. ASSUME NEW t \in Threads, BeginReads(t)
       PROVE  NoUnlockedWork'
  BY <1>21 DEF BeginReads, GoTo
<1>22. ASSUME NEW t \in Threads, StopCheck(t)
       PROVE  NoUnlockedWork'
  BY <1>22 DEF StopCheck, GoTo
<1>23. ASSUME NEW t \in Threads, Forward(t)
       PROVE  NoUnlockedWork'
  BY <1>23 DEF Forward, GoTo
<1>24. ASSUME NEW t \in Threads, Callback(t)
       PROVE  NoUnlockedWork'
  BY <1>24 DEF Callback, GoTo
<1>25. ASSUME NEW t \in Threads, Teardown(t)
       PROVE  NoUnlockedWork'
  BY <1>25 DEF Teardown, GoTo
<1>26. ASSUME NEW t \in Threads, Finalize(t)
       PROVE  NoUnlockedWork'
  BY <1>26 DEF Finalize, Fails, GoTo
<1>27. ASSUME NEW t \in Threads, EndTransaction(t)
       PROVE  NoUnlockedWork'
  BY <1>27 DEF EndTransaction, Ended, GoTo
<1>28. ASSUME NEW t \in Threads, EndExclusive(t)
       PROVE  NoUnlockedWork'
  BY <1>28 DEF EndExclusive, Release, GoTo, Back
<1>29. ASSUME NEW t \in Threads, StartPrefill(t)
       PROVE  NoUnlockedWork'
  BY <1>29 DEF StartPrefill, GoTo
<1>30. ASSUME NEW t \in Threads, EndPrefill(t)
       PROVE  NoUnlockedWork'
  BY <1>30 DEF EndPrefill, GoTo
<1>31. ASSUME NEW t \in Threads, EndReplay(t)
       PROVE  NoUnlockedWork'
  BY <1>31 DEF EndReplay, GoTo
<1>32. CASE UNCHANGED vars
  BY <1>32 DEF vars
<1> QED
  BY <1>1, <1>2, <1>3, <1>4, <1>5, <1>6, <1>7, <1>8, <1>9, <1>10, <1>11, <1>12,
     <1>13, <1>14, <1>15, <1>16, <1>17, <1>18, <1>19, <1>20, <1>21, <1>22, <1>23,
     <1>24, <1>25, <1>26, <1>27, <1>28, <1>29, <1>30, <1>31, <1>32 DEF Next,
     Calls, Step, StreamCalls, Threads

\* With that discipline the device has one user: no two threads ever issue model
\* work at the same time (fits, extraction, scoring, generations and streams,
\* steering rebuilds that compute a whitener).
THEOREM DeviceExclusion == LockedOps => (Spec => []OneDeviceUser)
<1> SUFFICES ASSUME LockedOps
             PROVE  Spec => []OneDeviceUser
  OBVIOUS
<1>1. Init => NoUnlockedWork
  BY DEF Init, NoUnlockedWork, UnlockedDevicePCs
<1>2. IInv /\ NoUnlockedWork /\ [Next]_vars => NoUnlockedWork'
  BY NoUnlockedWorkStep
<1>3. IInv /\ NoUnlockedWork => OneDeviceUser
  BY DEF IInv, LockInv, NoUnlockedWork, OneDeviceUser, OnDevice
<1> QED
  BY <1>1, <1>2, <1>3, InductiveInvariant, PTL DEF Spec

\* Every step of the session is a step of the abstract model access: a thread
\* takes the idle model, moves its generation one phase on, or gives it back.
LEMMA AccessStep ==
  ASSUME IInv, [Next]_vars
  PROVE  [Access!Next]_<<lockOwner, phase>>
<1> USE ThreadsAssumption
    DEF IInv, TypeOK, ControlTypeOK, LockInv, PhaseInv, LockedPCs,
        PreamblePCs, DecodePCs, Generating, lockVars, Access!Next,
        Access!Take, Access!Advance, Access!Give
<1>1. ASSUME NEW t \in Threads, NEW k \in Kinds, PushCall(t, k)
      PROVE  [Access!Next]_<<lockOwner, phase>>
  BY <1>1 DEF PushCall, GoTo, Back, MayCall, RefusesSteering, MidGeneration
<1>2. ASSUME NEW t \in Threads, PopCall(t)
      PROVE  [Access!Next]_<<lockOwner, phase>>
  BY <1>2 DEF PopCall, GoTo, Back, MayCall, RefusesSteering, MidGeneration
<1>3. ASSUME NEW t \in Threads, NEW k \in Kinds \cup {None}, Generate(t, k)
      PROVE  [Access!Next]_<<lockOwner, phase>>
  BY <1>3 DEF Generate, BeginTransaction, CanBegin, CanLock, Acquire, GoTo,
     Back, MayCall, NoTxn
<1>4. ASSUME NEW t \in Threads, Stop(t)
      PROVE  [Access!Next]_<<lockOwner, phase>>
  BY <1>4 DEF Stop, GoTo, Back, MayCall
<1>5. ASSUME NEW t \in Threads, ModelOp(t)
      PROVE  [Access!Next]_<<lockOwner, phase>>
  BY <1>5 DEF ModelOp, Exclusive, Refuse, CanLock, Acquire, GoTo, Back,
     MayCall
<1>6. ASSUME NEW t \in Threads, Fit(t)
      PROVE  [Access!Next]_<<lockOwner, phase>>
  BY <1>6 DEF Fit, Exclusive, Refuse, CanLock, Acquire, GoTo, Back, MayCall
<1>7. ASSUME NEW t \in Threads, CachePrefix(t)
      PROVE  [Access!Next]_<<lockOwner, phase>>
  BY <1>7 DEF CachePrefix, Refuse, GoTo, Back, MayCall
<1>8. ASSUME NEW t \in Threads, JointLogprobs(t)
      PROVE  [Access!Next]_<<lockOwner, phase>>
  BY <1>8 DEF JointLogprobs, GoTo
<1>9. ASSUME NEW c \in Callers, NEW w \in Workers, NEW k \in Kinds \cup {None}, StartStream(c, w, k)
      PROVE  [Access!Next]_<<lockOwner, phase>>
  BY <1>9 DEF StartStream, GoTo
<1>10. ASSUME NEW c \in Callers, CloseStream(c)
       PROVE  [Access!Next]_<<lockOwner, phase>>
  BY <1>10 DEF CloseStream, GoTo
<1>11. ASSUME NEW c \in Callers, JoinStream(c)
       PROVE  [Access!Next]_<<lockOwner, phase>>
  BY <1>11 DEF JoinStream, GoTo
<1>12. ASSUME NEW t \in Threads, PushAcquire(t)
       PROVE  [Access!Next]_<<lockOwner, phase>>
  BY <1>12 DEF PushAcquire, CanLock, Acquire, GoTo
<1>13. ASSUME NEW t \in Threads, PushDone(t)
       PROVE  [Access!Next]_<<lockOwner, phase>>
  BY <1>13 DEF PushDone, Release, GoTo, InGeneration
<1>14. ASSUME NEW t \in Threads, PushFail(t)
       PROVE  [Access!Next]_<<lockOwner, phase>>
  BY <1>14 DEF PushFail, Release, GoTo, InGeneration
<1>15. ASSUME NEW t \in Threads, PopAcquire(t)
       PROVE  [Access!Next]_<<lockOwner, phase>>
  BY <1>15 DEF PopAcquire, CanLock, Acquire, GoTo
<1>16. ASSUME NEW t \in Threads, NEW ok \in BOOLEAN, PopDone(t, ok)
       PROVE  [Access!Next]_<<lockOwner, phase>>
  BY <1>16 DEF PopDone, Release, GoTo
<1>17. ASSUME NEW t \in Threads, WorkerStarts(t)
       PROVE  [Access!Next]_<<lockOwner, phase>>
  BY <1>17 DEF WorkerStarts, BeginTransaction, CanBegin, CanLock, Acquire,
     GoTo, Back, NoTxn
<1>18. ASSUME NEW t \in Threads, Resolve(t)
       PROVE  [Access!Next]_<<lockOwner, phase>>
  BY <1>18 DEF Resolve, Fails, GoTo
<1>19. ASSUME NEW t \in Threads, StartLoomTurn(t)
       PROVE  [Access!Next]_<<lockOwner, phase>>
  BY <1>19 DEF StartLoomTurn, Fails, GoTo
<1>20. ASSUME NEW t \in Threads, Prepare(t)
       PROVE  [Access!Next]_<<lockOwner, phase>>
  BY <1>20 DEF Prepare, Fails, GoTo
<1>21. ASSUME NEW t \in Threads, BeginReads(t)
       PROVE  [Access!Next]_<<lockOwner, phase>>
  BY <1>21 DEF BeginReads, GoTo
<1>22. ASSUME NEW t \in Threads, StopCheck(t)
       PROVE  [Access!Next]_<<lockOwner, phase>>
  BY <1>22 DEF StopCheck, LoopEnds, GoTo
<1>23. ASSUME NEW t \in Threads, Forward(t)
       PROVE  [Access!Next]_<<lockOwner, phase>>
  BY <1>23 DEF Forward, GoTo
<1>24. ASSUME NEW t \in Threads, Callback(t)
       PROVE  [Access!Next]_<<lockOwner, phase>>
  BY <1>24 DEF Callback, GoTo
<1>25. ASSUME NEW t \in Threads, Teardown(t)
       PROVE  [Access!Next]_<<lockOwner, phase>>
  BY <1>25 DEF Teardown, PopOwnScope, GoTo
<1>26. ASSUME NEW t \in Threads, Finalize(t)
       PROVE  [Access!Next]_<<lockOwner, phase>>
  BY <1>26 DEF Finalize, Fails, GoTo
<1>27. ASSUME NEW t \in Threads, EndTransaction(t)
       PROVE  [Access!Next]_<<lockOwner, phase>>
  BY <1>27 DEF EndTransaction, PopOwnScope, ReleaseGeneration, EndPhase,
     Ended, Release, GoTo, NoTxn
<1>28. ASSUME NEW t \in Threads, EndExclusive(t)
       PROVE  [Access!Next]_<<lockOwner, phase>>
  BY <1>28 DEF EndExclusive, Release, GoTo, Back
<1>29. ASSUME NEW t \in Threads, StartPrefill(t)
       PROVE  [Access!Next]_<<lockOwner, phase>>
  BY <1>29 DEF StartPrefill, GoTo
<1>30. ASSUME NEW t \in Threads, EndPrefill(t)
       PROVE  [Access!Next]_<<lockOwner, phase>>
  BY <1>30 DEF EndPrefill, GoTo
<1>31. ASSUME NEW t \in Threads, EndReplay(t)
       PROVE  [Access!Next]_<<lockOwner, phase>>
  BY <1>31 DEF EndReplay, GoTo
<1>32. CASE UNCHANGED vars
  BY <1>32 DEF vars
<1> QED
  BY <1>1, <1>2, <1>3, <1>4, <1>5, <1>6, <1>7, <1>8, <1>9, <1>10, <1>11, <1>12,
     <1>13, <1>14, <1>15, <1>16, <1>17, <1>18, <1>19, <1>20, <1>21, <1>22, <1>23,
     <1>24, <1>25, <1>26, <1>27, <1>28, <1>29, <1>30, <1>31, <1>32 DEF Next,
     Calls, Step, StreamCalls, Threads

\* The session implements its abstract access to the model: one user at a time,
\* one generation at a time, moved along its lifecycle by that user alone.
THEOREM SessionImplementsModelAccess == Spec => ImplementsModelAccess
<1>1. Init => Access!Init
  BY DEF Init, Access!Init
<1>2. IInv /\ [Next]_vars => [Access!Next]_<<lockOwner, phase>>
  BY AccessStep
<1> QED
  BY <1>1, <1>2, InductiveInvariant, PTL
     DEF Spec, ImplementsModelAccess, Access!Spec

\* While one thread decodes no other holds the lock, and its own callbacks are
\* refused by the phase guard: no step changes the steering.
LEMMA StableStep ==
  ASSUME IInv, Decoding, [Next]_vars
  PROVE  UNCHANGED steerVars
<1> USE ThreadsAssumption
    DEF IInv, TypeOK, ControlTypeOK, LockInv, PhaseInv, LockedPCs,
        PreamblePCs, DecodePCs, Generating, Decoding, steerVars
<1>1. ASSUME NEW t \in Threads, NEW k \in Kinds, PushCall(t, k)
      PROVE  UNCHANGED steerVars
  BY <1>1 DEF PushCall, GoTo, Back, MayCall, RefusesSteering, MidGeneration
<1>2. ASSUME NEW t \in Threads, PopCall(t)
      PROVE  UNCHANGED steerVars
  BY <1>2 DEF PopCall, GoTo, Back, MayCall, RefusesSteering, MidGeneration
<1>3. ASSUME NEW t \in Threads, NEW k \in Kinds \cup {None}, Generate(t, k)
      PROVE  UNCHANGED steerVars
  BY <1>3 DEF Generate, BeginTransaction, CanBegin, CanLock, Acquire, GoTo,
     Back, MayCall, NoTxn
<1>4. ASSUME NEW t \in Threads, Stop(t)
      PROVE  UNCHANGED steerVars
  BY <1>4 DEF Stop, GoTo, Back, MayCall
<1>5. ASSUME NEW t \in Threads, ModelOp(t)
      PROVE  UNCHANGED steerVars
  BY <1>5 DEF ModelOp, Exclusive, Refuse, CanLock, Acquire, GoTo, Back,
     MayCall
<1>6. ASSUME NEW t \in Threads, Fit(t)
      PROVE  UNCHANGED steerVars
  BY <1>6 DEF Fit, Exclusive, Refuse, CanLock, Acquire, GoTo, Back, MayCall
<1>7. ASSUME NEW t \in Threads, CachePrefix(t)
      PROVE  UNCHANGED steerVars
  BY <1>7 DEF CachePrefix, Refuse, GoTo, Back, MayCall
<1>8. ASSUME NEW t \in Threads, JointLogprobs(t)
      PROVE  UNCHANGED steerVars
  BY <1>8 DEF JointLogprobs, GoTo
<1>9. ASSUME NEW c \in Callers, NEW w \in Workers, NEW k \in Kinds \cup {None}, StartStream(c, w, k)
      PROVE  UNCHANGED steerVars
  BY <1>9 DEF StartStream, GoTo
<1>10. ASSUME NEW c \in Callers, CloseStream(c)
       PROVE  UNCHANGED steerVars
  BY <1>10 DEF CloseStream, GoTo
<1>11. ASSUME NEW c \in Callers, JoinStream(c)
       PROVE  UNCHANGED steerVars
  BY <1>11 DEF JoinStream, GoTo
<1>12. ASSUME NEW t \in Threads, PushAcquire(t)
       PROVE  UNCHANGED steerVars
  BY <1>12 DEF PushAcquire, CanLock, Acquire, GoTo
<1>13. ASSUME NEW t \in Threads, PushDone(t)
       PROVE  UNCHANGED steerVars
  BY <1>13 DEF PushDone, Release, GoTo, InGeneration
<1>14. ASSUME NEW t \in Threads, PushFail(t)
       PROVE  UNCHANGED steerVars
  BY <1>14 DEF PushFail, Release, GoTo, InGeneration
<1>15. ASSUME NEW t \in Threads, PopAcquire(t)
       PROVE  UNCHANGED steerVars
  BY <1>15 DEF PopAcquire, CanLock, Acquire, GoTo
<1>16. ASSUME NEW t \in Threads, NEW ok \in BOOLEAN, PopDone(t, ok)
       PROVE  UNCHANGED steerVars
  BY <1>16 DEF PopDone, Release, GoTo
<1>17. ASSUME NEW t \in Threads, WorkerStarts(t)
       PROVE  UNCHANGED steerVars
  BY <1>17 DEF WorkerStarts, BeginTransaction, CanBegin, CanLock, Acquire,
     GoTo, Back, NoTxn
<1>18. ASSUME NEW t \in Threads, Resolve(t)
       PROVE  UNCHANGED steerVars
  BY <1>18 DEF Resolve, Fails, GoTo
<1>19. ASSUME NEW t \in Threads, StartLoomTurn(t)
       PROVE  UNCHANGED steerVars
  BY <1>19 DEF StartLoomTurn, Fails, GoTo
<1>20. ASSUME NEW t \in Threads, Prepare(t)
       PROVE  UNCHANGED steerVars
  BY <1>20 DEF Prepare, Fails, GoTo
<1>21. ASSUME NEW t \in Threads, BeginReads(t)
       PROVE  UNCHANGED steerVars
  BY <1>21 DEF BeginReads, GoTo
<1>22. ASSUME NEW t \in Threads, StopCheck(t)
       PROVE  UNCHANGED steerVars
  BY <1>22 DEF StopCheck, LoopEnds, GoTo
<1>23. ASSUME NEW t \in Threads, Forward(t)
       PROVE  UNCHANGED steerVars
  BY <1>23 DEF Forward, GoTo
<1>24. ASSUME NEW t \in Threads, Callback(t)
       PROVE  UNCHANGED steerVars
  BY <1>24 DEF Callback, GoTo
<1>25. ASSUME NEW t \in Threads, Teardown(t)
       PROVE  UNCHANGED steerVars
  BY <1>25 DEF Teardown, PopOwnScope, GoTo
<1>26. ASSUME NEW t \in Threads, Finalize(t)
       PROVE  UNCHANGED steerVars
  BY <1>26 DEF Finalize, Fails, GoTo
<1>27. ASSUME NEW t \in Threads, EndTransaction(t)
       PROVE  UNCHANGED steerVars
  BY <1>27 DEF EndTransaction, PopOwnScope, ReleaseGeneration, EndPhase,
     Ended, Release, GoTo, NoTxn
<1>28. ASSUME NEW t \in Threads, EndExclusive(t)
       PROVE  UNCHANGED steerVars
  BY <1>28 DEF EndExclusive, Release, GoTo, Back
<1>29. ASSUME NEW t \in Threads, StartPrefill(t)
       PROVE  UNCHANGED steerVars
  BY <1>29 DEF StartPrefill, GoTo
<1>30. ASSUME NEW t \in Threads, EndPrefill(t)
       PROVE  UNCHANGED steerVars
  BY <1>30 DEF EndPrefill, GoTo
<1>31. ASSUME NEW t \in Threads, EndReplay(t)
       PROVE  UNCHANGED steerVars
  BY <1>31 DEF EndReplay, GoTo
<1>32. CASE UNCHANGED vars
  BY <1>32 DEF vars
<1> QED
  BY <1>1, <1>2, <1>3, <1>4, <1>5, <1>6, <1>7, <1>8, <1>9, <1>10, <1>11, <1>12,
     <1>13, <1>14, <1>15, <1>16, <1>17, <1>18, <1>19, <1>20, <1>21, <1>22, <1>23,
     <1>24, <1>25, <1>26, <1>27, <1>28, <1>29, <1>30, <1>31, <1>32 DEF Next,
     Calls, Step, StreamCalls, Threads

\* The hooks a decode runs under never move: no push, no pop, no teardown of
\* another thread or of a callback changes the steering between the first stop
\* check of a decode and the end of its loop.
THEOREM SteeringIsStableInDecode == Spec => SteeringStableInDecode
<1>1. IInv /\ [Next]_vars => [Decoding => UNCHANGED steerVars]_vars
  BY StableStep
<1> QED
  BY <1>1, InductiveInvariant, PTL DEF Spec, SteeringStableInDecode

-----------------------------------------------------------------------------
(* What the session holds, what steers, and how soon a stop is heard.       *)

\* What a generation holds goes before its phase does.
LEMMA ReleaseStep ==
  ASSUME IInv, ReleaseInv, [Next]_vars
  PROVE  ReleaseInv'
<1> USE ThreadsAssumption
    DEF IInv, TypeOK, ControlTypeOK, LockInv, PhaseInv, Generating, LockedPCs,
        PreamblePCs, DecodePCs, lockVars, steerVars, histVars, NoTxn, NewTxn,
        Threads, InGeneration
<1> USE DEF ReleaseInv
<1>1. ASSUME NEW t \in Threads, NEW k \in Kinds, PushCall(t, k)
      PROVE  ReleaseInv'
  BY <1>1 DEF PushCall, GoTo, Back, MayCall, RefusesSteering, MidGeneration
<1>2. ASSUME NEW t \in Threads, PopCall(t)
      PROVE  ReleaseInv'
  BY <1>2 DEF PopCall, GoTo, Back, MayCall, RefusesSteering, MidGeneration
<1>3. ASSUME NEW t \in Threads, NEW k \in Kinds \cup {None}, Generate(t, k)
      PROVE  ReleaseInv'
  BY <1>3 DEF Generate, BeginTransaction, CanBegin, CanLock, Acquire, GoTo,
     Back, MayCall
<1>4. ASSUME NEW t \in Threads, Stop(t)
      PROVE  ReleaseInv'
  BY <1>4 DEF Stop, GoTo, Back, MayCall
<1>5. ASSUME NEW t \in Threads, ModelOp(t)
      PROVE  ReleaseInv'
  BY <1>5 DEF ModelOp, Exclusive, Refuse, CanLock, Acquire, GoTo, Back,
     MayCall
<1>6. ASSUME NEW t \in Threads, Fit(t)
      PROVE  ReleaseInv'
  BY <1>6 DEF Fit, Exclusive, Refuse, CanLock, Acquire, GoTo, Back, MayCall
<1>7. ASSUME NEW t \in Threads, CachePrefix(t)
      PROVE  ReleaseInv'
  BY <1>7 DEF CachePrefix, Refuse, GoTo, Back, MayCall
<1>8. ASSUME NEW t \in Threads, JointLogprobs(t)
      PROVE  ReleaseInv'
  BY <1>8 DEF JointLogprobs, GoTo
<1>9. ASSUME NEW c \in Callers, NEW w \in Workers,
             NEW k \in Kinds \cup {None}, StartStream(c, w, k)
      PROVE  ReleaseInv'
  BY <1>9 DEF StartStream, GoTo
<1>10. ASSUME NEW c \in Callers, CloseStream(c)
      PROVE  ReleaseInv'
  BY <1>10 DEF CloseStream, GoTo
<1>11. ASSUME NEW c \in Callers, JoinStream(c)
      PROVE  ReleaseInv'
  BY <1>11 DEF JoinStream
<1>12. ASSUME NEW t \in Threads, PushAcquire(t)
      PROVE  ReleaseInv'
  BY <1>12 DEF PushAcquire, CanLock, Acquire, GoTo
<1>13. ASSUME NEW t \in Threads, PushDone(t)
      PROVE  ReleaseInv'
  BY <1>13 DEF PushDone, Release, GoTo
<1>14. ASSUME NEW t \in Threads, PushFail(t)
      PROVE  ReleaseInv'
  BY <1>14 DEF PushFail, Release, GoTo
<1>15. ASSUME NEW t \in Threads, PopAcquire(t)
      PROVE  ReleaseInv'
  BY <1>15 DEF PopAcquire, CanLock, Acquire, GoTo
<1>16. ASSUME NEW t \in Threads, NEW ok \in BOOLEAN, PopDone(t, ok)
      PROVE  ReleaseInv'
  BY <1>16 DEF PopDone, Release, GoTo
<1>17. ASSUME NEW t \in Threads, WorkerStarts(t)
      PROVE  ReleaseInv'
  BY <1>17 DEF WorkerStarts, BeginTransaction, CanBegin, CanLock, Acquire,
     GoTo, Back
<1>18. ASSUME NEW t \in Threads, Resolve(t)
      PROVE  ReleaseInv'
  BY <1>18 DEF Resolve, Fails, GoTo
<1>19. ASSUME NEW t \in Threads, StartLoomTurn(t)
      PROVE  ReleaseInv'
  BY <1>19 DEF StartLoomTurn, Fails, GoTo
<1>20. ASSUME NEW t \in Threads, Prepare(t)
      PROVE  ReleaseInv'
  BY <1>20 DEF Prepare, Fails, GoTo
<1>21. ASSUME NEW t \in Threads, BeginReads(t)
      PROVE  ReleaseInv'
  BY <1>21 DEF BeginReads, GoTo
<1>22. ASSUME NEW t \in Threads, StopCheck(t)
      PROVE  ReleaseInv'
  BY <1>22 DEF StopCheck, LoopEnds, IsStopRequested, GoTo
<1>23. ASSUME NEW t \in Threads, Forward(t)
      PROVE  ReleaseInv'
  BY <1>23 DEF Forward, GoTo
<1>24. ASSUME NEW t \in Threads, Callback(t)
      PROVE  ReleaseInv'
  BY <1>24 DEF Callback, GoTo
<1>25. ASSUME NEW t \in Threads, Teardown(t)
      PROVE  ReleaseInv'
  BY <1>25 DEF Teardown, GoTo
<1>26. ASSUME NEW t \in Threads, Finalize(t)
      PROVE  ReleaseInv'
  BY <1>26 DEF Finalize, Fails, GoTo
<1>27. ASSUME NEW t \in Threads, EndTransaction(t)
      PROVE  ReleaseInv'
  BY <1>27 DEF EndTransaction, ReleaseGeneration, EndPhase, Ended, Release,
     GoTo
<1>28. ASSUME NEW t \in Threads, EndExclusive(t)
      PROVE  ReleaseInv'
  BY <1>28 DEF EndExclusive, Release, GoTo, Back
<1>29. ASSUME NEW t \in Threads, StartPrefill(t)
      PROVE  ReleaseInv'
  BY <1>29 DEF StartPrefill, GoTo
<1>30. ASSUME NEW t \in Threads, EndPrefill(t)
      PROVE  ReleaseInv'
  BY <1>30 DEF EndPrefill, GoTo
<1>31. ASSUME NEW t \in Threads, EndReplay(t)
      PROVE  ReleaseInv'
  BY <1>31 DEF EndReplay, GoTo
<1>32. CASE UNCHANGED vars
  BY <1>32 DEF vars
<1> QED
  BY <1>1, <1>2, <1>3, <1>4, <1>5, <1>6, <1>7, <1>8, <1>9, <1>10, <1>11,
     <1>12, <1>13, <1>14, <1>15, <1>16, <1>17, <1>18, <1>19, <1>20, <1>21,
     <1>22, <1>23, <1>24, <1>25, <1>26, <1>27, <1>28, <1>29, <1>30, <1>31,
     <1>32 DEF Next, Calls, Step, StreamCalls, Threads

\* Once a stop is recorded the next check of the loop ends it: no forward is
\* begun in between.
LEMMA StopStep ==
  ASSUME IInv, StopInv, [Next]_vars
  PROVE  StopInv'
<1> USE ThreadsAssumption
    DEF IInv, TypeOK, ControlTypeOK, LockInv, PhaseInv, Generating, LockedPCs,
        PreamblePCs, DecodePCs, lockVars, steerVars, histVars, NoTxn, NewTxn,
        Threads, InGeneration
<1> USE DEF StopInv
<1>1. ASSUME NEW t \in Threads, NEW k \in Kinds, PushCall(t, k)
      PROVE  StopInv'
  BY <1>1 DEF PushCall, GoTo, Back, MayCall, RefusesSteering, MidGeneration
<1>2. ASSUME NEW t \in Threads, PopCall(t)
      PROVE  StopInv'
  BY <1>2 DEF PopCall, GoTo, Back, MayCall, RefusesSteering, MidGeneration
<1>3. ASSUME NEW t \in Threads, NEW k \in Kinds \cup {None}, Generate(t, k)
      PROVE  StopInv'
  BY <1>3 DEF Generate, BeginTransaction, CanBegin, CanLock, Acquire, GoTo,
     Back, MayCall
<1>4. ASSUME NEW t \in Threads, Stop(t)
      PROVE  StopInv'
  BY <1>4 DEF Stop, GoTo, Back, MayCall
<1>5. ASSUME NEW t \in Threads, ModelOp(t)
      PROVE  StopInv'
  BY <1>5 DEF ModelOp, Exclusive, Refuse, CanLock, Acquire, GoTo, Back,
     MayCall
<1>6. ASSUME NEW t \in Threads, Fit(t)
      PROVE  StopInv'
  BY <1>6 DEF Fit, Exclusive, Refuse, CanLock, Acquire, GoTo, Back, MayCall
<1>7. ASSUME NEW t \in Threads, CachePrefix(t)
      PROVE  StopInv'
  BY <1>7 DEF CachePrefix, Refuse, GoTo, Back, MayCall
<1>8. ASSUME NEW t \in Threads, JointLogprobs(t)
      PROVE  StopInv'
  BY <1>8 DEF JointLogprobs, GoTo
<1>9. ASSUME NEW c \in Callers, NEW w \in Workers,
             NEW k \in Kinds \cup {None}, StartStream(c, w, k)
      PROVE  StopInv'
  BY <1>9 DEF StartStream, GoTo
<1>10. ASSUME NEW c \in Callers, CloseStream(c)
      PROVE  StopInv'
  BY <1>10 DEF CloseStream, GoTo
<1>11. ASSUME NEW c \in Callers, JoinStream(c)
      PROVE  StopInv'
  BY <1>11 DEF JoinStream
<1>12. ASSUME NEW t \in Threads, PushAcquire(t)
      PROVE  StopInv'
  BY <1>12 DEF PushAcquire, CanLock, Acquire, GoTo
<1>13. ASSUME NEW t \in Threads, PushDone(t)
      PROVE  StopInv'
  BY <1>13 DEF PushDone, Release, GoTo
<1>14. ASSUME NEW t \in Threads, PushFail(t)
      PROVE  StopInv'
  BY <1>14 DEF PushFail, Release, GoTo
<1>15. ASSUME NEW t \in Threads, PopAcquire(t)
      PROVE  StopInv'
  BY <1>15 DEF PopAcquire, CanLock, Acquire, GoTo
<1>16. ASSUME NEW t \in Threads, NEW ok \in BOOLEAN, PopDone(t, ok)
      PROVE  StopInv'
  BY <1>16 DEF PopDone, Release, GoTo
<1>17. ASSUME NEW t \in Threads, WorkerStarts(t)
      PROVE  StopInv'
  BY <1>17 DEF WorkerStarts, BeginTransaction, CanBegin, CanLock, Acquire,
     GoTo, Back
<1>18. ASSUME NEW t \in Threads, Resolve(t)
      PROVE  StopInv'
  BY <1>18 DEF Resolve, Fails, GoTo
<1>19. ASSUME NEW t \in Threads, StartLoomTurn(t)
      PROVE  StopInv'
  BY <1>19 DEF StartLoomTurn, Fails, GoTo
<1>20. ASSUME NEW t \in Threads, Prepare(t)
      PROVE  StopInv'
  BY <1>20 DEF Prepare, Fails, GoTo
<1>21. ASSUME NEW t \in Threads, BeginReads(t)
      PROVE  StopInv'
  BY <1>21 DEF BeginReads, GoTo
<1>22. ASSUME NEW t \in Threads, StopCheck(t)
      PROVE  StopInv'
  BY <1>22 DEF StopCheck, LoopEnds, IsStopRequested, GoTo
<1>23. ASSUME NEW t \in Threads, Forward(t)
      PROVE  StopInv'
  BY <1>23 DEF Forward, GoTo
<1>24. ASSUME NEW t \in Threads, Callback(t)
      PROVE  StopInv'
  BY <1>24 DEF Callback, GoTo
<1>25. ASSUME NEW t \in Threads, Teardown(t)
      PROVE  StopInv'
  BY <1>25 DEF Teardown, GoTo
<1>26. ASSUME NEW t \in Threads, Finalize(t)
      PROVE  StopInv'
  BY <1>26 DEF Finalize, Fails, GoTo
<1>27. ASSUME NEW t \in Threads, EndTransaction(t)
      PROVE  StopInv'
  BY <1>27 DEF EndTransaction, ReleaseGeneration, EndPhase, Ended, Release,
     GoTo
<1>28. ASSUME NEW t \in Threads, EndExclusive(t)
      PROVE  StopInv'
  BY <1>28 DEF EndExclusive, Release, GoTo, Back
<1>29. ASSUME NEW t \in Threads, StartPrefill(t)
      PROVE  StopInv'
  BY <1>29 DEF StartPrefill, GoTo
<1>30. ASSUME NEW t \in Threads, EndPrefill(t)
      PROVE  StopInv'
  BY <1>30 DEF EndPrefill, GoTo
<1>31. ASSUME NEW t \in Threads, EndReplay(t)
      PROVE  StopInv'
  BY <1>31 DEF EndReplay, GoTo
<1>32. CASE UNCHANGED vars
  BY <1>32 DEF vars
<1> QED
  BY <1>1, <1>2, <1>3, <1>4, <1>5, <1>6, <1>7, <1>8, <1>9, <1>10, <1>11,
     <1>12, <1>13, <1>14, <1>15, <1>16, <1>17, <1>18, <1>19, <1>20, <1>21,
     <1>22, <1>23, <1>24, <1>25, <1>26, <1>27, <1>28, <1>29, <1>30, <1>31,
     <1>32 DEF Next, Calls, Step, StreamCalls, Threads

\* The plan of no frame is no plan.
LEMMA EmptyPlan == PlanOf(<<>>) = <<>>
BY DEF PlanOf

\* Taking the last frame off leaves the others where they were.
LEMMA PoppedFrames ==
  ASSUME SteeringTypeOK
  PROVE  /\ Popped \in Seq(Frames)
         /\ Len(Popped) = IF stack = <<>> THEN 0 ELSE Len(stack) - 1
         /\ \A i \in DOMAIN Popped : i \in DOMAIN stack /\ Popped[i] = stack[i]
         /\ \A i \in DOMAIN stack : i < Len(stack) => i \in DOMAIN Popped
<1>1. stack \in Seq(Frames) /\ Len(stack) \in Nat
  BY DEF SteeringTypeOK
<1>2. CASE stack = <<>>
  <2>1. Popped = <<>>
    BY <1>2, SubSeqEmpty DEF Popped
  <2> QED
    BY <2>1, <1>2
<1>3. CASE stack # <<>>
  <2>1. Len(stack) >= 1
    BY <1>1, <1>3, EmptySeq
  <2>2. CASE Len(stack) = 1
    <3>1. Popped = <<>>
      BY <2>2, SubSeqEmpty DEF Popped
    <3> QED
      BY <3>1, <2>2, <1>3, <1>1
  <2>3. CASE Len(stack) > 1
    <3>1. /\ Popped \in Seq(Frames) /\ Len(Popped) = Len(stack) - 1
          /\ \A i \in 1..Len(stack) - 1 : Popped[i] = stack[i]
      BY <2>3, <1>1, SubSeqProperties DEF Popped
    <3> QED
      BY <3>1, <1>3, <1>1
  <2>4. Len(stack) = 1 \/ Len(stack) > 1
    BY <1>1, <2>1, SMTT(30)
  <2> QED
    BY <2>2, <2>3, <2>4
<1> QED
  BY <1>2, <1>3

\* A pushed frame is on top of the stack that was there.
LEMMA PushedFrames ==
  ASSUME SteeringTypeOK, NEW t \in Threads, NEW k \in Kinds, PushFrame(t, k)
  PROVE  /\ stack' \in Seq(Frames) /\ stack' # <<>>
         /\ Len(stack') = Len(stack) + 1
         /\ \A i \in DOMAIN stack : i \in DOMAIN stack' /\ stack'[i] = stack[i]
         /\ stack'[Len(stack')] = [by |-> t, gen |-> InGeneration(t), kind |-> k]
         /\ SubSeq(stack', 1, Len(stack') - 1) = stack
<1> DEFINE f == [by |-> t, gen |-> InGeneration(t), kind |-> k]
<1>1. f \in Frames
  BY DEF Frames, InGeneration
<1>2. stack \in Seq(Frames) /\ stack' = Append(stack, f)
  BY DEF PushFrame, SteeringTypeOK
<1> HIDE DEF f
<1>3. /\ stack' \in Seq(Frames) /\ Len(stack') = Len(stack) + 1
      /\ \A i \in 1..Len(stack) : stack'[i] = stack[i]
      /\ stack'[Len(stack) + 1] = f
  BY <1>1, <1>2, AppendProperties
<1>4. SubSeq(stack', 1, Len(stack') - 1) = stack
  <2> DEFINE z == SubSeq(stack', 1, Len(stack))
  <2>1. CASE Len(stack) = 0
    <3>1. z = <<>>
      BY <2>1, <1>3, SubSeqEmpty
    <3> QED
      BY <3>1, <2>1, <1>2, <1>3, EmptySeq
  <2>2. CASE Len(stack) >= 1
    <3>1. /\ z \in Seq(Frames) /\ Len(z) = Len(stack)
          /\ \A i \in 1..Len(stack) : z[i] = stack'[i]
      BY <2>2, <1>2, <1>3, SubSeqProperties
    <3> QED
      BY <3>1, <1>2, <1>3, SeqEqual
  <2> QED
    BY <2>1, <2>2, <1>2
<1> QED
  BY <1>2, <1>3, <1>4 DEF f

RoleFrames == [depth : Nat, role : Voiced]

\* The bound roles are records of a depth and a voice.
LEMMA RoleRecords ==
  ASSUME SteeringTypeOK
  PROVE  /\ roles \in Seq(RoleFrames) /\ Len(roles) \in Nat
         /\ DOMAIN roles = 1..Len(roles)
         /\ \A i \in DOMAIN roles :
              roles[i].depth \in Nat /\ roles[i].role \in Voiced
<1>1. roles \in Seq(RoleFrames)
  BY DEF SteeringTypeOK, RoleFrames
<1>2. /\ Len(roles) \in Nat /\ DOMAIN roles = 1..Len(roles)
      /\ \A i \in DOMAIN roles : roles[i] \in RoleFrames
  BY <1>1, ElementOfSeq
<1> QED
  BY <1>1, <1>2 DEF RoleFrames

\* Popping a frame unbinds its role, if it has one, and no other.
LEMMA PopKeepsRoles ==
  ASSUME SteeringTypeOK, RolesInv, PopFrame
  PROVE  RolesInv'
<1>1. roles \in Seq(RoleFrames) /\ Len(roles) \in Nat /\ DOMAIN roles = 1..Len(roles)
  BY RoleRecords
<1>2. PICK n \in 0..Len(roles) :
        /\ n > 0 => roles[n].depth <= Len(stack) - 1
        /\ \A i \in n+1..Len(roles) : roles[i].depth > Len(stack) - 1
        /\ roles' = SubSeq(roles, 1, n)
  BY DEF PopFrame, DropOrphanRoles
<1>3. /\ DOMAIN roles' = 1..n
      /\ \A i \in 1..n : i \in DOMAIN roles /\ roles'[i] = roles[i]
  <2>1. CASE n = 0
    BY <2>1, <1>2, SubSeqEmpty
  <2>2. CASE n > 0
    <3>1. \A i \in 1..n : roles[i] \in RoleFrames
      BY <1>1, <1>2, ElementOfSeq
    <3>2. /\ roles' \in Seq(RoleFrames) /\ Len(roles') = n
          /\ \A i \in 1..n : roles'[i] = roles[i]
      BY <3>1, <2>2, <1>2, SubSeqProperties
    <3> QED
      BY <3>2, <1>1, <1>2
  <2> QED
    BY <2>1, <2>2, <1>2
<1>4. \A i \in DOMAIN roles : roles[i].depth \in Nat
  BY RoleRecords
<1>5. PICK N \in Nat :
        /\ N = Len(stack) /\ DOMAIN stack = 1..N /\ DOMAIN stack' = 1..N - 1
        /\ \A i \in 1..N - 1 : stack'[i] = stack[i]
  <2> DEFINE N == Len(stack)
  <2>1. N \in Nat /\ DOMAIN stack = 1..N
    BY DEF SteeringTypeOK
  <2>2. stack' = Popped /\ \A i \in DOMAIN Popped : Popped[i] = stack[i]
    BY PoppedFrames DEF PopFrame
  <2>3. DOMAIN Popped = 1..N - 1
    <3>1. CASE stack = <<>>
      BY <3>1, PoppedFrames, EmptySeq
    <3>2. CASE stack # <<>>
      BY <3>2, PoppedFrames, EmptySeq
    <3> QED
      BY <3>1, <3>2
  <2>4. DOMAIN stack' = 1..N - 1 /\ \A i \in 1..N - 1 : stack'[i] = stack[i]
    BY <2>2, <2>3
  <2>5. N = Len(stack)
    OBVIOUS
  <2> HIDE DEF N
  <2> QED
    BY <2>1, <2>4, <2>5
<1>6. \A i \in 1..n : roles[i].depth <= N - 1
  <2> SUFFICES ASSUME NEW i \in 1..n
               PROVE  roles[i].depth <= N - 1
    OBVIOUS
  <2>1. i <= n /\ n > 0 /\ roles[n].depth <= N - 1 /\ n \in DOMAIN roles
    BY <1>1, <1>2, <1>5
  <2>2. i < n => roles[i].depth < roles[n].depth
    BY <2>1, <1>3 DEF RolesInv
  <2> QED
    BY <2>1, <2>2, <1>3, <1>4, <1>5
<1>7. \A i \in 1..n : roles[i].depth \in DOMAIN stack'
  BY <1>3, <1>4, <1>5, <1>6 DEF RolesInv
<1>8. \A k \in DOMAIN stack' : stack'[k].kind \in Voiced =>
        \E i \in 1..n : roles[i].depth = k
  <2> SUFFICES ASSUME NEW k \in DOMAIN stack', stack'[k].kind \in Voiced
               PROVE  \E i \in 1..n : roles[i].depth = k
    OBVIOUS
  <2>1. k <= N - 1 /\ k \in DOMAIN stack /\ stack[k].kind \in Voiced
    BY <1>5
  <2>2. PICK i \in DOMAIN roles : roles[i].depth = k
    BY <2>1 DEF RolesInv
  <2>3. i \notin n+1..Len(roles)
    BY <1>2, <2>1, <2>2, <1>5, <1>1, <1>4
  <2> QED
    BY <2>2, <2>3, <1>1, <1>2
<1>9. \A i, j \in DOMAIN roles' : i < j => roles'[i].depth < roles'[j].depth
  BY <1>3 DEF RolesInv
<1>10. \A i \in DOMAIN roles' :
         /\ roles'[i].depth \in DOMAIN stack'
         /\ stack'[roles'[i].depth].kind = roles'[i].role
  BY <1>3, <1>5, <1>7 DEF RolesInv
<1>11. \A k \in DOMAIN stack' : stack'[k].kind \in Voiced =>
         \E i \in DOMAIN roles' : roles'[i].depth = k
  BY <1>3, <1>7, <1>8
<1> QED
  BY <1>9, <1>10, <1>11 DEF RolesInv

\* Pushing a frame binds its role above those that are bound.
LEMMA PushKeepsRoles ==
  ASSUME SteeringTypeOK, RolesInv, NEW t \in Threads, NEW k \in Kinds,
         PushFrame(t, k)
  PROVE  RolesInv'
<1>1. roles \in Seq(RoleFrames) /\ Len(roles) \in Nat /\ DOMAIN roles = 1..Len(roles)
  BY RoleRecords
<1>2. \A i \in DOMAIN roles : roles[i].depth \in Nat
  BY RoleRecords
<1>3. /\ Len(stack) \in Nat /\ DOMAIN stack = 1..Len(stack)
      /\ DOMAIN stack' = 1..Len(stack) + 1
      /\ \A i \in DOMAIN stack : stack'[i] = stack[i]
      /\ stack'[Len(stack) + 1].kind = k
  <2>1. Len(stack) \in Nat /\ DOMAIN stack = 1..Len(stack)
    BY DEF SteeringTypeOK
  <2>2. /\ stack' \in Seq(Frames) /\ Len(stack') = Len(stack) + 1
        /\ \A i \in DOMAIN stack : stack'[i] = stack[i]
        /\ stack'[Len(stack')].kind = k
    <3>1. /\ stack' \in Seq(Frames) /\ Len(stack') = Len(stack) + 1
          /\ \A i \in DOMAIN stack : stack'[i] = stack[i]
          /\ stack'[Len(stack')] = [by |-> t, gen |-> InGeneration(t), kind |-> k]
      BY PushedFrames, Zenon
    <3>2. stack'[Len(stack')].kind = k
      BY <3>1
    <3> QED
      BY <3>1, <3>2
  <2>3. DOMAIN stack' = 1..Len(stack')
    BY <2>2
  <2> QED
    BY <2>1, <2>2, <2>3
<1>4. CASE k \notin Voiced
  <2>1. roles' = roles
    BY <1>4 DEF PushFrame
  <2> QED
    BY <2>1, <1>1, <1>2, <1>3, <1>4 DEF RolesInv
<1>5. CASE k \in Voiced
  <2> DEFINE r == [depth |-> Len(stack) + 1, role |-> k]
  <2>1. r \in RoleFrames /\ roles' = Append(roles, r)
    BY <1>5, <1>3 DEF PushFrame, RoleFrames
  <2>2. r.depth = Len(stack) + 1 /\ r.role = k
    OBVIOUS
  <2> HIDE DEF r
  <2>3. /\ DOMAIN roles' = 1..Len(roles) + 1
        /\ \A i \in DOMAIN roles : roles'[i] = roles[i]
        /\ roles'[Len(roles) + 1] = r
    BY <2>1, <1>1, AppendProperties
  <2>4. \A i, j \in DOMAIN roles' : i < j => roles'[i].depth < roles'[j].depth
    BY <2>2, <2>3, <1>1, <1>2, <1>3 DEF RolesInv
  <2>5. \A i \in DOMAIN roles' :
          /\ roles'[i].depth \in DOMAIN stack'
          /\ stack'[roles'[i].depth].kind = roles'[i].role
    BY <2>2, <2>3, <1>1, <1>2, <1>3 DEF RolesInv
  <2>6. \A j \in DOMAIN stack' : stack'[j].kind \in Voiced =>
          \E i \in DOMAIN roles' : roles'[i].depth = j
    BY <2>2, <2>3, <1>1, <1>2, <1>3 DEF RolesInv
  <2> QED
    BY <2>4, <2>5, <2>6 DEF RolesInv
<1> QED
  BY <1>4, <1>5

\* The roles follow the stack through every step.
LEMMA RolesStep ==
  ASSUME IInv, RolesInv, [Next]_vars
  PROVE  RolesInv'
<1> USE DEF IInv, TypeOK, steerVars
<1>1. ASSUME NEW t \in Threads, NEW k \in Kinds, PushCall(t, k)
      PROVE  RolesInv'
  BY <1>1 DEF RolesInv, PushCall, GoTo, Back, MayCall, RefusesSteering,
     MidGeneration
<1>2. ASSUME NEW t \in Threads, PopCall(t)
      PROVE  RolesInv'
  BY <1>2 DEF RolesInv, PopCall, GoTo, Back, MayCall, RefusesSteering, MidGeneration
<1>3. ASSUME NEW t \in Threads, NEW k \in Kinds \cup {None}, Generate(t, k)
      PROVE  RolesInv'
  BY <1>3 DEF RolesInv, Generate, BeginTransaction, CanBegin, CanLock, Acquire,
     GoTo,
     Back, MayCall
<1>4. ASSUME NEW t \in Threads, Stop(t)
      PROVE  RolesInv'
  BY <1>4 DEF RolesInv, Stop, GoTo, Back, MayCall
<1>5. ASSUME NEW t \in Threads, ModelOp(t)
      PROVE  RolesInv'
  BY <1>5 DEF RolesInv, ModelOp, Exclusive, Refuse, CanLock, Acquire, GoTo, Back,
     MayCall
<1>6. ASSUME NEW t \in Threads, Fit(t)
      PROVE  RolesInv'
  BY <1>6 DEF RolesInv, Fit, Exclusive, Refuse, CanLock, Acquire, GoTo, Back,
     MayCall
<1>7. ASSUME NEW t \in Threads, CachePrefix(t)
      PROVE  RolesInv'
  BY <1>7 DEF RolesInv, CachePrefix, Refuse, GoTo, Back, MayCall
<1>8. ASSUME NEW t \in Threads, JointLogprobs(t)
      PROVE  RolesInv'
  BY <1>8 DEF RolesInv, JointLogprobs, GoTo
<1>9. ASSUME NEW c \in Callers, NEW w \in Workers,
             NEW k \in Kinds \cup {None}, StartStream(c, w, k)
      PROVE  RolesInv'
  BY <1>9 DEF RolesInv, StartStream, GoTo
<1>10. ASSUME NEW c \in Callers, CloseStream(c)
      PROVE  RolesInv'
  BY <1>10 DEF RolesInv, CloseStream, GoTo
<1>11. ASSUME NEW c \in Callers, JoinStream(c)
      PROVE  RolesInv'
  BY <1>11 DEF RolesInv, JoinStream
<1>12. ASSUME NEW t \in Threads, PushAcquire(t)
      PROVE  RolesInv'
  BY <1>12, PushKeepsRoles DEF PushAcquire, ArgInv
<1>13. ASSUME NEW t \in Threads, PushDone(t)
      PROVE  RolesInv'
  BY <1>13 DEF RolesInv, PushDone, Release, GoTo
<1>14. ASSUME NEW t \in Threads, PushFail(t)
      PROVE  RolesInv'
  BY <1>14, PopKeepsRoles DEF PushFail
<1>15. ASSUME NEW t \in Threads, PopAcquire(t)
      PROVE  RolesInv'
  BY <1>15, PopKeepsRoles DEF PopAcquire
<1>16. ASSUME NEW t \in Threads, NEW ok \in BOOLEAN, PopDone(t, ok)
      PROVE  RolesInv'
  BY <1>16 DEF RolesInv, PopDone, Release, GoTo
<1>17. ASSUME NEW t \in Threads, WorkerStarts(t)
      PROVE  RolesInv'
  BY <1>17 DEF RolesInv, WorkerStarts, BeginTransaction, CanBegin, CanLock, Acquire,
     GoTo, Back
<1>18. ASSUME NEW t \in Threads, Resolve(t)
      PROVE  RolesInv'
  BY <1>18 DEF RolesInv, Resolve, Fails, GoTo
<1>19. ASSUME NEW t \in Threads, StartLoomTurn(t)
      PROVE  RolesInv'
  BY <1>19 DEF RolesInv, StartLoomTurn, Fails, GoTo
<1>20. ASSUME NEW t \in Threads, Prepare(t)
      PROVE  RolesInv'
  BY <1>20 DEF RolesInv, Prepare, Fails, GoTo
<1>21. ASSUME NEW t \in Threads, BeginReads(t)
      PROVE  RolesInv'
  BY <1>21 DEF RolesInv, BeginReads, GoTo
<1>22. ASSUME NEW t \in Threads, StopCheck(t)
      PROVE  RolesInv'
  BY <1>22 DEF RolesInv, StopCheck, LoopEnds, IsStopRequested, GoTo
<1>23. ASSUME NEW t \in Threads, Forward(t)
      PROVE  RolesInv'
  BY <1>23 DEF RolesInv, Forward, GoTo
<1>24. ASSUME NEW t \in Threads, Callback(t)
      PROVE  RolesInv'
  BY <1>24 DEF RolesInv, Callback, GoTo
<1>25. ASSUME NEW t \in Threads, Teardown(t)
      PROVE  RolesInv'
  <2>1. CASE txn.scoped
    BY <1>25, <2>1, PopKeepsRoles DEF Teardown, PopOwnScope
  <2>2. CASE ~txn.scoped
    BY <1>25, <2>2 DEF Teardown, PopOwnScope, RolesInv
  <2> QED
    BY <2>1, <2>2
<1>26. ASSUME NEW t \in Threads, Finalize(t)
      PROVE  RolesInv'
  BY <1>26 DEF RolesInv, Finalize, Fails, GoTo
<1>27. ASSUME NEW t \in Threads, EndTransaction(t)
      PROVE  RolesInv'
  <2>1. CASE txn.scoped
    BY <1>27, <2>1, PopKeepsRoles DEF EndTransaction, PopOwnScope
  <2>2. CASE ~txn.scoped
    BY <1>27, <2>2 DEF EndTransaction, PopOwnScope, RolesInv
  <2> QED
    BY <2>1, <2>2
<1>28. ASSUME NEW t \in Threads, EndExclusive(t)
      PROVE  RolesInv'
  BY <1>28 DEF RolesInv, EndExclusive, Release, GoTo, Back
<1>29. ASSUME NEW t \in Threads, StartPrefill(t)
      PROVE  RolesInv'
  BY <1>29 DEF RolesInv, StartPrefill, GoTo
<1>30. ASSUME NEW t \in Threads, EndPrefill(t)
      PROVE  RolesInv'
  BY <1>30 DEF RolesInv, EndPrefill, GoTo
<1>31. ASSUME NEW t \in Threads, EndReplay(t)
      PROVE  RolesInv'
  BY <1>31 DEF RolesInv, EndReplay, GoTo
<1>32. CASE UNCHANGED vars
  BY <1>32 DEF RolesInv, RolesInv, vars
<1> QED
  BY <1>1, <1>2, <1>3, <1>4, <1>5, <1>6, <1>7, <1>8, <1>9, <1>10, <1>11,
     <1>12, <1>13, <1>14, <1>15, <1>16, <1>17, <1>18, <1>19, <1>20, <1>21,
     <1>22, <1>23, <1>24, <1>25, <1>26, <1>27, <1>28, <1>29, <1>30, <1>31,
     <1>32 DEF Next, Calls, Step, StreamCalls, Threads

\* A thread that can take the lock is alone behind it.
LEMMA AloneInside ==
  ASSUME IInv, NEW t \in Threads, lockOwner \in {None, t}
  PROVE  \A u \in Threads : u # t => pc[u] \notin LockedPCs
BY ThreadsAssumption DEF IInv, LockInv

\* What is installed stays the plan of the stack through every step.
LEMMA InstalledStep ==
  ASSUME IInv, InstalledInv, [Next]_vars
  PROVE  InstalledInv'
<1> USE ThreadsAssumption DEF IInv, TypeOK, ControlTypeOK, steerVars, Popped
<1>1. ASSUME NEW t \in Threads, NEW k \in Kinds, PushCall(t, k)
      PROVE  InstalledInv'
  BY <1>1 DEF InstalledInv, PushCall, GoTo, Back, MayCall, RefusesSteering,
     MidGeneration
<1>2. ASSUME NEW t \in Threads, PopCall(t)
      PROVE  InstalledInv'
  BY <1>2 DEF InstalledInv, PopCall, GoTo, Back, MayCall, RefusesSteering,
     MidGeneration
<1>3. ASSUME NEW t \in Threads, NEW k \in Kinds \cup {None}, Generate(t, k)
      PROVE  InstalledInv'
  BY <1>3 DEF InstalledInv, Generate, BeginTransaction, CanBegin, CanLock,
     Acquire, GoTo, Back, MayCall
<1>4. ASSUME NEW t \in Threads, Stop(t)
      PROVE  InstalledInv'
  BY <1>4 DEF InstalledInv, Stop, GoTo, Back, MayCall
<1>5. ASSUME NEW t \in Threads, ModelOp(t)
      PROVE  InstalledInv'
  BY <1>5 DEF InstalledInv, ModelOp, Exclusive, Refuse, CanLock, Acquire,
     GoTo, Back, MayCall
<1>6. ASSUME NEW t \in Threads, Fit(t)
      PROVE  InstalledInv'
  BY <1>6 DEF InstalledInv, Unsteered, Fit, Exclusive, Refuse, CanLock, Acquire,
     GoTo,
     Back, MayCall
<1>7. ASSUME NEW t \in Threads, CachePrefix(t)
      PROVE  InstalledInv'
  BY <1>7 DEF InstalledInv, CachePrefix, Refuse, GoTo, Back, MayCall
<1>8. ASSUME NEW t \in Threads, JointLogprobs(t)
      PROVE  InstalledInv'
  BY <1>8 DEF InstalledInv, JointLogprobs, GoTo
<1>9. ASSUME NEW c \in Callers, NEW w \in Workers,
             NEW k \in Kinds \cup {None}, StartStream(c, w, k)
      PROVE  InstalledInv'
  BY <1>9 DEF InstalledInv, StartStream, GoTo
<1>10. ASSUME NEW c \in Callers, CloseStream(c)
      PROVE  InstalledInv'
  BY <1>10 DEF InstalledInv, CloseStream, GoTo
<1>11. ASSUME NEW c \in Callers, JoinStream(c)
      PROVE  InstalledInv'
  BY <1>11 DEF InstalledInv, JoinStream
<1>12. ASSUME NEW t \in Threads, PushAcquire(t)
      PROVE  InstalledInv'
  <2>1. pc[t] \in {"push", "enter"} /\ lockOwner \in {None, t} /\ arg[t] \in Kinds
    BY <1>12 DEF PushAcquire, CanLock, ArgInv
  <2>2. stack' # <<>> /\ Popped' = stack
    BY <1>12, <2>1, PushedFrames DEF PushAcquire, Popped
  <2>3. \A u \in Threads : pc[u] \notin {"pushing", "popping", "fit"}
    BY <2>1, AloneInside DEF LockedPCs
  <2>4. installed \in {PlanOf(stack), <<>>} /\ installed' = installed
    BY <1>12, <2>3 DEF InstalledInv, PushAcquire
  <2>5. pc' = [pc EXCEPT ![t] = "pushing"]
    BY <1>12 DEF PushAcquire, GoTo
  <2>6. \A u \in Threads : pc'[u] # "fit" /\ pc'[t] = "pushing"
    BY <2>3, <2>5
  <2>7. PlanOf(Popped)' = PlanOf(stack)
    BY <2>2
  <2> QED
    BY <2>2, <2>4, <2>6, <2>7 DEF InstalledInv
<1>13. ASSUME NEW t \in Threads, PushDone(t)
      PROVE  InstalledInv'
  <2>1. pc[t] = "pushing" /\ lockOwner = t
    BY <1>13 DEF PushDone, LockInv, LockedPCs
  <2>2. \A u \in Threads : u # t => pc[u] \notin {"pushing", "popping", "fit"}
    BY <2>1, AloneInside DEF LockedPCs
  <2>3. installed' = PlanOf(stack) /\ stack' = stack
    BY <1>13 DEF PushDone
  <2>4. \A u \in Threads : pc'[u] \notin {"pushing", "popping", "fit"}
    BY <1>13, <2>2 DEF PushDone, GoTo
  <2> QED
    BY <2>3, <2>4 DEF InstalledInv
<1>14. ASSUME NEW t \in Threads, PushFail(t)
      PROVE  InstalledInv'
  <2>1. pc[t] = "pushing" /\ lockOwner = t
    BY <1>14 DEF PushFail, LockInv, LockedPCs
  <2>2. \A u \in Threads : u # t => pc[u] \notin {"pushing", "popping", "fit"}
    BY <2>1, AloneInside DEF LockedPCs
  <2>3. /\ installed' = installed /\ stack' = Popped
        /\ installed \in {PlanOf(Popped), <<>>}
    BY <1>14, <2>1 DEF PushFail, PopFrame, InstalledInv
  <2>4. \A u \in Threads : pc'[u] \notin {"pushing", "popping", "fit"}
    BY <1>14, <2>2 DEF PushFail, GoTo
  <2> QED
    BY <2>3, <2>4 DEF InstalledInv
<1>15. ASSUME NEW t \in Threads, PopAcquire(t)
      PROVE  InstalledInv'
  <2>1. pc[t] = "pop" /\ lockOwner \in {None, t}
    BY <1>15 DEF PopAcquire, CanLock
  <2>2. \A u \in Threads : u # t => pc[u] \notin {"pushing", "popping", "fit"}
    BY <2>1, AloneInside DEF LockedPCs
  <2>3. \A u \in Threads : pc'[u] \notin {"pushing", "fit"} /\ pc'[t] = "popping"
    BY <1>15, <2>2 DEF PopAcquire, GoTo
  <2> QED
    BY <2>3 DEF InstalledInv
<1>16. ASSUME NEW t \in Threads, NEW ok \in BOOLEAN, PopDone(t, ok)
      PROVE  InstalledInv'
  <2>1. pc[t] = "popping" /\ lockOwner = t
    BY <1>16 DEF PopDone, LockInv, LockedPCs
  <2>2. \A u \in Threads : u # t => pc[u] \notin {"pushing", "popping", "fit"}
    BY <2>1, AloneInside DEF LockedPCs
  <2>3. installed' \in {PlanOf(stack), <<>>} /\ stack' = stack
    BY <1>16 DEF PopDone, Reinstall
  <2>4. \A u \in Threads : pc'[u] \notin {"pushing", "popping", "fit"}
    BY <1>16, <2>2 DEF PopDone, GoTo
  <2> QED
    BY <2>3, <2>4 DEF InstalledInv
<1>17. ASSUME NEW t \in Threads, WorkerStarts(t)
      PROVE  InstalledInv'
  BY <1>17 DEF InstalledInv, WorkerStarts, BeginTransaction, CanBegin,
     CanLock, Acquire, GoTo, Back
<1>18. ASSUME NEW t \in Threads, Resolve(t)
      PROVE  InstalledInv'
  BY <1>18 DEF InstalledInv, Resolve, Fails, GoTo
<1>19. ASSUME NEW t \in Threads, StartLoomTurn(t)
      PROVE  InstalledInv'
  BY <1>19 DEF InstalledInv, StartLoomTurn, Fails, GoTo
<1>20. ASSUME NEW t \in Threads, Prepare(t)
      PROVE  InstalledInv'
  BY <1>20 DEF InstalledInv, Prepare, Fails, GoTo
<1>21. ASSUME NEW t \in Threads, BeginReads(t)
      PROVE  InstalledInv'
  BY <1>21 DEF InstalledInv, BeginReads, GoTo
<1>22. ASSUME NEW t \in Threads, StopCheck(t)
      PROVE  InstalledInv'
  BY <1>22 DEF InstalledInv, StopCheck, LoopEnds, IsStopRequested, GoTo
<1>23. ASSUME NEW t \in Threads, Forward(t)
      PROVE  InstalledInv'
  BY <1>23 DEF InstalledInv, Forward, GoTo
<1>24. ASSUME NEW t \in Threads, Callback(t)
      PROVE  InstalledInv'
  BY <1>24 DEF InstalledInv, Callback, GoTo
<1>25. ASSUME NEW t \in Threads, Teardown(t)
      PROVE  InstalledInv'
  <2>1. pc[t] = "teardown" /\ lockOwner = t
    BY <1>25 DEF Teardown, LockInv, LockedPCs
  <2>2. \A u \in Threads : u # t => pc[u] \notin {"pushing", "popping", "fit"}
    BY <2>1, AloneInside DEF LockedPCs
  <2>3. installed \in {PlanOf(stack), <<>>}
    BY <2>1, <2>2 DEF InstalledInv
  <2>4. installed' \in {PlanOf(stack'), <<>>}
    BY <1>25, <2>3 DEF Teardown, PopOwnScope, PopFrame, Reinstall
  <2>5. \A u \in Threads : pc'[u] \notin {"pushing", "popping", "fit"}
    BY <1>25, <2>2 DEF Teardown, GoTo
  <2> QED
    BY <2>4, <2>5 DEF InstalledInv
<1>26. ASSUME NEW t \in Threads, Finalize(t)
      PROVE  InstalledInv'
  BY <1>26 DEF InstalledInv, Finalize, Fails, GoTo
<1>27. ASSUME NEW t \in Threads, EndTransaction(t)
      PROVE  InstalledInv'
  <2>1. pc[t] = "exit" /\ lockOwner = t
    BY <1>27 DEF EndTransaction, LockInv, LockedPCs
  <2>2. \A u \in Threads : u # t => pc[u] \notin {"pushing", "popping", "fit"}
    BY <2>1, AloneInside DEF LockedPCs
  <2>3. installed \in {PlanOf(stack), <<>>}
    BY <2>1, <2>2 DEF InstalledInv
  <2>4. installed' \in {PlanOf(stack'), <<>>}
    BY <1>27, <2>3 DEF EndTransaction, PopOwnScope, PopFrame, Reinstall
  <2>5. \A u \in Threads : pc'[u] \notin {"pushing", "popping", "fit"}
    BY <1>27, <2>2 DEF EndTransaction, GoTo, Ended
  <2> QED
    BY <2>4, <2>5 DEF InstalledInv
<1>28. ASSUME NEW t \in Threads, EndExclusive(t)
      PROVE  InstalledInv'
  BY <1>28 DEF InstalledInv, EndExclusive, Release, GoTo, Back
<1>29. ASSUME NEW t \in Threads, StartPrefill(t)
      PROVE  InstalledInv'
  BY <1>29 DEF InstalledInv, StartPrefill, GoTo
<1>30. ASSUME NEW t \in Threads, EndPrefill(t)
      PROVE  InstalledInv'
  BY <1>30 DEF InstalledInv, EndPrefill, GoTo
<1>31. ASSUME NEW t \in Threads, EndReplay(t)
      PROVE  InstalledInv'
  BY <1>31 DEF InstalledInv, EndReplay, GoTo
<1>32. CASE UNCHANGED vars
  BY <1>32 DEF InstalledInv, vars
<1> QED
  BY <1>1, <1>2, <1>3, <1>4, <1>5, <1>6, <1>7, <1>8, <1>9, <1>10, <1>11,
     <1>12, <1>13, <1>14, <1>15, <1>16, <1>17, <1>18, <1>19, <1>20, <1>21,
     <1>22, <1>23, <1>24, <1>25, <1>26, <1>27, <1>28, <1>29, <1>30, <1>31,
     <1>32 DEF Next, Calls, Step, StreamCalls, Threads

\* Once the top frame is off, no frame of a generation is left.
LEMMA PopOwnsNothing ==
  ASSUME SteeringTypeOK, FramesInv, stack' = Popped
  PROVE  \A i \in DOMAIN stack' : ~stack'[i].gen
<1>1. Len(stack) \in Nat /\ DOMAIN stack = 1..Len(stack)
  BY DEF SteeringTypeOK
<1> SUFFICES ASSUME NEW i \in DOMAIN Popped, Popped[i].gen
             PROVE  FALSE
  OBVIOUS
<1>2. i \in DOMAIN stack /\ stack[i].gen
  BY PoppedFrames
<1>3. i = Len(stack)
  BY <1>2 DEF FramesInv
<1>4. DOMAIN Popped = 1..Len(Popped)
  BY PoppedFrames
<1>5. CASE stack = <<>>
  BY <1>5, <1>2
<1>6. CASE stack # <<>>
  <2>1. Len(Popped) = Len(stack) - 1
    BY <1>6, PoppedFrames
  <2> QED
    BY <2>1, <1>1, <1>3, <1>4
<1> QED
  BY <1>5, <1>6

\* A generation's frame stays on top, and its own, through every step.
LEMMA FramesStep ==
  ASSUME IInv, ReleaseInv, FramesInv, [Next]_vars
  PROVE  FramesInv'
<1> USE ThreadsAssumption
    DEF IInv, TypeOK, ControlTypeOK, steerVars, lockVars, histVars, Generating,
        InGeneration
<1>0. ~Generating => ~txn.scoped
  BY DEF ReleaseInv, NoTxn, NewTxn
<1>1. ASSUME NEW t \in Threads, NEW k \in Kinds, PushCall(t, k)
      PROVE  FramesInv'
  BY <1>1, <1>0 DEF FramesInv, LockInv, PhaseInv, LockedPCs, PreamblePCs,
     DecodePCs, Txns, NoTxn, NewTxn, PushCall, GoTo, Back, MayCall,
     RefusesSteering, MidGeneration
<1>2. ASSUME NEW t \in Threads, PopCall(t)
      PROVE  FramesInv'
  BY <1>2, <1>0 DEF FramesInv, LockInv, PhaseInv, LockedPCs, PreamblePCs,
     DecodePCs, Txns, NoTxn, NewTxn, PopCall, GoTo, Back, MayCall,
     RefusesSteering, MidGeneration
<1>3. ASSUME NEW t \in Threads, NEW k \in Kinds \cup {None}, Generate(t, k)
      PROVE  FramesInv'
  BY <1>3, <1>0 DEF FramesInv, LockInv, PhaseInv, LockedPCs, PreamblePCs,
     DecodePCs, Txns, NoTxn, NewTxn, Generate, BeginTransaction, CanBegin,
     CanLock, Acquire, GoTo, Back, MayCall
<1>4. ASSUME NEW t \in Threads, Stop(t)
      PROVE  FramesInv'
  BY <1>4, <1>0 DEF FramesInv, LockInv, PhaseInv, LockedPCs, PreamblePCs,
     DecodePCs, Txns, NoTxn, NewTxn, Stop, GoTo, Back, MayCall
<1>5. ASSUME NEW t \in Threads, ModelOp(t)
      PROVE  FramesInv'
  BY <1>5, <1>0 DEF FramesInv, LockInv, PhaseInv, LockedPCs, PreamblePCs,
     DecodePCs, Txns, NoTxn, NewTxn, ModelOp, Exclusive, Refuse, CanLock,
     Acquire, GoTo, Back, MayCall
<1>6. ASSUME NEW t \in Threads, Fit(t)
      PROVE  FramesInv'
  BY <1>6, <1>0 DEF FramesInv, LockInv, PhaseInv, LockedPCs, PreamblePCs,
     DecodePCs, Txns, NoTxn, NewTxn, Fit, Exclusive, Refuse, CanLock, Acquire,
     GoTo, Back, MayCall
<1>7. ASSUME NEW t \in Threads, CachePrefix(t)
      PROVE  FramesInv'
  BY <1>7, <1>0 DEF FramesInv, LockInv, PhaseInv, LockedPCs, PreamblePCs,
     DecodePCs, Txns, NoTxn, NewTxn, CachePrefix, Refuse, GoTo, Back, MayCall
<1>8. ASSUME NEW t \in Threads, JointLogprobs(t)
      PROVE  FramesInv'
  BY <1>8, <1>0 DEF FramesInv, LockInv, PhaseInv, LockedPCs, PreamblePCs,
     DecodePCs, Txns, NoTxn, NewTxn, JointLogprobs, GoTo
<1>9. ASSUME NEW c \in Callers, NEW w \in Workers,
             NEW k \in Kinds \cup {None}, StartStream(c, w, k)
      PROVE  FramesInv'
  BY <1>9, <1>0 DEF FramesInv, LockInv, PhaseInv, LockedPCs, PreamblePCs,
     DecodePCs, Txns, NoTxn, NewTxn, StartStream, GoTo
<1>10. ASSUME NEW c \in Callers, CloseStream(c)
      PROVE  FramesInv'
  BY <1>10, <1>0 DEF FramesInv, LockInv, PhaseInv, LockedPCs, PreamblePCs,
     DecodePCs, Txns, NoTxn, NewTxn, CloseStream, GoTo
<1>11. ASSUME NEW c \in Callers, JoinStream(c)
      PROVE  FramesInv'
  BY <1>11, <1>0 DEF FramesInv, LockInv, PhaseInv, LockedPCs, PreamblePCs,
     DecodePCs, Txns, NoTxn, NewTxn, JoinStream
<1>12. ASSUME NEW t \in Threads, PushAcquire(t)
      PROVE  FramesInv'
  <2>1. /\ pc[t] \in {"push", "enter"} /\ lockOwner \in {None, t}
        /\ arg[t] \in Kinds /\ pc' = [pc EXCEPT ![t] = "pushing"]
        /\ lockOwner' = t /\ UNCHANGED <<phase, txn>>
    BY <1>12 DEF PushAcquire, CanLock, ArgInv, Acquire, GoTo
  <2>2. \A u \in Threads : u # t => pc[u] \notin LockedPCs
    BY <2>1, AloneInside
  <2>3. InGeneration(t) = Generating
    BY <2>1, ThreadsAssumption DEF InGeneration, LockInv, Generating
  <2>4. ~txn.scoped
    <3>1. CASE pc[t] = "enter"
      BY <3>1 DEF FramesInv
    <3>2. CASE pc[t] = "push"
      <4>1. lockOwner # t
        BY <3>2 DEF LockInv, LockedPCs, PreamblePCs, DecodePCs
      <4>2. phase = "IDLE"
        BY <4>1, <2>1, ThreadsAssumption DEF LockInv
      <4> QED
        BY <4>2 DEF ReleaseInv, Generating, NoTxn, NewTxn
    <3> QED
      BY <3>1, <3>2, <2>1
  <2>5. \A i \in DOMAIN stack : ~stack[i].gen
    <3> SUFFICES ASSUME NEW i \in DOMAIN stack, stack[i].gen
                 PROVE  FALSE
      OBVIOUS
    <3>1. Generating /\ pc[lockOwner] = "pushing"
      BY <2>4 DEF FramesInv
    <3>2. lockOwner = t
      BY <3>1, <2>1, ThreadsAssumption DEF LockInv, Generating
    <3> QED
      BY <3>1, <3>2, <2>1
  <2>6. /\ Len(stack') = Len(stack) + 1 /\ stack' \in Seq(Frames)
        /\ stack' # <<>>
        /\ \A i \in DOMAIN stack : stack'[i] = stack[i]
        /\ stack'[Len(stack')] = [by |-> t, gen |-> InGeneration(t), kind |-> arg[t]]
    BY <1>12, <2>1, PushedFrames DEF PushAcquire
  <2>7. \A i \in DOMAIN stack' : i \in DOMAIN stack \/ i = Len(stack')
    <3>1. Len(stack) \in Nat /\ DOMAIN stack = 1..Len(stack)
      BY DEF SteeringTypeOK
    <3>2. DOMAIN stack' = 1..Len(stack')
      BY <2>6
    <3> QED
      BY <3>1, <3>2, <2>6
  <2>8. /\ stack'[Len(stack')].gen = Generating
        /\ stack'[Len(stack')].by = t
    BY <2>3, <2>6
  <2>9. \A i \in DOMAIN stack' : stack'[i].gen =>
          /\ i = Len(stack') /\ stack'[i].by = lockOwner' /\ Generating
          /\ pc'[lockOwner'] = "pushing"
    BY <2>1, <2>5, <2>6, <2>7, <2>8
  <2>10. Generating' = Generating /\ ~txn'.scoped
    BY <2>1, <2>4 DEF Generating
  <2>11. \A u \in Threads : pc'[u] = "pushing" =>
           stack' # <<>> /\ stack'[Len(stack')].gen = Generating'
    BY <2>6, <2>8, <2>10
  <2> QED
    BY <2>9, <2>10, <2>11 DEF FramesInv
<1>13. ASSUME NEW t \in Threads, PushDone(t)
      PROVE  FramesInv'
  <2>1. pc[t] = "pushing" /\ lockOwner = t /\ UNCHANGED <<stack, phase>>
    BY <1>13 DEF PushDone, LockInv, LockedPCs
  <2>2. \A u \in Threads : u # t => pc[u] \notin LockedPCs
    BY <2>1, AloneInside
  <2>3. stack # <<>> /\ stack[Len(stack)].gen = Generating
    BY <2>1 DEF FramesInv
  <2>4. CASE Generating
    <3>1. /\ txn' = [txn EXCEPT !.scoped = TRUE] /\ pc' = [pc EXCEPT ![t] = "prepare"]
      BY <1>13, <2>1, <2>4 DEF PushDone, InGeneration, GoTo
    <3>2. lockOwner' = lockOwner
      BY <1>13, <2>1, <2>4 DEF PushDone, Release, LockInv, Generating
    <3>3. txn'.scoped
      BY <3>1 DEF Txns
    <3>4. \A u \in Threads :
            pc'[u] \notin {"resolve", "loom", "enter", "pushing"}
      BY <3>1, <2>1, <2>2 DEF LockedPCs, PreamblePCs
    <3> QED
      BY <2>1, <2>3, <2>4, <3>2, <3>3, <3>4 DEF FramesInv, Generating
  <2>5. CASE ~Generating
    <3>1. /\ txn' = txn /\ pc' = [pc EXCEPT ![t] = "idle"]
      BY <1>13, <2>1, <2>5 DEF PushDone, InGeneration, GoTo
    <3>2. ~txn.scoped
      BY <2>1 DEF FramesInv
    <3>3. \A u \in Threads :
            pc'[u] \notin {"resolve", "loom", "enter", "pushing"}
      BY <3>1, <2>1, <2>2 DEF LockedPCs, PreamblePCs
    <3> QED
      BY <2>1, <2>5, <3>1, <3>2, <3>3 DEF FramesInv, Generating
  <2> QED
    BY <2>4, <2>5
<1>14. ASSUME NEW t \in Threads, PushFail(t)
      PROVE  FramesInv'
  <2>1. pc[t] = "pushing" /\ lockOwner = t
    BY <1>14 DEF PushFail, LockInv, LockedPCs
  <2>2. \A u \in Threads : u # t => pc[u] \notin LockedPCs
    BY <2>1, AloneInside
  <2>3. \A i \in DOMAIN stack' : ~stack'[i].gen
    BY <1>14, PopOwnsNothing DEF PushFail, PopFrame
  <2>4. ~txn.scoped
    BY <2>1 DEF FramesInv
  <2>5. ~txn'.scoped
    BY <1>14, <2>4 DEF PushFail, Txns
  <2>6. \A u \in Threads : pc'[u] # "pushing"
    BY <1>14, <2>2 DEF PushFail, GoTo, LockedPCs
  <2> QED
    BY <2>3, <2>5, <2>6 DEF FramesInv
<1>15. ASSUME NEW t \in Threads, PopAcquire(t)
      PROVE  FramesInv'
  <2>1. pc[t] = "pop" /\ lockOwner \in {None, t}
    BY <1>15 DEF PopAcquire, CanLock
  <2>2. \A u \in Threads : u # t => pc[u] \notin LockedPCs
    BY <2>1, AloneInside
  <2>3. \A i \in DOMAIN stack' : ~stack'[i].gen
    BY <1>15, PopOwnsNothing DEF PopAcquire, PopFrame
  <2>4. phase = "IDLE"
    BY <2>1, ThreadsAssumption DEF LockInv, LockedPCs, PreamblePCs, DecodePCs
  <2>5. ~txn.scoped /\ txn' = txn
    BY <1>15, <2>4 DEF ReleaseInv, Generating, NoTxn, NewTxn, PopAcquire
  <2>6. \A u \in Threads : pc'[u] # "pushing"
    BY <1>15, <2>2 DEF PopAcquire, GoTo, LockedPCs
  <2> QED
    BY <2>3, <2>5, <2>6 DEF FramesInv
<1>16. ASSUME NEW t \in Threads, NEW ok \in BOOLEAN, PopDone(t, ok)
      PROVE  FramesInv'
  BY <1>16, <1>0 DEF FramesInv, LockInv, PhaseInv, LockedPCs, PreamblePCs,
     DecodePCs, Txns, NoTxn, NewTxn, PopDone, Release, GoTo
<1>17. ASSUME NEW t \in Threads, WorkerStarts(t)
      PROVE  FramesInv'
  BY <1>17, <1>0 DEF FramesInv, LockInv, PhaseInv, LockedPCs, PreamblePCs,
     DecodePCs, Txns, NoTxn, NewTxn, WorkerStarts, BeginTransaction, CanBegin,
     CanLock, Acquire, GoTo, Back
<1>18. ASSUME NEW t \in Threads, Resolve(t)
      PROVE  FramesInv'
  BY <1>18, <1>0 DEF FramesInv, LockInv, PhaseInv, LockedPCs, PreamblePCs,
     DecodePCs, Txns, NoTxn, NewTxn, Resolve, Fails, GoTo
<1>19. ASSUME NEW t \in Threads, StartLoomTurn(t)
      PROVE  FramesInv'
  BY <1>19, <1>0 DEF FramesInv, LockInv, PhaseInv, LockedPCs, PreamblePCs,
     DecodePCs, Txns, NoTxn, NewTxn, StartLoomTurn, Fails, GoTo
<1>20. ASSUME NEW t \in Threads, Prepare(t)
      PROVE  FramesInv'
  BY <1>20, <1>0 DEF FramesInv, LockInv, PhaseInv, LockedPCs, PreamblePCs,
     DecodePCs, Txns, NoTxn, NewTxn, Prepare, Fails, GoTo
<1>21. ASSUME NEW t \in Threads, BeginReads(t)
      PROVE  FramesInv'
  BY <1>21, <1>0 DEF FramesInv, LockInv, PhaseInv, LockedPCs, PreamblePCs,
     DecodePCs, Txns, NoTxn, NewTxn, BeginReads, GoTo
<1>22. ASSUME NEW t \in Threads, StopCheck(t)
      PROVE  FramesInv'
  BY <1>22, <1>0 DEF FramesInv, LockInv, PhaseInv, LockedPCs, PreamblePCs,
     DecodePCs, Txns, NoTxn, NewTxn, StopCheck, LoopEnds, IsStopRequested,
     GoTo
<1>23. ASSUME NEW t \in Threads, Forward(t)
      PROVE  FramesInv'
  BY <1>23, <1>0 DEF FramesInv, LockInv, PhaseInv, LockedPCs, PreamblePCs,
     DecodePCs, Txns, NoTxn, NewTxn, Forward, GoTo
<1>24. ASSUME NEW t \in Threads, Callback(t)
      PROVE  FramesInv'
  BY <1>24, <1>0 DEF FramesInv, LockInv, PhaseInv, LockedPCs, PreamblePCs,
     DecodePCs, Txns, NoTxn, NewTxn, Callback, GoTo
<1>25. ASSUME NEW t \in Threads, Teardown(t)
      PROVE  FramesInv'
  <2>1. pc[t] = "teardown" /\ lockOwner = t /\ Generating
    BY <1>25 DEF Teardown, LockInv, PhaseInv, LockedPCs, Generating
  <2>2. \A u \in Threads : u # t => pc[u] \notin LockedPCs
    BY <2>1, AloneInside
  <2>3. \A i \in DOMAIN stack' : ~stack'[i].gen
    <3>1. CASE txn.scoped
      BY <1>25, <3>1, PopOwnsNothing DEF Teardown, PopOwnScope, PopFrame
    <3>2. CASE ~txn.scoped
      BY <1>25, <2>1, <3>2 DEF FramesInv, Teardown, PopOwnScope
    <3> QED
      BY <3>1, <3>2
  <2>4. ~txn'.scoped
    BY <1>25 DEF Teardown, Txns, NoTxn, NewTxn
  <2>5. \A u \in Threads : pc'[u] # "pushing"
    BY <1>25, <2>2 DEF Teardown, GoTo, Ended, LockedPCs
  <2> QED
    BY <2>3, <2>4, <2>5 DEF FramesInv
<1>26. ASSUME NEW t \in Threads, Finalize(t)
      PROVE  FramesInv'
  BY <1>26, <1>0 DEF FramesInv, LockInv, PhaseInv, LockedPCs, PreamblePCs,
     DecodePCs, Txns, NoTxn, NewTxn, Finalize, Fails, GoTo
<1>27. ASSUME NEW t \in Threads, EndTransaction(t)
      PROVE  FramesInv'
  <2>1. pc[t] = "exit" /\ lockOwner = t /\ Generating
    BY <1>27 DEF EndTransaction, LockInv, PhaseInv, LockedPCs, Generating
  <2>2. \A u \in Threads : u # t => pc[u] \notin LockedPCs
    BY <2>1, AloneInside
  <2>3. \A i \in DOMAIN stack' : ~stack'[i].gen
    <3>1. CASE txn.scoped
      BY <1>27, <3>1, PopOwnsNothing DEF EndTransaction, PopOwnScope, PopFrame
    <3>2. CASE ~txn.scoped
      BY <1>27, <2>1, <3>2 DEF FramesInv, EndTransaction, PopOwnScope
    <3> QED
      BY <3>1, <3>2
  <2>4. ~txn'.scoped
    BY <1>27 DEF EndTransaction, Txns, NoTxn, NewTxn
  <2>5. \A u \in Threads : pc'[u] # "pushing"
    BY <1>27, <2>2 DEF EndTransaction, GoTo, Ended, LockedPCs
  <2> QED
    BY <2>3, <2>4, <2>5 DEF FramesInv
<1>28. ASSUME NEW t \in Threads, EndExclusive(t)
      PROVE  FramesInv'
  BY <1>28, <1>0 DEF FramesInv, LockInv, PhaseInv, LockedPCs, PreamblePCs,
     DecodePCs, Txns, NoTxn, NewTxn, EndExclusive, Release, GoTo, Back
<1>29. ASSUME NEW t \in Threads, StartPrefill(t)
      PROVE  FramesInv'
  BY <1>29, <1>0 DEF FramesInv, LockInv, PhaseInv, LockedPCs, PreamblePCs,
     DecodePCs, Txns, NoTxn, NewTxn, StartPrefill, GoTo
<1>30. ASSUME NEW t \in Threads, EndPrefill(t)
      PROVE  FramesInv'
  BY <1>30, <1>0 DEF FramesInv, LockInv, PhaseInv, LockedPCs, PreamblePCs,
     DecodePCs, Txns, NoTxn, NewTxn, EndPrefill, GoTo
<1>31. ASSUME NEW t \in Threads, EndReplay(t)
      PROVE  FramesInv'
  BY <1>31, <1>0 DEF FramesInv, LockInv, PhaseInv, LockedPCs, PreamblePCs,
     DecodePCs, Txns, NoTxn, NewTxn, EndReplay, GoTo
<1>32. CASE UNCHANGED vars
  BY <1>32 DEF FramesInv, Generating, vars
<1> QED
  BY <1>1, <1>2, <1>3, <1>4, <1>5, <1>6, <1>7, <1>8, <1>9, <1>10, <1>11,
     <1>12, <1>13, <1>14, <1>15, <1>16, <1>17, <1>18, <1>19, <1>20, <1>21,
     <1>22, <1>23, <1>24, <1>25, <1>26, <1>27, <1>28, <1>29, <1>30, <1>31,
     <1>32 DEF Next, Calls, Step, StreamCalls, Threads

---------------------------------------------------------------------------
\* The inductive invariant of the session holds for any threads, expressions
\* and bounds: what is typed, who holds the lock, what a generation holds, what
\* is installed and bound, whose frames are on the stack and which stop is heard.
THEOREM SessionInvariant == Spec => []SessionInv
<1>1. Init => SessionInv
  <2>1. Init => IInv
    BY InitIInv
  <2>2. Init => ReleaseInv /\ RolesInv /\ StopInv
    BY DEF Init, ReleaseInv, RolesInv, StopInv, Generating, NoTxn, NewTxn
  <2>3. Init => InstalledInv /\ FramesInv
    BY DEF Init, InstalledInv, FramesInv, NoTxn, NewTxn
  <2> QED
    BY <2>1, <2>2, <2>3 DEF SessionInv
<1>2. SessionInv /\ [Next]_vars => SessionInv'
  BY IInvStep, ReleaseStep, InstalledStep, RolesStep, FramesStep, StopStep
     DEF SessionInv
<1> QED
  BY <1>1, <1>2, PTL DEF Spec

\* Between generations nothing of one is left: no reservation that would refuse
\* tree edits, no instrument run, no capture hook, no phase, no lock.
THEOREM ReleasedWhenIdle == Spec => []IdleMeansReleased
<1>1. SessionInv => IdleMeansReleased
  <2> SUFFICES ASSUME SessionInv, \A t \in Threads : pc[t] \in WaitingPCs
               PROVE  held = {} /\ phase = "IDLE" /\ txn = NoTxn /\ lockDepth = 0
    BY DEF IdleMeansReleased
  <2>1. \A t \in Threads : pc[t] \notin LockedPCs
    BY DEF WaitingPCs, LockedPCs, PreamblePCs, DecodePCs
  <2>2. lockOwner = None
    BY <2>1 DEF SessionInv, IInv, LockInv, TypeOK, ControlTypeOK
  <2>3. phase = "IDLE" /\ lockDepth = 0
    BY <2>2 DEF SessionInv, IInv, LockInv
  <2> QED
    BY <2>3 DEF SessionInv, ReleaseInv, Generating
<1> QED
  BY <1>1, SessionInvariant, PTL

\* A fit that derives artifacts runs under no steering: no scope is open, and
\* no plan is installed.
THEOREM FitsAreUnsteered == Spec => []FitsRunUnsteered
<1>1. SessionInv => FitsRunUnsteered
  <2> SUFFICES ASSUME SessionInv, NEW t \in Threads, pc[t] = "fit"
               PROVE  stack = <<>> /\ installed = <<>>
    BY DEF FitsRunUnsteered
  <2>1. stack = <<>>
    BY DEF SessionInv, InstalledInv
  <2>2. IInv /\ lockOwner = t
    BY DEF SessionInv, IInv, LockInv, LockedPCs
  <2>3. \A u \in Threads : pc[u] \notin {"pushing", "popping"}
    BY <2>2, AloneInside DEF LockedPCs
  <2>4. installed \in {PlanOf(stack), <<>>}
    BY <2>3 DEF SessionInv, InstalledInv
  <2> QED
    BY <2>1, <2>4, EmptyPlan
<1> QED
  BY <1>1, SessionInvariant, PTL

\* The bound roles are exactly the voiced frames of the stack.
LEMMA RolesAreTheFrames ==
  ASSUME SteeringTypeOK, RolesInv
  PROVE  RolesFollowStack
<1> DEFINE bound == {<<roles[i].depth, roles[i].role>> : i \in DOMAIN roles}
           voiced == {i \in DOMAIN stack : stack[i].kind \in Voiced}
           frames == {<<i, stack[i].kind>> : i \in voiced}
<1>1. ASSUME NEW i \in DOMAIN roles
      PROVE  <<roles[i].depth, roles[i].role>> \in frames
  <2>1. roles[i].depth \in DOMAIN stack /\ stack[roles[i].depth].kind = roles[i].role
    BY DEF RolesInv
  <2>2. roles[i].role \in Voiced
    BY RoleRecords
  <2> QED
    BY <2>1, <2>2
<1>2. ASSUME NEW k \in voiced
      PROVE  <<k, stack[k].kind>> \in bound
  <2>1. PICK i \in DOMAIN roles : roles[i].depth = k
    BY DEF RolesInv
  <2>2. roles[i].role = stack[k].kind
    BY <2>1 DEF RolesInv
  <2> QED
    BY <2>1, <2>2
<1>3. bound = frames
  BY <1>1, <1>2
<1> QED
  BY <1>3 DEF RolesFollowStack

\* What is in force is what the stack says: its plan is installed (or nothing,
\* after a pop that could not rebuild), its voices are bound at their depths,
\* and a frame of a generation belongs to the one that runs.
THEOREM SteeringIsTheStack == Spec => []SteeringFollowsStack
<1>1. SessionInv => InstalledFollowsStack
  BY DEF SessionInv, InstalledInv, InstalledFollowsStack
<1>2. SessionInv => RolesFollowStack
  BY RolesAreTheFrames DEF SessionInv, IInv, TypeOK
<1>3. SessionInv => GenerationFramesAreOwned
  BY DEF SessionInv, FramesInv, GenerationFramesAreOwned
<1> QED
  BY <1>1, <1>2, <1>3, SessionInvariant, PTL DEF SteeringFollowsStack

\* After a stop of a running decode, or a closed stream, at most the forward in
\* flight still finishes.
THEOREM StopTakesOneStep == Spec => []StopIsPrompt
<1>1. SessionInv => StopIsPrompt
  BY DEF SessionInv, StopInv, StopIsPrompt
<1> QED
  BY <1>1, SessionInvariant, PTL

---------------------------------------------------------------------------
(* The cached prefix of a session that one thread drives.  cache_prefix    *)
(* takes no lock, so with a second thread a push may fall inside it.       *)

OneThread == \A t, u \in Threads : t = u

\* A cached prefix was computed under no steering, and goes when a plan that
\* steers the prefill is installed.
PrefixInv ==
  /\ prefix # "steered"
  /\ \A t \in Threads :
       /\ pc[t] # "prefill_steered"
       /\ pc[t] \in {"prefix", "prefill"} => stack = <<>> /\ installed = <<>>
       /\ pc[t] = "pushing" => prefix = "none" \/ ~SteersPrefill(Popped)
  /\ (\A t \in Threads : pc[t] # "pushing")
       => prefix = "none" \/ ~SteersPrefill(stack)

\* With a frame less, nothing new steers the prefill.
LEMMA PopSteersNoMore ==
  ASSUME SteeringTypeOK
  PROVE  SteersPrefill(Popped) => SteersPrefill(stack)
<1> SUFFICES ASSUME NEW i \in 1..Len(Popped), Popped[i].kind \in Prefill
             PROVE  \E j \in 1..Len(stack) : stack[j].kind \in Prefill
  BY DEF SteersPrefill
<1>1. DOMAIN Popped = 1..Len(Popped) /\ DOMAIN stack = 1..Len(stack)
  BY PoppedFrames DEF SteeringTypeOK
<1>2. i \in DOMAIN stack /\ stack[i] = Popped[i]
  BY <1>1, PoppedFrames
<1> QED
  BY <1>1, <1>2

\* No step of the one thread leaves a prefix that steering touched.
LEMMA PrefixStep ==
  ASSUME OneThread, IInv, InstalledInv, PrefixInv, [Next]_vars
  PROVE  PrefixInv'
<1> USE ThreadsAssumption DEF IInv, TypeOK, ControlTypeOK, steerVars, Popped, Threads
<1>1. ASSUME NEW t \in Threads, NEW k \in Kinds, PushCall(t, k)
      PROVE  PrefixInv'
  BY <1>1 DEF PrefixInv, OneThread, PushCall, GoTo, Back, MayCall,
     RefusesSteering, MidGeneration
<1>2. ASSUME NEW t \in Threads, PopCall(t)
      PROVE  PrefixInv'
  BY <1>2 DEF PrefixInv, OneThread, PopCall, GoTo, Back, MayCall,
     RefusesSteering, MidGeneration
<1>3. ASSUME NEW t \in Threads, NEW k \in Kinds \cup {None}, Generate(t, k)
      PROVE  PrefixInv'
  BY <1>3 DEF PrefixInv, OneThread, Generate, BeginTransaction, CanBegin,
     CanLock, Acquire, GoTo, Back, MayCall
<1>4. ASSUME NEW t \in Threads, Stop(t)
      PROVE  PrefixInv'
  BY <1>4 DEF PrefixInv, OneThread, Stop, GoTo, Back, MayCall
<1>5. ASSUME NEW t \in Threads, ModelOp(t)
      PROVE  PrefixInv'
  BY <1>5 DEF PrefixInv, OneThread, ModelOp, Exclusive, Refuse, CanLock,
     Acquire, GoTo, Back, MayCall
<1>6. ASSUME NEW t \in Threads, Fit(t)
      PROVE  PrefixInv'
  BY <1>6 DEF PrefixInv, OneThread, Fit, Exclusive, Refuse, CanLock, Acquire,
     GoTo, Back, MayCall
<1>7. ASSUME NEW t \in Threads, CachePrefix(t)
      PROVE  PrefixInv'
  <2>1. \A u \in Threads : u = t
    BY DEF OneThread
  <2>2. CASE Refuse(t)
    BY <2>1, <2>2, <1>7 DEF Refuse, CachePrefix, MayCall, GoTo, Back, PrefixInv
  <2>3. CASE ~Refuse(t)
    <3>1. /\ stack = <<>> /\ pc[t] \in {"idle", "callback"}
          /\ UNCHANGED <<steerVars, prefix>>
      BY <1>7, <2>3 DEF CachePrefix, Unsteered, MayCall
    <3>2. installed = <<>>
      BY <2>1, <3>1, EmptyPlan DEF InstalledInv
    <3>3. pc'[t] = "prefix"
      BY <1>7, <2>3 DEF CachePrefix, GoTo
    <3> QED
      BY <2>1, <3>1, <3>2, <3>3 DEF PrefixInv
  <2> QED
    BY <2>2, <2>3
<1>8. ASSUME NEW t \in Threads, JointLogprobs(t)
      PROVE  PrefixInv'
  BY <1>8 DEF PrefixInv, OneThread, JointLogprobs, GoTo
<1>9. ASSUME NEW c \in Callers, NEW w \in Workers,
             NEW k \in Kinds \cup {None}, StartStream(c, w, k)
      PROVE  PrefixInv'
  BY <1>9 DEF PrefixInv, OneThread, StartStream, GoTo
<1>10. ASSUME NEW c \in Callers, CloseStream(c)
      PROVE  PrefixInv'
  BY <1>10 DEF PrefixInv, OneThread, CloseStream, GoTo
<1>11. ASSUME NEW c \in Callers, JoinStream(c)
      PROVE  PrefixInv'
  BY <1>11 DEF PrefixInv, OneThread, JoinStream
<1>12. ASSUME NEW t \in Threads, PushAcquire(t)
      PROVE  PrefixInv'
  <2>1. \A u \in Threads : u = t
    BY DEF OneThread
  <2>2. /\ pc[t] \in {"push", "enter"} /\ arg[t] \in Kinds
        /\ pc' = [pc EXCEPT ![t] = "pushing"] /\ prefix' = prefix
    BY <1>12 DEF PushAcquire, GoTo, ArgInv
  <2>3. Popped' = stack
    BY <1>12, <2>2, PushedFrames DEF PushAcquire, Popped
  <2>4. prefix = "none" \/ ~SteersPrefill(stack)
    BY <2>1, <2>2 DEF PrefixInv
  <2>5. pc'[t] = "pushing"
    BY <2>2
  <2>6. prefix' = "none" \/ ~SteersPrefill(Popped')
    BY <2>2, <2>3, <2>4
  <2> QED
    BY <2>1, <2>2, <2>5, <2>6 DEF PrefixInv
<1>13. ASSUME NEW t \in Threads, PushDone(t)
      PROVE  PrefixInv'
  <2>1. \A u \in Threads : u = t
    BY DEF OneThread
  <2>2. pc'[t] \notin {"pushing", "prefix", "prefill", "prefill_steered"}
    BY <1>13 DEF PushDone, GoTo
  <2>3. prefix' = PrefixAfter(stack) /\ stack' = stack
    BY <1>13 DEF PushDone
  <2> QED
    BY <2>1, <2>2, <2>3 DEF PrefixInv, PrefixAfter
<1>14. ASSUME NEW t \in Threads, PushFail(t)
      PROVE  PrefixInv'
  <2>1. \A u \in Threads : u = t
    BY DEF OneThread
  <2>2. pc'[t] \notin {"pushing", "prefix", "prefill", "prefill_steered"}
    BY <1>14 DEF PushFail, GoTo, Ended, Back
  <2>3. prefix = "none" \/ ~SteersPrefill(Popped)
    BY <1>14, <2>1 DEF PrefixInv, PushFail
  <2>4. prefix' = "none" \/ ~SteersPrefill(stack')
    BY <1>14, <2>3
       DEF PushFail, PopOwnScope, PopFrame, Reinstall, PrefixAfter
  <2>5. prefix' # "steered"
    BY <1>14 DEF PushFail, PopOwnScope, Reinstall, PrefixAfter, PrefixInv
  <2> QED
    BY <2>1, <2>2, <2>4, <2>5 DEF PrefixInv
<1>15. ASSUME NEW t \in Threads, PopAcquire(t)
      PROVE  PrefixInv'
  <2>1. \A u \in Threads : u = t
    BY DEF OneThread
  <2>2. pc'[t] \notin {"pushing", "prefix", "prefill", "prefill_steered"}
    BY <1>15 DEF PopAcquire, GoTo, Ended, Back
  <2>3. prefix = "none" \/ ~SteersPrefill(stack)
    BY <1>15, <2>1 DEF PrefixInv, PopAcquire
  <2>4. prefix' = "none" \/ ~SteersPrefill(stack')
    BY <1>15, <2>3, PopSteersNoMore
       DEF PopAcquire, PopOwnScope, PopFrame, Reinstall, PrefixAfter
  <2>5. prefix' # "steered"
    BY <1>15 DEF PopAcquire, PopOwnScope, Reinstall, PrefixAfter, PrefixInv
  <2> QED
    BY <2>1, <2>2, <2>4, <2>5 DEF PrefixInv
<1>16. ASSUME NEW t \in Threads, NEW ok \in BOOLEAN, PopDone(t, ok)
      PROVE  PrefixInv'
  <2>1. \A u \in Threads : u = t
    BY DEF OneThread
  <2>2. pc'[t] \notin {"pushing", "prefix", "prefill", "prefill_steered"}
    BY <1>16 DEF PopDone, GoTo, Ended, Back
  <2>3. prefix = "none" \/ ~SteersPrefill(stack)
    BY <1>16, <2>1 DEF PrefixInv, PopDone
  <2>4. prefix' = "none" \/ ~SteersPrefill(stack')
    BY <1>16, <2>3
       DEF PopDone, PopOwnScope, PopFrame, Reinstall, PrefixAfter
  <2>5. prefix' # "steered"
    BY <1>16 DEF PopDone, PopOwnScope, Reinstall, PrefixAfter, PrefixInv
  <2> QED
    BY <2>1, <2>2, <2>4, <2>5 DEF PrefixInv
<1>17. ASSUME NEW t \in Threads, WorkerStarts(t)
      PROVE  PrefixInv'
  BY <1>17 DEF PrefixInv, OneThread, WorkerStarts, BeginTransaction, CanBegin,
     CanLock, Acquire, GoTo, Back
<1>18. ASSUME NEW t \in Threads, Resolve(t)
      PROVE  PrefixInv'
  BY <1>18 DEF PrefixInv, OneThread, Resolve, Fails, GoTo
<1>19. ASSUME NEW t \in Threads, StartLoomTurn(t)
      PROVE  PrefixInv'
  BY <1>19 DEF PrefixInv, OneThread, StartLoomTurn, Fails, GoTo
<1>20. ASSUME NEW t \in Threads, Prepare(t)
      PROVE  PrefixInv'
  BY <1>20 DEF PrefixInv, OneThread, Prepare, Fails, GoTo
<1>21. ASSUME NEW t \in Threads, BeginReads(t)
      PROVE  PrefixInv'
  BY <1>21 DEF PrefixInv, OneThread, BeginReads, GoTo
<1>22. ASSUME NEW t \in Threads, StopCheck(t)
      PROVE  PrefixInv'
  BY <1>22 DEF PrefixInv, OneThread, StopCheck, LoopEnds, IsStopRequested,
     GoTo
<1>23. ASSUME NEW t \in Threads, Forward(t)
      PROVE  PrefixInv'
  BY <1>23 DEF PrefixInv, OneThread, Forward, GoTo
<1>24. ASSUME NEW t \in Threads, Callback(t)
      PROVE  PrefixInv'
  BY <1>24 DEF PrefixInv, OneThread, Callback, GoTo
<1>25. ASSUME NEW t \in Threads, Teardown(t)
      PROVE  PrefixInv'
  <2>1. \A u \in Threads : u = t
    BY DEF OneThread
  <2>2. pc'[t] \notin {"pushing", "prefix", "prefill", "prefill_steered"}
    BY <1>25 DEF Teardown, GoTo, Ended, Back
  <2>3. prefix = "none" \/ ~SteersPrefill(stack)
    BY <1>25, <2>1 DEF PrefixInv, Teardown
  <2>4. prefix' = "none" \/ ~SteersPrefill(stack')
    BY <1>25, <2>3, PopSteersNoMore
       DEF Teardown, PopOwnScope, PopFrame, Reinstall, PrefixAfter
  <2>5. prefix' # "steered"
    BY <1>25 DEF Teardown, PopOwnScope, Reinstall, PrefixAfter, PrefixInv
  <2> QED
    BY <2>1, <2>2, <2>4, <2>5 DEF PrefixInv
<1>26. ASSUME NEW t \in Threads, Finalize(t)
      PROVE  PrefixInv'
  BY <1>26 DEF PrefixInv, OneThread, Finalize, Fails, GoTo
<1>27. ASSUME NEW t \in Threads, EndTransaction(t)
      PROVE  PrefixInv'
  <2>1. \A u \in Threads : u = t
    BY DEF OneThread
  <2>2. pc'[t] \notin {"pushing", "prefix", "prefill", "prefill_steered"}
    BY <1>27 DEF EndTransaction, GoTo, Ended, Back
  <2>3. prefix = "none" \/ ~SteersPrefill(stack)
    BY <1>27, <2>1 DEF PrefixInv, EndTransaction
  <2>4. prefix' = "none" \/ ~SteersPrefill(stack')
    BY <1>27, <2>3, PopSteersNoMore
       DEF EndTransaction, PopOwnScope, PopFrame, Reinstall, PrefixAfter
  <2>5. prefix' # "steered"
    BY <1>27 DEF EndTransaction, PopOwnScope, Reinstall, PrefixAfter, PrefixInv
  <2> QED
    BY <2>1, <2>2, <2>4, <2>5 DEF PrefixInv
<1>28. ASSUME NEW t \in Threads, EndExclusive(t)
      PROVE  PrefixInv'
  BY <1>28 DEF PrefixInv, OneThread, EndExclusive, Release, GoTo, Back
<1>29. ASSUME NEW t \in Threads, StartPrefill(t)
      PROVE  PrefixInv'
  <2>1. \A u \in Threads : u = t
    BY DEF OneThread
  <2>2. /\ stack = <<>> /\ installed = <<>> /\ pc[t] = "prefix"
        /\ UNCHANGED <<steerVars, prefix>>
    BY <1>29 DEF PrefixInv, StartPrefill
  <2>3. ~InstalledSteersPrefill
    BY <2>2 DEF InstalledSteersPrefill
  <2>4. pc'[t] = "prefill"
    BY <1>29, <2>3 DEF StartPrefill, GoTo
  <2> QED
    BY <2>1, <2>2, <2>4 DEF PrefixInv
<1>30. ASSUME NEW t \in Threads, EndPrefill(t)
      PROVE  PrefixInv'
  <2>1. \A u \in Threads : u = t
    BY DEF OneThread
  <2>2. /\ stack = <<>> /\ installed = <<>> /\ pc[t] = "prefill"
        /\ UNCHANGED steerVars
    BY <1>30 DEF PrefixInv, EndPrefill
  <2>3. ~InstalledSteersPrefill /\ ~SteersPrefill(stack)
    BY <2>2 DEF InstalledSteersPrefill, SteersPrefill
  <2>4. prefix' = "clean" /\ pc'[t] = "idle"
    BY <1>30, <2>2, <2>3 DEF EndPrefill, GoTo
  <2> QED
    BY <2>1, <2>2, <2>3, <2>4 DEF PrefixInv
<1>31. ASSUME NEW t \in Threads, EndReplay(t)
      PROVE  PrefixInv'
  BY <1>31 DEF PrefixInv, OneThread, EndReplay, GoTo
<1>32. CASE UNCHANGED vars
  BY <1>32 DEF PrefixInv, vars
<1> QED
  BY <1>1, <1>2, <1>3, <1>4, <1>5, <1>6, <1>7, <1>8, <1>9, <1>10, <1>11,
     <1>12, <1>13, <1>14, <1>15, <1>16, <1>17, <1>18, <1>19, <1>20, <1>21,
     <1>22, <1>23, <1>24, <1>25, <1>26, <1>27, <1>28, <1>29, <1>30, <1>31,
     <1>32 DEF Next, Calls, Step, StreamCalls, Threads

\* A decode over a cached prefix starts where a full prefill would have, in a
\* session that one thread drives.
THEOREM PrefixStaysNeutral == OneThread => (Spec => []PrefixIsNeutral)
<1> SUFFICES ASSUME OneThread
             PROVE  Spec => []PrefixIsNeutral
  OBVIOUS
<1>1. Init => PrefixInv
  BY DEF Init, PrefixInv, SteersPrefill
<1>2. SessionInv /\ PrefixInv /\ [Next]_vars => PrefixInv'
  BY PrefixStep DEF SessionInv
<1>3. PrefixInv => PrefixIsNeutral
  BY DEF PrefixInv, PrefixIsNeutral, PrefixIsUnsteered, PrefixIsInvalidated
<1> QED
  BY <1>1, <1>2, <1>3, SessionInvariant, PTL DEF Spec

================================================================================
