------------------------------ MODULE LoomProofs ------------------------------
(***************************************************************************)
(* What the conversation tree promises, for any set of nodes, any callers  *)
(* and texts of any length.                                                *)
(*                                                                         *)
(*   TreeStaysValid       the tree is always one its loader accepts        *)
(*   RevisionsOnlyGrow    a client never sees a revision go back           *)
(*   RepliesHangUnderTheirPrompts  a reply streams under what was prompted *)
(***************************************************************************)
EXTENDS LoomTree, SequenceTheorems, TLAPS

---------------------------------------------------------------------------
(* Trees.                                                                  *)

Sound(T) == Shape(T) /\ ValidTree(T)

\* Above and Below are the least closed sets around a node.
LEMMA ClosureDoes ==
  ASSUME NEW step, NEW n \in DOMAIN step,
         \A x \in DOMAIN step : step[x] \subseteq DOMAIN step
  PROVE  /\ n \in Closure(step, n) /\ Closure(step, n) \subseteq DOMAIN step
         /\ \A x \in Closure(step, n) : step[x] \subseteq Closure(step, n)
         /\ \A S \in SUBSET DOMAIN step :
              n \in S /\ (\A x \in S : step[x] \subseteq S) => Closure(step, n) \subseteq S
<1>1. n \in Closure(step, n) /\ Closure(step, n) \subseteq DOMAIN step
  BY DEF Closure
<1>2. ASSUME NEW x \in Closure(step, n), NEW y \in step[x]
      PROVE  y \in Closure(step, n)
  <2>1. y \in DOMAIN step
    BY <1>1
  <2>2. ASSUME NEW S \in SUBSET DOMAIN step, n \in S, \A z \in S : step[z] \subseteq S
        PROVE  y \in S
    <3>1. x \in S
      BY <2>2 DEF Closure
    <3> QED
      BY <2>2, <3>1
  <2> QED
    BY <2>1, <2>2 DEF Closure
<1>3. ASSUME NEW S \in SUBSET DOMAIN step, n \in S, \A x \in S : step[x] \subseteq S
      PROVE  Closure(step, n) \subseteq S
  BY <1>3 DEF Closure
<1> QED
  BY <1>1, <1>2, <1>3

LEMMA Parts ==
  ASSUME NEW T, Sound(T)
  PROVE  /\ Live(T) \subseteq Ids /\ None \notin Live(T)
         /\ T.nodes \in [Live(T) -> NodeRecords]
         /\ T.kids \in [Live(T) -> Seq(Live(T))]
         /\ T.root \in Live(T) /\ T.active \in Live(T) /\ T.rev \in Nat
         /\ \A x \in Live(T) : ToSet(T.kids[x]) \subseteq Live(T)
         /\ \A x \in Live(T) : \A c \in ToSet(T.kids[x]) :
              T.nodes[c].parent = x /\ c # T.root
         /\ \A x \in Live(T) \ {T.root} :
              T.nodes[x].parent \in Live(T) /\ x \in ToSet(T.kids[T.nodes[x].parent])
<1>1. /\ Live(T) \subseteq Ids /\ None \notin Live(T)
      /\ T.nodes \in [Live(T) -> NodeRecords]
      /\ T.kids \in [Live(T) -> Seq(Live(T))]
      /\ T.root \in Live(T) /\ T.active \in Live(T) /\ T.rev \in Nat
  BY NodesAssumption DEF Sound, Shape
<1>2. \A x \in Live(T) : ToSet(T.kids[x]) \subseteq Live(T)
  BY <1>1 DEF ToSet
<1>3. \A x \in Live(T) : \A c \in ToSet(T.kids[x]) :
        T.nodes[c].parent = x /\ c # T.root
  <2>1. TAKE x \in Live(T)
  <2>2. TAKE c \in ToSet(T.kids[x])
  <2>3. T.nodes[c].parent = x
    BY DEF Sound, ValidTree
  <2>4. T.nodes[T.root].parent = None
    BY DEF Sound, ValidTree
  <2> QED
    BY <2>3, <2>4, <1>1
<1>4. ASSUME NEW x \in Live(T) \ {T.root}
      PROVE  T.nodes[x].parent \in Live(T) /\ x \in ToSet(T.kids[T.nodes[x].parent])
  <2>1. x \in UNION {ToSet(T.kids[p]) : p \in Live(T)}
    BY DEF Sound, ValidTree
  <2>2. PICK p \in Live(T) : x \in ToSet(T.kids[p])
    BY <2>1
  <2> QED
    BY <2>2, <1>3
<1> QED
  BY <1>1, <1>2, <1>3, <1>4

LEMMA BelowDoes ==
  ASSUME NEW T, Sound(T), NEW n \in Live(T), NEW B, B = Below(T, n)
  PROVE  /\ n \in B /\ B \subseteq Live(T)
         /\ \A x \in B : ToSet(T.kids[x]) \subseteq B
         /\ \A S \in SUBSET Live(T) :
              n \in S /\ (\A x \in S : ToSet(T.kids[x]) \subseteq S) => B \subseteq S
<1> DEFINE step == [x \in Live(T) |-> ToSet(T.kids[x])]
<1>1. DOMAIN step = Live(T) /\ \A x \in Live(T) : step[x] = ToSet(T.kids[x])
  OBVIOUS
<1>2. B = Closure(step, n)
  BY DEF Below
<1>3. \A x \in Live(T) : ToSet(T.kids[x]) \subseteq Live(T)
  BY Parts
<1> HIDE DEF step
<1>4. \A x \in DOMAIN step : step[x] \subseteq DOMAIN step
  BY <1>1, <1>3
<1> QED
  BY <1>1, <1>2, <1>4, ClosureDoes

LEMMA AboveDoes ==
  ASSUME NEW T, Sound(T), NEW n \in Live(T), NEW A, A = Above(T, n)
  PROVE  /\ n \in A /\ A \subseteq Live(T)
         /\ \A x \in A : {T.nodes[x].parent} \ {None} \subseteq A
         /\ \A S \in SUBSET Live(T) :
              n \in S /\ (\A x \in S : {T.nodes[x].parent} \ {None} \subseteq S) => A \subseteq S
<1> DEFINE step == [x \in Live(T) |-> {T.nodes[x].parent} \ {None}]
<1>1. DOMAIN step = Live(T) /\ \A x \in Live(T) : step[x] = {T.nodes[x].parent} \ {None}
  OBVIOUS
<1>2. A = Closure(step, n)
  BY DEF Above
<1>3. \A x \in Live(T) : {T.nodes[x].parent} \ {None} \subseteq Live(T)
  <2>1. T.nodes[T.root].parent = None
    BY DEF Sound, ValidTree
  <2> QED
    BY <2>1, Parts
<1> HIDE DEF step
<1>4. \A x \in DOMAIN step : step[x] \subseteq DOMAIN step
  BY <1>1, <1>3
<1> QED
  BY <1>1, <1>2, <1>4, ClosureDoes

---------------------------------------------------------------------------
(* Lists of children.                                                      *)

LEMMA AppendDoes ==
  ASSUME NEW S, NEW s \in Seq(S), NEW c \in S
  PROVE  /\ Append(s, c) \in Seq(S)
         /\ ToSet(Append(s, c)) = ToSet(s) \cup {c}
         /\ IsInjective(s) /\ c \notin ToSet(s) => IsInjective(Append(s, c))
<1> DEFINE t == Append(s, c)
<1>1. /\ t \in Seq(S) /\ Len(t) = Len(s) + 1 /\ Len(s) \in Nat
      /\ DOMAIN s = 1..Len(s) /\ DOMAIN t = 1..(Len(s) + 1)
      /\ \A i \in 1..Len(s) : t[i] = s[i]
      /\ t[Len(s) + 1] = c
  OBVIOUS
<1> HIDE DEF t
<1>2. ToSet(t) = ToSet(s) \cup {c}
  <2>1. ASSUME NEW e \in ToSet(t)  PROVE e \in ToSet(s) \cup {c}
    <3>1. PICK i \in DOMAIN t : e = t[i]
      BY DEF ToSet
    <3>2. i = Len(s) + 1 \/ i \in 1..Len(s)
      BY <1>1
    <3> QED
      BY <1>1, <3>1, <3>2 DEF ToSet
  <2>2. ASSUME NEW e \in ToSet(s)  PROVE e \in ToSet(t)
    <3>1. PICK i \in DOMAIN s : e = s[i]
      BY DEF ToSet
    <3>2. i \in DOMAIN t /\ t[i] = e
      BY <1>1, <3>1
    <3> QED
      BY <3>2 DEF ToSet
  <2>3. c \in ToSet(t)
    <3>1. Len(s) + 1 \in DOMAIN t
      BY <1>1
    <3> QED
      BY <1>1, <3>1 DEF ToSet
  <2> QED
    BY <2>1, <2>2, <2>3
<1>3. ASSUME IsInjective(s), c \notin ToSet(s), NEW i \in DOMAIN t, NEW j \in DOMAIN t,
             t[i] = t[j]
      PROVE  i = j
  <2>1. \A k \in 1..Len(s) : s[k] # c
    BY <1>1, <1>3 DEF ToSet
  <2>2. (i = Len(s) + 1 \/ i \in 1..Len(s)) /\ (j = Len(s) + 1 \/ j \in 1..Len(s))
    BY <1>1
  <2> QED
    BY <1>1, <1>3, <2>1, <2>2 DEF IsInjective
<1> QED
  BY <1>1, <1>2, <1>3 DEF IsInjective, t

LEMMA LessDoes ==
  ASSUME NEW S, NEW s \in Seq(S), IsInjective(s), NEW c
  PROVE  /\ Less(s, c) \in Seq(S) /\ IsInjective(Less(s, c))
         /\ ToSet(Less(s, c)) = ToSet(s) \ {c}
<1>1. CASE c \notin ToSet(s)
  BY <1>1 DEF Less
<1>2. CASE c \in ToSet(s)
  <2>1. PICK k \in DOMAIN s : s[k] = c /\ Less(s, c) = RemoveAt(s, k)
    <3> DEFINE k == CHOOSE i \in DOMAIN s : s[i] = c
    <3>1. k \in DOMAIN s /\ s[k] = c
      BY <1>2 DEF ToSet
    <3>2. Less(s, c) = RemoveAt(s, k)
      BY <1>2 DEF Less
    <3> QED
      BY <3>1, <3>2
  <2> DEFINE t == RemoveAt(s, k)
             a == SubSeq(s, 1, k - 1)
             b == SubSeq(s, k + 1, Len(s))
  <2>2. Less(s, c) = t
    BY <2>1
  <2> HIDE DEF t
  <2>3. k \in 1..Len(s) /\ DOMAIN s = 1..Len(s) /\ Len(s) \in Nat
    BY <2>1
  <2>4. a \in Seq(S) /\ Len(a) = k - 1 /\ \A j \in 1..(k - 1) : a[j] = s[j]
    BY <2>3
  <2>5. /\ b \in Seq(S) /\ Len(b) = Len(s) - k
        /\ \A j \in 1..(Len(s) - k) : b[j] = s[k + j]
    BY <2>3
  <2>6. t = a \o b
    BY DEF RemoveAt, t
  <2> HIDE DEF a, b
  <2>7. /\ t \in Seq(S) /\ DOMAIN t = 1..(Len(s) - 1)
    <3>0. a \in Seq(S) /\ b \in Seq(S)
      BY <2>4, <2>5
    <3>1. a \o b \in Seq(S) /\ Len(a \o b) = Len(a) + Len(b)
      BY <3>0
    <3>2. Len(a \o b) = Len(s) - 1
      BY <2>3, <2>4, <2>5, <3>1
    <3> QED
      BY <2>6, <3>1, <3>2
  <2>8. \A j \in 1..(Len(s) - 1) : j < k => t[j] = s[j]
    BY <2>3, <2>4, <2>5, <2>6
  <2>9. ASSUME NEW j \in 1..(Len(s) - 1), j >= k
        PROVE  t[j] = s[j + 1]
    <3>1. t[j] = b[j - (k - 1)]
      BY <2>3, <2>4, <2>5, <2>6, <2>9, SMTT(30)
    <3>2. j - (k - 1) \in 1..(Len(s) - k) /\ k + (j - (k - 1)) = j + 1
      BY <2>3, <2>9
    <3> QED
      BY <3>1, <3>2, <2>5
  <2> DEFINE at(j) == IF j < k THEN j ELSE j + 1
  <2>10. \A j \in DOMAIN t : at(j) \in DOMAIN s /\ at(j) # k /\ t[j] = s[at(j)]
    BY <2>3, <2>7, <2>8, <2>9
  <2>11. \A i, j \in DOMAIN t : at(i) = at(j) => i = j
    BY <2>3, <2>7
  <2>12. \A i \in DOMAIN s : i # k => \E j \in DOMAIN t : at(j) = i
    <3>1. ASSUME NEW i \in DOMAIN s, i # k
          PROVE  \E j \in DOMAIN t : at(j) = i
      <4>1. CASE i < k
        BY <4>1, <2>3, <2>7
      <4>2. CASE i > k
        <5>1. i - 1 \in DOMAIN t /\ at(i - 1) = i
          BY <4>2, <2>3, <2>7
        <5> QED
          BY <5>1
      <4> QED
        BY <3>1, <4>1, <4>2, <2>3
    <3> QED
      BY <3>1
  <2> HIDE DEF at
  <2>13. IsInjective(t)
    BY <2>10, <2>11 DEF IsInjective
  <2>14. ToSet(t) = ToSet(s) \ {c}
    <3>1. ASSUME NEW e \in ToSet(t)  PROVE e \in ToSet(s) /\ e # c
      <4>1. PICK j \in DOMAIN t : e = t[j]
        BY DEF ToSet
      <4> QED
        BY <4>1, <2>1, <2>10 DEF IsInjective, ToSet
    <3>2. ASSUME NEW e \in ToSet(s), e # c  PROVE e \in ToSet(t)
      <4>1. PICK i \in DOMAIN s : e = s[i]
        BY DEF ToSet
      <4>2. PICK j \in DOMAIN t : at(j) = i
        BY <4>1, <3>2, <2>1, <2>12
      <4>3. t[j] = e
        BY <4>1, <4>2, <2>10
      <4> QED
        BY <4>3 DEF ToSet
    <3> QED
      BY <3>1, <3>2
  <2> QED
    BY <2>2, <2>7, <2>13, <2>14
<1> QED
  BY <1>1, <1>2

---------------------------------------------------------------------------
(* The operators that change a tree.                                       *)

LEMMA Shaped ==
  ASSUME NEW D \in SUBSET Ids, NEW T,
         T \in [nodes : [D -> NodeRecords], kids : [D -> Seq(D)],
               root : D, active : D, rev : Nat]
  PROVE  Shape(T) /\ Live(T) = D
<1>1. Live(T) = D
  BY DEF Live
<1> QED
  BY <1>1 DEF Shape

LEMMA FreshIsSound ==
  ASSUME NEW id \in Ids
  PROVE  /\ Sound(FreshTree(id)) /\ Live(FreshTree(id)) = {id}
<1> DEFINE T == FreshTree(id)
<1> DEFINE N == [x \in {id} |-> Node(None, "system", <<>>, FALSE)]
           K == [x \in {id} |-> <<>>]
<1>1. T = [nodes |-> N, kids |-> K, root |-> id, active |-> id, rev |-> 0]
  BY DEF FreshTree
<1>3. <<>> \in Seq(Words) /\ <<>> \in Seq({id})
  BY EmptySeq
<1>4. /\ Node(None, "system", <<>>, FALSE) \in NodeRecords
      /\ Node(None, "system", <<>>, FALSE).parent = None
      /\ Node(None, "system", <<>>, FALSE).seat = "system"
  BY <1>3 DEF Node, NodeRecords
<1>5. /\ N \in [{id} -> NodeRecords] /\ K \in [{id} -> Seq({id})]
      /\ N[id].parent = None /\ N[id].seat = "system" /\ K[id] = <<>>
  BY <1>3, <1>4
<1> HIDE DEF T, N, K
<1>6. /\ Shape(T) /\ Live(T) = {id}
      /\ T.nodes = N /\ T.kids = K /\ T.root = id /\ T.active = id
  <2> DEFINE D == {id}
  <2>1. D \in SUBSET Ids /\ id \in D /\ 0 \in Nat
    OBVIOUS
  <2>2. N \in [D -> NodeRecords] /\ K \in [D -> Seq(D)]
    BY <1>5
  <2> HIDE DEF D
  <2>3. T \in [nodes : [D -> NodeRecords], kids : [D -> Seq(D)],
              root : D, active : D, rev : Nat]
    BY <1>1, <2>1, <2>2
  <2>4. Shape(T) /\ Live(T) = D
    BY <2>1, <2>3, Shaped
  <2> QED
    BY <1>1, <2>4 DEF D
<1>7. T.kids[id] = <<>> /\ ToSet(T.kids[id]) = {}
  BY <1>5, <1>6 DEF ToSet
<1>8. Below(T, T.root) = {id}
  <2> DEFINE step == [x \in Live(T) |-> ToSet(T.kids[x])]
  <2>1. DOMAIN step = {id} /\ \A x \in DOMAIN step : step[x] \subseteq DOMAIN step
    BY <1>6, <1>7
  <2>2. Below(T, T.root) = Closure(step, id)
    BY <1>6 DEF Below
  <2> HIDE DEF step
  <2> QED
    BY <2>1, <2>2, ClosureDoes
<1>9. ValidTree(T)
  <2>1. DOMAIN T.kids = Live(T)
    BY <1>5, <1>6
  <2>2. T.nodes[T.root].parent = None /\ T.nodes[T.root].seat = "system"
    BY <1>5, <1>6
  <2>3. \A p \in Live(T) : IsInjective(T.kids[p])
    BY <1>6, <1>7 DEF IsInjective
  <2>4. UNION {ToSet(T.kids[p]) : p \in Live(T)} = Live(T) \ {T.root}
    BY <1>6, <1>7
  <2> QED
    BY <1>6, <1>7, <1>8, <2>1, <2>2, <2>3, <2>4 DEF ValidTree
<1> QED
  BY <1>6, <1>9 DEF Sound, T

\* Every node where it was.
LEMMA SamePlaces ==
  ASSUME NEW T, ValidTree(T), NEW M, Live(M) = Live(T), M.kids = T.kids, M.root = T.root,
         M.active \in Live(M),
         \A x \in Live(T) : /\ M.nodes[x].parent = T.nodes[x].parent
                          /\ M.nodes[x].seat = T.nodes[x].seat
  PROVE  ValidTree(M)
<1>1. \A p \in Live(M) : \A c \in ToSet(M.kids[p]) :
        c \in Live(M) /\ M.nodes[c].parent = p
  <2>1. \A p \in Live(T) : \A c \in ToSet(T.kids[p]) :
          c \in Live(T) /\ T.nodes[c].parent = p
    BY DEF ValidTree
  <2> QED
    BY <2>1
<1>2. M.nodes[M.root].parent = None /\ M.nodes[M.root].seat = "system"
  BY DEF ValidTree
<1>3. UNION {ToSet(M.kids[p]) : p \in Live(M)} = Live(M) \ {M.root}
  <2>1. UNION {ToSet(T.kids[p]) : p \in Live(T)} = Live(T) \ {T.root}
    BY DEF ValidTree
  <2>2. {ToSet(M.kids[p]) : p \in Live(M)} = {ToSet(T.kids[p]) : p \in Live(T)}
    OBVIOUS
  <2> QED
    BY <2>1, <2>2
<1>4. Below(M, M.root) = Below(T, T.root)
  BY DEF Below
<1>5. Below(M, M.root) = Live(M)
  BY <1>4 DEF ValidTree
<1>6. DOMAIN M.kids = Live(M) /\ M.root \in Live(M) /\ \A p \in Live(M) : IsInjective(M.kids[p])
  BY DEF ValidTree
<1> QED
  BY <1>1, <1>2, <1>3, <1>5, <1>6 DEF ValidTree

\* Only the pointer differs.
LEMMA PointerIsSound ==
  ASSUME NEW T, Sound(T), NEW n \in Live(T), NEW M, M = WithActive(T, n)
  PROVE  /\ Sound(M) /\ Live(M) = Live(T) /\ M.nodes = T.nodes /\ M.kids = T.kids
         /\ M.root = T.root /\ M.active = n /\ M.rev = T.rev
<1> DEFINE D == Live(T)
<1>1. /\ D \in SUBSET Ids /\ n \in D
      /\ T \in [nodes : [D -> NodeRecords], kids : [D -> Seq(D)],
               root : D, active : D, rev : Nat]
  BY DEF Sound, Shape
<1> HIDE DEF D
<1>2. /\ M \in [nodes : [D -> NodeRecords], kids : [D -> Seq(D)],
               root : D, active : D, rev : Nat]
      /\ M.nodes = T.nodes /\ M.kids = T.kids
      /\ M.root = T.root /\ M.active = n /\ M.rev = T.rev
  BY <1>1 DEF WithActive
<1>3. Shape(M) /\ Live(M) = Live(T)
  BY <1>1, <1>2, Shaped DEF D
<1>5. ValidTree(M)
  BY <1>1, <1>2, <1>3, SamePlaces DEF Sound, D
<1> QED
  BY <1>2, <1>3, <1>5 DEF Sound

\* Only the revision differs.
LEMMA RevisionIsSound ==
  ASSUME NEW T, Sound(T), NEW v \in Nat, NEW M,
         M = [T EXCEPT !.rev = v]
  PROVE  /\ Sound(M) /\ Live(M) = Live(T) /\ M.nodes = T.nodes /\ M.kids = T.kids
         /\ M.root = T.root /\ M.active = T.active /\ M.rev = v
<1> DEFINE D == Live(T)
<1>1. /\ D \in SUBSET Ids
      /\ T \in [nodes : [D -> NodeRecords], kids : [D -> Seq(D)],
               root : D, active : D, rev : Nat]
  BY DEF Sound, Shape
<1> HIDE DEF D
<1>2. /\ M \in [nodes : [D -> NodeRecords], kids : [D -> Seq(D)],
               root : D, active : D, rev : Nat]
      /\ M.nodes = T.nodes /\ M.kids = T.kids
      /\ M.root = T.root /\ M.active = T.active /\ M.rev = v
  BY <1>1
<1>3. Shape(M) /\ Live(M) = Live(T)
  BY <1>1, <1>2, Shaped DEF D
<1>5. ValidTree(M)
  BY <1>1, <1>2, <1>3, SamePlaces DEF Sound, D
<1> QED
  BY <1>2, <1>3, <1>5 DEF Sound

\* A message changes, its place does not.
LEMMA NodeIsSound ==
  ASSUME NEW T, Sound(T), NEW n \in Live(T), NEW node \in NodeRecords,
         node.parent = T.nodes[n].parent, node.seat = T.nodes[n].seat,
         NEW M, M = WithNode(T, n, node)
  PROVE  /\ Sound(M) /\ Live(M) = Live(T) /\ M.nodes[n] = node
         /\ \A x \in Live(T) \ {n} : M.nodes[x] = T.nodes[x]
         /\ M.root = T.root /\ M.active = T.active /\ M.rev = T.rev
<1> DEFINE D == Live(T)
<1>1. /\ D \in SUBSET Ids /\ n \in D
      /\ T \in [nodes : [D -> NodeRecords], kids : [D -> Seq(D)],
               root : D, active : D, rev : Nat]
  BY DEF Sound, Shape
<1> HIDE DEF D
<1>2. /\ M \in [nodes : [D -> NodeRecords], kids : [D -> Seq(D)],
               root : D, active : D, rev : Nat]
      /\ M.nodes[n] = node /\ \A x \in D \ {n} : M.nodes[x] = T.nodes[x]
      /\ M.kids = T.kids /\ M.root = T.root /\ M.active = T.active /\ M.rev = T.rev
  BY <1>1 DEF WithNode
<1>3. Shape(M) /\ Live(M) = Live(T)
  BY <1>1, <1>2, Shaped DEF D
<1>4. \A x \in Live(T) : /\ M.nodes[x].parent = T.nodes[x].parent
                        /\ M.nodes[x].seat = T.nodes[x].seat
  BY <1>2 DEF D
<1>5. ValidTree(M)
  BY <1>1, <1>2, <1>3, <1>4, SamePlaces DEF Sound, D
<1> QED
  BY <1>2, <1>3, <1>5 DEF Sound, D

\* A new message under a live one.
LEMMA ChildIsSound ==
  ASSUME NEW T, Sound(T), NEW id \in Ids, id \notin Live(T), NEW node \in NodeRecords,
         node.parent \in Live(T), NEW M, M = WithChild(T, id, node)
  PROVE  /\ Sound(M) /\ Live(M) = Live(T) \cup {id} /\ M.nodes[id] = node
         /\ \A x \in Live(T) : M.nodes[x] = T.nodes[x]
         /\ M.root = T.root /\ M.active = T.active /\ M.rev = T.rev
<1> DEFINE D == Live(T)  E == D \cup {id}  p == node.parent
           N == [x \in E |-> IF x = id THEN node ELSE T.nodes[x]]
           K == [x \in E |-> IF x = id THEN <<>>
                             ELSE IF x = p THEN Append(T.kids[x], id) ELSE T.kids[x]]
<1>1. /\ D \in SUBSET Ids /\ E \in SUBSET Ids /\ p \in D /\ p \in E /\ id \in E
      /\ p # id /\ D \subseteq E /\ id \notin D
      /\ T \in [nodes : [D -> NodeRecords], kids : [D -> Seq(D)],
               root : D, active : D, rev : Nat]
  BY DEF Sound, Shape
<1>2. ValidTree(T)
  BY DEF Sound
<1>3. M = [T EXCEPT !.nodes = N, !.kids = K]
  BY DEF WithChild
<1>4. \A x \in D : T.kids[x] \in Seq(D) /\ T.kids[x] \in Seq(E) /\ ToSet(T.kids[x]) \subseteq D
  <2>1. ASSUME NEW x \in D  PROVE T.kids[x] \in Seq(D) /\ T.kids[x] \in Seq(E)
    <3>1. T.kids[x] \in Seq(D)
      BY <1>1
    <3>2. \A i \in 1..Len(T.kids[x]) : T.kids[x][i] \in E
      BY <3>1, <1>1
    <3> HIDE DEF E, D
    <3> QED
      BY <3>1, <3>2
  <2>2. \A x \in D : ToSet(T.kids[x]) \subseteq D
    BY Parts
  <2> QED
    BY <2>1, <2>2
<1>5. /\ N[id] = node /\ N \in [E -> NodeRecords] /\ \A x \in D : N[x] = T.nodes[x]
  BY <1>1
<1>6. /\ K[id] = <<>> /\ K[p] = Append(T.kids[p], id) /\ DOMAIN K = E
      /\ \A x \in D \ {p} : K[x] = T.kids[x]
  BY <1>1
<1>7. E = D \cup {id} /\ \A x \in E : x = id \/ x = p \/ x \in D \ {p}
  OBVIOUS
<1> HIDE DEF N, K, E
<1>8. /\ K[p] \in Seq(E) /\ ToSet(K[p]) = ToSet(T.kids[p]) \cup {id}
      /\ IsInjective(K[p])
  <2>1. IsInjective(T.kids[p])
    BY <1>2, <1>1 DEF ValidTree
  <2>2. T.kids[p] \in Seq(E) /\ id \notin ToSet(T.kids[p]) /\ id \in E
    BY <1>1, <1>4
  <2> QED
    BY <1>6, <2>1, <2>2, AppendDoes
<1>9. K[id] \in Seq(E) /\ ToSet(K[id]) = {} /\ IsInjective(K[id])
  BY <1>6, EmptySeq DEF ToSet, IsInjective
<1>10. K \in [E -> Seq(E)]
  <2>0. K = [x \in E |-> K[x]]
    BY DEF K
  <2>1. \A x \in E : K[x] \in Seq(E)
    BY <1>4, <1>6, <1>7, <1>8, <1>9
  <2> QED
    BY <2>0, <2>1
<1>11. /\ M \in [nodes : [E -> NodeRecords], kids : [E -> Seq(E)],
                 root : E, active : E, rev : Nat]
       /\ M.nodes = N /\ M.kids = K
       /\ M.root = T.root /\ M.active = T.active /\ M.rev = T.rev
  <2> HIDE DEF D
  <2> QED
    BY <1>1, <1>3, <1>5, <1>10
<1>12. Shape(M) /\ Live(M) = E
  BY <1>1, <1>11, Shaped
<1>13. \A x \in E : IsInjective(K[x])
  <2>1. \A x \in D : IsInjective(T.kids[x])
    BY <1>2 DEF ValidTree
  <2> QED
    BY <2>1, <1>6, <1>7, <1>8, <1>9
<1>14. \A x \in D : ToSet(T.kids[x]) \subseteq ToSet(K[x])
  BY <1>6, <1>8
<1>15. ASSUME NEW x \in E, NEW c \in ToSet(K[x])
       PROVE  c \in E /\ N[c].parent = x
  <2>1. CASE x = id
    BY <2>1, <1>9, <1>15
  <2>2. CASE x # id /\ c \in ToSet(T.kids[x])
    <3>1. T.nodes[c].parent = x /\ c \in D
      BY <2>2, <1>2, <1>7 DEF ValidTree
    <3> QED
      BY <3>1, <1>5, <1>7
  <2>3. CASE x = p /\ c = id
    BY <2>3, <1>1, <1>5
  <2> QED
    BY <2>1, <2>2, <2>3, <1>6, <1>7, <1>8
<1>16. UNION {ToSet(K[x]) : x \in E} = E \ {T.root}
  <2>1. ASSUME NEW c \in E, c # T.root  PROVE \E x \in E : c \in ToSet(K[x])
    <3>1. CASE c = id
      BY <3>1, <1>1, <1>8
    <3>2. CASE c \in D
      <4>0. c \in Live(T) \ {T.root}
        BY <3>2, <2>1
      <4>1. T.nodes[c].parent \in Live(T) /\ c \in ToSet(T.kids[T.nodes[c].parent])
        BY <4>0, Parts
      <4> QED
        BY <4>1, <1>14, <1>7
    <3> QED
      BY <3>1, <3>2, <1>7
  <2>2. ASSUME NEW x \in E, NEW c \in ToSet(K[x])  PROVE c \in E /\ c # T.root
    <3>1. T.nodes[T.root].parent = None /\ T.root \in D
      BY <1>1, <1>2 DEF ValidTree
    <3>2. N[c].parent = x /\ c \in E /\ x # None
      BY <1>1, <1>15, NodesAssumption
    <3> QED
      BY <3>1, <3>2, <1>5
  <2> QED
    BY <2>1, <2>2
<1>17. Below(M, M.root) = Live(M)
  <2> DEFINE step == [x \in Live(M) |-> ToSet(M.kids[x])]
  <2>1. DOMAIN step = E /\ \A x \in E : step[x] = ToSet(K[x])
    BY <1>11, <1>12
  <2>2. Below(M, M.root) = Closure(step, T.root)
    BY <1>11 DEF Below
  <2>3. \A x \in E : step[x] \subseteq E
    BY <2>1, <1>15
  <2>4. T.root \in D /\ T.root \in E /\ Below(T, T.root) = D
    BY <1>1, <1>2 DEF ValidTree
  <2> HIDE DEF step
  <2> DEFINE S == Closure(step, T.root)
  <2>5. T.root \in S /\ S \subseteq E /\ \A x \in S : step[x] \subseteq S
    BY <2>1, <2>3, <2>4, ClosureDoes
  <2> HIDE DEF S
  <2>6. \A x \in S \cap D : ToSet(T.kids[x]) \subseteq S \cap D
    BY <2>1, <2>5, <1>4, <1>7, <1>14
  <2>7. D \subseteq S \cap D
    <3>1. S \cap D \in SUBSET D /\ T.root \in S \cap D
      BY <2>4, <2>5
    <3> QED
      BY <2>4, <2>6, <3>1, BelowDoes
  <2>8. id \in S
    BY <2>1, <2>5, <2>7, <1>1, <1>8
  <2> QED
    BY <2>2, <2>5, <2>7, <2>8, <1>7, <1>12 DEF S
<1>18. ValidTree(M)
  <2>1. DOMAIN M.kids = Live(M) /\ M.root \in Live(M) /\ M.active \in Live(M)
    BY <1>1, <1>6, <1>11, <1>12
  <2>2. M.nodes[M.root].parent = None /\ M.nodes[M.root].seat = "system"
    BY <1>1, <1>2, <1>5, <1>11 DEF ValidTree
  <2>3. \A x \in Live(M) : IsInjective(M.kids[x])
    BY <1>11, <1>12, <1>13
  <2>4. \A x \in Live(M) : \A c \in ToSet(M.kids[x]) :
          c \in Live(M) /\ M.nodes[c].parent = x
    BY <1>11, <1>12, <1>15
  <2>5. UNION {ToSet(M.kids[x]) : x \in Live(M)} = Live(M) \ {M.root}
    BY <1>11, <1>12, <1>16
  <2> QED
    BY <2>1, <2>2, <2>3, <2>4, <2>5, <1>17 DEF ValidTree
<1> QED
  BY <1>5, <1>7, <1>11, <1>12, <1>18 DEF Sound

\* The subtree of a node goes; its parent stays.
LEMMA RestIsSound ==
  ASSUME NEW T, Sound(T), NEW n \in Live(T), n # T.root, NEW M, M = Without(T, n)
  PROVE  /\ Sound(M) /\ Live(M) = Live(T) \ Below(T, n)
         /\ \A x \in Live(M) : M.nodes[x] = T.nodes[x]
         /\ M.root = T.root /\ M.rev = T.rev
<1> DEFINE D == Live(T)  B == Below(T, n)  E == D \ B  p == T.nodes[n].parent
           N == [x \in E |-> T.nodes[x]]
           K == [x \in E |-> IF x = p THEN Less(T.kids[x], n) ELSE T.kids[x]]
           a == IF T.active \in B THEN p ELSE T.active
<1>1. /\ D \in SUBSET Ids
      /\ T \in [nodes : [D -> NodeRecords], kids : [D -> Seq(D)],
               root : D, active : D, rev : Nat]
  BY DEF Sound, Shape
<1>2. /\ ValidTree(T) /\ Below(T, T.root) = D
      /\ T.nodes[T.root].parent = None /\ T.nodes[T.root].seat = "system"
  BY DEF Sound, ValidTree
<1>3. M = [T EXCEPT !.nodes = N, !.kids = K, !.active = a]
  BY DEF Without
<1>4. /\ n \in B /\ B \subseteq D /\ \A x \in B : ToSet(T.kids[x]) \subseteq B
      /\ \A S \in SUBSET D :
           n \in S /\ (\A x \in S : ToSet(T.kids[x]) \subseteq S) => B \subseteq S
  BY BelowDoes
<1>5. /\ \A x \in D : ToSet(T.kids[x]) \subseteq D
      /\ \A x \in D : \A c \in ToSet(T.kids[x]) : T.nodes[c].parent = x /\ c # T.root
      /\ \A x \in D \ {T.root} :
           T.nodes[x].parent \in D /\ x \in ToSet(T.kids[T.nodes[x].parent])
      /\ \A x \in D : IsInjective(T.kids[x]) /\ T.kids[x] \in Seq(D)
  <2>1. \A x \in D : IsInjective(T.kids[x]) /\ T.kids[x] \in Seq(D)
    BY <1>1, <1>2 DEF ValidTree
  <2> QED
    BY <2>1, Parts
<1>6. p \in D /\ n \in ToSet(T.kids[p])
  BY <1>5
<1> HIDE DEF D, B, p
<1>7. T.root \in E
  <2> DEFINE S == D \ {T.root}
  <2>1. S \in SUBSET D /\ n \in S /\ \A x \in S : ToSet(T.kids[x]) \subseteq S
    BY <1>4, <1>5
  <2>2. B \subseteq S
    BY <2>1, <1>4
  <2> QED
    BY <2>2, <1>1
\* A node of the subtree has its parent in it, but for its root.
<1>8. ASSUME NEW c \in B, c # n, NEW x \in D, c \in ToSet(T.kids[x])
      PROVE  x \in B
  <2> DEFINE S == B \ {c}
  <2>1. S \in SUBSET D /\ n \in S /\ ~(B \subseteq S)
    BY <1>4, <1>8
  <2>2. PICK z \in S : ~(ToSet(T.kids[z]) \subseteq S)
    BY <2>1, <1>4
  <2>3. c \in ToSet(T.kids[z]) /\ z \in D
    BY <2>2, <1>4
  <2>4. T.nodes[c].parent = z /\ T.nodes[c].parent = x
    BY <2>3, <1>5, <1>8
  <2> QED
    BY <2>2, <2>4
<1>9. p \in E
  <2>1. ASSUME p \in B  PROVE FALSE
    <3>1. ASSUME NEW x \in E, NEW c \in ToSet(T.kids[x])  PROVE c \in E
      <4>1. c \in D /\ T.nodes[c].parent = x
        BY <3>1, <1>5
      <4>2. c # n
        BY <4>1, <2>1, <3>1 DEF p
      <4> QED
        BY <4>1, <4>2, <3>1, <1>8
    <3>2. D \subseteq E
      <4>1. E \in SUBSET D /\ T.root \in D /\ \A x \in E : ToSet(T.kids[x]) \subseteq E
        BY <3>1, <1>1
      <4> HIDE DEF E
      <4> QED
        BY <4>1, <1>2, <1>7, BelowDoes DEF D
    <3> QED
      BY <3>2, <1>4
  <2> QED
    BY <2>1, <1>6
<1>10. /\ N \in [E -> NodeRecords] /\ \A x \in E : N[x] = T.nodes[x]
  BY <1>1
<1>11. /\ DOMAIN K = E /\ K = [x \in E |-> K[x]] /\ K[p] = Less(T.kids[p], n)
       /\ \A x \in E \ {p} : K[x] = T.kids[x]
  BY <1>9
<1>12. a \in E
  BY <1>1, <1>9
<1>13. E \in SUBSET Ids /\ E \subseteq D /\ n \notin E /\ \A x \in D : x \in E \/ x \in B
  BY <1>1, <1>4
<1>14. \A x \in E : x \notin B
  OBVIOUS
<1> HIDE DEF E, N, K, a
<1>15. ASSUME NEW x \in E
       PROVE  /\ K[x] \in Seq(E) /\ IsInjective(K[x])
              /\ ToSet(K[x]) = ToSet(T.kids[x]) \ {n}
              /\ ToSet(K[x]) \subseteq E
  <2>1. K[x] \in Seq(D) /\ IsInjective(K[x]) /\ ToSet(K[x]) = ToSet(T.kids[x]) \ {n}
    <3>1. CASE x = p
      BY <3>1, <1>5, <1>6, <1>11, LessDoes
    <3>2. CASE x # p
      <4>1. n \notin ToSet(T.kids[x])
        BY <3>2, <1>5, <1>13 DEF p
      <4> QED
        BY <3>2, <4>1, <1>5, <1>11, <1>13
    <3> QED
      BY <3>1, <3>2
  <2>2. ToSet(K[x]) \subseteq E
    <3>1. ASSUME NEW c \in ToSet(K[x])  PROVE c \in E
      <4>1. c \in ToSet(T.kids[x]) /\ c # n /\ c \in D /\ x \in D
        BY <2>1, <1>5, <1>13
      <4>2. c \notin B
        BY <4>1, <1>8, <1>14
      <4> QED
        BY <4>1, <4>2, <1>13
    <3> QED
      BY <3>1
  <2>3. K[x] \in Seq(E)
    <3>1. \A i \in 1..Len(K[x]) : K[x][i] \in E
      BY <2>1, <2>2 DEF ToSet
    <3> QED
      BY <2>1, <3>1
  <2> QED
    BY <2>1, <2>2, <2>3
<1>16. K \in [E -> Seq(E)]
  BY <1>11, <1>15
<1>17. /\ M \in [nodes : [E -> NodeRecords], kids : [E -> Seq(E)],
                 root : E, active : E, rev : Nat]
       /\ M.nodes = N /\ M.kids = K
       /\ M.root = T.root /\ M.active = a /\ M.rev = T.rev
  BY <1>1, <1>3, <1>7, <1>10, <1>12, <1>16
<1>18. Shape(M) /\ Live(M) = E
  BY <1>13, <1>17, Shaped
<1>19. ASSUME NEW x \in E, NEW c \in ToSet(K[x])
       PROVE  c \in E /\ N[c].parent = x /\ c # T.root
  <2>1. c \in E /\ c \in ToSet(T.kids[x]) /\ x \in D
    BY <1>13, <1>15
  <2> QED
    BY <2>1, <1>5, <1>10
<1>20. UNION {ToSet(K[x]) : x \in E} = E \ {T.root}
  <2>1. ASSUME NEW c \in E, c # T.root  PROVE \E x \in E : c \in ToSet(K[x])
    <3>1. c \in D \ {T.root} /\ c # n /\ c \notin B
      BY <2>1, <1>13, <1>14
    <3>2. PICK x \in D : c \in ToSet(T.kids[x])
      BY <3>1, <1>5
    <3>3. x \in E
      BY <3>1, <3>2, <1>4, <1>13
    <3> QED
      BY <3>1, <3>2, <3>3, <1>15
  <2> QED
    BY <2>1, <1>19
<1>21. Below(M, M.root) = Live(M)
  <2> DEFINE step == [x \in Live(M) |-> ToSet(M.kids[x])]
  <2>1. DOMAIN step = E /\ \A x \in E : step[x] = ToSet(K[x])
    BY <1>17, <1>18
  <2>2. Below(M, M.root) = Closure(step, T.root)
    BY <1>17 DEF Below
  <2> HIDE DEF step
  <2> DEFINE S == Closure(step, T.root)
  <2>5. T.root \in S /\ S \subseteq E /\ \A x \in S : step[x] \subseteq S
    BY <2>1, <1>7, <1>15, ClosureDoes
  <2> HIDE DEF S
  <2>6. \A x \in S \cup B : ToSet(T.kids[x]) \subseteq S \cup B
    <3>1. ASSUME NEW x \in S  PROVE ToSet(T.kids[x]) \subseteq S \cup B
      <4>1. x \in E /\ step[x] = ToSet(T.kids[x]) \ {n} /\ step[x] \subseteq S
        BY <2>1, <2>5, <1>15
      <4> QED
        BY <4>1, <1>4
    <3> QED
      BY <3>1, <1>4
  <2>7. D \subseteq S \cup B
    <3>1. S \cup B \in SUBSET Live(T) /\ T.root \in S \cup B /\ T.root \in Live(T)
      BY <2>5, <1>1, <1>4, <1>13 DEF D
    <3>2. D = Below(T, T.root)
      BY <1>2
    <3> DEFINE U == S \cup B
    <3> HIDE DEF U
    <3>3. U \in SUBSET Live(T) /\ T.root \in U /\ \A x \in U : ToSet(T.kids[x]) \subseteq U
      BY <2>6, <3>1 DEF U
    <3>4. Below(T, T.root) \subseteq U
      BY <3>1, <3>3, BelowDoes
    <3> QED
      BY <3>2, <3>4 DEF U
  <2> QED
    BY <2>2, <2>5, <2>7, <1>13, <1>14, <1>18 DEF S
<1>22. ValidTree(M)
  <2>1. DOMAIN M.kids = Live(M) /\ M.root \in Live(M) /\ M.active \in Live(M)
    BY <1>7, <1>11, <1>12, <1>17, <1>18
  <2>2. M.nodes[M.root].parent = None /\ M.nodes[M.root].seat = "system"
    BY <1>2, <1>7, <1>10, <1>17
  <2>3. \A x \in Live(M) : IsInjective(M.kids[x])
    BY <1>15, <1>17, <1>18
  <2>4. \A x \in Live(M) : \A c \in ToSet(M.kids[x]) :
          c \in Live(M) /\ M.nodes[c].parent = x
    BY <1>17, <1>18, <1>19
  <2>5. UNION {ToSet(M.kids[x]) : x \in Live(M)} = Live(M) \ {M.root}
    BY <1>17, <1>18, <1>20
  <2> QED
    BY <2>1, <2>2, <2>3, <2>4, <2>5, <1>21 DEF ValidTree
<1> QED
  BY <1>10, <1>17, <1>18, <1>22 DEF Sound, D, B, E

---------------------------------------------------------------------------
(* Branches.                                                               *)

LEMMA Upward ==
  ASSUME NEW T, Sound(T), NEW x \in Live(T), NEW y \in Above(T, x)
  PROVE  y \in Live(T) /\ Above(T, y) \subseteq Above(T, x)
<1> DEFINE A == Above(T, x)
<1>1. A \in SUBSET Live(T) /\ \A z \in A : {T.nodes[z].parent} \ {None} \subseteq A
  BY AboveDoes
<1> HIDE DEF A
<1>2. y \in A /\ y \in Live(T)
  BY <1>1 DEF A
<1>3. Above(T, y) \subseteq A
  BY <1>1, <1>2, AboveDoes
<1> QED
  BY <1>2, <1>3 DEF A

LEMMA AboveChild ==
  ASSUME NEW T, Sound(T), NEW x \in Live(T), x # T.root,
         NEW p, p = T.nodes[x].parent
  PROVE  p \in Live(T) /\ p # None /\ Above(T, x) = {x} \cup Above(T, p)
<1>1. p \in Live(T) /\ p # None
  <2>1. x \in Live(T) \ {T.root}
    OBVIOUS
  <2> QED
    BY <2>1, Parts
<1> DEFINE A == Above(T, p)  S == {x} \cup A
<1>2. /\ p \in A /\ A \subseteq Live(T)
      /\ \A z \in A : {T.nodes[z].parent} \ {None} \subseteq A
  BY <1>1, AboveDoes
<1>3. S \in SUBSET Live(T) /\ x \in S /\ \A z \in S : {T.nodes[z].parent} \ {None} \subseteq S
  BY <1>2
<1> HIDE DEF S
<1>4. Above(T, x) \subseteq S
  BY <1>3, AboveDoes
<1>5. x \in Above(T, x) /\ {p} \ {None} \subseteq Above(T, x)
  BY AboveDoes
<1>6. A \subseteq Above(T, x)
  BY <1>1, <1>5, Upward
<1> QED
  BY <1>1, <1>4, <1>5, <1>6 DEF S

LEMMA BelowIsUnder ==
  ASSUME NEW T, Sound(T), NEW n \in Live(T), NEW m \in Below(T, n)
  PROVE  m \in Live(T) /\ n \in Above(T, m)
<1> DEFINE S == {x \in Live(T) : n \in Above(T, x)}
<1>1. n \in S
  BY AboveDoes
<1>2. ASSUME NEW x \in S, NEW c \in ToSet(T.kids[x])
      PROVE  c \in S
  <2>1. c \in Live(T) /\ T.nodes[c].parent = x /\ c # T.root
    BY Parts
  <2>2. Above(T, c) = {c} \cup Above(T, x)
    BY <2>1, AboveChild
  <2> QED
    BY <2>1, <2>2
<1>3. S \in SUBSET Live(T)
  OBVIOUS
<1> HIDE DEF S
<1>4. \A x \in S : ToSet(T.kids[x]) \subseteq S
  BY <1>2
<1>5. Below(T, n) \subseteq S
  BY <1>1, <1>3, <1>4, BelowDoes
<1> QED
  BY <1>5 DEF S

\* A branch nobody moved or removed a node of.
LEMMA AboveKept ==
  ASSUME NEW T, NEW M, Sound(T), Sound(M), NEW h \in Live(T),
         \A x \in Above(T, h) : x \in Live(M) /\ M.nodes[x].parent = T.nodes[x].parent
  PROVE  h \in Live(M) /\ Above(M, h) = Above(T, h)
<1> DEFINE A == Above(T, h)  B == Above(M, h)
<1>1. /\ h \in A /\ A \subseteq Live(T)
      /\ \A x \in A : {T.nodes[x].parent} \ {None} \subseteq A
  BY AboveDoes
<1>2. h \in Live(M)
  BY <1>1
<1>3. /\ h \in B /\ B \subseteq Live(M)
      /\ \A x \in B : {M.nodes[x].parent} \ {None} \subseteq B
  BY <1>2, AboveDoes
<1>4. A \in SUBSET Live(M) /\ \A x \in A : {M.nodes[x].parent} \ {None} \subseteq A
  BY <1>1
<1> HIDE DEF A, B
<1>5. B \subseteq A
  BY <1>1, <1>2, <1>4, AboveDoes DEF B
<1>6. B \in SUBSET Live(T) /\ \A x \in B : {T.nodes[x].parent} \ {None} \subseteq B
  BY <1>1, <1>3, <1>5 DEF A
<1>7. A \subseteq B
  BY <1>3, <1>6, AboveDoes DEF A
<1> QED
  BY <1>2, <1>5, <1>7 DEF A, B

LEMMA PastKept ==
  ASSUME NEW T, NEW M, Sound(T), Sound(M), NEW h \in Live(T), M.root = T.root,
         \A x \in Above(T, h) : /\ x \in Live(M) /\ M.nodes[x].parent = T.nodes[x].parent
                               /\ M.nodes[x].text = T.nodes[x].text
  PROVE  h \in Live(M) /\ Past(M, h) = Past(T, h)
<1>1. h \in Live(M) /\ Above(M, h) = Above(T, h)
  BY AboveKept
<1> QED
  BY <1>1 DEF Past

---------------------------------------------------------------------------
(* What each call does to the tree.                                        *)

\* The new tree is sound, of ids made by now, and its revision is later.
Moved ==
  /\ Sound(tree') /\ Live(tree') \subseteq used'
  /\ used \subseteq used' /\ used' \subseteq Ids
  /\ tree'.rev > tree.rev

\* It has grown by new nodes only.
Grown ==
  /\ Live(tree) \subseteq Live(tree') /\ Live(tree') \cap used \subseteq Live(tree)
  /\ tree'.root = tree.root
  /\ \A x \in Live(tree) : tree'.nodes[x] = tree.nodes[x]

\* One message outside the reserved branch was rewritten in place.
Rewritten(n) ==
  /\ n \in Live(tree) /\ ~Reserved(n)
  /\ Live(tree') = Live(tree) /\ tree'.root = tree.root
  /\ tree'.nodes[n].parent = tree.nodes[n].parent
  /\ \A x \in Live(tree) \ {n} : tree'.nodes[x] = tree.nodes[x]

\* A subtree outside the reserved branch was removed.
Removed(n) ==
  /\ n \in Live(tree) /\ ~Reserved(n)
  /\ Live(tree') = Live(tree) \ Below(tree, n) /\ tree'.root = tree.root
  /\ \A x \in Live(tree') : tree'.nodes[x] = tree.nodes[x]

LEMMA TreeFacts ==
  ASSUME TreeInv
  PROVE  /\ Sound(tree) /\ Live(tree) \subseteq used /\ used \subseteq Ids
         /\ None \notin used /\ tree.rev \in Nat
         /\ \A x \in Live(tree) : tree.nodes[x] \in NodeRecords
         /\ saved # None => Sound(saved) /\ Live(saved) \subseteq used
<1>1. /\ Sound(tree) /\ Live(tree) \subseteq used /\ used \subseteq Ids
      /\ saved # None => Sound(saved) /\ Live(saved) \subseteq used
  BY DEF TreeInv, TypeOK, TreeIsValid, Sound
<1>2. tree.rev \in Nat /\ tree.nodes \in [Live(tree) -> NodeRecords]
  BY <1>1, Parts
<1> QED
  BY <1>1, <1>2, NodesAssumption

LEMMA CommitDoes ==
  ASSUME TreeInv, NEW T, Sound(T), NEW op, NEW added, NEW removed, NEW updated, NEW active,
         Commit(T, op, added, removed, updated, active)
  PROVE  /\ Sound(tree') /\ Live(tree') = Live(T) /\ tree'.nodes = T.nodes
         /\ tree'.root = T.root /\ tree'.rev > tree.rev
<1>1. tree.rev \in Nat /\ tree.rev + 1 \in Nat /\ tree.rev + 1 > tree.rev
  BY TreeFacts
<1>2. tree' = [T EXCEPT !.rev = tree.rev + 1]
  BY DEF Commit
<1> QED
  BY <1>1, <1>2, RevisionIsSound

LEMMA NodeIsTyped ==
  ASSUME NEW p \in Ids \cup {None}, NEW s \in Seats \cup {"system"},
         NEW t \in Seq(Words), NEW g \in BOOLEAN
  PROVE  /\ Node(p, s, t, g) \in NodeRecords
         /\ Node(p, s, t, g).parent = p /\ Node(p, s, t, g).seat = s
         /\ Node(p, s, t, g).text = t
BY DEF Node, NodeRecords

\* A child, and the pointer on it.
LEMMA ChildDoes ==
  ASSUME TreeInv, NEW T, Sound(T), NEW id \in Ids, id \notin Live(T),
         NEW p \in Live(T), NEW s \in Seats, NEW t \in Seq(Words), NEW g \in BOOLEAN,
         NEW M, M = WithChild(T, id, Node(p, s, t, g))
  PROVE  /\ Sound(M) /\ Live(M) = Live(T) \cup {id} /\ M.nodes[id].parent = p
         /\ M.nodes[id].seat = s /\ M.nodes[id].text = t
         /\ \A x \in Live(T) : M.nodes[x] = T.nodes[x]
         /\ M.root = T.root
<1>1. p \in Ids
  BY Parts
<1>2. /\ Node(p, s, t, g) \in NodeRecords /\ Node(p, s, t, g).parent = p
      /\ Node(p, s, t, g).seat = s /\ Node(p, s, t, g).text = t
  BY <1>1, NodeIsTyped
<1> QED
  BY <1>2, ChildIsSound

LEMMA FreshIsNew ==
  ASSUME TreeInv, NEW n \in Fresh
  PROVE  n \in Ids /\ n \notin used /\ n \notin Live(tree)
BY TreeFacts DEF Fresh

LEMMA AddUserTurnDoes ==
  ASSUME TreeInv, NEW p \in Live(tree), NEW t \in Seq(Words), NEW n \in Ids,
         AddUserTurn(p, t, n)
  PROVE  /\ Moved /\ Grown
         /\ n \in Live(tree') /\ tree'.nodes[n].parent = p
<1>0. /\ Sound(tree) /\ Live(tree) \subseteq used /\ used \subseteq Ids
  BY TreeFacts
<1>1. CASE SameUserTurns(tree, p, t) # {}
  <2>1. /\ FirstSame(p, t, n) /\ used' = used
        /\ Commit(WithActive(tree, n), "navigate", <<>>, {}, <<>>, n)
    BY <1>1 DEF AddUserTurn
  <2>2. n \in ToSet(tree.kids[p])
    BY <2>1 DEF FirstSame, ToSet
  <2>3. n \in Live(tree) /\ tree.nodes[n].parent = p
    BY <2>2, <1>0, Parts
  <2> DEFINE T == WithActive(tree, n)
  <2>4. /\ Sound(T) /\ Live(T) = Live(tree) /\ T.nodes = tree.nodes /\ T.root = tree.root
    BY <2>3, <1>0, PointerIsSound
  <2> HIDE DEF T
  <2>5. /\ Sound(tree') /\ Live(tree') = Live(T) /\ tree'.nodes = T.nodes
        /\ tree'.root = T.root /\ tree'.rev > tree.rev
    BY <2>1, <2>4, CommitDoes DEF T
  <2> QED
    BY <1>0, <2>1, <2>3, <2>4, <2>5 DEF Moved, Grown
<1>2. CASE SameUserTurns(tree, p, t) = {}
  <2> DEFINE C == WithChild(tree, n, Node(p, "user", t, FALSE))
             T == WithActive(C, n)
  <2>1. n \in Fresh /\ used' = used \cup {n}
        /\ Commit(T, "add_user", <<n>>, {}, <<>>, n)
    BY <1>2 DEF AddUserTurn
  <2>2. n \notin used /\ n \notin Live(tree) /\ "user" \in Seats
    BY <2>1, FreshIsNew DEF Seats
  <2>3. /\ Sound(C) /\ Live(C) = Live(tree) \cup {n} /\ C.nodes[n].parent = p
        /\ \A x \in Live(tree) : C.nodes[x] = tree.nodes[x]
        /\ C.root = tree.root
    <3> DEFINE u == "user"  g == FALSE
    <3>1. u \in Seats /\ g \in BOOLEAN /\ C = WithChild(tree, n, Node(p, u, t, g))
      BY <2>2
    <3> HIDE DEF T, C, u, g
    <3> QED
      BY <1>0, <2>2, <3>1, ChildDoes
  <2> HIDE DEF C
  <2>4. /\ Sound(T) /\ Live(T) = Live(C) /\ T.nodes = C.nodes /\ T.root = C.root
    BY <2>3, PointerIsSound
  <2> HIDE DEF T
  <2>5. /\ Sound(tree') /\ Live(tree') = Live(T) /\ tree'.nodes = T.nodes
        /\ tree'.root = T.root /\ tree'.rev > tree.rev
    BY <2>1, <2>4, CommitDoes
  <2> QED
    BY <1>0, <2>1, <2>2, <2>3, <2>4, <2>5 DEF Moved, Grown
<1> QED
  BY <1>1, <1>2

\* A message rewritten, with or without the pointer moving to it.
LEMMA RewriteDoes ==
  ASSUME TreeInv, NEW n \in Live(tree), NEW node \in NodeRecords,
         node.parent = tree.nodes[n].parent, node.seat = tree.nodes[n].seat, used' = used,
         NEW op, NEW active, NEW T, T = WithNode(tree, n, node),
         \/ Commit(T, op, <<>>, {}, <<n>>, active)
         \/ Commit(WithActive(T, n), op, <<>>, {}, <<n>>, active)
  PROVE  /\ Moved /\ Live(tree') = Live(tree) /\ tree'.root = tree.root
         /\ tree'.nodes[n] = node
         /\ \A x \in Live(tree) \ {n} : tree'.nodes[x] = tree.nodes[x]
<1>0. /\ Sound(tree) /\ Live(tree) \subseteq used /\ used \subseteq Ids
  BY TreeFacts
<1>1. /\ Sound(T) /\ Live(T) = Live(tree) /\ T.nodes[n] = node
      /\ \A x \in Live(tree) \ {n} : T.nodes[x] = tree.nodes[x]
      /\ T.root = tree.root
  BY <1>0, NodeIsSound
<1> DEFINE A == WithActive(T, n)
<1>2. /\ Sound(A) /\ Live(A) = Live(T) /\ A.nodes = T.nodes /\ A.root = T.root
  BY <1>1, PointerIsSound
<1> HIDE DEF A
<1>3. /\ Sound(tree') /\ Live(tree') = Live(T) /\ tree'.nodes = T.nodes
      /\ tree'.root = T.root /\ tree'.rev > tree.rev
  <2>1. CASE Commit(T, op, <<>>, {}, <<n>>, active)
    BY <2>1, <1>1, CommitDoes
  <2>2. CASE Commit(A, op, <<>>, {}, <<n>>, active)
    BY <2>2, <1>2, CommitDoes
  <2> QED
    BY <2>1, <2>2 DEF A
<1> QED
  BY <1>0, <1>1, <1>3 DEF Moved

LEMMA TextsAreSequences ==
  ASSUME NEW t \in Texts
  PROVE  t \in Seq(Words)
<1>1. CASE t \in {<<w>> : w \in Words}
  <2>1. PICK w \in Words : t = <<w>>
    BY <1>1
  <2> QED
    BY <2>1
<1>2. CASE t \in {<<v, w>> : v \in Words, w \in Words}
  <2>1. PICK v \in Words : \E w \in Words : t = <<v, w>>
    BY <1>2
  <2>2. PICK w \in Words : t = <<v, w>>
    BY <2>1
  <2> QED
    BY <2>2
<1> QED
  BY <1>1, <1>2 DEF Texts

LEMMA AppendAuthoredDoes ==
  ASSUME TreeInv, NEW n \in Ids, NEW w \in Words, AppendAuthored(n, w)
  PROVE  Moved /\ Rewritten(n) /\ Elsewhere
<1> DEFINE old == tree.nodes[n]
           node == Node(old.parent, old.seat, Append(old.text, w), FALSE)
<1>1. n \in Live(tree) /\ ~Reserved(n) /\ used' = used /\ Elsewhere
  BY DEF AppendAuthored, Known
<1>2. Commit(WithActive(WithNode(tree, n, node), n), "edit", <<>>, {}, <<n>>, n)
  BY DEF AppendAuthored
<1>3. old \in NodeRecords
  BY <1>1, TreeFacts
<1>4. node \in NodeRecords /\ node.parent = old.parent /\ node.seat = old.seat
  BY <1>3 DEF Node, NodeRecords
<1> HIDE DEF node
<1>5. /\ Moved /\ Live(tree') = Live(tree) /\ tree'.root = tree.root
      /\ tree'.nodes[n] = node
      /\ \A x \in Live(tree) \ {n} : tree'.nodes[x] = tree.nodes[x]
  BY <1>1, <1>2, <1>4, RewriteDoes
<1> QED
  BY <1>1, <1>4, <1>5 DEF Rewritten

LEMMA EditDoes ==
  ASSUME TreeInv, NEW n \in Ids, NEW t \in Texts, Edit(n, t)
  PROVE  Moved /\ Rewritten(n) /\ Elsewhere
<1> DEFINE old == tree.nodes[n]
           node == [old EXCEPT !.text = t]
<1>1. n \in Live(tree) /\ ~Reserved(n) /\ used' = used /\ Elsewhere
  BY DEF Edit, Known
<1>2. Commit(WithNode(tree, n, node), "edit", <<>>, {}, <<n>>, None)
  BY DEF Edit
<1>3. old \in NodeRecords
  BY <1>1, TreeFacts
<1>0. t \in Seq(Words)
  BY TextsAreSequences
<1>4. node \in NodeRecords /\ node.parent = old.parent /\ node.seat = old.seat
  BY <1>0, <1>3 DEF NodeRecords
<1> HIDE DEF node
<1>5. /\ Moved /\ Live(tree') = Live(tree) /\ tree'.root = tree.root
      /\ tree'.nodes[n] = node
      /\ \A x \in Live(tree) \ {n} : tree'.nodes[x] = tree.nodes[x]
  BY <1>1, <1>2, <1>4, RewriteDoes
<1> QED
  BY <1>1, <1>4, <1>5 DEF Rewritten

LEMMA AppendUserTurnDoes ==
  ASSUME TreeInv, NEW p \in Ids, NEW w \in Words, AppendUserTurn(p, w)
  PROVE  Moved /\ Grown /\ Elsewhere
<1>1. p \in Live(tree) /\ Elsewhere
  BY DEF AppendUserTurn, Known
<1> DEFINE t == <<w>>
<1>2. t \in Seq(Words)
  OBVIOUS
<1>3. PICK n \in Ids : AddUserTurn(p, t, n)
  BY DEF AppendUserTurn
<1> HIDE DEF t
<1> QED
  BY <1>1, <1>2, <1>3, AddUserTurnDoes

LEMMA AppendAssistantTurnDoes ==
  ASSUME TreeInv, NEW p \in Ids, NEW w \in Words, NEW n \in Ids,
         AppendAssistantTurn(p, w, n)
  PROVE  Moved /\ Grown /\ Elsewhere
<1> DEFINE e == <<>>  t == <<w>>  a == "assistant"  g == FALSE
           C == WithChild(tree, n, Node(p, a, e, g))
           A == WithActive(C, n)
           T1 == [A EXCEPT !.rev = @ + 1]
           N == WithNode(T1, n, Node(p, a, t, g))
<1>1. /\ p \in Live(tree) /\ n \in Fresh /\ used' = used \cup {n} /\ Elsewhere
  BY DEF AppendAssistantTurn, Known
<1>2. tree' = [N EXCEPT !.rev = @ + 1]
  BY DEF AppendAssistantTurn
<1>3. /\ Sound(tree) /\ Live(tree) \subseteq used /\ used \subseteq Ids
      /\ n \notin used /\ n \notin Live(tree) /\ tree.rev \in Nat
  BY <1>1, FreshIsNew, TreeFacts
<1>4. e \in Seq(Words) /\ t \in Seq(Words) /\ a \in Seats /\ g \in BOOLEAN
  BY EmptySeq DEF Seats
<1> HIDE DEF T1, N, e, t, a, g
<1>5. /\ Sound(C) /\ Live(C) = Live(tree) \cup {n} /\ C.nodes[n].parent = p
      /\ C.nodes[n].seat = a
      /\ \A x \in Live(tree) : C.nodes[x] = tree.nodes[x]
      /\ C.root = tree.root
  <2> HIDE DEF A, C
  <2> QED
    BY <1>1, <1>3, <1>4, ChildDoes DEF C
<1>6. C.rev = tree.rev
  BY DEF WithChild
<1> HIDE DEF C
<1>7. /\ Sound(A) /\ Live(A) = Live(C) /\ A.nodes = C.nodes /\ A.root = C.root
      /\ A.rev = C.rev
  BY <1>5, PointerIsSound
<1> HIDE DEF A
<1>8. /\ Sound(T1) /\ Live(T1) = Live(A) /\ T1.nodes = A.nodes /\ T1.root = A.root
      /\ T1.rev = tree.rev + 1
  <2>1. T1 = [A EXCEPT !.rev = tree.rev + 1] /\ tree.rev + 1 \in Nat
    BY <1>3, <1>6, <1>7 DEF T1
  <2> QED
    BY <1>7, <2>1, RevisionIsSound
<1>9. /\ Sound(N) /\ Live(N) = Live(T1) /\ N.nodes[n].parent = p
      /\ \A x \in Live(T1) \ {n} : N.nodes[x] = T1.nodes[x]
      /\ N.root = T1.root /\ N.rev = T1.rev
  <2> DEFINE node == Node(p, a, t, g)
  <2>1. node \in NodeRecords /\ node.parent = p /\ node.seat = a
    BY <1>4, NodeIsTyped
  <2>2. N = WithNode(T1, n, node)
    BY DEF N
  <2> HIDE DEF node
  <2> QED
    BY <2>1, <2>2, <1>5, <1>7, <1>8, NodeIsSound
<1>10. /\ Sound(tree') /\ Live(tree') = Live(N) /\ tree'.nodes = N.nodes
       /\ tree'.root = N.root /\ tree'.rev = tree.rev + 2
  <2>1. tree' = [N EXCEPT !.rev = tree.rev + 2] /\ tree.rev + 2 \in Nat
    BY <1>2, <1>3, <1>8, <1>9
  <2> QED
    BY <1>9, <2>1, RevisionIsSound
<1>11. Moved
  <2>1. tree'.rev > tree.rev
    BY <1>3, <1>10
  <2> QED
    BY <1>1, <1>3, <1>5, <1>7, <1>8, <1>9, <1>10, <2>1 DEF Moved
<1>12. Grown
  BY <1>1, <1>3, <1>5, <1>7, <1>8, <1>9, <1>10 DEF Grown
<1> QED
  BY <1>1, <1>11, <1>12

LEMMA BranchDoes ==
  ASSUME TreeInv, NEW s \in Ids, NEW n \in Ids, NEW seat \in Seats, NEW t \in Texts,
         NEW moves \in BOOLEAN, Branch(s, seat, t, n, moves)
  PROVE  Moved /\ Grown /\ Elsewhere
<1> DEFINE p == tree.nodes[s].parent  g == FALSE
           C == WithChild(tree, n, Node(p, seat, t, g))
           A == WithActive(C, n)
<1>1. /\ s \in Live(tree) \ {tree.root} /\ n \in Fresh /\ used' = used \cup {n} /\ Elsewhere
  BY DEF Branch, Known
<1>2. \/ Commit(A, "branch", <<n>>, {}, <<>>, n)
      \/ Commit(C, "branch", <<n>>, {}, <<>>, None)
  BY DEF Branch
<1>3. /\ Sound(tree) /\ Live(tree) \subseteq used /\ used \subseteq Ids
      /\ n \notin used /\ n \notin Live(tree) /\ tree.rev \in Nat
  BY <1>1, FreshIsNew, TreeFacts
<1>4. t \in Seq(Words) /\ g \in BOOLEAN
  BY TextsAreSequences
<1>5. p \in Live(tree)
  BY <1>1, <1>3, Parts
<1> HIDE DEF A, p, g
<1>6. /\ Sound(C) /\ Live(C) = Live(tree) \cup {n}
      /\ \A x \in Live(tree) : C.nodes[x] = tree.nodes[x]
      /\ C.root = tree.root
  <2> HIDE DEF C
  <2> QED
    BY <1>3, <1>4, <1>5, ChildDoes DEF C
<1> HIDE DEF C
<1>7. /\ Sound(A) /\ Live(A) = Live(C) /\ A.nodes = C.nodes /\ A.root = C.root
  BY <1>6, PointerIsSound DEF A
<1>8. /\ Sound(tree') /\ Live(tree') = Live(C) /\ tree'.nodes = C.nodes
      /\ tree'.root = C.root /\ tree'.rev > tree.rev
  <2>1. CASE Commit(A, "branch", <<n>>, {}, <<>>, n)
    BY <2>1, <1>7, CommitDoes
  <2>2. CASE Commit(C, "branch", <<n>>, {}, <<>>, None)
    BY <2>2, <1>6, CommitDoes
  <2> QED
    BY <2>1, <2>2, <1>2
<1> QED
  BY <1>1, <1>3, <1>6, <1>8 DEF Moved, Grown

LEMMA GraftDoes ==
  ASSUME TreeInv, NEW p \in Ids, NEW n \in Ids, NEW m \in Ids, NEW t \in Texts, NEW u \in Texts,
         Graft(p, t, u, n, m)
  PROVE  Moved /\ Grown /\ Elsewhere
<1> DEFINE g == FALSE  q == "user"  a == "assistant"
           C == WithChild(tree, n, Node(p, q, t, g))
           D == WithChild(C, m, Node(n, a, u, g))
           A == WithActive(D, m)
<1>1. /\ p \in Live(tree) /\ n \in Fresh /\ m \in Fresh /\ n # m
      /\ used' = used \cup {n, m} /\ Elsewhere
  BY DEF Graft, Known
<1>2. Commit(A, "import", <<n, m>>, {}, <<>>, m)
  BY DEF Graft
<1>3. /\ Sound(tree) /\ Live(tree) \subseteq used /\ used \subseteq Ids /\ tree.rev \in Nat
      /\ n \notin used /\ n \notin Live(tree) /\ m \notin used /\ m \notin Live(tree)
  BY <1>1, FreshIsNew, TreeFacts
<1>4. /\ t \in Seq(Words) /\ u \in Seq(Words) /\ g \in BOOLEAN
      /\ q \in Seats /\ a \in Seats
  BY TextsAreSequences DEF Seats
<1> HIDE DEF A, D, C, q, a, g
<1>5. /\ Sound(C) /\ Live(C) = Live(tree) \cup {n}
      /\ \A x \in Live(tree) : C.nodes[x] = tree.nodes[x]
      /\ C.root = tree.root
  BY <1>1, <1>3, <1>4, ChildDoes DEF C
<1>6. n \in Live(C) /\ m \notin Live(C)
  BY <1>1, <1>3, <1>5
<1>7. /\ Sound(D) /\ Live(D) = Live(C) \cup {m}
      /\ \A x \in Live(C) : D.nodes[x] = C.nodes[x]
      /\ D.root = C.root
  BY <1>4, <1>5, <1>6, ChildDoes DEF D
<1>8. /\ Sound(A) /\ Live(A) = Live(D) /\ A.nodes = D.nodes /\ A.root = D.root
  BY <1>7, PointerIsSound DEF A
<1>9. /\ Sound(tree') /\ Live(tree') = Live(A) /\ tree'.nodes = A.nodes
      /\ tree'.root = A.root /\ tree'.rev > tree.rev
  BY <1>2, <1>8, CommitDoes
<1>10. Live(tree') = Live(tree) \cup {n, m}
  BY <1>5, <1>7, <1>8, <1>9
<1>11. \A x \in Live(tree) : tree'.nodes[x] = tree.nodes[x]
  BY <1>5, <1>7, <1>8, <1>9
<1> QED
  BY <1>1, <1>3, <1>5, <1>7, <1>8, <1>9, <1>10, <1>11 DEF Moved, Grown

\* navigate, star and the other decorations.
LEMMA NavigateDoes ==
  ASSUME TreeInv, NEW n \in Ids, Navigate(n) \/ Decorate(n)
  PROVE  Moved /\ Grown /\ Elsewhere
<1> DEFINE A == WithActive(tree, n)
<1>1. n \in Live(tree) /\ used' = used /\ Elsewhere
  BY DEF Navigate, Decorate, Known
<1>2. \/ Commit(A, "navigate", <<>>, {}, <<>>, n)
      \/ Commit(tree, "star", <<>>, {}, <<n>>, None)
  BY DEF Navigate, Decorate
<1>3. /\ Sound(tree) /\ Live(tree) \subseteq used /\ used \subseteq Ids
  BY TreeFacts
<1>4. /\ Sound(A) /\ Live(A) = Live(tree) /\ A.nodes = tree.nodes /\ A.root = tree.root
  BY <1>1, <1>3, PointerIsSound
<1> HIDE DEF A
<1>5. /\ Sound(tree') /\ Live(tree') = Live(tree) /\ tree'.nodes = tree.nodes
      /\ tree'.root = tree.root /\ tree'.rev > tree.rev
  <2>1. CASE Commit(A, "navigate", <<>>, {}, <<>>, n)
    BY <2>1, <1>4, CommitDoes
  <2>2. CASE Commit(tree, "star", <<>>, {}, <<n>>, None)
    BY <2>2, <1>3, CommitDoes
  <2> QED
    BY <2>1, <2>2, <1>2
<1> QED
  BY <1>1, <1>3, <1>5 DEF Moved, Grown

LEMMA DeleteSubtreeDoes ==
  ASSUME TreeInv, NEW n \in Ids, DeleteSubtree(n)
  PROVE  Moved /\ Removed(n) /\ Elsewhere
<1> DEFINE W == Without(tree, n)
<1>1. n \in Live(tree) /\ n # tree.root /\ ~Reserved(n) /\ used' = used /\ Elsewhere
  BY DEF DeleteSubtree, Known
<1>2. Commit(W, "delete", <<>>, Below(tree, n), <<>>,
             IF W.active = tree.active THEN None ELSE W.active)
  BY DEF DeleteSubtree
<1>3. /\ Sound(tree) /\ Live(tree) \subseteq used /\ used \subseteq Ids
  BY TreeFacts
<1> HIDE DEF W
<1>4. /\ Sound(W) /\ Live(W) = Live(tree) \ Below(tree, n)
      /\ \A x \in Live(W) : W.nodes[x] = tree.nodes[x]
      /\ W.root = tree.root
  BY <1>1, <1>3, RestIsSound DEF W
<1>5. /\ Sound(tree') /\ Live(tree') = Live(W) /\ tree'.nodes = W.nodes
      /\ tree'.root = W.root /\ tree'.rev > tree.rev
  BY <1>2, <1>4, CommitDoes
<1> QED
  BY <1>1, <1>3, <1>4, <1>5 DEF Moved, Removed

LEMMA ResetDoes ==
  ASSUME TreeInv, NEW id \in Ids, Reset(id)
  PROVE  Moved /\ reservation = None /\ Live(tree') \cap used = {} /\ Elsewhere
<1> DEFINE F == FreshTree(id)
<1>1. reservation = None /\ id \in Fresh /\ used' = used \cup {id} /\ Elsewhere
  BY DEF Reset
<1>2. Commit(F, "reset", <<id>>, Live(tree), <<>>, id)
  BY DEF Reset
<1>3. Live(tree) \subseteq used /\ used \subseteq Ids /\ id \notin used
  BY <1>1, FreshIsNew, TreeFacts
<1> HIDE DEF F
<1>4. Sound(F) /\ Live(F) = {id}
  BY FreshIsSound DEF F
<1>5. Sound(tree') /\ Live(tree') = {id} /\ tree'.rev > tree.rev
  BY <1>2, <1>4, CommitDoes
<1> QED
  BY <1>1, <1>3, <1>5 DEF Moved

LEMMA RestoreDoes ==
  ASSUME TreeInv, Restore
  PROVE  /\ Moved /\ At("idle")
         /\ reservation' = None /\ used' = used /\ gen' = gen /\ saved' = saved
<1> DEFINE v == 1 + IF saved.rev > tree.rev THEN saved.rev ELSE tree.rev
<1>1. /\ saved # None /\ At("idle") /\ reservation' = None
      /\ used' = used /\ gen' = gen /\ saved' = saved
      /\ tree' = [saved EXCEPT !.rev = v]
  BY DEF Restore
<1>2. /\ Sound(saved) /\ Live(saved) \subseteq used /\ used \subseteq Ids
      /\ tree.rev \in Nat
  BY <1>1, TreeFacts
<1>3. saved.rev \in Nat
  BY <1>2, Parts
<1>4. v \in Nat /\ v > tree.rev
  BY <1>2, <1>3
<1> HIDE DEF v
<1>5. Sound(tree') /\ Live(tree') = Live(saved) /\ tree'.rev = v
  BY <1>1, <1>2, <1>4, RevisionIsSound
<1> QED
  BY <1>1, <1>2, <1>4, <1>5 DEF Moved

---------------------------------------------------------------------------
(* The steps of a generation.                                              *)

Stays == tree' = tree /\ used' = used

LEMMA OpenTurnDoes ==
  ASSUME TreeInv, OpenTurn
  PROVE  \/ /\ gen.input = None /\ Stays
            /\ gen' = [gen EXCEPT !.pc = "reserve", !.anchor = ParentOr(gen.parent)]
         \/ /\ gen.input # None /\ Moved /\ Grown
            /\ \E n \in Live(tree') :
                 /\ tree'.nodes[n].parent = ParentOr(gen.parent)
                 /\ gen' = [gen EXCEPT !.pc = "reserve", !.anchor = n]
<1>1. CASE gen.input = None
  BY <1>1 DEF OpenTurn, Becomes, Stays
<1>2. CASE gen.input # None
  <2>1. ParentOr(gen.parent) \in Live(tree)
    BY <1>2 DEF OpenTurn, Known
  <2>2. PICK n \in Ids :
          /\ AddUserTurn(ParentOr(gen.parent), gen.input, n)
          /\ gen' = [gen EXCEPT !.pc = "reserve", !.anchor = n]
    BY <1>2 DEF OpenTurn, Becomes
  <2>3. gen.input \in Seq(Words)
    BY <1>2 DEF TreeInv, TypeOK, GenShape
  <2>4. /\ Moved /\ Grown
        /\ n \in Live(tree') /\ tree'.nodes[n].parent = ParentOr(gen.parent)
    BY <2>1, <2>2, <2>3, AddUserTurnDoes
  <2> QED
    BY <1>2, <2>2, <2>4
<1> QED
  BY <1>1, <1>2

LEMMA BeginContinuationDoes ==
  ASSUME TreeInv, BeginContinuation
  PROVE  /\ Moved /\ used' = used /\ gen.cont # None /\ Known(gen.cont) /\ At("begin")
         /\ Live(tree') = Live(tree) /\ tree'.root = tree.root
         /\ \A x \in Live(tree) : tree'.nodes[x].parent = tree.nodes[x].parent
         /\ gen' = [gen EXCEPT !.pc = "render", !.target = gen.cont]
<1> DEFINE n == gen.cont  old == tree.nodes[n]
           node == Node(old.parent, old.seat, <<>>, TRUE)
<1>1. /\ n \in Live(tree) /\ n # None /\ used' = used /\ At("begin")
      /\ gen' = [gen EXCEPT !.pc = "render", !.target = n]
  BY DEF BeginContinuation, Known, Becomes
<1>2. Commit(WithActive(WithNode(tree, n, node), n), "begin_assistant", <<>>, {}, <<n>>, n)
  BY DEF BeginContinuation
<1>3. old \in NodeRecords /\ <<>> \in Seq(Words)
  BY <1>1, TreeFacts, EmptySeq
<1>4. node \in NodeRecords /\ node.parent = old.parent /\ node.seat = old.seat
  BY <1>3 DEF Node, NodeRecords
<1> HIDE DEF node
<1>5. /\ Moved /\ Live(tree') = Live(tree) /\ tree'.root = tree.root
      /\ tree'.nodes[n] = node
      /\ \A x \in Live(tree) \ {n} : tree'.nodes[x] = tree.nodes[x]
  BY <1>1, <1>2, <1>4, RewriteDoes
<1> QED
  BY <1>1, <1>4, <1>5 DEF Known

LEMMA BeginAssistantDoes ==
  ASSUME TreeInv, NEW n \in Ids, BeginAssistant(n)
  PROVE  /\ Moved /\ Grown /\ gen.cont = None /\ Known(gen.anchor) /\ At("begin")
         /\ n \in Live(tree') /\ tree'.nodes[n].parent = gen.anchor
         /\ gen' = [gen EXCEPT !.pc = "render", !.target = n]
<1> DEFINE p == gen.anchor  g == TRUE  e == <<>>  s == gen.seat
           C == WithChild(tree, n, Node(p, s, e, g))
           A == WithActive(C, n)
<1>1. /\ p \in Live(tree) /\ n \in Fresh /\ used' = used \cup {n}
      /\ gen.cont = None /\ At("begin")
      /\ gen' = [gen EXCEPT !.pc = "render", !.target = n]
  BY DEF BeginAssistant, Known, Becomes
<1>2. Commit(A, "begin_assistant", <<n>>, {}, <<>>, n)
  BY DEF BeginAssistant
<1>3. /\ Sound(tree) /\ Live(tree) \subseteq used /\ used \subseteq Ids
      /\ n \notin used /\ n \notin Live(tree)
  BY <1>1, FreshIsNew, TreeFacts
<1>4. e \in Seq(Words) /\ g \in BOOLEAN /\ s \in Seats
  BY EmptySeq DEF TreeInv, TypeOK, GenShape
<1> HIDE DEF A, C, g, e, s, p
<1>5. /\ Sound(C) /\ Live(C) = Live(tree) \cup {n} /\ C.nodes[n].parent = p
      /\ \A x \in Live(tree) : C.nodes[x] = tree.nodes[x]
      /\ C.root = tree.root
  BY <1>1, <1>3, <1>4, ChildDoes DEF C
<1>6. /\ Sound(A) /\ Live(A) = Live(C) /\ A.nodes = C.nodes /\ A.root = C.root
  BY <1>5, PointerIsSound DEF A
<1>7. /\ Sound(tree') /\ Live(tree') = Live(A) /\ tree'.nodes = A.nodes
      /\ tree'.root = A.root /\ tree'.rev > tree.rev
  BY <1>2, <1>6, CommitDoes
<1>8. Moved /\ Grown
  BY <1>1, <1>3, <1>5, <1>6, <1>7 DEF Moved, Grown
<1> QED
  BY <1>1, <1>5, <1>6, <1>7, <1>8 DEF Known, p

LEMMA FinalizeDoes ==
  ASSUME TreeInv, Finalize
  PROVE  /\ Moved /\ used' = used
         /\ Live(tree') = Live(tree)
         /\ gen' = [gen EXCEPT !.pc = "release"]
<1> DEFINE n == gen.target  old == tree.nodes[n]
           node == [old EXCEPT !.text = gen.out]
<1>1. n \in Live(tree) /\ used' = used /\ gen' = [gen EXCEPT !.pc = "release"]
  BY DEF Finalize, Known, Becomes
<1>2. Commit(WithNode(tree, n, node), "finalize_assistant", <<>>, {}, <<n>>, None)
  BY DEF Finalize
<1>3. old \in NodeRecords /\ gen.out \in Seq(Words)
  BY <1>1, TreeFacts DEF TreeInv, TypeOK, GenShape
<1>4. node \in NodeRecords /\ node.parent = old.parent /\ node.seat = old.seat
  BY <1>3 DEF NodeRecords
<1> HIDE DEF node
<1>5. Moved /\ Live(tree') = Live(tree)
  BY <1>1, <1>2, <1>4, RewriteDoes
<1> QED
  BY <1>1, <1>5

---------------------------------------------------------------------------
(* The tree is valid.                                                      *)

LEMMA GenIsTyped ==
  ASSUME TreeInv, gen' = gen, used \subseteq used'
  PROVE  GenShape'
<1>1. GenShape
  BY DEF TreeInv, TypeOK
<1> QED
  BY <1>1 DEF GenShape

\* An opened generation is well formed for any turn of the tree as its anchor.
LEMMA AnchoredIsTyped ==
  ASSUME GenShape, used \subseteq used', NEW a \in used',
         gen' = [gen EXCEPT !.pc = "reserve", !.anchor = a]
  PROVE  GenShape'
BY DEF GenShape, Stages

LEMMA TypeKept ==
  ASSUME TreeInv, client' = client, Moved \/ Stays,
         saved' = saved \/ saved' = tree,
         reservation' \in used' \cup {None}, GenShape'
  PROVE  TreeInv'
<1>1. /\ Sound(tree) /\ Live(tree) \subseteq used /\ used \subseteq Ids
      /\ saved # None => Sound(saved) /\ Live(saved) \subseteq used
      /\ client \in Clients
  BY TreeFacts DEF TreeInv, TypeOK
<1>2. Sound(tree') /\ Live(tree') \subseteq used' /\ used \subseteq used' /\ used' \subseteq Ids
  BY <1>1 DEF Moved, Stays
<1>3. saved' # None => Sound(saved') /\ Live(saved') \subseteq used'
  BY <1>1, <1>2
<1>4. /\ Shape(tree') /\ ValidTree(tree')
      /\ saved' # None => Shape(saved') /\ ValidTree(saved')
  BY <1>2, <1>3 DEF Sound
<1> QED
  BY <1>1, <1>2, <1>3, <1>4 DEF TreeInv, TypeOK, TreeIsValid

LEMMA CallsKeepTree ==
  ASSUME TreeInv, TreeCalls, client' = client
  PROVE  TreeInv' /\ (Moved \/ Stays)
<1>0. reservation \in used \cup {None}
  BY DEF TreeInv, TypeOK
<1>1. ASSUME Moved, reservation' = reservation, gen' = gen, saved' = saved
      PROVE  TreeInv'
  <2>1. used \subseteq used'
    BY <1>1 DEF Moved
  <2> QED
    BY <2>1, <1>0, <1>1, GenIsTyped, TypeKept
<1>2. ASSUME Moved /\ Elsewhere PROVE TreeInv' /\ (Moved \/ Stays)
  BY <1>1, <1>2 DEF Elsewhere
<1>3. CASE \E n \in Ids, w \in Words : AppendAuthored(n, w) \/ AppendUserTurn(n, w)
  BY <1>2, <1>3, AppendAuthoredDoes, AppendUserTurnDoes
<1>4. CASE \E p, n \in Ids, w \in Words : AppendAssistantTurn(p, w, n)
  BY <1>2, <1>4, AppendAssistantTurnDoes
<1>5. CASE \E n \in Ids, t \in Texts : Edit(n, t)
  BY <1>2, <1>5, EditDoes
<1>6. CASE \E s, n \in Ids, seat \in Seats, t \in Texts, moves \in BOOLEAN :
             Branch(s, seat, t, n, moves)
  BY <1>2, <1>6, BranchDoes
<1>7. CASE \E p, n, m \in Ids, t, u \in Texts : Graft(p, t, u, n, m)
  BY <1>2, <1>7, GraftDoes
<1>8. CASE \E n \in Ids : Navigate(n) \/ DeleteSubtree(n) \/ Decorate(n) \/ Reset(n)
  BY <1>2, <1>8, NavigateDoes, DeleteSubtreeDoes, ResetDoes
<1>9. CASE Save
  <2>1. /\ saved' = tree /\ Stays /\ reservation' = reservation /\ gen' = gen
    BY <1>9 DEF Save, Stays
  <2>2. GenShape'
    BY <2>1, GenIsTyped DEF Stays
  <2>3. reservation' \in used' \cup {None}
    BY <2>1, <1>0 DEF Stays
  <2> QED
    BY <2>1, <2>2, <2>3, TypeKept
<1>10. CASE Restore
  <2>1. Moved /\ reservation' = None /\ gen' = gen /\ used' = used /\ saved' = saved
    BY <1>10, RestoreDoes
  <2>2. GenShape'
    BY <2>1, GenIsTyped
  <2> QED
    BY <2>1, <2>2, TypeKept
<1> QED
  BY <1>3, <1>4, <1>5, <1>6, <1>7, <1>8, <1>9, <1>10 DEF TreeCalls

LEMMA GenerationKeepsTree ==
  ASSUME TreeInv, Generation, client' = client
  PROVE  TreeInv' /\ (Moved \/ Stays)
<1>0. /\ GenShape /\ reservation \in used \cup {None} /\ tree.active \in used
  BY TreeFacts, Parts DEF TreeInv, TypeOK
<1>00. used \subseteq Ids
  BY TreeFacts
<1>1. CASE CheckTarget
  <2>1. /\ Stays /\ gen' = [gen EXCEPT !.pc = "open"]
        /\ reservation' = reservation /\ saved' = saved
    BY <1>1 DEF CheckTarget, Becomes, Stays
  <2>2. GenShape'
    BY <2>1, <1>0 DEF GenShape, Stages, Stays
  <2> QED
    BY <2>1, <2>2, <1>0, TypeKept DEF Stays
<1>2. CASE OpenTurn
  <2>0. reservation' = reservation /\ saved' = saved
    BY <1>2 DEF OpenTurn
  <2>1. CASE gen.input = None
    <3>1. Stays /\ gen' = [gen EXCEPT !.pc = "reserve", !.anchor = ParentOr(gen.parent)]
      BY <1>2, <2>1, OpenTurnDoes
    <3>2. /\ ParentOr(gen.parent) \in used
          /\ used \subseteq used'
      BY <3>1, <1>0 DEF ParentOr, GenShape, Stays
    <3>3. GenShape'
      <4>1. PICK a \in used' : gen' = [gen EXCEPT !.pc = "reserve", !.anchor = a]
        BY <3>1, <3>2
      <4> QED
        BY <4>1, <3>2, <1>0, AnchoredIsTyped
    <3> QED
      BY <2>0, <3>1, <3>3, <1>0, TypeKept DEF Stays
  <2>2. CASE gen.input # None
    <3>1. Moved /\ \E n \in Live(tree') : gen' = [gen EXCEPT !.pc = "reserve", !.anchor = n]
      BY <1>2, <2>2, OpenTurnDoes
    <3>2. used \subseteq used' /\ Live(tree') \subseteq used'
      BY <3>1 DEF Moved
    <3>3. PICK n \in used' : gen' = [gen EXCEPT !.pc = "reserve", !.anchor = n]
      BY <3>1, <3>2
    <3>4. GenShape'
      BY <3>2, <3>3, <1>0, AnchoredIsTyped
    <3> QED
      BY <2>0, <3>1, <3>2, <3>4, <1>0, TypeKept
  <2> QED
    BY <2>1, <2>2
<1>3. CASE ReserveBranch
  <2>1. /\ Stays /\ gen' = [gen EXCEPT !.pc = "begin"]
        /\ reservation' = gen.anchor /\ saved' = saved
    BY <1>3 DEF ReserveBranch, Reserve, Becomes, Stays
  <2>2. GenShape' /\ reservation' \in used' \cup {None}
    BY <2>1, <1>0 DEF GenShape, Stages, Stays
  <2> QED
    BY <2>1, <2>2, TypeKept
<1>4. CASE BeginContinuation
  <2>1. /\ Moved /\ used' = used /\ gen' = [gen EXCEPT !.pc = "render", !.target = gen.cont]
        /\ reservation' = reservation /\ saved' = saved
    BY <1>4, BeginContinuationDoes DEF BeginContinuation
  <2>2. GenShape' /\ reservation' \in used' \cup {None}
    BY <2>1, <1>0 DEF GenShape, Stages
  <2> QED
    BY <2>1, <2>2, TypeKept
<1>5. CASE \E n \in Ids : BeginAssistant(n)
  <2>1. PICK n \in Ids : BeginAssistant(n)
    BY <1>5
  <2>2. /\ Moved /\ n \in Live(tree') /\ gen' = [gen EXCEPT !.pc = "render", !.target = n]
        /\ reservation' = reservation /\ saved' = saved
    BY <2>1, BeginAssistantDoes DEF BeginAssistant
  <2>3. n \in used' /\ used \subseteq used'
    BY <2>2 DEF Moved
  <2>4. GenShape' /\ reservation' \in used' \cup {None}
    BY <2>2, <2>3, <1>0 DEF GenShape, Stages
  <2> QED
    BY <2>2, <2>4, TypeKept
<1>6. CASE Render
  <2>1. PICK P : gen' = [gen EXCEPT !.pc = "decode", !.prompt = P]
    BY <1>6 DEF Render, Becomes
  <2>2. /\ Stays /\ reservation' = reservation /\ saved' = saved
    BY <1>6 DEF Render, Stays
  <2>3. GenShape'
    BY <2>1, <2>2, <1>0 DEF GenShape, Stages, Stays
  <2> QED
    BY <2>2, <2>3, <1>0, TypeKept DEF Stays
<1>7. CASE Token
  <2>1. PICK w \in Words : gen' = [gen EXCEPT !.out = Append(gen.out, w)]
    <3> DEFINE i == Len(gen.out) + 1
    <3>1. PICK w \in IF i <= Len(gen.prefix) THEN {gen.prefix[i]} ELSE Words :
            gen' = [gen EXCEPT !.out = Append(@, w)]
      BY <1>7 DEF Token, Becomes
    <3>2. gen.prefix \in Seq(Words) /\ Len(gen.out) \in Nat
      BY <1>0 DEF GenShape
    <3>3. w \in Words
      BY <3>1, <3>2
    <3> QED
      BY <3>1, <3>3
  <2>2. /\ Stays /\ reservation' = reservation /\ saved' = saved
        /\ Len(gen.out) + 1 <= MaxText
    BY <1>7 DEF Token, WithinBudget, Stays
  <2>3. gen.out \in Seq(Words)
    BY <1>0 DEF GenShape
  <2> DEFINE o == Append(gen.out, w)
  <2>4. o \in Seq(Words) /\ Len(o) <= MaxText
    BY <2>2, <2>3
  <2>5. gen' = [gen EXCEPT !.out = o]
    BY <2>1
  <2> HIDE DEF o
  <2>6. GenShape'
    BY <2>2, <2>4, <2>5, <1>0 DEF GenShape, Stages, Stays
  <2> QED
    BY <2>2, <2>6, <1>0, TypeKept DEF Stays
<1>8. CASE Finalize
  <2>1. /\ Moved /\ used' = used /\ gen' = [gen EXCEPT !.pc = "release"]
        /\ reservation' = reservation /\ saved' = saved
    BY <1>8, FinalizeDoes DEF Finalize
  <2>2. GenShape'
    BY <2>1, <1>0 DEF GenShape, Stages
  <2> QED
    BY <2>1, <2>2, <1>0, TypeKept
<1>9. CASE Fail
  <2>1. /\ Stays /\ gen' = [gen EXCEPT !.pc = "release"]
        /\ reservation' = reservation /\ saved' = saved
    BY <1>9 DEF Fail, AbortNow, Abort, Stays
  <2>2. GenShape'
    BY <2>1, <1>0 DEF GenShape, Stages, Stays
  <2> QED
    BY <2>1, <2>2, <1>0, TypeKept DEF Stays
<1>10. CASE Release
  <2>1. /\ Stays /\ gen' = NoGen /\ reservation' = None /\ saved' = saved
    BY <1>10 DEF Release, Stays
  <2>2. GenShape'
    <3>1. <<>> \in Seq(Words) /\ Len(<<>>) = 0 /\ 0 <= MaxText
      BY EmptySeq, NodesAssumption
    <3> QED
      BY <2>1, <3>1 DEF GenShape, Stages, NoGen, Seats
  <2> QED
    BY <2>1, <2>2, TypeKept
<1> QED
  BY <1>1, <1>2, <1>3, <1>4, <1>5, <1>6, <1>7, <1>8, <1>9, <1>10 DEF Generation

\* A resolved call: c is the message it continues in place, or None; h is the
\* leaf of its history.
Resolved(input, p, seat, stage, h, c, q) ==
  /\ gen' = [NoGen EXCEPT !.pc = stage, !.input = input, !.parent = p, !.seat = seat,
                !.history = h, !.cont = c, !.prefix = q]
  /\ stage \in {"check", "open"}
  /\ Named => p # None
  /\ \/ c = None /\ h = ParentOr(p)
     \/ input = None /\ c = ParentOr(p) /\ Known(c) /\ h = tree.nodes[c].parent

LEMMA GenerateDoes ==
  ASSUME TreeInv, Generate
  PROVE  /\ Stays /\ reservation' = reservation /\ saved' = saved
         /\ \E input \in Seq(Words) \cup {None}, p \in used \cup {None}, seat \in Seats,
               stage \in Stages, h \in Ids \cup {None}, c \in used \cup {None}, q \in Seq(Words) :
                 Resolved(input, p, seat, stage, h, c, q)
<1>1. PICK input \in Inputs, p \in IF Named THEN used ELSE used \cup {None},
           seat \in GenSeats, append \in BOOLEAN : Resolve(input, p, seat, append)
  BY DEF Generate
<1>2. p \in used \cup {None} /\ (Named => p # None)
  BY TreeFacts
<1>3. client \in Clients
  BY DEF TreeInv, TypeOK
<1>4. seat \in Seats /\ input \in Seq(Words) \cup {None}
  BY <1>3, ClientsAssumption DEF ClientsAssumption, Inputs, GenSeats
<1>5. tree.active \in used /\ used \subseteq Ids
  BY TreeFacts, Parts
<1> DEFINE leaf == ParentOr(p)
           continues == append /\ input = None /\ tree.nodes[leaf].seat = seat
           stage == IF input # None /\ seat = "assistant" THEN "check" ELSE "open"
           h == IF continues THEN tree.nodes[leaf].parent ELSE leaf
           c == IF continues THEN leaf ELSE None
           q == IF continues THEN tree.nodes[leaf].text ELSE <<>>
<1>6. leaf \in used /\ leaf \in Ids
  BY <1>2, <1>5 DEF ParentOr
<1>7. Stays /\ reservation' = reservation /\ saved' = saved
  BY <1>1 DEF Resolve, Stays
<1>8. continues => input = None /\ Known(leaf)
  BY <1>1 DEF Resolve
<1>9. gen' = [NoGen EXCEPT !.pc = stage, !.input = input, !.parent = p, !.seat = seat,
                !.history = h, !.cont = c, !.prefix = q]
  BY <1>1 DEF Resolve, Becomes
<1>10. h \in Ids \cup {None} /\ c \in used \cup {None} /\ q \in Seq(Words)
  <2>1. CASE continues
    <3>1. tree.nodes[leaf] \in NodeRecords
      BY <1>8, <2>1, TreeFacts DEF Known
    <3> QED
      BY <2>1, <3>1, <1>6 DEF NodeRecords
  <2>2. CASE ~continues
    BY <2>2, <1>6, EmptySeq
  <2> QED
    BY <2>1, <2>2
<1>11. \/ c = None /\ h = leaf
       \/ input = None /\ c = leaf /\ Known(c) /\ h = tree.nodes[c].parent
  BY <1>8
<1>12. stage \in {"check", "open"} /\ stage \in Stages
  BY DEF Stages
<1> HIDE DEF stage, h, c, q, continues
<1>13. Resolved(input, p, seat, stage, h, c, q)
  BY <1>2, <1>9, <1>11, <1>12 DEF Resolved
<1> HIDE DEF leaf
<1>14. \E input_ \in Seq(Words) \cup {None}, p_ \in used \cup {None}, seat_ \in Seats,
          stage_ \in Stages, h_ \in Ids \cup {None}, c_ \in used \cup {None}, q_ \in Seq(Words) :
            Resolved(input_, p_, seat_, stage_, h_, c_, q_)
  <2>1. /\ input \in Seq(Words) \cup {None} /\ p \in used \cup {None} /\ seat \in Seats
        /\ stage \in Stages /\ h \in Ids \cup {None} /\ c \in used \cup {None} /\ q \in Seq(Words)
    BY <1>2, <1>4, <1>10, <1>12
  <2> USE <2>1
  <2> WITNESS input \in Seq(Words) \cup {None}, p \in used \cup {None}, seat \in Seats,
              stage \in Stages, h \in Ids \cup {None}, c \in used \cup {None}, q \in Seq(Words)
  <2> QED
    BY <1>13
<1> QED
  BY <1>7, <1>14

LEMMA GenerateKeepsTree ==
  ASSUME TreeInv, Generate, client' = client
  PROVE  TreeInv' /\ (Moved \/ Stays)
<1>1. /\ Stays /\ reservation' = reservation /\ saved' = saved
      /\ \E input \in Seq(Words) \cup {None}, p \in used \cup {None}, seat \in Seats,
            stage \in Stages, h \in Ids \cup {None}, c \in used \cup {None}, q \in Seq(Words) :
              Resolved(input, p, seat, stage, h, c, q)
  BY GenerateDoes
<1>2. PICK input \in Seq(Words) \cup {None}, p \in used \cup {None}, seat \in Seats,
           stage \in Stages, h \in Ids \cup {None}, c \in used \cup {None}, q \in Seq(Words) :
             Resolved(input, p, seat, stage, h, c, q)
  BY <1>1
<1>3. <<>> \in Seq(Words) /\ Len(<<>>) = 0 /\ 0 <= MaxText
  BY EmptySeq, NodesAssumption
<1>4. stage \in Stages
  BY <1>2 DEF Resolved, Stages
<1>5. GenShape'
  <2>1. used' = used /\ None \in used \cup {None}
    BY <1>1 DEF Stays
  <2>2. gen' = [pc |-> stage, input |-> input, parent |-> p, seat |-> seat,
                history |-> h, cont |-> c, prefix |-> q, anchor |-> None,
                target |-> None, prompt |-> NoPrompt, out |-> <<>>]
    BY <1>2 DEF NoGen, Resolved
  <2>3. gen'.prompt = NoPrompt /\ gen'.out = <<>>
    BY <2>2
  <2>4. gen' \in [pc : Stages, input : Seq(Words) \cup {None}, parent : used \cup {None},
                 seat : Seats, history : Ids \cup {None}, cont : used \cup {None},
                 prefix : Seq(Words), anchor : used \cup {None},
                 target : used \cup {None}, prompt : {NoPrompt}, out : Seq(Words)]
    BY <2>1, <2>2, <1>3, <1>4
  <2> QED
    BY <2>1, <2>3, <2>4, <1>3 DEF GenShape
<1>6. reservation' \in used' \cup {None}
  BY <1>1 DEF Stays, TreeInv, TypeOK
<1> QED
  BY <1>1, <1>5, <1>6, TypeKept

LEMMA StepKeepsTree ==
  ASSUME TreeInv, Next
  PROVE  TreeInv' /\ (Moved \/ Stays)
BY GenerateKeepsTree, GenerationKeepsTree, CallsKeepTree DEF Next

LEMMA InitIsTree ==
  ASSUME Init
  PROVE  TreeInv
<1>1. PICK id \in Ids : tree = FreshTree(id) /\ used = {id}
  BY DEF Init
<1>2. Sound(tree) /\ Live(tree) = {id}
  BY <1>1, FreshIsSound
<1>3. <<>> \in Seq(Words) /\ Len(<<>>) = 0 /\ 0 <= MaxText
  BY EmptySeq, NodesAssumption
<1>4. GenShape
  BY <1>3 DEF Init, GenShape, NoGen, Stages, Seats
<1> QED
  BY <1>1, <1>2, <1>4 DEF Init, TreeInv, TypeOK, TreeIsValid, Sound

\* The tree and the generation are well typed, and the tree, with every document
\* saved of it, is rooted, reachable, free of doubles and cycles, its pointer on a
\* live node, whatever the mutators do between the steps of a generation.
THEOREM TreeInvariant == Spec => []TreeInv
<1>1. Init => TreeInv
  BY InitIsTree
<1>2. TreeInv /\ [Next]_vars => TreeInv'
  <2>1. ASSUME TreeInv, Next  PROVE TreeInv'
    BY <2>1, StepKeepsTree
  <2>2. ASSUME TreeInv, UNCHANGED vars  PROVE TreeInv'
    BY <2>2 DEF vars, TreeInv, TypeOK, TreeIsValid, GenShape
  <2> QED
    BY <2>1, <2>2
<1> QED
  BY <1>1, <1>2, PTL DEF Spec

\* What the loader refuses, the session never stores: from_dict accepts every tree
\* that was saved.
THEOREM TreeStaysValid == Spec => []TreeIsValid
<1>1. TreeInv => TreeIsValid
  BY DEF TreeInv
<1> QED
  BY <1>1, TreeInvariant, PTL

\* A client that has seen a revision takes every later frame as a step forward,
\* over restores of older documents too.
THEOREM RevisionsOnlyGrow == Spec => RevisionsGrow
<1>1. TreeInv /\ [Next]_vars => [tree' # tree => tree'.rev > tree.rev]_vars
  <2>1. ASSUME TreeInv, Next  PROVE tree' # tree => tree'.rev > tree.rev
    BY <2>1, StepKeepsTree DEF Moved, Stays
  <2> QED
    BY <2>1
<1> QED
  BY <1>1, TreeInvariant, PTL DEF Spec, RevisionsGrow

---------------------------------------------------------------------------
(* A reply hangs under its prompt.                                         *)

\* A call of another thread that leaves the branch of the generation alone.
Spares ==
  /\ \A x \in Live(tree') \cap used :
       x \in Live(tree) /\ tree'.nodes[x].parent = tree.nodes[x].parent
  /\ gen.pc \in {"render", "decode"} =>
       /\ tree'.root = tree.root /\ gen.target \in Live(tree')
       /\ \A x \in Above(tree, reservation) :
            x \in Live(tree') /\ tree'.nodes[x].text = tree.nodes[x].text

\* The target is the reserved node or its child, and its history is above it.
LEMMA TargetIsUnder ==
  ASSUME TreeInv, BranchInv, gen.pc \in {"render", "decode"}
  PROVE  /\ reservation # None /\ reservation \in Live(tree) /\ gen.target \in Live(tree)
         /\ reservation \in Above(tree, gen.target)
         /\ Above(tree, gen.target) \subseteq {gen.target} \cup Above(tree, reservation)
         /\ Known(gen.history) => gen.history \in Above(tree, reservation)
<1>1. /\ Sound(tree) /\ None \notin Live(tree)
      /\ tree.nodes[tree.root].parent = None
  BY TreeFacts, Parts DEF TreeInv, TreeIsValid, ValidTree
<1>2. /\ gen.target \in Live(tree) /\ gen.anchor \in Live(tree) /\ reservation = gen.anchor
      /\ IF gen.cont # None
         THEN /\ gen.input = None /\ gen.target = gen.anchor
              /\ tree.nodes[gen.target].parent = gen.history
         ELSE /\ tree.nodes[gen.target].parent = gen.anchor
              /\ IF gen.input = None THEN gen.anchor = gen.history
                 ELSE tree.nodes[gen.anchor].parent = gen.history
  BY DEF BranchInv, Linked, BranchIsReserved, Known
<1>3. /\ reservation \in Above(tree, reservation)
      /\ {tree.nodes[reservation].parent} \ {None} \subseteq Above(tree, reservation)
  BY <1>1, <1>2, AboveDoes
<1>4. CASE gen.cont # None
  BY <1>1, <1>2, <1>3, <1>4 DEF Known
<1>5. CASE gen.cont = None
  <2>1. tree.nodes[gen.target].parent = reservation
    BY <1>2, <1>5
  <2>2. gen.target # tree.root
    BY <1>1, <1>2, <2>1
  <2>3. Above(tree, gen.target) = {gen.target} \cup Above(tree, reservation)
    BY <1>1, <1>2, <2>1, <2>2, AboveChild
  <2>4. Known(gen.history) => gen.history \in Above(tree, reservation)
    BY <1>1, <1>2, <1>3, <1>5 DEF Known
  <2> QED
    BY <1>1, <1>2, <1>3, <2>3, <2>4
<1> QED
  BY <1>4, <1>5

LEMMA BranchKept ==
  ASSUME TreeInv, BranchInv, Sound(tree'), Spares, gen' = gen, reservation' = reservation
  PROVE  BranchInv'
<1>1. /\ Sound(tree) /\ Live(tree) \subseteq used /\ None \notin Live(tree)
      /\ None \notin Live(tree') /\ GenShape
  BY TreeFacts, Parts DEF TreeInv, TypeOK
<1>2. \A x \in used \cup {None} : x \in Live(tree') =>
        x \in Live(tree) /\ tree'.nodes[x].parent = tree.nodes[x].parent
  BY <1>1 DEF Spares
<1>3. /\ gen.cont \in used \cup {None} /\ gen.anchor \in used \cup {None}
      /\ gen.target \in used \cup {None}
  BY <1>1 DEF GenShape
<1>4. ContinuesInPlace'
  BY <1>2, <1>3 DEF BranchInv, ContinuesInPlace, Known
<1>5. HangsWhereResolved'
  BY <1>2, <1>3 DEF BranchInv, HangsWhereResolved, Known
<1>6. BranchIsReserved'
  BY DEF BranchInv, BranchIsReserved
<1>7. CASE gen.pc \notin {"render", "decode"}
  BY <1>4, <1>5, <1>6, <1>7 DEF BranchInv, Linked, PromptedPast
<1>8. CASE gen.pc \in {"render", "decode"}
  <2>1. /\ reservation \in Live(tree)
        /\ Known(gen.history) => gen.history \in Above(tree, reservation)
    BY <1>8, TargetIsUnder
  <2>2. \A x \in Above(tree, reservation) :
          /\ x \in Live(tree) /\ x \in Live(tree')
          /\ tree'.nodes[x].text = tree.nodes[x].text
          /\ tree'.nodes[x].parent = tree.nodes[x].parent
    <3>1. \A x \in Above(tree, reservation) : x \in used
      BY <2>1, <1>1, AboveDoes
    <3> QED
      BY <3>1, <1>2, <1>8 DEF Spares
  <2>3. reservation \in Live(tree') /\ reservation = gen.anchor
    BY <2>1, <2>2, <1>1, <1>8, AboveDoes DEF BranchInv, BranchIsReserved
  <2>4. gen.target \in Live(tree')
    BY <1>8 DEF Spares
  <2>5. Linked'
    BY <2>3, <2>4, <1>2, <1>3, <1>8 DEF BranchInv, Linked, Known
  <2>6. PromptedPast'
    <3>1. CASE gen.pc = "decode"
      <4>1. gen.history \in Live(tree) /\ gen.history \in Above(tree, reservation)
        BY <3>1, <2>1 DEF BranchInv, PromptedPast, Known
      <4>2. Above(tree, gen.history) \subseteq Above(tree, reservation)
        BY <4>1, <2>1, <1>1, Upward
      <4>3. tree'.root = tree.root
        BY <1>8 DEF Spares
      <4>4. gen.history \in Live(tree') /\ Past(tree', gen.history) = Past(tree, gen.history)
        BY <4>1, <4>2, <4>3, <2>2, <1>1, PastKept
      <4> QED
        BY <4>4, <3>1 DEF BranchInv, PromptedPast, Known
    <3>2. CASE gen.pc # "decode"
      BY <3>2 DEF PromptedPast
    <3> QED
      BY <3>1, <3>2
  <2> QED
    BY <1>4, <1>5, <1>6, <2>5, <2>6 DEF BranchInv
<1> QED
  BY <1>7, <1>8

\* What is above the reserved node is live.
LEMMA BranchIsLive ==
  ASSUME TreeInv, BranchInv, gen.pc \in {"render", "decode"}
  PROVE  Above(tree, reservation) \subseteq Live(tree)
<1>1. Sound(tree) /\ reservation \in Live(tree)
  BY TargetIsUnder, TreeFacts
<1> QED
  BY <1>1, AboveDoes

LEMMA GrowthSpares ==
  ASSUME TreeInv, BranchInv, Grown
  PROVE  Spares
<1>1. gen.pc \in {"render", "decode"} =>
        Above(tree, reservation) \subseteq Live(tree) /\ gen.target \in Live(tree)
  BY BranchIsLive, TargetIsUnder
<1> QED
  BY <1>1 DEF Spares, Grown

\* Neither call touches the branch: the node is not above the reserved one, and
\* the reserved one not above it.
LEMMA RewritingSpares ==
  ASSUME TreeInv, BranchInv, NEW n, Rewritten(n)
  PROVE  Spares
<1>1. \A x \in Live(tree') \cap used :
        x \in Live(tree) /\ tree'.nodes[x].parent = tree.nodes[x].parent
  BY DEF Rewritten
<1>2. ASSUME gen.pc \in {"render", "decode"}
      PROVE  /\ gen.target \in Live(tree')
             /\ \A x \in Above(tree, reservation) :
                  x \in Live(tree') /\ tree'.nodes[x].text = tree.nodes[x].text
  <2>1. /\ reservation # None /\ reservation \in Live(tree) /\ gen.target \in Live(tree)
        /\ Above(tree, reservation) \subseteq Live(tree)
    BY <1>2, TargetIsUnder, BranchIsLive
  <2>2. n \notin Above(tree, reservation)
    BY <2>1 DEF Rewritten, Reserved, Known
  <2> QED
    BY <2>1, <2>2 DEF Rewritten
<1> QED
  BY <1>1, <1>2 DEF Spares, Rewritten

LEMMA RemovalSpares ==
  ASSUME TreeInv, BranchInv, NEW n, Removed(n)
  PROVE  Spares
<1>0. Sound(tree)
  BY TreeFacts
<1>1. \A x \in Live(tree') \cap used :
        x \in Live(tree) /\ tree'.nodes[x].parent = tree.nodes[x].parent
  BY DEF Removed
<1>2. ASSUME gen.pc \in {"render", "decode"}
      PROVE  /\ gen.target \in Live(tree')
             /\ \A x \in Above(tree, reservation) :
                  x \in Live(tree') /\ tree'.nodes[x].text = tree.nodes[x].text
  <2>1. /\ reservation # None /\ reservation \in Live(tree) /\ gen.target \in Live(tree)
        /\ reservation \in Above(tree, gen.target)
        /\ Above(tree, gen.target) \subseteq {gen.target} \cup Above(tree, reservation)
        /\ Above(tree, reservation) \subseteq Live(tree)
    BY <1>2, TargetIsUnder, BranchIsLive
  <2>2. n \notin Above(tree, reservation) /\ reservation \notin Above(tree, n) /\ n \in Live(tree)
    BY <2>1 DEF Removed, Reserved, Known
  <2>3. ASSUME NEW x \in Above(tree, reservation)  PROVE x \notin Below(tree, n)
    <3>1. ASSUME x \in Below(tree, n)  PROVE FALSE
      <4>1. n \in Above(tree, x)
        BY <3>1, <2>2, <1>0, BelowIsUnder
      <4>2. Above(tree, x) \subseteq Above(tree, reservation)
        BY <2>1, <1>0, Upward
      <4> QED
        BY <4>1, <4>2, <2>2
    <3> QED
      BY <3>1
  <2>4. gen.target \notin Below(tree, n)
    <3>1. ASSUME gen.target \in Below(tree, n)  PROVE FALSE
      <4>1. n \in Above(tree, gen.target)
        BY <3>1, <2>2, <1>0, BelowIsUnder
      <4>2. n = gen.target
        BY <4>1, <2>1, <2>2
      <4> QED
        BY <4>2, <2>1, <2>2
    <3> QED
      BY <3>1
  <2> QED
    BY <2>1, <2>3, <2>4 DEF Removed
<1> QED
  BY <1>1, <1>2 DEF Spares, Removed

LEMMA ResetSpares ==
  ASSUME TreeInv, BranchInv, reservation = None, Live(tree') \cap used = {}
  PROVE  Spares
<1>1. gen.pc \notin {"render", "decode"}
  BY TargetIsUnder
<1> QED
  BY <1>1 DEF Spares

LEMMA CallsKeepBranch ==
  ASSUME TreeInv, BranchInv, TreeCalls
  PROVE  BranchInv'
<1>1. ASSUME Moved, Spares, Elsewhere  PROVE BranchInv'
  BY <1>1, BranchKept DEF Moved, Elsewhere
<1>2. CASE \E n \in Ids, w \in Words : AppendAuthored(n, w) \/ AppendUserTurn(n, w)
  BY <1>1, <1>2, AppendAuthoredDoes, AppendUserTurnDoes, GrowthSpares, RewritingSpares
<1>3. CASE \E p, n \in Ids, w \in Words : AppendAssistantTurn(p, w, n)
  BY <1>1, <1>3, AppendAssistantTurnDoes, GrowthSpares
<1>4. CASE \E n \in Ids, t \in Texts : Edit(n, t)
  BY <1>1, <1>4, EditDoes, RewritingSpares
<1>5. CASE \E s, n \in Ids, seat \in Seats, t \in Texts, moves \in BOOLEAN :
             Branch(s, seat, t, n, moves)
  BY <1>1, <1>5, BranchDoes, GrowthSpares
<1>6. CASE \E p, n, m \in Ids, t, u \in Texts : Graft(p, t, u, n, m)
  BY <1>1, <1>6, GraftDoes, GrowthSpares
<1>7. CASE \E n \in Ids : Navigate(n) \/ DeleteSubtree(n) \/ Decorate(n) \/ Reset(n)
  <2>1. PICK n \in Ids : Navigate(n) \/ DeleteSubtree(n) \/ Decorate(n) \/ Reset(n)
    BY <1>7
  <2>2. CASE Navigate(n) \/ Decorate(n)
    BY <1>1, <2>2, NavigateDoes, GrowthSpares
  <2>3. CASE DeleteSubtree(n)
    BY <1>1, <2>3, DeleteSubtreeDoes, RemovalSpares
  <2>4. CASE Reset(n)
    BY <1>1, <2>4, ResetDoes, ResetSpares
  <2> QED
    BY <2>1, <2>2, <2>3, <2>4
<1>8. CASE Save
  BY <1>8 DEF Save, BranchInv, ContinuesInPlace, HangsWhereResolved, Linked,
              BranchIsReserved, PromptedPast, Known
<1>9. CASE Restore
  <2>1. gen.pc = "idle" /\ gen' = gen
    BY <1>9, RestoreDoes DEF At
  <2> QED
    BY <2>1 DEF BranchInv, ContinuesInPlace, HangsWhereResolved, Linked,
                BranchIsReserved, PromptedPast
<1> QED
  BY <1>2, <1>3, <1>4, <1>5, <1>6, <1>7, <1>8, <1>9 DEF TreeCalls

LEMMA GenerationKeepsBranch ==
  ASSUME Named, TreeInv, BranchInv, Generation
  PROVE  BranchInv'
<1>0. GenShape /\ None \notin Live(tree)
  BY TreeFacts, Parts DEF TreeInv, TypeOK
<1>1. CASE CheckTarget
  <2>1. /\ tree' = tree /\ gen' = [gen EXCEPT !.pc = "open"] /\ gen.pc = "check"
    BY <1>1 DEF CheckTarget, Becomes, At
  <2>2. /\ gen'.pc = "open" /\ gen'.cont = gen.cont /\ gen'.input = gen.input
        /\ gen'.parent = gen.parent /\ gen'.history = gen.history
    BY <2>1, <1>0 DEF GenShape
  <2> QED
    BY <2>1, <2>2 DEF BranchInv, ContinuesInPlace, HangsWhereResolved, Linked,
                      BranchIsReserved, PromptedPast, Known
<1>2. CASE OpenTurn
  <2>1. gen.pc = "open"
    BY <1>2 DEF OpenTurn, At
  <2>2. /\ gen.parent # None
        /\ gen.cont # None =>
             /\ gen.input = None /\ gen.parent = gen.cont
             /\ Known(gen.cont) => tree.nodes[gen.cont].parent = gen.history
        /\ gen.cont = None => gen.history = gen.parent
    BY <2>1, <1>0 DEF BranchInv, ContinuesInPlace, HangsWhereResolved
  <2>3. ParentOr(gen.parent) = gen.parent
    BY <2>2 DEF ParentOr
  <2>4. CASE gen.input = None
    <3>1. tree' = tree /\ gen' = [gen EXCEPT !.pc = "reserve", !.anchor = gen.parent]
      BY <1>2, <2>3, <2>4, OpenTurnDoes DEF Stays
    <3>2. /\ gen'.pc = "reserve" /\ gen'.anchor = gen.parent /\ gen'.cont = gen.cont
          /\ gen'.input = None /\ gen'.parent = gen.parent /\ gen'.history = gen.history
      BY <3>1, <2>4, <1>0 DEF GenShape
    <3>3. ContinuesInPlace'
      BY <3>1, <3>2, <2>2 DEF ContinuesInPlace, Known
    <3>4. HangsWhereResolved'
      BY <3>1, <3>2, <2>2 DEF HangsWhereResolved
    <3> QED
      BY <3>2, <3>3, <3>4 DEF BranchInv, Linked, BranchIsReserved, PromptedPast
  <2>5. CASE gen.input # None
    <3>1. PICK n \in Live(tree') :
            /\ tree'.nodes[n].parent = gen.parent
            /\ gen' = [gen EXCEPT !.pc = "reserve", !.anchor = n]
      BY <1>2, <2>3, <2>5, OpenTurnDoes
    <3>2. /\ gen'.pc = "reserve" /\ gen'.anchor = n /\ gen'.cont = gen.cont
          /\ gen'.input = gen.input /\ gen'.parent = gen.parent /\ gen'.history = gen.history
      BY <3>1, <1>0 DEF GenShape
    <3>3. ContinuesInPlace'
      BY <3>2, <2>2, <2>5 DEF ContinuesInPlace
    <3>4. HangsWhereResolved'
      BY <3>1, <3>2, <2>2, <2>5 DEF HangsWhereResolved
    <3> QED
      BY <3>2, <3>3, <3>4 DEF BranchInv, Linked, BranchIsReserved, PromptedPast
  <2> QED
    BY <2>4, <2>5
<1>3. CASE ReserveBranch
  <2>1. /\ tree' = tree /\ gen' = [gen EXCEPT !.pc = "begin"] /\ gen.pc = "reserve"
        /\ reservation' = gen.anchor
    BY <1>3 DEF ReserveBranch, Reserve, Becomes, At
  <2>2. /\ gen'.pc = "begin" /\ gen'.cont = gen.cont /\ gen'.input = gen.input
        /\ gen'.parent = gen.parent /\ gen'.history = gen.history /\ gen'.anchor = gen.anchor
    BY <2>1, <1>0 DEF GenShape
  <2> QED
    BY <2>1, <2>2 DEF BranchInv, ContinuesInPlace, HangsWhereResolved, Linked,
                      BranchIsReserved, PromptedPast, Known
<1>4. CASE BeginContinuation
  <2>1. /\ gen.cont # None /\ gen.cont \in Live(tree) /\ gen.pc = "begin"
        /\ Live(tree') = Live(tree)
        /\ tree'.nodes[gen.cont].parent = tree.nodes[gen.cont].parent
        /\ gen' = [gen EXCEPT !.pc = "render", !.target = gen.cont]
        /\ reservation' = reservation
    BY <1>4, BeginContinuationDoes DEF BeginContinuation, At, Known
  <2>2. /\ gen.input = None /\ gen.anchor = gen.cont /\ reservation = gen.anchor
        /\ tree.nodes[gen.cont].parent = gen.history
    BY <2>1 DEF BranchInv, ContinuesInPlace, BranchIsReserved, Known
  <2>3. /\ gen'.pc = "render" /\ gen'.cont = gen.cont /\ gen'.input = gen.input
        /\ gen'.target = gen.cont /\ gen'.history = gen.history /\ gen'.anchor = gen.anchor
    BY <2>1, <1>0 DEF GenShape
  <2> QED
    BY <2>1, <2>2, <2>3 DEF BranchInv, ContinuesInPlace, HangsWhereResolved, Linked,
                            BranchIsReserved, PromptedPast, Known
<1>5. CASE \E n \in Ids : BeginAssistant(n)
  <2>1. PICK n \in Ids : BeginAssistant(n)
    BY <1>5
  <2>2. /\ Grown /\ gen.cont = None /\ gen.anchor \in Live(tree) /\ gen.pc = "begin"
        /\ n \in Live(tree') /\ tree'.nodes[n].parent = gen.anchor
        /\ gen' = [gen EXCEPT !.pc = "render", !.target = n]
        /\ reservation' = reservation
    BY <2>1, BeginAssistantDoes DEF BeginAssistant, At, Known
  <2>3. /\ gen.anchor \in Live(tree') /\ tree'.nodes[gen.anchor] = tree.nodes[gen.anchor]
    BY <2>2 DEF Grown
  <2>4. /\ IF gen.input = None THEN gen.anchor = gen.history
           ELSE tree.nodes[gen.anchor].parent = gen.history
        /\ reservation = gen.anchor
    BY <2>2 DEF BranchInv, HangsWhereResolved, BranchIsReserved, Known
  <2>5. /\ gen'.pc = "render" /\ gen'.cont = gen.cont /\ gen'.input = gen.input
        /\ gen'.target = n /\ gen'.history = gen.history /\ gen'.anchor = gen.anchor
    BY <2>2, <1>0 DEF GenShape
  <2> QED
    BY <2>2, <2>3, <2>4, <2>5 DEF BranchInv, ContinuesInPlace, HangsWhereResolved, Linked,
                                  BranchIsReserved, PromptedPast, Known
<1>6. CASE Render
  <2>1. /\ tree' = tree /\ gen.pc = "render" /\ Known(gen.history) /\ reservation' = reservation
        /\ gen' = [gen EXCEPT !.pc = "decode",
             !.prompt = [past |-> Past(tree, gen.history), turn |-> gen.input]]
    BY <1>6 DEF Render, Becomes, At
  <2>2. /\ gen'.pc = "decode" /\ gen'.cont = gen.cont /\ gen'.input = gen.input
        /\ gen'.target = gen.target /\ gen'.history = gen.history /\ gen'.anchor = gen.anchor
        /\ gen'.prompt.past = Past(tree, gen.history)
    BY <2>1, <1>0 DEF GenShape
  <2> QED
    BY <2>1, <2>2 DEF BranchInv, ContinuesInPlace, HangsWhereResolved, Linked,
                      BranchIsReserved, PromptedPast, Known
<1>7. CASE Token
  <2>1. PICK w : gen' = [gen EXCEPT !.out = Append(gen.out, w)]
    BY <1>7 DEF Token, Becomes
  <2>2. /\ tree' = tree /\ gen.pc = "decode" /\ reservation' = reservation
    BY <1>7 DEF Token, At
  <2>3. /\ gen'.pc = "decode" /\ gen'.cont = gen.cont /\ gen'.input = gen.input
        /\ gen'.target = gen.target /\ gen'.history = gen.history /\ gen'.anchor = gen.anchor
        /\ gen'.prompt = gen.prompt
    BY <2>1, <2>2, <1>0 DEF GenShape
  <2> QED
    BY <2>2, <2>3 DEF BranchInv, ContinuesInPlace, HangsWhereResolved, Linked,
                      BranchIsReserved, PromptedPast, Known
<1>8. CASE Finalize \/ Fail
  <2>1. gen' = [gen EXCEPT !.pc = "release"]
    BY <1>8 DEF Finalize, Becomes, Fail, AbortNow, Abort
  <2>2. gen'.pc = "release"
    BY <2>1, <1>0 DEF GenShape
  <2> QED
    BY <2>2 DEF BranchInv, ContinuesInPlace, HangsWhereResolved, Linked,
                BranchIsReserved, PromptedPast
<1>9. CASE Release
  <2>1. gen'.pc = "idle"
    BY <1>9 DEF Release, NoGen
  <2> QED
    BY <2>1 DEF BranchInv, ContinuesInPlace, HangsWhereResolved, Linked,
                BranchIsReserved, PromptedPast
<1> QED
  BY <1>1, <1>2, <1>3, <1>4, <1>5, <1>6, <1>7, <1>8, <1>9 DEF Generation

LEMMA GenerateKeepsBranch ==
  ASSUME Named, TreeInv, Generate
  PROVE  BranchInv'
<1>1. PICK input \in Seq(Words) \cup {None}, p \in used \cup {None}, seat \in Seats,
           stage \in Stages, h \in Ids \cup {None}, c \in used \cup {None}, q \in Seq(Words) :
             Resolved(input, p, seat, stage, h, c, q)
  BY GenerateDoes
<1>2. tree' = tree /\ None \notin Live(tree)
  BY GenerateDoes, TreeFacts, Parts DEF Stays
<1>3. /\ gen'.pc \in {"check", "open"} /\ gen'.input = input /\ gen'.parent = p
      /\ gen'.history = h /\ gen'.cont = c
  BY <1>1 DEF Resolved, NoGen
<1>4. p # None /\ ParentOr(p) = p
  BY <1>1 DEF Resolved, ParentOr
<1>5. \/ c = None /\ h = p
      \/ input = None /\ c = p /\ c \in Live(tree) /\ h = tree.nodes[c].parent
  BY <1>1, <1>4 DEF Resolved, Known
<1> QED
  BY <1>2, <1>3, <1>4, <1>5
     DEF BranchInv, ContinuesInPlace, HangsWhereResolved, Linked, BranchIsReserved,
         PromptedPast, Known

\* Where calls name the node they answer to, a reply stays linked to the history
\* it was resolved against, and its branch reserved.
THEOREM BranchInvariant == Named => (Spec => []BranchInv)
<1> SUFFICES ASSUME Named  PROVE Spec => []BranchInv
  OBVIOUS
<1>1. Init => BranchInv
  BY DEF Init, NoGen, BranchInv, ContinuesInPlace, HangsWhereResolved, Linked,
         BranchIsReserved, PromptedPast
<1>2. TreeInv /\ BranchInv /\ [Next]_vars => BranchInv'
  <2>1. ASSUME TreeInv, BranchInv, Next  PROVE BranchInv'
    BY <2>1, GenerateKeepsBranch, GenerationKeepsBranch, CallsKeepBranch DEF Next
  <2>2. ASSUME BranchInv, UNCHANGED vars  PROVE BranchInv'
    BY <2>2 DEF vars, BranchInv, ContinuesInPlace, HangsWhereResolved, Linked,
                BranchIsReserved, PromptedPast, Known
  <2> QED
    BY <2>1, <2>2
<1> QED
  BY <1>1, <1>2, TreeInvariant, PTL DEF Spec

\* The past the model was shown is the branch its reply hangs under, for as long as
\* it decodes, and that branch is the reserved one: between the steps of generate
\* no call of another thread can move, edit or delete a turn of it.
THEOREM RepliesHangUnderTheirPrompts == Named => (Spec => []ReplyHangsUnderItsPrompt)
<1>1. ASSUME TreeInv, BranchInv  PROVE ReplyHangsUnderItsPrompt
  <2>1. ASSUME gen.pc = "decode"
        PROVE  /\ Known(gen.target) /\ gen.prompt.past = PastOf(gen.target)
               /\ reservation \in Above(tree, gen.target)
    <3>1. Known(gen.target) /\ reservation \in Above(tree, gen.target)
      BY <1>1, <2>1, TargetIsUnder DEF Known
    <3>2. gen.prompt.past = Past(tree, gen.history)
      BY <1>1, <2>1 DEF BranchInv, PromptedPast
    <3>3. PastOf(gen.target) = Past(tree, gen.history)
      <4>1. IF gen.cont # None
            THEN gen.input = None /\ tree.nodes[gen.target].parent = gen.history
            ELSE /\ tree.nodes[gen.target].parent = gen.anchor
                 /\ IF gen.input = None THEN gen.anchor = gen.history
                    ELSE tree.nodes[gen.anchor].parent = gen.history
        BY <1>1, <2>1 DEF BranchInv, Linked
      <4> QED
        BY <4>1 DEF PastOf
    <3> QED
      BY <3>1, <3>2, <3>3
  <2> QED
    BY <2>1 DEF ReplyHangsUnderItsPrompt, PromptIsTheBranch, TargetIsReserved, At
<1> QED
  BY <1>1, TreeInvariant, BranchInvariant, PTL
===============================================================================
