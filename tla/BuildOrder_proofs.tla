--------------------------- MODULE BuildOrder_proofs ---------------------------
(***************************************************************************)
(* Proofs about BuildOrder, for every queue and every graph: Tarjan's      *)
(* loop closes the classes of mutual dependency in reverse order, a queue  *)
(* is refused exactly if a class that is a cycle has no seed, and Kahn's   *)
(* loop emits every component after those it waits for.                    *)
(***************************************************************************)
EXTENDS BuildOrder, FiniteSetTheorems, SequenceTheorems, WellFoundedInduction, TLAPS

Ranks == -1..(Cardinality(Q) - 1)
Calls == [node : Q, succ : SUBSET Q]

Visited == Q \ Unvisited
Open    == ToSet(stack)
Closed  == UNION ToSet(sccs)

-----------------------------------------------------------------------------
(* The inductive invariant: Tarjan's loop.                                 *)

\* The data have their types.
Types ==
  /\ phase \in {"sorter", "tarjan", "kahn", "done", "error"}
  /\ adj \in [Q -> SUBSET Q]
  /\ work \in Seq(Calls) /\ stack \in Seq(Q) /\ sccs \in Seq(SUBSET Q)
  /\ index \in [Q -> Ranks] /\ low \in [Q -> Ranks]
  /\ seeds \subseteq Q

\* The packages are numbered as they are met, and no number is given twice.
Numbering ==
  /\ \A n \in Visited : index[n] < Cardinality(Visited)
  /\ \A m, n \in Visited : index[m] = index[n] => m = n

\* What has been met is open or closed, and never both; the stack is in the order
\* in which its packages were met.
Partition ==
  /\ Visited = Open \cup Closed
  /\ Open \cap Closed = {}
  /\ \A i, j \in DOMAIN stack : i < j => index[stack[i]] < index[stack[j]]

\* The open calls are of open packages, in the order in which these were met, and
\* the first of them is the oldest.
CallsOpen ==
  /\ \A p \in DOMAIN work : work[p].node \in Open /\ work[p].succ \subseteq adj[work[p].node]
  /\ \A p, q \in DOMAIN work : p < q => index[work[p].node] < index[work[q].node]
  /\ \A x \in Open : work # <<>> /\ index[work[1].node] <= index[x]

\* x was met before every call above the p-th.
Below(x, p) == \A q \in DOMAIN work : p < q => index[x] < index[work[q].node]

\* A call reaches whatever was met after it, and is reached by all that is open, as
\* far as that was met before the next call.
CallsReach ==
  \A p \in DOMAIN work : \A x \in Open :
    /\ index[work[p].node] <= index[x] => Reaches(work[p].node, x)
    /\ Below(x, p) => Reaches(x, work[p].node)

\* The link of a call is the number of an open package it reaches.
LinksReach ==
  \A p \in DOMAIN work :
    /\ low[work[p].node] <= index[work[p].node]
    /\ \E y \in Open : index[y] = low[work[p].node] /\ Reaches(work[p].node, y)

\* The edges that have been looked at, of the packages met in the p-th call and
\* before the next: where they lead has been met, and if it is open the call's link
\* tells.
EdgesSeen ==
  \A p \in DOMAIN work : \A x \in Open :
    index[work[p].node] <= index[x] /\ Below(x, p) =>
      \A y \in adj[x] \ (IF x = work[p].node THEN work[p].succ ELSE {}) :
        /\ y \in Visited
        /\ y \in Open => low[work[p].node] <= index[y]

\* The closed components are classes of mutual dependency, disjoint, and an edge
\* from one of them leads to it or to an earlier one.
Components ==
  /\ \A i \in DOMAIN sccs : sccs[i] # {} /\ \A m, n \in sccs[i] : Reaches(m, n)
  /\ \A i, j \in DOMAIN sccs : \A n \in sccs[i] \cap sccs[j] : i = j
  /\ \A i \in DOMAIN sccs : \A m \in sccs[i] : \A n \in adj[m] :
       \E j \in 1..i : n \in sccs[j]

TarjanInv == /\ Numbering /\ Partition /\ CallsOpen /\ CallsReach /\ LinksReach
             /\ EdgesSeen /\ Components

-----------------------------------------------------------------------------
(* The inductive invariant: the phases and Kahn's loop.                    *)

\* A component with a cycle and no seed.
Refused == \E i \in DOMAIN sccs : IsCycle(sccs[i]) /\ ~Seeded(sccs[i], seeds)

\* Kahn's loop has run, or is running.
Ordering == phase = "kahn" \/ (phase = "done" /\ sccs # <<>>)

\* Before Kahn's loop nothing is ordered, and before Tarjan's nothing is closed;
\* after Tarjan's every component is.
Phases ==
  /\ phase \in {"sorter", "tarjan"} =>
       waits = <<>> /\ frontier = {} /\ order = <<>> /\ second = <<>>
  /\ phase = "sorter" => sccs = <<>> /\ work = <<>>
  /\ phase = "error" \/ Ordering =>
       /\ work = <<>> /\ Unvisited = {}
       /\ phase = "error" <=> Refused
  /\ phase = "error" => waits = <<>> /\ frontier = {} /\ order = <<>> /\ second = <<>>

\* The components emitted so far.
Emitted == {i \in DOMAIN sccs : sccs[i] \cap ToSet(order) # {}}

\* The data of Kahn's loop have their types.
KahnTypes ==
  /\ \A i \in DOMAIN waits : waits[i] \in Nat
  /\ frontier \subseteq DOMAIN sccs
  /\ ToSet(order) \subseteq Q /\ ToSet(second) \subseteq Q

\* What the counters and the frontier say of the components not emitted, and whose
\* needs are emitted.
Counting ==
  Ordering =>
    /\ waits \in [DOMAIN sccs -> Nat]
    /\ \A i \in DOMAIN sccs : waits[i] = Cardinality(Before(i) \ Emitted)
    /\ frontier = {i \in DOMAIN sccs \ Emitted : Before(i) \subseteq Emitted}
    /\ \A i \in Emitted : Before(i) \subseteq Emitted

\* Whole components have been emitted, no package twice, and none before what its
\* component waited for.
Emission ==
  Ordering =>
    /\ order \in Seq(Q)
    /\ ToSet(order) = UNION {sccs[i] : i \in Emitted}
    /\ \A a, b \in DOMAIN order : order[a] = order[b] => a = b
    /\ \A i \in Emitted : \A j \in Before(i) : \A a, b \in DOMAIN order :
         order[a] \in sccs[j] /\ order[b] \in sccs[i] => a < b

\* The second pass repeats the members of cycles, in the order of the first.
SecondPass ==
  Ordering =>
    /\ second \in Seq(Q)
    /\ ToSet(second) = UNION {sccs[i] : i \in {e \in Emitted : IsCycle(sccs[e])}}
    /\ \A a, b \in DOMAIN second : \A c, d \in DOMAIN order :
         a < b /\ order[c] = second[a] /\ order[d] = second[b] => c < d

\* When the order is final it is one of the whole queue.
Final == phase = "done" => ToSet(order) = Q /\ Len(order) = Cardinality(Q)

KahnInv == Phases /\ KahnTypes /\ Counting /\ Emission /\ SecondPass /\ Final

IInv == Types /\ TarjanInv /\ KahnInv

-----------------------------------------------------------------------------
(* Least elements, and counting.                                           *)

\* A set of natural numbers that is not empty has a least element.
LEMMA Least ==
  ASSUME NEW T, T \subseteq Nat, T # {}
  PROVE  \E m \in T : \A k \in T : m <= k
<1> DEFINE R == OpToRel(<, Nat)
<1>1. \A x, y \in Nat : x < y => <<x, y>> \in R
  BY Zenon DEF OpToRel
<1>2. IsWellFoundedOn(R, Nat)
  BY NatLessThanWellFounded
<1> HIDE DEF R
<1>3. PICK x \in T : \A y \in T : ~(<<y, x>> \in R)
  BY <1>2, WFMin
<1>4. ASSUME NEW y \in T PROVE x <= y
  <2>1. x \in Nat /\ y \in Nat
    OBVIOUS
  <2>2. ~(y < x)
    BY <1>1, <1>3, <2>1, Zenon
  <2> QED BY <2>1, <2>2
<1> QED BY <1>4

\* Min of FiniteSetsExt is that element.
LEMMA MinLeast ==
  ASSUME NEW T, T \subseteq Nat, T # {}
  PROVE  Min(T) \in T /\ \A k \in T : Min(T) <= k
  BY Least DEF Min

\* The smaller of two numbers.
LEMMA MinOfTwo ==
  ASSUME NEW a \in Int, NEW b \in Int
  PROVE  /\ Min({a, b}) \in {a, b}
         /\ Min({a, b}) <= a /\ Min({a, b}) <= b
<1>1. \E x \in {a, b} : \A y \in {a, b} : x <= y
  OBVIOUS
<1> QED BY <1>1 DEF Min

\* A set of numbers with an upper bound has a greatest element, and that is Max.
LEMMA Greatest ==
  ASSUME NEW T, T \subseteq Nat, T # {}, NEW bound \in Nat, \A k \in T : k <= bound
  PROVE  /\ \E m \in T : \A k \in T : k <= m
         /\ Max(T) \in T /\ \A k \in T : k <= Max(T)
<1> DEFINE D == {d \in 0..bound : bound - d \in T}
<1>1. PICK k \in T : TRUE
  OBVIOUS
<1>2. bound - k \in D
  OBVIOUS
<1>3. PICK d \in D : \A e \in D : d <= e
  <2>1. D # {}
    BY <1>2
  <2>2. D \subseteq Nat
    OBVIOUS
  <2> HIDE DEF D
  <2> QED BY <2>1, <2>2, Least
<1>4. bound - d \in T
  OBVIOUS
<1>5. ASSUME NEW j \in T PROVE j <= bound - d
  <2>1. bound - j \in D
    OBVIOUS
  <2>2. d <= bound - j
    BY <1>3, <2>1
  <2> QED BY <2>2
<1>6. \E m \in T : \A j \in T : j <= m
  BY <1>4, <1>5
<1>7. \E m \in T : \A j \in T : m >= j
  <2>1. PICK m \in T : \A j \in T : j <= m
    BY <1>6
  <2>2. \A j \in T : m >= j
    BY <2>1
  <2> QED BY <2>2
<1>8. Max(T) \in T /\ \A j \in T : Max(T) >= j
  BY <1>7 DEF Max
<1>9. \A j \in T : j <= Max(T)
  BY <1>8
<1> QED BY <1>6, <1>8, <1>9

\* The packages are finitely many numbers.
LEMMA Finite ==
  /\ Q \subseteq Nat /\ Cardinality(Q) \in Nat
  /\ \A T \in SUBSET Q : IsFiniteSet(T) /\ Cardinality(T) \in 0..Cardinality(Q)
  /\ \A T \in SUBSET Q : \A n \in Q \ T : Cardinality(T \cup {n}) = Cardinality(T) + 1
                                          /\ Cardinality(T) < Cardinality(Q)
<1>1. Q \subseteq Nat /\ Cardinality(Q) \in Nat
  BY QAssumption, FS_CardinalityType
<1>2. ASSUME NEW T \in SUBSET Q
      PROVE  IsFiniteSet(T) /\ Cardinality(T) \in 0..Cardinality(Q)
  <2>1. IsFiniteSet(T) /\ Cardinality(T) <= Cardinality(Q)
    BY QAssumption, FS_Subset
  <2> QED BY <1>1, <2>1, FS_CardinalityType
<1>3. ASSUME NEW T \in SUBSET Q, NEW n \in Q \ T
      PROVE  Cardinality(T \cup {n}) = Cardinality(T) + 1 /\ Cardinality(T) < Cardinality(Q)
  <2>1. Cardinality(T \cup {n}) = Cardinality(T) + 1
    BY <1>2, FS_AddElement
  <2>2. T \cup {n} \in SUBSET Q
    OBVIOUS
  <2> QED BY <1>1, <1>2, <2>1, <2>2
<1> QED BY <1>1, <1>2, <1>3

-----------------------------------------------------------------------------
(* Reachability.                                                           *)

LEMMA ReachesSelf == ASSUME NEW n PROVE Reaches(n, n)
  BY DEF Reaches

LEMMA ReachesEdge ==
  ASSUME NEW m, NEW n \in adj[m] PROVE Reaches(m, n)
  BY DEF Reaches

LEMMA ReachesTrans ==
  ASSUME NEW k, NEW m, NEW n, Reaches(k, m), Reaches(m, n) PROVE Reaches(k, n)
  BY DEF Reaches

\* A step that leaves the graph alone leaves reachability alone.
LEMMA ReachesKept ==
  ASSUME adj' = adj PROVE \A m, n : Reaches(m, n)' <=> Reaches(m, n)
  BY DEF Reaches

\* Whoever reaches another package does so by an edge of its own.
LEMMA FirstEdge ==
  ASSUME adj \in [Q -> SUBSET Q], NEW m \in Q, NEW n, Reaches(m, n), m # n
  PROVE  \E k \in adj[m] : Reaches(k, n)
<1> SUFFICES ASSUME \A k \in adj[m] : ~Reaches(k, n) PROVE FALSE
  OBVIOUS
<1> DEFINE Apart == {S \in SUBSET Q : (\A u \in S : adj[u] \subseteq S) /\ n \notin S}
           T == {m} \cup UNION Apart
<1>1. T \in SUBSET Q /\ m \in T /\ n \notin T
  OBVIOUS
<1>2. \A k \in adj[m] : \E S \in Apart : k \in S
  BY DEF Reaches
<1>3. \A u \in T : adj[u] \subseteq T
  <2> TAKE u \in T
  <2>1. CASE u = m
    BY <1>2, <2>1
  <2>2. CASE u \in UNION Apart
    BY <2>2
  <2> QED BY <2>1, <2>2
<1> HIDE DEF T
<1> QED BY <1>1, <1>3 DEF Reaches

-----------------------------------------------------------------------------
(* What the steps of Tarjan's loop do.                                     *)

\* The open calls, by their parts.
LEMMA WorkTyped ==
  ASSUME Types
  PROVE  /\ Len(work) \in Nat /\ DOMAIN work = 1..Len(work)
         /\ \A p \in DOMAIN work : /\ work[p] \in Calls
                                   /\ work[p].node \in Q /\ work[p].succ \in SUBSET Q
         /\ work # <<>> => Len(work) \in DOMAIN work /\ 1 \in DOMAIN work
<1>1. work \in Seq(Calls)
  BY DEF Types
<1>2. Len(work) \in Nat /\ DOMAIN work = 1..Len(work) /\ \A p \in 1..Len(work) : work[p] \in Calls
  BY <1>1, LenProperties, ElementOfSeq
<1>3. work # <<>> => Len(work) \in Nat \ {0}
  BY <1>1, EmptySeq
<1> QED BY <1>2, <1>3 DEF Calls

\* The successor that is taken is one of those left.
LEMMA NextSucc ==
  ASSUME Types, work # <<>>, Top.succ # {}
  PROVE  Min(Top.succ) \in Top.succ
<1>1. Top.succ \in SUBSET Q
  BY WorkTyped DEF Top
<1> QED BY <1>1, Finite, MinLeast

\* Taking it changes the calls in nothing else.
LEMMA PopSuccFacts ==
  ASSUME Types, work # <<>>
  PROVE  /\ PopSucc \in Seq(Calls) /\ Len(PopSucc) = Len(work)
         /\ \A p \in DOMAIN work : PopSucc[p].node = work[p].node
         /\ \A p \in DOMAIN work : p # Len(work) => PopSucc[p].succ = work[p].succ
         /\ PopSucc[Len(work)].succ = Top.succ \ {Min(Top.succ)}
<1> DEFINE t == Len(work)
           new == [work[t] EXCEPT !.succ = @ \ {Min(@)}]
<1>1. t \in 1..Len(work) /\ work \in Seq(Calls) /\ work[t] \in Calls
  BY WorkTyped DEF Types
<1>2. /\ new \in Calls /\ new.node = work[t].node
      /\ new.succ = work[t].succ \ {Min(work[t].succ)}
  BY <1>1 DEF Calls
<1>3. PopSucc = [work EXCEPT ![t] = new]
  BY <1>1 DEF PopSucc
<1> HIDE DEF new
<1>4. /\ PopSucc \in Seq(Calls) /\ Len(PopSucc) = Len(work)
      /\ \A p \in 1..Len(work) : PopSucc[p] = IF p = t THEN new ELSE work[p]
  BY <1>1, <1>2, <1>3, ExceptSeq
<1> QED BY <1>1, <1>2, <1>4, WorkTyped DEF Top

\* The stack, by its members.
LEMMA StackTyped ==
  ASSUME Types
  PROVE  /\ Len(stack) \in Nat /\ DOMAIN stack = 1..Len(stack)
         /\ \A i \in DOMAIN stack : stack[i] \in Open
         /\ Open \subseteq Q /\ Visited \subseteq Q /\ index \in [Q -> Int]
         /\ \A n \in Q : n \in Visited <=> index[n] # -1
         /\ \A n \in Visited : index[n] \in 0..Cardinality(Q) - 1
<1>1. stack \in Seq(Q)
  BY DEF Types
<1>2. Len(stack) \in Nat /\ DOMAIN stack = 1..Len(stack) /\ \A i \in 1..Len(stack) : stack[i] \in Q
  BY <1>1, LenProperties, ElementOfSeq
<1>3. \A n \in Q : index[n] \in -1..Cardinality(Q) - 1
  BY DEF Types, Ranks
<1>4. index \in [Q -> Int]
  BY <1>3, Finite DEF Types, Ranks
<1>5. \A n \in Q : n \in Visited <=> index[n] # -1
  BY DEF Visited, Unvisited
<1>6. \A n \in Visited : index[n] \in 0..Cardinality(Q) - 1
  BY <1>3, <1>5, Finite DEF Visited
<1> QED BY <1>2, <1>4, <1>5, <1>6 DEF Open, ToSet, Visited

\* A package is met: it gets the next number and goes on the stack.
LEMMA VisitFacts ==
  ASSUME Types, Numbering, Partition, NEW n \in Unvisited, Visit(n)
  PROVE  /\ index' \in [Q -> Ranks] /\ low' \in [Q -> Ranks] /\ stack' \in Seq(Q)
         /\ n \in Q /\ n \notin Visited /\ n \notin Open /\ Open \subseteq Visited
         /\ \A m \in Visited : index'[m] = index[m] /\ low'[m] = low[m] /\ index[m] < index'[n]
         /\ low'[n] = index'[n]
         /\ Visited' = Visited \cup {n} /\ Open' = Open \cup {n} /\ Closed' = Closed
         /\ Numbering' /\ Partition'
<1> DEFINE N == Cardinality(Visited)
<1>1. n \in Q /\ n \notin Visited /\ Visited \subseteq Q /\ Open \subseteq Visited
  BY DEF Unvisited, Visited, Partition
<1>2. N \in 0..Cardinality(Q) - 1 /\ Cardinality(Visited \cup {n}) = N + 1
      /\ N \in Ranks /\ Cardinality(Q) \in Nat
  BY <1>1, Finite DEF Ranks
<1>3. /\ index' = [index EXCEPT ![n] = N] /\ low' = [low EXCEPT ![n] = N]
      /\ stack' = Append(stack, n) /\ sccs' = sccs
  BY DEF Visit, Visited
<1> HIDE DEF N
<1>4. index' \in [Q -> Ranks] /\ low' \in [Q -> Ranks]
  BY <1>2, <1>3 DEF Types
<1>5. /\ index'[n] = N /\ low'[n] = N
      /\ \A m \in Q \ {n} : index'[m] = index[m] /\ low'[m] = low[m]
  BY <1>1, <1>3 DEF Types
<1>6. Visited' = Visited \cup {n}
  <2>1. \A m \in Q : m \in Visited' <=> index'[m] # -1
    BY DEF Visited, Unvisited
  <2>2. N # -1
    BY <1>2
  <2>3. \A m \in Q \ {n} : m \in Visited' <=> m \in Visited
    BY <1>5, <2>1, StackTyped
  <2>4. n \in Visited'
    BY <1>1, <1>5, <2>1, <2>2
  <2> QED BY <1>1, <2>3, <2>4 DEF Visited
<1>7. \A m \in Visited : index[m] < N
  BY DEF Numbering, N
<1>8. /\ stack' \in Seq(Q) /\ Len(stack') = Len(stack) + 1
      /\ \A i \in 1..Len(stack) : stack'[i] = stack[i]
      /\ stack'[Len(stack) + 1] = n /\ DOMAIN stack' = 1..Len(stack) + 1
  BY <1>1, <1>3, AppendProperties, LenProperties DEF Types
<1>9. Open' = Open \cup {n}
  <2>1. Open' = {stack'[i] : i \in 1..Len(stack) + 1}
    BY <1>8 DEF Open, ToSet
  <2>2. Open = {stack[i] : i \in 1..Len(stack)}
    BY StackTyped DEF Open, ToSet
  <2> QED BY <1>8, <2>1, <2>2, StackTyped
<1>10. Closed' = Closed
  BY <1>3 DEF Closed
<1>11. Numbering'
  <2>1. \A m \in Visited' : index'[m] < Cardinality(Visited')
    BY <1>1, <1>2, <1>5, <1>6, <1>7, StackTyped
  <2>2. ASSUME NEW k \in Visited', NEW m \in Visited', index'[k] = index'[m] PROVE k = m
    <3>1. \A j \in Visited : index[j] # N
      BY <1>2, <1>7, StackTyped
    <3> QED BY <1>1, <1>5, <1>6, <2>2, <3>1 DEF Numbering
  <2> QED BY <2>1, <2>2 DEF Numbering
<1>12. Partition'
  <2>1. n \notin Closed
    BY <1>1 DEF Partition
  <2>2. ASSUME NEW i \in DOMAIN stack', NEW j \in DOMAIN stack', i < j
        PROVE  index'[stack'[i]] < index'[stack'[j]]
    <3>1. i \in DOMAIN stack /\ stack'[i] = stack[i] /\ stack[i] \in Visited
      BY <1>1, <1>8, <2>2, StackTyped
    <3>2. index'[stack[i]] = index[stack[i]] /\ index[stack[i]] < N
      BY <1>1, <1>5, <1>7, <3>1
    <3>3. CASE j = Len(stack) + 1
      BY <1>5, <1>8, <3>1, <3>2, <3>3
    <3>4. CASE j \in DOMAIN stack
      <4>1. stack'[j] = stack[j] /\ stack[j] \in Visited
        BY <1>1, <1>8, <3>4, StackTyped
      <4>2. index'[stack[j]] = index[stack[j]]
        BY <1>1, <1>5, <4>1
      <4> QED BY <2>2, <3>1, <3>2, <3>4, <4>1, <4>2 DEF Partition
    <3> QED BY <1>8, <3>3, <3>4, StackTyped
  <2> QED BY <1>6, <1>9, <1>10, <2>1, <2>2 DEF Partition
<1> QED BY <1>1, <1>3, <1>4, <1>5, <1>6, <1>7, <1>8, <1>9, <1>10, <1>11, <1>12

-----------------------------------------------------------------------------
(* Tarjan's loop: a root.                                                  *)

LEMMA RootTarjan ==
  ASSUME Types, TarjanInv, Root PROVE Types' /\ TarjanInv'
<1> DEFINE n == Min(Unvisited)
<1>1. n \in Unvisited
  <2>1. Unvisited \subseteq Nat /\ Unvisited # {}
    BY Finite DEF Unvisited, Root
  <2> QED BY <2>1, MinLeast
<1>2. Visit(n) /\ work' = <<Call(n)>> /\ work = <<>> /\ UNCHANGED <<phase, adj, seeds>>
  BY DEF Root, kahn
<1>3. Numbering /\ Partition
  BY DEF TarjanInv
<1> HIDE DEF n
<1>4. /\ index' \in [Q -> Ranks] /\ low' \in [Q -> Ranks] /\ stack' \in Seq(Q)
      /\ n \in Q /\ low'[n] = index'[n]
      /\ Visited' = Visited \cup {n} /\ Open' = Open \cup {n}
      /\ Numbering' /\ Partition'
  BY <1>1, <1>2, <1>3, VisitFacts
<1>5. Open' = {n}
  BY <1>2, <1>4 DEF TarjanInv, CallsOpen
<1>6. Call(n) \in Calls /\ Call(n).node = n /\ Call(n).succ = adj[n]
  BY <1>4 DEF Call, Calls, Types
<1>7. /\ work' \in Seq(Calls) /\ DOMAIN work' = {1} /\ work' # <<>>
      /\ work'[1].node = n /\ work'[1].succ = adj[n]
  BY <1>2, <1>6
<1>8. sccs' = sccs
  BY <1>2 DEF Visit
<1>9. Types'
  BY <1>2, <1>4, <1>7, <1>8 DEF Types
<1>10. index'[n] \in Int
  BY <1>9, <1>4, StackTyped DEF Types, Ranks
<1>11. CallsOpen'
  BY <1>2, <1>5, <1>7, <1>10 DEF CallsOpen
<1>12. CallsReach'
  BY <1>2, <1>5, <1>7, ReachesSelf, ReachesKept DEF CallsReach
<1>13. LinksReach'
  BY <1>2, <1>4, <1>5, <1>7, <1>10, ReachesSelf, ReachesKept DEF LinksReach
<1>14. EdgesSeen'
  BY <1>2, <1>5, <1>7 DEF EdgesSeen
<1>15. Components'
  BY <1>2, <1>8, ReachesKept DEF TarjanInv, Components
<1> QED BY <1>4, <1>9, <1>11, <1>12, <1>13, <1>14, <1>15 DEF TarjanInv

-----------------------------------------------------------------------------
(* Tarjan's loop: a successor met for the first time.                      *)

LEMMA DescendTarjan ==
  ASSUME Types, TarjanInv, Descend PROVE Types' /\ TarjanInv'
<1> DEFINE t == Len(work)
           v == Top.node
<1>0. PICK w : w = Min(Top.succ)
  OBVIOUS
<1>1. /\ w \in Unvisited /\ Visit(w) /\ work' = Append(PopSucc, Call(w))
      /\ work # <<>> /\ Top.succ # {} /\ UNCHANGED <<phase, adj, seeds>>
  BY <1>0 DEF Descend, kahn
<1>2. w \in work[t].succ /\ t \in DOMAIN work /\ v = work[t].node
  BY <1>0, <1>1, NextSucc, WorkTyped DEF Top
<1> HIDE DEF t, v
<1>3. Numbering /\ Partition /\ CallsOpen /\ CallsReach /\ LinksReach /\ EdgesSeen /\ Components
  BY DEF TarjanInv
<1>4. /\ index' \in [Q -> Ranks] /\ low' \in [Q -> Ranks] /\ stack' \in Seq(Q)
      /\ w \in Q /\ w \notin Open /\ w \notin Visited /\ Open \subseteq Visited
      /\ \A m \in Visited : index'[m] = index[m] /\ low'[m] = low[m] /\ index[m] < index'[w]
      /\ low'[w] = index'[w]
      /\ Visited' = Visited \cup {w} /\ Open' = Open \cup {w}
      /\ Numbering' /\ Partition'
  BY <1>1, <1>3, VisitFacts
<1>5. Call(w) \in Calls /\ Call(w).node = w /\ Call(w).succ = adj[w]
  BY <1>4 DEF Call, Calls, Types
<1>6. /\ PopSucc \in Seq(Calls) /\ Len(PopSucc) = t
      /\ \A p \in DOMAIN work : PopSucc[p].node = work[p].node
      /\ \A p \in DOMAIN work : p # t => PopSucc[p].succ = work[p].succ
      /\ PopSucc[t].succ = work[t].succ \ {w}
  BY <1>0, <1>1, PopSuccFacts DEF Top, t
<1>7. /\ t \in Nat /\ t > 0 /\ DOMAIN work = 1..t /\ DOMAIN work' = 1..t + 1
      /\ work' \in Seq(Calls) /\ work' # <<>>
      /\ \A p \in 1..t : work'[p] = PopSucc[p]
      /\ work'[t + 1].node = w /\ work'[t + 1].succ = adj[w]
  <2>1. t \in Nat /\ DOMAIN work = 1..t
    BY WorkTyped DEF t
  <2>2. t > 0
    BY <1>2, <2>1
  <2> QED BY <1>1, <1>5, <1>6, <2>1, <2>2, AppendProperties, LenProperties
<1>8. sccs' = sccs
  BY <1>1 DEF Visit
<1>9. Types'
  BY <1>1, <1>4, <1>7, <1>8 DEF Types
<1>10. /\ \A m \in Visited' : index'[m] \in Int
       /\ \A p \in 1..t : work'[p].node = work[p].node /\ work[p].node \in Open
                          /\ work'[p].succ \subseteq work[p].succ
       /\ \A m, n : Reaches(m, n)' <=> Reaches(m, n)
  <2>1. \A m \in Visited' : index'[m] \in Int
    BY <1>4, Finite, StackTyped DEF Ranks
  <2> QED BY <1>1, <1>3, <1>6, <1>7, <2>1, ReachesKept DEF CallsOpen
<1>11. Reaches(v, w) /\ v \in Open
  BY <1>2, <1>3, ReachesEdge DEF CallsOpen
<1>12. CallsOpen'
  <2>1. ASSUME NEW p \in 1..t + 1
        PROVE  work'[p].node \in Open' /\ work'[p].succ \subseteq adj'[work'[p].node]
    <3>1. CASE p = t + 1
      BY <1>1, <1>4, <1>7, <3>1
    <3>2. CASE p \in 1..t
      BY <1>1, <1>3, <1>4, <1>7, <1>10, <3>2 DEF CallsOpen
    <3> QED BY <1>7, <3>1, <3>2
  <2>2. ASSUME NEW p \in 1..t + 1, NEW q \in 1..t + 1, p < q
        PROVE  index'[work'[p].node] < index'[work'[q].node]
    <3>1. p \in 1..t
      BY <1>7, <2>2
    <3>2. CASE q = t + 1
      BY <1>4, <1>7, <1>10, <3>1, <3>2
    <3>3. CASE q \in 1..t
      <4>1. index[work[p].node] < index[work[q].node]
        BY <1>3, <1>7, <2>2, <3>1, <3>3 DEF CallsOpen
      <4> QED BY <1>4, <1>10, <3>1, <3>3, <4>1
    <3> QED BY <1>7, <3>2, <3>3
  <2>3. ASSUME NEW x \in Open' PROVE index'[work'[1].node] <= index'[x]
    <3>1. 1 \in 1..t
      BY <1>7
    <3>2. CASE x = w
      BY <1>4, <1>10, <3>1, <3>2
    <3>3. CASE x \in Open
      BY <1>3, <1>4, <1>10, <3>1, <3>3 DEF CallsOpen
    <3> QED BY <1>4, <3>2, <3>3
  <2> QED BY <1>7, <2>1, <2>2, <2>3 DEF CallsOpen
<1>13. ASSUME NEW x \in Open, NEW p \in 1..t, Below(x, p)'
       PROVE  Below(x, p)
  BY <1>4, <1>7, <1>10, <1>13 DEF Below
<1>14. ASSUME NEW p \in 1..t + 1, Below(w, p)' PROVE p = t + 1
  <2>1. ~(index'[w] < index'[w])
    BY <1>4, <1>10
  <2>2. ~(p < t + 1)
    BY <1>7, <1>14, <2>1 DEF Below
  <2> QED BY <1>7, <2>2
<1>15. /\ \A x \in Open : x \in Visited /\ index'[x] = index[x] /\ index[x] < index'[w]
                          /\ index[x] \in Int /\ index'[w] \in Int
       /\ \A p \in 1..t : index[work[p].node] <= index[v] /\ low'[work[p].node] = low[work[p].node]
                          /\ work[p].node \in Open /\ p \in DOMAIN work
  <2>1. \A x \in Open : x \in Visited /\ index'[x] = index[x] /\ index[x] < index'[w]
                        /\ index[x] \in Int /\ index'[w] \in Int
    BY <1>4, <1>10
  <2>2. ASSUME NEW p \in 1..t PROVE index[work[p].node] <= index[v]
    <3>1. CASE p = t
      BY <1>2, <1>11, <2>1, <3>1
    <3>2. CASE p < t
      <4>1. index[work[p].node] < index[v]
        BY <1>2, <1>3, <1>7, <3>2 DEF CallsOpen
      <4> QED BY <1>7, <1>10, <1>11, <2>1, <4>1
    <3> QED BY <1>7, <3>1, <3>2
  <2> QED BY <1>4, <1>7, <1>10, <2>1, <2>2
<1>16. CallsReach'
  <2> SUFFICES ASSUME NEW p \in 1..t + 1, NEW x \in Open'
               PROVE  /\ index'[work'[p].node] <= index'[x] => Reaches(work'[p].node, x)
                      /\ Below(x, p)' => Reaches(x, work'[p].node)
    BY <1>7, <1>10 DEF CallsReach
  <2>1. CASE p = t + 1
    <3>1. CASE x = w
      BY <1>7, <2>1, <3>1, ReachesSelf
    <3>2. CASE x \in Open
      <4>1. Below(x, t)
        BY <1>7 DEF Below
      <4>2. Reaches(x, v)
        BY <1>2, <1>3, <3>2, <4>1 DEF CallsReach
      <4>3. Reaches(x, w)
        BY <1>11, <4>2, ReachesTrans
      <4>4. ~(index'[w] <= index'[x])
        BY <1>15, <3>2
      <4> QED BY <1>7, <2>1, <4>3, <4>4
    <3> QED BY <1>4, <3>1, <3>2
  <2>2. CASE p \in 1..t
    <3>1. CASE x = w
      <4>1. Reaches(work[p].node, v)
        BY <1>3, <1>11, <1>15, <2>2 DEF CallsReach
      <4>2. Reaches(work[p].node, w)
        BY <1>11, <4>1, ReachesTrans
      <4>3. ~Below(x, p)'
        <5>1. p # t + 1
          BY <1>7, <2>2
        <5> QED BY <1>14, <3>1, <5>1
      <4> QED BY <1>10, <2>2, <3>1, <4>2, <4>3
    <3>2. CASE x \in Open
      BY <1>3, <1>10, <1>13, <1>15, <2>2, <3>2 DEF CallsReach
    <3> QED BY <1>4, <3>1, <3>2
  <2> QED BY <1>7, <2>1, <2>2
<1>17. LinksReach'
  <2> SUFFICES ASSUME NEW p \in 1..t + 1
               PROVE  /\ low'[work'[p].node] <= index'[work'[p].node]
                      /\ \E y \in Open' : /\ index'[y] = low'[work'[p].node]
                                          /\ Reaches(work'[p].node, y)
    BY <1>7, <1>10 DEF LinksReach
  <2>1. CASE p = t + 1
    BY <1>4, <1>7, <1>10, <2>1, ReachesSelf
  <2>2. CASE p \in 1..t
    <3>1. /\ low[work[p].node] <= index[work[p].node]
          /\ \E y \in Open : index[y] = low[work[p].node] /\ Reaches(work[p].node, y)
      BY <1>3, <1>15, <2>2 DEF LinksReach
    <3> QED BY <1>4, <1>10, <1>15, <2>2, <3>1
  <2> QED BY <1>7, <2>1, <2>2
<1>18. EdgesSeen'
  <2> SUFFICES ASSUME NEW p \in 1..t + 1, NEW x \in Open',
                      index'[work'[p].node] <= index'[x], Below(x, p)',
                      NEW y \in adj[x] \ (IF x = work'[p].node THEN work'[p].succ ELSE {})
               PROVE  y \in Visited' /\ (y \in Open' => low'[work'[p].node] <= index'[y])
    BY <1>1, <1>7 DEF EdgesSeen
  <2>1. CASE p = t + 1
    <3>1. x = w
      BY <1>4, <1>7, <1>15, <2>1
    <3> QED BY <1>7, <2>1, <3>1
  <2>2. CASE p \in 1..t
    <3>1. x \in Open /\ Below(x, p) /\ index[work[p].node] <= index[x]
      <4>1. x # w
        <5>1. p # t + 1
          BY <1>7, <2>2
        <5> QED BY <1>14, <5>1
      <4>2. x \in Open /\ Below(x, p)
        BY <1>4, <1>13, <2>2, <4>1
      <4> QED BY <1>10, <1>15, <2>2, <4>2
    <3>2. CASE y = w
      <4>1. low[work[p].node] <= index[work[p].node] /\ index[work[p].node] < index'[w]
        BY <1>3, <1>15, <2>2 DEF LinksReach
      <4>2. low[work[p].node] \in Int
        BY <1>15, <2>2, <1>3 DEF LinksReach
      <4> QED BY <1>4, <1>10, <1>15, <2>2, <3>2, <4>1, <4>2
    <3>3. CASE y # w
      <4>1. y \in adj[x] \ (IF x = work[p].node THEN work[p].succ ELSE {})
        BY <1>6, <1>7, <1>10, <2>2, <3>3
      <4>2. y \in Visited /\ (y \in Open => low[work[p].node] <= index[y])
        BY <1>3, <1>15, <2>2, <3>1, <4>1 DEF EdgesSeen
      <4> QED BY <1>4, <1>10, <1>15, <2>2, <3>3, <4>2
    <3> QED BY <3>2, <3>3
  <2> QED BY <1>7, <2>1, <2>2
<1>19. Components'
  BY <1>1, <1>3, <1>8, <1>10 DEF Components
<1> QED BY <1>4, <1>9, <1>12, <1>16, <1>17, <1>18, <1>19 DEF TarjanInv

-----------------------------------------------------------------------------
(* Tarjan's loop: a successor met before.                                  *)

LEMMA ScanTarjan ==
  ASSUME Types, TarjanInv, Scan PROVE Types' /\ TarjanInv'
<1> DEFINE t == Len(work)
           v == Top.node
<1>0. PICK w : w = Min(Top.succ)
  OBVIOUS
<1>1. /\ w \notin Unvisited /\ work' = PopSucc /\ work # <<>> /\ Top.succ # {}
      /\ low' = IF w \in Open THEN Lower(v, index[w]) ELSE low
      /\ UNCHANGED <<phase, adj, seeds, index, stack, sccs>>
  BY <1>0 DEF Scan, kahn, Links, Open
<1>2. w \in work[t].succ /\ t \in DOMAIN work /\ v = work[t].node /\ v \in Q /\ w \in Q
  BY <1>0, <1>1, NextSucc, WorkTyped DEF Top
<1>3. Numbering /\ Partition /\ CallsOpen /\ CallsReach /\ LinksReach /\ EdgesSeen /\ Components
  BY DEF TarjanInv
<1>4. /\ work' \in Seq(Calls) /\ DOMAIN work' = DOMAIN work /\ work' # <<>> /\ 1 \in DOMAIN work
      /\ \A p \in DOMAIN work : work'[p].node = work[p].node
      /\ \A p \in DOMAIN work : p # t => work'[p].succ = work[p].succ
      /\ work'[t].succ = work[t].succ \ {w}
  <2>1. /\ PopSucc \in Seq(Calls) /\ Len(PopSucc) = Len(work)
        /\ \A p \in DOMAIN work : PopSucc[p].node = work[p].node
        /\ \A p \in DOMAIN work : p # Len(work) => PopSucc[p].succ = work[p].succ
        /\ PopSucc[Len(work)].succ = Top.succ \ {Min(Top.succ)}
    BY <1>1, PopSuccFacts
  <2>2. DOMAIN PopSucc = DOMAIN work /\ 1 \in DOMAIN work
    BY <1>1, <2>1, WorkTyped, LenProperties
  <2>3. PopSucc # <<>>
    BY <2>1, <2>2, WorkTyped, EmptySeq
  <2> QED BY <1>0, <1>1, <2>1, <2>2, <2>3 DEF Top
<1> HIDE DEF t, v
<1>5. /\ w \in Visited /\ Reaches(v, w)
      /\ UNCHANGED <<Visited, Open, Closed>>
      /\ \A m, n : Reaches(m, n)' <=> Reaches(m, n)
  <2>1. w \in Visited
    BY <1>1, <1>2 DEF Visited
  <2>2. Reaches(v, w)
    BY <1>2, <1>3, ReachesEdge DEF CallsOpen
  <2> QED BY <1>1, <2>1, <2>2, ReachesKept DEF Visited, Unvisited, Open, Closed
<1>6. \A m \in Q : low[m] \in Ranks /\ low[m] \in Int /\ index[m] \in Ranks /\ index[m] \in Int
  BY Finite DEF Types, Ranks
<1>7. /\ low' \in [Q -> Ranks] /\ \A m \in Q \ {v} : low'[m] = low[m]
      /\ low'[v] = low[v] \/ (low'[v] = index[w] /\ w \in Open)
      /\ low'[v] <= low[v] /\ (w \in Open => low'[v] <= index[w])
  <2>1. CASE w \in Open
    <3>1. low' = [low EXCEPT ![v] = Min({low[v], index[w]})]
      BY <1>1, <2>1 DEF Lower
    <3>2. /\ Min({low[v], index[w]}) \in {low[v], index[w]}
          /\ Min({low[v], index[w]}) <= low[v] /\ Min({low[v], index[w]}) <= index[w]
      BY <1>2, <1>6, MinOfTwo
    <3>3. low \in [Q -> Ranks]
      BY DEF Types
    <3> QED BY <1>2, <1>6, <2>1, <3>1, <3>2, <3>3
  <2>2. CASE w \notin Open
    BY <1>1, <1>2, <1>6, <2>2 DEF Types
  <2> QED BY <2>1, <2>2
<1>8. \A m \in Q : low'[m] <= low[m] /\ low'[m] \in Int
  BY <1>2, <1>6, <1>7
<1>9. Types'
  BY <1>1, <1>4, <1>7 DEF Types
<1>10. Numbering' /\ Partition' /\ Components'
  <2>1. Numbering' /\ Partition'
    BY <1>1, <1>3, <1>5 DEF Numbering, Partition
  <2>2. Components'
    BY <1>1, <1>3, <1>5 DEF Components
  <2> QED BY <2>1, <2>2
<1>11. CallsOpen'
  <2>1. ASSUME NEW p \in DOMAIN work PROVE work'[p].succ \subseteq work[p].succ
    BY <1>4
  <2> QED BY <1>1, <1>3, <1>4, <1>5, <2>1 DEF CallsOpen
<1>12. \A x, p : p \in DOMAIN work => (Below(x, p)' <=> Below(x, p))
  BY <1>1, <1>4 DEF Below
<1>13. CallsReach'
  BY <1>1, <1>3, <1>4, <1>5, <1>12 DEF CallsReach
<1>14. \A p \in DOMAIN work : work[p].node \in Q
  BY WorkTyped
<1>15. LinksReach'
  <2> SUFFICES ASSUME NEW p \in DOMAIN work
               PROVE  /\ low'[work[p].node] <= index[work[p].node]
                      /\ \E y \in Open : /\ index[y] = low'[work[p].node]
                                         /\ Reaches(work[p].node, y)
    BY <1>1, <1>4, <1>5 DEF LinksReach
  <2>1. /\ low[work[p].node] <= index[work[p].node]
        /\ \E y \in Open : index[y] = low[work[p].node] /\ Reaches(work[p].node, y)
    BY <1>3 DEF LinksReach
  <2>2. low'[work[p].node] <= index[work[p].node]
    BY <1>6, <1>8, <1>14, <2>1
  <2>3. CASE low'[work[p].node] = low[work[p].node]
    BY <2>1, <2>2, <2>3
  <2>4. CASE low'[work[p].node] # low[work[p].node]
    <3>1. work[p].node = v /\ low'[v] = index[w] /\ w \in Open
      BY <1>7, <1>14, <2>4
    <3> QED BY <1>5, <2>2, <3>1
  <2> QED BY <2>3, <2>4
<1>16. EdgesSeen'
  <2> SUFFICES ASSUME NEW p \in DOMAIN work, NEW x \in Open,
                      index[work[p].node] <= index[x], Below(x, p),
                      NEW y \in adj[x] \ (IF x = work[p].node THEN work'[p].succ ELSE {})
               PROVE  y \in Visited /\ (y \in Open => low'[work[p].node] <= index[y])
    BY <1>1, <1>4, <1>5, <1>12 DEF EdgesSeen
  <2>1. CASE y \in adj[x] \ (IF x = work[p].node THEN work[p].succ ELSE {})
    <3>1. y \in Visited /\ (y \in Open => low[work[p].node] <= index[y])
      BY <1>3, <2>1 DEF EdgesSeen
    <3>2. y \in Q
      BY <3>1 DEF Visited
    <3> QED BY <1>6, <1>8, <1>14, <3>1, <3>2
  <2>2. CASE y \notin adj[x] \ (IF x = work[p].node THEN work[p].succ ELSE {})
    <3>1. y = w /\ p = t
      BY <1>4, <2>2
    <3> QED BY <1>2, <1>5, <1>7, <3>1
  <2> QED BY <2>1, <2>2
<1> QED BY <1>9, <1>10, <1>11, <1>13, <1>15, <1>16 DEF TarjanInv

-----------------------------------------------------------------------------
(* Tarjan's loop: a call ends.                                             *)

\* What a return does to the calls and the links, and which calls stay.
LEMMA ReturnFacts ==
  ASSUME Types, TarjanInv, Return, NEW n, n = Top.node, NEW t, t = Len(work)
  PROVE  /\ t \in DOMAIN work /\ DOMAIN work = 1..t /\ t \in Nat /\ n = work[t].node
         /\ n \in Open /\ work[t].succ = {}
         /\ work' \in Seq(Calls) /\ DOMAIN work' = 1..t - 1 /\ (t # 1 => work' # <<>>)
         /\ \A p \in 1..t - 1 : work'[p] = work[p] /\ p \in DOMAIN work /\ work[p].node \in Open
                                /\ index[work[p].node] < index[n]
         /\ \A p \in 1..t - 2 : index[work[p].node] < index[work[t - 1].node]
         /\ low' \in [Q -> Ranks] /\ \A x \in Q : low'[x] <= low[x]
         /\ \A p \in 1..t - 2 : low'[work[p].node] = low[work[p].node]
         /\ t # 1 => /\ low'[work[t - 1].node] \in {low[work[t - 1].node], low[n]}
                     /\ low'[work[t - 1].node] <= low[n]
         /\ \A x \in Open : Reaches(x, n) \/ index[x] < index[n]
         /\ \A m, x : Reaches(m, x)' <=> Reaches(m, x)
<1>1. work # <<>> /\ Top.succ = {} /\ UNCHANGED <<phase, adj, index, seeds>>
  BY DEF Return, kahn
<1>2. t \in DOMAIN work /\ DOMAIN work = 1..t /\ t \in Nat /\ n = work[t].node
      /\ work[t].succ = {} /\ work \in Seq(Calls)
  BY <1>1, WorkTyped DEF Top, Types
<1>3. Numbering /\ Partition /\ CallsOpen /\ CallsReach /\ LinksReach
  BY DEF TarjanInv
<1>4. n \in Open /\ \A p \in 1..t : work[p].node \in Open /\ work[p].node \in Q
  BY <1>2, <1>3, StackTyped DEF CallsOpen
<1>5. /\ work' \in Seq(Calls) /\ DOMAIN work' = 1..t - 1 /\ (t # 1 => work' # <<>>)
      /\ \A p \in 1..t - 1 : work'[p] = work[p]
  <2>1. work' = SubSeq(work, 1, t - 1)
    BY DEF Return, Front
  <2>2. \A p \in 1..t - 1 : work[p] \in Calls
    BY <1>2, WorkTyped
  <2>3. t >= 1
    BY <1>2
  <2>4. /\ SubSeq(work, 1, t - 1) \in Seq(Calls)
        /\ Len(SubSeq(work, 1, t - 1)) = IF 1 <= t - 1 THEN t - 1 - 1 + 1 ELSE 0
        /\ \A p \in 1..t - 1 - 1 + 1 : SubSeq(work, 1, t - 1)[p] = work[1 + p - 1]
    BY <1>2, <2>2, SubSeqProperties
  <2>5. Len(work') = t - 1 /\ work' \in Seq(Calls)
    BY <1>2, <2>1, <2>3, <2>4
  <2>6. DOMAIN work' = 1..t - 1
    BY <2>5, LenProperties
  <2>7. t # 1 => work' # <<>>
    BY <1>2, <2>5, EmptySeq
  <2>8. \A p \in 1..t - 1 : 1 + p - 1 = p /\ p \in 1..t - 1 - 1 + 1
    BY <1>2
  <2> QED BY <2>1, <2>4, <2>5, <2>6, <2>7, <2>8
<1>6. \A p \in 1..t - 1 : p \in DOMAIN work /\ work[p].node \in Open
                          /\ index[work[p].node] < index[n]
  <2>1. \A p \in 1..t - 1 : p \in DOMAIN work /\ p < t
    BY <1>2
  <2> QED BY <1>2, <1>3, <1>4, <2>1 DEF CallsOpen
<1>7. \A p \in 1..t - 2 : index[work[p].node] < index[work[t - 1].node]
  <2>1. \A p \in 1..t - 2 : p \in DOMAIN work /\ t - 1 \in DOMAIN work /\ p < t - 1
    BY <1>2
  <2> QED BY <1>3, <2>1 DEF CallsOpen
<1>8. \A m \in Q : low[m] \in Ranks /\ low[m] \in Int /\ index[m] \in Int
  BY Finite DEF Types, Ranks
<1>9. /\ low' \in [Q -> Ranks] /\ \A x \in Q : low'[x] <= low[x]
      /\ \A p \in 1..t - 2 : low'[work[p].node] = low[work[p].node]
      /\ t # 1 => /\ low'[work[t - 1].node] \in {low[work[t - 1].node], low[n]}
                  /\ low'[work[t - 1].node] <= low[n]
  <2>1. CASE t = 1
    <3>1. low' = low
      BY <1>2, <2>1 DEF Return
    <3>2. 1..t - 2 = {}
      BY <2>1
    <3> QED BY <1>8, <2>1, <3>1, <3>2 DEF Types
  <2>2. CASE t # 1
    <3>1. PICK m : m = work[t - 1].node
      OBVIOUS
    <3>2. t - 1 \in 1..t /\ Len(work) > 1 /\ m \in Q /\ n \in Q
      BY <1>2, <1>4, <2>2, <3>1, StackTyped
    <3>3. low' = [low EXCEPT ![m] = Min({low[m], low[n]})]
      BY <3>1, <3>2 DEF Return, Lower
    <3>4. /\ Min({low[m], low[n]}) \in {low[m], low[n]}
          /\ Min({low[m], low[n]}) <= low[m] /\ Min({low[m], low[n]}) <= low[n]
      BY <1>8, <3>2, MinOfTwo
    <3>5. low \in [Q -> Ranks]
      BY DEF Types
    <3>6. /\ low' \in [Q -> Ranks] /\ \A x \in Q \ {m} : low'[x] = low[x]
          /\ low'[m] = Min({low[m], low[n]})
      BY <1>8, <3>2, <3>3, <3>4, <3>5
    <3>7. \A x \in Q : low'[x] <= low[x]
      BY <1>8, <3>4, <3>6
    <3>8. ASSUME NEW p \in 1..t - 2 PROVE work[p].node \in Q \ {m}
      <4>1. p \in 1..t
        BY <1>2
      <4>2. index[work[p].node] < index[m]
        BY <1>7, <3>1
      <4> QED BY <1>4, <1>8, <3>2, <4>1, <4>2
    <3> QED BY <3>1, <3>4, <3>6, <3>7, <3>8
  <2> QED BY <2>1, <2>2
<1>10. ASSUME NEW x \in Open PROVE Reaches(x, n) \/ index[x] < index[n]
  <2>1. Below(x, t)
    <3>1. \A q \in 1..t : ~(t < q)
      BY <1>2
    <3> QED BY <1>2, <3>1 DEF Below
  <2> QED BY <1>2, <1>3, <2>1 DEF CallsReach
<1>11. \A m, x : Reaches(m, x)' <=> Reaches(m, x)
  BY <1>1, ReachesKept
<1> QED BY <1>2, <1>4, <1>5, <1>6, <1>7, <1>9, <1>10, <1>11

\* The link of the package is older than itself: its component stays open, and its
\* caller takes over what was met since, with the link.
LEMMA ReturnInner ==
  ASSUME Types, TarjanInv, Return, low[Top.node] # index[Top.node]
  PROVE  Types' /\ TarjanInv'
<1>1. PICK n : n = Top.node
  OBVIOUS
<1>2. PICK t : t = Len(work)
  OBVIOUS
<1>3. /\ t \in DOMAIN work /\ DOMAIN work = 1..t /\ t \in Nat /\ n = work[t].node
      /\ n \in Open /\ work[t].succ = {}
      /\ work' \in Seq(Calls) /\ DOMAIN work' = 1..t - 1 /\ (t # 1 => work' # <<>>)
      /\ \A p \in 1..t - 1 : work'[p] = work[p] /\ p \in DOMAIN work /\ work[p].node \in Open
                             /\ index[work[p].node] < index[n]
      /\ \A p \in 1..t - 2 : index[work[p].node] < index[work[t - 1].node]
      /\ low' \in [Q -> Ranks] /\ \A x \in Q : low'[x] <= low[x]
      /\ \A p \in 1..t - 2 : low'[work[p].node] = low[work[p].node]
      /\ t # 1 => /\ low'[work[t - 1].node] \in {low[work[t - 1].node], low[n]}
                  /\ low'[work[t - 1].node] <= low[n]
      /\ \A x \in Open : Reaches(x, n) \/ index[x] < index[n]
      /\ \A m, x : Reaches(m, x)' <=> Reaches(m, x)
  BY <1>1, <1>2, ReturnFacts
<1>4. Numbering /\ Partition /\ CallsOpen /\ CallsReach /\ LinksReach /\ EdgesSeen /\ Components
  BY DEF TarjanInv
<1>5. /\ UNCHANGED <<phase, adj, seeds, index, stack, sccs>>
      /\ UNCHANGED <<Visited, Open, Closed>>
  <2>1. UNCHANGED <<phase, adj, seeds, index, stack, sccs>>
    BY DEF Return, kahn
  <2> QED BY <2>1 DEF Visited, Unvisited, Open, Closed
<1>6. /\ Open \subseteq Visited /\ Visited \subseteq Q
      /\ \A x \in Q : low[x] \in Int /\ index[x] \in Int /\ low'[x] \in Int
  BY <1>3, <1>4, StackTyped, Finite DEF Partition, Types, Ranks
<1>7. PICK y \in Open : index[y] = low[n] /\ index[y] < index[n] /\ Reaches(n, y)
  <2>1. low[n] <= index[n]
    BY <1>3, <1>4 DEF LinksReach
  <2>2. low[n] < index[n]
    BY <1>1, <1>3, <1>6, <2>1
  <2> QED BY <1>3, <1>4, <2>2 DEF LinksReach
<1>8. t # 1
  <2>1. index[work[1].node] <= index[y]
    BY <1>4 DEF CallsOpen
  <2>2. t # 1
    BY <1>3, <1>6, <1>7, <2>1
  <2> QED BY <2>2
<1>9. PICK m : m = work[t - 1].node
  OBVIOUS
<1>10. /\ t - 1 \in 1..t - 1 /\ 1 \in 1..t - 1 /\ m \in Open /\ m \in Q /\ n \in Q
       /\ index[m] < index[n]
       /\ low'[m] \in {low[m], low[n]} /\ low'[m] <= low[m] /\ low'[m] <= low[n]
  <2>1. t - 1 \in 1..t - 1 /\ 1 \in 1..t - 1
    BY <1>3, <1>8
  <2> QED BY <1>3, <1>6, <1>8, <1>9, <2>1
<1>11. Types'
  BY <1>3, <1>5 DEF Types
<1>12. Numbering' /\ Partition' /\ Components'
  <2>1. \A x, z : Reaches(x, z)' <=> Reaches(x, z)
    BY <1>3
  <2> QED BY <1>4, <1>5, <2>1 DEF Numbering, Partition, Components
<1>13. CallsOpen'
  BY <1>3, <1>4, <1>5, <1>8, <1>10 DEF CallsOpen
<1>14. ASSUME NEW x \in Open, NEW p \in 1..t - 2, Below(x, p)' PROVE Below(x, p)
  <2>1. p < t - 1 /\ t - 1 \in DOMAIN work'
    BY <1>3, <1>10
  <2>2. index[x] < index[m]
    BY <1>3, <1>5, <1>9, <1>10, <1>14, <2>1 DEF Below
  <2>3. ASSUME NEW q \in 1..t, p < q PROVE index[x] < index[work[q].node]
    <3>1. CASE q = t
      <4>1. work[q].node = n
        BY <1>3, <3>1
      <4>2. index[x] \in Int /\ index[m] \in Int /\ index[n] \in Int /\ index[m] < index[n]
        BY <1>6, <1>10
      <4> QED BY <2>2, <4>1, <4>2
    <3>2. CASE q \in 1..t - 1
      BY <1>3, <1>5, <1>14, <2>3, <3>2 DEF Below
    <3> QED BY <1>3, <3>1, <3>2
  <2> QED BY <1>3, <2>3 DEF Below
<1>15. ASSUME NEW x \in Open, index[x] < index[n] PROVE Below(x, t - 1)
  <2>1. \A q \in 1..t : t - 1 < q => q = t
    BY <1>3
  <2> QED BY <1>3, <1>15, <2>1 DEF Below
<1>16. Reaches(m, n) /\ \A x \in Open : Reaches(x, m)
  <2>1. Reaches(m, n)
    BY <1>3, <1>4, <1>6, <1>9, <1>10 DEF CallsReach
  <2>2. \A x \in Open : index[x] < index[n] => Reaches(x, m)
    BY <1>3, <1>4, <1>9, <1>10, <1>15 DEF CallsReach
  <2>3. Reaches(n, m)
    BY <1>7, <2>2, ReachesTrans
  <2> QED BY <1>3, <2>1, <2>2, <2>3, ReachesTrans
<1>17. CallsReach'
  <2> SUFFICES ASSUME NEW p \in 1..t - 1, NEW x \in Open
               PROVE  /\ index[work[p].node] <= index[x] => Reaches(work[p].node, x)
                      /\ Below(x, p)' => Reaches(x, work[p].node)
    BY <1>3, <1>5 DEF CallsReach
  <2>1. index[work[p].node] <= index[x] => Reaches(work[p].node, x)
    BY <1>3, <1>4 DEF CallsReach
  <2>2. CASE p \in 1..t - 2
    BY <1>3, <1>4, <1>14, <2>1, <2>2 DEF CallsReach
  <2>3. CASE p = t - 1
    BY <1>9, <1>16, <2>1, <2>3
  <2> QED BY <1>3, <2>2, <2>3
<1>18. LinksReach'
  <2> SUFFICES ASSUME NEW p \in 1..t - 1
               PROVE  /\ low'[work[p].node] <= index[work[p].node]
                      /\ \E z \in Open : /\ index[z] = low'[work[p].node]
                                         /\ Reaches(work[p].node, z)
    BY <1>3, <1>5 DEF LinksReach
  <2>1. /\ low[work[p].node] <= index[work[p].node]
        /\ \E z \in Open : index[z] = low[work[p].node] /\ Reaches(work[p].node, z)
    BY <1>3, <1>4 DEF LinksReach
  <2>2. work[p].node \in Q
    BY <1>3, <1>6
  <2>3. low'[work[p].node] <= index[work[p].node]
    BY <1>3, <1>6, <2>1, <2>2
  <2>4. CASE low'[work[p].node] = low[work[p].node]
    BY <2>1, <2>3, <2>4
  <2>5. CASE low'[work[p].node] # low[work[p].node]
    <3>1. p = t - 1
      BY <1>3, <2>5
    <3>2. low'[m] = low[n] /\ Reaches(m, y)
      BY <1>7, <1>9, <1>10, <1>16, <2>5, <3>1, ReachesTrans
    <3> QED BY <1>7, <1>9, <2>3, <3>1, <3>2
  <2> QED BY <2>4, <2>5
<1>19. EdgesSeen'
  <2> SUFFICES ASSUME NEW p \in 1..t - 1, NEW x \in Open,
                      index[work[p].node] <= index[x], Below(x, p)',
                      NEW z \in adj[x] \ (IF x = work[p].node THEN work[p].succ ELSE {})
               PROVE  z \in Visited /\ (z \in Open => low'[work[p].node] <= index[z])
    BY <1>3, <1>5 DEF EdgesSeen
  <2>1. work[p].node \in Q
    BY <1>3, <1>6
  <2>2. CASE Below(x, p)
    <3>1. z \in Visited /\ (z \in Open => low[work[p].node] <= index[z])
      BY <1>3, <1>4, <2>2 DEF EdgesSeen
    <3> QED BY <1>3, <1>6, <2>1, <3>1
  <2>3. CASE ~Below(x, p)
    <3>1. p = t - 1 /\ ~(index[x] < index[n])
      BY <1>3, <1>14, <1>15, <2>3
    <3>2. index[n] <= index[x] /\ Below(x, t)
      <4>1. \A q \in 1..t : ~(t < q)
        BY <1>3
      <4> QED BY <1>3, <1>6, <1>10, <3>1, <4>1 DEF Below
    <3>3. z \in adj[x] \ (IF x = n THEN work[t].succ ELSE {})
      BY <1>3
    <3>4. z \in Visited /\ (z \in Open => low[n] <= index[z])
      BY <1>3, <1>4, <3>2, <3>3 DEF EdgesSeen
    <3> QED BY <1>6, <1>9, <1>10, <3>1, <3>4
  <2> QED BY <2>2, <2>3
<1> QED BY <1>11, <1>12, <1>13, <1>17, <1>18, <1>19 DEF TarjanInv

\* The package is the oldest it reaches: all that was met since is its component,
\* and leaves the stack.
LEMMA ReturnRoot ==
  ASSUME Types, TarjanInv, Return, low[Top.node] = index[Top.node]
  PROVE  Types' /\ TarjanInv'
<1>1. PICK n : n = Top.node
  OBVIOUS
<1>2. PICK t : t = Len(work)
  OBVIOUS
<1>3. /\ t \in DOMAIN work /\ DOMAIN work = 1..t /\ t \in Nat /\ n = work[t].node
      /\ n \in Open /\ work[t].succ = {}
      /\ work' \in Seq(Calls) /\ DOMAIN work' = 1..t - 1 /\ (t # 1 => work' # <<>>)
      /\ \A p \in 1..t - 1 : work'[p] = work[p] /\ p \in DOMAIN work /\ work[p].node \in Open
                             /\ index[work[p].node] < index[n]
      /\ \A p \in 1..t - 2 : index[work[p].node] < index[work[t - 1].node]
      /\ low' \in [Q -> Ranks] /\ \A x \in Q : low'[x] <= low[x]
      /\ \A p \in 1..t - 2 : low'[work[p].node] = low[work[p].node]
      /\ t # 1 => /\ low'[work[t - 1].node] \in {low[work[t - 1].node], low[n]}
                  /\ low'[work[t - 1].node] <= low[n]
      /\ \A x \in Open : Reaches(x, n) \/ index[x] < index[n]
      /\ \A m, x : Reaches(m, x)' <=> Reaches(m, x)
  BY <1>1, <1>2, ReturnFacts
<1>4. Numbering /\ Partition /\ CallsOpen /\ CallsReach /\ LinksReach /\ EdgesSeen /\ Components
  BY DEF TarjanInv
<1>5. UNCHANGED <<phase, adj, seeds, index, Visited>>
  <2>1. UNCHANGED <<phase, adj, seeds, index>>
    BY DEF Return, kahn
  <2> QED BY <2>1 DEF Visited, Unvisited
<1>6. /\ Open \subseteq Visited /\ Visited \subseteq Q
      /\ \A x \in Q : low[x] \in Int /\ index[x] \in Int /\ low'[x] \in Int
  BY <1>3, <1>4, StackTyped, Finite DEF Partition, Types, Ranks
<1>7. PICK k \in DOMAIN stack : stack[k] = n /\ k = CHOOSE i \in DOMAIN stack : stack[i] = n
  <2>1. \E i \in DOMAIN stack : stack[i] = n
    BY <1>3 DEF Open, ToSet
  <2> QED BY <2>1
<1>8. PICK S : S = {x \in Open : index[n] <= index[x]}
  OBVIOUS
<1>9. /\ DOMAIN stack = 1..Len(stack) /\ Len(stack) \in Nat /\ stack \in Seq(Q)
      /\ Open = {stack[i] : i \in DOMAIN stack}
      /\ \A i \in DOMAIN stack : stack[i] \in Open /\ index[stack[i]] \in Int
                                 /\ (i < k <=> index[stack[i]] < index[n])
  <2>1. DOMAIN stack = 1..Len(stack) /\ Len(stack) \in Nat /\ stack \in Seq(Q)
    BY StackTyped DEF Types
  <2>2. \A i \in DOMAIN stack : stack[i] \in Open /\ index[stack[i]] \in Int
    BY <1>6, StackTyped
  <2>3. ASSUME NEW i \in DOMAIN stack PROVE i < k <=> index[stack[i]] < index[n]
    <3>1. i < k => index[stack[i]] < index[n]
      BY <1>4, <1>7 DEF Partition
    <3>2. k < i => index[n] < index[stack[i]]
      BY <1>4, <1>7 DEF Partition
    <3>3. i = k => ~(index[stack[i]] < index[n])
      BY <1>7, <2>2
    <3> QED BY <1>7, <2>1, <2>2, <3>1, <3>2, <3>3
  <2> QED BY <2>1, <2>2, <2>3 DEF Open, ToSet
<1>10. S = {stack[i] : i \in k..Len(stack)}
  <2>1. \A i \in DOMAIN stack : i \in k..Len(stack) <=> ~(i < k)
    BY <1>7, <1>9
  <2>2. k..Len(stack) \subseteq DOMAIN stack
    BY <1>7, <1>9
  <2>3. index[n] \in Int
    BY <1>3, <1>6
  <2>4. ASSUME NEW i \in DOMAIN stack PROVE i \in k..Len(stack) <=> index[n] <= index[stack[i]]
    <3>1. index[stack[i]] \in Int /\ (i < k <=> index[stack[i]] < index[n])
      BY <1>9
    <3>2. index[n] <= index[stack[i]] <=> ~(index[stack[i]] < index[n])
      BY <2>3, <3>1
    <3> QED BY <2>1, <3>1, <3>2
  <2> QED BY <1>8, <1>9, <2>2, <2>4
<1>11. sccs' = Append(sccs, S) /\ stack' = SubSeq(stack, 1, k - 1)
  BY <1>1, <1>7, <1>10 DEF Return
<1>12. /\ stack' \in Seq(Q) /\ DOMAIN stack' = 1..k - 1
       /\ \A i \in 1..k - 1 : stack'[i] = stack[i] /\ i \in DOMAIN stack /\ i < k
  <2>1. k \in Nat /\ 1 <= k /\ \A i \in 1..k - 1 : stack[i] \in Q /\ i \in DOMAIN stack /\ i < k
    BY <1>6, <1>7, <1>9
  <2>2. /\ SubSeq(stack, 1, k - 1) \in Seq(Q)
        /\ Len(SubSeq(stack, 1, k - 1)) = IF 1 <= k - 1 THEN k - 1 - 1 + 1 ELSE 0
        /\ \A i \in 1..k - 1 - 1 + 1 : SubSeq(stack, 1, k - 1)[i] = stack[1 + i - 1]
    BY <2>1, SubSeqProperties
  <2>3. Len(stack') = k - 1 /\ stack' \in Seq(Q)
    BY <1>11, <2>1, <2>2
  <2>4. DOMAIN stack' = 1..k - 1
    BY <2>3, LenProperties
  <2>5. \A i \in 1..k - 1 : 1 + i - 1 = i /\ i \in 1..k - 1 - 1 + 1
    BY <2>1
  <2> QED BY <1>11, <2>1, <2>2, <2>3, <2>4, <2>5
<1>13. Open' = {x \in Open : index[x] < index[n]}
  <2>1. Open' = {stack'[i] : i \in 1..k - 1}
    BY <1>12 DEF Open, ToSet
  <2>2. \A i \in DOMAIN stack : i < k => i \in 1..k - 1
    BY <1>7, <1>9
  <2>3. \A i \in 1..k - 1 : stack'[i] \in Open /\ index[stack'[i]] < index[n]
    BY <1>9, <1>12
  <2>4. ASSUME NEW x \in Open, index[x] < index[n] PROVE \E i \in 1..k - 1 : x = stack'[i]
    <3>1. PICK i \in DOMAIN stack : x = stack[i]
      BY <1>9
    <3> QED BY <1>9, <1>12, <2>2, <2>4, <3>1
  <2> QED BY <2>1, <2>3, <2>4
<1>14. /\ Open = Open' \cup S /\ Open' \cap S = {} /\ n \in S /\ S \in SUBSET Q
       /\ \A x \in S : Reaches(x, n) /\ Reaches(n, x)
  <2>1. \A x \in Open : index[x] \in Int /\ index[n] \in Int /\ x \in Q
    BY <1>3, <1>6
  <2>2. \A x \in S : x \in Open /\ index[n] <= index[x]
    BY <1>8
  <2>3. \A x \in S : ~(index[x] < index[n])
    BY <2>1, <2>2
  <2>4. \A x \in S : Reaches(x, n) /\ Reaches(n, x)
    BY <1>3, <1>4, <2>2, <2>3 DEF CallsReach
  <2>5. \A x \in Open : index[x] < index[n] \/ index[n] <= index[x]
    BY <2>1
  <2>6. n \in S
    BY <1>3, <1>8, <2>1
  <2> QED BY <1>8, <1>13, <2>1, <2>3, <2>4, <2>5, <2>6
<1>15. /\ sccs' \in Seq(SUBSET Q) /\ DOMAIN sccs = 1..Len(sccs) /\ Len(sccs) \in Nat
       /\ DOMAIN sccs' = 1..Len(sccs) + 1
       /\ \A i \in DOMAIN sccs : sccs'[i] = sccs[i]
       /\ sccs'[Len(sccs) + 1] = S
  <2>1. sccs \in Seq(SUBSET Q)
    BY DEF Types
  <2> QED BY <1>11, <1>14, <2>1, AppendProperties, LenProperties
<1>16. Closed' = Closed \cup S
  <2>1. Closed' = UNION {sccs'[i] : i \in 1..Len(sccs) + 1}
    BY <1>15 DEF Closed, ToSet
  <2>2. Closed = UNION {sccs[i] : i \in DOMAIN sccs}
    BY DEF Closed, ToSet
  <2>3. \A i \in 1..Len(sccs) + 1 : i \in DOMAIN sccs \/ i = Len(sccs) + 1
    BY <1>15
  <2>4. DOMAIN sccs \subseteq 1..Len(sccs) + 1 /\ Len(sccs) + 1 \in 1..Len(sccs) + 1
    BY <1>15
  <2> QED BY <1>15, <2>1, <2>2, <2>3, <2>4
<1>17. Types'
  BY <1>3, <1>5, <1>12, <1>15 DEF Types
<1>18. Numbering'
  BY <1>4, <1>5 DEF Numbering
<1>19. Partition'
  <2>1. Visited' = Open' \cup Closed' /\ Open' \cap Closed' = {}
    BY <1>4, <1>5, <1>14, <1>16 DEF Partition
  <2>2. ASSUME NEW i \in DOMAIN stack', NEW j \in DOMAIN stack', i < j
        PROVE  index'[stack'[i]] < index'[stack'[j]]
    BY <1>4, <1>5, <1>12, <2>2 DEF Partition
  <2> QED BY <2>1, <2>2 DEF Partition
<1>20. \A p \in 1..t - 1 : /\ work'[p] = work[p] /\ p \in DOMAIN work /\ p \in DOMAIN work'
                           /\ work[p].node \in Open' /\ work[p].node \in Q
                           /\ index[work[p].node] < index[n]
  BY <1>3, <1>6, <1>13
<1>21. ASSUME NEW x \in Open' PROVE t # 1 /\ index[work[1].node] <= index[x]
  <2>1. x \in Open /\ index[x] < index[n]
    BY <1>13
  <2>2. index[work[1].node] <= index[x]
    BY <1>4, <2>1 DEF CallsOpen
  <2>3. CASE t = 1
    <3>1. index[n] <= index[x]
      BY <1>3, <2>2, <2>3
    <3> QED BY <1>3, <1>6, <2>1, <3>1
  <2> QED BY <2>2, <2>3
<1>22. CallsOpen'
  <2>1. ASSUME NEW p \in 1..t - 1 PROVE work[p].succ \subseteq adj[work[p].node]
    BY <1>4, <1>20 DEF CallsOpen
  <2>2. ASSUME NEW p \in 1..t - 1, NEW q \in 1..t - 1, p < q
        PROVE  index[work[p].node] < index[work[q].node]
    BY <1>4, <1>20, <2>2 DEF CallsOpen
  <2>3. t # 1 => 1 \in 1..t - 1
    BY <1>3
  <2>4. \A x \in Open' : work' # <<>> /\ index[work'[1].node] <= index[x]
    BY <1>3, <1>20, <1>21, <2>3
  <2> QED BY <1>3, <1>5, <1>20, <2>1, <2>2, <2>4 DEF CallsOpen
<1>23. ASSUME NEW x \in Open', NEW p \in 1..t - 1, Below(x, p)' PROVE Below(x, p)
  <2>1. index[x] < index[n]
    BY <1>13
  <2>2. \A q \in 1..t : q = t \/ q \in 1..t - 1
    BY <1>3
  <2> QED BY <1>3, <1>5, <1>20, <1>23, <2>1, <2>2 DEF Below
<1>24. CallsReach'
  <2> SUFFICES ASSUME NEW p \in 1..t - 1, NEW x \in Open'
               PROVE  /\ index[work[p].node] <= index[x] => Reaches(work[p].node, x)
                      /\ Below(x, p)' => Reaches(x, work[p].node)
    <3>1. \A m, x : Reaches(m, x)' <=> Reaches(m, x)
      BY <1>3
    <3> QED BY <1>3, <1>5, <3>1 DEF CallsReach
  <2>1. x \in Open /\ p \in DOMAIN work
    BY <1>13, <1>20
  <2> QED BY <1>4, <1>23, <2>1 DEF CallsReach
<1>25. ASSUME NEW p \in 1..t - 1
       PROVE  /\ low'[work[p].node] = low[work[p].node]
              /\ low[work[p].node] <= index[work[p].node]
              /\ \E y \in Open : index[y] = low[work[p].node] /\ Reaches(work[p].node, y)
  <2>1. /\ low[work[p].node] <= index[work[p].node]
        /\ \E y \in Open : index[y] = low[work[p].node] /\ Reaches(work[p].node, y)
    BY <1>4, <1>20 DEF LinksReach
  <2>2. CASE p = t - 1
    <3>1. t # 1 /\ low[n] = index[n]
      BY <1>1, <1>3, <2>2
    <3>2. /\ low'[work[p].node] \in {low[work[p].node], index[n]}
          /\ low'[work[p].node] <= low[work[p].node]
      BY <1>3, <1>20, <2>2, <3>1
    <3>3. low[work[p].node] < index[n] /\ low[work[p].node] \in Int /\ index[n] \in Int
      <4>1. index[work[p].node] < index[n] /\ work[p].node \in Q
        BY <1>20
      <4>2. low[work[p].node] \in Int /\ index[work[p].node] \in Int /\ index[n] \in Int
        BY <1>3, <1>6, <4>1
      <4> QED BY <2>1, <4>1, <4>2
    <3>4. low'[work[p].node] # index[n]
      BY <3>2, <3>3
    <3> QED BY <2>1, <3>2, <3>4
  <2>3. CASE p \in 1..t - 2
    BY <1>3, <2>1, <2>3
  <2> QED BY <1>3, <2>2, <2>3
<1>26. LinksReach'
  <2> SUFFICES ASSUME NEW p \in 1..t - 1
               PROVE  /\ low'[work[p].node] <= index[work[p].node]
                      /\ \E z \in Open' : /\ index[z] = low'[work[p].node]
                                          /\ Reaches(work[p].node, z)
    <3>1. \A m, x : Reaches(m, x)' <=> Reaches(m, x)
      BY <1>3
    <3> QED BY <1>3, <1>5, <3>1 DEF LinksReach
  <2>1. PICK y \in Open : index[y] = low[work[p].node] /\ Reaches(work[p].node, y)
    BY <1>25
  <2>2. p \in DOMAIN work /\ index[work[p].node] < index[n]
    BY <1>20
  <2>3. low[work[p].node] <= index[work[p].node]
    BY <1>25
  <2>4. index[work[p].node] \in Int /\ index[n] \in Int /\ low[work[p].node] \in Int
    BY <1>3, <1>6, <1>20
  <2>5. index[y] < index[n]
    BY <2>1, <2>2, <2>3, <2>4
  <2>6. low'[work[p].node] = low[work[p].node]
    BY <1>25
  <2>7. low'[work[p].node] <= index[work[p].node]
    BY <2>3, <2>6
  <2> QED BY <1>13, <2>1, <2>5, <2>6, <2>7
<1>27. EdgesSeen'
  <2> SUFFICES ASSUME NEW p \in 1..t - 1, NEW x \in Open',
                      index[work[p].node] <= index[x], Below(x, p)',
                      NEW z \in adj[x] \ (IF x = work[p].node THEN work[p].succ ELSE {})
               PROVE  z \in Visited /\ (z \in Open => low'[work[p].node] <= index[z])
    BY <1>3, <1>5, <1>14 DEF EdgesSeen
  <2>1. x \in Open /\ p \in DOMAIN work /\ Below(x, p)
    BY <1>13, <1>20, <1>23
  <2>2. z \in Visited /\ (z \in Open => low[work[p].node] <= index[z])
    BY <1>4, <2>1 DEF EdgesSeen
  <2> QED BY <1>25, <2>2
<1>28. ASSUME NEW x \in S, NEW y \in adj[x] PROVE y \in S \/ y \in Closed
  <2>1. x \in Open /\ index[n] <= index[x]
    BY <1>8
  <2>2. Below(x, t)
    <3>1. \A q \in 1..t : ~(t < q)
      BY <1>3
    <3> QED BY <1>3, <3>1 DEF Below
  <2>3. y \in adj[x] \ (IF x = work[t].node THEN work[t].succ ELSE {})
    BY <1>3
  <2>4. y \in Visited /\ (y \in Open => low[n] <= index[y])
    BY <1>3, <1>4, <2>1, <2>2, <2>3 DEF EdgesSeen
  <2>5. CASE y \in Open
    BY <1>1, <1>8, <2>4, <2>5
  <2>6. CASE y \notin Open
    BY <1>4, <2>4, <2>6 DEF Partition
  <2> QED BY <2>5, <2>6
<1>29. Components'
  <2> DEFINE last == Len(sccs) + 1
  <2>0. last \in Nat /\ last \in 1..last /\ \A i \in 1..last : i = last \/ i \in DOMAIN sccs
    BY <1>15
  <2>1. ASSUME NEW i \in 1..last
        PROVE  sccs'[i] # {} /\ \A m, x \in sccs'[i] : Reaches(m, x)
    <3>1. CASE i = last
      BY <1>14, <1>15, <3>1, ReachesTrans
    <3>2. CASE i \in DOMAIN sccs
      BY <1>4, <1>15, <3>2 DEF Components
    <3> QED BY <2>0, <3>1, <3>2
  <2>2. ASSUME NEW i \in 1..last, NEW j \in 1..last, NEW x \in sccs'[i] \cap sccs'[j]
        PROVE  i = j
    <3>1. \A l \in DOMAIN sccs : x \in sccs[l] => x \in Closed
      BY DEF Closed, ToSet
    <3>2. x \in Closed => x \notin S
      BY <1>4, <1>14 DEF Partition
    <3>3. \A l \in 1..last : x \in sccs'[l] => (l = last <=> x \in S)
      <4> TAKE l \in 1..last
      <4>1. CASE l = last
        BY <1>15, <4>1
      <4>2. CASE l \in DOMAIN sccs
        <5>1. l # last
          BY <1>15, <4>2
        <5> QED BY <1>15, <3>1, <3>2, <4>2, <5>1
      <4> QED BY <2>0, <4>1, <4>2
    <3>4. CASE x \in S
      BY <3>3, <3>4
    <3>5. CASE x \notin S
      <4>1. i \in DOMAIN sccs /\ j \in DOMAIN sccs
        BY <2>0, <3>3, <3>5
      <4> QED BY <1>4, <1>15, <4>1 DEF Components
    <3> QED BY <3>4, <3>5
  <2>3. ASSUME NEW i \in 1..last, NEW m \in sccs'[i], NEW x \in adj[m]
        PROVE  \E j \in 1..i : x \in sccs'[j]
    <3>1. CASE i = last
      <4>1. m \in S
        BY <1>15, <3>1
      <4>2. CASE x \in S
        BY <1>15, <2>0, <3>1, <4>2
      <4>3. CASE x \in Closed
        <5>1. PICK j \in DOMAIN sccs : x \in sccs[j]
          BY <4>3 DEF Closed, ToSet
        <5>2. j \in 1..last
          BY <1>15, <5>1
        <5> QED BY <1>15, <3>1, <5>1, <5>2
      <4> QED BY <1>28, <4>1, <4>2, <4>3
    <3>2. CASE i \in DOMAIN sccs
      <4>1. PICK j \in 1..i : x \in sccs[j]
        BY <1>4, <1>15, <3>2 DEF Components
      <4>2. j \in DOMAIN sccs
        BY <1>15, <3>2
      <4> QED BY <1>15, <4>1, <4>2
    <3> QED BY <2>0, <3>1, <3>2
  <2>4. \A m, x : Reaches(m, x)' <=> Reaches(m, x)
    BY <1>3
  <2>5. DOMAIN sccs' = 1..last
    BY <1>15
  <2> HIDE DEF last
  <2> QED BY <1>5, <2>1, <2>2, <2>3, <2>4, <2>5 DEF Components
<1> QED BY <1>17, <1>18, <1>19, <1>22, <1>24, <1>26, <1>27, <1>29 DEF TarjanInv

LEMMA ReturnTarjan ==
  ASSUME Types, TarjanInv, Return PROVE Types' /\ TarjanInv'
  BY ReturnInner, ReturnRoot

-----------------------------------------------------------------------------
(* Steps that leave Tarjan's data alone.                                   *)

LEMMA QuietTarjan ==
  ASSUME Types, TarjanInv, UNCHANGED <<adj, tarjan>>,
         phase' \in {"sorter", "tarjan", "kahn", "done", "error"}, seeds' \subseteq Q
  PROVE  Types' /\ TarjanInv'
<1>1. UNCHANGED <<adj, work, index, low, stack, sccs>>
  BY DEF tarjan
<1>2. Types'
  BY <1>1 DEF Types
<1>3. UNCHANGED <<Visited, Open, Closed>>
  BY <1>1 DEF Visited, Unvisited, Open, Closed
<1>4. \A m, n : Reaches(m, n)' <=> Reaches(m, n)
  BY <1>1, ReachesKept
<1>5. \A x, p : Below(x, p)' <=> Below(x, p)
  BY <1>1 DEF Below
<1>6. Numbering' /\ Partition' /\ CallsOpen'
  BY <1>1, <1>3 DEF TarjanInv, Numbering, Partition, CallsOpen
<1>7. CallsReach' /\ LinksReach'
  BY <1>1, <1>3, <1>4, <1>5 DEF TarjanInv, CallsReach, LinksReach
<1>8. EdgesSeen'
  BY <1>1, <1>3, <1>5 DEF TarjanInv, EdgesSeen
<1>9. Components'
  BY <1>1, <1>4 DEF TarjanInv, Components
<1> QED BY <1>2, <1>6, <1>7, <1>8, <1>9 DEF TarjanInv

-----------------------------------------------------------------------------
(* The components, once all is closed.                                     *)

\* Tarjan's loop is over.
AllClosed == work = <<>> /\ Unvisited = {}

\* The components, by their indices.
LEMMA SccsTyped ==
  ASSUME Types
  PROVE  /\ Len(sccs) \in Nat /\ DOMAIN sccs = 1..Len(sccs) /\ IsFiniteSet(DOMAIN sccs)
         /\ \A i \in DOMAIN sccs : sccs[i] \in SUBSET Q /\ IsFiniteSet(sccs[i])
         /\ Closed = UNION {sccs[i] : i \in DOMAIN sccs}
<1>1. /\ Len(sccs) \in Nat /\ DOMAIN sccs = 1..Len(sccs)
      /\ \A i \in 1..Len(sccs) : sccs[i] \in SUBSET Q
  BY LenProperties, ElementOfSeq DEF Types
<1>2. IsFiniteSet(DOMAIN sccs)
  <2>1. 1 \in Int /\ Len(sccs) \in Int
    BY <1>1
  <2>2. IsFiniteSet(1..Len(sccs))
    BY <2>1, FS_Interval
  <2> QED BY <1>1, <2>2
<1>3. Closed = UNION {sccs[i] : i \in DOMAIN sccs}
  BY DEF Closed, ToSet
<1> QED BY <1>1, <1>2, <1>3, Finite

\* Then every package is in a component.
LEMMA AllInComponents ==
  ASSUME Types, TarjanInv, AllClosed
  PROVE  Closed = Q /\ \A n \in Q : \E i \in DOMAIN sccs : n \in sccs[i]
<1>1. Open = {} /\ Visited = Q
  BY DEF AllClosed, TarjanInv, CallsOpen, Visited
<1>2. Closed = Q
  BY <1>1 DEF TarjanInv, Partition
<1> QED BY <1>2, SccsTyped

\* What a component reaches is in it or in an earlier one.
LEMMA ReachesDown ==
  ASSUME Types, Components, NEW i \in DOMAIN sccs, NEW m \in sccs[i], NEW n, Reaches(m, n)
  PROVE  \E j \in 1..i : n \in sccs[j]
<1> DEFINE T == UNION {sccs[j] : j \in 1..i}
<1>1. i \in 1..i /\ i \in Nat /\ \A j \in 1..i : j \in DOMAIN sccs /\ 1..j \subseteq 1..i
  BY SccsTyped
<1>2. T \in SUBSET Q
  BY <1>1, SccsTyped
<1>3. m \in T
  BY <1>1
<1>4. ASSUME NEW u \in T PROVE adj[u] \subseteq T
  <2>1. PICK j \in 1..i : u \in sccs[j]
    OBVIOUS
  <2>2. \A k \in adj[u] : \E l \in 1..j : k \in sccs[l]
    BY <1>1, <2>1 DEF Components
  <2> QED BY <1>1, <2>1, <2>2
<1> HIDE DEF T
<1>5. n \in T
  BY <1>2, <1>3, <1>4 DEF Reaches
<1> QED BY <1>5 DEF T

\* So they are the classes of mutual dependency.
LEMMA ComponentIsClass ==
  ASSUME Types, TarjanInv, AllClosed, NEW i \in DOMAIN sccs, NEW m \in sccs[i]
  PROVE  sccs[i] = {n \in Q : Mutual(m, n)}
<1>1. Components
  BY DEF TarjanInv
<1>2. ASSUME NEW n \in sccs[i] PROVE n \in Q /\ Mutual(m, n)
  BY <1>1, SccsTyped DEF Components, Mutual
<1>3. ASSUME NEW n \in Q, Mutual(m, n) PROVE n \in sccs[i]
  <2>1. Reaches(m, n) /\ Reaches(n, m)
    BY <1>3 DEF Mutual
  <2>2. PICK j \in 1..i : n \in sccs[j]
    BY <1>1, <2>1, ReachesDown
  <2>3. j \in DOMAIN sccs /\ i \in Int
    BY SccsTyped
  <2>4. PICK k \in 1..j : m \in sccs[k]
    BY <1>1, <2>1, <2>2, <2>3, ReachesDown
  <2>5. k \in DOMAIN sccs
    BY <2>3, SccsTyped
  <2>6. k = i
    BY <1>1, <2>4, <2>5 DEF Components
  <2> QED BY <2>2, <2>3, <2>4, <2>6
<1> QED BY <1>2, <1>3

\* A component is a cycle if one, and then each, of its members depends on a member.
LEMMA CycleMembers ==
  ASSUME Types, TarjanInv, AllClosed, NEW i \in DOMAIN sccs, NEW n \in sccs[i]
  PROVE  IsCycle(sccs[i]) <=> \E m \in adj[n] : Mutual(m, n)
<1>1. /\ n \in Q /\ IsFiniteSet(sccs[i]) /\ adj \in [Q -> SUBSET Q]
      /\ sccs[i] = {m \in Q : Mutual(n, m)}
  BY SccsTyped, ComponentIsClass DEF Types
<1>2. Cardinality(sccs[i]) \in Nat /\ (Cardinality(sccs[i]) = 0 <=> sccs[i] = {})
      /\ (Cardinality(sccs[i]) = 1 <=> \E x : sccs[i] = {x})
  BY <1>1, FS_CardinalityType, FS_EmptySet, FS_Singleton
<1>3. Cardinality(sccs[i]) > 1 <=> \E x \in sccs[i] : x # n
  <2>1. Cardinality(sccs[i]) # 0
    BY <1>2
  <2>2. (\E x : sccs[i] = {x}) <=> ~(\E x \in sccs[i] : x # n)
    OBVIOUS
  <2>3. Cardinality(sccs[i]) > 1 <=> Cardinality(sccs[i]) # 1
    BY <1>2, <2>1
  <2> QED BY <1>2, <2>2, <2>3, Zenon
<1>4. ASSUME NEW x \in sccs[i], x # n PROVE \E m \in adj[n] : Mutual(m, n)
  <2>1. Reaches(n, x) /\ Reaches(x, n)
    BY <1>1 DEF Mutual
  <2>2. PICK m \in adj[n] : Reaches(m, x)
    BY <1>1, <1>4, <2>1, FirstEdge
  <2>3. Reaches(m, n) /\ Reaches(n, m)
    BY <2>1, <2>2, ReachesTrans, ReachesEdge
  <2> QED BY <2>3 DEF Mutual
<1>5. ASSUME IsCycle(sccs[i]) PROVE \E m \in adj[n] : Mutual(m, n)
  <2>1. CASE \E x \in sccs[i] : x # n
    BY <1>4, <2>1
  <2>2. CASE ~\E x \in sccs[i] : x # n
    <3>1. n \in adj[n]
      BY <1>3, <1>5, <2>2 DEF IsCycle
    <3> QED BY <3>1, ReachesSelf DEF Mutual
  <2> QED BY <2>1, <2>2
<1>6. ASSUME NEW m \in adj[n], Mutual(m, n) PROVE IsCycle(sccs[i])
  <2>1. m \in sccs[i]
    BY <1>1, <1>6 DEF Mutual
  <2>2. CASE m = n
    BY <2>2 DEF IsCycle
  <2>3. CASE m # n
    BY <1>3, <2>1, <2>3 DEF IsCycle
  <2> QED BY <2>2, <2>3
<1> QED BY <1>5, <1>6

\* The rule on components is the rule on packages.
LEMMA RefusedMeans ==
  ASSUME Types, TarjanInv, AllClosed
  PROVE  Refused <=> \E n \in Q : /\ \E m \in adj[n] : Mutual(m, n)
                                  /\ \A m \in seeds : ~Mutual(m, n)
<1>1. ASSUME NEW i \in DOMAIN sccs, NEW n \in sccs[i]
      PROVE  Seeded(sccs[i], seeds) <=> \E m \in seeds : Mutual(m, n)
  <2>1. sccs[i] = {m \in Q : Mutual(n, m)} /\ seeds \subseteq Q
    BY ComponentIsClass DEF Types
  <2>2. \A m : Mutual(n, m) <=> Mutual(m, n)
    BY DEF Mutual
  <2>3. Seeded(sccs[i], seeds) <=> \E m \in seeds : m \in sccs[i]
    BY DEF Seeded
  <2> QED BY <2>1, <2>2, <2>3
<1>2. ASSUME NEW i \in DOMAIN sccs, IsCycle(sccs[i]), ~Seeded(sccs[i], seeds)
      PROVE  \E n \in Q : (\E m \in adj[n] : Mutual(m, n)) /\ (\A m \in seeds : ~Mutual(m, n))
  <2>1. PICK n \in sccs[i] : TRUE
    BY DEF TarjanInv, Components
  <2>2. n \in Q
    BY SccsTyped
  <2> QED BY <1>1, <1>2, <2>2, CycleMembers
<1>3. ASSUME NEW n \in Q, \E m \in adj[n] : Mutual(m, n), \A m \in seeds : ~Mutual(m, n)
      PROVE  Refused
  <2>1. PICK i \in DOMAIN sccs : n \in sccs[i]
    BY AllInComponents
  <2> QED BY <1>1, <1>3, <2>1, CycleMembers DEF Refused
<1> QED BY <1>2, <1>3 DEF Refused

\* The components a component waits for are finitely many others, later in the order
\* in which they were closed.
LEMMA BeforeFacts ==
  ASSUME Types, Components, NEW i \in DOMAIN sccs
  PROVE  /\ Before(i) \subseteq DOMAIN sccs /\ i \notin Before(i)
         /\ \A T : IsFiniteSet(Before(i) \ T) /\ Cardinality(Before(i) \ T) \in Nat
                   /\ (Cardinality(Before(i) \ T) = 0 <=> Before(i) \subseteq T)
         /\ \A j \in Before(i) : i < j
<1>1. Before(i) \subseteq DOMAIN sccs /\ i \notin Before(i)
  BY DEF Before
<1>2. ASSUME NEW T
      PROVE  IsFiniteSet(Before(i) \ T) /\ Cardinality(Before(i) \ T) \in Nat
             /\ (Cardinality(Before(i) \ T) = 0 <=> Before(i) \subseteq T)
  <2>1. Before(i) \ T \in SUBSET DOMAIN sccs
    BY <1>1
  <2>2. IsFiniteSet(Before(i) \ T)
    BY <2>1, SccsTyped, FS_Subset
  <2>3. Before(i) \ T = {} <=> Before(i) \subseteq T
    OBVIOUS
  <2> QED BY <2>2, <2>3, FS_CardinalityType, FS_EmptySet
<1>3. ASSUME NEW j \in Before(i) PROVE i < j
  <2>1. j \in DOMAIN sccs /\ j # i /\ i \in Int /\ j \in Int
    BY <1>1, SccsTyped
  <2>2. PICK e \in Edges : e[1] \in sccs[j] /\ e[2] \in sccs[i]
    BY DEF Before
  <2>3. e[2] \in adj[e[1]]
    BY DEF Edges
  <2>4. PICK k \in 1..j : e[2] \in sccs[k]
    BY <2>1, <2>2, <2>3 DEF Components
  <2>5. k \in DOMAIN sccs
    BY <2>1, SccsTyped
  <2>6. k = i
    BY <2>2, <2>4, <2>5 DEF Components
  <2> QED BY <2>1, <2>4, <2>6
<1> QED BY <1>1, <1>2, <1>3

-----------------------------------------------------------------------------
(* Sorting a set.                                                          *)

\* A finite set of numbers can be listed in increasing order: each at its rank.
LEMMA SortedExists ==
  ASSUME NEW c, c \subseteq Nat, IsFiniteSet(c)
  PROVE  \E s \in [1..Cardinality(c) -> c] : \A i, j \in DOMAIN s : i < j => s[i] < s[j]
<1> DEFINE N == Cardinality(c)
           Upto(x) == {y \in c : y <= x}
           rank == [x \in c |-> Cardinality(Upto(x))]
<1>1. N \in Nat
  BY FS_CardinalityType
<1>2. ASSUME NEW x \in c PROVE IsFiniteSet(Upto(x)) /\ rank[x] \in 1..N
  <2>1. Upto(x) \in SUBSET c /\ x \in Upto(x)
    OBVIOUS
  <2>2. IsFiniteSet(Upto(x)) /\ Cardinality(Upto(x)) <= N
    BY <2>1, FS_Subset
  <2>3. Cardinality(Upto(x)) \in Nat /\ Cardinality(Upto(x)) # 0
    BY <2>1, <2>2, FS_CardinalityType, FS_EmptySet
  <2> QED BY <1>1, <2>2, <2>3
<1>3. ASSUME NEW x \in c, NEW y \in c, x < y PROVE rank[x] < rank[y]
  <2>0. x \in Nat /\ y \in Nat /\ \A z \in c : z \in Nat
    OBVIOUS
  <2>1. Upto(x) \in SUBSET Upto(y) /\ y \in Upto(y) /\ y \notin Upto(x)
    <3>1. \A z \in c : z <= x => z <= y
      BY <1>3, <2>0
    <3>2. y <= y /\ ~(y <= x)
      BY <1>3, <2>0
    <3> QED BY <3>1, <3>2
  <2>2. IsFiniteSet(Upto(y))
    BY <1>2
  <2>3. Cardinality(Upto(x)) <= Cardinality(Upto(y))
        /\ Cardinality(Upto(x)) # Cardinality(Upto(y))
    <3> HIDE DEF Upto
    <3> QED BY <2>1, <2>2, FS_Subset
  <2>4. rank[x] \in Int /\ rank[y] \in Int
    BY <1>2
  <2> QED BY <2>3, <2>4
<1>4. rank \in [c -> 1..N]
  BY <1>2
<1> HIDE DEF rank, Upto
<1>5. \A x, y \in c : rank[x] = rank[y] => x = y
  <2> TAKE x \in c, y \in c
  <2>1. x \in Nat /\ y \in Nat /\ rank[x] \in Int /\ rank[y] \in Int
    BY <1>4
  <2> QED BY <1>3, <2>1
<1>6. rank \in Surjection(c, 1..N)
  <2>1. rank \in Injection(c, 1..N)
    BY <1>4, <1>5 DEF Injection, IsInjective
  <2>2. 1 \in Int /\ N \in Int
    BY <1>1
  <2>3. IsFiniteSet(1..N) /\ Cardinality(1..N) = IF 1 > N THEN 0 ELSE N - 1 + 1
    BY <2>2, FS_Interval
  <2>4. Cardinality(c) = Cardinality(1..N)
    BY <1>1, <2>3
  <2> QED BY <2>1, <2>3, <2>4, FS_Injection
<1>7. \A i \in 1..N : \E x \in c : rank[x] = i
  BY <1>6 DEF Surjection
<1> DEFINE s == [i \in 1..N |-> CHOOSE x \in c : rank[x] = i]
<1>8. \A i \in 1..N : s[i] \in c /\ rank[s[i]] = i
  BY <1>7
<1>9. s \in [1..N -> c] /\ DOMAIN s = 1..N
  BY <1>8
<1>10. ASSUME NEW i \in 1..N, NEW j \in 1..N, i < j PROVE s[i] < s[j]
  <2>1. s[i] \in c /\ s[j] \in c /\ rank[s[i]] = i /\ rank[s[j]] = j
    BY <1>8
  <2> HIDE DEF s
  <2>2. s[i] \in Nat /\ s[j] \in Nat /\ i \in Int /\ j \in Int
    <3>1. s[i] \in Nat /\ s[j] \in Nat
      BY <2>1
    <3> QED BY <1>1, <3>1
  <2>3. s[j] < s[i] => j < i
    BY <1>3, <2>1
  <2>4. s[i] # s[j]
    BY <1>10, <2>1, <2>2
  <2> QED BY <1>10, <2>2, <2>3, <2>4
<1> HIDE DEF s, N
<1>11. \A i, j \in DOMAIN s : i < j => s[i] < s[j]
  BY <1>9, <1>10
<1> QED BY <1>9, <1>11 DEF N

\* What is in the list is what is in the set, each once.
LEMMA SortedFacts ==
  ASSUME NEW c, c \in SUBSET Q
  PROVE  /\ Sorted(c) \in Seq(Q) /\ Len(Sorted(c)) \in Nat
         /\ DOMAIN Sorted(c) = 1..Len(Sorted(c))
         /\ ToSet(Sorted(c)) = c
         /\ \A i, j \in DOMAIN Sorted(c) : Sorted(c)[i] = Sorted(c)[j] => i = j
<1>1. IsFiniteSet(c) /\ c \subseteq Nat /\ Cardinality(c) \in Nat
  BY Finite, FS_CardinalityType
<1>2. PICK s : s = Sorted(c)
  OBVIOUS
<1>3. s \in [1..Cardinality(c) -> c] /\ \A i, j \in DOMAIN s : i < j => s[i] < s[j]
  BY <1>1, <1>2, SortedExists DEF Sorted
<1>4. s \in Seq(Q) /\ Len(s) = Cardinality(c) /\ DOMAIN s = 1..Cardinality(c)
  <2>1. s \in [1..Cardinality(c) -> Q]
    BY <1>3
  <2>2. s \in Seq(Q)
    BY <1>1, <2>1, IsASeq
  <2> QED BY <1>1, <1>3, <2>2, LenProperties
<1>5. \A i, j \in 1..Cardinality(c) : s[i] = s[j] => i = j
  <2> TAKE i \in 1..Cardinality(c), j \in 1..Cardinality(c)
  <2>1. s[i] \in Nat /\ s[j] \in Nat /\ i \in Int /\ j \in Int
    <3>1. s[i] \in c /\ s[j] \in c
      BY <1>3
    <3>2. s[i] \in Nat /\ s[j] \in Nat
      BY <1>1, <3>1
    <3> QED BY <1>1, <3>2
  <2>2. (i < j => s[i] < s[j]) /\ (j < i => s[j] < s[i])
    BY <1>3, <1>4
  <2> QED BY <2>1, <2>2
<1>6. s \in Surjection(1..Cardinality(c), c)
  <2>1. s \in Injection(1..Cardinality(c), c)
    BY <1>3, <1>5 DEF Injection, IsInjective
  <2>2. 1 \in Int /\ Cardinality(c) \in Int
    BY <1>1
  <2>3. Cardinality(1..Cardinality(c)) = IF 1 > Cardinality(c) THEN 0 ELSE Cardinality(c) - 1 + 1
    BY <2>2, FS_Interval
  <2>4. Cardinality(1..Cardinality(c)) = Cardinality(c)
    BY <1>1, <2>3
  <2> QED BY <1>1, <2>1, <2>4, FS_Injection
<1>7. ToSet(s) = c
  <2>1. \A x \in c : \E i \in 1..Cardinality(c) : s[i] = x
    BY <1>6 DEF Surjection
  <2> QED BY <1>3, <1>4, <2>1 DEF ToSet
<1> QED BY <1>1, <1>2, <1>4, <1>5, <1>7

-----------------------------------------------------------------------------
(* The first steps and the last.                                           *)

LEMMA InitIInv == Init => IInv
<1> SUFFICES ASSUME Init PROVE IInv
  OBVIOUS
<1>1. /\ phase = "sorter" /\ adj \in [Q -> SUBSET Q]
      /\ work = <<>> /\ stack = <<>> /\ sccs = <<>> /\ seeds = {} /\ waits = <<>>
      /\ frontier = {} /\ order = <<>> /\ second = <<>>
      /\ index = [n \in Q |-> -1] /\ low = [n \in Q |-> -1]
  BY GraphsAssumption DEF Init
<1>2. -1 \in Ranks
  BY Finite DEF Ranks
<1>3. Types
  BY <1>1, <1>2 DEF Types
<1>4. Visited = {} /\ Open = {} /\ Closed = {}
  BY <1>1 DEF Visited, Unvisited, Open, Closed, ToSet
<1>5. TarjanInv
  BY <1>1, <1>4 DEF TarjanInv, Numbering, Partition, CallsOpen, CallsReach, LinksReach,
                    EdgesSeen, Components
<1>6. ~Ordering /\ phase # "error" /\ phase # "done"
  BY <1>1 DEF Ordering
<1>7. KahnInv
  BY <1>1, <1>6 DEF KahnInv, Phases, KahnTypes, Counting, Emission, SecondPass, Final, ToSet
<1> QED BY <1>3, <1>5, <1>7 DEF IInv

\* The external sorter has the last word, or none.
LEMMA SorterInv == ASSUME IInv, Sorter PROVE IInv'
<1>1. /\ phase = "sorter" /\ UNCHANGED <<adj, tarjan, seeds, waits, frontier, second>>
      /\ \/ phase' = "done" /\ ToSet(order') = Q /\ Len(order') = Cardinality(Q)
         \/ phase' = "tarjan" /\ order' = order
  BY DEF Sorter, Trusted
<1>2. Types' /\ TarjanInv'
  BY <1>1, QuietTarjan DEF IInv, Types
<1>3. /\ sccs = <<>> /\ work = <<>> /\ sccs' = sccs /\ work' = work
      /\ waits = <<>> /\ frontier = {} /\ order = <<>> /\ second = <<>>
  BY <1>1 DEF IInv, KahnInv, Phases, tarjan
<1>4. ~Ordering' /\ phase' # "error"
  BY <1>1, <1>3 DEF Ordering
<1>5. Phases' /\ Final'
  BY <1>1, <1>3, <1>4 DEF Phases, Final
<1>6. KahnTypes'
  BY <1>1, <1>3 DEF KahnTypes, ToSet
<1>7. Counting' /\ Emission' /\ SecondPass'
  BY <1>4 DEF Counting, Emission, SecondPass
<1> QED BY <1>2, <1>5, <1>6, <1>7 DEF IInv, KahnInv

\* While Tarjan's loop runs, Kahn's has not begun.
LEMMA TarjanKahn ==
  ASSUME KahnInv, phase = "tarjan", phase' = phase, UNCHANGED kahn PROVE KahnInv'
<1>1. /\ waits' = <<>> /\ frontier' = {} /\ order' = <<>> /\ second' = <<>>
  BY DEF KahnInv, Phases, kahn
<1>2. ~Ordering' /\ phase' \notin {"sorter", "error", "done"}
  BY DEF Ordering
<1>3. Phases' /\ KahnTypes' /\ Final'
  BY <1>1, <1>2 DEF Phases, KahnTypes, Final, ToSet
<1>4. Counting' /\ Emission' /\ SecondPass'
  BY <1>2 DEF Counting, Emission, SecondPass
<1> QED BY <1>3, <1>4 DEF KahnInv

\* The seeds are looked at: the queue is refused, or Kahn's loop begins with nothing
\* emitted.
LEMMA CheckSeedsInv == ASSUME IInv, CheckSeeds PROVE IInv'
<1>1. /\ phase = "tarjan" /\ work = <<>> /\ Unvisited = {} /\ seeds' \subseteq Q
      /\ UNCHANGED <<adj, tarjan, order, second>>
      /\ phase' \in {"kahn", "error"}
  BY SeedSetsAssumption DEF CheckSeeds
<1>2. Types' /\ TarjanInv'
  BY <1>1, QuietTarjan DEF IInv
<1>3. /\ UNCHANGED <<sccs, work, Unvisited>>
      /\ waits = <<>> /\ frontier = {} /\ order' = <<>> /\ second' = <<>>
  BY <1>1 DEF IInv, KahnInv, Phases, tarjan, Unvisited
<1>4. /\ \A i : Before(i)' = Before(i)
      /\ \A i : IsCycle(sccs[i])' <=> IsCycle(sccs[i])
      /\ Emitted' = {} /\ ToSet(order') = {} /\ ToSet(second') = {}
  <2>1. ToSet(order') = {} /\ ToSet(second') = {}
    BY <1>3 DEF ToSet
  <2> QED BY <1>1, <1>3, <2>1 DEF Before, Edges, IsCycle, Emitted
<1>5. Refused' <=> ~\A i \in DOMAIN sccs : IsCycle(sccs[i]) => Seeded(sccs[i], seeds')
  BY <1>3, <1>4 DEF Refused, Seeded
<1>6. phase' = "error" <=> Refused'
  BY <1>5 DEF CheckSeeds
<1>7. phase' = "error" => waits' = <<>> /\ frontier' = {}
  BY <1>3 DEF CheckSeeds
<1>8. phase' = "kahn" =>
        /\ waits' = [i \in DOMAIN sccs |-> Waiting(i)]
        /\ frontier' = {i \in DOMAIN sccs : Waiting(i) = 0}
  BY DEF CheckSeeds
<1>9. Phases'
  BY <1>1, <1>3, <1>6, <1>7 DEF Phases, Ordering
<1>10. \A i \in DOMAIN sccs : /\ Waiting(i) = Cardinality(Before(i) \ {}) /\ Waiting(i) \in Nat
                              /\ (Waiting(i) = 0 <=> Before(i) \subseteq {})
  <2> TAKE i \in DOMAIN sccs
  <2>1. Waiting(i) = Cardinality(Before(i)) /\ Before(i) \ {} = Before(i)
    BY DEF Waiting
  <2>2. Types /\ Components
    BY DEF IInv, TarjanInv
  <2>3. PICK none : none = {}
    OBVIOUS
  <2>4. /\ Cardinality(Before(i) \ none) \in Nat
        /\ (Cardinality(Before(i) \ none) = 0 <=> Before(i) \subseteq none)
    BY <2>2, BeforeFacts
  <2>5. Before(i) \ none = Before(i)
    BY <2>3
  <2> QED BY <2>1, <2>3, <2>4, <2>5
<1>11. Counting'
  <2> SUFFICES ASSUME phase' = "kahn" PROVE Counting'
    BY <1>1 DEF Counting, Ordering
  <2>1. waits' \in [DOMAIN sccs -> Nat]
    BY <1>8, <1>10
  <2>2. \A i \in DOMAIN sccs : waits'[i] = Cardinality(Before(i) \ {})
    BY <1>8, <1>10
  <2>3. frontier' = {i \in DOMAIN sccs \ {} : Before(i) \subseteq {}}
    BY <1>8, <1>10
  <2> QED BY <1>3, <1>4, <2>1, <2>2, <2>3 DEF Counting
<1>12. KahnTypes'
  <2>1. ToSet(order') \subseteq Q /\ ToSet(second') \subseteq Q
    BY <1>4
  <2>2. CASE phase' = "error"
    BY <1>7, <2>1, <2>2 DEF KahnTypes
  <2>3. CASE phase' = "kahn"
    BY <1>3, <1>8, <1>10, <2>1, <2>3 DEF KahnTypes
  <2> QED BY <1>1, <2>2, <2>3
<1>13. Emission' /\ SecondPass'
  <2>1. order' \in Seq(Q) /\ DOMAIN order' = {} /\ second' \in Seq(Q) /\ DOMAIN second' = {}
    BY <1>3, EmptySeq
  <2>2. UNION {sccs'[i] : i \in Emitted'} = {}
    BY <1>4
  <2>3. UNION {sccs'[i] : i \in {e \in Emitted' : IsCycle(sccs[e])'}} = {}
    BY <1>4
  <2>4. Emission'
    BY <1>4, <2>1, <2>2 DEF Emission
  <2>5. SecondPass'
    BY <1>4, <2>1, <2>3 DEF SecondPass
  <2> QED BY <2>4, <2>5
<1>14. Final'
  BY <1>1 DEF Final
<1> QED BY <1>2, <1>9, <1>11, <1>12, <1>13, <1>14 DEF IInv, KahnInv

\* A list without repetition that holds the queue is as long as the queue.
LEMMA FullLength ==
  ASSUME NEW s \in Seq(Q), ToSet(s) = Q, \A a, b \in DOMAIN s : s[a] = s[b] => a = b
  PROVE  Len(s) = Cardinality(Q)
<1>1. Len(s) \in Nat /\ DOMAIN s = 1..Len(s) /\ s \in [1..Len(s) -> Q]
  BY LenProperties
<1>2. s \in Injection(1..Len(s), Q)
  BY <1>1 DEF Injection, IsInjective
<1>3. \A n \in Q : \E i \in 1..Len(s) : s[i] = n
  BY <1>1 DEF ToSet
<1>4. s \in Surjection(1..Len(s), Q)
  BY <1>1, <1>3 DEF Surjection
<1>5. 1 \in Int /\ Len(s) \in Int
  BY <1>1
<1>6. Cardinality(1..Len(s)) = IF 1 > Len(s) THEN 0 ELSE Len(s) - 1 + 1
  BY <1>5, FS_Interval
<1>7. Cardinality(1..Len(s)) = Len(s)
  BY <1>1, <1>6
<1> QED BY <1>2, <1>4, <1>7, QAssumption, FS_Injection

\* Kahn's loop never stops short: of the components that are left, the last closed
\* waits for none.
LEMMA NothingLeft ==
  ASSUME IInv, phase = "kahn", frontier = {}
  PROVE  Emitted = DOMAIN sccs /\ ToSet(order) = Q /\ Len(order) = Cardinality(Q)
<1>1. Types /\ TarjanInv /\ Components /\ Counting /\ Emission /\ Ordering /\ AllClosed
  BY DEF IInv, TarjanInv, KahnInv, Phases, Ordering, AllClosed
<1>2. ASSUME Emitted # DOMAIN sccs PROVE FALSE
  <2> DEFINE T == DOMAIN sccs \ Emitted
  <2>1. T # {} /\ T \subseteq Nat /\ Len(sccs) \in Nat /\ \A k \in T : k <= Len(sccs)
    BY <1>1, <1>2, SccsTyped DEF Emitted
  <2> HIDE DEF T
  <2>2. PICK i \in T : \A k \in T : k <= i
    BY <2>1, Greatest
  <2> USE DEF T
  <2>3. \A j \in Before(i) : j \in DOMAIN sccs /\ i < j
    BY <1>1, BeforeFacts
  <2>4. Before(i) \subseteq Emitted
    BY <1>1, <2>2, <2>3, SccsTyped
  <2>5. i \in frontier
    BY <1>1, <2>4 DEF Counting
  <2> QED BY <2>5
<1>3. ToSet(order) = Closed
  <2>1. ToSet(order) = UNION {sccs[i] : i \in DOMAIN sccs}
    BY <1>1, <1>2 DEF Emission
  <2> QED BY <1>1, <2>1, SccsTyped
<1>4. ToSet(order) = Q
  BY <1>1, <1>3, AllInComponents
<1>5. Len(order) = Cardinality(Q)
  BY <1>1, <1>4, FullLength DEF Emission
<1> QED BY <1>2, <1>4, <1>5

LEMMA FinishInv == ASSUME IInv, Finish PROVE IInv'
<1>1. /\ phase = "kahn" /\ frontier = {} /\ phase' = "done"
      /\ UNCHANGED <<adj, tarjan, seeds, waits, frontier, order, second>>
  BY DEF Finish, kahn
<1>2. Types' /\ TarjanInv'
  BY <1>1, QuietTarjan DEF IInv, Types
<1>3. ToSet(order) = Q /\ Len(order) = Cardinality(Q)
  BY <1>1, NothingLeft
<1>4. /\ Ordering /\ UNCHANGED <<sccs, work, Unvisited, Emitted, Refused>>
      /\ \A i : Before(i)' = Before(i)
      /\ \A i : IsCycle(sccs[i])' <=> IsCycle(sccs[i])
  BY <1>1 DEF Ordering, tarjan, Unvisited, Emitted, Refused, Seeded, IsCycle, Before, Edges
<1>5. Phases'
  BY <1>1, <1>4 DEF IInv, KahnInv, Phases, Ordering
<1>6. KahnTypes' /\ Final'
  BY <1>1, <1>3, <1>4 DEF IInv, KahnInv, KahnTypes, Final
<1>7. Counting' /\ Emission'
  BY <1>1, <1>4 DEF IInv, KahnInv, Counting, Emission
<1>8. SecondPass'
  <2>1. {e \in Emitted' : IsCycle(sccs[e])'} = {e \in Emitted : IsCycle(sccs[e])}
    BY <1>4
  <2> QED BY <1>1, <1>4, <2>1 DEF IInv, KahnInv, SecondPass
<1> QED BY <1>2, <1>5, <1>6, <1>7, <1>8 DEF IInv, KahnInv

LEMMA StutterInv == ASSUME IInv, UNCHANGED vars PROVE IInv'
<1>1. /\ phase' = phase /\ UNCHANGED <<adj, tarjan, seeds, waits, frontier, order, second>>
  BY DEF vars, tarjan
<1>2. Types' /\ TarjanInv'
  BY <1>1, QuietTarjan DEF IInv, Types
<1>3. /\ UNCHANGED <<sccs, work, Unvisited, Emitted, Refused, Ordering>>
      /\ \A i : Before(i)' = Before(i)
      /\ \A i : IsCycle(sccs[i])' <=> IsCycle(sccs[i])
  BY <1>1 DEF Ordering, tarjan, Unvisited, Emitted, Refused, Seeded, IsCycle, Before, Edges
<1>4. Phases'
  BY <1>1, <1>3 DEF IInv, KahnInv, Phases
<1>5. KahnTypes' /\ Final'
  BY <1>1, <1>3 DEF IInv, KahnInv, KahnTypes, Final
<1>6. Counting' /\ Emission'
  BY <1>1, <1>3 DEF IInv, KahnInv, Counting, Emission
<1>7. SecondPass'
  <2>1. {e \in Emitted' : IsCycle(sccs[e])'} = {e \in Emitted : IsCycle(sccs[e])}
    BY <1>3
  <2> QED BY <1>1, <1>3, <2>1 DEF IInv, KahnInv, SecondPass
<1> QED BY <1>2, <1>4, <1>5, <1>6, <1>7 DEF IInv, KahnInv

-----------------------------------------------------------------------------
(* Kahn's loop: a component is emitted.                                    *)

\* What the step does: a ready component goes on the order, and is emitted.
LEMMA EmitFacts ==
  ASSUME IInv, Emit
  PROVE  \E c \in DOMAIN sccs \ Emitted, s \in Seq(Q) :
    /\ Before(c) \subseteq Emitted
    /\ Len(s) \in Nat /\ DOMAIN s = 1..Len(s) /\ ToSet(s) = sccs[c]
    /\ \A i, j \in DOMAIN s : s[i] = s[j] => i = j
    /\ order' = order \o s
    /\ second' = IF IsCycle(sccs[c]) THEN second \o s ELSE second
    /\ waits' = [d \in DOMAIN sccs |-> IF c \in Before(d) THEN waits[d] - 1 ELSE waits[d]]
    /\ frontier' = (frontier \ {c}) \cup {d \in DOMAIN sccs : c \in Before(d) /\ waits[d] = 1}
<1>1. phase = "kahn" /\ Counting /\ Types /\ Ordering
  BY DEF Emit, IInv, KahnInv, Ordering
<1>2. PICK c \in frontier :
        /\ order' = order \o Sorted(sccs[c])
        /\ second' = IF IsCycle(sccs[c]) THEN second \o Sorted(sccs[c]) ELSE second
        /\ waits' = [d \in DOMAIN sccs |-> IF d \in {e \in DOMAIN sccs : c \in Before(e)}
                                          THEN waits[d] - 1 ELSE waits[d]]
        /\ frontier' = (frontier \ {c})
                         \cup {d \in {e \in DOMAIN sccs : c \in Before(e)} : waits[d] = 1}
  BY DEF Emit
<1>3. c \in DOMAIN sccs \ Emitted /\ Before(c) \subseteq Emitted
  BY <1>1 DEF Counting
<1>4. sccs[c] \in SUBSET Q
  BY <1>1, <1>3, SccsTyped
<1>5. PICK s : s = Sorted(sccs[c])
  OBVIOUS
<1>6. /\ s \in Seq(Q) /\ Len(s) \in Nat /\ DOMAIN s = 1..Len(s) /\ ToSet(s) = sccs[c]
      /\ \A i, j \in DOMAIN s : s[i] = s[j] => i = j
  BY <1>4, <1>5, SortedFacts
<1>7. waits' = [d \in DOMAIN sccs |-> IF c \in Before(d) THEN waits[d] - 1 ELSE waits[d]]
  BY <1>2
<1>8. frontier' = (frontier \ {c}) \cup {d \in DOMAIN sccs : c \in Before(d) /\ waits[d] = 1}
  BY <1>2
<1> QED BY <1>2, <1>3, <1>5, <1>6, <1>7, <1>8

\* Two lists one after the other, by their positions.
LEMMA Joined ==
  ASSUME NEW a \in Seq(Q), NEW b \in Seq(Q)
  PROVE  /\ a \o b \in Seq(Q) /\ ToSet(a \o b) = ToSet(a) \cup ToSet(b)
         /\ Len(a) \in Nat /\ DOMAIN a = 1..Len(a) /\ DOMAIN b = 1..Len(b)
         /\ \A i \in DOMAIN (a \o b) :
              /\ i \in Int
              /\ \/ i \in DOMAIN a /\ i <= Len(a) /\ (a \o b)[i] = a[i]
                 \/ /\ i - Len(a) \in DOMAIN b /\ i > Len(a)
                    /\ (a \o b)[i] = b[i - Len(a)]
         /\ \A i \in DOMAIN a : i \in DOMAIN (a \o b) /\ (a \o b)[i] = a[i]
         /\ \A i \in DOMAIN b : /\ Len(a) + i \in DOMAIN (a \o b)
                                /\ (a \o b)[Len(a) + i] = b[i]
<1>0. PICK s : s = a \o b
  OBVIOUS
<1>1. /\ Len(a) \in Nat /\ Len(b) \in Nat /\ DOMAIN a = 1..Len(a) /\ DOMAIN b = 1..Len(b)
  BY LenProperties
<1>2. /\ s \in Seq(Q) /\ Len(s) = Len(a) + Len(b)
      /\ \A i \in 1..Len(a) + Len(b) : s[i] = IF i <= Len(a) THEN a[i] ELSE b[i - Len(a)]
  BY <1>0, ConcatProperties
<1>3. DOMAIN s = 1..Len(a) + Len(b)
  BY <1>2, LenProperties
<1>4. ASSUME NEW i \in DOMAIN s
      PROVE  /\ i \in Int
             /\ \/ i \in DOMAIN a /\ i <= Len(a) /\ s[i] = a[i]
                \/ i - Len(a) \in DOMAIN b /\ i > Len(a) /\ s[i] = b[i - Len(a)]
  BY <1>1, <1>2, <1>3
<1>5. ASSUME NEW i \in DOMAIN a PROVE i \in DOMAIN s /\ s[i] = a[i]
  BY <1>1, <1>2, <1>3
<1>6. ASSUME NEW i \in DOMAIN b PROVE Len(a) + i \in DOMAIN s /\ s[Len(a) + i] = b[i]
  <2>1. i \in Int /\ i >= 1 /\ i <= Len(b)
    BY <1>1
  <2>2. Len(a) + i \in 1..Len(a) + Len(b) /\ ~(Len(a) + i <= Len(a)) /\ Len(a) + i - Len(a) = i
    BY <1>1, <2>1
  <2> QED BY <1>2, <1>3, <2>2
<1>7. ToSet(s) = ToSet(a) \cup ToSet(b)
  <2>1. \A i \in DOMAIN s : s[i] \in ToSet(a) \cup ToSet(b)
    BY <1>4 DEF ToSet
  <2>2. \A i \in DOMAIN a : a[i] \in ToSet(s)
    BY <1>5 DEF ToSet
  <2>3. \A i \in DOMAIN b : b[i] \in ToSet(s)
    BY <1>6 DEF ToSet
  <2> QED BY <2>1, <2>2, <2>3 DEF ToSet
<1> QED BY <1>0, <1>1, <1>2, <1>4, <1>5, <1>6, <1>7

LEMMA EmitInv == ASSUME IInv, Emit PROVE IInv'
<1>1. /\ phase = "kahn" /\ UNCHANGED <<phase, adj, tarjan, seeds>>
      /\ UNCHANGED <<work, sccs>>
  BY DEF Emit, tarjan
<1>2. Types' /\ TarjanInv'
  BY <1>1, QuietTarjan DEF IInv, Types
<1>3. Types /\ Components /\ Ordering /\ Phases /\ Counting /\ Emission /\ SecondPass
  BY <1>1 DEF IInv, TarjanInv, KahnInv, Ordering
<1>4. PICK c \in DOMAIN sccs \ Emitted, s \in Seq(Q) :
        /\ Before(c) \subseteq Emitted
        /\ Len(s) \in Nat /\ DOMAIN s = 1..Len(s) /\ ToSet(s) = sccs[c]
        /\ \A i, j \in DOMAIN s : s[i] = s[j] => i = j
        /\ order' = order \o s
        /\ second' = IF IsCycle(sccs[c]) THEN second \o s ELSE second
        /\ waits' = [d \in DOMAIN sccs |-> IF c \in Before(d) THEN waits[d] - 1 ELSE waits[d]]
        /\ frontier' = (frontier \ {c}) \cup {d \in DOMAIN sccs : c \in Before(d) /\ waits[d] = 1}
  BY EmitFacts
<1>5. /\ order \in Seq(Q) /\ second \in Seq(Q)
      /\ ToSet(order) = UNION {sccs[i] : i \in Emitted}
      /\ ToSet(second) = UNION {sccs[i] : i \in {e \in Emitted : IsCycle(sccs[e])}}
  BY <1>3 DEF Emission, SecondPass
<1>6. /\ order' \in Seq(Q) /\ ToSet(order') = ToSet(order) \cup sccs[c]
      /\ Len(order) \in Nat /\ DOMAIN order = 1..Len(order)
      /\ \A i \in DOMAIN order' :
           /\ i \in Int
           /\ \/ i \in DOMAIN order /\ i <= Len(order) /\ order'[i] = order[i]
              \/ /\ i - Len(order) \in DOMAIN s /\ i > Len(order)
                 /\ order'[i] = s[i - Len(order)]
  BY <1>4, <1>5, Joined
<1>7. \A i, j \in DOMAIN sccs : \A n \in sccs[i] \cap sccs[j] : i = j
  BY <1>3 DEF Components
<1>8. Emitted' = Emitted \cup {c}
  <2>1. sccs[c] # {}
    BY <1>3 DEF Components
  <2>2. Emitted' = {i \in DOMAIN sccs : sccs[i] \cap (ToSet(order) \cup sccs[c]) # {}}
    BY <1>1, <1>6 DEF Emitted
  <2>3. \A i \in DOMAIN sccs : sccs[i] \cap sccs[c] # {} <=> i = c
    BY <1>7, <2>1
  <2> QED BY <2>2, <2>3 DEF Emitted
<1>9. /\ \A i : Before(i)' = Before(i)
      /\ \A i : IsCycle(sccs[i])' <=> IsCycle(sccs[i])
      /\ UNCHANGED <<Refused, Unvisited>> /\ Ordering'
  <2>1. Unvisited' = Unvisited
    BY <1>1 DEF tarjan, Unvisited
  <2> QED BY <1>1, <1>3, <2>1 DEF Before, Edges, IsCycle, Refused, Seeded, Ordering
<1>10. /\ sccs[c] \cap ToSet(order) = {}
       /\ \A i \in DOMAIN order : order[i] \notin sccs[c]
       /\ \A i \in DOMAIN s : s[i] \in sccs[c]
  <2>1. sccs[c] \cap ToSet(order) = {}
    BY DEF Emitted
  <2> QED BY <1>4, <2>1 DEF ToSet
<1>11. Phases'
  BY <1>1, <1>3, <1>9 DEF Phases, Ordering
<1>12. /\ waits \in [DOMAIN sccs -> Nat]
       /\ \A i \in DOMAIN sccs : waits[i] = Cardinality(Before(i) \ Emitted)
       /\ frontier = {i \in DOMAIN sccs \ Emitted : Before(i) \subseteq Emitted}
       /\ \A i \in Emitted : Before(i) \subseteq Emitted
       /\ Emitted \subseteq DOMAIN sccs
  BY <1>3 DEF Counting, Emitted
<1>13. ASSUME NEW d \in DOMAIN sccs
       PROVE  /\ waits'[d] = Cardinality(Before(d) \ Emitted') /\ waits'[d] \in Nat
              /\ c \in Before(d) => (waits[d] = 1 <=> Before(d) \subseteq Emitted \cup {c})
  <2>1. \A T : IsFiniteSet(Before(d) \ T) /\ Cardinality(Before(d) \ T) \in Nat
               /\ (Cardinality(Before(d) \ T) = 0 <=> Before(d) \subseteq T)
    BY <1>3, BeforeFacts
  <2>2. Before(d) \ Emitted' = (Before(d) \ Emitted) \ {c}
    BY <1>8
  <2>3. Cardinality((Before(d) \ Emitted) \ {c})
          = IF c \in Before(d) \ Emitted THEN waits[d] - 1 ELSE waits[d]
    BY <1>12, <2>1, FS_RemoveElement
  <2>4. c \in Before(d) \ Emitted <=> c \in Before(d)
    OBVIOUS
  <2>5. waits'[d] = IF c \in Before(d) THEN waits[d] - 1 ELSE waits[d]
    BY <1>4
  <2>6. waits'[d] = Cardinality(Before(d) \ Emitted')
    BY <2>2, <2>3, <2>4, <2>5
  <2>7. waits'[d] \in Nat /\ (waits'[d] = 0 <=> Before(d) \subseteq Emitted')
    BY <2>1, <2>6
  <2>8. waits[d] \in Int
    BY <1>12
  <2> QED BY <1>8, <2>5, <2>6, <2>7, <2>8
<1>14. Counting'
  <2>1. waits' \in [DOMAIN sccs -> Nat]
    BY <1>4, <1>13
  <2>2. \A i \in DOMAIN sccs : waits'[i] = Cardinality(Before(i) \ Emitted')
    BY <1>13
  <2>3. \A i \in Emitted' : Before(i) \subseteq Emitted'
    BY <1>4, <1>8, <1>12
  <2>4. ASSUME NEW i \in DOMAIN sccs
        PROVE  i \in frontier' <=> i \notin Emitted' /\ Before(i) \subseteq Emitted'
    <3>1. i \in frontier' <=> \/ i \in frontier /\ i # c
                              \/ c \in Before(i) /\ waits[i] = 1
      BY <1>4
    <3>2. CASE c \in Before(i)
      <4>1. i \notin Emitted /\ i # c /\ i \notin frontier
        BY <1>4, <1>12, <3>2
      <4> QED BY <1>8, <1>13, <3>1, <3>2, <4>1
    <3>3. CASE c \notin Before(i)
      BY <1>8, <1>12, <3>1, <3>3
    <3> QED BY <3>2, <3>3
  <2>5. frontier' \subseteq DOMAIN sccs
    BY <1>4, <1>12
  <2>6. frontier' = {i \in DOMAIN sccs \ Emitted' : Before(i) \subseteq Emitted'}
    BY <2>4, <2>5
  <2> QED BY <1>1, <1>9, <2>1, <2>2, <2>3, <2>6 DEF Counting
<1>15. \A i \in DOMAIN order' : \/ i \in DOMAIN order /\ i <= Len(order) /\ order'[i] = order[i]
                                   /\ order'[i] \notin sccs[c]
                                \/ i > Len(order) /\ order'[i] \in sccs[c]
  BY <1>6, <1>10
<1>16. Emission'
  <2>1. ToSet(order') = UNION {sccs[i] : i \in Emitted'}
    BY <1>5, <1>6, <1>8
  <2>2. ASSUME NEW a \in DOMAIN order', NEW b \in DOMAIN order', order'[a] = order'[b]
        PROVE  a = b
    <3>1. CASE order'[a] \in sccs[c]
      <4>1. /\ a - Len(order) \in DOMAIN s /\ order'[a] = s[a - Len(order)]
            /\ b - Len(order) \in DOMAIN s /\ order'[b] = s[b - Len(order)]
            /\ a \in Int /\ b \in Int
        BY <1>6, <1>10, <2>2, <3>1
      <4>2. a - Len(order) = b - Len(order)
        BY <1>4, <2>2, <4>1
      <4> QED BY <1>6, <4>1, <4>2
    <3>2. CASE order'[a] \notin sccs[c]
      <4>1. /\ a \in DOMAIN order /\ order'[a] = order[a]
            /\ b \in DOMAIN order /\ order'[b] = order[b]
        BY <1>15, <2>2, <3>2
      <4> QED BY <1>3, <2>2, <4>1 DEF Emission
    <3> QED BY <3>1, <3>2
  <2>3. ASSUME NEW i \in Emitted', NEW j \in Before(i),
               NEW a \in DOMAIN order', NEW b \in DOMAIN order',
               order'[a] \in sccs[j], order'[b] \in sccs[i]
        PROVE  a < b
    <3>1. i \in DOMAIN sccs /\ j \in DOMAIN sccs /\ j # i
      BY <1>8, <1>12 DEF Before
    <3>2. j \in Emitted
      BY <1>4, <1>8, <1>12, <2>3
    <3>3. a \in DOMAIN order /\ a <= Len(order) /\ order'[a] = order[a]
      <4>1. order'[a] \notin sccs[c]
        BY <1>7, <2>3, <3>1, <3>2
      <4> QED BY <1>15, <4>1
    <3>4. CASE i = c
      <4>1. b > Len(order) /\ b \in Int /\ a \in Int
        BY <1>6, <1>15, <2>3, <3>4
      <4> QED BY <1>6, <3>3, <4>1
    <3>5. CASE i # c
      <4>1. i \in Emitted /\ order'[b] \notin sccs[c]
        BY <1>7, <1>8, <2>3, <3>1, <3>5
      <4>2. b \in DOMAIN order /\ order'[b] = order[b]
        BY <1>15, <4>1
      <4> QED BY <1>3, <2>3, <3>3, <4>1, <4>2 DEF Emission
    <3> QED BY <3>4, <3>5
  <2> QED BY <1>1, <1>6, <1>9, <2>1, <2>2, <2>3 DEF Emission
<1>17. SecondPass'
  <2>1. /\ second' \in Seq(Q)
        /\ ToSet(second') = UNION {sccs[i] : i \in {e \in Emitted' : IsCycle(sccs[e])}}
    <3>1. CASE IsCycle(sccs[c])
      <4>1. second' = second \o s
        BY <1>4, <3>1
      <4>2. second' \in Seq(Q) /\ ToSet(second') = ToSet(second) \cup sccs[c]
        <5>1. second \in Seq(Q) /\ s \in Seq(Q)
          BY <1>5
        <5>2. /\ second \o s \in Seq(Q)
              /\ ToSet(second \o s) = ToSet(second) \cup ToSet(s)
          BY <5>1, Joined
        <5>3. ToSet(s) = sccs[c]
          BY <1>4
        <5> QED BY <4>1, <5>2, <5>3
      <4>3. {e \in Emitted' : IsCycle(sccs[e])} = {e \in Emitted : IsCycle(sccs[e])} \cup {c}
        BY <1>8, <3>1
      <4> HIDE DEF Emitted
      <4> QED BY <1>5, <4>2, <4>3
    <3>2. CASE ~IsCycle(sccs[c])
      <4>1. {e \in Emitted' : IsCycle(sccs[e])} = {e \in Emitted : IsCycle(sccs[e])}
        BY <1>8, <3>2
      <4> QED BY <1>4, <1>5, <3>2, <4>1
    <3> QED BY <3>1, <3>2
  <2>2. \A a \in DOMAIN second : second[a] \notin sccs[c]
    <3>1. ToSet(second) \subseteq ToSet(order)
      BY <1>5
    <3> QED BY <1>10, <3>1 DEF ToSet
  <2>3. ASSUME NEW a \in DOMAIN second', NEW b \in DOMAIN second',
               NEW k \in DOMAIN order', NEW l \in DOMAIN order',
               a < b, order'[k] = second'[a], order'[l] = second'[b]
        PROVE  k < l
    <3>1. ASSUME a \in DOMAIN second, b \in DOMAIN second,
                 second'[a] = second[a], second'[b] = second[b]
          PROVE  k < l
      <4>1. /\ k \in DOMAIN order /\ order'[k] = order[k]
            /\ l \in DOMAIN order /\ order'[l] = order[l]
        BY <1>15, <2>2, <2>3, <3>1
      <4> QED BY <1>3, <2>3, <3>1, <4>1 DEF SecondPass
    <3>2. CASE ~IsCycle(sccs[c])
      BY <1>4, <3>1, <3>2
    <3>3. CASE IsCycle(sccs[c])
      <4>1. /\ Len(second) \in Nat /\ DOMAIN second = 1..Len(second)
            /\ \A i \in DOMAIN second' :
                 /\ i \in Int
                 /\ \/ i \in DOMAIN second /\ i <= Len(second) /\ second'[i] = second[i]
                    \/ /\ i - Len(second) \in DOMAIN s /\ i > Len(second)
                       /\ second'[i] = s[i - Len(second)]
        <5>1. second' = second \o s /\ second \in Seq(Q) /\ s \in Seq(Q)
          BY <1>4, <1>5, <3>3
        <5> QED BY <5>1, Joined
      <4>2. CASE b \in DOMAIN second /\ b <= Len(second) /\ second'[b] = second[b]
        <5>1. a \in DOMAIN second /\ second'[a] = second[a]
          BY <2>3, <4>1, <4>2
        <5> QED BY <3>1, <4>2, <5>1
      <4>3. CASE b - Len(second) \in DOMAIN s /\ b > Len(second) /\ second'[b] = s[b - Len(second)]
        <5>1. l > Len(order) /\ l - Len(order) \in DOMAIN s /\ order'[l] = s[l - Len(order)]
          BY <1>6, <1>10, <2>3, <4>3
        <5>2. CASE a \in DOMAIN second /\ second'[a] = second[a]
          <6>1. k \in DOMAIN order /\ k <= Len(order)
            BY <1>15, <2>2, <2>3, <5>2
          <6> QED BY <1>6, <5>1, <6>1
        <5>3. CASE a - Len(second) \in DOMAIN s /\ second'[a] = s[a - Len(second)]
          <6>1. k - Len(order) \in DOMAIN s /\ order'[k] = s[k - Len(order)]
            BY <1>6, <1>10, <2>3, <5>3
          <6>2. k - Len(order) = a - Len(second) /\ l - Len(order) = b - Len(second)
            BY <1>4, <2>3, <4>3, <5>1, <5>3, <6>1
          <6>3. a \in Int /\ b \in Int /\ k \in Int /\ l \in Int
            BY <1>6, <4>1
          <6> QED BY <1>6, <2>3, <4>1, <6>2, <6>3
        <5> QED BY <4>1, <5>2, <5>3
      <4> QED BY <4>1, <4>2, <4>3
    <3> QED BY <3>2, <3>3
  <2>4. {e \in Emitted' : IsCycle(sccs[e])'} = {e \in Emitted' : IsCycle(sccs[e])}
    BY <1>9
  <2> QED BY <1>1, <2>1, <2>3, <2>4 DEF SecondPass
<1>18. KahnTypes'
  <2>1. \A i \in DOMAIN waits' : waits'[i] \in Nat
    BY <1>4, <1>13
  <2>2. frontier' \subseteq DOMAIN sccs'
    BY <1>1, <1>4, <1>12
  <2>3. ToSet(order') \subseteq Q
    BY <1>6, LenProperties, ElementOfSeq DEF ToSet
  <2>4. ToSet(second') \subseteq Q
    <3>1. second' \in Seq(Q)
      BY <1>4, <1>5, Joined
    <3> QED BY <3>1, LenProperties, ElementOfSeq DEF ToSet
  <2> QED BY <2>1, <2>2, <2>3, <2>4 DEF KahnTypes
<1>19. Final'
  BY <1>1 DEF Final
<1> QED BY <1>2, <1>11, <1>14, <1>16, <1>17, <1>18, <1>19 DEF IInv, KahnInv

-----------------------------------------------------------------------------
(* The invariant, and what follows.                                        *)

LEMMA NextInv == ASSUME IInv, [Next]_vars PROVE IInv'
<1>1. CASE Sorter
  BY <1>1, SorterInv
<1>2. CASE Root
  <2>1. Types' /\ TarjanInv'
    BY <1>2, RootTarjan DEF IInv
  <2> QED BY <1>2, <2>1, TarjanKahn DEF IInv, Root
<1>3. CASE Descend
  <2>1. Types' /\ TarjanInv'
    BY <1>3, DescendTarjan DEF IInv
  <2> QED BY <1>3, <2>1, TarjanKahn DEF IInv, Descend
<1>4. CASE Scan
  <2>1. Types' /\ TarjanInv'
    BY <1>4, ScanTarjan DEF IInv
  <2> QED BY <1>4, <2>1, TarjanKahn DEF IInv, Scan
<1>5. CASE Return
  <2>1. Types' /\ TarjanInv'
    BY <1>5, ReturnTarjan DEF IInv
  <2> QED BY <1>5, <2>1, TarjanKahn DEF IInv, Return
<1>6. CASE CheckSeeds
  BY <1>6, CheckSeedsInv
<1>7. CASE Emit
  BY <1>7, EmitInv
<1>8. CASE Finish
  BY <1>8, FinishInv
<1>9. CASE Done
  BY <1>9, StutterInv DEF Done
<1>10. CASE UNCHANGED vars
  BY <1>10, StutterInv
<1> QED BY <1>1, <1>2, <1>3, <1>4, <1>5, <1>6, <1>7, <1>8, <1>9, <1>10 DEF Next

LEMMA Invariance == Spec => []IInv
<1>1. Init => IInv
  BY InitIInv
<1>2. IInv /\ [Next]_vars => IInv'
  BY NextInv
<1> QED BY <1>1, <1>2, PTL DEF Spec

\* The data of the two algorithms have their types, and no component ever waits for
\* less than nothing (ddre._tarjan_scc, _condensation_order).
THEOREM TypeCorrect == Spec => []TypeOK
<1>1. ASSUME IInv PROVE TypeOK
  <2>1. Types /\ Components /\ KahnTypes
    BY <1>1 DEF IInv, TarjanInv, KahnInv
  <2>2. \A i \in DOMAIN work : work[i].node \in Q /\ work[i].succ \subseteq Q
    BY <2>1, WorkTyped
  <2>3. ToSet(stack) \subseteq Q
    BY <2>1, StackTyped DEF Open
  <2>4. \A i \in DOMAIN sccs : sccs[i] \in (SUBSET Q) \ {{}}
    <3>1. \A i \in DOMAIN sccs : sccs[i] # {}
      BY <2>1 DEF Components
    <3>2. \A i \in DOMAIN sccs : sccs[i] \in SUBSET Q
      BY <2>1, SccsTyped
    <3> QED BY <3>1, <3>2
  <2> QED BY <2>1, <2>2, <2>3, <2>4 DEF TypeOK, Types, KahnTypes, Ranks
<1>2. IInv => TypeOK
  BY <1>1
<1> QED BY <1>2, Invariance, PTL

\* Whatever the graph, what Tarjan's loop closes are the classes of mutual dependency,
\* and every package is in one (ddre._tarjan_scc).
THEOREM ClassesClosed == Spec => []ComponentsAreReal
<1>1. ASSUME IInv PROVE ComponentsAreReal
  <2> SUFFICES ASSUME phase \in {"kahn", "error"}
               PROVE  /\ UNION ToSet(sccs) = Q
                      /\ \A i \in DOMAIN sccs : \A m \in sccs[i] :
                           sccs[i] = {n \in Q : Mutual(m, n)}
    BY DEF ComponentsAreReal
  <2>1. Types /\ TarjanInv /\ AllClosed
    BY <1>1 DEF IInv, KahnInv, Phases, Ordering, AllClosed
  <2> QED BY <2>1, AllInComponents, ComponentIsClass DEF Closed
<1>2. IInv => ComponentsAreReal
  BY <1>1
<1> QED BY <1>2, Invariance, PTL

\* A queue is refused exactly if some package that needs itself, directly or through
\* others, has no partner that exists as a binary (ddre._fallback_order).
THEOREM RefusalIsRight == Spec => []RefusedIfSeedless
<1>1. ASSUME IInv PROVE RefusedIfSeedless
  <2> SUFFICES ASSUME phase \in {"kahn", "done", "error"}, sccs # <<>>
               PROVE  phase = "error" <=>
                        \E n \in Q : /\ \E m \in adj[n] : Mutual(m, n)
                                     /\ \A m \in seeds : ~Mutual(m, n)
    BY DEF RefusedIfSeedless
  <2>1. phase = "error" \/ Ordering
    BY DEF Ordering
  <2>2. Types /\ TarjanInv /\ AllClosed /\ (phase = "error" <=> Refused)
    BY <1>1, <2>1 DEF IInv, KahnInv, Phases, AllClosed
  <2> QED BY <2>2, RefusedMeans
<1>2. IInv => RefusedIfSeedless
  BY <1>1
<1> QED BY <1>2, Invariance, PTL

\* Whoever sorted the queue, the order is a permutation of it: nothing is dropped and
\* nothing is built twice in the first pass (ddre.topo_order).
THEOREM NothingDropped == Spec => []OrderIsPermutation
<1>1. IInv => OrderIsPermutation
  BY DEF IInv, KahnInv, Final, OrderIsPermutation
<1> QED BY <1>1, Invariance, PTL

\* When Kahn's loop is over, all is emitted.
LEMMA AllEmitted ==
  ASSUME IInv, phase = "done", sccs # <<>>
  PROVE  /\ Types /\ TarjanInv /\ AllClosed /\ Emission /\ SecondPass /\ Ordering
         /\ ToSet(order) = Q /\ Emitted = DOMAIN sccs
<1>1. Types /\ TarjanInv /\ Emission /\ SecondPass /\ Ordering /\ Phases /\ Final
  BY DEF IInv, KahnInv, Ordering
<1>2. AllClosed /\ ToSet(order) = Q
  BY <1>1 DEF Phases, Final, AllClosed
<1>3. \A i \in DOMAIN sccs : sccs[i] # {} /\ sccs[i] \subseteq Q
  BY <1>1, SccsTyped DEF TarjanInv, Components
<1>4. Emitted = DOMAIN sccs
  BY <1>2, <1>3 DEF Emitted
<1> QED BY <1>1, <1>2, <1>4

\* Every build sees what it needs: outside a cycle a package comes after its needs in
\* the first pass, in a cycle its second build comes after its partners' first; and
\* the second pass is of the members of cycles, in the order of the first
\* (ddre._condensation_order, _fallback_order).
THEOREM NeedsAreBuilt == Spec => []BuiltAfterItsNeeds
<1>1. ASSUME IInv, phase = "done", sccs # <<>>
      PROVE  LET at(n)  == CHOOSE i \in DOMAIN order : order[i] = n
                 plan   == order \o second
                 last(n) == Max({i \in DOMAIN plan : plan[i] = n})
             IN  /\ ToSet(order) = Q
                 /\ \A e \in Edges : IF Mutual(e[1], e[2]) THEN at(e[1]) < last(e[2])
                                                           ELSE at(e[1]) < at(e[2])
                 /\ \A n \in Q : n \in ToSet(second) <=> \E m \in adj[n] : Mutual(m, n)
                 /\ \A i, j \in DOMAIN second : i < j => at(second[i]) < at(second[j])
  <2> DEFINE at(n)   == CHOOSE i \in DOMAIN order : order[i] = n
             plan    == order \o second
             last(n) == Max({i \in DOMAIN plan : plan[i] = n})
  <2>1. /\ Types /\ TarjanInv /\ AllClosed /\ Emission /\ SecondPass /\ Ordering
        /\ ToSet(order) = Q /\ Emitted = DOMAIN sccs
    BY <1>1, AllEmitted
  <2>2. /\ order \in Seq(Q) /\ second \in Seq(Q)
        /\ ToSet(second) = UNION {sccs[i] : i \in {e \in DOMAIN sccs : IsCycle(sccs[e])}}
    BY <2>1 DEF Emission, SecondPass
  <2>3. ASSUME NEW n \in Q PROVE at(n) \in DOMAIN order /\ order[at(n)] = n
    <3>1. \E i \in DOMAIN order : order[i] = n
      BY <2>1 DEF ToSet
    <3> QED BY <3>1
  <2>4. ASSUME NEW n \in Q
        PROVE  n \in ToSet(second) <=> \E m \in adj[n] : Mutual(m, n)
    <3>1. PICK i \in DOMAIN sccs : n \in sccs[i]
      BY <2>1, AllInComponents
    <3>2. \A j \in DOMAIN sccs : n \in sccs[j] => j = i
      BY <2>1, <3>1 DEF TarjanInv, Components
    <3>3. n \in ToSet(second) <=> IsCycle(sccs[i])
      BY <2>2, <3>1, <3>2
    <3> QED BY <2>1, <3>1, <3>3, CycleMembers
  <2>5. ASSUME NEW i \in DOMAIN second, NEW j \in DOMAIN second, i < j
        PROVE  at(second[i]) < at(second[j])
    <3>1. second[i] \in Q /\ second[j] \in Q
      BY <2>2, LenProperties, ElementOfSeq
    <3>2. /\ at(second[i]) \in DOMAIN order /\ order[at(second[i])] = second[i]
          /\ at(second[j]) \in DOMAIN order /\ order[at(second[j])] = second[j]
      BY <2>3, <3>1
    <3> HIDE DEF at
    <3> QED BY <2>1, <2>5, <3>2 DEF SecondPass
  <2>6. ASSUME NEW e \in Edges, ~Mutual(e[1], e[2]) PROVE at(e[1]) < at(e[2])
    <3>1. e[1] \in Q /\ e[2] \in Q
      BY DEF Edges
    <3>2. PICK i \in DOMAIN sccs : e[1] \in sccs[i]
      BY <2>1, <3>1, AllInComponents
    <3>3. PICK j \in DOMAIN sccs : e[2] \in sccs[j]
      BY <2>1, <3>1, AllInComponents
    <3>4. i # j
      BY <2>1, <2>6, <3>1, <3>2, <3>3, ComponentIsClass
    <3>5. i \in Before(j)
      BY <3>2, <3>3, <3>4 DEF Before
    <3>6. /\ at(e[1]) \in DOMAIN order /\ order[at(e[1])] = e[1]
          /\ at(e[2]) \in DOMAIN order /\ order[at(e[2])] = e[2]
      BY <2>3, <3>1
    <3> HIDE DEF at
    <3> QED BY <2>1, <3>2, <3>3, <3>5, <3>6 DEF Emission
  <2>7. ASSUME NEW e \in Edges, Mutual(e[1], e[2]) PROVE at(e[1]) < last(e[2])
    <3>1. e[1] \in Q /\ e[2] \in Q /\ e[2] \in adj[e[1]]
      BY DEF Edges
    <3>2. e[2] \in ToSet(second)
      <4>1. PICK i \in DOMAIN sccs : e[1] \in sccs[i]
        BY <2>1, <3>1, AllInComponents
      <4>2. e[2] \in sccs[i]
        BY <2>1, <2>7, <3>1, <4>1, ComponentIsClass
      <4>3. Mutual(e[2], e[1])
        BY <2>7 DEF Mutual
      <4>4. IsCycle(sccs[i])
        BY <2>1, <3>1, <4>1, <4>3, CycleMembers
      <4> QED BY <2>2, <4>2, <4>4
    <3>3. PICK b \in DOMAIN second : second[b] = e[2]
      BY <3>2 DEF ToSet
    <3>4. PICK p : p = plan
      OBVIOUS
    <3>5. /\ p \in Seq(Q) /\ Len(order) \in Nat /\ DOMAIN order = 1..Len(order)
          /\ DOMAIN second = 1..Len(second)
          /\ Len(order) + b \in DOMAIN p /\ p[Len(order) + b] = second[b]
      <4>1. /\ order \o second \in Seq(Q) /\ Len(order) \in Nat /\ DOMAIN order = 1..Len(order)
            /\ DOMAIN second = 1..Len(second)
            /\ \A i \in DOMAIN second : /\ Len(order) + i \in DOMAIN (order \o second)
                                        /\ (order \o second)[Len(order) + i] = second[i]
        BY <2>2, Joined
      <4> QED BY <3>4, <4>1
    <3>6. Len(p) \in Nat /\ DOMAIN p = 1..Len(p)
      BY <3>5, LenProperties
    <3>7. PICK T : T = {i \in DOMAIN p : p[i] = e[2]}
      OBVIOUS
    <3>8. T \subseteq Nat /\ Len(order) + b \in T /\ \A k \in T : k <= Len(p)
      BY <3>3, <3>5, <3>6, <3>7
    <3>9. Max(T) \in T /\ Len(order) + b <= Max(T)
      BY <3>6, <3>8, Greatest
    <3>10. last(e[2]) = Max(T)
      BY <3>4, <3>7
    <3>11. at(e[1]) \in DOMAIN order
      BY <2>3, <3>1
    <3> HIDE DEF at, last
    <3>12. at(e[1]) <= Len(order) /\ at(e[1]) \in Int
      BY <3>5, <3>11
    <3>13. b \in Int /\ b >= 1 /\ Max(T) \in Int
      <4>1. b \in 1..Len(second) /\ Max(T) \in Nat
        BY <3>5, <3>8, <3>9
      <4> QED BY <4>1
    <3> QED BY <3>13, <3>5, <3>9, <3>10, <3>12
  <2> HIDE DEF at, last
  <2>8. \A e \in Edges : IF Mutual(e[1], e[2]) THEN at(e[1]) < last(e[2]) ELSE at(e[1]) < at(e[2])
    BY <2>6, <2>7
  <2>9. \A i, j \in DOMAIN second : i < j => at(second[i]) < at(second[j])
    BY <2>5
  <2> USE DEF at, last
  <2> QED BY <2>1, <2>4, <2>8, <2>9
<1>2. IInv => BuiltAfterItsNeeds
  BY <1>1 DEF BuiltAfterItsNeeds
<1> QED BY <1>2, Invariance, PTL

-----------------------------------------------------------------------------
(* Every turn of a loop brings down what is left to do.                    *)

\* What Tarjan's loop has still to do are finitely many things.
LEMMA ToMeetTyped ==
  ASSUME Types
  PROVE  /\ IsFiniteSet(ToLookAt) /\ Cardinality(ToLookAt) \in Nat
         /\ IsFiniteSet(Unvisited) /\ Cardinality(Unvisited) \in Nat
         /\ Len(work) \in Nat
<1>1. ToLookAt \subseteq Q \X Q /\ Unvisited \subseteq Q
  BY DEF ToLookAt, Edges, Unvisited
<1>2. IsFiniteSet(Q \X Q)
  BY QAssumption, FS_Product
<1>3. IsFiniteSet(ToLookAt) /\ IsFiniteSet(Unvisited)
  BY <1>1, <1>2, QAssumption, FS_Subset
<1> QED BY <1>3, FS_CardinalityType, WorkTyped

\* To meet a package brings it down although a call is opened, if no edge is to be
\* looked at that was not before.
LEMMA MeetingCounts ==
  ASSUME Types, Types', NEW n \in Unvisited, Unvisited' = Unvisited \ {n},
         Len(work') = Len(work) + 1, ToLookAt' \subseteq ToLookAt
  PROVE  ToMeet' < ToMeet
<1>1. /\ Cardinality(ToLookAt) \in Nat /\ Cardinality(Unvisited) \in Nat /\ Len(work) \in Nat
      /\ IsFiniteSet(ToLookAt) /\ IsFiniteSet(Unvisited)
  BY ToMeetTyped
<1>2. Cardinality(ToLookAt') <= Cardinality(ToLookAt) /\ Cardinality(ToLookAt') \in Nat
  BY <1>1, FS_Subset, FS_CardinalityType
<1>3. Cardinality(Unvisited') = Cardinality(Unvisited) - 1
  BY <1>1, FS_RemoveElement
<1>4. ToMeet' = Cardinality(ToLookAt') + 2 * Cardinality(Unvisited') + Len(work')
  BY DEF ToMeet
<1>5. \A a, b, u, l \in Nat : a <= b => a + 2 * (u - 1) + (l + 1) < b + 2 * u + l
  OBVIOUS
<1>6. ToMeet = Cardinality(ToLookAt) + 2 * Cardinality(Unvisited) + Len(work)
  BY DEF ToMeet
<1> QED BY <1>1, <1>2, <1>3, <1>4, <1>5, <1>6

\* A package that is met leaves those that are not; nothing else does.
LEMMA VisitLeaves ==
  ASSUME Types, Numbering, Partition, NEW n \in Unvisited, Visit(n)
  PROVE  Unvisited' = Unvisited \ {n}
<1>1. Visited' = Visited \cup {n}
  BY VisitFacts
<1> QED BY <1>1 DEF Visited, Unvisited

LEMMA RootCounts ==
  ASSUME Types, TarjanInv, Root PROVE ToMeet' < ToMeet
<1> DEFINE n == Min(Unvisited)
<1>1. n \in Unvisited
  <2>1. Unvisited \subseteq Nat /\ Unvisited # {}
    BY Finite DEF Unvisited, Root
  <2> QED BY <2>1, MinLeast
<1>2. Visit(n) /\ work' = <<Call(n)>> /\ work = <<>> /\ UNCHANGED <<phase, adj>>
  BY DEF Root
<1> HIDE DEF n
<1>3. Unvisited' = Unvisited \ {n}
  BY <1>1, <1>2, VisitLeaves DEF TarjanInv
<1>4. Len(work') = Len(work) + 1 /\ DOMAIN work' = {1} /\ work'[1] = Call(n)
  BY <1>2
<1>5. Edges' = Edges
  BY <1>2 DEF Edges
<1>6. ToLookAt' \subseteq ToLookAt
  <2> SUFFICES ASSUME NEW e \in ToLookAt' PROVE e \in ToLookAt
    OBVIOUS
  <2>1. /\ e \in Edges
        /\ \/ e[1] \in Unvisited'
           \/ \E p \in DOMAIN work' : work'[p].node = e[1] /\ e[2] \in work'[p].succ
    BY <1>5 DEF ToLookAt
  <2>2. e[1] \in Unvisited
    BY <1>1, <1>3, <1>4, <2>1 DEF Call
  <2> QED BY <2>1, <2>2 DEF ToLookAt
<1>7. Types'
  BY RootTarjan
<1> QED BY <1>1, <1>3, <1>4, <1>6, <1>7, MeetingCounts

LEMMA DescendCounts ==
  ASSUME Types, TarjanInv, Descend PROVE ToMeet' < ToMeet
<1>0. PICK w : w = Min(Top.succ)
  OBVIOUS
<1>1. /\ w \in Unvisited /\ Visit(w) /\ work' = Append(PopSucc, Call(w))
      /\ work # <<>> /\ Top.succ # {} /\ UNCHANGED <<phase, adj>>
  BY <1>0 DEF Descend
<1>2. PICK t : t = Len(work)
  OBVIOUS
<1>3. /\ t \in Nat /\ DOMAIN work = 1..t /\ w \in Q
      /\ PopSucc \in Seq(Calls) /\ Len(PopSucc) = t
      /\ \A p \in 1..t : PopSucc[p].node = work[p].node
      /\ \A p \in 1..t : PopSucc[p].succ \subseteq work[p].succ
  <2>1. /\ PopSucc \in Seq(Calls) /\ Len(PopSucc) = Len(work)
        /\ \A p \in DOMAIN work : PopSucc[p].node = work[p].node
        /\ \A p \in DOMAIN work : p # Len(work) => PopSucc[p].succ = work[p].succ
        /\ PopSucc[Len(work)].succ = Top.succ \ {Min(Top.succ)}
    BY <1>1, PopSuccFacts
  <2>2. t \in Nat /\ DOMAIN work = 1..t /\ w \in Q
    BY <1>1, <1>2, WorkTyped DEF Unvisited
  <2> QED BY <1>2, <2>1, <2>2 DEF Top
<1>4. Call(w) \in Calls /\ Call(w).node = w
  BY <1>3 DEF Call, Calls, Types
<1>5. /\ Len(work') = t + 1 /\ DOMAIN work' = 1..t + 1
      /\ \A p \in 1..t : work'[p] = PopSucc[p]
      /\ work'[t + 1] = Call(w)
  <2>1. /\ work' \in Seq(Calls) /\ Len(work') = t + 1
        /\ \A p \in 1..t : work'[p] = PopSucc[p]
        /\ work'[t + 1] = Call(w)
    BY <1>1, <1>3, <1>4, AppendProperties
  <2> QED BY <2>1, LenProperties
<1>6. Unvisited' = Unvisited \ {w}
  BY <1>1, VisitLeaves DEF TarjanInv
<1>7. Edges' = Edges
  BY <1>1 DEF Edges
<1>8. ToLookAt' \subseteq ToLookAt
  <2> SUFFICES ASSUME NEW e \in ToLookAt' PROVE e \in ToLookAt
    OBVIOUS
  <2>1. /\ e \in Edges
        /\ \/ e[1] \in Unvisited'
           \/ \E p \in DOMAIN work' : work'[p].node = e[1] /\ e[2] \in work'[p].succ
    BY <1>7 DEF ToLookAt
  <2>2. CASE e[1] \in Unvisited'
    BY <1>6, <2>1, <2>2 DEF ToLookAt
  <2>3. ASSUME NEW p \in 1..t + 1, work'[p].node = e[1], e[2] \in work'[p].succ
        PROVE  e \in ToLookAt
    <3>1. CASE p = t + 1
      BY <1>1, <1>4, <1>5, <2>1, <2>3, <3>1 DEF ToLookAt
    <3>2. CASE p \in 1..t
      <4>1. work[p].node = e[1] /\ e[2] \in work[p].succ
        BY <1>3, <1>5, <2>3, <3>2
      <4> QED BY <1>3, <2>1, <3>2, <4>1 DEF ToLookAt
    <3> QED BY <1>3, <3>1, <3>2
  <2> QED BY <1>5, <2>1, <2>2, <2>3
<1>9. Types'
  BY DescendTarjan
<1> QED BY <1>1, <1>2, <1>5, <1>6, <1>8, <1>9, MeetingCounts

\* An edge that has been looked at is not looked at again: a package has one call.
LEMMA ScanCounts ==
  ASSUME Types, TarjanInv, Scan PROVE ToMeet' < ToMeet
<1>0. PICK w : w = Min(Top.succ)
  OBVIOUS
<1>1. /\ work' = PopSucc /\ work # <<>> /\ Top.succ # {}
      /\ UNCHANGED <<phase, adj, index>>
  BY <1>0 DEF Scan
<1>2. PICK t : t = Len(work)
  OBVIOUS
<1>3. PICK v : v = work[t].node
  OBVIOUS
<1>4. /\ t \in Nat /\ DOMAIN work = 1..t /\ t \in DOMAIN work
      /\ v \in Q /\ w \in Q /\ w \in work[t].succ
      /\ Len(work') = t /\ DOMAIN work' = 1..t
      /\ \A p \in 1..t : work'[p].node = work[p].node /\ work'[p].succ \subseteq work[p].succ
      /\ work'[t].succ = work[t].succ \ {w}
  <2>1. /\ PopSucc \in Seq(Calls) /\ Len(PopSucc) = Len(work)
        /\ \A p \in DOMAIN work : PopSucc[p].node = work[p].node
        /\ \A p \in DOMAIN work : p # Len(work) => PopSucc[p].succ = work[p].succ
        /\ PopSucc[Len(work)].succ = Top.succ \ {Min(Top.succ)}
    BY <1>1, PopSuccFacts
  <2>2. t \in Nat /\ DOMAIN work = 1..t /\ t \in DOMAIN work /\ v \in Q
    BY <1>1, <1>2, <1>3, WorkTyped
  <2>3. w \in work[t].succ /\ w \in Q
    BY <1>0, <1>1, <1>2, <2>2, NextSucc, WorkTyped DEF Top
  <2>4. Len(work') = t /\ DOMAIN work' = 1..t
    BY <1>1, <1>2, <2>1, LenProperties
  <2> QED BY <1>0, <1>1, <1>2, <2>1, <2>2, <2>3, <2>4 DEF Top
<1>5. v \notin Unvisited /\ w \in adj[v] /\ \A p \in 1..t : work[p].node = v => p = t
  <2>1. v \in Visited /\ w \in adj[v]
    BY <1>3, <1>4 DEF TarjanInv, CallsOpen, Partition
  <2>2. index[v] \in Int
    BY <1>4, StackTyped
  <2>3. ASSUME NEW p \in 1..t, p # t PROVE work[p].node # v
    <3>1. p < t
      BY <1>4, <2>3
    <3>2. index[work[p].node] < index[v]
      BY <1>3, <1>4, <3>1 DEF TarjanInv, CallsOpen
    <3> QED BY <2>2, <3>2
  <2> QED BY <2>1, <2>3 DEF Visited
<1>6. Edges' = Edges /\ Unvisited' = Unvisited
  BY <1>1 DEF Edges, Unvisited
<1>7. PICK e : e = <<v, w>>
  OBVIOUS
<1>8. e \in ToLookAt
  <2>1. e \in Edges
    BY <1>4, <1>5, <1>7 DEF Edges
  <2> QED BY <1>3, <1>4, <1>7, <2>1 DEF ToLookAt
<1>9. e \notin ToLookAt'
  <2> SUFFICES ASSUME e \in ToLookAt' PROVE FALSE
    OBVIOUS
  <2>1. PICK p \in 1..t : work'[p].node = v /\ w \in work'[p].succ
    BY <1>4, <1>5, <1>6, <1>7 DEF ToLookAt
  <2> QED BY <1>4, <1>5, <2>1
<1>10. ToLookAt' \subseteq ToLookAt \ {e}
  <2>1. ASSUME NEW d \in ToLookAt' PROVE d \in ToLookAt
    <3>1. /\ d \in Edges
          /\ \/ d[1] \in Unvisited
             \/ \E p \in 1..t : work'[p].node = d[1] /\ d[2] \in work'[p].succ
      BY <1>4, <1>6 DEF ToLookAt
    <3> QED BY <1>4, <3>1 DEF ToLookAt
  <2> QED BY <1>9, <2>1
<1>11. IsFiniteSet(ToLookAt) /\ Cardinality(ToLookAt) \in Nat /\ Cardinality(Unvisited) \in Nat
  BY ToMeetTyped
<1>12. /\ Cardinality(ToLookAt \ {e}) = Cardinality(ToLookAt) - 1
       /\ IsFiniteSet(ToLookAt \ {e})
  BY <1>8, <1>11, FS_RemoveElement
<1>13. /\ Cardinality(ToLookAt') <= Cardinality(ToLookAt) - 1
       /\ Cardinality(ToLookAt') \in Nat
  BY <1>10, <1>12, FS_Subset, FS_CardinalityType
<1>14. ToMeet' = Cardinality(ToLookAt') + 2 * Cardinality(Unvisited) + t
  BY <1>4, <1>6 DEF ToMeet
<1> QED BY <1>2, <1>4, <1>11, <1>13, <1>14 DEF ToMeet

\* A call that ends has no edge left to look at.
LEMMA ReturnCounts ==
  ASSUME Types, TarjanInv, Return PROVE ToMeet' < ToMeet
<1>1. PICK n : n = Top.node
  OBVIOUS
<1>2. PICK t : t = Len(work)
  OBVIOUS
<1>3. /\ DOMAIN work = 1..t /\ t \in Nat /\ t \in DOMAIN work /\ work[t].succ = {}
      /\ work' \in Seq(Calls) /\ DOMAIN work' = 1..t - 1
      /\ \A p \in 1..t - 1 : work'[p] = work[p] /\ p \in DOMAIN work
  BY <1>1, <1>2, ReturnFacts
<1>4. Len(work') = t - 1
  <2>1. Len(work') \in Nat /\ DOMAIN work' = 1..Len(work')
    BY <1>3, LenProperties
  <2> QED BY <1>3, <2>1
<1>5. Edges' = Edges /\ Unvisited' = Unvisited
  BY DEF Return, Edges, Unvisited
<1>6. ToLookAt' \subseteq ToLookAt
  <2> SUFFICES ASSUME NEW e \in ToLookAt' PROVE e \in ToLookAt
    OBVIOUS
  <2>1. /\ e \in Edges
        /\ \/ e[1] \in Unvisited
           \/ \E p \in 1..t - 1 : work'[p].node = e[1] /\ e[2] \in work'[p].succ
    BY <1>3, <1>5 DEF ToLookAt
  <2> QED BY <1>3, <2>1 DEF ToLookAt
<1>7. IsFiniteSet(ToLookAt) /\ Cardinality(ToLookAt) \in Nat /\ Cardinality(Unvisited) \in Nat
  BY ToMeetTyped
<1>8. Cardinality(ToLookAt') <= Cardinality(ToLookAt) /\ Cardinality(ToLookAt') \in Nat
  BY <1>6, <1>7, FS_Subset, FS_CardinalityType
<1>9. ToMeet' = Cardinality(ToLookAt') + 2 * Cardinality(Unvisited) + t - 1
  BY <1>4, <1>5 DEF ToMeet
<1> QED BY <1>2, <1>3, <1>7, <1>8, <1>9 DEF ToMeet

\* A component is emitted once.
LEMMA EmitCounts ==
  ASSUME IInv, Emit PROVE ToEmit' < ToEmit
<1> DEFINE Left == {i \in DOMAIN sccs : sccs[i] \cap ToSet(order) = {}}
<1>1. sccs' = sccs /\ Types /\ Components /\ Emission
  BY DEF Emit, tarjan, IInv, TarjanInv, KahnInv
<1>2. Ordering
  BY DEF Emit, Ordering
<1>3. PICK c \in DOMAIN sccs \ Emitted, s \in Seq(Q) :
        ToSet(s) = sccs[c] /\ order' = order \o s
  BY EmitFacts
<1>4. ToSet(order') = ToSet(order) \cup sccs[c]
  BY <1>1, <1>2, <1>3, Joined DEF Emission
<1>5. c \in Left /\ sccs[c] # {}
  BY <1>1 DEF Emitted, Components
<1>6. Left' \subseteq Left \ {c}
  BY <1>1, <1>4, <1>5
<1>7. IsFiniteSet(Left)
  BY <1>1, SccsTyped, FS_Subset
<1> HIDE DEF Left
<1>8. /\ Cardinality(Left \ {c}) = Cardinality(Left) - 1 /\ IsFiniteSet(Left \ {c})
      /\ Cardinality(Left) \in Nat
  BY <1>5, <1>7, FS_RemoveElement, FS_CardinalityType
<1>9. Cardinality(Left') <= Cardinality(Left) - 1 /\ Cardinality(Left') \in Nat
  BY <1>6, <1>8, FS_Subset, FS_CardinalityType
<1>10. Cardinality(Left') < Cardinality(Left)
  BY <1>8, <1>9
<1> QED BY <1>10 DEF ToEmit, Left

\* What a turn of a loop may do.
Progress ==
  \/ <<phase, phase'>> \in {"sorter"} \X {"tarjan", "done"}
                             \cup {"tarjan"} \X {"kahn", "error"}
                             \cup {"kahn"} \X {"done"}
  \/ phase = "tarjan" /\ phase' = phase /\ ToMeet' < ToMeet
  \/ phase = "kahn" /\ phase' = phase /\ ToEmit' < ToEmit

\* Every turn does, a turn that would change nothing included: there is none.
LEMMA EveryTurn ==
  ASSUME IInv, Sorter \/ Root \/ Descend \/ Scan \/ Return \/ CheckSeeds \/ Emit \/ Finish
  PROVE  Progress
<1>1. Types /\ TarjanInv
  BY DEF IInv
<1>2. CASE Sorter
  BY <1>2 DEF Sorter, Progress
<1>3. CASE Root
  <2>1. phase = "tarjan" /\ phase' = phase
    BY <1>3 DEF Root
  <2> QED BY <1>1, <1>3, <2>1, RootCounts DEF Progress
<1>4. CASE Descend
  <2>1. phase = "tarjan" /\ phase' = phase
    BY <1>4 DEF Descend
  <2> QED BY <1>1, <1>4, <2>1, DescendCounts DEF Progress
<1>5. CASE Scan
  <2>1. phase = "tarjan" /\ phase' = phase
    BY <1>5 DEF Scan
  <2> QED BY <1>1, <1>5, <2>1, ScanCounts DEF Progress
<1>6. CASE Return
  <2>1. phase = "tarjan" /\ phase' = phase
    BY <1>6 DEF Return
  <2> QED BY <1>1, <1>6, <2>1, ReturnCounts DEF Progress
<1>7. CASE CheckSeeds
  <2>1. phase = "tarjan" /\ phase' \in {"kahn", "error"}
    BY <1>7 DEF CheckSeeds
  <2> QED BY <2>1 DEF Progress
<1>8. CASE Emit
  <2>1. phase = "kahn" /\ phase' = phase
    BY <1>8 DEF Emit
  <2> QED BY <1>8, <2>1, EmitCounts DEF Progress
<1>9. CASE Finish
  BY <1>9 DEF Finish, Progress
<1> QED BY <1>2, <1>3, <1>4, <1>5, <1>6, <1>7, <1>8, <1>9

\* On every graph the order is found or the queue refused: no walk goes round for
\* ever (ddre._tarjan_scc, _condensation_order).
THEOREM OrderIsFound == Spec => Terminates
<1>1. ASSUME IInv, [Next]_vars PROVE [Progress]_vars
  <2>1. CASE Sorter \/ Root \/ Descend \/ Scan \/ Return \/ CheckSeeds \/ Emit \/ Finish
    BY <1>1, <2>1, EveryTurn
  <2>2. CASE Done \/ UNCHANGED vars
    BY <2>2 DEF Done
  <2> QED BY <1>1, <2>1, <2>2 DEF Next
<1>2. IInv /\ [Next]_vars => [Progress]_vars
  BY <1>1
<1>3. Spec => [][Progress]_vars
  BY <1>2, Invariance, PTL DEF Spec
<1> QED BY <1>3 DEF Terminates, Progress
=============================================================================
