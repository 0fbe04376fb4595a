------------------------------ MODULE BuildOrder ------------------------------
(***************************************************************************)
(* The order in which a queue is built (ddre.topo_order): the external     *)
(* sorter if it returns a permutation of the queue, else Tarjan's          *)
(* components, the seed rule, and Kahn's algorithm over the components     *)
(* with the smallest name first; members of a cycle are built once more.   *)
(*                                                                         *)
(* One action per turn of a loop.  Packages are numbers in the order of    *)
(* their names; a list that the code keeps sorted and takes from the front *)
(* is a set whose minimum is taken.                                        *)
(***************************************************************************)
EXTENDS Integers, FiniteSetsExt, SequencesExt

CONSTANTS
  Q,             \* the packages of the queue
  Graphs,        \* build-dependency graphs to order: adj[u] are built after u
  SeedSets,      \* packages that exist as a binary somewhere
  SorterLines    \* what the external sorter may print

ASSUME QAssumption == Q \subseteq Nat \ {0} /\ IsFiniteSet(Q)
ASSUME GraphsAssumption == Graphs \subseteq [Q -> SUBSET Q]
ASSUME SeedSetsAssumption == SeedSets \subseteq SUBSET Q

VARIABLES
  phase,      \* sorter, Tarjan, Kahn, or the result
  adj,        \* adj[u]: the packages of the queue that build-depend on u
  work,       \* the open calls of Tarjan: a node and the successors left
  index, low, \* visiting order, -1 = not visited, and Tarjan's low link
  stack,      \* visited, component not closed
  sccs,       \* closed components
  seeds,      \* the answers of seed_exists
  waits,      \* cindeg: components still to be emitted before this one
  frontier,   \* components ready to be emitted
  order, second

vars   == <<phase, adj, work, index, low, stack, sccs, seeds, waits, frontier, order, second>>
tarjan == <<work, index, low, stack, sccs>>
kahn   == <<seeds, waits, frontier, order, second>>

Init ==
  /\ phase = "sorter" /\ adj \in Graphs
  /\ work = <<>> /\ stack = <<>> /\ sccs = <<>>
  /\ index = [n \in Q |-> -1] /\ low = index
  /\ seeds = {} /\ waits = <<>> /\ frontier = {} /\ order = <<>> /\ second = <<>>

Edges == {e \in Q \X Q : e[2] \in adj[e[1]]}

-----------------------------------------------------------------------------
(* The external sorter (topo_order).                                       *)

\* Mutant: the names are compared as sets.
Trusted_SetOnly(lines) == ToSet(lines) = Q

\* An exact permutation of the queue.
Trusted(lines) == Len(lines) = Cardinality(Q) /\ ToSet(lines) = Q

Sorter ==
  /\ phase = "sorter"
  /\ \/ \E lines \in SorterLines :
          /\ Trusted(lines)
          /\ order' = lines /\ phase' = "done"
     \/ \* Exit status not 0, or not a permutation.
        phase' = "tarjan" /\ UNCHANGED order
  /\ UNCHANGED <<adj, tarjan, seeds, waits, frontier, second>>

-----------------------------------------------------------------------------
(* Tarjan's components, iteratively (_tarjan_scc).                         *)

Unvisited == {n \in Q : index[n] = -1}
Top       == work[Len(work)]
Call(n)   == [node |-> n, succ |-> adj[n]]

\* Mutant: the successor is looked at and stays on the list.
PopSucc_Kept == work

PopSucc   == [work EXCEPT ![Len(work)].succ = @ \ {Min(@)}]
Lower(n, v) == [low EXCEPT ![n] = Min({@, v})]

\* A node is met for the first time.
Visit(n) ==
  /\ index' = [index EXCEPT ![n] = Cardinality(Q \ Unvisited)]
  /\ low'   = [low EXCEPT ![n] = Cardinality(Q \ Unvisited)]
  /\ stack' = Append(stack, n)
  /\ UNCHANGED sccs

\* The outer loop.
Root ==
  /\ phase = "tarjan" /\ work = <<>> /\ Unvisited # {}
  /\ Visit(Min(Unvisited))
  /\ work' = <<Call(Min(Unvisited))>>
  /\ UNCHANGED <<phase, adj, kahn>>

Descend ==
  /\ phase = "tarjan" /\ work # <<>> /\ Top.succ # {}
  /\ LET w == Min(Top.succ)
     IN  /\ w \in Unvisited
         /\ Visit(w)
         /\ work' = Append(PopSucc, Call(w))
  /\ UNCHANGED <<phase, adj, kahn>>

\* Mutant: a successor in a closed component lowers the link too.
Links_Closed(w) == TRUE

\* Only successors whose component is still open lower the link.
Links(w) == w \in ToSet(stack)

Scan ==
  /\ phase = "tarjan" /\ work # <<>> /\ Top.succ # {}
  /\ LET w == Min(Top.succ)
     IN  /\ w \notin Unvisited
         /\ low' = IF Links(w) THEN Lower(Top.node, index[w]) ELSE low
         /\ work' = PopSucc
  /\ UNCHANGED <<phase, adj, index, stack, sccs, kahn>>

\* A call ends: it closes its component if it is the root of one, and passes
\* its link on to its caller.
Return ==
  /\ phase = "tarjan" /\ work # <<>> /\ Top.succ = {}
  /\ LET n == Top.node
         k == CHOOSE i \in DOMAIN stack : stack[i] = n
     IN  /\ IF low[n] = index[n]
            THEN /\ sccs'  = Append(sccs, {stack[i] : i \in k..Len(stack)})
                 /\ stack' = SubSeq(stack, 1, k - 1)
            ELSE UNCHANGED <<sccs, stack>>
         /\ low' = IF Len(work) > 1 THEN Lower(work[Len(work) - 1].node, low[n]) ELSE low
         /\ work' = Front(work)
  /\ UNCHANGED <<phase, adj, index, kahn>>

-----------------------------------------------------------------------------
(* The seed rule (_fallback_order).                                        *)

\* Mutant: a package that depends on itself is no cycle.
IsCycle_NoLoops(c) == Cardinality(c) > 1

IsCycle(c) == Cardinality(c) > 1 \/ \E n \in c : n \in adj[n]

\* Mutant: one seed will do for all the cycles.
Seeded_Any(c, s) == s # {}

Seeded(c, s) == c \cap s # {}

\* cedges, as sets: an edge counts once however many packages it stands for.
Before(i) == {j \in DOMAIN sccs \ {i} : \E e \in Edges : e[1] \in sccs[j] /\ e[2] \in sccs[i]}

\* Mutant: the first edge only.
Waiting_First(i) == IF Before(i) = {} THEN 0 ELSE 1

Waiting(i) == Cardinality(Before(i))

\* All components are known: every cycle needs a member that already exists
\* as a binary; then the components that wait for none are ready.
CheckSeeds ==
  /\ phase = "tarjan" /\ work = <<>> /\ Unvisited = {}
  /\ seeds' \in SeedSets
  /\ IF \A i \in DOMAIN sccs : IsCycle(sccs[i]) => Seeded(sccs[i], seeds')
     THEN /\ phase' = "kahn"
          /\ waits' = [i \in DOMAIN sccs |-> Waiting(i)]
          /\ frontier' = {i \in DOMAIN sccs : Waiting(i) = 0}
     ELSE phase' = "error" /\ UNCHANGED <<waits, frontier>>
  /\ UNCHANGED <<adj, tarjan, order, second>>

-----------------------------------------------------------------------------
(* Kahn's algorithm over the components (_condensation_order).             *)

\* sorted(c).
Sorted(c) ==
  CHOOSE s \in [1..Cardinality(c) -> c] : \A i, j \in DOMAIN s : i < j => s[i] < s[j]

\* The ready component with the smallest member is emitted, sorted, and the
\* components that waited for it alone become ready.
Emit ==
  /\ phase = "kahn"
  /\ \E c \in frontier :
       /\ \A d \in frontier : Min(sccs[c]) <= Min(sccs[d])
       /\ LET members == Sorted(sccs[c])
              after   == {d \in DOMAIN sccs : c \in Before(d)}
          IN  /\ order'  = order \o members
              /\ second' = IF IsCycle(sccs[c]) THEN second \o members ELSE second
              /\ waits'  = [d \in DOMAIN sccs |-> IF d \in after THEN waits[d] - 1 ELSE waits[d]]
              /\ frontier' = (frontier \ {c}) \cup {d \in after : waits[d] = 1}
  /\ UNCHANGED <<phase, adj, tarjan, seeds>>

Finish ==
  /\ phase = "kahn" /\ frontier = {}
  /\ phase' = "done"
  /\ UNCHANGED <<adj, tarjan, kahn>>

Done == phase \in {"done", "error"} /\ UNCHANGED vars

Next == Sorter \/ Root \/ Descend \/ Scan \/ Return \/ CheckSeeds \/ Emit \/ Finish \/ Done

Spec == Init /\ [][Next]_vars

-----------------------------------------------------------------------------
(* Properties: what the result is, against the graph and not the algorithm. *)

\* m reaches n: no set that is closed under the edges separates them.
Reaches(m, n) ==
  \A S \in SUBSET Q : m \in S /\ (\A u \in S : adj[u] \subseteq S) => n \in S

Mutual(m, n) == Reaches(m, n) /\ Reaches(n, m)

\* Tarjan's and Kahn's data have their types; no component waits for less
\* than nothing.
TypeOK ==
  /\ phase \in {"sorter", "tarjan", "kahn", "done", "error"}
  /\ \A i \in DOMAIN work : work[i].node \in Q /\ work[i].succ \subseteq Q
  /\ index \in [Q -> -1..(Cardinality(Q) - 1)] /\ low \in [Q -> -1..(Cardinality(Q) - 1)]
  /\ ToSet(stack) \subseteq Q /\ seeds \subseteq Q
  /\ \A i \in DOMAIN sccs : sccs[i] \in (SUBSET Q) \ {{}}
  /\ \A i \in DOMAIN waits : waits[i] \in Nat
  /\ frontier \subseteq DOMAIN sccs
  /\ ToSet(order) \subseteq Q /\ ToSet(second) \subseteq Q

\* The components are the classes of mutual dependency, closed in reverse
\* order: whatever depends on a closed package is closed.
ComponentsAreReal ==
  phase \in {"kahn", "error"} /\ order = <<>> =>
    /\ UNION ToSet(sccs) = Q
    /\ \A i \in DOMAIN sccs : \A m \in sccs[i] : sccs[i] = {n \in Q : Mutual(m, n)}

\* Nothing of the queue is dropped or built twice in the first pass, whoever
\* sorted it.
OrderIsPermutation ==
  phase = "done" => ToSet(order) = Q /\ Len(order) = Cardinality(Q)

\* Every build sees its dependencies: outside a cycle a package is built after
\* what it needs, and within one it is built again after its partners were,
\* exactly once, in the order of the first pass.
BuiltAfterItsNeeds ==
  phase = "done" /\ sccs # <<>> =>
    LET at(n)  == CHOOSE i \in DOMAIN order : order[i] = n
        plan   == order \o second
        last(n) == Max({i \in DOMAIN plan : plan[i] = n})
    IN  /\ ToSet(order) = Q
        /\ \A e \in Edges : IF Mutual(e[1], e[2]) THEN at(e[1]) < last(e[2])
                                                  ELSE at(e[1]) < at(e[2])
        /\ \A n \in Q : n \in ToSet(second) <=> \E m \in adj[n] : Mutual(m, n)
        /\ \A i, j \in DOMAIN second : i < j => at(second[i]) < at(second[j])

\* A queue is refused exactly if some cycle has no binary to start from.
RefusedIfSeedless ==
  phase \in {"kahn", "done", "error"} /\ sccs # <<>> =>
    (phase = "error" <=>
       \E n \in Q : /\ \E m \in adj[n] : Mutual(m, n)
                    /\ \A m \in seeds : ~Mutual(m, n))

\* What Tarjan's loop has still to do: edges to look at, packages to meet, calls to end.
ToLookAt ==
  {e \in Edges : \/ e[1] \in Unvisited
                 \/ \E p \in DOMAIN work : work[p].node = e[1] /\ e[2] \in work[p].succ}
ToMeet == Cardinality(ToLookAt) + 2 * Cardinality(Unvisited) + Len(work)

\* The components Kahn's loop has still to emit.
ToEmit == Cardinality({i \in DOMAIN sccs : sccs[i] \cap ToSet(order) = {}})

\* The order is found, or the queue refused, on every graph: the phases only go
\* forward, and in each every turn of the loop brings down a number that is never
\* negative. (A loop that turned for ever would hold the run lock with it.)
Terminates ==
  [][ \/ <<phase, phase'>> \in {"sorter"} \X {"tarjan", "done"}
                             \cup {"tarjan"} \X {"kahn", "error"}
                             \cup {"kahn"} \X {"done"}
      \/ phase = "tarjan" /\ phase' = phase /\ ToMeet' < ToMeet
      \/ phase = "kahn" /\ phase' = phase /\ ToEmit' < ToEmit ]_vars
=============================================================================
