------------------------- MODULE NightlySchedule_proofs -------------------------
(***************************************************************************)
(* Proofs about NightlySchedule, for every length of the day, every Grace  *)
(* shorter than it and every bound of the clock.  The arithmetic they need *)
(* is that a clock time comes round within a day.                          *)
(***************************************************************************)
EXTENDS NightlySchedule, WellFoundedInduction, TLAPS

USE BoundsAssumption

-----------------------------------------------------------------------------
(* Least elements and remainders.                                          *)

\* A set of natural numbers that is not empty has a least element.
LEMMA Least ==
  ASSUME NEW T, T \subseteq Nat, T # {}
  PROVE  \E m \in T : \A k \in T : m <= k
<1> DEFINE R == OpToRel(<, Nat)
<1>1. \A x, y \in Nat : x < y => <<x, y>> \in R
  BY Zenon DEF OpToRel
<1>2. IsWellFoundedOn(R, Nat)
  BY NatLessThanWellFounded
<1> HIDE DEF R
<1>3. PICK x \in T : \A y \in T : ~(<<y, x>> \in R)
  BY <1>2, WFMin
<1>4. ASSUME NEW y \in T PROVE x <= y
  <2>1. x \in Nat /\ y \in Nat
    OBVIOUS
  <2>2. ~(y < x)
    BY <1>1, <1>3, <2>1, Zenon
  <2> QED BY <2>1, <2>2
<1> QED BY <1>4

\* Min of FiniteSetsExt is that element.
LEMMA MinLeast ==
  ASSUME NEW T, T \subseteq Nat, T # {}
  PROVE  Min(T) \in T /\ \A k \in T : Min(T) <= k
  BY Least DEF Min

\* The capped counters.
LEMMA MinOfTwo == ASSUME NEW n \in Nat PROVE Min({2, n}) = IF n <= 2 THEN n ELSE 2
<1>1. {2, n} \subseteq Nat /\ {2, n} # {}
  OBVIOUS
<1> QED BY <1>1, MinLeast

\* No multiple of d but 0 lies strictly between -d and d.
LEMMA NoSmallMultiple ==
  ASSUME NEW d \in Nat, d > 0, NEW k \in Int, d * k < d, -d < d * k
  PROVE  k = 0
<1>1. ASSUME k >= 1 PROVE d * k >= d
  BY <1>1
<1>2. ASSUME k <= -1 PROVE d * k <= -d
  BY <1>2
<1> QED BY <1>1, <1>2

\* What the quotient and the remainder are.
LEMMA Division ==
  ASSUME NEW d \in Nat, d > 0, NEW x \in Int
  PROVE  x = d * (x \div d) + (x % d) /\ x % d \in 0..d - 1 /\ x \div d \in Int
<1>1. x \div d \in Int /\ x % d \in 0..d - 1
  OBVIOUS
<1>2. x = d * (x \div d) + (x % d)
  OBVIOUS
<1> QED BY <1>1, <1>2

\* The remainder is the only one.
LEMMA RemainderUnique ==
  ASSUME NEW d \in Nat, d > 0, NEW q \in Int, NEW r \in 0..d - 1,
         NEW x \in Int, x = d * q + r
  PROVE  x % d = r
<1>1. x = d * (x \div d) + (x % d) /\ x % d \in 0..d - 1 /\ x \div d \in Int
  BY Division
<1>2. d * (q - (x \div d)) = (x % d) - r
  BY <1>1
<1>3. q - (x \div d) = 0
  BY <1>1, <1>2, NoSmallMultiple
<1> QED BY <1>1, <1>2, <1>3

\* A clock time comes round within a day.
LEMMA ComesRound ==
  ASSUME NEW now \in Nat, NEW t \in 0..Day - 1
  PROVE  \E e \in now..now + Day - 1 : e % Day = t
<1> DEFINE q == now \div Day
           r == now % Day
<1>1. now = Day * q + r /\ r \in 0..Day - 1 /\ q \in Int
  OBVIOUS
<1> HIDE DEF q, r
<1>2. CASE t >= r
  <2>1. Day * q + t \in now..now + Day - 1
    BY <1>1, <1>2
  <2>2. (Day * q + t) % Day = t
    BY <1>1, <2>1, RemainderUnique
  <2> QED BY <2>1, <2>2
<1>3. CASE t < r
  <2>1. Day * (q + 1) + t = Day * q + Day + t
    BY <1>1
  <2>2. Day * (q + 1) + t \in now..now + Day - 1
    BY <1>1, <1>3, <2>1
  <2>3. (Day * (q + 1) + t) % Day = t
    BY <1>1, <2>2, RemainderUnique
  <2> QED BY <2>2, <2>3
<1> QED BY <1>1, <1>2, <1>3

-----------------------------------------------------------------------------
(* The command and the veto it writes.                                     *)

\* The next run is at a time of the conf, and for a plain hour within a day.
LEMMA NextRunWithinADay ==
  ASSUME TypeOK, Plain
  PROVE  NextRun \in Expiries /\ NextRun \in clock..clock + Day - 1
<1> DEFINE Runs == {t \in Expiries : t >= clock /\ t % Day \in conf.hours}
<1>1. PICK t \in 0..Day - 1 : conf.hours = {t}
  BY DEF Plain
<1>2. clock \in Nat /\ clock <= MaxClock
  BY DEF TypeOK, Clock
<1>3. PICK e \in clock..clock + Day - 1 : e % Day = t
  BY <1>2, ComesRound
<1>4. e \in Runs
  BY <1>1, <1>2, <1>3 DEF Expiries
<1>5. Runs \subseteq Nat
  BY DEF Expiries
<1>6. Min(Runs) \in Runs /\ Min(Runs) <= e
  BY <1>4, <1>5, MinLeast
<1> QED BY <1>2, <1>3, <1>6 DEF NextRun, Expiries

\* A veto reaches less than a day and Grace past its request.
LEMMA WaitWithinADay ==
  ASSUME TypeOK
  PROVE  /\ Wait \in 0..Day - 1
         /\ clock + Wait + Grace \in Expiries
         /\ Plain => NextRun \in Expiries /\ NextRun + Grace = clock + Wait + Grace
<1>1. clock \in Nat /\ clock <= MaxClock
  BY DEF TypeOK, Clock
<1>2. CASE Plain
  BY <1>1, <1>2, NextRunWithinADay DEF Wait, Expiries
<1>3. CASE ~Plain
  BY <1>1, <1>3 DEF Wait, Expiries
<1> QED BY <1>2, <1>3

-----------------------------------------------------------------------------
(* The inductive invariant.                                                *)

\* A request still open has its veto lying in the file, and no veto is older than
\* the last request.
AskedHasVeto ==
  /\ since <= clock
  /\ \A t \in asked : t + Grace \in veto

\* A veto that withheld a kernel is gone, unless its file would not be removed.
SparedIsSpent == spared > 0 => stuck \/ veto = {}

\* A build the conf does not want is by a script that read the conf before, and that
\* script reads it again before it waits for another run.
DefiedIsLast ==
  defied > 0 => ~Builds(conf) /\ (Builds(armed) => service \in {"off", "down", "commit"})

IInv ==
  /\ TypeOK /\ AskedHasVeto /\ SparedIsSpent /\ DefiedIsLast
  /\ VetoIsKept /\ VetoNeverPermanent /\ ScopeObeyedAfterOneRun

LEMMA InitIInv == Init => IInv
<1> SUFFICES ASSUME Init PROVE IInv
  OBVIOUS
<1>1. TypeOK
  <2>1. met \in [due : BOOLEAN, withheld : BOOLEAN, after : Clock]
    BY DEF Init, Clock
  <2>2. clock \in Clock /\ since \in Clock /\ service \in Phases
    BY DEF Init, Clock, Phases
  <2>3. conf \in Conf /\ armed \in Conf
    BY DEF Init
  <2>4. fired = {} /\ veto = {} /\ asked = {} /\ stuck \in BOOLEAN
    BY DEF Init
  <2>5. spared \in 0..2 /\ defied \in 0..2
    BY DEF Init
  <2> QED BY <2>1, <2>2, <2>3, <2>4, <2>5 DEF TypeOK
<1> QED
  BY <1>1 DEF Init, IInv, AskedHasVeto, SparedIsSpent, DefiedIsLast, VetoIsKept,
              VetoNeverPermanent, ScopeObeyedAfterOneRun

LEMMA NextIInv == IInv /\ [Next]_vars => IInv'
<1> SUFFICES ASSUME IInv, [Next]_vars PROVE IInv'
  OBVIOUS
<1> USE DEF IInv, TypeOK, AskedHasVeto, SparedIsSpent, DefiedIsLast, VetoIsKept,
            VetoNeverPermanent, ScopeObeyedAfterOneRun, Clock, Conf, Phases, request
<1>1. ASSUME Arm PROVE IInv'
  BY <1>1 DEF Arm, Reads
<1>2. ASSUME Stop PROVE IInv'
  BY <1>2 DEF Stop
<1>3. ASSUME EditConf PROVE IInv'
  BY <1>3 DEF EditConf
<1>4. ASSUME Wake PROVE IInv'
  BY <1>4 DEF Wake
<1>5. ASSUME Restart PROVE IInv'
  BY <1>5 DEF Restart, Reads
<1>6. ASSUME SkipTonight PROVE IInv'
  <2>1. CASE veto' = {} /\ asked' = {} /\ UNCHANGED stuck
    BY <1>6, <2>1 DEF SkipTonight
  <2>2. CASE /\ veto' = {clock + Wait + Grace} /\ stuck' = FALSE
             /\ asked' = IF Plain THEN {NextRun} ELSE {}
    <3>1. TypeOK'
      <4>1. veto' \subseteq Expiries /\ asked' \subseteq Expiries
        BY <1>6, <2>2, WaitWithinADay DEF SkipTonight
      <4>2. since' = clock /\ \A e \in veto' : e < since' + Day + Grace
        BY <1>6, <2>2, WaitWithinADay DEF SkipTonight
      <4>3. /\ since' \in Clock /\ spared' = 0 /\ stuck' = FALSE
            /\ UNCHANGED <<clock, conf, service, armed, fired, met, defied>>
        BY <1>6, <2>2 DEF SkipTonight
      <4>4. clock' \in Clock /\ conf' \in Conf /\ service' \in Phases /\ armed' \in Conf
        BY <4>3
      <4>5. fired' \subseteq Clock /\ met' = met
        BY <4>3
      <4>6. since' \in Clock /\ spared' \in 0..2 /\ defied' \in 0..2
        BY <4>3
      <4>7. stuck' \in BOOLEAN
        BY <2>2, Zenon
      <4> QED
        BY <4>1, <4>2, <4>4, <4>5, <4>6, <4>7
    <3>2. AskedHasVeto'
      BY <1>6, <2>2, WaitWithinADay DEF SkipTonight
    <3> QED
      BY <1>6, <2>2, <3>1, <3>2 DEF SkipTonight
  <2> QED BY <1>6, <2>1, <2>2 DEF SkipTonight
<1>7. ASSUME Commit PROVE IInv'
  <2>1. CASE ~Builds(armed)
    BY <1>7, <2>1 DEF Commit
  <2>2. CASE Builds(armed)
    <3>1. /\ spared' \in 0..2 /\ (~InForce => spared' = spared)
          /\ (spared <= 1 => spared' <= spared + 1)
      <4>1. Min({2, spared + 1}) \in 0..2 /\ (spared <= 1 => Min({2, spared + 1}) <= spared + 1)
        BY MinOfTwo
      <4> QED BY <1>7, <2>2, <4>1 DEF Commit
    <3>2. /\ defied' \in 0..2
          /\ (defied = 0 => defied' <= 1)
          /\ (Builds(conf) => defied' = defied)
      <4>1. Min({2, defied + 1}) \in 0..2 /\ (defied = 0 => Min({2, defied + 1}) <= 1)
        BY MinOfTwo
      <4> QED BY <1>7, <2>2, <4>1 DEF Commit
    <3>3. TypeOK'
      <4>1. clock - since \in Clock
        OBVIOUS
      <4>2. InForce \in BOOLEAN /\ (\E t \in asked : clock <= t + Grace) \in BOOLEAN
        BY DEF InForce
      <4>3. met' \in [due : BOOLEAN, withheld : BOOLEAN, after : Clock]
        <5> DEFINE due == \E t \in asked : clock <= t + Grace
                   withheld == InForce
                   after == clock - since
        <5>1. met' = [due |-> due, withheld |-> withheld, after |-> after]
          BY <1>7, <2>2, Zenon DEF Commit
        <5>2. due \in BOOLEAN /\ withheld \in BOOLEAN /\ after \in Clock
          BY <4>1, <4>2
        <5> HIDE DEF due, withheld, after
        <5> QED BY <5>1, <5>2
      <4>4. veto' \subseteq veto /\ asked' = {} /\ stuck' \in BOOLEAN /\ since' = since
        BY <1>7, <2>2, <4>2 DEF Commit, Spent
      <4> QED BY <1>7, <2>2, <3>1, <3>2, <4>3, <4>4 DEF Commit
    <3>4. InForce => clock - since < Day + Grace
      BY DEF InForce, Expiries
    <3>5. (\E t \in asked : clock <= t + Grace) => InForce
      BY DEF InForce
    <3>6. VetoIsKept' /\ AskedHasVeto'
      BY <1>7, <2>2, <3>5 DEF Commit
    <3>7. SparedIsSpent'
      BY <1>7, <2>2, <3>1 DEF Commit, Spent
    <3>8. VetoNeverPermanent'
      BY <1>7, <2>2, <3>1, <3>4 DEF Commit, Spent, InForce
    <3>9. defied = 0
      BY <1>7, <2>2 DEF Commit
    <3> QED
      BY <1>7, <2>2, <3>2, <3>3, <3>6, <3>7, <3>8, <3>9 DEF Commit
  <2> QED BY <2>1, <2>2
<1>8. ASSUME Tick PROVE IInv'
  BY <1>8 DEF Tick
<1>9. ASSUME UNCHANGED vars PROVE IInv'
  BY <1>9 DEF vars
<1> QED
  BY <1>1, <1>2, <1>3, <1>4, <1>5, <1>6, <1>7, <1>8, <1>9 DEF Next

LEMMA Invariant == Spec => []IInv
  BY InitIInv, NextIInv, PTL DEF Spec

\* Every variable keeps its type; in particular a veto is in force for less than a
\* day and Grace after its request.
THEOREM TypeCorrect == Spec => []TypeOK
  BY Invariant, PTL DEF IInv

\* A request is kept by the first scheduled commit it reaches in time.
THEOREM RequestIsKept == Spec => []VetoIsKept
  BY Invariant, PTL DEF IInv

\* A request never becomes a permanent setting.
THEOREM RequestIsOneShot == Spec => []VetoNeverPermanent
  BY Invariant, PTL DEF IInv

\* A conf without the kernel is defied at most once.
THEOREM ScopeObeyed == Spec => []ScopeObeyedAfterOneRun
  BY Invariant, PTL DEF IInv
=============================================================================
