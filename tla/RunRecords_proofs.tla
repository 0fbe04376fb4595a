--------------------------- MODULE RunRecords_proofs ---------------------------
(***************************************************************************)
(* Proofs about RunRecords, for every bound of the clock, every number of  *)
(* run directories kept and all values of [snapshot] keep: as long as the  *)
(* clock put the runs in order, the run under way has the newest name, so  *)
(* that no pruning takes its records, and between runs the last one speaks.*)
(***************************************************************************)
EXTENDS RunRecords, FiniteSetTheorems, TLAPS

USE BoundsAssumption

Before   == {"idle", "begun"}
Settings == [enable : {"true", "false", "auto"}, keep : Keeps \cup {-1}]
Runs     == [pc : Steps, path : {"queue", "system"}, id : Stamps, btrfs : BOOLEAN]
Ended    == [id : Stamps, end : {"done", "failed", "died"}]

-----------------------------------------------------------------------------
(* Names in order.                                                         *)

\* The newest of a set of names is the one that none is newer than.
LEMMA NewestIs ==
  ASSUME NEW S, S \subseteq Int, NEW m \in S, \A s \in S : s <= m
  PROVE  Max(S) = m
<1>1. \E x \in S : \A y \in S : x >= y
  OBVIOUS
<1>2. PICK x \in S : x = Max(S) /\ \A y \in S : x >= y
  BY <1>1 DEF Max
<1>3. x \in Int /\ m \in Int /\ x >= m /\ x <= m
  BY <1>2
<1> QED BY <1>2, <1>3

\* What is newest is never stale, if anything is to be kept.
LEMMA NewestNotStale ==
  ASSUME NEW S, S \subseteq Int, NEW m \in Int, \A s \in S : s <= m,
         NEW keep \in Nat, keep > 0
  PROVE  m \notin Stale(S, keep)
<1>1. {t \in S : t > m} = {}
  <2>1. ASSUME NEW t \in S PROVE ~(t > m)
    <3>1. t \in Int /\ t <= m
      OBVIOUS
    <3> QED BY <3>1
  <2> QED BY <2>1
<1>2. Cardinality({t \in S : t > m}) = 0
  BY <1>1, FS_EmptySet
<1> QED BY <1>2 DEF Stale

-----------------------------------------------------------------------------
(* The inductive invariant.                                                *)

\* The run under way has the newest name, and its journal is open.
RunIsNewest ==
  inOrder /\ run.pc \notin Before =>
    /\ dirs[run.id] = "open"
    /\ \A s \in Present \cup snaps : s <= run.id

\* Between runs the last run has the newest name, and its journal says how it ended.
LastIsNewest ==
  inOrder /\ run.pc \in Before /\ Present # {} =>
    /\ last.id \in Present
    /\ \A s \in Present : s <= last.id
    /\ dirs[last.id] = "failed" <=> last.end = "failed"
    /\ dirs[last.id] = "open" => last.end = "died"

\* The net is under the run from the time it was taken.
NetIsUnder ==
  /\ run.pc \in Before \cup {"opened", "pruned"} => ~run.btrfs
  /\ run.pc = "netted" => run.btrfs /\ run.id \in snaps
  /\ /\ inOrder /\ run.pc \in {"ready", "deployed"} /\ config.keep # 0
     /\ config.enable = "true" \/ run.btrfs
     => run.id \in snaps

IInv == TypeOK /\ RunIsNewest /\ LastIsNewest /\ NetIsUnder

LEMMA InitIInv == Init => IInv
<1> SUFFICES ASSUME Init PROVE IInv
  OBVIOUS
<1>1. Present = {}
  BY DEF Init, Present
<1>2. TypeOK
  <2>1. run \in Runs
    BY DEF Init, Idle, Runs, Steps, Stamps
  <2>2. last \in Ended /\ clock \in Stamps /\ dirs \in [Stamps -> Records]
    BY DEF Init, Ended, Stamps, Records
  <2>3. inOrder \in BOOLEAN
    BY Zenon DEF Init
  <2> QED BY <2>1, <2>2, <2>3 DEF Init, TypeOK, Runs, Ended
<1> QED
  BY <1>1, <1>2 DEF Init, IInv, RunIsNewest, LastIsNewest, NetIsUnder, Idle, Before

\* The steps of a run that leave the directories alone.
LEMMA QuietStep ==
  ASSUME IInv, UNCHANGED <<dirs, last, inOrder>>, TypeOK', NetIsUnder', run'.id = run.id,
         run.pc \notin Before, run'.pc \notin Before,
         snaps' \subseteq snaps \cup {run.id}
  PROVE  IInv'
<1>1. RunIsNewest'
  BY DEF IInv, RunIsNewest, Present, TypeOK, Stamps, Runs
<1>2. LastIsNewest'
  BY DEF LastIsNewest
<1> QED BY <1>1, <1>2 DEF IInv

\* Every step keeps it.
LEMMA NextIInv == IInv /\ [Next]_vars => IInv'
<1> SUFFICES ASSUME IInv, [Next]_vars PROVE IInv'
  OBVIOUS
<1> USE DEF Before
<1>a. /\ run \in Runs /\ last \in Ended /\ dirs \in [Stamps -> Records]
      /\ clock \in Stamps /\ config \in Settings /\ snaps \subseteq Stamps
      /\ run.id \in Stamps /\ run.pc \in Steps /\ last.id \in Stamps
      /\ config.enable = "false" => snaps = {}
      /\ inOrder \in BOOLEAN
  BY DEF IInv, TypeOK, Runs, Ended, Settings
<1>b. Present \subseteq Stamps /\ Stamps \subseteq Int
  BY DEF Present, Stamps
<1>c. /\ Idle \in Runs /\ Idle.pc = "idle" /\ ~Idle.btrfs
      /\ [Idle EXCEPT !.pc = "begun"] \in Runs
      /\ [Idle EXCEPT !.pc = "begun"].pc = "begun"
      /\ ~[Idle EXCEPT !.pc = "begun"].btrfs
  <2>1. Idle \in Runs /\ Idle.pc = "idle"
    BY DEF Idle, Runs, Steps, Stamps
  <2>2. Idle.btrfs = FALSE
    BY DEF Idle
  <2>3. [Idle EXCEPT !.pc = "begun"] \in Runs
    BY <2>1 DEF Runs, Steps
  <2>4. /\ [Idle EXCEPT !.pc = "begun"].pc = "begun"
        /\ [Idle EXCEPT !.pc = "begun"].btrfs = Idle.btrfs
    BY <2>1 DEF Runs
  <2> QED BY <2>1, <2>2, <2>3, <2>4
<1>d. Present \subseteq Int /\ snaps \subseteq Int /\ run.id \in Int /\ clock \in Int
  BY <1>a, <1>b
<1>1. ASSUME Begin PROVE IInv'
  <2>1. TypeOK'
    BY <1>1, <1>a, <1>c DEF Begin, TypeOK, Runs, Ended, Settings
  <2>2. RunIsNewest' /\ NetIsUnder'
    BY <1>1, <1>c DEF Begin, RunIsNewest, NetIsUnder
  <2>3. LastIsNewest'
    BY <1>1 DEF Begin, IInv, LastIsNewest, Present
  <2> QED BY <2>1, <2>2, <2>3 DEF IInv
<1>2. ASSUME EndUnrecorded PROVE IInv'
  <2>1. TypeOK'
    BY <1>2, <1>a, <1>c DEF EndUnrecorded, TypeOK, Runs, Ended, Settings
  <2>2. RunIsNewest' /\ NetIsUnder'
    BY <1>2, <1>c DEF EndUnrecorded, RunIsNewest, NetIsUnder
  <2>3. LastIsNewest'
    BY <1>2 DEF EndUnrecorded, IInv, LastIsNewest, Present
  <2> QED BY <2>1, <2>2, <2>3 DEF IInv
<1>3. ASSUME OpenJournal PROVE IInv'
  <2>0. /\ inOrder' = (\A s \in Present \cup snaps : s < clock)
        /\ UNCHANGED <<clock, config, snaps>> /\ run.pc = "begun"
    BY <1>3 DEF OpenJournal
  <2>1. inOrder' \in BOOLEAN
    BY <2>0
  <2>1a. ASSUME inOrder' PROVE \A s \in Present \cup snaps : s < clock
    BY <2>0, <2>1a, Zenon
  <2>2. ASSUME inOrder' PROVE dirs[clock] = "none"
    <3>1. ~(clock < clock)
      BY <1>d
    <3>2. clock \notin Present
      BY <2>1a, <2>2, <3>1
    <3> QED BY <1>a, <3>2 DEF Present
  <2>3. ASSUME NEW path \in {"queue", "system"},
               run' = [run EXCEPT !.pc = "opened", !.path = path, !.id = clock],
               dirs' = [dirs EXCEPT ![clock] = "open"], last' = last
        PROVE  IInv'
    <3>1. run' \in Runs /\ run'.pc = "opened" /\ run'.id = clock /\ run'.btrfs = run.btrfs
      BY <1>a, <2>3 DEF Runs, Steps
    <3>2. dirs' \in [Stamps -> Records]
      BY <1>a, <2>3 DEF Records
    <3>3. TypeOK'
      BY <1>a, <2>0, <2>1, <2>3, <3>1, <3>2 DEF TypeOK, Runs, Ended, Settings
    <3>4. Present' \subseteq Present \cup {clock} /\ dirs'[clock] = "open"
      BY <1>a, <2>3 DEF Present
    <3>5. RunIsNewest'
      <4>1. ASSUME inOrder' PROVE \A s \in Present' \cup snaps' : s <= clock
        <5> SUFFICES ASSUME NEW s \in Present' \cup snaps' PROVE s <= clock
          OBVIOUS
        <5>1. CASE s = clock
          BY <1>d, <5>1
        <5>2. CASE s \in Present \cup snaps
          <6>1. s \in Int /\ s < clock
            BY <1>d, <2>1a, <4>1, <5>2
          <6> QED BY <1>d, <6>1
        <5> QED BY <2>0, <3>4, <5>1, <5>2
      <4> QED BY <3>1, <3>4, <4>1 DEF RunIsNewest
    <3>6. LastIsNewest'
      BY <3>1 DEF LastIsNewest
    <3>7. NetIsUnder'
      BY <2>0, <3>1 DEF IInv, NetIsUnder
    <3> QED BY <3>3, <3>5, <3>6, <3>7 DEF IInv
  <2>4. ASSUME dirs' = [dirs EXCEPT ![clock] = IF @ = "none" THEN "empty" ELSE @],
               run' = Idle, last' = [id |-> clock, end |-> "died"]
        PROVE  IInv'
    <3>1. dirs' \in [Stamps -> Records] /\ last' \in Ended
      BY <1>a, <2>4 DEF Records, Ended
    <3>2. TypeOK'
      BY <1>a, <1>c, <2>0, <2>1, <2>4, <3>1 DEF TypeOK, Runs, Ended, Settings
    <3>3. RunIsNewest' /\ NetIsUnder'
      BY <1>c, <2>4 DEF RunIsNewest, NetIsUnder
    <3>4. LastIsNewest'
      <4>1. SUFFICES ASSUME inOrder' PROVE LastIsNewest'
        BY DEF LastIsNewest
      <4>2. dirs'[clock] = "empty" /\ last'.id = clock /\ last'.end = "died"
        BY <1>a, <2>2, <2>4, <4>1
      <4>3. Present' = Present \cup {clock}
        BY <1>a, <2>2, <2>4, <4>1, <4>2 DEF Present
      <4> QED
        BY <1>d, <2>1a, <4>1, <4>2, <4>3 DEF LastIsNewest
    <3> QED BY <3>2, <3>3, <3>4 DEF IInv
  <2> QED BY <1>3, <2>3, <2>4 DEF OpenJournal
<1>4. ASSUME PruneLogs PROVE IInv'
  <2>0. /\ run.pc = "opened" /\ run' = [run EXCEPT !.pc = "pruned"]
        /\ UNCHANGED <<clock, config, snaps, last, inOrder>>
    BY <1>4 DEF PruneLogs
  <2>1. run' \in Runs /\ run'.pc = "pruned" /\ run'.id = run.id /\ run'.btrfs = run.btrfs
    BY <1>a, <2>0 DEF Runs, Steps
  <2>2. PICK gone, cut \in SUBSET Stale(Present, KeepLogs) :
           dirs' = [s \in Stamps |-> IF s \in gone THEN "none"
                                     ELSE IF s \in cut THEN "empty" ELSE dirs[s]]
    BY <1>4 DEF PruneLogs
  <2>3. dirs' \in [Stamps -> Records]
    BY <1>a, <2>2 DEF Records
  <2>4. TypeOK'
    BY <1>a, <2>0, <2>1, <2>3 DEF TypeOK, Runs, Ended, Settings
  <2>5. Stale(Present, KeepLogs) \subseteq Present
    BY DEF Stale
  <2>6. Present' \subseteq Present
    BY <1>a, <1>b, <2>2, <2>5 DEF Present
  <2>7. RunIsNewest'
    <3>1. SUFFICES ASSUME inOrder PROVE RunIsNewest'
      BY <2>0 DEF RunIsNewest
    <3>2. dirs[run.id] = "open" /\ \A s \in Present \cup snaps : s <= run.id
      BY <2>0, <3>1 DEF IInv, RunIsNewest
    <3>3. run.id \notin Stale(Present, KeepLogs)
      <4>1. KeepLogs \in Nat /\ KeepLogs > 0
        OBVIOUS
      <4>2. \A s \in Present : s <= run.id
        BY <3>2
      <4> QED BY <1>d, <4>1, <4>2, NewestNotStale
    <3>4. dirs'[run.id] = "open"
      BY <1>a, <2>2, <3>2, <3>3
    <3> QED BY <2>0, <2>1, <2>6, <3>2, <3>4 DEF RunIsNewest
  <2>8. LastIsNewest'
    BY <2>1 DEF LastIsNewest
  <2>9. NetIsUnder'
    BY <2>0, <2>1 DEF IInv, NetIsUnder
  <2> QED BY <2>4, <2>7, <2>8, <2>9 DEF IInv
<1>5. ASSUME NEW how \in {"failed", "done"}, run.pc \notin {"idle", "begun"}, CanRecord,
             dirs' = [dirs EXCEPT ![run.id] = how], Ends(how),
             UNCHANGED <<clock, config, snaps, inOrder>>
      PROVE  IInv'
  <2>1. dirs' \in [Stamps -> Records] /\ last' \in Ended /\ run' = Idle
    BY <1>a, <1>5 DEF Records, Ended, Ends
  <2>2. TypeOK'
    BY <1>a, <1>c, <1>5, <2>1 DEF TypeOK, Runs, Ended, Settings
  <2>3. RunIsNewest' /\ NetIsUnder'
    BY <1>c, <2>1 DEF RunIsNewest, NetIsUnder
  <2>4. dirs'[run.id] = how /\ last'.id = run.id /\ last'.end = how
    BY <1>a, <1>5 DEF Ends
  <2>5. Present' \subseteq Present \cup {run.id} /\ run.id \in Present'
    BY <1>a, <1>5, <2>4 DEF Present
  <2>6. LastIsNewest'
    BY <1>a, <1>b, <1>5, <2>4, <2>5 DEF LastIsNewest, IInv, RunIsNewest, Stamps
  <2> QED BY <2>2, <2>3, <2>6 DEF IInv
<1>6. ASSUME Fail PROVE IInv'
  BY <1>5, <1>6 DEF Fail
<1>7. ASSUME Finish PROVE IInv'
  BY <1>5, <1>7 DEF Finish
<1>8. ASSUME Die PROVE IInv'
  <2>1. /\ run.pc \notin {"idle", "begun"} /\ run' = Idle
        /\ last' = [id |-> run.id, end |-> "died"]
        /\ UNCHANGED <<clock, config, dirs, snaps, inOrder>>
    BY <1>8 DEF Die, Ends
  <2>2. last' \in Ended /\ last'.id = run.id /\ last'.end = "died"
    BY <1>a, <2>1 DEF Ended
  <2>3. TypeOK'
    BY <1>a, <1>c, <2>1, <2>2 DEF TypeOK, Runs, Ended, Settings
  <2>4. RunIsNewest' /\ NetIsUnder'
    BY <1>c, <2>1 DEF RunIsNewest, NetIsUnder
  <2>5. LastIsNewest'
    BY <1>a, <2>1, <2>2 DEF LastIsNewest, IInv, RunIsNewest, Present
  <2> QED BY <2>3, <2>4, <2>5 DEF IInv
<1>9. ASSUME SkipSnapshot PROVE IInv'
  <2>1. run' \in Runs /\ run'.pc = "ready" /\ run'.id = run.id /\ run'.btrfs = run.btrfs
    BY <1>a, <1>9 DEF SkipSnapshot, Runs, Steps
  <2>2. TypeOK'
    BY <1>a, <1>9, <2>1 DEF SkipSnapshot, TypeOK, Runs, Ended, Settings
  <2>3. NetIsUnder'
    BY <1>9, <2>1 DEF SkipSnapshot, IInv, NetIsUnder
  <2> QED BY <1>9, <2>1, <2>2, <2>3, QuietStep DEF SkipSnapshot
<1>10. ASSUME TakeSnapshot PROVE IInv'
  <2>1. run' \in Runs /\ run'.pc = "netted" /\ run'.id = run.id /\ run'.btrfs
    BY <1>a, <1>10 DEF TakeSnapshot, Runs, Steps
  <2>2. TypeOK'
    BY <1>a, <1>10, <2>1 DEF TakeSnapshot, Wanted, TypeOK, Runs, Ended, Settings
  <2>3. NetIsUnder'
    BY <1>10, <2>1 DEF TakeSnapshot, NetIsUnder
  <2> QED BY <1>10, <2>1, <2>2, <2>3, QuietStep DEF TakeSnapshot
<1>11. ASSUME PruneSnapshots PROVE IInv'
  <2>1. run' \in Runs /\ run'.pc = "ready" /\ run'.id = run.id /\ run'.btrfs = run.btrfs
    BY <1>a, <1>11 DEF PruneSnapshots, Runs, Steps
  <2>2. snaps' \subseteq snaps
    BY <1>11 DEF PruneSnapshots
  <2>3. TypeOK'
    BY <1>a, <1>11, <2>1, <2>2 DEF PruneSnapshots, TypeOK, Runs, Ended, Settings
  <2>4. NetIsUnder'
    <3>1. SUFFICES ASSUME inOrder, config.keep # 0 PROVE run.id \in snaps'
      BY <1>11, <2>1 DEF PruneSnapshots, NetIsUnder
    <3>2. run.id \in snaps /\ \A s \in snaps : s <= run.id
      BY <1>11, <3>1 DEF PruneSnapshots, IInv, NetIsUnder, RunIsNewest
    <3>3. config.keep \in Int
      <4>1. config.keep \in Keeps \cup {-1}
        BY <1>a DEF Settings
      <4>2. CASE config.keep \in Keeps
        <5>1. config.keep \in Nat
          BY <4>2
        <5> QED BY <5>1
      <4>3. CASE config.keep = -1
        BY <4>3
      <4> QED BY <4>1, <4>2, <4>3
    <3>4. CASE config.keep < 0
      BY <1>11, <3>2, <3>4 DEF PruneSnapshots
    <3>5. CASE ~(config.keep < 0)
      <4>1. config.keep \in Nat /\ config.keep > 0
        BY <3>1, <3>3, <3>5
      <4>2. run.id \notin Stale(snaps, config.keep)
        BY <1>d, <3>2, <4>1, NewestNotStale
      <4> QED BY <1>11, <3>2, <3>5, <4>2 DEF PruneSnapshots
    <3> QED BY <3>4, <3>5
  <2> QED BY <1>11, <2>1, <2>2, <2>3, <2>4, QuietStep DEF PruneSnapshots
<1>12. ASSUME Deploy PROVE IInv'
  <2>1. run' \in Runs /\ run'.pc = "deployed" /\ run'.id = run.id /\ run'.btrfs = run.btrfs
    BY <1>a, <1>12 DEF Deploy, Runs, Steps
  <2>2. TypeOK'
    BY <1>a, <1>12, <2>1 DEF Deploy, TypeOK, Runs, Ended, Settings
  <2>3. NetIsUnder'
    BY <1>12, <2>1 DEF Deploy, IInv, NetIsUnder
  <2> QED BY <1>12, <2>1, <2>2, <2>3, QuietStep DEF Deploy
<1>13. ASSUME Tick \/ SetBack PROVE IInv'
  <2>1. clock' \in Stamps /\ UNCHANGED <<config, dirs, snaps, run, last, inOrder>>
    BY <1>a, <1>13 DEF Tick, SetBack, Stamps
  <2>2. TypeOK'
    BY <1>a, <2>1 DEF TypeOK, Runs, Ended, Settings
  <2>3. RunIsNewest' /\ LastIsNewest' /\ NetIsUnder'
    BY <2>1 DEF IInv, RunIsNewest, LastIsNewest, NetIsUnder, Present
  <2> QED BY <2>2, <2>3 DEF IInv
<1>14. ASSUME UNCHANGED vars PROVE IInv'
  BY <1>14 DEF vars, IInv, TypeOK, RunIsNewest, LastIsNewest, NetIsUnder, Present
<1> QED
  BY <1>1, <1>2, <1>3, <1>4, <1>6, <1>7, <1>8, <1>9, <1>10, <1>11, <1>12, <1>13, <1>14
  DEF Next, Run

LEMMA Invariant == Spec => []IInv
  BY InitIInv, NextIInv, PTL DEF Spec

\* Every variable keeps its type, and with snapshots switched off none appears.
THEOREM TypeCorrect == Spec => []TypeOK
  BY Invariant, PTL DEF IInv

\* The newest journal is the last run's, and says how that ended.
THEOREM RecordsTell == Spec => []RecordsTellTheLastRun
<1>1. IInv => RecordsTellTheLastRun
  <2> SUFFICES ASSUME IInv, inOrder, run.pc \in Before, Present # {}
               PROVE  /\ Newest = last.id
                      /\ FailureShown <=> last.end = "failed"
                      /\ Interrupted => last.end = "died"
    BY DEF RecordsTellTheLastRun, Before
  <2>1. /\ last.id \in Present /\ \A s \in Present : s <= last.id
        /\ dirs[last.id] = "failed" <=> last.end = "failed"
        /\ dirs[last.id] = "open" => last.end = "died"
    BY DEF IInv, LastIsNewest
  <2>2. Present \subseteq Int
    BY DEF Present, Stamps
  <2>3. Newest = last.id
    BY <2>1, <2>2, NewestIs DEF Newest
  <2> QED BY <2>1, <2>3 DEF FailureShown, Interrupted
<1> QED BY <1>1, Invariant, PTL

\* A deploy has the net it is owed.
THEOREM DeployIsNetted == Spec => []DeployHasNet
<1>1. IInv => DeployHasNet
  BY DEF IInv, NetIsUnder, DeployHasNet, Owed
<1> QED BY <1>1, Invariant, PTL
=============================================================================
