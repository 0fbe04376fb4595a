---------------------------- MODULE RunLock_proofs ----------------------------
(***************************************************************************)
(* The run lock for any number of processes: one run works at a time, the  *)
(* label names it if it could be written, and no crash leaves a lock       *)
(* behind.                                                                 *)
(***************************************************************************)
EXTENDS RunLock, TLAPS

Kinds ==
  \A p \in Procs :
    /\ p \in Probes => pc[p] \in {"off", "open", "unlock", "refused"}
    /\ p \notin Probes => pc[p] # "unlock"

OpenedFile ==
  /\ \A p \in Procs : pc[p] \in {"open", "clear", "sign", "unlock", "refused"} => file
  /\ flock # Nobody => file

Holder ==
  /\ \A p \in Procs : pc[p] \in {"clear", "sign", "unlock"} => flock = p
  /\ WorkerIsNamed

\* TypeOK but for the file under the lock, which OpenedFile supplies.
Types ==
  /\ pc \in [Procs -> Steps]
  /\ file \in BOOLEAN
  /\ flock \in Procs \cup {Nobody} /\ label \in Labels
  /\ child \subseteq Runs /\ unsigned \subseteq Runs \cup Previews
  /\ night \in {"sync", "commit"}

\* The inductive invariant: who may be at which step, that whoever opened the
\* file left it there, and who holds the lock at each step.
IInv == Types /\ Kinds /\ OpenedFile /\ Holder /\ NoGhostLock

LEMMA InitIInv == Init => IInv
<1> SUFFICES ASSUME Init PROVE IInv
  OBVIOUS
<1> USE KindsAssumption DEF Init
<1>1. Types
  BY DEF Types, Steps, Labels
<1>2. Kinds
  BY DEF Kinds
<1>3. OpenedFile
  BY DEF OpenedFile
<1>4. Holder
  BY DEF Holder, WorkerIsNamed, Procs
<1>5. NoGhostLock
  BY DEF NoGhostLock
<1> QED
  BY <1>1, <1>2, <1>3, <1>4, <1>5 DEF IInv

LEMMA NextIInv == IInv /\ [Next]_vars => IInv'
<1> SUFFICES ASSUME IInv, [Next]_vars PROVE IInv'
  OBVIOUS
<1> USE KindsAssumption, OpensAssumption DEF Procs, Runs, Labels
<1> DEFINE All == Types' /\ Kinds' /\ OpenedFile' /\ Holder' /\ NoGhostLock'
<1>0. CASE UNCHANGED vars
  BY <1>0 DEF IInv, Types, Kinds, OpenedFile, Holder, WorkerIsNamed, NoGhostLock, vars
<1>1. ASSUME NEW p \in Procs, Open(p) PROVE All
  <2>1. Types'
    BY <1>1 DEF IInv, Types, Open, Create, Steps
  <2>2. Kinds'
    BY <1>1 DEF IInv, Types, Kinds, Open, Create
  <2>3. OpenedFile'
    BY <1>1 DEF IInv, Types, OpenedFile, Open, Create
  <2>4. Holder'
    BY <1>1 DEF IInv, Types, Holder, WorkerIsNamed, Open, Create
  <2>5. NoGhostLock'
    BY <1>1 DEF IInv, Types, NoGhostLock, Open, Create
  <2> QED BY <2>1, <2>2, <2>3, <2>4, <2>5
<1>2. ASSUME NEW p \in Procs, TryLock(p) PROVE All
  <2>1. Types'
    BY <1>2 DEF IInv, Types, TryLock, Grant, Steps
  <2>2. Kinds'
    BY <1>2 DEF IInv, Types, Kinds, TryLock, Grant
  <2>3. OpenedFile'
    BY <1>2 DEF IInv, Types, OpenedFile, TryLock, Grant
  <2>4. Holder'
    BY <1>2 DEF IInv, Types, Holder, WorkerIsNamed, TryLock, Grant
  <2>5. NoGhostLock'
    BY <1>2 DEF IInv, Types, NoGhostLock, TryLock, Grant
  <2> QED BY <2>1, <2>2, <2>3, <2>4, <2>5
<1>3. ASSUME NEW p \in Procs, Clear(p) PROVE All
  <2>1. Types'
    BY <1>3 DEF IInv, Types, Kinds, Clear, Steps
  <2>2. Kinds'
    BY <1>3 DEF IInv, Types, Kinds, Clear
  <2>3. OpenedFile'
    BY <1>3 DEF IInv, Types, OpenedFile, Clear
  <2>4. Holder'
    BY <1>3 DEF IInv, Types, Holder, WorkerIsNamed, Clear
  <2>5. NoGhostLock'
    BY <1>3 DEF IInv, Types, NoGhostLock, Clear
  <2> QED BY <2>1, <2>2, <2>3, <2>4, <2>5
<1>4. ASSUME NEW p \in Procs, Sign(p) PROVE All
  <2>1. Types'
    BY <1>4 DEF IInv, Types, Kinds, Sign, Steps
  <2>2. Kinds'
    BY <1>4 DEF IInv, Types, Kinds, Sign
  <2>3. OpenedFile'
    BY <1>4 DEF IInv, Types, OpenedFile, Sign
  <2>4. Holder'
    BY <1>4 DEF IInv, Types, Holder, WorkerIsNamed, Sign
  <2>5. NoGhostLock'
    BY <1>4 DEF IInv, Types, NoGhostLock, Sign
  <2> QED BY <2>1, <2>2, <2>3, <2>4, <2>5
<1>5. ASSUME NEW p \in Procs, Refused(p) PROVE All
  <2>1. Types'
    BY <1>5 DEF IInv, Types, Refused, Steps
  <2>2. Kinds'
    BY <1>5 DEF IInv, Types, Kinds, Refused
  <2>3. OpenedFile'
    BY <1>5 DEF IInv, Types, OpenedFile, Refused
  <2>4. Holder'
    BY <1>5 DEF IInv, Types, Holder, WorkerIsNamed, Refused
  <2>5. NoGhostLock'
    BY <1>5 DEF IInv, Types, NoGhostLock, Refused
  <2> QED BY <2>1, <2>2, <2>3, <2>4, <2>5
<1>6. ASSUME NEW p \in Procs, Spawn(p) \/ ChildEnds(p) PROVE All
  BY <1>6 DEF IInv, Types, Kinds, OpenedFile, Holder, WorkerIsNamed, NoGhostLock, Spawn, ChildEnds
<1>7. ASSUME NEW p \in Procs, Finish(p) PROVE All
  <2>1. Types'
    BY <1>7 DEF IInv, Types, Finish, Release, Steps
  <2>2. Kinds'
    BY <1>7 DEF IInv, Types, Kinds, Finish
  <2>3. OpenedFile'
    BY <1>7 DEF IInv, Types, OpenedFile, Finish, Release
  <2>4. Holder'
    BY <1>7 DEF IInv, Types, Holder, WorkerIsNamed, Finish, Release
  <2>5. NoGhostLock'
    BY <1>7 DEF IInv, Types, NoGhostLock, Finish, Release
  <2> QED BY <2>1, <2>2, <2>3, <2>4, <2>5
<1>8. ASSUME NEW p \in Procs, Kill(p) PROVE All
  <2>1. Types'
    BY <1>8 DEF IInv, Types, Kill, Release, Steps
  <2>2. Kinds'
    BY <1>8 DEF IInv, Types, Kinds, Kill
  <2>3. OpenedFile'
    BY <1>8 DEF IInv, Types, OpenedFile, Kill, Release
  <2>4. Holder'
    BY <1>8 DEF IInv, Types, Holder, WorkerIsNamed, Kill, Release
  <2>5. NoGhostLock'
    BY <1>8 DEF IInv, Types, NoGhostLock, Kill, Release
  <2> QED BY <2>1, <2>2, <2>3, <2>4, <2>5
<1>9. ASSUME NEW q \in Procs, ProbeOpen(q) \/ ProbeLock(q) PROVE All
  <2>1. Types'
    BY <1>9 DEF IInv, Types, ProbeOpen, ProbeLock, Steps
  <2>2. Kinds'
    BY <1>9 DEF IInv, Types, Kinds, ProbeOpen, ProbeLock
  <2>3. OpenedFile'
    BY <1>9 DEF IInv, Types, OpenedFile, ProbeOpen, ProbeLock
  <2>4. Holder'
    BY <1>9 DEF IInv, Types, Holder, WorkerIsNamed, ProbeOpen, ProbeLock
  <2>5. NoGhostLock'
    BY <1>9 DEF IInv, Types, NoGhostLock, ProbeOpen, ProbeLock
  <2> QED BY <2>1, <2>2, <2>3, <2>4, <2>5
<1>10. ASSUME NEW q \in Procs, ProbeEnd(q) PROVE All
  <2>1. Types'
    BY <1>10 DEF IInv, Types, ProbeEnd, Release, Steps
  <2>2. Kinds'
    BY <1>10 DEF IInv, Types, Kinds, ProbeEnd
  <2>3. OpenedFile'
    BY <1>10 DEF IInv, Types, OpenedFile, ProbeEnd, Release
  <2>4. Holder'
    BY <1>10 DEF IInv, Types, Holder, WorkerIsNamed, ProbeEnd, Release
  <2>5. NoGhostLock'
    BY <1>10 DEF IInv, Types, NoGhostLock, ProbeEnd, Release
  <2> QED BY <2>1, <2>2, <2>3, <2>4, <2>5
<1> QED
  BY <1>0, <1>1, <1>2, <1>3, <1>4, <1>5, <1>6, <1>7, <1>8, <1>9, <1>10 DEF IInv, Next, Step

\* The inductive invariant holds in every state of every behaviour.
THEOREM Inductive == Spec => []IInv
  BY InitIInv, NextIInv, PTL DEF Spec

\* Processes, lock file and label keep their types, and a lock is only ever
\* held on a file that exists.
THEOREM TypeCorrect == Spec => []TypeOK
<1>1. IInv => TypeOK
  BY DEF IInv, Types, TypeOK, OpenedFile
<1> QED
  BY <1>1, Inductive, PTL

\* run_lock excludes: whatever processes start, probe or are killed, at most
\* one --sync or --commit works.
THEOREM OneRunAtATime == Spec => []OneRunWorks
<1>1. IInv => OneRunWorks
  BY DEF IInv, Holder, WorkerIsNamed, OneRunWorks
<1> QED
  BY <1>1, Inductive, PTL

\* The label read by describe_holder is the worker's for as long as it works, unless
\* the worker's own write of it failed, which run_lock passes over.
THEOREM HolderIsNamed == Spec => []WorkerIsNamed
<1>1. IInv => WorkerIsNamed
  BY DEF IInv, Holder
<1> QED
  BY <1>1, Inductive, PTL

\* A lock is always held by a process that is inside run_lock or the probe.
THEOREM CrashFreesLock == Spec => []NoGhostLock
<1>1. IInv => NoGhostLock
  BY DEF IInv
<1> QED
  BY <1>1, Inductive, PTL
=============================================================================
