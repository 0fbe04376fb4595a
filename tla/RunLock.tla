------------------------------- MODULE RunLock -------------------------------
(***************************************************************************)
(* The run lock: one mutating run at a time, and a name for the others.    *)
(*                                                                         *)
(* A run (--sync or --commit) takes an flock on update.lock and then       *)
(* writes a label into it, and works whether the label could be written or *)
(* not; a run that is refused, and a front end that probes, read the label *)
(* to say who holds the lock. A preview (--commit --dry-run) takes the     *)
(* lock too but goes on without it. The nightly service is two runs in a   *)
(* row, --sync && exec --commit. What a run works with is a child process  *)
(* (xbps-src, xbps-install) which does not inherit the lock's descriptor   *)
(* and outlives a killed parent until it notices.                          *)
(***************************************************************************)
EXTENDS Integers

CONSTANTS
  Nightly,     \* the scheduled service, a process that never ends
  Manual,      \* processes of the window and the terminal
  Previews,    \* processes of --commit --dry-run
  Probes,      \* processes of --status and --pending (tray, window)
  Nobody,      \* no process, an empty label, no lock file
  Torn,        \* a label whose write stopped half-way
  LockOpens    \* whether the lock file can be created and opened

Runs  == {Nightly} \cup Manual
Procs == Runs \cup Previews \cup Probes

ASSUME KindsAssumption ==
  /\ Nightly \notin Manual
  /\ Runs \cap Previews = {} /\ Runs \cap Probes = {} /\ Previews \cap Probes = {}
  /\ Nobody \notin Procs /\ Torn \notin Procs \cup {Nobody}
ASSUME OpensAssumption == LockOpens \in BOOLEAN

VARIABLES
  pc,       \* where each process is
  file,     \* whether update.lock exists
  flock,    \* the process whose descriptor holds the flock
  label,    \* the process named by the file's content
  child,    \* processes whose build or transaction is alive
  night,    \* the half of the night's work the service is at
  unsigned  \* history: processes that could not write the label of their lock

vars == <<pc, file, flock, label, child, night, unsigned>>

Labels == Runs \cup Previews \cup {Nobody, Torn}
Steps  == {"off", "open", "clear", "sign", "work", "refused", "unlock"}

Init ==
  /\ pc = [p \in Procs |-> "off"]
  /\ file = FALSE /\ flock = Nobody /\ label = Nobody
  /\ child = {}
  /\ night = "sync" /\ unsigned = {}

-----------------------------------------------------------------------------
(* Taking the lock (run_lock).                                             *)

\* Mutant: the file is opened for writing, which empties it.
Create_Truncates == file' = TRUE /\ label' = Nobody

\* Mutant: without O_CREAT.
Create_Missing == UNCHANGED <<file, label>>

\* os.open(O_RDWR | O_CREAT): what another run wrote stays.
Create == file' = TRUE /\ UNCHANGED label

\* A process starts.  A lock file that cannot be opened never blocks a run.
Open(p) ==
  /\ pc[p] = "off" /\ p \in Runs \cup Previews
  /\ IF LockOpens
     THEN Create /\ pc' = [pc EXCEPT ![p] = "open"]
     ELSE pc' = [pc EXCEPT ![p] = "work"] /\ UNCHANGED <<file, label>>
  /\ UNCHANGED <<flock, child, night, unsigned>>

\* Mutant: a shared lock, which several runs can hold.
Grant_Shared(p) == flock' = p

\* flock(LOCK_EX | LOCK_NB).
Grant(p) == flock = Nobody /\ flock' = p

TryLock(p) ==
  /\ pc[p] = "open" /\ p \in Runs \cup Previews
  /\ \/ Grant(p) /\ pc' = [pc EXCEPT ![p] = "clear"]
     \/ /\ flock # Nobody
        /\ pc' = [pc EXCEPT ![p] = "refused"] /\ UNCHANGED flock
  /\ UNCHANGED <<file, label, child, night, unsigned>>

\* ftruncate.  Should it fail, what the last holder wrote stays, and the run works:
\* "the lock is what matters; the label is a courtesy".
Clear(p) ==
  /\ pc[p] = "clear"
  /\ \/ /\ label' = Nobody /\ pc' = [pc EXCEPT ![p] = "sign"]
        /\ UNCHANGED unsigned
     \/ /\ unsigned' = unsigned \cup {p} /\ pc' = [pc EXCEPT ![p] = "work"]
        /\ UNCHANGED label
  /\ UNCHANGED <<file, flock, child, night>>

\* One write of pid, origin and command, and an fsync.  The write may fail or, on a
\* disk that fills up, stop short without an error; should only the fsync fail, a
\* reader still sees the whole label.
Sign(p) ==
  /\ pc[p] = "sign"
  /\ \/ label' = p /\ UNCHANGED unsigned
     \/ label' \in {Nobody, Torn} /\ unsigned' = unsigned \cup {p}
  /\ pc' = [pc EXCEPT ![p] = "work"]
  /\ UNCHANGED <<file, flock, child, night>>

\* A refused process reads the label to report it.  A run then exits 10; a
\* preview goes on without the lock.
Refused(p) ==
  /\ pc[p] = "refused" /\ p \in Runs \cup Previews
  /\ pc' = [pc EXCEPT ![p] = IF p \in Previews THEN "work" ELSE "off"]
  /\ night' = IF p = Nightly THEN "sync" ELSE night
  /\ UNCHANGED <<file, flock, label, child, unsigned>>

-----------------------------------------------------------------------------
(* The work, and its end.                                                  *)

\* A run spawns git, xbps-src or xbps-install and waits for it.
Spawn(p) ==
  /\ pc[p] = "work" /\ p \in Runs /\ p \notin child
  /\ child' = child \cup {p}
  /\ UNCHANGED <<pc, file, flock, label, night, unsigned>>

ChildEnds(p) ==
  /\ p \in child
  /\ child' = child \ {p}
  /\ UNCHANGED <<pc, file, flock, label, night, unsigned>>

\* Mutant: a pid file, which its owner has to remove.
Release_Stays(p) == UNCHANGED flock

\* Closing the descriptor releases the flock; the label stays.
Release(p) == flock' = IF flock = p THEN Nobody ELSE flock

\* The service's --commit follows a --sync that succeeded; whatever else ends
\* sends it back to wait for the next night.
Finish(p) ==
  /\ pc[p] = "work" /\ p \notin child
  /\ Release(p)
  /\ pc' = [pc EXCEPT ![p] = "off"]
  /\ night' \in IF p # Nightly THEN {night} ELSE IF night = "sync" THEN {"sync", "commit"}
                                                                   ELSE {"sync"}
  /\ unsigned' = unsigned \ {p}
  /\ UNCHANGED <<file, label, child>>

\* SIGKILL, sv down, the window closed over its run: the kernel releases the
\* lock.  The child stays until its next write meets the closed pipe.
Kill(p) ==
  /\ pc[p] # "off"
  /\ Release(p)
  /\ pc' = [pc EXCEPT ![p] = "off"]
  /\ night' = IF p = Nightly THEN "sync" ELSE night
  /\ unsigned' = unsigned \ {p}
  /\ UNCHANGED <<file, label, child>>

-----------------------------------------------------------------------------
(* The probe (read_lock_holder).                                           *)

ProbeOpen(q) ==
  /\ pc[q] = "off" /\ q \in Probes
  /\ file
  /\ pc' = [pc EXCEPT ![q] = "open"]
  /\ UNCHANGED <<file, flock, label, child, night, unsigned>>

\* Nobody holds it if the flock is granted, which it is for an instant.
ProbeLock(q) ==
  /\ pc[q] = "open" /\ q \in Probes
  /\ \/ flock = Nobody /\ flock' = q /\ pc' = [pc EXCEPT ![q] = "unlock"]
     \/ flock # Nobody /\ UNCHANGED flock /\ pc' = [pc EXCEPT ![q] = "refused"]
  /\ UNCHANGED <<file, label, child, night, unsigned>>

\* The flock is given back and "free" reported, or the label is reported.
ProbeEnd(q) ==
  /\ q \in Probes
  /\ \/ pc[q] = "unlock" /\ Release(q)
     \/ pc[q] = "refused" /\ UNCHANGED flock
  /\ pc' = [pc EXCEPT ![q] = "off"]
  /\ UNCHANGED <<file, label, child, night, unsigned>>

Step(p) == \/ Open(p) \/ TryLock(p) \/ Clear(p) \/ Sign(p) \/ Refused(p)
           \/ Spawn(p) \/ ChildEnds(p) \/ Finish(p)
           \/ ProbeOpen(p) \/ ProbeLock(p) \/ ProbeEnd(p)

Next == \E p \in Procs : Step(p) \/ Kill(p)

Spec == Init /\ [][Next]_vars

-----------------------------------------------------------------------------
(* Properties.                                                             *)

\* The processes, the lock file and its label have their types.
TypeOK ==
  /\ pc \in [Procs -> Steps]
  /\ file \in BOOLEAN /\ (~file => flock = Nobody)
  /\ flock \in Procs \cup {Nobody} /\ label \in Labels
  /\ child \subseteq Runs /\ unsigned \subseteq Runs \cup Previews
  /\ night \in {"sync", "commit"}

\* One mutating run works at a time, through refusals, previews that go on
\* without the lock, probes and kills.
OneRunWorks ==
  LockOpens => \A p, q \in Runs : pc[p] = "work" /\ pc[q] = "work" => p = q

\* A run that works holds the lock, and the label names it unless that very run
\* could not write it: whatever others left in the file before, and whatever is
\* started, refused or probing meanwhile, a process in its way reports the right one.
\* (Where its own write failed the label is empty, torn or the last holder's.)
WorkerIsNamed ==
  LockOpens =>
    \A p \in Runs : pc[p] = "work" => flock = p /\ (label = p \/ p \in unsigned)

\* A lock never outlives its holder: no crash leaves a ghost behind.
NoGhostLock ==
  \A p \in Procs : flock = p => pc[p] \in {"clear", "sign", "work", "unlock"}

\* Processes run, the children of a run end, and no run spawns for ever.
Advance(p) == \/ TryLock(p) \/ Clear(p) \/ Sign(p) \/ Refused(p) \/ ChildEnds(p)
              \/ ProbeLock(p) \/ ProbeEnd(p)
FairSpec == Spec /\ \A p \in Procs : WF_vars(Advance(p)) /\ SF_vars(Finish(p))

\* Whoever is in the way gets out of it: the lock is free again and again.
LockIsFreed == []<>(flock = Nobody)
=============================================================================
