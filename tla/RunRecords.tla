------------------------------ MODULE RunRecords ------------------------------
(***************************************************************************)
(* What the runs leave behind: the run directories with their journals and *)
(* the pre-deploy snapshots.  Both carry the run's time stamp, and the     *)
(* newest name is taken for the newest run, so the clock that is set back  *)
(* is an action here.  Runs follow each other under the run lock; one may  *)
(* be killed anywhere, and any write may fail.                             *)
(***************************************************************************)
EXTENDS Integers, FiniteSets, FiniteSetsExt

CONSTANTS
  MaxClock,   \* the clock stops here (bound)
  KeepLogs,   \* run directories kept
  Keeps       \* values of [snapshot] keep; -1, which prunes nothing, is another

ASSUME BoundsAssumption ==
  /\ MaxClock \in Nat \ {0} /\ KeepLogs \in Nat \ {0} /\ Keeps \subseteq Nat

Stamps  == 0..MaxClock
Records == {"none", "empty", "open", "failed", "done"}
Steps   == {"idle", "begun", "opened", "pruned", "netted", "ready", "deployed"}

VARIABLES
  clock,    \* time.time, in units that tell two runs apart
  config,   \* [snapshot] enable and keep, as loaded
  dirs,     \* run-<stamp>: absent, without a journal, or its journal's phase
  snaps,    \* deploy-<stamp> snapshots
  run,      \* the run that holds the lock: where it is, its path, stamp and
            \* whether findmnt said btrfs
  last,     \* history: the last run that got a directory, and how it ended
  inOrder   \* history: when the last run took its stamp, no name was as new

vars == <<clock, config, dirs, snaps, run, last, inOrder>>

Idle == [pc |-> "idle", path |-> "queue", id |-> 0, btrfs |-> FALSE]

Init ==
  /\ clock = 1 /\ config \in [enable : {"true", "false", "auto"}, keep : Keeps \cup {-1}]
  /\ dirs = [s \in Stamps |-> "none"] /\ snaps = {} /\ run = Idle
  /\ last = [id |-> 0, end |-> "done"] /\ inOrder = TRUE

-----------------------------------------------------------------------------
(* Names in order.                                                         *)

Present == {s \in Stamps : dirs[s] # "none"}

\* Mutant: the oldest directory is read.
Newest_Oldest == Min(Present)

\* runs[-1] of the sorted names.
Newest == Max(Present)

\* last_run_failure: the newest run is the one that failed, if any did.
FailureShown == Present # {} /\ dirs[Newest] = "failed"

\* crash_report on the newest run: its journal is there and not at an end.
Interrupted == Present # {} /\ dirs[Newest] = "open"

\* Mutant: the newest are the ones to go.
Stale_Newest(S, keep) == {s \in S : Cardinality({t \in S : t < s}) >= keep}

\* names[:-keep] of the sorted names; all of them if keep is 0.
Stale(S, keep) == {s \in S : Cardinality({t \in S : t > s}) >= keep}

-----------------------------------------------------------------------------
(* One run, from the lock to its last journal entry.                       *)

\* A commit, by hand or scheduled, takes the lock, reports the previous run and
\* sweeps its temporary files (_report_previous_run).
Begin ==
  /\ run.pc = "idle" /\ run' = [Idle EXCEPT !.pc = "begun"]
  /\ UNCHANGED <<clock, config, dirs, snaps, last, inOrder>>

\* The run is over.
Ends(how) == run' = Idle /\ last' = [id |-> run.id, end |-> how]

\* The queries fail, the queue's mapping has a cycle, or the user declines: the
\* run ends before it has a stamp.
EndUnrecorded ==
  /\ run.pc = "begun" /\ run' = Idle
  /\ UNCHANGED <<clock, config, dirs, snaps, last, inOrder>>

\* Journal(rundir).start and its first phase, on the path of the queue or, when
\* that is empty, of the system update.  The directory may exist (exist_ok), and the
\* writes may fail and leave it without a journal.  No two runs in a row
\* take the same second.
OpenJournal ==
  /\ run.pc = "begun" /\ last.id # clock
  /\ inOrder' = (\A s \in Present \cup snaps : s < clock)
  /\ \/ \E path \in {"queue", "system"} :
          /\ run' = [run EXCEPT !.pc = "opened", !.path = path, !.id = clock]
          /\ dirs' = [dirs EXCEPT ![clock] = "open"]
          /\ UNCHANGED last
     \/ /\ dirs' = [dirs EXCEPT ![clock] = IF @ = "none" THEN "empty" ELSE @]
        /\ run' = Idle /\ last' = [id |-> clock, end |-> "died"]
  /\ UNCHANGED <<clock, config, snaps>>

\* prune_run_logs: what cannot be removed stays, perhaps without its journal.
PruneLogs ==
  /\ run.pc = "opened" /\ run' = [run EXCEPT !.pc = "pruned"]
  /\ \E gone, cut \in SUBSET Stale(Present, KeepLogs) :
       dirs' = [s \in Stamps |-> IF s \in gone THEN "none"
                                 ELSE IF s \in cut THEN "empty" ELSE dirs[s]]
  /\ UNCHANGED <<clock, config, snaps, last, inOrder>>

\* Is the run's directory there to be written to?
CanRecord == dirs[run.id] # "none"

\* journal.fail and the return: the preflight refuses, a build, a query, the
\* snapshot, the deploy or Flatpak fails.
Fail ==
  /\ run.pc \in {"pruned", "ready", "deployed"} /\ CanRecord
  /\ dirs' = [dirs EXCEPT ![run.id] = "failed"] /\ Ends("failed")
  /\ UNCHANGED <<clock, config, snaps, inOrder>>

\* journal.finish: all is deployed, or the system update had nothing to do or was
\* declined.
Finish ==
  /\ run.pc = "deployed" \/ (run.pc = "pruned" /\ run.path = "system")
  /\ CanRecord
  /\ dirs' = [dirs EXCEPT ![run.id] = "done"] /\ Ends("done")
  /\ UNCHANGED <<clock, config, snaps, inOrder>>

\* A journal entry cannot be written, or the process is killed: the exception
\* goes to main and the run ends as it stands.
Die ==
  /\ run.pc \notin {"idle", "begun"} /\ Ends("died")
  /\ UNCHANGED <<clock, config, dirs, snaps, inOrder>>

-----------------------------------------------------------------------------
(* The net under the deploy.                                               *)

\* Mutant: enable = false is not looked at.
Wanted_Always == TRUE

\* Snapshots are forced or automatic.
Wanted == config.enable # "false"

\* On the queue's path set_order and the packages' states are journalled first.
Journalled == run.path = "system" \/ CanRecord

\* pre_deploy_snapshot, switched off, or "auto" where findmnt does not say btrfs or
\* fails.  Forced without btrfs, and when btrfs fails, the run fails (Fail).
SkipSnapshot ==
  /\ run.pc = "pruned" /\ Journalled
  /\ config.enable # "true"
  /\ run' = [run EXCEPT !.pc = "ready"]
  /\ UNCHANGED <<clock, config, dirs, snaps, last, inOrder>>

\* pre_deploy_snapshot on btrfs; a snapshot of that name must not exist.
TakeSnapshot ==
  /\ run.pc = "pruned" /\ Journalled
  /\ Wanted /\ run.id \notin snaps
  /\ snaps' = snaps \cup {run.id}
  /\ run' = [run EXCEPT !.pc = "netted", !.btrfs = TRUE]
  /\ UNCHANGED <<clock, config, dirs, last, inOrder>>

\* _prune: nothing goes if keep is negative or the list cannot be had, and each
\* delete may fail.
PruneSnapshots ==
  /\ run.pc = "netted" /\ run' = [run EXCEPT !.pc = "ready"]
  /\ \E gone \in SUBSET (IF config.keep < 0 THEN {} ELSE Stale(snaps, config.keep)) :
       snaps' = snaps \ gone
  /\ UNCHANGED <<clock, config, dirs, last, inOrder>>

\* set_phase("deploy") on the queue's path, and xbps-install -Suy.
Deploy ==
  /\ run.pc = "ready" /\ Journalled
  /\ run' = [run EXCEPT !.pc = "deployed"]
  /\ UNCHANGED <<clock, config, dirs, snaps, last, inOrder>>

-----------------------------------------------------------------------------
(* The clock.                                                              *)

Tick ==
  /\ clock < MaxClock /\ clock' = clock + 1
  /\ UNCHANGED <<config, dirs, snaps, run, last, inOrder>>

\* A dead battery, a wrong zone, a correction.
SetBack ==
  /\ clock' \in {t \in Stamps : t < clock}
  /\ UNCHANGED <<config, dirs, snaps, run, last, inOrder>>

Run == \/ Begin \/ EndUnrecorded \/ OpenJournal \/ PruneLogs \/ SkipSnapshot
       \/ TakeSnapshot \/ PruneSnapshots \/ Deploy \/ Fail \/ Finish \/ Die

Next == Run \/ Tick \/ SetBack

Spec == Init /\ [][Next]_vars

-----------------------------------------------------------------------------
(* Properties.                                                             *)

\* Every variable has its type, and with snapshots switched off there are none.
TypeOK ==
  /\ clock \in Stamps /\ config \in [enable : {"true", "false", "auto"}, keep : Keeps \cup {-1}]
  /\ dirs \in [Stamps -> Records] /\ snaps \subseteq Stamps
  /\ config.enable = "false" => snaps = {}
  /\ run \in [pc : Steps, path : {"queue", "system"}, id : Stamps, btrfs : BOOLEAN]
  /\ last \in [id : Stamps, end : {"done", "failed", "died"}]
  /\ inOrder \in BOOLEAN

\* What the records say between runs (last_run_failure for --status and the tray,
\* crash_report for the next run) is what became of the last run that was given a
\* directory: a failure is shown until the next one, what is reported as interrupted
\* was, and no older run speaks.  A clock that is set back breaks this only until a
\* run takes the newest stamp again.
RecordsTellTheLastRun ==
  inOrder /\ run.pc \in {"idle", "begun"} /\ Present # {} =>
    /\ Newest = last.id
    /\ FailureShown <=> last.end = "failed"
    /\ Interrupted => last.end = "died"

\* No deploy goes without the net it is owed: when the snapshot is forced, or was
\* taken because the file system is btrfs, the snapshot of this very run exists
\* while the deploy changes the system, unless keep is 0.
Owed == run.pc = "deployed" /\ config.keep # 0 /\ (config.enable = "true" \/ run.btrfs)
DeployHasNet == inOrder /\ Owed => run.id \in snaps
=============================================================================
