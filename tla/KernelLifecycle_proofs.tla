------------------------ MODULE KernelLifecycle_proofs ------------------------
(***************************************************************************)
(* Proofs about KernelLifecycle for every number of versions, every boot   *)
(* layout, every version of the distribution kernel and every trip_after.  *)
(***************************************************************************)
EXTENDS KernelLifecycle, TLAPS

\* What the updater knows at each step of a run.
UpdaterInv ==
  /\ u.pc \in {"verify", "regen"} => upstream \in Versions
  /\ u.pc \in {"gate", "build"} => tpl \in Versions
  /\ u.pc = "build" => tpl \in gated
  /\ u.pc = "deploy" /\ u.dep => repo \in Versions
  /\ u.pc = "first" => repo \in Versions
  /\ u.pc = "stage" => inst \in Versions
  /\ u.pc \in {"pin", "arm", "record"} => u.cand \in Versions /\ u.known \in proven
  /\ u.pc = "arm" => PinMode
  /\ u.pc \in {"arm", "record"} /\ PinMode => gdef \in proven

\* What the daemon knows: the copy it holds during a trial names the kernel
\* that is running, and after the trial that kernel passed the battery.
DaemonInv ==
  /\ d.pc \in {"trial", "promote", "save"} =>
       running = d.snap.cand /\ d.snap.cand \in Versions
  /\ d.pc \in {"promote", "save"} => d.snap.cand \in proven
  /\ d.pc # "judge" => d.fails < TripAfter

\* The copy the acknowledgement holds across its prompt: old, but its fallback
\* and tracked version were proven when it was made, and proven they stay.
AckInv == a.pc = "asked" => a.snap.good \in proven /\ a.snap.ported \in proven

\* The package side of the G2 gate.
GateInv ==
  /\ repo # 0 => repo \in gated
  /\ menu \ {Stock} \subseteq gated

\* The inductive invariant.
IInv ==
  /\ TypeOK
  /\ FallbackProven
  /\ DefaultProven
  /\ TrialIsPinned
  /\ UpdaterInv
  /\ DaemonInv
  /\ AckInv
  /\ GateInv

USE MaxVerAssumption, StockVerAssumption, ModeAssumption, TripAfterAssumption,
    DiskAssumption
    DEF Stock, Versions, Kernels, None, Unset, Modes, PinMode

LEMMA InitIInv == Init => IInv
  BY DEF Init, IInv, TypeOK, FallbackProven, DefaultProven, TrialIsPinned,
         UpdaterInv, DaemonInv, AckInv, GateInv, Seed, NoRun, NoDaemon, NoAck,
         KernelState, States, Frozen, Active, UpdaterSteps, DaemonSteps,
         Run, Health, Ack

\* No run is a well-formed one.
LEMMA NoRunTyped == NoRun \in Run
  BY DEF NoRun, Run, UpdaterSteps

\* Every step leaves the updater in one of its states.
LEMMA RunTyped ==
  ASSUME u \in Run, ks.good \in Kernels, inst \in Kernels, [Next]_vars
  PROVE  u' \in Run
<1>1. CASE StartRun
  <2>1. PICK kernel \in BOOLEAN : u' = [NoRun EXCEPT !.pc = "synth", !.kernel = kernel]
    BY <1>1 DEF StartRun
  <2> QED
    BY <2>1, NoRunTyped DEF Run, UpdaterSteps
<1>2. CASE KillRun
  BY NoRunTyped, <1>2 DEF KillRun, Run, UpdaterSteps
<1>3. CASE Synthesise
  BY NoRunTyped, <1>3 DEF Synthesise, Run, UpdaterSteps
<1>4. CASE VerifyPatch
  BY NoRunTyped, <1>4 DEF VerifyPatch, Run, UpdaterSteps
<1>5. CASE Regenerate
  BY NoRunTyped, <1>5 DEF Regenerate, Run, UpdaterSteps
<1>6. CASE Plan
  BY NoRunTyped, <1>6 DEF Plan, Run, UpdaterSteps, Withhold, Queue, Outdated, Undeployed
<1>7. CASE Gate
  BY NoRunTyped, <1>7 DEF Gate, Run, UpdaterSteps
<1>8. CASE Build
  BY NoRunTyped, <1>8 DEF Build, Run, UpdaterSteps
<1>9. CASE Deploy
  BY NoRunTyped, <1>9 DEF Deploy, Run, UpdaterSteps
<1>10. CASE FirstInstall
  BY NoRunTyped, <1>10 DEF FirstInstall, Run, UpdaterSteps
<1>11. CASE PrepareStaging
  BY NoRunTyped, <1>11 DEF PrepareStaging, Run, UpdaterSteps, KnownGood, FirstStagingStep
<1>12. CASE PinFallback
  BY NoRunTyped, <1>12 DEF PinFallback, Run, UpdaterSteps
<1>13. CASE ArmOneShot
  BY NoRunTyped, <1>13 DEF ArmOneShot, Run, UpdaterSteps
<1>14. CASE RecordStaged
  BY NoRunTyped, <1>14 DEF RecordStaged, Run, UpdaterSteps
<1>15. CASE PowerOff
  BY NoRunTyped, <1>15 DEF PowerOff, Run, UpdaterSteps
<1>16. CASE UNCHANGED u
  BY NoRunTyped, <1>16
<1> QED
  BY <1>1, <1>2, <1>3, <1>4, <1>5, <1>6, <1>7, <1>8, <1>9, <1>10, <1>11, <1>12, <1>13, <1>14, <1>15, <1>16
     DEF Next, Updater, Daemon, DaemonStep, Operator, Machine, vars,
         Sync, Confirm, JudgeTrial, PromoteGrub, SavePromotion, Sample, Judge, WatchdogRollback, KillDaemon, AskAck, AnswerAck, Rollback, BootUnattended, BootFromMenu, BootInto

\* The daemon at rest holds an empty copy of the state file.
LEMMA NoDaemonTyped == NoDaemon \in Health
  BY DEF Health, NoDaemon, Seed, DaemonSteps, KernelState, States, Frozen, Active

\* A sample moves the failure count within its bounds.
LEMMA FailsTyped ==
  ASSUME NEW h \in Health, NEW n \in 0..TripAfter
  PROVE  /\ [h EXCEPT !.fails = n] \in Health
         /\ [h EXCEPT !.fails = n, !.pc = "judge"] \in Health
         /\ [h EXCEPT !.pc = "loop", !.fails = n] \in Health
  BY DEF Health, DaemonSteps

\* Every step leaves the daemon in one of its states.
LEMMA HealthTyped ==
  ASSUME d \in Health, ks \in KernelState, d.fails < TripAfter \/ d.pc = "judge", [Next]_vars
  PROVE  d' \in Health
<1>1. CASE Confirm
  <2>1. d' = [pc |-> "trial", fails |-> 0, snap |-> ks]
        \/ d' = [NoDaemon EXCEPT !.pc = "loop"]
    BY <1>1 DEF Confirm
  <2> QED
    BY <2>1, NoDaemonTyped DEF Health, DaemonSteps
<1>2. CASE JudgeTrial
  BY NoDaemonTyped, <1>2 DEF JudgeTrial, Health, DaemonSteps
<1>3. CASE PromoteGrub
  BY NoDaemonTyped, <1>3 DEF PromoteGrub, Health, DaemonSteps
<1>4. CASE SavePromotion
  BY NoDaemonTyped, <1>4 DEF SavePromotion, Health, DaemonSteps
<1>5. CASE Sample
  <2>1. d.fails + 1 \in 0..TripAfter
    BY <1>5 DEF Sample, Health
  <2>2. 0 \in 0..TripAfter
    OBVIOUS
  <2>3. CASE d' = [d EXCEPT !.fails = 0]
    BY <2>2, <2>3 DEF Health
  <2>4. CASE d' = [d EXCEPT !.fails = @ + 1]
    BY <2>1, <2>4, FailsTyped
  <2>5. CASE d' = [d EXCEPT !.fails = @ + 1, !.pc = "judge"]
    BY <2>1, <2>5, FailsTyped
  <2> QED
    BY <1>5, <2>3, <2>4, <2>5 DEF Sample
<1>6. CASE Judge
  <2>1. PICK pc \in {"rollback", "off"} :
          \/ d' = [NoDaemon EXCEPT !.pc = pc]
          \/ d' = [d EXCEPT !.pc = "loop", !.fails = 0]
    BY <1>6 DEF Judge
  <2>2. CASE d' = [NoDaemon EXCEPT !.pc = pc]
    BY <2>2, NoDaemonTyped DEF Health, DaemonSteps
  <2>3. CASE d' = [d EXCEPT !.pc = "loop", !.fails = 0]
    <3>1. 0 \in 0..TripAfter
      OBVIOUS
    <3> QED
      BY <2>3, <3>1, FailsTyped
  <2> QED
    BY <2>1, <2>2, <2>3
<1>7. CASE WatchdogRollback
  BY NoDaemonTyped, <1>7 DEF WatchdogRollback, Health, DaemonSteps
<1>8. CASE KillDaemon
  BY NoDaemonTyped, <1>8 DEF KillDaemon, Health, DaemonSteps
<1>9. CASE PowerOff
  BY NoDaemonTyped, <1>9 DEF PowerOff, Health, DaemonSteps
<1>10. CASE UNCHANGED d
  BY NoDaemonTyped, <1>10
<1> QED
  BY NoDaemonTyped, <1>1, <1>2, <1>3, <1>4, <1>5, <1>6, <1>7, <1>8, <1>9, <1>10
     DEF Next, Updater, Daemon, DaemonStep, Operator, Machine, vars,
         Sync, StartRun, KillRun, Synthesise, VerifyPatch, Regenerate, Plan, Gate, Build, Deploy, FirstInstall, PrepareStaging, PinFallback, ArmOneShot, RecordStaged, AskAck, AnswerAck, Rollback, BootUnattended, BootFromMenu, BootInto

\* Every step leaves the acknowledgement in one of its states.
LEMMA AckTyped ==
  ASSUME a \in Ack, ks \in KernelState, [Next]_vars
  PROVE  a' \in Ack
<1>1. CASE AskAck
  BY <1>1 DEF AskAck, Ack
<1>2. CASE AnswerAck
  BY <1>2 DEF AnswerAck, Ack, NoAck, Seed, KernelState, States, Frozen, Active
<1>3. CASE PowerOff
  BY <1>3 DEF PowerOff, Ack, NoAck, Seed, KernelState, States, Frozen, Active
<1>4. CASE UNCHANGED a
  BY <1>4
<1> QED
  BY <1>1, <1>2, <1>3, <1>4
     DEF Next, Updater, Daemon, DaemonStep, Operator, Machine, vars,
         Sync, StartRun, KillRun, Synthesise, VerifyPatch, Regenerate, Plan, Gate, Build, Deploy, FirstInstall, PrepareStaging, PinFallback, ArmOneShot, RecordStaged, Confirm, JudgeTrial, PromoteGrub, SavePromotion, Sample, Judge, WatchdogRollback, KillDaemon, Rollback, BootUnattended, BootFromMenu, BootInto

\* A promotion of a well-formed copy that names a candidate is well-formed.
LEMMA PromotedTyped ==
  ASSUME NEW s \in KernelState, s.cand \in Versions
  PROVE  Promoted(s) \in KernelState
<1>1. s.cand \in Kernels
  OBVIOUS
<1>2. "TRACKING" \in States
  BY DEF States
<1> QED
  BY <1>1, <1>2 DEF Promoted, KernelState

\* Every write leaves a well-formed state file.
LEMMA StateTyped ==
  ASSUME ks \in KernelState, u \in Run, d \in Health, a \in Ack,
         u.pc = "record" => u.cand \in Versions,
         d.pc = "save" => d.snap.cand \in Versions,
         [Next]_vars
  PROVE  ks' \in KernelState
<1>1. CASE Synthesise
  BY <1>1 DEF Synthesise, Persist, KernelState, States, Frozen, Active
<1>2. CASE VerifyPatch
  BY <1>2 DEF VerifyPatch, Persist, KernelState, States, Frozen, Active
<1>3. CASE Regenerate
  BY <1>3 DEF Regenerate, Persist, KernelState, States, Frozen, Active
<1>4. CASE Gate
  BY <1>4 DEF Gate, Persist, KernelState, States, Frozen, Active
<1>5. CASE Build
  BY <1>5 DEF Build, Persist, KernelState, States, Frozen, Active
<1>6. CASE RecordStaged
  BY <1>6 DEF RecordStaged, Persist, KernelState, States, Frozen, Active, Run
<1>7. CASE Confirm
  BY <1>7 DEF Confirm, Persist, KernelState, States, Frozen, Active
<1>8. CASE JudgeTrial
  BY <1>8 DEF JudgeTrial, Persist, KernelState, States, Frozen, Active
<1>9. CASE SavePromotion
  <2>1. d.snap \in KernelState /\ d.snap.cand \in Versions
    BY <1>9 DEF SavePromotion, Health
  <2>2. Promoted(d.snap) \in KernelState
    BY <2>1, PromotedTyped
  <2> QED
    BY <1>9, <2>2 DEF SavePromotion, Persist
<1>10. CASE Judge
  BY <1>10 DEF Judge, Persist, KernelState, States, Frozen, Active
<1>11. CASE AnswerAck
  BY <1>11 DEF AnswerAck, Persist, KernelState, States, Frozen, Active, Ack
<1>12. CASE PowerOff
  BY <1>12 DEF PowerOff, KernelState
<1>13. CASE UNCHANGED ks
  BY <1>13
<1> QED
  BY <1>1, <1>2, <1>3, <1>4, <1>5, <1>6, <1>7, <1>8, <1>9, <1>10, <1>11, <1>12, <1>13
     DEF Next, Updater, Daemon, DaemonStep, Operator, Machine, vars,
         Sync, StartRun, KillRun, Plan, Deploy, FirstInstall, PrepareStaging, PinFallback, ArmOneShot, PromoteGrub, Sample, WatchdogRollback, KillDaemon, AskAck, Rollback, BootUnattended, BootFromMenu, BootInto

\* Every step preserves the inductive invariant.
LEMMA NextIInv == IInv /\ [Next]_vars => IInv'
<1> SUFFICES ASSUME IInv, [Next]_vars
             PROVE  IInv'
  OBVIOUS
<1>t. u' \in Run /\ d' \in Health /\ a' \in Ack /\ ks' \in KernelState
  BY RunTyped, HealthTyped, AckTyped, StateTyped
     DEF IInv, TypeOK, UpdaterInv, DaemonInv, KernelState
<1> USE <1>t DEF IInv, TypeOK, FallbackProven, DefaultProven, TrialIsPinned,
            UpdaterInv, DaemonInv, AckInv, GateInv, pkgs, boot
<1>1. CASE Sync
  BY <1>1 DEF Sync, KernelState
<1>2. CASE StartRun
  BY <1>2 DEF StartRun, NoRun, Run, KernelState
<1>3. CASE KillRun
  BY <1>3 DEF KillRun, NoRun, Run, KernelState
<1>4. CASE Synthesise
  BY <1>4 DEF Synthesise, Persist, Active, Frozen, Run, KernelState
<1>5. CASE VerifyPatch
  BY <1>5 DEF VerifyPatch, Persist, Active, Frozen, Run, KernelState
<1>6. CASE Regenerate
  BY <1>6 DEF Regenerate, Persist, Active, Frozen, Run, KernelState
<1>7. CASE Plan
  <2>1. TypeOK'
    BY <1>7 DEF Plan, NoRun, Withhold, Queue, Outdated, Undeployed, Run, KernelState
  <2>2. FallbackProven'
    BY <1>7 DEF Plan, NoRun, Withhold, Queue, Outdated, Undeployed, Run, KernelState
  <2>3. DefaultProven'
    BY <1>7 DEF Plan, NoRun, Withhold, Queue, Outdated, Undeployed, Run, KernelState
  <2>4. TrialIsPinned'
    BY <1>7 DEF Plan, NoRun, Withhold, Queue, Outdated, Undeployed, Run, KernelState
  <2>5. UpdaterInv'
    <3>1. CASE u' = NoRun
      BY <1>7, <3>1 DEF Plan, NoRun
    <3>2. CASE ~u.kernel
      BY <1>7, <3>1, <3>2 DEF Plan, Withhold, Run
    <3>3. CASE u.kernel /\ u' # NoRun
      <4> DEFINE q == Withhold(u.kernel, Queue(u.kernel))
      <4>1. u' = [u EXCEPT !.build = q.build, !.dep = q.dep,
                           !.pc = IF q.build THEN "gate" ELSE "deploy"]
        BY <1>7, <3>3 DEF Plan
      <4>2. q.build => Outdated
        BY DEF Withhold, Queue
      <4>3. ~q.build /\ q.dep => Undeployed
        BY DEF Withhold, Queue
      <4>4. /\ Outdated => tpl \in Versions
            /\ Undeployed => repo \in Versions
        BY DEF Outdated, Undeployed
      <4> QED
        BY <1>7, <4>1, <4>2, <4>3, <4>4 DEF Plan, Run
    <3> QED
      BY <3>1, <3>2, <3>3 DEF Run
  <2>6. DaemonInv'
    BY <1>7 DEF Plan, NoRun, Withhold, Queue, Outdated, Undeployed, Run, KernelState
  <2>7. AckInv'
    BY <1>7 DEF Plan, NoRun, Withhold, Queue, Outdated, Undeployed, Run, KernelState
  <2>8. GateInv'
    BY <1>7 DEF Plan, NoRun, Withhold, Queue, Outdated, Undeployed, Run, KernelState
  <2> QED
    BY <2>1, <2>2, <2>3, <2>4, <2>5, <2>6, <2>7, <2>8
<1>8. CASE Gate
  <2>1. TypeOK'
    BY <1>8 DEF Gate, Persist, Active, Frozen, Run, KernelState
  <2>2. FallbackProven'
    BY <1>8 DEF Gate, Persist, Active, Frozen, Run, KernelState
  <2>3. DefaultProven'
    BY <1>8 DEF Gate, Persist, Active, Frozen, Run, KernelState
  <2>4. TrialIsPinned'
    BY <1>8 DEF Gate, Persist, Active, Frozen, Run, KernelState
  <2>5. UpdaterInv'
    <3>1. CASE u' = [u EXCEPT !.pc = "build"] /\ gated' = gated \cup {tpl}
      BY <1>8, <3>1 DEF Gate, Run
    <3>2. CASE u' = [u EXCEPT !.pc = "deploy", !.build = FALSE, !.dep = FALSE]
      BY <1>8, <3>2 DEF Gate, Run
    <3> QED
      BY <1>8, <3>1, <3>2 DEF Gate
  <2>6. DaemonInv'
    BY <1>8 DEF Gate, Persist, Active, Frozen, Run, KernelState
  <2>7. AckInv'
    BY <1>8 DEF Gate, Persist, Active, Frozen, Run, KernelState
  <2>8. GateInv'
    BY <1>8 DEF Gate, Persist, Active, Frozen, Run, KernelState
  <2> QED
    BY <2>1, <2>2, <2>3, <2>4, <2>5, <2>6, <2>7, <2>8
<1>9. CASE Build
  BY <1>9 DEF Build, NoRun, Persist, Active, Frozen, Run, KernelState
<1>10. CASE Deploy
  BY <1>10 DEF Deploy, NoRun, Undeployed, InstallFork, Run, KernelState
<1>11. CASE FirstInstall
  BY <1>11 DEF FirstInstall, NoRun, InstallFork, Run, KernelState
<1>12. CASE PrepareStaging
  <2>1. TypeOK'
    BY <1>12 DEF PrepareStaging, NoRun, KnownGood, FirstStagingStep, Run, KernelState
  <2>2. FallbackProven'
    BY <1>12 DEF PrepareStaging, NoRun, KnownGood, FirstStagingStep, Run, KernelState
  <2>3. DefaultProven'
    BY <1>12 DEF PrepareStaging, NoRun, KnownGood, FirstStagingStep, Run, KernelState
  <2>4. TrialIsPinned'
    BY <1>12 DEF PrepareStaging, NoRun, KnownGood, FirstStagingStep, Run, KernelState
  <2>5. UpdaterInv'
    <3>1. CASE u' = [u EXCEPT !.pc = FirstStagingStep, !.known = KnownGood, !.cand = inst]
      BY <1>12, <3>1 DEF PrepareStaging, KnownGood, FirstStagingStep, Run
    <3>2. CASE u' = NoRun
      BY <1>12, <3>2 DEF PrepareStaging, NoRun
    <3> QED
      BY <1>12, <3>1, <3>2 DEF PrepareStaging
  <2>6. DaemonInv'
    BY <1>12 DEF PrepareStaging, NoRun, KnownGood, FirstStagingStep, Run, KernelState
  <2>7. AckInv'
    BY <1>12 DEF PrepareStaging, NoRun, KnownGood, FirstStagingStep, Run, KernelState
  <2>8. GateInv'
    BY <1>12 DEF PrepareStaging, NoRun, KnownGood, FirstStagingStep, Run, KernelState
  <2> QED
    BY <2>1, <2>2, <2>3, <2>4, <2>5, <2>6, <2>7, <2>8
<1>13. CASE PinFallback
  BY <1>13 DEF PinFallback, NoRun, Run, KernelState
<1>14. CASE ArmOneShot
  BY <1>14 DEF ArmOneShot, NoRun, Run, KernelState
<1>15. CASE RecordStaged
  <2>1. TypeOK'
    BY <1>15 DEF RecordStaged, NoRun, Persist, Active, Frozen, Run, KernelState
  <2>2. FallbackProven'
    BY <1>15 DEF RecordStaged, NoRun, Persist, Active, Frozen, Run, KernelState
  <2>3. DefaultProven'
    BY <1>15 DEF RecordStaged, NoRun, Persist, Active, Frozen, Run, KernelState
  <2>4. TrialIsPinned'
    BY <1>15 DEF RecordStaged, NoRun, Persist, Active, Frozen, Run, KernelState
  <2>5. UpdaterInv'
    BY <1>15 DEF RecordStaged, NoRun, Persist, Active, Frozen, Run, KernelState
  <2>6. DaemonInv'
    BY <1>15 DEF RecordStaged, NoRun, Persist, Active, Frozen, Run, KernelState
  <2>7. AckInv'
    BY <1>15 DEF RecordStaged, NoRun, Persist, Active, Frozen, Run, KernelState
  <2>8. GateInv'
    BY <1>15 DEF RecordStaged, NoRun, Persist, Active, Frozen, Run, KernelState
  <2> QED
    BY <2>1, <2>2, <2>3, <2>4, <2>5, <2>6, <2>7, <2>8
<1>16. CASE Confirm
  BY <1>16 DEF Confirm, NoDaemon, Evaluate, Persist, Active, Frozen, Health, KernelState
<1>17. CASE JudgeTrial
  BY <1>17 DEF JudgeTrial, NoDaemon, Evaluate, Persist, Active, Frozen, Health, KernelState
<1>18. CASE PromoteGrub
  BY <1>18 DEF PromoteGrub, NoDaemon, Health, KernelState
<1>19. CASE SavePromotion
  <2>1. TypeOK'
    BY <1>19 DEF SavePromotion, NoDaemon, Promoted, Persist, Active, Frozen, Health, KernelState
  <2>2. FallbackProven'
    BY <1>19 DEF SavePromotion, NoDaemon, Promoted, Persist, Active, Frozen, Health, KernelState
  <2>3. DefaultProven'
    BY <1>19 DEF SavePromotion, NoDaemon, Promoted, Persist, Active, Frozen, Health, KernelState
  <2>4. TrialIsPinned'
    BY <1>19 DEF SavePromotion, NoDaemon, Promoted, Persist, Active, Frozen, Health, KernelState
  <2>5. UpdaterInv'
    BY <1>19 DEF SavePromotion, NoDaemon, Promoted, Persist, Active, Frozen, Health, KernelState
  <2>6. DaemonInv'
    BY <1>19 DEF SavePromotion, NoDaemon, Promoted, Persist, Active, Frozen, Health, KernelState
  <2>7. AckInv'
    BY <1>19 DEF SavePromotion, NoDaemon, Promoted, Persist, Active, Frozen, Health, KernelState
  <2>8. GateInv'
    BY <1>19 DEF SavePromotion, NoDaemon, Promoted, Persist, Active, Frozen, Health, KernelState
  <2> QED
    BY <2>1, <2>2, <2>3, <2>4, <2>5, <2>6, <2>7, <2>8
<1>20. CASE Sample
  <2>1. TypeOK'
    BY <1>20 DEF Sample, Health, KernelState
  <2>2. FallbackProven'
    BY <1>20 DEF Sample, Health, KernelState
  <2>3. DefaultProven'
    BY <1>20 DEF Sample, Health, KernelState
  <2>4. TrialIsPinned'
    BY <1>20 DEF Sample, Health, KernelState
  <2>5. UpdaterInv'
    BY <1>20 DEF Sample, Health, KernelState
  <2>6. DaemonInv'
    <3>1. CASE d' = [d EXCEPT !.fails = 0]
      BY <1>20, <3>1 DEF Sample, Health
    <3>2. CASE d.fails + 1 < TripAfter /\ d' = [d EXCEPT !.fails = @ + 1]
      BY <1>20, <3>2 DEF Sample, Health
    <3>3. CASE d' = [d EXCEPT !.fails = @ + 1, !.pc = "judge"]
      BY <1>20, <3>3 DEF Sample, Health
    <3> QED
      BY <1>20, <3>1, <3>2, <3>3 DEF Sample
  <2>7. AckInv'
    BY <1>20 DEF Sample, Health, KernelState
  <2>8. GateInv'
    BY <1>20 DEF Sample, Health, KernelState
  <2> QED
    BY <2>1, <2>2, <2>3, <2>4, <2>5, <2>6, <2>7, <2>8
<1>21. CASE Judge
  <2>1. TypeOK'
    BY <1>21 DEF Judge, NoDaemon, Persist, Active, Frozen, Health, KernelState
  <2>2. FallbackProven'
    BY <1>21 DEF Judge, NoDaemon, Persist, Active, Frozen, Health, KernelState
  <2>3. DefaultProven'
    BY <1>21 DEF Judge, NoDaemon, Persist, Active, Frozen, Health, KernelState
  <2>4. TrialIsPinned'
    BY <1>21 DEF Judge, NoDaemon, Persist, Active, Frozen, Health, KernelState
  <2>5. UpdaterInv'
    BY <1>21 DEF Judge, NoDaemon, Persist, Active, Frozen, Health, KernelState
  <2>6. DaemonInv'
    <3>1. PICK pc \in {"rollback", "off"} :
            \/ d' = [NoDaemon EXCEPT !.pc = pc]
            \/ d' = [d EXCEPT !.pc = "loop", !.fails = 0]
      BY <1>21 DEF Judge
    <3>2. CASE d' = [NoDaemon EXCEPT !.pc = pc]
      BY <3>2 DEF NoDaemon
    <3>3. CASE d' = [d EXCEPT !.pc = "loop", !.fails = 0]
      BY <3>3 DEF Health
    <3> QED
      BY <3>1, <3>2, <3>3
  <2>7. AckInv'
    BY <1>21 DEF Judge, NoDaemon, Persist, Active, Frozen, Health, KernelState
  <2>8. GateInv'
    BY <1>21 DEF Judge, NoDaemon, Persist, Active, Frozen, Health, KernelState
  <2> QED
    BY <2>1, <2>2, <2>3, <2>4, <2>5, <2>6, <2>7, <2>8
<1>22. CASE WatchdogRollback
  BY <1>22 DEF WatchdogRollback, NoDaemon, PinKnownGood, Resolves, Health, KernelState
<1>23. CASE KillDaemon
  BY <1>23 DEF KillDaemon, NoDaemon, Health, KernelState
<1>24. CASE AskAck
  BY <1>24 DEF AskAck, Ack, KernelState
<1>25. CASE AnswerAck
  <2>1. TypeOK'
    BY <1>25 DEF AnswerAck, NoAck, Persist, Active, Frozen, Ack, KernelState
  <2>2. FallbackProven'
    BY <1>25 DEF AnswerAck, NoAck, Persist, Active, Frozen, Ack, KernelState
  <2>3. DefaultProven'
    BY <1>25 DEF AnswerAck, NoAck, Persist, Active, Frozen, Ack, KernelState
  <2>4. TrialIsPinned'
    BY <1>25 DEF AnswerAck, NoAck, Persist, Active, Frozen, Ack, KernelState
  <2>5. UpdaterInv'
    BY <1>25 DEF AnswerAck, NoAck, Persist, Active, Frozen, Ack, KernelState
  <2>6. DaemonInv'
    BY <1>25 DEF AnswerAck, NoAck, Persist, Active, Frozen, Ack, KernelState
  <2>7. AckInv'
    BY <1>25 DEF AnswerAck, NoAck, Persist, Active, Frozen, Ack, KernelState
  <2>8. GateInv'
    BY <1>25 DEF AnswerAck, NoAck, Persist, Active, Frozen, Ack, KernelState
  <2> QED
    BY <2>1, <2>2, <2>3, <2>4, <2>5, <2>6, <2>7, <2>8
<1>26. CASE Rollback
  BY <1>26 DEF Rollback, PinKnownGood, Resolves, KernelState
<1>27. CASE PowerOff
  BY <1>27 DEF PowerOff, NoRun, NoDaemon, NoAck, Run, Health, Ack, KernelState
<1>28. CASE BootUnattended
  <2>1. TypeOK'
    BY <1>28 DEF BootUnattended, BootInto
  <2>2. FallbackProven'
    BY <1>28 DEF BootUnattended, BootInto, KernelState
  <2>3. DefaultProven'
    BY <1>28 DEF BootUnattended, BootInto, KernelState
  <2>4. TrialIsPinned'
    BY <1>28 DEF BootUnattended, BootInto, KernelState
  <2>5. UpdaterInv'
    BY <1>28 DEF BootUnattended, BootInto, KernelState
  <2>6. DaemonInv'
    BY <1>28 DEF BootUnattended, BootInto, KernelState
  <2>7. AckInv'
    BY <1>28 DEF BootUnattended, BootInto, KernelState
  <2>8. GateInv'
    BY <1>28 DEF BootUnattended, BootInto, KernelState
  <2> QED
    BY <2>1, <2>2, <2>3, <2>4, <2>5, <2>6, <2>7, <2>8
<1>29. CASE BootFromMenu
  BY <1>29 DEF BootFromMenu, BootInto, KernelState
<1>30. CASE UNCHANGED vars
  BY <1>30 DEF vars
<1> QED
  BY <1>1, <1>2, <1>3, <1>4, <1>5, <1>6, <1>7, <1>8, <1>9, <1>10, <1>11, <1>12, <1>13, <1>14, <1>15, <1>16, <1>17, <1>18, <1>19, <1>20, <1>21, <1>22, <1>23, <1>24, <1>25, <1>26, <1>27, <1>28, <1>29, <1>30
     DEF Next, Updater, Daemon, DaemonStep, Operator, Machine

-----------------------------------------------------------------------------

\* The strengthened invariant holds in every reachable state.
THEOREM Inductive == Spec => []IInv
<1>1. Init => IInv
  BY InitIInv
<1>2. IInv /\ [Next]_vars => IInv'
  BY NextIInv
<1> QED
  BY <1>1, <1>2, PTL DEF Spec

\* The state file, the packages, the boot variables and the processes always
\* have their types; in particular a promotion never writes a null fallback.
THEOREM TypeCorrect == Spec => []TypeOK
<1>1. IInv => TypeOK
  BY DEF IInv
<1> QED
  BY <1>1, Inductive, PTL

\* known_good and ported_version name kernels that passed the trial battery.
THEOREM FallbackIsProven == Spec => []FallbackProven
<1>1. IInv => FallbackProven
  BY DEF IInv
<1> QED
  BY <1>1, Inductive, PTL

\* The saved default is a proven kernel between any two steps of any actor.
THEOREM DefaultIsProven == Spec => []DefaultProven
<1>1. IInv => DefaultProven
  BY DEF IInv
<1> QED
  BY <1>1, Inductive, PTL

\* A recorded candidate and an armed one-shot lie over a proven default.
THEOREM TrialHasFallback == Spec => []TrialIsPinned
<1>1. IInv => TrialIsPinned
  BY DEF IInv
<1> QED
  BY <1>1, Inductive, PTL

\* Every fork under /boot passed the G2 gate.
THEOREM GateIsNeverSkipped == Spec => []InstalledGated
<1>1. IInv => InstalledGated
  BY DEF IInv, GateInv, InstalledGated
<1> QED
  BY <1>1, Inductive, PTL

-----------------------------------------------------------------------------
(* Refinement: the kernel path implements BootTrial.                       *)

\* The initial state is one of the promise's.
LEMMA PromiseInit == Init => Promise!Init
  BY DEF Init, Promise!Init

\* Every step is a step of the promise or leaves its variables alone.
LEMMA PromiseNext == IInv /\ [Next]_vars => [Promise!Next]_(Promise!vars)
<1> SUFFICES ASSUME IInv, [Next]_vars
             PROVE  [Promise!Next]_(Promise!vars)
  OBVIOUS
<1> USE DEF Promise!vars, pkgs, boot
<1>1. CASE JudgeTrial
  <2>1. running \in Kernels
    BY <1>1 DEF JudgeTrial, IInv, DaemonInv
  <2> QED
    BY <1>1, <2>1 DEF JudgeTrial, Promise!Next, Promise!Prove
<1>2. CASE PinFallback
  <2>1. u.known \in proven
    BY <1>2 DEF PinFallback, IInv, UpdaterInv
  <2> QED
    BY <1>2, <2>1 DEF PinFallback, Promise!Next, Promise!Pin
<1>3. CASE PromoteGrub
  <2>1. d.snap.cand \in proven
    BY <1>3 DEF PromoteGrub, IInv, DaemonInv
  <2> QED
    BY <1>3, <2>1 DEF PromoteGrub, Promise!Next, Promise!Pin
<1>4. CASE WatchdogRollback \/ Rollback
  <2>1. ks.good \in proven
    BY DEF IInv, FallbackProven
  <2> QED
    BY <1>4, <2>1 DEF WatchdogRollback, Rollback, PinKnownGood, Promise!Next, Promise!Pin
<1>5. CASE ArmOneShot
  <2>1. gdef \in proven /\ u.cand \in Kernels
    BY <1>5 DEF ArmOneShot, IInv, UpdaterInv
  <2> QED
    BY <1>5, <2>1 DEF ArmOneShot, Promise!Next, Promise!Arm
<1>6. CASE PowerOff
  BY <1>6 DEF PowerOff, Promise!Next, Promise!PowerOff
<1>7. CASE BootUnattended \/ BootFromMenu
  <2>1. PICK k \in Kernels : BootInto(k)
    BY <1>7 DEF BootUnattended, BootFromMenu, IInv, TypeOK
  <2> QED
    BY <2>1 DEF BootInto, Promise!Next, Promise!Boot
<1>8. CASE UNCHANGED <<gdef, oneshot, running, proven>>
  BY <1>8
<1> QED
  BY <1>1, <1>2, <1>3, <1>4, <1>5, <1>6, <1>7, <1>8
     DEF Next, Updater, Daemon, DaemonStep, Operator, Machine, vars, Sync,
         StartRun, KillRun, Synthesise, VerifyPatch, Regenerate, Plan, Gate,
         Build, Deploy, FirstInstall, PrepareStaging, RecordStaged, Confirm,
         SavePromotion, Sample, Judge, KillDaemon, AskAck, AnswerAck

\* Whatever the updater, the daemon and the operator do, and wherever a power
\* cut interrupts them: the default moves to proven kernels only, a trial is
\* armed over such a default, and a boot attempt consumes it.
THEOREM Refinement == Spec => ImplementsBootTrial
<1>1. Init => Promise!Init
  BY PromiseInit
<1>2. IInv /\ [Next]_vars => [Promise!Next]_(Promise!vars)
  BY PromiseNext
<1> QED
  BY <1>1, <1>2, Inductive, PTL DEF Spec, ImplementsBootTrial, Promise!Spec

-----------------------------------------------------------------------------
(* A rerun never disturbs a staged candidate.                              *)

\* Versions only move forward from upstream to the template, the repository
\* and the installed package, and a candidate is never ahead of the last.
VersionInv ==
  /\ upstream # None => tpl <= upstream
  /\ inst <= repo
  /\ u.pc \in {"gate", "build"} => repo < tpl
  /\ u.pc \in {"pin", "arm", "record"} => u.cand <= repo
  /\ ks.state \in Active => ks.cand \in Versions /\ ks.cand <= repo

\* A run that decided to regenerate saw a version newer than the candidate.
NewerInv ==
  u.pc \in {"verify", "regen"} /\ ks.state \in Active => ks.cand < upstream

\* Both hold at the start.
LEMMA InitRerun == Init => VersionInv /\ NewerInv
  BY DEF Init, VersionInv, NewerInv, Seed, NoRun, Active

\* What a plan leads to.
LEMMA PlanSteps ==
  ASSUME Plan, u \in Run
  PROVE  \/ u' = NoRun
         \/ Withhold(u.kernel, Queue(u.kernel)).build /\ u'.pc \in {"gate", "build"}
         \/ u'.pc = "deploy"
  BY DEF Plan, Run

\* What the preparation of a staging leads to.
LEMMA PrepareSteps ==
  ASSUME PrepareStaging, u \in Run
  PROVE  \/ u' = NoRun
         \/ u'.pc \in {"pin", "record"} /\ u'.cand = inst
<1>1. CASE u' = [u EXCEPT !.pc = FirstStagingStep, !.known = KnownGood, !.cand = inst]
  <2>1. FirstStagingStep \in {"pin", "record"}
    BY DEF FirstStagingStep
  <2> QED
    BY <1>1, <2>1 DEF Run
<1> QED
  BY <1>1 DEF PrepareStaging

\* Every step preserves both.
LEMMA NextRerun ==
  IInv /\ VersionInv /\ NewerInv /\ [Next]_vars => VersionInv' /\ NewerInv'
<1> SUFFICES ASSUME IInv, VersionInv, NewerInv, [Next]_vars
             PROVE  VersionInv' /\ NewerInv'
  OBVIOUS
<1>t. TypeOK /\ UpdaterInv
  BY DEF IInv
<1> USE <1>t DEF TypeOK, VersionInv, NewerInv, UpdaterInv, KernelState, Active, pkgs, boot
<1>1. CASE Sync
  BY <1>1 DEF Sync
<1>2. CASE StartRun
  BY <1>2 DEF StartRun, NoRun, Run
<1>3. CASE KillRun
  BY <1>3 DEF KillRun, NoRun, Run
<1>4. CASE Synthesise
  BY <1>4 DEF Synthesise, Persist, ActedVersion, Run
<1>5. CASE VerifyPatch
  BY <1>5 DEF VerifyPatch, Persist, Run
<1>6. CASE Regenerate
  BY <1>6 DEF Regenerate, Persist, Run
<1>7. CASE Plan
  <2> DEFINE q == Withhold(u.kernel, Queue(u.kernel))
  <2>1. q.build => repo < tpl
    BY DEF Withhold, Queue, Outdated
  <2>2. CASE u' = NoRun
    BY <1>7, <2>2 DEF Plan, NoRun
  <2>3. CASE q.build /\ u'.pc \in {"gate", "build"}
    BY <1>7, <2>1, <2>3 DEF Plan
  <2>4. CASE u'.pc = "deploy"
    BY <1>7, <2>4 DEF Plan
  <2>5. u.pc = "plan" /\ u \in Run
    BY <1>7 DEF Plan
  <2>6. \/ u' = NoRun
        \/ q.build /\ u'.pc \in {"gate", "build"}
        \/ u'.pc = "deploy"
    BY <1>7, <2>5, PlanSteps
  <2> QED
    BY <2>2, <2>3, <2>4, <2>6
<1>8. CASE Gate
  BY <1>8 DEF Gate, Persist, Run
<1>9. CASE Build
  BY <1>9 DEF Build, NoRun, Persist, Run
<1>10. CASE Deploy
  BY <1>10 DEF Deploy, NoRun, InstallFork, Undeployed, Run
<1>11. CASE FirstInstall
  BY <1>11 DEF FirstInstall, NoRun, InstallFork, Run
<1>12. CASE PrepareStaging
  <2>1. CASE u' = NoRun
    BY <1>12, <2>1 DEF PrepareStaging, NoRun
  <2>2. CASE u'.pc \in {"pin", "record"} /\ u'.cand = inst
    BY <1>12, <2>2 DEF PrepareStaging
  <2> QED
    BY <1>12, <2>1, <2>2, PrepareSteps
<1>13. CASE PinFallback
  BY <1>13 DEF PinFallback, NoRun, Run
<1>14. CASE ArmOneShot
  BY <1>14 DEF ArmOneShot, NoRun, Run
<1>15. CASE RecordStaged
  BY <1>15 DEF RecordStaged, NoRun, Persist, Run
<1>16. CASE Confirm
  BY <1>16 DEF Confirm, Persist
<1>17. CASE JudgeTrial
  BY <1>17 DEF JudgeTrial, Persist
<1>18. CASE SavePromotion
  <2>1. ks' = ks \/ ks'.state = "TRACKING"
    BY <1>18 DEF SavePromotion, Persist, Promoted, Health
  <2> QED
    BY <1>18, <2>1 DEF SavePromotion
<1>19. CASE Judge
  BY <1>19 DEF Judge, Persist
<1>20. CASE AnswerAck
  <2>1. ks' = ks \/ ks'.state = "TRACKING"
    BY <1>20 DEF AnswerAck, Persist, Ack
  <2> QED
    BY <1>20, <2>1 DEF AnswerAck
<1>21. CASE PowerOff
  BY <1>21 DEF PowerOff, NoRun
<1>22. CASE UNCHANGED <<ks, pkgs, u>>
  BY <1>22
<1> QED
  BY <1>1, <1>2, <1>3, <1>4, <1>5, <1>6, <1>7, <1>8, <1>9, <1>10, <1>11, <1>12, <1>13, <1>14, <1>15, <1>16, <1>17, <1>18, <1>19, <1>20, <1>21, <1>22
     DEF Next, Updater, Daemon, DaemonStep, Operator, Machine, vars,
         PromoteGrub, Sample, WatchdogRollback, KillDaemon, AskAck, Rollback,
         BootUnattended, BootFromMenu, BootInto

\* A step of the updater or the machine keeps a staged candidate while upstream
\* offers that very version.
LEMMA RerunStep ==
  IInv /\ VersionInv /\ NewerInv /\ [Next]_vars
    => [ks.state \in Active /\ ks.cand = upstream /\ d' = d /\ a' = a
        => ks'.state \in Active]_vars
<1> SUFFICES ASSUME IInv, VersionInv, NewerInv, Next,
                    ks.state \in Active, ks.cand = upstream, d' = d, a' = a
             PROVE  ks'.state \in Active
  BY DEF vars
<1>1. /\ ks \in KernelState /\ d \in Health /\ a \in Ack
      /\ upstream \in Versions /\ repo \in Kernels /\ tpl \in Kernels
  BY DEF IInv, TypeOK, VersionInv
<1>2. ks.cand <= repo /\ tpl <= upstream
  BY <1>1 DEF VersionInv
<1>3. CASE Synthesise
  <2>1. ActedVersion(ks) = upstream
    BY <1>1 DEF ActedVersion
  <2> QED
    BY <1>1, <1>3, <2>1 DEF Synthesise
<1>4. u.pc \notin {"verify", "regen", "gate", "build"}
  BY <1>1, <1>2 DEF VersionInv, NewerInv
<1>5. CASE RecordStaged
  BY <1>1, <1>5 DEF RecordStaged, Persist, KernelState, Active
<1>6. CASE Confirm
  <2>1. d' = [pc |-> "trial", fails |-> 0, snap |-> ks]
        \/ d' = [NoDaemon EXCEPT !.pc = "loop"]
    BY <1>6 DEF Confirm
  <2>2. d'.pc # d.pc
    BY <1>6, <2>1 DEF Confirm, NoDaemon
  <2> QED
    BY <2>2
<1>7. CASE JudgeTrial \/ SavePromotion \/ Judge
  BY <1>1, <1>7 DEF JudgeTrial, SavePromotion, Judge, NoDaemon, Health
<1>8. CASE AnswerAck
  BY <1>8 DEF AnswerAck, NoAck
<1>9. CASE PowerOff
  BY <1>1, <1>9 DEF PowerOff, KernelState
<1>10. CASE ks' = ks
  BY <1>10
<1> QED
  BY <1>3, <1>4, <1>5, <1>6, <1>7, <1>8, <1>9, <1>10
     DEF Next, Updater, Daemon, DaemonStep, Operator, Machine, Sync, StartRun,
         KillRun, VerifyPatch, Regenerate, Plan, Gate, Build, Deploy,
         FirstInstall, PrepareStaging, PinFallback, ArmOneShot, PromoteGrub,
         Sample, WatchdogRollback, KillDaemon, AskAck, Rollback,
         BootUnattended, BootFromMenu, BootInto

\* Running the updater again, with or without the kernel, killed or not, does
\* not disturb a candidate that is staged at the version upstream offers.
THEOREM RerunIsIdempotent == Spec => RerunKeepsStaged
<1>1. Init => VersionInv /\ NewerInv
  BY InitRerun
<1>2. IInv /\ VersionInv /\ NewerInv /\ [Next]_vars => VersionInv' /\ NewerInv'
  BY NextRerun
<1>3. IInv /\ VersionInv /\ NewerInv /\ [Next]_vars
        => [ks.state \in Active /\ ks.cand = upstream /\ d' = d /\ a' = a
            => ks'.state \in Active]_vars
  BY RerunStep
<1> QED
  BY <1>1, <1>2, <1>3, Inductive, PTL DEF Spec, RerunKeepsStaged

=============================================================================
