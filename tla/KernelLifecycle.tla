--------------------------- MODULE KernelLifecycle ---------------------------
(***************************************************************************)
(* The life of a BORE kernel: noticed upstream, regenerated, gated, built, *)
(* deployed, staged for a trial boot, judged by the health daemon and then *)
(* promoted or frozen.                                                     *)
(*                                                                         *)
(* Four actors share the kernel state file (kernel-state.json), the        *)
(* package repository and GRUB's environment block:                        *)
(*   - the updater (cachy-void-update --commit), one at a time under the   *)
(*     run lock;                                                           *)
(*   - the health daemon (runit service cachy-health), which takes no lock;*)
(*   - the operator: --kernel-ack (which prompts), --rollback, the power   *)
(*     button and the boot menu;                                           *)
(*   - GRUB, which boots the one-shot entry once, else the saved default.  *)
(*                                                                         *)
(* One action is one critical step of one actor.  A read-modify-write of   *)
(* the state file that the code does at once (_record_kernel_state,        *)
(* _set_state) is one step; a copy of the file that the code keeps across  *)
(* a wait (the trial's settle time, the acknowledgement's prompt) is kept  *)
(* in the actor's local state and written back later.                      *)
(***************************************************************************)
EXTENDS Integers

CONSTANTS
  MaxVer,       \* kernel versions the tracked series reaches (bound)
  StockVer,     \* version of the distribution kernel the box came with, 0 = older than any fork
  Mode,         \* boot layout, grub.detect_boot_layout
  TripAfter,    \* DaemonConfig.trip_after
  DiskFaults    \* whether a write of the state file may fail (ENOSPC)

Modes == {"oneshot", "manual", "external", "manual-unsafe"}

ASSUME MaxVerAssumption    == MaxVer \in Nat \ {0}
ASSUME StockVerAssumption  == StockVer \in 0..MaxVer
ASSUME ModeAssumption      == Mode \in Modes
ASSUME TripAfterAssumption == TripAfter \in Nat \ {0}
ASSUME DiskAssumption      == DiskFaults \in BOOLEAN

(***************************************************************************)
(* Kernels.  A fork linux-cachy-V is its version V \in 1..MaxVer; the      *)
(* distribution kernel bootstrap.sh records as known_good is 0.            *)
(***************************************************************************)
Stock    == 0
Versions == 1..MaxVer
Kernels  == 0..MaxVer
None     == -1          \* JSON null, no kernel running, no one-shot armed
Unset    == -2          \* GRUB_DEFAULT=saved but nothing was ever saved

Frozen == {"CANDIDATE_UNHEALTHY", "ROLLED_BACK", "AWAIT_HUMAN_SERIES",
           "AWAIT_HUMAN_TEMPLATE", "AWAIT_HUMAN_PATCH", "AWAIT_HUMAN_BUILD",
           "HALT_HASH_MISMATCH"}
Active == {"STAGED", "CONFIRMING"}
States == Frozen \cup Active \cup {"TRACKING", "PATCH_VERIFY", "REGENERATE", "READY"}

\* kernel-state.json.  staged_boot_id only matters as compared with the id of
\* the current boot: "cur" is equal to it, "old" is the id of an earlier boot.
KernelState == [state  : States,
                cand   : Versions \cup {None},
                good   : Kernels,
                ported : Kernels,
                staged : {"none", "cur", "old"}]

VARIABLES
  ks,        \* kernel-state.json on disk
  upstream,  \* version of the linux<series> template in the checkout, None = series gone
  tpl,       \* version of the linux-cachy template, 0 = no template
  repo,      \* version of linux-cachy in the local repository, 0 = never built
  inst,      \* version of the installed linux-cachy package, 0 = not installed
  menu,      \* kernels under /boot with a menu entry
  gdef,      \* grubenv saved_entry
  oneshot,   \* grubenv next_entry
  running,   \* uname -r, None while the machine is down
  u,         \* the updater process
  d,         \* the health daemon process
  a,         \* the --kernel-ack process
  proven,    \* history: kernels that passed the trial battery while running
  gated      \* history: forks whose configuration passed the G2 gate

vars == <<ks, upstream, tpl, repo, inst, menu, gdef, oneshot, running,
          u, d, a, proven, gated>>
pkgs == <<upstream, tpl, repo, inst, menu>>
boot == <<gdef, oneshot, running>>

UpdaterSteps == {"idle", "synth", "verify", "regen", "plan", "gate", "build",
                 "deploy", "first", "stage", "pin", "arm", "record"}
DaemonSteps  == {"off", "trial", "promote", "save", "loop", "judge", "rollback"}

\* A commit run: where it is, whether it handles the kernel, whether linux-cachy
\* is to be built and to be deployed, and the two kernels of its staging.
Run    == [pc : UpdaterSteps, kernel : BOOLEAN, build : BOOLEAN, dep : BOOLEAN,
           known : Kernels, cand : Kernels \cup {None}]
Health == [pc : DaemonSteps, fails : 0..TripAfter, snap : KernelState]
Ack    == [pc : {"idle", "asked"}, snap : KernelState]

NoRun    == [pc |-> "idle", kernel |-> FALSE, build |-> FALSE, dep |-> FALSE,
             known |-> Stock, cand |-> None]
Seed     == [state |-> "TRACKING", cand |-> None, good |-> Stock,
             ported |-> 0, staged |-> "none"]
NoDaemon == [pc |-> "off", fails |-> 0, snap |-> Seed]
NoAck    == [pc |-> "idle", snap |-> Seed]

\* bootstrap.sh: the running distribution kernel is known_good, nothing was
\* ported, and no default was ever saved in grubenv.
Init ==
  /\ ks = Seed
  /\ upstream = 1
  /\ tpl = 0 /\ repo = 0 /\ inst = 0
  /\ menu = {Stock}
  /\ gdef = Unset /\ oneshot = None /\ running = Stock
  /\ u = NoRun /\ d = NoDaemon /\ a = NoAck
  /\ proven = {Stock}
  /\ gated = {}

-----------------------------------------------------------------------------
(* Helpers the actors share.                                               *)

\* A write of the state file is atomic; an OSError is reported or swallowed
\* by every caller, which then goes on.
Persist(new) == ks' = new \/ (DiskFaults /\ UNCHANGED ks)

\* resolve_menu_ref: exactly one entry id contains the release string.  The
\* fork's release is the distribution kernel's release plus "-cachy", so the
\* entry of a fork of the same version also contains the stock release.
Resolves(k) == k \in menu /\ ~(k = Stock /\ StockVer \in menu \ {Stock})

\* The newest kernel leads GRUB's generated menu.
MenuHead(k) == k \in menu /\ \A m \in menu : m <= k

\* Layouts on which grub-set-default has an effect, hence is issued.
PinMode == Mode \in {"oneshot", "manual"}

-----------------------------------------------------------------------------
(* The updater: cachy-void-update --commit [--no-kernel].                  *)

\* cmd_sync brings a newer series template, or the series disappears.  It
\* takes the run lock, so never during a commit.
Sync ==
  /\ u.pc = "idle" /\ running # None /\ upstream # None
  /\ upstream' \in {v \in Versions : v = upstream + 1} \cup {None}
  /\ UNCHANGED <<ks, tpl, repo, inst, menu, boot, u, d, a, proven, gated>>

\* A run starts: the nightly service or a human, with or without the kernel
\* (--no-kernel, the nightly veto, SCHEDULE_KERNEL=no).
StartRun ==
  /\ u.pc = "idle" /\ running # None
  /\ \E kernel \in BOOLEAN : u' = [NoRun EXCEPT !.pc = "synth", !.kernel = kernel]
  /\ UNCHANGED <<ks, pkgs, boot, d, a, proven, gated>>

\* The updater is killed (SIGKILL, sv down, the window closed): the lock is released.
KillRun ==
  /\ u.pc # "idle"
  /\ u' = NoRun
  /\ UNCHANGED <<ks, pkgs, boot, d, a, proven, gated>>

\* Mutant: compare with ported_version alone.
ActedVersion_PortedOnly(s) == s.ported

\* acted_version: a staged candidate has been acted on already.
ActedVersion(s) == IF s.state \in Active /\ s.cand # None THEN s.cand ELSE s.ported

\* _kernel_synthesis up to PATCH_VERIFY.  The classification may also fail,
\* and is then skipped.
Synthesise ==
  /\ u.pc = "synth"
  /\ \/ /\ ~u.kernel \/ ks.state \in Frozen \/ upstream # None
        /\ u' = [u EXCEPT !.pc = "plan"]
        /\ UNCHANGED ks
     \/ /\ u.kernel /\ ks.state \notin Frozen /\ upstream = None
        /\ u' = [u EXCEPT !.pc = "plan"]
        /\ Persist([ks EXCEPT !.state = "AWAIT_HUMAN_SERIES"])
     \/ /\ u.kernel /\ ks.state \notin Frozen /\ upstream # None
        /\ upstream > ActedVersion(ks)
        /\ u' = [u EXCEPT !.pc = "verify"]
        /\ Persist([ks EXCEPT !.state = "PATCH_VERIFY"])
  /\ UNCHANGED <<pkgs, boot, d, a, proven, gated>>

\* trust.ensure_trusted_patch: the patch is trusted, refused, or unreadable.
VerifyPatch ==
  /\ u.pc = "verify"
  /\ \/ /\ u' = [u EXCEPT !.pc = "regen"]
        /\ Persist([ks EXCEPT !.state = "REGENERATE"])
     \/ /\ u' = [u EXCEPT !.pc = "plan"]
        /\ \E stall \in {"AWAIT_HUMAN_PATCH", "HALT_HASH_MISMATCH"} :
             Persist([ks EXCEPT !.state = stall])
     \/ u' = [u EXCEPT !.pc = "plan"] /\ UNCHANGED ks
  /\ UNCHANGED <<pkgs, boot, d, a, proven, gated>>

\* template.synthesize.  A failure may leave the old fork, the new one (the
\* subpackage links failed after the swap) or none (between the two renames).
Regenerate ==
  /\ u.pc = "regen"
  /\ u' = [u EXCEPT !.pc = "plan"]
  /\ \/ tpl' = upstream /\ Persist([ks EXCEPT !.state = "READY"])
     \/ tpl' \in {tpl, upstream, 0} /\ Persist([ks EXCEPT !.state = "AWAIT_HUMAN_TEMPLATE"])
  /\ UNCHANGED <<upstream, repo, inst, menu, boot, d, a, proven, gated>>

\* Sections 7.3 L and M: the template outranks the local repository, or
\* nothing was built yet.  P: installed, but older than the repository.
Outdated  == tpl # 0 /\ tpl > repo
Undeployed == inst # 0 /\ inst < repo

\* build_queue for linux-cachy: the installed-gate, and the K-exemption that
\* lets a run with the kernel enabled introduce it.
Queue(kernel) ==
  LET build == Outdated /\ (inst # 0 \/ kernel)
  IN  [build |-> build, dep |-> build \/ Undeployed]

\* Mutant: --no-kernel only disables the K-exemption.
Withhold_KernelFlagIgnored(kernel, q) ==
  IF kernel /\ q.build /\ ks.state \in Frozen
  THEN [build |-> FALSE, dep |-> FALSE] ELSE q

\* The two cheap withholds of cmd_commit.
Withhold(kernel, q) ==
  IF ~kernel \/ (q.build /\ ks.state \in Frozen)
  THEN [build |-> FALSE, dep |-> FALSE] ELSE q

\* The queue is computed; a query may fail and the human may decline.
Plan ==
  /\ u.pc = "plan"
  /\ \/ LET q == Withhold(u.kernel, Queue(u.kernel))
        IN  u' = [u EXCEPT !.build = q.build, !.dep = q.dep,
                           !.pc = IF q.build THEN IF u.kernel THEN "gate" ELSE "build"
                                             ELSE "deploy"]
     \/ u' = NoRun
  /\ UNCHANGED <<ks, pkgs, boot, d, a, proven, gated>>

\* _g2_gate and what a failure does.
Gate ==
  /\ u.pc = "gate"
  /\ \/ /\ u' = [u EXCEPT !.pc = "build"]
        /\ gated' = gated \cup {tpl}
        /\ UNCHANGED ks
     \/ /\ u' = [u EXCEPT !.pc = "deploy", !.build = FALSE, !.dep = FALSE]
        /\ Persist([ks EXCEPT !.state = "AWAIT_HUMAN_TEMPLATE"])
        /\ UNCHANGED gated
  /\ UNCHANGED <<pkgs, boot, d, a, proven>>

\* The build loop: built; G3 failure; or the run stops with the kernel not
\* built (preflight refusal) or built but not deployed (another package or
\* the pre-deploy snapshot failed).
Build ==
  /\ u.pc = "build"
  /\ \/ /\ u' = [u EXCEPT !.pc = "deploy"]
        /\ repo' = tpl
        /\ UNCHANGED ks
     \/ /\ u' = NoRun
        /\ u.kernel /\ Persist([ks EXCEPT !.state = "AWAIT_HUMAN_BUILD"])
        /\ UNCHANGED repo
     \/ /\ u' = NoRun
        /\ repo' \in {repo, tpl}
        /\ UNCHANGED ks
  /\ UNCHANGED <<upstream, tpl, inst, menu, boot, d, a, proven, gated>>

\* A new fork is unpacked beside the kernels already there (the packages
\* preserve their files) and the distribution's hook adds its menu entry.
InstallFork(v) == inst' = v /\ menu' = menu \cup {v}

\* _deploy: one xbps-install -Suy with the overlay repositories, whatever the
\* queue; it upgrades every installed package, the kernel included.  The run
\* stops when the transaction fails, and when takeover or verification fails
\* after it.
Deploy ==
  /\ u.pc = "deploy"
  /\ \/ /\ IF Undeployed THEN InstallFork(repo) ELSE UNCHANGED <<inst, menu>>
        /\ \/ /\ u.kernel /\ u.dep
              /\ u' = [u EXCEPT !.pc = IF inst = 0 THEN "first" ELSE "stage"]
           \/ u' = NoRun
     \/ u' = NoRun /\ UNCHANGED <<inst, menu>>
  /\ UNCHANGED <<ks, upstream, tpl, repo, boot, d, a, proven, gated>>

\* The single sanctioned widening: linux-cachy and its headers are introduced.
FirstInstall ==
  /\ u.pc = "first"
  /\ \/ InstallFork(repo) /\ u' = [u EXCEPT !.pc = "stage"]
     \/ UNCHANGED <<inst, menu>> /\ u' = NoRun
  /\ UNCHANGED <<ks, upstream, tpl, repo, boot, d, a, proven, gated>>

\* Mutant: pin the kernel that happens to be running.
KnownGood_Running == running

\* The fallback of a trial: the recorded kernel that booted healthily.  (With
\* none on record the code takes uname -r; bootstrap.sh always records one.)
KnownGood == ks.good

\* Mutant: arm the one-shot before anything is pinned.
FirstStagingStep_ArmFirst == IF PinMode THEN "arm" ELSE "record"

\* stage_candidate issues grub-set-default first; on an external layout it
\* issues nothing and the caller only records.
FirstStagingStep == IF PinMode THEN "pin" ELSE "record"

\* _stage_kernel up to the first GRUB command: it returns without staging on
\* a manual-unsafe layout, when the candidate is the known-good kernel, when a
\* menu reference is missing or ambiguous, or when a query fails.
PrepareStaging ==
  /\ u.pc = "stage"
  /\ \/ /\ Mode # "manual-unsafe"
        /\ KnownGood # inst
        /\ PinMode => Resolves(KnownGood) /\ Resolves(inst)
        /\ u' = [u EXCEPT !.pc = FirstStagingStep, !.known = KnownGood, !.cand = inst]
     \/ u' = NoRun
  /\ UNCHANGED <<ks, pkgs, boot, d, a, proven, gated>>

\* grub-set-default <known good>; a failing command ends the staging.
PinFallback ==
  /\ u.pc = "pin"
  /\ \/ /\ gdef' = u.known
        /\ u' = [u EXCEPT !.pc = IF Mode = "oneshot" THEN "arm" ELSE "record"]
     \/ UNCHANGED gdef /\ u' = NoRun
  /\ UNCHANGED <<ks, pkgs, oneshot, running, d, a, proven, gated>>

\* grub-reboot <candidate>.
ArmOneShot ==
  /\ u.pc = "arm"
  /\ \/ oneshot' = u.cand /\ u' = [u EXCEPT !.pc = "record"]
     \/ UNCHANGED oneshot /\ u' = NoRun
  /\ UNCHANGED <<ks, pkgs, gdef, running, d, a, proven, gated>>

\* _record_kernel_state: the candidate goes on record, whatever the state was.
RecordStaged ==
  /\ u.pc = "record"
  /\ u' = NoRun
  /\ Persist([ks EXCEPT !.state = "STAGED", !.cand = u.cand,
                        !.good = u.known, !.staged = "cur"])
  /\ UNCHANGED <<pkgs, boot, d, a, proven, gated>>

Updater == StartRun \/ KillRun \/ Synthesise \/ VerifyPatch \/ Regenerate \/ Plan
           \/ Gate \/ Build \/ Deploy \/ FirstInstall \/ PrepareStaging
           \/ PinFallback \/ ArmOneShot \/ RecordStaged

-----------------------------------------------------------------------------
(* The health daemon: confirm_boot once, then the watchdog loop; runit     *)
(* starts it at boot and again whenever it exits.                          *)

\* Mutant: another kernel than the candidate came up and nobody notices.
Evaluate_NoRolledBack(s, ok) ==
  IF s.state \in Active /\ s.cand # None /\ running = s.cand
  THEN IF ok THEN "PROMOTE" ELSE "CANDIDATE_UNHEALTHY"
  ELSE "NOOP"

\* Mutant: the verdict forgets that the battery failed.
Evaluate_IgnoresBattery(s, ok) ==
  IF s.state \notin Active THEN "NOOP"
  ELSE IF s.cand # None /\ running = s.cand THEN "PROMOTE"
  ELSE IF s.staged = "old" THEN "ROLLED_BACK" ELSE "NOOP"

\* health.evaluate.
Evaluate(s, ok) ==
  IF s.state \notin Active THEN "NOOP"
  ELSE IF s.cand # None /\ running = s.cand
       THEN IF ok THEN "PROMOTE" ELSE "CANDIDATE_UNHEALTHY"
       ELSE IF s.staged = "old" THEN "ROLLED_BACK" ELSE "NOOP"

\* confirm_boot loads the state.  On the candidate it records CONFIRMING and
\* waits with the loaded copy in hand; otherwise it decides at once.
Confirm ==
  /\ d.pc = "off" /\ running # None
  /\ IF ks.state \in Active /\ ks.cand = running
     THEN /\ d' = [pc |-> "trial", fails |-> 0, snap |-> ks]
          /\ Persist([ks EXCEPT !.state = "CONFIRMING"])
     ELSE /\ d' = [NoDaemon EXCEPT !.pc = "loop"]
          /\ IF Evaluate(ks, FALSE) = "ROLLED_BACK"
             THEN Persist([ks EXCEPT !.state = "ROLLED_BACK"])
             ELSE UNCHANGED ks
  /\ UNCHANGED <<pkgs, boot, u, a, proven, gated>>

\* The battery at the end of the settle time, and the verdict on the copy
\* loaded before it.
JudgeTrial ==
  /\ d.pc = "trial"
  /\ \E ok \in BOOLEAN :
       /\ proven' = IF ok THEN proven \cup {running} ELSE proven
       /\ IF Evaluate([d.snap EXCEPT !.state = "CONFIRMING"], ok) = "PROMOTE"
          THEN d' = [d EXCEPT !.pc = "promote"] /\ UNCHANGED ks
          ELSE /\ d' = [NoDaemon EXCEPT !.pc = "loop"]
               /\ Persist([ks EXCEPT !.state = "CANDIDATE_UNHEALTHY"])
  /\ UNCHANGED <<pkgs, boot, u, a, gated>>

\* grub.promote; when it fails the state stays CONFIRMING.
PromoteGrub ==
  /\ d.pc = "promote"
  /\ \/ /\ gdef' = IF PinMode THEN d.snap.cand ELSE gdef
        /\ d' = [d EXCEPT !.pc = "save"]
     \/ PinMode /\ UNCHANGED gdef /\ d' = [NoDaemon EXCEPT !.pc = "loop"]
  /\ UNCHANGED <<ks, pkgs, oneshot, running, u, a, proven, gated>>

\* Mutant: the candidate is cleared before it is copied.
Promoted_ClearedFirst(s) ==
  [s EXCEPT !.state = "TRACKING", !.good = None, !.ported = s.cand, !.cand = None]

\* What _promote_state makes of the copy it was given.
Promoted(s) ==
  [s EXCEPT !.state = "TRACKING", !.good = s.cand, !.ported = s.cand, !.cand = None]

\* _promote_state writes the whole copy loaded before the trial.
SavePromotion ==
  /\ d.pc = "save"
  /\ d' = [NoDaemon EXCEPT !.pc = "loop"]
  /\ Persist(Promoted(d.snap))
  /\ UNCHANGED <<pkgs, boot, u, a, proven, gated>>

\* One watchdog tick; the battery may fail on any kernel (a network blip).
Sample ==
  /\ d.pc = "loop"
  /\ \/ d' = [d EXCEPT !.fails = 0]
     \/ /\ d.fails + 1 < TripAfter
        /\ d' = [d EXCEPT !.fails = @ + 1]
     \/ /\ d.fails + 1 >= TripAfter
        /\ d' = [d EXCEPT !.fails = @ + 1, !.pc = "judge"]
  /\ UNCHANGED <<ks, pkgs, boot, u, a, proven, gated>>

\* _candidate_in_trial: a kernel candidate is on record as being tried.
CandidateInTrial == ks.state \in Active /\ ks.cand # None

\* TripAfter consecutive failures: a verdict on the candidate, or a warning.
Judge ==
  /\ d.pc = "judge"
  /\ IF CandidateInTrial
     THEN /\ Persist([ks EXCEPT !.state = "CANDIDATE_UNHEALTHY"])
          /\ d' = [NoDaemon EXCEPT !.pc = IF PinMode THEN "rollback" ELSE "off"]
     ELSE d' = [d EXCEPT !.pc = "loop", !.fails = 0] /\ UNCHANGED ks
  /\ UNCHANGED <<pkgs, boot, u, a, proven, gated>>

\* Mutant: roll back to the kernel on trial.
PinKnownGood_Candidate ==
  \/ Resolves(ks.cand) /\ gdef' = ks.cand
  \/ UNCHANGED gdef

\* cmd_rollback: pin the recorded known-good kernel.  An ambiguous reference
\* or a failing command leaves the default alone.
PinKnownGood ==
  \/ Resolves(ks.good) /\ gdef' = ks.good
  \/ UNCHANGED gdef

\* The trip's active rollback; the daemon then exits 70.
WatchdogRollback ==
  /\ d.pc = "rollback"
  /\ PinKnownGood
  /\ d' = NoDaemon
  /\ UNCHANGED <<ks, pkgs, oneshot, running, u, a, proven, gated>>

\* The daemon is killed or restarted (sv restart during service cycling).
KillDaemon ==
  /\ d.pc # "off"
  /\ d' = NoDaemon
  /\ UNCHANGED <<ks, pkgs, boot, u, a, proven, gated>>

DaemonStep == Confirm \/ JudgeTrial \/ PromoteGrub \/ SavePromotion \/ Sample
              \/ Judge \/ WatchdogRollback
Daemon == DaemonStep \/ KillDaemon

-----------------------------------------------------------------------------
(* The operator and the machine.                                           *)

\* cmd_kernel_ack loads the state, explains the freeze and asks.
AskAck ==
  /\ a.pc = "idle" /\ running # None
  /\ ks.state \in Frozen
  /\ a' = [pc |-> "asked", snap |-> ks]
  /\ UNCHANGED <<ks, pkgs, boot, u, d, proven, gated>>

\* The answer: yes writes the loaded copy back, cleared; no writes nothing.
AnswerAck ==
  /\ a.pc = "asked"
  /\ a' = NoAck
  /\ \/ Persist([a.snap EXCEPT !.state = "TRACKING", !.cand = None, !.staged = "none"])
     \/ UNCHANGED ks
  /\ UNCHANGED <<pkgs, boot, u, d, proven, gated>>

\* cachy-void-update --rollback.
Rollback ==
  /\ running # None /\ PinMode
  /\ PinKnownGood
  /\ UNCHANGED <<ks, pkgs, oneshot, running, u, d, a, proven, gated>>

\* Reboot, power cut or panic: every process is gone, the current boot id
\* becomes an earlier one.  A swap of the template may be half done.
PowerOff ==
  /\ running # None
  /\ running' = None
  /\ u' = NoRun /\ d' = NoDaemon /\ a' = NoAck
  /\ ks' = [ks EXCEPT !.staged = IF @ = "cur" THEN "old" ELSE @]
  /\ tpl' \in IF u.pc = "regen" THEN {tpl, upstream, 0} ELSE {tpl}
  /\ UNCHANGED <<upstream, repo, inst, menu, gdef, oneshot, proven, gated>>

\* An unattended power cycle loads k: the one-shot entry, else the saved one,
\* else the head of the menu.
LoadsUnattended(k) ==
  IF oneshot # None THEN k = oneshot
  ELSE IF gdef # Unset /\ PinMode THEN k = gdef
  ELSE MenuHead(k)

\* GRUB consumes the one-shot whatever is chosen.  A fork may panic before
\* userspace: the machine is down again.
BootInto(k) ==
  /\ running = None
  /\ oneshot' = None
  /\ running' \in IF k = Stock THEN {k} ELSE {k, None}
  /\ UNCHANGED <<ks, pkgs, gdef, u, d, a, proven, gated>>

\* Nobody touches the menu; on an external layout the menu is foreign and may
\* load any kernel.
BootUnattended ==
  /\ Mode # "external"
  /\ \E k \in Kernels : LoadsUnattended(k) /\ BootInto(k)
BootFromMenu   == \E k \in menu : BootInto(k)

Machine == PowerOff \/ BootUnattended \/ BootFromMenu
Operator == AskAck \/ AnswerAck \/ Rollback

Next == Sync \/ Updater \/ Daemon \/ Operator \/ Machine

Spec == Init /\ [][Next]_vars

-----------------------------------------------------------------------------
(* Properties.                                                             *)

\* Every variable has its type: the values of the state file, the package
\* versions, the boot variables, and the local state of the three processes.
TypeOK ==
  /\ ks \in KernelState
  /\ upstream \in Versions \cup {None}
  /\ tpl \in Kernels /\ repo \in Kernels /\ inst \in Kernels
  /\ menu \subseteq Kernels
  /\ gdef \in Kernels \cup {Unset}
  /\ oneshot \in Versions \cup {None}
  /\ running \in Kernels \cup {None}
  /\ u \in Run /\ d \in Health /\ a \in Ack
  /\ proven \subseteq Kernels
  /\ gated \subseteq Versions

\* The fallback on record and the tracked version are kernels that came up and
\* passed the trial battery, through every interleaving of staging, trial,
\* promotion and acknowledgement ("only PROMOTE advances it").
FallbackProven == ks.good \in proven /\ ks.ported \in proven

\* Once something was saved in grubenv, the default is a proven kernel at every
\* instant, also between the steps of a staging, a promotion or a rollback.
DefaultProven == gdef # Unset => gdef \in proven

\* A candidate on record or an armed one-shot always has a proven default
\* beneath it, whichever step of the staging a crash interrupts.
TrialIsPinned ==
  PinMode /\ (ks.state \in Active \/ oneshot # None) => gdef \in proven

\* No fork reaches /boot without having passed the G2 gate, whichever runs
\* regenerated, built and deployed it: the gate is never skipped.
InstalledGated == menu \ {Stock} \subseteq gated

\* Running the updater again never disturbs a staged candidate while upstream
\* offers that same version (the rerun that re-detected its own candidate).
RerunKeepsStaged ==
  [][ks.state \in Active /\ ks.cand = upstream /\ d' = d /\ a' = a
     => ks'.state \in Active]_vars

\* The kernel path implements the promise about booting.
Promise == INSTANCE BootTrial WITH default <- gdef, trial <- oneshot
ImplementsBootTrial == Promise!Spec

(* The daemon's steps are fair: runit restarts it and it never waits for   *)
(* anyone.  A trial is not interrupted for ever: the settle time is two    *)
(* minutes.                                                                *)
FairSpec == Spec /\ WF_vars(DaemonStep) /\ SF_vars(JudgeTrial)

\* After the reboot that follows a staging, the candidate does not stay in
\* trial: it passes the battery, or a verdict takes the state out of
\* STAGED/CONFIRMING, or the machine goes down again.
TrialDecided ==
  (ks.state \in Active /\ ks.staged = "old" /\ running # None)
    ~> (ks.state \notin Active \/ ks.cand \in proven \/ running = None)

=============================================================================
