# Verification of cachy-void

TLA+ models, model-checking runs and machine-checked proofs for the program in
this repository: an updater that keeps a CachyOS-flavoured kernel and an overlay
of source packages current on Void Linux, and the daemons, front ends and
provisioning scripts around it. Source references are `path:line` relative to
the repository root (`updater/…`, `system/…`).

## 1. Inventory

| Part | Code | State it keeps | Operations |
|---|---|---|---|
| Kernel lifecycle | `updater/cachy_void_update.py` (`_kernel_synthesis`, `_g2_gate`, `cmd_commit`, `_stage_kernel`), `updater/engine/grub.py` | `kernel-state.json` (state, candidate, known good, ported version, boot id of the staging), the `linux-cachy` template, its build in the local repository, the installed fork, `/boot`, grubenv | detect a bump, verify the patch, regenerate, gate, build, deploy, first install, pin, arm, record |
| Health daemon | `updater/engine/health_daemon.py`, `health.py`, `system/sv/cachy-health/run` | its count of failures, the copy of the state it loaded, telemetry in the state file | confirm a trial boot, promote, freeze, sample, trip, roll back |
| Operator commands on the kernel | `cmd_kernel_ack`, `cmd_rollback`, `cmd_skip_kernel_tonight` | the copy of the state held across the prompt; the veto file | acknowledge, roll back, veto one night |
| Dirty-queue engine | `updater/engine/ddre.py`, `xbps.py` | none (pure over three version maps and the dependency graph) | build queue, deploy queue, build order |
| Commit pipeline and journal | `cmd_commit`, `_deploy`, `_post_verify`, `updater/engine/journal.py` | the run's journal, exit code | preflight, build loop, snapshot, deploy, verify, first install, services; crash report of the previous run |
| Run lock | `run_lock`, `read_lock_holder`, `describe_holder`, `main` | an flock and a label (pid, command) in the lock file | take, refuse, probe, release |
| State store and file writes | `updater/engine/atomicio.py`, `KernelStateStore` | `kernel-state.json` and its temporary siblings | load, atomic save, append, sweep |
| Patch trust | `updater/engine/trust.py`, `cmd_pin_bore` | `bore.lock` with the pinned hashes; the cached patch, a file inside the live fork | reuse, fetch, compare, propose, approve, append |
| Template synthesis | `updater/engine/template.py` | private directory, the live fork `srcpkgs/linux-cachy`, the links of its subpackages | render, check, swap in two renames, link |
| Snapshots | `updater/engine/snapshot.py` | read-only btrfs snapshots | take, prune |
| Run records | `updater/engine/journal.py`, `prune_run_logs`, `last_run_failure`, `crash_report` | `run-<stamp>` directories, each with a journal | open, record, prune, report |
| Nightly service | `system/sv/cachy-void-update/run`, schedule functions | the conf, what the waiting script read of it, the veto's expiry | wait for the hour, `--sync`, `--commit`; pause, resume; veto, spend |
| Front ends | `system/bin/cachy-updater-gui`, `cachy-updater-tray` | child process, poke socket | spawn, watch, close, refresh |
| Provisioning | `deploy.sh`, `get.sh`, `bootstrap.sh` | manifest ledger, backups | deploy, undo, seed the state |
| Branding and desktop trial | `system/bin/cachy-branding*`, desktop commands | recorded originals, trial record | apply, undo, keep |
| Reports and launchers | status, check, pending, gpu; `cachy-game`, `cachy-proton` | none of their own | read-only listings, wrappers |

How they interact:

* **Shared files, one lock, and actors outside it.** Every command that changes
  packages takes the run lock; the health daemon, `--kernel-ack` and
  `--rollback` do not. All of them rewrite the one state file whole (load,
  change, rename over). The daemon and the acknowledgement keep the loaded copy
  across a wait of minutes.
* **GRUB as a peer.** The updater and the daemon write `saved_entry` and
  `next_entry`; GRUB reads them with nobody present, consumes the one-shot, and
  the outcome (which kernel came up) is the message the daemon receives.
* **State left by one run is the next run's input.** A template regenerated, a
  package built, a one-shot armed or a freeze recorded by a run that was then
  killed is picked up by the next, possibly with other flags.

What is hard here: several writers of one file without a common lock; a power
cut between any two commands; a full disk whose error is reported and passed
over; a run that resumes what another left; and a verdict that arrives one
reboot later. What makes each part correct:

* *kernel lifecycle*: an unattended boot reaches a kernel that already proved
  itself; a trial always has such a kernel beneath it; nothing ungated is
  installed; a rerun leaves the candidate of the previous run alone;
* *health daemon*: every trial gets a verdict, only a battery that passed on the
  candidate promotes it, a freeze stays until acknowledged;
* *queue and order*: an empty queue means nothing is left to do; a package is
  built after what it needs; a cycle with a seed is rebuilt twice;
* *journal and lock*: two commits never overlap; a crash is reported once and
  only a crash; a probe changes nothing;
* *store*: no reader sees half a file; no field written by one actor is undone by
  another's unrelated write; the sweep deletes no live file;
* *trust, template*: an artifact nobody approved is never built; a crash anywhere needs no human and the next runs
  still port what upstream has;
* *records, snapshots*: the newest record tells of the last run; a deploy that is owed a net has its own;
* *nightly service*: a veto holds for the night it names and for no other; the conf is obeyed;
* *provisioning, branding*: undo restores exactly what was recorded first.

## 2. Plan

| # | Module | Content | State |
|---|---|---|---|
| 1 | `BootTrial` | abstract promise of the boot path | done |
| 2 | `KernelLifecycle`, `KernelLifecycle_proofs` | updater, daemon, operator, GRUB over the shared state; inductive invariant, refinement, rerun theorem | done |
| 3 | `KernelClaims`, `TemplateClaims` | statements of the comments the code does not keep | done |
| 4 | `OverlayCommit`, `OverlayCommit_proofs` | queue algebra, build, deploy, takeover, verification, journal, crash | done |
| 5 | `RunLock`, `RunLock_proofs` | flock, label, refusal, probe, preview, nightly pair, orphans | done |
| 6 | `BuildOrder`, `BuildOrder_proofs` | sorter check, Tarjan, seed rule, Kahn | done |
| 7 | `TemplateSynthesis`, `TemplateSynthesis_proofs` | trust, fetch, cache, pin, private directory, swap, links, build, with previews beside | done |
| 8 | `AtomicFile`, `StateStore`, `StateStore_proofs` | abstract atomic file; load-change-save by two unlocked writers, sweep, power cut | done |
| 9 | `RunRecords`, `RunRecords_proofs` | run directories and snapshots: start, prune, crash report, `last_run_failure`, clock set back | done |
| 10 | `NightlySchedule`, `NightlySchedule_proofs` | service script, conf, pause, veto | done |
| 11 | `FrontEnds` | window and tray: child process, close, poke, refresh | later |
| 12 | `Ledger` | `deploy.sh`: backup, manifest, undo; the branding and desktop-trial records | later |

How they compose: `KernelLifecycle` takes the trust and synthesis of 7 as one step with an outcome, the file of 8 as atomic (which is
what 8 shows) and the lock of 5 as given; 7 takes `KernelLifecycle` from the deployed build on as one step (`Adopt`);
9 takes a run's work as an outcome and 10 a run as its scope.

## 3. What is modelled

### `BootTrial`
Five actions over four variables: a kernel proves itself while running; the
default moves to a proven kernel; a trial is armed over a proven default; the
machine goes down; a boot attempt consumes the trial. It is the "failure geometry" of
`architecture.md` §8.6, with nothing of how the code achieves it.

### `KernelLifecycle`
Variables and their counterparts:

| Variable | In the code |
|---|---|
| `ks` | `kernel-state.json`: `state`, `candidate`, `known_good`, `ported_version`, `staged_boot_id`. The boot id matters only as compared with the current one: none, `cur`, `old`. |
| `upstream` | version in `srcpkgs/linux<series>/template`; `None` when the series vanished |
| `tpl`, `repo`, `inst` | version of `linux-cachy` as template, as built package, as installed package (0: none) |
| `menu` | kernels in `/boot` with a menu entry. Packages set `preserve=yes`, so forks pile up |
| `gdef`, `oneshot` | `saved_entry`, `next_entry` of grubenv |
| `running` | `uname -r`; `None` while down |
| `u`, `d`, `a` | program counter and local data of the commit run, the daemon, the acknowledgement |
| `proven`, `gated` | histories the properties talk about; no action's guard reads them |

A kernel is a version number: 0 is the distribution kernel bootstrap recorded, `V`
is the fork of version `V`. Each action is a critical step: everything a process
does up to the next point where another actor's interference, a kill or a power
cut can matter. `stage_candidate` is therefore three actions (pin, arm, record),
`confirm_boot` four (load and mark `CONFIRMING`; battery and verdict; GRUB; write
back the loaded copy), `--kernel-ack` two (load; write back the loaded copy
after the prompt). A read-modify-write of the state file without a wait inside
is one action here; `StateStore` splits it.

Failure is everywhere it is in the code: a killed run (`KillRun`), a killed or
restarted daemon, a power cut (`PowerOff`), a panic of a fork (`BootInto`), a
GRUB command that fails, a transaction that fails before or after it changed
packages, a state write that fails and is passed over (`Persist` with
`DiskFaults`), a template swap cut between its two renames.

Four boot layouts (`Mode`): `oneshot`, `manual` (no writable grubenv: pinned but
not armed), `external` (a foreign boot loader: nothing pinned, any kernel may
come up) and `manual-unsafe` (nothing staged). The layout `skip`, chosen when
the operator turns boot handling off, issues no command and records nothing and is left out.

`StockVer` is the version of the distribution kernel. `resolve_menu_ref` looks
for exactly one entry containing a release string, and the release of the fork of the
same version contains the release of the stock kernel: then the stock
reference is ambiguous and staging is refused (`Resolves`).

What is abstracted: package and patch contents, the battery's individual
checks (one outcome, nondeterministic, on any kernel), the exit codes, other
packages of the queue (they only show as "the run may stop here").
The run lock is taken as given: one updater at a time, and `--sync` not during it.
`--commit --dry-run`, which the code lets run beside a build, is not in this module.

### `KernelLifecycle_proofs`
The proofs, see section 6.

### `KernelClaims`, `TemplateClaims`
One statement each of the comments, see section 5.

### `OverlayCommit`
The rest of a commit run: every package that is not the kernel.

| Variable | In the code |
|---|---|
| `mirror` | version of each template upstream; a binary of it is on the mirror |
| `tpl` | version in the `void-packages` checkout (`--sync` rebases it) |
| `repo` | version in `hostdir/binpkgs` (0: none): `repo_ver`, `show_local_updates` |
| `inst`, `origin` | per binary package: installed version, repository it came from |
| `run` | the running `cmd_commit`: step, build list left, deploy queue, `deploy_bins` |
| `journal` | `journal.json` of the newest run: phase, packages `building` and `built` |

`TermL`, `TermM`, `TermP`, `TermO`, `QBuild` and `QDeploy` are `build_queue` line
by line, without the kernel exemption `K`. There is no resume in the code; whatever
a crash leaves behind has to show up in one of the four terms, and this is what
`EmptyQueueIsConverged`, `BuiltIsPickedUp` and `Converges` are about. The user upgrading
by hand (`UserUpgrade`), a transaction that stops half-way (`UpgradeBroken`) and a crash
at any step (`Crash`; a build that just finished may or may not have landed) are in.

Abstractions: the build order is any order, and the second pass over a cycle is not
repeated (`BuildOrder` has both); versions are numbers; a build takes the checkout's version; preflight, snapshot,
indexing, Flatpak and the services are ways to `Fail` or have no effect on these variables.
`Offer` takes the overlay's package if there is one: its repositories
are registered in front of the mirror, in `00-cachy-overlay.conf` and on the command line.
A journal write that raises ends the run with nothing more written, which is `Crash`.

### `BuildOrder`
`topo_order` and everything under it, one action per turn of a loop: the sorter's
answer and whether it is trusted; the iterative Tarjan with its explicit call stack (`work`, `Root`,
`Descend`, `Scan`, `Return`); the seed rule; Kahn's algorithm over the components. The
graph is an input: `Init` takes any of `Graphs`. The reference definition is not an
algorithm: m reaches n if no set closed under the edges separates them (`Reaches`).
The mapping of dependency names to templates is left out.

### `RunLock`
`run_lock`, `read_lock_holder` and the places of `main` that take the lock.

| Variable | In the code |
|---|---|
| `pc` | where each process is: opened, locked and truncating, writing the label, at work, refused |
| `file`, `flock`, `label` | `update.lock`: existence, holder of the flock, the process named in it |
| `child` | runs whose `xbps-src`, `git` or `xbps-install` is alive |
| `night` | whether the service is at its `--sync` or at its `--commit` |
| `unsigned` | history: processes at work that could not write their label |

Opening, locking, truncating and writing are four steps, and a kill can come between
any two. A preview takes the lock if it can and goes on if it cannot. A child does not
inherit the descriptor (Python marks it close-on-exec), so it does not keep the lock of a killed run.
The label is a courtesy (`cachy_void_update.py:2566`): any error of its truncation, write or sync is swallowed and the run works. `Clear` may
leave the last holder's label, `Sign` an empty or a cut one (`Torn`). `WorkerIsNamed` therefore says that the working run holds the flock and that
the label names it unless *its own* write failed; nothing another process does, left behind or failed at makes it name another.
`LockOpens = FALSE` is the read-only state directory, where the code runs unlocked on purpose.

### `TemplateSynthesis`
From the bump to the built package: `_kernel_synthesis` with `trust.py` and `template.py`, `--pin-bore`, and what a commit
run does with the fork afterwards.

| Variable | In the code |
|---|---|
| `lock` | `bore.lock`: does it parse, and the artifact pinned for the tracked series |
| `tree` | version of `srcpkgs/linux<series>/template`; 0: the series is gone |
| `fork` | `srcpkgs/linux-cachy`: does the directory exist, version of its template, its `patches/0001-bore.patch` |
| `links` | the `srcpkgs/linux-cachy-*` siblings: missing, ours, or a real directory in the way |
| `ks`, `repo` | frozen or not, and the version acted on; the built version |
| `proc` | a commit run, previews and `--pin-bore`: step, the artifact it compares with, what it will put in place |
| `env` | `calm`: series pinned, no I/O error, upstream serves the pin, the checks pass; `rough`: nothing of that |
| `vouched` | history: artifacts a human approved |

An artifact is a model value told apart by its hash. The cached patch lies *in* the live fork, so the fetch, the pin and the swap
of three unsynchronised processes meet in one directory: the file is opened and truncated (`OpenCache`) and written
(`WriteCache`) in two steps; a swap in between carries the opened file away (`hold`). The swap is two renames (`MoveAway`,
`PlaceNew`), and a kill can come between any two steps. `Freeze` and `Work` stand for the seven state names of
`_record_kernel_state`: five withhold the kernel until acknowledged, the others do not.

Abstracted: what the text edits of the template do (they end in a checked private directory, or in a refusal), how the patch is found
upstream (any artifact may be proposed), the G2 gate and the compiler (a torn patch may pass both or fail either). One series is
tracked at a time; `SwitchSeries` is the human moving on.

### `AtomicFile`, `StateStore`
`AtomicFile` is three actions over two variables: what a reader finds, and what a power cut may leave. `StateStore` is
`KernelStateStore.load`/`save` over `write_json_atomic` by several `Writers` without a lock between them, as the
updater, the acknowledgement and the health daemon are: load and change, `mkstemp`, write and sync, rename, directory sync.
A file's contents is the number of each writer's changes it shows, and
whether its bytes are all there. Any step may fail (`GiveUp`), `sweep_tmp` of a starting run takes any of the live temporary files
(`Sweep`), a writer may be killed, and a power cut goes back to anything renamed since the last directory sync. The
*unlocked* read-modify-write loses updates, as it must: `NothingLostAlone` says that this, and a directory sync that
failed unnoticed before a power cut, are the only ways to lose one.

### `RunRecords`
The run directories and the pre-deploy snapshots. Both are named by the run's UTC stamp and "newest" means greatest name, so the
clock, ticking and set back, is part of the module.

| Variable | In the code |
|---|---|
| `clock` | `time.gmtime`, in units that tell two runs apart |
| `config` | `[snapshot] enable` and `keep` |
| `dirs` | `run-<stamp>`: absent, without a journal, or its journal's phase (`open` for all that are not an end) |
| `snaps` | `deploy-<stamp>` |
| `run` | the run that holds the lock: step, whether it is on the queue's path or the system update's, its stamp |
| `last`, `inOrder` | histories: what became of the last run with a directory; was its stamp the newest name |

A run that fails before its journal is opened leaves no record (`EndUnrecorded`); a full disk may leave a directory without a
journal; a prune removes any part of what it should. `KeepLogs` stands for 20.

### `NightlySchedule`
The runit script, the conf, the veto. The script reads the conf (`armed`) and turns into `snooze`; the run it turns into has that scope,
whatever the conf says by then. `schedule_facts` and `--skip-kernel-tonight` read the conf as it is. `veto` is the expiry in
`skip-kernel`; it is read and spent in `main` before the lock is asked for. The other variables are histories of what was
asked and what was built. The day and the two hours of grace are constants, and the hours a set of times of day, so that a pattern
(`SNOOZE_HOUR="*/6"`) is a set with more than one element.
`SCHEDULE_KERNEL` has two readers: the script's `case` takes `no|NO|false|0` for no kernel (`Builds`), `schedule_facts` and
`scheduled_run_line` lower the case first (`SaysBuilds`). `"no"` stands for the spellings both know, `"No"` for the other capitals.

### The proof modules
`KernelLifecycle_proofs`, `OverlayCommit_proofs`, `RunLock_proofs`, `TemplateSynthesis_proofs`, `StateStore_proofs`, `BuildOrder_proofs`,
`RunRecords_proofs`, `NightlySchedule_proofs`: section 6.

## 4. Passing runs

| Run | Shows |
|---|---|
| `kernel_oneshot` | `TypeOK`, `FallbackProven`, `DefaultProven`, `TrialIsPinned`, `InstalledGated`, `RerunKeepsStaged`, and that the kernel path implements `BootTrial`, with every failure above enabled |
| `kernel_live` | `TrialDecided`, under the fairness of section 4.2 |
| `overlay_commit` | `TypeOK`; an empty queue means converged; a crashed run's builds are in the next queue; the journal never names something that is not in the repository; `Converges` |
| `build_order` | components, order, second pass and refusals of the fallback are right for every graph given; nothing is dropped whoever sorted (of the external sorter's answer the code, and the model, check only that it is a permutation of the queue); `Terminates`: every turn of the two loops brings down what is left to do |
| `run_lock` | one run works at a time, holds the lock and is the one the label names, unless it could not write its label; no ghost lock; the lock is freed again and again |
| `template_synthesis` | `OnlyVouched`: nothing a human did not approve is in the live fork; `CrashNeedsNoHuman`: kills alone never freeze the kernel path; `EveryBumpIsBuilt`: after the last kill the runs port and build what upstream has |
| `state_store` | nothing is lost but to an overlapping save (or a directory sync that failed and a power cut); the store implements `AtomicFile`, so no reader and no power cut ever finds half a file, even when a sweep takes a live temporary one |
| `run_records` | `RecordsTellTheLastRun`: what `--status`, the tray and the crash report say is about the last run; `DeployHasNet`: the pruning never takes the snapshot a deploy is owed |
| `nightly_schedule` | `VetoIsKept`, `VetoNeverPermanent` and `ScopeObeyedAfterOneRun`, with the conf edited, the service paused and the machine off at any time |

### 4.1 Bounds
* `MaxVer = 2`: a candidate on trial and a bump over it are the richest situation the
  code distinguishes (it compares versions two at a time and keeps one
  candidate). `MaxVer = 3` passes too (10.2 million states, run by hand, too slow to keep).
* `TripAfter = 2`: the count below, at and past the threshold. The code's default is 3.
* `StockVer = 0` in the runs: the box came with an older kernel. With
  `StockVer = 1` the ambiguous reference blocks the first staging; the theorems cover both.
* `DiskFaults`: `TRUE` where only safety is checked; `FALSE` in the liveness run, since
  a disk that fails every write forever prevents any verdict from being recorded.
* `overlay_commit`: two templates, one of them with a subpackage (divergence needs two binaries of one
  template, isolation a second template); two versions, since every term compares two.
* `build_order`: all dependency graphs on four packages in which the second may depend on itself (8192). Two cycles, a cycle
  hanging off another, cross edges into a closed component and a diamond all occur. Four seed sets
  separate "this cycle", "another cycle" and "all".
* `run_lock`: one process of each kind, the nightly service twice in a row. The theorems are for any number.
* `template_synthesis`: two artifacts (the pinned one and another), two versions (a port over an existing fork), no preview; with one
  preview beside (6.4 million states) and with three versions (0.3 million) it passes as well, run by hand. `claim_preview` has a preview,
  and the theorems are for any number of them.
* `state_store`: two writers, two changes each: a lost update needs one of each, the second shows that it is only lost once.
* `run_records`: four stamps with two directories and one snapshot kept, so that pruning, equal names and a set-back clock all occur
  in three consecutive runs; `keep` 0 and 1 together pass too (13.9 million states, by hand).
* `nightly_schedule`: a day of three units, a grace of one, seven units: two nights and the grace after them. One plain hour and one
  pattern of two. The clock is not set back in this module. All three spellings of `SCHEDULE_KERNEL`; `claim_scope` has only the
documented `yes` and `no`, so that what it shows is the conf that was read a day ago and not the two readers.
* The external boot mode of `KernelLifecycle` (a foreign loader boots what it likes) is covered by the theorems, which are for every `Mode`.

### 4.2 Fairness
`FairSpec` assumes weak fairness of the daemon's steps, because runit starts the
service at boot and restarts it whenever it exits and no step waits for another
process; and strong fairness of `JudgeTrial`, because the settle time is finite:
a daemon killed again and again is not killed in *every* settle period for ever.
Nothing is assumed of the updater, the operator or the machine: a power cut at any
time is allowed, which is why `TrialDecided` has the disjunct `running = None`.
No bound in a guard can disable a fair action.

`OverlayCommit!FairSpec`: weak fairness of `Start` and strong fairness of `Sync`, of each build, of the
transaction, the takeover and `Finish`: the nightly service comes back every night, and no step fails or is cut every time for ever.
`Publish` stops at `MaxVer`, that is, upstream stands still at some point; without that nothing converges.
`RunLock!FairSpec`: weak fairness of a process's own next system call and of the end of a child; strong
fairness of `Finish`, because a run's list of commands is finite.

`TemplateSynthesis!FairSpec`: weak fairness of the steps of a commit run: it is started every night and goes on unless it is killed.
`EveryBumpIsBuilt` therefore has the disjunct that commit runs are killed for ever, and speaks of the calm environment only: a
series without a pin, or a disk that is full every night, waits for a human by design. Nothing is assumed of `Sync` or of the outside.
`StateStore`, `RunRecords` and `NightlySchedule` state safety only.

## 5. Where the code and its documents disagree

Each is a run that must find a violation, of the one statement it checks.

| Run | Story |
|---|---|
| `claim_freeze` | `cachy_void_update.py:2973` says a frozen kernel path is withheld from the queue. The test looks at the build list; a fork that was built before the freeze sits only in the deploy list and is deployed and staged. |
| `claim_preview` | `cachy_void_update.py:4383`: "`--dry-run` prints the queue and mutates nothing", which is why it may run beside a build. `cmd_commit` runs `_kernel_synthesis` before it looks at `dry_run`: the preview records states, fetches into the fork and swaps in a new one. |
| `claim_scope` | `system/sv/cachy-void-update/conf:23`: `--status` and the window "say which mode is in force". They read the conf; the run that is waiting has read it a day ago and builds the kernel once more. |

Further disagreements the models show, which have no run of their own. In the kernel path:
* `health_daemon.py:274-275` says that after a failed GRUB write the next boot retries the promotion. The one-shot is consumed and the
  default is still the old kernel, so that boot comes up on the old kernel and the verdict is `ROLLED_BACK`;
* `cachy_void_update.py:2962-2964`: the Update button promises to leave the kernel alone. `_deploy` is one `xbps-install -Suy` over all
  overlay repositories, and upgrades an installed `linux-cachy` whose newer build is waiting;
* `architecture.md:1467` gives `--kernel-ack` as the way out of the frozen states; a promotion writes the copy loaded before the trial
  and turns a freeze recorded meanwhile into `TRACKING`;
* `health_daemon.py:8-11` says that after promotion repeated failures fire an active rollback; the trip asks
  `_candidate_in_trial`, which is false after promotion: it warns and goes on;
* the watchdog of the *old* kernel judges a candidate the updater has just staged (the trip
  reads the record, not which kernel was sampled);
* `architecture.md:1463` has a bump discard a staged candidate; its one-shot stays armed until the next boot;
* `architecture.md:1470` has no re-entry during a trial; `_kernel_synthesis` overwrites `CONFIRMING`;
* an acknowledgement answered late writes back an older copy and reverts a promotion (`cachy_void_update.py:1563`);
* before the first staging nothing is pinned, so a first staging that was refused leaves
  the newest kernel, the unproven fork, as what an unattended boot loads (`grub.py:516`);
* a substring reference that became ambiguous blocks staging and `--rollback` (`template.py:215-221` keeps the
  version string free of further marks).

In synthesis and trust:
* `template.py:173`, "a failure leaves any existing fork untouched": when the second rename fails the old fork is already in the
  private directory and is removed with it; when a subpackage link is refused the new fork is already in place;
* an unreachable upstream is recorded as `HALT_HASH_MISMATCH`, which asks the human about tampering (`cachy_void_update.py:495-496`);
* a commit that reads `bore.lock` while `--pin-bore` is appending finds it invalid and freezes, and so does one whose fork is
  swapped by a preview (`AppendPin`, `PlaceNew`);
* the private directories of killed runs (`.synth-*`) are never swept.

In the lock, the records and the schedule:
* `cachy_void_update.py:2489-2491`: a front end sees the lock "without taking the lock". `read_lock_holder` takes the exclusive flock
  to find out; a run that starts at that instant is refused, and for the nightly service that is the night;
* the label of a run whose write failed (a full disk, an I/O error) is empty, cut short or the last holder's: a refused run then reports
  "another run", or a process that is gone. The comment at `cachy_void_update.py:2566` accepts it;
* `cachy_void_update.py:2596`: "only one run may build or deploy at a time". After `sv down` the lock is free, but the killed run's
  `xbps-src` goes on until it next writes to the closed pipe;
* a stamp that is not the newest name is pruned at once: after the clock was set back, the run's own directory (its next journal
  write raises; on the system update's path only after the deploy) and its own snapshot. `keep = 0` deletes the fresh snapshot always;
* under `auto`, a `findmnt` that fails reads as "not btrfs", and the deploy goes without its net;
* runs that fail before their journal is opened leave no record; logs are kept for 20 runs, snapshots may live longer, and then have no
  annotation;
* the journal write in the handler of a failed build raises on a full disk, before the freeze is recorded (`cachy_void_update.py:3051`);
* with `SCHEDULE_KERNEL=No`, `False` or `FALSE`, `--status` and the window say userspace only (`cachy_void_update.py:973-976`, `2662-2665`) and
  `--skip-kernel-tonight` refuses, while every night builds the kernel (`system/sv/cachy-void-update/run:44-47`). `ScopeObeyedAfterOneRun`
  speaks of the spellings the script knows;
* a refused run says "nothing was changed", but a scheduled one has already spent the veto; with a pattern as the hour the veto lasts two
  hours and may not reach the run it promises to spare; a request made during tonight's sync is spent by tonight's run, and a sync of
  more than two hours outlasts it.

## 6. Proofs

`KernelLifecycle_proofs` proves, for every `MaxVer`, `StockVer`, `Mode`,
`TripAfter` and `DiskFaults` allowed by the named assumptions of the module:

| Theorem | Statement |
|---|---|
| `TypeCorrect` | `Spec => []TypeOK` |
| `FallbackIsProven` | `Spec => []FallbackProven` |
| `DefaultIsProven` | `Spec => []DefaultProven` |
| `TrialHasFallback` | `Spec => []TrialIsPinned` |
| `GateIsNeverSkipped` | `Spec => []InstalledGated` |
| `Refinement` | `Spec => ImplementsBootTrial` |
| `RerunIsIdempotent` | `Spec => RerunKeepsStaged` |

**The inductive invariant.** None of the safety properties is inductive. `IInv` adds
to `TypeOK`, `FallbackProven`, `DefaultProven` and `TrialIsPinned`:
* `UpdaterInv`: what a commit run holds in hand. Between preparing and recording,
  the fallback it will pin is proven; once it is armed, the default is already pinned;
  a run past the gate builds a template that is gated.
* `DaemonInv`: what the daemon holds. The candidate of the copy loaded before the trial is the
  running kernel, and past the verdict it is proven. This is what makes the write-back
  of an old copy harmless to the fallback.
* `AckInv`: the copy held across the prompt names proven kernels. `proven` only grows, so the copy never goes bad.
* `GateInv`: whatever was built, installed or is in `/boot` went through the gate.

`Init => IInv` is one lemma; `IInv /\ [Next]_vars => IInv'` (`NextIInv`) has one step
per action, with the local states of the three processes typed by lemmas of their own.

**The refinement** maps the initial state (`PromiseInit`) and every step
(`PromiseNext`): `JudgeTrial` proves a kernel or stutters, `PinFallback`, `PromoteGrub`, `Rollback`
and `WatchdogRollback` pin, `ArmOneShot` arms, the two boots boot, everything else stutters. `IInv`
supplies that what is pinned is proven and that what is armed has a proven default beneath it.

**The rerun theorem** needs two more invariants: `VersionInv` (versions only
trickle down: installed and staged at most built, built less than the template while a build is
pending, the template at most what upstream offers) and `NewerInv` (from detection to
the end of the regeneration upstream offers something newer than a staged candidate), because the
property is about a run at any of its steps, not only at the comparison in `acted_version`.

`OverlayCommit_proofs`, for every set of templates and binary packages, every `SrcOf` and `MaxVer`:

| Theorem | Statement |
|---|---|
| `TypeCorrect` | `Spec => []TypeOK` |
| `JournalWitnesses` | `Spec => []JournalIsTrue` |
| `QueueIsComplete` | `Spec => []EmptyQueueIsConverged` |
| `CrashIsPickedUp` | `Spec => []BuiltIsPickedUp` |

The inductive invariant is `TypeOK /\ VersionOrder /\ JournalIsTrue`. `VersionOrder` says that nothing is newer than its source
(installed at most what the mirror has, built at most the checkout, the checkout at most the mirror); it is what rules out the
one gap in the terms, an installed package newer than the overlay's build of a current checkout.
`OutsidePO` is the lemma both last theorems rest on: a template outside `P` and `O` has all its binary packages either
newer than the repository or taken over.

`RunLock_proofs`, for any number of manual runs, previews and probes, with `LockOpens` either way:

| Theorem | Statement |
|---|---|
| `TypeCorrect` | `Spec => []TypeOK` |
| `OneRunAtATime` | `Spec => []OneRunWorks` |
| `HolderIsNamed` | `Spec => []WorkerIsNamed` |
| `CrashFreesLock` | `Spec => []NoGhostLock` |

`OneRunWorks` follows from `WorkerIsNamed` (two workers would both hold the flock). That is inductive together with who may be at which step
(`Kinds`), what a process between the lock and the label holds (`Holder`; a process that failed to sign is in `unsigned` from then until it ends), and that the file stays
once it was opened (`OpenedFile`).

`TemplateSynthesis_proofs`, for any set of artifacts, any `MaxVer` and any set of previews:

| Theorem | Statement |
|---|---|
| `TypeCorrect` | `Spec => []TypeOK` |
| `OnlyVouchedHolds` | `Spec => []OnlyVouched` |
| `CrashesMend` | `Previews = {}` implies `Spec => []CrashNeedsNoHuman` |

`OnlyVouched` needs the chain the artifact comes along (`Chain`): the pinned artifact is vouched for; so is the one a process fetches,
accepts, writes or appends, which is the pin it read or the proposal a human approved; and so is a patch a process has read back and will
put in place. The opened cache file is torn, not an artifact, so it does not break the chain, whoever reads it. `vouched` only grows.

`CrashesMend` needs `CalmMends`: while the environment is calm, a fork with a template carries the pinned patch (a patch cut short is only
ever found where no template is, and is fetched again), the commit run holds the pin and puts nothing else in place, and no link is in
its way. The hypothesis is needed: a preview that swaps the fork while a commit run looks at it can freeze the state, and
TLC shows it for one preview.

`StateStore_proofs`, for any set of writers and any `MaxSaves`:

| Theorem | Statement |
|---|---|
| `TypeCorrect` | `Spec => []TypeOK` |
| `NothingLostAloneHolds` | `Spec => []NothingLostAlone` |
| `Refinement` | `Spec => ImplementsAtomicFile` |

`TypeOK` holds half of the promise (no name refers to torn bytes) and is inductive with `SyncedIsWhole`: a writer past its sync has a
whole temporary file or none. `NothingLostAlone` needs `OneAtATime`: as long as no saves overlapped, at most one writer is inside a save
and its copy shows all that was acknowledged, and once it has renamed, the file is its copy. In the refinement a rename is a `Save`, a directory sync
a `Settle`, a power cut a `Cut`, and everything else stutters.

`BuildOrder_proofs`, for every finite queue, every graph on it, every set of seeds and whatever the sorter prints:

| Theorem | Statement |
|---|---|
| `TypeCorrect` | `Spec => []TypeOK` |
| `ClassesClosed` | `Spec => []ComponentsAreReal` |
| `RefusalIsRight` | `Spec => []RefusedIfSeedless` |
| `NothingDropped` | `Spec => []OrderIsPermutation` |
| `NeedsAreBuilt` | `Spec => []BuiltAfterItsNeeds` |
| `OrderIsFound` | `Spec => Terminates` |

This is a full correctness proof of `_fallback_order`, termination included; reachability is the closed-set definition of the model throughout, so no
induction over paths occurs. The inductive invariant has two halves.

*Tarjan* (`TarjanInv`). Packages are numbered as they are met (`Numbering`); what is met is either on the stack or closed, and the
stack is in the order of the numbers (`Partition`); the open calls lie on the stack in that order (`CallsOpen`). Below a call's next call, everything
met since reaches the call and is reached by it (`CallsReach`); its link is the number of an open package it reaches
(`LinksReach`); and every edge that has been looked at leads to something met, and if that is still open the link tells
(`EdgesSeen`). When a call ends with its link at its own number, what lies above it on the stack therefore reaches it, is reached by
it, and has no edge to anything else that is open: it is one more class, and edges leave it only to earlier ones (`Components`). When
the link is older, the caller takes over all three facts.

*Kahn* (`KahnInv`). The emitted components are closed under "waits for"; each counter is the number of components still to come
before its own and the frontier is exactly those that wait for none (`Counting`); the order holds the emitted components whole, each package once,
in an order their edges allow (`Emission`), and the second pass repeats the cyclic ones in the same order
(`SecondPass`). That the loop does not stop short (`NothingLeft`) comes from Tarjan's half: among the components left the last one
closed waits for none, since edges between classes lead to ones closed before. `CycleMembers` ties the code's test for a cycle
(more than one member, or a self-loop) to reachability, and `SortedExists` shows that the sorted list of a component exists.

*Termination*. `Terminates` is the safe half of a liveness property: the phases only go forward, and within one a natural number goes
down. For Tarjan it is the edges still to look at, plus twice the packages still to meet, plus the open calls (`ToMeet`); for Kahn the
components still to emit. An edge taken off a call's list is not looked at again since a package has one call (`CallsOpen`). The lemma
`EveryTurn` says it of each turn without the `[...]_vars`, so no turn can repeat a state either. That the loops are then
run to their end is the machine's scheduling, which the model does not state.

`RunRecords_proofs`, for any number of logs kept, any values of `keep` and any `MaxClock`:

| Theorem | Statement |
|---|---|
| `TypeCorrect` | `Spec => []TypeOK` |
| `RecordsTell` | `Spec => []RecordsTellTheLastRun` |
| `DeployIsNetted` | `Spec => []DeployHasNet` |

The invariant adds that, while stamps come in order, the stamp of the running run is the newest name of all directories and
snapshots (`RunIsNewest`), between runs the newest directory is the last run's and its journal says how that ended (`LastIsNewest`), and
from the snapshot to the deploy the run's own snapshot is there if it is owed (`NetIsUnder`): a prune that keeps anything keeps
the greatest name.

`NightlySchedule_proofs`, for any length of the day, any grace, any set of hours and of spellings:

| Theorem | Statement |
|---|---|
| `TypeCorrect` | `Spec => []TypeOK` |
| `RequestIsKept` | `Spec => []VetoIsKept` |
| `RequestIsOneShot` | `Spec => []VetoNeverPermanent` |
| `ScopeObeyed` | `Spec => []ScopeObeyedAfterOneRun` |

The invariant adds `AskedHasVeto`: every request that is still open has its veto on disk, in force until `Grace` past the run it named.
`SparedIsSpent` and `DefiedIsLast` say that a run that was spared has spent the file (unless it resisted), and that after a run that defied
the conf the script has read the conf as it is. The lemmas under it are about the clock: an hour of the set comes round within a day
(`ComesRound`), so the run the command names is less than a day away (`NextRunWithinADay`).

Each invariant was given to TLC on the small instances before it was proved. Where a fact about numbers needs induction (a set of
numbers has a least element), it is taken from the well-founded order of the naturals in its set form (`WFMin`), and
greatest elements and sorted lists from that and the theorems on cardinality.

What the proofs changed in the models: `RunRecords` now assumes `MaxClock > 0`, which `Init` had taken for granted; `BuildOrder`
assumes `SeedSets \subseteq SUBSET Q` and defines the sorted list (`Sorted`) in place of a library operator that has no definition a proof can use.

**Only model-checked**: `TrialDecided`, `Converges`, `LockIsFreed`, `EveryBumpIsBuilt` (liveness under fairness is out of the
prover's reach) and the violations of section 5. Every other property of a passing run is a theorem.

## 7. Not modelled
* The front ends, the provisioning scripts, branding and the desktop trial: rows 11 and 12 of the plan.
* Reports (`status`, `check`, `pending`, `clean`, `gpu`), the snapshot inventory, launchers (`cachy-game`, `cachy-proton`), theme
  contents and tuning files: listings, wrappers and data with no state of their own.
* The march detection and the text edits of `template.py`, the upstream layout rules of `trust.py`, the output parsing of
  `xbps.py`: pure functions over text, whose substance is the text.
* Service cycling, Flatpak and the disk preflight of a run: ways for it to end, with no effect on what is modelled.
* External commands are modelled by how the code uses them: `xbps-install` upgrades every installed package or
  fails, GRUB consumes the one-shot.
