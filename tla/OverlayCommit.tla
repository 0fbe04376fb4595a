---------------------------- MODULE OverlayCommit ----------------------------
(***************************************************************************)
(* The userspace side of a commit run: the queue computed from live        *)
(* queries, the build loop, the one upgrade transaction, the same-version  *)
(* takeover, the verification, and the journal that only ever watches.     *)
(*                                                                         *)
(* There is no resume: after a crash the next run recomputes its queue,    *)
(* and its terms L, M, P and O must find every package that was left       *)
(* half-way.  Packages are templates (srcpkgs) whose binary packages       *)
(* (binpkgs) are installed; linux-cachy, the one package the overlay       *)
(* introduces, is the subject of KernelLifecycle.                          *)
(***************************************************************************)
EXTENDS Integers

CONSTANTS
  Src,        \* targets of the overlay that are not blacklisted
  Bins,       \* binary packages those templates produce
  SrcOf,      \* srcpkg_of: the template of a binary package
  MaxVer      \* versions upstream publishes (bound)

ASSUME SrcOfAssumption  == SrcOf \in [Bins -> Src]
ASSUME MaxVerAssumption == MaxVer \in Nat \ {0}

Versions == 1..MaxVer

VARIABLES
  mirror,   \* version of each template the distribution's mirror offers
  tpl,      \* version in the void-packages checkout
  repo,     \* version in the local overlay repository, 0 = never built
  inst,     \* installed version of each binary package, 0 = not installed
  origin,   \* repository an installed binary package came from
  run,      \* the commit run in progress
  journal   \* journal.json of the newest run

vars == <<mirror, tpl, repo, inst, origin, run, journal>>
live == <<mirror, tpl, repo, inst, origin>>

Steps    == {"idle", "build", "upgrade", "takeover", "verify"}
Run      == [pc : Steps, left : SUBSET Src, deploy : SUBSET Src, bins : SUBSET Bins]
NoRun    == [pc |-> "idle", left |-> {}, deploy |-> {}, bins |-> {}]
Journal  == [phase : {"none", "build", "deploy", "done", "failed"},
             building : SUBSET Src, built : SUBSET Src]

\* A stock Void system after deploy.sh: some targets installed, from the
\* mirror, nothing built yet.
Init ==
  /\ mirror = [s \in Src |-> 1] /\ tpl = mirror
  /\ repo = [s \in Src |-> 0]
  /\ inst \in [Bins -> 0..1]
  /\ origin = [b \in Bins |-> "mirror"]
  /\ run = NoRun
  /\ journal = [phase |-> "none", building |-> {}, built |-> {}]

-----------------------------------------------------------------------------
(* The queue algebra (ddre.build_queue).                                   *)

Installed(s) == {b \in Bins : SrcOf[b] = s /\ inst[b] # 0}
InstalledSrc == {s \in Src : Installed(s) # {}}
InstVers(s)  == {inst[b] : b \in Installed(s)}
Diverged(s)  == \E v, w \in InstVers(s) : v # w

\* L: the template outranks the local repository.  M: no binary anywhere.
TermL == {s \in Src : repo[s] # 0 /\ repo[s] < tpl[s]}
TermM == {s \in Src : repo[s] = 0}

\* Mutant: the versions of the binary packages are compared by their maximum only.
TermP_MaxOnly ==
  {s \in InstalledSrc : repo[s] # 0 /\ \A v \in InstVers(s) : v < repo[s]}

\* P: diverged binary packages, or built and never deployed.
TermP == {s \in InstalledSrc :
            repo[s] # 0 /\ (Diverged(s) \/ \E v \in InstVers(s) : v < repo[s])}

\* Mutant: one binary package taken over is enough.
TermO_AllBins ==
  {s \in InstalledSrc :
     InstVers(s) = {repo[s]} /\ \A b \in Installed(s) : origin[b] # "overlay"}

\* O: at the repository's version but still from somewhere else.
TermO == {s \in InstalledSrc :
            InstVers(s) = {repo[s]} /\ \E b \in Installed(s) : origin[b] # "overlay"}

QBuild  == (TermL \cup TermM) \cap InstalledSrc

\* Mutant: only what is to be built is deployed.
QDeploy_BuildOnly == QBuild

QDeploy == QBuild \cup TermP \cup TermO

-----------------------------------------------------------------------------
(* The world: the distribution, the checkout, and the user's own upgrades. *)

Publish ==
  /\ \E s \in Src : mirror[s] < MaxVer /\ mirror' = [mirror EXCEPT ![s] = @ + 1]
  /\ UNCHANGED <<tpl, repo, inst, origin, run, journal>>

\* Mutant: --sync does not take the run lock.
Sync_NoLock ==
  /\ tpl' = mirror
  /\ UNCHANGED <<mirror, repo, inst, origin, run, journal>>

\* --sync, under the run lock: the checkout is rebased onto upstream.  A
\* failing fetch or rebase leaves it where it was.
Sync ==
  /\ run.pc = "idle"
  /\ tpl' = mirror
  /\ UNCHANGED <<mirror, repo, inst, origin, run, journal>>

\* What an upgrade would install: the overlay is registered ahead of the
\* mirror, so a package it carries comes from it.
Offer(b) == IF repo[SrcOf[b]] # 0 THEN repo[SrcOf[b]] ELSE mirror[SrcOf[b]]
Upgradable == {b \in Bins : inst[b] # 0 /\ inst[b] < Offer(b)}

\* xbps-install -Su gets through the packages in done.
Unpack(done) ==
  /\ inst'   = [b \in Bins |-> IF b \in done THEN Offer(b) ELSE inst[b]]
  /\ origin' = [b \in Bins |-> IF b \in done
                               THEN IF repo[SrcOf[b]] # 0 THEN "overlay" ELSE "mirror"
                               ELSE origin[b]]

\* The user upgrades the system by hand, and may be interrupted.
UserUpgrade ==
  /\ Upgradable # {}
  /\ \E done \in SUBSET Upgradable : done # {} /\ Unpack(done)
  /\ UNCHANGED <<mirror, tpl, repo, run, journal>>

-----------------------------------------------------------------------------
(* The run (cmd_commit): one action per build, transaction or verdict, with *)
(* the journal writes that accompany it.                                   *)

\* A run starts.  With an empty queue it is the upstream pass
\* (_system_update), which journals its own deploy phase.
Start ==
  /\ run.pc = "idle"
  /\ run' = [pc |-> IF QBuild # {} THEN "build" ELSE "upgrade",
             left |-> QBuild, deploy |-> QDeploy,
             bins |-> IF QBuild = {} THEN {b \in Bins : inst[b] # 0 /\ SrcOf[b] \in QDeploy}
                                     ELSE {}]
  /\ journal' = [phase |-> IF QBuild # {} THEN "build" ELSE "deploy",
                 building |-> {}, built |-> {}]
  /\ UNCHANGED live

\* journal "building", then xbps-src pkg.
BeginBuild(s) ==
  /\ run.pc = "build" /\ s \in run.left /\ journal.building = {}
  /\ journal' = [journal EXCEPT !.building = {s}]
  /\ UNCHANGED <<live, run>>

\* Mutant: the build bumps the template's revision.
Compile_Bumped(s) == repo' = [repo EXCEPT ![s] = tpl[s] + 1]

\* The package lands in the repository directory.
Compile(s) == repo' = [repo EXCEPT ![s] = tpl[s]]

\* The build succeeds and is journalled; after the last one come the snapshot,
\* the deploy phase and the list of the installed binary packages to deploy.
BuildOk(s) ==
  /\ run.pc = "build" /\ journal.building = {s}
  /\ Compile(s)
  /\ LET left == run.left \ {s}
     IN  /\ run' = [run EXCEPT !.left = left,
                               !.pc = IF left = {} THEN "upgrade" ELSE "build",
                               !.bins = IF left = {}
                                        THEN {b \in Bins : inst[b] # 0 /\ SrcOf[b] \in run.deploy}
                                        ELSE {}]
         /\ journal' = [phase |-> IF left = {} THEN "deploy" ELSE "build",
                        building |-> {}, built |-> journal.built \cup {s}]
  /\ UNCHANGED <<mirror, tpl, inst, origin>>

\* The run reports a failure: preflight, build, snapshot, index, transaction,
\* takeover or verification.
Fail ==
  /\ run.pc # "idle"
  /\ run' = NoRun
  /\ journal' = [journal EXCEPT !.phase = "failed", !.building = {}]
  /\ UNCHANGED live

\* Killed, power cut, or a journal write that failed: nothing more is
\* written, and a build that just finished may have landed.
Crash ==
  /\ run.pc # "idle"
  /\ run' = NoRun
  /\ \/ \E s \in journal.building : Compile(s)
     \/ UNCHANGED repo
  /\ UNCHANGED <<mirror, tpl, inst, origin, journal>>

\* The transaction is interrupted half-way.
UpgradeBroken ==
  /\ run.pc = "upgrade"
  /\ \E done \in SUBSET Upgradable : Unpack(done)
  /\ run' = NoRun
  /\ journal' \in {journal, [journal EXCEPT !.phase = "failed"]}
  /\ UNCHANGED <<mirror, tpl, repo>>

\* xbps-install -Suy succeeds.
UpgradeOk ==
  /\ run.pc = "upgrade"
  /\ Unpack(Upgradable)
  /\ run' = [run EXCEPT !.pc = "takeover"]
  /\ UNCHANGED <<mirror, tpl, repo, journal>>

\* xbps-install -f of a binary package that is not the overlay's yet.
Takeover(b) ==
  /\ run.pc = "takeover"
  /\ b \in run.bins /\ origin[b] # "overlay"
  /\ inst' = [inst EXCEPT ![b] = repo[SrcOf[b]]]
  /\ origin' = [origin EXCEPT ![b] = "overlay"]
  /\ UNCHANGED <<mirror, tpl, repo, run, journal>>

TakenOver ==
  /\ run.pc = "takeover"
  /\ \A b \in run.bins : origin[b] = "overlay"
  /\ run' = [run EXCEPT !.pc = "verify"]
  /\ UNCHANGED <<live, journal>>

\* _post_verify: every deployed package at the overlay's version and origin,
\* every deployed template at a single version.
Verified ==
  /\ \A b \in run.bins : origin[b] = "overlay" /\ inst[b] = repo[SrcOf[b]]
  /\ \A b \in run.bins : ~Diverged(SrcOf[b])

Finish ==
  /\ run.pc = "verify" /\ Verified
  /\ run' = NoRun
  /\ journal' = [journal EXCEPT !.phase = "done"]
  /\ UNCHANGED live

Deploying == UpgradeOk \/ (\E b \in Bins : Takeover(b)) \/ TakenOver \/ Finish

Next ==
  \/ Publish \/ Sync \/ UserUpgrade
  \/ Start \/ (\E s \in Src : BeginBuild(s) \/ BuildOk(s))
  \/ Deploying \/ UpgradeBroken \/ Fail \/ Crash

Spec == Init /\ [][Next]_vars

-----------------------------------------------------------------------------
(* Properties.                                                             *)

\* Every variable has its type: versions, origins, the run and its journal.
TypeOK ==
  /\ mirror \in [Src -> Versions] /\ tpl \in [Src -> Versions]
  /\ repo \in [Src -> 0..MaxVer] /\ inst \in [Bins -> 0..MaxVer]
  /\ origin \in [Bins -> {"mirror", "overlay"}]
  /\ run \in Run /\ journal \in Journal

\* A target is converged when every installed binary package of it is the
\* overlay's build of the checkout's version.
Converged(s) ==
  \A b \in Installed(s) : origin[b] = "overlay" /\ inst[b] = repo[s] /\ repo[s] = tpl[s]

\* An empty queue means nothing is left to do: whatever was interrupted, no
\* installed target with a current checkout is off the overlay unnoticed (the
\* orphan hole and the takeover hole of architecture.md section 7.3).
EmptyQueueIsConverged ==
  QDeploy = {} => \A s \in Src : tpl[s] = mirror[s] => Converged(s)

\* What the crash report promises of an interrupted build: the packages it
\* lists as built are picked up by the recomputed queue, unless the system
\* already has them.
BuiltIsPickedUp ==
  run.pc = "idle" /\ journal.phase = "build"
    => \A s \in journal.built \cap InstalledSrc :
         \/ s \in QDeploy
         \/ \A b \in Installed(s) :
              inst[b] > repo[s] \/ (origin[b] = "overlay" /\ inst[b] = repo[s])

\* The journal is a true witness: what it calls built is in the repository, at
\* the checkout's version while the run lasts.
JournalIsTrue ==
  /\ \A s \in journal.built : repo[s] # 0
  /\ run.pc # "idle" => \A s \in journal.built : repo[s] = tpl[s]

\* The nightly service keeps running sync and commit, and no step fails or is
\* interrupted for ever.
FairSpec ==
  /\ Spec
  /\ SF_vars(Sync) /\ WF_vars(Start)
  /\ SF_vars(\E s \in Src : BeginBuild(s)) /\ SF_vars(\E s \in Src : BuildOk(s))
  /\ SF_vars(UpgradeOk) /\ SF_vars(\E b \in Bins : Takeover(b))
  /\ SF_vars(TakenOver) /\ SF_vars(Finish)

\* Once upstream stands still, repeated runs bring every installed target onto
\* the overlay, for good: the queue is the resume mechanism.
Converges == <>[](\A s \in Src : Converged(s))
=============================================================================
