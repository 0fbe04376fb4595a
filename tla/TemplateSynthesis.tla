-------------------------- MODULE TemplateSynthesis --------------------------
(***************************************************************************)
(* How the linux-cachy template comes to be: a bump is noticed, the BORE   *)
(* patch pinned in bore.lock is taken from the cache or fetched and        *)
(* compared, the fork is regenerated from the upstream template in a       *)
(* private directory and swapped in, and a commit run builds it.           *)
(*                                                                         *)
(* The cache of the patch is a file inside the live fork                   *)
(* (srcpkgs/linux-cachy/patches/0001-bore.patch), so fetching, pinning and *)
(* swapping all touch one directory.  Three kinds of process do so: the    *)
(* commit run, which holds the run lock; previews (--commit --dry-run),    *)
(* which go on without it; and --pin-bore, which never asks for it.  Each  *)
(* may be killed between any two steps.                                    *)
(*                                                                         *)
(* One series is tracked; lock and tree say what bore.lock and the         *)
(* checkout hold for it.                                                   *)
(***************************************************************************)
EXTENDS Integers

CONSTANTS
  Artifacts,   \* patches the upstream repository may serve, told apart by their sha256
  MaxVer,      \* versions the series template reaches (bound)
  Previews     \* preview processes

None == "none"   \* no file, no pin, nothing in hand
Torn == "torn"   \* a file cut short: truncated, partly written, or out of space

ASSUME ArtifactsAssumption == Artifacts # {} /\ {None, Torn} \cap Artifacts = {}
ASSUME MaxVerAssumption    == MaxVer \in Nat \ {0}
ASSUME PreviewsAssumption  == Previews \cap {"commit", "pin"} = {}

Versions  == 1..MaxVer
Syncing   == {"commit"} \cup Previews        \* the processes of _kernel_synthesis
Procs     == Syncing \cup {"pin"}
Patches   == Artifacts \cup {Torn, None}

VARIABLES
  lock,     \* bore.lock: whether it parses, and the artifact pinned for the series
  tree,     \* version of srcpkgs/linux<series>/template, 0 = series gone
  fork,     \* srcpkgs/linux-cachy: exists, version of its template, cached patch
  links,    \* the siblings srcpkgs/linux-cachy-*: missing, ours, or a foreign directory
  ks,       \* kernel-state.json: frozen, acted_version
  repo,     \* version of the built linux-cachy, 0 = never built
  proc,     \* the processes: step and local variables
  env,      \* "calm": pinned, no I/O error, the pin is served, the checks pass
  vouched   \* history: the artifacts a human approved

vars == <<lock, tree, fork, links, ks, repo, proc, env, vouched>>

Steps == {"idle", "trust", "fetch", "open", "write", "read", "stage", "move",
          "place", "link", "queue", "gate", "build", "ask", "append", "appending"}

Lock    == [ok : BOOLEAN, pin : Artifacts \cup {None}]
Fork    == [dir : BOOLEAN, ver : 0..MaxVer, patch : Patches]
State   == [frozen : BOOLEAN, acted : 0..MaxVer]
Process == [pc : Steps, pin : Artifacts \cup {None}, patch : Patches,
            ver : 0..MaxVer, hold : BOOLEAN]

NoFork == [dir |-> FALSE, ver |-> 0, patch |-> None]

\* A process at a step, with the artifact it compares with and writes (it holds
\* the opened cache file), or with the patch and version it puts in place.
WithPin(pc, pin) ==
  [pc |-> pc, pin |-> pin, patch |-> None, ver |-> 0, hold |-> pc = "write"]
WithPatch(pc, patch, ver) ==
  [pc |-> pc, pin |-> None, patch |-> patch, ver |-> ver, hold |-> FALSE]
Starts(pc) == WithPatch(pc, None, 0)
Idle       == Starts("idle")

Rough == env = "rough"

\* A provisioned box: the series has a template, nothing was ported.
Init ==
  /\ env \in {"calm", "rough"}
  /\ lock \in [ok : {TRUE}, pin : Artifacts \cup {None}]
  /\ links \in {"none", "foreign"}
  /\ Rough \/ (lock.pin # None /\ links = "none")
  /\ tree = 1
  /\ fork = NoFork
  /\ ks = [frozen |-> FALSE, acted |-> 0]
  /\ repo = 0
  /\ proc = [p \in Procs |-> Idle]
  /\ vouched = {lock.pin} \ {None}

-----------------------------------------------------------------------------
(* The synthesis circuit: _kernel_synthesis, the same code in a commit run *)
(* and in a preview.                                                       *)

At(p, pc) == p \in Syncing /\ proc[p].pc = pc

\* The process goes on with its local variables changed.
Goes(p, new) == proc' = [proc EXCEPT ![p] = new]

\* _record_kernel_state: a frozen state withholds the kernel from the queue; a
\* working state (PATCH_VERIFY, REGENERATE, READY) overwrites whatever is there.
Freeze == ks' = [ks EXCEPT !.frozen = TRUE]
Work   == ks' = [ks EXCEPT !.frozen = FALSE]

\* The circuit gives up: the queue is computed from what is on disk.
GivesUp(p) == Goes(p, Starts("queue"))

\* Mutant: only a fork that is there is ported.
Bumped_Forked == fork.ver # 0 /\ tree > ks.acted

\* classify_bump: the template outranks what was acted on.
Bumped == tree > ks.acted

\* Load the state, read the series template, classify (section 8.2).  The
\* queries may fail, and the step is then skipped.
Classify(p) ==
  /\ At(p, "idle")
  /\ \/ /\ ks.frozen \/ Rough \/ (tree # 0 /\ ~Bumped)
        /\ GivesUp(p) /\ UNCHANGED ks
     \/ /\ ~ks.frozen /\ tree = 0
        /\ GivesUp(p) /\ Freeze
     \/ /\ ~ks.frozen /\ Bumped
        /\ Goes(p, Starts("trust")) /\ Work
  /\ UNCHANGED <<lock, tree, fork, links, repo, env, vouched>>

\* Mutant: a cached patch is trusted because it is there.
Reusable_Present(pin) == fork.patch # None

\* The cached patch has the pinned hash.
Reusable(pin) == fork.patch = pin

\* Mutant: a series without an entry is let through.
Pinned_Any == lock.ok

\* load_bore_lock parses the file and patch_for finds the series.
Pinned == lock.ok /\ lock.pin # None

\* Step 1 of ensure_trusted_patch.
Trust(p) ==
  /\ At(p, "trust")
  /\ \/ ~Pinned /\ GivesUp(p) /\ Freeze
     \/ /\ Pinned
        /\ Goes(p, IF Reusable(lock.pin) THEN Starts("read") ELSE WithPin("fetch", lock.pin))
        /\ UNCHANGED ks
     \/ Rough /\ GivesUp(p) /\ UNCHANGED ks
  /\ UNCHANGED <<lock, tree, fork, links, repo, env, vouched>>

\* Mutant: the hash is only checked where the cache is reused.
Accept_Anything(got, pin) == TRUE

\* The hash of what was fetched is the pinned one.
Accept(got, pin) == got = pin

\* Step 2: fetch at the pinned commit, into a clone beside the cache, and
\* compare.  Upstream may be out of reach, or have moved the file or been
\* tampered with, or another process may hold or swap away the clone: all freeze.
Fetch(p) ==
  /\ At(p, "fetch")
  /\ fork' = [fork EXCEPT !.dir = TRUE]
  /\ \/ \E got \in IF Rough THEN Artifacts ELSE {proc[p].pin} :
          IF Accept(got, proc[p].pin)
          THEN Goes(p, WithPin("open", got)) /\ UNCHANGED ks
          ELSE GivesUp(p) /\ Freeze
     \/ /\ Rough \/ \E q \in Procs \ {p} : proc[q].pc # "idle"
        /\ GivesUp(p) /\ Freeze
  /\ UNCHANGED <<lock, tree, links, repo, env, vouched>>

\* patch_path.write_bytes, first half: the parents are made, the file is
\* truncated.  --pin-bore seeds the cache the same way.
OpenCache(p) ==
  /\ proc[p].pc = "open"
  /\ \/ /\ fork' = [fork EXCEPT !.dir = TRUE, !.patch = Torn]
        /\ Goes(p, WithPin("write", proc[p].pin))
     \/ /\ Rough /\ UNCHANGED fork
        /\ IF p = "pin" THEN Goes(p, Idle) ELSE GivesUp(p)
  /\ UNCHANGED <<lock, tree, links, ks, repo, env, vouched>>

\* Second half: the bytes go into the opened file, which a swap may have
\* moved away meanwhile.  A full disk leaves it cut short.
WriteCache(p) ==
  /\ proc[p].pc = "write"
  /\ \/ /\ fork' = IF proc[p].hold THEN [fork EXCEPT !.patch = proc[p].pin] ELSE fork
        /\ Goes(p, IF p = "pin" THEN Idle ELSE Starts("read"))
     \/ /\ Rough /\ UNCHANGED fork
        /\ IF p = "pin" THEN Goes(p, Idle) ELSE GivesUp(p)
  /\ UNCHANGED <<lock, tree, links, ks, repo, env, vouched>>

\* The bytes are read back from the cache, whatever is there by now.
ReadCache(p) ==
  /\ At(p, "read")
  /\ \/ /\ fork.patch # None
        /\ Goes(p, WithPatch("stage", fork.patch, 0)) /\ Work
     \/ /\ Rough \/ fork.patch = None
        /\ GivesUp(p) /\ UNCHANGED ks
  /\ UNCHANGED <<lock, tree, fork, links, repo, env, vouched>>

\* synthesize up to the asserts, in a private directory: copy the upstream
\* package, rename, add patch and fragment, suffix the release, check.
Stage(p) ==
  /\ At(p, "stage")
  /\ \/ /\ tree # 0
        /\ Goes(p, WithPatch("move", proc[p].patch, tree))
        /\ UNCHANGED ks
     \/ /\ Rough \/ tree = 0 \/ proc[p].patch = Torn
        /\ GivesUp(p) /\ Freeze
  /\ UNCHANGED <<lock, tree, fork, links, repo, env, vouched>>

\* The old fork is renamed into the private directory.  A file another
\* process was writing in it goes with it.
MoveAway(p) ==
  /\ At(p, "move")
  /\ \/ /\ fork' = NoFork
        /\ proc' = [q \in Procs |->
                      IF q = p THEN WithPatch("place", proc[p].patch, proc[p].ver)
                      ELSE [proc[q] EXCEPT !.hold = FALSE]]
        /\ UNCHANGED ks
     \/ /\ Rough \/ \E q \in Syncing \ {p} : proc[q].pc = "place"
        /\ GivesUp(p) /\ Freeze /\ UNCHANGED fork
  /\ UNCHANGED <<lock, tree, links, repo, env, vouched>>

\* The new fork is renamed into place, which fails if a directory is there
\* again.  Failing, the private directory is removed, the old fork in it.
PlaceNew(p) ==
  /\ At(p, "place")
  /\ \/ /\ ~fork.dir
        /\ fork' = [dir |-> TRUE, ver |-> proc[p].ver, patch |-> proc[p].patch]
        /\ Goes(p, Starts("link"))
        /\ UNCHANGED ks
     \/ /\ Rough \/ fork.dir
        /\ GivesUp(p) /\ Freeze /\ UNCHANGED fork
  /\ UNCHANGED <<lock, tree, links, repo, env, vouched>>

\* _link_subpackages: a real directory of that name is refused.
LinkSubpackages(p) ==
  /\ At(p, "link")
  /\ GivesUp(p)
  /\ \/ links # "foreign" /\ links' = "ours" /\ Work
     \/ (Rough \/ links = "foreign") /\ UNCHANGED links /\ Freeze
  /\ UNCHANGED <<lock, tree, fork, repo, env, vouched>>

-----------------------------------------------------------------------------
(* The rest of a commit run that touches the fork.                         *)

\* Section 7.3, L and M: the template outranks the local repository.
Outdated == fork.ver > repo

\* The queue: a preview prints it, a commit run takes the kernel on unless the
\* state is frozen by now or the human declines.
Queue(p) ==
  /\ At(p, "queue")
  /\ \/ p = "commit" /\ Outdated /\ ~ks.frozen /\ Goes(p, Starts("gate"))
     \/ (p \in Previews \/ ~Outdated \/ ks.frozen \/ Rough) /\ Goes(p, Idle)
  /\ UNCHANGED <<lock, tree, fork, links, ks, repo, env, vouched>>

\* _g2_gate; a torn patch may or may not fail it.
Gate ==
  /\ proc["commit"].pc = "gate"
  /\ \/ fork.ver # 0 /\ Goes("commit", Starts("build")) /\ UNCHANGED ks
     \/ (Rough \/ fork.ver = 0 \/ fork.patch = Torn) /\ Goes("commit", Idle) /\ Freeze
  /\ UNCHANGED <<lock, tree, fork, links, repo, env, vouched>>

\* xbps-src pkg linux-cachy, from a clean tree: template and patches as they
\* are now.
Build ==
  /\ proc["commit"].pc = "build"
  /\ Goes("commit", Idle)
  /\ \/ /\ fork.ver # 0
        /\ repo' = fork.ver
        /\ UNCHANGED ks
     \/ /\ Rough \/ fork.ver = 0 \/ fork.patch = Torn
        /\ Freeze /\ UNCHANGED repo
  /\ UNCHANGED <<lock, tree, fork, links, env, vouched>>

-----------------------------------------------------------------------------
(* --pin-bore (section 8.3a).                                              *)

\* Locate the patch of the tracked series upstream and show it.  The clone
\* lives in the fork, which comes to exist.
Propose ==
  /\ proc["pin"].pc = "idle"
  /\ lock.ok /\ lock.pin = None
  /\ \E art \in Artifacts : Goes("pin", WithPin("ask", art))
  /\ fork' = [fork EXCEPT !.dir = TRUE]
  /\ UNCHANGED <<lock, tree, links, ks, repo, env, vouched>>

\* The human approves the proposal, or not.
Answer ==
  /\ proc["pin"].pc = "ask"
  /\ \/ /\ vouched' = vouched \cup {proc["pin"].pin}
        /\ Goes("pin", WithPin("append", proc["pin"].pin))
     \/ UNCHANGED vouched /\ Goes("pin", Idle)
  /\ UNCHANGED <<lock, tree, fork, links, ks, repo, env>>

\* append_pin loads the file again, refuses a duplicate and truncates it.
AppendPin ==
  /\ proc["pin"].pc = "append"
  /\ IF lock.ok /\ lock.pin = None
     THEN lock' = [lock EXCEPT !.ok = FALSE]
          /\ Goes("pin", WithPin("appending", proc["pin"].pin))
     ELSE UNCHANGED lock /\ Goes("pin", Idle)
  /\ UNCHANGED <<tree, fork, links, ks, repo, env, vouched>>

\* It writes the old text and the new entry, validates, and rolls a bad append
\* back; an I/O error leaves the file cut short.
FinishPin ==
  /\ proc["pin"].pc = "appending"
  /\ \/ /\ lock' = [ok |-> TRUE, pin |-> proc["pin"].pin]
        /\ Goes("pin", WithPin("open", proc["pin"].pin))
     \/ Rough /\ lock' \in {lock, [lock EXCEPT !.ok = TRUE]} /\ Goes("pin", Idle)
  /\ UNCHANGED <<tree, fork, links, ks, repo, env, vouched>>

-----------------------------------------------------------------------------
(* Crashes, the human and the outside.                                     *)

\* Killed, or a power cut: what was written stays.  (At the queue it looks like
\* a run that builds nothing.)
Kill(p) ==
  /\ proc[p].pc \notin {"idle", "queue"}
  /\ Goes(p, Idle)
  /\ UNCHANGED <<lock, tree, fork, links, ks, repo, env, vouched>>

\* A human answers a freeze: bore.lock is pinned anew by hand, or the foreign
\* directory is moved away, or neither; then --kernel-ack.
Acknowledge ==
  /\ ks.frozen
  /\ ks' = [ks EXCEPT !.frozen = FALSE]
  /\ links' \in {links, "none"}
  /\ \/ UNCHANGED <<lock, vouched>>
     \/ \E art \in Artifacts :
          /\ lock' = [ok |-> TRUE, pin |-> art]
          /\ vouched' = vouched \cup {art}
  /\ UNCHANGED <<tree, fork, repo, proc, env>>

\* The series is gone: the human edits the state file to track a newer one,
\* which bore.lock may or may not pin.
SwitchSeries ==
  /\ tree = 0 /\ proc["pin"].pc = "idle"
  /\ tree' = MaxVer
  /\ ks' = [ks EXCEPT !.frozen = FALSE]
  /\ lock' \in [ok : {lock.ok}, pin : vouched \cup {None}]
  /\ UNCHANGED <<fork, links, repo, proc, env, vouched>>

\* --sync, under the run lock; in a rough world the series is dropped upstream.
Sync ==
  /\ proc["commit"].pc = "idle" /\ tree # 0
  /\ \/ tree < MaxVer /\ tree' = tree + 1
     \/ Rough /\ tree' = 0
  /\ UNCHANGED <<lock, fork, links, ks, repo, proc, env, vouched>>

\* KernelLifecycle from the deployed build on: it is staged and counts as acted on.
Adopt ==
  /\ proc["commit"].pc = "idle" /\ repo > ks.acted
  /\ ks' = [ks EXCEPT !.acted = repo]
  /\ UNCHANGED <<lock, tree, fork, links, repo, proc, env, vouched>>

Circuit(p) == Classify(p) \/ Trust(p) \/ Fetch(p) \/ ReadCache(p) \/ Stage(p)
              \/ MoveAway(p) \/ PlaceNew(p) \/ LinkSubpackages(p) \/ Queue(p)
Caching(p) == OpenCache(p) \/ WriteCache(p)
Pinning    == Propose \/ Answer \/ AppendPin \/ FinishPin
Outside    == Acknowledge \/ SwitchSeries \/ Sync \/ Adopt

Next ==
  \/ \E p \in Procs : Circuit(p) \/ Caching(p) \/ Kill(p)
  \/ Gate \/ Build \/ Pinning \/ Outside

Spec == Init /\ [][Next]_vars

\* A step of a commit run.
Commit == Circuit("commit") \/ Caching("commit") \/ Gate \/ Build

\* Runs are started again and again, and go on unless they are killed.
Fairness == WF_vars(Commit)

FairSpec == Spec /\ Fairness

-----------------------------------------------------------------------------
(* Properties.                                                             *)

\* The steps that work with an artifact.
Comparing == {"fetch", "open", "write", "ask", "append", "appending"}

\* Every variable has its type, and no process fetches, writes or pins without
\* an artifact to compare with.
TypeOK ==
  /\ lock \in Lock /\ tree \in 0..MaxVer
  /\ fork \in Fork /\ links \in {"none", "ours", "foreign"}
  /\ ks \in State /\ repo \in 0..MaxVer
  /\ proc \in [Procs -> Process] /\ env \in {"calm", "rough"}
  /\ vouched \subseteq Artifacts
  /\ \A p \in Procs : proc[p].pc \in Comparing => proc[p].pin # None

\* No artifact a human did not approve is ever in the live fork, from which the
\* build takes it, whatever upstream serves and whoever fetches, pins or swaps
\* at once.
OnlyVouched == fork.patch \in Artifacts => fork.patch \in vouched

\* A crash needs no human: as long as nothing but kills goes wrong, no run ends
\* in a freeze.
CrashNeedsNoHuman == ~Rough => ~ks.frozen

\* Whatever killed runs left behind (a cache cut short, a working state, no fork
\* at all between the two renames), the runs after the last kill port and build
\* the version upstream has reached.
EveryBumpIsBuilt ==
  \/ Rough
  \/ []<><<Kill("commit")>>_vars
  \/ []<>(repo = tree)
=============================================================================
