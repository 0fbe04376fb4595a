------------------------ MODULE OverlayCommit_proofs ------------------------
(***************************************************************************)
(* The queue finds everything that was left half-way, for every set of     *)
(* packages and every number of versions.                                  *)
(***************************************************************************)
EXTENDS OverlayCommit, TLAPS

USE SrcOfAssumption, MaxVerAssumption DEF Versions

\* Nothing is newer than its source: the checkout and what is installed never
\* outrank the mirror, the local repository never outranks the checkout.
VersionOrder ==
  /\ \A s \in Src : repo[s] <= tpl[s] /\ tpl[s] <= mirror[s]
  /\ \A b \in Bins : inst[b] <= mirror[SrcOf[b]]

IInv == TypeOK /\ VersionOrder /\ JournalIsTrue

LEMMA InitIInv == Init => IInv
  BY DEF Init, IInv, TypeOK, VersionOrder, JournalIsTrue, Run, NoRun, Journal, Steps

\* An offer is a version of the mirror at most.
LEMMA OfferBound ==
  ASSUME IInv, NEW b \in Bins
  PROVE  Offer(b) \in Versions /\ Offer(b) <= mirror[SrcOf[b]]
  BY DEF IInv, TypeOK, VersionOrder, Offer

\* Unpacking any set of packages keeps what is installed in order.
LEMMA UnpackKeeps ==
  ASSUME IInv, NEW done \in SUBSET Bins, Unpack(done)
  PROVE  /\ inst' \in [Bins -> 0..MaxVer] /\ origin' \in [Bins -> {"mirror", "overlay"}]
         /\ \A b \in Bins : inst'[b] <= mirror[SrcOf[b]]
<1>1. \A b \in Bins : Offer(b) \in 0..MaxVer /\ Offer(b) <= mirror[SrcOf[b]]
  BY OfferBound
<1> QED
  BY <1>1 DEF IInv, TypeOK, VersionOrder, Unpack

\* A package that lands has the checkout's version.
LEMMA CompileKeeps ==
  ASSUME IInv, NEW s \in Src, Compile(s)
  PROVE  /\ repo' \in [Src -> 0..MaxVer]
         /\ repo'[s] = tpl[s] /\ \A t \in Src : t # s => repo'[t] = repo[t]
         /\ \A t \in Src : repo'[t] <= tpl[t]
         /\ \A t \in Src : repo[t] # 0 => repo'[t] # 0
  BY DEF IInv, TypeOK, VersionOrder, Compile

\* Every step leaves the run and its journal in one of their states.
LEMMA RunTyped ==
  ASSUME IInv, [Next]_vars
  PROVE  run' \in Run /\ journal' \in Journal
<1>1. NoRun \in Run
  BY DEF NoRun, Run, Steps
<1>2. QBuild \in SUBSET Src /\ QDeploy \in SUBSET Src
  BY DEF QBuild, QDeploy, TermL, TermM, TermP, TermO, InstalledSrc
<1>3. CASE Start
  BY <1>2, <1>3 DEF Start, Run, Journal, Steps, IInv, TypeOK
<1>4. ASSUME NEW s \in Src, BeginBuild(s) PROVE run' \in Run /\ journal' \in Journal
  BY <1>4 DEF BeginBuild, Run, Journal, Steps, IInv, TypeOK, live
<1>5. ASSUME NEW s \in Src, BuildOk(s) PROVE run' \in Run /\ journal' \in Journal
  BY <1>5 DEF BuildOk, Run, Journal, Steps, IInv, TypeOK
<1>6. CASE Deploying
  BY <1>1, <1>6 DEF Deploying, UpgradeOk, Takeover, TakenOver, Finish, Run, Journal, Steps,
                    IInv, TypeOK
<1>7. CASE UpgradeBroken \/ Fail \/ Crash
  BY <1>1, <1>7 DEF UpgradeBroken, Fail, Crash, Run, Journal, Steps, IInv, TypeOK
<1>8. CASE Publish \/ Sync \/ UserUpgrade \/ UNCHANGED vars
  BY <1>8 DEF Publish, Sync, UserUpgrade, vars, IInv, TypeOK
<1> QED
  BY <1>3, <1>4, <1>5, <1>6, <1>7, <1>8 DEF Next

LEMMA NextIInv == IInv /\ [Next]_vars => IInv'
<1> SUFFICES ASSUME IInv, [Next]_vars PROVE IInv'
  OBVIOUS
<1>0. run' \in Run /\ journal' \in Journal
  BY RunTyped
<1>1. CASE Publish
  BY <1>0, <1>1 DEF Publish, IInv, TypeOK, VersionOrder, JournalIsTrue
<1>2. CASE Sync
  BY <1>0, <1>2 DEF Sync, IInv, TypeOK, VersionOrder, JournalIsTrue
<1>3. CASE UserUpgrade
  <2>1. PICK done \in SUBSET Bins : Unpack(done)
    BY <1>3 DEF UserUpgrade, Upgradable
  <2> QED
    BY <1>0, <1>3, <2>1, UnpackKeeps DEF UserUpgrade, IInv, TypeOK, VersionOrder, JournalIsTrue
<1>4. CASE Start
  BY <1>0, <1>4 DEF Start, live, IInv, TypeOK, VersionOrder, JournalIsTrue
<1>5. ASSUME NEW s \in Src, BeginBuild(s) PROVE IInv'
  BY <1>0, <1>5 DEF BeginBuild, live, IInv, TypeOK, VersionOrder, JournalIsTrue, Journal
<1>6. ASSUME NEW s \in Src, BuildOk(s) PROVE IInv'
  <2>1. Compile(s) /\ journal'.built = journal.built \cup {s} /\ run.pc # "idle"
        /\ UNCHANGED <<mirror, tpl, inst, origin>>
    BY <1>6 DEF BuildOk
  <2>2. TypeOK' /\ VersionOrder'
    BY <1>0, <2>1, CompileKeeps DEF IInv, TypeOK, VersionOrder
  <2>3. JournalIsTrue'
    BY <2>1, CompileKeeps DEF IInv, TypeOK, JournalIsTrue, Journal
  <2> QED
    BY <2>2, <2>3 DEF IInv
<1>7. CASE UpgradeOk
  <2>1. Unpack(Upgradable) /\ Upgradable \in SUBSET Bins
    BY <1>7 DEF UpgradeOk, Upgradable
  <2> QED
    BY <1>0, <1>7, <2>1, UnpackKeeps DEF UpgradeOk, IInv, TypeOK, VersionOrder, JournalIsTrue
<1>8. ASSUME NEW b \in Bins, Takeover(b) PROVE IInv'
  BY <1>0, <1>8 DEF Takeover, IInv, TypeOK, VersionOrder, JournalIsTrue
<1>9. CASE TakenOver
  BY <1>0, <1>9 DEF TakenOver, live, IInv, TypeOK, VersionOrder, JournalIsTrue
<1>10. CASE Finish
  BY <1>0, <1>10 DEF Finish, live, IInv, TypeOK, VersionOrder, JournalIsTrue, NoRun, Journal
<1>11. CASE UpgradeBroken
  <2>1. PICK done \in SUBSET Bins : Unpack(done)
    BY <1>11 DEF UpgradeBroken, Upgradable
  <2>2. journal'.built = journal.built
    BY <1>11 DEF UpgradeBroken, IInv, TypeOK, Journal
  <2> QED
    BY <1>0, <1>11, <2>1, <2>2, UnpackKeeps
       DEF UpgradeBroken, IInv, TypeOK, VersionOrder, JournalIsTrue, NoRun
<1>12. CASE Fail
  BY <1>0, <1>12 DEF Fail, live, IInv, TypeOK, VersionOrder, JournalIsTrue, NoRun, Journal
<1>13. CASE Crash
  <2>1. CASE UNCHANGED repo
    BY <1>0, <1>13, <2>1 DEF Crash, IInv, TypeOK, VersionOrder, JournalIsTrue, NoRun
  <2>2. ASSUME NEW s \in journal.building, Compile(s) PROVE IInv'
    <3>1. s \in Src
      BY DEF IInv, TypeOK, Journal
    <3> QED
      BY <1>0, <1>13, <2>2, <3>1, CompileKeeps
         DEF Crash, IInv, TypeOK, VersionOrder, JournalIsTrue, NoRun, Journal
  <2> QED
    BY <1>13, <2>1, <2>2 DEF Crash
<1>14. CASE UNCHANGED vars
  BY <1>14 DEF vars, IInv, TypeOK, VersionOrder, JournalIsTrue
<1> QED
  BY <1>1, <1>2, <1>3, <1>4, <1>5, <1>6, <1>7, <1>8, <1>9, <1>10, <1>11, <1>12, <1>13, <1>14
     DEF Next, Deploying

\* The inductive invariant holds in every reachable state.
THEOREM Inductive == Spec => []IInv
  BY InitIInv, NextIInv, PTL DEF Spec

\* Every variable keeps its type.
THEOREM TypeCorrect == Spec => []TypeOK
<1>1. IInv => TypeOK
  BY DEF IInv
<1> QED
  BY Inductive, <1>1, PTL

\* The journal never claims a build the repository does not hold.
THEOREM JournalWitnesses == Spec => []JournalIsTrue
<1>1. IInv => JournalIsTrue
  BY DEF IInv
<1> QED
  BY Inductive, <1>1, PTL

\* What the four terms leave out: an installed target outside P and O is at the
\* repository's version on the overlay, or ahead of the repository throughout.
LEMMA OutsidePO ==
  ASSUME IInv, NEW s \in InstalledSrc, repo[s] # 0, s \notin TermP, s \notin TermO
  PROVE  \/ \A b \in Installed(s) : origin[b] = "overlay" /\ inst[b] = repo[s]
         \/ \A b \in Installed(s) : inst[b] > repo[s]
<1>1. s \in Src /\ repo[s] \in Nat /\ \A b \in Installed(s) : b \in Bins /\ inst[b] \in Nat
  BY DEF IInv, TypeOK, InstalledSrc, Installed
<1>2. \A b, c \in Installed(s) : inst[b] = inst[c]
  BY DEF TermP, Diverged, InstVers
<1>3. \A b \in Installed(s) : inst[b] >= repo[s]
  BY <1>1 DEF TermP, InstVers
<1>4. CASE \E b \in Installed(s) : inst[b] = repo[s]
  <2>1. InstVers(s) = {repo[s]}
    BY <1>2, <1>4 DEF InstVers
  <2>2. \A b \in Installed(s) : origin[b] = "overlay"
    BY <2>1 DEF TermO
  <2> QED
    BY <1>2, <1>4, <2>2
<1>5. CASE \A b \in Installed(s) : inst[b] # repo[s]
  BY <1>1, <1>3, <1>5
<1> QED
  BY <1>4, <1>5

\* An empty queue is a converged system (architecture.md section 7.3), for
\* every set of packages: no interruption leaves an installed target off the
\* overlay and out of the queue.
THEOREM QueueIsComplete == Spec => []EmptyQueueIsConverged
<1>1. IInv => EmptyQueueIsConverged
  <2> SUFFICES ASSUME IInv, QDeploy = {}, NEW s \in Src, tpl[s] = mirror[s]
               PROVE  Converged(s)
    BY DEF EmptyQueueIsConverged
  <2>1. CASE s \notin InstalledSrc
    BY <2>1 DEF InstalledSrc, Converged
  <2>2. CASE s \in InstalledSrc
    <3>1. s \notin TermL /\ s \notin TermM /\ s \notin TermP /\ s \notin TermO
      BY <2>2 DEF QDeploy, QBuild
    <3>2. repo[s] = tpl[s] /\ repo[s] # 0
      BY <3>1 DEF TermL, TermM, IInv, TypeOK, VersionOrder
    <3>3. \A b \in Installed(s) : ~(inst[b] > repo[s])
      BY <3>2 DEF Installed, IInv, TypeOK, VersionOrder
    <3>4. Installed(s) # {}
      BY <2>2 DEF InstalledSrc
    <3> QED
      BY <2>2, <3>1, <3>2, <3>3, <3>4, OutsidePO DEF Converged
  <2> QED
    BY <2>1, <2>2
<1> QED
  BY Inductive, <1>1, PTL

\* The crash report's promise: what an interrupted run built is in the next
\* queue, unless the system already has it.
THEOREM CrashIsPickedUp == Spec => []BuiltIsPickedUp
<1>1. IInv => BuiltIsPickedUp
  <2> SUFFICES ASSUME IInv, NEW s \in journal.built \cap InstalledSrc, s \notin QDeploy
               PROVE  \A b \in Installed(s) :
                        inst[b] > repo[s] \/ (origin[b] = "overlay" /\ inst[b] = repo[s])
    BY DEF BuiltIsPickedUp
  <2>1. repo[s] # 0
    BY DEF IInv, JournalIsTrue
  <2>2. s \notin TermP /\ s \notin TermO
    BY DEF QDeploy
  <2> QED
    BY <2>1, <2>2, OutsidePO
<1> QED
  BY Inductive, <1>1, PTL
=============================================================================
