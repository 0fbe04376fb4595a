------------------------ MODULE TemplateSynthesis_proofs ------------------------
(***************************************************************************)
(* What holds of the synthesis circuit for every set of artifacts, every   *)
(* number of versions and any number of concurrent previews: the types,    *)
(* and that only an approved artifact reaches the fork.                    *)
(***************************************************************************)
EXTENDS TemplateSynthesis, TLAPS

\* The constants are what the module assumes them to be.
USE ArtifactsAssumption, MaxVerAssumption, PreviewsAssumption

-----------------------------------------------------------------------------
(* The operators the circuit is built from.                                *)

\* The steps, by name.
LEMMA StepNames ==
  /\ "idle" \in Steps /\ "trust" \in Steps /\ "fetch" \in Steps /\ "open" \in Steps
  /\ "write" \in Steps /\ "read" \in Steps /\ "stage" \in Steps /\ "move" \in Steps
  /\ "place" \in Steps /\ "link" \in Steps /\ "queue" \in Steps /\ "gate" \in Steps
  /\ "build" \in Steps /\ "ask" \in Steps /\ "append" \in Steps /\ "appending" \in Steps
  BY DEF Steps

\* The local variables a process is given are well typed.
LEMMA LocalsTyped ==
  /\ \A pc \in Steps, pin \in Artifacts \cup {None} : WithPin(pc, pin) \in Process
  /\ \A pc \in Steps, patch \in Patches, ver \in 0..MaxVer :
       WithPatch(pc, patch, ver) \in Process
  /\ \A pc \in Steps : Starts(pc) \in Process
  /\ Idle \in Process
  <1>1. \A pc \in Steps, pin \in Artifacts \cup {None} : WithPin(pc, pin) \in Process
    BY DEF WithPin, Process, Patches
  <1>2. \A pc \in Steps, patch \in Patches, ver \in 0..MaxVer :
          WithPatch(pc, patch, ver) \in Process
    BY DEF WithPatch, Process
  <1>3. \A pc \in Steps : Starts(pc) \in Process
    BY <1>2 DEF Starts, Patches
  <1>4. Idle \in Process
    BY <1>3, StepNames DEF Idle
  <1> QED BY <1>1, <1>2, <1>3, <1>4

\* And hold what they are given.
LEMMA LocalsHold ==
  /\ \A pc, pin : /\ WithPin(pc, pin).pc = pc
                  /\ WithPin(pc, pin).pin = pin
                  /\ WithPin(pc, pin).patch = None
  /\ \A pc, patch, ver : /\ WithPatch(pc, patch, ver).pc = pc
                         /\ WithPatch(pc, patch, ver).patch = patch
  /\ \A pc : Starts(pc).pc = pc /\ Starts(pc).patch = None
  /\ Idle.pc = "idle" /\ Idle.patch = None
  BY DEF WithPin, WithPatch, Starts, Idle

\* The updates of the fork, of bore.lock and of the state are well typed.
LEMMA FilesTyped ==
  /\ NoFork \in Fork
  /\ \A ver \in 0..MaxVer, patch \in Patches :
       [dir |-> TRUE, ver |-> ver, patch |-> patch] \in Fork
  /\ \A f \in Fork : /\ [f EXCEPT !.dir = TRUE] \in Fork
                     /\ [f EXCEPT !.dir = TRUE, !.patch = Torn] \in Fork
                     /\ \A art \in Artifacts : [f EXCEPT !.patch = art] \in Fork
  /\ \A pin \in Artifacts \cup {None} : [ok |-> TRUE, pin |-> pin] \in Lock
  /\ \A l \in Lock, b \in BOOLEAN : [l EXCEPT !.ok = b] \in Lock
  /\ \A k \in State : /\ \A b \in BOOLEAN : [k EXCEPT !.frozen = b] \in State
                      /\ \A v \in 0..MaxVer : [k EXCEPT !.acted = v] \in State
  <1>1. NoFork \in Fork
    BY DEF Fork, NoFork, Patches
  <1>2. \A ver \in 0..MaxVer, patch \in Patches :
          [dir |-> TRUE, ver |-> ver, patch |-> patch] \in Fork
    BY DEF Fork
  <1>3. ASSUME NEW f \in Fork
        PROVE  /\ [f EXCEPT !.dir = TRUE] \in Fork
               /\ [f EXCEPT !.dir = TRUE, !.patch = Torn] \in Fork
               /\ \A art \in Artifacts : [f EXCEPT !.patch = art] \in Fork
    BY DEF Fork, Patches
  <1>4. /\ \A pin \in Artifacts \cup {None} : [ok |-> TRUE, pin |-> pin] \in Lock
        /\ \A l \in Lock, b \in BOOLEAN : [l EXCEPT !.ok = b] \in Lock
    BY DEF Lock
  <1>5. ASSUME NEW k \in State
        PROVE  /\ \A b \in BOOLEAN : [k EXCEPT !.frozen = b] \in State
               /\ \A v \in 0..MaxVer : [k EXCEPT !.acted = v] \in State
    BY DEF State
  <1> QED BY <1>1, <1>2, <1>3, <1>4, <1>5

\* What the type invariant says of the values an action reads.
LEMMA Reads ==
  ASSUME TypeOK
  PROVE  /\ proc \in [Procs -> Process]
         /\ \A q \in Procs : /\ proc[q].pc \in Steps
                             /\ proc[q].pin \in Artifacts \cup {None}
                             /\ proc[q].pc \in Comparing => proc[q].pin \in Artifacts
                             /\ proc[q].patch \in Patches
                             /\ proc[q].ver \in 0..MaxVer
         /\ "commit" \in Procs /\ "pin" \in Procs
         /\ lock.ok \in BOOLEAN /\ lock.pin \in Artifacts \cup {None}
         /\ fork.patch \in Patches /\ fork.ver \in 0..MaxVer
  <1>1. \A x \in Process : /\ x.pc \in Steps /\ x.pin \in Artifacts \cup {None}
                           /\ x.patch \in Patches /\ x.ver \in 0..MaxVer
    BY DEF Process
  <1> QED BY <1>1 DEF TypeOK, Lock, Fork, Procs, Syncing

\* A process that goes on with well-typed local variables keeps the types.
LEMMA GoesTyped ==
  ASSUME TypeOK, NEW p \in Procs, NEW new \in Process,
         new.pc \in Comparing => new.pin # None, Goes(p, new)
  PROVE  /\ proc' \in [Procs -> Process]
         /\ \A q \in Procs : proc'[q].pc \in Comparing => proc'[q].pin # None
  BY DEF TypeOK, Goes

-----------------------------------------------------------------------------
(* Type correctness.                                                       *)

\* The initial states are well typed.
LEMMA InitTypeOK == Init => TypeOK
  <1> SUFFICES ASSUME Init PROVE TypeOK
    OBVIOUS
  <1> USE DEF Init
  <1>1. lock \in Lock
    BY DEF Lock
  <1>2. fork \in Fork
    BY FilesTyped
  <1>5. ks \in State
    BY DEF State
  <1>3. proc \in [Procs -> Process]
    BY LocalsTyped
  <1>4. \A p \in Procs : proc[p].pc \notin Comparing
    BY LocalsHold DEF Comparing
  <1> QED BY <1>1, <1>2, <1>5, <1>3, <1>4 DEF TypeOK, Lock

\* A step of the synthesis circuit keeps the types, whichever process takes it.
LEMMA CircuitTypeOK ==
  ASSUME TypeOK, NEW p \in Procs, Circuit(p) PROVE TypeOK'
  <1>1. CASE Classify(p)
    <2> USE DEF Classify, Bumped, At, Rough
    <2>1. /\ lock' \in Lock /\ fork' \in Fork /\ ks' \in State
          /\ tree' \in 0..MaxVer /\ repo' \in 0..MaxVer /\ vouched' \subseteq Artifacts
          /\ links' \in {"none", "ours", "foreign"} /\ env' \in {"calm", "rough"}
      BY <1>1, Reads, FilesTyped DEF TypeOK, Freeze, Work, Comparing
    <2>2. /\ proc' \in [Procs -> Process]
         /\ \A q \in Procs : proc'[q].pc \in Comparing => proc'[q].pin # None
      <3>1. /\ Starts("queue") \in Process
            /\ Starts("trust") \in Process
        BY Reads, LocalsTyped, StepNames DEF TypeOK
      <3>2. \A new \in Process : Goes(p, new) /\ (new.pc \in Comparing => new.pin # None) =>
              /\ proc' \in [Procs -> Process]
              /\ \A q \in Procs : proc'[q].pc \in Comparing => proc'[q].pin # None
        BY GoesTyped, Reads
      <3> QED BY <1>1, <3>1, <3>2, Reads, LocalsHold DEF GivesUp, Comparing
    <2> QED BY <2>1, <2>2 DEF TypeOK
  <1>2. CASE Trust(p)
    <2> USE DEF Trust, Pinned, Reusable, At, Rough
    <2>1. /\ lock' \in Lock /\ fork' \in Fork /\ ks' \in State
          /\ tree' \in 0..MaxVer /\ repo' \in 0..MaxVer /\ vouched' \subseteq Artifacts
          /\ links' \in {"none", "ours", "foreign"} /\ env' \in {"calm", "rough"}
      BY <1>2, Reads, FilesTyped DEF TypeOK, Freeze, Work, Comparing
    <2>2. /\ proc' \in [Procs -> Process]
         /\ \A q \in Procs : proc'[q].pc \in Comparing => proc'[q].pin # None
      <3>1. /\ Starts("queue") \in Process
            /\ Starts("read") \in Process
            /\ Pinned => WithPin("fetch", lock.pin) \in Process
        BY Reads, LocalsTyped, StepNames DEF TypeOK
      <3>2. \A new \in Process : Goes(p, new) /\ (new.pc \in Comparing => new.pin # None) =>
              /\ proc' \in [Procs -> Process]
              /\ \A q \in Procs : proc'[q].pc \in Comparing => proc'[q].pin # None
        BY GoesTyped, Reads
      <3> QED BY <1>2, <3>1, <3>2, Reads, LocalsHold DEF GivesUp, Comparing
    <2> QED BY <2>1, <2>2 DEF TypeOK
  <1>3. CASE Fetch(p)
    <2> USE DEF Fetch, Accept, At, Rough
    <2>1. /\ lock' \in Lock /\ fork' \in Fork /\ ks' \in State
          /\ tree' \in 0..MaxVer /\ repo' \in 0..MaxVer /\ vouched' \subseteq Artifacts
          /\ links' \in {"none", "ours", "foreign"} /\ env' \in {"calm", "rough"}
      BY <1>3, Reads, FilesTyped DEF TypeOK, Freeze, Work, Comparing
    <2>2. /\ proc' \in [Procs -> Process]
         /\ \A q \in Procs : proc'[q].pc \in Comparing => proc'[q].pin # None
      <3>1. /\ Starts("queue") \in Process
            /\ \A got \in Artifacts : WithPin("open", got) \in Process
        BY Reads, LocalsTyped, StepNames DEF TypeOK
      <3>2. \A new \in Process : Goes(p, new) /\ (new.pc \in Comparing => new.pin # None) =>
              /\ proc' \in [Procs -> Process]
              /\ \A q \in Procs : proc'[q].pc \in Comparing => proc'[q].pin # None
        BY GoesTyped, Reads
      <3> QED BY <1>3, <3>1, <3>2, Reads, LocalsHold DEF GivesUp, Comparing
    <2> QED BY <2>1, <2>2 DEF TypeOK
  <1>4. CASE ReadCache(p)
    <2> USE DEF ReadCache, At, Rough
    <2>1. /\ lock' \in Lock /\ fork' \in Fork /\ ks' \in State
          /\ tree' \in 0..MaxVer /\ repo' \in 0..MaxVer /\ vouched' \subseteq Artifacts
          /\ links' \in {"none", "ours", "foreign"} /\ env' \in {"calm", "rough"}
      BY <1>4, Reads, FilesTyped DEF TypeOK, Freeze, Work, Comparing
    <2>2. /\ proc' \in [Procs -> Process]
         /\ \A q \in Procs : proc'[q].pc \in Comparing => proc'[q].pin # None
      <3>1. /\ Starts("queue") \in Process
            /\ WithPatch("stage", fork.patch, 0) \in Process
        BY Reads, LocalsTyped, StepNames DEF TypeOK
      <3>2. \A new \in Process : Goes(p, new) /\ (new.pc \in Comparing => new.pin # None) =>
              /\ proc' \in [Procs -> Process]
              /\ \A q \in Procs : proc'[q].pc \in Comparing => proc'[q].pin # None
        BY GoesTyped, Reads
      <3> QED BY <1>4, <3>1, <3>2, Reads, LocalsHold DEF GivesUp, Comparing
    <2> QED BY <2>1, <2>2 DEF TypeOK
  <1>5. CASE Stage(p)
    <2> USE DEF Stage, At, Rough
    <2>1. /\ lock' \in Lock /\ fork' \in Fork /\ ks' \in State
          /\ tree' \in 0..MaxVer /\ repo' \in 0..MaxVer /\ vouched' \subseteq Artifacts
          /\ links' \in {"none", "ours", "foreign"} /\ env' \in {"calm", "rough"}
      BY <1>5, Reads, FilesTyped DEF TypeOK, Freeze, Work, Comparing
    <2>2. /\ proc' \in [Procs -> Process]
         /\ \A q \in Procs : proc'[q].pc \in Comparing => proc'[q].pin # None
      <3>1. /\ Starts("queue") \in Process
            /\ WithPatch("move", proc[p].patch, tree) \in Process
        BY Reads, LocalsTyped, StepNames DEF TypeOK
      <3>2. \A new \in Process : Goes(p, new) /\ (new.pc \in Comparing => new.pin # None) =>
              /\ proc' \in [Procs -> Process]
              /\ \A q \in Procs : proc'[q].pc \in Comparing => proc'[q].pin # None
        BY GoesTyped, Reads
      <3> QED BY <1>5, <3>1, <3>2, Reads, LocalsHold DEF GivesUp, Comparing
    <2> QED BY <2>1, <2>2 DEF TypeOK
  <1>6. CASE MoveAway(p)
    <2> USE DEF MoveAway, At, Rough
    <2>1. /\ lock' \in Lock /\ fork' \in Fork /\ ks' \in State
          /\ tree' \in 0..MaxVer /\ repo' \in 0..MaxVer /\ vouched' \subseteq Artifacts
          /\ links' \in {"none", "ours", "foreign"} /\ env' \in {"calm", "rough"}
      BY <1>6, Reads, FilesTyped DEF TypeOK, Freeze, Work, Comparing
    <2>2. /\ proc' \in [Procs -> Process]
         /\ \A q \in Procs : proc'[q].pc \in Comparing => proc'[q].pin # None
      <3>1. \A q \in Procs : [proc[q] EXCEPT !.hold = FALSE] \in Process
        BY Reads DEF Process
      <3>2. \A q \in Procs : /\ [proc[q] EXCEPT !.hold = FALSE].pc = proc[q].pc
                             /\ [proc[q] EXCEPT !.hold = FALSE].pin = proc[q].pin
        BY Reads DEF Process
      <3>3. WithPatch("place", proc[p].patch, proc[p].ver) \in Process
        BY Reads, LocalsTyped, StepNames
      <3>4. Starts("queue") \in Process /\ Starts("queue").pc \notin Comparing
        BY LocalsTyped, LocalsHold, StepNames DEF Comparing
      <3>5. CASE GivesUp(p)
        BY <3>4, <3>5, GoesTyped DEF GivesUp
      <3>6. CASE proc' = [q \in Procs |->
                            IF q = p THEN WithPatch("place", proc[p].patch, proc[p].ver)
                            ELSE [proc[q] EXCEPT !.hold = FALSE]]
        BY <3>1, <3>2, <3>3, <3>6, Reads, LocalsHold DEF Comparing
      <3> QED BY <1>6, <3>5, <3>6
    <2> QED BY <2>1, <2>2 DEF TypeOK
  <1>7. CASE PlaceNew(p)
    <2> USE DEF PlaceNew, At, Rough
    <2>1. /\ lock' \in Lock /\ fork' \in Fork /\ ks' \in State
          /\ tree' \in 0..MaxVer /\ repo' \in 0..MaxVer /\ vouched' \subseteq Artifacts
          /\ links' \in {"none", "ours", "foreign"} /\ env' \in {"calm", "rough"}
      <3>1. lock' \in Lock
        BY <1>7, Reads DEF TypeOK, Lock
      <3>2. fork' \in Fork
        <4>1. [dir |-> TRUE, ver |-> proc[p].ver, patch |-> proc[p].patch] \in Fork
          BY Reads, FilesTyped
        <4> QED BY <1>7, <4>1 DEF TypeOK
      <3>3. ks' \in State
        BY <1>7, FilesTyped DEF TypeOK, Freeze
      <3>4. tree' \in 0..MaxVer
        BY <1>7 DEF TypeOK
      <3> QED BY <1>7, <3>1, <3>2, <3>3, <3>4 DEF TypeOK
    <2>2. /\ proc' \in [Procs -> Process]
         /\ \A q \in Procs : proc'[q].pc \in Comparing => proc'[q].pin # None
      <3>1. /\ Starts("queue") \in Process
            /\ Starts("link") \in Process
        BY Reads, LocalsTyped, StepNames DEF TypeOK
      <3>2. \A new \in Process : Goes(p, new) /\ (new.pc \in Comparing => new.pin # None) =>
              /\ proc' \in [Procs -> Process]
              /\ \A q \in Procs : proc'[q].pc \in Comparing => proc'[q].pin # None
        BY GoesTyped, Reads
      <3> QED BY <1>7, <3>1, <3>2, Reads, LocalsHold DEF GivesUp, Comparing
    <2> QED BY <2>1, <2>2 DEF TypeOK
  <1>8. CASE LinkSubpackages(p)
    <2> USE DEF LinkSubpackages, At, Rough
    <2>1. /\ lock' \in Lock /\ fork' \in Fork /\ ks' \in State
          /\ tree' \in 0..MaxVer /\ repo' \in 0..MaxVer /\ vouched' \subseteq Artifacts
          /\ links' \in {"none", "ours", "foreign"} /\ env' \in {"calm", "rough"}
      BY <1>8, Reads, FilesTyped DEF TypeOK, Freeze, Work, Comparing
    <2>2. /\ proc' \in [Procs -> Process]
         /\ \A q \in Procs : proc'[q].pc \in Comparing => proc'[q].pin # None
      <3>1. /\ Starts("queue") \in Process
        BY Reads, LocalsTyped, StepNames DEF TypeOK
      <3>2. \A new \in Process : Goes(p, new) /\ (new.pc \in Comparing => new.pin # None) =>
              /\ proc' \in [Procs -> Process]
              /\ \A q \in Procs : proc'[q].pc \in Comparing => proc'[q].pin # None
        BY GoesTyped, Reads
      <3> QED BY <1>8, <3>1, <3>2, Reads, LocalsHold DEF GivesUp, Comparing
    <2> QED BY <2>1, <2>2 DEF TypeOK
  <1>9. CASE Queue(p)
    <2> USE DEF Queue, Outdated, At, Rough
    <2>1. /\ lock' \in Lock /\ fork' \in Fork /\ ks' \in State
          /\ tree' \in 0..MaxVer /\ repo' \in 0..MaxVer /\ vouched' \subseteq Artifacts
          /\ links' \in {"none", "ours", "foreign"} /\ env' \in {"calm", "rough"}
      BY <1>9, Reads, FilesTyped DEF TypeOK, Freeze, Work, Comparing
    <2>2. /\ proc' \in [Procs -> Process]
         /\ \A q \in Procs : proc'[q].pc \in Comparing => proc'[q].pin # None
      <3>1. /\ Starts("gate") \in Process
            /\ Idle \in Process
        BY Reads, LocalsTyped, StepNames DEF TypeOK
      <3>2. \A new \in Process : Goes(p, new) /\ (new.pc \in Comparing => new.pin # None) =>
              /\ proc' \in [Procs -> Process]
              /\ \A q \in Procs : proc'[q].pc \in Comparing => proc'[q].pin # None
        BY GoesTyped, Reads
      <3> QED BY <1>9, <3>1, <3>2, Reads, LocalsHold DEF GivesUp, Comparing
    <2> QED BY <2>1, <2>2 DEF TypeOK
  <1> QED BY <1>1, <1>2, <1>3, <1>4, <1>5, <1>6, <1>7, <1>8, <1>9 DEF Circuit

\* So do writing the cache and a kill.
LEMMA CachingTypeOK ==
  ASSUME TypeOK, NEW p \in Procs, Caching(p) \/ Kill(p) PROVE TypeOK'
  <1>1. CASE OpenCache(p)
    <2> USE DEF OpenCache, At, Rough
    <2>1. /\ lock' \in Lock /\ fork' \in Fork /\ ks' \in State
          /\ tree' \in 0..MaxVer /\ repo' \in 0..MaxVer /\ vouched' \subseteq Artifacts
          /\ links' \in {"none", "ours", "foreign"} /\ env' \in {"calm", "rough"}
      BY <1>1, Reads, FilesTyped DEF TypeOK, Freeze, Work, Comparing
    <2>2. /\ proc' \in [Procs -> Process]
         /\ \A q \in Procs : proc'[q].pc \in Comparing => proc'[q].pin # None
      <3>1. /\ Idle \in Process
            /\ Starts("queue") \in Process
            /\ WithPin("write", proc[p].pin) \in Process
        BY Reads, LocalsTyped, StepNames DEF TypeOK
      <3>2. \A new \in Process : Goes(p, new) /\ (new.pc \in Comparing => new.pin # None) =>
              /\ proc' \in [Procs -> Process]
              /\ \A q \in Procs : proc'[q].pc \in Comparing => proc'[q].pin # None
        BY GoesTyped, Reads
      <3> QED BY <1>1, <3>1, <3>2, Reads, LocalsHold DEF GivesUp, Comparing
    <2> QED BY <2>1, <2>2 DEF TypeOK
  <1>2. CASE WriteCache(p)
    <2> USE DEF WriteCache, At, Rough
    <2>1. /\ lock' \in Lock /\ fork' \in Fork /\ ks' \in State
          /\ tree' \in 0..MaxVer /\ repo' \in 0..MaxVer /\ vouched' \subseteq Artifacts
          /\ links' \in {"none", "ours", "foreign"} /\ env' \in {"calm", "rough"}
      <3>1. proc[p].pin \in Artifacts
        BY <1>2, Reads DEF Comparing
      <3>2. fork' \in Fork
        BY <1>2, <3>1, FilesTyped DEF TypeOK
      <3>3. UNCHANGED <<lock, tree, links, ks, repo, env, vouched>>
        BY <1>2
      <3> QED BY <3>2, <3>3 DEF TypeOK
    <2>2. /\ proc' \in [Procs -> Process]
         /\ \A q \in Procs : proc'[q].pc \in Comparing => proc'[q].pin # None
      <3>1. /\ Idle \in Process
            /\ Starts("queue") \in Process
            /\ Starts("read") \in Process
        BY Reads, LocalsTyped, StepNames DEF TypeOK
      <3>2. \A new \in Process : Goes(p, new) /\ (new.pc \in Comparing => new.pin # None) =>
              /\ proc' \in [Procs -> Process]
              /\ \A q \in Procs : proc'[q].pc \in Comparing => proc'[q].pin # None
        BY GoesTyped, Reads
      <3> QED BY <1>2, <3>1, <3>2, Reads, LocalsHold DEF GivesUp, Comparing
    <2> QED BY <2>1, <2>2 DEF TypeOK
  <1>3. CASE Kill(p)
    <2> USE DEF Kill, At, Rough
    <2>1. /\ lock' \in Lock /\ fork' \in Fork /\ ks' \in State
          /\ tree' \in 0..MaxVer /\ repo' \in 0..MaxVer /\ vouched' \subseteq Artifacts
          /\ links' \in {"none", "ours", "foreign"} /\ env' \in {"calm", "rough"}
      BY <1>3, Reads, FilesTyped DEF TypeOK, Freeze, Work, Comparing
    <2>2. /\ proc' \in [Procs -> Process]
         /\ \A q \in Procs : proc'[q].pc \in Comparing => proc'[q].pin # None
      <3>1. /\ Idle \in Process
        BY Reads, LocalsTyped, StepNames DEF TypeOK
      <3>2. \A new \in Process : Goes(p, new) /\ (new.pc \in Comparing => new.pin # None) =>
              /\ proc' \in [Procs -> Process]
              /\ \A q \in Procs : proc'[q].pc \in Comparing => proc'[q].pin # None
        BY GoesTyped, Reads
      <3> QED BY <1>3, <3>1, <3>2, Reads, LocalsHold DEF GivesUp, Comparing
    <2> QED BY <2>1, <2>2 DEF TypeOK
  <1> QED BY <1>1, <1>2, <1>3 DEF Caching

\* So do the gate, the build, --pin-bore and what comes from outside.
LEMMA OtherTypeOK ==
  ASSUME TypeOK, Gate \/ Build \/ Pinning \/ Outside PROVE TypeOK'
  <1>1. CASE Gate
    <2> USE DEF Gate, At, Rough
    <2>1. /\ lock' \in Lock /\ fork' \in Fork /\ ks' \in State
          /\ tree' \in 0..MaxVer /\ repo' \in 0..MaxVer /\ vouched' \subseteq Artifacts
          /\ links' \in {"none", "ours", "foreign"} /\ env' \in {"calm", "rough"}
      BY <1>1, Reads, FilesTyped DEF TypeOK, Freeze, Work, Comparing
    <2>2. /\ proc' \in [Procs -> Process]
         /\ \A q \in Procs : proc'[q].pc \in Comparing => proc'[q].pin # None
      <3>1. /\ Starts("build") \in Process
            /\ Idle \in Process
        BY Reads, LocalsTyped, StepNames DEF TypeOK
      <3>2. \A new \in Process : Goes("commit", new) /\ (new.pc \in Comparing => new.pin # None) =>
              /\ proc' \in [Procs -> Process]
              /\ \A q \in Procs : proc'[q].pc \in Comparing => proc'[q].pin # None
        BY GoesTyped, Reads
      <3> QED BY <1>1, <3>1, <3>2, Reads, LocalsHold DEF GivesUp, Comparing
    <2> QED BY <2>1, <2>2 DEF TypeOK
  <1>2. CASE Build
    <2> USE DEF Build, At, Rough
    <2>1. /\ lock' \in Lock /\ fork' \in Fork /\ ks' \in State
          /\ tree' \in 0..MaxVer /\ repo' \in 0..MaxVer /\ vouched' \subseteq Artifacts
          /\ links' \in {"none", "ours", "foreign"} /\ env' \in {"calm", "rough"}
      BY <1>2, Reads, FilesTyped DEF TypeOK, Freeze, Work, Comparing
    <2>2. /\ proc' \in [Procs -> Process]
         /\ \A q \in Procs : proc'[q].pc \in Comparing => proc'[q].pin # None
      <3>1. /\ Idle \in Process
        BY Reads, LocalsTyped, StepNames DEF TypeOK
      <3>2. \A new \in Process : Goes("commit", new) /\ (new.pc \in Comparing => new.pin # None) =>
              /\ proc' \in [Procs -> Process]
              /\ \A q \in Procs : proc'[q].pc \in Comparing => proc'[q].pin # None
        BY GoesTyped, Reads
      <3> QED BY <1>2, <3>1, <3>2, Reads, LocalsHold DEF GivesUp, Comparing
    <2> QED BY <2>1, <2>2 DEF TypeOK
  <1>3. CASE Propose
    <2> USE DEF Propose, At, Rough
    <2>1. /\ lock' \in Lock /\ fork' \in Fork /\ ks' \in State
          /\ tree' \in 0..MaxVer /\ repo' \in 0..MaxVer /\ vouched' \subseteq Artifacts
          /\ links' \in {"none", "ours", "foreign"} /\ env' \in {"calm", "rough"}
      BY <1>3, Reads, FilesTyped DEF TypeOK, Freeze, Work, Comparing
    <2>2. /\ proc' \in [Procs -> Process]
         /\ \A q \in Procs : proc'[q].pc \in Comparing => proc'[q].pin # None
      <3>1. /\ \A art \in Artifacts : WithPin("ask", art) \in Process
        BY Reads, LocalsTyped, StepNames DEF TypeOK
      <3>2. \A new \in Process : Goes("pin", new) /\ (new.pc \in Comparing => new.pin # None) =>
              /\ proc' \in [Procs -> Process]
              /\ \A q \in Procs : proc'[q].pc \in Comparing => proc'[q].pin # None
        BY GoesTyped, Reads
      <3> QED BY <1>3, <3>1, <3>2, Reads, LocalsHold DEF GivesUp, Comparing
    <2> QED BY <2>1, <2>2 DEF TypeOK
  <1>4. CASE Answer
    <2> USE DEF Answer, At, Rough
    <2>1. /\ lock' \in Lock /\ fork' \in Fork /\ ks' \in State
          /\ tree' \in 0..MaxVer /\ repo' \in 0..MaxVer /\ vouched' \subseteq Artifacts
          /\ links' \in {"none", "ours", "foreign"} /\ env' \in {"calm", "rough"}
      BY <1>4, Reads, FilesTyped DEF TypeOK, Freeze, Work, Comparing
    <2>2. /\ proc' \in [Procs -> Process]
         /\ \A q \in Procs : proc'[q].pc \in Comparing => proc'[q].pin # None
      <3>1. /\ WithPin("append", proc["pin"].pin) \in Process
            /\ Idle \in Process
        BY Reads, LocalsTyped, StepNames DEF TypeOK
      <3>2. \A new \in Process : Goes("pin", new) /\ (new.pc \in Comparing => new.pin # None) =>
              /\ proc' \in [Procs -> Process]
              /\ \A q \in Procs : proc'[q].pc \in Comparing => proc'[q].pin # None
        BY GoesTyped, Reads
      <3> QED BY <1>4, <3>1, <3>2, Reads, LocalsHold DEF GivesUp, Comparing
    <2> QED BY <2>1, <2>2 DEF TypeOK
  <1>5. CASE AppendPin
    <2> USE DEF AppendPin, At, Rough
    <2>1. /\ lock' \in Lock /\ fork' \in Fork /\ ks' \in State
          /\ tree' \in 0..MaxVer /\ repo' \in 0..MaxVer /\ vouched' \subseteq Artifacts
          /\ links' \in {"none", "ours", "foreign"} /\ env' \in {"calm", "rough"}
      BY <1>5, Reads, FilesTyped DEF TypeOK, Freeze, Work, Comparing
    <2>2. /\ proc' \in [Procs -> Process]
         /\ \A q \in Procs : proc'[q].pc \in Comparing => proc'[q].pin # None
      <3>1. /\ WithPin("appending", proc["pin"].pin) \in Process
            /\ Idle \in Process
        BY Reads, LocalsTyped, StepNames DEF TypeOK
      <3>2. \A new \in Process : Goes("pin", new) /\ (new.pc \in Comparing => new.pin # None) =>
              /\ proc' \in [Procs -> Process]
              /\ \A q \in Procs : proc'[q].pc \in Comparing => proc'[q].pin # None
        BY GoesTyped, Reads
      <3> QED BY <1>5, <3>1, <3>2, Reads, LocalsHold DEF GivesUp, Comparing
    <2> QED BY <2>1, <2>2 DEF TypeOK
  <1>6. CASE FinishPin
    <2> USE DEF FinishPin, At, Rough
    <2>1. /\ lock' \in Lock /\ fork' \in Fork /\ ks' \in State
          /\ tree' \in 0..MaxVer /\ repo' \in 0..MaxVer /\ vouched' \subseteq Artifacts
          /\ links' \in {"none", "ours", "foreign"} /\ env' \in {"calm", "rough"}
      BY <1>6, Reads, FilesTyped DEF TypeOK, Freeze, Work, Comparing
    <2>2. /\ proc' \in [Procs -> Process]
         /\ \A q \in Procs : proc'[q].pc \in Comparing => proc'[q].pin # None
      <3>1. /\ WithPin("open", proc["pin"].pin) \in Process
            /\ Idle \in Process
        BY Reads, LocalsTyped, StepNames DEF TypeOK
      <3>2. \A new \in Process : Goes("pin", new) /\ (new.pc \in Comparing => new.pin # None) =>
              /\ proc' \in [Procs -> Process]
              /\ \A q \in Procs : proc'[q].pc \in Comparing => proc'[q].pin # None
        BY GoesTyped, Reads
      <3> QED BY <1>6, <3>1, <3>2, Reads, LocalsHold DEF GivesUp, Comparing
    <2> QED BY <2>1, <2>2 DEF TypeOK
  <1>7. CASE Acknowledge
    <2> USE DEF Acknowledge, At, Rough
    <2>1. /\ lock' \in Lock /\ fork' \in Fork /\ ks' \in State
          /\ tree' \in 0..MaxVer /\ repo' \in 0..MaxVer /\ vouched' \subseteq Artifacts
          /\ links' \in {"none", "ours", "foreign"} /\ env' \in {"calm", "rough"}
      BY <1>7, Reads, FilesTyped DEF TypeOK, Freeze, Work, Comparing
    <2>2. /\ proc' \in [Procs -> Process]
         /\ \A q \in Procs : proc'[q].pc \in Comparing => proc'[q].pin # None
      BY <1>7 DEF TypeOK
    <2> QED BY <2>1, <2>2 DEF TypeOK
  <1>8. CASE SwitchSeries
    <2> USE DEF SwitchSeries, At, Rough
    <2>1. /\ lock' \in Lock /\ fork' \in Fork /\ ks' \in State
          /\ tree' \in 0..MaxVer /\ repo' \in 0..MaxVer /\ vouched' \subseteq Artifacts
          /\ links' \in {"none", "ours", "foreign"} /\ env' \in {"calm", "rough"}
      <3>1. lock' \in Lock
        BY <1>8, Reads DEF TypeOK, Lock
      <3>2. fork' \in Fork
        BY <1>8, Reads, FilesTyped DEF TypeOK
      <3>3. ks' \in State
        BY <1>8, FilesTyped DEF TypeOK, Freeze
      <3>4. tree' \in 0..MaxVer
        BY <1>8 DEF TypeOK
      <3> QED BY <1>8, <3>1, <3>2, <3>3, <3>4 DEF TypeOK
    <2>2. /\ proc' \in [Procs -> Process]
         /\ \A q \in Procs : proc'[q].pc \in Comparing => proc'[q].pin # None
      BY <1>8 DEF TypeOK
    <2> QED BY <2>1, <2>2 DEF TypeOK
  <1>9. CASE Sync
    <2> USE DEF Sync, At, Rough
    <2>1. /\ lock' \in Lock /\ fork' \in Fork /\ ks' \in State
          /\ tree' \in 0..MaxVer /\ repo' \in 0..MaxVer /\ vouched' \subseteq Artifacts
          /\ links' \in {"none", "ours", "foreign"} /\ env' \in {"calm", "rough"}
      <3>1. lock' \in Lock
        BY <1>9, Reads DEF TypeOK, Lock
      <3>2. fork' \in Fork
        BY <1>9, Reads, FilesTyped DEF TypeOK
      <3>3. ks' \in State
        BY <1>9, FilesTyped DEF TypeOK, Freeze
      <3>4. tree' \in 0..MaxVer
        BY <1>9 DEF TypeOK
      <3> QED BY <1>9, <3>1, <3>2, <3>3, <3>4 DEF TypeOK
    <2>2. /\ proc' \in [Procs -> Process]
         /\ \A q \in Procs : proc'[q].pc \in Comparing => proc'[q].pin # None
      BY <1>9 DEF TypeOK
    <2> QED BY <2>1, <2>2 DEF TypeOK
  <1>10. CASE Adopt
    <2> USE DEF Adopt, At, Rough
    <2>1. /\ lock' \in Lock /\ fork' \in Fork /\ ks' \in State
          /\ tree' \in 0..MaxVer /\ repo' \in 0..MaxVer /\ vouched' \subseteq Artifacts
          /\ links' \in {"none", "ours", "foreign"} /\ env' \in {"calm", "rough"}
      BY <1>10, Reads, FilesTyped DEF TypeOK, Freeze, Work, Comparing
    <2>2. /\ proc' \in [Procs -> Process]
         /\ \A q \in Procs : proc'[q].pc \in Comparing => proc'[q].pin # None
      BY <1>10 DEF TypeOK
    <2> QED BY <2>1, <2>2 DEF TypeOK
  <1> QED BY <1>1, <1>2, <1>3, <1>4, <1>5, <1>6, <1>7, <1>8, <1>9, <1>10 DEF Pinning, Outside

\* Types are kept by every step: every process always has an artifact to
\* compare with where it fetches, writes or pins (Trust, Propose).
THEOREM TypeCorrect == Spec => []TypeOK
  <1>1. TypeOK /\ [Next]_vars => TypeOK'
    <2> SUFFICES ASSUME TypeOK, [Next]_vars PROVE TypeOK'
      OBVIOUS
    <2>1. CASE Next
      BY <2>1, CircuitTypeOK, CachingTypeOK, OtherTypeOK DEF Next
    <2>2. CASE UNCHANGED vars
      BY <2>2 DEF vars, TypeOK
    <2> QED BY <2>1, <2>2
  <1> QED BY InitTypeOK, <1>1, PTL DEF Spec

-----------------------------------------------------------------------------
(* Only what a human vouched for is ever applied.                          *)

\* What a process, the cache or a fork may hold of a patch.
Approved(x) == x \in vouched \cup {Torn, None}

\* The artifact a process works with has been approved from here on.
Committed == {"fetch", "open", "write", "append", "appending"}

\* The strengthening: the pin is approved, and so is what every process is
\* about to write (its pin) or to place (its patch).
Chain ==
  /\ Approved(fork.patch)
  /\ lock.pin \in vouched \cup {None}
  /\ \A p \in Procs : Approved(proc[p].patch)
  /\ \A p \in Procs : proc[p].pc \in Committed => proc[p].pin \in vouched

\* The chain holds before anything happened.
LEMMA InitChain == Init => Chain
  BY LocalsHold DEF Init, Chain, Approved, Committed, NoFork

\* A step of the synthesis circuit keeps the chain.
LEMMA CircuitChain ==
  ASSUME TypeOK, Chain, NEW p \in Procs, Circuit(p) PROVE Chain'
  <1>1. CASE Classify(p)
    <2> USE DEF Classify, Bumped, Goes, Freeze, Work, GivesUp, NoFork, Rough, At
    <2>1. vouched \subseteq vouched'
      BY <1>1
    <2>2. fork'.patch \in vouched' \cup {Torn, None}
      BY <1>1, <2>1, Reads DEF Chain, Approved, Committed, TypeOK, Fork
    <2>3. lock'.pin \in vouched' \cup {None}
      BY <1>1, <2>1, Reads DEF Chain, Committed, TypeOK, Lock
    <2>4. \A q \in Procs : proc'[q].patch \in vouched' \cup {Torn, None}
      BY <1>1, <2>1, Reads, LocalsHold DEF Chain, Approved
    <2>5. \A q \in Procs : proc'[q].pc \in Committed => proc'[q].pin \in vouched'
      BY <1>1, <2>1, Reads, LocalsHold DEF Chain, Committed
    <2> QED BY <2>2, <2>3, <2>4, <2>5 DEF Chain, Approved
  <1>2. CASE Trust(p)
    <2> USE DEF Trust, Pinned, Reusable, Goes, Freeze, Work, GivesUp, NoFork, Rough, At
    <2>1. vouched \subseteq vouched'
      BY <1>2
    <2>2. fork'.patch \in vouched' \cup {Torn, None}
      BY <1>2, <2>1, Reads DEF Chain, Approved, Committed, TypeOK, Fork
    <2>3. lock'.pin \in vouched' \cup {None}
      BY <1>2, <2>1, Reads DEF Chain, Committed, TypeOK, Lock
    <2>4. \A q \in Procs : proc'[q].patch \in vouched' \cup {Torn, None}
      BY <1>2, <2>1, Reads, LocalsHold DEF Chain, Approved
    <2>5. \A q \in Procs : proc'[q].pc \in Committed => proc'[q].pin \in vouched'
      BY <1>2, <2>1, Reads, LocalsHold DEF Chain, Committed
    <2> QED BY <2>2, <2>3, <2>4, <2>5 DEF Chain, Approved
  <1>3. CASE Fetch(p)
    <2> USE DEF Fetch, Accept, Goes, Freeze, Work, GivesUp, NoFork, Rough, At
    <2>1. vouched \subseteq vouched'
      BY <1>3
    <2>2. fork'.patch \in vouched' \cup {Torn, None}
      BY <1>3, <2>1, Reads DEF Chain, Approved, Committed, TypeOK, Fork
    <2>3. lock'.pin \in vouched' \cup {None}
      BY <1>3, <2>1, Reads DEF Chain, Committed, TypeOK, Lock
    <2>4. \A q \in Procs : proc'[q].patch \in vouched' \cup {Torn, None}
      BY <1>3, <2>1, Reads, LocalsHold DEF Chain, Approved
    <2>5. \A q \in Procs : proc'[q].pc \in Committed => proc'[q].pin \in vouched'
      BY <1>3, <2>1, Reads, LocalsHold DEF Chain, Committed
    <2> QED BY <2>2, <2>3, <2>4, <2>5 DEF Chain, Approved
  <1>4. CASE ReadCache(p)
    <2> USE DEF ReadCache, Goes, Freeze, Work, GivesUp, NoFork, Rough, At
    <2>1. vouched \subseteq vouched'
      BY <1>4
    <2>2. fork'.patch \in vouched' \cup {Torn, None}
      BY <1>4, <2>1, Reads DEF Chain, Approved, Committed, TypeOK, Fork
    <2>3. lock'.pin \in vouched' \cup {None}
      BY <1>4, <2>1, Reads DEF Chain, Committed, TypeOK, Lock
    <2>4. \A q \in Procs : proc'[q].patch \in vouched' \cup {Torn, None}
      BY <1>4, <2>1, Reads, LocalsHold DEF Chain, Approved
    <2>5. \A q \in Procs : proc'[q].pc \in Committed => proc'[q].pin \in vouched'
      BY <1>4, <2>1, Reads, LocalsHold DEF Chain, Committed
    <2> QED BY <2>2, <2>3, <2>4, <2>5 DEF Chain, Approved
  <1>5. CASE Stage(p)
    <2> USE DEF Stage, Goes, Freeze, Work, GivesUp, NoFork, Rough, At
    <2>1. vouched \subseteq vouched'
      BY <1>5
    <2>2. fork'.patch \in vouched' \cup {Torn, None}
      BY <1>5, <2>1, Reads DEF Chain, Approved, Committed, TypeOK, Fork
    <2>3. lock'.pin \in vouched' \cup {None}
      BY <1>5, <2>1, Reads DEF Chain, Committed, TypeOK, Lock
    <2>4. \A q \in Procs : proc'[q].patch \in vouched' \cup {Torn, None}
      BY <1>5, <2>1, Reads, LocalsHold DEF Chain, Approved
    <2>5. \A q \in Procs : proc'[q].pc \in Committed => proc'[q].pin \in vouched'
      BY <1>5, <2>1, Reads, LocalsHold DEF Chain, Committed
    <2> QED BY <2>2, <2>3, <2>4, <2>5 DEF Chain, Approved
  <1>6. CASE MoveAway(p)
    <2> USE DEF MoveAway, Goes, Freeze, Work, GivesUp, NoFork, Rough, At
    <2>1. vouched \subseteq vouched'
      BY <1>6
    <2>2. fork'.patch \in vouched' \cup {Torn, None}
      BY <1>6, <2>1, Reads DEF Chain, Approved, Committed, TypeOK, Fork
    <2>3. lock'.pin \in vouched' \cup {None}
      BY <1>6, <2>1, Reads DEF Chain, Committed, TypeOK, Lock
    <2>4. \A q \in Procs : proc'[q].patch \in vouched' \cup {Torn, None}
      BY <1>6, <2>1, Reads, LocalsHold DEF Chain, Approved, Process
    <2>5. \A q \in Procs : proc'[q].pc \in Committed => proc'[q].pin \in vouched'
      BY <1>6, <2>1, Reads, LocalsHold DEF Chain, Committed, Process
    <2> QED BY <2>2, <2>3, <2>4, <2>5 DEF Chain, Approved
  <1>7. CASE PlaceNew(p)
    <2> USE DEF PlaceNew, Goes, Freeze, Work, GivesUp, NoFork, Rough, At
    <2>1. vouched \subseteq vouched'
      BY <1>7
    <2>2. fork'.patch \in vouched' \cup {Torn, None}
      BY <1>7, <2>1, Reads DEF Chain, Approved, Committed, TypeOK, Fork
    <2>3. lock'.pin \in vouched' \cup {None}
      BY <1>7, <2>1, Reads DEF Chain, Committed, TypeOK, Lock
    <2>4. \A q \in Procs : proc'[q].patch \in vouched' \cup {Torn, None}
      BY <1>7, <2>1, Reads, LocalsHold DEF Chain, Approved
    <2>5. \A q \in Procs : proc'[q].pc \in Committed => proc'[q].pin \in vouched'
      BY <1>7, <2>1, Reads, LocalsHold DEF Chain, Committed
    <2> QED BY <2>2, <2>3, <2>4, <2>5 DEF Chain, Approved
  <1>8. CASE LinkSubpackages(p)
    <2> USE DEF LinkSubpackages, Goes, Freeze, Work, GivesUp, NoFork, Rough, At
    <2>1. vouched \subseteq vouched'
      BY <1>8
    <2>2. fork'.patch \in vouched' \cup {Torn, None}
      BY <1>8, <2>1, Reads DEF Chain, Approved, Committed, TypeOK, Fork
    <2>3. lock'.pin \in vouched' \cup {None}
      BY <1>8, <2>1, Reads DEF Chain, Committed, TypeOK, Lock
    <2>4. \A q \in Procs : proc'[q].patch \in vouched' \cup {Torn, None}
      BY <1>8, <2>1, Reads, LocalsHold DEF Chain, Approved
    <2>5. \A q \in Procs : proc'[q].pc \in Committed => proc'[q].pin \in vouched'
      BY <1>8, <2>1, Reads, LocalsHold DEF Chain, Committed
    <2> QED BY <2>2, <2>3, <2>4, <2>5 DEF Chain, Approved
  <1>9. CASE Queue(p)
    <2> USE DEF Queue, Outdated, Goes, Freeze, Work, GivesUp, NoFork, Rough, At
    <2>1. vouched \subseteq vouched'
      BY <1>9
    <2>2. fork'.patch \in vouched' \cup {Torn, None}
      BY <1>9, <2>1, Reads DEF Chain, Approved, Committed, TypeOK, Fork
    <2>3. lock'.pin \in vouched' \cup {None}
      BY <1>9, <2>1, Reads DEF Chain, Committed, TypeOK, Lock
    <2>4. \A q \in Procs : proc'[q].patch \in vouched' \cup {Torn, None}
      BY <1>9, <2>1, Reads, LocalsHold DEF Chain, Approved
    <2>5. \A q \in Procs : proc'[q].pc \in Committed => proc'[q].pin \in vouched'
      BY <1>9, <2>1, Reads, LocalsHold DEF Chain, Committed
    <2> QED BY <2>2, <2>3, <2>4, <2>5 DEF Chain, Approved
  <1> QED BY <1>1, <1>2, <1>3, <1>4, <1>5, <1>6, <1>7, <1>8, <1>9 DEF Circuit

\* So do writing the cache and a kill.
LEMMA CachingChain ==
  ASSUME TypeOK, Chain, NEW p \in Procs, Caching(p) \/ Kill(p) PROVE Chain'
  <1>1. CASE OpenCache(p)
    <2> USE DEF OpenCache, Goes, Freeze, Work, GivesUp, NoFork, Rough, At
    <2>1. vouched \subseteq vouched'
      BY <1>1
    <2>2. fork'.patch \in vouched' \cup {Torn, None}
      BY <1>1, <2>1, Reads DEF Chain, Approved, Committed, TypeOK, Fork
    <2>3. lock'.pin \in vouched' \cup {None}
      BY <1>1, <2>1, Reads DEF Chain, Committed, TypeOK, Lock
    <2>4. \A q \in Procs : proc'[q].patch \in vouched' \cup {Torn, None}
      BY <1>1, <2>1, Reads, LocalsHold DEF Chain, Approved
    <2>5. \A q \in Procs : proc'[q].pc \in Committed => proc'[q].pin \in vouched'
      BY <1>1, <2>1, Reads, LocalsHold DEF Chain, Committed
    <2> QED BY <2>2, <2>3, <2>4, <2>5 DEF Chain, Approved
  <1>2. CASE WriteCache(p)
    <2> USE DEF WriteCache, Goes, Freeze, Work, GivesUp, NoFork, Rough, At
    <2>1. vouched \subseteq vouched'
      BY <1>2
    <2>2. fork'.patch \in vouched' \cup {Torn, None}
      BY <1>2, <2>1, Reads DEF Chain, Approved, Committed, TypeOK, Fork
    <2>3. lock'.pin \in vouched' \cup {None}
      BY <1>2, <2>1, Reads DEF Chain, Committed, TypeOK, Lock
    <2>4. \A q \in Procs : proc'[q].patch \in vouched' \cup {Torn, None}
      BY <1>2, <2>1, Reads, LocalsHold DEF Chain, Approved
    <2>5. \A q \in Procs : proc'[q].pc \in Committed => proc'[q].pin \in vouched'
      BY <1>2, <2>1, Reads, LocalsHold DEF Chain, Committed
    <2> QED BY <2>2, <2>3, <2>4, <2>5 DEF Chain, Approved
  <1>3. CASE Kill(p)
    <2> USE DEF Kill, Goes, Freeze, Work, GivesUp, NoFork, Rough, At
    <2>1. vouched \subseteq vouched'
      BY <1>3
    <2>2. fork'.patch \in vouched' \cup {Torn, None}
      BY <1>3, <2>1, Reads DEF Chain, Approved, Committed, TypeOK, Fork
    <2>3. lock'.pin \in vouched' \cup {None}
      BY <1>3, <2>1, Reads DEF Chain, Committed, TypeOK, Lock
    <2>4. \A q \in Procs : proc'[q].patch \in vouched' \cup {Torn, None}
      BY <1>3, <2>1, Reads, LocalsHold DEF Chain, Approved
    <2>5. \A q \in Procs : proc'[q].pc \in Committed => proc'[q].pin \in vouched'
      BY <1>3, <2>1, Reads, LocalsHold DEF Chain, Committed
    <2> QED BY <2>2, <2>3, <2>4, <2>5 DEF Chain, Approved
  <1> QED BY <1>1, <1>2, <1>3 DEF Caching

\* So does every other step.
LEMMA OtherChain ==
  ASSUME TypeOK, Chain, Gate \/ Build \/ Pinning \/ Outside PROVE Chain'
  <1>1. CASE Gate
    <2> USE DEF Gate, Goes, Freeze, Work, GivesUp, NoFork, Rough, At
    <2>1. vouched \subseteq vouched'
      BY <1>1
    <2>2. fork'.patch \in vouched' \cup {Torn, None}
      BY <1>1, <2>1, Reads DEF Chain, Approved, Committed, TypeOK, Fork
    <2>3. lock'.pin \in vouched' \cup {None}
      BY <1>1, <2>1, Reads DEF Chain, Committed, TypeOK, Lock
    <2>4. \A q \in Procs : proc'[q].patch \in vouched' \cup {Torn, None}
      BY <1>1, <2>1, Reads, LocalsHold DEF Chain, Approved
    <2>5. \A q \in Procs : proc'[q].pc \in Committed => proc'[q].pin \in vouched'
      BY <1>1, <2>1, Reads, LocalsHold DEF Chain, Committed
    <2> QED BY <2>2, <2>3, <2>4, <2>5 DEF Chain, Approved
  <1>2. CASE Build
    <2> USE DEF Build, Goes, Freeze, Work, GivesUp, NoFork, Rough, At
    <2>1. vouched \subseteq vouched'
      BY <1>2
    <2>2. fork'.patch \in vouched' \cup {Torn, None}
      BY <1>2, <2>1, Reads DEF Chain, Approved, Committed, TypeOK, Fork
    <2>3. lock'.pin \in vouched' \cup {None}
      BY <1>2, <2>1, Reads DEF Chain, Committed, TypeOK, Lock
    <2>4. \A q \in Procs : proc'[q].patch \in vouched' \cup {Torn, None}
      BY <1>2, <2>1, Reads, LocalsHold DEF Chain, Approved
    <2>5. \A q \in Procs : proc'[q].pc \in Committed => proc'[q].pin \in vouched'
      BY <1>2, <2>1, Reads, LocalsHold DEF Chain, Committed
    <2> QED BY <2>2, <2>3, <2>4, <2>5 DEF Chain, Approved
  <1>3. CASE Propose
    <2> USE DEF Propose, Goes, Freeze, Work, GivesUp, NoFork, Rough, At
    <2>1. vouched \subseteq vouched'
      BY <1>3
    <2>2. fork'.patch \in vouched' \cup {Torn, None}
      BY <1>3, <2>1, Reads DEF Chain, Approved, Committed, TypeOK, Fork
    <2>3. lock'.pin \in vouched' \cup {None}
      BY <1>3, <2>1, Reads DEF Chain, Committed, TypeOK, Lock
    <2>4. \A q \in Procs : proc'[q].patch \in vouched' \cup {Torn, None}
      BY <1>3, <2>1, Reads, LocalsHold DEF Chain, Approved
    <2>5. \A q \in Procs : proc'[q].pc \in Committed => proc'[q].pin \in vouched'
      BY <1>3, <2>1, Reads, LocalsHold DEF Chain, Committed
    <2> QED BY <2>2, <2>3, <2>4, <2>5 DEF Chain, Approved
  <1>4. CASE Answer
    <2> USE DEF Answer, Goes, Freeze, Work, GivesUp, NoFork, Rough, At
    <2>1. vouched \subseteq vouched'
      BY <1>4
    <2>2. fork'.patch \in vouched' \cup {Torn, None}
      BY <1>4, <2>1, Reads DEF Chain, Approved, Committed, TypeOK, Fork
    <2>3. lock'.pin \in vouched' \cup {None}
      BY <1>4, <2>1, Reads DEF Chain, Committed, TypeOK, Lock
    <2>4. \A q \in Procs : proc'[q].patch \in vouched' \cup {Torn, None}
      BY <1>4, <2>1, Reads, LocalsHold DEF Chain, Approved
    <2>5. \A q \in Procs : proc'[q].pc \in Committed => proc'[q].pin \in vouched'
      BY <1>4, <2>1, Reads, LocalsHold DEF Chain, Committed
    <2> QED BY <2>2, <2>3, <2>4, <2>5 DEF Chain, Approved
  <1>5. CASE AppendPin
    <2> USE DEF AppendPin, Goes, Freeze, Work, GivesUp, NoFork, Rough, At
    <2>1. vouched \subseteq vouched'
      BY <1>5
    <2>2. fork'.patch \in vouched' \cup {Torn, None}
      BY <1>5, <2>1, Reads DEF Chain, Approved, Committed, TypeOK, Fork
    <2>3. lock'.pin \in vouched' \cup {None}
      BY <1>5, <2>1, Reads DEF Chain, Committed, TypeOK, Lock
    <2>4. \A q \in Procs : proc'[q].patch \in vouched' \cup {Torn, None}
      BY <1>5, <2>1, Reads, LocalsHold DEF Chain, Approved
    <2>5. \A q \in Procs : proc'[q].pc \in Committed => proc'[q].pin \in vouched'
      BY <1>5, <2>1, Reads, LocalsHold DEF Chain, Committed
    <2> QED BY <2>2, <2>3, <2>4, <2>5 DEF Chain, Approved
  <1>6. CASE FinishPin
    <2> USE DEF FinishPin, Goes, Freeze, Work, GivesUp, NoFork, Rough, At
    <2>1. vouched \subseteq vouched'
      BY <1>6
    <2>2. fork'.patch \in vouched' \cup {Torn, None}
      BY <1>6, <2>1, Reads DEF Chain, Approved, Committed, TypeOK, Fork
    <2>3. lock'.pin \in vouched' \cup {None}
      BY <1>6, <2>1, Reads DEF Chain, Committed, TypeOK, Lock
    <2>4. \A q \in Procs : proc'[q].patch \in vouched' \cup {Torn, None}
      BY <1>6, <2>1, Reads, LocalsHold DEF Chain, Approved
    <2>5. \A q \in Procs : proc'[q].pc \in Committed => proc'[q].pin \in vouched'
      BY <1>6, <2>1, Reads, LocalsHold DEF Chain, Committed
    <2> QED BY <2>2, <2>3, <2>4, <2>5 DEF Chain, Approved
  <1>7. CASE Acknowledge
    <2> USE DEF Acknowledge, Goes, Freeze, Work, GivesUp, NoFork, Rough, At
    <2>1. vouched \subseteq vouched'
      BY <1>7
    <2>2. fork'.patch \in vouched' \cup {Torn, None}
      BY <1>7, <2>1, Reads DEF Chain, Approved, Committed, TypeOK, Fork
    <2>3. lock'.pin \in vouched' \cup {None}
      BY <1>7, <2>1, Reads DEF Chain, Committed, TypeOK, Lock
    <2>4. \A q \in Procs : proc'[q].patch \in vouched' \cup {Torn, None}
      BY <1>7, <2>1, Reads, LocalsHold DEF Chain, Approved
    <2>5. \A q \in Procs : proc'[q].pc \in Committed => proc'[q].pin \in vouched'
      BY <1>7, <2>1, Reads, LocalsHold DEF Chain, Committed
    <2> QED BY <2>2, <2>3, <2>4, <2>5 DEF Chain, Approved
  <1>8. CASE SwitchSeries
    <2> USE DEF SwitchSeries, Goes, Freeze, Work, GivesUp, NoFork, Rough, At
    <2>1. vouched \subseteq vouched'
      BY <1>8
    <2>2. fork'.patch \in vouched' \cup {Torn, None}
      BY <1>8, <2>1, Reads DEF Chain, Approved, Committed, TypeOK, Fork
    <2>3. lock'.pin \in vouched' \cup {None}
      BY <1>8, <2>1, Reads DEF Chain, Committed, TypeOK, Lock
    <2>4. \A q \in Procs : proc'[q].patch \in vouched' \cup {Torn, None}
      BY <1>8, <2>1, Reads, LocalsHold DEF Chain, Approved
    <2>5. \A q \in Procs : proc'[q].pc \in Committed => proc'[q].pin \in vouched'
      BY <1>8, <2>1, Reads, LocalsHold DEF Chain, Committed
    <2> QED BY <2>2, <2>3, <2>4, <2>5 DEF Chain, Approved
  <1>9. CASE Sync
    <2> USE DEF Sync, Goes, Freeze, Work, GivesUp, NoFork, Rough, At
    <2>1. vouched \subseteq vouched'
      BY <1>9
    <2>2. fork'.patch \in vouched' \cup {Torn, None}
      BY <1>9, <2>1, Reads DEF Chain, Approved, Committed, TypeOK, Fork
    <2>3. lock'.pin \in vouched' \cup {None}
      BY <1>9, <2>1, Reads DEF Chain, Committed, TypeOK, Lock
    <2>4. \A q \in Procs : proc'[q].patch \in vouched' \cup {Torn, None}
      BY <1>9, <2>1, Reads, LocalsHold DEF Chain, Approved
    <2>5. \A q \in Procs : proc'[q].pc \in Committed => proc'[q].pin \in vouched'
      BY <1>9, <2>1, Reads, LocalsHold DEF Chain, Committed
    <2> QED BY <2>2, <2>3, <2>4, <2>5 DEF Chain, Approved
  <1>10. CASE Adopt
    <2> USE DEF Adopt, Goes, Freeze, Work, GivesUp, NoFork, Rough, At
    <2>1. vouched \subseteq vouched'
      BY <1>10
    <2>2. fork'.patch \in vouched' \cup {Torn, None}
      BY <1>10, <2>1, Reads DEF Chain, Approved, Committed, TypeOK, Fork
    <2>3. lock'.pin \in vouched' \cup {None}
      BY <1>10, <2>1, Reads DEF Chain, Committed, TypeOK, Lock
    <2>4. \A q \in Procs : proc'[q].patch \in vouched' \cup {Torn, None}
      BY <1>10, <2>1, Reads, LocalsHold DEF Chain, Approved
    <2>5. \A q \in Procs : proc'[q].pc \in Committed => proc'[q].pin \in vouched'
      BY <1>10, <2>1, Reads, LocalsHold DEF Chain, Committed
    <2> QED BY <2>2, <2>3, <2>4, <2>5 DEF Chain, Approved
  <1> QED BY <1>1, <1>2, <1>3, <1>4, <1>5, <1>6, <1>7, <1>8, <1>9, <1>10 DEF Pinning, Outside

\* No artifact a human did not approve reaches the live fork, for every set of
\* artifacts upstream may serve and every number of processes that fetch, pin,
\* seed and swap at once.
THEOREM OnlyVouchedHolds == Spec => []OnlyVouched
  <1>1. TypeOK /\ Chain /\ [Next]_vars => Chain'
    <2> SUFFICES ASSUME TypeOK, Chain, [Next]_vars PROVE Chain'
      OBVIOUS
    <2>1. CASE Next
      BY <2>1, CircuitChain, CachingChain, OtherChain DEF Next
    <2>2. CASE UNCHANGED vars
      BY <2>2 DEF vars, Chain, Approved
    <2> QED BY <2>1, <2>2
  <1>2. Chain => OnlyVouched
    BY DEF Chain, Approved, OnlyVouched
  <1> QED BY InitChain, TypeCorrect, <1>1, <1>2, PTL DEF Spec

-----------------------------------------------------------------------------
(* A crash needs no human.                                                 *)

\* In a calm world, with no preview beside the commit run: the series stays pinned,
\* --pin-bore has nothing to do, a fork with a template holds the pinned patch, and
\* whatever a kill left is mended before it is compared, placed or built.
Mended ==
  /\ lock.ok /\ lock.pin # None /\ tree # 0 /\ ~ks.frozen /\ links # "foreign"
  /\ proc["pin"].pc = "idle"
  /\ fork.ver # 0 => fork.patch = lock.pin
  /\ LET run == proc["commit"] IN
       /\ run.pc \in {"fetch", "open", "write"} => run.pin = lock.pin /\ fork.ver = 0
       /\ run.pc = "write" => run.hold
       /\ run.pc = "read" => fork.patch = lock.pin
       /\ run.pc \in {"stage", "move", "place"} => run.patch = lock.pin
       /\ run.pc = "place" => ~fork.dir
       /\ run.pc \in {"gate", "build"} => fork.ver # 0

CalmMends == ~Rough => Mended

\* What an action of the commit run says of the run's own local variables.
LEMMA OwnLocals ==
  ASSUME TypeOK, NEW p \in Procs, NEW new, Goes(p, new)
  PROVE  proc'[p] = new /\ \A q \in Procs \ {p} : proc'[q] = proc[q]
  BY DEF TypeOK, Goes

\* The commit run mends what it finds.
LEMMA CircuitMends ==
  ASSUME Previews = {}, TypeOK, ~Rough, Mended, NEW p \in Procs, Circuit(p) PROVE Mended'
  <1>1. p = "commit" /\ Procs = {"commit", "pin"} /\ proc[p] \in Process
    <2>1. p \in Syncing
      BY DEF Circuit, Classify, Trust, Fetch, ReadCache, Stage, MoveAway, PlaceNew,
             LinkSubpackages, Queue, At
    <2> QED BY <2>1 DEF Syncing, Procs, TypeOK
  <1>2. lock.pin \in Artifacts /\ lock.pin # Torn /\ lock.pin # None
    BY Reads DEF Mended
  <1> USE DEF Mended, At
  <1>3. CASE Classify(p)
    BY <1>1, <1>2, <1>3, Reads, OwnLocals, LocalsHold
    DEF Classify, Bumped, GivesUp, Freeze, Work, TypeOK, State, WithPin, Rough
  <1>4. CASE Trust(p)
    BY <1>1, <1>2, <1>4, Reads, OwnLocals, LocalsHold
    DEF Trust, Pinned, Reusable, GivesUp, Freeze, Work, TypeOK, State, WithPin, Rough
  <1>5. CASE Fetch(p)
    <2>1. ~Rough /\ ~\E q \in Procs \ {p} : proc[q].pc # "idle"
      BY <1>1
    <2>2. /\ Goes(p, WithPin("open", proc[p].pin))
          /\ fork' = [fork EXCEPT !.dir = TRUE]
          /\ UNCHANGED <<ks, lock, tree, links, repo, env, vouched>>
          /\ proc[p].pc = "fetch"
      BY <1>5, <2>1 DEF Fetch, Accept
    <2> QED
      BY <1>1, <2>2, Reads, OwnLocals, LocalsHold DEF TypeOK, Fork
  <1>6. CASE ReadCache(p)
    BY <1>1, <1>2, <1>6, Reads, OwnLocals, LocalsHold
    DEF ReadCache, GivesUp, Freeze, Work, TypeOK, State, WithPin, Rough
  <1>7. CASE Stage(p)
    BY <1>1, <1>2, <1>7, Reads, OwnLocals, LocalsHold
    DEF Stage, GivesUp, Freeze, Work, TypeOK, State, WithPin, Rough
  <1>8. CASE MoveAway(p)
    <2>1. ~Rough /\ ~\E q \in Syncing \ {p} : proc[q].pc = "place"
      BY <1>1 DEF Syncing
    <2>2. /\ fork' = NoFork /\ UNCHANGED <<ks, lock, tree, links, repo, env, vouched>>
          /\ proc' = [q \in Procs |->
                        IF q = p THEN WithPatch("place", proc[p].patch, proc[p].ver)
                        ELSE [proc[q] EXCEPT !.hold = FALSE]]
          /\ proc[p].pc = "move"
      BY <1>8, <2>1 DEF MoveAway
    <2>3. proc'[p].pc = "place" /\ proc'[p].patch = lock.pin /\ proc'["pin"].pc = "idle"
      BY <1>1, <2>2, Reads, LocalsHold DEF Process
    <2>4. fork'.ver = 0 /\ ~fork'.dir
      BY <2>2, Zenon DEF NoFork
    <2> QED
      BY <1>1, <2>2, <2>3, <2>4
  <1>9. CASE PlaceNew(p)
    BY <1>1, <1>2, <1>9, Reads, OwnLocals, LocalsHold
    DEF PlaceNew, GivesUp, Freeze, Work, TypeOK, State, WithPin, Rough
  <1>10. CASE LinkSubpackages(p)
    BY <1>1, <1>2, <1>10, Reads, OwnLocals, LocalsHold
    DEF LinkSubpackages, GivesUp, Freeze, Work, TypeOK, State, WithPin, Rough
  <1>11. CASE Queue(p)
    BY <1>1, <1>2, <1>11, Reads, OwnLocals, LocalsHold
    DEF Queue, Outdated, GivesUp, Freeze, Work, TypeOK, State, WithPin, Rough
  <1> QED BY <1>3, <1>4, <1>5, <1>6, <1>7, <1>8, <1>9, <1>10, <1>11 DEF Circuit

\* It mends the cache, and a kill leaves what can be mended; --pin-bore takes no step.
LEMMA CachingMends ==
  ASSUME Previews = {}, TypeOK, ~Rough, Mended, NEW p \in Procs, Caching(p) \/ Kill(p)
  PROVE  Mended'
  <1>1. p = "commit" /\ Procs = {"commit", "pin"} /\ proc[p] \in Process
    <2>1. proc[p].pc # "idle"
      BY DEF Caching, OpenCache, WriteCache, Kill
    <2>2. p # "pin"
      BY <2>1 DEF Mended
    <2> QED BY <2>2 DEF Syncing, Procs, TypeOK
  <1>2. lock.pin \in Artifacts /\ lock.pin # Torn /\ lock.pin # None
    BY Reads DEF Mended
  <1> USE DEF Mended
  <1>3. CASE OpenCache(p)
    <2>1. /\ fork' = [fork EXCEPT !.dir = TRUE, !.patch = Torn]
          /\ Goes(p, WithPin("write", proc[p].pin))
          /\ UNCHANGED <<lock, tree, links, ks, repo, env, vouched>>
          /\ proc[p].pc = "open"
      BY <1>3 DEF OpenCache
    <2>2. fork'.ver = fork.ver
      BY <2>1 DEF TypeOK, Fork
    <2>3. /\ proc'[p].pc = "write" /\ proc'[p].pin = lock.pin
          /\ proc'["pin"].pc = "idle"
      BY <1>1, <2>1, OwnLocals, LocalsHold
    <2>4. proc'[p].hold
      <3>1. proc'[p] = WithPin("write", proc[p].pin)
        BY <2>1, OwnLocals
      <3>2. WithPin("write", proc[p].pin).hold = ("write" = "write")
        BY Zenon DEF WithPin
      <3> QED BY <3>1, <3>2
    <2> QED BY <1>1, <2>1, <2>2, <2>3, <2>4
  <1>4. CASE WriteCache(p)
    BY <1>1, <1>2, <1>4, Reads, OwnLocals, LocalsHold DEF WriteCache, TypeOK, Fork
  <1>5. CASE Kill(p)
    BY <1>1, <1>5, OwnLocals, LocalsHold DEF Kill
  <1> QED BY <1>3, <1>4, <1>5 DEF Caching

\* Gate and build find a fork to work with; nobody has a freeze to acknowledge, a
\* series to pin or to switch.
LEMMA OtherMends ==
  ASSUME Previews = {}, TypeOK, ~Rough, Mended, Gate \/ Build \/ Pinning \/ Outside
  PROVE  Mended'
  <1>1. "commit" \in Procs /\ "pin" \in Procs /\ "commit" # "pin"
    BY Reads
  <1>2. lock.pin \in Artifacts /\ lock.pin # Torn /\ lock.pin # None
    BY Reads DEF Mended
  <1> USE DEF Mended
  <1>3. CASE Gate
    BY <1>1, <1>2, <1>3, OwnLocals, LocalsHold DEF Gate
  <1>4. CASE Build
    BY <1>1, <1>2, <1>4, OwnLocals, LocalsHold DEF Build
  <1>5. CASE Pinning
    BY <1>5 DEF Pinning, Propose, Answer, AppendPin, FinishPin
  <1>6. CASE Outside
    <2>1. CASE Sync
      BY <2>1, Reads DEF Sync, TypeOK, Rough
    <2>2. CASE Adopt
      BY <2>2 DEF Adopt, TypeOK, State
    <2> QED BY <1>6, <2>1, <2>2 DEF Outside, Acknowledge, SwitchSeries
  <1> QED BY <1>3, <1>4, <1>5, <1>6

\* Wherever a commit run is killed, and however often, no run after it ends in a
\* freeze, if nothing else goes wrong and no preview runs beside it (one that swaps
\* the fork meanwhile may freeze the state, which TLC shows).
THEOREM CrashesMend ==
  ASSUME Previews = {}
  PROVE  Spec => []CrashNeedsNoHuman
  <1>1. Init => CalmMends
    <2> SUFFICES ASSUME Init, ~Rough PROVE Mended
      BY DEF CalmMends
    <2>1. fork.ver = 0
      BY DEF Init, NoFork
    <2>2. ~ks.frozen /\ lock.ok
      <3>1. ks.frozen = FALSE
        BY DEF Init
      <3>2. lock.ok \in {TRUE}
        BY DEF Init
      <3> QED BY <3>1, <3>2
    <2>3. proc["commit"].pc = "idle" /\ proc["pin"].pc = "idle"
      BY InitTypeOK, Reads, LocalsHold DEF Init
    <2>4. lock.pin # None /\ tree # 0 /\ links # "foreign"
      BY DEF Init
    <2> QED BY <2>1, <2>2, <2>3, <2>4 DEF Mended
  <1>2. TypeOK /\ CalmMends /\ [Next]_vars => CalmMends'
    <2> SUFFICES ASSUME TypeOK, CalmMends, [Next]_vars PROVE CalmMends'
      OBVIOUS
    <2>1. env' = env
      BY DEF Next, Circuit, Caching, Pinning, Outside, Classify, Trust, Fetch, ReadCache,
             Stage, MoveAway, PlaceNew, LinkSubpackages, Queue, OpenCache, WriteCache, Kill,
             Gate, Build, Propose, Answer, AppendPin, FinishPin, Acknowledge, SwitchSeries,
             Sync, Adopt, vars
    <2>2. CASE Rough
      BY <2>1, <2>2 DEF CalmMends, Rough
    <2>3. CASE ~Rough /\ Next
      BY <2>1, <2>3, CircuitMends, CachingMends, OtherMends DEF Next, CalmMends, Rough
    <2>4. CASE UNCHANGED vars
      BY <2>4 DEF vars, CalmMends, Mended, Rough
    <2> QED BY <2>2, <2>3, <2>4
  <1>3. CalmMends => CrashNeedsNoHuman
    BY DEF CalmMends, Mended, CrashNeedsNoHuman
  <1> QED BY <1>1, <1>2, <1>3, TypeCorrect, PTL DEF Spec
=============================================================================
