------------------------------ MODULE StateStore ------------------------------
(***************************************************************************)
(* kernel-state.json and the processes that keep it: each loads the file,  *)
(* changes its own part and saves the whole of it through a temporary file *)
(* and a rename.  The updater and the health daemon do so with no lock     *)
(* between them, and every commit run, a preview included, first sweeps    *)
(* the temporary files it finds, live ones too.  A save may fail at every  *)
(* step, a process may be killed, and a power cut kills all and takes back *)
(* what was not made durable.                                              *)
(***************************************************************************)
EXTENDS Naturals

CONSTANTS
  Writers,   \* the processes that save: the updater, the health daemon
  MaxSaves   \* changes a writer makes to its part (bound)

ASSUME MaxSavesAssumption == MaxSaves \in Nat

\* How many of each writer's changes a file shows.
Changes == [Writers -> 0..MaxSaves]

\* A file: whole, or its bytes not all there.
File     == [whole : BOOLEAN, shows : Changes]
Contents == [whole : {TRUE}, shows : Changes]

Nothing == [w \in Writers |-> 0]
Default == [whole |-> TRUE, shows |-> Nothing]

VARIABLES
  file,     \* what the name kernel-state.json refers to
  left,     \* what it may refer to after a power cut
  tmp,      \* the temporary file of each writer's save
  pc,       \* where each writer is
  copy,     \* what it loaded, changed
  acked,    \* history: the changes of each writer whose save returned
  clean     \* history: no two saves overlapped, no directory sync failed

vars == <<file, left, tmp, pc, copy, acked, clean>>

Steps == {"idle", "loaded", "open", "synced", "renamed"}

Init ==
  /\ file = Default /\ left = {Default}
  /\ tmp = [w \in Writers |-> "none"]
  /\ pc = [w \in Writers |-> "idle"] /\ copy = [w \in Writers |-> Nothing]
  /\ acked = Nothing /\ clean = TRUE

-----------------------------------------------------------------------------
(* load, change, save.                                                     *)

\* KernelStateStore.load, and the caller's update of the dictionary.
Load(w) ==
  /\ pc[w] = "idle" /\ file.whole /\ file.shows[w] < MaxSaves
  /\ copy' = [copy EXCEPT ![w] = [file.shows EXCEPT ![w] = @ + 1]]
  /\ pc' = [pc EXCEPT ![w] = "loaded"]
  /\ clean' = (clean /\ \A v \in Writers : pc[v] = "idle")
  /\ UNCHANGED <<file, left, tmp, acked>>

\* mkstemp in the same directory.
Open(w) ==
  /\ pc[w] = "loaded"
  /\ tmp' = [tmp EXCEPT ![w] = "torn"]
  /\ pc' = [pc EXCEPT ![w] = "open"]
  /\ UNCHANGED <<file, left, copy, acked, clean>>

\* json.dump, flush, fsync, into the descriptor: the name may have been swept.
Write(w) ==
  /\ pc[w] = "open"
  /\ tmp' = [tmp EXCEPT ![w] = IF @ = "none" THEN "none" ELSE "whole"]
  /\ pc' = [pc EXCEPT ![w] = "synced"]
  /\ UNCHANGED <<file, left, copy, acked, clean>>

\* Mutant: renamed as soon as it is opened.
Ready_Early(w) == pc[w] \in {"open", "synced"}

\* The bytes are on the disk before the name is given.
Ready(w) == pc[w] = "synced"

\* os.replace; if the temporary file was swept it raises (GiveUp).
Rename(w) ==
  /\ Ready(w) /\ tmp[w] # "none"
  /\ file' = [whole |-> tmp[w] = "whole", shows |-> copy[w]]
  /\ left' = left \cup {file'}
  /\ tmp' = [tmp EXCEPT ![w] = "none"]
  /\ pc' = [pc EXCEPT ![w] = "renamed"]
  /\ UNCHANGED <<copy, acked, clean>>

\* Mutant: the directory is not synced.
Settled_Never == left

\* What a power cut may leave once the directory is synced.
Settled == {file}

\* _fsync_dir, whose failure is swallowed, and the return to the caller.
Return(w) ==
  /\ pc[w] = "renamed"
  /\ \/ left' = Settled /\ UNCHANGED clean
     \/ UNCHANGED left /\ clean' = FALSE
  /\ acked' = [acked EXCEPT ![w] = copy[w][w]]
  /\ pc' = [pc EXCEPT ![w] = "idle"]
  /\ UNCHANGED <<file, tmp, copy>>

\* A step fails: the temporary file is removed and the exception goes to the
\* caller, which reports it and lives on.
GiveUp(w) ==
  /\ pc[w] \in {"loaded", "open", "synced"}
  /\ tmp' = [tmp EXCEPT ![w] = "none"]
  /\ pc' = [pc EXCEPT ![w] = "idle"]
  /\ UNCHANGED <<file, left, copy, acked, clean>>

-----------------------------------------------------------------------------
(* Sweeps and crashes.                                                     *)

\* sweep_tmp at the start of a commit run: it lists, then unlinks, so which of the
\* live temporary files it takes depends on when they were made.
Sweep ==
  /\ \E found \in SUBSET Writers :
       tmp' = [w \in Writers |-> IF w \in found THEN "none" ELSE tmp[w]]
  /\ UNCHANGED <<file, left, pc, copy, acked, clean>>

\* A writer is killed; its temporary file becomes litter, which nothing reads.
Kill(w) ==
  /\ pc[w] # "idle"
  /\ tmp' = [tmp EXCEPT ![w] = "none"]
  /\ pc' = [pc EXCEPT ![w] = "idle"]
  /\ UNCHANGED <<file, left, copy, acked, clean>>

\* The power goes.
PowerCut ==
  /\ file' \in left /\ left' = {file'}
  /\ tmp' = [w \in Writers |-> "none"]
  /\ pc' = [w \in Writers |-> "idle"]
  /\ UNCHANGED <<copy, acked, clean>>

Saving(w) == Load(w) \/ Open(w) \/ Write(w) \/ Rename(w) \/ Return(w) \/ GiveUp(w)

Next == (\E w \in Writers : Saving(w) \/ Kill(w)) \/ Sweep \/ PowerCut

Spec == Init /\ [][Next]_vars

-----------------------------------------------------------------------------
(* Properties.                                                             *)

\* Every variable has its type; no name, present or left by a power cut, ever
\* refers to bytes that are not all there (write_json_atomic's promise).
TypeOK ==
  /\ file \in Contents /\ left \subseteq Contents
  /\ tmp \in [Writers -> {"none", "torn", "whole"}]
  /\ pc \in [Writers -> Steps]
  /\ copy \in [Writers -> Changes] /\ acked \in Changes /\ clean \in BOOLEAN

\* What a save returned for is there, for the next load and after a power cut,
\* as long as no other process loaded in the middle of a save: the state stores
\* of the updater and the daemon rely on each other's saves being short.
NothingLostAlone ==
  clean => \A w \in Writers :
             \A f \in left \cup {file} : f.shows[w] >= acked[w]

\* The file is an atomic one, sweeps, failures, kills and power cuts included:
\* a reader finds one save's contents whole, a power cut leaves those of the last
\* durable save or of one after it.
Atomic == INSTANCE AtomicFile WITH value <- file
ImplementsAtomicFile == Atomic!Spec
=============================================================================
