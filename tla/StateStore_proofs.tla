-------------------------- MODULE StateStore_proofs --------------------------
(***************************************************************************)
(* For any writers and any number of saves: no reader and no power cut     *)
(* ever finds a half-written state file, no returned save is lost to a     *)
(* save that did not overlap it, and the store implements an atomic file.  *)
(***************************************************************************)
EXTENDS StateStore, TLAPS

\* What is synced is whole, unless it was swept; what is there may stay there.
SyncedIsWhole ==
  /\ \A w \in Writers : pc[w] = "synced" => tmp[w] # "torn"
  /\ file \in left

\* While saves do not overlap, the one under way carries all that was acknowledged,
\* and once it has renamed, the file is its copy.
OneAtATime ==
  /\ \A v, w \in Writers : pc[v] # "idle" /\ pc[w] # "idle" => v = w
  /\ \A w \in Writers : pc[w] # "idle" => \A v \in Writers : copy[w][v] >= acked[v]
  /\ \A w \in Writers : pc[w] = "renamed" => file.shows = copy[w]

IInv == TypeOK /\ SyncedIsWhole
LInv == NothingLostAlone /\ (clean => OneAtATime)

-----------------------------------------------------------------------------
\* The first file is one of the contents.
LEMMA DefaultIsWhole == Default \in Contents /\ Nothing \in Changes
  BY MaxSavesAssumption DEF Default, Nothing, Contents, Changes

\* A file with all its bytes is one of the contents, and contents show changes.
LEMMA WholeIsContents ==
  /\ \A c \in Changes : [whole |-> TRUE, shows |-> c] \in Contents
  /\ \A f \in Contents : f.shows \in Changes
  BY DEF Contents

\* A loaded and changed copy counts changes.
LEMMA CopyTyped ==
  ASSUME NEW c \in Changes, NEW w \in Writers, c[w] < MaxSaves
  PROVE  [c EXCEPT ![w] = @ + 1] \in Changes
  BY MaxSavesAssumption DEF Changes

\* Init establishes the invariant.
LEMMA InitIInv == Init => IInv
  BY DefaultIsWhole DEF Init, IInv, TypeOK, SyncedIsWhole, Steps

\* Every step keeps it.
LEMMA NextIInv == IInv /\ [Next]_vars => IInv'
<1> SUFFICES ASSUME IInv, [Next]_vars PROVE IInv'
  OBVIOUS
<1> USE DEF IInv, TypeOK, SyncedIsWhole, Steps
<1>1. ASSUME NEW w \in Writers, Load(w) PROVE IInv'
  <2>1. copy'[w] \in Changes /\ copy' \in [Writers -> Changes]
    BY <1>1, CopyTyped, WholeIsContents DEF Load
  <2>2. QED
    BY <1>1, <2>1 DEF Load
<1>2. ASSUME NEW w \in Writers, Open(w) PROVE IInv'
  BY <1>2 DEF Open
<1>3. ASSUME NEW w \in Writers, Write(w) PROVE IInv'
  BY <1>3 DEF Write
<1>4. ASSUME NEW w \in Writers, Rename(w) PROVE IInv'
  <2>1. tmp[w] = "whole" /\ copy[w] \in Changes
    BY <1>4 DEF Rename, Ready
  <2>2. file' \in Contents
    BY <1>4, <2>1, WholeIsContents DEF Rename
  <2>3. left' \subseteq Contents /\ file' \in left'
    BY <1>4, <2>2 DEF Rename
  <2>4. QED
    BY <1>4, <2>2, <2>3 DEF Rename
<1>5. ASSUME NEW w \in Writers, Return(w) PROVE IInv'
  <2>1. acked' \in Changes
    BY <1>5 DEF Return, Changes
  <2>2. QED
    BY <1>5, <2>1 DEF Return, Settled
<1>6. ASSUME NEW w \in Writers, GiveUp(w) PROVE IInv'
  BY <1>6 DEF GiveUp
<1>7. ASSUME NEW w \in Writers, Kill(w) PROVE IInv'
  BY <1>7 DEF Kill
<1>8. ASSUME Sweep PROVE IInv'
  BY <1>8 DEF Sweep
<1>9. ASSUME PowerCut PROVE IInv'
  BY <1>9 DEF PowerCut
<1>10. CASE UNCHANGED vars
  BY <1>10 DEF vars
<1> QED
  BY <1>1, <1>2, <1>3, <1>4, <1>5, <1>6, <1>7, <1>8, <1>9, <1>10 DEF Next, Saving

\* No reader and no power cut ever finds a file whose bytes are not all there,
\* whatever is swept, fails or is killed.
THEOREM TypeCorrect == Spec => []TypeOK
<1>1. Init => IInv
  BY InitIInv
<1>2. IInv /\ [Next]_vars => IInv'
  BY NextIInv
<1>3. IInv => TypeOK
  BY DEF IInv
<1> QED
  BY <1>1, <1>2, <1>3, PTL DEF Spec

\* The invariant of every reachable state, for the other theorems.
LEMMA Invariant == Spec => []IInv
  BY InitIInv, NextIInv, PTL DEF Spec

-----------------------------------------------------------------------------
\* Every step keeps what was acknowledged while no two saves overlap.
LEMMA NextLInv == IInv /\ LInv /\ [Next]_vars => LInv'
<1> SUFFICES ASSUME IInv, LInv, [Next]_vars, clean' PROVE OneAtATime' /\
      \A w \in Writers : \A f \in (left \cup {file})' : f.shows[w] >= acked'[w]
  BY DEF LInv, NothingLostAlone
<1>0. TypeOK /\ \A f \in Contents : f.shows \in Changes
  BY WholeIsContents DEF IInv
<1>a. /\ acked \in Changes /\ copy \in [Writers -> Changes]
      /\ \A f \in left \cup {file} : f.shows \in Changes
  BY <1>0 DEF TypeOK
<1>b. \A c \in Changes : c \in [Writers -> Nat]
  BY DEF Changes
<1> DEFINE Kept == \A w \in Writers : \A f \in left \cup {file} : f.shows[w] >= acked[w]
<1>1. ASSUME NEW w \in Writers, Load(w) PROVE OneAtATime' /\ Kept'
  <2>1. clean /\ (\A v \in Writers : pc[v] = "idle")
    BY <1>1 DEF Load
  <2>2. Kept /\ OneAtATime
    BY <2>1 DEF LInv, NothingLostAlone
  <2>3. Kept'
    BY <1>1, <2>2 DEF Load
  <2>4. \A v \in Writers : copy'[w][v] >= acked[v]
    <3> TAKE v \in Writers
    <3>1. file.shows[v] >= acked[v] /\ file.shows \in [Writers -> Nat] /\ acked[v] \in Nat
      BY <2>2, <1>a, <1>b
    <3>2. copy'[w] = [file.shows EXCEPT ![w] = @ + 1]
      BY <1>1, <1>a DEF Load
    <3> QED
      BY <3>1, <3>2
  <2>5. \A v \in Writers : v # w => pc'[v] = "idle"
    BY <1>1, <2>1, <1>0 DEF Load, TypeOK
  <2>6. pc'[w] = "loaded" /\ acked' = acked
    BY <1>1, <1>0 DEF Load, TypeOK
  <2> QED
    BY <2>3, <2>4, <2>5, <2>6 DEF OneAtATime
<1>2. ASSUME NEW w \in Writers, Open(w) \/ Write(w) \/ GiveUp(w) \/ Kill(w)
      PROVE  OneAtATime' /\ Kept'
  <2>1. clean /\ Kept /\ OneAtATime
    BY <1>2 DEF Open, Write, GiveUp, Kill, LInv, NothingLostAlone
  <2>2. /\ UNCHANGED <<file, left, copy, acked>> /\ pc[w] # "idle"
        /\ \A v \in Writers : v # w => pc'[v] = pc[v]
        /\ pc'[w] # "renamed"
    BY <1>2, <1>0 DEF Open, Write, GiveUp, Kill, TypeOK
  <2> QED
    BY <2>1, <2>2 DEF OneAtATime
<1>3. ASSUME NEW w \in Writers, Rename(w) PROVE OneAtATime' /\ Kept'
  <2>1. clean /\ Kept /\ OneAtATime
    BY <1>3 DEF Rename, LInv, NothingLostAlone
  <2>2. /\ UNCHANGED <<copy, acked>> /\ pc[w] # "idle" /\ file'.shows = copy[w]
        /\ pc' = [pc EXCEPT ![w] = "renamed"] /\ left' = left \cup {file'}
    BY <1>3 DEF Rename, Ready
  <2>3. OneAtATime'
    BY <2>1, <2>2, <1>0 DEF OneAtATime, TypeOK
  <2> QED
    BY <2>1, <2>2, <2>3 DEF OneAtATime
<1>4. ASSUME NEW w \in Writers, Return(w) PROVE OneAtATime' /\ Kept'
  <2>1. clean /\ Kept /\ OneAtATime /\ left' = {file} /\ UNCHANGED <<file, copy>>
    BY <1>4 DEF Return, Settled, LInv, NothingLostAlone
  <2>2. /\ pc[w] = "renamed" /\ pc' = [pc EXCEPT ![w] = "idle"]
        /\ acked' = [acked EXCEPT ![w] = copy[w][w]]
    BY <1>4 DEF Return
  <2>3. \A v \in Writers : pc'[v] = "idle"
    BY <2>1, <2>2, <1>0 DEF OneAtATime, TypeOK
  <2>4. \A v \in Writers : file.shows[v] >= acked'[v]
    <3> TAKE v \in Writers
    <3>1. file.shows = copy[w] /\ copy[w][v] >= acked[v] /\ copy[w][v] \in Nat
      BY <2>1, <2>2, <1>a, <1>b DEF OneAtATime
    <3>2. acked'[v] = IF v = w THEN copy[w][w] ELSE acked[v]
      BY <2>2, <1>a, <1>b
    <3> QED
      BY <3>1, <3>2
  <2>5. OneAtATime'
    BY <2>3 DEF OneAtATime
  <2> QED
    BY <2>1, <2>4, <2>5
<1>5. ASSUME Sweep PROVE OneAtATime' /\ Kept'
  BY <1>5 DEF Sweep, LInv, NothingLostAlone, OneAtATime
<1>6. ASSUME PowerCut PROVE OneAtATime' /\ Kept'
  <2>1. Kept
    BY <1>6 DEF PowerCut, LInv, NothingLostAlone
  <2> QED
    BY <1>6, <2>1 DEF PowerCut, OneAtATime
<1>7. CASE UNCHANGED vars
  BY <1>7 DEF vars, LInv, NothingLostAlone, OneAtATime
<1> QED
  BY <1>1, <1>2, <1>3, <1>4, <1>5, <1>6, <1>7 DEF Next, Saving

\* A save that returned is never lost, to a later load or to a power cut, as long
\* as no other process loaded in the middle of a save.
THEOREM NothingLostAloneHolds == Spec => []NothingLostAlone
<1>1. Init => LInv
  <2> SUFFICES ASSUME Init PROVE LInv
    OBVIOUS
  <2>1. file.shows = Nothing /\ acked = Nothing /\ left \cup {file} = {file}
    BY DEF Init, Default
  <2>2. \A w \in Writers : Nothing[w] >= Nothing[w]
    BY DEF Nothing
  <2>3. NothingLostAlone
    BY <2>1, <2>2 DEF NothingLostAlone
  <2>4. \A w \in Writers : pc[w] = "idle"
    BY DEF Init
  <2> QED
    BY <2>3, <2>4 DEF LInv, OneAtATime
<1>2. IInv /\ LInv /\ [Next]_vars => LInv'
  BY NextLInv
<1>3. LInv => NothingLostAlone
  BY DEF LInv
<1> QED
  BY <1>1, <1>2, <1>3, Invariant, PTL DEF Spec

-----------------------------------------------------------------------------
\* Every step of the store is a step of the atomic file or leaves it alone: the
\* rename is its Save, the return of a save whose directory was synced its Settle.
LEMMA StepImplements == IInv /\ [Next]_vars => [Atomic!Save \/ Atomic!Settle \/ Atomic!Cut]_(Atomic!vars)
<1> SUFFICES ASSUME IInv, [Next]_vars
             PROVE  [Atomic!Save \/ Atomic!Settle \/ Atomic!Cut]_(Atomic!vars)
  OBVIOUS
<1>1. ASSUME NEW w \in Writers, Rename(w) PROVE Atomic!Save
  <2>1. file' \in Contents
    BY NextIInv DEF IInv, TypeOK
  <2> QED
    BY <1>1, <2>1 DEF Rename, Atomic!Save
<1>2. ASSUME NEW w \in Writers, Return(w) PROVE Atomic!Settle \/ UNCHANGED Atomic!vars
  BY <1>2 DEF Return, Settled, Atomic!Settle, Atomic!vars
<1>3. ASSUME PowerCut PROVE Atomic!Cut
  BY <1>3 DEF PowerCut, Atomic!Cut
<1>4. ASSUME NEW w \in Writers, Load(w) \/ Open(w) \/ Write(w) \/ GiveUp(w) \/ Kill(w)
      PROVE  UNCHANGED Atomic!vars
  BY <1>4 DEF Load, Open, Write, GiveUp, Kill, Atomic!vars
<1>5. ASSUME Sweep \/ UNCHANGED vars PROVE UNCHANGED Atomic!vars
  BY <1>5 DEF Sweep, vars, Atomic!vars
<1> QED
  BY <1>1, <1>2, <1>3, <1>4, <1>5 DEF Next, Saving

\* The state store implements the atomic file, for any writers.
THEOREM Refinement == Spec => ImplementsAtomicFile
<1>1. Init => Atomic!Init
  BY DEF Init, Atomic!Init
<1>2. IInv /\ [Next]_vars => [Atomic!Save \/ Atomic!Settle \/ Atomic!Cut]_(Atomic!vars)
  BY StepImplements
<1> QED
  BY <1>1, <1>2, Invariant, PTL DEF Spec, ImplementsAtomicFile, Atomic!Spec
=============================================================================
