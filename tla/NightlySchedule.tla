---------------------------- MODULE NightlySchedule ----------------------------
(***************************************************************************)
(* The nightly service and the one-night veto of the kernel.  runit runs a *)
(* script that reads the conf and turns into snooze, which waits for the   *)
(* hour and turns into a sync and then a scheduled commit; when that ends  *)
(* the script starts anew.  The conf may be edited, the service paused and  *)
(* the machine off, at any time; the clock is not set back.                *)
(***************************************************************************)
EXTENDS Integers, FiniteSetsExt

CONSTANTS
  MaxClock,   \* the clock stops here (bound)
  Day,        \* the length of a day, in units of the clock
  Grace,      \* how long past its run a veto is in force: two hours
  Hours,      \* what SNOOZE_HOUR and SNOOZE_MINUTE may say: sets of times of day
  Spellings   \* what SCHEDULE_KERNEL may say

ASSUME BoundsAssumption ==
  /\ MaxClock \in Nat /\ Day \in Nat \ {0} /\ Grace \in 0..Day - 1
  /\ \A h \in Hours : h # {} /\ h \subseteq 0..Day - 1
\* "no" stands for no, NO, false and 0, which every reader takes for no; "No" for the
\* other ways to write these in capitals; "yes" for whatever else.
ASSUME SpellingsAssumption == Spellings \subseteq {"yes", "no", "No"}

Clock    == 0..MaxClock
Expiries == 0..MaxClock + Day + Grace
Conf     == [hours : Hours, kernel : Spellings]
Phases   == {"off", "down", "waiting", "sync", "commit"}

VARIABLES
  clock,    \* the local time
  conf,     \* what /etc/sv/cachy-void-update/conf says
  service,  \* runit's service, and where its run is
  armed,    \* the conf as the script that is running read it
  fired,    \* when snooze last woke
  veto,     \* the expiry in the skip-kernel file, if there is one
  asked,    \* history: the clock time a request named, until a scheduled commit
            \* meets the request
  met,      \* history: the last scheduled commit with the kernel in its scope: was
            \* a request due, was the kernel withheld, how long after the request
  since,    \* history: when the last request was made
  spared,   \* history: kernels withheld since the last request, up to 2
  defied,   \* history: scheduled kernel builds since the conf says no kernel, up to 2
  stuck     \* history: the spent veto could not be unlinked

vars == <<clock, conf, service, armed, fired, veto, asked, met, since, spared, defied, stuck>>
request == <<veto, asked, met, since, spared>>

Init ==
  /\ clock = 0 /\ conf \in Conf /\ service = "off" /\ armed = conf /\ fired = {}
  /\ veto = {} /\ asked = {} /\ met = [due |-> FALSE, withheld |-> FALSE, after |-> 0]
  /\ since = 0 /\ spared = 0 /\ defied = 0 /\ stuck = FALSE

-----------------------------------------------------------------------------
(* The service.                                                            *)

\* The case of the run script: does a run with this conf build the kernel?
Builds(c) == c.kernel # "no"

\* schedule_facts and scheduled_run_line, which lower the case first.
SaysBuilds(c) == c.kernel \notin {"no", "No"}

\* Mutant: the script does not read the conf again.
Reads_Once == armed

\* The script reads the conf whenever it starts.
Reads == conf

\* runit starts the script: the link is made, the service resumed or the machine
\* booted, which re-arms a paused service.
Arm ==
  /\ service \in {"off", "down"} /\ service' = "waiting" /\ armed' = Reads
  /\ UNCHANGED <<clock, conf, fired, request, defied, stuck>>

\* sudo rm of the link, --schedule pause, or the machine goes down.
Stop ==
  /\ service # "off" /\ service' \in {"off", "down"}
  /\ UNCHANGED <<clock, conf, armed, fired, request, defied, stuck>>

\* The owner edits the conf.
EditConf ==
  /\ conf' \in Conf \ {conf}
  /\ defied' = IF Builds(conf') THEN 0 ELSE defied
  /\ UNCHANGED <<clock, service, armed, fired, request, stuck>>

\* snooze wakes at the times it was started with, once at each.
Wake ==
  /\ service = "waiting" /\ clock % Day \in armed.hours /\ fired # {clock}
  /\ service' = "sync" /\ fired' = {clock}
  /\ UNCHANGED <<clock, conf, armed, request, defied, stuck>>

\* The run is over, or its sync failed: runit starts the script again.
Restart ==
  /\ service \in {"sync", "commit"} /\ service' = "waiting" /\ armed' = Reads
  /\ UNCHANGED <<clock, conf, fired, request, defied, stuck>>

-----------------------------------------------------------------------------
(* The veto.                                                               *)

\* schedule_facts: a plain hour is a clock time, a pattern is not.
Plain == \E t \in 0..Day - 1 : conf.hours = {t}

\* The next scheduled run, which the command names.
NextRun == Min({t \in Expiries : t >= clock /\ t % Day \in conf.hours})

\* Mutant: the hour of today, past or not.
Wait_Today == 0

\* Mutant: a run due this minute is tomorrow's.
Wait_Strict == IF NextRun = clock THEN Day ELSE NextRun - clock

\* minutes_until, 0 when the hour is no clock time.
Wait == IF Plain THEN NextRun - clock ELSE 0

\* cmd_skip_kernel_tonight, where there is a scheduled kernel to skip; a write that
\* fails may have cut the file.
SkipTonight ==
  /\ service # "off" /\ SaysBuilds(conf)
  /\ \/ /\ veto' = {clock + Wait + Grace} /\ stuck' = FALSE
        /\ asked' = IF Plain THEN {NextRun} ELSE {}
     \/ veto' = {} /\ asked' = {} /\ UNCHANGED stuck
  /\ since' = clock /\ spared' = 0
  /\ UNCHANGED <<clock, conf, service, armed, fired, met, defied>>

\* Mutant: a flag with no expiry.
InForce_Forever == veto # {}

\* skip_kernel_active.
InForce == \E e \in veto : clock <= e

\* Mutant: the file is left where it is.
Spent_Never == veto

\* One-shot: a veto in force is consumed, one that expired lies about.
Spent == IF InForce THEN {} ELSE veto

\* main, for the scheduled commit: the veto is read and spent before the lock is
\* asked for, so that a run which is then refused has spent it too.
Commit ==
  /\ service = "sync" /\ service' = "commit"
  /\ IF Builds(armed)
       THEN /\ met' = [due |-> \E t \in asked : clock <= t + Grace,
                       withheld |-> InForce, after |-> clock - since]
            /\ asked' = {} /\ UNCHANGED since
            /\ \/ veto' = Spent /\ UNCHANGED stuck
               \/ UNCHANGED veto /\ stuck' = (stuck \/ InForce)
            /\ spared' = IF InForce THEN Min({2, spared + 1}) ELSE spared
            /\ defied' = IF Builds(conf) \/ InForce THEN defied ELSE Min({2, defied + 1})
       ELSE UNCHANGED <<request, defied, stuck>>
  /\ UNCHANGED <<clock, conf, armed, fired>>

-----------------------------------------------------------------------------
(* The clock.                                                              *)

Tick ==
  /\ clock < MaxClock /\ clock' = clock + 1
  /\ UNCHANGED <<conf, service, armed, fired, request, defied, stuck>>

Next == Arm \/ Stop \/ EditConf \/ Wake \/ Restart \/ SkipTonight \/ Commit \/ Tick

Spec == Init /\ [][Next]_vars
-----------------------------------------------------------------------------
(* Properties.                                                             *)

\* Every variable has its type, and no veto reaches further than its grace past the
\* clock time of a day.
TypeOK ==
  /\ clock \in Clock /\ conf \in Conf /\ service \in Phases /\ armed \in Conf
  /\ fired \subseteq Clock /\ veto \subseteq Expiries /\ asked \subseteq Expiries
  /\ met \in [due : BOOLEAN, withheld : BOOLEAN, after : Clock]
  /\ since \in Clock /\ \A e \in veto : e < since + Day + Grace
  /\ spared \in 0..2 /\ defied \in 0..2 /\ stuck \in BOOLEAN

\* A request is kept: the first scheduled commit after it, if that starts no later
\* than Grace past the clock time the command named, does not build the kernel,
\* whatever was edited, stopped or cut short in between (--skip-kernel-tonight).
VetoIsKept == met.due => met.withheld

\* A request never becomes a permanent setting: it spares one run, and should its
\* file resist removal, none that starts later than a day and Grace after it.
VetoNeverPermanent ==
  /\ spared <= 1 \/ stuck
  /\ met.withheld => met.after < Day + Grace

\* When the conf says no kernel, in a spelling the run script knows, at most one more
\* scheduled run builds one: the run whose script had read the conf before
\* (SCHEDULE_KERNEL).
ScopeObeyedAfterOneRun == defied <= 1

\* What the conf says of itself: --status and the window, which read the conf, say
\* which mode is in force.
ModeInForce == defied = 0
=============================================================================
