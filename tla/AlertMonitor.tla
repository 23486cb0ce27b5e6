----------------------------- MODULE AlertMonitor -----------------------------
(***************************************************************************)
(* The monitor of the instances' CPU and RAM: a loop that samples Incus,    *)
(* opens an alert when an instance has been above the threshold for long,  *)
(* and resolves it when it no longer is.                                   *)
(*                                                                         *)
(* Alerts are rows, the samples are in memory.  A run stores its samples   *)
(* when it is over, so that one that stops half-way has changed alerts and *)
(* forgotten why; a restart loses all samples and keeps all alerts.        *)
(*                                                                         *)
(* One process, whose runs do not overlap.  Telling the administrator of a *)
(* new alert is left out: its failure changes nothing.                     *)
(***************************************************************************)
EXTENDS Integers

CONSTANTS Services,
          Duration,   \* how long above the threshold, from config.Duration
          MaxTime,    \* bound: time
          MaxFaults   \* bound: crashes and failed transactions

Types == {"cpu_high", "ram_high"}

\* Definitions marked "Mistake" are not part of the specification.

ASSUME AlertMonitorAssumption ==
  Duration \in Nat /\ MaxTime \in Nat /\ MaxFaults \in Nat

VARIABLES
  monitored,  \* services with an instance row "running" or "stopped"
  open,       \* open alerts of a service and type: how many rows
  sample,     \* samples: when, 0 if never, and above the threshold since when,
              \* 0 if it is not
  lastBelow,  \* history: when a run that ended found it running, and not above
  cleared,    \* history: what the last run to end, or to begin, found not to be
              \* above the threshold, or not running
  now,        \* the time of the last run
  faults,
  run         \* the run in progress: see NoRun

vars == <<monitored, open, sample, lastBelow, cleared, now, faults, run>>

Never == [at |-> 0, since |-> [t \in Types |-> 0]]

\* What Incus says of an instance: not running, or if a percentage is above
\* the threshold, below it or cannot be computed.
Levels == {"above", "below", "unknown"}
Readings == [up : BOOLEAN, level : [Types -> Levels]]
Down == [up |-> FALSE, level |-> [t \in Types |-> "unknown"]]

\* services: those monitored when it began; todo: what is left to look at;
\* alerts: openAlertMap.
NoRun == [active |-> FALSE, services |-> {}, todo |-> {}, alerts |-> {},
          reading |-> [s \in Services |-> Down]]

Fault == faults < MaxFaults /\ faults' = faults + 1

Init ==
  /\ monitored = Services
  /\ open = [s \in Services |-> [t \in Types |-> 0]]
  /\ sample = [s \in Services |-> Never]
  /\ lastBelow = [s \in Services |-> [t \in Types |-> 0]]
  /\ cleared = {}
  /\ now = 0 /\ faults = 0
  /\ run = NoRun

\* A CPU percentage needs a sample before: computeCPUPercent.
Possible(s, reading) ==
  /\ reading.up \/ reading = Down
  /\ sample[s].at = 0 => reading.level["cpu_high"] = "unknown"

\* Mistake: what cannot be computed is taken for what it was.
AboveOrUnknown(s, t) ==
  /\ run.reading[s].up
  /\ \/ run.reading[s].level[t] = "above"
     \/ run.reading[s].level[t] = "unknown" /\ sample[s].since[t] # 0

\* updateAboveSince: is it above, and since when?  If it was not before, since
\* the sample before.
Above(s, t) == run.reading[s].up /\ run.reading[s].level[t] = "above"

\* Mistake: a sample below the threshold does not end the time above it.
SinceFirst(s, t) ==
  IF sample[s].since[t] # 0 THEN sample[s].since[t]
  ELSE IF ~Above(s, t) THEN 0
  ELSE IF sample[s].at # 0 THEN sample[s].at ELSE now

Since(s, t) ==
  IF ~Above(s, t) THEN 0
  ELSE IF sample[s].since[t] # 0 THEN sample[s].since[t]
  ELSE IF sample[s].at # 0 THEN sample[s].at ELSE now

\* The sample a run takes.  Of an instance that is not running it keeps the
\* time of the last one.
Taken(s) == [at |-> IF run.reading[s].up THEN now ELSE sample[s].at,
             since |-> [t \in Types |-> Since(s, t)]]

(***************************************************************************)
(* RunOnce                                                                 *)
(***************************************************************************)

\* The instances, the rows and their open alerts.
Start ==
  /\ ~run.active
  /\ \E time \in (now + 1)..MaxTime, reading \in [monitored -> Readings] :
       /\ \A s \in monitored : Possible(s, reading[s])
       /\ now' = time
       /\ run' = [active |-> TRUE, services |-> monitored,
                  todo |-> monitored \X Types,
                  alerts |-> {p \in monitored \X Types : open[p[1]][p[2]] > 0},
                  reading |-> [s \in Services |->
                                 IF s \in monitored THEN reading[s] ELSE Down]]
  /\ cleared' = {}
  /\ UNCHANGED <<monitored, open, sample, lastBelow, faults>>

\* The next to look at: one service after the other, its CPU before its RAM.
Turn(s, t) ==
  /\ <<s, t>> \in run.todo
  /\ t = "ram_high" => <<s, "cpu_high">> \notin run.todo
  /\ t = "cpu_high" => \A x \in Services \ {s} :
                         <<x, "ram_high">> \in run.todo => <<x, "cpu_high">> \in run.todo

Opens(s, t) == Above(s, t) /\ now - Since(s, t) >= Duration

\* Mistake: openAlertMap is not looked at.
EnsureAnotherAlert(s, t) ==
  /\ Opens(s, t)
  /\ open' = [open EXCEPT ![s][t] = @ + 1]
  /\ run' = [run EXCEPT !.todo = @ \ {<<s, t>>}, !.alerts = @ \union {<<s, t>>}]

\* ensureOpenAlert.
EnsureOpenAlert(s, t) ==
  /\ Opens(s, t)
  /\ open' = IF <<s, t>> \in run.alerts THEN open ELSE [open EXCEPT ![s][t] = @ + 1]
  /\ run' = [run EXCEPT !.todo = @ \ {<<s, t>>}, !.alerts = @ \union {<<s, t>>}]

\* Mistake: there is always one to resolve.
ResolveUnchecked(s, t) ==
  /\ ~Above(s, t)
  /\ open' = [open EXCEPT ![s][t] = @ - 1]
  /\ run' = [run EXCEPT !.todo = @ \ {<<s, t>>}, !.alerts = @ \ {<<s, t>>}]

\* resolveOpenAlert.
ResolveOpenAlert(s, t) ==
  /\ ~Above(s, t)
  /\ open' = IF <<s, t>> \in run.alerts THEN [open EXCEPT ![s][t] = 0] ELSE open
  /\ run' = [run EXCEPT !.todo = @ \ {<<s, t>>}, !.alerts = @ \ {<<s, t>>}]

Look(s, t) ==
  /\ Turn(s, t)
  /\ \/ EnsureOpenAlert(s, t)
     \/ ResolveOpenAlert(s, t)
     \/ /\ Above(s, t) /\ ~Opens(s, t)
        /\ run' = [run EXCEPT !.todo = @ \ {<<s, t>>}]
        /\ UNCHANGED open
  /\ UNCHANGED <<monitored, sample, lastBelow, cleared, now, faults>>

NotAbove(s, t) == ~run.reading[s].up \/ run.reading[s].level[t] # "above"

\* The samples are stored; those of other services are forgotten.
Finish ==
  /\ run.active /\ run.todo = {}
  /\ sample' = [s \in Services |-> IF s \in run.services THEN Taken(s) ELSE Never]
  /\ lastBelow' = [s \in Services |-> [t \in Types |->
       IF run.reading[s].up /\ NotAbove(s, t) THEN now ELSE lastBelow[s][t]]]
  /\ cleared' = {p \in run.services \X Types : NotAbove(p[1], p[2])}
  /\ run' = NoRun
  /\ UNCHANGED <<monitored, open, now, faults>>

\* A query or transaction fails: the run is over and stores nothing.
Fail ==
  /\ run.active
  /\ Fault
  /\ run' = NoRun
  /\ UNCHANGED <<monitored, open, sample, lastBelow, cleared, now>>

\* The process is restarted, with or without a run.
Restart ==
  /\ Fault
  /\ sample' = [s \in Services |-> Never]
  /\ run' = NoRun
  /\ UNCHANGED <<monitored, open, lastBelow, cleared, now>>

\* A service is cancelled: see CancelCommit of module Lifecycle.
Leave(s) ==
  /\ s \in monitored
  /\ monitored' = monitored \ {s}
  /\ UNCHANGED <<open, sample, lastBelow, cleared, now, faults, run>>

Next ==
  \/ Start \/ Finish \/ Fail \/ Restart
  \/ \E s \in Services, t \in Types : Look(s, t)
  \/ \E s \in Services : Leave(s)

Spec == Init /\ [][Next]_vars

-----------------------------------------------------------------------------
(***************************************************************************)
(* Properties                                                              *)
(***************************************************************************)

\* Every alert, sample and run has the values the code can give it.
TypeOK ==
  /\ monitored \in SUBSET Services
  /\ open \in [Services -> [Types -> Nat]]
  /\ sample \in [Services -> [at : 0..MaxTime, since : [Types -> 0..MaxTime]]]
  /\ lastBelow \in [Services -> [Types -> 0..MaxTime]]
  /\ cleared \in SUBSET (Services \X Types)
  /\ now \in 0..MaxTime /\ faults \in 0..MaxFaults
  /\ run \in [active : BOOLEAN, services : SUBSET Services,
              todo : SUBSET (Services \X Types),
              alerts : SUBSET (Services \X Types),
              reading : [Services -> Readings]]

\* A service has at most one open alert of a type, although nothing in the
\* database says so, and runs fail and the process is restarted half-way.
OneOpenAlert == \A s \in Services, t \in Types : open[s][t] <= 1

\* When a run that looked at an instance has ended, no alert is open for what
\* it found at or below the threshold, could not compute, or found stopped; not
\* even an alert of a run that failed, or from before a restart.
ClearedIsResolved == \A p \in cleared : open[p[1]][p[2]] = 0

\* An alert that opens says "for Duration": no run that ended within that time
\* found the instance running and not above the threshold.  (It may well have
\* been stopped then, or not sampled: the time above the threshold starts with
\* the sample before, however old.)
OpensWhenSustained ==
  [][\A s \in Services, t \in Types : open'[s][t] > open[s][t] =>
       lastBelow[s][t] <= now - Duration]_vars
=============================================================================
