------------------------- MODULE AlertMonitorProofs -------------------------
(***************************************************************************)
(* Theorems about module AlertMonitor, for every set of services, any      *)
(* duration, and any number of runs and faults.                            *)
(***************************************************************************)
EXTENDS AlertMonitor, TLAPS

Pairs == Services \X Types

RunRecord == [active : BOOLEAN, services : SUBSET Services, todo : SUBSET Pairs,
              alerts : SUBSET Pairs, reading : [Services -> Readings]]

\* Between runs there is nothing to look at; a run looks at the services it has
\* loaded, and knows nothing of the others.
RunInv ==
  /\ ~run.active => run = NoRun
  /\ run.todo \subseteq run.services \X Types
  /\ run.alerts \subseteq run.services \X Types
  /\ \A s \in Services : s \notin run.services => run.reading[s] = Down

TypeInv == TypeOK /\ RunInv

-----------------------------------------------------------------------------
(***************************************************************************)
(* Type correctness.                                                       *)
(***************************************************************************)

LEMMA DownType == Down \in Readings /\ ~Down.up
<1>1. \A b \in BOOLEAN : [up |-> b, level |-> [t \in Types |-> "unknown"]] \in Readings
  BY DEF Readings, Levels
<1> QED BY <1>1 DEF Down

LEMMA NoRunFacts ==
  /\ NoRun \in RunRecord /\ ~NoRun.active
  /\ NoRun.services = {} /\ NoRun.todo = {} /\ NoRun.alerts = {}
  /\ \A s \in Services : NoRun.reading[s] = Down
<1>1. \A b \in BOOLEAN :
        [active |-> b, services |-> {}, todo |-> {}, alerts |-> {},
         reading |-> [s \in Services |-> Down]] \in RunRecord
  BY DownType DEF RunRecord
<1> QED BY <1>1 DEF NoRun

LEMMA RunTyped == TypeOK => run \in RunRecord
BY DEF TypeOK, RunRecord, Pairs

LEMMA FaultType == TypeOK /\ Fault => faults' \in 0..MaxFaults
BY AlertMonitorAssumption DEF TypeOK, Fault

LEMMA NeverType == Never \in [at : 0..MaxTime, since : [Types -> 0..MaxTime]]
BY AlertMonitorAssumption DEF Never

\* A run: it begins.
LEMMA StartFacts ==
  ASSUME TypeInv, Start
  PROVE  /\ run' \in RunRecord /\ RunInv' /\ now' \in (now + 1)..MaxTime
         /\ run'.active /\ run'.services = monitored /\ run'.todo = monitored \X Types
         /\ run'.alerts = {p \in monitored \X Types : open[p[1]][p[2]] > 0}
<1> USE DEF TypeInv
<1>1. PICK time \in (now + 1)..MaxTime, reading \in [monitored -> Readings] :
        /\ now' = time
        /\ run' = [active |-> TRUE, services |-> monitored,
                   todo |-> monitored \X Types,
                   alerts |-> {p \in monitored \X Types : open[p[1]][p[2]] > 0},
                   reading |-> [s \in Services |->
                                  IF s \in monitored THEN reading[s] ELSE Down]]
  BY DEF Start
<1>2. monitored \in SUBSET Services /\ monitored \X Types \in SUBSET Pairs
  BY DEF TypeOK, Pairs
<1> DEFINE f == [s \in Services |-> IF s \in monitored THEN reading[s] ELSE Down]
<1> DEFINE a == {p \in monitored \X Types : open[p[1]][p[2]] > 0}
<1>3. f \in [Services -> Readings] /\ \A s \in Services : s \notin monitored => f[s] = Down
  BY DownType
<1>4. a \in SUBSET Pairs /\ a \subseteq monitored \X Types
  BY <1>2
<1>5. run' = [active |-> TRUE, services |-> monitored, todo |-> monitored \X Types,
              alerts |-> a, reading |-> f]
  BY <1>1
<1> HIDE DEF f, a
<1>6. \A b \in BOOLEAN : [active |-> b, services |-> monitored, todo |-> monitored \X Types,
                          alerts |-> a, reading |-> f] \in RunRecord
  BY <1>2, <1>3, <1>4 DEF RunRecord
<1>7. run' \in RunRecord
  BY <1>5, <1>6
<1>8. /\ run'.active /\ run'.services = monitored /\ run'.todo = monitored \X Types
      /\ run'.alerts = a /\ run'.reading = f
  BY <1>5
<1>9. RunInv'
  BY <1>3, <1>4, <1>8 DEF RunInv
<1> QED BY <1>1, <1>7, <1>8, <1>9 DEF a

\* What a look does to the run.
LEMMA LookFacts ==
  ASSUME TypeInv, NEW s \in Services, NEW t \in Types, Look(s, t)
  PROVE  /\ run' \in RunRecord /\ RunInv' /\ run.active
         /\ run'.active /\ run'.services = run.services /\ run'.reading = run.reading
         /\ run'.todo = run.todo \ {<<s, t>>} /\ <<s, t>> \in run.services \X Types
         /\ run'.alerts = IF Opens(s, t) THEN run.alerts \union {<<s, t>>}
                          ELSE IF ~Above(s, t) THEN run.alerts \ {<<s, t>>} ELSE run.alerts
<1> USE DEF TypeInv
<1>1. run.active /\ <<s, t>> \in run.services \X Types
  BY NoRunFacts DEF Look, Turn, RunInv
<1>2. PICK A \in SUBSET Pairs :
        /\ run' = [run EXCEPT !.todo = @ \ {<<s, t>>}, !.alerts = A]
        /\ A = IF Opens(s, t) THEN run.alerts \union {<<s, t>>}
               ELSE IF ~Above(s, t) THEN run.alerts \ {<<s, t>>} ELSE run.alerts
  <2>1. run.alerts \in SUBSET Pairs /\ <<s, t>> \in Pairs
    BY DEF TypeOK, Pairs
  <2>2. CASE EnsureOpenAlert(s, t)
    BY <2>1, <2>2 DEF EnsureOpenAlert
  <2>3. CASE ResolveOpenAlert(s, t)
    BY <2>1, <2>3 DEF ResolveOpenAlert, Opens
  <2>4. CASE Above(s, t) /\ ~Opens(s, t) /\ run' = [run EXCEPT !.todo = @ \ {<<s, t>>}]
    <3>1. run' = [run EXCEPT !.todo = @ \ {<<s, t>>}, !.alerts = run.alerts]
      BY <2>4, RunTyped DEF RunRecord
    <3> QED BY <2>1, <2>4, <3>1
  <2> QED BY <2>2, <2>3, <2>4 DEF Look
<1>3. /\ run'.active = run.active /\ run'.services = run.services /\ run'.reading = run.reading
      /\ run'.todo = run.todo \ {<<s, t>>} /\ run'.alerts = A /\ run' \in RunRecord
  BY <1>2, RunTyped DEF RunRecord
<1>4. A \subseteq run.services \X Types
  BY <1>1, <1>2 DEF RunInv
<1>5. RunInv'
  BY <1>1, <1>3, <1>4 DEF RunInv
<1> QED BY <1>1, <1>2, <1>3, <1>5

LEMMA SinceType ==
  ASSUME TypeOK, NEW s \in Services, NEW t \in Types
  PROVE  Since(s, t) \in 0..MaxTime
BY AlertMonitorAssumption DEF TypeOK, Since

LEMMA TakenType ==
  ASSUME TypeOK, NEW s \in Services
  PROVE  Taken(s) \in [at : 0..MaxTime, since : [Types -> 0..MaxTime]]
<1>1. [t \in Types |-> Since(s, t)] \in [Types -> 0..MaxTime]
  BY SinceType
<1>2. (IF run.reading[s].up THEN now ELSE sample[s].at) \in 0..MaxTime
  BY DEF TypeOK
<1> QED BY <1>1, <1>2 DEF Taken

\* What a look does to the alerts.
LEMMA OpenFacts ==
  ASSUME TypeInv, NEW s \in Services, NEW t \in Types, Look(s, t)
  PROVE  /\ open' \in [Services -> [Types -> Nat]]
         /\ \A x \in Services, y \in Types : <<x, y>> # <<s, t>> => open'[x][y] = open[x][y]
         /\ \/ Opens(s, t) /\ open'[s][t] = IF <<s, t>> \in run.alerts THEN open[s][t]
                                              ELSE open[s][t] + 1
            \/ ~Above(s, t) /\ open'[s][t] = IF <<s, t>> \in run.alerts THEN 0 ELSE open[s][t]
            \/ Above(s, t) /\ ~Opens(s, t) /\ open'[s][t] = open[s][t]
<1>1. open \in [Services -> [Types -> Nat]]
  BY DEF TypeInv, TypeOK
<1>2. CASE EnsureOpenAlert(s, t)
  BY <1>1, <1>2 DEF EnsureOpenAlert
<1>3. CASE ResolveOpenAlert(s, t)
  BY <1>1, <1>3 DEF ResolveOpenAlert
<1>4. CASE Above(s, t) /\ ~Opens(s, t) /\ UNCHANGED open
  BY <1>1, <1>4
<1> QED BY <1>2, <1>3, <1>4 DEF Look

LEMMA InitTypeInv == Init => TypeInv
<1> SUFFICES ASSUME Init PROVE TypeInv
  OBVIOUS
<1>1. RunInv /\ run \in RunRecord
  BY NoRunFacts DEF Init, RunInv
<1>2. sample \in [Services -> [at : 0..MaxTime, since : [Types -> 0..MaxTime]]]
  BY NeverType DEF Init
<1> QED BY <1>1, <1>2, AlertMonitorAssumption DEF Init, TypeInv, TypeOK, RunRecord, Pairs

LEMMA StepTypeInv == TypeInv /\ [Next]_vars => TypeInv'
<1> SUFFICES ASSUME TypeInv, [Next]_vars PROVE TypeInv'
  OBVIOUS
<1> USE DEF TypeInv
<1>a. ASSUME run' \in RunRecord, RunInv', monitored' \in SUBSET Services,
             open' \in [Services -> [Types -> Nat]],
             sample' \in [Services -> [at : 0..MaxTime, since : [Types -> 0..MaxTime]]],
             lastBelow' \in [Services -> [Types -> 0..MaxTime]],
             cleared' \in SUBSET Pairs, now' \in 0..MaxTime, faults' \in 0..MaxFaults
      PROVE  TypeInv'
  BY <1>a DEF TypeOK, RunRecord, Pairs
<1>b. /\ run \in RunRecord /\ RunInv /\ monitored \in SUBSET Services
      /\ open \in [Services -> [Types -> Nat]]
      /\ sample \in [Services -> [at : 0..MaxTime, since : [Types -> 0..MaxTime]]]
      /\ lastBelow \in [Services -> [Types -> 0..MaxTime]]
      /\ cleared \in SUBSET Pairs /\ now \in 0..MaxTime /\ faults \in 0..MaxFaults
  BY RunTyped DEF TypeOK, Pairs
<1>c. (run' = NoRun => run' \in RunRecord /\ RunInv') /\ (UNCHANGED run => RunInv')
  BY <1>b, NoRunFacts DEF RunInv
<1>1. CASE UNCHANGED vars
  BY <1>1, <1>a, <1>b, <1>c DEF vars
<1>2. CASE Start
  <2>1. run' \in RunRecord /\ RunInv' /\ now' \in (now + 1)..MaxTime
    BY <1>2, StartFacts
  <2>2. now' \in 0..MaxTime
    BY <1>b, <2>1, AlertMonitorAssumption
  <2> QED BY <1>2, <1>a, <1>b, <2>1, <2>2 DEF Start
<1>3. ASSUME NEW s \in Services, NEW t \in Types, Look(s, t)
      PROVE  TypeInv'
  <2>1. run' \in RunRecord /\ RunInv' /\ open' \in [Services -> [Types -> Nat]]
    BY <1>3, LookFacts, OpenFacts
  <2> QED BY <1>3, <1>a, <1>b, <2>1 DEF Look
<1>4. CASE Finish
  <2>1. sample' \in [Services -> [at : 0..MaxTime, since : [Types -> 0..MaxTime]]]
    BY <1>4, TakenType, NeverType DEF Finish
  <2>2. lastBelow' \in [Services -> [Types -> 0..MaxTime]]
    BY <1>4, <1>b DEF Finish
  <2>3. cleared' \in SUBSET Pairs
    BY <1>4, <1>b DEF Finish, RunRecord, Pairs
  <2> QED BY <1>4, <1>a, <1>b, <1>c, <2>1, <2>2, <2>3 DEF Finish
<1>5. CASE Fail
  BY <1>5, <1>a, <1>b, <1>c, FaultType DEF Fail
<1>6. CASE Restart
  <2>1. sample' \in [Services -> [at : 0..MaxTime, since : [Types -> 0..MaxTime]]]
    BY <1>6, NeverType DEF Restart
  <2> QED BY <1>6, <1>a, <1>b, <1>c, <2>1, FaultType DEF Restart
<1>7. ASSUME NEW s \in Services, Leave(s)
      PROVE  TypeInv'
  BY <1>7, <1>a, <1>b, <1>c DEF Leave
<1> QED BY <1>1, <1>2, <1>3, <1>4, <1>5, <1>6, <1>7 DEF Next

\* Every alert, sample and run has the values the code can give it.
THEOREM TypeCorrect == Spec => []TypeOK
<1>1. Spec => []TypeInv
  BY InitTypeInv, StepTypeInv, PTL DEF Spec
<1>2. TypeInv => TypeOK
  BY DEF TypeInv
<1> QED BY <1>1, <1>2, PTL

-----------------------------------------------------------------------------
(***************************************************************************)
(* The alerts.  While a run is in progress its openAlertMap tells which    *)
(* alerts of its services are open, and what it has looked at and found    *)
(* not above the threshold has none.                                       *)
(***************************************************************************)

AlertInv ==
  /\ run.active => cleared = {}
  /\ run.active => \A s \in run.services, t \in Types :
                     /\ <<s, t>> \in run.alerts <=> open[s][t] > 0
                     /\ <<s, t>> \in run.todo \/ Above(s, t) \/ open[s][t] = 0

Inv == TypeInv /\ AlertInv /\ OneOpenAlert /\ ClearedIsResolved

LEMMA StepAlertInv ==
  ASSUME Inv, [Next]_vars
  PROVE  AlertInv' /\ OneOpenAlert' /\ ClearedIsResolved'
<1> USE DEF Inv
<1>a. open \in [Services -> [Types -> Nat]] /\ cleared \in SUBSET Pairs /\ run \in RunRecord
  BY RunTyped DEF TypeInv, TypeOK, Pairs
<1>1. CASE UNCHANGED vars
  BY <1>1 DEF vars, AlertInv, OneOpenAlert, ClearedIsResolved, Above
<1>2. CASE Start
  <2>1. /\ run'.services = monitored /\ run'.todo = monitored \X Types
        /\ run'.alerts = {p \in monitored \X Types : open[p[1]][p[2]] > 0}
    BY <1>2, StartFacts
  <2>2. cleared' = {} /\ open' = open
    BY <1>2 DEF Start
  <2> QED BY <2>1, <2>2 DEF AlertInv, OneOpenAlert, ClearedIsResolved
<1>3. ASSUME NEW s \in Services, NEW t \in Types, Look(s, t)
      PROVE  AlertInv' /\ OneOpenAlert' /\ ClearedIsResolved'
  <2>1. /\ run.active /\ run'.services = run.services /\ run'.reading = run.reading
        /\ run'.todo = run.todo \ {<<s, t>>} /\ <<s, t>> \in run.services \X Types
        /\ run'.alerts = IF Opens(s, t) THEN run.alerts \union {<<s, t>>}
                         ELSE IF ~Above(s, t) THEN run.alerts \ {<<s, t>>} ELSE run.alerts
    BY <1>3, LookFacts
  <2>2. cleared' = cleared /\ cleared = {}
    BY <1>3, <2>1 DEF Look, AlertInv
  <2>3. \A x, y : Above(x, y)' <=> Above(x, y)
    BY <2>1 DEF Above
  <2>4. /\ \A x \in Services, y \in Types : <<x, y>> # <<s, t>> => open'[x][y] = open[x][y]
        /\ \/ Opens(s, t) /\ open'[s][t] = IF <<s, t>> \in run.alerts THEN open[s][t]
                                             ELSE open[s][t] + 1
           \/ ~Above(s, t) /\ open'[s][t] = IF <<s, t>> \in run.alerts THEN 0 ELSE open[s][t]
           \/ Above(s, t) /\ ~Opens(s, t) /\ open'[s][t] = open[s][t]
    BY <1>3, OpenFacts
  <2>5. <<s, t>> \in run.alerts <=> open[s][t] > 0
    BY <2>1 DEF AlertInv
  <2>6. open[s][t] \in Nat /\ open[s][t] <= 1
    BY <1>a DEF OneOpenAlert
  <2>7. /\ open'[s][t] <= 1 /\ (<<s, t>> \in run'.alerts <=> open'[s][t] > 0)
        /\ Above(s, t) \/ open'[s][t] = 0
    BY <2>1, <2>4, <2>5, <2>6 DEF Opens
  <2>8. OneOpenAlert'
    BY <2>4, <2>7 DEF OneOpenAlert
  <2>9. ASSUME NEW x \in run'.services, NEW y \in Types
        PROVE  /\ <<x, y>> \in run'.alerts <=> open'[x][y] > 0
               /\ <<x, y>> \in run'.todo \/ Above(x, y)' \/ open'[x][y] = 0
    <3>1. x \in Services /\ x \in run.services
      BY <1>a, <2>1 DEF RunRecord
    <3>2. CASE <<x, y>> = <<s, t>>
      BY <2>3, <2>7, <3>2
    <3>3. CASE <<x, y>> # <<s, t>>
      <4>1. /\ <<x, y>> \in run'.alerts <=> <<x, y>> \in run.alerts
            /\ <<x, y>> \in run'.todo <=> <<x, y>> \in run.todo
        BY <2>1, <3>3
      <4> QED BY <2>1, <2>3, <2>4, <3>1, <3>3, <4>1 DEF AlertInv
    <3> QED BY <3>2, <3>3
  <2> QED BY <2>2, <2>8, <2>9 DEF AlertInv, ClearedIsResolved
<1>4. CASE Finish
  <2>1. run.active /\ run.todo = {} /\ run' = NoRun /\ open' = open
    BY <1>4 DEF Finish
  <2>2. \A p \in cleared' : open[p[1]][p[2]] = 0
    <3>1. \A s \in run.services, t \in Types : ~Above(s, t) => open[s][t] = 0
      BY <2>1 DEF AlertInv
    <3>2. \A s, t : NotAbove(s, t) => ~Above(s, t)
      BY DEF NotAbove, Above
    <3> QED BY <1>4, <3>1, <3>2 DEF Finish
  <2> QED BY <2>1, <2>2, NoRunFacts DEF AlertInv, OneOpenAlert, ClearedIsResolved
<1>5. CASE Fail \/ Restart
  BY <1>5, NoRunFacts DEF Fail, Restart, AlertInv, OneOpenAlert, ClearedIsResolved
<1>6. ASSUME NEW s \in Services, Leave(s)
      PROVE  AlertInv' /\ OneOpenAlert' /\ ClearedIsResolved'
  BY <1>6 DEF Leave, AlertInv, OneOpenAlert, ClearedIsResolved, Above
<1> QED BY <1>1, <1>2, <1>3, <1>4, <1>5, <1>6 DEF Next

LEMMA Invariant == Spec => []Inv
<1>1. Init => Inv
  BY InitTypeInv, NoRunFacts DEF Init, Inv, AlertInv, OneOpenAlert, ClearedIsResolved
<1>2. Inv /\ [Next]_vars => Inv'
  BY StepTypeInv, StepAlertInv DEF Inv
<1> QED BY <1>1, <1>2, PTL DEF Spec

\* A service has at most one open alert of a type.
THEOREM AtMostOneAlert == Spec => []OneOpenAlert
<1>1. Inv => OneOpenAlert
  BY DEF Inv
<1> QED BY <1>1, Invariant, PTL

\* When a run has ended, no alert is open for what it found not above the
\* threshold.
THEOREM EndedRunResolves == Spec => []ClearedIsResolved
<1>1. Inv => ClearedIsResolved
  BY DEF Inv
<1> QED BY <1>1, Invariant, PTL

-----------------------------------------------------------------------------
(***************************************************************************)
(* How long.  Neither the time above the threshold nor the last sample is  *)
(* older than the last run that found the instance not above it.           *)
(***************************************************************************)

SinceInv ==
  \A s \in Services, t \in Types :
    /\ lastBelow[s][t] <= now
    /\ sample[s].at # 0 => lastBelow[s][t] <= sample[s].at
    /\ sample[s].since[t] # 0 => lastBelow[s][t] <= sample[s].since[t]

LEMMA SinceAfterBelow ==
  ASSUME TypeOK, SinceInv, NEW s \in Services, NEW t \in Types, Above(s, t)
  PROVE  lastBelow[s][t] <= Since(s, t)
BY DEF SinceInv, Since

LEMMA StepSinceInv ==
  ASSUME TypeInv, SinceInv, [Next]_vars
  PROVE  SinceInv'
<1> USE DEF TypeInv
<1> SUFFICES ASSUME NEW s \in Services, NEW t \in Types
             PROVE  /\ lastBelow'[s][t] <= now'
                    /\ sample'[s].at # 0 => lastBelow'[s][t] <= sample'[s].at
                    /\ sample'[s].since[t] # 0 => lastBelow'[s][t] <= sample'[s].since[t]
  BY DEF SinceInv
<1>a. /\ lastBelow[s][t] <= now
      /\ sample[s].at # 0 => lastBelow[s][t] <= sample[s].at
      /\ sample[s].since[t] # 0 => lastBelow[s][t] <= sample[s].since[t]
      /\ lastBelow[s][t] \in Nat /\ now \in Nat /\ Since(s, t) \in Nat
      /\ sample[s].at \in Nat /\ sample[s].since[t] \in Nat
  BY SinceType, AlertMonitorAssumption DEF SinceInv, TypeOK
<1>1. CASE UNCHANGED <<sample, lastBelow, now>>
  BY <1>1, <1>a
<1>2. CASE Start
  <2>1. now' \in (now + 1)..MaxTime /\ UNCHANGED <<sample, lastBelow>>
    BY <1>2, StartFacts DEF Start
  <2>2. now <= now' /\ now' \in Int
    BY <1>a, <2>1, AlertMonitorAssumption
  <2> QED BY <1>a, <2>1, <2>2
<1>3. CASE Finish
  <2>1. lastBelow'[s][t] = IF run.reading[s].up /\ NotAbove(s, t) THEN now ELSE lastBelow[s][t]
    BY <1>3 DEF Finish
  <2>2. CASE s \in run.services
    <3>1. sample'[s] = Taken(s) /\ now' = now
      BY <1>3, <2>2 DEF Finish
    <3>2. /\ Taken(s).at = (IF run.reading[s].up THEN now ELSE sample[s].at)
          /\ Taken(s).since[t] = Since(s, t)
      BY DEF Taken
    <3>3. CASE Above(s, t)
      <4>1. lastBelow'[s][t] = lastBelow[s][t] /\ lastBelow[s][t] <= Since(s, t)
        BY <2>1, <3>3, SinceAfterBelow DEF NotAbove, Above
      <4> QED BY <1>a, <3>1, <3>2, <4>1
    <3>4. CASE ~Above(s, t)
      <4>1. Since(s, t) = 0
        BY <3>4 DEF Since
      <4> QED BY <1>a, <2>1, <3>1, <3>2, <4>1
    <3> QED BY <3>3, <3>4
  <2>3. CASE s \notin run.services
    <3>1. run.reading[s] = Down
      BY <2>3 DEF RunInv
    <3>2. lastBelow'[s][t] = lastBelow[s][t] /\ sample'[s] = Never /\ now' = now
      BY <1>3, <2>1, <2>3, <3>1, DownType DEF Finish
    <3> QED BY <1>a, <3>2 DEF Never
  <2> QED BY <2>2, <2>3
<1>4. CASE Restart
  BY <1>4, <1>a DEF Restart, Never
<1> QED BY <1>1, <1>2, <1>3, <1>4 DEF Next, vars, Look, Fail, Leave

LEMMA StepOpensWhenSustained ==
  ASSUME TypeInv, SinceInv, Next, NEW s \in Services, NEW t \in Types,
         open'[s][t] > open[s][t]
  PROVE  lastBelow[s][t] <= now - Duration
<1> open[s][t] \in Nat
  BY DEF TypeInv, TypeOK
<1>1. PICK x \in Services, y \in Types : Look(x, y)
  BY DEF Next, Start, Finish, Fail, Restart, Leave
<1>2. x = s /\ y = t
  <2>1. SUFFICES ASSUME <<s, t>> # <<x, y>> PROVE FALSE
    OBVIOUS
  <2>2. open'[s][t] = open[s][t]
    <3>1. \A u \in Services, v \in Types : <<u, v>> # <<x, y>> => open'[u][v] = open[u][v]
      BY <1>1, OpenFacts
    <3> QED BY <2>1, <3>1
  <2> QED BY <2>2
<1>3. Opens(s, t)
  <2>1. Look(s, t)
    BY <1>1, <1>2
  <2>2. open'[s][t] # open[s][t] /\ open'[s][t] # 0
    OBVIOUS
  <2>3. \/ Opens(s, t)
        \/ open'[s][t] = IF <<s, t>> \in run.alerts THEN 0 ELSE open[s][t]
        \/ open'[s][t] = open[s][t]
    BY <2>1, OpenFacts
  <2> QED BY <2>2, <2>3
<1>4. lastBelow[s][t] <= Since(s, t) /\ now - Since(s, t) >= Duration
  BY <1>3, SinceAfterBelow DEF Opens, TypeInv
<1>5. lastBelow[s][t] \in Nat /\ now \in Nat /\ Since(s, t) \in Nat
  BY SinceType, AlertMonitorAssumption DEF TypeInv, TypeOK
<1> QED BY <1>4, <1>5, AlertMonitorAssumption

\* An alert opens only if no run within Duration has found the instance
\* running and not above the threshold.
THEOREM OpensOnlyWhenSustained == Spec => OpensWhenSustained
<1>1. Init => SinceInv
  BY AlertMonitorAssumption DEF Init, SinceInv, Never
<1>2. TypeInv /\ SinceInv /\ [Next]_vars =>
        [\A s \in Services, t \in Types : open'[s][t] > open[s][t] =>
           lastBelow[s][t] <= now - Duration]_vars
  BY StepOpensWhenSustained
<1> QED BY <1>1, <1>2, InitTypeInv, StepTypeInv, StepSinceInv, PTL DEF Spec, OpensWhenSustained
-----------------------------------------------------------------------------
(***************************************************************************)
(* What an ended run leaves.  A run that fails may have opened or resolved *)
(* some alerts and not others; one that ends has decided of every service  *)
(* it loaded.                                                              *)
(***************************************************************************)

OpenedInv ==
  run.active => \A s \in run.services, t \in Types :
                  Opens(s, t) => <<s, t>> \in run.todo \/ open[s][t] > 0

LEMMA StepOpenedInv ==
  ASSUME Inv, OpenedInv, [Next]_vars
  PROVE  OpenedInv'
<1> USE DEF Inv
<1>a. open \in [Services -> [Types -> Nat]] /\ run \in RunRecord
  BY RunTyped DEF TypeInv, TypeOK
<1>1. ASSUME UNCHANGED <<run, open, sample, now>>
      PROVE  OpenedInv'
  BY <1>1 DEF OpenedInv, Opens, Above, Since
<1>2. CASE Start
  BY <1>2, StartFacts DEF OpenedInv
<1>3. ASSUME NEW s \in Services, NEW t \in Types, Look(s, t)
      PROVE  OpenedInv'
  <2>1. /\ run.active /\ run'.services = run.services /\ run'.reading = run.reading
        /\ run'.todo = run.todo \ {<<s, t>>} /\ <<s, t>> \in run.services \X Types
    BY <1>3, LookFacts
  <2>2. UNCHANGED <<sample, now>>
    BY <1>3 DEF Look
  <2>3. \A x, y : Opens(x, y)' <=> Opens(x, y)
    BY <2>1, <2>2 DEF Opens, Above, Since
  <2>4. ASSUME NEW x \in run.services, NEW y \in Types, Opens(x, y)
        PROVE  <<x, y>> \in run'.todo \/ open'[x][y] > 0
    <3>1. x \in Services
      BY <1>a DEF RunRecord
    <3>2. CASE <<x, y>> = <<s, t>>
      <4>1. /\ Opens(s, t) /\ Above(s, t)
            /\ open[s][t] \in Nat
            /\ <<s, t>> \in run.alerts <=> open[s][t] > 0
        BY <1>a, <2>1, <2>4, <3>2 DEF AlertInv, Opens
      <4>2. open'[s][t] = IF <<s, t>> \in run.alerts THEN open[s][t] ELSE open[s][t] + 1
        BY <1>3, <4>1, OpenFacts
      <4> QED BY <3>2, <4>1, <4>2
    <3>3. CASE <<x, y>> # <<s, t>>
      <4>1. \A u \in Services, v \in Types : <<u, v>> # <<s, t>> => open'[u][v] = open[u][v]
        BY <1>3, OpenFacts
      <4>2. open'[x][y] = open[x][y]
        BY <3>1, <3>3, <4>1
      <4> QED BY <2>1, <2>4, <3>3, <4>2 DEF OpenedInv
    <3> QED BY <3>2, <3>3
  <2> QED BY <2>1, <2>3, <2>4 DEF OpenedInv
<1>4. CASE Finish \/ Fail \/ Restart
  BY <1>4, NoRunFacts DEF Finish, Fail, Restart, OpenedInv
<1>5. ASSUME NEW s \in Services, Leave(s)
      PROVE  OpenedInv'
  BY <1>1, <1>5 DEF Leave
<1>6. CASE UNCHANGED vars
  BY <1>1, <1>6 DEF vars
<1> QED BY <1>2, <1>3, <1>4, <1>5, <1>6 DEF Next

\* A run that ends leaves one open alert for each service and type it found
\* above the threshold for Duration, and none for those it did not find above,
\* whatever runs before it failed half-way.
THEOREM EndedRunDecides ==
  Spec => [][Finish => \A s \in run.services, t \in Types :
               /\ Opens(s, t) => open'[s][t] = 1
               /\ ~Above(s, t) => open'[s][t] = 0]_vars
<1>1. Init => OpenedInv
  BY NoRunFacts DEF Init, OpenedInv
<1>2. ASSUME Inv, OpenedInv, Finish, NEW s \in run.services, NEW t \in Types
      PROVE  /\ Opens(s, t) => open'[s][t] = 1
             /\ ~Above(s, t) => open'[s][t] = 0
  <2>1. run.active /\ run.todo = {} /\ open' = open
    BY <1>2 DEF Finish
  <2>2. s \in Services /\ open[s][t] \in Nat /\ open[s][t] <= 1
    BY <1>2, RunTyped DEF Inv, TypeInv, TypeOK, RunRecord, OneOpenAlert
  <2>3. Opens(s, t) => open[s][t] > 0
    BY <1>2, <2>1 DEF OpenedInv
  <2>4. ~Above(s, t) => open[s][t] = 0
    BY <1>2, <2>1 DEF Inv, AlertInv
  <2> QED BY <2>1, <2>2, <2>3, <2>4
<1>3. Inv /\ OpenedInv /\ [Next]_vars =>
        [Finish => \A s \in run.services, t \in Types :
           /\ Opens(s, t) => open'[s][t] = 1
           /\ ~Above(s, t) => open'[s][t] = 0]_vars
  BY <1>2
<1> QED BY <1>1, <1>3, Invariant, StepOpenedInv, PTL DEF Spec
=============================================================================
