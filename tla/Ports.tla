-------------------------------- MODULE Ports --------------------------------
(***************************************************************************)
(* The public ports of the services: their service_port_mappings rows, and *)
(* the rules of the Incus network forward that lead from a public port to  *)
(* an instance.                                                            *)
(*                                                                         *)
(* A purchase takes one port for each kind of mapping; a reconfiguration   *)
(* moves a service to other ports.  Both choose ports without an active    *)
(* row, change the rules, and record the rows in a later transaction.  A   *)
(* port given up keeps its row, inactive, and the UNIQUE constraint counts *)
(* it.  Cancelling a service changes none of this: its ports stay its own. *)
(*                                                                         *)
(* One public address and one protocol.  The forward exists, since a       *)
(* purchase precedes every reconfiguration; of its rules Incus accepts one *)
(* for each listen port, and it refuses an update whose etag is old.       *)
(***************************************************************************)
EXTENDS Integers, FiniteSets

CONSTANTS Services, NoService,
          Ports,      \* ports a customer may ask for: 1..65535
          Pool,       \* ports given out otherwise: 20000..39999
          Kinds,      \* kinds of mapping, in the order of activeMappingsSorted
          Requests,   \* HTTP requests being served
          MaxFaults   \* bound: crashes, failed transactions, lost answers

Ssh == 0

\* Definitions marked "Mistake" are not part of the specification: each is the
\* definition below it as a plausible mistake would have it.

ASSUME PortsAssumption ==
  /\ NoService \notin Services
  /\ Ports \subseteq Nat /\ Pool \subseteq Ports
  /\ Kinds \subseteq Nat /\ Ssh \in Kinds
  /\ IsFiniteSet(Ports)
  /\ MaxFaults \in Nat

VARIABLES
  row,      \* the row of a port, active or not: whose, and its kind
  active,   \* ports whose row is active
  rule,     \* where the forward's rule for a port leads
  bought,   \* "no", "yes", or "lost": its purchase stopped half-way
  sshPort,  \* service_instances.ssh_port
  failed,   \* history: services a reconfiguration of which changed the rules
            \* and did not come to be recorded
  faults,   \* faults so far
  req       \* each request: its step, service, the active ports it has
            \* loaded, and the kinds it gives to new ports

dbVars == <<row, active, bought, sshPort>>
vars == <<row, active, rule, bought, sshPort, failed, faults, req>>

Targets == [service : Services, kind : Kinds]
NoTarget == [service |-> NoService, kind |-> Ssh]
Target(s, k) == [service |-> s, kind |-> k]

None == [p \in {} |-> Ssh]
Idle == [step |-> "idle", service |-> NoService, current |-> {}, next |-> None]

Steps == {"idle", "rotate", "replace", "record", "bundle", "forward", "insert"}

Answer(r) == req' = [req EXCEPT ![r] = Idle]

Fault == faults < MaxFaults /\ faults' = faults + 1

New(r) == DOMAIN req[r].next
Moved(r) == [p \in New(r) |-> Target(req[r].service, req[r].next[p])]

\* f, and g where g is defined.
Over(f, g) == [p \in Ports |-> IF p \in DOMAIN g THEN g[p] ELSE f[p]]

Init ==
  /\ row = [p \in Ports |-> NoTarget]
  /\ active = {}
  /\ rule = [p \in Ports |-> NoTarget]
  /\ bought = [s \in Services |-> "no"]
  /\ sshPort = [s \in Services |-> 0]
  /\ failed = {}
  /\ faults = 0
  /\ req = [r \in Requests |-> Idle]

(***************************************************************************)
(* Allocation                                                              *)
(***************************************************************************)

\* IsPublicPortAvailable: no active row has the port.
Available(p) == p \notin active

\* FindNextAvailablePublicPort: the lowest port of the pool that is free and
\* not taken.
NextFree(taken) ==
  LET free == {p \in Pool \ taken : Available(p)}
  IN  {p \in free : \A q \in free : p <= q}

\* How many of the ports of n are for mappings of kind k.
Given(n, k) == Cardinality({p \in DOMAIN n : n[p] = k})

Missing(n, wanted) == {k \in Kinds : Given(n, k) < wanted[k]}

\* The kind whose turn it is.
Turn(n, wanted) ==
  {k \in Missing(n, wanted) : \A j \in Missing(n, wanted) : k <= j}

\* A mapping of each kind, as defaultPurchasePortBundle has it.
OneOfEach == [k \in Kinds |-> 1]

\* The kinds of the loaded mappings.
KindsOf(ports) ==
  [k \in Kinds |-> Cardinality({p \in ports : row[p].kind = k})]

\* Mistake: a requested port need not be a port at all.
RequestedAnywhere(r, k) == {q + Cardinality(Ports) : q \in Ports}

\* allocateRotatedMappings: the ports a customer may ask for, for SSH.  Were
\* there two SSH mappings, both would get it, and Incus would refuse the rules.
Requested(r, k) ==
  IF k = Ssh /\ KindsOf(req[r].current)[Ssh] = 1
    THEN {p \in Ports \ New(r) : Available(p)}
    ELSE {}

\* r takes the port p for a mapping of kind k, and with the last one it wants
\* goes on to step.
TakePort(r, p, k, wanted, step) ==
  LET n == [q \in New(r) \union {p} |-> IF q = p THEN k ELSE req[r].next[q]]
  IN  req' = [req EXCEPT ![r].next = n,
                         ![r].step = IF Missing(n, wanted) = {} THEN step ELSE @]

(***************************************************************************)
(* ReconfigIPSubmit                                                        *)
(***************************************************************************)

\* loadManagedService with the active mappings, one of them for SSH.  The
\* service's status does not matter.
ReconfigLoad(r, s) ==
  /\ req[r].step = "idle"
  /\ bought[s] = "yes"
  /\ LET current == {p \in active : row[p].service = s} IN
       /\ \E p \in current : row[p].kind = Ssh
       /\ req' = [req EXCEPT ![r] = [step |-> "rotate", service |-> s,
                                     current |-> current, next |-> None]]
  /\ UNCHANGED <<dbVars, rule, failed, faults>>

\* A new port for the next of the mappings loaded, each found by a query of
\* its own.  Nothing is reserved.
ReconfigRotate(r) ==
  LET wanted == KindsOf(req[r].current) IN
  /\ req[r].step = "rotate"
  /\ \E k \in Turn(req[r].next, wanted) :
       \E p \in NextFree(New(r)) \union Requested(r, k) :
         TakePort(r, p, k, wanted, "replace")
  /\ UNCHANGED <<dbVars, rule, failed, faults>>

\* No free port, a requested one that is taken, rules that Incus refuses, or a
\* forward changed between its reading and its update.
ReconfigRefused(r) ==
  /\ req[r].step \in {"rotate", "replace"}
  /\ Answer(r)
  /\ UNCHANGED <<dbVars, rule, failed, faults>>

\* Mistake: rules of a listen port are overwritten, not refused.
ReplaceOverwriting(r) ==
  /\ req[r].step = "replace"
  /\ rule' = Over([p \in Ports |-> IF p \in req[r].current
                                     THEN NoTarget ELSE rule[p]], Moved(r))
  /\ req' = [req EXCEPT ![r].step = "record"]
  /\ UNCHANGED <<dbVars, failed, faults>>

\* Mistake: the new rules replace all rules.
ReplaceAll(r) ==
  /\ req[r].step = "replace"
  /\ rule' = Over([p \in Ports |-> NoTarget], Moved(r))
  /\ req' = [req EXCEPT ![r].step = "record"]
  /\ UNCHANGED <<dbVars, failed, faults>>

\* Rules with the ports r has loaded go, whoever they lead to, and the new ones
\* are appended; Incus refuses a listen port that then has two.
RulesReplaced(r) ==
  LET c == req[r].current IN
  /\ \A p \in New(r) \ c : rule[p] = NoTarget
  /\ rule' = Over([p \in Ports |-> IF p \in c THEN NoTarget ELSE rule[p]], Moved(r))

\* ReplaceServiceMappings: one update under the forward's etag.
ReconfigReplace(r) ==
  /\ req[r].step = "replace"
  /\ RulesReplaced(r)
  /\ req' = [req EXCEPT ![r].step = "record"]
  /\ UNCHANGED <<dbVars, failed, faults>>

\* Incus carries out the update and the answer is lost: the request ends with
\* an error, and without a rollback.
ReplaceUnnoticed(r) ==
  /\ req[r].step = "replace"
  /\ RulesReplaced(r)
  /\ failed' = failed \union {req[r].service}
  /\ Answer(r)
  /\ Fault
  /\ UNCHANGED dbVars

\* UNIQUE (public_ip, public_port, protocol), inactive rows included.
Insertable(r) == \A p \in New(r) : row[p] = NoTarget

\* Mistake: ssh_port keeps the port given up.
RecordWithoutSshPort(r) ==
  /\ req[r].step = "record" /\ Insertable(r)
  /\ row' = Over(row, Moved(r))
  /\ active' = (active \ req[r].current) \union New(r)
  /\ Answer(r)
  /\ UNCHANGED <<rule, bought, sshPort, failed, faults>>

\* Mistake: the old rows stay active.
RecordKeepingOld(r) ==
  /\ req[r].step = "record" /\ Insertable(r)
  /\ row' = Over(row, Moved(r))
  /\ active' = active \union New(r)
  /\ \E p \in New(r) : /\ req[r].next[p] = Ssh
                       /\ sshPort' = [sshPort EXCEPT ![req[r].service] = p]
  /\ Answer(r)
  /\ UNCHANGED <<rule, bought, failed, faults>>

\* The transaction: the loaded rows inactive, the new ones inserted, and
\* ssh_port the first new port for SSH.
ReconfigRecord(r) ==
  /\ req[r].step = "record" /\ Insertable(r)
  /\ row' = Over(row, Moved(r))
  /\ active' = (active \ req[r].current) \union New(r)
  /\ \E p \in New(r) : /\ req[r].next[p] = Ssh
                       /\ sshPort' = [sshPort EXCEPT ![req[r].service] = p]
  /\ Answer(r)
  /\ UNCHANGED <<rule, bought, failed, faults>>

\* The insert fails on the UNIQUE constraint, or the transaction for another
\* reason.  The rollback puts the old rules back under the etag from before
\* the request's own update, which Incus refuses, and the error is ignored.
ReconfigRollback(r) ==
  /\ req[r].step = "record"
  /\ \/ ~Insertable(r) /\ UNCHANGED faults
     \/ Fault
  /\ failed' = failed \union {req[r].service}
  /\ Answer(r)
  /\ UNCHANGED <<dbVars, rule>>

(***************************************************************************)
(* The ports of a purchase: see module Purchase for the rest of it         *)
(***************************************************************************)

\* provisionPaidPurchase comes to an attempt.
PurchaseBegin(r, s) ==
  /\ req[r].step = "idle"
  /\ bought[s] = "no"
  /\ \A q \in Requests : req[q].service # s
  /\ req' = [req EXCEPT ![r] = [step |-> "bundle", service |-> s,
                                current |-> {}, next |-> None]]
  /\ UNCHANGED <<dbVars, rule, failed, faults>>

\* allocatePortMappings, which finds each port by a query of its own.
PurchaseAllocate(r) ==
  /\ req[r].step = "bundle"
  /\ \E k \in Turn(req[r].next, OneOfEach), p \in NextFree(New(r)) :
       TakePort(r, p, k, OneOfEach, "forward")
  /\ UNCHANGED <<dbVars, rule, failed, faults>>

\* ensureForwardPorts appends the rules.
PurchaseForward(r) ==
  /\ req[r].step = "forward"
  /\ \A p \in New(r) : rule[p] = NoTarget
  /\ rule' = Over(rule, Moved(r))
  /\ req' = [req EXCEPT ![r].step = "insert"]
  /\ UNCHANGED <<dbVars, failed, faults>>

\* It does, and the answer is lost: the attempt is cleaned up, but for the
\* rules, and another may follow.
ForwardUnnoticed(r) ==
  /\ req[r].step = "forward"
  /\ \A p \in New(r) : rule[p] = NoTarget
  /\ rule' = Over(rule, Moved(r))
  /\ Answer(r)
  /\ Fault
  /\ UNCHANGED <<dbVars, failed>>

\* No port is left, or the attempt fails and is cleaned up; another may follow.
PurchaseRefused(r) ==
  /\ req[r].step \in {"bundle", "forward"}
  /\ Answer(r)
  /\ UNCHANGED <<dbVars, rule, failed, faults>>

\* persistPurchaseSuccess.
PurchaseInsert(r) ==
  LET s == req[r].service IN
  /\ req[r].step = "insert" /\ Insertable(r)
  /\ row' = Over(row, Moved(r))
  /\ active' = active \union New(r)
  /\ bought' = [bought EXCEPT ![s] = "yes"]
  /\ \E p \in New(r) : req[r].next[p] = Ssh /\ sshPort' = [sshPort EXCEPT ![s] = p]
  /\ Answer(r)
  /\ UNCHANGED <<rule, failed, faults>>

\* It fails.  Rules and instance stay; the instance's name is taken from now
\* on, so that no later attempt comes as far as the ports.
PurchaseLost(r) ==
  /\ req[r].step = "insert"
  /\ \/ ~Insertable(r) /\ UNCHANGED faults
     \/ Fault
  /\ bought' = [bought EXCEPT ![req[r].service] = "lost"]
  /\ Answer(r)
  /\ UNCHANGED <<row, active, rule, sshPort, failed>>

\* A crash: nothing resumes or undoes what the request has done.
Abandon(r) ==
  LET s == req[r].service IN
  /\ req[r].step # "idle"
  /\ Fault
  /\ bought' = IF bought[s] = "no" THEN [bought EXCEPT ![s] = "lost"] ELSE bought
  /\ failed' = IF req[r].step = "record" THEN failed \union {s} ELSE failed
  /\ Answer(r)
  /\ UNCHANGED <<row, active, rule, sshPort>>

Next ==
  \/ \E r \in Requests, s \in Services : ReconfigLoad(r, s) \/ PurchaseBegin(r, s)
  \/ \E r \in Requests :
       \/ ReconfigRotate(r) \/ ReconfigRefused(r)
       \/ ReconfigReplace(r) \/ ReplaceUnnoticed(r)
       \/ ReconfigRecord(r) \/ ReconfigRollback(r)
       \/ PurchaseAllocate(r) \/ PurchaseRefused(r)
       \/ PurchaseForward(r) \/ ForwardUnnoticed(r)
       \/ PurchaseInsert(r) \/ PurchaseLost(r)
       \/ Abandon(r)

Spec == Init /\ [][Next]_vars

-----------------------------------------------------------------------------
(***************************************************************************)
(* Properties                                                              *)
(***************************************************************************)

\* Every row, rule and request has the values the code can give it.
TypeOK ==
  /\ row \in [Ports -> Targets \union {NoTarget}]
  /\ active \in SUBSET Ports
  /\ rule \in [Ports -> Targets \union {NoTarget}]
  /\ bought \in [Services -> {"no", "yes", "lost"}]
  /\ sshPort \in [Services -> Ports \union {0}]
  /\ failed \in SUBSET Services
  /\ faults \in 0..MaxFaults
  /\ req \in [Requests -> [step : Steps, service : Services \union {NoService},
                         current : SUBSET Ports,
                         next : UNION {[D -> Kinds] : D \in SUBSET Ports}]]

\* What a request can record is forwarded to its service: although nothing is
\* reserved in the database, whoever has changed the rules owns the ports that
\* have no row yet.
RecordableIsForwarded ==
  \A r \in Requests : req[r].step \in {"record", "insert"} =>
    \A p \in New(r) : row[p] = NoTarget => rule[p] = Moved(r)[p]

\* The ports the rows promise a customer lead to his instance and to the port
\* of their kind, except while the service is being reconfigured or after a
\* reconfiguration of it that changed the rules and was not recorded: no
\* other service's purchase or reconfiguration can take a recorded port away.
ActiveIsForwarded ==
  \A p \in active :
    \/ rule[p] = row[p]
    \/ row[p].service \in failed
    \/ \E r \in Requests : req[r].step = "record" /\ p \in req[r].current

\* The SSH port a service shows is one of its active rows for SSH, however its
\* reconfigurations overlap.
SshPortIsActive ==
  \A s \in Services : bought[s] = "yes" =>
    sshPort[s] \in active /\ row[sshPort[s]] = Target(s, Ssh)

\* A service has two active mappings of one kind only if a reconfiguration of
\* it recorded its rows after another one had changed those it had loaded.
ActiveRows(s) == {p \in active : row[p].service = s}

SecondBundleOnlyByStaleLoad ==
  [][\A s \in Services :
       Cardinality(ActiveRows(s)') > Cardinality(ActiveRows(s)) =>
         \/ ActiveRows(s) = {}
         \/ \E r \in Requests : req[r].step = "record" /\ req[r].service = s
                                  /\ req[r].current # ActiveRows(s)]_vars

\* What ReconfigIPSubmit's test calls rolling back on a failure of the
\* database: a service that is not being reconfigured has the rules of its rows.
RolledBackIfNotRecorded ==
  \A p \in active :
    \/ rule[p] = row[p]
    \/ \E r \in Requests : req[r].step = "record" /\ p \in req[r].current
=============================================================================
