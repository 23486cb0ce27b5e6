--------------------------- MODULE LifecycleProofs ---------------------------
(***************************************************************************)
(* Lifecycle keeps its types, a terminated service stays so but for late   *)
(* requests, the rows are those of the instance unless excused, and no     *)
(* refund exceeds what was paid, for any services, packages and requests.  *)
(* The exceptions are gone while a service has one request at a time.      *)
(***************************************************************************)
EXTENDS Lifecycle, TLAPS

Request == [op : Ops, step : Steps, service : Services \union {NoService},
            to : Users \union {Nobody}, pkg : Versions \union {NoVersion},
            target : Versions \union {NoVersion}, until : Nat, amount : Nat,
            changed : SUBSET Aspects, late : SUBSET Aspects]

Runtime == {"start", "stop", "restart"}

\* The steps a request goes through, and what it has changed by then.
WellFormed(x) ==
  /\ x.step = "idle" <=> x.op = "none"
  /\ x.step = "idle" => x.changed = {} /\ x.service = NoService
  /\ x.step # "idle" => x.service \in Services
  /\ x.op \in Runtime => /\ x.step \in {"change", "commit"}
                         /\ x.changed = IF x.step = "commit" THEN {Power} ELSE {}
  /\ x.op = "password" => /\ x.step \in {"exec", "commit"}
                          /\ x.changed = IF x.step = "commit" THEN {Password} ELSE {}
  /\ x.op = "reinstall" => /\ x.step \in {"stop", "rebuild", "start", "exec", "commit"}
                           /\ x.changed \subseteq {Power, Password}
                           /\ x.step = "commit" => Power \in x.changed
  /\ x.op = "renew" => x.step = "commit" /\ x.changed = {}
                        /\ x.pkg \in Versions /\ x.target \in Versions
  /\ x.op = "transfer" => x.step = "commit" /\ x.changed = {} /\ x.to \in Users
  /\ x.op = "upgrade" => /\ x.step \in {"change", "commit", "revert"}
                         /\ x.changed = IF x.step = "change" THEN {} ELSE {Limits}
                         /\ x.pkg \in Versions /\ x.target \in Versions
  /\ x.op = "cancel" => /\ x.step \in {"stop", "delete", "commit"}
                        /\ x.changed = Aspects <=> x.step = "commit"
                        /\ x.step # "commit" => x.changed \subseteq {Power}

\* A step of no request.
NoRequest == Tick \/ \E v \in Versions : UpdatePackage(v)

USE DEF outside

TypeInv == TypeOK /\ \A r \in Requests : WellFormed(req[r])

-----------------------------------------------------------------------------
(***************************************************************************)
(* What a step does to the requests                                        *)
(***************************************************************************)

\* A step of another request makes some changes of q late, and no more.
Kept(q) ==
  /\ req'[q].op = req[q].op /\ req'[q].step = req[q].step
  /\ req'[q].service = req[q].service
  /\ req'[q].to = req[q].to /\ req'[q].pkg = req[q].pkg
  /\ req'[q].target = req[q].target
  /\ req'[q].until = req[q].until /\ req'[q].amount = req[q].amount
  /\ req'[q].changed = req[q].changed
  /\ req[q].late \subseteq req'[q].late

OthersKept(r) == \A q \in Requests \ {r} : Kept(q)

\* r goes on.
Moves(r, step, changed, late) ==
  /\ req'[r].op = req[r].op /\ req'[r].step = step
  /\ req'[r].service = req[r].service
  /\ req'[r].to = req[r].to /\ req'[r].pkg = req[r].pkg
  /\ req'[r].target = req[r].target
  /\ req'[r].until = req[r].until /\ req'[r].amount = req[r].amount
  /\ req'[r].changed = changed /\ req'[r].late = late

\* Changes of the aspects A that others made of the service of r are late.
MadeLate(r, A) ==
  \A q \in Requests \ {r} :
    Svc(q) = Svc(r) => req[q].changed \cap A \subseteq req'[q].late

LEMMA IdleType == Idle \in Request /\ WellFormed(Idle)
BY DEF Idle, Request, WellFormed, Ops, Steps, Runtime, Aspects

LEMMA AnswerFacts ==
  ASSUME TypeInv, NEW r \in Requests, Answer(r)
  PROVE  /\ req' \in [Requests -> Request]
         /\ req'[r] = Idle /\ OthersKept(r)
         /\ \A q \in Requests \ {r} : req'[q] = req[q]
BY IdleType DEF TypeInv, TypeOK, Request, Answer, OthersKept, Kept

LEMMA GoFacts ==
  ASSUME TypeInv, NEW r \in Requests, NEW step \in Steps, Go(r, step)
  PROVE  /\ req' \in [Requests -> Request]
         /\ Moves(r, step, req[r].changed, req[r].late) /\ OthersKept(r)
         /\ \A q \in Requests \ {r} : req'[q] = req[q]
<1>1. req \in [Requests -> Request]
  BY DEF TypeInv, TypeOK, Request
<1>2. req' = [req EXCEPT ![r] = [req[r] EXCEPT !.step = step]]
  BY DEF Go
<1>3. [req[r] EXCEPT !.step = step] \in Request
  BY <1>1 DEF Request
<1>4. req'[r] = [req[r] EXCEPT !.step = step]
  BY <1>1, <1>2
<1> QED BY <1>1, <1>2, <1>3, <1>4 DEF Moves, OthersKept, Kept, Request

\* The requests after r has changed the aspects A: those that become late are B
\* of the others.
LEMMA ChangeFacts ==
  ASSUME TypeInv, NEW r \in Requests, NEW step \in Steps,
         NEW A \in SUBSET Aspects, NEW B \in SUBSET Aspects,
         req' = [q \in Requests |->
            IF q = r
              THEN [req[r] EXCEPT !.step = step, !.changed = req[r].changed \union A,
                                  !.late = req[r].late \ A]
              ELSE IF Svc(q) = Svc(r)
                     THEN [req[q] EXCEPT !.late = @ \union (req[q].changed \cap B)]
                     ELSE req[q]]
  PROVE  /\ req' \in [Requests -> Request]
         /\ Moves(r, step, req[r].changed \union A, req[r].late \ A)
         /\ OthersKept(r) /\ MadeLate(r, B)
<1>1. req \in [Requests -> Request]
  BY DEF TypeInv, TypeOK, Request
<1>2. [req[r] EXCEPT !.step = step, !.changed = req[r].changed \union A,
                     !.late = req[r].late \ A] \in Request
  BY <1>1 DEF Request
<1>3. Moves(r, step, req[r].changed \union A, req[r].late \ A)
  BY <1>1, <1>2 DEF Moves, Request
<1>4. ASSUME NEW q \in Requests \ {r}
      PROVE  /\ req'[q] \in Request /\ Kept(q)
             /\ Svc(q) = Svc(r) => req[q].changed \cap B \subseteq req'[q].late
  <2>1. CASE Svc(q) = Svc(r)
    <3>1. req'[q] = [req[q] EXCEPT !.late = req[q].late \union (req[q].changed \cap B)]
      BY <1>4, <2>1
    <3> QED BY <1>1, <3>1 DEF Kept, Request
  <2>2. CASE Svc(q) # Svc(r)
    BY <1>1, <2>2 DEF Kept
  <2> QED BY <2>1, <2>2
<1> QED BY <1>1, <1>2, <1>3, <1>4 DEF OthersKept, MadeLate

LEMMA ChangedFacts ==
  ASSUME TypeInv, NEW r \in Requests, NEW step \in Steps,
         NEW A \in SUBSET Aspects, Changed(r, A, step)
  PROVE  /\ req' \in [Requests -> Request]
         /\ Moves(r, step, req[r].changed \union A, req[r].late \ A)
         /\ OthersKept(r) /\ MadeLate(r, A)
BY ChangeFacts DEF Changed

LEMMA ExecFacts ==
  ASSUME TypeInv, NEW r \in Requests, Exec(r)
  PROVE  LET A == IF req[r].op = "reinstall" THEN {Power, Password} ELSE {Password} IN
         /\ req' \in [Requests -> Request]
         /\ Moves(r, "commit", req[r].changed \union A, req[r].late \ A)
         /\ OthersKept(r) /\ MadeLate(r, {Password})
<1> DEFINE A == IF req[r].op = "reinstall" THEN {Power, Password} ELSE {Password}
<1>1. A \in SUBSET Aspects /\ {Password} \in SUBSET Aspects /\ "commit" \in Steps
  BY DEF Aspects, Steps
<1>2. (IF req[r].op = "reinstall" THEN {Power} ELSE {}) \union {Password} = A
  OBVIOUS
<1>3. req[r].changed \union (IF req[r].op = "reinstall" THEN {Power} ELSE {}) \union {Password}
        = req[r].changed \union A
  BY <1>2
<1>4. req' = [q \in Requests |->
            IF q = r
              THEN [req[r] EXCEPT !.step = "commit", !.changed = req[r].changed \union A,
                                  !.late = req[r].late \ A]
              ELSE IF Svc(q) = Svc(r)
                     THEN [req[q] EXCEPT !.late = @ \union (req[q].changed \cap {Password})]
                     ELSE req[q]]
  BY <1>2, <1>3 DEF Exec
<1> HIDE DEF A
<1>5. /\ req' \in [Requests -> Request]
      /\ Moves(r, "commit", req[r].changed \union A, req[r].late \ A)
      /\ OthersKept(r) /\ MadeLate(r, {Password})
  BY <1>1, <1>4, ChangeFacts
<1> QED BY <1>5 DEF A

LEMMA RevertFacts ==
  ASSUME TypeInv, NEW r \in Requests, UpgradeRevert(r)
  PROVE  /\ req' \in [Requests -> Request]
         /\ req'[r] = Idle /\ OthersKept(r) /\ MadeLate(r, {Limits})
<1>1. req \in [Requests -> Request]
  BY DEF TypeInv, TypeOK, Request
<1>2. req' = [q \in Requests |->
       IF q = r THEN Idle
       ELSE IF Svc(q) = Svc(r)
              THEN [req[q] EXCEPT !.late = @ \union (req[q].changed \cap {Limits})]
              ELSE req[q]]
  BY DEF UpgradeRevert
<1>3. req'[r] = Idle
  BY <1>2
<1>4. ASSUME NEW q \in Requests \ {r}
      PROVE  /\ req'[q] \in Request /\ Kept(q)
             /\ Svc(q) = Svc(r) => req[q].changed \cap {Limits} \subseteq req'[q].late
  <2>1. CASE Svc(q) = Svc(r)
    <3>1. req'[q] = [req[q] EXCEPT !.late = req[q].late \union (req[q].changed \cap {Limits})]
      BY <1>2, <1>4, <2>1
    <3> QED BY <1>1, <3>1 DEF Kept, Request
  <2>2. CASE Svc(q) # Svc(r)
    BY <1>1, <1>2, <2>2 DEF Kept
  <2> QED BY <2>1, <2>2
<1> QED BY <1>1, <1>2, <1>3, <1>4, IdleType DEF OthersKept, MadeLate

LEMMA KeptWellFormed ==
  ASSUME TypeInv, NEW q \in Requests, Kept(q)
  PROVE  WellFormed(req'[q])
<1>1. WellFormed(req[q])
  BY DEF TypeInv
<1> QED BY <1>1 DEF Kept, WellFormed

\* A request that begins.
LEMMA BeginFacts ==
  ASSUME TypeInv, NEW r \in Requests, NEW new \in Request, Begin(r, new)
  PROVE  /\ req' \in [Requests -> Request]
         /\ req[r].step = "idle" /\ req'[r] = new /\ OthersKept(r)
BY DEF TypeInv, TypeOK, Request, Begin, OthersKept, Kept

-----------------------------------------------------------------------------
(***************************************************************************)
(* The proration                                                           *)
(***************************************************************************)

LEMMA Division ==
  ASSUME NEW n \in Nat, NEW c \in Nat \ {0}
  PROVE  /\ n \div c \in Nat /\ n % c \in 0..(c - 1)
         /\ n = c * (n \div c) + (n % c)
OBVIOUS

\* A prorated amount is the exact one, rounded down, or one less than it.
LEMMA ProratedBounds ==
  ASSUME NEW a \in Nat, NEW d \in Nat, NEW c \in Nat \ {0}, NEW x \in Prorated(a, d, c)
  PROVE  x \in Nat /\ x * c <= a * d /\ a * d <= (x + 1) * c
<1> DEFINE n == a * d
           q == n \div c
<1>1. n \in Nat
  OBVIOUS
<1> HIDE DEF n
<1>2. q \in Nat /\ n % c \in 0..(c - 1) /\ n = c * q + (n % c)
  BY <1>1, Division
<1>3. x = q \/ (x = q - 1 /\ x >= 0 /\ n % c = 0)
  BY DEF Prorated, n
<1> HIDE DEF q
<1>4. x \in Nat
  BY <1>2, <1>3
<1>5. x * c <= n /\ n <= (x + 1) * c
  <2>1. CASE x = q
    <3>1. n <= c * q + c /\ c * q <= n
      BY <1>1, <1>2
    <3> QED BY <1>2, <2>1, <3>1
  <2>2. CASE x = q - 1 /\ x >= 0 /\ n % c = 0
    <3>1. n = c * q
      BY <1>2, <2>2
    <3>2. x + 1 = q /\ x * c = c * q - c
      BY <1>2, <2>2
    <3> QED BY <1>1, <1>2, <3>1, <3>2
  <2> QED BY <1>3, <2>1, <2>2
<1> QED BY <1>4, <1>5 DEF n

LEMMA DurationType ==
  ASSUME NEW e \in Nat, NEW t \in Nat
  PROVE  RemainingDuration(e, t) \in Nat
BY DEF RemainingDuration

LEMMA RefundType ==
  ASSUME NEW p \in Nat, NEW d \in Nat, NEW c \in Nat \ {0}, NEW x \in ProratedRefund(p, d, c)
  PROVE  x \in Nat /\ x * c <= p * d
<1>1. CASE p <= 0 \/ d <= 0
  <2>1. x = 0
    BY <1>1 DEF ProratedRefund
  <2>2. 0 <= p * d
    OBVIOUS
  <2> QED BY <2>1, <2>2
<1>2. CASE ~(p <= 0 \/ d <= 0)
  <2>1. x \in Prorated(p, d, c)
    BY <1>2 DEF ProratedRefund
  <2> QED BY <2>1, ProratedBounds
<1> QED BY <1>1, <1>2

LEMMA CostType ==
  ASSUME NEW p \in Nat, NEW t \in Nat, NEW d \in Nat, NEW c \in Nat \ {0},
         NEW x \in ProratedUpgradeCost(p, t, d, c), x > 0
  PROVE  x \in Nat /\ p < t /\ d > 0 /\ (t - p) * d <= (x + 1) * c
<1>1. ~(t <= p \/ d <= 0 \/ c <= 0)
  BY DEF ProratedUpgradeCost
<1>2. x \in Prorated(t - p, d, c)
  BY <1>1 DEF ProratedUpgradeCost
<1>3. t - p \in Nat
  BY <1>1
<1> QED BY <1>1, <1>2, <1>3, ProratedBounds

-----------------------------------------------------------------------------
(***************************************************************************)
(* Requests that begin                                                     *)
(***************************************************************************)

LEMMA RuntimeLoads ==
  ASSUME TypeInv, NEW r \in Requests, NEW s \in Services, NEW action \in Runtime,
         RuntimeLoad(r, s, action) \/ ActLoad(r, s, action)
  PROVE  \E new \in Request : /\ Begin(r, new) /\ WellFormed(new)
                              /\ new.changed = {} /\ new.late = {} /\ new.service = s
                              /\ new.op = action
<1> DEFINE new == Loaded(s, action, "change")
<1>1. new \in Request /\ WellFormed(new) /\ new.changed = {} /\ new.late = {} /\ new.service = s /\ new.op = action
  BY DEF Loaded, Idle, Request, WellFormed, Ops, Steps, Runtime, Aspects
<1>2. Begin(r, new)
  BY DEF RuntimeLoad, ActLoad
<1> HIDE DEF new
<1> QED BY <1>1, <1>2

LEMMA PasswordLoads ==
  ASSUME TypeInv, NEW r \in Requests, NEW s \in Services, PasswordLoad(r, s)
  PROVE  \E new \in Request : /\ Begin(r, new) /\ WellFormed(new)
                              /\ new.changed = {} /\ new.late = {} /\ new.service = s
                              /\ new.op = "password"
<1> DEFINE new == Loaded(s, "password", "exec")
<1>1. new \in Request /\ WellFormed(new) /\ new.changed = {} /\ new.late = {} /\ new.service = s /\ new.op = "password"
  BY DEF Loaded, Idle, Request, WellFormed, Ops, Steps, Runtime, Aspects
<1>2. Begin(r, new)
  BY DEF PasswordLoad
<1> HIDE DEF new
<1> QED BY <1>1, <1>2

LEMMA ReinstallLoads ==
  ASSUME TypeInv, NEW r \in Requests, NEW s \in Services, ReinstallLoad(r, s)
  PROVE  \E new \in Request : /\ Begin(r, new) /\ WellFormed(new)
                              /\ new.changed = {} /\ new.late = {} /\ new.service = s
                              /\ new.op = "reinstall"
<1>1. PICK step \in {"rebuild", "stop"} : Begin(r, Loaded(s, "reinstall", step))
  BY DEF ReinstallLoad
<1> DEFINE new == Loaded(s, "reinstall", step)
<1>2. new \in Request /\ WellFormed(new) /\ new.changed = {} /\ new.late = {} /\ new.service = s /\ new.op = "reinstall"
  BY DEF Loaded, Idle, Request, WellFormed, Ops, Steps, Runtime, Aspects, Power, Password
<1> HIDE DEF new
<1> QED BY <1>1, <1>2 DEF new

LEMMA TransferLoads ==
  ASSUME TypeInv, NEW r \in Requests, NEW s \in Services, NEW u \in Users,
         TransferLoad(r, s, u)
  PROVE  \E new \in Request : /\ Begin(r, new) /\ WellFormed(new)
                              /\ new.changed = {} /\ new.late = {} /\ new.service = s
                              /\ new.op = "transfer"
<1> DEFINE new == [Loaded(s, "transfer", "commit") EXCEPT !.to = u]
<1>1. new \in Request /\ WellFormed(new) /\ new.changed = {} /\ new.late = {} /\ new.service = s /\ new.op = "transfer"
  BY DEF Loaded, Idle, Request, WellFormed, Ops, Steps, Runtime, Aspects
<1>2. Begin(r, new)
  BY DEF TransferLoad
<1> HIDE DEF new
<1> QED BY <1>1, <1>2

LEMMA CurrentRowType ==
  ASSUME TypeInv, NEW s \in Services
  PROVE  /\ snapshot[s] \in Versions /\ CurrentRow(s) \in Versions
         /\ PackageOf[CurrentRow(s)] = PackageOf[snapshot[s]]
BY LifecycleAssumption DEF TypeInv, TypeOK, CurrentRow, Rows

LEMMA RenewLoads ==
  ASSUME TypeInv, NEW r \in Requests, NEW s \in Services, RenewLoad(r, s)
  PROVE  LET v == CurrentRow(s) IN
         \E new \in Request : /\ Begin(r, new) /\ WellFormed(new)
                              /\ new.changed = {} /\ new.late = {} /\ new.service = s
                              /\ new.op = "renew" /\ new.pkg = snapshot[s]
                              /\ new.target = v /\ new.amount = Price[v]
                              /\ new.until = ExtendExpiry(expires[s], now, Days[v])
<1> DEFINE p == snapshot[s]
           v == CurrentRow(s)
           until == ExtendExpiry(expires[s], now, Days[v])
           new == [Loaded(s, "renew", "commit") EXCEPT
                     !.pkg = p, !.target = v, !.amount = Price[v], !.until = until]
<1>1. Begin(r, new)
  BY DEF RenewLoad
<1>2. /\ p \in Versions /\ v \in Versions /\ Price[v] \in Nat /\ Days[v] \in Nat
      /\ expires[s] \in Nat /\ now \in Nat
  BY CurrentRowType, LifecycleAssumption DEF TypeInv, TypeOK
<1>3. until \in Nat
  BY <1>2 DEF ExtendExpiry
<1> HIDE DEF p, v, until
<1>4. new \in Request /\ WellFormed(new) /\ new.changed = {} /\ new.late = {} /\ new.service = s /\ new.op = "renew"
  BY <1>2, <1>3 DEF Loaded, Idle, Request, WellFormed, Ops, Steps, Runtime, Aspects
<1>5. new.pkg = p /\ new.target = v /\ new.amount = Price[v] /\ new.until = until
  BY DEF Loaded, Idle
<1> HIDE DEF new
<1> QED BY <1>1, <1>4, <1>5 DEF p, v, until

LEMMA UpgradeLoads ==
  ASSUME TypeInv, NEW r \in Requests, NEW s \in Services, NEW p \in Packages,
         UpgradeLoad(r, s, p)
  PROVE  LET target == version[p] IN
         \E new \in Request :
           /\ Begin(r, new) /\ WellFormed(new)
           /\ new.changed = {} /\ new.late = {} /\ new.service = s /\ new.op = "upgrade"
           /\ new.pkg = snapshot[s] /\ new.until = expires[s] /\ new.target = target
           /\ new.amount > 0
           /\ new.amount \in ProratedUpgradeCost(Price[snapshot[s]], Price[target],
                               RemainingDuration(expires[s], now), cycle[s])
<1> DEFINE had == snapshot[s]
           target == version[p]
           costs == ProratedUpgradeCost(Price[had], Price[target],
                               RemainingDuration(expires[s], now), cycle[s])
<1>1. PICK c \in costs :
        /\ c > 0
        /\ Begin(r, [Loaded(s, "upgrade", "change") EXCEPT
                       !.pkg = had, !.until = expires[s], !.target = target, !.amount = c])
  BY DEF UpgradeLoad
<1> DEFINE new == [Loaded(s, "upgrade", "change") EXCEPT
                       !.pkg = had, !.until = expires[s], !.target = target, !.amount = c]
<1>2. /\ had \in Versions /\ target \in Versions /\ Price[had] \in Nat /\ Price[target] \in Nat
      /\ cycle[s] \in Nat \ {0} /\ expires[s] \in Nat /\ now \in Nat
  BY LifecycleAssumption DEF TypeInv, TypeOK, Rows
<1>3. c \in Nat
  BY <1>1, <1>2, DurationType, CostType
<1> HIDE DEF had, target, costs
<1>4. new \in Request /\ WellFormed(new) /\ new.changed = {} /\ new.late = {} /\ new.service = s /\ new.op = "upgrade"
  BY <1>2, <1>3 DEF Loaded, Idle, Request, WellFormed, Ops, Steps, Runtime, Aspects
<1>5. new.pkg = had /\ new.until = expires[s] /\ new.target = target /\ new.amount = c
  BY DEF Loaded, Idle
<1>6. Begin(r, new)
  BY <1>1
<1> HIDE DEF new
<1> QED BY <1>1, <1>4, <1>5, <1>6 DEF had, target, costs

LEMMA CancelLoads ==
  ASSUME TypeInv, NEW r \in Requests, NEW s \in Services, CancelLoad(r, s)
  PROVE  \E new \in Request :
           /\ Begin(r, new) /\ WellFormed(new)
           /\ new.changed = {} /\ new.late = {} /\ new.service = s
           /\ new.op = "cancel" /\ new.step = "stop"
           /\ new.amount \in ProratedRefund(Price[snapshot[s]],
                               RemainingDuration(expires[s], now), cycle[s])
<1> DEFINE costs == ProratedRefund(Price[snapshot[s]],
                               RemainingDuration(expires[s], now), cycle[s])
<1>1. PICK c \in costs : Begin(r, [Loaded(s, "cancel", "stop") EXCEPT !.amount = c])
  BY DEF CancelLoad
<1> DEFINE new == [Loaded(s, "cancel", "stop") EXCEPT !.amount = c]
<1>2. /\ Price[snapshot[s]] \in Nat
      /\ cycle[s] \in Nat \ {0} /\ expires[s] \in Nat /\ now \in Nat
  BY LifecycleAssumption DEF TypeInv, TypeOK
<1>3. c \in Nat
  BY <1>1, <1>2, DurationType, RefundType
<1> HIDE DEF costs
<1>4. /\ new \in Request /\ WellFormed(new) /\ new.changed = {} /\ new.late = {} /\ new.service = s
      /\ new.op = "cancel" /\ new.step = "stop" /\ new.amount = c
  BY <1>2, <1>3 DEF Loaded, Idle, Request, WellFormed, Ops, Steps, Runtime, Aspects
<1>5. Begin(r, new)
  BY <1>1
<1> HIDE DEF new
<1> QED BY <1>1, <1>4, <1>5 DEF costs

LEMMA LoadFacts ==
  ASSUME TypeInv, NEW r \in Requests, NEW s \in Services, Load(r, s)
  PROVE  \E new \in Request : /\ Begin(r, new) /\ WellFormed(new)
                              /\ new.changed = {} /\ new.late = {} /\ new.service = s
<1>1. ASSUME NEW action \in Runtime, RuntimeLoad(r, s, action) \/ ActLoad(r, s, action)
      PROVE  \E new \in Request : /\ Begin(r, new) /\ WellFormed(new)
                                  /\ new.changed = {} /\ new.late = {} /\ new.service = s
  BY <1>1, RuntimeLoads
<1>2. ASSUME NEW p \in Packages, UpgradeLoad(r, s, p)
      PROVE  \E new \in Request : /\ Begin(r, new) /\ WellFormed(new)
                                  /\ new.changed = {} /\ new.late = {} /\ new.service = s
  BY <1>2, UpgradeLoads
<1>3. ASSUME NEW u \in Users, TransferLoad(r, s, u)
      PROVE  \E new \in Request : /\ Begin(r, new) /\ WellFormed(new)
                                  /\ new.changed = {} /\ new.late = {} /\ new.service = s
  BY <1>3, TransferLoads
<1>4. CASE PasswordLoad(r, s)
  BY <1>4, PasswordLoads
<1>5. CASE ReinstallLoad(r, s)
  BY <1>5, ReinstallLoads
<1>6. CASE RenewLoad(r, s)
  BY <1>6, RenewLoads
<1>7. CASE CancelLoad(r, s)
  BY <1>7, CancelLoads
<1> QED BY <1>1, <1>2, <1>3, <1>4, <1>5, <1>6, <1>7 DEF Load, Runtime

-----------------------------------------------------------------------------
(***************************************************************************)
(* Types                                                                   *)
(***************************************************************************)

\* TypeOK without the requests.
RowsTyped ==
  /\ owner \in [Services -> Users]
  /\ status \in [Services -> {"active", "stopped", "terminated"}]
  /\ instance \in [Services -> {"running", "stopped", "deleted"}]
  /\ incus \in [Services -> {"running", "stopped", "gone"}]
  /\ snapshot \in [Services -> Versions] /\ limits \in [Services -> Versions]
  /\ version \in Rows
  /\ expires \in [Services -> Nat] /\ cycle \in [Services -> Nat \ {0}]
  /\ cost \in [Services -> Nat] /\ upgrades \in [Services -> Nat]
  /\ refunded \in [Services -> Nat]
  /\ told \in [Services -> BOOLEAN] /\ mixed \in [Services -> BOOLEAN]
  /\ spoilt \in [Services -> SUBSET Aspects]
  /\ now \in 0..MaxTime /\ faults \in 0..MaxFaults

LEMMA SplitType == TypeOK <=> RowsTyped /\ req \in [Requests -> Request]
BY DEF TypeOK, RowsTyped, Request

LEMMA PowerRequests ==
  ASSUME TypeInv, NEW r \in Requests, NEW action \in Runtime, NEW step \in Steps,
         SetPower(r, action, step)
  PROVE  /\ req' \in [Requests -> Request]
         /\ Moves(r, step, req[r].changed \union {Power}, req[r].late \ {Power})
         /\ OthersKept(r) /\ MadeLate(r, {Power})
<1>1. {Power} \in SUBSET Aspects
  BY DEF Aspects
<1> QED BY <1>1, ChangedFacts DEF SetPower

LEMMA CallRequests ==
  ASSUME TypeInv, NEW r \in Requests, Call(r) \/ Record(r) \/ Abandon(r)
  PROVE  /\ req' \in [Requests -> Request] /\ WellFormed(req'[r]) /\ OthersKept(r)
<1> /\ {} \in SUBSET Aspects /\ {Power} \in SUBSET Aspects /\ {Password} \in SUBSET Aspects
    /\ {Limits} \in SUBSET Aspects /\ Aspects \in SUBSET Aspects
    /\ Power # Password /\ Power # Limits /\ Password # Limits
    /\ Runtime \subseteq Ops
  BY DEF Aspects, Power, Password, Limits, Runtime, Ops
<1> /\ "commit" \in Steps /\ "rebuild" \in Steps /\ "start" \in Steps /\ "exec" \in Steps
    /\ "delete" \in Steps /\ "revert" \in Steps
  BY DEF Steps
<1> WellFormed(req[r])
  BY DEF TypeInv
<1>1. CASE ChangeState(r)
  <2>1. Moves(r, "commit", req[r].changed \union {Power}, req[r].late \ {Power})
    BY <1>1, PowerRequests DEF ChangeState, Runtime
  <2>2. WellFormed(req'[r])
    BY <1>1, <2>1 DEF Moves, WellFormed, ChangeState, Runtime
  <2> QED BY <1>1, <2>2, PowerRequests DEF ChangeState, Runtime
<1>2. CASE Exec(r)
  <2>1. req[r].step = "exec"
    BY <1>2 DEF Exec
  <2>2. req[r].op \in {"password", "reinstall"}
    <3>1. req[r].op \in Ops
      BY DEF TypeInv, TypeOK
    <3> QED BY <2>1, <3>1 DEF WellFormed, Ops, Runtime
  <2>3. CASE req[r].op = "password"
    <3>1. Moves(r, "commit", req[r].changed \union {Password}, req[r].late \ {Password})
      BY <1>2, <2>3, ExecFacts
    <3>2. WellFormed(req'[r])
      BY <2>1, <2>3, <3>1 DEF Moves, WellFormed, Runtime
    <3> QED BY <1>2, <3>2, ExecFacts
  <2>4. CASE req[r].op = "reinstall"
    <3>1. Moves(r, "commit", req[r].changed \union {Power, Password}, req[r].late \ {Power, Password})
      BY <1>2, <2>4, ExecFacts
    <3>2. WellFormed(req'[r])
      BY <2>1, <2>4, <3>1 DEF Moves, WellFormed, Runtime
    <3> QED BY <1>2, <3>2, ExecFacts
  <2> QED BY <2>2, <2>3, <2>4
<1>3. CASE ApplyResourceLimits(r)
  <2>1. /\ req' \in [Requests -> Request] /\ OthersKept(r)
        /\ Moves(r, "commit", req[r].changed \union {Limits}, req[r].late \ {Limits})
    BY <1>3, ChangedFacts DEF ApplyResourceLimits
  <2>2. WellFormed(req'[r])
    BY <1>3, <2>1 DEF Moves, WellFormed, ApplyResourceLimits, Runtime
  <2> QED BY <2>1, <2>2
<1>4. CASE ReinstallStop(r)
  <2>1. /\ req' \in [Requests -> Request] /\ OthersKept(r)
        /\ Moves(r, "rebuild", req[r].changed \union {Power}, req[r].late \ {Power})
    BY <1>4, PowerRequests DEF ReinstallStop, Runtime
  <2>2. WellFormed(req'[r])
    BY <1>4, <2>1 DEF Moves, WellFormed, ReinstallStop, Runtime
  <2> QED BY <2>1, <2>2
<1>a. req[r].step \in {"rebuild", "start"} => req[r].op = "reinstall"
  <2>1. req[r].op \in Ops
    BY DEF TypeInv, TypeOK
  <2> QED BY <2>1 DEF WellFormed, Ops, Runtime
<1>5. CASE ReinstallRebuild(r)
  <2>1. /\ req' \in [Requests -> Request] /\ OthersKept(r)
        /\ Moves(r, "start", req[r].changed \union {Password}, req[r].late \ {Password})
    BY <1>5, ChangedFacts DEF ReinstallRebuild
  <2>2. WellFormed(req'[r])
    BY <1>5, <1>a, <2>1 DEF Moves, WellFormed, ReinstallRebuild, Runtime
  <2> QED BY <2>1, <2>2
<1>6. CASE ReinstallStart(r)
  <2>1. req[r].op = "reinstall" /\ req[r].step = "start"
    BY <1>6, <1>a DEF ReinstallStart
  <2>2. CASE SetPower(r, "start", "exec")
    <3>1. /\ req' \in [Requests -> Request] /\ OthersKept(r)
          /\ Moves(r, "exec", req[r].changed \union {Power}, req[r].late \ {Power})
      BY <2>2, PowerRequests DEF Runtime
    <3>2. WellFormed(req'[r])
      BY <2>1, <3>1 DEF Moves, WellFormed, Runtime
    <3> QED BY <3>1, <3>2
  <2>3. CASE Go(r, "exec")
    <3>1. /\ req' \in [Requests -> Request] /\ OthersKept(r)
          /\ Moves(r, "exec", req[r].changed, req[r].late)
      BY <2>3, GoFacts
    <3>2. WellFormed(req'[r])
      BY <2>1, <3>1 DEF Moves, WellFormed, Runtime
    <3> QED BY <3>1, <3>2
  <2> QED BY <1>6, <2>2, <2>3 DEF ReinstallStart
<1>7. CASE CancelStop(r)
  <2>1. req[r].op = "cancel" /\ req[r].step = "stop"
    BY <1>7 DEF CancelStop
  <2>2. CASE SetPower(r, "stop", "delete")
    <3>1. /\ req' \in [Requests -> Request] /\ OthersKept(r)
          /\ Moves(r, "delete", req[r].changed \union {Power}, req[r].late \ {Power})
      BY <2>2, PowerRequests DEF Runtime
    <3>2. req[r].changed \union {Power} # Aspects /\ req[r].changed \union {Power} \subseteq {Power}
      BY <2>1 DEF WellFormed, Aspects
    <3>3. WellFormed(req'[r])
      BY <2>1, <3>1, <3>2 DEF Moves, WellFormed, Runtime
    <3> QED BY <3>1, <3>3
  <2>3. CASE Go(r, "delete")
    <3>1. /\ req' \in [Requests -> Request] /\ OthersKept(r)
          /\ Moves(r, "delete", req[r].changed, req[r].late)
      BY <2>3, GoFacts
    <3>2. WellFormed(req'[r])
      BY <2>1, <3>1 DEF Moves, WellFormed, Runtime
    <3> QED BY <3>1, <3>2
  <2> QED BY <1>7, <2>2, <2>3 DEF CancelStop
<1>8. CASE CancelDelete(r)
  <2>1. req[r].op = "cancel" /\ req[r].step = "delete"
    <3>1. req[r].op \in Ops
      BY DEF TypeInv, TypeOK
    <3> QED BY <1>8, <3>1 DEF WellFormed, Ops, Runtime, CancelDelete
  <2>2. /\ req' \in [Requests -> Request] /\ OthersKept(r)
        /\ Moves(r, "commit", req[r].changed \union Aspects, req[r].late \ Aspects)
    BY <1>8, ChangedFacts DEF CancelDelete
  <2>3. req[r].changed \union Aspects = Aspects
    BY DEF TypeInv, TypeOK
  <2>4. WellFormed(req'[r])
    BY <2>1, <2>2, <2>3 DEF Moves, WellFormed, Runtime
  <2> QED BY <2>2, <2>4
<1>9. CASE UpgradeNotRecorded(r)
  <2>1. /\ req' \in [Requests -> Request] /\ OthersKept(r)
        /\ Moves(r, "revert", req[r].changed, req[r].late)
    BY <1>9, GoFacts DEF UpgradeNotRecorded
  <2>2. WellFormed(req'[r])
    BY <1>9, <2>1 DEF Moves, WellFormed, Runtime, UpgradeNotRecorded
  <2> QED BY <2>1, <2>2
<1>10. CASE UpgradeRevert(r)
  BY <1>10, RevertFacts, IdleType
<1>11. CASE Answer(r)
  BY <1>11, AnswerFacts, IdleType
<1>12. Refused(r) \/ RuntimeCommit(r) \/ PasswordCommit(r) \/ ReinstallCommit(r) \/ RenewCommit(r)
         \/ UpgradeCommit(r) \/ TransferCommit(r) \/ CancelCommit(r) \/ Abandon(r) => Answer(r)
  BY DEF Refused, RuntimeCommit, PasswordCommit, ReinstallCommit, RenewCommit,
         UpgradeCommit, TransferCommit, CancelCommit, Abandon
<1> QED BY <1>1, <1>2, <1>3, <1>4, <1>5, <1>6, <1>7, <1>8, <1>9, <1>10, <1>11, <1>12
        DEF Call, Record, ActCommit

LEMMA LoadRequests ==
  ASSUME TypeInv, NEW r \in Requests, NEW s \in Services, Load(r, s)
  PROVE  /\ req' \in [Requests -> Request] /\ WellFormed(req'[r]) /\ OthersKept(r)
         /\ UNCHANGED <<rows, money, actual, told, spoilt, outside, faults>>
<1>1. PICK new \in Request : Begin(r, new) /\ WellFormed(new)
  BY LoadFacts
<1> QED BY <1>1, BeginFacts DEF Begin

LEMMA PowerRows ==
  ASSUME TypeInv, NEW r \in Requests, NEW action \in Runtime, NEW step \in Steps,
         SetPower(r, action, step)
  PROVE  /\ UNCHANGED <<rows, money, limits, told, spoilt, outside, faults>>
         /\ incus' \in [Services -> {"running", "stopped", "gone"}]
BY DEF SetPower, TypeInv, TypeOK

LEMMA CallRows ==
  ASSUME TypeInv, NEW r \in Requests, Call(r)
  PROVE  RowsTyped'
<1> USE DEF RowsTyped, rows, money, actual
<1> RowsTyped /\ req \in [Requests -> Request] /\ WellFormed(req[r])
  BY SplitType DEF TypeInv
<1> USE DEF Runtime, Steps
<1>1. CASE ChangeState(r)
  BY <1>1, PowerRows DEF ChangeState
<1>2. CASE Exec(r)
  BY <1>2 DEF Exec
<1>3. CASE ApplyResourceLimits(r)
  <2>1. req[r].target \in Versions
    BY <1>3 DEF ApplyResourceLimits, WellFormed
  <2> QED BY <1>3, <2>1 DEF ApplyResourceLimits
<1>4. CASE ReinstallStop(r)
  BY <1>4, PowerRows DEF ReinstallStop
<1>5. CASE ReinstallRebuild(r)
  BY <1>5 DEF ReinstallRebuild
<1>6. CASE ReinstallStart(r)
  <2>1. CASE SetPower(r, "start", "exec")
    BY <2>1, PowerRows
  <2>2. CASE UNCHANGED <<rows, money, actual, told, spoilt, outside>> /\ (UNCHANGED faults \/ Fault)
    <3>1. faults' \in 0..MaxFaults
      BY <2>2, LifecycleAssumption DEF Fault
    <3> QED BY <2>2, <3>1
  <2> QED BY <1>6, <2>1, <2>2 DEF ReinstallStart
<1>7. CASE CancelStop(r)
  BY <1>7, PowerRows DEF CancelStop
<1>8. CASE CancelDelete(r)
  BY <1>8 DEF CancelDelete
<1>9. CASE Refused(r)
  <2>1. spoilt' \in [Services -> SUBSET Aspects]
    BY <1>9 DEF Refused, Spoilt, Request
  <2> QED BY <1>9, <2>1 DEF Refused
<1> QED BY <1>1, <1>2, <1>3, <1>4, <1>5, <1>6, <1>7, <1>8, <1>9 DEF Call

LEMMA RecordRows ==
  ASSUME TypeInv, NEW r \in Requests, Record(r) \/ Abandon(r)
  PROVE  RowsTyped'
<1> USE DEF RowsTyped, rows, money, actual
<1> RowsTyped /\ req \in [Requests -> Request] /\ WellFormed(req[r])
  BY SplitType DEF TypeInv
<1> req[r].until \in Nat /\ req[r].amount \in Nat
  BY DEF Request
<1>a. Recorded(r) => spoilt' \in [Services -> SUBSET Aspects]
  <2> DEFINE b(s) == (spoilt[s] \ req[r].changed) \union req[r].late
  <2>1. \A s \in Services : b(s) \in SUBSET Aspects
    BY DEF Request
  <2>2. SUFFICES ASSUME spoilt' = [spoilt EXCEPT ![Svc(r)] = b(Svc(r))]
                 PROVE  spoilt' \in [Services -> SUBSET Aspects]
    BY DEF Recorded
  <2> HIDE DEF b
  <2> QED BY <2>1, <2>2
<1>b. Fault => faults' \in 0..MaxFaults
  BY LifecycleAssumption DEF Fault
<1>1. CASE RuntimeCommit(r)
  BY <1>1, <1>a DEF RuntimeCommit, Statuses, RuntimeStatuses
<1>2. CASE PasswordCommit(r)
  <2>1. (Password \notin req[r].late) \in BOOLEAN
    OBVIOUS
  <2> HIDE DEF Password
  <2> QED BY <1>2, <1>a, <2>1 DEF PasswordCommit
<1>3. CASE ReinstallCommit(r)
  BY <1>3, <1>a DEF ReinstallCommit, Statuses, RuntimeStatuses
<1>4. CASE RenewCommit(r)
  <2> DEFINE b(s) == \/ mixed[s] \/ req[r].pkg # snapshot[s]
                     \/ Price[req[r].target] * cycle[s]
                          < Price[req[r].pkg] * Days[req[r].target]
  <2>1. \A s \in Services : b(s) \in BOOLEAN
    OBVIOUS
  <2>2. mixed' = [mixed EXCEPT ![Svc(r)] = b(Svc(r))]
    BY <1>4 DEF RenewCommit
  <2> HIDE DEF b
  <2>3. mixed' \in [Services -> BOOLEAN]
    BY <2>1, <2>2
  <2> QED BY <1>4, <2>3 DEF RenewCommit
<1>5. CASE UpgradeCommit(r)
  <2> DEFINE b(s) == mixed[s] \/ req[r].until # expires[s]
  <2>1. \A s \in Services : b(s) \in BOOLEAN
    OBVIOUS
  <2>2. mixed' = [mixed EXCEPT ![Svc(r)] = b(Svc(r))]
    BY <1>5 DEF UpgradeCommit
  <2> HIDE DEF b
  <2>3. mixed' \in [Services -> BOOLEAN]
    BY <2>1, <2>2
  <2>4. req[r].target \in Versions
    BY <1>5 DEF UpgradeCommit, WellFormed
  <2> QED BY <1>5, <1>a, <2>3, <2>4 DEF UpgradeCommit
<1>6. CASE UpgradeNotRecorded(r)
  BY <1>6, <1>b DEF UpgradeNotRecorded
<1>7. CASE UpgradeRevert(r)
  <2>1. req[r].op = "upgrade"
    <3>1. req[r].op \in Ops
      BY DEF Request
    <3> QED BY <1>7, <3>1 DEF WellFormed, Ops, Runtime, UpgradeRevert
  <2>2. req[r].pkg \in Versions
    BY <2>1 DEF WellFormed
  <2>3. limits' \in [Services -> Versions]
    BY <1>7, <2>2 DEF UpgradeRevert
  <2>4. spoilt' \in [Services -> SUBSET Aspects]
    BY <1>7 DEF UpgradeRevert, Aspects
  <2> QED BY <1>7, <2>3, <2>4 DEF UpgradeRevert
<1>8. CASE TransferCommit(r)
  <2>1. req[r].to \in Users
    BY <1>8 DEF TransferCommit, WellFormed
  <2> QED BY <1>8, <2>1 DEF TransferCommit
<1>9. CASE CancelCommit(r)
  <2>1. /\ status' \in [Services -> {"active", "stopped", "terminated"}]
        /\ instance' \in [Services -> {"running", "stopped", "deleted"}]
    BY <1>9 DEF CancelCommit, Statuses
  <2>2. refunded' \in [Services -> Nat]
    <3> DEFINE b(s) == refunded[s] + req[r].amount
    <3>1. \A s \in Services : b(s) \in Nat
      OBVIOUS
    <3>2. refunded' = [refunded EXCEPT ![Svc(r)] = b(Svc(r))]
      BY <1>9 DEF CancelCommit
    <3> HIDE DEF b
    <3> QED BY <3>1, <3>2
  <2> QED BY <1>9, <1>a, <2>1, <2>2 DEF CancelCommit
<1>10. CASE Abandon(r)
  <2>1. spoilt' \in [Services -> SUBSET Aspects]
    BY <1>10 DEF Abandon, Spoilt, Request
  <2> QED BY <1>10, <1>b, <2>1 DEF Abandon
<1> QED BY <1>1, <1>2, <1>3, <1>4, <1>5, <1>6, <1>7, <1>8, <1>9, <1>10 DEF Record, ActCommit

LEMMA InitTypeInv == Init => TypeInv
<1> SUFFICES ASSUME Init PROVE TypeInv
  OBVIOUS
<1>1. RowsTyped
  BY LifecycleAssumption DEF Init, RowsTyped, Aspects
<1> QED BY <1>1, SplitType, IdleType DEF Init, TypeInv

LEMMA RequestsTypeInv ==
  ASSUME TypeInv, NEW r \in Requests, RowsTyped', req' \in [Requests -> Request],
         WellFormed(req'[r]), OthersKept(r)
  PROVE  TypeInv'
<1>1. \A q \in Requests : WellFormed(req'[q])
  BY KeptWellFormed DEF OthersKept
<1>2. TypeOK'
  BY DEF TypeOK, RowsTyped, Request
<1> QED BY <1>1, <1>2 DEF TypeInv, WellFormed

LEMMA StepTypeInv == TypeInv /\ [Next]_vars => TypeInv'
<1> SUFFICES ASSUME TypeInv, [Next]_vars PROVE TypeInv'
  OBVIOUS
<1>1. ASSUME NEW r \in Requests, NEW s \in Services, Load(r, s)
      PROVE  TypeInv'
  <2>1. RowsTyped'
    BY <1>1, LoadRequests, SplitType DEF TypeInv, RowsTyped, rows, money, actual
  <2> QED BY <1>1, <2>1, LoadRequests, RequestsTypeInv
<1>2. ASSUME NEW r \in Requests, Call(r)
      PROVE  TypeInv'
  BY <1>2, CallRows, CallRequests, RequestsTypeInv
<1>3. ASSUME NEW r \in Requests, Record(r) \/ Abandon(r)
      PROVE  TypeInv'
  BY <1>3, RecordRows, CallRequests, RequestsTypeInv
<1>4. CASE NoRequest
  <2>1. now' \in 0..MaxTime
    BY <1>4, LifecycleAssumption DEF NoRequest, Tick, UpdatePackage, TypeInv, TypeOK
  <2>2. version' \in Rows
    <3>1. version \in Rows
      BY DEF TypeInv, TypeOK
    <3>2. ASSUME NEW v \in Versions, UpdatePackage(v)
          PROVE  version' \in Rows
      <4>1. version' = [version EXCEPT ![PackageOf[v]] = v]
        BY <3>2 DEF UpdatePackage
      <4> QED BY <3>1, <4>1 DEF Rows
    <3> QED BY <1>4, <3>1, <3>2 DEF NoRequest, Tick
  <2>3. UNCHANGED <<rows, money, actual, told, spoilt, faults, req>>
    BY <1>4 DEF NoRequest, Tick, UpdatePackage
  <2>4. \A r \in Requests : WellFormed(req'[r])
    BY <2>3 DEF TypeInv
  <2>5. TypeOK'
    BY <2>1, <2>2, <2>3 DEF TypeInv, TypeOK, rows, money, actual
  <2> QED BY <2>4, <2>5 DEF TypeInv, WellFormed
<1>5. CASE UNCHANGED vars
  BY <1>5 DEF vars, TypeInv, TypeOK, rows, money, actual, WellFormed
<1> QED BY <1>1, <1>2, <1>3, <1>4, <1>5 DEF Next, NoRequest

\* Every row, instance and request has the values the code can give it.
THEOREM TypeCorrect == Spec => []TypeOK
<1>1. TypeInv => TypeOK
  BY DEF TypeInv
<1> QED BY <1>1, InitTypeInv, StepTypeInv, PTL DEF Spec

-----------------------------------------------------------------------------
(***************************************************************************)
(* What a request that is not late knows of the instance                   *)
(***************************************************************************)

\* The state its operation leaves the instance in.
Outcome(op) == CASE op = "stop" -> "stopped" [] op = "cancel" -> "gone" [] OTHER -> "running"

Deleting(x) == x.op = "cancel" /\ x.step = "commit"

\* What it has changed is as it left it, unless that is late; and once the
\* instance is gone all that is late, but for the cancellation that deleted it.
Informed(x, inc, lim) ==
  x.step # "idle" =>
    /\ x.step = "commit" /\ Power \in x.changed \ x.late =>
         inc[x.service] = Outcome(x.op)
    /\ x.op = "upgrade" /\ x.step = "commit" /\ Limits \in x.changed \ x.late =>
         lim[x.service] = x.target
    /\ Deleting(x) => inc[x.service] = "gone"
    /\ inc[x.service] = "gone" /\ ~Deleting(x) => x.changed \subseteq x.late

RequestInv ==
  /\ \A r \in Requests : Informed(req[r], incus, limits)
  /\ \A s \in Services : status[s] = "terminated" => incus[s] = "gone"

\* Another request's step leaves q informed if it makes late what it changes.
LEMMA KeptInformed ==
  ASSUME TypeInv, NEW q \in Requests, Informed(req[q], incus, limits), Kept(q),
         req[q].step # "idle" =>
           /\ \/ incus'[Svc(q)] = incus[Svc(q)]
              \/ /\ incus[Svc(q)] # "gone" /\ incus'[Svc(q)] # "gone"
                 /\ Power \in req[q].changed => Power \in req'[q].late
              \/ incus[Svc(q)] # "gone" /\ req[q].changed \subseteq req'[q].late
           /\ \/ limits'[Svc(q)] = limits[Svc(q)]
              \/ Limits \in req[q].changed => Limits \in req'[q].late
  PROVE  Informed(req'[q], incus', limits')
BY DEF Informed, Kept, Deleting, Svc

\* Nothing changes what the others know.
LEMMA OthersInformed ==
  ASSUME TypeInv, RequestInv, NEW r \in Requests, OthersKept(r), UNCHANGED actual
  PROVE  \A q \in Requests \ {r} : Informed(req'[q], incus', limits')
BY KeptInformed DEF RequestInv, OthersKept, actual

LEMMA IdleInformed == \A inc, lim : Informed(Idle, inc, lim)
BY DEF Informed, Idle

LEMMA PowerInformed ==
  ASSUME TypeInv, RequestInv, NEW r \in Requests, NEW action \in Runtime, NEW step \in Steps,
         SetPower(r, action, step), req[r].step # "idle", req[r].op # "upgrade",
         step = "commit" => req[r].op = action
  PROVE  RequestInv'
<1> Svc(r) \in Services
  BY DEF TypeInv, WellFormed, Svc
<1>1. /\ incus[Svc(r)] # "gone" /\ incus'[Svc(r)] = Outcome(action)
      /\ incus'[Svc(r)] # "gone"
      /\ \A s \in Services : s # Svc(r) => incus'[s] = incus[s]
      /\ limits' = limits /\ status' = status
  BY DEF SetPower, Accepts, Outcome, Runtime, TypeInv, TypeOK, rows
<1>2. /\ Moves(r, step, req[r].changed \union {Power}, req[r].late \ {Power})
      /\ OthersKept(r) /\ MadeLate(r, {Power})
  BY PowerRequests
<1>3. Informed(req'[r], incus', limits')
  <2>1. req'[r].step = "commit" => req'[r].op \in Runtime
    BY <1>2 DEF Moves
  <2> QED BY <1>1, <1>2, <2>1 DEF Informed, Moves, Deleting, Svc, Runtime
<1>4. ASSUME NEW q \in Requests \ {r} PROVE Informed(req'[q], incus', limits')
  <2>1. req[q].step # "idle" => Svc(q) \in Services
    BY DEF TypeInv, WellFormed, Svc
  <2>2. Svc(q) = Svc(r) /\ Power \in req[q].changed => Power \in req'[q].late
    BY <1>2 DEF MadeLate
  <2> QED BY <1>1, <1>2, <2>1, <2>2, KeptInformed DEF OthersKept, RequestInv
<1>5. \A s \in Services : status'[s] = "terminated" => incus'[s] = "gone"
  BY <1>1 DEF RequestInv
<1> QED BY <1>3, <1>4, <1>5 DEF RequestInv, Informed, Deleting

\* r goes on, or is over, and neither instance nor limits change.
LEMMA IdlingInformed ==
  ASSUME TypeInv, RequestInv, NEW r \in Requests, OthersKept(r), UNCHANGED actual,
         Informed(req'[r], incus, limits),
         \A s \in Services : status'[s] = "terminated" => incus[s] = "gone"
  PROVE  RequestInv'
<1>1. incus' = incus /\ limits' = limits
  BY DEF actual
<1>2. \A q \in Requests : Informed(req'[q], incus', limits')
  BY <1>1, OthersInformed
<1> QED BY <1>1, <1>2 DEF RequestInv, Informed, Deleting

LEMMA CallInformed ==
  ASSUME TypeInv, RequestInv, NEW r \in Requests, Call(r)
  PROVE  RequestInv'
<1> WellFormed(req[r]) /\ req[r].op \in Ops
  BY DEF TypeInv, TypeOK
<1> Informed(req[r], incus, limits)
  BY DEF RequestInv
<1> /\ {Password} \in SUBSET Aspects /\ {Limits} \in SUBSET Aspects /\ Aspects \in SUBSET Aspects
    /\ Power # Password /\ Power # Limits /\ Password # Limits
  BY DEF Aspects, Power, Password, Limits
<1> /\ "commit" \in Steps /\ "rebuild" \in Steps /\ "start" \in Steps /\ "exec" \in Steps
    /\ "delete" \in Steps
  BY DEF Steps
<1>a. status' = status => \A s \in Services : status'[s] = "terminated" => incus[s] = "gone"
  BY DEF RequestInv
<1>1. CASE ChangeState(r)
  BY <1>1, PowerInformed DEF ChangeState, Runtime
<1>2. CASE Exec(r)
  <2>1. /\ UNCHANGED actual /\ status' = status /\ incus[Svc(r)] = "running"
    BY <1>2 DEF Exec, rows
  <2>2. req[r].step = "exec" /\ req[r].op \in {"password", "reinstall"}
    BY <1>2 DEF Exec, WellFormed, Ops, Runtime
  <2>3. Informed(req'[r], incus, limits)
    <3>1. CASE req[r].op = "password"
      BY <1>2, <2>1, <2>2, <3>1, ExecFacts DEF Moves, Informed, Deleting, WellFormed, Svc
    <3>2. CASE req[r].op = "reinstall"
      BY <1>2, <2>1, <2>2, <3>2, ExecFacts DEF Moves, Informed, Deleting, Svc, Outcome
    <3> QED BY <2>2, <3>1, <3>2
  <2> QED BY <1>2, <1>a, <2>1, <2>3, ExecFacts, IdlingInformed
<1>3. CASE ApplyResourceLimits(r)
  <2>1. /\ req[r].op = "upgrade" /\ req[r].step = "change"
        /\ incus[Svc(r)] # "gone" /\ incus' = incus /\ status' = status
        /\ limits' = [limits EXCEPT ![Svc(r)] = req[r].target]
    BY <1>3 DEF ApplyResourceLimits, rows
  <2>2. Svc(r) \in Services
    BY <2>1 DEF WellFormed, Svc
  <2>3. /\ limits'[Svc(r)] = req[r].target
        /\ \A s \in Services : s # Svc(r) => limits'[s] = limits[s]
    BY <2>1, <2>2 DEF TypeInv, TypeOK
  <2>4. /\ OthersKept(r) /\ MadeLate(r, {Limits})
        /\ Moves(r, "commit", req[r].changed \union {Limits}, req[r].late \ {Limits})
    BY <1>3, ChangedFacts DEF ApplyResourceLimits
  <2>5. Informed(req'[r], incus', limits')
    BY <2>1, <2>3, <2>4 DEF Moves, Informed, Deleting, WellFormed, Svc
  <2>6. ASSUME NEW q \in Requests \ {r} PROVE Informed(req'[q], incus', limits')
    <3>1. req[q].step # "idle" => Svc(q) \in Services
      BY DEF TypeInv, WellFormed, Svc
    <3>2. Svc(q) = Svc(r) /\ Limits \in req[q].changed => Limits \in req'[q].late
      BY <2>4 DEF MadeLate
    <3> QED BY <2>1, <2>3, <2>4, <3>1, <3>2, KeptInformed DEF OthersKept, RequestInv
  <2> QED BY <2>1, <2>5, <2>6 DEF RequestInv, Informed, Deleting
<1>4. CASE ReinstallStop(r)
  BY <1>4, PowerInformed DEF ReinstallStop, Runtime
<1>b. req[r].step \in {"rebuild", "start"} => req[r].op = "reinstall"
  BY DEF WellFormed, Ops, Runtime
<1>5. CASE ReinstallRebuild(r)
  <2>1. /\ UNCHANGED actual /\ status' = status /\ incus[Svc(r)] = "stopped"
        /\ req[r].op = "reinstall"
    BY <1>5, <1>b DEF ReinstallRebuild, rows
  <2>2. /\ OthersKept(r)
        /\ Moves(r, "start", req[r].changed \union {Password}, req[r].late \ {Password})
    BY <1>5, ChangedFacts DEF ReinstallRebuild
  <2>3. Informed(req'[r], incus, limits)
    BY <2>1, <2>2 DEF Moves, Informed, Deleting, Svc
  <2> QED BY <1>a, <2>1, <2>2, <2>3, IdlingInformed
<1>6. CASE ReinstallStart(r)
  <2>1. req[r].op = "reinstall" /\ req[r].step = "start"
    BY <1>6, <1>b DEF ReinstallStart
  <2>2. CASE SetPower(r, "start", "exec")
    BY <2>1, <2>2, PowerInformed DEF Runtime
  <2>3. CASE Go(r, "exec") /\ UNCHANGED <<rows, actual>>
    <3>1. OthersKept(r) /\ Moves(r, "exec", req[r].changed, req[r].late)
      BY <2>3, GoFacts
    <3>2. Informed(req'[r], incus, limits)
      BY <2>1, <3>1 DEF Moves, Informed, Deleting
    <3> QED BY <1>a, <2>3, <3>1, <3>2, IdlingInformed DEF rows
  <2> QED BY <1>6, <2>2, <2>3 DEF ReinstallStart
<1>7. CASE CancelStop(r)
  <2>1. req[r].op = "cancel" /\ req[r].step = "stop"
    BY <1>7 DEF CancelStop
  <2>2. CASE SetPower(r, "stop", "delete")
    BY <2>1, <2>2, PowerInformed DEF Runtime
  <2>3. CASE Go(r, "delete") /\ UNCHANGED <<rows, actual>>
    <3>1. OthersKept(r) /\ Moves(r, "delete", req[r].changed, req[r].late)
      BY <2>3, GoFacts
    <3>2. Informed(req'[r], incus, limits)
      BY <2>1, <3>1 DEF Moves, Informed, Deleting
    <3> QED BY <1>a, <2>3, <3>1, <3>2, IdlingInformed DEF rows
  <2> QED BY <1>7, <2>2, <2>3 DEF CancelStop
<1>8. CASE CancelDelete(r)
  <2>1. /\ req[r].op = "cancel" /\ incus[Svc(r)] = "stopped" /\ limits' = limits
        /\ status' = status /\ req[r].step = "delete"
        /\ incus' = [incus EXCEPT ![Svc(r)] = "gone"]
    BY <1>8 DEF CancelDelete, WellFormed, Ops, Runtime, rows
  <2>2. Svc(r) \in Services
    BY <2>1 DEF WellFormed, Svc
  <2>3. /\ incus'[Svc(r)] = "gone"
        /\ \A s \in Services : s # Svc(r) => incus'[s] = incus[s]
    BY <2>1, <2>2 DEF TypeInv, TypeOK
  <2>4. /\ OthersKept(r) /\ MadeLate(r, Aspects)
        /\ Moves(r, "commit", req[r].changed \union Aspects, req[r].late \ Aspects)
    BY <1>8, ChangedFacts DEF CancelDelete
  <2>5. Informed(req'[r], incus', limits')
    BY <2>1, <2>3, <2>4 DEF Moves, Informed, Deleting, Svc, Outcome
  <2>6. ASSUME NEW q \in Requests \ {r} PROVE Informed(req'[q], incus', limits')
    <3>1. req[q].step # "idle" => Svc(q) \in Services
      BY DEF TypeInv, WellFormed, Svc
    <3>2. req[q].changed \subseteq Aspects
      BY DEF TypeInv, TypeOK
    <3>3. Svc(q) = Svc(r) => req[q].changed \subseteq req'[q].late
      BY <2>4, <3>2 DEF MadeLate
    <3> QED BY <2>1, <2>3, <2>4, <3>1, <3>3, KeptInformed DEF OthersKept, RequestInv
  <2>7. \A s \in Services : status'[s] = "terminated" => incus'[s] = "gone"
    BY <2>1, <2>3 DEF RequestInv
  <2> QED BY <2>5, <2>6, <2>7 DEF RequestInv, Informed, Deleting
<1>9. CASE Refused(r)
  BY <1>9, <1>a, AnswerFacts, IdleInformed, IdlingInformed DEF Refused, rows
<1> QED BY <1>1, <1>2, <1>3, <1>4, <1>5, <1>6, <1>7, <1>8, <1>9 DEF Call

LEMMA RecordInformed ==
  ASSUME TypeInv, RequestInv, NEW r \in Requests, Record(r) \/ Abandon(r)
  PROVE  RequestInv'
<1> WellFormed(req[r]) /\ req[r].op \in Ops
  BY DEF TypeInv, TypeOK
<1> Informed(req[r], incus, limits)
  BY DEF RequestInv
<1>a. status' = status => \A s \in Services : status'[s] = "terminated" => incus[s] = "gone"
  BY DEF RequestInv
<1>1. CASE UpgradeNotRecorded(r)
  <2>1. OthersKept(r) /\ Moves(r, "revert", req[r].changed, req[r].late)
    BY <1>1, GoFacts DEF UpgradeNotRecorded, Steps
  <2>2. Informed(req'[r], incus, limits)
    BY <1>1, <2>1 DEF UpgradeNotRecorded, Moves, Informed, Deleting
  <2> QED BY <1>1, <1>a, <2>1, <2>2, IdlingInformed DEF UpgradeNotRecorded, rows
<1>2. CASE UpgradeRevert(r)
  <2>1. /\ incus' = incus /\ status' = status
        /\ limits' = [limits EXCEPT ![Svc(r)] = req[r].pkg]
    BY <1>2 DEF UpgradeRevert, rows
  <2>2. req'[r] = Idle /\ OthersKept(r) /\ MadeLate(r, {Limits})
    BY <1>2, RevertFacts
  <2>3. \A s \in Services : s # Svc(r) => limits'[s] = limits[s]
    BY <2>1 DEF TypeInv, TypeOK
  <2>4. ASSUME NEW q \in Requests \ {r} PROVE Informed(req'[q], incus', limits')
    <3>1. req[q].step # "idle" => Svc(q) \in Services
      BY DEF TypeInv, WellFormed, Svc
    <3>2. Svc(q) = Svc(r) /\ Limits \in req[q].changed => Limits \in req'[q].late
      BY <2>2 DEF MadeLate
    <3> QED BY <2>1, <2>2, <2>3, <3>1, <3>2, KeptInformed DEF OthersKept, RequestInv
  <2> QED BY <2>1, <2>2, <2>4, IdleInformed DEF RequestInv, Informed, Deleting
<1>3. CASE CancelCommit(r)
  <2>1. incus[Svc(r)] = "gone" /\ Answer(r) /\ UNCHANGED actual
    BY <1>3 DEF CancelCommit, Informed, Deleting, Svc
  <2>2. \A s \in Services : s # Svc(r) => status'[s] = status[s]
    BY <1>3 DEF CancelCommit, Statuses, TypeInv, TypeOK
  <2>3. \A s \in Services : status'[s] = "terminated" => incus[s] = "gone"
    BY <2>1, <2>2 DEF RequestInv
  <2> QED BY <2>1, <2>3, AnswerFacts, IdleInformed, IdlingInformed
<1>4. CASE RuntimeCommit(r) \/ ReinstallCommit(r)
  <2>1. Answer(r) /\ UNCHANGED actual
    BY <1>4 DEF RuntimeCommit, ReinstallCommit
  <2>2. \A s \in Services : status'[s] \in {status[s], "active", "stopped"}
    BY <1>4 DEF RuntimeCommit, ReinstallCommit, Statuses, RuntimeStatuses, TypeInv, TypeOK
  <2>3. \A s \in Services : status'[s] = "terminated" => incus[s] = "gone"
    BY <2>2 DEF RequestInv
  <2> QED BY <2>1, <2>3, AnswerFacts, IdleInformed, IdlingInformed
<1>5. CASE PasswordCommit(r) \/ RenewCommit(r) \/ UpgradeCommit(r) \/ TransferCommit(r)
             \/ Abandon(r)
  <2>1. Answer(r) /\ UNCHANGED actual /\ status' = status
    BY <1>5 DEF PasswordCommit, RenewCommit, UpgradeCommit, TransferCommit, Abandon, rows
  <2> QED BY <1>a, <2>1, AnswerFacts, IdleInformed, IdlingInformed
<1> QED BY <1>1, <1>2, <1>3, <1>4, <1>5 DEF Record, ActCommit

LEMMA InitRequestInv == Init => RequestInv
BY IdleInformed DEF Init, RequestInv

LEMMA StepRequestInv == TypeInv /\ RequestInv /\ [Next]_vars => RequestInv'
<1> SUFFICES ASSUME TypeInv, RequestInv, [Next]_vars PROVE RequestInv'
  OBVIOUS
<1>1. ASSUME NEW r \in Requests, NEW s \in Services, Load(r, s)
      PROVE  RequestInv'
  <2>1. PICK new \in Request : Begin(r, new) /\ new.changed = {} /\ WellFormed(new)
    BY <1>1, LoadFacts
  <2>2. req'[r] = new /\ OthersKept(r) /\ UNCHANGED actual /\ status' = status
    BY <2>1, BeginFacts DEF Begin, rows
  <2>3. ~Deleting(new)
    BY <2>1 DEF WellFormed, Deleting, Aspects
  <2>4. Informed(new, incus, limits)
    BY <2>1, <2>3 DEF Informed
  <2> QED BY <2>2, <2>4, IdlingInformed DEF RequestInv
<1>2. CASE NoRequest \/ UNCHANGED vars
  BY <1>2 DEF NoRequest, Tick, UpdatePackage, vars, RequestInv, Informed, Deleting, rows, actual
<1> QED BY <1>1, <1>2, CallInformed, RecordInformed DEF Next, NoRequest

\* An instance that is gone stays so, and only a late request takes a service
\* out of "terminated".
LEMMA StepTerminated ==
  ASSUME TypeInv, RequestInv, Next, NEW s \in Services
  PROVE  /\ incus[s] = "gone" => incus'[s] = "gone"
         /\ status[s] = "terminated" /\ status'[s] # "terminated" =>
              \E r \in Requests : Svc(r) = s /\ Power \in req[r].late
<1>a. ASSUME NEW r \in Requests, NEW action \in Runtime, NEW step \in Steps,
             SetPower(r, action, step)
      PROVE  status' = status /\ (incus[s] = "gone" => incus'[s] = "gone")
  BY <1>a DEF SetPower, Accepts, rows, TypeInv, TypeOK, Runtime
<1>1. ASSUME NEW r \in Requests, Call(r)
      PROVE  status' = status /\ (incus[s] = "gone" => incus'[s] = "gone")
  <2>1. CASE ChangeState(r) \/ ReinstallStop(r)
    BY <1>a, <2>1 DEF ChangeState, ReinstallStop, Runtime, Steps
  <2>2. CASE ReinstallStart(r)
    BY <1>a, <2>2 DEF ReinstallStart, Runtime, Steps, rows, actual
  <2>3. CASE CancelStop(r)
    BY <1>a, <2>3 DEF CancelStop, Runtime, Steps, rows, actual
  <2>4. CASE CancelDelete(r)
    BY <2>4 DEF CancelDelete, rows, TypeInv, TypeOK
  <2>5. CASE Exec(r) \/ ApplyResourceLimits(r) \/ ReinstallRebuild(r) \/ Refused(r)
    BY <2>5 DEF Exec, ApplyResourceLimits, ReinstallRebuild, Refused, rows, actual
  <2> QED BY <1>1, <2>1, <2>2, <2>3, <2>4, <2>5 DEF Call
<1>2. ASSUME NEW r \in Requests, Record(r) \/ Abandon(r)
      PROVE  incus' = incus
  BY <1>2 DEF Record, ActCommit, Abandon, RuntimeCommit, PasswordCommit, ReinstallCommit, RenewCommit,
              UpgradeCommit, UpgradeNotRecorded, UpgradeRevert, TransferCommit, CancelCommit, actual
<1>3. ASSUME NEW r \in Requests, Record(r) \/ Abandon(r),
             status[s] = "terminated", status'[s] # "terminated"
      PROVE  Svc(r) = s /\ Power \in req[r].late
  <2> WellFormed(req[r]) /\ Informed(req[r], incus, limits)
    BY DEF TypeInv, RequestInv
  <2>1. RuntimeCommit(r) \/ ReinstallCommit(r)
    BY <1>3 DEF Record, ActCommit, Abandon, PasswordCommit, RenewCommit, UpgradeCommit, UpgradeNotRecorded,
                UpgradeRevert, TransferCommit, CancelCommit, Statuses, rows, TypeInv, TypeOK
  <2>2. req[r].step = "commit" /\ req[r].op \in Runtime \union {"reinstall"}
    BY <2>1 DEF RuntimeCommit, ReinstallCommit, Runtime
  <2>3. Svc(r) = s
    BY <1>3, <2>1 DEF RuntimeCommit, ReinstallCommit, Statuses, TypeInv, TypeOK
  <2>4. Power \in req[r].changed
    BY <2>2 DEF WellFormed
  <2>5. incus[s] = "gone"
    BY <1>3 DEF RequestInv
  <2> QED BY <2>2, <2>3, <2>4, <2>5 DEF Informed, Deleting, Svc, Runtime
<1>4. CASE NoRequest
  BY <1>4 DEF NoRequest, Tick, UpdatePackage, rows, actual
<1>5. ASSUME NEW r \in Requests, NEW t \in Services, Load(r, t)
      PROVE  incus' = incus /\ status' = status
  BY <1>5, LoadRequests DEF rows, actual
<1> QED BY <1>1, <1>2, <1>3, <1>4, <1>5 DEF Next, NoRequest

\* A deleted instance stays deleted; a service leaves "terminated" only by a
\* request that changed its instance before the cancellation deleted it.
THEOREM TerminatedStays == Spec => TerminatedForGood
<1>1. TypeInv /\ RequestInv /\ [Next]_vars =>
        [\A s \in Services :
           /\ incus[s] = "gone" => incus'[s] = "gone"
           /\ status[s] = "terminated" /\ status'[s] # "terminated" =>
                \E r \in Requests : Svc(r) = s /\ Power \in req[r].late]_vars
  BY StepTerminated
<1> QED BY <1>1, InitTypeInv, StepTypeInv, InitRequestInv, StepRequestInv, PTL
        DEF Spec, TerminatedForGood

-----------------------------------------------------------------------------
(***************************************************************************)
(* Rows and instance                                                       *)
(***************************************************************************)

\* AgreesUnlessSpoilt, aspect by aspect.
Agreed(s, a) ==
  /\ a = Power => RowsAgree(s)
  /\ a = Limits => limits[s] = snapshot[s] \/ incus[s] = "gone"
  /\ a = Password => told[s] \/ incus[s] = "gone"

AspectInv == \A s \in Services, a \in Aspects : Excused(s, a) \/ Agreed(s, a)

LEMMA AspectAgrees == AspectInv <=> AgreesUnlessSpoilt
<1> Power # Password /\ Power # Limits /\ Password # Limits
  BY DEF Power, Password, Limits
<1> HIDE DEF Power, Password, Limits
<1> QED BY DEF AspectInv, AgreesUnlessSpoilt, Agreed, Aspects

\* What excuses an aspect of s still does, if what r changed of it is spoilt
\* when r forgets it, and no other way is there to be excused no more.
LEMMA StillExcused ==
  ASSUME TypeInv, NEW r \in Requests, NEW s \in Services, NEW a \in Aspects,
         OthersKept(r), Excused(s, a),
         a \in spoilt[s] => a \in spoilt'[s],
         Svc(r) = s /\ a \in req[r].changed =>
           \/ a \in spoilt'[s]
           \/ req'[r].service = s /\ a \in req'[r].changed
  PROVE  Excused(s, a)'
BY DEF OthersKept, Kept, Excused, Svc

\* A step that changes neither side and forgets nothing.
LEMMA NothingDiffers ==
  ASSUME TypeInv, AspectInv, NEW r \in Requests, OthersKept(r),
         UNCHANGED <<status, instance, incus, limits, snapshot, told>>,
         \A s \in Services, a \in Aspects : a \in spoilt[s] => a \in spoilt'[s],
         \A a \in Aspects, s \in Services : Svc(r) = s /\ a \in req[r].changed =>
           \/ a \in spoilt'[s]
           \/ req'[r].service = s /\ a \in req'[r].changed
  PROVE  AspectInv'
<1>1. ASSUME NEW s \in Services, NEW a \in Aspects
      PROVE  Excused(s, a)' \/ Agreed(s, a)'
  <2>1. CASE Excused(s, a)
    BY <2>1, StillExcused
  <2>2. CASE Agreed(s, a)
    BY <2>2 DEF Agreed, RowsAgree
  <2> QED BY <2>1, <2>2 DEF AspectInv
<1> QED BY <1>1 DEF AspectInv

\* A call of r that changes the aspects A of an instance that is not gone, and
\* says so.
LEMMA CallAgrees ==
  ASSUME TypeInv, AspectInv, NEW r \in Requests, NEW step, NEW late, NEW A \in SUBSET Aspects,
         OthersKept(r), Moves(r, step, req[r].changed \union A, late), Svc(r) \in Services,
         UNCHANGED <<status, instance, snapshot, spoilt>>,
         Power \in A \/ UNCHANGED incus,
         Limits \in A \/ UNCHANGED limits, Password \in A \/ UNCHANGED told,
         incus[Svc(r)] # "gone",
         \A s \in Services : s # Svc(r) =>
           incus'[s] = incus[s] /\ limits'[s] = limits[s] /\ told'[s] = told[s]
  PROVE  AspectInv'
<1>1. ASSUME NEW s \in Services, NEW a \in Aspects
      PROVE  Excused(s, a)' \/ Agreed(s, a)'
  <2>1. CASE Excused(s, a)
    BY <2>1, StillExcused DEF Moves, Svc
  <2>2. CASE s = Svc(r) /\ a \in A
    BY <2>2 DEF Excused, Moves, Svc
  <2>3. CASE Agreed(s, a) /\ s # Svc(r)
    BY <2>3 DEF Agreed, RowsAgree
  <2>4. CASE Agreed(s, a) /\ s = Svc(r) /\ a \notin A
    BY <2>4 DEF Agreed, RowsAgree
  <2> QED BY <2>1, <2>2, <2>3, <2>4 DEF AspectInv
<1> QED BY <1>1 DEF AspectInv

LEMMA PowerAgrees ==
  ASSUME TypeInv, AspectInv, NEW r \in Requests, NEW action \in Runtime, NEW step \in Steps,
         SetPower(r, action, step), Svc(r) \in Services
  PROVE  AspectInv'
<1>1. {Power} \in SUBSET Aspects
  BY DEF Aspects
<1>2. /\ OthersKept(r)
      /\ Moves(r, step, req[r].changed \union {Power}, req[r].late \ {Power})
  BY PowerRequests
<1>3. /\ UNCHANGED <<status, instance, snapshot, spoilt, limits, told>>
      /\ incus[Svc(r)] # "gone"
      /\ \A s \in Services : s # Svc(r) => incus'[s] = incus[s]
  BY DEF SetPower, Accepts, rows, money, TypeInv, TypeOK
<1> QED BY <1>1, <1>2, <1>3, CallAgrees

LEMMA CallAspects ==
  ASSUME TypeInv, AspectInv, NEW r \in Requests, Call(r)
  PROVE  AspectInv'
<1> /\ {Password} \in SUBSET Aspects /\ {Limits} \in SUBSET Aspects /\ Aspects \in SUBSET Aspects
    /\ {Power, Password} \in SUBSET Aspects
  BY DEF Aspects
<1> Svc(r) \in Services
  <2>1. req[r].step # "idle"
    BY DEF Call, ChangeState, Exec, ApplyResourceLimits, ReinstallStop, ReinstallRebuild,
           ReinstallStart, CancelStop, CancelDelete, Refused
  <2> QED BY <2>1 DEF TypeInv, WellFormed, Svc
<1>1. CASE ChangeState(r)
  BY <1>1, PowerAgrees DEF ChangeState, Steps, Runtime
<1>2. CASE Exec(r)
  <2> DEFINE A == IF req[r].op = "reinstall" THEN {Power, Password} ELSE {Password}
  <2>1. /\ UNCHANGED <<status, instance, snapshot, spoilt, incus, limits>>
        /\ incus[Svc(r)] # "gone"
        /\ \A s \in Services : s # Svc(r) => told'[s] = told[s]
    BY <1>2 DEF Exec, rows, money, actual, TypeInv, TypeOK
  <2>2. OthersKept(r) /\ Moves(r, "commit", req[r].changed \union A, req[r].late \ A)
    BY <1>2, ExecFacts
  <2>3. CASE req[r].op = "reinstall"
    <3>1. Moves(r, "commit", req[r].changed \union {Power, Password}, req[r].late \ A)
      BY <2>2, <2>3
    <3> QED BY <2>1, <2>2, <3>1, CallAgrees
  <2>4. CASE req[r].op # "reinstall"
    <3>1. Moves(r, "commit", req[r].changed \union {Password}, req[r].late \ A)
      BY <2>2, <2>4
    <3> QED BY <2>1, <2>2, <3>1, CallAgrees
  <2> QED BY <2>3, <2>4
<1>3. CASE ApplyResourceLimits(r)
  <2>1. /\ UNCHANGED <<status, instance, snapshot, spoilt, incus, told>>
        /\ incus[Svc(r)] # "gone"
        /\ \A s \in Services : s # Svc(r) => limits'[s] = limits[s]
    BY <1>3 DEF ApplyResourceLimits, rows, money, TypeInv, TypeOK
  <2>2. /\ OthersKept(r)
        /\ Moves(r, "commit", req[r].changed \union {Limits}, req[r].late \ {Limits})
    BY <1>3, ChangedFacts DEF ApplyResourceLimits, Steps
  <2> QED BY <2>1, <2>2, CallAgrees
<1>4. CASE ReinstallStop(r)
  BY <1>4, PowerAgrees DEF ReinstallStop, Steps, Runtime
<1>5. CASE ReinstallRebuild(r)
  <2>1. /\ UNCHANGED <<status, instance, snapshot, spoilt, incus, limits>>
        /\ incus[Svc(r)] # "gone"
        /\ \A s \in Services : s # Svc(r) => told'[s] = told[s]
    BY <1>5 DEF ReinstallRebuild, rows, money, actual, TypeInv, TypeOK
  <2>2. /\ OthersKept(r)
        /\ Moves(r, "start", req[r].changed \union {Password}, req[r].late \ {Password})
    BY <1>5, ChangedFacts DEF ReinstallRebuild, Steps
  <2> QED BY <2>1, <2>2, CallAgrees
<1>6. ASSUME NEW step \in Steps, Go(r, step), UNCHANGED <<rows, money, actual, told, spoilt>>
      PROVE  AspectInv'
  <2>1. OthersKept(r) /\ Moves(r, step, req[r].changed, req[r].late)
    BY <1>6, GoFacts
  <2> QED BY <1>6, <2>1, NothingDiffers DEF Moves, Svc, rows, money, actual
<1>7. CASE ReinstallStart(r)
  BY <1>6, <1>7, PowerAgrees DEF ReinstallStart, Steps, Runtime
<1>8. CASE CancelStop(r)
  BY <1>6, <1>8, PowerAgrees DEF CancelStop, Steps, Runtime
<1>9. CASE CancelDelete(r)
  <2>1. /\ UNCHANGED <<status, instance, snapshot, spoilt, limits, told>>
        /\ incus[Svc(r)] # "gone"
        /\ \A s \in Services : s # Svc(r) => incus'[s] = incus[s]
    BY <1>9 DEF CancelDelete, rows, money, TypeInv, TypeOK
  <2>2. /\ OthersKept(r)
        /\ Moves(r, "commit", req[r].changed \union Aspects, req[r].late \ Aspects)
    BY <1>9, ChangedFacts DEF CancelDelete, Steps
  <2>3. Power \in Aspects
    BY DEF Aspects
  <2> QED BY <2>1, <2>2, <2>3, CallAgrees
<1>10. CASE Refused(r)
  <2>1. \A s \in Services : spoilt'[s] = IF s = Svc(r) THEN spoilt[s] \union req[r].changed
                                                      ELSE spoilt[s]
    BY <1>10 DEF Refused, Spoilt, TypeInv, TypeOK
  <2> QED BY <1>10, <2>1, AnswerFacts, NothingDiffers DEF Refused, rows, money, actual
<1> QED BY <1>1, <1>2, <1>3, <1>4, <1>5, <1>7, <1>8, <1>9, <1>10 DEF Call

\* A transaction of r, which has changed A: what is not late is recorded.
LEMMA RecordAgrees ==
  ASSUME TypeInv, AspectInv, NEW r \in Requests, Answer(r), Recorded(r),
         NEW CONSTANT t \in Services, Svc(r) = t,
         UNCHANGED actual,
         \A s \in Services : s # t => /\ status'[s] = status[s] /\ instance'[s] = instance[s]
                                      /\ snapshot'[s] = snapshot[s] /\ told'[s] = told[s],
         \A a \in req[r].changed \ req[r].late : Agreed(t, a)',
         \A a \in Aspects \ (req[r].changed \union req[r].late) :
           Agreed(t, a) => Agreed(t, a)'
  PROVE  AspectInv'
<1>1. spoilt'[t] = (spoilt[t] \ req[r].changed) \union req[r].late
  BY DEF Recorded, TypeInv, TypeOK
<1>2. \A s \in Services : s # t => spoilt'[s] = spoilt[s]
  BY DEF Recorded, TypeInv, TypeOK
<1>3. OthersKept(r)
  BY AnswerFacts
<1>4. ASSUME NEW s \in Services, NEW a \in Aspects, s # t
      PROVE  Excused(s, a)' \/ Agreed(s, a)'
  <2>1. CASE Excused(s, a)
    BY <1>2, <1>3, <1>4, <2>1, StillExcused
  <2>2. CASE Agreed(s, a)
    BY <1>4, <2>2 DEF Agreed, RowsAgree, actual
  <2> QED BY <1>4, <2>1, <2>2 DEF AspectInv
<1>5. ASSUME NEW a \in Aspects
      PROVE  Excused(t, a)' \/ Agreed(t, a)'
  <2>1. CASE a \in req[r].late
    BY <1>1, <2>1 DEF Excused
  <2>2. CASE a \in req[r].changed \ req[r].late
    BY <2>2
  <2>3. CASE a \notin req[r].changed /\ Excused(t, a)
    BY <1>1, <1>3, <2>3, StillExcused
  <2>4. CASE a \notin req[r].changed \union req[r].late /\ Agreed(t, a)
    BY <2>4
  <2> QED BY <2>1, <2>2, <2>3, <2>4 DEF AspectInv
<1> QED BY <1>4, <1>5 DEF AspectInv

LEMMA RecordAspects ==
  ASSUME TypeInv, RequestInv, AspectInv, NEW r \in Requests, Record(r) \/ Abandon(r)
  PROVE  AspectInv'
<1> DEFINE t == Svc(r)
<1> USE DEF rows, money
<1>a. t \in Services
  <2>1. req[r].step # "idle"
    BY DEF Record, ActCommit, Abandon, RuntimeCommit, PasswordCommit, ReinstallCommit, RenewCommit,
           UpgradeCommit, UpgradeNotRecorded, UpgradeRevert, TransferCommit, CancelCommit
  <2> QED BY <2>1 DEF TypeInv, WellFormed, Svc
<1>b. PICK u \in Services : u = Svc(r)
  BY <1>a
<1> WellFormed(req[r]) /\ req[r].op \in Ops
  BY DEF TypeInv, TypeOK
<1>c. req[r].changed \subseteq Aspects
  BY DEF TypeInv, TypeOK
<1>d. Informed(req[r], incus, limits)
  BY DEF RequestInv
<1>1. CASE RuntimeCommit(r)
  <2>1. /\ req[r].changed = {Power} /\ Answer(r) /\ Recorded(r)
        /\ UNCHANGED <<incus, limits, snapshot, told>>
        /\ Power \in req[r].changed \ req[r].late => incus[u] = Outcome(req[r].op)
    BY <1>1, <1>b, <1>d DEF RuntimeCommit, WellFormed, Runtime, Informed, Svc, actual
  <2>2. \A s \in Services : s # u => status'[s] = status[s] /\ instance'[s] = instance[s]
    BY <1>1, <1>b DEF RuntimeCommit, Statuses, TypeInv, TypeOK
  <2>3. /\ status'[u] = (IF req[r].op = "stop" THEN "stopped" ELSE "active")
        /\ instance'[u] = (IF req[r].op = "stop" THEN "stopped" ELSE "running")
    BY <1>1, <1>b DEF RuntimeCommit, Statuses, RuntimeStatuses, TypeInv, TypeOK
  <2>4. Power # Limits /\ Power # Password
    BY DEF Power, Limits, Password
  <2>5. req[r].op \in Runtime
    BY <1>1 DEF RuntimeCommit, Runtime
  <2>6. Power \in req[r].changed \ req[r].late => Agreed(u, Power)'
    BY <2>1, <2>3, <2>4, <2>5 DEF Agreed, RowsAgree, Outcome, Runtime
  <2>7. \A a \in Aspects \ req[r].changed : Agreed(u, a) => Agreed(u, a)'
    BY <2>1 DEF Agreed
  <2> QED BY <1>b, <2>1, <2>2, <2>6, <2>7, RecordAgrees DEF actual
<1>2. CASE PasswordCommit(r)
  <2>1. /\ req[r].changed = {Password} /\ Answer(r) /\ Recorded(r)
        /\ UNCHANGED <<incus, limits, snapshot, status, instance>>
    BY <1>2 DEF PasswordCommit, WellFormed, actual
  <2>2. /\ told'[u] = (Password \notin req[r].late)
        /\ \A s \in Services : s # u => told'[s] = told[s]
    BY <1>2, <1>b DEF PasswordCommit, TypeInv, TypeOK
  <2>3. Password # Limits /\ Power # Password
    BY DEF Power, Limits, Password
  <2>4. Password \in req[r].changed \ req[r].late => Agreed(u, Password)'
    BY <2>2, <2>3 DEF Agreed
  <2>5. \A a \in Aspects \ req[r].changed : Agreed(u, a) => Agreed(u, a)'
    BY <2>1 DEF Agreed, RowsAgree
  <2> QED BY <1>b, <2>1, <2>2, <2>4, <2>5, RecordAgrees DEF actual
<1>3. CASE ReinstallCommit(r)
  <2>1. /\ req[r].changed \subseteq {Power, Password} /\ Power \in req[r].changed
        /\ Answer(r) /\ Recorded(r)
        /\ UNCHANGED <<incus, limits, snapshot>>
        /\ Power \in req[r].changed \ req[r].late => incus[u] = "running"
    BY <1>3, <1>b, <1>d DEF ReinstallCommit, WellFormed, Informed, Svc, actual, Outcome
  <2>2. /\ told'[u] = (Password \notin req[r].late)
        /\ \A s \in Services : s # u => told'[s] = told[s]
    BY <1>3, <1>b DEF ReinstallCommit, TypeInv, TypeOK
  <2>3. /\ status'[u] = "active" /\ instance'[u] = "running"
        /\ \A s \in Services : s # u => status'[s] = status[s] /\ instance'[s] = instance[s]
    BY <1>3, <1>b DEF ReinstallCommit, Statuses, RuntimeStatuses, TypeInv, TypeOK
  <2>4. Password # Limits /\ Power # Password /\ Power # Limits
    BY DEF Power, Limits, Password
  <2>5. \A a \in req[r].changed \ req[r].late : Agreed(u, a)'
    BY <2>1, <2>2, <2>3, <2>4 DEF Agreed, RowsAgree
  <2>6. \A a \in Aspects \ (req[r].changed \union req[r].late) : Agreed(u, a) => Agreed(u, a)'
    BY <2>1, <2>2, <2>4 DEF Agreed, Aspects
  <2> QED BY <1>b, <2>1, <2>2, <2>3, <2>5, <2>6, RecordAgrees DEF actual
<1>4. CASE UpgradeCommit(r)
  <2>1. /\ req[r].changed = {Limits} /\ Answer(r) /\ Recorded(r)
        /\ UNCHANGED <<incus, limits, told, status, instance>>
        /\ Limits \in req[r].changed \ req[r].late => limits[u] = req[r].target
    BY <1>4, <1>b, <1>d DEF UpgradeCommit, WellFormed, Informed, Svc, actual
  <2>2. /\ snapshot'[u] = req[r].target
        /\ \A s \in Services : s # u => snapshot'[s] = snapshot[s]
    BY <1>4, <1>b DEF UpgradeCommit, TypeInv, TypeOK
  <2>3. Password # Limits /\ Power # Limits
    BY DEF Power, Limits, Password
  <2>4. Limits \in req[r].changed \ req[r].late => Agreed(u, Limits)'
    BY <2>1, <2>2, <2>3 DEF Agreed
  <2>5. \A a \in Aspects \ req[r].changed : Agreed(u, a) => Agreed(u, a)'
    BY <2>1 DEF Agreed, RowsAgree
  <2> QED BY <1>b, <2>1, <2>2, <2>4, <2>5, RecordAgrees DEF actual
<1>5. CASE CancelCommit(r)
  <2>1. /\ req[r].changed = Aspects /\ Answer(r) /\ Recorded(r)
        /\ UNCHANGED <<incus, limits, told, snapshot>>
        /\ incus[u] = "gone"
    BY <1>5, <1>b, <1>d DEF CancelCommit, WellFormed, Informed, Deleting, Svc, actual
  <2>2. /\ status'[u] = "terminated" /\ instance'[u] = "deleted"
        /\ \A s \in Services : s # u => status'[s] = status[s] /\ instance'[s] = instance[s]
    BY <1>5, <1>b DEF CancelCommit, Statuses, TypeInv, TypeOK
  <2>3. \A a \in Aspects : Agreed(u, a)'
    BY <2>1, <2>2 DEF Agreed, RowsAgree
  <2> QED BY <1>b, <1>c, <2>1, <2>2, <2>3, RecordAgrees DEF actual
<1>6. CASE RenewCommit(r) \/ TransferCommit(r)
  <2>1. /\ req[r].changed = {} /\ Answer(r)
        /\ UNCHANGED <<status, instance, incus, limits, snapshot, told, spoilt>>
    BY <1>6 DEF RenewCommit, TransferCommit, WellFormed, actual
  <2> QED BY <2>1, AnswerFacts, NothingDiffers
<1>7. CASE UpgradeNotRecorded(r)
  <2>1. OthersKept(r) /\ Moves(r, "revert", req[r].changed, req[r].late)
    BY <1>7, GoFacts DEF UpgradeNotRecorded, Steps
  <2> QED BY <1>7, <2>1, NothingDiffers DEF UpgradeNotRecorded, Moves, Svc, actual
<1>8. CASE UpgradeRevert(r)
  <2>1. /\ req[r].op = "upgrade" /\ req[r].changed = {Limits}
        /\ UNCHANGED <<status, instance, incus, snapshot, told>>
    BY <1>8 DEF UpgradeRevert, WellFormed, Ops, Runtime
  <2>2. /\ limits'[u] = req[r].pkg
        /\ \A s \in Services : s # u => limits'[s] = limits[s]
    BY <1>8, <1>b DEF UpgradeRevert, TypeInv, TypeOK
  <2>3. /\ spoilt'[u] = (IF snapshot[u] = req[r].pkg THEN spoilt[u] \ {Limits}
                                                    ELSE spoilt[u] \union {Limits})
        /\ \A s \in Services : s # u => spoilt'[s] = spoilt[s]
    BY <1>8, <1>b DEF UpgradeRevert, TypeInv, TypeOK
  <2>4. OthersKept(r)
    BY <1>8, RevertFacts
  <2>5. Password # Limits /\ Power # Limits
    BY DEF Power, Limits, Password
  <2>6. ASSUME NEW s \in Services, NEW a \in Aspects
        PROVE  Excused(s, a)' \/ Agreed(s, a)'
    <3>1. CASE s = u /\ a = Limits
      <4>1. CASE snapshot[u] = req[r].pkg
        BY <2>1, <2>2, <2>5, <3>1, <4>1 DEF Agreed
      <4>2. CASE snapshot[u] # req[r].pkg
        BY <2>3, <3>1, <4>2 DEF Excused
      <4> QED BY <4>1, <4>2
    <3>2. CASE ~(s = u /\ a = Limits)
      <4>1. a \in spoilt[s] => a \in spoilt'[s]
        BY <2>3, <3>2
      <4>2. ~(Svc(r) = s /\ a \in req[r].changed)
        BY <1>b, <2>1, <3>2
      <4>3. CASE Excused(s, a)
        BY <2>4, <4>1, <4>2, <4>3, StillExcused
      <4>4. CASE Agreed(s, a)
        BY <2>1, <2>2, <3>2, <4>4 DEF Agreed, RowsAgree
      <4> QED BY <4>3, <4>4 DEF AspectInv
    <3> QED BY <3>1, <3>2
  <2> QED BY <2>6 DEF AspectInv
<1>9. CASE Abandon(r)
  <2>1. \A s \in Services : spoilt'[s] = IF s = Svc(r) THEN spoilt[s] \union req[r].changed
                                                      ELSE spoilt[s]
    BY <1>9 DEF Abandon, Spoilt, TypeInv, TypeOK
  <2> QED BY <1>9, <2>1, AnswerFacts, NothingDiffers DEF Abandon, actual
<1> QED BY <1>1, <1>2, <1>3, <1>4, <1>5, <1>6, <1>7, <1>8, <1>9 DEF Record, ActCommit

LEMMA StepAspectInv == TypeInv /\ RequestInv /\ AspectInv /\ [Next]_vars => AspectInv'
<1> SUFFICES ASSUME TypeInv, RequestInv, AspectInv, [Next]_vars PROVE AspectInv'
  OBVIOUS
<1>1. ASSUME NEW r \in Requests, NEW s \in Services, Load(r, s)
      PROVE  AspectInv'
  <2>1. req[r].changed = {} /\ OthersKept(r)
    <3>1. PICK new \in Request : Begin(r, new)
      BY <1>1, LoadFacts
    <3> QED BY <3>1, BeginFacts DEF TypeInv, WellFormed
  <2>2. UNCHANGED <<status, instance, incus, limits, snapshot, told, spoilt>>
    BY <1>1, LoadRequests DEF rows, money, actual
  <2> QED BY <2>1, <2>2, NothingDiffers
<1>2. CASE NoRequest \/ UNCHANGED vars
  BY <1>2 DEF NoRequest, Tick, UpdatePackage, vars, rows, money, actual, AspectInv, Excused, Agreed, RowsAgree, Svc
<1> QED BY <1>1, <1>2, CallAspects, RecordAspects DEF Next, NoRequest

\* The rows, the limits bought and the password told are those of the
\* instance, unless a request at work or one that failed half-way excuses it.
THEOREM RowsFollowTheInstance == Spec => []AgreesUnlessSpoilt
<1>1. Init => AspectInv
  BY LifecycleAssumption DEF Init, AspectInv, Agreed, RowsAgree
<1> QED BY <1>1, AspectAgrees, InitTypeInv, StepTypeInv, InitRequestInv, StepRequestInv,
           StepAspectInv, PTL DEF Spec

-----------------------------------------------------------------------------
(***************************************************************************)
(* Money                                                                   *)
(***************************************************************************)

\* The price v of some time is no more than what has been paid for a cycle, and
\* one for each upgrade.
Covered(s, v) == v <= (cost[s] + upgrades[s]) * cycle[s]

\* What a request will charge or refund is settled when it begins.
Settled(x) ==
  x.step # "idle" /\ ~mixed[x.service] =>
    /\ x.op = "renew" =>
         /\ x.amount = Price[x.target]
         /\ Covered(x.service, Price[x.pkg] * (x.until - now - Days[x.target]))
    /\ x.op = "upgrade" =>
         /\ Price[x.pkg] <= Price[x.target]
         /\ Covered(x.service, Price[x.pkg] * (x.until - now))
         /\ (Price[x.target] - Price[x.pkg]) * (x.until - now) <= (x.amount + 1) * cycle[x.service]
    /\ x.op = "cancel" => x.amount <= cost[x.service] + upgrades[x.service]

\* The time that is left of a service is paid for.
Worth(s) == ~mixed[s] => Covered(s, Price[snapshot[s]] * (expires[s] - now))

\* Only the request that deleted the instance refunds.
OneRefund(s) ==
  /\ incus[s] # "gone" => refunded[s] = 0
  /\ \A r \in Requests : Deleting(req[r]) /\ Svc(r) = s => refunded[s] = 0
  /\ \A r, q \in Requests :
       Deleting(req[r]) /\ Deleting(req[q]) /\ Svc(r) = s /\ Svc(q) = s => r = q

MoneyInv ==
  /\ \A r \in Requests : Settled(req[r])
  /\ \A s \in Services : Worth(s)

RefundInv ==
  /\ \A s \in Services : OneRefund(s)
  /\ RefundAtMostPaid

LEMMA Monotone ==
  ASSUME NEW p \in Nat, NEW x \in Int, NEW y \in Int, x <= y
  PROVE  p * x <= p * y /\ p * x \in Int /\ p * y \in Int
<1>1. y - x \in Nat
  OBVIOUS
<1>2. p * (y - x) >= 0
  BY <1>1
<1>3. p * (y - x) = p * y - p * x
  OBVIOUS
<1> QED BY <1>2, <1>3

\* Nothing that has been paid is taken back, and time does not run backwards.
Grows(s) ==
  /\ cost'[s] >= cost[s] /\ upgrades'[s] >= upgrades[s] /\ cycle'[s] = cycle[s]
  /\ now' >= now
  /\ mixed[s] => mixed'[s]

LEMMA CoveredGrows ==
  ASSUME TypeInv, TypeInv', NEW s \in Services, Grows(s),
         NEW v \in Int, NEW w \in Int, w <= v, Covered(s, v)
  PROVE  w <= (cost'[s] + upgrades'[s]) * cycle'[s]
<1>1. /\ cost[s] \in Nat /\ upgrades[s] \in Nat /\ cycle[s] \in Nat
      /\ cost'[s] \in Nat /\ upgrades'[s] \in Nat /\ cycle'[s] = cycle[s]
      /\ cost'[s] >= cost[s] /\ upgrades'[s] >= upgrades[s]
  BY DEF TypeInv, TypeOK, Grows
<1>2. cycle[s] * (cost[s] + upgrades[s]) <= cycle[s] * (cost'[s] + upgrades'[s])
  BY <1>1, Monotone
<1>3. v <= cycle[s] * (cost[s] + upgrades[s])
  BY <1>1 DEF Covered
<1>4. w <= cycle[s] * (cost'[s] + upgrades'[s])
  <2> DEFINE a == cycle[s] * (cost[s] + upgrades[s])
             b == cycle[s] * (cost'[s] + upgrades'[s])
  <2>1. a \in Int /\ b \in Int
    BY <1>1
  <2>2. a <= b /\ v <= a
    BY <1>2, <1>3
  <2> HIDE DEF a, b
  <2>3. w <= b
    BY <2>1, <2>2
  <2> QED BY <2>3 DEF b
<1> QED BY <1>1, <1>4

LEMMA SettledGrows ==
  ASSUME TypeInv, TypeInv', NEW q \in Requests, Settled(req[q]),
         req[q].step # "idle", Grows(req[q].service), NEW CONSTANT x \in Request,
         x.service = req[q].service, x.op = req[q].op, x.pkg = req[q].pkg,
         x.target = req[q].target, x.until = req[q].until, x.amount = req[q].amount
  PROVE  Settled(x)'
<1>1. PICK s \in Services : s = req[q].service
  BY DEF TypeInv, WellFormed
<1> SUFFICES ASSUME ~mixed'[s]
             PROVE  Settled(x)'
  BY <1>1 DEF Settled
<1> DEFINE p == Price[x.pkg]
           d == Days[x.target]
           left == x.until - now
           left1 == x.until - now'
<1>2. /\ now \in Nat /\ now' \in Nat /\ x.until \in Nat /\ left1 <= left
      /\ left \in Int /\ left1 \in Int /\ x.amount \in Nat
  BY <1>1, LifecycleAssumption DEF TypeInv, TypeOK, Grows, Request
<1>3. ~mixed[s] /\ cycle'[s] = cycle[s] /\ cycle[s] \in Nat
  BY <1>1 DEF Grows, TypeInv, TypeOK
<1>4. CASE x.op = "renew"
  <2>1. p \in Nat /\ d \in Nat
    BY <1>1, <1>4, LifecycleAssumption DEF TypeInv, WellFormed
  <2>2. x.amount = Price[x.target] /\ Covered(s, p * (left - d))
    BY <1>1, <1>3, <1>4 DEF Settled
  <2> HIDE DEF p, d
  <2>3. left1 - d <= left - d /\ left1 - d \in Int /\ left - d \in Int
    BY <1>2, <2>1
  <2> HIDE DEF left, left1
  <2>4. p * (left1 - d) <= p * (left - d) /\ p * (left1 - d) \in Int /\ p * (left - d) \in Int
    BY <2>1, <2>3, Monotone
  <2>5. p * (left1 - d) <= (cost'[s] + upgrades'[s]) * cycle'[s]
    BY <1>1, <2>2, <2>4, CoveredGrows
  <2> QED BY <1>1, <1>4, <2>2, <2>5 DEF Settled, Covered, p, d, left1
<1>5. CASE x.op = "upgrade"
  <2> DEFINE t == Price[x.target]
  <2>1. p \in Nat /\ t \in Nat
    BY <1>1, <1>5, LifecycleAssumption DEF TypeInv, WellFormed
  <2>2. p <= t /\ Covered(s, p * left) /\ (t - p) * left <= (x.amount + 1) * cycle[s]
    BY <1>1, <1>3, <1>5 DEF Settled
  <2> HIDE DEF p, t, left, left1
  <2>3. t - p \in Nat
    BY <2>1, <2>2
  <2>4. p * left1 <= p * left /\ p * left1 \in Int /\ p * left \in Int
    BY <1>2, <2>1, Monotone
  <2>5. /\ (t - p) * left1 <= (t - p) * left
        /\ (t - p) * left1 \in Int /\ (t - p) * left \in Int
    BY <1>2, <2>3, Monotone
  <2>6. p * left1 <= (cost'[s] + upgrades'[s]) * cycle'[s]
    BY <1>1, <2>2, <2>4, CoveredGrows
  <2>7. (t - p) * left1 <= (x.amount + 1) * cycle'[s]
    <3> DEFINE a == (x.amount + 1) * cycle[s]
               b == (t - p) * left
               c == (t - p) * left1
    <3>1. a \in Int /\ b \in Int /\ c \in Int /\ c <= b /\ b <= a
      BY <1>2, <1>3, <2>2, <2>5
    <3> HIDE DEF a, b, c
    <3>2. c <= a
      BY <3>1
    <3> QED BY <1>3, <3>2 DEF a, c
  <2> QED BY <1>1, <1>5, <2>2, <2>6, <2>7 DEF Settled, Covered, p, t, left1
<1>6. CASE x.op = "cancel"
  <2>1. x.amount <= cost[s] + upgrades[s]
    BY <1>1, <1>3, <1>6 DEF Settled
  <2>2. x.amount <= cost'[s] + upgrades'[s]
    BY <1>1, <1>2, <2>1 DEF Grows, TypeInv, TypeOK
  <2> QED BY <1>1, <1>6, <2>2 DEF Settled
<1>7. CASE x.op \notin {"renew", "upgrade", "cancel"}
  BY <1>7 DEF Settled
<1> QED BY <1>4, <1>5, <1>6, <1>7

LEMMA WorthGrows ==
  ASSUME TypeInv, TypeInv', NEW s \in Services, Grows(s), Worth(s),
         snapshot'[s] = snapshot[s], expires'[s] = expires[s]
  PROVE  Worth(s)'
<1> SUFFICES ASSUME ~mixed'[s] PROVE Worth(s)'
  BY DEF Worth
<1> DEFINE p == Price[snapshot[s]]
           left == expires[s] - now
           left1 == expires[s] - now'
<1>1. /\ p \in Nat /\ left \in Int /\ left1 \in Int /\ left1 <= left
  BY LifecycleAssumption DEF TypeInv, TypeOK, Grows
<1>2. Covered(s, p * left)
  BY DEF Worth, Grows
<1> HIDE DEF p, left, left1
<1>3. p * left1 <= p * left /\ p * left1 \in Int /\ p * left \in Int
  BY <1>1, Monotone
<1>4. p * left1 <= (cost'[s] + upgrades'[s]) * cycle'[s]
  BY <1>2, <1>3, CoveredGrows
<1> QED BY <1>4 DEF Worth, Covered, p, left1

LEMMA CallMoney ==
  ASSUME TypeInv, NEW r \in Requests, Call(r)
  PROVE  UNCHANGED <<money, now>>
<1>1. \A action \in Runtime, step \in Steps : SetPower(r, action, step) => UNCHANGED <<money, now>>
  BY DEF SetPower
<1>2. CASE ChangeState(r) \/ ReinstallStop(r)
  BY <1>1, <1>2 DEF ChangeState, ReinstallStop, Runtime, Steps
<1>3. CASE ReinstallStart(r) \/ CancelStop(r)
  BY <1>1, <1>3 DEF ReinstallStart, CancelStop, Runtime, Steps
<1>4. CASE Exec(r) \/ ApplyResourceLimits(r) \/ ReinstallRebuild(r) \/ CancelDelete(r) \/ Refused(r)
  BY <1>4 DEF Exec, ApplyResourceLimits, ReinstallRebuild, CancelDelete, Refused
<1> QED BY <1>2, <1>3, <1>4 DEF Call

LEMMA RecordGrows ==
  ASSUME TypeInv, NEW r \in Requests, Record(r) \/ Abandon(r), NEW s \in Services
  PROVE  Grows(s) /\ now' = now
<1> USE DEF money
<1> /\ cost \in [Services -> Nat] /\ upgrades \in [Services -> Nat]
    /\ mixed \in [Services -> BOOLEAN] /\ now \in Nat
    /\ req[r].amount \in Nat
  BY LifecycleAssumption DEF TypeInv, TypeOK
<1>1. CASE RenewCommit(r)
  <2>1. cost'[s] >= cost[s]
    BY <1>1 DEF RenewCommit
  <2>2. mixed[s] => mixed'[s]
    BY <1>1 DEF RenewCommit
  <2> QED BY <1>1, <2>1, <2>2 DEF RenewCommit, Grows
<1>2. CASE UpgradeCommit(r)
  <2>1. cost'[s] >= cost[s] /\ upgrades'[s] >= upgrades[s]
    BY <1>2 DEF UpgradeCommit
  <2>2. mixed[s] => mixed'[s]
    BY <1>2 DEF UpgradeCommit
  <2> QED BY <1>2, <2>1, <2>2 DEF UpgradeCommit, Grows
<1>3. CASE ~RenewCommit(r) /\ ~UpgradeCommit(r)
  <2>1. UNCHANGED <<cost, upgrades, cycle, mixed, now>>
    BY <1>3 DEF Record, ActCommit, Abandon, RuntimeCommit, PasswordCommit, ReinstallCommit,
                UpgradeNotRecorded, UpgradeRevert, TransferCommit, CancelCommit
  <2> QED BY <2>1 DEF Grows
<1> QED BY <1>1, <1>2, <1>3

LEMMA StepGrows ==
  ASSUME TypeInv, [Next]_vars, NEW s \in Services
  PROVE  Grows(s)
<1> /\ cost \in [Services -> Nat] /\ upgrades \in [Services -> Nat] /\ now \in Nat
  BY LifecycleAssumption DEF TypeInv, TypeOK
<1>1. UNCHANGED <<money, now>> => Grows(s)
  BY DEF money, Grows
<1>2. NoRequest => Grows(s)
  BY DEF NoRequest, Tick, UpdatePackage, money, Grows
<1> QED BY <1>1, <1>2, CallMoney, RecordGrows, LoadRequests DEF Next, NoRequest, vars

\* A step keeps what is settled for the requests that were there before it.
LEMMA OthersSettled ==
  ASSUME TypeInv, TypeInv', MoneyInv, [Next]_vars, NEW q \in Requests, Kept(q)
  PROVE  Settled(req[q])'
<1>1. CASE req[q].step = "idle"
  BY <1>1 DEF Settled, Kept
<1>2. CASE req[q].step # "idle"
  <2>1. req[q].service \in Services /\ Settled(req[q])
    BY <1>2 DEF TypeInv, WellFormed, MoneyInv
  <2>2. PICK x \in Request : x = req'[q]
    BY DEF TypeInv, TypeOK, Request
  <2>3. Settled(x)'
    BY <1>2, <2>1, <2>2, StepGrows, SettledGrows DEF Kept
  <2> QED BY <2>2, <2>3 DEF Settled
<1> QED BY <1>1, <1>2

LEMMA IdleSettled == ASSUME NEW q \in Requests, req'[q] = Idle PROVE Settled(req[q])'
BY DEF Settled, Idle

\* What a request loads is settled.
LEMMA LoadSettled ==
  ASSUME TypeInv, TypeInv', MoneyInv, NEW r \in Requests, NEW s \in Services, Load(r, s)
  PROVE  Settled(req[r])'
<1> USE DEF money
<1>1. Worth(s) /\ UNCHANGED <<money, now>>
  BY LoadRequests DEF MoneyInv
<1> DEFINE p == snapshot[s]
<1>2. /\ p \in Versions /\ Price[p] \in Nat
      /\ expires[s] \in Nat /\ now \in Nat /\ cycle[s] \in Nat \ {0}
      /\ cost[s] + upgrades[s] \in Nat
  BY LifecycleAssumption DEF TypeInv, TypeOK
<1>3. ~mixed[s] => Price[p] * (expires[s] - now) <= (cost[s] + upgrades[s]) * cycle[s]
  BY <1>1 DEF Worth, Covered
<1>4. 0 <= (cost[s] + upgrades[s]) * cycle[s] /\ (cost[s] + upgrades[s]) * cycle[s] \in Int
  BY <1>2
<1>5. ASSUME NEW new \in Request, Begin(r, new), new.service = s,
             new.op \notin {"renew", "upgrade", "cancel"}
      PROVE  Settled(req[r])'
  BY <1>5, BeginFacts DEF Settled
<1>6. CASE RenewLoad(r, s)
  <2>1. PICK new \in Request :
          /\ Begin(r, new) /\ new.service = s /\ new.op = "renew"
          /\ new.pkg = p /\ new.target = CurrentRow(s)
          /\ new.amount = Price[new.target]
          /\ new.until = ExtendExpiry(expires[s], now, Days[new.target])
    BY <1>6, RenewLoads
  <2> Days[new.target] \in Nat
    BY <2>1, CurrentRowType, LifecycleAssumption
  <2>2. \/ new.until - now - Days[new.target] = expires[s] - now
        \/ new.until - now - Days[new.target] = 0
    BY <1>2, <2>1 DEF ExtendExpiry
  <2> HIDE DEF p
  <2>3. ~mixed[s] => Price[p] * (new.until - now - Days[new.target]) <= (cost[s] + upgrades[s]) * cycle[s]
    BY <1>2, <1>3, <1>4, <2>2
  <2>4. req'[r] = new
    BY <2>1, BeginFacts
  <2> QED BY <1>1, <2>1, <2>3, <2>4 DEF Settled, Covered
<1>7. ASSUME NEW pk \in Packages, UpgradeLoad(r, s, pk)
      PROVE  Settled(req[r])'
  <2> DEFINE target == version[pk]
             left == RemainingDuration(expires[s], now)
             t == Price[target]
             q == Price[p]
  <2>1. PICK new \in Request :
          /\ Begin(r, new) /\ new.service = s /\ new.op = "upgrade"
          /\ new.pkg = p /\ new.until = expires[s] /\ new.target = target
          /\ new.amount > 0 /\ new.amount \in ProratedUpgradeCost(q, t, left, cycle[s])
    BY <1>7, UpgradeLoads
  <2>2. t \in Nat /\ left \in Nat
    BY <1>2, DurationType, LifecycleAssumption DEF TypeInv, TypeOK, Rows
  <2>3. q < t /\ left > 0 /\ (t - q) * left <= (new.amount + 1) * cycle[s]
    <3> HIDE DEF left, t, q
    <3>1. q \in Nat
      BY <1>2 DEF q
    <3> QED BY <1>2, <2>1, <2>2, <3>1, CostType
  <2>4. left = expires[s] - now
    BY <1>2, <2>3 DEF RemainingDuration
  <2>5. req'[r] = new
    BY <2>1, BeginFacts
  <2>6. q <= t
    BY <1>2, <2>2, <2>3
  <2> HIDE DEF left
  <2>7. (t - q) * (expires[s] - now) <= (new.amount + 1) * cycle[s]
    BY <2>3, <2>4
  <2>8. ~mixed[s] => Covered(s, q * (expires[s] - now))
    BY <1>3 DEF Covered
  <2> QED BY <1>1, <2>1, <2>5, <2>6, <2>7, <2>8 DEF Settled, Covered
<1>8. CASE CancelLoad(r, s)
  <2> DEFINE left == RemainingDuration(expires[s], now)
             funds == cost[s] + upgrades[s]
  <2>1. PICK new \in Request :
          /\ Begin(r, new) /\ new.service = s /\ new.op = "cancel"
          /\ new.amount \in ProratedRefund(Price[p], left, cycle[s])
    BY <1>8, CancelLoads
  <2>2. left \in Nat
    BY <1>2, DurationType
  <2>3. new.amount \in Nat /\ new.amount * cycle[s] <= Price[p] * left
    <3> HIDE DEF left, p
    <3> QED BY <1>2, <2>1, <2>2, RefundType
  <2>4. ~mixed[s] => Price[p] * left <= funds * cycle[s]
    <3>1. CASE left = 0
      BY <1>2, <1>4, <3>1
    <3>2. CASE left = expires[s] - now
      BY <1>3, <3>2
    <3> QED BY <3>1, <3>2 DEF RemainingDuration
  <2>5. ~mixed[s] => new.amount <= funds
    <3> SUFFICES ASSUME ~mixed[s], new.amount > funds PROVE FALSE
      BY <1>2, <2>3
    <3> DEFINE c == cycle[s]
               a == new.amount
    <3>1. c \in Nat /\ c > 0 /\ a \in Nat /\ funds \in Nat /\ funds + 1 <= a
      BY <1>2, <2>3
    <3>2. a * c <= funds * c
      <4> DEFINE v == Price[p] * left
      <4>1. v \in Int /\ a * c <= v /\ v <= funds * c
        BY <1>2, <2>2, <2>3, <2>4
      <4> QED BY <1>2, <2>3, <4>1
    <3> HIDE DEF c, a, funds
    <3>3. c * (funds + 1) <= c * a
      BY <3>1, Monotone
    <3> QED BY <3>1, <3>2, <3>3
  <2>6. req'[r] = new
    BY <2>1, BeginFacts
  <2> QED BY <1>1, <2>1, <2>5, <2>6 DEF Settled
<1>9. CASE PasswordLoad(r, s)
  BY <1>5, <1>9, PasswordLoads
<1>10. CASE ReinstallLoad(r, s)
  BY <1>5, <1>10, ReinstallLoads
<1>11. ASSUME NEW action \in Runtime, RuntimeLoad(r, s, action) \/ ActLoad(r, s, action)
       PROVE  Settled(req[r])'
  BY <1>5, <1>11, RuntimeLoads DEF Runtime
<1>12. ASSUME NEW u \in Users, TransferLoad(r, s, u)
       PROVE  Settled(req[r])'
  BY <1>5, <1>12, TransferLoads
<1> QED BY <1>6, <1>7, <1>8, <1>9, <1>10, <1>11, <1>12 DEF Load, Runtime

\* A renewal adds a cycle, and its price.
LEMMA RenewWorth ==
  ASSUME TypeInv, TypeInv', MoneyInv, NEW r \in Requests, RenewCommit(r)
  PROVE  \A s \in Services : Worth(s)'
<1>1. PICK s \in Services : s = Svc(r)
  BY DEF TypeInv, WellFormed, RenewCommit, Svc
<1>2. ASSUME NEW x \in Services, x # s PROVE Worth(x)'
  <2>1. /\ snapshot'[x] = snapshot[x] /\ expires'[x] = expires[x]
    BY <1>1, <1>2 DEF RenewCommit, TypeInv, TypeOK
  <2>2. Grows(x)
    BY RecordGrows DEF Record, ActCommit
  <2> QED BY <2>1, <2>2, WorthGrows DEF MoneyInv
<1>3. ASSUME ~mixed'[s] PROVE Covered(s, Price[snapshot[s]] * (expires[s] - now))'
  <2>1. /\ ~mixed[s] /\ req[r].pkg = snapshot[s]
        /\ ~(Price[req[r].target] * cycle[s] < Price[req[r].pkg] * Days[req[r].target])
        /\ expires'[s] = req[r].until /\ cost'[s] = cost[s] + req[r].amount
        /\ UNCHANGED <<snapshot, cycle, upgrades, now>>
    BY <1>1, <1>3 DEF RenewCommit, TypeInv, TypeOK
  <2> DEFINE p == Price[snapshot[s]]
             a == Price[req[r].target]
             d == Days[req[r].target]
             c == cycle[s]
             u == req[r].until
             f == cost[s] + upgrades[s]
  <2>2. req[r].amount = a /\ Covered(s, p * (u - now - d))
    BY <1>1, <2>1 DEF MoneyInv, Settled, RenewCommit, Svc
  <2>3. /\ p \in Nat /\ c \in Nat /\ u \in Nat /\ f \in Nat /\ now \in Nat
        /\ a \in Nat /\ d \in Nat
    BY LifecycleAssumption DEF TypeInv, TypeOK, WellFormed, RenewCommit
  <2>4. p * (u - now - d) <= f * c
    BY <2>2 DEF Covered
  <2>5. cost'[s] + upgrades'[s] = f + a
    BY <2>1, <2>2 DEF TypeInv, TypeOK
  <2>6. ~(a * c < p * d)
    BY <2>1
  <2> HIDE DEF p, a, d, c, u, f
  <2>7. p * (u - now) <= (f + a) * c
    <3>1. p * (u - now - d) = p * (u - now) - p * d
      BY <2>3
    <3>2. (f + a) * c = f * c + a * c
      BY <2>3
    <3> DEFINE pd == p * d
               ac == a * c
               pu == p * (u - now)
               fc == f * c
    <3>3. pd \in Int /\ ac \in Int /\ pu \in Int /\ fc \in Int
      BY <2>3
    <3>4. pu - pd <= fc /\ pd <= ac
      BY <2>4, <2>6, <3>1, <3>3
    <3> HIDE DEF pd, ac, pu, fc
    <3>5. pu <= fc + ac
      BY <3>3, <3>4
    <3> QED BY <3>2, <3>5 DEF pd, ac, pu, fc
  <2> QED BY <2>1, <2>5, <2>7 DEF Covered, p, c, u
<1> QED BY <1>2, <1>3 DEF Worth

\* An upgrade makes what is left as dear as the package it was for and the
\* difference, of which it charges all but the rounding.
LEMMA UpgradeWorth ==
  ASSUME TypeInv, TypeInv', MoneyInv, NEW r \in Requests, UpgradeCommit(r)
  PROVE  \A s \in Services : Worth(s)'
<1>1. PICK s \in Services : s = Svc(r)
  BY DEF TypeInv, WellFormed, UpgradeCommit, Svc
<1>2. ASSUME NEW x \in Services, x # s PROVE Worth(x)'
  <2>1. /\ snapshot'[x] = snapshot[x] /\ expires'[x] = expires[x]
    BY <1>1, <1>2 DEF UpgradeCommit, TypeInv, TypeOK
  <2>2. Grows(x)
    BY RecordGrows DEF Record, ActCommit
  <2> QED BY <2>1, <2>2, WorthGrows DEF MoneyInv
<1>3. ASSUME ~mixed'[s] PROVE Covered(s, Price[snapshot[s]] * (expires[s] - now))'
  <2>1. /\ ~mixed[s] /\ req[r].until = expires[s] /\ snapshot'[s] = req[r].target
        /\ cost'[s] = cost[s] + req[r].amount /\ upgrades'[s] = upgrades[s] + 1
        /\ UNCHANGED <<expires, cycle, now>>
    BY <1>1, <1>3 DEF UpgradeCommit, TypeInv, TypeOK
  <2> DEFINE p == Price[req[r].pkg]
             t == Price[req[r].target]
             c == cycle[s]
             left == expires[s] - now
             f == cost[s] + upgrades[s]
             a == req[r].amount
  <2>2. /\ Covered(s, p * left)
        /\ (t - p) * left <= (a + 1) * c
    BY <1>1, <2>1 DEF MoneyInv, Settled, UpgradeCommit, Svc
  <2>3. p \in Nat /\ t \in Nat
    BY LifecycleAssumption DEF TypeInv, WellFormed, UpgradeCommit
  <2>4. c \in Nat /\ left \in Int /\ f \in Nat /\ a \in Nat
    BY LifecycleAssumption DEF TypeInv, TypeOK
  <2>5. p * left <= f * c
    BY <2>2 DEF Covered
  <2>6. cost'[s] + upgrades'[s] = f + a + 1
    BY <2>1 DEF TypeInv, TypeOK
  <2> HIDE DEF p, t, c, left, f, a
  <2>7. t * left <= (f + a + 1) * c
    <3>1. (t - p) * left = t * left - p * left
      BY <2>3, <2>4
    <3>2. (f + a + 1) * c = f * c + (a + 1) * c
      BY <2>4
    <3> QED BY <2>2, <2>3, <2>4, <2>5, <3>1, <3>2
  <2> QED BY <2>1, <2>6, <2>7 DEF Covered, t, c, left
<1> QED BY <1>2, <1>3 DEF Worth

\* A request goes on or is over.
LEMMA CallMoves ==
  ASSUME TypeInv, NEW r \in Requests, Call(r) \/ Record(r) \/ Abandon(r)
  PROVE  req'[r] = Idle \/ \E step, changed, late : Moves(r, step, changed, late)
<1> /\ {Power} \in SUBSET Aspects /\ {Password} \in SUBSET Aspects
    /\ {Limits} \in SUBSET Aspects /\ Aspects \in SUBSET Aspects
  BY DEF Aspects
<1>1. \A action \in Runtime, step \in Steps :
        SetPower(r, action, step) => \E n, changed, late : Moves(r, n, changed, late)
  BY PowerRequests
<1>2. \A step \in Steps : Go(r, step) => \E n, changed, late : Moves(r, n, changed, late)
  BY GoFacts
<1>3. \A A \in SUBSET Aspects, step \in Steps :
        Changed(r, A, step) => \E n, changed, late : Moves(r, n, changed, late)
  BY ChangedFacts
<1>4. CASE ChangeState(r) \/ ReinstallStop(r)
  BY <1>1, <1>4 DEF ChangeState, ReinstallStop, Runtime, Steps
<1>5. CASE ReinstallStart(r) \/ CancelStop(r)
  BY <1>1, <1>2, <1>5 DEF ReinstallStart, CancelStop, Runtime, Steps
<1>6. CASE ApplyResourceLimits(r) \/ ReinstallRebuild(r) \/ CancelDelete(r)
  BY <1>3, <1>6 DEF ApplyResourceLimits, ReinstallRebuild, CancelDelete, Steps
<1>7. CASE Exec(r)
  BY <1>7, ExecFacts
<1>8. CASE UpgradeNotRecorded(r)
  BY <1>2, <1>8 DEF UpgradeNotRecorded, Steps
<1>9. CASE UpgradeRevert(r)
  BY <1>9, RevertFacts
<1>10. CASE Answer(r)
  BY <1>10, AnswerFacts
<1>11. Refused(r) \/ RuntimeCommit(r) \/ PasswordCommit(r) \/ ReinstallCommit(r) \/ RenewCommit(r)
         \/ UpgradeCommit(r) \/ TransferCommit(r) \/ CancelCommit(r) \/ Abandon(r) => Answer(r)
  BY DEF Refused, RuntimeCommit, PasswordCommit, ReinstallCommit, RenewCommit,
         UpgradeCommit, TransferCommit, CancelCommit, Abandon
<1> QED BY <1>4, <1>5, <1>6, <1>7, <1>8, <1>9, <1>10, <1>11 DEF Call, Record, ActCommit

LEMMA InitMoneyInv == Init => MoneyInv
<1> SUFFICES ASSUME Init PROVE MoneyInv
  OBVIOUS
<1>1. ASSUME NEW s \in Services PROVE Worth(s)
  <2> DEFINE p == Price[snapshot[s]]
             c == Days[snapshot[s]]
  <2>1. p \in Nat /\ c \in Nat
    BY LifecycleAssumption DEF Init
  <2>2. cost[s] = p /\ upgrades[s] = 0 /\ cycle[s] = c /\ expires[s] = c /\ now = 0
    BY DEF Init
  <2> HIDE DEF p, c
  <2>3. p * (c - 0) <= (p + 0) * c
    BY <2>1
  <2> QED BY <2>2, <2>3 DEF Worth, Covered, p
<1> QED BY <1>1 DEF Init, MoneyInv, Settled, Idle

LEMMA StepMoneyInv == TypeInv /\ TypeInv' /\ MoneyInv /\ [Next]_vars => MoneyInv'
<1> SUFFICES ASSUME TypeInv, TypeInv', MoneyInv, [Next]_vars PROVE MoneyInv'
  OBVIOUS
<1>1. ASSUME UNCHANGED <<snapshot, expires>>
      PROVE  \A s \in Services : Worth(s)'
  BY <1>1, StepGrows, WorthGrows DEF MoneyInv
<1>2. ASSUME NEW r \in Requests, OthersKept(r), Settled(req[r])'
      PROVE  \A q \in Requests : Settled(req[q])'
  BY <1>2, OthersSettled DEF OthersKept
<1>3. ASSUME NEW r \in Requests, NEW s \in Services, Load(r, s)
      PROVE  MoneyInv'
  <2>1. OthersKept(r) /\ UNCHANGED <<snapshot, expires>>
    BY <1>3, LoadRequests DEF money
  <2>2. \A q \in Requests : Settled(req[q])'
    BY <1>2, <1>3, <2>1, LoadSettled
  <2> QED BY <1>1, <2>1, <2>2 DEF MoneyInv
<1>4. ASSUME NEW r \in Requests, OthersKept(r), req[r].step # "idle",
             req'[r] = Idle \/ \E step, changed, late : Moves(r, step, changed, late)
      PROVE  \A q \in Requests : Settled(req[q])'
  <2>1. CASE req'[r] = Idle
    BY <1>2, <1>4, <2>1, IdleSettled
  <2>2. CASE \E step, changed, late : Moves(r, step, changed, late)
    <3>1. PICK x \in Request : x = req'[r]
      BY DEF TypeInv, TypeOK, Request
    <3>2. /\ x.service = req[r].service /\ x.op = req[r].op /\ x.pkg = req[r].pkg
          /\ x.target = req[r].target /\ x.until = req[r].until /\ x.amount = req[r].amount
      BY <2>2, <3>1 DEF Moves
    <3>3. Settled(req[r]) /\ Grows(req[r].service)
      BY <1>4, StepGrows DEF MoneyInv, TypeInv, WellFormed
    <3>4. Settled(x)'
      BY <1>4, <3>2, <3>3, SettledGrows
    <3>5. Settled(req[r])'
      BY <3>1, <3>4 DEF Settled
    <3> QED BY <1>2, <1>4, <3>5
  <2> QED BY <1>4, <2>1, <2>2
<1>5. ASSUME NEW r \in Requests, Call(r)
      PROVE  MoneyInv'
  <2>1. OthersKept(r) /\ req[r].step # "idle"
    BY <1>5, CallRequests DEF Call, ChangeState, Exec, ApplyResourceLimits, ReinstallStop,
       ReinstallRebuild, ReinstallStart, CancelStop, CancelDelete, Refused
  <2>2. req'[r] = Idle \/ \E step, changed, late : Moves(r, step, changed, late)
    BY <1>5, CallMoves
  <2> QED BY <1>1, <1>4, <1>5, <2>1, <2>2, CallMoney DEF MoneyInv, money
<1>6. ASSUME NEW r \in Requests, Record(r) \/ Abandon(r)
      PROVE  MoneyInv'
  <2>1. OthersKept(r) /\ req[r].step # "idle"
    BY <1>6, CallRequests DEF Record, ActCommit, Abandon, RuntimeCommit, PasswordCommit, ReinstallCommit,
       RenewCommit, UpgradeCommit, UpgradeNotRecorded, UpgradeRevert, TransferCommit, CancelCommit
  <2>2. req'[r] = Idle \/ \E step, changed, late : Moves(r, step, changed, late)
    BY <1>6, CallMoves
  <2>3. \A q \in Requests : Settled(req[q])'
    BY <1>4, <2>1, <2>2
  <2>4. CASE RenewCommit(r)
    BY <2>3, <2>4, RenewWorth DEF MoneyInv
  <2>5. CASE UpgradeCommit(r)
    BY <2>3, <2>5, UpgradeWorth DEF MoneyInv
  <2>6. CASE ~RenewCommit(r) /\ ~UpgradeCommit(r)
    <3>1. UNCHANGED <<snapshot, expires>>
      BY <1>6, <2>6 DEF Record, ActCommit, Abandon, RuntimeCommit, PasswordCommit, ReinstallCommit,
         UpgradeNotRecorded, UpgradeRevert, TransferCommit, CancelCommit, money
    <3> QED BY <1>1, <2>3, <3>1 DEF MoneyInv
  <2> QED BY <2>4, <2>5, <2>6
<1>7. CASE NoRequest \/ UNCHANGED vars
  <2>1. UNCHANGED <<snapshot, expires, req>>
    BY <1>7 DEF NoRequest, Tick, UpdatePackage, vars, money
  <2>2. \A q \in Requests : Settled(req[q])'
    BY <2>1, OthersSettled DEF Kept
  <2> QED BY <1>1, <2>1, <2>2 DEF MoneyInv
<1> QED BY <1>3, <1>5, <1>6, <1>7 DEF Next, NoRequest

\* Only a deletion makes a request one that deletes, and of an instance no
\* other has deleted.
LEMMA OtherRefunds ==
  ASSUME TypeInv, RefundInv, NEW r \in Requests, OthersKept(r),
         NEW CONSTANT s \in Services,
         ~(Deleting(req'[r]) /\ req'[r].service = s) \/ (Deleting(req[r]) /\ Svc(r) = s),
         incus'[s] = incus[s] \/ (incus[s] # "gone" /\ incus'[s] # "gone"),
         refunded'[s] = refunded[s]
  PROVE  OneRefund(s)'
<1>1. \A q \in Requests : Deleting(req'[q]) /\ req'[q].service = s => Deleting(req[q]) /\ Svc(q) = s
  BY DEF OthersKept, Kept, Deleting, Svc
<1>2. OneRefund(s)
  BY DEF RefundInv
<1>3. incus'[s] # "gone" => refunded'[s] = 0
  BY <1>2 DEF OneRefund
<1>4. \A q \in Requests : Deleting(req'[q]) /\ req'[q].service = s => refunded'[s] = 0
  BY <1>1, <1>2 DEF OneRefund
<1>5. \A q, x \in Requests :
        (/\ Deleting(req'[q]) /\ req'[q].service = s
         /\ Deleting(req'[x]) /\ req'[x].service = s) => q = x
  BY <1>1, <1>2 DEF OneRefund
<1> QED BY <1>3, <1>4, <1>5 DEF OneRefund, Deleting, Svc

\* The deletion: there was none before, and nothing has been refunded.
LEMMA DeleteRefunds ==
  ASSUME TypeInv, RequestInv, RefundInv, NEW r \in Requests, CancelDelete(r)
  PROVE  \A s \in Services : OneRefund(s)'
<1>1. PICK t \in Services : t = Svc(r)
  BY DEF TypeInv, WellFormed, CancelDelete, Svc
<1>2. /\ incus[t] = "stopped" /\ refunded' = refunded /\ incus'[t] = "gone"
      /\ \A s \in Services : s # t => incus'[s] = incus[s]
  BY <1>1 DEF CancelDelete, money, TypeInv, TypeOK
<1>3. /\ OthersKept(r)
      /\ Moves(r, "commit", req[r].changed \union Aspects, req[r].late \ Aspects)
  BY ChangedFacts DEF CancelDelete, Steps
<1>4. req'[r].service = t
  BY <1>1, <1>3 DEF Moves, Svc
<1>5. ASSUME NEW s \in Services, s # t PROVE OneRefund(s)'
  BY <1>2, <1>3, <1>4, <1>5, OtherRefunds
<1>6. \A q \in Requests \ {r} : ~(Deleting(req'[q]) /\ req'[q].service = t)
  <2>1. \A q \in Requests : Deleting(req[q]) /\ req[q].service = t => incus[t] = "gone"
    BY DEF RequestInv, Informed, Deleting
  <2> QED BY <1>2, <1>3, <2>1 DEF OthersKept, Kept, Deleting
<1>7. refunded'[t] = 0
  BY <1>2 DEF RefundInv, OneRefund
<1>8. \A q, x \in Requests :
        (/\ Deleting(req'[q]) /\ req'[q].service = t
         /\ Deleting(req'[x]) /\ req'[x].service = t) => q = x
  BY <1>6
<1>9. OneRefund(t)'
  BY <1>2, <1>7, <1>8 DEF OneRefund, Deleting, Svc
<1> QED BY <1>5, <1>9

LEMMA PaidGrows ==
  ASSUME TypeInv, [Next]_vars, RefundInv, refunded' = refunded
  PROVE  RefundAtMostPaid'
<1>1. ASSUME NEW s \in Services PROVE mixed'[s] \/ refunded'[s] <= cost'[s] + upgrades'[s]
  <2>1. Grows(s)
    BY StepGrows
  <2>2. mixed[s] \/ refunded[s] <= cost[s] + upgrades[s]
    BY DEF RefundInv, RefundAtMostPaid
  <2>3. /\ cost[s] \in Nat /\ upgrades[s] \in Nat /\ refunded[s] \in Nat
    BY DEF TypeInv, TypeOK
  <2>4. CASE mixed[s]
    BY <2>1, <2>4 DEF Grows
  <2>5. CASE refunded[s] <= cost[s] + upgrades[s]
    <3> DEFINE c1 == cost'[s]
               u1 == upgrades'[s]
    <3>1. c1 >= cost[s] /\ u1 >= upgrades[s] /\ refunded'[s] = refunded[s]
      BY <2>1 DEF Grows
    <3>2. c1 \in Nat /\ u1 \in Nat
      BY StepTypeInv DEF TypeInv, TypeOK
    <3> QED BY <2>3, <2>5, <3>1, <3>2
  <2> QED BY <2>2, <2>4, <2>5
<1> QED BY <1>1 DEF RefundAtMostPaid

LEMMA CommitRefunds ==
  ASSUME TypeInv, RequestInv, MoneyInv, RefundInv, NEW r \in Requests, CancelCommit(r)
  PROVE  RefundInv'
<1>1. PICK t \in Services : t = Svc(r)
  BY DEF TypeInv, WellFormed, CancelCommit, Svc
<1>2. /\ refunded'[t] = refunded[t] + req[r].amount
      /\ \A s \in Services : s # t => refunded'[s] = refunded[s]
      /\ UNCHANGED <<incus, cost, upgrades, mixed>>
      /\ Deleting(req[r]) /\ req'[r] = Idle /\ OthersKept(r)
  BY <1>1, AnswerFacts DEF CancelCommit, Deleting, actual, TypeInv, TypeOK
<1>3. incus[t] = "gone" /\ refunded[t] = 0
  BY <1>1, <1>2 DEF RequestInv, Informed, Deleting, Svc, RefundInv, OneRefund
<1>4. ~Deleting(req'[r])
  BY <1>2 DEF Deleting, Idle
<1>5. ASSUME NEW s \in Services, s # t PROVE OneRefund(s)'
  BY <1>2, <1>4, <1>5, OtherRefunds
<1>6. \A q \in Requests : ~(Deleting(req'[q]) /\ req'[q].service = t)
  <2>1. \A q \in Requests : Deleting(req[q]) /\ req[q].service = t => q = r
    BY <1>1, <1>2 DEF RefundInv, OneRefund, Svc
  <2> QED BY <1>2, <1>4, <2>1 DEF OthersKept, Kept, Deleting
<1>7. OneRefund(t)'
  BY <1>2, <1>3, <1>6 DEF OneRefund, Deleting, Svc
<1>8. mixed[t] \/ refunded'[t] <= cost[t] + upgrades[t]
  BY <1>1, <1>2, <1>3 DEF MoneyInv, Settled, Deleting, Svc, TypeInv, TypeOK
<1>9. RefundAtMostPaid'
  BY <1>2, <1>8 DEF RefundAtMostPaid, RefundInv
<1> QED BY <1>5, <1>7, <1>9 DEF RefundInv

LEMMA StepRefundInv ==
  TypeInv /\ RequestInv /\ MoneyInv /\ RefundInv /\ [Next]_vars => RefundInv'
<1> SUFFICES ASSUME TypeInv, RequestInv, MoneyInv, RefundInv, [Next]_vars PROVE RefundInv'
  OBVIOUS
<1>1. ASSUME NEW r \in Requests, OthersKept(r), refunded' = refunded,
             ~Deleting(req'[r]) \/ (Deleting(req[r]) /\ req'[r].service = Svc(r)),
             \A s \in Services : incus'[s] = incus[s] \/ (incus[s] # "gone" /\ incus'[s] # "gone")
      PROVE  RefundInv'
  <2>1. ASSUME NEW s \in Services PROVE OneRefund(s)'
    BY <1>1, OtherRefunds
  <2> QED BY <1>1, <2>1, PaidGrows DEF RefundInv
<1>2. ASSUME NEW r \in Requests, NEW s \in Services, Load(r, s)
      PROVE  RefundInv'
  <2>1. PICK new \in Request : Begin(r, new) /\ WellFormed(new) /\ new.changed = {}
    BY <1>2, LoadFacts
  <2>2. req'[r] = new /\ OthersKept(r) /\ UNCHANGED <<incus, refunded>>
    BY <2>1, BeginFacts DEF Begin, money, actual
  <2>3. ~Deleting(new)
    BY <2>1 DEF WellFormed, Deleting, Aspects
  <2> QED BY <1>1, <2>2, <2>3
<1>3. ASSUME NEW r \in Requests, NEW action \in Runtime, NEW step \in Steps,
             SetPower(r, action, step), step = "commit" => req[r].op # "cancel", OthersKept(r)
      PROVE  RefundInv'
  <2>1. \A s \in Services : incus'[s] = incus[s] \/ (incus[s] # "gone" /\ incus'[s] # "gone")
    BY <1>3 DEF SetPower, Accepts, TypeInv, TypeOK
  <2>2. ~Deleting(req'[r])
    BY <1>3, PowerRequests DEF Moves, Deleting
  <2> QED BY <1>1, <1>3, <2>1, <2>2 DEF SetPower, money
<1>4. ASSUME NEW r \in Requests, Call(r)
      PROVE  RefundInv'
  <2>1. OthersKept(r) /\ refunded' = refunded
    BY <1>4, CallRequests, CallMoney DEF money
  <2>2. CASE ChangeState(r) \/ ReinstallStop(r)
    BY <1>3, <2>1, <2>2 DEF ChangeState, ReinstallStop, Runtime, Steps
  <2>3. CASE ReinstallStart(r) \/ CancelStop(r)
    <3>1. PICK step \in {"exec", "delete"} :
            SetPower(r, "start", step) \/ SetPower(r, "stop", step) \/ (Go(r, step) /\ incus' = incus)
      BY <2>3 DEF ReinstallStart, CancelStop, actual
    <3>2. Go(r, step) => ~Deleting(req'[r])
      BY GoFacts DEF Moves, Deleting, Steps
    <3> QED BY <1>1, <1>3, <2>1, <3>1, <3>2 DEF Runtime, Steps
  <2>4. CASE ApplyResourceLimits(r) \/ ReinstallRebuild(r) \/ Exec(r) \/ Refused(r)
    <3>1. incus' = incus
      BY <2>4 DEF ApplyResourceLimits, ReinstallRebuild, Exec, Refused, actual
    <3>2. ~Deleting(req'[r])
      <4>1. WellFormed(req[r]) /\ req[r].op \in Ops
        BY DEF TypeInv, TypeOK
      <4>2. CASE ApplyResourceLimits(r)
        BY <4>2, ChangedFacts DEF ApplyResourceLimits, Moves, Deleting, Steps, Aspects
      <4>3. CASE ReinstallRebuild(r)
        BY <4>3, ChangedFacts DEF ReinstallRebuild, Moves, Deleting, Steps, Aspects
      <4>4. CASE Exec(r)
        <5>1. req[r].op # "cancel"
          BY <4>1, <4>4 DEF Exec, WellFormed
        <5> QED BY <4>4, <5>1, ExecFacts DEF Moves, Deleting
      <4>5. CASE Refused(r)
        BY <4>5, AnswerFacts DEF Refused, Deleting, Idle
      <4> QED BY <2>4, <4>2, <4>3, <4>4, <4>5
    <3> QED BY <1>1, <2>1, <3>1, <3>2
  <2>5. CASE CancelDelete(r)
    BY <2>1, <2>5, DeleteRefunds, PaidGrows DEF RefundInv
  <2> QED BY <1>4, <2>2, <2>3, <2>4, <2>5 DEF Call
<1>5. ASSUME NEW r \in Requests, Record(r) \/ Abandon(r), ~CancelCommit(r)
      PROVE  RefundInv'
  <2>1. OthersKept(r) /\ refunded' = refunded /\ incus' = incus
    BY <1>5, CallRequests DEF Record, ActCommit, Abandon, RuntimeCommit, PasswordCommit, ReinstallCommit,
       RenewCommit, UpgradeCommit, UpgradeNotRecorded, UpgradeRevert, TransferCommit, money, actual
  <2>2. ~Deleting(req'[r])
    <3>1. CASE UpgradeNotRecorded(r)
      BY <3>1, GoFacts DEF UpgradeNotRecorded, Moves, Deleting, Steps
    <3>2. CASE UpgradeRevert(r)
      BY <3>2, RevertFacts DEF Deleting, Idle
    <3>3. CASE Answer(r)
      BY <3>3, AnswerFacts DEF Deleting, Idle
    <3> QED BY <1>5, <3>1, <3>2, <3>3 DEF Record, ActCommit, Abandon, RuntimeCommit, PasswordCommit,
               ReinstallCommit, RenewCommit, UpgradeCommit, TransferCommit
  <2> QED BY <1>1, <2>1, <2>2
<1>6. CASE NoRequest \/ UNCHANGED vars
  BY <1>6, PaidGrows DEF NoRequest, Tick, UpdatePackage, vars, money, actual, RefundInv, OneRefund, Deleting, Svc
<1> QED BY <1>2, <1>4, <1>5, <1>6, CommitRefunds DEF Next, NoRequest

\* The refunds of a service are at most what was paid for it, but for the
\* rounding of each upgrade, however the packages' prices, times and resources
\* change meanwhile; unless it was renewed for less per day than its snapshots
\* say, or a renewal and an upgrade of it overlapped.
THEOREM NoRefundBeyondPayment == Spec => []RefundAtMostPaid
<1>1. Init => RefundInv
  BY LifecycleAssumption DEF Init, RefundInv, OneRefund, RefundAtMostPaid, Deleting, Idle
<1>2. RefundInv => RefundAtMostPaid
  BY DEF RefundInv
<1> QED BY <1>1, <1>2, InitTypeInv, StepTypeInv, InitRequestInv, StepRequestInv,
           InitMoneyInv, StepMoneyInv, StepRefundInv, PTL DEF Spec

-----------------------------------------------------------------------------
(***************************************************************************)
(* One request at a time for a service, which is what the check for        *)
(* conflicting jobs (ensureNoConflictingJobs) is there for and does not    *)
(* ensure.  Then nothing is late, what a request has loaded of its service *)
(* stays true, a terminated service stays so, and what is left of mixed is *)
(* the renewal for less per day than the snapshots say.                    *)
(***************************************************************************)

ServicesApart ==
  \A r, q \in Requests : Svc(r) = Svc(q) /\ Svc(r) # NoService => r = q

\* Nothing of what it has changed is late, and the package and the expiry it
\* has loaded are those of its service.  A renewal is at a price its package has
\* had, for the days that went with it.
Current(x) ==
  /\ x.late = {}
  /\ x.op \in {"renew", "upgrade"} => x.pkg = snapshot[x.service]
  /\ x.op = "upgrade" => x.until = expires[x.service]
  /\ x.op = "renew" => /\ PackageOf[x.target] = PackageOf[x.pkg]
                       /\ x.amount = Price[x.target]
                       /\ x.until >= expires[x.service] + Days[x.target]

CurrentInv == \A r \in Requests : Current(req[r])

LEMMA IdleCurrent == Current(Idle)
BY DEF Current, Idle

LEMMA LoadCurrent ==
  ASSUME TypeInv, NEW r \in Requests, NEW s \in Services, Load(r, s)
  PROVE  \E new \in Request : Begin(r, new) /\ Current(new)
<1>1. ASSUME NEW new \in Request, new.late = {}, new.op \notin {"renew", "upgrade"}
      PROVE  Current(new)
  BY <1>1 DEF Current
<1>2. ASSUME NEW action \in Runtime, RuntimeLoad(r, s, action) \/ ActLoad(r, s, action)
      PROVE  \E new \in Request : Begin(r, new) /\ Current(new)
  BY <1>1, <1>2, RuntimeLoads DEF Runtime
<1>3. ASSUME NEW u \in Users, TransferLoad(r, s, u)
      PROVE  \E new \in Request : Begin(r, new) /\ Current(new)
  BY <1>1, <1>3, TransferLoads
<1>4. CASE PasswordLoad(r, s)
  BY <1>1, <1>4, PasswordLoads
<1>5. CASE ReinstallLoad(r, s)
  BY <1>1, <1>5, ReinstallLoads
<1>6. CASE CancelLoad(r, s)
  BY <1>1, <1>6, CancelLoads
<1>7. CASE RenewLoad(r, s)
  <2>1. PICK new \in Request : /\ Begin(r, new) /\ new.late = {} /\ new.service = s
                               /\ new.op = "renew" /\ new.pkg = snapshot[s]
                               /\ new.target = CurrentRow(s)
                               /\ new.amount = Price[new.target]
                               /\ new.until = ExtendExpiry(expires[s], now, Days[new.target])
    BY <1>7, RenewLoads
  <2>2. expires[s] \in Nat /\ now \in Nat /\ Days[new.target] \in Nat
    BY <2>1, CurrentRowType, LifecycleAssumption DEF TypeInv, TypeOK
  <2>3. new.until >= expires[s] + Days[new.target]
    BY <2>1, <2>2 DEF ExtendExpiry
  <2> QED BY <2>1, <2>3, CurrentRowType DEF Current
<1>8. ASSUME NEW p \in Packages, UpgradeLoad(r, s, p)
      PROVE  \E new \in Request : Begin(r, new) /\ Current(new)
  <2>1. PICK new \in Request : /\ Begin(r, new) /\ new.late = {} /\ new.service = s
                               /\ new.op = "upgrade" /\ new.pkg = snapshot[s] /\ new.until = expires[s]
    BY <1>8, UpgradeLoads
  <2> QED BY <2>1 DEF Current
<1> QED BY <1>2, <1>3, <1>4, <1>5, <1>6, <1>7, <1>8 DEF Load, Runtime

\* No other request sees a step of r, and r itself is late with nothing.
LEMMA StepApart ==
  ASSUME TypeInv, ServicesApart, NEW r \in Requests, Call(r) \/ Record(r) \/ Abandon(r),
         req[r].late = {}
  PROVE  /\ \A q \in Requests \ {r} : req'[q] = req[q]
         /\ \/ req'[r] = Idle
            \/ \E step, changed : Moves(r, step, changed, {})
<1>0. req[r].step # "idle" => \A q \in Requests \ {r} : Svc(q) # Svc(r)
  BY LifecycleAssumption DEF ServicesApart, TypeInv, WellFormed, Svc
<1> /\ {Power} \in SUBSET Aspects /\ {Password} \in SUBSET Aspects
    /\ {Limits} \in SUBSET Aspects /\ Aspects \in SUBSET Aspects
  BY DEF Aspects
<1> DEFINE Goal == /\ \A q \in Requests \ {r} : req'[q] = req[q]
                   /\ \/ req'[r] = Idle
                      \/ \E step, changed : Moves(r, step, changed, {})
<1>1. ASSUME NEW A \in SUBSET Aspects, NEW step \in Steps, Changed(r, A, step),
             req[r].step # "idle"
      PROVE  Goal
  <2>1. \A q \in Requests \ {r} : req'[q] = req[q]
    BY <1>0, <1>1 DEF Changed
  <2>2. Moves(r, step, req[r].changed \union A, {} \ A) /\ {} \ A = {}
    BY <1>1, ChangedFacts
  <2> QED BY <2>1, <2>2
<1>2. ASSUME NEW step \in Steps, Go(r, step) PROVE Goal
  BY <1>2, GoFacts
<1>3. ASSUME NEW action \in Runtime, NEW step \in Steps, SetPower(r, action, step),
             req[r].step # "idle"
      PROVE  Goal
  BY <1>1, <1>3 DEF SetPower
<1>4. CASE ChangeState(r) \/ ReinstallStop(r)
  BY <1>3, <1>4 DEF ChangeState, ReinstallStop, Runtime, Steps
<1>5. CASE ReinstallStart(r) \/ CancelStop(r)
  BY <1>2, <1>3, <1>5 DEF ReinstallStart, CancelStop, Runtime, Steps
<1>6. CASE ApplyResourceLimits(r) \/ ReinstallRebuild(r) \/ CancelDelete(r)
  BY <1>1, <1>6 DEF ApplyResourceLimits, ReinstallRebuild, CancelDelete, Steps
<1>7. CASE Exec(r)
  <2>1. \A q \in Requests \ {r} : req'[q] = req[q]
    BY <1>0, <1>7 DEF Exec
  <2>2. \A A : {} \ A = {}
    OBVIOUS
  <2>3. \E changed, A : Moves(r, "commit", changed, {} \ A)
    BY <1>7, ExecFacts
  <2> QED BY <2>1, <2>2, <2>3
<1>8. CASE UpgradeNotRecorded(r)
  BY <1>2, <1>8 DEF UpgradeNotRecorded, Steps
<1>9. CASE UpgradeRevert(r)
  BY <1>0, <1>9 DEF UpgradeRevert
<1>10. CASE Answer(r)
  BY <1>10, AnswerFacts
<1>11. Refused(r) \/ RuntimeCommit(r) \/ PasswordCommit(r) \/ ReinstallCommit(r) \/ RenewCommit(r)
         \/ UpgradeCommit(r) \/ TransferCommit(r) \/ CancelCommit(r) \/ Abandon(r) => Answer(r)
  BY DEF Refused, RuntimeCommit, PasswordCommit, ReinstallCommit, RenewCommit,
         UpgradeCommit, TransferCommit, CancelCommit, Abandon
<1> QED BY <1>4, <1>5, <1>6, <1>7, <1>8, <1>9, <1>10, <1>11 DEF Call, Record, ActCommit
\* A step of another request changes neither the package nor the expiry of a
\* service: its own recordings do.
LEMMA SnapshotStays ==
  ASSUME TypeInv, NEW r \in Requests, Call(r) \/ Record(r) \/ Abandon(r),
         NEW s \in Services, Svc(r) # s
  PROVE  snapshot'[s] = snapshot[s] /\ expires'[s] = expires[s]
<1>1. CASE RenewCommit(r)
  BY <1>1 DEF RenewCommit, TypeInv, TypeOK
<1>2. CASE UpgradeCommit(r)
  BY <1>2 DEF UpgradeCommit, TypeInv, TypeOK
<1>3. CASE ~RenewCommit(r) /\ ~UpgradeCommit(r)
  BY <1>3, CallMoney DEF Record, ActCommit, Abandon, RuntimeCommit, PasswordCommit, ReinstallCommit,
     UpgradeNotRecorded, UpgradeRevert, TransferCommit, CancelCommit, money
<1> QED BY <1>1, <1>2, <1>3

\* Until it is answered, a request finds what it has loaded.
LEMMA StepCurrent ==
  ASSUME TypeInv, ServicesApart, CurrentInv, NEW r \in Requests,
         Call(r) \/ Record(r) \/ Abandon(r)
  PROVE  CurrentInv'
<1>1. /\ \A q \in Requests \ {r} : req'[q] = req[q]
      /\ \/ req'[r] = Idle
         \/ \E step, changed : Moves(r, step, changed, {})
  BY StepApart DEF CurrentInv, Current
<1>2. ASSUME NEW q \in Requests \ {r} PROVE Current(req[q])'
  <2>1. req'[q] = req[q] /\ Current(req[q]) /\ WellFormed(req[q])
    BY <1>1 DEF CurrentInv, TypeInv
  <2>2. CASE req[q].op \in {"renew", "upgrade"}
    <3>1. req[q].service \in Services /\ req[q].service # NoService
      BY <2>1, <2>2, LifecycleAssumption DEF WellFormed
    <3>2. Svc(r) # req[q].service
      BY <3>1 DEF ServicesApart, Svc
    <3> QED BY <2>1, <3>1, <3>2, SnapshotStays DEF Current
  <2>3. CASE req[q].op \notin {"renew", "upgrade"}
    BY <2>1, <2>3 DEF Current
  <2> QED BY <2>2, <2>3
<1>3. Current(req[r])'
  <2>1. CASE req'[r] = Idle
    BY <2>1, IdleCurrent DEF Current, Idle
  <2>2. CASE \E step, changed : Moves(r, step, changed, {}) /\ req'[r] # Idle
    <3>1. ~(RenewCommit(r) \/ UpgradeCommit(r))
      BY <2>2, AnswerFacts DEF RenewCommit, UpgradeCommit
    <3>2. UNCHANGED <<snapshot, expires>>
      BY <3>1, CallMoney DEF Record, ActCommit, Abandon, RuntimeCommit, PasswordCommit, ReinstallCommit,
         UpgradeNotRecorded, UpgradeRevert, TransferCommit, CancelCommit, money
    <3> QED BY <2>2, <3>2 DEF CurrentInv, Current, Moves
  <2> QED BY <1>1, <2>1, <2>2
<1> QED BY <1>2, <1>3 DEF CurrentInv

LEMMA StepCurrentInv ==
  TypeInv /\ ServicesApart /\ CurrentInv /\ [Next]_vars => CurrentInv'
<1> SUFFICES ASSUME TypeInv, ServicesApart, CurrentInv, [Next]_vars PROVE CurrentInv'
  OBVIOUS
<1>1. ASSUME NEW r \in Requests, NEW s \in Services, Load(r, s)
      PROVE  CurrentInv'
  <2>1. PICK new \in Request : Begin(r, new) /\ Current(new)
    BY <1>1, LoadCurrent
  <2>2. req' = [req EXCEPT ![r] = new] /\ UNCHANGED <<snapshot, expires>>
    BY <2>1 DEF Begin, money
  <2>3. req'[r] = new /\ \A q \in Requests \ {r} : req'[q] = req[q]
    BY <2>2 DEF TypeInv, TypeOK
  <2> QED BY <2>1, <2>2, <2>3 DEF CurrentInv, Current
<1>2. CASE NoRequest \/ UNCHANGED vars
  BY <1>2 DEF NoRequest, Tick, UpdatePackage, vars, money, CurrentInv, Current
<1> QED BY <1>1, <1>2, StepCurrent DEF Next, NoRequest

\* When no two requests are at work on the same service, a terminated service
\* stays terminated: TerminatedForGood without its exception.
THEOREM TerminatedIfApart ==
  Spec /\ []ServicesApart =>
    [][\A s \in Services : status[s] = "terminated" => status'[s] = "terminated"]_vars
<1>1. Init => CurrentInv
  BY IdleCurrent DEF Init, CurrentInv, Current, Idle
<1>2. TypeInv /\ RequestInv /\ CurrentInv /\ [Next]_vars =>
        [\A s \in Services : status[s] = "terminated" => status'[s] = "terminated"]_vars
  BY StepTerminated DEF CurrentInv, Current
<1> QED BY <1>1, <1>2, InitTypeInv, StepTypeInv, InitRequestInv, StepRequestInv,
           StepCurrentInv, PTL DEF Spec

\* The package of every service, as its row is now, costs no less per day than
\* what a refund of the service goes by.
NoneCheaper ==
  \A s \in Services :
    Price[snapshot[s]] * Days[CurrentRow(s)] <= Price[CurrentRow(s)] * cycle[s]

\* No service is mixed, nor will a renewal make it so.
SteadyInv ==
  /\ \A s \in Services : ~mixed[s]
  /\ \A r \in Requests : req[r].op = "renew" =>
       Price[req[r].pkg] * Days[req[r].target] <= Price[req[r].target] * cycle[Svc(r)]

LEMMA LoadSteady ==
  ASSUME TypeInv, NoneCheaper, SteadyInv, NEW r \in Requests, NEW s \in Services, Load(r, s)
  PROVE  SteadyInv'
<1>1. ASSUME NEW new \in Request, Begin(r, new), new.op = "renew" =>
               /\ new.service = s /\ new.pkg = snapshot[s] /\ new.target = CurrentRow(s)
      PROVE  SteadyInv'
  <2>1. /\ req'[r] = new /\ \A q \in Requests \ {r} : req'[q] = req[q]
        /\ mixed' = mixed /\ cycle' = cycle
    BY <1>1 DEF Begin, TypeInv, TypeOK, money
  <2>2. ASSUME new.op = "renew"
        PROVE  Price[new.pkg] * Days[new.target] <= Price[new.target] * cycle[new.service]
    BY <1>1, <2>2 DEF NoneCheaper
  <2> QED BY <2>1, <2>2 DEF SteadyInv, Svc
<1>2. ASSUME NEW action \in Runtime, RuntimeLoad(r, s, action) \/ ActLoad(r, s, action)
      PROVE  SteadyInv'
  <2>1. PICK new \in Request : Begin(r, new) /\ new.op = action
    BY <1>2, RuntimeLoads
  <2> QED BY <1>1, <2>1 DEF Runtime
<1>3. ASSUME NEW u \in Users, TransferLoad(r, s, u)
      PROVE  SteadyInv'
  BY <1>1, <1>3, TransferLoads
<1>4. CASE PasswordLoad(r, s)
  BY <1>1, <1>4, PasswordLoads
<1>5. CASE ReinstallLoad(r, s)
  BY <1>1, <1>5, ReinstallLoads
<1>6. CASE CancelLoad(r, s)
  <2>1. PICK new \in Request : Begin(r, new) /\ new.op = "cancel"
    BY <1>6, CancelLoads
  <2> QED BY <1>1, <2>1
<1>7. CASE RenewLoad(r, s)
  <2>1. PICK new \in Request : /\ Begin(r, new) /\ new.service = s
                               /\ new.pkg = snapshot[s] /\ new.target = CurrentRow(s)
    BY <1>7, RenewLoads
  <2> QED BY <1>1, <2>1
<1>8. ASSUME NEW p \in Packages, UpgradeLoad(r, s, p)
      PROVE  SteadyInv'
  <2>1. PICK new \in Request : Begin(r, new) /\ new.op = "upgrade"
    BY <1>8, UpgradeLoads
  <2> QED BY <1>1, <2>1
<1> QED BY <1>2, <1>3, <1>4, <1>5, <1>6, <1>7, <1>8 DEF Load, Runtime

\* A renewal that is not for less, and an upgrade, mix nothing.
LEMMA CommitSteady ==
  ASSUME TypeInv, CurrentInv, SteadyInv, NEW r \in Requests, Record(r) \/ Abandon(r)
  PROVE  cycle' = cycle /\ \A s \in Services : ~mixed'[s]
<1>1. CASE RenewCommit(r)
  <2>1. /\ WellFormed(req[r]) /\ Current(req[r])
        /\ req[r].op = "renew" /\ req[r].step = "commit"
    BY <1>1 DEF TypeInv, CurrentInv, RenewCommit
  <2>2. /\ req[r].pkg \in Versions /\ req[r].target \in Versions
        /\ Svc(r) \in Services /\ req[r].pkg = snapshot[Svc(r)]
    BY <2>1 DEF WellFormed, Current, Svc
  <2>3. ~(Price[req[r].target] * cycle[Svc(r)] < Price[req[r].pkg] * Days[req[r].target])
    <3> DEFINE a == Price[req[r].pkg] * Days[req[r].target]
               b == Price[req[r].target] * cycle[Svc(r)]
    <3>1. /\ Price[req[r].pkg] \in Nat /\ Days[req[r].target] \in Nat
          /\ Price[req[r].target] \in Nat /\ cycle[Svc(r)] \in Nat
      BY <2>2, LifecycleAssumption DEF TypeInv, TypeOK
    <3>2. a \in Nat /\ b \in Nat /\ a <= b
      BY <2>1, <3>1 DEF SteadyInv
    <3> HIDE DEF a, b
    <3>3. ~(b < a)
      BY <3>2
    <3> QED BY <3>3 DEF a, b
  <2>4. cycle' = cycle /\ \A s \in Services : mixed'[s] = mixed[s]
    BY <1>1, <2>2, <2>3 DEF RenewCommit, SteadyInv, TypeInv, TypeOK
  <2> QED BY <2>4 DEF SteadyInv
<1>2. CASE UpgradeCommit(r)
  <2>1. /\ WellFormed(req[r]) /\ Current(req[r])
        /\ req[r].op = "upgrade" /\ req[r].step = "commit"
    BY <1>2 DEF TypeInv, CurrentInv, UpgradeCommit
  <2>2. Svc(r) \in Services /\ req[r].until = expires[Svc(r)]
    BY <2>1 DEF WellFormed, Current, Svc
  <2>3. cycle' = cycle /\ \A s \in Services : mixed'[s] = mixed[s]
    BY <1>2, <2>2 DEF UpgradeCommit, SteadyInv, TypeInv, TypeOK
  <2> QED BY <2>3 DEF SteadyInv
<1>3. CASE ~RenewCommit(r) /\ ~UpgradeCommit(r)
  BY <1>3 DEF Record, ActCommit, Abandon, RuntimeCommit, PasswordCommit, ReinstallCommit,
     UpgradeNotRecorded, UpgradeRevert, TransferCommit, CancelCommit, money, SteadyInv
<1> QED BY <1>1, <1>2, <1>3

LEMMA StepSteadyInv ==
  ASSUME TypeInv, CurrentInv, NoneCheaper, SteadyInv, [Next]_vars
  PROVE  SteadyInv'
<1>1. ASSUME NEW r \in Requests, Call(r) \/ Record(r) \/ Abandon(r)
      PROVE  SteadyInv'
  <2>1. cycle' = cycle /\ \A s \in Services : ~mixed'[s]
    BY <1>1, CallMoney, CommitSteady DEF money, SteadyInv
  <2>2. OthersKept(r)
    BY <1>1, CallRequests
  <2>3. req'[r] = Idle \/ \E step, changed, late : Moves(r, step, changed, late)
    BY <1>1, CallMoves
  <2>4. ASSUME NEW q \in Requests, req'[q].op = "renew"
        PROVE  /\ req[q].op = "renew" /\ req'[q].pkg = req[q].pkg
               /\ req'[q].target = req[q].target /\ req'[q].service = req[q].service
    BY <2>2, <2>3, <2>4 DEF OthersKept, Kept, Moves, Idle
  <2>5. ASSUME NEW q \in Requests, req'[q].op = "renew"
        PROVE  Price[req'[q].pkg] * Days[req'[q].target]
                 <= Price[req'[q].target] * cycle'[req'[q].service]
    BY <2>1, <2>4, <2>5 DEF SteadyInv, Svc
  <2> QED BY <2>1, <2>5 DEF SteadyInv, Svc
<1>2. CASE NoRequest \/ UNCHANGED vars
  BY <1>2 DEF NoRequest, Tick, UpdatePackage, vars, money, SteadyInv, Svc
<1> QED BY <1>1, <1>2, LoadSteady DEF Next, NoRequest

\* When no two requests are at work on the same service, and while no package
\* costs less per day than a service of it was bought for, no refund exceeds what
\* was paid, whatever is renewed, upgraded and cancelled: RefundAtMostPaid
\* without its proviso.  A package that has become cheaper is what is left of it:
\* then a renewal at the new price is refunded at the old one.
THEOREM NoRefundBeyondPaymentIfApart ==
  Spec /\ []ServicesApart /\ []NoneCheaper =>
    [](\A s \in Services : refunded[s] <= cost[s] + upgrades[s])
<1>1. Init => CurrentInv
  BY IdleCurrent DEF Init, CurrentInv, Current, Idle
<1>2. Init => SteadyInv
  BY DEF Init, SteadyInv, Idle
<1>3. RefundAtMostPaid /\ SteadyInv => \A s \in Services : refunded[s] <= cost[s] + upgrades[s]
  BY DEF RefundAtMostPaid, SteadyInv
<1>4. TypeInv /\ CurrentInv /\ NoneCheaper /\ SteadyInv /\ [Next]_vars => SteadyInv'
  BY StepSteadyInv
<1> QED BY <1>1, <1>2, <1>3, <1>4, InitTypeInv, StepTypeInv, NoRefundBeyondPayment,
           StepCurrentInv, PTL DEF Spec

\* What a service may be upgraded to.
Above(p, q) == IsEligibleUpgrade(Has[p], Price[p], Has[q], Price[q])

UpgradesUp ==
  \A r \in Requests : req[r].op = "upgrade" => Above(req[r].pkg, req[r].target)

LEMMA LoadUpgradesUp ==
  ASSUME TypeInv, UpgradesUp, NEW r \in Requests, NEW s \in Services, Load(r, s)
  PROVE  UpgradesUp'
<1>1. ASSUME NEW new \in Request, Begin(r, new),
             new.op = "upgrade" => Above(new.pkg, new.target)
      PROVE  UpgradesUp'
  <2>1. req'[r] = new /\ \A q \in Requests \ {r} : req'[q] = req[q]
    BY <1>1 DEF Begin, TypeInv, TypeOK
  <2> QED BY <1>1, <2>1 DEF UpgradesUp, Above
<1>2. ASSUME NEW action \in Runtime, RuntimeLoad(r, s, action) \/ ActLoad(r, s, action)
      PROVE  UpgradesUp'
  BY <1>1, <1>2, RuntimeLoads DEF Runtime
<1>3. ASSUME NEW u \in Users, TransferLoad(r, s, u)
      PROVE  UpgradesUp'
  BY <1>1, <1>3, TransferLoads
<1>4. CASE PasswordLoad(r, s)
  BY <1>1, <1>4, PasswordLoads
<1>5. CASE ReinstallLoad(r, s)
  BY <1>1, <1>5, ReinstallLoads
<1>6. CASE CancelLoad(r, s)
  BY <1>1, <1>6, CancelLoads
<1>7. CASE RenewLoad(r, s)
  <2>1. PICK new \in Request : Begin(r, new) /\ new.op = "renew"
    BY <1>7, RenewLoads
  <2> QED BY <1>1, <2>1
<1>8. ASSUME NEW p \in Packages, UpgradeLoad(r, s, p)
      PROVE  UpgradesUp'
  <2>1. PICK new \in Request :
          Begin(r, new) /\ new.pkg = snapshot[s] /\ new.target = version[p]
    BY <1>8, UpgradeLoads
  <2>2. Above(snapshot[s], version[p])
    BY <1>8 DEF UpgradeLoad, Above
  <2> QED BY <1>1, <2>1, <2>2
<1> QED BY <1>2, <1>3, <1>4, <1>5, <1>6, <1>7, <1>8 DEF Load, Runtime

LEMMA StepUpgradesUp == TypeInv /\ UpgradesUp /\ [Next]_vars => UpgradesUp'
<1> SUFFICES ASSUME TypeInv, UpgradesUp, [Next]_vars PROVE UpgradesUp'
  OBVIOUS
<1>1. ASSUME NEW r \in Requests, Call(r) \/ Record(r) \/ Abandon(r)
      PROVE  UpgradesUp'
  <2>1. OthersKept(r)
    BY <1>1, CallRequests
  <2>2. req'[r] = Idle \/ \E step, changed, late : Moves(r, step, changed, late)
    BY <1>1, CallMoves
  <2>3. req'[r].op = "upgrade" =>
          /\ req[r].op = "upgrade"
          /\ req'[r].pkg = req[r].pkg /\ req'[r].target = req[r].target
    BY <2>2 DEF Moves, Idle
  <2> QED BY <2>1, <2>3 DEF OthersKept, Kept, UpgradesUp, Above
<1>2. CASE NoRequest \/ UNCHANGED vars
  BY <1>2 DEF NoRequest, Tick, UpdatePackage, vars, UpgradesUp, Above
<1> QED BY <1>1, <1>2, LoadUpgradesUp DEF Next, NoRequest

\* When no two requests are at work on the same service, its package changes
\* only to one at least as large in everything and dearer than the package it
\* replaces: without that, of two upgrades the one recorded last wins, whatever
\* the other has sold meanwhile.
THEOREM UpgradedOnlyUpIfApart ==
  Spec /\ []ServicesApart =>
    [][\A s \in Services : snapshot'[s] # snapshot[s] => Above(snapshot[s], snapshot'[s])]_vars
<1>1. Init => CurrentInv /\ UpgradesUp
  BY IdleCurrent DEF Init, CurrentInv, Current, UpgradesUp, Idle
<1>2. ASSUME TypeInv, CurrentInv, UpgradesUp, Next,
             NEW s \in Services, snapshot'[s] # snapshot[s]
      PROVE  Above(snapshot[s], snapshot'[s])
  <2>1. PICK r \in Requests : UpgradeCommit(r)
    <3>1. ASSUME NEW r \in Requests, Record(r) \/ Abandon(r), ~UpgradeCommit(r)
          PROVE  snapshot' = snapshot
      BY <3>1 DEF Record, ActCommit, Abandon, RuntimeCommit, PasswordCommit, ReinstallCommit, RenewCommit,
         UpgradeNotRecorded, UpgradeRevert, TransferCommit, CancelCommit, money
    <3>2. UNCHANGED money \/ NoRequest => snapshot' = snapshot
      BY DEF money, NoRequest, Tick, UpdatePackage
    <3> QED BY <1>2, <3>1, <3>2, CallMoney, LoadRequests DEF Next, NoRequest
  <2>2. /\ req[r].op = "upgrade" /\ Current(req[r])
        /\ snapshot' = [snapshot EXCEPT ![Svc(r)] = req[r].target]
    BY <1>2, <2>1 DEF UpgradeCommit, CurrentInv
  <2>3. s = Svc(r) /\ snapshot'[s] = req[r].target /\ snapshot[s] = req[r].pkg
    BY <1>2, <2>2 DEF Current, Svc, TypeInv, TypeOK
  <2> QED BY <1>2, <2>2, <2>3 DEF UpgradesUp
<1>3. TypeInv /\ CurrentInv /\ UpgradesUp /\ [Next]_vars =>
        [\A s \in Services : snapshot'[s] # snapshot[s] => Above(snapshot[s], snapshot'[s])]_vars
  BY <1>2
<1> QED BY <1>1, <1>3, InitTypeInv, StepTypeInv, StepCurrentInv, StepUpgradesUp, PTL DEF Spec

\* When no two requests are at work on the same service, its expiry changes
\* only by as many days or more as the price says that was paid with it, both of
\* one version of the row of its package; and what was paid for it changes only
\* with such an expiry or with an upgrade of its package: no renewal is lost to
\* another one that had loaded the same expiry, and none is charged by one
\* version and lasts by another.
THEOREM PaidIsDeliveredIfApart ==
  Spec /\ []ServicesApart =>
    [][\A s \in Services :
         /\ expires'[s] # expires[s] =>
              \E v \in Versions :
                /\ PackageOf[v] = PackageOf[snapshot[s]]
                /\ expires'[s] >= expires[s] + Days[v]
                /\ cost'[s] = cost[s] + Price[v]
         /\ cost'[s] # cost[s] =>
              expires'[s] # expires[s] \/ Above(snapshot[s], snapshot'[s])]_vars
<1>1. Init => CurrentInv /\ UpgradesUp
  BY IdleCurrent DEF Init, CurrentInv, Current, UpgradesUp, Idle
<1> DEFINE Delivered(s) ==
      /\ expires'[s] # expires[s] =>
           \E v \in Versions :
             /\ PackageOf[v] = PackageOf[snapshot[s]]
             /\ expires'[s] >= expires[s] + Days[v]
             /\ cost'[s] = cost[s] + Price[v]
      /\ cost'[s] # cost[s] =>
           expires'[s] # expires[s] \/ Above(snapshot[s], snapshot'[s])
<1>2. ASSUME TypeInv, CurrentInv, UpgradesUp, Next, NEW s \in Services
      PROVE  Delivered(s)
  <2>1. ASSUME UNCHANGED <<expires, cost>>
        PROVE  Delivered(s)
    BY <2>1
  <2>2. ASSUME NEW r \in Requests, RenewCommit(r)
        PROVE  Delivered(s)
    <3>1. /\ Current(req[r]) /\ WellFormed(req[r])
          /\ req[r].op = "renew" /\ req[r].step = "commit"
      BY <1>2, <2>2 DEF RenewCommit, CurrentInv, TypeInv
    <3> DEFINE v == req[r].target
    <3>2. /\ v \in Versions /\ PackageOf[v] = PackageOf[snapshot[Svc(r)]]
          /\ req[r].amount = Price[v]
          /\ req[r].until >= expires[Svc(r)] + Days[v]
          /\ Svc(r) \in Services
      BY <3>1 DEF Current, WellFormed, Svc
    <3>3. /\ expires \in [Services -> Nat] /\ cost \in [Services -> Nat]
          /\ snapshot \in [Services -> Versions]
      BY <1>2 DEF TypeInv, TypeOK
    <3>4. /\ expires' = [expires EXCEPT ![Svc(r)] = req[r].until]
          /\ cost' = [cost EXCEPT ![Svc(r)] = @ + req[r].amount]
      BY <2>2 DEF RenewCommit
    <3>5. Days[v] \in Nat \ {0} /\ expires[Svc(r)] \in Nat
      BY <3>2, <3>3, LifecycleAssumption
    <3>6. CASE s = Svc(r)
      <4>1. /\ expires'[s] = req[r].until
            /\ cost'[s] = cost[s] + req[r].amount
        BY <3>3, <3>4, <3>6
      <4>2. expires'[s] # expires[s]
        BY <3>2, <3>5, <3>6, <4>1, <1>2 DEF TypeInv, TypeOK
      <4> QED BY <3>2, <3>6, <4>1, <4>2
    <3>7. CASE s # Svc(r)
      BY <3>3, <3>4, <3>7
    <3> QED BY <3>6, <3>7
  <2>3. ASSUME NEW r \in Requests, UpgradeCommit(r)
        PROVE  Delivered(s)
    <3>1. req[r].op = "upgrade" /\ Current(req[r]) /\ expires' = expires
      BY <1>2, <2>3 DEF UpgradeCommit, CurrentInv
    <3>2. Above(snapshot[Svc(r)], req[r].target)
      BY <1>2, <3>1 DEF Current, Svc, UpgradesUp
    <3>3. /\ cost \in [Services -> Nat] /\ snapshot \in [Services -> Versions]
          /\ snapshot' = [snapshot EXCEPT ![Svc(r)] = req[r].target]
          /\ cost' = [cost EXCEPT ![Svc(r)] = @ + req[r].amount]
      BY <1>2, <2>3 DEF UpgradeCommit, TypeInv, TypeOK
    <3>4. CASE s = Svc(r)
      <4>1. snapshot'[s] = req[r].target
        BY <3>3, <3>4
      <4> QED BY <3>1, <3>2, <3>4, <4>1
    <3>5. CASE s # Svc(r)
      BY <3>1, <3>3, <3>5
    <3> QED BY <3>4, <3>5
  <2>4. ASSUME NEW r \in Requests, Record(r) \/ Abandon(r), ~RenewCommit(r), ~UpgradeCommit(r)
        PROVE  UNCHANGED <<expires, cost>>
    BY <2>4 DEF Record, ActCommit, Abandon, RuntimeCommit, PasswordCommit, ReinstallCommit,
       UpgradeNotRecorded, UpgradeRevert, TransferCommit, CancelCommit, money
  <2>5. UNCHANGED money \/ NoRequest => UNCHANGED <<expires, cost>>
    BY DEF money, NoRequest, Tick, UpdatePackage
  <2> HIDE DEF Delivered
  <2> QED BY <1>2, <2>1, <2>2, <2>3, <2>4, <2>5, CallMoney, LoadRequests DEF Next, NoRequest
<1>3. TypeInv /\ CurrentInv /\ UpgradesUp /\ [Next]_vars => [\A s \in Services : Delivered(s)]_vars
  BY <1>2
<1> QED BY <1>1, <1>3, InitTypeInv, StepTypeInv, StepCurrentInv, StepUpgradesUp, PTL DEF Spec
=============================================================================
