------------------------------ MODULE Lifecycle ------------------------------
(***************************************************************************)
(* A service after its purchase: started, stopped and restarted, given a   *)
(* new password, reinstalled, renewed, upgraded, transferred, cancelled,   *)
(* by its owner; and started, stopped and suspended by an administrator.   *)
(*                                                                         *)
(* Every handler loads the service, calls Incus, waits, and records the    *)
(* outcome in a transaction that writes what the handler knows, whatever   *)
(* the rows are by then.  The check for conflicting jobs refuses nothing:  *)
(* jobs are only inserted when they are over.  So handlers overlap freely, *)
(* and a handler that fails between Incus and the database leaves them     *)
(* different.                                                              *)
(*                                                                         *)
(* An administrator changes a package at any time.  A service keeps the    *)
(* contents it was bought with, which an upgrade and a refund go by; a     *)
(* renewal charges, and lasts, what the package's row says by then.        *)
(*                                                                         *)
(* Only the handlers change an instance.  What the wallet loses or         *)
(* receives is in module Wallet; here, only what a service has cost.       *)
(***************************************************************************)
EXTENDS Billing, FiniteSets

CONSTANTS Services, Users, Packages,
          Versions,          \* the contents a row of packages may have
          PackageOf,         \* its id,
          Price, Days, Has,  \* price, duration_days, resources,
          Offered,           \* the versions with is_active
          NoService, Nobody, NoVersion,
          Requests,          \* HTTP requests being served
          MaxFaults,         \* bound: crashes, failed calls and transactions
          MaxTime,           \* bound: units of time
          MaxExpiry          \* bound: how far a renewal may extend a service

Resources == {"cpu", "ram", "disk"}
Power == "power"
Password == "password"
Limits == "limits"

\* What an Incus call may change.
Aspects == {Power, Password, Limits}

ASSUME LifecycleAssumption ==
  /\ NoService \notin Services /\ Nobody \notin Users /\ NoVersion \notin Versions
  /\ PackageOf \in [Versions -> Packages] /\ Offered \subseteq Versions
  /\ Price \in [Versions -> Nat]
  /\ Days \in [Versions -> Nat \ {0}]
  /\ Has \in [Versions -> [Resources -> Nat]]
  /\ MaxFaults \in Nat /\ MaxTime \in Nat /\ MaxExpiry \in Nat

VARIABLES
  owner, status,   \* services: owner_user_id, status
  expires,         \* services: expires_at
  snapshot,        \* services: current_package_id and the snapshots of its row
  cycle,           \* services: billing_cycle_days
  instance,        \* service_instances: status
  incus,           \* the instance in Incus: "running", "stopped", "gone"
  limits,          \* the version whose resources it has
  told,            \* is the last password shown to the customer its password?
  cost,            \* paid for the service so far
  upgrades,        \* upgrades paid
  refunded,        \* refunded so far
  spoilt,          \* history: aspects that a request changed in Incus and did
                   \* not record, or recorded after another one changed them
  mixed,           \* history: was the service renewed while an upgrade replaced
                   \* its snapshots, or for less per day than these say, or
                   \* upgraded while a renewal replaced its expiry?
  version,         \* packages: the contents of each row
  now, faults,
  req              \* each request: see Idle

money == <<expires, snapshot, cycle, cost, upgrades, refunded, mixed>>
actual == <<incus, limits>>
rows == <<owner, status, instance>>
outside == <<version, now>>   \* what no request of a customer changes
vars == <<rows, money, actual, told, spoilt, outside, faults, req>>

Idle == [op |-> "none", step |-> "idle", service |-> NoService, to |-> Nobody,
         pkg |-> NoVersion,     \* the snapshots it has loaded
         target |-> NoVersion,  \* the row it has loaded of the package to pay
         until |-> 0,
         amount |-> 0,    \* it charges or refunds
         changed |-> {},  \* aspects it has changed in Incus
         late |-> {}]     \* those of them that another request changed since

Ops == {"none", "start", "stop", "restart", "password", "reinstall", "renew",
        "upgrade", "transfer", "cancel"}
Steps == {"idle", "change", "stop", "rebuild", "start", "exec", "delete",
          "commit", "revert"}

Answer(r) == req' = [req EXCEPT ![r] = Idle]

Fault == faults < MaxFaults /\ faults' = faults + 1

Svc(r) == req[r].service

\* r has changed the aspects A in Incus: those another request had changed of
\* the same service and not recorded are late.  r goes on to step.
Changed(r, A, step) ==
  req' = [q \in Requests |->
            IF q = r
              THEN [req[r] EXCEPT !.step = step, !.changed = @ \union A,
                                  !.late = @ \ A]
              ELSE IF Svc(q) = Svc(r)
                     THEN [req[q] EXCEPT !.late = @ \union (req[q].changed \cap A)]
                     ELSE req[q]]

\* r has recorded what it changed.
Recorded(r) ==
  spoilt' = [spoilt EXCEPT ![Svc(r)] = (@ \ req[r].changed) \union req[r].late]

\* r stops before that.
Spoilt(r) == spoilt' = [spoilt EXCEPT ![Svc(r)] = @ \union req[r].changed]

Go(r, step) == req' = [req EXCEPT ![r].step = step]

\* What the rows may hold.
Rows == {v \in [Packages -> Versions] : \A p \in Packages : PackageOf[v[p]] = p}

\* persistPurchaseSuccess, just over.  The order was for a package with
\* is_active, whose row may have changed since.
Init ==
  /\ owner \in [Services -> Users]
  /\ snapshot \in [Services -> Offered]
  /\ version \in Rows
  /\ cycle = [s \in Services |-> Days[snapshot[s]]]
  /\ expires = cycle
  /\ cost = [s \in Services |-> Price[snapshot[s]]]
  /\ limits = snapshot
  /\ status = [s \in Services |-> "active"]
  /\ instance = [s \in Services |-> "running"]
  /\ incus = instance
  /\ told = [s \in Services |-> TRUE]
  /\ upgrades = [s \in Services |-> 0]
  /\ refunded = [s \in Services |-> 0]
  /\ spoilt = [s \in Services |-> {}]
  /\ mixed = [s \in Services |-> FALSE]
  /\ now = 0 /\ faults = 0
  /\ req = [r \in Requests |-> Idle]

(***************************************************************************)
(* Loading: loadManagedService, and the conditions of each handler         *)
(***************************************************************************)

\* ensureServiceOperable; "suspended" is never written.
Operable(s) == status[s] \in {"active", "stopped"}

Begin(r, new) ==
  /\ req[r].step = "idle"
  /\ req' = [req EXCEPT ![r] = new]
  /\ UNCHANGED <<rows, money, actual, told, spoilt, outside, faults>>

\* A request for s with what it has loaded.
Loaded(s, op, step) == [Idle EXCEPT !.op = op, !.step = step, !.service = s]

\* RuntimeAction.
RuntimeLoad(r, s, action) ==
  /\ Operable(s)
  /\ Begin(r, Loaded(s, action, "change"))

\* Act: of any service, whatever its status.
ActLoad(r, s, action) ==
  /\ action # "restart"
  /\ Begin(r, Loaded(s, action, "change"))

\* ChangePassword and ResetSSH look at the instance's row only.
PasswordLoad(r, s) ==
  /\ instance[s] = "running"
  /\ Begin(r, Loaded(s, "password", "exec"))

\* ReinstallSubmit, of a service with any status.
ReinstallLoad(r, s) ==
  Begin(r, Loaded(s, "reinstall",
                  IF instance[s] = "stopped" THEN "rebuild" ELSE "stop"))

\* The row of the package of a service.
CurrentRow(s) == version[PackageOf[snapshot[s]]]

\* RenewSubmit with the wallet.
RenewLoad(r, s) ==
  LET v == CurrentRow(s)
      until == ExtendExpiry(expires[s], now, Days[v])
  IN
  /\ Operable(s)
  /\ until <= MaxExpiry
  /\ Begin(r, [Loaded(s, "renew", "commit") EXCEPT !.pkg = snapshot[s],
                 !.target = v, !.amount = Price[v], !.until = until])

\* UpgradeSubmit with the wallet, to package p.
UpgradeLoad(r, s, p) ==
  LET had == snapshot[s]
      target == version[p]
  IN
  /\ target \in Offered
  /\ IsEligibleUpgrade(Has[had], Price[had], Has[target], Price[target])
  /\ \E c \in ProratedUpgradeCost(Price[had], Price[target],
                RemainingDuration(expires[s], now), cycle[s]) :
       /\ c > 0
       /\ Begin(r, [Loaded(s, "upgrade", "change") EXCEPT
                      !.pkg = had, !.until = expires[s],
                      !.target = target, !.amount = c])

\* TransferSubmit.
TransferLoad(r, s, u) ==
  /\ owner[s] # u
  /\ Begin(r, [Loaded(s, "transfer", "commit") EXCEPT !.to = u])

\* CancelSubmit, of a service with any status: the refund is settled here.
CancelLoad(r, s) ==
  \E c \in ProratedRefund(Price[snapshot[s]],
             RemainingDuration(expires[s], now), cycle[s]) :
    Begin(r, [Loaded(s, "cancel", "stop") EXCEPT !.amount = c])

(***************************************************************************)
(* Incus                                                                   *)
(***************************************************************************)

\* What Incus makes of a running or stopped instance; it refuses the rest.
Accepts(state, action) ==
  IF action = "start" THEN state = "stopped" ELSE state = "running"

SetPower(r, action, step) ==
  /\ Accepts(incus[Svc(r)], action)
  /\ incus' = [incus EXCEPT ![Svc(r)] =
                 IF action = "stop" THEN "stopped" ELSE "running"]
  /\ Changed(r, {Power}, step)
  /\ UNCHANGED <<rows, money, limits, told, spoilt, outside, faults>>

\* Mistake: the error of the operation is ignored.
ChangeStateUnchecked(r) ==
  /\ req[r].op \in {"start", "stop", "restart"} /\ req[r].step = "change"
  /\ \/ SetPower(r, req[r].op, "commit")
     \/ /\ ~Accepts(incus[Svc(r)], req[r].op)
        /\ Go(r, "commit")
        /\ UNCHANGED <<rows, money, actual, told, spoilt, outside, faults>>

\* ChangeState.
ChangeState(r) ==
  /\ req[r].op \in {"start", "stop", "restart"} /\ req[r].step = "change"
  /\ SetPower(r, req[r].op, "commit")

\* A reinstallation stops the instance first, unless its row says it is.
ReinstallStop(r) ==
  /\ req[r].op = "reinstall" /\ req[r].step = "stop"
  /\ SetPower(r, "stop", "rebuild")

\* Reinstall: Incus rebuilds stopped instances only.
ReinstallRebuild(r) ==
  /\ req[r].step = "rebuild"
  /\ incus[Svc(r)] = "stopped"
  /\ told' = [told EXCEPT ![Svc(r)] = FALSE]
  /\ Changed(r, {Password}, "start")
  /\ UNCHANGED <<rows, money, actual, spoilt, outside, faults>>

\* That the start fails is only logged.
ReinstallStart(r) ==
  /\ req[r].step = "start"
  /\ \/ SetPower(r, "start", "exec")
     \/ /\ \/ ~Accepts(incus[Svc(r)], "start") /\ UNCHANGED faults
           \/ Fault
        /\ Go(r, "exec")
        /\ UNCHANGED <<rows, money, actual, told, spoilt, outside>>

\* ChangePassword, ResetSSH: needs a running instance, so that a reinstallation
\* knows here that its instance runs.
Exec(r) ==
  LET A == IF req[r].op = "reinstall" THEN {Power} ELSE {} IN
  /\ req[r].step = "exec"
  /\ incus[Svc(r)] = "running"
  /\ told' = [told EXCEPT ![Svc(r)] = FALSE]
  /\ req' = [q \in Requests |->
       IF q = r
         THEN [req[r] EXCEPT !.step = "commit",
                 !.changed = @ \union A \union {Password},
                 !.late = @ \ (A \union {Password})]
         ELSE IF Svc(q) = Svc(r)
                THEN [req[q] EXCEPT !.late = @ \union (req[q].changed \cap {Password})]
                ELSE req[q]]
  /\ UNCHANGED <<rows, money, actual, spoilt, outside, faults>>

\* ApplyResourceLimits.
ApplyResourceLimits(r) ==
  /\ req[r].op = "upgrade" /\ req[r].step = "change"
  /\ incus[Svc(r)] # "gone"
  /\ limits' = [limits EXCEPT ![Svc(r)] = req[r].target]
  /\ Changed(r, {Limits}, "commit")
  /\ UNCHANGED <<rows, money, incus, told, spoilt, outside, faults>>

\* deleteInstanceWithStopIfNeeded: stop, if GetInstance says it is running.
CancelStop(r) ==
  /\ req[r].op = "cancel" /\ req[r].step = "stop"
  /\ \/ SetPower(r, "stop", "delete")
     \/ /\ incus[Svc(r)] = "stopped"
        /\ Go(r, "delete")
        /\ UNCHANGED <<rows, money, actual, told, spoilt, outside, faults>>

\* Mistake: an instance that is not there counts as deleted.
CancelDeleteIdempotent(r) ==
  /\ req[r].step \in {"stop", "delete"} /\ req[r].op = "cancel"
  /\ \/ req[r].step = "delete" /\ incus[Svc(r)] = "stopped"
     \/ incus[Svc(r)] = "gone"
  /\ incus' = [incus EXCEPT ![Svc(r)] = "gone"]
  /\ Changed(r, Aspects, "commit")
  /\ UNCHANGED <<rows, money, limits, told, spoilt, outside, faults>>

\* And delete.
CancelDelete(r) ==
  /\ req[r].step = "delete"
  /\ incus[Svc(r)] = "stopped"
  /\ incus' = [incus EXCEPT ![Svc(r)] = "gone"]
  /\ Changed(r, Aspects, "commit")
  /\ UNCHANGED <<rows, money, limits, told, spoilt, outside, faults>>

\* A condition that does not hold, or a call Incus refuses: the error is
\* answered and nothing undone.  SaveFailedAction changes no status.
Refused(r) ==
  /\ req[r].step \notin {"idle", "commit", "start"}
  /\ Answer(r) /\ Spoilt(r)
  /\ UNCHANGED <<rows, money, actual, told, outside, faults>>

(***************************************************************************)
(* Recording                                                               *)
(***************************************************************************)

Statuses(r, st) ==
  /\ instance' = [instance EXCEPT ![Svc(r)] = st.instance]
  /\ status' = [status EXCEPT ![Svc(r)] = st.service]

\* The transaction of RuntimeAction.
RuntimeCommit(r) ==
  /\ req[r].op \in {"start", "stop", "restart"} /\ req[r].step = "commit"
  /\ Statuses(r, RuntimeStatuses(req[r].op))
  /\ Answer(r) /\ Recorded(r)
  /\ UNCHANGED <<owner, money, actual, told, outside, faults>>

\* The end of Act: by statusAfterAction, SaveActionResult writes what the
\* transaction of RuntimeAction does.
ActCommit(r) == req[r].op # "restart" /\ RuntimeCommit(r)

\* persistActionArtifacts, and the password is told.
PasswordCommit(r) ==
  /\ req[r].op = "password" /\ req[r].step = "commit"
  /\ told' = [told EXCEPT ![Svc(r)] = Password \notin req[r].late]
  /\ Answer(r) /\ Recorded(r)
  /\ UNCHANGED <<rows, money, actual, outside, faults>>

\* Mistake: the rows keep the statuses from before the reinstallation.
ReinstallCommitWithoutStatus(r) ==
  /\ req[r].op = "reinstall" /\ req[r].step = "commit"
  /\ told' = [told EXCEPT ![Svc(r)] = Password \notin req[r].late]
  /\ Answer(r) /\ Recorded(r)
  /\ UNCHANGED <<rows, money, actual, outside, faults>>

\* The transaction of ReinstallSubmit, and the password is told.
ReinstallCommit(r) ==
  /\ req[r].op = "reinstall" /\ req[r].step = "commit"
  /\ Statuses(r, RuntimeStatuses("start"))
  /\ told' = [told EXCEPT ![Svc(r)] = Password \notin req[r].late]
  /\ Answer(r) /\ Recorded(r)
  /\ UNCHANGED <<owner, money, actual, outside, faults>>

\* The transaction of RenewSubmit writes the expiry of its load, and leaves
\* billing_cycle_days alone.
RenewCommit(r) ==
  LET s == Svc(r) IN
  /\ req[r].op = "renew" /\ req[r].step = "commit"
  /\ expires' = [expires EXCEPT ![s] = req[r].until]
  /\ cost' = [cost EXCEPT ![s] = @ + req[r].amount]
  /\ mixed' = [mixed EXCEPT ![s] = @
       \/ req[r].pkg # snapshot[s]
       \/ Price[req[r].target] * cycle[s] < Price[req[r].pkg] * Days[req[r].target]]
  /\ Answer(r)
  /\ UNCHANGED <<rows, snapshot, cycle, upgrades, refunded, actual, told, spoilt,
                 outside, faults>>

\* The transaction of UpgradeSubmit.
UpgradeCommit(r) ==
  LET s == Svc(r) IN
  /\ req[r].op = "upgrade" /\ req[r].step = "commit"
  /\ snapshot' = [snapshot EXCEPT ![s] = req[r].target]
  /\ cost' = [cost EXCEPT ![s] = @ + req[r].amount]
  /\ upgrades' = [upgrades EXCEPT ![s] = @ + 1]
  /\ mixed' = [mixed EXCEPT ![s] = @ \/ req[r].until # expires[s]]
  /\ Answer(r) /\ Recorded(r)
  /\ UNCHANGED <<rows, expires, cycle, refunded, actual, told, outside, faults>>

\* It fails, and UpgradeSubmit is to revert the limits.
UpgradeNotRecorded(r) ==
  /\ req[r].op = "upgrade" /\ req[r].step = "commit"
  /\ Fault
  /\ Go(r, "revert")
  /\ UNCHANGED <<rows, money, actual, told, spoilt, outside>>

\* The limits become those loaded, which an upgrade recorded meanwhile has
\* superseded.
UpgradeRevert(r) ==
  LET s == Svc(r) IN
  /\ req[r].step = "revert"
  /\ incus[s] # "gone"
  /\ limits' = [limits EXCEPT ![s] = req[r].pkg]
  /\ req' = [q \in Requests |->
       IF q = r THEN Idle
       ELSE IF Svc(q) = s
              THEN [req[q] EXCEPT !.late = @ \union (req[q].changed \cap {Limits})]
              ELSE req[q]]
  /\ spoilt' = [spoilt EXCEPT ![s] =
       IF snapshot[s] = req[r].pkg THEN @ \ {Limits} ELSE @ \union {Limits}]
  /\ UNCHANGED <<rows, money, incus, told, outside, faults>>

\* The transaction of TransferSubmit.
TransferCommit(r) ==
  /\ req[r].op = "transfer" /\ req[r].step = "commit"
  /\ owner' = [owner EXCEPT ![Svc(r)] = req[r].to]
  /\ Answer(r)
  /\ UNCHANGED <<status, instance, money, actual, told, spoilt, outside, faults>>

\* The transaction of CancelSubmit.
CancelCommit(r) ==
  LET s == Svc(r) IN
  /\ req[r].op = "cancel" /\ req[r].step = "commit"
  /\ Statuses(r, [instance |-> "deleted", service |-> "terminated"])
  /\ refunded' = [refunded EXCEPT ![s] = @ + req[r].amount]
  /\ Answer(r) /\ Recorded(r)
  /\ UNCHANGED <<owner, expires, snapshot, cycle, cost, upgrades, mixed, actual,
                 told, outside, faults>>

\* A transaction that fails, a call that fails, a crash: nothing is undone,
\* except the limits by UpgradeRevert.  When a cancellation fails so after the
\* deletion, no later one succeeds: there is no instance to delete.
Abandon(r) ==
  /\ req[r].step # "idle"
  /\ Fault
  /\ Answer(r) /\ Spoilt(r)
  /\ UNCHANGED <<rows, money, actual, told, outside>>

Tick ==
  /\ now < MaxTime
  /\ now' = now + 1
  /\ UNCHANGED <<rows, money, actual, told, spoilt, version, faults, req>>

\* packages: Update, and Delete, which only clears is_active.
UpdatePackage(v) ==
  /\ version[PackageOf[v]] # v
  /\ version' = [version EXCEPT ![PackageOf[v]] = v]
  /\ UNCHANGED <<rows, money, actual, told, spoilt, now, faults, req>>

Load(r, s) ==
  \/ \E action \in {"start", "stop", "restart"} :
       RuntimeLoad(r, s, action) \/ ActLoad(r, s, action)
  \/ PasswordLoad(r, s) \/ ReinstallLoad(r, s) \/ RenewLoad(r, s) \/ CancelLoad(r, s)
  \/ \E p \in Packages : UpgradeLoad(r, s, p)
  \/ \E u \in Users : TransferLoad(r, s, u)

Call(r) ==
  \/ ChangeState(r) \/ Exec(r) \/ ApplyResourceLimits(r)
  \/ ReinstallStop(r) \/ ReinstallRebuild(r) \/ ReinstallStart(r)
  \/ CancelStop(r) \/ CancelDelete(r) \/ Refused(r)

Record(r) ==
  \/ RuntimeCommit(r) \/ ActCommit(r) \/ PasswordCommit(r) \/ ReinstallCommit(r)
  \/ RenewCommit(r) \/ UpgradeCommit(r) \/ UpgradeNotRecorded(r) \/ UpgradeRevert(r)
  \/ TransferCommit(r) \/ CancelCommit(r)

Next ==
  \/ \E r \in Requests, s \in Services : Load(r, s)
  \/ \E r \in Requests : Call(r) \/ Record(r) \/ Abandon(r)
  \/ \E v \in Versions : UpdatePackage(v)
  \/ Tick

Spec == Init /\ [][Next]_vars

-----------------------------------------------------------------------------
(***************************************************************************)
(* Properties                                                              *)
(***************************************************************************)

\* Every row, instance and request has the values the code can give it.
TypeOK ==
  /\ owner \in [Services -> Users]
  /\ status \in [Services -> {"active", "stopped", "terminated"}]
  /\ instance \in [Services -> {"running", "stopped", "deleted"}]
  /\ incus \in [Services -> {"running", "stopped", "gone"}]
  /\ snapshot \in [Services -> Versions] /\ limits \in [Services -> Versions]
  /\ version \in Rows
  /\ expires \in [Services -> Nat] /\ cycle \in [Services -> Nat \ {0}]
  /\ cost \in [Services -> Nat] /\ upgrades \in [Services -> Nat]
  /\ refunded \in [Services -> Nat]
  /\ told \in [Services -> BOOLEAN] /\ mixed \in [Services -> BOOLEAN]
  /\ spoilt \in [Services -> SUBSET Aspects]
  /\ now \in 0..MaxTime /\ faults \in 0..MaxFaults
  /\ req \in [Requests ->
       [op : Ops, step : Steps, service : Services \union {NoService},
        to : Users \union {Nobody}, pkg : Versions \union {NoVersion},
        target : Versions \union {NoVersion}, until : Nat, amount : Nat,
        changed : SUBSET Aspects, late : SUBSET Aspects]]

\* The rows, the limits bought and the password told are those of the instance,
\* except while a request that has changed it is still at work, and after one
\* that failed before it recorded what it had changed, or recorded it when
\* another one had changed the same: every other order of overlapping requests
\* leaves the two sides equal.
RowsAgree(s) ==
  CASE incus[s] = "running" -> instance[s] = "running" /\ status[s] = "active"
    [] incus[s] = "stopped" -> instance[s] = "stopped" /\ status[s] = "stopped"
    [] incus[s] = "gone" -> instance[s] = "deleted" /\ status[s] = "terminated"

Excused(s, aspect) ==
  \/ aspect \in spoilt[s]
  \/ \E r \in Requests : Svc(r) = s /\ aspect \in req[r].changed

AgreesUnlessSpoilt ==
  \A s \in Services :
    /\ Excused(s, Power) \/ RowsAgree(s)
    /\ Excused(s, Limits) \/ limits[s] = snapshot[s] \/ incus[s] = "gone"
    /\ Excused(s, Password) \/ told[s] \/ incus[s] = "gone"

\* A deleted instance stays deleted, and a service leaves "terminated" only by
\* a request that changed its instance before the cancellation deleted it and
\* records that afterwards; never by one that began later.
TerminatedForGood ==
  [][\A s \in Services :
       /\ incus[s] = "gone" => incus'[s] = "gone"
       /\ status[s] = "terminated" /\ status'[s] # "terminated" =>
            \E r \in Requests : Svc(r) = s /\ Power \in req[r].late]_vars

\* However renewals, upgrades, cancellations and changes of the packages
\* overlap, fail and are retried, the refunds of a service are at most what was
\* paid for it, but for the rounding of each upgrade; provided no renewal cost
\* less per day than the snapshots a refund goes by (the package had become
\* cheaper, or longer), no upgrade replaced these while a renewal was under way,
\* and no renewal the expiry that an upgrade was priced by.
RefundAtMostPaid ==
  \A s \in Services : mixed[s] \/ refunded[s] <= cost[s] + upgrades[s]
=============================================================================
