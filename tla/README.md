# Verification of vps-nat

vps-nat is the backend of a VPS shop run through a Telegram bot: customers top
up a wallet, buy a container on an Incus host, renew, upgrade, transfer and
cancel it; administrators watch and correct all of that through an HTTP API.
These TLA+ modules model the parts of it in which money, containers and public
ports can be lost or duplicated. TLC checks them on small instances, and the
theorems in the `...Proofs` modules are checked by TLAPS for every instance.

```
tlc -config MCWallet_concurrent.cfg MCWallet      # any run of PROJECT.json
tlapm WalletProofs.tla
```

`PROJECT.json` lists the components, the runs, the source lines of every
definition, the hazards, the findings, the theorems and, for each property, a
plausible mistake in the code that the property notices.

## 1. The system

The process is a Go HTTP server on PostgreSQL (gorm). Nothing in it locks,
apart from one `SELECT ... FOR UPDATE` in the administrator's wallet adjustment
(`adminops/service.go:386`), and no statement is conditional on the state it
was decided on: a handler reads rows outside any transaction, decides, calls
Incus, the payment provider or Caddy, and then writes absolute values `WHERE
id = ?` in one transaction. Handlers of different requests run concurrently. The
request's context reaches the database calls, so a caller that disconnects
makes the next transaction fail. Nothing runs at start-up to complete what a
crash interrupted, and nothing expires orders, top-ups or services.

| Component (source) | State | Operations | Interacts with | What makes it correct |
|---|---|---|---|---|
| Wallet and ledger (`telegram/purchase_service.go`, `action_billing.go`, `action_transfer_cancel.go`, `adminops/service.go`) | `wallets.balance`, `wallet_transactions`, `wallet_topups` | top-up, webhook, purchase debit and refund, renewal, upgrade, cancellation, adjustment | payment provider | balance = opening balance + ledger; each reason used once; never overdrawn |
| Purchase and provisioning (`purchase_service.go`, `purchase_provisioner_incus.go`, `repository_purchase.go`) | `orders`, `payments`, `services`, `service_instances`, `service_port_mappings`; instances and network forwards in Incus | submit, QRIS webhook, allocate ports, attempt, clean up, record success or failure | Incus, provider, wallet | a paid order is served or refunded once; a service has its instance and its ports; nothing is left behind |
| Public ports (`action_network.go`, `network_infra.go`) | port rows active and inactive, the forward of the public address | reconfigure, roll back | Incus, purchase | rows and rules agree; no port has two owners |
| Service lifecycle (`action_runtime.go`, `action_reinstall.go`, `action_billing.go`, `action_transfer_cancel.go`, `containers/`) | `services.status`, `service_instances.status`, snapshots of the package, owner | start, stop, restart, reinstall, passwords, upgrade, transfer, cancel, the administrator's actions | Incus, wallet | a terminated service stays terminated; status follows Incus; limits follow what was paid |
| Billing arithmetic (`telegram/service/billing.go`) | none | proration, expiry, eligibility | lifecycle | bounds and monotonicity |
| Domains (`action_network.go`, `network_infra.go`) | `service_domains`, Caddy's configuration | submit a domain | Caddy | active rows have a route, failed ones have none |
| Support (`support/`) | tickets, messages | create, reply, set status | | the closing time goes with the status closed; only UpdateStatus reopens, but for an overlap |
| Alert monitor (`adminops/alert_monitor.go`) | `resource_alerts`, samples in memory | a round of the loop | Incus, notifier | at most one open alert per service and type; an alert ends |
| Dashboard cache (`adminops/cache.go`) | snapshot and samples in memory | refresh, snapshot | Incus | not modelled (section 8) |
| Administrator sessions (`auth/`) | `admin_sessions` | login, authenticate, logout | support, all other administration | a session that is over admits nobody |
| Packages (`packages/`) | `packages`: price, duration, resources, `is_active` | create, update, withdraw | lifecycle, which reads the row | an edit changes nothing of what services were bought with |
| Users, listings, reports, HTTP layer, clients | single rows; none | CRUD, queries, decoding, I/O | | not modelled (section 8) |

What is hard here: reads made stale by another request before they are used
(wallet balance, expiry, status, free ports, packages); webhooks that are repeated,
overlap or arrive late; provisioning that takes minutes, in steps of which any
may fail, in up to three attempts under one name; external calls before or
after the transaction that records them; crashes between any two of those.
`hazards` in `PROJECT.json` has them one by one, each at its line.

## 2. Modules

| Module | Kind | Contents |
|---|---|---|
| `WalletLedger` | abstract specification | what a wallet promises |
| `Wallet` | detailed specification | the handlers that move money |
| `WalletProofs` | theorems | about `Wallet`, for all constants |
| `MCWallet` | instance for TLC | runs `wallet_*` |
| `PurchaseOutcome` | abstract specification | what an order promises |
| `Purchase` | detailed specification | submission, webhook, provisioner |
| `PurchaseProofs` | theorems | about `Purchase`, for all constants |
| `PurchaseOutcomeProofs` | theorems, extends `PurchaseProofs` | what becomes of an order: `Purchase` and `PurchaseOutcome` |
| `MCPurchase` | instance for TLC | runs `purchase_*` |
| `Ports` | detailed specification | reconfigurations beside the ports of purchases |
| `Billing` | operators | proration, expiry, eligibility, statuses |
| `Lifecycle` | detailed specification, extends `Billing` | what is done to a service after its purchase |
| `Domains` | detailed specification | domain rows and the two Caddy servers |
| `AlertMonitor` | detailed specification | the monitor's rounds |
| `Sessions` | component | login, the middleware's check, logout |
| `Support` | composition, extends `Sessions` | tickets, behind sessions where administrators act |
| `PortsProofs`, `LifecycleProofs`, `DomainsProofs`, `AlertMonitorProofs`, `SupportProofs` | theorems | about the module of that name, for all constants |
| `MCPorts`, `MCLifecycle`, `MCDomains`, `MCAlertMonitor`, `MCSupport` | instances for TLC | runs `ports_*`, `lifecycle_overlap`, `domains_overlap`, `alert_runs`, `desk` |

In all modules but `AlertMonitor` a set `Requests` stands for the HTTP requests being
served. `req[r]` holds the step the request has reached and what it has read;
an action is the code from one external call or transaction to the next. What
runs inside one database transaction is one action: PostgreSQL makes it atomic,
and the code's reads are outside of it, in an earlier action. A crash, a
disconnected caller and a failed call or transaction are the same to everybody
else: the request ends where it is (`Abandon`), and its memory is lost.

The constant `Serialized` of `Wallet` and `Purchase` is not in the code. `FALSE` is the program. `TRUE`
keeps the requests of one user (in `Wallet`) or of one order (in `Purchase`)
apart, as a row lock held from the load to the transaction would; it separates what
the code gets wrong only through overlap from what it gets wrong otherwise, and
says what a fix has to establish.

Definitions marked "Mistake" are plausible bugs, not part of the
specifications: each is the definition below it with a guard dropped, a reset
missing or an order swapped, and the property named in `PROJECT.json` must
notice it.

Variables marked "history" are not in the code either and no guard reads them:
they remember how a state came about, so that an invariant can say what is excused
and hold the code to everything else.

### Wallet

| State | Code |
|---|---|
| `balance`, `net` | `wallets.balance`; sum of credits minus debits in `wallet_transactions` |
| `topup`, `qris`, `credits` | `wallet_topups.status`; the code's state at the provider; ledger rows of the top-up |
| `order`, `refunds` | `orders.status` of a wallet purchase; its refund rows |
| `service`, `incus`, `term`, `renewals`, `cancels` | `services.status`; whether Incus has the instance; terms added to `expires_at`; paid renewals; cancellation events |

| Action | Code |
|---|---|
| `TopupSubmit` | `WalletTopupSubmit` |
| `WebhookLoad`, `WebhookSettle` | `handlePakasirWalletTopupWebhook`, before and after the verification |
| `PurchaseLoad`, `PurchaseDebit` | `BuyVPSSubmit`, `submitWalletPurchase` |
| `PurchaseComplete`, `PurchaseRefund` | `persistPurchaseSuccess`, `persistPurchaseFailure` |
| `RenewLoad`, `RenewCommit` | `RenewSubmit`, wallet branch |
| `CancelLoad`, `CancelDelete`, `CancelCommit` | `CancelSubmit` |
| `AdjustWallet` | `AdjustWallet`, one action because it locks the row it reads |

Amounts are constants; the refund of a cancellation is a constant too, 0 or
not, since only its sign decides anything (`refund > 0`). Time does not pass:
services are renewed before they expire, so that a renewal adds one term to
`expires_at`.

### Purchase

| State | Code |
|---|---|
| `order`, `provider`, `refunds` | `orders.status`; the provider's word on the payment; refund rows |
| `service`, `mapping` | the rows `persistPurchaseSuccess` inserts: service, instance, ports |
| `inst`, `forward` | Incus: whose instance has a name, whose rules have a port |

| Action | Code |
|---|---|
| `SubmitCheck` | `BuyVPSSubmit` with `HasHostnameConflict` and `HostnameExists` |
| `SubmitWallet`, `SubmitRefused`, `SubmitQris` | `submitWalletPurchase`, `submitQrisPurchase` |
| `WebhookLoad`, `WebhookMarkPaid`, `WebhookReject` | `HandlePakasirWebhook` |
| `AllocatePorts`, `PortsExhausted` | `allocatePortMappings` |
| `CreateInstance`, `CreateFails`, `CreateUnnoticed`, `ConfigureInstance`, `ForwardPorts`, `ForwardUnnoticed`, `CleanUp`, `CleanUpFails` | `Provision` and what it calls; "Unnoticed" is a call that Incus carried out and whose answer was lost |
| `PersistSuccess`, `PersistFailure` | the transactions that end `provisionPaidPurchase` |

A purchase takes one bundle of public ports, always of the same shape and from
the lowest free numbers, and no service gives ports back here; a slot is a
bundle, taken in one step. The code asks for one port at a time, outside a
transaction, so that a purchase recorded in between may leave it with ports of two
bundles. Some of these are then forwarded, Incus refuses the update as a whole, and
the attempt ends as one whose bundle is taken. `Ports` has the single queries. Incus is modelled by what the code relies
on: one instance per name, one rule per listen port, an etag on the forward.
Wallet balances are in `Wallet`; here a refund is counted. What an absent node
does (the webhook returns an error after marking the order paid) is
`Abandon`.

### Ports

| State | Code |
|---|---|
| `row`, `active` | `service_port_mappings` by public port; those with `is_active` |
| `rule` | the rules of the network forward of the public address |
| `bought`, `sshPort` | whether the service's purchase was recorded; `service_instances.ssh_port` |
| `failed` | history: services a reconfiguration of which changed rules and was not recorded |

| Action | Code |
|---|---|
| `ReconfigLoad`, `ReconfigRotate`, `ReconfigReplace`, `ReconfigRecord` | `ReconfigIPSubmit`: load, `allocateRotatedMappings`, `ReplaceServiceMappings`, transaction |
| `ReconfigRefused`, `ReplaceUnnoticed`, `ReconfigRollback` | its error paths: before the update of the forward, when the answer to it is lost, and after it |
| `PurchaseBegin`, `PurchaseAllocate`, `PurchaseForward`, `ForwardUnnoticed`, `PurchaseRefused`, `PurchaseInsert`, `PurchaseLost` | the port part of `provisionPaidPurchase` |

`Purchase` has a bundle of ports as one slot; here each port is its own, since a
reconfiguration frees the ports of a bundle one by one and may ask for a particular
one. `ReconfigRotate` and `PurchaseAllocate` take one port each time, as each is found by
a query of its own, and other requests may record theirs in between. One public address and one protocol are modelled: a bundle's one UDP
mapping is numbered apart from its TCP ones by the UNIQUE constraint and by
Incus alike. `ReconfigReplace` is one step although it reads and then updates the forward,
because Incus refuses the update when the forward changed in between
(`ReconfigRefused`).

### Lifecycle and Billing

| State | Code |
|---|---|
| `owner`, `status`, `expires`, `snapshot`, `cycle` | `services`: owner, status, `expires_at`, the package and the snapshots of its row, `billing_cycle_days` |
| `version` | `packages`: the price, duration, resources and `is_active` of each row |
| `instance` | `service_instances.status` |
| `incus`, `limits`, `told` | the instance in Incus, the version of a package whose limits it has, whether the password last shown is its password |
| `cost`, `refunded`, `upgrades` | sums of ledger rows about the service; paid upgrades |
| `spoilt` | history: what of an instance a request changed and did not record, or recorded too late |
| `mixed` | history: renewed for less per day than its snapshots say, or while an upgrade replaced these, or upgraded at a price of an older expiry |

| Action | Code |
|---|---|
| `RuntimeLoad`, `ChangeState`, `RuntimeCommit` | `RuntimeAction` |
| `ActLoad`, `ChangeState`, `ActCommit` | `containers.Act` |
| `PasswordLoad`, `Exec`, `PasswordCommit` | `ChangePassword`, `ResetSSH` |
| `ReinstallLoad`, `ReinstallStop`, `ReinstallRebuild`, `ReinstallStart`, `Exec`, `ReinstallCommit` | `ReinstallSubmit` |
| `RenewLoad`, `RenewCommit` | `RenewSubmit`, wallet branch |
| `UpgradeLoad`, `ApplyResourceLimits`, `UpgradeCommit`, `UpgradeNotRecorded`, `UpgradeRevert` | `UpgradeSubmit`, wallet branch |
| `TransferLoad`, `TransferCommit` | `TransferSubmit` |
| `CancelLoad`, `CancelStop`, `CancelDelete`, `CancelCommit` | `CancelSubmit` |
| `UpdatePackage` | `Update` and `Delete` of `packages` |
| `Refused` | every error that ends a request before its transaction |

A request carries `changed`, the aspects of the instance (power, password,
limits) it has changed in Incus, and `late`, those another request has changed since. The
unit of time is a day. Proration is computed by the code in floating point:
`floor(price * (remaining / cycle))`. Where the exact value is a
whole number and the quotient is not, the product may come out just below it, so `Prorated` is the set of the one or two possible results. The contents a row of
`packages` may have are its `Versions`, and an administrator replaces one by another
at any time. A renewal charges, and lasts, what the row says when it is loaded; an upgrade's
and a refund's proration go by the snapshots in `services`. "suspended" is a status no code of the repository
writes. The previews read what the submissions read again, and are
no actions. What a wallet loses is in `Wallet`; here, what a service cost.

### Domains

| State | Code |
|---|---|
| `row`, `mode` | `service_domains`: status and proxy mode |
| `routes`, `exists` | Caddy's servers `vps-nat-http` and `vps-nat-https` |
| `clobbered`, `unclean` | history: hit by another domain's PUT; a call for it failed |

| Action | Code |
|---|---|
| `DomainPreview`, `DomainInsert`, `DomainRefused` | `DomainPreview` and the first transaction of `DomainSubmit` |
| `GetServer`, `PutServer`, `CaddyFails` | `getServer`, `putServer` within `EnsureRoute` and `DeleteRoute` |
| `DomainFail`, `DomainActivate`, `ActivateFails` | the outcomes of `DomainSubmit` |

A PUT is assumed to replace a server's configuration, which is what
`putServer` uses it for. A lost answer to a PUT that was carried out is a
disjunct of `CaddyFails`.

### AlertMonitor

| State | Code |
|---|---|
| `monitored` | services with an instance row "running" or "stopped" |
| `open` | open rows of `resource_alerts` |
| `sample` | `alertSampleState`, in memory |
| `run` | the local variables of `RunOnce` |
| `lastBelow`, `cleared` | history: what runs that ended have found |

| Action | Code |
|---|---|
| `Start`, `Look`, `Finish` | `RunOnce`: queries, one instance and type, storing of the samples |
| `EnsureOpenAlert`, `ResolveOpenAlert` | `ensureOpenAlert`, `resolveOpenAlert` |
| `Fail`, `Restart` | an error that ends a run, a new process |
| `Leave` | `CancelCommit` of `Lifecycle` |

The runs do not overlap: one goroutine calls `RunOnce`. They may be any time
apart. A percentage is above the threshold, not above it, or unknown.

### Sessions and Support

| State | Code |
|---|---|
| `enabled`, `holder`, `expires`, `revoked` | `admin_users.status`; `admin_sessions` |
| `status`, `closedAt`, `messages` | `support_tickets`, `support_messages` |
| `reopened` | history: a reply overwrote the closing |

| Action | Code |
|---|---|
| `LoginCheck`, `LoginCreate`, `Logout` | `Login`, `Logout` |
| `Arrive`, `Authenticate`, `Touch`, `Unauthorized` | `AdminAuth.Require` and `Authenticate` |
| `Disable`, `Enable` | `admin_users.status`, set in the database or by `admin-seed` |
| `Create`, `CustomerRead`, `CustomerReply`, `ReplyRead`, `ReplyFromAdmin`, `StatusRead`, `UpdateStatus` | the handlers of `support` |

`Support` composes the two: an administrator's handler starts when the
middleware has let the request through, and runs whatever becomes of the session.

## 3. Runs

| Run | Instance | Shows |
|---|---|---|
| `wallet_concurrent` | 1 user, 2 requests; 1 top-up, 1 order, 1 service; 2 adjustments, 2 renewals | what no interleaving breaks, and that a balance leaves its ledger only by a stale write |
| `wallet_serial` | 2 users, 2 requests, 2 services | with the requests of a user apart, `Wallet` implements `WalletLedger`; a paid top-up is credited |
| `wallet_duplicate` | 1 user, 2 requests | **violation**: two overlapping deliveries credit a top-up twice |
| `purchase_concurrent` | 3 orders, 2 of one hostname; 2 requests, 2 bundles of ports, 2 attempts, 2 faults | instances, ports, rows and payments stay right, whatever interleaves |
| `purchase_orderly` | the same with 1 fault, one request per order | `Purchase` implements `PurchaseOutcome`; paid orders are settled unless ports run out |
| `purchase_redelivery` | no faults | **violation**: a repeated webhook refunds an order that is served |
| `ports_concurrent` | 2 services, 6 ports of which 5 in the pool, 2 kinds, 2 requests, 2 faults | recorded ports lead to their service unless its own reconfiguration was not recorded |
| `ports_rollback` | 1 service, 3 ports, 1 kind, 1 request, no faults | **violation**: a reconfiguration that cannot be recorded is not rolled back |
| `lifecycle_overlap` | 1 service, 2 packages in 3 versions, 2 users, 2 requests, 1 fault, 1 day | rows, limits, password and refunds, whatever overlaps |
| `domains_overlap` | 2 domains, 2 requests, 2 faults | rows and routes agree but for another domain's PUT and own failures |
| `alert_runs` | 2 services, runs at times 1 to 4, duration 2, 1 fault | alerts open once, for a reason, and end |
| `desk` | 1 administrator, 2 sessions, 1 ticket, 2 requests, 1 fault | nothing happens after logout; closing times |

Why these bounds: all hazards are between two requests, or between a request and
what an earlier one left; two requests at a time and a third object give both.
The opening balance covers a renewal and not an order, and a top-up makes room
for both, so that charges compete and refusals occur. Two attempts instead of three:
one that is not the last, one that is. Two bundles for three orders make ports
run out. `MaxFaults` lets a
request be interrupted and its successor too. `MaxRefunds` stops deliveries to an
order that has been refunded, since two deliveries that keep overlapping could
refund it for ever. `MaxAdjusts` and `MaxRenewals` bound what users may repeat.
In `wallet_serial` the adjustment is 3, an amount no other row has, so that the
abstract ledger cannot take another row for an adjustment.
The purchase runs do not check for deadlock: with every order settled and
no fault left the system rests. The wallet runs do; a cancellation can always be tried again.

In `ports_concurrent`, five ports in the pool are two bundles of two and one more, so that
reconfigurations meet ports that are taken, given up, or both; the sixth can
only be asked for by number. Two faults leave rules without rows behind for
two later requests, or one loses its answer and the next one is interrupted. `ports_rollback` needs three ports: the first is
given up, the lowest free one is the first again, and the third is there to be
asked for. In `lifecycle_overlap` the packages cost 3 for 2 days and 4 for 3:
the refund of half a cycle of 3 is rounded, and so is the price of an upgrade
with three days left; half a cycle of 4, after an upgrade, is a whole amount, so that
both cases of the rounding occur. The row of the smaller one may become 2 for 1 day,
withdrawn from sale: dearer per day and shorter, and what its services are renewed by from
then on. `MaxExpiry` leaves room for that renewal, before and after an upgrade was priced, and
for no longer one; rows that become cheaper are what `RefundAtMostPaid` excuses, and
`NoRefundBeyondPayment` has rows, prices and expiries of any size. One service is enough,
since requests for different services share no state of this module. In
`alert_runs` the duration of two units leaves room for an alert that
opens, is resolved and would open again too early, and for a restart or a
failed run in between. In `desk` a session lasts two units of three, so that it
expires while it is in use. These runs do not check for deadlock: ports,
domains, messages, tokens and time are used up.

## 4. Properties

`Wallet`: `TopupCreditedOnPayment`, `RefundedOnceIfFailed`, `CancelledOnce` hold
under every interleaving. The last is worth a look: `CancelSubmit` checks
no status, and what keeps two cancellations from refunding twice is that Incus
deletes an instance once, and that `deleteInstanceWithStopIfNeeded`, unlike the
provisioner's `deleteInstance`, takes a missing instance for an error.
`DriftOnlyByStaleWrite` is about steps: whenever a balance changes by another
amount than its ledger, a request wrote what it had computed from a balance that had changed
since. So crashes and retries alone never lose money, and a lock would repair
the rest: with `Serialized`, `BalanceMatchesLedger`, `TopupCreditedOnce`,
`TermsMatchRenewals` and the refinement `ImplementsLedger` hold.

`Purchase`: `ServiceHasItsInstance`, `ServicePortsLeadToIt` and
`SuccessIsInsertable` say that concurrent purchases with the same hostname or the
same ports never harm each other, although the database reserves nothing:
creating the instance and appending the rules are the reservations, and the
request that wins them is the only one that can insert the rows. This
holds because a failed creation does not clean up and a refused forward does.
`NothingLeftBehind` is the converse without faults. `WalletOrderOutcome` and
`QrisOrderPaid` tie status, service, refunds and payment together.

`Ports`: `RecordableIsForwarded` says that the rules of Incus are the
reservation: whoever changed them can record what he changed, or nobody has.
`ActiveIsForwarded` is what a customer relies on; it excuses only the service's own
reconfigurations, so no other service can take a port away. `SshPortIsActive` relates
`ssh_port` to the rows. `SecondBundleOnlyByStaleLoad` is about steps: two
reconfigurations that have loaded the same rows leave two active bundles, and
nothing else does.

`Lifecycle`: nothing separates two operations on a service (the check for
conflicting jobs looks for states no job has), so the question is what
overlaps leave behind. `AgreesUnlessSpoilt`: rows, limits and password agree with the
instance unless a request is at work on that aspect, failed before recording it, or
recorded it after another had changed it; all other interleavings, reverts and
reinstallations included, end in agreement. `TerminatedForGood`: a terminated service
comes back only by a request that had changed the instance before it
was deleted. That does happen, and is why it is stated as a step property.
`RefundAtMostPaid`: the customer never gets more than he paid, plus one for each
upgrade's rounding, however packages are edited meanwhile, provided he was never renewed for
less per day than his service's snapshots say and no renewal and upgrade overlapped.
The proviso is needed: a renewal charges and lasts what the row of the package says by then,
and leaves `price_snapshot` and `billing_cycle_days`, which a refund goes by, alone. Bought
at 3, renewed at 1 after a price cut, and cancelled at once, a service
is refunded 6 of the 4 that were paid; an upgrade to a package of another duration, renewed,
does the same on a smaller scale.

`Domains`: `ActiveIsRouted` and `RoutedIsActive` are the two directions of
agreement between rows and routes. What breaks either is
another domain's PUT of a configuration read earlier, since Caddy is asked for no
etag, or a failure of a call for the domain itself.

`AlertMonitor`: `OneOpenAlert` rests on runs that do not overlap, not on the database.
`ClearedIsResolved` and `OpensWhenSustained` relate alerts to what earlier runs found,
across failed runs, which store no samples, and restarts, which lose them.

`Support`: `LogoutIsFinal` holds of requests that arrive after the end of
the session, however many of earlier ones are being served. `ClosedAtIsOfClosing` names the
one overlap that leaves a ticket open with a closing time.

Liveness (`PaidTopupIsCredited`, `WalletOrderSettles`, `QrisOrderSettles`) is
checked under these assumptions only:

* a request comes to an end (weak fairness of `RequestStep`): every call it
  waits for returns. Interrupting it counts as an end.
* the provider delivers the webhook of a payment again until it is acknowledged
  (strong fairness of `WebhookLoad`). The code relies on this: it
  answers an error when it has not settled the payment and polls nothing.
* for top-ups, not every delivery fails (strong fairness of `Settles`); for
  purchases, faults are finitely many (`MaxFaults`).
* for purchases, the public ports do not run out. When they do, `provisionPaidPurchase`
  returns before it records a failure (`purchase_service.go:688-692`): a QRIS order
  waits for a delivery after ports have become free, and a wallet order stays charged with
  neither a service nor a refund, though nothing failed. The properties
  name this exception (`OutOfPorts`), and the run meets it.
* for wallet orders, no fault at all: nobody resumes one that was interrupted.

Users' own steps (submitting, paying) are not fair: nobody has to pay.

## 5. Findings

* `wallet_duplicate`: the status of a top-up is checked before the provider is
  asked, not in the transaction (`purchase_service.go:411`, `:466`). Two
  overlapping deliveries credit it twice, though the handler's test says that a
  top-up has one ledger row.
* `purchase_redelivery`: an order that is being provisioned passes the webhook's
  check (`purchase_service.go:310`) and is provisioned again; the second
  provisioning fails on the name the first one took, and refunds the order.
  The customer has the service and the money.

* `ports_rollback`: a reconfiguration whose transaction fails calls its rollback,
  which writes the old forward under the etag from before the request's own
  update (`network_infra.go:380`); Incus refuses, and the error is ignored
  (`action_network.go:398`). No fault is needed: ports are chosen among those without an
  active row, and the UNIQUE constraint counts inactive rows, so a service that is
  to get back a port once given up ends so. The handler's test calls this rolled back.

The first two need only a webhook repeated while the first delivery is still at work, and
the second delivery is likely: the handler answers after provisioning.

## 6. Proofs

The theorems assume the assumption of the module they are about
(`WalletAssumption`, `PurchaseAssumption`, `PortsAssumption`, ...), which say
what the constants are: any sets of users, orders, services and requests, any
amounts, prices and cycles, any number of attempts and faults, any finite set of ports.
The rest is proved of every interleaving, unless a theorem states one of these
hypotheses:

* `Serialized`: the requests of one user (`Wallet`) or the deliveries for one
  order (`Purchase`) are kept apart, see section 2.
* `[]ServicesApart`, `[]EditsApart`, `[]TicketsApart`: in this behaviour no two
  requests were at work on one service, no two had read the configuration of one Caddy
  server, no two had read one ticket. The models are the same; the theorem is
  about those of their behaviours in which the overlap does not happen. This is what
  `ensureNoConflictingJobs` is there for and does not ensure, and nothing in the code
  tries it for Caddy or tickets. Failures, interruptions and requests for other objects stay.
* `[]NoneCheaper`, in `NoRefundBeyondPaymentIfApart` alone: at every moment the row of a service's
  package costs no less per day than the service was bought for. Packages may be edited,
  and become dearer.

Those with a behaviour's hypothesis (`...IfApart`) are properties of section 4 without their
exceptions, or what those properties could not say because of them: the exceptions
are due to overlaps, and a lock would remove them.

`WalletProofs`. `TypeOK` is not inductive: that a balance is never negative rests
on the comparison a request made when it loaded the balance, so `TypeInv` adds that at
`debit` and `renew` the loaded balance still covers the price. The
once-per-object properties are proved with `OnceInv`: an order
belongs to the one request that submitted it until it is completed or failed, and a
cancellation to the one request that deleted the instance. `DriftSound` is proved
action by action from `TypeInv`. With `Serialized`, `SerialInv` adds that two
active requests have different users (`Alone`) and that what a request holds is
what the row still has (`Fresh`); `SerialRefinement` maps each action to a step
of `WalletLedger` or a stutter.

`PurchaseProofs`. `InstanceInv`: the request at `configure`, `forward` or
`success` is the only one with its hostname, the instance is its order's, and no
service has the name. `PortInv`: the request at `success` is the only one with its
slot, the rules are its order's and the slot is free in the database.
`SuccessIsInsertable` follows from the two. `OrderInv`: a wallet order belongs to
the request that submitted it, which no webhook can join because the provider
does not know the order; a QRIS order may have many requests, each of which saw it paid.
`NothingLeftBehind` is inductive beside the invariants of instances and ports: the instance a
clean-up deletes is the one its request made.

`PurchaseOutcomeProofs`. With `Serialized`, `SerialInv` says that no two requests have
one order (`Alone`), that the status of an order tells how it was settled, and that what a request
loaded of it is still so; without the last, `PersistFailure` could refund an order that
was served. It gives `OrdersServedOrRefunded`, and `SerialRefinement` maps every
step to one of `PurchaseOutcome` or a stutter. `WalletRefinement` needs no such
assumption: seen through the orders paid from the wallet alone, any interleaving
implements `PurchaseOutcome`, because `OrderInv` already gives such an order to one
request. So `purchase_redelivery` cannot happen to them.

`PortsProofs`. `OwnerInv`: no row ever changes its service, so the rows a request has
loaded stay its service's, active or given up, and every active row has a service.
`RecordableIsForwarded`, `ActiveIsForwarded` and `SshPortIsActive` are inductive
beside it: a request that takes away the rule of a port has a row of its service there.
`SecondBundleOnlyByStaleLoad` needs `BuyerAlone`, that a service being bought is
in the hands of one request and has no active row, and `Allotted`, that a request
never has more ports of a kind than it wants and, once it changes the rules, has exactly as many;
the lemma `SameCount` makes of that as many new rows as were loaded. `OneOfEachIfApart` sharpens
this: with one request at a time for a service, `FullInv` says that the rows loaded are still
the active ones, so a service keeps one active mapping of each kind for ever.

`LifecycleProofs`. `TypeInv` adds which steps belong to an operation and what it has
changed by then. `RequestInv` says what a request that is not late
still knows of the instance: its power state after a change of state, that it is
gone after the deletion. `AspectInv` splits the agreement by aspect and is proved
action by action. For `RefundAtMostPaid`, `MoneyInv` says what holds at every
moment: unless `mixed`, the price of the time that remains
is covered by what was paid, which a renewal preserves by costing no less per day, an
upgrade by adding the proration of the difference up to one for
rounding, and time by passing. `RefundInv`: only the request that deleted the
instance refunds. The lemmas `ProratedBounds`, `RefundType` and `CostType` are about
the operators of `Billing`. With one request at a time for a service, `CurrentInv` adds that
no request is late and that the package and expiry it loaded are the service's. Then
terminated is final (`TerminatedIfApart`), `mixed` comes only from a row that has become cheaper
or longer (`NoRefundBeyondPaymentIfApart`), a package is only replaced by one at least as large
and dearer (`UpgradedOnlyUpIfApart`), and no renewal is lost to another one that had loaded the
same expiry, nor charged by one version of the row and granted by another
(`PaidIsDeliveredIfApart`).

`DomainsProofs`. `RowInv`: a domain that is being set up belongs to one request, since
its row is inserted once. `RouteInv`: unless clobbered or unclean, its routes are exactly those
that the calls made so far have left. If edits of a server are apart, what a request has read is
what it replaces, nothing is ever clobbered, and `RoutedExactlyIfApart` has both
properties without that exception, an active domain being routed on the servers of its mode
and on no other.

`AlertMonitorProofs`. `AlertInv`: during a run the alerts it holds are the open ones of the
services it looks at, which gives `OneOpenAlert`. `SinceInv`: neither the time above the
threshold nor the last sample is older than the last run that found the instance below it.
`OpenedInv`: what should open has opened or is still to be looked at, so that a run that
ends has decided of everything it loaded (`EndedRunDecides`); one that fails may
leave some alerts open and others not, and the next one to end makes up for it.

`SupportProofs`. A late request never passes the middleware (`LateStopped`), since
revocation and time only move one way. `ClosedIfApart`: with one request at a time on a
ticket, the status a request has read is the ticket's when it writes, so the exception of
`ClosedAtIsOfClosing` does not arise and a closed ticket gets no message.

Most invariants were first checked by TLC on the instances above. Every invariant
and action property of the passing runs, and both refinements, are proved. Only
model-checked: the liveness properties `WalletOrderSettles`, `QrisOrderSettles` and
`PaidTopupIsCredited`, since temporal reasoning under fairness is out of the
prover's reach. The violations of section 5 are TLC's too.

## 7. Plan

Built, in this order: 1 `WalletLedger`, `Wallet`, `WalletProofs`;
2 `PurchaseOutcome`, `Purchase`, `PurchaseProofs`, `PurchaseOutcomeProofs`; 3 `Ports`, `PortsProofs`;
4 `Billing`, `Lifecycle`, `LifecycleProofs`; 5 `Domains`, `DomainsProofs`;
6 `AlertMonitor`, `AlertMonitorProofs`; 7 `Sessions`, `Support`, `SupportProofs`.

What remains worth doing: proofs that each request of `Ports`, `Lifecycle` and `Domains`
that ends without a failure leaves rows and Incus or Caddy as one atomic step
would; monotonicity of the operators of `Billing`; the charge of an upgrade as an action of
`Wallet`; the one-time password of `BuyVPSStatus`; the dashboard cache.

## 8. Not modelled

* In `Wallet`: the charge of an upgrade and the refund of a QRIS order (they write the
  balance as `RenewCommit` and `PurchaseRefund` do; `Lifecycle` and `Purchase` count
  them), the creation of a wallet with its user. A transfer that overlaps a
  renewal or cancellation, as to whose wallet is charged.
* `BuyVPSStatus` and its one-time password: it changes no state of the models.
* The dashboard cache: values for display, which decide nothing.
* The notification of a new alert: its failure changes nothing.
* What a command executed in an instance does: an exec that returns is taken to have
  set the password, though its exit status is not looked at.
* Renewals and upgrades paid by QRIS: the code inserts an order and never creates
  a QR code for it, so no state follows.
* Payment and order expiry: the code stores `expired_at` and never acts on it.
* Notifications, logs, activity rows, job and event rows as such: they are
  written in the transactions that are modelled, and nothing reads them to decide
  (`HasConflictingJob` looks for states no job is ever given).
* The creation of packages, CRUD on users, listings, reports, password hashing, routing,
  decoding, configuration, and the clients' wire formats: single rows or pure I/O.
