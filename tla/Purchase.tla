------------------------------ MODULE Purchase ------------------------------
(***************************************************************************)
(* The purchase of a VPS: the order and its payment in the database, the   *)
(* instance and the port-forwarding rules in Incus, and the HTTP requests  *)
(* that carry an order from the one to the other.                          *)
(*                                                                         *)
(* A request checks the hostname, takes the price from the wallet or asks  *)
(* the payment provider for a QR code, and, once the order is paid, tries  *)
(* up to MaxAttempts times to provision it: find free public ports, create *)
(* the instance, set it up, forward the ports.  One transaction at the end *)
(* records the service or fails the order and refunds it.  A QRIS order is *)
(* provisioned by the request that delivers the provider's webhook, and    *)
(* the provider delivers it again when it gets no answer in time, so that  *)
(* several requests may work on one order.  No request locks anything.     *)
(*                                                                         *)
(* Wallet balances are in module Wallet; here a refund is counted.         *)
(***************************************************************************)
EXTENDS Integers

CONSTANTS Orders, Hostnames, HostOf,
          WalletPaid,   \* orders paid from the wallet; the others by QRIS
          Slots,        \* bundles of public ports, in the order of their
                        \* numbers: a purchase takes a whole bundle
          MaxAttempts,  \* attempts to provision an order: 3 in the code
          Requests,     \* HTTP requests being served
          MaxFaults,    \* bound: crashes, failed transactions and leaks
          MaxRefunds,   \* bound: refunds of an order after which no more
                        \* deliveries for it are considered
          Serialized    \* TRUE: one request at a time works on an order
                        \* (the code does not do this: FALSE is the program)

NoOrder == "none"

\* The definitions marked "Mistake" are not part of the specification: each is
\* the definition below it as a plausible mistake would have it, and shows that
\* a property notices the mistake.

ASSUME PurchaseAssumption ==
  /\ HostOf \in [Orders -> Hostnames]
  /\ WalletPaid \subseteq Orders
  /\ NoOrder \notin Orders
  /\ Slots \subseteq Nat
  /\ MaxAttempts \in Nat \ {0}
  /\ MaxFaults \in Nat
  /\ MaxRefunds \in Nat \ {0}
  /\ Serialized \in BOOLEAN

VARIABLES
  order,     \* orders.status, "none" before the row exists
  provider,  \* what the payment provider knows of an order
  refunds,   \* refund rows in wallet_transactions of an order
  service,   \* whether the order has a service, its instance and port rows
  mapping,   \* the order whose service_port_mappings rows hold a slot
  inst,      \* the order for which Incus has an instance of a name
  forward,   \* the order whose instance a slot's forwarding rules lead to
  faults,    \* faults so far
  req        \* each request: its step, order, attempt and allocated slot

dbVars == <<order, refunds, service, mapping>>
incusVars == <<inst, forward>>
vars == <<order, provider, refunds, service, mapping, inst, forward, faults, req>>

Idle == [step |-> "idle", obj |-> NoOrder, attempt |-> 0, slot |-> 0]

Steps == {"idle", "submit", "verify", "allocate", "create", "configure",
          "forward", "success", "failure"}

Final == {"completed", "failed"}

Answer(r) == req' = [req EXCEPT ![r] = Idle]

Goto(r, step) == req' = [req EXCEPT ![r].step = step]

Begin(r, step, o) ==
  /\ req[r].step = "idle"
  /\ Serialized => \A q \in Requests : req[q].obj # o
  /\ req' = [req EXCEPT ![r] = [step |-> step, obj |-> o, attempt |-> 1, slot |-> 0]]

\* Mistake: one attempt too many.
OneMoreAttempt(r) ==
  IF req[r].attempt <= MaxAttempts
    THEN req' = [req EXCEPT ![r] = [step |-> "allocate", obj |-> req[r].obj,
                                    attempt |-> req[r].attempt + 1, slot |-> 0]]
    ELSE Goto(r, "failure")

\* A failed attempt is followed by the next one, the last one by the refund.
NextAttempt(r) ==
  IF req[r].attempt < MaxAttempts
    THEN req' = [req EXCEPT ![r] = [step |-> "allocate", obj |-> req[r].obj,
                                    attempt |-> req[r].attempt + 1, slot |-> 0]]
    ELSE Goto(r, "failure")

Fault == faults < MaxFaults /\ faults' = faults + 1

Init ==
  /\ order = [o \in Orders |-> "none"]
  /\ provider = [o \in Orders |-> "none"]
  /\ refunds = [o \in Orders |-> 0]
  /\ service = [o \in Orders |-> FALSE]
  /\ mapping = [s \in Slots |-> NoOrder]
  /\ inst = [n \in Hostnames |-> NoOrder]
  /\ forward = [s \in Slots |-> NoOrder]
  /\ faults = 0
  /\ req = [r \in Requests |-> Idle]

(***************************************************************************)
(* Submission                                                              *)
(***************************************************************************)

\* HasHostnameConflict: the name is in a service_instances row, or in the
\* payment of an order that is still open.
HostnameConflict(n) ==
  \E o \in Orders :
    HostOf[o] = n /\ (service[o] \/ order[o] \notin Final \union {"none"})

\* BuyVPSSubmit: neither the database nor Incus knows the hostname.
SubmitCheck(r, o) ==
  /\ order[o] = "none" /\ provider[o] = "none"
  /\ \A q \in Requests : req[q].obj # o      \* an order id is fresh
  /\ ~HostnameConflict(HostOf[o])
  /\ inst[HostOf[o]] = NoOrder
  /\ Begin(r, "submit", o)
  /\ UNCHANGED <<dbVars, incusVars, provider, faults>>

\* submitWalletPurchase: order, payment and debit in one transaction, after
\* which the same request provisions.
SubmitWallet(r) ==
  LET o == req[r].obj IN
  /\ req[r].step = "submit" /\ o \in WalletPaid
  /\ order' = [order EXCEPT ![o] = "processing"]
  /\ Goto(r, "allocate")
  /\ UNCHANGED <<refunds, service, mapping, incusVars, provider, faults>>

\* The loaded balance does not cover the price.
SubmitRefused(r) ==
  /\ req[r].step = "submit" /\ req[r].obj \in WalletPaid
  /\ Answer(r)
  /\ UNCHANGED <<dbVars, incusVars, provider, faults>>

\* submitQrisPurchase: the QR code is created at the provider, then order and
\* payment are inserted in one transaction, which may fail.
SubmitQris(r) ==
  LET o == req[r].obj IN
  /\ req[r].step = "submit" /\ o \notin WalletPaid
  /\ provider' = [provider EXCEPT ![o] = "open"]
  /\ order' \in {order, [order EXCEPT ![o] = "awaiting_payment"]}
  /\ Answer(r)
  /\ UNCHANGED <<refunds, service, mapping, incusVars, faults>>

\* External: the customer, who has seen the code only if the submit
\* succeeded, pays it.
CustomerPays(o) ==
  /\ order[o] = "awaiting_payment" /\ provider[o] = "open"
  /\ provider' = [provider EXCEPT ![o] = "paid"]
  /\ UNCHANGED <<dbVars, incusVars, faults, req>>

(***************************************************************************)
(* The provider's webhook                                                  *)
(***************************************************************************)

\* Mistake: settled orders are not acknowledged but provisioned again.
LoadSettledToo(r, o) ==
  /\ order[o] # "none"
  /\ refunds[o] < MaxRefunds
  /\ Begin(r, "verify", o)
  /\ UNCHANGED <<dbVars, incusVars, provider, faults>>

\* Mistake: only an order that awaits its payment is provisioned, so that a
\* repeated delivery is harmless.
LoadAwaitingOnly(r, o) ==
  /\ order[o] = "awaiting_payment"
  /\ refunds[o] < MaxRefunds
  /\ Begin(r, "verify", o)
  /\ UNCHANGED <<dbVars, incusVars, provider, faults>>

\* HandlePakasirWebhook finds the order; one that is settled is acknowledged
\* at once, any other goes on, also if it is being provisioned already.
WebhookLoad(r, o) ==
  /\ order[o] \notin Final \union {"none"}
  /\ refunds[o] < MaxRefunds
  /\ Begin(r, "verify", o)
  /\ UNCHANGED <<dbVars, incusVars, provider, faults>>

\* Mistake: the webhook's status is believed without asking the provider.
MarkPaidUnverified(r) ==
  /\ req[r].step = "verify"
  /\ order' = [order EXCEPT ![req[r].obj] = "paid"]
  /\ Goto(r, "allocate")
  /\ UNCHANGED <<refunds, service, mapping, incusVars, provider, faults>>

\* Mistake: it is enough that the provider knows the transaction.
MarkPaidIfKnown(r) ==
  /\ req[r].step = "verify"
  /\ provider[req[r].obj] # "none"
  /\ order' = [order EXCEPT ![req[r].obj] = "paid"]
  /\ Goto(r, "allocate")
  /\ UNCHANGED <<refunds, service, mapping, incusVars, provider, faults>>

\* The provider confirms the payment, and the order is marked paid whatever
\* its status has become since it was loaded.
WebhookMarkPaid(r) ==
  LET o == req[r].obj IN
  /\ req[r].step = "verify"
  /\ provider[o] = "paid"
  /\ order' = [order EXCEPT ![o] = "paid"]
  /\ Goto(r, "allocate")
  /\ UNCHANGED <<refunds, service, mapping, incusVars, provider, faults>>

\* The provider does not confirm it: an unpaid order, or one it never had.
WebhookReject(r) ==
  /\ req[r].step = "verify"
  /\ provider[req[r].obj] # "paid"
  /\ Answer(r)
  /\ UNCHANGED <<dbVars, incusVars, provider, faults>>

(***************************************************************************)
(* provisionPaidPurchase                                                   *)
(***************************************************************************)

Free(s) == mapping[s] = NoOrder

\* allocatePortMappings: the lowest public ports without an active row in the
\* database.  Nothing is reserved, and Incus is not asked.  The code asks for
\* one port at a time, so that a purchase recorded in between may leave it with
\* ports of two bundles; some of them are then forwarded already, and Incus
\* refuses the whole update as it does for a bundle that is taken.
AllocatePorts(r) ==
  /\ req[r].step = "allocate"
  /\ \E s \in Slots :
       /\ Free(s) /\ \A q \in Slots : q < s => ~Free(q)
       /\ req' = [req EXCEPT ![r] = [step |-> "create", obj |-> req[r].obj,
                                     attempt |-> req[r].attempt, slot |-> s]]
  /\ UNCHANGED <<dbVars, incusVars, provider, faults>>

\* No port is left: the error is returned, and the order, charged as it is,
\* is not refunded.
PortsExhausted(r) ==
  /\ req[r].step = "allocate"
  /\ \A s \in Slots : ~Free(s)
  /\ Answer(r)
  /\ UNCHANGED <<dbVars, incusVars, provider, faults>>

\* Mistake: an instance that exists already is taken for the order's own, as a
\* retry might do.
AdoptInstance(r) ==
  LET o == req[r].obj IN
  /\ req[r].step = "create"
  /\ inst' = [inst EXCEPT ![HostOf[o]] = o]
  /\ Goto(r, "configure")
  /\ UNCHANGED <<dbVars, forward, provider, faults>>

\* Incus has one instance of a name.
CreateInstance(r) ==
  LET o == req[r].obj IN
  /\ req[r].step = "create"
  /\ inst[HostOf[o]] = NoOrder
  /\ inst' = [inst EXCEPT ![HostOf[o]] = o]
  /\ Goto(r, "configure")
  /\ UNCHANGED <<dbVars, forward, provider, faults>>

\* Mistake: a failed creation is cleaned up like every other failure.
CreateFailsCleansUp(r) ==
  /\ req[r].step = "create"
  /\ inst' = [inst EXCEPT ![HostOf[req[r].obj]] = NoOrder]
  /\ NextAttempt(r)
  /\ UNCHANGED <<dbVars, forward, provider, faults>>

\* The creation fails, because the name is taken or otherwise.  The attempt
\* ends without a clean-up.
CreateFails(r) ==
  /\ req[r].step = "create"
  /\ NextAttempt(r)
  /\ UNCHANGED <<dbVars, incusVars, provider, faults>>

\* The instance is created but waiting for the operation fails, which the
\* attempt takes for a failed creation.
CreateUnnoticed(r) ==
  LET o == req[r].obj IN
  /\ req[r].step = "create"
  /\ inst[HostOf[o]] = NoOrder
  /\ inst' = [inst EXCEPT ![HostOf[o]] = o]
  /\ NextAttempt(r)
  /\ Fault
  /\ UNCHANGED <<dbVars, forward, provider>>

\* Limits, start, address and password are set on the new instance.
ConfigureInstance(r) ==
  /\ req[r].step = "configure"
  /\ Goto(r, "forward")
  /\ UNCHANGED <<dbVars, incusVars, provider, faults>>

\* Mistake: the rules of a listen port are replaced instead of appended to.
ForwardReplaced(r) ==
  /\ req[r].step = "forward"
  /\ forward' = [forward EXCEPT ![req[r].slot] = req[r].obj]
  /\ Goto(r, "success")
  /\ UNCHANGED <<dbVars, inst, provider, faults>>

\* ensureForwardPorts appends the rules under the forward's etag; Incus
\* refuses a listen port that has a rule already.
ForwardPorts(r) ==
  LET s == req[r].slot IN
  /\ req[r].step = "forward"
  /\ forward[s] = NoOrder
  /\ forward' = [forward EXCEPT ![s] = req[r].obj]
  /\ Goto(r, "success")
  /\ UNCHANGED <<dbVars, inst, provider, faults>>

\* Incus carries out the update of the forward and the answer is lost: clean-up
\* deletes the instance, if it can, and the rules stay.
ForwardUnnoticed(r) ==
  LET s == req[r].slot
      n == HostOf[req[r].obj]
  IN
  /\ req[r].step = "forward"
  /\ forward[s] = NoOrder
  /\ forward' = [forward EXCEPT ![s] = req[r].obj]
  /\ inst' \in {inst, [inst EXCEPT ![n] = NoOrder]}
  /\ NextAttempt(r)
  /\ Fault
  /\ UNCHANGED <<dbVars, provider>>

\* Mistake: the error is returned without the clean-up.
CleanUpForgotten(r) ==
  /\ req[r].step \in {"configure", "forward"}
  /\ NextAttempt(r)
  /\ UNCHANGED <<dbVars, incusVars, provider, faults>>

\* A step after the creation fails, for one the forwarding when its ports are
\* taken: clean-up deletes the instance of that name.  It never removes rules,
\* since createdForward is set only when no step is left that can fail.
CleanUp(r) ==
  /\ req[r].step \in {"configure", "forward"}
  /\ inst' = [inst EXCEPT ![HostOf[req[r].obj]] = NoOrder]
  /\ NextAttempt(r)
  /\ UNCHANGED <<dbVars, forward, provider, faults>>

\* Clean-up only logs that the deletion failed.
CleanUpFails(r) ==
  /\ req[r].step \in {"configure", "forward"}
  /\ NextAttempt(r)
  /\ Fault
  /\ UNCHANGED <<dbVars, incusVars, provider>>

\* What the UNIQUE constraints on services.order_id, on
\* service_instances.incus_instance_name and on the public port demand.
Insertable(o, s) ==
  /\ Free(s)
  /\ \A p \in Orders : service[p] => p # o /\ HostOf[p] # HostOf[o]

\* persistPurchaseSuccess, one transaction.
PersistSuccess(r) ==
  LET o == req[r].obj IN
  /\ req[r].step = "success"
  /\ Insertable(o, req[r].slot)
  /\ order' = [order EXCEPT ![o] = "completed"]
  /\ service' = [service EXCEPT ![o] = TRUE]
  /\ mapping' = [mapping EXCEPT ![req[r].slot] = o]
  /\ Answer(r)
  /\ UNCHANGED <<refunds, incusVars, provider, faults>>

\* Mistake: the order is refunded and provisioned once more.
RefundThenRetry(r) ==
  LET o == req[r].obj IN
  /\ req[r].step = "failure"
  /\ order' = [order EXCEPT ![o] = "failed"]
  /\ refunds' = [refunds EXCEPT ![o] = @ + 1]
  /\ Goto(r, "allocate")
  /\ UNCHANGED <<service, mapping, incusVars, provider, faults>>

\* Mistake: the last error is returned like the others.
FailureUnrecorded(r) ==
  /\ req[r].step = "failure"
  /\ Answer(r)
  /\ UNCHANGED <<dbVars, incusVars, provider, faults>>

\* persistPurchaseFailure, one transaction: the order fails and its price goes
\* to the wallet, also if it was paid by QRIS.
PersistFailure(r) ==
  LET o == req[r].obj IN
  /\ req[r].step = "failure"
  /\ order' = [order EXCEPT ![o] = "failed"]
  /\ refunds' = [refunds EXCEPT ![o] = @ + 1]
  /\ Answer(r)
  /\ UNCHANGED <<service, mapping, incusVars, provider, faults>>

\* The process crashes, the caller disconnects (which cancels the request's
\* database calls) or a transaction fails.  Nothing resumes or undoes what the
\* request has done.
Abandon(r) ==
  /\ req[r].step # "idle"
  /\ Answer(r)
  /\ Fault
  /\ UNCHANGED <<dbVars, incusVars, provider>>

Provision(r) ==
  \/ AllocatePorts(r) \/ PortsExhausted(r)
  \/ CreateInstance(r) \/ CreateFails(r) \/ CreateUnnoticed(r)
  \/ ConfigureInstance(r)
  \/ ForwardPorts(r) \/ ForwardUnnoticed(r)
  \/ CleanUp(r) \/ CleanUpFails(r)
  \/ PersistSuccess(r) \/ PersistFailure(r)

RequestStep(r) ==
  \/ SubmitWallet(r) \/ SubmitRefused(r) \/ SubmitQris(r)
  \/ WebhookMarkPaid(r) \/ WebhookReject(r)
  \/ Provision(r)
  \/ Abandon(r)

Next ==
  \/ \E o \in Orders : CustomerPays(o)
  \/ \E r \in Requests : RequestStep(r)
  \/ \E r \in Requests, o \in Orders : SubmitCheck(r, o) \/ WebhookLoad(r, o)

Spec == Init /\ [][Next]_vars

(***************************************************************************)
(* Fairness: each request comes to an end, since every call it waits for   *)
(* returns, and the provider delivers a webhook that is not acknowledged   *)
(* again.  Faults may happen; they are finitely many.                      *)
(***************************************************************************)
FairSpec ==
  /\ Spec
  /\ \A r \in Requests : WF_vars(RequestStep(r))
  /\ \A o \in Orders : SF_vars(\E r \in Requests : WebhookLoad(r, o))

-----------------------------------------------------------------------------
(***************************************************************************)
(* Properties                                                              *)
(***************************************************************************)

\* Every row, instance, rule and request has the values the code can give it.
TypeOK ==
  /\ order \in [Orders -> {"none", "awaiting_payment", "paid", "processing"} \union Final]
  /\ provider \in [Orders -> {"none", "open", "paid"}]
  /\ refunds \in [Orders -> Nat]
  /\ service \in [Orders -> BOOLEAN]
  /\ mapping \in [Slots -> Orders \union {NoOrder}]
  /\ inst \in [Hostnames -> Orders \union {NoOrder}]
  /\ forward \in [Slots -> Orders \union {NoOrder}]
  /\ faults \in Nat
  /\ req \in [Requests -> [step : Steps, obj : Orders \union {NoOrder},
                           attempt : 0 .. MaxAttempts, slot : Nat]]

\* The instance of a service is the one made for its order: no clean-up of
\* another attempt, request or order with the same hostname has deleted it.
ServiceHasItsInstance == \A o \in Orders : service[o] => inst[HostOf[o]] = o

\* The public ports recorded for a service lead to its own instance, although
\* concurrent purchases allocate the same ports.
ServicePortsLeadToIt ==
  \A s \in Slots :
    mapping[s] # NoOrder => service[mapping[s]] /\ forward[s] = mapping[s]

\* When provisioning has succeeded, no UNIQUE constraint can refuse the rows
\* that record it: the names and ports won in Incus are free in the database.
SuccessIsInsertable ==
  \A r \in Requests : req[r].step = "success" => Insertable(req[r].obj, req[r].slot)

\* A wallet order is served, or refunded once, or still open; its status says
\* which, whatever webhooks arrive for it and wherever its request stopped.
WalletOrderOutcome ==
  \A o \in WalletPaid :
    /\ service[o] <=> order[o] = "completed"
    /\ refunds[o] = IF order[o] = "failed" THEN 1 ELSE 0

\* A QRIS order is served or refunded only after the provider confirmed it.
QrisOrderPaid ==
  \A o \in Orders \ WalletPaid :
    service[o] \/ refunds[o] > 0 => provider[o] = "paid"

\* Without faults, every instance and every forwarding rule belongs to a
\* service or to a request that is still at work on it.
NothingLeftBehind ==
  faults = 0 =>
    /\ \A n \in Hostnames : inst[n] # NoOrder =>
         \/ service[inst[n]]
         \/ \E r \in Requests : /\ req[r].obj = inst[n]
                                /\ req[r].step \in {"configure", "forward", "success"}
    /\ \A s \in Slots : forward[s] # NoOrder =>
         \/ mapping[s] = forward[s]
         \/ \E r \in Requests : /\ req[r].obj = forward[s] /\ req[r].slot = s
                                /\ req[r].step = "success"

\* An order is not both refunded and served, and not refunded twice.
ServedOrRefunded ==
  \A o \in Orders : refunds[o] <= 1 /\ (service[o] => refunds[o] = 0)

\* One request at a time on an order: the handlers implement PurchaseOutcome.
Outcome == INSTANCE PurchaseOutcome WITH
  paid <- {o \in Orders : IF o \in WalletPaid THEN order[o] # "none"
                                              ELSE provider[o] = "paid"},
  served <- {o \in Orders : service[o]}

ImplementsOutcome == Outcome!OutcomeSpec

\* No port is left, and nobody is at work on o.
OutOfPorts(o) ==
  /\ \A s \in Slots : ~Free(s)
  /\ \A r \in Requests : req[r].obj # o

\* A wallet order that was charged is completed or refunded, whichever steps
\* fail, in Incus or because of other requests, but for two cases: its request
\* is interrupted, or the public ports are exhausted, when provisionPaidPurchase
\* returns before the failure is recorded and the customer stays charged.
WalletOrderSettles ==
  \A o \in WalletPaid :
    order[o] = "processing" ~> order[o] \in Final \/ faults > 0 \/ OutOfPorts(o)

\* A QRIS order the customer has paid is completed or refunded in the end,
\* whatever faults interrupt its webhooks, unless the public ports are exhausted.
QrisOrderSettles ==
  \A o \in Orders \ WalletPaid :
    provider[o] = "paid" ~> order[o] \in Final \/ OutOfPorts(o)
=============================================================================
