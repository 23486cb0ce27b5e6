------------------------------- MODULE Wallet -------------------------------
(***************************************************************************)
(* The operations that move money through a wallet, as the HTTP handlers   *)
(* carry them out.  A handler loads the user with his wallet outside any   *)
(* transaction, decides and calls other systems on what it loaded, and     *)
(* then opens a transaction that writes the balance it computed (an        *)
(* absolute value, WHERE id = ?) with the ledger row and the rows of the   *)
(* operation.  Only the administrator's adjustment locks the wallet row.   *)
(* Handlers of different requests interleave between load and transaction. *)
(***************************************************************************)
EXTENDS Integers

CONSTANTS Users, Topups, Orders, Services,
          UserOf, AmountOf, RefundOf, Opening,
          Adjustments,  \* amounts of administrator adjustments
          MaxAdjusts,   \* bound: adjustments in a behaviour
          MaxRenewals,  \* bound: renewals of a service in a behaviour
          Requests,     \* HTTP requests being served
          Serialized    \* TRUE: the requests of one user run one at a time
                        \* (the code does not do this: FALSE is the program)

Objects == Topups \union Orders \union Services

\* The definitions marked "Mistake" are not part of the specification: each is
\* the definition below it as a plausible mistake would have it, and shows that
\* a property notices the mistake.

ASSUME WalletAssumption ==
  /\ UserOf \in [Objects -> Users]
  /\ AmountOf \in [Objects -> Nat \ {0}]    \* CHECK (amount > 0)
  /\ RefundOf \in [Services -> Nat]
  /\ Opening \in [Users -> Nat]
  /\ Adjustments \subseteq Nat \ {0}
  /\ MaxAdjusts \in Nat
  /\ MaxRenewals \in Nat
  /\ Serialized \in BOOLEAN
  /\ Topups \intersect Orders = {}
  /\ Topups \intersect Services = {}
  /\ Orders \intersect Services = {}

VARIABLES
  balance,   \* wallets.balance of each user
  net,       \* credits minus debits over the user's wallet_transactions rows
  topup,     \* wallet_topups.status, "none" before the row exists
  qris,      \* what the provider knows of a top-up's QR code
  credits,   \* wallet_transactions rows of a top-up
  order,     \* orders.status of a wallet purchase
  refunds,   \* refund rows of an order
  service,   \* services.status
  incus,     \* whether the service's instance exists in Incus
  term,      \* billing terms added to services.expires_at
  renewals,  \* completed renewal orders of a service
  cancels,   \* service_canceled events of a service
  adjusts,   \* adjustments so far
  req        \* each request: its step, object, and what it has loaded

rowVars == <<balance, net, topup, credits, order, refunds, service, term,
             renewals, cancels>>
vars == <<balance, net, topup, qris, credits, order, refunds, service, incus,
          term, renewals, cancels, adjusts, req>>

NoObject == "none"
Idle == [step |-> "idle", obj |-> NoObject, bal |-> 0, term |-> 0]

Steps == {"idle", "settle", "debit", "provision", "renew", "delete", "cancel"}

\* A request holds the wallet it loaded until it answers.
Loaded(r, step, x) ==
  req' = [req EXCEPT ![r] = [step |-> step, obj |-> x,
                             bal |-> balance[UserOf[x]],
                             term |-> IF x \in Services THEN term[x] ELSE 0]]

Busy(u) == \E r \in Requests : req[r].step # "idle" /\ UserOf[req[r].obj] = u

\* Nothing in the code keeps two requests of one user apart.
MayEnter(u) == Serialized => ~Busy(u)

Answer(r) == req' = [req EXCEPT ![r] = Idle]

\* The wallet part of every transaction: balance is written as computed from
\* what the request loaded, and the ledger gets one row of the amount.
WriteBalance(r, u, amount) ==
  /\ balance' = [balance EXCEPT ![u] = req[r].bal + amount]
  /\ net' = [net EXCEPT ![u] = @ + amount]

Init ==
  /\ balance = Opening
  /\ net = [u \in Users |-> 0]
  /\ topup = [t \in Topups |-> "none"]
  /\ qris = [t \in Topups |-> "none"]
  /\ credits = [t \in Topups |-> 0]
  /\ order = [o \in Orders |-> "none"]
  /\ refunds = [o \in Orders |-> 0]
  /\ service = [s \in Services |-> "active"]
  /\ incus = [s \in Services |-> TRUE]
  /\ term = [s \in Services |-> 0]
  /\ renewals = [s \in Services |-> 0]
  /\ cancels = [s \in Services |-> 0]
  /\ adjusts = 0
  /\ req = [r \in Requests |-> Idle]

(***************************************************************************)
(* Top-ups                                                                 *)
(***************************************************************************)

\* WalletTopupSubmit: the QR code is created at the provider, then the
\* top-up and its payment are inserted in one transaction, which may fail.
TopupSubmit(t) ==
  /\ topup[t] = "none" /\ qris[t] = "none"
  /\ qris' = [qris EXCEPT ![t] = "open"]
  /\ topup' \in {topup, [topup EXCEPT ![t] = "pending"]}
  /\ UNCHANGED <<balance, net, credits, order, refunds, service, incus, term,
                 renewals, cancels, adjusts, req>>

\* External: the customer, who has seen the code only if the submit
\* succeeded, pays it.
CustomerPays(t) ==
  /\ topup[t] = "pending" /\ qris[t] = "open"
  /\ qris' = [qris EXCEPT ![t] = "paid"]
  /\ UNCHANGED <<rowVars, incus, adjusts, req>>

\* Mistake: a settled top-up is not acknowledged but settled again.
LoadSettledToo(r, t) ==
  /\ req[r].step = "idle"
  /\ topup[t] # "none"
  /\ MayEnter(UserOf[t])
  /\ Loaded(r, "settle", t)
  /\ UNCHANGED <<rowVars, qris, incus, adjusts>>

\* A delivery of the provider's webhook, the first or a repeated one, finds
\* the top-up and its user's wallet; settled top-ups are acknowledged at once.
WebhookLoad(r, t) ==
  /\ req[r].step = "idle"
  /\ topup[t] = "pending"
  /\ MayEnter(UserOf[t])
  /\ Loaded(r, "settle", t)
  /\ UNCHANGED <<rowVars, qris, incus, adjusts>>

\* Mistake: the webhook's status is believed without asking the provider.
SettleUnverified(r) ==
  LET t == req[r].obj IN
  /\ req[r].step = "settle"
  /\ topup' = [topup EXCEPT ![t] = "paid"]
  /\ credits' = [credits EXCEPT ![t] = @ + 1]
  /\ WriteBalance(r, UserOf[t], AmountOf[t])
  /\ Answer(r)
  /\ UNCHANGED <<qris, order, refunds, service, incus, term, renewals,
                 cancels, adjusts>>

\* Mistake: the top-up is marked paid in a transaction before the credit's.
SettleInTwo(r) ==
  LET t == req[r].obj IN
  /\ req[r].step = "settle"
  /\ qris[t] = "paid"
  /\ topup' = [topup EXCEPT ![t] = "paid"]
  /\ IF topup[t] = "pending"
       THEN UNCHANGED <<credits, balance, net, req>>
       ELSE /\ credits' = [credits EXCEPT ![t] = @ + 1]
            /\ WriteBalance(r, UserOf[t], AmountOf[t])
            /\ Answer(r)
  /\ UNCHANGED <<qris, order, refunds, service, incus, term, renewals,
                 cancels, adjusts>>

\* The provider confirms the payment and one transaction settles the top-up;
\* a rejected verification answers with an error (Abandon).
WebhookSettle(r) ==
  LET t == req[r].obj IN
  /\ req[r].step = "settle"
  /\ qris[t] = "paid"
  /\ topup' = [topup EXCEPT ![t] = "paid"]
  /\ credits' = [credits EXCEPT ![t] = @ + 1]
  /\ WriteBalance(r, UserOf[t], AmountOf[t])
  /\ Answer(r)
  /\ UNCHANGED <<qris, order, refunds, service, incus, term, renewals,
                 cancels, adjusts>>

(***************************************************************************)
(* Purchases paid from the wallet                                          *)
(***************************************************************************)

\* Mistake: the balance is not compared with the price.
PurchaseOnCredit(r, o) ==
  /\ req[r].step = "idle"
  /\ order[o] = "none"
  /\ \A q \in Requests : req[q].obj # o
  /\ MayEnter(UserOf[o])
  /\ Loaded(r, "debit", o)
  /\ UNCHANGED <<rowVars, qris, incus, adjusts>>

\* BuyVPSSubmit and submitWalletPurchase, up to the transaction: the loaded
\* balance must cover the price.
PurchaseLoad(r, o) ==
  /\ req[r].step = "idle"
  /\ order[o] = "none"
  /\ \A q \in Requests : req[q].obj # o      \* an order id is fresh
  /\ MayEnter(UserOf[o])
  /\ balance[UserOf[o]] >= AmountOf[o]
  /\ Loaded(r, "debit", o)
  /\ UNCHANGED <<rowVars, qris, incus, adjusts>>

\* Mistake: the request keeps the balance from before the debit.
DebitForgotten(r) ==
  LET o == req[r].obj IN
  /\ req[r].step = "debit"
  /\ order' = [order EXCEPT ![o] = "processing"]
  /\ WriteBalance(r, UserOf[o], -AmountOf[o])
  /\ req' = [req EXCEPT ![r].step = "provision"]
  /\ UNCHANGED <<topup, qris, credits, refunds, service, incus, term,
                 renewals, cancels, adjusts>>

\* The order is inserted as paid and processing, and the wallet debited; the
\* request keeps the new balance for a refund.
PurchaseDebit(r) ==
  LET o == req[r].obj IN
  /\ req[r].step = "debit"
  /\ order' = [order EXCEPT ![o] = "processing"]
  /\ WriteBalance(r, UserOf[o], -AmountOf[o])
  /\ req' = [req EXCEPT ![r] = [step |-> "provision", obj |-> o, term |-> 0,
                                bal |-> req[r].bal - AmountOf[o]]]
  /\ UNCHANGED <<topup, qris, credits, refunds, service, incus, term,
                 renewals, cancels, adjusts>>

\* Provisioning, minutes later, succeeded: persistPurchaseSuccess.
PurchaseComplete(r) ==
  /\ req[r].step = "provision"
  /\ order' = [order EXCEPT ![req[r].obj] = "completed"]
  /\ Answer(r)
  /\ UNCHANGED <<balance, net, topup, qris, credits, refunds, service, incus,
                 term, renewals, cancels, adjusts>>

\* Mistake: each failed attempt is refunded, and the next one tried.
RefundEachAttempt(r) ==
  LET o == req[r].obj IN
  /\ req[r].step = "provision"
  /\ order' = [order EXCEPT ![o] = "failed"]
  /\ refunds' = [refunds EXCEPT ![o] = (@ + 1) % 3]
  /\ WriteBalance(r, UserOf[o], AmountOf[o])
  /\ UNCHANGED <<topup, qris, credits, service, incus, term, renewals,
                 cancels, adjusts, req>>

\* Mistake: the refund changes the balance and writes no ledger row.
RefundUnlogged(r) ==
  LET o == req[r].obj IN
  /\ req[r].step = "provision"
  /\ order' = [order EXCEPT ![o] = "failed"]
  /\ refunds' = [refunds EXCEPT ![o] = @ + 1]
  /\ balance' = [balance EXCEPT ![UserOf[o]] = req[r].bal + AmountOf[o]]
  /\ Answer(r)
  /\ UNCHANGED <<net, topup, qris, credits, service, incus, term, renewals,
                 cancels, adjusts>>

\* All attempts failed: persistPurchaseFailure gives the price back, on top
\* of the balance the request has kept since the debit.
PurchaseRefund(r) ==
  LET o == req[r].obj IN
  /\ req[r].step = "provision"
  /\ order' = [order EXCEPT ![o] = "failed"]
  /\ refunds' = [refunds EXCEPT ![o] = @ + 1]
  /\ WriteBalance(r, UserOf[o], AmountOf[o])
  /\ Answer(r)
  /\ UNCHANGED <<topup, qris, credits, service, incus, term, renewals,
                 cancels, adjusts>>

(***************************************************************************)
(* Renewals and cancellations                                              *)
(***************************************************************************)

\* RenewSubmit, wallet branch, up to the transaction: the service must be
\* operable and the loaded balance must cover the package's price.
RenewLoad(r, s) ==
  /\ req[r].step = "idle"
  /\ renewals[s] < MaxRenewals
  /\ MayEnter(UserOf[s])
  /\ service[s] = "active"
  /\ balance[UserOf[s]] >= AmountOf[s]
  /\ Loaded(r, "renew", s)
  /\ UNCHANGED <<rowVars, qris, incus, adjusts>>

\* Mistake: the term starts now instead of at the current expiry.
RenewFromNow(r) ==
  LET s == req[r].obj IN
  /\ req[r].step = "renew"
  /\ WriteBalance(r, UserOf[s], -AmountOf[s])
  /\ term' = [term EXCEPT ![s] = 1]
  /\ renewals' = [renewals EXCEPT ![s] = @ + 1]
  /\ Answer(r)
  /\ UNCHANGED <<topup, qris, credits, order, refunds, service, incus,
                 cancels, adjusts>>

\* expires_at, like the balance, is written as computed from what was loaded.
RenewCommit(r) ==
  LET s == req[r].obj IN
  /\ req[r].step = "renew"
  /\ WriteBalance(r, UserOf[s], -AmountOf[s])
  /\ term' = [term EXCEPT ![s] = req[r].term + 1]
  /\ renewals' = [renewals EXCEPT ![s] = @ + 1]
  /\ Answer(r)
  /\ UNCHANGED <<topup, qris, credits, order, refunds, service, incus,
                 cancels, adjusts>>

\* CancelSubmit loads the service whatever its status.
CancelLoad(r, s) ==
  /\ req[r].step = "idle"
  /\ MayEnter(UserOf[s])
  /\ Loaded(r, "delete", s)
  /\ UNCHANGED <<rowVars, qris, incus, adjusts>>

\* Mistake: a missing instance counts as deleted, as it does in the
\* provisioner's own clean-up.
DeleteTolerant(r) ==
  /\ req[r].step = "delete"
  /\ incus' = [incus EXCEPT ![req[r].obj] = FALSE]
  /\ req' = [req EXCEPT ![r].step = "cancel"]
  /\ UNCHANGED <<rowVars, qris, adjusts>>

\* DeleteInstance: Incus deletes an instance once, and a request that finds
\* it gone answers with the error.
CancelDelete(r) ==
  LET s == req[r].obj IN
  /\ req[r].step = "delete"
  /\ incus' = [incus EXCEPT ![s] = FALSE]
  /\ IF incus[s] THEN req' = [req EXCEPT ![r].step = "cancel"] ELSE Answer(r)
  /\ UNCHANGED <<rowVars, qris, adjusts>>

\* Mistake: the refund is written and the service left as it was.
CancelUnmarked(r) ==
  LET s == req[r].obj IN
  /\ req[r].step = "cancel"
  /\ WriteBalance(r, UserOf[s], RefundOf[s])
  /\ cancels' = [cancels EXCEPT ![s] = @ + 1]
  /\ Answer(r)
  /\ UNCHANGED <<topup, qris, credits, order, refunds, service, incus, term,
                 renewals, adjusts>>

\* The transaction after the deletion; a refund of 0 writes no wallet row.
CancelCommit(r) ==
  LET s == req[r].obj IN
  /\ req[r].step = "cancel"
  /\ IF RefundOf[s] > 0
       THEN WriteBalance(r, UserOf[s], RefundOf[s])
       ELSE UNCHANGED <<balance, net>>
  /\ service' = [service EXCEPT ![s] = "terminated"]
  /\ cancels' = [cancels EXCEPT ![s] = @ + 1]
  /\ Answer(r)
  /\ UNCHANGED <<topup, qris, credits, order, refunds, incus, term, renewals,
                 adjusts>>

(***************************************************************************)
(* The administrator's adjustment, and requests that stop half-way         *)
(***************************************************************************)

\* AdjustWallet reads the balance under SELECT ... FOR UPDATE in the
\* transaction that writes it, and refuses to overdraw.
AdjustWallet(u, amount) ==
  /\ adjusts < MaxAdjusts
  /\ MayEnter(u)
  /\ balance[u] + amount >= 0
  /\ balance' = [balance EXCEPT ![u] = @ + amount]
  /\ net' = [net EXCEPT ![u] = @ + amount]
  /\ adjusts' = adjusts + 1
  /\ UNCHANGED <<topup, qris, credits, order, refunds, service, incus, term,
                 renewals, cancels, req>>

\* The process crashes, the caller disconnects, or a call or a transaction
\* fails: the open transaction rolls back, and nothing resumes the request.
Abandon(r) ==
  /\ req[r].step # "idle"
  /\ Answer(r)
  /\ UNCHANGED <<rowVars, qris, incus, adjusts>>

RequestStep(r) ==
  \/ WebhookSettle(r)
  \/ PurchaseDebit(r)
  \/ PurchaseComplete(r)
  \/ PurchaseRefund(r)
  \/ RenewCommit(r)
  \/ CancelDelete(r)
  \/ CancelCommit(r)
  \/ Abandon(r)

Next ==
  \/ \E t \in Topups : TopupSubmit(t) \/ CustomerPays(t)
  \/ \E r \in Requests :
       \/ \E t \in Topups : WebhookLoad(r, t)
       \/ \E o \in Orders : PurchaseLoad(r, o)
       \/ \E s \in Services : RenewLoad(r, s) \/ CancelLoad(r, s)
       \/ RequestStep(r)
  \/ \E u \in Users, a \in Adjustments : AdjustWallet(u, a) \/ AdjustWallet(u, -a)

Spec == Init /\ [][Next]_vars

(***************************************************************************)
(* Fairness, for the liveness of top-ups only: a request comes to an end,  *)
(* the provider delivers its webhook again until a delivery is             *)
(* acknowledged, and not every delivery fails.  The code gives the first   *)
(* (each external call returns); the other two are the provider's part.    *)
(***************************************************************************)
Settles(t) == \E r \in Requests : req[r].obj = t /\ WebhookSettle(r)

FairSpec ==
  /\ Spec
  /\ \A r \in Requests : WF_vars(RequestStep(r))
  /\ \A t \in Topups : /\ SF_vars(\E r \in Requests : WebhookLoad(r, t))
                       /\ SF_vars(Settles(t))

-----------------------------------------------------------------------------
(***************************************************************************)
(* Properties                                                              *)
(***************************************************************************)

\* Every row and request has the values the code can give it; a balance is
\* never negative, because each debit was checked against the very value it
\* subtracts from (purchase_service.go:516, action_billing.go:81).
TypeOK ==
  /\ balance \in [Users -> Nat]
  /\ net \in [Users -> Int]
  /\ topup \in [Topups -> {"none", "pending", "paid"}]
  /\ qris \in [Topups -> {"none", "open", "paid"}]
  /\ credits \in [Topups -> Nat]
  /\ order \in [Orders -> {"none", "processing", "completed", "failed"}]
  /\ refunds \in [Orders -> Nat]
  /\ service \in [Services -> {"active", "terminated"}]
  /\ incus \in [Services -> BOOLEAN]
  /\ term \in [Services -> Nat]
  /\ renewals \in [Services -> Nat]
  /\ cancels \in [Services -> Nat]
  /\ adjusts \in Nat
  /\ req \in [Requests -> [step : Steps, obj : Objects \union {NoObject},
                           bal : Nat, term : Nat]]

\* A top-up is marked paid exactly when the ledger holds a credit for it, and
\* only after the customer paid: the webhook's word is never enough, and no
\* crash between two deliveries leaves one without the other.
TopupCreditedOnPayment ==
  \A t \in Topups : /\ topup[t] = "paid" <=> credits[t] > 0
                    /\ credits[t] > 0 => qris[t] = "paid"

\* A wallet order is refunded exactly once if it fails and never otherwise,
\* wherever its request was interrupted and whatever ran beside it.
RefundedOnceIfFailed ==
  \A o \in Orders : refunds[o] = IF order[o] = "failed" THEN 1 ELSE 0

\* A service is cancelled, and its remaining time refunded, at most once,
\* though CancelSubmit never looks at the status: the deletion of the
\* instance, which happens once, stands between the load and the refund.
CancelledOnce ==
  \A s \in Services :
    /\ cancels[s] = IF service[s] = "terminated" THEN 1 ELSE 0
    /\ service[s] = "terminated" => ~incus[s]

\* A step that changes a balance by another amount than its ledger row says
\* writes what a request computed from a balance that has changed since.
StaleWriteExplainsDrift ==
  \A u \in Users :
    balance'[u] - net'[u] # balance[u] - net[u] =>
      \E r \in Requests : /\ req[r].step # "idle" /\ req'[r] # req[r]
                         /\ UserOf[req[r].obj] = u
                         /\ req[r].bal # balance[u]

\* The balance and its ledger come apart only in a transaction of a request
\* that loaded a balance which had changed since: crashes, retries and failed
\* transactions alone never lose or create money.
DriftOnlyByStaleWrite == [][StaleWriteExplainsDrift]_vars

\* The balance of a wallet is its opening balance plus its ledger.
BalanceMatchesLedger == \A u \in Users : balance[u] = Opening[u] + net[u]

\* A top-up is credited at most once, however often its webhook arrives.
TopupCreditedOnce == \A t \in Topups : credits[t] <= 1

\* A service has been extended by as many terms as renewals were paid.
TermsMatchRenewals == \A s \in Services : term[s] = renewals[s]

\* The handlers implement the ledger that WalletLedger promises.
Ledger == INSTANCE WalletLedger WITH
  credited <- {t \in Topups : topup[t] = "paid"},
  charged <- {o \in Orders : order[o] # "none"},
  refunded <- {o \in Orders : order[o] = "failed"},
  cancelled <- {s \in Services : service[s] = "terminated"}

ImplementsLedger == Ledger!LedgerSpec

\* A top-up the customer has paid is credited in the end, whatever deliveries
\* are lost to crashes and failed calls: none of them may leave it in a state
\* that later deliveries take for settled.
PaidTopupIsCredited ==
  \A t \in Topups : qris[t] = "paid" ~> credits[t] > 0
=============================================================================
