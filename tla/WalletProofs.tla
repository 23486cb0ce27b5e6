---------------------------- MODULE WalletProofs ----------------------------
(***************************************************************************)
(* Theorems about module Wallet, for every set of users, top-ups, orders,  *)
(* services and requests and for all amounts.                              *)
(***************************************************************************)
EXTENDS Wallet, TLAPS

\* What a request works on at each step, and the comparison of the loaded
\* balance with the price that still stands when the debit is written.
RequestsWellFormed ==
  \A r \in Requests :
    /\ req[r].step = "settle" => req[r].obj \in Topups
    /\ req[r].step \in {"debit", "provision"} => req[r].obj \in Orders
    /\ req[r].step \in {"renew", "delete", "cancel"} => req[r].obj \in Services
    /\ req[r].step \in {"debit", "renew"} => req[r].bal >= AmountOf[req[r].obj]

TypeInv == TypeOK /\ RequestsWellFormed

-----------------------------------------------------------------------------

LEMMA InitTypeInv == Init => TypeInv
BY WalletAssumption DEF Init, TypeInv, TypeOK, RequestsWellFormed, Idle, Steps,
   NoObject

LEMMA LoadTypeInv ==
  ASSUME TypeInv, NEW r \in Requests, NEW x \in Objects, NEW step \in Steps,
         Loaded(r, step, x), UNCHANGED <<rowVars, qris, incus, adjusts>>,
         step = "settle" => x \in Topups,
         step = "debit" => x \in Orders /\ balance[UserOf[x]] >= AmountOf[x],
         step = "renew" => x \in Services /\ balance[UserOf[x]] >= AmountOf[x],
         step = "delete" => x \in Services,
         step \in {"settle", "debit", "renew", "delete"}
  PROVE  TypeInv'
<1> USE DEF TypeInv, TypeOK, rowVars
<1>1. UserOf[x] \in Users
  BY WalletAssumption
<1>2. balance[UserOf[x]] \in Nat
  BY <1>1
<1>3. [step |-> step, obj |-> x, bal |-> balance[UserOf[x]],
       term |-> IF x \in Services THEN term[x] ELSE 0]
         \in [step : Steps, obj : Objects \union {NoObject}, bal : Nat, term : Nat]
  BY <1>2
<1>4. TypeOK'
  BY <1>3 DEF Loaded
<1>5. RequestsWellFormed'
  <2> SUFFICES ASSUME NEW q \in Requests PROVE
        /\ req'[q].step = "settle" => req'[q].obj \in Topups
        /\ req'[q].step \in {"debit", "provision"} => req'[q].obj \in Orders
        /\ req'[q].step \in {"renew", "delete", "cancel"} => req'[q].obj \in Services
        /\ req'[q].step \in {"debit", "renew"} => req'[q].bal >= AmountOf[req'[q].obj]
    BY DEF RequestsWellFormed
  <2>1. CASE q = r
    BY <2>1 DEF Loaded
  <2>2. CASE q # r
    BY <2>2 DEF Loaded, RequestsWellFormed
  <2> QED BY <2>1, <2>2
<1> QED BY <1>4, <1>5

\* What the wallet part of a transaction leaves well-typed.
LEMMA WriteBalanceType ==
  ASSUME TypeInv, NEW r \in Requests, NEW u \in Users, NEW amount \in Int,
         WriteBalance(r, u, amount), req[r].bal + amount >= 0
  PROVE  balance' \in [Users -> Nat] /\ net' \in [Users -> Int]
<1>1. req[r].bal + amount \in Nat
  BY DEF TypeInv, TypeOK
<1> QED BY <1>1 DEF WriteBalance, TypeInv, TypeOK

\* A request that answers leaves the others as they were.
LEMMA AnswerType ==
  ASSUME TypeInv, NEW r \in Requests, Answer(r)
  PROVE  /\ req' \in [Requests -> [step : Steps, obj : Objects \union {NoObject},
                                    bal : Nat, term : Nat]]
         /\ RequestsWellFormed'
<1>1. Idle \in [step : Steps, obj : Objects \union {NoObject}, bal : Nat, term : Nat]
  BY DEF Idle, Steps
<1>2. \A q \in Requests : req'[q] = IF q = r THEN Idle ELSE req[q]
  BY DEF Answer, TypeInv, TypeOK
<1> QED
  BY <1>1, <1>2 DEF Answer, TypeInv, TypeOK, RequestsWellFormed, Idle

LEMMA RequestStepTypeInv ==
  ASSUME TypeInv, NEW r \in Requests, RequestStep(r)
  PROVE  TypeInv'
<1> DEFINE x == req[r].obj
<1>1. /\ req[r].step \in Steps /\ req[r].bal \in Nat /\ req[r].term \in Nat
      /\ \A y \in Objects : AmountOf[y] \in Nat /\ UserOf[y] \in Users
      /\ \A s \in Services : RefundOf[s] \in Nat
  BY WalletAssumption DEF TypeInv, TypeOK
<1>2. CASE WebhookSettle(r)
  <2>1. x \in Topups
    BY <1>2 DEF WebhookSettle, TypeInv, RequestsWellFormed
  <2>2. balance' \in [Users -> Nat] /\ net' \in [Users -> Int]
    BY <1>1, <1>2, <2>1, WriteBalanceType DEF WebhookSettle, Objects
  <2> QED
    BY <1>2, <2>1, <2>2, AnswerType DEF WebhookSettle, TypeInv, TypeOK
<1>3. CASE PurchaseDebit(r)
  <2>1. x \in Orders /\ req[r].bal >= AmountOf[x]
    BY <1>3 DEF PurchaseDebit, TypeInv, RequestsWellFormed
  <2>2. balance' \in [Users -> Nat] /\ net' \in [Users -> Int]
    BY <1>1, <1>3, <2>1, WriteBalanceType DEF PurchaseDebit, Objects
  <2>3. req[r].bal - AmountOf[x] \in Nat
    BY <1>1, <2>1 DEF Objects
  <2>4. req' = [req EXCEPT ![r] = [step |-> "provision", obj |-> x, term |-> 0,
                                   bal |-> req[r].bal - AmountOf[x]]]
    BY <1>3 DEF PurchaseDebit
  <2>5. TypeOK'
    BY <1>3, <2>1, <2>2, <2>3, <2>4 DEF PurchaseDebit, TypeInv, TypeOK, Steps, Objects
  <2>6. RequestsWellFormed'
    BY <2>1, <2>4 DEF TypeInv, TypeOK, RequestsWellFormed
  <2> QED BY <2>5, <2>6 DEF TypeInv
<1>4. CASE PurchaseComplete(r)
  <2>1. x \in Orders
    BY <1>4 DEF PurchaseComplete, TypeInv, RequestsWellFormed
  <2> QED
    BY <1>4, <2>1, AnswerType DEF PurchaseComplete, TypeInv, TypeOK
<1>5. CASE PurchaseRefund(r)
  <2>1. x \in Orders
    BY <1>5 DEF PurchaseRefund, TypeInv, RequestsWellFormed
  <2>2. balance' \in [Users -> Nat] /\ net' \in [Users -> Int]
    BY <1>1, <1>5, <2>1, WriteBalanceType DEF PurchaseRefund, Objects
  <2> QED
    BY <1>5, <2>1, <2>2, AnswerType DEF PurchaseRefund, TypeInv, TypeOK
<1>6. CASE RenewCommit(r)
  <2>1. x \in Services /\ req[r].bal >= AmountOf[x]
    BY <1>6 DEF RenewCommit, TypeInv, RequestsWellFormed
  <2>2. balance' \in [Users -> Nat] /\ net' \in [Users -> Int]
    BY <1>1, <1>6, <2>1, WriteBalanceType DEF RenewCommit, Objects
  <2> QED
    BY <1>1, <1>6, <2>1, <2>2, AnswerType DEF RenewCommit, TypeInv, TypeOK
<1>7. CASE CancelDelete(r)
  <2>1. x \in Services
    BY <1>7 DEF CancelDelete, TypeInv, RequestsWellFormed
  <2>2. CASE Answer(r)
    BY <1>7, <2>1, <2>2, AnswerType DEF CancelDelete, TypeInv, TypeOK, rowVars
  <2>3. CASE req' = [req EXCEPT ![r].step = "cancel"]
    <3>1. TypeOK'
      BY <1>7, <2>1, <2>3 DEF CancelDelete, TypeInv, TypeOK, rowVars, Steps
    <3>2. RequestsWellFormed'
      BY <1>7, <2>1, <2>3 DEF CancelDelete, TypeInv, TypeOK, RequestsWellFormed
    <3> QED BY <3>1, <3>2 DEF TypeInv
  <2> QED BY <1>7, <2>2, <2>3 DEF CancelDelete
<1>8. CASE CancelCommit(r)
  <2>1. x \in Services
    BY <1>8 DEF CancelCommit, TypeInv, RequestsWellFormed
  <2>2. balance' \in [Users -> Nat] /\ net' \in [Users -> Int]
    <3>1. CASE RefundOf[x] > 0
      BY <1>1, <1>8, <2>1, <3>1, WriteBalanceType DEF CancelCommit, Objects
    <3>2. CASE ~(RefundOf[x] > 0)
      BY <1>8, <3>2 DEF CancelCommit, TypeInv, TypeOK
    <3> QED BY <3>1, <3>2
  <2> QED
    BY <1>8, <2>1, <2>2, AnswerType DEF CancelCommit, TypeInv, TypeOK
<1>9. CASE Abandon(r)
  BY <1>9, AnswerType DEF Abandon, TypeInv, TypeOK, rowVars
<1> QED
  BY <1>2, <1>3, <1>4, <1>5, <1>6, <1>7, <1>8, <1>9 DEF RequestStep

LEMMA NextTypeInv == TypeInv /\ [Next]_vars => TypeInv'
<1> SUFFICES ASSUME TypeInv, [Next]_vars PROVE TypeInv'
  OBVIOUS
<1>1. ASSUME NEW t \in Topups, TopupSubmit(t) PROVE TypeInv'
  BY <1>1 DEF TopupSubmit, TypeInv, TypeOK, RequestsWellFormed
<1>2. ASSUME NEW t \in Topups, CustomerPays(t) PROVE TypeInv'
  BY <1>2 DEF CustomerPays, TypeInv, TypeOK, RequestsWellFormed, rowVars
<1>3. ASSUME NEW r \in Requests, NEW t \in Topups, WebhookLoad(r, t) PROVE TypeInv'
  BY <1>3, LoadTypeInv DEF WebhookLoad, Objects, Steps
<1>4. ASSUME NEW r \in Requests, NEW o \in Orders, PurchaseLoad(r, o) PROVE TypeInv'
  BY <1>4, LoadTypeInv DEF PurchaseLoad, Objects, Steps
<1>5. ASSUME NEW r \in Requests, NEW s \in Services, RenewLoad(r, s) PROVE TypeInv'
  BY <1>5, LoadTypeInv DEF RenewLoad, Objects, Steps
<1>6. ASSUME NEW r \in Requests, NEW s \in Services, CancelLoad(r, s) PROVE TypeInv'
  BY <1>6, LoadTypeInv DEF CancelLoad, Objects, Steps
<1>7. ASSUME NEW r \in Requests, RequestStep(r) PROVE TypeInv'
  BY <1>7, RequestStepTypeInv
<1>8. ASSUME NEW u \in Users, NEW a \in Int, AdjustWallet(u, a) PROVE TypeInv'
  <2>1. balance[u] + a \in Nat
    BY <1>8 DEF AdjustWallet, TypeInv, TypeOK
  <2>2. balance' \in [Users -> Nat] /\ net' \in [Users -> Int] /\ adjusts' \in Nat
    BY <1>8, <2>1 DEF AdjustWallet, TypeInv, TypeOK
  <2> QED
    BY <1>8, <2>2 DEF AdjustWallet, TypeInv, TypeOK, RequestsWellFormed
<1>9. ASSUME NEW u \in Users, NEW a \in Adjustments,
             AdjustWallet(u, a) \/ AdjustWallet(u, -a) PROVE TypeInv'
  BY <1>8, <1>9, WalletAssumption
<1>10. CASE UNCHANGED vars
  BY <1>10 DEF vars, TypeInv, TypeOK, RequestsWellFormed
<1> QED
  BY <1>1, <1>2, <1>3, <1>4, <1>5, <1>6, <1>7, <1>9, <1>10 DEF Next

\* TypeInv holds in every reachable state.
THEOREM TypeInvariant == Spec => []TypeInv
<1> QED BY InitTypeInv, NextTypeInv, PTL DEF Spec

\* Every row and request is well-typed and no wallet is ever overdrawn: the
\* debits of purchase_service.go and action_billing.go subtract from the value
\* they were checked against, whatever the interleaving.
THEOREM TypeCorrect == Spec => []TypeOK
<1>1. TypeInv => TypeOK
  BY DEF TypeInv
<1> QED BY TypeInvariant, <1>1, PTL

-----------------------------------------------------------------------------
(***************************************************************************)
(* What happens once per object.  An order belongs to the one request that *)
(* created it until it is completed or failed; the transaction of a        *)
(* cancellation belongs to the one request that deleted the instance.      *)
(***************************************************************************)

Buying(r) == req[r].step \in {"debit", "provision"}

OrderInv ==
  /\ \A r \in Requests :
       /\ req[r].step = "debit" => order[req[r].obj] = "none"
       /\ req[r].step = "provision" => order[req[r].obj] = "processing"
  /\ \A r, q \in Requests :
       Buying(r) /\ Buying(q) /\ req[r].obj = req[q].obj => r = q

CancelInv ==
  /\ \A r \in Requests :
       req[r].step = "cancel" =>
         service[req[r].obj] = "active" /\ ~incus[req[r].obj]
  /\ \A r, q \in Requests :
       req[r].step = "cancel" /\ req[q].step = "cancel" /\ req[r].obj = req[q].obj
         => r = q

OnceInv ==
  TopupCreditedOnPayment /\ RefundedOnceIfFailed /\ CancelledOnce
    /\ OrderInv /\ CancelInv

LEMMA LoadOnceInv ==
  ASSUME TypeInv, OnceInv, NEW r \in Requests, NEW x \in Objects, NEW step \in Steps,
         req[r].step = "idle",
         Loaded(r, step, x), UNCHANGED <<rowVars, qris, incus, adjusts>>,
         step \in {"settle", "debit", "renew", "delete"},
         step = "debit" => order[x] = "none" /\ \A q \in Requests : req[q].obj # x
  PROVE  OnceInv'
<1> USE DEF TypeInv, OnceInv, rowVars
<1>1. \A q \in Requests :
        /\ q # r => req'[q] = req[q]
        /\ q = r => req'[q].step = step /\ req'[q].obj = x
  BY DEF Loaded, TypeOK
<1>2. TopupCreditedOnPayment' /\ RefundedOnceIfFailed' /\ CancelledOnce'
  BY DEF TopupCreditedOnPayment, RefundedOnceIfFailed, CancelledOnce
<1>3. OrderInv'
  BY <1>1 DEF OrderInv, Buying
<1>4. CancelInv'
  BY <1>1 DEF CancelInv
<1> QED BY <1>2, <1>3, <1>4

\* The requests' part of OnceInv when one of them answers and the rows it is
\* about belong to it.
LEMMA AnswerOnceInv ==
  ASSUME TypeInv, OrderInv, CancelInv, NEW r \in Requests, Answer(r),
         \A q \in Requests : q # r /\ Buying(q) =>
           order'[req[q].obj] = order[req[q].obj],
         \A q \in Requests : q # r /\ req[q].step = "cancel" =>
           /\ service'[req[q].obj] = service[req[q].obj]
           /\ incus'[req[q].obj] = incus[req[q].obj]
  PROVE  OrderInv' /\ CancelInv'
<1>1. \A q \in Requests :
        /\ q # r => req'[q] = req[q]
        /\ q = r => req'[q].step = "idle"
  BY DEF Answer, Idle, TypeInv, TypeOK
<1>2. OrderInv'
  BY <1>1 DEF OrderInv, Buying
<1>3. CancelInv'
  BY <1>1 DEF CancelInv
<1> QED BY <1>2, <1>3

LEMMA RequestStepOnceInv ==
  ASSUME TypeInv, OnceInv, NEW r \in Requests, RequestStep(r)
  PROVE  OnceInv'
<1> DEFINE x == req[r].obj
<1> USE DEF OnceInv
<1>1. CASE WebhookSettle(r)
  <2>1. x \in Topups
    BY <1>1 DEF WebhookSettle, TypeInv, RequestsWellFormed
  <2>2. TopupCreditedOnPayment'
    BY <1>1, <2>1 DEF WebhookSettle, TopupCreditedOnPayment, TypeInv, TypeOK
  <2>3. RefundedOnceIfFailed' /\ CancelledOnce'
    BY <1>1 DEF WebhookSettle, RefundedOnceIfFailed, CancelledOnce
  <2>4. OrderInv' /\ CancelInv'
    BY <1>1, AnswerOnceInv DEF WebhookSettle
  <2> QED BY <2>2, <2>3, <2>4
<1>2. CASE PurchaseDebit(r)
  <2>1. x \in Orders /\ order[x] = "none"
    BY <1>2 DEF PurchaseDebit, TypeInv, RequestsWellFormed, OrderInv
  <2>2. TopupCreditedOnPayment' /\ CancelledOnce'
    BY <1>2 DEF PurchaseDebit, TopupCreditedOnPayment, CancelledOnce
  <2>3. order' = [order EXCEPT ![x] = "processing"] /\ refunds' = refunds
        /\ service' = service /\ incus' = incus
    BY <1>2 DEF PurchaseDebit
  <2>4. RefundedOnceIfFailed'
    BY <2>1, <2>3 DEF RefundedOnceIfFailed, TypeInv, TypeOK
  <2>5. \A q \in Requests :
          /\ q # r => req'[q] = req[q]
          /\ q = r => req'[q].step = "provision" /\ req'[q].obj = x
    BY <1>2 DEF PurchaseDebit, TypeInv, TypeOK
  <2>6. Buying(r) /\ \A q \in Requests : Buying(q) => req[q].obj \in Orders
    BY <1>2 DEF PurchaseDebit, Buying, TypeInv, RequestsWellFormed
  <2>7. OrderInv'
    BY <2>1, <2>3, <2>5, <2>6 DEF OrderInv, Buying, TypeInv, TypeOK
  <2>8. CancelInv'
    BY <2>3, <2>5 DEF CancelInv
  <2> QED BY <2>2, <2>4, <2>7, <2>8
<1>3. CASE PurchaseComplete(r) \/ PurchaseRefund(r)
  <2>1. x \in Orders /\ order[x] = "processing"
    BY <1>3 DEF PurchaseComplete, PurchaseRefund, TypeInv, RequestsWellFormed, OrderInv
  <2>2. TopupCreditedOnPayment' /\ CancelledOnce'
    BY <1>3 DEF PurchaseComplete, PurchaseRefund, TopupCreditedOnPayment, CancelledOnce
  <2>3. RefundedOnceIfFailed'
    BY <1>3, <2>1 DEF PurchaseComplete, PurchaseRefund, RefundedOnceIfFailed, TypeInv, TypeOK
  <2>4. Answer(r) /\ service' = service /\ incus' = incus
        /\ \A o \in Orders : o # x => order'[o] = order[o]
    BY <1>3, <2>1 DEF PurchaseComplete, PurchaseRefund, TypeInv, TypeOK
  <2>5. Buying(r) /\ \A q \in Requests : Buying(q) => req[q].obj \in Orders
    BY <1>3 DEF PurchaseComplete, PurchaseRefund, Buying, TypeInv, RequestsWellFormed
  <2>6. \A q \in Requests : q # r /\ Buying(q) => order'[req[q].obj] = order[req[q].obj]
    BY <2>4, <2>5 DEF OrderInv
  <2>7. OrderInv' /\ CancelInv'
    BY <2>4, <2>6, AnswerOnceInv
  <2> QED BY <2>2, <2>3, <2>7
<1>4. CASE RenewCommit(r)
  <2>1. TopupCreditedOnPayment' /\ RefundedOnceIfFailed' /\ CancelledOnce'
    BY <1>4 DEF RenewCommit, TopupCreditedOnPayment, RefundedOnceIfFailed, CancelledOnce
  <2>2. OrderInv' /\ CancelInv'
    BY <1>4, AnswerOnceInv DEF RenewCommit
  <2> QED BY <2>1, <2>2
<1>5. CASE CancelDelete(r)
  <2>1. x \in Services
    BY <1>5 DEF CancelDelete, TypeInv, RequestsWellFormed
  <2>2. incus' = [incus EXCEPT ![x] = FALSE] /\ UNCHANGED rowVars /\ UNCHANGED qris
    BY <1>5 DEF CancelDelete
  <2>3. TopupCreditedOnPayment' /\ RefundedOnceIfFailed'
    BY <2>2 DEF rowVars, TopupCreditedOnPayment, RefundedOnceIfFailed
  <2>4. CancelledOnce'
    BY <2>1, <2>2 DEF rowVars, CancelledOnce, TypeInv, TypeOK
  <2>5. \A q \in Requests : req[q].step = "cancel" => req[q].obj \in Services
    BY DEF TypeInv, RequestsWellFormed
  <2>6. CASE incus[x]
    <3>1. service[x] = "active"
      BY <2>1, <2>6 DEF CancelledOnce, TypeInv, TypeOK
    <3>2. \A q \in Requests : req[q].step = "cancel" => req[q].obj # x
      BY <2>6 DEF CancelInv
    <3>3. \A q \in Requests :
            /\ q # r => req'[q] = req[q]
            /\ q = r => req'[q].step = "cancel" /\ req'[q].obj = x
      BY <1>5, <2>6 DEF CancelDelete, TypeInv, TypeOK
    <3>4. CancelInv'
      BY <2>1, <2>2, <2>5, <3>1, <3>2, <3>3 DEF CancelInv, TypeInv, TypeOK, rowVars
    <3>5. OrderInv'
      BY <2>2, <3>3 DEF OrderInv, Buying, rowVars
    <3> QED BY <2>3, <2>4, <3>4, <3>5
  <2>7. CASE ~incus[x]
    <3>1. incus' = incus /\ Answer(r)
      BY <1>5, <2>1, <2>2, <2>7 DEF CancelDelete, TypeInv, TypeOK
    <3>2. OrderInv' /\ CancelInv'
      BY <2>2, <3>1, AnswerOnceInv DEF rowVars
    <3> QED BY <2>3, <2>4, <3>2
  <2> QED BY <2>6, <2>7
<1>6. CASE CancelCommit(r)
  <2>1. x \in Services /\ service[x] = "active" /\ ~incus[x]
    BY <1>6 DEF CancelCommit, TypeInv, RequestsWellFormed, CancelInv
  <2>2. TopupCreditedOnPayment' /\ RefundedOnceIfFailed'
    BY <1>6 DEF CancelCommit, TopupCreditedOnPayment, RefundedOnceIfFailed
  <2>3. CancelledOnce'
    BY <1>6, <2>1 DEF CancelCommit, CancelledOnce, TypeInv, TypeOK
  <2>4. \A q \in Requests : req[q].step = "cancel" => req[q].obj \in Services
    BY DEF TypeInv, RequestsWellFormed
  <2>5. \A q \in Requests : q # r /\ req[q].step = "cancel" =>
          service'[req[q].obj] = service[req[q].obj]
    BY <1>6, <2>1, <2>4 DEF CancelCommit, CancelInv, TypeInv, TypeOK
  <2>6. OrderInv' /\ CancelInv'
    BY <1>6, <2>5, AnswerOnceInv DEF CancelCommit
  <2> QED BY <2>2, <2>3, <2>6
<1>7. CASE Abandon(r)
  <2>1. TopupCreditedOnPayment' /\ RefundedOnceIfFailed' /\ CancelledOnce'
    BY <1>7 DEF Abandon, rowVars, TopupCreditedOnPayment, RefundedOnceIfFailed, CancelledOnce
  <2>2. OrderInv' /\ CancelInv'
    BY <1>7, AnswerOnceInv DEF Abandon, rowVars
  <2> QED BY <2>1, <2>2
<1> QED
  BY <1>1, <1>2, <1>3, <1>4, <1>5, <1>6, <1>7 DEF RequestStep

LEMMA NextOnceInv == TypeInv /\ OnceInv /\ [Next]_vars => OnceInv'
<1> SUFFICES ASSUME TypeInv, OnceInv, [Next]_vars PROVE OnceInv'
  OBVIOUS
<1> USE DEF OnceInv
<1>1. ASSUME NEW t \in Topups, TopupSubmit(t) PROVE OnceInv'
  <2>1. TopupCreditedOnPayment'
    BY <1>1 DEF TopupSubmit, TopupCreditedOnPayment, TypeInv, TypeOK
  <2> QED
    BY <1>1, <2>1 DEF TopupSubmit, RefundedOnceIfFailed, CancelledOnce,
       OrderInv, CancelInv, Buying
<1>2. ASSUME NEW t \in Topups, CustomerPays(t) PROVE OnceInv'
  <2>1. TopupCreditedOnPayment'
    BY <1>2 DEF CustomerPays, TopupCreditedOnPayment, TypeInv, TypeOK, rowVars
  <2> QED
    BY <1>2, <2>1 DEF CustomerPays, RefundedOnceIfFailed, CancelledOnce,
       OrderInv, CancelInv, Buying, rowVars
<1>3. ASSUME NEW r \in Requests, NEW t \in Topups, WebhookLoad(r, t) PROVE OnceInv'
  BY <1>3, LoadOnceInv DEF WebhookLoad, Objects, Steps
<1>4. ASSUME NEW r \in Requests, NEW o \in Orders, PurchaseLoad(r, o) PROVE OnceInv'
  BY <1>4, LoadOnceInv DEF PurchaseLoad, Objects, Steps
<1>5. ASSUME NEW r \in Requests, NEW s \in Services, RenewLoad(r, s) PROVE OnceInv'
  BY <1>5, LoadOnceInv DEF RenewLoad, Objects, Steps
<1>6. ASSUME NEW r \in Requests, NEW s \in Services, CancelLoad(r, s) PROVE OnceInv'
  BY <1>6, LoadOnceInv DEF CancelLoad, Objects, Steps
<1>7. ASSUME NEW r \in Requests, RequestStep(r) PROVE OnceInv'
  BY <1>7, RequestStepOnceInv
<1>8. ASSUME NEW u \in Users, NEW a, AdjustWallet(u, a) PROVE OnceInv'
  BY <1>8 DEF AdjustWallet, TopupCreditedOnPayment, RefundedOnceIfFailed,
     CancelledOnce, OrderInv, CancelInv, Buying
<1>9. CASE UNCHANGED vars
  BY <1>9 DEF vars, TopupCreditedOnPayment, RefundedOnceIfFailed,
     CancelledOnce, OrderInv, CancelInv, Buying
<1> QED
  BY <1>1, <1>2, <1>3, <1>4, <1>5, <1>6, <1>7, <1>8, <1>9 DEF Next

\* OnceInv holds in every reachable state.
THEOREM OnceInvariant == Spec => []OnceInv
<1>1. Init => OnceInv
  BY DEF Init, OnceInv, TopupCreditedOnPayment, RefundedOnceIfFailed, CancelledOnce,
     OrderInv, CancelInv, Buying, Idle
<1> QED BY <1>1, TypeInvariant, NextOnceInv, PTL DEF Spec

\* A top-up is paid exactly when it has been credited, and credited only after
\* the customer paid, for any number of webhook deliveries in any order.
THEOREM TopupsSound == Spec => []TopupCreditedOnPayment
<1> QED BY OnceInvariant, PTL DEF OnceInv

\* persistPurchaseFailure refunds a failed wallet order once and no other.
THEOREM RefundsSound == Spec => []RefundedOnceIfFailed
<1> QED BY OnceInvariant, PTL DEF OnceInv

\* CancelSubmit refunds a service at most once, any number of requests racing.
THEOREM CancelSound == Spec => []CancelledOnce
<1> QED BY OnceInvariant, PTL DEF OnceInv

-----------------------------------------------------------------------------
(***************************************************************************)
(* Where a balance and its ledger come apart.                              *)
(***************************************************************************)

LEMMA WriteBalanceDrift ==
  ASSUME TypeInv, NEW r \in Requests, NEW x \in Objects, NEW amount \in Int,
         req[r].step # "idle", req'[r].step # req[r].step, req[r].obj = x,
         WriteBalance(r, UserOf[x], amount)
  PROVE  StaleWriteExplainsDrift
<1> SUFFICES ASSUME NEW u \in Users, balance'[u] - net'[u] # balance[u] - net[u]
             PROVE  UserOf[x] = u /\ req[r].bal # balance[u]
  BY DEF StaleWriteExplainsDrift
<1>1. balance[u] \in Nat /\ net[u] \in Int /\ req[r].bal \in Nat
  BY DEF TypeInv, TypeOK
<1>2. UserOf[x] = u
  BY <1>1 DEF WriteBalance, TypeInv, TypeOK
<1>3. balance'[u] = req[r].bal + amount /\ net'[u] = net[u] + amount
  BY <1>2 DEF WriteBalance, TypeInv, TypeOK
<1> QED BY <1>1, <1>2, <1>3

LEMMA NextDrift == TypeInv /\ [Next]_vars => [StaleWriteExplainsDrift]_vars
<1> SUFFICES ASSUME TypeInv, Next PROVE StaleWriteExplainsDrift
  OBVIOUS
<1>1. ASSUME UNCHANGED <<balance, net>> PROVE StaleWriteExplainsDrift
  BY <1>1 DEF StaleWriteExplainsDrift
<1>2. ASSUME NEW t \in Topups, TopupSubmit(t) \/ CustomerPays(t)
      PROVE  StaleWriteExplainsDrift
  BY <1>1, <1>2 DEF TopupSubmit, CustomerPays, rowVars
<1>3. ASSUME NEW r \in Requests,
             \/ \E t \in Topups : WebhookLoad(r, t)
             \/ \E o \in Orders : PurchaseLoad(r, o)
             \/ \E s \in Services : RenewLoad(r, s) \/ CancelLoad(r, s)
      PROVE  StaleWriteExplainsDrift
  BY <1>1, <1>3 DEF WebhookLoad, PurchaseLoad, RenewLoad, CancelLoad, rowVars
<1>4. ASSUME NEW r \in Requests, RequestStep(r) PROVE StaleWriteExplainsDrift
  <2> DEFINE x == req[r].obj
  <2>1. /\ req[r].step \in Steps
        /\ \A y \in Objects : AmountOf[y] \in Nat
        /\ \A s \in Services : RefundOf[s] \in Nat
    BY WalletAssumption DEF TypeInv, TypeOK
  <2>2. req[r].step \notin {"idle", "none"} => x \in Objects
    BY <2>1 DEF TypeInv, RequestsWellFormed, Steps, Objects
  <2>3. Answer(r) => req'[r].step = "idle"
    BY DEF Answer, Idle, TypeInv, TypeOK
  <2>4. CASE WebhookSettle(r)
    BY <2>1, <2>2, <2>3, <2>4, WriteBalanceDrift DEF WebhookSettle
  <2>5. CASE PurchaseDebit(r)
    <3>1. req'[r].step = "provision"
      BY <2>5 DEF PurchaseDebit, TypeInv, TypeOK
    <3> QED
      BY <2>1, <2>2, <2>5, <3>1, WriteBalanceDrift DEF PurchaseDebit
  <2>6. CASE PurchaseRefund(r)
    BY <2>1, <2>2, <2>3, <2>6, WriteBalanceDrift DEF PurchaseRefund
  <2>7. CASE RenewCommit(r)
    BY <2>1, <2>2, <2>3, <2>7, WriteBalanceDrift DEF RenewCommit
  <2>8. CASE CancelCommit(r)
    <3>1. x \in Services
      BY <2>8 DEF CancelCommit, TypeInv, RequestsWellFormed
    <3>2. CASE RefundOf[x] > 0
      BY <2>1, <2>2, <2>3, <2>8, <3>1, <3>2, WriteBalanceDrift DEF CancelCommit
    <3>3. CASE ~(RefundOf[x] > 0)
      BY <1>1, <2>8, <3>3 DEF CancelCommit
    <3> QED BY <3>2, <3>3
  <2>9. CASE PurchaseComplete(r) \/ CancelDelete(r) \/ Abandon(r)
    BY <1>1, <2>9 DEF PurchaseComplete, CancelDelete, Abandon, rowVars
  <2> QED
    BY <1>4, <2>4, <2>5, <2>6, <2>7, <2>8, <2>9 DEF RequestStep
<1>5. ASSUME NEW u \in Users, NEW a \in Int, AdjustWallet(u, a)
      PROVE  StaleWriteExplainsDrift
  <2> SUFFICES ASSUME NEW v \in Users PROVE balance'[v] - net'[v] = balance[v] - net[v]
    BY DEF StaleWriteExplainsDrift
  <2>1. balance[v] \in Nat /\ net[v] \in Int
    BY DEF TypeInv, TypeOK
  <2> QED BY <1>5, <2>1 DEF AdjustWallet, TypeInv, TypeOK
<1>6. ASSUME NEW u \in Users, NEW a \in Adjustments,
             AdjustWallet(u, a) \/ AdjustWallet(u, -a)
      PROVE  StaleWriteExplainsDrift
  BY <1>5, <1>6, WalletAssumption
<1> QED
  BY <1>2, <1>3, <1>4, <1>6 DEF Next

\* A wallet and its ledger come apart only where a request overwrites a balance
\* that changed after the request had loaded it.
THEOREM DriftSound == Spec => DriftOnlyByStaleWrite
<1> QED BY TypeInvariant, NextDrift, PTL DEF Spec, DriftOnlyByStaleWrite

-----------------------------------------------------------------------------
(***************************************************************************)
(* If the requests of a user ran one at a time, each would still hold, when *)
(* it writes, what it loaded.                                              *)
(***************************************************************************)

Alone ==
  \A r, q \in Requests :
    req[r].step # "idle" /\ req[q].step # "idle"
      /\ UserOf[req[r].obj] = UserOf[req[q].obj] => r = q

Fresh ==
  \A r \in Requests :
    /\ req[r].step # "idle" => req[r].bal = balance[UserOf[req[r].obj]]
    /\ req[r].step = "settle" => topup[req[r].obj] = "pending"
    /\ req[r].step = "renew" => /\ req[r].term = term[req[r].obj]
                               /\ service[req[r].obj] = "active"

SerialInv ==
  Alone /\ Fresh /\ BalanceMatchesLedger /\ TopupCreditedOnce /\ TermsMatchRenewals

LEMMA LoadSerialInv ==
  ASSUME TypeInv, SerialInv, NEW r \in Requests, NEW x \in Objects, NEW step,
         Serialized, MayEnter(UserOf[x]),
         Loaded(r, step, x), UNCHANGED <<rowVars, qris, incus, adjusts>>,
         step = "settle" => topup[x] = "pending",
         step = "renew" => x \in Services /\ service[x] = "active"
  PROVE  SerialInv'
<1> USE DEF SerialInv, rowVars
<1>1. \A q \in Requests :
        /\ q # r => req'[q] = req[q]
        /\ q = r => /\ req'[q].step = step /\ req'[q].obj = x
                    /\ req'[q].bal = balance[UserOf[x]]
                    /\ x \in Services => req'[q].term = term[x]
  BY DEF Loaded, TypeInv, TypeOK
<1>2. \A q \in Requests : req[q].step # "idle" => UserOf[req[q].obj] # UserOf[x]
  BY DEF MayEnter, Busy
<1>3. Alone'
  BY <1>1, <1>2 DEF Alone
<1>4. Fresh'
  BY <1>1 DEF Fresh
<1>5. BalanceMatchesLedger' /\ TopupCreditedOnce' /\ TermsMatchRenewals'
  BY DEF BalanceMatchesLedger, TopupCreditedOnce, TermsMatchRenewals
<1> QED BY <1>3, <1>4, <1>5

\* A request that answers has changed rows of its own user only.
LEMMA AnswerSerialInv ==
  ASSUME TypeInv, Alone, Fresh, NEW r \in Requests, req[r].step # "idle", Answer(r),
         \A q \in Requests :
           req[q].step # "idle" /\ UserOf[req[q].obj] # UserOf[req[r].obj] =>
             /\ balance'[UserOf[req[q].obj]] = balance[UserOf[req[q].obj]]
             /\ req[q].step = "settle" => topup'[req[q].obj] = topup[req[q].obj]
             /\ req[q].step = "renew" => /\ term'[req[q].obj] = term[req[q].obj]
                                        /\ service'[req[q].obj] = service[req[q].obj]
  PROVE  Alone' /\ Fresh'
<1>1. \A q \in Requests :
        /\ q # r => req'[q] = req[q]
        /\ q = r => req'[q].step = "idle"
  BY DEF Answer, Idle, TypeInv, TypeOK
<1>2. Alone'
  BY <1>1 DEF Alone
<1>3. \A q \in Requests :
        q # r /\ req[q].step # "idle" => UserOf[req[q].obj] # UserOf[req[r].obj]
  BY DEF Alone
<1>4. Fresh'
  BY <1>1, <1>3 DEF Fresh
<1> QED BY <1>2, <1>4

\* A transaction of a request that is alone keeps balance and ledger together.
LEMMA WriteBalanceSerial ==
  ASSUME TypeInv, Fresh, BalanceMatchesLedger, NEW r \in Requests,
         NEW x \in Objects, req[r].step # "idle", req[r].obj = x,
         NEW amount \in Int, WriteBalance(r, UserOf[x], amount)
  PROVE  /\ BalanceMatchesLedger'
         /\ balance' = [balance EXCEPT ![UserOf[x]] = @ + amount]
         /\ \A u \in Users : u # UserOf[x] => balance'[u] = balance[u]
<1>1. UserOf[x] \in Users /\ Opening \in [Users -> Nat]
  BY WalletAssumption
<1>2. req[r].bal = balance[UserOf[x]]
  BY DEF Fresh
<1>3. balance \in [Users -> Nat] /\ net \in [Users -> Int]
  BY DEF TypeInv, TypeOK
<1>4. balance' = [balance EXCEPT ![UserOf[x]] = @ + amount]
  BY <1>2 DEF WriteBalance
<1>5. BalanceMatchesLedger'
  BY <1>1, <1>3, <1>4 DEF WriteBalance, BalanceMatchesLedger
<1> QED BY <1>3, <1>4, <1>5

LEMMA RequestStepSerialInv ==
  ASSUME TypeInv, OnceInv, SerialInv, NEW r \in Requests, RequestStep(r)
  PROVE  SerialInv'
<1> DEFINE x == req[r].obj
<1> USE DEF SerialInv
<1>1. /\ req[r].step \in Steps
      /\ \A y \in Objects : AmountOf[y] \in Nat /\ UserOf[y] \in Users
      /\ \A s \in Services : RefundOf[s] \in Nat
  BY WalletAssumption DEF TypeInv, TypeOK
<1>2. \A q \in Requests :
        /\ req[q].step # "idle" => req[q].obj \in Objects
        /\ req[q].step = "settle" => req[q].obj \in Topups
        /\ req[q].step = "renew" => req[q].obj \in Services
  BY DEF TypeInv, TypeOK, RequestsWellFormed, Steps, Objects
<1>3. CASE WebhookSettle(r)
  <2>1. x \in Topups /\ x \in Objects /\ topup[x] = "pending"
    BY <1>3, <1>2 DEF WebhookSettle, Fresh
  <2>2. /\ BalanceMatchesLedger'
        /\ \A u \in Users : u # UserOf[x] => balance'[u] = balance[u]
    BY <1>1, <1>3, <2>1, WriteBalanceSerial DEF WebhookSettle
  <2>3. Alone' /\ Fresh'
    <3>1. \A t \in Topups : t # x => topup'[t] = topup[t]
      BY <1>3 DEF WebhookSettle, TypeInv, TypeOK
    <3> QED
      BY <1>1, <1>2, <1>3, <2>2, <3>1, AnswerSerialInv DEF WebhookSettle
  <2>4. TopupCreditedOnce' /\ TermsMatchRenewals'
    <3>1. credits[x] = 0
      BY <2>1 DEF OnceInv, TopupCreditedOnPayment, TypeInv, TypeOK
    <3> QED
      BY <1>3, <2>1, <3>1
      DEF WebhookSettle, TopupCreditedOnce, TermsMatchRenewals, TypeInv, TypeOK
  <2> QED BY <2>2, <2>3, <2>4
<1>4. CASE PurchaseDebit(r)
  <2>1. x \in Orders /\ x \in Objects /\ x \notin Topups /\ x \notin Services
    BY <1>4, WalletAssumption DEF PurchaseDebit, TypeInv, RequestsWellFormed, Objects
  <2>2. /\ BalanceMatchesLedger'
        /\ balance' = [balance EXCEPT ![UserOf[x]] = @ + (-AmountOf[x])]
        /\ \A u \in Users : u # UserOf[x] => balance'[u] = balance[u]
    BY <1>1, <1>4, <2>1, WriteBalanceSerial DEF PurchaseDebit
  <2>3. \A q \in Requests :
          /\ q # r => req'[q] = req[q]
          /\ q = r => /\ req'[q].step = "provision" /\ req'[q].obj = x
                      /\ req'[q].bal = req[r].bal - AmountOf[x]
    BY <1>4 DEF PurchaseDebit, TypeInv, TypeOK
  <2>4. Alone'
    BY <1>4, <2>3 DEF PurchaseDebit, Alone
  <2>5. \A q \in Requests :
          q # r /\ req[q].step # "idle" => UserOf[req[q].obj] # UserOf[x]
    BY <1>4 DEF PurchaseDebit, Alone
  <2>6. balance'[UserOf[x]] = req[r].bal - AmountOf[x]
    BY <1>1, <1>4, <2>1, <2>2 DEF PurchaseDebit, Fresh, TypeInv, TypeOK
  <2>7. Fresh'
    <3> SUFFICES ASSUME NEW q \in Requests PROVE
          /\ req'[q].step # "idle" => req'[q].bal = balance'[UserOf[req'[q].obj]]
          /\ req'[q].step = "settle" => topup'[req'[q].obj] = "pending"
          /\ req'[q].step = "renew" => /\ req'[q].term = term'[req'[q].obj]
                                      /\ service'[req'[q].obj] = "active"
      BY DEF Fresh
    <3>1. CASE q = r
      BY <2>3, <2>6, <3>1
    <3>2. CASE q # r
      BY <1>1, <1>2, <1>4, <2>2, <2>3, <2>5, <3>2 DEF PurchaseDebit, Fresh
    <3> QED BY <3>1, <3>2
  <2>8. TopupCreditedOnce' /\ TermsMatchRenewals'
    BY <1>4 DEF PurchaseDebit, TopupCreditedOnce, TermsMatchRenewals
  <2> QED BY <2>2, <2>4, <2>7, <2>8
<1>5. CASE PurchaseRefund(r)
  <2>1. x \in Objects
    BY <1>2, <1>5 DEF PurchaseRefund
  <2>2. /\ BalanceMatchesLedger'
        /\ \A u \in Users : u # UserOf[x] => balance'[u] = balance[u]
    BY <1>1, <1>5, <2>1, WriteBalanceSerial DEF PurchaseRefund
  <2>3. Alone' /\ Fresh'
    BY <1>1, <1>2, <1>5, <2>2, AnswerSerialInv DEF PurchaseRefund
  <2>4. TopupCreditedOnce' /\ TermsMatchRenewals'
    BY <1>5 DEF PurchaseRefund, TopupCreditedOnce, TermsMatchRenewals
  <2> QED BY <2>2, <2>3, <2>4
<1>6. CASE RenewCommit(r)
  <2>1. x \in Services /\ x \in Objects /\ req[r].term = term[x]
    BY <1>2, <1>6 DEF RenewCommit, Fresh
  <2>2. /\ BalanceMatchesLedger'
        /\ \A u \in Users : u # UserOf[x] => balance'[u] = balance[u]
    BY <1>1, <1>6, <2>1, WriteBalanceSerial DEF RenewCommit
  <2>3. Alone' /\ Fresh'
    <3>1. \A s \in Services : s # x => term'[s] = term[s]
      BY <1>6 DEF RenewCommit, TypeInv, TypeOK
    <3> QED
      BY <1>1, <1>2, <1>6, <2>2, <3>1, AnswerSerialInv DEF RenewCommit
  <2>4. TopupCreditedOnce' /\ TermsMatchRenewals'
    BY <1>6, <2>1 DEF RenewCommit, TopupCreditedOnce, TermsMatchRenewals, TypeInv, TypeOK
  <2> QED BY <2>2, <2>3, <2>4
<1>7. CASE CancelCommit(r)
  <2>1. x \in Services /\ x \in Objects
    BY <1>2, <1>7 DEF CancelCommit, TypeInv, RequestsWellFormed
  <2>2. /\ BalanceMatchesLedger'
        /\ \A u \in Users : u # UserOf[x] => balance'[u] = balance[u]
    <3>1. CASE RefundOf[x] > 0
      BY <1>1, <1>7, <2>1, <3>1, WriteBalanceSerial DEF CancelCommit
    <3>2. CASE ~(RefundOf[x] > 0)
      BY <1>7, <3>2 DEF CancelCommit, BalanceMatchesLedger
    <3> QED BY <3>1, <3>2
  <2>3. Alone' /\ Fresh'
    <3>1. \A s \in Services : s # x => service'[s] = service[s]
      BY <1>7 DEF CancelCommit, TypeInv, TypeOK
    <3> QED
      BY <1>1, <1>2, <1>7, <2>2, <3>1, AnswerSerialInv DEF CancelCommit
  <2>4. TopupCreditedOnce' /\ TermsMatchRenewals'
    BY <1>7 DEF CancelCommit, TopupCreditedOnce, TermsMatchRenewals
  <2> QED BY <2>2, <2>3, <2>4
<1>8. CASE CancelDelete(r)
  <2>1. UNCHANGED rowVars /\ req[r].step = "delete"
    BY <1>8 DEF CancelDelete
  <2>2. BalanceMatchesLedger' /\ TopupCreditedOnce' /\ TermsMatchRenewals'
    BY <2>1 DEF rowVars, BalanceMatchesLedger, TopupCreditedOnce, TermsMatchRenewals
  <2>3. CASE Answer(r)
    BY <2>1, <2>2, <2>3, AnswerSerialInv DEF rowVars
  <2>4. CASE req' = [req EXCEPT ![r].step = "cancel"]
    <3>1. \A q \in Requests :
            /\ q # r => req'[q] = req[q]
            /\ q = r => req'[q].step = "cancel" /\ req'[q].obj = x
                        /\ req'[q].bal = req[r].bal
      BY <2>4 DEF TypeInv, TypeOK
    <3>2. Alone'
      BY <2>1, <3>1 DEF Alone
    <3>3. Fresh'
      BY <2>1, <3>1 DEF Fresh, rowVars
    <3> QED BY <2>2, <3>2, <3>3
  <2> QED BY <1>8, <2>3, <2>4 DEF CancelDelete
<1>9. CASE PurchaseComplete(r) \/ Abandon(r)
  <2>1. /\ Answer(r) /\ req[r].step # "idle"
        /\ UNCHANGED <<balance, net, topup, credits, service, term, renewals>>
    BY <1>9 DEF PurchaseComplete, Abandon, rowVars
  <2>2. Alone' /\ Fresh'
    BY <2>1, AnswerSerialInv
  <2> QED
    BY <2>1, <2>2 DEF BalanceMatchesLedger, TopupCreditedOnce, TermsMatchRenewals
<1> QED
  BY <1>3, <1>4, <1>5, <1>6, <1>7, <1>8, <1>9 DEF RequestStep

LEMMA NextSerialInv ==
  ASSUME Serialized, TypeInv, OnceInv, SerialInv, [Next]_vars
  PROVE  SerialInv'
<1> USE DEF SerialInv
<1>1. ASSUME NEW t \in Topups, TopupSubmit(t) \/ CustomerPays(t) PROVE SerialInv'
  <2>1. \A q \in Requests : req[q].step = "settle" => req[q].obj \in Topups
    BY DEF TypeInv, RequestsWellFormed
  <2>2. \A y \in Topups : topup[y] = "pending" => topup'[y] = "pending"
    BY <1>1 DEF TopupSubmit, CustomerPays, rowVars, TypeInv, TypeOK
  <2>3. UNCHANGED <<balance, net, credits, service, term, renewals, req>>
    BY <1>1 DEF TopupSubmit, CustomerPays, rowVars
  <2>4. Fresh'
    BY <2>1, <2>2, <2>3 DEF Fresh
  <2> QED
    BY <2>3, <2>4 DEF Alone, BalanceMatchesLedger, TopupCreditedOnce,
       TermsMatchRenewals
<1>2. ASSUME NEW r \in Requests, NEW t \in Topups, WebhookLoad(r, t) PROVE SerialInv'
  BY <1>2, LoadSerialInv DEF WebhookLoad, Objects
<1>3. ASSUME NEW r \in Requests, NEW o \in Orders, PurchaseLoad(r, o) PROVE SerialInv'
  BY <1>3, LoadSerialInv DEF PurchaseLoad, Objects
<1>4. ASSUME NEW r \in Requests, NEW s \in Services, RenewLoad(r, s) PROVE SerialInv'
  BY <1>4, LoadSerialInv DEF RenewLoad, Objects
<1>5. ASSUME NEW r \in Requests, NEW s \in Services, CancelLoad(r, s) PROVE SerialInv'
  BY <1>5, LoadSerialInv DEF CancelLoad, Objects
<1>6. ASSUME NEW r \in Requests, RequestStep(r) PROVE SerialInv'
  BY <1>6, RequestStepSerialInv
<1>7. ASSUME NEW u \in Users, NEW a \in Int, AdjustWallet(u, a) PROVE SerialInv'
  <2>1. \A q \in Requests : req[q].step # "idle" => UserOf[req[q].obj] # u
    BY <1>7 DEF AdjustWallet, MayEnter, Busy
  <2>2. Fresh'
    <3>1. \A v : v # u => balance'[v] = balance[v]
      BY <1>7 DEF AdjustWallet
    <3> QED BY <1>7, <2>1, <3>1 DEF AdjustWallet, Fresh
  <2>3. BalanceMatchesLedger'
    <3> SUFFICES ASSUME NEW v \in Users PROVE balance'[v] = Opening[v] + net'[v]
      BY DEF BalanceMatchesLedger
    <3>1. /\ balance[v] \in Int /\ net[v] \in Int /\ Opening[v] \in Int
          /\ balance[v] = Opening[v] + net[v]
      BY WalletAssumption DEF BalanceMatchesLedger, TypeInv, TypeOK
    <3>2. /\ balance'[v] = IF v = u THEN balance[v] + a ELSE balance[v]
          /\ net'[v] = IF v = u THEN net[v] + a ELSE net[v]
      BY <1>7 DEF AdjustWallet, TypeInv, TypeOK
    <3> QED BY <3>1, <3>2
  <2> QED
    BY <1>7, <2>2, <2>3 DEF AdjustWallet, Alone, TopupCreditedOnce, TermsMatchRenewals
<1>8. ASSUME NEW u \in Users, NEW a \in Adjustments,
             AdjustWallet(u, a) \/ AdjustWallet(u, -a) PROVE SerialInv'
  BY <1>7, <1>8, WalletAssumption
<1>9. CASE UNCHANGED vars
  BY <1>9 DEF vars, Alone, Fresh, BalanceMatchesLedger, TopupCreditedOnce,
     TermsMatchRenewals
<1> QED
  BY <1>1, <1>2, <1>3, <1>4, <1>5, <1>6, <1>8, <1>9 DEF Next

\* SerialInv holds in every reachable state when requests of a user are served
\* one at a time.
THEOREM SerialInvariant == ASSUME Serialized PROVE Spec => []SerialInv
<1>1. Init => SerialInv
  BY WalletAssumption DEF Init, SerialInv, Alone, Fresh, BalanceMatchesLedger,
     TopupCreditedOnce, TermsMatchRenewals, Idle
<1>2. TypeInv /\ OnceInv /\ SerialInv /\ [Next]_vars => SerialInv'
  BY NextSerialInv
<1> QED BY <1>1, <1>2, TypeInvariant, OnceInvariant, PTL DEF Spec

\* One request of a user at a time: his balance is what his ledger adds up to.
THEOREM SerialBalance == ASSUME Serialized PROVE Spec => []BalanceMatchesLedger
<1> QED BY SerialInvariant, PTL DEF SerialInv

\* One request of a user at a time: a top-up is credited once, however often the
\* provider delivers its webhook.
THEOREM SerialTopups == ASSUME Serialized PROVE Spec => []TopupCreditedOnce
<1> QED BY SerialInvariant, PTL DEF SerialInv

\* One request of a user at a time: every paid renewal extends the service.
THEOREM SerialTerms == ASSUME Serialized PROVE Spec => []TermsMatchRenewals
<1> QED BY SerialInvariant, PTL DEF SerialInv

-----------------------------------------------------------------------------
(***************************************************************************)
(* Refinement: every step of the handlers is a step of the ledger or       *)
(* leaves it alone.                                                        *)
(***************************************************************************)

Credited == {t \in Topups : topup[t] = "paid"}
Charged == {o \in Orders : order[o] # "none"}
Refunded == {o \in Orders : order[o] = "failed"}
Cancelled == {s \in Services : service[s] = "terminated"}

LEMMA RequestStepRefines ==
  ASSUME TypeInv, OnceInv, SerialInv, NEW r \in Requests, RequestStep(r),
         NEW x \in Objects, req[r].obj = x
  PROVE  [Ledger!LedgerNext]_(Ledger!ledgerVars)
<1> USE DEF SerialInv
<1>1. /\ req[r].step \in Steps
      /\ \A y \in Objects : AmountOf[y] \in Nat /\ UserOf[y] \in Users
      /\ \A s \in Services : RefundOf[s] \in Nat
      /\ balance \in [Users -> Nat]
  BY WalletAssumption DEF TypeInv, TypeOK
<1>2. req[r].step # "idle" => req[r].bal = balance[UserOf[x]]
  BY DEF Fresh
<1>3. CASE WebhookSettle(r)
  <2>1. x \in Topups /\ topup[x] = "pending"
    BY <1>3 DEF WebhookSettle, TypeInv, RequestsWellFormed, Fresh
  <2>2. balance' = [balance EXCEPT ![UserOf[x]] = @ + AmountOf[x]]
    BY <1>2, <1>3 DEF WebhookSettle, WriteBalance
  <2>3. Credited' = Credited \union {x} /\ x \notin Credited
    BY <1>3, <2>1 DEF WebhookSettle, Credited, TypeInv, TypeOK
  <2>4. Ledger!CreditTopup(x)
    BY <1>3, <2>2, <2>3 DEF WebhookSettle, Ledger!CreditTopup, Ledger!Add, Credited
  <2> QED BY <2>1, <2>4 DEF Ledger!LedgerNext
<1>4. CASE PurchaseDebit(r)
  <2>1. x \in Orders /\ order[x] = "none" /\ req[r].bal >= AmountOf[x]
    BY <1>4 DEF PurchaseDebit, TypeInv, RequestsWellFormed, OnceInv, OrderInv
  <2>2. balance' = [balance EXCEPT ![UserOf[x]] = @ - AmountOf[x]]
    <3>1. balance' = [balance EXCEPT ![UserOf[x]] = @ + (-AmountOf[x])]
      BY <1>2, <1>4 DEF PurchaseDebit, WriteBalance
    <3>2. balance[UserOf[x]] + (-AmountOf[x]) = balance[UserOf[x]] - AmountOf[x]
      BY <1>1, <2>1 DEF Objects
    <3> QED BY <3>1, <3>2
  <2>3. Charged' = Charged \union {x} /\ x \notin Charged /\ Refunded' = Refunded
    BY <1>4, <2>1 DEF PurchaseDebit, Charged, Refunded, TypeInv, TypeOK
  <2>4. Ledger!ChargeOrder(x)
    BY <1>2, <1>4, <2>1, <2>2, <2>3
    DEF PurchaseDebit, Ledger!ChargeOrder, Ledger!Take, Charged, Refunded
  <2> QED BY <2>1, <2>4 DEF Ledger!LedgerNext
<1>5. CASE PurchaseComplete(r)
  <2>1. x \in Orders /\ order[x] = "processing"
    BY <1>5 DEF PurchaseComplete, TypeInv, RequestsWellFormed, OnceInv, OrderInv
  <2>2. Charged' = Charged /\ Refunded' = Refunded
    BY <1>5, <2>1 DEF PurchaseComplete, Charged, Refunded, TypeInv, TypeOK
  <2> QED BY <1>5, <2>2 DEF PurchaseComplete, Charged, Refunded, Ledger!ledgerVars
<1>6. CASE PurchaseRefund(r)
  <2>1. x \in Orders /\ order[x] = "processing"
    BY <1>6 DEF PurchaseRefund, TypeInv, RequestsWellFormed, OnceInv, OrderInv
  <2>2. balance' = [balance EXCEPT ![UserOf[x]] = @ + AmountOf[x]]
    BY <1>2, <1>6 DEF PurchaseRefund, WriteBalance
  <2>3. /\ Refunded' = Refunded \union {x} /\ x \in Charged \ Refunded
        /\ Charged' = Charged
    BY <1>6, <2>1 DEF PurchaseRefund, Charged, Refunded, TypeInv, TypeOK
  <2>4. Ledger!RefundOrder(x)
    BY <1>6, <2>2, <2>3
    DEF PurchaseRefund, Ledger!RefundOrder, Ledger!Add, Charged, Refunded
  <2> QED BY <2>1, <2>4 DEF Ledger!LedgerNext
<1>7. CASE RenewCommit(r)
  <2>1. /\ x \in Services /\ req[r].bal >= AmountOf[x]
        /\ req[r].term = term[x] /\ service[x] = "active"
    BY <1>7 DEF RenewCommit, TypeInv, RequestsWellFormed, Fresh
  <2>2. balance' = [balance EXCEPT ![UserOf[x]] = @ - AmountOf[x]]
    <3>1. balance' = [balance EXCEPT ![UserOf[x]] = @ + (-AmountOf[x])]
      BY <1>2, <1>7 DEF RenewCommit, WriteBalance
    <3>2. balance[UserOf[x]] + (-AmountOf[x]) = balance[UserOf[x]] - AmountOf[x]
      BY <1>1, <2>1 DEF Objects
    <3> QED BY <3>1, <3>2
  <2>3. Ledger!RenewService(x)
    BY <1>2, <1>7, <2>1, <2>2
    DEF RenewCommit, Ledger!RenewService, Ledger!Take
  <2> QED BY <2>1, <2>3 DEF Ledger!LedgerNext
<1>8. CASE CancelCommit(r)
  <2>1. x \in Services /\ service[x] = "active"
    BY <1>8 DEF CancelCommit, TypeInv, RequestsWellFormed, OnceInv, CancelInv
  <2>2. balance' = [balance EXCEPT ![UserOf[x]] = @ + RefundOf[x]]
    <3>1. CASE RefundOf[x] > 0
      BY <1>2, <1>8, <3>1 DEF CancelCommit, WriteBalance
    <3>2. CASE ~(RefundOf[x] > 0)
      <4>1. balance[UserOf[x]] + RefundOf[x] = balance[UserOf[x]]
        BY <1>1, <2>1, <3>2 DEF Objects
      <4> QED BY <1>1, <1>8, <3>2, <4>1 DEF CancelCommit
    <3> QED BY <3>1, <3>2
  <2>3. Cancelled' = Cancelled \union {x} /\ x \notin Cancelled
    BY <1>8, <2>1 DEF CancelCommit, Cancelled, TypeInv, TypeOK
  <2>4. Ledger!CancelService(x)
    BY <1>8, <2>2, <2>3 DEF CancelCommit, Ledger!CancelService, Ledger!Add, Cancelled
  <2> QED BY <2>1, <2>4 DEF Ledger!LedgerNext
<1>9. CASE CancelDelete(r) \/ Abandon(r)
  BY <1>9 DEF CancelDelete, Abandon, rowVars, Ledger!ledgerVars
<1> QED
  BY <1>3, <1>4, <1>5, <1>6, <1>7, <1>8, <1>9 DEF RequestStep

LEMMA NextRefines ==
  TypeInv /\ OnceInv /\ SerialInv /\ [Next]_vars
    => [Ledger!LedgerNext]_(Ledger!ledgerVars)
<1> SUFFICES ASSUME TypeInv, OnceInv, SerialInv, [Next]_vars
             PROVE  [Ledger!LedgerNext]_(Ledger!ledgerVars)
  OBVIOUS
<1>1. ASSUME NEW t \in Topups, TopupSubmit(t) \/ CustomerPays(t)
      PROVE  UNCHANGED Ledger!ledgerVars
  <2>1. /\ \A y \in Topups : topup'[y] = "paid" <=> topup[y] = "paid"
        /\ UNCHANGED <<balance, order, term, service>>
    BY <1>1 DEF TopupSubmit, CustomerPays, rowVars, TypeInv, TypeOK
  <2> QED BY <2>1 DEF Ledger!ledgerVars
<1>2. ASSUME NEW r \in Requests,
             \/ \E t \in Topups : WebhookLoad(r, t)
             \/ \E o \in Orders : PurchaseLoad(r, o)
             \/ \E s \in Services : RenewLoad(r, s) \/ CancelLoad(r, s)
      PROVE  UNCHANGED Ledger!ledgerVars
  BY <1>2 DEF WebhookLoad, PurchaseLoad, RenewLoad, CancelLoad, rowVars,
     Ledger!ledgerVars
<1>3. ASSUME NEW r \in Requests, RequestStep(r)
      PROVE  [Ledger!LedgerNext]_(Ledger!ledgerVars)
  <2>1. req[r].obj \in Objects
    BY <1>3 DEF RequestStep, WebhookSettle, PurchaseDebit, PurchaseComplete,
       PurchaseRefund, RenewCommit, CancelDelete, CancelCommit, Abandon,
       TypeInv, TypeOK, RequestsWellFormed, Steps, Objects
  <2>2. PICK x \in Objects : req[r].obj = x
    BY <2>1
  <2> QED BY <1>3, <2>2, RequestStepRefines
<1>4. ASSUME NEW u \in Users, NEW a \in Adjustments,
             AdjustWallet(u, a) \/ AdjustWallet(u, -a)
      PROVE  Ledger!LedgerNext
  <2>1. a \in Nat /\ balance \in [Users -> Nat]
    BY WalletAssumption DEF TypeInv, TypeOK
  <2>2. CASE AdjustWallet(u, a)
    <3>1. Ledger!Adjust(u, a)
      BY <2>2 DEF AdjustWallet, Ledger!Adjust, Ledger!Add
    <3> QED BY <3>1 DEF Ledger!LedgerNext
  <2>3. CASE AdjustWallet(u, -a)
    <3>1. balance[u] + (-a) = balance[u] - a /\ balance[u] >= a
      BY <2>1, <2>3 DEF AdjustWallet
    <3>2. Ledger!Adjust(u, a)
      BY <2>3, <3>1 DEF AdjustWallet, Ledger!Adjust, Ledger!Take
    <3> QED BY <3>2 DEF Ledger!LedgerNext
  <2> QED BY <1>4, <2>2, <2>3
<1>5. CASE UNCHANGED vars
  BY <1>5 DEF vars, Ledger!ledgerVars
<1> QED
  BY <1>1, <1>2, <1>3, <1>4, <1>5 DEF Next

\* One request of a user at a time: the handlers implement WalletLedger, so that
\* every change of a balance is an operation the ledger allows, at most once.
THEOREM SerialRefinement == ASSUME Serialized PROVE Spec => ImplementsLedger
<1>1. Init => Ledger!LedgerInit
  BY DEF Init, Ledger!LedgerInit
<1> QED
  BY <1>1, TypeInvariant, OnceInvariant, SerialInvariant, NextRefines, PTL
  DEF Spec, ImplementsLedger, Ledger!LedgerSpec
=============================================================================
