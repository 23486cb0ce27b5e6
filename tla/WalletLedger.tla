---------------------------- MODULE WalletLedger ----------------------------
(***************************************************************************)
(* What the wallet of the platform promises its users: money only moves    *)
(* with a reason, and every reason is used at most once.                   *)
(*                                                                         *)
(* A top-up credits its amount once.  An order is charged once and, if it  *)
(* fails, refunded once.  A renewal is charged and buys one more billing   *)
(* term.  A cancelled service is refunded once.  An administrator adjusts  *)
(* a balance by a stated amount.  No operation overdraws a wallet and none *)
(* undoes what another did.                                                *)
(*                                                                         *)
(* This is the abstract specification; module Wallet has the handlers of   *)
(* the code, which read a balance first and write an absolute value later. *)
(***************************************************************************)
EXTENDS Naturals

CONSTANTS Users,      \* owners of wallets
          Topups,     \* rows of wallet_topups
          Orders,     \* purchase orders paid from the wallet
          Services,   \* services that are renewed and cancelled
          UserOf,     \* the user of a top-up, an order or a service
          AmountOf,   \* a top-up's amount, an order's price, a renewal's price
          RefundOf,   \* the prorated refund of a service, possibly 0
          Opening,    \* the balances to start with
          Adjustments \* amounts an administrator adds or takes

VARIABLES balance,    \* what each user can spend
          credited,   \* top-ups whose amount has arrived
          charged,    \* orders paid from the wallet
          refunded,   \* orders whose price was given back
          term,       \* billing terms a service has been renewed for
          cancelled   \* services given up and refunded

ledgerVars == <<balance, credited, charged, refunded, term, cancelled>>

LedgerInit ==
  /\ balance = Opening
  /\ credited = {}
  /\ charged = {}
  /\ refunded = {}
  /\ term = [s \in Services |-> 0]
  /\ cancelled = {}

Add(u, amount) == balance' = [balance EXCEPT ![u] = @ + amount]

Take(u, amount) ==
  /\ balance[u] >= amount
  /\ balance' = [balance EXCEPT ![u] = @ - amount]

CreditTopup(t) ==
  /\ t \notin credited
  /\ credited' = credited \union {t}
  /\ Add(UserOf[t], AmountOf[t])
  /\ UNCHANGED <<charged, refunded, term, cancelled>>

ChargeOrder(o) ==
  /\ o \notin charged
  /\ charged' = charged \union {o}
  /\ Take(UserOf[o], AmountOf[o])
  /\ UNCHANGED <<credited, refunded, term, cancelled>>

RefundOrder(o) ==
  /\ o \in charged \ refunded
  /\ refunded' = refunded \union {o}
  /\ Add(UserOf[o], AmountOf[o])
  /\ UNCHANGED <<credited, charged, term, cancelled>>

RenewService(s) ==
  /\ s \notin cancelled
  /\ term' = [term EXCEPT ![s] = @ + 1]
  /\ Take(UserOf[s], AmountOf[s])
  /\ UNCHANGED <<credited, charged, refunded, cancelled>>

CancelService(s) ==
  /\ s \notin cancelled
  /\ cancelled' = cancelled \union {s}
  /\ Add(UserOf[s], RefundOf[s])
  /\ UNCHANGED <<credited, charged, refunded, term>>

Adjust(u, a) ==
  /\ Add(u, a) \/ Take(u, a)
  /\ UNCHANGED <<credited, charged, refunded, term, cancelled>>

LedgerNext ==
  \/ \E t \in Topups : CreditTopup(t)
  \/ \E o \in Orders : ChargeOrder(o) \/ RefundOrder(o)
  \/ \E s \in Services : RenewService(s) \/ CancelService(s)
  \/ \E u \in Users, a \in Adjustments : Adjust(u, a)

LedgerSpec == LedgerInit /\ [][LedgerNext]_ledgerVars
=============================================================================
