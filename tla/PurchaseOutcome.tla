-------------------------- MODULE PurchaseOutcome --------------------------
(***************************************************************************)
(* What the platform promises for an order: once it is paid it ends in     *)
(* exactly one way, with a service under the ordered hostname, which no    *)
(* other service has, or with the price given back once.                   *)
(*                                                                         *)
(* This is the abstract specification; module Purchase has the handlers,   *)
(* the provisioner and the provider of payments of the code.               *)
(***************************************************************************)
EXTENDS Naturals

CONSTANTS Orders, Hostnames, HostOf

VARIABLES paid,     \* orders whose price has been taken
          served,   \* orders with a service
          refunds   \* how often an order's price was given back

outcomeVars == <<paid, served, refunds>>

OutcomeInit ==
  /\ paid = {}
  /\ served = {}
  /\ refunds = [o \in Orders |-> 0]

Open(o) == o \in paid /\ o \notin served /\ refunds[o] = 0

Pay(o) ==
  /\ o \notin paid
  /\ paid' = paid \union {o}
  /\ UNCHANGED <<served, refunds>>

Serve(o) ==
  /\ Open(o)
  /\ \A p \in served : HostOf[p] # HostOf[o]
  /\ served' = served \union {o}
  /\ UNCHANGED <<paid, refunds>>

Refund(o) ==
  /\ Open(o)
  /\ refunds' = [refunds EXCEPT ![o] = 1]
  /\ UNCHANGED <<paid, served>>

OutcomeNext == \E o \in Orders : Pay(o) \/ Serve(o) \/ Refund(o)

OutcomeSpec == OutcomeInit /\ [][OutcomeNext]_outcomeVars
=============================================================================
