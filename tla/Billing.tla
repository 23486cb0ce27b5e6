------------------------------- MODULE Billing -------------------------------
(***************************************************************************)
(* The arithmetic of renewals, upgrades and refunds.                       *)
(*                                                                         *)
(* A day counts as one unit of time and of a billing cycle; the code       *)
(* counts both in seconds.  Amounts are integers, the proration is done in *)
(* floating point.                                                         *)
(***************************************************************************)
EXTENDS Integers

\* Definitions marked "Mistake" are not part of the specification.

\* A package at least as large in everything, larger in something, and dearer.
IsEligibleUpgrade(has, price, pkgHas, pkgPrice) ==
  /\ \A x \in DOMAIN has : pkgHas[x] >= has[x]
  /\ \E x \in DOMAIN has : pkgHas[x] > has[x]
  /\ pkgPrice > price

RemainingDuration(expires, now) == IF expires > now THEN expires - now ELSE 0

\* floor(amount * (remaining / cycle)) on floats: if the exact value is an
\* integer and remaining / cycle is none, the product may come out just below.
\* (It never comes out too large: the exact value misses the next integer by
\* more than the rounding of any amount below 10^8.)
Prorated(amount, remaining, cycle) ==
  LET q == (amount * remaining) \div cycle IN
  {q} \union {n \in {q - 1} : /\ n >= 0
                              /\ (amount * remaining) % cycle = 0
                              /\ remaining % cycle # 0}

ProratedRefund(price, remaining, cycle) ==
  IF price <= 0 \/ remaining <= 0 \/ cycle <= 0
    THEN {0} ELSE Prorated(price, remaining, cycle)

ProratedUpgradeCost(price, target, remaining, cycle) ==
  IF target <= price \/ remaining <= 0 \/ cycle <= 0
    THEN {0} ELSE Prorated(target - price, remaining, cycle)

\* From the expiry, or from now if that has passed.
ExtendExpiry(current, now, days) == (IF current > now THEN current ELSE now) + days

\* Mistake: a restart is unknown.
RuntimeStatusesWithoutRestart(action) ==
  IF action = "start" THEN [instance |-> "running", service |-> "active"]
  ELSE IF action = "stop" THEN [instance |-> "stopped", service |-> "stopped"]
  ELSE [instance |-> "pending", service |-> "pending"]

\* The statuses of the instance and of the service after a runtime action.
RuntimeStatuses(action) ==
  IF action = "stop" THEN [instance |-> "stopped", service |-> "stopped"]
                     ELSE [instance |-> "running", service |-> "active"]
=============================================================================
