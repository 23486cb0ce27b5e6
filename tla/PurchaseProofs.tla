--------------------------- MODULE PurchaseProofs ---------------------------
(***************************************************************************)
(* Theorems about module Purchase, for every set of orders, hostnames,     *)
(* ports and requests and for any number of attempts and faults.           *)
(***************************************************************************)
EXTENDS Purchase, TLAPS

\* At these steps a request is provisioning its order.
Working == {"allocate", "create", "configure", "forward", "success", "failure"}

\* At these steps it has an instance in Incus and no record of it yet.
Holding == {"configure", "forward", "success"}

RequestsWellFormed ==
  \A r \in Requests :
    /\ req[r].step # "idle" => req[r].obj \in Orders
    /\ req[r].step \in {"create"} \union Holding => req[r].slot \in Slots

TypeInv == TypeOK /\ RequestsWellFormed

-----------------------------------------------------------------------------
(***************************************************************************)
(* How a request moves.                                                    *)
(***************************************************************************)

Moves(r) == \A q \in Requests : q # r => req'[q] = req[q]

ReqType == [Requests -> [step : Steps, obj : Orders \union {NoOrder},
                         attempt : 0 .. MaxAttempts, slot : Nat]]

LEMMA AnswerFacts ==
  ASSUME TypeInv, NEW r \in Requests, Answer(r)
  PROVE  /\ req' \in ReqType /\ RequestsWellFormed' /\ Moves(r)
         /\ req'[r].step = "idle" /\ req'[r].obj = NoOrder
<1>1. Idle \in [step : Steps, obj : Orders \union {NoOrder},
                attempt : 0 .. MaxAttempts, slot : Nat]
  BY PurchaseAssumption DEF Idle, Steps
<1>2. req' \in ReqType /\ Moves(r) /\ req'[r].step = "idle" /\ req'[r].obj = NoOrder
  BY <1>1 DEF Answer, TypeInv, TypeOK, ReqType, Moves, Idle
<1> QED BY <1>2 DEF Moves, TypeInv, RequestsWellFormed, Holding

LEMMA GotoFacts ==
  ASSUME TypeInv, NEW r \in Requests, NEW step \in Steps, Goto(r, step),
         step # "idle", req[r].step # "idle",
         step \in {"create"} \union Holding => req[r].step \in {"create"} \union Holding
  PROVE  /\ req' \in ReqType /\ RequestsWellFormed' /\ Moves(r)
         /\ req'[r].step = step /\ req'[r].obj = req[r].obj /\ req'[r].slot = req[r].slot
<1>1. /\ req' \in ReqType /\ Moves(r)
      /\ req'[r].step = step /\ req'[r].obj = req[r].obj /\ req'[r].slot = req[r].slot
  BY DEF Goto, TypeInv, TypeOK, ReqType, Moves
<1> QED BY <1>1 DEF Moves, TypeInv, RequestsWellFormed

LEMMA BeginFacts ==
  ASSUME TypeInv, NEW r \in Requests, NEW o \in Orders, NEW step \in {"submit", "verify"},
         Begin(r, step, o)
  PROVE  /\ req' \in ReqType /\ RequestsWellFormed' /\ Moves(r)
         /\ req'[r].step = step /\ req'[r].obj = o
<1>1. [step |-> step, obj |-> o, attempt |-> 1, slot |-> 0]
         \in [step : Steps, obj : Orders \union {NoOrder},
              attempt : 0 .. MaxAttempts, slot : Nat]
  BY PurchaseAssumption DEF Steps
<1>2. req' \in ReqType /\ Moves(r) /\ req'[r].step = step /\ req'[r].obj = o
  BY <1>1 DEF Begin, TypeInv, TypeOK, ReqType, Moves
<1> QED BY <1>2 DEF Moves, TypeInv, RequestsWellFormed, Holding

LEMMA NextAttemptFacts ==
  ASSUME TypeInv, NEW r \in Requests, NextAttempt(r), req[r].step # "idle"
  PROVE  /\ req' \in ReqType /\ RequestsWellFormed' /\ Moves(r)
         /\ req'[r].step \in {"allocate", "failure"} /\ req'[r].obj = req[r].obj
<1>1. CASE req[r].attempt < MaxAttempts
  <2>1. req[r].attempt \in 0 .. MaxAttempts /\ req[r].obj \in Orders \union {NoOrder}
    BY DEF TypeInv, TypeOK
  <2>2. req[r].attempt + 1 \in 0 .. MaxAttempts
    BY <1>1, <2>1, PurchaseAssumption
  <2>3. [step |-> "allocate", obj |-> req[r].obj, attempt |-> req[r].attempt + 1, slot |-> 0]
           \in [step : Steps, obj : Orders \union {NoOrder},
                attempt : 0 .. MaxAttempts, slot : Nat]
    BY <2>1, <2>2 DEF Steps
  <2>4. /\ req' \in ReqType /\ Moves(r)
        /\ req'[r].step = "allocate" /\ req'[r].obj = req[r].obj
    BY <1>1, <2>3 DEF NextAttempt, TypeInv, TypeOK, ReqType, Moves
  <2> QED BY <2>4 DEF Moves, TypeInv, RequestsWellFormed, Holding
<1>2. CASE ~(req[r].attempt < MaxAttempts)
  BY <1>2, GotoFacts DEF NextAttempt, Steps, Holding
<1> QED BY <1>1, <1>2

LEMMA AllocateFacts ==
  ASSUME TypeInv, NEW r \in Requests, AllocatePorts(r)
  PROVE  /\ req' \in ReqType /\ RequestsWellFormed' /\ Moves(r)
         /\ req'[r].step = "create" /\ req'[r].obj = req[r].obj
<1>1. PICK s \in Slots :
        req' = [req EXCEPT ![r] = [step |-> "create", obj |-> req[r].obj,
                                   attempt |-> req[r].attempt, slot |-> s]]
  BY DEF AllocatePorts
<1>2. req[r].attempt \in 0 .. MaxAttempts /\ req[r].obj \in Orders
  BY DEF TypeInv, TypeOK, RequestsWellFormed, AllocatePorts
<1>3. [step |-> "create", obj |-> req[r].obj, attempt |-> req[r].attempt, slot |-> s]
         \in [step : Steps, obj : Orders \union {NoOrder},
              attempt : 0 .. MaxAttempts, slot : Nat]
  BY <1>2, PurchaseAssumption DEF Steps
<1>4. /\ req' \in ReqType /\ Moves(r)
      /\ req'[r].step = "create" /\ req'[r].obj = req[r].obj /\ req'[r].slot = s
  BY <1>1, <1>3 DEF TypeInv, TypeOK, ReqType, Moves
<1> QED BY <1>2, <1>4 DEF Moves, TypeInv, RequestsWellFormed, Holding

-----------------------------------------------------------------------------
(***************************************************************************)
(* Type correctness.                                                       *)
(***************************************************************************)

LEMMA InitTypeInv == Init => TypeInv
<1>1. Idle \in [step : Steps, obj : Orders \union {NoOrder},
                attempt : 0 .. MaxAttempts, slot : Nat]
  BY PurchaseAssumption DEF Idle, Steps
<1> QED
  BY <1>1, PurchaseAssumption
  DEF Init, TypeInv, TypeOK, RequestsWellFormed, Holding, Idle, Final

LEMMA ProvisionTypeInv ==
  ASSUME TypeInv, NEW r \in Requests, Provision(r)
  PROVE  TypeInv'
<1> DEFINE o == req[r].obj
<1> USE DEF dbVars, incusVars
<1>0. /\ req[r].step # "idle" /\ o \in Orders /\ HostOf[o] \in Hostnames
      /\ "create" \in Steps /\ "configure" \in Steps /\ "forward" \in Steps
      /\ "success" \in Steps /\ "failure" \in Steps
  BY PurchaseAssumption DEF Provision, AllocatePorts, PortsExhausted, CreateInstance,
     CreateFails, CreateUnnoticed, ConfigureInstance, ForwardPorts,
     ForwardUnnoticed, CleanUp, CleanUpFails, PersistSuccess, PersistFailure, TypeInv, RequestsWellFormed, Steps
<1>1. CASE AllocatePorts(r)
  BY <1>1, AllocateFacts DEF AllocatePorts, TypeInv, TypeOK, ReqType
<1>2. CASE PortsExhausted(r)
  BY <1>2, AnswerFacts DEF PortsExhausted, TypeInv, TypeOK, ReqType
<1>3. CASE CreateInstance(r)
  <2>1. req' \in ReqType /\ RequestsWellFormed'
    BY <1>0, <1>3, GotoFacts DEF CreateInstance, Holding
  <2> QED BY <1>0, <1>3, <2>1 DEF CreateInstance, TypeInv, TypeOK, ReqType
<1>4. CASE CreateFails(r)
  BY <1>0, <1>4, NextAttemptFacts DEF CreateFails, TypeInv, TypeOK, ReqType
<1>5. CASE CreateUnnoticed(r)
  <2>1. req' \in ReqType /\ RequestsWellFormed'
    BY <1>0, <1>5, NextAttemptFacts DEF CreateUnnoticed
  <2> QED BY <1>0, <1>5, <2>1 DEF CreateUnnoticed, Fault, TypeInv, TypeOK, ReqType
<1>6. CASE ConfigureInstance(r)
  <2>1. req' \in ReqType /\ RequestsWellFormed'
    BY <1>0, <1>6, GotoFacts DEF ConfigureInstance, Holding
  <2> QED BY <1>6, <2>1 DEF ConfigureInstance, TypeInv, TypeOK, ReqType
<1>7. CASE ForwardPorts(r)
  <2>1. req' \in ReqType /\ RequestsWellFormed'
    BY <1>0, <1>7, GotoFacts DEF ForwardPorts, Holding
  <2> QED BY <1>0, <1>7, <2>1 DEF ForwardPorts, TypeInv, TypeOK, ReqType
<1>8. CASE CleanUp(r)
  <2>1. req' \in ReqType /\ RequestsWellFormed'
    BY <1>0, <1>8, NextAttemptFacts DEF CleanUp
  <2> QED BY <1>0, <1>8, <2>1 DEF CleanUp, TypeInv, TypeOK, ReqType
<1>9. CASE CleanUpFails(r)
  <2>1. req' \in ReqType /\ RequestsWellFormed'
    BY <1>0, <1>9, NextAttemptFacts DEF CleanUpFails
  <2> QED BY <1>9, <2>1 DEF CleanUpFails, Fault, TypeInv, TypeOK, ReqType
<1>12. CASE ForwardUnnoticed(r)
  <2>1. req' \in ReqType /\ RequestsWellFormed'
    BY <1>0, <1>12, NextAttemptFacts DEF ForwardUnnoticed
  <2>2. inst' \in [Hostnames -> Orders \union {NoOrder}]
    BY <1>12 DEF ForwardUnnoticed, TypeInv, TypeOK
  <2>3. forward' = [forward EXCEPT ![req[r].slot] = o] /\ faults' = faults + 1
    BY <1>12 DEF ForwardUnnoticed, Fault
  <2>4. forward' \in [Slots -> Orders \union {NoOrder}]
    BY <1>0, <2>3 DEF TypeInv, TypeOK
  <2>6. faults' \in Nat
    BY <2>3 DEF TypeInv, TypeOK
  <2>5. UNCHANGED <<order, provider, refunds, service, mapping>>
    BY <1>12 DEF ForwardUnnoticed
  <2> QED BY <2>1, <2>2, <2>4, <2>5, <2>6 DEF TypeInv, TypeOK, ReqType
<1>10. CASE PersistSuccess(r)
  <2>1. req' \in ReqType /\ RequestsWellFormed'
    BY <1>10, AnswerFacts DEF PersistSuccess
  <2> QED BY <1>0, <1>10, <2>1 DEF PersistSuccess, TypeInv, TypeOK, ReqType, Final
<1>11. CASE PersistFailure(r)
  <2>1. req' \in ReqType /\ RequestsWellFormed'
    BY <1>11, AnswerFacts DEF PersistFailure
  <2> QED BY <1>0, <1>11, <2>1 DEF PersistFailure, TypeInv, TypeOK, ReqType, Final
<1> QED
  BY <1>1, <1>2, <1>3, <1>4, <1>5, <1>6, <1>7, <1>8, <1>9, <1>10, <1>11, <1>12
  DEF Provision

LEMMA NextTypeInv == TypeInv /\ [Next]_vars => TypeInv'
<1> SUFFICES ASSUME TypeInv, [Next]_vars PROVE TypeInv'
  OBVIOUS
<1> USE DEF dbVars, incusVars
<1>1. ASSUME NEW o \in Orders, CustomerPays(o) PROVE TypeInv'
  BY <1>1 DEF CustomerPays, TypeInv, TypeOK, RequestsWellFormed
<1>2. ASSUME NEW r \in Requests, NEW o \in Orders, SubmitCheck(r, o) \/ WebhookLoad(r, o)
      PROVE  TypeInv'
  <2>1. req' \in ReqType /\ RequestsWellFormed'
    BY <1>2, BeginFacts DEF SubmitCheck, WebhookLoad
  <2> QED BY <1>2, <2>1 DEF SubmitCheck, WebhookLoad, TypeInv, TypeOK, ReqType
<1>3. ASSUME NEW r \in Requests, SubmitWallet(r) \/ WebhookMarkPaid(r) PROVE TypeInv'
  <2>1. req' \in ReqType /\ RequestsWellFormed'
    <3>1. /\ Goto(r, "allocate") /\ req[r].step # "idle" /\ "allocate" # "idle"
          /\ "allocate" \in Steps /\ "allocate" \notin {"create"} \union Holding
      BY <1>3 DEF SubmitWallet, WebhookMarkPaid, Steps, Holding
    <3> QED BY <3>1, GotoFacts
  <2>2. req[r].obj \in Orders
    BY <1>3 DEF SubmitWallet, WebhookMarkPaid, TypeInv, RequestsWellFormed
  <2> QED
    BY <1>3, <2>1, <2>2 DEF SubmitWallet, WebhookMarkPaid, TypeInv, TypeOK, ReqType
<1>4. ASSUME NEW r \in Requests, SubmitRefused(r) \/ WebhookReject(r) PROVE TypeInv'
  <2>1. req' \in ReqType /\ RequestsWellFormed'
    BY <1>4, AnswerFacts DEF SubmitRefused, WebhookReject
  <2> QED BY <1>4, <2>1 DEF SubmitRefused, WebhookReject, TypeInv, TypeOK, ReqType
<1>5. ASSUME NEW r \in Requests, SubmitQris(r) PROVE TypeInv'
  <2>1. req' \in ReqType /\ RequestsWellFormed' /\ req[r].obj \in Orders
    BY <1>5, AnswerFacts DEF SubmitQris, TypeInv, RequestsWellFormed
  <2> QED BY <1>5, <2>1 DEF SubmitQris, TypeInv, TypeOK, ReqType
<1>6. ASSUME NEW r \in Requests, Abandon(r) PROVE TypeInv'
  <2>1. req' \in ReqType /\ RequestsWellFormed'
    BY <1>6, AnswerFacts DEF Abandon
  <2> QED BY <1>6, <2>1 DEF Abandon, Fault, TypeInv, TypeOK, ReqType
<1>7. ASSUME NEW r \in Requests, Provision(r) PROVE TypeInv'
  BY <1>7, ProvisionTypeInv
<1>8. CASE UNCHANGED vars
  BY <1>8 DEF vars, TypeInv, TypeOK, RequestsWellFormed
<1> QED
  BY <1>1, <1>2, <1>3, <1>4, <1>5, <1>6, <1>7, <1>8 DEF Next, RequestStep

\* TypeInv holds in every reachable state.
THEOREM TypeInvariant == Spec => []TypeInv
<1> QED BY InitTypeInv, NextTypeInv, PTL DEF Spec

\* Rows, instances, rules and requests are well-typed, and no request tries to
\* provision more than MaxAttempts times (purchase_service.go:686).
THEOREM TypeCorrect == Spec => []TypeOK
<1>1. TypeInv => TypeOK
  BY DEF TypeInv
<1> QED BY TypeInvariant, <1>1, PTL

-----------------------------------------------------------------------------
(***************************************************************************)
(* Instances.  Incus gives a name to one instance; the request that got it *)
(* holds the name until it has recorded the service or deleted the         *)
(* instance, and after that nobody can get it.                             *)
(***************************************************************************)

HolderInv ==
  /\ \A n \in Hostnames : inst[n] # NoOrder => HostOf[inst[n]] = n
  /\ \A r \in Requests : req[r].step \in Holding =>
       /\ inst[HostOf[req[r].obj]] = req[r].obj
       /\ \A o \in Orders : service[o] => HostOf[o] # HostOf[req[r].obj]
  /\ \A r, q \in Requests :
       /\ req[r].step \in Holding /\ req[q].step \in Holding
       /\ HostOf[req[r].obj] = HostOf[req[q].obj]
       => r = q

InstanceInv == ServiceHasItsInstance /\ HolderInv

\* A request that stops holding, or never did, disturbs no other one.
LEMMA InstanceInvIfNotHolding ==
  ASSUME InstanceInv, NEW r \in Requests, Moves(r), req'[r].step \notin Holding,
         UNCHANGED <<service, inst>>
  PROVE  InstanceInv'
BY DEF InstanceInv, ServiceHasItsInstance, HolderInv, Moves

LEMMA ProvisionInstanceInv ==
  ASSUME TypeInv, InstanceInv, NEW r \in Requests, Provision(r)
  PROVE  InstanceInv'
<1> DEFINE o == req[r].obj
<1> DEFINE n == HostOf[o]
<1> USE DEF dbVars, incusVars
<1>0. /\ req[r].step # "idle" /\ o \in Orders /\ o # NoOrder /\ n \in Hostnames
      /\ "configure" \in Steps /\ "forward" \in Steps /\ "success" \in Steps
      /\ \A p \in Orders : HostOf[p] \in Hostnames
      /\ \A q \in Requests : req[q].step \in Holding => req[q].obj \in Orders
      /\ \A p \in Orders : p # NoOrder
      /\ inst \in [Hostnames -> Orders \union {NoOrder}]
      /\ service \in [Orders -> BOOLEAN]
  BY PurchaseAssumption DEF Provision, AllocatePorts, PortsExhausted, CreateInstance,
     CreateFails, CreateUnnoticed, ConfigureInstance, ForwardPorts,
     ForwardUnnoticed, CleanUp, CleanUpFails, PersistSuccess, PersistFailure, TypeInv, TypeOK,
     RequestsWellFormed, Steps, Holding
<1>1. CASE AllocatePorts(r)
  BY <1>1, AllocateFacts, InstanceInvIfNotHolding DEF AllocatePorts, Holding
<1>2. CASE PortsExhausted(r) \/ PersistFailure(r)
  BY <1>2, AnswerFacts, InstanceInvIfNotHolding DEF PortsExhausted, PersistFailure, Holding
<1>3. CASE CreateFails(r) \/ CleanUpFails(r)
  BY <1>0, <1>3, NextAttemptFacts, InstanceInvIfNotHolding
  DEF CreateFails, CleanUpFails, Holding
<1>4. ASSUME inst[n] = NoOrder
      PROVE  /\ \A p \in Orders : service[p] => HostOf[p] # n
             /\ \A q \in Requests : req[q].step \in Holding => HostOf[req[q].obj] # n
  BY <1>0, <1>4 DEF InstanceInv, ServiceHasItsInstance, HolderInv
<1>5. CASE CreateInstance(r)
  <2>1. /\ Moves(r) /\ req'[r].step = "configure" /\ req'[r].obj = o
    BY <1>0, <1>5, GotoFacts DEF CreateInstance, Holding
  <2>2. inst[n] = NoOrder /\ inst' = [inst EXCEPT ![n] = o] /\ service' = service
    BY <1>5 DEF CreateInstance
  <2>3. ServiceHasItsInstance'
    BY <1>0, <1>4, <2>2 DEF InstanceInv, ServiceHasItsInstance
  <2>4. HolderInv'
    BY <1>0, <1>4, <2>1, <2>2 DEF InstanceInv, HolderInv, Moves, Holding
  <2> QED BY <2>3, <2>4 DEF InstanceInv
<1>6. CASE CreateUnnoticed(r)
  <2>1. Moves(r) /\ req'[r].step \notin Holding
    BY <1>0, <1>6, NextAttemptFacts DEF CreateUnnoticed, Holding
  <2>2. inst[n] = NoOrder /\ inst' = [inst EXCEPT ![n] = o] /\ service' = service
    BY <1>6 DEF CreateUnnoticed
  <2>3. ServiceHasItsInstance'
    BY <1>0, <1>4, <2>2 DEF InstanceInv, ServiceHasItsInstance
  <2>4. HolderInv'
    BY <1>0, <1>4, <2>1, <2>2 DEF InstanceInv, HolderInv, Moves
  <2> QED BY <2>3, <2>4 DEF InstanceInv
<1>7. CASE ConfigureInstance(r) \/ ForwardPorts(r)
  <2>1. /\ req[r].step \in Holding
        /\ Moves(r) /\ req'[r].step \in Holding /\ req'[r].obj = o
    BY <1>0, <1>7, GotoFacts DEF ConfigureInstance, ForwardPorts, Holding
  <2>2. UNCHANGED <<service, inst>>
    BY <1>7 DEF ConfigureInstance, ForwardPorts
  <2> QED
    BY <2>1, <2>2 DEF InstanceInv, ServiceHasItsInstance, HolderInv, Moves
<1>10. CASE ForwardUnnoticed(r) /\ inst' = inst
  BY <1>0, <1>10, NextAttemptFacts, InstanceInvIfNotHolding DEF ForwardUnnoticed, Holding
<1>8. CASE CleanUp(r) \/ (ForwardUnnoticed(r) /\ inst' # inst)
  <2>1. req[r].step \in Holding /\ Moves(r) /\ req'[r].step \notin Holding
    BY <1>0, <1>8, NextAttemptFacts DEF CleanUp, ForwardUnnoticed, Holding
  <2>2. inst' = [inst EXCEPT ![n] = NoOrder] /\ service' = service
    BY <1>8 DEF CleanUp, ForwardUnnoticed
  <2>3. /\ \A p \in Orders : service[p] => HostOf[p] # n
        /\ \A q \in Requests : q # r /\ req[q].step \in Holding => HostOf[req[q].obj] # n
    BY <2>1 DEF InstanceInv, HolderInv
  <2>4. ServiceHasItsInstance'
    BY <1>0, <2>2, <2>3 DEF InstanceInv, ServiceHasItsInstance
  <2>5. HolderInv'
    BY <1>0, <2>1, <2>2, <2>3 DEF InstanceInv, HolderInv, Moves
  <2> QED BY <2>4, <2>5 DEF InstanceInv
<1>9. CASE PersistSuccess(r)
  <2>1. req[r].step \in Holding /\ Moves(r) /\ req'[r].step \notin Holding
    BY <1>9, AnswerFacts DEF PersistSuccess, Holding
  <2>2. inst' = inst /\ service' = [service EXCEPT ![o] = TRUE]
    BY <1>9 DEF PersistSuccess
  <2>3. /\ inst[n] = o
        /\ \A q \in Requests : q # r /\ req[q].step \in Holding => HostOf[req[q].obj] # n
    BY <2>1 DEF InstanceInv, HolderInv
  <2>4. ServiceHasItsInstance'
    BY <1>0, <2>2, <2>3 DEF InstanceInv, ServiceHasItsInstance
  <2>5. HolderInv'
    BY <1>0, <2>1, <2>2, <2>3 DEF InstanceInv, HolderInv, Moves
  <2> QED BY <2>4, <2>5 DEF InstanceInv
<1> QED
  BY <1>1, <1>2, <1>3, <1>5, <1>6, <1>7, <1>8, <1>9, <1>10 DEF Provision

LEMMA NextInstanceInv == TypeInv /\ InstanceInv /\ [Next]_vars => InstanceInv'
<1> SUFFICES ASSUME TypeInv, InstanceInv, [Next]_vars PROVE InstanceInv'
  OBVIOUS
<1> USE DEF dbVars, incusVars
<1>1. ASSUME NEW o \in Orders, CustomerPays(o) PROVE InstanceInv'
  BY <1>1 DEF CustomerPays, InstanceInv, ServiceHasItsInstance, HolderInv
<1>2. ASSUME NEW r \in Requests, NEW o \in Orders, SubmitCheck(r, o) \/ WebhookLoad(r, o)
      PROVE  InstanceInv'
  BY <1>2, BeginFacts, InstanceInvIfNotHolding DEF SubmitCheck, WebhookLoad, Holding
<1>3. ASSUME NEW r \in Requests, SubmitWallet(r) \/ WebhookMarkPaid(r) PROVE InstanceInv'
  <2>1. Moves(r) /\ req'[r].step = "allocate"
    <3>1. /\ Goto(r, "allocate") /\ req[r].step # "idle" /\ "allocate" # "idle"
          /\ "allocate" \in Steps /\ "allocate" \notin {"create"} \union Holding
      BY <1>3 DEF SubmitWallet, WebhookMarkPaid, Steps, Holding
    <3> QED BY <3>1, GotoFacts
  <2> QED
    BY <1>3, <2>1, InstanceInvIfNotHolding DEF SubmitWallet, WebhookMarkPaid, Holding
<1>4. ASSUME NEW r \in Requests,
             SubmitRefused(r) \/ SubmitQris(r) \/ WebhookReject(r) \/ Abandon(r)
      PROVE  InstanceInv'
  BY <1>4, AnswerFacts, InstanceInvIfNotHolding
  DEF SubmitRefused, SubmitQris, WebhookReject, Abandon, Holding
<1>5. ASSUME NEW r \in Requests, Provision(r) PROVE InstanceInv'
  BY <1>5, ProvisionInstanceInv
<1>6. CASE UNCHANGED vars
  BY <1>6 DEF vars, InstanceInv, ServiceHasItsInstance, HolderInv
<1> QED
  BY <1>1, <1>2, <1>3, <1>4, <1>5, <1>6 DEF Next, RequestStep

\* InstanceInv holds in every reachable state.
THEOREM InstanceInvariant == Spec => []InstanceInv
<1>1. Init => InstanceInv
  BY DEF Init, Idle, InstanceInv, ServiceHasItsInstance, HolderInv, Holding
<1> QED BY <1>1, TypeInvariant, NextInstanceInv, PTL DEF Spec

\* No clean-up ever deletes the instance of a service, whatever requests for the
\* same hostname or the same order run beside each other, and crash.
THEOREM InstancesSound == Spec => []ServiceHasItsInstance
<1> QED BY InstanceInvariant, PTL DEF InstanceInv

-----------------------------------------------------------------------------
(***************************************************************************)
(* Ports.  A request that has forwarded a slot is the only one to have it, *)
(* and the database does not have it yet.                                  *)
(***************************************************************************)

ForwarderInv ==
  /\ \A r \in Requests : req[r].step = "success" =>
       forward[req[r].slot] = req[r].obj /\ Free(req[r].slot)
  /\ \A r, q \in Requests :
       req[r].step = "success" /\ req[q].step = "success" /\ req[r].slot = req[q].slot
         => r = q

PortInv == ServicePortsLeadToIt /\ ForwarderInv

LEMMA PortInvUnchanged ==
  ASSUME PortInv, NEW r \in Requests, Moves(r), req'[r].step # "success",
         UNCHANGED <<service, mapping, forward>>
  PROVE  PortInv'
BY DEF PortInv, ServicePortsLeadToIt, ForwarderInv, Moves, Free

LEMMA ProvisionPortInv ==
  ASSUME TypeInv, PortInv, NEW r \in Requests, Provision(r)
  PROVE  PortInv'
<1> DEFINE o == req[r].obj
<1> DEFINE s == req[r].slot
<1> USE DEF dbVars, incusVars
<1>0. /\ req[r].step # "idle" /\ o \in Orders /\ o # NoOrder
      /\ "configure" \in Steps /\ "forward" \in Steps /\ "success" \in Steps
      /\ "configure" # "success" /\ "forward" # "success"
      /\ \A q \in Requests : req[q].step = "success" =>
           req[q].obj \in Orders /\ req[q].obj # NoOrder /\ req[q].slot \in Slots
      /\ mapping \in [Slots -> Orders \union {NoOrder}]
      /\ forward \in [Slots -> Orders \union {NoOrder}]
      /\ service \in [Orders -> BOOLEAN]
  BY PurchaseAssumption DEF Provision, AllocatePorts, PortsExhausted, CreateInstance,
     CreateFails, CreateUnnoticed, ConfigureInstance, ForwardPorts,
     ForwardUnnoticed, CleanUp, CleanUpFails, PersistSuccess, PersistFailure, TypeInv, TypeOK,
     RequestsWellFormed, Steps, Holding
<1>1. CASE AllocatePorts(r)
  BY <1>1, AllocateFacts, PortInvUnchanged DEF AllocatePorts
<1>2. CASE PortsExhausted(r) \/ PersistFailure(r)
  BY <1>2, AnswerFacts, PortInvUnchanged DEF PortsExhausted, PersistFailure
<1>3. CASE CreateFails(r) \/ CleanUpFails(r) \/ CreateUnnoticed(r) \/ CleanUp(r)
  BY <1>0, <1>3, NextAttemptFacts, PortInvUnchanged
  DEF CreateFails, CleanUpFails, CreateUnnoticed, CleanUp
<1>4. CASE CreateInstance(r) \/ ConfigureInstance(r)
  <2>1. Moves(r) /\ req'[r].step # "success"
    BY <1>0, <1>4, GotoFacts DEF CreateInstance, ConfigureInstance, Holding
  <2> QED BY <1>4, <2>1, PortInvUnchanged DEF CreateInstance, ConfigureInstance
<1>5. CASE ForwardPorts(r)
  <2>1. /\ s \in Slots /\ Moves(r)
        /\ req'[r].step = "success" /\ req'[r].obj = o /\ req'[r].slot = s
    BY <1>0, <1>5, GotoFacts DEF ForwardPorts, Holding, TypeInv, RequestsWellFormed
  <2>2. /\ forward[s] = NoOrder /\ forward' = [forward EXCEPT ![s] = o]
        /\ UNCHANGED <<mapping, service>>
    BY <1>5 DEF ForwardPorts
  <2>3. /\ mapping[s] = NoOrder
        /\ \A q \in Requests : req[q].step = "success" => req[q].slot # s
    BY <1>0, <2>1, <2>2 DEF PortInv, ServicePortsLeadToIt, ForwarderInv
  <2>4. ServicePortsLeadToIt'
    BY <1>0, <2>1, <2>2, <2>3 DEF PortInv, ServicePortsLeadToIt
  <2>5. ForwarderInv'
    BY <1>0, <2>1, <2>2, <2>3 DEF PortInv, ForwarderInv, Moves, Free
  <2> QED BY <2>4, <2>5 DEF PortInv
<1>7. CASE ForwardUnnoticed(r)
  <2>1. s \in Slots /\ Moves(r) /\ req'[r].step # "success"
    BY <1>0, <1>7, NextAttemptFacts
    DEF ForwardUnnoticed, Holding, TypeInv, RequestsWellFormed
  <2>2. /\ forward[s] = NoOrder /\ forward' = [forward EXCEPT ![s] = o]
        /\ UNCHANGED <<mapping, service>>
    BY <1>7 DEF ForwardUnnoticed
  <2>3. /\ mapping[s] = NoOrder
        /\ \A q \in Requests : req[q].step = "success" => req[q].slot # s
    BY <1>0, <2>1, <2>2 DEF PortInv, ServicePortsLeadToIt, ForwarderInv
  <2>4. ServicePortsLeadToIt'
    BY <1>0, <2>1, <2>2, <2>3 DEF PortInv, ServicePortsLeadToIt
  <2>5. ForwarderInv'
    BY <1>0, <2>1, <2>2, <2>3 DEF PortInv, ForwarderInv, Moves, Free
  <2> QED BY <2>4, <2>5 DEF PortInv
<1>6. CASE PersistSuccess(r)
  <2>1. /\ s \in Slots /\ req[r].step = "success"
        /\ Moves(r) /\ req'[r].step # "success"
    BY <1>0, <1>6, AnswerFacts DEF PersistSuccess
  <2>2. /\ mapping' = [mapping EXCEPT ![s] = o] /\ forward' = forward
        /\ service' = [service EXCEPT ![o] = TRUE]
    BY <1>6 DEF PersistSuccess
  <2>3. /\ forward[s] = o
        /\ \A q \in Requests : q # r /\ req[q].step = "success" => req[q].slot # s
    BY <2>1 DEF PortInv, ForwarderInv
  <2>4. ServicePortsLeadToIt'
    BY <1>0, <2>1, <2>2, <2>3 DEF PortInv, ServicePortsLeadToIt
  <2>5. ForwarderInv'
    BY <1>0, <2>1, <2>2, <2>3 DEF PortInv, ForwarderInv, Moves, Free
  <2> QED BY <2>4, <2>5 DEF PortInv
<1> QED
  BY <1>1, <1>2, <1>3, <1>4, <1>5, <1>6, <1>7 DEF Provision

LEMMA NextPortInv == TypeInv /\ PortInv /\ [Next]_vars => PortInv'
<1> SUFFICES ASSUME TypeInv, PortInv, [Next]_vars PROVE PortInv'
  OBVIOUS
<1> USE DEF dbVars, incusVars
<1>1. ASSUME NEW o \in Orders, CustomerPays(o) PROVE PortInv'
  BY <1>1 DEF CustomerPays, PortInv, ServicePortsLeadToIt, ForwarderInv, Free
<1>2. ASSUME NEW r \in Requests, NEW o \in Orders, SubmitCheck(r, o) \/ WebhookLoad(r, o)
      PROVE  PortInv'
  BY <1>2, BeginFacts, PortInvUnchanged DEF SubmitCheck, WebhookLoad
<1>3. ASSUME NEW r \in Requests, SubmitWallet(r) \/ WebhookMarkPaid(r) PROVE PortInv'
  <2>1. Moves(r) /\ req'[r].step = "allocate"
    <3>1. /\ Goto(r, "allocate") /\ req[r].step # "idle" /\ "allocate" # "idle"
          /\ "allocate" \in Steps /\ "allocate" \notin {"create"} \union Holding
      BY <1>3 DEF SubmitWallet, WebhookMarkPaid, Steps, Holding
    <3> QED BY <3>1, GotoFacts
  <2> QED BY <1>3, <2>1, PortInvUnchanged DEF SubmitWallet, WebhookMarkPaid
<1>4. ASSUME NEW r \in Requests,
             SubmitRefused(r) \/ SubmitQris(r) \/ WebhookReject(r) \/ Abandon(r)
      PROVE  PortInv'
  BY <1>4, AnswerFacts, PortInvUnchanged DEF SubmitRefused, SubmitQris, WebhookReject, Abandon
<1>5. ASSUME NEW r \in Requests, Provision(r) PROVE PortInv'
  BY <1>5, ProvisionPortInv
<1>6. CASE UNCHANGED vars
  BY <1>6 DEF vars, PortInv, ServicePortsLeadToIt, ForwarderInv, Free
<1> QED
  BY <1>1, <1>2, <1>3, <1>4, <1>5, <1>6 DEF Next, RequestStep

\* PortInv holds in every reachable state.
THEOREM PortInvariant == Spec => []PortInv
<1>1. Init => PortInv
  BY DEF Init, Idle, PortInv, ServicePortsLeadToIt, ForwarderInv
<1> QED BY <1>1, TypeInvariant, NextPortInv, PTL DEF Spec

\* The public ports of a service lead to its own instance, however many
\* purchases were allocated the same ports (FindNextAvailablePublicPort
\* reserves nothing): Incus, not the database, decides between them.
THEOREM PortsSound == Spec => []ServicePortsLeadToIt
<1> QED BY PortInvariant, PTL DEF PortInv

\* The transaction of persistPurchaseSuccess is never refused by a UNIQUE
\* constraint because of another purchase.
THEOREM SuccessSound == Spec => []SuccessIsInsertable
<1>1. TypeInv /\ InstanceInv /\ PortInv => SuccessIsInsertable
  <2> SUFFICES ASSUME TypeInv, InstanceInv, PortInv,
                      NEW r \in Requests, req[r].step = "success"
               PROVE  Insertable(req[r].obj, req[r].slot)
    BY DEF SuccessIsInsertable
  <2>1. Free(req[r].slot)
    BY DEF PortInv, ForwarderInv
  <2>2. \A o \in Orders : service[o] => HostOf[o] # HostOf[req[r].obj]
    BY DEF InstanceInv, HolderInv, Holding
  <2> QED BY <2>1, <2>2 DEF Insertable
<1> QED BY <1>1, TypeInvariant, InstanceInvariant, PortInvariant, PTL

-----------------------------------------------------------------------------
(***************************************************************************)
(* Nothing is left behind.  As long as no fault has happened every         *)
(* instance and every rule has an owner: NothingLeftBehind is inductive    *)
(* beside the invariants of instances and ports, by which the instance a   *)
(* clean-up deletes is the one the request made.                           *)
(***************************************************************************)

\* A request without an instance of its own goes on or ends.
LEMMA NothingLeftIfNotHolding ==
  ASSUME NothingLeftBehind, NEW r \in Requests, Moves(r), req[r].step \notin Holding,
         UNCHANGED <<service, mapping, inst, forward, faults>>
  PROVE  NothingLeftBehind'
BY DEF NothingLeftBehind, Moves, Holding

\* A fault excuses what it leaves.
LEMMA NothingLeftIfFault ==
  ASSUME TypeInv, Fault
  PROVE  NothingLeftBehind'
BY DEF Fault, NothingLeftBehind, TypeInv, TypeOK

LEMMA ProvisionNothingLeft ==
  ASSUME TypeInv, InstanceInv, PortInv, NothingLeftBehind, NEW r \in Requests, Provision(r)
  PROVE  NothingLeftBehind'
<1> DEFINE o == req[r].obj
<1> DEFINE n == HostOf[o]
<1> DEFINE s == req[r].slot
<1> USE DEF dbVars, incusVars
<1>0. /\ req[r].step # "idle" /\ o \in Orders /\ o # NoOrder /\ n \in Hostnames
      /\ "configure" \in Steps /\ "forward" \in Steps /\ "success" \in Steps
      /\ inst \in [Hostnames -> Orders \union {NoOrder}]
      /\ mapping \in [Slots -> Orders \union {NoOrder}]
      /\ forward \in [Slots -> Orders \union {NoOrder}]
      /\ service \in [Orders -> BOOLEAN]
  BY PurchaseAssumption DEF Provision, AllocatePorts, PortsExhausted, CreateInstance,
     CreateFails, CreateUnnoticed, ConfigureInstance, ForwardPorts,
     ForwardUnnoticed, CleanUp, CleanUpFails, PersistSuccess, PersistFailure, TypeInv, TypeOK,
     RequestsWellFormed, Steps
<1>1. CASE AllocatePorts(r)
  BY <1>1, AllocateFacts, NothingLeftIfNotHolding DEF AllocatePorts, Holding
<1>2. CASE PortsExhausted(r) \/ PersistFailure(r)
  BY <1>2, AnswerFacts, NothingLeftIfNotHolding DEF PortsExhausted, PersistFailure, Holding
<1>3. CASE CreateFails(r)
  BY <1>0, <1>3, NextAttemptFacts, NothingLeftIfNotHolding DEF CreateFails, Holding
<1>4. CASE CreateUnnoticed(r) \/ ForwardUnnoticed(r) \/ CleanUpFails(r)
  BY <1>4, NothingLeftIfFault DEF CreateUnnoticed, ForwardUnnoticed, CleanUpFails
<1>5. CASE CreateInstance(r)
  <2>1. Moves(r) /\ req'[r].step = "configure" /\ req'[r].obj = o
    BY <1>0, <1>5, GotoFacts DEF CreateInstance, Holding
  <2>2. /\ req[r].step = "create" /\ inst' = [inst EXCEPT ![n] = o]
        /\ UNCHANGED <<service, mapping, forward, faults>>
    BY <1>5 DEF CreateInstance
  <2> QED BY <1>0, <2>1, <2>2 DEF NothingLeftBehind, Moves
<1>6. CASE ConfigureInstance(r)
  <2>1. Moves(r) /\ req'[r].step = "forward" /\ req'[r].obj = o
    BY <1>0, <1>6, GotoFacts DEF ConfigureInstance, Holding
  <2>2. req[r].step = "configure" /\ UNCHANGED <<service, mapping, inst, forward, faults>>
    BY <1>6 DEF ConfigureInstance
  <2> QED BY <2>1, <2>2 DEF NothingLeftBehind, Moves
<1>7. CASE ForwardPorts(r)
  <2>1. /\ s \in Slots /\ Moves(r)
        /\ req'[r].step = "success" /\ req'[r].obj = o /\ req'[r].slot = s
    BY <1>0, <1>7, GotoFacts DEF ForwardPorts, Holding, TypeInv, RequestsWellFormed
  <2>2. /\ req[r].step = "forward" /\ forward' = [forward EXCEPT ![s] = o]
        /\ UNCHANGED <<service, mapping, inst, faults>>
    BY <1>7 DEF ForwardPorts
  <2> QED BY <1>0, <2>1, <2>2 DEF NothingLeftBehind, Moves
<1>8. CASE CleanUp(r)
  <2>1. Moves(r) /\ req[r].step \in {"configure", "forward"}
    BY <1>0, <1>8, NextAttemptFacts DEF CleanUp
  <2>2. /\ inst' = [inst EXCEPT ![n] = NoOrder]
        /\ UNCHANGED <<service, mapping, forward, faults>>
    BY <1>8 DEF CleanUp
  <2>3. \A m \in Hostnames : inst'[m] # NoOrder => inst'[m] = inst[m] /\ inst[m] # o
    BY <1>0, <2>2 DEF InstanceInv, HolderInv
  <2> QED BY <2>1, <2>2, <2>3 DEF NothingLeftBehind, Moves
<1>9. CASE PersistSuccess(r)
  <2>1. s \in Slots /\ Moves(r) /\ req[r].step = "success"
    BY <1>9, AnswerFacts DEF PersistSuccess, TypeInv, RequestsWellFormed, Holding
  <2>2. /\ service' = [service EXCEPT ![o] = TRUE] /\ mapping' = [mapping EXCEPT ![s] = o]
        /\ UNCHANGED <<inst, forward, faults>>
    BY <1>9 DEF PersistSuccess
  <2>3. forward[s] = o
    BY <2>1 DEF PortInv, ForwarderInv
  <2>4. service'[o] /\ \A p \in Orders : service[p] => service'[p]
    BY <1>0, <2>2
  <2>5. mapping'[s] = o /\ \A t \in Slots : t # s => mapping'[t] = mapping[t]
    BY <1>0, <2>1, <2>2
  <2>6. ASSUME faults' = 0, NEW m \in Hostnames, inst'[m] # NoOrder
        PROVE  \/ service'[inst'[m]]
               \/ \E q \in Requests : req'[q].obj = inst'[m]
                      /\ req'[q].step \in {"configure", "forward", "success"}
    BY <1>0, <2>1, <2>2, <2>4, <2>6 DEF NothingLeftBehind, Moves
  <2>7. ASSUME faults' = 0, NEW t \in Slots, forward'[t] # NoOrder
        PROVE  \/ mapping'[t] = forward'[t]
               \/ \E q \in Requests : req'[q].obj = forward'[t] /\ req'[q].slot = t
                      /\ req'[q].step = "success"
    BY <2>1, <2>2, <2>3, <2>5, <2>7 DEF NothingLeftBehind, Moves
  <2> QED BY <2>6, <2>7 DEF NothingLeftBehind
<1> QED
  BY <1>1, <1>2, <1>3, <1>4, <1>5, <1>6, <1>7, <1>8, <1>9 DEF Provision

LEMMA NextNothingLeft ==
  TypeInv /\ InstanceInv /\ PortInv /\ NothingLeftBehind /\ [Next]_vars
    => NothingLeftBehind'
<1> SUFFICES ASSUME TypeInv, InstanceInv, PortInv, NothingLeftBehind, [Next]_vars
             PROVE  NothingLeftBehind'
  OBVIOUS
<1> USE DEF dbVars, incusVars
<1>1. ASSUME NEW o \in Orders, CustomerPays(o) PROVE NothingLeftBehind'
  BY <1>1 DEF CustomerPays, NothingLeftBehind
<1>2. ASSUME NEW r \in Requests, NEW o \in Orders, SubmitCheck(r, o) \/ WebhookLoad(r, o)
      PROVE  NothingLeftBehind'
  <2>1. Begin(r, "submit", o) \/ Begin(r, "verify", o)
    BY <1>2 DEF SubmitCheck, WebhookLoad
  <2>2. Moves(r) /\ req[r].step \notin Holding
    BY <2>1, BeginFacts DEF Begin, Holding
  <2> QED BY <1>2, <2>2, NothingLeftIfNotHolding DEF SubmitCheck, WebhookLoad
<1>3. ASSUME NEW r \in Requests, SubmitWallet(r) \/ WebhookMarkPaid(r)
      PROVE  NothingLeftBehind'
  <2>1. Moves(r) /\ req[r].step \notin Holding
    <3>1. /\ Goto(r, "allocate") /\ req[r].step # "idle" /\ "allocate" # "idle"
          /\ "allocate" \in Steps /\ "allocate" \notin {"create"} \union Holding
          /\ req[r].step \notin Holding
      BY <1>3 DEF SubmitWallet, WebhookMarkPaid, Steps, Holding
    <3> QED BY <3>1, GotoFacts
  <2> QED
    BY <1>3, <2>1, NothingLeftIfNotHolding DEF SubmitWallet, WebhookMarkPaid
<1>4. ASSUME NEW r \in Requests, SubmitRefused(r) \/ SubmitQris(r) \/ WebhookReject(r)
      PROVE  NothingLeftBehind'
  BY <1>4, AnswerFacts, NothingLeftIfNotHolding
  DEF SubmitRefused, SubmitQris, WebhookReject, Holding
<1>5. ASSUME NEW r \in Requests, Abandon(r) PROVE NothingLeftBehind'
  BY <1>5, NothingLeftIfFault DEF Abandon
<1>6. ASSUME NEW r \in Requests, Provision(r) PROVE NothingLeftBehind'
  BY <1>6, ProvisionNothingLeft
<1>7. CASE UNCHANGED vars
  BY <1>7 DEF vars, NothingLeftBehind
<1> QED
  BY <1>1, <1>2, <1>3, <1>4, <1>5, <1>6, <1>7 DEF Next, RequestStep

\* Until something fails that no step can handle (a crash, a lost transaction,
\* an unnoticed creation, a clean-up that fails), no instance and no forwarding
\* rule in Incus is without a service or a request at work on it.
THEOREM NothingIsLeftBehind == Spec => []NothingLeftBehind
<1>1. Init => NothingLeftBehind
  BY DEF Init, NothingLeftBehind
<1> QED
  BY <1>1, TypeInvariant, InstanceInvariant, PortInvariant, NextNothingLeft, PTL DEF Spec

-----------------------------------------------------------------------------
(***************************************************************************)
(* Orders.  A wallet order belongs to the request that submitted it.  A    *)
(* QRIS order may have many requests, all of which saw it paid.            *)
(***************************************************************************)

Submitting(r) == req[r].step = "submit"
Works(r) == req[r].step \in Working

OwnerInv ==
  /\ \A o \in WalletPaid : provider[o] = "none"
  /\ \A r \in Requests :
       /\ Submitting(r) => order[req[r].obj] = "none" /\ provider[req[r].obj] = "none"
       /\ Works(r) => IF req[r].obj \in WalletPaid THEN order[req[r].obj] = "processing"
                                                   ELSE provider[req[r].obj] = "paid"
  /\ \A r, q \in Requests :
       /\ Submitting(r) \/ (Works(r) /\ req[r].obj \in WalletPaid)
       /\ Submitting(q) \/ Works(q)
       /\ req[r].obj = req[q].obj
       => r = q

OrderInv == WalletOrderOutcome /\ QrisOrderPaid /\ OwnerInv

\* A request goes on with the same order, or ends, and no row changes.
LEMMA OrderInvUnchanged ==
  ASSUME OrderInv, NEW r \in Requests, Moves(r), ~Submitting(r)',
         Works(r)' => Works(r) /\ req'[r].obj = req[r].obj,
         UNCHANGED <<order, provider, refunds, service>>
  PROVE  OrderInv'
<1>1. WalletOrderOutcome' /\ QrisOrderPaid'
  BY DEF OrderInv, WalletOrderOutcome, QrisOrderPaid
<1>2. OwnerInv'
  BY DEF OrderInv, OwnerInv, Moves, Submitting, Works
<1> QED BY <1>1, <1>2 DEF OrderInv

\* The rows of the order of one request change, and the request ends.
LEMMA SettleOrderInv ==
  ASSUME TypeInv, OrderInv, NEW r \in Requests, Works(r), Moves(r), req'[r].step = "idle",
         \A o \in Orders : o # req[r].obj =>
           order'[o] = order[o] /\ service'[o] = service[o] /\ refunds'[o] = refunds[o],
         req[r].obj \in WalletPaid =>
           /\ service'[req[r].obj] <=> order'[req[r].obj] = "completed"
           /\ refunds'[req[r].obj] = IF order'[req[r].obj] = "failed" THEN 1 ELSE 0,
         provider' = provider
  PROVE  OrderInv'
<1> DEFINE o == req[r].obj
<1>1. /\ o \in Orders
      /\ \A q \in Requests : Submitting(q) \/ Works(q) => req[q].obj \in Orders
  BY DEF Works, Working, Submitting, TypeInv, RequestsWellFormed
<1>2. WalletOrderOutcome'
  BY PurchaseAssumption DEF OrderInv, WalletOrderOutcome
<1>3. QrisOrderPaid'
  BY <1>1 DEF OrderInv, QrisOrderPaid, OwnerInv
<1>4. \A q \in Requests : q # r /\ Submitting(q) => req[q].obj # o
  BY <1>1 DEF OrderInv, OwnerInv
<1>5. \A q \in Requests :
        q # r /\ Works(q) /\ req[q].obj \in WalletPaid => req[q].obj # o
  BY DEF OrderInv, OwnerInv
<1>6. ~Submitting(r)' /\ ~Works(r)'
  BY DEF Submitting, Works, Working
<1>7. \A q \in Requests : q # r => (Submitting(q)' <=> Submitting(q)) /\ (Works(q)' <=> Works(q))
  BY DEF Submitting, Works, Moves
<1>8. OwnerInv'
  BY <1>1, <1>4, <1>5, <1>6, <1>7 DEF OrderInv, OwnerInv, Moves
<1> QED BY <1>2, <1>3, <1>8 DEF OrderInv

LEMMA ProvisionOrderInv ==
  ASSUME TypeInv, InstanceInv, OrderInv, NEW r \in Requests, Provision(r)
  PROVE  OrderInv'
<1> DEFINE o == req[r].obj
<1> USE DEF dbVars, incusVars
<1>0. /\ req[r].step # "idle" /\ req[r].step # "submit" /\ Works(r) /\ o \in Orders
      /\ "configure" \in Steps /\ "forward" \in Steps /\ "success" \in Steps
  BY DEF Provision, AllocatePorts, PortsExhausted, CreateInstance,
     CreateFails, CreateUnnoticed, ConfigureInstance, ForwardPorts,
     ForwardUnnoticed, CleanUp, CleanUpFails, PersistSuccess, PersistFailure, TypeInv,
     RequestsWellFormed, Steps, Works, Working
<1>1. CASE AllocatePorts(r)
  BY <1>0, <1>1, AllocateFacts, OrderInvUnchanged DEF AllocatePorts, Submitting
<1>2. CASE PortsExhausted(r)
  BY <1>2, AnswerFacts, OrderInvUnchanged DEF PortsExhausted, Submitting, Works, Working
<1>3. CASE \/ CreateFails(r) \/ CleanUpFails(r) \/ CreateUnnoticed(r) \/ CleanUp(r)
          \/ ForwardUnnoticed(r)
  <2>1. NextAttempt(r) /\ UNCHANGED <<order, provider, refunds, service>>
    BY <1>3 DEF CreateFails, CleanUpFails, CreateUnnoticed, ForwardUnnoticed, CleanUp
  <2> QED BY <1>0, <2>1, NextAttemptFacts, OrderInvUnchanged DEF Submitting
<1>4. CASE CreateInstance(r) \/ ConfigureInstance(r) \/ ForwardPorts(r)
  <2>1. Moves(r) /\ req'[r].step \in Holding /\ req'[r].obj = o
    BY <1>0, <1>4, GotoFacts DEF CreateInstance, ConfigureInstance, ForwardPorts, Holding
  <2>2. UNCHANGED <<order, provider, refunds, service>>
    BY <1>4 DEF CreateInstance, ConfigureInstance, ForwardPorts
  <2> QED BY <1>0, <2>1, <2>2, OrderInvUnchanged DEF Submitting, Holding
<1>5. CASE PersistSuccess(r)
  <2>1. Moves(r) /\ req'[r].step = "idle" /\ provider' = provider
    BY <1>5, AnswerFacts DEF PersistSuccess
  <2>2. \A p \in Orders : p # o =>
          order'[p] = order[p] /\ service'[p] = service[p] /\ refunds'[p] = refunds[p]
    BY <1>5 DEF PersistSuccess, TypeInv, TypeOK
  <2>3. service'[o] /\ order'[o] = "completed" /\ refunds'[o] = refunds[o]
    BY <1>0, <1>5 DEF PersistSuccess, TypeInv, TypeOK
  <2>4. o \in WalletPaid => refunds[o] = 0
    BY <1>0 DEF OrderInv, OwnerInv, WalletOrderOutcome
  <2> QED BY <1>0, <2>1, <2>2, <2>3, <2>4, SettleOrderInv
<1>6. CASE PersistFailure(r)
  <2>1. Moves(r) /\ req'[r].step = "idle" /\ provider' = provider
    BY <1>6, AnswerFacts DEF PersistFailure
  <2>2. \A p \in Orders : p # o =>
          order'[p] = order[p] /\ service'[p] = service[p] /\ refunds'[p] = refunds[p]
    BY <1>6 DEF PersistFailure, TypeInv, TypeOK
  <2>3. order'[o] = "failed" /\ refunds'[o] = refunds[o] + 1 /\ service'[o] = service[o]
    BY <1>0, <1>6 DEF PersistFailure, TypeInv, TypeOK
  <2>4. o \in WalletPaid => refunds[o] = 0 /\ ~service[o]
    BY <1>0 DEF OrderInv, OwnerInv, WalletOrderOutcome, TypeInv, TypeOK
  <2> QED BY <1>0, <2>1, <2>2, <2>3, <2>4, SettleOrderInv
<1> QED
  BY <1>1, <1>2, <1>3, <1>4, <1>5, <1>6 DEF Provision

LEMMA NextOrderInv == TypeInv /\ InstanceInv /\ OrderInv /\ [Next]_vars => OrderInv'
<1> SUFFICES ASSUME TypeInv, InstanceInv, OrderInv, [Next]_vars PROVE OrderInv'
  OBVIOUS
<1> USE DEF dbVars, incusVars
<1>0. \A q \in Requests : Submitting(q) \/ Works(q) => req[q].obj \in Orders
  BY DEF Works, Working, Submitting, TypeInv, RequestsWellFormed
<1>1. ASSUME NEW o \in Orders, CustomerPays(o) PROVE OrderInv'
  <2>1. /\ order[o] = "awaiting_payment" /\ provider[o] = "open"
        /\ provider'[o] = "paid" /\ \A p : p # o => provider'[p] = provider[p]
        /\ UNCHANGED <<order, service, refunds, req>>
    BY <1>1 DEF CustomerPays, TypeInv, TypeOK
  <2>2. WalletOrderOutcome' /\ QrisOrderPaid'
    BY <2>1 DEF OrderInv, WalletOrderOutcome, QrisOrderPaid
  <2>3. OwnerInv'
    BY <2>1 DEF OrderInv, OwnerInv, Submitting, Works
  <2> QED BY <2>2, <2>3 DEF OrderInv
<1>2. ASSUME NEW r \in Requests, NEW o \in Orders, SubmitCheck(r, o) PROVE OrderInv'
  <2>1. /\ Moves(r) /\ req'[r].step = "submit" /\ req'[r].obj = o
        /\ order[o] = "none" /\ provider[o] = "none"
        /\ \A q \in Requests : req[q].obj # o
        /\ UNCHANGED <<order, provider, service, refunds>>
    BY <1>2, BeginFacts DEF SubmitCheck
  <2>2. WalletOrderOutcome' /\ QrisOrderPaid'
    BY <2>1 DEF OrderInv, WalletOrderOutcome, QrisOrderPaid
  <2>3. OwnerInv'
    BY <2>1 DEF OrderInv, OwnerInv, Submitting, Works, Working, Moves
  <2> QED BY <2>2, <2>3 DEF OrderInv
<1>3. ASSUME NEW r \in Requests, NEW o \in Orders, WebhookLoad(r, o) PROVE OrderInv'
  BY <1>3, BeginFacts, OrderInvUnchanged DEF WebhookLoad, Submitting, Works, Working
<1>4. ASSUME NEW r \in Requests, SubmitWallet(r) PROVE OrderInv'
  <2> DEFINE o == req[r].obj
  <2>1. Moves(r) /\ req'[r].step = "allocate" /\ req'[r].obj = o
    <3>1. /\ Goto(r, "allocate") /\ req[r].step # "idle" /\ "allocate" # "idle"
          /\ "allocate" \in Steps /\ "allocate" \notin {"create"} \union Holding
      BY <1>4 DEF SubmitWallet, Steps, Holding
    <3> QED BY <3>1, GotoFacts
  <2>2. /\ Submitting(r) /\ o \in WalletPaid /\ o \in Orders
        /\ order'[o] = "processing" /\ \A p : p # o => order'[p] = order[p]
        /\ UNCHANGED <<provider, service, refunds>>
    BY <1>0, <1>4 DEF SubmitWallet, Submitting, TypeInv, TypeOK
  <2>3. order[o] = "none" /\ provider[o] = "none" /\ refunds[o] = 0 /\ ~service[o]
    BY <2>2 DEF OrderInv, OwnerInv, WalletOrderOutcome, TypeInv, TypeOK
  <2>4. WalletOrderOutcome' /\ QrisOrderPaid'
    BY <2>2, <2>3 DEF OrderInv, WalletOrderOutcome, QrisOrderPaid
  <2>5. \A q \in Requests : q # r /\ (Submitting(q) \/ Works(q)) => req[q].obj # o
    BY <2>2 DEF OrderInv, OwnerInv
  <2>6. OwnerInv'
    BY <2>1, <2>2, <2>5 DEF OrderInv, OwnerInv, Submitting, Works, Working, Moves
  <2> QED BY <2>4, <2>6 DEF OrderInv
<1>5. ASSUME NEW r \in Requests, SubmitQris(r) PROVE OrderInv'
  <2> DEFINE o == req[r].obj
  <2>1. Moves(r) /\ req'[r].step = "idle"
    BY <1>5, AnswerFacts DEF SubmitQris
  <2>2. /\ Submitting(r) /\ o \notin WalletPaid /\ o \in Orders
        /\ \A p : p # o => order'[p] = order[p] /\ provider'[p] = provider[p]
        /\ UNCHANGED <<service, refunds>>
    <3>1. \A p : p # o => order'[p] = order[p]
      <4>1. CASE order' = order
        BY <4>1
      <4>2. CASE order' = [order EXCEPT ![o] = "awaiting_payment"]
        BY <4>2
      <4> QED BY <1>5, <4>1, <4>2 DEF SubmitQris
    <3> QED BY <1>0, <1>5, <3>1 DEF SubmitQris, Submitting
  <2>3. order[o] = "none" /\ provider[o] = "none"
    BY <2>2 DEF OrderInv, OwnerInv
  <2>4. WalletOrderOutcome' /\ QrisOrderPaid'
    BY <2>2, <2>3 DEF OrderInv, WalletOrderOutcome, QrisOrderPaid
  <2>5. \A q \in Requests : q # r /\ (Submitting(q) \/ Works(q)) => req[q].obj # o
    BY <2>2 DEF OrderInv, OwnerInv
  <2>6. OwnerInv'
    BY <2>1, <2>2, <2>5 DEF OrderInv, OwnerInv, Submitting, Works, Working, Moves
  <2> QED BY <2>4, <2>6 DEF OrderInv
<1>6. ASSUME NEW r \in Requests, WebhookMarkPaid(r) PROVE OrderInv'
  <2> DEFINE o == req[r].obj
  <2>1. Moves(r) /\ req'[r].step = "allocate" /\ req'[r].obj = o
    <3>1. /\ Goto(r, "allocate") /\ req[r].step # "idle" /\ "allocate" # "idle"
          /\ "allocate" \in Steps /\ "allocate" \notin {"create"} \union Holding
      BY <1>6 DEF WebhookMarkPaid, Steps, Holding
    <3> QED BY <3>1, GotoFacts
  <2>2. /\ provider[o] = "paid" /\ \A p : p # o => order'[p] = order[p]
        /\ UNCHANGED <<provider, service, refunds>>
    BY <1>6 DEF WebhookMarkPaid
  <2>3. o \notin WalletPaid
    BY <2>2 DEF OrderInv, OwnerInv
  <2>4. WalletOrderOutcome' /\ QrisOrderPaid'
    BY <2>2, <2>3 DEF OrderInv, WalletOrderOutcome, QrisOrderPaid
  <2>5. \A q \in Requests : Submitting(q) => req[q].obj # o
    BY <2>2 DEF OrderInv, OwnerInv
  <2>6. OwnerInv'
    BY <2>1, <2>2, <2>3, <2>5 DEF OrderInv, OwnerInv, Submitting, Works, Working, Moves
  <2> QED BY <2>4, <2>6 DEF OrderInv
<1>7. ASSUME NEW r \in Requests, SubmitRefused(r) \/ WebhookReject(r) \/ Abandon(r)
      PROVE  OrderInv'
  <2>1. Answer(r) /\ UNCHANGED <<order, provider, refunds, service>>
    BY <1>7 DEF SubmitRefused, WebhookReject, Abandon
  <2> QED BY <2>1, AnswerFacts, OrderInvUnchanged DEF Submitting, Works, Working
<1>8. ASSUME NEW r \in Requests, Provision(r) PROVE OrderInv'
  BY <1>8, ProvisionOrderInv
<1>9. CASE UNCHANGED vars
  BY <1>9 DEF vars, OrderInv, WalletOrderOutcome, QrisOrderPaid, OwnerInv, Submitting, Works
<1> QED
  BY <1>1, <1>2, <1>3, <1>4, <1>5, <1>6, <1>7, <1>8, <1>9 DEF Next, RequestStep

\* OrderInv holds in every reachable state.
THEOREM OrderInvariant == Spec => []OrderInv
<1>1. Init => OrderInv
  BY PurchaseAssumption DEF Init, Idle, OrderInv, WalletOrderOutcome, QrisOrderPaid,
     OwnerInv, Submitting, Works, Working
<1> QED BY <1>1, TypeInvariant, InstanceInvariant, NextOrderInv, PTL DEF Spec

\* A wallet order is completed with its service, or failed with one refund, or
\* neither served nor refunded; webhooks that name it change nothing.
THEOREM WalletOrdersSound == Spec => []WalletOrderOutcome
<1> QED BY OrderInvariant, PTL DEF OrderInv

\* No QRIS order is served, and none refunded, before the provider confirmed it.
THEOREM QrisOrdersSound == Spec => []QrisOrderPaid
<1> QED BY OrderInvariant, PTL DEF OrderInv
=============================================================================
