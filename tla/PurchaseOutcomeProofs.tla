----------------------- MODULE PurchaseOutcomeProofs -----------------------
(***************************************************************************)
(* What becomes of an order: theorems that relate module Purchase to the   *)
(* promise of module PurchaseOutcome.                                      *)
(*                                                                         *)
(* While one request at a time works on an order, every order is served or *)
(* refunded once, and the handlers implement PurchaseOutcome.  Without     *)
(* that assumption, which the code does not enforce, the orders paid from  *)
(* the wallet still implement it: only QRIS orders are at risk.            *)
(***************************************************************************)
EXTENDS PurchaseProofs

(***************************************************************************)
(* One request at a time on an order.                                      *)
(***************************************************************************)

\* The requests at work have different orders.
Alone ==
  \A r, q \in Requests :
    /\ req[r].step # "idle" /\ req[q].step # "idle"
    /\ req[r].obj = req[q].obj
    => r = q

\* The status of an order tells how it was settled.
StatusTellsOutcome ==
  \A o \in Orders :
    /\ service[o] <=> order[o] = "completed"
    /\ refunds[o] = IF order[o] = "failed" THEN 1 ELSE 0

\* What a request has loaded of its order is still so: it is not settled.
LoadedIsCurrent ==
  \A r \in Requests :
    /\ req[r].step = "verify" => order[req[r].obj] \notin Final \union {"none"}
    /\ Works(r) => order[req[r].obj] \in {"paid", "processing"}

SerialInv == Alone /\ StatusTellsOutcome /\ LoadedIsCurrent

\* A request goes on with its order at a step of the same kind, or ends.
LEMMA SerialInvUnchanged ==
  ASSUME SerialInv, NEW r \in Requests, Moves(r),
         \/ req'[r].step = "idle"
         \/ Works(r)' /\ Works(r) /\ req'[r].obj = req[r].obj,
         UNCHANGED <<order, refunds, service>>
  PROVE  SerialInv'
<1>1. Alone'
  BY DEF SerialInv, Alone, Moves, Works, Working
<1>2. StatusTellsOutcome'
  BY DEF SerialInv, StatusTellsOutcome
<1>3. LoadedIsCurrent'
  BY DEF SerialInv, LoadedIsCurrent, Moves, Works, Working
<1> QED BY <1>1, <1>2, <1>3 DEF SerialInv

\* A request begins with an order that no other request has.
LEMMA SerialInvBegin ==
  ASSUME Serialized, TypeInv, SerialInv, NEW r \in Requests, NEW o \in Orders,
         NEW step \in {"submit", "verify"}, Begin(r, step, o),
         step = "verify" => order[o] \notin Final \union {"none"},
         UNCHANGED <<order, refunds, service>>
  PROVE  SerialInv'
<1>1. /\ Moves(r) /\ req'[r].step = step /\ req'[r].obj = o
      /\ \A q \in Requests : req[q].obj # o
  BY BeginFacts DEF Begin
<1>2. Alone'
  BY <1>1 DEF SerialInv, Alone, Moves
<1>3. StatusTellsOutcome'
  BY DEF SerialInv, StatusTellsOutcome
<1>4. LoadedIsCurrent'
  BY <1>1 DEF SerialInv, LoadedIsCurrent, Moves, Works, Working
<1> QED BY <1>2, <1>3, <1>4 DEF SerialInv

\* The rows of the order of one request change, and no other request notices.
LEMMA SerialInvSettles ==
  ASSUME TypeInv, SerialInv, NEW r \in Requests, req[r].step # "idle", Moves(r),
         \/ req'[r].step = "idle"
         \/ /\ req'[r].step = "allocate" /\ req'[r].obj = req[r].obj
            /\ order'[req[r].obj] \in {"paid", "processing"},
         \A o \in Orders : o # req[r].obj =>
           order'[o] = order[o] /\ service'[o] = service[o] /\ refunds'[o] = refunds[o],
         /\ service'[req[r].obj] <=> order'[req[r].obj] = "completed"
         /\ refunds'[req[r].obj] = IF order'[req[r].obj] = "failed" THEN 1 ELSE 0
  PROVE  SerialInv'
<1> DEFINE o == req[r].obj
<1>1. \A q \in Requests : q # r /\ req[q].step # "idle" =>
        req[q].obj \in Orders /\ req[q].obj # o
  BY DEF SerialInv, Alone, TypeInv, RequestsWellFormed
<1>2. Alone'
  BY DEF SerialInv, Alone, Moves
<1>3. StatusTellsOutcome'
  BY DEF SerialInv, StatusTellsOutcome
<1>4. LoadedIsCurrent'
  <2>1. ASSUME NEW q \in Requests, q # r, req[q].step # "idle"
        PROVE  req'[q] = req[q] /\ order'[req[q].obj] = order[req[q].obj]
    BY <1>1, <2>1 DEF Moves
  <2>2. ASSUME NEW q \in Requests, q # r
        PROVE  /\ req'[q].step = "verify" => order'[req'[q].obj] \notin Final \union {"none"}
               /\ Works(q)' => order'[req'[q].obj] \in {"paid", "processing"}
    BY <2>1, <2>2 DEF SerialInv, LoadedIsCurrent, Moves, Works, Working
  <2> QED BY <2>2 DEF LoadedIsCurrent, Works, Working
<1> QED BY <1>2, <1>3, <1>4 DEF SerialInv

\* The facts about one order of the state that its settling changes.
LEMMA WorksOnOpenOrder ==
  ASSUME TypeInv, OrderInv, SerialInv, NEW r \in Requests, Works(r)
  PROVE  /\ req[r].obj \in Orders
         /\ order[req[r].obj] \in {"paid", "processing"}
         /\ ~service[req[r].obj] /\ refunds[req[r].obj] = 0
         /\ req[r].obj \notin WalletPaid => provider[req[r].obj] = "paid"
<1>1. req[r].obj \in Orders
  BY DEF Works, Working, TypeInv, RequestsWellFormed
<1> QED
  BY <1>1 DEF SerialInv, StatusTellsOutcome, LoadedIsCurrent, OrderInv, OwnerInv

LEMMA ProvisionSerialInv ==
  ASSUME TypeInv, OrderInv, SerialInv, NEW r \in Requests, Provision(r)
  PROVE  SerialInv'
<1> DEFINE o == req[r].obj
<1> USE DEF dbVars, incusVars
<1>0. /\ req[r].step # "idle" /\ Works(r)
      /\ "configure" \in Steps /\ "forward" \in Steps /\ "success" \in Steps
  BY DEF Provision, AllocatePorts, PortsExhausted, CreateInstance,
     CreateFails, CreateUnnoticed, ConfigureInstance, ForwardPorts,
     ForwardUnnoticed, CleanUp, CleanUpFails, PersistSuccess, PersistFailure, Steps, Works, Working
<1>1. CASE AllocatePorts(r)
  BY <1>0, <1>1, AllocateFacts, SerialInvUnchanged DEF AllocatePorts, Works, Working
<1>2. CASE PortsExhausted(r)
  BY <1>2, AnswerFacts, SerialInvUnchanged DEF PortsExhausted
<1>3. CASE \/ CreateFails(r) \/ CleanUpFails(r) \/ CreateUnnoticed(r) \/ CleanUp(r)
          \/ ForwardUnnoticed(r)
  <2>1. NextAttempt(r) /\ UNCHANGED <<order, refunds, service>>
    BY <1>3 DEF CreateFails, CleanUpFails, CreateUnnoticed, ForwardUnnoticed, CleanUp
  <2> QED BY <1>0, <2>1, NextAttemptFacts, SerialInvUnchanged DEF Works, Working
<1>4. CASE CreateInstance(r) \/ ConfigureInstance(r) \/ ForwardPorts(r)
  <2>1. Moves(r) /\ req'[r].step \in Holding /\ req'[r].obj = o
    BY <1>0, <1>4, GotoFacts DEF CreateInstance, ConfigureInstance, ForwardPorts, Holding
  <2>2. UNCHANGED <<order, refunds, service>>
    BY <1>4 DEF CreateInstance, ConfigureInstance, ForwardPorts
  <2> QED BY <1>0, <2>1, <2>2, SerialInvUnchanged DEF Works, Working, Holding
<1>5. CASE PersistSuccess(r)
  <2>1. Moves(r) /\ req'[r].step = "idle"
    BY <1>5, AnswerFacts DEF PersistSuccess
  <2>2. \A p \in Orders : p # o =>
          order'[p] = order[p] /\ service'[p] = service[p] /\ refunds'[p] = refunds[p]
    BY <1>5 DEF PersistSuccess, TypeInv, TypeOK
  <2>3. service'[o] /\ order'[o] = "completed" /\ refunds'[o] = 0
    BY <1>0, <1>5, WorksOnOpenOrder DEF PersistSuccess, TypeInv, TypeOK
  <2> QED BY <1>0, <2>1, <2>2, <2>3, SerialInvSettles
<1>6. CASE PersistFailure(r)
  <2>1. Moves(r) /\ req'[r].step = "idle"
    BY <1>6, AnswerFacts DEF PersistFailure
  <2>2. \A p \in Orders : p # o =>
          order'[p] = order[p] /\ service'[p] = service[p] /\ refunds'[p] = refunds[p]
    BY <1>6 DEF PersistFailure, TypeInv, TypeOK
  <2>3. order'[o] = "failed" /\ refunds'[o] = 1 /\ ~service'[o]
    BY <1>0, <1>6, WorksOnOpenOrder DEF PersistFailure, TypeInv, TypeOK
  <2> QED BY <1>0, <2>1, <2>2, <2>3, SerialInvSettles
<1> QED
  BY <1>1, <1>2, <1>3, <1>4, <1>5, <1>6 DEF Provision

LEMMA NextSerialInv ==
  ASSUME Serialized
  PROVE  TypeInv /\ OrderInv /\ SerialInv /\ [Next]_vars => SerialInv'
<1> SUFFICES ASSUME TypeInv, OrderInv, SerialInv, [Next]_vars PROVE SerialInv'
  OBVIOUS
<1> USE DEF dbVars, incusVars
<1>0. /\ \A q \in Requests : req[q].step # "idle" => req[q].obj \in Orders
      /\ order \in [Orders -> {"none", "awaiting_payment", "paid", "processing"} \union Final]
  BY DEF TypeInv, TypeOK, RequestsWellFormed
<1>1. ASSUME NEW o \in Orders, CustomerPays(o) PROVE SerialInv'
  BY <1>1 DEF CustomerPays, SerialInv, Alone, StatusTellsOutcome, LoadedIsCurrent, Works
<1>2. ASSUME NEW r \in Requests, NEW o \in Orders, SubmitCheck(r, o) \/ WebhookLoad(r, o)
      PROVE  SerialInv'
  BY <1>2, SerialInvBegin DEF SubmitCheck, WebhookLoad
<1>3. ASSUME NEW r \in Requests, SubmitWallet(r) \/ WebhookMarkPaid(r) PROVE SerialInv'
  <2> DEFINE o == req[r].obj
  <2>1. Moves(r) /\ req'[r].step = "allocate" /\ req'[r].obj = o
    <3>1. /\ Goto(r, "allocate") /\ req[r].step # "idle" /\ "allocate" # "idle"
          /\ "allocate" \in Steps /\ "allocate" \notin {"create"} \union Holding
      BY <1>3 DEF SubmitWallet, WebhookMarkPaid, Steps, Holding
    <3> QED BY <3>1, GotoFacts
  <2>2. /\ o \in Orders /\ req[r].step # "idle"
        /\ order'[o] \in {"paid", "processing"}
        /\ \A p \in Orders : p # o => order'[p] = order[p]
        /\ UNCHANGED <<service, refunds>>
    BY <1>0, <1>3 DEF SubmitWallet, WebhookMarkPaid
  <2>3. order[o] \notin Final
    BY <1>3 DEF SubmitWallet, WebhookMarkPaid, OrderInv, OwnerInv, Submitting,
       SerialInv, LoadedIsCurrent, Final
  <2>4. ~service[o] /\ refunds[o] = 0
    BY <2>2, <2>3 DEF SerialInv, StatusTellsOutcome, Final
  <2> QED BY <2>1, <2>2, <2>4, SerialInvSettles
<1>4. ASSUME NEW r \in Requests, SubmitQris(r) PROVE SerialInv'
  <2> DEFINE o == req[r].obj
  <2>1. Moves(r) /\ req'[r].step = "idle"
    BY <1>4, AnswerFacts DEF SubmitQris
  <2>2. /\ o \in Orders /\ req[r].step # "idle" /\ order[o] = "none"
        /\ UNCHANGED <<service, refunds>>
    BY <1>0, <1>4 DEF SubmitQris, OrderInv, OwnerInv, Submitting
  <2>3. /\ order'[o] \in {"none", "awaiting_payment"}
        /\ \A p \in Orders : p # o => order'[p] = order[p]
    <3>1. order' = order \/ order' = [order EXCEPT ![o] = "awaiting_payment"]
      BY <1>4 DEF SubmitQris
    <3> QED BY <1>0, <2>2, <3>1
  <2>4. ~service[o] /\ refunds[o] = 0
    BY <2>2 DEF SerialInv, StatusTellsOutcome
  <2> QED BY <2>1, <2>2, <2>3, <2>4, SerialInvSettles
<1>5. ASSUME NEW r \in Requests, SubmitRefused(r) \/ WebhookReject(r) \/ Abandon(r)
      PROVE  SerialInv'
  <2>1. Answer(r) /\ UNCHANGED <<order, refunds, service>>
    BY <1>5 DEF SubmitRefused, WebhookReject, Abandon
  <2> QED BY <2>1, AnswerFacts, SerialInvUnchanged
<1>6. ASSUME NEW r \in Requests, Provision(r) PROVE SerialInv'
  BY <1>6, ProvisionSerialInv
<1>7. CASE UNCHANGED vars
  BY <1>7 DEF vars, SerialInv, Alone, StatusTellsOutcome, LoadedIsCurrent, Works
<1> QED
  BY <1>1, <1>2, <1>3, <1>4, <1>5, <1>6, <1>7 DEF Next, RequestStep

\* While one request at a time works on an order, no two have the same order,
\* what a request loaded stays true, and the status tells the outcome.
THEOREM SerialInvariant == ASSUME Serialized PROVE Spec => []SerialInv
<1>1. Init => SerialInv
  BY DEF Init, Idle, SerialInv, Alone, StatusTellsOutcome, LoadedIsCurrent, Works, Working
<1> QED BY <1>1, TypeInvariant, OrderInvariant, NextSerialInv, PTL DEF Spec

\* One request at a time: no order is refunded twice, and none is both served
\* and refunded (persistPurchaseFailure, purchase_service.go:904, checks neither).
THEOREM OrdersServedOrRefunded == ASSUME Serialized PROVE Spec => []ServedOrRefunded
<1>1. SerialInv => ServedOrRefunded
  <2> SUFFICES ASSUME SerialInv, NEW o \in Orders
               PROVE  refunds[o] <= 1 /\ (service[o] => refunds[o] = 0)
    BY DEF ServedOrRefunded
  <2>1. /\ service[o] => order[o] = "completed"
        /\ refunds[o] = IF order[o] = "failed" THEN 1 ELSE 0
    BY DEF SerialInv, StatusTellsOutcome
  <2> QED BY <2>1
<1> QED BY <1>1, SerialInvariant, PTL

-----------------------------------------------------------------------------
(***************************************************************************)
(* Refinement.  An order is paid when the wallet is debited or the         *)
(* provider takes the payment; it is served and refunded by the two        *)
(* closing transactions; every other step leaves the promise alone.        *)
(***************************************************************************)

Paid == {o \in Orders : IF o \in WalletPaid THEN order[o] # "none"
                                            ELSE provider[o] = "paid"}
Served == {o \in Orders : service[o]}

\* A step that no customer can tell: no order is paid, served or refunded by it.
LEMMA StutterRefines ==
  ASSUME UNCHANGED <<service, refunds>>,
         \A o \in Orders : IF o \in WalletPaid THEN order'[o] # "none" <=> order[o] # "none"
                                              ELSE provider'[o] = "paid" <=> provider[o] = "paid"
  PROVE  UNCHANGED Outcome!outcomeVars
<1>1. Paid' = Paid
  BY DEF Paid
<1> QED BY <1>1 DEF Paid, Outcome!outcomeVars

LEMMA ProvisionRefines ==
  ASSUME TypeInv, OrderInv, SerialInv, NEW r \in Requests, Provision(r),
         NEW o \in Orders, req[r].obj = o
  PROVE  [Outcome!OutcomeNext]_(Outcome!outcomeVars)
<1> USE DEF dbVars, incusVars
<1>1. /\ order[o] \in {"paid", "processing"}
      /\ ~service[o] /\ refunds[o] = 0
      /\ o \notin WalletPaid => provider[o] = "paid"
  <2>1. Works(r)
    BY DEF Provision, AllocatePorts, PortsExhausted, CreateInstance,
       CreateFails, CreateUnnoticed, ConfigureInstance, ForwardPorts,
       ForwardUnnoticed, CleanUp, CleanUpFails, PersistSuccess, PersistFailure, Works, Working
  <2> QED BY <2>1, WorksOnOpenOrder
<1>2. /\ order \in [Orders -> {"none", "awaiting_payment", "paid", "processing"} \union Final]
      /\ service \in [Orders -> BOOLEAN] /\ refunds \in [Orders -> Nat]
  BY DEF TypeInv, TypeOK
<1>3. o \in Paid /\ o \notin Served
  BY <1>1 DEF Paid, Served
<1>4. CASE PersistSuccess(r)
  <2>1. Paid' = Paid
    BY <1>1, <1>2, <1>4 DEF PersistSuccess, Paid
  <2>2. Served' = Served \union {o} /\ refunds' = refunds
    BY <1>1, <1>2, <1>4 DEF PersistSuccess, Served
  <2>3. \A p \in Served : HostOf[p] # HostOf[o]
    BY <1>4 DEF PersistSuccess, Insertable, Served
  <2>4. Outcome!Serve(o)
    BY <1>1, <1>3, <2>1, <2>2, <2>3 DEF Outcome!Serve, Outcome!Open, Paid, Served
  <2> QED BY <1>1, <2>4 DEF Outcome!OutcomeNext
<1>5. CASE PersistFailure(r)
  <2>1. Paid' = Paid
    BY <1>1, <1>2, <1>5 DEF PersistFailure, Paid
  <2>2. Served' = Served /\ refunds' = [refunds EXCEPT ![o] = 1]
    BY <1>1, <1>2, <1>5 DEF PersistFailure, Served
  <2>3. Outcome!Refund(o)
    BY <1>1, <1>3, <2>1, <2>2 DEF Outcome!Refund, Outcome!Open, Paid, Served
  <2> QED BY <1>1, <2>3 DEF Outcome!OutcomeNext
<1>6. CASE ~PersistSuccess(r) /\ ~PersistFailure(r)
  <2>1. UNCHANGED <<order, provider, service, refunds>>
    BY <1>6 DEF Provision, AllocatePorts, PortsExhausted, CreateInstance,
       CreateFails, CreateUnnoticed, ConfigureInstance, ForwardPorts,
       ForwardUnnoticed, CleanUp, CleanUpFails
  <2> QED BY <2>1, StutterRefines
<1> QED BY <1>4, <1>5, <1>6

LEMMA NextRefines ==
  TypeInv /\ OrderInv /\ SerialInv /\ [Next]_vars
    => [Outcome!OutcomeNext]_(Outcome!outcomeVars)
<1> SUFFICES ASSUME TypeInv, OrderInv, SerialInv, [Next]_vars
             PROVE  [Outcome!OutcomeNext]_(Outcome!outcomeVars)
  OBVIOUS
<1> USE DEF dbVars, incusVars
<1>0. /\ order \in [Orders -> {"none", "awaiting_payment", "paid", "processing"} \union Final]
      /\ provider \in [Orders -> {"none", "open", "paid"}]
      /\ \A q \in Requests : req[q].step # "idle" => req[q].obj \in Orders
  BY DEF TypeInv, TypeOK, RequestsWellFormed
<1>1. ASSUME NEW o \in Orders, CustomerPays(o) PROVE Outcome!OutcomeNext
  <2>1. o \notin WalletPaid
    BY <1>1 DEF CustomerPays, OrderInv, OwnerInv
  <2>2. Paid' = Paid \union {o} /\ o \notin Paid
    BY <1>0, <1>1, <2>1 DEF CustomerPays, Paid
  <2>3. Served' = Served /\ refunds' = refunds
    BY <1>1 DEF CustomerPays, Served
  <2>4. Outcome!Pay(o)
    BY <2>2, <2>3 DEF Outcome!Pay, Paid, Served
  <2> QED BY <2>4 DEF Outcome!OutcomeNext
<1>2. ASSUME NEW r \in Requests, SubmitWallet(r) PROVE Outcome!OutcomeNext
  <2>0. PICK o \in Orders : req[r].obj = o
    BY <1>0, <1>2 DEF SubmitWallet
  <2>1. o \in WalletPaid /\ order[o] = "none"
    BY <1>2, <2>0 DEF SubmitWallet, OrderInv, OwnerInv, Submitting
  <2>2. Paid' = Paid \union {o} /\ o \notin Paid
    BY <1>0, <1>2, <2>0, <2>1 DEF SubmitWallet, Paid
  <2>3. Served' = Served /\ refunds' = refunds
    BY <1>2 DEF SubmitWallet, Served
  <2>4. Outcome!Pay(o)
    BY <2>2, <2>3 DEF Outcome!Pay, Paid, Served
  <2> QED BY <2>4 DEF Outcome!OutcomeNext
<1>3. ASSUME NEW r \in Requests, SubmitQris(r) PROVE UNCHANGED Outcome!outcomeVars
  <2> DEFINE o == req[r].obj
  <2>1. o \in Orders /\ o \notin WalletPaid /\ provider[o] = "none"
    BY <1>0, <1>3 DEF SubmitQris, OrderInv, OwnerInv, Submitting
  <2>2. \A p \in Orders : p # o => order'[p] = order[p] /\ provider'[p] = provider[p]
    <3>1. order' = order \/ order' = [order EXCEPT ![o] = "awaiting_payment"]
      BY <1>3 DEF SubmitQris
    <3> QED BY <1>0, <1>3, <2>1, <3>1 DEF SubmitQris
  <2>3. provider'[o] = "open" /\ UNCHANGED <<service, refunds>>
    BY <1>0, <1>3, <2>1 DEF SubmitQris
  <2> QED BY <2>1, <2>2, <2>3, StutterRefines
<1>4. ASSUME NEW r \in Requests, WebhookMarkPaid(r) PROVE UNCHANGED Outcome!outcomeVars
  <2>1. req[r].obj \notin WalletPaid /\ req[r].obj \in Orders
    BY <1>0, <1>4 DEF WebhookMarkPaid, OrderInv, OwnerInv
  <2>2. \A p \in Orders : p \in WalletPaid => order'[p] = order[p]
    BY <1>0, <1>4, <2>1 DEF WebhookMarkPaid
  <2>3. UNCHANGED <<provider, service, refunds>>
    BY <1>4 DEF WebhookMarkPaid
  <2> QED BY <2>2, <2>3, StutterRefines
<1>5. ASSUME NEW r \in Requests,
             \/ SubmitRefused(r) \/ WebhookReject(r) \/ Abandon(r)
             \/ \E o \in Orders : SubmitCheck(r, o) \/ WebhookLoad(r, o)
      PROVE  UNCHANGED Outcome!outcomeVars
  <2>1. UNCHANGED <<order, provider, service, refunds>>
    BY <1>5 DEF SubmitRefused, WebhookReject, Abandon, SubmitCheck, WebhookLoad
  <2> QED BY <2>1, StutterRefines
<1>6. ASSUME NEW r \in Requests, Provision(r)
      PROVE  [Outcome!OutcomeNext]_(Outcome!outcomeVars)
  <2>1. req[r].obj \in Orders
    BY <1>0, <1>6 DEF Provision, AllocatePorts, PortsExhausted, CreateInstance,
       CreateFails, CreateUnnoticed, ConfigureInstance, ForwardPorts,
       ForwardUnnoticed, CleanUp, CleanUpFails, PersistSuccess, PersistFailure
  <2>2. PICK o \in Orders : req[r].obj = o
    BY <2>1
  <2> QED BY <1>6, <2>2, ProvisionRefines
<1>7. CASE UNCHANGED vars
  BY <1>7, StutterRefines DEF vars
<1> QED
  BY <1>1, <1>2, <1>3, <1>4, <1>5, <1>6, <1>7 DEF Next, RequestStep

\* One request at a time on an order: the handlers, the provisioner and the
\* provider implement PurchaseOutcome, so that a paid order ends in exactly one
\* way and no two services have one hostname.
THEOREM SerialRefinement == ASSUME Serialized PROVE Spec => ImplementsOutcome
<1>1. Init => Outcome!OutcomeInit
  BY DEF Init, Outcome!OutcomeInit
<1> QED
  BY <1>1, TypeInvariant, OrderInvariant, SerialInvariant, NextRefines, PTL
  DEF Spec, ImplementsOutcome, Outcome!OutcomeSpec

-----------------------------------------------------------------------------
(***************************************************************************)
(* The orders paid from the wallet, under any interleaving.  Such an order *)
(* belongs to the request that submitted it, so that nothing need be       *)
(* assumed of the others: they are seen as a system of their own.          *)
(***************************************************************************)

WalletOutcome == INSTANCE PurchaseOutcome WITH
  Orders <- WalletPaid,
  paid <- {o \in WalletPaid : order[o] # "none"},
  served <- {o \in WalletPaid : service[o]},
  refunds <- [o \in WalletPaid |-> refunds[o]]

WalletCharged == {o \in WalletPaid : order[o] # "none"}
WalletServed == {o \in WalletPaid : service[o]}
WalletRefunds == [o \in WalletPaid |-> refunds[o]]

\* A step that changes no row of a wallet order but its status once it exists.
LEMMA WalletStutterRefines ==
  ASSUME \A o \in WalletPaid :
           /\ order'[o] # "none" <=> order[o] # "none"
           /\ service'[o] = service[o] /\ refunds'[o] = refunds[o]
  PROVE  UNCHANGED WalletOutcome!outcomeVars
<1>1. WalletCharged' = WalletCharged
  BY DEF WalletCharged
<1>2. WalletServed' = WalletServed
  BY DEF WalletServed
<1>3. WalletRefunds' = WalletRefunds
  BY DEF WalletRefunds
<1> QED
  BY <1>1, <1>2, <1>3 DEF WalletCharged, WalletServed, WalletRefunds, WalletOutcome!outcomeVars

LEMMA WalletProvisionRefines ==
  ASSUME TypeInv, OrderInv, NEW r \in Requests, Provision(r),
         NEW o \in Orders, req[r].obj = o
  PROVE  [WalletOutcome!OutcomeNext]_(WalletOutcome!outcomeVars)
<1> USE DEF dbVars, incusVars
<1>1. o \in WalletPaid => order[o] = "processing" /\ ~service[o] /\ refunds[o] = 0
  <2>1. Works(r)
    BY DEF Provision, AllocatePorts, PortsExhausted, CreateInstance,
       CreateFails, CreateUnnoticed, ConfigureInstance, ForwardPorts,
       ForwardUnnoticed, CleanUp, CleanUpFails, PersistSuccess, PersistFailure, Works, Working
  <2> QED BY <2>1, PurchaseAssumption DEF OrderInv, OwnerInv, WalletOrderOutcome
<1>2. /\ order \in [Orders -> {"none", "awaiting_payment", "paid", "processing"} \union Final]
      /\ service \in [Orders -> BOOLEAN] /\ refunds \in [Orders -> Nat]
      /\ WalletPaid \subseteq Orders
  BY PurchaseAssumption DEF TypeInv, TypeOK
<1>3. CASE ~PersistSuccess(r) /\ ~PersistFailure(r)
  <2>1. UNCHANGED <<order, service, refunds>>
    BY <1>3 DEF Provision, AllocatePorts, PortsExhausted, CreateInstance,
       CreateFails, CreateUnnoticed, ConfigureInstance, ForwardPorts,
       ForwardUnnoticed, CleanUp, CleanUpFails
  <2> QED BY <2>1, WalletStutterRefines
<1>4. CASE (PersistSuccess(r) \/ PersistFailure(r)) /\ o \notin WalletPaid
  <2>1. \A p \in WalletPaid :
          order'[p] = order[p] /\ service'[p] = service[p] /\ refunds'[p] = refunds[p]
    BY <1>2, <1>4 DEF PersistSuccess, PersistFailure
  <2> QED BY <2>1, WalletStutterRefines
<1>5. CASE PersistSuccess(r) /\ o \in WalletPaid
  <2>1. WalletCharged' = WalletCharged
    BY <1>1, <1>2, <1>5 DEF PersistSuccess, WalletCharged
  <2>2. WalletServed' = WalletServed \union {o} /\ WalletRefunds' = WalletRefunds
    BY <1>2, <1>5 DEF PersistSuccess, WalletServed, WalletRefunds
  <2>3. \A p \in WalletServed : HostOf[p] # HostOf[o]
    BY <1>2, <1>5 DEF PersistSuccess, Insertable, WalletServed
  <2>4. o \in WalletCharged /\ o \notin WalletServed /\ WalletRefunds[o] = 0
    BY <1>1, <1>5 DEF WalletCharged, WalletServed, WalletRefunds
  <2>5. WalletOutcome!Serve(o)
    BY <2>1, <2>2, <2>3, <2>4
    DEF WalletOutcome!Serve, WalletOutcome!Open, WalletCharged, WalletServed, WalletRefunds
  <2> QED BY <1>5, <2>5 DEF WalletOutcome!OutcomeNext
<1>6. CASE PersistFailure(r) /\ o \in WalletPaid
  <2>1. WalletCharged' = WalletCharged
    BY <1>1, <1>2, <1>6 DEF PersistFailure, WalletCharged
  <2>2. WalletServed' = WalletServed /\ WalletRefunds' = [WalletRefunds EXCEPT ![o] = 1]
    <3>1. /\ service' = service /\ refunds'[o] = 1
          /\ \A p \in WalletPaid : p # o => refunds'[p] = refunds[p]
      BY <1>1, <1>2, <1>6 DEF PersistFailure
    <3> QED BY <1>6, <3>1 DEF WalletServed, WalletRefunds
  <2>3. o \in WalletCharged /\ o \notin WalletServed /\ WalletRefunds[o] = 0
    BY <1>1, <1>6 DEF WalletCharged, WalletServed, WalletRefunds
  <2>4. WalletOutcome!Refund(o)
    BY <2>1, <2>2, <2>3
    DEF WalletOutcome!Refund, WalletOutcome!Open, WalletCharged, WalletServed, WalletRefunds
  <2> QED BY <1>6, <2>4 DEF WalletOutcome!OutcomeNext
<1> QED BY <1>3, <1>4, <1>5, <1>6

LEMMA WalletNextRefines ==
  TypeInv /\ OrderInv /\ [Next]_vars
    => [WalletOutcome!OutcomeNext]_(WalletOutcome!outcomeVars)
<1> SUFFICES ASSUME TypeInv, OrderInv, [Next]_vars
             PROVE  [WalletOutcome!OutcomeNext]_(WalletOutcome!outcomeVars)
  OBVIOUS
<1> USE DEF dbVars, incusVars
<1>0. /\ order \in [Orders -> {"none", "awaiting_payment", "paid", "processing"} \union Final]
      /\ \A q \in Requests : req[q].step # "idle" => req[q].obj \in Orders
      /\ WalletPaid \subseteq Orders
  BY PurchaseAssumption DEF TypeInv, TypeOK, RequestsWellFormed
<1>1. ASSUME NEW r \in Requests, SubmitWallet(r) PROVE WalletOutcome!OutcomeNext
  <2>0. PICK o \in WalletPaid : req[r].obj = o
    BY <1>1 DEF SubmitWallet
  <2>1. order[o] = "none"
    BY <1>1, <2>0 DEF SubmitWallet, OrderInv, OwnerInv, Submitting
  <2>2. WalletCharged' = WalletCharged \union {o} /\ o \notin WalletCharged
    BY <1>0, <1>1, <2>0, <2>1 DEF SubmitWallet, WalletCharged
  <2>3. WalletServed' = WalletServed /\ WalletRefunds' = WalletRefunds
    BY <1>1 DEF SubmitWallet, WalletServed, WalletRefunds
  <2>4. WalletOutcome!Pay(o)
    BY <2>2, <2>3 DEF WalletOutcome!Pay, WalletCharged, WalletServed, WalletRefunds
  <2> QED BY <2>4 DEF WalletOutcome!OutcomeNext
<1>2. ASSUME NEW r \in Requests, SubmitQris(r) \/ WebhookMarkPaid(r)
      PROVE  UNCHANGED WalletOutcome!outcomeVars
  <2>1. req[r].obj \notin WalletPaid /\ UNCHANGED <<service, refunds>>
    BY <1>2 DEF SubmitQris, WebhookMarkPaid, OrderInv, OwnerInv
  <2>2. \A p \in WalletPaid : order'[p] = order[p]
    <3>1. \/ order' = order
          \/ order' = [order EXCEPT ![req[r].obj] = "awaiting_payment"]
          \/ order' = [order EXCEPT ![req[r].obj] = "paid"]
      BY <1>2 DEF SubmitQris, WebhookMarkPaid
    <3> QED BY <1>0, <2>1, <3>1
  <2> QED BY <2>1, <2>2, WalletStutterRefines
<1>3. ASSUME \/ \E o \in Orders : CustomerPays(o)
             \/ \E r \in Requests :
                  \/ SubmitRefused(r) \/ WebhookReject(r) \/ Abandon(r)
                  \/ \E o \in Orders : SubmitCheck(r, o) \/ WebhookLoad(r, o)
      PROVE  UNCHANGED WalletOutcome!outcomeVars
  <2>1. UNCHANGED <<order, service, refunds>>
    BY <1>3 DEF CustomerPays, SubmitRefused, WebhookReject, Abandon, SubmitCheck, WebhookLoad
  <2> QED BY <2>1, WalletStutterRefines
<1>4. ASSUME NEW r \in Requests, Provision(r)
      PROVE  [WalletOutcome!OutcomeNext]_(WalletOutcome!outcomeVars)
  <2>1. req[r].obj \in Orders
    BY <1>0, <1>4 DEF Provision, AllocatePorts, PortsExhausted, CreateInstance,
       CreateFails, CreateUnnoticed, ConfigureInstance, ForwardPorts,
       ForwardUnnoticed, CleanUp, CleanUpFails, PersistSuccess, PersistFailure
  <2>2. PICK o \in Orders : req[r].obj = o
    BY <2>1
  <2> QED BY <1>4, <2>2, WalletProvisionRefines
<1>5. CASE UNCHANGED vars
  BY <1>5, WalletStutterRefines DEF vars
<1> QED
  BY <1>1, <1>2, <1>3, <1>4, <1>5 DEF Next, RequestStep

\* However many requests and webhooks run beside each other, and wherever they
\* stop, the orders paid from the wallet are charged once and then served or
\* refunded at most once: no assumption that one request at a time works.
THEOREM WalletRefinement == Spec => WalletOutcome!OutcomeSpec
<1>1. Init => WalletOutcome!OutcomeInit
  <2>1. Init => WalletRefunds = [o \in WalletPaid |-> 0]
    BY PurchaseAssumption DEF Init, WalletRefunds
  <2> QED
    BY <2>1, PurchaseAssumption DEF Init, WalletRefunds, WalletOutcome!OutcomeInit
<1> QED
  BY <1>1, TypeInvariant, OrderInvariant, WalletNextRefines, PTL
  DEF Spec, WalletOutcome!OutcomeSpec
=============================================================================
