--------------------------- MODULE DomainsProofs ---------------------------
(***************************************************************************)
(* Theorems about module Domains, for every set of domains and requests    *)
(* and for any number of faults.                                           *)
(***************************************************************************)
EXTENDS Domains, TLAPS

\* At these steps a request has inserted the row of its domain.
Working == {"ensure", "fail", "activate", "undo"}

Moves(r) == \A q \in Requests : q # r => req'[q] = req[q]

ReqRecord == [step : Steps, domain : Domains \union {NoDomain}, mode : Modes,
              call : 1..2, read : BOOLEAN, copy : SUBSET Domains]

ReqType == [Requests -> ReqRecord]

WellFormed(x) ==
  /\ IF x.step = "idle" THEN x.domain = NoDomain ELSE x.domain \in Domains
  /\ x.step \in {"idle", "insert"} => x.call = 1

RequestsWellFormed == \A r \in Requests : WellFormed(req[r])

TypeInv == TypeOK /\ RequestsWellFormed

-----------------------------------------------------------------------------
(***************************************************************************)
(* The two calls, and the two servers.                                     *)
(***************************************************************************)

\* The server that EnsureRoute changes first.
First(m) == IF m = "https" THEN "https" ELSE "http"

LEMMA ServerFacts ==
  ASSUME TypeOK, NEW r \in Requests
  PROVE  /\ ServerOf(r) \in Servers
         /\ req[r].step = "undo" => ServerOf(r) = IF req[r].call = 1 THEN "http" ELSE "https"
         /\ req[r].step = "ensure" =>
              (req[r].call = 1 <=> ServerOf(r) = First(req[r].mode))
         /\ req[r].step = "ensure" =>
              /\ req[r].call = 1 => /\ ServerOf(r) \in Wanted(req[r].mode)
                                    /\ Upserts(r)
              /\ req[r].call = 2 /\ Upserts(r) => Wanted(req[r].mode) = Servers
              /\ req[r].call = 2 /\ ~Upserts(r) => Wanted(req[r].mode) = Servers \ {ServerOf(r)}
         /\ req[r].step = "undo" => ~Upserts(r)
<1>1. (CHOOSE s \in Servers : s # "http") = "https" /\ (CHOOSE s \in Servers : s # "https") = "http"
  BY DEF Servers
<1>2. req[r].mode \in Modes /\ req[r].call \in 1..2
  BY DEF TypeOK
<1>3. CASE req[r].call = 1
  BY <1>2, <1>3 DEF ServerOf, Servers, Upserts, Wanted, Modes, First
<1>4. CASE req[r].call = 2
  BY <1>1, <1>2, <1>4 DEF ServerOf, Servers, Upserts, Wanted, Modes, First
<1> QED BY <1>2, <1>3, <1>4

\* A request is over, or goes on to its second call, or to record its success.
LEMMA AfterFacts ==
  ASSUME TypeOK, NEW r \in Requests, req[r].step \in {"ensure", "undo"}
  PROVE  /\ After(r) \in ReqRecord
         /\ \/ /\ req[r].call = 1 /\ After(r).call = 2
               /\ After(r).step = req[r].step
               /\ After(r).domain = req[r].domain /\ After(r).mode = req[r].mode
            \/ /\ req[r].call = 2 /\ req[r].step = "ensure" /\ After(r).step = "activate"
               /\ After(r).domain = req[r].domain /\ After(r).mode = req[r].mode
            \/ /\ req[r].call = 2 /\ req[r].step = "undo" /\ After(r) = Idle
<1>1. req[r] \in ReqRecord /\ Idle \in ReqRecord
  BY DEF TypeOK, ReqRecord, Idle, Steps, Modes
<1>2. [req[r] EXCEPT !.call = 2, !.read = FALSE, !.copy = {}] \in ReqRecord
  <2>1. 2 \in 1..2 /\ FALSE \in BOOLEAN /\ {} \in SUBSET Domains
    OBVIOUS
  <2>2. ASSUME NEW c \in 1..2, NEW b \in BOOLEAN, NEW D \in SUBSET Domains
        PROVE  [req[r] EXCEPT !.call = c, !.read = b, !.copy = D] \in ReqRecord
    BY <1>1 DEF ReqRecord
  <2> QED BY <2>1, <2>2
<1>3. [req[r] EXCEPT !.step = "activate", !.read = FALSE, !.copy = {}] \in ReqRecord
  BY <1>1 DEF ReqRecord, Steps
<1> QED BY <1>1, <1>2, <1>3 DEF After, Done, ReqRecord, Idle

LEMMA FailedFacts ==
  ASSUME TypeOK, NEW r \in Requests, req[r].step \in {"ensure", "undo"}
  PROVE  /\ Failed(r) \in ReqRecord
         /\ \/ Failed(r).step = "fail" /\ Failed(r).domain = req[r].domain /\ Failed(r).mode = req[r].mode
            \/ req[r].step = "undo" /\ Failed(r) = After(r)
<1>1. [req[r] EXCEPT !.step = "fail", !.read = FALSE, !.copy = {}] \in ReqRecord
  BY DEF TypeOK, ReqRecord, Steps
<1> QED BY <1>1, AfterFacts DEF Failed, ReqRecord, TypeOK

-----------------------------------------------------------------------------
(***************************************************************************)
(* Type correctness.                                                       *)
(***************************************************************************)

LEMMA IdleType == Idle \in ReqRecord
BY DEF ReqRecord, Idle, Steps, Modes

LEMMA AnswerFacts ==
  ASSUME TypeOK, NEW r \in Requests, Answer(r)
  PROVE  req' \in ReqType /\ Moves(r) /\ req'[r] = Idle
BY IdleType DEF Answer, TypeOK, ReqType, ReqRecord, Moves

LEMMA PutFacts ==
  ASSUME TypeInv, NEW r \in Requests, Put(r)
  PROVE  /\ routes' \in [Servers -> SUBSET Domains]
         /\ exists' \in SUBSET Servers /\ clobbered' \in SUBSET Domains
         /\ routes'[ServerOf(r)] = Edited(r)
         /\ \A s \in Servers \ {ServerOf(r)} : routes'[s] = routes[s]
<1> USE DEF TypeInv
<1>1. ServerOf(r) \in Servers
  BY ServerFacts
<1>2. req[r].domain \in Domains /\ req[r].copy \in SUBSET Domains
  BY DEF RequestsWellFormed, WellFormed, TypeOK, Put
<1>3. Edited(r) \in SUBSET Domains
  BY <1>2 DEF Edited
<1> QED BY <1>1, <1>3 DEF Put, TypeOK

LEMMA InitTypeInv == Init => TypeInv
BY IdleType, DomainsAssumption
DEF Init, TypeInv, TypeOK, RequestsWellFormed, WellFormed, Servers, Modes, Idle, ReqRecord

LEMMA FaultType == TypeOK /\ Fault => faults' \in 0..MaxFaults
BY DomainsAssumption DEF TypeOK, Fault

\* Whatever follows the call is of the same domain, or nothing.
LEMMA CallDomain ==
  ASSUME TypeInv, NEW r \in Requests, req[r].step \in {"ensure", "undo"}
  PROVE  /\ After(r) \in ReqRecord /\ Failed(r) \in ReqRecord
         /\ WellFormed(After(r)) /\ WellFormed(Failed(r))
<1>1. req[r].domain \in Domains /\ TypeOK
  BY DEF TypeInv, RequestsWellFormed, WellFormed
<1>2. /\ After(r) \in ReqRecord
      /\ \/ After(r).domain = req[r].domain /\ After(r).step \notin {"idle", "insert"}
         \/ After(r) = Idle
  BY <1>1, AfterFacts
<1>3. /\ Failed(r) \in ReqRecord
      /\ \/ Failed(r).domain = req[r].domain /\ Failed(r).step = "fail"
         \/ Failed(r) = After(r)
  BY <1>1, FailedFacts
<1>4. WellFormed(Idle)
  BY DEF Idle, WellFormed
<1> QED BY <1>1, <1>2, <1>3, <1>4 DEF WellFormed

LEMMA StepTypeInv == TypeInv /\ [Next]_vars => TypeInv'
<1> SUFFICES ASSUME TypeInv, [Next]_vars PROVE TypeInv'
  OBVIOUS
<1> USE DEF TypeInv
<1>a. ASSUME req' \in ReqType,
             UNCHANGED <<row, mode>> \/ (row' \in [Domains -> {"none", "pending", "active", "failed"}]
                                        /\ mode' \in [Domains -> Modes]),
             UNCHANGED caddy \/ (routes' \in [Servers -> SUBSET Domains] /\ exists' \in SUBSET Servers),
             clobbered' \in SUBSET Domains, unclean' \in SUBSET Domains,
             faults' \in 0..MaxFaults
      PROVE  TypeOK'
  BY <1>a DEF TypeOK, caddy, ReqType, ReqRecord
<1>b. ASSUME NEW r \in Requests, Moves(r), WellFormed(req'[r])
      PROVE  RequestsWellFormed'
  BY <1>b DEF Moves, RequestsWellFormed, WellFormed
<1>1. CASE UNCHANGED vars
  BY <1>1 DEF vars, caddy, TypeOK, RequestsWellFormed
<1>2. ASSUME NEW r \in Requests, NEW d \in Domains, NEW m \in Modes, DomainPreview(r, d, m)
      PROVE  TypeInv'
  <2>1. [Idle EXCEPT !.step = "insert", !.domain = d, !.mode = m] \in ReqRecord
    BY IdleType DEF ReqRecord, Steps
  <2> DEFINE begun == [Idle EXCEPT !.step = "insert", !.domain = d, !.mode = m]
  <2>2. begun.domain = d /\ begun.step = "insert" /\ begun.call = 1
    BY DEF Idle
  <2>3. req' = [req EXCEPT ![r] = begun]
    BY <1>2 DEF DomainPreview
  <2> HIDE DEF begun
  <2>4. req' \in ReqType /\ Moves(r) /\ WellFormed(req'[r])
    BY <2>1, <2>2, <2>3 DEF begun, TypeOK, ReqType, ReqRecord, Moves, WellFormed
  <2> QED BY <1>2, <1>a, <1>b, <2>4 DEF DomainPreview, TypeOK
<1>3. ASSUME NEW r \in Requests, DomainInsert(r)
      PROVE  TypeInv'
  <2>1. /\ req' \in ReqType /\ Moves(r)
        /\ req'[r].domain = req[r].domain /\ req'[r].step # "idle"
    BY <1>3 DEF DomainInsert, TypeOK, ReqType, ReqRecord, Moves, Steps
  <2>2. row' \in [Domains -> {"none", "pending", "active", "failed"}] /\ mode' \in [Domains -> Modes]
    BY <1>3 DEF DomainInsert, TypeOK
  <2> QED BY <1>3, <1>a, <1>b, <2>1, <2>2 DEF DomainInsert, TypeOK, RequestsWellFormed, WellFormed
<1>4. ASSUME NEW r \in Requests, DomainRefused(r) \/ DomainFail(r) \/ DomainActivate(r) \/ Abandon(r)
      PROVE  TypeInv'
  <2>1. req' \in ReqType /\ Moves(r) /\ req'[r] = Idle
    BY <1>4, AnswerFacts DEF DomainRefused, DomainFail, DomainActivate, Abandon
  <2>2. row' \in [Domains -> {"none", "pending", "active", "failed"}] /\ mode' = mode
    BY <1>4 DEF DomainRefused, DomainFail, DomainActivate, Abandon, TypeOK
  <2>3. faults' \in 0..MaxFaults
    BY <1>4, FaultType DEF DomainRefused, DomainFail, DomainActivate, Abandon, TypeOK
  <2>4. unclean' \in SUBSET Domains /\ UNCHANGED <<caddy, clobbered>>
    BY <1>4 DEF DomainRefused, DomainFail, DomainActivate, Abandon, TypeOK, RequestsWellFormed, WellFormed
  <2>5. TypeOK'
    BY <1>a, <2>1, <2>2, <2>3, <2>4 DEF TypeOK
  <2>6. RequestsWellFormed'
    BY <1>b, <2>1 DEF Idle, WellFormed
  <2> QED BY <2>5, <2>6
<1>5. ASSUME NEW r \in Requests, GetServer(r)
      PROVE  TypeInv'
  <2>1. After(r) \in ReqRecord /\ WellFormed(After(r))
    BY <1>5, CallDomain DEF GetServer
  <2>2. ASSUME NEW D \in SUBSET Domains
        PROVE  [req[r] EXCEPT !.read = TRUE, !.copy = D] \in ReqRecord
    <3>1. ASSUME NEW b \in BOOLEAN PROVE [req[r] EXCEPT !.read = b, !.copy = D] \in ReqRecord
      BY DEF TypeOK, ReqRecord
    <3> QED BY <3>1
  <2>3. routes[ServerOf(r)] \in SUBSET Domains
    BY ServerFacts DEF TypeOK
  <2> DEFINE got == [req[r] EXCEPT !.read = TRUE, !.copy = routes[ServerOf(r)]]
  <2>4. got \in ReqRecord /\ got.domain = req[r].domain /\ got.step = req[r].step
    BY <2>2, <2>3 DEF TypeOK
  <2>5. req' = [req EXCEPT ![r] = After(r)] \/ req' = [req EXCEPT ![r] = got]
    BY <1>5 DEF GetServer
  <2> HIDE DEF got
  <2>6. /\ req' \in ReqType /\ Moves(r)
        /\ WellFormed(req'[r])
    BY <1>5, <2>1, <2>4, <2>5 DEF GetServer, TypeOK, ReqType, ReqRecord, Moves, RequestsWellFormed, WellFormed
  <2> QED BY <1>5, <1>a, <1>b, <2>6 DEF GetServer, TypeOK
<1>6. ASSUME NEW r \in Requests, PutServer(r)
      PROVE  TypeInv'
  <2>1. After(r) \in ReqRecord /\ WellFormed(After(r))
    BY <1>6, CallDomain DEF PutServer, Put
  <2>2. /\ req' \in ReqType /\ Moves(r)
        /\ WellFormed(req'[r])
    BY <1>6, <2>1 DEF PutServer, TypeOK, ReqType, ReqRecord, Moves
  <2> QED BY <1>6, <1>a, <1>b, <2>2, PutFacts DEF PutServer, TypeOK
<1>7. ASSUME NEW r \in Requests, CaddyFails(r)
      PROVE  TypeInv'
  <2>1. Failed(r) \in ReqRecord /\ WellFormed(Failed(r))
    BY <1>7, CallDomain DEF CaddyFails
  <2>2. /\ req' \in ReqType /\ Moves(r)
        /\ WellFormed(req'[r])
    BY <1>7, <2>1 DEF CaddyFails, TypeOK, ReqType, ReqRecord, Moves
  <2>3. unclean' \in SUBSET Domains /\ faults' \in 0..MaxFaults
    BY <1>7, FaultType DEF CaddyFails, TypeOK, RequestsWellFormed, WellFormed
  <2>4. /\ clobbered' \in SUBSET Domains
        /\ UNCHANGED caddy \/ (routes' \in [Servers -> SUBSET Domains] /\ exists' \in SUBSET Servers)
    BY <1>7, PutFacts DEF CaddyFails, TypeOK
  <2> QED BY <1>7, <1>a, <1>b, <2>2, <2>3, <2>4 DEF CaddyFails
<1>8. ASSUME NEW r \in Requests, ActivateFails(r)
      PROVE  TypeInv'
  <2>1. /\ req' \in ReqType /\ Moves(r)
        /\ req'[r].domain = req[r].domain /\ req'[r].step # "idle"
    <3>1. ASSUME NEW c \in 1..2 PROVE [req[r] EXCEPT !.step = "undo", !.call = c] \in ReqRecord
      BY DEF TypeOK, ReqRecord, Steps
    <3>2. [req[r] EXCEPT !.step = "undo", !.call = 1] \in ReqRecord
      BY <3>1
    <3> QED BY <1>8, <3>2 DEF ActivateFails, TypeOK, ReqType, ReqRecord, Moves
  <2>2. faults' \in 0..MaxFaults
    BY <1>8, FaultType DEF ActivateFails
  <2> QED BY <1>8, <1>a, <1>b, <2>1, <2>2 DEF ActivateFails, TypeOK, RequestsWellFormed, WellFormed
<1> QED BY <1>1, <1>2, <1>3, <1>4, <1>5, <1>6, <1>7, <1>8 DEF Next

\* Every row, server and request has the values the code can give it.
THEOREM TypeCorrect == Spec => []TypeOK
<1>1. Spec => []TypeInv
  BY InitTypeInv, StepTypeInv, PTL DEF Spec
<1>2. TypeInv => TypeOK
  BY DEF TypeInv
<1> QED BY <1>1, <1>2, PTL

-----------------------------------------------------------------------------
(***************************************************************************)
(* The invariant.  A domain's row is inserted once, so that one request at *)
(* most works on a domain; no other request's call changes its routes      *)
(* without the domain becoming clobbered.                                  *)
(***************************************************************************)

RowInv ==
  /\ \A r \in Requests : req[r].step \in Working =>
       row[req[r].domain] = "pending" /\ mode[req[r].domain] = req[r].mode
  /\ \A r, q \in Requests :
       req[r].step \in Working /\ req[q].step \in Working /\ q # r =>
         req[q].domain # req[r].domain

\* What a request at work has done to the routes of its domain.
RequestInv(r) ==
  /\ req[r].step = "fail" => req[r].domain \in unclean
  /\ req[r].step = "ensure" =>
       \/ req[r].domain \in clobbered
       \/ req[r].call = 1 /\ RoutedOn(req[r].domain) = {}
       \/ req[r].call = 2 /\ RoutedOn(req[r].domain) = {First(req[r].mode)}
  /\ req[r].step = "activate" =>
       \/ req[r].domain \in clobbered
       \/ RoutedOn(req[r].domain) = Wanted(req[r].mode)
  /\ req[r].step = "undo" /\ req[r].call = 2 =>
       \/ req[r].domain \in clobbered \union unclean
       \/ "http" \notin RoutedOn(req[r].domain)

DomainInv(d) ==
  /\ row[d] = "none" => RoutedOn(d) = {} \/ d \in clobbered
  /\ row[d] = "active" => RoutedOn(d) = Wanted(mode[d]) \/ d \in clobbered
  /\ RoutedOn(d) # {} =>
       \/ row[d] = "active" \/ d \in clobbered \union unclean
       \/ \E r \in Requests : req[r].domain = d /\ req[r].step # "insert"

RouteInv ==
  /\ \A s \in Servers : s \notin exists => routes[s] = {}
  /\ \A r \in Requests : RequestInv(r)
  /\ \A d \in Domains : DomainInv(d)

Inv == TypeInv /\ RowInv /\ RouteInv

\* What a step of a request at work leaves alone.
Keeps(r) ==
  /\ Moves(r) /\ req[r].step \in Working
  /\ clobbered \subseteq clobbered' /\ unclean \subseteq unclean'
  /\ mode' = mode
  /\ \A d \in Domains : d # req[r].domain =>
       row'[d] = row[d] /\ (RoutedOn(d)' = RoutedOn(d) \/ d \in clobbered')

LEMMA PutEffect ==
  ASSUME TypeInv, NEW r \in Requests, Put(r)
  PROVE  /\ clobbered \subseteq clobbered'
         /\ \A d \in Domains : d # req[r].domain =>
              RoutedOn(d)' = RoutedOn(d) \/ d \in clobbered'
         /\ \A d \in Domains : d = req[r].domain =>
              RoutedOn(d)' = IF Upserts(r) THEN RoutedOn(d) \union {ServerOf(r)}
                                           ELSE RoutedOn(d) \ {ServerOf(r)}
         /\ (\A s \in Servers : s \notin exists => routes[s] = {})
              => (\A s \in Servers : s \notin exists' => routes'[s] = {})
<1>1. /\ ServerOf(r) \in Servers /\ routes'[ServerOf(r)] = Edited(r)
      /\ \A s \in Servers \ {ServerOf(r)} : routes'[s] = routes[s]
  BY PutFacts, ServerFacts DEF TypeInv
<1>2. ASSUME NEW d \in Domains, d # req[r].domain, d \notin clobbered'
      PROVE  RoutedOn(d)' = RoutedOn(d)
  <2>1. d \in Edited(r) <=> d \in routes[ServerOf(r)]
    BY <1>2 DEF Put
  <2> QED BY <1>1, <2>1 DEF RoutedOn
<1>3. req[r].domain \in Edited(r) <=> Upserts(r)
  BY DEF Edited
<1>4. ASSUME NEW d \in Domains, d = req[r].domain
      PROVE  RoutedOn(d)' = IF Upserts(r) THEN RoutedOn(d) \union {ServerOf(r)}
                                          ELSE RoutedOn(d) \ {ServerOf(r)}
  BY <1>1, <1>3, <1>4 DEF RoutedOn
<1> QED BY <1>1, <1>2, <1>4 DEF Put

\* The rest of the invariant survives it.
LEMMA KeepsOthers ==
  ASSUME Inv, NEW r \in Requests, Keeps(r)
  PROVE  /\ \A q \in Requests : q # r => RequestInv(q)'
         /\ \A d \in Domains : d # req[r].domain => DomainInv(d)'
<1> USE DEF Inv
<1>1. ASSUME NEW q \in Requests, q # r
      PROVE  RequestInv(q)'
  <2>1. req'[q] = req[q] /\ RequestInv(q)
    BY <1>1 DEF Keeps, Moves, RouteInv
  <2>2. CASE req[q].step \in Working
    <3>1. req[q].domain \in Domains /\ req[q].domain # req[r].domain
      BY <1>1, <2>2 DEF Keeps, RowInv, TypeInv, RequestsWellFormed, WellFormed, Working
    <3>2. PICK d \in Domains : d = req[q].domain
      BY <3>1
    <3>3. RoutedOn(d)' = RoutedOn(d) \/ d \in clobbered'
      BY <3>1, <3>2 DEF Keeps
    <3> QED BY <2>1, <3>2, <3>3 DEF RequestInv, Keeps
  <2>3. CASE req[q].step \notin Working
    BY <2>1, <2>3 DEF RequestInv, Working
  <2> QED BY <2>2, <2>3
<1>2. ASSUME NEW d \in Domains, d # req[r].domain
      PROVE  DomainInv(d)'
  <2>1. DomainInv(d) /\ row'[d] = row[d] /\ mode'[d] = mode[d]
    BY <1>2 DEF RouteInv, Keeps
  <2>2. RoutedOn(d)' = RoutedOn(d) \/ d \in clobbered'
    BY <1>2 DEF Keeps
  <2>3. \A q \in Requests : req[q].domain = d => req'[q] = req[q]
    BY <1>2 DEF Keeps, Moves
  <2> QED BY <2>1, <2>2, <2>3 DEF DomainInv, Keeps
<1> QED BY <1>1, <1>2

\* A request at work makes a call: it stays with its domain, or is over.
Call(r) ==
  /\ req[r].step \in {"ensure", "undo"}
  /\ Moves(r)
  /\ \/ req'[r].domain = req[r].domain /\ req'[r].mode = req[r].mode
     \/ req'[r] = Idle
  /\ UNCHANGED <<row, mode>>

LEMMA CallFacts ==
  ASSUME TypeInv, NEW r \in Requests, GetServer(r) \/ PutServer(r) \/ CaddyFails(r)
  PROVE  Call(r) /\ Keeps(r)
<1> USE DEF TypeInv
<1>1. Call(r)
  <2>1. CASE GetServer(r)
    <3> DEFINE got == [req[r] EXCEPT !.read = TRUE, !.copy = routes[ServerOf(r)]]
    <3>1. got.domain = req[r].domain /\ got.mode = req[r].mode
      BY DEF TypeOK
    <3>2. req' = [req EXCEPT ![r] = After(r)] \/ req' = [req EXCEPT ![r] = got]
      BY <2>1 DEF GetServer
    <3> HIDE DEF got
    <3> QED BY <2>1, <3>1, <3>2, AfterFacts DEF GetServer, Call, Moves, TypeOK
  <2>2. CASE PutServer(r)
    BY <2>2, AfterFacts DEF PutServer, Put, Call, Moves, TypeOK
  <2>3. CASE CaddyFails(r)
    BY <2>3, AfterFacts, FailedFacts DEF CaddyFails, Call, Moves, TypeOK
  <2> QED BY <2>1, <2>2, <2>3
<1>2. /\ clobbered \subseteq clobbered'
      /\ \A d \in Domains : d # req[r].domain =>
           RoutedOn(d)' = RoutedOn(d) \/ d \in clobbered'
  <2>1. CASE Put(r)
    BY <2>1, PutEffect
  <2>2. CASE UNCHANGED <<caddy, clobbered>>
    BY <2>2 DEF caddy, RoutedOn
  <2> QED BY <2>1, <2>2 DEF GetServer, PutServer, CaddyFails
<1>3. unclean \subseteq unclean'
  BY DEF GetServer, PutServer, CaddyFails
<1> QED BY <1>1, <1>2, <1>3 DEF Call, Keeps, Working

LEMMA StepRowInv ==
  ASSUME TypeInv, RowInv, [Next]_vars
  PROVE  RowInv'
<1> Idle.step \notin Working
  BY DEF Idle, Working
<1>1. CASE UNCHANGED vars
  BY <1>1 DEF vars, RowInv
<1>2. ASSUME NEW r \in Requests, NEW d \in Domains, NEW m \in Modes, DomainPreview(r, d, m)
      PROVE  RowInv'
  <2>1. Moves(r) /\ req'[r].step = "insert"
    BY <1>2 DEF DomainPreview, Moves, TypeInv, TypeOK, Idle
  <2> QED BY <1>2, <2>1 DEF DomainPreview, Moves, RowInv, Working
<1>3. ASSUME NEW r \in Requests, DomainInsert(r)
      PROVE  RowInv'
  <2>1. /\ Moves(r) /\ req'[r].domain = req[r].domain /\ req'[r].mode = req[r].mode
        /\ req[r].domain \in Domains
    BY <1>3 DEF DomainInsert, Moves, TypeInv, TypeOK, RequestsWellFormed, WellFormed
  <2>2. /\ row'[req[r].domain] = "pending" /\ mode'[req[r].domain] = req[r].mode
        /\ \A d \in Domains : d # req[r].domain => row'[d] = row[d] /\ mode'[d] = mode[d]
    BY <1>3, <2>1 DEF DomainInsert, TypeInv, TypeOK
  <2>3. \A q \in Requests : req[q].step \in Working =>
          req[q].domain # req[r].domain /\ req[q].domain \in Domains
    BY <1>3 DEF DomainInsert, RowInv, TypeInv, RequestsWellFormed, WellFormed, Working
  <2> QED BY <2>1, <2>2, <2>3 DEF RowInv, Moves
<1>4. ASSUME NEW r \in Requests, GetServer(r) \/ PutServer(r) \/ CaddyFails(r)
      PROVE  RowInv'
  <2>1. Call(r)
    BY <1>4, CallFacts
  <2>2. \A q \in Requests : req'[q].step \in Working =>
          req[q].step \in Working /\ req'[q].domain = req[q].domain /\ req'[q].mode = req[q].mode
    BY <2>1 DEF Call, Moves, Working
  <2>3. UNCHANGED <<row, mode>>
    BY <2>1 DEF Call
  <2> QED BY <2>2, <2>3 DEF RowInv
<1>5. ASSUME NEW r \in Requests, ActivateFails(r)
      PROVE  RowInv'
  <2>1. Moves(r) /\ req'[r].domain = req[r].domain /\ req'[r].mode = req[r].mode
    BY <1>5 DEF ActivateFails, Moves, TypeInv, TypeOK
  <2>2. \A q \in Requests : req'[q].step \in Working =>
          req[q].step \in Working /\ req'[q].domain = req[q].domain /\ req'[q].mode = req[q].mode
    BY <1>5, <2>1 DEF ActivateFails, Moves, Working
  <2>3. UNCHANGED <<row, mode>>
    BY <1>5 DEF ActivateFails
  <2> QED BY <2>2, <2>3 DEF RowInv
<1>6. ASSUME NEW r \in Requests, DomainRefused(r) \/ DomainFail(r) \/ DomainActivate(r) \/ Abandon(r)
      PROVE  RowInv'
  <2>1. Moves(r) /\ req'[r].step \notin Working
    BY <1>6, AnswerFacts DEF DomainRefused, DomainFail, DomainActivate, Abandon, TypeInv
  <2>2. /\ mode' = mode
        /\ \A q \in Requests : req[q].step \in Working /\ q # r =>
             row'[req[q].domain] = row[req[q].domain]
    <3>1. CASE DomainRefused(r) \/ Abandon(r)
      BY <3>1 DEF DomainRefused, Abandon
    <3>2. CASE DomainFail(r) \/ DomainActivate(r)
      <4>1. mode' = mode /\ \A d \in Domains : d # req[r].domain => row'[d] = row[d]
        BY <3>2 DEF DomainFail, DomainActivate, TypeInv, TypeOK
      <4>2. \A q \in Requests : req[q].step \in Working /\ q # r =>
              req[q].domain # req[r].domain /\ req[q].domain \in Domains
        BY <3>2 DEF DomainFail, DomainActivate, RowInv, TypeInv, RequestsWellFormed,
           WellFormed, Working
      <4> QED BY <4>1, <4>2
    <3> QED BY <1>6, <3>1, <3>2
  <2> QED BY <2>1, <2>2 DEF Moves, RowInv
<1> QED BY <1>1, <1>2, <1>3, <1>4, <1>5, <1>6 DEF Next

\* A call is over: the route is on the call's server, or is not.
LEMMA CallEnds ==
  ASSUME Inv, NEW r \in Requests, req[r].step \in {"ensure", "undo"},
         NEW d \in Domains, d = req[r].domain,
         RoutedOn(d)' = IF Upserts(r) THEN RoutedOn(d) \union {ServerOf(r)}
                                      ELSE RoutedOn(d) \ {ServerOf(r)},
         req' = [req EXCEPT ![r] = After(r)], row' = row,
         clobbered \subseteq clobbered', unclean \subseteq unclean'
  PROVE  RequestInv(r)' /\ DomainInv(d)'
<1> USE DEF Inv, TypeInv
<1>1. req'[r] = After(r) /\ req[r].call \in 1..2 /\ req[r].mode \in Modes
  BY DEF TypeOK
<1>2. RequestInv(r) /\ DomainInv(d) /\ row'[d] = "pending"
  BY DEF RouteInv, RowInv, Working
<1>8. \/ /\ req[r].call = 1 /\ req'[r].call = 2
         /\ req'[r].step = req[r].step
         /\ req'[r].domain = d /\ req'[r].mode = req[r].mode
      \/ /\ req[r].call = 2 /\ req[r].step = "ensure" /\ req'[r].step = "activate"
         /\ req'[r].domain = d /\ req'[r].mode = req[r].mode
      \/ /\ req[r].call = 2 /\ req[r].step = "undo" /\ req'[r] = Idle
  BY <1>1, AfterFacts
<1>3. ServerOf(r) \in Servers /\ RoutedOn(d) \subseteq Servers /\ First(req[r].mode) \in Servers
  BY ServerFacts DEF RoutedOn, First, Servers
<1>4. CASE req[r].step = "ensure" /\ req[r].call = 1
  <2>1. Upserts(r) /\ ServerOf(r) = First(req[r].mode)
    BY <1>4, ServerFacts
  <2>2. /\ req'[r].step = "ensure" /\ req'[r].call = 2
        /\ req'[r].domain = d /\ req'[r].mode = req[r].mode
    BY <1>8, <1>4
  <2>3. d \in clobbered' \/ RoutedOn(d)' = {First(req[r].mode)}
    BY <1>2, <1>4, <2>1 DEF RequestInv
  <2>4. RequestInv(r)'
    BY <2>2, <2>3 DEF RequestInv
  <2> QED BY <1>2, <2>2, <2>4 DEF DomainInv
<1>5. CASE req[r].step = "ensure" /\ req[r].call = 2
  <2>1. ServerOf(r) # First(req[r].mode)
    BY <1>5, ServerFacts
  <2>2. /\ req'[r].step = "activate" /\ req'[r].domain = d /\ req'[r].mode = req[r].mode
    BY <1>8, <1>5
  <2>3. Wanted(req[r].mode) = IF Upserts(r) THEN Servers ELSE Servers \ {ServerOf(r)}
    BY <1>5, ServerFacts
  <2>4. d \in clobbered \/ RoutedOn(d) = {First(req[r].mode)}
    BY <1>2, <1>5 DEF RequestInv
  <2>5. d \in clobbered' \/ RoutedOn(d)' = Wanted(req[r].mode)
    BY <1>3, <2>1, <2>3, <2>4 DEF Servers
  <2>6. RequestInv(r)'
    BY <2>2, <2>5 DEF RequestInv
  <2> QED BY <1>2, <2>2, <2>6 DEF DomainInv
<1>6. CASE req[r].step = "undo" /\ req[r].call = 1
  <2>1. ServerOf(r) = "http" /\ ~Upserts(r)
    BY <1>6, ServerFacts
  <2>2. req'[r].step = "undo" /\ req'[r].domain = d
    BY <1>8, <1>6
  <2>3. RequestInv(r)'
    BY <2>1, <2>2 DEF RequestInv
  <2> QED BY <1>2, <2>2, <2>3 DEF DomainInv
<1>7. CASE req[r].step = "undo" /\ req[r].call = 2
  <2>1. ServerOf(r) = "https" /\ ~Upserts(r)
    BY <1>7, ServerFacts
  <2>2. req'[r] = Idle
    BY <1>8, <1>7
  <2>3. d \in clobbered' \union unclean' \/ RoutedOn(d)' = {}
    BY <1>2, <1>3, <1>7, <2>1 DEF RequestInv, Servers
  <2>4. RequestInv(r)'
    BY <2>2 DEF RequestInv, Idle
  <2> QED BY <1>2, <2>3, <2>4 DEF DomainInv
<1> QED BY <1>1, <1>4, <1>5, <1>6, <1>7

LEMMA CallStep ==
  ASSUME Inv, NEW r \in Requests, GetServer(r) \/ PutServer(r) \/ CaddyFails(r)
  PROVE  RequestInv(r)' /\ (\A d \in Domains : d = req[r].domain => DomainInv(d)')
<1> USE DEF Inv, TypeInv
<1> SUFFICES ASSUME NEW d \in Domains, d = req[r].domain
             PROVE  RequestInv(r)' /\ DomainInv(d)'
  BY DEF RequestsWellFormed, WellFormed, GetServer, PutServer, CaddyFails, Put
<1>1. req[r].step \in {"ensure", "undo"} /\ row' = row /\ row[d] = "pending"
  BY DEF GetServer, PutServer, CaddyFails, Put, RowInv, Working
<1>2. CASE GetServer(r)
  <2>1. /\ RoutedOn(d)' = RoutedOn(d) /\ clobbered' = clobbered /\ unclean' = unclean
    BY <1>2 DEF GetServer, caddy, RoutedOn
  <2>2. CASE ServerOf(r) \notin exists /\ ~Upserts(r)
    <3>1. ServerOf(r) \notin RoutedOn(d)
      BY <2>2, ServerFacts DEF RouteInv, RoutedOn
    <3>2. req' = [req EXCEPT ![r] = After(r)]
      BY <1>2, <2>2 DEF GetServer
    <3> QED BY <1>1, <2>1, <2>2, <3>1, <3>2, CallEnds
  <2>3. CASE ~(ServerOf(r) \notin exists /\ ~Upserts(r))
    <3> DEFINE got == [req[r] EXCEPT !.read = TRUE, !.copy = routes[ServerOf(r)]]
    <3>1. req' = [req EXCEPT ![r] = got]
      BY <1>2, <2>3 DEF GetServer
    <3>2. /\ got.domain = d /\ got.mode = req[r].mode
          /\ got.step = req[r].step /\ got.call = req[r].call
      BY DEF TypeOK
    <3> HIDE DEF got
    <3>3. req'[r] = got
      BY <3>1 DEF TypeOK
    <3>4. RequestInv(r) /\ DomainInv(d)
      BY DEF RouteInv
    <3>5. RequestInv(r)'
      BY <2>1, <3>2, <3>3, <3>4 DEF RequestInv
    <3> QED BY <1>1, <3>2, <3>3, <3>5 DEF DomainInv
  <2> QED BY <2>2, <2>3
<1>3. CASE PutServer(r)
  BY <1>1, <1>3, PutEffect, CallEnds DEF PutServer
<1>4. CASE CaddyFails(r)
  <2>1. d \in unclean' /\ req' = [req EXCEPT ![r] = Failed(r)]
    BY <1>4 DEF CaddyFails
  <2>2. req'[r] = Failed(r)
    BY <2>1 DEF TypeOK
  <2>3. \/ req'[r].step \in {"fail", "undo"} /\ req'[r].domain = d
        \/ req'[r] = Idle
    BY <1>1, <2>2, FailedFacts, AfterFacts
  <2> QED BY <1>1, <2>1, <2>3 DEF RequestInv, DomainInv, Idle
<1> QED BY <1>2, <1>3, <1>4

LEMMA ServersInv ==
  ASSUME Inv, [Next]_vars
  PROVE  \A s \in Servers : s \notin exists' => routes'[s] = {}
<1>1. CASE \E r \in Requests : Put(r)
  BY <1>1, PutEffect DEF Inv, RouteInv
<1>2. CASE UNCHANGED caddy
  BY <1>2 DEF Inv, RouteInv, caddy
<1> QED BY <1>1, <1>2
        DEF Next, vars, DomainPreview, DomainInsert, DomainRefused, GetServer, PutServer,
            CaddyFails, DomainFail, DomainActivate, ActivateFails, Abandon

LEMMA StepRouteInv ==
  ASSUME Inv, [Next]_vars
  PROVE  RouteInv'
<1> SUFFICES /\ \A q \in Requests : RequestInv(q)'
             /\ \A d \in Domains : DomainInv(d)'
  BY ServersInv DEF RouteInv
<1> USE DEF Inv, TypeInv
<1>0. /\ \A q \in Requests : RequestInv(q)
      /\ \A d \in Domains : DomainInv(d)
  BY DEF RouteInv
<1>1. CASE UNCHANGED vars
  BY <1>0, <1>1 DEF vars, caddy, RequestInv, DomainInv, RoutedOn
\* A step of a request that is not at work, and is not so afterwards.
<1>2. ASSUME NEW r \in Requests, UNCHANGED <<row, mode, caddy, clobbered, unclean>>,
             Moves(r), req[r].step \in {"idle", "insert"}, req'[r].step \in {"idle", "insert"}
      PROVE  /\ \A q \in Requests : RequestInv(q)'
             /\ \A d \in Domains : DomainInv(d)'
  <2>1. \A d \in Domains : RoutedOn(d)' = RoutedOn(d)
    BY <1>2 DEF caddy, RoutedOn
  <2>2. ASSUME NEW q \in Requests
        PROVE  RequestInv(q)'
    <3>1. CASE req'[q] = req[q] /\ req[q].step \in Working
      <4>1. PICK d \in Domains : d = req[q].domain
        BY <3>1 DEF RequestsWellFormed, WellFormed, Working
      <4> QED BY <1>0, <1>2, <2>1, <3>1, <4>1 DEF RequestInv
    <3>2. CASE req'[q].step \notin Working
      BY <3>2 DEF RequestInv, Working
    <3> QED BY <1>2, <3>1, <3>2 DEF Moves, Working
  <2>3. ASSUME NEW d \in Domains
        PROVE  DomainInv(d)'
    <3>1. \A q \in Requests : req[q].domain = d /\ req[q].step # "insert" => req'[q] = req[q]
      BY <1>2, DomainsAssumption DEF Moves, RequestsWellFormed, WellFormed
    <3> QED BY <1>0, <1>2, <2>1, <3>1 DEF DomainInv
  <2> QED BY <2>2, <2>3
<1>3. ASSUME NEW r \in Requests, NEW d \in Domains, NEW m \in Modes, DomainPreview(r, d, m)
      PROVE  /\ \A q \in Requests : RequestInv(q)'
             /\ \A x \in Domains : DomainInv(x)'
  <2>1. Moves(r) /\ req'[r].step = "insert"
    BY <1>3 DEF DomainPreview, Moves, TypeOK, Idle
  <2> QED BY <1>2, <1>3, <2>1 DEF DomainPreview
<1>4. ASSUME NEW r \in Requests, DomainRefused(r) \/ (Abandon(r) /\ req[r].step = "insert")
      PROVE  /\ \A q \in Requests : RequestInv(q)'
             /\ \A d \in Domains : DomainInv(d)'
  <2>1. Moves(r) /\ req'[r].step = "idle"
    BY <1>4, AnswerFacts DEF DomainRefused, Abandon, Idle
  <2> QED BY <1>2, <1>4, <2>1 DEF DomainRefused, Abandon
<1>5. ASSUME NEW r \in Requests, DomainInsert(r)
      PROVE  /\ \A q \in Requests : RequestInv(q)'
             /\ \A d \in Domains : DomainInv(d)'
  <2>1. PICK e \in Domains : e = req[r].domain
    BY <1>5 DEF DomainInsert, RequestsWellFormed, WellFormed
  <2>2. /\ Moves(r) /\ req'[r].step = "ensure" /\ req'[r].domain = e /\ req'[r].call = req[r].call
        /\ req'[r].mode = req[r].mode /\ row[e] = "none"
        /\ row'[e] = "pending" /\ mode'[e] = req[r].mode
        /\ \A d \in Domains : d # e => row'[d] = row[d] /\ mode'[d] = mode[d]
    BY <1>5, <2>1 DEF DomainInsert, Moves, TypeOK
  <2>3. \A d \in Domains : RoutedOn(d)' = RoutedOn(d)
    BY <1>5 DEF DomainInsert, caddy, RoutedOn
  <2>4. clobbered' = clobbered /\ unclean' = unclean /\ req[r].call = 1
    BY <1>5 DEF DomainInsert, RequestsWellFormed, WellFormed
  <2>5. RequestInv(r)'
    BY <1>0, <2>1, <2>2, <2>3, <2>4 DEF RequestInv, DomainInv
  <2>6. ASSUME NEW q \in Requests, q # r
        PROVE  RequestInv(q)'
    <3>1. req'[q] = req[q]
      BY <2>2, <2>6 DEF Moves
    <3>2. CASE req[q].step \in Working
      <4>1. PICK d \in Domains : d = req[q].domain
        BY <3>2 DEF RequestsWellFormed, WellFormed, Working
      <4> QED BY <1>0, <2>3, <2>4, <3>1, <4>1 DEF RequestInv
    <3>3. CASE req[q].step \notin Working
      BY <3>1, <3>3 DEF RequestInv, Working
    <3> QED BY <3>2, <3>3
  <2>7. ASSUME NEW d \in Domains
        PROVE  DomainInv(d)'
    <3>1. \A q \in Requests : req[q].domain = d /\ req[q].step # "insert" => req'[q] = req[q]
      BY <1>5, <2>2 DEF Moves, DomainInsert
    <3>2. CASE d = e
      BY <2>2, <3>2 DEF DomainInv
    <3>3. CASE d # e
      BY <1>0, <2>2, <2>3, <2>4, <3>1, <3>3 DEF DomainInv
    <3> QED BY <3>2, <3>3
  <2> QED BY <2>5, <2>6, <2>7
\* A step of a request at work, once what concerns its own domain is shown.
<1>6. ASSUME NEW r \in Requests, Keeps(r), RequestInv(r)',
             \A d \in Domains : d = req[r].domain => DomainInv(d)'
      PROVE  /\ \A q \in Requests : RequestInv(q)'
             /\ \A d \in Domains : DomainInv(d)'
  BY <1>6, KeepsOthers
<1>7. ASSUME NEW r \in Requests, GetServer(r) \/ PutServer(r) \/ CaddyFails(r)
      PROVE  /\ \A q \in Requests : RequestInv(q)'
             /\ \A d \in Domains : DomainInv(d)'
  BY <1>6, <1>7, CallFacts, CallStep
<1>8. ASSUME NEW r \in Requests,
             \/ DomainFail(r) \/ DomainActivate(r) \/ ActivateFails(r)
             \/ Abandon(r) /\ req[r].step # "insert"
      PROVE  /\ \A q \in Requests : RequestInv(q)'
             /\ \A d \in Domains : DomainInv(d)'
  <2>1. PICK e \in Domains : e = req[r].domain
    BY <1>8 DEF DomainFail, DomainActivate, ActivateFails, Abandon, RequestsWellFormed, WellFormed
  <2>2. \A d \in Domains : RoutedOn(d)' = RoutedOn(d)
    BY <1>8 DEF DomainFail, DomainActivate, ActivateFails, Abandon, caddy, RoutedOn
  <2>3. req[r].step \in Working
    BY <1>8 DEF DomainFail, DomainActivate, ActivateFails, Abandon, TypeOK, Steps, Working
  <2>4. Moves(r)
    BY <1>8 DEF DomainFail, DomainActivate, ActivateFails, Abandon, Answer, TypeOK, Moves
  <2>5. /\ clobbered' = clobbered /\ unclean \subseteq unclean' /\ mode' = mode
        /\ \A d \in Domains : d # e => row'[d] = row[d]
    BY <1>8, <2>1 DEF DomainFail, DomainActivate, ActivateFails, Abandon, TypeOK
  <2>6. Keeps(r)
    BY <2>1, <2>2, <2>3, <2>4, <2>5 DEF Keeps
  <2>7. row[e] = "pending" /\ mode[e] = req[r].mode /\ RequestInv(r) /\ DomainInv(e)
    BY <1>0, <2>1, <2>3 DEF RowInv
  <2>8. CASE DomainFail(r) \/ Abandon(r)
    <3>1. req'[r] = Idle
      BY <2>8, AnswerFacts DEF DomainFail, Abandon
    <3>2. e \in unclean'
      <4>1. CASE DomainFail(r)
        BY <2>1, <2>5, <2>7, <4>1 DEF DomainFail, RequestInv
      <4>2. CASE Abandon(r)
        BY <2>1, <2>3, <4>2 DEF Abandon, Working
      <4> QED BY <2>8, <4>1, <4>2
    <3>3. row'[e] \in {"pending", "failed"}
      BY <2>1, <2>7, <2>8 DEF DomainFail, Abandon, TypeOK
    <3>4. RequestInv(r)' /\ DomainInv(e)'
      BY <3>1, <3>2, <3>3 DEF RequestInv, DomainInv, Idle
    <3> QED BY <1>6, <2>1, <2>6, <3>4
  <2>9. CASE DomainActivate(r)
    <3>1. req'[r] = Idle /\ row'[e] = "active"
      BY <2>1, <2>9, AnswerFacts DEF DomainActivate, TypeOK
    <3>2. e \in clobbered' \/ RoutedOn(e)' = Wanted(mode'[e])
      BY <2>1, <2>2, <2>5, <2>7, <2>9 DEF DomainActivate, RequestInv
    <3>3. RequestInv(r)' /\ DomainInv(e)'
      BY <3>1, <3>2 DEF RequestInv, DomainInv, Idle
    <3> QED BY <1>6, <2>1, <2>6, <3>3
  <2>10. CASE ActivateFails(r)
    <3>1. req'[r].step = "undo" /\ req'[r].call = 1 /\ req'[r].domain = e /\ row' = row
      BY <2>1, <2>10 DEF ActivateFails, TypeOK
    <3>2. RequestInv(r)' /\ DomainInv(e)'
      BY <2>7, <3>1 DEF RequestInv, DomainInv
    <3> QED BY <1>6, <2>1, <2>6, <3>2
  <2> QED BY <1>8, <2>8, <2>9, <2>10
<1>9. CASE Next
  <2>1. CASE \E r \in Requests, d \in Domains, m \in Modes : DomainPreview(r, d, m)
    BY <1>3, <2>1
  <2>2. CASE \E r \in Requests : DomainInsert(r)
    BY <1>5, <2>2
  <2>3. CASE \E r \in Requests : DomainRefused(r)
    BY <1>4, <2>3
  <2>4. CASE \E r \in Requests : GetServer(r) \/ PutServer(r) \/ CaddyFails(r)
    BY <1>7, <2>4
  <2>5. CASE \E r \in Requests : DomainFail(r) \/ DomainActivate(r) \/ ActivateFails(r)
    BY <1>8, <2>5
  <2>6. CASE \E r \in Requests : Abandon(r)
    BY <1>4, <1>8, <2>6
  <2> QED BY <1>9, <2>1, <2>2, <2>3, <2>4, <2>5, <2>6 DEF Next
<1> QED BY <1>1, <1>9

LEMMA Invariant == Spec => []Inv
<1>1. Init => Inv
  <2> SUFFICES ASSUME Init PROVE Inv
    OBVIOUS
  <2>1. \A d \in Domains : RoutedOn(d) = {}
    BY DEF Init, RoutedOn
  <2>2. RowInv /\ RouteInv
    BY <2>1 DEF Init, RowInv, RouteInv, RequestInv, DomainInv, Idle, Working
  <2> QED BY <2>2, InitTypeInv DEF Inv
<1>2. Inv /\ [Next]_vars => Inv'
  BY StepTypeInv, StepRowInv, StepRouteInv DEF Inv
<1> QED BY <1>1, <1>2, PTL DEF Spec

\* A domain shown as active is routed on the servers of its mode and on no
\* other, unless another domain's PUT wrote a server back.
THEOREM ActiveStaysRouted == Spec => []ActiveIsRouted
<1>1. Inv => ActiveIsRouted
  BY DEF Inv, RouteInv, DomainInv, ActiveIsRouted
<1> QED BY <1>1, Invariant, PTL

\* A set-up that ends without its domain active takes its routes away, except
\* when one of its own calls failed or another domain's PUT interfered.
THEOREM NoRouteIsLeftBehind == Spec => []RoutedIsActive
<1>1. Inv => RoutedIsActive
  BY DEF Inv, RouteInv, DomainInv, RoutedIsActive
<1> QED BY <1>1, Invariant, PTL

-----------------------------------------------------------------------------
(***************************************************************************)
(* What the overlapping edits cost.  Suppose that no two requests are      *)
(* between the GET and the PUT of one server at the same time, which a     *)
(* lock around upsertServerRoute and deleteRouteFromServer would ensure.   *)
(* Then what a request has read is what it replaces, no route is           *)
(* clobbered, and both properties hold without that exception.             *)
(***************************************************************************)

EditsApart ==
  \A r, q \in Requests :
    req[r].read /\ req[q].read /\ ServerOf(r) = ServerOf(q) => r = q

CopyIsCurrent ==
  \A r \in Requests : req[r].read =>
    /\ req[r].step \in {"ensure", "undo"}
    /\ req[r].copy = routes[ServerOf(r)]

ApartInv ==
  /\ CopyIsCurrent
  /\ clobbered = {}
  /\ faults = 0 => unclean = {}

LEMMA SameCallSameServer ==
  ASSUME NEW r \in Requests, req'[r].step = req[r].step, req'[r].mode = req[r].mode,
         req'[r].call = req[r].call
  PROVE  ServerOf(r)' = ServerOf(r)
BY DEF ServerOf

\* A request that has read nothing afterwards disturbs no other one, if the
\* servers stay as they are.
LEMMA CopyIsCurrentIfNotRead ==
  ASSUME CopyIsCurrent, NEW r \in Requests, Moves(r), ~req'[r].read, UNCHANGED caddy
  PROVE  CopyIsCurrent'
BY SameCallSameServer DEF CopyIsCurrent, Moves, caddy

\* Neither does its PUT, which goes to a server that nobody else has read.
LEMMA PutIsCurrent ==
  ASSUME TypeInv, EditsApart, CopyIsCurrent, clobbered = {},
         NEW r \in Requests, Put(r), Moves(r), ~req'[r].read
  PROVE  CopyIsCurrent' /\ clobbered' = {}
<1>1. /\ req[r].read /\ req[r].copy = routes[ServerOf(r)]
      /\ \A s \in Servers : s # ServerOf(r) => routes'[s] = routes[s]
  BY PutFacts DEF Put, CopyIsCurrent
<1>2. ASSUME NEW q \in Requests, req'[q].read
      PROVE  req'[q].step \in {"ensure", "undo"} /\ req'[q].copy = routes'[ServerOf(q)']
  <2>1. q # r /\ req'[q] = req[q]
    BY <1>2 DEF Moves
  <2>2. ServerOf(q)' = ServerOf(q)
    BY <2>1, SameCallSameServer
  <2>3. ServerOf(q) # ServerOf(r) /\ ServerOf(q) \in Servers
    BY <1>1, <1>2, <2>1, ServerFacts DEF EditsApart, TypeInv
  <2> QED BY <1>1, <1>2, <2>1, <2>2, <2>3 DEF CopyIsCurrent
<1>3. \A d \in Domains \ {req[r].domain} : d \in Edited(r) <=> d \in routes[ServerOf(r)]
  BY <1>1 DEF Edited
<1> QED BY <1>2, <1>3 DEF CopyIsCurrent, Put

\* After a call nothing of the server that was read is kept.
LEMMA CallForgets ==
  ASSUME TypeInv, NEW r \in Requests, req[r].step \in {"ensure", "undo"}
  PROVE  ~After(r).read /\ ~Failed(r).read
<1>1. req[r] \in ReqRecord
  BY DEF TypeInv, TypeOK, ReqRecord
<1>2. ~After(r).read
  BY <1>1 DEF After, Done, Idle, ReqRecord
<1>3. ~[req[r] EXCEPT !.step = "fail", !.read = FALSE, !.copy = {}].read
  BY <1>1 DEF ReqRecord
<1> QED BY <1>2, <1>3 DEF Failed

LEMMA StepApartInv ==
  TypeInv /\ EditsApart /\ ApartInv /\ [Next]_vars => ApartInv'
<1> SUFFICES ASSUME TypeInv, EditsApart, ApartInv, [Next]_vars PROVE ApartInv'
  OBVIOUS
<1> USE DEF ApartInv
<1>0. TypeOK /\ faults \in Nat
  BY DomainsAssumption DEF TypeInv, TypeOK
<1>1. CASE UNCHANGED vars
  BY <1>1 DEF vars, caddy, CopyIsCurrent, ServerOf
<1>2. ASSUME NEW r \in Requests, NEW d \in Domains, NEW m \in Modes, DomainPreview(r, d, m)
      PROVE  ApartInv'
  <2>1. Moves(r) /\ ~req'[r].read
    BY <1>0, <1>2 DEF DomainPreview, Moves, Idle, TypeOK
  <2> QED BY <1>2, <2>1, CopyIsCurrentIfNotRead DEF DomainPreview
<1>3. ASSUME NEW r \in Requests, DomainInsert(r) PROVE ApartInv'
  <2>1. ~req[r].read
    BY <1>3 DEF DomainInsert, CopyIsCurrent
  <2>2. Moves(r) /\ ~req'[r].read
    BY <1>0, <1>3, <2>1 DEF DomainInsert, Moves, TypeOK
  <2> QED BY <1>3, <2>2, CopyIsCurrentIfNotRead DEF DomainInsert
<1>4. ASSUME NEW r \in Requests, DomainRefused(r) \/ DomainFail(r) \/ DomainActivate(r)
      PROVE  ApartInv'
  <2>1. Moves(r) /\ ~req'[r].read
    BY <1>0, <1>4, AnswerFacts DEF DomainRefused, DomainFail, DomainActivate, Idle
  <2>2. (faults' = 0 => faults = 0) /\ UNCHANGED <<caddy, clobbered, unclean>>
    BY <1>0, <1>4 DEF DomainRefused, DomainFail, DomainActivate, Fault
  <2> QED BY <2>1, <2>2, CopyIsCurrentIfNotRead
<1>5. ASSUME NEW r \in Requests, Abandon(r) PROVE ApartInv'
  <2>1. Moves(r) /\ ~req'[r].read
    BY <1>0, <1>5, AnswerFacts DEF Abandon, Idle
  <2>2. faults' # 0 /\ UNCHANGED <<caddy, clobbered>>
    BY <1>0, <1>5 DEF Abandon, Fault
  <2> QED BY <2>1, <2>2, CopyIsCurrentIfNotRead
<1>6. ASSUME NEW r \in Requests, ActivateFails(r) PROVE ApartInv'
  <2>1. ~req[r].read
    BY <1>6 DEF ActivateFails, CopyIsCurrent
  <2>2. Moves(r) /\ ~req'[r].read
    BY <1>0, <1>6, <2>1 DEF ActivateFails, Moves, TypeOK
  <2>3. faults' # 0 /\ UNCHANGED <<caddy, clobbered>>
    BY <1>0, <1>6 DEF ActivateFails, Fault
  <2> QED BY <2>2, <2>3, CopyIsCurrentIfNotRead
<1>7. ASSUME NEW r \in Requests, GetServer(r) PROVE ApartInv'
  <2>1. CASE ServerOf(r) \notin exists /\ ~Upserts(r)
    <3>1. Moves(r) /\ ~req'[r].read
      BY <1>0, <1>7, <2>1, CallForgets DEF GetServer, Moves, TypeOK
    <3> QED BY <1>7, <3>1, CopyIsCurrentIfNotRead DEF GetServer
  <2>2. CASE ~(ServerOf(r) \notin exists /\ ~Upserts(r))
    <3> DEFINE got == [req[r] EXCEPT !.read = TRUE, !.copy = routes[ServerOf(r)]]
    <3>1. Moves(r) /\ req'[r] = got
      BY <1>0, <1>7, <2>2 DEF GetServer, Moves, TypeOK
    <3>2. /\ got.step = req[r].step /\ got.mode = req[r].mode /\ got.call = req[r].call
          /\ got.copy = routes[ServerOf(r)]
      BY <1>0 DEF TypeOK
    <3> HIDE DEF got
    <3>3. ServerOf(r)' = ServerOf(r)
      BY <3>1, <3>2, SameCallSameServer
    <3>4. req[r].step \in {"ensure", "undo"} /\ UNCHANGED <<caddy, clobbered, unclean, faults>>
      BY <1>7 DEF GetServer
    <3>5. \A q \in Requests : q # r => req'[q] = req[q] /\ ServerOf(q)' = ServerOf(q)
      BY <3>1, SameCallSameServer DEF Moves
    <3>6. CopyIsCurrent'
      BY <3>1, <3>2, <3>3, <3>4, <3>5 DEF CopyIsCurrent, caddy
    <3> QED BY <3>4, <3>6
  <2> QED BY <2>1, <2>2
<1>8. ASSUME NEW r \in Requests, PutServer(r) PROVE ApartInv'
  <2>1. Moves(r) /\ ~req'[r].read
    BY <1>0, <1>8, CallForgets DEF PutServer, Put, Moves, TypeOK
  <2> QED BY <1>8, <2>1, PutIsCurrent DEF PutServer
<1>9. ASSUME NEW r \in Requests, CaddyFails(r) PROVE ApartInv'
  <2>1. Moves(r) /\ ~req'[r].read
    BY <1>0, <1>9, CallForgets DEF CaddyFails, Moves, TypeOK
  <2>2. CopyIsCurrent' /\ clobbered' = {}
    <3>1. CASE Put(r)
      BY <2>1, <3>1, PutIsCurrent
    <3>2. CASE UNCHANGED <<caddy, clobbered>>
      BY <2>1, <3>2, CopyIsCurrentIfNotRead
    <3> QED BY <1>9, <3>1, <3>2 DEF CaddyFails
  <2>3. faults' # 0
    BY <1>0, <1>9 DEF CaddyFails, Fault
  <2> QED BY <2>2, <2>3
<1> QED BY <1>1, <1>2, <1>3, <1>4, <1>5, <1>6, <1>7, <1>8, <1>9 DEF Next

\* If the edits of a server never overlap, a domain shown as active is routed
\* on exactly the servers of its mode; and before the first fault, a domain
\* with a route is active or is being set up.
THEOREM RoutedExactlyIfApart ==
  Spec /\ []EditsApart =>
    []/\ \A d \in Domains : row[d] = "active" => RoutedOn(d) = Wanted(mode[d])
      /\ faults = 0 => \A d \in Domains : RoutedOn(d) # {} =>
           \/ row[d] = "active"
           \/ \E r \in Requests : req[r].domain = d /\ req[r].step # "insert"
<1> DEFINE Goal ==
      /\ \A d \in Domains : row[d] = "active" => RoutedOn(d) = Wanted(mode[d])
      /\ faults = 0 => \A d \in Domains : RoutedOn(d) # {} =>
           \/ row[d] = "active"
           \/ \E r \in Requests : req[r].domain = d /\ req[r].step # "insert"
<1>1. Init => ApartInv
  BY DEF Init, ApartInv, CopyIsCurrent, Idle
<1>2. Inv => TypeInv
  BY DEF Inv
<1>3. Inv /\ ApartInv => Goal
  BY DEF Inv, ApartInv, RouteInv, DomainInv
<1> HIDE DEF Goal
<1>4. Spec /\ []EditsApart => []Goal
  BY <1>1, <1>2, <1>3, Invariant, StepApartInv, PTL DEF Spec
<1> QED BY <1>4 DEF Goal
=============================================================================
