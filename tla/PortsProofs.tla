---------------------------- MODULE PortsProofs ----------------------------
(***************************************************************************)
(* Theorems about module Ports, for every set of services, ports, kinds    *)
(* and requests and for any number of faults.                              *)
(***************************************************************************)
EXTENDS Ports, FiniteSetTheorems, FunctionTheorems, TLAPS

\* At these steps a request is buying its service.
Buying == {"bundle", "forward", "insert"}
Reconfiguring == {"rotate", "replace", "record"}

RequestsWellFormed ==
  \A r \in Requests :
    /\ req[r].step # "idle" => req[r].service \in Services
    /\ req[r].step \in {"idle"} \union Buying => req[r].current = {}

TypeInv == TypeOK /\ RequestsWellFormed

-----------------------------------------------------------------------------
(***************************************************************************)
(* Operators.                                                              *)
(***************************************************************************)

KindMaps == UNION {[D -> Kinds] : D \in SUBSET Ports}
ReqRecord == [step : Steps, service : Services \union {NoService},
              current : SUBSET Ports, next : KindMaps]

LEMMA KindMapFacts ==
  /\ \A D \in SUBSET Ports : \A n \in [D -> Kinds] : n \in KindMaps
  /\ \A n \in KindMaps : DOMAIN n \in SUBSET Ports /\ n \in [DOMAIN n -> Kinds]
BY DEF KindMaps

LEMMA IdleType == Idle \in ReqRecord
<1>1. None \in [{} -> Kinds]
  BY DEF None
<1>2. None \in KindMaps
  BY <1>1, KindMapFacts
<1> QED BY <1>2 DEF Idle, ReqRecord, Steps

LEMMA OverFacts ==
  ASSUME NEW f, NEW g
  PROVE  /\ \A p \in Ports : Over(f, g)[p] = IF p \in DOMAIN g THEN g[p] ELSE f[p]
         /\ Over(f, g) = [p \in Ports |-> Over(f, g)[p]]
BY DEF Over

LEMMA MovedFacts ==
  ASSUME TypeInv, NEW r \in Requests, req[r].step # "idle"
  PROVE  /\ DOMAIN Moved(r) = New(r) /\ New(r) \subseteq Ports
         /\ \A p \in New(r) : /\ Moved(r)[p] = Target(req[r].service, req[r].next[p])
                              /\ Moved(r)[p] \in Targets
                              /\ Moved(r)[p].service = req[r].service
                              /\ Moved(r)[p] # NoTarget
<1>1. req[r].next \in KindMaps /\ req[r].service \in Services
  BY DEF TypeInv, TypeOK, RequestsWellFormed, KindMaps
<1>2. New(r) \subseteq Ports /\ \A p \in New(r) : req[r].next[p] \in Kinds
  BY <1>1, KindMapFacts DEF New
<1> QED
  BY <1>1, <1>2, PortsAssumption DEF Moved, New, Target, Targets, NoTarget

LEMMA ReqTypedCurrent ==
  ASSUME TypeInv, NEW r \in Requests
  PROVE  req[r].current \in SUBSET Ports
BY DEF TypeInv, TypeOK

\* Sets of as many elements of each kind have as many elements.
LEMMA SameCount ==
  ASSUME NEW A, NEW B, IsFiniteSet(A), IsFiniteSet(B),
         NEW f \in [A -> Kinds], NEW g \in [B -> Kinds],
         \A k \in Kinds :
           Cardinality({a \in A : f[a] = k}) = Cardinality({b \in B : g[b] = k})
  PROVE  Cardinality(A) = Cardinality(B)
<1> DEFINE As(k) == {a \in A : f[a] = k}
           Bs(k) == {b \in B : g[b] = k}
           h(k) == CHOOSE i : i \in Bijection(As(k), Bs(k))
           H == [a \in A |-> h(f[a])[a]]
<1>1. ASSUME NEW k \in Kinds
      PROVE  h(k) \in Bijection(As(k), Bs(k))
  <2>1. IsFiniteSet(As(k)) /\ IsFiniteSet(Bs(k))
    BY FS_Subset
  <2>2. ExistsBijection(As(k), Bs(k))
    BY <2>1, FS_SameCardinalityBij
  <2> QED BY <2>2 DEF ExistsBijection
<1> HIDE DEF h
<1>5. ASSUME NEW k \in Kinds
      PROVE  /\ \A a \in As(k) : h(k)[a] \in Bs(k)
             /\ \A a, c \in As(k) : h(k)[a] = h(k)[c] => a = c
             /\ \A b \in Bs(k) : \E a \in As(k) : h(k)[a] = b
  <2> DEFINE S == As(k)
             T == Bs(k)
             F == h(k)
  <2>1. F \in Bijection(S, T)
    BY <1>1
  <2> HIDE DEF S, T, F
  <2>2. /\ F \in [S -> T]
        /\ \A a, c \in S : F[a] = F[c] => a = c
        /\ \A b \in T : \E a \in S : F[a] = b
    BY <2>1 DEF Bijection, Injection, Surjection, IsInjective
  <2>3. \A a \in S : F[a] \in T
    BY <2>2
  <2> QED BY <2>2, <2>3 DEF S, T, F
<1>2. \A a \in A : /\ H[a] \in B /\ g[H[a]] = f[a]
                   /\ \A c \in A : H[a] = H[c] => a = c
  <2> SUFFICES ASSUME NEW a \in A
               PROVE  /\ H[a] \in Bs(f[a])
                      /\ \A c \in A : H[a] = H[c] => a = c
    OBVIOUS
  <2>1. \A c \in A : H[c] = h(f[c])[c] /\ c \in As(f[c]) /\ f[c] \in Kinds
    OBVIOUS
  <2>2. \A c \in A : H[c] \in Bs(f[c])
    BY <2>1, <1>5
  <2>3. ASSUME NEW c \in A, H[a] = H[c] PROVE a = c
    <3>1. f[a] = f[c]
      BY <2>2, <2>3
    <3>2. a \in As(f[a]) /\ c \in As(f[a]) /\ h(f[a])[a] = h(f[a])[c]
      BY <2>1, <2>3, <3>1
    <3> QED BY <1>5, <2>1, <3>2
  <2> QED BY <2>2, <2>3
<1>3. \A b \in B : \E a \in A : H[a] = b
  <2> SUFFICES ASSUME NEW b \in B PROVE \E a \in A : H[a] = b
    OBVIOUS
  <2>1. b \in Bs(g[b]) /\ g[b] \in Kinds
    OBVIOUS
  <2>2. PICK a \in As(g[b]) : h(g[b])[a] = b
    BY <1>5, <2>1
  <2> QED BY <2>2
<1> HIDE DEF H
<1>4. H \in Bijection(A, B)
  BY <1>2, <1>3, Fun_IsBij DEF H
<1> QED BY <1>4, FS_Bijection DEF ExistsBijection

\* What one more port changes of the counts.
LEMMA GivenFacts ==
  ASSUME NEW n \in KindMaps, NEW m \in KindMaps, NEW p \in Ports \ DOMAIN n,
         NEW k \in Kinds, DOMAIN m = DOMAIN n \union {p}, m[p] = k,
         \A q \in DOMAIN n : m[q] = n[q]
  PROVE  /\ Given(m, k) = Given(n, k) + 1
         /\ \A j \in Kinds : j # k => Given(m, j) = Given(n, j)
<1> DEFINE S(j) == {q \in DOMAIN n : n[q] = j}
<1>1. IsFiniteSet(S(k)) /\ p \notin S(k)
  BY FS_Subset, KindMapFacts, PortsAssumption
<1>2. {q \in DOMAIN m : m[q] = k} = S(k) \union {p}
  OBVIOUS
<1>3. \A j \in Kinds : j # k => {q \in DOMAIN m : m[q] = j} = S(j)
  OBVIOUS
<1> QED BY <1>1, <1>2, <1>3, FS_AddElement DEF Given

LEMMA CountType ==
  /\ \A n \in KindMaps, k \in Kinds : Given(n, k) \in Nat
  /\ \A ports \in SUBSET Ports, k \in Kinds : KindsOf(ports)[k] \in Nat
<1>1. \A S \in SUBSET Ports : Cardinality(S) \in Nat
  BY FS_Subset, FS_CardinalityType, PortsAssumption
<1>2. \A n \in KindMaps, k \in Kinds : {p \in DOMAIN n : n[p] = k} \in SUBSET Ports
  BY KindMapFacts
<1> QED BY <1>1, <1>2 DEF Given, KindsOf

-----------------------------------------------------------------------------
(***************************************************************************)
(* How a request moves.                                                    *)
(***************************************************************************)

Moves(r) == \A q \in Requests : q # r => req'[q] = req[q]

ReqType == [Requests -> ReqRecord]

LEMMA ReqTyped == TypeOK => req \in ReqType
BY DEF TypeOK, ReqType, ReqRecord, KindMaps

LEMMA AnswerFacts ==
  ASSUME TypeInv, NEW r \in Requests, Answer(r)
  PROVE  /\ req' \in ReqType /\ RequestsWellFormed' /\ Moves(r)
         /\ req'[r].step = "idle" /\ req'[r].current = {} /\ req'[r].service = NoService
<1>1. req' \in ReqType /\ Moves(r) /\ req'[r] = Idle
  BY IdleType, ReqTyped DEF Answer, TypeInv, ReqType, Moves
<1> QED BY <1>1 DEF Moves, TypeInv, RequestsWellFormed, Buying, Idle

\* A request goes on to step, with its service and the rows it has loaded.
GoesTo(r, step) ==
  /\ Moves(r)
  /\ req'[r].step = step /\ req'[r].service = req[r].service
  /\ req'[r].current = req[r].current

LEMMA StepFacts ==
  ASSUME TypeInv, NEW r \in Requests, NEW step \in Steps, step # "idle", req[r].step # "idle",
         req' = [req EXCEPT ![r].step = step], step \in Buying => req[r].step \in Buying
  PROVE  /\ req' \in ReqType /\ RequestsWellFormed' /\ GoesTo(r, step)
         /\ req'[r].next = req[r].next
<1>1. /\ req' \in ReqType /\ GoesTo(r, step)
      /\ req'[r].next = req[r].next
  BY ReqTyped DEF TypeInv, ReqType, ReqRecord, Moves, GoesTo
<1> QED BY <1>1 DEF Moves, TypeInv, RequestsWellFormed, GoesTo

LEMMA TakeFacts ==
  ASSUME TypeInv, NEW r \in Requests, NEW p \in Ports \ New(r), NEW k \in Kinds, NEW wanted,
         NEW step \in {"replace", "forward"}, req[r].step \in {"rotate", "bundle"},
         step = "forward" => req[r].step = "bundle",
         TakePort(r, p, k, wanted, step)
  PROVE  /\ req' \in ReqType /\ RequestsWellFormed'
         /\ \/ GoesTo(r, step) /\ Missing(req'[r].next, wanted) = {}
            \/ GoesTo(r, req[r].step)
         /\ req[r].next \in KindMaps /\ req'[r].next \in KindMaps
         /\ DOMAIN req'[r].next = New(r) \union {p} /\ req'[r].next[p] = k
         /\ \A q \in New(r) : req'[r].next[q] = req[r].next[q]
<1> DEFINE n == [q \in New(r) \union {p} |-> IF q = p THEN k ELSE req[r].next[q]]
           to == IF Missing(n, wanted) = {} THEN step ELSE req[r].step
<1>1. req[r].next \in KindMaps /\ New(r) \in SUBSET Ports
  BY KindMapFacts, ReqTyped DEF TypeInv, ReqType, ReqRecord, New
<1>2. n \in KindMaps
  <2>1. n \in [New(r) \union {p} -> Kinds]
    BY <1>1, KindMapFacts DEF New
  <2> QED BY <1>1, <2>1, KindMapFacts
<1>3. to \in Steps /\ to # "idle" /\ (to \in Buying => req[r].step \in Buying)
  BY DEF Steps, Buying
<1>4. req' = [req EXCEPT ![r].next = n, ![r].step = to]
  BY ReqTyped DEF TakePort, TypeInv, ReqType
<1> HIDE DEF n, to
<1>5. /\ req' \in ReqType /\ Moves(r)
      /\ req'[r].step = to /\ req'[r].service = req[r].service
      /\ req'[r].current = req[r].current /\ req'[r].next = n
  BY <1>2, <1>3, <1>4, ReqTyped DEF TypeInv, ReqType, ReqRecord, Moves
<1>6. RequestsWellFormed'
  BY <1>3, <1>5 DEF Moves, TypeInv, RequestsWellFormed, Buying
<1> QED BY <1>1, <1>2, <1>5, <1>6 DEF GoesTo, n, to

\* How many mappings of each kind a request wants ports for.
Wants(r) == IF req[r].step \in Buying THEN OneOfEach ELSE KindsOf(req[r].current)

\* It takes one port at a time, for a mapping that still lacks one.
LEMMA AllocateFacts ==
  ASSUME TypeInv, NEW r \in Requests, ReconfigRotate(r) \/ PurchaseAllocate(r)
  PROVE  /\ req[r].step \in {"rotate", "bundle"}
         /\ UNCHANGED <<dbVars, rule, failed, faults>>
         /\ \E p \in Ports \ New(r), k \in Kinds :
              /\ Given(req[r].next, k) < Wants(r)[k]
              /\ TakePort(r, p, k, Wants(r),
                          IF req[r].step = "rotate" THEN "replace" ELSE "forward")
<1>1. CASE ReconfigRotate(r)
  <2>1. req[r].step = "rotate" /\ Wants(r) = KindsOf(req[r].current)
    BY <1>1 DEF ReconfigRotate, Wants, Buying
  <2>2. PICK k \in Turn(req[r].next, Wants(r)) :
          \E p \in NextFree(New(r)) \union Requested(r, k) :
            TakePort(r, p, k, Wants(r), "replace")
    BY <1>1, <2>1 DEF ReconfigRotate
  <2>3. \A p \in NextFree(New(r)) \union Requested(r, k) : p \in Ports \ New(r)
    BY PortsAssumption DEF NextFree, Requested
  <2>4. k \in Kinds /\ Given(req[r].next, k) < Wants(r)[k]
    BY DEF Turn, Missing
  <2> QED BY <1>1, <2>1, <2>2, <2>3, <2>4 DEF ReconfigRotate
<1>2. CASE PurchaseAllocate(r)
  <2>1. req[r].step = "bundle" /\ Wants(r) = OneOfEach
    BY <1>2 DEF PurchaseAllocate, Wants, Buying
  <2>2. PICK k \in Turn(req[r].next, Wants(r)), p \in NextFree(New(r)) :
            TakePort(r, p, k, Wants(r), "forward")
    BY <1>2, <2>1 DEF PurchaseAllocate
  <2>3. p \in Ports \ New(r)
    BY PortsAssumption DEF NextFree
  <2>4. k \in Kinds /\ Given(req[r].next, k) < Wants(r)[k]
    BY DEF Turn, Missing
  <2> QED BY <1>2, <2>1, <2>2, <2>3, <2>4 DEF PurchaseAllocate
<1> QED BY <1>1, <1>2

LEMMA TakenFacts ==
  ASSUME TypeInv, NEW r \in Requests, ReconfigRotate(r) \/ PurchaseAllocate(r)
  PROVE  /\ req' \in ReqType /\ RequestsWellFormed'
         /\ \/ GoesTo(r, req[r].step)
            \/ GoesTo(r, IF req[r].step = "rotate" THEN "replace" ELSE "forward")
<1>1. PICK p \in Ports \ New(r), k \in Kinds :
        TakePort(r, p, k, Wants(r), IF req[r].step = "rotate" THEN "replace" ELSE "forward")
  BY AllocateFacts
<1> QED BY <1>1, AllocateFacts, TakeFacts

LEMMA LoadFacts ==
  ASSUME TypeInv, NEW r \in Requests, NEW s \in Services, ReconfigLoad(r, s)
  PROVE  /\ req' \in ReqType /\ RequestsWellFormed' /\ Moves(r)
         /\ req'[r].step = "rotate" /\ req'[r].service = s
         /\ req'[r].current = {p \in active : row[p].service = s} /\ req'[r].next = None
<1> DEFINE c == {p \in active : row[p].service = s}
<1>1. c \in SUBSET Ports /\ None \in KindMaps
  BY KindMapFacts DEF TypeInv, TypeOK, None
<1>2. [step |-> "rotate", service |-> s, current |-> c, next |-> None] \in ReqRecord
  BY <1>1 DEF ReqRecord, Steps
<1>3. /\ req' \in ReqType /\ Moves(r)
      /\ req'[r].step = "rotate" /\ req'[r].service = s /\ req'[r].current = c
      /\ req'[r].next = None
  BY <1>2, ReqTyped DEF ReconfigLoad, TypeInv, ReqType, Moves
<1> QED BY <1>3 DEF Moves, TypeInv, RequestsWellFormed, Buying

LEMMA BeginFacts ==
  ASSUME TypeInv, NEW r \in Requests, NEW s \in Services, PurchaseBegin(r, s)
  PROVE  /\ req' \in ReqType /\ RequestsWellFormed' /\ Moves(r)
         /\ req'[r].step = "bundle" /\ req'[r].service = s /\ req'[r].current = {}
         /\ req'[r].next = None
<1>1. [step |-> "bundle", service |-> s, current |-> {}, next |-> None] \in ReqRecord
  BY KindMapFacts DEF ReqRecord, Steps, None
<1>2. /\ req' \in ReqType /\ Moves(r)
      /\ req'[r].step = "bundle" /\ req'[r].service = s /\ req'[r].current = {}
      /\ req'[r].next = None
  BY <1>1, ReqTyped DEF PurchaseBegin, TypeInv, ReqType, Moves
<1> QED BY <1>2 DEF Moves, TypeInv, RequestsWellFormed, Buying

-----------------------------------------------------------------------------
(***************************************************************************)
(* Type correctness.                                                       *)
(***************************************************************************)

LEMMA InitTypeInv == Init => TypeInv
<1> SUFFICES ASSUME Init PROVE TypeInv
  OBVIOUS
<1>1. req \in ReqType
  BY IdleType DEF Init, ReqType
<1>2. RequestsWellFormed
  BY DEF Init, RequestsWellFormed, Idle, Buying
<1>3. TypeOK
  BY <1>1, PortsAssumption DEF Init, TypeOK, ReqType, ReqRecord, KindMaps
<1> QED BY <1>2, <1>3 DEF TypeInv

\* The rows or rules with the request's new ones over them.
LEMMA OverType ==
  ASSUME TypeInv, NEW r \in Requests, req[r].step # "idle",
         NEW f \in [Ports -> Targets \union {NoTarget}]
  PROVE  Over(f, Moved(r)) \in [Ports -> Targets \union {NoTarget}]
BY MovedFacts, OverFacts DEF Over

LEMMA FaultType == TypeOK /\ Fault => faults' \in 0..MaxFaults
BY PortsAssumption DEF TypeOK, Fault

\* The step of a request that is reconfiguring its service.
LEMMA ReconfigTypeInv ==
  ASSUME TypeInv, NEW r \in Requests,
         \/ \E s \in Services : ReconfigLoad(r, s)
         \/ ReconfigRotate(r) \/ ReconfigRefused(r)
         \/ ReconfigReplace(r) \/ ReplaceUnnoticed(r)
         \/ ReconfigRecord(r) \/ ReconfigRollback(r)
  PROVE  TypeInv'
<1> USE DEF TypeInv
<1>1. CASE \E s \in Services : ReconfigLoad(r, s)
  <2>1. req' \in ReqType /\ RequestsWellFormed'
    BY <1>1, LoadFacts
  <2> QED BY <1>1, <2>1 DEF ReconfigLoad, TypeOK, dbVars, ReqType, ReqRecord, KindMaps
<1>2. CASE ReconfigRotate(r)
  BY <1>2, TakenFacts DEF ReconfigRotate, TypeOK, dbVars, ReqType, ReqRecord, KindMaps
<1>3. CASE ReconfigRefused(r)
  <2>1. req' \in ReqType /\ RequestsWellFormed'
    BY <1>3, AnswerFacts DEF ReconfigRefused
  <2> QED BY <1>3, <2>1 DEF ReconfigRefused, TypeOK, dbVars, ReqType, ReqRecord, KindMaps
<1>4. ASSUME RulesReplaced(r), req[r].step # "idle"
      PROVE  rule' \in [Ports -> Targets \union {NoTarget}]
  <2> DEFINE f == [p \in Ports |-> IF p \in req[r].current THEN NoTarget ELSE rule[p]]
  <2>1. f \in [Ports -> Targets \union {NoTarget}]
    BY DEF TypeOK
  <2>2. rule' = Over(f, Moved(r))
    BY <1>4 DEF RulesReplaced
  <2> HIDE DEF f
  <2> QED BY <1>4, <2>1, <2>2, OverType
<1>7. CASE ReconfigReplace(r)
  <2>1. req' \in ReqType /\ RequestsWellFormed'
    BY <1>7, StepFacts DEF ReconfigReplace, Steps, Buying
  <2> QED BY <1>4, <1>7, <2>1 DEF ReconfigReplace, TypeOK, dbVars, ReqType, ReqRecord, KindMaps
<1>8. CASE ReplaceUnnoticed(r)
  <2>1. req' \in ReqType /\ RequestsWellFormed'
    BY <1>8, AnswerFacts DEF ReplaceUnnoticed
  <2>2. faults' \in 0..MaxFaults /\ req[r].service \in Services
    BY <1>8, FaultType DEF ReplaceUnnoticed, TypeOK, RequestsWellFormed
  <2> QED BY <1>4, <1>8, <2>1, <2>2
          DEF ReplaceUnnoticed, TypeOK, dbVars, ReqType, ReqRecord, KindMaps
<1>5. CASE ReconfigRecord(r)
  <2>1. req' \in ReqType /\ RequestsWellFormed'
    BY <1>5, AnswerFacts DEF ReconfigRecord
  <2>2. /\ row' \in [Ports -> Targets \union {NoTarget}]
        /\ New(r) \subseteq Ports /\ req[r].service \in Services
    BY <1>5, OverType, MovedFacts DEF ReconfigRecord, TypeOK, RequestsWellFormed
  <2>3. active' \in SUBSET Ports /\ sshPort' \in [Services -> Ports \union {0}]
    BY <1>5, <2>2 DEF ReconfigRecord, TypeOK
  <2> QED BY <1>5, <2>1, <2>2, <2>3
          DEF ReconfigRecord, TypeOK, ReqType, ReqRecord, KindMaps
<1>6. CASE ReconfigRollback(r)
  <2>1. req' \in ReqType /\ RequestsWellFormed'
    BY <1>6, AnswerFacts DEF ReconfigRollback
  <2>2. faults' \in 0..MaxFaults /\ req[r].service \in Services
    BY <1>6, FaultType DEF ReconfigRollback, TypeOK, RequestsWellFormed
  <2> QED BY <1>6, <2>1, <2>2
          DEF ReconfigRollback, TypeOK, dbVars, ReqType, ReqRecord, KindMaps
<1> QED BY <1>1, <1>2, <1>3, <1>5, <1>6, <1>7, <1>8

\* The step of a request that is buying its service, and a crash.
LEMMA PurchaseTypeInv ==
  ASSUME TypeInv, NEW r \in Requests,
         \/ \E s \in Services : PurchaseBegin(r, s)
         \/ PurchaseAllocate(r) \/ PurchaseRefused(r)
         \/ PurchaseForward(r) \/ ForwardUnnoticed(r)
         \/ PurchaseInsert(r) \/ PurchaseLost(r)
         \/ Abandon(r)
  PROVE  TypeInv'
<1> USE DEF TypeInv
<1>1. CASE \E s \in Services : PurchaseBegin(r, s)
  <2>1. req' \in ReqType /\ RequestsWellFormed'
    BY <1>1, BeginFacts
  <2> QED BY <1>1, <2>1 DEF PurchaseBegin, TypeOK, dbVars, ReqType, ReqRecord, KindMaps
<1>2. CASE PurchaseAllocate(r)
  BY <1>2, TakenFacts DEF PurchaseAllocate, TypeOK, dbVars, ReqType, ReqRecord, KindMaps
<1>3. CASE PurchaseForward(r)
  <2>1. req' \in ReqType /\ RequestsWellFormed'
    BY <1>3, StepFacts DEF PurchaseForward, Steps, Buying
  <2>2. rule' \in [Ports -> Targets \union {NoTarget}]
    BY <1>3, OverType DEF PurchaseForward, TypeOK
  <2> QED BY <1>3, <2>1, <2>2 DEF PurchaseForward, TypeOK, dbVars, ReqType, ReqRecord, KindMaps
<1>8. CASE ForwardUnnoticed(r)
  <2>1. req' \in ReqType /\ RequestsWellFormed'
    BY <1>8, AnswerFacts DEF ForwardUnnoticed
  <2>2. rule' \in [Ports -> Targets \union {NoTarget}] /\ faults' \in 0..MaxFaults
    BY <1>8, OverType, FaultType DEF ForwardUnnoticed, TypeOK
  <2> QED BY <1>8, <2>1, <2>2 DEF ForwardUnnoticed, TypeOK, dbVars, ReqType, ReqRecord, KindMaps
<1>4. CASE PurchaseRefused(r)
  <2>1. req' \in ReqType /\ RequestsWellFormed'
    BY <1>4, AnswerFacts DEF PurchaseRefused
  <2> QED BY <1>4, <2>1 DEF PurchaseRefused, TypeOK, dbVars, ReqType, ReqRecord, KindMaps
<1>5. CASE PurchaseInsert(r)
  <2>1. req' \in ReqType /\ RequestsWellFormed'
    BY <1>5, AnswerFacts DEF PurchaseInsert
  <2>2. /\ row' \in [Ports -> Targets \union {NoTarget}]
        /\ New(r) \subseteq Ports /\ req[r].service \in Services
    BY <1>5, OverType, MovedFacts DEF PurchaseInsert, TypeOK, RequestsWellFormed
  <2>3. /\ active' \in SUBSET Ports /\ sshPort' \in [Services -> Ports \union {0}]
        /\ bought' \in [Services -> {"no", "yes", "lost"}]
    BY <1>5, <2>2 DEF PurchaseInsert, TypeOK
  <2> QED BY <1>5, <2>1, <2>2, <2>3
          DEF PurchaseInsert, TypeOK, ReqType, ReqRecord, KindMaps
<1>6. CASE PurchaseLost(r)
  <2>1. req' \in ReqType /\ RequestsWellFormed'
    BY <1>6, AnswerFacts DEF PurchaseLost
  <2>2. faults' \in 0..MaxFaults /\ bought' \in [Services -> {"no", "yes", "lost"}]
    BY <1>6, FaultType DEF PurchaseLost, TypeOK
  <2> QED BY <1>6, <2>1, <2>2 DEF PurchaseLost, TypeOK, ReqType, ReqRecord, KindMaps
<1>7. CASE Abandon(r)
  <2>1. req' \in ReqType /\ RequestsWellFormed'
    BY <1>7, AnswerFacts DEF Abandon
  <2>2. req[r].service \in Services
    BY <1>7 DEF Abandon, RequestsWellFormed
  <2>3. /\ faults' \in 0..MaxFaults /\ bought' \in [Services -> {"no", "yes", "lost"}]
        /\ failed' \in SUBSET Services
    BY <1>7, <2>2, FaultType DEF Abandon, TypeOK
  <2> QED BY <1>7, <2>1, <2>3 DEF Abandon, TypeOK, ReqType, ReqRecord, KindMaps
<1> QED BY <1>1, <1>2, <1>3, <1>4, <1>5, <1>6, <1>7, <1>8

LEMMA StepTypeInv == TypeInv /\ [Next]_vars => TypeInv'
<1> SUFFICES ASSUME TypeInv, [Next]_vars PROVE TypeInv'
  OBVIOUS
<1>1. CASE UNCHANGED vars
  BY <1>1 DEF vars, TypeInv, TypeOK, RequestsWellFormed
<1>2. CASE Next
  BY <1>2, ReconfigTypeInv, PurchaseTypeInv DEF Next
<1> QED BY <1>1, <1>2

\* Every row, rule and request has the values the code can give it.
THEOREM TypeCorrect == Spec => []TypeOK
<1>1. Spec => []TypeInv
  BY InitTypeInv, StepTypeInv, PTL DEF Spec
<1>2. TypeInv => TypeOK
  BY DEF TypeInv
<1> QED BY <1>1, <1>2, PTL

-----------------------------------------------------------------------------
(***************************************************************************)
(* Who owns a port.  No row of a port ever changes its owner, so the rows  *)
(* a request has loaded stay its service's, active or not.                 *)
(***************************************************************************)

LoadedAreOwn ==
  \A r \in Requests : \A p \in req[r].current : row[p].service = req[r].service

ActiveHasOwner == \A p \in active : row[p] \in Targets

OwnerInv == TypeInv /\ LoadedAreOwn /\ ActiveHasOwner

LEMMA NoTargetHasNoService ==
  NoTarget.service = NoService /\ \A t \in Targets : t.service \in Services /\ t # NoTarget
BY PortsAssumption DEF NoTarget, Targets

\* What recording the rows of a request, once Insertable, makes of the rows.
LEMMA RecordFacts ==
  ASSUME TypeInv, NEW r \in Requests, req[r].step # "idle", Insertable(r),
         row' = Over(row, Moved(r))
  PROVE  /\ \A p \in New(r) : p \in Ports /\ row[p] = NoTarget /\ row'[p] = Moved(r)[p]
         /\ \A p \in Ports \ New(r) : row'[p] = row[p]
BY MovedFacts, OverFacts DEF Insertable

\* A step changes a row only where there is none.
LEMMA RowsStay ==
  ASSUME TypeInv, [Next]_vars
  PROVE  \A p \in Ports : row'[p] = row[p] \/ (row[p] = NoTarget /\ row'[p] \in Targets)
<1>1. CASE \E r \in Requests : ReconfigRecord(r) \/ PurchaseInsert(r)
  <2>1. PICK r \in Requests : ReconfigRecord(r) \/ PurchaseInsert(r)
    BY <1>1
  <2>2. req[r].step # "idle" /\ Insertable(r) /\ row' = Over(row, Moved(r))
    BY <2>1 DEF ReconfigRecord, PurchaseInsert
  <2> QED BY <2>2, RecordFacts, MovedFacts
<1>2. CASE ~\E r \in Requests : ReconfigRecord(r) \/ PurchaseInsert(r)
  <2>1. row' = row
    BY <1>2 DEF Next, vars, dbVars, ReconfigLoad, ReconfigRotate, ReconfigRefused,
       ReconfigReplace, ReplaceUnnoticed, ReconfigRollback, PurchaseBegin,
       PurchaseAllocate, PurchaseForward, ForwardUnnoticed, PurchaseRefused,
       PurchaseLost, Abandon
  <2> QED BY <2>1
<1> QED BY <1>1, <1>2

\* A request has the service and the rows it had, or has just begun or ended.
LEMMA LoadedStay ==
  ASSUME TypeInv, [Next]_vars, NEW r \in Requests
  PROVE  \/ req'[r].service = req[r].service /\ req'[r].current = req[r].current
         \/ req'[r].current = {}
         \/ \E s \in Services : ReconfigLoad(r, s)
<1>1. CASE UNCHANGED vars
  BY <1>1 DEF vars
<1>2. CASE \E q \in Requests, s \in Services : ReconfigLoad(q, s) \/ PurchaseBegin(q, s)
  BY <1>2, LoadFacts, BeginFacts DEF Moves
<1>3. ASSUME NEW q \in Requests, ReconfigReplace(q) \/ PurchaseForward(q)
      PROVE  req'[r].service = req[r].service /\ req'[r].current = req[r].current
  BY <1>3, ReqTyped DEF TypeInv, ReqType, ReqRecord, ReconfigReplace, PurchaseForward
<1>4. ASSUME NEW q \in Requests, ReconfigRotate(q) \/ PurchaseAllocate(q)
      PROVE  req'[r].service = req[r].service /\ req'[r].current = req[r].current
  BY <1>4, TakenFacts DEF GoesTo, Moves
<1>5. ASSUME NEW q \in Requests,
             \/ ReconfigRefused(q) \/ ReplaceUnnoticed(q) \/ ReconfigRecord(q)
             \/ ReconfigRollback(q) \/ PurchaseRefused(q) \/ ForwardUnnoticed(q)
             \/ PurchaseInsert(q) \/ PurchaseLost(q) \/ Abandon(q)
      PROVE  \/ req'[r].service = req[r].service /\ req'[r].current = req[r].current
             \/ req'[r].current = {}
  <2>1. Answer(q)
    BY <1>5 DEF ReconfigRefused, ReplaceUnnoticed, ReconfigRecord, ReconfigRollback,
       PurchaseRefused, ForwardUnnoticed, PurchaseInsert, PurchaseLost, Abandon
  <2> QED BY <2>1, AnswerFacts DEF Moves
<1> QED BY <1>1, <1>2, <1>3, <1>4, <1>5 DEF Next

LEMMA OwnerInvariant == Spec => []OwnerInv
<1>1. Init => OwnerInv
  BY InitTypeInv DEF Init, OwnerInv, LoadedAreOwn, ActiveHasOwner, Idle
<1>2. OwnerInv /\ [Next]_vars => OwnerInv'
  <2> SUFFICES ASSUME OwnerInv, [Next]_vars PROVE OwnerInv'
    OBVIOUS
  <2> USE DEF OwnerInv
  <2>1. TypeInv'
    BY StepTypeInv
  <2>2. LoadedAreOwn'
    <3> SUFFICES ASSUME NEW r \in Requests, NEW p \in req'[r].current
                 PROVE  row'[p].service = req'[r].service
      BY DEF LoadedAreOwn
    <3>1. CASE req'[r].service = req[r].service /\ req'[r].current = req[r].current
      <4>1. p \in req[r].current /\ req[r].current \subseteq Ports
        BY <3>1, ReqTyped DEF TypeInv, ReqType, ReqRecord
      <4>2. row[p].service = req[r].service /\ req[r].service \in Services
        BY <4>1 DEF LoadedAreOwn, TypeInv, RequestsWellFormed
      <4>3. row[p] # NoTarget
        BY <4>2, NoTargetHasNoService, PortsAssumption
      <4> QED BY <3>1, <4>1, <4>2, <4>3, RowsStay
    <3>2. CASE \E s \in Services : ReconfigLoad(r, s)
      BY <3>2, LoadFacts DEF ReconfigLoad, dbVars
    <3> QED BY <3>1, <3>2, LoadedStay
  <2>3. ActiveHasOwner'
    <3>1. CASE \E r \in Requests : ReconfigRecord(r) \/ PurchaseInsert(r)
      <4>1. PICK r \in Requests : ReconfigRecord(r) \/ PurchaseInsert(r)
        BY <3>1
      <4>2. /\ req[r].step # "idle" /\ Insertable(r) /\ row' = Over(row, Moved(r))
            /\ active' \subseteq active \union New(r)
        BY <4>1 DEF ReconfigRecord, PurchaseInsert
      <4> QED BY <4>2, RecordFacts, MovedFacts, NoTargetHasNoService
              DEF ActiveHasOwner, TypeInv, TypeOK
    <3>2. CASE ~\E r \in Requests : ReconfigRecord(r) \/ PurchaseInsert(r)
      <4>1. row' = row /\ active' = active
        BY <3>2 DEF Next, vars, dbVars, ReconfigLoad, ReconfigRotate, ReconfigRefused,
           ReconfigReplace, ReplaceUnnoticed, ReconfigRollback, PurchaseBegin,
           PurchaseAllocate, PurchaseForward, ForwardUnnoticed, PurchaseRefused,
           PurchaseLost, Abandon
      <4> QED BY <4>1 DEF ActiveHasOwner
    <3> QED BY <3>1, <3>2
  <2> QED BY <2>1, <2>2, <2>3
<1> QED BY <1>1, <1>2, PTL DEF Spec

-----------------------------------------------------------------------------
(***************************************************************************)
(* The rules of the forward.  Each step is of one of six sorts.            *)
(***************************************************************************)

\* A request adds its rules, in place of those of the rows it has loaded.
Forwards(r) ==
  /\ req[r].step \in {"replace", "forward"}
  /\ \A p \in New(r) \ req[r].current : rule[p] = NoTarget
  /\ rule' = Over([p \in Ports |-> IF p \in req[r].current THEN NoTarget ELSE rule[p]],
                  Moved(r))
  /\ GoesTo(r, IF req[r].step = "replace" THEN "record" ELSE "insert")
  /\ req'[r].next = req[r].next
  /\ UNCHANGED <<dbVars, failed>>

\* A request records its rows, and its service's SSH port.
Records(r) ==
  /\ req[r].step \in {"record", "insert"}
  /\ Insertable(r)
  /\ row' = Over(row, Moved(r))
  /\ active' = (active \ req[r].current) \union New(r)
  /\ \E p \in New(r) : /\ req[r].next[p] = Ssh
                       /\ sshPort' = [sshPort EXCEPT ![req[r].service] = p]
  /\ bought' = IF req[r].step = "insert" THEN [bought EXCEPT ![req[r].service] = "yes"] ELSE bought
  /\ Moves(r) /\ req'[r].step = "idle" /\ req'[r].service = NoService
  /\ UNCHANGED <<rule, failed>>

\* A request stops, after its rules changed or before.
Stops(r) ==
  /\ Moves(r) /\ req'[r].step = "idle" /\ req'[r].service = NoService
  /\ failed' = IF req[r].step = "record" THEN failed \union {req[r].service} ELSE failed
  /\ \A s \in Services : bought'[s] \in {bought[s], "lost"}
  /\ \A s \in Services : s # req[r].service => bought'[s] = bought[s]
  /\ UNCHANGED <<row, active, rule, sshPort>>

\* A request changes the rules like that, does not learn of it, and stops.
Leaks(r) ==
  /\ req[r].step \in {"replace", "forward"}
  /\ \A p \in New(r) \ req[r].current : rule[p] = NoTarget
  /\ rule' = Over([p \in Ports |-> IF p \in req[r].current THEN NoTarget ELSE rule[p]],
                  Moved(r))
  /\ Moves(r) /\ req'[r].step = "idle" /\ req'[r].service = NoService
  /\ failed' = IF req[r].step = "replace" THEN failed \union {req[r].service} ELSE failed
  /\ UNCHANGED dbVars

\* A request begins, or chooses its ports.
Chooses(r) ==
  /\ Moves(r) /\ req[r].step \in {"idle", "rotate", "bundle"}
  /\ \/ /\ req'[r].step \in {"rotate", "replace"}
        /\ req[r].step = "idle" => bought[req'[r].service] = "yes"
        /\ req[r].step # "idle" => req[r].step = "rotate"
     \/ /\ req[r].step = "idle" /\ req'[r].step = "bundle"
        /\ bought[req'[r].service] = "no"
        /\ \A q \in Requests : req[q].service # req'[r].service
     \/ /\ req[r].step = "bundle" /\ req'[r].step \in {"bundle", "forward"}
  /\ req[r].step # "idle" => req'[r].service = req[r].service
  /\ req'[r].current = IF req[r].step # "idle" THEN req[r].current
                       ELSE IF req'[r].step = "bundle" THEN {}
                       ELSE {p \in active : row[p].service = req'[r].service}
  /\ UNCHANGED <<dbVars, rule, failed>>

LEMMA StepSorts ==
  ASSUME TypeInv, [Next]_vars
  PROVE  \/ UNCHANGED vars
         \/ \E r \in Requests : Forwards(r) \/ Leaks(r) \/ Records(r) \/ Stops(r) \/ Chooses(r)
<1>1. ASSUME NEW r \in Requests, ReconfigReplace(r)
      PROVE  Forwards(r)
  BY <1>1, StepFacts DEF ReconfigReplace, RulesReplaced, Forwards, Steps, Buying, dbVars
<1>9. ASSUME NEW r \in Requests, ReplaceUnnoticed(r)
      PROVE  Leaks(r)
  BY <1>9, AnswerFacts DEF ReplaceUnnoticed, RulesReplaced, Leaks
<1>10. ASSUME NEW r \in Requests, ForwardUnnoticed(r)
       PROVE  Leaks(r)
  <2>1. req[r].current = {} /\ rule = [p \in Ports |-> rule[p]]
    BY <1>10 DEF ForwardUnnoticed, TypeInv, TypeOK, RequestsWellFormed, Buying
  <2>2. rule = [p \in Ports |-> IF p \in req[r].current THEN NoTarget ELSE rule[p]]
    BY <2>1
  <2>3. Moves(r) /\ req'[r].step = "idle" /\ req'[r].service = NoService
    BY <1>10, AnswerFacts DEF ForwardUnnoticed
  <2>4. rule' = Over([p \in Ports |-> IF p \in req[r].current THEN NoTarget ELSE rule[p]],
                     Moved(r))
    BY <1>10, <2>2 DEF ForwardUnnoticed
  <2> QED BY <1>10, <2>3, <2>4 DEF ForwardUnnoticed, Leaks
<1>2. ASSUME NEW r \in Requests, PurchaseForward(r)
      PROVE  Forwards(r)
  <2>1. req[r].current = {} /\ rule = [p \in Ports |-> rule[p]]
    BY <1>2 DEF PurchaseForward, TypeInv, TypeOK, RequestsWellFormed, Buying
  <2>2. rule = [p \in Ports |-> IF p \in req[r].current THEN NoTarget ELSE rule[p]]
    BY <2>1
  <2>3. GoesTo(r, "insert") /\ req'[r].next = req[r].next
    BY <1>2, StepFacts DEF PurchaseForward, Steps, Buying
  <2>4. rule' = Over([p \in Ports |-> IF p \in req[r].current THEN NoTarget ELSE rule[p]],
                     Moved(r))
    BY <1>2, <2>2 DEF PurchaseForward
  <2> QED BY <1>2, <2>3, <2>4 DEF PurchaseForward, Forwards, dbVars
<1>3. ASSUME NEW r \in Requests, ReconfigRecord(r)
      PROVE  Records(r)
  BY <1>3, AnswerFacts DEF ReconfigRecord, Records
<1>4. ASSUME NEW r \in Requests, PurchaseInsert(r)
      PROVE  Records(r)
  <2>1. req[r].current = {}
    BY <1>4 DEF PurchaseInsert, TypeInv, RequestsWellFormed, Buying
  <2> QED BY <1>4, <2>1, AnswerFacts DEF PurchaseInsert, Records
<1>5. ASSUME NEW r \in Requests,
             ReconfigRefused(r) \/ ReconfigRollback(r) \/ PurchaseRefused(r)
      PROVE  Stops(r)
  <2>1. Answer(r)
    BY <1>5 DEF ReconfigRefused, ReconfigRollback, PurchaseRefused
  <2> QED BY <1>5, <2>1, AnswerFacts
          DEF ReconfigRefused, ReconfigRollback, PurchaseRefused, Stops, dbVars
<1>6. ASSUME NEW r \in Requests, PurchaseLost(r) \/ Abandon(r)
      PROVE  Stops(r)
  <2>1. Answer(r)
    BY <1>6 DEF PurchaseLost, Abandon
  <2>2. req[r].service \in Services
    BY <1>6 DEF PurchaseLost, Abandon, TypeInv, RequestsWellFormed
  <2>3. /\ \A s \in Services : bought'[s] \in {bought[s], "lost"}
        /\ \A s \in Services : s # req[r].service => bought'[s] = bought[s]
    BY <1>6, <2>2 DEF PurchaseLost, Abandon, TypeInv, TypeOK
  <2>4. /\ failed' = IF req[r].step = "record" THEN failed \union {req[r].service} ELSE failed
        /\ UNCHANGED <<row, active, rule, sshPort>>
    BY <1>6 DEF PurchaseLost, Abandon
  <2>5. Moves(r) /\ req'[r].step = "idle" /\ req'[r].service = NoService
    BY <2>1, AnswerFacts
  <2> QED BY <2>3, <2>4, <2>5 DEF Stops
<1>7. ASSUME NEW r \in Requests, NEW s \in Services, ReconfigLoad(r, s) \/ PurchaseBegin(r, s)
      PROVE  Chooses(r)
  <2>1. CASE ReconfigLoad(r, s)
    <3>1. /\ Moves(r) /\ req'[r].step = "rotate" /\ req'[r].service = s
          /\ req'[r].current = {p \in active : row[p].service = s}
      BY <2>1, LoadFacts
    <3> QED BY <2>1, <3>1 DEF ReconfigLoad, Chooses
  <2>2. CASE PurchaseBegin(r, s)
    <3>1. Moves(r) /\ req'[r].step = "bundle" /\ req'[r].service = s /\ req'[r].current = {}
      BY <2>2, BeginFacts
    <3> QED BY <2>2, <3>1 DEF PurchaseBegin, Chooses
  <2> QED BY <1>7, <2>1, <2>2
<1>8. ASSUME NEW r \in Requests, ReconfigRotate(r) \/ PurchaseAllocate(r)
      PROVE  Chooses(r)
  BY <1>8, AllocateFacts, TakenFacts DEF Chooses, GoesTo
<1> QED BY <1>1, <1>2, <1>3, <1>4, <1>5, <1>6, <1>7, <1>8, <1>9, <1>10 DEF Next

LEMMA StepRecordableIsForwarded ==
  ASSUME OwnerInv, RecordableIsForwarded, [Next]_vars
  PROVE  RecordableIsForwarded'
<1> USE DEF OwnerInv
<1> SUFFICES ASSUME NEW q \in Requests, req'[q].step \in {"record", "insert"},
                    NEW p \in New(q)', row'[p] = NoTarget
             PROVE  rule'[p] = Moved(q)'[p]
  BY DEF RecordableIsForwarded
<1>1. CASE UNCHANGED vars
  BY <1>1 DEF vars, RecordableIsForwarded, New, Moved, Target
<1>2. ASSUME req'[q] = req[q]
      PROVE  /\ p \in New(q) /\ p \in Ports /\ Moved(q)'[p] = Moved(q)[p]
             /\ Moved(q)[p] # NoTarget /\ row[p] = NoTarget /\ rule[p] = Moved(q)[p]
  <2>1. p \in New(q) /\ Moved(q)' = Moved(q) /\ req[q].step \in {"record", "insert"}
    BY <1>2 DEF New, Moved, Target
  <2>2. p \in Ports /\ Moved(q)[p] # NoTarget
    BY <2>1, MovedFacts
  <2>3. row[p] = NoTarget
    BY <2>2, RowsStay, NoTargetHasNoService
  <2> QED BY <2>1, <2>2, <2>3 DEF RecordableIsForwarded
<1>3. ASSUME NEW r \in Requests, Forwards(r) \/ Leaks(r)
      PROVE  rule'[p] = Moved(q)'[p]
  <2> DEFINE f == [x \in Ports |-> IF x \in req[r].current THEN NoTarget ELSE rule[x]]
  <2>1. rule' = Over(f, Moved(r)) /\ DOMAIN Moved(r) = New(r)
    BY <1>3, MovedFacts DEF Forwards, Leaks
  <2>2. CASE q = r
    <3>1. p \in New(r) /\ Moved(q)'[p] = Moved(r)[p] /\ p \in Ports
      BY <1>3, <2>2, MovedFacts DEF Forwards, Leaks, GoesTo, New, Moved, Target
    <3> QED BY <2>1, <3>1, OverFacts
  <2>3. CASE q # r
    <3>1. req'[q] = req[q]
      BY <1>3, <2>3 DEF Forwards, Leaks, GoesTo, Moves
    <3>2. p \notin req[r].current
      BY <1>2, <3>1, <1>3, NoTargetHasNoService, PortsAssumption
         DEF LoadedAreOwn, Forwards, Leaks, TypeInv, RequestsWellFormed
    <3>3. p \notin New(r)
      BY <1>2, <3>1, <3>2, <1>3 DEF Forwards, Leaks
    <3>4. rule'[p] = f[p]
      BY <1>2, <2>1, <3>1, <3>3, OverFacts
    <3> QED BY <1>2, <3>1, <3>2, <3>4
  <2> QED BY <2>2, <2>3
<1>4. ASSUME NEW r \in Requests, Records(r) \/ Stops(r) \/ Chooses(r)
      PROVE  rule'[p] = Moved(q)'[p]
  <2>1. rule' = rule /\ q # r /\ req'[q] = req[q]
    BY <1>4 DEF Records, Stops, Chooses, Moves
  <2> QED BY <2>1, <1>2
<1> QED BY <1>1, <1>3, <1>4, StepSorts

\* What a request can record is forwarded to its service.
THEOREM OnlyForwardedIsRecordable == Spec => []RecordableIsForwarded
<1>1. Init => RecordableIsForwarded
  BY DEF Init, RecordableIsForwarded, Idle
<1>2. OwnerInv /\ RecordableIsForwarded /\ [Next]_vars => RecordableIsForwarded'
  BY StepRecordableIsForwarded
<1> QED BY <1>1, <1>2, OwnerInvariant, PTL DEF Spec

\* A recorded port leads where its row says, but for the exceptions.
Led(p) ==
  \/ rule[p] = row[p]
  \/ row[p].service \in failed
  \/ \E r \in Requests : req[r].step = "record" /\ p \in req[r].current

LEMMA StepActiveIsForwarded ==
  ASSUME OwnerInv, RecordableIsForwarded, ActiveIsForwarded, [Next]_vars
  PROVE  ActiveIsForwarded'
<1> USE DEF OwnerInv
<1> SUFFICES ASSUME NEW p \in active' PROVE Led(p)'
  BY DEF ActiveIsForwarded, Led
<1>1. \A x \in active : Led(x) /\ x \in Ports /\ row[x] # NoTarget
  BY NoTargetHasNoService DEF ActiveIsForwarded, Led, ActiveHasOwner, TypeInv, TypeOK
<1>2. CASE UNCHANGED vars
  BY <1>1, <1>2 DEF vars, Led
<1>3. ASSUME NEW r \in Requests, Forwards(r) \/ Leaks(r)
      PROVE  Led(p)'
  <2> DEFINE f == [x \in Ports |-> IF x \in req[r].current THEN NoTarget ELSE rule[x]]
  <2>1. /\ rule' = Over(f, Moved(r)) /\ DOMAIN Moved(r) = New(r)
        /\ p \in active /\ row' = row /\ failed \subseteq failed'
    BY <1>3, MovedFacts DEF Forwards, Leaks, dbVars
  <2>2. \A q \in Requests : req[q].step = "record" => req'[q] = req[q]
    BY <1>3 DEF Forwards, Leaks, GoesTo, Moves
  <2>3. CASE p \in req[r].current
    <3>1. req[r].step = "replace"
      BY <1>3, <2>3 DEF Forwards, Leaks, TypeInv, RequestsWellFormed, Buying
    <3>2. CASE Forwards(r)
      <4>1. req'[r].step = "record" /\ p \in req'[r].current
        BY <2>3, <3>1, <3>2 DEF Forwards, GoesTo
      <4> QED BY <4>1 DEF Led
    <3>3. CASE Leaks(r)
      BY <2>1, <2>3, <3>1, <3>3 DEF Leaks, LoadedAreOwn, Led
    <3> QED BY <1>3, <3>2, <3>3
  <2>4. CASE p \in New(r) \ req[r].current
    <3>1. rule[p] # row[p]
      BY <1>1, <1>3, <2>1, <2>4 DEF Forwards, Leaks
    <3> QED BY <1>1, <2>1, <2>2, <3>1 DEF Led
  <2>5. CASE p \notin req[r].current /\ p \notin New(r)
    <3>1. rule'[p] = rule[p]
      BY <1>1, <2>1, <2>5, OverFacts
    <3> QED BY <1>1, <2>1, <2>2, <3>1 DEF Led
  <2> QED BY <2>3, <2>4, <2>5
<1>4. ASSUME NEW r \in Requests, Records(r)
      PROVE  Led(p)'
  <2>1. /\ rule' = rule /\ failed' = failed
        /\ active' = (active \ req[r].current) \union New(r)
    BY <1>4 DEF Records
  <2>2. /\ \A x \in New(r) : x \in Ports /\ row[x] = NoTarget /\ row'[x] = Moved(r)[x]
        /\ \A x \in Ports \ New(r) : row'[x] = row[x]
    BY <1>4, RecordFacts DEF Records
  <2>3. CASE p \in New(r)
    BY <1>4, <2>1, <2>2, <2>3 DEF Records, RecordableIsForwarded, Led
  <2>4. CASE p \notin New(r)
    <3>1. p \in active /\ p \notin req[r].current /\ row'[p] = row[p]
      BY <1>1, <2>1, <2>2, <2>4
    <3>2. \A q \in Requests : req[q].step = "record" /\ p \in req[q].current => req'[q] = req[q]
      BY <1>4, <3>1 DEF Records, Moves
    <3> QED BY <1>1, <2>1, <3>1, <3>2 DEF Led
  <2> QED BY <2>3, <2>4
<1>5. ASSUME NEW r \in Requests, Stops(r)
      PROVE  Led(p)'
  <2>1. p \in active /\ row' = row /\ rule' = rule /\ Moves(r) /\ failed \subseteq failed'
    BY <1>5 DEF Stops
  <2>2. CASE req[r].step = "record" /\ p \in req[r].current
    BY <1>5, <2>1, <2>2 DEF Stops, LoadedAreOwn, Led
  <2>3. CASE ~(req[r].step = "record" /\ p \in req[r].current)
    BY <1>1, <2>1, <2>3 DEF Led, Moves
  <2> QED BY <2>2, <2>3
<1>6. ASSUME NEW r \in Requests, Chooses(r)
      PROVE  Led(p)'
  BY <1>1, <1>6 DEF Chooses, Led, Moves, dbVars
<1> QED BY <1>2, <1>3, <1>4, <1>5, <1>6, StepSorts

\* A recorded port leads to its service, except while the service is being
\* reconfigured or after a reconfiguration of it that could not be recorded.
THEOREM NobodyTakesARecordedPort == Spec => []ActiveIsForwarded
<1>1. Init => ActiveIsForwarded
  BY DEF Init, ActiveIsForwarded
<1>2. OwnerInv /\ RecordableIsForwarded /\ ActiveIsForwarded /\ [Next]_vars => ActiveIsForwarded'
  BY StepActiveIsForwarded
<1> QED BY <1>1, <1>2, OwnerInvariant, OnlyForwardedIsRecordable, PTL DEF Spec

LEMMA StepSshPortIsActive ==
  ASSUME OwnerInv, SshPortIsActive, [Next]_vars
  PROVE  SshPortIsActive'
<1> USE DEF OwnerInv
<1> SUFFICES ASSUME NEW s \in Services, bought'[s] = "yes"
             PROVE  sshPort'[s] \in active' /\ row'[sshPort'[s]] = Target(s, Ssh)
  BY DEF SshPortIsActive, Target
<1>1. CASE UNCHANGED vars
  BY <1>1 DEF vars, SshPortIsActive
<1>2. ASSUME NEW r \in Requests, Forwards(r) \/ Leaks(r) \/ Stops(r) \/ Chooses(r)
      PROVE  sshPort'[s] \in active' /\ row'[sshPort'[s]] = Target(s, Ssh)
  BY <1>2 DEF Forwards, Leaks, Stops, Chooses, dbVars, SshPortIsActive
<1>3. ASSUME NEW r \in Requests, Records(r)
      PROVE  sshPort'[s] \in active' /\ row'[sshPort'[s]] = Target(s, Ssh)
  <2>1. PICK p \in New(r) : /\ req[r].next[p] = Ssh
                            /\ sshPort' = [sshPort EXCEPT ![req[r].service] = p]
    BY <1>3 DEF Records
  <2>2. /\ \A x \in New(r) : x \in Ports /\ row[x] = NoTarget /\ row'[x] = Moved(r)[x]
        /\ \A x \in Ports \ New(r) : row'[x] = row[x]
    BY <1>3, RecordFacts DEF Records
  <2>3. Moved(r)[p] = Target(req[r].service, Ssh) /\ p \in active' /\ sshPort \in [Services -> Ports \union {0}]
    BY <1>3, <2>1, MovedFacts DEF Records, TypeInv, TypeOK
  <2>4. CASE s = req[r].service
    BY <2>1, <2>2, <2>3, <2>4
  <2>5. CASE s # req[r].service
    <3>1. sshPort'[s] = sshPort[s] /\ bought[s] = "yes"
      BY <1>3, <2>1, <2>3, <2>5 DEF Records, TypeInv, TypeOK
    <3>2. sshPort[s] \in active /\ row[sshPort[s]] = Target(s, Ssh)
      BY <3>1 DEF SshPortIsActive
    <3>3. row[sshPort[s]].service = s /\ row[sshPort[s]] # NoTarget
      BY <3>2, PortsAssumption DEF Target, NoTarget
    <3>4. sshPort[s] \notin req[r].current /\ sshPort[s] \in Ports
      BY <2>5, <3>2, <3>3 DEF LoadedAreOwn, TypeInv, TypeOK
    <3> QED BY <1>3, <2>2, <3>1, <3>2, <3>3, <3>4 DEF Records
  <2> QED BY <2>4, <2>5
<1> QED BY <1>1, <1>2, <1>3, StepSorts

\* The SSH port a service shows is one of its active rows for SSH.
THEOREM SshPortStaysActive == Spec => []SshPortIsActive
<1>1. Init => SshPortIsActive
  BY DEF Init, SshPortIsActive
<1>2. OwnerInv /\ SshPortIsActive /\ [Next]_vars => SshPortIsActive'
  BY StepSshPortIsActive
<1> QED BY <1>1, <1>2, OwnerInvariant, PTL DEF Spec

-----------------------------------------------------------------------------
(***************************************************************************)
(* How many mappings a service has.                                        *)
(***************************************************************************)

\* At these steps a request has all its ports.
Served == {"replace", "record", "forward", "insert"}

\* A request never has more ports for a kind of mapping than it wants, and
\* then it has as many.
Allotted ==
  \A r \in Requests : req[r].step # "idle" =>
    \A k \in Kinds :
      /\ Given(req[r].next, k) <= Wants(r)[k]
      /\ req[r].step \in Served => Given(req[r].next, k) = Wants(r)[k]

\* A service has no rows before its purchase, which is alone with it.
BuyerAlone ==
  /\ \A r, q \in Requests :
       req[r].step \in Buying /\ q # r => req[q].service # req[r].service
  /\ \A r \in Requests : req[r].step \in Buying => bought[req[r].service] = "no"
  /\ \A r \in Requests : req[r].step \in Reconfiguring => bought[req[r].service] # "no"
  /\ \A s \in Services : bought[s] = "no" => ActiveRows(s) = {}

LEMMA WantsType ==
  ASSUME TypeInv, NEW r \in Requests, NEW k \in Kinds
  PROVE  Wants(r)[k] \in Nat /\ Given(req[r].next, k) \in Nat
BY CountType, ReqTyped DEF Wants, OneOfEach, TypeInv, ReqType, ReqRecord

\* What a request wants does not change on the way.
LEMMA WantsStay ==
  ASSUME OwnerInv, [Next]_vars, NEW r \in Requests, req[r].step # "idle",
         req'[r].service = req[r].service, req'[r].current = req[r].current,
         req'[r].step \in Buying <=> req[r].step \in Buying
  PROVE  Wants(r)' = Wants(r)
<1> USE DEF OwnerInv
<1>1. \A p \in req[r].current : row'[p] = row[p]
  <2>1. \A p \in req[r].current : p \in Ports /\ row[p] # NoTarget
    BY ReqTyped, NoTargetHasNoService, PortsAssumption
       DEF LoadedAreOwn, TypeInv, RequestsWellFormed, ReqType, ReqRecord
  <2> QED BY <2>1, RowsStay
<1>2. \A k \in Kinds : {p \in req'[r].current : row'[p].kind = k}
                        = {p \in req[r].current : row[p].kind = k}
  BY <1>1
<1>3. KindsOf(req[r].current)' = KindsOf(req[r].current)
  BY <1>2 DEF KindsOf
<1> QED BY <1>3 DEF Wants, OneOfEach

LEMMA StepAllotted ==
  ASSUME OwnerInv, Allotted, [Next]_vars
  PROVE  Allotted'
<1> USE DEF OwnerInv
<1> SUFFICES ASSUME NEW q \in Requests, req'[q].step # "idle", NEW k \in Kinds
             PROVE  /\ Given(req'[q].next, k) <= Wants(q)'[k]
                    /\ req'[q].step \in Served => Given(req'[q].next, k) = Wants(q)'[k]
  BY DEF Allotted, Given
<1> DEFINE Goal == /\ Given(req'[q].next, k) <= Wants(q)'[k]
                   /\ req'[q].step \in Served => Given(req'[q].next, k) = Wants(q)'[k]
<1>1. ASSUME req[q].step # "idle", req'[q].next = req[q].next,
             req'[q].service = req[q].service, req'[q].current = req[q].current,
             req'[q].step \in Buying <=> req[q].step \in Buying,
             req'[q].step \in Served => req[q].step \in Served
      PROVE  Goal
  BY <1>1, WantsStay DEF Allotted
<1>2. ASSUME req'[q] = req[q]
      PROVE  Goal
  BY <1>1, <1>2
<1>3. CASE UNCHANGED vars
  BY <1>2, <1>3 DEF vars
<1>4. ASSUME NEW r \in Requests, NEW s \in Services, ReconfigLoad(r, s) \/ PurchaseBegin(r, s)
      PROVE  Goal
  <2>1. CASE q = r
    <3>1. req'[q].next = None /\ req'[q].step \notin Served
      BY <1>4, <2>1, LoadFacts, BeginFacts DEF Served
    <3>2. Given(None, k) = 0
      BY FS_EmptySet DEF Given, None
    <3>3. TypeInv'
      BY StepTypeInv
    <3>4. Wants(q)'[k] \in Nat
      <4>1. req'[q].current \in SUBSET Ports
        BY <3>3 DEF TypeInv, TypeOK
      <4>2. KindsOf(req[q].current)'[k] = Cardinality({p \in req'[q].current : row'[p].kind = k})
        BY DEF KindsOf
      <4>3. {p \in req'[q].current : row'[p].kind = k} \in SUBSET Ports
        BY <4>1
      <4>4. \A S \in SUBSET Ports : Cardinality(S) \in Nat
        BY FS_Subset, FS_CardinalityType, PortsAssumption
      <4> QED BY <4>2, <4>3, <4>4 DEF Wants, OneOfEach
    <3> QED BY <3>1, <3>2, <3>4
  <2>2. CASE q # r
    BY <1>2, <1>4, <2>2, LoadFacts, BeginFacts DEF Moves
  <2> QED BY <2>1, <2>2
<1>5. ASSUME NEW r \in Requests, ReconfigRotate(r) \/ PurchaseAllocate(r)
      PROVE  Goal
  <2>1. CASE q = r
    <3>1. PICK p \in Ports \ New(q), j \in Kinds :
            /\ Given(req[q].next, j) < Wants(q)[j]
            /\ TakePort(q, p, j, Wants(q),
                        IF req[q].step = "rotate" THEN "replace" ELSE "forward")
      BY <1>5, <2>1, AllocateFacts
    <3>2. /\ req[q].step \in {"rotate", "bundle"}
          /\ \/ /\ GoesTo(q, IF req[q].step = "rotate" THEN "replace" ELSE "forward")
                /\ Missing(req'[q].next, Wants(q)) = {}
             \/ GoesTo(q, req[q].step)
          /\ req[q].next \in KindMaps /\ req'[q].next \in KindMaps
          /\ DOMAIN req'[q].next = DOMAIN req[q].next \union {p} /\ req'[q].next[p] = j
          /\ \A x \in DOMAIN req[q].next : req'[q].next[x] = req[q].next[x]
          /\ p \in Ports \ DOMAIN req[q].next
      <4> DEFINE step == IF req[q].step = "rotate" THEN "replace" ELSE "forward"
                 w == Wants(q)
      <4>1. req[q].step \in {"rotate", "bundle"}
        BY <1>5, <2>1, AllocateFacts
      <4>2. /\ step \in {"replace", "forward"}
            /\ step = "forward" => req[q].step = "bundle"
        BY <4>1
      <4>3. TakePort(q, p, j, w, step)
        BY <3>1
      <4> HIDE DEF step, w
      <4>4. /\ \/ GoesTo(q, step) /\ Missing(req'[q].next, w) = {}
               \/ GoesTo(q, req[q].step)
            /\ req[q].next \in KindMaps /\ req'[q].next \in KindMaps
            /\ DOMAIN req'[q].next = New(q) \union {p} /\ req'[q].next[p] = j
            /\ \A x \in New(q) : req'[q].next[x] = req[q].next[x]
        BY <4>1, <4>2, <4>3, TakeFacts
      <4> QED BY <4>1, <4>4 DEF New, step, w
    <3>3. Wants(q)' = Wants(q)
      BY <3>2, WantsStay DEF GoesTo, Buying
    <3>4. /\ Given(req'[q].next, j) = Given(req[q].next, j) + 1
          /\ k # j => Given(req'[q].next, k) = Given(req[q].next, k)
      BY <3>2, GivenFacts
    <3>5. Given(req[q].next, k) <= Wants(q)[k]
      BY <3>2 DEF Allotted
    <3>6. /\ Given(req[q].next, k) \in Nat /\ Wants(q)[k] \in Nat
          /\ Given(req[q].next, j) \in Nat /\ Wants(q)[j] \in Nat
      BY WantsType
    <3>7. Given(req'[q].next, k) <= Wants(q)[k] /\ Given(req'[q].next, k) \in Nat
      BY <3>1, <3>4, <3>5, <3>6
    <3>8. req'[q].step \in Served => Missing(req'[q].next, Wants(q)) = {}
      BY <3>2 DEF GoesTo, Served
    <3>9. Missing(req'[q].next, Wants(q)) = {} => ~(Given(req'[q].next, k) < Wants(q)[k])
      BY DEF Missing
    <3> QED BY <3>3, <3>6, <3>7, <3>8, <3>9
  <2>2. CASE q # r
    BY <1>2, <1>5, <2>2, TakenFacts DEF GoesTo, Moves
  <2> QED BY <2>1, <2>2
<1>6. ASSUME NEW r \in Requests, ReconfigReplace(r) \/ PurchaseForward(r)
      PROVE  Goal
  <2>1. /\ Moves(r) /\ req'[r].next = req[r].next
        /\ req'[r].service = req[r].service /\ req'[r].current = req[r].current
        /\ \/ req[r].step = "replace" /\ req'[r].step = "record"
           \/ req[r].step = "forward" /\ req'[r].step = "insert"
    BY <1>6, StepFacts DEF ReconfigReplace, PurchaseForward, Steps, Buying, GoesTo
  <2> QED BY <1>1, <1>2, <2>1 DEF Moves, Buying, Served
<1>7. ASSUME NEW r \in Requests, Answer(r)
      PROVE  Goal
  BY <1>2, <1>7, AnswerFacts DEF Moves
<1> QED BY <1>3, <1>4, <1>5, <1>6, <1>7
        DEF Next, ReconfigRefused, ReplaceUnnoticed, ReconfigRecord, ReconfigRollback,
            PurchaseRefused, ForwardUnnoticed, PurchaseInsert, PurchaseLost, Abandon

\* A reconfiguration gives as many ports as it has loaded, if these are active.
LEMMA SameMany ==
  ASSUME OwnerInv, Allotted, NEW r \in Requests, req[r].step = "record",
         req[r].current \subseteq active
  PROVE  Cardinality(New(r)) = Cardinality(req[r].current)
<1> USE DEF OwnerInv
<1> DEFINE c == req[r].current
           n == req[r].next
           g == [p \in c |-> row[p].kind]
<1>1. /\ c \in SUBSET Ports /\ n \in KindMaps
      /\ DOMAIN n \in SUBSET Ports /\ n \in [DOMAIN n -> Kinds]
  BY ReqTyped, KindMapFacts DEF TypeInv, ReqType, ReqRecord
<1>2. IsFiniteSet(c) /\ IsFiniteSet(DOMAIN n)
  BY <1>1, FS_Subset, PortsAssumption
<1>3. g \in [c -> Kinds]
  BY DEF ActiveHasOwner, Targets
<1>4. ASSUME NEW k \in Kinds
      PROVE  Cardinality({p \in DOMAIN n : n[p] = k}) = Cardinality({p \in c : g[p] = k})
  <2>1. Given(n, k) = KindsOf(c)[k]
    BY DEF Allotted, Served, Wants, Buying
  <2>2. {p \in c : g[p] = k} = {p \in c : row[p].kind = k}
    OBVIOUS
  <2> QED BY <2>1, <2>2 DEF Given, KindsOf
<1> HIDE DEF c, n, g
<1>5. Cardinality(DOMAIN n) = Cardinality(c)
  BY <1>1, <1>2, <1>3, <1>4, SameCount
<1> QED BY <1>5 DEF New, n, c

\* Recording a request's rows changes those of no other service.
LEMMA OtherRowsStay ==
  ASSUME OwnerInv, NEW r \in Requests, Records(r), NEW s \in Services, s # req[r].service
  PROVE  ActiveRows(s)' = ActiveRows(s)
<1>1. /\ \A x \in New(r) : x \in Ports /\ row[x] = NoTarget /\ row'[x] = Moved(r)[x]
      /\ \A x \in Ports \ New(r) : row'[x] = row[x]
  BY RecordFacts DEF Records, OwnerInv
<1>2. \A x \in New(r) : row[x].service # s /\ row'[x].service # s
  BY <1>1, NoTargetHasNoService, MovedFacts, PortsAssumption DEF OwnerInv, Records
<1>3. \A x \in req[r].current : row[x].service # s
  BY DEF OwnerInv, LoadedAreOwn
<1>4. active' = (active \ req[r].current) \union New(r) /\ active \subseteq Ports
  BY DEF Records, OwnerInv, TypeInv, TypeOK
<1> QED BY <1>1, <1>2, <1>3, <1>4 DEF ActiveRows

LEMMA RowsOfOthersSame ==
  ASSUME UNCHANGED <<row, active>>, NEW s \in Services
  PROVE  ActiveRows(s)' = ActiveRows(s)
BY DEF ActiveRows

LEMMA StepBuyerAlone ==
  ASSUME OwnerInv, BuyerAlone, [Next]_vars
  PROVE  BuyerAlone'
<1> USE DEF OwnerInv
<1> \A q \in Requests : req[q].step # "idle" => req[q].service \in Services
  BY DEF TypeInv, RequestsWellFormed
<1>1. CASE UNCHANGED vars
  BY <1>1 DEF vars, BuyerAlone, ActiveRows
<1>2. ASSUME NEW r \in Requests, Forwards(r)
      PROVE  BuyerAlone'
  <2>1. \A s \in Services : ActiveRows(s)' = ActiveRows(s)
    BY <1>2, RowsOfOthersSame DEF Forwards, dbVars
  <2> QED BY <1>2, <2>1 DEF Forwards, GoesTo, Moves, dbVars, BuyerAlone, Buying, Reconfiguring
<1>3. ASSUME NEW r \in Requests, Records(r)
      PROVE  BuyerAlone'
  <2>1. \A s \in Services : s # req[r].service => ActiveRows(s)' = ActiveRows(s)
    BY <1>3, OtherRowsStay
  <2>2. /\ \A s \in Services : s # req[r].service => bought'[s] = bought[s]
        /\ bought'[req[r].service] # "no"
    BY <1>3 DEF Records, TypeInv, TypeOK, BuyerAlone, Reconfiguring
  <2>3. \A s \in Services : bought'[s] = "no" => bought[s] = "no" /\ ActiveRows(s)' = {}
    BY <2>1, <2>2 DEF BuyerAlone
  <2>4. /\ req'[r].step = "idle" /\ req'[r].service = NoService
        /\ \A q \in Requests : q # r => req'[q] = req[q]
    BY <1>3 DEF Records, Moves
  <2>5. \A q \in Requests : req[q].step \in Buying /\ q # r => bought'[req[q].service] = "no"
    BY <2>2 DEF BuyerAlone, Buying
  <2>6. \A q \in Requests : req[q].step \in Reconfiguring => bought'[req[q].service] # "no"
    BY <2>2 DEF BuyerAlone, Reconfiguring
  <2>7. \A q \in Requests : req'[q].service = NoService \/ req'[q] = req[q]
    BY <2>4
  <2>8. \A q, x \in Requests :
          req'[q].step \in Buying /\ x # q => req'[x].service # req'[q].service
    BY <2>4, <2>7, PortsAssumption DEF BuyerAlone, Buying
  <2> QED BY <2>3, <2>4, <2>5, <2>6, <2>8 DEF BuyerAlone, Buying, Reconfiguring
<1>4. ASSUME NEW r \in Requests, Stops(r) \/ Leaks(r)
      PROVE  BuyerAlone'
  <2>1. \A s \in Services : ActiveRows(s)' = ActiveRows(s)
    BY <1>4, RowsOfOthersSame DEF Stops, Leaks, dbVars
  <2>2. /\ req'[r].step = "idle" /\ req'[r].service = NoService
        /\ \A q \in Requests : q # r => req'[q] = req[q]
        /\ \A s \in Services : bought'[s] = "no" => bought[s] = "no"
    BY <1>4 DEF Stops, Leaks, Moves, dbVars
  <2>3. \A q \in Requests : req[q].step \in Buying /\ q # r => bought'[req[q].service] = "no"
    BY <1>4 DEF Stops, Leaks, dbVars, BuyerAlone, Buying
  <2>4. \A q \in Requests : req[q].step \in Reconfiguring => bought'[req[q].service] # "no"
    BY <1>4 DEF Stops, Leaks, dbVars, BuyerAlone, Reconfiguring
  <2>5. \A q, x \in Requests :
          req'[q].step \in Buying /\ x # q => req'[x].service # req'[q].service
    BY <2>2, PortsAssumption DEF BuyerAlone, Buying
  <2> QED BY <2>1, <2>2, <2>3, <2>4, <2>5 DEF BuyerAlone, Buying, Reconfiguring
<1>5. ASSUME NEW r \in Requests, Chooses(r)
      PROVE  BuyerAlone'
  <2>1. \A s \in Services : ActiveRows(s)' = ActiveRows(s)
    BY <1>5, RowsOfOthersSame DEF Chooses, dbVars
  <2> QED BY <1>5, <2>1 DEF Chooses, Moves, dbVars, BuyerAlone, Buying, Reconfiguring
<1> QED BY <1>1, <1>2, <1>3, <1>4, <1>5, StepSorts

BundleInv == OwnerInv /\ Allotted /\ BuyerAlone

\* A service's active rows are more after a step only if they are its first, or
\* if the request that recorded them had loaded other rows than those there.
LEMMA StepSecondBundle ==
  ASSUME BundleInv, Next, NEW s \in Services,
         Cardinality(ActiveRows(s)') > Cardinality(ActiveRows(s))
  PROVE  \/ ActiveRows(s) = {}
         \/ \E r \in Requests : req[r].step = "record" /\ req[r].service = s
                                  /\ req[r].current # ActiveRows(s)
<1> USE DEF BundleInv, OwnerInv
<1>1. \A S \in SUBSET Ports : IsFiniteSet(S) /\ Cardinality(S) \in Nat
  BY FS_Subset, FS_CardinalityType, PortsAssumption
<1>2. ActiveRows(s) \in SUBSET Ports
  BY DEF ActiveRows, TypeInv, TypeOK
<1>3. ActiveRows(s)' # ActiveRows(s)
  BY <1>1, <1>2
<1>4. PICK r \in Requests : Records(r)
  <2>1. row' # row \/ active' # active
    BY <1>3, RowsOfOthersSame
  <2> QED BY <2>1, StepSorts DEF vars, dbVars, Forwards, Leaks, Stops, Chooses
<1>5. req[r].service = s
  BY <1>3, <1>4, OtherRowsStay
<1>6. CASE req[r].step = "insert"
  BY <1>5, <1>6 DEF BuyerAlone, Buying
<1>7. ASSUME req[r].step = "record", req[r].current = ActiveRows(s)
      PROVE  FALSE
  <2>1. \A x \in ActiveRows(s)' : x \in New(r)
    <3>1. /\ \A x \in Ports \ New(r) : row'[x] = row[x]
          /\ active' = (active \ req[r].current) \union New(r)
      BY <1>4, RecordFacts DEF Records
    <3> QED BY <1>7, <3>1 DEF ActiveRows, TypeInv, TypeOK
  <2>2. New(r) \in SUBSET Ports
    BY <1>7, MovedFacts
  <2>3. Cardinality(ActiveRows(s)') <= Cardinality(New(r))
    BY <1>1, <2>1, <2>2, FS_Subset
  <2>4. Cardinality(New(r)) = Cardinality(ActiveRows(s))
    BY <1>7, SameMany DEF ActiveRows
  <2>5. ActiveRows(s)' \in SUBSET Ports
    BY <2>1, <2>2
  <2>6. Cardinality(ActiveRows(s)') \in Nat /\ Cardinality(ActiveRows(s)) \in Nat
    BY <1>1, <1>2, <2>5
  <2> QED BY <2>3, <2>4, <2>6
<1> QED BY <1>4, <1>5, <1>6, <1>7 DEF Records

\* A service has two active mappings of one kind only if a reconfiguration of
\* it recorded its rows after another one had changed those it had loaded.
THEOREM SecondBundleIsOfAStaleLoad == Spec => SecondBundleOnlyByStaleLoad
<1>1. Init => Allotted /\ BuyerAlone
  BY DEF Init, Allotted, BuyerAlone, Idle, Buying, Reconfiguring, ActiveRows
<1>2. OwnerInv /\ Allotted /\ BuyerAlone /\ [Next]_vars => Allotted' /\ BuyerAlone'
  BY StepAllotted, StepBuyerAlone
<1>3. BundleInv /\ [Next]_vars =>
        [\A s \in Services :
           Cardinality(ActiveRows(s)') > Cardinality(ActiveRows(s)) =>
             \/ ActiveRows(s) = {}
             \/ \E r \in Requests : req[r].step = "record" /\ req[r].service = s
                                      /\ req[r].current # ActiveRows(s)]_vars
  BY StepSecondBundle
<1>4. OwnerInv /\ Allotted /\ BuyerAlone => BundleInv
  BY DEF BundleInv
<1> QED BY <1>1, <1>2, <1>3, <1>4, OwnerInvariant, PTL DEF Spec, SecondBundleOnlyByStaleLoad
-----------------------------------------------------------------------------
(***************************************************************************)
(* Services no two requests of which are at work at a time: what a         *)
(* reconfiguration has loaded are the rows there are when it records its   *)
(* own, so that a service has one port of each kind, for ever.             *)
(***************************************************************************)

ServicesApart ==
  \A r, q \in Requests :
    req[r].service = req[q].service /\ req[r].service # NoService => r = q

RowsOf(s, k) == {p \in active : row[p].service = s /\ row[p].kind = k}

Full(s) == \A k \in Kinds : Cardinality(RowsOf(s, k)) = 1

\* Ports with their kinds, one of each.
Complete(n) == \A k \in Kinds : Cardinality({p \in DOMAIN n : n[p] = k}) = 1

FullInv ==
  /\ \A s \in Services : bought[s] = "yes" => Full(s)
  /\ \A r \in Requests, s \in Services :
       req[r].step \in Reconfiguring /\ req[r].service = s =>
         bought[s] = "yes" /\ req[r].current = ActiveRows(s)

\* A request that records its ports has one of each kind.
LEMMA RecordsComplete ==
  ASSUME BundleInv, FullInv, NEW r \in Requests, Records(r)
  PROVE  Complete(req[r].next)
<1> USE DEF BundleInv, OwnerInv
<1>1. \A k \in Kinds : Given(req[r].next, k) = Wants(r)[k]
  BY DEF Records, Allotted, Served
<1>2. CASE req[r].step = "insert"
  BY <1>1, <1>2 DEF Wants, Buying, OneOfEach, Given, Complete
<1>3. CASE req[r].step = "record"
  <2> DEFINE s == req[r].service
  <2>1. s \in Services /\ req[r].current = ActiveRows(s) /\ Full(s)
    BY <1>3 DEF FullInv, Reconfiguring, TypeInv, RequestsWellFormed
  <2>2. \A k \in Kinds : {p \in req[r].current : row[p].kind = k} = RowsOf(s, k)
    BY <2>1 DEF ActiveRows, RowsOf
  <2>3. \A k \in Kinds : KindsOf(req[r].current)[k] = 1
    BY <2>1, <2>2 DEF KindsOf, Full
  <2> QED BY <1>1, <1>3, <2>3 DEF Wants, Buying, Given, Complete
<1> QED BY <1>2, <1>3 DEF Records

\* The service whose rows are recorded has those and no others.
LEMMA RecordsAll ==
  ASSUME BundleInv, FullInv, NEW r \in Requests, Records(r),
         NEW s \in Services, s = req[r].service
  PROVE  ActiveRows(s)' = New(r) /\ Full(s)'
<1> USE DEF BundleInv, OwnerInv
<1>1. /\ \A x \in New(r) : x \in Ports /\ row'[x] = Moved(r)[x]
      /\ \A x \in Ports \ New(r) : row'[x] = row[x]
      /\ active' = (active \ req[r].current) \union New(r)
      /\ active \subseteq Ports
      /\ req[r].step \in {"record", "insert"}
  BY RecordFacts DEF Records, TypeInv, TypeOK
<1>2. \A x \in New(r) : row'[x].service = s /\ row'[x].kind = req[r].next[x]
  <2>1. \A k : Target(s, k).service = s /\ Target(s, k).kind = k
    BY DEF Target
  <2>2. \A x \in New(r) : row'[x] = Target(s, req[r].next[x])
    BY <1>1, MovedFacts
  <2> QED BY <2>1, <2>2
<1>3. ActiveRows(s) \subseteq req[r].current
  BY <1>1 DEF FullInv, Reconfiguring, BuyerAlone, Buying
<1>4. \A x \in active' : row'[x].service = s <=> x \in New(r)
  BY <1>1, <1>2, <1>3 DEF ActiveRows
<1>5. New(r) \subseteq active'
  BY <1>1
<1>6. ActiveRows(s)' = New(r)
  BY <1>4, <1>5 DEF ActiveRows
<1>7. \A k \in Kinds : RowsOf(s, k)' = {p \in New(r) : req[r].next[p] = k}
  BY <1>2, <1>4, <1>5 DEF RowsOf
<1>8. Complete(req[r].next)
  BY RecordsComplete
<1> QED BY <1>6, <1>7, <1>8 DEF Full, Complete, New

LEMMA StepFullInv ==
  ASSUME BundleInv, ServicesApart, FullInv, [Next]_vars
  PROVE  FullInv'
<1> USE DEF BundleInv, OwnerInv
<1> SUFFICES ASSUME NEW s \in Services
             PROVE  /\ bought'[s] = "yes" => Full(s)'
                    /\ \A q \in Requests :
                         req'[q].step \in Reconfiguring /\ req'[q].service = s =>
                           bought'[s] = "yes" /\ req'[q].current = ActiveRows(s)'
  BY DEF FullInv
<1> DEFINE Goal == /\ bought'[s] = "yes" => Full(s)'
                   /\ \A q \in Requests :
                        req'[q].step \in Reconfiguring /\ req'[q].service = s =>
                          bought'[s] = "yes" /\ req'[q].current = ActiveRows(s)'
<1>a. /\ bought[s] = "yes" => Full(s)
      /\ \A q \in Requests : req[q].step \in Reconfiguring /\ req[q].service = s =>
           bought[s] = "yes" /\ req[q].current = ActiveRows(s)
      /\ \A r, q \in Requests : req[r].service = s /\ req[q].service = s => r = q
  BY PortsAssumption DEF FullInv, ServicesApart
<1>b. UNCHANGED <<row, active>> => ActiveRows(s)' = ActiveRows(s) /\ (Full(s) => Full(s)')
  BY DEF ActiveRows, Full, RowsOf
<1>1. CASE UNCHANGED vars
  BY <1>1, <1>a, <1>b DEF vars
<1>2. ASSUME NEW r \in Requests, Forwards(r)
      PROVE  Goal
  BY <1>2, <1>a, <1>b DEF Forwards, GoesTo, Moves, dbVars, Reconfiguring
<1>3. ASSUME NEW r \in Requests, Records(r)
      PROVE  Goal
  <2>1. /\ s # req[r].service => bought'[s] = bought[s]
        /\ req'[r].step = "idle" /\ \A q \in Requests : q # r => req'[q] = req[q]
    BY <1>3 DEF Records, Moves, TypeInv, TypeOK
  <2>2. CASE s = req[r].service
    <3>1. Full(s)'
      BY <1>3, <2>2, RecordsAll
    <3>2. \A q \in Requests : req'[q].step \in Reconfiguring => req'[q].service # s
      BY <1>a, <2>1, <2>2 DEF Reconfiguring
    <3> QED BY <3>1, <3>2
  <2>3. CASE s # req[r].service
    <3>1. ActiveRows(s)' = ActiveRows(s)
      BY <1>3, <2>3, OtherRowsStay
    <3>2. /\ \A x \in Ports \ New(r) : row'[x] = row[x]
          /\ active \subseteq Ports
          /\ \A x \in New(r) : x \in Ports /\ row'[x].service = req[r].service
      BY <1>3, RecordFacts, MovedFacts DEF Records, TypeInv, TypeOK
    <3>3. \A x \in ActiveRows(s) : row'[x] = row[x]
      BY <2>3, <3>1, <3>2 DEF ActiveRows
    <3>4. \A k \in Kinds : RowsOf(s, k)' = RowsOf(s, k)
      BY <3>1, <3>3 DEF ActiveRows, RowsOf
    <3>5. Full(s) => Full(s)'
      BY <3>4 DEF Full
    <3> QED BY <1>a, <2>1, <2>3, <3>1, <3>5 DEF Reconfiguring
  <2> QED BY <2>2, <2>3
<1>4. ASSUME NEW r \in Requests, Stops(r) \/ Leaks(r)
      PROVE  Goal
  <2>1. /\ UNCHANGED <<row, active>>
        /\ req'[r].step = "idle" /\ \A q \in Requests : q # r => req'[q] = req[q]
        /\ bought'[s] \in {bought[s], "lost"}
        /\ s # req[r].service => bought'[s] = bought[s]
    BY <1>4 DEF Stops, Leaks, Moves, dbVars
  <2>2. \A q \in Requests : req'[q].step \in Reconfiguring /\ req'[q].service = s =>
          req'[q] = req[q] /\ s # req[r].service
    BY <1>a, <2>1 DEF Reconfiguring
  <2> QED BY <1>a, <1>b, <2>1, <2>2
<1>5. ASSUME NEW r \in Requests, Chooses(r)
      PROVE  Goal
  <2>1. /\ UNCHANGED <<row, active, bought>>
        /\ \A q \in Requests : q # r => req'[q] = req[q]
    BY <1>5 DEF Chooses, Moves, dbVars
  <2>2. req'[r].step \in Reconfiguring /\ req'[r].service = s =>
          bought[s] = "yes" /\ req'[r].current = ActiveRows(s)
    BY <1>5, <1>a DEF Chooses, ActiveRows, Reconfiguring
  <2> QED BY <1>a, <1>b, <2>1, <2>2
<1> QED BY <1>1, <1>2, <1>3, <1>4, <1>5, StepSorts

\* When no two requests are at work on the same service, a service that was
\* bought has exactly one active mapping of each kind, however often it was
\* reconfigured, and whatever failed.
THEOREM OneOfEachIfApart ==
  Spec /\ []ServicesApart =>
    [](\A s \in Services : bought[s] = "yes" =>
         \A k \in Kinds : Cardinality(RowsOf(s, k)) = 1)
<1>1. Init => Allotted /\ BuyerAlone
  BY DEF Init, Allotted, BuyerAlone, Idle, Buying, Reconfiguring, ActiveRows
<1>2. OwnerInv /\ Allotted /\ BuyerAlone /\ [Next]_vars => Allotted' /\ BuyerAlone'
  BY StepAllotted, StepBuyerAlone
<1>3. Init => FullInv
  BY DEF Init, FullInv, Idle, Reconfiguring
<1>4. OwnerInv /\ Allotted /\ BuyerAlone /\ ServicesApart /\ FullInv /\ [Next]_vars => FullInv'
  BY StepFullInv DEF BundleInv
<1>5. FullInv => \A s \in Services : bought[s] = "yes" =>
                   \A k \in Kinds : Cardinality(RowsOf(s, k)) = 1
  BY DEF FullInv, Full
<1> QED BY <1>1, <1>2, <1>3, <1>4, <1>5, OwnerInvariant, PTL DEF Spec
=============================================================================
