--------------------------- MODULE SupportProofs ---------------------------
(***************************************************************************)
(* Theorems about module Support and the sessions it builds on, for every  *)
(* set of administrators, tokens, tickets and requests, any lifetime of a  *)
(* session, and any number of faults.                                      *)
(***************************************************************************)
EXTENDS Support, TLAPS

ReqRecord == [step : Steps, token : Tokens \union {NoToken},
              admin : Admins \union {Nobody}, late : BOOLEAN,
              ticket : Tickets \union {NoTicket},
              seen : Statuses \union {"none"}, status : Statuses \union {"none"}]

ReqType == [Requests -> ReqRecord]

\* What a request knows at its step.
WellFormed(x) ==
  /\ x.step \in {"check", "touch", "handler"} => x.token \in Tokens
  /\ x.step \in {"customer", "reply", "set"} => x.ticket \in Tickets
  /\ x.step = "set" => x.status \in Statuses

RequestsWellFormed == \A r \in Requests : WellFormed(req[r])

TypeInv == TypeOK /\ RequestsWellFormed

Moves(r) == \A q \in Requests : q # r => req'[q] = req[q]

-----------------------------------------------------------------------------
(***************************************************************************)
(* How a request moves.                                                    *)
(***************************************************************************)

LEMMA IdleFacts == Idle \in ReqRecord /\ WellFormed(Idle) /\ Idle.late = FALSE /\ Idle.step = "idle"
<1>1. Idle = [step |-> "idle", token |-> NoToken, admin |-> Nobody, late |-> FALSE,
              ticket |-> NoTicket, seen |-> "none", status |-> "none"]
  BY DEF Idle
<1>2. \A b \in BOOLEAN :
        [step |-> "idle", token |-> NoToken, admin |-> Nobody, late |-> b,
         ticket |-> NoTicket, seen |-> "none", status |-> "none"] \in ReqRecord
  BY DEF ReqRecord, Steps
<1> QED BY <1>1, <1>2 DEF WellFormed

\* A request becomes x.
LEMMA BecomesFacts ==
  ASSUME TypeInv, NEW r \in Requests, NEW x \in ReqRecord, WellFormed(x),
         req' = [req EXCEPT ![r] = x]
  PROVE  req' \in ReqType /\ RequestsWellFormed' /\ Moves(r) /\ req'[r] = x
<1>1. req \in ReqType
  BY DEF TypeInv, TypeOK, ReqType, ReqRecord
<1>2. req' \in ReqType /\ Moves(r) /\ req'[r] = x
  BY <1>1 DEF ReqType, Moves
<1> QED BY <1>2 DEF TypeInv, RequestsWellFormed, Moves

LEMMA AnswerFacts ==
  ASSUME TypeInv, NEW r \in Requests, Answer(r)
  PROVE  req' \in ReqType /\ RequestsWellFormed' /\ Moves(r) /\ req'[r] = Idle
BY IdleFacts, BecomesFacts DEF Answer

LEMMA GoFacts ==
  ASSUME TypeInv, NEW r \in Requests, req[r].step = "touch", Go(r, "handler")
  PROVE  /\ req' \in ReqType /\ RequestsWellFormed' /\ Moves(r)
         /\ req'[r].step = "handler" /\ req'[r].late = req[r].late
<1> DEFINE x == [req[r] EXCEPT !.step = "handler"]
<1>1. req \in ReqType /\ WellFormed(req[r])
  BY DEF TypeInv, TypeOK, RequestsWellFormed, ReqType, ReqRecord
<1>2. x \in ReqRecord /\ x.step = "handler" /\ x.late = req[r].late /\ x.token = req[r].token
  BY <1>1 DEF ReqType, ReqRecord, Steps
<1>3. WellFormed(x)
  BY <1>1, <1>2 DEF WellFormed
<1>4. req' = [req EXCEPT ![r] = x]
  BY <1>1 DEF Go, ReqType
<1> HIDE DEF x
<1> QED BY <1>2, <1>3, <1>4, BecomesFacts

LEMMA LoginFacts ==
  ASSUME TypeInv, NEW r \in Requests, NEW a \in Admins, LoginCheck(r, a)
  PROVE  /\ req' \in ReqType /\ RequestsWellFormed' /\ Moves(r)
         /\ req'[r].late = FALSE
<1> DEFINE x == [Idle EXCEPT !.step = "login", !.admin = a]
<1>1. x \in ReqRecord
  BY IdleFacts DEF ReqRecord, Steps
<1>2. x.step = "login" /\ x.late = FALSE
  BY DEF Idle
<1>3. WellFormed(x)
  BY <1>2 DEF WellFormed
<1> HIDE DEF x
<1> QED BY <1>1, <1>2, <1>3, BecomesFacts DEF LoginCheck, x

LEMMA ArriveFacts ==
  ASSUME TypeInv, NEW r \in Requests, NEW k \in Tokens, Arrive(r, k)
  PROVE  /\ req' \in ReqType /\ RequestsWellFormed' /\ Moves(r)
         /\ req'[r].step = "check" /\ req'[r].token = k
         /\ req'[r].late <=> k \in revoked \/ expires[k] <= now
<1> DEFINE x == [Idle EXCEPT !.step = "check", !.token = k,
                             !.late = k \in revoked \/ expires[k] <= now]
<1>1. x.step = "check" /\ x.token = k /\ (x.late <=> k \in revoked \/ expires[k] <= now)
  BY DEF Idle
<1>2. ASSUME NEW b \in BOOLEAN
      PROVE  [Idle EXCEPT !.step = "check", !.token = k, !.late = b] \in ReqRecord
  BY IdleFacts DEF ReqRecord, Steps
<1>3. (k \in revoked \/ expires[k] <= now) \in BOOLEAN
  OBVIOUS
<1>4. x \in ReqRecord
  BY <1>2, <1>3
<1>5. WellFormed(x)
  BY <1>1 DEF WellFormed
<1>6. req' = [req EXCEPT ![r] = x]
  BY DEF Arrive
<1> HIDE DEF x
<1> QED BY <1>1, <1>4, <1>5, <1>6, BecomesFacts

LEMMA AuthenticateFacts ==
  ASSUME TypeInv, NEW r \in Requests, Authenticate(r)
  PROVE  /\ req' \in ReqType /\ RequestsWellFormed' /\ Moves(r)
         /\ req'[r].step = "touch" /\ req'[r].late = req[r].late
<1> DEFINE x == [req[r] EXCEPT !.step = "touch", !.admin = holder[req[r].token]]
<1>1. req \in ReqType /\ WellFormed(req[r]) /\ holder \in [Tokens -> Admins \union {Nobody}]
  BY DEF TypeInv, TypeOK, RequestsWellFormed, ReqType, ReqRecord
<1>2. holder[req[r].token] \in Admins \union {Nobody}
  BY <1>1 DEF Authenticate, WellFormed
<1>3. x \in ReqRecord /\ x.step = "touch" /\ x.late = req[r].late /\ x.token = req[r].token
  BY <1>1, <1>2 DEF ReqType, ReqRecord, Steps
<1>4. WellFormed(x)
  BY <1>1, <1>3 DEF WellFormed, Authenticate
<1>5. req' = [req EXCEPT ![r] = x]
  BY <1>1 DEF Authenticate, ReqType
<1> HIDE DEF x
<1> QED BY <1>3, <1>4, <1>5, BecomesFacts

LEMMA ReadFacts ==
  ASSUME TypeInv, NEW r \in Requests, NEW t \in Tickets,
         NEW step \in {"customer", "reply", "set"}, NEW new \in Statuses \union {"none"},
         step = "set" => new \in Statuses, Read(r, t, step, new)
  PROVE  /\ req' \in ReqType /\ RequestsWellFormed' /\ Moves(r)
         /\ req'[r].step = step /\ req'[r].late = req[r].late
<1> DEFINE x == [req[r] EXCEPT !.step = step, !.ticket = t, !.seen = status[t], !.status = new]
<1>1. req \in ReqType /\ status[t] \in Statuses \union {"none"}
  BY DEF TypeInv, TypeOK, ReqType, ReqRecord
<1>2. /\ x \in ReqRecord /\ x.step = step /\ x.late = req[r].late
      /\ x.ticket = t /\ x.status = new
  BY <1>1 DEF ReqType, ReqRecord, Steps
<1>3. WellFormed(x)
  BY <1>2 DEF WellFormed
<1>4. req' = [req EXCEPT ![r] = x]
  BY <1>1 DEF Read, ReqType
<1> HIDE DEF x
<1> QED BY <1>2, <1>3, <1>4, BecomesFacts

-----------------------------------------------------------------------------
(***************************************************************************)
(* Type correctness.                                                       *)
(***************************************************************************)

\* The two halves of TypeOK besides the requests.
SessionsOK ==
  /\ enabled \in SUBSET Admins
  /\ holder \in [Tokens -> Admins \union {Nobody}]
  /\ expires \in [Tokens -> Nat]
  /\ revoked \in SUBSET Tokens
  /\ now \in 0..MaxTime /\ faults \in 0..MaxFaults

TicketsOK ==
  /\ status \in [Tickets -> Statuses \union {"none"}]
  /\ closedAt \in SUBSET Tickets /\ reopened \in SUBSET Tickets
  /\ messages \in [Tickets -> 0..MaxMessages]

LEMMA TypeParts == TypeInv <=> SessionsOK /\ TicketsOK /\ req \in ReqType /\ RequestsWellFormed
BY DEF TypeInv, TypeOK, SessionsOK, TicketsOK, ReqType, ReqRecord

LEMMA InitTypeInv == Init => TypeInv
<1> SUFFICES ASSUME Init PROVE SessionsOK /\ TicketsOK /\ req \in ReqType /\ RequestsWellFormed
  BY TypeParts
<1>1. req \in ReqType /\ RequestsWellFormed
  BY IdleFacts DEF Init, InitSessions, ReqType, RequestsWellFormed
<1>2. SessionsOK /\ TicketsOK
  BY SessionsAssumption, SupportAssumption DEF Init, InitSessions, SessionsOK, TicketsOK
<1> QED BY <1>1, <1>2

LEMMA AddMessageType ==
  ASSUME TicketsOK, NEW t \in Tickets, AddMessage(t)
  PROVE  /\ messages' \in [Tickets -> 0..MaxMessages]
         /\ \A x \in Tickets : x # t => messages'[x] = messages[x]
BY SupportAssumption DEF TicketsOK, AddMessage

\* A step of the sessions.
LEMMA SessionsTypeInv ==
  ASSUME TypeInv, NextSessions, UNCHANGED ticketVars
  PROVE  TypeInv'
<1> SUFFICES SessionsOK' /\ TicketsOK' /\ (req \in ReqType)' /\ RequestsWellFormed'
  BY DEF TypeInv, TypeOK, SessionsOK, TicketsOK, ReqType, ReqRecord
<1> SessionsOK /\ TicketsOK /\ req \in ReqType /\ RequestsWellFormed
  BY TypeParts
<1>1. TicketsOK'
  BY DEF TicketsOK, ticketVars
<1>2. CASE \E r \in Requests : \/ Authenticate(r) \/ Touch(r) \/ Unauthorized(r)
                               \/ Logout(r) \/ Abandon(r)
  <2> PICK r \in Requests : \/ Authenticate(r) \/ Touch(r) \/ Unauthorized(r)
                            \/ Logout(r) \/ Abandon(r)
    BY <1>2
  <2>1. req' \in ReqType /\ RequestsWellFormed'
    BY AuthenticateFacts, GoFacts, AnswerFacts DEF Touch, Unauthorized, Logout, Abandon
  <2>2. req[r].step = "handler" => req[r].token \in Tokens
    BY DEF RequestsWellFormed, WellFormed
  <2>3. SessionsOK'
    BY <2>2, SessionsAssumption DEF Authenticate, Touch, Unauthorized, Logout, Abandon, Fault,
       SessionsOK, sessionVars
  <2> QED BY <1>1, <2>1, <2>3
<1>3. CASE \E r \in Requests, k \in Tokens : LoginCreate(r, k) \/ Arrive(r, k)
  <2> PICK r \in Requests, k \in Tokens : LoginCreate(r, k) \/ Arrive(r, k)
    BY <1>3
  <2>1. req' \in ReqType /\ RequestsWellFormed'
    BY ArriveFacts, AnswerFacts DEF LoginCreate
  <2>2. req[r].admin \in Admins \union {Nobody}
    BY DEF ReqType, ReqRecord
  <2>3. SessionsOK'
    BY <2>2, SessionsAssumption DEF LoginCreate, Arrive, SessionsOK, sessionVars
  <2> QED BY <1>1, <2>1, <2>3
<1>4. CASE \E a \in Admins : Disable(a) \/ Enable(a) \/ \E r \in Requests : LoginCheck(r, a)
  <2> PICK a \in Admins : Disable(a) \/ Enable(a) \/ \E r \in Requests : LoginCheck(r, a)
    BY <1>4
  <2>1. req' \in ReqType /\ RequestsWellFormed'
    BY LoginFacts DEF Disable, Enable, RequestsWellFormed
  <2>2. SessionsOK'
    BY DEF Disable, Enable, LoginCheck, SessionsOK, sessionVars
  <2> QED BY <1>1, <2>1, <2>2
<1>5. CASE Tick
  BY <1>1, <1>5, SessionsAssumption DEF Tick, SessionsOK, sessionVars, RequestsWellFormed
<1> QED BY <1>2, <1>3, <1>4, <1>5 DEF NextSessions

\* A step of a handler.
Handlers ==
  \/ \E t \in Tickets : Create(t)
  \/ \E r \in Requests :
       \/ CustomerReply(r) \/ ReplyFromAdmin(r) \/ UpdateStatus(r)
       \/ \E t \in Tickets :
            \/ CustomerRead(r, t) \/ ReplyRead(r, t)
            \/ \E new \in Statuses : StatusRead(r, t, new)

LEMMA HandlersLeaveSessions ==
  ASSUME Handlers
  PROVE  UNCHANGED <<sessionVars, now, faults>>
<1>1. ASSUME NEW t \in Tickets, Create(t)
      PROVE  UNCHANGED <<sessionVars, now, faults>>
  BY <1>1 DEF Create
<1>2. ASSUME NEW r \in Requests, CustomerReply(r) \/ ReplyFromAdmin(r) \/ UpdateStatus(r)
      PROVE  UNCHANGED <<sessionVars, now, faults>>
  BY <1>2 DEF CustomerReply, ReplyFromAdmin, UpdateStatus
<1>3. ASSUME NEW r \in Requests, NEW t \in Tickets,
             \/ CustomerRead(r, t) \/ ReplyRead(r, t)
             \/ \E new \in Statuses : StatusRead(r, t, new)
      PROVE  UNCHANGED <<sessionVars, now, faults>>
  BY <1>3 DEF CustomerRead, ReplyRead, StatusRead, Read
<1> QED BY <1>1, <1>2, <1>3 DEF Handlers

LEMMA HandlersTypeInv ==
  ASSUME TypeInv, Handlers
  PROVE  TypeInv'
<1> SUFFICES SessionsOK' /\ TicketsOK' /\ (req \in ReqType)' /\ RequestsWellFormed'
  BY DEF TypeInv, TypeOK, SessionsOK, TicketsOK, ReqType, ReqRecord
<1> SessionsOK /\ TicketsOK /\ req \in ReqType /\ RequestsWellFormed
  BY TypeParts
<1>1. SessionsOK'
  <2>1. UNCHANGED <<sessionVars, now, faults>>
    BY HandlersLeaveSessions
  <2> QED BY <2>1 DEF SessionsOK, sessionVars
<1>2. ASSUME NEW t \in Tickets, Create(t)
      PROVE  TicketsOK' /\ (req \in ReqType)' /\ RequestsWellFormed'
  <2>1. messages' \in [Tickets -> 0..MaxMessages]
    BY <1>2, AddMessageType DEF Create
  <2> QED BY <1>2, <2>1 DEF Create, TicketsOK, Statuses, RequestsWellFormed
<1>3. ASSUME NEW r \in Requests, CustomerReply(r) \/ ReplyFromAdmin(r) \/ UpdateStatus(r)
      PROVE  TicketsOK' /\ (req \in ReqType)' /\ RequestsWellFormed'
  <2>1. req' \in ReqType /\ RequestsWellFormed'
    BY <1>3, AnswerFacts DEF CustomerReply, ReplyFromAdmin, UpdateStatus
  <2>2. req[r].ticket \in Tickets
    BY <1>3 DEF CustomerReply, ReplyFromAdmin, UpdateStatus, RequestsWellFormed, WellFormed
  <2>3. CASE CustomerReply(r)
    <3>1. messages' \in [Tickets -> 0..MaxMessages]
      BY <2>2, <2>3, AddMessageType DEF CustomerReply
    <3> QED BY <2>1, <2>3, <3>1 DEF CustomerReply, TicketsOK
  <2>4. CASE ReplyFromAdmin(r)
    <3>1. messages' \in [Tickets -> 0..MaxMessages]
      BY <2>2, <2>4, AddMessageType DEF ReplyFromAdmin
    <3> QED BY <2>1, <2>2, <2>4, <3>1 DEF ReplyFromAdmin, TicketsOK, Statuses
  <2>5. CASE UpdateStatus(r)
    <3>1. req[r].status \in Statuses
      BY <2>5 DEF UpdateStatus, RequestsWellFormed, WellFormed
    <3> QED BY <2>1, <2>2, <2>5, <3>1 DEF UpdateStatus, TicketsOK
  <2> QED BY <1>3, <2>3, <2>4, <2>5
<1>4. ASSUME NEW r \in Requests, NEW t \in Tickets,
             \/ CustomerRead(r, t) \/ ReplyRead(r, t)
             \/ \E new \in Statuses : StatusRead(r, t, new)
      PROVE  TicketsOK' /\ (req \in ReqType)' /\ RequestsWellFormed'
  <2>1. req' \in ReqType /\ RequestsWellFormed'
    BY <1>4, ReadFacts DEF CustomerRead, ReplyRead, StatusRead
  <2>2. TicketsOK'
    BY <1>4 DEF CustomerRead, ReplyRead, StatusRead, Read, TicketsOK, ticketVars
  <2> QED BY <2>1, <2>2
<1> QED BY <1>1, <1>2, <1>3, <1>4 DEF Handlers

LEMMA StepTypeInv == TypeInv /\ [Next]_vars => TypeInv'
<1> SUFFICES ASSUME TypeInv, [Next]_vars PROVE TypeInv'
  OBVIOUS
<1>1. CASE UNCHANGED vars
  BY <1>1 DEF vars, sessionVars, ticketVars, TypeInv, TypeOK, RequestsWellFormed
<1>2. CASE Next
  BY <1>2, SessionsTypeInv, HandlersTypeInv DEF Next, Handlers
<1> QED BY <1>1, <1>2

LEMMA TypeInvariant == Spec => []TypeInv
BY InitTypeInv, StepTypeInv, PTL DEF Spec

\* Every session, ticket and request has the values the code can give it.
THEOREM TypeCorrect == Spec => []TypeOK
<1>1. TypeInv => TypeOK
  BY DEF TypeInv
<1> QED BY <1>1, TypeInvariant, PTL

-----------------------------------------------------------------------------
(***************************************************************************)
(* Tickets.                                                                *)
(***************************************************************************)

LEMMA StepClosedAt ==
  ASSUME TypeInv, ClosedAtIsOfClosing, [Next]_vars
  PROVE  ClosedAtIsOfClosing'
<1> SUFFICES ASSUME NEW t \in Tickets
             PROVE  t \in closedAt' <=> status'[t] = "closed" \/ t \in reopened'
  BY DEF ClosedAtIsOfClosing
<1>1. (t \in closedAt <=> status[t] = "closed" \/ t \in reopened) /\ TicketsOK
  BY TypeParts DEF ClosedAtIsOfClosing
<1>2. CASE UNCHANGED <<status, closedAt, reopened>>
  BY <1>1, <1>2
<1>3. ASSUME NEW x \in Tickets, Create(x)
      PROVE  t \in closedAt' <=> status'[t] = "closed" \/ t \in reopened'
  BY <1>1, <1>3 DEF Create, TicketsOK
<1>4. ASSUME NEW r \in Requests, ReplyFromAdmin(r)
      PROVE  t \in closedAt' <=> status'[t] = "closed" \/ t \in reopened'
  BY <1>1, <1>4 DEF ReplyFromAdmin, TicketsOK
<1>5. ASSUME NEW r \in Requests, UpdateStatus(r)
      PROVE  t \in closedAt' <=> status'[t] = "closed" \/ t \in reopened'
  BY <1>1, <1>5 DEF UpdateStatus, TicketsOK
<1>6. ASSUME NEW r \in Requests, CustomerReply(r)
      PROVE  UNCHANGED <<status, closedAt, reopened>>
  BY <1>6 DEF CustomerReply
<1>7. ASSUME NEW r \in Requests, NEW x \in Tickets,
             \/ CustomerRead(r, x) \/ ReplyRead(r, x)
             \/ \E new \in Statuses : StatusRead(r, x, new)
      PROVE  UNCHANGED <<status, closedAt, reopened>>
  BY <1>7 DEF CustomerRead, ReplyRead, StatusRead, Read, ticketVars
<1>8. CASE UNCHANGED vars \/ UNCHANGED ticketVars
  BY <1>2, <1>8 DEF vars, ticketVars
<1> QED BY <1>2, <1>3, <1>4, <1>5, <1>6, <1>7, <1>8 DEF Next

\* A ticket has closed_at if and only if it is closed, but for one whose
\* closing a reply that had read it open has overwritten.
THEOREM ClosedAtTellsOfClosing == Spec => []ClosedAtIsOfClosing
<1>1. Init => ClosedAtIsOfClosing
  BY DEF Init, ClosedAtIsOfClosing
<1> QED BY <1>1, StepClosedAt, TypeInvariant, PTL DEF Spec

-----------------------------------------------------------------------------
(***************************************************************************)
(* Sessions.  A request that arrived late does not get past Authenticate:  *)
(* its session, once over, stays over.                                     *)
(***************************************************************************)

Over(k) == holder[k] # Nobody /\ (k \in revoked \/ expires[k] <= now)

LateStopped == \A r \in Requests : req[r].late => req[r].step = "check" /\ Over(req[r].token)

LEMMA StaysOver ==
  ASSUME TypeInv, [Next]_vars, NEW k \in Tokens, Over(k)
  PROVE  Over(k)' /\ revoked \subseteq revoked'
<1> USE TypeParts DEF SessionsOK
<1>1. CASE UNCHANGED <<sessionVars, now>>
  BY <1>1 DEF sessionVars, Over
<1>2. ASSUME NEW r \in Requests, NEW x \in Tokens, LoginCreate(r, x)
      PROVE  Over(k)' /\ revoked \subseteq revoked'
  BY <1>2 DEF LoginCreate, Over
<1>3. ASSUME NEW r \in Requests, Logout(r)
      PROVE  Over(k)' /\ revoked \subseteq revoked'
  BY <1>3 DEF Logout, Over
<1>4. ASSUME NEW a \in Admins, Disable(a) \/ Enable(a)
      PROVE  Over(k)' /\ revoked \subseteq revoked'
  BY <1>4 DEF Disable, Enable, Over
<1>5. CASE Tick
  BY <1>5 DEF Tick, sessionVars, Over
<1>6. CASE NextSessions
  <2>1. ASSUME NEW r \in Requests, Authenticate(r) \/ Touch(r) \/ Unauthorized(r) \/ Abandon(r)
        PROVE  UNCHANGED <<sessionVars, now>>
    BY <2>1 DEF Authenticate, Touch, Unauthorized, Abandon
  <2>2. ASSUME NEW r \in Requests, NEW x \in Tokens, Arrive(r, x)
        PROVE  UNCHANGED <<sessionVars, now>>
    BY <2>2 DEF Arrive
  <2>3. ASSUME NEW r \in Requests, NEW a \in Admins, LoginCheck(r, a)
        PROVE  UNCHANGED <<sessionVars, now>>
    BY <2>3 DEF LoginCheck
  <2> QED BY <1>1, <1>2, <1>3, <1>4, <1>5, <1>6, <2>1, <2>2, <2>3 DEF NextSessions
<1>7. CASE Handlers
  BY <1>1, <1>7, HandlersLeaveSessions
<1>8. CASE UNCHANGED vars
  BY <1>1, <1>8 DEF vars
<1> QED BY <1>1, <1>6, <1>7, <1>8 DEF Next, Handlers

\* A request that changes: which, and how it changes.
LEMMA OneMoves ==
  ASSUME TypeInv, Next, NEW q \in Requests, req'[q] # req[q]
  PROVE  \/ req'[q].late = FALSE
         \/ \E k \in Tokens : Arrive(q, k)
         \/ Authenticate(q)
         \/ req[q].step # "check" /\ req'[q].late = req[q].late
<1> SUFFICES ASSUME req'[q].late # FALSE, ~Authenticate(q), \A k \in Tokens : ~Arrive(q, k)
             PROVE  req[q].step # "check" /\ req'[q].late = req[q].late
  OBVIOUS
<1>1. ASSUME NEW r \in Requests, Answer(r)
      PROVE  FALSE
  BY <1>1, AnswerFacts, IdleFacts DEF Moves
<1>2. ASSUME NEW r \in Requests, NEW a \in Admins, LoginCheck(r, a)
      PROVE  FALSE
  BY <1>2, LoginFacts DEF Moves
<1>3. ASSUME NEW r \in Requests, Touch(r)
      PROVE  req[q].step # "check" /\ req'[q].late = req[q].late
  BY <1>3, GoFacts DEF Touch, Moves
<1>4. ASSUME NEW r \in Requests, NEW t \in Tickets,
             \/ CustomerRead(r, t) \/ ReplyRead(r, t)
             \/ \E new \in Statuses : StatusRead(r, t, new)
      PROVE  req[q].step # "check" /\ req'[q].late = req[q].late
  <2>1. Moves(r) /\ req'[r].late = req[r].late /\ req[r].step # "check"
    BY <1>4, ReadFacts DEF CustomerRead, ReplyRead, StatusRead
  <2> QED BY <2>1 DEF Moves
<1>5. ASSUME NEW r \in Requests, Authenticate(r)
      PROVE  FALSE
  BY <1>5, AuthenticateFacts DEF Moves
<1>6. ASSUME NEW r \in Requests, NEW k \in Tokens, Arrive(r, k)
      PROVE  FALSE
  BY <1>6, ArriveFacts DEF Moves
<1>7. CASE UNCHANGED req
  BY <1>7
<1> QED BY <1>1, <1>2, <1>3, <1>4, <1>5, <1>6, <1>7
        DEF Next, NextSessions, Create, CustomerReply, ReplyFromAdmin, UpdateStatus,
            Unauthorized, Logout, Abandon, LoginCreate, Disable, Enable, Tick

LEMMA StepLateStopped ==
  ASSUME TypeInv, LateStopped, [Next]_vars
  PROVE  LateStopped'
<1> SUFFICES ASSUME NEW q \in Requests, req'[q].late, NEW k, k = req'[q].token
             PROVE  req'[q].step = "check" /\ Over(k)'
  BY DEF LateStopped, Over
<1>1. CASE req'[q] = req[q]
  <2>1. req[q].step = "check" /\ Over(k) /\ k \in Tokens
    BY <1>1 DEF LateStopped, TypeInv, RequestsWellFormed, WellFormed
  <2> QED BY <1>1, <2>1, StaysOver
<1>2. CASE req'[q] # req[q]
  <2>1. Next
    BY <1>2 DEF vars
  <2>2. CASE \E x \in Tokens : Arrive(q, x)
    <3>1. PICK x \in Tokens : Arrive(q, x)
      BY <2>2
    <3>2. x = k /\ req'[q].step = "check" /\ (k \in revoked \/ expires[k] <= now)
      BY <3>1, ArriveFacts
    <3> QED BY <3>1, <3>2 DEF Arrive, Over, sessionVars
  <2>3. CASE Authenticate(q)
    <3>1. req[q].late /\ req[q].step = "check" /\ Over(req[q].token) /\ req[q].token \in Tokens
      BY <2>3, AuthenticateFacts DEF LateStopped, TypeInv, RequestsWellFormed, WellFormed
    <3>2. expires[req[q].token] \in Nat /\ now \in Nat
      BY <3>1, SessionsAssumption DEF TypeInv, TypeOK
    <3> QED BY <2>3, <3>1, <3>2 DEF Authenticate, Over
  <2>4. CASE req[q].step # "check" /\ req'[q].late = req[q].late
    BY <2>4 DEF LateStopped
  <2> QED BY <1>2, <2>1, <2>2, <2>3, <2>4, OneMoves
<1> QED BY <1>1, <1>2

LEMMA LateInvariant == Spec => [](TypeInv /\ LateStopped)
<1>1. Init => LateStopped
  BY IdleFacts DEF Init, InitSessions, LateStopped
<1> QED BY <1>1, InitTypeInv, StepTypeInv, StepLateStopped, PTL DEF Spec

LEMMA StepLogoutIsFinal ==
  ASSUME TypeInv, LateStopped, Next
  PROVE  /\ revoked \subseteq revoked'
         /\ \A t \in Tickets : messages'[t] # messages[t] \/ status'[t] # status[t] =>
              ~ \E r \in Requests : req[r].late /\ req'[r] # req[r]
<1>1. revoked \subseteq revoked'
  <2>1. CASE Handlers
    BY <2>1, HandlersLeaveSessions DEF sessionVars
  <2>2. CASE NextSessions
    BY <2>2 DEF NextSessions, sessionVars, Authenticate, Touch, Unauthorized, Logout, Abandon,
       LoginCreate, Arrive, Disable, Enable, LoginCheck, Tick
  <2> QED BY <2>1, <2>2 DEF Next, Handlers
<1>2. ASSUME NEW t \in Tickets, messages'[t] # messages[t] \/ status'[t] # status[t],
             NEW r \in Requests, req[r].late, req'[r] # req[r]
      PROVE  FALSE
  <2>1. req[r].step = "check"
    BY <1>2 DEF LateStopped
  <2>2. ASSUME UNCHANGED <<messages, status>>
        PROVE  FALSE
    BY <1>2, <2>2
  <2>3. ASSUME NEW q \in Requests, CustomerReply(q) \/ ReplyFromAdmin(q) \/ UpdateStatus(q)
        PROVE  FALSE
    <3>1. Moves(q) /\ q # r
      BY <2>1, <2>3, AnswerFacts DEF CustomerReply, ReplyFromAdmin, UpdateStatus
    <3> QED BY <1>2, <3>1 DEF Moves
  <2>4. ASSUME NEW x \in Tickets, Create(x)
        PROVE  FALSE
    BY <1>2, <2>4 DEF Create
  <2>5. ASSUME NEW q \in Requests, NEW x \in Tickets,
               \/ CustomerRead(q, x) \/ ReplyRead(q, x)
               \/ \E new \in Statuses : StatusRead(q, x, new)
        PROVE  UNCHANGED <<messages, status>>
    BY <2>5 DEF CustomerRead, ReplyRead, StatusRead, Read, ticketVars
  <2>6. CASE UNCHANGED ticketVars
    BY <2>2, <2>6 DEF ticketVars
  <2> QED BY <2>2, <2>3, <2>4, <2>5, <2>6 DEF Next
<1> QED BY <1>1, <1>2

\* A session that is over stays over, and no request that arrives afterwards
\* changes a ticket.
THEOREM NothingAfterLogout == Spec => LogoutIsFinal
<1>1. TypeInv /\ LateStopped /\ [Next]_vars =>
        [/\ revoked \subseteq revoked'
         /\ \A t \in Tickets : messages'[t] # messages[t] \/ status'[t] # status[t] =>
              ~ \E r \in Requests : req[r].late /\ req'[r] # req[r]]_vars
  BY StepLogoutIsFinal
<1> QED BY <1>1, LateInvariant, PTL DEF Spec, LogoutIsFinal
-----------------------------------------------------------------------------
(***************************************************************************)
(* Tickets of which no two requests are at work at a time: what a request  *)
(* has read of its ticket is still so when it writes.                      *)
(***************************************************************************)

AtTicket(r) == req[r].step \in {"customer", "reply", "set"}

TicketsApart ==
  \A r, q \in Requests :
    AtTicket(r) /\ AtTicket(q) /\ req[r].ticket = req[q].ticket => r = q

\* No closing has been overwritten, and a request finds the status it has read.
\* A reply is of a ticket that was not closed.
SeenIsCurrent ==
  /\ reopened = {}
  /\ \A r \in Requests :
       AtTicket(r) => /\ req[r].seen = status[req[r].ticket]
                      /\ req[r].step # "set" => req[r].seen # "closed"
                      /\ req[r].seen # "none"

LEMMA ReadSeen ==
  ASSUME TypeInv, NEW r \in Requests, NEW t \in Tickets, NEW step, NEW new,
         Read(r, t, step, new)
  PROVE  /\ req'[r].step = step /\ req'[r].ticket = t /\ req'[r].seen = status[t]
         /\ \A q \in Requests \ {r} : req'[q] = req[q]
         /\ status[t] # "none" /\ UNCHANGED ticketVars
BY DEF Read, TypeInv, TypeOK

\* A request that is at a ticket is there since it read it.
LEMMA StepAtTicket ==
  ASSUME TypeInv, NextSessions, NEW q \in Requests, AtTicket(q)'
  PROVE  req'[q] = req[q]
<1>1. ASSUME NEW r \in Requests, Moves(r), req'[r].step \notin {"customer", "reply", "set"}
      PROVE  req'[q] = req[q]
  BY <1>1 DEF Moves, AtTicket
<1>2. ASSUME NEW r \in Requests, Answer(r)
      PROVE  req'[q] = req[q]
  BY <1>1, <1>2, AnswerFacts, IdleFacts
<1>3. ASSUME NEW r \in Requests, Authenticate(r) \/ Touch(r)
      PROVE  req'[q] = req[q]
  <2>1. Moves(r) /\ req'[r].step \in {"touch", "handler"}
    BY <1>3, AuthenticateFacts, GoFacts DEF Touch
  <2> QED BY <1>1, <2>1
<1>4. ASSUME NEW r \in Requests, NEW k \in Tokens, Arrive(r, k)
      PROVE  req'[q] = req[q]
  <2>1. Moves(r) /\ req'[r].step = "check"
    BY <1>4, ArriveFacts
  <2> QED BY <1>1, <2>1
<1>5. ASSUME NEW r \in Requests, NEW a \in Admins, LoginCheck(r, a)
      PROVE  req'[q] = req[q]
  <2>1. Moves(r) /\ req'[r].step = "login"
    BY <1>5, LoginFacts DEF LoginCheck, Idle, TypeInv, TypeOK
  <2> QED BY <1>1, <2>1
<1>6. UNCHANGED req => req'[q] = req[q]
  OBVIOUS
<1> QED BY <1>2, <1>3, <1>4, <1>5, <1>6
        DEF NextSessions, Unauthorized, Logout, Abandon, LoginCreate, Disable, Enable, Tick

LEMMA StepSeenIsCurrent ==
  ASSUME TypeInv, TicketsApart, SeenIsCurrent, [Next]_vars
  PROVE  SeenIsCurrent'
<1>1. CASE UNCHANGED vars
  BY <1>1 DEF vars, ticketVars, SeenIsCurrent, AtTicket
<1>2. CASE NextSessions /\ UNCHANGED ticketVars
  BY <1>2, StepAtTicket DEF ticketVars, SeenIsCurrent, AtTicket
<1>3. ASSUME NEW t \in Tickets, Create(t)
      PROVE  SeenIsCurrent'
  BY <1>3 DEF Create, SeenIsCurrent, AtTicket, TypeInv, TypeOK, RequestsWellFormed, WellFormed
<1>4. ASSUME NEW r \in Requests, CustomerReply(r) \/ ReplyFromAdmin(r) \/ UpdateStatus(r)
      PROVE  SeenIsCurrent'
  <2>1. Moves(r) /\ ~AtTicket(r)' /\ AtTicket(r)
    BY <1>4, AnswerFacts, IdleFacts DEF CustomerReply, ReplyFromAdmin, UpdateStatus, AtTicket
  <2>2. \A q \in Requests \ {r} : AtTicket(q) => req[q].ticket # req[r].ticket /\ req[q].ticket \in Tickets
    BY <2>1 DEF TicketsApart, AtTicket, TypeInv, RequestsWellFormed, WellFormed
  <2>3. /\ reopened' = {}
        /\ \A t \in Tickets : t # req[r].ticket => status'[t] = status[t]
    BY <1>4, <2>1
       DEF CustomerReply, ReplyFromAdmin, UpdateStatus, SeenIsCurrent, TypeInv, TypeOK
  <2> QED BY <2>1, <2>2, <2>3 DEF Moves, SeenIsCurrent, AtTicket
<1>5. ASSUME NEW r \in Requests, NEW t \in Tickets,
             CustomerRead(r, t) \/ ReplyRead(r, t)
      PROVE  SeenIsCurrent'
  <2>1. status[t] # "closed" /\ \E step : Read(r, t, step, "none")
    BY <1>5 DEF CustomerRead, ReplyRead
  <2>2. /\ req'[r].ticket = t /\ req'[r].seen = status[t]
        /\ \A q \in Requests \ {r} : req'[q] = req[q]
        /\ status[t] # "none" /\ UNCHANGED ticketVars
    BY <2>1, ReadSeen
  <2> QED BY <2>1, <2>2 DEF SeenIsCurrent, AtTicket, ticketVars
<1>6. ASSUME NEW r \in Requests, NEW t \in Tickets, NEW new \in Statuses, StatusRead(r, t, new)
      PROVE  SeenIsCurrent'
  <2>1. /\ req'[r].step = "set" /\ req'[r].ticket = t /\ req'[r].seen = status[t]
        /\ \A q \in Requests \ {r} : req'[q] = req[q]
        /\ status[t] # "none" /\ UNCHANGED ticketVars
    BY <1>6, ReadSeen DEF StatusRead
  <2> QED BY <2>1 DEF SeenIsCurrent, AtTicket, ticketVars
<1> QED BY <1>1, <1>2, <1>3, <1>4, <1>5, <1>6 DEF Next

\* When no two requests are at work on the same ticket, it has closed_at if
\* and only if it is closed, and a closed ticket gets no message:
\* ClosedAtIsOfClosing without its exception, and what the check of the status
\* in ReplyFromTelegram and ReplyFromAdmin is there for.
THEOREM ClosedIfApart ==
  Spec /\ []TicketsApart =>
    /\ [](\A t \in Tickets : t \in closedAt <=> status[t] = "closed")
    /\ [][\A t \in Tickets : status[t] = "closed" => messages'[t] = messages[t]]_vars
<1>1. Init => SeenIsCurrent
  BY IdleFacts DEF Init, InitSessions, SeenIsCurrent, AtTicket
<1>2. ClosedAtIsOfClosing /\ SeenIsCurrent =>
        \A t \in Tickets : t \in closedAt <=> status[t] = "closed"
  BY DEF ClosedAtIsOfClosing, SeenIsCurrent
<1>3. ASSUME TypeInv, SeenIsCurrent, Next, NEW t \in Tickets, status[t] = "closed"
      PROVE  messages'[t] = messages[t]
  <2>1. ASSUME NEW r \in Requests, CustomerReply(r) \/ ReplyFromAdmin(r)
        PROVE  messages'[t] = messages[t]
    <3>1. AddMessage(req[r].ticket) /\ req[r].step \in {"customer", "reply"}
      BY <2>1 DEF CustomerReply, ReplyFromAdmin
    <3>2. status[req[r].ticket] # "closed"
      BY <3>1, <1>3 DEF SeenIsCurrent, AtTicket
    <3> QED BY <1>3, <3>1, <3>2 DEF AddMessage, TypeInv, TypeOK
  <2>2. ASSUME NEW x \in Tickets, Create(x)
        PROVE  messages'[t] = messages[t]
    BY <1>3, <2>2 DEF Create, AddMessage, TypeInv, TypeOK
  <2>3. ASSUME NEW r \in Requests, NEW x \in Tickets,
               \/ CustomerRead(r, x) \/ ReplyRead(r, x)
               \/ \E new \in Statuses : StatusRead(r, x, new)
        PROVE  messages' = messages
    BY <2>3 DEF CustomerRead, ReplyRead, StatusRead, Read, ticketVars
  <2>4. UNCHANGED ticketVars \/ (\E r \in Requests : UpdateStatus(r)) => messages' = messages
    BY DEF UpdateStatus, ticketVars
  <2> QED BY <1>3, <2>1, <2>2, <2>3, <2>4 DEF Next
<1>4. TypeInv /\ SeenIsCurrent /\ [Next]_vars =>
        [\A t \in Tickets : status[t] = "closed" => messages'[t] = messages[t]]_vars
  BY <1>3
<1>5. TypeInv /\ TicketsApart /\ SeenIsCurrent /\ [Next]_vars => SeenIsCurrent'
  BY StepSeenIsCurrent
<1> QED BY <1>1, <1>2, <1>4, <1>5, TypeInvariant, ClosedAtTellsOfClosing, PTL DEF Spec
=============================================================================
