------------------------------- MODULE Support -------------------------------
(***************************************************************************)
(* The support tickets: a customer opens one and replies, administrators   *)
(* reply and set its status.  Every handler reads the ticket and writes    *)
(* later, by its id, whatever its status is by then: so a reply may reach  *)
(* a closed ticket, and an administrator's first reply reopens it.         *)
(*                                                                         *)
(* The administrators' handlers run behind the sessions of Sessions.  A    *)
(* customer's requests come from the bot, for his own tickets only.        *)
(***************************************************************************)
EXTENDS Sessions

CONSTANT MaxMessages  \* bound: messages of a ticket

ASSUME SupportAssumption == MaxMessages \in Nat

VARIABLES
  status,    \* "none" if there is no such ticket yet
  closedAt,  \* tickets with closed_at
  messages,  \* how many
  reopened   \* history: tickets whose closing a reply has overwritten

ticketVars == <<status, closedAt, messages, reopened>>
vars == <<sessionVars, now, faults, req, ticketVars>>

Statuses == {"open", "in_progress", "closed"}
Steps == {"idle", "login", "check", "touch", "handler", "customer", "reply", "set"}

Init ==
  /\ InitSessions
  /\ status = [t \in Tickets |-> "none"]
  /\ closedAt = {}
  /\ messages = [t \in Tickets |-> 0]
  /\ reopened = {}

AddMessage(t) ==
  /\ messages[t] < MaxMessages
  /\ messages' = [messages EXCEPT ![t] = @ + 1]

\* CreateFromTelegram, CreateTicket.
Create(t) ==
  /\ status[t] = "none"
  /\ status' = [status EXCEPT ![t] = "open"]
  /\ AddMessage(t)
  /\ UNCHANGED <<sessionVars, now, faults, req, closedAt, reopened>>

\* A request goes on to step with the ticket it has read.
Read(r, t, step, new) ==
  /\ status[t] # "none"
  /\ req' = [req EXCEPT ![r].step = step, ![r].ticket = t, ![r].seen = status[t],
                        ![r].status = new]
  /\ UNCHANGED <<sessionVars, now, faults, ticketVars>>

\* ReplyFromTelegram of a ticket that is not closed.
CustomerRead(r, t) ==
  /\ req[r].step = "idle"
  /\ status[t] # "closed"
  /\ Read(r, t, "customer", "none")

CustomerReply(r) ==
  /\ req[r].step = "customer"
  /\ AddMessage(req[r].ticket)
  /\ Answer(r)
  /\ UNCHANGED <<sessionVars, now, faults, status, closedAt, reopened>>

\* ReplyFromAdmin of a ticket that is not closed.
ReplyRead(r, t) ==
  /\ req[r].step = "handler"
  /\ status[t] # "closed"
  /\ Read(r, t, "reply", "none")

\* The transaction: an open ticket is now in progress.
ReplyFromAdmin(r) ==
  LET t == req[r].ticket IN
  /\ req[r].step = "reply"
  /\ AddMessage(t)
  /\ IF req[r].seen = "open"
       THEN /\ status' = [status EXCEPT ![t] = "in_progress"]
            /\ reopened' = IF status[t] = "closed" THEN reopened \union {t} ELSE reopened
       ELSE UNCHANGED <<status, reopened>>
  /\ Answer(r)
  /\ UNCHANGED <<sessionVars, now, faults, closedAt>>

\* UpdateStatus, from any status to any.
StatusRead(r, t, new) ==
  /\ req[r].step = "handler"
  /\ Read(r, t, "set", new)

\* Mistake: closed_at is written on closing only.
UpdateKeepingClosedAt(r) ==
  LET t == req[r].ticket IN
  /\ req[r].step = "set"
  /\ status' = [status EXCEPT ![t] = req[r].status]
  /\ closedAt' = IF req[r].status = "closed" THEN closedAt \union {t} ELSE closedAt
  /\ reopened' = reopened \ {t}
  /\ Answer(r)
  /\ UNCHANGED <<sessionVars, now, faults, messages>>

\* Mistake: an unknown status is stored.
UpdateUnvalidated(r) ==
  /\ req[r].step = "set"
  /\ status' = [status EXCEPT ![req[r].ticket] = "resolved"]
  /\ Answer(r)
  /\ UNCHANGED <<sessionVars, now, faults, messages, closedAt, reopened>>

\* The transaction; closed_at is cleared unless the new status is closed.
UpdateStatus(r) ==
  LET t == req[r].ticket IN
  /\ req[r].step = "set"
  /\ status' = [status EXCEPT ![t] = req[r].status]
  /\ closedAt' = IF req[r].status = "closed" THEN closedAt \union {t}
                                             ELSE closedAt \ {t}
  /\ reopened' = reopened \ {t}
  /\ Answer(r)
  /\ UNCHANGED <<sessionVars, now, faults, messages>>

Next ==
  \/ NextSessions /\ UNCHANGED ticketVars
  \/ \E t \in Tickets : Create(t)
  \/ \E r \in Requests :
       \/ CustomerReply(r) \/ ReplyFromAdmin(r) \/ UpdateStatus(r)
       \/ \E t \in Tickets :
            \/ CustomerRead(r, t) \/ ReplyRead(r, t)
            \/ \E new \in Statuses : StatusRead(r, t, new)

Spec == Init /\ [][Next]_vars

-----------------------------------------------------------------------------
(***************************************************************************)
(* Properties                                                              *)
(***************************************************************************)

\* Every session, ticket and request has the values the code can give it.
TypeOK ==
  /\ enabled \in SUBSET Admins
  /\ holder \in [Tokens -> Admins \union {Nobody}]
  /\ expires \in [Tokens -> Nat]
  /\ revoked \in SUBSET Tokens
  /\ now \in 0..MaxTime /\ faults \in 0..MaxFaults
  /\ status \in [Tickets -> Statuses \union {"none"}]
  /\ closedAt \in SUBSET Tickets /\ reopened \in SUBSET Tickets
  /\ messages \in [Tickets -> 0..MaxMessages]
  /\ req \in [Requests ->
       [step : Steps, token : Tokens \union {NoToken},
        admin : Admins \union {Nobody}, late : BOOLEAN,
        ticket : Tickets \union {NoTicket},
        seen : Statuses \union {"none"}, status : Statuses \union {"none"}]]

\* A session that is over stays over, and no request that arrives afterwards
\* changes a ticket, however many requests with its token are being served.
LogoutIsFinal ==
  [][/\ revoked \subseteq revoked'
     /\ \A t \in Tickets : messages'[t] # messages[t] \/ status'[t] # status[t] =>
          ~ \E r \in Requests : req[r].late /\ req'[r] # req[r]]_vars

\* A ticket has closed_at if and only if it is closed, however replies and
\* changes of its status overlap, but for one whose closing was overwritten by
\* an administrator's reply that had read it open; until its status is set.
ClosedAtIsOfClosing ==
  \A t \in Tickets : t \in closedAt <=> status[t] = "closed" \/ t \in reopened
=============================================================================
