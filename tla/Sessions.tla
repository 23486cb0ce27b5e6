------------------------------ MODULE Sessions ------------------------------
(***************************************************************************)
(* The sessions of the administrators, and the middleware that lets a      *)
(* request with a session's token pass to its handler.                     *)
(*                                                                         *)
(* A token is checked once, when the request arrives; the handler runs     *)
(* afterwards, whatever becomes of the session.  Module Support has the     *)
(* handlers, and all that is left to do in the next-state relation.        *)
(***************************************************************************)
EXTENDS Integers

CONSTANTS Admins, Nobody,
          Tokens, NoToken,  \* session tokens: each is generated once
          Tickets, NoTicket,
          Requests,         \* HTTP requests being served
          TTL,              \* cfg.SessionTTL
          MaxTime,          \* bound: time
          MaxFaults         \* bound: crashes and failed transactions

\* Definitions marked "Mistake" are not part of the specification.

ASSUME SessionsAssumption ==
  /\ Nobody \notin Admins /\ NoToken \notin Tokens /\ NoTicket \notin Tickets
  /\ TTL \in Nat /\ MaxTime \in Nat /\ MaxFaults \in Nat

VARIABLES
  enabled,  \* administrators whose status is "active"
  holder,   \* whose the session with a token is
  expires,  \* expires_at
  revoked,  \* sessions with revoked_at
  now, faults,
  req       \* each request: see Idle

sessionVars == <<enabled, holder, expires, revoked>>

\* late: when it arrived, its session was revoked or had expired.
\* ticket, seen, status: see Support.
Idle == [step |-> "idle", token |-> NoToken, admin |-> Nobody, late |-> FALSE,
         ticket |-> NoTicket, seen |-> "none", status |-> "none"]

Answer(r) == req' = [req EXCEPT ![r] = Idle]

Go(r, step) == req' = [req EXCEPT ![r].step = step]

Fault == faults < MaxFaults /\ faults' = faults + 1

InitSessions ==
  /\ enabled = Admins
  /\ holder = [k \in Tokens |-> Nobody]
  /\ expires = [k \in Tokens |-> 0]
  /\ revoked = {}
  /\ now = 0 /\ faults = 0
  /\ req = [r \in Requests |-> Idle]

\* Login: an active administrator with his password.
LoginCheck(r, a) ==
  /\ req[r].step = "idle"
  /\ a \in enabled
  /\ req' = [req EXCEPT ![r] = [Idle EXCEPT !.step = "login", !.admin = a]]
  /\ UNCHANGED <<sessionVars, now, faults>>

\* The transaction.
LoginCreate(r, k) ==
  /\ req[r].step = "login"
  /\ holder[k] = Nobody
  /\ holder' = [holder EXCEPT ![k] = req[r].admin]
  /\ expires' = [expires EXCEPT ![k] = now + TTL]
  /\ Answer(r)
  /\ UNCHANGED <<enabled, revoked, now, faults>>

\* A request with a token arrives at Require.
Arrive(r, k) ==
  /\ req[r].step = "idle"
  /\ holder[k] # Nobody
  /\ req' = [req EXCEPT ![r] = [Idle EXCEPT !.step = "check", !.token = k,
               !.late = k \in revoked \/ expires[k] <= now]]
  /\ UNCHANGED <<sessionVars, now, faults>>

\* Authenticate reads the session and its administrator.
Authenticate(r) ==
  LET k == req[r].token IN
  /\ req[r].step = "check"
  /\ k \notin revoked
  /\ expires[k] > now
  /\ holder[k] \in enabled
  /\ req' = [req EXCEPT ![r].step = "touch", ![r].admin = holder[k]]
  /\ UNCHANGED <<sessionVars, now, faults>>

\* Mistake: the session is saved as it was read.
TouchSavingAll(r) ==
  /\ req[r].step = "touch"
  /\ revoked' = revoked \ {req[r].token}
  /\ Go(r, "handler")
  /\ UNCHANGED <<enabled, holder, expires, now, faults>>

\* And writes last_used_at, which nothing reads.
Touch(r) ==
  /\ req[r].step = "touch"
  /\ Go(r, "handler")
  /\ UNCHANGED <<sessionVars, now, faults>>

\* 401 if a condition does not hold.
Unauthorized(r) ==
  LET k == req[r].token IN
  /\ req[r].step = "check"
  /\ k \in revoked \/ expires[k] <= now \/ holder[k] \notin enabled
  /\ Answer(r)
  /\ UNCHANGED <<sessionVars, now, faults>>

\* Logout, of a session not revoked meanwhile; else 401.
Logout(r) ==
  /\ req[r].step = "handler"
  /\ revoked' = revoked \union {req[r].token}
  /\ Answer(r)
  /\ UNCHANGED <<enabled, holder, expires, now, faults>>

\* An administrator is disabled in the database, or enabled by admin-seed.
Disable(a) ==
  /\ a \in enabled
  /\ enabled' = enabled \ {a}
  /\ UNCHANGED <<holder, expires, revoked, now, faults, req>>

Enable(a) ==
  /\ a \notin enabled
  /\ enabled' = enabled \union {a}
  /\ UNCHANGED <<holder, expires, revoked, now, faults, req>>

Tick ==
  /\ now < MaxTime
  /\ now' = now + 1
  /\ UNCHANGED <<sessionVars, faults, req>>

\* A query or transaction fails, or a crash.
Abandon(r) ==
  /\ req[r].step # "idle"
  /\ Fault
  /\ Answer(r)
  /\ UNCHANGED <<sessionVars, now>>

NextSessions ==
  \/ \E r \in Requests :
       \/ Authenticate(r) \/ Touch(r) \/ Unauthorized(r) \/ Logout(r) \/ Abandon(r)
  \/ \E r \in Requests, k \in Tokens : LoginCreate(r, k) \/ Arrive(r, k)
  \/ \E a \in Admins : Disable(a) \/ Enable(a) \/ \E r \in Requests : LoginCheck(r, a)
  \/ Tick
=============================================================================
