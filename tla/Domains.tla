------------------------------- MODULE Domains -------------------------------
(***************************************************************************)
(* The customers' domains: their service_domains rows, and the routes of   *)
(* the reverse proxy, Caddy, which has a server for HTTP and one for HTTPS. *)
(*                                                                         *)
(* Setting a domain up records it as pending, changes both servers, and    *)
(* records the outcome.  Each change reads a server's whole configuration, *)
(* edits the list of its routes, and writes the whole back: two at a time  *)
(* undo each other.  A domain has one row for ever, whatever became of it, *)
(* and the row's id is the route's: so a domain stands here for its row,   *)
(* and for its route on either server.                                     *)
(*                                                                         *)
(* The PUT of a configuration replaces the old one.  Nobody but this       *)
(* program changes the two servers.                                        *)
(***************************************************************************)
EXTENDS Integers

CONSTANTS Domains, NoDomain,
          Requests,   \* HTTP requests being served
          MaxFaults   \* bound: crashes, failed calls and transactions

Servers == {"http", "https"}
Modes == {"http", "https", "http_and_https"}

\* Definitions marked "Mistake" are not part of the specification.

ASSUME DomainsAssumption == NoDomain \notin Domains /\ MaxFaults \in Nat

VARIABLES
  row,        \* status of the domain's row, or "none"
  mode,       \* its proxy mode
  routes,     \* the domains with a route on a server
  exists,     \* servers that are configured
  clobbered,  \* history: domains of which a PUT dropped or restored a route
              \* that had changed after the GET before it
  unclean,    \* history: domains in whose set-up or removal a call failed
  faults,
  req         \* each request: see Idle

caddy == <<routes, exists>>
vars == <<row, mode, caddy, clobbered, unclean, faults, req>>

\* It is at the first or second call of EnsureRoute ("ensure") or DeleteRoute
\* ("undo"), and has read the server into copy, or not yet.
Idle == [step |-> "idle", domain |-> NoDomain, mode |-> "http", call |-> 1,
         read |-> FALSE, copy |-> {}]

Steps == {"idle", "insert", "ensure", "fail", "activate", "undo"}

Answer(r) == req' = [req EXCEPT ![r] = Idle]

Fault == faults < MaxFaults /\ faults' = faults + 1

Init ==
  /\ row = [d \in Domains |-> "none"]
  /\ mode = [d \in Domains |-> "http"]
  /\ routes = [s \in Servers |-> {}]
  /\ exists = {}
  /\ clobbered = {} /\ unclean = {} /\ faults = 0
  /\ req = [r \in Requests |-> Idle]

\* Servers that a mode wants the route on.
Wanted(m) == IF m = "http_and_https" THEN Servers ELSE {m}

\* The server of a call: EnsureRoute adds before it removes.
ServerOf(r) ==
  LET first == IF req[r].step = "ensure" /\ req[r].mode = "https"
                 THEN "https" ELSE "http"
  IN  IF req[r].call = 1 THEN first ELSE CHOOSE s \in Servers : s # first

\* upsertServerRoute or deleteRouteFromServer?
Upserts(r) == req[r].step = "ensure" /\ ServerOf(r) \in Wanted(req[r].mode)

\* The routes the call writes.
Edited(r) == IF Upserts(r) THEN req[r].copy \union {req[r].domain}
                           ELSE req[r].copy \ {req[r].domain}

\* After the last call.
Done(r) == IF req[r].step = "undo" THEN Idle
           ELSE [req[r] EXCEPT !.step = "activate", !.read = FALSE, !.copy = {}]

\* Mistake: there is always another call.
AfterAnyCall(r) == [req[r] EXCEPT !.call = @ + 1, !.read = FALSE, !.copy = {}]

\* The call is over.
After(r) ==
  IF req[r].call = 2 THEN Done(r)
  ELSE [req[r] EXCEPT !.call = 2, !.read = FALSE, !.copy = {}]

\* It failed: EnsureRoute stops, DeleteRoute goes on.
Failed(r) == IF req[r].step = "undo" THEN After(r)
             ELSE [req[r] EXCEPT !.step = "fail", !.read = FALSE, !.copy = {}]

(***************************************************************************)
(* DomainSubmit                                                            *)
(***************************************************************************)

\* DomainPreview: no row has the domain, and its DNS record is right.
DomainPreview(r, d, m) ==
  /\ req[r].step = "idle"
  /\ row[d] = "none"
  /\ req' = [req EXCEPT ![r] = [Idle EXCEPT !.step = "insert", !.domain = d,
                                            !.mode = m]]
  /\ UNCHANGED <<row, mode, caddy, clobbered, unclean, faults>>

\* Mistake: domain is not UNIQUE, the preview's check has to do.
InsertUnchecked(r) ==
  LET d == req[r].domain IN
  /\ req[r].step = "insert"
  /\ row' = [row EXCEPT ![d] = "pending"]
  /\ mode' = [mode EXCEPT ![d] = req[r].mode]
  /\ req' = [req EXCEPT ![r].step = "ensure"]
  /\ UNCHANGED <<caddy, clobbered, unclean, faults>>

\* The first transaction; domain is UNIQUE.
DomainInsert(r) ==
  LET d == req[r].domain IN
  /\ req[r].step = "insert"
  /\ row[d] = "none"
  /\ row' = [row EXCEPT ![d] = "pending"]
  /\ mode' = [mode EXCEPT ![d] = req[r].mode]
  /\ req' = [req EXCEPT ![r].step = "ensure"]
  /\ UNCHANGED <<caddy, clobbered, unclean, faults>>

\* It is refused, or fails.
DomainRefused(r) ==
  /\ req[r].step = "insert"
  /\ \/ row[req[r].domain] # "none" /\ UNCHANGED faults
     \/ Fault
  /\ Answer(r)
  /\ UNCHANGED <<row, mode, caddy, clobbered, unclean>>

\* getServer.  Nothing is removed from a server that is not configured.
GetServer(r) ==
  /\ req[r].step \in {"ensure", "undo"} /\ ~req[r].read
  /\ req' = [req EXCEPT ![r] =
       IF ServerOf(r) \notin exists /\ ~Upserts(r) THEN After(r)
       ELSE [req[r] EXCEPT !.read = TRUE, !.copy = routes[ServerOf(r)]]]
  /\ UNCHANGED <<row, mode, caddy, clobbered, unclean, faults>>

\* Caddy carries the PUT out.
Put(r) ==
  LET s == ServerOf(r) IN
  /\ req[r].step \in {"ensure", "undo"} /\ req[r].read
  /\ routes' = [routes EXCEPT ![s] = Edited(r)]
  /\ exists' = exists \union {s}
  /\ clobbered' = clobbered \union {d \in Domains \ {req[r].domain} :
                                      (d \in Edited(r)) # (d \in routes[s])}

\* putServer.
PutServer(r) ==
  /\ Put(r)
  /\ req' = [req EXCEPT ![r] = After(r)]
  /\ UNCHANGED <<row, mode, unclean, faults>>

\* A GET or PUT fails, or a PUT is carried out and its answer does not come.
CaddyFails(r) ==
  /\ req[r].step \in {"ensure", "undo"}
  /\ Fault
  /\ Put(r) \/ UNCHANGED <<caddy, clobbered>>
  /\ req' = [req EXCEPT ![r] = Failed(r)]
  /\ unclean' = unclean \union {req[r].domain}
  /\ UNCHANGED <<row, mode>>

\* The transaction after a failure; its own failure is ignored.  A route that
\* is there already stays.
DomainFail(r) ==
  /\ req[r].step = "fail"
  /\ \/ row' = [row EXCEPT ![req[r].domain] = "failed"] /\ UNCHANGED faults
     \/ Fault /\ UNCHANGED row
  /\ Answer(r)
  /\ UNCHANGED <<mode, caddy, clobbered, unclean>>

\* The transaction after a success.
DomainActivate(r) ==
  /\ req[r].step = "activate"
  /\ row' = [row EXCEPT ![req[r].domain] = "active"]
  /\ Answer(r)
  /\ UNCHANGED <<mode, caddy, clobbered, unclean, faults>>

\* Mistake: the routes are left as they are.
ActivateFailsKeepingRoutes(r) ==
  /\ req[r].step = "activate"
  /\ Fault
  /\ Answer(r)
  /\ UNCHANGED <<row, mode, caddy, clobbered, unclean>>

\* It fails, and DeleteRoute is to remove the routes.
ActivateFails(r) ==
  /\ req[r].step = "activate"
  /\ Fault
  /\ req' = [req EXCEPT ![r].step = "undo", ![r].call = 1]
  /\ UNCHANGED <<row, mode, caddy, clobbered, unclean>>

\* A crash.
Abandon(r) ==
  /\ req[r].step # "idle"
  /\ Fault
  /\ Answer(r)
  /\ unclean' = IF req[r].step = "insert" THEN unclean
                ELSE unclean \union {req[r].domain}
  /\ UNCHANGED <<row, mode, caddy, clobbered>>

Next ==
  \/ \E r \in Requests, d \in Domains, m \in Modes : DomainPreview(r, d, m)
  \/ \E r \in Requests :
       \/ DomainInsert(r) \/ DomainRefused(r)
       \/ GetServer(r) \/ PutServer(r) \/ CaddyFails(r)
       \/ DomainFail(r) \/ DomainActivate(r) \/ ActivateFails(r)
       \/ Abandon(r)

Spec == Init /\ [][Next]_vars

-----------------------------------------------------------------------------
(***************************************************************************)
(* Properties                                                              *)
(***************************************************************************)

\* Every row, server and request has the values the code can give it.
TypeOK ==
  /\ row \in [Domains -> {"none", "pending", "active", "failed"}]
  /\ mode \in [Domains -> Modes]
  /\ routes \in [Servers -> SUBSET Domains]
  /\ exists \in SUBSET Servers
  /\ clobbered \in SUBSET Domains /\ unclean \in SUBSET Domains
  /\ faults \in 0..MaxFaults
  /\ req \in [Requests ->
       [step : Steps, domain : Domains \union {NoDomain}, mode : Modes,
        call : 1..2, read : BOOLEAN, copy : SUBSET Domains]]

RoutedOn(d) == {s \in Servers : d \in routes[s]}

\* A domain shown as active is routed on the servers of its mode and on no
\* other, unless the set-up or removal of another domain wrote a server back
\* that it had read before this one's route was there: in particular, no
\* second set-up of the same domain, and no removal, ever takes it away.
ActiveIsRouted ==
  \A d \in Domains : row[d] = "active" =>
    RoutedOn(d) = Wanted(mode[d]) \/ d \in clobbered

\* A domain that is routed is active or being set up: what a set-up that ends
\* otherwise has added is removed again, except when one of its own calls
\* failed or it was cut short, or another domain's PUT brought it back.
RoutedIsActive ==
  \A d \in Domains : RoutedOn(d) # {} =>
    \/ row[d] = "active" \/ d \in clobbered \union unclean
    \/ \E r \in Requests : req[r].domain = d /\ req[r].step # "insert"
=============================================================================
