----------------------------- MODULE WsAccess -----------------------------
(***************************************************************************)
(* The WebSockets of ONE household: tickets, the handler household_ws of   *)
(* backend/app/main.py and the hub of backend/app/services/ws_hub.py.      *)
(*                                                                         *)
(* Every worker process has a hub of its own.  The hub's three maps change *)
(* together under its lock, so they are one set of registered sockets      *)
(* here.  Membership rows come and go as in Membership; the request that   *)
(* removes one then closes the sockets the hub of ITS worker knows.        *)
(* Times are the whole seconds the code compares.                          *)
(***************************************************************************)
EXTENDS Integers, FiniteSets

CONSTANTS User, Server,
          Socket,     \* connection attempts
          Ticket,     \* tickets, by their jti
          Ttl,        \* life of a ticket
          Leeway,     \* JWT_CLOCK_SKEW_LEEWAY_SECONDS
          MaxSecond     \* bound on the clock

ASSUME WsAssumption == Ttl \in Nat \ {0} /\ Leeway \in Nat /\ MaxSecond \in Nat

VARIABLES
    second,       \* the clock
    member,    \* users with a member row
    ticket,    \* ticket[t]: [user, exp], or NoTicket before it is issued
    used,      \* rows of used_ws_tickets
    sock,      \* sock[s]: state of the handler and of the connection
    hub,       \* registered sockets, of all workers
    evict,     \* calls of disconnect_member that have not looked at the hub yet
    kick,      \* sockets such a call has found and not closed yet
    opened     \* history: opened[t]: how often t was accepted, and whether
               \* it expired during such a validation

wsVars == <<second, member, ticket, used, sock, hub, evict, kick, opened>>

NoTicket == [exp |-> -1]
New == [pc |-> "new", alive |-> TRUE]

WsInit ==
    /\ second = 0
    /\ member = User
    /\ ticket = [t \in Ticket |-> NoTicket]
    /\ used = {}
    /\ sock = [s \in Socket |-> New]
    /\ hub = {}
    /\ evict = {}
    /\ kick = {}
    /\ opened = [t \in Ticket |-> <<0, FALSE>>]

SocketUser(s) == ticket[sock[s].ticket].user

---------------------------------------------------------------------------
(* Tickets                                                                 *)

\* _issue_ws_ticket.
IssueTicket(t, u) ==
    /\ ticket[t] = NoTicket
    /\ u \in member
    /\ ticket' = [ticket EXCEPT ![t] = [user |-> u, exp |-> second + Ttl]]
    /\ UNCHANGED <<second, member, used, sock, hub, evict, kick, opened>>

\* Mutant: expiry is left to the signature check with its leeway.
MutantLeeway(s, t, w) ==
    /\ sock[s] = New
    /\ ticket[t] # NoTicket /\ second < ticket[t].exp + Leeway
    /\ sock' = [sock EXCEPT ![s] = [pc |-> "ticket", alive |-> TRUE, ticket |-> t, worker |-> w, seen |-> second]]
    /\ UNCHANGED <<second, member, ticket, used, hub, evict, kick, opened>>

\* _validate_ws_ticket, first part: the signature is good (up to the leeway)
\* and the ticket has not expired by the clock, which is read once.
ReadClock(s, t, w) ==
    /\ sock[s] = New
    /\ ticket[t] # NoTicket /\ second < ticket[t].exp + Leeway /\ second < ticket[t].exp
    /\ sock' = [sock EXCEPT ![s] = [pc |-> "ticket", alive |-> TRUE, ticket |-> t, worker |-> w, seen |-> second]]
    /\ UNCHANGED <<second, member, ticket, used, hub, evict, kick, opened>>

\* Second part, one transaction: expired rows are deleted and the ticket's row
\* inserted; a duplicate refuses the connection.
UseTicket(s) ==
    LET t == sock[s].ticket
        kept == {x \in used : ticket[x].exp > sock[s].seen}
    IN  /\ sock[s].pc = "ticket"
        /\ IF t \in kept
           THEN /\ sock' = [sock EXCEPT ![s].pc = "closed", ![s].alive = FALSE]
                /\ UNCHANGED <<used, opened>>
           ELSE /\ sock' = [sock EXCEPT ![s].pc = "user"]
                /\ used' = kept \cup {t}
                /\ opened' = [opened EXCEPT ![t] = <<@[1] + 1, @[2] \/ (sock[s].seen < ticket[t].exp /\ second >= ticket[t].exp)>>]
        /\ UNCHANGED <<second, member, ticket, hub, evict, kick>>

---------------------------------------------------------------------------
(* The handler                                                             *)

\* _ws_member_exists, before the connection is accepted.
CheckMember(s) ==
    /\ sock[s].pc = "user"
    /\ sock' = IF SocketUser(s) \in member
               THEN [sock EXCEPT ![s].pc = "checked"]
               ELSE [sock EXCEPT ![s].pc = "closed", ![s].alive = FALSE]
    /\ UNCHANGED <<second, member, ticket, used, hub, evict, kick, opened>>

\* accept and hub.connect.
Connect(s) ==
    /\ sock[s].pc = "checked"
    /\ sock' = [sock EXCEPT ![s].pc = "open"]
    /\ hub' = hub \cup {s}
    /\ UNCHANGED <<second, member, ticket, used, evict, kick, opened>>

\* Mutant: the hub's view is trusted for who is still connected.
MutantRecheckRegistered(s) ==
    /\ sock[s].pc = "open" /\ sock[s].alive /\ s \in hub
    /\ SocketUser(s) \notin member
    /\ sock' = [sock EXCEPT ![s].pc = "closed", ![s].alive = FALSE]
    /\ hub' = hub \ {s}
    /\ UNCHANGED <<second, member, ticket, used, evict, kick, opened>>

\* The periodic check finds no member row: close, and hub.disconnect.
Recheck(s) ==
    /\ sock[s].pc = "open" /\ sock[s].alive
    /\ SocketUser(s) \notin member
    /\ sock' = [sock EXCEPT ![s].pc = "closed", ![s].alive = FALSE]
    /\ hub' = hub \ {s}
    /\ UNCHANGED <<second, member, ticket, used, evict, kick, opened>>

\* The client goes away or the connection breaks, at any moment.
Drop(s) ==
    /\ sock[s].alive /\ sock[s].pc \in {"checked", "open"}
    /\ sock' = [sock EXCEPT ![s].alive = FALSE]
    /\ UNCHANGED <<second, member, ticket, used, hub, evict, kick, opened>>

\* receive_text raises in the handler: hub.disconnect.
HandlerEnds(s) ==
    /\ sock[s].pc = "open" /\ ~ sock[s].alive
    /\ sock' = [sock EXCEPT ![s].pc = "closed"]
    /\ hub' = hub \ {s}
    /\ UNCHANGED <<second, member, ticket, used, evict, kick, opened>>

---------------------------------------------------------------------------
(* The hub                                                                 *)

\* broadcast: a socket whose send fails or takes too long is unregistered.  It
\* is not closed.
SendFails(s) ==
    /\ s \in hub
    /\ hub' = hub \ {s}
    /\ UNCHANGED <<second, member, ticket, used, sock, evict, kick, opened>>

\* remove_member commits on worker w ...
RemoveMember(u, w) ==
    /\ u \in member
    /\ member' = member \ {u}
    /\ evict' = evict \cup {<<w, u>>}
    /\ UNCHANGED <<second, ticket, used, sock, hub, kick, opened>>

\* ... and calls disconnect_member, which copies the sockets the hub knows ...
FindSockets(w, u) ==
    /\ <<w, u>> \in evict
    /\ evict' = evict \ {<<w, u>>}
    /\ kick' = kick \cup {s \in hub : sock[s].worker = w /\ SocketUser(s) = u}
    /\ UNCHANGED <<second, member, ticket, used, sock, hub, opened>>

\* ... and closes and unregisters them one by one.
CloseSocket(s) ==
    /\ s \in kick
    /\ kick' = kick \ {s}
    /\ sock' = [sock EXCEPT ![s].alive = FALSE]
    /\ hub' = hub \ {s}
    /\ UNCHANGED <<second, member, ticket, used, evict, opened>>

\* A removed user is invited again and accepts.
Rejoin(u) ==
    /\ u \notin member
    /\ member' = member \cup {u}
    /\ UNCHANGED <<second, ticket, used, sock, hub, evict, kick, opened>>

SecondPasses ==
    /\ second < MaxSecond
    /\ second' = second + 1
    /\ UNCHANGED <<member, ticket, used, sock, hub, evict, kick, opened>>

---------------------------------------------------------------------------
WsNext ==
    \/ \E t \in Ticket, u \in User : IssueTicket(t, u)
    \/ \E s \in Socket, t \in Ticket, w \in Server : ReadClock(s, t, w)
    \/ \E s \in Socket : \/ UseTicket(s) \/ CheckMember(s) \/ Connect(s) \/ Recheck(s)
                         \/ Drop(s) \/ HandlerEnds(s) \/ SendFails(s) \/ CloseSocket(s)
    \/ \E u \in User, w \in Server : RemoveMember(u, w) \/ FindSockets(w, u)
    \/ \E u \in User : Rejoin(u)
    \/ SecondPasses

WsSpec == WsInit /\ [][WsNext]_wsVars

---------------------------------------------------------------------------
(* Properties                                                              *)

\* A ticket opens one connection.  The row that records its use may be deleted
\* as soon as the ticket has expired, and only the comparison of exp with the
\* clock, stricter than the signature's leeway, keeps it from being used again.
\* (Unless a validation reads the clock before the ticket expires and reaches
\* the database after it.)
TicketOpensOnce == \A t \in Ticket : opened[t][2] \/ opened[t][1] =< 1

\* "Re-check membership periodically so revoked users are disconnected across
\* workers" (main.py:264): a connection of a user who is no longer a member is
\* closed in the end, whichever worker removed the member, if the connection
\* was made after disconnect_member looked, and if a broadcast had already
\* dropped it from the hub.
RevokedAreDisconnected ==
    \A s \in Socket :
        (sock[s].pc = "open" /\ sock[s].alive /\ SocketUser(s) \notin member)
           ~> (sock[s].pc = "open" => ~ sock[s].alive \/ SocketUser(s) \in member)
===========================================================================
