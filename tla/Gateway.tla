------------------------------ MODULE Gateway ------------------------------
(***************************************************************************)
(* The WebSocket gateway (gateway/ticket-events.gateway.ts): browser       *)
(* sockets authenticate, subscribe to tickets and receive the outbox       *)
(* events of the rooms they joined.                                        *)
(*                                                                         *)
(* Messages of one socket are handled concurrently (`void handleMessage`), *)
(* so a handler that awaits the blocklist or the access checks resumes     *)
(* after other messages, the timeout or the close of its socket.  A call   *)
(* in flight is therefore three steps: it arrives, its question is         *)
(* answered, it completes.                                                 *)
(*                                                                         *)
(* Abstracted: tokens (one per user, signed), malformed messages (answered *)
(* with an error, no state), the wording of replies.                       *)
(***************************************************************************)
EXTENDS Naturals, FiniteSets

CONSTANTS Sockets,      \* connections, each accepted once
          Users,        \* holders of a valid access token
          Tickets,
          Calls,        \* handlers that may be in flight at a time
          SuperAdmins,  \* users with the super_admin room
          OrgMembers,   \* users with an organization
          MaxCalls,     \* bound on the calls a run handles
          None          \* no user, no ticket, no event

ASSUME GatewayAssumption ==
    /\ SuperAdmins \subseteq Users /\ OrgMembers \subseteq Users
    /\ MaxCalls \in Nat
    /\ None \notin Users \cup Tickets
    /\ IsFiniteSet(Users)

VARIABLES
    conn,      \* readyState of each socket
    actor,     \* ClientState.actor
    timer,     \* ClientState.authTimer is pending
    rooms,     \* ClientState.rooms
    members,   \* TicketEventsGateway.rooms: room -> sockets
    clients,   \* TicketEventsGateway.clients
    call,      \* the handlers in flight
    arrived,   \* how many calls arrived (bounded by MaxCalls)
    \* history, read by no action
    told,      \* tickets whose `subscribed` reply is the socket's last news
    wish,      \* tickets the socket asked for and did not take back
    shown,     \* <<socket, user, ticket>>: accesses that were granted
    raced      \* what overtook a call in flight on the socket

vars == <<conn, actor, timer, rooms, members, clients, call, arrived,
          told, wish, shown, raced>>

socket == <<conn, actor, timer>>
registry == <<rooms, members, clients>>
calls == <<call, arrived>>
history == <<told, wish, shown, raced>>

----------------------------------------------------------------------------
UserRoom(u)   == <<"user", u>>
TicketRoom(t) == <<"ticket", t>>
OrgRoom       == <<"org", None>>
AdminRoom     == <<"super_admin", None>>
Rooms == {UserRoom(u) : u \in Users} \cup {TicketRoom(t) : t \in Tickets}
            \cup {OrgRoom, AdminRoom}

Pending(kind, s, u, t) ==
    [kind |-> kind, sock |-> s, user |-> u, ticket |-> t, verdict |-> "pending"]
Idle == Pending("idle", None, None, None)

Free(c) == call[c] = Idle
InFlight(s) == {c \in Calls : ~Free(c) /\ call[c].sock = s}
Subscribing(s, t) ==
    {c \in InFlight(s) : call[c].kind = "subscribe" /\ call[c].ticket = t}
Authenticating(s) == {c \in InFlight(s) : call[c].kind = "auth"}

\* The rooms a user joins at authentication.
HomeRooms(u) == {UserRoom(u)}
                  \cup (IF u \in OrgMembers THEN {OrgRoom} ELSE {})
                  \cup (IF u \in SuperAdmins THEN {AdminRoom} ELSE {})

\* joinRoom for each of the rooms rs: nothing happens when the socket's own
\* set already has the room.
Join(s, rs) ==
    /\ rooms' = [rooms EXCEPT ![s] = @ \cup rs]
    /\ members' = [r \in Rooms |-> IF r \in rs \ rooms[s]
                                     THEN members[r] \cup {s} ELSE members[r]]

\* leaveRoom for each of the rooms rs.
KeepsMembers(s, rs) == members                                           \* mutant
DropsRoom(s, rs) == [r \in Rooms |-> IF r \in rs THEN {} ELSE members[r]] \* mutant
MembersWithout(s, rs) ==
    [r \in Rooms |-> IF r \in rs THEN members[r] \ {s} ELSE members[r]]

Leave(s, rs) ==
    /\ rooms' = [rooms EXCEPT ![s] = @ \ rs]
    /\ members' = MembersWithout(s, rs)

Race(s, what, overtaken) ==
    raced' = IF overtaken THEN [raced EXCEPT ![s] = @ \cup {what}] ELSE raced

----------------------------------------------------------------------------
Init ==
    /\ conn = [s \in Sockets |-> "new"]
    /\ actor = [s \in Sockets |-> None]
    /\ timer = [s \in Sockets |-> FALSE]
    /\ rooms = [s \in Sockets |-> {}]
    /\ members = [r \in Rooms |-> {}]
    /\ clients = {}
    /\ call = [c \in Calls |-> Idle]
    /\ arrived = 0
    /\ told = [s \in Sockets |-> {}]
    /\ wish = [s \in Sockets |-> {}]
    /\ shown = {}
    /\ raced = [s \in Sockets |-> {}]

\* handleConnection: an empty client state and a pending authentication timer.
Connect(s) ==
    /\ conn[s] = "new"
    /\ conn' = [conn EXCEPT ![s] = "open"]
    /\ timer' = [timer EXCEPT ![s] = TRUE]
    /\ clients' = clients \cup {s}
    /\ UNCHANGED <<actor, rooms, members, calls, history>>

\* The timeout closes the socket; the close event comes later.
OnlyLogs(s) == conn[s]                                                   \* mutant
TimedOut(s) == IF conn[s] = "open" THEN "closing" ELSE conn[s]

AuthTimeout(s) ==
    /\ timer[s]
    /\ timer' = [timer EXCEPT ![s] = FALSE]
    /\ conn' = [conn EXCEPT ![s] = TimedOut(s)]
    /\ UNCHANGED <<actor, registry, calls, history>>

\* An oversized message, or the browser, starts the closing handshake.
StartClose(s) ==
    /\ conn[s] = "open"
    /\ conn' = [conn EXCEPT ![s] = "closing"]
    /\ UNCHANGED <<actor, timer, registry, calls, history>>

\* The close event: handleDisconnect forgets a socket that is still known.
TicketRooms(s) == rooms[s] \cap {TicketRoom(t) : t \in Tickets}          \* mutant
RoomsToLeave(s) == rooms[s]

Disconnect(s) ==
    /\ conn[s] \in {"open", "closing"}
    /\ conn' = [conn EXCEPT ![s] = "closed"]
    /\ IF s \in clients
         THEN /\ timer' = [timer EXCEPT ![s] = FALSE]
              /\ Leave(s, RoomsToLeave(s))
              /\ clients' = clients \ {s}
         ELSE UNCHANGED <<timer, registry>>
    /\ Race(s, "close", InFlight(s) # {})
    /\ UNCHANGED <<actor, calls, told, wish, shown>>

\* handleAuth up to its await: a socket that has an actor is refused.
MayAuthenticate(s) == actor[s] = None

AuthArrives(s, u, c) ==
    /\ conn[s] = "open" /\ MayAuthenticate(s) /\ Free(c)
    /\ arrived < MaxCalls /\ arrived' = arrived + 1
    /\ call' = [call EXCEPT ![c] = Pending("auth", s, u, None)]
    /\ Race(s, "auth", Authenticating(s) # {})
    /\ UNCHANGED <<socket, registry, told, wish, shown>>

\* handleSubscribe up to its first await: the actor of this moment is kept.
SubscribeArrives(s, t, c) ==
    /\ conn[s] = "open" /\ actor[s] # None /\ Free(c)
    /\ arrived < MaxCalls /\ arrived' = arrived + 1
    /\ call' = [call EXCEPT ![c] = Pending("subscribe", s, actor[s], t)]
    /\ wish' = [wish EXCEPT ![s] = @ \cup {t}]
    /\ UNCHANGED <<socket, registry, told, shown, raced>>

\* The awaited checks answer: the token is (not) on the blocklist
\* (isAccessTokenBlocked); the ticket may (not) be read (loadVisibleTicket,
\* resolveAccess, assertCanRead).  Logouts and access changes elsewhere make
\* every answer possible.
Answer(c, verdict) ==
    /\ ~Free(c) /\ call[c].verdict = "pending"
    /\ call' = [call EXCEPT ![c] = [@ EXCEPT !.verdict = verdict]]
    /\ shown' = IF call[c].kind = "subscribe" /\ verdict = "yes"
                  THEN shown \cup {<<call[c].sock, call[c].user, call[c].ticket>>}
                  ELSE shown
    /\ UNCHANGED <<socket, registry, arrived, told, wish, raced>>

Accepted(k) == k.verdict = "yes"

\* A refused call only sends an error.
Refused(c) ==
    /\ call[c].verdict = "no"
    /\ call' = [call EXCEPT ![c] = Idle]
    /\ UNCHANGED <<socket, registry, arrived, history>>

\* handleAuth after its await.  Nothing is checked again: neither the actor
\* nor the state of the socket.
AuthCompletes(c) ==
    LET s == call[c].sock IN
    /\ call[c].kind = "auth" /\ Accepted(call[c])
    /\ call' = [call EXCEPT ![c] = Idle]
    /\ actor' = [actor EXCEPT ![s] = call[c].user]
    /\ timer' = [timer EXCEPT ![s] = FALSE]
    /\ Join(s, HomeRooms(call[c].user))
    /\ UNCHANGED <<conn, clients, arrived, history>>

\* handleSubscribe after its awaits; the reply reaches an open socket only.
SubscribeCompletes(c) ==
    LET s == call[c].sock  t == call[c].ticket IN
    /\ call[c].kind = "subscribe" /\ Accepted(call[c])
    /\ call' = [call EXCEPT ![c] = Idle]
    /\ Join(s, {TicketRoom(t)})
    /\ told' = IF conn[s] = "open" THEN [told EXCEPT ![s] = @ \cup {t}] ELSE told
    /\ UNCHANGED <<socket, clients, arrived, wish, shown, raced>>

\* handleUnsubscribe does not await.
Unsubscribe(s, t) ==
    /\ conn[s] = "open" /\ actor[s] # None
    /\ Leave(s, {TicketRoom(t)})
    /\ told' = [told EXCEPT ![s] = @ \ {t}]
    /\ wish' = [wish EXCEPT ![s] = @ \ {t}]
    /\ Race(s, "unsubscribe", Subscribing(s, t) # {})
    /\ UNCHANGED <<socket, clients, calls, shown>>

\* The rooms an event is broadcast to.
Audience(t, to) == {TicketRoom(t), AdminRoom} \cup {UserRoom(u) : u \in to}

\* publish: the copies of an event of ticket t naming the users to that a socket
\* is sent, one per room of the audience it is a member of.  Publishing changes
\* no state of the gateway, so it is a question about every state.
Copies(s, t, to) == IF conn[s] = "open"
                      THEN Cardinality({r \in Audience(t, to) : s \in members[r]})
                      ELSE 0

\* onModuleDestroy: the maps are emptied, the sockets only start to close.
Shutdown ==
    /\ clients # {}
    /\ conn' = [s \in Sockets |-> IF s \in clients /\ conn[s] = "open"
                                    THEN "closing" ELSE conn[s]]
    /\ clients' = {}
    /\ members' = [r \in Rooms |-> {}]
    /\ raced' = [s \in Sockets |-> IF InFlight(s) # {} THEN raced[s] \cup {"close"}
                                                      ELSE raced[s]]
    /\ UNCHANGED <<actor, timer, rooms, calls, told, wish, shown>>

Next ==
    \/ \E s \in Sockets :
         \/ Connect(s) \/ AuthTimeout(s) \/ StartClose(s) \/ Disconnect(s)
         \/ \E u \in Users, c \in Calls : AuthArrives(s, u, c)
         \/ \E t \in Tickets, c \in Calls : SubscribeArrives(s, t, c)
         \/ \E t \in Tickets : Unsubscribe(s, t)
    \/ \E c \in Calls :
         \/ \E verdict \in {"yes", "no"} : Answer(c, verdict)
         \/ Refused(c) \/ AuthCompletes(c) \/ SubscribeCompletes(c)
    \/ Shutdown

\* Timers fire, closing sockets end, and a handler whose question is answered
\* runs; questions are answered.
Fairness ==
    /\ \A s \in Sockets : /\ WF_vars(AuthTimeout(s))
                          /\ WF_vars(conn[s] = "closing" /\ Disconnect(s))
    /\ \A c \in Calls :
         WF_vars(\/ \E verdict \in {"yes", "no"} : Answer(c, verdict)
                 \/ Refused(c) \/ AuthCompletes(c) \/ SubscribeCompletes(c))

Spec == Init /\ [][Next]_vars
FairSpec == Spec /\ Fairness
----------------------------------------------------------------------------

\* The type invariant.
TypeOK ==
    /\ conn \in [Sockets -> {"new", "open", "closing", "closed"}]
    /\ actor \in [Sockets -> Users \cup {None}]
    /\ timer \in [Sockets -> BOOLEAN]
    /\ rooms \in [Sockets -> SUBSET Rooms]
    /\ members \in [Rooms -> SUBSET Sockets]
    /\ clients \subseteq Sockets
    /\ arrived \in 0..MaxCalls
    /\ call \in [Calls -> [kind : {"idle", "auth", "subscribe"},
                           sock : Sockets \cup {None}, user : Users \cup {None},
                           ticket : Tickets \cup {None},
                           verdict : {"pending", "yes", "no"}]]
    /\ told \in [Sockets -> SUBSET Tickets] /\ wish \in [Sockets -> SUBSET Tickets]
    /\ shown \subseteq Sockets \X Users \X Tickets
    /\ raced \in [Sockets -> SUBSET {"auth", "close", "unsubscribe"}]

\* The two records of who is in which room agree for every socket the gateway
\* knows, whatever completes late: joinRoom trusts one of them, broadcast and
\* handleDisconnect each use one.
RoomsMirror ==
    \A s \in Sockets, r \in Rooms :
        /\ s \in members[r] => r \in rooms[s]
        /\ s \in clients /\ r \in rooms[s] => s \in members[r]

\* A socket that closed with no handler in flight is in no room any more; one
\* that closed during a handler's await is joined again and never forgotten.
ClosedHoldsNothing ==
    \A s \in Sockets : conn[s] = "closed" /\ "close" \notin raced[s] =>
        \A r \in Rooms : s \notin members[r]

\* A socket is in the personal room of its actor alone, unless it sent a second
\* token while the first was being checked.
OneIdentity ==
    \A s \in Sockets, u \in Users :
        s \in members[UserRoom(u)] /\ "auth" \notin raced[s] => actor[s] = u

\* An open socket is in a ticket's room only through a user it authenticated as,
\* who was allowed to read the ticket when it subscribed ("a client can never
\* join a room it may not read").
JoinedWasReadable ==
    \A s \in Sockets, t \in Tickets :
        conn[s] = "open" /\ s \in members[TicketRoom(t)] =>
            \E u \in Users : <<s, u, t>> \in shown /\ s \in members[UserRoom(u)]

\* Once its calls are answered a socket is in no ticket room it took back, unless
\* it unsubscribed while a subscription to the same ticket was being checked.
LastWordStands ==
    \A s \in Sockets, t \in Tickets :
        /\ conn[s] = "open" /\ InFlight(s) = {} /\ "unsubscribe" \notin raced[s]
        /\ s \in members[TicketRoom(t)]
        => t \in wish[s]

\* Whoever is in a room has earned it and not given it back: by an identity, by a
\* granted access, by an open connection.
MembershipIsEarned ==
    ClosedHoldsNothing /\ OneIdentity /\ JoinedWasReadable /\ LastWordStands

\* Whom an event concerns: sockets told they are subscribed to its ticket, the
\* users it names, super-admins.
Concerns(s, t, to) == t \in told[s] \/ actor[s] \in to \cup SuperAdmins

\* A published event reaches every open socket it concerns, whichever sockets
\* joined, left or closed before, and no other socket whose calls did not race.
EventReachesItsAudience ==
    \A s \in Sockets, t \in Tickets, to \in SUBSET Users : conn[s] = "open" =>
        /\ Concerns(s, t, to) => Copies(s, t, to) > 0
        /\ Copies(s, t, to) > 0 /\ raced[s] = {} => Concerns(s, t, to)

\* No connection stays open unauthenticated: the timeout closes it, and the
\* close completes.
AuthenticatesOrCloses ==
    \A s \in Sockets :
        conn[s] = "open" ~> (actor[s] # None \/ conn[s] = "closed")
=============================================================================
