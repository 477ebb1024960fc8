---------------------------- MODULE Gateway_proofs ----------------------------
(***************************************************************************)
(* What holds of Gateway for any sockets, users and tickets, any number of *)
(* handlers in flight and any number of calls.                             *)
(***************************************************************************)
EXTENDS Gateway, FiniteSetTheorems, TLAPS

Completes(c) == AuthCompletes(c) \/ SubscribeCompletes(c)

-----------------------------------------------------------------------------
(* Rooms.                                                                  *)

(* The rooms are of four kinds, told apart by their first component.       *)
LEMMA RoomKinds ==
  /\ \A t \in Tickets : TicketRoom(t) \in Rooms
  /\ \A u \in Users : UserRoom(u) \in Rooms /\ HomeRooms(u) \subseteq Rooms
  /\ OrgRoom \in Rooms /\ AdminRoom \in Rooms
BY DEF Rooms, TicketRoom, UserRoom, OrgRoom, AdminRoom, HomeRooms

LEMMA RoomsDiffer ==
  /\ \A t, v \in Tickets : TicketRoom(t) = TicketRoom(v) => t = v
  /\ \A u, v \in Users : UserRoom(u) = UserRoom(v) => u = v
  /\ \A t \in Tickets, u \in Users :
        TicketRoom(t) # UserRoom(u) /\ TicketRoom(t) \notin HomeRooms(u)
  /\ \A t \in Tickets : TicketRoom(t) # AdminRoom
  /\ \A u, v \in Users : UserRoom(u) \in HomeRooms(v) <=> u = v
  /\ \A u \in Users : AdminRoom \in HomeRooms(u) <=> u \in SuperAdmins
BY DEF TicketRoom, UserRoom, OrgRoom, AdminRoom, HomeRooms

(* joinRoom, socket by socket and room by room.                            *)
LEMMA JoinEffect ==
  ASSUME TypeOK, NEW s \in Sockets, NEW rs \in SUBSET Rooms, Join(s, rs)
  PROVE  /\ rooms' \in [Sockets -> SUBSET Rooms]
         /\ members' \in [Rooms -> SUBSET Sockets]
         /\ \A x \in Sockets, r \in Rooms :
              /\ r \in rooms'[x] <=> r \in rooms[x] \/ (x = s /\ r \in rs)
              /\ x \in members'[r] <=> \/ x \in members[r]
                                       \/ x = s /\ r \in rs /\ r \notin rooms[s]
<1>1. rooms' = [rooms EXCEPT ![s] = rooms[s] \cup rs]
  BY DEF Join
<1>2. members' = [r \in Rooms |-> IF r \in rs \ rooms[s]
                                    THEN members[r] \cup {s} ELSE members[r]]
  BY DEF Join
<1>3. rooms \in [Sockets -> SUBSET Rooms] /\ members \in [Rooms -> SUBSET Sockets]
  BY DEF TypeOK
<1> QED
  BY <1>1, <1>2, <1>3

(* leaveRoom, likewise.                                                    *)
LEMMA LeaveEffect ==
  ASSUME TypeOK, NEW s \in Sockets, NEW rs \in SUBSET Rooms, Leave(s, rs)
  PROVE  /\ rooms' \in [Sockets -> SUBSET Rooms]
         /\ members' \in [Rooms -> SUBSET Sockets]
         /\ \A x \in Sockets, r \in Rooms :
              /\ r \in rooms'[x] <=> r \in rooms[x] /\ ~(x = s /\ r \in rs)
              /\ x \in members'[r] <=> x \in members[r] /\ ~(x = s /\ r \in rs)
<1>1. rooms' = [rooms EXCEPT ![s] = rooms[s] \ rs]
  BY DEF Leave
<1>2. members' = [r \in Rooms |-> IF r \in rs THEN members[r] \ {s} ELSE members[r]]
  BY DEF Leave, MembersWithout
<1>3. rooms \in [Sockets -> SUBSET Rooms] /\ members \in [Rooms -> SUBSET Sockets]
  BY DEF TypeOK
<1> QED
  BY <1>1, <1>2, <1>3

-----------------------------------------------------------------------------
(* Types.                                                                  *)

(* A handler in flight came from a socket that connected, for a user.      *)
CallOK ==
  \A c \in Calls :
    \/ Free(c)
    \/ /\ call[c].kind \in {"auth", "subscribe"}
       /\ call[c].sock \in Sockets /\ call[c].user \in Users
       /\ call[c].kind = "subscribe" => call[c].ticket \in Tickets
       /\ conn[call[c].sock] # "new"

CallType == [kind : {"idle", "auth", "subscribe"},
             sock : Sockets \cup {None}, user : Users \cup {None},
             ticket : Tickets \cup {None}, verdict : {"pending", "yes", "no"}]

(* An answered call of a kind is not a free place.                         *)
LEMMA NotFree ==
  ASSUME CallOK, NEW c \in Calls, Completes(c)
  PROVE  /\ call[c].sock \in Sockets /\ call[c].user \in Users
         /\ conn[call[c].sock] # "new" /\ ~Free(c)
         /\ call[c].kind \in {"auth", "subscribe"}
         /\ call[c].kind = "subscribe" => call[c].ticket \in Tickets
BY DEF CallOK, Free, Idle, Pending, Completes, AuthCompletes, SubscribeCompletes, Accepted

(* The handlers in flight stay well-typed.                                 *)
LEMMA CallsType ==
  ASSUME TypeOK, CallOK, [Next]_vars
  PROVE  call' \in [Calls -> CallType] /\ CallOK'
<1>0. call \in [Calls -> CallType] /\ Idle \in CallType
  BY DEF TypeOK, CallType, Idle, Pending
<1>a. conn \in [Sockets -> {"new", "open", "closing", "closed"}]
      /\ actor \in [Sockets -> Users \cup {None}]
  BY DEF TypeOK
<1>1. ASSUME NEW s \in Sockets,
             Connect(s) \/ AuthTimeout(s) \/ StartClose(s) \/ Disconnect(s)
             \/ \E t \in Tickets : Unsubscribe(s, t)
      PROVE  call' \in [Calls -> CallType] /\ CallOK'
  <2>1. call' = call
    BY <1>1 DEF Connect, AuthTimeout, StartClose, Disconnect, Unsubscribe, calls
  <2>2. \A x \in Sockets : conn[x] # "new" => conn'[x] # "new"
    BY <1>1, <1>a DEF Connect, AuthTimeout, StartClose, Disconnect, Unsubscribe,
                      TimedOut, socket
  <2> QED
    BY <1>0, <2>1, <2>2 DEF CallOK, Free
<1>2. ASSUME NEW s \in Sockets, NEW u \in Users, NEW c \in Calls, AuthArrives(s, u, c)
      PROVE  call' \in [Calls -> CallType] /\ CallOK'
  <2> DEFINE k == Pending("auth", s, u, None)
  <2>1. call' = [call EXCEPT ![c] = k] /\ conn' = conn /\ conn[s] = "open"
    BY <1>2 DEF AuthArrives, socket
  <2>2. k \in CallType
    BY DEF CallType, Pending
  <2> QED
    BY <1>0, <2>1, <2>2 DEF CallOK, Free, Pending
<1>3. ASSUME NEW s \in Sockets, NEW t \in Tickets, NEW c \in Calls,
             SubscribeArrives(s, t, c)
      PROVE  call' \in [Calls -> CallType] /\ CallOK'
  <2> DEFINE k == Pending("subscribe", s, actor[s], t)
  <2>1. call' = [call EXCEPT ![c] = k] /\ conn' = conn /\ conn[s] = "open"
    BY <1>3 DEF SubscribeArrives, socket
  <2>2. k \in CallType /\ actor[s] \in Users
    BY <1>3, <1>a DEF CallType, SubscribeArrives, Pending
  <2> QED
    BY <1>0, <2>1, <2>2 DEF CallOK, Free, Pending
<1>4. ASSUME NEW c \in Calls, NEW verdict \in {"yes", "no"}, Answer(c, verdict)
      PROVE  call' \in [Calls -> CallType] /\ CallOK'
  <2> DEFINE k == [call[c] EXCEPT !.verdict = verdict]
  <2>1. call' = [call EXCEPT ![c] = k] /\ conn' = conn /\ ~Free(c)
    BY <1>4 DEF Answer, socket
  <2>2. k \in CallType /\ k.kind = call[c].kind /\ k.sock = call[c].sock
        /\ k.user = call[c].user /\ k.ticket = call[c].ticket
    BY <1>0 DEF CallType
  <2> QED
    BY <1>0, <2>1, <2>2 DEF CallOK, Free
<1>5. ASSUME NEW c \in Calls, Refused(c) \/ Completes(c)
      PROVE  call' \in [Calls -> CallType] /\ CallOK'
  <2>1. call' = [call EXCEPT ![c] = Idle] /\ conn' = conn
    BY <1>5 DEF Refused, Completes, AuthCompletes, SubscribeCompletes, socket
  <2> QED
    BY <1>0, <2>1 DEF CallOK, Free
<1>6. CASE Shutdown
  <2>1. call' = call /\ \A x \in Sockets : conn[x] # "new" => conn'[x] # "new"
    BY <1>6, <1>a DEF Shutdown, calls
  <2> QED
    BY <1>0, <2>1 DEF CallOK, Free
<1>7. CASE UNCHANGED vars
  BY <1>0, <1>7 DEF vars, CallOK, Free
<1> QED
  BY <1>1, <1>2, <1>3, <1>4, <1>5, <1>6, <1>7 DEF Next, Completes

(* So do the rooms, on both sides.                                         *)
LEMMA RoomsType ==
  ASSUME TypeOK, CallOK, [Next]_vars
  PROVE  /\ rooms' \in [Sockets -> SUBSET Rooms]
         /\ members' \in [Rooms -> SUBSET Sockets]
         /\ clients' \subseteq Sockets
<1>0. /\ rooms \in [Sockets -> SUBSET Rooms] /\ members \in [Rooms -> SUBSET Sockets]
      /\ clients \subseteq Sockets
  BY DEF TypeOK
<1>1. ASSUME NEW s \in Sockets, Disconnect(s)
      PROVE  /\ rooms' \in [Sockets -> SUBSET Rooms]
             /\ members' \in [Rooms -> SUBSET Sockets]
             /\ clients' \subseteq Sockets
  <2>1. CASE s \in clients
    <3>1. RoomsToLeave(s) \in SUBSET Rooms
      BY <1>0 DEF RoomsToLeave
    <3> QED
      BY <1>0, <1>1, <2>1, <3>1, LeaveEffect DEF Disconnect
  <2>2. CASE s \notin clients
    BY <1>0, <1>1, <2>2 DEF Disconnect, registry
  <2> QED
    BY <2>1, <2>2
<1>2. ASSUME NEW s \in Sockets, NEW t \in Tickets, Unsubscribe(s, t)
      PROVE  /\ rooms' \in [Sockets -> SUBSET Rooms]
             /\ members' \in [Rooms -> SUBSET Sockets]
             /\ clients' \subseteq Sockets
  <2>1. Leave(s, {TicketRoom(t)}) /\ clients' = clients /\ {TicketRoom(t)} \in SUBSET Rooms
    BY <1>2, RoomKinds DEF Unsubscribe
  <2> QED
    BY <1>0, <2>1, LeaveEffect
<1>3. ASSUME NEW c \in Calls, Completes(c)
      PROVE  /\ rooms' \in [Sockets -> SUBSET Rooms]
             /\ members' \in [Rooms -> SUBSET Sockets]
             /\ clients' \subseteq Sockets
  <2> DEFINE s == call[c].sock
             rs == IF call[c].kind = "auth" THEN HomeRooms(call[c].user)
                                            ELSE {TicketRoom(call[c].ticket)}
  <2>1. s \in Sockets /\ rs \in SUBSET Rooms
    BY <1>3, NotFree, RoomKinds
  <2>2. Join(s, rs) /\ clients' = clients
    BY <1>3 DEF Completes, AuthCompletes, SubscribeCompletes
  <2> HIDE DEF s, rs
  <2> QED
    BY <1>0, <2>1, <2>2, JoinEffect
<1>4. ASSUME \/ \E s \in Sockets : \/ Connect(s) \/ AuthTimeout(s) \/ StartClose(s)
                                   \/ \E u \in Users, c \in Calls : AuthArrives(s, u, c)
                                   \/ \E t \in Tickets, c \in Calls : SubscribeArrives(s, t, c)
             \/ \E c \in Calls : Refused(c) \/ \E verdict \in {"yes", "no"} : Answer(c, verdict)
             \/ Shutdown \/ UNCHANGED vars
      PROVE  /\ rooms' \in [Sockets -> SUBSET Rooms]
             /\ members' \in [Rooms -> SUBSET Sockets]
             /\ clients' \subseteq Sockets
  BY <1>0, <1>4 DEF Connect, AuthTimeout, StartClose, AuthArrives, SubscribeArrives,
                    Refused, Answer, Shutdown, registry, vars
<1> QED
  BY <1>1, <1>2, <1>3, <1>4 DEF Next, Completes

(* And the rest.                                                           *)
LEMMA SocketType ==
  ASSUME TypeOK, CallOK, [Next]_vars
  PROVE  /\ conn' \in [Sockets -> {"new", "open", "closing", "closed"}]
         /\ actor' \in [Sockets -> Users \cup {None}]
         /\ timer' \in [Sockets -> BOOLEAN]
         /\ arrived' \in 0..MaxCalls
<1>0. /\ conn \in [Sockets -> {"new", "open", "closing", "closed"}]
      /\ actor \in [Sockets -> Users \cup {None}]
      /\ timer \in [Sockets -> BOOLEAN]
      /\ arrived \in 0..MaxCalls /\ MaxCalls \in Nat
  BY GatewayAssumption DEF TypeOK
<1>1. conn' \in [Sockets -> {"new", "open", "closing", "closed"}]
  BY <1>0 DEF Next, vars, Connect, AuthTimeout, TimedOut, StartClose, Disconnect,
     AuthArrives, SubscribeArrives, Answer, Refused, AuthCompletes, SubscribeCompletes,
     Unsubscribe, Shutdown, socket
<1>2. actor' \in [Sockets -> Users \cup {None}]
  <2>1. ASSUME NEW c \in Calls, AuthCompletes(c)
        PROVE  actor' \in [Sockets -> Users \cup {None}]
    BY <1>0, <2>1, NotFree DEF Completes, AuthCompletes
  <2> QED
    BY <1>0, <2>1 DEF Next, vars, Connect, AuthTimeout, StartClose, Disconnect,
     AuthArrives, SubscribeArrives, Answer, Refused, SubscribeCompletes,
     Unsubscribe, Shutdown, socket
<1>3. timer' \in [Sockets -> BOOLEAN]
  <2>1. \/ timer' = timer
        \/ \E s \in Sockets : \/ timer' = [timer EXCEPT ![s] = TRUE]
                              \/ timer' = [timer EXCEPT ![s] = FALSE]
    <3>1. ASSUME NEW c \in Calls, AuthCompletes(c)
          PROVE  \E s \in Sockets : timer' = [timer EXCEPT ![s] = FALSE]
      BY <3>1, NotFree DEF Completes, AuthCompletes
    <3> QED
      BY <3>1 DEF Next, vars, Connect, AuthTimeout, StartClose, Disconnect,
       AuthArrives, SubscribeArrives, Answer, Refused, SubscribeCompletes,
       Unsubscribe, Shutdown, socket
  <2> QED
    BY <1>0, <2>1
<1>4. arrived' \in 0..MaxCalls
  <2>1. arrived' = arrived \/ (arrived < MaxCalls /\ arrived' = arrived + 1)
    BY DEF Next, vars, Connect, AuthTimeout, StartClose, Disconnect,
       AuthArrives, SubscribeArrives, Answer, Refused, AuthCompletes, SubscribeCompletes,
       Unsubscribe, Shutdown, calls
  <2> QED
    BY <1>0, <2>1
<1> QED
  BY <1>1, <1>2, <1>3, <1>4

LEMMA HistoryType ==
  ASSUME TypeOK, CallOK, [Next]_vars
  PROVE  /\ told' \in [Sockets -> SUBSET Tickets]
         /\ wish' \in [Sockets -> SUBSET Tickets]
         /\ shown' \subseteq Sockets \X Users \X Tickets
         /\ raced' \in [Sockets -> SUBSET {"auth", "close", "unsubscribe"}]
<1>0. /\ told \in [Sockets -> SUBSET Tickets]
      /\ wish \in [Sockets -> SUBSET Tickets]
      /\ shown \subseteq Sockets \X Users \X Tickets
      /\ raced \in [Sockets -> SUBSET {"auth", "close", "unsubscribe"}]
  BY DEF TypeOK
<1>1. told' \in [Sockets -> SUBSET Tickets]
  <2>1. \/ told' = told
        \/ \E s \in Sockets, t \in Tickets : \/ told' = [told EXCEPT ![s] = @ \cup {t}]
                                            \/ told' = [told EXCEPT ![s] = @ \ {t}]
    <3>1. ASSUME NEW c \in Calls, SubscribeCompletes(c)
          PROVE  told' = told \/ \E s \in Sockets, t \in Tickets :
                                    told' = [told EXCEPT ![s] = @ \cup {t}]
      BY <3>1, NotFree DEF Completes, SubscribeCompletes
    <3> QED
      BY <3>1 DEF Next, vars, Connect, AuthTimeout, StartClose, Disconnect,
       AuthArrives, SubscribeArrives, Answer, Refused, AuthCompletes,
       Unsubscribe, Shutdown, history
  <2> QED
    BY <1>0, <2>1
<1>3. wish' \in [Sockets -> SUBSET Tickets]
  <2>1. \/ wish' = wish
        \/ \E s \in Sockets, t \in Tickets : \/ wish' = [wish EXCEPT ![s] = @ \cup {t}]
                                            \/ wish' = [wish EXCEPT ![s] = @ \ {t}]
    BY DEF Next, vars, Connect, AuthTimeout, StartClose, Disconnect,
       AuthArrives, SubscribeArrives, Answer, Refused, AuthCompletes, SubscribeCompletes,
       Unsubscribe, Shutdown, history
  <2> QED
    BY <1>0, <2>1
<1>4. ASSUME NEW c \in Calls, NEW verdict \in {"yes", "no"}, Answer(c, verdict)
      PROVE  shown' \subseteq Sockets \X Users \X Tickets
  <2>1. /\ call[c].sock \in Sockets /\ call[c].user \in Users
        /\ call[c].kind = "subscribe" => call[c].ticket \in Tickets
    BY <1>4 DEF Answer, CallOK
  <2> QED
    BY <1>0, <1>4, <2>1 DEF Answer
<1>5. shown' \subseteq Sockets \X Users \X Tickets
  BY <1>0, <1>4 DEF Next, vars, Connect, AuthTimeout, StartClose, Disconnect,
     AuthArrives, SubscribeArrives, Refused, AuthCompletes, SubscribeCompletes,
     Unsubscribe, Shutdown, history
<1>6. raced' \in [Sockets -> SUBSET {"auth", "close", "unsubscribe"}]
  <2>1. CASE Shutdown
    BY <1>0, <2>1 DEF Shutdown
  <2>2. CASE ~Shutdown
    <3>1. \/ raced' = raced
          \/ \E s \in Sockets, what \in {"auth", "close", "unsubscribe"} :
                raced' = [raced EXCEPT ![s] = @ \cup {what}]
      BY <2>2 DEF Race, Next, vars, Connect, AuthTimeout, StartClose, Disconnect,
       AuthArrives, SubscribeArrives, Answer, Refused, AuthCompletes, SubscribeCompletes,
       Unsubscribe, history
    <3> QED
      BY <1>0, <3>1
  <2> QED
    BY <2>1, <2>2
<1> QED
  BY <1>1, <1>3, <1>5, <1>6

LEMMA TypeStep ==
  ASSUME TypeOK, CallOK, [Next]_vars
  PROVE  TypeOK' /\ CallOK'
BY CallsType, RoomsType, SocketType, HistoryType DEF TypeOK, CallType

LEMMA TypeInit == ASSUME Init PROVE TypeOK /\ CallOK
BY GatewayAssumption DEF Init, TypeOK, CallOK, Free, Idle, Pending

\* THEOREM: whatever messages, answers and closings interleave, all variables of
\* the gateway stay of their types.
THEOREM TypeCorrect == Spec => []TypeOK
<1>1. Init => TypeOK /\ CallOK
  BY TypeInit
<1>2. TypeOK /\ CallOK /\ [Next]_vars => (TypeOK /\ CallOK)'
  BY TypeStep
<1> QED
  BY <1>1, <1>2, PTL DEF Spec

-----------------------------------------------------------------------------
(* What each step does to the rooms.                                       *)

(* The rooms a handler joins.                                              *)
Joined(k) == IF k.kind = "auth" THEN HomeRooms(k.user) ELSE {TicketRoom(k.ticket)}

LEMMA CompletionEffect ==
  ASSUME TypeOK, CallOK, NEW c \in Calls, Completes(c)
  PROVE  /\ Joined(call[c]) \subseteq Rooms
         /\ \A x \in Sockets, r \in Rooms :
              /\ r \in rooms'[x] <=> \/ r \in rooms[x]
                                     \/ x = call[c].sock /\ r \in Joined(call[c])
              /\ x \in members'[r] <=> \/ x \in members[r]
                                       \/ /\ x = call[c].sock /\ r \in Joined(call[c])
                                          /\ r \notin rooms[x]
         /\ call' = [call EXCEPT ![c] = Idle]
         /\ UNCHANGED <<conn, clients, wish, shown, raced>>
<1> DEFINE s == call[c].sock
           rs == Joined(call[c])
<1>1. s \in Sockets /\ rs \in SUBSET Rooms
  BY NotFree, RoomKinds DEF Joined
<1>2. Join(s, rs)
  BY DEF Completes, AuthCompletes, SubscribeCompletes, Joined
<1>3. call' = [call EXCEPT ![c] = Idle] /\ UNCHANGED <<conn, clients, wish, shown, raced>>
  BY DEF Completes, AuthCompletes, SubscribeCompletes, socket, history
<1> HIDE DEF s, rs
<1>4. \A x \in Sockets, r \in Rooms :
         /\ r \in rooms'[x] <=> r \in rooms[x] \/ (x = s /\ r \in rs)
         /\ x \in members'[r] <=> \/ x \in members[r]
                                  \/ x = s /\ r \in rs /\ r \notin rooms[s]
  BY <1>1, <1>2, JoinEffect
<1> QED
  BY <1>1, <1>3, <1>4 DEF s, rs

LEMMA DisconnectEffect ==
  ASSUME TypeOK, NEW s \in Sockets, Disconnect(s)
  PROVE  \A x \in Sockets, r \in Rooms :
           /\ r \in rooms'[x] <=> r \in rooms[x] /\ ~(x = s /\ s \in clients)
           /\ x \in members'[r] <=> /\ x \in members[r]
                                    /\ ~(x = s /\ s \in clients /\ r \in rooms[s])
<1>1. CASE s \in clients
  <2> DEFINE rs == rooms[s]
  <2>1. rs \in SUBSET Rooms
    BY DEF TypeOK
  <2>2. Leave(s, rs)
    BY <1>1 DEF Disconnect, RoomsToLeave
  <2> HIDE DEF rs
  <2>3. \A x \in Sockets, r \in Rooms :
          /\ r \in rooms'[x] <=> r \in rooms[x] /\ ~(x = s /\ r \in rs)
          /\ x \in members'[r] <=> x \in members[r] /\ ~(x = s /\ r \in rs)
    BY <2>1, <2>2, LeaveEffect
  <2> QED
    BY <1>1, <2>3 DEF rs
<1>2. CASE s \notin clients
  BY <1>2 DEF Disconnect, registry
<1> QED
  BY <1>1, <1>2

LEMMA UnsubscribeEffect ==
  ASSUME TypeOK, NEW s \in Sockets, NEW t \in Tickets, Unsubscribe(s, t)
  PROVE  /\ \A x \in Sockets, r \in Rooms :
              /\ r \in rooms'[x] <=> r \in rooms[x] /\ ~(x = s /\ r = TicketRoom(t))
              /\ x \in members'[r] <=> x \in members[r] /\ ~(x = s /\ r = TicketRoom(t))
         /\ UNCHANGED <<conn, actor, clients, call, shown>>
<1>1. Leave(s, {TicketRoom(t)}) /\ {TicketRoom(t)} \in SUBSET Rooms
  BY RoomKinds DEF Unsubscribe
<1>2. \A x \in Sockets, r \in Rooms :
         /\ r \in rooms'[x] <=> r \in rooms[x] /\ ~(x = s /\ r \in {TicketRoom(t)})
         /\ x \in members'[r] <=> x \in members[r] /\ ~(x = s /\ r \in {TicketRoom(t)})
  BY <1>1, LeaveEffect
<1>3. UNCHANGED <<conn, actor, clients, call, shown>>
  BY DEF Unsubscribe, socket, calls
<1> QED
  BY <1>2, <1>3

-----------------------------------------------------------------------------
(* The two records of who is in which room.                                *)

(* An open socket is known; one that has not connected, or has closed, is  *)
(* not.                                                                    *)
Known ==
  \A s \in Sockets :
    /\ conn[s] = "open" => s \in clients
    /\ conn[s] \in {"new", "closed"} => s \notin clients

(* Nothing is recorded of a socket before it connects.                     *)
Fresh ==
  \A s \in Sockets : conn[s] = "new" =>
    /\ rooms[s] = {} /\ told[s] = {} /\ actor[s] = None
    /\ \A r \in Rooms : s \notin members[r]

LEMMA KnownStep ==
  ASSUME TypeOK, CallOK, Known, [Next]_vars
  PROVE  Known'
<1>0. conn \in [Sockets -> {"new", "open", "closing", "closed"}] /\ clients \subseteq Sockets
  BY DEF TypeOK
<1>1. ASSUME NEW s \in Sockets,
             Connect(s) \/ AuthTimeout(s) \/ StartClose(s) \/ Disconnect(s)
      PROVE  Known'
  BY <1>0, <1>1 DEF Known, Connect, AuthTimeout, TimedOut, StartClose, Disconnect, registry
<1>2. CASE Shutdown
  BY <1>0, <1>2 DEF Known, Shutdown
<1>3. CASE UNCHANGED <<conn, clients>>
  BY <1>3 DEF Known
<1>4. ASSUME NEW c \in Calls, Completes(c)
      PROVE  UNCHANGED <<conn, clients>>
  BY <1>4, CompletionEffect
<1>5. ASSUME NEW s \in Sockets, NEW t \in Tickets, Unsubscribe(s, t)
      PROVE  UNCHANGED <<conn, clients>>
  BY <1>5, UnsubscribeEffect
<1> QED
  BY <1>1, <1>2, <1>3, <1>4, <1>5 DEF Next, vars, AuthArrives, SubscribeArrives, Answer,
                                      Refused, Completes, socket, registry

LEMMA FreshStep ==
  ASSUME TypeOK, CallOK, Fresh, [Next]_vars
  PROVE  Fresh'
<1>0. /\ conn \in [Sockets -> {"new", "open", "closing", "closed"}]
      /\ rooms \in [Sockets -> SUBSET Rooms] /\ rooms' \in [Sockets -> SUBSET Rooms]
      /\ actor \in [Sockets -> Users \cup {None}]
      /\ told \in [Sockets -> SUBSET Tickets] /\ told' \in [Sockets -> SUBSET Tickets]
  BY TypeStep DEF TypeOK
<1>1. ASSUME NEW s \in Sockets, Connect(s) \/ AuthTimeout(s) \/ StartClose(s)
      PROVE  Fresh'
  BY <1>0, <1>1 DEF Fresh, Connect, AuthTimeout, TimedOut, StartClose, registry, history
<1>2. ASSUME NEW s \in Sockets, Disconnect(s)
      PROVE  Fresh'
  <2>1. conn' = [conn EXCEPT ![s] = "closed"] /\ told' = told /\ actor' = actor
    BY <1>2 DEF Disconnect
  <2> QED
    BY <1>0, <1>2, <2>1, DisconnectEffect DEF Fresh
<1>3. ASSUME NEW s \in Sockets, NEW t \in Tickets, Unsubscribe(s, t)
      PROVE  Fresh'
  <2>1. told' = [told EXCEPT ![s] = @ \ {t}]
    BY <1>3 DEF Unsubscribe
  <2> QED
    BY <1>0, <1>3, <2>1, UnsubscribeEffect DEF Fresh
<1>4. ASSUME NEW c \in Calls, Completes(c)
      PROVE  Fresh'
  <2>1. \A x \in Sockets : x # call[c].sock => told'[x] = told[x] /\ actor'[x] = actor[x]
    BY <1>0, <1>4, NotFree DEF Completes, AuthCompletes, SubscribeCompletes, history, socket
  <2>2. conn[call[c].sock] # "new" /\ conn' = conn
    BY <1>4, NotFree, CompletionEffect
  <2> QED
    BY <1>0, <1>4, <2>1, <2>2, CompletionEffect DEF Fresh
<1>5. CASE Shutdown
  BY <1>0, <1>5 DEF Fresh, Shutdown
<1>6. CASE UNCHANGED <<conn, rooms, told, actor, members>>
  BY <1>6 DEF Fresh
<1> QED
  BY <1>1, <1>2, <1>3, <1>4, <1>5, <1>6 DEF Next, vars, AuthArrives, SubscribeArrives,
                                 Answer, Refused, Completes, socket, registry, history

LEMMA MirrorStep ==
  ASSUME TypeOK, CallOK, Known, Fresh, RoomsMirror, [Next]_vars
  PROVE  RoomsMirror'
<1>0. clients \subseteq Sockets
      /\ members \in [Rooms -> SUBSET Sockets] /\ members' \in [Rooms -> SUBSET Sockets]
  BY TypeStep DEF TypeOK
<1>1. ASSUME NEW s \in Sockets, Connect(s)
      PROVE  RoomsMirror'
  BY <1>0, <1>1 DEF RoomsMirror, Fresh, Connect
<1>2. ASSUME NEW s \in Sockets, Disconnect(s)
      PROVE  RoomsMirror'
  <2>1. clients' = clients \ {s}
    BY <1>2 DEF Disconnect, registry
  <2> QED
    BY <1>2, <2>1, DisconnectEffect DEF RoomsMirror
<1>3. ASSUME NEW s \in Sockets, NEW t \in Tickets, Unsubscribe(s, t)
      PROVE  RoomsMirror'
  BY <1>3, UnsubscribeEffect DEF RoomsMirror
<1>4. ASSUME NEW c \in Calls, Completes(c)
      PROVE  RoomsMirror'
  BY <1>4, CompletionEffect DEF RoomsMirror
<1>5. CASE Shutdown
  BY <1>0, <1>5 DEF RoomsMirror, Shutdown
<1>6. CASE UNCHANGED registry
  BY <1>6 DEF RoomsMirror, registry
<1> QED
  BY <1>1, <1>2, <1>3, <1>4, <1>5, <1>6 DEF Next, vars, AuthTimeout, StartClose,
          AuthArrives, SubscribeArrives, Answer, Refused, Completes, registry

MirrorInv == TypeOK /\ CallOK /\ Known /\ Fresh /\ RoomsMirror

LEMMA MirrorInit == ASSUME Init PROVE MirrorInv
<1>1. Known /\ Fresh /\ RoomsMirror
  BY DEF Init, Known, Fresh, RoomsMirror
<1> QED
  BY <1>1, TypeInit DEF MirrorInv

LEMMA MirrorInvStep == ASSUME MirrorInv, [Next]_vars PROVE MirrorInv'
BY TypeStep, KnownStep, FreshStep, MirrorStep DEF MirrorInv

\* THEOREM: the socket's own set of rooms and the gateway's map of members agree
\* for every socket the gateway knows, however late a handler completes.
THEOREM RoomsAgree == Spec => []RoomsMirror
<1>1. Init => MirrorInv
  BY MirrorInit
<1>2. MirrorInv /\ [Next]_vars => MirrorInv'
  BY MirrorInvStep
<1>3. MirrorInv => RoomsMirror
  BY DEF MirrorInv
<1> QED
  BY <1>1, <1>2, <1>3, PTL DEF Spec

-----------------------------------------------------------------------------
(* What a step does to the handlers in flight and to the history.          *)

LEMMA RacedGrows ==
  ASSUME TypeOK, [Next]_vars, NEW x \in Sockets
  PROVE  raced[x] \subseteq raced'[x]
<1>0. raced \in [Sockets -> SUBSET {"auth", "close", "unsubscribe"}]
  BY DEF TypeOK
<1>1. CASE Shutdown
  BY <1>0, <1>1 DEF Shutdown
<1>2. CASE ~Shutdown
  <2>1. \/ raced' = raced
        \/ \E s \in Sockets, what \in {"auth", "close", "unsubscribe"} :
              raced' = [raced EXCEPT ![s] = @ \cup {what}]
    BY <1>2 DEF Race, Next, vars, Connect, AuthTimeout, StartClose, Disconnect,
       AuthArrives, SubscribeArrives, Answer, Refused, AuthCompletes, SubscribeCompletes,
       Unsubscribe, history
  <2> QED
    BY <1>0, <2>1
<1> QED
  BY <1>1, <1>2

(* A handler in flight was in flight, for the same question, or arrives.   *)
LEMMA CallEffect ==
  ASSUME TypeOK, CallOK, [Next]_vars, NEW c \in Calls, call'[c] # Idle
  PROVE  \/ /\ ~Free(c)
            /\ call'[c].kind = call[c].kind /\ call'[c].sock = call[c].sock
            /\ call'[c].user = call[c].user /\ call'[c].ticket = call[c].ticket
            /\ \/ call'[c].verdict = call[c].verdict
               \/ Answer(c, call'[c].verdict)
         \/ \E s \in Sockets, u \in Users :
               AuthArrives(s, u, c) /\ call'[c] = Pending("auth", s, u, None)
         \/ \E s \in Sockets, t \in Tickets :
               /\ SubscribeArrives(s, t, c)
               /\ call'[c] = Pending("subscribe", s, actor[s], t)
<1>0. call \in [Calls -> CallType]
  BY DEF TypeOK, CallType
<1>1. CASE call'[c] = call[c]
  BY <1>1 DEF Free
<1>2. ASSUME NEW d \in Calls, NEW verdict \in {"yes", "no"}, Answer(d, verdict),
             call'[c] # call[c]
      PROVE  /\ d = c /\ ~Free(c)
             /\ call'[c].kind = call[c].kind /\ call'[c].sock = call[c].sock
             /\ call'[c].user = call[c].user /\ call'[c].ticket = call[c].ticket
             /\ call'[c].verdict = verdict
  <2> DEFINE k == [call[d] EXCEPT !.verdict = verdict]
  <2>1. call' = [call EXCEPT ![d] = k] /\ ~Free(d)
    BY <1>2 DEF Answer
  <2>2. k.kind = call[d].kind /\ k.sock = call[d].sock /\ k.user = call[d].user
        /\ k.ticket = call[d].ticket /\ k.verdict = verdict
    BY <1>0 DEF CallType
  <2> HIDE DEF k
  <2>3. d = c /\ call'[c] = k
    BY <1>0, <1>2, <2>1
  <2> QED
    BY <2>1, <2>2, <2>3
<1>3. ASSUME NEW s \in Sockets, NEW u \in Users, NEW d \in Calls, AuthArrives(s, u, d),
             call'[c] # call[c]
      PROVE  d = c /\ call'[c] = Pending("auth", s, u, None)
  BY <1>0, <1>3 DEF AuthArrives
<1>4. ASSUME NEW s \in Sockets, NEW t \in Tickets, NEW d \in Calls, SubscribeArrives(s, t, d),
             call'[c] # call[c]
      PROVE  d = c /\ call'[c] = Pending("subscribe", s, actor[s], t)
  BY <1>0, <1>4 DEF SubscribeArrives
<1>5. ASSUME NEW d \in Calls, Refused(d) \/ Completes(d)
      PROVE  call'[c] = call[c]
  BY <1>0, <1>5 DEF Refused, Completes, AuthCompletes, SubscribeCompletes
<1>6. ASSUME NEW s \in Sockets,
             Connect(s) \/ AuthTimeout(s) \/ StartClose(s) \/ Disconnect(s)
             \/ \E t \in Tickets : Unsubscribe(s, t)
      PROVE  call'[c] = call[c]
  BY <1>6 DEF Connect, AuthTimeout, StartClose, Disconnect, Unsubscribe, calls
<1>7. CASE Shutdown \/ UNCHANGED vars
  BY <1>1, <1>7 DEF Shutdown, calls, vars
<1> QED
  BY <1>1, <1>2, <1>3, <1>4, <1>5, <1>6, <1>7 DEF Next, Completes

(* Joining, of a socket the gateway knows.                                 *)
LEMMA KnownJoin ==
  ASSUME TypeOK, CallOK, RoomsMirror, NEW c \in Calls, Completes(c),
         NEW x \in clients, NEW r \in Rooms
  PROVE  x \in members'[r] <=> \/ x \in members[r]
                               \/ x = call[c].sock /\ r \in Joined(call[c])
<1>1. x \in Sockets
  BY DEF TypeOK
<1> QED
  BY <1>1, CompletionEffect DEF RoomsMirror

(* A socket is in a room it was not in only after a completed handler.     *)
LEMMA MemberEffect ==
  ASSUME TypeOK, CallOK, [Next]_vars, NEW x \in Sockets, NEW r \in Rooms,
         x \in members'[r]
  PROVE  \/ x \in members[r]
         \/ \E c \in Calls : Completes(c) /\ x = call[c].sock /\ r \in Joined(call[c])
<1>1. ASSUME NEW s \in Sockets, Disconnect(s)
      PROVE  x \in members[r]
  BY <1>1, DisconnectEffect
<1>2. ASSUME NEW s \in Sockets, NEW t \in Tickets, Unsubscribe(s, t)
      PROVE  x \in members[r]
  BY <1>2, UnsubscribeEffect
<1>3. ASSUME NEW c \in Calls, Completes(c)
      PROVE  x \in members[r] \/ (x = call[c].sock /\ r \in Joined(call[c]))
  BY <1>3, CompletionEffect
<1>4. CASE Shutdown
  BY <1>4 DEF Shutdown
<1>5. CASE UNCHANGED members
  BY <1>5
<1> QED
  BY <1>1, <1>2, <1>3, <1>4, <1>5 DEF Next, vars, Connect, AuthTimeout, StartClose,
          AuthArrives, SubscribeArrives, Answer, Refused, Completes, registry

(* A socket that stays open stays in its rooms, but for what it takes back. *)
LEMMA OpenKeeps ==
  ASSUME TypeOK, CallOK, Known, [Next]_vars, NEW x \in Sockets, NEW r \in Rooms,
         conn[x] # "closed", conn'[x] = "open", x \in members[r]
  PROVE  x \in members'[r] \/ \E t \in Tickets : r = TicketRoom(t) /\ Unsubscribe(x, t)
<1>0. conn \in [Sockets -> {"new", "open", "closing", "closed"}]
  BY DEF TypeOK
<1>1. ASSUME NEW s \in Sockets, Disconnect(s)
      PROVE  x \in members'[r]
  <2>1. x # s
    BY <1>0, <1>1 DEF Disconnect
  <2> QED
    BY <1>1, <2>1, DisconnectEffect
<1>2. ASSUME NEW s \in Sockets, NEW t \in Tickets, Unsubscribe(s, t)
      PROVE  x \in members'[r] \/ (x = s /\ r = TicketRoom(t))
  BY <1>2, UnsubscribeEffect
<1>3. ASSUME NEW c \in Calls, Completes(c)
      PROVE  x \in members'[r]
  BY <1>3, CompletionEffect
<1>4. CASE Shutdown
  BY <1>0, <1>4 DEF Shutdown, Known
<1>5. CASE UNCHANGED members
  BY <1>5
<1> QED
  BY <1>1, <1>2, <1>3, <1>4, <1>5 DEF Next, vars, Connect, AuthTimeout, StartClose,
          AuthArrives, SubscribeArrives, Answer, Refused, Completes, registry

-----------------------------------------------------------------------------
(* Membership is earned.                                                   *)

InUse(c, s) == ~Free(c) /\ call[c].sock = s

(* A socket the gateway does not know is in no room and has no handler, or  *)
(* its close overtook one.                                                  *)
Left ==
  \A s \in Sockets : s \notin clients /\ "close" \notin raced[s] =>
    /\ \A c \in Calls : ~InUse(c, s)
    /\ \A r \in Rooms : s \notin members[r]

(* One token is being checked at a time, of a socket without an actor, or a *)
(* second one overtook it.                                                  *)
OneToken ==
  \A s \in Sockets : "auth" \notin raced[s] =>
    \A c \in Calls : InUse(c, s) /\ call[c].kind = "auth" =>
      /\ actor[s] = None
      /\ \A d \in Calls : InUse(d, s) /\ call[d].kind = "auth" => c = d

(* So that the rooms of an identity are those of the actor.                 *)
Identity ==
  \A s \in Sockets : "auth" \notin raced[s] =>
    /\ \A u \in Users : s \in members[UserRoom(u)] => actor[s] = u
    /\ s \in members[AdminRoom] => actor[s] \in SuperAdmins

(* The handlers of one socket come from its messages.                      *)
LEMMA InUseEffect ==
  ASSUME TypeOK, CallOK, [Next]_vars, NEW s \in Sockets, NEW c \in Calls, InUse(c, s)'
  PROVE  \/ /\ InUse(c, s)
            /\ call'[c].kind = call[c].kind /\ call'[c].user = call[c].user
            /\ call'[c].ticket = call[c].ticket
         \/ /\ call'[c].kind = "auth"
            /\ \E u \in Users : AuthArrives(s, u, c)
         \/ /\ call'[c].kind = "subscribe" /\ call'[c].user = actor[s]
            /\ \E t \in Tickets : call'[c].ticket = t /\ SubscribeArrives(s, t, c)
<1>1. call'[c] # Idle /\ call'[c].sock = s
  BY DEF InUse, Free, Idle
<1>2. CASE ~Free(c) /\ call'[c].sock = call[c].sock
           /\ call'[c].kind = call[c].kind /\ call'[c].user = call[c].user
           /\ call'[c].ticket = call[c].ticket
  BY <1>1, <1>2 DEF InUse
<1>3. ASSUME NEW x \in Sockets, NEW u \in Users, AuthArrives(x, u, c),
             call'[c] = Pending("auth", x, u, None)
      PROVE  call'[c].kind = "auth" /\ AuthArrives(s, u, c)
  <2>1. call'[c].kind = "auth" /\ x = s
    BY <1>1, <1>3 DEF Pending
  <2> QED
    BY <1>3, <2>1
<1>4. ASSUME NEW x \in Sockets, NEW t \in Tickets, SubscribeArrives(x, t, c),
             call'[c] = Pending("subscribe", x, actor[x], t)
      PROVE  /\ call'[c].kind = "subscribe" /\ call'[c].user = actor[s]
             /\ call'[c].ticket = t /\ SubscribeArrives(s, t, c)
  <2>1. /\ call'[c].kind = "subscribe" /\ x = s /\ call'[c].user = actor[x]
        /\ call'[c].ticket = t
    BY <1>1, <1>4 DEF Pending
  <2> QED
    BY <1>4, <2>1
<1> QED
  BY <1>1, <1>2, <1>3, <1>4, CallEffect

LEMMA LeftStep ==
  ASSUME MirrorInv, Left, [Next]_vars
  PROVE  Left'
<1> SUFFICES ASSUME NEW s \in Sockets, s \notin clients', "close" \notin raced'[s]
             PROVE  /\ \A c \in Calls : ~InUse(c, s)'
                    /\ \A r \in Rooms : s \notin members'[r]
  BY DEF Left
<1>0. TypeOK /\ CallOK /\ Known /\ RoomsMirror /\ "close" \notin raced[s]
  BY RacedGrows DEF MirrorInv
<1>1. CASE s \notin clients
  <2>1. \A c \in Calls : ~InUse(c, s)
    BY <1>0, <1>1 DEF Left
  <2>2. \A c \in Calls : ~InUse(c, s)'
    <3> SUFFICES ASSUME NEW c \in Calls, InUse(c, s)' PROVE FALSE
      OBVIOUS
    <3>1. conn[s] # "open"
      BY <1>0, <1>1 DEF Known
    <3> QED
      BY <1>0, <2>1, <3>1, InUseEffect DEF AuthArrives, SubscribeArrives
  <2>3. \A r \in Rooms : s \notin members'[r]
    <3> SUFFICES ASSUME NEW r \in Rooms, s \in members'[r] PROVE FALSE
      OBVIOUS
    <3>1. s \notin members[r]
      BY <1>0, <1>1 DEF Left
    <3>2. PICK c \in Calls : Completes(c) /\ s = call[c].sock
      BY <1>0, <3>1, MemberEffect
    <3> QED
      BY <1>0, <2>1, <3>2, NotFree DEF InUse
  <2> QED
    BY <2>2, <2>3
<1>2. CASE s \in clients
  <2>1. ASSUME NEW x \in Sockets, Disconnect(x)
        PROVE  /\ x = s /\ InFlight(s) = {} /\ call' = call
               /\ \A r \in Rooms : s \notin members'[r]
    <3>1. x = s
      BY <1>2, <2>1 DEF Disconnect, registry
    <3>2. InFlight(s) = {}
      <4>1. raced \in [Sockets -> SUBSET {"auth", "close", "unsubscribe"}]
        BY <1>0 DEF TypeOK
      <4> QED
        BY <2>1, <3>1, <4>1 DEF Disconnect, Race
    <3>3. \A r \in Rooms : s \notin members'[r]
      BY <1>0, <1>2, <2>1, <3>1, DisconnectEffect DEF RoomsMirror
    <3> QED
      BY <2>1, <3>1, <3>2, <3>3 DEF Disconnect, calls
  <2>2. CASE Shutdown
    <3>1. InFlight(s) = {} /\ call' = call /\ \A r \in Rooms : s \notin members'[r]
      BY <2>2 DEF Shutdown, calls
    <3> QED
      BY <3>1 DEF InFlight, InUse, Free
  <2>3. Shutdown \/ \E x \in Sockets : Disconnect(x)
    <3>1. ASSUME NEW c \in Calls, Completes(c)
          PROVE  clients' = clients
      BY <1>0, <3>1, CompletionEffect
    <3> QED
      BY <1>2, <3>1 DEF Next, vars, Connect, AuthTimeout, StartClose, AuthArrives,
                SubscribeArrives, Unsubscribe, Answer, Refused, Completes, registry
  <2> QED
    BY <2>1, <2>2, <2>3 DEF InFlight, InUse, Free
<1> QED
  BY <1>1, <1>2

LEMMA ActorEffect ==
  ASSUME TypeOK, CallOK, [Next]_vars, NEW s \in Sockets
  PROVE  \/ actor'[s] = actor[s]
         \/ \E c \in Calls : /\ AuthCompletes(c) /\ call[c].sock = s
                            /\ actor'[s] = call[c].user
<1>0. actor \in [Sockets -> Users \cup {None}]
  BY DEF TypeOK
<1>1. ASSUME NEW c \in Calls, AuthCompletes(c)
      PROVE  actor'[s] = actor[s] \/ (call[c].sock = s /\ actor'[s] = call[c].user)
  BY <1>0, <1>1 DEF AuthCompletes
<1> QED
  BY <1>1 DEF Next, vars, Connect, AuthTimeout, StartClose, Disconnect, AuthArrives,
     SubscribeArrives, Answer, Refused, SubscribeCompletes, Unsubscribe, Shutdown, socket

LEMMA OneTokenStep ==
  ASSUME TypeOK, CallOK, OneToken, [Next]_vars
  PROVE  OneToken'
<1> SUFFICES ASSUME NEW s \in Sockets, "auth" \notin raced'[s],
                    NEW c \in Calls, InUse(c, s)', call'[c].kind = "auth"
             PROVE  /\ actor'[s] = None
                    /\ \A d \in Calls : InUse(d, s)' /\ call'[d].kind = "auth" => c = d
  BY DEF OneToken
<1>0. "auth" \notin raced[s]
  BY RacedGrows
<1> DEFINE Was(d) == InUse(d, s) /\ call[d].kind = "auth"
           Comes(d) == \E u \in Users : AuthArrives(s, u, d)
<1>1. ASSUME NEW d \in Calls, InUse(d, s)', call'[d].kind = "auth"
      PROVE  Was(d) \/ Comes(d)
  BY <1>1, InUseEffect
<1>2. ASSUME NEW d \in Calls, Comes(d)
      PROVE  /\ \A e \in Calls : ~Was(e)
             /\ \A e \in Calls : Comes(e) => e = d
             /\ actor[s] = None /\ actor' = actor
  <2>1. PICK u \in Users : AuthArrives(s, u, d)
    BY <1>2
  <2>2. Authenticating(s) = {}
    <3>1. raced \in [Sockets -> SUBSET {"auth", "close", "unsubscribe"}]
      BY DEF TypeOK
    <3> QED
      BY <2>1, <3>1 DEF AuthArrives, Race
  <2>3. ASSUME NEW e \in Calls, Comes(e), e # d
        PROVE  FALSE
    <3>1. PICK v \in Users : AuthArrives(s, v, e)
      BY <2>3
    <3>2. call \in [Calls -> CallType]
      BY DEF TypeOK, CallType
    <3>3. call'[d] = Pending("auth", s, u, None) /\ call'[d] = call[d] /\ call[d] = Idle
      BY <2>1, <2>3, <3>1, <3>2 DEF AuthArrives, Free
    <3> QED
      BY <3>3 DEF Pending, Idle
  <2> QED
    BY <2>1, <2>2, <2>3 DEF AuthArrives, MayAuthenticate, socket, Authenticating, InFlight, InUse
<1>3. CASE Comes(c)
  BY <1>1, <1>2, <1>3
<1>4. CASE Was(c)
  <2>1. \A d \in Calls : InUse(d, s)' /\ call'[d].kind = "auth" => c = d
    BY <1>0, <1>1, <1>2, <1>4 DEF OneToken
  <2>2. actor[s] = None
    BY <1>0, <1>4 DEF OneToken
  <2>3. ASSUME NEW d \in Calls, AuthCompletes(d), call[d].sock = s
        PROVE  FALSE
    <3>1. InUse(d, s) /\ call[d].kind = "auth"
      BY <2>3, NotFree DEF InUse, Completes, AuthCompletes
    <3>2. d = c
      BY <1>0, <1>4, <3>1 DEF OneToken
    <3>3. call \in [Calls -> CallType] /\ call'[d] = Idle
      BY <2>3 DEF TypeOK, CallType, AuthCompletes
    <3> QED
      BY <3>2, <3>3 DEF InUse, Free
  <2> QED
    BY <2>1, <2>2, <2>3, ActorEffect
<1> QED
  BY <1>1, <1>3, <1>4

LEMMA IdentityStep ==
  ASSUME TypeOK, CallOK, OneToken, Identity, [Next]_vars
  PROVE  Identity'
<1> SUFFICES ASSUME NEW s \in Sockets, "auth" \notin raced'[s]
             PROVE  /\ \A u \in Users : s \in members'[UserRoom(u)] => actor'[s] = u
                    /\ s \in members'[AdminRoom] => actor'[s] \in SuperAdmins
  BY DEF Identity
<1>0. "auth" \notin raced[s]
  BY RacedGrows
<1>1. ASSUME NEW c \in Calls, AuthCompletes(c), call[c].sock = s
      PROVE  /\ \A u \in Users : s \in members'[UserRoom(u)] => actor'[s] = u
             /\ s \in members'[AdminRoom] => actor'[s] \in SuperAdmins
  <2>1. InUse(c, s) /\ call[c].kind = "auth" /\ call[c].user \in Users /\ Completes(c)
    BY <1>1, NotFree DEF InUse, Completes, AuthCompletes
  <2>2. actor[s] = None
    BY <1>0, <2>1 DEF OneToken
  <2>3. None \notin SuperAdmins /\ None \notin Users
    BY GatewayAssumption
  <2>4. /\ \A u \in Users : s \notin members[UserRoom(u)]
        /\ s \notin members[AdminRoom]
    BY <1>0, <2>2, <2>3 DEF Identity
  <2>5. actor'[s] = call[c].user
    BY <1>1 DEF AuthCompletes, TypeOK
  <2>6. Joined(call[c]) = HomeRooms(call[c].user)
    BY <2>1 DEF Joined
  <2>7. \A r \in Rooms : s \in members'[r] => s \in members[r] \/ r \in Joined(call[c])
    BY <2>1, CompletionEffect
  <2> QED
    BY <2>1, <2>4, <2>5, <2>6, <2>7, RoomKinds, RoomsDiffer
<1>2. CASE ~\E c \in Calls : AuthCompletes(c) /\ call[c].sock = s
  <2>1. actor'[s] = actor[s]
    BY <1>2, ActorEffect
  <2>2. ASSUME NEW r \in Rooms, s \in members'[r], \A t \in Tickets : r # TicketRoom(t)
        PROVE  s \in members[r]
    <3>1. ASSUME NEW c \in Calls, Completes(c), s = call[c].sock, r \in Joined(call[c])
          PROVE  FALSE
      <4>1. call[c].kind = "subscribe" /\ call[c].ticket \in Tickets
        BY <1>2, <3>1, NotFree DEF Completes, SubscribeCompletes
      <4> QED
        BY <2>2, <3>1, <4>1 DEF Joined
    <3> QED
      BY <2>2, <3>1, MemberEffect
  <2>3. /\ \A u \in Users : s \in members'[UserRoom(u)] => s \in members[UserRoom(u)]
        /\ s \in members'[AdminRoom] => s \in members[AdminRoom]
    BY <2>2, RoomKinds, RoomsDiffer
  <2> QED
    BY <1>0, <2>1, <2>3 DEF Identity
<1> QED
  BY <1>1, <1>2

(* An open socket is in the rooms of its actor, and in the personal room of *)
(* everybody in whose name it subscribes.                                  *)
Home ==
  \A s \in Sockets : conn[s] = "open" =>
    /\ \A u \in Users : actor[s] = u =>
         /\ s \in members[UserRoom(u)]
         /\ u \in SuperAdmins => s \in members[AdminRoom]
    /\ \A c \in Calls : InUse(c, s) /\ call[c].kind = "subscribe" =>
         s \in members[UserRoom(call[c].user)]

(* A socket that is open had connected before, or connects now.            *)
LEMMA WasOpen ==
  ASSUME TypeOK, CallOK, [Next]_vars, NEW s \in Sockets, conn'[s] = "open"
  PROVE  \/ conn[s] = "open"
         \/ /\ conn[s] = "new"
            /\ UNCHANGED <<actor, rooms, members, call, told, wish, shown, raced>>
<1>0. conn \in [Sockets -> {"new", "open", "closing", "closed"}]
  BY DEF TypeOK
<1>1. ASSUME NEW x \in Sockets, Connect(x)
      PROVE  \/ conn[s] = "open"
             \/ /\ conn[s] = "new"
                /\ UNCHANGED <<actor, rooms, members, call, told, wish, shown, raced>>
  BY <1>0, <1>1 DEF Connect, calls, history
<1>2. ASSUME NEW c \in Calls, Completes(c)
      PROVE  conn' = conn
  BY <1>2, CompletionEffect
<1>3. ASSUME NEW x \in Sockets, AuthTimeout(x) \/ StartClose(x) \/ Disconnect(x)
      PROVE  conn[s] = "open"
  BY <1>0, <1>3 DEF AuthTimeout, TimedOut, StartClose, Disconnect
<1>4. CASE Shutdown
  BY <1>0, <1>4 DEF Shutdown
<1> QED
  BY <1>1, <1>2, <1>3, <1>4 DEF Next, vars, AuthArrives, SubscribeArrives, Unsubscribe,
                                Answer, Refused, Completes, socket

LEMMA HomeStep ==
  ASSUME MirrorInv, Home, [Next]_vars
  PROVE  Home'
<1> SUFFICES ASSUME NEW s \in Sockets, conn'[s] = "open"
             PROVE  /\ \A u \in Users : actor'[s] = u =>
                         /\ s \in members'[UserRoom(u)]
                         /\ u \in SuperAdmins => s \in members'[AdminRoom]
                    /\ \A c \in Calls : InUse(c, s)' /\ call'[c].kind = "subscribe" =>
                         s \in members'[UserRoom(call'[c].user)]
  BY DEF Home
<1>0. TypeOK /\ CallOK /\ Known /\ Fresh /\ RoomsMirror
  BY DEF MirrorInv
<1>1. CASE conn[s] = "new"
  <2>1. actor' = actor /\ call' = call /\ actor[s] = None
    BY <1>0, <1>1, WasOpen DEF Fresh
  <2>2. \A c \in Calls : ~InUse(c, s)
    BY <1>0, <1>1 DEF CallOK, InUse
  <2> QED
    BY <2>1, <2>2, GatewayAssumption DEF InUse, Free
<1>2. CASE conn[s] = "open"
  <2>1. ASSUME NEW r \in Rooms, \A t \in Tickets : r # TicketRoom(t), s \in members[r]
        PROVE  s \in members'[r]
    BY <1>0, <1>2, <2>1, OpenKeeps
  <2>2. \A u \in Users : s \in members[UserRoom(u)] => s \in members'[UserRoom(u)]
    BY <2>1, RoomKinds, RoomsDiffer
  <2>3. s \in members[AdminRoom] => s \in members'[AdminRoom]
    BY <2>1, RoomKinds, RoomsDiffer
  <2>4. ASSUME NEW u \in Users, actor'[s] = u
        PROVE  /\ s \in members'[UserRoom(u)]
               /\ u \in SuperAdmins => s \in members'[AdminRoom]
    <3>1. CASE actor[s] = u
      BY <1>2, <2>2, <2>3, <3>1 DEF Home
    <3>2. ASSUME NEW c \in Calls, AuthCompletes(c), call[c].sock = s, call[c].user = u
          PROVE  /\ s \in members'[UserRoom(u)]
                 /\ u \in SuperAdmins => s \in members'[AdminRoom]
      <4>1. Completes(c) /\ s \in clients /\ Joined(call[c]) = HomeRooms(u)
        BY <1>0, <1>2, <3>2 DEF Completes, AuthCompletes, Joined, Known
      <4>2. \A r \in Rooms : r \in HomeRooms(u) => s \in members'[r]
        BY <1>0, <3>2, <4>1, KnownJoin
      <4> QED
        BY <4>2, RoomKinds, RoomsDiffer
    <3> QED
      BY <1>0, <2>4, <3>1, <3>2, ActorEffect
  <2>5. ASSUME NEW c \in Calls, InUse(c, s)', call'[c].kind = "subscribe"
        PROVE  s \in members'[UserRoom(call'[c].user)]
    <3>1. CASE InUse(c, s) /\ call'[c].kind = call[c].kind /\ call'[c].user = call[c].user
      <4>1. s \in members[UserRoom(call[c].user)] /\ call[c].user \in Users
        BY <1>0, <1>2, <2>5, <3>1 DEF Home, CallOK, InUse
      <4> QED
        BY <2>2, <3>1, <4>1
    <3>2. CASE call'[c].user = actor[s] /\ \E t \in Tickets : SubscribeArrives(s, t, c)
      <4>1. actor[s] \in Users
        BY <1>0, <3>2 DEF SubscribeArrives, TypeOK
      <4> QED
        BY <1>2, <2>2, <3>2, <4>1 DEF Home
    <3> QED
      BY <1>0, <2>5, <3>1, <3>2, InUseEffect
  <2> QED
    BY <2>4, <2>5
<1> QED
  BY <1>0, <1>1, <1>2, WasOpen

(* An accepted subscription was granted.                                   *)
Granted ==
  \A c \in Calls :
    ~Free(c) /\ call[c].kind = "subscribe" /\ call[c].verdict = "yes"
      => <<call[c].sock, call[c].user, call[c].ticket>> \in shown

LEMMA GrantedStep ==
  ASSUME TypeOK, CallOK, Granted, [Next]_vars
  PROVE  Granted' /\ shown \subseteq shown'
<1>1. shown \subseteq shown'
  BY DEF Next, vars, Connect, AuthTimeout, StartClose, Disconnect, AuthArrives,
     SubscribeArrives, Answer, Refused, AuthCompletes, SubscribeCompletes, Unsubscribe,
     Shutdown, history
<1>2. ASSUME NEW c \in Calls, ~Free(c)', call'[c].kind = "subscribe",
             call'[c].verdict = "yes"
      PROVE  <<call'[c].sock, call'[c].user, call'[c].ticket>> \in shown'
  <2>1. call'[c] # Idle
    BY <1>2 DEF Free, Idle
  <2>2. CASE Answer(c, call'[c].verdict) /\ call'[c].kind = call[c].kind
             /\ call'[c].sock = call[c].sock /\ call'[c].user = call[c].user
             /\ call'[c].ticket = call[c].ticket
    BY <1>2, <2>2 DEF Answer
  <2>3. CASE ~Free(c) /\ call'[c].kind = call[c].kind /\ call'[c].sock = call[c].sock
             /\ call'[c].user = call[c].user /\ call'[c].ticket = call[c].ticket
             /\ call'[c].verdict = call[c].verdict
    BY <1>1, <1>2, <2>3 DEF Granted
  <2>4. call'[c].verdict # "pending"
    BY <1>2
  <2>5. \A k \in {"auth", "subscribe"} : \A s, u, t : call'[c] # Pending(k, s, u, t)
    BY <2>4 DEF Pending
  <2> QED
    BY <2>1, <2>2, <2>3, <2>5, CallEffect
<1> QED
  BY <1>1, <1>2 DEF Granted

LEMMA ReadableStep ==
  ASSUME MirrorInv, Home, Granted, JoinedWasReadable, [Next]_vars
  PROVE  JoinedWasReadable'
<1> SUFFICES ASSUME NEW s \in Sockets, NEW t \in Tickets,
                    conn'[s] = "open", s \in members'[TicketRoom(t)]
             PROVE  \E u \in Users : <<s, u, t>> \in shown' /\ s \in members'[UserRoom(u)]
  BY DEF JoinedWasReadable
<1>0. /\ TypeOK /\ CallOK /\ Known /\ Fresh /\ RoomsMirror
      /\ shown \subseteq shown' /\ TicketRoom(t) \in Rooms
  BY GrantedStep, RoomKinds DEF MirrorInv
<1>1. CASE conn[s] = "new"
  BY <1>0, <1>1, WasOpen DEF Fresh
<1>2. CASE conn[s] = "open"
  <2>1. ASSUME NEW u \in Users, <<s, u, t>> \in shown, s \in members[UserRoom(u)]
        PROVE  <<s, u, t>> \in shown' /\ s \in members'[UserRoom(u)]
    BY <1>0, <1>2, <2>1, OpenKeeps, RoomKinds, RoomsDiffer
  <2>2. CASE s \in members[TicketRoom(t)]
    BY <1>2, <2>1, <2>2 DEF JoinedWasReadable
  <2>3. ASSUME NEW c \in Calls, Completes(c), s = call[c].sock,
               TicketRoom(t) \in Joined(call[c])
        PROVE  \E u \in Users : <<s, u, t>> \in shown /\ s \in members[UserRoom(u)]
    <3>1. call[c].user \in Users /\ InUse(c, s) /\ call[c].verdict = "yes"
      BY <1>0, <2>3, NotFree DEF InUse, Completes, AuthCompletes, SubscribeCompletes, Accepted
    <3>2. call[c].kind = "subscribe" /\ call[c].ticket = t
      BY <1>0, <2>3, <3>1, NotFree, RoomsDiffer DEF Joined
    <3> QED
      BY <1>2, <2>3, <3>1, <3>2 DEF Granted, Home, InUse
  <2> QED
    BY <1>0, <2>1, <2>2, <2>3, MemberEffect
<1> QED
  BY <1>0, <1>1, <1>2, WasOpen

(* What a socket is in, or is being let in, it asked for.                  *)
Asked ==
  \A s \in Sockets, t \in Tickets : "unsubscribe" \notin raced[s] =>
    /\ s \in members[TicketRoom(t)] => t \in wish[s]
    /\ \A c \in Calls : InUse(c, s) /\ call[c].kind = "subscribe" /\ call[c].ticket = t
                         => t \in wish[s]

LEMMA AskedStep ==
  ASSUME TypeOK, CallOK, Asked, [Next]_vars
  PROVE  Asked'
<1> SUFFICES ASSUME NEW s \in Sockets, NEW t \in Tickets, "unsubscribe" \notin raced'[s]
             PROVE  /\ s \in members'[TicketRoom(t)] => t \in wish'[s]
                    /\ \A c \in Calls : InUse(c, s)' /\ call'[c].kind = "subscribe"
                                         /\ call'[c].ticket = t => t \in wish'[s]
  BY DEF Asked
<1>0. /\ "unsubscribe" \notin raced[s] /\ TicketRoom(t) \in Rooms
      /\ wish \in [Sockets -> SUBSET Tickets]
      /\ raced \in [Sockets -> SUBSET {"auth", "close", "unsubscribe"}]
  BY RacedGrows, RoomKinds DEF TypeOK
<1>1. CASE Unsubscribe(s, t)
  <2>1. s \notin members'[TicketRoom(t)] /\ call' = call
    BY <1>0, <1>1, UnsubscribeEffect
  <2>2. Subscribing(s, t) = {}
    BY <1>0, <1>1 DEF Unsubscribe, Race
  <2> QED
    BY <2>1, <2>2 DEF Subscribing, InFlight, InUse, Free
<1>2. CASE ~Unsubscribe(s, t)
  <2>1. t \in wish[s] => t \in wish'[s]
    <3>1. ASSUME NEW x \in Sockets, NEW v \in Tickets, Unsubscribe(x, v), t \in wish[s]
          PROVE  t \in wish'[s]
      <4>1. x # s \/ v # t
        BY <1>2, <3>1
      <4> QED
        BY <1>0, <3>1, <4>1 DEF Unsubscribe
    <3> QED
      BY <1>0, <3>1 DEF Next, vars, Connect, AuthTimeout, StartClose, Disconnect,
         AuthArrives, SubscribeArrives, Answer, Refused, AuthCompletes, SubscribeCompletes,
         Shutdown, history
  <2>2. ASSUME NEW c \in Calls, SubscribeArrives(s, t, c)
        PROVE  t \in wish'[s]
    BY <1>0, <2>2 DEF SubscribeArrives
  <2>3. ASSUME NEW c \in Calls, InUse(c, s)', call'[c].kind = "subscribe", call'[c].ticket = t
        PROVE  t \in wish'[s]
    BY <1>0, <2>1, <2>2, <2>3, InUseEffect DEF Asked
  <2>4. ASSUME NEW c \in Calls, Completes(c), s = call[c].sock,
               TicketRoom(t) \in Joined(call[c])
        PROVE  t \in wish[s]
    <3>1. InUse(c, s) /\ call[c].kind = "subscribe" /\ call[c].ticket = t
      BY <2>4, NotFree, RoomsDiffer DEF InUse, Joined
    <3> QED
      BY <1>0, <3>1 DEF Asked
  <2>5. s \in members'[TicketRoom(t)] => t \in wish'[s]
    BY <1>0, <2>1, <2>4, MemberEffect DEF Asked
  <2> QED
    BY <2>3, <2>5
<1> QED
  BY <1>1, <1>2

(* An open socket was last told that it is subscribed exactly where it is. *)
Informed ==
  \A s \in Sockets, t \in Tickets :
    conn[s] = "open" => (t \in told[s] <=> s \in members[TicketRoom(t)])

LEMMA InformedStep ==
  ASSUME MirrorInv, Informed, [Next]_vars
  PROVE  Informed'
<1> SUFFICES ASSUME NEW s \in Sockets, NEW t \in Tickets, conn'[s] = "open"
             PROVE  t \in told'[s] <=> s \in members'[TicketRoom(t)]
  BY DEF Informed
<1>0. /\ TypeOK /\ CallOK /\ Known /\ Fresh /\ RoomsMirror
      /\ TicketRoom(t) \in Rooms /\ told \in [Sockets -> SUBSET Tickets]
  BY RoomKinds DEF MirrorInv, TypeOK
<1>1. CASE conn[s] = "new"
  BY <1>0, <1>1, WasOpen DEF Fresh
<1>2. CASE conn[s] = "open"
  <2>0. t \in told[s] <=> s \in members[TicketRoom(t)]
    BY <1>2 DEF Informed
  <2>1. ASSUME NEW x \in Sockets, NEW v \in Tickets, Unsubscribe(x, v)
        PROVE  t \in told'[s] <=> s \in members'[TicketRoom(t)]
    <3>1. told' = [told EXCEPT ![x] = @ \ {v}]
      BY <2>1 DEF Unsubscribe
    <3>2. TicketRoom(t) = TicketRoom(v) <=> t = v
      BY RoomsDiffer
    <3>3. s \in members'[TicketRoom(t)] <=> s \in members[TicketRoom(t)]
                                             /\ ~(s = x /\ TicketRoom(t) = TicketRoom(v))
      BY <1>0, <2>1, UnsubscribeEffect
    <3> QED
      BY <1>0, <2>0, <3>1, <3>2, <3>3
  <2>2. ASSUME NEW c \in Calls, SubscribeCompletes(c)
        PROVE  t \in told'[s] <=> s \in members'[TicketRoom(t)]
    <3>1. Completes(c) /\ s \in clients
      BY <1>0, <1>2, <2>2 DEF Completes, Known
    <3>2. call[c].sock \in Sockets /\ call[c].ticket \in Tickets /\ call[c].kind = "subscribe"
      BY <1>0, <2>2, <3>1, NotFree DEF SubscribeCompletes
    <3>3. Joined(call[c]) = {TicketRoom(call[c].ticket)}
      BY <3>2 DEF Joined
    <3>4. s \in members'[TicketRoom(t)] <=> s \in members[TicketRoom(t)]
                                            \/ (s = call[c].sock /\ t = call[c].ticket)
      BY <1>0, <3>1, <3>2, <3>3, KnownJoin, RoomsDiffer
    <3>5. t \in told'[s] <=> t \in told[s] \/ (s = call[c].sock /\ t = call[c].ticket)
      BY <1>0, <1>2, <2>2, <3>2 DEF SubscribeCompletes
    <3> QED
      BY <2>0, <3>4, <3>5
  <2>3. ASSUME NEW c \in Calls, AuthCompletes(c)
        PROVE  told' = told /\ (s \in members'[TicketRoom(t)] <=> s \in members[TicketRoom(t)])
    <3>1. Completes(c) /\ s \in clients /\ Joined(call[c]) = HomeRooms(call[c].user)
      BY <1>0, <1>2, <2>3 DEF Completes, AuthCompletes, Joined, Known
    <3>2. TicketRoom(t) \notin Joined(call[c])
      BY <1>0, <3>1, NotFree, RoomsDiffer
    <3> QED
      BY <1>0, <2>3, <3>1, <3>2, KnownJoin DEF AuthCompletes, history
  <2>4. ASSUME NEW x \in Sockets, Disconnect(x)
        PROVE  told' = told /\ (s \in members'[TicketRoom(t)] <=> s \in members[TicketRoom(t)])
    <3>1. x # s
      BY <1>0, <2>4 DEF Disconnect, TypeOK
    <3> QED
      BY <1>0, <2>4, <3>1, DisconnectEffect DEF Disconnect
  <2>5. CASE Shutdown
    BY <1>0, <1>2, <2>5 DEF Shutdown, Known
  <2>6. CASE UNCHANGED <<told, members>>
    BY <2>0, <2>6
  <2> QED
    BY <2>0, <2>1, <2>2, <2>3, <2>4, <2>5, <2>6 DEF Next, vars, Connect, AuthTimeout,
       StartClose, AuthArrives, SubscribeArrives, Answer, Refused, registry, history
<1> QED
  BY <1>0, <1>1, <1>2, WasOpen

-----------------------------------------------------------------------------
(* The theorems.                                                           *)

IInv == /\ MirrorInv /\ Left /\ OneToken /\ Identity
        /\ Home /\ Granted /\ JoinedWasReadable /\ Asked /\ Informed

LEMMA IInvInit == ASSUME Init PROVE IInv
<1>1. Left /\ OneToken /\ Granted /\ Home
  BY GatewayAssumption DEF Init, Left, OneToken, Granted, Home, InUse, Free
<1>2. JoinedWasReadable /\ Asked /\ Informed /\ Identity
  BY RoomKinds DEF Init, JoinedWasReadable, Asked, Informed, Identity, InUse, Free
<1> QED
  BY <1>1, <1>2, MirrorInit DEF IInv

LEMMA IInvStep == ASSUME IInv, [Next]_vars PROVE IInv'
<1>1. TypeOK /\ CallOK
  BY DEF IInv, MirrorInv
<1>2. MirrorInv' /\ Left'
  BY MirrorInvStep, LeftStep DEF IInv
<1>3. OneToken' /\ Identity' /\ Home'
  BY <1>1, OneTokenStep, IdentityStep, HomeStep DEF IInv
<1>4. Granted' /\ JoinedWasReadable' /\ Asked' /\ Informed'
  BY <1>1, GrantedStep, ReadableStep, AskedStep, InformedStep DEF IInv
<1> QED
  BY <1>2, <1>3, <1>4 DEF IInv

LEMMA IInvEarned == ASSUME IInv PROVE MembershipIsEarned
<1>1. ClosedHoldsNothing
  BY DEF IInv, MirrorInv, Known, Left, ClosedHoldsNothing
<1>2. OneIdentity
  BY DEF IInv, Identity, OneIdentity
<1>3. LastWordStands
  BY DEF IInv, Asked, LastWordStands
<1> QED
  BY <1>1, <1>2, <1>3 DEF IInv, MembershipIsEarned

(* Some copy is sent if and only if the socket is in a room of the event.  *)
LEMMA SomeCopy ==
  ASSUME NEW s, conn[s] = "open", NEW t, NEW to \in SUBSET Users
  PROVE  Copies(s, t, to) > 0 <=> \E r \in Audience(t, to) : s \in members[r]
<1> DEFINE personal == {UserRoom(u) : u \in to}
           f == [u \in to |-> UserRoom(u)]
           hit == {r \in Audience(t, to) : s \in members[r]}
<1>1. IsFiniteSet(to)
  BY GatewayAssumption, FS_Subset
<1>2. f \in Surjection(to, personal)
  BY DEF Surjection
<1>3. IsFiniteSet(personal)
  BY <1>1, <1>2, FS_Surjection
<1>4. IsFiniteSet({TicketRoom(t), AdminRoom})
  <2>1. IsFiniteSet({TicketRoom(t)} \cup {AdminRoom})
    BY FS_Singleton, FS_AddElement
  <2>2. {TicketRoom(t)} \cup {AdminRoom} = {TicketRoom(t), AdminRoom}
    OBVIOUS
  <2> QED
    BY <2>1, <2>2
<1>5. IsFiniteSet(Audience(t, to))
  BY <1>3, <1>4, FS_Union DEF Audience
<1>6. IsFiniteSet(hit)
  BY <1>5, FS_Subset
<1>7. Copies(s, t, to) = Cardinality(hit)
  BY DEF Copies
<1>8. Cardinality(hit) \in Nat /\ (Cardinality(hit) = 0 <=> hit = {})
  BY <1>6, FS_CardinalityType, FS_EmptySet
<1>9. hit # {} <=> \E r \in Audience(t, to) : s \in members[r]
  OBVIOUS
<1> QED
  BY <1>7, <1>8, <1>9

LEMMA IInvAudience == ASSUME IInv PROVE EventReachesItsAudience
<1> SUFFICES ASSUME NEW s \in Sockets, NEW t \in Tickets, NEW to \in SUBSET Users,
                    conn[s] = "open"
             PROVE  /\ Concerns(s, t, to) => Copies(s, t, to) > 0
                    /\ Copies(s, t, to) > 0 /\ raced[s] = {} => Concerns(s, t, to)
  BY DEF EventReachesItsAudience
<1>1. /\ t \in told[s] <=> s \in members[TicketRoom(t)]
      /\ \A u \in Users : actor[s] = u => /\ s \in members[UserRoom(u)]
                                          /\ u \in SuperAdmins => s \in members[AdminRoom]
      /\ raced[s] = {} =>
           /\ \A u \in Users : s \in members[UserRoom(u)] => actor[s] = u
           /\ s \in members[AdminRoom] => actor[s] \in SuperAdmins
  BY DEF IInv, Informed, Home, Identity
<1>2. (\E r \in Audience(t, to) : s \in members[r])
        <=> \/ s \in members[TicketRoom(t)] \/ s \in members[AdminRoom]
            \/ \E u \in to : s \in members[UserRoom(u)]
  BY DEF Audience
<1>3. SuperAdmins \subseteq Users
  BY GatewayAssumption
<1>4. Concerns(s, t, to) => \E r \in Audience(t, to) : s \in members[r]
  <2>1. CASE t \in told[s]
    BY <1>1, <1>2, <2>1
  <2>2. CASE actor[s] \in to \cup SuperAdmins
    <3>1. actor[s] \in Users
      BY <1>3, <2>2
    <3>2. /\ s \in members[UserRoom(actor[s])]
          /\ actor[s] \in SuperAdmins => s \in members[AdminRoom]
      BY <3>1 DEF IInv, Home
    <3>3. CASE actor[s] \in to
      BY <1>2, <3>2, <3>3
    <3>4. CASE actor[s] \in SuperAdmins
      BY <1>2, <3>2, <3>4
    <3> QED
      BY <2>2, <3>3, <3>4
  <2> QED
    BY <2>1, <2>2 DEF Concerns
<1>5. raced[s] = {} /\ (\E r \in Audience(t, to) : s \in members[r])
        => Concerns(s, t, to)
  BY <1>1, <1>2 DEF Concerns
<1>6. Copies(s, t, to) > 0 <=> \E r \in Audience(t, to) : s \in members[r]
  BY SomeCopy
<1> QED
  BY <1>4, <1>5, <1>6

\* THEOREM: whoever is in a room of an open gateway has an identity that was allowed
\* to read it and has not taken it back; a closed socket is in none.  What overtook
\* a handler is in `raced`, and only that excuses a socket.
THEOREM MembershipEarned == Spec => []MembershipIsEarned
<1>1. Init => IInv
  BY IInvInit
<1>2. IInv /\ [Next]_vars => IInv'
  BY IInvStep
<1>3. IInv => MembershipIsEarned
  BY IInvEarned
<1> QED
  BY <1>1, <1>2, <1>3, PTL DEF Spec

\* THEOREM: an event reaches every open socket that it concerns, and no other whose
\* handlers nothing overtook.
THEOREM AudienceReached == Spec => []EventReachesItsAudience
<1>1. Init => IInv
  BY IInvInit
<1>2. IInv /\ [Next]_vars => IInv'
  BY IInvStep
<1>3. IInv => EventReachesItsAudience
  BY IInvAudience
<1> QED
  BY <1>1, <1>2, <1>3, PTL DEF Spec
=============================================================================
