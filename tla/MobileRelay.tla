----------------------------- MODULE MobileRelay ------------------------------
(* The server that pairs a desktop with a phone. A room holds a token and up *)
(* to one connection per role; what one role sends goes to the other. Every  *)
(* connection has a task that reads from its socket and, once registered, a  *)
(* channel and a writer task that empties the channel into the socket. The   *)
(* state of the server is behind one mutex; a step that holds it is atomic.  *)
EXTENDS Integers, SequencesExt

CONSTANTS
    Conns,      \* connections; a peer that reconnects has a new one
    Rooms, Tokens,
    MaxSent,    \* [conn -> how many messages it sends]
    None

\* A room that exists: its token and who holds the slot of each role.
RoomStates == [token: Tokens, host: {None} \union Conns, client: {None} \union Conns]

ASSUME ConnAssumption ==
    IsFiniteSet(Conns) /\ None \notin Conns /\ None \notin RoomStates

VARIABLES
    rooms,      \* [room -> its state, or None]
    conn,       \* the task of each connection and what it registered as
    channel,    \* [conn -> what its writer has not sent yet]
    writing,    \* the connections whose writer runs and whose channel is open
    active,     \* active_connections
    total,      \* total_connections
    got,        \* history: [conn -> what reached its peer]
    routes      \* history: [conn -> the receiver chosen for each of its messages]

vars == <<rooms, conn, channel, writing, active, total, got, routes>>

Roles == {"host", "client"}
Opposite(role) == IF role = "host" THEN "client" ELSE "host"

Close == <<None, 0>>    \* Message::Close; other messages are <<sender, number>>

NewRoom(token) == [token |-> token, host |-> None, client |-> None]

Slot(room, role) == rooms[room][role]

\* same_channel: the slot holds this very connection.
HoldsSlot(c) ==
    rooms[conn[c].room] /= None /\ Slot(conn[c].room, conn[c].role) = c

\* The room after its slot of a role was set; an empty room is removed.
Cleared(room, role) ==
    LET r == [rooms[room] EXCEPT ![role] = None]
    IN  IF r.host = None /\ r.client = None THEN None ELSE r

Put(c, message) ==
    IF c \in writing THEN [channel EXCEPT ![c] = Append(@, message)] ELSE channel

Init ==
    /\ rooms = [r \in Rooms |-> None]
    /\ conn = [c \in Conns |-> [pc |-> "new", role |-> "host", room |-> None,
                                token |-> None, nr |-> 0, to |-> None]]
    /\ channel = [c \in Conns |-> <<>>]
    /\ writing = {}
    /\ active = 0
    /\ total = 0
    /\ got = [c \in Conns |-> <<>>]
    /\ routes = [c \in Conns |-> <<>>]

-----------------------------------------------------------------------------
\* Slip: whoever held the slot is not told.
RegisterQuietly(c, role, room, token) ==
    LET r == IF rooms[room] = None THEN NewRoom(token) ELSE rooms[room] IN
    /\ conn[c].pc = "new" /\ r.token = token
    /\ rooms' = [rooms EXCEPT ![room] = [r EXCEPT ![role] = c]]
    /\ conn' = [conn EXCEPT ![c] = [pc |-> "open", role |-> role, room |-> room,
                                    token |-> token, nr |-> total + 1, to |-> None]]
    /\ writing' = writing \union {c}
    /\ active' = active + 1 /\ total' = total + 1
    /\ UNCHANGED <<channel, got, routes>>

\* A connection registers for a role of a room with the room's token. Who held
\* the slot is told to close.
Register(c, role, room, token) ==
    LET r    == IF rooms[room] = None THEN NewRoom(token) ELSE rooms[room]
        held == r[role]
    IN  /\ conn[c].pc = "new"
        /\ r.token = token
        /\ rooms' = [rooms EXCEPT ![room] = [r EXCEPT ![role] = c]]
        /\ conn' = [conn EXCEPT ![c] = [pc |-> "open", role |-> role, room |-> room,
                                        token |-> token, nr |-> total + 1, to |-> None]]
        /\ channel' = IF held = None THEN channel ELSE Put(held, Close)
        /\ writing' = writing \union {c}
        /\ active' = active + 1
        /\ total' = total + 1
        /\ UNCHANGED <<got, routes>>

\* With the wrong token the task ends, after the connection was counted.
Reject(c, room, token) ==
    /\ conn[c].pc = "new"
    /\ rooms[room] /= None /\ rooms[room].token /= token
    /\ conn' = [conn EXCEPT ![c].pc = "rejected"]
    /\ active' = active + 1
    /\ total' = total + 1
    /\ UNCHANGED <<rooms, channel, writing, got, routes>>

\* A message is read and its receiver looked up.
Receive(c) ==
    LET me     == conn[c]
        target == IF rooms[me.room] = None THEN None
                  ELSE Slot(me.room, Opposite(me.role))
    IN  /\ me.pc = "open" /\ Len(routes[c]) < MaxSent[c]
        /\ routes' = [routes EXCEPT ![c] = Append(@, target)]
        /\ conn' = IF target = None THEN conn
                   ELSE [conn EXCEPT ![c].pc = "sending", ![c].to = target]
        /\ UNCHANGED <<rooms, channel, writing, active, total, got>>

\* Slip: the receiver is looked up again.
SendToSlot(c) ==
    LET room == rooms[conn[c].room]
        slot == IF room = None THEN None ELSE room[Opposite(conn[c].role)]
    IN  /\ conn[c].pc = "sending"
        /\ conn' = [conn EXCEPT ![c].pc = "open", ![c].to = None]
        /\ channel' = IF slot = None THEN channel ELSE Put(slot, <<c, Len(routes[c])>>)
        /\ UNCHANGED <<rooms, writing, active, total, got, routes>>

\* It is sent without the mutex: the receiver may be gone by now.
Send(c) ==
    /\ conn[c].pc = "sending"
    /\ conn' = [conn EXCEPT ![c].pc = "open", ![c].to = None]
    /\ channel' = Put(conn[c].to, <<c, Len(routes[c])>>)
    /\ UNCHANGED <<rooms, writing, active, total, got, routes>>

\* Slip: whoever holds the slot is removed.
UnregisterAny(c) ==
    LET me == conn[c] IN
    /\ me.pc = "open"
    /\ conn' = [conn EXCEPT ![c].pc = "gone"]
    /\ active' = active - 1
    /\ rooms' = IF rooms[me.room] /= None
                THEN [rooms EXCEPT ![me.room] = Cleared(me.room, me.role)]
                ELSE rooms
    /\ writing' = writing \ {c}
    /\ channel' = [channel EXCEPT ![c] = <<>>]
    /\ UNCHANGED <<total, got, routes>>

\* The peer closes; the slot is cleared if it is still this connection's, and
\* the writer is aborted.
Unregister(c) ==
    LET me == conn[c] IN
    /\ me.pc = "open"
    /\ conn' = [conn EXCEPT ![c].pc = "gone"]
    /\ active' = active - 1
    /\ rooms' = IF HoldsSlot(c)
                THEN [rooms EXCEPT ![me.room] = Cleared(me.room, me.role)]
                ELSE rooms
    /\ writing' = writing \ {c}
    /\ channel' = [channel EXCEPT ![c] = <<>>]
    /\ UNCHANGED <<total, got, routes>>

\* A read error ends the task without unregistering; the writer goes on.
ReadError(c) ==
    /\ conn[c].pc = "open"
    /\ conn' = [conn EXCEPT ![c].pc = "lost"]
    /\ UNCHANGED <<rooms, channel, writing, active, total, got, routes>>

\* The writer sends; nothing can be sent after a close.
WriteOut(c) ==
    /\ c \in writing /\ channel[c] /= <<>>
    /\ got' = [got EXCEPT ![c] = Append(@, Head(channel[c]))]
    /\ IF Head(channel[c]) = Close
       THEN writing' = writing \ {c} /\ channel' = [channel EXCEPT ![c] = <<>>]
       ELSE channel' = [channel EXCEPT ![c] = Tail(@)] /\ UNCHANGED writing
    /\ UNCHANGED <<rooms, conn, active, total, routes>>

\* The socket cannot be written to any more.
WriteError(c) ==
    /\ c \in writing /\ channel[c] /= <<>>
    /\ writing' = writing \ {c}
    /\ channel' = [channel EXCEPT ![c] = <<>>]
    /\ UNCHANGED <<rooms, conn, active, total, got, routes>>

Step(c) ==
    \/ \E role \in Roles, room \in Rooms, token \in Tokens : Register(c, role, room, token)
    \/ \E room \in Rooms, token \in Tokens : Reject(c, room, token)
    \/ Receive(c) \/ Send(c) \/ Unregister(c) \/ ReadError(c)
    \/ WriteOut(c) \/ WriteError(c)

Next == \E c \in Conns : Step(c)

\* A peer that was told to close, or whose socket is dead, does not stay: its
\* close or the error is read.
Hangup(c) == c \notin writing /\ (Unregister(c) \/ ReadError(c))

Fairness ==
    \A c \in Conns : WF_vars(Send(c)) /\ WF_vars(WriteOut(c)) /\ SF_vars(Hangup(c))

Spec == Init /\ [][Next]_vars /\ Fairness

-----------------------------------------------------------------------------
Messages == ({None} \union Conns) \X Nat

Tasks == [pc: {"new", "rejected", "open", "sending", "gone", "lost"},
          role: Roles, room: {None} \union Rooms, token: {None} \union Tokens,
          nr: Nat, to: {None} \union Conns]

TaskOK(task) ==
    /\ task \in Tasks
    /\ task.pc \in {"open", "sending", "gone", "lost"} =>
           task.room \in Rooms /\ task.token \in Tokens
    /\ task.pc = "sending" => task.to \in Conns

TypeOK ==
    /\ rooms \in [Rooms -> {None} \union RoomStates]
    /\ conn \in [Conns -> Tasks]
    /\ \A c \in Conns : TaskOK(conn[c])
    /\ channel \in [Conns -> Seq(Messages)]
    /\ writing \subseteq Conns
    /\ active \in Nat /\ total \in Nat
    /\ got \in [Conns -> Seq(Messages)]
    /\ routes \in [Conns -> Seq({None} \union Conns)]

Registered(c) == conn[c].pc \in {"open", "sending", "lost"}
WasRegistered(c) == Registered(c) \/ conn[c].pc = "gone"

\* A later connection registered for the same role of the same room.
Replaced(c) ==
    \E d \in Conns : /\ WasRegistered(d) /\ conn[d].nr > conn[c].nr
                     /\ conn[d].room = conn[c].room /\ conn[d].role = conn[c].role

\* Whoever registered last for a role holds its slot until it leaves: a late
\* clean-up of the connection it replaced does not take the slot away
\* (unregister_peer compares channels), nor the room with it.
LatestHoldsSlot ==
    \A c \in Conns : Registered(c) /\ ~Replaced(c) => HoldsSlot(c)

\* A slot is held by a registered peer of that role, room and token, and a room
\* without peers does not exist: its name is free for another token.
SlotsBelong ==
    \A room \in Rooms : rooms[room] /= None =>
        /\ \E role \in Roles : Slot(room, role) /= None
        /\ \A role \in Roles :
            LET c == Slot(room, role) IN
            c /= None =>
                /\ Registered(c)
                /\ conn[c].room = room /\ conn[c].role = role
                /\ conn[c].token = rooms[room].token

\* The count of connections is that of the peers there are, and of those whose
\* task ended early: with a wrong token or a read error.
ActiveCounts ==
    active = Cardinality({c \in Conns : conn[c].pc \in {"open", "sending", "lost", "rejected"}})

\* Rooms, slots, connections and their count agree (RoomState, RelayState).
RegistryConsistent == TypeOK /\ SlotsBelong /\ LatestHoldsSlot /\ ActiveCounts

\* What went into d's channel and was not dropped with it, in order.
Stream(d) == got[d] \o channel[d]

\* The numbers of c's messages for d, of those that went in, and of the one
\* whose receiver is known but which is not sent yet.
Routed(c, d) == {n \in DOMAIN routes[c] : routes[c][n] = d}
Passed(c, d) == {n \in DOMAIN routes[c] : <<c, n>> \in Range(Stream(d))}
InHand(c, d) == IF conn[c].pc = "sending" /\ conn[c].to = d THEN {Len(routes[c])} ELSE {}

\* A stream holds what was routed to it, each message behind those its sender
\* sent before.
Sorted(d) ==
    \A i \in DOMAIN Stream(d) :
        LET m == Stream(d)[i] IN
        m /= Close => /\ m[1] \in Conns /\ m[2] \in Routed(m[1], d)
                      /\ \A j \in 1 .. i - 1 : Stream(d)[j][1] = m[1] => Stream(d)[j][2] < m[2]

\* Messages from one peer to another arrive in order, none twice and none left
\* out; only where a connection ends are the last ones lost, although receivers
\* are looked up under the mutex and sent to without it (forward_message).
InOrder ==
    \A d \in Conns :
        /\ Sorted(d)
        /\ \A c \in Conns :
              /\ \A n \in Passed(c, d) : \A k \in Routed(c, d) : k < n => k \in Passed(c, d)
              /\ d \in writing => Passed(c, d) = Routed(c, d) \ InHand(c, d)

\* A message goes to the other role of the same room, and under the same token
\* unless its sender was replaced in the meantime.
PartnersOnly ==
    \A c \in Conns : \A n \in DOMAIN routes[c] :
        LET d == routes[c][n] IN
        d /= None =>
            /\ conn[d].role = Opposite(conn[c].role)
            /\ conn[d].room = conn[c].room
            /\ Replaced(c) \/ conn[d].token = conn[c].token

\* What is sent reaches the partner and nobody else, in order.
DeliveredToPartner == PartnersOnly /\ InOrder

\* A connection that was replaced does not stay for ever (set_sender sends a
\* close): a desktop has one peer to talk to.
ReplacedLeaves ==
    \A c \in Conns : (Registered(c) /\ Replaced(c)) ~> (conn[c].pc \in {"gone", "lost"})
=============================================================================
