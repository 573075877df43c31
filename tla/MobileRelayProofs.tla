-------------------------- MODULE MobileRelayProofs ---------------------------
(* Proofs about MobileRelay for any number of connections, rooms and tokens. *)
EXTENDS MobileRelay, FiniteSetTheorems, SequenceTheorems, TLAPS

Live == {"open", "sending", "lost"}

Counted == {c \in Conns : conn[c].pc \in {"open", "sending", "lost", "rejected"}}

\* Registrations are numbered in their order.
Numbered == \A c \in Conns : WasRegistered(c) => conn[c].nr <= total

IInv == TypeOK /\ SlotsBelong /\ LatestHoldsSlot /\ ActiveCounts /\ Numbered

\* What an action has to do to keep the count: the counted connections are
\* finitely many, and one more or one less is counted as such.
LEMMA CountKept ==
    ASSUME TypeOK, ActiveCounts, NEW c \in Conns,
           \/ active' = active /\ Counted' = Counted
           \/ c \in Counted /\ active' = active - 1 /\ Counted' = Counted \ {c}
           \/ c \notin Counted /\ active' = active + 1 /\ Counted' = Counted \union {c}
    PROVE  active' \in Nat /\ ActiveCounts'
<1>1. IsFiniteSet(Counted) /\ active = Cardinality(Counted)
  BY ConnAssumption, FS_Subset DEF Counted, ActiveCounts
<1>2. IsFiniteSet(Counted') /\ active' = Cardinality(Counted')
  <2>1. CASE active' = active /\ Counted' = Counted
    BY <1>1, <2>1
  <2>2. CASE c \in Counted /\ active' = active - 1 /\ Counted' = Counted \ {c}
    BY <1>1, <2>2, FS_RemoveElement
  <2>3. CASE c \notin Counted /\ active' = active + 1 /\ Counted' = Counted \union {c}
    BY <1>1, <2>3, FS_AddElement
  <2>4. QED
    BY <2>1, <2>2, <2>3
<1>3. active' \in Nat
  BY <1>2, FS_CardinalityType
<1>4. QED
  BY <1>2, <1>3 DEF ActiveCounts, Counted

\* A slot is set without touching the other slot or the token.
LEMMA SlotSet ==
    ASSUME NEW r \in RoomStates, NEW role \in Roles, NEW v \in {None} \union Conns
    PROVE  LET s == [r EXCEPT ![role] = v] IN
           /\ s \in RoomStates /\ s.token = r.token /\ s[role] = v
           /\ \A o \in Roles : o # role => s[o] = r[o]
  BY DEF RoomStates, Roles

LEMMA SlotType == \A r \in RoomStates, o \in Roles : r[o] \in {None} \union Conns
  BY DEF RoomStates, Roles

LEMMA NewRoomType ==
    ASSUME NEW token \in Tokens
    PROVE  /\ NewRoom(token) \in RoomStates /\ NewRoom(token).token = token
           /\ \A o \in Roles : NewRoom(token)[o] = None
  BY DEF NewRoom, RoomStates, Roles

\* A message put into a channel leaves the channels well formed.
LEMMA PutType ==
    ASSUME TypeOK, NEW c \in Conns, NEW m \in Messages
    PROVE  Put(c, m) \in [Conns -> Seq(Messages)]
  BY DEF TypeOK, Put

\* Registering keeps the registry: the slot goes to the newcomer, whose number
\* is above all others.
LEMMA RegisterKeeps ==
    ASSUME IInv, NEW c \in Conns, NEW role \in Roles, NEW room \in Rooms,
           NEW token \in Tokens, Register(c, role, room, token)
    PROVE  IInv'
<1> DEFINE r == IF rooms[room] = None THEN NewRoom(token) ELSE rooms[room]
           s == [r EXCEPT ![role] = c]
<1> HIDE DEF s
<1>1. /\ conn[c].pc = "new"
      /\ rooms' = [rooms EXCEPT ![room] = s]
      /\ conn' = [conn EXCEPT ![c] = [pc |-> "open", role |-> role, room |-> room,
                                      token |-> token, nr |-> total + 1, to |-> None]]
      /\ writing' = writing \union {c}
      /\ active' = active + 1 /\ total' = total + 1
      /\ channel' = IF r[role] = None THEN channel ELSE Put(r[role], Close)
      /\ UNCHANGED <<got, routes>>
  BY DEF Register, s
<1>2. r \in RoomStates /\ r.token = token
  BY NewRoomType DEF Register, IInv, TypeOK
<1>3. /\ s \in RoomStates /\ s.token = token /\ s[role] = c
      /\ \A o \in Roles : o # role => s[o] = r[o]
  BY <1>2, SlotSet DEF s
<1> HIDE DEF r
<1>4. conn'[c] = [pc |-> "open", role |-> role, room |-> room,
                  token |-> token, nr |-> total + 1, to |-> None]
  BY <1>1 DEF IInv, TypeOK
<1>5. \A d \in Conns : d # c => conn'[d] = conn[d]
  BY <1>1 DEF IInv, TypeOK
<1>6. rooms'[room] = s /\ \A q \in Rooms : q # room => rooms'[q] = rooms[q]
  BY <1>1 DEF IInv, TypeOK
<1>7. active' \in Nat /\ ActiveCounts'
  <2>1. c \notin Counted /\ Counted' = Counted \union {c}
    BY <1>1, <1>4, <1>5 DEF Counted
  <2>2. QED
    BY <1>1, <2>1, CountKept DEF IInv
<1>8. TypeOK'
  <2>1. channel' \in [Conns -> Seq(Messages)]
    <3>1. Close \in Messages
      BY DEF Close, Messages
    <3>2. r[role] = None \/ r[role] \in Conns
      BY <1>2, SlotType
    <3>3. QED
      BY <1>1, <3>1, <3>2, PutType DEF IInv, TypeOK
  <2>2. rooms' \in [Rooms -> {None} \union RoomStates]
    BY <1>1, <1>3 DEF IInv, TypeOK
  <2>3. QED
    BY <1>1, <1>7, <2>1, <2>2 DEF IInv, TypeOK, TaskOK, Tasks
<1>9. Numbered'
  BY <1>1, <1>4, <1>5 DEF IInv, TypeOK, TaskOK, Tasks, Numbered, WasRegistered, Registered
<1>10. SlotsBelong'
  <2>1. ASSUME NEW q \in Rooms, q # room, rooms[q] # None, NEW o \in Roles,
               rooms[q][o] # None
        PROVE  rooms[q][o] # c /\ rooms[q][o] \in Conns
    <3>1. rooms[q] \in RoomStates
      BY <2>1 DEF IInv, TypeOK
    <3>2. rooms[q][o] \in Conns
      BY <2>1, <3>1, SlotType
    <3>3. Registered(rooms[q][o])
      BY <2>1 DEF IInv, SlotsBelong, Slot
    <3>4. QED
      BY <1>1, <3>2, <3>3 DEF Registered
  <2>2. ASSUME NEW o \in Roles, o # role, s[o] # None
        PROVE  rooms[room] # None /\ rooms[room][o] = s[o] /\ s[o] # c /\ s[o] \in Conns
               /\ r = rooms[room]
    <3>1. r = rooms[room] /\ rooms[room] # None
      BY <1>3, <2>2, NewRoomType DEF r
    <3>2. rooms[room][o] = s[o] /\ s[o] \in Conns
      BY <1>2, <1>3, <2>2, <3>1, SlotType
    <3>3. Registered(s[o])
      BY <2>2, <3>1, <3>2 DEF IInv, SlotsBelong, Slot
    <3>4. QED
      BY <1>1, <3>1, <3>2, <3>3 DEF Registered
  <2> SUFFICES ASSUME NEW q \in Rooms, rooms'[q] # None
               PROVE  /\ \E o \in Roles : rooms'[q][o] # None
                      /\ \A o \in Roles : rooms'[q][o] # None =>
                            /\ conn'[rooms'[q][o]].pc \in Live
                            /\ conn'[rooms'[q][o]].room = q
                            /\ conn'[rooms'[q][o]].role = o
                            /\ conn'[rooms'[q][o]].token = rooms'[q].token
    BY DEF SlotsBelong, Slot, Registered, Live
  <2>3. CASE q # room
    BY <1>5, <1>6, <2>1, <2>3 DEF IInv, SlotsBelong, Slot, Registered, Live
  <2>4. CASE q = room
    <3>1. c # None
      BY ConnAssumption
    <3>2. conn'[c].pc \in Live
      BY <1>4 DEF Live
    <3>3. ASSUME NEW o \in Roles, o # role, s[o] # None
          PROVE  /\ conn'[s[o]].pc \in Live /\ conn'[s[o]].room = q
                 /\ conn'[s[o]].role = o /\ conn'[s[o]].token = token
      <4>1. /\ rooms[room] # None /\ rooms[room][o] = s[o] /\ s[o] # c
            /\ s[o] \in Conns /\ rooms[room].token = token
        BY <1>2, <2>2, <3>3
      <4>2. /\ Registered(s[o]) /\ conn[s[o]].room = room
            /\ conn[s[o]].role = o /\ conn[s[o]].token = token
        BY <3>3, <4>1 DEF IInv, SlotsBelong, Slot
      <4>3. QED
        BY <1>5, <2>4, <4>1, <4>2 DEF Registered, Live
    <3>4. QED
      BY <1>3, <1>4, <1>6, <2>4, <3>1, <3>2, <3>3
  <2>5. QED
    BY <2>3, <2>4
<1>11. LatestHoldsSlot'
  <2> SUFFICES ASSUME NEW d \in Conns, Registered(d)', ~Replaced(d)'
               PROVE  HoldsSlot(d)'
    BY DEF LatestHoldsSlot
  <2>1. CASE d = c
    BY <1>3, <1>4, <1>6, <2>1, ConnAssumption DEF HoldsSlot, Slot
  <2>2. CASE d # c
    <3>1. conn'[d] = conn[d] /\ Registered(d)
      BY <1>5, <2>2 DEF Registered
    <3>2. ~Replaced(d)
      BY <1>1, <1>5, <3>1 DEF Replaced, WasRegistered, Registered
    <3>3. HoldsSlot(d) /\ conn[d].room \in Rooms /\ conn[d].role \in Roles
      BY <3>1, <3>2 DEF IInv, LatestHoldsSlot, TypeOK, TaskOK, Tasks, Registered
    <3>4. ~(conn[d].room = room /\ conn[d].role = role)
      <4>1. conn'[c].nr > conn'[d].nr
        BY <1>4, <3>1 DEF IInv, TypeOK, TaskOK, Tasks, Numbered, WasRegistered, Registered
      <4>2. WasRegistered(c)'
        BY <1>4 DEF WasRegistered, Registered
      <4>3. QED
        BY <1>4, <3>1, <4>1, <4>2 DEF Replaced
    <3>5. CASE conn[d].room # room
      BY <1>6, <3>1, <3>3, <3>5 DEF HoldsSlot, Slot
    <3>6. CASE conn[d].room = room
      <4>1. r = rooms[room]
        BY <3>3, <3>6 DEF r, HoldsSlot
      <4>2. s[conn[d].role] = d
        BY <1>3, <3>3, <3>4, <3>6, <4>1 DEF HoldsSlot, Slot
      <4>3. QED
        BY <1>3, <1>6, <3>1, <3>6, <4>2, ConnAssumption DEF HoldsSlot, Slot
    <3>7. QED
      BY <3>5, <3>6
  <2>3. QED
    BY <2>1, <2>2
<1>12. QED
  BY <1>7, <1>8, <1>9, <1>10, <1>11 DEF IInv

\* Leaving keeps the registry: only the slot of the one who leaves is cleared,
\* and only if nobody replaced it there.
LEMMA UnregisterKeeps ==
    ASSUME IInv, NEW c \in Conns, Unregister(c)
    PROVE  IInv'
<1> DEFINE room == conn[c].room
           role == conn[c].role
           s == [rooms[room] EXCEPT ![role] = None]
           Kept == /\ rooms' \in [Rooms -> {None} \union RoomStates]
                   /\ SlotsBelong'
                   /\ \A d \in Conns : d # c /\ HoldsSlot(d) /\ conn[d].room \in Rooms
                                       /\ conn[d].role \in Roles => HoldsSlot(d)'
<1>1. /\ conn[c].pc = "open" /\ room \in Rooms /\ role \in Roles
      /\ conn'[c].pc = "gone" /\ conn'[c].nr = conn[c].nr
      /\ conn'[c].role = role /\ conn'[c].room = room
      /\ \A d \in Conns : d # c => conn'[d] = conn[d]
      /\ active' = active - 1
      /\ UNCHANGED <<total, got, routes>>
  BY DEF Unregister, IInv, TypeOK, TaskOK, Tasks
<1>2. ASSUME HoldsSlot(c) PROVE Kept
  <2>1. rooms[room] \in RoomStates /\ rooms[room][role] = c
    BY <1>1, <1>2 DEF HoldsSlot, Slot, IInv, TypeOK
  <2>2. /\ s \in RoomStates /\ s.token = rooms[room].token /\ s[role] = None
        /\ \A o \in Roles : o # role => s[o] = rooms[room][o]
    <3>1. \A r \in RoomStates, o \in Roles :
             LET t == [r EXCEPT ![o] = None] IN
             /\ t \in RoomStates /\ t.token = r.token /\ t[o] = None
             /\ \A q \in Roles : q # o => t[q] = r[q]
      BY SlotSet
    <3>2. QED
      BY <1>1, <2>1, <3>1
  <2> HIDE DEF s
  <2>3. /\ rooms'[room] \in {None, s}
        /\ rooms'[room] = None <=> \A o \in Roles : s[o] = None
        /\ \A q \in Rooms : q # room => rooms'[q] = rooms[q]
    <3>1. rooms' = [rooms EXCEPT ![room] = Cleared(room, role)]
      BY <1>2 DEF Unregister
    <3>2. s # None
      BY <2>2, ConnAssumption
    <3>3. QED
      BY <1>1, <3>1, <3>2 DEF IInv, TypeOK, Cleared, s, Roles
  <2>4. rooms' \in [Rooms -> {None} \union RoomStates]
    BY <1>1, <1>2, <2>2, <2>3 DEF IInv, TypeOK, Unregister
  <2>5. SlotsBelong'
    <3> SUFFICES ASSUME NEW q \in Rooms, rooms'[q] # None
                 PROVE  /\ \E o \in Roles : rooms'[q][o] # None
                        /\ \A o \in Roles : rooms'[q][o] # None =>
                              /\ conn'[rooms'[q][o]].pc \in Live
                              /\ conn'[rooms'[q][o]].room = q
                              /\ conn'[rooms'[q][o]].role = o
                              /\ conn'[rooms'[q][o]].token = rooms'[q].token
      BY DEF SlotsBelong, Slot, Registered, Live
    <3>1. /\ rooms[q] # None /\ rooms[q] \in RoomStates
          /\ rooms'[q].token = rooms[q].token
          /\ \A o \in Roles : rooms'[q][o] # None =>
                rooms'[q][o] = rooms[q][o] /\ ~(q = room /\ o = role)
      BY <1>2, <2>1, <2>2, <2>3, ConnAssumption DEF IInv, TypeOK
    <3>2. \E o \in Roles : rooms'[q][o] # None
      BY <2>3, <3>1 DEF IInv, SlotsBelong, Slot
    <3>3. ASSUME NEW o \in Roles, rooms'[q][o] # None
          PROVE  /\ conn'[rooms'[q][o]].pc \in Live /\ conn'[rooms'[q][o]].room = q
                 /\ conn'[rooms'[q][o]].role = o
                 /\ conn'[rooms'[q][o]].token = rooms'[q].token
      <4>1. PICK d \in Conns : d = rooms[q][o] /\ rooms'[q][o] = d
        BY <3>1, <3>3, SlotType
      <4>2. /\ conn[d].pc \in Live /\ conn[d].room = q /\ conn[d].role = o
            /\ conn[d].token = rooms[q].token
        BY <3>1, <3>3, <4>1 DEF IInv, SlotsBelong, Slot, Registered, Live
      <4>3. d # c
        BY <3>1, <3>3, <4>2
      <4>4. QED
        BY <1>1, <3>1, <4>1, <4>2, <4>3
    <3>4. QED
      BY <3>2, <3>3
  <2>6. ASSUME NEW d \in Conns, d # c, HoldsSlot(d), conn[d].room \in Rooms,
               conn[d].role \in Roles
        PROVE  HoldsSlot(d)'
    <3>1. conn[d].room = room => conn[d].role # role
      BY <2>1, <2>6 DEF HoldsSlot, Slot
    <3>2. CASE conn[d].room = room
      <4>1. s[conn[d].role] = d /\ d # None
        BY <2>2, <2>6, <3>1, <3>2, ConnAssumption DEF HoldsSlot, Slot
      <4>2. rooms'[room] = s /\ s # None
        BY <2>2, <2>3, <2>6, <4>1, ConnAssumption
      <4>3. QED
        BY <1>1, <2>6, <3>2, <4>1, <4>2 DEF HoldsSlot, Slot
    <3>3. CASE conn[d].room # room
      BY <1>1, <2>3, <2>6, <3>3 DEF HoldsSlot, Slot
    <3>4. QED
      BY <3>2, <3>3
  <2>7. QED
    BY <2>4, <2>5, <2>6
<1>3. ASSUME ~HoldsSlot(c) PROVE Kept
  <2>1. rooms' = rooms
    BY <1>3 DEF Unregister
  <2>2. SlotsBelong'
    <3> SUFFICES ASSUME NEW q \in Rooms, rooms[q] # None
                 PROVE  /\ \E o \in Roles : rooms[q][o] # None
                        /\ \A o \in Roles : rooms[q][o] # None =>
                              /\ conn'[rooms[q][o]].pc \in Live
                              /\ conn'[rooms[q][o]].room = q
                              /\ conn'[rooms[q][o]].role = o
                              /\ conn'[rooms[q][o]].token = rooms[q].token
      BY <2>1 DEF SlotsBelong, Slot, Registered, Live
    <3>1. ASSUME NEW o \in Roles, rooms[q][o] # None
          PROVE  /\ conn'[rooms[q][o]].pc \in Live /\ conn'[rooms[q][o]].room = q
                 /\ conn'[rooms[q][o]].role = o
                 /\ conn'[rooms[q][o]].token = rooms[q].token
      <4>1. PICK d \in Conns : d = rooms[q][o]
        BY <3>1, SlotType DEF IInv, TypeOK
      <4>2. /\ conn[d].pc \in Live /\ conn[d].room = q /\ conn[d].role = o
            /\ conn[d].token = rooms[q].token
        BY <3>1, <4>1 DEF IInv, SlotsBelong, Slot, Registered, Live
      <4>3. d # c
        BY <1>3, <4>1, <4>2 DEF HoldsSlot, Slot
      <4>4. QED
        BY <1>1, <4>1, <4>2, <4>3
    <3>2. QED
      BY <3>1 DEF IInv, SlotsBelong, Slot
  <2>3. ASSUME NEW d \in Conns, d # c, HoldsSlot(d) PROVE HoldsSlot(d)'
    BY <1>1, <2>1, <2>3 DEF HoldsSlot, Slot
  <2>4. QED
    BY <2>1, <2>2, <2>3 DEF IInv, TypeOK
<1>4. Kept
  BY <1>2, <1>3
<1>5. active' \in Nat /\ ActiveCounts'
  <2>1. c \in Counted /\ Counted' = Counted \ {c}
    BY <1>1 DEF Counted
  <2>2. QED
    BY <1>1, <2>1, CountKept DEF IInv
<1>6. TypeOK'
  <2> DEFINE m == [conn[c] EXCEPT !.pc = "gone"]
  <2>1. conn' = [conn EXCEPT ![c] = m] /\ TaskOK(conn[c]) /\ conn[c] \in Tasks
    BY DEF Unregister, IInv, TypeOK
  <2>2. TaskOK(m) /\ m \in Tasks
    BY <1>1, <2>1 DEF TaskOK, Tasks
  <2> HIDE DEF m
  <2>3. conn' \in [Conns -> Tasks] /\ \A d \in Conns : TaskOK(conn'[d])
    BY <2>1, <2>2 DEF IInv, TypeOK
  <2>4. channel' \in [Conns -> Seq(Messages)] /\ writing' \subseteq Conns
    <3>1. <<>> \in Seq(Messages)
      OBVIOUS
    <3>2. QED
      BY <3>1 DEF IInv, TypeOK, Unregister
  <2>5. QED
    BY <1>1, <1>4, <1>5, <2>3, <2>4 DEF IInv, TypeOK
<1>7. \A d \in Conns : /\ WasRegistered(d)' <=> WasRegistered(d)
                       /\ conn'[d].nr = conn[d].nr /\ conn'[d].role = conn[d].role
                       /\ conn'[d].room = conn[d].room
  BY <1>1 DEF WasRegistered, Registered, IInv, TypeOK
<1>8. Numbered'
  BY <1>1, <1>7 DEF Numbered, IInv
<1>9. LatestHoldsSlot'
  <2> SUFFICES ASSUME NEW d \in Conns, Registered(d)', ~Replaced(d)'
               PROVE  HoldsSlot(d)'
    BY DEF LatestHoldsSlot
  <2>1. d # c /\ Registered(d)
    BY <1>1 DEF Registered
  <2>2. ~Replaced(d)
    BY <1>7 DEF Replaced
  <2>3. HoldsSlot(d) /\ conn[d].room \in Rooms /\ conn[d].role \in Roles
    BY <2>1, <2>2 DEF IInv, LatestHoldsSlot, TypeOK, TaskOK, Tasks, Registered
  <2>4. QED
    BY <1>4, <2>1, <2>3
<1>10. QED
  BY <1>4, <1>5, <1>6, <1>8, <1>9 DEF IInv

\* Everything else leaves the rooms and what is registered in them alone.
LEMMA RegistryUnmoved ==
    ASSUME IInv, rooms' = rooms, total' \in Nat, total' >= total,
           \A c \in Conns :
              /\ conn'[c].room = conn[c].room /\ conn'[c].role = conn[c].role
              /\ conn'[c].token = conn[c].token
              /\ conn'[c].pc \in Live <=> conn[c].pc \in Live
              /\ conn'[c].pc = "gone" <=> conn[c].pc = "gone"
              /\ conn'[c].nr = conn[c].nr
    PROVE  SlotsBelong' /\ LatestHoldsSlot' /\ Numbered'
<1>1. \A c \in Conns : /\ Registered(c)' <=> Registered(c)
                       /\ WasRegistered(c)' <=> WasRegistered(c)
                       /\ HoldsSlot(c)' <=> HoldsSlot(c)
  BY DEF Registered, WasRegistered, Live, HoldsSlot, Slot
<1>2. \A c \in Conns : Replaced(c)' <=> Replaced(c)
  BY <1>1 DEF Replaced
<1>3. LatestHoldsSlot'
  BY <1>1, <1>2 DEF LatestHoldsSlot, IInv
<1>4. Numbered'
  BY <1>1 DEF Numbered, IInv, TypeOK, TaskOK, Tasks
<1>5. SlotsBelong'
  <2> SUFFICES ASSUME NEW q \in Rooms, rooms[q] # None
               PROVE  /\ \E o \in Roles : rooms[q][o] # None
                      /\ \A o \in Roles : rooms[q][o] # None =>
                            /\ conn'[rooms[q][o]].pc \in Live
                            /\ conn'[rooms[q][o]].room = q
                            /\ conn'[rooms[q][o]].role = o
                            /\ conn'[rooms[q][o]].token = rooms[q].token
    BY DEF SlotsBelong, Slot, Registered, Live
  <2>1. \A o \in Roles : rooms[q][o] \in {None} \union Conns
    BY SlotType DEF IInv, TypeOK
  <2>2. QED
    BY <2>1 DEF IInv, SlotsBelong, Slot, Registered, Live
<1>6. QED
  BY <1>3, <1>4, <1>5

\* What a task does between registering and leaving changes its own step only.
LEMMA TaskMoves ==
    ASSUME IInv, NEW c \in Conns, NEW m, conn' = [conn EXCEPT ![c] = m], TaskOK(m),
           m.room = conn[c].room, m.role = conn[c].role, m.token = conn[c].token,
           m.nr = conn[c].nr, m.pc \in Live <=> conn[c].pc \in Live, m.pc # "gone",
           conn[c].pc # "gone", rooms' = rooms, total' \in Nat, total' >= total
    PROVE  /\ conn' \in [Conns -> Tasks] /\ \A d \in Conns : TaskOK(conn'[d])
           /\ SlotsBelong' /\ LatestHoldsSlot' /\ Numbered'
           /\ (m.pc \in Live => Counted' = Counted)
<1>1. conn'[c] = m /\ \A d \in Conns : d # c => conn'[d] = conn[d]
  BY DEF IInv, TypeOK
<1>2. conn' \in [Conns -> Tasks] /\ \A d \in Conns : TaskOK(conn'[d])
  <2>1. m \in Tasks
    BY DEF TaskOK
  <2>2. QED
    BY <1>1, <2>1 DEF IInv, TypeOK
<1>3. \A d \in Conns :
         /\ conn'[d].room = conn[d].room /\ conn'[d].role = conn[d].role
         /\ conn'[d].token = conn[d].token
         /\ conn'[d].pc \in Live <=> conn[d].pc \in Live
         /\ conn'[d].pc = "gone" <=> conn[d].pc = "gone"
         /\ conn'[d].nr = conn[d].nr
  BY <1>1
<1>4. m.pc \in Live => Counted' = Counted
  BY <1>1 DEF Counted, Live
<1>5. QED
  BY <1>2, <1>3, <1>4, RegistryUnmoved

\* The registry is consistent in every step: the invariant is inductive.
LEMMA StepKeeps == IInv /\ [Next]_vars => IInv'
<1> SUFFICES ASSUME IInv, [Next]_vars PROVE IInv'
  OBVIOUS
<1> USE DEF IInv
<1>1. ASSUME NEW c \in Conns, NEW room \in Rooms, NEW token \in Tokens,
             Reject(c, room, token)
      PROVE  IInv'
  <2> DEFINE m == [conn[c] EXCEPT !.pc = "rejected"]
  <2>1. conn' = [conn EXCEPT ![c] = m] /\ conn[c].pc = "new" /\ conn[c] \in Tasks
    BY <1>1 DEF Reject, TypeOK
  <2>2. /\ TaskOK(m) /\ m.pc = "rejected" /\ m.room = conn[c].room
        /\ m.role = conn[c].role /\ m.token = conn[c].token /\ m.nr = conn[c].nr
    BY <2>1 DEF TaskOK, Tasks
  <2> HIDE DEF m
  <2>3. UNCHANGED <<rooms, channel, writing, got, routes>> /\ active' = active + 1
        /\ total' = total + 1
    BY <1>1 DEF Reject
  <2>4. /\ conn' \in [Conns -> Tasks] /\ \A d \in Conns : TaskOK(conn'[d])
        /\ SlotsBelong' /\ LatestHoldsSlot' /\ Numbered'
    <3>1. /\ m.pc \notin Live /\ conn[c].pc \notin Live /\ m.pc # "gone" /\ conn[c].pc # "gone"
          /\ total' \in Nat /\ total' >= total
      BY <2>1, <2>2, <2>3 DEF Live, TypeOK
    <3>2. QED
      BY <2>1, <2>2, <2>3, <3>1, TaskMoves
  <2>5. c \notin Counted /\ Counted' = Counted \union {c}
    BY <2>1, <2>2 DEF Counted, TypeOK
  <2>6. active' \in Nat /\ ActiveCounts'
    BY <2>3, <2>5, CountKept
  <2>7. QED
    BY <2>3, <2>4, <2>6 DEF TypeOK
<1>2. ASSUME NEW c \in Conns, Receive(c) PROVE IInv'
  <2> DEFINE target == IF rooms[conn[c].room] = None THEN None
                       ELSE Slot(conn[c].room, Opposite(conn[c].role))
             m == IF target = None THEN conn[c]
                  ELSE [conn[c] EXCEPT !.pc = "sending", !.to = target]
  <2>1. target \in {None} \union Conns
    <3>1. Opposite(conn[c].role) \in Roles
      BY DEF Opposite, Roles
    <3>2. conn[c].room \in Rooms
      BY <1>2 DEF Receive, TypeOK, TaskOK
    <3>3. QED
      BY <3>1, <3>2, SlotType DEF Slot, TypeOK
  <2>2. /\ conn' = [conn EXCEPT ![c] = m] /\ conn[c].pc = "open" /\ TaskOK(conn[c])
        /\ conn[c] \in Tasks
        /\ routes' = [routes EXCEPT ![c] = Append(@, target)]
        /\ UNCHANGED <<rooms, channel, writing, active, total, got>>
    BY <1>2 DEF Receive, TypeOK
  <2> HIDE DEF target
  <2>3. /\ TaskOK(m) /\ m.pc \in {"open", "sending"} /\ m.room = conn[c].room
        /\ m.role = conn[c].role /\ m.token = conn[c].token /\ m.nr = conn[c].nr
    BY <2>1, <2>2 DEF TaskOK, Tasks
  <2> HIDE DEF m
  <2>4. /\ conn' \in [Conns -> Tasks] /\ \A d \in Conns : TaskOK(conn'[d])
        /\ SlotsBelong' /\ LatestHoldsSlot' /\ Numbered' /\ Counted' = Counted
    <3>1. /\ m.pc \in Live /\ conn[c].pc \in Live /\ m.pc # "gone" /\ conn[c].pc # "gone"
          /\ total' \in Nat /\ total' >= total
      BY <2>2, <2>3 DEF Live, TypeOK
    <3>2. QED
      BY <2>2, <2>3, <3>1, TaskMoves
  <2>5. active' \in Nat /\ ActiveCounts'
    BY <2>2, <2>4, CountKept
  <2>6. routes' \in [Conns -> Seq({None} \union Conns)]
    BY <2>1, <2>2 DEF TypeOK
  <2>7. QED
    BY <2>2, <2>4, <2>5, <2>6 DEF TypeOK
<1>3. ASSUME NEW c \in Conns, Send(c) PROVE IInv'
  <2> DEFINE m == [conn[c] EXCEPT !.pc = "open", !.to = None]
  <2>1. /\ conn' = [conn EXCEPT ![c] = m] /\ conn[c].pc = "sending" /\ TaskOK(conn[c])
        /\ conn[c] \in Tasks /\ UNCHANGED <<rooms, writing, active, total, got, routes>>
    BY <1>3 DEF Send, TypeOK
  <2>2. /\ TaskOK(m) /\ m.pc = "open" /\ m.room = conn[c].room
        /\ m.role = conn[c].role /\ m.token = conn[c].token /\ m.nr = conn[c].nr
    BY <2>1 DEF TaskOK, Tasks
  <2> HIDE DEF m
  <2>3. /\ conn' \in [Conns -> Tasks] /\ \A d \in Conns : TaskOK(conn'[d])
        /\ SlotsBelong' /\ LatestHoldsSlot' /\ Numbered' /\ Counted' = Counted
    <3>1. /\ m.pc \in Live /\ conn[c].pc \in Live /\ m.pc # "gone" /\ conn[c].pc # "gone"
          /\ total' \in Nat /\ total' >= total
      BY <2>1, <2>2 DEF Live, TypeOK
    <3>2. QED
      BY <2>1, <2>2, <3>1, TaskMoves
  <2>4. active' \in Nat /\ ActiveCounts'
    BY <2>1, <2>3, CountKept
  <2>5. channel' \in [Conns -> Seq(Messages)]
    <3>1. conn[c].to \in Conns /\ Len(routes[c]) \in Nat
      BY <2>1 DEF TypeOK, TaskOK
    <3>2. <<c, Len(routes[c])>> \in Messages
      BY <3>1 DEF Messages
    <3>3. QED
      BY <1>3, <3>1, <3>2, PutType DEF Send
  <2>6. QED
    BY <2>1, <2>3, <2>4, <2>5 DEF TypeOK
<1>4. ASSUME NEW c \in Conns, ReadError(c) PROVE IInv'
  <2> DEFINE m == [conn[c] EXCEPT !.pc = "lost"]
  <2>1. /\ conn' = [conn EXCEPT ![c] = m] /\ conn[c].pc = "open" /\ TaskOK(conn[c])
        /\ conn[c] \in Tasks
        /\ UNCHANGED <<rooms, channel, writing, active, total, got, routes>>
    BY <1>4 DEF ReadError, TypeOK
  <2>2. /\ TaskOK(m) /\ m.pc = "lost" /\ m.room = conn[c].room
        /\ m.role = conn[c].role /\ m.token = conn[c].token /\ m.nr = conn[c].nr
    BY <2>1 DEF TaskOK, Tasks
  <2> HIDE DEF m
  <2>3. /\ conn' \in [Conns -> Tasks] /\ \A d \in Conns : TaskOK(conn'[d])
        /\ SlotsBelong' /\ LatestHoldsSlot' /\ Numbered' /\ Counted' = Counted
    <3>1. /\ m.pc \in Live /\ conn[c].pc \in Live /\ m.pc # "gone" /\ conn[c].pc # "gone"
          /\ total' \in Nat /\ total' >= total
      BY <2>1, <2>2 DEF Live, TypeOK
    <3>2. QED
      BY <2>1, <2>2, <3>1, TaskMoves
  <2>4. active' \in Nat /\ ActiveCounts'
    BY <2>1, <2>3, CountKept
  <2>5. QED
    BY <2>1, <2>3, <2>4 DEF TypeOK
<1>5. ASSUME NEW c \in Conns, WriteOut(c) \/ WriteError(c) PROVE IInv'
  <2>1. UNCHANGED <<rooms, conn, active, total, routes>>
    BY <1>5 DEF WriteOut, WriteError
  <2>2. /\ channel' \in [Conns -> Seq(Messages)] /\ writing' \subseteq Conns
        /\ got' \in [Conns -> Seq(Messages)]
    <3>1. /\ channel[c] \in Seq(Messages) /\ channel[c] # <<>>
      BY <1>5 DEF WriteOut, WriteError, TypeOK
    <3>2. /\ Head(channel[c]) \in Messages /\ Tail(channel[c]) \in Seq(Messages)
          /\ <<>> \in Seq(Messages)
      BY <3>1
    <3>3. CASE WriteOut(c)
      <4>1. got' = [got EXCEPT ![c] = Append(got[c], Head(channel[c]))]
        BY <3>3 DEF WriteOut
      <4>2. Append(got[c], Head(channel[c])) \in Seq(Messages)
        BY <3>2 DEF TypeOK
      <4>3. got' \in [Conns -> Seq(Messages)]
        BY <4>1, <4>2 DEF TypeOK
      <4>4. channel' \in [Conns -> Seq(Messages)] /\ writing' \subseteq Conns
        BY <3>2, <3>3 DEF WriteOut, TypeOK
      <4>5. QED
        BY <4>3, <4>4
    <3>4. CASE WriteError(c)
      BY <3>2, <3>4 DEF WriteError, TypeOK
    <3>5. QED
      BY <1>5, <3>3, <3>4
  <2>3. TypeOK' /\ ActiveCounts'
    BY <2>1, <2>2 DEF TypeOK, ActiveCounts
  <2>4. QED
    BY <2>1, <2>3, RegistryUnmoved DEF TypeOK, Live
<1>6. CASE UNCHANGED vars
  <2>1. TypeOK' /\ ActiveCounts'
    BY <1>6 DEF TypeOK, ActiveCounts, vars
  <2>2. QED
    BY <1>6, <2>1, RegistryUnmoved DEF vars, TypeOK, Live
<1>7. QED
  BY <1>1, <1>2, <1>3, <1>4, <1>5, <1>6, RegisterKeeps, UnregisterKeeps
     DEF Next, Step

LEMMA RegistryInitially == Init => IInv
<1> SUFFICES ASSUME Init PROVE IInv
  OBVIOUS
<1>1. TypeOK
  BY DEF Init, TypeOK, TaskOK, Tasks, Roles
<1>2. ActiveCounts
  <2>1. {c \in Conns : conn[c].pc \in {"open", "sending", "lost", "rejected"}} = {}
    BY DEF Init
  <2>2. QED
    BY <2>1, FS_EmptySet DEF Init, ActiveCounts
<1>3. SlotsBelong /\ LatestHoldsSlot /\ Numbered
  BY DEF Init, SlotsBelong, LatestHoldsSlot, Numbered, WasRegistered, Registered
<1>4. QED
  BY <1>1, <1>2, <1>3 DEF IInv

\* Rooms, slots, connections and their count agree whatever reconnects, closes
\* and fails in whatever order (register_peer, unregister_peer): for any number
\* of connections the slot is the last one's that registered for it, and a late
\* clean-up takes nothing from it.
THEOREM RegistryHolds == Spec => []RegistryConsistent
<1>1. IInv => RegistryConsistent
  BY DEF IInv, RegistryConsistent
<1>2. QED
  BY <1>1, RegistryInitially, StepKeeps, PTL DEF Spec

-----------------------------------------------------------------------------
\* Only registered connections send and are sent to.
RoutingInv ==
    /\ \A c \in Conns : routes[c] # <<>> => WasRegistered(c)
    /\ \A c \in Conns : \A n \in DOMAIN routes[c] :
          routes[c][n] # None => WasRegistered(routes[c][n])
    /\ PartnersOnly

\* What a connection registered as stays with it.
LEMMA RegistrationStays ==
    ASSUME IInv, [Next]_vars, NEW c \in Conns, WasRegistered(c)
    PROVE  /\ WasRegistered(c)' /\ conn'[c].nr = conn[c].nr
           /\ conn'[c].room = conn[c].room /\ conn'[c].role = conn[c].role
           /\ conn'[c].token = conn[c].token
<1> USE DEF WasRegistered, Registered
<1>1. ASSUME NEW d \in Conns, NEW role \in Roles, NEW room \in Rooms,
             NEW token \in Tokens, Register(d, role, room, token)
      PROVE  conn'[c] = conn[c]
  BY <1>1 DEF Register, IInv, TypeOK
<1>2. ASSUME NEW d \in Conns, NEW room \in Rooms, NEW token \in Tokens,
             Reject(d, room, token)
      PROVE  conn'[c] = conn[c]
  BY <1>2 DEF Reject, IInv, TypeOK
<1>3. ASSUME NEW d \in Conns, Receive(d) \/ Send(d) \/ Unregister(d) \/ ReadError(d)
      PROVE  /\ conn'[c].pc \in {"open", "sending", "lost", "gone"}
             /\ conn'[c].nr = conn[c].nr
             /\ conn'[c].room = conn[c].room /\ conn'[c].role = conn[c].role
             /\ conn'[c].token = conn[c].token
  <2>1. conn[c] \in Tasks
    BY DEF IInv, TypeOK
  <2>2. CASE d # c
    <3>1. conn'[c] = conn[c]
      BY <1>3, <2>2 DEF Receive, Send, Unregister, ReadError, IInv, TypeOK
    <3>2. QED
      BY <3>1
  <2>3. CASE d = c
    <3>1. \/ conn' = conn
          \/ conn' = [conn EXCEPT ![c].pc = "gone"]
          \/ conn' = [conn EXCEPT ![c].pc = "lost"]
          \/ conn' = [conn EXCEPT ![c].pc = "open", ![c].to = None]
          \/ \E t : conn' = [conn EXCEPT ![c].pc = "sending", ![c].to = t]
      BY <1>3, <2>3 DEF Receive, Send, Unregister, ReadError
    <3>2. QED
      BY <2>1, <3>1 DEF IInv, TypeOK, Tasks
  <2>4. QED
    BY <2>2, <2>3
<1>4. ASSUME NEW d \in Conns, WriteOut(d) \/ WriteError(d) PROVE conn' = conn
  BY <1>4 DEF WriteOut, WriteError
<1>5. CASE UNCHANGED vars
  BY <1>5 DEF vars
<1>6. QED
  BY <1>1, <1>2, <1>3, <1>4, <1>5 DEF Next, Step

\* Routes change by a reception only.
LEMMA RoutesChange ==
    ASSUME [Next]_vars
    PROVE  routes' = routes \/ \E c \in Conns : Receive(c)
  BY DEF Next, Step, Register, Reject, Send, Unregister, ReadError, WriteOut,
         WriteError, vars

\* The receiver that is looked up is the partner: of the same room, and under
\* the same token as long as the sender's slot is its own.
LEMMA TargetIsPartner ==
    ASSUME IInv, NEW c \in Conns, Receive(c)
    PROVE  \E d \in {None} \union Conns :
              /\ routes' = [routes EXCEPT ![c] = Append(routes[c], d)]
              /\ WasRegistered(c)
              /\ d # None => /\ WasRegistered(d)
                             /\ conn[d].role = Opposite(conn[c].role)
                             /\ conn[d].room = conn[c].room
                             /\ Replaced(c) \/ conn[d].token = conn[c].token
<1> DEFINE room == conn[c].room
           role == conn[c].role
           d == IF rooms[room] = None THEN None ELSE Slot(room, Opposite(role))
<1>1. /\ conn[c].pc = "open" /\ room \in Rooms /\ role \in Roles
      /\ routes' = [routes EXCEPT ![c] = Append(routes[c], d)]
  BY DEF Receive, IInv, TypeOK, TaskOK, Tasks
<1>2. Opposite(role) \in Roles
  BY DEF Opposite, Roles
<1>3. d \in {None} \union Conns
  BY <1>1, <1>2, SlotType DEF Slot, IInv, TypeOK
<1>4. WasRegistered(c) /\ Registered(c)
  BY <1>1 DEF WasRegistered, Registered
<1>5. ASSUME d # None
      PROVE  /\ WasRegistered(d) /\ conn[d].role = Opposite(role) /\ conn[d].room = room
             /\ Replaced(c) \/ conn[d].token = conn[c].token
  <2>1. rooms[room] # None /\ d = Slot(room, Opposite(role))
    BY <1>5
  <2>2. /\ Registered(d) /\ conn[d].role = Opposite(role) /\ conn[d].room = room
        /\ conn[d].token = rooms[room].token
    BY <1>1, <1>2, <1>5, <2>1 DEF IInv, SlotsBelong
  <2>3. ASSUME ~Replaced(c) PROVE conn[c].token = rooms[room].token
    <3>1. Slot(room, role) = c
      BY <1>4, <2>3 DEF IInv, LatestHoldsSlot, HoldsSlot
    <3>2. QED
      BY <1>1, <2>1, <3>1, ConnAssumption DEF IInv, SlotsBelong
  <2>4. QED
    BY <2>2, <2>3 DEF WasRegistered
<1> HIDE DEF d
<1>6. QED
  BY <1>1, <1>3, <1>4, <1>5

LEMMA RoutingInitially == Init => RoutingInv
  BY DEF Init, RoutingInv, PartnersOnly

LEMMA RoutingStep == IInv /\ RoutingInv /\ [Next]_vars => RoutingInv'
<1> SUFFICES ASSUME IInv, RoutingInv, [Next]_vars PROVE RoutingInv'
  OBVIOUS
<1>1. \A c \in Conns : WasRegistered(c) =>
          /\ WasRegistered(c)' /\ conn'[c].nr = conn[c].nr
          /\ conn'[c].room = conn[c].room /\ conn'[c].role = conn[c].role
          /\ conn'[c].token = conn[c].token
  BY RegistrationStays
<1>2. \A c \in Conns : WasRegistered(c) /\ Replaced(c) => Replaced(c)'
  BY <1>1 DEF Replaced
<1> DEFINE Right(c, d) == /\ WasRegistered(d)
                          /\ conn[d].role = Opposite(conn[c].role)
                          /\ conn[d].room = conn[c].room
                          /\ Replaced(c) \/ conn[d].token = conn[c].token
<1>3. ASSUME NEW c \in Conns, NEW d \in Conns, WasRegistered(c), Right(c, d)
      PROVE  Right(c, d)'
  BY <1>1, <1>2, <1>3
<1> HIDE DEF Right
<1>4. ASSUME NEW c \in Conns, NEW n \in DOMAIN routes[c], routes[c][n] # None
      PROVE  WasRegistered(c) /\ routes[c][n] \in Conns /\ Right(c, routes[c][n])
  <2>1. routes[c] \in Seq({None} \union Conns) /\ routes[c] # <<>>
    BY <1>4 DEF IInv, TypeOK
  <2>2. routes[c][n] \in Conns
    BY <1>4, <2>1
  <2>3. QED
    BY <1>4, <2>1, <2>2 DEF RoutingInv, PartnersOnly, Right
<1>5. ASSUME \A c \in Conns : routes'[c] # <<>> => WasRegistered(c)',
             \A c \in Conns : \A n \in DOMAIN routes'[c] : \A d \in Conns :
                 routes'[c][n] = d => Right(c, d)',
             \A c \in Conns : \A n \in DOMAIN routes'[c] :
                 routes'[c][n] \in {None} \union Conns
      PROVE  RoutingInv'
  BY <1>5 DEF RoutingInv, PartnersOnly, Right
<1>6. CASE routes' = routes
  <2>1. \A c \in Conns : routes[c] \in Seq({None} \union Conns)
    BY DEF IInv, TypeOK
  <2>2. \A c \in Conns : \A n \in DOMAIN routes[c] :
            routes[c][n] \in {None} \union Conns
    BY <2>1
  <2>3. \A c \in Conns : routes'[c] # <<>> => WasRegistered(c)'
    BY <1>1, <1>6 DEF RoutingInv
  <2>4. ASSUME NEW b \in Conns, NEW n \in DOMAIN routes'[b], NEW d \in Conns,
               routes'[b][n] = d
        PROVE  Right(b, d)'
    BY <1>3, <1>4, <1>6, <2>4, ConnAssumption
  <2>5. QED
    BY <1>5, <1>6, <2>2, <2>3, <2>4
<1>7. CASE \E c \in Conns : Receive(c)
  <2>1. PICK c \in Conns : Receive(c)
    BY <1>7
  <2>2. PICK e \in {None} \union Conns :
            /\ routes' = [routes EXCEPT ![c] = Append(routes[c], e)]
            /\ WasRegistered(c) /\ (e # None => Right(c, e))
    BY <2>1, TargetIsPartner DEF Right
  <2>3. /\ routes'[c] = Append(routes[c], e)
        /\ \A b \in Conns : b # c => routes'[b] = routes[b]
        /\ routes[c] \in Seq({None} \union Conns)
    BY <2>2 DEF IInv, TypeOK
  <2>4. ASSUME NEW b \in Conns, NEW n \in DOMAIN routes'[b], NEW d \in Conns,
               routes'[b][n] = d
        PROVE  Right(b, d)'
    <3>1. CASE b # c \/ n \in DOMAIN routes[b]
      <4>1. n \in DOMAIN routes[b] /\ routes[b][n] = d
        BY <2>3, <2>4, <3>1
      <4>2. d # None
        BY ConnAssumption
      <4>3. QED
        BY <1>3, <1>4, <4>1, <4>2
    <3>2. CASE b = c /\ n \notin DOMAIN routes[b]
      <4>1. d = e /\ e # None
        BY <2>3, <2>4, <3>2, ConnAssumption
      <4>2. QED
        BY <1>3, <2>2, <3>2, <4>1
    <3>3. QED
      BY <3>1, <3>2
  <2>5. \A b \in Conns : routes'[b] # <<>> => WasRegistered(b)'
    BY <1>1, <2>2, <2>3 DEF RoutingInv
  <2>6. \A b \in Conns : \A n \in DOMAIN routes'[b] :
            routes'[b][n] \in {None} \union Conns
    <3>1. \A b \in Conns : routes'[b] \in Seq({None} \union Conns)
      <4>1. Append(routes[c], e) \in Seq({None} \union Conns)
        BY <2>3
      <4>2. \A b \in Conns : routes[b] \in Seq({None} \union Conns)
        BY DEF IInv, TypeOK
      <4>3. QED
        BY <2>3, <4>1, <4>2
    <3>2. QED
      BY <3>1
  <2>7. QED
    BY <1>5, <2>4, <2>5, <2>6
<1>8. QED
  BY <1>6, <1>7, RoutesChange

-----------------------------------------------------------------------------
(* Messages arrive in order. What is routed (R, the routes), what is in hand  *)
(* (t, the tasks) and a stream s of d: each message of s was routed to d and  *)
(* is behind those its sender sent before, which are in s too, and a message  *)
(* in hand is not; Complete says that everything else is.                     *)
Behind(s, d, R) ==
    \A i \in 1 .. Len(s) :
        /\ s[i][1] = None => s[i] = Close
        /\ s[i][1] # None =>
              /\ s[i][2] \in DOMAIN R[s[i][1]] /\ R[s[i][1]][s[i][2]] = d
              /\ \A j \in 1 .. i - 1 : s[j][1] = s[i][1] => s[j][2] < s[i][2]
Has(s, c, n) == \E j \in 1 .. Len(s) : s[j][1] = c /\ s[j][2] = n
Held(t, R, c, n, d) == t[c].pc = "sending" /\ t[c].to = d /\ n = Len(R[c])
Gapless(s, d, R) ==
    \A c \in Conns : \A n \in DOMAIN R[c] : \A k \in DOMAIN R[c] :
        Has(s, c, n) /\ R[c][k] = d /\ k < n => Has(s, c, k)
Flow(s, d, R, t) ==
    /\ Behind(s, d, R) /\ Gapless(s, d, R)
    /\ \A c \in Conns : \A n \in DOMAIN R[c] : Held(t, R, c, n, d) => ~Has(s, c, n)
Complete(s, d, R, t) ==
    \A c \in Conns : \A n \in DOMAIN R[c] :
        R[c][n] = d => Held(t, R, c, n, d) \/ Has(s, c, n)

Routes == [Conns -> Seq({None} \union Conns)]

LEMMA MessageFacts ==
    ASSUME NEW s \in Seq(Messages), NEW i \in 1 .. Len(s)
    PROVE  s[i][1] \in {None} \union Conns /\ s[i][2] \in Nat /\ s[i] = <<s[i][1], s[i][2]>>
  BY DEF Messages

\* A stream that loses its end flows.
LEMMA FlowCut ==
    ASSUME NEW d \in Conns, NEW R \in Routes, NEW t, NEW s \in Seq(Messages), Flow(s, d, R, t),
           NEW u \in Seq(Messages), Len(u) <= Len(s), \A i \in 1 .. Len(u) : u[i] = s[i]
    PROVE  Flow(u, d, R, t)
<1>1. Len(u) \in Nat /\ Len(s) \in Nat
  OBVIOUS
<1>2. \A i \in 1 .. Len(u) : /\ i \in 1 .. Len(s) /\ u[i] = s[i]
                            /\ \A j \in 1 .. i - 1 : j \in 1 .. Len(u)
  BY <1>1
<1>3. Behind(u, d, R)
  BY <1>1, <1>2 DEF Flow, Behind
<1>4. \A c \in Conns : \A n : Has(u, c, n) => Has(s, c, n)
  BY <1>2 DEF Has
<1>5. Gapless(u, d, R)
  <2> SUFFICES ASSUME NEW c \in Conns, NEW n \in DOMAIN R[c], NEW k \in DOMAIN R[c],
                      Has(u, c, n), R[c][k] = d, k < n
               PROVE  Has(u, c, k)
    BY DEF Gapless
  <2>1. PICK i \in 1 .. Len(u) : u[i][1] = c /\ u[i][2] = n
    BY DEF Has
  <2>2. Has(s, c, k)
    BY <1>4 DEF Flow, Gapless
  <2>3. PICK j \in 1 .. Len(s) : s[j][1] = c /\ s[j][2] = k
    BY <2>2 DEF Has
  <2>4. s[i][1] = c /\ s[i][2] = n /\ i \in 1 .. Len(s) /\ n \in Nat /\ k \in Nat /\ c # None
    BY <1>2, <2>1, ConnAssumption DEF Routes
  <2>5. j <= i
    <3> SUFFICES ASSUME i < j PROVE FALSE
      BY <1>1
    <3>1. i \in 1 .. j - 1
      BY <1>1
    <3>2. s[i][2] < s[j][2]
      BY <2>3, <2>4, <3>1 DEF Flow, Behind
    <3>3. QED
      BY <2>3, <2>4, <3>2
  <2>6. j \in 1 .. Len(u)
    BY <1>1, <2>5
  <2>7. QED
    BY <2>3, <2>6 DEF Has
<1>6. QED
  BY <1>3, <1>4, <1>5 DEF Flow

\* A close at the end changes nothing.
LEMMA FlowClose ==
    ASSUME NEW d \in Conns, NEW R \in Routes, NEW t, NEW s \in Seq(Messages), Flow(s, d, R, t)
    PROVE  LET u == Append(s, Close) IN
           Flow(u, d, R, t) /\ (Complete(s, d, R, t) => Complete(u, d, R, t))
<1> DEFINE u == Append(s, Close)
<1>1. /\ Len(s) \in Nat /\ Len(u) = Len(s) + 1
      /\ \A i \in 1 .. Len(s) : u[i] = s[i]
      /\ u[Len(s) + 1] = Close /\ Close[1] = None
  BY DEF Close
<1> HIDE DEF u
<1>2. \A i \in 1 .. Len(u) : u[i][1] # None =>
          i \in 1 .. Len(s) /\ u[i] = s[i] /\ \A j \in 1 .. i - 1 : u[j] = s[j]
  BY <1>1
<1>3. \A c \in Conns : \A n : Has(u, c, n) <=> Has(s, c, n)
  <2>1. \A i \in 1 .. Len(s) : i \in 1 .. Len(u) /\ u[i] = s[i]
    BY <1>1
  <2>2. QED
    BY <1>2, <2>1, ConnAssumption DEF Has
<1>4. Behind(u, d, R)
  <2>1. \A i \in 1 .. Len(u) : i \in 1 .. Len(s) \/ i = Len(s) + 1
    BY <1>1
  <2>2. QED
    BY <1>1, <1>2, <2>1 DEF Flow, Behind
<1>5. QED
  BY <1>3, <1>4 DEF Flow, Gapless, Complete, u

\* A stream does not change when tasks do that have nothing in hand.
LEMMA FlowIdle ==
    ASSUME NEW d \in Conns, NEW R \in Routes, NEW t, NEW v, NEW s \in Seq(Messages),
           Flow(s, d, R, t),
           \A c \in Conns : v[c].pc = "sending" => t[c].pc = "sending" /\ v[c].to = t[c].to,
           \A c \in Conns : t[c].pc = "sending" /\ t[c].to = d => v[c].pc = "sending"
    PROVE  Flow(s, d, R, v) /\ (Complete(s, d, R, t) => Complete(s, d, R, v))
<1>1. \A c \in Conns : \A n : Held(t, R, c, n, d) <=> Held(v, R, c, n, d)
  BY DEF Held
<1>2. QED
  BY <1>1 DEF Flow, Complete

\* A receiver is looked up: the newest message is in hand, and nothing is sent.
LEMMA FlowReceived ==
    ASSUME NEW d \in Conns, NEW R \in Routes, NEW t, NEW s \in Seq(Messages), Flow(s, d, R, t),
           NEW c \in Conns, NEW e \in {None} \union Conns, NEW v, t[c].pc # "sending",
           \A b \in Conns : b # c => v[b] = t[b],
           IF e = None THEN v[c].pc # "sending" ELSE v[c].pc = "sending" /\ v[c].to = e
    PROVE  LET Q == [R EXCEPT ![c] = Append(R[c], e)] IN
           Flow(s, d, Q, v) /\ (Complete(s, d, R, t) => Complete(s, d, Q, v))
<1> DEFINE Q == [R EXCEPT ![c] = Append(R[c], e)]
           n == Len(R[c]) + 1
<1>1. /\ \A b \in Conns : b # c => Q[b] = R[b]
      /\ R[c] \in Seq({None} \union Conns) /\ Q[c] = Append(R[c], e)
  BY DEF Routes
<1>2. /\ Len(R[c]) \in Nat /\ DOMAIN R[c] = 1 .. Len(R[c]) /\ DOMAIN Q[c] = 1 .. n /\ Len(Q[c]) = n
      /\ \A k \in 1 .. Len(R[c]) : Q[c][k] = R[c][k]
      /\ Q[c][n] = e
  BY <1>1
<1> HIDE DEF Q
<1>3. \A b \in Conns : \A k \in DOMAIN R[b] : k \in DOMAIN Q[b] /\ Q[b][k] = R[b][k]
  <2>1. \A k \in DOMAIN R[c] : k \in DOMAIN Q[c] /\ Q[c][k] = R[c][k]
    BY <1>2
  <2>2. QED
    BY <1>1, <2>1
<1>4. \A b \in Conns : \A k \in DOMAIN Q[b] : k \notin DOMAIN R[b] => b = c /\ k = n
  <2> SUFFICES ASSUME NEW b \in Conns, NEW k \in DOMAIN Q[b], k \notin DOMAIN R[b]
               PROVE  b = c /\ k = n
    OBVIOUS
  <2>1. b = c
    BY <1>1
  <2>2. k \in 1 .. n /\ k \notin 1 .. Len(R[c])
    BY <1>2, <2>1
  <2>3. QED
    BY <1>2, <2>1, <2>2
<1>5. n \notin DOMAIN R[c]
  BY <1>2
<1>6. \A b \in Conns : \A k : Has(s, b, k) => k \in DOMAIN R[b]
  BY ConnAssumption DEF Has, Flow, Behind
<1>7. Behind(s, d, Q)
  BY <1>3, MessageFacts DEF Flow, Behind
<1>8. Gapless(s, d, Q)
  <2> SUFFICES ASSUME NEW b \in Conns, NEW m \in DOMAIN Q[b], NEW k \in DOMAIN Q[b],
                      Has(s, b, m), Q[b][k] = d, k < m
               PROVE  Has(s, b, k)
    BY DEF Gapless
  <2>1. m \in DOMAIN R[b]
    BY <1>6
  <2>2. k \in DOMAIN R[b]
    BY <1>1, <1>2, <2>1
  <2>3. QED
    BY <1>3, <2>1, <2>2 DEF Flow, Gapless
<1>9. ASSUME NEW b \in Conns, NEW k \in DOMAIN Q[b]
      PROVE  Held(v, Q, b, k, d) <=> IF k \in DOMAIN R[b] THEN Held(t, R, b, k, d) ELSE e = d
  <2>1. CASE b # c
    BY <1>1, <1>9, <2>1 DEF Held
  <2>2. CASE b = c
    <3>1. CASE k \in DOMAIN R[b]
      BY <1>2, <2>2, <3>1 DEF Held
    <3>2. CASE k \notin DOMAIN R[b]
      BY <1>2, <1>4, <1>9, <2>2, <3>2, ConnAssumption DEF Held
    <3>3. QED
      BY <3>1, <3>2
  <2>3. QED
    BY <2>1, <2>2
<1>10. \A b \in Conns : \A k \in DOMAIN Q[b] : Held(v, Q, b, k, d) => ~Has(s, b, k)
  BY <1>6, <1>9 DEF Flow
<1>11. ASSUME Complete(s, d, R, t) PROVE Complete(s, d, Q, v)
  <2> SUFFICES ASSUME NEW b \in Conns, NEW k \in DOMAIN Q[b], Q[b][k] = d
               PROVE  Held(v, Q, b, k, d) \/ Has(s, b, k)
    BY DEF Complete
  <2>1. CASE k \in DOMAIN R[b]
    BY <1>3, <1>9, <1>11, <2>1 DEF Complete
  <2>2. CASE k \notin DOMAIN R[b]
    BY <1>2, <1>4, <1>9, <2>2
  <2>3. QED
    BY <2>1, <2>2
<1>12. QED
  BY <1>7, <1>8, <1>10, <1>11 DEF Flow, Q

\* The message in hand is sent: it follows all its sender sent before.
LEMMA FlowSent ==
    ASSUME NEW d \in Conns, NEW R \in Routes, NEW t, NEW s \in Seq(Messages), Flow(s, d, R, t),
           Complete(s, d, R, t), NEW c \in Conns, NEW n \in DOMAIN R[c], R[c][n] = d,
           Held(t, R, c, n, d), NEW v, \A b \in Conns : b # c => v[b] = t[b], v[c].pc # "sending"
    PROVE  LET u == Append(s, <<c, n>>) IN Flow(u, d, R, v) /\ Complete(u, d, R, v)
<1> DEFINE u == Append(s, <<c, n>>)
<1>1. /\ Len(s) \in Nat /\ Len(u) = Len(s) + 1
      /\ \A i \in 1 .. Len(s) : u[i] = s[i]
      /\ u[Len(s) + 1] = <<c, n>>
  OBVIOUS
<1> HIDE DEF u
<1>2. /\ n = Len(R[c]) /\ n \in Nat /\ DOMAIN R[c] = 1 .. n /\ c # None
      /\ ~Has(s, c, n)
  BY ConnAssumption DEF Held, Routes, Flow
<1>3. \A b \in Conns : \A k : Has(u, b, k) <=> Has(s, b, k) \/ (b = c /\ k = n)
  <2>1. \A i \in 1 .. Len(s) : i \in 1 .. Len(u)
    BY <1>1
  <2>2. \A i \in 1 .. Len(u) : i \in 1 .. Len(s) \/ i = Len(s) + 1
    BY <1>1
  <2>3. Len(s) + 1 \in 1 .. Len(u)
    BY <1>1
  <2>4. QED
    BY <1>1, <2>1, <2>2, <2>3 DEF Has
<1>4. Behind(u, d, R)
  <2> SUFFICES ASSUME NEW i \in 1 .. Len(u)
               PROVE  /\ u[i][1] = None => u[i] = Close
                      /\ u[i][1] # None =>
                            /\ u[i][2] \in DOMAIN R[u[i][1]] /\ R[u[i][1]][u[i][2]] = d
                            /\ \A j \in 1 .. i - 1 : u[j][1] = u[i][1] => u[j][2] < u[i][2]
    BY DEF Behind
  <2>1. \A j \in 1 .. i - 1 : j \in 1 .. Len(s) /\ u[j] = s[j]
    BY <1>1
  <2>2. CASE i \in 1 .. Len(s)
    <3>1. u[i] = s[i]
      BY <1>1, <2>2
    <3>2. QED
      BY <2>1, <2>2, <3>1 DEF Flow, Behind
  <2>3. CASE i = Len(s) + 1
    <3>1. u[i][1] = c /\ u[i][2] = n
      BY <1>1, <2>3
    <3>2. ASSUME NEW j \in 1 .. i - 1, u[j][1] = c PROVE u[j][2] < n
      <4>1. j \in 1 .. Len(s) /\ s[j][1] = c /\ u[j][2] = s[j][2]
        BY <2>1, <3>2
      <4>2. s[j][2] \in 1 .. n /\ s[j][2] # n
        BY <1>2, <4>1 DEF Flow, Behind, Has
      <4>3. QED
        BY <1>2, <4>1, <4>2
    <3>3. QED
      BY <1>2, <3>1, <3>2
  <2>4. QED
    BY <1>1, <2>2, <2>3
<1>5. \A b \in Conns : \A k \in DOMAIN R[b] :
          Held(v, R, b, k, d) <=> Held(t, R, b, k, d) /\ b # c
  BY DEF Held
<1>6. Complete(u, d, R, v)
  <2> SUFFICES ASSUME NEW b \in Conns, NEW k \in DOMAIN R[b], R[b][k] = d
               PROVE  Held(v, R, b, k, d) \/ Has(u, b, k)
    BY DEF Complete
  <2>1. Held(t, R, b, k, d) \/ Has(s, b, k)
    BY DEF Complete
  <2>2. Held(t, R, c, k, d) => k = n
    BY <1>2 DEF Held
  <2>3. QED
    BY <1>3, <1>5, <2>1, <2>2
<1>7. Gapless(u, d, R)
  <2> SUFFICES ASSUME NEW b \in Conns, NEW m \in DOMAIN R[b], NEW k \in DOMAIN R[b],
                      Has(u, b, m), R[b][k] = d, k < m
               PROVE  Has(u, b, k)
    BY DEF Gapless
  <2>1. CASE Has(s, b, m)
    BY <1>3, <2>1 DEF Flow, Gapless
  <2>2. CASE b = c /\ m = n
    BY <1>2, <1>3, <2>2 DEF Complete, Held
  <2>3. QED
    BY <1>3, <2>1, <2>2
<1>8. \A b \in Conns : \A k \in DOMAIN R[b] : Held(v, R, b, k, d) => ~Has(u, b, k)
  BY <1>3, <1>5 DEF Flow
<1>9. QED
  BY <1>4, <1>6, <1>7, <1>8 DEF Flow, u

\* The invariant: every stream flows, a running writer's is complete, and what
\* is in hand is the newest message of its sender.
InHandNewest ==
    \A c \in Conns : conn[c].pc = "sending" =>
        routes[c] # <<>> /\ routes[c][Len(routes[c])] = conn[c].to
Flows ==
    /\ \A d \in Conns : /\ Flow(got[d] \o channel[d], d, routes, conn)
                        /\ d \in writing => Complete(got[d] \o channel[d], d, routes, conn)
    /\ InHandNewest

LEMMA ConcatBegins ==
    ASSUME NEW S, NEW a \in Seq(S), NEW b \in Seq(S)
    PROVE  /\ a \o b \in Seq(S) /\ Len(a) <= Len(a \o b)
           /\ \A i \in 1 .. Len(a) : a[i] = (a \o b)[i]
<1>1. /\ Len(a) \in Nat /\ Len(b) \in Nat /\ a \o b \in Seq(S)
      /\ Len(a \o b) = Len(a) + Len(b)
      /\ \A i \in 1 .. Len(a) + Len(b) :
            (a \o b)[i] = IF i <= Len(a) THEN a[i] ELSE b[i - Len(a)]
  BY ConcatProperties, LenProperties
<1>2. ASSUME NEW i \in 1 .. Len(a) PROVE a[i] = (a \o b)[i]
  <2>1. i \in 1 .. Len(a) + Len(b) /\ i <= Len(a)
    BY <1>1
  <2>2. QED
    BY <1>1, <2>1
<1>3. QED
  BY <1>1, <1>2

LEMMA ConcatAppend ==
    ASSUME NEW S, NEW a \in Seq(S), NEW b \in Seq(S), NEW m \in S
    PROVE  a \o Append(b, m) = Append(a \o b, m)
<1>1. a \o b \in Seq(S) /\ <<m>> \in Seq(S)
  BY ConcatProperties
<1>2. Append(b, m) = b \o <<m>> /\ Append(a \o b, m) = (a \o b) \o <<m>>
  BY <1>1, AppendIsConcat
<1>3. QED
  BY <1>1, <1>2, ConcatAssociative

\* The head of what follows may be moved over.
LEMMA ConcatHead ==
    ASSUME NEW S, NEW a \in Seq(S), NEW b \in Seq(S), b # <<>>
    PROVE  /\ Append(a, Head(b)) \in Seq(S) /\ Tail(b) \in Seq(S)
           /\ Append(a, Head(b)) \o Tail(b) = a \o b
<1> DEFINE h == Head(b)
           t == Tail(b)
           p == Append(a, h)
<1>1. h \in S /\ t \in Seq(S) /\ p \in Seq(S) /\ <<h>> \in Seq(S)
  BY HeadTailProperties
<1>2. b = <<h>> \o t
  OBVIOUS
<1>3. p = a \o <<h>>
  BY <1>1, AppendIsConcat
<1> HIDE DEF h, t, p
<1>4. p \o t = a \o b
  BY <1>1, <1>2, <1>3, ConcatAssociative
<1> USE DEF h, t, p
<1>5. QED
  BY <1>1, <1>4

LEMMA StreamFacts ==
    ASSUME TypeOK, NEW d \in Conns
    PROVE  /\ got[d] \in Seq(Messages) /\ channel[d] \in Seq(Messages)
           /\ got[d] \o channel[d] \in Seq(Messages) /\ routes \in Routes
           /\ got[d] \o <<>> = got[d]
           /\ Flow(got[d] \o channel[d], d, routes, conn) => Flow(got[d], d, routes, conn)
<1>1. /\ got[d] \in Seq(Messages) /\ channel[d] \in Seq(Messages)
      /\ got[d] \o channel[d] \in Seq(Messages) /\ routes \in Routes
      /\ got[d] \o <<>> = got[d]
  BY DEF TypeOK, Routes
<1>2. /\ Len(got[d]) <= Len(got[d] \o channel[d])
      /\ \A i \in 1 .. Len(got[d]) : got[d][i] = (got[d] \o channel[d])[i]
  BY <1>1, ConcatBegins
<1>3. QED
  BY <1>1, <1>2, FlowCut

\* A channel that is dropped leaves what was written.
LEMMA FlowsDropped ==
    ASSUME TypeOK, Flows, NEW c \in Conns, NEW v, channel' = [channel EXCEPT ![c] = <<>>],
           writing' = writing \ {c}, UNCHANGED <<got, routes>>, conn' = v,
           \A b \in Conns : (v[b].pc = "sending" <=> conn[b].pc = "sending") /\ v[b].to = conn[b].to
    PROVE  Flows'
<1>1. \A d \in Conns : channel'[d] = IF d = c THEN <<>> ELSE channel[d]
  BY DEF TypeOK
<1>2. ASSUME NEW d \in Conns
      PROVE  /\ Flow(got[d] \o channel'[d], d, routes, conn)
             /\ d \in writing' => Complete(got[d] \o channel'[d], d, routes, conn)
             /\ got[d] \o channel'[d] \in Seq(Messages) /\ routes \in Routes
  BY <1>1, StreamFacts DEF Flows
<1>3. ASSUME NEW d \in Conns
      PROVE  /\ Flow(got[d] \o channel'[d], d, routes, v)
             /\ d \in writing' => Complete(got[d] \o channel'[d], d, routes, v)
  <2> DEFINE s == got[d] \o channel'[d]
  <2>1. /\ s \in Seq(Messages) /\ routes \in Routes /\ Flow(s, d, routes, conn)
        /\ d \in writing' => Complete(s, d, routes, conn)
    BY <1>2
  <2> HIDE DEF s
  <2>2. Flow(s, d, routes, v) /\ (Complete(s, d, routes, conn) => Complete(s, d, routes, v))
    BY <2>1, FlowIdle
  <2>3. QED
    BY <2>1, <2>2 DEF s
<1>4. QED
  BY <1>3 DEF Flows, InHandNewest

\* Nothing that a stream depends on changes.
LEMMA FlowsIdle ==
    ASSUME TypeOK, Flows, NEW v, conn' = v, UNCHANGED <<channel, got, routes>>, writing' = writing,
           \A b \in Conns : /\ v[b].pc = "sending" <=> conn[b].pc = "sending"
                            /\ v[b].pc = "sending" => v[b].to = conn[b].to
    PROVE  Flows'
<1>1. ASSUME NEW d \in Conns
      PROVE  /\ Flow(got[d] \o channel[d], d, routes, v)
             /\ d \in writing => Complete(got[d] \o channel[d], d, routes, v)
  <2> DEFINE s == got[d] \o channel[d]
  <2>1. /\ s \in Seq(Messages) /\ routes \in Routes /\ Flow(s, d, routes, conn)
        /\ d \in writing => Complete(s, d, routes, conn)
    BY StreamFacts DEF Flows
  <2> HIDE DEF s
  <2>2. Flow(s, d, routes, v) /\ (Complete(s, d, routes, conn) => Complete(s, d, routes, v))
    BY <2>1, FlowIdle
  <2>3. QED
    BY <2>1, <2>2 DEF s
<1>2. QED
  BY <1>1 DEF Flows, InHandNewest

\* A message put into a channel follows what its stream held.
LEMMA PutAppends ==
    ASSUME TypeOK, NEW c \in Conns, NEW m \in Messages, NEW d \in Conns
    PROVE  got[d] \o Put(c, m)[d] =
              IF d = c /\ c \in writing THEN Append(got[d] \o channel[d], m)
              ELSE got[d] \o channel[d]
<1>1. Put(c, m)[d] = IF d = c /\ c \in writing THEN Append(channel[d], m) ELSE channel[d]
  BY DEF Put, TypeOK
<1>2. got[d] \in Seq(Messages) /\ channel[d] \in Seq(Messages)
  BY StreamFacts
<1>3. got[d] \o Append(channel[d], m) = Append(got[d] \o channel[d], m)
  <2>1. \A a, b \in Seq(Messages) : a \o Append(b, m) = Append(a \o b, m)
    BY ConcatAppend
  <2>2. QED
    BY <1>2, <2>1
<1>4. QED
  BY <1>1, <1>3

LEMMA RegisterFlows ==
    ASSUME IInv, RoutingInv, Flows, NEW c \in Conns, NEW role \in Roles, NEW room \in Rooms,
           NEW token \in Tokens, Register(c, role, room, token)
    PROVE  Flows'
<1> DEFINE r == IF rooms[room] = None THEN NewRoom(token) ELSE rooms[room]
           held == r[role]
<1>1. TypeOK /\ conn[c].pc = "new" /\ UNCHANGED <<got, routes>> /\ writing' = writing \union {c}
  BY DEF Register, IInv
<1>2. held \in {None} \union Conns
  <2>1. r \in RoomStates
    BY NewRoomType DEF IInv, TypeOK
  <2>2. QED
    BY <2>1, SlotType
<1>3. channel' = IF held = None THEN channel ELSE Put(held, Close)
  BY DEF Register
<1> HIDE DEF held
<1> DEFINE v == conn'
<1>4. v[c].pc = "open" /\ \A b \in Conns : b # c => v[b] = conn[b]
  BY DEF Register, IInv, TypeOK
<1>5. ASSUME NEW d \in Conns
      PROVE  got[d] \o channel'[d] \in {got[d] \o channel[d], Append(got[d] \o channel[d], Close)}
  <2>1. Close \in Messages
    BY DEF Close, Messages
  <2>2. CASE held = None
    BY <1>3, <2>2
  <2>3. CASE held # None
    BY <1>1, <1>2, <1>3, <2>1, <2>3, PutAppends
  <2>4. QED
    BY <2>2, <2>3
<1> DEFINE s(d) == got[d] \o channel[d]
           u(d) == got[d] \o channel'[d]
<1>6. ASSUME NEW d \in Conns
      PROVE  /\ Flow(u(d), d, routes, conn) /\ u(d) \in Seq(Messages) /\ routes \in Routes
             /\ Complete(s(d), d, routes, conn) => Complete(u(d), d, routes, conn)
  <2>1. s(d) \in Seq(Messages) /\ routes \in Routes /\ Flow(s(d), d, routes, conn)
    BY <1>1, StreamFacts DEF Flows
  <2>2. u(d) \in {s(d), Append(s(d), Close)}
    BY <1>5
  <2>3. Append(s(d), Close) \in Seq(Messages)
    BY <2>1 DEF Close, Messages
  <2> HIDE DEF s, u
  <2>4. QED
    BY <2>1, <2>2, <2>3, FlowClose
<1>7. ASSUME NEW d \in Conns
      PROVE  /\ Flow(u(d), d, routes, v)
             /\ d \in writing' => Complete(u(d), d, routes, v)
  <2>1. /\ Flow(u(d), d, routes, conn) /\ u(d) \in Seq(Messages) /\ routes \in Routes
        /\ d \in writing => Complete(u(d), d, routes, conn)
    BY <1>6 DEF Flows
  <2>2. d \in writing' /\ d \notin writing => Complete(u(d), d, routes, conn)
    <3>1. \A b \in Conns : \A n \in DOMAIN routes[b] : routes[b][n] # c
      BY <1>1, ConnAssumption DEF RoutingInv, WasRegistered, Registered
    <3>2. QED
      BY <1>1, <3>1 DEF Complete
  <2> HIDE DEF u
  <2>3. /\ Flow(u(d), d, routes, v)
        /\ Complete(u(d), d, routes, conn) => Complete(u(d), d, routes, v)
    <3>1. /\ \A b \in Conns : v[b].pc = "sending" =>
                conn[b].pc = "sending" /\ v[b].to = conn[b].to
          /\ \A b \in Conns : conn[b].pc = "sending" => v[b].pc = "sending"
      BY <1>1, <1>4
    <3> HIDE DEF v
    <3>2. QED
      BY <2>1, <3>1, FlowIdle
  <2>4. QED
    BY <2>1, <2>2, <2>3
<1>8. InHandNewest'
  BY <1>1, <1>4 DEF Flows, InHandNewest
<1>9. QED
  BY <1>1, <1>7, <1>8 DEF Flows

LEMMA ReceiveFlows ==
    ASSUME IInv, Flows, NEW c \in Conns, Receive(c)
    PROVE  Flows'
<1> DEFINE e == IF rooms[conn[c].room] = None THEN None
                ELSE Slot(conn[c].room, Opposite(conn[c].role))
           v == conn'
<1>1. /\ TypeOK /\ conn[c].pc = "open" /\ UNCHANGED <<got, channel, writing>>
      /\ routes' = [routes EXCEPT ![c] = Append(routes[c], e)]
      /\ conn' = IF e = None THEN conn ELSE [conn EXCEPT ![c].pc = "sending", ![c].to = e]
  BY DEF Receive, IInv
<1>2. e \in {None} \union Conns
  <2>1. /\ rooms[conn[c].room] = None \/ rooms[conn[c].room] \in RoomStates
        /\ Opposite(conn[c].role) \in Roles
    BY <1>1 DEF TypeOK, TaskOK, Opposite, Roles
  <2>2. QED
    BY <2>1, SlotType DEF Slot
<1> HIDE DEF e
<1>3. /\ \A b \in Conns : b # c => v[b] = conn[b]
      /\ IF e = None THEN v[c].pc # "sending" ELSE v[c].pc = "sending" /\ v[c].to = e
  <2>1. conn \in [Conns -> Tasks] /\ conn[c] \in Tasks
    BY <1>1 DEF TypeOK
  <2>2. QED
    BY <1>1, <2>1 DEF Tasks
<1> HIDE DEF v
<1>4. ASSUME NEW d \in Conns
      PROVE  /\ Flow(got[d] \o channel[d], d, routes', v)
             /\ d \in writing => Complete(got[d] \o channel[d], d, routes', v)
  <2> DEFINE s == got[d] \o channel[d]
             R == routes
  <2>1. /\ s \in Seq(Messages) /\ R \in Routes /\ Flow(s, d, R, conn)
        /\ d \in writing => Complete(s, d, R, conn)
    BY <1>1, StreamFacts DEF Flows
  <2> HIDE DEF s
  <2>2. /\ Flow(s, d, [R EXCEPT ![c] = Append(R[c], e)], v)
        /\ Complete(s, d, R, conn) => Complete(s, d, [R EXCEPT ![c] = Append(R[c], e)], v)
    BY <1>1, <1>2, <1>3, <2>1, FlowReceived
  <2>3. QED
    BY <1>1, <2>1, <2>2 DEF s
<1>5. InHandNewest'
  <2> SUFFICES ASSUME NEW b \in Conns, v[b].pc = "sending"
               PROVE  routes'[b] # <<>> /\ routes'[b][Len(routes'[b])] = v[b].to
    BY DEF InHandNewest, v
  <2>1. CASE b # c
    <3>1. v[b] = conn[b] /\ routes'[b] = routes[b]
      BY <1>1, <1>3, <2>1 DEF TypeOK
    <3>2. QED
      BY <3>1 DEF Flows, InHandNewest
  <2>2. CASE b = c
    <3>1. e # None /\ v[b].to = e
      BY <1>3, <2>2
    <3>2. routes[c] \in Seq({None} \union Conns) /\ routes'[c] = Append(routes[c], e)
      BY <1>1 DEF TypeOK
    <3>3. QED
      BY <1>2, <2>2, <3>1, <3>2
  <2>3. QED
    BY <2>1, <2>2
<1>6. QED
  BY <1>1, <1>4, <1>5 DEF Flows, v

LEMMA SendFlows ==
    ASSUME IInv, Flows, NEW c \in Conns, Send(c)
    PROVE  Flows'
<1> DEFINE n == Len(routes[c])
           e == conn[c].to
           v == conn'
<1>1. /\ TypeOK /\ conn[c].pc = "sending" /\ UNCHANGED <<got, routes, writing>>
      /\ conn' = [conn EXCEPT ![c].pc = "open", ![c].to = None]
      /\ channel' = Put(e, <<c, n>>)
  BY DEF Send, IInv
<1>2. /\ e \in Conns /\ routes[c] \in Seq({None} \union Conns)
      /\ routes[c] # <<>> /\ routes[c][n] = e
  BY <1>1 DEF TypeOK, TaskOK, Flows, InHandNewest
<1>3. n \in DOMAIN routes[c] /\ n \in Nat /\ <<c, n>> \in Messages
  BY <1>2 DEF Messages
<1>4. /\ \A b \in Conns : b # c => v[b] = conn[b]
      /\ v[c].pc = "open"
  <2>1. conn \in [Conns -> Tasks] /\ conn[c] \in Tasks
    BY <1>1 DEF TypeOK
  <2>2. QED
    BY <1>1, <2>1 DEF Tasks
<1> HIDE DEF v, n, e
<1>5. \A d \in Conns : got[d] \o channel'[d] =
          IF d = e /\ e \in writing THEN Append(got[d] \o channel[d], <<c, n>>)
          ELSE got[d] \o channel[d]
  BY <1>1, <1>2, <1>3, PutAppends
<1>6. ASSUME NEW d \in Conns
      PROVE  /\ Flow(got[d] \o channel'[d], d, routes, v)
             /\ d \in writing => Complete(got[d] \o channel'[d], d, routes, v)
  <2> DEFINE s == got[d] \o channel[d]
             u == got[d] \o channel'[d]
  <2>1. /\ s \in Seq(Messages) /\ routes \in Routes /\ Flow(s, d, routes, conn)
        /\ d \in writing => Complete(s, d, routes, conn)
    BY <1>1, StreamFacts DEF Flows
  <2>2. u = IF d = e /\ e \in writing THEN Append(s, <<c, n>>) ELSE s
    BY <1>5
  <2> HIDE DEF s, u
  <2>3. CASE d = e /\ e \in writing
    <3>1. Held(conn, routes, c, n, d) /\ routes[c][n] = d
      BY <1>1, <1>2, <2>3 DEF Held, n, e
    <3>2. Flow(Append(s, <<c, n>>), d, routes, v) /\ Complete(Append(s, <<c, n>>), d, routes, v)
      BY <1>3, <1>4, <2>1, <2>3, <3>1, FlowSent
    <3>3. QED
      BY <2>2, <2>3, <3>2 DEF u
  <2>4. CASE d = e /\ e \notin writing
    <3>1. Flow(s, d, routes, v)
      BY <1>3, <1>4, <2>1 DEF Flow, Held
    <3>2. QED
      BY <2>2, <2>4, <3>1 DEF u
  <2>5. CASE d # e
    <3>1. /\ \A b \in Conns : v[b].pc = "sending" =>
                conn[b].pc = "sending" /\ v[b].to = conn[b].to
          /\ \A b \in Conns : conn[b].pc = "sending" /\ conn[b].to = d => v[b].pc = "sending"
      BY <1>4, <2>5 DEF e
    <3>2. Flow(s, d, routes, v) /\ (Complete(s, d, routes, conn) => Complete(s, d, routes, v))
      BY <2>1, <3>1, FlowIdle
    <3>3. QED
      BY <2>1, <2>2, <2>5, <3>2 DEF u
  <2>6. QED
    BY <2>3, <2>4, <2>5
<1>7. InHandNewest'
  BY <1>1, <1>4 DEF Flows, InHandNewest, v
<1>8. QED
  BY <1>1, <1>6, <1>7 DEF Flows, v

LEMMA WriteFlows ==
    ASSUME IInv, Flows, NEW c \in Conns, WriteOut(c)
    PROVE  Flows'
<1> DEFINE h == Head(channel[c])
           s(d) == got[d] \o channel[d]
           u(d) == got'[d] \o channel'[d]
<1>1. /\ TypeOK /\ channel[c] # <<>> /\ UNCHANGED <<conn, routes>>
      /\ got' = [got EXCEPT ![c] = Append(got[c], h)]
      /\ \/ writing' = writing \ {c} /\ channel' = [channel EXCEPT ![c] = <<>>]
         \/ writing' = writing /\ channel' = [channel EXCEPT ![c] = Tail(channel[c])]
  BY DEF WriteOut, IInv
<1>2. /\ got[c] \in Seq(Messages) /\ channel[c] \in Seq(Messages)
      /\ Append(got[c], h) \in Seq(Messages) /\ Tail(channel[c]) \in Seq(Messages)
      /\ Append(got[c], h) \o Tail(channel[c]) = s(c)
  <2>1. got[c] \in Seq(Messages) /\ channel[c] \in Seq(Messages)
    BY <1>1, StreamFacts
  <2>2. QED
    BY <1>1, <2>1, ConcatHead
<1>3. \A d \in Conns : d # c => u(d) = s(d)
  BY <1>1 DEF TypeOK
<1>4. got'[c] = Append(got[c], h) /\ channel'[c] \in {<<>>, Tail(channel[c])}
  BY <1>1 DEF TypeOK
<1>5. CASE channel' = [channel EXCEPT ![c] = Tail(channel[c])] /\ writing' = writing
  <2>1. u(c) = s(c)
    BY <1>1, <1>2, <1>4, <1>5 DEF TypeOK
  <2>2. \A d \in Conns : u(d) = s(d)
    BY <1>3, <2>1
  <2> HIDE DEF s, u
  <2>3. /\ \A d \in Conns : Flow(u(d), d, routes, conn)
        /\ \A d \in Conns : d \in writing => Complete(u(d), d, routes, conn)
    BY <2>2 DEF Flows, s
  <2>4. QED
    BY <1>1, <1>5, <2>3 DEF Flows, InHandNewest, u
<1>6. CASE channel' = [channel EXCEPT ![c] = <<>>] /\ writing' = writing \ {c}
  <2> DEFINE p == Append(got[c], h)
             t == Tail(channel[c])
  <2>1. u(c) = p /\ p \in Seq(Messages) /\ t \in Seq(Messages) /\ p \o t = s(c)
    <3>1. channel'[c] = <<>>
      BY <1>1, <1>6 DEF TypeOK
    <3>2. Append(got[c], h) \o <<>> = Append(got[c], h)
      BY <1>2, ConcatEmptySeq
    <3>3. QED
      BY <1>2, <1>4, <3>1, <3>2
  <2>2. Flow(s(c), c, routes, conn) /\ s(c) \in Seq(Messages) /\ routes \in Routes
    BY <1>1, StreamFacts DEF Flows
  <2> HIDE DEF p, t, s, u
  <2>3. /\ Len(p) <= Len(s(c))
        /\ \A i \in 1 .. Len(p) : p[i] = s(c)[i]
    BY <2>1, ConcatBegins
  <2>4. Flow(u(c), c, routes, conn)
    BY <2>1, <2>2, <2>3, FlowCut
  <2>5. /\ \A d \in Conns : Flow(u(d), d, routes, conn)
        /\ \A d \in Conns : d \in writing' => Complete(u(d), d, routes, conn)
    BY <1>3, <1>6, <2>4 DEF Flows, s
  <2>6. QED
    BY <1>1, <2>5 DEF Flows, InHandNewest, u
<1>7. QED
  BY <1>1, <1>5, <1>6

LEMMA FlowsStep == IInv /\ RoutingInv /\ Flows /\ [Next]_vars => Flows'
<1> SUFFICES ASSUME IInv, RoutingInv, Flows, [Next]_vars PROVE Flows'
  OBVIOUS
<1>1. TypeOK
  BY DEF IInv
<1>2. ASSUME NEW c \in Conns, NEW room \in Rooms, NEW token \in Tokens, Reject(c, room, token)
      PROVE  Flows'
  <2>1. /\ UNCHANGED <<channel, got, routes, writing>> /\ conn[c].pc = "new"
        /\ conn'[c].pc = "rejected" /\ \A b \in Conns : b # c => conn'[b] = conn[b]
    BY <1>1, <1>2 DEF Reject, TypeOK, Tasks
  <2>2. QED
    BY <1>1, <2>1, FlowsIdle
<1>3. ASSUME NEW c \in Conns, Unregister(c) PROVE Flows'
  <2>1. /\ UNCHANGED <<got, routes>> /\ conn[c].pc = "open" /\ writing' = writing \ {c}
        /\ channel' = [channel EXCEPT ![c] = <<>>]
        /\ conn'[c].pc = "gone" /\ conn'[c].to = conn[c].to
        /\ \A b \in Conns : b # c => conn'[b] = conn[b]
    BY <1>1, <1>3 DEF Unregister, TypeOK, Tasks
  <2>2. QED
    BY <1>1, <2>1, FlowsDropped
<1>4. ASSUME NEW c \in Conns, ReadError(c) PROVE Flows'
  <2>1. /\ UNCHANGED <<channel, got, routes, writing>> /\ conn[c].pc = "open"
        /\ conn'[c].pc = "lost" /\ \A b \in Conns : b # c => conn'[b] = conn[b]
    BY <1>1, <1>4 DEF ReadError, TypeOK, Tasks
  <2>2. QED
    BY <1>1, <2>1, FlowsIdle
<1>5. ASSUME NEW c \in Conns, WriteError(c) PROVE Flows'
  BY <1>1, <1>5, FlowsDropped DEF WriteError
<1>6. CASE UNCHANGED vars
  BY <1>1, <1>6, FlowsIdle DEF vars
<1>7. QED
  BY <1>2, <1>3, <1>4, <1>5, <1>6, RegisterFlows, ReceiveFlows, SendFlows, WriteFlows
     DEF Next, Step

LEMMA FlowsInitially == Init => Flows
<1> SUFFICES ASSUME Init PROVE Flows
  OBVIOUS
<1>1. ASSUME NEW d \in Conns
      PROVE  Flow(<<>>, d, routes, conn) /\ Complete(<<>>, d, routes, conn)
  BY DEF Init, Flow, Behind, Gapless, Complete, Has, Held
<1>2. \A d \in Conns : got[d] \o channel[d] = <<>>
  BY DEF Init
<1>3. QED
  BY <1>1, <1>2 DEF Init, Flows, InHandNewest

\* What an invariant stream says of the messages in it.
LEMMA FlowsInOrder == TypeOK /\ Flows => InOrder
<1> SUFFICES ASSUME TypeOK, Flows, NEW d \in Conns
             PROVE  /\ Sorted(d)
                    /\ \A c \in Conns :
                          /\ \A n \in Passed(c, d) : \A k \in Routed(c, d) :
                                k < n => k \in Passed(c, d)
                          /\ d \in writing => Passed(c, d) = Routed(c, d) \ InHand(c, d)
  BY DEF InOrder
<1> DEFINE s == got[d] \o channel[d]
<1>1. /\ s \in Seq(Messages) /\ routes \in Routes /\ Flow(s, d, routes, conn)
      /\ d \in writing => Complete(s, d, routes, conn)
      /\ s = Stream(d)
  BY StreamFacts DEF Flows, Stream
<1> HIDE DEF s
<1>2. DOMAIN s = 1 .. Len(s) /\ \A i \in 1 .. Len(s) : s[i] = <<s[i][1], s[i][2]>>
  BY <1>1, MessageFacts
<1>3. Sorted(d)
  <2> SUFFICES ASSUME NEW i \in 1 .. Len(s), s[i] # Close
               PROVE  /\ s[i][1] \in Conns /\ s[i][2] \in Routed(s[i][1], d)
                      /\ \A j \in 1 .. i - 1 : s[j][1] = s[i][1] => s[j][2] < s[i][2]
    BY <1>1, <1>2 DEF Sorted
  <2>1. s[i][1] # None
    BY <1>1 DEF Flow, Behind
  <2>2. QED
    BY <1>1, <2>1, MessageFacts DEF Flow, Behind, Routed
<1>4. ASSUME NEW c \in Conns, NEW n \in DOMAIN routes[c]
      PROVE  n \in Passed(c, d) <=> Has(s, c, n)
  <2>1. Has(s, c, n) <=> \E j \in 1 .. Len(s) : s[j] = <<c, n>>
    BY <1>2 DEF Has
  <2>2. Range(s) = {s[j] : j \in 1 .. Len(s)}
    BY <1>2 DEF Range
  <2>3. QED
    BY <1>1, <1>4, <2>1, <2>2 DEF Passed
<1>5. ASSUME NEW c \in Conns, NEW n, Has(s, c, n)
      PROVE  n \in DOMAIN routes[c] /\ routes[c][n] = d
  BY <1>1, <1>5, ConnAssumption DEF Has, Flow, Behind
<1>6. ASSUME NEW c \in Conns, NEW n \in DOMAIN routes[c]
      PROVE  Held(conn, routes, c, n, d) <=> n \in InHand(c, d)
  BY DEF Held, InHand
<1>7. QED
  BY <1>1, <1>3, <1>4, <1>5, <1>6 DEF Flow, Gapless, Complete, Routed, Passed

\* What is sent reaches the partner and nobody else, in the order it was sent,
\* once and without a gap (forward_message, the channels and their writers),
\* however many connections there are, replace each other, fail and leave.
THEOREM MessagesAreDelivered == Spec => []DeliveredToPartner
<1>1. Init => RoutingInv /\ Flows
  BY RoutingInitially, FlowsInitially
<1>2. IInv /\ RoutingInv /\ Flows /\ [Next]_vars => RoutingInv' /\ Flows'
  BY RoutingStep, FlowsStep
<1>3. IInv /\ RoutingInv /\ Flows => DeliveredToPartner
  BY FlowsInOrder DEF IInv, RoutingInv, DeliveredToPartner
<1>4. QED
  BY <1>1, <1>2, <1>3, RegistryInitially, StepKeeps, PTL DEF Spec
=============================================================================
