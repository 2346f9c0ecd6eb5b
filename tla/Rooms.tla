------------------------------- MODULE Rooms -------------------------------
(***************************************************************************)
(* Collaboration rooms: the WebSocket connections of                       *)
(* tiletopia-server/src/realtime.rs, the rooms they hold open, the counts  *)
(* the limits are checked against, and the presence roster each room       *)
(* broadcasts.                                                             *)
(*                                                                         *)
(* Rooms and counts change under one lock, presence under another, and a   *)
(* connection touches them in separate steps: it takes its hold before the *)
(* upgrade, changes presence, lists the roster, sends what it listed, and  *)
(* lets go last.  A connection is used once, as next_conn_id never repeats.*)
(* A room's broadcast channel is named after the connection that made it.  *)
(***************************************************************************)
EXTENDS Naturals, FiniteSets

CONSTANTS
    Conns,                  \* WebSocket connections, one attempt each
    Users,                  \* JWT subjects
    RoomIds,                \* what viewers join on
    None,                   \* no user, room or channel yet
    MaxConnectionsPerUser,
    MaxConnectionsPerRoom,
    MaxRoomsPerUser,
    MaxRooms

\* A server has finitely many sockets, and rooms are told from None.
ASSUME FiniteConns == IsFiniteSet(Conns)

\* The caps are usize constants.
ASSUME CapsAreNats ==
    /\ MaxConnectionsPerUser \in Nat
    /\ MaxConnectionsPerRoom \in Nat \ {0}
    /\ MaxRoomsPerUser \in Nat
    /\ MaxRooms \in Nat

VARIABLES
    live,               \* keys of Rooms.by_id
    owner,              \* Room.owner, by room
    connections,        \* Room.connections, by room
    channel,            \* Room.tx, by room
    owned,              \* Rooms.owned; a missing key counts 0
    connectionsByUser,  \* Rooms.connections_by_user, likewise
    presence,           \* PresenceTracker.sessions: connections by room and user
    pc,                 \* where a connection's task is
    user, room, tx,     \* handle_socket's sub, room and tx
    joined,             \* handle_socket's joined
    ended,              \* its loop is over
    listed,             \* the roster broadcast_presence has read and not sent
    shown               \* the last roster sent on a channel

counts == <<owner, connections, channel, owned, connectionsByUser, live>>
who == <<user, room, tx>>
vars == <<counts, presence, pc, who, joined, ended, listed, shown>>

\* What a connection at each of these does next still leads to release_room.
Holding == {"upgrading", "open", "listing", "sending", "leaving", "releasing"}

Holders(r) == {c \in Conns : pc[c] \in Holding /\ room[c] = r}

Held(u) == {c \in Conns : pc[c] \in Holding /\ user[c] = u}

OwnedRooms(u) == {r \in live : owner[r] = u}

\* get_presence: the users with a connection in the room's session.
Roster(r) == {u \in Users : presence[r][u] # {}}

\* decrement_count: a count that reaches 0 loses its key.
Decrement(f, k) == [f EXCEPT ![k] = IF @ = 0 THEN 0 ELSE @ - 1]

Init ==
    /\ live = {}
    /\ owner = [r \in RoomIds |-> None]
    /\ connections = [r \in RoomIds |-> 0]
    /\ channel = [r \in RoomIds |-> None]
    /\ owned = [u \in Users |-> 0]
    /\ connectionsByUser = [u \in Users |-> 0]
    /\ presence = [r \in RoomIds |-> [u \in Users |-> {}]]
    /\ pc = [c \in Conns |-> "idle"]
    /\ user = [c \in Conns |-> None]
    /\ room = [c \in Conns |-> None]
    /\ tx = [c \in Conns |-> None]
    /\ joined = [c \in Conns |-> FALSE]
    /\ ended = [c \in Conns |-> FALSE]
    /\ listed = [c \in Conns |-> {}]
    /\ shown = [c \in Conns |-> {}]

-----------------------------------------------------------------------------
\* acquire_room's refusals, in its order.
MayEnterUncharged(r, u) ==
    /\ connectionsByUser[u] < MaxConnectionsPerUser
    /\ IF r \in live
       THEN connections[r] < MaxConnectionsPerRoom
       ELSE Cardinality(live) < MaxRooms

MayEnter(r, u) ==
    /\ connectionsByUser[u] < MaxConnectionsPerUser
    /\ IF r \in live
       THEN connections[r] < MaxConnectionsPerRoom
       ELSE owned[u] < MaxRoomsPerUser /\ Cardinality(live) < MaxRooms

\* acquire_room finds the room and takes one more hold on it.
EnterUnheard(c, r) ==
    /\ r \in live
    /\ connections' = [connections EXCEPT ![r] = @ + 1]
    /\ UNCHANGED <<live, owner, channel, owned, tx>>

EnterRoom(c, r) ==
    /\ r \in live
    /\ connections' = [connections EXCEPT ![r] = @ + 1]
    /\ tx' = [tx EXCEPT ![c] = channel[r]]
    /\ UNCHANGED <<live, owner, channel, owned>>

\* acquire_room makes the room, its channel, and charges the creator.
MakeRoom(c, r, u) ==
    /\ r \notin live
    /\ live' = live \cup {r}
    /\ owner' = [owner EXCEPT ![r] = u]
    /\ connections' = [connections EXCEPT ![r] = 1]
    /\ channel' = [channel EXCEPT ![r] = c]
    /\ owned' = [owned EXCEPT ![u] = @ + 1]
    /\ tx' = [tx EXCEPT ![c] = c]

\* ws_handler: the hold is taken before the socket is upgraded.
Acquire(c, r, u) ==
    /\ pc[c] = "idle"
    /\ MayEnter(r, u)
    /\ EnterRoom(c, r) \/ MakeRoom(c, r, u)
    /\ connectionsByUser' = [connectionsByUser EXCEPT ![u] = @ + 1]
    /\ pc' = [pc EXCEPT ![c] = "upgrading"]
    /\ user' = [user EXCEPT ![c] = u]
    /\ room' = [room EXCEPT ![c] = r]
    /\ UNCHANGED <<presence, joined, ended, listed, shown>>

\* close_over_room_limit: nothing was taken and nothing is released.
Refuse(c, r, u) ==
    /\ pc[c] = "idle"
    /\ ~MayEnter(r, u)
    /\ pc' = [pc EXCEPT ![c] = "closed"]
    /\ UNCHANGED <<counts, presence, who, joined, ended, listed, shown>>

\* on_upgrade: handle_socket starts.
Upgrade(c) ==
    /\ pc[c] = "upgrading"
    /\ pc' = [pc EXCEPT ![c] = "open"]
    /\ UNCHANGED <<counts, presence, who, joined, ended, listed, shown>>

FailUpgradeSilently(c) ==
    /\ pc[c] = "upgrading"
    /\ pc' = [pc EXCEPT ![c] = "closed"]
    /\ UNCHANGED <<counts, presence, who, joined, ended, listed, shown>>

\* on_failed_upgrade: handle_socket never runs, a task of its own releases.
FailUpgrade(c) ==
    /\ pc[c] = "upgrading"
    /\ pc' = [pc EXCEPT ![c] = "releasing"]
    /\ UNCHANGED <<counts, presence, who, joined, ended, listed, shown>>

\* A Join message with a name that is short enough: PresenceTracker::join.
Join(c) ==
    /\ pc[c] = "open"
    /\ presence' = [presence EXCEPT ![room[c]][user[c]] = @ \cup {c}]
    /\ joined' = [joined EXCEPT ![c] = TRUE]
    /\ pc' = [pc EXCEPT ![c] = "listing"]
    /\ UNCHANGED <<counts, who, ended, listed, shown>>

\* A Leave message: PresenceTracker::leave, joined or not.
Leave(c) ==
    /\ pc[c] = "open"
    /\ presence' = [presence EXCEPT ![room[c]][user[c]] = @ \ {c}]
    /\ joined' = [joined EXCEPT ![c] = FALSE]
    /\ pc' = [pc EXCEPT ![c] = "listing"]
    /\ UNCHANGED <<counts, who, ended, listed, shown>>

EndUnannounced(c) ==
    /\ pc[c] = "open"
    /\ ended' = [ended EXCEPT ![c] = TRUE]
    /\ pc' = [pc EXCEPT ![c] = "releasing"]
    /\ UNCHANGED <<counts, presence, who, joined, listed, shown>>

\* The loop breaks: a close, a failed send, or a name that is too long.
EndLoop(c) ==
    /\ pc[c] = "open"
    /\ ended' = [ended EXCEPT ![c] = TRUE]
    /\ pc' = [pc EXCEPT ![c] = IF joined[c] THEN "leaving" ELSE "releasing"]
    /\ UNCHANGED <<counts, presence, who, joined, listed, shown>>

\* The cleanup of a connection that had joined.
LeaveAtEnd(c) ==
    /\ pc[c] = "leaving"
    /\ presence' = [presence EXCEPT ![room[c]][user[c]] = @ \ {c}]
    /\ pc' = [pc EXCEPT ![c] = "listing"]
    /\ UNCHANGED <<counts, who, joined, ended, listed, shown>>

\* broadcast_presence reads the roster.
ListRoster(c) ==
    /\ pc[c] = "listing"
    /\ listed' = [listed EXCEPT ![c] = Roster(room[c])]
    /\ pc' = [pc EXCEPT ![c] = "sending"]
    /\ UNCHANGED <<counts, presence, who, joined, ended, shown>>

\* broadcast_presence sends what it read, on the channel it was given.
SendRoster(c) ==
    /\ pc[c] = "sending"
    /\ shown' = [shown EXCEPT ![tx[c]] = listed[c]]
    /\ listed' = [listed EXCEPT ![c] = {}]
    /\ pc' = [pc EXCEPT ![c] = IF ended[c] THEN "releasing" ELSE "open"]
    /\ UNCHANGED <<counts, presence, who, joined, ended>>

\* The hold release_room gives back is the room's last.
LastHoldButOne(r) == connections[r] <= 2
LastHold(r) == connections[r] <= 1

\* release_room with one of several holds.
ReleaseHold(r) ==
    /\ ~LastHold(r)
    /\ connections' = [connections EXCEPT ![r] = @ - 1]
    /\ UNCHANGED <<live, owner, channel, owned, shown>>

\* release_room with the last one: the room goes with its channel, and its
\* owner's slot is free.
DropRoom(r) ==
    /\ LastHold(r)
    /\ live' = live \ {r}
    /\ owner' = [owner EXCEPT ![r] = None]
    /\ connections' = [connections EXCEPT ![r] = 0]
    /\ channel' = [channel EXCEPT ![r] = None]
    /\ owned' = Decrement(owned, owner[r])
    /\ shown' = [shown EXCEPT ![channel[r]] = {}]

\* release_room, and the end of the task with its locals.
Release(c) ==
    /\ pc[c] = "releasing"
    /\ connectionsByUser' = Decrement(connectionsByUser, user[c])
    /\ IF room[c] \in live
       THEN ReleaseHold(room[c]) \/ DropRoom(room[c])
       ELSE UNCHANGED <<live, owner, connections, channel, owned, shown>>
    /\ pc' = [pc EXCEPT ![c] = "closed"]
    /\ user' = [user EXCEPT ![c] = None]
    /\ room' = [room EXCEPT ![c] = None]
    /\ tx' = [tx EXCEPT ![c] = None]
    /\ joined' = [joined EXCEPT ![c] = FALSE]
    /\ ended' = [ended EXCEPT ![c] = FALSE]
    /\ UNCHANGED <<presence, listed>>

Arrive(c) == \E r \in RoomIds, u \in Users : Acquire(c, r, u) \/ Refuse(c, r, u)

Next == \E c \in Conns :
    \/ Arrive(c)
    \/ Upgrade(c)
    \/ FailUpgrade(c)
    \/ Join(c)
    \/ Leave(c)
    \/ EndLoop(c)
    \/ LeaveAtEnd(c)
    \/ ListRoster(c)
    \/ SendRoster(c)
    \/ Release(c)

Spec == Init /\ [][Next]_vars

-----------------------------------------------------------------------------
\* Every variable has its type; a connection past "idle" knows its user, its
\* room and a channel.
TypeOK ==
    /\ live \subseteq RoomIds
    /\ owner \in [RoomIds -> Users \cup {None}]
    /\ connections \in [RoomIds -> Nat]
    /\ channel \in [RoomIds -> Conns \cup {None}]
    /\ owned \in [Users -> Nat]
    /\ connectionsByUser \in [Users -> Nat]
    /\ presence \in [RoomIds -> [Users -> SUBSET Conns]]
    /\ pc \in [Conns -> Holding \cup {"idle", "closed"}]
    /\ user \in [Conns -> Users \cup {None}]
    /\ room \in [Conns -> RoomIds \cup {None}]
    /\ tx \in [Conns -> Conns \cup {None}]
    /\ joined \in [Conns -> BOOLEAN]
    /\ ended \in [Conns -> BOOLEAN]
    /\ listed \in [Conns -> SUBSET Users]
    /\ shown \in [Conns -> SUBSET Users]
    /\ \A c \in Conns : pc[c] \in Holding =>
           user[c] \in Users /\ room[c] \in RoomIds /\ tx[c] \in Conns

\* "the counts cannot drift": through failed upgrades, refusals and cleanups in
\* any order, each count is what a recount of the connections would give, and a
\* room exists exactly while a connection holds it.
CountsExact ==
    /\ \A r \in RoomIds :
          /\ r \in live <=> Holders(r) # {}
          /\ r \in live => connections[r] = Cardinality(Holders(r))
    /\ \A u \in Users :
          /\ connectionsByUser[u] = Cardinality(Held(u))
          /\ owned[u] = Cardinality(OwnedRooms(u))

\* Counting connections, not counters: the four limits hold of what is open.
CapsHold ==
    /\ Cardinality(live) <= MaxRooms
    /\ \A r \in RoomIds : Cardinality(Holders(r)) <= MaxConnectionsPerRoom
    /\ \A u \in Users :
          /\ Cardinality(Held(u)) <= MaxConnectionsPerUser
          /\ Cardinality(OwnedRooms(u)) <= MaxRoomsPerUser

\* A room dropped and made again has a new channel; nobody who holds the room
\* is left talking on the old one.
OneChannel ==
    \A c \in Conns : pc[c] \in Holding => tx[c] = channel[room[c]]

\* A session names only connections that still hold the room, under their own
\* account, and that have not left: a dead tab never stays in the roster.
PresenceIsHeld ==
    \A r \in RoomIds, u \in Users : \A c \in presence[r][u] :
        /\ c \in Holders(r) /\ user[c] = u
        /\ joined[c] /\ pc[c] # "releasing"

\* A roster in hand never has more members than one Presence message fits,
\* because the hold outlives the presence.
RosterFits ==
    \A c \in Conns : Cardinality(listed[c]) <= MaxConnectionsPerRoom

\* "Send the room's presence list to everyone in it": once nobody is between a
\* change of presence and its broadcast, the last roster sent is the room's.
\* The code does not keep this one (README, section 3).
RosterSettles ==
    \A r \in live :
        (\A c \in Holders(r) : pc[c] \notin {"listing", "sending"})
            => shown[channel[r]] = Roster(r)
=============================================================================
