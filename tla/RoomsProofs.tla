---------------------------- MODULE RoomsProofs ----------------------------
(***************************************************************************)
(* The counts of Rooms are exact and its limits hold for any number of     *)
(* connections, users and rooms and any limits, and a roster always fits   *)
(* the message it is sent in.  Beside the checked invariants the induction *)
(* needs where a connection can be with what it has set: Tasks.            *)
(***************************************************************************)
EXTENDS Rooms, FiniteSetTheorems, TLAPS

\* A connection in its loop has not ended; one that has not joined is in no
\* session, and one that ended is out of it once it is past "leaving".
Tasks ==
    \A c \in Conns :
        /\ pc[c] \in {"idle", "upgrading"} => ~joined[c]
        /\ pc[c] \in {"idle", "upgrading", "open"} => ~ended[c]
        /\ pc[c] = "leaving" => ended[c]
        /\ pc[c] \in {"listing", "sending"} /\ ended[c] =>
               \A r \in RoomIds, u \in Users : c \notin presence[r][u]

\* A room that is there was charged to somebody, and the rooms are as many as
\* were let in.
Charged ==
    /\ IsFiniteSet(live)
    /\ Cardinality(live) <= MaxRooms
    /\ \A r \in live : owner[r] \in Users /\ connections[r] <= MaxConnectionsPerRoom
    /\ \A u \in Users : /\ connectionsByUser[u] <= MaxConnectionsPerUser
                        /\ owned[u] <= MaxRoomsPerUser

RoomsInv == TypeOK /\ CountsExact /\ OneChannel /\ Charged

PresenceInv == PresenceIsHeld /\ RosterFits /\ Tasks

-----------------------------------------------------------------------------
\* decrement_count takes one from a count that is above zero.
LEMMA Decremented ==
    ASSUME NEW D, NEW f \in [D -> Nat], NEW k \in D
    PROVE  /\ Decrement(f, k) \in [D -> Nat]
           /\ f[k] > 0 => Decrement(f, k)[k] = f[k] - 1
           /\ \A d \in D : d # k => Decrement(f, k)[d] = f[d]
           /\ \A d \in D : Decrement(f, k)[d] <= f[d]
<1>1. (IF f[k] = 0 THEN 0 ELSE f[k] - 1) \in Nat
  OBVIOUS
<1>2. Decrement(f, k) = [f EXCEPT ![k] = IF f[k] = 0 THEN 0 ELSE f[k] - 1]
  BY DEF Decrement
<1>3. QED
  BY <1>1, <1>2

\* Sets of connections and of rooms charged to a user are finite.
LEMMA HeldFinite ==
    ASSUME RoomsInv
    PROVE  /\ \A r : IsFiniteSet(Holders(r)) /\ Cardinality(Holders(r)) \in Nat
           /\ \A u : IsFiniteSet(Held(u)) /\ Cardinality(Held(u)) \in Nat
           /\ \A u : IsFiniteSet(OwnedRooms(u)) /\ Cardinality(OwnedRooms(u)) \in Nat
<1>1. \A r : Holders(r) \subseteq Conns
  BY DEF Holders
<1>2. \A u : Held(u) \subseteq Conns
  BY DEF Held
<1>3. \A u : OwnedRooms(u) \subseteq live
  BY DEF OwnedRooms
<1>4. QED
  BY <1>1, <1>2, <1>3, FiniteConns, FS_Subset, FS_CardinalityType DEF RoomsInv, Charged

\* What is counted keeps the caps.
LEMMA CapsFollow == RoomsInv => CapsHold
<1> SUFFICES ASSUME RoomsInv PROVE CapsHold
  OBVIOUS
<1>1. \A r \in RoomIds : Cardinality(Holders(r)) <= MaxConnectionsPerRoom
  <2> SUFFICES ASSUME NEW r \in RoomIds
               PROVE  Cardinality(Holders(r)) <= MaxConnectionsPerRoom
    OBVIOUS
  <2>1. CASE r \in live
    BY <2>1 DEF RoomsInv, CountsExact, Charged
  <2>2. CASE r \notin live
    BY <2>2, FS_EmptySet, CapsAreNats DEF RoomsInv, CountsExact
  <2>3. QED
    BY <2>1, <2>2
<1>2. QED
  BY <1>1 DEF RoomsInv, CountsExact, Charged, CapsHold

\* A step within the holding places changes no count.
LEMMA StaysHeld ==
    ASSUME RoomsInv, NEW c \in Conns, NEW place \in Holding,
           pc[c] \in Holding, pc' = [pc EXCEPT ![c] = place],
           UNCHANGED <<counts, who>>
    PROVE  CountsExact' /\ OneChannel' /\ Charged'
<1>1. \A d \in Conns : pc'[d] \in Holding <=> pc[d] \in Holding
  BY DEF RoomsInv, TypeOK
<1>2. /\ \A r : Holders(r)' = Holders(r)
      /\ \A u : Held(u)' = Held(u)
      /\ \A u : OwnedRooms(u)' = OwnedRooms(u)
  BY <1>1 DEF Holders, Held, OwnedRooms, counts, who
<1>3. CountsExact'
  BY <1>2 DEF RoomsInv, CountsExact, counts
<1>4. OneChannel'
  BY <1>1 DEF RoomsInv, OneChannel, counts, who
<1>5. Charged'
  BY DEF RoomsInv, Charged, counts
<1>6. QED
  BY <1>3, <1>4, <1>5

\* Every variable keeps its type, and what holds a room knows it.
LEMMA TypeStep ==
    ASSUME RoomsInv, [Next]_vars
    PROVE  TypeOK'
<1> USE DEF RoomsInv, TypeOK, Holding
<1>1. CASE UNCHANGED vars
  BY <1>1 DEF vars, counts, who
<1>2. ASSUME NEW c \in Conns, NEW r \in RoomIds, NEW u \in Users, Acquire(c, r, u)
      PROVE  TypeOK'
  <2>1. CASE EnterRoom(c, r)
    <3>1. channel[r] \in Conns
      <4>1. PICK d \in Holders(r) : TRUE
        BY <2>1 DEF EnterRoom, CountsExact
      <4>2. d \in Conns /\ pc[d] \in Holding /\ room[d] = r
        BY DEF Holders
      <4>3. QED
        BY <4>2 DEF OneChannel
    <3>2. QED
      BY <1>2, <2>1, <3>1 DEF Acquire, EnterRoom
  <2>2. CASE MakeRoom(c, r, u)
    BY <1>2, <2>2 DEF Acquire, MakeRoom
  <2>3. QED
    BY <1>2, <2>1, <2>2 DEF Acquire
<1>3. ASSUME NEW c \in Conns, NEW r \in RoomIds, NEW u \in Users, Refuse(c, r, u)
      PROVE  TypeOK'
  BY <1>3 DEF Refuse, counts, who
<1>4. ASSUME NEW c \in Conns,
             \/ Upgrade(c) \/ FailUpgrade(c) \/ EndLoop(c)
      PROVE  TypeOK'
  BY <1>4 DEF Upgrade, FailUpgrade, EndLoop, counts, who
<1>5. ASSUME NEW c \in Conns,
             \/ Join(c) \/ Leave(c) \/ LeaveAtEnd(c)
      PROVE  TypeOK'
  <2>1. pc[c] \in Holding /\ room[c] \in RoomIds /\ user[c] \in Users
    BY <1>5 DEF Join, Leave, LeaveAtEnd
  <2>2. presence' \in [RoomIds -> [Users -> SUBSET Conns]]
    <3>1. CASE Join(c)
      BY <2>1, <3>1 DEF Join
    <3>2. CASE Leave(c) \/ LeaveAtEnd(c)
      <4>1. presence' = [presence EXCEPT ![room[c]][user[c]] = @ \ {c}]
        BY <3>2 DEF Leave, LeaveAtEnd
      <4>2. presence[room[c]][user[c]] \ {c} \in SUBSET Conns
        BY <2>1
      <4>3. QED
        BY <2>1, <4>1, <4>2
    <3>3. QED
      BY <1>5, <3>1, <3>2
  <2>3. QED
    BY <1>5, <2>1, <2>2 DEF Join, Leave, LeaveAtEnd, counts, who
<1>6. ASSUME NEW c \in Conns, ListRoster(c) \/ SendRoster(c)
      PROVE  TypeOK'
  <2>1. CASE ListRoster(c)
    <3>1. Roster(room[c]) \in SUBSET Users
      BY DEF Roster
    <3>2. QED
      BY <2>1, <3>1 DEF ListRoster, counts, who
  <2>2. CASE SendRoster(c)
    <3>1. pc[c] \in Holding /\ tx[c] \in Conns
      BY <2>2 DEF SendRoster
    <3>2. QED
      BY <2>2, <3>1 DEF SendRoster, counts, who
  <2>3. QED
    BY <1>6, <2>1, <2>2
<1>7. ASSUME NEW c \in Conns, Release(c)
      PROVE  TypeOK'
  <2>1. /\ pc[c] \in Holding /\ user[c] \in Users /\ room[c] \in RoomIds
        /\ c \in Holders(room[c])
    BY <1>7 DEF Release, Holders
  <2>2. room[c] \in live
    BY <2>1 DEF CountsExact
  <2>3. connectionsByUser' \in [Users -> Nat]
    BY <1>7, <2>1, Decremented DEF Release
  <2>4. /\ pc' \in [Conns -> Holding \cup {"idle", "closed"}]
        /\ user' \in [Conns -> Users \cup {None}]
        /\ room' \in [Conns -> RoomIds \cup {None}]
        /\ tx' \in [Conns -> Conns \cup {None}]
        /\ joined' \in [Conns -> BOOLEAN]
        /\ ended' \in [Conns -> BOOLEAN]
        /\ UNCHANGED <<presence, listed>>
    BY <1>7 DEF Release
  <2>5. \A d \in Conns : pc'[d] \in Holding =>
            user'[d] \in Users /\ room'[d] \in RoomIds /\ tx'[d] \in Conns
    BY <1>7 DEF Release
  <2>6. CASE ReleaseHold(room[c])
    BY <2>1, <2>3, <2>4, <2>5, <2>6 DEF ReleaseHold, LastHold
  <2>7. CASE DropRoom(room[c])
    <3>1. owner[room[c]] \in Users
      BY <2>2 DEF Charged
    <3>2. channel[room[c]] \in Conns
      BY <2>1 DEF OneChannel, Holders
    <3>3. owned' \in [Users -> Nat]
      BY <2>7, <3>1, Decremented DEF DropRoom
    <3>4. shown' \in [Conns -> SUBSET Users]
      BY <2>7, <3>2 DEF DropRoom
    <3>5. QED
      BY <2>1, <2>3, <2>4, <2>5, <2>7, <3>3, <3>4 DEF DropRoom
  <2>8. QED
    BY <1>7, <2>2, <2>6, <2>7 DEF Release
<1>8. QED
  BY <1>1, <1>2, <1>3, <1>4, <1>5, <1>6, <1>7 DEF Next, Arrive

\* A new hold is counted where it counts.
LEMMA AcquireCounts ==
    ASSUME RoomsInv, NEW c \in Conns, NEW r \in RoomIds, NEW u \in Users,
           Acquire(c, r, u)
    PROVE  CountsExact' /\ OneChannel' /\ Charged'
<1> USE DEF RoomsInv, TypeOK
<1>1. /\ pc[c] = "idle" /\ pc[c] \notin Holding
      /\ pc' = [pc EXCEPT ![c] = "upgrading"]
      /\ user' = [user EXCEPT ![c] = u]
      /\ room' = [room EXCEPT ![c] = r]
      /\ connectionsByUser' = [connectionsByUser EXCEPT ![u] = @ + 1]
      /\ MayEnter(r, u)
  BY DEF Acquire, Holding
<1>2. \A d \in Conns : pc'[d] \in Holding <=> d = c \/ pc[d] \in Holding
  BY <1>1 DEF Holding
<1>3. /\ Holders(r)' = Holders(r) \cup {c} /\ c \notin Holders(r)
      /\ \A q \in RoomIds : q # r => Holders(q)' = Holders(q)
  BY <1>1, <1>2 DEF Holders
<1>4. /\ Held(u)' = Held(u) \cup {c} /\ c \notin Held(u)
      /\ \A v \in Users : v # u => Held(v)' = Held(v)
  BY <1>1, <1>2 DEF Held
<1>5. /\ Cardinality(Holders(r)') = Cardinality(Holders(r)) + 1
      /\ Cardinality(Held(u)') = Cardinality(Held(u)) + 1
  <2>1. Cardinality(Holders(r) \cup {c}) = Cardinality(Holders(r)) + 1
    BY <1>3, HeldFinite, FS_AddElement
  <2>2. Cardinality(Held(u) \cup {c}) = Cardinality(Held(u)) + 1
    BY <1>4, HeldFinite, FS_AddElement
  <2>3. QED
    BY <1>3, <1>4, <2>1, <2>2
<1>6. \A v \in Users : connectionsByUser'[v] = Cardinality(Held(v)')
  BY <1>1, <1>4, <1>5 DEF CountsExact
<1>7. \A v \in Users : connectionsByUser'[v] <= MaxConnectionsPerUser
  BY <1>1, CapsAreNats DEF Charged, MayEnter
<1>8. CASE EnterRoom(c, r)
  <2>1. /\ r \in live
        /\ connections' = [connections EXCEPT ![r] = @ + 1]
        /\ tx' = [tx EXCEPT ![c] = channel[r]]
        /\ UNCHANGED <<live, owner, channel, owned>>
    BY <1>8 DEF EnterRoom
  <2>2. \A v : OwnedRooms(v)' = OwnedRooms(v)
    BY <2>1 DEF OwnedRooms
  <2>3. \A q \in RoomIds : /\ q \in live' <=> Holders(q)' # {}
                           /\ q \in live' => connections'[q] = Cardinality(Holders(q)')
    BY <1>3, <1>5, <2>1 DEF CountsExact
  <2>4. CountsExact'
    BY <1>6, <2>1, <2>2, <2>3 DEF CountsExact
  <2>5. OneChannel'
    BY <1>1, <1>2, <2>1 DEF OneChannel
  <2>6. Charged'
    BY <1>1, <1>7, <2>1, CapsAreNats DEF Charged, MayEnter
  <2>7. QED
    BY <2>4, <2>5, <2>6
<1>9. CASE MakeRoom(c, r, u)
  <2>1. /\ r \notin live
        /\ live' = live \cup {r}
        /\ owner' = [owner EXCEPT ![r] = u]
        /\ connections' = [connections EXCEPT ![r] = 1]
        /\ channel' = [channel EXCEPT ![r] = c]
        /\ owned' = [owned EXCEPT ![u] = @ + 1]
        /\ tx' = [tx EXCEPT ![c] = c]
    BY <1>9 DEF MakeRoom
  <2>2. Holders(r) = {}
    BY <2>1 DEF CountsExact
  <2>3. /\ OwnedRooms(u)' = OwnedRooms(u) \cup {r} /\ r \notin OwnedRooms(u)
        /\ \A v \in Users : v # u => OwnedRooms(v)' = OwnedRooms(v)
    BY <2>1 DEF OwnedRooms
  <2>4. Cardinality(OwnedRooms(u)') = Cardinality(OwnedRooms(u)) + 1
    <3>1. Cardinality(OwnedRooms(u) \cup {r}) = Cardinality(OwnedRooms(u)) + 1
      BY <2>3, HeldFinite, FS_AddElement
    <3>2. QED
      BY <2>3, <3>1
  <2>5. Cardinality(Holders(r)') = 1
    BY <1>5, <2>2, FS_EmptySet
  <2>6. \A q \in RoomIds : /\ q \in live' <=> Holders(q)' # {}
                           /\ q \in live' => connections'[q] = Cardinality(Holders(q)')
    BY <1>3, <2>1, <2>5 DEF CountsExact
  <2>7. \A v \in Users : owned'[v] = Cardinality(OwnedRooms(v)')
    BY <2>1, <2>3, <2>4 DEF CountsExact
  <2>8. CountsExact'
    BY <1>6, <2>6, <2>7 DEF CountsExact
  <2>9. OneChannel'
    <3> SUFFICES ASSUME NEW d \in Conns, pc'[d] \in Holding
                 PROVE  tx'[d] = channel'[room'[d]]
      BY DEF OneChannel
    <3>1. CASE d = c
      BY <1>1, <2>1, <3>1
    <3>2. CASE d # c
      <4>1. pc[d] \in Holding /\ room[d] # r /\ room[d] \in RoomIds
        BY <1>2, <2>2, <3>2 DEF Holders
      <4>2. QED
        BY <1>1, <2>1, <3>2, <4>1 DEF OneChannel
    <3>3. QED
      BY <3>1, <3>2
  <2>10. IsFiniteSet(live') /\ Cardinality(live') = Cardinality(live) + 1
    BY <2>1, FS_AddElement DEF Charged
  <2>11. Cardinality(live) \in Nat
    BY FS_CardinalityType DEF Charged
  <2>12. Cardinality(live') <= MaxRooms
    BY <1>1, <2>1, <2>10, <2>11, CapsAreNats DEF MayEnter
  <2>13. \A q \in live' : /\ owner'[q] \in Users
                          /\ connections'[q] <= MaxConnectionsPerRoom
    BY <2>1, CapsAreNats DEF Charged
  <2>14. \A v \in Users : owned'[v] <= MaxRoomsPerUser
    BY <1>1, <2>1, CapsAreNats DEF Charged, MayEnter
  <2>15. Charged'
    BY <1>7, <2>10, <2>12, <2>13, <2>14 DEF Charged
  <2>16. QED
    BY <2>8, <2>9, <2>15
<1>10. QED
  BY <1>8, <1>9 DEF Acquire

\* A set that loses a member has one less.
LEMMA OneLess ==
    ASSUME NEW S, IsFiniteSet(S), NEW x, x \in S
    PROVE  /\ IsFiniteSet(S \ {x})
           /\ Cardinality(S \ {x}) = Cardinality(S) - 1
           /\ Cardinality(S) \in Nat /\ Cardinality(S) > 0
<1>1. Cardinality(S) \in Nat /\ Cardinality(S) # 0
  BY FS_CardinalityType, FS_EmptySet
<1>2. QED
  BY <1>1, FS_RemoveElement

\* A released hold is taken from every count it was in.
LEMMA ReleaseCounts ==
    ASSUME RoomsInv, NEW c \in Conns, Release(c),
           NEW r \in RoomIds, c \in Holders(r),
           NEW u \in Users, c \in Held(u)
    PROVE  CountsExact' /\ OneChannel' /\ Charged'
<1> USE DEF RoomsInv, TypeOK
<1>1. room[c] = r /\ user[c] = u
  BY DEF Holders, Held
<1>2. r \in live
  BY DEF CountsExact
<1>3. /\ connectionsByUser' = Decrement(connectionsByUser, u)
      /\ ReleaseHold(r) \/ DropRoom(r)
      /\ pc' = [pc EXCEPT ![c] = "closed"]
      /\ user' = [user EXCEPT ![c] = None]
      /\ room' = [room EXCEPT ![c] = None]
      /\ tx' = [tx EXCEPT ![c] = None]
  BY <1>1, <1>2 DEF Release
<1>4. \A d \in Conns : /\ pc'[d] \in Holding <=> d # c /\ pc[d] \in Holding
                       /\ d # c => /\ user'[d] = user[d] /\ room'[d] = room[d]
                                   /\ tx'[d] = tx[d]
  BY <1>3 DEF Holding
<1>5. /\ Holders(r)' = Holders(r) \ {c}
      /\ \A q \in RoomIds : q # r => Holders(q)' = Holders(q)
  BY <1>1, <1>4 DEF Holders
<1>6. /\ Held(u)' = Held(u) \ {c}
      /\ \A v \in Users : v # u => Held(v)' = Held(v)
  BY <1>1, <1>4 DEF Held
<1>7. /\ Cardinality(Holders(r)') = Cardinality(Holders(r)) - 1
      /\ Cardinality(Held(u)') = Cardinality(Held(u)) - 1
      /\ Cardinality(Held(u)) > 0
  <2>1. Cardinality(Holders(r) \ {c}) = Cardinality(Holders(r)) - 1
    BY HeldFinite, OneLess
  <2>2. Cardinality(Held(u) \ {c}) = Cardinality(Held(u)) - 1
    BY HeldFinite, OneLess
  <2>3. Cardinality(Held(u)) > 0
    BY HeldFinite, OneLess
  <2>4. QED
    BY <1>5, <1>6, <2>1, <2>2, <2>3
<1>8. /\ \A v \in Users : connectionsByUser'[v] = Cardinality(Held(v)')
      /\ \A v \in Users : connectionsByUser'[v] <= MaxConnectionsPerUser
  <2>1. /\ connectionsByUser[u] > 0 => connectionsByUser'[u] = connectionsByUser[u] - 1
        /\ \A v \in Users : v # u => connectionsByUser'[v] = connectionsByUser[v]
    BY <1>3 DEF Decrement
  <2>2. connectionsByUser[u] = Cardinality(Held(u))
    BY DEF CountsExact
  <2>3. \A v \in Users : v # u => connectionsByUser'[v] = Cardinality(Held(v)')
    BY <1>6, <2>1 DEF CountsExact
  <2>4. connectionsByUser'[u] = Cardinality(Held(u)')
    BY <1>7, <2>1, <2>2
  <2>5. connectionsByUser'[u] <= MaxConnectionsPerUser
    BY <1>7, <2>1, <2>2, CapsAreNats DEF Charged
  <2>6. QED
    BY <2>1, <2>3, <2>4, <2>5 DEF Charged
<1>9. connections[r] = Cardinality(Holders(r)) /\ connections[r] \in Nat
  BY <1>2 DEF CountsExact
<1>10. CASE ReleaseHold(r)
  <2>1. /\ connections[r] > 1
        /\ connections' = [connections EXCEPT ![r] = @ - 1]
        /\ UNCHANGED <<live, owner, channel, owned>>
    BY <1>9, <1>10 DEF ReleaseHold, LastHold
  <2>2. Holders(r)' # {}
    <3> SUFFICES ASSUME Holders(r)' = {} PROVE FALSE
      OBVIOUS
    <3>1. Cardinality(Holders(r)') = 0
      BY FS_EmptySet
    <3>2. QED
      BY <1>7, <1>9, <2>1, <3>1
  <2>3. \A q \in RoomIds : /\ q \in live' <=> Holders(q)' # {}
                           /\ q \in live' => connections'[q] = Cardinality(Holders(q)')
    BY <1>2, <1>5, <1>7, <1>9, <2>1, <2>2 DEF CountsExact
  <2>4. \A v : OwnedRooms(v)' = OwnedRooms(v)
    BY <2>1 DEF OwnedRooms
  <2>5. CountsExact'
    BY <1>8, <2>1, <2>3, <2>4 DEF CountsExact
  <2>6. OneChannel'
    BY <1>4, <2>1 DEF OneChannel
  <2>7. Charged'
    BY <1>8, <2>1, CapsAreNats DEF Charged
  <2>8. QED
    BY <2>5, <2>6, <2>7
<1>11. CASE DropRoom(r)
  <2>1. /\ connections[r] <= 1
        /\ live' = live \ {r}
        /\ owner' = [owner EXCEPT ![r] = None]
        /\ connections' = [connections EXCEPT ![r] = 0]
        /\ channel' = [channel EXCEPT ![r] = None]
        /\ owned' = Decrement(owned, owner[r])
    BY <1>11 DEF DropRoom, LastHold
  <2>2. Holders(r)' = {}
    <3>1. Cardinality(Holders(r)') = 0 \/ Cardinality(Holders(r)') < 0
      BY <1>7, <1>9, <2>1
    <3>2. IsFiniteSet(Holders(r)')
      BY <1>5, HeldFinite, OneLess
    <3>3. Cardinality(Holders(r)') \in Nat
      BY <3>2, FS_CardinalityType
    <3>4. QED
      BY <3>1, <3>2, <3>3, FS_EmptySet
  <2>3. \A q \in RoomIds : /\ q \in live' <=> Holders(q)' # {}
                           /\ q \in live' => connections'[q] = Cardinality(Holders(q)')
    BY <1>5, <2>1, <2>2 DEF CountsExact
  <2>4. PICK o \in Users : o = owner[r]
    BY <1>2 DEF Charged
  <2>5. /\ OwnedRooms(o)' = OwnedRooms(o) \ {r} /\ r \in OwnedRooms(o)
        /\ \A v \in Users : v # o => OwnedRooms(v)' = OwnedRooms(v)
    BY <1>2, <2>1, <2>4 DEF OwnedRooms
  <2>6. /\ Cardinality(OwnedRooms(o)') = Cardinality(OwnedRooms(o)) - 1
        /\ Cardinality(OwnedRooms(o)) > 0
    <3>1. Cardinality(OwnedRooms(o) \ {r}) = Cardinality(OwnedRooms(o)) - 1
      BY <2>5, HeldFinite, OneLess
    <3>2. Cardinality(OwnedRooms(o)) > 0
      BY <2>5, HeldFinite, OneLess
    <3>3. QED
      BY <2>5, <3>1, <3>2
  <2>7. /\ owned[o] > 0 => owned'[o] = owned[o] - 1
        /\ \A v \in Users : v # o => owned'[v] = owned[v]
        /\ \A v \in Users : owned'[v] <= owned[v]
        /\ owned' \in [Users -> Nat]
    <3>1. owned' = [owned EXCEPT ![o] = IF owned[o] = 0 THEN 0 ELSE owned[o] - 1]
      BY <2>1, <2>4 DEF Decrement
    <3>2. (IF owned[o] = 0 THEN 0 ELSE owned[o] - 1) \in Nat
      OBVIOUS
    <3>3. QED
      BY <3>1, <3>2
  <2>8. owned[o] = Cardinality(OwnedRooms(o))
    BY <2>4 DEF CountsExact
  <2>9. \A v \in Users : owned'[v] = Cardinality(OwnedRooms(v)')
    BY <2>4, <2>5, <2>6, <2>7, <2>8 DEF CountsExact
  <2>10. CountsExact'
    BY <1>8, <2>3, <2>9 DEF CountsExact
  <2>11. OneChannel'
    <3> SUFFICES ASSUME NEW d \in Conns, pc'[d] \in Holding
                 PROVE  tx'[d] = channel'[room'[d]]
      BY DEF OneChannel
    <3>1. d # c /\ pc[d] \in Holding /\ room'[d] = room[d] /\ tx'[d] = tx[d]
      BY <1>4
    <3>2. room[d] # r
      BY <1>5, <2>2, <3>1 DEF Holders
    <3>3. QED
      BY <2>1, <3>1, <3>2 DEF OneChannel
  <2>12. IsFiniteSet(live') /\ Cardinality(live') = Cardinality(live) - 1
    BY <1>2, <2>1, OneLess DEF Charged
  <2>13. Cardinality(live) \in Nat
    BY FS_CardinalityType DEF Charged
  <2>14. Cardinality(live') <= MaxRooms
    BY <2>12, <2>13, CapsAreNats DEF Charged
  <2>15. \A q \in live' : /\ owner'[q] \in Users
                          /\ connections'[q] <= MaxConnectionsPerRoom
    BY <2>1 DEF Charged
  <2>16. \A v \in Users : owned'[v] <= MaxRoomsPerUser
    BY <2>7, CapsAreNats DEF Charged
  <2>17. Charged'
    BY <1>8, <2>12, <2>14, <2>15, <2>16 DEF Charged
  <2>18. QED
    BY <2>10, <2>11, <2>17
<1>12. QED
  BY <1>3, <1>10, <1>11

\* The counts, the channels and the caps go from step to step.
LEMMA RoomsStep ==
    ASSUME RoomsInv, [Next]_vars
    PROVE  RoomsInv'
<1>1. TypeOK'
  BY TypeStep
<1>2. CASE UNCHANGED vars
  <2>1. /\ \A r : Holders(r)' = Holders(r)
        /\ \A u : Held(u)' = Held(u)
        /\ \A u : OwnedRooms(u)' = OwnedRooms(u)
    BY <1>2 DEF vars, counts, who, Holders, Held, OwnedRooms
  <2>2. CountsExact'
    BY <1>2, <2>1 DEF RoomsInv, CountsExact, vars, counts
  <2>3. OneChannel' /\ Charged'
    BY <1>2 DEF RoomsInv, OneChannel, Charged, vars, counts, who
  <2>4. QED
    BY <1>1, <2>2, <2>3 DEF RoomsInv
<1>3. ASSUME NEW c \in Conns, NEW r \in RoomIds, NEW u \in Users, Acquire(c, r, u)
      PROVE  RoomsInv'
  BY <1>1, <1>3, AcquireCounts DEF RoomsInv
<1>4. ASSUME NEW c \in Conns, NEW r \in RoomIds, NEW u \in Users, Refuse(c, r, u)
      PROVE  RoomsInv'
  <2>1. \A d \in Conns : pc'[d] \in Holding <=> pc[d] \in Holding
    BY <1>4 DEF Refuse, RoomsInv, TypeOK, Holding
  <2>2. /\ \A q : Holders(q)' = Holders(q)
        /\ \A v : Held(v)' = Held(v)
        /\ \A v : OwnedRooms(v)' = OwnedRooms(v)
    BY <1>4, <2>1 DEF Refuse, Holders, Held, OwnedRooms, counts, who
  <2>3. CountsExact'
    BY <1>4, <2>2 DEF RoomsInv, CountsExact, Refuse, counts
  <2>4. OneChannel' /\ Charged'
    BY <1>4, <2>1 DEF RoomsInv, OneChannel, Charged, Refuse, counts, who
  <2>5. QED
    BY <1>1, <2>3, <2>4 DEF RoomsInv
<1>5. ASSUME NEW c \in Conns,
             \/ Upgrade(c) \/ FailUpgrade(c) \/ Join(c) \/ Leave(c) \/ EndLoop(c)
             \/ LeaveAtEnd(c) \/ ListRoster(c) \/ SendRoster(c)
      PROVE  RoomsInv'
  <2>1. /\ pc[c] \in Holding
        /\ \E place \in Holding : pc' = [pc EXCEPT ![c] = place]
        /\ UNCHANGED <<counts, who>>
    BY <1>5 DEF Upgrade, FailUpgrade, Join, Leave, EndLoop, LeaveAtEnd, ListRoster,
                SendRoster, Holding
  <2>2. QED
    BY <1>1, <2>1, StaysHeld DEF RoomsInv
<1>6. ASSUME NEW c \in Conns, Release(c)
      PROVE  RoomsInv'
  <2>1. PICK r \in RoomIds : c \in Holders(r)
    BY <1>6 DEF Release, RoomsInv, TypeOK, Holders, Holding
  <2>2. PICK u \in Users : c \in Held(u)
    BY <1>6 DEF Release, RoomsInv, TypeOK, Held, Holding
  <2>3. QED
    BY <1>1, <1>6, <2>1, <2>2, ReleaseCounts DEF RoomsInv
<1>7. QED
  BY <1>2, <1>3, <1>4, <1>5, <1>6 DEF Next, Arrive

\* No connection, no room: every count is 0.
LEMMA RoomsInit == Init => RoomsInv
<1> SUFFICES ASSUME Init PROVE RoomsInv
  OBVIOUS
<1>1. TypeOK
  BY DEF Init, TypeOK, Holding
<1>2. /\ \A r : Holders(r) = {}
      /\ \A u : Held(u) = {}
      /\ \A u : OwnedRooms(u) = {}
  BY DEF Init, Holders, Held, OwnedRooms, Holding
<1>3. CountsExact
  BY <1>2, FS_EmptySet DEF Init, CountsExact
<1>4. OneChannel
  BY DEF Init, OneChannel, Holding
<1>5. Charged
  BY FS_EmptySet, CapsAreNats DEF Init, Charged
<1>6. QED
  BY <1>1, <1>3, <1>4, <1>5 DEF RoomsInv

\* What the counts rest on holds throughout.
LEMMA RoomsSafe == Spec => []RoomsInv
<1>1. RoomsInv /\ [Next]_vars => RoomsInv'
  BY RoomsStep
<1>2. QED
  BY <1>1, RoomsInit, PTL DEF Spec

\* The roster of a room is no larger than the connections that hold it, as each
\* of its members has one of its own there.
LEMMA RosterBound ==
    ASSUME RoomsInv, PresenceIsHeld, NEW r \in RoomIds
    PROVE  Cardinality(Roster(r)) <= MaxConnectionsPerRoom
<1> DEFINE f == [u \in Roster(r) |-> CHOOSE c \in Holders(r) : c \in presence[r][u]]
<1>1. \A u \in Roster(r) : \E c \in Holders(r) : c \in presence[r][u]
  BY DEF Roster, PresenceIsHeld, RoomsInv, TypeOK
<1>2. \A u \in Roster(r) : f[u] \in Holders(r) /\ f[u] \in presence[r][u]
  BY <1>1
<1>3. \A u \in Roster(r) : user[f[u]] = u
  BY <1>2 DEF Roster, PresenceIsHeld
<1>4. f \in [Roster(r) -> Holders(r)]
  BY <1>2
<1> HIDE DEF f
<1>5. f \in Injection(Roster(r), Holders(r))
  BY <1>3, <1>4 DEF Injection, IsInjective
<1>6. Cardinality(Roster(r)) <= Cardinality(Holders(r)) /\ IsFiniteSet(Roster(r))
  BY <1>5, HeldFinite, FS_Injection
<1>7. Cardinality(Roster(r)) \in Nat /\ Cardinality(Holders(r)) \in Nat
  BY <1>6, HeldFinite, FS_CardinalityType
<1>8. Cardinality(Holders(r)) <= MaxConnectionsPerRoom
  BY CapsFollow DEF CapsHold
<1>9. QED
  BY <1>6, <1>7, <1>8, CapsAreNats

\* A roster that is listed is bounded then, and one that is sent is forgotten.
LEMMA RosterStep ==
    ASSUME RoomsInv, PresenceInv, [Next]_vars
    PROVE  RosterFits'
<1> USE DEF PresenceInv
<1>1. CASE UNCHANGED listed
  BY <1>1 DEF RosterFits
<1>2. ASSUME NEW c \in Conns, ListRoster(c)
      PROVE  RosterFits'
  <2>1. room[c] \in RoomIds /\ listed' = [listed EXCEPT ![c] = Roster(room[c])]
    BY <1>2 DEF ListRoster, RoomsInv, TypeOK, Holding
  <2>2. Cardinality(Roster(room[c])) <= MaxConnectionsPerRoom
    BY <2>1, RosterBound
  <2>3. \A d \in Conns : \/ listed'[d] = listed[d]
                         \/ listed'[d] = Roster(room[c])
    BY <2>1 DEF RoomsInv, TypeOK
  <2>4. QED
    BY <2>2, <2>3 DEF RosterFits
<1>3. ASSUME NEW c \in Conns, SendRoster(c)
      PROVE  RosterFits'
  <2>1. \A d \in Conns : listed'[d] = listed[d] \/ listed'[d] = {}
    BY <1>3 DEF SendRoster, RoomsInv, TypeOK
  <2>2. Cardinality({}) <= MaxConnectionsPerRoom
    BY FS_EmptySet, CapsAreNats
  <2>3. QED
    BY <2>1, <2>2 DEF RosterFits
<1>4. QED
  BY <1>1, <1>2, <1>3 DEF Next, Arrive, Acquire, Refuse, Upgrade, FailUpgrade, Join,
       Leave, EndLoop, LeaveAtEnd, Release, vars

\* A connection is in a session only between its Join and its Leave, and is out
\* of every session before it lets go.
LEMMA PresenceStep ==
    ASSUME RoomsInv, PresenceInv, [Next]_vars
    PROVE  PresenceIsHeld' /\ Tasks'
<1> USE DEF RoomsInv, TypeOK, Holding, PresenceInv, PresenceIsHeld, Tasks, Holders
<1>1. CASE UNCHANGED vars
  BY <1>1 DEF vars, counts, who
<1>2. ASSUME NEW c \in Conns, NEW r \in RoomIds, NEW u \in Users,
             Acquire(c, r, u) \/ Refuse(c, r, u)
      PROVE  PresenceIsHeld' /\ Tasks'
  <2>1. \A q \in RoomIds, v \in Users : c \notin presence[q][v]
    BY <1>2 DEF Acquire, Refuse
  <2>2. /\ \A d \in Conns : d # c => /\ pc'[d] = pc[d] /\ user'[d] = user[d]
                                     /\ room'[d] = room[d]
        /\ pc'[c] \in {"upgrading", "closed"}
        /\ UNCHANGED <<presence, joined, ended>>
    BY <1>2 DEF Acquire, Refuse, who
  <2>3. QED
    BY <1>2, <2>1, <2>2 DEF Acquire, Refuse
<1>3. ASSUME NEW c \in Conns, Upgrade(c) \/ FailUpgrade(c)
      PROVE  PresenceIsHeld' /\ Tasks'
  BY <1>3 DEF Upgrade, FailUpgrade, who
<1>4. ASSUME NEW c \in Conns, Join(c)
      PROVE  PresenceIsHeld' /\ Tasks'
  BY <1>4 DEF Join, who
<1>5. ASSUME NEW c \in Conns, Leave(c)
      PROVE  PresenceIsHeld' /\ Tasks'
  BY <1>5 DEF Leave, who
<1>6. ASSUME NEW c \in Conns, EndLoop(c)
      PROVE  PresenceIsHeld' /\ Tasks'
  BY <1>6 DEF EndLoop, who
<1>7. ASSUME NEW c \in Conns, LeaveAtEnd(c)
      PROVE  PresenceIsHeld' /\ Tasks'
  BY <1>7 DEF LeaveAtEnd, who
<1>8. ASSUME NEW c \in Conns, ListRoster(c)
      PROVE  PresenceIsHeld' /\ Tasks'
  BY <1>8 DEF ListRoster, who
<1>9. ASSUME NEW c \in Conns, SendRoster(c)
      PROVE  PresenceIsHeld' /\ Tasks'
  BY <1>9 DEF SendRoster, who
<1>10. ASSUME NEW c \in Conns, Release(c)
      PROVE  PresenceIsHeld' /\ Tasks'
  BY <1>10 DEF Release
<1>11. QED
  BY <1>1, <1>2, <1>3, <1>4, <1>5, <1>6, <1>7, <1>8, <1>9, <1>10 DEF Next, Arrive

\* Nobody is in a session and no roster is listed.
LEMMA PresenceInit == Init => PresenceInv
<1>1. Init => RosterFits
  BY FS_EmptySet, CapsAreNats DEF Init, RosterFits
<1>2. Init => PresenceIsHeld /\ Tasks
  BY DEF Init, PresenceIsHeld, Tasks
<1>3. QED
  BY <1>1, <1>2 DEF PresenceInv

-----------------------------------------------------------------------------
\* For any limits, connections and accounts: the counts acquire_room checks are
\* what a recount gives, and a room is there exactly while somebody holds it.
THEOREM RoomCounts == Spec => [](TypeOK /\ CountsExact)
<1>1. RoomsInv => TypeOK /\ CountsExact
  BY DEF RoomsInv
<1>2. QED
  BY <1>1, RoomsSafe, PTL

\* None of the four limits is ever passed by the connections that are open,
\* whatever the counters say: the counts are exact, and a count at its limit
\* lets nobody in.
THEOREM LimitsHold == Spec => []CapsHold
<1>1. RoomsInv => CapsHold
  BY CapsFollow
<1>2. QED
  BY <1>1, RoomsSafe, PTL

\* Everybody who holds a room talks on the channel the room has now.
THEOREM SharedChannel == Spec => []OneChannel
<1>1. RoomsInv => OneChannel
  BY DEF RoomsInv
<1>2. QED
  BY <1>1, RoomsSafe, PTL

\* A session names only connections that hold its room, and a roster on its way
\* fits one Presence message.
THEOREM PresenceHolds == Spec => [](PresenceIsHeld /\ RosterFits)
<1>1. RoomsInv /\ PresenceInv /\ [Next]_vars => PresenceInv'
  BY RosterStep, PresenceStep DEF PresenceInv
<1>2. PresenceInv => PresenceIsHeld /\ RosterFits
  BY DEF PresenceInv
<1>3. QED
  BY <1>1, <1>2, PresenceInit, RoomsSafe, PTL DEF Spec
=============================================================================
