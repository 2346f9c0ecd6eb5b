------------------------------ MODULE MCRooms ------------------------------
\* Rooms with connections, rooms and users that TLC may permute.
EXTENDS Rooms, TLC

Alike == Permutations(Conns) \cup Permutations(RoomIds) \cup Permutations(Users)
=============================================================================
