CONSTANTS
    Conns = {c1, c2, c3, c4}
    Users = {ann, bob, eve}
    RoomIds = {r1, r2}
    None = None
    MaxConnectionsPerUser = 2
    MaxConnectionsPerRoom = 2
    MaxRoomsPerUser = 1
    MaxRooms = 2
SPECIFICATION Spec
SYMMETRY Alike
INVARIANTS CountsExact CapsHold OneChannel PresenceIsHeld
CHECK_DEADLOCK FALSE
