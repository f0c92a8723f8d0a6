\* Two connections and one room: a game, its cleanup and the way back to the
\* queue, with clients that leave at any point, under the fairness of the tasks.
CONSTANTS
    p1 = p1
    p2 = p2
    Players = {p1, p2}
    MatchSize = 2
    MaxRooms = 1
SPECIFICATION FairSpec
INVARIANTS LeavingRoomIdStable SeatKept OnePlace GamesAreOpen
PROPERTY Rematched
\* With MaxRooms used up and every client gone the server has nothing to do.
CHECK_DEADLOCK FALSE
