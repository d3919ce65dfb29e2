------------------------------- MODULE Arrows -------------------------------
(***************************************************************************)
(* The game arrows: a board is filled with arrows, each a path of cells    *)
(* that hold only directions and three marks; a click finds the head of an *)
(* arrow by walking back along it and, when the way before it is free,     *)
(* takes the arrow off the board from its tail.                            *)
(*                                                                         *)
(* rand() is any choice it can make.  The lengths after which an arrow may *)
(* turn or stop, 4 and 8 in the source, and that of the longest walk, 255, *)
(* are constants.  A click is inside the board.                            *)
(***************************************************************************)
EXTENDS Integers

CONSTANTS BSIZE, NUMEDGERS, TurnAfter, StopAfter, MaxWalk

VARIABLES
    board,   \* what is in each cell
    arrow,   \* growarrow's x, y, tile and len
    start,   \* buildlevel's x, y
    grafts,  \* the arrows tried on this edger's tail
    edgers,  \* the arrows still to be started on the edge
    cell,    \* where buildlevel's last loop is
    tip,     \* retire's x, y
    whole,   \* the arrow being retired, as it was
    stage    \* "edge", "grow", "graft", "fill", "play", "retire"

arrowsVars == <<board, arrow, start, grafts, edgers, cell, tip, whole, stage>>

N == 0
W == 3
deltamove == <<<<0, -1>>, <<1, 0>>, <<0, 1>>, <<-1, 0>>>>

Cells == (0..BSIZE - 1) \X (0..BSIZE - 1)

\* A cell as the bits of its byte.  CL is 255: every bit, every mark.
Byte(first, last, corner, tile, next) ==
    [clear |-> FALSE, first |-> first, last |-> last, corner |-> corner, tile |-> tile, next |-> next]
CL == [clear |-> TRUE, first |-> TRUE, last |-> TRUE, corner |-> TRUE, tile |-> W, next |-> W]

\* What lies right of the board and under it is never written.
ByteAt(c) == IF c \in Cells THEN board[c] ELSE Byte(FALSE, FALSE, FALSE, N, N)

Ahead(c, tile) == <<c[1] + deltamove[tile + 1][1], c[2] + deltamove[tile + 1][2]>>
Behind(c, tile) == <<c[1] - deltamove[tile + 1][1], c[2] - deltamove[tile + 1][2]>>

Blocked(c) == IF c \in Cells THEN ~board[c].clear ELSE TRUE

\* xy > 0 of a packed pair: the top left cell is not.
Positive(c) == c[2] * BSIZE + c[1] > 0

\* The walks are written over sets of one cell: TLC then evaluates each step
\* once.
The(S) == CHOOSE x \in S : TRUE

RECURSIVE HeadFrom(_, _)
HeadFrom(c, len) ==
    IF len = 0 THEN <<-1, 0>>
    ELSE IF ByteAt(c).first THEN c ELSE The({HeadFrom(d, len - 1) : d \in {Behind(c, ByteAt(c).tile)}})

findhead(c) == HeadFrom(c, MaxWalk)

AtTail(c) == ByteAt(c).last \/ ByteAt(c).clear

Onward(c) == Ahead(c, IF ByteAt(c).corner THEN ByteAt(c).next ELSE ByteAt(c).tile)

KnownGood(c) == ByteAt(Onward(c)).clear

RECURSIVE TailFrom(_, _)
TailFrom(c, len) ==
    IF len = 0 THEN <<-1, 0>>
    ELSE IF AtTail(c) \/ KnownGood(c) THEN c ELSE The({TailFrom(d, len - 1) : d \in {Onward(c)}})

findtail(c) == TailFrom(c, MaxWalk)

NoArrow == [at |-> <<0, 0>>, tile |-> N, len |-> 0]

ArrowsInit ==
    /\ board = [c \in Cells |-> CL]
    /\ arrow = NoArrow
    /\ start = <<0, 0>>
    /\ grafts = 0
    /\ edgers = NUMEDGERS
    /\ cell = 0
    /\ tip = <<0, 0>>
    /\ whole = {}
    /\ stage = IF NUMEDGERS = 0 THEN "fill" ELSE "edge"

\* A clear cell of an edge, and the direction away from that edge.
Edges == UNION {{<<<<r, 0>>, 2>>, <<<<BSIZE - 1, r>>, W>>, <<<<r, BSIZE - 1>>, N>>, <<<<0, r>>, 1>>} : r \in 0..BSIZE - 1}

Begin(c, tile) == /\ arrow' = [at |-> c, tile |-> tile, len |-> 0]
                  /\ stage' = "grow"

StartEdger ==
    /\ stage = "edge"
    /\ \E e \in Edges :
        /\ board[e[1]].clear
        /\ start' = e[1]
        /\ Begin(e[1], e[2])
    /\ grafts' = 0
    /\ edgers' = edgers - 1
    /\ UNCHANGED <<board, cell, tip, whole>>

CornerByte(tile, newtile) == Byte(FALSE, FALSE, TRUE, tile, newtile)

\* An arrow that turns in its first cell and leaves a corner there.
Turned_Corner(tile, newtile, len) == CornerByte(tile, newtile)

Turned(tile, newtile, len) ==
    IF len = 0 THEN Byte(TRUE, FALSE, FALSE, newtile, N) ELSE CornerByte(tile, newtile)

\* The last cell of an arrow; an arrow of one cell is taken back.
End(c, byte, len) ==
    /\ board' = [board EXCEPT ![c] = IF len = 0 THEN CL ELSE [byte EXCEPT !.last = TRUE]]
    /\ stage' = IF edgers = 0 /\ cell > 0 THEN "fill" ELSE "graft"
    /\ arrow' = NoArrow

\* One cell more, or the chance to stop.
Onto(c, byte, tile) ==
    \/ /\ board' = [board EXCEPT ![c] = byte]
       /\ arrow' = [at |-> Ahead(c, tile), tile |-> tile, len |-> arrow.len + 1]
       /\ UNCHANGED stage
    \/ arrow.len > StopAfter /\ End(c, byte, arrow.len)

growarrow ==
    /\ stage = "grow"
    /\ LET c == arrow.at
           tile == arrow.tile
           here == Byte(arrow.len = 0, FALSE, FALSE, tile, N)
       IN  \/ ~Blocked(Ahead(c, tile)) /\ Onto(c, here, tile)
           \/ /\ Blocked(Ahead(c, tile)) \/ arrow.len > TurnAfter
              /\ \E newtile \in {(tile + 1) % 4, (tile + 3) % 4} :
                  IF Blocked(Ahead(c, newtile))
                  THEN End(c, here, arrow.len)
                  ELSE Onto(c, Turned(tile, newtile, arrow.len), newtile)
    /\ UNCHANGED <<start, grafts, edgers, cell, tip, whole>>

\* What is above the board is other memory: it may look clear.
OpenTo(c, above) == {tile \in 0..3 : IF Ahead(c, tile)[2] < 0 THEN above ELSE ByteAt(Ahead(c, tile)).clear}

\* Another arrow onto the tail of the last, pointing at it, twice at most.
Graft ==
    /\ stage = "graft"
    /\ LET tail == findtail(start)
           choices == {Ahead(tile[1], tile[2]) : tile \in UNION {{tail} \X OpenTo(tail, above) : above \in BOOLEAN}}
           Next == IF edgers = 0 THEN "fill" ELSE "edge"
       IN  \/ /\ grafts < 2 /\ Positive(tail)
              /\ \E c \in choices :
                  /\ Positive(c)
                  /\ start' = c
                  /\ \E tile \in 0..3 : Ahead(c, tile) = tail /\ Begin(c, tile)
              /\ grafts' = grafts + 1
              /\ UNCHANGED cell
           \/ /\ \/ grafts = 2 \/ ~Positive(tail)
                 \/ OpenTo(tail, FALSE) = {} \/ \E c \in choices : ~Positive(c)
              /\ stage' = Next
              /\ cell' = IF edgers = 0 THEN 1 ELSE cell
              /\ start' = <<0, 0>> /\ grafts' = 0
              /\ UNCHANGED arrow
    /\ UNCHANGED <<board, edgers, tip, whole>>

\* The cells that are left, row by row; cell counts them from one.
FillCell ==
    /\ stage = "fill"
    /\ LET c == <<(cell - 1) % BSIZE, (cell - 1) \div BSIZE>>
       IN  IF cell > BSIZE * BSIZE
           THEN stage' = "play" /\ UNCHANGED <<arrow, cell>>
           ELSE /\ cell' = cell + 1
                /\ IF board[c].clear
                   THEN \E above \in BOOLEAN :
                            \E tile \in IF OpenTo(c, above) = {} THEN 0..3 ELSE OpenTo(c, above) : Begin(c, tile)
                   ELSE UNCHANGED <<arrow, stage>>
    /\ UNCHANGED <<board, start, grafts, edgers, tip, whole>>

RECURSIVE FreeFrom(_, _)
FreeFrom(c, tile) == c \notin Cells \/ (~Blocked(c) /\ FreeFrom(Behind(c, tile), tile))

canmove(c) == FreeFrom(Behind(c, board[c].tile), board[c].tile)

ArrowOf(h) == {c \in Cells : ~board[c].clear /\ findhead(c) = h}

Click ==
    /\ stage = "play"
    /\ \E c \in Cells :
        LET h == findhead(c)
        IN  /\ h \in Cells /\ board[h].first
            /\ canmove(h)
            /\ tip' = h
            /\ whole' = ArrowOf(h)
    /\ stage' = "retire"
    /\ UNCHANGED <<board, arrow, start, grafts, edgers, cell>>

\* One turn of retire's loop.  With the tail in the top left cell nothing is
\* erased and the loop goes on.
retire ==
    /\ stage = "retire"
    /\ LET tail == findtail(tip)
       IN  IF Positive(tail)
           THEN /\ board' = [board EXCEPT ![tail] = CL]
                /\ IF tail = tip THEN stage' = "play" /\ tip' = <<0, 0>> /\ whole' = {}
                                 ELSE UNCHANGED <<stage, tip, whole>>
           ELSE UNCHANGED <<board, stage, tip, whole>>
    /\ UNCHANGED <<arrow, start, grafts, edgers, cell>>

ArrowsNext == StartEdger \/ growarrow \/ Graft \/ FillCell \/ Click \/ retire

-----------------------------------------------------------------------------
\* Between two arrows every cell that is used can be walked back to a head,
\* and from that head on to a tail.
EveryCellHasItsArrow ==
    stage \in {"edge", "graft", "fill", "play"} =>
        \A c \in Cells : ~board[c].clear =>
            LET h == findhead(c)
            IN  /\ h \in Cells /\ board[h].first /\ ~board[h].clear
                /\ LET t == findtail(h) IN t \in Cells /\ board[t].last /\ findhead(t) = h

\* Every turn of retire's loop has a cell to take, so that it ends.  The arrow
\* must not touch the top left cell, which xy > 0 takes for an error.
RetireGoesOn ==
    (stage = "retire" /\ whole # {} /\ <<0, 0>> \notin whole) =>
        LET t == findtail(tip) IN t \in whole /\ ~board[t].clear

\* An arrow is taken off the board from one end to the other, and no cell of
\* another one with it.
RetireTakesOne ==
    [][stage = "retire" =>
        /\ \A c \in Cells : board'[c] # board[c] => c \in whole
        /\ stage' = "play" => \A c \in whole : board'[c].clear]_arrowsVars

\* Arrows stay walkable, and come off the board whole and alone.
ArrowsAreRight == [](EveryCellHasItsArrow /\ RetireGoesOn) /\ RetireTakesOne

=============================================================================
