------------------------------ MODULE Painting ------------------------------
(***************************************************************************)
(* How wmgr keeps the picture true: the rectangle arithmetic of the        *)
(* graphics library, Paint, which draws a rectangle by cutting it along    *)
(* the stack of windows, and the operations of the mouse that move, raise, *)
(* shrink, open and close windows and then repaint what they changed.      *)
(* What Paint may touch is bounded by bb.cliprect, which the operations    *)
(* before it have left behind.                                             *)
(***************************************************************************)
EXTENDS Integers, Sequences, Functions

CONSTANTS
    Frames,         \* the windows that can be opened
    ScreenW, ScreenH,
    WINBORDER, WINTITLEBAR,
    ContentW, ContentH,
    MinimizedW,     \* width of a minimized window
    Corner,         \* "a Click on top left"
    Step8,          \* windows stand at multiples of this
    Points,         \* where the mouse can be pressed, moved to and released
    MaxDoings       \* bound of the model: clicks, windows opened and closed, outputs

ASSUME PaintingAssumption ==
    /\ {ScreenW, ScreenH, WINBORDER, WINTITLEBAR, ContentW, ContentH, MinimizedW, Step8} \subseteq Nat \ {0}
    /\ WINBORDER % Step8 = 0
    /\ MinimizedW <= ContentW + 2 * WINBORDER
    /\ {Corner, MaxDoings} \subseteq Nat
    /\ Points \subseteq (0 .. ScreenW - 1) \X (0 .. ScreenH - 1)
    /\ "desktop" \notin Frames

VARIABLES
    stack,      \* the windows, front first
    placed,      \* of each window: its windowrect
    old,        \* of each window: oldrect, where it was when it was minimized
    content,    \* of each window: which of two texts it holds
    dirty,      \* windows with win->dirty set
    dirtylines, \* windows with vt.dirtylines set
    cliprect,   \* bb.cliprect
    pixels,     \* of each pixel: what was last drawn there
    drag,       \* the mouse button that is down
    doings,     \* how much has been done
    spoiled     \* history: pixels a hasty WindowMin left behind

paintvars == <<stack, placed, old, content, dirty, dirtylines, cliprect, pixels, drag, doings, spoiled>>

Rect == [x : Int, y : Int, w : Int, h : Int]
RectOf(x, y, w, h) == [x |-> x, y |-> y, w |-> w, h |-> h]
Pixel == (0 .. ScreenW - 1) \X (0 .. ScreenH - 1)
screenrect == RectOf(0, 0, ScreenW, ScreenH)

Lesser(a, b) == IF a < b THEN a ELSE b
Greater(a, b) == IF a < b THEN b ELSE a

\* The pixels SDL draws for a rectangle.
Pixels(r) == {p \in Pixel : p[1] \in r.x .. r.x + r.w - 1 /\ p[2] \in r.y .. r.y + r.h - 1}

-----------------------------------------------------------------------------

RectIntersect(r, s) ==
    LET x == Greater(r.x, s.x)
        y == Greater(r.y, s.y)
    IN  RectOf(x, y, Lesser(r.x + r.w, s.x + s.w) - x, Lesser(r.y + r.h, s.y + s.h) - y)

\* The parts of r outside s: left of it, above, right and below; each is cut
\* off before the next is looked for.
Left(r, s) == IF r.x < s.x THEN <<[r EXCEPT !.w = Lesser(r.w, s.x - r.x)]>> ELSE <<>>
RightOfLeft(r, s) == IF r.x < s.x THEN RectOf(s.x, r.y, r.w - (s.x - r.x), r.h) ELSE r
IsOpen(r) == r.w > 0 /\ r.h > 0
Above(r, s) == IF IsOpen(r) /\ r.y < s.y THEN <<[r EXCEPT !.h = Lesser(r.h, s.y - r.y)]>> ELSE <<>>
BelowTop(r, s) == IF IsOpen(r) /\ r.y < s.y THEN RectOf(r.x, s.y, r.w, r.h - (s.y - r.y)) ELSE r
Right(r, s) ==
    LET x == Greater(r.x, s.x + s.w)
    IN  IF IsOpen(r) /\ r.x + r.w > s.x + s.w
        THEN <<RectOf(x, r.y, r.x + r.w - x, r.h)>> ELSE <<>>
LeftOfRight(r, s) ==
    IF IsOpen(r) /\ r.x + r.w > s.x + s.w THEN [r EXCEPT !.w = s.x + s.w - r.x] ELSE r
Below(r, s) ==
    LET y == Greater(r.y, s.y + s.h)
    IN  IF IsOpen(r) /\ r.y + r.h > s.y + s.h
        THEN <<RectOf(r.x, y, r.w, r.y + r.h - y)>> ELSE <<>>

RectAreasOutside(r, s) ==
    LET r1 == RightOfLeft(r, s)
        r2 == BelowTop(r1, s)
        r3 == LeftOfRight(r2, s)
    IN  Left(r, s) \o Above(r1, s) \o Right(r2, s) \o Below(r3, s)

RectContainsPoint(r, p) ==
    p[1] > r.x /\ p[1] < r.x + r.w /\ p[2] > r.y /\ p[2] < r.y + r.h

-----------------------------------------------------------------------------

\* Where a window is: the rectangles of its frame and of its text.
Minimized(r) == r.h = WINTITLEBAR
ContentRect(r) ==
    RectOf(r.x + WINBORDER, r.y + WINTITLEBAR, ContentW,
           IF Minimized(r) THEN 0 ELSE r.h - WINTITLEBAR - WINBORDER)

\* "byte boundary for faster blit?"
Aligned(x) == x - (x % Step8)

\* WindowCreate at p: the text begins there.
CreatedAt(p) ==
    RectOf(Aligned(p[1]) - WINBORDER, p[2] - WINTITLEBAR,
           ContentW + 2 * WINBORDER, ContentH + WINTITLEBAR + WINBORDER)

\* What can be drawn on a pixel, and by whom.
Texts == {"text0", "text1"}
Shades == {"frame", "copy", "blank", "grey"} \cup Texts
Desktop == "desktop"
Grey == <<Desktop, "grey">>

Painters == Frames \cup {Desktop}
Stroke == [by : Painters, at : Rect]

SetClip(r) == RectIntersect(r, screenrect)

\* The strokes of Paint(win, r), when f gives those of Paint(win->next, ...):
\* what lies outside the window is left to those behind it; then the window
\* draws itself.
Split(f, win, at, r) ==
    LET areas == RectAreasOutside(r, at)
        behind[i \in 0 .. Len(areas)] == IF i = 0 THEN <<>> ELSE behind[i - 1] \o f[areas[i]]
        overlap == RectIntersect(r, at)
    IN  behind[Len(areas)] \o IF IsOpen(overlap) THEN <<[by |-> win, at |-> overlap]>> ELSE <<>>

\* The calls of Paint(stack[first], rect), in order: who draws, and where.
\* Behind the last window is the desktop.
Strokes(st, first, rect) ==
    LET last == Len(st.stack)
        strokes[n \in 0 .. last] ==
            IF n = 0 THEN [r \in Rect |-> <<[by |-> Desktop, at |-> r]>>]
            ELSE [r \in Rect |-> Split(strokes[n - 1], st.stack[last + 1 - n], st.place[st.stack[last + 1 - n]], r)]
    IN  strokes[last + 1 - first][rect]

\* What WindowRender(win, how) draws inside clip.  Forced it draws all; while
\* the mouse drags the top window the texts are left out.
Render(st, picture, win, clip, how) ==
    LET frame == how # "dirty" \/ win \in st.dirty
        text == how # "dirty" \/ win \in st.dirtylines
        shade == IF how # "dragged" THEN st.content[win]
                 ELSE IF win = st.stack[1] /\ st.cache THEN "copy" ELSE "blank"
        inside == Pixels(clip) \cap Pixels(st.place[win])
        lines == Pixels(ContentRect(st.place[win]))
    IN  [p \in Pixel |->
            IF p \in inside \cap lines /\ text THEN <<win, shade>>
            ELSE IF p \in inside \ lines /\ frame THEN <<win, "frame">>
            ELSE picture[p]]

Draw(st, picture, stroke, how) ==
    IF stroke.by = Desktop
    THEN [p \in Pixel |-> IF p \in Pixels(stroke.at) \cap Pixels(st.clip) THEN Grey ELSE picture[p]]
    ELSE Render(st, picture, stroke.by, SetClip(stroke.at), how)

\* "this is now clean", says a forced WindowRender, whatever its clip was.
Paint(st, first, rect, how) ==
    LET strokes == Strokes(st, first, rect)
        drawn == [s \in Seq(Stroke) |->
                    LET after[i \in 0 .. Len(s)] == IF i = 0 THEN st.screen ELSE Draw(st, after[i - 1], s[i], how)
                    IN  after[Len(s)]]
        met == {strokes[i].by : i \in DOMAIN strokes}
    IN  [st EXCEPT
            !.screen = drawn[strokes],
            !.dirty = IF how = "forced" THEN @ \ met ELSE @,
            !.dirtylines = IF how = "forced" THEN @ \ met ELSE @]

-----------------------------------------------------------------------------

\* The state as a record: the operations below take one and give one.
Now == [stack |-> stack, place |-> placed, old |-> old, content |-> content,
        dirty |-> dirty, dirtylines |-> dirtylines, clip |-> cliprect,
        screen |-> pixels, cache |-> drag.cache, spoiled |-> spoiled]

SetNow(st) ==
    /\ stack' = st.stack
    /\ placed' = st.place
    /\ old' = st.old
    /\ content' = st.content
    /\ dirty' = st.dirty
    /\ dirtylines' = st.dirtylines
    /\ cliprect' = st.clip
    /\ pixels' = st.screen
    /\ spoiled' = st.spoiled

Top(st) == st.stack[1]
\* The chain without one of its windows.
Without(s, win) ==
    LET i == CHOOSE i \in DOMAIN s : s[i] = win
    IN  SubSeq(s, 1, i - 1) \o SubSeq(s, i + 1, Len(s))
Clipped(st, r) == [st EXCEPT !.clip = SetClip(r)]
Marked(st, win) == [st EXCEPT !.dirty = @ \cup {win}, !.dirtylines = @ \cup {win}]

\* WindowTop: a window that was not in front has to be drawn anew.
WindowTop(st, win) ==
    Clipped(IF win = Top(st) THEN st
            ELSE Marked([st EXCEPT !.stack = <<win>> \o Without(@, win)], win),
            st.place[win])

WindowCreate(st, win, p) ==
    LET made == [st EXCEPT !.stack = <<win>> \o @, !.place[win] = CreatedAt(p), !.old[win] = CreatedAt(p)]
    IN  WindowTop(Marked(made, win), win)

\* WindowMove(wintopmost, x, y): whether it moves, and the state after.
Moves(st, x, y) == Aligned(x) # st.place[Top(st)].x \/ y # st.place[Top(st)].y
WindowMove(st, x, y) ==
    LET win == Top(st)
        clipped == Clipped(st, st.place[win])
    IN  IF ~Moves(st, x, y) THEN clipped
        ELSE Marked([clipped EXCEPT !.place[win] = RectOf(Aligned(x), y, @.w, @.h)], win)

\* Minimizing leaves what the window covered to a repaint of oldrect; the
\* desktop there is drawn inside the clip only.
WindowMin(st) ==
    LET win == Top(st)
        r == st.place[win]
        small == RectOf(r.x, r.y, MinimizedW, WINTITLEBAR)
        full == RectOf(r.x, r.y, st.old[win].w, st.old[win].h)
    IN  IF Minimized(r)
        THEN Paint([st EXCEPT !.place[win] = full], 1, st.old[win], "forced")
        ELSE Paint([st EXCEPT !.place[win] = small, !.old[win] = r,
                              !.spoiled = @ \cup (Pixels(r) \ Pixels(st.clip))], 1, r, "forced")

\* WindowDestroy: the area is repainted at once.  A window that has output not
\* yet drawn is called clean by that, though only its share of the area is.
WindowDestroy_Unclipped(st, win) ==
    LET rest == [st EXCEPT !.stack = Without(@, win),
                           !.dirty = @ \ {win}, !.dirtylines = @ \ {win}]
    IN  Paint(IF rest.stack = <<>> THEN rest ELSE WindowTop(rest, Top(rest)), 1, st.place[win], "forced")
WindowDestroy(st, win) ==
    LET rest == [st EXCEPT !.stack = Without(@, win),
                           !.dirty = @ \ {win}, !.dirtylines = @ \ {win}]
        painted == Paint(Clipped(IF rest.stack = <<>> THEN rest ELSE WindowTop(rest, Top(rest)), st.place[win]),
                         1, st.place[win], "forced")
        missed == UNION {Pixels(st.place[w]) : w \in rest.dirtylines \ painted.dirtylines}
    IN  [painted EXCEPT !.spoiled = @ \cup (missed \ Pixels(st.place[win]))]

\* "repaint any dirty windows", front to back.
RepaintOne(st, win) ==
    IF win \in st.dirty
    THEN [Paint(Clipped(st, st.place[win]), 1, st.place[win], "dirty")
            EXCEPT !.dirty = @ \ {win}, !.dirtylines = @ \ {win}]
    ELSE IF win \in st.dirtylines
    THEN [Paint(Clipped(st, ContentRect(st.place[win])), 1, ContentRect(st.place[win]), "dirty")
            EXCEPT !.dirtylines = @ \ {win}]
    ELSE st

RepaintDirty(st) ==
    LET repainted[n \in 0 .. Len(st.stack)] == IF n = 0 THEN st ELSE RepaintOne(repainted[n - 1], st.stack[n])
    IN  repainted[Len(st.stack)]

-----------------------------------------------------------------------------

NoDrag == [on |-> FALSE, x |-> 0, y |-> 0, frame |-> FALSE, cache |-> FALSE, moved |-> FALSE]

PaintingInit ==
    /\ stack = <<>>
    /\ placed = [w \in Frames |-> RectOf(0, 0, 0, 0)]
    /\ old = placed
    /\ content = [w \in Frames |-> "text0"]
    /\ dirty = {}
    /\ dirtylines = {}
    /\ cliprect = screenrect
    /\ pixels = [p \in Pixel |-> Grey]
    /\ drag = NoDrag
    /\ doings = 0
    /\ spoiled = {}

Another == doings < MaxDoings /\ doings' = doings + 1

\* A program writes: its lines are drawn by the repaint at the end of the loop.
WriteLine(win) ==
    /\ ~drag.on
    /\ win \in Range(stack)
    /\ win \notin dirtylines
    /\ Another
    /\ content' = [content EXCEPT ![win] = IF @ = "text0" THEN "text1" ELSE "text0"]
    /\ dirtylines' = dirtylines \cup {win}
    /\ UNCHANGED <<stack, placed, old, dirty, cliprect, pixels, drag, spoiled>>

\* The loop comes to its end without the mouse: dirty windows are repainted.
RepaintDamage ==
    /\ ~drag.on
    /\ dirty \cup dirtylines # {}
    /\ SetNow(RepaintDirty(Now))
    /\ UNCHANGED <<drag, doings>>

\* The right button, or "Window" of the menu; the loop then ends as above.
Open(win, p) ==
    /\ ~drag.on
    /\ win \notin Range(stack)
    /\ Another
    /\ SetNow(RepaintDirty(WindowCreate(Now, win, p)))
    /\ UNCHANGED drag

\* A window's process ended.
Close(win) ==
    /\ ~drag.on
    /\ win \in Range(stack)
    /\ Another
    /\ SetNow(WindowDestroy(Now, win))
    /\ UNCHANGED drag

\* "Refresh" of the menu.
Refresh ==
    /\ ~drag.on
    /\ stack # <<>>
    /\ SetNow(RepaintDirty([Paint([Now EXCEPT !.clip = screenrect], 1, screenrect, "forced")
                               EXCEPT !.spoiled = {}]))
    /\ UNCHANGED <<drag, doings>>

\* The left button goes down over the first window that contains p; a picture
\* of its text is kept while it is dragged, if there is memory for it.
Press(p) ==
    LET under == {i \in DOMAIN stack : RectContainsPoint(placed[stack[i]], p)}
        win == stack[CHOOSE i \in under : \A j \in under : i <= j]
        text == ContentRect(placed[win])
    IN  /\ ~drag.on
        /\ under # {}
        /\ Another
        /\ \E cache \in BOOLEAN :
            /\ cache => text.h # 0
            /\ LET topped == WindowTop(Now, win)
               IN  SetNow(IF cache THEN Clipped(topped, RectOf(0, 0, text.w, text.h)) ELSE topped)
            /\ drag' = [on |-> TRUE, x |-> p[1] - placed[win].x, y |-> p[2] - placed[win].y,
                        frame |-> ~RectContainsPoint(text, p), cache |-> cache, moved |-> FALSE]

\* "repaint only difference of old and new": those behind the window paint
\* what it has left.
LeftBehind(st, areas) ==
    LET uncovered[i \in 0 .. Len(areas)] ==
            IF i = 0 THEN st ELSE Paint(uncovered[i - 1], 2, areas[i], "dragged")
    IN  uncovered[Len(areas)]

\* "track drag of window frame": then the window is drawn in its new place.
Drag(p) ==
    LET st == WindowMove(Now, p[1] - drag.x, p[2] - drag.y)
        left == RectAreasOutside(placed[stack[1]], st.place[stack[1]])
        clipped == Clipped(LeftBehind(st, left), st.place[stack[1]])
    IN  /\ drag.on
        /\ drag.frame
        /\ IF Moves(Now, p[1] - drag.x, p[2] - drag.y)
           THEN /\ SetNow([clipped EXCEPT
                        !.screen = Render(clipped, @, stack[1], clipped.clip, "dragged")])
                /\ drag' = [drag EXCEPT !.moved = TRUE]
                /\ UNCHANGED doings
           ELSE /\ SetNow(st)
                /\ UNCHANGED <<drag, doings>>

\* The button is up: "was it a Click on top left?", "repaint everything" and
\* the end of the loop.
Release ==
    LET st == IF drag.x < Corner /\ drag.y < Corner THEN WindowMin(Now) ELSE Now
        all == Paint(st, 1, screenrect, "forced")
    IN  /\ drag.on
        /\ SetNow(RepaintDirty(all))
        /\ drag' = NoDrag
        /\ UNCHANGED doings

PaintingNext ==
    \/ \E win \in Frames : WriteLine(win) \/ Close(win)
    \/ RepaintDamage
    \/ \E win \in Frames, p \in Points : Open(win, p)
    \/ Refresh
    \/ \E p \in Points : Press(p) \/ Drag(p)
    \/ Release

PaintingSpec == PaintingInit /\ [][PaintingNext]_paintvars

-----------------------------------------------------------------------------

PaintingTypeOK ==
    /\ stack \in Seq(Frames) /\ \A i, j \in DOMAIN stack : stack[i] = stack[j] => i = j
    /\ placed \in [Frames -> Rect] /\ old \in [Frames -> Rect]
    /\ content \in [Frames -> Texts]
    /\ dirty \subseteq Range(stack) /\ dirtylines \subseteq Range(stack)
    /\ cliprect \in Rect
    /\ pixels \in [Pixel -> Painters \X Shades]
    /\ drag \in [on : BOOLEAN, x : Int, y : Int, frame : BOOLEAN, cache : BOOLEAN, moved : BOOLEAN]
    /\ doings \in 0 .. MaxDoings
    /\ spoiled \subseteq Pixel

\* The window in front at a pixel.
InFront(p) ==
    LET over == {i \in DOMAIN stack : p \in Pixels(placed[stack[i]])}
    IN  IF over = {} THEN Desktop ELSE stack[CHOOSE i \in over : \A j \in over : i <= j]

\* What ought to be seen there.
Truth(p) ==
    LET win == InFront(p)
    IN  IF win = Desktop THEN Grey
        ELSE IF p \in Pixels(ContentRect(placed[win])) THEN <<win, content[win]>> ELSE <<win, "frame">>

\* Between two rounds of the main loop every pixel shows what is in front
\* there - the desktop, the frame of a window, the text it holds - except
\* where a window still waits for its repaint, and where a hasty click on the
\* corner or the end of a window while another waits has left something
\* behind (see the README).
ScreenIsRight ==
    ~drag.on => \A p \in Pixel \ spoiled : InFront(p) \in dirty \cup dirtylines \/ pixels[p] = Truth(p)

\* While a window is dragged, each pixel belongs to what is in front: repainting
\* "only difference of old and new" neither leaves a trail nor draws over a
\* window that stands in front.
DragLeavesNoTrail ==
    drag.on /\ drag.moved =>
        \A p \in Pixel \ spoiled : pixels[p][1] = InFront(p)

\* What is seen is what the stack of windows says, drag or no drag.
WindowsAreRight == PaintingTypeOK /\ ScreenIsRight /\ DragLeavesNoTrail

=============================================================================
