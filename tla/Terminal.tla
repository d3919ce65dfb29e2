------------------------------ MODULE Terminal ------------------------------
(***************************************************************************)
(* The terminal in a window: a buffer of characters that the program in    *)
(* the window writes to through VToutput, and the screen, which follows by *)
(* two ways: lines that are moved or cleared are moved or cleared on the   *)
(* screen at once, and what is written marks its line dirty, to be drawn   *)
(* up to the line's length at the next turn of the main loop.  A control   *)
(* sequence is one symbol; programs keep the cursor on the screen and      *)
(* delete no more lines than there are.  The window has as many lines as   *)
(* the buffer (32), as all but the console have.                           *)
(***************************************************************************)
EXTENDS Integers, FiniteSets

CONSTANTS
    Rows, Cols,     \* size of the window
    Glyphs,         \* printable characters with their style
    MaxOutputs      \* how many symbols the program writes (a bound)

ASSUME TerminalAssumption == Rows \in Nat \ {0, 1} /\ Cols \in Nat \ {0}

Row == 0 .. Rows - 1
Col == 0 .. Cols - 1
Blank == "blank"

VARIABLES
    vt,         \* VTemu
    screen,     \* what the content rectangle shows
    outputs,    \* symbols written so far
    torn        \* history: lines drawn while their length was less than their text (VTclearlines
                \* and CSI S, T, L, M leave such lengths), or cleared and not marked (CSI 1J)

terminalVars == <<vt, screen, outputs, torn>>

Cleared == [r \in Row |-> [c \in Col |-> Blank]]

\* VTreset, but for the fields that only the mouse and the keys look at.
VTreset(v) ==
    [v EXCEPT !.cx = 0, !.cy = 0, !.sx = 0, !.sy = 0, !.wrapping = FALSE,
              !.margintop = 0, !.marginbot = Rows - 1,
              !.buffer = Cleared, !.dirty = Row, !.length = [r \in Row |-> 0]]

TerminalInit ==
    /\ vt = VTreset([cx |-> 0, cy |-> 0, sx |-> 0, sy |-> 0, wrapping |-> FALSE, margintop |-> 0,
                     marginbot |-> 0, buffer |-> Cleared, dirty |-> {}, length |-> [r \in Row |-> 0]])
    /\ screen = Cleared
    /\ outputs = 0 /\ torn = {}

-----------------------------------------------------------------------------
\* Drawing.  The window is the front one; s is a state of the terminal and of
\* the screen, so that what one control sequence does can be composed.

\* There is text behind what counts as the end of the line.
Short(s, r) ==
    \E c \in Col : c > s.vt.length[r] /\ {s.vt.buffer[r][c], s.screen[r][c]} # {Blank}

\* WindowRender without force: the dirty lines, up to their lengths; when all
\* are dirty the content is cleared first.
Rendered(s) ==
    [s EXCEPT !.torn = (@ \ s.vt.dirty) \cup {r \in s.vt.dirty : Short(s, r)},
             !.screen = [r \in Row |-> [c \in Col |->
        IF r \in s.vt.dirty /\ c <= s.vt.length[r] THEN s.vt.buffer[r][c]
        ELSE IF s.vt.dirty = Row THEN Blank ELSE @[r][c]]]]

\* Lines moved as in `src to dst'; the others stay.
Shifted(f, dst, src, n) == [r \in Row |-> IF r \in dst .. dst + n - 1 THEN f[src + r - dst] ELSE f[r]]

\* A line that is moved without being drawn first.
movedisplaylines_Unflushed(s, dst, src, n) == [s EXCEPT !.screen = Shifted(@, dst, src, n)]

\* What is dirty is drawn before the pixels are moved.
movedisplaylines(s, dst, src, n) == [Rendered(s) EXCEPT !.screen = Shifted(@, dst, src, n)]

\* The lines that a move leaves behind.
Uncovered(dst, src, n) == IF dst < src THEN dst + n .. src + n - 1 ELSE src .. dst - 1

VTmovelines(s, dst, src, n) ==
    LET moved == movedisplaylines(s, dst, src, n)
        behind == Uncovered(dst, src, n)
    IN  IF dst < 0 \/ dst + n > Rows THEN s
        ELSE [moved EXCEPT
                !.vt.buffer = Shifted(@, dst, src, n),
                !.vt.dirty = (@ \ (dst .. dst + n - 1)) \cup behind,
                !.vt.length = [r \in Row |-> IF r \in behind THEN 0 ELSE Shifted(@, dst, src, n)[r]],
                !.torn = {r \in Row : Shifted([q \in Row |-> q \in @], dst, src, n)[r]}]

\* The lengths that are reset are those of the first n lines.
VTclearlines(s, dst, n) ==
    LET lines == dst .. dst + n - 1
    IN  IF dst < 0 \/ dst + n > Rows THEN s
        ELSE [s EXCEPT
                !.screen = [r \in Row |-> IF r \in lines THEN Cleared[r] ELSE @[r]],
                !.vt.buffer = [r \in Row |-> IF r \in lines THEN Cleared[r] ELSE @[r]],
                !.vt.dirty = @ \ lines,
                !.vt.length = [r \in Row |-> IF r < n THEN 0 ELSE @[r]],
                !.torn = @ \ lines]

\* Only the lines between the margins scroll.
VTnewline(s) ==
    LET v == s.vt
        down == [s EXCEPT !.vt.cx = 0, !.vt.cy = @ + 1, !.vt.dirty = @ \cup {v.cy}]
        scrolled == VTclearlines(VTmovelines([down EXCEPT !.vt.cy = v.cy], v.margintop, v.margintop + 1,
                                             v.marginbot - v.margintop), v.cy, 1)
        after == IF v.cy + 1 > v.marginbot THEN scrolled ELSE down
    IN  [after EXCEPT !.vt.dirty = @ \cup {after.vt.cy}]

-----------------------------------------------------------------------------
\* What VToutput does for one symbol.

PutCell(v, g) ==
    [v EXCEPT !.buffer[v.cy][v.cx] = g, !.dirty = @ \cup {v.cy},
              !.length[v.cy] = IF v.cx > @ THEN v.cx ELSE @]

Put(s, g) ==
    LET marked == IF s.vt.cx < Cols THEN PutCell(s.vt, g) ELSE s.vt
        put == [s EXCEPT !.vt = [marked EXCEPT !.cx = @ + 1]]
    IN  IF s.vt.wrapping /\ put.vt.cx >= Cols THEN VTnewline(put) ELSE put

Backspace(s) == [s EXCEPT !.vt.cx = IF @ > 0 THEN @ - 1 ELSE @, !.vt.dirty = @ \cup {s.vt.cy}]

CarriageReturn(s) == [s EXCEPT !.vt.cx = 0]

\* CSI A to H, G, d, f, I, Z and tabs: wherever the cursor is sent.
CursorTo(s, x, y) == [s EXCEPT !.vt.cx = x, !.vt.cy = y]

\* The cells from (x1, y) on in reading order, up to and without the cell at x2, y2.
Erased(f, x1, y1, x2, y2) ==
    [r \in Row |-> [c \in Col |->
        IF (r > y1 \/ (r = y1 /\ c >= x1)) /\ (r < y2 \/ (r = y2 /\ c < x2)) THEN Blank ELSE f[r][c]]]

\* CSI J and ESC J: to the end of the screen.
EraseBelow(s) ==
    [s EXCEPT !.vt.buffer = Erased(@, s.vt.cx, s.vt.cy, 0, Rows),
              !.vt.dirty = @ \cup (s.vt.cy .. Rows - 1),
              !.vt.length = [r \in Row |-> IF r >= s.vt.cy THEN Cols - 1 ELSE @[r]]]

\* CSI 1J marks the cursor's line alone.
EraseAbove(s) ==
    [s EXCEPT !.vt.buffer = Erased(@, 0, 0, s.vt.cx, s.vt.cy),
              !.vt.dirty = @ \cup {s.vt.cy},
              !.torn = @ \cup 0 .. s.vt.cy - 1]

\* CSI K and ESC K, CSI 1K.
EraseRight(s) ==
    [s EXCEPT !.vt.buffer = Erased(@, s.vt.cx, s.vt.cy, Cols, s.vt.cy),
              !.vt.dirty = @ \cup {s.vt.cy},
              !.vt.length[s.vt.cy] = Cols - 1]
EraseLeft(s) ==
    [s EXCEPT !.vt.buffer = Erased(@, 0, s.vt.cy, s.vt.cx, s.vt.cy), !.vt.dirty = @ \cup {s.vt.cy}]

\* CSI 2K and 3K, CSI 2J, CSI ?47 and ?1049.
EraseLine(s) == VTclearlines(s, s.vt.cy, 1)
EraseAll(s) == VTclearlines(s, 0, Rows)
OtherScreen(s) == CursorTo(EraseAll(s), 0, 0)

\* CSI L, M, S and T with a count; CSI P.
InsertLines(s, i) == VTclearlines(VTmovelines(s, s.vt.cy + i, s.vt.cy, i), s.vt.cy, i)
DeleteLines(s, i) == VTclearlines(VTmovelines(s, s.vt.cy, s.vt.cy + i, i), s.vt.cy + i, Rows - s.vt.cy - i)
ScrollUp(s, i) == VTclearlines(VTmovelines(s, 0, i, i), Rows - i, i)
ScrollDown(s, i) == VTclearlines(VTmovelines(s, i, 0, i), 0, i)
DeleteChars(s, i) ==
    [s EXCEPT !.vt.buffer[s.vt.cy] = [c \in Col |-> IF c >= s.vt.cx /\ c + i < Cols THEN @[c + i] ELSE @[c]],
              !.vt.dirty = @ \cup {s.vt.cy}]

\* CSI r, and CSI ?1l, which is used to reset the margins.
SetMargins(s, a, b) == CursorTo([s EXCEPT !.vt.margintop = a, !.vt.marginbot = b], 0, 0)
ResetMargins(s) == [s EXCEPT !.vt.margintop = 0, !.vt.marginbot = Rows - 1]

\* ESC D and M scroll between the margins; ESC E; ESC 7 and 8; ESC c.
Index(s) ==
    LET v == s.vt IN VTclearlines(VTmovelines(s, v.margintop, v.margintop + 1, v.marginbot - v.margintop), v.marginbot, 1)
ReverseIndex(s) ==
    LET v == s.vt IN VTclearlines(VTmovelines(s, v.margintop + 1, v.margintop, v.marginbot - v.margintop), v.margintop, 1)
NextLine(s) == [s EXCEPT !.vt.cy = @ + 1]
SaveCursor(s) == [s EXCEPT !.vt.sx = s.vt.cx, !.vt.sy = s.vt.cy]
RestoreCursor(s) == CursorTo(s, s.vt.sx, s.vt.sy)
Wrap(s, on) == [s EXCEPT !.vt.wrapping = on]

\* A form feed: a new line for each row below the cursor, without margins.
FormFeed(s) ==
    LET feed[i \in 0 .. Rows] == IF i = 0 THEN ResetMargins(s) ELSE VTnewline(feed[i - 1])
    IN  feed[Rows - s.vt.cy]

\* Everything a symbol may make of s.
Outcomes(s) ==
    {Put(s, g) : g \in Glyphs}
    \cup {VTnewline(s), CarriageReturn(s), Backspace(s), FormFeed(s)}
    \cup {CursorTo(s, x, y) : x \in Col, y \in Row}
    \cup {EraseBelow(s), EraseAbove(s), EraseRight(s), EraseLeft(s), EraseLine(s), OtherScreen(s)}
    \cup {InsertLines(s, i) : i \in 1 .. Rows - 1 - s.vt.cy} \cup {DeleteLines(s, i) : i \in 1 .. (Rows - s.vt.cy) \div 2}
    \cup {ScrollUp(s, i) : i \in 1 .. Rows \div 2} \cup {ScrollDown(s, i) : i \in 1 .. Rows \div 2}
    \cup {DeleteChars(s, i) : i \in 1 .. Cols - 1}
    \cup {SetMargins(s, a, b) : a \in {0, 1}, b \in {Rows - 2, Rows - 1}} \cup {ResetMargins(s)}
    \cup {Index(s), ReverseIndex(s), NextLine(s), SaveCursor(s), RestoreCursor(s)}
    \cup {Wrap(s, on) : on \in BOOLEAN} \cup {[s EXCEPT !.vt = VTreset(@)]}

\* VToutput, a symbol at a time.
Output ==
    /\ outputs < MaxOutputs
    /\ \E s \in Outcomes([vt |-> vt, screen |-> screen, torn |-> torn]) :
          /\ s.vt.cx \in 0 .. Cols /\ s.vt.cy \in Row /\ s.vt.margintop < s.vt.marginbot
          /\ vt' = s.vt /\ screen' = s.screen /\ torn' = s.torn
    /\ outputs' = outputs + 1

\* The main loop draws what is dirty.
Repaint ==
    /\ vt.dirty # {}
    /\ LET s == Rendered([vt |-> vt, screen |-> screen, torn |-> torn])
       IN  screen' = s.screen /\ torn' = s.torn
    /\ vt' = [vt EXCEPT !.dirty = {}]
    /\ UNCHANGED outputs

TerminalNext == Output \/ Repaint

TerminalSpec == TerminalInit /\ [][TerminalNext]_terminalVars

-----------------------------------------------------------------------------

\* Every line of the front window that is not dirty shows what the buffer holds,
\* whatever was written, scrolled, cleared and drawn before - unless it was drawn
\* when its length was too short, or cleared and not marked.
ScreenIsTrue ==
    \A r \in Row \ (torn \cup vt.dirty) : screen[r] = vt.buffer[r]

=============================================================================
