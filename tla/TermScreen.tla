----------------------------- MODULE TermScreen -----------------------------
(***************************************************************************)
(* The cursor and the screen of the terminal engine (terminal.c) over the  *)
(* cells of framebuf.c, one action for each command of the VT102, with the *)
(* visual bell that the frame tick ends (display_tick.c).  Of the cells    *)
(* one is followed, the mark, wherever scrolling, inserting and deleting   *)
(* take it: where it is, and whether it is shown inverted.                 *)
(***************************************************************************)
EXTENDS Integers

CONSTANTS
  NRows, NCols,  \* TEXT_ROWS, TEXT_COLS
  FlashFrames,   \* config_get_visual_bell_duration
  Param,         \* values of a parameter, which has eight bits
  Repertoires    \* bound: what an application uses, one set for each case

ASSUME TermScreenAssumption ==
  /\ NRows \in 1 .. 255 /\ NCols \in 1 .. 255
  /\ FlashFrames \in Nat \ {0}
  /\ Param \subseteq 0 .. 255
  /\ Repertoires \subseteq SUBSET {"saves", "cells"}

VARIABLES
  cursor,      \* cursor_row, cursor_col, cursor_eol
  region,      \* scroll_region_start and scroll_region_end
  origin, wrap, insert,   \* origin_mode, auto_wrap_mode, insert_mode
  saved,       \* saved_row, saved_col, saved_eol, saved_origin_mode
  inverted,    \* screen_inverted
  flash,       \* flash_frames
  mark,        \* the cell that is followed
  stale,       \* history: terminal_reset came after the save
  strayed,     \* history: a restore set cursor_eol and not the cursor
  repertoire

modes == <<origin, wrap, insert>>
screen == <<mark, inverted, flash>>
history == <<stale, strayed, repertoire>>
vars == <<cursor, region, modes, saved, screen, history>>

Row == 0 .. NRows - 1
Col == 0 .. NCols - 1
Whole == [top |-> 0, bottom |-> NRows - 1]
Home == [row |-> 0, col |-> 0, eol |-> FALSE]
Lost == [there |-> FALSE, row |-> 0, col |-> 0, inv |-> FALSE, disturbed |-> FALSE]

Init ==
  /\ cursor = Home /\ region = Whole
  /\ origin = FALSE /\ wrap = TRUE /\ insert = FALSE
  /\ saved = [row |-> 0, col |-> 0, eol |-> FALSE, origin |-> FALSE]
  /\ inverted = FALSE /\ flash = 0
  /\ stale = FALSE /\ strayed = FALSE
  /\ repertoire \in Repertoires
  /\ IF "cells" \in repertoire
     THEN \E r \in Row, c \in Col : mark = [Lost EXCEPT !.there = TRUE, !.row = r, !.col = c]
     ELSE mark = Lost

-----------------------------------------------------------------------------
(* framebuf.c, on the mark *)

\* The attribute of a cell that is written is not inverted, and the end of
\* the flash, or of the inversion, will be the wrong way round.
Written(m) == [m EXCEPT !.inv = FALSE, !.disturbed = inverted \/ flash > 0]

\* framebuf_fill_region: columns c1 to c2 of each of the rows r1 to r2.
Filled(m, c1, r1, c2, r2) ==
  IF m.there /\ m.row \in r1 .. r2 /\ m.col \in c1 .. c2 THEN Written(m) ELSE m

\* framebuf_scroll_region: up if n is positive.
Scrolled(m, top, bottom, n) ==
  IF ~m.there \/ m.row \notin top .. bottom THEN m
  ELSE IF m.row - n \in top .. bottom THEN [m EXCEPT !.row = @ - n] ELSE Lost

\* framebuf_insert and framebuf_delete.
Inserted(m, at, n) ==
  IF ~m.there \/ m.row # at.row \/ m.col < at.col THEN m
  ELSE IF m.col + n < NCols THEN [m EXCEPT !.col = @ + n] ELSE Lost

Deleted(m, at, n) ==
  IF ~m.there \/ m.row # at.row \/ m.col < at.col THEN m
  ELSE IF m.col >= at.col + n THEN [m EXCEPT !.col = @ - n] ELSE Lost

\* framebuf_scroll_region takes the number of rows as an int8_t.
Int8(n) == ((n + 128) % 256) - 128

-----------------------------------------------------------------------------
(* The four ways to move the cursor *)

Clamp(x, low, high) == IF x < low THEN low ELSE IF x > high THEN high ELSE x
InRegion == cursor.row \in region.top .. region.bottom
Here(row, col) == row = cursor.row /\ col = cursor.col

\* Mutants: the column is not looked at; a pending wrap stays pending.
MovedWithinRows(row, col, top, bottom) ==
  IF Here(row, col) THEN cursor
  ELSE [row |-> Clamp(row, top, bottom), col |-> col, eol |-> FALSE]

MovedWithinStillPending(row, col, top, bottom) ==
  IF Here(row, col) THEN cursor
  ELSE [cursor EXCEPT !.row = Clamp(row, top, bottom), !.col = Clamp(col, 0, NCols - 1)]

\* move_cursor_within_region
MovedWithin(row, col, top, bottom) ==
  IF Here(row, col) THEN cursor
  ELSE [row |-> Clamp(row, top, bottom), col |-> Clamp(col, 0, NCols - 1), eol |-> FALSE]

\* move_cursor_limited
MovedLimited(row, col) ==
  IF InRegion THEN MovedWithin(row, col, region.top, region.bottom) ELSE cursor

\* init_cursor
Placed(row, col) ==
  [row |-> Clamp(row, 0, NRows - 1), col |-> Clamp(col, 0, NCols - 1), eol |-> FALSE]

\* The row that a move asks for, before anything scrolls.
WrappedRow(row, col) == IF col < 0 THEN row - 1 ELSE row

\* move_cursor_wrap: into the region, and what is beyond it scrolls in.
MovedWrap(row, col) ==
  LET r == WrappedRow(row, col)
      notAbove == IF r < region.top THEN region.top ELSE r
  IN  IF Here(row, col) THEN cursor
      ELSE [row |-> IF notAbove > region.bottom THEN region.bottom ELSE notAbove,
            col |-> IF col < 0 THEN col + NCols ELSE col,
            eol |-> FALSE]

\* Mutant: down to the last row of the screen.
MarkAfterWrapWholeScreen(row, col) ==
  LET r == WrappedRow(row, col)
  IN  IF Here(row, col) THEN mark
      ELSE Scrolled(mark, region.top, NRows - 1,
                    IF r < region.top THEN r - region.top
                    ELSE IF r > region.bottom THEN r - region.bottom ELSE 0)

MarkAfterWrap(row, col) ==
  LET r == WrappedRow(row, col)
  IN  IF Here(row, col) THEN mark
      ELSE Scrolled(mark, region.top, region.bottom,
                    IF r < region.top THEN r - region.top
                    ELSE IF r > region.bottom THEN r - region.bottom ELSE 0)

\* With origin mode the region is all there is.
TopLimit == IF origin THEN region.top ELSE 0
BottomLimit == IF origin THEN region.bottom ELSE NRows - 1
Count(p) == IF p = 0 THEN 1 ELSE p

-----------------------------------------------------------------------------
(* Text *)

\* print_char_vt
PrintChar ==
  LET at == IF cursor.eol THEN MovedWrap(cursor.row + 1, 0) ELSE cursor
      m == IF cursor.eol THEN MarkAfterWrap(cursor.row + 1, 0) ELSE mark
      shifted == IF insert THEN Inserted(m, at, 1) ELSE m
  IN
  /\ mark' = Filled(shifted, at.col, at.row, at.col, at.row)
  /\ cursor' = IF wrap /\ at.col = NCols - 1 THEN [at EXCEPT !.eol = TRUE]
               ELSE Placed(at.row, at.col + 1)
  /\ UNCHANGED <<region, modes, saved, inverted, flash, history>>

MoveWrap(row, col) ==
  /\ cursor' = MovedWrap(row, col)
  /\ mark' = MarkAfterWrap(row, col)
  /\ UNCHANGED <<region, modes, saved, inverted, flash, history>>

MoveTo(c) ==
  /\ cursor' = c
  /\ UNCHANGED <<region, modes, saved, screen, history>>

\* BS, with config_get_terminal_bs() = 1: nothing is erased.
Backspace ==
  IF cursor.row > TopLimit THEN MoveWrap(cursor.row, cursor.col - 1)
  ELSE MoveTo(MovedLimited(cursor.row, cursor.col - 1))

\* CR, LF (also VT and FF, and ESC D), ESC M, ESC E and ESC I.
CarriageReturn == MoveWrap(cursor.row, 0)
LineFeed == MoveWrap(cursor.row + 1, cursor.col)
ReverseLineFeed == MoveWrap(cursor.row - 1, cursor.col)
NextLine == MoveWrap(cursor.row + 1, 0)
PreviousLine == MoveWrap(cursor.row - 1, 0)

\* HT, CSI I and CSI Z: to some tab stop, or the end of the line.
Tab ==
  \/ \E col \in cursor.col + 1 .. NCols : 
       /\ col < NCols \/ cursor.col = NCols - 1
       /\ MoveTo(MovedLimited(cursor.row, col))
  \/ \E col \in -1 .. cursor.col - 1 :
       /\ col >= 0 \/ cursor.col = 0
       /\ MoveTo(MovedLimited(cursor.row, col))

Text == PrintChar \/ Backspace \/ CarriageReturn \/ LineFeed \/ ReverseLineFeed \/ NextLine
          \/ PreviousLine \/ Tab

-----------------------------------------------------------------------------
(* Cursor commands *)

\* CSI A to G, a, d, e, j, k and `.
Move(n) ==
  \/ \E col \in {0, cursor.col} : \/ MoveTo(MovedLimited(cursor.row - n, col))
                                  \/ MoveTo(MovedLimited(cursor.row + n, col))
  \/ MoveTo(MovedLimited(cursor.row, cursor.col + n))
  \/ MoveTo(MovedLimited(cursor.row, cursor.col - n))
  \/ MoveTo(MovedLimited(n - 1, cursor.col))
  \/ MoveTo(MovedLimited(cursor.row, n - 1))

\* CSI H, f
CursorTo(p1, p2) ==
  MoveTo(MovedWithin(TopLimit + Count(p1) - 1, Count(p2) - 1, TopLimit, BottomLimit))

\* CSI r: a start beyond the screen is not cut, an end is.
ScrollRegion(p1, p2) ==
  LET r == IF p2 > p1 THEN [top |-> Count(p1) - 1, bottom |-> Clamp(p2, 0, NRows) - 1]
           ELSE IF p1 = 0 THEN Whole ELSE region
  IN
  /\ region' = r
  /\ cursor' = MovedWithin(r.top, 0, r.top, r.bottom)
  /\ UNCHANGED <<modes, saved, screen, history>>

\* CSI s, ESC 7
Save ==
  /\ "saves" \in repertoire
  /\ saved' = [row |-> cursor.row, col |-> cursor.col, eol |-> cursor.eol, origin |-> origin]
  /\ stale' = FALSE
  /\ UNCHANGED <<cursor, region, modes, screen, strayed, repertoire>>

\* CSI u, ESC 8
Restore ==
  /\ "saves" \in repertoire
  /\ cursor' = [MovedLimited(saved.row, saved.col) EXCEPT !.eol = saved.eol]
  /\ origin' = saved.origin
  /\ strayed' = (strayed \/ stale \/ ~InRegion)
  /\ UNCHANGED <<region, wrap, insert, saved, screen, stale, repertoire>>

\* ESC c: neither the cursor nor saved_eol and saved_origin_mode.
Reset ==
  /\ saved' = [saved EXCEPT !.row = 0, !.col = 0]
  /\ stale' = TRUE
  /\ region' = Whole
  /\ origin' = FALSE /\ wrap' = TRUE /\ insert' = FALSE
  /\ cursor' = [cursor EXCEPT !.eol = FALSE]
  /\ UNCHANGED <<screen, strayed, repertoire>>

\* CSI ? 6
OriginMode(on) ==
  /\ origin' = on
  /\ cursor' = MovedLimited(region.top, 0)
  /\ UNCHANGED <<region, wrap, insert, saved, screen, history>>

\* CSI ? 7
AutoWrapMode(on) ==
  /\ wrap' = on
  /\ UNCHANGED <<cursor, region, origin, insert, saved, screen, history>>

-----------------------------------------------------------------------------
(* Commands on the cells *)

\* What the mark becomes, the rest being as it was.
Draw(m) ==
  /\ mark' = m
  /\ UNCHANGED <<cursor, region, modes, saved, inverted, flash, history>>

\* CSI 4
InsertMode(on) ==
  /\ insert' = on
  /\ UNCHANGED <<cursor, region, origin, wrap, saved, screen, history>>

\* CSI J and ESC J: a rectangle, in each case.
EraseDisplay ==
  \/ Draw(Filled(mark, cursor.col, cursor.row, NCols - 1, NRows - 1))
  \/ Draw(Filled(mark, 0, 0, cursor.col, cursor.row))
  \/ Draw(Filled(mark, 0, 0, NCols - 1, NRows - 1))

\* CSI K and ESC K
EraseLine ==
  \/ Draw(Filled(mark, cursor.col, cursor.row, NCols - 1, cursor.row))
  \/ Draw(Filled(mark, 0, cursor.row, cursor.col, cursor.row))
  \/ Draw(Filled(mark, 0, cursor.row, NCols - 1, cursor.row))

\* CSI ? 3: terminal_clear_screen
ClearScreen ==
  /\ mark' = Filled(mark, 0, 0, NCols - 1, NRows - 1)
  /\ cursor' = Placed(0, 0)
  /\ region' = Whole /\ origin' = FALSE
  /\ UNCHANGED <<wrap, insert, saved, inverted, flash, history>>

\* CSI L and CSI M
InsertLines(n) == Draw(Scrolled(mark, cursor.row, BottomLimit, Int8(-n)))
DeleteLines(n) == Draw(Scrolled(mark, cursor.row, BottomLimit, Int8(n)))

\* CSI @ and CSI P
InsertChars(n) == Draw(Inserted(mark, cursor, n))
DeleteChars(n) == Draw(Deleted(mark, cursor, n))

\* CSI S and CSI T: n - 1 rows, then n - 2, and so on, none of them wrapping.
ScrollUp(n) == n =< 128 /\ Draw(Scrolled(mark, TopLimit, BottomLimit, (n * (n - 1)) \div 2))
ScrollDown(n) == n =< 128 /\ Draw(Scrolled(mark, TopLimit, BottomLimit, -((n * (n - 1)) \div 2)))

\* ESC # 8
Align == Draw(Filled(mark, 0, TopLimit, NCols - 1, BottomLimit))

Turned(m, more) == IF m.there THEN [m EXCEPT !.inv = ~@, !.disturbed = @ \/ more] ELSE m

\* Mutant: inverted again though it is.
InvertScreenAgain(on) ==
  /\ inverted' = on
  /\ mark' = Turned(mark, FALSE)
  /\ UNCHANGED <<cursor, region, modes, saved, flash, history>>

\* CSI ? 5
InvertScreen(on) ==
  /\ inverted' = on
  /\ mark' = IF on = inverted THEN mark ELSE Turned(mark, FALSE)
  /\ UNCHANGED <<cursor, region, modes, saved, flash, history>>

\* BEL: a second one before the first has gone turns the cells back.
Bell ==
  /\ flash' = FlashFrames
  /\ mark' = Turned(mark, flash > 0)
  /\ UNCHANGED <<cursor, region, modes, saved, inverted, history>>

\* framebuf_task, once for each frame.
DisplayTick ==
  /\ flash > 0
  /\ flash' = flash - 1
  /\ mark' = IF flash = 1 THEN Turned(mark, FALSE) ELSE mark
  /\ UNCHANGED <<cursor, region, modes, saved, inverted, history>>

-----------------------------------------------------------------------------

CursorCommand ==
  \/ \E p \in Param : Move(Count(p))
  \/ \E p1, p2 \in Param : CursorTo(p1, p2) \/ ScrollRegion(p1, p2)
  \/ Save \/ Restore \/ Reset
  \/ \E on \in BOOLEAN : OriginMode(on) \/ AutoWrapMode(on)

CellCommand ==
  /\ "cells" \in repertoire
  /\ \/ \E on \in BOOLEAN : InsertMode(on) \/ InvertScreen(on)
     \/ EraseDisplay \/ EraseLine \/ ClearScreen \/ Align
     \/ \E p \in Param : \/ InsertLines(Count(p)) \/ DeleteLines(Count(p))
                         \/ InsertChars(Count(p)) \/ DeleteChars(Count(p))
                         \/ ScrollUp(Count(p)) \/ ScrollDown(Count(p))
     \/ Bell \/ DisplayTick

Next == Text \/ CursorCommand \/ CellCommand

Spec == Init /\ [][Next]_vars

-----------------------------------------------------------------------------

(***************************************************************************)
(* The cursor is on the screen, whatever regions and modes are set while   *)
(* it is where: terminal_get_cursor hands it to the display, and the cells *)
(* are addressed with it.                                                  *)
(***************************************************************************)
TypeOK ==
  /\ cursor \in [row : Row, col : Col, eol : BOOLEAN]
  /\ region \in [top : 0 .. 254, bottom : Row]
  /\ {origin, wrap, insert} \subseteq BOOLEAN
  /\ saved \in [row : Row, col : Col, eol : BOOLEAN, origin : BOOLEAN]
  /\ inverted \in BOOLEAN /\ flash \in 0 .. FlashFrames
  /\ mark \in [there : BOOLEAN, row : Row, col : Col, inv : BOOLEAN, disturbed : BOOLEAN]
  /\ {stale, strayed} \subseteq BOOLEAN
  /\ repertoire \subseteq {"saves", "cells"}

(***************************************************************************)
(* "Cursor stays in last column but will wrap if another character is      *)
(* typed" (print_char_vt): a wrap is pending only there - until a restore  *)
(* is given outside of the scroll region, where it takes over cursor_eol   *)
(* and does not move, or after a reset, which forgets to clear saved_eol.  *)
(***************************************************************************)
WrapPending == cursor.eol => cursor.col = NCols - 1 \/ strayed

(***************************************************************************)
(* A visual bell leaves no trace: once it and the inversion of the screen  *)
(* are over, a cell looks as it was written.  Excepted are the cells       *)
(* written while either was on, and all of them when a second bell rang    *)
(* before the first had gone.                                              *)
(***************************************************************************)
FlashLeavesNoTrace ==
  flash = 0 /\ mark.there /\ ~mark.disturbed => mark.inv = inverted

(***************************************************************************)
(* What is outside of the scroll region stays as it is, and the cursor     *)
(* inside, while text comes in: however it wraps, scrolls or goes back     *)
(* (move_cursor_wrap), and in insert mode.                                 *)
(***************************************************************************)
TextStaysInRegion ==
  [][Text /\ InRegion =>
       /\ InRegion'
       /\ mark.there /\ mark.row \notin region.top .. region.bottom => mark' = mark]_vars

=============================================================================
