------------------------- MODULE TermScreen_proofs -------------------------
(***************************************************************************)
(* Proofs about TermScreen, for every size of the screen, every parameter  *)
(* of eight bits and every repertoire.                                     *)
(***************************************************************************)
EXTENDS TermScreen, TLAPS

Cursor == [row : Row, col : Col, eol : BOOLEAN]
Mark == [there : BOOLEAN, row : Row, col : Col, inv : BOOLEAN, disturbed : BOOLEAN]

-----------------------------------------------------------------------------
(* Where the four moves lead *)

LEMMA Sizes == /\ Row = 0 .. NRows - 1 /\ Col = 0 .. NCols - 1
               /\ NRows \in 1 .. 255 /\ NCols \in 1 .. 255
               /\ 0 \in Row /\ 0 \in Col /\ NRows - 1 \in Row /\ NCols - 1 \in Col
  BY TermScreenAssumption DEF Row, Col

\* What TypeOK says, in the words that the rest of the module uses.
LEMMA Types ==
  ASSUME TypeOK
  PROVE  /\ cursor \in Cursor /\ cursor.row \in Int /\ cursor.col \in Int
         /\ region.top \in Nat /\ region.bottom \in Row /\ region.bottom \in Int
         /\ mark \in Mark /\ inverted \in BOOLEAN /\ flash \in Int
<1>1. cursor \in Cursor /\ mark \in Mark /\ inverted \in BOOLEAN /\ flash \in Int
  BY DEF TypeOK, Cursor, Mark
<1>2. cursor.row \in Row /\ cursor.col \in Col
  BY <1>1 DEF Cursor
<1>3. region.top \in 0 .. 254 /\ region.bottom \in Row
  BY DEF TypeOK
<1>4. cursor.row \in Int /\ cursor.col \in Int
  BY <1>2, Sizes
<1>5. region.top \in Nat
  BY <1>3
<1>6. region.bottom \in Int
  BY <1>3, Sizes
<1> QED
  BY <1>1, <1>3, <1>4, <1>5, <1>6, Zenon

\* A limited coordinate is on the screen.
LEMMA ClampRow == \A x \in Int : Clamp(x, 0, NRows - 1) \in Row
  BY Sizes DEF Clamp

LEMMA ClampCol == \A x \in Int : Clamp(x, 0, NCols - 1) \in Col
  BY Sizes DEF Clamp

\* An inverted region sends the cursor to its end, if the row asked for is
\* not above its start: the only way it is ever used.
LEMMA ClampRegion ==
  ASSUME NEW x \in Int, NEW top \in Nat, NEW bottom \in Row, top =< bottom \/ top =< x
  PROVE  Clamp(x, top, bottom) \in Row
  BY Sizes DEF Clamp

LEMMA WithinType ==
  ASSUME cursor \in Cursor, NEW row \in Int, NEW col \in Int,
         NEW top \in Nat, NEW bottom \in Row, top =< bottom \/ top =< row
  PROVE  MovedWithin(row, col, top, bottom) \in Cursor
<1>1. Clamp(row, top, bottom) \in Row
  BY ClampRegion
<1>2. Clamp(col, 0, NCols - 1) \in Col
  BY ClampCol
<1> QED
  BY <1>1, <1>2 DEF MovedWithin, Cursor

LEMMA LimitedType ==
  ASSUME TypeOK, NEW row \in Int, NEW col \in Int
  PROVE  MovedLimited(row, col) \in Cursor
<1>1. cursor \in Cursor /\ region.top \in Nat /\ region.bottom \in Row /\ cursor.row \in Int
  BY Types
<1>2. CASE InRegion
  <2>1. region.top =< region.bottom
    BY <1>1, <1>2, Sizes DEF InRegion
  <2> QED
    BY <1>1, <1>2, <2>1, WithinType DEF MovedLimited
<1> QED
  BY <1>1, <1>2 DEF MovedLimited

LEMMA PlacedType ==
  ASSUME NEW row \in Int, NEW col \in Int
  PROVE  Placed(row, col) \in Cursor
<1>1. Clamp(row, 0, NRows - 1) \in Row /\ Clamp(col, 0, NCols - 1) \in Col
  BY ClampRow, ClampCol
<1> QED
  BY <1>1 DEF Placed, Cursor

\* move_cursor_wrap is only asked for a column on the screen, or one before it.
LEMMA WrapType ==
  ASSUME TypeOK, NEW row \in Int, NEW col \in -1 .. NCols - 1
  PROVE  MovedWrap(row, col) \in Cursor
<1>1. cursor \in Cursor /\ region.top \in Nat /\ region.bottom \in Row
  BY Types
<1> DEFINE r == WrappedRow(row, col)
           notAbove == IF r < region.top THEN region.top ELSE r
           newRow == IF notAbove > region.bottom THEN region.bottom ELSE notAbove
           newCol == IF col < 0 THEN col + NCols ELSE col
<1>2. r \in Int
  BY Sizes DEF WrappedRow
<1>3. newRow \in Row
  BY <1>1, <1>2, Sizes
<1>4. newCol \in Col
  BY Sizes
<1>5. MovedWrap(row, col) = IF Here(row, col) THEN cursor
                            ELSE [row |-> newRow, col |-> newCol, eol |-> FALSE]
  BY DEF MovedWrap
<1> QED
  BY <1>1, <1>3, <1>4, <1>5 DEF Cursor

\* A move that moves ends a pending wrap.
LEMMA MovesEndWrap ==
  ASSUME NEW row \in Int, NEW col \in Int, NEW top \in Int, NEW bottom \in Int
  PROVE  /\ MovedWithin(row, col, top, bottom) = cursor \/ ~MovedWithin(row, col, top, bottom).eol
         /\ MovedLimited(row, col) = cursor \/ ~MovedLimited(row, col).eol
         /\ MovedWrap(row, col) = cursor \/ ~MovedWrap(row, col).eol
         /\ ~Placed(row, col).eol
  BY DEF MovedWithin, MovedLimited, MovedWrap, Placed

-----------------------------------------------------------------------------
(* What becomes of the mark *)

LEMMA LostType == Lost \in Mark
  BY Sizes DEF Lost, Mark

LEMMA FilledType ==
  ASSUME NEW m \in Mark, inverted \in BOOLEAN, flash \in Int,
         NEW c1 \in Int, NEW r1 \in Int, NEW c2 \in Int, NEW r2 \in Int
  PROVE  Filled(m, c1, r1, c2, r2) \in Mark
  BY DEF Filled, Written, Mark

LEMMA ScrolledType ==
  ASSUME NEW m \in Mark, NEW top \in Nat, NEW bottom \in Row, NEW n \in Int
  PROVE  Scrolled(m, top, bottom, n) \in Mark
<1>1. CASE m.row - n \in top .. bottom
  <2>1. m.row - n \in Row
    BY <1>1, Sizes DEF Mark
  <2> QED
    BY <1>1, <2>1 DEF Scrolled, Mark
<1> QED
  BY <1>1, LostType DEF Scrolled

LEMMA InsertedType ==
  ASSUME NEW m \in Mark, NEW at \in Cursor, NEW n \in Nat
  PROVE  Inserted(m, at, n) \in Mark
<1>1. CASE m.col + n < NCols
  <2>1. m.col + n \in Col
    BY <1>1, Sizes DEF Mark
  <2> QED
    BY <1>1, <2>1 DEF Inserted, Mark
<1> QED
  BY <1>1, LostType DEF Inserted

LEMMA DeletedType ==
  ASSUME NEW m \in Mark, NEW at \in Cursor, NEW n \in Nat
  PROVE  Deleted(m, at, n) \in Mark
<1>1. CASE m.col >= at.col + n
  <2>1. m.col - n \in Col
    BY <1>1, Sizes DEF Mark, Cursor
  <2> QED
    BY <1>1, <2>1 DEF Deleted, Mark
<1> QED
  BY <1>1, LostType DEF Deleted

LEMMA TurnedType ==
  ASSUME NEW m \in Mark, NEW more \in BOOLEAN
  PROVE  Turned(m, more) \in Mark
  BY DEF Turned, Mark

LEMMA AfterWrapType ==
  ASSUME TypeOK, NEW row \in Int, NEW col \in Int
  PROVE  MarkAfterWrap(row, col) \in Mark
<1>1. mark \in Mark /\ region.top \in Nat /\ region.bottom \in Row
  BY Types
<1> DEFINE r == WrappedRow(row, col)
           n == IF r < region.top THEN r - region.top
                ELSE IF r > region.bottom THEN r - region.bottom ELSE 0
<1>2. n \in Int
  BY <1>1, Sizes DEF WrappedRow
<1>3. Scrolled(mark, region.top, region.bottom, n) \in Mark
  BY <1>1, <1>2, ScrolledType
<1>4. MarkAfterWrap(row, col) = IF Here(row, col) THEN mark
                                ELSE Scrolled(mark, region.top, region.bottom, n)
  BY DEF MarkAfterWrap
<1> QED
  BY <1>1, <1>3, <1>4

LEMMA Limits ==
  ASSUME TypeOK
  PROVE  TopLimit \in Nat /\ BottomLimit \in Row
<1>1. 0 \in Nat /\ NRows - 1 \in Row /\ region.top \in Nat /\ region.bottom \in Row
  BY Types, Sizes
<1> QED
  BY <1>1, Zenon DEF TopLimit, BottomLimit

LEMMA Counts == \A p \in Param : Count(p) \in 1 .. 255
  BY TermScreenAssumption DEF Count

-----------------------------------------------------------------------------
(* Type correctness, a lemma for each kind of step *)

LEMMA InitType == Init => TypeOK
<1> SUFFICES ASSUME Init PROVE TypeOK
  OBVIOUS
<1>1. mark \in Mark
  BY LostType DEF Init, Mark
<1>2. flash \in 0 .. FlashFrames
  <2>1. flash = 0
    BY DEF Init
  <2> QED
    BY <2>1, TermScreenAssumption
<1>3. repertoire \subseteq {"saves", "cells"}
  BY TermScreenAssumption DEF Init
<1>4. cursor \in [row : Row, col : Col, eol : BOOLEAN]
  BY Sizes DEF Init, Home
<1>5. region \in [top : 0 .. 254, bottom : Row]
  <2>1. region = Whole
    BY DEF Init
  <2>2. 0 \in 0 .. 254
    OBVIOUS
  <2> QED
    BY <2>1, <2>2, Sizes DEF Whole
<1>6. saved \in [row : Row, col : Col, eol : BOOLEAN, origin : BOOLEAN]
  BY Sizes DEF Init
<1>7. {origin, wrap, insert} \subseteq BOOLEAN /\ inverted \in BOOLEAN
      /\ {stale, strayed} \subseteq BOOLEAN
  BY DEF Init
<1> QED
  BY <1>1, <1>2, <1>3, <1>4, <1>5, <1>6, <1>7 DEF TypeOK, Mark

\* A step that moves the cursor, and perhaps the mark, and nothing else.
LEMMA CursorStep ==
  ASSUME TypeOK, cursor' \in Cursor, mark' \in Mark,
         UNCHANGED <<region, modes, saved, inverted, flash, history>>
  PROVE  TypeOK'
  BY DEF TypeOK, modes, history, Cursor, Mark

LEMMA MoveWrapType ==
  ASSUME TypeOK, NEW row \in Int, NEW col \in -1 .. NCols - 1, MoveWrap(row, col)
  PROVE  TypeOK'
<1>1. cursor' \in Cursor /\ mark' \in Mark
  BY WrapType, AfterWrapType DEF MoveWrap
<1> QED
  BY <1>1, CursorStep DEF MoveWrap

LEMMA MoveToType ==
  ASSUME TypeOK, NEW c \in Cursor, MoveTo(c)
  PROVE  TypeOK'
<1>1. cursor' \in Cursor /\ mark' \in Mark
  BY Types DEF MoveTo, screen
<1> QED
  BY <1>1, CursorStep DEF MoveTo, screen

LEMMA DrawType ==
  ASSUME TypeOK, NEW m \in Mark, Draw(m)
  PROVE  TypeOK'
<1>1. cursor' \in Cursor /\ mark' \in Mark
  BY Types DEF Draw
<1> QED
  BY <1>1, CursorStep DEF Draw

LEMMA PrintType == TypeOK /\ PrintChar => TypeOK'
<1> SUFFICES ASSUME TypeOK, PrintChar PROVE TypeOK'
  OBVIOUS
<1> DEFINE at == IF cursor.eol THEN MovedWrap(cursor.row + 1, 0) ELSE cursor
           m == IF cursor.eol THEN MarkAfterWrap(cursor.row + 1, 0) ELSE mark
           shifted == IF insert THEN Inserted(m, at, 1) ELSE m
<1>1. cursor.row + 1 \in Int /\ 0 \in -1 .. NCols - 1
  BY Types, Sizes
<1>2. at \in Cursor /\ m \in Mark
  BY <1>1, Types, WrapType, AfterWrapType
<1>3. at.row \in Int /\ at.col \in Int
  BY <1>2, Sizes DEF Cursor
<1>4. shifted \in Mark
  BY <1>2, InsertedType
<1>5. mark' \in Mark
  <2>1. mark' = Filled(shifted, at.col, at.row, at.col, at.row)
    BY DEF PrintChar
  <2> QED
    BY <1>3, <1>4, <2>1, Types, FilledType
<1>6. cursor' \in Cursor
  <2>1. cursor' = IF wrap /\ at.col = NCols - 1 THEN [at EXCEPT !.eol = TRUE]
                  ELSE Placed(at.row, at.col + 1)
    BY DEF PrintChar
  <2>2. [at EXCEPT !.eol = TRUE] \in Cursor
    BY <1>2 DEF Cursor
  <2> QED
    BY <1>3, <2>1, <2>2, PlacedType
<1> QED
  BY <1>5, <1>6, CursorStep DEF PrintChar

LEMMA TextType == TypeOK /\ Text => TypeOK'
<1> SUFFICES ASSUME TypeOK, Text PROVE TypeOK'
  OBVIOUS
<1>1. /\ cursor.row \in Int /\ cursor.row - 1 \in Int /\ cursor.row + 1 \in Int
      /\ cursor.col \in 0 .. NCols - 1 /\ cursor.col - 1 \in -1 .. NCols - 1
      /\ cursor.col \in -1 .. NCols - 1 /\ 0 \in -1 .. NCols - 1 /\ cursor.col - 1 \in Int
  BY Types, Sizes DEF Cursor
<1>2. CASE PrintChar
  BY <1>2, PrintType
<1>3. CASE Backspace
  <2>1. CASE MoveWrap(cursor.row, cursor.col - 1)
    BY <1>1, <2>1, MoveWrapType
  <2>2. CASE MoveTo(MovedLimited(cursor.row, cursor.col - 1))
    BY <1>1, <2>2, LimitedType, MoveToType
  <2> QED
    BY <1>3, <2>1, <2>2 DEF Backspace
<1>4. CASE CarriageReturn
  BY <1>1, <1>4, MoveWrapType DEF CarriageReturn
<1>5. CASE LineFeed
  BY <1>1, <1>5, MoveWrapType DEF LineFeed
<1>6. CASE ReverseLineFeed
  BY <1>1, <1>6, MoveWrapType DEF ReverseLineFeed
<1>7. CASE NextLine
  BY <1>1, <1>7, MoveWrapType DEF NextLine
<1>8. CASE PreviousLine
  BY <1>1, <1>8, MoveWrapType DEF PreviousLine
<1>9. CASE Tab
  <2>1. PICK col \in Int : MoveTo(MovedLimited(cursor.row, col))
    BY <1>1, <1>9, Sizes DEF Tab
  <2> QED
    BY <1>1, <2>1, LimitedType, MoveToType
<1> QED
  BY <1>2, <1>3, <1>4, <1>5, <1>6, <1>7, <1>8, <1>9 DEF Text

LEMMA MoveType ==
  ASSUME TypeOK, NEW n \in 1 .. 255, Move(n)
  PROVE  TypeOK'
<1>1. PICK row \in Int, col \in Int : MoveTo(MovedLimited(row, col))
  <2>1. /\ cursor.row \in Int /\ cursor.col \in Int
        /\ cursor.row - n \in Int /\ cursor.row + n \in Int /\ 0 \in Int
        /\ cursor.col - n \in Int /\ cursor.col + n \in Int /\ n - 1 \in Int
    BY Types
  <2> QED
    BY <2>1, Zenon DEF Move
<1> QED
  BY <1>1, LimitedType, MoveToType

LEMMA CursorToType ==
  ASSUME TypeOK, NEW p1 \in Param, NEW p2 \in Param, CursorTo(p1, p2)
  PROVE  TypeOK'
<1> DEFINE row == TopLimit + Count(p1) - 1
           col == Count(p2) - 1
<1>1. row \in Int /\ col \in Int /\ TopLimit =< row
  BY Limits, Counts
<1>2. MovedWithin(row, col, TopLimit, BottomLimit) \in Cursor
  BY <1>1, Limits, Types, WithinType
<1> QED
  BY <1>2, MoveToType DEF CursorTo

\* The start that CSI r takes may be beyond the screen; the cursor is not.
LEMMA ScrollRegionType ==
  ASSUME TypeOK, NEW p1 \in Param, NEW p2 \in Param, ScrollRegion(p1, p2)
  PROVE  TypeOK'
<1>1. region' \in [top : 0 .. 254, bottom : Row]
  <2>1. CASE p2 > p1
    <3>1. Count(p1) - 1 \in 0 .. 254
      BY Counts
    <3>2. Clamp(p2, 0, NRows) - 1 \in Row
      BY <2>1, TermScreenAssumption, Sizes DEF Clamp
    <3>3. region' = [top |-> Count(p1) - 1, bottom |-> Clamp(p2, 0, NRows) - 1]
      BY <2>1 DEF ScrollRegion
    <3> QED
      BY <3>1, <3>2, <3>3
  <2>2. CASE ~(p2 > p1)
    <3>1. region' = Whole \/ region' = region
      BY <2>2 DEF ScrollRegion
    <3>2. Whole \in [top : 0 .. 254, bottom : Row]
      BY Sizes DEF Whole
    <3> QED
      BY <3>1, <3>2 DEF TypeOK
  <2> QED
    BY <2>1, <2>2
<1>2. cursor' \in Cursor
  <2>1. region'.top \in Nat /\ region'.top \in Int /\ region'.bottom \in Row /\ 0 \in Int
        /\ region'.top =< region'.top
    BY <1>1
  <2>2. cursor' = MovedWithin(region'.top, 0, region'.top, region'.bottom)
    BY DEF ScrollRegion
  <2>3. MovedWithin(region'.top, 0, region'.top, region'.bottom) \in Cursor
    BY <2>1, Types, WithinType
  <2> QED
    BY <2>2, <2>3
<1> QED
  BY <1>1, <1>2 DEF ScrollRegion, TypeOK, modes, screen, history, Cursor

LEMMA RestoreType == TypeOK /\ Restore => TypeOK'
<1> SUFFICES ASSUME TypeOK, Restore PROVE TypeOK'
  OBVIOUS
<1>1. saved \in [row : Row, col : Col, eol : BOOLEAN, origin : BOOLEAN]
  BY DEF TypeOK
<1>2. saved.row \in Int /\ saved.col \in Int
  BY <1>1, Sizes
<1>3. MovedLimited(saved.row, saved.col) \in Cursor
  BY <1>2, LimitedType
<1>4. cursor' \in Cursor
  BY <1>1, <1>3 DEF Restore, Cursor
<1>5. origin' \in BOOLEAN
  BY <1>1 DEF Restore
<1>6. strayed' \in BOOLEAN
  BY DEF Restore
<1> QED
  BY <1>4, <1>5, <1>6 DEF Restore, TypeOK, screen, Cursor

LEMMA OriginModeType ==
  ASSUME TypeOK, NEW on \in BOOLEAN, OriginMode(on)
  PROVE  TypeOK'
<1>1. region.top \in Int /\ 0 \in Int
  BY Types
<1>2. cursor' \in Cursor
  BY <1>1, LimitedType DEF OriginMode
<1> QED
  BY <1>2 DEF OriginMode, TypeOK, screen, history, Cursor

LEMMA CursorCommandType == TypeOK /\ CursorCommand => TypeOK'
<1> SUFFICES ASSUME TypeOK, CursorCommand PROVE TypeOK'
  OBVIOUS
<1>1. CASE \E p \in Param : Move(Count(p))
  BY <1>1, Counts, MoveType
<1>2. CASE \E p1, p2 \in Param : CursorTo(p1, p2) \/ ScrollRegion(p1, p2)
  BY <1>2, CursorToType, ScrollRegionType
<1>3. CASE Save
  <2>1. cursor \in Cursor /\ origin \in BOOLEAN
    BY DEF TypeOK, Cursor
  <2>2. saved' \in [row : Row, col : Col, eol : BOOLEAN, origin : BOOLEAN]
    BY <1>3, <2>1 DEF Save, Cursor
  <2> QED
    BY <1>3, <2>2 DEF Save, TypeOK, modes, screen
<1>4. CASE Restore
  BY <1>4, RestoreType
<1>5. CASE Reset
  <2>1. saved' \in [row : Row, col : Col, eol : BOOLEAN, origin : BOOLEAN]
    BY <1>5, Sizes DEF Reset, TypeOK
  <2>2. cursor' \in [row : Row, col : Col, eol : BOOLEAN]
    BY <1>5 DEF Reset, TypeOK
  <2>3. region' \in [top : 0 .. 254, bottom : Row]
    BY <1>5, Sizes DEF Reset, Whole
  <2> QED
    BY <1>5, <2>1, <2>2, <2>3 DEF Reset, TypeOK, screen
<1>6. CASE \E on \in BOOLEAN : OriginMode(on)
  BY <1>6, OriginModeType
<1>7. CASE \E on \in BOOLEAN : AutoWrapMode(on)
  BY <1>7 DEF AutoWrapMode, TypeOK, screen, history
<1> QED
  BY <1>1, <1>2, <1>3, <1>4, <1>5, <1>6, <1>7 DEF CursorCommand

LEMMA EraseType ==
  ASSUME TypeOK, EraseDisplay \/ EraseLine \/ Align
  PROVE  TypeOK'
<1>1. PICK c1 \in Int, r1 \in Int, c2 \in Int, r2 \in Int :
        Draw(Filled(mark, c1, r1, c2, r2))
  <2>1. /\ cursor.row \in Int /\ cursor.col \in Int /\ 0 \in Int
        /\ NCols - 1 \in Int /\ NRows - 1 \in Int
    BY Types, Sizes
  <2>2. TopLimit \in Int /\ BottomLimit \in Int
    BY Limits, Sizes
  <2> QED
    BY <2>1, <2>2, Zenon DEF EraseDisplay, EraseLine, Align
<1> QED
  BY <1>1, Types, FilledType, DrawType

LEMMA ScrollType ==
  ASSUME TypeOK, NEW n \in 1 .. 255,
         InsertLines(n) \/ DeleteLines(n) \/ ScrollUp(n) \/ ScrollDown(n)
  PROVE  TypeOK'
<1>1. PICK top \in Nat, bottom \in Row, k \in Int : Draw(Scrolled(mark, top, bottom, k))
  <2>1. Int8(n) \in Int /\ Int8(-n) \in Int
    BY DEF Int8
  <2>2. (n * (n - 1)) \div 2 \in Int /\ -((n * (n - 1)) \div 2) \in Int
    <3>1. n * (n - 1) \in Int
      OBVIOUS
    <3> QED
      BY <3>1
  <2>3. cursor.row \in Nat
    BY Types, Sizes DEF Cursor
  <2> QED
    BY <2>1, <2>2, <2>3, Limits, Zenon DEF InsertLines, DeleteLines, ScrollUp, ScrollDown
<1> QED
  BY <1>1, Types, ScrolledType, DrawType

LEMMA ClearScreenType == TypeOK /\ ClearScreen => TypeOK'
<1> SUFFICES ASSUME TypeOK, ClearScreen PROVE TypeOK'
  OBVIOUS
<1>1. 0 \in Int /\ NCols - 1 \in Int /\ NRows - 1 \in Int
  BY Sizes
<1>2. mark' \in Mark
  BY <1>1, Types, FilledType DEF ClearScreen
<1>3. cursor' \in Cursor
  BY <1>1, PlacedType DEF ClearScreen
<1>4. region' \in [top : 0 .. 254, bottom : Row]
  BY Sizes DEF ClearScreen, Whole
<1> QED
  BY <1>2, <1>3, <1>4 DEF ClearScreen, TypeOK, history, Cursor, Mark

\* The flash counter, and the cells that turn.
LEMMA FlashType ==
  ASSUME TypeOK, Bell \/ DisplayTick
  PROVE  TypeOK'
<1>1. flash' \in 0 .. FlashFrames
  <2>1. flash \in 0 .. FlashFrames /\ FlashFrames \in Nat
    BY TermScreenAssumption DEF TypeOK
  <2>2. flash' = FlashFrames \/ (flash > 0 /\ flash' = flash - 1)
    BY DEF Bell, DisplayTick
  <2> QED
    BY <2>1, <2>2
<1>2. mark' \in Mark
  <2>1. FALSE \in BOOLEAN /\ (flash > 0) \in BOOLEAN
    OBVIOUS
  <2> QED
    BY <2>1, Types, TurnedType DEF Bell, DisplayTick
<1> QED
  BY <1>1, <1>2 DEF Bell, DisplayTick, TypeOK, modes, history, Mark

LEMMA InvertScreenType ==
  ASSUME TypeOK, NEW on \in BOOLEAN, InvertScreen(on)
  PROVE  TypeOK'
<1>1. mark' \in Mark
  BY Types, TurnedType DEF InvertScreen
<1> QED
  BY <1>1 DEF InvertScreen, TypeOK, modes, history, Mark

LEMMA CellCommandType == TypeOK /\ CellCommand => TypeOK'
<1> SUFFICES ASSUME TypeOK, CellCommand PROVE TypeOK'
  OBVIOUS
<1>1. CASE \E on \in BOOLEAN : InsertMode(on)
  BY <1>1 DEF InsertMode, TypeOK, screen, history
<1>2. CASE \E on \in BOOLEAN : InvertScreen(on)
  BY <1>2, InvertScreenType
<1>3. CASE EraseDisplay \/ EraseLine \/ Align
  BY <1>3, EraseType
<1>4. CASE ClearScreen
  BY <1>4, ClearScreenType
<1>5. CASE \E p \in Param : \/ InsertLines(Count(p)) \/ DeleteLines(Count(p))
                            \/ ScrollUp(Count(p)) \/ ScrollDown(Count(p))
  BY <1>5, Counts, ScrollType
<1>6. CASE \E p \in Param : InsertChars(Count(p)) \/ DeleteChars(Count(p))
  <2>1. PICK n \in Nat : InsertChars(n) \/ DeleteChars(n)
    BY <1>6, Counts
  <2> QED
    BY <2>1, Types, InsertedType, DeletedType, DrawType DEF InsertChars, DeleteChars
<1>7. CASE Bell \/ DisplayTick
  BY <1>7, FlashType
<1> QED
  BY <1>1, <1>2, <1>3, <1>4, <1>5, <1>6, <1>7 DEF CellCommand

LEMMA NextType == TypeOK /\ [Next]_vars => TypeOK'
<1> SUFFICES ASSUME TypeOK, [Next]_vars PROVE TypeOK'
  OBVIOUS
<1>1. CASE UNCHANGED vars
  BY <1>1 DEF vars, modes, screen, history, TypeOK
<1> QED
  BY <1>1, TextType, CursorCommandType, CellCommandType DEF Next

(***************************************************************************)
(* The cursor stays on the screen, for every size of the screen and after  *)
(* every sequence of commands, also in a scroll region that begins below   *)
(* the screen.                                                             *)
(***************************************************************************)
THEOREM CursorOnScreen == Spec => []TypeOK
  BY InitType, NextType, PTL DEF Spec

-----------------------------------------------------------------------------
(* A pending wrap *)

\* What was saved is as good as what it was saved from.
SavedWrap == saved.eol => saved.col = NCols - 1 \/ stale \/ strayed

WrapInv == WrapPending /\ SavedWrap

\* A step that leaves the saved cursor, and moves or leaves the cursor.
LEMMA WrapKept ==
  ASSUME WrapInv, UNCHANGED <<saved, history>>, cursor' = cursor \/ ~cursor'.eol
  PROVE  WrapInv'
  BY DEF WrapInv, WrapPending, SavedWrap, history

LEMMA WrapMoveTo ==
  ASSUME WrapInv, NEW c, MoveTo(c), c = cursor \/ ~c.eol
  PROVE  WrapInv'
  BY WrapKept DEF MoveTo

LEMMA WrapText == TypeOK /\ WrapInv /\ Text => WrapInv'
<1> SUFFICES ASSUME TypeOK, WrapInv, Text PROVE WrapInv'
  OBVIOUS
<1>1. /\ cursor.row \in Int /\ cursor.row - 1 \in Int /\ cursor.row + 1 \in Int
      /\ cursor.col \in Int /\ cursor.col - 1 \in Int /\ 0 \in Int
  BY Types
<1>2. CASE PrintChar
  <2> DEFINE at == IF cursor.eol THEN MovedWrap(cursor.row + 1, 0) ELSE cursor
  <2>1. cursor' = IF wrap /\ at.col = NCols - 1 THEN [at EXCEPT !.eol = TRUE]
                  ELSE Placed(at.row, at.col + 1)
    BY <1>2 DEF PrintChar
  <2>2. at \in Cursor
    BY <1>1, Types, Sizes, WrapType
  <2>3. cursor'.eol => cursor'.col = NCols - 1
    <3>1. ~Placed(at.row, at.col + 1).eol
      BY DEF Placed
    <3>2. [at EXCEPT !.eol = TRUE].col = at.col
      BY <2>2 DEF Cursor
    <3> QED
      BY <2>1, <3>1, <3>2
  <2> QED
    BY <1>2, <2>3 DEF PrintChar, WrapInv, WrapPending, SavedWrap, history
<1>3. CASE \E row \in Int, col \in Int : MoveWrap(row, col)
  BY <1>3, MovesEndWrap, WrapKept DEF MoveWrap
<1>4. CASE \E row \in Int, col \in Int : MoveTo(MovedLimited(row, col))
  BY <1>4, MovesEndWrap, WrapMoveTo
<1>5. CASE Backspace
  BY <1>1, <1>3, <1>4, <1>5, Zenon DEF Backspace
<1>6. CASE CarriageReturn \/ LineFeed \/ ReverseLineFeed \/ NextLine \/ PreviousLine
  BY <1>1, <1>3, <1>6, Zenon
     DEF CarriageReturn, LineFeed, ReverseLineFeed, NextLine, PreviousLine
<1>7. CASE Tab
  <2>1. PICK col \in Int : MoveTo(MovedLimited(cursor.row, col))
    BY <1>1, <1>7, Sizes DEF Tab
  <2> QED
    BY <1>1, <1>4, <2>1
<1> QED
  BY <1>2, <1>5, <1>6, <1>7 DEF Text

LEMMA WrapRestore == TypeOK /\ WrapInv /\ Restore => WrapInv'
<1> SUFFICES ASSUME TypeOK, WrapInv, Restore PROVE WrapInv'
  OBVIOUS
<1>1. saved \in [row : Row, col : Col, eol : BOOLEAN, origin : BOOLEAN]
  BY DEF TypeOK
<1> DEFINE moved == MovedLimited(saved.row, saved.col)
<1>2. saved.row \in Int /\ saved.col \in Int
  BY <1>1, Sizes
<1>3. moved \in Cursor /\ cursor' = [moved EXCEPT !.eol = saved.eol]
  BY <1>2, LimitedType DEF Restore
<1>4. cursor'.eol = saved.eol /\ cursor'.col = moved.col
  BY <1>3 DEF Cursor
<1>5. InRegion => moved.col = saved.col
  BY <1>1, Sizes DEF MovedLimited, MovedWithin, Here, Clamp
<1>6. WrapPending'
  BY <1>4, <1>5 DEF Restore, WrapInv, SavedWrap, WrapPending
<1>7. SavedWrap'
  BY DEF Restore, WrapInv, SavedWrap
<1> QED
  BY <1>6, <1>7 DEF WrapInv

LEMMA WrapCursorCommand == TypeOK /\ WrapInv /\ CursorCommand => WrapInv'
<1> SUFFICES ASSUME TypeOK, WrapInv, CursorCommand PROVE WrapInv'
  OBVIOUS
<1>1. CASE \E p \in Param : Move(Count(p))
  <2>1. PICK n \in 1 .. 255 : Move(n)
    BY <1>1, Counts
  <2>2. PICK row \in Int, col \in Int : MoveTo(MovedLimited(row, col))
    <3>1. /\ cursor.row \in Int /\ cursor.col \in Int
          /\ cursor.row - n \in Int /\ cursor.row + n \in Int /\ 0 \in Int
          /\ cursor.col - n \in Int /\ cursor.col + n \in Int /\ n - 1 \in Int
      BY Types
    <3> QED
      BY <2>1, <3>1, Zenon DEF Move
  <2> QED
    BY <2>2, MovesEndWrap, WrapMoveTo
<1>2. CASE \E p1, p2 \in Param : CursorTo(p1, p2)
  BY <1>2, WrapMoveTo DEF CursorTo, MovedWithin
<1>3. CASE \E p1, p2 \in Param : ScrollRegion(p1, p2)
  BY <1>3, WrapKept DEF ScrollRegion, MovedWithin
<1>4. CASE Save
  <2>1. saved'.eol = cursor.eol /\ saved'.col = cursor.col
    BY <1>4 DEF Save
  <2> QED
    BY <1>4, <2>1 DEF Save, WrapInv, WrapPending, SavedWrap
<1>5. CASE Restore
  BY <1>5, WrapRestore
<1>6. CASE Reset
  <2>1. ~cursor'.eol
    BY <1>6 DEF Reset, TypeOK
  <2> QED
    BY <1>6, <2>1 DEF Reset, WrapInv, WrapPending, SavedWrap
<1>7. CASE \E on \in BOOLEAN : OriginMode(on)
  BY <1>7, WrapKept DEF OriginMode, MovedLimited, MovedWithin
<1>8. CASE \E on \in BOOLEAN : AutoWrapMode(on)
  BY <1>8, WrapKept DEF AutoWrapMode
<1> QED
  BY <1>1, <1>2, <1>3, <1>4, <1>5, <1>6, <1>7, <1>8 DEF CursorCommand

LEMMA CellCommandCursor ==
  CellCommand => /\ UNCHANGED <<saved, history>>
                 /\ cursor' = cursor \/ cursor' = Placed(0, 0)
<1> SUFFICES ASSUME CellCommand
             PROVE  /\ UNCHANGED <<saved, history>>
                    /\ cursor' = cursor \/ cursor' = Placed(0, 0)
  OBVIOUS
<1>1. ASSUME NEW m, Draw(m) PROVE UNCHANGED <<cursor, saved, history>>
  BY <1>1 DEF Draw
<1>2. CASE EraseDisplay \/ EraseLine \/ Align
  BY <1>1, <1>2 DEF EraseDisplay, EraseLine, Align
<1>3. CASE \E n : InsertLines(n) \/ DeleteLines(n) \/ ScrollUp(n) \/ ScrollDown(n)
                   \/ InsertChars(n) \/ DeleteChars(n)
  BY <1>1, <1>3 DEF InsertLines, DeleteLines, ScrollUp, ScrollDown, InsertChars, DeleteChars
<1>4. CASE ClearScreen
  BY <1>4 DEF ClearScreen
<1>5. CASE Bell \/ DisplayTick
  BY <1>5 DEF Bell, DisplayTick
<1>6. CASE \E on \in BOOLEAN : InsertMode(on) \/ InvertScreen(on)
  BY <1>6 DEF InsertMode, InvertScreen
<1> QED
  BY <1>2, <1>3, <1>4, <1>5, <1>6 DEF CellCommand

LEMMA WrapNext == TypeOK /\ WrapInv /\ [Next]_vars => WrapInv'
<1> SUFFICES ASSUME TypeOK, WrapInv, [Next]_vars PROVE WrapInv'
  OBVIOUS
<1>1. CASE CellCommand
  BY <1>1, CellCommandCursor, WrapKept DEF Placed
<1>2. CASE UNCHANGED vars
  BY <1>2 DEF vars, history, WrapInv, WrapPending, SavedWrap
<1> QED
  BY <1>1, <1>2, WrapText, WrapCursorCommand DEF Next

(***************************************************************************)
(* A wrap is pending in the last column only, but for the two ways in      *)
(* which a restore strays.                                                 *)
(***************************************************************************)
THEOREM PendingOnlyAtTheEnd == Spec => []WrapPending
<1>1. Init => WrapInv
  <2> SUFFICES ASSUME Init PROVE WrapInv
    OBVIOUS
  <2>1. cursor.eol = FALSE
    BY DEF Init, Home
  <2>2. saved.eol = FALSE
    BY DEF Init
  <2> QED
    BY <2>1, <2>2 DEF WrapInv, WrapPending, SavedWrap
<1>2. WrapInv => WrapPending
  BY DEF WrapInv
<1> QED
  BY <1>1, <1>2, WrapNext, CursorOnScreen, PTL DEF Spec

-----------------------------------------------------------------------------
(* The visual bell *)

\* A cell that is not disturbed is inverted by the screen or by the flash,
\* and the right way round by both or by neither.
Shown(m, byScreen, byFlash) ==
  m.there /\ ~m.disturbed => (m.inv <=> (byScreen # byFlash))

FlashInv == Shown(mark, inverted, flash > 0)

\* Moving and writing cells keeps it.
LEMMA CellsShown ==
  ASSUME inverted \in BOOLEAN, flash \in Int, NEW m \in Mark, Shown(m, inverted, flash > 0)
  PROVE  /\ \A c1, r1, c2, r2 : Shown(Filled(m, c1, r1, c2, r2), inverted, flash > 0)
         /\ \A top, bottom, n : Shown(Scrolled(m, top, bottom, n), inverted, flash > 0)
         /\ \A at, n : Shown(Inserted(m, at, n), inverted, flash > 0)
         /\ \A at, n : Shown(Deleted(m, at, n), inverted, flash > 0)
<1>1. \A c1, r1, c2, r2 : Shown(Filled(m, c1, r1, c2, r2), inverted, flash > 0)
  BY DEF Filled, Written, Shown, Mark
<1>2. \A top, bottom, n : Shown(Scrolled(m, top, bottom, n), inverted, flash > 0)
  BY DEF Scrolled, Lost, Shown, Mark
<1>3. \A at, n : Shown(Inserted(m, at, n), inverted, flash > 0)
  BY DEF Inserted, Lost, Shown, Mark
<1>4. \A at, n : Shown(Deleted(m, at, n), inverted, flash > 0)
  BY DEF Deleted, Lost, Shown, Mark
<1> QED
  BY <1>1, <1>2, <1>3, <1>4

LEMMA AfterWrapShown ==
  ASSUME TypeOK, FlashInv, NEW row, NEW col
  PROVE  Shown(MarkAfterWrap(row, col), inverted, flash > 0)
  BY Types, CellsShown DEF MarkAfterWrap, FlashInv

\* A step that leaves the screen's inversion and the flash as they are.
LEMMA FlashKept ==
  ASSUME UNCHANGED <<inverted, flash>>, Shown(mark', inverted, flash > 0)
  PROVE  FlashInv'
  BY DEF FlashInv, Shown

LEMMA FlashText == TypeOK /\ FlashInv /\ Text => FlashInv'
<1> SUFFICES ASSUME TypeOK, FlashInv, Text PROVE FlashInv'
  OBVIOUS
<1>1. ASSUME NEW row, NEW col, MoveWrap(row, col) PROVE FlashInv'
  BY <1>1, AfterWrapShown, FlashKept DEF MoveWrap
<1>2. ASSUME NEW c, MoveTo(c) PROVE FlashInv'
  BY <1>2, FlashKept DEF MoveTo, screen, FlashInv
<1>3. CASE PrintChar
  <2> DEFINE at == IF cursor.eol THEN MovedWrap(cursor.row + 1, 0) ELSE cursor
             m == IF cursor.eol THEN MarkAfterWrap(cursor.row + 1, 0) ELSE mark
             shifted == IF insert THEN Inserted(m, at, 1) ELSE m
  <2>1. cursor.row + 1 \in Int /\ 0 \in -1 .. NCols - 1
    BY Types, Sizes
  <2>2. at \in Cursor /\ m \in Mark
    BY <2>1, Types, WrapType, AfterWrapType
  <2>3. Shown(m, inverted, flash > 0)
    BY AfterWrapShown DEF FlashInv
  <2>4. shifted \in Mark
    BY <2>2, InsertedType
  <2>5. Shown(shifted, inverted, flash > 0)
    BY <2>2, <2>3, Types, CellsShown
  <2>6. Shown(mark', inverted, flash > 0)
    <3>1. mark' = Filled(shifted, at.col, at.row, at.col, at.row)
      BY <1>3 DEF PrintChar
    <3> QED
      BY <2>4, <2>5, <3>1, Types, CellsShown
  <2> QED
    BY <1>3, <2>6, FlashKept DEF PrintChar
<1>4. CASE Backspace
  BY <1>1, <1>2, <1>4 DEF Backspace
<1>5. CASE CarriageReturn \/ LineFeed \/ ReverseLineFeed \/ NextLine \/ PreviousLine
  BY <1>1, <1>5 DEF CarriageReturn, LineFeed, ReverseLineFeed, NextLine, PreviousLine
<1>6. CASE Tab
  BY <1>2, <1>6 DEF Tab
<1> QED
  BY <1>3, <1>4, <1>5, <1>6 DEF Text

LEMMA CursorCommandScreen == CursorCommand => UNCHANGED screen
<1> SUFFICES ASSUME CursorCommand PROVE UNCHANGED screen
  OBVIOUS
<1>1. CASE \E p \in Param : Move(Count(p))
  BY <1>1 DEF Move, MoveTo
<1>2. CASE \E p1, p2 \in Param : CursorTo(p1, p2) \/ ScrollRegion(p1, p2)
  BY <1>2 DEF CursorTo, MoveTo, ScrollRegion
<1>3. CASE Save \/ Restore \/ Reset
  BY <1>3 DEF Save, Restore, Reset
<1>4. CASE \E on \in BOOLEAN : OriginMode(on) \/ AutoWrapMode(on)
  BY <1>4 DEF OriginMode, AutoWrapMode
<1> QED
  BY <1>1, <1>2, <1>3, <1>4 DEF CursorCommand

LEMMA FlashCellCommand == TypeOK /\ FlashInv /\ CellCommand => FlashInv'
<1> SUFFICES ASSUME TypeOK, FlashInv, CellCommand PROVE FlashInv'
  OBVIOUS
<1>1. /\ mark \in Mark /\ inverted \in BOOLEAN /\ flash \in Int
      /\ Shown(mark, inverted, flash > 0)
  BY Types DEF FlashInv
<1>2. ASSUME NEW m, Draw(m), Shown(m, inverted, flash > 0) PROVE FlashInv'
  BY <1>2, FlashKept DEF Draw
<1>3. CASE EraseDisplay \/ EraseLine \/ Align
  BY <1>1, <1>2, <1>3, CellsShown DEF EraseDisplay, EraseLine, Align
<1>4. CASE \E n : InsertLines(n) \/ DeleteLines(n) \/ ScrollUp(n) \/ ScrollDown(n)
  BY <1>1, <1>2, <1>4, CellsShown DEF InsertLines, DeleteLines, ScrollUp, ScrollDown
<1>5. CASE \E n : InsertChars(n) \/ DeleteChars(n)
  BY <1>1, <1>2, <1>5, CellsShown DEF InsertChars, DeleteChars
<1>6. CASE ClearScreen
  BY <1>1, <1>6, CellsShown, FlashKept DEF ClearScreen
<1>7. CASE \E on \in BOOLEAN : InsertMode(on)
  BY <1>1, <1>7, FlashKept DEF InsertMode, screen
<1>8. CASE \E on \in BOOLEAN : InvertScreen(on)
  BY <1>1, <1>8 DEF InvertScreen, Turned, FlashInv, Shown, Mark
<1>9. CASE Bell
  BY <1>1, <1>9, TermScreenAssumption DEF Bell, Turned, FlashInv, Shown, Mark
<1>10. CASE DisplayTick
  BY <1>1, <1>10 DEF DisplayTick, Turned, FlashInv, Shown, Mark
<1> QED
  BY <1>3, <1>4, <1>5, <1>6, <1>7, <1>8, <1>9, <1>10 DEF CellCommand

LEMMA FlashNext == TypeOK /\ FlashInv /\ [Next]_vars => FlashInv'
<1> SUFFICES ASSUME TypeOK, FlashInv, [Next]_vars PROVE FlashInv'
  OBVIOUS
<1>1. CASE CursorCommand \/ UNCHANGED vars
  BY <1>1, CursorCommandScreen DEF vars, screen, FlashInv, Shown
<1> QED
  BY <1>1, FlashText, FlashCellCommand DEF Next

(***************************************************************************)
(* A visual bell leaves no trace on a cell that nobody wrote meanwhile.    *)
(***************************************************************************)
THEOREM NoTrace == Spec => []FlashLeavesNoTrace
<1>1. Init => FlashInv
  <2> SUFFICES ASSUME Init PROVE FlashInv
    OBVIOUS
  <2>1. inverted = FALSE /\ flash = 0
    BY DEF Init
  <2>2. mark.inv = FALSE
    <3>1. CASE "cells" \in repertoire
      <4>1. PICK r \in Row, c \in Col :
              mark = [Lost EXCEPT !.there = TRUE, !.row = r, !.col = c]
        BY <3>1 DEF Init
      <4> QED
        BY <4>1 DEF Lost
    <3>2. CASE "cells" \notin repertoire
      BY <3>2 DEF Init, Lost
    <3> QED
      BY <3>1, <3>2
  <2>3. (flash > 0) = FALSE
    BY <2>1
  <2>4. Shown(mark, FALSE, FALSE)
    BY <2>2 DEF Shown
  <2> QED
    BY <2>1, <2>3, <2>4, Zenon DEF FlashInv
<1>2. TypeOK /\ FlashInv => FlashLeavesNoTrace
  BY Types DEF FlashInv, Shown, FlashLeavesNoTrace, Mark
<1> QED
  BY <1>1, <1>2, FlashNext, CursorOnScreen, PTL DEF Spec

-----------------------------------------------------------------------------
(* Text and the scroll region *)

Outside == mark.there /\ mark.row \notin region.top .. region.bottom

LEMMA WrapStays ==
  ASSUME TypeOK, InRegion, NEW row \in Int, NEW col \in -1 .. NCols - 1
  PROVE  /\ MovedWrap(row, col).row \in region.top .. region.bottom
         /\ Outside => MarkAfterWrap(row, col) = mark
<1>1. /\ region.top \in Int /\ region.bottom \in Int
      /\ cursor.row \in region.top .. region.bottom
  BY Types DEF InRegion
<1> DEFINE r == WrappedRow(row, col)
           notAbove == IF r < region.top THEN region.top ELSE r
           newRow == IF notAbove > region.bottom THEN region.bottom ELSE notAbove
<1>2. r \in Int
  BY Sizes DEF WrappedRow
<1>3. newRow \in region.top .. region.bottom
  BY <1>1, <1>2
<1>4. MovedWrap(row, col).row = IF Here(row, col) THEN cursor.row ELSE newRow
  BY DEF MovedWrap
<1>5. Outside => MarkAfterWrap(row, col) = mark
  BY DEF Outside, MarkAfterWrap, Scrolled
<1> QED
  BY <1>1, <1>3, <1>4, <1>5

LEMMA LimitedStays ==
  ASSUME TypeOK, InRegion, NEW row \in Int, NEW col \in Int
  PROVE  MovedLimited(row, col).row \in region.top .. region.bottom
<1>1. /\ region.top \in Int /\ region.bottom \in Int
      /\ cursor.row \in region.top .. region.bottom
  BY Types DEF InRegion
<1>2. Clamp(row, region.top, region.bottom) \in region.top .. region.bottom
  BY <1>1 DEF Clamp
<1> QED
  BY <1>1, <1>2 DEF MovedLimited, MovedWithin

LEMMA TextStays ==
  ASSUME TypeOK, InRegion, Text
  PROVE  InRegion' /\ (Outside => mark' = mark)
<1>1. /\ cursor.row \in Int /\ cursor.row - 1 \in Int /\ cursor.row + 1 \in Int
      /\ cursor.col \in -1 .. NCols - 1 /\ cursor.col - 1 \in -1 .. NCols - 1
      /\ cursor.col - 1 \in Int /\ 0 \in -1 .. NCols - 1
  BY Types, Sizes DEF Cursor
<1>2. ASSUME NEW row \in Int, NEW col \in -1 .. NCols - 1, MoveWrap(row, col)
      PROVE  InRegion' /\ (Outside => mark' = mark)
  BY <1>2, WrapStays DEF MoveWrap, InRegion
<1>3. ASSUME NEW row \in Int, NEW col \in Int, MoveTo(MovedLimited(row, col))
      PROVE  InRegion' /\ (Outside => mark' = mark)
  BY <1>3, LimitedStays DEF MoveTo, InRegion, screen
<1>4. CASE PrintChar
  <2> DEFINE at == IF cursor.eol THEN MovedWrap(cursor.row + 1, 0) ELSE cursor
             m == IF cursor.eol THEN MarkAfterWrap(cursor.row + 1, 0) ELSE mark
             shifted == IF insert THEN Inserted(m, at, 1) ELSE m
  <2>1. at \in Cursor /\ at.row \in region.top .. region.bottom
    BY <1>1, Types, WrapType, WrapStays DEF InRegion
  <2>2. cursor'.row = at.row
    <3>1. cursor' = IF wrap /\ at.col = NCols - 1 THEN [at EXCEPT !.eol = TRUE]
                    ELSE Placed(at.row, at.col + 1)
      BY <1>4 DEF PrintChar
    <3>2. [at EXCEPT !.eol = TRUE].row = at.row
      BY <2>1 DEF Cursor
    <3>3. Placed(at.row, at.col + 1).row = at.row
      BY <2>1, Sizes DEF Placed, Clamp, Cursor
    <3> QED
      BY <3>1, <3>2, <3>3
  <2>3. Outside => mark' = mark
    <3>1. SUFFICES ASSUME Outside PROVE mark' = mark
      OBVIOUS
    <3>2. m = mark
      BY <1>1, <3>1, WrapStays
    <3>3. mark.row # at.row
      BY <2>1, <3>1 DEF Outside
    <3>4. shifted = mark
      BY <3>2, <3>3 DEF Inserted
    <3>5. mark' = Filled(shifted, at.col, at.row, at.col, at.row)
      BY <1>4 DEF PrintChar
    <3>6. mark.row \in Int /\ at.row \in Int
      BY <2>1, Types, Sizes DEF Mark, Cursor
    <3> QED
      BY <3>3, <3>4, <3>5, <3>6 DEF Filled
  <2> QED
    BY <1>4, <2>1, <2>2, <2>3 DEF PrintChar, InRegion
<1>5. CASE Backspace
  BY <1>1, <1>2, <1>3, <1>5 DEF Backspace
<1>6. CASE CarriageReturn \/ LineFeed \/ ReverseLineFeed \/ NextLine \/ PreviousLine
  BY <1>1, <1>2, <1>6
     DEF CarriageReturn, LineFeed, ReverseLineFeed, NextLine, PreviousLine
<1>7. CASE Tab
  <2>1. PICK col \in Int : MoveTo(MovedLimited(cursor.row, col))
    BY <1>1, <1>7, Sizes DEF Tab
  <2> QED
    BY <1>1, <1>3, <2>1
<1> QED
  BY <1>4, <1>5, <1>6, <1>7 DEF Text

(***************************************************************************)
(* Text that comes in while the cursor is in the scroll region moves and   *)
(* changes nothing outside of it.                                          *)
(***************************************************************************)
THEOREM RegionKept == Spec => TextStaysInRegion
<1>1. TypeOK /\ [Next]_vars =>
        [Text /\ InRegion =>
           /\ InRegion'
           /\ mark.there /\ mark.row \notin region.top .. region.bottom => mark' = mark]_vars
  BY TextStays DEF Outside
<1> QED
  BY <1>1, CursorOnScreen, PTL DEF Spec, TextStaysInRegion
=============================================================================
