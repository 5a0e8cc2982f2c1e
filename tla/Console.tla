------------------------------ MODULE Console -------------------------------
(***************************************************************************)
(* The text console (kernel/console.c) and the calls that print or format  *)
(* text, with the buffer that the conversions share.  A call runs to its   *)
(* end without giving up the processor.                                    *)
(***************************************************************************)
EXTENDS Text

CONSTANTS
  WIDTH, HEIGHT,               \* CONSOLE_WIDTH, CONSOLE_HEIGHT
  Cursors,                     \* where the boot loader may leave the cursor
  Strings, Formats,            \* what is printed; a format is <<format, arguments>>
  Sizes, UnitSizes,            \* buffer sizes, sizes to print
  Lengths, Delimiter,          \* for nputs and split
  MaxCalls                     \* bound on calls that print

ASSUME ConsoleAssumption == WIDTH % 8 = 0 /\ WIDTH > 0 /\ HEIGHT > 0 /\ Cursors \subseteq Nat

Cells == WIDTH * HEIGHT
Unset == 2 ^ 16 - 1
console_Color == 7
Old == 1                       \* what the boot loader left on the screen

VARIABLES
  screen,          \* [mem, cursor, hw, stray]: console_Memory, console_Cursor, the
                   \* cursor of the hardware, and whether a write missed the screen
  utils_RABuffer,
  last,            \* ghost: the last call, its arguments and its result
  output, origin, under,   \* ghosts: characters printed since the screen was clear,
                           \* where the first one went, and what lay on the screen
  calls

consolevars == <<screen, utils_RABuffer, last, output, origin, under, calls>>

-----------------------------------------------------------------------------
(* console.c *)

\* The first call takes the cursor of the hardware as it is.
console_update(s) ==
  IF s.cursor = Unset THEN [s EXCEPT !.cursor = s.hw]
  ELSE LET c == Min({s.cursor, Cells - 1}) IN [s EXCEPT !.cursor = c, !.hw = c]

console_scroll(s) ==
  [s EXCEPT !.mem = [i \in 0 .. Cells - 1 |->
                       IF i + WIDTH < Cells THEN s.mem[i + WIDTH] ELSE <<console_Color, NUL>>]]

console_clear(s) ==
  console_update([console_update(s) EXCEPT !.mem = [i \in 0 .. Cells - 1 |-> <<0, NUL>>],
                                           !.cursor = 0])

\* A character is signed: from 128 on its sign covers the colour.
Cell(c) == <<IF c >= 128 THEN 255 ELSE console_Color, c>>

PutCell(s, c) ==
  LET next == [s EXCEPT !.cursor = (@ + 1) % 2 ^ 16] IN
  IF s.cursor \in DOMAIN s.mem THEN [next EXCEPT !.mem[s.cursor] = Cell(c)]
  ELSE [next EXCEPT !.stray = TRUE]

TabLength(cursor) == 8 - (cursor % 8)

\* Mutant: the screen is scrolled when the cursor is past its first cell below.
AtEnd_Late(cursor) == cursor > Cells
AtEnd(cursor) == cursor >= Cells

PrintChar(s, c) ==
  LET moved == CASE c = NL -> [s EXCEPT !.cursor = (s.cursor \div WIDTH + 1) * WIDTH]
                 [] c = TAB -> FoldLeft(LAMBDA t, i : PutCell(t, Space), s,
                                        [i \in 1 .. TabLength(s.cursor) |-> i])
                 [] OTHER -> PutCell(s, c)
  IN IF AtEnd(moved.cursor)
     THEN [console_scroll(moved) EXCEPT !.cursor = (HEIGHT - 1) * WIDTH]
     ELSE moved

\* A NUL ends the call before its last update.
console_print(s, str, len) ==
  LET text == CString(SubSeq(str, 1, len))
      printed == FoldLeft(PrintChar, console_update(s), text)
  IN IF Len(text) < len THEN printed ELSE console_update(printed)

-----------------------------------------------------------------------------
(* Printing *)

putchar(s, chr) == IF chr = NUL THEN s ELSE console_print(s, <<chr>>, 1)
puts(s, str) == FoldLeft(putchar, s, str)

Printable(str) == SelectSeq(str, LAMBDA c : c # NUL)

\* A call has put str out.
Shows(str) ==
  /\ calls < MaxCalls
  /\ calls' = calls + 1
  /\ screen' = puts(screen, str)
  /\ output' = output \o Printable(str)
  /\ origin' = IF screen.cursor = Unset THEN screen.hw ELSE origin
  /\ UNCHANGED under

Nothing == [call |-> "none"]

\* nputs prints a given number of characters, NULs left out.
Puts ==
  \E str \in Strings :
    /\ \/ Shows(CString(str))
       \/ \E len \in Lengths : len < Len(str) /\ Shows(SubSeq(str, 1, len))
    /\ last' = Nothing
    /\ UNCHANGED utils_RABuffer

\* Number conversions leave their digits in the buffer.
Printf ==
  \E f \in Formats :
    LET p == printf(f[1], f[2], utils_RABuffer) IN
    /\ Shows(p.out)
    /\ last' = [call |-> "printf", fmt |-> f[1], args |-> f[2], ra |-> utils_RABuffer, out |-> p.out]
    /\ utils_RABuffer' = p.ra

Clear ==
  /\ calls < MaxCalls
  /\ calls' = calls + 1
  /\ screen' = console_clear(screen)
  /\ output' = <<>> /\ origin' = 0 /\ under' = NUL
  /\ last' = Nothing
  /\ UNCHANGED utils_RABuffer

Unit ==
  /\ calls < MaxCalls
  /\ calls' = calls + 1
  /\ \E size \in UnitSizes :
       /\ utils_RABuffer' = unit(size)
       /\ last' = [call |-> "unit", size |-> size]
  /\ UNCHANGED <<screen, output, origin, under>>

-----------------------------------------------------------------------------
(* Calls that neither read nor keep state: it is enough to make them first. *)

\* The size field of a tar header.
Octal(n) == [i \in 1 .. 3 |-> Zero + ((n \div 8 ^ (3 - i)) % 8)]

Call(record) == last' = record /\ UNCHANGED <<screen, utils_RABuffer, output, origin, under, calls>>

Convert ==
  /\ calls = 0 /\ last = Nothing
  /\ \/ \E n \in IntMin .. - IntMin - 1 :
          Call([call |-> "number", num |-> n, dec |-> utils_itoa(n), hex |-> utils_xtoa(Unsigned(n)),
                back |-> atoi(utils_itoa(n)), oct |-> utils_oct2bin(Octal(Unsigned(n)), 3)])
     \/ \E str \in Strings : Call([call |-> "split", str |-> CString(str),
                                   toks |-> split(CString(str), Delimiter)])
     \/ \E f \in Formats, size \in Sizes :
          Call([call |-> "snprintf", size |-> size, fmt |-> f[1], args |-> f[2],
                out |-> snprintf(size, f[1], f[2], utils_RABuffer).out])

ConsoleInit ==
  /\ \E c \in Cursors :
       screen = [mem |-> [i \in 0 .. Cells - 1 |-> <<console_Color, Old>>],
                 cursor |-> Unset, hw |-> c, stray |-> FALSE]
  /\ utils_RABuffer = <<>>
  /\ last = Nothing
  /\ output = <<>> /\ origin = 0 /\ under = Old
  /\ calls = 0

ConsoleNext == Puts \/ Printf \/ Clear \/ Unit \/ Convert

ConsoleSpec == ConsoleInit /\ [][ConsoleNext]_consolevars

-----------------------------------------------------------------------------
(* Properties *)

\* The screen is the last HEIGHT rows of all that was printed, laid out on a
\* paper without end: what is on it depends neither on how the text was cut
\* into calls nor on when it was scrolled, and nothing is written beside it.
ShowsTail ==
  LET Paper[k \in 0 .. Len(output)] ==
        IF k = 0 THEN origin
        ELSE CASE output[k] = NL -> (Paper[k - 1] \div WIDTH + 1) * WIDTH
               [] output[k] = TAB -> (Paper[k - 1] \div 8 + 1) * 8
               [] OTHER -> Paper[k - 1] + 1
      top == Max({0, Paper[Len(output)] \div WIDTH - (HEIGHT - 1)}) * WIDTH
      Written(p) == {k \in 1 .. Len(output) : p \in Paper[k - 1] .. Paper[k] - 1 /\ output[k] # NL}
      Expected(p) ==
        IF Written(p) # {}
        THEN LET c == output[CHOOSE k \in Written(p) : TRUE] IN IF c = TAB THEN Space ELSE c
        ELSE IF p < Cells THEN under ELSE NUL
  IN /\ ~ screen.stray
     /\ \A i \in 0 .. Cells - 1 :
          /\ screen.mem[i][2] = Expected(top + i)
          /\ screen.mem[i][2] \in Space .. 127 => screen.mem[i][1] = console_Color
     /\ screen.cursor # Unset => screen.cursor = Paper[Len(output)] - top

\* utils_itoa, utils_xtoa, utils_oct2bin and atoi: every integer but the
\* smallest has its one decimal numeral, and comes back from it; octal and
\* hexadecimal ones are right for all, read and written without a sign.  unit
\* gives the largest unit of which there is at least one, rounded down.
NumbersRight ==
  LET Value(s, base, Digit(_)) == FoldLeft(LAMBDA n, c : n * base + Digit(c), 0, s)
      Decimal(c) == c - Zero
      Hex(c) == IF IsDigit(c) THEN c - Zero ELSE c - 55
      Shortest(s) == Head(s) = Zero => Len(s) = 1
  IN /\ last.call = "number" =>
          LET digits == IF last.num < 0 THEN Tail(last.dec) ELSE last.dec IN
          /\ Value(last.hex, 16, Hex) = Unsigned(last.num) /\ Shortest(last.hex)
          /\ last.oct = last.num
          /\ last.num # IntMin =>
               /\ \A i \in DOMAIN digits : IsDigit(digits[i])
               /\ Value(digits, 10, Decimal) = IF last.num < 0 THEN - last.num ELSE last.num
               /\ Shortest(digits)
               /\ (last.dec[1] = Minus) = (last.num < 0)
               /\ last.back = last.num
     /\ last.call = "unit" =>
          LET digits == SelectSeq(utils_RABuffer, IsDigit)
              n == Value(digits, 10, Decimal)
          IN \E k \in 1 .. 3 :
               /\ utils_RABuffer = digits \o Units[k]
               /\ n = last.size \div 1024 ^ (k - 1)
               /\ n < 1024 /\ (k > 1 => n > 0)

\* split: the runs of characters between delimiters, the first TOKCOUNT of
\* them and each cut to what a row holds beside its NUL.
SplitRight ==
  last.call = "split" =>
    LET s == <<Delimiter>> \o last.str \o <<Delimiter>>
        starts == {i \in 2 .. Len(s) : s[i] # Delimiter /\ s[i - 1] = Delimiter}
        Ends(i) == Min({j \in i .. Len(s) : s[j] = Delimiter}) - 1
        Nth(n) == CHOOSE i \in starts : Cardinality({j \in starts : j < i}) = n - 1
    IN last.toks = [n \in 1 .. Min({TOKCOUNT, Cardinality(starts)}) |->
                      SubSeq(s, Nth(n), Min({Ends(Nth(n)), Nth(n) + TOKLEN - 2}))]

\* snprintf writes what fits beside the NUL, and all of it, for every size but
\* zero.
Truncates ==
  last.call = "snprintf" /\ last.size > 0 =>
    LET whole == snprintf(2 ^ (BITS - 1), last.fmt, last.args, <<>>).out
    IN last.out = SubSeq(whole, 1, Min({Len(whole), last.size - 1}))

\* The text that unit left in utils_RABuffer is printed as it was where no
\* number of the same call is printed before it, as all callers have it.
BufferSurvives ==
  last.call = "printf" =>
    LET spec == SelectSeq([i \in 1 .. Len(last.fmt) - 1 |->
                             IF last.fmt[i] = Percent THEN last.fmt[i + 1] ELSE NUL],
                          LAMBDA c : c \in Conversion)
        Buffer(i) == spec[i] = 115 /\ last.args[i] = RA
        values == [i \in DOMAIN last.args |-> IF Buffer(i) THEN last.ra ELSE last.args[i]]
    IN (\A i \in DOMAIN last.args : Buffer(i) => \A j \in 1 .. i : spec[j] \in {99, 115})
         => last.out = printf(last.fmt, values, <<>>).out
=============================================================================
