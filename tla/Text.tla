-------------------------------- MODULE Text --------------------------------
(***************************************************************************)
(* The string functions of kernel/utils.c, as operators.  A character is   *)
(* its code and a string the sequence of the characters before its NUL.    *)
(* Integers are BITS wide.                                                 *)
(***************************************************************************)
EXTENDS Integers, SequencesExt

CONSTANTS
  BITS,                        \* width of an int
  TOKCOUNT, TOKLEN,            \* UTILS_SPLIT_TOKCOUNT, UTILS_SPLIT_TOKLEN
  RASIZE                       \* size of utils_RABuffer

ASSUME TextAssumption == BITS >= 7 /\ TOKCOUNT > 0 /\ TOKLEN > 1 /\ RASIZE > BITS

NUL == 0
TAB == 9
NL == 10
Space == 32
Percent == 37
Plus == 43
Minus == 45
Zero == 48
IsDigit(c) == c \in Zero .. Zero + 9

Wrap(n) == ((n + 2 ^ (BITS - 1)) % 2 ^ BITS) - 2 ^ (BITS - 1)
Unsigned(n) == n % 2 ^ BITS
IntMin == - 2 ^ (BITS - 1)

\* C divides towards zero.
CDiv(a, b) == IF a >= 0 THEN a \div b ELSE - ((- a) \div b)
CRem(a, b) == a - b * CDiv(a, b)

-----------------------------------------------------------------------------
(* Numbers *)

\* Mutant: one digit is left out when the number is negative.
utils_itoa_NoSign(num) ==
  LET Count[n \in Int] == IF CDiv(n, 10) = 0 THEN 1 ELSE 1 + Count[CDiv(n, 10)]
      Digits[k \in Nat, n \in Int] ==
        IF k = 0 THEN <<>> ELSE Append(Digits[k - 1, CDiv(n, 10)], Zero + CRem(n, 10))
  IN IF num < 0 THEN <<Minus>> \o Digits[Count[num] - 1, Wrap(- num)]
     ELSE Digits[Count[num], num]

\* The digits are counted first, then written from the last one on.  The
\* smallest integer has no negative: its digits are below '0'.
utils_itoa(num) ==
  LET Count[n \in Int] == IF CDiv(n, 10) = 0 THEN 1 ELSE 1 + Count[CDiv(n, 10)]
      Digits[k \in Nat, n \in Int] ==
        IF k = 0 THEN <<>> ELSE Append(Digits[k - 1, CDiv(n, 10)], Zero + CRem(n, 10))
  IN IF num < 0 THEN <<Minus>> \o Digits[Count[num], Wrap(- num)]
     ELSE Digits[Count[num], num]

HexDigit(d) == IF d < 10 THEN Zero + d ELSE 65 + d - 10

utils_xtoa(num) ==
  LET Digits[n \in Nat] == IF n = 0 THEN <<>> ELSE Append(Digits[n \div 16], HexDigit(n % 16))
  IN IF num = 0 THEN <<Zero>> ELSE Digits[num]

utils_oct2bin(str, len) == FoldLeft(LAMBDA n, c : Wrap(n * 8 + c - Zero), 0, SubSeq(str, 1, len))

\* Blanks, one sign, and digits up to the first other character.
atoi(str) ==
  LET blanks == SelectInSeq(str \o <<NUL>>, LAMBDA c : c # Space) - 1
      signed == SubSeq(str, blanks + 1, Len(str)) \o <<NUL>>
      digits == IF signed[1] \in {Plus, Minus} THEN Tail(signed) ELSE signed
      count == SelectInSeq(digits, LAMBDA c : ~ IsDigit(c)) - 1
      value == FoldLeft(LAMBDA n, c : Wrap(n * 10 + c - Zero), 0, SubSeq(digits, 1, count))
  IN IF signed[1] = Minus THEN Wrap(- value) ELSE value

-----------------------------------------------------------------------------
(* split *)

\* Mutant: a token may fill its row, and takes one character more.
Room_Whole(t) == Len(t) < TOKLEN
Room(t) == Len(t) < TOKLEN - 1

\* Tokens so far and the one under way; a character without room is dropped.
split(str, deli) ==
  LET Feed(s, c) ==
        IF Len(s.toks) >= TOKCOUNT THEN s
        ELSE IF c = deli
        THEN IF s.tok = <<>> THEN s ELSE [toks |-> Append(s.toks, s.tok), tok |-> <<>>]
        ELSE IF Room(s.tok) THEN [s EXCEPT !.tok = Append(@, c)] ELSE s
      end == FoldLeft(Feed, [toks |-> <<>>, tok |-> <<>>], str)
  IN IF end.tok # <<>> THEN Append(end.toks, end.tok) ELSE end.toks

\* What a reader of the memory finds: up to the first NUL.
CString(s) == SubSeq(s, 1, SelectInSeq(s \o <<NUL>>, LAMBDA c : c = NUL) - 1)

-----------------------------------------------------------------------------
(* Formatting *)

\* An argument is a number, a string, or the address of utils_RABuffer.
RA == <<-1>>

\* size - 1 is unsigned: a size of zero is no limit.
Limit(size) == Unsigned(size - 1)

\* Mutant: the terminating NUL is forgotten.
Put_NoNul(out, s, size) == out \o SubSeq(s, 1, Min({Len(s), size - Len(out)}))

\* As much of s as there is room for.
Put(out, s, size) == out \o SubSeq(s, 1, Min({Len(s), Limit(size) - Len(out)}))

Full(out, size) == Len(out) >= Limit(size)

\* What a conversion prints; a number is formed in utils_RABuffer.
Number(c, arg) == IF c = 100 THEN utils_itoa(arg) ELSE utils_xtoa(Unsigned(arg))
Converted(c, arg, ra) ==
  CASE c \in {100, 120} -> Number(c, arg)
    [] c = 99 -> <<arg>>
    [] c = 115 -> IF arg = RA THEN ra ELSE arg

\* Mutant: a character is formed in the buffer, too.
Formed_Char(c, arg, ra) == IF c = 115 THEN ra ELSE Converted(c, arg, ra)
Formed(c, arg, ra) == IF c \in {100, 120} THEN Number(c, arg) ELSE ra

Conversion == {100, 120, 99, 115}
Started(args, ra) == [pending |-> FALSE, out |-> <<>>, args |-> args, ra |-> ra]

\* One character of the format; out is left with what it adds to the output.
Take(s, c, literal) ==
  IF ~ s.pending
  THEN [s EXCEPT !.pending = c = Percent, !.out = IF c = Percent THEN <<>> ELSE <<c>>]
  ELSE IF c \in Conversion
  THEN [pending |-> FALSE, args |-> Tail(s.args),
        out |-> Converted(c, Head(s.args), s.ra), ra |-> Formed(c, Head(s.args), s.ra)]
  ELSE [s EXCEPT !.pending = FALSE, !.out = literal]

\* The loop ends when the buffer is full; "%%" stays as it is.
snprintf(size, fmt, args, ra) ==
  FoldLeft(LAMBDA s, c : IF ~ s.pending /\ Full(s.out, size) THEN s
                         ELSE [Take(s, c, <<Percent, c>>) EXCEPT !.out = Put(s.out, @, size)],
           Started(args, ra), fmt)

\* "%%" is one percent sign; a format does not end in one.
printf(fmt, args, ra) ==
  FoldLeft(LAMBDA s, c : [Take(s, c, IF c = Percent THEN <<Percent>> ELSE <<Percent, c>>)
                            EXCEPT !.out = s.out \o @],
           Started(args, ra), fmt)

Units == << <<66>>, <<75, 66>>, <<77, 66>>, <<71, 66>>, <<84, 66>>, <<80, 66>> >>

Large(n) == n >= 1024

\* The text is put together in utils_RABuffer, where its number already is.
unit(size) ==
  LET Scaled[n \in Nat, k \in 1 .. 6] ==
        IF Large(n) /\ k < 6 THEN Scaled[n \div 1024, k + 1] ELSE <<n, k>>
      scaled == Scaled[size, 1]
  IN snprintf(RASIZE, <<Percent, 100, Percent, 115>>, <<scaled[1], Units[scaled[2]]>>, <<>>).out
=============================================================================
