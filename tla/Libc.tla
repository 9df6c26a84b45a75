-------------------------------- MODULE Libc --------------------------------
(***************************************************************************)
(* The formatting of libc: itoa, and printf with its conversions.  A text  *)
(* is a sequence of characters.                                            *)
(***************************************************************************)
EXTENDS Integers, Sequences, SequencesExt, FiniteSetsExt

CONSTANTS
    INT_MAX,     \* 2^31 - 1
    HexDigits,   \* digits of an unsigned int: 8
    FormatSize   \* items of the formats considered

ASSUME LibcAssumption == INT_MAX \in Nat /\ HexDigits \in Nat /\ FormatSize \in Nat

(* Arithmetic of int: overflow wraps, division rounds towards zero.        *)
Wrap(n) == ((n + INT_MAX + 1) % (2 * INT_MAX + 2)) - INT_MAX - 1
Quot(a, b) == IF (a < 0) = (b < 0) THEN (IF a < 0 THEN -a ELSE a) \div (IF b < 0 THEN -b ELSE b)
              ELSE -((IF a < 0 THEN -a ELSE a) \div (IF b < 0 THEN -b ELSE b))

Digit == <<"0", "1", "2", "3", "4", "5", "6", "7", "8", "9", "a", "b", "c", "d", "e", "f">>
printf_hexdigit(d) == Digit[d + 1]

(* The digits itoa writes, the last one first, and their reversal.         *)
RECURSIVE Digits(_, _)
Digits(num, base) ==
    IF num = 0 THEN <<>>
    ELSE <<printf_hexdigit(num - base * Quot(num, base))>> \o Digits(Quot(num, base), base)
itoa(num, base) ==
    IF num = 0 THEN <<"0">>
    ELSE IF num < 0 /\ base = 10 THEN <<"-">> \o Reverse(Digits(Wrap(-num), base))
    ELSE Reverse(Digits(num, base))

(* printf_int looks for the power of ten above the number, then divides by *)
(* the ones below.                                                         *)
RECURSIVE PowerAbove(_, _)
PowerAbove(i, f) == IF Quot(i, f) > 0 THEN PowerAbove(i, Wrap(f * 10)) ELSE f
RECURSIVE Downwards(_, _)
Downwards(i, f) ==
    IF f <= 0 THEN <<>>
    ELSE <<printf_hexdigit(Quot(i, f))>> \o Downwards(i - Quot(i, f) * f, Quot(f, 10))

(* Mutant: the power is not reduced to the one below.                      *)
printf_int_Above(n) ==
    LET i == IF n < 0 THEN Wrap(-n) ELSE n
    IN  (IF n < 0 THEN <<"-">> ELSE <<>>) \o Downwards(i, PowerAbove(i, 1))

printf_int(n) ==
    LET i == IF n < 0 THEN Wrap(-n) ELSE n
        f == Quot(PowerAbove(i, 1), 10)
    IN  (IF n < 0 THEN <<"-">> ELSE <<>>) \o Downwards(i, IF f = 0 THEN 1 ELSE f)

printf_hex(n) == 
    [k \in 1..HexDigits |-> printf_hexdigit((n \div (16 ^ (HexDigits - k))) % 16)]
------------------------------------------------------------------------------
(* printf: literal runs, which end at a "%", and conversions; after a bad  *)
(* one, everything is literal.  A "%" that follows a "%" starts a run.     *)
RunLength(format) ==
    LET stops == {k \in 2..Len(format) : format[k] = "%"}
    IN  IF stops = {} THEN Len(format) ELSE Min(stops) - 1
Convert(c, arg) ==
    CASE c = "c" -> <<arg>> [] c = "s" -> arg
      [] c = "d" -> printf_int(arg) [] c = "x" -> printf_hex(arg)
RECURSIVE PrintfFrom(_, _, _)
PrintfFrom(format, args, rejected) ==
    LET Literal(text, bad) ==
            SubSeq(text, 1, RunLength(text))
                \o PrintfFrom(SubSeq(text, RunLength(text) + 1, Len(text)), args, bad)
        next == IF Len(format) > 1 THEN format[2] ELSE "end"
    IN  CASE format = <<>> -> <<>>
          [] format # <<>> /\ format[1] # "%" -> Literal(format, rejected)
          [] format # <<>> /\ format[1] = "%" /\ next = "%" -> Literal(Tail(format), rejected)
          [] format # <<>> /\ format[1] = "%" /\ next # "%"
             /\ (rejected \/ next \notin {"c", "s", "d", "x"}) -> Literal(format, TRUE)
          [] OTHER ->
                Convert(next, Head(args))
                    \o PrintfFrom(SubSeq(format, 3, Len(format)), Tail(args), rejected)
printf(format, args) == PrintfFrom(format, args, FALSE)
------------------------------------------------------------------------------
(* The number that a text denotes, without a zero in front.                *)
Value(c) == CHOOSE d \in 0..15 : Digit[d + 1] = c
Denotes(text, n, base) ==
    LET digits == IF text[1] = "-" THEN Tail(text) ELSE text
        sum == FoldLeft(LAMBDA m, c : base * m + Value(c), 0, digits)
    IN  /\ n = IF text[1] = "-" THEN -sum ELSE sum
        /\ Len(digits) > 1 => digits[1] # "0"
MaxPower == CHOOSE p \in {10 ^ k : k \in 0..9} : p <= INT_MAX /\ 10 * p > INT_MAX

(* Items of a format: how they are written, their argument, and what they  *)
(* print.                                                                  *)
Item(text, args, out) == [text |-> text, args |-> args, out |-> out]
Items ==
    <<Item(<<"a">>, <<>>, <<"a">>), Item(<<"d">>, <<>>, <<"d">>),
      Item(<<"%", "%">>, <<>>, <<"%">>),
      Item(<<"%", "c">>, <<"%">>, <<"%">>), Item(<<"%", "s">>, <<<<"%", "d">>>>, <<"%", "d">>),
      Item(<<"%", "d">>, <<-70>>, <<"-", "7", "0">>)>>
Joined(picks, field) == FlattenSeq([k \in DOMAIN picks |-> Items[picks[k]][field]])

(* What is printed denotes the number, up to the largest power of ten an   *)
(* int can hold for printf_int, whose power overflows beyond; and printf   *)
(* prints literals, doubled percent signs and arguments in their order.    *)
FormatRight ==
    /\ \A n \in -INT_MAX..INT_MAX : Denotes(itoa(n, 10), n, 10)
    /\ \A n \in 0..INT_MAX : Denotes(itoa(n, 16), n, 16)
    /\ \A n \in (1 - MaxPower)..(MaxPower - 1) : Denotes(printf_int(n), n, 10)
    /\ \A n \in 0..INT_MAX : Denotes(<<"1">> \o printf_hex(n), 16 ^ HexDigits + n, 16)
    /\ \A picks \in SeqOf(DOMAIN Items, FormatSize) :
           printf(Joined(picks, "text"), Joined(picks, "args")) = Joined(picks, "out")
============================================================================
