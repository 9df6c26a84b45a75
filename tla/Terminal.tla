------------------------------ MODULE Terminal ------------------------------
(***************************************************************************)
(* tty.c.  A terminal is its row and its column, both size_t, and the      *)
(* characters on the screen; colours are left out.                         *)
(***************************************************************************)
EXTENDS Integers, Sequences

CONSTANTS
    VGA_WIDTH,   \* 80
    VGA_HEIGHT,  \* 25
    Word         \* values of size_t: 2^32

ASSUME TerminalAssumption ==
    /\ VGA_WIDTH \in Nat \ {0} /\ VGA_HEIGHT \in Nat \ {0}
    /\ Word \in Nat /\ Word > VGA_WIDTH * VGA_HEIGHT

Screen == 0..(VGA_WIDTH * VGA_HEIGHT - 1)
terminal_initialize == [row |-> 0, column |-> 0, buffer |-> [i \in Screen |-> " "]]

(* Where the next character goes.                                          *)
Index(t) == (t.row * VGA_WIDTH + t.column) % Word

(* A cell behind the screen is not shown.                                  *)
terminal_putentryat(t, c) ==
    IF Index(t) \in Screen THEN [t EXCEPT !.buffer[Index(t)] = c] ELSE t

terminal_scrollup(t) ==
    [t EXCEPT !.buffer = [i \in Screen |-> IF i + VGA_WIDTH \in Screen
                                           THEN @[i + VGA_WIDTH] ELSE " "]]

NewRow(t) ==
    LET down == [t EXCEPT !.column = 0, !.row = (@ + 1) % Word]
    IN  IF down.row = VGA_HEIGHT THEN [terminal_scrollup(down) EXCEPT !.row = @ - 1]
                                 ELSE down

terminal_putchar(t, c) ==
    IF c = "\r" THEN [t EXCEPT !.column = 0]
    ELSE IF c = "\n" THEN NewRow(t)
    ELSE LET put == [terminal_putentryat(t, c) EXCEPT !.column = (@ + 1) % Word]
         IN  IF put.column = VGA_WIDTH THEN NewRow(put) ELSE put

(* The terminal after each of the characters.                              *)
terminal_write(t, data) ==
    LET after[i \in 0..Len(data)] ==
            IF i = 0 THEN t ELSE terminal_putchar(after[i - 1], data[i])
    IN  after[Len(data)]

(* Mutant: the column stays at 0, with the test as it was meant.           *)
terminal_deletechar_Stop(t) ==
    LET back == [t EXCEPT !.column = IF @ = 0 THEN 0 ELSE @ - 1]
    IN  terminal_putentryat(back, " ")

(* The column is unsigned: it is never "< 0" but wraps around, and with it *)
(* the index.                                                              *)
terminal_deletechar(t) ==
    LET back == [t EXCEPT !.column = (@ - 1) % Word]
    IN  terminal_putentryat(back, " ")
==============================================================================
