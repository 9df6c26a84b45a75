---------------------------- MODULE ConsoleProofs ----------------------------
(***************************************************************************)
(* The line editor of shell.c, the terminal and the serial echo, for every *)
(* size of the buffer, keyboard and screen: proofs about Console.          *)
(***************************************************************************)
EXTENDS Console, SequenceTheorems, WellFoundedInduction, TLAPS

KeysOK ==
    /\ held \subseteq Shift
    /\ shift_down \in BOOLEAN
    /\ ShiftHeld

LineOK ==
    /\ \E S : line \in Seq(S) /\ shell_buffer \in [0..(Size - 1) -> S]
    /\ Len(line) < Size
    /\ CommandIsTyped

(* The shift keys: shift_down is set by one that is then held, and cleared *)
(* by the release of either.                                               *)
LEMMA InitKeys == Init => KeysOK
BY DEF Init, KeysOK, ShiftHeld

LEMMA PressKeys == ASSUME KeysOK, NEW key \in Key, Press(key) PROVE KeysOK'
<1>1. held' = held \cup ({key} \cap Shift)
  BY DEF Press
<1>2. CASE key \in Shift \cup Dead
  <2>1. shift_down' = (shift_down \/ key \in Shift)
    BY <1>2 DEF Press
  <2> QED BY <1>1, <2>1, Zenon DEF KeysOK, ShiftHeld
<1>3. CASE key \notin Shift \cup Dead
  <2>1. shift_down' = shift_down
    BY <1>3 DEF Press
  <2> QED BY <1>1, <2>1, Zenon DEF KeysOK, ShiftHeld
<1> QED BY <1>2, <1>3

LEMMA ReleaseKeys == ASSUME KeysOK, NEW key \in Key, Release(key) PROVE KeysOK'
<1>1. held' = held \ {key} /\ shift_down' = (shift_down /\ key \notin Shift)
  BY DEF Release
<1>2. CASE key \in Shift
  BY <1>1, <1>2, Zenon DEF KeysOK, ShiftHeld
<1>3. CASE key \notin Shift
  <2>1. held' = held
    BY <1>1, <1>3 DEF KeysOK
  <2> QED BY <1>1, <1>3, <2>1, Zenon DEF KeysOK, ShiftHeld
<1> QED BY <1>2, <1>3

(* The echo of kernel_main leaves the shell alone.                         *)
LEMMA EchoKeeps == ASSUME Echo PROVE UNCHANGED keyvars
BY DEF Echo, EchoBegin, EchoPut, EchoAdvance, EchoColumn, EchoRow, EchoScroll, EchoBack

LEMMA NextKeys == ASSUME KeysOK, [Next]_vars PROVE KeysOK'
<1>1. ASSUME UNCHANGED keyvars PROVE KeysOK'
  BY <1>1 DEF keyvars, KeysOK, ShiftHeld
<1>2. CASE Echo
  BY <1>1, <1>2, EchoKeeps
<1>3. CASE UNCHANGED vars
  BY <1>1, <1>3 DEF vars
<1>4. ASSUME NEW key \in Key, Press(key) \/ Release(key) PROVE KeysOK'
  BY <1>4, PressKeys, ReleaseKeys
<1> QED BY <1>2, <1>3, <1>4 DEF Next

(* Whatever keys are pressed, repeated and released, also in the middle of *)
(* an echo, shift is on in ps2keyboard.c only while a shift key is held.   *)
THEOREM ShiftHeldTheorem == Spec => []ShiftHeld
<1>1. KeysOK => ShiftHeld
  BY DEF KeysOK
<1> QED BY <1>1, InitKeys, NextKeys, PTL DEF Spec
------------------------------------------------------------------------------
LEMMA InitLine == Init => LineOK
<1> SUFFICES ASSUME Init PROVE LineOK
  OBVIOUS
<1>1. shell_buffer = [i \in 0..(Size - 1) |-> NUL] /\ shell_buffer_len = 0 /\ line = <<>>
  BY DEF Init
<1>2. /\ line \in Seq({NUL}) /\ Len(line) = 0
      /\ shell_buffer \in [0..(Size - 1) -> {NUL}]
  BY <1>1
<1>3. 0 \in 0..(Size - 1) /\ Size \in Nat /\ 0 < Size
  BY ConsoleAssumption
<1>4. CommandIsTyped
  BY <1>1, <1>2, <1>3 DEF CommandIsTyped
<1>5. Len(line) < Size
  BY <1>2, <1>3
<1>6. \E S : line \in Seq(S) /\ shell_buffer \in [0..(Size - 1) -> S]
  BY <1>2, Zenon
<1> QED BY <1>4, <1>5, <1>6, Zenon DEF LineOK

LEMMA EnterLine == ASSUME LineOK, NEW out, Enter(out) PROVE LineOK'
<1>1. /\ shell_buffer' = [shell_buffer EXCEPT ![0] = NUL]
      /\ shell_buffer_len' = 0 /\ line' = <<>>
  BY DEF Enter
<1> PICK S : shell_buffer \in [0..(Size - 1) -> S]
  BY DEF LineOK
<1>2. line' \in Seq(S \cup {NUL}) /\ Len(line') = 0
  BY <1>1
<1>3. 0 \in 0..(Size - 1) /\ 0 < Size
  BY ConsoleAssumption
<1>4. shell_buffer' \in [0..(Size - 1) -> S \cup {NUL}] /\ shell_buffer'[0] = NUL
  BY <1>1, <1>3
<1>5. CommandIsTyped'
  BY <1>1, <1>2, <1>4 DEF CommandIsTyped
<1> QED BY <1>2, <1>3, <1>4, <1>5 DEF LineOK

LEMMA BackspaceLine == ASSUME LineOK, Backspace PROVE LineOK'
<1>1. CASE shell_buffer_len = 0
  <2>1. UNCHANGED <<shell_buffer, shell_buffer_len, line>>
    BY <1>1 DEF Backspace
  <2> QED BY <2>1 DEF LineOK, CommandIsTyped
<1>2. CASE shell_buffer_len # 0
  <2>1. /\ shell_buffer_len' = shell_buffer_len - 1
        /\ shell_buffer' = [shell_buffer EXCEPT ![shell_buffer_len'] = NUL]
        /\ line' = SubSeq(line, 1, Len(line) - 1)
    BY <1>2 DEF Backspace
  <2> PICK S : line \in Seq(S) /\ shell_buffer \in [0..(Size - 1) -> S]
    BY DEF LineOK
  <2>2. Len(line) \in Nat /\ shell_buffer_len = Len(line) /\ Len(line) > 0 /\ Len(line) < Size
    BY <1>2 DEF LineOK, CommandIsTyped
  <2> DEFINE n == Len(line) - 1
  <2>3. /\ line' \in Seq(S) /\ Len(line') = n
        /\ \A i \in 1..n : line'[i] = line[i]
    BY <2>1, <2>2, SubSeqProperties
  <2>3a. line' \in Seq(S \cup {NUL})
    BY <2>3
  <2>4. n \in 0..(Size - 1) /\ n \in Nat /\ Size \in Nat
    BY <2>2, ConsoleAssumption
  <2>5. /\ shell_buffer' \in [0..(Size - 1) -> S \cup {NUL}] /\ shell_buffer'[n] = NUL
        /\ \A i \in 0..(n - 1) : shell_buffer'[i] = shell_buffer[i]
    BY <2>1, <2>2, <2>4
  <2>6. \A i \in 1..n : shell_buffer[i - 1] = line[i]
    BY <2>2 DEF LineOK, CommandIsTyped
  <2>7. \A i \in 1..n : i - 1 \in 0..(n - 1)
    BY <2>4
  <2> HIDE DEF n
  <2>8. \A i \in 1..n : shell_buffer'[i - 1] = line'[i]
    BY <2>3, <2>5, <2>6, <2>7
  <2>9. CommandIsTyped'
    <3>1. shell_buffer_len' = n
      BY <2>1, <2>2 DEF n
    <3> QED BY <2>3, <2>5, <2>8, <3>1 DEF CommandIsTyped
  <2> QED BY <2>3, <2>3a, <2>4, <2>5, <2>9 DEF LineOK
<1> QED BY <1>1, <1>2

LEMMA TypeLine == ASSUME LineOK, NEW c, Type(c) PROVE LineOK'
<1>1. /\ shell_buffer_len + 1 < Size
      /\ shell_buffer' = [shell_buffer EXCEPT ![shell_buffer_len] = c,
                                              ![shell_buffer_len + 1] = NUL]
      /\ shell_buffer_len' = shell_buffer_len + 1
      /\ line' = Append(line, c)
  BY DEF Type, LineFits
<1> PICK S : line \in Seq(S) /\ shell_buffer \in [0..(Size - 1) -> S]
  BY DEF LineOK
<1> DEFINE T == S \cup {c, NUL}
<1> DEFINE n == Len(line)
<1>2. n \in Nat /\ shell_buffer_len = n /\ n < Size
  BY DEF LineOK, CommandIsTyped
<1>3. line \in Seq(T) /\ c \in T
  OBVIOUS
<1>4. /\ line' \in Seq(T) /\ Len(line') = n + 1 /\ line'[n + 1] = c
      /\ \A i \in 1..n : line'[i] = line[i]
  BY <1>1, <1>3
<1>5. n \in 0..(Size - 1) /\ n + 1 \in 0..(Size - 1) /\ Size \in Nat
  BY <1>1, <1>2, ConsoleAssumption
<1> HIDE DEF n
<1>6. /\ shell_buffer' \in [0..(Size - 1) -> T]
      /\ shell_buffer'[n] = c /\ shell_buffer'[n + 1] = NUL
      /\ \A i \in 0..(n - 1) : shell_buffer'[i] = shell_buffer[i]
  <2>1. shell_buffer' = [[shell_buffer EXCEPT ![n] = c] EXCEPT ![n + 1] = NUL]
    BY <1>1, <1>2
  <2>2. [shell_buffer EXCEPT ![n] = c] \in [0..(Size - 1) -> T]
    BY <1>5
  <2> QED BY <1>2, <1>5, <2>1, <2>2
<1>7. \A i \in 1..n : shell_buffer[i - 1] = line[i] /\ i - 1 \in 0..(n - 1)
  BY <1>2 DEF LineOK, CommandIsTyped, n
<1>8. \A i \in 1..(n + 1) : shell_buffer'[i - 1] = line'[i]
  <2> SUFFICES ASSUME NEW i \in 1..(n + 1) PROVE shell_buffer'[i - 1] = line'[i]
    OBVIOUS
  <2>1. CASE i = n + 1
    BY <1>2, <1>4, <1>6, <2>1
  <2>2. CASE i # n + 1
    <3>1. i \in 1..n
      BY <1>2, <2>2
    <3> QED BY <3>1, <1>4, <1>6, <1>7
  <2> QED BY <2>1, <2>2
<1>9. CommandIsTyped'
  BY <1>1, <1>2, <1>4, <1>6, <1>8 DEF CommandIsTyped
<1> QED BY <1>4, <1>5, <1>6, <1>9 DEF LineOK

LEMMA NextLine == ASSUME LineOK, [Next]_vars PROVE LineOK'
<1>1. ASSUME UNCHANGED <<shell_buffer, shell_buffer_len, line>> PROVE LineOK'
  BY <1>1 DEF LineOK, CommandIsTyped
<1>2. CASE Echo
  BY <1>1, <1>2, EchoKeeps DEF keyvars
<1>3. CASE UNCHANGED vars
  BY <1>1, <1>3 DEF vars, keyvars
<1>4. ASSUME NEW key \in Key, Press(key) PROVE LineOK'
  <2>1. \/ UNCHANGED <<shell_buffer, shell_buffer_len, line>>
        \/ \E out \in Outputs \cup {<<>>} : Enter(out)
        \/ Backspace
        \/ Type(Char(key))
    BY <1>4 DEF Press
  <2> QED BY <1>1, <2>1, EnterLine, BackspaceLine, TypeLine
<1>5. ASSUME NEW key \in Key, Release(key) PROVE LineOK'
  BY <1>1, <1>5 DEF Release
<1> QED BY <1>2, <1>3, <1>4, <1>5 DEF Next

(* What shell_runcmd reads is what has been typed since the prompt and not *)
(* deleted, for every buffer size: the null bytes shell_putchar writes     *)
(* keep earlier lines out.                                                 *)
THEOREM CommandIsTypedTheorem == Spec => []CommandIsTyped
<1>1. LineOK => CommandIsTyped
  BY DEF LineOK
<1> QED BY <1>1, InitLine, NextLine, PTL DEF Spec
------------------------------------------------------------------------------
(* Everything that is ever written.                                        *)
Glyphs ==
    {" ", ">", "\n", "\r"} \cup Serial \cup {scancode_map[k] : k \in Letter}
    \cup {shift_map[k] : k \in Letter}
    \cup UNION {{out[i] : i \in 1..Len(out)} : out \in Outputs}

(* A terminal whose row is on the screen.  The column may be anything.     *)
Terminals == [row : 0..(VGA_HEIGHT - 1), column : 0..(Word - 1), buffer : [Screen -> Glyphs]]

(* What terminal_putchar has still to do where its interruptible copy in   *)
(* kernel_main stands.                                                     *)
Advance(t) ==
    LET put == [t EXCEPT !.column = (@ + 1) % Word]
    IN  IF put.column = VGA_WIDTH THEN NewRow(put) ELSE put
Loaded == echo.row = term.row /\ echo.column = term.column
Printing == echo.c \in Glyphs \ {"\n", "\r"}

EchoOK ==
    /\ echo.at \in {"idle", "put", "advance", "column", "row", "scroll", "back"}
    /\ echo.at = "idle"    => term = whole
    /\ echo.at = "put"     => /\ term \in Terminals /\ Loaded /\ Printing
                              /\ whole = terminal_putchar(term, echo.c)
    /\ echo.at = "advance" => /\ term \in Terminals /\ Loaded /\ Printing
                              /\ whole = Advance(term)
    /\ echo.at = "column"  => /\ term \in Terminals /\ echo.row = term.row
                              /\ whole = IF echo.c = "\r" THEN [term EXCEPT !.column = 0]
                                                          ELSE NewRow(term)
    /\ echo.at = "row"     => /\ term \in Terminals /\ echo.row = term.row
                              /\ term.column = 0 /\ whole = NewRow(term)
    /\ echo.at = "scroll"  => /\ term.row = VGA_HEIGHT /\ "row" \in DOMAIN term
                              /\ whole = [terminal_scrollup(term) EXCEPT !.row = @ - 1]
    /\ echo.at = "back"    => term.row = VGA_HEIGHT /\ whole = [term EXCEPT !.row = @ - 1]

EInv == ~torn => whole \in Terminals /\ EchoOK

LEMMA Written ==
    /\ {" ", ">", "\n", "\r"} \subseteq Glyphs /\ Serial \subseteq Glyphs
    /\ \A key \in Letter : Char(key) \in Glyphs \ {"\n", "\r"}
    /\ \A out \in Outputs \cup {<<>>} : out \in Seq(Glyphs)
<1>1. {" ", ">", "\n", "\r"} \subseteq Glyphs /\ Serial \subseteq Glyphs
  BY DEF Glyphs
<1>2. ASSUME NEW key \in Letter PROVE Char(key) \in Glyphs \ {"\n", "\r"}
  <2> DEFINE C == STRING \ {"\n", "\r"}
  <2>a. scancode_map \in [Letter -> C] /\ shift_map \in [Letter -> C]
    BY ConsoleAssumption, Zenon
  <2>b. scancode_map[key] \in C /\ shift_map[key] \in C
    BY <2>a, Zenon
  <2>1. scancode_map[key] \notin {"\n", "\r"} /\ shift_map[key] \notin {"\n", "\r"}
    BY <2>b
  <2> QED BY <2>1 DEF Glyphs, Char
<1>3. ASSUME NEW out \in Outputs PROVE out \in Seq(Glyphs)
  <2>1. out \in Seq(STRING)
    BY ConsoleAssumption
  <2> DEFINE O(o) == {o[i] : i \in 1..Len(o)}
  <2>2. \A i \in 1..Len(out) : out[i] \in Glyphs
    <3>1. \A i \in 1..Len(out) : out[i] \in O(out)
      OBVIOUS
    <3>2. O(out) \in {O(o) : o \in Outputs}
      BY Zenon
    <3>3. UNION {O(o) : o \in Outputs} \subseteq Glyphs
      BY Zenon DEF Glyphs
    <3> HIDE DEF O
    <3> QED BY <3>1, <3>2, <3>3, Zenon
  <2> QED BY <2>1, <2>2
<1>4. <<>> \in Seq(Glyphs)
  OBVIOUS
<1> QED BY <1>1, <1>2, <1>3, <1>4

LEMMA PromptIs ==
    /\ Prompt \in Seq(Glyphs) /\ <<"\n">> \in Seq(Glyphs)
    /\ Len(Prompt) = 2 /\ Prompt[1] = ">" /\ Prompt[2] = " "
<1>1. ">" \in Glyphs /\ " " \in Glyphs /\ "\n" \in Glyphs
  BY DEF Glyphs
<1>2. ASSUME NEW a \in Glyphs, NEW b \in Glyphs
      PROVE  /\ <<a, b>> \in Seq(Glyphs) /\ <<a>> \in Seq(Glyphs)
             /\ Len(<<a, b>>) = 2 /\ <<a, b>>[1] = a /\ <<a, b>>[2] = b
  OBVIOUS
<1> QED BY <1>1, <1>2 DEF Prompt

LEMMA ScreenSizes ==
    /\ VGA_WIDTH \in Nat /\ VGA_HEIGHT \in Nat /\ Word \in Nat
    /\ VGA_WIDTH > 0 /\ VGA_HEIGHT > 0
    /\ VGA_WIDTH * VGA_HEIGHT \in Nat /\ VGA_WIDTH * VGA_HEIGHT < Word
    /\ VGA_WIDTH < Word /\ VGA_HEIGHT < Word
<1>1. \A a, b \in Nat \ {0} : a * b \in Nat /\ a <= a * b /\ b <= a * b
  <2> SUFFICES ASSUME NEW a \in Nat \ {0}, NEW b \in Nat \ {0}
               PROVE  a * b \in Nat /\ a <= a * b /\ b <= a * b
    OBVIOUS
  <2>1. a * b = (a - 1) * b + b /\ (a - 1) * b \in Nat
    OBVIOUS
  <2>2. a * b = a * (b - 1) + a /\ a * (b - 1) \in Nat
    OBVIOUS
  <2> QED BY <2>1, <2>2
<1> QED BY <1>1, TerminalAssumption

LEMMA PutEntryIs ==
    ASSUME NEW t \in Terminals, NEW c \in Glyphs
    PROVE  LET u == terminal_putentryat(t, c)
           IN  /\ u \in Terminals /\ u.row = t.row /\ u.column = t.column
               /\ Index(t) \in Screen => u.buffer = [t.buffer EXCEPT ![Index(t)] = c]
               /\ Index(t) \notin Screen => u = t
BY DEF Terminals, terminal_putentryat

LEMMA NewRowIs ==
    ASSUME NEW t \in Terminals
    PROVE  LET u == NewRow(t)
           IN  /\ u \in Terminals /\ u.column = 0
               /\ t.row + 1 = VGA_HEIGHT =>
                      u.row = t.row /\ u.buffer = [i \in Screen |-> IF i + VGA_WIDTH \in Screen
                                                     THEN t.buffer[i + VGA_WIDTH] ELSE " "]
               /\ t.row + 1 # VGA_HEIGHT => u.row = t.row + 1 /\ u.buffer = t.buffer
<1> DEFINE a == [t EXCEPT !.column = 0]
           d == [a EXCEPT !.row = (@ + 1) % Word]
           e == [d EXCEPT !.buffer = [i \in Screen |-> IF i + VGA_WIDTH \in Screen
                                                       THEN @[i + VGA_WIDTH] ELSE " "]]
           T == [row : Nat, column : 0..(Word - 1), buffer : [Screen -> Glyphs]]
<1>0. t.row \in 0..(VGA_HEIGHT - 1) /\ (t.row + 1) % Word = t.row + 1 /\ 0 \in 0..(Word - 1)
  BY ScreenSizes DEF Terminals
<1>1. a \in T /\ a.row = t.row /\ a.column = 0 /\ a.buffer = t.buffer
  BY <1>0, ScreenSizes DEF Terminals
<1>2. d \in T /\ d.row = t.row + 1 /\ d.column = 0 /\ d.buffer = t.buffer
  <2> HIDE DEF a
  <2> QED BY <1>0, <1>1
<1>3. NewRow(t) = IF d.row = VGA_HEIGHT THEN [e EXCEPT !.row = @ - 1] ELSE d
  BY DEF NewRow, terminal_scrollup
<1> HIDE DEF d
<1>4. CASE t.row + 1 = VGA_HEIGHT
  <2> DEFINE up == [i \in Screen |-> IF i + VGA_WIDTH \in Screen
                                      THEN t.buffer[i + VGA_WIDTH] ELSE " "]
  <2>a. t.buffer \in [Screen -> Glyphs]
    BY DEF Terminals
  <2>b. up \in [Screen -> Glyphs]
    BY <2>a, Written
  <2>c. e = [d EXCEPT !.buffer = up]
    BY <1>2
  <2> HIDE DEF e, up
  <2>d. e \in T /\ e.row = t.row + 1 /\ e.column = 0 /\ e.buffer = up
    BY <1>2, <2>b, <2>c
  <2>2. NewRow(t) = [e EXCEPT !.row = @ - 1]
    BY <1>2, <1>3, <1>4
  <2>3. /\ NewRow(t).row = t.row /\ NewRow(t).column = 0 /\ NewRow(t).buffer = up
        /\ NewRow(t) \in Terminals
    BY <1>0, <1>4, <2>d, <2>2, ScreenSizes DEF Terminals
  <2> QED BY <1>4, <2>3 DEF up
<1>5. CASE t.row + 1 # VGA_HEIGHT
  <2>1. NewRow(t) = d
    BY <1>2, <1>3, <1>5
  <2>2. d \in Terminals
    BY <1>0, <1>2, <1>5, ScreenSizes DEF Terminals
  <2> QED BY <1>2, <1>5, <2>1, <2>2
<1> QED BY <1>4, <1>5

LEMMA StepColumn ==
    ASSUME NEW t \in Terminals, NEW k \in {-1, 1}
    PROVE  LET u == [t EXCEPT !.column = (@ + k) % Word]
           IN  /\ u \in Terminals /\ u.row = t.row /\ u.buffer = t.buffer
               /\ u.column = (t.column + k) % Word
<1>1. (t.column + k) % Word \in 0..(Word - 1)
  BY ScreenSizes DEF Terminals
<1> QED BY <1>1 DEF Terminals

LEMMA AdvanceIn == ASSUME NEW t \in Terminals PROVE Advance(t) \in Terminals
BY StepColumn, NewRowIs DEF Advance

(* terminal_putchar of a character other than "\n" and "\r" is its cell    *)
(* and then the column.                                                    *)
LEMMA PutcharIs ==
    ASSUME NEW t \in Terminals, NEW c \in Glyphs
    PROVE  /\ terminal_putchar(t, c) \in Terminals
           /\ c \notin {"\n", "\r"} => terminal_putchar(t, c) = Advance(terminal_putentryat(t, c))
<1>1. CASE c = "\r"
  <2>1. 0 \in 0..(Word - 1)
    BY ScreenSizes
  <2> QED BY <1>1, <2>1 DEF terminal_putchar, Terminals
<1>2. CASE c = "\n"
  BY <1>2, NewRowIs DEF terminal_putchar
<1>3. CASE c \notin {"\n", "\r"}
  <2>1. terminal_putchar(t, c) = Advance(terminal_putentryat(t, c))
    BY <1>3 DEF terminal_putchar, Advance
  <2> QED BY <1>3, <2>1, PutEntryIs, AdvanceIn
<1> QED BY <1>1, <1>2, <1>3

LEMMA DeleteIn == ASSUME NEW t \in Terminals PROVE terminal_deletechar(t) \in Terminals
<1> DEFINE u == [t EXCEPT !.column = (@ - 1) % Word]
<1>1. u \in Terminals
  <2>1. (t.column - 1) % Word \in 0..(Word - 1)
    BY ScreenSizes DEF Terminals
  <2> QED BY <2>1 DEF Terminals
<1> HIDE DEF u
<1>2. terminal_putentryat(u, " ") \in Terminals
  BY <1>1, PutEntryIs, Written
<1>3. terminal_deletechar(t) = terminal_putentryat(u, " ")
  BY DEF terminal_deletechar, u
<1> QED BY <1>2, <1>3

LEMMA LeastNat ==
    ASSUME NEW S \in SUBSET Nat, S # {}
    PROVE  \E m \in S : \A k \in S : m <= k
<1> DEFINE R == {ss \in Nat \X Nat : ss[1] < ss[2]}
<1>1. IsWellFoundedOn(R, Nat)
  BY NatLessThanWellFounded, Zenon DEF OpToRel
<1> HIDE DEF R
<1>2. PICK m \in S : \A k \in S : ~(<<k, m>> \in R)
  BY <1>1, WFMin, Zenon
<1>3. \A k \in S : ~(k < m)
  BY <1>2 DEF R
<1> QED BY <1>3

(* terminal_write goes from character to character.                        *)
LEMMA WriteIs ==
    ASSUME NEW t, NEW data, Len(data) \in Nat
    PROVE  \E g : /\ g[0] = t
                  /\ \A i \in 1..Len(data) : g[i] = terminal_putchar(g[i - 1], data[i])
                  /\ terminal_write(t, data) = g[Len(data)]
<1> DEFINE N == Len(data)
           Is(f, n) == f = [i \in 0..n |-> IF i = 0 THEN t
                                           ELSE terminal_putchar(f[i - 1], data[i])]
           S == {n \in 0..N : ~\E f : Is(f, n)}
<1> HIDE DEF N
<1>0. N \in Nat
  BY DEF N
<1>1. S = {}
  <2> SUFFICES ASSUME S # {} PROVE FALSE
    OBVIOUS
  <2>1. S \in SUBSET Nat
    BY <1>0
  <2> HIDE DEF S
  <2>2. PICK n \in S : \A m \in S : n <= m
    BY <2>1, LeastNat
  <2>3. n \in 0..N /\ ~\E f : Is(f, n)
    BY DEF S
  <2>4. n # 0
    <3> SUFFICES ASSUME n = 0 PROVE FALSE
      OBVIOUS
    <3> DEFINE f == [i \in 0..0 |-> t]
    <3>1. \A i \in 0..0 : i = 0
      OBVIOUS
    <3>2. Is(f, 0)
      BY <3>1
    <3> QED BY <2>3, <3>2
  <2>5. n - 1 \in 0..N /\ ~(n <= n - 1) /\ n \in Nat
    BY <1>0, <2>3, <2>4
  <2>6. PICK f : Is(f, n - 1)
    <3>1. n - 1 \notin S
      BY <2>2, <2>5
    <3> QED BY <2>5, <3>1 DEF S
  <2> DEFINE h == [i \in 0..n |-> IF i = n THEN terminal_putchar(f[n - 1], data[n]) ELSE f[i]]
  <2>7. \A i \in 0..(n - 1) : f[i] = IF i = 0 THEN t ELSE terminal_putchar(f[i - 1], data[i])
    BY <2>6
  <2>8. \A i \in 0..n : h[i] = IF i = 0 THEN t ELSE terminal_putchar(h[i - 1], data[i])
    <3> SUFFICES ASSUME NEW i \in 0..n
                 PROVE  h[i] = IF i = 0 THEN t ELSE terminal_putchar(h[i - 1], data[i])
      OBVIOUS
    <3>1. i # 0 => i - 1 \in 0..n /\ i - 1 # n /\ h[i - 1] = f[i - 1]
      BY <2>5
    <3>2. CASE i = n
      <4>1. h[i] = terminal_putchar(f[n - 1], data[n])
        BY <3>2
      <4> QED BY <2>4, <3>1, <3>2, <4>1
    <3>3. CASE i # n
      <4>1. h[i] = f[i] /\ i \in 0..(n - 1)
        BY <2>5, <3>3
      <4> HIDE DEF h
      <4> QED BY <2>7, <3>1, <4>1
    <3> QED BY <3>2, <3>3
  <2>9. Is(h, n)
    <3>1. h = [i \in 0..n |-> h[i]]
      OBVIOUS
    <3> HIDE DEF h
    <3> QED BY <2>8, <3>1
  <2> QED BY <2>3, <2>9
<1> DEFINE g == CHOOSE f : Is(f, N)
<1>2. \E f : Is(f, N)
  BY <1>0, <1>1
<1>3. Is(g, N)
  BY <1>2, Zenon
<1>4. terminal_write(t, data) = g[N]
  BY DEF terminal_write, N
<1> HIDE DEF g
<1>5. \A i \in 0..N : g[i] = IF i = 0 THEN t ELSE terminal_putchar(g[i - 1], data[i])
  BY <1>3, Zenon
<1>6. g[0] = t /\ \A i \in 1..N : g[i] = terminal_putchar(g[i - 1], data[i])
  BY <1>0, <1>5
<1> QED BY <1>4, <1>6 DEF N

LEMMA WriteIn ==
    ASSUME NEW t \in Terminals, NEW data \in Seq(Glyphs)
    PROVE  terminal_write(t, data) \in Terminals
<1> DEFINE N == Len(data)
<1>0. N \in Nat
  OBVIOUS
<1>1. PICK g : /\ g[0] = t /\ terminal_write(t, data) = g[N]
               /\ \A i \in 1..N : g[i] = terminal_putchar(g[i - 1], data[i])
  BY <1>0, WriteIs
<1> DEFINE S == {i \in 0..N : g[i] \notin Terminals}
<1>2. S = {}
  <2> SUFFICES ASSUME S # {} PROVE FALSE
    OBVIOUS
  <2>1. PICK i \in S : \A j \in S : i <= j
    <3>1. S \in SUBSET Nat
      BY <1>0
    <3> HIDE DEF S
    <3> QED BY <3>1, LeastNat
  <2>2. i # 0
    BY <1>1, <2>1
  <2>3. i \in 1..N /\ i - 1 \in 0..N /\ ~(i <= i - 1) /\ data[i] \in Glyphs
    BY <1>0, <2>1, <2>2
  <2>4. g[i - 1] \in Terminals
    BY <2>1, <2>3
  <2> QED BY <1>1, <2>1, <2>3, <2>4, PutcharIs
<1> QED BY <1>0, <1>1, <1>2

(* A key: with no echo under way both terminals take what it shows.        *)
LEMMA PressEcho == ASSUME EInv, NEW key \in Key, Press(key) PROVE EInv'
<1>0. ASSUME ShowNothing PROVE EInv'
  BY <1>0 DEF ShowNothing, EInv, EchoOK, Loaded, Printing
<1>1. ~torn /\ echo.at = "idle" => term = whole /\ whole \in Terminals
  BY DEF EInv, EchoOK
<1>2. ASSUME NEW out \in Outputs \cup {<<>>}, Enter(out) PROVE EInv'
  <2> DEFINE data == <<"\n">> \o out \o Prompt
  <2>1. /\ term' = terminal_write(term, data) /\ torn' = (torn \/ echo.at # "idle")
        /\ whole' = (IF torn' THEN whole ELSE terminal_write(whole, data)) /\ echo' = echo
    BY <1>2 DEF Enter, Show
  <2>2. data \in Seq(Glyphs)
    <3>1. out \in Seq(Glyphs) /\ <<"\n">> \in Seq(Glyphs) /\ Prompt \in Seq(Glyphs)
      BY Written, PromptIs
    <3> QED BY <3>1
  <2> HIDE DEF data
  <2>3. whole \in Terminals => terminal_write(whole, data) \in Terminals
    BY <2>2, WriteIn
  <2> QED BY <1>1, <2>1, <2>3 DEF EInv, EchoOK
<1>3. ASSUME Backspace PROVE EInv'
  <2>1. CASE shell_buffer_len = 0
    BY <1>0, <1>3, <2>1 DEF Backspace
  <2>2. CASE shell_buffer_len # 0
    <3>1. /\ term' = terminal_deletechar(term) /\ torn' = (torn \/ echo.at # "idle")
          /\ whole' = (IF torn' THEN whole ELSE terminal_deletechar(whole)) /\ echo' = echo
      BY <1>3, <2>2 DEF Backspace, Show
    <3>2. whole \in Terminals => terminal_deletechar(whole) \in Terminals
      BY DeleteIn
    <3> QED BY <1>1, <3>1, <3>2 DEF EInv, EchoOK
  <2> QED BY <2>1, <2>2
<1>4. ASSUME NEW c \in Glyphs, Type(c) PROVE EInv'
  <2>1. /\ term' = terminal_putchar(term, c) /\ torn' = (torn \/ echo.at # "idle")
        /\ whole' = (IF torn' THEN whole ELSE terminal_putchar(whole, c)) /\ echo' = echo
    BY <1>4 DEF Type, Show
  <2>2. whole \in Terminals => terminal_putchar(whole, c) \in Terminals
    BY PutcharIs
  <2> QED BY <1>1, <2>1, <2>2 DEF EInv, EchoOK
<1>5. \/ ShowNothing
      \/ \E out \in Outputs \cup {<<>>} : Enter(out)
      \/ Backspace
      \/ key \in Letter /\ Type(Char(key))
  BY DEF Press
<1> QED BY <1>0, <1>2, <1>3, <1>4, <1>5, Written

LEMMA EchoEcho == ASSUME EInv, Echo PROVE EInv'
<1>0. SUFFICES ASSUME ~torn' PROVE whole' \in Terminals /\ EchoOK'
  BY DEF EInv
<1>1. torn' = torn
  BY DEF Echo, EchoBegin, EchoPut, EchoAdvance, EchoColumn, EchoRow, EchoScroll, EchoBack
<1>2. whole \in Terminals /\ EchoOK
  BY <1>0, <1>1 DEF EInv
<1>3. ASSUME NEW c \in Serial, EchoBegin(c) PROVE whole' \in Terminals /\ EchoOK'
  <2>1. /\ echo' = [at |-> IF c \in {"\n", "\r"} THEN "column" ELSE "put",
                    c |-> c, row |-> term.row, column |-> term.column]
        /\ term' = term /\ echo.at = "idle" /\ whole' = terminal_putchar(whole, c)
    BY <1>0, <1>1, <1>3 DEF EchoBegin
  <2>2. term = whole /\ c \in Glyphs
    BY <1>2, <2>1, Written DEF EchoOK
  <2>3. whole' \in Terminals
    BY <1>2, <2>1, <2>2, PutcharIs
  <2>4. /\ echo'.c = c /\ echo'.row = term'.row /\ echo'.column = term'.column
        /\ term' \in Terminals /\ whole' = terminal_putchar(term', c)
    BY <1>2, <2>1, <2>2
  <2>5. CASE c \in {"\n", "\r"}
    <3>1. echo'.at = "column"
      BY <2>1, <2>5
    <3>2. whole' = IF c = "\r" THEN [term' EXCEPT !.column = 0] ELSE NewRow(term')
      BY <2>4, <2>5 DEF terminal_putchar
    <3> QED BY <2>3, <2>4, <3>1, <3>2 DEF EchoOK
  <2>6. CASE c \notin {"\n", "\r"}
    <3>1. echo'.at = "put"
      BY <2>1, <2>6
    <3> QED BY <2>2, <2>3, <2>4, <2>6, <3>1 DEF EchoOK, Loaded, Printing
  <2> QED BY <2>5, <2>6
<1>4. CASE EchoPut
  <2>1. /\ echo.at = "put" /\ whole' = whole /\ echo' = [echo EXCEPT !.at = "advance"]
        /\ term' = [term EXCEPT !.buffer =
              terminal_putentryat([row |-> echo.row, column |-> echo.column, buffer |-> @],
                                  echo.c).buffer]
    BY <1>4 DEF EchoPut
  <2>2. /\ term \in Terminals /\ Loaded /\ Printing /\ whole = terminal_putchar(term, echo.c)
    BY <1>2, <2>1 DEF EchoOK
  <2>3. [row |-> echo.row, column |-> echo.column, buffer |-> term.buffer] = term
    BY <2>2 DEF Loaded, Terminals
  <2> DEFINE u == terminal_putentryat(term, echo.c)
  <2>4. u \in Terminals /\ u.row = term.row /\ u.column = term.column
    BY <2>2, PutEntryIs DEF Printing
  <2>5. whole = Advance(u)
    BY <2>2, PutcharIs DEF Printing
  <2> HIDE DEF u
  <2>6. term' = [term EXCEPT !.buffer = u.buffer]
    BY <2>1, <2>3 DEF u
  <2>7. term' = u
    BY <2>2, <2>4, <2>6 DEF Terminals
  <2>8. /\ echo'.at = "advance" /\ echo'.c = echo.c /\ echo'.row = echo.row
        /\ echo'.column = echo.column
    BY <2>1, <1>2 DEF EchoOK
  <2> QED BY <1>2, <2>1, <2>2, <2>4, <2>5, <2>7, <2>8 DEF EchoOK, Loaded, Printing
<1>5. CASE EchoAdvance
  <2>1. PICK column \in {echo.column, term.column} :
            /\ echo.at = "advance" /\ whole' = whole
            /\ term' = [term EXCEPT !.column = (column + 1) % Word]
            /\ echo' = IF term'.column = VGA_WIDTH THEN [echo EXCEPT !.at = "column"] ELSE Idle
    BY <1>5 DEF EchoAdvance
  <2>2. term \in Terminals /\ Loaded /\ Printing /\ whole = Advance(term)
    BY <1>2, <2>1 DEF EchoOK
  <2>3. term' = [term EXCEPT !.column = (@ + 1) % Word]
    BY <2>1, <2>2 DEF Loaded
  <2>4. term' \in Terminals /\ term'.row = term.row
    BY <2>2, <2>3, StepColumn
  <2>5. whole = IF term'.column = VGA_WIDTH THEN NewRow(term') ELSE term'
    BY <2>2, <2>3 DEF Advance
  <2>6. CASE term'.column = VGA_WIDTH
    <3>1. echo'.at = "column" /\ echo'.c = echo.c /\ echo'.row = echo.row
      BY <2>1, <2>6
    <3> QED BY <1>2, <2>1, <2>2, <2>4, <2>5, <2>6, <3>1 DEF EchoOK, Loaded, Printing
  <2>7. CASE term'.column # VGA_WIDTH
    <3>1. echo'.at = "idle"
      BY <2>1, <2>7 DEF Idle
    <3> QED BY <1>2, <2>1, <2>5, <2>7, <3>1 DEF EchoOK
  <2> QED BY <2>6, <2>7
<1>6. CASE EchoColumn
  <2>1. /\ echo.at = "column" /\ whole' = whole /\ term' = [term EXCEPT !.column = 0]
        /\ echo' = IF echo.c = "\r" THEN Idle ELSE [echo EXCEPT !.at = "row"]
    BY <1>6 DEF EchoColumn
  <2>2. /\ term \in Terminals /\ echo.row = term.row
        /\ whole = IF echo.c = "\r" THEN [term EXCEPT !.column = 0] ELSE NewRow(term)
    BY <1>2, <2>1 DEF EchoOK
  <2>3. term' \in Terminals /\ term'.row = term.row /\ term'.column = 0
    <3>1. 0 \in 0..(Word - 1)
      BY ScreenSizes
    <3> QED BY <2>1, <2>2, <3>1 DEF Terminals
  <2>4. CASE echo.c = "\r"
    <3>1. echo'.at = "idle" /\ whole' = term'
      BY <2>1, <2>2, <2>4 DEF Idle
    <3> QED BY <1>2, <2>1, <3>1 DEF EchoOK
  <2>5. CASE echo.c # "\r"
    <3>1. echo'.at = "row" /\ echo'.row = echo.row
      BY <2>1, <2>5
    <3>2. NewRow(term') = NewRow(term)
      <4>1. [term' EXCEPT !.column = 0] = term'
        BY <2>3 DEF Terminals
      <4>2. [term' EXCEPT !.column = 0] = [term EXCEPT !.column = 0]
        BY <2>1, <4>1
      <4> QED BY <4>2 DEF NewRow
    <3> QED BY <1>2, <2>1, <2>2, <2>3, <2>5, <3>1, <3>2 DEF EchoOK
  <2> QED BY <2>4, <2>5
<1>7. CASE EchoRow
  <2>1. PICK row \in {echo.row, term.row} :
            /\ echo.at = "row" /\ whole' = whole
            /\ term' = [term EXCEPT !.row = (row + 1) % Word]
            /\ echo' = IF term'.row = VGA_HEIGHT THEN [echo EXCEPT !.at = "scroll"] ELSE Idle
    BY <1>7 DEF EchoRow
  <2>2. /\ term \in Terminals /\ echo.row = term.row /\ term.column = 0 /\ whole = NewRow(term)
    BY <1>2, <2>1 DEF EchoOK
  <2>3. term' = [term EXCEPT !.row = (@ + 1) % Word]
    BY <2>1, <2>2
  <2>4. [term EXCEPT !.column = 0] = term
    BY <2>2 DEF Terminals
  <2>5. [term EXCEPT !.column = 0, !.row = (@ + 1) % Word] = term'
    <3>1. [term EXCEPT !.column = 0, !.row = (@ + 1) % Word]
              = [[term EXCEPT !.column = 0] EXCEPT !.row = (@ + 1) % Word]
      OBVIOUS
    <3> QED BY <2>3, <2>4, <3>1
  <2>6. whole = IF term'.row = VGA_HEIGHT THEN [terminal_scrollup(term') EXCEPT !.row = @ - 1]
                                          ELSE term'
    BY <2>2, <2>5 DEF NewRow
  <2>7. CASE term'.row = VGA_HEIGHT
    <3>1. echo'.at = "scroll" /\ "row" \in DOMAIN term'
      BY <2>1, <2>2, <2>7 DEF Terminals
    <3> QED BY <1>2, <2>1, <2>6, <2>7, <3>1 DEF EchoOK
  <2>8. CASE term'.row # VGA_HEIGHT
    <3>1. echo'.at = "idle"
      BY <2>1, <2>8 DEF Idle
    <3> QED BY <1>2, <2>1, <2>6, <2>8, <3>1 DEF EchoOK
  <2> QED BY <2>7, <2>8
<1>8. CASE EchoScroll
  <2>1. /\ echo.at = "scroll" /\ whole' = whole /\ term' = terminal_scrollup(term)
        /\ echo' = [echo EXCEPT !.at = "back"]
    BY <1>8 DEF EchoScroll
  <2>2. /\ term.row = VGA_HEIGHT /\ "row" \in DOMAIN term
        /\ whole = [terminal_scrollup(term) EXCEPT !.row = @ - 1]
    BY <1>2, <2>1 DEF EchoOK
  <2>3. term'.row = term.row
    BY <2>1, <2>2 DEF terminal_scrollup
  <2>4. echo'.at = "back"
    BY <2>1
  <2> QED BY <1>2, <2>1, <2>2, <2>3, <2>4 DEF EchoOK
<1>9. CASE EchoBack
  <2>1. PICK row \in {VGA_HEIGHT, term.row} :
            /\ echo.at = "back" /\ whole' = whole /\ echo' = Idle
            /\ term' = [term EXCEPT !.row = (row - 1) % Word]
    BY <1>9 DEF EchoBack
  <2>2. term.row = VGA_HEIGHT /\ whole = [term EXCEPT !.row = @ - 1]
    BY <1>2, <2>1 DEF EchoOK
  <2>3. (row - 1) % Word = term.row - 1
    BY <2>1, <2>2, ScreenSizes
  <2>4. term' = whole' /\ echo'.at = "idle"
    BY <2>1, <2>2, <2>3 DEF Idle
  <2> QED BY <1>2, <2>1, <2>4 DEF EchoOK
<1> QED BY <1>3, <1>4, <1>5, <1>6, <1>7, <1>8, <1>9 DEF Echo

LEMMA InitEcho == Init => EInv
<1> SUFFICES ASSUME Init PROVE EInv
  OBVIOUS
<1>1. terminal_initialize \in Terminals
  <2>1. 0 \in 0..(VGA_HEIGHT - 1) /\ 0 \in 0..(Word - 1) /\ " " \in Glyphs
    BY ScreenSizes DEF Glyphs
  <2>2. [i \in Screen |-> " "] \in [Screen -> Glyphs]
    BY <2>1
  <2> QED BY <2>1, <2>2 DEF terminal_initialize, Terminals
<1>2. Prompt \in Seq(Glyphs)
  BY PromptIs
<1>3. term \in Terminals /\ whole = term /\ echo.at = "idle"
  BY <1>1, <1>2, WriteIn DEF Init, Idle
<1> QED BY <1>3 DEF EInv, EchoOK

LEMMA NextEcho == ASSUME EInv, [Next]_vars PROVE EInv'
<1>1. ASSUME NEW key \in Key, Release(key) PROVE EInv'
  BY <1>1 DEF Release, ShowNothing, EInv, EchoOK, Loaded, Printing
<1>2. CASE UNCHANGED vars
  BY <1>2 DEF vars, EInv, EchoOK, Loaded, Printing
<1> QED BY <1>1, <1>2, PressEcho, EchoEcho DEF Next

(* As long as no key is shown in the middle of an echo, the statements of  *)
(* terminal_putchar in kernel_main, with rows and columns loaded early or  *)
(* late, come to the same as whole calls, and the row stays on the screen. *)
THEOREM EchoWholeTheorem == Spec => []EchoWhole
<1>1. EInv => EchoWhole
  BY DEF EInv, EchoOK, EchoWhole, Terminals
<1> QED BY <1>1, InitEcho, NextEcho, PTL DEF Spec
------------------------------------------------------------------------------
(* Where the cursor is, with a column below zero as terminal_deletechar    *)
(* leaves it counted from the row above.                                   *)
Pos(t) == t.row * VGA_WIDTH + (IF t.column < VGA_WIDTH THEN t.column ELSE t.column - Word)
Sound(t) == t \in Terminals /\ Pos(t) >= 0

(* Nothing is shown from cell i on; from the cursor on; from the next row  *)
(* on.                                                                     *)
Clean(t, i) == \A j \in Screen : j >= i => t.buffer[j] = " "
Tidy(t) == Sound(t) /\ Clean(t, Pos(t))
Returned(t) == Sound(t) /\ Clean(t, t.row * VGA_WIDTH + VGA_WIDTH)

(* The characters of s stand in front of the cursor.                       *)
Shows(t, s) ==
    /\ Tidy(t) /\ Pos(t) >= Len(s)
    /\ \A i \in 1..Len(s) : t.buffer[Pos(t) - Len(s) + i - 1] = s[i]

Cells == VGA_WIDTH * VGA_HEIGHT
Scrolled(b) == [i \in Screen |-> IF i + VGA_WIDTH \in Screen THEN b[i + VGA_WIDTH] ELSE " "]

LEMMA Rows ==
    ASSUME NEW r \in 0..(VGA_HEIGHT - 1)
    PROVE  /\ r * VGA_WIDTH \in Nat /\ (r + 1) * VGA_WIDTH = r * VGA_WIDTH + VGA_WIDTH
           /\ r * VGA_WIDTH + VGA_WIDTH <= Cells
           /\ r + 1 = VGA_HEIGHT => r * VGA_WIDTH + VGA_WIDTH = Cells
<1>1. \A w, h \in Nat : \A k \in Nat : k < h =>
          k * w \in Nat /\ (k + 1) * w = k * w + w /\ (h - (k + 1)) * w \in Nat
  OBVIOUS
<1>2. /\ r * VGA_WIDTH \in Nat /\ (r + 1) * VGA_WIDTH = r * VGA_WIDTH + VGA_WIDTH
      /\ (VGA_HEIGHT - (r + 1)) * VGA_WIDTH \in Nat
  BY <1>1, ScreenSizes
<1>3. Cells = (VGA_HEIGHT - (r + 1)) * VGA_WIDTH + (r + 1) * VGA_WIDTH
  <2>1. \A w, h, k \in Int : w * h = (h - k) * w + k * w
    OBVIOUS
  <2>2. VGA_WIDTH \in Int /\ VGA_HEIGHT \in Int /\ r + 1 \in Int
    BY ScreenSizes
  <2> QED BY <2>1, <2>2, Zenon DEF Cells
<1>4. r + 1 = VGA_HEIGHT => (r + 1) * VGA_WIDTH = Cells
  BY ScreenSizes DEF Cells
<1> QED BY <1>2, <1>3, <1>4, ScreenSizes

LEMMA Room ==
    /\ Cells \in Nat /\ Screen = 0..(Cells - 1) /\ Cells < Word
    /\ Size \in Nat /\ Size >= 2 /\ Size + 1 + VGA_WIDTH <= Cells
<1>1. Cells \in Nat /\ Screen = 0..(Cells - 1) /\ Cells < Word
  BY ScreenSizes DEF Cells, Screen
<1>2. (VGA_HEIGHT - 1) * VGA_WIDTH + VGA_WIDTH = Cells
  BY ScreenSizes, Rows
<1>3. Size \in Nat /\ Size >= 2 /\ Size - 1 + 2 <= (VGA_HEIGHT - 1) * VGA_WIDTH
  <2>1. /\ Size \in Nat \ {0, 1}
        /\ Size - 1 + Len(Prompt) <= (VGA_HEIGHT - 1) * VGA_WIDTH
    BY ConsoleAssumption, Zenon
  <2>2. Len(Prompt) = 2
    BY PromptIs
  <2> QED BY <2>1, <2>2
<1>4. (VGA_HEIGHT - 1) * VGA_WIDTH \in Nat
  BY ScreenSizes, Rows
<1> QED BY <1>1, <1>2, <1>3, <1>4, ScreenSizes

(* The index of terminal_putentryat, computed in a word, is the cursor.    *)
LEMMA PosIs ==
    ASSUME NEW t, Sound(t)
    PROVE  /\ Pos(t) \in Screen /\ Pos(t) \in Nat /\ Pos(t) < Cells /\ Index(t) = Pos(t)
           /\ Pos(t) < t.row * VGA_WIDTH + VGA_WIDTH
<1> DEFINE a == t.row * VGA_WIDTH
           c == t.column
<1>1. a \in Nat /\ a + VGA_WIDTH <= Cells
  BY Rows DEF Sound, Terminals
<1>2. c \in 0..(Word - 1)
  BY DEF Sound, Terminals
<1>3. Pos(t) = (a + (IF c < VGA_WIDTH THEN c ELSE c - Word)) /\ Pos(t) >= 0
  BY DEF Pos, Sound
<1>4. Index(t) = (a + c) % Word
  BY DEF Index
<1> HIDE DEF a, c
<1>5. Pos(t) \in Nat /\ Pos(t) < a + VGA_WIDTH /\ Pos(t) < Cells
  BY <1>1, <1>2, <1>3, ScreenSizes, Room
<1>6. Index(t) = Pos(t)
  <2>1. CASE c < VGA_WIDTH
    <3>1. Pos(t) = a + c /\ a + c \in 0..(Word - 1)
      BY <1>1, <1>2, <1>3, <2>1, Room, ScreenSizes
    <3>2. \A n \in 0..(Word - 1) : n % Word = n
      BY Room, ScreenSizes
    <3> QED BY <1>4, <3>1, <3>2
  <2>2. CASE ~(c < VGA_WIDTH)
    <3>1. a + c = Pos(t) + Word /\ Pos(t) \in 0..(Word - 1)
      BY <1>1, <1>2, <1>3, <1>5, <2>2, Room, ScreenSizes
    <3>2. \A n \in 0..(Word - 1) : (n + Word) % Word = n
      BY Room, ScreenSizes
    <3> QED BY <1>4, <3>1, <3>2
  <2> QED BY <2>1, <2>2
<1> QED BY <1>5, <1>6, Room DEF a

(* One place on: on the row, on the next one, or with the screen scrolled. *)
LEMMA AdvanceIs ==
    ASSUME NEW t, Sound(t)
    PROVE  LET u == Advance(t)
           IN  /\ Sound(u)
               /\ \/ Pos(u) = Pos(t) + 1 /\ u.buffer = t.buffer
                  \/ /\ Pos(t) + 1 = Cells /\ Pos(u) = Cells - VGA_WIDTH
                     /\ u.buffer = Scrolled(t.buffer)
<1> DEFINE v == [t EXCEPT !.column = (@ + 1) % Word]
           a == t.row * VGA_WIDTH
           c == t.column
<1>0. t \in Terminals /\ t.row \in 0..(VGA_HEIGHT - 1) /\ c \in 0..(Word - 1)
  BY DEF Sound, Terminals
<1>1. v \in Terminals /\ v.row = t.row /\ v.buffer = t.buffer /\ v.column = (c + 1) % Word
  BY <1>0, StepColumn
<1>2. Advance(t) = IF v.column = VGA_WIDTH THEN NewRow(v) ELSE v
  BY DEF Advance
<1>3. a \in Nat /\ a + VGA_WIDTH <= Cells /\ (t.row + 1) * VGA_WIDTH = a + VGA_WIDTH
      /\ (t.row + 1 = VGA_HEIGHT => a + VGA_WIDTH = Cells)
  BY <1>0, Rows
<1>4. Pos(t) = (a + (IF c < VGA_WIDTH THEN c ELSE c - Word)) /\ Pos(t) >= 0
  BY DEF Pos, Sound
<1>5. Pos(v) = a + (IF v.column < VGA_WIDTH THEN v.column ELSE v.column - Word)
  BY <1>1 DEF Pos
<1>6. v.column = IF c + 1 = Word THEN 0 ELSE c + 1
  <2>1. \A n \in 0..(Word - 1) : (n + 1) % Word = IF n + 1 = Word THEN 0 ELSE n + 1
    BY ScreenSizes
  <2> QED BY <1>0, <1>1, <2>1
<1> HIDE DEF v, a, c
<1>7. CASE v.column = VGA_WIDTH
  <2>1. c + 1 = VGA_WIDTH
    BY <1>0, <1>6, <1>7, ScreenSizes
  <2>2. Pos(t) = a + c
    BY <1>0, <1>4, <2>1, ScreenSizes
  <2> DEFINE u == NewRow(v)
  <2>3. /\ u \in Terminals /\ u.column = 0
        /\ t.row + 1 = VGA_HEIGHT => u.row = t.row /\ u.buffer = Scrolled(t.buffer)
        /\ t.row + 1 # VGA_HEIGHT => u.row = t.row + 1 /\ u.buffer = t.buffer
    BY <1>1, NewRowIs DEF Scrolled
  <2> HIDE DEF u
  <2>4. Pos(u) = u.row * VGA_WIDTH
    <3>1. u.row \in 0..(VGA_HEIGHT - 1)
      BY <2>3 DEF Terminals
    <3>2. u.row * VGA_WIDTH \in Nat
      BY <3>1, Rows
    <3> QED BY <2>3, <3>2, ScreenSizes DEF Pos
  <2>5. Advance(t) = u
    BY <1>2, <1>7 DEF u
  <2>6. CASE t.row + 1 = VGA_HEIGHT
    <3>1. Pos(u) = a
      BY <2>3, <2>4, <2>6 DEF a
    <3>2. Pos(t) + 1 = Cells /\ Pos(u) = Cells - VGA_WIDTH /\ Pos(u) >= 0
      BY <1>0, <1>3, <2>1, <2>2, <2>6, <3>1, ScreenSizes, Room
    <3> QED BY <2>3, <2>5, <2>6, <3>2 DEF Sound
  <2>7. CASE t.row + 1 # VGA_HEIGHT
    <3>1. Pos(u) = a + VGA_WIDTH
      BY <1>3, <2>3, <2>4, <2>7
    <3>2. Pos(u) = Pos(t) + 1 /\ Pos(u) >= 0
      BY <1>0, <1>3, <2>1, <2>2, <3>1, ScreenSizes
    <3> QED BY <2>3, <2>5, <2>7, <3>2 DEF Sound
  <2> QED BY <2>6, <2>7
<1>8. CASE v.column # VGA_WIDTH
  <2>1. Pos(v) = Pos(t) + 1
    BY <1>0, <1>3, <1>4, <1>5, <1>6, <1>8, ScreenSizes
  <2>2. Pos(v) >= 0
    BY <2>1, <1>4, PosIs
  <2> QED BY <1>1, <1>2, <1>8, <2>1, <2>2 DEF Sound
<1> QED BY <1>7, <1>8

(* A printed character joins what is shown, if the screen has room for it  *)
(* when it scrolls.                                                        *)
LEMMA PutShows ==
    ASSUME NEW t, NEW s \in Seq(Glyphs), Shows(t, s), NEW c \in Glyphs \ {"\n", "\r"},
           Len(s) + 1 + VGA_WIDTH <= Cells
    PROVE  Shows(terminal_putchar(t, c), Append(s, c))
<1> DEFINE e == terminal_putentryat(t, c)
           u == terminal_putchar(t, c)
           p == Pos(t)
           q == Pos(u)
           n == Len(s)
           z == Append(s, c)
<1>0. Sound(t) /\ t \in Terminals
  BY DEF Shows, Tidy, Sound
<1>1. p \in Screen /\ p \in Nat /\ p < Cells /\ Index(t) = p
  BY <1>0, PosIs
<1>2. /\ e \in Terminals /\ e.row = t.row /\ e.column = t.column
      /\ e.buffer = [t.buffer EXCEPT ![p] = c]
  BY <1>0, <1>1, PutEntryIs
<1>3. u = Advance(e)
  BY <1>0, PutcharIs
<1> HIDE DEF e, u
<1>4. Pos(e) = p /\ Sound(e)
  BY <1>0, <1>2 DEF Pos, Sound
<1>5. /\ Sound(u)
      /\ \/ q = p + 1 /\ u.buffer = e.buffer
         \/ p + 1 = Cells /\ q = Cells - VGA_WIDTH /\ u.buffer = Scrolled(e.buffer)
  BY <1>3, <1>4, AdvanceIs
<1>6. n \in Nat /\ p >= n /\ n + 1 + VGA_WIDTH <= Cells
  BY DEF Shows
<1>7. z \in Seq(Glyphs) /\ Len(z) = n + 1 /\ z[n + 1] = c /\ \A i \in 1..n : z[i] = s[i]
  OBVIOUS
<1>8. /\ DOMAIN t.buffer = Screen
      /\ \A i \in 1..n : t.buffer[p - n + i - 1] = s[i]
      /\ \A j \in Screen : j >= p => t.buffer[j] = " "
  BY <1>0 DEF Shows, Tidy, Clean, Terminals
<1> HIDE DEF p, n, z
<1>9. \A j \in Screen : e.buffer[j] = IF j = p THEN c ELSE t.buffer[j]
  BY <1>2, <1>8
<1>10. \A i \in 1..(n + 1) : e.buffer[p - n + i - 1] = z[i]
  <2> SUFFICES ASSUME NEW i \in 1..(n + 1) PROVE e.buffer[p - n + i - 1] = z[i]
    OBVIOUS
  <2>1. p - n + i - 1 \in Screen
    BY <1>1, <1>6, Room
  <2>2. CASE i = n + 1
    <3>1. p - n + i - 1 = p
      BY <1>1, <1>6, <2>2
    <3> QED BY <1>7, <1>9, <2>1, <2>2, <3>1
  <2>3. CASE i # n + 1
    <3>1. i \in 1..n /\ p - n + i - 1 # p
      BY <1>1, <1>6, <2>3
    <3> QED BY <1>7, <1>8, <1>9, <2>1, <3>1
  <2> QED BY <2>2, <2>3
<1>11. \A j \in Screen : j >= p + 1 => e.buffer[j] = " "
  <2>1. \A j \in Screen : j >= p + 1 => j # p /\ j >= p
    BY <1>1, Room
  <2> QED BY <1>8, <1>9, <2>1
<1>12. /\ q >= n + 1 /\ \A j \in Screen : j >= q => u.buffer[j] = " "
       /\ \A i \in 1..(n + 1) : u.buffer[q - (n + 1) + i - 1] = z[i]
  <2>1. CASE q = p + 1 /\ u.buffer = e.buffer
    <3>1. \A i \in 1..(n + 1) : q - (n + 1) + i - 1 = p - n + i - 1
      BY <1>1, <1>6, <2>1
    <3>2. q >= n + 1
      BY <1>1, <1>6, <2>1
    <3> QED BY <1>10, <1>11, <2>1, <3>1, <3>2
  <2>2. CASE p + 1 = Cells /\ q = Cells - VGA_WIDTH /\ u.buffer = Scrolled(e.buffer)
    <3>1. q >= n + 1
      BY <1>6, <2>2, Room, ScreenSizes
    <3>2. \A j \in Screen : u.buffer[j] = IF j + VGA_WIDTH \in Screen
                                          THEN e.buffer[j + VGA_WIDTH] ELSE " "
      BY <2>2 DEF Scrolled
    <3>3. \A j \in Screen : j >= q => j + VGA_WIDTH \notin Screen
      BY <2>2, Room, ScreenSizes
    <3>4. ASSUME NEW i \in 1..(n + 1) PROVE u.buffer[q - (n + 1) + i - 1] = z[i]
      <4> DEFINE j == q - (n + 1) + i - 1
      <4>1. j \in Screen /\ j + VGA_WIDTH \in Screen /\ j + VGA_WIDTH = p - n + i - 1
        BY <1>1, <1>6, <2>2, Room, ScreenSizes
      <4> HIDE DEF j
      <4>2. u.buffer[j] = z[i]
        BY <1>10, <3>2, <4>1
      <4> QED BY <4>2 DEF j
    <3> QED BY <3>1, <3>2, <3>3, <3>4
  <2> QED BY <1>5, <2>1, <2>2
<1>13. Shows(u, z)
  BY <1>5, <1>7, <1>12 DEF Shows, Tidy, Clean
<1> QED BY <1>13 DEF u, z

LEMMA WordMod ==
    ASSUME NEW w \in Nat, w > 1
    PROVE  \A n \in 0..(w - 1) : n % w = n /\ (n - w) % w = n
<1>1. \A n \in 0..(w - 1) : n % w = n
  OBVIOUS
<1>2. \A n \in 0..(w - 1) : (n - w) % w = n
  OBVIOUS
<1> QED BY <1>1, <1>2

(* A deletion takes the last one away, across the start of a row too.      *)
LEMMA DeleteShows ==
    ASSUME NEW t, NEW s \in Seq(Glyphs), Shows(t, s), Len(s) >= 1,
           NEW z, Len(z) = Len(s) - 1, \A i \in 1..(Len(s) - 1) : z[i] = s[i]
    PROVE  Shows(terminal_deletechar(t), z)
<1> DEFINE v == [t EXCEPT !.column = (@ - 1) % Word]
           u == terminal_putentryat(v, " ")
           a == t.row * VGA_WIDTH
           c == t.column
           p == Pos(t)
           n == Len(s)
<1>0. /\ Sound(t) /\ t \in Terminals /\ t.row \in 0..(VGA_HEIGHT - 1) /\ c \in 0..(Word - 1)
  BY DEF Shows, Tidy, Sound, Terminals
<1>1. p \in Nat /\ p < Cells /\ p >= n /\ n \in Nat /\ n >= 1
  BY <1>0, PosIs DEF Shows
<1>2. /\ v \in Terminals /\ v.row = t.row /\ v.buffer = t.buffer /\ v.column = (c - 1) % Word
  <2>1. (c - 1) % Word \in 0..(Word - 1)
    <3>1. c - 1 \in Int /\ Word \in Nat /\ Word > 0
      BY <1>0, ScreenSizes
    <3> HIDE DEF c
    <3> QED BY <3>1
  <2> QED BY <1>0, <2>1 DEF Terminals
<1>3. a \in Nat /\ a + VGA_WIDTH <= Cells
  BY <1>0, Rows
<1>4. p = a + (IF c < VGA_WIDTH THEN c ELSE c - Word)
  BY DEF Pos
<1>5. Pos(v) = a + (IF v.column < VGA_WIDTH THEN v.column ELSE v.column - Word)
  BY <1>2 DEF Pos
<1>6. v.column = IF c = 0 THEN Word - 1 ELSE c - 1
  <2>0. Word \in Nat /\ Word > 1
    BY ScreenSizes
  <2>1. \A m \in 0..(Word - 1) : m % Word = m /\ (m - Word) % Word = m
    BY <2>0, WordMod, Zenon
  <2>2. c = 0 => c - 1 = (Word - 1) - Word /\ Word - 1 \in 0..(Word - 1)
    BY <1>0, <2>0
  <2>3. c # 0 => c - 1 \in 0..(Word - 1)
    BY <1>0, <2>0
  <2> HIDE DEF c, v
  <2>4. (c - 1) % Word = IF c = 0 THEN Word - 1 ELSE c - 1
    <3>1. CASE c = 0
      <4>1. ((Word - 1) - Word) % Word = Word - 1
        BY <2>1, <2>2, <3>1, Zenon
      <4> QED BY <2>2, <3>1, <4>1, Zenon
    <3>2. CASE c # 0
      <4>1. (c - 1) % Word = c - 1
        BY <2>1, <2>3, <3>2, Zenon
      <4> QED BY <3>2, <4>1, Zenon
    <3> QED BY <3>1, <3>2, Zenon
  <2> QED BY <1>2, <2>4
<1>8. /\ DOMAIN t.buffer = Screen
      /\ \A i \in 1..n : t.buffer[p - n + i - 1] = s[i]
      /\ \A j \in Screen : j >= p => t.buffer[j] = " "
  BY <1>0 DEF Shows, Tidy, Clean, Terminals
<1> HIDE DEF a, c, p, v, n
<1>9. Pos(v) = p - 1
  BY <1>0, <1>1, <1>3, <1>4, <1>5, <1>6, ScreenSizes, Room
<1>10. Sound(v)
  BY <1>1, <1>2, <1>9 DEF Sound
<1>11. p - 1 \in Screen /\ Index(v) = p - 1
  BY <1>9, <1>10, PosIs
<1>12. " " \in Glyphs
  BY DEF Glyphs
<1>13. /\ u \in Terminals /\ u.row = v.row /\ u.column = v.column
       /\ u.buffer = [t.buffer EXCEPT ![p - 1] = " "]
  <2>1. v.buffer = t.buffer /\ Index(v) \in Screen
    BY <1>2, <1>11
  <2>2. /\ u \in Terminals /\ u.row = v.row /\ u.column = v.column
        /\ u.buffer = [v.buffer EXCEPT ![Index(v)] = " "]
    BY <1>2, <1>12, <2>1, PutEntryIs
  <2> QED BY <1>11, <2>1, <2>2
<1> HIDE DEF u
<1>14. Pos(u) = p - 1 /\ Sound(u)
  BY <1>9, <1>10, <1>13 DEF Pos, Sound
<1>15. \A j \in Screen : u.buffer[j] = IF j = p - 1 THEN " " ELSE t.buffer[j]
  BY <1>8, <1>13
<1>16. \A j \in Screen : j >= p - 1 => u.buffer[j] = " "
  <2>1. \A j \in Screen : j >= p - 1 => j = p - 1 \/ j >= p
    BY <1>1, Room
  <2> QED BY <1>8, <1>15, <2>1
<1>17. ASSUME NEW i \in 1..(n - 1) PROVE u.buffer[(p - 1) - (n - 1) + i - 1] = z[i]
  <2>1. /\ (p - 1) - (n - 1) + i - 1 = p - n + i - 1 /\ p - n + i - 1 \in Screen
        /\ p - n + i - 1 # p - 1 /\ i \in 1..n
    BY <1>1, Room
  <2> QED BY <1>8, <1>15, <2>1 DEF n
<1>18. p - 1 >= n - 1
  BY <1>1
<1>19. Shows(u, z)
  BY <1>14, <1>16, <1>17, <1>18 DEF Shows, Tidy, Clean, n
<1> QED BY <1>19 DEF terminal_deletechar, u, v

(* A new row is clean, if the rows after the old one were.                 *)
LEMMA NewRowTidy == ASSUME NEW t, Returned(t) PROVE Tidy(NewRow(t))
<1> DEFINE u == NewRow(t)
           a == t.row * VGA_WIDTH
<1>0. t \in Terminals /\ t.row \in 0..(VGA_HEIGHT - 1)
  BY DEF Returned, Sound, Terminals
<1>1. /\ u \in Terminals /\ u.column = 0
      /\ t.row + 1 = VGA_HEIGHT => u.row = t.row /\ u.buffer = Scrolled(t.buffer)
      /\ t.row + 1 # VGA_HEIGHT => u.row = t.row + 1 /\ u.buffer = t.buffer
  BY <1>0, NewRowIs DEF Scrolled
<1>2. a \in Nat /\ (t.row + 1) * VGA_WIDTH = a + VGA_WIDTH
      /\ (t.row + 1 = VGA_HEIGHT => a + VGA_WIDTH = Cells)
  BY <1>0, Rows
<1>3. \A j \in Screen : j >= a + VGA_WIDTH => t.buffer[j] = " "
  BY DEF Returned, Clean
<1> HIDE DEF u
<1>4. Pos(u) = u.row * VGA_WIDTH /\ u.row * VGA_WIDTH \in Nat
  <2>1. u.row \in 0..(VGA_HEIGHT - 1)
    BY <1>1 DEF Terminals
  <2>2. u.row * VGA_WIDTH \in Nat
    BY <2>1, Rows
  <2> QED BY <1>1, <2>2, ScreenSizes DEF Pos
<1>5. Sound(u)
  BY <1>1, <1>4 DEF Sound
<1>6. CASE t.row + 1 = VGA_HEIGHT
  <2>1. Pos(u) = a /\ a + VGA_WIDTH = Cells
    BY <1>1, <1>2, <1>4, <1>6
  <2>2. \A j \in Screen : j >= a => j + VGA_WIDTH \notin Screen
    BY <1>2, <2>1, Room, ScreenSizes
  <2> QED BY <1>1, <1>5, <1>6, <2>1, <2>2 DEF Tidy, Clean, Scrolled, u
<1>7. CASE t.row + 1 # VGA_HEIGHT
  <2>1. Pos(u) = a + VGA_WIDTH
    BY <1>1, <1>2, <1>4, <1>7
  <2> QED BY <1>1, <1>3, <1>5, <1>7, <2>1 DEF Tidy, Clean, u
<1> QED BY <1>6, <1>7

LEMMA TidyReturned == ASSUME NEW t, Tidy(t) PROVE Returned(t)
<1>1. Sound(t) /\ \A j \in Screen : j >= Pos(t) => t.buffer[j] = " "
  BY DEF Tidy, Clean
<1>2. Pos(t) \in Nat /\ Pos(t) < t.row * VGA_WIDTH + VGA_WIDTH
  BY <1>1, PosIs
<1>3. t.row * VGA_WIDTH \in Nat
  BY <1>1, Rows DEF Sound, Terminals
<1>4. \A j \in Screen : j >= t.row * VGA_WIDTH + VGA_WIDTH => j >= Pos(t)
  <2> DEFINE a == t.row * VGA_WIDTH + VGA_WIDTH
  <2>1. a \in Nat /\ Pos(t) < a
    BY <1>2, <1>3, ScreenSizes
  <2> HIDE DEF a
  <2>2. \A j \in Screen : j >= a => j >= Pos(t)
    BY <1>2, <2>1, Room
  <2> QED BY <2>2 DEF a
<1> QED BY <1>1, <1>4 DEF Returned, Clean

CR == "\r"
LF == "\n"

(* One character of a text, from the start of a row if a "\r" came before. *)
LEMMA StepTidy ==
    ASSUME NEW t, NEW c \in Glyphs, Tidy(t) \/ (Returned(t) /\ c = LF)
    PROVE  LET u == terminal_putchar(t, c) IN Tidy(u) \/ (c = CR /\ Returned(u))
<1> DEFINE u == terminal_putchar(t, c)
<1> USE DEF CR, LF
<1>0. Returned(t) /\ t \in Terminals
  BY TidyReturned DEF Returned, Sound
<1>1. CASE c = "\n"
  BY <1>0, <1>1, NewRowTidy DEF terminal_putchar
<1>2. CASE c = "\r"
  <2>1. u.row = t.row /\ u.column = 0 /\ u.buffer = t.buffer /\ u \in Terminals
    BY <1>0, <1>2, PutcharIs DEF terminal_putchar, Terminals
  <2>2. t.row * VGA_WIDTH \in Nat
    BY <1>0, Rows DEF Terminals
  <2> HIDE DEF u
  <2>3. Pos(u) = t.row * VGA_WIDTH
    BY <2>1, <2>2, ScreenSizes DEF Pos
  <2>4. Sound(u)
    BY <2>1, <2>2, <2>3 DEF Sound
  <2>5. Returned(u)
    BY <1>0, <2>1, <2>4 DEF Returned, Clean
  <2> QED BY <1>2, <2>5 DEF u
<1>3. CASE c \notin {"\n", "\r"}
  <2>1. Tidy(t)
    BY <1>3
  <2>2. <<>> \in Seq(Glyphs) /\ Len(<<>>) = 0
    OBVIOUS
  <2>3. Pos(t) \in Nat
    BY <2>1, PosIs DEF Tidy
  <2>4. Shows(t, <<>>)
    BY <2>1, <2>2, <2>3 DEF Shows
  <2>5. Len(<<>>) + 1 + VGA_WIDTH <= Cells
    BY <2>2, Room, ScreenSizes
  <2>6. Shows(u, Append(<<>>, c))
    BY <1>3, <2>2, <2>4, <2>5, PutShows
  <2> QED BY <2>6 DEF Shows
<1> QED BY <1>1, <1>2, <1>3

(* After the prompt, nothing else is shown.                                *)
LEMMA PromptShown ==
    ASSUME NEW t, Tidy(t)
    PROVE  Shows(terminal_putchar(terminal_putchar(t, Prompt[1]), Prompt[2]), Prompt)
<1>1. <<>> \in Seq(Glyphs) /\ Len(<<>>) = 0 /\ Pos(t) \in Nat
  BY PosIs DEF Tidy
<1>2. Shows(t, <<>>)
  BY <1>1 DEF Shows
<1>3. {" ", ">"} \subseteq Glyphs \ {"\n", "\r"}
  BY Written
<1>4. 0 + 1 + VGA_WIDTH <= Cells /\ 1 + 1 + VGA_WIDTH <= Cells
  BY Room, ScreenSizes
<1>5. Shows(terminal_putchar(t, ">"), Append(<<>>, ">"))
  BY <1>1, <1>2, <1>3, <1>4, PutShows
<1> DEFINE s == Append(<<>>, ">")
<1>6. s \in Seq(Glyphs) /\ Len(s) = 1
  <2>1. \A a \in Glyphs : Append(<<>>, a) \in Seq(Glyphs) /\ Len(Append(<<>>, a)) = 1
    OBVIOUS
  <2> QED BY <1>3, <2>1, Zenon
<1>7. Append(s, " ") = Prompt
  <2>1. ASSUME NEW a \in Glyphs, NEW b \in Glyphs PROVE Append(Append(<<>>, a), b) = <<a, b>>
    <3>1. Append(<<>>, a) = <<a>>
      OBVIOUS
    <3>2. Append(<<a>>, b) = <<a, b>>
      <4> DEFINE x == Append(<<a>>, b)
                 y == <<a, b>>
      <4>1. <<a>> \in Seq(Glyphs) /\ Len(<<a>>) = 1 /\ <<a>>[1] = a
        OBVIOUS
      <4>2. x \in Seq(Glyphs) /\ Len(x) = 2 /\ x[1] = a /\ x[2] = b
        BY <4>1, AppendProperties
      <4>3. y \in Seq(Glyphs) /\ Len(y) = 2 /\ y[1] = a /\ y[2] = b
        OBVIOUS
      <4> HIDE DEF x, y
      <4>4. \A i \in 1..2 : x[i] = y[i]
        BY <4>2, <4>3
      <4>5. x = y
        BY <4>2, <4>3, <4>4, SeqEqual
      <4> QED BY <4>5 DEF x, y
    <3> QED BY <3>1, <3>2
  <2> QED BY <1>3, <2>1, Zenon DEF Prompt
<1> HIDE DEF s
<1>8. Shows(terminal_putchar(terminal_putchar(t, ">"), " "), Append(s, " "))
  BY <1>3, <1>4, <1>5, <1>6, PutShows DEF s
<1> QED BY <1>7, <1>8, PromptIs

(* A text that ends with the prompt and has "\r" only before "\n".         *)
LEMMA WriteShows ==
    ASSUME NEW t, NEW data \in Seq(Glyphs)
    PROVE  \A n \in Nat :
               /\ Tidy(t) /\ Len(data) = n + 2
               /\ data[n + 1] = Prompt[1] /\ data[n + 2] = Prompt[2]
               /\ \A i \in 1..n : data[i] = CR => i < n /\ data[i + 1] = LF
               => Shows(terminal_write(t, data), Prompt)
<1>1. PICK g : /\ g[0] = t
               /\ \A i \in 1..Len(data) : g[i] = terminal_putchar(g[i - 1], data[i])
               /\ terminal_write(t, data) = g[Len(data)]
  <2>1. Len(data) \in Nat
    OBVIOUS
  <2> QED BY <2>1, WriteIs
<1> SUFFICES ASSUME NEW n \in Nat, Tidy(t), Len(data) = n + 2,
                    data[n + 1] = Prompt[1], data[n + 2] = Prompt[2],
                    \A i \in 1..n : data[i] = CR => i < n /\ data[i + 1] = LF
             PROVE  Shows(terminal_write(t, data), Prompt)
  OBVIOUS
<1> DEFINE Good(i) == Tidy(g[i]) \/ (i >= 1 /\ data[i] = CR /\ Returned(g[i]))
           S == {i \in 0..n : ~Good(i)}
<1>2. S = {}
  <2> SUFFICES ASSUME S # {} PROVE FALSE
    OBVIOUS
  <2>1. PICK i \in S : \A j \in S : i <= j
    <3>1. S \in SUBSET Nat
      OBVIOUS
    <3> HIDE DEF S
    <3> QED BY <3>1, LeastNat
  <2>2. i # 0
    BY <1>1, <2>1
  <2>3. i \in 1..n /\ i - 1 \in 0..n /\ ~(i <= i - 1) /\ i \in 1..Len(data) /\ (i - 1) + 1 = i
    BY <2>1, <2>2
  <2>4. data[i] \in Glyphs
    BY <2>3
  <2>5. Good(i - 1)
    BY <2>1, <2>3
  <2>6. i - 1 >= 1 => i - 1 \in 1..n
    BY <2>3
  <2>7. Tidy(g[i - 1]) \/ (Returned(g[i - 1]) /\ data[i] = LF)
    BY <2>3, <2>5, <2>6
  <2>8. g[i] = terminal_putchar(g[i - 1], data[i])
    BY <1>1, <2>3
  <2>9. Good(i)
    <3>1. i >= 1
      BY <2>3
    <3> QED BY <2>4, <2>7, <2>8, <3>1, StepTidy
  <2> QED BY <2>1, <2>9
<1>3. Tidy(g[n])
  <2>1. Good(n)
    BY <1>2
  <2>2. n >= 1 => n \in 1..n /\ ~(n < n)
    OBVIOUS
  <2> QED BY <2>1, <2>2
<1>4. /\ g[n + 1] = terminal_putchar(g[n], Prompt[1])
      /\ g[n + 2] = terminal_putchar(g[n + 1], Prompt[2])
  <2>1. n + 1 \in 1..Len(data) /\ n + 2 \in 1..Len(data) /\ (n + 1) - 1 = n /\ (n + 2) - 1 = n + 1
    OBVIOUS
  <2> QED BY <1>1, <2>1
<1> QED BY <1>1, <1>3, <1>4, PromptShown

LEMMA PromptSeq == Prompt \in Seq(Glyphs) /\ Len(Prompt) = 2
BY PromptIs

(* What two sequences make together.                                       *)
Join(a, b) == a \o b

JoinOf(z, a, b) ==
    /\ z \in Seq(Glyphs) /\ Len(z) = Len(a) + Len(b) /\ Len(a) \in Nat /\ Len(b) \in Nat
    /\ \A i \in 1..Len(a) : z[i] = a[i]
    /\ \A i \in 1..Len(b) : z[Len(a) + i] = b[i]

LEMMA Joined == \A a, b \in Seq(Glyphs) : JoinOf(Join(a, b), a, b)
<1> SUFFICES ASSUME NEW a \in Seq(Glyphs), NEW b \in Seq(Glyphs)
             PROVE  /\ a \o b \in Seq(Glyphs) /\ Len(a \o b) = Len(a) + Len(b)
                    /\ Len(a) \in Nat /\ Len(b) \in Nat
                    /\ \A i \in 1..Len(a) : (a \o b)[i] = a[i]
                    /\ \A i \in 1..Len(b) : (a \o b)[Len(a) + i] = b[i]
  BY Zenon DEF Join, JoinOf
<1>1. /\ a \o b \in Seq(Glyphs) /\ Len(a \o b) = Len(a) + Len(b)
      /\ Len(a) \in Nat /\ Len(b) \in Nat
  OBVIOUS
<1>2. \A i \in 1..Len(a) : (a \o b)[i] = a[i]
  OBVIOUS
<1>3. \A i \in 1..Len(b) : (a \o b)[Len(a) + i] = b[i]
  OBVIOUS
<1> QED BY <1>1, <1>2, <1>3

(* No command prints a "\r" but in front of a "\n": only a file that cat   *)
(* shows may have one, and a shorter text written over a longer one would  *)
(* leave its end behind the cursor.                                        *)
Lines == \A out \in Outputs : \A i \in 1..Len(out) : out[i] = CR => i < Len(out) /\ out[i + 1] = LF

LEMMA EnterShows ==
    ASSUME Lines, NEW t, Tidy(t), NEW out \in Outputs \cup {<<>>}
    PROVE  Shows(terminal_write(t, <<"\n">> \o out \o Prompt), Prompt)
<1> DEFINE data == <<"\n">> \o out \o Prompt
           k == Len(out)
           n == k + 1
<1>1. out \in Seq(Glyphs) /\ Prompt \in Seq(Glyphs) /\ Len(Prompt) = 2
  BY Written, PromptSeq
<1>2. <<LF>> \in Seq(Glyphs) /\ Len(<<LF>>) = 1 /\ <<LF>>[1] = LF
  BY PromptIs DEF LF
<1> DEFINE lf == <<LF>>
           d == Join(lf, out)
<1>3. data = Join(d, Prompt)
  BY DEF LF, Join
<1> HIDE DEF lf, data
<1>4. /\ d \in Seq(Glyphs) /\ Len(d) = n /\ d[1] = LF
      /\ \A i \in 1..k : d[i + 1] = out[i]
  <2>1. lf \in Seq(Glyphs) /\ Len(lf) = 1 /\ lf[1] = LF /\ k \in Nat
    BY <1>1, <1>2 DEF lf
  <2>2. /\ d \in Seq(Glyphs) /\ Len(d) = 1 + k
        /\ \A i \in 1..1 : d[i] = lf[i] 
        /\ \A i \in 1..k : d[1 + i] = out[i]
    <3>1. JoinOf(d, lf, out)
      BY <1>1, <2>1, Joined, Zenon
    <3> HIDE DEF d
    <3> QED BY <2>1, <3>1 DEF JoinOf
  <2> HIDE DEF d
  <2>3. d[1] = LF
    BY <2>1, <2>2
  <2>4. \A i \in 1..k : i + 1 = 1 + i
    BY <2>1
  <2> QED BY <2>1, <2>2, <2>3, <2>4
<1> HIDE DEF d
<1>5. k \in Nat /\ n \in Nat
  BY <1>1
<1> HIDE DEF n
<1>6. /\ data \in Seq(Glyphs) /\ Len(data) = n + 2
      /\ data[n + 1] = Prompt[1] /\ data[n + 2] = Prompt[2]
      /\ \A i \in 1..n : data[i] = d[i]
  <2>1. /\ data \in Seq(Glyphs) /\ Len(data) = n + 2
        /\ \A i \in 1..n : data[i] = d[i]
        /\ \A i \in 1..2 : data[n + i] = Prompt[i]
    <3>1. JoinOf(data, d, Prompt)
      BY <1>1, <1>3, <1>4, Joined, Zenon
    <3> QED BY <1>1, <1>4, <3>1 DEF JoinOf
  <2> QED BY <2>1
<1>7. \A i \in 1..k : out[i] = CR => i < k /\ out[i + 1] = LF
  <2>1. \A i \in 1..Len(<<>>) : FALSE
    OBVIOUS
  <2> QED BY <2>1, Zenon DEF Lines
<1>8. CR # LF
  BY DEF CR, LF
<1> HIDE DEF k
<1>9. ASSUME NEW i \in 1..n, data[i] = CR PROVE i < n /\ data[i + 1] = LF
  <2>1. n = k + 1
    BY DEF n
  <2>2. i # 1
    BY <1>4, <1>6, <1>8, <1>9
  <2>3. i - 1 \in 1..k /\ (i - 1) + 1 = i
    BY <1>5, <2>1, <2>2
  <2>4. out[i - 1] = CR
    BY <1>4, <1>6, <1>9, <2>3
  <2>5. i - 1 < k /\ out[(i - 1) + 1] = LF
    BY <1>7, <2>3, <2>4, Zenon
  <2>6. i \in 1..k /\ i + 1 \in 1..n /\ i < n
    BY <1>5, <2>1, <2>3, <2>5
  <2> QED BY <1>4, <1>6, <2>3, <2>5, <2>6
<1>10. Shows(terminal_write(t, data), Prompt)
  BY <1>5, <1>6, <1>9, WriteShows
<1> QED BY <1>10 DEF data

(* The line is within its buffer, and shown behind the prompt.             *)
ShownInv ==
    /\ line \in Seq(Glyphs) /\ Len(line) < Size /\ shell_buffer_len = Len(line)
    /\ echoes \in Nat
    /\ echoes = 0 => echo.at = "idle" /\ Shows(term, Prompt \o line)

LEMMA InitShown == Init => ShownInv
<1> SUFFICES ASSUME Init PROVE ShownInv
  OBVIOUS
<1> DEFINE t == terminal_initialize
<1>1. t \in Terminals /\ t.row = 0 /\ t.column = 0 /\ \A j \in Screen : t.buffer[j] = " "
  <2>1. 0 \in 0..(VGA_HEIGHT - 1) /\ 0 \in 0..(Word - 1) /\ " " \in Glyphs
    BY ScreenSizes DEF Glyphs
  <2>2. [i \in Screen |-> " "] \in [Screen -> Glyphs]
    BY <2>1
  <2> QED BY <2>1, <2>2 DEF terminal_initialize, Terminals
<1> HIDE DEF t
<1>2. Pos(t) = 0
  <2>1. 0 * VGA_WIDTH = 0 /\ 0 < VGA_WIDTH /\ 0 + 0 = 0
    BY ScreenSizes
  <2>2. Pos(t) = 0 * VGA_WIDTH + (IF 0 < VGA_WIDTH THEN 0 ELSE 0 - Word)
    BY <1>1, Zenon DEF Pos
  <2> QED BY <2>1, <2>2
<1>3. Tidy(t)
  <2>1. 0 >= 0
    OBVIOUS
  <2> QED BY <1>1, <1>2, <2>1, Zenon DEF Tidy, Sound, Clean
<1>4. Shows(terminal_write(t, Prompt), Prompt)
  <2>1. Prompt \in Seq(Glyphs) /\ Len(Prompt) = 0 + 2 /\ 0 + 1 = 1 /\ 0 + 2 = 2 /\ 0 \in Nat
    BY PromptSeq
  <2>2. \A i \in 1..0 : Prompt[i] = CR => i < 0 /\ Prompt[i + 1] = LF
    OBVIOUS
  <2> QED BY <1>3, <2>1, <2>2, WriteShows
<1>5. term = terminal_write(t, Prompt) /\ line = <<>> /\ shell_buffer_len = 0
      /\ echoes = 0 /\ echo.at = "idle"
  BY DEF Init, Idle, t
<1>6. Prompt \o line = Prompt /\ line \in Seq(Glyphs) /\ Len(line) = 0
  <2>1. Prompt \o <<>> = Prompt /\ <<>> \in Seq(Glyphs) /\ Len(<<>>) = 0
    BY PromptSeq
  <2> QED BY <1>5, <2>1
<1> QED BY <1>4, <1>5, <1>6, Room DEF ShownInv

LEMMA EnterShown ==
    ASSUME Lines, ShownInv, NEW out \in Outputs \cup {<<>>}, Enter(out) PROVE ShownInv'
<1>1. /\ term' = terminal_write(term, <<"\n">> \o out \o Prompt)
      /\ shell_buffer_len' = 0 /\ line' = <<>> /\ echo' = echo /\ echoes' = echoes
  BY DEF Enter, Show
<1>2. Prompt \o line' = Prompt /\ line' \in Seq(Glyphs) /\ Len(line') = 0
  <2>1. Prompt \o <<>> = Prompt /\ <<>> \in Seq(Glyphs) /\ Len(<<>>) = 0
    BY PromptSeq
  <2> QED BY <1>1, <2>1
<1>3. echoes = 0 => echo.at = "idle" /\ Shows(term', Prompt)
  BY <1>1, EnterShows DEF ShownInv, Shows
<1> QED BY <1>1, <1>2, <1>3, Room DEF ShownInv

LEMMA BackspaceShown == ASSUME ShownInv, Backspace PROVE ShownInv'
<1>1. CASE shell_buffer_len = 0
  BY <1>1 DEF Backspace, ShowNothing, ShownInv
<1>2. CASE shell_buffer_len # 0
  <2>1. /\ term' = terminal_deletechar(term) /\ echo' = echo /\ echoes' = echoes
        /\ shell_buffer_len' = shell_buffer_len - 1 /\ line' = SubSeq(line, 1, Len(line) - 1)
    BY <1>2 DEF Backspace, Show
  <2>2. /\ line \in Seq(Glyphs) /\ Len(line) \in Nat /\ Len(line) >= 1 /\ Len(line) < Size
        /\ shell_buffer_len = Len(line)
    BY <1>2 DEF ShownInv
  <2>3. /\ line' \in Seq(Glyphs) /\ Len(line') = Len(line) - 1
        /\ \A i \in 1..(Len(line) - 1) : line'[i] = line[i]
    BY <2>1, <2>2, SubSeqProperties
  <2> DEFINE s == Prompt \o line
             z == Prompt \o line'
  <2>3a. s = Join(Prompt, line) /\ z = Join(Prompt, line')
    BY DEF Join
  <2>4. /\ s \in Seq(Glyphs) /\ Len(s) >= 1 /\ Len(z) = Len(s) - 1
        /\ \A i \in 1..(Len(s) - 1) : z[i] = s[i]
    <3> DEFINE n == Len(line) - 1
    <3> HIDE DEF s, z
    <3>1. n \in Nat /\ Len(line) = n + 1 /\ Len(line') = n
      BY <2>2, <2>3
    <3>2. /\ s \in Seq(Glyphs) /\ Len(s) = 2 + Len(line)
          /\ \A i \in 1..2 : s[i] = Prompt[i]
          /\ \A i \in 1..Len(line) : s[2 + i] = line[i]
      <4>1. JoinOf(s, Prompt, line)
        BY <2>2, <2>3a, PromptSeq, Joined, Zenon
      <4> QED BY <4>1, PromptSeq DEF JoinOf
    <3>3. /\ Len(z) = 2 + n
          /\ \A i \in 1..2 : z[i] = Prompt[i]
          /\ \A i \in 1..n : z[2 + i] = line'[i]
      <4>1. JoinOf(z, Prompt, line')
        BY <2>3, <2>3a, PromptSeq, Joined, Zenon
      <4> QED BY <3>1, <4>1, PromptSeq DEF JoinOf
    <3>4. \A i \in 1..n : line'[i] = line[i]
      BY <2>3
    <3> HIDE DEF n
    <3>5. ASSUME NEW i \in 1..(2 + n) PROVE z[i] = s[i]
      <4>1. CASE i \in 1..2
        BY <3>2, <3>3, <4>1
      <4>2. CASE i \notin 1..2
        <5>1. i - 2 \in 1..n /\ i - 2 \in 1..Len(line) /\ 2 + (i - 2) = i
          BY <3>1, <4>2
        <5> QED BY <3>2, <3>3, <3>4, <5>1
      <4> QED BY <4>1, <4>2
    <3> QED BY <3>1, <3>2, <3>3, <3>5
  <2> HIDE DEF s, z
  <2>5. Shows(term, s) => Shows(terminal_deletechar(term), z)
    BY <2>4, DeleteShows
  <2>6. echoes' = 0 => echo'.at = "idle" /\ Shows(term', z)
    BY <2>1, <2>5 DEF ShownInv, s
  <2>7. Len(line') < Size /\ shell_buffer_len' = Len(line')
    BY <2>1, <2>2, <2>3, Room
  <2> QED BY <2>1, <2>3, <2>6, <2>7 DEF ShownInv, z
<1> QED BY <1>1, <1>2

LEMMA TypeShown ==
    ASSUME ShownInv, NEW c \in Glyphs \ {"\n", "\r"}, Type(c) PROVE ShownInv'
<1>1. /\ term' = terminal_putchar(term, c) /\ echo' = echo /\ echoes' = echoes
      /\ shell_buffer_len + 1 < Size
      /\ shell_buffer_len' = shell_buffer_len + 1 /\ line' = Append(line, c)
  BY DEF Type, Show, LineFits
<1>2. line \in Seq(Glyphs) /\ Len(line) \in Nat /\ shell_buffer_len = Len(line)
  BY DEF ShownInv
<1> DEFINE s == Prompt \o line
<1>3. /\ s \in Seq(Glyphs) /\ Len(s) = 2 + Len(line)
      /\ line' \in Seq(Glyphs) /\ Len(line') = Len(line) + 1
  <2>1. s \in Seq(Glyphs) /\ Len(s) = 2 + Len(line)
    <3>1. s = Join(Prompt, line)
      BY DEF Join
    <3> HIDE DEF s
    <3>2. JoinOf(s, Prompt, line)
      BY <1>2, <3>1, PromptSeq, Joined, Zenon
    <3> QED BY <3>2, PromptSeq DEF JoinOf
  <2>2. line' \in Seq(Glyphs) /\ Len(line') = Len(line) + 1
    BY <1>1, <1>2
  <2> QED BY <2>1, <2>2
<1>4. Append(s, c) = Prompt \o line'
  <2>1. Append(s, c) = s \o <<c>> /\ line' = line \o <<c>> /\ <<c>> \in Seq(Glyphs)
    BY <1>1, <1>2, <1>3, AppendIsConcat
  <2> QED BY <1>2, <2>1, PromptSeq, ConcatAssociative
<1> HIDE DEF s
<1>5. Len(s) + 1 + VGA_WIDTH <= Cells
  BY <1>1, <1>2, <1>3, Room, ScreenSizes
<1>6. Shows(term, s) => Shows(term', Append(s, c))
  BY <1>1, <1>3, <1>5, PutShows
<1>7. echoes' = 0 => echo'.at = "idle" /\ Shows(term', Prompt \o line')
  BY <1>1, <1>4, <1>6 DEF ShownInv, s
<1>8. Len(line') < Size /\ shell_buffer_len' = Len(line')
  BY <1>1, <1>2, <1>3
<1> QED BY <1>1, <1>3, <1>7, <1>8 DEF ShownInv

(* An echo takes a first character, and then the count is never 0 again.   *)
LEMMA EchoShown == ASSUME ShownInv, Echo PROVE ShownInv'
<1>1. UNCHANGED <<shell_buffer_len, line>>
  BY EchoKeeps DEF keyvars
<1>2. echoes' \in Nat /\ echoes' # 0
  <2>1. ASSUME NEW c \in Serial, EchoBegin(c) PROVE echoes' \in Nat /\ echoes' # 0
    BY <2>1 DEF EchoBegin, ShownInv
  <2>2. CASE ~\E c \in Serial : EchoBegin(c)
    <3>1. echo.at # "idle" /\ echoes' = echoes
      BY <2>2 DEF Echo, EchoPut, EchoAdvance, EchoColumn, EchoRow, EchoScroll, EchoBack
    <3> QED BY <3>1 DEF ShownInv
  <2> QED BY <2>1, <2>2
<1> QED BY <1>1, <1>2 DEF ShownInv

LEMMA NextShown == ASSUME Lines, ShownInv, [Next]_vars PROVE ShownInv'
<1>1. ASSUME UNCHANGED <<shell_buffer_len, line>>, ShowNothing PROVE ShownInv'
  BY <1>1 DEF ShowNothing, ShownInv
<1>2. ASSUME NEW key \in Key, Release(key) PROVE ShownInv'
  BY <1>1, <1>2 DEF Release
<1>3. CASE UNCHANGED vars
  BY <1>1, <1>3 DEF vars, keyvars, ShowNothing
<1>4. ASSUME NEW key \in Key, Press(key) PROVE ShownInv'
  <2>1. \/ UNCHANGED <<shell_buffer_len, line>> /\ ShowNothing
        \/ \E out \in Outputs \cup {<<>>} : Enter(out)
        \/ Backspace
        \/ key \in Letter /\ Type(Char(key))
    BY <1>4 DEF Press
  <2>2. key \in Letter => Char(key) \in Glyphs \ {"\n", "\r"}
    BY Written
  <2> QED BY <1>1, <2>1, <2>2, EnterShown, BackspaceShown, TypeShown
<1> QED BY <1>2, <1>3, <1>4, EchoShown DEF Next

(* Before the first echo the prompt and the line typed stand in front of   *)
(* the cursor and nothing behind it, on every screen that has room for     *)
(* them below its first row, through every wrap, scroll and deletion:      *)
(* terminal_deletechar's column below zero included.                       *)
THEOREM LineShownTheorem == ASSUME Lines PROVE Spec => []LineShown
<1>1. ShownInv => LineShown
  <2> SUFFICES ASSUME ShownInv, echoes = 0 PROVE LineShown
    BY DEF LineShown
  <2> DEFINE s == Prompt \o line
  <2>1. Shows(term, s) /\ Index(term) = Pos(term) /\ Pos(term) \in Screen
    BY PosIs DEF ShownInv, Shows, Tidy
  <2> QED BY <2>1 DEF LineShown, Shows, Tidy, Clean
<1> QED BY <1>1, InitShown, NextShown, PTL DEF Spec
==============================================================================
