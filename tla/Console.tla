------------------------------- MODULE Console -------------------------------
(***************************************************************************)
(* What happens on a key: the keyboard interrupt of ps2keyboard.c, the     *)
(* line editor of shell.c and the terminal, from the first prompt on, and  *)
(* the loop of kernel_main that echoes the serial line.  The handler runs  *)
(* with interrupts off, a step each; the loop has them on, and a key may   *)
(* come between any two of its accesses to the terminal.  A command is     *)
(* what it prints.                                                         *)
(***************************************************************************)
EXTENDS Terminal, FiniteSets

CONSTANTS
    scancode_map, shift_map,  \* the characters of the keys that have one
    Dead,       \* keys whose entry is 0
    Size,       \* of shell_buffer: 128
    Outputs,    \* what commands print
    Serial,     \* characters of the serial line
    MaxSerial   \* bound: how many arrive

Shift == {"lshift", "rshift"}                   \* 42 and 54
Letter == DOMAIN scancode_map
Key == Letter \cup Dead \cup Shift \cup {"enter", "backspace"}
NUL == "NUL"
Prompt == <<">", " ">>

(* The keys of the maps are the printing ones, and a full line with its    *)
(* prompt is shorter than the screen but one row.                          *)
ASSUME ConsoleAssumption ==
    /\ {scancode_map, shift_map} \subseteq [Letter -> STRING \ {"\n", "\r"}]
    /\ Serial \subseteq STRING /\ Outputs \subseteq Seq(STRING)
    /\ Size \in Nat \ {0, 1} /\ MaxSerial \in Nat
    /\ Size - 1 + Len(Prompt) <= (VGA_HEIGHT - 1) * VGA_WIDTH

VARIABLES
    held,              \* shift keys held down
    shift_down,
    shell_buffer, shell_buffer_len,
    line,              \* what the user has typed since the prompt
    term,              \* the terminal
    echo,              \* terminal_putchar as called by kernel_main
    echoes,            \* characters echoed so far
    torn,              \* a key has been shown in the middle of an echo
    whole              \* the terminal if calls were not interrupted

keyvars == <<held, shift_down, shell_buffer, shell_buffer_len, line>>
vars == <<keyvars, term, echo, echoes, torn, whole>>

(* Where the call is, its character and what it has loaded.                *)
Idle == [at |-> "idle", c |-> " ", row |-> 0, column |-> 0]

Init ==
    /\ held = {} /\ shift_down = FALSE
    /\ shell_buffer = [i \in 0..(Size - 1) |-> NUL] /\ shell_buffer_len = 0
    /\ line = <<>>
    /\ term = terminal_write(terminal_initialize, Prompt)
    /\ echo = Idle /\ echoes = 0 /\ torn = FALSE /\ whole = term
------------------------------------------------------------------------------
(* What the handler does to the terminal.                                  *)
Show(Op(_)) ==
    /\ term' = Op(term)
    /\ torn' = (torn \/ echo.at # "idle")
    /\ whole' = IF torn' THEN whole ELSE Op(whole)
    /\ UNCHANGED <<echo, echoes>>
ShowNothing == UNCHANGED <<term, echo, echoes, torn, whole>>

Char(key) == IF shift_down THEN shift_map[key] ELSE scancode_map[key]

(* Mutant: the length is reset, the buffer is not.                         *)
Enter_KeepsBuffer(out) ==
    /\ Show(LAMBDA t : terminal_write(t, <<"\n">> \o out \o Prompt))
    /\ shell_buffer_len' = 0
    /\ line' = <<>>
    /\ UNCHANGED shell_buffer

(* shell_putchar('\n'), with the command and its output.                   *)
Enter(out) ==
    /\ shell_buffer_len = 0 => out = <<>>
    /\ Show(LAMBDA t : terminal_write(t, <<"\n">> \o out \o Prompt))
    /\ shell_buffer' = [shell_buffer EXCEPT ![0] = NUL]
    /\ shell_buffer_len' = 0
    /\ line' = <<>>

(* shell_putchar('\b').                                                    *)
Backspace ==
    IF shell_buffer_len = 0
    THEN UNCHANGED <<shell_buffer, shell_buffer_len, line>> /\ ShowNothing
    ELSE /\ shell_buffer_len' = shell_buffer_len - 1
         /\ shell_buffer' = [shell_buffer EXCEPT ![shell_buffer_len'] = NUL]
         /\ Show(terminal_deletechar)
         /\ line' = SubSeq(line, 1, Len(line) - 1)

(* shell_putchar of another character.  The code's own limit, 254, is      *)
(* beyond the buffer; only lines that fit in it are considered.            *)
LineFits == shell_buffer_len + 1 < Size
Type(c) ==
    /\ LineFits
    /\ shell_buffer' = [shell_buffer EXCEPT ![shell_buffer_len] = c,
                                            ![shell_buffer_len + 1] = NUL]
    /\ shell_buffer_len' = shell_buffer_len + 1
    /\ Show(LAMBDA t : terminal_putchar(t, c))
    /\ line' = Append(line, c)
------------------------------------------------------------------------------
(* keyboard_handler on a make code, which the keyboard repeats while the   *)
(* key is down.                                                            *)
Press(key) ==
    /\ held' = held \cup ({key} \cap Shift)
    /\ IF key \in Shift \cup Dead
       THEN /\ shift_down' = (shift_down \/ key \in Shift)
            /\ UNCHANGED <<shell_buffer, shell_buffer_len, line>> /\ ShowNothing
       ELSE /\ \/ key = "enter" /\ \E out \in Outputs \cup {<<>>} : Enter(out)
               \/ key = "backspace" /\ Backspace
               \/ key \in Letter /\ Type(Char(key))
            /\ UNCHANGED shift_down

(* Mutant: only the left shift key is looked at.                           *)
Release_LeftOnly(key) ==
    /\ key \in Shift => key \in held
    /\ held' = held \ {key}
    /\ shift_down' = (shift_down /\ key # "lshift")
    /\ UNCHANGED <<shell_buffer, shell_buffer_len, line>> /\ ShowNothing

(* ... and on a break code.                                                *)
Release(key) ==
    /\ key \in Shift => key \in held
    /\ held' = held \ {key}
    /\ shift_down' = (shift_down /\ key \notin Shift)
    /\ UNCHANGED <<shell_buffer, shell_buffer_len, line>> /\ ShowNothing

------------------------------------------------------------------------------
(* serial_received, serial_read and printf: a character arrives and        *)
(* terminal_putchar begins.  The compiler may keep the row and the column  *)
(* it loads here or load them again where they are used next.              *)
EchoBegin(c) ==
    /\ echo.at = "idle" /\ echoes < MaxSerial
    /\ echoes' = echoes + 1
    /\ echo' = [at |-> IF c \in {"\n", "\r"} THEN "column" ELSE "put",
                c |-> c, row |-> term.row, column |-> term.column]
    /\ whole' = IF torn THEN whole ELSE terminal_putchar(whole, c)
    /\ UNCHANGED <<keyvars, term, torn>>

(* The cell, then the column.                                              *)
EchoPut ==
    /\ echo.at = "put"
    /\ term' = [term EXCEPT !.buffer =
                   terminal_putentryat([row |-> echo.row, column |-> echo.column, buffer |-> @],
                                       echo.c).buffer]
    /\ echo' = [echo EXCEPT !.at = "advance"]
    /\ UNCHANGED <<keyvars, echoes, torn, whole>>
EchoAdvance ==
    /\ echo.at = "advance"
    /\ \E column \in {echo.column, term.column} :
           /\ term' = [term EXCEPT !.column = (column + 1) % Word]
           /\ echo' = IF term'.column = VGA_WIDTH THEN [echo EXCEPT !.at = "column"] ELSE Idle
    /\ UNCHANGED <<keyvars, echoes, torn, whole>>

(* At the end of a line: the column, the row, and the screen with the row  *)
(* once more.  A key during the copy of the screen is as one before it.    *)
EchoColumn ==
    /\ echo.at = "column"
    /\ term' = [term EXCEPT !.column = 0]
    /\ echo' = IF echo.c = "\r" THEN Idle ELSE [echo EXCEPT !.at = "row"]
    /\ UNCHANGED <<keyvars, echoes, torn, whole>>
EchoRow ==
    /\ echo.at = "row"
    /\ \E row \in {echo.row, term.row} :
           /\ term' = [term EXCEPT !.row = (row + 1) % Word]
           /\ echo' = IF term'.row = VGA_HEIGHT THEN [echo EXCEPT !.at = "scroll"] ELSE Idle
    /\ UNCHANGED <<keyvars, echoes, torn, whole>>
EchoScroll ==
    /\ echo.at = "scroll"
    /\ term' = terminal_scrollup(term)
    /\ echo' = [echo EXCEPT !.at = "back"]
    /\ UNCHANGED <<keyvars, echoes, torn, whole>>

(* Mutant: the row is not taken back.                                      *)
EchoBack_Stays ==
    /\ echo.at = "back"
    /\ echo' = Idle
    /\ UNCHANGED <<keyvars, term, echoes, torn, whole>>

EchoBack ==
    /\ echo.at = "back"
    /\ \E row \in {VGA_HEIGHT, term.row} : term' = [term EXCEPT !.row = (row - 1) % Word]
    /\ echo' = Idle
    /\ UNCHANGED <<keyvars, echoes, torn, whole>>

Echo ==
    \/ \E c \in Serial : EchoBegin(c)
    \/ EchoPut \/ EchoAdvance \/ EchoColumn \/ EchoRow \/ EchoScroll \/ EchoBack

Next == Echo \/ \E key \in Key : Press(key) \/ Release(key)

Spec == Init /\ [][Next]_vars
------------------------------------------------------------------------------
TypeOK ==
    /\ held \subseteq Shift /\ shift_down \in BOOLEAN
    /\ DOMAIN shell_buffer = 0..(Size - 1)
    /\ shell_buffer_len \in 0..(Size - 1)
    /\ echo.at \in {"idle", "put", "advance", "column", "row", "scroll", "back"}
    /\ echoes \in 0..MaxSerial /\ torn \in BOOLEAN
    /\ {term.row, term.column} \subseteq 0..(Word - 1)

(* Shift is never stuck: while shift_down is set a shift key is held.      *)
ShiftHeld == shift_down => held \cap Shift # {}

(* What shell_runcmd reads, up to the first null byte, is what the user    *)
(* has typed, with nothing of earlier, longer lines.                       *)
CommandIsTyped ==
    /\ shell_buffer_len = Len(line)
    /\ \A i \in 1..Len(line) : shell_buffer[i - 1] = line[i]
    /\ shell_buffer[Len(line)] = NUL

(* As long as nothing has been echoed, the characters in front of the      *)
(* cursor are the prompt and the line, and nothing is left behind it,      *)
(* whatever has been wrapped, scrolled and deleted: also where the column  *)
(* has gone below zero.                                                    *)
LineShown ==
    LET shown == Prompt \o line
    IN  echoes = 0 =>
        /\ Index(term) \in Screen /\ Index(term) >= Len(shown)
        /\ \A i \in 1..Len(shown) :
               term.buffer[Index(term) - Len(shown) + i - 1] = shown[i]
        /\ \A i \in Screen : i >= Index(term) => term.buffer[i] = " "

(* Unless a key is shown in the middle of an echo, the screen and the      *)
(* cursor are those of one whole call after the other, and the cursor is   *)
(* on a row of the screen: reading the row or the column early or late     *)
(* makes no difference, and a key between two echoes does no harm.         *)
EchoWhole ==
    ~torn => /\ echo.at = "idle" => term = whole
             /\ whole.row \in 0..(VGA_HEIGHT - 1)
==============================================================================
