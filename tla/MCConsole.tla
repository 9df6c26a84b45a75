------------------------------ MODULE MCConsole ------------------------------
(***************************************************************************)
(* A screen of three rows of three, lines of up to four characters and a   *)
(* command that prints nothing, a line, or over what it has printed.       *)
(***************************************************************************)
EXTENDS Console, TLC

MCScancodes == "a" :> "a"
MCShifted == "a" :> "A"

MCSerial == {"s", "\n"}
MCOutputs == {<<"x", "\n">>, <<"x", "\r", "y">>}

(* What is on the screen after a torn echo, and where the echo stands,     *)
(* bears on no property any more, nor on what keys do to the buffer.       *)
MCView == <<keyvars, torn, IF torn THEN <<>> ELSE <<term, echo, echoes, whole>>>>
==============================================================================
