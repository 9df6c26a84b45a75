------------------------------- MODULE MCBoot -------------------------------
(***************************************************************************)
(* A kernel whose header has five free bits, boot taking four of them, and *)
(* two words of code; memories that count as none, as less than the        *)
(* header and as more than the cells considered.  Machines with fewer and  *)
(* with more PCI functions than the table has entries; calendars that end  *)
(* a year and that pass ten, noon and one o'clock.                         *)
(***************************************************************************)
EXTENDS Boot, Libc, TLC

MCImage == (0 :> {0}) @@ (1 :> {0, 1}) @@ (2 :> {0, 1, 2}) @@ (3 :> {1}) @@ (4 :> {0, 2})

Answers(n) == [vendor |-> 4096 + n, device |-> 33000 + n, class |-> n, subclass |-> 255 - n]
MCMachines ==
    {[p \in {<<0, 0, 1>>, <<1, 1, 0>>} |-> Answers(p[1] + 1)],
     [p \in {<<0, 1, 0>>, <<0, 1, 1>>, <<1, 0, 0>>, <<1, 1, 1>>} |-> Answers(4 * p[1] + 2 * p[2] + p[3])]}

Instant(h, m, s) == [seconds |-> s, minutes |-> m, hours |-> h, month |-> 12, day |-> 31, year |-> 99]
MCCalendars ==
    {<<Instant(23, 59, 59), [Instant(0, 0, 0) EXCEPT !.month = 1, !.day = 1, !.year = 0]>>,
     <<Instant(9, 59, 59), Instant(10, 0, 0)>>,
     <<Instant(12, 59, 59), Instant(13, 0, 0)>>}

(* What kernel_early prints with is right (FormatRight of Libc), which is  *)
(* the same in every state and looked at in the first.                     *)
PrintsRight == mode = "mem" => FormatRight
==============================================================================
