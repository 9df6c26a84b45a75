-------------------------------- MODULE Clock --------------------------------
(***************************************************************************)
(* The arithmetic of kernel/clock.c: time is a number of seconds and of    *)
(* clicks, and the difference of two times borrows a second, in unsigned   *)
(* words.                                                                  *)
(***************************************************************************)
EXTENDS Integers

CONSTANTS CPS,     \* CLICKS_PER_SECOND: 10
          Word     \* uint32_t arithmetic: 2^32

ASSUME ClockAssumption == CPS \in 1..1000 /\ Word \in Nat /\ Word > 2

(* clock_interrupt on the two counters.                                    *)
NextClicks(clicks) == IF clicks + 1 >= CPS THEN 0 ELSE clicks + 1
NextSeconds(clicks, seconds) ==
    IF clicks + 1 >= CPS THEN (seconds + 1) % Word ELSE seconds

(* The conversion in clock_read.                                           *)
Millis(clicks) == (1000 * clicks) \div CPS

clock_diff(start, stop) ==
    IF stop.millis < start.millis
    THEN [seconds |-> (stop.seconds - 1 - start.seconds) % Word,
          millis  |-> stop.millis + 1000 - start.millis]
    ELSE [seconds |-> (stop.seconds - start.seconds) % Word,
          millis  |-> stop.millis - start.millis]
=============================================================================
