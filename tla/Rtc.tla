--------------------------------- MODULE Rtc ---------------------------------
(***************************************************************************)
(* rtc.c: reading the time out of the registers of the real-time clock.    *)
(* The firmware has chosen binary or BCD, and 24 or 12 hours.              *)
(***************************************************************************)
EXTENDS Integers, Sequences

RtcFormat == [binary : BOOLEAN, h24 : BOOLEAN]

Instants == [seconds : 0..59, minutes : 0..59, hours : 0..23,
             month : 1..12, day : 1..31, year : 0..99]

(* The order of the reads.                                                 *)
Fields == <<"seconds", "minutes", "hours", "month", "day", "year">>

(* What a register holds at an instant: in 12-hour mode the hours run from *)
(* 1 to 12, with the top bit set from noon on.                             *)
Bcd(n) == 16 * (n \div 10) + (n % 10)
Encoded(f, n) == IF f.binary THEN n ELSE Bcd(n)
Register(f, instant, field) ==
    IF field = "hours" /\ ~f.h24
    THEN LET h == instant.hours % 12
         IN  Encoded(f, IF h = 0 THEN 12 ELSE h) + (IF instant.hours >= 12 THEN 128 ELSE 0)
    ELSE Encoded(f, instant[field])
------------------------------------------------------------------------------
rtc_bcd_convert(bcd) ==
    LET tens == 16 * (bcd \div 16)
    IN  ((tens \div 2) + ((tens \div 8) + (bcd % 16))) % 256

(* rtc_get_time after the reads.                                           *)
Decoded(f, raw) ==
    LET plain == [x \in DOMAIN raw |-> IF f.binary THEN raw[x] ELSE rtc_bcd_convert(raw[x])]
        hours == plain.hours
    IN  [plain EXCEPT !.hours = IF ~f.h24 /\ hours >= 128 THEN ((hours % 128) + 12) % 24 ELSE hours,
                      !.year = @ + 2000]
==============================================================================
