------------------------------ MODULE AtaProofs ------------------------------
(***************************************************************************)
(* A drive that answers anything cannot keep ata_wait polling, nor make an *)
(* operation report success it did not have: proofs about Ata, for any     *)
(* clock rate, timeout, word and number of blocks.                         *)
(***************************************************************************)
EXTENDS Ata, SequenceTheorems, TLAPS

Waiting == {"start", "poll", "read", "sleep"}
Resetting == {"reset1", "reset2", "reset3"}

(* What is left to do is a sequence of steps of the function under way, and *)
(* begins with the wait while that is under way or has failed.             *)
ProgOK ==
    /\ prog \in Seq(Steps) /\ alt \in Seq(Steps)
    /\ pc \in Waiting \/ (pc \in Resetting /\ after = "fail") => prog # <<>>

(* A failed wait whose result is looked at is on its way to the end.       *)
FailOK ==
    failed => op = "none" \/ (pc \in Resetting /\ after = "fail" /\ Head(prog) = "wait")

PInv == ProgOK /\ FailOK

LEMMA Programs ==
    (\A f \in Functions : Program(f) \in Seq(Steps)) /\ ata_identify \in Seq(Steps)
<1>1. Blocks \in Seq({"wait", "data"})
  <2>1. 2 * NBlocks \in Nat
    BY AtaAssumption
  <2> QED BY <2>1 DEF Blocks
<1>2. {"wait", "data"} \subseteq Steps
  BY DEF Steps
<1>3. Blocks \in Seq(Steps)
  BY <1>1, <1>2
<1>4. {ata_begin, atapi_begin, <<"wait", "data">>, <<"wait">>, <<"reset">>} \subseteq Seq(Steps)
  BY DEF ata_begin, atapi_begin, Steps
<1>5. ata_identify \in Seq(Steps)
  BY <1>4 DEF ata_identify
<1>6. {ata_begin \o Blocks \o <<"wait">>, atapi_begin \o Blocks, <<"reset">> \o ata_identify}
          \subseteq Seq(Steps)
  BY <1>3, <1>4, <1>5
<1> QED BY <1>5, <1>6 DEF Program, Functions

LEMMA Tails ==
    ASSUME NEW S, NEW s \in Seq(S), s # <<>>
    PROVE  Tail(s) \in Seq(S) /\ Head(s) \in S
OBVIOUS

LEMMA InitPInv == Init => PInv
BY DEF Init, PInv, ProgOK, FailOK, Waiting, Resetting

LEMMA NextPInv == ASSUME PInv, [Next]_vars PROVE PInv'
<1>1. ProgOK /\ FailOK
  BY DEF PInv
<1> USE DEF PInv, ProgOK, FailOK, Waiting, Resetting
<1>2. CASE Tick
  BY <1>1, <1>2 DEF Tick, Sleeping
<1>3. ASSUME NEW f \in Ops, Begin(f) PROVE PInv'
  <2>1. f \in Functions
    BY AtaAssumption
  <2>2. alt' \in Seq(Steps)
    BY <1>3, Programs DEF Begin
  <2>3. prog' \in Seq(Steps)
    BY <1>3, <2>1, Programs DEF Begin
  <2> QED BY <1>3, <2>2, <2>3 DEF Begin
<1>4. CASE NothingAttached
  BY <1>1, <1>4 DEF NothingAttached
<1>5. CASE Finish
  BY <1>1, <1>5 DEF Finish
<1>6. CASE Transfer
  BY <1>1, <1>6, Tails DEF Transfer
<1>7. CASE ProbeReset
  BY <1>1, <1>7, Tails DEF ProbeReset
<1>8. CASE WaitStart
  BY <1>1, <1>8 DEF WaitStart
<1>9. CASE WaitStart2
  BY <1>1, <1>9 DEF WaitStart2
<1>10. CASE PollMatch
  BY <1>1, <1>10, Tails DEF PollMatch
<1>11. CASE PollError
  BY <1>1, <1>11 DEF PollError, ResetAndFail
<1>12. CASE PollAgain
  BY <1>1, <1>12 DEF PollAgain
<1>13. CASE PollTime
  <2>1. CASE TimedOut
    BY <1>1, <1>13, <2>1 DEF PollTime, ResetAndFail
  <2>2. CASE ~TimedOut
    BY <1>1, <1>13, <2>2 DEF PollTime
  <2> QED BY <2>1, <2>2
<1>14. CASE ResetDone
  <2>1. CASE after = "next"
    BY <1>1, <1>14, <2>1 DEF ResetDone
  <2>2. CASE after = "fail" /\ Head(prog) = "trywait"
    <3>1. prog # <<>>
      BY <1>14, <2>2 DEF ResetDone
    <3> QED BY <1>1, <1>14, <2>2, <3>1, Tails DEF ResetDone
  <2>3. CASE after = "fail" /\ Head(prog) = "wait"
    <3>0. <<>> \in Seq(Steps)
      OBVIOUS
    <3>1. CASE alt # <<>>
      <4>1. pc' = "next" /\ prog' = alt /\ alt' = <<>> /\ failed' = FALSE /\ op' = op
        BY <1>14, <2>3, <3>1 DEF ResetDone
      <4> QED BY <1>1, <3>0, <4>1
    <3>2. CASE alt = <<>>
      <4>1. pc' = "idle" /\ prog' = <<>> /\ alt' = <<>> /\ op' = "none"
        BY <1>14, <2>3, <3>2 DEF ResetDone
      <4> QED BY <3>0, <4>1
    <3> QED BY <3>1, <3>2
  <2> QED BY <1>14, <2>1, <2>2, <2>3 DEF ResetDone
<1>15. CASE UNCHANGED vars
  BY <1>1, <1>15 DEF vars
<1> QED BY <1>2, <1>3, <1>4, <1>5, <1>6, <1>7, <1>8, <1>9, <1>10, <1>11, <1>12, <1>13,
           <1>14, <1>15 DEF Next, Step

LEMMA PInvariance == Spec => []PInv
BY InitPInv, NextPInv, PTL DEF Spec

(* A read, packet read, write or probe reports success only when the drive *)
(* has answered every wait whose result the function looks at, whatever    *)
(* the drive does, with any number of blocks.                              *)
THEOREM SuccessTheorem == Spec => SuccessMeansAnswered
<1> DEFINE A == Ends("ok") => ~failed
<1>1. ASSUME PInv, [Next]_vars PROVE [A]_vars
  <2> SUFFICES ASSUME Next, Ends("ok") PROVE ~failed
    BY <1>1
  <2>1. op # "none" /\ op' = "none" /\ result' = "ok"
    BY DEF Ends
  <2>2. CASE Finish
    BY <2>1, <2>2, <1>1 DEF Finish, PInv, FailOK, Resetting
  <2>3. ASSUME NEW f \in Ops, Begin(f) PROVE FALSE
    BY <2>1, <2>3, AtaAssumption DEF Begin, Functions
  <2>4. ~NothingAttached /\ ~Tick /\ ~ResetDone
    BY <2>1 DEF NothingAttached, Tick, ResetDone
  <2>5. /\ ~Transfer /\ ~ProbeReset /\ ~WaitStart /\ ~WaitStart2 /\ ~PollMatch
        /\ ~PollError /\ ~PollAgain /\ ~PollTime
    BY <2>1 DEF Transfer, ProbeReset, WaitStart, WaitStart2, PollMatch, PollError,
                PollAgain, PollTime
  <2> QED BY <2>2, <2>3, <2>4, <2>5 DEF Next, Step
<1> QED BY <1>1, PInvariance, PTL DEF Spec, SuccessMeansAnswered

------------------------------------------------------------------------------
(* Seconds in words: the time of a wait is less than a turn of the clock.  *)
LEMMA ModOnce ==
    ASSUME NEW n \in Nat, NEW d \in Nat, 0 < d, n < 2 * d
    PROVE  n % d = IF n < d THEN n ELSE n - d
<1>1. CASE n < d
  BY <1>1
<1>2. CASE n >= d
  BY <1>2
<1> QED BY <1>1, <1>2

LEMMA NextSecond ==
    ASSUME NEW W \in Nat, NEW s \in 0..(W - 1), NEW k \in Nat, k + 1 < W
    PROVE  (((s + k) % W) + 1) % W = (s + (k + 1)) % W
<1>0. s + k \in Nat /\ 0 < W /\ s + k < 2 * W
  OBVIOUS
<1>1. (s + k) % W = IF s + k < W THEN s + k ELSE s + k - W
  BY <1>0, ModOnce
<1>2. (s + (k + 1)) % W = IF s + (k + 1) < W THEN s + (k + 1) ELSE s + (k + 1) - W
  BY ModOnce
<1>3. \A t \in 0..(W - 1) : (t + 1) % W = IF t + 1 < W THEN t + 1 ELSE t + 1 - W
  BY ModOnce
<1>4. (s + k) % W \in 0..(W - 1)
  BY <1>1
<1> QED BY <1>1, <1>2, <1>3, <1>4

LEMMA Difference ==
    ASSUME NEW W \in Nat, W > 1, NEW s \in 0..(W - 1), NEW k \in 0..(W - 1)
    PROVE  /\ (((s + k) % W) - s) % W = k
           /\ (((s + k) % W) - 1 - s) % W = IF k = 0 THEN W - 1 ELSE k - 1
<1>0. s + k \in Nat /\ 0 < W /\ s + k < 2 * W
  OBVIOUS
<1>1. (s + k) % W = IF s + k < W THEN s + k ELSE s + k - W
  BY <1>0, ModOnce
<1>2. \A n \in 0..(W - 1) : n % W = n /\ (n - W) % W = n
  OBVIOUS
<1>3. CASE s + k < W
  <2>1. ((s + k) % W) - s = k /\ ((s + k) % W) - 1 - s = k - 1
    BY <1>1, <1>3
  <2>2. (k - 1) % W = IF k = 0 THEN W - 1 ELSE k - 1
    <3>1. CASE k = 0
      <4>1. k - 1 = (W - 1) - W /\ W - 1 \in 0..(W - 1)
        BY <3>1
      <4> QED BY <3>1, <4>1, <1>2
    <3>2. CASE k # 0
      BY <3>2, <1>2
    <3> QED BY <3>1, <3>2
  <2> QED BY <2>1, <2>2, <1>2
<1>4. CASE s + k >= W
  <2>1. k > 0 /\ k - 1 \in 0..(W - 1)
    BY <1>4
  <2>2. ((s + k) % W) - s = k - W /\ ((s + k) % W) - 1 - s = (k - 1) - W
    BY <1>1, <1>4
  <2> QED BY <2>1, <2>2, <1>2
<1> QED BY <1>3, <1>4
------------------------------------------------------------------------------
Limit == (ATA_TIMEOUT + 2) * CPS + MaxSlack

(* How far a wait has come, place by place.  The count never meets its cap *)
(* within a wait.                                                          *)
Paced ==
    /\ pc = "start" => spent <= slack
    /\ pc = "poll"  => spent <= Limit + slack
    /\ pc = "read"  => spent <= Limit + MaxSlack + slack
    /\ pc = "sleep" => spent < Limit

(* The clock has made k full seconds since the wait began at c clicks.     *)
Passed(c, k) ==
    /\ c + spent = k * CPS + clicks
    /\ seconds = (start.seconds + k) % Word

(* The seconds loaded a while ago, at most slack clicks.                   *)
Loaded(c, k) ==
    /\ stop.seconds = (start.seconds + k) % Word
    /\ c + spent - slack < (k + 1) * CPS

Turn == 0..(Word - 1)
Since ==
    /\ pc \in {"start", "poll", "sleep"} => \E c \in 0..(CPS - 1), k \in Turn : Passed(c, k)
    /\ pc = "read" => \E c \in 0..(CPS - 1), k, l \in Turn : Passed(c, k) /\ Loaded(c, l)

IInv == PInv /\ TypeOK /\ Paced /\ Since

LEMMA Numbers ==
    /\ CPS \in Nat /\ CPS >= 1 /\ CPS <= 1000 /\ Word \in Nat /\ Word > 2
    /\ ATA_TIMEOUT \in Nat /\ MaxSlack \in Nat
    /\ Limit \in Nat /\ SpentCap \in Nat /\ MaxSlack < Limit /\ Limit + 2 * MaxSlack < SpentCap
    /\ SpentCap + CPS <= Word * CPS
    /\ ATA_TIMEOUT + 4 < Word
<1>1. /\ CPS \in Nat /\ CPS >= 1 /\ CPS <= 1000 /\ Word \in Nat /\ Word > 2
      /\ ATA_TIMEOUT \in Nat /\ MaxSlack \in Nat
  BY ClockAssumption, AtaAssumption
<1>2. (ATA_TIMEOUT + 4) * CPS = (ATA_TIMEOUT + 2) * CPS + 2 * CPS
  BY <1>1
<1>3. (ATA_TIMEOUT + 2) * CPS \in Nat /\ (ATA_TIMEOUT + 2) * CPS >= 2
  BY <1>1
<1>4. SpentCap + CPS <= Word * CPS /\ Word * CPS \in Nat
  BY <1>1, <1>2, <1>3, WindowAssumption DEF SpentCap
<1>5. (ATA_TIMEOUT + 4) * CPS < Word * CPS
  BY <1>1, <1>2, <1>3, <1>4 DEF SpentCap
<1>6. ATA_TIMEOUT + 4 < Word
  BY <1>1, <1>5
<1> QED BY <1>1, <1>2, <1>3, <1>4, <1>6 DEF Limit, SpentCap

LEMMA MillisRange == ASSUME NEW c \in 0..(CPS - 1) PROVE Millis(c) \in 0..999
<1>1. 1000 * c \in Nat /\ 1000 * c < 1000 * CPS /\ CPS \in Nat /\ CPS >= 1
  BY Numbers
<1>2. \A n \in Nat : n < 1000 * CPS => n \div CPS < 1000 /\ n \div CPS \in Nat
  BY <1>1
<1> QED BY <1>1, <1>2 DEF Millis

LEMMA InitIInv == Init => IInv
<1> SUFFICES ASSUME Init PROVE IInv
  OBVIOUS
<1>1. TypeOK
  <2>1. /\ 0 \in 0..CPS - 1 /\ 0 \in 0..Word - 1 /\ 0 \in 0..SpentCap /\ 0 \in 0..MaxSlack
        /\ 0 \in 0..999
    BY Numbers
  <2>2. Zero \in [seconds: 0..Word - 1, millis: 0..999]
    BY <2>1 DEF Zero
  <2>3. <<>> \in Seq(Steps)
    OBVIOUS
  <2> QED BY <2>1, <2>2, <2>3 DEF Init, TypeOK
<1>2. Paced /\ Since
  BY DEF Init, Paced, Since
<1> QED BY <1>1, <1>2, InitPInv DEF IInv

(* A click within a wait.                                                  *)
LEMMA TickPassed ==
    ASSUME TypeOK, Tick, spent < SpentCap, pc # "idle",
           NEW c \in 0..(CPS - 1), NEW k \in Turn, Passed(c, k)
    PROVE  /\ spent' = spent + 1 /\ start' = start /\ stop' = stop
           /\ \E j \in Turn : Passed(c, j)'
<1>1. /\ spent' = spent + 1 /\ start' = start /\ stop' = stop
      /\ clicks' = NextClicks(clicks) /\ seconds' = NextSeconds(clicks, seconds)
  BY DEF Tick
<1>2. /\ clicks \in 0..(CPS - 1) /\ seconds \in Turn /\ spent \in Nat
      /\ start.seconds \in Turn /\ start'.seconds = start.seconds
  BY <1>1, Numbers DEF TypeOK, Turn
<1>3. c + spent = k * CPS + clicks /\ seconds = (start.seconds + k) % Word
  BY DEF Passed
<1>4. k \in Nat /\ k < Word /\ k * CPS \in Nat
  BY Numbers DEF Turn
<1>5. CASE clicks + 1 < CPS
  <2>1. clicks' = clicks + 1 /\ seconds' = seconds
    BY <1>1, <1>2, <1>5, Numbers DEF NextClicks, NextSeconds
  <2>2. Passed(c, k)'
    BY <1>1, <1>2, <1>3, <1>4, <2>1, Numbers DEF Passed
  <2> QED BY <1>1, <2>2
<1>6. CASE clicks + 1 >= CPS
  <2>1. clicks' = 0 /\ seconds' = (seconds + 1) % Word /\ clicks + 1 = CPS
    BY <1>1, <1>2, <1>6, Numbers DEF NextClicks, NextSeconds
  <2>2. (k + 1) * CPS = k * CPS + CPS
    BY <1>4, Numbers
  <2>3. c + (spent + 1) = (k + 1) * CPS
    BY <1>2, <1>3, <1>4, <2>1, <2>2, Numbers
  <2>4. (k + 1) * CPS < Word * CPS
    BY <1>2, <2>3, Numbers
  <2>5. k + 1 < Word
    BY <2>4, <1>4, Numbers
  <2>6. seconds' = (start.seconds + (k + 1)) % Word
    BY <2>1, <2>5, <1>2, <1>3, <1>4, NextSecond, Numbers DEF Turn
  <2>7. k + 1 \in Turn
    BY <2>5, <1>4, Numbers DEF Turn
  <2>8. Passed(c, k + 1)'
    BY <1>1, <1>2, <2>1, <2>3, <2>6, <2>7, <1>4, Numbers DEF Passed
  <2> QED BY <1>1, <2>7, <2>8
<1> QED BY <1>2, <1>5, <1>6, Numbers

(* The comparison at the end of a round: when the wait goes on, it has not *)
(* yet lasted for long.                                                    *)
LEMMA NotTimedOut ==
    ASSUME TypeOK, NEW c \in 0..(CPS - 1), NEW k \in Turn, Loaded(c, k), ~TimedOut
    PROVE  spent < Limit
<1>1. /\ clicks \in 0..(CPS - 1) /\ spent \in Nat /\ slack \in 0..MaxSlack
      /\ start.seconds \in 0..(Word - 1) /\ start.millis \in 0..999
      /\ stop.seconds \in 0..(Word - 1) /\ k \in 0..(Word - 1)
  BY Numbers DEF TypeOK, Turn
<1> DEFINE now == [stop EXCEPT !.millis = Millis(clicks)]
<1>2. now.seconds = stop.seconds /\ now.millis = Millis(clicks) /\ now.millis \in 0..999
  <2>1. stop \in [seconds: 0..Word - 1, millis: 0..999]
    BY DEF TypeOK
  <2>2. Millis(clicks) \in 0..999
    BY <1>1, MillisRange
  <2> QED BY <2>1, <2>2
<1> HIDE DEF now
<1>3. Elapsed.seconds \in {(stop.seconds - 1 - start.seconds) % Word,
                           (stop.seconds - start.seconds) % Word}
  <2>1. Elapsed = clock_diff(start, now)
    BY DEF Elapsed, now
  <2> QED BY <2>1, <1>2 DEF clock_diff
<1>4. stop.seconds = (start.seconds + k) % Word /\ c + spent - slack < (k + 1) * CPS
  BY DEF Loaded
<1>5. Elapsed.seconds \in {k, IF k = 0 THEN Word - 1 ELSE k - 1}
  <2>1. Word \in Nat /\ Word > 1
    BY Numbers
  <2>2. /\ (((start.seconds + k) % Word) - start.seconds) % Word = k
        /\ (((start.seconds + k) % Word) - 1 - start.seconds) % Word
               = IF k = 0 THEN Word - 1 ELSE k - 1
    BY <1>1, <2>1, Difference
  <2> QED BY <1>3, <1>4, <2>2
<1>6. ~(Elapsed.seconds > ATA_TIMEOUT)
  BY DEF TimedOut
<1>7. k <= ATA_TIMEOUT + 1
  BY <1>1, <1>5, <1>6, Numbers
<1>8. (k + 1) * CPS <= (ATA_TIMEOUT + 2) * CPS
  BY <1>1, <1>7, Numbers
<1>9. (k + 1) * CPS \in Nat /\ (ATA_TIMEOUT + 2) * CPS \in Nat
  BY <1>1, Numbers
<1> QED BY <1>1, <1>4, <1>8, <1>9, Numbers DEF Limit

(* Steps that leave the clock, the count and the second of the start alone *)
(* keep what has passed.                                                   *)
LEMMA StepSince ==
    ASSUME IInv, UNCHANGED <<clicks, seconds, spent, start>>,
           pc' \notin {"start", "read"}, pc' \in {"poll", "sleep"} => pc \in {"poll", "read", "sleep"}
    PROVE  Since'
<1>1. \A c, k : Passed(c, k) => Passed(c, k)'
  BY DEF Passed
<1> QED BY <1>1 DEF IInv, Since

(* The type, in parts: numbers, places, and the rest.                      *)
Times ==
    /\ clicks \in 0..CPS - 1 /\ seconds \in 0..Word - 1
    /\ start \in [seconds: 0..Word - 1, millis: 0..999]
    /\ stop \in [seconds: 0..Word - 1, millis: 0..999]
    /\ spent \in 0..SpentCap /\ slack \in 0..MaxSlack
Places ==
    /\ op \in Functions \cup {"none"}
    /\ pc \in {"idle", "next", "start", "poll", "read", "reset3"} \cup Sleeping
    /\ after \in {"none", "next", "fail"} /\ result \in {"ok", "fail"}
LEMMA TypeSplit ==
    /\ TypeOK => Times /\ Places /\ failed \in BOOLEAN
    /\ Times' /\ Places' /\ failed' \in BOOLEAN /\ prog' \in Seq(Steps) /\ alt' \in Seq(Steps)
       => TypeOK'
<1>1. TypeOK => Times /\ Places /\ failed \in BOOLEAN
  BY Zenon DEF TypeOK, Times, Places
<1>2. /\ Times' /\ Places' /\ failed' \in BOOLEAN /\ prog' \in Seq(Steps) /\ alt' \in Seq(Steps)
      => TypeOK'
  BY Zenon DEF TypeOK, Times, Places
<1> QED BY <1>1, <1>2, Zenon

LEMMA TypeParts ==
    ASSUME TypeOK
    PROVE  /\ clicks \in 0..CPS - 1 /\ seconds \in 0..Word - 1
           /\ start \in [seconds: 0..Word - 1, millis: 0..999]
           /\ stop \in [seconds: 0..Word - 1, millis: 0..999]
           /\ spent \in 0..SpentCap /\ spent \in Nat /\ slack \in 0..MaxSlack /\ slack \in Nat
BY Numbers DEF TypeOK

LEMMA TickIInv == ASSUME IInv, Tick PROVE IInv'
<1>1. TypeOK /\ Paced /\ Since
  BY DEF IInv
<1>2. PInv'
  BY NextPInv DEF IInv, Next
<1>3. /\ clicks' \in 0..CPS - 1 /\ seconds' \in 0..Word - 1
  <2>1. clicks' = NextClicks(clicks) /\ seconds' = NextSeconds(clicks, seconds)
    BY DEF Tick
  <2>2. (seconds + 1) % Word \in 0..Word - 1
    BY <1>1, TypeParts, Numbers
  <2> QED BY <1>1, <2>1, <2>2, TypeParts, Numbers DEF NextClicks, NextSeconds
<1>4. spent' \in 0..SpentCap /\ slack' \in 0..MaxSlack
  BY <1>1, TypeParts, Numbers DEF Tick
<1>5. TypeOK'
  BY <1>1, <1>3, <1>4 DEF TypeOK, Tick, Sleeping
<1>6. CASE pc \notin Waiting
  <2>1. pc' \notin Waiting
    BY <1>6 DEF Tick, Waiting
  <2> QED BY <1>2, <1>5, <2>1 DEF IInv, Paced, Since, Waiting
<1>7. CASE pc \in Waiting
  <2>1. spent < SpentCap
    BY <1>1, <1>7, TypeParts, Numbers DEF Paced, Waiting
  <2>2. pc # "idle" /\ (pc # "sleep" => slack' = slack + 1 /\ pc' = pc)
        /\ (pc = "sleep" => slack' = 0 /\ pc' = "poll")
    BY <1>7 DEF Waiting, Tick, Sleeping
  <2>3. spent' = spent + 1
    BY <2>1, <2>2 DEF Tick
  <2>4. Paced'
    BY <1>1, <1>7, <2>2, <2>3, TypeParts, Numbers DEF Paced, Waiting
  <2>5. Since'
    <3>1. CASE pc # "read"
      <4>1. PICK c \in 0..(CPS - 1), k \in Turn : Passed(c, k)
        BY <1>1, <1>7, <3>1 DEF Since, Waiting
      <4>2. \E j \in Turn : Passed(c, j)'
        BY <1>1, <2>1, <2>2, <4>1, TickPassed
      <4>3. pc' # "read"
        BY <3>1, <2>2
      <4> QED BY <4>2, <4>3 DEF Since
    <3>2. CASE pc = "read"
      <4>1. PICK c \in 0..(CPS - 1), k \in Turn, l \in Turn : Passed(c, k) /\ Loaded(c, l)
        BY <1>1, <3>2 DEF Since
      <4>2. (\E j \in Turn : Passed(c, j)') /\ start' = start /\ stop' = stop
        BY <1>1, <2>1, <2>2, <4>1, TickPassed
      <4>3. Loaded(c, l)'
        <5>1. c + spent' - slack' = c + spent - slack
          BY <1>1, <2>2, <2>3, <3>2, TypeParts, Numbers
        <5> QED BY <4>1, <4>2, <5>1 DEF Loaded
      <4>4. pc' = "read"
        BY <3>2, <2>2
      <4> QED BY <4>2, <4>3, <4>4 DEF Since
    <3> QED BY <3>1, <3>2
  <2> QED BY <1>2, <1>5, <2>4, <2>5 DEF IInv
<1> QED BY <1>6, <1>7

(* The places outside a wait.                                              *)
LEMMA OutsideIInv ==
    ASSUME PInv', TypeOK', pc' \notin Waiting
    PROVE  IInv'
BY DEF IInv, Paced, Since, Waiting

LEMMA StepIInv == ASSUME IInv, Step PROVE IInv'
<1>1. TypeOK /\ Paced /\ Since /\ PInv
  BY DEF IInv
<1>2. PInv'
  BY <1>1, NextPInv DEF Next
<1>3. prog' \in Seq(Steps) /\ alt' \in Seq(Steps)
  BY <1>2 DEF PInv, ProgOK
<1>4. 0 \in 0..SpentCap /\ 0 \in 0..MaxSlack /\ 0 \in 0..(CPS - 1) /\ 0 \in Turn
  BY Numbers DEF Turn
<1>5. Zero \in [seconds: 0..Word - 1, millis: 0..999]
  BY Numbers DEF Zero
<1>6. CASE NothingAttached
  <2>1. TypeOK'
    BY <1>1, <1>3, <1>4, <1>6 DEF TypeOK, NothingAttached
  <2>2. pc' \notin Waiting
    BY <1>6 DEF NothingAttached, Waiting
  <2> QED BY <1>2, <2>1, <2>2, OutsideIInv
<1>7. CASE Finish
  <2>1. TypeOK'
    BY <1>1, <1>3, <1>4, <1>5, <1>7 DEF TypeOK, Finish
  <2>2. pc' \notin Waiting
    BY <1>7 DEF Finish, Waiting
  <2> QED BY <1>2, <2>1, <2>2, OutsideIInv
<1>8. CASE Transfer
  <2>1. TypeOK'
    BY <1>1, <1>3, <1>4, <1>8 DEF TypeOK, Transfer
  <2>2. pc' \notin Waiting
    BY <1>8 DEF Transfer, Waiting
  <2> QED BY <1>2, <2>1, <2>2, OutsideIInv
<1>9. CASE ProbeReset
  <2>1. TypeOK'
    BY <1>1, <1>3, <1>4, <1>9 DEF TypeOK, ProbeReset, Sleeping
  <2>2. pc' \notin Waiting
    BY <1>9 DEF ProbeReset, Waiting
  <2> QED BY <1>2, <2>1, <2>2, OutsideIInv
<1>10. CASE WaitStart
  <2>1. /\ start' \in [seconds: 0..Word - 1, millis: 0..999] /\ start'.seconds = seconds
        /\ spent' = 0 /\ slack' = 0 /\ pc' = "start" /\ clicks' = clicks /\ seconds' = seconds
    <3>1. start \in [seconds: 0..Word - 1, millis: 0..999] /\ seconds \in 0..Word - 1
      BY <1>1, TypeParts
    <3>2. start' = [start EXCEPT !.seconds = seconds]
      BY <1>10 DEF WaitStart
    <3>3. start' \in [seconds: 0..Word - 1, millis: 0..999] /\ start'.seconds = seconds
      BY <3>1, <3>2
    <3> QED BY <1>10, <3>3 DEF WaitStart
  <2>2. TypeOK'
    BY <1>1, <1>3, <1>4, <1>10, <2>1 DEF TypeOK, WaitStart
  <2>3. Paced'
    BY <2>1 DEF Paced
  <2>4. Passed(clicks, 0)'
    <3>1. clicks' + spent' = 0 * CPS + clicks' /\ seconds' = (start'.seconds + 0) % Word
      BY <1>1, <2>1, TypeParts, Numbers
    <3> QED BY <3>1 DEF Passed
  <2>5. Since'
    <3>1. clicks' \in 0..(CPS - 1)
      BY <1>1, <2>1, TypeParts
    <3> QED BY <1>4, <2>1, <2>4, <3>1 DEF Since, Turn
  <2> QED BY <1>2, <2>2, <2>3, <2>5 DEF IInv
<1>11. CASE WaitStart2
  <2>1. /\ start' \in [seconds: 0..Word - 1, millis: 0..999] /\ start'.seconds = start.seconds
        /\ UNCHANGED <<spent, clicks, seconds>> /\ slack' = 0 /\ pc = "start" /\ pc' = "poll"
    <3>1. Millis(clicks) \in 0..999
      BY <1>1, TypeParts, MillisRange
    <3> QED BY <1>1, <1>11, <3>1, TypeParts DEF WaitStart2
  <2>2. TypeOK'
    BY <1>1, <1>3, <1>4, <1>11, <2>1 DEF TypeOK, WaitStart2
  <2>3. Paced'
    BY <1>1, <2>1, TypeParts, Numbers DEF Paced
  <2>4. Since'
    BY <1>1, <2>1 DEF Since, Passed
  <2> QED BY <1>2, <2>2, <2>3, <2>4 DEF IInv
<1>12. CASE PollMatch
  <2>1. TypeOK'
    BY <1>1, <1>3, <1>4, <1>12 DEF TypeOK, PollMatch
  <2>2. pc' \notin Waiting
    BY <1>12 DEF PollMatch, Waiting
  <2> QED BY <1>2, <2>1, <2>2, OutsideIInv
<1>13. CASE PollError
  <2>1. TypeOK'
    BY <1>1, <1>3, <1>4, <1>13 DEF TypeOK, PollError, ResetAndFail, Sleeping
  <2>2. pc' \notin Waiting
    BY <1>13 DEF PollError, ResetAndFail, Waiting
  <2> QED BY <1>2, <2>1, <2>2, OutsideIInv
<1>14. CASE PollAgain
  <2>1. /\ stop' \in [seconds: 0..Word - 1, millis: 0..999] /\ stop'.seconds = seconds
        /\ UNCHANGED <<spent, clicks, seconds, start>> /\ slack' = 0
        /\ pc = "poll" /\ pc' = "read"
    BY <1>1, <1>14, TypeParts DEF PollAgain
  <2>2. TypeOK'
    BY <1>1, <1>3, <1>4, <1>14, <2>1 DEF TypeOK, PollAgain
  <2>3. Paced'
    BY <1>1, <2>1, TypeParts, Numbers DEF Paced
  <2>4. PICK c \in 0..(CPS - 1), k \in Turn : Passed(c, k)
    BY <1>1, <2>1 DEF Since
  <2>5. Passed(c, k)'
    BY <2>1, <2>4 DEF Passed
  <2>6. Loaded(c, k)'
    <3>1. (k + 1) * CPS = k * CPS + CPS /\ k * CPS \in Nat
      BY Numbers DEF Turn
    <3>2. c + spent - 0 < (k + 1) * CPS
      BY <1>1, <2>4, <3>1, TypeParts, Numbers DEF Passed
    <3>3. stop'.seconds = (start.seconds + k) % Word
      BY <2>1, <2>4 DEF Passed
    <3> QED BY <2>1, <3>2, <3>3 DEF Loaded
  <2>7. Since'
    BY <2>1, <2>5, <2>6 DEF Since
  <2> QED BY <1>2, <2>2, <2>3, <2>7 DEF IInv
<1>15. CASE PollTime
  <2>1. TypeOK'
    <3>1. ASSUME TimedOut PROVE Places' /\ failed' \in BOOLEAN
      <4>1. pc' = "reset1" /\ after' = "fail" /\ failed' \in BOOLEAN
        BY <1>15, <3>1, Zenon DEF PollTime, ResetAndFail
      <4>2. Places' /\ failed' \in BOOLEAN
        BY <1>1, <1>15, <4>1, TypeSplit DEF Places, PollTime, Sleeping
      <4> QED BY <4>2
    <3>2. ASSUME ~TimedOut PROVE Places' /\ failed' \in BOOLEAN
      <4>1. pc' = "sleep" /\ after' = after /\ failed' = failed
        BY <1>15, <3>2, Zenon DEF PollTime
      <4>2. Places'
        BY <1>1, <1>15, <4>1, TypeSplit DEF Places, PollTime, Sleeping
      <4> QED BY <1>1, <4>1, <4>2, TypeSplit, Zenon
    <3>3. Places' /\ failed' \in BOOLEAN
      BY <3>1, <3>2, Zenon
    <3>4. Times'
      BY <1>1, <1>4, <1>5, <1>15, TypeSplit DEF Times, PollTime
    <3> QED BY <1>3, <3>3, <3>4, TypeSplit
  <2>2. CASE TimedOut
    <3>1. pc' \notin Waiting
      BY <1>15, <2>2 DEF PollTime, ResetAndFail, Waiting
    <3> QED BY <1>2, <2>1, <3>1, OutsideIInv
  <2>3. CASE ~TimedOut
    <3>1. pc = "read" /\ pc' = "sleep" /\ UNCHANGED <<clicks, seconds, spent, start>>
      BY <1>15, <2>3 DEF PollTime
    <3>2. PICK c \in 0..(CPS - 1), k \in Turn : Loaded(c, k)
      BY <1>1, <3>1 DEF Since
    <3>3. spent < Limit
      BY <1>1, <2>3, <3>2, NotTimedOut
    <3>4. Paced'
      BY <3>1, <3>3 DEF Paced
    <3>5. Since'
      BY <3>1, StepSince
    <3> QED BY <1>2, <2>1, <3>4, <3>5 DEF IInv
  <2> QED BY <2>2, <2>3
<1>16. CASE ResetDone
  <2>1. TypeOK'
    <3>1. failed' = failed \/ failed' = FALSE
      BY <1>16, Zenon DEF ResetDone
    <3>2. failed' \in BOOLEAN
      BY <1>1, <3>1, TypeSplit, Zenon
    <3>3. /\ op' \in {op, "none"} /\ pc' \in {"idle", "next"} /\ result' \in {result, "fail"}
          /\ after' = "none"
      BY <1>16, Zenon DEF ResetDone
    <3>4. Places'
      BY <1>1, <3>3, TypeSplit DEF Places
    <3>5. (start' = start \/ start' = Zero) /\ (spent' = spent \/ spent' = 0) /\ slack' = 0
      BY <1>16 DEF ResetDone
    <3>6. clicks' = clicks /\ seconds' = seconds /\ stop' = stop
      BY <1>16 DEF ResetDone
    <3>7. Times'
      <4>1. Times
        BY <1>1, TypeSplit
      <4>2. start \in [seconds: 0..Word - 1, millis: 0..999]
        BY <4>1 DEF Times
      <4>3. start' \in [seconds: 0..Word - 1, millis: 0..999]
        BY <1>5, <3>5, <4>2
      <4>4. spent' \in 0..SpentCap
        <5>1. spent \in 0..SpentCap
          BY <4>1 DEF Times
        <5> QED BY <1>4, <3>5, <5>1
      <4>5. slack' \in 0..MaxSlack
        <5>1. slack' = 0 /\ 0 \in 0..MaxSlack
          BY <1>4, <3>5
        <5> QED BY <5>1
      <4>6. stop' \in [seconds: 0..Word - 1, millis: 0..999]
        <5>1. stop' = stop
          BY <3>6
        <5>2. stop \in [seconds: 0..Word - 1, millis: 0..999]
          BY <4>1 DEF Times
        <5> QED BY <5>1, <5>2
      <4>7. clicks' \in 0..CPS - 1 /\ seconds' \in 0..Word - 1
        BY <3>6, <4>1, Zenon DEF Times
      <4> QED BY <4>3, <4>4, <4>5, <4>6, <4>7 DEF Times
    <3> QED BY <1>3, <3>2, <3>4, <3>7, TypeSplit
  <2>2. pc' \notin Waiting
    BY <1>16 DEF ResetDone, Waiting
  <2> QED BY <1>2, <2>1, <2>2, OutsideIInv
<1> QED BY <1>6, <1>7, <1>8, <1>9, <1>10, <1>11, <1>12, <1>13, <1>14, <1>15, <1>16 DEF Step

LEMMA NextIInv == ASSUME IInv, [Next]_vars PROVE IInv'
<1>1. CASE Tick
  BY <1>1, TickIInv
<1>2. CASE Step
  BY <1>2, StepIInv
<1>3. ASSUME NEW f \in Ops, Begin(f) PROVE IInv'
  <2>1. PInv'
    BY <1>3, NextPInv DEF IInv, Next
  <2>2. prog' \in Seq(Steps) /\ alt' \in Seq(Steps) /\ f \in Functions /\ 0 \in 0..MaxSlack
    BY <2>1, AtaAssumption, Numbers DEF PInv, ProgOK
  <2>3. TypeOK'
    <3>1. Times' /\ Places' /\ failed' = FALSE
      BY <1>3, <2>2, TypeSplit DEF IInv, Times, Places, Begin
    <3> QED BY <2>2, <3>1, TypeSplit
  <2>4. pc' \notin Waiting
    BY <1>3 DEF Begin, Waiting
  <2> QED BY <2>1, <2>3, <2>4, OutsideIInv
<1>4. CASE UNCHANGED vars
  <2>1. PInv'
    BY <1>4, NextPInv DEF IInv
  <2>2. TypeOK' /\ Paced'
    BY <1>4 DEF IInv, TypeOK, Paced, vars
  <2>3. Since'
    <3>1. \A c, k : /\ Passed(c, k)' <=> Passed(c, k)
                    /\ Loaded(c, k)' <=> Loaded(c, k)
      BY <1>4 DEF Passed, Loaded, vars
    <3>2. pc' = pc
      BY <1>4 DEF vars
    <3> QED BY <3>1, <3>2 DEF IInv, Since
  <2> QED BY <2>1, <2>2, <2>3 DEF IInv
<1> QED BY <1>1, <1>2, <1>3, <1>4 DEF Next

LEMMA Invariance == Spec => []IInv
BY InitIInv, NextIInv, PTL DEF Spec

(* Whatever the drive does or fails to do, ata_wait is done polling two    *)
(* seconds after its timeout, although it reads a clock that runs on       *)
(* between its two loads and computes in words that wrap.                  *)
THEOREM WaitBoundedTheorem == Spec => []WaitBounded
<1>1. IInv => WaitBounded
  BY DEF IInv, Paced, WaitBounded, Limit
<1> QED BY Invariance, <1>1, PTL

(* The counters are words, and the driver is in one of its places.         *)
THEOREM TypeTheorem == Spec => []TypeOK
<1>1. IInv => TypeOK
  BY DEF IInv
<1> QED BY Invariance, <1>1, PTL
==============================================================================
