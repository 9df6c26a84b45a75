---------------------------- MODULE SchedProofs ----------------------------
(***************************************************************************)
(* The safety of the scheduler, mutex and clock for any set of processes,  *)
(* any delay and any number of clock waits.                                *)
(***************************************************************************)
EXTENDS Sched, FiniteSetTheorems, TLAPS

(* What the three list operations the scheduler uses do to membership.     *)
LEMMA AppendOn ==
    ASSUME NEW s \in Seq(Proc), NEW p \in Proc
    PROVE  /\ Append(s, p) \in Seq(Proc)
           /\ \A q : On(Append(s, p), q) <=> On(s, q) \/ q = p
           /\ NoDup(s) /\ ~On(s, p) => NoDup(Append(s, p))
           /\ Len(Append(s, p)) = Len(s) + 1
           /\ Append(s, p) # <<>>
<1>1. /\ Append(s, p) \in Seq(Proc) /\ Len(Append(s, p)) = Len(s) + 1
      /\ \A i \in 1..Len(s) : Append(s, p)[i] = s[i]
      /\ Append(s, p)[Len(s) + 1] = p
  OBVIOUS
<1>2. Len(s) \in Nat
  OBVIOUS
<1>3. \A i : i \in 1..Len(s) + 1 <=> i \in 1..Len(s) \/ i = Len(s) + 1
  BY <1>2
<1>4. \A q : On(Append(s, p), q) <=> On(s, q) \/ q = p
  BY <1>1, <1>2, <1>3 DEF On
<1>5. NoDup(s) /\ ~On(s, p) => NoDup(Append(s, p))
  BY <1>1, <1>2, <1>3 DEF On, NoDup
<1> QED BY <1>1, <1>4, <1>5

LEMMA TailOn ==
    ASSUME NEW s \in Seq(Proc), s # <<>>
    PROVE  /\ Tail(s) \in Seq(Proc) /\ Head(s) \in Proc
           /\ \A q : On(s, q) <=> q = Head(s) \/ On(Tail(s), q)
           /\ NoDup(s) => NoDup(Tail(s)) /\ ~On(Tail(s), Head(s))
<1>1. /\ Tail(s) \in Seq(Proc) /\ Head(s) \in Proc
      /\ Len(s) \in Nat /\ Len(s) > 0 /\ Len(Tail(s)) = Len(s) - 1
      /\ s[1] = Head(s)
      /\ \A i \in 1..(Len(s) - 1) : Tail(s)[i] = s[i + 1]
  OBVIOUS
<1>2. \A i \in 2..Len(s) : i - 1 \in 1..(Len(s) - 1) /\ Tail(s)[i - 1] = s[i]
  BY <1>1
<1>3. \A q : On(s, q) <=> q = Head(s) \/ On(Tail(s), q)
  <2> TAKE q
  <2>1. ASSUME On(s, q) PROVE q = Head(s) \/ On(Tail(s), q)
    <3>1. PICK i \in 1..Len(s) : s[i] = q
      BY <2>1 DEF On
    <3>2. CASE i = 1
      BY <3>1, <3>2, <1>1
    <3>3. CASE i # 1
      BY <3>1, <3>3, <1>1, <1>2 DEF On
    <3> QED BY <3>2, <3>3
  <2>2. ASSUME q = Head(s) PROVE On(s, q)
    BY <2>2, <1>1 DEF On
  <2>3. ASSUME On(Tail(s), q) PROVE On(s, q)
    <3>1. PICK i \in 1..(Len(s) - 1) : Tail(s)[i] = q
      BY <2>3, <1>1 DEF On
    <3>2. i + 1 \in 1..Len(s) /\ s[i + 1] = q
      BY <3>1, <1>1
    <3> QED BY <3>2 DEF On
  <2> QED BY <2>1, <2>2, <2>3
<1>4. ASSUME NoDup(s) PROVE NoDup(Tail(s)) /\ ~On(Tail(s), Head(s))
  <2>1. \A i \in 1..(Len(s) - 1) : i + 1 \in 1..Len(s)
    BY <1>1
  <2>2. NoDup(Tail(s))
    BY <1>1, <1>4, <2>1 DEF NoDup
  <2>3. ~On(Tail(s), Head(s))
    BY <1>1, <1>4, <2>1 DEF NoDup, On
  <2> QED BY <2>2, <2>3
<1> QED BY <1>1, <1>3, <1>4

LEMMA ConcatOn ==
    ASSUME NEW s \in Seq(Proc), NEW t \in Seq(Proc)
    PROVE  /\ s \o t \in Seq(Proc)
           /\ \A q : On(s \o t, q) <=> On(s, q) \/ On(t, q)
           /\ NoDup(s) /\ NoDup(t) /\ (\A q \in Proc : ~(On(s, q) /\ On(t, q)))
                  => NoDup(s \o t)
<1>1. /\ s \o t \in Seq(Proc) /\ Len(s \o t) = Len(s) + Len(t)
      /\ Len(s) \in Nat /\ Len(t) \in Nat
      /\ \A i \in 1..Len(s) : (s \o t)[i] = s[i]
      /\ \A i \in (Len(s) + 1)..(Len(s) + Len(t)) : (s \o t)[i] = t[i - Len(s)]
      /\ \A i \in 1..Len(t) : t[i] \in Proc
  OBVIOUS
<1>2. \A i \in 1..(Len(s) + Len(t)) :
          \/ i \in 1..Len(s) /\ (s \o t)[i] = s[i]
          \/ i \in (Len(s) + 1)..(Len(s) + Len(t)) /\ i - Len(s) \in 1..Len(t)
             /\ (s \o t)[i] = t[i - Len(s)]
  BY <1>1
<1>3. \A i \in 1..Len(t) : /\ i + Len(s) \in 1..(Len(s) + Len(t))
                           /\ (s \o t)[i + Len(s)] = t[i]
  BY <1>1
<1>3a. \A i \in 1..Len(s) : i \in 1..(Len(s) + Len(t))
  BY <1>1
<1>4. \A q : On(s \o t, q) <=> On(s, q) \/ On(t, q)
  <2> TAKE q
  <2>1. On(s \o t, q) => On(s, q) \/ On(t, q)
    BY <1>1, <1>2 DEF On
  <2>2. On(s, q) => On(s \o t, q)
    BY <1>1, <1>3a DEF On
  <2>3. On(t, q) => On(s \o t, q)
    BY <1>1, <1>3 DEF On
  <2> QED BY <2>1, <2>2, <2>3
<1>5. ASSUME NoDup(s), NoDup(t), \A q \in Proc : ~(On(s, q) /\ On(t, q))
      PROVE  NoDup(s \o t)
  <2> SUFFICES ASSUME NEW i \in 1..(Len(s) + Len(t)), NEW j \in 1..(Len(s) + Len(t)),
                      (s \o t)[i] = (s \o t)[j]
               PROVE  i = j
    BY <1>1 DEF NoDup
  <2>1. CASE i \in 1..Len(s) /\ j \in 1..Len(s)
    BY <2>1, <1>1, <1>5 DEF NoDup
  <2>2. CASE i \notin 1..Len(s) /\ j \notin 1..Len(s)
    <3>1. i - Len(s) = j - Len(s)
      BY <2>2, <1>2, <1>5 DEF NoDup
    <3> QED BY <3>1, <1>1
  <2>3. CASE i \in 1..Len(s) /\ j \notin 1..Len(s)
    BY <2>3, <1>1, <1>2, <1>5 DEF On
  <2>4. CASE i \notin 1..Len(s) /\ j \in 1..Len(s)
    BY <2>4, <1>1, <1>2, <1>5 DEF On
  <2> QED BY <2>1, <2>2, <2>3, <2>4
<1> QED BY <1>1, <1>4, <1>5

LEMMA EmptyOn == NoDup(<<>>) /\ (\A q : ~On(<<>>, q)) /\ <<>> \in Seq(Proc)
  BY DEF NoDup, On

(* A sequence is empty when nobody is on it.                               *)
LEMMA NobodyOn ==
    ASSUME NEW s \in Seq(Proc), \A q \in Proc : ~On(s, q)
    PROVE  s = <<>> /\ Len(s) = 0
<1>1. CASE s = <<>>
  BY <1>1
<1>2. CASE s # <<>>
  BY <1>2, TailOn
<1> QED BY <1>1, <1>2
----------------------------------------------------------------------------
(* The inductive invariant is the conjunction of the invariants: none is   *)
(* inductive alone.  That a process is on one list needs to know who is    *)
(* not on any; that queue is pushed to when empty needs the mutex; that a  *)
(* killed process does not come back to a list needs to know where it was. *)
IInv ==
    /\ TypeOK
    /\ OneNodeOneList
    /\ OnlyIdleListed
    /\ NoProcessLost
    /\ MutexExclusion
    /\ OneClockWaiter
    /\ BlockedWhere

USE SchedAssumption

LEMMA InitIInv == Init => IInv
<1> SUFFICES ASSUME Init PROVE IInv
  OBVIOUS
<1>1. /\ ready_list \in Seq(Proc) /\ NoDup(ready_list)
      /\ \A p \in Proc : On(ready_list, p)
  <2>1. Cardinality(Proc) \in Nat
    BY FS_CardinalityType
  <2>2. ready_list \in [1..Cardinality(Proc) -> Proc]
    BY DEF Init
  <2> QED BY <2>1, <2>2 DEF Init
<1>2. TypeOK
  <2>1. /\ current \in Proc \cup {NULL} /\ cpu = "boot" /\ current = NULL
        /\ state \in [Proc -> {"READY", "RUNNING", "BLOCKED", "GRAVE"}]
        /\ pc \in [Proc -> PC] /\ locked = FALSE /\ killed = {}
    BY DEF Init, PC
  <2>2. elapsed \in 0..Delay /\ waits \in 0..MaxWaits
    BY DEF Init
  <2>3. queue \in Seq(Proc) /\ waitqueue \in Seq(Proc)
    BY EmptyOn DEF Init
  <2> QED BY <1>1, <2>1, <2>2, <2>3 DEF TypeOK
<1>3. Len(<<>>) = 0
  OBVIOUS
<1> QED BY <1>1, <1>2, <1>3, EmptyOn
    DEF Init, IInv, OneNodeOneList, OnlyIdleListed, NoProcessLost,
        MutexExclusion, OneClockWaiter, BlockedWhere, InCS, Listed

(* Every step of the kernel, of the clock and of a process preserves the   *)
(* invariant.                                                              *)
LEMMA NextIInv == IInv /\ [Next]_vars => IInv'
<1> SUFFICES ASSUME IInv, [Next]_vars PROVE IInv'
  OBVIOUS
<1> USE DEF IInv, TypeOK, OneNodeOneList, OnlyIdleListed, NoProcessLost,
        MutexExclusion, OneClockWaiter, BlockedWhere,
        Listed, InCS, PC, Running, SwitchFrom
<1>1. ASSUME BootSwitch \/ IdleOpen \/ IdleHalt \/ ExitIdle PROVE IInv'
  BY <1>1 DEF BootSwitch, IdleOpen, IdleHalt, ExitIdle
<1>2. ASSUME Dispatch PROVE IInv'
  BY <1>2, TailOn DEF Dispatch
<1>3. ASSUME ClockInterrupt PROVE IInv'
  BY <1>3, ConcatOn, EmptyOn DEF ClockInterrupt, WakeAll
<1>4. ASSUME NEW p \in Proc, Yield(p) PROVE IInv'
  BY <1>4, AppendOn DEF Yield
<1>5. ASSUME NEW p \in Proc, MutexLock(p) PROVE IInv'
  BY <1>5 DEF MutexLock
<1>6. ASSUME NEW p \in Proc, MutexBlock(p) PROVE IInv'
  BY <1>6, AppendOn DEF MutexBlock
<1>7. ASSUME NEW p \in Proc, MutexUnlock(p) PROVE IInv'
  <2>1. CASE waitqueue = <<>>
    <3>1. /\ pc[p] = "cs" /\ current = p /\ pc' = [pc EXCEPT ![p] = "user"] /\ locked' = FALSE
          /\ UNCHANGED <<current, cpu, ready_list, queue, waitqueue, state, elapsed, waits, killed>>
      BY <1>7, <2>1 DEF MutexUnlock
    <3>2. TypeOK' /\ MutexExclusion'
      BY <3>1
    <3>3. OneNodeOneList' /\ OnlyIdleListed' /\ NoProcessLost'
      BY <3>1
    <3>4. OneClockWaiter' /\ BlockedWhere'
      BY <3>1
    <3> QED BY <3>2, <3>3, <3>4
  <2>2. CASE waitqueue # <<>>
    <3> DEFINE h == Head(waitqueue)
    <3>1. /\ h \in Proc /\ On(waitqueue, h) /\ h # p
          /\ \A q : On(waitqueue, q) <=> q = h \/ On(waitqueue', q)
          /\ NoDup(waitqueue') /\ ~On(waitqueue', h) /\ waitqueue' \in Seq(Proc)
      <4>1. waitqueue' = Tail(waitqueue) /\ pc[p] = "cs"
        BY <1>7, <2>2 DEF MutexUnlock
      <4>2. /\ h \in Proc /\ Tail(waitqueue) \in Seq(Proc)
            /\ \A q : On(waitqueue, q) <=> q = h \/ On(Tail(waitqueue), q)
            /\ NoDup(Tail(waitqueue)) /\ ~On(Tail(waitqueue), h)
        BY <2>2, TailOn
      <4> QED BY <4>1, <4>2
    <3>2. /\ ready_list' \in Seq(Proc) /\ NoDup(ready_list')
          /\ \A q : On(ready_list', q) <=> On(ready_list, q) \/ q = h
      <4>1. ready_list' = Append(ready_list, h)
        BY <1>7, <2>2 DEF MutexUnlock
      <4>2. ~On(ready_list, h)
        BY <3>1
      <4>. HIDE DEF h
      <4> QED BY <4>1, <4>2, <3>1, AppendOn
    <3>3. /\ pc[p] = "cs" /\ pc[h] = "retry" /\ current = p /\ cpu = "run"
          /\ pc' = [pc EXCEPT ![p] = "user"] /\ ~locked' /\ locked' \in BOOLEAN
          /\ state' = [state EXCEPT ![h] = "READY"]
          /\ UNCHANGED <<current, cpu, queue, elapsed, waits, killed>>
      BY <1>7, <2>2, <3>1 DEF MutexUnlock
    <3>. HIDE DEF h
    <3>4. TypeOK'
      BY <3>1, <3>2, <3>3
    <3>5. OneNodeOneList' /\ OnlyIdleListed' /\ NoProcessLost'
      BY <3>1, <3>2, <3>3
    <3>6. MutexExclusion' /\ OneClockWaiter' /\ BlockedWhere'
      BY <3>1, <3>2, <3>3
    <3> QED BY <3>4, <3>5, <3>6
  <2> QED BY <2>1, <2>2
<1>8. ASSUME NEW p \in Proc, ClockWait(p) PROVE IInv'
  BY <1>8 DEF ClockWait
<1>9. ASSUME NEW p \in Proc, ClockPush(p) PROVE IInv'
  BY <1>9, AppendOn, NobodyOn DEF ClockPush
<1>10. ASSUME NEW p \in Proc, ClockSwitch(p) PROVE IInv'
  BY <1>10 DEF ClockSwitch
<1>11. ASSUME NEW p \in Proc, ClockCheck(p) PROVE IInv'
  BY <1>11 DEF ClockCheck
<1>12. ASSUME NEW p \in Proc, Exit(p) PROVE IInv'
  BY <1>12 DEF Exit
<1>13. CASE UNCHANGED vars
  BY <1>13 DEF vars
<1> QED BY <1>1, <1>2, <1>3, <1>4, <1>5, <1>6, <1>7, <1>8, <1>9, <1>10, <1>11,
           <1>12, <1>13 DEF Next, Kernel, ProcStep

LEMMA Invariance == Spec => []IInv
  BY InitIInv, NextIInv, PTL DEF Spec

(* At most one process is between mutex_lock and mutex_unlock, and the     *)
(* flag says whether there is one, for any number of processes.            *)
THEOREM MutexExclusionTheorem == Spec => []MutexExclusion
<1>1. IInv => MutexExclusion
  BY DEF IInv
<1> QED BY Invariance, <1>1, PTL

(* No process that has not exited ever drops out of the running process    *)
(* and the three lists.                                                    *)
THEOREM NoProcessLostTheorem == Spec => []NoProcessLost
<1>1. IInv => NoProcessLost
  BY DEF IInv
<1> QED BY Invariance, <1>1, PTL

(* No process is linked into two lists, or twice into one: the test of     *)
(* node->list in list.c never fails for a caller of process.c.             *)
THEOREM OneNodeOneListTheorem == Spec => []OneNodeOneList
<1>1. IInv => OneNodeOneList
  BY DEF IInv
<1> QED BY Invariance, <1>1, PTL

(* A step that leaves waiters of a free mutex with nobody on its way is    *)
(* the kill of the one that was.                                           *)
LEMMA StepOnItsWay ==
    ASSUME IInv, Next, OnItsWay
    PROVE  OnItsWay' \/ \E p \in killed' \ killed : pc[p] = "retry"
<1> USE DEF IInv, TypeOK, MutexExclusion, BlockedWhere, Listed, InCS, PC, Running, SwitchFrom,
        OnItsWay
<1>1. CASE BootSwitch \/ IdleOpen \/ IdleHalt \/ ExitIdle
  BY <1>1 DEF BootSwitch, IdleOpen, IdleHalt, ExitIdle
<1>2. CASE Dispatch
  BY <1>2, TailOn DEF Dispatch
<1>3. CASE ClockInterrupt
  BY <1>3, ConcatOn DEF ClockInterrupt
<1>4. ASSUME NEW p \in Proc, Yield(p) PROVE OnItsWay'
  BY <1>4, AppendOn DEF Yield
<1>5. ASSUME NEW p \in Proc, MutexLock(p) \/ MutexBlock(p) PROVE OnItsWay'
  BY <1>5 DEF MutexLock, MutexBlock
<1>6. ASSUME NEW p \in Proc, MutexUnlock(p) PROVE OnItsWay'
  <2>1. CASE waitqueue = <<>>
    BY <1>6, <2>1 DEF MutexUnlock
  <2>2. CASE waitqueue # <<>>
    <3> DEFINE h == Head(waitqueue)
    <3>1. h \in Proc /\ On(waitqueue, h)
      BY <2>2, TailOn
    <3>2. pc[h] = "retry" /\ pc[p] = "cs" /\ pc' = [pc EXCEPT ![p] = "user"]
      BY <1>6, <3>1 DEF MutexUnlock
    <3>3. pc'[h] = "retry"
      BY <3>1, <3>2
    <3>4. ready_list' = Append(ready_list, h)
      BY <1>6, <2>2 DEF MutexUnlock
    <3> HIDE DEF h
    <3>5. On(ready_list', h)
      BY <3>1, <3>4, AppendOn
    <3> QED BY <3>1, <3>3, <3>5
  <2> QED BY <2>1, <2>2
<1>7. ASSUME NEW p \in Proc, ClockWait(p) \/ ClockPush(p) \/ ClockSwitch(p) \/ ClockCheck(p)
      PROVE  OnItsWay'
  <2>1. pc[p] \in InCS /\ locked' = locked
    BY <1>7 DEF ClockWait, ClockPush, ClockSwitch, ClockCheck
  <2> QED BY <2>1
<1>8. ASSUME NEW p \in Proc, Exit(p)
      PROVE  OnItsWay' \/ \E q \in killed' \ killed : pc[q] = "retry"
  <2>1. CASE pc[p] = "retry"
    BY <1>8, <2>1 DEF Exit
  <2>2. CASE pc[p] # "retry"
    BY <1>8, <2>2 DEF Exit
  <2> QED BY <2>1, <2>2
<1> QED BY <1>1, <1>2, <1>3, <1>4, <1>5, <1>6, <1>7, <1>8 DEF Next, Kernel, ProcStep

(* Waiters of a free mutex are left with nobody on its way to take it only *)
(* by the kill of the woken one.                                           *)
THEOREM NoLostMutexWakeupTheorem == Spec => NoLostMutexWakeup
<1>1. IInv /\ [Next]_vars =>
          [OnItsWay => OnItsWay' \/ \E p \in killed' \ killed : pc[p] = "retry"]_vars
  BY StepOnItsWay
<1> QED BY <1>1, Invariance, PTL DEF Spec, NoLostMutexWakeup

(* The unprotected queue of clock.c has one user at a time.                *)
THEOREM OneClockWaiterTheorem == Spec => []OneClockWaiter
<1>1. IInv => OneClockWaiter
  BY DEF IInv
<1> QED BY Invariance, <1>1, PTL

(* Where a process that is not running stands in its calls, that the       *)
(* window between push and switch in process_wait loses nobody, and that a *)
(* killed process is linked or running again only if it died in it.        *)
THEOREM BlockedWhereTheorem == Spec => [](BlockedWhere /\ OnlyIdleListed)
<1>1. IInv => BlockedWhere /\ OnlyIdleListed
  BY DEF IInv
<1> QED BY Invariance, <1>1, PTL

(* Lists hold processes, and current is null exactly outside a process.    *)
THEOREM TypeTheorem == Spec => []TypeOK
<1>1. IInv => TypeOK
  BY DEF IInv
<1> QED BY Invariance, <1>1, PTL
============================================================================
