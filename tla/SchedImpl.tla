----------------------------- MODULE SchedImpl -----------------------------
(***************************************************************************)
(* The scheduler with the pointers of its three lists.  What Sched takes   *)
(* in one step although interrupts are on, the list_push_tail of           *)
(* clock_wait's process_wait, is one step per statement here, and the      *)
(* clock interrupt may walk the half-linked list between two of them.      *)
(* Everything that runs with interrupts off is one step.                   *)
(***************************************************************************)
EXTENDS Integers, SequencesExt

CONSTANTS Proc, NULL, Delay, MaxWaits,   \* as in Sched
          RL, Q, WQ    \* ready_list, the clock's queue, the mutex' waitqueue

ASSUME SchedImplAssumption ==
    /\ IsFiniteSet(Proc) /\ NULL \notin Proc \cup {RL, Q, WQ}
    /\ RL # Q /\ RL # WQ /\ Q # WQ
    /\ Delay \in Nat /\ MaxWaits \in Nat

VARIABLES mem, current, cpu, locked, state, pc, elapsed, waits, killed

vars == <<mem, current, cpu, locked, state, pc, elapsed, waits, killed>>

L == INSTANCE ListOps WITH Node <- Proc, List <- {RL, Q, WQ}

(* The statements of list_push_tail still to come, as positions.           *)
PushStmts == {"push", "push2", "push3", "push4"}

(* process_test pushes one process after the other.                        *)
Pushed(order) ==
    LET after[k \in 0..Cardinality(Proc)] ==
            IF k = 0 THEN L!InitMem ELSE L!list_push_tail(after[k - 1], RL, order[k])
    IN  after[Cardinality(Proc)]

Init ==
    /\ \E order \in Bijection(1..Cardinality(Proc), Proc) : mem = Pushed(order)
    /\ current = NULL /\ cpu = "boot" /\ locked = FALSE
    /\ state = [p \in Proc |-> "READY"]
    /\ pc = [p \in Proc |-> "user"]
    /\ elapsed = 0 /\ waits = 0 /\ killed = {}

Running(p, at) == cpu = "run" /\ current = p /\ pc[p] \in at

SwitchFrom(p, newstate) ==
    /\ state' = [state EXCEPT ![p] = newstate]
    /\ current' = NULL
    /\ cpu' = "pick"

BootSwitch ==
    /\ cpu = "boot"
    /\ cpu' = "pick"
    /\ UNCHANGED <<mem, current, locked, state, pc, elapsed, waits, killed>>

Dispatch ==
    /\ cpu = "pick" /\ mem.head[RL] # NULL
    /\ current' = mem.head[RL]
    /\ mem' = L!list_pop_head(mem, RL)
    /\ state' = [state EXCEPT ![mem.head[RL]] = "RUNNING"]
    /\ cpu' = "run"
    /\ UNCHANGED <<locked, pc, elapsed, waits, killed>>

IdleOpen ==
    /\ cpu = "pick" /\ mem.head[RL] = NULL
    /\ cpu' = "open"
    /\ UNCHANGED <<mem, current, locked, state, pc, elapsed, waits, killed>>

IdleHalt ==
    /\ cpu = "open"
    /\ cpu' = "hlt"
    /\ UNCHANGED <<mem, current, locked, state, pc, elapsed, waits, killed>>

(* process_wakeup, and process_wakeup_all as its iteration.                *)
process_wakeup(m, q) ==
    IF m.head[q] = NULL THEN m
    ELSE L!list_push_tail(L!list_pop_head(m, q), RL, m.head[q])

process_wakeup_all(m, q) ==
    LET after[k \in 0..Cardinality(Proc)] ==
            IF k = 0 THEN m ELSE process_wakeup(after[k - 1], q)
    IN  after[Cardinality(Proc)]

ClockInterrupt ==
    /\ cpu # "pick"
    /\ mem' = process_wakeup_all(mem, Q)
    /\ state' = [p \in Proc |-> IF Contains(L!Forward(mem, Q), p)
                                THEN "READY" ELSE state[p]]
    /\ elapsed' = IF elapsed < Delay THEN elapsed + 1 ELSE elapsed
    /\ cpu' = IF cpu = "hlt" THEN "pick" ELSE cpu
    /\ UNCHANGED <<current, locked, pc, waits, killed>>

Yield(p) ==
    /\ Running(p, {"user"})
    /\ SwitchFrom(p, "READY")
    /\ mem' = L!list_push_tail(mem, RL, p)
    /\ UNCHANGED <<locked, pc, elapsed, waits, killed>>

(* Mutant: clock_wait without the mutex, the way any second caller would   *)
(* enter it.                                                               *)
MutexLock_Any(p) ==
    /\ Running(p, {"user", "retry"})
    /\ locked' = TRUE
    /\ pc' = [pc EXCEPT ![p] = "cs"]
    /\ waits' = MaxWaits
    /\ UNCHANGED <<mem, current, cpu, state, elapsed, killed>>

MutexLock(p) ==
    /\ Running(p, {"user", "retry"})
    /\ ~locked
    /\ locked' = TRUE
    /\ pc' = [pc EXCEPT ![p] = "cs"]
    /\ waits' = MaxWaits
    /\ UNCHANGED <<mem, current, cpu, state, elapsed, killed>>

MutexBlock(p) ==
    /\ Running(p, {"user", "retry"})
    /\ locked
    /\ mem' = L!list_push_tail(mem, WQ, p)
    /\ SwitchFrom(p, "BLOCKED")
    /\ pc' = [pc EXCEPT ![p] = "retry"]
    /\ UNCHANGED <<locked, elapsed, waits, killed>>

MutexUnlock(p) ==
    /\ Running(p, {"cs"})
    /\ locked' = FALSE
    /\ pc' = [pc EXCEPT ![p] = "user"]
    /\ mem' = process_wakeup(mem, WQ)
    /\ state' = IF mem.head[WQ] = NULL THEN state
                ELSE [state EXCEPT ![mem.head[WQ]] = "READY"]
    /\ UNCHANGED <<current, cpu, elapsed, waits, killed>>

ClockWait(p) ==
    /\ Running(p, {"cs"})
    /\ waits > 0
    /\ waits' = waits - 1
    /\ elapsed' = 0
    /\ pc' = [pc EXCEPT ![p] = "push"]
    /\ UNCHANGED <<mem, current, cpu, locked, state, killed>>

(* list_push_tail(&queue, &current->node) with interrupts on.              *)
PushStmt(p, from, to, m) ==
    /\ Running(p, {from})
    /\ mem' = m
    /\ pc' = [pc EXCEPT ![p] = to]
    /\ UNCHANGED <<current, cpu, locked, state, elapsed, waits, killed>>

(* Mutant: the head pointer is written before the tail pointer.            *)
ClockPush_HeadFirst(p) ==
    \/ PushStmt(p, "push",  "push2",  L!TailInitNode(mem, Q, p))
    \/ PushStmt(p, "push2", "push3",  L!TailLinkLast(mem, Q, p))
    \/ PushStmt(p, "push3", "push4",  L!TailSetHead(mem, Q, p))
    \/ PushStmt(p, "push4", "push5",  L!TailSetTail(mem, Q, p))
    \/ PushStmt(p, "push5", "pushed", L!TailSetList(mem, Q, p))

ClockPush(p) ==
    \/ PushStmt(p, "push",  "push2",  L!TailInitNode(mem, Q, p))
    \/ PushStmt(p, "push2", "push3",  L!TailLinkLast(mem, Q, p))
    \/ PushStmt(p, "push3", "push4",  L!TailSetTail(mem, Q, p))
    \/ PushStmt(p, "push4", "push5",  L!TailSetHead(mem, Q, p))
    \/ PushStmt(p, "push5", "pushed", L!TailSetList(mem, Q, p))

ClockSwitch(p) ==
    /\ Running(p, {"pushed"})
    /\ SwitchFrom(p, "BLOCKED")
    /\ pc' = [pc EXCEPT ![p] = "sleep"]
    /\ UNCHANGED <<mem, locked, elapsed, waits, killed>>

ClockCheck(p) ==
    /\ Running(p, {"sleep"})
    /\ pc' = [pc EXCEPT ![p] = IF elapsed < Delay THEN "push" ELSE "cs"]
    /\ UNCHANGED <<mem, current, cpu, locked, state, elapsed, waits, killed>>

(* process_exit, also between two statements of the push: a process that   *)
(* dies before head is written is on no list, though tail may already      *)
(* point to it; one that dies after it is found by the next click.         *)
Exit(p) ==
    /\ cpu = "run" /\ current = p
    /\ SwitchFrom(p, "GRAVE")
    /\ killed' = killed \cup {p}
    /\ UNCHANGED <<mem, locked, pc, elapsed, waits>>

ExitIdle ==
    /\ cpu \in {"open", "hlt"}
    /\ cpu' = "pick"
    /\ UNCHANGED <<mem, current, locked, state, pc, elapsed, waits, killed>>

Next ==
    \/ BootSwitch \/ Dispatch \/ IdleOpen \/ IdleHalt \/ ClockInterrupt \/ ExitIdle
    \/ \E p \in Proc :
           \/ Yield(p) \/ MutexLock(p) \/ MutexBlock(p) \/ MutexUnlock(p)
           \/ ClockWait(p) \/ ClockPush(p) \/ ClockSwitch(p) \/ ClockCheck(p)
           \/ Exit(p)

Spec == Init /\ [][Next]_vars
----------------------------------------------------------------------------
(* The push takes effect when the head pointer is written: until then an   *)
(* interrupt finds an empty list, after it a complete one.                 *)
AbsPC == [p \in Proc |-> CASE pc[p] \in PushStmts -> "push"
                           [] pc[p] = "push5"     -> "pushed"
                           [] OTHER               -> pc[p]]

Abs == INSTANCE Sched WITH
           ready_list <- L!Forward(mem, RL),
           queue <- L!Forward(mem, Q),
           waitqueue <- L!Forward(mem, WQ),
           pc <- AbsPC

(* The pointer code with its unprotected push implements the scheduler     *)
(* that moves processes between sequences.                                 *)
AbsSpec == Abs!Spec

(* ready_list and the waitqueue, which are only touched with interrupts    *)
(* off, read the same backwards as forwards at every interrupt, and so     *)
(* does queue unless somebody is, or was killed, between the stores to its *)
(* tail and to its head.                                                   *)
ListsSound ==
    \A l \in {RL, WQ} \cup IF \E p \in Proc : pc[p] = "push4" THEN {} ELSE {Q} :
        Reverse(L!Backward(mem, l)) = L!Forward(mem, l)
============================================================================
