------------------------------ MODULE ListAbs ------------------------------
(***************************************************************************)
(* What kernel/list.h promises its callers, without a pointer: every list  *)
(* is a sequence of nodes, a node is on at most one list, a push adds one  *)
(* node, a pop takes the node at one end and returns it, and a removal     *)
(* takes the node out wherever it is and leaves the others in order.       *)
(***************************************************************************)
EXTENDS Integers, SequencesExt

CONSTANTS Node, List, NULL,
          Priority,     \* the priorities callers pass to list_push_priority
          ScanLimit     \* nodes list_push_priority passes before it gives up

VARIABLES contents,     \* the sequence of nodes on every list
          rank,         \* the priority recorded in every node
          ret           \* the node the last pop returned

absVars == <<contents, rank, ret>>

Free(n) == \A l \in List : ~Contains(contents[l], n)

Init == /\ contents = [l \in List |-> <<>>]
        /\ rank = [n \in Node |-> 0]
        /\ ret = NULL

PushHead(l, n) ==
    /\ Free(n)
    /\ contents' = [contents EXCEPT ![l] = <<n>> \o @]
    /\ rank' = [rank EXCEPT ![n] = 0]
    /\ UNCHANGED ret

PushTail(l, n) ==
    /\ Free(n)
    /\ contents' = [contents EXCEPT ![l] = Append(@, n)]
    /\ rank' = [rank EXCEPT ![n] = 0]
    /\ UNCHANGED ret

(* The positions the scan accepts: in front of the first node of lower     *)
(* rank, or of the first one past the limit.                               *)
Stops(l, pri) ==
    {k \in 1..Len(contents[l]) : pri > rank[contents[l][k]] \/ k - 1 > ScanLimit}

PushPriority(l, n, pri) ==
    /\ Free(n)
    /\ Stops(l, pri) # {}
    /\ LET k == CHOOSE i \in Stops(l, pri) : \A j \in Stops(l, pri) : i <= j
       IN  contents' = [contents EXCEPT ![l] = InsertAt(@, k, n)]
    /\ rank' = [rank EXCEPT ![n] = pri]
    /\ UNCHANGED ret

(* Without such a position the node goes to the tail and its priority is   *)
(* recorded as 0, whatever the caller passed.                              *)
PushPriorityLast(l, n, pri) ==
    /\ Stops(l, pri) = {}
    /\ PushTail(l, n)

PopHead(l) ==
    IF contents[l] = <<>>
    THEN ret' = NULL /\ UNCHANGED <<contents, rank>>
    ELSE /\ ret' = Head(contents[l])
         /\ contents' = [contents EXCEPT ![l] = Tail(@)]
         /\ UNCHANGED rank

PopTail(l) ==
    IF contents[l] = <<>>
    THEN ret' = NULL /\ UNCHANGED <<contents, rank>>
    ELSE /\ ret' = Last(contents[l])
         /\ contents' = [contents EXCEPT ![l] = Front(@)]
         /\ UNCHANGED rank

RemoveNode(n) ==
    /\ contents' = [l \in List |-> RemoveFirst(contents[l], n)]
    /\ UNCHANGED <<rank, ret>>

Next ==
    \/ \E l \in List, n \in Node : PushHead(l, n) \/ PushTail(l, n)
    \/ \E l \in List, n \in Node, pri \in Priority :
           PushPriority(l, n, pri) \/ PushPriorityLast(l, n, pri)
    \/ \E l \in List : PopHead(l) \/ PopTail(l)
    \/ \E n \in Node : RemoveNode(n)

Spec == Init /\ [][Next]_absVars
============================================================================
