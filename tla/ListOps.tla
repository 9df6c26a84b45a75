------------------------------ MODULE ListOps ------------------------------
(***************************************************************************)
(* The intrusive doubly linked lists of kernel/list.c, at the level of the *)
(* pointers.  A memory m is a record with the fields head and tail of      *)
(* every struct list and next, prev, list and priority of every struct     *)
(* list_node.  Every C function is an operator from the memory before the  *)
(* call to the memory after it; assignments that depend on each other keep *)
(* the order of the source.                                                *)
(***************************************************************************)
EXTENDS Integers, Sequences, FiniteSets

CONSTANTS Node,   \* the struct list_node objects
          List,   \* the struct list objects
          NULL    \* the null pointer

ASSUME NullAssumption == NULL \notin Node /\ NULL \notin List

(* Nodes are objects in memory.                                            *)
ASSUME NodeAssumption == IsFiniteSet(Node)

MemType == [head: [List -> Node \cup {NULL}],
            tail: [List -> Node \cup {NULL}],
            next: [Node -> Node \cup {NULL}],
            prev: [Node -> Node \cup {NULL}],
            list: [Node -> List \cup {NULL}],
            priority: [Node -> Int]]

(* Static storage: LIST_INIT lists and nodes in zeroed memory.             *)
InitMem == [head |-> [l \in List |-> NULL],
            tail |-> [l \in List |-> NULL],
            next |-> [n \in Node |-> NULL],
            prev |-> [n \in Node |-> NULL],
            list |-> [n \in Node |-> NULL],
            priority |-> [n \in Node |-> 0]]
----------------------------------------------------------------------------
(* The statements of list_push_tail, one operator per group that another   *)
(* reader of the list can tell apart.                                      *)
TailInitNode(m, l, n) ==
    [m EXCEPT !.prev[n] = m.tail[l], !.next[n] = NULL, !.priority[n] = 0]

TailLinkLast(m, l, n) ==
    IF m.tail[l] # NULL THEN [m EXCEPT !.next[m.tail[l]] = n] ELSE m

TailSetTail(m, l, n) == [m EXCEPT !.tail[l] = n]

TailSetHead(m, l, n) ==
    IF m.head[l] = NULL THEN [m EXCEPT !.head[l] = n] ELSE m

TailSetList(m, l, n) == [m EXCEPT !.list[n] = l]

list_push_tail(m, l, n) ==
    LET m1 == TailInitNode(m, l, n)
        m2 == TailLinkLast(m1, l, n)
        m3 == TailSetTail(m2, l, n)
        m4 == TailSetHead(m3, l, n)
    IN  TailSetList(m4, l, n)

list_push_head(m, l, n) ==
    LET h  == m.head[l]
        m1 == [m EXCEPT !.next[n] = h, !.prev[n] = NULL, !.priority[n] = 0]
        m2 == IF h # NULL THEN [m1 EXCEPT !.prev[h] = n] ELSE m1
    IN  [m2 EXCEPT !.head[l] = n,
                   !.tail[l] = IF @ = NULL THEN n ELSE @,
                   !.list[n] = l]

(* The insertion of list_push_priority in front of n0, where its scan      *)
(* stops.                                                                  *)
InsertBefore(m, l, n, n0, pri) ==
    LET p  == m.prev[n0]
        m1 == [m EXCEPT !.next[n] = n0, !.prev[n] = p, !.priority[n] = pri]
        m2 == IF p # NULL THEN [m1 EXCEPT !.next[p] = n]
                          ELSE [m1 EXCEPT !.head[l] = n]
    IN  [m2 EXCEPT !.prev[n0] = n, !.list[n] = l]

(* What both pops do to the node they return.                              *)
Detach(m, n) ==
    [m EXCEPT !.next[n] = NULL, !.prev[n] = NULL, !.list[n] = NULL]

(* Mutant: the pop of the last node leaves list->tail behind.              *)
list_pop_head_KeepTail(m, l) ==
    LET h  == m.head[l]
        h2 == m.next[h]
        m1 == [m EXCEPT !.head[l] = h2]
        m2 == IF h2 # NULL THEN [m1 EXCEPT !.prev[h2] = NULL] ELSE m1
    IN  IF h = NULL THEN m ELSE Detach(m2, h)

(* The memory after the call; the pointer it returns is the old m.head[l]. *)
list_pop_head(m, l) ==
    LET h  == m.head[l]
        h2 == m.next[h]
        m1 == [m EXCEPT !.head[l] = h2]
        m2 == IF h2 # NULL THEN [m1 EXCEPT !.prev[h2] = NULL]
                           ELSE [m1 EXCEPT !.tail[l] = NULL]
    IN  IF h = NULL THEN m ELSE Detach(m2, h)

list_pop_tail(m, l) ==
    LET t  == m.tail[l]
        t2 == m.prev[t]
        m1 == [m EXCEPT !.tail[l] = t2]
        m2 == IF t2 # NULL THEN [m1 EXCEPT !.next[t2] = NULL]
                           ELSE [m1 EXCEPT !.head[l] = NULL]
    IN  IF t = NULL THEN m ELSE Detach(m2, t)

(* Mutant: the successor keeps its link to the removed node.               *)
Unlink_OneSide(m, n) == Detach([m EXCEPT !.next[m.prev[n]] = m.next[n]], n)

(* The last branch is only right for a node with two neighbours.           *)
Unlink(m, n) ==
    Detach([m EXCEPT !.prev[m.next[n]] = m.prev[n],
                     !.next[m.prev[n]] = m.next[n]], n)

list_remove(m, n) ==
    LET l == m.list[n]
    IN  CASE l = NULL                            -> m
          [] l # NULL /\ m.head[l] = n           -> list_pop_head(m, l)
          [] l # NULL /\ m.head[l] # n /\ m.tail[l] = n -> list_pop_tail(m, l)
          [] OTHER                               -> Unlink(m, n)
----------------------------------------------------------------------------
(* What a list holds: the nodes met on the way from head along next, cut   *)
(* after more steps than there are nodes, so that a cyclic list differs    *)
(* from every proper one.                                                  *)
Walk(m, start, link) ==
    LET Bound == Cardinality(Node) + 1
        at[k \in 1..Bound] ==
            IF k = 1 THEN start
            ELSE IF at[k - 1] = NULL THEN NULL ELSE link[at[k - 1]]
        Ends == {k \in 1..Bound : at[k] = NULL}
        Stop == IF Ends = {} THEN Bound + 1
                ELSE CHOOSE k \in Ends : \A j \in Ends : k <= j
    IN  [k \in 1..(Stop - 1) |-> at[k]]

Forward(m, l)  == Walk(m, m.head[l], m.next)
Backward(m, l) == Walk(m, m.tail[l], m.prev)
============================================================================
