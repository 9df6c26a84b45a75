------------------------------- MODULE KList -------------------------------
(***************************************************************************)
(* The list functions of kernel/list.c as the kernel may call them one     *)
(* after the other.  The only demand on the caller is that a pushed node   *)
(* is on no list.  list_push_priority is a loop, one step per node passed, *)
(* so that what the loop relies on is an invariant of the specification.   *)
(***************************************************************************)
EXTENDS ListOps

CONSTANTS Priority,     \* the priorities callers pass to list_push_priority
          ScanLimit     \* 5000 in the source

ASSUME PriorityAssumption == Priority \subseteq Int /\ ScanLimit \in Int

VARIABLES mem,          \* the lists and nodes
          ret,          \* what the last pop returned
          scan          \* the locals of list_push_priority, or Idle

vars == <<mem, ret, scan>>

Idle == [at |-> NULL, list |-> NULL, node |-> NULL, pri |-> 0, i |-> 0]

Init == mem = InitMem /\ ret = NULL /\ scan = Idle

Ready == scan.at = NULL

PushHead(l, n) ==
    /\ Ready /\ mem.list[n] = NULL
    /\ mem' = list_push_head(mem, l, n)
    /\ UNCHANGED <<ret, scan>>

PushTail(l, n) ==
    /\ Ready /\ mem.list[n] = NULL
    /\ mem' = list_push_tail(mem, l, n)
    /\ UNCHANGED <<ret, scan>>

(* list_push_priority: an empty list is the early return, another one      *)
(* starts the scan at the head.                                            *)
PushPriority(l, n, pri) ==
    /\ Ready /\ mem.list[n] = NULL
    /\ IF mem.head[l] = NULL
       THEN mem' = list_push_head(mem, l, n) /\ UNCHANGED scan
       ELSE /\ scan' = [at |-> mem.head[l], list |-> l, node |-> n,
                        pri |-> pri, i |-> 0]
            /\ UNCHANGED mem
    /\ UNCHANGED ret

(* Mutant: equal priorities overtake.                                      *)
ScanStops_Equal == scan.pri >= mem.priority[scan.at] \/ scan.i > ScanLimit

ScanStops == scan.pri > mem.priority[scan.at] \/ scan.i > ScanLimit

ScanInsert ==
    /\ ~Ready /\ ScanStops
    /\ mem' = InsertBefore(mem, scan.list, scan.node, scan.at, scan.pri)
    /\ scan' = Idle
    /\ UNCHANGED ret

ScanNext ==
    /\ ~Ready /\ ~ScanStops
    /\ IF mem.next[scan.at] = NULL
       THEN /\ mem' = list_push_tail(mem, scan.list, scan.node)
            /\ scan' = Idle
       ELSE /\ scan' = [scan EXCEPT !.at = mem.next[scan.at], !.i = @ + 1]
            /\ UNCHANGED mem
    /\ UNCHANGED ret

PopHead(l) ==
    /\ Ready
    /\ ret' = mem.head[l]
    /\ mem' = list_pop_head(mem, l)
    /\ UNCHANGED scan

PopTail(l) ==
    /\ Ready
    /\ ret' = mem.tail[l]
    /\ mem' = list_pop_tail(mem, l)
    /\ UNCHANGED scan

RemoveNode(n) ==
    /\ Ready
    /\ mem' = list_remove(mem, n)
    /\ UNCHANGED <<ret, scan>>

Next ==
    \/ \E l \in List, n \in Node : PushHead(l, n) \/ PushTail(l, n)
    \/ \E l \in List, n \in Node, pri \in Priority : PushPriority(l, n, pri)
    \/ ScanInsert \/ ScanNext
    \/ \E l \in List : PopHead(l) \/ PopTail(l)
    \/ \E n \in Node : RemoveNode(n)

Spec == Init /\ [][Next]_vars
----------------------------------------------------------------------------
(* Every pointer of list.c refers to an object of its type, and the locals *)
(* of list_push_priority to a node of the list it scans.                   *)
TypeOK ==
    /\ mem \in MemType
    /\ ret \in Node \cup {NULL}
    /\ scan.i \in Int /\ scan.pri \in Int
    /\ \/ scan = Idle
       \/ /\ scan \in [at: Node, list: List, node: Node, pri: Int, i: Int]
          /\ mem.list[scan.at] = scan.list
          /\ mem.list[scan.node] = NULL

(* The two ends of a list: both null or neither, and they are nodes of the *)
(* list with nothing beyond them.                                          *)
EndsOK(m) ==
    \A l \in List :
        /\ (m.head[l] = NULL) <=> (m.tail[l] = NULL)
        /\ m.head[l] # NULL => m.list[m.head[l]] = l /\ m.prev[m.head[l]] = NULL
        /\ m.tail[l] # NULL => m.list[m.tail[l]] = l /\ m.next[m.tail[l]] = NULL

(* A node on a list lies between its neighbours: its links lead to nodes   *)
(* of the same list that link back to it, and only an end lacks one.       *)
LinksOK(m) ==
    \A n \in Node : m.list[n] # NULL =>
        /\ (m.next[n] = NULL) => m.tail[m.list[n]] = n
        /\ (m.prev[n] = NULL) => m.head[m.list[n]] = n
        /\ (m.next[n] # NULL) => /\ m.prev[m.next[n]] = n
                                 /\ m.list[m.next[n]] = m.list[n]
        /\ (m.prev[n] # NULL) => /\ m.next[m.prev[n]] = n
                                 /\ m.list[m.prev[n]] = m.list[n]

(* The neighbours, ends and list pointers of list.c agree with each other  *)
(* after every call, in the middle of a scan too.                          *)
LinksConsistent == EndsOK(mem) /\ LinksOK(mem)

(* Global shape: walking a list from its head and from its tail meets the  *)
(* same nodes in opposite orders, namely all those whose list pointer      *)
(* names it; in particular no list is cyclic and none shares a node.       *)
WellShaped ==
    \A l \in List :
        LET f == Forward(mem, l)
            b == Backward(mem, l)
        IN  /\ Len(f) = Len(b)
            /\ \A i \in 1..Len(f) : f[i] = b[Len(f) + 1 - i]
            /\ {f[i] : i \in 1..Len(f)} = {n \in Node : mem.list[n] = l}

Abs == INSTANCE ListAbs WITH
           contents <- [l \in List |-> Forward(mem, l)],
           rank <- mem.priority

(* The pointer code of list.c implements the sequences of ListAbs.         *)
AbsSpec == Abs!Spec
============================================================================
