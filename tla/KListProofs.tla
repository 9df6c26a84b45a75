---------------------------- MODULE KListProofs ----------------------------
(***************************************************************************)
(* For any number of nodes and lists the functions of list.c keep the      *)
(* links of every list consistent, every list a chain of exactly its own   *)
(* nodes, and implement the sequences of ListAbs.                          *)
(***************************************************************************)
EXTENDS KList, SequenceTheorems, FiniteSetTheorems, WellFoundedInduction, TLAPS

(* A memory every list.c function may be called on.                        *)
Good(m) == m \in MemType /\ EndsOK(m) /\ LinksOK(m)

(* r is m with n put on list l between p and q, either of which may be     *)
(* null.                                                                   *)
Linked(m, r, l, n, p, q, pri) ==
    /\ r.head = [m.head EXCEPT ![l] = IF p = NULL THEN n ELSE m.head[l]]
    /\ r.tail = [m.tail EXCEPT ![l] = IF q = NULL THEN n ELSE m.tail[l]]
    /\ r.next = [x \in Node |-> IF x = n THEN q ELSE IF x = p THEN n ELSE m.next[x]]
    /\ r.prev = [x \in Node |-> IF x = n THEN p ELSE IF x = q THEN n ELSE m.prev[x]]
    /\ r.list = [m.list EXCEPT ![n] = l]
    /\ r.priority = [m.priority EXCEPT ![n] = pri]

(* r is m with n taken off list l, where it was between p and q.           *)
Cut(m, r, l, n, p, q) ==
    /\ r.head = [m.head EXCEPT ![l] = IF p = NULL THEN q ELSE m.head[l]]
    /\ r.tail = [m.tail EXCEPT ![l] = IF q = NULL THEN p ELSE m.tail[l]]
    /\ r.next = [x \in Node |-> IF x = n THEN NULL ELSE IF x = p THEN q ELSE m.next[x]]
    /\ r.prev = [x \in Node |-> IF x = n THEN NULL ELSE IF x = q THEN p ELSE m.prev[x]]
    /\ r.list = [m.list EXCEPT ![n] = NULL]
    /\ r.priority = m.priority

(* The fields of r, what list_push_tail makes of m.                        *)
Appended(m, r, l, n) ==
    /\ r.head = [m.head EXCEPT ![l] = IF m.head[l] = NULL THEN n ELSE m.head[l]]
    /\ r.tail = [m.tail EXCEPT ![l] = n]
    /\ r.next = [x \in Node |-> IF x = n THEN NULL ELSE IF x = m.tail[l] THEN n ELSE m.next[x]]
    /\ r.prev = [m.prev EXCEPT ![n] = m.tail[l]]
    /\ r.list = [m.list EXCEPT ![n] = l]
    /\ r.priority = [m.priority EXCEPT ![n] = 0]
    /\ r \in MemType

(* The fields of r, what list_pop_head makes of m.                         *)
Popped(m, r, l, h, h2) ==
    /\ r.head = [m.head EXCEPT ![l] = h2]
    /\ r.tail = [m.tail EXCEPT ![l] = IF h2 = NULL THEN NULL ELSE m.tail[l]]
    /\ r.next = [m.next EXCEPT ![h] = NULL]
    /\ r.prev = [x \in Node |-> IF x = h2 \/ x = h THEN NULL ELSE m.prev[x]]
    /\ r.list = [m.list EXCEPT ![h] = NULL] /\ r.priority = m.priority
    /\ r \in MemType

USE NullAssumption

(* The fields after list_push_tail, whatever the other links are.          *)
LEMMA PushTailFields ==
    ASSUME NEW m \in MemType, NEW l \in List, NEW n \in Node, m.tail[l] # n
    PROVE  Appended(m, list_push_tail(m, l, n), l, n)
<1> DEFINE t == m.tail[l]
           r == list_push_tail(m, l, n)
<1> DEFINE m1 == TailInitNode(m, l, n)
           m2 == TailLinkLast(m1, l, n)
           m3 == TailSetTail(m2, l, n)
           m4 == TailSetHead(m3, l, n)
<1>a. /\ m1.head = m.head /\ m1.tail = m.tail /\ m1.list = m.list
      /\ m1.next = [m.next EXCEPT ![n] = NULL]
      /\ m1.prev = [m.prev EXCEPT ![n] = t]
      /\ m1.priority = [m.priority EXCEPT ![n] = 0]
      /\ m1 \in MemType
  <2> DEFINE a == [m EXCEPT !.prev[n] = t]
             b == [a EXCEPT !.next[n] = NULL]
  <2>1. /\ a \in MemType /\ a.prev = [m.prev EXCEPT ![n] = t]
        /\ a.head = m.head /\ a.tail = m.tail /\ a.list = m.list /\ a.next = m.next
        /\ a.priority = m.priority
    BY DEF MemType
  <2>2. /\ b \in MemType /\ b.prev = a.prev /\ b.next = [a.next EXCEPT ![n] = NULL]
        /\ b.head = a.head /\ b.tail = a.tail /\ b.list = a.list
        /\ b.priority = a.priority
    <3>. HIDE DEF a
    <3> QED BY <2>1 DEF MemType
  <2>3. m1 = [b EXCEPT !.priority[n] = 0]
    BY DEF TailInitNode
  <2>. HIDE DEF a, b, m1
  <2> QED BY <2>1, <2>2, <2>3 DEF MemType
<1>b. /\ m2.head = m.head /\ m2.tail = m.tail /\ m2.list = m.list
      /\ m2.next = [x \in Node |-> IF x = n THEN NULL ELSE IF x = t THEN n ELSE m.next[x]]
      /\ m2.prev = m1.prev /\ m2.priority = m1.priority
      /\ m2 \in MemType
  <2>. HIDE DEF m1
  <2>2. CASE t = NULL
    BY <1>a, <2>2 DEF TailLinkLast, MemType
  <2>3. CASE t # NULL
    BY <1>a, <2>3 DEF TailLinkLast, MemType
  <2> QED BY <2>2, <2>3
<1>c. /\ m3.head = m.head /\ m3.tail = [m.tail EXCEPT ![l] = n] /\ m3.list = m.list
      /\ m3.next = m2.next /\ m3.prev = m2.prev /\ m3.priority = m2.priority
      /\ m3 \in MemType
  <2>. HIDE DEF m1, m2
  <2> QED BY <1>b DEF TailSetTail, MemType
<1>d. /\ m4.head = [m.head EXCEPT ![l] = IF m.head[l] = NULL THEN n ELSE m.head[l]]
      /\ m4.tail = m3.tail /\ m4.list = m.list /\ m4.next = m3.next /\ m4.prev = m3.prev
      /\ m4.priority = m3.priority
      /\ m4 \in MemType
  <2>. HIDE DEF m1, m2, m3
  <2> QED BY <1>c DEF TailSetHead, MemType
<1>1. /\ r.head = [m.head EXCEPT ![l] = IF m.head[l] = NULL THEN n ELSE m.head[l]]
      /\ r.tail = [m.tail EXCEPT ![l] = n]
      /\ r.next = [x \in Node |-> IF x = n THEN NULL ELSE IF x = t THEN n ELSE m.next[x]]
      /\ r.prev = [m.prev EXCEPT ![n] = t]
      /\ r.list = [m.list EXCEPT ![n] = l]
      /\ r.priority = [m.priority EXCEPT ![n] = 0]
      /\ r \in MemType
  <2>1. r = TailSetList(m4, l, n)
    BY DEF list_push_tail
  <2>. HIDE DEF m1, m2, m3, m4, r
  <2> QED BY <2>1, <1>a, <1>b, <1>c, <1>d DEF TailSetList, MemType
<1> QED BY <1>1 DEF Appended

(* list_push_tail appends an unlisted node and keeps the links consistent. *)
LEMMA PushTailGood ==
    ASSUME NEW m, Good(m), NEW l \in List, NEW n \in Node, m.list[n] = NULL
    PROVE  /\ Good(list_push_tail(m, l, n))
           /\ Linked(m, list_push_tail(m, l, n), l, n, m.tail[l], NULL, 0)
<1> DEFINE t == m.tail[l]
           r == list_push_tail(m, l, n)
<1>1. /\ r.head = [m.head EXCEPT ![l] = IF m.head[l] = NULL THEN n ELSE m.head[l]]
      /\ r.tail = [m.tail EXCEPT ![l] = n]
      /\ r.next = [x \in Node |-> IF x = n THEN NULL ELSE IF x = t THEN n ELSE m.next[x]]
      /\ r.prev = [m.prev EXCEPT ![n] = t]
      /\ r.list = [m.list EXCEPT ![n] = l]
      /\ r.priority = [m.priority EXCEPT ![n] = 0]
      /\ r \in MemType
  <2>1. t # n /\ m \in MemType
    BY DEF Good, EndsOK
  <2>2. Appended(m, r, l, n)
    BY <2>1, PushTailFields
  <2> QED BY <2>2 DEF Appended
<1> HIDE DEF r
<1>2. EndsOK(r)
  BY <1>1 DEF EndsOK, Good, MemType, LinksOK
<1>3. LinksOK(r)
  BY <1>1 DEF EndsOK, Good, MemType, LinksOK
<1>4. Linked(m, r, l, n, t, NULL, 0)
  <2>1. /\ m.head[l] = NULL <=> m.tail[l] = NULL
        /\ m.next \in [Node -> Node \cup {NULL}] /\ m.prev \in [Node -> Node \cup {NULL}]
        /\ m.head \in [List -> Node \cup {NULL}] /\ m.tail \in [List -> Node \cup {NULL}]
    BY DEF Good, MemType, EndsOK
  <2> QED BY <1>1, <2>1 DEF Linked
<1> QED BY <1>1, <1>2, <1>3, <1>4 DEF Good, r

(* list_push_head puts an unlisted node in front and keeps the links       *)
(* consistent.                                                             *)
LEMMA PushHeadGood ==
    ASSUME NEW m, Good(m), NEW l \in List, NEW n \in Node, m.list[n] = NULL
    PROVE  /\ Good(list_push_head(m, l, n))
           /\ Linked(m, list_push_head(m, l, n), l, n, NULL, m.head[l], 0)
<1> DEFINE h  == m.head[l]
           r  == list_push_head(m, l, n)
           a  == [m EXCEPT !.next[n] = h]
           b  == [a EXCEPT !.prev[n] = NULL]
           c  == [b EXCEPT !.priority[n] = 0]
           d  == IF h # NULL THEN [c EXCEPT !.prev[h] = n] ELSE c
           e  == [d EXCEPT !.head[l] = n]
           f  == [e EXCEPT !.tail[l] = IF e.tail[l] = NULL THEN n ELSE e.tail[l]]
<1>0. r = [f EXCEPT !.list[n] = l]
  BY DEF list_push_head
<1>a. /\ c \in MemType
      /\ c.next = [m.next EXCEPT ![n] = h]
      /\ c.prev = [m.prev EXCEPT ![n] = NULL]
      /\ c.head = m.head /\ c.tail = m.tail /\ c.list = m.list
      /\ c.priority = [m.priority EXCEPT ![n] = 0]
  <2>1. a \in MemType /\ a.next = [m.next EXCEPT ![n] = h] /\ a.prev = m.prev
        /\ a.head = m.head /\ a.tail = m.tail /\ a.list = m.list
        /\ a.priority = m.priority
    BY DEF Good, MemType
  <2>. HIDE DEF a
  <2>2. b \in MemType /\ b.next = a.next /\ b.prev = [m.prev EXCEPT ![n] = NULL]
        /\ b.head = m.head /\ b.tail = m.tail /\ b.list = m.list
        /\ b.priority = m.priority
    BY <2>1 DEF MemType
  <2>. HIDE DEF b
  <2> QED BY <2>1, <2>2 DEF MemType
<1>. HIDE DEF c
<1>b. /\ d \in MemType
      /\ d.prev = [x \in Node |-> IF x = h THEN n ELSE IF x = n THEN NULL ELSE m.prev[x]]
      /\ d.next = c.next /\ d.head = m.head /\ d.tail = m.tail /\ d.list = m.list
      /\ d.priority = c.priority
  <2>1. h # n
    BY DEF Good, EndsOK
  <2>2. CASE h = NULL
    BY <1>a, <2>2 DEF MemType, Good
  <2>3. CASE h # NULL
    BY <1>a, <2>1, <2>3 DEF MemType, Good
  <2> QED BY <2>2, <2>3
<1>. HIDE DEF d
<1>c. /\ e \in MemType /\ e.head = [m.head EXCEPT ![l] = n]
      /\ e.prev = d.prev /\ e.next = d.next /\ e.tail = m.tail /\ e.list = m.list
      /\ e.priority = c.priority
  BY <1>b DEF MemType
<1>. HIDE DEF e
<1>d. /\ f \in MemType
      /\ f.tail = [m.tail EXCEPT ![l] = IF m.tail[l] = NULL THEN n ELSE m.tail[l]]
      /\ f.prev = d.prev /\ f.next = d.next /\ f.head = e.head /\ f.list = m.list
      /\ f.priority = c.priority
  BY <1>c DEF MemType, Good
<1>. HIDE DEF f, r
<1>1. /\ r.head = [m.head EXCEPT ![l] = n]
      /\ r.tail = [m.tail EXCEPT ![l] = IF m.tail[l] = NULL THEN n ELSE m.tail[l]]
      /\ r.prev = [x \in Node |-> IF x = h THEN n ELSE IF x = n THEN NULL ELSE m.prev[x]]
      /\ r.next = [m.next EXCEPT ![n] = h]
      /\ r.list = [m.list EXCEPT ![n] = l]
      /\ r.priority = [m.priority EXCEPT ![n] = 0]
      /\ r \in MemType
  BY <1>0, <1>a, <1>b, <1>c, <1>d DEF MemType
<1>2. EndsOK(r)
  BY <1>1 DEF EndsOK, Good, MemType, LinksOK
<1>3. LinksOK(r)
  BY <1>1 DEF EndsOK, Good, MemType, LinksOK
<1>4. Linked(m, r, l, n, NULL, h, 0)
  <2>1. /\ m.head[l] = NULL <=> m.tail[l] = NULL
        /\ m.next \in [Node -> Node \cup {NULL}] /\ m.prev \in [Node -> Node \cup {NULL}]
        /\ m.head \in [List -> Node \cup {NULL}] /\ m.tail \in [List -> Node \cup {NULL}]
    BY DEF Good, MemType, EndsOK
  <2>2. h # n
    BY DEF Good, EndsOK
  <2> QED BY <1>1, <2>1, <2>2 DEF Linked
<1> QED BY <1>1, <1>2, <1>3, <1>4 DEF Good, r

(* Inserting an unlisted node in front of a node of the list keeps the     *)
(* links consistent.                                                       *)
LEMMA InsertBeforeGood ==
    ASSUME NEW m, Good(m), NEW l \in List, NEW n \in Node, m.list[n] = NULL,
           NEW n0 \in Node, m.list[n0] = l, NEW pri \in Int
    PROVE  /\ Good(InsertBefore(m, l, n, n0, pri))
           /\ Linked(m, InsertBefore(m, l, n, n0, pri), l, n, m.prev[n0], n0, pri)
<1> DEFINE p  == m.prev[n0]
           r  == InsertBefore(m, l, n, n0, pri)
           a  == [m EXCEPT !.next[n] = n0]
           b  == [a EXCEPT !.prev[n] = p]
           c  == [b EXCEPT !.priority[n] = pri]
           d  == IF p # NULL THEN [c EXCEPT !.next[p] = n] ELSE [c EXCEPT !.head[l] = n]
           e  == [d EXCEPT !.prev[n0] = n]
<1>0. r = [e EXCEPT !.list[n] = l]
  BY DEF InsertBefore
<1>n. n # n0 /\ p # n /\ p \in Node \cup {NULL}
  <2>1. n # n0 /\ p \in Node \cup {NULL}
    BY DEF Good, MemType
  <2>2. p # NULL => m.list[p] = l
    BY DEF Good, LinksOK, MemType
  <2> QED BY <2>1, <2>2
<1>a. /\ c \in MemType
      /\ c.next = [m.next EXCEPT ![n] = n0]
      /\ c.prev = [m.prev EXCEPT ![n] = p]
      /\ c.head = m.head /\ c.tail = m.tail /\ c.list = m.list
      /\ c.priority = [m.priority EXCEPT ![n] = pri]
  <2>1. a \in MemType /\ a.next = [m.next EXCEPT ![n] = n0] /\ a.prev = m.prev
        /\ a.head = m.head /\ a.tail = m.tail /\ a.list = m.list
        /\ a.priority = m.priority
    BY DEF Good, MemType
  <2>. HIDE DEF a
  <2>2. b \in MemType /\ b.next = a.next /\ b.prev = [m.prev EXCEPT ![n] = p]
        /\ b.head = m.head /\ b.tail = m.tail /\ b.list = m.list
        /\ b.priority = m.priority
    BY <2>1, <1>n DEF MemType
  <2>. HIDE DEF b
  <2> QED BY <2>1, <2>2 DEF MemType
<1>. HIDE DEF c
<1>b. /\ d \in MemType
      /\ d.next = [x \in Node |-> IF x = p THEN n ELSE IF x = n THEN n0 ELSE m.next[x]]
      /\ d.head = [m.head EXCEPT ![l] = IF p = NULL THEN n ELSE m.head[l]]
      /\ d.prev = c.prev /\ d.tail = m.tail /\ d.list = m.list
      /\ d.priority = c.priority
  <2>2. CASE p = NULL
    BY <1>a, <1>n, <2>2 DEF MemType, Good
  <2>3. CASE p # NULL
    BY <1>a, <1>n, <2>3 DEF MemType, Good
  <2> QED BY <2>2, <2>3
<1>. HIDE DEF d
<1>c. /\ e \in MemType /\ e.prev = [c.prev EXCEPT ![n0] = n]
      /\ e.head = d.head /\ e.next = d.next /\ e.tail = m.tail /\ e.list = m.list
      /\ e.priority = c.priority
  BY <1>b DEF MemType
<1>. HIDE DEF e, r
<1>1. /\ r.head = [m.head EXCEPT ![l] = IF p = NULL THEN n ELSE m.head[l]]
      /\ r.tail = m.tail
      /\ r.next = [x \in Node |-> IF x = p THEN n ELSE IF x = n THEN n0 ELSE m.next[x]]
      /\ r.prev = [[m.prev EXCEPT ![n] = p] EXCEPT ![n0] = n]
      /\ r.list = [m.list EXCEPT ![n] = l]
      /\ r.priority = [m.priority EXCEPT ![n] = pri]
      /\ r \in MemType
  <2>1. /\ r \in MemType /\ r.list = [e.list EXCEPT ![n] = l]
        /\ r.head = e.head /\ r.tail = e.tail /\ r.next = e.next /\ r.prev = e.prev
        /\ r.priority = e.priority
    BY <1>0, <1>c DEF MemType
  <2> QED BY <2>1, <1>a, <1>b, <1>c
<1>2. EndsOK(r)
  BY <1>1, <1>n DEF EndsOK, Good, MemType, LinksOK
<1>3. LinksOK(r)
  BY <1>1, <1>n DEF EndsOK, Good, MemType, LinksOK
<1>4. Linked(m, r, l, n, p, n0, pri)
  <2>1. /\ m.head[l] = NULL <=> m.tail[l] = NULL
        /\ m.next \in [Node -> Node \cup {NULL}] /\ m.prev \in [Node -> Node \cup {NULL}]
        /\ m.head \in [List -> Node \cup {NULL}] /\ m.tail \in [List -> Node \cup {NULL}]
    BY DEF Good, MemType, EndsOK
  <2> QED BY <1>1, <2>1, <1>n DEF Linked
<1> QED BY <1>1, <1>2, <1>3, <1>4 DEF Good, r

(* The fields after a node has been cut loose.                             *)
LEMMA DetachFields ==
    ASSUME NEW m \in MemType, NEW n \in Node
    PROVE  /\ Detach(m, n) \in MemType
           /\ Detach(m, n).next = [m.next EXCEPT ![n] = NULL]
           /\ Detach(m, n).prev = [m.prev EXCEPT ![n] = NULL]
           /\ Detach(m, n).list = [m.list EXCEPT ![n] = NULL]
           /\ Detach(m, n).head = m.head /\ Detach(m, n).tail = m.tail
           /\ Detach(m, n).priority = m.priority
<1> DEFINE a == [m EXCEPT !.next[n] = NULL]
           b == [a EXCEPT !.prev[n] = NULL]
<1>0. Detach(m, n) = [b EXCEPT !.list[n] = NULL]
  BY DEF Detach
<1>1. a \in MemType /\ a.next = [m.next EXCEPT ![n] = NULL] /\ a.prev = m.prev
      /\ a.head = m.head /\ a.tail = m.tail /\ a.list = m.list /\ a.priority = m.priority
  BY DEF MemType
<1>. HIDE DEF a
<1>2. b \in MemType /\ b.next = a.next /\ b.prev = [m.prev EXCEPT ![n] = NULL]
      /\ b.head = m.head /\ b.tail = m.tail /\ b.list = m.list /\ b.priority = m.priority
  BY <1>1 DEF MemType
<1>. HIDE DEF b
<1> QED BY <1>0, <1>1, <1>2 DEF MemType

(* The fields after list_pop_head, whatever the other links are.           *)
LEMMA PopHeadFields ==
    ASSUME NEW m \in MemType, NEW l \in List, m.head[l] # NULL,
           m.next[m.head[l]] # m.head[l]
    PROVE  Popped(m, list_pop_head(m, l), l, m.head[l], m.next[m.head[l]])
<1> DEFINE h  == m.head[l]
           h2 == m.next[h]
           a  == [m EXCEPT !.head[l] = h2]
           b  == IF h2 # NULL THEN [a EXCEPT !.prev[h2] = NULL] ELSE [a EXCEPT !.tail[l] = NULL]
           r  == Detach(b, h)
<1>1. h \in Node /\ h2 \in Node \cup {NULL} /\ h2 # h
  BY DEF MemType
<1>2. list_pop_head(m, l) = r
  BY DEF list_pop_head
<1>3. /\ a \in MemType /\ a.head = [m.head EXCEPT ![l] = h2]
      /\ a.tail = m.tail /\ a.next = m.next /\ a.prev = m.prev /\ a.list = m.list
      /\ a.priority = m.priority
  BY <1>1 DEF MemType
<1>. HIDE DEF a
<1>4. /\ b \in MemType /\ b.head = a.head /\ b.next = m.next /\ b.list = m.list
      /\ b.priority = m.priority
      /\ b.prev = [x \in Node |-> IF x = h2 THEN NULL ELSE m.prev[x]]
      /\ b.tail = [m.tail EXCEPT ![l] = IF h2 = NULL THEN NULL ELSE m.tail[l]]
  <2>1. CASE h2 = NULL
    BY <2>1, <1>1, <1>3 DEF MemType
  <2>2. CASE h2 # NULL
    BY <2>2, <1>1, <1>3 DEF MemType
  <2> QED BY <2>1, <2>2
<1>. HIDE DEF b
<1>5. /\ r \in MemType /\ r.head = b.head /\ r.tail = b.tail
      /\ r.next = [b.next EXCEPT ![h] = NULL]
      /\ r.prev = [b.prev EXCEPT ![h] = NULL]
      /\ r.list = [b.list EXCEPT ![h] = NULL] /\ r.priority = b.priority
  BY <1>1, <1>4, DetachFields
<1>. HIDE DEF r
<1>6. /\ r \in MemType
      /\ r.head = [m.head EXCEPT ![l] = h2]
      /\ r.tail = [m.tail EXCEPT ![l] = IF h2 = NULL THEN NULL ELSE m.tail[l]]
      /\ r.next = [m.next EXCEPT ![h] = NULL]
      /\ r.prev = [x \in Node |-> IF x = h2 \/ x = h THEN NULL ELSE m.prev[x]]
      /\ r.list = [m.list EXCEPT ![h] = NULL] /\ r.priority = m.priority
  BY <1>1, <1>3, <1>4, <1>5 DEF MemType
<1> QED BY <1>2, <1>6 DEF Popped

(* list_pop_head takes the first node off and keeps the links consistent.  *)
LEMMA PopHeadGood ==
    ASSUME NEW m, Good(m), NEW l \in List
    PROVE  /\ Good(list_pop_head(m, l))
           /\ IF m.head[l] = NULL THEN list_pop_head(m, l) = m
              ELSE Cut(m, list_pop_head(m, l), l, m.head[l], NULL, m.next[m.head[l]])
<1> DEFINE h  == m.head[l]
           h2 == m.next[h]
           r  == list_pop_head(m, l)
<1>1. CASE h = NULL
  BY <1>1 DEF list_pop_head
<1>2. CASE h # NULL
  <2>1. /\ h \in Node /\ h2 \in Node \cup {NULL} /\ h2 # h /\ m.list[h] = l
        /\ m.prev[h] = NULL /\ m \in MemType
    BY <1>2 DEF Good, EndsOK, LinksOK, MemType
  <2>5. /\ r \in MemType
        /\ r.head = [m.head EXCEPT ![l] = h2]
        /\ r.tail = [m.tail EXCEPT ![l] = IF h2 = NULL THEN NULL ELSE m.tail[l]]
        /\ r.next = [m.next EXCEPT ![h] = NULL]
        /\ r.prev = [x \in Node |-> IF x = h2 \/ x = h THEN NULL ELSE m.prev[x]]
        /\ r.list = [m.list EXCEPT ![h] = NULL] /\ r.priority = m.priority
    <3>1. Popped(m, r, l, h, h2)
      BY <1>2, <2>1, PopHeadFields
    <3> QED BY <3>1 DEF Popped
  <2>. HIDE DEF r
  <2>6. EndsOK(r)
    BY <2>1, <2>5, <1>2 DEF EndsOK, LinksOK, MemType, Good
  <2>7. LinksOK(r)
    BY <2>1, <2>5, <1>2 DEF EndsOK, LinksOK, MemType, Good
  <2>8. Cut(m, r, l, h, NULL, h2)
    <3>1. /\ m.next \in [Node -> Node \cup {NULL}] /\ m.prev \in [Node -> Node \cup {NULL}]
          /\ m.head \in [List -> Node \cup {NULL}] /\ m.tail \in [List -> Node \cup {NULL}]
          /\ (h2 # NULL => m.prev[h2] = h)
      BY <2>1 DEF Good, MemType, LinksOK
    <3> QED BY <2>1, <2>5, <3>1 DEF Cut
  <2> QED BY <1>2, <2>5, <2>6, <2>7, <2>8 DEF Good, r
<1> QED BY <1>1, <1>2

(* list_pop_tail takes the last node off and keeps the links consistent.   *)
LEMMA PopTailGood ==
    ASSUME NEW m, Good(m), NEW l \in List
    PROVE  /\ Good(list_pop_tail(m, l))
           /\ IF m.tail[l] = NULL THEN list_pop_tail(m, l) = m
              ELSE Cut(m, list_pop_tail(m, l), l, m.tail[l], m.prev[m.tail[l]], NULL)
<1> DEFINE t  == m.tail[l]
           t2 == m.prev[t]
           a  == [m EXCEPT !.tail[l] = t2]
           b  == IF t2 # NULL THEN [a EXCEPT !.next[t2] = NULL] ELSE [a EXCEPT !.head[l] = NULL]
           r  == Detach(b, t)
<1>1. CASE t = NULL
  BY <1>1 DEF list_pop_tail
<1>2. CASE t # NULL
  <2>1. /\ t \in Node /\ t2 \in Node \cup {NULL} /\ t2 # t /\ m.list[t] = l
        /\ m.next[t] = NULL
    BY <1>2 DEF Good, EndsOK, LinksOK, MemType
  <2>2. list_pop_tail(m, l) = r
    BY <1>2 DEF list_pop_tail
  <2>3. /\ a \in MemType /\ a.tail = [m.tail EXCEPT ![l] = t2]
        /\ a.head = m.head /\ a.next = m.next /\ a.prev = m.prev /\ a.list = m.list
        /\ a.priority = m.priority
    BY <2>1 DEF MemType, Good
  <2>. HIDE DEF a
  <2>4. /\ b \in MemType /\ b.tail = a.tail /\ b.prev = m.prev /\ b.list = m.list
        /\ b.priority = m.priority
        /\ b.next = [x \in Node |-> IF x = t2 THEN NULL ELSE m.next[x]]
        /\ b.head = [m.head EXCEPT ![l] = IF t2 = NULL THEN NULL ELSE m.head[l]]
    <3>1. CASE t2 = NULL
      BY <3>1, <2>1, <2>3 DEF MemType, Good
    <3>2. CASE t2 # NULL
      BY <3>2, <2>1, <2>3 DEF MemType, Good
    <3> QED BY <3>1, <3>2
  <2>. HIDE DEF b
  <2>5. /\ r \in MemType
        /\ r.tail = [m.tail EXCEPT ![l] = t2]
        /\ r.head = [m.head EXCEPT ![l] = IF t2 = NULL THEN NULL ELSE m.head[l]]
        /\ r.prev = [m.prev EXCEPT ![t] = NULL]
        /\ r.next = [x \in Node |-> IF x = t2 \/ x = t THEN NULL ELSE m.next[x]]
        /\ r.list = [m.list EXCEPT ![t] = NULL] /\ r.priority = m.priority
    <3>. HIDE DEF r
    <3>1. /\ r \in MemType /\ r.head = b.head /\ r.tail = b.tail
          /\ r.next = [b.next EXCEPT ![t] = NULL]
          /\ r.prev = [b.prev EXCEPT ![t] = NULL]
          /\ r.list = [b.list EXCEPT ![t] = NULL] /\ r.priority = b.priority
      BY <2>1, <2>4, DetachFields DEF r
    <3> QED BY <3>1, <2>1, <2>3, <2>4 DEF MemType, Good
  <2>. HIDE DEF r
  <2>6. EndsOK(r)
    BY <2>1, <2>5, <1>2 DEF EndsOK, LinksOK, MemType, Good
  <2>7. LinksOK(r)
    BY <2>1, <2>5, <1>2 DEF EndsOK, LinksOK, MemType, Good
  <2>8. Cut(m, r, l, t, t2, NULL)
    <3>1. /\ m.next \in [Node -> Node \cup {NULL}] /\ m.prev \in [Node -> Node \cup {NULL}]
          /\ m.head \in [List -> Node \cup {NULL}] /\ m.tail \in [List -> Node \cup {NULL}]
          /\ (t2 # NULL => m.next[t2] = t)
      BY <2>1 DEF Good, MemType, LinksOK
    <3> QED BY <2>1, <2>5, <3>1 DEF Cut
  <2> QED BY <1>2, <2>2, <2>5, <2>6, <2>7, <2>8 DEF Good, r
<1> QED BY <1>1, <1>2

(* list_remove takes a node out of the middle or off either end, ignores   *)
(* an unlisted one, and never follows a null link.                         *)
LEMMA RemoveGood ==
    ASSUME NEW m, Good(m), NEW n \in Node
    PROVE  /\ Good(list_remove(m, n))
           /\ IF m.list[n] = NULL THEN list_remove(m, n) = m
              ELSE Cut(m, list_remove(m, n), m.list[n], n, m.prev[n], m.next[n])
<1> DEFINE l == m.list[n]
           u == m.next[n]
           p == m.prev[n]
           a == [m EXCEPT !.prev[u] = p]
           b == [a EXCEPT !.next[p] = u]
           r == Detach(b, n)
<1>1. CASE l = NULL
  BY <1>1 DEF list_remove
<1>2. CASE l # NULL /\ m.head[l] = n
  <2>1. l \in List /\ list_remove(m, n) = list_pop_head(m, l)
    BY <1>2 DEF list_remove, Good, MemType
  <2>2. m.prev[n] = NULL /\ m.head[l] # NULL
    BY <1>2, <2>1 DEF Good, EndsOK
  <2> QED BY <1>2, <2>1, <2>2, PopHeadGood
<1>3. CASE l # NULL /\ m.head[l] # n /\ m.tail[l] = n
  <2>1. l \in List /\ list_remove(m, n) = list_pop_tail(m, l)
    BY <1>3 DEF list_remove, Good, MemType
  <2>2. m.next[n] = NULL /\ m.tail[l] # NULL
    BY <1>3, <2>1 DEF Good, EndsOK
  <2> QED BY <1>3, <2>1, <2>2, PopTailGood
<1>4. CASE l # NULL /\ m.head[l] # n /\ m.tail[l] # n
  <2>1. /\ l \in List /\ u \in Node /\ p \in Node
        /\ m.prev[u] = n /\ m.next[p] = n /\ m.list[u] = l /\ m.list[p] = l
    BY <1>4 DEF Good, LinksOK, MemType
  <2>2. list_remove(m, n) = r
    BY <1>4 DEF list_remove, Unlink
  <2>3. /\ a \in MemType /\ a.prev = [m.prev EXCEPT ![u] = p]
        /\ a.head = m.head /\ a.tail = m.tail /\ a.next = m.next /\ a.list = m.list
        /\ a.priority = m.priority
    BY <2>1 DEF MemType, Good
  <2>. HIDE DEF a
  <2>4. /\ b \in MemType /\ b.next = [m.next EXCEPT ![p] = u]
        /\ b.head = m.head /\ b.tail = m.tail /\ b.prev = a.prev /\ b.list = m.list
        /\ b.priority = m.priority
    BY <2>1, <2>3 DEF MemType, Good
  <2>. HIDE DEF b
  <2>5. /\ r \in MemType /\ r.head = m.head /\ r.tail = m.tail
        /\ r.next = [x \in Node |-> IF x = n THEN NULL ELSE IF x = p THEN u ELSE m.next[x]]
        /\ r.prev = [x \in Node |-> IF x = n THEN NULL ELSE IF x = u THEN p ELSE m.prev[x]]
        /\ r.list = [m.list EXCEPT ![n] = NULL] /\ r.priority = m.priority
    <3>. HIDE DEF r
    <3>1. /\ r \in MemType /\ r.head = b.head /\ r.tail = b.tail
          /\ r.next = [b.next EXCEPT ![n] = NULL]
          /\ r.prev = [b.prev EXCEPT ![n] = NULL]
          /\ r.list = [b.list EXCEPT ![n] = NULL] /\ r.priority = b.priority
      BY <2>1, <2>4, DetachFields DEF r
    <3> QED BY <3>1, <2>1, <2>3, <2>4 DEF MemType, Good
  <2>. HIDE DEF r
  <2>6. EndsOK(r)
    BY <2>1, <2>5, <1>4 DEF EndsOK, LinksOK, MemType, Good
  <2>7. LinksOK(r)
    BY <2>1, <2>5, <1>4 DEF EndsOK, LinksOK, MemType, Good
  <2>8. Cut(m, r, l, n, p, u)
    <3>1. /\ m.head \in [List -> Node \cup {NULL}] /\ m.tail \in [List -> Node \cup {NULL}]
      BY DEF Good, MemType
    <3> QED BY <2>1, <2>5, <3>1 DEF Cut
  <2> QED BY <1>4, <2>2, <2>5, <2>6, <2>7, <2>8 DEF Good, r
<1> QED BY <1>1, <1>2, <1>3, <1>4
----------------------------------------------------------------------------
(* The inductive invariant: besides the links, TypeOK records that the     *)
(* node the scan of list_push_priority stands on is a node of its list.    *)
IInv == TypeOK /\ LinksConsistent

LEMMA InitIInv == Init => IInv
  BY DEF Init, IInv, TypeOK, LinksConsistent, EndsOK, LinksOK, InitMem,
         MemType, Idle

(* Every call of list.c, whole or one iteration of the scan, preserves the *)
(* invariant.                                                              *)
LEMMA NextIInv == IInv /\ [Next]_vars => IInv'
<1> SUFFICES ASSUME IInv, [Next]_vars PROVE IInv'
  OBVIOUS
<1> USE PriorityAssumption
<1>g. Good(mem)
  BY DEF IInv, TypeOK, LinksConsistent, Good
<1>i. Good(mem') => mem' \in MemType /\ LinksConsistent'
  BY DEF Good, LinksConsistent, EndsOK, LinksOK
<1>r. Ready <=> scan = Idle
  BY DEF Ready, Idle, IInv, TypeOK
<1>s. ~Ready => /\ scan.at \in Node /\ scan.node \in Node /\ scan.list \in List
                /\ scan.pri \in Int /\ scan.i \in Int
                /\ mem.list[scan.at] = scan.list /\ mem.list[scan.node] = NULL
  BY <1>r DEF IInv, TypeOK
<1>id. Idle.i \in Int /\ Idle.pri \in Int
  BY DEF Idle
<1>1. ASSUME NEW l \in List, NEW n \in Node, PushHead(l, n) PROVE IInv'
  <2>1. Good(mem')
    BY <1>1, <1>g, PushHeadGood DEF PushHead
  <2> QED BY <2>1, <1>i, <1>r, <1>1, <1>id DEF PushHead, IInv, TypeOK
<1>2. ASSUME NEW l \in List, NEW n \in Node, PushTail(l, n) PROVE IInv'
  <2>1. Good(mem')
    BY <1>2, <1>g, PushTailGood DEF PushTail
  <2> QED BY <2>1, <1>i, <1>r, <1>2, <1>id DEF PushTail, IInv, TypeOK
<1>3. ASSUME NEW l \in List, NEW n \in Node, NEW pri \in Priority,
             PushPriority(l, n, pri)
      PROVE  IInv'
  <2>1. CASE mem.head[l] = NULL
    <3>1. Good(mem')
      BY <1>3, <2>1, <1>g, PushHeadGood DEF PushPriority
    <3> QED BY <3>1, <2>1, <1>i, <1>r, <1>3, <1>id DEF PushPriority, IInv, TypeOK
  <2>2. CASE mem.head[l] # NULL
    <3>1. mem.head[l] \in Node /\ mem.list[mem.head[l]] = l
      BY <2>2, <1>g DEF Good, EndsOK, MemType
    <3>2. mem' = mem /\ ret' = ret
          /\ scan' = [at |-> mem.head[l], list |-> l, node |-> n, pri |-> pri, i |-> 0]
      BY <1>3, <2>2 DEF PushPriority
    <3>3. mem.list[n] = NULL
      BY <1>3 DEF PushPriority
    <3>4. scan' \in [at: Node, list: List, node: Node, pri: Int, i: Int]
      BY <3>1, <3>2
    <3>5. TypeOK'
      BY <3>1, <3>2, <3>3, <3>4 DEF IInv, TypeOK
    <3>6. LinksConsistent'
      BY <3>2 DEF IInv, LinksConsistent, EndsOK, LinksOK
    <3> QED BY <3>5, <3>6 DEF IInv
  <2> QED BY <2>1, <2>2
<1>4. ASSUME ScanInsert PROVE IInv'
  <2>1. Good(mem')
    BY <1>4, <1>g, <1>s, InsertBeforeGood DEF ScanInsert
  <2> QED BY <2>1, <1>i, <1>4, <1>id DEF ScanInsert, IInv, TypeOK
<1>5. ASSUME ScanNext PROVE IInv'
  <2>1. CASE mem.next[scan.at] = NULL
    <3>1. Good(mem')
      BY <1>5, <2>1, <1>g, <1>s, PushTailGood DEF ScanNext
    <3> QED BY <3>1, <2>1, <1>i, <1>5, <1>id DEF ScanNext, IInv, TypeOK
  <2>2. CASE mem.next[scan.at] # NULL
    <3>1. mem.next[scan.at] \in Node /\ mem.list[mem.next[scan.at]] = scan.list
      BY <1>5, <2>2, <1>g, <1>s DEF Good, LinksOK, MemType, ScanNext
    <3>2. mem' = mem /\ ret' = ret
          /\ scan' = [scan EXCEPT !.at = mem.next[scan.at], !.i = @ + 1]
      BY <1>5, <2>2 DEF ScanNext
    <3>3. scan \in [at: Node, list: List, node: Node, pri: Int, i: Int]
      BY <1>5, <1>r DEF IInv, TypeOK, ScanNext
    <3>4. /\ scan' \in [at: Node, list: List, node: Node, pri: Int, i: Int]
          /\ scan'.at = mem.next[scan.at] /\ scan'.list = scan.list
          /\ scan'.node = scan.node
      <4> DEFINE R  == [at: Node, list: List, node: Node, pri: Int, i: Int]
                 s1 == [scan EXCEPT !.at = mem.next[scan.at]]
      <4>1. /\ s1 \in R /\ s1.at = mem.next[scan.at] /\ s1.list = scan.list
            /\ s1.node = scan.node /\ s1.i = scan.i
        BY <3>1, <3>3
      <4>2. scan' = [s1 EXCEPT !.i = s1.i + 1]
        BY <3>2, <3>3, <4>1
      <4>. HIDE DEF s1
      <4> QED BY <4>1, <4>2
    <3>5. TypeOK'
      BY <3>1, <3>2, <3>4, <1>5, <1>s DEF IInv, TypeOK, ScanNext
    <3>6. LinksConsistent'
      BY <3>2 DEF IInv, LinksConsistent, EndsOK, LinksOK
    <3> QED BY <3>5, <3>6 DEF IInv
  <2> QED BY <2>1, <2>2
<1>6. ASSUME NEW l \in List, PopHead(l) PROVE IInv'
  <2>1. Good(mem')
    BY <1>6, <1>g, PopHeadGood DEF PopHead
  <2>2. ret' \in Node \cup {NULL}
    BY <1>6, <1>g DEF PopHead, Good, MemType
  <2> QED BY <2>1, <2>2, <1>i, <1>r, <1>6, <1>id DEF PopHead, IInv, TypeOK
<1>7. ASSUME NEW l \in List, PopTail(l) PROVE IInv'
  <2>1. Good(mem')
    BY <1>7, <1>g, PopTailGood DEF PopTail
  <2>2. ret' \in Node \cup {NULL}
    BY <1>7, <1>g DEF PopTail, Good, MemType
  <2> QED BY <2>1, <2>2, <1>i, <1>r, <1>7, <1>id DEF PopTail, IInv, TypeOK
<1>8. ASSUME NEW n \in Node, RemoveNode(n) PROVE IInv'
  <2>1. Good(mem')
    BY <1>8, <1>g, RemoveGood DEF RemoveNode
  <2> QED BY <2>1, <1>i, <1>r, <1>8, <1>id DEF RemoveNode, IInv, TypeOK
<1>9. CASE UNCHANGED vars
  BY <1>9 DEF vars, IInv, TypeOK, LinksConsistent, EndsOK, LinksOK
<1> QED BY <1>1, <1>2, <1>3, <1>4, <1>5, <1>6, <1>7, <1>8, <1>9 DEF Next

(* In every behaviour of list.c, for any nodes, lists and priorities, the  *)
(* links are consistent after every call and in the middle of a scan.      *)
THEOREM LinksTheorem == Spec => []LinksConsistent
<1>1. IInv => LinksConsistent
  BY DEF IInv
<1> QED BY InitIInv, NextIInv, <1>1, PTL DEF Spec

(* Every pointer of list.c keeps its type, and the scan of                 *)
(* list_push_priority never leaves the list it started on.                 *)
THEOREM TypeTheorem == Spec => []TypeOK
<1>1. IInv => TypeOK
  BY DEF IInv
<1> QED BY InitIInv, NextIInv, <1>1, PTL DEF Spec
----------------------------------------------------------------------------
(* The shape of a list.  LinksConsistent allows a cycle of nodes beside    *)
(* the list that all name it; what excludes it is that a sequence of nodes *)
(* goes along the links from end to end and has every node of the list.    *)
At(s, i) == IF i \in 1..Len(s) THEN s[i] ELSE NULL

Chain(m, l, s) ==
    /\ s \in Seq(Node)
    /\ \A i, j \in 1..Len(s) : s[i] = s[j] => i = j
    /\ \A n \in Node : m.list[n] = l <=> \E i \in 1..Len(s) : s[i] = n
    /\ m.head[l] = At(s, 1) /\ m.tail[l] = At(s, Len(s))
    /\ \A i \in 1..Len(s) : m.next[s[i]] = At(s, i + 1) /\ m.prev[s[i]] = At(s, i - 1)

Ins(s, k, n) ==
    [i \in 1..(Len(s) + 1) |-> IF i < k THEN s[i] ELSE IF i = k THEN n ELSE s[i - 1]]
Del(s, k) == [i \in 1..(Len(s) - 1) |-> IF i < k THEN s[i] ELSE s[i + 1]]

LEMMA LeastNat ==
    ASSUME NEW S \in SUBSET Nat, S # {}
    PROVE  \E m \in S : \A k \in S : m <= k
<1> DEFINE R == {ss \in Nat \X Nat : ss[1] < ss[2]}
<1>1. IsWellFoundedOn(R, Nat)
  BY NatLessThanWellFounded, Zenon DEF OpToRel
<1> HIDE DEF R
<1>2. PICK m \in S : \A k \in S : ~(<<k, m>> \in R)
  BY <1>1, WFMin, Zenon
<1>3. \A k \in S : ~(k < m)
  BY <1>2 DEF R
<1> QED BY <1>3

(* There are no more places in a sequence without repetition than nodes.   *)
LEMMA ShortChain ==
    ASSUME NEW s \in Seq(Node), \A i, j \in 1..Len(s) : s[i] = s[j] => i = j
    PROVE  Len(s) \in Nat /\ Cardinality(Node) \in Nat /\ Len(s) <= Cardinality(Node)
<1>1. Len(s) \in Nat /\ s \in [1..Len(s) -> Node]
  OBVIOUS
<1>2. IsFiniteSet(1..Len(s)) /\ Cardinality(1..Len(s)) = Len(s)
  <2>1. 1 \in Int /\ Len(s) \in Int
    BY <1>1
  <2>2. /\ IsFiniteSet(1..Len(s))
        /\ Cardinality(1..Len(s)) = IF 1 > Len(s) THEN 0 ELSE Len(s) - 1 + 1
    BY <2>1, FS_Interval, Zenon
  <2> QED BY <1>1, <2>2
<1>3. s \in Injection(1..Len(s), Node)
  BY <1>1 DEF Injection, IsInjective
<1>4. Cardinality(1..Len(s)) <= Cardinality(Node)
  BY <1>2, <1>3, NodeAssumption, FS_Injection
<1>5. Cardinality(Node) \in Nat
  BY NodeAssumption, FS_CardinalityType
<1> QED BY <1>1, <1>2, <1>4, <1>5

(* A walk along links that follow a sequence of nodes is that sequence.    *)
LEMMA WalkIs ==
    ASSUME NEW m, NEW link, NEW s \in Seq(Node),
           \A i, j \in 1..Len(s) : s[i] = s[j] => i = j,
           \A i \in 1..Len(s) : link[s[i]] = At(s, i + 1)
    PROVE  Walk(m, At(s, 1), link) = s
<1> DEFINE start == At(s, 1)
           Bound == Cardinality(Node) + 1
           at == CHOOSE f : f = [k \in 1..Bound |->
                     IF k = 1 THEN start ELSE IF f[k - 1] = NULL THEN NULL ELSE link[f[k - 1]]]
           Ends == {k \in 1..Bound : at[k] = NULL}
           Stop == IF Ends = {} THEN Bound + 1
                   ELSE CHOOSE k \in Ends : \A j \in Ends : k <= j
           N == Len(s)
           g == [k \in 1..Bound |-> At(s, k)]
<1>1. N \in Nat /\ Bound \in Nat /\ N < Bound
  BY ShortChain
<1>2. \A k \in 1..N : s[k] \in Node /\ At(s, k) = s[k] /\ At(s, k) # NULL
  BY DEF At
<1>3. \A k \in Nat : k > N => At(s, k) = NULL
  BY <1>1 DEF At
<1> HIDE DEF Bound, N
<1>4. \A k \in 2..Bound : At(s, k) = IF At(s, k - 1) = NULL THEN NULL ELSE link[At(s, k - 1)]
  <2> SUFFICES ASSUME NEW k \in 2..Bound
               PROVE  At(s, k) = IF At(s, k - 1) = NULL THEN NULL ELSE link[At(s, k - 1)]
    OBVIOUS
  <2>1. CASE k - 1 \in 1..N
    <3>1. link[s[k - 1]] = At(s, (k - 1) + 1) /\ (k - 1) + 1 = k
      BY <1>1, <2>1 DEF N
    <3> QED BY <1>2, <2>1, <3>1
  <2>2. CASE k - 1 \notin 1..N
    <3>1. k - 1 \in Nat /\ k - 1 > N /\ k \in Nat /\ k > N
      BY <1>1, <2>2
    <3> QED BY <1>3, <3>1
  <2> QED BY <2>1, <2>2
<1>5. g = [k \in 1..Bound |->
              IF k = 1 THEN start ELSE IF g[k - 1] = NULL THEN NULL ELSE link[g[k - 1]]]
  <2>1. \A k \in 1..Bound : g[k] = At(s, k)
    OBVIOUS
  <2>2. \A k \in 1..Bound : k # 1 => k \in 2..Bound /\ k - 1 \in 1..Bound
    BY <1>1
  <2>3. ASSUME NEW k \in 1..Bound
        PROVE  g[k] = IF k = 1 THEN start ELSE IF g[k - 1] = NULL THEN NULL ELSE link[g[k - 1]]
    BY <1>4, <2>1, <2>2
  <2> HIDE DEF start
  <2> QED BY <2>3
<1> HIDE DEF g
<1>6. at = [k \in 1..Bound |->
              IF k = 1 THEN start ELSE IF at[k - 1] = NULL THEN NULL ELSE link[at[k - 1]]]
  BY <1>5, Zenon
<1> HIDE DEF at
<1>7. \A k \in 1..Bound :
          at[k] = IF k = 1 THEN start ELSE IF at[k - 1] = NULL THEN NULL ELSE link[at[k - 1]]
  BY <1>6, Zenon
<1>8. \A k \in 1..Bound : at[k] = At(s, k)
  <2> DEFINE W == {k \in 1..Bound : at[k] # At(s, k)}
  <2> SUFFICES ASSUME W # {} PROVE FALSE
    OBVIOUS
  <2>1. W \in SUBSET Nat
    BY <1>1
  <2>2. PICK k \in W : \A j \in W : k <= j
    BY <2>1, LeastNat
  <2>3. k # 1
    BY <1>7
  <2>4. k \in 2..Bound /\ k - 1 \in 1..Bound /\ ~(k <= k - 1)
    BY <1>1, <2>3
  <2>5. at[k - 1] = At(s, k - 1)
    BY <2>2, <2>4
  <2>6. at[k] = At(s, k)
    BY <1>4, <1>7, <2>3, <2>4, <2>5
  <2> QED BY <2>6
<1>9. Ends = {k \in 1..Bound : k > N}
  BY <1>1, <1>2, <1>3, <1>8
<1>10. Ends # {} /\ N + 1 \in Ends /\ \A j \in Ends : N + 1 <= j
  BY <1>1, <1>9
<1>11. Stop = N + 1
  <2>1. \A k \in Ends : (\A j \in Ends : k <= j) => k = N + 1
    BY <1>1, <1>9, <1>10
  <2> HIDE DEF Ends
  <2>2. (CHOOSE k \in Ends : \A j \in Ends : k <= j) = N + 1
    BY <1>10, <2>1
  <2> QED BY <1>10, <2>2
<1>12. Walk(m, start, link) = [k \in 1..(Stop - 1) |-> at[k]]
  BY DEF Walk, at, Bound
<1> HIDE DEF Stop, Ends
<1>13. [k \in 1..(Stop - 1) |-> at[k]] = [k \in 1..N |-> s[k]]
  <2>1. 1..(Stop - 1) = 1..N /\ 1..N \subseteq 1..Bound
    BY <1>1, <1>11
  <2> QED BY <1>2, <1>8, <2>1
<1>14. s = [k \in 1..N |-> s[k]]
  BY DEF N
<1> QED BY <1>12, <1>13, <1>14

LEMMA ForwardIs ==
    ASSUME NEW m, NEW l, NEW s, Chain(m, l, s)
    PROVE  Forward(m, l) = s
<1>1. s \in Seq(Node) /\ (\A i, j \in 1..Len(s) : s[i] = s[j] => i = j)
  BY DEF Chain
<1>2. \A i \in 1..Len(s) : m.next[s[i]] = At(s, i + 1)
  BY DEF Chain
<1>3. Walk(m, At(s, 1), m.next) = s
  BY <1>1, <1>2, WalkIs
<1> QED BY <1>3 DEF Chain, Forward

LEMMA BackwardIs ==
    ASSUME NEW m, NEW l, NEW s, Chain(m, l, s)
    PROVE  Backward(m, l) = [i \in 1..Len(s) |-> s[Len(s) + 1 - i]]
<1> DEFINE t == [i \in 1..Len(s) |-> s[Len(s) + 1 - i]]
<1>1. s \in Seq(Node) /\ Len(s) \in Nat
  BY DEF Chain
<1>2. t \in Seq(Node) /\ Len(t) = Len(s)
      /\ \A i \in 1..Len(s) : t[i] = s[Len(s) + 1 - i]
  BY <1>1
<1> HIDE DEF t
<1>3. \A i \in 1..Len(s) : Len(s) + 1 - i \in 1..Len(s)
  BY <1>1
<1>4. \A i, j \in 1..Len(t) : t[i] = t[j] => i = j
  <2> SUFFICES ASSUME NEW i \in 1..Len(s), NEW j \in 1..Len(s), t[i] = t[j]
               PROVE  i = j
    BY <1>2
  <2>1. s[Len(s) + 1 - i] = s[Len(s) + 1 - j]
    BY <1>2
  <2> DEFINE a == Len(s) + 1 - i
             b == Len(s) + 1 - j
  <2>2. a = b
    <3>1. s[a] = s[b] /\ a \in 1..Len(s) /\ b \in 1..Len(s)
      BY <1>3, <2>1
    <3>2. \A x, y \in 1..Len(s) : s[x] = s[y] => x = y
      BY DEF Chain
    <3> HIDE DEF a, b
    <3> QED BY <3>1, <3>2
  <2> QED BY <1>1, <2>2
<1>5. \A i \in 0..(Len(s) + 1) : At(t, i) = At(s, Len(s) + 1 - i)
  <2> SUFFICES ASSUME NEW i \in 0..(Len(s) + 1) PROVE At(t, i) = At(s, Len(s) + 1 - i)
    OBVIOUS
  <2>1. i \in 1..Len(s) <=> Len(s) + 1 - i \in 1..Len(s)
    BY <1>1
  <2> QED BY <1>2, <2>1 DEF At
<1>6. \A i \in 1..Len(t) : m.prev[t[i]] = At(t, i + 1)
  <2> SUFFICES ASSUME NEW i \in 1..Len(s) PROVE m.prev[t[i]] = At(t, i + 1)
    BY <1>2
  <2> DEFINE k == Len(s) + 1 - i
  <2>1. m.prev[s[k]] = At(s, k - 1)
    BY <1>3 DEF Chain
  <2>2. i + 1 \in 0..(Len(s) + 1) /\ Len(s) + 1 - (i + 1) = k - 1
    BY <1>1
  <2> QED BY <1>2, <1>5, <2>1, <2>2
<1>7. Walk(m, At(t, 1), m.prev) = t
  BY <1>2, <1>4, <1>6, WalkIs
<1>8. m.tail[l] = At(t, 1)
  <2>1. 1 \in 0..(Len(s) + 1) /\ Len(s) + 1 - 1 = Len(s)
    BY <1>1
  <2> QED BY <1>5, <2>1 DEF Chain
<1> QED BY <1>7, <1>8 DEF Backward, t

(* A node put between the neighbours at place k of the sequence.           *)
LEMMA LinkedChain ==
    ASSUME NEW m, NEW r, NEW l \in List, NEW n \in Node, NEW s, NEW pri,
           m \in MemType, Chain(m, l, s), m.list[n] = NULL, NEW k \in 1..(Len(s) + 1),
           Linked(m, r, l, n, At(s, k - 1), At(s, k), pri)
    PROVE  Chain(r, l, Ins(s, k, n))
<1> DEFINE t == Ins(s, k, n)
           N == Len(s)
           p == At(s, k - 1)
           q == At(s, k)
<1>1. s \in Seq(Node) /\ N \in Nat /\ k \in Nat /\ k >= 1 /\ k <= N + 1
  BY DEF Chain
<1>2. t \in Seq(Node) /\ Len(t) = N + 1
  <2>1. \A i \in 1..(N + 1) : (i < k => i \in 1..N) /\ (i > k => i - 1 \in 1..N)
    BY <1>1
  <2>2. \A i \in 1..(N + 1) : t[i] \in Node
    BY <1>1, <2>1 DEF Ins
  <2>3. t = [i \in 1..(N + 1) |-> t[i]] /\ N + 1 \in Nat
    BY <1>1 DEF Ins
  <2> HIDE DEF t
  <2> QED BY <2>2, <2>3
<1>3. \A i \in 1..(N + 1) : t[i] = IF i < k THEN s[i] ELSE IF i = k THEN n ELSE s[i - 1]
  BY DEF Ins
<1> HIDE DEF t
<1>4. \A i \in 1..N : s[i] \in Node /\ m.list[s[i]] = l /\ s[i] # n /\ s[i] # NULL
  BY <1>1 DEF Chain
<1>5. \A i, j \in 1..N : s[i] = s[j] => i = j
  BY DEF Chain
<1>6. \A i \in 0..(N + 2) :
          At(t, i) = IF i < k THEN At(s, i) ELSE IF i = k THEN n ELSE At(s, i - 1)
  <2> SUFFICES ASSUME NEW i \in 0..(N + 2)
               PROVE  At(t, i) = IF i < k THEN At(s, i) ELSE IF i = k THEN n ELSE At(s, i - 1)
    OBVIOUS
  <2>1. CASE i < k
    <3>1. i \in 1..(N + 1) <=> i \in 1..N
      BY <1>1, <2>1
    <3> QED BY <1>1, <1>2, <1>3, <2>1, <3>1 DEF At
  <2>2. CASE i = k
    BY <1>1, <1>2, <1>3, <2>2 DEF At
  <2>3. CASE i > k
    <3>1. i \in 1..(N + 1) <=> i - 1 \in 1..N
      BY <1>1, <2>3
    <3> QED BY <1>1, <1>2, <1>3, <2>3, <3>1 DEF At
  <2> QED BY <1>1, <2>1, <2>2, <2>3
<1>7. \A i, j \in 1..Len(t) : t[i] = t[j] => i = j
  <2> SUFFICES ASSUME NEW i \in 1..(N + 1), NEW j \in 1..(N + 1), t[i] = t[j]
               PROVE  i = j
    BY <1>2
  <2>1. \A x \in 1..(N + 1) : (x < k => x \in 1..N) /\ (x > k => x - 1 \in 1..N)
    BY <1>1
  <2> QED BY <1>1, <1>3, <1>4, <1>5, <2>1
<1>8. \A x \in Node : r.list[x] = l <=> \E i \in 1..Len(t) : t[i] = x
  <2> SUFFICES ASSUME NEW x \in Node PROVE r.list[x] = l <=> \E i \in 1..(N + 1) : t[i] = x
    BY <1>2
  <2>1. r.list[x] = IF x = n THEN l ELSE m.list[x]
    BY DEF Linked, MemType
  <2>2. CASE x = n
    BY <1>1, <1>3, <2>1, <2>2
  <2>3. CASE x # n
    <3>1. m.list[x] = l <=> \E i \in 1..N : s[i] = x
      BY DEF Chain
    <3>2. ASSUME NEW i \in 1..N, s[i] = x PROVE \E j \in 1..(N + 1) : t[j] = x
      <4>1. CASE i < k
        BY <1>1, <1>3, <3>2, <4>1
      <4>2. CASE i >= k
        <5>1. i + 1 \in 1..(N + 1) /\ i + 1 > k /\ (i + 1) - 1 = i
          BY <1>1, <4>2
        <5>2. t[i + 1] = s[i]
          BY <1>1, <1>3, <5>1
        <5> QED BY <3>2, <5>1, <5>2
      <4> QED BY <1>1, <4>1, <4>2
    <3>3. ASSUME NEW j \in 1..(N + 1), t[j] = x PROVE \E i \in 1..N : s[i] = x
      <4>1. CASE j < k
        BY <1>1, <1>3, <3>3, <4>1
      <4>2. CASE j > k
        <5>1. j - 1 \in 1..N
          BY <1>1, <4>2
        <5>2. t[j] = s[j - 1]
          BY <1>1, <1>3, <4>2
        <5> QED BY <3>3, <5>1, <5>2
      <4>3. j # k
        BY <1>3, <2>3, <3>3
      <4> QED BY <1>1, <4>1, <4>2, <4>3
    <3> QED BY <2>1, <2>3, <3>1, <3>2, <3>3
  <2> QED BY <2>2, <2>3
<1>9. (p = NULL <=> k = 1) /\ (q = NULL <=> k = N + 1)
  <2>1. (k - 1 \in 1..N <=> k # 1) /\ (k \in 1..N <=> k # N + 1)
    BY <1>1
  <2> QED BY <1>4, <2>1 DEF At
<1>10. r.head[l] = At(t, 1)
  <2>1. r.head[l] = IF k = 1 THEN n ELSE At(s, 1)
    BY <1>9 DEF Linked, Chain, MemType
  <2>2. 1 \in 0..(N + 2) /\ (k # 1 => 1 < k)
    BY <1>1
  <2> QED BY <1>1, <1>6, <2>1, <2>2
<1>11. r.tail[l] = At(t, Len(t))
  <2>1. r.tail[l] = IF k = N + 1 THEN n ELSE At(s, N)
    BY <1>9 DEF Linked, Chain, MemType
  <2>2. N + 1 \in 0..(N + 2) /\ (k # N + 1 => ~(N + 1 < k)) /\ (N + 1) - 1 = N
    BY <1>1
  <2> QED BY <1>1, <1>2, <1>6, <2>1, <2>2
<1>12. ASSUME NEW i \in 1..(N + 1)
       PROVE  r.next[t[i]] = At(t, i + 1) /\ r.prev[t[i]] = At(t, i - 1)
  <2>0. \A x \in Node :
            /\ r.next[x] = IF x = n THEN q ELSE IF x = p THEN n ELSE m.next[x]
            /\ r.prev[x] = IF x = n THEN p ELSE IF x = q THEN n ELSE m.prev[x]
    BY DEF Linked
  <2>1. \A j \in 1..N : m.next[s[j]] = At(s, j + 1) /\ m.prev[s[j]] = At(s, j - 1)
    BY DEF Chain
  <2>2. \A j \in 1..N : (s[j] = p <=> j = k - 1) /\ (s[j] = q <=> j = k)
    BY <1>1, <1>4, <1>5 DEF At
  <2>3. i + 1 \in 0..(N + 2) /\ i - 1 \in 0..(N + 2)
    BY <1>1
  <2> HIDE DEF p, q
  <2>4. CASE i = k
    <3>1. t[i] = n /\ At(t, i + 1) = At(s, k) /\ At(t, i - 1) = At(s, k - 1)
      BY <1>1, <1>3, <1>6, <2>3, <2>4
    <3> QED BY <2>0, <3>1 DEF p, q
  <2>5. CASE i < k
    <3>1. i \in 1..N /\ t[i] = s[i] /\ t[i] \in Node /\ t[i] # n
      BY <1>1, <1>3, <1>4, <2>5
    <3>2. At(t, i - 1) = At(s, i - 1)
      BY <1>1, <1>6, <2>3, <2>5
    <3>3. At(t, i + 1) = IF i = k - 1 THEN n ELSE At(s, i + 1)
      BY <1>1, <1>6, <2>3, <2>5
    <3>4. i # k
      BY <1>1, <2>5
    <3>5. /\ (s[i] = p <=> i = k - 1) /\ (s[i] = q <=> i = k)
          /\ m.next[s[i]] = At(s, i + 1) /\ m.prev[s[i]] = At(s, i - 1)
      BY <2>1, <2>2, <3>1
    <3>6. /\ r.next[s[i]] = IF s[i] = p THEN n ELSE m.next[s[i]]
          /\ r.prev[s[i]] = IF s[i] = q THEN n ELSE m.prev[s[i]]
      BY <2>0, <3>1
    <3> QED BY <3>1, <3>2, <3>3, <3>4, <3>5, <3>6
  <2>6. CASE i > k
    <3> DEFINE j == i - 1
    <3>1. j \in 1..N /\ j >= k /\ j # k - 1 /\ i - 1 = j /\ j + 1 = i
      BY <1>1, <2>6
    <3>2. t[i] = s[j] /\ t[i] \in Node /\ t[i] # n
      BY <1>1, <1>3, <1>4, <2>6, <3>1
    <3>3. At(t, i + 1) = At(s, j + 1)
      BY <1>1, <1>6, <2>3, <2>6
    <3>4. At(t, i - 1) = IF j = k THEN n ELSE At(s, j - 1)
      BY <1>1, <1>6, <2>3, <2>6
    <3> HIDE DEF j
    <3> QED BY <2>0, <2>1, <2>2, <3>1, <3>2, <3>3, <3>4
  <2> QED BY <1>1, <2>4, <2>5, <2>6
<1>13. \A i \in 1..Len(t) : r.next[t[i]] = At(t, i + 1) /\ r.prev[t[i]] = At(t, i - 1)
  BY <1>2, <1>12
<1> QED BY <1>2, <1>7, <1>8, <1>10, <1>11, <1>13 DEF Chain, t

(* The node at place k taken out of the sequence.                          *)
LEMMA CutChain ==
    ASSUME NEW m, NEW r, NEW l \in List, NEW n \in Node, NEW s,
           m \in MemType, Chain(m, l, s), NEW k \in 1..Len(s), s[k] = n,
           Cut(m, r, l, n, At(s, k - 1), At(s, k + 1))
    PROVE  Chain(r, l, Del(s, k))
<1> DEFINE t == Del(s, k)
           N == Len(s)
           p == At(s, k - 1)
           q == At(s, k + 1)
<1>1. s \in Seq(Node) /\ N \in Nat /\ k \in Nat /\ k >= 1 /\ k <= N
  BY DEF Chain
<1>2. t \in Seq(Node) /\ Len(t) = N - 1
  <2>1. \A i \in 1..(N - 1) : i \in 1..N /\ i + 1 \in 1..N
    BY <1>1
  <2>2. \A i \in 1..(N - 1) : t[i] \in Node
    BY <1>1, <2>1 DEF Del
  <2>3. t = [i \in 1..(N - 1) |-> t[i]] /\ N - 1 \in Nat
    BY <1>1 DEF Del
  <2> HIDE DEF t
  <2> QED BY <2>2, <2>3
<1>3. \A i \in 1..(N - 1) : t[i] = IF i < k THEN s[i] ELSE s[i + 1]
  BY DEF Del
<1> HIDE DEF t
<1>4. \A i \in 1..N : s[i] \in Node /\ m.list[s[i]] = l /\ s[i] # NULL
  BY <1>1 DEF Chain
<1>5. \A i, j \in 1..N : s[i] = s[j] => i = j
  BY DEF Chain
<1>6. \A i \in 0..N : At(t, i) = IF i < k THEN At(s, i) ELSE At(s, i + 1)
  <2> SUFFICES ASSUME NEW i \in 0..N
               PROVE  At(t, i) = IF i < k THEN At(s, i) ELSE At(s, i + 1)
    OBVIOUS
  <2>1. CASE i < k
    <3>1. i \in 1..(N - 1) <=> i \in 1..N
      BY <1>1, <2>1
    <3> QED BY <1>1, <1>2, <1>3, <2>1, <3>1 DEF At
  <2>2. CASE i >= k
    <3>1. i \in 1..(N - 1) <=> i + 1 \in 1..N
      BY <1>1, <2>2
    <3> QED BY <1>1, <1>2, <1>3, <2>2, <3>1 DEF At
  <2> QED BY <1>1, <2>1, <2>2
<1>7. \A i, j \in 1..Len(t) : t[i] = t[j] => i = j
  <2> SUFFICES ASSUME NEW i \in 1..(N - 1), NEW j \in 1..(N - 1), t[i] = t[j]
               PROVE  i = j
    BY <1>2
  <2> DEFINE f(x) == IF x < k THEN x ELSE x + 1
  <2>1. f(i) \in 1..N /\ f(j) \in 1..N
    BY <1>1
  <2>2. t[i] = s[f(i)] /\ t[j] = s[f(j)]
    BY <1>3
  <2>3. f(i) = f(j)
    <3> HIDE DEF f
    <3> QED BY <1>5, <2>1, <2>2
  <2> QED BY <1>1, <2>3
<1>8. \A x \in Node : r.list[x] = l <=> \E i \in 1..Len(t) : t[i] = x
  <2> SUFFICES ASSUME NEW x \in Node PROVE r.list[x] = l <=> \E i \in 1..(N - 1) : t[i] = x
    BY <1>2
  <2>1. r.list[x] = IF x = n THEN NULL ELSE m.list[x]
    BY DEF Cut, MemType
  <2>2. ASSUME NEW j \in 1..(N - 1), t[j] = x PROVE x # n /\ \E i \in 1..N : s[i] = x
    <3>1. CASE j < k
      <4>1. j \in 1..N /\ j # k /\ t[j] = s[j]
        BY <1>1, <1>3, <3>1
      <4> QED BY <1>5, <2>2, <4>1
    <3>2. CASE j >= k
      <4>1. j + 1 \in 1..N /\ j + 1 # k /\ t[j] = s[j + 1]
        BY <1>1, <1>3, <3>2
      <4> QED BY <1>5, <2>2, <4>1
    <3> QED BY <1>1, <3>1, <3>2
  <2>3. ASSUME NEW i \in 1..N, s[i] = x, x # n PROVE \E j \in 1..(N - 1) : t[j] = x
    <3>1. CASE i < k
      <4>1. i \in 1..(N - 1) /\ t[i] = s[i]
        BY <1>1, <1>3, <3>1
      <4> QED BY <2>3, <4>1
    <3>2. CASE i > k
      <4>1. i - 1 \in 1..(N - 1) /\ ~(i - 1 < k) /\ (i - 1) + 1 = i
        BY <1>1, <3>2
      <4>2. t[i - 1] = s[i]
        BY <1>3, <4>1
      <4> QED BY <2>3, <4>1, <4>2
    <3>3. i # k
      BY <2>3
    <3> QED BY <1>1, <3>1, <3>2, <3>3
  <2>4. m.list[x] = l <=> \E i \in 1..N : s[i] = x
    BY DEF Chain
  <2> QED BY <2>1, <2>2, <2>3, <2>4
<1>9. (p = NULL <=> k = 1) /\ (q = NULL <=> k = N)
  <2>1. (k - 1 \in 1..N <=> k # 1) /\ (k + 1 \in 1..N <=> k # N)
    BY <1>1
  <2> QED BY <1>4, <2>1 DEF At
<1>10. r.head[l] = At(t, 1)
  <2>1. r.head[l] = IF k = 1 THEN At(s, k + 1) ELSE At(s, 1)
    BY <1>9 DEF Cut, Chain, MemType
  <2>2. 1 \in 0..N /\ (k # 1 => 1 < k)
    BY <1>1
  <2> QED BY <1>1, <1>6, <2>1, <2>2
<1>11. r.tail[l] = At(t, Len(t))
  <2>1. r.tail[l] = IF k = N THEN At(s, k - 1) ELSE At(s, N)
    BY <1>9 DEF Cut, Chain, MemType
  <2>2. N - 1 \in 0..N /\ (k # N => ~(N - 1 < k)) /\ (N - 1) + 1 = N /\ N - 1 < N
    BY <1>1
  <2> QED BY <1>1, <1>2, <1>6, <2>1, <2>2
<1>12. ASSUME NEW i \in 1..(N - 1)
       PROVE  r.next[t[i]] = At(t, i + 1) /\ r.prev[t[i]] = At(t, i - 1)
  <2>0. \A x \in Node :
            /\ r.next[x] = IF x = n THEN NULL ELSE IF x = p THEN q ELSE m.next[x]
            /\ r.prev[x] = IF x = n THEN NULL ELSE IF x = q THEN p ELSE m.prev[x]
    BY DEF Cut
  <2>1. \A j \in 1..N : m.next[s[j]] = At(s, j + 1) /\ m.prev[s[j]] = At(s, j - 1)
    BY DEF Chain
  <2>2. \A j \in 1..N :
            (s[j] = p <=> j = k - 1) /\ (s[j] = q <=> j = k + 1) /\ (s[j] = n <=> j = k)
    BY <1>1, <1>4, <1>5 DEF At
  <2>3. i + 1 \in 0..N /\ i - 1 \in 0..N
    BY <1>1
  <2> HIDE DEF p, q
  <2>5. CASE i < k
    <3>1. i \in 1..N /\ t[i] = s[i] /\ t[i] \in Node /\ i # k /\ i # k + 1
      BY <1>1, <1>3, <1>4, <2>5
    <3>2. At(t, i - 1) = At(s, i - 1)
      BY <1>1, <1>6, <2>3, <2>5
    <3>3. At(t, i + 1) = IF i = k - 1 THEN q ELSE At(s, i + 1)
      BY <1>1, <1>6, <2>3, <2>5 DEF q
    <3>5. /\ (s[i] = p <=> i = k - 1) /\ s[i] # q /\ s[i] # n
          /\ m.next[s[i]] = At(s, i + 1) /\ m.prev[s[i]] = At(s, i - 1)
      BY <2>1, <2>2, <3>1
    <3>6. /\ r.next[s[i]] = IF s[i] = p THEN q ELSE m.next[s[i]]
          /\ r.prev[s[i]] = m.prev[s[i]]
      BY <2>0, <3>1, <3>5
    <3> QED BY <3>1, <3>2, <3>3, <3>5, <3>6
  <2>6. CASE i >= k
    <3> DEFINE j == i + 1
    <3>1. j \in 1..N /\ j # k /\ j # k - 1 /\ j - 1 = i
      BY <1>1, <2>6
    <3>2. t[i] = s[j] /\ t[i] \in Node
      BY <1>1, <1>3, <1>4, <2>6, <3>1
    <3>3. At(t, i + 1) = At(s, j + 1)
      BY <1>1, <1>6, <2>3, <2>6
    <3>4. At(t, i - 1) = IF j = k + 1 THEN p ELSE At(s, j - 1)
      BY <1>1, <1>6, <2>3, <2>6 DEF p
    <3> HIDE DEF j
    <3>5. /\ (s[j] = q <=> j = k + 1) /\ s[j] # p /\ s[j] # n
          /\ m.next[s[j]] = At(s, j + 1) /\ m.prev[s[j]] = At(s, j - 1)
      BY <2>1, <2>2, <3>1
    <3>6. /\ r.next[s[j]] = m.next[s[j]]
          /\ r.prev[s[j]] = IF s[j] = q THEN p ELSE m.prev[s[j]]
      BY <2>0, <3>2, <3>5
    <3> QED BY <3>2, <3>3, <3>4, <3>5, <3>6
  <2> QED BY <1>1, <2>5, <2>6
<1>13. \A i \in 1..Len(t) : r.next[t[i]] = At(t, i + 1) /\ r.prev[t[i]] = At(t, i - 1)
  BY <1>2, <1>12
<1> QED BY <1>2, <1>7, <1>8, <1>10, <1>11, <1>13 DEF Chain, t

(* A list whose ends and nodes keep their fields keeps its sequence.       *)
LEMMA ChainKept ==
    ASSUME NEW m, NEW r, NEW l \in List, NEW s, Chain(m, l, s),
           r.head[l] = m.head[l], r.tail[l] = m.tail[l],
           \A x \in Node : r.list[x] = l <=> m.list[x] = l,
           \A x \in Node : m.list[x] = l => r.next[x] = m.next[x] /\ r.prev[x] = m.prev[x]
    PROVE  Chain(r, l, s)
<1>1. \A i \in 1..Len(s) : s[i] \in Node /\ m.list[s[i]] = l
  BY DEF Chain
<1> QED BY <1>1 DEF Chain

Shape(m) == \A l \in List : Chain(m, l, Forward(m, l))

(* The sequences of all lists after a node has been put on one of them ... *)
LEMMA LinkedShape ==
    ASSUME NEW m, NEW r, NEW l \in List, NEW n \in Node, NEW pri,
           m \in MemType, Shape(m), m.list[n] = NULL,
           NEW k \in 1..(Len(Forward(m, l)) + 1),
           Linked(m, r, l, n, At(Forward(m, l), k - 1), At(Forward(m, l), k), pri)
    PROVE  /\ Shape(r)
           /\ Forward(r, l) = Ins(Forward(m, l), k, n)
           /\ \A o \in List \ {l} : Forward(r, o) = Forward(m, o)
<1> DEFINE s == Forward(m, l)
           p == At(s, k - 1)
           q == At(s, k)
<1>1. Chain(m, l, s)
  BY DEF Shape
<1> HIDE DEF s
<1>2. Chain(r, l, Ins(s, k, n))
  BY <1>1, LinkedChain DEF s
<1>3. \A x \in Node : (x = p \/ x = q) => m.list[x] = l
  BY <1>1 DEF Chain, At
<1>4. ASSUME NEW o \in List \ {l} PROVE Chain(r, o, Forward(m, o))
  <2>1. Chain(m, o, Forward(m, o))
    BY DEF Shape
  <2>2. r.head[o] = m.head[o] /\ r.tail[o] = m.tail[o]
    BY DEF Linked, MemType
  <2>3. \A x \in Node : r.list[x] = o <=> m.list[x] = o
    BY DEF Linked, MemType
  <2>4. ASSUME NEW x \in Node, m.list[x] = o
        PROVE  r.next[x] = m.next[x] /\ r.prev[x] = m.prev[x]
    <3>1. x # n /\ x # p /\ x # q
      BY <1>3, <2>4
    <3>2. /\ r.next[x] = IF x = n THEN q ELSE IF x = p THEN n ELSE m.next[x]
          /\ r.prev[x] = IF x = n THEN p ELSE IF x = q THEN n ELSE m.prev[x]
      BY DEF Linked, s
    <3> QED BY <3>1, <3>2
  <2> QED BY <2>1, <2>2, <2>3, <2>4, ChainKept
<1>5. Forward(r, l) = Ins(s, k, n)
  BY <1>2, ForwardIs
<1>6. \A o \in List \ {l} : Forward(r, o) = Forward(m, o)
  BY <1>4, ForwardIs
<1>7. Shape(r)
  BY <1>2, <1>4, <1>5, <1>6 DEF Shape
<1> QED BY <1>5, <1>6, <1>7 DEF s

(* ... and after one has been taken off.                                   *)
LEMMA CutShape ==
    ASSUME NEW m, NEW r, NEW l \in List, NEW n \in Node,
           m \in MemType, Shape(m),
           NEW k \in 1..Len(Forward(m, l)), Forward(m, l)[k] = n,
           Cut(m, r, l, n, At(Forward(m, l), k - 1), At(Forward(m, l), k + 1))
    PROVE  /\ Shape(r)
           /\ Forward(r, l) = Del(Forward(m, l), k)
           /\ \A o \in List \ {l} : Forward(r, o) = Forward(m, o)
<1> DEFINE s == Forward(m, l)
           p == At(s, k - 1)
           q == At(s, k + 1)
<1>1. Chain(m, l, s)
  BY DEF Shape
<1> HIDE DEF s
<1>2. Chain(r, l, Del(s, k))
  BY <1>1, CutChain DEF s
<1>3. \A x \in Node : (x = p \/ x = q \/ x = n) => m.list[x] = l
  BY <1>1 DEF Chain, At, s
<1>4. ASSUME NEW o \in List \ {l} PROVE Chain(r, o, Forward(m, o))
  <2>1. Chain(m, o, Forward(m, o))
    BY DEF Shape
  <2>2. r.head[o] = m.head[o] /\ r.tail[o] = m.tail[o]
    BY DEF Cut, MemType
  <2>3. \A x \in Node : r.list[x] = o <=> m.list[x] = o
    BY <1>3 DEF Cut, MemType
  <2>4. ASSUME NEW x \in Node, m.list[x] = o
        PROVE  r.next[x] = m.next[x] /\ r.prev[x] = m.prev[x]
    <3>1. x # n /\ x # p /\ x # q
      BY <1>3, <2>4
    <3>2. /\ r.next[x] = IF x = n THEN NULL ELSE IF x = p THEN q ELSE m.next[x]
          /\ r.prev[x] = IF x = n THEN NULL ELSE IF x = q THEN p ELSE m.prev[x]
      BY DEF Cut, s
    <3> QED BY <3>1, <3>2
  <2> QED BY <2>1, <2>2, <2>3, <2>4, ChainKept
<1>5. Forward(r, l) = Del(s, k)
  BY <1>2, ForwardIs
<1>6. \A o \in List \ {l} : Forward(r, o) = Forward(m, o)
  BY <1>4, ForwardIs
<1>7. Shape(r)
  BY <1>2, <1>4, <1>5, <1>6 DEF Shape
<1> QED BY <1>5, <1>6, <1>7 DEF s

(* What a call does to the sequences: list l becomes t, the others stay.   *)
Becomes(m, r, l, t) ==
    /\ Shape(r)
    /\ Forward(r, l) = t
    /\ \A o \in List \ {l} : Forward(r, o) = Forward(m, o)

LEMMA PushTailShape ==
    ASSUME NEW m, Good(m), Shape(m), NEW l \in List, NEW n \in Node, m.list[n] = NULL
    PROVE  Becomes(m, list_push_tail(m, l, n), l,
                   Ins(Forward(m, l), Len(Forward(m, l)) + 1, n))
<1> DEFINE s == Forward(m, l)
           r == list_push_tail(m, l, n)
<1>1. Chain(m, l, s)
  BY DEF Shape
<1> HIDE DEF s
<1>2. Len(s) \in Nat /\ m.tail[l] = At(s, Len(s))
  BY <1>1 DEF Chain
<1>3. Linked(m, r, l, n, m.tail[l], NULL, 0)
  BY PushTailGood
<1> HIDE DEF r
<1>4. /\ Len(s) + 1 \in 1..(Len(s) + 1)
      /\ At(s, (Len(s) + 1) - 1) = m.tail[l] /\ At(s, Len(s) + 1) = NULL
  <2>1. (Len(s) + 1) - 1 = Len(s) /\ Len(s) + 1 \notin 1..Len(s)
    BY <1>2
  <2> QED BY <1>2, <2>1 DEF At
<1>5. m \in MemType
  BY DEF Good
<1>6. Linked(m, r, l, n, At(s, (Len(s) + 1) - 1), At(s, Len(s) + 1), 0)
  BY <1>3, <1>4
<1>7. Becomes(m, r, l, Ins(s, Len(s) + 1, n))
  BY <1>4, <1>5, <1>6, LinkedShape DEF s, Becomes
<1> QED BY <1>7 DEF s, r

LEMMA PushHeadShape ==
    ASSUME NEW m, Good(m), Shape(m), NEW l \in List, NEW n \in Node, m.list[n] = NULL
    PROVE  Becomes(m, list_push_head(m, l, n), l, Ins(Forward(m, l), 1, n))
<1> DEFINE s == Forward(m, l)
           r == list_push_head(m, l, n)
<1>1. Chain(m, l, s)
  BY DEF Shape
<1> HIDE DEF s
<1>2. Len(s) \in Nat /\ m.head[l] = At(s, 1)
  BY <1>1 DEF Chain
<1>3. Linked(m, r, l, n, NULL, m.head[l], 0)
  BY PushHeadGood
<1> HIDE DEF r
<1>4. 1 \in 1..(Len(s) + 1) /\ At(s, 1 - 1) = NULL
  <2>1. 1 - 1 \notin 1..Len(s)
    BY <1>2
  <2> QED BY <1>2, <2>1 DEF At
<1>5. m \in MemType
  BY DEF Good
<1>6. Linked(m, r, l, n, At(s, 1 - 1), At(s, 1), 0)
  BY <1>2, <1>3, <1>4
<1>7. Becomes(m, r, l, Ins(s, 1, n))
  BY <1>4, <1>5, <1>6, LinkedShape DEF s, Becomes
<1> QED BY <1>7 DEF s, r

LEMMA InsertBeforeShape ==
    ASSUME NEW m, Good(m), Shape(m), NEW l \in List, NEW n \in Node, m.list[n] = NULL,
           NEW pri \in Int, NEW k \in 1..Len(Forward(m, l))
    PROVE  /\ Becomes(m, InsertBefore(m, l, n, Forward(m, l)[k], pri), l,
                      Ins(Forward(m, l), k, n))
           /\ InsertBefore(m, l, n, Forward(m, l)[k], pri).priority =
                  [m.priority EXCEPT ![n] = pri]
<1> DEFINE s  == Forward(m, l)
           n0 == s[k]
           r  == InsertBefore(m, l, n, n0, pri)
<1>1. Chain(m, l, s)
  BY DEF Shape
<1> HIDE DEF s
<1>0. k \in 1..Len(s)
  BY DEF s
<1>2. /\ Len(s) \in Nat /\ n0 \in Node /\ m.list[n0] = l
      /\ m.prev[n0] = At(s, k - 1) /\ n0 = At(s, k)
  BY <1>0, <1>1 DEF Chain, At
<1>3. Linked(m, r, l, n, m.prev[n0], n0, pri)
  BY <1>2, InsertBeforeGood
<1> HIDE DEF r, n0
<1>4. k \in 1..(Len(s) + 1)
  BY <1>0, <1>2
<1>5. m \in MemType
  BY DEF Good
<1>6. Becomes(m, r, l, Ins(s, k, n))
  BY <1>2, <1>3, <1>4, <1>5, LinkedShape DEF s, Becomes
<1>7. r.priority = [m.priority EXCEPT ![n] = pri]
  BY <1>3 DEF Linked
<1> QED BY <1>6, <1>7 DEF s, r, n0

LEMMA PopHeadShape ==
    ASSUME NEW m, Good(m), Shape(m), NEW l \in List, m.head[l] # NULL
    PROVE  /\ Len(Forward(m, l)) >= 1 /\ m.head[l] = Forward(m, l)[1]
           /\ Becomes(m, list_pop_head(m, l), l, Del(Forward(m, l), 1))
           /\ list_pop_head(m, l).priority = m.priority
<1> DEFINE s == Forward(m, l)
           h == m.head[l]
           r == list_pop_head(m, l)
<1>1. Chain(m, l, s)
  BY DEF Shape
<1> HIDE DEF s
<1>2. /\ Len(s) \in Nat /\ 1 \in 1..Len(s) /\ h = s[1] /\ h \in Node
      /\ m.next[h] = At(s, 1 + 1)
  BY <1>1 DEF Chain, At
<1>3. Cut(m, r, l, h, NULL, m.next[h])
  BY PopHeadGood
<1> HIDE DEF r
<1>4. At(s, 1 - 1) = NULL
  <2>1. 1 - 1 \notin 1..Len(s)
    BY <1>2
  <2> QED BY <2>1 DEF At
<1>5. m \in MemType
  BY DEF Good
<1>6. Becomes(m, r, l, Del(s, 1))
  BY <1>2, <1>3, <1>4, <1>5, CutShape DEF s, Becomes
<1>7. r.priority = m.priority
  BY <1>3 DEF Cut
<1> QED BY <1>2, <1>6, <1>7 DEF s, r

LEMMA PopTailShape ==
    ASSUME NEW m, Good(m), Shape(m), NEW l \in List, m.tail[l] # NULL
    PROVE  LET s == Forward(m, l)
           IN  /\ Len(s) >= 1 /\ m.tail[l] = s[Len(s)]
               /\ Becomes(m, list_pop_tail(m, l), l, Del(s, Len(s)))
               /\ list_pop_tail(m, l).priority = m.priority
<1> DEFINE s == Forward(m, l)
           h == m.tail[l]
           r == list_pop_tail(m, l)
<1>1. Chain(m, l, s)
  BY DEF Shape
<1> HIDE DEF s
<1>2. /\ Len(s) \in Nat /\ Len(s) \in 1..Len(s) /\ h = s[Len(s)] /\ h \in Node
      /\ m.prev[h] = At(s, Len(s) - 1)
  BY <1>1 DEF Chain, At
<1>3. Cut(m, r, l, h, m.prev[h], NULL)
  BY PopTailGood
<1> HIDE DEF r
<1>4. At(s, Len(s) + 1) = NULL
  <2>1. Len(s) + 1 \notin 1..Len(s)
    BY <1>2
  <2> QED BY <2>1 DEF At
<1>5. m \in MemType
  BY DEF Good
<1>6. Becomes(m, r, l, Del(s, Len(s)))
  BY <1>2, <1>3, <1>4, <1>5, CutShape DEF s, Becomes
<1>7. r.priority = m.priority
  BY <1>3 DEF Cut
<1> QED BY <1>2, <1>6, <1>7 DEF s, r

LEMMA RemoveShape ==
    ASSUME NEW m, Good(m), Shape(m), NEW n \in Node, m.list[n] # NULL
    PROVE  LET l == m.list[n]
               s == Forward(m, l)
           IN  /\ l \in List
               /\ \E k \in 1..Len(s) :
                      s[k] = n /\ Becomes(m, list_remove(m, n), l, Del(s, k))
               /\ list_remove(m, n).priority = m.priority
<1> DEFINE l == m.list[n]
           s == Forward(m, l)
           r == list_remove(m, n)
<1>0. l \in List /\ m \in MemType
  BY DEF Good, MemType
<1>1. Chain(m, l, s)
  BY <1>0 DEF Shape
<1> HIDE DEF s
<1>2. PICK k \in 1..Len(s) : s[k] = n
  BY <1>1 DEF Chain
<1>3. m.next[n] = At(s, k + 1) /\ m.prev[n] = At(s, k - 1)
  BY <1>1, <1>2 DEF Chain
<1>4. Cut(m, r, l, n, m.prev[n], m.next[n])
  BY RemoveGood
<1> HIDE DEF r, l
<1>5. Becomes(m, r, l, Del(s, k))
  BY <1>0, <1>2, <1>3, <1>4, CutShape DEF s, Becomes
<1>6. r.priority = m.priority
  BY <1>4 DEF Cut
<1> QED BY <1>0, <1>2, <1>5, <1>6 DEF s, r, l
----------------------------------------------------------------------------
(* The scan of list_push_priority stands scan.i places behind the head,    *)
(* and none of the nodes it has passed could have stopped it.              *)
ScanOK ==
    ~Ready =>
        LET s == Forward(mem, scan.list)
        IN  /\ scan.pri \in Priority
            /\ scan.i + 1 \in 1..Len(s) /\ s[scan.i + 1] = scan.at
            /\ \A j \in 1..scan.i :
                   ~(scan.pri > mem.priority[s[j]]) /\ ~(j - 1 > ScanLimit)

SInv == IInv /\ Shape(mem) /\ ScanOK

LEMMA InitSInv == Init => SInv
<1> SUFFICES ASSUME Init PROVE SInv
  OBVIOUS
<1>1. mem = InitMem /\ scan = Idle
  BY DEF Init
<1>2. ASSUME NEW l \in List PROVE Chain(mem, l, <<>>)
  <2>1. <<>> \in Seq(Node) /\ Len(<<>>) = 0
    OBVIOUS
  <2>2. \A i \in Int : At(<<>>, i) = NULL
    BY <2>1 DEF At
  <2> QED BY <1>1, <1>2, <2>1, <2>2 DEF Chain, InitMem
<1>3. Shape(mem)
  BY <1>2, ForwardIs DEF Shape
<1>4. ScanOK
  BY <1>1 DEF ScanOK, Ready, Idle
<1> QED BY <1>3, <1>4, InitIInv DEF SInv

(* The refinement mapping.                                                 *)
Contents == [l \in List |-> Forward(mem, l)]

LEMMA ContentsChange ==
    ASSUME NEW l \in List, NEW t, Becomes(mem, mem', l, t)
    PROVE  Contents' = [Contents EXCEPT ![l] = t] /\ Contents[l] = Forward(mem, l)
BY DEF Becomes, Contents

LEMMA UnlistedIsFree ==
    ASSUME Shape(mem), NEW n \in Node, mem.list[n] = NULL
    PROVE  Abs!Free(n)
<1> SUFFICES ASSUME NEW l \in List, NEW i \in 1..Len(Forward(mem, l)), Forward(mem, l)[i] = n
             PROVE  FALSE
  BY DEF Abs!Free, Abs!Contains
<1> QED BY DEF Shape, Chain

(* The sequences of list.c and the operators of ListAbs.                   *)
LEMMA SeqFun ==
    ASSUME NEW t \in Seq(Node), NEW N, Len(t) = N
    PROVE  t = [i \in 1..N |-> t[i]]
OBVIOUS

LEMMA SeqIsIns ==
    ASSUME NEW s \in Seq(Node), NEW n \in Node
    PROVE  /\ <<n>> \o s = Ins(s, 1, n)
           /\ Append(s, n) = Ins(s, Len(s) + 1, n)
           /\ \A k \in 1..Len(s) : Abs!InsertAt(s, k, n) = Ins(s, k, n)
<1>0. Len(s) \in Nat
  OBVIOUS
<1>1. <<n>> \o s = Ins(s, 1, n)
  <2> DEFINE t == <<n>> \o s
  <2>1. /\ t \in Seq(Node) /\ Len(t) = Len(s) + 1
        /\ \A i \in 1..(Len(s) + 1) : t[i] = IF i = 1 THEN n ELSE s[i - 1]
    OBVIOUS
  <2>2. t = [i \in 1..(Len(s) + 1) |-> t[i]]
    BY <2>1, SeqFun, Zenon
  <2>3. \A i \in 1..(Len(s) + 1) : ~(i < 1)
    BY <1>0
  <2> HIDE DEF t
  <2>4. t = Ins(s, 1, n)
    BY <2>1, <2>2, <2>3 DEF Ins
  <2> QED BY <2>4 DEF t
<1>2. Append(s, n) = Ins(s, Len(s) + 1, n)
  <2> DEFINE t == Append(s, n)
  <2>1. /\ t \in Seq(Node) /\ Len(t) = Len(s) + 1
        /\ \A i \in 1..(Len(s) + 1) : t[i] = IF i < Len(s) + 1 THEN s[i] ELSE n
    OBVIOUS
  <2>2. t = [i \in 1..(Len(s) + 1) |-> t[i]]
    BY <2>1, SeqFun, Zenon
  <2>3. \A i \in 1..(Len(s) + 1) : i < Len(s) + 1 \/ i = Len(s) + 1
    BY <1>0
  <2> HIDE DEF t
  <2>4. t = Ins(s, Len(s) + 1, n)
    BY <2>1, <2>2, <2>3 DEF Ins
  <2> QED BY <2>4 DEF t
<1>3. ASSUME NEW k \in 1..Len(s) PROVE Abs!InsertAt(s, k, n) = Ins(s, k, n)
  <2> DEFINE a == SubSeq(s, 1, k - 1)
             b == SubSeq(s, k, Len(s))
             c == a \o <<n>>
             t == c \o b
  <2>1. /\ a \in Seq(Node) /\ Len(a) = k - 1 /\ \A i \in 1..(k - 1) : a[i] = s[i]
    BY <1>0
  <2>2. /\ b \in Seq(Node) /\ Len(b) = Len(s) - k + 1
        /\ \A i \in 1..(Len(s) - k + 1) : b[i] = s[k + i - 1]
    BY <1>0
  <2> HIDE DEF a, b
  <2>3. /\ c \in Seq(Node) /\ Len(c) = k
        /\ \A i \in 1..k : c[i] = IF i < k THEN s[i] ELSE n
    BY <1>0, <2>1
  <2> HIDE DEF c
  <2>4. /\ t \in Seq(Node) /\ Len(t) = Len(s) + 1
        /\ \A i \in 1..(Len(s) + 1) : t[i] = IF i <= k THEN c[i] ELSE b[i - k]
    <3>1. /\ t \in Seq(Node) /\ Len(t) = Len(c) + Len(b)
          /\ \A i \in 1..(Len(c) + Len(b)) :
                 t[i] = IF i <= Len(c) THEN c[i] ELSE b[i - Len(c)]
      BY <2>2, <2>3, ConcatProperties
    <3>2. Len(c) + Len(b) = Len(s) + 1
      BY <1>0, <2>2, <2>3
    <3> HIDE DEF t
    <3> QED BY <2>3, <3>1, <3>2
  <2>5. t = [i \in 1..(Len(s) + 1) |-> t[i]]
    BY <2>4, SeqFun, Zenon
  <2> HIDE DEF t
  <2>6. \A i \in 1..(Len(s) + 1) :
            t[i] = IF i < k THEN s[i] ELSE IF i = k THEN n ELSE s[i - 1]
    <3> SUFFICES ASSUME NEW i \in 1..(Len(s) + 1)
                 PROVE  t[i] = IF i < k THEN s[i] ELSE IF i = k THEN n ELSE s[i - 1]
      OBVIOUS
    <3>1. CASE i <= k
      BY <1>0, <2>3, <2>4, <3>1
    <3>2. CASE i > k
      <4>1. i - k \in 1..(Len(s) - k + 1) /\ k + (i - k) - 1 = i - 1 /\ ~(i <= k)
        BY <1>0, <3>2
      <4>2. t[i] = s[i - 1]
        BY <2>2, <2>4, <4>1
      <4> QED BY <1>0, <3>2, <4>2
    <3> QED BY <1>0, <3>1, <3>2
  <2>7. t = Ins(s, k, n)
    BY <2>5, <2>6 DEF Ins
  <2> QED BY <2>7 DEF Abs!InsertAt, a, b, c, t
<1> QED BY <1>1, <1>2, <1>3

LEMMA SeqIsDel ==
    ASSUME NEW s \in Seq(Node), Len(s) >= 1
    PROVE  /\ Tail(s) = Del(s, 1)
           /\ Abs!Front(s) = Del(s, Len(s))
           /\ \A k \in 1..Len(s) : Abs!RemoveAt(s, k) = Del(s, k)
<1>0. Len(s) \in Nat
  OBVIOUS
<1>1. Tail(s) = Del(s, 1)
  <2> DEFINE t == Tail(s)
  <2>1. /\ t \in Seq(Node) /\ Len(t) = Len(s) - 1
        /\ \A i \in 1..(Len(s) - 1) : t[i] = s[i + 1] /\ ~(i < 1)
    BY <1>0
  <2>2. t = [i \in 1..(Len(s) - 1) |-> t[i]]
    BY <2>1, SeqFun, Zenon
  <2> HIDE DEF t
  <2>4. t = Del(s, 1)
    BY <2>1, <2>2 DEF Del
  <2> QED BY <2>4 DEF t
<1>2. Abs!Front(s) = Del(s, Len(s))
  <2> DEFINE t == SubSeq(s, 1, Len(s) - 1)
  <2>1. /\ t \in Seq(Node) /\ Len(t) = Len(s) - 1
        /\ \A i \in 1..(Len(s) - 1) : t[i] = s[i] /\ i < Len(s)
    <3>1. 1 \in Int /\ Len(s) - 1 \in Int /\ \A i \in 1..(Len(s) - 1) : s[i] \in Node
      BY <1>0
    <3> DEFINE M == Len(s) - 1
    <3>2. /\ t \in Seq(Node) /\ Len(t) = IF 1 <= M THEN M - 1 + 1 ELSE 0
          /\ \A i \in 1..(M - 1 + 1) : t[i] = s[1 + i - 1]
      <4> HIDE DEF M
      <4> QED BY <3>1, SubSeqProperties DEF M
    <3>3. M - 1 + 1 = M /\ M \in Nat /\ \A i \in 1..M : 1 + i - 1 = i /\ i < Len(s)
      BY <1>0
    <3>4. Len(t) = M
      <4> HIDE DEF t, M
      <4> QED BY <3>2, <3>3
    <3>5. \A i \in 1..M : t[i] = s[i]
      <4> HIDE DEF t, M
      <4> QED BY <3>2, <3>3
    <3> QED BY <3>2, <3>3, <3>4, <3>5
  <2>2. t = [i \in 1..(Len(s) - 1) |-> t[i]]
    BY <2>1, SeqFun, Zenon
  <2> HIDE DEF t
  <2>4. t = Del(s, Len(s))
    BY <2>1, <2>2 DEF Del
  <2> QED BY <2>4 DEF t, Abs!Front
<1>3. ASSUME NEW k \in 1..Len(s) PROVE Abs!RemoveAt(s, k) = Del(s, k)
  <2> DEFINE a == SubSeq(s, 1, k - 1)
             b == SubSeq(s, k + 1, Len(s))
             t == a \o b
  <2>1. /\ a \in Seq(Node) /\ Len(a) = k - 1 /\ \A i \in 1..(k - 1) : a[i] = s[i]
    BY <1>0
  <2>2. /\ b \in Seq(Node) /\ Len(b) = Len(s) - k
        /\ \A i \in 1..(Len(s) - k) : b[i] = s[k + i]
    BY <1>0
  <2> HIDE DEF a, b
  <2>4. /\ t \in Seq(Node) /\ Len(t) = Len(s) - 1
        /\ \A i \in 1..(Len(s) - 1) : t[i] = IF i <= k - 1 THEN a[i] ELSE b[i - (k - 1)]
    BY <1>0, <2>1, <2>2
  <2>5. t = [i \in 1..(Len(s) - 1) |-> t[i]]
    BY <2>4, SeqFun, Zenon
  <2> HIDE DEF t
  <2>6. \A i \in 1..(Len(s) - 1) : t[i] = IF i < k THEN s[i] ELSE s[i + 1]
    <3> SUFFICES ASSUME NEW i \in 1..(Len(s) - 1)
                 PROVE  t[i] = IF i < k THEN s[i] ELSE s[i + 1]
      OBVIOUS
    <3>1. CASE i < k
      <4>1. i \in 1..(k - 1) /\ i <= k - 1
        BY <1>0, <3>1
      <4> QED BY <2>1, <2>4, <3>1, <4>1
    <3>2. CASE i >= k
      <4>1. i - (k - 1) \in 1..(Len(s) - k) /\ k + (i - (k - 1)) = i + 1 /\ ~(i <= k - 1)
        BY <1>0, <3>2
      <4>2. t[i] = s[i + 1]
        BY <2>2, <2>4, <4>1
      <4> QED BY <1>0, <3>2, <4>2
    <3> QED BY <1>0, <3>1, <3>2
  <2>7. t = Del(s, k)
    BY <2>5, <2>6 DEF Del
  <2> QED BY <2>7 DEF Abs!RemoveAt, a, b, t
<1> QED BY <1>1, <1>2, <1>3

(* Taking the only place of a node out of a sequence.                      *)
LEMMA RemoveFirstIs ==
    ASSUME NEW s \in Seq(Node), NEW n \in Node
    PROVE  /\ (\A i \in 1..Len(s) : s[i] # n) => Abs!RemoveFirst(s, n) = s
           /\ \A k \in 1..Len(s) :
                  (\A i \in 1..Len(s) : s[i] = n <=> i = k) =>
                      Abs!RemoveFirst(s, n) = Del(s, k)
<1>1. (\A i \in 1..Len(s) : s[i] # n) => Abs!RemoveFirst(s, n) = s
  BY DEF Abs!RemoveFirst
<1>2. ASSUME NEW k \in 1..Len(s), \A i \in 1..Len(s) : s[i] = n <=> i = k
      PROVE  Abs!RemoveFirst(s, n) = Del(s, k)
  <2> DEFINE I == {i \in 1..Len(s) : s[i] = n}
  <2>1. I = {k} /\ k <= k
    BY <1>2
  <2>2. Abs!SelectInSeq(s, LAMBDA v : v = n) = IF I # {} THEN Abs!Min(I) ELSE 0
    BY DEF Abs!SelectInSeq
  <2> HIDE DEF I
  <2>3. Abs!Min(I) = k
    BY <2>1 DEF Abs!Min
  <2>4. Abs!RemoveFirst(s, n) = Abs!RemoveAt(s, Abs!SelectInSeq(s, LAMBDA v : v = n))
    BY <1>2 DEF Abs!RemoveFirst
  <2>5. Len(s) >= 1
    OBVIOUS
  <2> QED BY <2>1, <2>2, <2>3, <2>4, <2>5, SeqIsDel
<1> QED BY <1>1, <1>2

(* Every push or pop of list.c, seen as a step of ListAbs.                 *)
LEMMA PushHeadStep ==
    ASSUME SInv, NEW l \in List, NEW n \in Node, mem.list[n] = NULL,
           mem' = list_push_head(mem, l, n), ret' = ret
    PROVE  Shape(mem') /\ Abs!PushHead(l, n)
<1>1. Good(mem) /\ Shape(mem)
  BY DEF SInv, IInv, TypeOK, LinksConsistent, Good
<1>2. Becomes(mem, mem', l, Ins(Forward(mem, l), 1, n))
  BY <1>1, PushHeadShape
<1>3. mem'.priority = [mem.priority EXCEPT ![n] = 0]
  <2>1. Linked(mem, mem', l, n, NULL, mem.head[l], 0)
    BY <1>1, PushHeadGood
  <2> QED BY <2>1 DEF Linked
<1>4. <<n>> \o Forward(mem, l) = Ins(Forward(mem, l), 1, n)
  BY <1>1, SeqIsIns DEF Shape, Chain
<1>5. Contents' = [Contents EXCEPT ![l] = <<n>> \o @]
  BY <1>2, <1>4, ContentsChange
<1>6. Abs!Free(n)
  BY <1>1, UnlistedIsFree
<1>7. Shape(mem')
  BY <1>2 DEF Becomes
<1> QED BY <1>3, <1>5, <1>6, <1>7 DEF Abs!PushHead, Contents

LEMMA PushTailStep ==
    ASSUME SInv, NEW l \in List, NEW n \in Node, mem.list[n] = NULL,
           mem' = list_push_tail(mem, l, n), ret' = ret
    PROVE  Shape(mem') /\ Abs!PushTail(l, n)
<1>1. Good(mem) /\ Shape(mem)
  BY DEF SInv, IInv, TypeOK, LinksConsistent, Good
<1>2. Becomes(mem, mem', l, Ins(Forward(mem, l), Len(Forward(mem, l)) + 1, n))
  BY <1>1, PushTailShape
<1>3. mem'.priority = [mem.priority EXCEPT ![n] = 0]
  <2>1. Linked(mem, mem', l, n, mem.tail[l], NULL, 0)
    BY <1>1, PushTailGood
  <2> QED BY <2>1 DEF Linked
<1>4. Append(Forward(mem, l), n) = Ins(Forward(mem, l), Len(Forward(mem, l)) + 1, n)
  BY <1>1, SeqIsIns DEF Shape, Chain
<1>5. Contents' = [Contents EXCEPT ![l] = Append(@, n)]
  BY <1>2, <1>4, ContentsChange
<1>6. Abs!Free(n)
  BY <1>1, UnlistedIsFree
<1>7. Shape(mem')
  BY <1>2 DEF Becomes
<1> QED BY <1>3, <1>5, <1>6, <1>7 DEF Abs!PushTail, Contents

(* The scan stops at the first place where ListAbs lets it stop.           *)
LEMMA ScanInsertStep ==
    ASSUME SInv, ScanInsert
    PROVE  /\ Shape(mem') /\ scan.list \in List /\ scan.node \in Node
           /\ scan.pri \in Priority
           /\ Abs!PushPriority(scan.list, scan.node, scan.pri)
<1> DEFINE l == scan.list
           n == scan.node
           pri == scan.pri
           s == Forward(mem, l)
           k == scan.i + 1
<1>1. Good(mem) /\ Shape(mem)
  BY DEF SInv, IInv, TypeOK, LinksConsistent, Good
<1>2. /\ scan.at \in Node /\ n \in Node /\ l \in List /\ pri \in Int /\ scan.i \in Int
      /\ mem.list[n] = NULL
  BY DEF SInv, IInv, TypeOK, ScanInsert, Ready, Idle
<1>3. /\ pri \in Priority /\ k \in 1..Len(s) /\ s[k] = scan.at
      /\ \A j \in 1..scan.i : ~(pri > mem.priority[s[j]]) /\ ~(j - 1 > ScanLimit)
  BY DEF SInv, ScanOK, ScanInsert
<1>4. pri > mem.priority[s[k]] \/ k - 1 > ScanLimit
  BY <1>2, <1>3 DEF ScanInsert, ScanStops
<1>5. mem' = InsertBefore(mem, l, n, s[k], pri) /\ ret' = ret
  BY <1>3 DEF ScanInsert
<1>6. s \in Seq(Node) /\ Len(s) \in Nat
  BY <1>1, <1>2 DEF Shape, Chain
<1>7. /\ Becomes(mem, mem', l, Ins(s, k, n))
      /\ mem'.priority = [mem.priority EXCEPT ![n] = pri]
  <2> HIDE DEF k, pri, l, n
  <2>1. k \in 1..Len(Forward(mem, l))
    BY <1>3
  <2> QED BY <1>1, <1>2, <1>5, <2>1, InsertBeforeShape
<1>8. Contents[l] = s
  BY <1>2 DEF Contents
<1>9. Abs!InsertAt(s, k, n) = Ins(s, k, n)
  <2> HIDE DEF k, s, n
  <2> QED BY <1>2, <1>3, <1>6, SeqIsIns
<1>10. Abs!Free(n)
  BY <1>1, <1>2, UnlistedIsFree
<1> DEFINE S == {i \in 1..Len(s) : pri > mem.priority[s[i]] \/ i - 1 > ScanLimit}
<1>11. Abs!Stops(l, pri) = S
  BY <1>2 DEF Abs!Stops
<1>12. k \in S /\ \A j \in S : k <= j
  <2>1. k \in S
    BY <1>3, <1>4
  <2>2. ASSUME NEW j \in S, ~(k <= j) PROVE FALSE
    <3>1. j \in 1..scan.i
      BY <1>2, <1>6, <2>2
    <3> QED BY <1>3, <2>2, <3>1
  <2> QED BY <2>1, <2>2
<1>13. S \subseteq Int /\ k \in Int
  BY <1>2, <1>6
<1> HIDE DEF S, k
<1>14. (CHOOSE i \in S : \A j \in S : i <= j) = k
  <2>1. \A i \in S : (\A j \in S : i <= j) => i = k
    BY <1>12, <1>13
  <2> QED BY <1>12, <2>1
<1>15. Contents' = [Contents EXCEPT ![l] = Abs!InsertAt(@, k, n)]
  <2> HIDE DEF s, l, n
  <2>1. Contents' = [Contents EXCEPT ![l] = Ins(s, k, n)]
    BY <1>2, <1>7, ContentsChange
  <2> QED BY <1>8, <1>9, <2>1
<1>16. Shape(mem')
  BY <1>7 DEF Becomes
<1>17. Abs!PushPriority(l, n, pri)
  <2> HIDE DEF s, l, n, pri
  <2> QED BY <1>5, <1>7, <1>10, <1>11, <1>12, <1>14, <1>15 DEF Abs!PushPriority, Contents
<1> QED BY <1>2, <1>3, <1>16, <1>17

LEMMA PopHeadStep ==
    ASSUME SInv, NEW l \in List, PopHead(l)
    PROVE  Shape(mem') /\ Abs!PopHead(l)
<1> DEFINE s == Forward(mem, l)
<1>1. Good(mem) /\ Shape(mem)
  BY DEF SInv, IInv, TypeOK, LinksConsistent, Good
<1>2. Chain(mem, l, s)
  BY <1>1 DEF Shape
<1>3. s \in Seq(Node) /\ Len(s) \in Nat /\ mem.head[l] = At(s, 1)
  BY <1>2 DEF Chain
<1>4. Contents[l] = s
  BY DEF Contents
<1>5. CASE mem.head[l] = NULL
  <2>1. Len(s) = 0
    <3>1. 1 \in 1..Len(s) => s[1] \in Node /\ At(s, 1) = s[1]
      BY <1>3 DEF At
    <3> QED BY <1>3, <1>5, <3>1
  <2>2. mem' = mem /\ ret' = NULL
    BY <1>5 DEF PopHead, list_pop_head
  <2>3. s = <<>>
    BY <1>3, <2>1
  <2>4. Contents[l] = <<>>
    BY <1>4, <2>3
  <2> QED BY <1>1, <2>2, <2>4 DEF Abs!PopHead, Contents
<1>6. CASE mem.head[l] # NULL
  <2>1. /\ Len(s) >= 1 /\ mem.head[l] = s[1]
        /\ Becomes(mem, mem', l, Del(s, 1)) /\ mem'.priority = mem.priority
    BY <1>1, <1>6, PopHeadShape DEF PopHead
  <2>2. Shape(mem') /\ ret' = s[1]
    BY <2>1 DEF Becomes, PopHead
  <2> HIDE DEF s
  <2>3. Tail(s) = Del(s, 1) /\ Head(s) = s[1] /\ s # <<>>
    BY <1>3, <2>1, SeqIsDel
  <2>4. Contents' = [Contents EXCEPT ![l] = Tail(@)]
    BY <1>4, <2>1, <2>3, ContentsChange
  <2>5. Contents[l] # <<>> /\ ret' = Head(Contents[l])
    BY <1>4, <2>2, <2>3
  <2> QED BY <2>1, <2>2, <2>4, <2>5 DEF Abs!PopHead, Contents
<1> QED BY <1>5, <1>6

LEMMA PopTailStep ==
    ASSUME SInv, NEW l \in List, PopTail(l)
    PROVE  Shape(mem') /\ Abs!PopTail(l)
<1> DEFINE s == Forward(mem, l)
<1>1. Good(mem) /\ Shape(mem)
  BY DEF SInv, IInv, TypeOK, LinksConsistent, Good
<1>2. Chain(mem, l, s)
  BY <1>1 DEF Shape
<1>3. s \in Seq(Node) /\ Len(s) \in Nat /\ mem.tail[l] = At(s, Len(s))
  BY <1>2 DEF Chain
<1>4. Contents[l] = s
  BY DEF Contents
<1>5. CASE mem.tail[l] = NULL
  <2>1. Len(s) = 0
    <3>1. Len(s) \in 1..Len(s) => s[Len(s)] \in Node /\ At(s, Len(s)) = s[Len(s)]
      BY <1>3 DEF At
    <3> QED BY <1>3, <1>5, <3>1
  <2>2. mem' = mem /\ ret' = NULL
    BY <1>5 DEF PopTail, list_pop_tail
  <2>3. s = <<>>
    BY <1>3, <2>1
  <2>4. Contents[l] = <<>>
    BY <1>4, <2>3
  <2> QED BY <1>1, <2>2, <2>4 DEF Abs!PopTail, Contents
<1>6. CASE mem.tail[l] # NULL
  <2>1. /\ Len(s) >= 1 /\ mem.tail[l] = s[Len(s)]
        /\ Becomes(mem, mem', l, Del(s, Len(s))) /\ mem'.priority = mem.priority
    BY <1>1, <1>6, PopTailShape DEF PopTail
  <2>2. Shape(mem') /\ ret' = s[Len(s)]
    BY <2>1 DEF Becomes, PopTail
  <2> HIDE DEF s
  <2>3. Abs!Front(s) = Del(s, Len(s)) /\ Abs!Last(s) = s[Len(s)] /\ s # <<>>
    BY <1>3, <2>1, SeqIsDel DEF Abs!Last
  <2>4. Contents' = [Contents EXCEPT ![l] = Abs!Front(@)]
    BY <1>4, <2>1, <2>3, ContentsChange
  <2>5. Contents[l] # <<>> /\ ret' = Abs!Last(Contents[l])
    BY <1>4, <2>2, <2>3
  <2> QED BY <2>1, <2>2, <2>4, <2>5 DEF Abs!PopTail, Contents
<1> QED BY <1>5, <1>6

(* A node is on one list at most: the others lose nothing.                 *)
LEMMA RemoveStep ==
    ASSUME SInv, NEW n \in Node, RemoveNode(n)
    PROVE  Shape(mem') /\ Abs!RemoveNode(n)
<1>1. Good(mem) /\ Shape(mem)
  BY DEF SInv, IInv, TypeOK, LinksConsistent, Good
<1>2. \A o \in List : Forward(mem, o) \in Seq(Node)
  BY <1>1 DEF Shape, Chain
<1>3. ASSUME NEW o \in List, mem.list[n] # o
      PROVE  Abs!RemoveFirst(Forward(mem, o), n) = Forward(mem, o)
  <2>1. \A i \in 1..Len(Forward(mem, o)) : Forward(mem, o)[i] # n
    BY <1>1, <1>3 DEF Shape, Chain
  <2> QED BY <1>2, <2>1, RemoveFirstIs
<1>4. mem' = list_remove(mem, n) /\ ret' = ret
  BY DEF RemoveNode
<1>5. /\ Shape(mem') /\ mem'.priority = mem.priority
      /\ \A o \in List : Forward(mem', o) = Abs!RemoveFirst(Forward(mem, o), n)
  <2>1. CASE mem.list[n] = NULL
    <3>1. mem' = mem
      BY <1>4, <2>1 DEF list_remove
    <3> QED BY <1>1, <1>3, <2>1, <3>1
  <2>2. CASE mem.list[n] # NULL
    <3> DEFINE l == mem.list[n]
               s == Forward(mem, l)
    <3>1. l \in List /\ mem'.priority = mem.priority
      BY <1>1, <1>4, <2>2, RemoveShape
    <3>2. PICK k \in 1..Len(s) : s[k] = n /\ Becomes(mem, mem', l, Del(s, k))
      BY <1>1, <1>4, <2>2, RemoveShape
    <3>3. \A i \in 1..Len(s) : s[i] = n <=> i = k
      BY <1>1, <3>1, <3>2 DEF Shape, Chain
    <3>4. Abs!RemoveFirst(s, n) = Del(s, k)
      <4>1. s \in Seq(Node)
        BY <1>2, <3>1
      <4> HIDE DEF s
      <4> QED BY <3>2, <3>3, <4>1, RemoveFirstIs
    <3>5. Forward(mem', l) = Abs!RemoveFirst(Forward(mem, l), n)
      BY <3>2, <3>4 DEF Becomes
    <3>6. \A o \in List \ {l} : Forward(mem', o) = Abs!RemoveFirst(Forward(mem, o), n)
      BY <1>3, <3>2 DEF Becomes
    <3>7. Shape(mem')
      BY <3>2 DEF Becomes
    <3> QED BY <3>1, <3>5, <3>6, <3>7
  <2> QED BY <2>1, <2>2
<1> QED BY <1>4, <1>5 DEF Abs!RemoveNode

(* Every step of the pointer code keeps the invariant and is a step of     *)
(* ListAbs or changes none of its variables: an iteration of the scan that *)
(* goes on is invisible.                                                   *)
LEMMA NextSInv ==
    ASSUME SInv, [Next]_vars
    PROVE  SInv' /\ [Abs!Next]_(Abs!absVars)
<1>1. IInv'
  BY NextIInv DEF SInv
<1>2. (scan' = Idle \/ (Ready /\ scan' = scan)) => ScanOK'
  BY DEF ScanOK, Ready, Idle
<1>3. ASSUME NEW l \in List, NEW n \in Node, PushHead(l, n) \/ PushTail(l, n)
      PROVE  SInv' /\ Abs!Next
  <2>1. CASE PushHead(l, n)
    <3>1. Shape(mem') /\ Abs!PushHead(l, n)
      BY <2>1, PushHeadStep DEF PushHead
    <3> QED BY <1>1, <1>2, <2>1, <3>1 DEF PushHead, SInv, Abs!Next
  <2>2. CASE PushTail(l, n)
    <3>1. Shape(mem') /\ Abs!PushTail(l, n)
      BY <2>2, PushTailStep DEF PushTail
    <3> QED BY <1>1, <1>2, <2>2, <3>1 DEF PushTail, SInv, Abs!Next
  <2> QED BY <1>3, <2>1, <2>2
<1>4. ASSUME NEW l \in List, NEW n \in Node, NEW pri \in Priority, PushPriority(l, n, pri)
      PROVE  SInv' /\ [Abs!Next]_(Abs!absVars)
  <2>1. CASE mem.head[l] = NULL
    <3>1. Shape(mem') /\ Abs!PushHead(l, n)
      BY <1>4, <2>1, PushHeadStep DEF PushPriority
    <3> QED BY <1>1, <1>2, <1>4, <2>1, <3>1 DEF PushPriority, SInv, Abs!Next
  <2>2. CASE mem.head[l] # NULL
    <3> DEFINE s == Forward(mem, l)
    <3>1. /\ mem' = mem /\ ret' = ret
          /\ scan' = [at |-> mem.head[l], list |-> l, node |-> n, pri |-> pri, i |-> 0]
      BY <1>4, <2>2 DEF PushPriority
    <3>2. Shape(mem)
      BY DEF SInv
    <3>3. s \in Seq(Node) /\ Len(s) \in Nat /\ mem.head[l] = At(s, 1)
      BY <3>2 DEF Shape, Chain
    <3>4. 0 + 1 \in 1..Len(s) /\ s[0 + 1] = mem.head[l]
      BY <2>2, <3>3 DEF At
    <3>5. \A j \in 1..0 : FALSE
      OBVIOUS
    <3>6. ScanOK'
      <4>1. /\ scan'.at = mem.head[l] /\ scan'.list = l /\ scan'.pri = pri /\ scan'.i = 0
        BY <3>1
      <4> QED BY <3>1, <3>4, <3>5, <4>1 DEF ScanOK
    <3>7. UNCHANGED Abs!absVars
      BY <3>1 DEF Abs!absVars
    <3>8. Shape(mem')
      BY <3>1, <3>2
    <3> QED BY <1>1, <3>6, <3>7, <3>8 DEF SInv
  <2> QED BY <2>1, <2>2
<1>5. CASE ScanInsert
  <2>1. scan' = Idle
    BY <1>5 DEF ScanInsert
  <2> QED BY <1>1, <1>2, <1>5, <2>1, ScanInsertStep DEF SInv, Abs!Next
<1>6. CASE ScanNext
  <2>1. /\ scan.at \in Node /\ scan.node \in Node /\ scan.list \in List
        /\ scan.pri \in Int /\ scan.i \in Int /\ mem.list[scan.node] = NULL
    BY <1>6 DEF SInv, IInv, TypeOK, ScanNext, Ready, Idle
  <2>2. CASE mem.next[scan.at] = NULL
    <3>1. mem' = list_push_tail(mem, scan.list, scan.node) /\ scan' = Idle /\ ret' = ret
      BY <1>6, <2>2 DEF ScanNext
    <3>2. Shape(mem') /\ Abs!PushTail(scan.list, scan.node)
      BY <2>1, <3>1, PushTailStep
    <3> QED BY <1>1, <1>2, <2>1, <3>1, <3>2 DEF SInv, Abs!Next
  <2>3. CASE mem.next[scan.at] # NULL
    <3> DEFINE s == Forward(mem, scan.list)
               k == scan.i + 1
    <3>1. mem' = mem /\ ret' = ret /\ scan' = [scan EXCEPT !.at = mem.next[scan.at], !.i = @ + 1]
      BY <1>6, <2>3 DEF ScanNext
    <3>2. Chain(mem, scan.list, s) /\ Shape(mem)
      BY <2>1 DEF SInv, Shape
    <3>3. /\ scan.pri \in Priority /\ k \in 1..Len(s) /\ s[k] = scan.at
          /\ \A j \in 1..scan.i :
                 ~(scan.pri > mem.priority[s[j]]) /\ ~(j - 1 > ScanLimit)
      BY <1>6 DEF SInv, ScanOK, ScanNext
    <3>4. ~(scan.pri > mem.priority[s[k]]) /\ ~(k - 1 > ScanLimit)
      BY <1>6, <2>1, <3>3 DEF ScanNext, ScanStops
    <3>5. mem.next[scan.at] = At(s, k + 1)
      <4> HIDE DEF s, k
      <4> QED BY <3>2, <3>3 DEF Chain
    <3>6. k + 1 \in 1..Len(s) /\ s[k + 1] = mem.next[scan.at]
      BY <2>3, <3>5 DEF At
    <3>7. \A j \in 1..k : ~(scan.pri > mem.priority[s[j]]) /\ ~(j - 1 > ScanLimit)
      <4>1. \A j \in 1..k : j \in 1..scan.i \/ j = k
        BY <2>1
      <4> HIDE DEF k, s
      <4> QED BY <3>3, <3>4, <4>1
    <3>8. /\ scan'.at = mem.next[scan.at] /\ scan'.list = scan.list
          /\ scan'.pri = scan.pri /\ scan'.i = k
      <4>1. scan \in [at: Node, list: List, node: Node, pri: Int, i: Int]
        BY <1>6 DEF SInv, IInv, TypeOK, ScanNext, Ready, Idle
      <4> QED BY <3>1, <4>1
    <3>9. ScanOK'
      <4> HIDE DEF k
      <4> QED BY <3>1, <3>3, <3>6, <3>7, <3>8 DEF ScanOK
    <3>10. UNCHANGED Abs!absVars
      BY <3>1 DEF Abs!absVars
    <3>11. Shape(mem')
      BY <3>1, <3>2
    <3> QED BY <1>1, <3>9, <3>10, <3>11 DEF SInv
  <2> QED BY <2>2, <2>3
<1>7. ASSUME NEW l \in List, PopHead(l) \/ PopTail(l)
      PROVE  SInv' /\ Abs!Next
  <2>1. Shape(mem') /\ (Abs!PopHead(l) \/ Abs!PopTail(l))
    BY <1>7, PopHeadStep, PopTailStep
  <2>2. Ready /\ scan' = scan
    BY <1>7 DEF PopHead, PopTail
  <2> QED BY <1>1, <1>2, <2>1, <2>2 DEF SInv, Abs!Next
<1>8. ASSUME NEW n \in Node, RemoveNode(n)
      PROVE  SInv' /\ Abs!Next
  <2>1. Shape(mem') /\ Abs!RemoveNode(n)
    BY <1>8, RemoveStep
  <2>2. Ready /\ scan' = scan
    BY <1>8 DEF RemoveNode
  <2> QED BY <1>1, <1>2, <2>1, <2>2 DEF SInv, Abs!Next
<1>9. CASE UNCHANGED vars
  <2>1. mem' = mem /\ scan' = scan /\ ret' = ret
    BY <1>9 DEF vars
  <2>2. Shape(mem') /\ ScanOK'
    BY <2>1 DEF SInv, ScanOK, Ready
  <2>3. UNCHANGED Abs!absVars
    BY <2>1 DEF Abs!absVars
  <2> QED BY <1>1, <2>2, <2>3 DEF SInv
<1> QED BY <1>3, <1>4, <1>5, <1>6, <1>7, <1>8, <1>9 DEF Next

LEMMA ShapeIsWellShaped == SInv => WellShaped
<1> SUFFICES ASSUME SInv, NEW l \in List
             PROVE  LET f == Forward(mem, l)
                        b == Backward(mem, l)
                    IN  /\ Len(f) = Len(b)
                        /\ \A i \in 1..Len(f) : f[i] = b[Len(f) + 1 - i]
                        /\ {f[i] : i \in 1..Len(f)} = {n \in Node : mem.list[n] = l}
  BY DEF WellShaped
<1> DEFINE f == Forward(mem, l)
           b == Backward(mem, l)
<1>1. Chain(mem, l, f)
  BY DEF SInv, Shape
<1>2. b = [i \in 1..Len(f) |-> f[Len(f) + 1 - i]]
  <2> HIDE DEF f
  <2> QED BY <1>1, BackwardIs
<1>3. /\ Len(f) \in Nat /\ f \in Seq(Node)
      /\ \A n \in Node : mem.list[n] = l <=> \E i \in 1..Len(f) : f[i] = n
  BY <1>1 DEF Chain
<1> HIDE DEF f, b
<1>4. Len(f) = Len(b)
  <2>1. b \in Seq(Node)
    BY <1>2, <1>3
  <2> QED BY <1>2, <1>3, <2>1
<1>5. ASSUME NEW i \in 1..Len(f) PROVE f[i] = b[Len(f) + 1 - i]
  <2>1. Len(f) + 1 - i \in 1..Len(f) /\ Len(f) + 1 - (Len(f) + 1 - i) = i
    BY <1>3
  <2> QED BY <1>2, <2>1
<1>6. {f[i] : i \in 1..Len(f)} = {n \in Node : mem.list[n] = l}
  BY <1>3
<1> QED BY <1>4, <1>5, <1>6 DEF f, b

(* After every call of list.c, and in the middle of a scan, the walk from  *)
(* the head and the walk from the tail of every list meet exactly the      *)
(* nodes that name it, in opposite orders: no cycle, no lost node.         *)
THEOREM WellShapedTheorem == Spec => []WellShaped
<1>1. SInv /\ [Next]_vars => SInv'
  BY NextSInv
<1> QED BY InitSInv, <1>1, ShapeIsWellShaped, PTL DEF Spec

(* The pointer functions of list.c do to the walks of the lists what       *)
(* ListAbs does to sequences, priorities and results included, for any     *)
(* number of nodes, lists and priorities and any scan limit.               *)
THEOREM RefinementTheorem == Spec => AbsSpec
<1>1. Init => Abs!Init
  <2> SUFFICES ASSUME Init PROVE Abs!Init
    OBVIOUS
  <2>1. mem = InitMem /\ ret = NULL
    BY DEF Init
  <2>2. ASSUME NEW l \in List PROVE Forward(mem, l) = <<>>
    <3>1. Chain(mem, l, Forward(mem, l))
      BY InitSInv DEF SInv, Shape
    <3>2. /\ Forward(mem, l) \in Seq(Node) /\ Len(Forward(mem, l)) \in Nat
          /\ \A i \in 1..Len(Forward(mem, l)) : mem.list[Forward(mem, l)[i]] = l
      BY <3>1 DEF Chain
    <3>3. \A n \in Node : mem.list[n] # l
      BY <2>1 DEF InitMem
    <3>4. Len(Forward(mem, l)) = 0
      BY <3>2, <3>3
    <3> QED BY <3>2, <3>4
  <2> QED BY <2>1, <2>2 DEF Abs!Init, InitMem
<1>2. SInv /\ [Next]_vars => SInv'
  BY NextSInv
<1>3. SInv /\ [Next]_vars => [Abs!Next]_(Abs!absVars)
  BY NextSInv
<1> QED BY InitSInv, <1>1, <1>2, <1>3, PTL DEF Spec, AbsSpec, Abs!Spec
============================================================================
