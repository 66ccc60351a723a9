------------------------------ MODULE HeapProofs ------------------------------
(***************************************************************************)
(* Proofs about the kernel heap (src/kernel/heap.c), whatever the sizes of *)
(* pages, headers and requests: the block list is well formed after any    *)
(* sequence of calls, and only a merge across a gap gives memory away      *)
(* twice.                                                                  *)
(*                                                                         *)
(* First, what Split, Absorb and Appended do to the links of any list in   *)
(* the order of addresses.  Then the list as a whole, also with slab pages *)
(* between its areas.  Then which steps keep blocks apart.  Last, the sum  *)
(* of the sizes.                                                           *)
(***************************************************************************)
EXTENDS Heap, FiniteSetTheorems, WellFoundedInduction, NaturalsInduction, TLAPS

Links(h) == DOMAIN h \cup {Nil}
Headers(h) == [size : Nat, free : BOOLEAN, next : Links(h), prev : Links(h)]

(* h is headers that are linked in both directions, upwards in memory. *)
HeadersOK(h) == DOMAIN h \subseteq Nat /\ h \in [DOMAIN h -> Headers(h)]

LinksOK(h) ==
    \A b \in DOMAIN h :
        /\ h[b].next # Nil => h[h[b].next].prev = b
        /\ h[b].prev # Nil => h[h[b].prev].next = b

Upwards(h) == \A b \in DOMAIN h : h[b].next # Nil => h[b].next > b

Chained(h) == HeadersOK(h) /\ LinksOK(h) /\ Upwards(h)

HasLast(h) == \E t \in DOMAIN h : h[t].next = Nil

(* What the links of such a list look like. *)
LEMMA ChainFacts ==
  ASSUME NEW h, Chained(h)
  PROVE  /\ Nil \notin DOMAIN h
         /\ \A x \in DOMAIN h : /\ x \in Nat /\ h[x].size \in Nat /\ h[x].free \in BOOLEAN
                                /\ End(h, x) \in Nat /\ x < End(h, x)
         /\ \A x \in DOMAIN h : h[x].next # Nil => /\ h[x].next \in DOMAIN h
                                                   /\ h[x].next > x /\ h[x].next # x
                                                   /\ h[h[x].next].prev = x
         /\ \A x \in DOMAIN h : h[x].prev # Nil => /\ h[x].prev \in DOMAIN h
                                                   /\ h[x].prev < x /\ h[x].prev # x
                                                   /\ h[h[x].prev].next = x
<1>1. Nil \notin DOMAIN h
  BY DEF Chained, HeadersOK, Nil
<1>2. \A x \in DOMAIN h : h[x] \in Headers(h) /\ x \in Nat
  BY DEF Chained, HeadersOK
<1>3. \A x \in DOMAIN h : x \in Nat /\ h[x].size \in Nat /\ End(h, x) \in Nat /\ x < End(h, x)
  BY <1>2, HeapAssumption DEF End, Headers
<1>4. \A x \in DOMAIN h : h[x].free \in BOOLEAN
  BY <1>2, Zenon DEF Headers
<1>5. ASSUME NEW x \in DOMAIN h, h[x].next # Nil
      PROVE  /\ h[x].next \in DOMAIN h /\ h[x].next > x /\ h[x].next # x
             /\ h[h[x].next].prev = x
  <2>1. h[x].next \in Links(h)
    BY <1>2 DEF Headers
  <2>2. h[x].next > x /\ h[h[x].next].prev = x /\ h[x].next \in DOMAIN h
    BY <1>5, <2>1 DEF Chained, Upwards, LinksOK, Links
  <2> QED
    BY <1>2, <2>2
<1>6. ASSUME NEW x \in DOMAIN h, h[x].prev # Nil
      PROVE  /\ h[x].prev \in DOMAIN h /\ h[x].prev < x /\ h[x].prev # x
             /\ h[h[x].prev].next = x
  <2>1. h[x].prev \in Links(h)
    BY <1>2 DEF Headers
  <2>2. h[h[x].prev].next = x /\ h[x].prev \in DOMAIN h
    BY <1>6, <2>1 DEF Chained, LinksOK, Links
  <2>3. x > h[x].prev
    BY <1>1, <2>2 DEF Chained, Upwards
  <2> QED
    BY <1>2, <2>2, <2>3
<1> QED
  BY <1>1, <1>3, <1>4, <1>5, <1>6

-----------------------------------------------------------------------------
(* The operations on the links *)

(* g is h with the block b marked free or in use. *)
Marked(h, g, b, f) ==
    /\ DOMAIN g = DOMAIN h
    /\ \A x \in DOMAIN h : /\ g[x].size = h[x].size
                           /\ g[x].next = h[x].next
                           /\ g[x].prev = h[x].prev
                           /\ x # b => (g[x].free <=> h[x].free)
    /\ g[b].free <=> f

(* g is h with the block b cut in two at new, its first part in use. *)
Cut(h, g, b, size, new) ==
    /\ new = b + Header + size
    /\ new \in Nat /\ b < new /\ new < End(h, b) /\ new \notin DOMAIN h
    /\ DOMAIN g = DOMAIN h \cup {new}
    /\ g[new].size = h[b].size - size - Header
    /\ g[new].next = h[b].next
    /\ g[new].prev = b
    /\ g[new].free
    /\ g[b].size = size /\ g[b].next = new /\ g[b].prev = h[b].prev
    /\ ~g[b].free
    /\ \A x \in DOMAIN h \ {b} : /\ g[x].size = h[x].size
                                 /\ g[x].next = h[x].next
                                 /\ g[x].prev = IF x = h[b].next THEN new ELSE h[x].prev
                                 /\ g[x].free <=> h[x].free

(* g is h with the block c, the next one after b, made a part of b. *)
Merged(h, g, b, c) ==
    /\ c \in DOMAIN h /\ c # b /\ h[c].prev = b
    /\ h[c].next # Nil => h[c].next \in DOMAIN h /\ h[c].next \notin {b, c}
    /\ DOMAIN g = DOMAIN h \ {c}
    /\ g[b].size = h[b].size + Header + h[c].size
    /\ g[b].next = h[c].next /\ g[b].prev = h[b].prev
    /\ \A x \in DOMAIN h \ {b, c} : /\ g[x].size = h[x].size
                                    /\ g[x].next = h[x].next /\ h[x].next # c
                                    /\ g[x].prev = IF x = h[c].next THEN b ELSE h[x].prev
    /\ \A x \in DOMAIN h \ {c} : g[x].free <=> h[x].free

(* g is h with a new free block at a, behind the last one, t. *)
Extended(h, g, a, t) ==
    /\ t \in DOMAIN h /\ h[t].next = Nil /\ a \notin DOMAIN h
    /\ DOMAIN g = DOMAIN h \cup {a}
    /\ g[a].size = Page - Header /\ g[a].next = Nil /\ g[a].prev = t /\ g[a].free
    /\ g[t].next = a
    /\ \A x \in DOMAIN h : /\ g[x].size = h[x].size
                           /\ g[x].prev = h[x].prev
                           /\ x # t => g[x].next = h[x].next
                           /\ g[x].free <=> h[x].free

(* Marking a block free or in use keeps the links. *)
LEMMA FlagChained ==
  ASSUME NEW h, Chained(h), NEW b \in DOMAIN h, NEW f \in BOOLEAN
  PROVE  LET g == [h EXCEPT ![b].free = f] IN Chained(g) /\ Marked(h, g, b, f)
<1> DEFINE g == [h EXCEPT ![b].free = f]
<1>1. /\ DOMAIN h \subseteq Nat /\ h \in [DOMAIN h -> Headers(h)]
      /\ \A x \in DOMAIN h : h[x] \in Headers(h)
  BY DEF Chained, HeadersOK
<1>2. /\ DOMAIN g = DOMAIN h /\ \A x \in DOMAIN h \ {b} : g[x] = h[x]
      /\ g[b] = [h[b] EXCEPT !.free = f]
  BY <1>1
<1>3. /\ g[b].size = h[b].size /\ g[b].next = h[b].next /\ g[b].prev = h[b].prev
      /\ g[b] \in Headers(h)
  BY <1>1, <1>2 DEF Headers
<1>4. g[b].free <=> f
  BY <1>1, <1>2, Zenon DEF Headers
<1>5. g \in [DOMAIN h -> Headers(h)]
  BY <1>1, <1>2, <1>3
<1> HIDE DEF g
<1>6. Marked(h, g, b, f)
  BY <1>2, <1>3, <1>4 DEF Marked
<1>7. HeadersOK(g)
  <2>1. Headers(g) = Headers(h)
    BY <1>2 DEF Headers, Links
  <2> QED
    BY <1>1, <1>2, <1>5, <2>1 DEF HeadersOK
<1>8. LinksOK(g) /\ Upwards(g)
  <2>1. /\ \A x \in DOMAIN h : h[x].next # Nil => h[x].next \in DOMAIN h
        /\ \A x \in DOMAIN h : h[x].prev # Nil => h[x].prev \in DOMAIN h
    BY ChainFacts
  <2> QED
    BY <1>6, <2>1 DEF Marked, Chained, LinksOK, Upwards
<1> QED
  BY <1>6, <1>7, <1>8 DEF Chained, g

(* split_block keeps the links, if the block ends before the next begins. *)
LEMMA SplitChained ==
  ASSUME NEW h, Chained(h), NEW b \in DOMAIN h, NEW size \in Nat, h[b].size >= size,
         \A c \in DOMAIN h : b < c => End(h, b) <= c
  PROVE  LET g == Split(h, b, size)
         IN  /\ Chained(g)
             /\ Marked(h, g, b, FALSE) \/ \E new : Cut(h, g, b, size, new)
<1> DEFINE g == Split(h, b, size)
           new == b + Header + size
<1>0. /\ Header \in Nat \ {0} /\ MinBlock \in Nat \ {0}
      /\ b \in Nat /\ h[b] \in Headers(h)
  BY HeapAssumption DEF Chained, HeadersOK
<1>1. CASE h[b].size < size + Header + MinBlock
  <2>1. g = [h EXCEPT ![b].free = FALSE]
    BY <1>1 DEF Split
  <2> HIDE DEF g
  <2>2. Chained(g) /\ Marked(h, g, b, FALSE)
    BY <2>1, FlagChained
  <2> QED
    BY <2>2 DEF g
<1>2. CASE ~(h[b].size < size + Header + MinBlock)
  <2>1. g = [x \in DOMAIN h \cup {new} |->
               IF x = new
               THEN [size |-> h[b].size - size - Header, free |-> TRUE, next |-> h[b].next, prev |-> b]
               ELSE IF x = b THEN [h[b] EXCEPT !.size = size, !.free = FALSE, !.next = new]
               ELSE IF x = h[b].next THEN [h[x] EXCEPT !.prev = new]
               ELSE h[x]]
    BY <1>2 DEF Split
  <2>2. /\ new \in Nat /\ b < new /\ new < End(h, b)
        /\ h[b].size - size - Header \in Nat
    BY <1>0, <1>2 DEF End, Headers
  <2>3. new \notin DOMAIN h /\ new # b
    <3>1. End(h, b) \in Nat
      BY ChainFacts
    <3> HIDE DEF new
    <3> QED
      BY <1>0, <2>2, <3>1
  <2>4. \A x \in DOMAIN h : h[x] \in Headers(h) /\ x # new
    BY <2>3 DEF Chained, HeadersOK
  <2> HIDE DEF new
  <2>5. /\ DOMAIN g = DOMAIN h \cup {new}
        /\ g[new] = [size |-> h[b].size - size - Header, free |-> TRUE, next |-> h[b].next, prev |-> b]
        /\ g[b] = [h[b] EXCEPT !.size = size, !.free = FALSE, !.next = new]
        /\ \A x \in DOMAIN h \ {b} :
              g[x] = IF x = h[b].next THEN [h[x] EXCEPT !.prev = new] ELSE h[x]
    BY <2>1, <2>3, <2>4
  <2>6. g = [x \in DOMAIN g |-> g[x]]
    BY <2>1
  <2> HIDE DEF g
  <2>7. /\ g[new].size = h[b].size - size - Header /\ g[new].next = h[b].next /\ g[new].prev = b
        /\ g[b].size = size /\ g[b].next = new /\ g[b].prev = h[b].prev
        /\ \A x \in DOMAIN h \ {b} : /\ g[x].size = h[x].size
                                     /\ g[x].next = h[x].next
                                     /\ g[x].prev = IF x = h[b].next THEN new ELSE h[x].prev
    BY <2>4, <2>5 DEF Headers
  <2>8. g[new].free /\ ~g[b].free
    <3>1. g[new].free
      BY <2>5
    <3>2. g[b].free <=> FALSE
      BY <2>4, <2>5, Zenon DEF Headers
    <3> QED
      BY <3>1, <3>2
  <2>9. \A x \in DOMAIN h \ {b} : g[x].free <=> h[x].free
    BY <2>4, <2>5, Zenon DEF Headers
  <2>10. Cut(h, g, b, size, new)
    BY <2>2, <2>3, <2>5, <2>7, <2>8, <2>9 DEF Cut, new
  <2>11. HeadersOK(g)
    <3>1. Links(h) \subseteq Links(g) /\ new \in Links(g) /\ b \in Links(g)
      BY <2>5 DEF Links
    <3>2. ASSUME NEW x \in DOMAIN g PROVE g[x] \in Headers(g)
      <4>1. CASE x = new
        <5> DEFINE n == h[b].size - size - Header
        <5>1. n \in Nat /\ TRUE \in BOOLEAN /\ h[b].next \in Links(g)
          BY <1>0, <2>2, <3>1 DEF Headers
        <5> HIDE DEF n
        <5>2. g[new] = [size |-> n, free |-> TRUE, next |-> h[b].next, prev |-> b]
          BY <2>5 DEF n
        <5> QED
          BY <3>1, <4>1, <5>1, <5>2 DEF Headers
      <4>2. CASE x = b
        <5>1. h[b] \in Headers(g) /\ FALSE \in BOOLEAN
          BY <1>0, <3>1 DEF Headers
        <5> QED
          BY <2>5, <3>1, <4>2, <5>1 DEF Headers
      <4>3. CASE x \in DOMAIN h \ {b}
        BY <2>4, <2>5, <3>1, <4>3 DEF Headers
      <4> QED
        BY <2>5, <4>1, <4>2, <4>3
    <3>3. DOMAIN g \subseteq Nat
      BY <2>2, <2>5 DEF Chained, HeadersOK
    <3> QED
      BY <2>6, <3>2, <3>3 DEF HeadersOK
  <2>12. /\ Nil \notin DOMAIN h /\ new # Nil
         /\ \A x \in DOMAIN h : x \in Nat
         /\ \A x \in DOMAIN h : h[x].next # Nil => /\ h[x].next \in DOMAIN h
                                                   /\ h[x].next > x /\ h[x].next # x
                                                   /\ h[h[x].next].prev = x
         /\ \A x \in DOMAIN h : h[x].prev # Nil => /\ h[x].prev \in DOMAIN h
                                                   /\ h[x].prev < x /\ h[x].prev # x
                                                   /\ h[h[x].prev].next = x
    BY ChainFacts, <2>2 DEF Nil
  <2>13. LinksOK(g)
    <3>3. ASSUME NEW x \in DOMAIN g, g[x].next # Nil PROVE g[g[x].next].prev = x
      <4>1. CASE x = new
        BY <2>12, <3>3, <4>1, <2>3, <2>7
      <4>2. CASE x = b
        BY <4>2, <2>7
      <4>3. CASE x \in DOMAIN h \ {b}
        BY <2>12, <3>3, <4>3, <2>3, <2>7
      <4> QED
        BY <4>1, <4>2, <4>3, <2>5
    <3>4. ASSUME NEW x \in DOMAIN g, g[x].prev # Nil PROVE g[g[x].prev].next = x
      <4>1. CASE x = new
        BY <4>1, <2>7
      <4>2. CASE x = b
        BY <2>12, <3>4, <4>2, <2>3, <2>7
      <4>3. CASE x \in DOMAIN h \ {b}
        BY <2>12, <3>4, <4>3, <2>3, <2>7
      <4> QED
        BY <4>1, <4>2, <4>3, <2>5
    <3> QED
      BY <3>3, <3>4 DEF LinksOK
  <2>14. Upwards(g)
    <3>1. h[b].next # Nil => h[b].next > new
      <4>1. h[b].next # Nil => h[b].next \in Nat /\ End(h, b) <= h[b].next /\ End(h, b) \in Nat
        BY <1>0, <2>12, ChainFacts
      <4> QED
        BY <2>2, <4>1
    <3>2. new > b
      BY <1>0, <2>2
    <3>3. ASSUME NEW x \in DOMAIN g, g[x].next # Nil PROVE g[x].next > x
      <4>1. CASE x = new
        BY <2>7, <3>1, <3>3, <4>1
      <4>2. CASE x = b
        BY <2>7, <3>2, <4>2
      <4>3. CASE x \in DOMAIN h \ {b}
        BY <2>7, <2>12, <3>3, <4>3
      <4> QED
        BY <2>5, <4>1, <4>2, <4>3
    <3> QED
      BY <3>3 DEF Upwards
  <2> QED
    BY <2>10, <2>11, <2>13, <2>14 DEF Chained, g
<1> QED
  BY <1>1, <1>2

(* Merging a block with the next one of the list keeps the links. *)
LEMMA AbsorbChained ==
  ASSUME NEW h, Chained(h), NEW b \in DOMAIN h, h[b].next # Nil
  PROVE  LET g == Absorb(h, b, h[b].next) IN Chained(g) /\ Merged(h, g, b, h[b].next)
<1> DEFINE c == h[b].next
           g == Absorb(h, b, c)
           nx == h[c].next
<1>0. /\ Nil \notin DOMAIN h
      /\ \A x \in DOMAIN h : x \in Nat
      /\ \A x \in DOMAIN h : h[x].next # Nil => /\ h[x].next \in DOMAIN h
                                                /\ h[x].next > x /\ h[x].next # x
                                                /\ h[h[x].next].prev = x
      /\ \A x \in DOMAIN h : h[x].prev # Nil => /\ h[x].prev \in DOMAIN h
                                                /\ h[x].prev < x /\ h[x].prev # x
                                                /\ h[h[x].prev].next = x
  BY ChainFacts
<1>1. /\ c \in DOMAIN h /\ c # b /\ c > b /\ h[c].prev = b
      /\ nx # Nil => nx \in DOMAIN h /\ nx # c /\ nx # b /\ nx > b /\ h[nx].prev = c
  <2>1. c \in DOMAIN h /\ c # b /\ c > b /\ h[c].prev = b
    BY <1>0
  <2>2. nx # Nil => nx \in DOMAIN h /\ nx # c /\ nx > c /\ h[nx].prev = c
    BY <1>0, <2>1
  <2>3. b \in Nat /\ c \in Nat /\ (nx # Nil => nx \in Nat)
    BY <1>0, <2>1, <2>2
  <2> HIDE DEF c, nx
  <2> QED
    BY <2>1, <2>2, <2>3
<1>2. /\ \A x \in DOMAIN h : h[x] \in Headers(h)
      /\ \A x \in DOMAIN h \ {b} : h[x].next # c
      /\ \A x \in DOMAIN h \ {nx} : h[x].prev # c
  BY <1>0, <1>1 DEF Chained, HeadersOK
<1>3. /\ DOMAIN g = DOMAIN h \ {c}
      /\ g[b] = [h[b] EXCEPT !.size = h[b].size + Header + h[c].size, !.next = nx]
      /\ \A x \in DOMAIN h \ {b, c} : g[x] = IF x = nx THEN [h[x] EXCEPT !.prev = b] ELSE h[x]
      /\ g = [x \in DOMAIN g |-> g[x]]
  BY <1>1 DEF Absorb
<1> HIDE DEF g, c, nx
<1>4. /\ g[b].size = h[b].size + Header + h[c].size
      /\ g[b].next = nx /\ g[b].prev = h[b].prev
      /\ \A x \in DOMAIN h \ {b, c} : /\ g[x].size = h[x].size
                                      /\ g[x].next = h[x].next
                                      /\ g[x].prev = IF x = nx THEN b ELSE h[x].prev
  BY <1>2, <1>3 DEF Headers
<1>5. \A x \in DOMAIN h \ {c} : g[x].free <=> h[x].free
  <2>1. g[b].free <=> h[b].free
    BY <1>2, <1>3, Zenon DEF Headers
  <2>2. \A x \in DOMAIN h \ {b, c} : g[x].free <=> h[x].free
    BY <1>2, <1>3, Zenon DEF Headers
  <2> QED
    BY <2>1, <2>2
<1>6. Merged(h, g, b, c)
  BY <1>1, <1>2, <1>3, <1>4, <1>5 DEF Merged, nx
<1>7. HeadersOK(g)
  <2>1. DOMAIN g \subseteq Nat
    BY <1>3 DEF Chained, HeadersOK
  <2>2. ASSUME NEW x \in DOMAIN g
        PROVE  /\ g[x].size \in Nat /\ g[x].next \in Links(g) /\ g[x].prev \in Links(g)
    <3>1. x \in DOMAIN h /\ x # c /\ h[x] \in Headers(h) /\ h[c] \in Headers(h)
      BY <1>1, <1>2, <1>3
    <3>2. CASE x = b
      <4>1. g[b].size \in Nat
        BY <1>4, <3>1, <3>2, HeapAssumption DEF Headers
      <4>2. nx \in Links(g)
        BY <1>1, <1>3 DEF Links
      <4>3. h[b].prev # c /\ h[b].prev \in Links(h)
        BY <1>0, <1>1, <3>1, <3>2 DEF Headers
      <4>4. h[b].prev \in Links(g)
        BY <1>3, <4>3 DEF Links
      <4> QED
        BY <1>4, <3>2, <4>1, <4>2, <4>4
    <3>3. CASE x # b
      <4>1. h[x].size \in Nat /\ h[x].next \in Links(h) /\ h[x].prev \in Links(h)
        BY <3>1 DEF Headers
      <4>2. h[x].next # c /\ (x # nx => h[x].prev # c)
        BY <1>2, <3>1, <3>3
      <4>3. b \in Links(g) /\ h[x].next \in Links(g) /\ (x # nx => h[x].prev \in Links(g))
        BY <1>1, <1>3, <4>1, <4>2 DEF Links
      <4> QED
        BY <1>4, <3>1, <3>3, <4>1, <4>3
    <3> QED
      BY <3>2, <3>3
  <2>3. ASSUME NEW x \in DOMAIN g PROVE g[x] \in Headers(g)
    <3>1. x \in DOMAIN h /\ x # c /\ h[x] \in Headers(h) /\ b \in DOMAIN g
      BY <1>1, <1>2, <1>3
    <3>2. CASE x = b
      <4>1. PICK n, m : g[b] = [h[b] EXCEPT !.size = n, !.next = m]
        BY <1>3
      <4>2. g[b].size = n /\ g[b].next = m /\ g[b].prev = h[b].prev
        BY <3>1, <3>2, <4>1 DEF Headers
      <4>3. n \in Nat /\ m \in Links(g) /\ h[b].prev \in Links(g)
        BY <2>2, <3>1, <4>2
      <4> QED
        BY <3>1, <3>2, <4>1, <4>3 DEF Headers
    <3>3. CASE x # b
      <4>1. g[x] = [h[x] EXCEPT !.prev = b] \/ g[x] = h[x]
        BY <1>3, <3>1, <3>3
      <4>2. h[x].next \in Links(g) /\ b \in Links(g)
        BY <1>4, <2>2, <3>1, <3>3 DEF Links
      <4>3. CASE g[x] = [h[x] EXCEPT !.prev = b]
        BY <3>1, <4>2, <4>3 DEF Headers
      <4>4. CASE g[x] = h[x]
        <5>1. h[x].prev \in Links(g)
          BY <2>2, <4>4
        <5> QED
          BY <3>1, <4>2, <4>4, <5>1 DEF Headers
      <4> QED
        BY <4>1, <4>3, <4>4
    <3> QED
      BY <3>2, <3>3
  <2> QED
    BY <1>3, <2>1, <2>3 DEF HeadersOK
<1>8. LinksOK(g)
  <2>2. ASSUME NEW x \in DOMAIN g, g[x].next # Nil PROVE g[g[x].next].prev = x
    <3>1. CASE x = b
      BY <2>2, <3>1, <1>1, <1>3, <1>4
    <3>2. CASE x # b
      <4>1. x \in DOMAIN h \ {b, c} /\ h[x].next # Nil /\ g[x].next = h[x].next
        BY <2>2, <3>2, <1>3, <1>4
      <4>2. h[x].next \in DOMAIN h \ {c} /\ h[h[x].next].prev = x
        BY <1>0, <1>2, <4>1
      <4>3. h[x].next # nx \/ nx = Nil
        BY <4>1, <4>2, <1>1
      <4> QED
        BY <4>1, <4>2, <4>3, <1>1, <1>4
    <3> QED
      BY <3>1, <3>2
  <2>3. ASSUME NEW x \in DOMAIN g, g[x].prev # Nil PROVE g[g[x].prev].next = x
    <3>1. CASE x = b
      <4>1. h[b].prev # Nil /\ h[b].prev \in DOMAIN h /\ h[h[b].prev].next = b /\ h[b].prev # b
        BY <1>0, <2>3, <3>1, <1>4
      <4>2. h[b].prev # c
        BY <4>1, <1>0, <1>1 DEF nx
      <4> QED
        BY <4>1, <4>2, <3>1, <1>4
    <3>2. CASE x # b /\ x = nx
      BY <3>2, <1>1, <1>3, <1>4
    <3>3. CASE x # b /\ x # nx
      <4>1. x \in DOMAIN h \ {b, c} /\ g[x].prev = h[x].prev /\ h[x].prev # Nil
        BY <2>3, <3>3, <1>3, <1>4
      <4>2. h[x].prev \in DOMAIN h /\ h[h[x].prev].next = x /\ h[x].prev # c
        BY <1>0, <1>2, <3>3, <4>1
      <4>3. h[x].prev # b
        BY <4>1, <4>2 DEF c
      <4> QED
        BY <4>1, <4>2, <4>3, <1>4
    <3> QED
      BY <3>1, <3>2, <3>3
  <2> QED
    BY <2>2, <2>3 DEF LinksOK
<1>9. Upwards(g)
  <2> SUFFICES ASSUME NEW x \in DOMAIN g, g[x].next # Nil PROVE g[x].next > x
    BY DEF Upwards
  <2>1. CASE x = b
    BY <1>1, <1>4, <2>1
  <2>2. CASE x # b
    BY <1>0, <1>3, <1>4, <2>2
  <2> QED
    BY <2>1, <2>2
<1> QED
  BY <1>6, <1>7, <1>8, <1>9 DEF Chained, c, g

(* Appending an area above everything keeps the links. *)
LEMMA AppendedChained ==
  ASSUME NEW h, Chained(h), NEW a \in Nat, \A x \in DOMAIN h : x < a, HasLast(h),
         \A x, y \in DOMAIN h : h[x].next = Nil /\ h[y].next = Nil => x = y
  PROVE  LET g == Appended(h, a) IN Chained(g) /\ \E t : Extended(h, g, a, t)
<1> DEFINE t == CHOOSE x \in DOMAIN h : h[x].next = Nil
           g == Appended(h, a)
<1>0. /\ Header \in Nat \ {0} /\ Page \in Nat /\ Header < Page
      /\ \A x \in DOMAIN h : h[x] \in Headers(h) /\ x \in Nat
  BY HeapAssumption DEF Chained, HeadersOK
<1>1. t \in DOMAIN h /\ h[t].next = Nil
  BY DEF HasLast
<1>2. a \notin DOMAIN h /\ a # Nil
  BY <1>0 DEF Nil
<1>3. \A x \in DOMAIN h : h[x].next = Nil => x = t
  BY <1>1
<1>4. /\ DOMAIN g = DOMAIN h \cup {a}
      /\ g[a] = [FirstBlock EXCEPT !.prev = t]
      /\ g[t] = [h[t] EXCEPT !.next = a]
      /\ \A x \in DOMAIN h \ {t} : g[x] = h[x]
      /\ g = [x \in DOMAIN g |-> g[x]]
  BY <1>1, <1>2, <1>3 DEF Appended
<1>5. g[a] = [size |-> Page - Header, free |-> TRUE, next |-> Nil, prev |-> t]
  BY <1>4 DEF FirstBlock
<1> HIDE DEF g, t
<1>6. /\ g[a].size = Page - Header /\ g[a].next = Nil /\ g[a].prev = t /\ g[a].free
  BY <1>5
<1>7. /\ g[t].size = h[t].size /\ g[t].prev = h[t].prev /\ g[t].next = a
  BY <1>0, <1>1, <1>4 DEF Headers
<1>8. g[t].free <=> h[t].free
  BY <1>0, <1>1, <1>4, Zenon DEF Headers
<1>9. Extended(h, g, a, t)
  BY <1>1, <1>2, <1>4, <1>6, <1>7, <1>8 DEF Extended
<1>10. HeadersOK(g)
  <2>1. DOMAIN g \subseteq Nat
    BY <1>0, <1>4
  <2>2. ASSUME NEW x \in DOMAIN g PROVE g[x] \in Headers(g)
    <3>1. Links(h) \subseteq Links(g) /\ a \in Links(g) /\ Nil \in Links(g) /\ t \in Links(g)
      BY <1>1, <1>4 DEF Links
    <3>2. CASE x = a
      <4> DEFINE n == Page - Header
      <4>1. n \in Nat /\ TRUE \in BOOLEAN
        BY <1>0
      <4>2. g[a] = [size |-> n, free |-> TRUE, next |-> Nil, prev |-> t]
        BY <1>5
      <4> HIDE DEF n
      <4> QED
        BY <3>1, <3>2, <4>1, <4>2 DEF Headers
    <3>3. CASE x = t
      BY <1>0, <1>1, <1>4, <3>1, <3>3 DEF Headers
    <3>4. CASE x \in DOMAIN h \ {t}
      BY <1>0, <1>4, <3>1, <3>4 DEF Headers
    <3> QED
      BY <1>4, <3>2, <3>3, <3>4
  <2> QED
    BY <1>4, <2>1, <2>2 DEF HeadersOK
<1>11. /\ Nil \notin DOMAIN h
       /\ \A x \in DOMAIN h : h[x].next # Nil => /\ h[x].next \in DOMAIN h /\ h[x].next > x
                                                 /\ h[h[x].next].prev = x
       /\ \A x \in DOMAIN h : h[x].prev # Nil => /\ h[x].prev \in DOMAIN h
                                                 /\ h[h[x].prev].next = x
  BY ChainFacts
<1>12. LinksOK(g)
  <2>2. ASSUME NEW x \in DOMAIN g, g[x].next # Nil PROVE g[g[x].next].prev = x
    <3>1. CASE x = a
      BY <3>1, <2>2, <1>6
    <3>2. CASE x = t
      BY <3>2, <1>6, <1>7
    <3>3. CASE x \in DOMAIN h \ {t}
      <4>1. g[x].next = h[x].next /\ h[x].next \in DOMAIN h /\ h[h[x].next].prev = x
        BY <3>3, <2>2, <1>4, <1>11
      <4>2. g[h[x].next].prev = h[h[x].next].prev
        BY <4>1, <1>4, <1>7
      <4> QED
        BY <4>1, <4>2
    <3> QED
      BY <3>1, <3>2, <3>3, <1>4
  <2>3. ASSUME NEW x \in DOMAIN g, g[x].prev # Nil PROVE g[g[x].prev].next = x
    <3>1. CASE x = a
      BY <3>1, <1>6, <1>7
    <3>2. CASE x \in DOMAIN h
      <4>1. g[x].prev = h[x].prev
        BY <3>2, <1>4, <1>7
      <4>2. h[x].prev \in DOMAIN h /\ h[h[x].prev].next = x
        BY <4>1, <2>3, <3>2, <1>11
      <4>3. h[x].prev # t
        BY <4>2, <3>2, <1>1, <1>11
      <4> QED
        BY <4>1, <4>2, <4>3, <1>4
    <3> QED
      BY <3>1, <3>2, <1>4
  <2> QED
    BY <2>2, <2>3 DEF LinksOK
<1>13. Upwards(g)
  <2> SUFFICES ASSUME NEW x \in DOMAIN g, g[x].next # Nil PROVE g[x].next > x
    BY DEF Upwards
  <2>1. CASE x = a
    BY <1>6, <2>1
  <2>2. CASE x = t
    <3>1. t \in Nat /\ t < a
      BY <1>0, <1>1
    <3> QED
      BY <1>7, <2>2, <3>1
  <2>3. CASE x \in DOMAIN h \ {t}
    BY <1>4, <1>11, <2>3
  <2> QED
    BY <1>4, <2>1, <2>2, <2>3
<1> QED
  BY <1>9, <1>10, <1>12, <1>13 DEF Chained, g

-----------------------------------------------------------------------------

(* Rounding a size up gives no smaller size. *)
LEMMA RoundedUp == \A size \in Nat : Rounded(size) \in Nat /\ Rounded(size) >= size
<1> SUFFICES ASSUME NEW size \in Nat PROVE Rounded(size) \in Nat /\ Rounded(size) >= size
  OBVIOUS
<1>1. Align \in Nat \ {0}
  BY HeapAssumption
<1> DEFINE q == (size + Align - 1) \div Align
           r == (size + Align - 1) % Align
<1>2. q \in Nat /\ r \in 0..(Align - 1) /\ size + Align - 1 = Align * q + r
  BY <1>1
<1>3. q * Align = Align * q /\ q * Align \in Nat
  BY <1>1, <1>2
<1> HIDE DEF q, r
<1>4. q * Align >= size
  BY <1>1, <1>2, <1>3
<1> QED
  BY <1>3, <1>4 DEF Rounded, q

(* Pages come in the order of their addresses. *)
LEMMA PageOrder == \A i, j \in Nat : i <= j => i * Page <= j * Page /\ i * Page \in Nat
  BY HeapAssumption

-----------------------------------------------------------------------------
(* The list as a whole, also with slab pages between its areas *)

Used(h) == {b \in DOMAIN h : ~h[b].free}
Rooted(h) == 0 \in DOMAIN h /\ \A b \in DOMAIN h : h[b].prev = Nil <=> b = 0
OneLast(h) ==
    HasLast(h) /\ \A b, c \in DOMAIN h : h[b].next = Nil /\ h[c].next = Nil => b = c

(* The block x and the next one are not both free, unless the next one     *)
(* begins an area; A are the addresses at which areas begin.               *)
PairOK(h, A, x) == h[x].free /\ h[x].next # Nil /\ h[h[x].next].free => h[x].next \in A

WholeList(h) == Chained(h) /\ Rooted(h) /\ OneLast(h)
GoodList(h, A) == WholeList(h) /\ \A x \in DOMAIN h : PairOK(h, A, x)

(* kmalloc_fit marks a free block, or cuts it. *)
LEMMA SplitGood ==
  ASSUME NEW h, NEW A, GoodList(h, A), NEW b \in DOMAIN h, h[b].free,
         NEW size \in Nat, h[b].size >= size,
         \A c \in DOMAIN h : b < c => End(h, b) <= c
  PROVE  LET g == Split(h, b, size)
         IN  /\ GoodList(g, A) /\ Used(g) = Used(h) \cup {b} /\ DOMAIN h \subseteq DOMAIN g
             /\ \A x \in DOMAIN g \ DOMAIN h : x \in Nat /\ b < x /\ x < End(h, b)
<1> DEFINE g == Split(h, b, size)
<1>1. Chained(g) /\ (Marked(h, g, b, FALSE) \/ \E new : Cut(h, g, b, size, new))
  BY SplitChained DEF GoodList, WholeList
<1> HIDE DEF g
<1>2. /\ \A x \in DOMAIN h : x \in Nat /\ h[x].free \in BOOLEAN
      /\ \A x \in DOMAIN h : h[x].next # Nil => h[x].next \in DOMAIN h /\ h[h[x].next].prev = x
      /\ Nil \notin DOMAIN h
  BY ChainFacts DEF GoodList, WholeList
<1>3. CASE Marked(h, g, b, FALSE)
  <2>1. /\ DOMAIN g = DOMAIN h /\ ~g[b].free
        /\ \A x \in DOMAIN h : /\ g[x].next = h[x].next /\ g[x].prev = h[x].prev
                               /\ x # b => (g[x].free <=> h[x].free)
    BY <1>3 DEF Marked
  <2>2. Rooted(g) /\ OneLast(g)
    BY <2>1 DEF GoodList, WholeList, Rooted, OneLast, HasLast
  <2>3. Used(g) = Used(h) \cup {b}
    BY <2>1 DEF Used
  <2>4. \A x \in DOMAIN g : g[x].free => h[x].free
    BY <2>1
  <2>5. \A x \in DOMAIN g : PairOK(g, A, x)
    BY <1>2, <2>1, <2>4 DEF GoodList, PairOK
  <2> QED
    BY <1>1, <2>1, <2>2, <2>3, <2>5 DEF GoodList, WholeList, g
<1>4. CASE \E new : Cut(h, g, b, size, new)
  <2>1. PICK new : Cut(h, g, b, size, new)
    BY <1>4
  <2>2. /\ new \in Nat /\ b < new /\ new < End(h, b) /\ new \notin DOMAIN h
        /\ DOMAIN g = DOMAIN h \cup {new}
        /\ g[new].next = h[b].next /\ g[new].prev = b /\ g[new].free
        /\ g[b].next = new /\ g[b].prev = h[b].prev /\ ~g[b].free
        /\ \A x \in DOMAIN h \ {b} : /\ g[x].next = h[x].next
                                     /\ g[x].prev = IF x = h[b].next THEN new ELSE h[x].prev
                                     /\ g[x].free <=> h[x].free
    BY <2>1 DEF Cut
  <2>3. b \in Nat /\ new # b /\ new # 0 /\ new # Nil /\ b # Nil
    BY <1>2, <2>2 DEF Nil
  <2>4. Rooted(g)
    <3>1. 0 \in DOMAIN h /\ \A x \in DOMAIN h : h[x].prev = Nil <=> x = 0
      BY DEF GoodList, WholeList, Rooted
    <3>2. \A x \in DOMAIN h \ {b} : x = h[b].next => x # 0
      BY <1>2, <2>3, <3>1
    <3>3. \A x \in DOMAIN h \ {b} : g[x].prev = Nil <=> x = 0
      BY <2>2, <2>3, <3>1, <3>2
    <3> QED
      BY <2>2, <2>3, <3>1, <3>3 DEF Rooted
  <2>5. OneLast(g)
    <3>1. /\ \E t \in DOMAIN h : h[t].next = Nil
          /\ \A x, y \in DOMAIN h : h[x].next = Nil /\ h[y].next = Nil => x = y
      BY DEF GoodList, WholeList, OneLast, HasLast
    <3>2. \E t \in DOMAIN g : g[t].next = Nil
      BY <2>2, <3>1
    <3>3. ASSUME NEW x \in DOMAIN g, NEW y \in DOMAIN g, g[x].next = Nil, g[y].next = Nil
          PROVE  x = y
      BY <2>2, <2>3, <3>1, <3>3
    <3> QED
      BY <3>2, <3>3 DEF OneLast, HasLast
  <2>6. Used(g) = Used(h) \cup {b}
    BY <2>2, <2>3 DEF Used
  <2>7. ASSUME NEW x \in DOMAIN g PROVE PairOK(g, A, x)
    <3>1. CASE x = b
      BY <2>2, <3>1 DEF PairOK
    <3>2. CASE x = new
      <4>1. PairOK(h, A, b) /\ (h[b].next # Nil => h[b].next \in DOMAIN h)
        BY <1>2 DEF GoodList
      <4>2. h[b].next # Nil /\ g[h[b].next].free => h[h[b].next].free
        BY <2>2, <4>1
      <4> QED
        BY <2>2, <3>2, <4>1, <4>2 DEF PairOK
    <3>3. CASE x \in DOMAIN h \ {b}
      <4>1. PairOK(h, A, x) /\ (h[x].next # Nil => h[x].next \in DOMAIN h)
        BY <1>2, <3>3 DEF GoodList
      <4>2. h[x].next # Nil /\ g[h[x].next].free => h[h[x].next].free
        BY <2>2, <4>1
      <4> QED
        BY <2>2, <3>3, <4>1, <4>2 DEF PairOK
    <3> QED
      BY <2>2, <3>1, <3>2, <3>3
  <2> QED
    BY <1>1, <2>2, <2>4, <2>5, <2>6, <2>7 DEF GoodList, WholeList, g
<1> QED
  BY <1>1, <1>3, <1>4

(* Merging two free blocks: the pair of the merged block and the one after *)
(* it is the pair the absorbed block was in.                               *)
LEMMA AbsorbGood ==
  ASSUME NEW h, WholeList(h), NEW b \in DOMAIN h, h[b].next # Nil, h[h[b].next].free, NEW A
  PROVE  LET c == h[b].next
             g == Absorb(h, b, c)
         IN  /\ WholeList(g) /\ Used(g) = Used(h) /\ Merged(h, g, b, c)
             /\ \A x \in DOMAIN g \ {b} : PairOK(h, A, x) => PairOK(g, A, x)
             /\ PairOK(h, A, c) => PairOK(g, A, b)
<1> DEFINE c == h[b].next
           g == Absorb(h, b, c)
<1>1. Chained(g) /\ Merged(h, g, b, c)
  BY AbsorbChained DEF WholeList
<1>2. /\ \A x \in DOMAIN h : x \in Nat
      /\ \A x \in DOMAIN h : h[x].next # Nil => h[x].next \in DOMAIN h /\ h[h[x].next].prev = x
      /\ Nil \notin DOMAIN h
  BY ChainFacts DEF WholeList
<1>3. /\ c \in DOMAIN h /\ c # b /\ h[c].prev = b /\ h[c].free
      /\ h[c].next # Nil => h[c].next \in DOMAIN h /\ h[c].next \notin {b, c}
  BY <1>1 DEF Merged
<1> HIDE DEF g
<1>4. /\ DOMAIN g = DOMAIN h \ {c} /\ b \in DOMAIN g
      /\ g[b].next = h[c].next /\ g[b].prev = h[b].prev
      /\ \A x \in DOMAIN h \ {b, c} : /\ g[x].next = h[x].next /\ h[x].next # c
                                      /\ g[x].prev = IF x = h[c].next THEN b ELSE h[x].prev
      /\ \A x \in DOMAIN h \ {c} : g[x].free <=> h[x].free
  BY <1>1, <1>3 DEF Merged
<1>5. Rooted(g)
  <2>1. 0 \in DOMAIN h /\ \A x \in DOMAIN h : h[x].prev = Nil <=> x = 0
    BY DEF WholeList, Rooted
  <2>2. c # 0 /\ b # Nil
    BY <1>2, <1>3, <2>1
  <2>3. \A x \in DOMAIN h \ {b, c} : x = h[c].next => x # 0
    BY <1>2, <1>3, <2>1
  <2> QED
    BY <1>4, <2>1, <2>2, <2>3 DEF Rooted
<1>6. OneLast(g)
  <2>1. /\ \E t \in DOMAIN h : h[t].next = Nil
        /\ \A x, y \in DOMAIN h : h[x].next = Nil /\ h[y].next = Nil => x = y
    BY DEF WholeList, OneLast, HasLast
  <2>2. \E t \in DOMAIN g : g[t].next = Nil
    BY <1>4, <2>1
  <2>3. ASSUME NEW x \in DOMAIN g, NEW y \in DOMAIN g, g[x].next = Nil, g[y].next = Nil
        PROVE  x = y
    BY <1>3, <1>4, <2>1, <2>3
  <2> QED
    BY <2>2, <2>3 DEF OneLast, HasLast
<1>7. Used(g) = Used(h)
  BY <1>3, <1>4 DEF Used
<1>8. ASSUME NEW x \in DOMAIN g \ {b}, PairOK(h, A, x) PROVE PairOK(g, A, x)
  <2>1. g[x].next = h[x].next /\ (h[x].next # Nil => h[x].next \in DOMAIN h \ {c})
    BY <1>2, <1>4
  <2>2. (g[x].free <=> h[x].free) /\ (h[x].next # Nil => (g[h[x].next].free <=> h[h[x].next].free))
    BY <1>4, <2>1
  <2> QED
    BY <1>8, <2>1, <2>2 DEF PairOK
<1>9. ASSUME PairOK(h, A, c) PROVE PairOK(g, A, b)
  <2>1. h[c].next # Nil => (g[h[c].next].free <=> h[h[c].next].free)
    BY <1>3, <1>4
  <2> QED
    BY <1>3, <1>4, <1>9, <2>1 DEF PairOK
<1> QED
  BY <1>1, <1>5, <1>6, <1>7, <1>8, <1>9 DEF WholeList, g

(* kfree coalesces the block with its free neighbours. *)
LEMMA FreedGood ==
  ASSUME NEW h, NEW A, GoodList(h, A), NEW b \in DOMAIN h
  PROVE  LET g == Freed(h, b)
         IN GoodList(g, A) /\ DOMAIN g \subseteq DOMAIN h /\ Used(g) = Used(h) \ {b}
<1> DEFINE f == [h EXCEPT ![b].free = TRUE]
           nx == f[b].next
           pv == f[b].prev
           g == IF nx # Nil /\ f[nx].free THEN Absorb(f, b, nx) ELSE f
           k == IF pv # Nil /\ f[pv].free THEN Absorb(g, pv, b) ELSE g
<1>1. Chained(f) /\ Marked(h, f, b, TRUE)
  BY FlagChained DEF GoodList, WholeList
<1> HIDE DEF f
<1>2. /\ DOMAIN f = DOMAIN h /\ f[b].free
      /\ \A x \in DOMAIN h : /\ f[x].next = h[x].next /\ f[x].prev = h[x].prev
                             /\ x # b => (f[x].free <=> h[x].free)
  BY <1>1 DEF Marked
<1>3. WholeList(f) /\ Used(f) = Used(h) \ {b}
  BY <1>1, <1>2 DEF GoodList, WholeList, Rooted, OneLast, HasLast, Used
<1>4. /\ Nil \notin DOMAIN f
      /\ \A x \in DOMAIN f : f[x].next # Nil => /\ f[x].next \in DOMAIN f /\ f[x].next # x
                                                /\ f[f[x].next].prev = x
      /\ \A x \in DOMAIN f : f[x].prev # Nil => /\ f[x].prev \in DOMAIN f /\ f[x].prev # x
                                                /\ f[f[x].prev].next = x
  BY <1>1, ChainFacts
<1>5. \A x \in DOMAIN f : x # b /\ f[x].next # b => PairOK(f, A, x)
  <2> SUFFICES ASSUME NEW x \in DOMAIN f, x # b, f[x].next # b PROVE PairOK(f, A, x)
    OBVIOUS
  <2>1. PairOK(h, A, x) /\ (h[x].next # Nil => h[x].next \in DOMAIN h /\ h[x].next # b)
    BY <1>2, <1>4 DEF GoodList
  <2> QED
    BY <1>2, <2>1 DEF PairOK
<1>6. /\ WholeList(g) /\ Used(g) = Used(f) /\ DOMAIN g \subseteq DOMAIN f
      /\ b \in DOMAIN g /\ g[b].prev = pv /\ g[b].free
      /\ \A x \in DOMAIN g : g[x].free <=> f[x].free
      /\ \A x \in DOMAIN g : g[x].next # b => PairOK(g, A, x)
  <2>1. CASE nx # Nil /\ f[nx].free
    <3> DEFINE a == Absorb(f, b, nx)
    <3>1. /\ WholeList(a) /\ Used(a) = Used(f) /\ Merged(f, a, b, nx)
          /\ \A x \in DOMAIN a \ {b} : PairOK(f, A, x) => PairOK(a, A, x)
          /\ PairOK(f, A, nx) => PairOK(a, A, b)
      BY <1>2, <1>3, <2>1, AbsorbGood
    <3>2. g = a
      BY <2>1
    <3> HIDE DEF a, g
    <3>3. /\ DOMAIN a = DOMAIN f \ {nx} /\ nx \in DOMAIN f /\ nx # b
          /\ a[b].prev = pv /\ f[nx].next # b
          /\ \A x \in DOMAIN a : a[x].free <=> f[x].free
          /\ \A x \in DOMAIN a \ {b} : a[x].next = f[x].next
      <4>1. f[nx].next # Nil => f[nx].next # b
        BY <3>1 DEF Merged
      <4>2. f[nx].next # b
        BY <1>2, <1>4, <4>1
      <4> QED
        BY <3>1, <4>2 DEF Merged
    <3>4. PairOK(f, A, nx)
      BY <1>5, <3>3
    <3>5. ASSUME NEW x \in DOMAIN a, a[x].next # b PROVE PairOK(a, A, x)
      <4>1. CASE x = b
        BY <3>1, <3>4, <4>1
      <4>2. CASE x # b
        <5>1. PairOK(f, A, x)
          BY <1>5, <3>3, <3>5, <4>2
        <5> QED
          BY <3>1, <4>2, <5>1
      <4> QED
        BY <4>1, <4>2
    <3>6. b \in DOMAIN a /\ a[b].free
      BY <1>2, <3>3
    <3>7. DOMAIN a \subseteq DOMAIN f
      BY <3>3
    <3> QED
      BY <3>1, <3>2, <3>3, <3>5, <3>6, <3>7
  <2>2. CASE ~(nx # Nil /\ f[nx].free)
    <3>1. g = f
      BY <2>2
    <3>2. PairOK(f, A, b)
      BY <2>2 DEF PairOK
    <3> HIDE DEF g
    <3> QED
      BY <1>2, <1>3, <1>5, <3>1, <3>2
  <2> QED
    BY <2>1, <2>2
<1> HIDE DEF g
<1>7. /\ \A x \in DOMAIN g : g[x].next # Nil => /\ g[x].next \in DOMAIN g /\ g[x].next # x
                                                /\ g[g[x].next].prev = x
      /\ pv # Nil => pv \in DOMAIN g /\ pv # b /\ g[pv].next = b
      /\ b # Nil
  BY <1>6, ChainFacts DEF WholeList
<1>8. \A x \in DOMAIN g : g[x].next = b => x = pv
  BY <1>6, <1>7
<1>9. GoodList(k, A) /\ DOMAIN k \subseteq DOMAIN g /\ Used(k) = Used(g)
  <2>1. CASE pv # Nil /\ f[pv].free
    <3> DEFINE a == Absorb(g, pv, b)
    <3>1. /\ WholeList(a) /\ Used(a) = Used(g) /\ Merged(g, a, pv, b)
          /\ \A x \in DOMAIN a \ {pv} : PairOK(g, A, x) => PairOK(a, A, x)
          /\ PairOK(g, A, b) => PairOK(a, A, pv)
      <4>1. pv \in DOMAIN g /\ g[pv].next = b /\ g[pv].next # Nil /\ g[g[pv].next].free
        BY <1>6, <1>7, <2>1
      <4> QED
        BY <1>6, <4>1, AbsorbGood
    <3>2. k = a
      BY <2>1
    <3> HIDE DEF a, k
    <3>3. g[b].next # b
      BY <1>6, <1>7
    <3>4. DOMAIN a \subseteq DOMAIN g
      BY <3>1 DEF Merged
    <3>5. \A x \in DOMAIN a : PairOK(a, A, x)
      BY <1>6, <1>8, <3>1, <3>3, <3>4
    <3> QED
      BY <3>1, <3>2, <3>4, <3>5 DEF GoodList
  <2>2. CASE ~(pv # Nil /\ f[pv].free)
    <3>1. k = g
      BY <2>2
    <3> HIDE DEF k
    <3>2. ASSUME NEW x \in DOMAIN g PROVE PairOK(g, A, x)
      <4>1. CASE g[x].next # b
        BY <1>6, <4>1
      <4>2. CASE g[x].next = b
        <5>1. x = pv /\ pv # Nil
          BY <1>1, <1>2, <1>4, <1>6, <1>8, <4>2
        <5>2. ~g[x].free
          BY <1>6, <2>2, <5>1
        <5> QED
          BY <5>2 DEF PairOK
      <4> QED
        BY <4>1, <4>2
    <3> QED
      BY <1>6, <3>1, <3>2 DEF GoodList
  <2> QED
    BY <2>1, <2>2
<1>10. Freed(h, b) = k
  BY DEF Freed, merge_adjacent, f, g, k
<1> QED
  BY <1>2, <1>3, <1>6, <1>9, <1>10

(* kmalloc_grow adds a free block that begins an area. *)
LEMMA AppendedGood ==
  ASSUME NEW h, NEW A, NEW B, GoodList(h, A), A \subseteq B, NEW a \in Nat, a \in B,
         \A x \in DOMAIN h : x < a
  PROVE  LET g == Appended(h, a)
         IN  /\ GoodList(g, B) /\ Used(g) = Used(h) /\ DOMAIN g = DOMAIN h \cup {a}
             /\ \A x \in DOMAIN h : End(g, x) = End(h, x)
             /\ End(g, a) = a + Page
<1> DEFINE g == Appended(h, a)
<1>1. Chained(g) /\ \E t : Extended(h, g, a, t)
  BY AppendedChained DEF GoodList, WholeList, OneLast
<1>2. PICK t : Extended(h, g, a, t)
  BY <1>1
<1> HIDE DEF g
<1>3. /\ t \in DOMAIN h /\ h[t].next = Nil /\ a \notin DOMAIN h
      /\ DOMAIN g = DOMAIN h \cup {a}
      /\ g[a].size = Page - Header /\ g[a].next = Nil /\ g[a].prev = t /\ g[a].free
      /\ g[t].next = a
      /\ \A x \in DOMAIN h : /\ g[x].size = h[x].size
                             /\ g[x].prev = h[x].prev
                             /\ x # t => g[x].next = h[x].next
                             /\ g[x].free <=> h[x].free
  BY <1>2 DEF Extended
<1>4. /\ \A x \in DOMAIN h : x \in Nat
      /\ \A x \in DOMAIN h : h[x].next # Nil => h[x].next \in DOMAIN h
      /\ Nil \notin DOMAIN h /\ a # Nil /\ a # 0
  <2>1. /\ \A x \in DOMAIN h : x \in Nat
        /\ \A x \in DOMAIN h : h[x].next # Nil => h[x].next \in DOMAIN h
        /\ Nil \notin DOMAIN h
    BY ChainFacts DEF GoodList, WholeList
  <2>2. 0 \in DOMAIN h
    BY DEF GoodList, WholeList, Rooted
  <2> QED
    BY <2>1, <2>2 DEF Nil
<1>5. Rooted(g) /\ OneLast(g)
  <2>1. Rooted(g)
    BY <1>3, <1>4 DEF GoodList, WholeList, Rooted
  <2>2. \A x \in DOMAIN g : g[x].next = Nil => x = a
    BY <1>3, <1>4 DEF GoodList, WholeList, OneLast
  <2> QED
    BY <1>3, <2>1, <2>2 DEF OneLast, HasLast
<1>6. Used(g) = Used(h)
  BY <1>3 DEF Used
<1>7. ASSUME NEW x \in DOMAIN g PROVE PairOK(g, B, x)
  <2>1. CASE x = a
    BY <1>3, <2>1 DEF PairOK
  <2>2. CASE x = t
    BY <1>3, <2>2 DEF PairOK
  <2>3. CASE x \in DOMAIN h \ {t}
    <3>1. PairOK(h, A, x) /\ g[x].next = h[x].next /\ (h[x].next # Nil => h[x].next \in DOMAIN h)
      BY <1>3, <1>4, <2>3 DEF GoodList
    <3>2. (g[x].free <=> h[x].free) /\ (h[x].next # Nil => (g[h[x].next].free <=> h[h[x].next].free))
      BY <1>3, <2>3, <3>1
    <3> QED
      BY <3>1, <3>2 DEF PairOK
  <2> QED
    BY <1>3, <2>1, <2>2, <2>3
<1>8. /\ \A x \in DOMAIN h : End(g, x) = End(h, x)
      /\ End(g, a) = a + Page
  <2>1. \A x \in DOMAIN h : End(g, x) = End(h, x)
    BY <1>3 DEF End
  <2>2. End(g, a) = a + Page
    BY <1>3, HeapAssumption DEF End
  <2> QED
    BY <2>1, <2>2
<1> QED
  BY <1>1, <1>3, <1>5, <1>6, <1>7, <1>8 DEF GoodList, WholeList, g

-----------------------------------------------------------------------------
(* The allocator's state *)

(* A non-empty set of natural numbers has a least element, which is Min's. *)
LEMMA MinIsLeast ==
    ASSUME NEW T \in SUBSET Nat, T # {}
    PROVE  Min(T) \in T /\ \A y \in T : Min(T) <= y
<1> DEFINE R == {ss \in Nat \X Nat : ss[1] < ss[2]}
<1>1. IsWellFoundedOn(R, Nat)
  BY NatLessThanWellFounded DEF OpToRel
<1>2. ASSUME NEW x \in Nat, NEW y \in Nat, y < x PROVE <<y, x>> \in R
  <2>1. <<y, x>> \in Nat \X Nat /\ <<y, x>>[1] < <<y, x>>[2]
    BY <1>2
  <2> QED
    BY <2>1, Zenon
<1> HIDE DEF R
<1>3. PICK x \in T : \A y \in T : ~ (<<y, x>> \in R)
  BY <1>1, WFMin
<1>4. ASSUME NEW y \in T PROVE x <= y
  <2>1. x \in Nat /\ y \in Nat
    OBVIOUS
  <2>2. y < x => <<y, x>> \in R
    BY <1>2, <2>1
  <2>3. ~(<<y, x>> \in R)
    BY <1>3
  <2>4. ~(y < x)
    BY <2>2, <2>3, Zenon
  <2> QED
    BY <2>1, <2>4
<1>5. \E z \in T : \A y \in T : z <= y
  BY <1>4
<1> QED
  BY <1>5 DEF Min

(* In which page an address lies. *)
LEMMA PageOf ==
    ASSUME NEW x \in Nat, NEW s \in Nat
    PROVE  /\ x \div Page \in Nat
           /\ x \div Page = s <=> s * Page <= x /\ x < (s + 1) * Page
<1>1. Page \in Nat \ {0}
  BY HeapAssumption
<1> DEFINE d == x \div Page
           r == x % Page
<1>2. d \in Nat /\ r \in 0..(Page - 1) /\ x = Page * d + r
  BY <1>1
<1>3. d * Page = Page * d /\ d * Page \in Nat /\ s * Page \in Nat
      /\ (d + 1) * Page = d * Page + Page /\ (s + 1) * Page = s * Page + Page
  BY <1>1, <1>2
<1> HIDE DEF d, r
<1>4. d * Page <= x /\ x < (d + 1) * Page
  BY <1>1, <1>2, <1>3
<1>5. ASSUME d < s PROVE x < s * Page
  <2>1. d + 1 \in Nat /\ d + 1 <= s
    BY <1>2, <1>5
  <2>2. (d + 1) * Page <= s * Page
    BY <2>1, PageOrder
  <2> QED
    BY <1>1, <1>2, <1>3, <1>4, <2>2
<1>6. ASSUME s < d PROVE (s + 1) * Page <= x
  <2>1. s + 1 \in Nat /\ s + 1 <= d
    BY <1>2, <1>6
  <2>2. (s + 1) * Page <= d * Page
    BY <1>2, <2>1, PageOrder
  <2> QED
    BY <1>1, <1>2, <1>3, <1>4, <2>2
<1>7. d = s <=> s * Page <= x /\ x < (s + 1) * Page
  <2>1. d < s \/ d = s \/ s < d
    BY <1>2
  <2>2. CASE d < s
    BY <1>2, <1>3, <1>5, <2>2
  <2>3. CASE d = s
    BY <1>4, <2>3
  <2>4. CASE s < d
    <3>1. (s + 1) * Page <= x /\ (s + 1) * Page \in Nat
      BY <1>1, <1>3, <1>6, <2>4
    <3>2. ~(x < (s + 1) * Page)
      BY <3>1
    <3>3. d # s
      BY <1>2, <2>4
    <3> QED
      BY <3>2, <3>3
  <2> QED
    BY <2>1, <2>2, <2>3, <2>4
<1> QED
  BY <1>2, <1>7 DEF d

AreaStarts == {a * Page : a \in Areas}

(* The list is good; nobody but a krealloc in progress remembers a block;  *)
(* while a kmalloc is in progress the blocks do not overlap; no block      *)
(* begins in a slab page; what clients hold is the blocks in use, and      *)
(* objects in slab pages.                                                  *)
Sizing ==
    /\ mapped \in 1..MaxPages /\ SlabPages \subseteq 0..(mapped - 1)
    /\ \A s \in SlabPages : slabs[s] \in ObjectSizes
    /\ free_list \in [ObjectSizes -> SUBSET Nat]
    /\ held \subseteq Nat /\ want \in Nat /\ panicked \in BOOLEAN

BlocksOutsideSlabs == \A b \in Blocks : b \div Page \notin SlabPages
HeldIsUsed == Used(hdr) = {p \in held : p \div Page \notin SlabPages}
OldIsUsed == old = Nil \/ (old \in Used(hdr) /\ want > 0)

SoundInv ==
    /\ GoodList(hdr, AreaStarts) /\ Sizing /\ OldIsUsed /\ (want > 0 => BlocksApart)
    /\ BlocksOutsideSlabs /\ HeldIsUsed /\ ObjectsApart

LEMMA InitSoundInv == Init => SoundInv
<1> SUFFICES ASSUME Init PROVE SoundInv
  OBVIOUS
<1>1. /\ hdr = [b \in {0} |-> FirstBlock] /\ mapped = 1 /\ SlabPages = {} /\ held = {}
      /\ want = 0 /\ old = Nil /\ panicked = FALSE /\ free_list = [c \in ObjectSizes |-> {}]
  BY DEF Init, SlabPages
<1>2. /\ DOMAIN hdr = {0} /\ hdr[0] = FirstBlock
      /\ hdr[0].next = Nil /\ hdr[0].prev = Nil /\ hdr[0].free
  BY <1>1 DEF FirstBlock
<1>3. Chained(hdr)
  <2>1. FirstBlock \in Headers(hdr)
    BY HeapAssumption DEF FirstBlock, Headers, Links
  <2>2. HeadersOK(hdr)
    BY <1>1, <1>2, <2>1 DEF HeadersOK
  <2> QED
    BY <1>2, <2>2 DEF Chained, LinksOK, Upwards
<1>4. GoodList(hdr, AreaStarts)
  BY <1>2, <1>3 DEF GoodList, WholeList, Rooted, OneLast, HasLast, PairOK
<1>5. Used(hdr) = {}
  BY <1>2 DEF Used
<1>6. Sizing
  <2>1. 1 \in 1..MaxPages
    BY HeapAssumption
  <2>2. mapped \in 1..MaxPages
    BY <1>1, <2>1, Zenon
  <2>3. SlabPages \subseteq 0..(mapped - 1) /\ \A s \in SlabPages : slabs[s] \in ObjectSizes
    BY <1>1, Zenon
  <2>4. free_list \in [ObjectSizes -> SUBSET Nat]
    BY <1>1
  <2>5. held \subseteq Nat /\ want \in Nat
    BY <1>1
  <2>6. panicked \in BOOLEAN
    BY <1>1, Zenon
  <2> QED
    BY <2>2, <2>3, <2>4, <2>5, <2>6, Zenon DEF Sizing
<1>7. OldIsUsed /\ ~(want > 0) /\ BlocksOutsideSlabs /\ HeldIsUsed /\ ObjectsApart
  BY <1>1, <1>5 DEF OldIsUsed, BlocksOutsideSlabs, HeldIsUsed, ObjectsApart
<1> QED
  BY <1>4, <1>6, <1>7 DEF SoundInv

(* What the blocks' apartness says of pages. *)
LEMMA ApartPages ==
    ASSUME SoundInv, BlocksApart
    PROVE  /\ \A b \in Blocks : /\ b \in Nat /\ End(hdr, b) \in Nat /\ b < End(hdr, b)
                                /\ End(hdr, b) <= mapped * Page
                                /\ \A c \in Blocks : b < c => End(hdr, b) <= c
           /\ mapped \in Nat /\ mapped * Page \in Nat /\ mapped \notin SlabPages
           /\ \A p \in held : p \in Nat /\ p \div Page \in Nat /\ p \div Page # mapped
<1>1. \A b \in Blocks : b \in Nat /\ End(hdr, b) \in Nat /\ b < End(hdr, b)
  BY ChainFacts DEF SoundInv, GoodList, WholeList, Blocks
<1>2. mapped \in Nat /\ mapped * Page \in Nat /\ mapped \notin SlabPages
  BY HeapAssumption, PageOrder DEF SoundInv, Sizing
<1>3. ASSUME NEW p \in held PROVE p \in Nat /\ p \div Page \in Nat /\ p \div Page # mapped
  <2>1. p \in Nat
    BY DEF SoundInv, Sizing
  <2>2. CASE p \div Page \in SlabPages
    BY <1>2, <2>1, <2>2, PageOf
  <2>3. CASE p \div Page \notin SlabPages
    <3>1. p \in Blocks
      BY <2>3 DEF SoundInv, HeldIsUsed, Used, Blocks
    <3>2. End(hdr, p) <= mapped * Page /\ End(hdr, p) \in Nat /\ p < End(hdr, p)
      BY <1>1, <3>1 DEF BlocksApart
    <3>3. ~(mapped * Page <= p)
      BY <1>2, <2>1, <3>2
    <3> QED
      BY <1>2, <2>1, <3>3, PageOf
  <2> QED
    BY <2>2, <2>3
<1> QED
  BY <1>1, <1>2, <1>3 DEF BlocksApart

(* The cache that serves a size is one of the caches. *)
LEMMA CacheOf ==
    ASSUME NEW size \in Sizes, Caches(size) # {}
    PROVE  Min(Caches(size)) \in ObjectSizes /\ Min(Caches(size)) \in 1..Page
<1>1. ObjectSizes \subseteq 1..Page /\ Page \in Nat
  BY HeapAssumption, Zenon
<1>2. 1..Page \subseteq Nat
  BY <1>1
<1>3. Caches(size) \subseteq ObjectSizes
  BY DEF Caches
<1>4. Caches(size) \in SUBSET Nat
  BY <1>1, <1>2, <1>3, Zenon
<1>5. Min(Caches(size)) \in Caches(size)
  BY <1>4, MinIsLeast
<1> QED
  BY <1>1, <1>3, <1>5, Zenon

(* An object leaves its free list for a client. *)
LEMMA SlabAllocSound ==
    ASSUME SoundInv, NEW size \in Sizes, slab_alloc(size) PROVE SoundInv'
<1> DEFINE c == Min(Caches(size))
           o == Min(free_list[c])
<1>1. /\ Caches(size) # {} /\ free_list[c] # {} /\ held' = held \cup {o}
      /\ free_list' = [free_list EXCEPT ![c] = @ \ {o}]
      /\ UNCHANGED <<hdr, mapped, slabs, want, old, panicked>>
  BY DEF slab_alloc
<1>2. c \in ObjectSizes
  BY <1>1, CacheOf
<1>3. o \in free_list[c] /\ o \in Nat /\ free_list \in [ObjectSizes -> SUBSET Nat]
  <2>1. free_list \in [ObjectSizes -> SUBSET Nat]
    BY DEF SoundInv, Sizing
  <2>2. free_list[c] \in SUBSET Nat
    BY <1>2, <2>1
  <2> QED
    BY <1>1, <2>1, <2>2, MinIsLeast
<1> HIDE DEF c, o
<1>4. o \div Page \in SlabPages /\ slabs[o \div Page] = c
  BY <1>2, <1>3 DEF SoundInv, ObjectsApart
<1>5. SlabPages' = SlabPages /\ Blocks' = Blocks /\ AreaStarts' = AreaStarts
      /\ Used(hdr') = Used(hdr) /\ BlocksApart' = BlocksApart
  BY <1>1 DEF SlabPages, Blocks, AreaStarts, Areas, BlocksApart
<1>6. Sizing'
  BY <1>1, <1>2, <1>3, <1>5 DEF SoundInv, Sizing
<1>7. HeldIsUsed'
  BY <1>1, <1>4, <1>5 DEF SoundInv, HeldIsUsed
<1>8. ObjectsApart'
  <2> SUFFICES ASSUME NEW k \in ObjectSizes
               PROVE  /\ free_list'[k] \cap held' = {}
                      /\ \A x \in free_list'[k] : x \div Page \in SlabPages' /\ slabs'[x \div Page] = k
    BY DEF ObjectsApart
  <2>1. /\ free_list[k] \cap held = {}
        /\ \A x \in free_list[k] : x \div Page \in SlabPages /\ slabs[x \div Page] = k
    BY DEF SoundInv, ObjectsApart
  <2>2. free_list'[k] = IF k = c THEN free_list[k] \ {o} ELSE free_list[k]
    BY <1>1, <1>2, <1>3
  <2>3. o \notin free_list'[k]
    BY <1>4, <2>1, <2>2
  <2> QED
    BY <1>1, <1>5, <2>1, <2>2, <2>3
<1> QED
  BY <1>1, <1>5, <1>6, <1>7, <1>8 DEF SoundInv, OldIsUsed, BlocksOutsideSlabs

(* The objects of a fresh slab page lie in it. *)
LEMMA ObjectsInPage ==
    ASSUME NEW m \in Nat, NEW c \in 1..Page, NEW i \in 0..((Page \div c) - 1)
    PROVE  m * Page + i * c \in Nat /\ (m * Page + i * c) \div Page = m
<1>1. Page \in Nat \ {0} /\ c \in Nat \ {0} /\ c <= Page
  BY HeapAssumption
<1> DEFINE d == Page \div c
           r == Page % c
           p == i * c
           M == m * Page
<1>2. d \in Nat /\ r \in 0..(c - 1) /\ Page = c * d + r
  BY <1>1
<1>3. i \in Nat /\ i + 1 <= d
  BY <1>2
<1> HIDE DEF d, r
<1>4. p \in Nat /\ M \in Nat /\ (i + 1) * c = p + c /\ (m + 1) * Page = M + Page
  BY <1>1, <1>3
<1>5. (i + 1) * c <= d * c /\ d * c = c * d /\ d * c \in Nat
  <2>1. \A x, y, z \in Nat : x <= y => x * z <= y * z /\ y * z = z * y /\ y * z \in Nat
    OBVIOUS
  <2> QED
    BY <1>1, <1>2, <1>3, <2>1
<1> HIDE DEF p, M
<1>6. p < Page
  BY <1>1, <1>2, <1>4, <1>5
<1>7. M + p \in Nat /\ M <= M + p /\ M + p < M + Page
  BY <1>1, <1>4, <1>6
<1>8. (M + p) \div Page = m
  <2>1. m * Page <= M + p /\ M + p < (m + 1) * Page
    BY <1>4, <1>7 DEF M
  <2> QED
    BY <1>7, <2>1, PageOf
<1> QED
  BY <1>7, <1>8 DEF M, p

(* A fresh slab page lies above everything. *)
LEMMA SlabGrowSound ==
    ASSUME SoundInv, NEW size \in Sizes, slab_grow(size) PROVE SoundInv'
<1> DEFINE c == Min(Caches(size))
           M == mapped * Page
           objects == {M + i * c : i \in 0..((Page \div c) - 1)}
<1>1. /\ BlocksApart /\ want = 0 /\ Caches(size) # {} /\ mapped < MaxPages
      /\ held' = held \cup {M}
      /\ free_list' = [free_list EXCEPT ![c] = objects \ {M}]
      /\ slabs' = [s \in SlabPages \cup {mapped} |-> IF s = mapped THEN c ELSE slabs[s]]
      /\ mapped' = mapped + 1
      /\ UNCHANGED <<hdr, want, old, panicked>>
  BY DEF slab_grow, Idle
<1>2. c \in ObjectSizes /\ c \in 1..Page
  BY <1>1, CacheOf
<1>3. /\ mapped \in Nat /\ M \in Nat /\ mapped \notin SlabPages
      /\ \A b \in Blocks : b \in Nat /\ ~(M <= b)
      /\ \A p \in held : p \in Nat /\ p \div Page # mapped
  <2>1. \A b \in Blocks : b \in Nat /\ End(hdr, b) \in Nat /\ b < End(hdr, b) /\ End(hdr, b) <= M
    BY <1>1, ApartPages
  <2>2. mapped \in Nat /\ M \in Nat /\ mapped \notin SlabPages
        /\ \A p \in held : p \in Nat /\ p \div Page # mapped
    BY <1>1, ApartPages
  <2> HIDE DEF M
  <2>3. \A b \in Blocks : ~(M <= b)
    BY <2>1, <2>2
  <2> QED
    BY <2>1, <2>2, <2>3
<1>4. \A o \in objects : o \in Nat /\ o \div Page = mapped
  BY <1>2, <1>3, ObjectsInPage
<1>5. M \div Page = mapped
  <2>1. M <= M /\ M < (mapped + 1) * Page
    BY <1>3, HeapAssumption
  <2> QED
    BY <1>3, <2>1, PageOf
<1> HIDE DEF c, M, objects
<1>6. /\ SlabPages' = SlabPages \cup {mapped} /\ slabs'[mapped] = c
      /\ \A s \in SlabPages : slabs'[s] = slabs[s]
  BY <1>1, <1>3 DEF SlabPages
<1>7. Areas' = Areas
  BY <1>1, <1>3, <1>6 DEF Areas
<1>8. Blocks' = Blocks /\ AreaStarts' = AreaStarts /\ Used(hdr') = Used(hdr)
  BY <1>1, <1>7 DEF Blocks, AreaStarts
<1>9. Sizing'
  <2>1. /\ mapped \in 1..MaxPages /\ SlabPages \subseteq 0..(mapped - 1) /\ MaxPages \in Nat
        /\ \A s \in SlabPages : slabs[s] \in ObjectSizes
        /\ free_list \in [ObjectSizes -> SUBSET Nat]
        /\ held \subseteq Nat /\ want \in Nat /\ panicked \in BOOLEAN
    BY HeapAssumption DEF SoundInv, Sizing
  <2>2. mapped' \in 1..MaxPages /\ SlabPages' \subseteq 0..(mapped' - 1)
    BY <1>1, <1>6, <2>1
  <2>3. free_list' \in [ObjectSizes -> SUBSET Nat]
    BY <1>1, <1>2, <1>4, <2>1
  <2> QED
    BY <1>1, <1>2, <1>3, <1>6, <2>1, <2>2, <2>3 DEF Sizing
<1>10. BlocksOutsideSlabs'
  <2>1. \A b \in Blocks : b \div Page # mapped
    BY <1>3, PageOf DEF M
  <2> QED
    BY <1>6, <1>8, <2>1 DEF SoundInv, BlocksOutsideSlabs
<1>11. HeldIsUsed'
  BY <1>1, <1>3, <1>5, <1>6, <1>8 DEF SoundInv, HeldIsUsed
<1>12. ObjectsApart'
  <2> SUFFICES ASSUME NEW k \in ObjectSizes
               PROVE  /\ free_list'[k] \cap held' = {}
                      /\ \A x \in free_list'[k] : x \div Page \in SlabPages' /\ slabs'[x \div Page] = k
    BY DEF ObjectsApart
  <2>1. CASE k = c
    <3>1. free_list'[k] = objects \ {M}
      BY <1>1, <1>2, <2>1 DEF SoundInv, Sizing
    <3> QED
      BY <1>1, <1>3, <1>4, <1>6, <2>1, <3>1
  <2>2. CASE k # c
    <3>1. free_list'[k] = free_list[k]
      BY <1>1, <2>2 DEF SoundInv, Sizing
    <3>2. /\ free_list[k] \cap held = {}
          /\ \A x \in free_list[k] : x \div Page \in SlabPages /\ slabs[x \div Page] = k
      BY DEF SoundInv, ObjectsApart
    <3>3. M \notin free_list[k]
      BY <1>3, <1>5, <3>2
    <3> QED
      BY <1>1, <1>6, <3>1, <3>2, <3>3
  <2> QED
    BY <2>1, <2>2
<1>13. OldIsUsed' /\ ~(want' > 0)
  BY <1>1, <1>8 DEF SoundInv, OldIsUsed
<1> QED
  BY <1>1, <1>8, <1>9, <1>10, <1>11, <1>12, <1>13 DEF SoundInv

(* kmalloc takes a block that fits; krealloc then frees its old one. *)
LEMMA FitSound == ASSUME SoundInv, kmalloc_fit PROVE SoundInv'
<1>1. PICK b \in Fits :
         /\ hdr' = IF old = Nil THEN Split(hdr, b, want) ELSE Freed(Split(hdr, b, want), old)
         /\ held' = (held \ {old}) \cup {b}
  BY DEF kmalloc_fit
<1>2. /\ want > 0 /\ want' = 0 /\ old' = Nil /\ UNCHANGED <<mapped, slabs, free_list, panicked>>
  BY DEF kmalloc_fit
<1>3. b \in DOMAIN hdr /\ b \in Blocks /\ hdr[b].free /\ hdr[b].size >= want /\ want \in Nat
  BY DEF Fits, Blocks, SoundInv, Sizing
<1>4. BlocksApart /\ GoodList(hdr, AreaStarts)
  BY <1>2 DEF SoundInv
<1>5. /\ \A x \in Blocks : x \in Nat /\ End(hdr, x) \in Nat
      /\ \A x \in DOMAIN hdr : b < x => End(hdr, b) <= x
  BY <1>3, <1>4, ApartPages DEF Blocks
<1> DEFINE h == Split(hdr, b, want)
<1>6. /\ GoodList(h, AreaStarts) /\ Used(h) = Used(hdr) \cup {b} /\ DOMAIN hdr \subseteq DOMAIN h
      /\ \A x \in DOMAIN h \ DOMAIN hdr : x \in Nat /\ b < x /\ x < End(hdr, b)
  BY <1>3, <1>4, <1>5, SplitGood
<1> HIDE DEF h
<1>7. SlabPages' = SlabPages /\ AreaStarts' = AreaStarts
  BY <1>2 DEF SlabPages, AreaStarts, Areas
<1>8. ASSUME NEW x \in DOMAIN h PROVE x \div Page \notin SlabPages
  <2>1. CASE x \in DOMAIN hdr
    BY <2>1 DEF SoundInv, BlocksOutsideSlabs, Blocks
  <2>2. CASE x \notin DOMAIN hdr
    <3> SUFFICES ASSUME NEW s \in SlabPages, x \div Page = s PROVE FALSE
      OBVIOUS
    <3>1. s \in Nat /\ s + 1 \in Nat
      BY DEF SoundInv, Sizing
    <3>2. s * Page \in Nat /\ (s + 1) * Page \in Nat
      BY <3>1, PageOrder
    <3>3. x \in Nat /\ b < x /\ x < End(hdr, b) /\ b \in Nat /\ End(hdr, b) \in Nat
      BY <1>3, <1>5, <1>6, <2>2
    <3>4. End(hdr, b) <= s * Page \/ (s + 1) * Page <= b
      BY <1>3, <1>4 DEF BlocksApart
    <3>5. s * Page <= x /\ x < (s + 1) * Page
      BY <3>1, <3>3, PageOf
    <3> QED
      BY <3>2, <3>3, <3>4, <3>5
  <2> QED
    BY <2>1, <2>2
<1>9. old # Nil => old \in Used(hdr) /\ old \in DOMAIN h /\ old # b
  BY <1>3, <1>6 DEF SoundInv, OldIsUsed, Used
<1>10. /\ GoodList(hdr', AreaStarts) /\ DOMAIN hdr' \subseteq DOMAIN h
       /\ Used(hdr') = (Used(hdr) \ {old}) \cup {b}
  <2>1. CASE old = Nil
    <3>1. Nil \notin Used(hdr)
      BY <1>5 DEF Used, Blocks, Nil
    <3> QED
      BY <1>1, <1>6, <2>1, <3>1 DEF h
  <2>2. CASE old # Nil
    <3>1. /\ GoodList(Freed(h, old), AreaStarts) /\ DOMAIN Freed(h, old) \subseteq DOMAIN h
          /\ Used(Freed(h, old)) = Used(h) \ {old}
      BY <1>6, <1>9, <2>2, FreedGood
    <3>2. hdr' = Freed(h, old)
      BY <1>1, <2>2 DEF h
    <3> QED
      BY <1>6, <1>9, <2>2, <3>1, <3>2
  <2> QED
    BY <2>1, <2>2
<1>11. b \div Page \notin SlabPages /\ b \in Nat
  BY <1>3, <1>5 DEF SoundInv, BlocksOutsideSlabs
<1>12. HeldIsUsed'
  BY <1>1, <1>7, <1>10, <1>11 DEF SoundInv, HeldIsUsed
<1>13. Sizing'
  BY <1>1, <1>2, <1>7, <1>11 DEF SoundInv, Sizing
<1>14. ObjectsApart'
  <2>1. \A c \in ObjectSizes : \A o \in free_list[c] : o # b
    BY <1>11 DEF SoundInv, ObjectsApart
  <2> QED
    BY <1>1, <1>2, <1>7, <2>1 DEF SoundInv, ObjectsApart
<1>15. BlocksOutsideSlabs' /\ OldIsUsed' /\ ~(want' > 0)
  BY <1>2, <1>7, <1>8, <1>10 DEF BlocksOutsideSlabs, OldIsUsed, Blocks
<1> QED
  BY <1>7, <1>10, <1>12, <1>13, <1>14, <1>15 DEF SoundInv

(* kmalloc maps one more page. *)
LEMMA GrowSound == ASSUME SoundInv, kmalloc_grow PROVE SoundInv'
<1> DEFINE M == mapped * Page
<1>1. /\ want > 0 /\ mapped < MaxPages /\ hdr' = Appended(hdr, M) /\ mapped' = mapped + 1
      /\ UNCHANGED <<slabs, free_list, held, want, old, panicked>>
  BY DEF kmalloc_grow
<1>2. BlocksApart /\ GoodList(hdr, AreaStarts)
  BY <1>1 DEF SoundInv
<1>3. /\ \A b \in Blocks : /\ b \in Nat /\ End(hdr, b) \in Nat /\ b < End(hdr, b)
                           /\ End(hdr, b) <= M
                           /\ \A c \in Blocks : b < c => End(hdr, b) <= c
      /\ mapped \in Nat /\ M \in Nat /\ mapped \notin SlabPages
  BY <1>2, ApartPages
<1>4. Page \in Nat \ {0} /\ (mapped + 1) * Page = M + Page
  BY <1>3, HeapAssumption
<1>5. SlabPages' = SlabPages /\ Areas' = Areas \cup {mapped}
  <2>1. SlabPages' = SlabPages /\ 0..(mapped' - 1) = (0..(mapped - 1)) \cup {mapped}
    BY <1>1, <1>3 DEF SlabPages
  <2> QED
    BY <1>3, <2>1 DEF Areas
<1>6. AreaStarts \subseteq AreaStarts' /\ M \in AreaStarts'
  BY <1>5 DEF AreaStarts
<1> HIDE DEF M
<1>7. \A x \in DOMAIN hdr : x < M
  BY <1>3 DEF Blocks
<1>8. /\ GoodList(hdr', AreaStarts') /\ Used(hdr') = Used(hdr) /\ DOMAIN hdr' = DOMAIN hdr \cup {M}
      /\ \A x \in DOMAIN hdr : End(hdr', x) = End(hdr, x)
      /\ End(hdr', M) = M + Page
  <2>1. hdr' = Appended(hdr, M) /\ GoodList(hdr, AreaStarts) /\ M \in Nat
    BY <1>1, <1>2, <1>3
  <2> QED
    BY <1>6, <1>7, <2>1, AppendedGood
<1>9. Blocks' = Blocks \cup {M} /\ \A b \in Blocks : End(hdr', b) = End(hdr, b)
  BY <1>8 DEF Blocks
<1>10. M \div Page = mapped
  <2>1. mapped * Page <= M /\ M < (mapped + 1) * Page
    BY <1>3, <1>4 DEF M
  <2> QED
    BY <1>3, <2>1, PageOf
<1>11. Sizing'
  <2>1. mapped \in 1..MaxPages /\ SlabPages \subseteq 0..(mapped - 1) /\ MaxPages \in Nat
    BY HeapAssumption DEF SoundInv, Sizing
  <2>2. mapped' \in 1..MaxPages /\ SlabPages' \subseteq 0..(mapped' - 1)
    BY <1>1, <1>5, <2>1
  <2> QED
    BY <1>1, <1>5, <2>2 DEF SoundInv, Sizing
<1>12. BlocksOutsideSlabs'
  BY <1>3, <1>5, <1>9, <1>10 DEF SoundInv, BlocksOutsideSlabs
<1>13. HeldIsUsed' /\ ObjectsApart' /\ OldIsUsed'
  BY <1>1, <1>5, <1>8 DEF SoundInv, HeldIsUsed, ObjectsApart, OldIsUsed
<1>14. BlocksApart'
  <2>1. mapped' * Page = M + Page
    BY <1>1, <1>4
  <2>2. \A b, c \in Blocks' : b < c => End(hdr', b) <= c
    BY <1>3, <1>4, <1>8, <1>9
  <2>3. \A b \in Blocks' : End(hdr', b) <= mapped' * Page
    BY <1>3, <1>4, <1>8, <1>9, <2>1
  <2>4. ASSUME NEW b \in Blocks', NEW s \in SlabPages'
        PROVE  End(hdr', b) <= s * Page \/ (s + 1) * Page <= b
    <3>1. CASE b = M
      <4>1. s + 1 \in Nat /\ s + 1 <= mapped
        BY <1>5, <1>3 DEF SoundInv, Sizing
      <4>2. (s + 1) * Page <= mapped * Page
        BY <1>3, <4>1, PageOrder
      <4> QED
        BY <3>1, <4>2 DEF M
    <3>2. CASE b \in Blocks
      BY <1>2, <1>5, <1>9, <3>2 DEF BlocksApart
    <3> QED
      BY <1>9, <3>1, <3>2
  <2> QED
    BY <2>2, <2>3, <2>4 DEF BlocksApart
<1> QED
  BY <1>8, <1>11, <1>12, <1>13, <1>14 DEF SoundInv

(* kfree of a block. *)
LEMMA FreeSound == ASSUME SoundInv, NEW b \in held, kfree(b) PROVE SoundInv'
<1>1. /\ want = 0 /\ b \in DOMAIN hdr /\ hdr' = Freed(hdr, b) /\ held' = held \ {b}
      /\ UNCHANGED <<mapped, slabs, free_list, want, old, panicked>>
  BY DEF kfree, Idle, Blocks
<1>2. SlabPages' = SlabPages /\ AreaStarts' = AreaStarts
  BY <1>1 DEF SlabPages, AreaStarts, Areas
<1>3. /\ GoodList(hdr', AreaStarts) /\ DOMAIN hdr' \subseteq DOMAIN hdr /\ Used(hdr') = Used(hdr) \ {b}
  BY <1>1, FreedGood DEF SoundInv
<1>4. Sizing' /\ HeldIsUsed' /\ ObjectsApart'
  BY <1>1, <1>2, <1>3 DEF SoundInv, Sizing, HeldIsUsed, ObjectsApart
<1>5. BlocksOutsideSlabs'
  BY <1>2, <1>3 DEF SoundInv, BlocksOutsideSlabs, Blocks
<1>6. OldIsUsed' /\ ~(want' > 0)
  BY <1>1 DEF SoundInv, OldIsUsed
<1> QED
  BY <1>2, <1>3, <1>4, <1>5, <1>6 DEF SoundInv

(* Every operation of the allocator keeps the invariant. *)
LEMMA NextSoundInv == SoundInv /\ [Next]_vars => SoundInv'
<1> SUFFICES ASSUME SoundInv, [Next]_vars PROVE SoundInv'
  OBVIOUS
<1>1. ASSUME UNCHANGED <<hdr, mapped, slabs, free_list>>,
             held' \subseteq held, want' \in Nat, panicked' \in BOOLEAN,
             OldIsUsed', want' > 0 => BlocksApart,
             \A p \in held \ held' : p \div Page \in SlabPages
      PROVE  SoundInv'
  <2>1. SlabPages' = SlabPages /\ Blocks' = Blocks /\ AreaStarts' = AreaStarts
        /\ BlocksApart' = BlocksApart
    BY <1>1 DEF SlabPages, Blocks, AreaStarts, Areas, BlocksApart
  <2>2. Sizing' /\ ObjectsApart' /\ BlocksOutsideSlabs'
    BY <1>1, <2>1 DEF SoundInv, Sizing, ObjectsApart, BlocksOutsideSlabs
  <2>3. HeldIsUsed'
    BY <1>1, <2>1 DEF SoundInv, HeldIsUsed
  <2> QED
    BY <1>1, <2>1, <2>2, <2>3 DEF SoundInv
<1>2. want \in Nat /\ panicked \in BOOLEAN
  BY DEF SoundInv, Sizing
<1>3. ASSUME NEW size \in Sizes, kmalloc(size) PROVE SoundInv'
  <2>1. size \in Nat /\ Rounded(size) \in Nat /\ Rounded(size) >= size
    BY RoundedUp, HeapAssumption
  <2>2. /\ BlocksApart /\ want = 0 /\ want' = Rounded(size) /\ size > 0
        /\ UNCHANGED <<hdr, mapped, slabs, free_list, held, old, panicked>>
    BY <1>3 DEF kmalloc, Idle
  <2>3. OldIsUsed'
    BY <2>1, <2>2 DEF SoundInv, OldIsUsed
  <2> QED
    BY <1>1, <1>2, <2>1, <2>2, <2>3
<1>4. ASSUME NEW size \in Sizes, NEW b \in held, krealloc(b, size) PROVE SoundInv'
  <2>1. size \in Nat /\ Rounded(size) \in Nat /\ Rounded(size) >= size
    BY RoundedUp, HeapAssumption
  <2>2. /\ BlocksApart /\ b \in Blocks /\ hdr[b].size < size /\ old' = b /\ want' = Rounded(size)
        /\ UNCHANGED <<hdr, mapped, slabs, free_list, held, panicked>>
    BY <1>4 DEF krealloc, Idle
  <2>3. hdr[b].size \in Nat
    BY <2>2, ChainFacts DEF SoundInv, GoodList, WholeList, Blocks
  <2>4. Rounded(size) > 0
    BY <2>1, <2>2, <2>3
  <2>5. b \in Used(hdr)
    BY <2>2 DEF SoundInv, HeldIsUsed, BlocksOutsideSlabs
  <2>6. OldIsUsed'
    BY <2>2, <2>4, <2>5 DEF OldIsUsed
  <2> QED
    BY <1>1, <1>2, <2>1, <2>2, <2>6
<1>5. ASSUME NEW o \in held, kfree_object(o) PROVE SoundInv'
  <2>1. /\ want = 0 /\ o \notin Blocks /\ held' = held \ {o} /\ panicked' \in BOOLEAN
        /\ UNCHANGED <<hdr, mapped, slabs, free_list, want, old>>
    BY <1>5 DEF kfree_object, Idle
  <2>2. o \div Page \in SlabPages
    BY <2>1 DEF SoundInv, HeldIsUsed, Used, Blocks
  <2>3. OldIsUsed'
    BY <2>1 DEF SoundInv, OldIsUsed
  <2> QED
    BY <1>1, <1>2, <2>1, <2>2, <2>3
<1>6. CASE heap_oom
  <2>1. /\ panicked' = TRUE /\ UNCHANGED <<hdr, mapped, slabs, free_list, held, want, old>>
    BY <1>6 DEF heap_oom
  <2>2. OldIsUsed' /\ panicked' \in BOOLEAN
    BY <2>1 DEF SoundInv, OldIsUsed
  <2> QED
    BY <1>1, <1>2, <2>1, <2>2 DEF SoundInv
<1>7. CASE UNCHANGED vars
  <2>1. OldIsUsed'
    BY <1>7 DEF SoundInv, OldIsUsed, vars
  <2> QED
    BY <1>1, <1>2, <1>7, <2>1 DEF vars, SoundInv
<1> QED
  BY <1>3, <1>4, <1>5, <1>6, <1>7, SlabAllocSound, SlabGrowSound, FitSound, GrowSound, FreeSound
     DEF Next

(* The invariant is what HeapSound promises. *)
LEMMA SoundIsHeapSound == SoundInv => HeapSound
<1> SUFFICES ASSUME SoundInv PROVE HeapSound
  OBVIOUS
<1>1. /\ DOMAIN hdr \subseteq Nat /\ hdr \in [DOMAIN hdr -> Headers(hdr)]
  BY DEF SoundInv, GoodList, WholeList, Chained, HeadersOK
<1>2. TypeOK
  <2>1. 0 \in Blocks
    BY DEF SoundInv, GoodList, WholeList, Rooted, Blocks
  <2>2. old \in Blocks \cup {Nil}
    BY DEF SoundInv, OldIsUsed, Used, Blocks
  <2> QED
    BY <1>1, <2>1, <2>2 DEF TypeOK, SoundInv, Sizing, Headers, Links, Blocks
<1>3. ListLinked
  <2>1. \A b \in Blocks :
          /\ hdr[b].next # Nil => hdr[b].next > b /\ hdr[hdr[b].next].prev = b
          /\ hdr[b].prev # Nil => hdr[b].prev < b /\ hdr[hdr[b].prev].next = b
    BY ChainFacts DEF SoundInv, GoodList, WholeList, Blocks
  <2>2. /\ \A b \in Blocks : hdr[b].prev = Nil <=> b = 0
        /\ \A b, c \in Blocks : hdr[b].next = Nil /\ hdr[c].next = Nil => b = c
    BY DEF SoundInv, GoodList, WholeList, Rooted, OneLast, Blocks
  <2> QED
    BY <2>1, <2>2 DEF ListLinked, SoundInv, HeldIsUsed, Used, Blocks
<1>4. Coalesced
  BY DEF Coalesced, SoundInv, GoodList, PairOK, AreaStarts, Blocks
<1> QED
  BY <1>2, <1>3, <1>4 DEF HeapSound, SoundInv

(* Through every sequence of kmalloc, kfree, krealloc and slab allocations *)
(* the block list of heap.c runs through all its blocks in both directions *)
(* and in the order of addresses, its blocks in use are the ones clients   *)
(* hold, neighbours are coalesced, and a slab object has one holder, for   *)
(* all sizes and also where slab pages lie between areas.                  *)
THEOREM HeapIsSound == Spec => []HeapSound
<1>1. Init => SoundInv
  BY InitSoundInv
<1>2. SoundInv /\ [Next]_vars => SoundInv'
  BY NextSoundInv
<1>3. SoundInv => HeapSound
  BY SoundIsHeapSound
<1> QED
  BY <1>1, <1>2, <1>3, PTL DEF Spec

-----------------------------------------------------------------------------
(* Memory given away twice *)

(* The blocks of h lie apart, below the page m, and outside the pages S. *)
Apart(h, m, S) ==
    /\ \A b, c \in DOMAIN h : b < c => End(h, b) <= c
    /\ \A b \in DOMAIN h : End(h, b) <= m * Page
    /\ \A b \in DOMAIN h, s \in S : End(h, b) <= s * Page \/ (s + 1) * Page <= b

(* The pages have addresses. *)
Pages(m, S) ==
    /\ m * Page \in Nat
    /\ \A s \in S : s * Page \in Nat /\ (s + 1) * Page \in Nat /\ s * Page < (s + 1) * Page

(* Marking a block moves none. *)
LEMMA MarkedApart ==
  ASSUME NEW h, NEW g, NEW m, NEW S, NEW b, NEW f, Marked(h, g, b, f), Apart(h, m, S)
  PROVE  Apart(g, m, S) /\ \A x \in DOMAIN h : End(g, x) = End(h, x)
<1>1. DOMAIN g = DOMAIN h /\ \A x \in DOMAIN h : End(g, x) = End(h, x)
  BY DEF Marked, End
<1> QED
  BY <1>1 DEF Apart

(* split_block keeps blocks apart, and opens no gap in the list. *)
LEMMA SplitApart ==
  ASSUME NEW h, NEW m, NEW S, Chained(h), Apart(h, m, S), Pages(m, S),
         NEW b \in DOMAIN h, NEW size \in Nat, h[b].size >= size
  PROVE  LET g == Split(h, b, size)
         IN  /\ Chained(g) /\ Apart(g, m, S)
             /\ \A x \in DOMAIN g : \/ End(g, x) = g[x].next
                                    \/ \E y \in DOMAIN h : /\ h[y].next = g[x].next
                                                           /\ End(h, y) = End(g, x)
<1> DEFINE g == Split(h, b, size)
<1>1. Chained(g) /\ (Marked(h, g, b, FALSE) \/ \E new : Cut(h, g, b, size, new))
  BY SplitChained DEF Apart
<1> HIDE DEF g
<1>2. CASE Marked(h, g, b, FALSE)
  <2>1. Apart(g, m, S) /\ \A x \in DOMAIN h : End(g, x) = End(h, x)
    BY <1>2, MarkedApart
  <2> QED
    BY <1>1, <1>2, <2>1 DEF Marked, g
<1>3. CASE \E new : Cut(h, g, b, size, new)
  <2>1. PICK new : Cut(h, g, b, size, new)
    BY <1>3
  <2>2. /\ \A x \in DOMAIN h : x \in Nat /\ End(h, x) \in Nat /\ x < End(h, x)
        /\ h[b].size \in Nat /\ Header \in Nat
    BY ChainFacts, HeapAssumption
  <2>3. /\ new = b + Header + size /\ new \in Nat /\ b < new /\ new < End(h, b)
        /\ new \notin DOMAIN h /\ DOMAIN g = DOMAIN h \cup {new}
        /\ g[new].next = h[b].next /\ g[b].next = new
        /\ \A x \in DOMAIN h \ {b} : g[x].next = h[x].next
    BY <2>1 DEF Cut
  <2>4. End(g, new) = End(h, b)
    BY <2>1, <2>2 DEF Cut, End
  <2>5. End(g, b) = new /\ \A x \in DOMAIN h \ {b} : End(g, x) = End(h, x)
    BY <2>1 DEF Cut, End
  <2>6. \A x \in DOMAIN g : \/ End(g, x) = g[x].next
                            \/ \E y \in DOMAIN h : h[y].next = g[x].next /\ End(h, y) = End(g, x)
    BY <2>3, <2>4, <2>5
  <2>7. \A x, y \in DOMAIN g : x < y => End(g, x) <= y
    BY <2>2, <2>3, <2>4, <2>5 DEF Apart
  <2>8. \A x \in DOMAIN g : End(g, x) <= m * Page
    BY <2>2, <2>3, <2>4, <2>5 DEF Apart, Pages
  <2>9. ASSUME NEW x \in DOMAIN g, NEW s \in S PROVE End(g, x) <= s * Page \/ (s + 1) * Page <= x
    <3>1. \A y \in DOMAIN h : End(h, y) <= s * Page \/ (s + 1) * Page <= y
      BY DEF Apart
    <3>2. s * Page \in Nat /\ (s + 1) * Page \in Nat
      BY DEF Pages
    <3> QED
      BY <2>2, <2>3, <2>4, <2>5, <3>1, <3>2
  <2> QED
    BY <1>1, <2>6, <2>7, <2>8, <2>9 DEF Apart, g
<1> QED
  BY <1>1, <1>2, <1>3

(* Merging with the next block keeps blocks apart where the two touch. *)
LEMMA AbsorbApart ==
  ASSUME NEW h, NEW m, NEW S, Chained(h), Apart(h, m, S), Pages(m, S),
         NEW b \in DOMAIN h, NEW c, c = h[b].next, c # Nil, End(h, b) = c
  PROVE  LET g == Absorb(h, b, c)
         IN  /\ Chained(g) /\ Apart(g, m, S) /\ DOMAIN g = DOMAIN h \ {c}
             /\ c # b /\ g[b].prev = h[b].prev
             /\ \A x \in DOMAIN g \ {b} : End(g, x) = End(h, x)
<1> DEFINE g == Absorb(h, b, c)
<1>1. Chained(g) /\ Merged(h, g, b, c)
  BY AbsorbChained
<1> HIDE DEF g
<1>2. /\ \A x \in DOMAIN h : x \in Nat /\ h[x].size \in Nat /\ End(h, x) \in Nat /\ x < End(h, x)
      /\ Header \in Nat /\ b < c
  BY ChainFacts, HeapAssumption
<1>3. c \in DOMAIN h /\ c # b /\ DOMAIN g = DOMAIN h \ {c} /\ g[b].prev = h[b].prev
  BY <1>1 DEF Merged
<1>4. End(g, b) = End(h, c)
  BY <1>1, <1>2, <1>3 DEF Merged, End
<1>5. \A x \in DOMAIN g \ {b} : End(g, x) = End(h, x)
  BY <1>1, <1>3 DEF Merged, End
<1>6. \A x \in DOMAIN g : End(g, x) <= m * Page
  BY <1>3, <1>4, <1>5 DEF Apart
<1>7. ASSUME NEW x \in DOMAIN g, NEW y \in DOMAIN g, x < y PROVE End(g, x) <= y
  <2>1. \A u, v \in DOMAIN h : u < v => End(h, u) <= v
    BY DEF Apart
  <2>2. CASE x = b
    <3>1. y \in DOMAIN h /\ y # c /\ c <= y
      BY <1>2, <1>3, <1>7, <2>1, <2>2
    <3>2. c < y
      BY <1>2, <1>3, <3>1
    <3> QED
      BY <1>3, <1>4, <2>1, <2>2, <3>1, <3>2
  <2>3. CASE x # b
    BY <1>3, <1>5, <1>7, <2>1, <2>3
  <2> QED
    BY <2>2, <2>3
<1>8. ASSUME NEW x \in DOMAIN g, NEW s \in S PROVE End(g, x) <= s * Page \/ (s + 1) * Page <= x
  <2>1. \A y \in DOMAIN h : End(h, y) <= s * Page \/ (s + 1) * Page <= y
    BY DEF Apart
  <2>2. s * Page \in Nat /\ (s + 1) * Page \in Nat /\ s * Page < (s + 1) * Page
    BY DEF Pages
  <2> QED
    BY <1>2, <1>3, <1>4, <1>5, <2>1, <2>2
<1> QED
  BY <1>1, <1>3, <1>5, <1>6, <1>7, <1>8 DEF Apart, g

(* kfree keeps blocks apart if each block it takes out of the list touches *)
(* the one before it.                                                      *)
LEMMA FreedApart ==
  ASSUME NEW h, NEW m, NEW S, Chained(h), Apart(h, m, S), Pages(m, S), NEW b \in DOMAIN h,
         \A x \in DOMAIN h : h[x].next \in DOMAIN h \ DOMAIN Freed(h, b) => End(h, x) = h[x].next
  PROVE  Apart(Freed(h, b), m, S)
<1> DEFINE f == [h EXCEPT ![b].free = TRUE]
           nx == f[b].next
           pv == f[b].prev
           g == IF nx # Nil /\ f[nx].free THEN Absorb(f, b, nx) ELSE f
           k == IF pv # Nil /\ f[pv].free THEN Absorb(g, pv, b) ELSE g
<1>1. Chained(f) /\ Marked(h, f, b, TRUE)
  BY FlagChained
<1>2. Freed(h, b) = k
  BY DEF Freed, merge_adjacent
<1> HIDE DEF f
<1>3. Apart(f, m, S) /\ \A x \in DOMAIN h : End(f, x) = End(h, x)
  BY <1>1, MarkedApart
<1>4. DOMAIN f = DOMAIN h /\ \A x \in DOMAIN h : f[x].next = h[x].next /\ f[x].prev = h[x].prev
  BY <1>1 DEF Marked
<1>5. /\ nx # Nil => nx \in DOMAIN f /\ nx # b
      /\ pv # Nil => pv \in DOMAIN f /\ pv # b /\ f[pv].next = b /\ pv < b
      /\ b # Nil
  BY <1>1, <1>4, ChainFacts
<1>6. DOMAIN k \subseteq DOMAIN g /\ (pv # Nil /\ f[pv].free => b \notin DOMAIN k)
  BY DEF Absorb
<1>7. nx # Nil /\ f[nx].free => nx \notin DOMAIN g
  BY DEF Absorb
<1> HIDE DEF k
<1>8. /\ Chained(g) /\ Apart(g, m, S) /\ b \in DOMAIN g /\ g[b].prev = pv
      /\ \A x \in DOMAIN g \ {b} : End(g, x) = End(f, x)
  <2>1. CASE nx # Nil /\ f[nx].free
    <3>1. h[b].next \in DOMAIN h \ DOMAIN Freed(h, b)
      BY <1>2, <1>4, <1>5, <1>6, <1>7, <2>1
    <3>2. End(f, b) = nx /\ b \in DOMAIN f
      BY <1>3, <1>4, <3>1
    <3> DEFINE a == Absorb(f, b, nx)
    <3>3. /\ Chained(a) /\ Apart(a, m, S) /\ DOMAIN a = DOMAIN f \ {nx} /\ a[b].prev = f[b].prev
          /\ \A x \in DOMAIN a \ {b} : End(a, x) = End(f, x)
      BY <1>1, <1>3, <2>1, <3>2, AbsorbApart
    <3>4. g = a
      BY <2>1
    <3> HIDE DEF a, g
    <3> QED
      BY <1>5, <2>1, <3>2, <3>3, <3>4
  <2>2. CASE ~(nx # Nil /\ f[nx].free)
    BY <1>1, <1>3, <1>4, <2>2
  <2> QED
    BY <2>1, <2>2
<1> HIDE DEF g
<1>9. CASE pv # Nil /\ f[pv].free
  <2>1. pv \in DOMAIN g /\ g[pv].next = b
    BY <1>8, <1>9, ChainFacts
  <2>2. h[pv].next \in DOMAIN h \ DOMAIN Freed(h, b)
    BY <1>2, <1>4, <1>5, <1>6, <1>9
  <2>3. End(g, pv) = b
    BY <1>3, <1>4, <1>5, <1>8, <1>9, <2>1, <2>2
  <2>4. Apart(Absorb(g, pv, b), m, S)
    BY <1>5, <1>8, <2>1, <2>3, AbsorbApart
  <2> QED
    BY <1>2, <1>9, <2>4 DEF k
<1>10. CASE ~(pv # Nil /\ f[pv].free)
  BY <1>2, <1>8, <1>10 DEF k
<1> QED
  BY <1>9, <1>10

(* Every step keeps blocks apart, unless it merges across a gap. *)
LEMMA NextApart ==
  ASSUME SoundInv, [Next]_vars, BlocksApart, ~MergesAcrossGap
  PROVE  BlocksApart'
<1>1. BlocksApart = Apart(hdr, mapped, SlabPages) /\ BlocksApart' = Apart(hdr', mapped', SlabPages')
  BY DEF BlocksApart, Apart, Blocks
<1>2. Chained(hdr) /\ mapped \in Nat /\ SlabPages \subseteq 0..(mapped - 1) /\ want \in Nat
  BY DEF SoundInv, GoodList, WholeList, Sizing
<1>3. Pages(mapped, SlabPages)
  <2>1. \A s \in SlabPages : s \in Nat /\ s + 1 \in Nat
    BY <1>2
  <2>2. \A s \in Nat : s * Page < (s + 1) * Page
    BY HeapAssumption
  <2> QED
    BY <1>2, <2>1, <2>2, PageOrder DEF Pages
<1>4. \A x \in DOMAIN hdr : hdr[x].next \in DOMAIN hdr \ DOMAIN hdr' => End(hdr, x) = hdr[x].next
  BY DEF MergesAcrossGap, Blocks
<1>5. UNCHANGED <<hdr, mapped, slabs>> => BlocksApart'
  BY DEF BlocksApart, Blocks, SlabPages
<1>6. ASSUME NEW size \in Sizes, slab_grow(size) PROVE BlocksApart'
  <2>1. hdr' = hdr /\ mapped' = mapped + 1 /\ SlabPages' = SlabPages \cup {mapped}
    BY <1>6 DEF slab_grow, SlabPages
  <2>2. mapped * Page \in Nat /\ (mapped + 1) * Page \in Nat /\ mapped * Page <= (mapped + 1) * Page
    BY <1>2, PageOrder
  <2>3. \A b \in DOMAIN hdr : End(hdr, b) \in Nat /\ End(hdr, b) <= mapped * Page
    BY <1>1, <1>2, ChainFacts DEF Apart
  <2>4. \A b \in DOMAIN hdr : End(hdr, b) <= (mapped + 1) * Page
    BY <2>2, <2>3
  <2>5. Apart(hdr, mapped + 1, SlabPages \cup {mapped})
    BY <1>1, <2>3, <2>4 DEF Apart
  <2> QED
    BY <1>1, <2>1, <2>5
<1>7. ASSUME NEW b \in held, kfree(b) PROVE BlocksApart'
  <2>1. b \in DOMAIN hdr /\ hdr' = Freed(hdr, b) /\ mapped' = mapped /\ SlabPages' = SlabPages
    BY <1>7 DEF kfree, Blocks, SlabPages
  <2> QED
    BY <1>1, <1>2, <1>3, <1>4, <2>1, FreedApart
<1>8. CASE kmalloc_fit
  <2>1. PICK b \in Fits :
           hdr' = IF old = Nil THEN Split(hdr, b, want) ELSE Freed(Split(hdr, b, want), old)
    BY <1>8 DEF kmalloc_fit
  <2>2. mapped' = mapped /\ SlabPages' = SlabPages /\ b \in DOMAIN hdr /\ hdr[b].size >= want
    BY <1>8 DEF kmalloc_fit, Fits, Blocks, SlabPages
  <2> DEFINE g == Split(hdr, b, want)
  <2>3. /\ Chained(g) /\ Apart(g, mapped, SlabPages)
        /\ \A x \in DOMAIN g : \/ End(g, x) = g[x].next
                               \/ \E y \in DOMAIN hdr : /\ hdr[y].next = g[x].next
                                                        /\ End(hdr, y) = End(g, x)
    BY <1>1, <1>2, <1>3, <2>2, SplitApart
  <2>4. DOMAIN hdr \subseteq DOMAIN g
    BY DEF Split
  <2> HIDE DEF g
  <2>5. CASE old = Nil
    BY <1>1, <2>1, <2>2, <2>3, <2>5 DEF g
  <2>6. CASE old # Nil
    <3>1. hdr' = Freed(g, old) /\ old \in DOMAIN g
      BY <2>1, <2>4, <2>6 DEF g, SoundInv, OldIsUsed, Used
    <3>2. ASSUME NEW x \in DOMAIN g, g[x].next \in DOMAIN g \ DOMAIN hdr'
          PROVE  End(g, x) = g[x].next
      <4>1. CASE \E y \in DOMAIN hdr : hdr[y].next = g[x].next /\ End(hdr, y) = End(g, x)
        <5>1. PICK y \in DOMAIN hdr : hdr[y].next = g[x].next /\ End(hdr, y) = End(g, x)
          BY <4>1
        <5>2. hdr[y].next \in DOMAIN hdr \/ hdr[y].next = Nil
          BY <1>2, ChainFacts
        <5>3. Nil \notin DOMAIN g
          BY <2>3, ChainFacts
        <5> QED
          BY <1>4, <3>2, <5>1, <5>2, <5>3
      <4> QED
        BY <2>3, <4>1
    <3> QED
      BY <1>1, <1>3, <2>2, <2>3, <3>1, <3>2, FreedApart
  <2> QED
    BY <2>5, <2>6
<1>9. CASE kmalloc_grow
  BY <1>9, GrowSound DEF SoundInv, kmalloc_grow
<1>10. /\ \A size \in Sizes : slab_alloc(size) \/ kmalloc(size) => UNCHANGED <<hdr, mapped, slabs>>
       /\ \A o \in held : kfree_object(o) => UNCHANGED <<hdr, mapped, slabs>>
       /\ \A b \in held, size \in Sizes : krealloc(b, size) => UNCHANGED <<hdr, mapped, slabs>>
       /\ heap_oom => UNCHANGED <<hdr, mapped, slabs>>
       /\ UNCHANGED vars => UNCHANGED <<hdr, mapped, slabs>>
  BY DEF slab_alloc, kmalloc, kfree_object, krealloc, heap_oom, vars
<1> QED
  BY <1>5, <1>6, <1>7, <1>8, <1>9, <1>10 DEF Next

(* For every page, header and block size, every set of slab caches and     *)
(* every sequence of kmalloc, kfree and krealloc, also with slab pages     *)
(* between the areas of the list: blocks that lie apart stay apart, from   *)
(* each other and from the slabs, in every step but a merge_adjacent of    *)
(* neighbours in the list that do not touch in memory.                     *)
THEOREM BlocksNeverOverlap == Spec => MemoryApart
<1>1. Init => SoundInv
  BY InitSoundInv
<1>2. SoundInv /\ [Next]_vars => SoundInv'
  BY NextSoundInv
<1>3. SoundInv /\ [Next]_vars => [BlocksApart => BlocksApart' \/ MergesAcrossGap]_vars
  BY NextApart
<1> QED
  BY <1>1, <1>2, <1>3, PTL DEF Spec, MemoryApart

-----------------------------------------------------------------------------
(* The sum of the sizes *)

(* A set of natural numbers with 0 and the successors of its elements. *)
LEMMA NatSetInduction ==
    ASSUME NEW S \in SUBSET Nat, 0 \in S, \A n \in S : n + 1 \in S
    PROVE  S = Nat
<1> SUFFICES ASSUME S # Nat PROVE FALSE
  OBVIOUS
<1>1. PICK x \in Nat \ S : \A y \in Nat \ S : x <= y
  BY MinIsLeast
<1>2. x # 0 /\ x - 1 \in Nat /\ x - 1 \in S /\ (x - 1) + 1 = x
  BY <1>1
<1> QED
  BY <1>1, <1>2

(* The bytes of the blocks T of a list, each named by its block and its    *)
(* place in it: what a sum of sizes counts.                                *)
Bytes(h, T) == UNION {{x} \X (1..(h[x].size + Header)) : x \in T}
Sized(h, T) == IsFiniteSet(T) /\ \A x \in T : h[x].size \in Nat
Total(h, T) == MapThenSumSet(LAMBDA b : h[b].size + Header, T)

(* Sizes add up, in whatever order. *)
LEMMA BytesAdd ==
    ASSUME NEW h, NEW T, Sized(h, T)
    PROVE  /\ IsFiniteSet(Bytes(h, T)) /\ Cardinality(Bytes(h, T)) \in Nat
           /\ \A x \in T : Cardinality(Bytes(h, T))
                             = (h[x].size + Header) + Cardinality(Bytes(h, T \ {x}))
<1> DEFINE Of(x) == {x} \X (1..(h[x].size + Header))
<1>1. Header \in Nat
  BY HeapAssumption
<1>2. ASSUME NEW x \in T
      PROVE  IsFiniteSet(Of(x)) /\ Cardinality(Of(x)) = h[x].size + Header
  <2> DEFINE w == h[x].size + Header
  <2>1. w \in Nat
    BY <1>1 DEF Sized
  <2> HIDE DEF w
  <2>2. IsFiniteSet(1..w) /\ Cardinality(1..w) = IF 1 > w THEN 0 ELSE w - 1 + 1
    BY <2>1, FS_Interval
  <2>3. Cardinality(1..w) = w
    BY <2>1, <2>2
  <2>4. IsFiniteSet({x}) /\ Cardinality({x}) = 1
    BY FS_Singleton
  <2>5. IsFiniteSet({x} \X (1..w))
        /\ Cardinality({x} \X (1..w)) = Cardinality({x}) * Cardinality(1..w)
    BY <2>2, <2>4, FS_Product, Zenon
  <2> QED
    BY <2>1, <2>3, <2>4, <2>5 DEF w
<1>3. ASSUME NEW U \in SUBSET T PROVE IsFiniteSet(Bytes(h, U))
  <2> DEFINE f == [x \in U |-> Of(x)]
             R == {Of(x) : x \in U}
  <2>1. IsFiniteSet(U)
    BY FS_Subset DEF Sized
  <2> HIDE DEF Of
  <2>2. f \in Surjection(U, R)
    BY DEF Surjection
  <2>3. IsFiniteSet(R)
    BY <2>1, <2>2, FS_Surjection
  <2>4. \A P \in R : IsFiniteSet(P)
    BY <1>2
  <2>5. IsFiniteSet(UNION R)
    BY <2>3, <2>4, FS_UNION
  <2> QED
    BY <2>5 DEF Bytes, Of
<1>4. ASSUME NEW x \in T
      PROVE  Cardinality(Bytes(h, T)) = (h[x].size + Header) + Cardinality(Bytes(h, T \ {x}))
  <2> DEFINE A == Of(x)
             B == Bytes(h, T \ {x})
  <2>1. IsFiniteSet(A) /\ IsFiniteSet(B) /\ Cardinality(A) = h[x].size + Header
    BY <1>2, <1>3
  <2>2. Bytes(h, T) = A \cup B
    BY DEF Bytes
  <2>3. A \cap B = {}
    BY DEF Bytes
  <2> HIDE DEF A, B
  <2>4. Cardinality(A \cup B) = Cardinality(A) + Cardinality(B) - Cardinality(A \cap B)
    BY <2>1, FS_Union
  <2>5. Cardinality(A) \in Nat /\ Cardinality(B) \in Nat /\ Cardinality(A \cap B) = 0
    BY <2>1, <2>3, FS_CardinalityType, FS_EmptySet
  <2>6. Cardinality(A \cup B) = Cardinality(A) + Cardinality(B)
    BY <2>4, <2>5
  <2> QED
    BY <2>1, <2>2, <2>6 DEF B
<1>5. IsFiniteSet(Bytes(h, T)) /\ Cardinality(Bytes(h, T)) \in Nat
  BY <1>3, FS_CardinalityType
<1> QED
  BY <1>4, <1>5

(* The sum of the sizes counts the bytes. *)
LEMMA TotalIsBytes ==
    ASSUME NEW h, NEW T, Sized(h, T)
    PROVE  Total(h, T) = Cardinality(Bytes(h, T))
<1> DEFINE pick(s) == CHOOSE x \in s : TRUE
           F(f) == [s \in SUBSET T |-> IF s = {} THEN 0
                                       ELSE (h[pick(s)].size + Header) + f[s \ {pick(s)}]]
           g == [s \in SUBSET T |-> Cardinality(Bytes(h, s))]
           it == CHOOSE f : f = F(f)
<1>1. \A s \in SUBSET T : Sized(h, s)
  BY FS_Subset DEF Sized
<1>2. \A s \in SUBSET T : s # {} => pick(s) \in s
  OBVIOUS
<1>3. Cardinality(Bytes(h, {})) = 0
  <2>1. Bytes(h, {}) = {}
    BY DEF Bytes
  <2> QED
    BY <2>1, FS_EmptySet
<1>4. \A s \in SUBSET T : g[s] = Cardinality(Bytes(h, s))
  OBVIOUS
<1> HIDE DEF pick
<1>5. \A s \in SUBSET T : s # {} => g[s] = (h[pick(s)].size + Header) + g[s \ {pick(s)}]
  BY <1>1, <1>2, <1>4, BytesAdd
<1>6. g = F(g)
  <2>1. \A s \in SUBSET T : g[s] = IF s = {} THEN 0
                                   ELSE (h[pick(s)].size + Header) + g[s \ {pick(s)}]
    BY <1>3, <1>4, <1>5
  <2>2. g = [s \in SUBSET T |-> g[s]]
    OBVIOUS
  <2> HIDE DEF g
  <2> QED
    BY <2>1, <2>2
<1>7. it = F(it)
  <2> HIDE DEF g, F
  <2> QED
    BY <1>6
<1>8. \A s \in SUBSET T : it[s] = IF s = {} THEN 0
                                  ELSE (h[pick(s)].size + Header) + it[s \ {pick(s)}]
  <2> HIDE DEF it
  <2>1. it = F(it)
    BY <1>7
  <2> QED
    BY <2>1
<1> HIDE DEF it, g
<1> DEFINE N == {n \in Nat : \A s \in SUBSET T : Cardinality(s) = n => it[s] = g[s]}
<1>9. \A s \in SUBSET T : IsFiniteSet(s) /\ Cardinality(s) \in Nat
  BY <1>1, FS_CardinalityType DEF Sized
<1>10. 0 \in N
  <2>1. \A s \in SUBSET T : Cardinality(s) = 0 => s = {}
    BY <1>9, FS_EmptySet
  <2> QED
    BY <1>3, <1>4, <1>8, <2>1
<1>11. ASSUME NEW n \in N PROVE n + 1 \in N
  <2> SUFFICES ASSUME NEW s \in SUBSET T, Cardinality(s) = n + 1 PROVE it[s] = g[s]
    OBVIOUS
  <2>1. n \in Nat /\ n + 1 # 0 /\ (n + 1) - 1 = n
    OBVIOUS
  <2>2. s # {}
    BY <2>1, FS_EmptySet
  <2>3. Cardinality(s \ {pick(s)}) = n
    BY <1>2, <1>9, <2>1, <2>2, FS_RemoveElement
  <2>4. it[s \ {pick(s)}] = g[s \ {pick(s)}]
    BY <2>3
  <2> QED
    BY <1>5, <1>8, <2>2, <2>4
<1>12. N = Nat
  <2>1. N \in SUBSET Nat /\ \A n \in N : n + 1 \in N
    BY <1>11
  <2> HIDE DEF N
  <2> QED
    BY <1>10, <2>1, NatSetInduction
<1>13. it[T] = g[T]
  BY <1>9, <1>12
<1>14. Total(h, T) = it[T]
  BY DEF Total, MapThenSumSet, MapThenFoldSet, it, pick
<1> QED
  BY <1>4, <1>13, <1>14

(* h is a list of n bytes, headers included. *)
Measures(h, n) == Chained(h) /\ IsFiniteSet(DOMAIN h) /\ Total(h, DOMAIN h) = n

LEMMA ChainIsSized ==
    ASSUME NEW h, Chained(h), IsFiniteSet(DOMAIN h), NEW T \in SUBSET DOMAIN h
    PROVE  /\ Sized(h, T) /\ Total(h, T) \in Nat
           /\ \A x \in T : /\ h[x].size \in Nat
                           /\ Total(h, T) = h[x].size + Header + Total(h, T \ {x})
<1>1. \A U \in SUBSET DOMAIN h : Sized(h, U)
  BY FS_Subset, ChainFacts DEF Sized
<1>2. \A U \in SUBSET DOMAIN h : Total(h, U) = Cardinality(Bytes(h, U))
  BY <1>1, TotalIsBytes
<1>3. \A x \in T : T \ {x} \in SUBSET DOMAIN h
  OBVIOUS
<1>4. \A x \in T : h[x].size \in Nat
  BY ChainFacts
<1> QED
  BY <1>1, <1>2, <1>3, <1>4, BytesAdd

(* Only the sizes count. *)
LEMMA TotalSame ==
    ASSUME NEW h, NEW g, NEW T, Sized(h, T), \A x \in T : g[x].size = h[x].size
    PROVE  Total(g, T) = Total(h, T)
<1>1. Sized(g, T)
  BY DEF Sized
<1>2. Bytes(g, T) = Bytes(h, T)
  BY DEF Bytes
<1> QED
  BY <1>1, <1>2, TotalIsBytes

LEMMA MarkedMeasures ==
    ASSUME NEW h, NEW g, NEW n, Measures(h, n), Chained(g), NEW b, NEW f, Marked(h, g, b, f)
    PROVE  Measures(g, n)
<1>1. DOMAIN g = DOMAIN h /\ \A x \in DOMAIN h : g[x].size = h[x].size
  BY DEF Marked
<1>2. Sized(h, DOMAIN h)
  BY ChainIsSized DEF Measures
<1> QED
  BY <1>1, <1>2, TotalSame DEF Measures

(* What split_block takes from the block is the new block's. *)
LEMMA SplitMeasures ==
    ASSUME NEW h, NEW n, Measures(h, n), NEW b \in DOMAIN h, NEW size \in Nat, h[b].size >= size,
           \A c \in DOMAIN h : b < c => End(h, b) <= c
    PROVE  Measures(Split(h, b, size), n)
<1> DEFINE g == Split(h, b, size)
<1>1. Chained(g) /\ (Marked(h, g, b, FALSE) \/ \E new : Cut(h, g, b, size, new))
  BY SplitChained DEF Measures
<1> HIDE DEF g
<1>2. CASE Marked(h, g, b, FALSE)
  BY <1>1, <1>2, MarkedMeasures DEF g
<1>3. CASE \E new : Cut(h, g, b, size, new)
  <2>1. PICK new : Cut(h, g, b, size, new)
    BY <1>3
  <2>2. /\ DOMAIN g = DOMAIN h \cup {new} /\ new \notin DOMAIN h /\ b # new
        /\ g[new].size = h[b].size - size - Header /\ g[b].size = size
        /\ \A x \in DOMAIN h \ {b} : g[x].size = h[x].size
    BY <2>1 DEF Cut
  <2>3. IsFiniteSet(DOMAIN g)
    BY <2>2, FS_AddElement DEF Measures
  <2>4. /\ (DOMAIN g) \ {new} = DOMAIN h /\ b \in (DOMAIN g) \ {new}
        /\ new \in DOMAIN g /\ (DOMAIN h) \ {b} \in SUBSET DOMAIN h
        /\ (DOMAIN g) \ {new} \in SUBSET DOMAIN g
    BY <2>2
  <2> DEFINE R == (DOMAIN h) \ {b}
  <2>5. /\ Total(h, DOMAIN h) = h[b].size + Header + Total(h, R)
        /\ h[b].size \in Nat /\ Total(h, R) \in Nat /\ Sized(h, R)
    BY <2>4, ChainIsSized DEF Measures
  <2>6. Total(g, DOMAIN g) = g[new].size + Header + Total(g, DOMAIN h)
    BY <1>1, <2>3, <2>4, ChainIsSized
  <2>7. Total(g, DOMAIN h) = g[b].size + Header + Total(g, R)
    BY <1>1, <2>3, <2>4, ChainIsSized
  <2>8. Total(g, R) = Total(h, R)
    BY <2>2, <2>5, TotalSame
  <2>9. Header \in Nat
    BY HeapAssumption
  <2> HIDE DEF R
  <2>10. Total(g, DOMAIN g) = Total(h, DOMAIN h)
    BY <2>2, <2>5, <2>6, <2>7, <2>8, <2>9
  <2> QED
    BY <1>1, <2>3, <2>10 DEF Measures, g
<1> QED
  BY <1>1, <1>2, <1>3

(* merge_adjacent gives the absorbed block and its header to the other. *)
LEMMA AbsorbMeasures ==
    ASSUME NEW h, NEW n, Measures(h, n), NEW b \in DOMAIN h, h[b].next # Nil
    PROVE  LET g == Absorb(h, b, h[b].next)
           IN Measures(g, n) /\ b \in DOMAIN g /\ g[b].prev = h[b].prev
<1> DEFINE c == h[b].next
           g == Absorb(h, b, c)
           R == (DOMAIN h) \ {b, c}
<1>1. Chained(g) /\ Merged(h, g, b, c)
  BY AbsorbChained DEF Measures
<1> HIDE DEF g, c
<1>2. /\ c \in DOMAIN h /\ c # b /\ DOMAIN g = DOMAIN h \ {c}
      /\ g[b].size = h[b].size + Header + h[c].size /\ g[b].prev = h[b].prev
      /\ \A x \in R : g[x].size = h[x].size
  BY <1>1 DEF Merged
<1>3. IsFiniteSet(DOMAIN g)
  BY <1>2, FS_RemoveElement DEF Measures
<1>4. /\ (DOMAIN h \ {c}) \ {b} = R /\ b \in DOMAIN h \ {c} /\ R \in SUBSET DOMAIN h
      /\ DOMAIN h \ {c} \in SUBSET DOMAIN h
  BY <1>2
<1>5. /\ Total(h, DOMAIN h) = h[c].size + Header + Total(h, DOMAIN h \ {c})
      /\ Total(h, DOMAIN h \ {c}) = h[b].size + Header + Total(h, R)
      /\ h[b].size \in Nat /\ h[c].size \in Nat /\ Total(h, R) \in Nat /\ Sized(h, R)
  BY <1>2, <1>4, ChainIsSized DEF Measures
<1>6. Total(g, DOMAIN g) = g[b].size + Header + Total(g, R)
  BY <1>1, <1>2, <1>3, <1>4, ChainIsSized
<1>7. Total(g, R) = Total(h, R)
  BY <1>2, <1>5, TotalSame
<1>8. Header \in Nat
  BY HeapAssumption
<1> HIDE DEF R
<1>9. Total(g, DOMAIN g) = Total(h, DOMAIN h)
  BY <1>2, <1>5, <1>6, <1>7, <1>8
<1> QED
  BY <1>1, <1>2, <1>3, <1>4, <1>9 DEF Measures, g, c

LEMMA FreedMeasures ==
    ASSUME NEW h, NEW n, Measures(h, n), NEW b \in DOMAIN h
    PROVE  Measures(Freed(h, b), n)
<1> DEFINE f == [h EXCEPT ![b].free = TRUE]
           nx == f[b].next
           pv == f[b].prev
           g == IF nx # Nil /\ f[nx].free THEN Absorb(f, b, nx) ELSE f
<1>1. Measures(f, n) /\ b \in DOMAIN f
  <2>1. Chained(f) /\ Marked(h, f, b, TRUE)
    BY FlagChained DEF Measures
  <2> HIDE DEF f
  <2> QED
    BY <2>1, MarkedMeasures DEF Marked
<1> HIDE DEF f
<1>2. Measures(g, n) /\ b \in DOMAIN g /\ g[b].prev = pv
  BY <1>1, AbsorbMeasures
<1> HIDE DEF g
<1>3. pv # Nil => pv \in DOMAIN g /\ g[pv].next = b /\ b # Nil
  BY <1>2, ChainFacts DEF Measures
<1>4. pv # Nil => Measures(Absorb(g, pv, b), n)
  BY <1>2, <1>3, AbsorbMeasures
<1> QED
  BY <1>2, <1>4 DEF Freed, merge_adjacent, f, g

(* A new area adds a page. *)
LEMMA AppendedMeasures ==
    ASSUME NEW h, NEW n, Measures(h, n), OneLast(h), NEW a \in Nat, \A x \in DOMAIN h : x < a
    PROVE  Measures(Appended(h, a), n + Page)
<1> DEFINE g == Appended(h, a)
<1>1. Chained(g) /\ \E t : Extended(h, g, a, t)
  BY AppendedChained DEF Measures, OneLast
<1>2. PICK t : Extended(h, g, a, t)
  BY <1>1
<1> HIDE DEF g
<1>3. /\ DOMAIN g = DOMAIN h \cup {a} /\ a \notin DOMAIN h /\ g[a].size = Page - Header
      /\ \A x \in DOMAIN h : g[x].size = h[x].size
  BY <1>2 DEF Extended
<1>4. IsFiniteSet(DOMAIN g) /\ a \in DOMAIN g /\ (DOMAIN g) \ {a} = DOMAIN h
  BY <1>3, FS_AddElement DEF Measures
<1>5. Total(h, DOMAIN h) \in Nat /\ Sized(h, DOMAIN h)
  BY ChainIsSized DEF Measures
<1>6. Total(g, DOMAIN g) = g[a].size + Header + Total(g, DOMAIN h)
  BY <1>1, <1>4, ChainIsSized
<1>7. Total(g, DOMAIN h) = Total(h, DOMAIN h)
  BY <1>3, <1>5, TotalSame
<1>8. Page \in Nat /\ Header \in Nat
  BY HeapAssumption
<1>9. Total(g, DOMAIN g) = Total(h, DOMAIN h) + Page
  BY <1>3, <1>5, <1>6, <1>7, <1>8
<1> QED
  BY <1>1, <1>4, <1>9 DEF Measures, g

-----------------------------------------------------------------------------
(* The list measures as much as its areas. *)
AreaInv == SoundInv /\ Measures(hdr, Page * Cardinality(Areas))

LEMMA AreasSize ==
    ASSUME SoundInv PROVE IsFiniteSet(Areas) /\ Cardinality(Areas) \in Nat /\ mapped \notin Areas
<1>1. mapped \in Nat
  BY HeapAssumption DEF SoundInv, Sizing
<1>2. IsFiniteSet(0..(mapped - 1))
  BY <1>1, FS_Interval
<1>3. IsFiniteSet(Areas)
  BY <1>2, FS_Difference DEF Areas
<1>4. mapped \notin Areas
  BY <1>1 DEF Areas
<1> QED
  BY <1>3, <1>4, FS_CardinalityType

LEMMA InitAreaInv == Init => AreaInv
<1> SUFFICES ASSUME Init PROVE AreaInv
  OBVIOUS
<1>1. SoundInv
  BY InitSoundInv
<1>2. hdr = [b \in {0} |-> FirstBlock] /\ mapped = 1 /\ SlabPages = {}
  BY DEF Init, SlabPages
<1>3. DOMAIN hdr = {0} /\ hdr[0].size = Page - Header
  BY <1>2 DEF FirstBlock
<1>4. Areas = {0}
  BY <1>2 DEF Areas
<1>5. Cardinality(Areas) = 1 /\ IsFiniteSet(DOMAIN hdr)
  BY <1>3, <1>4, FS_Singleton
<1>6. Chained(hdr)
  BY <1>1 DEF SoundInv, GoodList, WholeList
<1>7. Total(hdr, {0}) = hdr[0].size + Header + Total(hdr, {0} \ {0})
  BY <1>3, <1>5, <1>6, ChainIsSized
<1>8. Total(hdr, {}) = 0
  <2>1. Bytes(hdr, {}) = {} /\ Sized(hdr, {})
    BY FS_EmptySet DEF Bytes, Sized
  <2> QED
    BY <2>1, TotalIsBytes, FS_EmptySet
<1>9. {0} \ {0} = {}
  OBVIOUS
<1>10. Page \in Nat /\ Header \in Nat
  BY HeapAssumption
<1>11. Total(hdr, {0}) = Page
  BY <1>3, <1>7, <1>8, <1>9, <1>10
<1> QED
  BY <1>1, <1>3, <1>5, <1>6, <1>10, <1>11 DEF AreaInv, Measures

LEMMA NextAreaInv == AreaInv /\ [Next]_vars => AreaInv'
<1> SUFFICES ASSUME AreaInv, [Next]_vars PROVE AreaInv'
  OBVIOUS
<1>1. SoundInv /\ SoundInv'
  BY NextSoundInv DEF AreaInv
<1>2. IsFiniteSet(Areas) /\ Cardinality(Areas) \in Nat /\ mapped \notin Areas
  BY <1>1, AreasSize
<1>3. Page \in Nat /\ mapped \in Nat
  BY <1>1, HeapAssumption DEF SoundInv, Sizing
<1> SUFFICES Measures(hdr', Page * Cardinality(Areas'))
  BY <1>1 DEF AreaInv
<1> DEFINE n == Page * Cardinality(Areas)
<1>4. Measures(hdr, n)
  BY DEF AreaInv
<1>5. ASSUME hdr' = hdr, Areas' = Areas PROVE Measures(hdr', Page * Cardinality(Areas'))
  BY <1>4, <1>5
<1>6. ASSUME mapped' = mapped, slabs' = slabs PROVE Areas' = Areas
  BY <1>6 DEF Areas, SlabPages
<1>7. ASSUME NEW size \in Sizes, slab_grow(size) PROVE Areas' = Areas /\ hdr' = hdr
  <2>1. /\ hdr' = hdr /\ mapped' = mapped + 1 /\ DOMAIN slabs' = SlabPages \cup {mapped}
    BY <1>7 DEF slab_grow
  <2> QED
    BY <1>3, <2>1 DEF Areas, SlabPages
<1>8. CASE kmalloc_fit
  <2>1. PICK b \in Fits :
          hdr' = IF old = Nil THEN Split(hdr, b, want) ELSE Freed(Split(hdr, b, want), old)
    BY <1>8 DEF kmalloc_fit
  <2>2. want > 0 /\ mapped' = mapped /\ slabs' = slabs
    BY <1>8 DEF kmalloc_fit
  <2>3. b \in DOMAIN hdr /\ hdr[b].free /\ hdr[b].size >= want /\ want \in Nat
    BY <1>1 DEF Fits, Blocks, SoundInv, Sizing
  <2>4. BlocksApart
    BY <1>1, <2>2 DEF SoundInv
  <2>5. \A c \in DOMAIN hdr : b < c => End(hdr, b) <= c
    BY <2>3, <2>4 DEF BlocksApart, Blocks
  <2>6. Measures(Split(hdr, b, want), n)
    BY <1>4, <2>3, <2>5, SplitMeasures
  <2>7. DOMAIN hdr \subseteq DOMAIN Split(hdr, b, want)
    BY <1>1, <2>3, <2>5, SplitGood DEF SoundInv
  <2>8. old # Nil => old \in DOMAIN hdr
    BY <1>1 DEF SoundInv, OldIsUsed, Used
  <2>9. Measures(hdr', n)
    BY <2>1, <2>6, <2>7, <2>8, FreedMeasures
  <2> QED
    BY <1>6, <2>2, <2>9
<1>9. CASE kmalloc_grow
  <2> DEFINE M == mapped * Page
  <2>1. want > 0 /\ hdr' = Appended(hdr, M) /\ mapped' = mapped + 1 /\ slabs' = slabs
    BY <1>9 DEF kmalloc_grow
  <2>2. BlocksApart /\ OneLast(hdr)
    BY <1>1, <2>1 DEF SoundInv, GoodList, WholeList
  <2>3. /\ \A b \in Blocks : b \in Nat /\ End(hdr, b) \in Nat /\ b < End(hdr, b) /\ End(hdr, b) <= M
        /\ M \in Nat /\ mapped \notin SlabPages
    BY <1>1, <2>2, ApartPages
  <2> HIDE DEF M
  <2>4. \A x \in DOMAIN hdr : x < M
    BY <2>3 DEF Blocks
  <2>5. Measures(hdr', n + Page)
    BY <1>4, <2>1, <2>2, <2>3, <2>4, AppendedMeasures
  <2>6. Areas' = Areas \cup {mapped}
    <3>1. SlabPages' = SlabPages /\ 0..(mapped' - 1) = (0..(mapped - 1)) \cup {mapped}
      BY <1>3, <2>1 DEF SlabPages
    <3> QED
      BY <2>3, <3>1 DEF Areas
  <2>7. Cardinality(Areas') = Cardinality(Areas) + 1
    BY <1>2, <2>6, FS_AddElement
  <2>8. n + Page = Page * Cardinality(Areas')
    BY <1>2, <1>3, <2>7
  <2> QED
    BY <2>5, <2>8
<1>10. ASSUME NEW b \in held, kfree(b) PROVE Measures(hdr', n) /\ Areas' = Areas
  BY <1>4, <1>6, <1>10, FreedMeasures DEF kfree, Blocks
<1>11. CASE UNCHANGED vars
  BY <1>5, <1>6, <1>11 DEF vars
<1>12. ASSUME \/ \E size \in Sizes : slab_alloc(size) \/ kmalloc(size)
              \/ heap_oom
              \/ \E p \in held : kfree_object(p) \/ \E size \in Sizes : krealloc(p, size)
       PROVE  hdr' = hdr /\ mapped' = mapped /\ slabs' = slabs
  BY <1>12 DEF slab_alloc, kmalloc, heap_oom, kfree_object, krealloc
<1> QED
  BY <1>5, <1>6, <1>7, <1>8, <1>9, <1>10, <1>11, <1>12 DEF Next

(* Sizes and headers of the list add up to the pages that the heap has     *)
(* mapped for it: split_block, merge_adjacent and the appending of an area *)
(* neither leak memory nor count any twice, whatever the sizes and also    *)
(* where merge_adjacent has merged across a slab page.                     *)
THEOREM AreasAreAccountedFor == Spec => []AreasAccountedFor
<1>1. Init => AreaInv
  BY InitAreaInv
<1>2. AreaInv /\ [Next]_vars => AreaInv'
  BY NextAreaInv
<1>3. AreaInv => AreasAccountedFor
  BY DEF AreaInv, Measures, Total, AreasAccountedFor, Blocks
<1> QED
  BY <1>1, <1>2, <1>3, PTL DEF Spec
=============================================================================
