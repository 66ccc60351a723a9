------------------------------ MODULE LoaderProofs ------------------------------
(***************************************************************************)
(* Proofs about the page tables (src/arch/x86_64/paging.c) and the loaders *)
(* on top of them (src/kernel/elf.c, src/kernel/bin), for tables of any    *)
(* size, any memory and any images.                                        *)
(*                                                                         *)
(* The tables are a tree of four levels, all of it in the pages that are   *)
(* mapped at boot.  A nested call of paging_map_page for such a page finds *)
(* all tables and changes nothing; one for a page above them never         *)
(* returns.  So all changes are made by the outermost call.                *)
(***************************************************************************)
EXTENDS Loader, SequenceTheorems, WellFoundedInduction, NaturalsInduction, TLAPS

-----------------------------------------------------------------------------
(* Arithmetic of addresses *)

(* Products of natural numbers. *)
LEMMA Products ==
    /\ \A x, y \in Nat : x * y \in Nat /\ x * y = y * x
    /\ \A x, y, z \in Nat : x <= y => x * z <= y * z
    /\ \A x, y \in Nat : (x + 1) * y = x * y + y
    /\ \A x, y, z \in Nat : (x * y) * z = x * (y * z)
<1>1. \A x, y \in Nat : x * y \in Nat /\ x * y = y * x
  OBVIOUS
<1>2. \A x, y, z \in Nat : x <= y => x * z <= y * z
  OBVIOUS
<1>3. \A x, y \in Nat : (x + 1) * y = x * y + y
  OBVIOUS
<1>4. \A x, y, z \in Nat : (x * y) * z = x * (y * z)
  OBVIOUS
<1> QED
  BY <1>1, <1>2, <1>3, <1>4

(* What quotient and remainder are. *)
LEMMA DivMod ==
    ASSUME NEW x \in Nat, NEW n \in Nat \ {0}
    PROVE  x \div n \in Nat /\ x % n \in 0..(n - 1) /\ x = n * (x \div n) + (x % n)
  OBVIOUS

(* The quotient is the only number with this property. *)
LEMMA DivUnique ==
    ASSUME NEW x \in Nat, NEW n \in Nat \ {0}, NEW s \in Nat, s * n <= x, x < (s + 1) * n
    PROVE  x \div n = s
<1> DEFINE d == x \div n
           r == x % n
<1>1. d \in Nat /\ r \in 0..(n - 1) /\ x = n * d + r
  BY DivMod
<1> HIDE DEF d, r
<1>2. /\ d * n = n * d /\ d * n \in Nat /\ s * n \in Nat
      /\ (d + 1) * n = d * n + n /\ (s + 1) * n = s * n + n
  BY <1>1, Products
<1>3. ASSUME d < s PROVE FALSE
  <2>1. d + 1 \in Nat /\ d + 1 <= s
    BY <1>1, <1>3
  <2>2. (d + 1) * n <= s * n
    BY <2>1, Products
  <2> QED
    BY <1>1, <1>2, <2>2
<1>4. ASSUME s < d PROVE FALSE
  <2>1. s + 1 \in Nat /\ s + 1 <= d
    BY <1>1, <1>4
  <2>2. (s + 1) * n <= d * n
    BY <1>1, <2>1, Products
  <2> QED
    BY <1>1, <1>2, <2>2
<1>5. d = s
  BY <1>1, <1>3, <1>4
<1> QED
  BY <1>5 DEF d

(* Dividing twice. *)
LEMMA DivDiv ==
    ASSUME NEW x \in Nat, NEW a \in Nat \ {0}, NEW b \in Nat \ {0}
    PROVE  a * b \in Nat \ {0} /\ x \div (a * b) = (x \div a) \div b
<1> DEFINE y == x \div a
           s == y \div b
<1>1. /\ y \in Nat /\ x % a \in 0..(a - 1) /\ x = a * y + (x % a)
      /\ s \in Nat /\ y % b \in 0..(b - 1) /\ y = b * s + (y % b)
  <2>1. y \in Nat /\ x % a \in 0..(a - 1) /\ x = a * y + (x % a)
    BY DivMod
  <2> HIDE DEF y
  <2> QED
    BY <2>1, DivMod
<1>2. a * b \in Nat \ {0}
  OBVIOUS
<1> HIDE DEF y, s
<1>3. s * b <= y /\ y + 1 <= (s + 1) * b
  <2>1. s * b = b * s /\ s * b \in Nat /\ (s + 1) * b = s * b + b
    BY <1>1, Products
  <2> QED
    BY <1>1, <2>1
<1>4. y * a <= x /\ x < (y + 1) * a
  <2>1. y * a = a * y /\ y * a \in Nat /\ (y + 1) * a = y * a + a
    BY <1>1, Products
  <2> QED
    BY <1>1, <2>1
<1>5. (s * b) * a <= y * a /\ (y + 1) * a <= ((s + 1) * b) * a
  <2>1. s * b \in Nat /\ (s + 1) * b \in Nat /\ y + 1 \in Nat
    BY <1>1, Products
  <2> QED
    BY <1>1, <1>3, <2>1, Products
<1>6. s * (a * b) = (s * b) * a /\ (s + 1) * (a * b) = ((s + 1) * b) * a
  <2>1. \A z \in Nat : z * (a * b) = (z * b) * a
    OBVIOUS
  <2> QED
    BY <1>1, <2>1
<1>7. /\ (s * b) * a \in Nat /\ y * a \in Nat /\ (y + 1) * a \in Nat /\ ((s + 1) * b) * a \in Nat
  <2>1. s * b \in Nat /\ (s + 1) * b \in Nat /\ y + 1 \in Nat
    BY <1>1, Products
  <2> QED
    BY <1>1, <2>1, Products
<1> DEFINE A == (s * b) * a
           B == ((s + 1) * b) * a
           C == y * a
           D == (y + 1) * a
<1>8. A \in Nat /\ B \in Nat /\ C \in Nat /\ D \in Nat /\ A <= C /\ C <= x /\ x < D /\ D <= B
  BY <1>4, <1>5, <1>7
<1>9. A <= x /\ x < B
  <2> HIDE DEF A, B, C, D
  <2> QED
    BY <1>8
<1>10. x \div (a * b) = s
  <2>1. s * (a * b) <= x /\ x < (s + 1) * (a * b)
    BY <1>6, <1>9
  <2> QED
    BY <1>1, <1>2, <2>1, DivUnique
<1> QED
  BY <1>2, <1>10 DEF s, y

(* An address in the base of the tables' size. *)
LEMMA Digits ==
    ASSUME NEW v \in 0..(Top4 - 1)
    PROVE  /\ \A l \in 1..4 : Index(v, l) \in 0..(Fanout - 1)
           /\ \E a, b \in Nat : /\ v = Fanout * a + Index(v, 1)
                                /\ a = Fanout * b + Index(v, 2)
                                /\ b = Fanout * Index(v, 4) + Index(v, 3)
<1>1. Fanout \in Nat \ {0}
  BY PagingAssumption
<1> DEFINE F == Fanout
           G == F * F
           H == F * F * F
           a == v \div F
           b == a \div F
           c == b \div F
<1>2. G \in Nat \ {0} /\ H \in Nat \ {0} /\ H = G * F /\ Top4 = H * F
  BY <1>1 DEF Top4
<1>3. Top4 \in Nat \ {0} /\ v \in Nat
  BY <1>1, <1>2
<1>4. a \in Nat /\ v % F \in 0..(F - 1) /\ v = F * a + (v % F)
  BY <1>1, <1>3, DivMod
<1> HIDE DEF a
<1>5. b \in Nat /\ a % F \in 0..(F - 1) /\ a = F * b + (a % F)
  BY <1>1, <1>4, DivMod
<1> HIDE DEF b
<1>6. c \in Nat /\ b % F \in 0..(F - 1) /\ b = F * c + (b % F)
  BY <1>1, <1>5, DivMod
<1> HIDE DEF c
<1>7. v \div G = b
  BY <1>1, <1>3, DivDiv DEF a, b
<1> HIDE DEF G
<1>8. v \div H = c
  <2>1. v \div (G * F) = (v \div G) \div F
    BY <1>1, <1>2, <1>3, DivDiv
  <2> QED
    BY <1>2, <1>7, <2>1 DEF c
<1> HIDE DEF H
<1>9. c < F
  <2>1. v \div Top4 = c \div F
    <3>1. v \div (H * F) = (v \div H) \div F
      BY <1>1, <1>2, <1>3, DivDiv
    <3> QED
      BY <1>2, <1>8, <3>1
  <2>2. v \div Top4 = 0
    <3>1. 0 * Top4 <= v /\ v < (0 + 1) * Top4
      BY <1>3
    <3> QED
      BY <1>3, <3>1, DivUnique
  <2>3. c % F \in 0..(F - 1) /\ c = F * (c \div F) + (c % F)
    BY <1>1, <1>6, DivMod
  <2> QED
    BY <1>1, <1>6, <2>1, <2>2, <2>3
<1>10. c % F = c
  BY <1>1, <1>6, <1>9
<1>11. /\ Index(v, 1) = v % F /\ Index(v, 2) = a % F /\ Index(v, 3) = b % F
       /\ Index(v, 4) = c
  <2>1. Index(v, 1) = v % F /\ Index(v, 2) = (v \div F) % F
    BY DEF Index
  <2>2. Index(v, 3) = (v \div G) % F
    BY DEF Index, G
  <2>3. Index(v, 4) = (v \div H) % F
    BY DEF Index, H
  <2> QED
    BY <1>7, <1>8, <1>10, <2>1, <2>2, <2>3 DEF a
<1>12. \A l \in 1..4 : Index(v, l) \in 0..(F - 1)
  <2>1. c \in 0..(F - 1)
    BY <1>1, <1>6, <1>9
  <2>2. \A l \in 1..4 : l = 1 \/ l = 2 \/ l = 3 \/ l = 4
    OBVIOUS
  <2> QED
    BY <1>4, <1>5, <1>6, <1>11, <2>1, <2>2
<1> QED
  BY <1>4, <1>5, <1>6, <1>11, <1>12

(* A number below the base has one digit. *)
LEMMA OneDigit ==
    ASSUME NEW x \in Nat, NEW i \in Nat, NEW z \in Nat, z = Fanout * x + i, z < Fanout
    PROVE  x = 0 /\ i = z
<1>1. Fanout \in Nat \ {0}
  BY PagingAssumption
<1>2. x = 0
  <2> SUFFICES ASSUME 1 <= x PROVE FALSE
    OBVIOUS
  <2>1. 1 * Fanout <= x * Fanout
    BY <1>1, Products
  <2> QED
    BY <1>1, <2>1
<1> QED
  BY <1>1, <1>2

(* Pages of the boot mapping have entry 0 on the upper levels. *)
LEMMA LowIndex ==
    ASSUME NEW g \in 0..(Fanout - 1)
    PROVE  /\ g \in 0..(Top4 - 1)
           /\ Index(g, 4) = 0 /\ Index(g, 3) = 0 /\ Index(g, 2) = 0 /\ Index(g, 1) = g
<1>1. Fanout \in Nat \ {0, 1}
  BY PagingAssumption
<1>2. g \in 0..(Top4 - 1)
  <2>1. \A x, y \in Nat \ {0} : x * y \in Nat \ {0} /\ x <= x * y
    OBVIOUS
  <2>2. /\ Fanout * Fanout \in Nat \ {0} /\ Fanout <= Fanout * Fanout
        /\ Fanout * Fanout * Fanout \in Nat \ {0}
        /\ Fanout * Fanout <= Fanout * Fanout * Fanout
        /\ Top4 \in Nat \ {0} /\ Fanout * Fanout * Fanout <= Top4
    BY <1>1, <2>1 DEF Top4
  <2> DEFINE x == Fanout * Fanout
             y == Fanout * Fanout * Fanout
  <2>3. Fanout <= x /\ x <= y /\ y <= Top4 /\ x \in Nat /\ y \in Nat /\ Top4 \in Nat
    BY <2>2
  <2> HIDE DEF x, y
  <2> QED
    BY <1>1, <2>3
<1>3. PICK a \in Nat, b \in Nat : /\ g = Fanout * a + Index(g, 1)
                                  /\ a = Fanout * b + Index(g, 2)
                                  /\ b = Fanout * Index(g, 4) + Index(g, 3)
  BY <1>2, Digits
<1>4. \A l \in 1..4 : Index(g, l) \in 0..(Fanout - 1)
  BY <1>2, Digits
<1>5. /\ Index(g, 1) \in Nat /\ Index(g, 2) \in Nat /\ Index(g, 3) \in Nat
      /\ Index(g, 4) \in Nat /\ 0 < Fanout /\ g < Fanout /\ g \in Nat
  BY <1>1, <1>4
<1>6. a = 0 /\ Index(g, 1) = g
  BY <1>3, <1>5, OneDigit
<1>7. b = 0 /\ Index(g, 2) = 0
  BY <1>3, <1>5, <1>6, OneDigit
<1>8. Index(g, 4) = 0 /\ Index(g, 3) = 0
  BY <1>3, <1>5, <1>7, OneDigit
<1> QED
  BY <1>2, <1>6, <1>7, <1>8

(* Other pages of memory have entry 0 on the two upper levels only. *)
LEMMA RamIndex ==
    ASSUME NEW g \in Frames, g >= Fanout
    PROVE  /\ Index(g, 4) = 0 /\ Index(g, 3) = 0
           /\ Index(g, 2) \in 1..(Fanout - 1)
<1>1. Fanout \in Nat \ {0, 1} /\ g \in 0..(Fanout * Fanout - 1)
  BY PagingAssumption DEF Frames, Ram
<1>2. g \in 0..(Top4 - 1)
  <2>1. \A x \in Nat \ {0} : x * x \in Nat \ {0} /\ x <= x * x
    OBVIOUS
  <2> DEFINE x == Fanout * Fanout
  <2>2. x \in Nat \ {0} /\ g \in 0..(x - 1)
    BY <1>1
  <2>3. Top4 = x * x
    BY <1>1 DEF Top4
  <2> HIDE DEF x
  <2> QED
    BY <2>1, <2>2, <2>3
<1>3. PICK a \in Nat, b \in Nat : /\ g = Fanout * a + Index(g, 1)
                                  /\ a = Fanout * b + Index(g, 2)
                                  /\ b = Fanout * Index(g, 4) + Index(g, 3)
  BY <1>2, Digits
<1>4. \A l \in 1..4 : Index(g, l) \in 0..(Fanout - 1)
  BY <1>2, Digits
<1>5. /\ Index(g, 1) \in Nat /\ Index(g, 2) \in Nat /\ Index(g, 3) \in Nat
      /\ Index(g, 4) \in Nat /\ 0 < Fanout
  BY <1>1, <1>4
<1>6. a # 0
  BY <1>1, <1>3, <1>4
<1>7. a < Fanout
  <2> SUFFICES ASSUME Fanout <= a PROVE FALSE
    BY <1>1
  <2>1. Fanout * Fanout <= a * Fanout /\ a * Fanout = Fanout * a /\ a * Fanout \in Nat
    BY <1>1, Products
  <2>2. Index(g, 1) \in Nat /\ g \in Nat /\ g < Fanout * Fanout /\ Fanout * Fanout \in Nat
    BY <1>1, <1>4
  <2> DEFINE x == Fanout * Fanout
             y == Fanout * a
             i == Index(g, 1)
  <2>3. x <= y /\ g = y + i /\ g < x /\ x \in Nat /\ y \in Nat /\ i \in Nat
    BY <1>3, <2>1, <2>2
  <2> HIDE DEF x, y, i
  <2> QED
    BY <2>3
<1>8. b = 0 /\ Index(g, 2) = a
  BY <1>3, <1>5, <1>7, OneDigit
<1>9. Index(g, 4) = 0 /\ Index(g, 3) = 0
  BY <1>3, <1>5, <1>8, OneDigit
<1> QED
  BY <1>4, <1>6, <1>8, <1>9

(* Virtual pages above the boot mapping have another entry on some level. *)
LEMMA VirtIndex ==
    ASSUME NEW v \in VirtPages
    PROVE  /\ v \in 0..(Top4 - 1)
           /\ ~(Index(v, 4) = 0 /\ Index(v, 3) = 0 /\ Index(v, 2) = 0)
<1>1. Fanout \in Nat \ {0, 1}
  BY PagingAssumption
<1> DEFINE G == Fanout * Fanout
<1>2. G \in Nat
  BY <1>1
<1>3. v \in G..(Top4 - 1) \/ v \in 0..(Top4 - 1)
  BY PagingAssumption DEF VirtPages
<1> HIDE DEF G
<1>4. Top4 \in Nat
  BY <1>1, Products DEF Top4
<1>5. v \in 0..(Top4 - 1) /\ v >= Fanout
  BY <1>2, <1>3, <1>4 DEF VirtPages
<1>6. ASSUME Index(v, 4) = 0, Index(v, 3) = 0, Index(v, 2) = 0 PROVE FALSE
  <2>1. PICK a \in Nat, b \in Nat : /\ v = Fanout * a + Index(v, 1)
                                    /\ a = Fanout * b + Index(v, 2)
                                    /\ b = Fanout * Index(v, 4) + Index(v, 3)
    BY <1>5, Digits
  <2>2. Index(v, 1) \in 0..(Fanout - 1)
    BY <1>5, Digits
  <2>3. b = 0
    BY <1>1, <1>6, <2>1
  <2>4. a = 0
    BY <1>1, <1>6, <2>1, <2>3
  <2> QED
    BY <1>1, <1>5, <2>1, <2>2, <2>4
<1> QED
  BY <1>5, <1>6

(* The indices tell addresses apart. *)
LEMMA IndexInjective ==
    ASSUME NEW u \in 0..(Top4 - 1), NEW v \in 0..(Top4 - 1),
           \A l \in 1..4 : Index(u, l) = Index(v, l)
    PROVE  u = v
<1>1. PICK a \in Nat, b \in Nat : /\ u = Fanout * a + Index(u, 1)
                                  /\ a = Fanout * b + Index(u, 2)
                                  /\ b = Fanout * Index(u, 4) + Index(u, 3)
  BY Digits
<1>2. PICK c \in Nat, d \in Nat : /\ v = Fanout * c + Index(v, 1)
                                  /\ c = Fanout * d + Index(v, 2)
                                  /\ d = Fanout * Index(v, 4) + Index(v, 3)
  BY Digits
<1>3. b = d
  BY <1>1, <1>2
<1>4. a = c
  BY <1>1, <1>2, <1>3
<1> QED
  BY <1>1, <1>2, <1>4

-----------------------------------------------------------------------------
(* The tree of tables *)

Words == 0..(Fanout - 1)
Addresses == 0..(Top4 - 1)

(* Indices are places in a table. *)
LEMMA IndexInWords ==
    ASSUME NEW v \in Addresses, NEW l \in 1..4
    PROVE  Index(v, l) \in Words
<1>1. v \in 0..(Top4 - 1)
  BY DEF Addresses
<1>2. \A k \in 1..4 : Index(v, k) \in 0..(Fanout - 1)
  BY <1>1, Digits
<1> QED
  BY <1>2 DEF Words

(* One level of a walk in memory m. *)
Follow(m, t, i) == IF t = Zero THEN Zero ELSE m[t][i]

At3(m, v) == Follow(m, Root, Index(v, 4))
At2(m, v) == Follow(m, At3(m, v), Index(v, 3))
At1(m, v) == Follow(m, At2(m, v), Index(v, 2))
At0(m, v) == Follow(m, At1(m, v), Index(v, 1))

(* The table that v uses on level l; on level 0, what v translates to. *)
At(m, v, l) ==
    CASE l = 4 -> Root
      [] l = 3 -> At3(m, v)
      [] l = 2 -> At2(m, v)
      [] l = 1 -> At1(m, v)
      [] l = 0 -> At0(m, v)

(* lev gives every page its level in the tree: 4 the root, 0 no table.     *)
Labels(lev, m) ==
    /\ lev \in [Pages -> 0..4]
    /\ m \in [Pages -> [Words -> Int]]
    /\ \A p \in Pages : lev[p] = 4 <=> p = Root
    /\ \A p \in Pages : \A i \in Words :
          lev[p] >= 2 /\ m[p][i] # Zero => m[p][i] \in Pages /\ lev[m[p][i]] = lev[p] - 1
    /\ \A p \in Pages :
          lev[p] \in 1..3 => \E q \in Pages : \E i \in Words : lev[q] = lev[p] + 1 /\ m[q][i] = p
    /\ \A p, q \in Pages : \A i, j \in Words :
          lev[p] >= 2 /\ lev[q] >= 2 /\ m[p][i] # Zero /\ m[p][i] = m[q][j] => p = q /\ i = j
    /\ \A p \in Pages : lev[p] > 0 => p < Fanout

(* What paging_init wrote is still there. *)
BootKept(m) ==
    /\ m[BootTables[1]][0] = BootTables[2]
    /\ m[BootTables[2]][0] = BootTables[3]
    /\ m[BootTables[3]][0] = BootTables[4]
    /\ \A i \in Words : m[BootTables[4]][i] = i

(* The four boot tables are pages, and no page is the cleared word. *)
LEMMA BootPages ==
    /\ Fanout \in Nat \ {0, 1} /\ 0 \in Words
    /\ \A k \in 1..4 : BootTables[k] \in Pages /\ BootTables[k] \in Words
    /\ Root \in Pages /\ Root = BootTables[1]
    /\ \A p \in Pages : p \in Nat /\ p # Zero
    /\ Frames \subseteq Pages /\ Ram \subseteq Pages /\ Frames \subseteq Ram
    /\ \A k \in 1..4 : BootTables[k] \in Boot
    /\ Pages = Frames \cup Boot /\ Frames \cap Boot = {}
<1>1. Fanout \in Nat \ {0, 1} /\ 0 \in Words
  BY PagingAssumption DEF Words
<1>2. \A k \in 1..4 : BootTables[k] \in Pages /\ BootTables[k] \in Words
  BY PagingAssumption DEF Pages, Boot, Words
<1>3. Root \in Pages /\ Root = BootTables[1]
  BY <1>2 DEF Root
<1>4. \A p \in Pages : p \in Nat
  <2>1. Ram \subseteq Nat
    <3>1. Fanout * Fanout \in Nat
      BY <1>1
    <3> QED
      BY <3>1, PagingAssumption DEF Ram
  <2>2. \A k \in 1..4 : BootTables[k] \in Nat
    BY <1>1, <1>2 DEF Words
  <2> QED
    BY <2>1, <2>2 DEF Pages, Boot
<1>5. \A p \in Nat : p # Zero
  BY DEF Zero
<1> QED
  BY <1>1, <1>2, <1>3, <1>4, <1>5 DEF Pages, Frames, Boot

(* A walk goes down one level at a time. *)
LEMMA Descend ==
    ASSUME NEW m, NEW v, NEW l \in 1..4
    PROVE  At(m, v, l - 1) = Follow(m, At(m, v, l), Index(v, l))
<1>1. /\ At(m, v, 4) = Root /\ At(m, v, 3) = At3(m, v) /\ At(m, v, 2) = At2(m, v)
      /\ At(m, v, 1) = At1(m, v) /\ At(m, v, 0) = At0(m, v)
  BY DEF At
<1>2. l = 1 \/ l = 2 \/ l = 3 \/ l = 4
  OBVIOUS
<1>3. CASE l = 4
  BY <1>1, <1>3 DEF At3
<1>4. CASE l = 3
  BY <1>1, <1>4 DEF At2
<1>5. CASE l = 2
  BY <1>1, <1>5 DEF At1
<1>6. CASE l = 1
  BY <1>1, <1>6 DEF At0
<1> QED
  BY <1>2, <1>3, <1>4, <1>5, <1>6

(* walk and paging_virt_to_phys are such walks. *)
LEMMA Walks ==
    ASSUME NEW v
    PROVE  walk(v) = At(mem, v, 1) /\ paging_virt_to_phys(v) = At(mem, v, 0)
<1>1. Root # Zero
  BY BootPages
<1>2. Next3(v) = At3(mem, v)
  BY <1>1 DEF Next3, At3, Follow
<1>3. Next2(v) = At2(mem, v)
  BY <1>2 DEF Next2, At2, Follow
<1>4. walk(v) = At1(mem, v)
  BY <1>3 DEF walk, At1, Follow
<1>5. paging_virt_to_phys(v) = At0(mem, v)
  BY <1>4 DEF paging_virt_to_phys, At0, Follow
<1> QED
  BY <1>4, <1>5 DEF At

(* Every table of a walk has its level. *)
LEMMA AtLevel ==
    ASSUME NEW lev, NEW m, Labels(lev, m), NEW v \in Addresses, NEW l \in 1..4,
           At(m, v, l) # Zero
    PROVE  At(m, v, l) \in Pages /\ lev[At(m, v, l)] = l
<1> DEFINE P(k) == At(m, v, k) # Zero => At(m, v, k) \in Pages /\ lev[At(m, v, k)] = k
<1>1. P(4)
  BY BootPages DEF At, Labels
<1>2. ASSUME NEW k \in 2..4, P(k) PROVE P(k - 1)
  <2>1. At(m, v, k - 1) = Follow(m, At(m, v, k), Index(v, k))
    BY Descend
  <2>2. Index(v, k) \in Words
    BY IndexInWords
  <2>3. CASE At(m, v, k) = Zero
    BY <2>1, <2>3 DEF Follow
  <2>4. CASE At(m, v, k) # Zero
    <3> DEFINE t == At(m, v, k)
    <3>1. t \in Pages /\ lev[t] = k /\ At(m, v, k - 1) = m[t][Index(v, k)]
      BY <1>2, <2>1, <2>4 DEF Follow
    <3> HIDE DEF t
    <3> QED
      BY <2>2, <3>1 DEF Labels
  <2> QED
    BY <2>3, <2>4
<1> HIDE DEF P
<1>3. P(3)
  BY <1>1, <1>2, 4 - 1 = 3
<1>4. P(2)
  BY <1>2, <1>3, 3 - 1 = 2
<1>5. P(1)
  BY <1>2, <1>4, 2 - 1 = 1
<1>6. P(l)
  <2>1. l = 1 \/ l = 2 \/ l = 3 \/ l = 4
    OBVIOUS
  <2> QED
    BY <1>1, <1>3, <1>4, <1>5, <2>1
<1> QED
  BY <1>6 DEF P

(* Two walks that use the same table came the same way. *)
LEMMA AtInjective ==
    ASSUME NEW lev, NEW m, Labels(lev, m), NEW u \in Addresses, NEW v \in Addresses,
           NEW l \in 1..4, At(m, u, l) = At(m, v, l), At(m, v, l) # Zero
    PROVE  \A k \in 1..4 : k > l => Index(u, k) = Index(v, k)
<1> DEFINE S(k) == At(m, u, k) = At(m, v, k) /\ At(m, v, k) # Zero
<1>1. ASSUME NEW k \in 1..3, S(k) PROVE S(k + 1) /\ Index(u, k + 1) = Index(v, k + 1)
  <2> DEFINE n == k + 1
             s == At(m, u, n)
             t == At(m, v, n)
  <2>1. n \in 2..4 /\ n - 1 = k
    OBVIOUS
  <2> HIDE DEF n
  <2>2. At(m, u, k) = Follow(m, s, Index(u, n)) /\ At(m, v, k) = Follow(m, t, Index(v, n))
    BY <2>1, Descend
  <2>3. s # Zero /\ t # Zero
    BY <1>1, <2>2 DEF Follow
  <2>4. s \in Pages /\ lev[s] = n /\ t \in Pages /\ lev[t] = n
    BY <2>1, <2>3, AtLevel
  <2>5. Index(u, n) \in Words /\ Index(v, n) \in Words
    BY <2>1, IndexInWords
  <2>6. m[s][Index(u, n)] = m[t][Index(v, n)] /\ m[s][Index(u, n)] # Zero
    BY <1>1, <2>2, <2>3 DEF Follow
  <2> HIDE DEF s, t
  <2>7. s = t /\ Index(u, n) = Index(v, n)
    <3>1. \A p, q \in Pages : \A i, j \in Words :
             lev[p] >= 2 /\ lev[q] >= 2 /\ m[p][i] # Zero /\ m[p][i] = m[q][j] => p = q /\ i = j
      BY DEF Labels
    <3>2. lev[s] >= 2 /\ lev[t] >= 2
      BY <2>1, <2>4
    <3> QED
      BY <2>4, <2>5, <2>6, <3>1, <3>2
  <2> QED
    BY <2>3, <2>7 DEF n, s, t
<1> HIDE DEF S
<1>2. S(l)
  BY DEF S
<1>3. CASE l = 4
  BY <1>3
<1>4. CASE l = 3
  <2>1. Index(u, 4) = Index(v, 4)
    BY <1>1, <1>2, <1>4, 3 + 1 = 4
  <2> QED
    BY <1>4, <2>1
<1>5. CASE l = 2
  <2>1. S(3) /\ Index(u, 3) = Index(v, 3)
    BY <1>1, <1>2, <1>5, 2 + 1 = 3
  <2>2. Index(u, 4) = Index(v, 4)
    BY <1>1, <2>1, 3 + 1 = 4
  <2>3. \A k \in 1..4 : k > 2 => k = 3 \/ k = 4
    OBVIOUS
  <2> QED
    BY <1>5, <2>1, <2>2, <2>3
<1>6. CASE l = 1
  <2>1. S(2) /\ Index(u, 2) = Index(v, 2)
    BY <1>1, <1>2, <1>6, 1 + 1 = 2
  <2>2. S(3) /\ Index(u, 3) = Index(v, 3)
    BY <1>1, <2>1, 2 + 1 = 3
  <2>3. Index(u, 4) = Index(v, 4)
    BY <1>1, <2>2, 3 + 1 = 4
  <2>4. \A k \in 1..4 : k > 1 => k = 2 \/ k = 3 \/ k = 4
    OBVIOUS
  <2> QED
    BY <1>6, <2>1, <2>2, <2>3, <2>4
<1> QED
  BY <1>3, <1>4, <1>5, <1>6

(* The tables that the root leads to are the pages with a level. *)
LEMMA TablesAreLabelled ==
    ASSUME NEW lev, Labels(lev, mem)
    PROVE  Tables = {p \in Pages : lev[p] > 0}
<1> DEFINE Entries(S) == {mem[t][i] : t \in S, i \in 0..(Fanout - 1)} \ {Zero}
           Lv(k) == {p \in Pages : lev[p] = k}
<1>1. Tables = {Root} \cup Entries({Root}) \cup Entries(Entries({Root}))
                      \cup Entries(Entries(Entries({Root})))
  BY DEF Tables
<1>2. {Root} = Lv(4)
  BY BootPages DEF Labels
<1>3. ASSUME NEW k \in 2..4 PROVE Entries(Lv(k)) = Lv(k - 1)
  <2>1. ASSUME NEW x \in Entries(Lv(k)) PROVE x \in Lv(k - 1)
    <3>1. PICK t \in Lv(k), i \in Words : x = mem[t][i] /\ x # Zero
      BY <2>1 DEF Words
    <3> QED
      BY <3>1 DEF Labels
  <2>2. ASSUME NEW x \in Lv(k - 1) PROVE x \in Entries(Lv(k))
    <3>1. x \in Pages /\ lev[x] \in 1..3 /\ lev[x] + 1 = k
      OBVIOUS
    <3>2. PICK q \in Pages, i \in Words : lev[q] = lev[x] + 1 /\ mem[q][i] = x
      BY <3>1 DEF Labels
    <3>3. x # Zero
      BY <3>1, BootPages
    <3> QED
      BY <3>1, <3>2, <3>3 DEF Words
  <2> QED
    BY <2>1, <2>2
<1> HIDE DEF Entries
<1>4. Entries(Lv(4)) = Lv(3) /\ Entries(Lv(3)) = Lv(2) /\ Entries(Lv(2)) = Lv(1)
  BY <1>3, 4 - 1 = 3, 3 - 1 = 2, 2 - 1 = 1
<1>5. Tables = Lv(4) \cup Lv(3) \cup Lv(2) \cup Lv(1)
  BY <1>1, <1>2, <1>4
<1>6. \A p \in Pages : lev[p] > 0 <=> lev[p] = 4 \/ lev[p] = 3 \/ lev[p] = 2 \/ lev[p] = 1
  BY DEF Labels
<1> QED
  BY <1>5, <1>6

(* The pages of memory as addresses. *)
LEMMA RamAddresses ==
    ASSUME NEW g \in Frames
    PROVE  g \in Addresses
<1>1. Fanout \in Nat \ {0, 1} /\ g \in 0..(Fanout * Fanout - 1)
  BY PagingAssumption DEF Frames, Ram
<1>2. \A x \in Nat \ {0} : x * x \in Nat \ {0} /\ x <= x * x
  OBVIOUS
<1> DEFINE x == Fanout * Fanout
<1>3. x \in Nat \ {0} /\ g \in 0..(x - 1)
  BY <1>1
<1>4. Top4 = x * x
  BY <1>1 DEF Top4
<1> HIDE DEF x
<1> QED
  BY <1>2, <1>3, <1>4 DEF Addresses

(* The walks of the pages of memory: those mapped at boot translate to     *)
(* themselves, the others use the same tables above the page table.        *)
LEMMA BootWalks ==
    ASSUME NEW m, BootKept(m), NEW g \in Nat, g < Fanout \/ g \in Frames
    PROVE  /\ \A l \in 1..4 : g < Fanout \/ l > 1 => At(m, g, l) = BootTables[5 - l]
           /\ g < Fanout => At(m, g, 0) = g
<1>1. Index(g, 4) = 0 /\ Index(g, 3) = 0
  <2>1. CASE g < Fanout
    <3>1. g \in 0..(Fanout - 1)
      BY <2>1, BootPages
    <3> QED
      BY <3>1, LowIndex
  <2>2. CASE ~(g < Fanout)
    <3>1. g \in Frames /\ g >= Fanout
      BY <2>2, BootPages
    <3> QED
      BY <3>1, RamIndex
  <2> QED
    BY <2>1, <2>2
<1>2. ASSUME NEW k \in 1..4 PROVE BootTables[k] # Zero
  BY BootPages
<1>3. At(m, g, 4) = BootTables[1]
  BY BootPages DEF At
<1>4. At(m, g, 3) = BootTables[2]
  <2>1. At(m, g, 4 - 1) = Follow(m, At(m, g, 4), Index(g, 4))
    BY Descend
  <2> QED
    BY <1>1, <1>2, <1>3, <2>1 DEF Follow, BootKept
<1>5. At(m, g, 2) = BootTables[3]
  <2>1. At(m, g, 3 - 1) = Follow(m, At(m, g, 3), Index(g, 3))
    BY Descend
  <2> QED
    BY <1>1, <1>2, <1>4, <2>1 DEF Follow, BootKept
<1>6. ASSUME g < Fanout PROVE At(m, g, 1) = BootTables[4] /\ At(m, g, 0) = g
  <2>1. g \in 0..(Fanout - 1)
    BY <1>6, BootPages
  <2>2. Index(g, 2) = 0 /\ Index(g, 1) = g
    BY <2>1, LowIndex
  <2>3. At(m, g, 2 - 1) = Follow(m, At(m, g, 2), Index(g, 2))
    BY Descend
  <2>4. At(m, g, 1) = BootTables[4]
    BY <1>2, <1>5, <2>2, <2>3 DEF Follow, BootKept
  <2>5. At(m, g, 1 - 1) = Follow(m, At(m, g, 1), Index(g, 1))
    BY Descend
  <2> QED
    BY <1>2, <2>1, <2>2, <2>4, <2>5 DEF Follow, BootKept, Words
<1>8. \A l \in 1..4 : l = 1 \/ l = 2 \/ l = 3 \/ l = 4
  OBVIOUS
<1>9. 5 - 4 = 1 /\ 5 - 3 = 2 /\ 5 - 2 = 3 /\ 5 - 1 = 4
  OBVIOUS
<1> QED
  BY <1>3, <1>4, <1>5, <1>6, <1>8, <1>9

(* A client's address never uses the lowest boot table. *)
LEMMA ClientsApart ==
    ASSUME NEW lev, NEW m, Labels(lev, m), BootKept(m), NEW v \in VirtPages
    PROVE  v \in Addresses /\ At(m, v, 1) # BootTables[4]
<1>1. v \in Addresses /\ ~(Index(v, 4) = 0 /\ Index(v, 3) = 0 /\ Index(v, 2) = 0)
  BY VirtIndex DEF Addresses
<1>2. 0 \in Addresses /\ Index(0, 4) = 0 /\ Index(0, 3) = 0 /\ Index(0, 2) = 0
  <2>1. 0 \in 0..(Fanout - 1)
    BY BootPages DEF Words
  <2> QED
    BY <2>1, LowIndex DEF Addresses
<1>3. At(m, 0, 1) = BootTables[4]
  <2>1. 0 < Fanout
    BY BootPages
  <2>2. At(m, 0, 1) = BootTables[5 - 1]
    BY <2>1, BootWalks
  <2> QED
    BY <2>2
<1>4. BootTables[4] # Zero
  BY BootPages
<1>5. ASSUME At(m, v, 1) = BootTables[4] PROVE FALSE
  <2>1. \A k \in 1..4 : k > 1 => Index(v, k) = Index(0, k)
    BY <1>1, <1>2, <1>3, <1>4, <1>5, AtInjective
  <2>2. Index(v, 4) = Index(0, 4) /\ Index(v, 3) = Index(0, 3) /\ Index(v, 2) = Index(0, 2)
    BY <2>1
  <2> QED
    BY <1>1, <1>2, <2>2
<1> QED
  BY <1>1, <1>5

(* Walks in two memories that agree on the tables are the same. *)
LEMMA SameWalks ==
    ASSUME NEW lev, NEW m, NEW n, Labels(lev, m), NEW b \in 1..2,
           \A p \in Pages : lev[p] >= b => n[p] = m[p]
    PROVE  \A v \in Addresses : \A l \in 0..4 : l >= b - 1 => At(n, v, l) = At(m, v, l)
<1> SUFFICES ASSUME NEW v \in Addresses
             PROVE  \A l \in 0..4 : l >= b - 1 => At(n, v, l) = At(m, v, l)
  OBVIOUS
<1> DEFINE P(l) == l >= b - 1 => At(n, v, l) = At(m, v, l)
<1>1. P(4)
  BY DEF At
<1>2. ASSUME NEW l \in 1..4, P(l) PROVE P(l - 1)
  <2> SUFFICES ASSUME l >= b PROVE At(n, v, l - 1) = At(m, v, l - 1)
    OBVIOUS
  <2>1. At(n, v, l) = At(m, v, l)
    BY <1>2
  <2>2. /\ At(n, v, l - 1) = Follow(n, At(n, v, l), Index(v, l))
        /\ At(m, v, l - 1) = Follow(m, At(m, v, l), Index(v, l))
    BY Descend
  <2>3. CASE At(m, v, l) = Zero
    BY <2>1, <2>2, <2>3 DEF Follow
  <2>4. CASE At(m, v, l) # Zero
    <3>1. At(m, v, l) \in Pages /\ lev[At(m, v, l)] = l
      BY <2>4, AtLevel
    <3>2. n[At(m, v, l)] = m[At(m, v, l)]
      BY <3>1
    <3> QED
      BY <2>1, <2>2, <3>2 DEF Follow
  <2> QED
    BY <2>3, <2>4
<1> HIDE DEF P
<1>3. P(3)
  BY <1>1, <1>2, 4 - 1 = 3
<1>4. P(2)
  BY <1>2, <1>3, 3 - 1 = 2
<1>5. P(1)
  BY <1>2, <1>4, 2 - 1 = 1
<1>6. P(0)
  BY <1>2, <1>5, 1 - 1 = 0
<1>7. \A l \in 0..4 : l = 0 \/ l = 1 \/ l = 2 \/ l = 3 \/ l = 4
  OBVIOUS
<1>8. \A l \in 0..4 : P(l)
  BY <1>1, <1>3, <1>4, <1>5, <1>6, <1>7
<1> QED
  BY <1>8 DEF P

(* Memories that agree on the upper tables have the same tree. *)
LEMMA SameTree ==
    ASSUME NEW lev, NEW m, NEW n \in [Pages -> [Words -> Int]], Labels(lev, m),
           \A p \in Pages : lev[p] >= 2 => n[p] = m[p]
    PROVE  Labels(lev, n)
<1>1. /\ lev \in [Pages -> 0..4]
      /\ \A p \in Pages : lev[p] = 4 <=> p = Root
      /\ \A p \in Pages : lev[p] > 0 => p < Fanout
  BY DEF Labels
<1>2. \A p \in Pages : \A i \in Words :
        lev[p] >= 2 /\ n[p][i] # Zero => n[p][i] \in Pages /\ lev[n[p][i]] = lev[p] - 1
  BY DEF Labels
<1>3. ASSUME NEW p \in Pages, lev[p] \in 1..3
      PROVE  \E q \in Pages : \E i \in Words : lev[q] = lev[p] + 1 /\ n[q][i] = p
  <2>1. PICK q \in Pages, i \in Words : lev[q] = lev[p] + 1 /\ m[q][i] = p
    BY <1>3 DEF Labels
  <2>2. lev[q] >= 2
    BY <1>3, <2>1
  <2> QED
    BY <2>1, <2>2
<1>4. ASSUME NEW p \in Pages, NEW q \in Pages, NEW i \in Words, NEW j \in Words,
             lev[p] >= 2, lev[q] >= 2, n[p][i] # Zero, n[p][i] = n[q][j]
      PROVE  p = q /\ i = j
  <2>1. m[p][i] # Zero /\ m[p][i] = m[q][j]
    BY <1>4
  <2>2. \A x, y \in Pages : \A a, b \in Words :
           lev[x] >= 2 /\ lev[y] >= 2 /\ m[x][a] # Zero /\ m[x][a] = m[y][b] => x = y /\ a = b
    BY DEF Labels
  <2> QED
    BY <1>4, <2>1, <2>2
<1> QED
  BY <1>1, <1>2, <1>3, <1>4 DEF Labels

(* The boot tables have their levels. *)
LEMMA BootLevels ==
    ASSUME NEW lev, NEW m, Labels(lev, m), BootKept(m)
    PROVE  \A k \in 1..4 : lev[BootTables[k]] = 5 - k
<1>1. 0 < Fanout /\ 0 \in Nat /\ 0 \in Addresses
  <2>1. 0 \in 0..(Fanout - 1) /\ 0 < Fanout
    BY BootPages DEF Words
  <2> QED
    BY <2>1, LowIndex DEF Addresses
<1>2. SUFFICES ASSUME NEW k \in 1..4 PROVE lev[BootTables[k]] = 5 - k
  OBVIOUS
<1>3. 5 - k \in 1..4 /\ 5 - (5 - k) = k
  OBVIOUS
<1>4. At(m, 0, 5 - k) = BootTables[k]
  BY <1>1, <1>3, BootWalks
<1>5. BootTables[k] # Zero
  BY BootPages
<1> QED
  BY <1>1, <1>3, <1>4, <1>5, AtLevel

-----------------------------------------------------------------------------
(* What the stores into memory do to the translations *)

(* The last step of paging_map_page and paging_unmap_page changes one      *)
(* translation only.                                                       *)
LEMMA SetEntry ==
    ASSUME NEW lev, NEW m, Labels(lev, m), BootKept(m), NEW v \in VirtPages,
           At(m, v, 1) # Zero, NEW x \in Int, NEW n \in [Pages -> [Words -> Int]],
           \A p \in Pages : \A j \in Words :
              n[p][j] = IF p = At(m, v, 1) /\ j = Index(v, 1) THEN x ELSE m[p][j]
    PROVE  /\ Labels(lev, n) /\ BootKept(n)
           /\ \A p \in Pages : p # At(m, v, 1) => n[p] = m[p]
           /\ \A u \in Addresses : \A l \in 1..4 : At(n, u, l) = At(m, u, l)
           /\ At(n, v, 0) = x
           /\ \A u \in Addresses : u # v => At(n, u, 0) = At(m, u, 0)
<1> DEFINE t == At(m, v, 1)
           i == Index(v, 1)
<1>1. v \in Addresses /\ t # BootTables[4]
  BY ClientsApart
<1>2. t \in Pages /\ lev[t] = 1
  BY <1>1, AtLevel
<1>3. i \in Words
  BY <1>1, IndexInWords
<1>4. m \in [Pages -> [Words -> Int]]
  BY DEF Labels
<1>5. \A p \in Pages : \A j \in Words : n[p][j] = IF p = t /\ j = i THEN x ELSE m[p][j]
  OBVIOUS
<1>6. At(n, v, 0) = Follow(n, At(n, v, 1), i) /\ At(m, v, 0) = Follow(m, t, i)
  <2>1. /\ At(n, v, 1 - 1) = Follow(n, At(n, v, 1), i)
        /\ At(m, v, 1 - 1) = Follow(m, At(m, v, 1), i)
    BY Descend
  <2> QED
    BY <2>1
<1> HIDE DEF t, i
<1>7. /\ \A p \in Pages : p # t => n[p] = m[p]
      /\ n[t][i] = x
      /\ \A j \in Words : j # i => n[t][j] = m[t][j]
  <2>1. ASSUME NEW p \in Pages, p # t PROVE n[p] = m[p]
    <3>1. n[p] \in [Words -> Int] /\ m[p] \in [Words -> Int]
      BY <1>4
    <3>2. \A j \in Words : n[p][j] = m[p][j]
      BY <1>5, <2>1
    <3> QED
      BY <3>1, <3>2
  <2> QED
    BY <1>2, <1>3, <1>5, <2>1
<1>8. \A p \in Pages : lev[p] >= 2 => n[p] = m[p]
  BY <1>2, <1>7
<1>9. Labels(lev, n)
  BY <1>7, <1>8, SameTree
<1>10. \A u \in Addresses : \A l \in 1..4 : At(n, u, l) = At(m, u, l)
  <2>1. \A u \in Addresses : \A l \in 0..4 : l >= 2 - 1 => At(n, u, l) = At(m, u, l)
    BY <1>8, SameWalks
  <2> QED
    BY <2>1
<1>11. BootKept(n)
  <2>1. \A k \in 1..4 : lev[BootTables[k]] = 5 - k
    BY BootLevels
  <2>2. \A k \in 1..4 : n[BootTables[k]] = m[BootTables[k]]
    <3>1. \A k \in 1..4 : BootTables[k] # t
      <4>1. \A k \in 1..4 : 5 - k = 1 => k = 4
        OBVIOUS
      <4> QED
        BY <1>1, <1>2, <2>1, <4>1
    <3> QED
      BY <1>7, <3>1, BootPages
  <2> QED
    BY <2>2 DEF BootKept
<1>12. At(n, v, 0) = x
  <2>1. At(n, v, 1) = t
    BY <1>1, <1>10 DEF t
  <2>2. t # Zero
    BY <1>2, BootPages
  <2> QED
    BY <1>6, <1>7, <2>1, <2>2 DEF Follow
<1>13. ASSUME NEW u \in Addresses, u # v PROVE At(n, u, 0) = At(m, u, 0)
  <2> DEFINE s == At(m, u, 1)
             j == Index(u, 1)
  <2>1. At(n, u, 0) = Follow(n, s, j) /\ At(m, u, 0) = Follow(m, s, j)
    <3>1. /\ At(n, u, 1 - 1) = Follow(n, At(n, u, 1), j)
          /\ At(m, u, 1 - 1) = Follow(m, At(m, u, 1), j)
      BY Descend
    <3> QED
      BY <1>10, <3>1
  <2>2. j \in Words
    BY IndexInWords
  <2>3. CASE s = Zero
    BY <2>1, <2>3 DEF Follow
  <2>4. CASE s # Zero /\ s # t
    <3>1. s \in Pages
      BY <2>4, AtLevel
    <3> QED
      BY <1>7, <2>1, <2>4, <3>1 DEF Follow
  <2>5. CASE s # Zero /\ s = t
    <3>1. j # i
      <4> SUFFICES ASSUME j = i PROVE FALSE
        OBVIOUS
      <4>1. \A k \in 1..4 : k > 1 => Index(u, k) = Index(v, k)
        BY <1>1, <2>5, AtInjective DEF t
      <4>2. \A k \in 1..4 : Index(u, k) = Index(v, k)
        BY <4>1 DEF i
      <4> QED
        BY <1>1, <1>13, <4>2, IndexInjective DEF Addresses
    <3>2. n[s][j] = m[s][j]
      BY <1>7, <2>2, <2>5, <3>1
    <3> QED
      BY <2>1, <3>2 DEF Follow
  <2> QED
    BY <2>3, <2>4, <2>5
<1> QED
  BY <1>7, <1>9, <1>10, <1>11, <1>12, <1>13 DEF t

(* A store into a page that is no table changes no translation. *)
LEMMA Fill ==
    ASSUME NEW lev, NEW m, Labels(lev, m), BootKept(m), NEW p \in Pages, lev[p] = 0,
           NEW n \in [Pages -> [Words -> Int]], \A q \in Pages : q # p => n[q] = m[q]
    PROVE  /\ Labels(lev, n) /\ BootKept(n)
           /\ \A u \in Addresses : \A l \in 0..4 : At(n, u, l) = At(m, u, l)
<1>1. \A q \in Pages : lev[q] >= 1 => n[q] = m[q]
  OBVIOUS
<1>2. \A q \in Pages : lev[q] >= 2 => n[q] = m[q]
  <2>1. \A q \in Pages : lev[q] \in 0..4
    BY DEF Labels
  <2> QED
    BY <1>1, <2>1
<1>3. \A u \in Addresses : \A l \in 0..4 : At(n, u, l) = At(m, u, l)
  <2>1. \A u \in Addresses : \A l \in 0..4 : l >= 1 - 1 => At(n, u, l) = At(m, u, l)
    BY <1>1, SameWalks
  <2> QED
    BY <2>1
<1>4. BootKept(n)
  <2>1. \A k \in 1..4 : lev[BootTables[k]] = 5 - k
    BY BootLevels
  <2>2. \A k \in 1..4 : n[BootTables[k]] = m[BootTables[k]]
    BY <1>1, <2>1, BootPages
  <2> QED
    BY <2>2 DEF BootKept
<1> QED
  BY <1>2, <1>3, <1>4, SameTree

(* Memory n is m with page p cleared and put into entry i of table t. *)
Linked(m, n, t, i, p) ==
    \A q \in Pages : \A j \in Words :
        n[q][j] = IF q = p THEN Zero ELSE IF q = t /\ j = i THEN p ELSE m[q][j]

(* table_alloc and walk clear a page and link it where a table is missing: *)
(* this changes no translation and adds one table to the tree.             *)
LEMMA Link ==
    ASSUME NEW lev, NEW m, Labels(lev, m), BootKept(m), NEW v \in VirtPages, NEW l \in 2..4,
           At(m, v, l) # Zero, m[At(m, v, l)][Index(v, l)] = Zero,
           NEW p \in Pages, lev[p] = 0, p < Fanout, NEW n \in [Pages -> [Words -> Int]],
           Linked(m, n, At(m, v, l), Index(v, l), p), NEW nlev \in [Pages -> 0..4],
           nlev[p] = l - 1, \A q \in Pages : q # p => nlev[q] = lev[q]
    PROVE  /\ Labels(nlev, n) /\ BootKept(n)
           /\ \A q \in Pages : lev[q] < 2 /\ q # p => n[q] = m[q]
           /\ \A u \in Addresses : At(n, u, 0) = At(m, u, 0)
           /\ At(n, v, l - 1) = p
<1> DEFINE t == At(m, v, l)
           i == Index(v, l)
<1>1. v \in Addresses
  BY ClientsApart
<1>2. t \in Pages /\ lev[t] = l /\ t # p
  <2>1. t \in Pages /\ lev[t] = l
    BY <1>1, AtLevel
  <2> QED
    BY <2>1
<1>3. i \in Words
  BY <1>1, IndexInWords
<1>4. /\ m \in [Pages -> [Words -> Int]] /\ lev \in [Pages -> 0..4]
      /\ \A q \in Pages : lev[q] = 4 <=> q = Root
      /\ \A q \in Pages : lev[q] > 0 => q < Fanout
  BY DEF Labels
<1>5. \A q \in Pages : \A j \in Words :
         lev[q] >= 2 /\ m[q][j] # Zero => m[q][j] \in Pages /\ lev[m[q][j]] = lev[q] - 1
  BY DEF Labels
<1>6. \A x, y \in Pages : \A a, b \in Words :
         lev[x] >= 2 /\ lev[y] >= 2 /\ m[x][a] # Zero /\ m[x][a] = m[y][b] => x = y /\ a = b
  BY DEF Labels
<1>7. m[t][i] = Zero
  OBVIOUS
<1>8. \A q \in Pages : \A j \in Words :
         n[q][j] = IF q = p THEN Zero ELSE IF q = t /\ j = i THEN p ELSE m[q][j]
  BY DEF Linked
<1>9. p # Zero /\ p # Root
  BY <1>4, BootPages
<1>10. /\ nlev \in [Pages -> 0..4] /\ nlev[p] = l - 1
       /\ \A q \in Pages : q # p => nlev[q] = lev[q]
  OBVIOUS
<1>11. ASSUME NEW u \in Addresses
       PROVE  At(n, u, 0) = At(m, u, 0)
  <2> DEFINE R(k) == \/ At(n, u, k) = At(m, u, k)
                     \/ At(m, u, k) = Zero /\ At(n, u, k) = p /\ k = l - 1
  <2>1. R(4)
    BY DEF At
  <2>2. ASSUME NEW k \in 1..4, R(k) PROVE R(k - 1)
    <3> DEFINE s == At(m, u, k)
               j == Index(u, k)
    <3>1. At(n, u, k - 1) = Follow(n, At(n, u, k), j) /\ At(m, u, k - 1) = Follow(m, s, j)
      BY Descend
    <3>2. j \in Words
      BY IndexInWords
    <3>3. CASE At(n, u, k) = s /\ s = Zero
      BY <3>1, <3>3 DEF Follow
    <3>4. CASE At(n, u, k) = s /\ s # Zero
      <4>1. s \in Pages /\ lev[s] = k
        BY <3>4, AtLevel
      <4>2. s # p
        BY <4>1
      <4>3. At(n, u, k - 1) = n[s][j] /\ At(m, u, k - 1) = m[s][j]
        BY <3>1, <3>4 DEF Follow
      <4> HIDE DEF s, j, t, i
      <4>4. CASE s = t /\ j = i
        <5>1. k = l
          BY <1>2, <4>1, <4>4
        <5>2. n[s][j] = p /\ m[s][j] = Zero
          BY <1>7, <1>8, <3>2, <4>1, <4>2, <4>4
        <5> QED
          BY <4>3, <5>1, <5>2
      <4>5. CASE ~(s = t /\ j = i)
        <5>1. n[s][j] = m[s][j]
          BY <1>8, <3>2, <4>1, <4>2, <4>5
        <5> QED
          BY <4>3, <5>1
      <4> QED
        BY <4>4, <4>5
    <3>5. CASE At(n, u, k) # s
      <4>1. s = Zero /\ At(n, u, k) = p
        BY <2>2, <3>5
      <4>2. At(n, u, k - 1) = n[p][j] /\ At(m, u, k - 1) = Zero
        BY <1>9, <3>1, <4>1 DEF Follow
      <4>3. n[p][j] = Zero
        BY <1>8, <3>2
      <4> QED
        BY <4>2, <4>3
    <3> QED
      BY <3>3, <3>4, <3>5
  <2> HIDE DEF R
  <2>3. R(3)
    BY <2>1, <2>2, 4 - 1 = 3
  <2>4. R(2)
    BY <2>2, <2>3, 3 - 1 = 2
  <2>5. R(1)
    BY <2>2, <2>4, 2 - 1 = 1
  <2>6. R(0)
    BY <2>2, <2>5, 1 - 1 = 0
  <2> QED
    BY <2>6 DEF R
<1>12. At(n, v, l - 1) = p
  <2>1. \A k \in 1..4 : k >= l => At(n, v, k) = At(m, v, k)
    <3> DEFINE Q(k) == k >= l => At(n, v, k) = At(m, v, k)
    <3>1. Q(4)
      BY DEF At
    <3>2. ASSUME NEW k \in 2..4, Q(k) PROVE Q(k - 1)
      <4> SUFFICES ASSUME k - 1 >= l PROVE At(n, v, k - 1) = At(m, v, k - 1)
        OBVIOUS
      <4> DEFINE s == At(m, v, k)
                 j == Index(v, k)
      <4>1. At(n, v, k) = s
        BY <3>2
      <4>2. At(n, v, k - 1) = Follow(n, s, j) /\ At(m, v, k - 1) = Follow(m, s, j)
        BY <4>1, Descend
      <4>3. CASE s = Zero
        BY <4>2, <4>3 DEF Follow
      <4>4. CASE s # Zero
        <5>1. s \in Pages /\ lev[s] = k
          BY <1>1, <4>4, AtLevel
        <5>2. s # p /\ s # t
          BY <1>2, <5>1
        <5>3. j \in Words
          BY <1>1, IndexInWords
        <5> HIDE DEF s, j, t, i
        <5>4. n[s][j] = m[s][j]
          BY <1>8, <5>1, <5>2, <5>3
        <5> QED
          BY <4>2, <4>4, <5>4 DEF Follow
      <4> QED
        BY <4>3, <4>4
    <3> HIDE DEF Q
    <3>3. Q(3)
      BY <3>1, <3>2, 4 - 1 = 3
    <3>4. Q(2)
      BY <3>2, <3>3, 3 - 1 = 2
    <3>5. Q(1)
      BY <3>2, <3>4, 2 - 1 = 1
    <3>6. \A k \in 1..4 : k = 1 \/ k = 2 \/ k = 3 \/ k = 4
      OBVIOUS
    <3>7. \A k \in 1..4 : Q(k)
      BY <3>1, <3>3, <3>4, <3>5, <3>6
    <3> QED
      BY <3>7 DEF Q
  <2>2. At(n, v, l) = t
    BY <2>1
  <2>3. At(n, v, l - 1) = Follow(n, At(n, v, l), i)
    BY Descend
  <2> HIDE DEF t, i
  <2>4. n[t][i] = p /\ t # Zero
    BY <1>2, <1>3, <1>8, BootPages
  <2> QED
    BY <2>2, <2>3, <2>4 DEF Follow
<1>13. t # BootTables[4]
  <2>1. lev[BootTables[4]] = 5 - 4
    BY BootLevels
  <2> QED
    BY <1>2, <2>1
<1> HIDE DEF t, i
<1>14. BootKept(n)
  <2>1. \A k \in 1..4 : lev[BootTables[k]] = 5 - k
    BY BootLevels
  <2>2. \A k \in 1..4 : BootTables[k] # p /\ BootTables[k] \in Pages
    BY <2>1, BootPages
  <2>3. \A j \in Words : n[BootTables[4]][j] = j
    <3>1. \A j \in Words : m[BootTables[4]][j] = j
      BY DEF BootKept
    <3>2. BootTables[4] # p /\ BootTables[4] \in Pages
      BY <2>2
    <3>3. \A j \in Words : n[BootTables[4]][j] = m[BootTables[4]][j]
      BY <1>8, <1>13, <3>2
    <3> QED
      BY <3>1, <3>3
  <2>4. ASSUME NEW k \in 1..3 PROVE n[BootTables[k]][0] = BootTables[k + 1]
    <3>1. m[BootTables[k]][0] = BootTables[k + 1]
      <4>1. k = 1 \/ k = 2 \/ k = 3
        OBVIOUS
      <4> QED
        BY <4>1, 1 + 1 = 2, 2 + 1 = 3, 3 + 1 = 4 DEF BootKept
    <3>2. BootTables[k + 1] # Zero /\ k \in 1..4 /\ 0 \in Words
      BY BootPages
    <3>3. ~(BootTables[k] = t /\ 0 = i)
      BY <1>7, <3>1, <3>2
    <3>4. n[BootTables[k]][0] = m[BootTables[k]][0]
      BY <1>8, <2>2, <3>2, <3>3
    <3> QED
      BY <3>1, <3>4
  <2>5. /\ n[BootTables[1]][0] = BootTables[2] /\ n[BootTables[2]][0] = BootTables[3]
        /\ n[BootTables[3]][0] = BootTables[4]
    BY <2>4, 1 + 1 = 2, 2 + 1 = 3, 3 + 1 = 4
  <2> QED
    BY <2>3, <2>5 DEF BootKept
<1>15. Labels(nlev, n)
  <2>1. \A q \in Pages : nlev[q] = 4 <=> q = Root
    BY <1>4, <1>9, <1>10
  <2>2. \A q \in Pages : nlev[q] > 0 => q < Fanout
    BY <1>4, <1>10
  <2>3. ASSUME NEW q \in Pages, NEW j \in Words, nlev[q] >= 2, n[q][j] # Zero
        PROVE  n[q][j] \in Pages /\ nlev[n[q][j]] = nlev[q] - 1
    <3>1. q # p /\ nlev[q] = lev[q]
      BY <1>8, <1>10, <2>3
    <3>2. CASE q = t /\ j = i
      <4>1. n[q][j] = p
        BY <1>8, <3>1, <3>2
      <4> QED
        BY <1>2, <1>10, <3>1, <3>2, <4>1
    <3>3. CASE ~(q = t /\ j = i)
      <4>1. n[q][j] = m[q][j]
        BY <1>8, <3>1, <3>3
      <4>2. m[q][j] \in Pages /\ lev[m[q][j]] = lev[q] - 1
        BY <1>5, <2>3, <3>1, <4>1
      <4>3. m[q][j] # p
        <5>1. lev[q] \in 2..4
          <6>1. lev[q] \in 0..4
            BY <1>4
          <6>2. lev[q] >= 2
            BY <2>3, <3>1
          <6> QED
            BY <6>1, <6>2
        <5>2. lev[m[q][j]] # 0
          BY <4>2, <5>1
        <5> QED
          BY <5>2
      <4> QED
        BY <1>10, <3>1, <4>1, <4>2, <4>3
    <3> QED
      BY <3>2, <3>3
  <2>4. ASSUME NEW q \in Pages, nlev[q] \in 1..3
        PROVE  \E r \in Pages : \E j \in Words : nlev[r] = nlev[q] + 1 /\ n[r][j] = q
    <3>1. CASE q = p
      <4>1. nlev[t] = nlev[q] + 1
        BY <1>2, <1>10, <3>1
      <4>2. n[t][i] = q
        BY <1>2, <1>3, <1>8, <3>1
      <4> QED
        BY <1>2, <1>3, <4>1, <4>2
    <3>2. CASE q # p
      <4>1. lev[q] \in 1..3
        BY <1>10, <2>4, <3>2
      <4>2. PICK r \in Pages, j \in Words : lev[r] = lev[q] + 1 /\ m[r][j] = q
        BY <4>1 DEF Labels
      <4>3. r # p
        BY <4>1, <4>2
      <4>4. ~(r = t /\ j = i)
        BY <1>7, <4>2, BootPages
      <4>5. n[r][j] = q
        BY <1>8, <4>2, <4>3, <4>4
      <4> QED
        BY <1>10, <3>2, <4>2, <4>3, <4>5
    <3> QED
      BY <3>1, <3>2
  <2>5. ASSUME NEW x \in Pages, NEW y \in Pages, NEW a \in Words, NEW b \in Words,
               nlev[x] >= 2, nlev[y] >= 2, n[x][a] # Zero, n[x][a] = n[y][b]
        PROVE  x = y /\ a = b
    <3>1. x # p /\ y # p /\ lev[x] >= 2 /\ lev[y] >= 2
      BY <1>8, <1>10, <2>5
    <3>2. ASSUME NEW z \in Pages, NEW c \in Words, z # p, lev[z] >= 2, ~(z = t /\ c = i)
          PROVE  n[z][c] = m[z][c] /\ n[z][c] # p
      <4>1. n[z][c] = m[z][c]
        BY <1>8, <3>2
      <4>2. ASSUME m[z][c] = p PROVE FALSE
        <5>1. lev[p] = lev[z] - 1
          BY <1>5, <1>9, <3>2, <4>2
        <5>2. lev[z] \in 2..4
          BY <1>4, <3>2
        <5> QED
          BY <5>1, <5>2
      <4> QED
        BY <4>1, <4>2
    <3>3. ASSUME NEW z \in Pages, NEW c \in Words, z = t, c = i PROVE n[z][c] = p
      BY <1>2, <1>8, <3>3
    <3>4. CASE x = t /\ a = i
      BY <2>5, <3>1, <3>2, <3>3, <3>4
    <3>5. CASE y = t /\ b = i
      BY <2>5, <3>1, <3>2, <3>3, <3>5
    <3>6. CASE ~(x = t /\ a = i) /\ ~(y = t /\ b = i)
      <4>1. m[x][a] # Zero /\ m[x][a] = m[y][b]
        BY <2>5, <3>1, <3>2, <3>6
      <4> QED
        BY <1>6, <3>1, <4>1
    <3> QED
      BY <3>4, <3>5, <3>6
  <2> QED
    BY <1>10, <2>1, <2>2, <2>3, <2>4, <2>5 DEF Labels
<1>16. ASSUME NEW q \in Pages, lev[q] < 2, q # p PROVE n[q] = m[q]
  <2>1. q # t
    BY <1>2, <1>16
  <2>2. \A j \in Words : n[q][j] = m[q][j]
    BY <1>8, <1>16, <2>1
  <2>3. n[q] \in [Words -> Int] /\ m[q] \in [Words -> Int]
    BY <1>4
  <2> QED
    BY <2>2, <2>3
<1> QED
  BY <1>11, <1>12, <1>14, <1>15, <1>16

-----------------------------------------------------------------------------
(* The inductive invariant of the page tables *)

CallRecords == [virt : Addresses, phys : Frames, level : 1..4, tab : Pages, page : Frames \cup {Zero}]

Types ==
    /\ free \subseteq Ram /\ owned \subseteq Frames \ free
    /\ calls \in Seq(CallRecords)
    /\ status \in {"run", "panic", "lost"}

(* A page of memory is free, a client's, a table, or about to become one.  *)
Accounted(lev) ==
    /\ \A p \in Frames :
          /\ p \in free \cup owned => lev[p] = 0
          /\ p \notin free \cup owned /\ lev[p] = 0 => \E k \in 1..Len(calls) : calls[k].page = p
    /\ \A k \in 1..Len(calls) :
          calls[k].page # Zero => calls[k].page \notin free \cup owned /\ lev[calls[k].page] = 0

(* The call that a client made: its page is not mapped anywhere yet. *)
OuterOK ==
    /\ calls[1].virt \in VirtPages /\ calls[1].phys \in owned
    /\ calls[1].tab = At(mem, calls[1].virt, calls[1].level)
    /\ \A u \in VirtPages : At(mem, u, 0) # calls[1].phys

(* A call that table_alloc made for the page of the call before: it is in  *)
(* the boot tables.  For a page mapped at boot it takes no page; for       *)
(* another one it does not come to its end.                                *)
InnerOK(k) ==
    LET c == calls[k]
    IN /\ c.virt = calls[k - 1].page /\ c.phys = c.virt
       /\ c.tab = BootTables[5 - c.level]
       /\ c.virt < Fanout => c.page = Zero
       /\ c.virt >= Fanout => c.level > 1 /\ mem[BootTables[3]][Index(c.virt, 2)] = Zero
       /\ c.page # Zero => c.page >= Fanout

(* A call with a page taken and not linked stands before an empty entry,   *)
(* and waits for a nested call; a page above the boot mapping is only      *)
(* taken when all others are.                                              *)
CallOK(k) ==
    LET c == calls[k]
    IN /\ k < Len(calls) => c.page # Zero
       /\ c.page # Zero => c.level > 1 /\ mem[c.tab][Index(c.virt, c.level)] = Zero
       /\ c.page >= Fanout => k < Len(calls) /\ \A p \in free : p >= Fanout

(* Clients' addresses translate to pages that clients hold. *)
Mapping == \A u \in VirtPages : At(mem, u, 0) \in owned \cup {Zero}

(* The inductive invariant of the page tables. *)
PagingInv ==
    /\ Types
    /\ Mapping
    /\ \A k \in 1..Len(calls) : CallOK(k)
    /\ \A k \in 2..Len(calls) : InnerOK(k)
    /\ Len(calls) > 0 => OuterOK
    /\ BootKept(mem)
    /\ \E lev : Labels(lev, mem) /\ Accounted(lev)

(* A non-empty set of natural numbers has a least element, which is Min's. *)
LEMMA MinIsLeast ==
    ASSUME NEW T \in SUBSET Nat, T # {}
    PROVE  Min(T) \in T /\ \A y \in T : Min(T) <= y
<1> DEFINE R == {ss \in Nat \X Nat : ss[1] < ss[2]}
<1>1. IsWellFoundedOn(R, Nat)
  BY NatLessThanWellFounded DEF OpToRel
<1>2. ASSUME NEW x \in Nat, NEW y \in Nat, y < x PROVE <<y, x>> \in R
  <2>1. <<y, x>> \in Nat \X Nat /\ <<y, x>>[1] < <<y, x>>[2]
    BY <1>2
  <2> QED
    BY <2>1, Zenon
<1> HIDE DEF R
<1>3. PICK x \in T : \A y \in T : ~ (<<y, x>> \in R)
  BY <1>1, WFMin
<1>4. ASSUME NEW y \in T PROVE x <= y
  <2>1. x \in Nat /\ y \in Nat
    OBVIOUS
  <2>2. y < x => <<y, x>> \in R
    BY <1>2, <2>1
  <2>3. ~(<<y, x>> \in R)
    BY <1>3
  <2>4. ~(y < x)
    BY <2>2, <2>3, Zenon
  <2> QED
    BY <2>1, <2>4
<1>5. \E z \in T : \A y \in T : z <= y
  BY <1>4
<1> QED
  BY <1>5 DEF Min

(* What the page allocator hands out. *)
LEMMA LowestFree ==
    ASSUME Types, free # {}
    PROVE  /\ Min(free) \in free /\ Min(free) \in Ram /\ \A p \in free : Min(free) <= p
           /\ Min(free) \notin Boot => Min(free) \in Frames
<1>1. free \subseteq Ram /\ free \subseteq Nat
  BY BootPages DEF Types
<1>2. Min(free) \in free /\ \A y \in free : Min(free) <= y
  BY <1>1, MinIsLeast
<1> QED
  BY <1>1, <1>2 DEF Frames

(* The innermost call. *)
LEMMA TopOfStack ==
    ASSUME Types, calls # <<>>
    PROVE  /\ Len(calls) \in Nat \ {0} /\ Len(calls) \in 1..Len(calls)
           /\ \A k \in 1..Len(calls) : calls[k] \in CallRecords
           /\ Top = calls[Len(calls)] /\ Top \in CallRecords
           /\ Top.virt \in Addresses /\ Top.phys \in Frames /\ Top.level \in 1..4
           /\ Top.tab \in Pages /\ Top.page \in Frames \cup {Zero}
           /\ Index(Top.virt, Top.level) \in Words
<1>1. calls \in Seq(CallRecords)
  BY DEF Types
<1>2. Len(calls) \in Nat \ {0} /\ Len(calls) \in 1..Len(calls)
  BY <1>1
<1>3. \A k \in 1..Len(calls) : calls[k] \in CallRecords
  BY <1>1
<1>4. Top = calls[Len(calls)] /\ Top \in CallRecords
  BY <1>2, <1>3 DEF Top
<1>5. /\ Top.virt \in Addresses /\ Top.phys \in Frames /\ Top.level \in 1..4
      /\ Top.tab \in Pages /\ Top.page \in Frames \cup {Zero}
  BY <1>4 DEF CallRecords
<1>6. Index(Top.virt, Top.level) \in Words
  BY <1>5, IndexInWords
<1> QED
  BY <1>2, <1>3, <1>4, <1>5, <1>6

(* The innermost call stands at its own table. *)
LEMMA TopAt ==
    ASSUME PagingInv, calls # <<>>
    PROVE  /\ Top.tab = At(mem, Top.virt, Top.level)
           /\ At(mem, Top.virt, Top.level - 1) = Entry
           /\ Len(calls) > 1 => Top.virt \in Frames
<1> DEFINE n == Len(calls)
<1>1. /\ n \in Nat \ {0} /\ Top = calls[n] /\ Top.level \in 1..4 /\ Top.tab \in Pages
      /\ \A k \in 1..n : calls[k] \in CallRecords
  BY TopOfStack DEF PagingInv
<1>2. ASSUME n > 1 PROVE Top.virt \in Frames
  <2>1. n \in 2..n /\ n - 1 \in 1..n /\ n - 1 < n
    BY <1>1, <1>2
  <2>2. InnerOK(n) /\ CallOK(n - 1)
    BY <2>1 DEF PagingInv
  <2>3. Top.virt = calls[n - 1].page /\ calls[n - 1].page # Zero
    BY <1>1, <2>1, <2>2 DEF InnerOK, CallOK
  <2>4. calls[n - 1].page \in Frames \cup {Zero}
    BY <1>1, <2>1 DEF CallRecords
  <2> QED
    BY <2>3, <2>4
<1>3. Top.tab = At(mem, Top.virt, Top.level)
  <2>1. CASE n = 1
    <3>1. OuterOK
      BY <2>1 DEF PagingInv
    <3> QED
      BY <1>1, <2>1, <3>1 DEF OuterOK
  <2>2. CASE n > 1
    <3>1. n \in 2..n
      BY <1>1, <2>2
    <3>2. InnerOK(n) /\ BootKept(mem)
      BY <3>1 DEF PagingInv
    <3>3. Top.tab = BootTables[5 - Top.level] /\ (Top.virt >= Fanout => Top.level > 1)
      BY <1>1, <3>2 DEF InnerOK
    <3>4. Top.virt \in Frames /\ Top.virt \in Nat /\ (Top.virt < Fanout \/ Top.virt >= Fanout)
      BY <1>2, <2>2, BootPages
    <3>5. Top.virt < Fanout \/ Top.level > 1
      BY <3>3, <3>4
    <3>6. At(mem, Top.virt, Top.level) = BootTables[5 - Top.level]
      BY <1>1, <3>2, <3>4, <3>5, BootWalks
    <3> QED
      BY <3>3, <3>6
  <2>3. n = 1 \/ n > 1
    <3>1. n \in Nat \ {0}
      BY <1>1
    <3> HIDE DEF n
    <3> QED
      BY <3>1
  <2> QED
    BY <2>1, <2>2, <2>3
<1>4. At(mem, Top.virt, Top.level - 1) = Entry
  <2>1. At(mem, Top.virt, Top.level - 1) = Follow(mem, Top.tab, Index(Top.virt, Top.level))
    BY <1>1, <1>3, Descend
  <2> QED
    BY <1>1, <2>1, BootPages DEF Follow, Entry
<1> QED
  BY <1>2, <1>3, <1>4

(* What the invariant says of the tables and of the pages of memory. *)
LEMMA InvariantIsSound ==
    ASSUME PagingInv
    PROVE  TablesSound /\ PagesAccounted
<1>1. /\ Types /\ Mapping /\ BootKept(mem)
      /\ \A k \in 1..Len(calls) : CallOK(k)
      /\ \A k \in 2..Len(calls) : InnerOK(k)
      /\ Len(calls) > 0 => OuterOK
  BY DEF PagingInv
<1>2. PICK lev : Labels(lev, mem) /\ Accounted(lev)
  BY DEF PagingInv
<1>3. Tables = {p \in Pages : lev[p] > 0}
  BY <1>2, TablesAreLabelled
<1>4. calls \in Seq(CallRecords) /\ Len(calls) \in Nat
  BY <1>1 DEF Types
<1>5. ASSUME NEW k \in 1..Len(calls)
      PROVE  /\ calls[k].virt \in Addresses /\ calls[k].level \in 1..4
             /\ calls[k].tab \in Pages /\ calls[k].page \in Frames \cup {Zero}
  <2>1. calls[k] \in CallRecords
    BY <1>4
  <2> QED
    BY <2>1 DEF CallRecords
<1>6. \A k \in 1..4 : lev[BootTables[k]] = 5 - k
  BY <1>1, <1>2, BootLevels
<1>7. \A p \in Pages : lev[p] \in 0..4
  BY <1>2 DEF Labels
<1>8. PagingTypeOK
  <2>1. \A p \in Pages : \A i \in 0..(Fanout - 1) : mem[p][i] \in Int
    BY <1>2 DEF Labels, Words
  <2>2. ASSUME NEW k \in 1..Len(calls) PROVE calls[k].tab \in Tables
    <3>1. lev[calls[k].tab] = calls[k].level
      <4>1. CASE k = 1
        <5>1. calls[1].tab = At(mem, calls[1].virt, calls[1].level)
          BY <1>1, <1>4, <4>1 DEF OuterOK
        <5>2. calls[1].tab # Zero
          BY <1>5, <4>1, BootPages
        <5> QED
          BY <1>2, <1>5, <4>1, <5>1, <5>2, AtLevel
      <4>2. CASE k # 1
        <5>1. calls[k].tab = BootTables[5 - calls[k].level]
          BY <1>1, <1>4, <4>2 DEF InnerOK
        <5>2. 5 - calls[k].level \in 1..4 /\ 5 - (5 - calls[k].level) = calls[k].level
          BY <1>5
        <5> QED
          BY <1>6, <5>1, <5>2
      <4> QED
        BY <4>1, <4>2
    <3>2. calls[k].tab \in Pages /\ lev[calls[k].tab] > 0
      BY <1>5, <3>1
    <3> QED
      BY <1>3, <3>2
  <2> QED
    BY <1>1, <1>3, <1>5, <2>1, <2>2 DEF PagingTypeOK, Types
<1>9. TablesMapped
  <2>1. ASSUME NEW t \in Pages, t < Fanout PROVE paging_virt_to_phys(t) = t
    <3>1. t \in Nat
      BY BootPages
    <3>2. At(mem, t, 0) = t
      BY <1>1, <2>1, <3>1, BootWalks
    <3> QED
      BY <3>2, Walks
  <2>2. ASSUME NEW t \in Tables PROVE paging_virt_to_phys(t) = t
    <3>1. t \in Pages /\ t < Fanout
      BY <1>2, <1>3 DEF Labels
    <3> QED
      BY <2>1, <3>1
  <2>3. ASSUME Walking, Top.page # Zero PROVE paging_virt_to_phys(Top.page) = Top.page
    <3>1. calls # <<>>
      BY <2>3 DEF Walking
    <3>2. /\ Len(calls) \in 1..Len(calls) /\ Top = calls[Len(calls)]
          /\ Top.page \in Frames \cup {Zero}
      BY <1>1, <3>1, TopOfStack
    <3>3. Top.page \in Pages /\ Top.page \in Nat
      BY <2>3, <3>2, BootPages
    <3>4. ~(Top.page >= Fanout)
      BY <1>1, <1>4, <3>2 DEF CallOK
    <3>5. Top.page < Fanout
      BY <3>3, <3>4, BootPages
    <3> QED
      BY <2>1, <3>3, <3>5
  <2> QED
    BY <2>2, <2>3 DEF TablesMapped
<1>10. LowTablesCheap
  <2>1. ASSUME NEW k \in 1..Len(calls), calls[k].page # Zero, calls[k].page < Fanout,
               ~(Len(calls) <= k + 1)
        PROVE  FALSE
    <3>1. k + 1 \in 2..Len(calls) /\ k + 1 \in 1..Len(calls) /\ k + 1 < Len(calls)
      BY <1>4, <2>1
    <3>2. InnerOK(k + 1) /\ CallOK(k + 1)
      BY <1>1, <3>1
    <3>3. (k + 1) - 1 = k
      OBVIOUS
    <3>4. calls[k + 1].page = Zero
      BY <2>1, <3>2, <3>3 DEF InnerOK
    <3> QED
      BY <3>1, <3>2, <3>4 DEF CallOK
  <2> QED
    BY <2>1 DEF LowTablesCheap
<1>11. PagesAccounted
  <2> DEFINE tables == Tables \ Boot
  <2>1. \A p : p \in tables <=> p \in Frames /\ lev[p] > 0
    <3>1. Pages = Frames \cup Boot /\ Frames \cap Boot = {}
      BY BootPages
    <3> QED
      BY <1>3, <3>1
  <2>2. \A p : p \in Pending <=> p # Zero /\ \E k \in 1..Len(calls) : calls[k].page = p
    BY DEF Pending
  <2>3. Pending \subseteq Frames
    BY <1>5, <2>2
  <2>4. \A p \in Pending : p \notin free /\ p \notin owned /\ lev[p] = 0
    BY <1>2, <2>2 DEF Accounted
  <2>5. owned \subseteq Frames /\ owned \cap free = {}
    BY <1>1 DEF Types
  <2>6. \A p \in Frames : p \in free \/ p \in owned => lev[p] = 0
    BY <1>2 DEF Accounted
  <2>7. \A p \in Frames : p \notin free /\ p \notin owned /\ lev[p] = 0 => p \in Pending
    BY <1>2, <2>2, BootPages DEF Accounted
  <2>8. \A p \in Frames : lev[p] = 0 \/ lev[p] > 0
    BY <1>7, BootPages
  <2>9. \A p \in Frames : lev[p] = 0 => ~(lev[p] > 0)
    BY <1>7, BootPages
  <2> HIDE DEF tables
  <2>10. Frames \ free = tables \cup Pending \cup owned
    BY <2>1, <2>3, <2>4, <2>5, <2>6, <2>7, <2>8, <2>9
  <2>11. tables \cap Pending = {} /\ tables \cap owned = {} /\ Pending \cap owned = {}
    BY <2>1, <2>3, <2>4, <2>5, <2>6, <2>9
  <2> QED
    BY <2>10, <2>11 DEF PagesAccounted, tables
<1> QED
  BY <1>8, <1>9, <1>10, <1>11 DEF TablesSound

-----------------------------------------------------------------------------
(* The steps of paging_map_page *)

(* What a client sees of a step: the pages it holds are not written, and   *)
(* its call is the same, or it is done and has changed one translation.    *)
Quiet ==
    /\ \A q \in owned : mem'[q] = mem[q]
    /\ owned' = owned
    /\ \/ /\ \A u \in VirtPages : At(mem, u, 0)' = At(mem, u, 0)
          /\ calls' # <<>> /\ calls'[1].virt = calls[1].virt /\ calls'[1].phys = calls[1].phys
       \/ /\ \A u \in VirtPages :
                At(mem, u, 0)' = IF u = calls[1].virt THEN calls[1].phys ELSE At(mem, u, 0)
          /\ calls' = <<>>

(* walk goes down to a table that exists. *)
LEMMA WalkDownSound ==
    ASSUME PagingInv, walk_down
    PROVE  PagingInv' /\ Quiet
<1> DEFINE n == Len(calls)
<1>1. /\ calls # <<>> /\ Top.page = Zero /\ Top.level > 1 /\ Entry # Zero
      /\ calls' = [calls EXCEPT ![n].level = Top.level - 1, ![n].tab = Entry]
      /\ UNCHANGED <<mem, free, status, owned>>
  BY DEF walk_down, Walking
<1>2. /\ Types /\ Mapping /\ BootKept(mem)
      /\ \A k \in 1..n : CallOK(k)
      /\ \A k \in 2..n : InnerOK(k)
      /\ n > 0 => OuterOK
  BY DEF PagingInv
<1>3. PICK lev : Labels(lev, mem) /\ Accounted(lev)
  BY DEF PagingInv
<1>4. /\ n \in Nat \ {0} /\ n \in 1..n /\ \A k \in 1..n : calls[k] \in CallRecords
      /\ Top = calls[n] /\ Top \in CallRecords /\ Top.virt \in Addresses /\ Top.level \in 1..4
  BY <1>1, <1>2, TopOfStack
<1>5. At(mem, Top.virt, Top.level - 1) = Entry /\ (n > 1 => Top.virt \in Frames)
  BY <1>1, TopAt
<1>6. Entry \in Pages
  <2>1. Top.level - 1 \in 1..4
    BY <1>1, <1>4
  <2> QED
    BY <1>1, <1>3, <1>4, <1>5, <2>1, AtLevel
<1>7. /\ calls' \in Seq(CallRecords) /\ Len(calls') = n
      /\ \A k \in 1..n : k # n => calls'[k] = calls[k]
      /\ calls'[n].virt = calls[n].virt /\ calls'[n].phys = calls[n].phys
      /\ calls'[n].page = calls[n].page /\ calls'[n].level = Top.level - 1
      /\ calls'[n].tab = Entry
  <2> DEFINE c == [calls[n] EXCEPT !.level = Top.level - 1, !.tab = Entry]
  <2>1. calls \in Seq(CallRecords)
    BY <1>2 DEF Types
  <2>2. Top.level - 1 \in 1..4
    BY <1>1, <1>4
  <2>3. c \in CallRecords
    BY <1>4, <1>6, <2>2 DEF CallRecords
  <2>4. /\ c.virt = calls[n].virt /\ c.phys = calls[n].phys /\ c.page = calls[n].page
        /\ c.level = Top.level - 1 /\ c.tab = Entry
    BY <1>4 DEF CallRecords
  <2>5. calls' = [calls EXCEPT ![n] = c]
    BY <1>1
  <2> HIDE DEF c
  <2> QED
    BY <1>4, <2>1, <2>3, <2>4, <2>5
<1> HIDE DEF n
<1>8. \A k \in 1..n : calls'[k].page = calls[k].page /\ calls'[k].virt = calls[k].virt
                      /\ calls'[k].phys = calls[k].phys
  BY <1>7
<1>9. Types' /\ Mapping' /\ BootKept(mem)'
  BY <1>1, <1>2, <1>7 DEF Types, Mapping, At, At0, At1, At2, At3, Follow, BootKept
<1>10. Accounted(lev)' /\ Labels(lev, mem)'
  BY <1>1, <1>3, <1>7, <1>8 DEF Accounted, Labels, n
<1>11. ASSUME NEW k \in 1..n PROVE CallOK(k)'
  <2>1. CallOK(k)
    BY <1>2, <1>11 DEF n
  <2>2. CASE k = n
    BY <1>1, <1>4, <1>7, <1>8, <2>2, BootPages DEF CallOK, Zero
  <2>3. CASE k # n
    BY <1>1, <1>7, <2>1, <2>3 DEF CallOK, n
  <2> QED
    BY <2>2, <2>3
<1>12. ASSUME NEW k \in 2..n PROVE InnerOK(k)'
  <2>1. InnerOK(k) /\ k \in 1..n /\ k - 1 \in 1..n /\ k - 1 # k
    BY <1>2, <1>4, <1>12 DEF n
  <2>2. CASE k = n
    <3>1. /\ Top.virt = calls[n - 1].page /\ Top.phys = Top.virt
          /\ Top.tab = BootTables[5 - Top.level]
      BY <1>4, <2>1, <2>2 DEF InnerOK
    <3>2. Top.virt \in Frames /\ Top.virt \in Nat /\ n > 1
      BY <1>4, <1>5, <1>12, <2>2, BootPages DEF n
    <3>3. Top.virt >= Fanout => Top.level - 1 > 1
      <4> SUFFICES ASSUME Top.virt >= Fanout, Top.level = 2 PROVE FALSE
        BY <1>1, <1>4
      <4>1. mem[BootTables[3]][Index(Top.virt, 2)] = Zero
        BY <1>4, <2>1, <2>2 DEF InnerOK
      <4>2. Top.tab = BootTables[3]
        BY <3>1
      <4> QED
        BY <1>1, <4>1, <4>2 DEF Entry
    <3>4. Entry = BootTables[5 - (Top.level - 1)]
      <4>1. Top.level - 1 \in 1..4
        BY <1>1, <1>4
      <4>2. Top.virt < Fanout \/ Top.level - 1 > 1
        BY <3>2, <3>3, BootPages
      <4> QED
        BY <1>2, <1>5, <3>2, <4>1, <4>2, BootWalks
    <3>5. /\ calls'[n].virt = Top.virt /\ calls'[n].phys = Top.virt /\ calls'[n].page = Zero
          /\ calls'[n].level = Top.level - 1 /\ calls'[n].tab = Entry
          /\ calls'[n - 1].page = calls[n - 1].page
      BY <1>1, <1>4, <1>7, <1>8, <2>1, <2>2, <3>1
    <3>6. Top.virt >= Fanout => mem'[BootTables[3]][Index(Top.virt, 2)] = Zero
      BY <1>1, <1>4, <2>1, <2>2 DEF InnerOK
    <3> QED
      BY <2>2, <3>1, <3>3, <3>4, <3>5, <3>6 DEF InnerOK
  <2>3. CASE k # n
    <3>1. calls'[k] = calls[k] /\ calls'[k - 1].page = calls[k - 1].page
      BY <1>7, <1>8, <2>1, <2>3
    <3> QED
      BY <1>1, <2>1, <3>1 DEF InnerOK
  <2> QED
    BY <2>2, <2>3
<1>13. OuterOK'
  <2>1. OuterOK /\ 1 \in 1..n
    BY <1>2, <1>4 DEF n
  <2>2. calls'[1].tab = At(mem, calls'[1].virt, calls'[1].level)
    <3>1. CASE n = 1
      BY <1>4, <1>5, <1>7, <3>1
    <3>2. CASE n # 1
      BY <1>7, <2>1, <3>2 DEF OuterOK
    <3> QED
      BY <3>1, <3>2
  <2>3. mem' = mem /\ owned' = owned
    BY <1>1
  <2> QED
    BY <1>8, <2>1, <2>2, <2>3 DEF OuterOK
<1>14. PagingInv'
  BY <1>7, <1>9, <1>10, <1>11, <1>12, <1>13 DEF PagingInv, n
<1>15. Quiet
  <2>1. mem' = mem /\ owned' = owned
    BY <1>1
  <2>2. calls' # <<>> /\ calls'[1].virt = calls[1].virt /\ calls'[1].phys = calls[1].phys
    BY <1>4, <1>7, <1>8
  <2> QED
    BY <2>1, <2>2 DEF Quiet
<1> QED
  BY <1>14, <1>15

(* table_alloc takes a page and calls paging_map_page for it, which is a   *)
(* nested call for a page of the boot mapping or for one above it.         *)
LEMMA TableAllocSound ==
    ASSUME PagingInv, table_alloc
    PROVE  PagingInv' /\ Quiet
<1> DEFINE n == Len(calls)
           p == Min(free)
<1>1. /\ calls # <<>> /\ Top.page = Zero /\ Top.level > 1 /\ Entry = Zero /\ free # {}
      /\ p \notin Boot /\ (p >= Fanout => walk(p) = Zero)
      /\ free' = free \ {p}
      /\ calls' = Append([calls EXCEPT ![n].page = p], Frame(p, p))
      /\ UNCHANGED <<mem, status, owned>>
  BY DEF table_alloc, Walking, TablePageSafe
<1>2. /\ Types /\ Mapping /\ BootKept(mem)
      /\ \A k \in 1..n : CallOK(k)
      /\ \A k \in 2..n : InnerOK(k)
      /\ n > 0 => OuterOK
  BY DEF PagingInv
<1>3. PICK lev : Labels(lev, mem) /\ Accounted(lev)
  BY DEF PagingInv
<1>4. /\ n \in Nat \ {0} /\ n \in 1..n /\ \A k \in 1..n : calls[k] \in CallRecords
      /\ Top = calls[n] /\ Top.virt \in Addresses /\ Top.level \in 1..4 /\ Top.tab \in Pages
  BY <1>1, <1>2, TopOfStack
<1>5. At(mem, Top.virt, Top.level - 1) = Zero /\ (n > 1 => Top.virt \in Frames)
  BY <1>1, TopAt
<1>6. p \in free /\ p \in Frames /\ \A q \in free : p <= q
  BY <1>1, <1>2, LowestFree
<1> HIDE DEF p
<1>7. p \in Pages /\ p \in Nat /\ p # Zero /\ p \in Addresses
  <2>1. p \in Pages /\ p \in Nat /\ p # Zero
    BY <1>6, BootPages
  <2>2. p \in Addresses
    BY <1>6, RamAddresses
  <2> QED
    BY <2>1, <2>2
<1>8. /\ calls' \in Seq(CallRecords) /\ Len(calls') = n + 1
      /\ \A k \in 1..n : k # n => calls'[k] = calls[k]
      /\ calls'[n].virt = calls[n].virt /\ calls'[n].phys = calls[n].phys
      /\ calls'[n].page = p /\ calls'[n].level = calls[n].level
      /\ calls'[n].tab = calls[n].tab
      /\ calls'[n + 1] = Frame(p, p)
  <2> DEFINE c == [calls[n] EXCEPT !.page = p]
             s == [calls EXCEPT ![n] = c]
  <2>1. calls \in Seq(CallRecords)
    BY <1>2 DEF Types
  <2>2. /\ c \in CallRecords /\ c.virt = calls[n].virt /\ c.phys = calls[n].phys /\ c.page = p
        /\ c.level = calls[n].level /\ c.tab = calls[n].tab
    BY <1>4, <1>6 DEF CallRecords
  <2>3. Frame(p, p) \in CallRecords
    BY <1>6, <1>7, BootPages DEF Frame, CallRecords
  <2>4. calls' = Append(s, Frame(p, p))
    BY <1>1
  <2> HIDE DEF c
  <2>5. s \in Seq(CallRecords) /\ Len(s) = n /\ s[n] = c /\ \A k \in 1..n : k # n => s[k] = calls[k]
    BY <1>4, <2>1, <2>2
  <2> HIDE DEF s, n
  <2>6. /\ calls' \in Seq(CallRecords) /\ Len(calls') = n + 1 /\ calls'[n + 1] = Frame(p, p)
        /\ \A k \in 1..n : calls'[k] = s[k]
    BY <1>4, <2>3, <2>4, <2>5
  <2> QED
    BY <1>4, <2>2, <2>5, <2>6
<1> HIDE DEF n
<1>9. \A k \in 1..n : /\ calls'[k].virt = calls[k].virt /\ calls'[k].phys = calls[k].phys
                      /\ calls'[k].level = calls[k].level /\ calls'[k].tab = calls[k].tab
                      /\ calls'[k].page = IF k = n THEN p ELSE calls[k].page
  BY <1>8
<1>10. /\ calls'[n + 1].virt = p /\ calls'[n + 1].phys = p /\ calls'[n + 1].level = 4
       /\ calls'[n + 1].tab = BootTables[1] /\ calls'[n + 1].page = Zero
  BY <1>8, BootPages DEF Frame
<1>11. n + 1 \in Nat /\ \A k \in 1..(n + 1) : k \in 1..n \/ k = n + 1
  BY <1>4
<1>12. Types' /\ Mapping' /\ BootKept(mem)'
  <2>1. Types'
    BY <1>1, <1>2, <1>6, <1>8 DEF Types
  <2>2. mem' = mem /\ owned' = owned
    BY <1>1
  <2> QED
    BY <1>2, <2>1, <2>2 DEF Mapping
<1>13. Labels(lev, mem)'
  BY <1>1, <1>3 DEF Labels
<1>14. Accounted(lev)'
  <2>1. owned' = owned /\ free' = free \ {p}
    BY <1>1
  <2>2. p \notin owned
    BY <1>2, <1>6 DEF Types
  <2>3. ASSUME NEW q \in Frames, q \notin free' \cup owned', lev[q] = 0
        PROVE  \E k \in 1..Len(calls') : calls'[k].page = q
    <3>1. CASE q = p
      BY <1>4, <1>8, <1>11, <3>1
    <3>2. CASE q # p
      <4>1. PICK k \in 1..n : calls[k].page = q
        BY <1>3, <2>1, <2>3, <3>2 DEF Accounted, n
      <4>2. k # n
        BY <1>1, <1>4, <4>1, BootPages
      <4>3. calls'[k].page = q /\ k \in 1..(n + 1)
        BY <1>4, <1>9, <4>1, <4>2
      <4> QED
        BY <1>8, <4>3
    <3> QED
      BY <3>1, <3>2
  <2>4. ASSUME NEW k \in 1..Len(calls'), calls'[k].page # Zero
        PROVE  calls'[k].page \notin free' \cup owned' /\ lev[calls'[k].page] = 0
    <3>1. CASE calls'[k].page = p
      BY <1>3, <1>6, <2>1, <2>2, <3>1 DEF Accounted
    <3>2. CASE calls'[k].page # p
      <4>1. k \in 1..n /\ calls'[k].page = calls[k].page
        BY <1>8, <1>9, <1>10, <1>11, <2>4, <3>2
      <4> QED
        BY <1>3, <2>1, <2>4, <4>1 DEF Accounted, n
    <3> QED
      BY <3>1, <3>2
  <2>5. \A q \in Frames : q \in free' \cup owned' => lev[q] = 0
    BY <1>3, <2>1 DEF Accounted
  <2> QED
    BY <2>3, <2>4, <2>5 DEF Accounted
<1>15. ASSUME NEW k \in 1..(n + 1) PROVE CallOK(k)'
  <2>1. mem' = mem /\ free' \subseteq free
    BY <1>1
  <2>2. CASE k = n + 1
    <3>1. calls'[k].page = Zero /\ ~(calls'[k].page >= Fanout)
      BY <1>10, <2>2, BootPages DEF Zero
    <3> QED
      BY <1>8, <1>11, <2>2, <3>1 DEF CallOK
  <2>3. CASE k = n
    <3>1. /\ calls'[k].page = p /\ calls'[k].level > 1
          /\ mem'[calls'[k].tab][Index(calls'[k].virt, calls'[k].level)] = Zero
      BY <1>1, <1>4, <1>8, <2>1, <2>3 DEF Entry
    <3>2. p >= Fanout => \A q \in free' : q >= Fanout
      <4>1. \A q \in free : q \in Nat
        BY <1>2, BootPages DEF Types
      <4> QED
        BY <1>6, <1>7, <2>1, <4>1, BootPages
    <3>3. k < Len(calls')
      BY <1>4, <1>8, <2>3
    <3> QED
      BY <1>7, <3>1, <3>2, <3>3 DEF CallOK
  <2>4. CASE k # n /\ k # n + 1
    <3>1. k \in 1..n /\ CallOK(k) /\ k < n /\ k < n + 1
      BY <1>2, <1>4, <1>11, <2>4 DEF n
    <3>2. calls'[k] = calls[k]
      BY <1>8, <2>4, <3>1
    <3> QED
      BY <1>8, <2>1, <3>1, <3>2 DEF CallOK, n
  <2> QED
    BY <2>2, <2>3, <2>4
<1>16. ASSUME NEW k \in 2..(n + 1) PROVE InnerOK(k)'
  <2>1. CASE k = n + 1
    <3>1. k - 1 = n /\ 5 - 4 = 1
      BY <1>4, <2>1
    <3>2. ASSUME p >= Fanout PROVE mem'[BootTables[3]][Index(p, 2)] = Zero
      <4>1. At(mem, p, 2) = BootTables[5 - 2] /\ BootTables[3] # Zero
        <5>1. \A l \in 1..4 : p < Fanout \/ l > 1 => At(mem, p, l) = BootTables[5 - l]
          BY <1>2, <1>6, <1>7, BootWalks
        <5>2. 2 \in 1..4 /\ 2 > 1 /\ BootTables[3] # Zero
          BY BootPages
        <5> QED
          BY <5>1, <5>2
      <4>2. At(mem, p, 2 - 1) = Follow(mem, At(mem, p, 2), Index(p, 2))
        BY Descend
      <4>3. At(mem, p, 1) = Zero
        BY <1>1, <3>2, Walks
      <4> QED
        BY <1>1, <4>1, <4>2, <4>3 DEF Follow
    <3> QED
      BY <1>8, <1>10, <2>1, <3>1, <3>2 DEF InnerOK
  <2>2. CASE k = n
    <3>1. n \in 2..n /\ n - 1 \in 1..n /\ n - 1 # n /\ n > 1 /\ n - 1 < n
      BY <1>4, <1>16, <2>2
    <3>2. InnerOK(n) /\ CallOK(n - 1)
      BY <1>2, <3>1 DEF n
    <3>3. Top.virt \in Frames /\ Top.virt \in Nat
      BY <1>5, <3>1, BootPages
    <3>4. ~(Top.virt < Fanout)
      <4> SUFFICES ASSUME Top.virt < Fanout PROVE FALSE
        OBVIOUS
      <4>1. Top.level - 1 \in 1..4 /\ 5 - (Top.level - 1) \in 1..4
        BY <1>1, <1>4
      <4>2. At(mem, Top.virt, Top.level - 1) = BootTables[5 - (Top.level - 1)]
        BY <1>2, <3>3, <4>1, BootWalks
      <4> QED
        BY <1>5, <4>1, <4>2, BootPages
    <3>5. Top.virt >= Fanout /\ calls[n - 1].page = Top.virt
      BY <1>4, <3>2, <3>3, <3>4, BootPages DEF InnerOK
    <3>6. p >= Fanout
      BY <1>6, <3>2, <3>5 DEF CallOK
    <3>7. calls'[n - 1].page = calls[n - 1].page
      BY <1>9, <3>1
    <3> QED
      BY <1>1, <1>4, <1>8, <2>2, <3>2, <3>4, <3>5, <3>6, <3>7 DEF InnerOK
  <2>3. CASE k # n /\ k # n + 1
    <3>1. k \in 2..n /\ k \in 1..n /\ k - 1 \in 1..n /\ k - 1 # n
      BY <1>4, <2>3
    <3>2. InnerOK(k) /\ calls'[k] = calls[k] /\ calls'[k - 1] = calls[k - 1]
      BY <1>2, <1>8, <2>3, <3>1 DEF n
    <3> QED
      BY <1>1, <3>2 DEF InnerOK
  <2> QED
    BY <2>1, <2>2, <2>3
<1>17. OuterOK'
  <2>1. OuterOK /\ 1 \in 1..n
    BY <1>2, <1>4 DEF n
  <2>2. mem' = mem /\ owned' = owned
    BY <1>1
  <2> QED
    BY <1>9, <2>1, <2>2 DEF OuterOK
<1>18. PagingInv'
  BY <1>8, <1>12, <1>13, <1>14, <1>15, <1>16, <1>17 DEF PagingInv
<1>19. Quiet
  <2>1. mem' = mem /\ owned' = owned
    BY <1>1
  <2>2. calls' # <<>>
    BY <1>4, <1>8
  <2>3. calls'[1].virt = calls[1].virt /\ calls'[1].phys = calls[1].phys
    BY <1>4, <1>9
  <2> QED
    BY <2>1, <2>2, <2>3 DEF Quiet
<1> QED
  BY <1>18, <1>19

(* A step that stops the kernel and changes no table: panic, or the end of *)
(* what the model follows.                                                 *)
LEMMA StopSound ==
    ASSUME PagingInv, UNCHANGED <<mem, free, calls, owned>>, status' \in {"panic", "lost"}
    PROVE  PagingInv' /\ (calls # <<>> => Quiet)
<1>1. UNCHANGED <<mem, free, calls, owned>> /\ status' \in {"panic", "lost"}
  OBVIOUS
<1>2. PICK lev : Labels(lev, mem) /\ Accounted(lev)
  BY DEF PagingInv
<1>3. Types' /\ Mapping' /\ BootKept(mem)' /\ Labels(lev, mem)' /\ Accounted(lev)'
  BY <1>1, <1>2 DEF PagingInv, Types, Mapping, Accounted
<1>4. \A k \in 1..Len(calls) : CallOK(k)'
  BY <1>1 DEF PagingInv, CallOK
<1>5. \A k \in 2..Len(calls) : InnerOK(k)'
  BY <1>1 DEF PagingInv, InnerOK
<1>6. Len(calls) > 0 => OuterOK'
  BY <1>1 DEF PagingInv, OuterOK
<1>7. calls' = calls
  BY <1>1
<1>8. PagingInv'
  BY <1>3, <1>4, <1>5, <1>6, <1>7 DEF PagingInv
<1>9. calls # <<>> => Quiet
  BY <1>1 DEF Quiet
<1> QED
  BY <1>8, <1>9

(* table_alloc without a free page, or with one that it must not clear. *)
LEMMA NoTableSound ==
    ASSUME PagingInv, paging_oom \/ table_lost
    PROVE  PagingInv' /\ Quiet
<1>1. UNCHANGED <<mem, free, calls, owned>> /\ status' \in {"panic", "lost"} /\ calls # <<>>
  BY DEF paging_oom, table_lost, Walking
<1> QED
  BY <1>1, StopSound

(* Only the outermost call comes to link a new table: the page is one of   *)
(* the boot mapping, and a call nested in a call for it links nothing.     *)
LEMMA TableLinkSound ==
    ASSUME PagingInv, table_link
    PROVE  PagingInv' /\ Quiet
<1> DEFINE p == Top.page
           v == Top.virt
           l == Top.level
           t == Top.tab
           i == Index(v, l)
<1>1. /\ calls # <<>> /\ p # Zero
      /\ mem' = [mem EXCEPT ![p] = [j \in 0..(Fanout - 1) |-> Zero], ![t][i] = p]
      /\ calls' = [calls EXCEPT ![Len(calls)].level = l - 1, ![Len(calls)].tab = p,
                                ![Len(calls)].page = Zero]
      /\ UNCHANGED <<free, status, owned>>
  BY DEF table_link, Walking
<1>2. /\ Types /\ Mapping /\ BootKept(mem)
      /\ \A k \in 1..Len(calls) : CallOK(k)
      /\ \A k \in 2..Len(calls) : InnerOK(k)
      /\ Len(calls) > 0 => OuterOK
  BY DEF PagingInv
<1>3. PICK lev : Labels(lev, mem) /\ Accounted(lev)
  BY DEF PagingInv
<1>4. /\ Len(calls) \in Nat \ {0} /\ Len(calls) \in 1..Len(calls)
      /\ \A k \in 1..Len(calls) : calls[k] \in CallRecords
      /\ Top = calls[Len(calls)] /\ v \in Addresses /\ l \in 1..4 /\ t \in Pages
      /\ p \in Frames \cup {Zero} /\ i \in Words /\ Top.phys \in Frames
  BY <1>1, <1>2, TopOfStack
<1>5. p \in Frames /\ p \in Pages /\ p \in Nat
  BY <1>1, <1>4, BootPages
<1>6. CallOK(Len(calls))
  BY <1>2, <1>4
<1>7. p < Fanout /\ l > 1 /\ mem[t][i] = Zero
  <2>1. ~(p >= Fanout) /\ l > 1 /\ mem[t][i] = Zero
    BY <1>1, <1>4, <1>6 DEF CallOK
  <2> QED
    BY <1>5, <2>1, BootPages
<1>8. Len(calls) = 1
  <2> SUFFICES ASSUME Len(calls) # 1 PROVE FALSE
    OBVIOUS
  <2>1. InnerOK(Len(calls))
    <3>1. Len(calls) \in 2..Len(calls)
      <4>1. PICK m \in Nat \ {0} : m = Len(calls)
        BY <1>4
      <4>2. m \in 2..m
        BY <4>1
      <4> QED
        BY <4>1, <4>2
    <3> QED
      BY <1>2, <3>1
  <2>2. p >= Fanout
    BY <1>1, <1>4, <2>1 DEF InnerOK
  <2> QED
    BY <1>5, <1>7, <2>2, BootPages
<1>9. /\ OuterOK /\ Top = calls[1] /\ v \in VirtPages /\ Top.phys \in owned /\ t = At(mem, v, l)
      /\ \A u \in VirtPages : At(mem, u, 0) # Top.phys
  BY <1>2, <1>4, <1>8 DEF OuterOK
<1>10. /\ lev[p] = 0 /\ p \notin free \cup owned
       /\ lev \in [Pages -> 0..4] /\ mem \in [Pages -> [Words -> Int]]
  BY <1>1, <1>3, <1>4 DEF Accounted, Labels
<1>11. t # Zero /\ lev[t] = l /\ t # p /\ l \in 2..4
  <2>1. t # Zero
    BY <1>4, BootPages
  <2>2. lev[t] = l
    BY <1>3, <1>4, <1>9, <2>1, AtLevel
  <2> QED
    BY <1>4, <1>7, <1>10, <2>1, <2>2
<1> HIDE DEF p, v, l, t, i
<1>12. /\ mem' \in [Pages -> [Words -> Int]]
       /\ \A q \in Pages : \A j \in Words :
             mem'[q][j] = IF q = p THEN Zero ELSE IF q = t /\ j = i THEN p ELSE mem[q][j]
  <2> DEFINE z == [j \in Words |-> Zero]
             m1 == [mem EXCEPT ![p] = z]
  <2>1. z \in [Words -> Int] /\ \A j \in Words : z[j] = Zero
    BY DEF Zero
  <2>2. mem' = [m1 EXCEPT ![t][i] = p]
    BY <1>1 DEF Words
  <2> HIDE DEF z
  <2>3. m1 \in [Pages -> [Words -> Int]] /\ m1[p] = z /\ \A q \in Pages : q # p => m1[q] = mem[q]
    BY <1>5, <1>10, <2>1
  <2> HIDE DEF m1
  <2>4. /\ mem' \in [Pages -> [Words -> Int]]
        /\ \A q \in Pages : q # t => mem'[q] = m1[q]
        /\ mem'[t][i] = p /\ \A j \in Words : j # i => mem'[t][j] = m1[t][j]
    BY <1>4, <1>5, <2>2, <2>3
  <2> QED
    BY <1>4, <1>5, <1>11, <2>1, <2>3, <2>4
<1>13. PICK nlev : nlev = [lev EXCEPT ![p] = l - 1]
  OBVIOUS
<1>14. /\ nlev \in [Pages -> 0..4] /\ nlev[p] = l - 1 /\ nlev[p] # 0
       /\ \A q \in Pages : q # p => nlev[q] = lev[q]
  BY <1>5, <1>10, <1>11, <1>13
<1>15. /\ Labels(nlev, mem') /\ BootKept(mem')
       /\ \A q \in Pages : lev[q] < 2 /\ q # p => mem'[q] = mem[q]
       /\ \A u \in Addresses : At(mem', u, 0) = At(mem, u, 0)
       /\ At(mem', v, l - 1) = p
  <2>1. At(mem, v, l) # Zero /\ mem[At(mem, v, l)][Index(v, l)] = Zero
    BY <1>7, <1>9, <1>11 DEF i
  <2>2. Linked(mem, mem', At(mem, v, l), Index(v, l), p)
    BY <1>9, <1>12 DEF i, Linked
  <2> QED
    <3>1. Labels(lev, mem) /\ BootKept(mem)
      BY <1>2, <1>3
    <3>2. v \in VirtPages /\ l \in 2..4
      BY <1>9, <1>11
    <3>3. p \in Pages /\ lev[p] = 0 /\ p < Fanout
      BY <1>5, <1>7, <1>10
    <3>4. mem' \in [Pages -> [Words -> Int]]
      BY <1>12
    <3>5. nlev \in [Pages -> 0..4] /\ nlev[p] = l - 1 /\ \A q \in Pages : q # p => nlev[q] = lev[q]
      BY <1>14
    <3> QED
      BY <2>1, <2>2, <3>1, <3>2, <3>3, <3>4, <3>5, Link, SMTT(30)
<1>16. /\ calls' \in Seq(CallRecords) /\ Len(calls') = 1
       /\ calls'[1].virt = v /\ calls'[1].phys = Top.phys /\ calls'[1].level = l - 1
       /\ calls'[1].tab = p /\ calls'[1].page = Zero
  <2> DEFINE c == [calls[1] EXCEPT !.level = l - 1, !.tab = p, !.page = Zero]
  <2>1. calls \in Seq(CallRecords) /\ calls[1] \in CallRecords
    BY <1>2, <1>4, <1>8 DEF Types
  <2>2. l - 1 \in 1..4
    BY <1>11
  <2>3. /\ c \in CallRecords /\ c.virt = v /\ c.phys = Top.phys /\ c.level = l - 1
        /\ c.tab = p /\ c.page = Zero
    BY <1>5, <1>9, <2>1, <2>2 DEF CallRecords, v
  <2>4. calls' = [calls EXCEPT ![1] = c]
    BY <1>1, <1>8
  <2> HIDE DEF c
  <2>5. 1 \in 1..Len(calls)
    BY <1>8
  <2>6. calls' \in Seq(CallRecords) /\ Len(calls') = Len(calls) /\ calls'[1] = c
    BY <2>1, <2>3, <2>4, <2>5
  <2> QED
    BY <1>8, <2>3, <2>6
<1>17. VirtPages \subseteq Addresses
  BY VirtIndex DEF Addresses
<1>18. owned' = owned /\ free' = free /\ status' = status
  BY <1>1
<1>19. Types'
  BY <1>2, <1>16, <1>18 DEF Types
<1>20. Mapping'
  BY <1>2, <1>15, <1>17, <1>18 DEF Mapping
<1>21. Accounted(nlev)'
  <2>1. \A q \in Frames : q \in free \cup owned => nlev[q] = 0
    BY <1>3, <1>10, <1>14, BootPages DEF Accounted
  <2>2. ASSUME NEW q \in Frames, q \notin free \cup owned, nlev[q] = 0 PROVE FALSE
    <3>1. q # p /\ lev[q] = 0
      BY <1>14, <2>2, BootPages
    <3>2. PICK k \in 1..Len(calls) : calls[k].page = q
      BY <1>3, <2>2, <3>1 DEF Accounted
    <3>3. k = 1
      BY <1>8, <3>2
    <3> QED
      BY <1>9, <3>1, <3>2, <3>3 DEF p
  <2>3. \A k \in 1..Len(calls') : calls'[k].page = Zero
    BY <1>16
  <2> QED
    BY <1>18, <2>1, <2>2, <2>3 DEF Accounted
<1>22. \A k \in 1..Len(calls') : CallOK(k)'
  <2>1. ~(Zero >= Fanout)
    BY BootPages DEF Zero
  <2>2. \A k \in 1..Len(calls') : k = 1 /\ ~(k < Len(calls'))
    BY <1>16
  <2> QED
    BY <1>16, <2>1, <2>2 DEF CallOK
<1>23. \A k \in 2..Len(calls') : InnerOK(k)'
  BY <1>16
<1>24. OuterOK'
  BY <1>9, <1>15, <1>16, <1>17, <1>18 DEF OuterOK
<1>25. PagingInv'
  BY <1>15, <1>19, <1>20, <1>21, <1>22, <1>23, <1>24 DEF PagingInv
<1>26. Quiet
  <2>1. \A q \in owned : mem'[q] = mem[q]
    <3>1. \A q \in owned : q \in Pages /\ q # p /\ lev[q] = 0
      BY <1>2, <1>3, <1>10, BootPages DEF Types, Accounted
    <3> QED
      BY <1>15, <3>1
  <2>2. \A u \in VirtPages : At(mem, u, 0)' = At(mem, u, 0)
    BY <1>15, <1>17
  <2>3. calls' # <<>>
    <3>1. Len(<<>>) = 0 /\ Len(calls') = 1
      BY <1>16
    <3> QED
      BY <3>1
  <2>4. calls'[1].virt = calls[1].virt /\ calls'[1].phys = calls[1].phys
    BY <1>9, <1>16 DEF v
  <2> QED
    BY <1>18, <2>1, <2>2, <2>3, <2>4 DEF Quiet
<1> QED
  BY <1>25, <1>26

(* The last step of paging_map_page: the outermost call changes one        *)
(* translation, a nested one writes the entry that is there already.       *)
LEMMA MapReturnSound ==
    ASSUME PagingInv, map_return
    PROVE  PagingInv' /\ Quiet
<1> DEFINE n == Len(calls)
           v == Top.virt
           t == Top.tab
           i == Index(v, 1)
<1>1. /\ calls # <<>> /\ Top.level = 1
      /\ mem' = [mem EXCEPT ![t][i] = Top.phys]
      /\ calls' = SubSeq(calls, 1, n - 1)
      /\ UNCHANGED <<free, status, owned>>
  BY DEF map_return, Walking
<1>2. /\ Types /\ Mapping /\ BootKept(mem)
      /\ \A k \in 1..n : CallOK(k)
      /\ \A k \in 2..n : InnerOK(k)
      /\ n > 0 => OuterOK
  BY DEF PagingInv
<1>3. PICK lev : Labels(lev, mem) /\ Accounted(lev)
  BY DEF PagingInv
<1>4. /\ n \in Nat \ {0} /\ n \in 1..n /\ \A k \in 1..n : calls[k] \in CallRecords
      /\ Top = calls[n] /\ v \in Addresses /\ t \in Pages /\ Top.phys \in Frames /\ i \in Words
  <2>1. /\ n \in Nat \ {0} /\ n \in 1..n /\ \A k \in 1..n : calls[k] \in CallRecords
        /\ Top = calls[n] /\ v \in Addresses /\ t \in Pages /\ Top.phys \in Frames
    BY <1>1, <1>2, TopOfStack
  <2>2. i \in Words
    BY <2>1, IndexInWords
  <2> QED
    BY <2>1, <2>2
<1>5. calls[n].page = Zero
  <2>1. CallOK(n)
    BY <1>2, <1>4
  <2> QED
    BY <1>1, <1>4, <2>1 DEF CallOK
<1>6. owned' = owned /\ free' = free /\ status' = status
  BY <1>1
<1>7. /\ calls' \in Seq(CallRecords) /\ Len(calls') = n - 1
      /\ \A k \in 1..(n - 1) : calls'[k] = calls[k] /\ k \in 1..n
  <2>1. calls \in Seq(CallRecords)
    BY <1>2 DEF Types
  <2> HIDE DEF v, t, i
  <2>2. /\ SubSeq(calls, 1, n - 1) \in Seq(CallRecords)
        /\ Len(SubSeq(calls, 1, n - 1)) = n - 1
        /\ \A k \in 1..(n - 1) : SubSeq(calls, 1, n - 1)[k] = calls[k]
    <3> DEFINE m == n - 1
    <3>1. m \in Nat /\ 1 \in Int /\ m \in Int /\ \A k \in 1..m : calls[k] \in CallRecords
      BY <1>4
    <3> HIDE DEF m
    <3>2. /\ SubSeq(calls, 1, m) \in Seq(CallRecords)
          /\ Len(SubSeq(calls, 1, m)) = IF 1 <= m THEN m - 1 + 1 ELSE 0
          /\ \A k \in 1..(m - 1 + 1) : SubSeq(calls, 1, m)[k] = calls[1 + k - 1]
      BY <3>1, SubSeqProperties
    <3>3. Len(SubSeq(calls, 1, m)) = m /\ \A k \in 1..m : k \in 1..(m - 1 + 1) /\ 1 + k - 1 = k
      BY <3>1, <3>2
    <3>4. \A k \in 1..m : SubSeq(calls, 1, m)[k] = calls[k]
      BY <3>2, <3>3
    <3> QED
      BY <3>2, <3>3, <3>4 DEF m
  <2>3. \A k \in 1..(n - 1) : k \in 1..n
    BY <1>4
  <2> QED
    BY <1>1, <2>2, <2>3
<1>8. mem \in [Pages -> [Words -> Int]]
  BY <1>3 DEF Labels
<1>9. /\ \A q \in owned : q \in Pages /\ lev[q] = 0
      /\ VirtPages \subseteq Addresses
  BY <1>2, <1>3, BootPages, VirtIndex DEF Types, Accounted, Addresses
<1>10. Types'
  BY <1>2, <1>6, <1>7 DEF Types
<1>11. Accounted(lev)'
  <2>1. ASSUME NEW q \in Frames, q \notin free \cup owned, lev[q] = 0
        PROVE  \E k \in 1..Len(calls') : calls'[k].page = q
    <3>1. PICK k \in 1..n : calls[k].page = q
      BY <1>3, <2>1 DEF Accounted
    <3>2. k # n
      BY <1>5, <3>1, BootPages
    <3>3. k \in 1..(n - 1)
      BY <1>4, <3>2
    <3> QED
      BY <1>7, <3>1, <3>3
  <2>2. \A k \in 1..Len(calls') : calls'[k].page # Zero =>
           calls'[k].page \notin free \cup owned /\ lev[calls'[k].page] = 0
    BY <1>3, <1>7 DEF Accounted
  <2> QED
    BY <1>3, <1>6, <2>1, <2>2 DEF Accounted
<1> HIDE DEF n, v, t, i
<1>12. CASE n = 1
  <2>1. /\ v \in VirtPages /\ t = At(mem, v, 1) /\ Top.phys \in owned /\ calls[1] = Top
    BY <1>1, <1>2, <1>4, <1>12 DEF OuterOK, n, v, t
  <2>2. t # Zero /\ Top.phys \in Int
    BY <1>4, BootPages
  <2>3. /\ mem' \in [Pages -> [Words -> Int]]
        /\ \A q \in Pages : \A j \in Words :
              mem'[q][j] = IF q = t /\ j = i THEN Top.phys ELSE mem[q][j]
    BY <1>1, <1>4, <1>8, <2>2
  <2>4. \A q \in Pages : \A j \in Words :
           mem'[q][j] = IF q = At(mem, v, 1) /\ j = Index(v, 1) THEN Top.phys ELSE mem[q][j]
    BY <2>1, <2>3 DEF i
  <2>5. /\ Labels(lev, mem') /\ BootKept(mem')
        /\ \A q \in Pages : q # At(mem, v, 1) => mem'[q] = mem[q]
        /\ At(mem', v, 0) = Top.phys
        /\ \A u \in Addresses : u # v => At(mem', u, 0) = At(mem, u, 0)
    <3>1. At(mem, v, 1) # Zero
      BY <2>1, <2>2
    <3> QED
      BY <1>2, <1>3, <2>1, <2>2, <2>3, <2>4, <3>1, SetEntry
  <2>6. Mapping'
    BY <1>2, <1>6, <1>9, <2>1, <2>5 DEF Mapping
  <2>7. Len(calls') = 0 /\ calls' = <<>>
    BY <1>7, <1>12
  <2>8. PagingInv'
    BY <1>3, <1>10, <1>11, <2>5, <2>6, <2>7 DEF PagingInv
  <2>9. Quiet
    <3>1. lev[t] = 1
      BY <1>1, <1>3, <1>4, <2>1, <2>2, AtLevel
    <3>2. \A q \in owned : mem'[q] = mem[q]
      BY <1>9, <2>1, <2>5, <3>1
    <3>3. \A u \in VirtPages :
             At(mem, u, 0)' = IF u = calls[1].virt THEN calls[1].phys ELSE At(mem, u, 0)
      BY <1>9, <2>1, <2>5 DEF v
    <3> QED
      BY <1>6, <2>7, <3>2, <3>3 DEF Quiet
  <2> QED
    BY <2>8, <2>9
<1>13. CASE n # 1
  <2>1. n \in 2..n /\ n - 1 \in 1..n /\ n - 1 > 0 /\ n - 1 \in 1..(n - 1)
    BY <1>4, <1>13
  <2>2. InnerOK(n)
    BY <1>2, <2>1 DEF n
  <2>3. /\ v = calls[n - 1].page /\ Top.phys = v /\ t = BootTables[4] /\ ~(v >= Fanout)
    BY <1>1, <1>4, <2>2, 5 - 1 = 4 DEF InnerOK, v, t
  <2>4. v \in Nat /\ v < Fanout /\ i = v
    <3>1. v \in Nat
      BY <1>4, <2>3, BootPages
    <3>2. v < Fanout /\ v \in 0..(Fanout - 1)
      BY <2>3, <3>1, BootPages
    <3> QED
      BY <3>1, <3>2, LowIndex DEF i
  <2>5. mem[t][i] = Top.phys
    BY <1>2, <1>4, <2>3, <2>4 DEF BootKept
  <2>6. mem' = mem
    BY <1>1, <1>4, <1>8, <2>5
  <2>7. ASSUME NEW k \in 1..(n - 1) PROVE CallOK(k)'
    <3>1. CallOK(k) /\ calls'[k] = calls[k] /\ k < n
      BY <1>2, <1>4, <1>7, <2>7 DEF n
    <3>2. k # n - 1 => k < n - 1
      BY <1>4
    <3>3. k = n - 1 => ~(calls[k].page >= Fanout)
      BY <2>3
    <3> QED
      BY <1>6, <1>7, <2>6, <3>1, <3>2, <3>3 DEF CallOK, n
  <2>8. ASSUME NEW k \in 2..(n - 1) PROVE InnerOK(k)'
    <3>1. k \in 2..n /\ k \in 1..(n - 1) /\ k - 1 \in 1..(n - 1)
      BY <1>4
    <3>2. InnerOK(k) /\ calls'[k] = calls[k] /\ calls'[k - 1] = calls[k - 1]
      BY <1>2, <1>7, <3>1 DEF n
    <3> QED
      BY <2>6, <3>2 DEF InnerOK
  <2>9. OuterOK' /\ calls'[1] = calls[1]
    <3>1. OuterOK /\ calls'[1] = calls[1]
      BY <1>2, <1>4, <1>7, <2>1 DEF n
    <3> QED
      BY <1>6, <2>6, <3>1 DEF OuterOK
  <2>10. Mapping' /\ BootKept(mem)' /\ Labels(lev, mem)'
    BY <1>2, <1>3, <1>6, <2>6 DEF Mapping
  <2>11. PagingInv'
    BY <1>7, <1>10, <1>11, <2>7, <2>8, <2>9, <2>10 DEF PagingInv
  <2>12. Quiet
    <3>1. calls' # <<>>
      BY <1>7, <2>1
    <3> QED
      BY <1>6, <2>6, <2>9, <3>1 DEF Quiet
  <2> QED
    BY <2>11, <2>12
<1> QED
  BY <1>12, <1>13

-----------------------------------------------------------------------------
(* The clients of the page tables *)

(* The translations after a step. *)
LEMMA WalksNext ==
    ASSUME NEW v
    PROVE  paging_virt_to_phys(v)' = At(mem', v, 0)
<1>1. Root # Zero
  BY BootPages
<1>2. Next3(v)' = At3(mem', v)
  BY <1>1 DEF Next3, At3, Follow
<1>3. Next2(v)' = At2(mem', v)
  BY <1>2 DEF Next2, At2, Follow
<1>4. walk(v)' = At1(mem', v)
  BY <1>3 DEF walk, At1, Follow
<1>5. paging_virt_to_phys(v)' = At0(mem', v)
  BY <1>4 DEF paging_virt_to_phys, At0, Follow
<1> QED
  BY <1>5 DEF At

(* A client takes a page, which it may fill, and calls paging_map_page. *)
LEMMA ClientCallSound ==
    ASSUME PagingInv, calls = <<>>, free # {}, Min(free) \notin Boot, NEW v \in VirtPages,
           free' = free \ {Min(free)}, owned' = owned \cup {Min(free)},
           calls' = <<Frame(v, Min(free))>>, status' = status,
           mem' \in [Pages -> [Words -> Int]],
           \A q \in Pages : q # Min(free) => mem'[q] = mem[q]
    PROVE  /\ PagingInv'
           /\ \A u \in VirtPages : At(mem', u, 0) = At(mem, u, 0)
           /\ \A q \in owned : mem'[q] = mem[q]
           /\ Min(free) \in Frames /\ Min(free) \notin owned
<1> DEFINE p == Min(free)
<1>1. Types /\ Mapping /\ BootKept(mem)
  BY DEF PagingInv
<1>2. PICK lev : Labels(lev, mem) /\ Accounted(lev)
  BY DEF PagingInv
<1>3. p \in free /\ p \in Frames /\ p \in Pages /\ p \notin owned /\ p # Zero
  <2>1. p \in free /\ p \in Frames
    BY <1>1, LowestFree
  <2> QED
    BY <1>1, <2>1, BootPages DEF Types
<1>4. /\ free' = free \ {p} /\ owned' = owned \cup {p} /\ calls' = <<Frame(v, p)>>
      /\ \A q \in Pages : q # p => mem'[q] = mem[q]
  OBVIOUS
<1> HIDE DEF p
<1>5. lev[p] = 0
  BY <1>2, <1>3 DEF Accounted
<1>6. /\ Labels(lev, mem') /\ BootKept(mem')
      /\ \A u \in Addresses : \A l \in 0..4 : At(mem', u, l) = At(mem, u, l)
  BY <1>1, <1>2, <1>3, <1>4, <1>5, Fill
<1>7. VirtPages \subseteq Addresses
  BY VirtIndex DEF Addresses
<1>8. \A u \in VirtPages : At(mem', u, 0) = At(mem, u, 0)
  BY <1>6, <1>7
<1>9. /\ calls' \in Seq(CallRecords) /\ Len(calls') = 1
      /\ calls'[1].virt = v /\ calls'[1].phys = p /\ calls'[1].level = 4
      /\ calls'[1].tab = Root /\ calls'[1].page = Zero
  <2> DEFINE c == Frame(v, p)
  <2>1. /\ c \in CallRecords
        /\ c.virt = v /\ c.phys = p /\ c.level = 4 /\ c.tab = Root /\ c.page = Zero
    BY <1>3, <1>7, BootPages DEF Frame, CallRecords
  <2>2. calls' = <<c>>
    BY <1>4
  <2> HIDE DEF c
  <2> QED
    BY <2>1, <2>2
<1>10. Types'
  BY <1>1, <1>3, <1>4, <1>9 DEF Types
<1>11. Mapping'
  BY <1>1, <1>4, <1>8 DEF Mapping
<1>12. \A k \in 1..Len(calls') : CallOK(k)'
  <2>1. ~(Zero >= Fanout)
    BY BootPages DEF Zero
  <2>2. \A k \in 1..Len(calls') : k = 1 /\ ~(k < Len(calls'))
    BY <1>9
  <2> QED
    BY <1>9, <2>1, <2>2 DEF CallOK
<1>13. \A k \in 2..Len(calls') : InnerOK(k)'
  BY <1>9
<1>14. OuterOK'
  <2>1. \A u \in VirtPages : At(mem, u, 0) # p
    BY <1>1, <1>3 DEF Mapping
  <2>2. At(mem', v, 4) = Root
    BY DEF At
  <2> QED
    BY <1>4, <1>8, <1>9, <2>1, <2>2 DEF OuterOK
<1>15. Accounted(lev)'
  <2>1. Len(calls) = 0
    OBVIOUS
  <2>2. \A q \in Frames : q \notin free /\ q \notin owned => lev[q] # 0
    BY <1>2, <2>1 DEF Accounted
  <2>3. \A q \in Frames : q \in free \/ q \in owned => lev[q] = 0
    BY <1>2 DEF Accounted
  <2>4. \A k \in 1..Len(calls') : calls'[k].page = Zero
    BY <1>9
  <2>5. \A q \in Frames : q \in free' \cup owned' <=> q \in free \cup owned
    BY <1>3, <1>4
  <2> QED
    BY <2>2, <2>3, <2>4, <2>5 DEF Accounted
<1>16. PagingInv'
  BY <1>6, <1>10, <1>11, <1>12, <1>13, <1>14, <1>15 DEF PagingInv
<1>17. \A q \in owned : mem'[q] = mem[q]
  BY <1>1, <1>3, <1>4, BootPages DEF Types
<1> QED
  BY <1>3, <1>8, <1>16, <1>17 DEF p

(* paging_unmap_page removes the translation of its page and no other. *)
LEMMA UnmapSound ==
    ASSUME PagingInv, NEW v \in VirtPages, paging_unmap_page(v)
    PROVE  /\ PagingInv'
           /\ \A u \in VirtPages : At(mem', u, 0) = IF u = v THEN Zero ELSE At(mem, u, 0)
           /\ \A q \in owned : mem'[q] = mem[q]
<1> DEFINE t == At(mem, v, 1)
           i == Index(v, 1)
<1>1. /\ calls = <<>> /\ t # Zero
      /\ mem' = [mem EXCEPT ![t][i] = Zero]
      /\ UNCHANGED <<free, calls, status, owned>>
  BY Walks DEF paging_unmap_page
<1>2. Types /\ Mapping /\ BootKept(mem)
  BY DEF PagingInv
<1>3. PICK lev : Labels(lev, mem) /\ Accounted(lev)
  BY DEF PagingInv
<1>4. VirtPages \subseteq Addresses
  BY VirtIndex DEF Addresses
<1>5. t \in Pages /\ lev[t] = 1
  BY <1>1, <1>3, <1>4, AtLevel
<1>6. i \in Words
  BY <1>4, IndexInWords
<1>7. mem \in [Pages -> [Words -> Int]]
  BY <1>3 DEF Labels
<1> HIDE DEF t, i
<1>8. /\ mem' \in [Pages -> [Words -> Int]]
      /\ \A q \in Pages : \A j \in Words : mem'[q][j] = IF q = t /\ j = i THEN Zero ELSE mem[q][j]
  BY <1>1, <1>5, <1>6, <1>7 DEF Zero
<1>9. /\ Labels(lev, mem') /\ BootKept(mem')
      /\ \A q \in Pages : q # At(mem, v, 1) => mem'[q] = mem[q]
      /\ At(mem', v, 0) = Zero
      /\ \A u \in Addresses : u # v => At(mem', u, 0) = At(mem, u, 0)
  <2>1. Zero \in Int /\ At(mem, v, 1) # Zero
    BY <1>1 DEF Zero, t
  <2>2. \A q \in Pages : \A j \in Words :
           mem'[q][j] = IF q = At(mem, v, 1) /\ j = Index(v, 1) THEN Zero ELSE mem[q][j]
    BY <1>8 DEF t, i
  <2> QED
    BY <1>2, <1>3, <1>8, <2>1, <2>2, SetEntry
<1>10. \A u \in VirtPages : At(mem', u, 0) = IF u = v THEN Zero ELSE At(mem, u, 0)
  BY <1>4, <1>9
<1>11. free' = free /\ calls' = calls /\ status' = status /\ owned' = owned /\ Len(calls) = 0
  BY <1>1
<1>12. Types' /\ Accounted(lev)'
  BY <1>2, <1>3, <1>11 DEF Types, Accounted
<1>13. Mapping'
  BY <1>2, <1>10, <1>11 DEF Mapping
<1>14. PagingInv'
  BY <1>9, <1>11, <1>12, <1>13 DEF PagingInv
<1>15. \A q \in owned : mem'[q] = mem[q]
  <2>1. \A q \in owned : q \in Pages /\ lev[q] = 0
    BY <1>2, <1>3, BootPages DEF Types, Accounted
  <2> QED
    BY <1>5, <1>9, <2>1 DEF t
<1> QED
  BY <1>10, <1>14, <1>15

(* The loader in progress is one that load started. *)
LoadRecords == [phase : {"load"}, img : Images, sec : Nat \ {0}, j : Nat]

LdTypes ==
    /\ loaded \subseteq Images
    /\ \/ ld = NoLoad
       \/ ld \in LoadRecords

(* The section that the loader is at. *)
LEMMA SectTypes ==
    ASSUME LdTypes, Loading, ld.sec <= Len(ld.img.sects)
    PROVE  /\ ld.img \in Images /\ ld.j \in Nat /\ ld.sec \in 1..Len(ld.img.sects)
           /\ ld.img.kind \in {"mira", "elf"}
           /\ Sect = ld.img.sects[ld.sec]
           /\ Sect.pt_load \in BOOLEAN /\ Sect.vaddr \in Nat /\ Sect.memsz \in Nat
           /\ Sect.filesz \in Nat /\ Sect.file_off \in Nat
           /\ Takes(ld.img, ld.sec) <=> ~Skipped
<1>1. ld \in [phase : {"load"}, img : Images, sec : Nat \ {0}, j : Nat]
  BY DEF LdTypes, LoadRecords, Loading, NoLoad
<1>2. ld.img \in Images /\ ld.j \in Nat /\ ld.sec \in Nat \ {0}
  BY <1>1
<1>3. ld.img.sects \in Seq(SectionRecords) /\ ld.img.kind \in {"mira", "elf"}
  BY <1>2, LoaderAssumption
<1>4. ld.sec \in 1..Len(ld.img.sects)
  BY <1>2, <1>3
<1>5. Sect = ld.img.sects[ld.sec] /\ Sect \in SectionRecords
  BY <1>3, <1>4 DEF Sect
<1>6. /\ Sect.pt_load \in BOOLEAN /\ Sect.vaddr \in Nat /\ Sect.memsz \in Nat
      /\ Sect.filesz \in Nat /\ Sect.file_off \in Nat
  BY <1>5 DEF SectionRecords
<1>7. Takes(ld.img, ld.sec) <=> ~Skipped
  BY <1>3, <1>5 DEF Takes, Skipped
<1> QED
  BY <1>2, <1>3, <1>4, <1>5, <1>6, <1>7

(* A page of a section is one of the virtual pages of its image. *)
LEMMA SectionPages ==
    ASSUME NEW img \in Images, NEW s \in 1..Len(img.sects), Takes(img, s),
           NEW j \in Nat, PageIn(img, s, j)
    PROVE  /\ PageAt(img, s, j) \in PagesOf(img) /\ PageAt(img, s, j) \in ImagePages
           /\ PageAt(img, s, j) \in Nat /\ j \in 0..img.sects[s].memsz
<1> DEFINE M == img.sects[s].memsz
<1>1. img.sects \in Seq(SectionRecords)
  BY LoaderAssumption
<1>2. img.sects[s] \in SectionRecords
  BY <1>1
<1>3. M \in Nat
  BY <1>2 DEF SectionRecords
<1>4. Fanout \in Nat \ {0} /\ j * Fanout < M
  BY BootPages DEF PageIn
<1> HIDE DEF M
<1>5. j \in 0..M
  <2>1. 1 * j <= Fanout * j /\ Fanout * j = j * Fanout /\ j * Fanout \in Nat
    BY <1>4, Products
  <2> DEFINE x == j * Fanout
  <2>2. j <= x /\ x < M /\ x \in Nat
    BY <1>4, <2>1
  <2> HIDE DEF x
  <2> QED
    BY <1>3, <1>4, <2>2
<1>6. PageAt(img, s, j) \in PagesOf(img)
  BY <1>5 DEF M, PagesOf
<1>7. PageAt(img, s, j) \in ImagePages
  BY <1>6, LoaderAssumption
<1>8. PageAt(img, s, j) \in Nat
  <2>1. \A v \in ImagePages : v \in Nat
    BY PagingAssumption
  <2> QED
    BY <1>7, <2>1
<1> QED
  BY <1>5, <1>6, <1>7, <1>8 DEF M

(* The page that the loader is at. *)
LEMMA PageTypes ==
    ASSUME LdTypes, Loading, PageLeft
    PROVE  /\ Takes(ld.img, ld.sec) /\ PageIn(ld.img, ld.sec, ld.j)
           /\ Target \in PagesOf(ld.img) /\ Target \in ImagePages
           /\ Target >= Fanout => Target \in VirtPages
<1>1. ld.sec <= Len(ld.img.sects) /\ ~Skipped /\ PageIn(ld.img, ld.sec, ld.j)
  BY DEF PageLeft
<1>2. /\ ld.img \in Images /\ ld.j \in Nat /\ ld.sec \in 1..Len(ld.img.sects)
      /\ Takes(ld.img, ld.sec)
  BY <1>1, SectTypes
<1>3. Target \in PagesOf(ld.img) /\ Target \in ImagePages
  BY <1>1, <1>2, SectionPages DEF Target
<1> QED
  BY <1>1, <1>2, <1>3 DEF VirtPages

(* What the loader writes are words. *)
LEMMA FilledTypes ==
    ASSUME PagingInv, LdTypes, Loading, PageLeft, NEW p \in Pages
    PROVE  Filled(p) \in [Words -> Int]
<1>1. ld.sec <= Len(ld.img.sects)
  BY DEF PageLeft
<1>2. ld.j \in Nat /\ Sect.file_off \in Nat
  BY <1>1, SectTypes
<1>3. Fanout \in Nat
  BY BootPages
<1>4. ASSUME NEW i \in Words PROVE FileWord(Sect.file_off + (ld.j * Fanout + i)) \in Int
  <2>1. i \in Nat /\ ld.j * Fanout \in Nat
    BY <1>2, <1>3, Products DEF Words
  <2> DEFINE x == ld.j * Fanout
             o == Sect.file_off
  <2>2. x \in Nat /\ o \in Nat
    BY <1>2, <2>1
  <2> HIDE DEF x, o
  <2>3. FileWord(o + (x + i)) \in Int
    BY <2>1, <2>2 DEF FileWord
  <2> QED
    BY <2>3 DEF x, o
<1>5. \A i \in Words : mem[p][i] \in Int /\ Zero \in Int
  BY DEF PagingInv, Labels, Zero
<1> QED
  BY <1>4, <1>5 DEF Filled, Words

(* The loader takes a page, fills it and maps it. *)
LEMMA LoadPageSound ==
    ASSUME PagingInv, LdTypes, load_page
    PROVE  /\ PagingInv'
           /\ \A u \in VirtPages : At(mem', u, 0) = At(mem, u, 0)
           /\ \A q \in owned : mem'[q] = mem[q]
           /\ owned \subseteq owned'
           /\ calls' = <<Frame(Target, Min(free))>> /\ Min(free) \in owned'
           /\ mem'[Min(free)] = Filled(Min(free))
<1>1. /\ Loading /\ PageLeft /\ free # {} /\ calls = <<>>
      /\ Min(free) \notin Boot /\ Target >= Fanout
      /\ mem' = [mem EXCEPT ![Min(free)] = Filled(Min(free))]
      /\ free' = free \ {Min(free)} /\ owned' = owned \cup {Min(free)}
      /\ calls' = <<Frame(Target, Min(free))>> /\ status' = status
  BY DEF load_page, Loading, LoadSafe
<1>2. Min(free) \in Pages
  BY <1>1, LowestFree, BootPages DEF PagingInv
<1>3. Filled(Min(free)) \in [Words -> Int]
  BY <1>1, <1>2, FilledTypes
<1>4. mem \in [Pages -> [Words -> Int]]
  BY DEF PagingInv, Labels
<1>5. /\ mem' \in [Pages -> [Words -> Int]] /\ mem'[Min(free)] = Filled(Min(free))
      /\ \A q \in Pages : q # Min(free) => mem'[q] = mem[q]
  BY <1>1, <1>2, <1>3, <1>4
<1>6. Target \in VirtPages
  BY <1>1, PageTypes
<1>7. /\ PagingInv' /\ \A u \in VirtPages : At(mem', u, 0) = At(mem, u, 0)
      /\ \A q \in owned : mem'[q] = mem[q]
  BY <1>1, <1>5, <1>6, ClientCallSound
<1> QED
  BY <1>1, <1>5, <1>7

(* The heap takes a page and maps it. *)
LEMMA HeapMapSound ==
    ASSUME PagingInv, NEW v \in VirtPages, heap_map_more(v)
    PROVE  /\ PagingInv' /\ mem' = mem /\ owned \subseteq owned'
           /\ calls' = <<Frame(v, Min(free))>>
<1>1. /\ free # {} /\ calls = <<>> /\ mem' = mem /\ Min(free) \notin Boot
      /\ free' = free \ {Min(free)} /\ owned' = owned \cup {Min(free)}
      /\ calls' = <<Frame(v, Min(free))>> /\ status' = status
  BY DEF heap_map_more
<1>2. mem \in [Pages -> [Words -> Int]]
  BY DEF PagingInv, Labels
<1>3. mem' \in [Pages -> [Words -> Int]] /\ \A q \in Pages : q # Min(free) => mem'[q] = mem[q]
  BY <1>1, <1>2
<1>4. PagingInv'
  BY <1>1, <1>3, ClientCallSound
<1> QED
  BY <1>1, <1>4

(* The loader stops at a page that it cannot reach. *)
LEMMA LoadFaultSound ==
    ASSUME PagingInv, load_fault
    PROVE  PagingInv' /\ mem' = mem /\ calls' = calls /\ owned \subseteq owned'
<1> DEFINE p == Min(free)
<1>1. /\ calls = <<>> /\ free # {} /\ free' = free \ {p} /\ owned' = owned \cup {p}
      /\ status' = "panic" /\ UNCHANGED <<mem, calls>>
      /\ paging_virt_to_phys(p) = Zero
  BY DEF load_fault, Loading, StoreFaults
<1>2. Types /\ Mapping /\ BootKept(mem)
  BY DEF PagingInv
<1>3. PICK lev : Labels(lev, mem) /\ Accounted(lev)
  BY DEF PagingInv
<1>4. p \in free /\ p \in Frames
  <2>1. p \in free /\ p \in Ram /\ (p \notin Boot => p \in Frames)
    BY <1>1, <1>2, LowestFree
  <2>2. ASSUME p \in Boot PROVE FALSE
    <3>1. p < Fanout /\ p \in Nat /\ p # Zero
      BY <2>2, BootPages DEF Boot, Words
    <3>2. At(mem, p, 0) = p
      BY <1>2, <3>1, BootWalks
    <3> QED
      BY <1>1, <3>1, <3>2, Walks
  <2> QED
    BY <2>1, <2>2
<1> HIDE DEF p
<1>5. Types'
  BY <1>1, <1>2, <1>4 DEF Types
<1>6. mem' = mem /\ calls' = calls /\ Len(calls) = 0
  BY <1>1
<1>7. Mapping' /\ BootKept(mem') /\ Labels(lev, mem')
  BY <1>1, <1>2, <1>3, <1>6 DEF Mapping
<1>8. Accounted(lev)'
  <2>1. \A q \in Frames : q \in free' \cup owned' <=> q \in free \cup owned
    BY <1>1, <1>4
  <2> QED
    BY <1>3, <1>6, <2>1 DEF Accounted
<1>9. PagingInv'
  BY <1>5, <1>6, <1>7, <1>8 DEF PagingInv
<1> QED
  BY <1>1, <1>6, <1>9

(* A step of paging_map_page. *)
LEMMA MapStepSound ==
    ASSUME PagingInv, paging_map_page
    PROVE  PagingInv' /\ Quiet /\ calls # <<>>
<1>1. CASE walk_down
  BY <1>1, WalkDownSound DEF walk_down, Walking
<1>2. CASE table_alloc
  BY <1>2, TableAllocSound DEF table_alloc, Walking
<1>3. CASE paging_oom \/ table_lost
  BY <1>3, NoTableSound DEF paging_oom, table_lost, Walking
<1>4. CASE table_link
  BY <1>4, TableLinkSound DEF table_link, Walking
<1>5. CASE map_return
  BY <1>5, MapReturnSound DEF map_return, Walking
<1> QED
  BY <1>1, <1>2, <1>3, <1>4, <1>5 DEF paging_map_page

-----------------------------------------------------------------------------
(* The theorems about the page tables *)

(* The tables that paging_init writes. *)
LEMMA InitSound ==
    ASSUME paging_init
    PROVE  PagingInv /\ \A v \in VirtPages : At(mem, v, 0) = Zero
<1> DEFINE B(k) == BootTables[k]
           lev == [p \in Pages |-> CASE p = B(1) -> 4 [] p = B(2) -> 3 [] p = B(3) -> 2
                                     [] p = B(4) -> 1 [] OTHER -> 0]
<1>1. /\ free \in Memories /\ calls = <<>> /\ status = "run" /\ owned = Frames \ free
      /\ mem = [p \in Pages |->
                  [i \in 0..(Fanout - 1) |->
                     CASE p = BootTables[4] -> i
                       [] \E k \in 1..3 : p = BootTables[k] ->
                             IF i = 0 THEN Below(p) ELSE Zero
                       [] OTHER -> Garbage]]
  BY DEF paging_init
<1>2. \A j, k \in 1..4 : B(j) = B(k) => j = k
  BY PagingAssumption
<1>3. \A k \in 1..4 : B(k) \in Pages /\ B(k) \in Words
  BY BootPages
<1>4. ASSUME NEW k \in 1..3 PROVE Below(B(k)) = B(k + 1)
  <2>1. k \in 1..4 /\ k + 1 \in 1..4
    OBVIOUS
  <2>2. \E q \in Pages : \E j \in 1..3 : B(k) = BootTables[j] /\ q = BootTables[j + 1]
    BY <1>3, <2>1
  <2>3. \E j \in 1..3 : B(k) = BootTables[j] /\ Below(B(k)) = BootTables[j + 1]
    BY <2>2 DEF Below
  <2>4. \A j \in 1..3 : B(k) = BootTables[j] => j = k
    BY <1>2, <2>1
  <2> QED
    BY <2>3, <2>4
<1>5. \A i \in Words : mem[B(4)][i] = i
  <2>1. B(4) \in Pages /\ ~(\E k \in 1..3 : B(4) = BootTables[k])
    BY <1>2, <1>3
  <2> QED
    BY <1>1, <2>1 DEF Words
<1>6. ASSUME NEW k \in 1..3, NEW i \in Words
      PROVE  mem[B(k)][i] = IF i = 0 THEN B(k + 1) ELSE Zero
  <2>1. B(k) # B(4) /\ B(k) \in Pages
    BY <1>2, <1>3
  <2>2. mem[B(k)][i] = IF i = 0 THEN Below(B(k)) ELSE Zero
    BY <1>1, <2>1 DEF Words
  <2> QED
    BY <1>4, <2>2
<1>7. \A i \in Words : /\ mem[B(1)][i] = IF i = 0 THEN B(2) ELSE Zero
                       /\ mem[B(2)][i] = IF i = 0 THEN B(3) ELSE Zero
                       /\ mem[B(3)][i] = IF i = 0 THEN B(4) ELSE Zero
  BY <1>6, 1 + 1 = 2, 2 + 1 = 3, 3 + 1 = 4
<1>8. mem \in [Pages -> [Words -> Int]]
  <2>1. ASSUME NEW p \in Pages, NEW i \in Words PROVE mem[p][i] \in Int
    <3>1. CASE p = B(4)
      BY <1>5, <3>1 DEF Words
    <3>2. CASE \E k \in 1..3 : p = B(k)
      <4>1. PICK k \in 1..3 : p = B(k)
        BY <3>2
      <4>2. B(k + 1) \in Nat /\ Zero \in Int
        BY <1>3, BootPages DEF Zero
      <4> QED
        BY <1>6, <4>1, <4>2
    <3>3. CASE ~(p = B(4)) /\ ~(\E k \in 1..3 : p = B(k))
      <4>1. mem[p][i] = Garbage
        BY <1>1, <3>3 DEF Words
      <4>2. Garbage \in Int
        BY PagingAssumption, BootPages DEF Zero
      <4> QED
        BY <4>1, <4>2
    <3> QED
      BY <3>1, <3>2, <3>3
  <2>2. mem = [p \in Pages |-> mem[p]] /\ \A p \in Pages : mem[p] = [i \in Words |-> mem[p][i]]
    BY <1>1 DEF Words
  <2> QED
    BY <2>1, <2>2
<1>9. BootKept(mem)
  BY <1>3, <1>5, <1>7, BootPages DEF BootKept
<1>10. /\ lev \in [Pages -> 0..4]
       /\ lev[B(1)] = 4 /\ lev[B(2)] = 3 /\ lev[B(3)] = 2 /\ lev[B(4)] = 1
       /\ \A p \in Pages : lev[p] # 0 => p = B(1) \/ p = B(2) \/ p = B(3) \/ p = B(4)
  <2>1. B(1) # B(2) /\ B(1) # B(3) /\ B(1) # B(4) /\ B(2) # B(3) /\ B(2) # B(4) /\ B(3) # B(4)
    BY <1>2
  <2> QED
    BY <1>3, <2>1
<1>11. PICK lv : lv = lev
  OBVIOUS
<1> HIDE DEF lev
<1>12. /\ lv \in [Pages -> 0..4]
       /\ lv[B(1)] = 4 /\ lv[B(2)] = 3 /\ lv[B(3)] = 2 /\ lv[B(4)] = 1
       /\ \A p \in Pages : lv[p] # 0 => p = B(1) \/ p = B(2) \/ p = B(3) \/ p = B(4)
  BY <1>10, <1>11
<1>13. Labels(lv, mem)
  <2> DEFINE b1 == B(1)
             b2 == B(2)
             b3 == B(3)
             b4 == B(4)
  <2>1. /\ b1 \in Pages /\ b2 \in Pages /\ b3 \in Pages /\ b4 \in Pages /\ Root = b1
        /\ b1 # b2 /\ b1 # b3 /\ b1 # b4 /\ b2 # b3 /\ b2 # b4 /\ b3 # b4
        /\ b2 # Zero /\ b3 # Zero /\ b4 # Zero
        /\ b1 < Fanout /\ b2 < Fanout /\ b3 < Fanout /\ b4 < Fanout
    <3>1. \A x \in Words : x < Fanout
      BY BootPages DEF Words
    <3> QED
      BY <1>2, <1>3, <3>1, BootPages
  <2>2. /\ lv \in [Pages -> 0..4] /\ lv[b1] = 4 /\ lv[b2] = 3 /\ lv[b3] = 2 /\ lv[b4] = 1
        /\ \A p \in Pages : lv[p] # 0 => p = b1 \/ p = b2 \/ p = b3 \/ p = b4
        /\ \A i \in Words : /\ mem[b1][i] = IF i = 0 THEN b2 ELSE Zero
                            /\ mem[b2][i] = IF i = 0 THEN b3 ELSE Zero
                            /\ mem[b3][i] = IF i = 0 THEN b4 ELSE Zero
    BY <1>7, <1>12
  <2> HIDE DEF b1, b2, b3, b4
  <2>3. \A p \in Pages : lv[p] = 4 <=> p = Root
    BY <2>1, <2>2
  <2>4. \A p \in Pages : lv[p] >= 2 => p = b1 \/ p = b2 \/ p = b3
    BY <2>1, <2>2
  <2>5. ASSUME NEW p \in Pages, NEW i \in Words, lv[p] >= 2, mem[p][i] # Zero
        PROVE  mem[p][i] \in Pages /\ lv[mem[p][i]] = lv[p] - 1
    <3>1. p = b1 \/ p = b2 \/ p = b3
      BY <2>4, <2>5
    <3>2. CASE p = b1
      BY <2>1, <2>2, <2>5, <3>2
    <3>3. CASE p = b2
      BY <2>1, <2>2, <2>5, <3>3
    <3>4. CASE p = b3
      BY <2>1, <2>2, <2>5, <3>4
    <3> QED
      BY <3>1, <3>2, <3>3, <3>4
  <2>6. ASSUME NEW p \in Pages, lv[p] \in 1..3
        PROVE  \E q \in Pages : \E i \in Words : lv[q] = lv[p] + 1 /\ mem[q][i] = p
    <3>1. p = b2 \/ p = b3 \/ p = b4
      BY <2>2, <2>6
    <3>2. 0 \in Words
      BY BootPages
    <3> QED
      BY <2>1, <2>2, <3>1, <3>2
  <2>7. ASSUME NEW p \in Pages, NEW q \in Pages, NEW i \in Words, NEW j \in Words,
               lv[p] >= 2, lv[q] >= 2, mem[p][i] # Zero, mem[p][i] = mem[q][j]
        PROVE  p = q /\ i = j
    <3>1. ASSUME NEW r \in Pages, NEW k \in Words, lv[r] >= 2, mem[r][k] # Zero
          PROVE  k = 0 /\ ((r = b1 /\ mem[r][k] = b2) \/ (r = b2 /\ mem[r][k] = b3)
                           \/ (r = b3 /\ mem[r][k] = b4))
      <4>1. r = b1 \/ r = b2 \/ r = b3
        BY <2>4, <3>1
      <4> QED
        BY <2>2, <3>1, <4>1
    <3>2. /\ i = 0 /\ ((p = b1 /\ mem[p][i] = b2) \/ (p = b2 /\ mem[p][i] = b3)
                       \/ (p = b3 /\ mem[p][i] = b4))
          /\ j = 0 /\ ((q = b1 /\ mem[q][j] = b2) \/ (q = b2 /\ mem[q][j] = b3)
                       \/ (q = b3 /\ mem[q][j] = b4))
      BY <2>7, <3>1
    <3> QED
      BY <2>1, <2>7, <3>2
  <2>8. \A p \in Pages : lv[p] > 0 => p < Fanout
    BY <2>1, <2>2
  <2> QED
    BY <1>8, <2>2, <2>3, <2>5, <2>6, <2>7, <2>8 DEF Labels
<1>14. Accounted(lv)
  <2>1. \A p \in Frames : lv[p] = 0
    <3>1. \A p \in Frames : p # B(1) /\ p # B(2) /\ p # B(3) /\ p # B(4) /\ p \in Pages
      <4>1. \A p \in Frames : p \in Pages /\ p \notin Boot
        BY BootPages
      <4>2. B(1) \in Boot /\ B(2) \in Boot /\ B(3) \in Boot /\ B(4) \in Boot
        BY BootPages
      <4> QED
        BY <4>1, <4>2
    <3> QED
      BY <1>12, <3>1
  <2>2. Len(calls) = 0
    BY <1>1
  <2> QED
    BY <1>1, <2>1, <2>2, BootPages DEF Accounted
<1>15. ASSUME NEW v \in VirtPages PROVE At(mem, v, 0) = Zero
  <2>1. v \in Addresses /\ ~(Index(v, 4) = 0 /\ Index(v, 3) = 0 /\ Index(v, 2) = 0)
    BY VirtIndex DEF Addresses
  <2>2. \A l \in 1..4 : Index(v, l) \in Words
    BY <2>1, IndexInWords
  <2>3. Root # Zero /\ Root = B(1) /\ B(2) # Zero /\ B(3) # Zero
    BY BootPages
  <2>4. At3(mem, v) = Zero \/ (Index(v, 4) = 0 /\ At3(mem, v) = B(2))
    BY <1>7, <2>2, <2>3 DEF At3, Follow
  <2>5. At2(mem, v) = Zero \/ (Index(v, 4) = 0 /\ Index(v, 3) = 0 /\ At2(mem, v) = B(3))
    BY <1>7, <2>2, <2>3, <2>4 DEF At2, Follow
  <2>6. At1(mem, v) = Zero
    BY <1>7, <2>1, <2>2, <2>3, <2>5 DEF At1, Follow
  <2> QED
    BY <2>6 DEF At, At0, Follow
<1>16. Types /\ Mapping /\ Len(calls) = 0
  BY <1>1, <1>15 DEF Types, Mapping, Ram
<1>17. PagingInv
  BY <1>9, <1>13, <1>14, <1>16 DEF PagingInv
<1> QED
  BY <1>15, <1>17

(* A step that leaves the page tables alone. *)
LEMMA Unchanged ==
    ASSUME PagingInv, UNCHANGED pagingVars
    PROVE  PagingInv'
<1>1. UNCHANGED <<mem, free, calls, status, owned>>
  BY DEF pagingVars
<1>2. PICK lev : Labels(lev, mem) /\ Accounted(lev)
  BY DEF PagingInv
<1>3. Types' /\ Mapping' /\ BootKept(mem)' /\ Labels(lev, mem)' /\ Accounted(lev)'
  BY <1>1, <1>2 DEF PagingInv, Types, Mapping, Accounted
<1>4. \A k \in 1..Len(calls) : CallOK(k)'
  BY <1>1 DEF PagingInv, CallOK
<1>5. \A k \in 2..Len(calls) : InnerOK(k)'
  BY <1>1 DEF PagingInv, InnerOK
<1>6. Len(calls) > 0 => OuterOK'
  BY <1>1 DEF PagingInv, OuterOK
<1>7. calls' = calls
  BY <1>1
<1> QED
  BY <1>3, <1>4, <1>5, <1>6, <1>7 DEF PagingInv

(* The heap's addresses are above the boot mapping. *)
LEMMA HeapIsHigh == HeapPages \subseteq VirtPages
<1>1. Fanout \in Nat \ {0, 1} /\ HeapPages \subseteq (Fanout * Fanout)..(Top4 - 1)
  BY PagingAssumption
<1>2. Fanout * Fanout \in Nat /\ Fanout <= Fanout * Fanout
  BY <1>1
<1> DEFINE G == Fanout * Fanout
<1>3. G \in Nat /\ Fanout <= G /\ HeapPages \subseteq G..(Top4 - 1) /\ Top4 \in Nat
  BY <1>1, <1>2, Products DEF Top4
<1> HIDE DEF G
<1> QED
  BY <1>1, <1>3 DEF VirtPages

(* The invariant of the page tables with the loaders as clients. *)
LEMMA StepSound ==
    ASSUME PagingInv, LdTypes, [Next]_vars
    PROVE  PagingInv' /\ LdTypes'
<1>1. ASSUME NEW img \in Images, load(img) PROVE PagingInv' /\ LdTypes'
  <2>1. UNCHANGED pagingVars /\ loaded' = loaded
    BY <1>1 DEF load
  <2>2. PagingInv'
    BY <2>1, Unchanged
  <2>3. ld' = [phase |-> "load", img |-> img, sec |-> 1, j |-> 0] \/ ld' = NoLoad
    BY <1>1 DEF load
  <2> QED
    BY <2>1, <2>2, <2>3 DEF LdTypes, LoadRecords
<1>2. CASE load_page
  <2>1. Loading /\ ld' = [ld EXCEPT !.j = ld.j + 1] /\ loaded' \subseteq loaded
    BY <1>2 DEF load_page, Untouched
  <2>2. ld \in [phase : {"load"}, img : Images, sec : Nat \ {0}, j : Nat]
    BY <2>1 DEF LdTypes, LoadRecords, Loading, NoLoad
  <2>3. ld' \in [phase : {"load"}, img : Images, sec : Nat \ {0}, j : Nat]
    BY <2>1, <2>2
  <2> QED
    BY <1>2, <2>1, <2>3, LoadPageSound DEF LdTypes, LoadRecords
<1>3. CASE load_fault
  <2>1. UNCHANGED <<ld, loaded>>
    BY <1>3 DEF load_fault
  <2> QED
    BY <1>3, <2>1, LoadFaultSound DEF LdTypes, LoadRecords
<1>10. CASE load_lost \/ (heap_lost /\ UNCHANGED <<ld, loaded>>)
  <2>1. UNCHANGED <<mem, free, calls, owned, ld, loaded>> /\ status' = "lost"
    BY <1>10 DEF load_lost, heap_lost
  <2> QED
    BY <2>1, StopSound DEF LdTypes, LoadRecords
<1>4. CASE next_section
  <2>1. /\ Loading /\ ld' = [ld EXCEPT !.sec = ld.sec + 1, !.j = 0] /\ loaded' = loaded
        /\ UNCHANGED pagingVars
    BY <1>4 DEF next_section
  <2>2. ld \in [phase : {"load"}, img : Images, sec : Nat \ {0}, j : Nat]
    BY <2>1 DEF LdTypes, LoadRecords, Loading, NoLoad
  <2>3. ld' \in [phase : {"load"}, img : Images, sec : Nat \ {0}, j : Nat]
    <3>1. ld.sec + 1 \in Nat \ {0} /\ 0 \in Nat
      BY <2>2
    <3> QED
      BY <2>1, <2>2, <3>1
  <2> QED
    BY <2>1, <2>3, Unchanged DEF LdTypes, LoadRecords
<1>5. CASE load_fails
  <2>1. UNCHANGED pagingVars /\ loaded' = loaded /\ ld' = NoLoad
    BY <1>5 DEF load_fails
  <2> QED
    BY <2>1, Unchanged DEF LdTypes, LoadRecords
<1>6. CASE load_done
  <2>1. /\ Loading /\ UNCHANGED pagingVars /\ loaded' = loaded \cup {ld.img} /\ ld' = NoLoad
    BY <1>6 DEF load_done
  <2>2. ld.img \in Images
    BY <2>1 DEF LdTypes, LoadRecords, Loading, NoLoad
  <2> QED
    BY <2>1, <2>2, Unchanged DEF LdTypes, LoadRecords
<1>7. CASE paging_map_page /\ UNCHANGED <<ld, loaded>>
  BY <1>7, MapStepSound DEF LdTypes, LoadRecords
<1>8. ASSUME NEW v \in HeapPages, UNCHANGED ld, loaded' = Untouched(v),
             heap_map_more(v) \/ paging_unmap_page(v)
      PROVE  PagingInv' /\ LdTypes'
  <2>1. v \in VirtPages
    BY HeapIsHigh
  <2>2. LdTypes'
    BY <1>8 DEF LdTypes, LoadRecords, Untouched
  <2>3. PagingInv'
    BY <1>8, <2>1, HeapMapSound, UnmapSound
  <2> QED
    BY <2>2, <2>3
<1>9. CASE UNCHANGED vars
  <2>1. UNCHANGED pagingVars /\ UNCHANGED <<ld, loaded>>
    BY <1>9 DEF vars
  <2> QED
    BY <2>1, Unchanged DEF LdTypes, LoadRecords
<1> QED
  BY <1>1, <1>2, <1>3, <1>4, <1>5, <1>6, <1>7, <1>8, <1>9, <1>10 DEF Next

(* The invariant holds in every state of the loaders and the tables. *)
LEMMA InvariantHolds == Spec => [](PagingInv /\ LdTypes)
<1>1. Init => PagingInv /\ LdTypes
  BY InitSound DEF Init, LdTypes
<1>2. PagingInv /\ LdTypes /\ [Next]_vars => PagingInv' /\ LdTypes'
  BY StepSound
<1> QED
  BY <1>1, <1>2, PTL DEF Spec

(* In every step of walk, table_alloc and paging_map_page, however deep    *)
(* they are nested, the tables are pages that the boot mapping reaches, so *)
(* that no pointer to a table faults, and the nesting ends at such a page. *)
THEOREM TablesAreSound == Spec => []TablesSound
<1>1. PagingInv => TablesSound
  BY InvariantIsSound
<1> QED
  BY <1>1, InvariantHolds, PTL

(* walk and table_alloc lose no page and share none with the clients of    *)
(* the page allocator, in any state of a nested call.                      *)
THEOREM PagesAreAccountedFor == Spec => []PagesAccounted
<1>1. PagingInv => PagesAccounted
  BY InvariantIsSound
<1> QED
  BY <1>1, InvariantHolds, PTL

(* The page tables keep what paging.h promises its callers: one map or     *)
(* unmap changes the translation of one page, and a page is mapped only    *)
(* where nothing else maps it, however many tables that takes.             *)
THEOREM TablesImplementAddressSpace == Spec => ImplementsAddressSpace
<1>1. Init => AddressSpaceSpec!Init
  <2> SUFFICES ASSUME Init PROVE AddressSpaceSpec!Init
    OBVIOUS
  <2>1. \A v \in VirtPages : paging_virt_to_phys(v) = Zero
    BY InitSound, Walks DEF Init
  <2> QED
    BY <2>1 DEF AddressSpaceSpec!Init, space
<1>2. PagingInv /\ LdTypes /\ [Next]_vars => [AddressSpaceSpec!Next]_space
  <2> SUFFICES ASSUME PagingInv, LdTypes, [Next]_vars PROVE [AddressSpaceSpec!Next]_space
    OBVIOUS
  <2>1. /\ space = [v \in VirtPages |-> At(mem, v, 0)]
        /\ space' = [v \in VirtPages |-> At(mem', v, 0)]
    <3>1. \A v \in VirtPages : paging_virt_to_phys(v) = At(mem, v, 0)
      BY Walks
    <3>2. \A v \in VirtPages : paging_virt_to_phys(v)' = At(mem', v, 0)
      BY WalksNext
    <3> QED
      BY <3>1, <3>2 DEF space
  <2>2. ASSUME \A u \in VirtPages : At(mem', u, 0) = At(mem, u, 0)
        PROVE  [AddressSpaceSpec!Next]_space
    BY <2>1, <2>2
  <2>3. ASSUME mem' = mem PROVE [AddressSpaceSpec!Next]_space
    BY <2>2, <2>3
  <2>4. CASE load_page
    BY <2>2, <2>4, LoadPageSound
  <2>5. CASE load_fault
    BY <2>3, <2>5, LoadFaultSound
  <2>6. CASE paging_map_page
    <3>1. Quiet /\ calls # <<>>
      BY <2>6, MapStepSound
    <3>2. CASE \A u \in VirtPages : At(mem, u, 0)' = At(mem, u, 0)
      BY <2>2, <3>2
    <3>3. CASE \A u \in VirtPages :
                 At(mem, u, 0)' = IF u = calls[1].virt THEN calls[1].phys ELSE At(mem, u, 0)
      <4>1. OuterOK /\ owned \subseteq Frames
        <5>1. Len(calls) > 0
          BY <3>1, TopOfStack DEF PagingInv
        <5> QED
          BY <5>1 DEF PagingInv, Types
      <4>2. /\ calls[1].virt \in VirtPages /\ calls[1].phys \in Frames
            /\ \A u \in VirtPages : At(mem, u, 0) # calls[1].phys
        BY <4>1 DEF OuterOK
      <4>3. \A u \in VirtPages : space[u] # calls[1].phys
        BY <2>1, <4>2
      <4>4. space' = [space EXCEPT ![calls[1].virt] = calls[1].phys]
        BY <2>1, <3>3
      <4>5. AddressSpaceSpec!Map(calls[1].virt, calls[1].phys)
        BY <4>3, <4>4 DEF AddressSpaceSpec!Map
      <4> QED
        BY <4>2, <4>5 DEF AddressSpaceSpec!Next
    <3> QED
      BY <3>1, <3>2, <3>3 DEF Quiet
  <2>7. ASSUME NEW v \in HeapPages, paging_unmap_page(v) PROVE [AddressSpaceSpec!Next]_space
    <3>1. v \in VirtPages
      BY HeapIsHigh
    <3>2. \A u \in VirtPages : At(mem', u, 0) = IF u = v THEN Zero ELSE At(mem, u, 0)
      BY <2>7, <3>1, UnmapSound
    <3>3. space' = [space EXCEPT ![v] = Zero]
      BY <2>1, <3>2
    <3> QED
      BY <3>1, <3>3 DEF AddressSpaceSpec!Next, AddressSpaceSpec!Unmap
  <2>8. ASSUME NEW v \in HeapPages, heap_map_more(v) PROVE [AddressSpaceSpec!Next]_space
    BY <2>3, <2>8 DEF heap_map_more
  <2>9. CASE (\E img \in Images : load(img)) \/ next_section \/ load_fails \/ load_done
    BY <2>3, <2>9 DEF load, next_section, load_fails, load_done, pagingVars
  <2>10. CASE UNCHANGED vars
    BY <2>3, <2>10 DEF vars, pagingVars
  <2>11. CASE load_lost \/ heap_lost
    BY <2>3, <2>11 DEF load_lost, heap_lost
  <2> QED
    BY <2>4, <2>5, <2>6, <2>7, <2>8, <2>9, <2>10, <2>11 DEF Next
<1> QED
  BY <1>1, <1>2, InvariantHolds, PTL DEF Spec, ImplementsAddressSpace, AddressSpaceSpec!Spec

-----------------------------------------------------------------------------
(* Loaded images *)

(* Page q holds page j of a section. *)
Holds(img, s, j, q) ==
    \A i \in Words :
        LET k == j * Fanout + i
        IN k < img.sects[s].memsz =>
             IF k < img.sects[s].filesz THEN mem[q][i] = FileWord(img.sects[s].file_off + k)
             ELSE img.kind = "mira" => mem[q][i] = Zero

(* Page j of a section is in memory. *)
InPlace(img, s, j) ==
    /\ PageAt(img, s, j) \in VirtPages
    /\ At(mem, PageAt(img, s, j), 0) \in owned
    /\ Holds(img, s, j, At(mem, PageAt(img, s, j), 0))

(* Page j of section s gives way to a later one before page n of sec. *)
ReplacedBy(img, s, j, sec, n) ==
    \E r \in 1..Len(img.sects) : \E i \in Nat :
        /\ Takes(img, r) /\ PageIn(img, r, i)
        /\ Before(s, j, r, i) /\ Before(r, i, sec, n)
        /\ PageAt(img, r, i) = PageAt(img, s, j)

(* Every page before page n of sec is in place or replaced. *)
Settled(img, sec, n) ==
    \A s \in 1..Len(img.sects) : \A j \in Nat :
        Takes(img, s) /\ PageIn(img, s, j) /\ Before(s, j, sec, n) =>
            InPlace(img, s, j) \/ ReplacedBy(img, s, j, sec, n)

(* What is behind the loader is settled; the page that is being mapped is  *)
(* filled.                                                                 *)
LoadInv(c) ==
    IF calls = <<>> THEN Settled(c.img, c.sec, c.j)
    ELSE /\ c.j > 0 /\ c.sec \in 1..Len(c.img.sects)
         /\ Takes(c.img, c.sec) /\ PageIn(c.img, c.sec, c.j - 1)
         /\ calls[1].virt = PageAt(c.img, c.sec, c.j - 1)
         /\ Holds(c.img, c.sec, c.j - 1, calls[1].phys)
         /\ Settled(c.img, c.sec, c.j - 1)

(* What is loaded is settled as a whole, and not being mapped over. *)
ImageInv ==
    /\ \A img \in loaded :
          /\ Settled(img, Len(img.sects) + 1, 0)
          /\ calls # <<>> => calls[1].virt \notin PagesOf(img)
    /\ \A c \in LoadRecords : ld = c => LoadInv(c)

(* A page keeps what it holds when it is not written. *)
LEMMA HoldsKept ==
    ASSUME NEW img, NEW s, NEW j, NEW q, Holds(img, s, j, q), mem'[q] = mem[q]
    PROVE  Holds(img, s, j, q)'
  BY DEF Holds

(* A page in place stays so when no client's page is written and its       *)
(* translation does not change.                                            *)
LEMMA StaysInPlace ==
    ASSUME NEW img, NEW s, NEW j, InPlace(img, s, j), owned \subseteq owned',
           \A q \in owned : mem'[q] = mem[q],
           At(mem', PageAt(img, s, j), 0) = At(mem, PageAt(img, s, j), 0)
    PROVE  InPlace(img, s, j)'
<1> DEFINE q == At(mem, PageAt(img, s, j), 0)
<1>1. q \in owned /\ Holds(img, s, j, q) /\ PageAt(img, s, j) \in VirtPages
  BY DEF InPlace
<1>2. At(mem', PageAt(img, s, j), 0) = q
  OBVIOUS
<1> HIDE DEF q
<1>3. mem'[q] = mem[q] /\ q \in owned'
  BY <1>1
<1>4. \A i \in Words :
        LET k == j * Fanout + i
        IN k < img.sects[s].memsz =>
             IF k < img.sects[s].filesz THEN mem'[q][i] = FileWord(img.sects[s].file_off + k)
             ELSE img.kind = "mira" => mem'[q][i] = Zero
  BY <1>1, <1>3 DEF Holds
<1> QED
  BY <1>1, <1>2, <1>3, <1>4 DEF InPlace, Holds

(* So what is settled stays so while the pages of the image keep their     *)
(* translation.                                                            *)
LEMMA SettledKept ==
    ASSUME NEW img \in Images, NEW sec, NEW n, Settled(img, sec, n),
           owned \subseteq owned', \A q \in owned : mem'[q] = mem[q],
           \A u \in VirtPages : u \in PagesOf(img) => At(mem', u, 0) = At(mem, u, 0)
    PROVE  Settled(img, sec, n)'
<1>1. ASSUME NEW s \in 1..Len(img.sects), NEW j \in Nat,
             Takes(img, s), PageIn(img, s, j), Before(s, j, sec, n)
      PROVE  InPlace(img, s, j)' \/ ReplacedBy(img, s, j, sec, n)
  <2>1. InPlace(img, s, j) \/ ReplacedBy(img, s, j, sec, n)
    BY <1>1 DEF Settled
  <2>2. ASSUME InPlace(img, s, j) PROVE InPlace(img, s, j)'
    <3>1. PageAt(img, s, j) \in PagesOf(img) /\ PageAt(img, s, j) \in VirtPages
      BY <1>1, <2>2, SectionPages DEF InPlace
    <3>2. At(mem', PageAt(img, s, j), 0) = At(mem, PageAt(img, s, j), 0)
      BY <3>1
    <3> QED
      BY <2>2, <3>2, StaysInPlace
  <2> QED
    BY <2>1, <2>2
<1> QED
  BY <1>1 DEF Settled

(* Settled before one page is settled before another when the same pages   *)
(* are before both.                                                        *)
LEMMA SettledTo ==
    ASSUME NEW img, NEW sec, NEW n, NEW sec2, NEW n2, Settled(img, sec, n),
           \A s \in 1..Len(img.sects) : \A j \in Nat :
              Takes(img, s) /\ PageIn(img, s, j) =>
                 (Before(s, j, sec, n) <=> Before(s, j, sec2, n2))
    PROVE  Settled(img, sec2, n2)
<1>1. ASSUME NEW s \in 1..Len(img.sects), NEW j \in Nat,
             Takes(img, s), PageIn(img, s, j), Before(s, j, sec2, n2)
      PROVE  InPlace(img, s, j) \/ ReplacedBy(img, s, j, sec2, n2)
  <2>1. InPlace(img, s, j) \/ ReplacedBy(img, s, j, sec, n)
    BY <1>1 DEF Settled
  <2>2. ASSUME ReplacedBy(img, s, j, sec, n) PROVE ReplacedBy(img, s, j, sec2, n2)
    <3>1. PICK r \in 1..Len(img.sects), i \in Nat :
             /\ Takes(img, r) /\ PageIn(img, r, i)
             /\ Before(s, j, r, i) /\ Before(r, i, sec, n)
             /\ PageAt(img, r, i) = PageAt(img, s, j)
      BY <2>2 DEF ReplacedBy
    <3>2. Before(r, i, sec2, n2)
      BY <3>1
    <3> QED
      BY <3>1, <3>2 DEF ReplacedBy
  <2> QED
    BY <2>1, <2>2
<1> QED
  BY <1>1 DEF Settled

(* The page after a settled part is mapped: it replaces the earlier pages  *)
(* at its address, and the others stay.                                    *)
LEMMA SettledNext ==
    ASSUME NEW img \in Images, NEW sec \in 1..Len(img.sects), NEW n \in Nat, n > 0,
           Settled(img, sec, n - 1), Takes(img, sec), PageIn(img, sec, n - 1),
           owned \subseteq owned', \A q \in owned : mem'[q] = mem[q],
           \A u \in VirtPages : u # PageAt(img, sec, n - 1) => At(mem', u, 0) = At(mem, u, 0),
           InPlace(img, sec, n - 1)'
    PROVE  Settled(img, sec, n)'
<1>1. n - 1 \in Nat /\ n - 1 < n
  OBVIOUS
<1>2. Len(img.sects) \in Nat /\ sec \in Nat
  BY LoaderAssumption
<1>3. ASSUME NEW s \in 1..Len(img.sects), NEW j \in Nat,
             Takes(img, s), PageIn(img, s, j), Before(s, j, sec, n)
      PROVE  InPlace(img, s, j)' \/ ReplacedBy(img, s, j, sec, n)
  <2>1. CASE s = sec /\ j = n - 1
    BY <2>1
  <2>2. CASE ~(s = sec /\ j = n - 1)
    <3>1. Before(s, j, sec, n - 1)
      BY <1>2, <1>3, <2>2 DEF Before
    <3>2. CASE PageAt(img, s, j) = PageAt(img, sec, n - 1)
      <4>1. Before(sec, n - 1, sec, n)
        BY <1>1 DEF Before
      <4> QED
        BY <1>1, <3>1, <3>2, <4>1 DEF ReplacedBy
    <3>3. CASE PageAt(img, s, j) # PageAt(img, sec, n - 1) /\ InPlace(img, s, j)
      <4>1. At(mem', PageAt(img, s, j), 0) = At(mem, PageAt(img, s, j), 0)
        BY <3>3 DEF InPlace
      <4> QED
        BY <3>3, <4>1, StaysInPlace
    <3>4. CASE ReplacedBy(img, s, j, sec, n - 1)
      <4>1. PICK r \in 1..Len(img.sects), i \in Nat :
               /\ Takes(img, r) /\ PageIn(img, r, i)
               /\ Before(s, j, r, i) /\ Before(r, i, sec, n - 1)
               /\ PageAt(img, r, i) = PageAt(img, s, j)
        BY <3>4 DEF ReplacedBy
      <4>2. Before(r, i, sec, n)
        BY <1>1, <4>1 DEF Before
      <4> QED
        BY <4>1, <4>2 DEF ReplacedBy
    <3> QED
      BY <1>3, <3>1, <3>2, <3>3, <3>4 DEF Settled
  <2> QED
    BY <2>1, <2>2
<1> QED
  BY <1>3 DEF Settled

(* Adding whole pages to an address. *)
LEMMA PageOffset ==
    ASSUME NEW x \in Nat, NEW k \in Nat, NEW n \in Nat \ {0}
    PROVE  /\ x * n + k \in Nat
           /\ (x * n + k) \div n = x + (k \div n)
           /\ (x * n + k) % n = k % n
<1> DEFINE d == k \div n
           r == k % n
           a == x * n + k
<1>1. d \in Nat /\ r \in 0..(n - 1) /\ k = n * d + r
  BY DivMod
<1> HIDE DEF d, r
<1>2. x * n \in Nat /\ a \in Nat
  BY Products
<1>3. (x + d) * n = x * n + n * d /\ ((x + d) + 1) * n = (x + d) * n + n /\ n * d \in Nat
  <2>1. (x + d) * n = x * n + n * d
    BY <1>1
  <2> QED
    BY <1>1, <2>1, Products
<1> DEFINE y == x * n
           z == n * d
           w == (x + d) * n
<1>4. /\ y \in Nat /\ z \in Nat /\ w = y + z /\ k = z + r /\ a = y + k
      /\ ((x + d) + 1) * n = w + n
  BY <1>1, <1>2, <1>3
<1>5. x + d \in Nat
  BY <1>1
<1>6. w <= a /\ a < w + n /\ a - w = r
  <2> HIDE DEF y, z, w, a
  <2> QED
    BY <1>1, <1>4
<1>7. a \div n = x + d
  BY <1>2, <1>4, <1>5, <1>6, DivUnique DEF w
<1>8. a % n = r
  <2> DEFINE e == a % n
  <2>1. e \in 0..(n - 1) /\ a = n * (x + d) + e
    BY <1>2, <1>7, DivMod
  <2>2. n * (x + d) = w
    BY <1>5, Products
  <2> HIDE DEF e, a, w
  <2>3. e = r
    BY <1>1, <1>4, <1>6, <2>1, <2>2 DEF y
  <2> QED
    BY <2>3 DEF e, a
<1> QED
  BY <1>2, <1>7, <1>8 DEF d, r

(* An image that is settled is as its file says. *)
LEMMA SettledIsFaithful ==
    ASSUME PagingInv, LdTypes, ImageInv
    PROVE  ImageFaithful
<1> SUFFICES ASSUME NEW img \in loaded, NEW s \in 1..Len(img.sects), Takes(img, s),
                    NEW k \in 0..(img.sects[s].memsz - 1)
             PROVE  Replaced(img, s, k \div Fanout) \/
                    WordAt(img, s, k, (img.sects[s].vaddr \div Fanout) * Fanout + k)
  BY DEF ImageFaithful
<1> DEFINE j == k \div Fanout
           i == k % Fanout
           M == img.sects[s].memsz
           A == img.sects[s].vaddr
           x == A \div Fanout
           q == At(mem, PageAt(img, s, j), 0)
<1>1. img \in Images
  BY DEF LdTypes
<1>2. img.sects \in Seq(SectionRecords) /\ Len(img.sects) \in Nat
  BY <1>1, LoaderAssumption
<1>3. img.sects[s] \in SectionRecords
  BY <1>2
<1>4. M \in Nat /\ A \in Nat
  BY <1>3 DEF SectionRecords
<1>5. k \in Nat /\ k < M /\ Fanout \in Nat \ {0}
  BY <1>4, BootPages
<1>6. j \in Nat /\ i \in 0..(Fanout - 1) /\ k = Fanout * j + i
  BY <1>5, DivMod
<1>7. x \in Nat
  BY <1>4, <1>5, DivMod
<1> HIDE DEF j, i, M, x
<1>8. k = j * Fanout + i /\ j * Fanout < M /\ i \in Words
  <2>1. Fanout * j = j * Fanout /\ j * Fanout \in Nat
    BY <1>5, <1>6, Products
  <2> DEFINE y == j * Fanout
  <2>2. k = y + i /\ y \in Nat /\ i \in Nat
    BY <1>5, <1>6, <2>1
  <2> HIDE DEF y
  <2>3. y < M
    BY <1>4, <1>5, <2>2
  <2> QED
    BY <1>6, <2>2, <2>3 DEF Words, y
<1>9. PageIn(img, s, j)
  BY <1>8 DEF PageIn, M
<1>10. Before(s, j, Len(img.sects) + 1, 0)
  BY <1>2 DEF Before
<1>11. CASE ReplacedBy(img, s, j, Len(img.sects) + 1, 0)
  <2>1. PICK r \in 1..Len(img.sects), e \in Nat :
           /\ Takes(img, r) /\ PageIn(img, r, e)
           /\ Before(s, j, r, e) /\ PageAt(img, r, e) = PageAt(img, s, j)
    BY <1>11 DEF ReplacedBy
  <2>2. e \in 0..img.sects[r].memsz
    BY <1>1, <2>1, SectionPages
  <2>3. Replaced(img, s, j)
    BY <2>1, <2>2 DEF Replaced
  <2> QED
    BY <2>3 DEF j
<1>12. CASE InPlace(img, s, j)
  <2>1. q \in owned /\ Holds(img, s, j, q)
    BY <1>12 DEF InPlace
  <2>2. q \in Pages
    BY <2>1, BootPages DEF PagingInv, Types
  <2>3. /\ (x * Fanout + k) \div Fanout = x + j
        /\ (x * Fanout + k) % Fanout = i
    BY <1>5, <1>7, PageOffset DEF j, i
  <2>4. PageAt(img, s, j) = (x + j) % Top4
    BY DEF PageAt, x
  <2>5. paging_virt_to_phys(((x * Fanout + k) \div Fanout) % Top4) = q
    BY <2>3, <2>4, Walks
  <2> HIDE DEF q
  <2>6. /\ k < img.sects[s].filesz => mem[q][i] = FileWord(img.sects[s].file_off + k)
        /\ ~(k < img.sects[s].filesz) /\ img.kind = "mira" => mem[q][i] = Zero
    BY <1>5, <1>8, <2>1 DEF Holds, M
  <2>7. img.sects[s].filesz \in Nat
    BY <1>3 DEF SectionRecords
  <2>8. k >= img.sects[s].filesz => ~(k < img.sects[s].filesz)
    BY <1>5, <2>7
  <2>9. WordAt(img, s, k, x * Fanout + k)
    BY <2>2, <2>3, <2>5, <2>6, <2>8 DEF WordAt
  <2> QED
    BY <2>9 DEF x
<1> QED
  BY <1>6, <1>9, <1>10, <1>11, <1>12 DEF ImageInv, Settled

(* A loaded image stays settled. *)
LEMMA LoadedKept ==
    ASSUME LdTypes, ImageInv, NEW img \in loaded,
           owned \subseteq owned', \A q \in owned : mem'[q] = mem[q],
           \A u \in VirtPages : u \in PagesOf(img) => At(mem', u, 0) = At(mem, u, 0)
    PROVE  Settled(img, Len(img.sects) + 1, 0)'
<1>1. img \in Images /\ Settled(img, Len(img.sects) + 1, 0)
  BY DEF LdTypes, ImageInv
<1> DEFINE m == Len(img.sects) + 1
<1>2. Settled(img, m, 0)
  BY <1>1
<1> HIDE DEF m
<1>3. Settled(img, m, 0)'
  BY <1>1, <1>2, SettledKept
<1> QED
  BY <1>3 DEF m

(* A step of paging_map_page. *)
LEMMA MapStepImage ==
    ASSUME PagingInv, LdTypes, ImageInv, paging_map_page, UNCHANGED <<ld, loaded>>
    PROVE  ImageInv'
<1>1. Quiet /\ calls # <<>>
  BY MapStepSound
<1>2. OuterOK
  <2>1. Len(calls) > 0
    BY <1>1, TopOfStack DEF PagingInv
  <2> QED
    BY <2>1 DEF PagingInv
<1>3. calls[1].virt \in VirtPages /\ calls[1].phys \in owned
  BY <1>2 DEF OuterOK
<1>4. ld' = ld /\ loaded' = loaded
  OBVIOUS
<1>5. owned' = owned /\ \A q \in owned : mem'[q] = mem[q]
  BY <1>1 DEF Quiet
<1>6. PICK p : p = calls[1].phys
  OBVIOUS
<1>7. p \in owned /\ mem'[p] = mem[p]
  BY <1>3, <1>5, <1>6
<1>8. ASSUME NEW c \in LoadRecords, ld = c
      PROVE  /\ c.img \in Images /\ c.j \in Nat /\ c.j - 1 \in Nat /\ c.j > 0
             /\ c.sec \in 1..Len(c.img.sects)
             /\ Takes(c.img, c.sec) /\ PageIn(c.img, c.sec, c.j - 1)
             /\ calls[1].virt = PageAt(c.img, c.sec, c.j - 1)
             /\ Settled(c.img, c.sec, c.j - 1)
             /\ Holds(c.img, c.sec, c.j - 1, p)'
  <2>1. LoadInv(c) /\ c.img \in Images /\ c.j \in Nat
    BY <1>8 DEF ImageInv, LoadRecords
  <2>2. /\ c.j > 0 /\ c.sec \in 1..Len(c.img.sects)
        /\ Takes(c.img, c.sec) /\ PageIn(c.img, c.sec, c.j - 1)
        /\ calls[1].virt = PageAt(c.img, c.sec, c.j - 1)
        /\ Holds(c.img, c.sec, c.j - 1, p)
        /\ Settled(c.img, c.sec, c.j - 1)
    BY <1>1, <1>6, <2>1 DEF LoadInv
  <2>3. Holds(c.img, c.sec, c.j - 1, p)'
    BY <1>7, <2>2, HoldsKept
  <2>4. c.j - 1 \in Nat
    BY <2>1, <2>2
  <2> QED
    BY <2>1, <2>2, <2>3, <2>4
<1>9. CASE /\ \A u \in VirtPages : At(mem, u, 0)' = At(mem, u, 0)
           /\ calls' # <<>> /\ calls'[1].virt = calls[1].virt /\ calls'[1].phys = calls[1].phys
  <2>1. ASSUME NEW img \in loaded
        PROVE  Settled(img, Len(img.sects) + 1, 0)' /\ calls'[1].virt \notin PagesOf(img)
    <3>1. Settled(img, Len(img.sects) + 1, 0)'
      BY <1>5, <1>9, LoadedKept
    <3>2. calls[1].virt \notin PagesOf(img)
      BY <1>1 DEF ImageInv
    <3> QED
      BY <1>9, <3>1, <3>2
  <2>2. ASSUME NEW c \in LoadRecords, ld' = c PROVE LoadInv(c)'
    <3>1. /\ c.img \in Images /\ c.j > 0 /\ c.sec \in 1..Len(c.img.sects)
          /\ Takes(c.img, c.sec) /\ PageIn(c.img, c.sec, c.j - 1)
          /\ calls[1].virt = PageAt(c.img, c.sec, c.j - 1)
          /\ Settled(c.img, c.sec, c.j - 1) /\ Holds(c.img, c.sec, c.j - 1, p)'
      BY <1>4, <1>8, <2>2
    <3>2. Settled(c.img, c.sec, c.j - 1)'
      BY <1>5, <1>9, <3>1, SettledKept
    <3>3. Holds(c.img, c.sec, c.j - 1, calls[1].phys)'
      BY <1>6, <1>9, <3>1 DEF Holds
    <3> QED
      BY <1>9, <3>1, <3>2, <3>3 DEF LoadInv
  <2> QED
    BY <1>4, <2>1, <2>2 DEF ImageInv
<1>10. CASE /\ \A u \in VirtPages :
                 At(mem, u, 0)' = IF u = calls[1].virt THEN calls[1].phys ELSE At(mem, u, 0)
            /\ calls' = <<>>
  <2>1. ASSUME NEW img \in loaded PROVE Settled(img, Len(img.sects) + 1, 0)'
    <3>1. calls[1].virt \notin PagesOf(img)
      BY <1>1 DEF ImageInv
    <3>2. \A u \in VirtPages : u \in PagesOf(img) => At(mem', u, 0) = At(mem, u, 0)
      BY <1>10, <3>1
    <3> QED
      BY <1>5, <3>2, LoadedKept
  <2>2. ASSUME NEW c \in LoadRecords, ld' = c PROVE LoadInv(c)'
    <3>1. /\ c.img \in Images /\ c.j \in Nat /\ c.j - 1 \in Nat /\ c.j > 0
          /\ c.sec \in 1..Len(c.img.sects)
          /\ Takes(c.img, c.sec) /\ PageIn(c.img, c.sec, c.j - 1)
          /\ calls[1].virt = PageAt(c.img, c.sec, c.j - 1)
          /\ Settled(c.img, c.sec, c.j - 1) /\ Holds(c.img, c.sec, c.j - 1, p)'
      BY <1>4, <1>8, <2>2
    <3>2. /\ PageAt(c.img, c.sec, c.j - 1) \in VirtPages
          /\ At(mem', PageAt(c.img, c.sec, c.j - 1), 0) = p
      BY <1>3, <1>6, <1>10, <3>1
    <3>3. InPlace(c.img, c.sec, c.j - 1)'
      BY <1>5, <1>7, <3>1, <3>2 DEF InPlace, Holds
    <3>4. \A u \in VirtPages : u # PageAt(c.img, c.sec, c.j - 1) =>
             At(mem', u, 0) = At(mem, u, 0)
      BY <1>10, <3>1
    <3>5. Settled(c.img, c.sec, c.j)'
      BY <1>5, <3>1, <3>3, <3>4, SettledNext
    <3> QED
      BY <1>10, <3>5 DEF LoadInv
  <2> QED
    BY <1>4, <1>10, <2>1, <2>2 DEF ImageInv
<1> QED
  BY <1>1, <1>9, <1>10 DEF Quiet

(* The loader fills a page and calls paging_map_page for it. *)
LEMMA LoadPageImage ==
    ASSUME PagingInv, LdTypes, ImageInv, load_page
    PROVE  ImageInv'
<1>1. /\ Loading /\ PageLeft /\ calls = <<>> /\ loaded' = Untouched(Target)
      /\ ld' = [ld EXCEPT !.j = ld.j + 1]
  BY DEF load_page, Loading
<1>2. PICK p : p = Min(free)
  OBVIOUS
<1>3. /\ \A u \in VirtPages : At(mem', u, 0) = At(mem, u, 0)
      /\ \A q \in owned : mem'[q] = mem[q]
      /\ owned \subseteq owned' /\ calls' = <<Frame(Target, p)>>
      /\ mem'[p] = Filled(p)
  BY <1>2, LoadPageSound
<1>4. calls' # <<>> /\ calls'[1].virt = Target /\ calls'[1].phys = p
  <2>1. calls'[1] = Frame(Target, p) /\ calls' # <<>>
    BY <1>3
  <2> QED
    BY <2>1 DEF Frame
<1>5. PICK c \in LoadRecords : ld = c
  BY <1>1 DEF LdTypes, Loading, NoLoad
<1>6. /\ Settled(c.img, c.sec, c.j)
      /\ c.img \in Images /\ c.sec \in Nat \ {0} /\ c.j \in Nat
  BY <1>1, <1>5 DEF ImageInv, LoadRecords, LoadInv
<1>7. /\ c.sec \in 1..Len(c.img.sects) /\ Takes(c.img, c.sec) /\ PageIn(c.img, c.sec, c.j)
      /\ Sect = c.img.sects[c.sec] /\ Sect.memsz \in Nat /\ Sect.filesz \in Nat
      /\ c.img.kind \in {"mira", "elf"} /\ Target = PageAt(c.img, c.sec, c.j)
  <2>1. ld.sec <= Len(ld.img.sects)
    BY <1>1 DEF PageLeft
  <2>2. /\ ld.sec \in 1..Len(ld.img.sects) /\ Sect = ld.img.sects[ld.sec]
        /\ Sect.memsz \in Nat /\ Sect.filesz \in Nat /\ ld.img.kind \in {"mira", "elf"}
    BY <1>1, <2>1, SectTypes
  <2>3. Takes(ld.img, ld.sec) /\ PageIn(ld.img, ld.sec, ld.j)
    BY <1>1, PageTypes
  <2> QED
    BY <1>5, <2>2, <2>3 DEF Target
<1>8. Holds(c.img, c.sec, c.j, p)'
  <2>1. ASSUME NEW i \in Words, c.j * Fanout + i < c.img.sects[c.sec].memsz
        PROVE  IF c.j * Fanout + i < c.img.sects[c.sec].filesz
               THEN mem'[p][i] = FileWord(c.img.sects[c.sec].file_off + (c.j * Fanout + i))
               ELSE c.img.kind = "mira" => mem'[p][i] = Zero
    <3> DEFINE k == c.j * Fanout + i
    <3>1. mem'[p][i] = IF k < Sect.filesz /\ (c.img.kind = "mira" \/ k < Sect.memsz)
                       THEN FileWord(Sect.file_off + k)
                       ELSE IF c.img.kind = "mira" THEN Zero ELSE mem[p][i]
      BY <1>3, <1>5 DEF Filled, Words
    <3>2. k < Sect.memsz
      BY <1>7, <2>1
    <3> HIDE DEF k
    <3>3. IF k < c.img.sects[c.sec].filesz
          THEN mem'[p][i] = FileWord(c.img.sects[c.sec].file_off + k)
          ELSE c.img.kind = "mira" => mem'[p][i] = Zero
      BY <1>7, <3>1, <3>2
    <3> QED
      BY <3>3 DEF k
  <2> QED
    BY <2>1 DEF Holds
<1>9. ASSUME NEW d \in LoadRecords, ld' = d PROVE LoadInv(d)'
  <2>1. d = [c EXCEPT !.j = c.j + 1]
    BY <1>1, <1>5, <1>9
  <2>2. d.img = c.img /\ d.sec = c.sec /\ d.j = c.j + 1 /\ d.j - 1 = c.j /\ d.j > 0
    BY <1>6, <2>1 DEF LoadRecords
  <2>3. Settled(c.img, c.sec, c.j)'
    BY <1>3, <1>6, SettledKept
  <2>4. Settled(d.img, d.sec, d.j - 1)'
    BY <2>2, <2>3
  <2>5. Holds(d.img, d.sec, d.j - 1, calls[1].phys)'
    BY <1>4, <1>8, <2>2 DEF Holds
  <2> QED
    BY <1>4, <1>7, <2>2, <2>4, <2>5 DEF LoadInv
<1>10. ASSUME NEW img \in loaded'
       PROVE  Settled(img, Len(img.sects) + 1, 0)' /\ calls'[1].virt \notin PagesOf(img)
  <2>1. img \in loaded /\ Target \notin PagesOf(img)
    BY <1>1 DEF Untouched
  <2>2. Settled(img, Len(img.sects) + 1, 0)'
    BY <1>3, <2>1, LoadedKept
  <2> QED
    BY <1>4, <2>1, <2>2
<1> QED
  BY <1>9, <1>10 DEF ImageInv

(* The steps in which nothing is in the middle of being mapped. *)
LEMMA OtherStepsImage ==
    ASSUME PagingInv, LdTypes, ImageInv, UNCHANGED pagingVars,
           (\E img \in Images : load(img)) \/ next_section \/ load_fails \/ load_done
    PROVE  ImageInv'
<1>1. mem' = mem /\ owned' = owned /\ calls' = calls /\ calls = <<>>
  BY DEF pagingVars, load, Idle, next_section, load_fails, load_done, Loading
<1>2. \A img \in loaded : Settled(img, Len(img.sects) + 1, 0)'
  BY <1>1, LoadedKept
<1>3. ASSUME NEW img \in Images, load(img) PROVE ImageInv'
  <2>1. loaded' = loaded
    BY <1>3 DEF load
  <2>2. ASSUME NEW c \in LoadRecords, ld' = c PROVE LoadInv(c)'
    <3>1. ld' # NoLoad
      BY <2>2 DEF LoadRecords, NoLoad
    <3>2. ld' = [phase |-> "load", img |-> img, sec |-> 1, j |-> 0]
      BY <1>3, <3>1 DEF load
    <3>3. c.sec = 1 /\ c.j = 0
      BY <2>2, <3>2
    <3>4. \A s \in 1..Len(c.img.sects) : \A j \in Nat : ~Before(s, j, 1, 0)
      BY DEF Before
    <3>5. Settled(c.img, c.sec, c.j)'
      BY <3>3, <3>4 DEF Settled
    <3> QED
      BY <1>1, <3>5 DEF LoadInv
  <2> QED
    BY <1>1, <1>2, <2>1, <2>2 DEF ImageInv
<1>4. CASE next_section
  <2>1. /\ Loading /\ loaded' = loaded /\ ld.sec <= Len(ld.img.sects)
        /\ Skipped \/ ~PageIn(ld.img, ld.sec, ld.j)
        /\ ld' = [ld EXCEPT !.sec = ld.sec + 1, !.j = 0]
    BY <1>4 DEF next_section
  <2>2. PICK c \in LoadRecords : ld = c
    BY <2>1 DEF LdTypes, Loading, NoLoad
  <2>3. /\ Settled(c.img, c.sec, c.j)
        /\ c.img \in Images /\ c.sec \in Nat \ {0} /\ c.j \in Nat
    BY <1>1, <2>2 DEF ImageInv, LoadRecords, LoadInv
  <2>4. /\ c.sec \in 1..Len(c.img.sects)
        /\ Takes(c.img, c.sec) => ~PageIn(c.img, c.sec, c.j)
        /\ c.img.sects[c.sec].memsz \in Nat
    <3>1. /\ ld.sec \in 1..Len(ld.img.sects) /\ (Takes(ld.img, ld.sec) <=> ~Skipped)
          /\ Sect = ld.img.sects[ld.sec] /\ Sect.memsz \in Nat
      BY <2>1, SectTypes
    <3> QED
      BY <2>1, <2>2, <3>1
  <2>5. ASSUME NEW j \in Nat, Takes(c.img, c.sec), PageIn(c.img, c.sec, j) PROVE j < c.j
    <3> SUFFICES ASSUME c.j <= j PROVE FALSE
      BY <2>3
    <3>1. Fanout \in Nat
      BY BootPages
    <3>2. c.j * Fanout <= j * Fanout /\ c.j * Fanout \in Nat /\ j * Fanout \in Nat
      BY <2>3, <3>1, Products
    <3> DEFINE x == c.j * Fanout
               y == j * Fanout
               M == c.img.sects[c.sec].memsz
    <3>3. x <= y /\ x \in Nat /\ y \in Nat /\ M \in Nat /\ ~(x < M) /\ y < M
      BY <2>4, <2>5, <3>2 DEF PageIn
    <3> HIDE DEF x, y, M
    <3> QED
      BY <3>3
  <2>6. Settled(c.img, c.sec + 1, 0)
    <3>1. ASSUME NEW s \in 1..Len(c.img.sects), NEW j \in Nat,
                 Takes(c.img, s), PageIn(c.img, s, j)
          PROVE  Before(s, j, c.sec, c.j) <=> Before(s, j, c.sec + 1, 0)
      <4>1. s = c.sec => j < c.j
        BY <2>5, <3>1
      <4>2. ~(j < 0) /\ s \in Nat /\ c.sec \in Nat
        BY <2>3
      <4> QED
        BY <4>1, <4>2 DEF Before
    <3> QED
      BY <2>3, <3>1, SettledTo
  <2>7. ASSUME NEW d \in LoadRecords, ld' = d PROVE LoadInv(d)'
    <3>1. d.img = c.img /\ d.sec = c.sec + 1 /\ d.j = 0
      <4>1. d = [c EXCEPT !.sec = c.sec + 1, !.j = 0]
        BY <2>1, <2>2, <2>7
      <4> QED
        BY <4>1 DEF LoadRecords
    <3>2. Settled(d.img, d.sec, d.j)
      BY <2>6, <3>1
    <3>3. d.img \in Images
      BY DEF LoadRecords
    <3>4. Settled(d.img, d.sec, d.j)'
      BY <1>1, <3>2, <3>3, SettledKept
    <3> QED
      BY <1>1, <3>4 DEF LoadInv
  <2> QED
    BY <1>1, <1>2, <2>1, <2>7 DEF ImageInv
<1>5. CASE load_fails
  <2>1. loaded' = loaded /\ ld' = NoLoad
    BY <1>5 DEF load_fails
  <2>2. \A c \in LoadRecords : ld' # c
    BY <2>1 DEF LoadRecords, NoLoad
  <2> QED
    BY <1>1, <1>2, <2>1, <2>2 DEF ImageInv
<1>6. CASE load_done
  <2>1. /\ Loading /\ loaded' = loaded \cup {ld.img} /\ ld' = NoLoad
        /\ ld.sec > Len(ld.img.sects)
    BY <1>6 DEF load_done
  <2>2. PICK c \in LoadRecords : ld = c
    BY <2>1 DEF LdTypes, Loading, NoLoad
  <2>3. Settled(c.img, c.sec, c.j) /\ c.img \in Images /\ c.sec \in Nat
    BY <1>1, <2>2 DEF ImageInv, LoadRecords, LoadInv
  <2>4. Settled(c.img, Len(c.img.sects) + 1, 0)
    <3>1. Len(c.img.sects) \in Nat /\ c.sec > Len(c.img.sects)
      BY <2>1, <2>2, <2>3, LoaderAssumption
    <3>2. ASSUME NEW s \in 1..Len(c.img.sects), NEW j \in Nat
          PROVE  Before(s, j, c.sec, c.j) <=> Before(s, j, Len(c.img.sects) + 1, 0)
      BY <2>3, <3>1 DEF Before
    <3> QED
      BY <2>3, <3>2, SettledTo
  <2>5. Settled(c.img, Len(c.img.sects) + 1, 0)'
    <3> DEFINE m == Len(c.img.sects) + 1
    <3>1. Settled(c.img, m, 0)
      BY <2>4
    <3> HIDE DEF m
    <3>2. Settled(c.img, m, 0)'
      BY <1>1, <2>3, <3>1, SettledKept
    <3> QED
      BY <3>2 DEF m
  <2>6. \A c1 \in LoadRecords : ld' # c1
    BY <2>1 DEF LoadRecords, NoLoad
  <2>7. \A img \in loaded' : Settled(img, Len(img.sects) + 1, 0)'
    BY <1>2, <2>1, <2>2, <2>5
  <2> QED
    BY <1>1, <2>6, <2>7 DEF ImageInv
<1> QED
  BY <1>3, <1>4, <1>5, <1>6

(* Every step of the loaders, the page tables and the heap keeps what is   *)
(* loaded in place.                                                        *)
LEMMA ImageStep ==
    ASSUME PagingInv, LdTypes, ImageInv, [Next]_vars
    PROVE  ImageInv'
<1>1. ASSUME mem' = mem, owned \subseteq owned', loaded' = loaded, ld' = ld, calls' = calls
      PROVE  ImageInv'
  <2>1. ASSUME NEW img \in loaded'
        PROVE  /\ Settled(img, Len(img.sects) + 1, 0)'
               /\ calls' # <<>> => calls'[1].virt \notin PagesOf(img)
    <3>1. Settled(img, Len(img.sects) + 1, 0)'
      BY <1>1, LoadedKept
    <3> QED
      BY <1>1, <3>1 DEF ImageInv
  <2>2. ASSUME NEW c \in LoadRecords, ld' = c PROVE LoadInv(c)'
    <3>1. LoadInv(c) /\ c.img \in Images
      BY <1>1, <2>2 DEF ImageInv, LoadRecords
    <3>2. \A n : Settled(c.img, c.sec, n) => Settled(c.img, c.sec, n)'
      BY <1>1, <3>1, SettledKept
    <3>3. calls # <<>> => Holds(c.img, c.sec, c.j - 1, calls[1].phys)'
      BY <1>1, <3>1 DEF LoadInv, Holds
    <3> QED
      BY <1>1, <3>1, <3>2, <3>3 DEF LoadInv
  <2> QED
    BY <2>1, <2>2 DEF ImageInv
<1>2. CASE load_page
  BY <1>2, LoadPageImage
<1>3. CASE load_fault
  BY <1>1, <1>3, LoadFaultSound DEF load_fault
<1>4. CASE (\E img \in Images : load(img)) \/ next_section \/ load_fails \/ load_done
  <2>1. UNCHANGED pagingVars
    BY <1>4 DEF load, next_section, load_fails, load_done
  <2> QED
    BY <1>4, <2>1, OtherStepsImage
<1>5. CASE paging_map_page /\ UNCHANGED <<ld, loaded>>
  BY <1>5, MapStepImage
<1>6. ASSUME NEW v \in HeapPages, Idle, UNCHANGED ld, loaded' = Untouched(v),
             heap_map_more(v) \/ paging_unmap_page(v)
      PROVE  ImageInv'
  <2>1. v \in VirtPages
    BY HeapIsHigh
  <2>2. \A c \in LoadRecords : ld' # c
    BY <1>6 DEF Idle, LoadRecords
  <2>3. \A img \in loaded' : img \in loaded /\ v \notin PagesOf(img)
    BY <1>6 DEF Untouched
  <2>4. CASE heap_map_more(v)
    <3>1. mem' = mem /\ owned \subseteq owned' /\ calls' = <<Frame(v, Min(free))>>
      BY <2>1, <2>4, HeapMapSound
    <3>2. \A img \in loaded' : Settled(img, Len(img.sects) + 1, 0)'
      BY <2>3, <3>1, LoadedKept
    <3>3. calls'[1].virt = v
      BY <3>1 DEF Frame
    <3> QED
      BY <2>2, <2>3, <3>2, <3>3 DEF ImageInv
  <2>5. CASE paging_unmap_page(v)
    <3>1. /\ \A u \in VirtPages : At(mem', u, 0) = IF u = v THEN Zero ELSE At(mem, u, 0)
          /\ \A q \in owned : mem'[q] = mem[q]
      BY <2>1, <2>5, UnmapSound
    <3>2. owned' = owned /\ calls' = <<>>
      BY <2>5 DEF paging_unmap_page
    <3>3. ASSUME NEW img \in loaded' PROVE Settled(img, Len(img.sects) + 1, 0)'
      <4>1. \A u \in VirtPages : u \in PagesOf(img) => At(mem', u, 0) = At(mem, u, 0)
        BY <2>3, <3>1
      <4> QED
        BY <2>3, <3>1, <3>2, <4>1, LoadedKept
    <3> QED
      BY <2>2, <3>2, <3>3 DEF ImageInv
  <2> QED
    BY <1>6, <2>4, <2>5
<1>7. CASE load_lost \/ (heap_lost /\ UNCHANGED <<ld, loaded>>) \/ UNCHANGED vars
  BY <1>1, <1>7 DEF load_lost, heap_lost, vars, pagingVars
<1> QED
  BY <1>2, <1>3, <1>4, <1>5, <1>6, <1>7 DEF Next

(* Every word of a loaded image is found behind the start of the page that *)
(* its section's address lies in, and a mira section is zero behind what   *)
(* the file gives, whatever elf_load, mira_load and the heap have mapped   *)
(* elsewhere since.                                                        *)
THEOREM ImagesStayFaithful == Spec => []ImageFaithful
<1>1. Init => ImageInv
  <2> SUFFICES ASSUME Init PROVE ImageInv
    OBVIOUS
  <2>1. loaded = {} /\ ld = NoLoad
    BY DEF Init
  <2>2. \A c \in LoadRecords : ld # c
    BY <2>1 DEF LoadRecords, NoLoad
  <2> QED
    BY <2>1, <2>2 DEF ImageInv
<1>2. PagingInv /\ LdTypes /\ ImageInv /\ [Next]_vars => ImageInv'
  BY ImageStep
<1>3. PagingInv /\ LdTypes /\ ImageInv => ImageFaithful
  BY SettledIsFaithful
<1>4. Spec => [](PagingInv /\ LdTypes)
  BY InvariantHolds
<1> QED
  BY <1>1, <1>2, <1>3, <1>4, PTL DEF Spec
=============================================================================
