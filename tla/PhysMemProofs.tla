---------------------------- MODULE PhysMemProofs ----------------------------
(***************************************************************************)
(* Proofs that the page allocator of src/kernel/mem.c keeps its invariants *)
(* for every machine: any page size, any memory map that fits the bitmap,  *)
(* any placement of the bitmap.                                            *)
(***************************************************************************)
EXTENDS PhysMem, FiniteSetTheorems, SequenceTheorems, TLAPS

(* What makes the invariants inductive: no page is out before pmm_init has *)
(* returned, and from then on every reserved page has its bit set.         *)
BootOrder ==
    /\ ~Booted => held = {}
    /\ Booted => Reserved \subseteq page_bitmap

(* The inductive invariant of the page allocator. *)
IInv ==
    /\ TypeOK
    /\ BootOrder
    /\ HeldPagesSafe
    /\ Accounting
    /\ FreeCountCovers

(* The bitmap of MAX_PHYS_PAGES bits is finite, and so are its subsets.    *)
LEMMA PagesFinite ==
    /\ IsFiniteSet(Pages)
    /\ \A S \in SUBSET Pages : IsFiniteSet(S) /\ Cardinality(S) \in Nat
<1>1. IsFiniteSet(Pages)
  BY FS_Interval, PhysMemAssumption DEF Pages
<1> QED
  BY <1>1, FS_Subset, FS_CardinalityType

(* A usable entry of the memory map adds at most its own number of pages   *)
(* to the clear bits.                                                      *)
LEMMA ClearGrowth ==
    ASSUME NEW S \in SUBSET Pages, NEW T \in SUBSET Pages
    PROVE  Cardinality(Pages \ (S \ T)) <= Cardinality(Pages \ S) + Cardinality(T)
<1>1. Pages \ (S \ T) = (Pages \ S) \cup T
  OBVIOUS
<1>2. IsFiniteSet(Pages \ S) /\ IsFiniteSet(T) /\ (Pages \ S) \cap T \in SUBSET Pages
  BY PagesFinite
<1>3. Cardinality((Pages \ S) \cup T) =
        Cardinality(Pages \ S) + Cardinality(T) - Cardinality((Pages \ S) \cap T)
  BY <1>2, FS_Union
<1>4. /\ Cardinality(Pages \ S) \in Nat
      /\ Cardinality(T) \in Nat
      /\ Cardinality((Pages \ S) \cap T) \in Nat
  BY <1>2, PagesFinite
<1>5. Cardinality(Pages \ (S \ T)) = Cardinality((Pages \ S) \cup T)
  BY <1>1
<1> HIDE DEF Pages
<1> QED
  BY <1>3, <1>4, <1>5, SMT

(* The state pmm_init starts from satisfies the inductive invariant. *)
LEMMA InitIInv == Init => IInv
<1> SUFFICES ASSUME Init PROVE IInv
  OBVIOUS
<1>1. Len(MemMap) \in Nat
  BY PhysMemAssumption
<1>2. TypeOK
  BY <1>1 DEF Init, TypeOK
<1>3. BootOrder
  BY <1>1 DEF Init, BootOrder, Booted
<1>4. HeldPagesSafe /\ Accounting
  BY FS_EmptySet DEF Init, HeldPagesSafe, Accounting
<1>5. FreeCountCovers
  <2>1. Clear = {}
    BY DEF Init, Clear
  <2> QED
    BY <2>1, FS_EmptySet DEF Init, FreeCountCovers
<1> QED
  BY <1>2, <1>3, <1>4, <1>5 DEF IInv

(* A step of pmm_init's scan preserves the invariant. *)
LEMMA ScanIInv == IInv /\ ScanEntry => IInv'
<1> SUFFICES ASSUME IInv, ScanEntry PROVE IInv'
  OBVIOUS
<1> DEFINE e == MemMap[boot]
<1>1. Len(MemMap) \in Nat /\ boot \in 1..Len(MemMap) /\ e \in [base : Nat, length : Nat, type : Nat]
  <2>1. Len(MemMap) \in Nat /\ MemMap \in Seq([base : Nat, length : Nat, type : Nat])
    BY PhysMemAssumption
  <2>2. boot \in 1..Len(MemMap)
    BY <2>1 DEF IInv, TypeOK, ScanEntry
  <2>3. MemMap[boot] \in [base : Nat, length : Nat, type : Nat]
    BY <2>1, <2>2, ElementOfSeq
  <2> QED
    BY <2>1, <2>2, <2>3
<1>2. held = {} /\ held' = {} /\ ret' = ret /\ boot' = boot + 1
  BY <1>1 DEF IInv, BootOrder, Booted, ScanEntry, TypeOK
<1>3. ~Booted'
  BY <1>1, <1>2 DEF Booted
<1>4. BootOrder' /\ HeldPagesSafe'
  BY <1>2, <1>3 DEF BootOrder, HeldPagesSafe
<1>5. CASE e.type # 1
  <2>1. UNCHANGED <<page_bitmap, total_pages, free_pages, mem_end>>
    BY <1>5 DEF ScanEntry
  <2>2. TypeOK'
    BY <1>1, <1>2, <2>1 DEF IInv, TypeOK
  <2>3. Accounting' /\ FreeCountCovers'
    BY <1>2, <2>1 DEF IInv, Accounting, FreeCountCovers, Clear
  <2> QED
    BY <1>4, <2>2, <2>3 DEF IInv
<1>6. CASE e.type = 1
  <2> DEFINE T == EntryPages(e)
  <2>1. T \in SUBSET Pages
    BY <1>1, <1>6, PhysMemAssumption
  <2>2. Cardinality(T) \in Nat
    BY <2>1, PagesFinite
  <2>3. /\ page_bitmap' = page_bitmap \ T
        /\ total_pages' = total_pages + Cardinality(T)
        /\ free_pages' = free_pages + Cardinality(T)
        /\ mem_end' = IF e.base + e.length > mem_end THEN e.base + e.length ELSE mem_end
    BY <1>6 DEF ScanEntry
  <2>e. e.base \in Nat /\ e.length \in Nat
    BY <1>1
  <2> HIDE DEF T, e
  <2>4. TypeOK'
    <3>1. mem_end' \in Nat
      BY <2>3, <2>e DEF IInv, TypeOK
    <3>2. boot' \in 1..(Len(MemMap) + 2)
      BY <1>1, <1>2
    <3>3. total_pages' \in Nat /\ free_pages' \in Nat
      BY <2>2, <2>3 DEF IInv, TypeOK
    <3>4. page_bitmap' \subseteq Pages
      BY <2>3 DEF IInv, TypeOK
    <3> QED
      BY <1>2, <3>1, <3>2, <3>3, <3>4 DEF IInv, TypeOK
  <2>5. Accounting'
    <3>1. Cardinality(held) = 0 /\ Cardinality(held') = 0
      BY <1>2, FS_EmptySet
    <3> QED
      BY <2>2, <2>3, <3>1 DEF IInv, TypeOK, Accounting
  <2>6. FreeCountCovers'
    <3>1. page_bitmap \in SUBSET Pages
      BY DEF IInv, TypeOK
    <3>2. Cardinality(Pages \ (page_bitmap \ T)) <= Cardinality(Pages \ page_bitmap) + Cardinality(T)
      BY <2>1, <3>1, ClearGrowth
    <3>3. Cardinality(Pages \ (page_bitmap \ T)) \in Nat /\ Cardinality(Pages \ page_bitmap) \in Nat
      BY PagesFinite
    <3> QED
      BY <2>2, <2>3, <3>2, <3>3 DEF IInv, TypeOK, FreeCountCovers, Clear
  <2> QED
    BY <1>4, <2>4, <2>5, <2>6 DEF IInv
<1> QED
  BY <1>5, <1>6

(* The reservations at the end of pmm_init preserve the invariant. *)
LEMMA ReserveIInv == IInv /\ Reserve => IInv'
<1> SUFFICES ASSUME IInv, Reserve PROVE IInv'
  OBVIOUS
<1>1. Len(MemMap) \in Nat /\ Reserved \subseteq Pages
  BY PhysMemAssumption
<1>2. held = {} /\ held' = {}
  BY <1>1 DEF IInv, BootOrder, Booted, Reserve, TypeOK
<1>3. page_bitmap' = page_bitmap \cup Reserved
  BY DEF Reserve
<1>4. TypeOK'
  BY <1>1, <1>2, <1>3 DEF IInv, TypeOK, Reserve
<1>5. BootOrder' /\ HeldPagesSafe'
  <2>1. Reserved \subseteq page_bitmap'
    BY <1>3
  <2> QED
    BY <1>2, <2>1 DEF BootOrder, HeldPagesSafe
<1>6. Accounting'
  BY <1>2 DEF IInv, Accounting, Reserve
<1>7. FreeCountCovers'
  <2>1. Pages \ (page_bitmap \cup Reserved) \in SUBSET (Pages \ page_bitmap)
    OBVIOUS
  <2>2. IsFiniteSet(Pages \ page_bitmap)
    BY PagesFinite
  <2>3. Cardinality(Pages \ (page_bitmap \cup Reserved)) <= Cardinality(Pages \ page_bitmap)
    BY <2>1, <2>2, FS_Subset
  <2>4. /\ Cardinality(Pages \ (page_bitmap \cup Reserved)) \in Nat
        /\ Cardinality(Pages \ page_bitmap) \in Nat
    BY PagesFinite
  <2> QED
    BY <1>3, <2>3, <2>4 DEF IInv, TypeOK, FreeCountCovers, Clear, Reserve
<1> QED
  BY <1>4, <1>5, <1>6, <1>7 DEF IInv

(* Handing out the lowest candidate preserves the invariant. *)
LEMMA AllocIInv == IInv /\ pmm_alloc_page => IInv'
<1> SUFFICES ASSUME IInv, pmm_alloc_page PROVE IInv'
  OBVIOUS
<1>1. PICK p \in Candidates :
        /\ page_bitmap' = page_bitmap \cup {p}
        /\ free_pages' = free_pages - 1
        /\ ret' = p * PageSize
        /\ held' = held \cup {p}
  BY DEF pmm_alloc_page
<1>2. p \in Pages /\ p \notin page_bitmap /\ p \in Nat
  BY <1>1, PhysMemAssumption DEF Candidates, Clear, Pages
<1>3. /\ Booted /\ Booted' /\ UNCHANGED <<total_pages, mem_end, boot>>
      /\ Reserved \subseteq page_bitmap
  BY DEF pmm_alloc_page, Booted, IInv, BootOrder
<1>4. p \notin held /\ p \notin Reserved
  BY <1>2, <1>3 DEF IInv, HeldPagesSafe
<1>5. BootOrder' /\ HeldPagesSafe'
  BY <1>1, <1>3, <1>4 DEF IInv, BootOrder, HeldPagesSafe
<1>6. /\ Cardinality(Pages \ page_bitmap) \in Nat
      /\ Pages \ (page_bitmap \cup {p}) = (Pages \ page_bitmap) \ {p}
      /\ Cardinality((Pages \ page_bitmap) \ {p}) = Cardinality(Pages \ page_bitmap) - 1
      /\ Cardinality((Pages \ page_bitmap) \ {p}) \in Nat
  BY <1>2, PagesFinite, FS_RemoveElement
<1>7. Cardinality(held) \in Nat /\ Cardinality(held \cup {p}) = Cardinality(held) + 1
  BY <1>4, PagesFinite, FS_AddElement DEF IInv, TypeOK
<1>8. TypeOK'
  <2>1. p * PageSize \in Nat
    BY <1>2, PhysMemAssumption
  <2>2. free_pages - 1 \in Nat
    BY <1>6 DEF IInv, TypeOK, FreeCountCovers, Clear
  <2> QED
    BY <1>1, <1>2, <1>3, <2>1, <2>2 DEF IInv, TypeOK
<1>9. Accounting'
  BY <1>1, <1>3, <1>7 DEF IInv, TypeOK, Accounting
<1>10. FreeCountCovers'
  <2>1. Clear' = Clear \ {p} /\ Cardinality(Clear) \in Nat
    BY <1>1, <1>6 DEF Clear
  <2>2. Cardinality(Clear') = Cardinality(Clear) - 1
    BY <1>6, <2>1 DEF Clear
  <2> QED
    BY <1>1, <2>1, <2>2 DEF IInv, TypeOK, FreeCountCovers
<1> QED
  BY <1>5, <1>8, <1>9, <1>10 DEF IInv

(* Freeing a held page, or a clear one again, preserves the invariant. *)
LEMMA FreeIInv ==
    ASSUME IInv, NEW p \in held \cup Clear, pmm_free_page(p)
    PROVE  IInv'
<1>1. UNCHANGED <<total_pages, mem_end, boot, ret>> /\ Booted
  BY DEF pmm_free_page
<1>2. CASE p \notin page_bitmap
  <2>1. UNCHANGED <<page_bitmap, free_pages, held>>
    BY <1>2 DEF pmm_free_page
  <2> QED
    BY <1>1, <2>1 DEF IInv, TypeOK, BootOrder, Booted, HeldPagesSafe, Accounting,
                      FreeCountCovers, Clear
<1>3. CASE p \in page_bitmap
  <2>1. /\ page_bitmap' = page_bitmap \ {p}
        /\ free_pages' = free_pages + 1
        /\ held' = held \ {p}
    BY <1>3 DEF pmm_free_page
  <2>2. p \in held /\ p \in Pages /\ p \notin Reserved
    BY <1>3 DEF Clear, IInv, TypeOK, HeldPagesSafe
  <2>3. Booted'
    BY <1>1 DEF Booted
  <2>4. Cardinality(held) \in Nat /\ Cardinality(held \ {p}) = Cardinality(held) - 1
    BY <2>2, PagesFinite, FS_RemoveElement DEF IInv, TypeOK
  <2>5. /\ Cardinality(Pages \ page_bitmap) \in Nat
        /\ Pages \ (page_bitmap \ {p}) = (Pages \ page_bitmap) \cup {p}
        /\ Cardinality((Pages \ page_bitmap) \cup {p}) = Cardinality(Pages \ page_bitmap) + 1
    BY <1>3, <2>2, PagesFinite, FS_AddElement
  <2>6. TypeOK'
    BY <1>1, <2>1 DEF IInv, TypeOK
  <2>7. BootOrder' /\ HeldPagesSafe'
    BY <1>1, <2>1, <2>2, <2>3 DEF IInv, BootOrder, HeldPagesSafe
  <2>8. Accounting'
    BY <1>1, <2>1, <2>4 DEF IInv, TypeOK, Accounting
  <2>9. FreeCountCovers'
    <3>1. Clear' = Clear \cup {p} /\ Cardinality(Clear) \in Nat
      BY <2>1, <2>2, <2>5 DEF Clear
    <3>2. Cardinality(Clear') = Cardinality(Clear) + 1
      BY <2>5, <3>1 DEF Clear
    <3> QED
      BY <2>1, <3>1, <3>2 DEF IInv, TypeOK, FreeCountCovers
  <2> QED
    BY <2>6, <2>7, <2>8, <2>9 DEF IInv
<1> QED
  BY <1>2, <1>3

(* Every step of the page allocator preserves the invariant. *)
LEMMA NextIInv == IInv /\ [Next]_vars => IInv'
<1> SUFFICES ASSUME IInv, [Next]_vars PROVE IInv'
  OBVIOUS
<1>1. CASE ScanEntry
  BY <1>1, ScanIInv
<1>2. CASE Reserve
  BY <1>2, ReserveIInv
<1>3. CASE pmm_alloc_page
  BY <1>3, AllocIInv
<1>4. CASE pmm_alloc_fails
  BY <1>4 DEF pmm_alloc_fails, IInv, TypeOK, BootOrder, Booted, HeldPagesSafe, Accounting,
              FreeCountCovers, Clear
<1>5. CASE \E p \in held \cup Clear : pmm_free_page(p)
  BY <1>5, FreeIInv
<1>6. CASE UNCHANGED vars
  BY <1>6 DEF vars, IInv, TypeOK, BootOrder, Booted, HeldPagesSafe, Accounting,
              FreeCountCovers, Clear
<1> QED
  BY <1>1, <1>2, <1>3, <1>4, <1>5, <1>6 DEF Next

(* The inductive invariant holds in every reachable state. *)
THEOREM SpecIInv == Spec => []IInv
  BY InitIInv, NextIInv, PTL DEF Spec

(* mem.c's state keeps its types: no counter ever goes below zero. *)
THEOREM TypeCorrect == Spec => []TypeOK
<1>1. IInv => TypeOK
  BY DEF IInv
<1> QED
  BY <1>1, SpecIInv, PTL

(* A page pmm_alloc_page handed out stays marked in the bitmap, and so is  *)
(* not handed out again, until its holder frees it; no reserved page is    *)
(* ever handed out.                                                        *)
THEOREM HeldPagesAreSafe == Spec => []HeldPagesSafe
<1>1. IInv => HeldPagesSafe
  BY DEF IInv
<1> QED
  BY <1>1, SpecIInv, PTL

(* pmm_total_pages and pmm_free_count differ exactly by the pages that are *)
(* handed out.                                                             *)
THEOREM CountersAccount == Spec => []Accounting
<1>1. IInv => Accounting
  BY DEF IInv
<1> QED
  BY <1>1, SpecIInv, PTL

(* free_pages covers the clear bits, so pmm_alloc_page's decrement never   *)
(* wraps the uint64_t.                                                     *)
THEOREM FreeCountNeverWraps == Spec => []FreeCountCovers
<1>1. IInv => FreeCountCovers
  BY DEF IInv
<1> QED
  BY <1>1, SpecIInv, PTL
=============================================================================
