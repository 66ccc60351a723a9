------------------------------- MODULE PhysMem -------------------------------
(***************************************************************************)
(* The physical page allocator of src/kernel/mem.c: one bit per page, a    *)
(* boot-time scan of the multiboot memory map, first-fit allocation and    *)
(* release of single pages.                                                *)
(*                                                                         *)
(* page_bitmap is kept as the set of pages whose bit is set (in use), so   *)
(* bitmap_set, bitmap_clear and bitmap_test are union, difference and      *)
(* membership.  Addresses are numbers of bytes; PageSize stands for 4096.  *)
(* free_pages is a uint64_t in the code: FreeCountCovers shows that its    *)
(* decrement never starts from zero, so an unbounded integer is faithful.  *)
(***************************************************************************)
EXTENDS Integers, Sequences, FiniteSets

CONSTANTS
    PageSize,      \* bytes per page
    MaxPhysPages,  \* MAX_PHYS_PAGES: the number of bits in page_bitmap
    MemStart,      \* mem_start: allocation never goes below this address
    BitmapBase,    \* the address of page_bitmap itself
    BitmapBytes,   \* sizeof(page_bitmap)
    MemMap         \* the multiboot memory map, as [base, length, type] records

Pages == 0..(MaxPhysPages - 1)

(* The pages of one memory map entry that pmm_init clears: both ends are   *)
(* rounded down.                                                           *)
EntryPages(e) == (e.base \div PageSize)..(((e.base + e.length) \div PageSize) - 1)

(* reserve_region rounds its end up. *)
reserve_region(base, length) ==
    (base \div PageSize)..(((base + length + PageSize - 1) \div PageSize) - 1)

Reserved == reserve_region(0, MemStart) \cup reserve_region(BitmapBase, BitmapBytes)

(* pmm_init does not compare an entry with MAX_PHYS_PAGES (512 MB): the    *)
(* bitmap is only indexed within bounds on machines whose map fits it.     *)
ASSUME PhysMemAssumption ==
    /\ PageSize \in Nat \ {0}
    /\ MaxPhysPages \in Nat \ {0}
    /\ MemStart \in Nat
    /\ BitmapBase \in Nat
    /\ BitmapBytes \in Nat
    /\ MemMap \in Seq([base : Nat, length : Nat, type : Nat])
    /\ Reserved \subseteq Pages
    /\ \A i \in 1..Len(MemMap) : MemMap[i].type = 1 => EntryPages(MemMap[i]) \subseteq Pages

VARIABLES
    page_bitmap,   \* the pages whose bit is set
    total_pages,
    free_pages,
    mem_end,       \* the highest end of a usable entry
    boot,          \* the entry pmm_init looks at next, then the reservation step
    ret,           \* what the last pmm_alloc_page returned, as an address
    held           \* history: the pages handed out and not given back

vars == <<page_bitmap, total_pages, free_pages, mem_end, boot, ret, held>>

Clear == Pages \ page_bitmap

Booted == boot = Len(MemMap) + 2

Init ==
    /\ page_bitmap = Pages
    /\ total_pages = 0
    /\ free_pages = 0
    /\ mem_end = 0
    /\ boot = 1
    /\ ret = 0
    /\ held = {}

(* Mutant: the usable pages of an entry are counted in the total only.     *)
ScanUncounted ==
    /\ boot <= Len(MemMap)
    /\ boot' = boot + 1
    /\ LET e == MemMap[boot]
       IN \/ /\ e.type # 1
             /\ UNCHANGED <<page_bitmap, total_pages, free_pages, mem_end>>
          \/ /\ e.type = 1
             /\ mem_end' = IF e.base + e.length > mem_end THEN e.base + e.length ELSE mem_end
             /\ page_bitmap' = page_bitmap \ EntryPages(e)
             /\ total_pages' = total_pages + Cardinality(EntryPages(e))
             /\ UNCHANGED free_pages
    /\ UNCHANGED <<ret, held>>

(* Mutant: the pages of an entry are counted from its length instead of    *)
(* page by page in the loop over the rounded ends.                         *)
ScanCountsLength ==
    /\ boot <= Len(MemMap)
    /\ boot' = boot + 1
    /\ LET e == MemMap[boot]
       IN \/ /\ e.type # 1
             /\ UNCHANGED <<page_bitmap, total_pages, free_pages, mem_end>>
          \/ /\ e.type = 1
             /\ mem_end' = IF e.base + e.length > mem_end THEN e.base + e.length ELSE mem_end
             /\ page_bitmap' = page_bitmap \ EntryPages(e)
             /\ total_pages' = total_pages + (e.length \div PageSize)
             /\ free_pages' = free_pages + (e.length \div PageSize)
    /\ UNCHANGED <<ret, held>>

(* One memory map entry of pmm_init's loop; entries that are not usable    *)
(* RAM (type 1) are skipped.                                               *)
ScanEntry ==
    /\ boot <= Len(MemMap)
    /\ boot' = boot + 1
    /\ LET e == MemMap[boot]
       IN \/ /\ e.type # 1
             /\ UNCHANGED <<page_bitmap, total_pages, free_pages, mem_end>>
          \/ /\ e.type = 1
             /\ mem_end' = IF e.base + e.length > mem_end THEN e.base + e.length ELSE mem_end
             /\ page_bitmap' = page_bitmap \ EntryPages(e)
             /\ total_pages' = total_pages + Cardinality(EntryPages(e))
             /\ free_pages' = free_pages + Cardinality(EntryPages(e))
    /\ UNCHANGED <<ret, held>>

(* Mutant: the bitmap's own pages are not reserved. *)
ReserveLowOnly ==
    /\ boot = Len(MemMap) + 1
    /\ boot' = boot + 1
    /\ page_bitmap' = page_bitmap \cup reserve_region(0, MemStart)
    /\ UNCHANGED <<total_pages, free_pages, mem_end, ret, held>>

(* The end of pmm_init: the first MemStart bytes and the bitmap become     *)
(* used.  The counters are not adjusted.                                   *)
Reserve ==
    /\ boot = Len(MemMap) + 1
    /\ boot' = boot + 1
    /\ page_bitmap' = page_bitmap \cup Reserved
    /\ UNCHANGED <<total_pages, free_pages, mem_end, ret, held>>

(* The pages pmm_alloc_page looks at, lowest first. *)
Candidates == (Clear \cap ((MemStart \div PageSize)..((mem_end \div PageSize) - 1)))

(* Mutant: the bit of the page handed out is not set. *)
AllocUnmarked ==
    /\ Booted
    /\ \E p \in Candidates :
          /\ \A q \in Candidates : p <= q
          /\ free_pages' = free_pages - 1
          /\ ret' = p * PageSize
          /\ held' = held \cup {p}
    /\ UNCHANGED <<page_bitmap, total_pages, mem_end, boot>>

(* pmm_alloc_page finds a page. *)
pmm_alloc_page ==
    /\ Booted
    /\ \E p \in Candidates :
          /\ \A q \in Candidates : p <= q
          /\ page_bitmap' = page_bitmap \cup {p}
          /\ free_pages' = free_pages - 1
          /\ ret' = p * PageSize
          /\ held' = held \cup {p}
    /\ UNCHANGED <<total_pages, mem_end, boot>>

(* pmm_alloc_page finds no page and returns 0. *)
pmm_alloc_fails ==
    /\ Booted
    /\ Candidates = {}
    /\ ret' = 0
    /\ UNCHANGED <<page_bitmap, total_pages, free_pages, mem_end, boot, held>>

(* Mutant: pmm_free_page without the bitmap_test early return. *)
FreeUntested(p) ==
    /\ Booted
    /\ page_bitmap' = page_bitmap \ {p}
    /\ free_pages' = free_pages + 1
    /\ held' = held \ {p}
    /\ UNCHANGED <<total_pages, mem_end, boot, ret>>

(* pmm_free_page: a page that is already clear is left alone. *)
pmm_free_page(p) ==
    /\ Booted
    /\ \/ /\ p \notin page_bitmap
          /\ UNCHANGED <<page_bitmap, free_pages, held>>
       \/ /\ p \in page_bitmap
          /\ page_bitmap' = page_bitmap \ {p}
          /\ free_pages' = free_pages + 1
          /\ held' = held \ {p}
    /\ UNCHANGED <<total_pages, mem_end, boot, ret>>

(* Clients free what they hold, or free again what is already free (also   *)
(* a page that has meanwhile been handed to somebody else).                *)
Next ==
    \/ ScanEntry
    \/ Reserve
    \/ pmm_alloc_page
    \/ pmm_alloc_fails
    \/ \E p \in held \cup Clear : pmm_free_page(p)

Spec == Init /\ [][Next]_vars

-----------------------------------------------------------------------------

(* Type invariant; the counters of mem.c stay natural numbers. *)
TypeOK ==
    /\ page_bitmap \subseteq Pages
    /\ total_pages \in Nat
    /\ free_pages \in Nat
    /\ mem_end \in Nat
    /\ boot \in 1..(Len(MemMap) + 2)
    /\ ret \in Nat
    /\ held \subseteq Pages

(* A page handed out by pmm_alloc_page and not yet freed has its bit set,  *)
(* so no later call returns it, and it is none of the pages pmm_init       *)
(* reserved (low memory and the bitmap itself).                            *)
HeldPagesSafe == held \subseteq (page_bitmap \ Reserved)

(* Every page missing from pmm_free_count's figure is in a client's hands: *)
(* total_pages = free_pages + the pages handed out, through any sequence   *)
(* of allocations, frees and repeated frees.                               *)
Accounting == total_pages = free_pages + Cardinality(held)

(* free_pages is never below the number of clear bits (it is above it by   *)
(* the pages pmm_init reserved without uncounting and by overlaps of the   *)
(* memory map), so the decrement in pmm_alloc_page never wraps.            *)
FreeCountCovers == free_pages >= Cardinality(Clear)
=============================================================================
