-------------------------------- MODULE Paging --------------------------------
(***************************************************************************)
(* Four-level page tables of src/arch/x86_64/paging.c.  Tables are pages   *)
(* of the same memory they map.  The code reaches a table through its      *)
(* physical address, so a table page must be mapped to itself; table_alloc *)
(* arranges that by calling paging_map_page for the page it has just       *)
(* taken, which may in turn need a table.  calls is the stack of those     *)
(* nested calls of paging_map_page, innermost last.                        *)
(*                                                                         *)
(* A virtual or physical address is a page number; a page is Fanout words. *)
(* A table entry is the page number it points to; Zero is a cleared word.  *)
(* All entries are present and writable, and no entry is a large page,     *)
(* because walk writes no other ones.                                      *)
(*                                                                         *)
(* pmm_init keeps neither the boot tables nor any address from its         *)
(* callers: the pages that a memory map offers may hold the boot tables,   *)
(* and nothing keeps an image out of the boot mapping.  Where a call writes over the tables in use or     *)
(* over their mapping, status becomes "lost" and the model stops.          *)
(***************************************************************************)
EXTENDS Integers, Sequences, FiniteSets, FiniteSetsExt

CONSTANTS
    Fanout,      \* entries of a table (512)
    BootTables,  \* boot_pml4, boot_pdpt, boot_pd, boot_pt, from level 4 to 1
    Memories,    \* sets of pages that a memory map may offer
    HeapPages,   \* virtual pages the heap maps
    ImagePages,  \* virtual pages of executables
    Garbage      \* what unused memory is filled with

Zero == -1
Boot == {BootTables[k] : k \in 1..4}
Ram == UNION Memories
Pages == Ram \cup Boot

(* The pages that can be handed out without harm. *)
Frames == Ram \ Boot

(* Pages of virtual memory: the indices of an address have no more digits. *)
Top4 == Fanout * Fanout * Fanout * Fanout

(* The virtual pages of clients above what paging_init has mapped. *)
VirtPages == {v \in HeapPages \cup ImagePages : v >= Fanout}

ASSUME PagingAssumption ==
    /\ Fanout \in Nat \ {0, 1}
    /\ BootTables \in [1..4 -> 0..(Fanout - 1)]
    /\ \A j, k \in 1..4 : BootTables[j] = BootTables[k] => j = k
    /\ \A m \in Memories : m \subseteq 0..(Fanout * Fanout - 1)
    /\ HeapPages \subseteq (Fanout * Fanout)..(Top4 - 1)
    /\ ImagePages \subseteq 0..(Top4 - 1)
    /\ Garbage \in Pages \cup {Zero}

VARIABLES
    mem,     \* the words of every page
    free,    \* pages pmm_alloc_page can still return
    calls,   \* the nested calls of paging_map_page
    status,  \* "run", "panic" once the kernel has stopped, or "lost"
    owned    \* history: pages that clients of the page allocator hold, and
             \* those that it does not have

pagingVars == <<mem, free, calls, status, owned>>

(* PML4_INDEX, PDPT_INDEX, PD_INDEX, PT_INDEX for levels 4 to 1. *)
Index(v, level) ==
    CASE level = 4 -> (v \div (Fanout * Fanout * Fanout)) % Fanout
      [] level = 3 -> (v \div (Fanout * Fanout)) % Fanout
      [] level = 2 -> (v \div Fanout) % Fanout
      [] level = 1 -> v % Fanout

Root == BootTables[1]

(* The table below one of the boot tables. *)
Below(t) == CHOOSE q \in Pages : \E k \in 1..3 : t = BootTables[k] /\ q = BootTables[k + 1]

(* paging_init: the first Fanout pages are mapped to themselves.           *)
(* pmm_alloc_page hands out what the memory map offers, lowest page first. *)
paging_init ==
    /\ mem = [p \in Pages |->
                 [i \in 0..(Fanout - 1) |->
                     CASE p = BootTables[4] -> i
                       [] \E k \in 1..3 : p = BootTables[k] ->
                             IF i = 0 THEN Below(p) ELSE Zero
                       [] OTHER -> Garbage]]
    /\ free \in Memories
    /\ calls = <<>>
    /\ status = "run"
    /\ owned = Frames \ free

-----------------------------------------------------------------------------
(* walk without creation: the table that v uses on a level, or Zero. *)
Next3(v) == mem[Root][Index(v, 4)]
Next2(v) == IF Next3(v) = Zero THEN Zero ELSE mem[Next3(v)][Index(v, 3)]
walk(v) == IF Next2(v) = Zero THEN Zero ELSE mem[Next2(v)][Index(v, 2)]

(* paging_virt_to_phys; this is also what the processor does. *)
paging_virt_to_phys(v) == IF walk(v) = Zero THEN Zero ELSE mem[walk(v)][Index(v, 1)]

Frame(v, p) == [virt |-> v, phys |-> p, level |-> 4, tab |-> Root, page |-> Zero]

Top == calls[Len(calls)]
Entry == mem[Top.tab][Index(Top.virt, Top.level)]

Walking == status = "run" /\ calls # <<>>

(* A level of walk finds the next table present. *)
walk_down ==
    /\ Walking
    /\ Top.page = Zero /\ Top.level > 1 /\ Entry # Zero
    /\ calls' = [calls EXCEPT ![Len(calls)].level = Top.level - 1,
                              ![Len(calls)].tab = Entry]
    /\ UNCHANGED <<mem, free, status, owned>>

(* Mutant: the new page is not mapped to itself. *)
TableUnmapped ==
    /\ Walking
    /\ Top.page = Zero /\ Top.level > 1 /\ Entry = Zero
    /\ free # {}
    /\ free' = free \ {Min(free)}
    /\ calls' = [calls EXCEPT ![Len(calls)].page = Min(free)]
    /\ UNCHANGED <<mem, status, owned>>

(* Mutant: the page allocator hands the page out again. *)
TableKeptFree ==
    /\ Walking
    /\ Top.page = Zero /\ Top.level > 1 /\ Entry = Zero
    /\ free # {}
    /\ calls' = Append([calls EXCEPT ![Len(calls)].page = Min(free)],
                       Frame(Min(free), Min(free)))
    /\ UNCHANGED <<mem, free, status, owned>>

(* Clearing the page for a table does no harm.  It does when the page is a *)
(* boot table, and when it lies above the boot mapping where an image has  *)
(* made a page table: then the nested call returns, after it may have      *)
(* replaced a page of the image and filled entries that the calls around   *)
(* it have found empty and replace in turn.                                *)
TablePageSafe ==
    Min(free) \notin Boot /\ (Min(free) >= Fanout => walk(Min(free)) = Zero)

(* table_alloc: a level of walk finds no table, takes a page and calls     *)
(* paging_map_page to map that page to itself.                             *)
table_alloc ==
    /\ Walking
    /\ Top.page = Zero /\ Top.level > 1 /\ Entry = Zero
    /\ free # {} /\ TablePageSafe
    /\ free' = free \ {Min(free)}
    /\ calls' = Append([calls EXCEPT ![Len(calls)].page = Min(free)],
                       Frame(Min(free), Min(free)))
    /\ UNCHANGED <<mem, status, owned>>

table_lost ==
    /\ Walking
    /\ Top.page = Zero /\ Top.level > 1 /\ Entry = Zero
    /\ free # {} /\ ~TablePageSafe
    /\ status' = "lost"
    /\ UNCHANGED <<mem, free, calls, owned>>

(* panic("paging oom"). *)
paging_oom ==
    /\ Walking
    /\ Top.page = Zero /\ Top.level > 1 /\ Entry = Zero
    /\ free = {}
    /\ status' = "panic"
    /\ UNCHANGED <<mem, free, calls, owned>>

(* Back in table_alloc and walk: the page is cleared and becomes the entry *)
(* of the level that missed it.                                            *)
table_link ==
    /\ Walking
    /\ Top.page # Zero
    /\ mem' = [mem EXCEPT ![Top.page] = [i \in 0..(Fanout - 1) |-> Zero],
                          ![Top.tab][Index(Top.virt, Top.level)] = Top.page]
    /\ calls' = [calls EXCEPT ![Len(calls)].level = Top.level - 1,
                              ![Len(calls)].tab = Top.page,
                              ![Len(calls)].page = Zero]
    /\ UNCHANGED <<free, status, owned>>

(* paging_map_page writes the entry and returns. *)
map_return ==
    /\ Walking
    /\ Top.level = 1
    /\ mem' = [mem EXCEPT ![Top.tab][Index(Top.virt, 1)] = Top.phys]
    /\ calls' = SubSeq(calls, 1, Len(calls) - 1)
    /\ UNCHANGED <<free, status, owned>>

paging_map_page ==
    walk_down \/ table_alloc \/ table_lost \/ paging_oom \/ table_link \/ map_return

(* Mutant: the whole table is cleared. *)
UnmapTable(v) ==
    /\ status = "run" /\ calls = <<>>
    /\ walk(v) # Zero
    /\ mem' = [mem EXCEPT ![walk(v)] = [i \in 0..(Fanout - 1) |-> Zero]]
    /\ UNCHANGED <<free, calls, status, owned>>

(* paging_unmap_page: clears the entry when there is a table for it. *)
paging_unmap_page(v) ==
    /\ status = "run" /\ calls = <<>>
    /\ walk(v) # Zero
    /\ mem' = [mem EXCEPT ![walk(v)][Index(v, 1)] = Zero]
    /\ UNCHANGED <<free, calls, status, owned>>

(* heap_map_more and slab_alloc: the heap takes a page and maps it at an   *)
(* address it has not used before; an image may have been mapped there.    *)
heap_map_more(v) ==
    /\ status = "run" /\ calls = <<>>
    /\ paging_virt_to_phys(v) = Zero \/ v \in ImagePages
    /\ free # {} /\ Min(free) \notin Boot
    /\ free' = free \ {Min(free)}
    /\ owned' = owned \cup {Min(free)}
    /\ calls' = <<Frame(v, Min(free))>>
    /\ UNCHANGED <<mem, status>>

(* The page is a boot table, and the heap writes into it. *)
heap_lost ==
    /\ status = "run" /\ calls = <<>>
    /\ free # {} /\ Min(free) \in Boot
    /\ status' = "lost"
    /\ UNCHANGED <<mem, free, calls, owned>>

-----------------------------------------------------------------------------
(* The tables that the root leads to. *)
Tables ==
    LET Entries(S) == {mem[t][i] : t \in S, i \in 0..(Fanout - 1)} \ {Zero}
        L3 == Entries({Root})
        L2 == Entries(L3)
    IN {Root} \cup L3 \cup L2 \cup Entries(L2)

(* Pages taken by table_alloc that are not linked yet. *)
Pending == {calls[k].page : k \in 1..Len(calls)} \ {Zero}

(* Type invariant. *)
PagingTypeOK ==
    /\ \A p \in Pages : \A i \in 0..(Fanout - 1) : mem[p][i] \in Int
    /\ Tables \subseteq Pages
    /\ free \subseteq Ram /\ owned \subseteq Frames
    /\ \A k \in 1..Len(calls) :
          /\ calls[k].level \in 1..4
          /\ calls[k].tab \in Tables
          /\ calls[k].page \in Frames \cup {Zero}
    /\ status \in {"run", "panic", "lost"}

(* Every table is mapped to itself, also in the middle of a walk: the      *)
(* pointers that walk and table_alloc dereference are valid addresses of   *)
(* the tables they mean.  The same holds for the page table_alloc is about *)
(* to clear.                                                               *)
TablesMapped ==
    /\ \A t \in Tables : paging_virt_to_phys(t) = t
    /\ Walking /\ Top.page # Zero => paging_virt_to_phys(Top.page) = Top.page

(* Every page taken from the page allocator is exactly one of a table in   *)
(* use, a table in the making, and a page of a client: walk loses none in  *)
(* the nested calls and no table is handed to a client.                    *)
PagesAccounted ==
    LET tables == Tables \ Boot
    IN /\ Frames \ free = tables \cup Pending \cup owned
       /\ tables \cap Pending = {} /\ tables \cap owned = {} /\ Pending \cap owned = {}

(* Making a table out of a page of the boot mapping takes no second page:  *)
(* the nested calls go deeper only for pages above it.                     *)
LowTablesCheap ==
    \A k \in 1..Len(calls) :
        calls[k].page # Zero /\ calls[k].page < Fanout =>
            Len(calls) <= k + 1

(* In every step of nested walks the tables are pages that walk and        *)
(* table_alloc can reach, and low pages end the nesting.                   *)
TablesSound == PagingTypeOK /\ TablesMapped /\ LowTablesCheap

(* The tables implement a partial function from virtual to physical pages: *)
(* mapping a page changes the translation of that page only, however many  *)
(* tables it takes, and two virtual pages never share a frame.             *)
space == [v \in VirtPages |-> paging_virt_to_phys(v)]

AddressSpaceSpec == INSTANCE AddressSpace WITH None <- Zero

ImplementsAddressSpace == AddressSpaceSpec!Spec
=============================================================================
