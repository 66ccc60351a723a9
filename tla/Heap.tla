---------------------------------- MODULE Heap ----------------------------------
(***************************************************************************)
(* The kernel heap, src/kernel/heap.c: a list of blocks with headers, a    *)
(* page at a time, and slab caches for small objects, whose pages come out *)
(* of the same run of virtual addresses.                                   *)
(*                                                                         *)
(* Addresses are offsets from heap_virt_base; pages are numbered from it.  *)
(* A header is where its block starts, and heap_head stays at offset 0:    *)
(* no merge moves the first block.  The kernel is not preempted inside the *)
(* allocator (no interrupt handler calls it), so an operation is atomic,   *)
(* except that the retries of a kmalloc that has to map more memory are    *)
(* steps of their own.  What programs store in their memory is left out.   *)
(***************************************************************************)
EXTENDS Integers, FiniteSets, FiniteSetsExt

CONSTANTS
    Page,        \* 4096
    Header,      \* HEADER_SIZE
    MinBlock,    \* MIN_BLOCK
    Align,       \* sizes are rounded up to a multiple of 16
    ObjectSizes, \* object_size of the slab caches
    MaxPages,    \* bound: pages that pmm_alloc_page can give
    Sizes        \* the sizes that clients ask for

ASSUME HeapAssumption ==
    /\ Page \in Nat /\ Header \in Nat \ {0} /\ MinBlock \in Nat \ {0} /\ Align \in Nat \ {0}
    /\ Header < Page
    /\ ObjectSizes \subseteq 1..Page
    /\ MaxPages \in Nat \ {0}
    /\ Sizes \subseteq Nat

Nil == -1

VARIABLES
    hdr,         \* the headers of the list, by address: size, free, next, prev
    mapped,      \* heap_mapped, in pages
    slabs,       \* the pages given to slab caches, each with its object_size
    free_list,   \* of each cache: the addresses of its free objects
    held,        \* history: what clients hold, addresses of blocks and of objects
    want,        \* the (rounded) size a kmalloc is still looking for, 0 if none
    old,         \* the block that a krealloc gives up once it has its new one
    panicked     \* panic has stopped the machine: heap oom or a page fault

vars == <<hdr, mapped, slabs, free_list, held, want, old, panicked>>

Blocks == DOMAIN hdr
SlabPages == DOMAIN slabs
Areas == (0..(mapped - 1)) \ SlabPages

FirstBlock == [size |-> Page - Header, free |-> TRUE, next |-> Nil, prev |-> Nil]

(* heap_init *)
Init ==
    /\ hdr = [b \in {0} |-> FirstBlock]
    /\ mapped = 1
    /\ slabs = <<>>
    /\ free_list = [c \in ObjectSizes |-> {}]
    /\ held = {}
    /\ want = 0
    /\ old = Nil
    /\ panicked = FALSE

-----------------------------------------------------------------------------
(* The block list *)

End(h, b) == b + Header + h[b].size

(* The blocks in the order of the list: Nth[i] is the i-th, Nil past the   *)
(* end.                                                                    *)
Position(b) ==
    LET Nth[i \in 0..Cardinality(Blocks)] ==
            IF i = 0 THEN 0
            ELSE IF Nth[i - 1] = Nil THEN Nil ELSE hdr[Nth[i - 1]].next
    IN CHOOSE i \in 0..Cardinality(Blocks) : Nth[i] = b

(* Mutant: the block behind the new one keeps its link to the old one. *)
SplitOldLink(h, b, size) ==
    LET new == b + Header + size
        nx == h[b].next
    IN IF h[b].size < size + Header + MinBlock
       THEN [h EXCEPT ![b].free = FALSE]
       ELSE [x \in DOMAIN h \cup {new} |->
               IF x = new
               THEN [size |-> h[b].size - size - Header, free |-> TRUE, next |-> nx, prev |-> b]
               ELSE IF x = b THEN [h[b] EXCEPT !.size = size, !.free = FALSE, !.next = new]
               ELSE h[x]]

(* Mutant: the room for the header is left out of the new address. *)
SplitNoHeader(h, b, size) ==
    LET new == b + size
        nx == h[b].next
    IN IF h[b].size < size + Header + MinBlock
       THEN [h EXCEPT ![b].free = FALSE]
       ELSE [x \in DOMAIN h \cup {new} |->
               IF x = new
               THEN [size |-> h[b].size - size - Header, free |-> TRUE, next |-> nx, prev |-> b]
               ELSE IF x = b THEN [h[b] EXCEPT !.size = size, !.free = FALSE, !.next = new]
               ELSE IF x = nx THEN [h[x] EXCEPT !.prev = new]
               ELSE h[x]]

(* split_block, after which kmalloc marks the block in use. *)
Split(h, b, size) ==
    LET new == b + Header + size
        nx == h[b].next
    IN IF h[b].size < size + Header + MinBlock
       THEN [h EXCEPT ![b].free = FALSE]
       ELSE [x \in DOMAIN h \cup {new} |->
               IF x = new
               THEN [size |-> h[b].size - size - Header, free |-> TRUE, next |-> nx, prev |-> b]
               ELSE IF x = b THEN [h[b] EXCEPT !.size = size, !.free = FALSE, !.next = new]
               ELSE IF x = nx THEN [h[x] EXCEPT !.prev = new]
               ELSE h[x]]

(* Mutant: the absorbed block's header is not added to the size. *)
AbsorbNoHeader(h, b, c) ==
    [x \in DOMAIN h \ {c} |->
        IF x = b THEN [h[b] EXCEPT !.size = @ + h[c].size, !.next = h[c].next]
        ELSE IF x = h[c].next THEN [h[x] EXCEPT !.prev = b]
        ELSE h[x]]

(* The successor c of b in the list becomes a part of b. *)
Absorb(h, b, c) ==
    [x \in DOMAIN h \ {c} |->
        IF x = b THEN [h[b] EXCEPT !.size = @ + Header + h[c].size, !.next = h[c].next]
        ELSE IF x = h[c].next THEN [h[x] EXCEPT !.prev = b]
        ELSE h[x]]

(* merge_adjacent: with the next block, then with the previous one. *)
merge_adjacent(h, b) ==
    LET nx == h[b].next
        pv == h[b].prev
        g  == IF nx # Nil /\ h[nx].free THEN Absorb(h, b, nx) ELSE h
    IN IF pv # Nil /\ h[pv].free THEN Absorb(g, pv, b) ELSE g

(* kfree of a block of the list. *)
Freed(h, b) == merge_adjacent([h EXCEPT ![b].free = TRUE], b)

(* kmalloc appends an area of one page behind the last block. *)
Appended(h, a) ==
    [x \in DOMAIN h \cup {a} |->
        IF x = a THEN [FirstBlock EXCEPT !.prev = CHOOSE t \in DOMAIN h : h[t].next = Nil]
        ELSE IF h[x].next = Nil THEN [h[x] EXCEPT !.next = a]
        ELSE h[x]]

-----------------------------------------------------------------------------
(* What must be so for memory to be used by one client only: blocks do not *)
(* overlap each other or the pages of the slab caches, and lie in the heap.*)
BlocksApart ==
    /\ \A b, c \in Blocks : b < c => End(hdr, b) <= c
    /\ \A b \in Blocks : End(hdr, b) <= mapped * Page
    /\ \A b \in Blocks, s \in SlabPages : End(hdr, b) <= s * Page \/ (s + 1) * Page <= b

(* The allocator is at rest.  Once blocks overlap, what is stored in one   *)
(* of them changes the other's header: such a state is not followed.       *)
Idle == want = 0 /\ ~panicked /\ BlocksApart

-----------------------------------------------------------------------------
(* The operations *)

(* slab_find_cache *)
Caches(size) == {c \in ObjectSizes : c >= size}

(* slab_alloc of an object that the cache has. *)
slab_alloc(size) ==
    /\ Idle
    /\ size > 0 /\ Caches(size) # {}
    /\ LET c == Min(Caches(size))
       IN /\ free_list[c] # {}
          /\ held' = held \cup {Min(free_list[c])}
          /\ free_list' = [free_list EXCEPT ![c] = @ \ {Min(@)}]
    /\ UNCHANGED <<hdr, mapped, slabs, want, old, panicked>>

(* slab_alloc with an empty cache: the next page of the heap becomes a     *)
(* slab, and its first object is returned.                                 *)
slab_grow(size) ==
    /\ Idle
    /\ size > 0 /\ Caches(size) # {}
    /\ mapped < MaxPages
    /\ LET c == Min(Caches(size))
           objects == {mapped * Page + i * c : i \in 0..((Page \div c) - 1)}
       IN /\ free_list[c] = {}
          /\ held' = held \cup {mapped * Page}
          /\ free_list' = [free_list EXCEPT ![c] = objects \ {mapped * Page}]
          /\ slabs' = [s \in SlabPages \cup {mapped} |-> IF s = mapped THEN c ELSE slabs[s]]
    /\ mapped' = mapped + 1
    /\ UNCHANGED <<hdr, want, old, panicked>>

Rounded(size) == ((size + Align - 1) \div Align) * Align

(* kmalloc of a size that no cache has goes to the block list. *)
kmalloc(size) ==
    /\ Idle
    /\ size > 0 /\ Caches(size) = {}
    /\ want' = Rounded(size)
    /\ UNCHANGED <<hdr, mapped, slabs, free_list, held, old, panicked>>

Fits == {b \in Blocks : hdr[b].free /\ hdr[b].size >= want}

(* The first block that fits is split and handed out; a krealloc then      *)
(* gives the old block back.                                               *)
kmalloc_fit ==
    /\ want > 0 /\ ~panicked
    /\ \E b \in Fits :
          /\ \A c \in Fits : Position(b) <= Position(c)
          /\ LET h == Split(hdr, b, want)
             IN hdr' = IF old = Nil THEN h ELSE Freed(h, old)
          /\ held' = (held \ {old}) \cup {b}
    /\ want' = 0
    /\ old' = Nil
    /\ UNCHANGED <<mapped, slabs, free_list, panicked>>

(* Nothing fits: one more page is mapped (heap_map_more) and the search    *)
(* starts again, also for a size that no page can hold.                    *)
kmalloc_grow ==
    /\ want > 0 /\ ~panicked
    /\ Fits = {}
    /\ mapped < MaxPages
    /\ hdr' = Appended(hdr, mapped * Page)
    /\ mapped' = mapped + 1
    /\ UNCHANGED <<slabs, free_list, held, want, old, panicked>>

heap_oom ==
    /\ want > 0 /\ ~panicked
    /\ Fits = {}
    /\ mapped = MaxPages
    /\ panicked' = TRUE
    /\ UNCHANGED <<hdr, mapped, slabs, free_list, held, want, old>>

kfree(b) ==
    /\ Idle
    /\ b \in Blocks
    /\ hdr' = Freed(hdr, b)
    /\ held' = held \ {b}
    /\ UNCHANGED <<mapped, slabs, free_list, want, old, panicked>>

(* kfree of an object takes the bytes before it for a header.  If those    *)
(* hold no links it only sets the free field in them; if they do, it goes  *)
(* through pointers made of somebody's data, which ends in a page fault    *)
(* (or in damage that is not followed).  The object does not go back to    *)
(* its cache.                                                              *)
kfree_object(o) ==
    /\ Idle
    /\ o \notin Blocks
    /\ held' = held \ {o}
    /\ panicked' \in BOOLEAN
    /\ UNCHANGED <<hdr, mapped, slabs, free_list, want, old>>

(* krealloc of a block: kept if it is large enough, else a kmalloc first. *)
krealloc(b, size) ==
    /\ Idle
    /\ b \in Blocks
    /\ hdr[b].size < size
    /\ Caches(size) = {}
    /\ want' = Rounded(size)
    /\ old' = b
    /\ UNCHANGED <<hdr, mapped, slabs, free_list, held, panicked>>

Next ==
    \/ \E size \in Sizes : slab_alloc(size) \/ slab_grow(size) \/ kmalloc(size)
    \/ kmalloc_fit
    \/ kmalloc_grow
    \/ heap_oom
    \/ \E p \in held : kfree(p) \/ kfree_object(p) \/ \E size \in Sizes : krealloc(p, size)

Spec == Init /\ [][Next]_vars

-----------------------------------------------------------------------------
(* Properties *)

(* Type invariant of the allocator's state. *)
TypeOK ==
    /\ hdr \in [Blocks -> [size : Nat, free : BOOLEAN, next : Blocks \cup {Nil},
                           prev : Blocks \cup {Nil}]]
    /\ 0 \in Blocks /\ Blocks \subseteq Nat
    /\ mapped \in 1..MaxPages
    /\ SlabPages \subseteq 0..(mapped - 1)
    /\ \A s \in SlabPages : slabs[s] \in ObjectSizes
    /\ \A c \in ObjectSizes : free_list[c] \subseteq Nat
    /\ held \subseteq Nat
    /\ want \in Nat
    /\ old \in Blocks \cup {Nil}
    /\ panicked \in BOOLEAN

(* Read in either direction the list is the same, it runs through every    *)
(* block in the order of addresses, and its blocks in use are the ones     *)
(* that clients hold: split_block, merge_adjacent and the appending of an  *)
(* area neither lose nor invent a block.                                   *)
ListLinked ==
    /\ \A b \in Blocks :
          /\ hdr[b].next # Nil => hdr[b].next > b /\ hdr[hdr[b].next].prev = b
          /\ hdr[b].prev # Nil => hdr[b].prev < b /\ hdr[hdr[b].prev].next = b
          /\ hdr[b].prev = Nil <=> b = 0
    /\ \A b, c \in Blocks : hdr[b].next = Nil /\ hdr[c].next = Nil => b = c
    /\ {b \in Blocks : ~hdr[b].free} = {p \in held : p \div Page \notin SlabPages}

(* Every byte of an area is in one block: sizes and headers add up. *)
AreasAccountedFor ==
    MapThenSumSet(LAMBDA b : hdr[b].size + Header, Blocks) = Page * Cardinality(Areas)

(* Two free blocks follow each other only where a new area was appended:   *)
(* freeing in any order coalesces everything else.                         *)
Coalesced ==
    \A b \in Blocks : hdr[b].free /\ hdr[b].next # Nil /\ hdr[hdr[b].next].free
                      => hdr[b].next \in {a * Page : a \in Areas}

(* The step takes a block out of the list that does not begin where the    *)
(* block before it in the list ends.                                       *)
MergesAcrossGap ==
    \E b \in Blocks : hdr[b].next \in Blocks \ Blocks' /\ End(hdr, b) # hdr[b].next

(* No memory is given to two clients, also where slab pages lie between    *)
(* areas, until merge_adjacent merges two neighbours of the list that are  *)
(* not neighbours in memory: no other step, whatever the list looks like,  *)
(* makes a block reach into another one, into a slab or past the heap.     *)
MemoryApart == [][BlocksApart => BlocksApart' \/ MergesAcrossGap]_vars

(* An object that a client holds is not in the free list of its cache, and *)
(* lies in a slab page of that cache.                                      *)
ObjectsApart ==
    \A c \in ObjectSizes :
        /\ free_list[c] \cap held = {}
        /\ \A o \in free_list[c] : o \div Page \in SlabPages /\ slabs[o \div Page] = c

(* Through every order of kmalloc, kfree and krealloc the block list stays *)
(* linked and coalesced, and slab objects are handed out once.             *)
HeapSound == TypeOK /\ ListLinked /\ Coalesced /\ ObjectsApart
=============================================================================
