------------------------------- MODULE MCLoader -------------------------------
(* Tables of 16 entries: pages 0 to 15 are mapped at boot, those from 16   *)
(* on are not; addresses are words, 16 to a page.                          *)
EXTENDS Loader

(* Two pages above the boot mapping; the memory map keeps boot_pt, at 7,   *)
(* in one machine, and offers it in the other.                             *)
MCBootTables == <<0, 1, 2, 7>>
MCMemories == {{6, 8, 9, 10, 11, 12, 13, 14, 17, 18}, {4, 5, 6, 7, 8}}

Mira(size, sects) ==
    [kind |-> "mira", magic |-> TRUE, abi |-> TRUE, type |-> TRUE, checksum |-> TRUE,
     header_size |-> 2, sect_table_off |-> 2, size |-> size, sects |-> sects]

Elf(size, sects) == [kind |-> "elf", magic |-> TRUE, type |-> TRUE, size |-> size, sects |-> sects]

Sec(page, off, memsz, filesz, file_off) ==
    [pt_load |-> TRUE, vaddr |-> page * 16 + off, memsz |-> memsz, filesz |-> filesz,
     file_off |-> file_off]

Aligned == Mira(30, <<Sec(512, 0, 5, 3, 6), Sec(513, 0, 17, 0, 9)>>)

(* The second section begins in the page where the first one does. *)
Unaligned == Mira(20, <<Sec(528, 3, 4, 4, 6), Sec(528, 9, 20, 12, 8)>>)

(* One section lies outside of the file. *)
Broken == Mira(3, <<Sec(516, 0, 4, 4, 0), Sec(517, 0, 4, 4, 2)>>)

(* A segment that is not loaded, and one that is longer than its file. *)
Segments ==
    Elf(40, <<[Sec(0, 0, 3, 3, 0) EXCEPT !.pt_load = FALSE], Sec(4096, 0, 20, 18, 5)>>)

(* At addresses that are pages of memory too, where the heap is, and in    *)
(* the boot mapping.                                                       *)
OverMemory == Mira(12, <<Sec(17, 0, 4, 4, 6)>>)
OverHeap == Elf(12, <<Sec(257, 0, 6, 6, 6)>>)
OverBoot == Mira(12, <<Sec(5, 0, 4, 4, 6)>>)

MCImages == {Aligned, Unaligned, Broken, Segments, OverMemory, OverHeap, OverBoot}
MCImagePages == {5, 17, 257, 512, 513, 514, 516, 517, 528, 529, 4096, 4097}
=============================================================================
