-------------------------------- MODULE Loader --------------------------------
(***************************************************************************)
(* The executable loaders, src/kernel/elf.c and src/kernel/bin/*, on top   *)
(* of the page tables, with the heap as another client of both.  A loader  *)
(* takes a page, fills it through its physical address and maps it, page   *)
(* by page and section by section; it gives nothing back when it fails.    *)
(*                                                                         *)
(* The address of a section counts words, like its sizes, and is not       *)
(* checked: the loaders map the pages from the one vaddr lies in, and fill *)
(* them from their start.  Word k of a file is the number FileWord(k).     *)
(* mira_map_section and mira_load map a section with the same code.        *)
(***************************************************************************)
EXTENDS Paging

CONSTANTS
    HeaderSize,  \* sizeof(mira_bin_header_t)
    DescSize,    \* sizeof(mira_sect_desc_t)
    Images       \* the files that may be given to a loader

(* What the loaders read of a program header or a section descriptor. *)
SectionRecords ==
    [pt_load : BOOLEAN, vaddr : Nat, memsz : Nat, filesz : Nat, file_off : Nat]

(* The sections that take memory. *)
Takes(img, s) == img.kind = "mira" \/ img.sects[s].pt_load

(* The pages of a section, and where paging_map_page is asked to map them: *)
(* of an address it looks at the indices only.                             *)
PageIn(img, s, j) == j * Fanout < img.sects[s].memsz
PageAt(img, s, j) == ((img.sects[s].vaddr \div Fanout) + j) % Top4

(* The virtual pages of an image. *)
PagesOf(img) ==
    UNION {{PageAt(img, s, j) : j \in {n \in 0..img.sects[s].memsz : PageIn(img, s, n)}} :
              s \in {r \in 1..Len(img.sects) : Takes(img, r)}}

ASSUME LoaderAssumption ==
    \A img \in Images :
        /\ img.kind \in {"mira", "elf"}
        /\ img.sects \in Seq(SectionRecords)
        /\ PagesOf(img) \subseteq ImagePages

VARIABLES
    ld,      \* the loader in progress: its image, section and page
    loaded   \* history: the images a loader returned true for, as long as
             \* nothing else is mapped at one of their pages

vars == <<pagingVars, ld, loaded>>

FileWord(k) == 1000 + k

NoLoad == [phase |-> "idle"]

Init == paging_init /\ ld = NoLoad /\ loaded = {}

(* Of the header, each field either has the value the loader wants or not, *)
(* except for those that are bounds; the checksum is one over the file.    *)
mira_validate_header(img) ==
    /\ img.magic /\ img.abi /\ img.type /\ img.checksum
    /\ img.header_size = HeaderSize
    /\ Len(img.sects) <= 65535
    /\ img.sect_table_off >= HeaderSize
    /\ img.sect_table_off < img.size
    /\ img.sect_table_off + Len(img.sects) * DescSize <= img.size

(* elf_load looks at the magic and the machine only. *)
elf_header_ok(img) == img.magic /\ img.type

Idle == status = "run" /\ calls = <<>> /\ ld.phase = "idle"

(* A loader is called; it returns false for a header it does not accept.   *)
load(img) ==
    /\ Idle
    /\ ld' = IF (img.kind = "elf" /\ elf_header_ok(img)) \/
                (img.kind = "mira" /\ mira_validate_header(img))
             THEN [phase |-> "load", img |-> img, sec |-> 1, j |-> 0]
             ELSE NoLoad
    /\ UNCHANGED <<pagingVars, loaded>>

Loading == status = "run" /\ calls = <<>> /\ ld.phase = "load"
Sect == ld.img.sects[ld.sec]

(* The test at the head of a section: mira_load wants it inside the file.  *)
SectOk ==
    \/ ld.img.kind = "elf"
    \/ Sect.filesz <= Sect.memsz /\ Sect.file_off + Sect.filesz <= ld.img.size

(* elf_load skips what is not PT_LOAD. *)
Skipped == ld.img.kind = "elf" /\ ~Sect.pt_load

PageLeft == ld.sec <= Len(ld.img.sects) /\ SectOk /\ ~Skipped /\ PageIn(ld.img, ld.sec, ld.j)

(* Mutant: the page is not cleared before the copy. *)
FilledUncleared(p) ==
    [i \in 0..(Fanout - 1) |->
        LET k == ld.j * Fanout + i
        IN IF k < Sect.filesz /\ (ld.img.kind = "mira" \/ k < Sect.memsz)
           THEN FileWord(Sect.file_off + k) ELSE mem[p][i]]

(* What the page holds after the loader has filled it: mira_load clears it *)
(* first, elf_load leaves what the file does not cover.                    *)
Filled(p) ==
    [i \in 0..(Fanout - 1) |->
        LET k == ld.j * Fanout + i
        IN IF k < Sect.filesz /\ (ld.img.kind = "mira" \/ k < Sect.memsz)
           THEN FileWord(Sect.file_off + k)
           ELSE IF ld.img.kind = "mira" THEN Zero ELSE mem[p][i]]

(* Whether the loader stores into the page. *)
Touches == ld.img.kind = "mira" \/ ld.j * Fanout < Sect.filesz

(* The page the loader is to map, and the images this leaves as they are. *)
Target == PageAt(ld.img, ld.sec, ld.j)
Untouched(v) == {img \in loaded : v \notin PagesOf(img)}

(* The store into the page faults, or the page can be filled and mapped:   *)
(* it is no boot table, an address inside of the boot mapping is not       *)
(* replaced, and the store does not go to a page mapped in its place.      *)
StoreFaults == Touches /\ paging_virt_to_phys(Min(free)) = Zero
LoadSafe ==
    /\ Min(free) \notin Boot /\ Target >= Fanout
    /\ Touches => paging_virt_to_phys(Min(free)) = Min(free)

(* One page of a section: taken, filled and given to paging_map_page. *)
load_page ==
    /\ Loading /\ PageLeft /\ free # {} /\ LoadSafe
    /\ mem' = [mem EXCEPT ![Min(free)] = Filled(Min(free))]
    /\ free' = free \ {Min(free)}
    /\ owned' = owned \cup {Min(free)}
    /\ calls' = <<Frame(Target, Min(free))>>
    /\ ld' = [ld EXCEPT !.j = ld.j + 1]
    /\ loaded' = Untouched(Target)
    /\ UNCHANGED status

(* The page is not mapped at its physical address: the store faults. *)
load_fault ==
    /\ Loading /\ PageLeft /\ free # {} /\ StoreFaults
    /\ free' = free \ {Min(free)}
    /\ owned' = owned \cup {Min(free)}
    /\ status' = "panic"
    /\ UNCHANGED <<mem, calls, ld, loaded>>

(* The loader writes over a boot table, over the memory of another client, *)
(* or over the boot mapping.                                               *)
load_lost ==
    /\ Loading /\ PageLeft /\ free # {} /\ ~LoadSafe /\ ~StoreFaults
    /\ status' = "lost"
    /\ UNCHANGED <<mem, free, calls, owned, ld, loaded>>

(* The section is complete, or not one to load. *)
next_section ==
    /\ Loading /\ ld.sec <= Len(ld.img.sects) /\ SectOk
    /\ Skipped \/ ~PageIn(ld.img, ld.sec, ld.j)
    /\ ld' = [ld EXCEPT !.sec = ld.sec + 1, !.j = 0]
    /\ UNCHANGED <<pagingVars, loaded>>

(* The loader returns false half way: no page left, or a bad section. *)
load_fails ==
    /\ Loading /\ ld.sec <= Len(ld.img.sects)
    /\ ~SectOk \/ (PageLeft /\ free = {})
    /\ ld' = NoLoad
    /\ UNCHANGED <<pagingVars, loaded>>

(* The loader returns true. *)
load_done ==
    /\ Loading /\ ld.sec > Len(ld.img.sects)
    /\ ld' = NoLoad
    /\ loaded' = loaded \cup {ld.img}
    /\ UNCHANGED pagingVars

Next ==
    \/ \E img \in Images : load(img)
    \/ load_page \/ load_fault \/ load_lost \/ next_section \/ load_fails \/ load_done
    \/ paging_map_page /\ UNCHANGED <<ld, loaded>>
    \/ /\ Idle /\ UNCHANGED ld
       /\ \/ \E v \in HeapPages :
                /\ heap_map_more(v) \/ paging_unmap_page(v)
                /\ loaded' = Untouched(v)
          \/ heap_lost /\ UNCHANGED loaded

Spec == Init /\ [][Next]_vars

-----------------------------------------------------------------------------
(* Page j of section s comes before page i of section r. *)
Before(s, j, r, i) == s < r \/ (s = r /\ j < i)

(* A later page of the image takes the place of page j of section s. *)
Replaced(img, s, j) ==
    \E r \in 1..Len(img.sects) : \E i \in 0..img.sects[r].memsz :
        /\ Takes(img, r) /\ PageIn(img, r, i)
        /\ Before(s, j, r, i) /\ PageAt(img, r, i) = PageAt(img, s, j)

(* Word k of a section stands at address a. *)
WordAt(img, s, k, a) ==
    LET page == paging_virt_to_phys((a \div Fanout) % Top4)
        sect == img.sects[s]
    IN /\ page \in Pages
       /\ k < sect.filesz => mem[page][a % Fanout] = FileWord(sect.file_off + k)
       /\ k >= sect.filesz /\ img.kind = "mira" => mem[page][a % Fanout] = Zero

(* A loaded image stays in memory as its file says: every word of every    *)
(* section is found behind the start of the page that the section's        *)
(* address lies in, and mira sections are zero behind what the file gives, *)
(* whatever the pages held before and whatever was loaded or mapped        *)
(* elsewhere since.  Of two pages of an image for the same address the     *)
(* later one counts.                                                       *)
ImageFaithful ==
    \A img \in loaded : \A s \in 1..Len(img.sects) :
        Takes(img, s) =>
            \A k \in 0..(img.sects[s].memsz - 1) :
                Replaced(img, s, k \div Fanout) \/
                WordAt(img, s, k, (img.sects[s].vaddr \div Fanout) * Fanout + k)
=============================================================================
