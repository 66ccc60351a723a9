---------------------------------- MODULE Vfs ----------------------------------
(***************************************************************************)
(* The in-memory file system: src/fs/vfs.c on the tree that                *)
(* src/fs/backend/ramfs.c sets up, and the shell commands that create      *)
(* nodes.  Calls are atomic: system calls run with interrupts masked.      *)
(*                                                                         *)
(* A node is the sequence of names that leads to it; vfs_find_child makes  *)
(* names unique in a directory.  Of a path string the components matter    *)
(* and whether it ends in two or more slashes (then vfs_create_file does   *)
(* not see the end behind its last component).  Components are at most 63  *)
(* characters.  size_t arithmetic wraps at Word.                           *)
(***************************************************************************)
EXTENDS Integers, Sequences, FiniteSets, FiniteSetsExt

CONSTANTS
    Names,      \* component names
    MaxDepth,   \* bound: components of a path
    MaxOpen,    \* VFS_MAX_OPEN
    Word,       \* 2^64
    MaxSize,    \* bound: size of a file (kmalloc cannot give more)
    Chunks,     \* the byte sequences that clients write
    RamfsFiles  \* the names of the files ramfs_init creates

ASSUME VfsAssumption ==
    /\ MaxDepth \in Nat \ {0}
    /\ MaxOpen \in Nat
    /\ MaxSize \in Nat \ {0}
    /\ Word \in Nat /\ MaxSize < Word
    /\ Chunks \subseteq Seq(Nat)
    /\ RamfsFiles \subseteq Names

Nodes == UNION {[1..n -> Names] : n \in 0..MaxDepth}
Paths == [comps : Nodes, slashes : BOOLEAN]
Fds == 0..(MaxOpen - 1)

Parent(n) == SubSeq(n, 1, Len(n) - 1)

VARIABLES
    tree,        \* the nodes reachable from root_node
    type,        \* VFS_TYPE_FILE or VFS_TYPE_DIR of each node
    data,        \* the content of each node; size is its length
    open_table   \* used, node and offset of each descriptor (flags are never read)

vars == <<tree, type, data, open_table>>

Init ==
    /\ tree = {<<>>} \cup {<<n>> : n \in RamfsFiles}
    /\ type = [n \in Nodes |-> IF n = <<>> THEN "DIR" ELSE "FILE"]
    /\ data = [n \in Nodes |-> IF n \in {<<f>> : f \in RamfsFiles} THEN <<1>> ELSE <<>>]
    /\ open_table = [fd \in Fds |-> [used |-> FALSE, node |-> <<>>, offset |-> 0]]

-----------------------------------------------------------------------------
(* Creating nodes *)

(* Mutant: the directories on the way are made last, after the file. *)
CreateFromTheEnd(path, bytes) ==
    LET n == path.comps
        step(i) == SubSeq(n, 1, i)
    IN \E k \in 0..Len(n) :
          LET new == {step(i) : i \in (k + 1)..Len(n)} \ tree
          IN /\ k > 0 => step(k) \notin tree
             /\ tree' = tree \cup new
             /\ type' = [m \in Nodes |-> IF m \notin new THEN type[m]
                                         ELSE IF m = n /\ ~path.slashes THEN "FILE" ELSE "DIR"]
             /\ data' = [m \in Nodes |-> IF m \in new THEN <<>> ELSE data[m]]

(* vfs_create_file walks the path and makes the missing nodes, the last    *)
(* one a file unless slashes follow it.  An existing node is kept, content *)
(* included, and may be a file even on the way.  When kmalloc fails for a  *)
(* node (or for the data of the last) the walk ends there, k nodes down.   *)
vfs_create_file(path, bytes) ==
    LET n == path.comps
        step(i) == SubSeq(n, 1, i)
    IN \E k \in 0..Len(n) :
          LET new == {step(i) : i \in 1..k} \ tree
          IN /\ k < Len(n) => step(k + 1) \notin tree
             /\ tree' = tree \cup new
             /\ type' = [m \in Nodes |-> IF m \notin new THEN type[m]
                                         ELSE IF m = n /\ ~path.slashes THEN "FILE" ELSE "DIR"]
             /\ data' = [m \in Nodes |-> IF m \notin new THEN data[m]
                                         ELSE IF m = n /\ ~path.slashes THEN bytes ELSE <<>>]

(* The shell's mkdir and touch: both make a file, unless the path ends in  *)
(* several slashes.                                                        *)
builtin_mkdir(path) ==
    /\ vfs_create_file(path, <<>>)
    /\ UNCHANGED open_table

-----------------------------------------------------------------------------
(* Descriptors *)

Unused == {fd \in Fds : ~open_table[fd].used}

(* vfs_open: a missing node is created first if asked for, also when there *)
(* turns out to be no free descriptor; directories are refused.            *)
vfs_open(path, creat) ==
    LET n == path.comps
    IN /\ IF n \notin tree /\ creat THEN vfs_create_file(path, <<>>)
                                    ELSE UNCHANGED <<tree, type, data>>
       /\ open_table' = IF n \in tree' /\ type'[n] = "FILE" /\ Unused # {}
                        THEN [open_table EXCEPT ![Min(Unused)] =
                                [used |-> TRUE, node |-> n, offset |-> 0]]
                        ELSE open_table

vfs_close(fd) ==
    /\ open_table[fd].used
    /\ open_table' = [open_table EXCEPT ![fd].used = FALSE]
    /\ UNCHANGED <<tree, type, data>>

SizeOf(fd) == Len(data[open_table[fd].node])

(* vfs_read of count bytes: what is left of the file, if less. *)
vfs_read(fd, count) ==
    /\ open_table[fd].used
    /\ LET off == open_table[fd].offset
           n == IF off >= SizeOf(fd) THEN 0
                ELSE IF off + count > SizeOf(fd) THEN SizeOf(fd) - off ELSE count
       IN open_table' = [open_table EXCEPT ![fd].offset = off + n]
    /\ UNCHANGED <<tree, type, data>>

(* Mutant: a file that has to grow starts from zeroes only. *)
OverwrittenFresh(old, off, chunk) ==
    LET end == off + Len(chunk)
    IN [i \in 1..(IF end > Len(old) THEN end ELSE Len(old)) |->
          IF off < i /\ i <= end THEN chunk[i - off]
          ELSE IF end <= Len(old) THEN old[i] ELSE 0]

(* The content after vfs_default_write: if it must grow, a zeroed copy of  *)
(* the new size that starts with the old bytes; then the chunk on top.     *)
Overwritten(old, off, chunk) ==
    LET end == off + Len(chunk)
    IN [i \in 1..(IF end > Len(old) THEN end ELSE Len(old)) |->
          IF off < i /\ i <= end THEN chunk[i - off]
          ELSE IF i <= Len(old) THEN old[i] ELSE 0]

(* vfs_write; a write for which kmalloc fails returns -1 and does nothing. *)
vfs_write(fd, chunk) ==
    /\ open_table[fd].used
    /\ chunk # <<>>
    /\ LET n == open_table[fd].node
           off == open_table[fd].offset
       IN /\ off + Len(chunk) <= MaxSize
          /\ data' = [data EXCEPT ![n] = Overwritten(data[n], off, chunk)]
          /\ open_table' = [open_table EXCEPT ![fd].offset = off + Len(chunk)]
    /\ UNCHANGED <<tree, type>>

(* Mutant: only the end-relative seek is compared with the size. *)
SeekUnchecked(fd, offset, whence) ==
    /\ open_table[fd].used
    /\ LET base == CASE whence = "SET" -> 0
                     [] whence = "CUR" -> open_table[fd].offset
                     [] whence = "END" -> SizeOf(fd)
           new_offset == (base + offset) % Word
       IN /\ whence = "END" => new_offset <= SizeOf(fd)
          /\ open_table' = [open_table EXCEPT ![fd].offset = new_offset]
    /\ UNCHANGED <<tree, type, data>>

(* vfs_lseek: a position beyond the end is refused.  A negative offset is  *)
(* a large size_t, and the sum wraps.                                      *)
vfs_lseek(fd, offset, whence) ==
    /\ open_table[fd].used
    /\ LET base == CASE whence = "SET" -> 0
                     [] whence = "CUR" -> open_table[fd].offset
                     [] whence = "END" -> SizeOf(fd)
           new_offset == (base + offset) % Word
       IN /\ new_offset <= SizeOf(fd)
          /\ open_table' = [open_table EXCEPT ![fd].offset = new_offset]
    /\ UNCHANGED <<tree, type, data>>

Next ==
    \/ \E path \in Paths : builtin_mkdir(path)
    \/ \E path \in Paths, creat \in BOOLEAN : vfs_open(path, creat)
    \/ \E fd \in Fds :
          \/ vfs_close(fd)
          \/ \E count \in 0..MaxSize : vfs_read(fd, count)
          \/ \E chunk \in Chunks : vfs_write(fd, chunk)
          \/ \E offset \in 0..(Word - 1), whence \in {"SET", "CUR", "END"} :
                vfs_lseek(fd, offset, whence)

Spec == Init /\ [][Next]_vars

-----------------------------------------------------------------------------

(* Type invariant of the tree and the descriptor table. *)
TypeOK ==
    /\ tree \subseteq Nodes
    /\ type \in [Nodes -> {"FILE", "DIR"}]
    /\ \A n \in Nodes : data[n] \in Seq(Nat) /\ Len(data[n]) <= MaxSize
    /\ open_table \in [Fds -> [used : BOOLEAN, node : Nodes, offset : 0..(Word - 1)]]

(* Every node hangs below a node of the tree, also after vfs_create_file   *)
(* has failed half way down a path.                                        *)
TreeClosed == \A n \in tree : n = <<>> \/ Parent(n) \in tree

(* The tree stays connected and files stay within their bounds, through    *)
(* creations that fail half way and reads and writes at any offset.        *)
TreeSound == TypeOK /\ TreeClosed

(* A descriptor in use names a file of the tree and stands within it, at   *)
(* most at its end, whatever other descriptors do to the same file: no     *)
(* read starts and no write leaves a hole beyond the content.              *)
DescriptorsInFile ==
    \A fd \in Fds : open_table[fd].used =>
        /\ open_table[fd].node \in tree
        /\ type[open_table[fd].node] = "FILE"
        /\ open_table[fd].offset <= SizeOf(fd)

(* Nothing is lost: nodes stay, keep their type and never get shorter, and *)
(* the content of a file changes only between the old and the new position *)
(* of one of its descriptors.                                              *)
NothingLost ==
    [][ /\ tree \subseteq tree'
        /\ \A n \in tree : type'[n] = type[n] /\ Len(data'[n]) >= Len(data[n])
        /\ \A n \in tree : \A i \in 1..Len(data[n]) :
              data'[n][i] # data[n][i] =>
                  \E fd \in Fds : /\ open_table[fd].used
                                  /\ open_table[fd].node = n
                                  /\ open_table[fd].offset < i
                                  /\ i <= open_table'[fd].offset ]_vars
=============================================================================
