------------------------------- MODULE VfsProofs -------------------------------
(***************************************************************************)
(* Proofs about the file system of src/fs/vfs.c, for any names, depth,     *)
(* VFS_MAX_OPEN, word size, file size and any bytes written.               *)
(***************************************************************************)
EXTENDS Vfs, SequenceTheorems, WellFoundedInduction, NaturalsInduction, TLAPS

Descriptors == [used : BOOLEAN, node : Nodes, offset : 0..(Word - 1)]

(* The content of every node is a sequence of bytes, and the root is there. *)
Contents ==
    /\ data \in [Nodes -> Seq(Nat)]
    /\ <<>> \in tree

(* The inductive invariant. *)
IInv == TypeOK /\ Contents /\ TreeClosed /\ DescriptorsInFile

-----------------------------------------------------------------------------
(* Helpers *)

(* A non-empty set of natural numbers has a least element. *)
LEMMA LeastNat ==
    ASSUME NEW T \in SUBSET Nat, T # {}
    PROVE  \E x \in T : \A y \in T : x <= y
<1> DEFINE R == {ss \in Nat \X Nat : ss[1] < ss[2]}
<1>1. IsWellFoundedOn(R, Nat)
  BY NatLessThanWellFounded DEF OpToRel
<1>2. ASSUME NEW x \in Nat, NEW y \in Nat, y < x PROVE <<y, x>> \in R
  <2>1. <<y, x>> \in Nat \X Nat /\ <<y, x>>[1] < <<y, x>>[2]
    BY <1>2
  <2> QED
    BY <2>1, Zenon
<1> HIDE DEF R
<1>3. PICK x \in T : \A y \in T : ~ (<<y, x>> \in R)
  BY <1>1, WFMin
<1>4. ASSUME NEW y \in T PROVE x <= y
  <2>1. x \in Nat /\ y \in Nat
    OBVIOUS
  <2>2. ~(y < x)
    <3>1. SUFFICES ASSUME y < x PROVE FALSE
      OBVIOUS
    <3>2. <<y, x>> \in R
      BY <1>2, <2>1, <3>1
    <3>3. ~(<<y, x>> \in R)
      BY <1>3
    <3> QED
      BY <3>2, <3>3, Zenon
  <2> QED
    BY <2>1, <2>2
<1> QED
  BY <1>4

(* Nodes are the paths of limited depth. *)
LEMMA NodesAreSeqs == \A n : n \in Nodes <=> n \in Seq(Names) /\ Len(n) <= MaxDepth
<1>1. MaxDepth \in Nat
  BY VfsAssumption
<1>2. ASSUME NEW n \in Nodes PROVE n \in Seq(Names) /\ Len(n) <= MaxDepth
  <2>1. PICK k \in 0..MaxDepth : n \in [1..k -> Names]
    BY DEF Nodes
  <2>2. k \in Nat /\ k <= MaxDepth
    BY <1>1
  <2>3. n \in Seq(Names) /\ Len(n) = k
    BY <2>1, <2>2
  <2> QED
    BY <2>2, <2>3
<1>3. ASSUME NEW n \in Seq(Names), Len(n) <= MaxDepth PROVE n \in Nodes
  <2>1. Len(n) \in 0..MaxDepth /\ n \in [1..Len(n) -> Names]
    BY <1>1, <1>3
  <2> QED
    BY <2>1 DEF Nodes
<1> QED
  BY <1>2, <1>3

(* The beginnings of a path are nodes, each below the one before. *)
LEMMA Steps ==
    ASSUME NEW n \in Nodes, NEW i \in 0..Len(n)
    PROVE  /\ SubSeq(n, 1, i) \in Nodes
           /\ i = 0 => SubSeq(n, 1, i) = <<>>
           /\ i > 0 => Parent(SubSeq(n, 1, i)) = SubSeq(n, 1, i - 1)
<1>1. n \in Seq(Names) /\ Len(n) \in Nat /\ Len(n) <= MaxDepth /\ i \in Nat /\ MaxDepth \in Nat
  BY NodesAreSeqs, VfsAssumption
<1>2. ASSUME NEW j \in 0..Len(n)
      PROVE  /\ SubSeq(n, 1, j) \in Seq(Names) /\ Len(SubSeq(n, 1, j)) = j
             /\ \A k \in 1..j : SubSeq(n, 1, j)[k] = n[k]
  <2>1. \A k \in 1..j : n[k] \in Names
    BY <1>1
  <2>2. j \in Nat
    BY <1>1
  <2> QED
    BY <1>1, <2>1, <2>2, SubSeqProperties
<1>3. SubSeq(n, 1, i) \in Nodes
  <2>1. SubSeq(n, 1, i) \in Seq(Names) /\ Len(SubSeq(n, 1, i)) <= MaxDepth
    BY <1>1, <1>2
  <2> QED
    BY <2>1, NodesAreSeqs
<1>4. i = 0 => SubSeq(n, 1, i) = <<>>
  BY <1>2
<1>5. ASSUME i > 0 PROVE Parent(SubSeq(n, 1, i)) = SubSeq(n, 1, i - 1)
  <2> DEFINE m == SubSeq(n, 1, i)
             p == SubSeq(m, 1, i - 1)
             q == SubSeq(n, 1, i - 1)
  <2>1. /\ m \in Seq(Names) /\ Len(m) = i /\ \A k \in 1..i : m[k] = n[k]
    BY <1>2
  <2>2. i - 1 \in 0..Len(n) /\ i - 1 \in Nat
    BY <1>1, <1>5
  <2>3. q \in Seq(Names) /\ Len(q) = i - 1 /\ \A k \in 1..(i - 1) : q[k] = n[k]
    BY <1>2, <2>2
  <2> HIDE DEF m
  <2>4. p \in Seq(Names) /\ Len(p) = i - 1 /\ \A k \in 1..(i - 1) : p[k] = m[k]
    <3>1. \A k \in 1..(i - 1) : m[k] \in Names
      BY <1>1, <2>1
    <3> QED
      BY <1>1, <2>1, <2>2, <3>1, SubSeqProperties
  <2>5. \A k \in 1..(i - 1) : p[k] = q[k]
    BY <1>1, <2>1, <2>3, <2>4
  <2> HIDE DEF p, q
  <2>6. p = q
    BY <2>3, <2>4, <2>5, SeqEqual
  <2> QED
    BY <2>1, <2>6 DEF Parent, m, p, q
<1> QED
  BY <1>3, <1>4, <1>5

(* The lowest descriptor that is not in use. *)
LEMMA LowestUnused == ASSUME Unused # {} PROVE Min(Unused) \in Fds
<1>1. Unused \in SUBSET Nat /\ Unused \subseteq Fds
  BY DEF Unused, Fds
<1>2. \E x \in Unused : \A y \in Unused : x <= y
  BY <1>1, LeastNat
<1> QED
  BY <1>1, <1>2 DEF Min

(* Overwriting keeps a sequence of bytes: it is as long as the longer of   *)
(* the old content and the end of the chunk, and no byte outside of the    *)
(* chunk changes, if the chunk begins within the old content.              *)
LEMMA OverwrittenBytes ==
    ASSUME NEW old \in Seq(Nat), NEW off \in Nat, NEW chunk \in Seq(Nat), off <= Len(old)
    PROVE  /\ Overwritten(old, off, chunk) \in Seq(Nat)
           /\ Len(Overwritten(old, off, chunk)) >= Len(old)
           /\ Len(Overwritten(old, off, chunk)) >= off + Len(chunk)
           /\ \A m \in Nat : Len(old) <= m /\ off + Len(chunk) <= m
                               => Len(Overwritten(old, off, chunk)) <= m
           /\ \A i \in 1..Len(old) :
                 Overwritten(old, off, chunk)[i] # old[i] => off < i /\ i <= off + Len(chunk)
<1> DEFINE end == off + Len(chunk)
           size == IF end > Len(old) THEN end ELSE Len(old)
           new == Overwritten(old, off, chunk)
<1>1. /\ Len(old) \in Nat /\ Len(chunk) \in Nat /\ end \in Nat /\ size \in Nat
      /\ size >= Len(old) /\ size >= end /\ (size = Len(old) \/ size = end)
  OBVIOUS
<1>2. new = [i \in 1..size |-> IF off < i /\ i <= end THEN chunk[i - off]
                              ELSE IF i <= Len(old) THEN old[i] ELSE 0]
  BY DEF Overwritten
<1> HIDE DEF end, size, new
<1>3. ASSUME NEW i \in 1..size PROVE new[i] \in Nat
  <2>1. CASE off < i /\ i <= end
    <3>1. i - off \in 1..Len(chunk)
      BY <1>1, <2>1 DEF end
    <3>2. chunk[i - off] \in Nat
      BY <3>1
    <3> QED
      BY <1>2, <2>1, <3>2
  <2>2. CASE ~(off < i /\ i <= end)
    BY <1>1, <1>2, <2>2
  <2> QED
    BY <2>1, <2>2
<1>4. new \in [1..size -> Nat]
  BY <1>2, <1>3
<1>5. new \in Seq(Nat) /\ Len(new) = size
  BY <1>1, <1>4
<1>6. \A i \in 1..Len(old) : new[i] # old[i] => off < i /\ i <= end
  BY <1>1, <1>2
<1> QED
  BY <1>1, <1>5, <1>6 DEF new, end

-----------------------------------------------------------------------------
(* vfs_create_file *)

(* What is in the tree stays as it is, whatever is created and wherever    *)
(* the creation stops.                                                     *)
Kept ==
    /\ tree \subseteq tree'
    /\ \A n \in tree : type'[n] = type[n] /\ data'[n] = data[n]

(* The tree part of the invariant. *)
TreeInv ==
    /\ tree \subseteq Nodes
    /\ type \in [Nodes -> {"FILE", "DIR"}]
    /\ data \in [Nodes -> Seq(Nat)]
    /\ \A n \in Nodes : Len(data[n]) <= MaxSize
    /\ <<>> \in tree
    /\ TreeClosed

(* A creation extends the tree by a part of the path, from the top. *)
LEMMA CreateKeeps ==
    ASSUME TreeInv, NEW path \in Paths, vfs_create_file(path, <<>>)
    PROVE  TreeInv' /\ Kept
<1> DEFINE n == path.comps
           step(i) == SubSeq(n, 1, i)
<1>1. n \in Nodes /\ n \in Seq(Names) /\ Len(n) \in Nat
  BY NodesAreSeqs DEF Paths
<1>2. PICK k \in 0..Len(n) :
        LET new == {step(i) : i \in 1..k} \ tree
        IN /\ tree' = tree \cup new
           /\ type' = [m \in Nodes |-> IF m \notin new THEN type[m]
                                       ELSE IF m = n /\ ~path.slashes THEN "FILE" ELSE "DIR"]
           /\ data' = [m \in Nodes |-> IF m \notin new THEN data[m]
                                       ELSE IF m = n /\ ~path.slashes THEN <<>> ELSE <<>>]
  BY DEF vfs_create_file
<1> DEFINE new == {step(i) : i \in 1..k} \ tree
<1>3. \A i \in 1..k : i \in 0..Len(n) /\ i - 1 \in 0..Len(n) /\ i > 0
  BY <1>1
<1>4. \A i \in 1..k : step(i) \in Nodes
  BY <1>1, <1>3, Steps
<1>5. new \subseteq Nodes /\ \A m \in tree : m \notin new
  BY <1>4
<1>6. tree' \subseteq Nodes /\ tree \subseteq tree' /\ <<>> \in tree'
  BY <1>2, <1>5 DEF TreeInv
<1>7. type' \in [Nodes -> {"FILE", "DIR"}]
  BY <1>2 DEF TreeInv
<1>8. data' \in [Nodes -> Seq(Nat)] /\ \A m \in Nodes : Len(data'[m]) <= MaxSize
  <2>1. MaxSize \in Nat /\ <<>> \in Seq(Nat) /\ Len(<<>>) = 0
    BY VfsAssumption
  <2>2. data' = [m \in Nodes |-> IF m \notin new THEN data[m] ELSE <<>>]
    BY <1>2
  <2> HIDE DEF new
  <2> QED
    BY <2>1, <2>2 DEF TreeInv
<1>9. \A m \in tree : type'[m] = type[m] /\ data'[m] = data[m]
  BY <1>2, <1>5 DEF TreeInv
<1>10. TreeClosed'
  <2> SUFFICES ASSUME NEW m \in tree', m # <<>> PROVE Parent(m) \in tree'
    BY DEF TreeClosed
  <2>1. CASE m \in tree
    BY <1>6, <2>1 DEF TreeInv, TreeClosed
  <2>2. CASE m \notin tree
    <3>1. PICK i \in 1..k : m = step(i)
      BY <1>2, <2>2
    <3>2. Parent(m) = step(i - 1)
      BY <1>1, <1>3, <3>1, Steps
    <3>3. CASE i = 1
      <4>1. step(i - 1) = <<>>
        BY <1>1, <1>3, <3>3, Steps
      <4> QED
        BY <1>6, <3>2, <4>1
    <3>4. CASE i # 1
      <4>1. i - 1 \in 1..k
        BY <1>1, <3>4
      <4>2. step(i - 1) \in {step(j) : j \in 1..k}
        BY <4>1
      <4> QED
        BY <1>2, <3>2, <4>2
    <3> QED
      BY <3>3, <3>4
  <2> QED
    BY <2>1, <2>2
<1> QED
  BY <1>6, <1>7, <1>8, <1>9, <1>10 DEF TreeInv, Kept

(* A file system step that leaves the tree alone. *)
LEMMA SameTreeKeeps ==
    ASSUME TreeInv, UNCHANGED <<tree, type, data>>
    PROVE  TreeInv' /\ Kept
  BY DEF TreeInv, Kept, TreeClosed

-----------------------------------------------------------------------------
(* The actions preserve the invariant. *)

(* The invariant, by its parts. *)
LEMMA IInvParts ==
    IInv <=> /\ TreeInv
             /\ open_table \in [Fds -> Descriptors]
             /\ DescriptorsInFile
  BY Zenon DEF IInv, TypeOK, Contents, TreeInv, Descriptors

LEMMA IInvPartsNext ==
    IInv' <=> /\ TreeInv'
              /\ open_table' \in [Fds -> Descriptors]
              /\ DescriptorsInFile'
  BY Zenon DEF IInv, TypeOK, Contents, TreeInv, Descriptors

(* Descriptors that are as before stay in their file. *)
LEMMA DescriptorsKept ==
    ASSUME TreeInv, open_table \in [Fds -> Descriptors], DescriptorsInFile,
           TreeInv', Kept, NEW fd \in Fds, open_table'[fd] = open_table[fd],
           open_table[fd].used
    PROVE  /\ open_table'[fd].node \in tree'
           /\ type'[open_table'[fd].node] = "FILE"
           /\ open_table'[fd].offset <= SizeOf(fd)'
  BY DEF Kept, DescriptorsInFile, SizeOf

LEMMA MkdirIInv ==
    ASSUME IInv, NEW path \in Paths, builtin_mkdir(path)
    PROVE  IInv' /\ Kept
<1>1. /\ TreeInv /\ open_table \in [Fds -> Descriptors] /\ DescriptorsInFile
      /\ open_table' = open_table
  BY IInvParts DEF builtin_mkdir
<1>2. TreeInv' /\ Kept
  BY <1>1, CreateKeeps DEF builtin_mkdir
<1>3. DescriptorsInFile'
  BY <1>1, <1>2, DescriptorsKept DEF DescriptorsInFile
<1> QED
  BY <1>1, <1>2, <1>3, IInvPartsNext

(* vfs_open hands out a descriptor only for a file that is there. *)
LEMMA OpenIInv ==
    ASSUME IInv, NEW path \in Paths, NEW creat \in BOOLEAN, vfs_open(path, creat)
    PROVE  IInv' /\ Kept
<1> DEFINE n == path.comps
           d == [used |-> TRUE, node |-> n, offset |-> 0]
<1>1. TreeInv /\ open_table \in [Fds -> Descriptors] /\ DescriptorsInFile /\ n \in Nodes
  BY IInvParts DEF Paths
<1>2. TreeInv' /\ Kept
  <2>1. CASE vfs_create_file(path, <<>>)
    BY <1>1, <2>1, CreateKeeps
  <2>2. CASE UNCHANGED <<tree, type, data>>
    BY <1>1, <2>2, SameTreeKeeps
  <2> QED
    BY <2>1, <2>2 DEF vfs_open
<1>3. CASE open_table' = open_table
  <2>1. DescriptorsInFile'
    BY <1>1, <1>2, <1>3, DescriptorsKept DEF DescriptorsInFile
  <2> QED
    BY <1>1, <1>2, <1>3, <2>1, IInvPartsNext
<1>4. CASE /\ n \in tree' /\ type'[n] = "FILE" /\ Unused # {}
           /\ open_table' = [open_table EXCEPT ![Min(Unused)] = d]
  <2>1. Min(Unused) \in Fds
    BY <1>4, LowestUnused
  <2>2. d \in Descriptors
    <3>1. 0 \in 0..(Word - 1)
      BY VfsAssumption
    <3> QED
      BY <1>1, <3>1 DEF Descriptors
  <2>3. open_table' \in [Fds -> Descriptors]
    BY <1>1, <1>4, <2>2
  <2>4. ASSUME NEW fd \in Fds, open_table'[fd].used
        PROVE  /\ open_table'[fd].node \in tree'
               /\ type'[open_table'[fd].node] = "FILE"
               /\ open_table'[fd].offset <= SizeOf(fd)'
    <3>1. CASE fd = Min(Unused)
      <4>1. open_table'[fd] = d
        BY <1>1, <1>4, <2>1, <3>1
      <4>2. data'[n] \in Seq(Nat)
        BY <1>1, <1>2 DEF TreeInv
      <4>3. 0 <= Len(data'[n])
        BY <4>2
      <4> QED
        BY <1>4, <4>1, <4>3 DEF SizeOf
    <3>2. CASE fd # Min(Unused)
      <4>1. open_table'[fd] = open_table[fd]
        BY <1>1, <1>4, <3>2
      <4> QED
        BY <1>1, <1>2, <2>4, <4>1, DescriptorsKept
    <3> QED
      BY <3>1, <3>2
  <2> QED
    BY <1>2, <2>3, <2>4, IInvPartsNext DEF DescriptorsInFile
<1> QED
  BY <1>3, <1>4 DEF vfs_open

(* Closing, reading and seeking change one descriptor and no file. *)
LEMMA DescriptorIInv ==
    ASSUME IInv, NEW fd \in Fds, NEW d \in Descriptors,
           open_table' = [open_table EXCEPT ![fd] = d], UNCHANGED <<tree, type, data>>,
           d.used => /\ d.node \in tree /\ type[d.node] = "FILE"
                     /\ d.offset <= Len(data[d.node])
    PROVE  IInv' /\ Kept
<1>1. TreeInv /\ open_table \in [Fds -> Descriptors] /\ DescriptorsInFile
  BY IInvParts
<1>2. TreeInv' /\ Kept
  BY <1>1, SameTreeKeeps
<1>3. open_table' \in [Fds -> Descriptors]
  BY <1>1
<1>4. ASSUME NEW g \in Fds, open_table'[g].used
      PROVE  /\ open_table'[g].node \in tree'
             /\ type'[open_table'[g].node] = "FILE"
             /\ open_table'[g].offset <= SizeOf(g)'
  <2>1. CASE g = fd
    <3>1. open_table'[g] = d
      BY <1>1, <2>1
    <3> QED
      BY <1>4, <3>1 DEF SizeOf
  <2>2. CASE g # fd
    <3>1. open_table'[g] = open_table[g]
      BY <1>1, <2>2
    <3> QED
      BY <1>1, <1>2, <1>4, <3>1, DescriptorsKept
  <2> QED
    BY <2>1, <2>2
<1> QED
  BY <1>2, <1>3, <1>4, IInvPartsNext DEF DescriptorsInFile

(* What is known of a descriptor in use. *)
LEMMA UsedDescriptor ==
    ASSUME IInv, NEW fd \in Fds, open_table[fd].used
    PROVE  LET d == open_table[fd]
           IN /\ open_table \in [Fds -> Descriptors] /\ d \in Descriptors
              /\ d.node \in Nodes /\ d.node \in tree /\ type[d.node] = "FILE"
              /\ data[d.node] \in Seq(Nat) /\ SizeOf(fd) = Len(data[d.node])
              /\ SizeOf(fd) \in Nat /\ d.offset \in Nat /\ d.offset <= SizeOf(fd)
              /\ SizeOf(fd) <= MaxSize /\ MaxSize \in Nat /\ Word \in Nat /\ MaxSize < Word
<1> DEFINE d == open_table[fd]
<1>1. TreeInv /\ open_table \in [Fds -> Descriptors] /\ DescriptorsInFile
  BY IInvParts
<1>2. d \in Descriptors /\ d.node \in Nodes
  BY <1>1 DEF Descriptors
<1>3. MaxSize \in Nat /\ Word \in Nat /\ MaxSize < Word
  BY VfsAssumption
<1>4. d.offset \in Nat
  BY <1>2, <1>3 DEF Descriptors
<1>5. data[d.node] \in Seq(Nat) /\ Len(data[d.node]) <= MaxSize
  BY <1>1, <1>2 DEF TreeInv
<1> QED
  BY <1>1, <1>2, <1>3, <1>4, <1>5 DEF DescriptorsInFile, SizeOf

(* A descriptor moved within its file. *)
LEMMA OffsetIInv ==
    ASSUME IInv, NEW fd \in Fds, open_table[fd].used, NEW pos \in Nat, pos <= SizeOf(fd),
           open_table' = [open_table EXCEPT ![fd].offset = pos], UNCHANGED <<tree, type, data>>
    PROVE  IInv' /\ Kept
<1> DEFINE d == open_table[fd]
           e == [d EXCEPT !.offset = pos]
<1>1. /\ open_table \in [Fds -> Descriptors] /\ d \in Descriptors
      /\ d.node \in Nodes /\ d.node \in tree /\ type[d.node] = "FILE"
      /\ SizeOf(fd) = Len(data[d.node]) /\ SizeOf(fd) \in Nat
      /\ SizeOf(fd) <= MaxSize /\ MaxSize \in Nat /\ Word \in Nat /\ MaxSize < Word
  BY UsedDescriptor
<1>2. pos \in 0..(Word - 1)
  BY <1>1
<1>3. e \in Descriptors /\ e.node = d.node /\ e.offset = pos
  BY <1>1, <1>2 DEF Descriptors
<1>4. open_table' = [open_table EXCEPT ![fd] = e]
  BY <1>1
<1> HIDE DEF e
<1>5. e.node \in tree /\ type[e.node] = "FILE" /\ e.offset <= Len(data[e.node])
  BY <1>1, <1>3
<1> QED
  BY <1>3, <1>4, <1>5, DescriptorIInv

LEMMA CloseIInv ==
    ASSUME IInv, NEW fd \in Fds, vfs_close(fd)
    PROVE  IInv' /\ Kept
<1> DEFINE d == open_table[fd]
           e == [d EXCEPT !.used = FALSE]
<1>1. /\ open_table \in [Fds -> Descriptors] /\ d \in Descriptors
      /\ open_table' = [open_table EXCEPT ![fd].used = FALSE] /\ UNCHANGED <<tree, type, data>>
  BY UsedDescriptor DEF vfs_close
<1>2. e \in Descriptors /\ ~e.used
  BY <1>1 DEF Descriptors
<1>3. open_table' = [open_table EXCEPT ![fd] = e]
  BY <1>1
<1> HIDE DEF e
<1> QED
  BY <1>1, <1>2, <1>3, DescriptorIInv

(* A read ends at the end of the file at the latest. *)
LEMMA ReadIInv ==
    ASSUME IInv, NEW fd \in Fds, NEW count \in 0..MaxSize, vfs_read(fd, count)
    PROVE  IInv' /\ Kept
<1> DEFINE off == open_table[fd].offset
           size == SizeOf(fd)
           n == IF off >= size THEN 0 ELSE IF off + count > size THEN size - off ELSE count
<1>1. /\ open_table[fd].used
      /\ open_table' = [open_table EXCEPT ![fd].offset = off + n] /\ UNCHANGED <<tree, type, data>>
  BY DEF vfs_read
<1>2. off \in Nat /\ size \in Nat /\ off <= size /\ MaxSize \in Nat
  BY <1>1, UsedDescriptor
<1>3. off + n \in Nat /\ off + n <= size
  <2> HIDE DEF off, size
  <2> QED
    BY <1>2
<1> HIDE DEF n
<1> QED
  BY <1>1, <1>3, OffsetIInv

(* A position that wraps is compared with the size all the same. *)
LEMMA SeekIInv ==
    ASSUME IInv, NEW fd \in Fds, NEW offset \in 0..(Word - 1),
           NEW whence \in {"SET", "CUR", "END"}, vfs_lseek(fd, offset, whence)
    PROVE  IInv' /\ Kept
<1> DEFINE base == CASE whence = "SET" -> 0
                     [] whence = "CUR" -> open_table[fd].offset
                     [] whence = "END" -> SizeOf(fd)
           pos == (base + offset) % Word
<1>1. /\ open_table[fd].used /\ pos <= SizeOf(fd)
      /\ open_table' = [open_table EXCEPT ![fd].offset = pos] /\ UNCHANGED <<tree, type, data>>
  BY DEF vfs_lseek
<1>2. SizeOf(fd) \in Nat /\ open_table[fd].offset \in Nat /\ Word \in Nat /\ Word > 0
  BY <1>1, UsedDescriptor
<1>3. base \in Nat
  BY <1>2
<1> HIDE DEF base
<1>4. pos \in Nat
  BY <1>2, <1>3
<1> HIDE DEF pos
<1> QED
  BY <1>1, <1>4, OffsetIInv

(* A write lengthens its file or leaves its length, so the descriptors of  *)
(* others stay inside; its own ends behind what it wrote.                  *)
LEMMA WriteIInv ==
    ASSUME IInv, NEW fd \in Fds, NEW chunk \in Chunks, vfs_write(fd, chunk)
    PROVE  /\ IInv'
           /\ tree' = tree /\ type' = type
           /\ \A m \in tree : Len(data'[m]) >= Len(data[m])
           /\ \A m \in tree : \A i \in 1..Len(data[m]) :
                 data'[m][i] # data[m][i] =>
                     /\ open_table[fd].used /\ open_table[fd].node = m
                     /\ open_table[fd].offset < i /\ i <= open_table'[fd].offset
<1> DEFINE d == open_table[fd]
           n == d.node
           off == d.offset
           new == Overwritten(data[n], off, chunk)
           pos == off + Len(chunk)
           e == [d EXCEPT !.offset = pos]
<1>1. /\ d.used /\ pos <= MaxSize
      /\ data' = [data EXCEPT ![n] = new]
      /\ open_table' = [open_table EXCEPT ![fd].offset = pos]
      /\ tree' = tree /\ type' = type
  BY DEF vfs_write
<1>2. /\ open_table \in [Fds -> Descriptors] /\ d \in Descriptors
      /\ n \in Nodes /\ n \in tree /\ type[n] = "FILE" /\ data[n] \in Seq(Nat)
      /\ off \in Nat /\ off <= Len(data[n]) /\ Len(data[n]) <= MaxSize
      /\ MaxSize \in Nat /\ Word \in Nat /\ MaxSize < Word
  BY <1>1, UsedDescriptor
<1>3. chunk \in Seq(Nat) /\ Len(chunk) \in Nat
  BY VfsAssumption
<1>4. TreeInv /\ DescriptorsInFile
  BY IInvParts
<1>5. /\ new \in Seq(Nat) /\ Len(new) >= Len(data[n]) /\ Len(new) >= pos /\ Len(new) <= MaxSize
      /\ \A i \in 1..Len(data[n]) : new[i] # data[n][i] => off < i /\ i <= pos
  BY <1>1, <1>2, <1>3, OverwrittenBytes
<1> HIDE DEF new
<1>6. /\ data' \in [Nodes -> Seq(Nat)] /\ data'[n] = new
      /\ \A m \in Nodes : m # n => data'[m] = data[m]
  BY <1>1, <1>2, <1>4, <1>5 DEF TreeInv
<1>7. TreeInv'
  <2>1. \A m \in Nodes : Len(data'[m]) <= MaxSize
    BY <1>4, <1>5, <1>6 DEF TreeInv
  <2> QED
    BY <1>1, <1>4, <1>6, <2>1 DEF TreeInv, TreeClosed
<1>8. pos \in 0..(Word - 1)
  BY <1>1, <1>2, <1>3
<1> HIDE DEF pos
<1>9. /\ e \in Descriptors /\ e.node = n /\ e.offset = pos
      /\ open_table' = [open_table EXCEPT ![fd] = e]
  BY <1>1, <1>2, <1>8 DEF Descriptors
<1> HIDE DEF e
<1>10. open_table' \in [Fds -> Descriptors] /\ open_table'[fd] = e
       /\ \A g \in Fds : g # fd => open_table'[g] = open_table[g]
  BY <1>2, <1>9
<1>11. \A m \in tree : m \in Nodes /\ Len(data[m]) \in Nat /\ Len(data'[m]) \in Nat
                       /\ Len(data'[m]) >= Len(data[m])
  <2> SUFFICES ASSUME NEW m \in tree
               PROVE  m \in Nodes /\ Len(data[m]) \in Nat /\ Len(data'[m]) \in Nat
                       /\ Len(data'[m]) >= Len(data[m])
    OBVIOUS
  <2>1. m \in Nodes /\ data[m] \in Seq(Nat) /\ data'[m] \in Seq(Nat)
    BY <1>4, <1>6 DEF TreeInv
  <2>2. Len(data[m]) \in Nat /\ Len(data'[m]) \in Nat
    BY <2>1
  <2>3. CASE m = n
    BY <1>5, <1>6, <2>1, <2>2, <2>3
  <2>4. CASE m # n
    <3>1. data'[m] = data[m]
      BY <1>6, <2>1, <2>4
    <3> QED
      BY <2>1, <2>2, <3>1
  <2> QED
    BY <2>3, <2>4
<1>12. DescriptorsInFile'
  <2> SUFFICES ASSUME NEW g \in Fds, open_table'[g].used
               PROVE  /\ open_table'[g].node \in tree'
                      /\ type'[open_table'[g].node] = "FILE"
                      /\ open_table'[g].offset <= Len(data'[open_table'[g].node])
    BY DEF DescriptorsInFile, SizeOf
  <2>1. CASE g = fd
    BY <1>1, <1>2, <1>5, <1>6, <1>9, <1>10, <2>1
  <2>2. CASE g # fd
    <3> DEFINE h == open_table[g]
    <3>1. open_table'[g] = h /\ h.used
      BY <1>10, <2>2
    <3>2. h.node \in tree /\ type[h.node] = "FILE" /\ h.offset <= Len(data[h.node])
      BY <1>4, <3>1 DEF DescriptorsInFile, SizeOf
    <3>3. h.offset \in Nat
      <4>1. h \in Descriptors /\ Word \in Nat
        BY <1>2
      <4> QED
        BY <4>1 DEF Descriptors
    <3> HIDE DEF h
    <3>4. h.offset <= Len(data'[h.node])
      BY <1>11, <3>2, <3>3
    <3> QED
      BY <1>1, <3>1, <3>2, <3>4
  <2> QED
    BY <2>1, <2>2
<1>13. ASSUME NEW m \in tree, NEW i \in 1..Len(data[m]), data'[m][i] # data[m][i]
       PROVE  d.used /\ n = m /\ off < i /\ i <= open_table'[fd].offset
  <2>1. m = n
    BY <1>6, <1>11, <1>13
  <2> QED
    BY <1>1, <1>5, <1>6, <1>9, <1>10, <1>13, <2>1
<1> QED
  BY <1>1, <1>7, <1>10, <1>11, <1>12, <1>13, IInvPartsNext

-----------------------------------------------------------------------------
(* The theorems *)

LEMMA InitIInv == Init => IInv
<1> SUFFICES ASSUME Init PROVE IInv
  OBVIOUS
<1>1. MaxDepth \in Nat \ {0} /\ MaxSize \in Nat \ {0} /\ Word \in Nat /\ MaxSize < Word
      /\ RamfsFiles \subseteq Names
  BY VfsAssumption
<1>2. <<>> \in Nodes
  <2>1. <<>> \in Seq(Names) /\ Len(<<>>) <= MaxDepth
    BY <1>1
  <2> QED
    BY <2>1, NodesAreSeqs
<1>3. \A f \in RamfsFiles : <<f>> \in Nodes /\ Parent(<<f>>) = <<>>
  <2> SUFFICES ASSUME NEW f \in RamfsFiles PROVE <<f>> \in Nodes /\ Parent(<<f>>) = <<>>
    OBVIOUS
  <2>1. <<f>> \in Seq(Names) /\ Len(<<f>>) = 1
    BY <1>1
  <2>2. <<f>> \in Nodes
    <3>1. Len(<<f>>) <= MaxDepth
      BY <1>1, <2>1
    <3> QED
      BY <2>1, <3>1, NodesAreSeqs
  <2>3. Parent(<<f>>) = <<>>
    BY <2>1 DEF Parent
  <2> QED
    BY <2>2, <2>3
<1>4. tree \subseteq Nodes /\ <<>> \in tree
  BY <1>2, <1>3 DEF Init
<1>5. TreeClosed
  BY <1>3 DEF Init, TreeClosed
<1>6. data \in [Nodes -> Seq(Nat)] /\ \A n \in Nodes : Len(data[n]) <= MaxSize
  <2>1. <<>> \in Seq(Nat) /\ <<1>> \in Seq(Nat) /\ Len(<<>>) <= MaxSize /\ Len(<<1>>) <= MaxSize
    BY <1>1
  <2> QED
    BY <2>1 DEF Init
<1>7. type \in [Nodes -> {"FILE", "DIR"}]
  BY DEF Init
<1>8. open_table \in [Fds -> Descriptors] /\ \A fd \in Fds : ~open_table[fd].used
  <2>1. 0 \in 0..(Word - 1)
    BY <1>1
  <2>2. [used |-> FALSE, node |-> <<>>, offset |-> 0] \in Descriptors
    BY <1>2, <2>1 DEF Descriptors
  <2> QED
    BY <2>2 DEF Init
<1> QED
  BY <1>4, <1>5, <1>6, <1>7, <1>8, IInvParts DEF TreeInv, DescriptorsInFile

(* What a step does to the files, as NothingLost says it. *)
Lossless ==
    /\ tree \subseteq tree'
    /\ \A n \in tree : type'[n] = type[n] /\ Len(data'[n]) >= Len(data[n])
    /\ \A n \in tree : \A i \in 1..Len(data[n]) :
          data'[n][i] # data[n][i] =>
              \E fd \in Fds : /\ open_table[fd].used
                              /\ open_table[fd].node = n
                              /\ open_table[fd].offset < i
                              /\ i <= open_table'[fd].offset

LEMMA KeptIsLossless == ASSUME IInv, Kept PROVE Lossless
<1>1. \A n \in tree : Len(data[n]) \in Nat
  <2>1. TreeInv
    BY IInvParts
  <2>2. \A n \in tree : data[n] \in Seq(Nat)
    BY <2>1 DEF TreeInv
  <2> QED
    BY <2>2
<1> QED
  BY <1>1 DEF Kept, Lossless

(* Every step preserves the invariant and loses nothing. *)
LEMMA NextIInv == IInv /\ [Next]_vars => IInv' /\ Lossless
<1> SUFFICES ASSUME IInv, [Next]_vars PROVE IInv' /\ Lossless
  OBVIOUS
<1>1. CASE \E path \in Paths : builtin_mkdir(path)
  BY <1>1, MkdirIInv, KeptIsLossless
<1>2. CASE \E path \in Paths, creat \in BOOLEAN : vfs_open(path, creat)
  BY <1>2, OpenIInv, KeptIsLossless
<1>3. CASE \E fd \in Fds : vfs_close(fd)
  BY <1>3, CloseIInv, KeptIsLossless
<1>4. CASE \E fd \in Fds, count \in 0..MaxSize : vfs_read(fd, count)
  BY <1>4, ReadIInv, KeptIsLossless
<1>5. CASE \E fd \in Fds, chunk \in Chunks : vfs_write(fd, chunk)
  <2>1. PICK fd \in Fds, chunk \in Chunks : vfs_write(fd, chunk)
    BY <1>5
  <2>2. /\ IInv'
        /\ tree' = tree /\ type' = type
        /\ \A m \in tree : Len(data'[m]) >= Len(data[m])
        /\ \A m \in tree : \A i \in 1..Len(data[m]) :
              data'[m][i] # data[m][i] =>
                  /\ open_table[fd].used /\ open_table[fd].node = m
                  /\ open_table[fd].offset < i /\ i <= open_table'[fd].offset
    BY <2>1, WriteIInv
  <2> QED
    BY <2>2 DEF Lossless
<1>6. CASE \E fd \in Fds, offset \in 0..(Word - 1), whence \in {"SET", "CUR", "END"} :
              vfs_lseek(fd, offset, whence)
  BY <1>6, SeekIInv, KeptIsLossless
<1>7. CASE UNCHANGED vars
  <2>1. TreeInv /\ open_table \in [Fds -> Descriptors] /\ DescriptorsInFile
        /\ open_table' = open_table /\ UNCHANGED <<tree, type, data>>
    BY <1>7, IInvParts DEF vars
  <2>2. TreeInv' /\ Kept
    BY <2>1, SameTreeKeeps
  <2>3. DescriptorsInFile'
    BY <2>1, <2>2, DescriptorsKept DEF DescriptorsInFile
  <2> QED
    BY <2>1, <2>2, <2>3, IInvPartsNext, KeptIsLossless
<1> QED
  BY <1>1, <1>2, <1>3, <1>4, <1>5, <1>6, <1>7 DEF Next

LEMMA SpecIInv == Spec => []IInv
  BY InitIInv, NextIInv, PTL DEF Spec

(* vfs_create_file leaves a connected tree wherever kmalloc fails on the   *)
(* way down, and reads, writes and seeks leave every file within its       *)
(* bounds, for paths of any depth and any number of descriptors.           *)
THEOREM TreeIsSound == Spec => []TreeSound
<1>1. IInv => TreeSound
  BY DEF IInv, TreeSound
<1> QED
  BY <1>1, SpecIInv, PTL

(* A descriptor in use stands within a file of the tree, whatever other    *)
(* descriptors do to it, although vfs_lseek's sums wrap.                   *)
THEOREM DescriptorsStayInFile == Spec => []DescriptorsInFile
<1>1. IInv => DescriptorsInFile
  BY DEF IInv
<1> QED
  BY <1>1, SpecIInv, PTL

(* No step of vfs.c removes, shortens or retypes a node, or changes a byte *)
(* that no descriptor has just been moved over.                            *)
THEOREM NothingIsLost == Spec => NothingLost
<1>1. IInv /\ [Next]_vars => [Lossless]_vars
  BY NextIInv
<1> QED
  BY <1>1, SpecIInv, PTL DEF Spec, NothingLost, Lossless
=============================================================================
