------------------------------- MODULE Blocks --------------------------------
(* The blocks of files: balloc, bfree, bmap, itrunc, readi and writei of     *)
(* kernel/fs.c, as filewrite of file.c calls them.  A file is used under its *)
(* lock, so a call on one is interleaved only with calls on others; they     *)
(* share the bitmap, which is in one buffer, so a look at it is one step.    *)
(* A block has BSIZE cells, of bytes or, in an indirect block, of addresses. *)
(* Log makes a call one transaction, of which logged counts the blocks.      *)
EXTENDS Integers, Sequences, FiniteSets, FiniteSetsExt

CONSTANTS
  Files,
  NBLOCKS,            \* blocks for data
  BSIZE,              \* cells of a block; also the addresses in an indirect block
  NDIRECT,
  MAXOPBLOCKS,        \* blocks a transaction may log
  BPB,                \* bits of the bitmap that one block of the disk holds
  MaxCalls            \* calls of writei and itrunc

VARIABLES
  bitmap,             \* blocks marked in use
  cells,              \* contents of the blocks
  addrs, size,        \* of each inode
  inside,             \* what each file's lock is held for
  logged,             \* what that call has given to log_write
  contents,           \* what each file contains, by the results of the calls
  freeingfree,        \* the panic of bfree
  calls

blocks == <<bitmap, cells, addrs, size, inside, logged, contents, freeingfree, calls>>

Numbers == 1..NBLOCKS
NINDIRECT == BSIZE
MAXFILE == NDIRECT + NINDIRECT
Zeros == [k \in 0..BSIZE - 1 |-> 0]
Idle == [op |-> "none"]

\* Mutant: no room for the 2 blocks of slop.
Chunk_Larger == ((MAXOPBLOCKS - 1 - 1) \div 2) * BSIZE

\* filewrite hands writei this much at most.
Chunk == ((MAXOPBLOCKS - 1 - 1 - 2) \div 2) * BSIZE

Init ==
  /\ bitmap = {}
  /\ cells = [b \in Numbers |-> Zeros]
  /\ addrs = [f \in Files |-> [k \in 0..NDIRECT |-> 0]]
  /\ size = [f \in Files |-> 0]
  /\ inside = [f \in Files |-> Idle]
  /\ logged = [f \in Files |-> {}]
  /\ contents = [f \in Files |-> <<>>]
  /\ freeingfree = FALSE
  /\ calls = 0

\* The disk as a call sees and changes it; log is what it gives to log_write.
Disk(f) == [bitmap |-> bitmap, cells |-> cells, addrs |-> addrs[f], log |-> logged[f], addr |-> 0]
BBLOCK(b) == <<"bitmap", b \div BPB>>

\* Mutant: no bzero().
balloc_NoZero(d) ==
  LET free == Numbers \ d.bitmap
      b == Min(free)
  IN  IF free = {} THEN [d EXCEPT !.addr = 0]
      ELSE [d EXCEPT !.addr = b, !.bitmap = @ \cup {b}, !.log = @ \cup {BBLOCK(b)}]

\* The first free block, zeroed, or 0.
balloc(d) ==
  LET free == Numbers \ d.bitmap
      b == Min(free)
  IN  IF free = {} THEN [d EXCEPT !.addr = 0]
      ELSE [d EXCEPT !.addr = b, !.bitmap = @ \cup {b}, !.cells[b] = Zeros,
                     !.log = @ \cup {BBLOCK(b), <<"block", b>>}]

\* Slot k of the inode, which is given a block if it has none.
Direct(d, k) ==
  IF d.addrs[k] # 0 THEN [d EXCEPT !.addr = d.addrs[k]]
  ELSE LET n == balloc(d) IN [n EXCEPT !.addrs[k] = n.addr]

\* The address of the nth block of the file, or 0.
bmap(d, bn) ==
  IF bn < NDIRECT THEN Direct(d, bn)
  ELSE LET i == Direct(d, NDIRECT)
           a == i.cells[i.addr][bn - NDIRECT]
           n == balloc(i)
       IN  IF i.addr = 0 THEN i
           ELSE IF a # 0 THEN [i EXCEPT !.addr = a]
           ELSE IF n.addr = 0 THEN n
           ELSE [n EXCEPT !.cells[i.addr][bn - NDIRECT] = n.addr, !.log = @ \cup {<<"block", i.addr>>}]

Becomes(f, d) ==
  /\ bitmap' = d.bitmap
  /\ cells' = d.cells
  /\ addrs' = [addrs EXCEPT ![f] = d.addrs]
  /\ logged' = [logged EXCEPT ![f] = d.log]
------------------------------------------------------------------------------
Smaller(m, n) == IF m < n THEN m ELSE n
Larger(m, n) == IF m > n THEN m ELSE n

\* The file s after n cells from off on have become v.
Over(s, off, n, v) ==
  [k \in 1..Larger(Len(s), off + n) |-> IF k > off /\ k <= off + n THEN v ELSE s[k]]

\* A call that is refused changes nothing.  Each call writes a byte of its own,
\* which is not the number of a block.
writei(f) ==
  /\ inside[f] = Idle /\ calls < MaxCalls
  /\ \E off \in 0..size[f], n \in 1..Chunk :
       /\ off + n <= MAXFILE * BSIZE
       /\ inside' = [inside EXCEPT ![f] = [op |-> "write", off |-> off, tot |-> 0, n |-> n, v |-> NBLOCKS + 1 + calls, ends |-> FALSE]]
  /\ calls' = calls + 1
  /\ UNCHANGED <<bitmap, cells, addrs, size, logged, contents, freeingfree>>

\* One turn of the loop: no block is left, the copy fails after k cells, or it
\* is complete.  A part that was copied stays in the buffer.
writei_block(f) ==
  /\ inside[f].op = "write" /\ ~inside[f].ends /\ inside[f].tot < inside[f].n
  /\ LET c == inside[f]
         off == c.off + c.tot
         d == bmap(Disk(f), off \div BSIZE)
         at == off % BSIZE
         m == Smaller(c.n - c.tot, BSIZE - at)
         Copied(k) == [d EXCEPT !.cells[d.addr] = [j \in 0..BSIZE - 1 |-> IF j \in at..at + k - 1 THEN c.v ELSE @[j]]]
     IN  \/ /\ d.addr = 0
            /\ Becomes(f, d)
            /\ inside' = [inside EXCEPT ![f].ends = TRUE]
            /\ UNCHANGED contents
         \/ \E k \in 0..m - 1 :
            /\ d.addr # 0
            /\ Becomes(f, Copied(k))
            /\ inside' = [inside EXCEPT ![f].ends = TRUE]
            /\ contents' = [contents EXCEPT ![f] = SubSeq(Over(@, off, k, c.v), 1, Larger(off, size[f]))]
         \/ /\ d.addr # 0
            /\ Becomes(f, [Copied(m) EXCEPT !.log = @ \cup {<<"block", d.addr>>}])
            /\ inside' = [inside EXCEPT ![f].tot = @ + m]
            /\ contents' = [contents EXCEPT ![f] = Over(@, off, m, c.v)]
  /\ UNCHANGED <<size, freeingfree, calls>>

\* Mutant: the size grows by what was asked for.
writei_end_Asked(f) ==
  /\ inside[f].op = "write" /\ (inside[f].ends \/ inside[f].tot = inside[f].n)
  /\ size' = [size EXCEPT ![f] = Larger(@, inside[f].off + inside[f].n)]
  /\ logged' = [logged EXCEPT ![f] = @ \cup {<<"inode", f>>}]
  /\ inside' = [inside EXCEPT ![f] = [op |-> "end_op"]]
  /\ UNCHANGED <<bitmap, cells, addrs, contents, freeingfree, calls>>

\* The size, and iupdate, which logs the block of the inode.
writei_end(f) ==
  /\ inside[f].op = "write" /\ (inside[f].ends \/ inside[f].tot = inside[f].n)
  /\ size' = [size EXCEPT ![f] = Larger(@, inside[f].off + inside[f].tot)]
  /\ logged' = [logged EXCEPT ![f] = @ \cup {<<"inode", f>>}]
  /\ inside' = [inside EXCEPT ![f] = [op |-> "end_op"]]
  /\ UNCHANGED <<bitmap, cells, addrs, contents, freeingfree, calls>>

end_op(f) ==
  /\ inside[f].op = "end_op"
  /\ inside' = [inside EXCEPT ![f] = Idle]
  /\ logged' = [logged EXCEPT ![f] = {}]
  /\ UNCHANGED <<bitmap, cells, addrs, size, contents, freeingfree, calls>>
------------------------------------------------------------------------------
itrunc(f) ==
  /\ inside[f] = Idle /\ calls < MaxCalls
  /\ inside' = [inside EXCEPT ![f] = [op |-> "trunc", i |-> 0]]
  /\ calls' = calls + 1
  /\ UNCHANGED <<bitmap, cells, addrs, size, logged, contents, freeingfree>>

bfree(f, b) ==
  /\ bitmap' = bitmap \ {b}
  /\ freeingfree' = (freeingfree \/ b \notin bitmap)
  /\ logged' = [logged EXCEPT ![f] = @ \cup {BBLOCK(b)}]

\* Step i of the loops: a direct block, then the entries of the indirect one,
\* then this; the entries stay in it when their blocks are free.
itrunc_block(f) ==
  /\ inside[f].op = "trunc" /\ inside[f].i <= MAXFILE
  /\ LET i == inside[f].i
         ind == addrs[f][NDIRECT]
         entry == IF ind = 0 THEN 0 ELSE cells[ind][i - NDIRECT]
         b == CASE i < NDIRECT -> addrs[f][i]
                [] i \in NDIRECT..MAXFILE - 1 -> entry
                [] i = MAXFILE -> ind
     IN  /\ IF b = 0 THEN UNCHANGED <<bitmap, freeingfree, logged>> ELSE bfree(f, b)
         /\ addrs' = CASE i < NDIRECT -> [addrs EXCEPT ![f][i] = 0]
                       [] i = MAXFILE -> [addrs EXCEPT ![f][NDIRECT] = 0]
                       [] OTHER -> addrs
  /\ inside' = [inside EXCEPT ![f].i = @ + 1]
  /\ UNCHANGED <<cells, size, contents, calls>>

itrunc_end(f) ==
  /\ inside[f].op = "trunc" /\ inside[f].i > MAXFILE
  /\ size' = [size EXCEPT ![f] = 0]
  /\ contents' = [contents EXCEPT ![f] = <<>>]
  /\ logged' = [logged EXCEPT ![f] = @ \cup {<<"inode", f>>}]
  /\ inside' = [inside EXCEPT ![f] = [op |-> "end_op"]]
  /\ UNCHANGED <<bitmap, cells, addrs, freeingfree, calls>>

Next ==
  \E f \in Files :
    writei(f) \/ writei_block(f) \/ writei_end(f) \/ end_op(f) \/ itrunc(f) \/ itrunc_block(f) \/ itrunc_end(f)
------------------------------------------------------------------------------
\* readi: n cells from off on, as far as the file goes and bmap finds blocks.
readi(f, off, n) ==
  LET len == IF off > size[f] THEN 0 ELSE Smaller(n, size[f] - off)
      d == [bn \in 0..MAXFILE - 1 |-> bmap(Disk(f), bn)]
      At(k) == d[(off + k - 1) \div BSIZE]
      tot == Max({k \in 0..len : \A j \in 1..k : At(j).addr # 0})
  IN  [k \in 1..tot |-> At(k).cells[At(k).addr][(off + k - 1) % BSIZE]]

\* Slots that hold an address, as <<where, address>>: of the inode, and of its
\* indirect block but for those itrunc is through with.
Slots(f) ==
  LET ind == addrs[f][NDIRECT]
      from == IF inside[f].op = "trunc" THEN Larger(inside[f].i - NDIRECT, 0) ELSE 0
  IN  {<<f, k, addrs[f][k]>> : k \in {k \in 0..NDIRECT : addrs[f][k] # 0}}
      \cup IF ind = 0 THEN {} ELSE {<<f, NDIRECT + 1 + j, cells[ind][j]>> : j \in {j \in from..NINDIRECT - 1 : cells[ind][j] # 0}}

\* A block marked in use belongs to one slot of one file, and a slot has a
\* block that is marked: none is lost when the disk is full or a copy fails,
\* none is in two files, and bfree does not panic.
BlocksOwned ==
  LET all == UNION {Slots(f) : f \in Files}
  IN  /\ ~freeingfree
      /\ bitmap = {s[3] : s \in all}
      /\ \A s, t \in all : s[3] = t[3] => s = t

\* A read returns what was written, and never what the block held for another
\* file before; it finds every block in place, so that it allocates none.
ReadsBack ==
  \A f \in Files : inside[f] = Idle =>
    /\ size[f] = Len(contents[f])
    /\ \A off \in 0..size[f] + 1, n \in 1..MAXFILE * BSIZE :
         readi(f, off, n) = SubSeq(contents[f], off + 1, Smaller(off + n, size[f]))
    /\ \A k \in 0..size[f] - 1 : bmap(Disk(f), k \div BSIZE).bitmap = bitmap

\* "write a few blocks at a time to avoid exceeding the maximum log transaction
\* size" (file.c): what filewrite does in one transaction logs no more than
\* MAXOPBLOCKS blocks, even if every bit it sets is in another block; nor does
\* a truncation, of a file that is as long as a file can be here.
FitsInLog == \A f \in Files : Cardinality(logged[f]) <= MAXOPBLOCKS
==============================================================================
