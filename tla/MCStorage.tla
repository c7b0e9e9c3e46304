------------------------------ MODULE MCStorage ------------------------------
(* Instances for TLC of what hands out storage: pages of memory and address  *)
(* spaces (Vm), the heap of a process (Umalloc), inodes (Inode), directories *)
(* (Tree) and the blocks of a file (Blocks).  They share no state: "runs"    *)
(* says of which of Stores a behaviour is.                                   *)
EXTENDS Vm, TLC

CONSTANTS
  Stores,
  prog, HeapEnd, MinCore, MaxUnits, SbrkUnits,          \* for Vm, of Umalloc
  Callers, Names, NINODES, NINODE, None,                \* of Inode
  elem, TreeInodes,                                     \* for Tree
  NBLOCKS, BSIZE, NDIRECT, MAXOPBLOCKS, BPB, MaxFileCalls   \* of Blocks

ASSUME InodeAssumption ==
  /\ NINODES \in Nat /\ NINODE \in Nat
  /\ None \notin Callers /\ None \notin Names /\ None \notin Int

\* The variables of Vm and these hold the state of the store that a behaviour is
\* of; the substitutions say which holds what.
VARIABLES runs, v1, v2, v3, v4, v5, v6

all == <<vars, runs, v1, v2, v3, v4, v5, v6>>

H == INSTANCE Umalloc WITH
       ptr <- v1, size <- v2, freep <- v3, brk <- v4, used <- v5, own <- v6

I == INSTANCE Inode WITH
       Procs <- Callers,
       dir <- v1, dlock <- v2, dtype <- v3, dnlink <- v4, inum <- v5, ref <- v6,
       valid <- freelist, nlink <- mem, lock <- pagetable, op <- trapframe, name <- sz,
       new <- f, ip <- panicked, dup <- npages, file <- calls

\* Paths of one name, of two, and of none.
MCPaths ==
  {[abs |-> FALSE, elems |-> <<elem>>], [abs |-> TRUE, elems |-> <<elem, elem>>],
   [abs |-> FALSE, elems |-> <<"..">>], [abs |-> TRUE, elems |-> <<>>]}

T == INSTANCE Tree WITH
       Procs <- Callers, Names <- {elem}, NINODES <- TreeInodes, Paths <- MCPaths,
       type <- v1, nlink <- v2, entries <- v3, dotdot <- v4, cwd <- v5, at <- v6,
       valid <- freelist, lock <- pagetable, op <- trapframe, path <- sz,
       ip <- f, old <- panicked, lost <- npages

B == INSTANCE Blocks WITH
       Files <- Names, MaxCalls <- MaxFileCalls,
       bitmap <- v1, cells <- v2, addrs <- v3, size <- v4, inside <- v5, logged <- v6,
       contents <- mem, freeingfree <- panicked

Symmetry == Permutations(Callers) \cup Permutations(Names)

Seg(vaddr, memsz, filesz, perm) ==
  [vaddr |-> vaddr, memsz |-> memsz, filesz |-> filesz, perm |-> perm]

\* A page of read-only text, with a segment inside it; and text and data.
MCPrograms ==
  {[val |-> prog, segs |-> <<Seg(0, 2, 1, {"X"}), Seg(0, 1, 1, {})>>],
   [val |-> prog, segs |-> <<Seg(0, 1, 1, {"X"}), Seg(2, 1, 0, {"W"})>>]}

MCSbrkArgs == {-3, -1, 3}

\* What neither the heap nor the blocks use.
NotUsed == freelist = 0 /\ pagetable = 0 /\ trapframe = 0 /\ sz = 0 /\ pc = 0 /\ f = 0 /\ npages = 0

StorageInit ==
  /\ runs \in Stores
  /\ \/ runs = "pages" /\ Init /\ v1 = 0 /\ v2 = 0 /\ v3 = 0 /\ v4 = 0 /\ v5 = 0 /\ v6 = 0
     \/ runs = "heap" /\ H!Init /\ NotUsed /\ mem = 0 /\ panicked = 0 /\ calls = 0
     \/ runs = "inodes" /\ I!Init
     \/ runs = "tree" /\ T!Init /\ mem = 0 /\ calls = 0
     \/ runs = "blocks" /\ B!Init /\ NotUsed

\* All the calls that a behaviour of Blocks may have are over.
Over == calls = MaxFileCalls /\ \A n \in Names : v5[n] = B!Idle

\* A behaviour of Tree is followed until its properties promise nothing more.
StorageNext ==
  /\ runs' = runs
  /\ \/ runs = "pages" /\ Next /\ UNCHANGED <<v1, v2, v3, v4, v5, v6>>
     \/ runs = "heap" /\ H!Next /\ UNCHANGED vars
     \/ runs = "inodes" /\ I!Next
     \/ runs = "tree" /\ ~T!Lost /\ T!Next /\ UNCHANGED <<mem, calls>>
     \/ runs = "tree" /\ T!Lost /\ UNCHANGED all
     \/ runs = "blocks" /\ B!Next /\ UNCHANGED <<freelist, procs, pc, f, npages>>
     \/ runs = "blocks" /\ Over /\ UNCHANGED all

StorageSpec == StorageInit /\ [][StorageNext]_all
------------------------------------------------------------------------------
\* Every page of memory is held in exactly one place: PagesAccounted of Vm.
PagesOwned == runs = "pages" => PagesAccounted

\* No panic() of the page-table code, of fs.c or of sysfile.c is reached, and iput()
\* does not block with itable.lock held: NoPanic of Vm and of Inode.
NoPanics == (runs = "pages" => NoPanic) /\ (runs = "inodes" => I!NoPanic)

\* The memory of a process changes only as its own calls say, and all at once:
\* AddressSpaces of Vm.
SpacesChange == (runs = "pages" => Space!Init) /\ [][runs = "pages" => Space!Next]_Images

\* The blocks of malloc share no unit, none is lost, and free blocks that touch
\* are one: HeapSound of Umalloc.
HeapSound == runs = "heap" => H!HeapSound

\* References to inodes are counted exactly, and an inode's link count is the number
\* of its names: RefExact and LinksExact of Inode.
InodesCounted == runs = "inodes" => I!RefExact /\ I!LinksExact

\* The directories are a tree at every step: TreeKept of Tree.
TreeKept ==
  /\ [](runs = "tree" /\ ~T!Lost => T!TreeShape)
  /\ [][runs = "tree" /\ ~T!Lost => T!RemovesEmpty]_all

\* No process has a pointer to a free inode: PointersLive of Tree.
PointersLive == runs = "tree" => T!PointersLive

\* No inode is left without name and file: UnlinkedFreed of Inode.
UnlinkedFreed == runs = "inodes" => I!UnlinkedFreed

\* A block in use has one place in one file: BlocksOwned of Blocks.
BlocksOwned == runs = "blocks" => B!BlocksOwned

\* A read returns what was written: ReadsBack of Blocks.
ReadsBack == runs = "blocks" => B!ReadsBack

\* A transaction of filewrite fits in the log: FitsInLog of Blocks.
FitsInLog == runs = "blocks" => B!FitsInLog
==============================================================================
