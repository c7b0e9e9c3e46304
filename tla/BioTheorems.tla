----------------------------- MODULE BioTheorems -----------------------------
(***************************************************************************)
(* What the invariant of BioProof says of the buffer cache: with enough    *)
(* buffers bget() finds one, and the cache implements BlockStore.          *)
(***************************************************************************)
EXTENDS BioProof
------------------------------------------------------------------------------
(* bget() finds a buffer *)

\* There are more buffers than the log and the processes can hold at a time.
Enough == NBUF >= Cardinality(Procs) + MaxPinned

\* A process that has no buffer yet finds one: were all in use, each would belong
\* to another process or to the log, and no two to the same.
LEMMA BufferLeft ==
  ASSUME Inv, Enough, NEW p \in Procs, buf[p] = None
  PROVE  Unused # {}
<1> SUFFICES ASSUME Unused = {} PROVE FALSE
  OBVIOUS
<1> DEFINE Logged == {b \in Bufs : blockno[b] \in pinned}
           Taken == {b \in Bufs : Refs(b) # {}}
<1>1. Bufs = Logged \cup Taken
  <2>1. ASSUME NEW b \in Bufs PROVE refcnt[b] # 0
    BY DEF Inv, TypeOK, Unused
  <2>2. ASSUME NEW b \in Bufs, blockno[b] \notin pinned PROVE Refs(b) # {}
    BY <2>1, <2>2, RefsFinite DEF Inv, Counts
  <2>. QED BY <2>2
<1>2. IsFiniteSet(Logged) /\ Cardinality(Logged) <= Cardinality(pinned)
  <2> DEFINE f == [b \in Logged |-> blockno[b]]
  <2>1. f \in Injection(Logged, pinned)
    BY NoneIsNot DEF Injection, IsInjective, Inv, TypeOK, Single
  <2>. QED BY <2>1, FS_Injection DEF Inv, Pins
<1>3. IsFiniteSet(Taken) /\ Cardinality(Taken) <= Cardinality(Procs \ {p})
  <2> DEFINE f == [b \in Taken |-> CHOOSE q \in Procs : buf[q] = b]
  <2>1. ASSUME NEW b \in Taken PROVE f[b] \in Procs \ {p} /\ buf[f[b]] = b
    BY NoneIsNot DEF Refs
  <2>2. f \in Injection(Taken, Procs \ {p})
    <3>1. f \in [Taken -> Procs \ {p}]
      BY <2>1, ZenonT(20)
    <3> HIDE DEF f
    <3>. QED BY <2>1, <3>1, Zenon DEF Injection, IsInjective
  <2>3. IsFiniteSet(Procs \ {p})
    BY ConstantsAssumption, FS_RemoveElement
  <2>. QED BY <2>2, <2>3, FS_Injection
<1>4. /\ Cardinality(Procs \ {p}) = Cardinality(Procs) - 1
      /\ Cardinality(Procs) \in Nat /\ Cardinality(pinned) <= MaxPinned
      /\ Cardinality(pinned) \in Nat
  BY ConstantsAssumption, FS_RemoveElement, FS_CardinalityType DEF Inv, Pins
<1>5. Cardinality(Bufs) = NBUF
  BY ConstantsAssumption, FS_Interval DEF Bufs
<1> HIDE DEF Logged, Taken
<1>6. /\ Cardinality(Logged) \in Nat /\ Cardinality(Taken) \in Nat
      /\ Cardinality(Logged \cup Taken) <= Cardinality(Logged) + Cardinality(Taken)
  <2>1. Cardinality(Logged) \in Nat /\ Cardinality(Taken) \in Nat
    BY <1>2, <1>3, FS_CardinalityType
  <2>2. IsFiniteSet(Logged \cap Taken)
    BY <1>2, FS_Subset
  <2>3. Cardinality(Logged \cap Taken) \in Nat
    BY <2>2, FS_CardinalityType
  <2>4. Cardinality(Logged \cup Taken)
          = Cardinality(Logged) + Cardinality(Taken) - Cardinality(Logged \cap Taken)
    BY <1>2, <1>3, FS_Union
  <2>. QED BY <2>1, <2>3, <2>4
<1>7. NBUF <= Cardinality(Logged) + Cardinality(Taken)
  BY <1>1, <1>5, <1>6
<1>. QED BY <1>2, <1>3, <1>4, <1>6, <1>7, ConstantsAssumption DEF Enough

\* RefcntExact of Bio, for every number of buffers that is enough: the reference
\* counts are exact, the panic "bget: no buffers" is not reached, and a process
\* sleeps on the lock of a buffer only while another holds it.
THEOREM CountsExact ==
  ASSUME Enough
  PROVE  Spec => []RefcntExact
<1> DEFINE Calm == \A p \in Procs : pc[p] # "panic"
<1>1. Init => Calm
  BY SMTT(20) DEF Init
<1>2. Inv /\ Calm /\ [Next]_vars => Calm'
  <2> SUFFICES ASSUME Inv, Calm, [Next]_vars PROVE Calm'
    OBVIOUS
  <2>1. CASE UNCHANGED vars
    BY <2>1 DEF vars
  <2>2. ASSUME NEW p \in Procs, NEW k \in Blocks, bget(p, k) PROVE Calm'
    <3>1. Unused # {}
      BY <2>2, BufferLeft, SMTT(20) DEF Inv, Users, bget
    <3>. QED BY <2>2, <3>1, SMTT(20) DEF Inv, TypeOK, bget, goto
  <2>3. ASSUME NEW p \in Procs,
               acquiresleep(p) \/ bread(p) \/ bpin(p) \/ bwrite(p) \/ bunpin(p)
        PROVE  Calm'
    BY <2>3 DEF Inv, TypeOK, acquiresleep, bread, bpin, bwrite, bunpin, goto
  <2>4. ASSUME NEW p \in Procs, releasesleep(p) \/ brelse(p) \/ \E v \in Data : modify(p, v)
        PROVE  Calm'
    BY <2>4 DEF Inv, TypeOK, releasesleep, brelse, modify, goto
  <2>. QED BY <2>1, <2>2, <2>3, <2>4 DEF Next
<1>3. Inv /\ Calm => RefcntExact
  <2> SUFFICES ASSUME Inv, Calm PROVE RefcntExact
    OBVIOUS
  <2>1. ASSUME NEW p \in Procs, pc[p] = "asleep" PROVE locked[buf[p]] \notin {None, p}
    BY <2>1, NoneIsNot DEF Inv, Users, Locks, Locking, Holding
  <2>. QED BY <2>1 DEF Inv, Counts, Refs, RefcntExact
<1>. QED BY <1>1, <1>2, <1>3, Invariance, PTL DEF Spec
------------------------------------------------------------------------------
(* bread() takes a block, its holder changes it, releasesleep() gives it back, *)
(* and BlockStore sees no other step of the cache.                            *)

contents == [k \in Blocks |-> Content(k)]
holders == [k \in Blocks |->
              IF \E p \in Procs : want[p] = k /\ pc[p] \in Holding
                THEN CHOOSE p \in Procs : want[p] = k /\ pc[p] \in Holding
                ELSE None]

\* At most one buffer says what a block contains.
ContentIs ==
  \A k \in Blocks :
    /\ \A b \in Bufs : blockno[b] = k /\ valid[b] = 1 => contents[k] = data[b]
    /\ (\A b \in Bufs : ~(blockno[b] = k /\ valid[b] = 1)) => contents[k] = disk[k]

\* At most one process holds a block.
HolderIs ==
  \A k \in Blocks :
    /\ \A p \in Procs : want[p] = k /\ pc[p] \in Holding => holders[k] = p
    /\ (\A p \in Procs : ~(want[p] = k /\ pc[p] \in Holding)) => holders[k] = None

\* Single makes the choice of the buffer in Content unique.
LEMMA OneContent == Inv => ContentIs
<1> SUFFICES ASSUME Inv, NEW k \in Blocks, NEW b \in Bufs, blockno[b] = k, valid[b] = 1
             PROVE  Content(k) = data[b]
  BY DEF ContentIs, contents, Content
<1> DEFINE d == CHOOSE d \in Bufs : blockno[d] = k /\ valid[d] = 1
<1>1. d \in Bufs /\ blockno[d] = k
  OBVIOUS
<1>2. d = b
  BY <1>1, NoneIsNot DEF Inv, Single
<1>. QED BY <1>2, ZenonT(20) DEF Content

\* The sleep lock of the block's only buffer makes the choice of its holder unique.
LEMMA OneHolder == Inv => HolderIs
<1> SUFFICES ASSUME Inv, NEW k \in Blocks, NEW p \in Procs, want[p] = k, pc[p] \in Holding
             PROVE  holders[k] = p
  BY DEF HolderIs, holders
<1> DEFINE q == CHOOSE q \in Procs : want[q] = k /\ pc[q] \in Holding
<1>1. q \in Procs /\ want[q] = k /\ pc[q] \in Holding
  OBVIOUS
<1>2. q = p
  <2> HIDE DEF q
  <2>1. buf[p] \in Bufs /\ buf[q] \in Bufs /\ blockno[buf[p]] = k /\ blockno[buf[q]] = k
    BY <1>1 DEF Inv, Users, Holding
  <2>2. buf[p] = buf[q]
    BY <2>1, NoneIsNot DEF Inv, Single
  <2>. QED BY <1>1, <2>2 DEF Inv, Locks, Locking
<1>. QED BY <1>2 DEF holders

\* Both are functions on the blocks.
LEMMA OnBlocks ==
  /\ contents = [k \in Blocks |-> contents[k]] /\ holders = [k \in Blocks |-> holders[k]]
  /\ contents' = [k \in Blocks |-> contents'[k]]
  /\ holders' = [k \in Blocks |-> holders'[k]]
  BY SMTT(20) DEF contents, holders

\* A step that changes what no process holds.
LEMMA SameHolders ==
  ASSUME HolderIs, HolderIs', \A p \in Procs : pc'[p] \in Holding <=> pc[p] \in Holding,
         \A p \in Procs : pc[p] \in Holding => want'[p] = want[p]
  PROVE  holders' = holders
<1>1. ASSUME NEW k \in Blocks PROVE holders'[k] = holders[k]
  BY DEF HolderIs
<1>. QED BY <1>1 DEF holders

\* A step that changes no buffer and no disk block.
LEMMA SameContents ==
  ASSUME UNCHANGED <<blockno, valid, data, disk>>
  PROVE  contents' = contents
  BY DEF contents, Content

\* A step that changes no valid buffer of a block, and not the block on the disk.
LEMMA SameContent ==
  ASSUME ContentIs, ContentIs', NEW n \in Blocks, disk'[n] = disk[n],
         \A d \in Bufs :
           blockno'[d] = n /\ valid'[d] = 1 <=> blockno[d] = n /\ valid[d] = 1,
         \A d \in Bufs : blockno[d] = n /\ valid[d] = 1 => data'[d] = data[d]
  PROVE  contents'[n] = contents[n]
<1>1. ASSUME NEW d \in Bufs, blockno[d] = n, valid[d] = 1 PROVE contents'[n] = contents[n]
  <2>1. contents[n] = data[d]
    BY <1>1 DEF ContentIs
  <2>2. contents'[n] = data'[d]
    BY <1>1 DEF ContentIs
  <2>. QED BY <1>1, <2>1, <2>2
<1>2. ASSUME \A d \in Bufs : ~(blockno[d] = n /\ valid[d] = 1)
      PROVE  contents'[n] = contents[n]
  <2>1. contents[n] = disk[n]
    BY <1>2 DEF ContentIs
  <2>2. contents'[n] = disk'[n]
    BY <1>2 DEF ContentIs
  <2>. QED BY <2>1, <2>2
<1>. QED BY <1>1, <1>2

\* What one step of a process does to the store, and that it is one of its actions.
StoreStep == Store!Next \/ (contents' = contents /\ holders' = holders)

\* The actions of the store.
LEMMA StoreSteps ==
  ASSUME NEW n \in Blocks
  PROVE  /\ \A q \in Procs : Store!Take(q, n) => StoreStep
         /\ \A v \in Data : Store!Change(n, v) => StoreStep
         /\ Store!Give(n) => StoreStep
<1>1. ASSUME NEW q \in Procs, Store!Take(q, n) PROVE Store!Next
  BY <1>1 DEF Store!Next
<1>2. ASSUME NEW v \in Data, Store!Change(n, v) PROVE Store!Next
  BY <1>2 DEF Store!Next
<1>3. ASSUME Store!Give(n) PROVE Store!Next
  BY <1>3, SMTT(20) DEF Store!Next
<1>. QED BY <1>1, <1>2, <1>3 DEF StoreStep

\* A buffer is recycled that is as on the disk.
LEMMA Recycle_Store ==
  ASSUME Inv, ContentIs, ContentIs', HolderIs, HolderIs',
         NEW p \in Procs, NEW k \in Blocks, NEW b \in Bufs, Recycle(p, k, b)
  PROVE  contents' = contents /\ holders' = holders
<1>1. holders' = holders
  BY SameHolders DEF Recycle, goto, Inv, TypeOK, Holding
<1>2. Cardinality(Refs(b)) = 0 /\ blockno[b] \notin pinned
  BY RefsFinite, SMTT(20) DEF Recycle, Inv, Counts
<1>3. \A q \in Procs : buf[q] # b
  BY <1>2, RefsFinite, SMTT(20) DEF Refs
<1>4. valid[b] = 1 => data[b] = disk[blockno[b]]
  BY <1>2, <1>3 DEF Inv, Clean
<1>5. ASSUME NEW n \in Blocks PROVE contents'[n] = contents[n]
  <2>1. CASE n = k
    <3>0. \A d \in Bufs : blockno[d] # k
      BY DEF Recycle, Cached
    <3>1. contents[k] = disk[k]
      BY <3>0 DEF ContentIs
    <3>2. \A d \in Bufs : ~(blockno'[d] = k /\ valid'[d] = 1)
      BY SMTT(20) DEF Recycle, Cached, Inv, TypeOK
    <3>3. contents'[k] = disk'[k]
      BY <3>2, SMTT(20) DEF ContentIs
    <3>. QED BY <2>1, <3>1, <3>3, SMTT(20) DEF Recycle
  <2>2. CASE n # k /\ blockno[b] = n
    <3>1. \A d \in Bufs : ~(blockno'[d] = n)
      BY <2>2, NoneIsNot, SMTT(20) DEF Recycle, Inv, TypeOK, Single
    <3>2. contents'[n] = disk[n]
      <4>1. contents'[n] = disk'[n]
        BY <3>1, SMTT(20) DEF ContentIs
      <4>. QED BY <4>1 DEF Recycle
    <3>3. \A d \in Bufs : blockno[d] = n => d = b
      BY <2>2, NoneIsNot DEF Inv, Single
    <3>4. CASE valid[b] = 1
      <4>1. contents[n] = data[b]
        BY <2>2, <3>4 DEF ContentIs
      <4>. QED BY <1>4, <2>2, <3>2, <3>4, <4>1, SMTT(20)
    <3>5. CASE valid[b] # 1
      <4>1. contents[n] = disk[n]
        BY <3>3, <3>5 DEF ContentIs
      <4>. QED BY <3>2, <4>1
    <3>. QED BY <3>4, <3>5
  <2>3. CASE n # k /\ blockno[b] # n
    <3>1. \A d \in Bufs :
            blockno'[d] = n /\ valid'[d] = 1 <=> blockno[d] = n /\ valid[d] = 1
      BY <2>3 DEF Recycle, Inv, TypeOK
    <3>2. data' = data /\ disk' = disk
      BY DEF Recycle
    <3>. QED BY <3>1, <3>2, SameContent
  <2>. QED BY <2>1, <2>2, <2>3, SMTT(20)
<1>. QED BY <1>1, <1>5 DEF contents

\* bread() takes the block, and reads it from the disk if nobody has.
LEMMA bread_Store ==
  ASSUME Inv, ContentIs, ContentIs', HolderIs, HolderIs', NEW p \in Procs, bread(p)
  PROVE  StoreStep
<1>1. PICK k \in Blocks : /\ k = want[p] /\ buf[p] \in Bufs
                          /\ blockno[buf[p]] = k /\ locked[buf[p]] = p
  BY SMTT(20) DEF bread, Inv, Users, Locks, Locking
<1>2. ASSUME NEW q \in Procs, want[q] = k, pc[q] \in Holding PROVE FALSE
  <2>1. buf[q] \in Bufs /\ blockno[buf[q]] = k /\ locked[buf[q]] = q
    BY <1>2 DEF Inv, Users, Locks, Locking, Holding
  <2>2. buf[q] = buf[p]
    BY <1>1, <2>1, NoneIsNot DEF Inv, Single
  <2>. QED BY <1>1, <1>2, <2>1, <2>2, SMTT(20) DEF bread, Holding
<1>3. holders[k] = None
  BY <1>1, <1>2 DEF HolderIs
<1>4. holders' = [holders EXCEPT ![k] = p]
  <2>1. holders'[k] = p
    BY <1>1, SMTT(20) DEF HolderIs, bread, goto, Inv, TypeOK, Holding
  <2>2. ASSUME NEW n \in Blocks \ {k} PROVE holders'[n] = holders[n]
    <3>1. \A q \in Procs :
            want'[q] = n /\ pc'[q] \in Holding <=> want[q] = n /\ pc[q] \in Holding
      BY <1>1, <2>2, SMTT(20) DEF bread, goto, Inv, TypeOK, Holding
    <3>. QED BY <3>1 DEF HolderIs
  <2>. QED BY <2>1, <2>2, OnBlocks, SMTT(20)
<1>5. contents' = contents
  <2>1. ASSUME NEW n \in Blocks PROVE contents'[n] = contents[n]
    <3>1. CASE valid[buf[p]] # 0
      BY <3>1, SameContents, SMTT(20) DEF bread
    <3>2. CASE valid[buf[p]] = 0 /\ n # k
      <4>1. \A d \in Bufs : blockno[d] = n => valid'[d] = valid[d] /\ data'[d] = data[d]
        BY <1>1, <3>2, SMTT(20) DEF bread, Inv, TypeOK
      <4>2. blockno' = blockno /\ disk' = disk
        BY SMTT(20) DEF bread
      <4>. QED BY <4>1, <4>2, SameContent
    <3>3. CASE valid[buf[p]] = 0 /\ n = k
      <4>1. valid'[buf[p]] = 1 /\ data'[buf[p]] = disk[k] /\ blockno' = blockno
        BY <1>1, <3>3, SMTT(20) DEF bread, Inv, TypeOK
      <4>2. contents'[k] = disk[k]
        BY <1>1, <4>1, SMTT(20) DEF ContentIs
      <4>3. \A d \in Bufs : blockno[d] = k => d = buf[p]
        BY <1>1, NoneIsNot, SMTT(20) DEF Inv, Single
      <4>4. \A d \in Bufs : ~(blockno[d] = k /\ valid[d] = 1)
        BY <3>3, <4>3
      <4>5. contents[k] = disk[k]
        BY <4>4 DEF ContentIs
      <4>. QED BY <3>3, <4>2, <4>5
    <3>. QED BY <3>1, <3>2, <3>3, SMTT(20)
  <2>. QED BY <2>1 DEF contents
<1>6. Store!Take(p, k)
  BY <1>3, <1>4, <1>5 DEF Store!Take, contents, holders
<1>. QED BY <1>1, <1>6, StoreSteps, SMTT(20)

\* The holder's change is the store's.
LEMMA modify_Store ==
  ASSUME Inv, ContentIs, ContentIs', HolderIs, HolderIs',
         NEW p \in Procs, NEW v \in Data, modify(p, v)
  PROVE  StoreStep
<1>1. PICK k \in Blocks : /\ k = want[p] /\ buf[p] \in Bufs
                          /\ blockno[buf[p]] = k /\ valid[buf[p]] = 1 /\ pc[p] \in Holding
  BY SMTT(20) DEF modify, Inv, Users, Valid, Holding
<1>2. holders[k] # None
  BY <1>1, NoneIsNot DEF HolderIs
<1>3. holders' = holders
  BY SameHolders DEF modify, goto, Inv, TypeOK, Holding
<1>4. contents' = [contents EXCEPT ![k] = v]
  <2>1. contents'[k] = v
    <3>1. blockno'[buf[p]] = k /\ valid'[buf[p]] = 1 /\ data'[buf[p]] = v
      BY <1>1 DEF modify, Inv, TypeOK
    <3>. QED BY <1>1, <3>1 DEF ContentIs
  <2>2. ASSUME NEW n \in Blocks \ {k} PROVE contents'[n] = contents[n]
    <3>1. \A d \in Bufs : blockno[d] = n => data'[d] = data[d]
      BY <1>1, <2>2, SMTT(20) DEF modify, Inv, TypeOK
    <3>2. blockno' = blockno /\ valid' = valid /\ disk' = disk
      BY DEF modify
    <3>. QED BY <3>1, <3>2, SameContent
  <2>. QED BY <2>1, <2>2, OnBlocks, SMTT(20)
<1>5. Store!Change(k, v)
  BY <1>2, <1>3, <1>4, SMTT(20) DEF Store!Change, contents, holders
<1>. QED BY <1>1, <1>5, StoreSteps, SMTT(20)

\* bwrite() brings the disk up to the buffer, which the store does not see.
LEMMA write_Store ==
  ASSUME Inv, ContentIs, ContentIs', NEW p \in Procs, pc[p] \in Holding,
         disk' = [disk EXCEPT ![blockno[buf[p]]] = data[buf[p]]],
         UNCHANGED <<blockno, valid, data>>
  PROVE  contents' = contents
<1> DEFINE k == want[p]
<1>1. k \in Blocks /\ buf[p] \in Bufs /\ blockno[buf[p]] = k /\ valid[buf[p]] = 1
  BY DEF Inv, Users, Valid, Holding
<1>2. ASSUME NEW n \in Blocks PROVE contents'[n] = contents[n]
  <2>1. CASE n = k
    BY <1>1, <2>1, SMTT(20) DEF ContentIs
  <2>2. CASE n # k
    <3>1. disk'[n] = disk[n]
      BY <1>1, <2>2, SMTT(20) DEF Inv, TypeOK
    <3>. QED BY <3>1, SameContent
  <2>. QED BY <2>1, <2>2
<1>. QED BY <1>2 DEF contents

\* releasesleep() gives the block back; whom it wakes up holds nothing yet.
LEMMA releasesleep_Store ==
  ASSUME Inv, HolderIs, HolderIs', NEW p \in Procs, releasesleep(p)
  PROVE  StoreStep
<1>1. PICK k \in Blocks : k = want[p] /\ pc[p] \in Holding
  BY DEF releasesleep, Inv, Users, Holding
<1>2. holders[k] = p
  BY <1>1 DEF HolderIs
<1>3. \A q \in Procs : pc'[q] \in Holding <=> pc[q] \in Holding /\ q # p
  BY DEF releasesleep, Holding
<1>4. want' = want
  BY DEF releasesleep
<1>5. holders' = [holders EXCEPT ![k] = None]
  <2>1. holders'[k] = None
    <3>1. ASSUME NEW q \in Procs, want[q] = k, pc[q] \in Holding PROVE q = p
      BY <1>1, <1>2, <3>1 DEF HolderIs
    <3>. QED BY <1>1, <1>3, <1>4, <3>1 DEF HolderIs
  <2>2. ASSUME NEW n \in Blocks \ {k} PROVE holders'[n] = holders[n]
    BY <1>1, <1>3, <1>4, <2>2, SMTT(20) DEF HolderIs
  <2>. QED BY <2>1, <2>2, OnBlocks, SMTT(20)
<1>6. contents' = contents
  BY SameContents, SMTT(20) DEF releasesleep, bufs
<1>7. Store!Give(k)
  BY <1>2, <1>5, <1>6, NoneIsNot DEF Store!Give, contents, holders
<1>. QED BY <1>1, <1>7, StoreSteps

\* Every step of the cache is a step of the store, or one the store does not see.
LEMMA NextStore ==
  ASSUME Inv, ContentIs, ContentIs', HolderIs, HolderIs', [Next]_vars
  PROVE  StoreStep
<1>1. CASE UNCHANGED vars
  BY <1>1, SameHolders, SameContents DEF vars, bufs, StoreStep
<1>2. ASSUME NEW p \in Procs, NEW k \in Blocks, bget(p, k) PROVE StoreStep
  <2>1. CASE NoBuffers(p, k)
    <3>1. contents' = contents
      BY <2>1, SameContents DEF NoBuffers, bufs
    <3>. QED BY <2>1, <3>1, SameHolders DEF NoBuffers, goto, Inv, TypeOK, Holding, StoreStep
  <2>2. ASSUME NEW b \in Bufs, Hit(p, k, b) PROVE StoreStep
    <3>1. contents' = contents
      BY <2>2, SameContents DEF Hit
    <3>. QED BY <2>2, <3>1, SameHolders DEF Hit, goto, Inv, TypeOK, Holding, StoreStep
  <2>3. ASSUME NEW b \in Bufs, Recycle(p, k, b) PROVE StoreStep
    BY <2>3, Recycle_Store DEF StoreStep
  <2>. QED BY <1>2, <2>1, <2>2, <2>3, bget_Is DEF Inv
<1>3. ASSUME NEW p \in Procs, acquiresleep(p) PROVE StoreStep
  <2>1. contents' = contents
    BY <1>3, SameContents DEF acquiresleep, bufs
  <2>. QED BY <1>3, <2>1, SameHolders DEF acquiresleep, goto, Inv, TypeOK, Holding,
     StoreStep
<1>4. ASSUME NEW p \in Procs, bpin(p) PROVE StoreStep
  <2>1. contents' = contents
    BY <1>4, SameContents DEF bpin
  <2>. QED BY <1>4, <2>1, SameHolders, SMTT(20) DEF bpin, goto, Inv, TypeOK, Holding,
     StoreStep
<1>5. ASSUME NEW p \in Procs, bwrite(p) PROVE StoreStep
  <2>1. contents' = contents
    BY <1>5, write_Store, ZenonT(20) DEF bwrite, bufs, Holding
  <2>. QED BY <1>5, <2>1, SameHolders, SMTT(20) DEF bwrite, goto, Inv, TypeOK, Holding,
     StoreStep
<1>6. ASSUME NEW p \in Procs, bunpin(p) PROVE StoreStep
  <2>1. contents' = contents
    BY <1>6, write_Store, ZenonT(20) DEF bunpin, Holding
  <2>. QED BY <1>6, <2>1, SameHolders DEF bunpin, StoreStep
<1>7. ASSUME NEW p \in Procs, brelse(p) PROVE StoreStep
  <2>1. contents' = contents
    BY <1>7, SameContents DEF brelse
  <2>. QED BY <1>7, <2>1, SameHolders DEF brelse, goto, Inv, TypeOK, Holding, StoreStep
<1>. QED BY <1>1, <1>2, <1>3, <1>4, <1>5, <1>6, <1>7, bread_Store, modify_Store,
        releasesleep_Store, SMTT(20) DEF Next

\* Transparent, for every number of buffers: a cache that recycles, pins and lets
\* go of its locks on the way keeps for each block what its last holder left, and
\* gives it to one process at a time.
THEOREM CacheTransparent == Spec => Transparent
<1>1. Init => Store!Init
  <2> SUFFICES ASSUME Init PROVE Store!Init
    OBVIOUS
  <2>1. ASSUME NEW k \in Blocks PROVE contents[k] = disk[k] /\ holders[k] = None
    BY DEF Init, contents, Content, holders, Holding
  <2>2. contents \in [Blocks -> Data] /\ holders = [k \in Blocks |-> None]
    BY <2>1 DEF Init, contents, holders
  <2>. QED BY <2>2 DEF Store!Init, contents, holders
<1>2. StoreStep => [Store!Next]_<<contents, holders>>
  BY DEF StoreStep
<1>. QED BY <1>1, <1>2, Invariance, OneContent, OneHolder, NextStore, PTL
        DEF Spec, Transparent, Store!Spec, contents, holders
==============================================================================
