------------------------------ MODULE BioProof -------------------------------
(***************************************************************************)
(* An inductive invariant of the buffer cache, for every number of         *)
(* buffers, every finite set of processes and every set of blocks.         *)
(***************************************************************************)
EXTENDS Bio, FiniteSetTheorems, TLAPS

\* Where a process holds the sleep lock of its buffer.
Locking == Holding \cup {"fill"}

\* No block is in two buffers.
Single == \A b, d \in Bufs : blockno[b] = blockno[d] /\ blockno[b] # None => b = d

\* A process between bget() and brelse() has the buffer of the block it asked for.
Users ==
  \A p \in Procs :
    /\ pc[p] \in {"idle", "panic"} => buf[p] = None
    /\ pc[p] = "idle" => want[p] = None
    /\ pc[p] \notin {"idle", "panic"} =>
         buf[p] \in Bufs /\ want[p] \in Blocks /\ blockno[buf[p]] = want[p]

\* Who holds a sleep lock, and who waits for one.
Locks ==
  /\ \A p \in Procs : pc[p] \in Locking => locked[buf[p]] = p
  /\ \A b \in Bufs : locked[b] # None => buf[locked[b]] = b /\ pc[locked[b]] \in Locking
  /\ \A p \in Procs : pc[p] = "asleep" => locked[buf[p]] # None

\* What was read, and what is in the log, is in the cache.
Valid ==
  /\ \A b \in Bufs : valid[b] = 1 => blockno[b] # None
  /\ \A p \in Procs : pc[p] \in Holding => valid[buf[p]] = 1
  /\ \A k \in pinned : \E b \in Bufs : blockno[b] = k /\ valid[b] = 1

\* A buffer that nobody modifies and the log does not pin is as on the disk.
Clean ==
  \A b \in Bufs :
    /\ valid[b] = 1 /\ blockno[b] \notin pinned
    /\ \A p \in Procs : buf[p] = b => pc[p] # "modified"
    => data[b] = disk[blockno[b]]

\* The processes with a reference to b, and the count of them and of the log.
Refs(b) == {p \in Procs : buf[p] = b}

Counts ==
  \A b \in Bufs :
    refcnt[b] = Cardinality(Refs(b)) + (IF blockno[b] \in pinned THEN 1 ELSE 0)

\* The log's bound.
Pins == IsFiniteSet(pinned) /\ Cardinality(pinned) <= MaxPinned

\* The inductive invariant.
Inv == TypeOK /\ Single /\ Users /\ Locks /\ Valid /\ Clean /\ Counts /\ Pins

\* None is no buffer, no block and no process.
LEMMA NoneIsNot == None \notin Bufs /\ None \notin Blocks /\ None \notin Procs
  BY ConstantsAssumption DEF Bufs

\* Few processes have a reference.
LEMMA RefsFinite ==
  ASSUME NEW b
  PROVE  /\ IsFiniteSet(Refs(b)) /\ Cardinality(Refs(b)) \in Nat
         /\ Cardinality(Refs(b)) = 0 <=> Refs(b) = {}
<1>1. IsFiniteSet(Refs(b))
  BY ConstantsAssumption, FS_Subset DEF Refs
<1>. QED BY <1>1, FS_CardinalityType, FS_EmptySet

\* A process gets a reference.
LEMMA RefAdded ==
  ASSUME TypeOK, NEW p \in Procs, NEW b \in Bufs,
         buf[p] = None, buf' = [buf EXCEPT ![p] = b]
  PROVE  /\ Cardinality(Refs(b)') = Cardinality(Refs(b)) + 1
         /\ \A d \in Bufs \ {b} : Refs(d)' = Refs(d)
<1>1. Refs(b)' = Refs(b) \cup {p} /\ p \notin Refs(b)
  BY NoneIsNot DEF Refs, TypeOK
<1>2. Cardinality(Refs(b) \cup {p}) = Cardinality(Refs(b)) + 1
  BY <1>1, RefsFinite, FS_AddElement, ZenonT(20)
<1>3. \A d \in Bufs \ {b} : Refs(d)' = Refs(d)
  BY NoneIsNot DEF Refs, TypeOK
<1>. QED BY <1>1, <1>2, <1>3

\* A process drops its reference.
LEMMA RefDropped ==
  ASSUME TypeOK, NEW p \in Procs, NEW b \in Bufs,
         buf[p] = b, buf' = [buf EXCEPT ![p] = None]
  PROVE  /\ Cardinality(Refs(b)') = Cardinality(Refs(b)) - 1
         /\ \A d \in Bufs \ {b} : Refs(d)' = Refs(d)
<1>1. Refs(b)' = Refs(b) \ {p} /\ p \in Refs(b)
  BY NoneIsNot DEF Refs, TypeOK
<1>2. Cardinality(Refs(b) \ {p}) = Cardinality(Refs(b)) - 1
  BY <1>1, RefsFinite, FS_RemoveElement, ZenonT(20)
<1>3. \A d \in Bufs \ {b} : Refs(d)' = Refs(d)
  BY NoneIsNot DEF Refs, TypeOK
<1>. QED BY <1>1, <1>2, <1>3

\* A count of 0 means that neither a process nor the log has the buffer.
LEMMA CountOf0 ==
  ASSUME Inv, NEW b \in Bufs, refcnt[b] = 0
  PROVE  Refs(b) = {} /\ blockno[b] \notin pinned
  BY RefsFinite DEF Inv, Counts

\* A process and the log are counted.
LEMMA CountOf1 ==
  ASSUME Inv, NEW b \in Bufs, Refs(b) # {} \/ blockno[b] \in pinned
  PROVE  refcnt[b] \in Nat \ {0}
  BY RefsFinite DEF Inv, Counts

\* Moving a buffer to the front keeps the list whole.
LEMMA ToFrontKeeps ==
  ASSUME NBUF \in Nat \ {0}, lru \in [1..NBUF -> Bufs],
         \A b \in Bufs : \E i \in 1..NBUF : lru[i] = b,
         NEW b \in Bufs
  PROVE  /\ ToFront(b) \in [1..NBUF -> Bufs]
         /\ \A d \in Bufs : \E i \in 1..NBUF : ToFront(b)[i] = d
<1> DEFINE i == CHOOSE i \in 1..NBUF : lru[i] = b
           l == [j \in 1..NBUF |-> IF j = 1 THEN b
                                   ELSE IF j <= i THEN lru[j - 1] ELSE lru[j]]
<1>1. i \in 1..NBUF /\ lru[i] = b
  OBVIOUS
<1>2. ToFront(b) = l
  BY DEF ToFront
<1> HIDE DEF i
<1>3. l \in [1..NBUF -> Bufs]
  BY <1>1
<1>4. ASSUME NEW d \in Bufs PROVE \E j \in 1..NBUF : l[j] = d
  <2>1. PICK j \in 1..NBUF : lru[j] = d
    OBVIOUS
  <2>2. CASE j = i
    BY <1>1, <2>1, <2>2
  <2>3. CASE j < i
    <3>1. j + 1 \in 1..NBUF /\ j + 1 # 1 /\ j + 1 <= i /\ (j + 1) - 1 = j
      BY <1>1, <2>3
    <3>. QED BY <2>1, <3>1
  <2>4. CASE j > i
    BY <1>1, <2>1, <2>4
  <2>. QED BY <1>1, <2>2, <2>3, <2>4
<1>. QED BY <1>2, <1>3, <1>4

\* The three outcomes of bget(): the block is cached in b, b is recycled for it, and
\* the panic.
Hit(p, k, b) ==
  /\ pc[p] = "idle" /\ blockno[b] = k
  /\ refcnt' = [refcnt EXCEPT ![b] = @ + 1]
  /\ buf' = [buf EXCEPT ![p] = b]
  /\ pc' = goto(p, "acquire")
  /\ want' = [want EXCEPT ![p] = k]
  /\ UNCHANGED <<blockno, valid, data, lru, locked, disk, pinned>>

Recycle(p, k, b) ==
  /\ pc[p] = "idle" /\ ~Cached(k) /\ refcnt[b] = 0
  /\ blockno' = [blockno EXCEPT ![b] = k]
  /\ valid' = [valid EXCEPT ![b] = 0]
  /\ refcnt' = [refcnt EXCEPT ![b] = 1]
  /\ buf' = [buf EXCEPT ![p] = b]
  /\ pc' = goto(p, "acquire")
  /\ want' = [want EXCEPT ![p] = k]
  /\ UNCHANGED <<data, lru, locked, disk, pinned>>

NoBuffers(p, k) ==
  /\ pc[p] = "idle" /\ Unused = {}
  /\ pc' = goto(p, "panic")
  /\ want' = [want EXCEPT ![p] = k]
  /\ UNCHANGED <<bufs, locked, disk, pinned, buf>>

\* A set of positions has a last one.
LEMMA LastOf ==
  ASSUME NEW n \in Nat, NEW S, S \subseteq 1..n, S # {}
  PROVE  \E i \in S : \A j \in S : j <= i
<1> DEFINE R == {m \in Nat \X Nat : m[1] < m[2]}
           T == {m \in Nat : n - m \in S}
<1>1. IsWellFoundedOn(R, Nat)
  BY NatLessThanWellFounded DEF OpToRel
<1>2. PICK i \in S : TRUE
  BY Zenon
<1>3. T # {} /\ T \subseteq Nat
  <2>1. n - i \in Nat /\ n - (n - i) = i
    BY <1>2
  <2>. QED BY <2>1, Zenon
<1>4. PICK m \in T : \A k \in T : ~(<<k, m>> \in R)
  BY <1>1, <1>3, WFMin, Zenon
<1>5. ASSUME NEW j \in S PROVE j <= n - m
  <2>1. n - j \in Nat /\ n - (n - j) = j
    OBVIOUS
  <2>2. ~(n - j < m)
    BY <1>4, <2>1, Zenon
  <2>. QED BY <2>1, <2>2
<1>. QED BY <1>5

\* The victim is a buffer that nobody has a reference to.
LEMMA VictimIs ==
  ASSUME TypeOK, Unused # {}
  PROVE  Victim \in Bufs /\ refcnt[Victim] = 0
<1>1. \E i \in Unused : \A j \in Unused : j <= i
  <2>1. Unused \subseteq 1..NBUF /\ NBUF \in Nat
    BY ConstantsAssumption DEF Unused
  <2>. QED BY <2>1, LastOf, Zenon
<1>2. PICK i \in Unused : Victim = lru[i]
  BY <1>1, Zenon DEF Victim
<1>. QED BY <1>2, Zenon DEF Unused, TypeOK

\* There are no other outcomes.
LEMMA bget_Is ==
  ASSUME TypeOK, NEW p \in Procs, NEW k \in Blocks, bget(p, k)
  PROVE  NoBuffers(p, k) \/ \E b \in Bufs : Hit(p, k, b) \/ Recycle(p, k, b)
<1>1. CASE Cached(k)
  BY <1>1 DEF bget, Hit
<1>2. CASE ~Cached(k) /\ Unused # {}
  <2>1. Victim \in Bufs /\ refcnt[Victim] = 0
    BY <1>2, VictimIs
  <2>. QED BY <1>2, <2>1 DEF bget, Recycle
<1>3. CASE ~Cached(k) /\ Unused = {}
  BY <1>3 DEF bget, NoBuffers, bufs
<1>. QED BY <1>1, <1>2, <1>3

\* Steps that touch no reference.
LEMMA SameCounts ==
  ASSUME Inv, UNCHANGED <<blockno, refcnt, buf, pinned>>
  PROVE  Counts' /\ Pins'
  BY DEF Inv, Counts, Refs, Pins

\* bget() finds the block: one reference more, and its buffer stays.
LEMMA Hit_Inv ==
  ASSUME Inv, NEW p \in Procs, NEW k \in Blocks, NEW b \in Bufs, Hit(p, k, b)
  PROVE  Inv'
<1>1. TypeOK'
  BY NoneIsNot DEF Inv, Hit, goto, TypeOK, Holding, Users
<1>2. Single'
  BY NoneIsNot DEF Inv, Hit, goto, TypeOK, Single
<1>3. Users'
  BY NoneIsNot DEF Inv, Hit, goto, TypeOK, Users, Holding
<1>4. Locks'
  BY NoneIsNot DEF Inv, Hit, goto, TypeOK, Users, Locks, Locking, Holding
<1>5. Valid'
  BY NoneIsNot DEF Inv, Hit, goto, TypeOK, Users, Valid, Single, Holding
<1>6. Clean'
  BY NoneIsNot DEF Inv, Hit, goto, TypeOK, Users, Clean, Valid, Single, Locks,
     Locking, Holding
<1>7. Counts'
  <2>1. /\ Cardinality(Refs(b)') = Cardinality(Refs(b)) + 1
        /\ \A d \in Bufs \ {b} : Refs(d)' = Refs(d)
    BY RefAdded, ZenonT(20) DEF Inv, Users, Hit
  <2>2. Cardinality(Refs(b)) \in Nat
    BY RefsFinite
  <2>. QED BY <2>1, <2>2 DEF Inv, Hit, TypeOK, Counts
<1>8. Pins'
  BY NoneIsNot DEF Inv, Hit, goto, Pins
<1>. QED BY <1>1, <1>2, <1>3, <1>4, <1>5, <1>6, <1>7, <1>8 DEF Inv

\* bget() recycles a buffer: nobody has a reference to it, so it holds no
\* modification and its block, if it had one, is as on the disk.
LEMMA Recycle_Inv ==
  ASSUME Inv, NEW p \in Procs, NEW k \in Blocks, NEW b \in Bufs, Recycle(p, k, b)
  PROVE  Inv'
<1>0. (\A q \in Procs : buf[q] # b) /\ blockno[b] \notin pinned /\ k \notin pinned
  BY CountOf0 DEF Inv, Recycle, Refs, Valid, Cached
<1>1. TypeOK'
  BY <1>0, NoneIsNot DEF Inv, Recycle, goto, Cached, TypeOK, Holding, Users
<1>2. Single'
  BY <1>0, NoneIsNot DEF Inv, Recycle, goto, Cached, TypeOK, Single
<1>3. Users'
  BY <1>0, NoneIsNot DEF Inv, Recycle, goto, Cached, TypeOK, Users, Holding
<1>4. Locks'
  BY <1>0, NoneIsNot DEF Inv, Recycle, goto, Cached, TypeOK, Users, Locks, Locking,
     Holding
<1>5. Valid'
  BY <1>0, NoneIsNot DEF Inv, Recycle, goto, Cached, TypeOK, Users, Valid, Single,
     Holding
<1>6. Clean'
  BY <1>0, NoneIsNot, SMTT(20) DEF Inv, Recycle, goto, Cached, TypeOK, Users, Clean, Valid,
     Single, Locks, Locking, Holding
<1>7. Counts'
  <2>1. /\ Cardinality(Refs(b)') = Cardinality(Refs(b)) + 1
        /\ \A d \in Bufs \ {b} : Refs(d)' = Refs(d)
    BY RefAdded, ZenonT(20) DEF Inv, Users, Recycle
  <2>2. Cardinality(Refs(b)) = 0
    BY CountOf0, RefsFinite DEF Recycle
  <2>3. refcnt'[b] = 1 /\ blockno'[b] \notin pinned'
    BY <1>0 DEF Inv, Recycle, TypeOK
  <2>4. \A d \in Bufs \ {b} : refcnt'[d] = refcnt[d] /\ blockno'[d] = blockno[d]
    BY DEF Inv, Recycle, TypeOK
  <2>. QED BY <2>1, <2>2, <2>3, <2>4 DEF Inv, Recycle, Counts
<1>8. Pins'
  BY <1>0, NoneIsNot DEF Inv, Recycle, goto, Cached, Pins
<1>. QED BY <1>1, <1>2, <1>3, <1>4, <1>5, <1>6, <1>7, <1>8 DEF Inv

\* bget() panics, and has changed nothing in the cache.
LEMMA NoBuffers_Inv ==
  ASSUME Inv, NEW p \in Procs, NEW k \in Blocks, NoBuffers(p, k)
  PROVE  Inv'
<1>1. TypeOK'
  BY NoneIsNot DEF Inv, NoBuffers, goto, bufs, TypeOK, Holding, Users
<1>2. Single'
  BY NoneIsNot DEF Inv, NoBuffers, goto, bufs, TypeOK, Single
<1>3. Users'
  BY NoneIsNot DEF Inv, NoBuffers, goto, bufs, TypeOK, Users, Holding
<1>4. Locks'
  BY NoneIsNot DEF Inv, NoBuffers, goto, bufs, TypeOK, Users, Locks, Locking, Holding
<1>5. Valid'
  BY NoneIsNot DEF Inv, NoBuffers, goto, bufs, TypeOK, Users, Valid, Single, Holding
<1>6. Clean'
  BY NoneIsNot DEF Inv, NoBuffers, goto, bufs, TypeOK, Users, Clean, Valid, Single,
     Locks, Locking, Holding
<1>7. Counts'
  BY SameCounts DEF NoBuffers, bufs
<1>8. Pins'
  BY SameCounts DEF NoBuffers, bufs
<1>. QED BY <1>1, <1>2, <1>3, <1>4, <1>5, <1>6, <1>7, <1>8 DEF Inv

\* acquiresleep() takes a free lock, or sleeps on one that is held.
LEMMA acquiresleep_Inv ==
  ASSUME Inv, NEW p \in Procs, acquiresleep(p)
  PROVE  Inv'
<1>0. buf[p] \in Bufs /\ locked[buf[p]] # p
  BY NoneIsNot DEF Inv, Users, Locks, Locking, Holding, acquiresleep
<1>a. PICK l \in {"asleep", "fill"} :
        /\ pc' = [pc EXCEPT ![p] = l]
        /\ l = "asleep" => locked[buf[p]] # None /\ locked' = locked
        /\ l = "fill" => locked[buf[p]] = None /\ locked' = [locked EXCEPT ![buf[p]] = p]
  BY DEF acquiresleep, goto
<1>b. pc[p] = "acquire" /\ UNCHANGED <<bufs, disk, pinned, want, buf>>
  BY DEF acquiresleep
<1>1. TypeOK'
  <2>1. locked' \in [Bufs -> Procs \cup {None}]
    BY <1>a DEF Inv, TypeOK
  <2>2. pc' \in [Procs -> Holding \cup {"idle", "acquire", "asleep", "fill", "release",
                                         "panic"}]
    BY <1>a DEF Inv, TypeOK
  <2>. QED BY <1>b, <2>1, <2>2 DEF Inv, bufs, TypeOK
<1>2. Single'
  BY <1>0, <1>a, <1>b, NoneIsNot DEF Inv, bufs, Single
<1>3. Users'
  BY <1>0, <1>a, <1>b, NoneIsNot DEF Inv, bufs, TypeOK, Users
<1>4. Locks'
  <2>1. CASE l = "asleep"
    BY <1>a, <1>b, <2>1 DEF Inv, TypeOK, Locks, Locking, Holding
  <2>2. CASE l = "fill"
    <3>1. /\ buf' = buf /\ locked'[buf[p]] = p /\ pc'[p] = "fill"
          /\ \A b \in Bufs \ {buf[p]} : locked'[b] = locked[b]
          /\ \A q \in Procs \ {p} : pc'[q] = pc[q]
      BY <1>0, <1>a, <1>b, <2>2 DEF Inv, TypeOK
    <3>2. \A q \in Procs : pc[q] \in Locking \cup {"asleep"} => buf[q] \in Bufs
      BY DEF Inv, Users, Locking, Holding
    <3>3. \A q \in Procs : pc[q] \in Locking \cup {"asleep"} => buf[q] # buf[p]
      BY <1>a, <2>2, NoneIsNot DEF Inv, Locks
    <3>4. \A q \in Procs : pc'[q] \in Locking => locked'[buf[q]] = q
      BY <3>1, <3>2, <3>3 DEF Inv, Locks
    <3>5. ASSUME NEW b \in Bufs, locked'[b] # None
          PROVE  buf[locked'[b]] = b /\ pc'[locked'[b]] \in Locking
      <4>1. CASE b = buf[p]
        BY <3>1, <4>1 DEF Locking
      <4>2. CASE b # buf[p]
        <5>1. locked[b] \in Procs /\ locked[b] # p
          BY <1>b, <3>1, <3>5, <4>2 DEF Inv, TypeOK, Locks, Locking, Holding
        <5>. QED BY <3>1, <3>5, <4>2, <5>1 DEF Inv, Locks
      <4>. QED BY <4>1, <4>2
    <3>6. \A q \in Procs : pc'[q] = "asleep" => locked'[buf[q]] # None
      BY <3>1, <3>2, <3>3 DEF Inv, Locks
    <3>. QED BY <3>1, <3>4, <3>5, <3>6 DEF Locks
  <2>. QED BY <2>1, <2>2
<1>5. Valid'
  BY <1>0, <1>a, <1>b, NoneIsNot DEF Inv, bufs, TypeOK, Valid, Holding
<1>6. Clean'
  BY <1>0, <1>a, <1>b, NoneIsNot DEF Inv, bufs, TypeOK, Clean
<1>7. Counts'
  BY SameCounts DEF acquiresleep, bufs
<1>8. Pins'
  BY SameCounts DEF acquiresleep, bufs
<1>. QED BY <1>1, <1>2, <1>3, <1>4, <1>5, <1>6, <1>7, <1>8 DEF Inv

\* bread() makes the buffer valid, with the disk's contents if it was not.
LEMMA bread_Inv ==
  ASSUME Inv, NEW p \in Procs, bread(p)
  PROVE  Inv'
<1>0. buf[p] \in Bufs /\ blockno[buf[p]] \in Blocks /\ locked[buf[p]] = p
  BY DEF Inv, Users, Locks, Locking, bread
<1>a. /\ valid' = [valid EXCEPT ![buf[p]] = 1]
      /\ data' = [data EXCEPT ![buf[p]] = IF valid[buf[p]] = 0
                                            THEN disk[blockno[buf[p]]] ELSE @]
  BY <1>0 DEF Inv, TypeOK, bread
<1>b. /\ pc[p] = "fill" /\ pc' = [pc EXCEPT ![p] = "held"]
      /\ UNCHANGED <<blockno, refcnt, lru, locked, disk, pinned, want, buf>>
  BY DEF bread, goto
<1>1. TypeOK'
  <2>1. data' \in [Bufs -> Data] /\ valid' \in [Bufs -> {0, 1}]
    BY <1>0, <1>a DEF Inv, TypeOK
  <2>2. pc' \in [Procs -> Holding \cup {"idle", "acquire", "asleep", "fill", "release",
                                         "panic"}]
    BY <1>b DEF Inv, TypeOK, Holding
  <2>. QED BY <1>b, <2>1, <2>2 DEF Inv, TypeOK
<1>2. Single'
  BY <1>0, <1>a, <1>b, NoneIsNot DEF Inv, Single
<1>3. Users'
  BY <1>0, <1>a, <1>b, NoneIsNot DEF Inv, TypeOK, Users
<1>4. Locks'
  BY <1>0, <1>a, <1>b, NoneIsNot DEF Inv, TypeOK, Locks, Locking, Holding
<1>5. Valid'
  BY <1>0, <1>a, <1>b, NoneIsNot DEF Inv, TypeOK, Users, Valid, Holding
<1>6. Clean'
  <2>1. \A q \in Procs : buf[q] = buf[p] => pc[q] # "modified"
    BY <1>0, <1>b DEF Inv, Locks, Locking, Holding
  <2>. QED BY <1>0, <1>a, <1>b, <2>1 DEF Inv, TypeOK, Clean
<1>7. Counts'
  BY SameCounts DEF bread
<1>8. Pins'
  BY SameCounts DEF bread
<1>. QED BY <1>1, <1>2, <1>3, <1>4, <1>5, <1>6, <1>7, <1>8 DEF Inv

\* The holder modifies its buffer, which is then neither clean nor free.
LEMMA modify_Inv ==
  ASSUME Inv, NEW p \in Procs, NEW v \in Data, modify(p, v)
  PROVE  Inv'
<1>1. TypeOK'
  BY NoneIsNot DEF Inv, modify, goto, TypeOK, Holding, Users
<1>2. Single'
  BY NoneIsNot DEF Inv, modify, goto, TypeOK, Single
<1>3. Users'
  BY NoneIsNot DEF Inv, modify, goto, TypeOK, Users, Holding
<1>4. Locks'
  BY NoneIsNot DEF Inv, modify, goto, TypeOK, Users, Locks, Locking, Holding
<1>5. Valid'
  BY NoneIsNot DEF Inv, modify, goto, TypeOK, Users, Valid, Single, Holding
<1>6. Clean'
  BY NoneIsNot DEF Inv, modify, goto, TypeOK, Users, Clean, Valid, Single, Locks,
     Locking, Holding
<1>7. Counts'
  BY SameCounts DEF modify
<1>8. Pins'
  BY SameCounts, SMTT(20) DEF modify
<1>. QED BY <1>1, <1>2, <1>3, <1>4, <1>5, <1>6, <1>7, <1>8, SMTT(20) DEF Inv

\* log_write() counts the log once, however often the block is logged.
LEMMA bpin_Inv ==
  ASSUME Inv, NEW p \in Procs, bpin(p)
  PROVE  Inv'
<1>0. /\ buf[p] \in Bufs /\ blockno[buf[p]] \in Blocks /\ valid[buf[p]] = 1
      /\ blockno[buf[p]] # None
  BY NoneIsNot DEF Inv, Users, Valid, Holding, bpin
<1>1. TypeOK'
  BY <1>0, NoneIsNot DEF Inv, bpin, goto, TypeOK, Holding, Users
<1>2. Single'
  BY <1>0, NoneIsNot DEF Inv, bpin, goto, TypeOK, Single
<1>3. Users'
  BY <1>0, NoneIsNot DEF Inv, bpin, goto, TypeOK, Users, Holding
<1>4. Locks'
  BY <1>0, NoneIsNot DEF Inv, bpin, goto, TypeOK, Users, Locks, Locking, Holding
<1>5. Valid'
  BY <1>0, NoneIsNot DEF Inv, bpin, goto, TypeOK, Valid, Holding
<1>6. Clean'
  BY <1>0, NoneIsNot DEF Inv, bpin, goto, TypeOK, Users, Clean, Valid, Single, Locks,
     Locking, Holding
<1>7. Counts'
  <2>1. \A b \in Bufs : Refs(b)' = Refs(b) /\ Cardinality(Refs(b)) \in Nat
    BY RefsFinite, ZenonT(20) DEF bpin, Refs
  <2>2. CASE blockno[buf[p]] \in pinned
    BY <2>1, <2>2, SameCounts DEF bpin
  <2>3. CASE blockno[buf[p]] \notin pinned
    <3>1. \A b \in Bufs : blockno[b] = blockno[buf[p]] => b = buf[p]
      BY <1>0 DEF Inv, Single
    <3>. QED BY <1>0, <2>1, <2>3, <3>1, SMTT(20) DEF Inv, bpin, TypeOK, Counts
  <2>. QED BY <2>2, <2>3
<1>8. Pins'
  <2>0. /\ IsFiniteSet(pinned) /\ Cardinality(pinned) \in Nat
        /\ Cardinality(pinned) <= MaxPinned
    BY FS_CardinalityType DEF Inv, Pins
  <2>1. CASE blockno[buf[p]] \in pinned
    <3>1. pinned' = pinned
      BY <2>1 DEF bpin
    <3>. QED BY <2>0, <3>1, SMTT(20) DEF Pins
  <2>2. CASE blockno[buf[p]] \notin pinned
    <3>1. /\ pinned' = pinned \cup {blockno[buf[p]]}
          /\ Cardinality(pinned) < MaxPinned
      BY <2>2 DEF bpin
    <3>2. IsFiniteSet(pinned') /\ Cardinality(pinned') = Cardinality(pinned) + 1
      BY <2>0, <2>2, <3>1, FS_AddElement, ZenonT(20)
    <3>. QED BY <2>0, <3>1, <3>2, ConstantsAssumption DEF Pins
  <2>. QED BY <2>1, <2>2
<1>. QED BY <1>1, <1>2, <1>3, <1>4, <1>5, <1>6, <1>7, <1>8 DEF Inv

\* bwrite() makes a modified buffer clean.
LEMMA bwrite_Inv ==
  ASSUME Inv, NEW p \in Procs, bwrite(p)
  PROVE  Inv'
<1>1. TypeOK'
  BY NoneIsNot, ZenonT(20) DEF Inv, bwrite, goto, bufs, TypeOK, Holding, Users
<1>2. Single'
  BY NoneIsNot DEF Inv, bwrite, goto, bufs, TypeOK, Single
<1>3. Users'
  BY NoneIsNot DEF Inv, bwrite, goto, bufs, TypeOK, Users, Holding
<1>4. Locks'
  BY NoneIsNot DEF Inv, bwrite, goto, bufs, TypeOK, Users, Locks, Locking, Holding
<1>5. Valid'
  BY NoneIsNot DEF Inv, bwrite, goto, bufs, TypeOK, Users, Valid, Single, Holding
<1>6. Clean'
  BY NoneIsNot, SMTT(20) DEF Inv, bwrite, goto, bufs, TypeOK, Users, Clean, Valid, Single,
     Locks, Locking, Holding
<1>7. Counts'
  BY SameCounts DEF bwrite, bufs
<1>8. Pins'
  BY SameCounts DEF bwrite, bufs
<1>. QED BY <1>1, <1>2, <1>3, <1>4, <1>5, <1>6, <1>7, <1>8 DEF Inv

\* install_trans() makes a pinned buffer clean before it gives up the reference.
LEMMA bunpin_Inv ==
  ASSUME Inv, NEW p \in Procs, bunpin(p)
  PROVE  Inv'
<1>0. /\ buf[p] \in Bufs /\ blockno[buf[p]] \in Blocks /\ valid[buf[p]] = 1
      /\ \A b \in Bufs : blockno[b] = blockno[buf[p]] => b = buf[p]
      /\ refcnt[buf[p]] \in Nat \ {0}
  BY NoneIsNot, CountOf1 DEF Inv, Single, Users, Valid, Holding, bunpin
<1>1. TypeOK'
  BY <1>0 DEF Inv, bunpin, TypeOK
<1>2. Single'
  BY <1>0, NoneIsNot DEF Inv, bunpin, TypeOK, Single
<1>3. Users'
  BY <1>0, NoneIsNot DEF Inv, bunpin, TypeOK, Users, Holding
<1>4. Locks'
  BY <1>0, NoneIsNot DEF Inv, bunpin, TypeOK, Users, Locks, Locking, Holding
<1>5. Valid'
  BY <1>0, NoneIsNot DEF Inv, bunpin, TypeOK, Users, Valid, Single, Holding
<1>6. Clean'
  BY <1>0 DEF Inv, bunpin, TypeOK, Clean, Valid
<1>7. Counts'
  <2>1. \A b \in Bufs : Refs(b)' = Refs(b) /\ Cardinality(Refs(b)) \in Nat
    BY RefsFinite, ZenonT(20) DEF bunpin, Refs
  <2>. QED BY <1>0, <2>1 DEF Inv, bunpin, TypeOK, Counts
<1>8. Pins'
  <2>1. /\ IsFiniteSet(pinned) /\ Cardinality(pinned) \in Nat
        /\ Cardinality(pinned) <= MaxPinned
    BY FS_CardinalityType DEF Inv, Pins
  <2>2. pinned' = pinned \ {blockno[buf[p]]} /\ blockno[buf[p]] \in pinned
    BY DEF bunpin
  <2>3. IsFiniteSet(pinned') /\ Cardinality(pinned') = Cardinality(pinned) - 1
    BY <2>1, <2>2, FS_RemoveElement, SMTT(20)
  <2>. QED BY <2>1, <2>3, ConstantsAssumption DEF Pins
<1>. QED BY <1>1, <1>2, <1>3, <1>4, <1>5, <1>6, <1>7, <1>8 DEF Inv

\* releasesleep() wakes up every process that sleeps on the buffer.
LEMMA releasesleep_Inv ==
  ASSUME Inv, NEW p \in Procs, releasesleep(p)
  PROVE  Inv'
<1>1. TypeOK'
  BY NoneIsNot, ZenonT(20) DEF Inv, releasesleep, bufs, TypeOK, Holding, Users
<1>2. Single'
  BY NoneIsNot DEF Inv, releasesleep, bufs, TypeOK, Single
<1>3. Users'
  BY NoneIsNot DEF Inv, releasesleep, bufs, TypeOK, Users, Holding
<1>4. Locks'
  BY NoneIsNot DEF Inv, releasesleep, bufs, TypeOK, Users, Locks, Locking, Holding
<1>5. Valid'
  BY NoneIsNot DEF Inv, releasesleep, bufs, TypeOK, Users, Valid, Single, Holding
<1>6. Clean'
  BY NoneIsNot DEF Inv, releasesleep, bufs, TypeOK, Users, Clean, Valid, Single,
     Locks, Locking, Holding
<1>7. Counts'
  BY SameCounts DEF releasesleep, bufs
<1>8. Pins'
  BY SameCounts DEF releasesleep, bufs
<1>. QED BY <1>1, <1>2, <1>3, <1>4, <1>5, <1>6, <1>7, <1>8 DEF Inv

\* brelse() gives up the reference, and the list keeps every buffer.
LEMMA brelse_Inv ==
  ASSUME Inv, NEW p \in Procs, brelse(p)
  PROVE  Inv'
<1>0. PICK b \in Bufs : buf[p] = b /\ refcnt[b] \in Nat \ {0}
  BY CountOf1 DEF Inv, Users, brelse, Refs
<1>1. TypeOK'
  <2>1. /\ lru' \in [1..NBUF -> Bufs]
        /\ \A d \in Bufs : \E i \in 1..NBUF : lru'[i] = d
    <3>1. lru' = lru \/ lru' = ToFront(b)
      BY <1>0 DEF brelse
    <3>2. /\ lru \in [1..NBUF -> Bufs]
          /\ \A d \in Bufs : \E i \in 1..NBUF : lru[i] = d
      BY DEF Inv, TypeOK
    <3>3. /\ ToFront(b) \in [1..NBUF -> Bufs]
          /\ \A d \in Bufs : \E i \in 1..NBUF : ToFront(b)[i] = d
      BY <1>0, <3>2, ToFrontKeeps, ConstantsAssumption, ZenonT(20)
    <3>. QED BY <3>1, <3>2, <3>3, Zenon
  <2>2. refcnt' \in [Bufs -> Nat]
    BY <1>0 DEF Inv, brelse, TypeOK
  <2>. QED BY <2>1, <2>2 DEF Inv, brelse, goto, TypeOK
<1>2. Single'
  BY <1>0, NoneIsNot DEF Inv, brelse, goto, TypeOK, Single
<1>3. Users'
  BY <1>0, NoneIsNot DEF Inv, brelse, goto, TypeOK, Users, Holding
<1>4. Locks'
  BY <1>0, NoneIsNot DEF Inv, brelse, goto, TypeOK, Users, Locks, Locking, Holding
<1>5. Valid'
  BY <1>0, NoneIsNot DEF Inv, brelse, goto, TypeOK, Users, Valid, Single, Holding
<1>6. Clean'
  BY <1>0, NoneIsNot DEF Inv, brelse, goto, TypeOK, Users, Clean, Valid, Single,
     Locks, Locking, Holding
<1>7. Counts'
  <2>1. /\ Cardinality(Refs(b)') = Cardinality(Refs(b)) - 1
        /\ \A d \in Bufs \ {b} : Refs(d)' = Refs(d)
    BY <1>0, RefDropped, ZenonT(20) DEF Inv, brelse
  <2>2. Cardinality(Refs(b)) \in Nat
    BY RefsFinite
  <2>. QED BY <1>0, <2>1, <2>2 DEF Inv, brelse, TypeOK, Counts
<1>8. Pins'
  BY <1>0, NoneIsNot DEF Inv, brelse, goto, Pins
<1>. QED BY <1>1, <1>2, <1>3, <1>4, <1>5, <1>6, <1>7, <1>8, SMTT(20) DEF Inv

\* The cache that binit() makes satisfies it.
LEMMA InitInv == Init => Inv
<1> SUFFICES ASSUME Init PROVE Inv
  OBVIOUS
<1>1. TypeOK
  <2>1. PICK v \in Data : data = [b \in Bufs |-> v]
    BY DEF Init
  <2>2. /\ lru \in [1..NBUF -> Bufs]
        /\ \A b \in Bufs : \E i \in 1..NBUF : lru[i] = b
    <3>1. lru \in [1..NBUF -> Bufs]
      BY ConstantsAssumption DEF Init, Bufs
    <3>2. ASSUME NEW b \in Bufs PROVE \E i \in 1..NBUF : lru[i] = b
      <4>1. NBUF + 1 - b \in 1..NBUF /\ NBUF + 1 - (NBUF + 1 - b) = b
        BY ConstantsAssumption DEF Bufs
      <4>. QED BY <4>1 DEF Init
    <3>. QED BY <3>1, <3>2
  <2>. QED BY <2>1, <2>2 DEF Init, TypeOK
<1>2. Single /\ Users /\ Locks /\ Valid /\ Clean
  BY NoneIsNot DEF Init, Single, Users, Locks, Locking, Holding, Valid, Clean
<1>3. Counts
  <2>1. ASSUME NEW b \in Bufs PROVE Refs(b) = {}
    BY NoneIsNot DEF Init, Refs
  <2>. QED BY <2>1, FS_EmptySet DEF Init, Counts
<1>4. Pins
  BY FS_EmptySet, ConstantsAssumption DEF Init, Pins
<1>. QED BY <1>1, <1>2, <1>3, <1>4 DEF Inv

\* Every step preserves it.
LEMMA NextInv == Inv /\ [Next]_vars => Inv'
<1> SUFFICES ASSUME Inv, [Next]_vars PROVE Inv'
  OBVIOUS
<1>1. CASE UNCHANGED vars
  <2>1. TypeOK' /\ Single' /\ Users' /\ Locks' /\ Valid' /\ Clean'
    BY <1>1 DEF vars, bufs, Inv, TypeOK, Single, Users, Locks, Valid, Clean
  <2>2. Counts' /\ Pins'
    BY <1>1, SameCounts DEF vars, bufs
  <2>. QED BY <2>1, <2>2 DEF Inv
<1>2. ASSUME NEW p \in Procs, NEW k \in Blocks, bget(p, k) PROVE Inv'
  <2>1. NoBuffers(p, k) \/ \E b \in Bufs : Hit(p, k, b) \/ Recycle(p, k, b)
    BY <1>2, bget_Is DEF Inv
  <2>. QED BY <2>1, NoBuffers_Inv, Hit_Inv, Recycle_Inv
<1>. QED BY <1>1, <1>2, acquiresleep_Inv, bread_Inv, modify_Inv, bpin_Inv, bwrite_Inv,
        bunpin_Inv, releasesleep_Inv, brelse_Inv DEF Next

\* The invariant holds in every reachable state.
THEOREM Invariance == Spec => []Inv
  BY InitInv, NextInv, PTL DEF Spec
==============================================================================
