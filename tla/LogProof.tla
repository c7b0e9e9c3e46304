------------------------------ MODULE LogProof -------------------------------
(***************************************************************************)
(* Proofs about Log, for every number of processes, blocks and log slots.  *)
(***************************************************************************)
EXTENDS Log, FiniteSetTheorems, TLAPS

\* The header, in memory and on the disk, names no block twice and fits.
LogShape ==
  /\ Len(lh) <= LOGSIZE
  /\ Len(dhead) <= LOGSIZE
  /\ tail <= Len(lh)
  /\ \A i, j \in DOMAIN lh : lh[i] = lh[j] => i = j
  /\ \A i, j \in DOMAIN dhead : dhead[i] = dhead[j] => i = j

\* What the progress of commit() or of recovery says about the rest.
Phase == step # "panic" =>
  /\ outstanding = Cardinality(Open)
  /\ committing = 1 <=> step \in {"write_log", "install_trans", "finish"}
  /\ committing = 1 \/ Booting => Open = {}
  /\ step \in {"none", "write_log", "finish"} => dhead = <<>>
  /\ step \in {"install_trans", "recover"} => dhead = lh
  /\ step \in {"finish", "read_head"} => lh = <<>>
  /\ step \in {"none", "finish", "read_head"} => tail = 0

\* The cached copy of a block, if any, is what the disk holds.
Clean(b) == cache[b] \in {NotCached, disk[b]}

\* Where the latest contents of every block are.
Contents == step # "panic" =>
  /\ \A b \in Blocks : b \notin Logged \/ Booting => Clean(b)
  /\ step \in {"none", "write_log"} => \A b \in Logged : cache[b] # NotCached
  /\ step = "write_log" => \A i \in 1..tail : dlog[i] = cache[lh[i]]
  /\ step = "install_trans" =>
       \A i \in DOMAIN lh :
         IF i <= tail THEN disk[lh[i]] = dlog[i] /\ Clean(lh[i])
                      ELSE cache[lh[i]] = dlog[i]
  /\ step = "recover" => \A i \in 1..tail : disk[lh[i]] = dlog[i]

\* The inductive invariant.
Inv == TypeOK /\ LogShape /\ Phase /\ Contents /\ PinsMatchLog
------------------------------------------------------------------------------
\* Before the first operation recovery runs on an empty log, so the invariant
\* holds when the machine is first switched on.
LEMMA InitInv == Init => Inv
<1> SUFFICES ASSUME Init PROVE Inv
  OBVIOUS
<1> USE ConstantsAssumption DEF Init, PowerOn
<1>1. TypeOK
  BY DEF TypeOK, Steps, Places
<1>2. LogShape
  BY DEF LogShape
<1>3. Phase
  <2>1. Open = {}
    BY DEF Open
  <2>. QED BY <2>1, FS_EmptySet DEF Phase, Booting
<1>4. Contents
  BY DEF Contents, Clean, Booting, Logged
<1>5. PinsMatchLog
  BY DEF PinsMatchLog, Booting
<1>. QED BY <1>1, <1>2, <1>3, <1>4, <1>5 DEF Inv

\* Finitely many operations are open, so they can be counted.
LEMMA OpenFinite == TypeOK => IsFiniteSet(Open) /\ Cardinality(Open) \in Nat
BY ConstantsAssumption, FS_Subset, FS_CardinalityType DEF Open

\* begin_op() keeps the invariant.
LEMMA BeginInv == ASSUME Inv, NEW p \in Procs, begin_op(p) PROVE Inv'
<1> USE ConstantsAssumption DEF Inv, begin_op, device, bcache
<1>1. TypeOK'
  <2>1. CASE committing = 1 \/ NoSpace
    <3>1. pc' \in [Procs -> Places]
      BY <2>1 DEF TypeOK, Places
    <3>. QED BY <2>1, <3>1 DEF TypeOK
  <2>2. CASE ~(committing = 1 \/ NoSpace)
    <3>1. pc' \in [Procs -> Places]
      BY <2>2 DEF TypeOK, Places
    <3>2. wrote' \in [Procs -> SUBSET Blocks]
      BY <2>2 DEF TypeOK
    <3>. QED BY <2>2, <3>1, <3>2 DEF TypeOK
  <2>. QED BY <2>1, <2>2
<1>2. LogShape'
  BY DEF LogShape
<1>3. Phase'
  <2>1. CASE committing = 1 \/ NoSpace
    <3>1. Open' = Open
      BY <2>1 DEF Open, TypeOK
    <3>. QED BY <2>1, <3>1 DEF Phase, Booting
  <2>2. CASE ~(committing = 1 \/ NoSpace)
    <3>1. Open' = Open \cup {p} /\ p \notin Open
      BY <2>2 DEF Open, TypeOK
    <3>2. Cardinality(Open') = Cardinality(Open) + 1
      BY <3>1, OpenFinite, FS_AddElement
    <3>. QED BY <2>2, <3>1, <3>2 DEF Phase, Booting, Up
  <2>. QED BY <2>1, <2>2
<1>4. Contents'
  BY DEF Contents, Clean, Booting, Logged
<1>5. PinsMatchLog'
  BY DEF PinsMatchLog, Booting
<1>. QED BY <1>1, <1>2, <1>3, <1>4, <1>5

\* log_write() keeps the invariant: a block enters the log once and its buffer
\* stays in the cache.
LEMMA LogWriteInv ==
  ASSUME Inv, NEW p \in Procs, NEW b \in Blocks, NEW v \in Data, log_write(p, b, v)
  PROVE  Inv'
<1> USE ConstantsAssumption DEF Inv, device, bcache
<1>1. step = "none" /\ tail = 0
  <2>1. p \in Open
    BY DEF log_write, Open
  <2>. QED BY <2>1 DEF log_write, Phase, Up, Booting, TypeOK, Steps
<1>2. Open' = Open
  BY DEF log_write, Open
<1>3. CASE TooBig \/ outstanding < 1
  <2>1. TypeOK'
    BY <1>3 DEF log_write, TypeOK, Steps
  <2>2. LogShape' /\ Phase' /\ Contents' /\ PinsMatchLog'
    BY <1>1, <1>3 DEF log_write, LogShape, Phase, Contents, PinsMatchLog, Booting
  <2>. QED BY <2>1, <2>2
<1>4. CASE ~(TooBig \/ outstanding < 1) /\ b \in Logged
  <2>1. /\ UNCHANGED <<lh, pins, step, device, tail>>
        /\ cache' = [cache EXCEPT ![b] = v]
        /\ wrote' = [wrote EXCEPT ![p] = @ \cup {b}]
    BY <1>4 DEF log_write
  <2>2. TypeOK'
    <3>1. wrote' \in [Procs -> SUBSET Blocks]
      BY <2>1 DEF TypeOK
    <3>2. cache' \in [Blocks -> Data \cup {NotCached}]
      BY <2>1 DEF TypeOK
    <3>. QED BY <2>1, <3>1, <3>2 DEF log_write, TypeOK
  <2>3. LogShape' /\ PinsMatchLog'
    BY <2>1 DEF LogShape, PinsMatchLog, Booting
  <2>4. Phase'
    BY <1>1, <1>2, <1>4 DEF log_write, Phase, Booting
  <2>5. Contents'
    BY <1>1, <1>4, <2>1 DEF Contents, Clean, Booting, TypeOK, Logged
  <2>. QED BY <2>2, <2>3, <2>4, <2>5
<1>5. CASE ~(TooBig \/ outstanding < 1) /\ b \notin Logged
  <2>1. /\ UNCHANGED <<step, device, tail>>
        /\ cache' = [cache EXCEPT ![b] = v]
        /\ wrote' = [wrote EXCEPT ![p] = @ \cup {b}]
        /\ lh' = Append(lh, b)
        /\ pins' = [pins EXCEPT ![b] = @ + 1]
    BY <1>5 DEF log_write
  <2>2. /\ lh' \in Seq(Blocks) /\ Len(lh') = Len(lh) + 1
        /\ \A i \in 1..Len(lh) : lh'[i] = lh[i]
        /\ lh'[Len(lh) + 1] = b
        /\ Len(lh) < LOGSIZE
    BY <1>5, <2>1 DEF TypeOK, TooBig
  <2>3. TypeOK'
    <3>1. wrote' \in [Procs -> SUBSET Blocks]
      BY <2>1 DEF TypeOK
    <3>2. cache' \in [Blocks -> Data \cup {NotCached}]
      BY <2>1 DEF TypeOK
    <3>3. pins' \in [Blocks -> Nat]
      BY <2>1 DEF TypeOK
    <3>. QED BY <2>1, <2>2, <3>1, <3>2, <3>3 DEF log_write, TypeOK
  <2>4. LogShape'
    BY <1>5, <2>1, <2>2 DEF LogShape, TypeOK, Logged
  <2>5. Phase'
    BY <1>1, <1>2, <1>5, <2>1 DEF log_write, Phase, Booting
  <2>6. Logged' = Logged \cup {b}
    <3>1. DOMAIN lh' = DOMAIN lh \cup {Len(lh) + 1} /\ DOMAIN lh = 1..Len(lh)
      BY <2>2 DEF TypeOK
    <3>2. Logged' = {lh'[i] : i \in DOMAIN lh \cup {Len(lh) + 1}}
      BY <3>1 DEF Logged
    <3>. QED BY <2>2, <3>1, <3>2 DEF Logged
  <2>7. Contents'
    BY <1>1, <2>1, <2>6 DEF Contents, Clean, Booting, TypeOK
  <2>8. PinsMatchLog'
    <3>1. \A c \in Blocks : (\E i \in DOMAIN lh' : lh'[i] = c) <=> c \in Logged'
      BY DEF Logged
    <3>2. \A c \in Blocks : pins[c] = IF c \in Logged THEN 1 ELSE 0
      BY <1>1 DEF PinsMatchLog, Logged, Booting
    <3>3. \A c \in Blocks : pins'[c] = IF c \in Logged' THEN 1 ELSE 0
      BY <1>5, <2>1, <2>6, <3>2 DEF TypeOK
    <3>. QED BY <1>1, <2>1, <3>1, <3>3 DEF PinsMatchLog, Booting
  <2>. QED BY <2>3, <2>4, <2>5, <2>7, <2>8
<1>. QED BY <1>3, <1>4, <1>5

\* end_op() keeps the invariant: the operation that brings log.outstanding to
\* zero is alone, so nobody is inside an operation while commit() runs.
LEMMA EndInv == ASSUME Inv, NEW p \in Procs, end_op(p) PROVE Inv'
<1> USE ConstantsAssumption DEF Inv, end_op, device, bcache
<1>1. p \in Open /\ committing = 0 /\ step = "none"
  <2>1. p \in Open
    BY DEF Open
  <2>. QED BY <2>1 DEF Phase, Up, Booting, TypeOK, Steps
<1>2. Open' = Open \ {p}
  BY <1>1 DEF Open, TypeOK, wakeup
<1>3. Cardinality(Open') = Cardinality(Open) - 1
  BY <1>1, <1>2, OpenFinite, FS_RemoveElement
<1>4. outstanding = Cardinality(Open) /\ outstanding > 0
  <2>1. outstanding = Cardinality(Open)
    BY <1>1 DEF Phase
  <2>2. Cardinality(Open) # 0
    BY <1>1, OpenFinite, FS_EmptySet
  <2>. QED BY <2>1, <2>2, OpenFinite
<1>5. TypeOK'
  <2>1. CASE outstanding = 1
    <3>1. pc' \in [Procs -> Places]
      BY <1>1, <2>1 DEF TypeOK, Places
    <3>2. step' \in Steps
      BY <1>1, <2>1 DEF Steps
    <3>. QED BY <1>1, <1>4, <2>1, <3>1, <3>2 DEF TypeOK
  <2>2. CASE outstanding # 1
    <3>1. pc' \in [Procs -> Places]
      BY <1>1, <2>2 DEF TypeOK, Places, wakeup
    <3>2. UNCHANGED <<committing, step>> /\ outstanding' \in Nat
      BY <1>1, <1>4, <2>2 DEF TypeOK
    <3>. QED BY <3>1, <3>2 DEF TypeOK
  <2>. QED BY <2>1, <2>2
<1>6. LogShape'
  BY DEF LogShape
<1>7. Phase'
  <2>1. CASE outstanding = 1
    <3>1. Open' = {}
      <4>1. IsFiniteSet(Open')
        BY <1>2, OpenFinite, FS_Subset
      <4>. QED BY <4>1, <1>3, <1>4, <2>1, FS_EmptySet
    <3>. QED BY <1>1, <1>3, <1>4, <2>1, <3>1 DEF Phase, Booting
  <2>2. CASE outstanding # 1
    BY <1>1, <1>3, <1>4, <2>2 DEF Phase, Booting
  <2>. QED BY <2>1, <2>2
<1>8. Contents'
  BY <1>1, <1>4 DEF Contents, Clean, Booting, Logged, Phase
<1>9. PinsMatchLog'
  BY <1>1, <1>4 DEF PinsMatchLog, Booting
<1>. QED BY <1>5, <1>6, <1>7, <1>8, <1>9

\* Copying a block into the log keeps the invariant.
LEMMA WriteLogInv == ASSUME Inv, write_log PROVE Inv'
<1> USE ConstantsAssumption DEF Inv, write_log, log
<1> DEFINE b == lh[tail + 1]
<1>1. tail + 1 \in DOMAIN lh /\ b \in Logged /\ b \in Blocks
  BY DEF TypeOK, Logged
<1>2. bread(b) = cache[b] /\ cache[b] \in Data
  BY <1>1 DEF bread, Contents, TypeOK
<1>3. cache' = cache
  BY <1>2 DEF TypeOK
<1>4. TypeOK'
  BY <1>1, <1>2, <1>3 DEF TypeOK, LogShape
<1>5. LogShape'
  BY <1>1 DEF LogShape, TypeOK
<1>6. Phase'
  BY DEF Phase, Booting, Open
<1>7. Contents'
  BY <1>1, <1>2, <1>3 DEF Contents, Clean, Booting, Logged, TypeOK, LogShape
<1>8. PinsMatchLog'
  BY DEF PinsMatchLog, Booting
<1>. QED BY <1>4, <1>5, <1>6, <1>7, <1>8

\* Writing the header keeps the invariant.
LEMMA WriteHeadInv == ASSUME Inv, write_head PROVE Inv'
<1> USE ConstantsAssumption DEF Inv, write_head, log, bcache
<1>1. TypeOK'
  BY DEF TypeOK, Steps
<1>2. LogShape'
  BY DEF LogShape, TypeOK
<1>3. Phase'
  BY DEF Phase, Booting, Open
<1>4. Contents'
  BY DEF Contents, Clean, Booting, Logged, TypeOK
<1>5. PinsMatchLog'
  BY DEF PinsMatchLog, Booting, TypeOK
<1>. QED BY <1>1, <1>2, <1>3, <1>4, <1>5

\* The block that install_trans() comes to next is cached as it was logged.
LEMMA NextToInstall ==
  ASSUME Inv, step = "install_trans", tail < Len(lh)
  PROVE  cache[lh[tail + 1]] = dlog[tail + 1]
<1>1. tail \in Nat /\ tail + 1 \in DOMAIN lh
  BY DEF Inv, TypeOK
<1>2. \A i \in DOMAIN lh : ~(i <= tail) => cache[lh[i]] = dlog[i]
  BY DEF Inv, Contents
<1>3. ~(tail + 1 <= tail)
  BY <1>1
<1>. QED BY <1>1, <1>2, <1>3

\* Copying a logged block to its home keeps the invariant; its pin goes away.
LEMMA InstallInv == ASSUME Inv, install_trans PROVE Inv'
<1> USE ConstantsAssumption DEF Inv, install_trans, install_block, log
<1> DEFINE b == lh[tail + 1]
<1>1. tail + 1 \in DOMAIN lh /\ b \in Logged /\ b \in Blocks
  BY DEF TypeOK, Logged
<1>2. dlog[tail + 1] \in Data
  BY <1>1 DEF TypeOK, LogShape
<1>3. cache' = [cache EXCEPT ![b] = dlog[tail + 1]] /\ cache[b] = dlog[tail + 1]
  BY NextToInstall
<1>4. cache' = cache
  BY <1>3 DEF TypeOK
<1>5. pins[b] = 1
  BY <1>1 DEF PinsMatchLog, Booting, TypeOK
<1>6. TypeOK'
  <2>1. disk' \in [Blocks -> Data]
    BY <1>1, <1>2 DEF TypeOK
  <2>2. pins' \in [Blocks -> Nat]
    BY <1>1, <1>5 DEF TypeOK
  <2>3. tail' \in 0..LOGSIZE
    BY <1>1 DEF TypeOK, LogShape
  <2>. QED BY <1>4, <2>1, <2>2, <2>3 DEF TypeOK
<1>7. LogShape'
  BY <1>1 DEF LogShape, TypeOK
<1>8. Phase'
  BY DEF Phase, Booting, Open
<1>9. Contents'
  <2>1. \A c \in Blocks : c # b => disk'[c] = disk[c]
    BY <1>1 DEF TypeOK
  <2>2. disk'[b] = dlog[tail + 1]
    BY <1>1 DEF TypeOK
  <2>3. \A i \in DOMAIN lh : i # tail + 1 => lh[i] # b
    BY <1>1 DEF LogShape
  <2>4. \A i \in DOMAIN lh : lh[i] \in Blocks
    BY DEF TypeOK
  <2>. QED BY <1>1, <1>3, <1>4, <2>1, <2>2, <2>3, <2>4
           DEF Contents, Clean, Booting, Logged, TypeOK
<1>10. PinsMatchLog'
  <2>1. \A c \in Blocks : c # b => pins'[c] = pins[c]
    BY <1>1 DEF TypeOK
  <2>2. pins'[b] = 0
    BY <1>1, <1>5 DEF TypeOK
  <2>3. \A i \in DOMAIN lh : i # tail + 1 => lh[i] # b
    BY <1>1 DEF LogShape
  <2>4. \A i \in DOMAIN lh : i > tail' <=> i > tail /\ i # tail + 1
    BY <1>1 DEF TypeOK
  <2>. QED BY <1>1, <2>1, <2>2, <2>3, <2>4 DEF PinsMatchLog, Booting
<1>. QED BY <1>6, <1>7, <1>8, <1>9, <1>10

\* Erasing the installed transaction keeps the invariant.
LEMMA CommitEraseInv == ASSUME Inv, commit_erase PROVE Inv'
<1> USE ConstantsAssumption DEF Inv, commit_erase, erase, bcache
<1>1. TypeOK'
  BY DEF TypeOK, Steps
<1>2. LogShape'
  BY DEF LogShape
<1>3. Phase'
  BY DEF Phase, Booting, Open
<1>4. Contents'
  <2>1. \A b \in Logged : Clean(b)
    BY DEF Contents, Logged, TypeOK
  <2>. QED BY <2>1 DEF Contents, Clean, Booting, Logged, TypeOK
<1>5. PinsMatchLog'
  <2>1. \A i \in DOMAIN lh : ~(i > tail)
    BY DEF TypeOK
  <2>. QED BY <2>1 DEF PinsMatchLog, Booting
<1>. QED BY <1>1, <1>2, <1>3, <1>4, <1>5

\* The end of end_op() keeps the invariant.
LEMMA CommitDoneInv == ASSUME Inv, NEW p \in Procs, commit_done(p) PROVE Inv'
<1> USE ConstantsAssumption DEF Inv, commit_done, device, bcache
<1>1. Open' = Open
  BY DEF Open, wakeup, TypeOK
<1>2. TypeOK'
  <2>1. pc' \in [Procs -> Places]
    BY DEF TypeOK, Places, wakeup
  <2>. QED BY <2>1 DEF TypeOK, Steps
<1>3. LogShape'
  BY DEF LogShape
<1>4. Phase'
  BY <1>1 DEF Phase, Booting
<1>5. Contents'
  BY DEF Contents, Clean, Booting, Logged, Phase
<1>6. PinsMatchLog'
  BY DEF PinsMatchLog, Booting
<1>. QED BY <1>2, <1>3, <1>4, <1>5, <1>6

\* The buffer cache keeps the invariant: it fills a buffer from the disk, and
\* recycles no buffer that the log has pinned.
LEMMA CacheInv == ASSUME Inv, NEW b \in Blocks, fill(b) \/ recycle(b) PROVE Inv'
<1> USE ConstantsAssumption DEF Inv, fill, recycle, device, log
<1>1. TypeOK'
  <2>1. cache' \in [Blocks -> Data \cup {NotCached}]
    BY DEF TypeOK
  <2>. QED BY <2>1 DEF TypeOK
<1>2. LogShape' /\ PinsMatchLog'
  BY DEF LogShape, PinsMatchLog, Booting
<1>3. Phase'
  BY DEF Phase, Booting, Open
<1>4. Contents'
  <2>1. /\ \A c \in Blocks : c # b => cache'[c] = cache[c]
        /\ cache'[b] \in {NotCached, disk[b]}
    BY DEF TypeOK
  <2>2. \A i \in DOMAIN lh : lh[i] \in Blocks
    BY DEF TypeOK
  <2>a. UNCHANGED <<disk, dlog, lh, step, tail, Logged>>
    BY DEF Logged
  <2>b. \A c \in Blocks : Clean(c) => Clean(c)'
    BY <2>1, <2>a DEF Clean
  <2>c. \A i \in 1..tail : i \in DOMAIN lh
    BY DEF LogShape, TypeOK
  <2>3. CASE step \in {"none", "write_log"} /\ b \in Logged
    <3>1. cache[b] # NotCached
      BY <2>3 DEF Contents
    <3>2. pins[b] = 1
      BY <2>3 DEF PinsMatchLog, Booting, Logged
    <3>. QED BY SMTT(30), <3>1, <3>2
  <2>4. CASE step \in {"none", "write_log"} /\ b \notin Logged
    <3>1. \A c \in Logged : cache'[c] = cache[c]
      BY <2>1, <2>2, <2>4 DEF Logged
    <3>. QED BY <2>4, <2>a, <2>b, <2>c, <3>1 DEF Contents, Booting, Logged
  <2>5. CASE step = "install_trans"
    <3>1. \A i \in DOMAIN lh : i > tail => lh[i] # b
      <4>1. SUFFICES ASSUME NEW i \in DOMAIN lh, i > tail, lh[i] = b PROVE FALSE
        OBVIOUS
      <4>2. pins[b] = 1
        BY <2>5, <4>1 DEF PinsMatchLog, Booting
      <4>3. cache[b] = dlog[i] /\ dlog[i] \in Data
        BY SMTT(30), <2>5, <4>1 DEF Contents, TypeOK, LogShape
      <4>. QED BY <4>2, <4>3
    <3>2. \A i \in DOMAIN lh : i > tail => cache'[lh[i]] = cache[lh[i]]
      BY <2>1, <2>2, <3>1
    <3>. QED BY <2>2, <2>5, <2>a, <2>b, <3>2 DEF Contents, Booting, TypeOK
  <2>6. CASE step \notin {"none", "write_log", "install_trans"}
    BY SMTT(30), <2>1, <2>2, <2>6 DEF Contents, Clean, Booting, Logged, Phase
  <2>. QED BY <2>3, <2>4, <2>5, <2>6
<1>. QED BY <1>1, <1>2, <1>3, <1>4

\* A crash keeps the invariant: what recovery needs is on the disk.
LEMMA CrashInv == ASSUME Inv, crash PROVE Inv'
<1> USE ConstantsAssumption DEF Inv, crash, device
<1>1. TypeOK'
  <2>1. pc' \in [Procs -> Places] /\ wrote' \in [Procs -> SUBSET Blocks]
    BY DEF Places
  <2>2. step' \in Steps
    BY DEF Steps
  <2>. QED BY <2>1, <2>2 DEF TypeOK
<1>2. LogShape'
  BY DEF LogShape
<1>3. Phase'
  <2>1. Open' = {}
    BY DEF Open
  <2>. QED BY <2>1, FS_EmptySet DEF Phase, Booting
<1>4. Contents'
  BY DEF Contents, Clean, Booting, Logged
<1>5. PinsMatchLog'
  BY DEF PinsMatchLog, Booting
<1>. QED BY <1>1, <1>2, <1>3, <1>4, <1>5

\* Reading the header keeps the invariant.
LEMMA ReadHeadInv == ASSUME Inv, read_head PROVE Inv'
<1> USE ConstantsAssumption DEF Inv, read_head, device, bcache
<1>1. TypeOK'
  BY DEF TypeOK, Steps
<1>2. LogShape'
  BY DEF LogShape, TypeOK, Phase
<1>3. Phase'
  BY DEF Phase, Booting, Open
<1>4. Contents'
  BY DEF Contents, Clean, Booting, Logged, Phase
<1>5. PinsMatchLog'
  BY DEF PinsMatchLog, Booting
<1>. QED BY <1>1, <1>2, <1>3, <1>4, <1>5

\* Recovery copies a block from the log to its home and keeps the invariant.
LEMMA RecoverInstallInv == ASSUME Inv, recover_install PROVE Inv'
<1> USE ConstantsAssumption DEF Inv, recover_install, install_block, log
<1> DEFINE b == lh[tail + 1]
<1>1. tail + 1 \in DOMAIN lh /\ b \in Blocks
  BY DEF TypeOK
<1>2. dlog[tail + 1] \in Data
  BY <1>1 DEF TypeOK, LogShape
<1>3. TypeOK'
  <2>1. disk' \in [Blocks -> Data] /\ cache' \in [Blocks -> Data \cup {NotCached}]
    BY <1>1, <1>2 DEF TypeOK
  <2>2. tail' \in 0..LOGSIZE
    BY <1>1 DEF TypeOK, LogShape
  <2>. QED BY <2>1, <2>2 DEF TypeOK
<1>4. LogShape'
  BY <1>1 DEF LogShape, TypeOK
<1>5. Phase'
  BY DEF Phase, Booting, Open
<1>6. Contents'
  <2>1. /\ \A c \in Blocks : c # b => disk'[c] = disk[c] /\ cache'[c] = cache[c]
        /\ disk'[b] = dlog[tail + 1] /\ cache'[b] = dlog[tail + 1]
    BY <1>1 DEF TypeOK
  <2>2. \A c \in Blocks : Clean(c)'
    BY <2>1 DEF Clean, Contents, Booting
  <2>3. \A i \in 1..tail' : disk'[lh'[i]] = dlog'[i]
    <3>1. \A i \in 1..tail : i \in DOMAIN lh /\ lh[i] \in Blocks /\ lh[i] # b
      BY <1>1 DEF LogShape, TypeOK
    <3>2. \A i \in 1..tail' : i \in 1..tail \/ i = tail + 1
      BY DEF TypeOK
    <3>. QED BY <2>1, <3>1, <3>2 DEF Contents
  <2>. QED BY <2>2, <2>3 DEF Contents
<1>7. PinsMatchLog'
  BY DEF PinsMatchLog, Booting
<1>. QED BY <1>3, <1>4, <1>5, <1>6, <1>7

\* The end of recovery keeps the invariant.
LEMMA RecoverEraseInv == ASSUME Inv, recover_erase PROVE Inv'
<1> USE ConstantsAssumption DEF Inv, recover_erase, erase, bcache
<1>1. TypeOK'
  BY DEF TypeOK, Steps
<1>2. LogShape'
  BY DEF LogShape
<1>3. Phase'
  <2>1. Open' = Open
    BY DEF Open
  <2>. QED BY <2>1 DEF Phase, Booting
<1>4. Contents'
  BY DEF Contents, Clean, Booting, Logged
<1>5. PinsMatchLog'
  BY DEF PinsMatchLog, Booting
<1>. QED BY <1>1, <1>2, <1>3, <1>4, <1>5

\* Every step of the machine keeps the invariant.
LEMMA NextInv == Inv /\ [Next]_vars => Inv'
<1> SUFFICES ASSUME Inv, [Next]_vars PROVE Inv'
  OBVIOUS
<1>1. CASE \E p \in Procs : Syscall(p)
  BY <1>1, BeginInv, LogWriteInv, EndInv DEF Syscall
<1>2. CASE commit
  BY <1>2, WriteLogInv, WriteHeadInv, InstallInv, CommitEraseInv, CommitDoneInv
     DEF commit
<1>3. CASE recover_from_log
  BY <1>3, ReadHeadInv, RecoverInstallInv, RecoverEraseInv DEF recover_from_log
<1>4. CASE \E b \in Blocks : fill(b) \/ recycle(b)
  BY <1>4, CacheInv
<1>5. CASE crash
  BY <1>5, CrashInv
<1>6. CASE UNCHANGED vars
  <2>1. UNCHANGED <<disk, dlog, dhead, cache, pins, lh, outstanding, committing,
                    pc, wrote, step, tail>>
    BY <1>6 DEF vars, device, bcache, log
  <2>2. TypeOK'
    BY <2>1 DEF Inv, TypeOK
  <2>3. LogShape' /\ Phase'
    BY <2>1 DEF Inv, LogShape, Phase, Open, Booting
  <2>4. Contents' /\ PinsMatchLog'
    BY SMTT(30), <2>1 DEF Inv, Contents, Clean, Logged, PinsMatchLog, Booting
  <2>. QED BY <2>2, <2>3, <2>4 DEF Inv
<1>. QED BY <1>1, <1>2, <1>3, <1>4, <1>5, <1>6 DEF Next

\* The state stays well typed, and the buffers that bpin() keeps in the cache
\* are exactly those of the blocks logged and not yet installed.
THEOREM Invariance == Spec => [](TypeOK /\ PinsMatchLog)
<1>1. Spec => []Inv
  BY InitInv, NextInv, PTL DEF Spec
<1>. QED BY <1>1, PTL DEF Inv
------------------------------------------------------------------------------
(* Log implements Txn. *)

RecoveredByHeader ==
  /\ Recovered \in [Blocks -> Data]
  /\ \A i \in DOMAIN dhead : dhead[i] \in Blocks /\ Recovered[dhead[i]] = dlog[i]
  /\ \A b \in Blocks :
       (\A i \in DOMAIN dhead : dhead[i] # b) => Recovered[b] = disk[b]

\* Recovery takes a block named by the header from its slot of the log, and
\* leaves every other block alone.
LEMMA RecoveredBlocks == Inv => RecoveredByHeader
<1> SUFFICES ASSUME Inv PROVE RecoveredByHeader
  OBVIOUS
<1> USE ConstantsAssumption DEF Inv, RecoveredByHeader
<1>1. \A i \in DOMAIN dhead : dhead[i] \in Blocks /\ dlog[i] \in Data
  BY DEF TypeOK, LogShape
<1>2. ASSUME NEW i \in DOMAIN dhead PROVE Recovered[dhead[i]] = dlog[i]
  <2>1. (CHOOSE j \in DOMAIN dhead : dhead[j] = dhead[i]) = i
    BY DEF LogShape
  <2>. QED BY <1>1, <2>1 DEF Recovered
<1>3. ASSUME NEW b \in Blocks, \A i \in DOMAIN dhead : dhead[i] # b
      PROVE  Recovered[b] = disk[b]
  BY <1>3 DEF Recovered
<1>4. \A b \in Blocks : Recovered[b] \in Data
  <2>1. SUFFICES ASSUME NEW b \in Blocks PROVE Recovered[b] \in Data
    OBVIOUS
  <2>2. CASE \E i \in DOMAIN dhead : dhead[i] = b
    BY <1>1, <1>2, <2>2
  <2>3. CASE ~ \E i \in DOMAIN dhead : dhead[i] = b
    BY <1>3, <2>3 DEF TypeOK
  <2>. QED BY <2>2, <2>3
<1>5. Recovered = [b \in Blocks |-> Recovered[b]]
  BY DEF Recovered
<1>6. Recovered \in [Blocks -> Data]
  BY <1>4, <1>5
<1>. QED BY <1>1, <1>2, <1>3, <1>6

\* With an empty header the disk itself is what recovery leaves.
LEMMA RecoveredEmpty == ASSUME Inv, dhead = <<>> PROVE Recovered = disk
<1>1. \A b \in Blocks : Recovered[b] = disk[b]
  BY RecoveredBlocks DEF RecoveredByHeader
<1>2. Recovered \in [Blocks -> Data] /\ disk \in [Blocks -> Data]
  BY RecoveredBlocks DEF RecoveredByHeader, Inv, TypeOK
<1>. QED BY <1>1, <1>2

\* The initial states of Log are initial states of Txn.
LEMMA RefineInit == Init => Txn!Init
<1> SUFFICES ASSUME Init PROVE Txn!Init
  OBVIOUS
<1>1. Inv
  BY InitInv
<1>2. Recovered \in [Blocks -> Data]
  BY <1>1, RecoveredBlocks DEF RecoveredByHeader
<1>3. View = Recovered
  BY DEF Init, PowerOn, View, Booting
<1>4. Open = {}
  BY DEF Init, PowerOn, Open
<1>. QED BY <1>2, <1>3, <1>4 DEF Txn!Init

\* begin_op() opens an operation or changes nothing that Txn sees.
LEMMA RefineBegin ==
  ASSUME Inv, NEW p \in Procs, begin_op(p)
  PROVE  Txn!Begin(p) \/ UNCHANGED <<Recovered, View, Open>>
<1>1. UNCHANGED <<Recovered, View>>
  BY DEF begin_op, device, bcache, Recovered, View, bread, Booting
<1>2. CASE committing = 1 \/ NoSpace
  BY <1>1, <1>2 DEF begin_op, Open, Inv, TypeOK
<1>3. CASE ~(committing = 1 \/ NoSpace)
  <2>1. Open' = Open \cup {p} /\ p \notin Open
    BY <1>3 DEF begin_op, Open, Inv, TypeOK
  <2>. QED BY <1>1, <2>1 DEF Txn!Begin
<1>. QED BY <1>2, <1>3

\* log_write() updates the current contents.
LEMMA RefineWrite ==
  ASSUME Inv, NEW p \in Procs, NEW b \in Blocks, NEW v \in Data, log_write(p, b, v)
  PROVE  Txn!Write(p, b, v) \/ UNCHANGED <<Recovered, View, Open>>
<1>1. Recovered' = Recovered /\ Open' = Open /\ p \in Open
  BY DEF log_write, device, Recovered, Open
<1>2. ~Booting /\ ~Booting'
  BY DEF log_write, Up, Booting
<1>3. CASE TooBig \/ outstanding < 1
  <2>1. View' = View
    BY <1>2, <1>3 DEF log_write, View, bread, bcache, device
  <2>. QED BY <1>1, <2>1
<1>4. CASE ~(TooBig \/ outstanding < 1)
  <2>1. disk' = disk /\ cache' = [cache EXCEPT ![b] = v]
    BY <1>4 DEF log_write, device
  <2>2. \A c \in Blocks : bread(c)' = IF c = b THEN v ELSE bread(c)
    BY <2>1, ConstantsAssumption DEF bread, Inv, TypeOK
  <2>3. View' = [View EXCEPT ![b] = v]
    BY <1>2, <2>2 DEF View
  <2>. QED BY <1>1, <2>3 DEF Txn!Write
<1>. QED BY <1>3, <1>4

\* end_op() closes an operation.
LEMMA RefineEnd == ASSUME Inv, NEW p \in Procs, end_op(p) PROVE Txn!End(p)
<1>1. p \in Open /\ committing = 0 /\ step = "none"
  <2>1. p \in Open
    BY DEF end_op, Open
  <2>. QED BY <2>1 DEF end_op, Inv, Phase, Up, Booting, TypeOK, Steps
<1>2. Open' = Open \ {p}
  BY <1>1 DEF end_op, Open, Inv, TypeOK, wakeup
<1>3. Recovered' = Recovered
  BY DEF end_op, device, Recovered
<1>4. ~Booting /\ ~Booting'
  BY <1>1 DEF end_op, Booting
<1>5. View' = View
  BY <1>4 DEF end_op, View, bread, bcache, device
<1>. QED BY <1>1, <1>2, <1>3, <1>5 DEF Txn!End

\* The write of the header is the moment at which Txn commits.
LEMMA RefineHead == ASSUME Inv, write_head PROVE Txn!Commit
<1> USE ConstantsAssumption DEF Inv
<1>1. ~Booting /\ ~Booting' /\ Open = {} /\ Open' = Open /\ dhead = <<>>
  BY DEF write_head, Booting, Phase, Open, TypeOK
<1>2. View' = View
  BY <1>1 DEF write_head, View, bread, bcache
<1>3. Recovered' = View
  <2>1. RecoveredByHeader'
    <3>1. Inv'
      BY WriteHeadInv
    <3>. QED BY <3>1, RecoveredBlocks, PTL
  <2>2. \A b \in Blocks : Recovered'[b] = View[b]
    <3>1. SUFFICES ASSUME NEW b \in Blocks PROVE Recovered'[b] = bread(b)
      BY <1>1 DEF View
    <3>2. CASE \E i \in DOMAIN lh : lh[i] = b
      <4>1. PICK i \in DOMAIN lh : lh[i] = b
        BY <3>2
      <4>2. Recovered'[b] = dlog[i]
        <5>1. dhead' = lh /\ dlog' = dlog
          BY DEF write_head
        <5>2. Recovered'[dhead'[i]] = dlog'[i]
          BY <2>1, <5>1 DEF RecoveredByHeader
        <5>. QED BY <4>1, <5>1, <5>2
      <4>3. dlog[i] = cache[b] /\ cache[b] # NotCached
        BY SMTT(30), <4>1 DEF write_head, Contents, Logged, TypeOK
      <4>. QED BY <4>2, <4>3 DEF bread
    <3>3. CASE \A i \in DOMAIN lh : lh[i] # b
      <4>1. Recovered'[b] = disk[b]
        <5>1. dhead' = lh /\ disk' = disk
          BY DEF write_head
        <5>. QED BY <2>1, <3>3, <5>1 DEF RecoveredByHeader
      <4>2. Clean(b)
        BY <3>3 DEF write_head, Contents, Logged
      <4>. QED BY <4>1, <4>2 DEF Clean, bread
    <3>. QED BY <3>2, <3>3
  <2>3. Recovered' = [b \in Blocks |-> Recovered'[b]]
    BY DEF Recovered
  <2>4. View = [b \in Blocks |-> View[b]]
    BY <1>1 DEF View
  <2>. QED BY <2>2, <2>3, <2>4
<1>. QED BY <1>1, <1>2, <1>3 DEF Txn!Commit

\* Filling the log before the header is written is invisible.
LEMMA RefineWriteLog == ASSUME Inv, write_log PROVE UNCHANGED <<Recovered, View, Open>>
<1> USE ConstantsAssumption DEF Inv, write_log
<1>1. dhead = <<>> /\ dhead' = <<>> /\ disk' = disk /\ ~Booting /\ ~Booting'
  BY DEF Phase, Booting
<1>2. Recovered' = Recovered
  BY <1>1 DEF Recovered
<1>3. lh[tail + 1] \in Logged
  BY DEF Logged, TypeOK
<1>4. cache' = cache
  BY <1>3 DEF bread, Contents, TypeOK
<1>5. View' = View
  BY <1>1, <1>4 DEF View, bread
<1>. QED BY <1>2, <1>5 DEF Open

\* Installing a committed block, by commit() or by recovery, is invisible: the
\* header still names it.
LEMMA RefineInstall ==
  ASSUME Inv, install_trans \/ recover_install
  PROVE  UNCHANGED <<Recovered, View, Open>>
<1> USE ConstantsAssumption DEF Inv, install_trans, recover_install, install_block
<1> DEFINE b == lh[tail + 1]
<1>1. /\ tail + 1 \in DOMAIN dhead /\ dhead[tail + 1] = b /\ b \in Blocks
      /\ dhead' = dhead /\ dlog' = dlog /\ Booting' = Booting
      /\ disk' = [disk EXCEPT ![b] = dlog[tail + 1]]
      /\ cache' = [cache EXCEPT ![b] = dlog[tail + 1]]
  BY DEF Phase, TypeOK, Booting
<1>2. Recovered' = Recovered
  <2>1. \A c \in Blocks : (~ \E i \in DOMAIN dhead : dhead[i] = c) => disk'[c] = disk[c]
    BY <1>1 DEF TypeOK
  <2>. QED BY <1>1, <2>1 DEF Recovered
<1>3. View' = View
  <2>1. CASE Booting
    BY <1>1, <1>2, <2>1 DEF View
  <2>2. CASE ~Booting
    <3>1. cache[b] = dlog[tail + 1] /\ cache[b] # NotCached
      <4>1. step = "install_trans" /\ dhead = lh
        BY <2>2 DEF Booting, Phase
      <4>2. cache[b] = dlog[tail + 1]
        BY <4>1, NextToInstall
      <4>3. dlog[tail + 1] \in Data
        BY <1>1, <4>1 DEF TypeOK, LogShape
      <4>. QED BY <4>2, <4>3
    <3>2. \A c \in Blocks : bread(c)' = bread(c)
      BY <1>1, <3>1 DEF bread, TypeOK
    <3>. QED BY <1>1, <2>2, <3>2 DEF View
  <2>. QED BY <2>1, <2>2
<1>. QED BY <1>2, <1>3 DEF Open

\* Erasing the header after everything was installed is invisible, and ends
\* recovery with exactly the contents it promised.
LEMMA RefineErase ==
  ASSUME Inv, commit_erase \/ recover_erase
  PROVE  UNCHANGED <<Recovered, View, Open>>
<1> USE ConstantsAssumption DEF Inv, commit_erase, recover_erase, erase, bcache
<1>1. dhead = lh /\ dhead' = <<>> /\ UNCHANGED <<disk, dlog, cache, pc>> /\ ~Booting'
  BY DEF Phase, Booting
<1>2. \A i \in DOMAIN dhead : disk[dhead[i]] = dlog[i]
  BY <1>1 DEF Contents, TypeOK
<1>3. \A b \in Blocks : Recovered[b] = disk[b]
  <2>1. SUFFICES ASSUME NEW b \in Blocks PROVE Recovered[b] = disk[b]
    OBVIOUS
  <2>2. CASE \E i \in DOMAIN dhead : dhead[i] = b
    BY <1>2, <2>2, RecoveredBlocks DEF RecoveredByHeader
  <2>3. CASE \A i \in DOMAIN dhead : dhead[i] # b
    BY <2>3, RecoveredBlocks DEF RecoveredByHeader
  <2>. QED BY <2>2, <2>3
<1>4. Recovered' = Recovered
  <2>1. Recovered' = [b \in Blocks |-> disk[b]]
    BY <1>1 DEF Recovered
  <2>2. Recovered = [b \in Blocks |-> Recovered[b]]
    BY DEF Recovered
  <2>. QED BY <1>3, <2>1, <2>2
<1>5. View' = [b \in Blocks |-> bread(b)]
  BY <1>1 DEF View, bread
<1>6. View' = View
  <2>1. CASE Booting
    <3>1. \A b \in Blocks : bread(b) = disk[b]
      BY <2>1 DEF Contents, Clean, bread, Booting
    <3>2. Recovered = [b \in Blocks |-> Recovered[b]]
      BY DEF Recovered
    <3>. QED BY <1>3, <1>5, <2>1, <3>1, <3>2 DEF View
  <2>2. CASE ~Booting
    BY <1>5, <2>2 DEF View
  <2>. QED BY <2>1, <2>2
<1>. QED BY <1>1, <1>4, <1>6 DEF Open

\* The buffer cache is invisible.
LEMMA RefineCache ==
  ASSUME Inv, NEW b \in Blocks, fill(b) \/ recycle(b)
  PROVE  UNCHANGED <<Recovered, View, Open>>
<1> USE ConstantsAssumption DEF Inv, fill, recycle, device, log
<1>1. Recovered' = Recovered /\ Booting' = Booting /\ Open' = Open
  BY DEF Recovered, Booting, Open
<1>2. ~Booting => \A c \in Blocks : bread(c)' = bread(c)
  <2>1. SUFFICES ASSUME ~Booting, recycle(b) PROVE cache[b] = disk[b]
    BY DEF bread, TypeOK
  <2>2. pins[b] = 0 /\ step # "panic" /\ cache[b] # NotCached
    BY <2>1
  <2>3. CASE b \notin Logged
    BY <2>2, <2>3 DEF Contents, Clean
  <2>4. CASE b \in Logged
    <3>1. PICK i \in DOMAIN lh : lh[i] = b
      BY <2>4 DEF Logged
    <3>2. step = "install_trans" /\ i <= tail
      <4>1. i \in Nat /\ tail \in Nat
        BY <3>1 DEF TypeOK
      <4>2. pins[b] # 1
        BY <2>2
      <4>. QED BY <2>1, <3>1, <4>1, <4>2 DEF PinsMatchLog
    <3>. QED BY <2>2, <3>1, <3>2 DEF Contents, Clean
  <2>. QED BY <2>3, <2>4
<1>3. View' = View
  BY <1>1, <1>2 DEF View
<1>. QED BY <1>1, <1>3

\* A crash takes Txn back to the durable contents.
LEMMA RefineCrash == ASSUME Inv, crash PROVE Txn!Crash
<1>1. Recovered' = Recovered
  BY DEF crash, device, Recovered
<1>2. View' = Recovered /\ Open' = {}
  BY <1>1 DEF crash, View, Booting, Open
<1>. QED BY <1>1, <1>2 DEF Txn!Crash

\* Every step of Log is a step of Txn or leaves what Txn sees unchanged.
LEMMA RefineNext == Inv /\ [Next]_vars => [Txn!Next]_(Txn!vars)
<1> SUFFICES ASSUME Inv, [Next]_vars
             PROVE  Txn!Next \/ UNCHANGED <<Recovered, View, Open>>
  BY DEF Txn!vars
<1>1. CASE \E p \in Procs : Syscall(p)
  BY <1>1, RefineBegin, RefineWrite, RefineEnd DEF Syscall, Txn!Next
<1>2. CASE commit
  <2>1. CASE \E p \in Procs : commit_done(p)
    <3>1. Recovered' = Recovered
      BY <2>1 DEF commit_done, device, Recovered
    <3>2. ~Booting /\ ~Booting'
      BY <2>1 DEF commit_done, Booting
    <3>3. View' = View
      BY <2>1, <3>2 DEF commit_done, device, bcache, View, bread
    <3>4. Open' = Open
      BY <2>1 DEF commit_done, wakeup, Open, Inv, TypeOK
    <3>. QED BY <3>1, <3>3, <3>4
  <2>. QED BY <1>2, <2>1, RefineWriteLog, RefineHead, RefineInstall, RefineErase
           DEF commit, Txn!Next
<1>3. CASE recover_from_log
  <2>1. CASE read_head
    BY <2>1 DEF read_head, device, Recovered, View, Booting, Open
  <2>. QED BY <1>3, <2>1, RefineInstall, RefineErase DEF recover_from_log
<1>4. CASE \E b \in Blocks : fill(b) \/ recycle(b)
  BY <1>4, RefineCache
<1>5. CASE crash
  BY <1>5, RefineCrash DEF Txn!Next
<1>6. CASE UNCHANGED vars
  BY <1>6 DEF vars, device, bcache, Recovered, View, bread, Booting, Open
<1>. QED BY <1>1, <1>2, <1>3, <1>4, <1>5, <1>6 DEF Next

\* The log implements atomic, crash-safe operations, for any number of
\* processes, blocks and log slots: whatever point of commit() or of recovery a
\* crash hits, recovery finds the contents of the last committed transaction.
THEOREM CrashAtomicity == Spec => Atomicity
<1>1. Spec => []Inv
  BY InitInv, NextInv, PTL DEF Spec
<1>. QED BY <1>1, RefineInit, RefineNext, PTL DEF Spec, Atomicity, Txn!Spec

\* When the end_op() that committed returns, all finished operations are durable.
THEOREM Durability == Spec => []DurableAtReturn
<1>1. Spec => []Inv
  BY InitInv, NextInv, PTL DEF Spec
<1>2. Inv => DurableAtReturn
  <2> SUFFICES ASSUME Inv, step = "finish" PROVE Recovered = View /\ dhead = <<>>
    BY DEF DurableAtReturn
  <2>1. dhead = <<>> /\ lh = <<>> /\ ~Booting
    BY DEF Inv, Phase, Booting
  <2>2. \A b \in Blocks : bread(b) = disk[b]
    BY <2>1 DEF Inv, Contents, Clean, Logged, bread
  <2>3. View = [b \in Blocks |-> disk[b]]
    BY <2>1, <2>2 DEF View
  <2>4. Recovered = [b \in Blocks |-> disk[b]]
    BY <2>1 DEF Recovered
  <2>. QED BY <2>1, <2>3, <2>4
<1>. QED BY <1>1, <1>2, PTL
------------------------------------------------------------------------------
(* begin_op() keeps enough of the log free. *)

\* Log slots that open operations may still claim.
Slots == {s \in Open \X (1..OpMax) : s[2] > Cardinality(wrote[s[1]])}

\* While nobody commits, the used and the promised slots leave two free; and
\* whatever an operation wrote is in the log.
Room ==
  /\ step # "panic"
  /\ \A p \in Procs : IsFiniteSet(wrote[p])
  /\ step = "none" =>
       /\ Len(lh) + Cardinality(Slots) <= LOGSIZE - 2
       /\ Open = {} => lh = <<>>
       /\ \A p \in Open : wrote[p] \subseteq Logged

\* There are finitely many promised slots, at most OpMax for each operation.
LEMMA SlotsBound ==
  TypeOK => /\ IsFiniteSet(Slots) /\ Cardinality(Slots) \in Nat
            /\ Cardinality(Slots) <= Cardinality(Open) * OpMax
<1> SUFFICES ASSUME TypeOK
             PROVE  /\ IsFiniteSet(Slots) /\ Cardinality(Slots) \in Nat
                    /\ Cardinality(Slots) <= Cardinality(Open) * OpMax
  OBVIOUS
<1>1. IsFiniteSet(1..OpMax) /\ Cardinality(1..OpMax) = OpMax
  BY ConstantsAssumption, FS_Interval
<1>2. IsFiniteSet(Open) /\ Cardinality(Open) \in Nat
  BY OpenFinite
<1>3. /\ IsFiniteSet(Open \X (1..OpMax))
      /\ Cardinality(Open \X (1..OpMax)) = Cardinality(Open) * OpMax
  BY <1>1, <1>2, FS_Product
<1>4. Slots \in SUBSET (Open \X (1..OpMax))
  BY DEF Slots
<1>. QED BY <1>3, <1>4, FS_Subset, FS_CardinalityType

\* The arithmetic of begin_op()'s test, for operations smaller than their
\* reservation.
LEMMA Reservation ==
  ASSUME NEW n \in Nat, NEW o \in Nat, NEW m \in Nat, NEW size \in Nat,
         NEW k \in Nat, k < m, m < size,
         n + (o + 1) * m <= size, o = 0 => n = 0
  PROVE  n + (o + 1) * k <= size - 2
<1>1. CASE o = 0
  BY <1>1
<1>2. CASE o # 0
  <2>1. (o + 1) * m = (o + 1) * (m - 1) + (o + 1)
    BY SMT
  <2>2. PICK d \in Nat : m - 1 = k + d
    <3>1. m - 1 - k \in Nat /\ m - 1 = k + (m - 1 - k)
      OBVIOUS
    <3>. QED BY <3>1
  <2>3. (o + 1) * (k + d) = (o + 1) * k + (o + 1) * d
    BY SMT
  <2>4. (o + 1) * d \in Nat /\ (o + 1) * k \in Nat
    BY SMT
  <2>. QED BY <1>2, <2>1, <2>2, <2>3, <2>4
<1>. QED BY <1>1, <1>2

\* What param.h and mkfs.c say of the sizes, and operations that log fewer
\* blocks than begin_op() reserves for them.
SmallOps == OpMax < MAXOPBLOCKS /\ MAXOPBLOCKS < LOGSIZE /\ LOGSIZE <= NLOG

\* No step of an operation takes the last two free slots.
LEMMA RoomSyscall ==
  ASSUME SmallOps, Inv, Room, NEW p \in Procs, Syscall(p)
  PROVE  Room'
<1> USE ConstantsAssumption DEF SmallOps
<1>1. CASE begin_op(p)
  <2>1. CASE committing = 1 \/ NoSpace
    <3>1. Open' = Open /\ UNCHANGED <<wrote, lh, step>>
      BY <1>1, <2>1 DEF begin_op, Open, Inv, TypeOK
    <3>2. Slots' = Slots /\ Logged' = Logged
      BY <3>1 DEF Slots, Logged
    <3>. QED BY <3>1, <3>2 DEF Room
  <2>2. CASE ~(committing = 1 \/ NoSpace)
    <3>1. step = "none" /\ UNCHANGED <<lh, step>>
      BY <1>1, <2>2 DEF begin_op, Inv, Phase, Up, Booting, TypeOK, Steps
    <3>2. Open' = Open \cup {p} /\ p \notin Open /\ wrote' = [wrote EXCEPT ![p] = {}]
      BY <1>1, <2>2 DEF begin_op, Open, Inv, TypeOK
    <3>3. Cardinality(Open') = outstanding + 1 /\ outstanding = Cardinality(Open)
      BY <3>1, <3>2, OpenFinite, FS_AddElement DEF Inv, Phase
    <3>4. Cardinality(Slots') \in Nat /\ Cardinality(Slots') <= (outstanding + 1) * OpMax
      <4>1. TypeOK'
        BY <1>1, BeginInv DEF Inv
      <4>2. (/\ IsFiniteSet(Slots) /\ Cardinality(Slots) \in Nat
             /\ Cardinality(Slots) <= Cardinality(Open) * OpMax)'
        BY <4>1, SlotsBound, PTL
      <4>. QED BY <4>2, <3>3
    <3>5. outstanding = 0 => Len(lh) = 0
      <4>1. outstanding = 0 => Open = {}
        BY <3>3, OpenFinite, FS_EmptySet DEF Inv
      <4>. QED BY <3>1, <4>1 DEF Room
    <3>6. Len(lh) + (outstanding + 1) * OpMax <= LOGSIZE - 2
      <4>1. Len(lh) \in Nat /\ outstanding \in Nat
        BY DEF Inv, TypeOK
      <4>2. Len(lh) + (outstanding + 1) * MAXOPBLOCKS <= LOGSIZE
        BY <2>2, <4>1 DEF NoSpace
      <4>. QED BY <3>5, <4>1, <4>2, Reservation
    <3>7. Len(lh') + Cardinality(Slots') <= LOGSIZE - 2
      <4>1. Len(lh) \in Nat /\ (outstanding + 1) * OpMax \in Nat
        BY DEF Inv, TypeOK
      <4>. QED BY <3>1, <3>4, <3>6, <4>1
    <3>8. \A q \in Procs : IsFiniteSet(wrote'[q])
      BY <3>2, FS_EmptySet DEF Room, Inv, TypeOK
    <3>9. \A q \in Open' : wrote'[q] \subseteq Logged'
      BY <3>1, <3>2 DEF Room, Inv, TypeOK, Logged, Open
    <3>. QED BY <3>1, <3>2, <3>7, <3>8, <3>9 DEF Room
  <2>. QED BY <2>1, <2>2
<1>2. ASSUME NEW b \in Blocks, NEW v \in Data, log_write(p, b, v) PROVE Room'
  <2>1. p \in Open /\ step = "none" /\ Open' = Open
    <3>1. p \in Open /\ Open' = Open
      BY <1>2 DEF log_write, Open
    <3>. QED BY <1>2, <3>1 DEF log_write, Inv, Phase, Up, Booting, TypeOK, Steps
  <2>2. outstanding >= 1
    <3>1. outstanding = Cardinality(Open) /\ Cardinality(Open) # 0 /\ outstanding \in Nat
      BY <2>1, OpenFinite, FS_EmptySet DEF Inv, Phase, TypeOK
    <3>. QED BY <3>1
  <2>3. Len(lh) \in Nat /\ Cardinality(Slots) \in Nat /\ IsFiniteSet(Slots)
        /\ Len(lh) + Cardinality(Slots) <= LOGSIZE - 2
    BY <2>1, SlotsBound DEF Room, Inv, TypeOK
  <2>4. ~(TooBig \/ outstanding < 1)
    BY <2>2, <2>3 DEF TooBig, Inv, TypeOK
  <2>5. step' = step /\ wrote' = [wrote EXCEPT ![p] = @ \cup {b}]
    BY <1>2, <2>4 DEF log_write
  <2>6. \A q \in Procs : IsFiniteSet(wrote'[q])
    BY <2>5, FS_AddElement DEF Room, Inv, TypeOK
  <2>7. /\ Cardinality(wrote[p]) \in Nat
        /\ Cardinality(wrote'[p]) =
             IF b \in wrote[p] THEN Cardinality(wrote[p]) ELSE Cardinality(wrote[p]) + 1
        /\ \A q \in Procs : q # p => wrote'[q] = wrote[q]
    BY <2>5, FS_AddElement, FS_CardinalityType DEF Room, Inv, TypeOK
  <2>8. \A q \in Open' : wrote'[q] \subseteq Logged \cup {b}
    BY <2>1, <2>5 DEF Room, Inv, TypeOK, Open
  <2>9. CASE b \in Logged
    <3>1. lh' = lh
      BY <1>2, <2>4, <2>9 DEF log_write
    <3>2. Slots' \in SUBSET Slots
      BY <2>1, <2>7 DEF Slots, Open
    <3>3. Cardinality(Slots') <= Cardinality(Slots) /\ Cardinality(Slots') \in Nat
      BY <2>3, <3>2, FS_Subset, FS_CardinalityType
    <3>4. Logged' = Logged
      BY <3>1 DEF Logged
    <3>5. Len(lh') + Cardinality(Slots') <= LOGSIZE - 2
      BY <2>3, <3>1, <3>3
    <3>6. \A q \in Open' : wrote'[q] \subseteq Logged'
      BY <2>8, <2>9, <3>4
    <3>. QED BY <2>1, <2>5, <2>6, <3>5, <3>6 DEF Room
  <2>10. CASE b \notin Logged
    <3>1. lh' = Append(lh, b)
      BY <1>2, <2>4, <2>10 DEF log_write
    <3>2. /\ Len(lh') = Len(lh) + 1
          /\ \A i \in 1..Len(lh) : lh'[i] = lh[i]
          /\ lh'[Len(lh) + 1] = b
          /\ DOMAIN lh' = 1..(Len(lh) + 1) /\ DOMAIN lh = 1..Len(lh)
      BY <3>1 DEF Inv, TypeOK
    <3>3. b \notin wrote[p] /\ Cardinality(wrote[p]) < OpMax
      BY <1>2, <2>1, <2>10 DEF Room, log_write
    <3> DEFINE s == <<p, Cardinality(wrote[p]) + 1>>
    <3>4. s \in Slots
      BY <2>1, <2>7, <3>3 DEF Slots
    <3>5. Slots' = Slots \ {s}
      BY <2>1, <2>7, <3>3 DEF Slots, Open
    <3>6. Cardinality(Slots') = Cardinality(Slots) - 1
      BY <2>3, <3>4, <3>5, FS_RemoveElement
    <3>7. Logged \cup {b} \subseteq Logged' /\ lh' # <<>>
      BY <2>3, <3>2 DEF Logged
    <3>8. Len(lh') + Cardinality(Slots') <= LOGSIZE - 2
      BY <2>3, <3>2, <3>6
    <3>9. \A q \in Open' : wrote'[q] \subseteq Logged'
      BY <2>8, <3>7
    <3>. QED BY <2>1, <2>5, <2>6, <3>8, <3>9 DEF Room
  <2>. QED BY <2>9, <2>10
<1>3. CASE end_op(p)
  <2>1. p \in Open /\ committing = 0 /\ step = "none"
    <3>1. p \in Open
      BY <1>3 DEF end_op, Open
    <3>. QED BY <1>3, <3>1 DEF end_op, Inv, Phase, Up, Booting, TypeOK, Steps
  <2>2. Open' = Open \ {p} /\ UNCHANGED <<wrote, lh>>
    BY <1>3, <2>1 DEF end_op, Open, Inv, TypeOK, wakeup
  <2>3. CASE outstanding = 1
    BY SMTT(30), <1>3, <2>1, <2>2, <2>3 DEF end_op, Room
  <2>4. CASE outstanding # 1
    <3>1. step' = "none"
      BY <1>3, <2>1, <2>4 DEF end_op
    <3>2. Slots' \in SUBSET Slots
      BY <2>2 DEF Slots
    <3>3. Cardinality(Slots') <= Cardinality(Slots) /\ Cardinality(Slots') \in Nat
          /\ Cardinality(Slots) \in Nat
      BY <3>2, SlotsBound, FS_Subset, FS_CardinalityType DEF Inv
    <3>4. Open' # {}
      <4>1. Cardinality(Open') = outstanding - 1
        BY <2>1, <2>2, OpenFinite, FS_RemoveElement DEF Inv, Phase
      <4>2. outstanding - 1 # 0
        BY <2>4 DEF Inv, TypeOK
      <4>. QED BY <4>1, <4>2, FS_EmptySet
    <3>5. Len(lh') + Cardinality(Slots') <= LOGSIZE - 2
      <4>1. Len(lh) \in Nat /\ Len(lh) + Cardinality(Slots) <= LOGSIZE - 2
        BY <2>1 DEF Room, Inv, TypeOK
      <4>. QED BY <2>2, <3>3, <4>1
    <3>6. Logged' = Logged
      BY <2>2 DEF Logged
    <3>. QED BY <2>1, <2>2, <3>1, <3>4, <3>5, <3>6 DEF Room
  <2>. QED BY <2>3, <2>4
<1>. QED BY <1>1, <1>2, <1>3 DEF Syscall

\* Under SmallOps no panic() of log.c is reached: operations that log fewer
\* blocks than begin_op() reserves never meet "too big a transaction", whatever
\* number of them runs together and however often the machine crashes.
THEOREM LogNeverPanics == SmallOps => (Spec => []NoPanic)
<1> SUFFICES ASSUME SmallOps PROVE Spec => []NoPanic
  OBVIOUS
<1> USE ConstantsAssumption
<1>1. Spec => []Inv
  BY InitInv, NextInv, PTL DEF Spec
<1>2. Init => Room
  BY FS_EmptySet DEF Init, PowerOn, Room
<1>3. Inv /\ Room /\ [Next]_vars => Room'
  <2> SUFFICES ASSUME Inv, Room, [Next]_vars PROVE Room'
    OBVIOUS
  <2>1. CASE \E p \in Procs : Syscall(p)
    BY <2>1, RoomSyscall
  <2>2. CASE commit
    <3>1. wrote' = wrote
      BY <2>2 DEF commit, write_log, write_head, install_trans, install_block,
                  commit_erase, erase, commit_done
    <3>2. CASE \E p \in Procs : commit_done(p)
      <4>1. lh' = <<>> /\ step' = "none"
        BY <3>2 DEF commit_done, Inv, Phase
      <4>2. Open' = {}
        BY <3>2 DEF commit_done, wakeup, Open, Inv, Phase, TypeOK
      <4>3. Slots' = {}
        BY <4>2 DEF Slots
      <4>4. Len(lh') + Cardinality(Slots') <= LOGSIZE - 2
        BY <4>1, <4>3, FS_EmptySet DEF SmallOps
      <4>. QED BY <3>1, <4>1, <4>2, <4>4 DEF Room
    <3>3. CASE write_log \/ write_head \/ install_trans \/ commit_erase
      <4>1. step' \notin {"none", "panic"}
        BY <3>3 DEF write_log, write_head, install_trans, install_block,
                    commit_erase, erase
      <4>. QED BY <3>1, <4>1 DEF Room
    <3>. QED BY <2>2, <3>2, <3>3 DEF commit
  <2>3. CASE recover_from_log
    <3>1. wrote' = wrote /\ pc' = pc
      BY <2>3 DEF recover_from_log, read_head, recover_install, install_block,
                  recover_erase, erase
    <3>2. CASE recover_erase
      <4>1. lh' = <<>> /\ step' = "none"
        BY <3>2 DEF recover_erase, erase
      <4>2. Open' = {}
        BY <3>1, <3>2 DEF recover_erase, Open, Inv, Phase, Booting
      <4>3. Slots' = {}
        BY <4>2 DEF Slots
      <4>4. Len(lh') + Cardinality(Slots') <= LOGSIZE - 2
        BY <4>1, <4>3, FS_EmptySet DEF SmallOps
      <4>. QED BY <3>1, <4>1, <4>2, <4>4 DEF Room
    <3>3. CASE read_head \/ recover_install
      <4>1. step' = "recover"
        BY <3>3 DEF read_head, recover_install, install_block
      <4>. QED BY <3>1, <4>1 DEF Room
    <3>. QED BY <2>3, <3>2, <3>3 DEF recover_from_log
  <2>4. CASE \/ \E b \in Blocks : fill(b) \/ recycle(b)
             \/ UNCHANGED vars
    <3>1. UNCHANGED <<wrote, step, lh, pc>>
      BY <2>4 DEF fill, recycle, vars, log
    <3>2. UNCHANGED <<Slots, Open, Logged>>
      BY <3>1 DEF Slots, Open, Logged
    <3>. QED BY <3>1, <3>2 DEF Room
  <2>5. CASE crash
    BY <2>5, FS_EmptySet DEF crash, Room
  <2>. QED BY <2>1, <2>2, <2>3, <2>4, <2>5 DEF Next
<1>4. Room => NoPanic
  BY DEF Room, NoPanic
<1>. QED BY <1>1, <1>2, <1>3, <1>4, PTL DEF Spec
==============================================================================
