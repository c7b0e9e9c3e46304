------------------------------- MODULE Virtio --------------------------------
(***************************************************************************)
(* kernel/virtio_disk.c: processes queue transfers on the descriptor and   *)
(* available rings, the device performs them in any order and reports them *)
(* on the used ring, and the interrupt handler wakes the processes.        *)
(*                                                                         *)
(* Each process transfers its own locked buffer (bio.c), for a block that  *)
(* no other buffer holds, so a process also names its buffer and block.    *)
(* A stretch of code under vdisk_lock is one step, except in the interrupt *)
(* handler, whose loop races with the device.  A ring entry becomes None   *)
(* once it has been read, since nobody may read it again.                  *)
(***************************************************************************)
EXTENDS Integers, FiniteSets

CONSTANTS
  Procs,
  Data,
  NUM,       \* descriptors, and entries of each ring
  IdxMod,    \* values of a ring index, 2^16 in the code
  None

ASSUME ConstantsAssumption ==
  /\ NUM \in Nat /\ NUM >= 3
  /\ \E k \in 2..IdxMod : IdxMod = k * NUM
  /\ None \notin Procs /\ None \notin Int

Desc == 0..(NUM - 1)
Idx == 0..(IdxMod - 1)

VARIABLES
  free,       \* descriptors d with disk.free[d]
  next,       \* desc[d].next if it has VRING_DESC_F_NEXT, else None
  ops,        \* type of the command at a head descriptor
  info,       \* info[d].b
  status,     \* info[d].status: 0 done, 255 pending
  avail, avail_idx,         \* available ring
  ring, ring_idx,           \* used ring
  used_idx,   \* disk.used_idx
  bdisk,      \* b->disk
  bdata,      \* b->data
  pc, write, idx,   \* each process: where it is, its argument, the head of its chain
  intr,       \* the interrupt handler holds vdisk_lock
  store,      \* device: contents of the blocks
  seen,       \* device: how far it has read the available ring
  busy,       \* device: commands it has accepted and not performed
  irq         \* device: interrupt raised and not acknowledged

driver == <<free, next, ops, info, avail, avail_idx, used_idx>>
device == <<store, seen, busy, irq, ring, ring_idx>>
vars == <<driver, status, device, bdisk, bdata, pc, write, idx, intr>>

\* virtio_disk_init().
Init ==
  /\ free = Desc
  /\ next = [d \in Desc |-> None]
  /\ ops = [d \in Desc |-> "IN"]
  /\ info = [d \in Desc |-> None]
  /\ status = [d \in Desc |-> 0]
  /\ avail = [e \in Desc |-> None] /\ avail_idx = 0
  /\ ring = [e \in Desc |-> None] /\ ring_idx = 0
  /\ used_idx = 0
  /\ bdisk = [p \in Procs |-> 0]
  /\ bdata \in [Procs -> Data]
  /\ pc = [p \in Procs |-> "idle"]
  /\ write = [p \in Procs |-> 0]
  /\ idx = [p \in Procs |-> None]
  /\ intr = FALSE
  /\ store \in [Procs -> Data]
  /\ seen = 0
  /\ busy = {}
  /\ irq = FALSE
------------------------------------------------------------------------------
(* The driver *)

\* alloc_desc() three times: the lowest free descriptors, in order.
Lowest(S) == CHOOSE d \in S : \A e \in S : d <= e
alloc3_desc ==
  LET a == Lowest(free)
      b == Lowest(free \ {a})
  IN  <<a, b, Lowest(free \ {a, b})>>

\* wakeup(&disk.free[0]).
wakeFree(at) == [p \in Procs |-> IF at[p] = "want_desc" THEN "retry" ELSE at[p]]

\* alloc3_desc() fails; it frees again what it took, which wakes the others.
rw_nodesc(p) ==
  /\ Cardinality(free) < 3
  /\ pc' = IF free = {} THEN [pc EXCEPT ![p] = "want_desc"]
                        ELSE [wakeFree(pc) EXCEPT ![p] = "want_desc"]
  /\ UNCHANGED <<driver, status, device, bdisk, bdata, idx, intr>>

\* For virtio_disk_intr().
record(p, d) ==
  /\ bdisk' = [bdisk EXCEPT ![p] = 1]
  /\ info' = [info EXCEPT ![d] = p]

notify(d) ==
  /\ avail' = [avail EXCEPT ![avail_idx % NUM] = d]
  /\ avail_idx' = (avail_idx + 1) % IdxMod

\* Format the three descriptors, queue the chain, notify the device, sleep(b).
rw_submit(p) ==
  LET d == alloc3_desc
  IN  /\ Cardinality(free) >= 3
      /\ free' = free \ {d[1], d[2], d[3]}
      /\ next' = [next EXCEPT ![d[1]] = d[2], ![d[2]] = d[3], ![d[3]] = None]
      /\ ops' = [ops EXCEPT ![d[1]] = IF write'[p] = 1 THEN "OUT" ELSE "IN"]
      /\ status' = [status EXCEPT ![d[1]] = 255]
      /\ record(p, d[1])
      /\ notify(d[1])
      /\ idx' = [idx EXCEPT ![p] = d[1]]
      /\ pc' = [pc EXCEPT ![p] = "asleep"]
      /\ UNCHANGED <<used_idx, device, bdata, intr>>

\* Up to the first sleep, from the call or back from sleep(&disk.free[0]).
virtio_disk_rw(p, w) ==
  /\ ~intr
  /\ pc[p] = "idle"
  /\ write' = [write EXCEPT ![p] = w]
  /\ rw_nodesc(p) \/ rw_submit(p)

rw_retry(p) ==
  /\ ~intr
  /\ pc[p] = "retry"
  /\ UNCHANGED write
  /\ rw_nodesc(p) \/ rw_submit(p)

\* The descriptors free_chain(d) frees.
Chain(d) == {d} \cup (IF next[d] = None THEN {} ELSE
            {next[d]} \cup (IF next[next[d]] = None THEN {} ELSE {next[next[d]]}))

\* Mutant: only the head of the chain is freed.
free_chain_Head(d) ==
  /\ free' = free \cup {d}
  /\ next' = [next EXCEPT ![d] = None]

free_chain(d) ==
  /\ free' = free \cup Chain(d)
  /\ next' = [e \in Desc |-> IF e \in Chain(d) THEN None ELSE next[e]]

\* Back from sleep(b): the transfer is over, or sleep again.
rw_woken(p) ==
  /\ ~intr
  /\ pc[p] = "awake"
  /\ IF bdisk[p] = 1
       THEN /\ pc' = [pc EXCEPT ![p] = "asleep"]
            /\ UNCHANGED <<driver, write, idx>>
       ELSE /\ info' = [info EXCEPT ![idx[p]] = None]
            /\ free_chain(idx[p])
            /\ pc' = [wakeFree(pc) EXCEPT ![p] = "idle"]
            /\ write' = [write EXCEPT ![p] = 0]
            /\ idx' = [idx EXCEPT ![p] = None]
            /\ UNCHANGED <<ops, avail, avail_idx, used_idx>>
  /\ UNCHANGED <<status, device, bdisk, bdata, intr>>
------------------------------------------------------------------------------
(* The interrupt handler *)

intr_ack ==
  /\ irq
  /\ ~intr
  /\ intr' = TRUE
  /\ irq' = FALSE
  /\ UNCHANGED <<driver, status, store, seen, busy, ring, ring_idx, bdisk, bdata,
                 pc, write, idx>>

\* Mutant: one flag for the disk instead of one for each buffer.
intr_entry_OneFlag ==
  /\ intr
  /\ used_idx # ring_idx
  /\ bdisk' = [p \in Procs |-> 0]
  /\ pc' = [p \in Procs |-> IF pc[p] = "asleep" THEN "awake" ELSE pc[p]]
  /\ ring' = [ring EXCEPT ![used_idx % NUM] = None]
  /\ used_idx' = (used_idx + 1) % IdxMod
  /\ UNCHANGED <<free, next, ops, info, avail, avail_idx, status, store, seen,
                 busy, irq, ring_idx, bdata, write, idx, intr>>

\* One completion; wakeup(b).
intr_entry ==
  LET id == ring[used_idx % NUM]
      b == info[id]
  IN  /\ intr
      /\ used_idx # ring_idx
      /\ bdisk' = [bdisk EXCEPT ![b] = 0]
      /\ pc' = [pc EXCEPT ![b] = IF @ = "asleep" THEN "awake" ELSE @]
      /\ ring' = [ring EXCEPT ![used_idx % NUM] = None]
      /\ used_idx' = (used_idx + 1) % IdxMod
      /\ UNCHANGED <<free, next, ops, info, avail, avail_idx, status, store, seen,
                     busy, irq, ring_idx, bdata, write, idx, intr>>

\* Mutant: the handler looks at the used ring once.
intr_done_Early ==
  /\ intr
  /\ intr' = FALSE
  /\ UNCHANGED <<driver, status, device, bdisk, bdata, pc, write, idx>>

intr_done ==
  /\ intr
  /\ used_idx = ring_idx
  /\ intr' = FALSE
  /\ UNCHANGED <<driver, status, device, bdisk, bdata, pc, write, idx>>
------------------------------------------------------------------------------
(* The device (external): accepts commands in order, performs them in any   *)
(* order, raises an interrupt for each.                                     *)

dev_accept ==
  /\ seen # avail_idx
  /\ busy' = busy \cup {avail[seen % NUM]}
  /\ avail' = [avail EXCEPT ![seen % NUM] = None]
  /\ seen' = (seen + 1) % IdxMod
  /\ UNCHANGED <<free, next, ops, info, avail_idx, used_idx, status, store, irq,
                 ring, ring_idx, bdisk, bdata, pc, write, idx, intr>>

dev_perform(d) ==
  /\ d \in busy
  /\ LET b == info[d] IN
       IF ops[d] = "OUT"
         THEN store' = [store EXCEPT ![b] = bdata[b]] /\ UNCHANGED bdata
         ELSE bdata' = [bdata EXCEPT ![b] = store[b]] /\ UNCHANGED store
  /\ status' = [status EXCEPT ![d] = 0]
  /\ busy' = busy \ {d}
  /\ ring' = [ring EXCEPT ![ring_idx % NUM] = d]
  /\ ring_idx' = (ring_idx + 1) % IdxMod
  /\ irq' = TRUE
  /\ UNCHANGED <<driver, seen, bdisk, pc, write, idx, intr>>

\* The owner of an idle buffer modifies it.
modify(p, v) ==
  /\ pc[p] = "idle"
  /\ bdata' = [bdata EXCEPT ![p] = v]
  /\ UNCHANGED <<driver, status, device, bdisk, pc, write, idx, intr>>
------------------------------------------------------------------------------
Handler == intr_ack \/ intr_entry \/ intr_done
Device == dev_accept \/ \E d \in Desc : dev_perform(d)

Next ==
  \/ \E p \in Procs :
       \/ \E w \in {0, 1} : virtio_disk_rw(p, w)
       \/ rw_retry(p)
       \/ rw_woken(p)
       \/ \E v \in Data : modify(p, v)
  \/ Handler
  \/ Device

Spec == Init /\ [][Next]_vars
------------------------------------------------------------------------------
TypeOK ==
  /\ free \subseteq Desc
  /\ next \in [Desc -> Desc \cup {None}]
  /\ ops \in [Desc -> {"IN", "OUT"}]
  /\ info \in [Desc -> Procs \cup {None}]
  /\ status \in [Desc -> {0, 255}]
  /\ avail \in [Desc -> Desc \cup {None}] /\ avail_idx \in Idx
  /\ ring \in [Desc -> Desc \cup {None}] /\ ring_idx \in Idx
  /\ used_idx \in Idx /\ seen \in Idx
  /\ bdisk \in [Procs -> {0, 1}]
  /\ bdata \in [Procs -> Data] /\ store \in [Procs -> Data]
  /\ pc \in [Procs -> {"idle", "want_desc", "retry", "asleep", "awake"}]
  /\ write \in [Procs -> {0, 1}]
  /\ idx \in [Procs -> Desc \cup {None}]
  /\ busy \subseteq Desc
  /\ intr \in BOOLEAN /\ irq \in BOOLEAN

\* Entries of the used ring that the handler has not looked at.
Completed ==
  {ring[(used_idx + k) % NUM] : k \in 0..(((ring_idx - used_idx) % IdxMod) - 1)}

\* Every descriptor is free or in the chain of exactly one transfer, which has
\* three: none leaks when alloc3_desc() gives up half-way, and none is freed
\* twice (the panic of free_desc()).  A completion the handler will look at
\* belongs to a transfer that succeeded and whose process still waits for it:
\* info[id].b is never stale, and the panic "virtio_disk_intr status" is not
\* reached.
DescOwned ==
  LET heads == {idx[p] : p \in {q \in Procs : idx[q] # None}}
  IN  /\ TypeOK
      /\ \A p, q \in Procs : idx[p] = idx[q] /\ idx[p] # None => p = q
      /\ \A d \in heads : Cardinality(Chain(d)) = 3
      /\ \A d, e \in heads : d # e => Chain(d) \cap Chain(e) = {}
      /\ free = Desc \ UNION {Chain(d) : d \in heads}
      /\ \A id \in Completed :
           status[id] = 0 /\ info[id] # None /\ idx[info[id]] = id /\ bdisk[info[id]] = 1

\* virtio_disk_rw() returns only when the buffer and the block agree.
ReturnsTransferred ==
  [][\A p \in Procs : pc[p] = "awake" /\ pc'[p] = "idle" => bdata[p] = store[p]]_vars

\* No wakeup is lost: a process sleeps for descriptors only while there are fewer
\* than three, and on its buffer only while the transfer goes on; a completion
\* that the handler has not seen has an interrupt pending, or a handler that is
\* still in its loop.
NoLostWakeup ==
  /\ \A p \in Procs :
       /\ pc[p] = "want_desc" => Cardinality(free) < 3
       /\ pc[p] = "asleep" => bdisk[p] = 1
  /\ Completed # {} => irq \/ intr
==============================================================================
