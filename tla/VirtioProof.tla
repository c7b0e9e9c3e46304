----------------------------- MODULE VirtioProof -----------------------------
(***************************************************************************)
(* Proofs about Virtio, for every set of processes, every number of        *)
(* descriptors from three on and every width of the ring indices that the  *)
(* number divides.                                                         *)
(***************************************************************************)
EXTENDS Virtio, Remainders, FiniteSetTheorems

(* The rings. *)

\* How many entries of a ring are in use.
Held(a, b) == (b - a) % IdxMod

\* The entries of a ring between the index of its reader and that of its writer are
\* the ones that are used, and there is room for another.
Ring(f, a, b) ==
  /\ f \in [Desc -> Desc \cup {None}] /\ a \in Idx /\ b \in Idx
  /\ Held(a, b) < NUM
  /\ \A k \in Desc : f[(a + k) % NUM] # None <=> k < Held(a, b)
  /\ \A s, t \in Desc : f[s] = f[t] /\ f[s] # None => s = t

In(d, f) == \E s \in Desc : f[s] = d

\* An index counts more than a ring holds.
LEMMA Sizes ==
  /\ NUM \in Nat /\ IdxMod \in Nat
  /\ 0 < NUM /\ 3 <= NUM /\ NUM < IdxMod
  /\ None \notin Desc
<1>1. PICK k \in 2..IdxMod : IdxMod = k * NUM
  BY ConstantsAssumption, Zenon
<1>2. IdxMod \in Nat
  BY <1>1, ConstantsAssumption
<1>3. (k - 1) * NUM >= NUM
  BY <1>1, <1>2, Multiple, ConstantsAssumption
<1>. QED BY <1>1, <1>2, <1>3, ConstantsAssumption DEF Desc

\* The place in a ring is the same for an index that has wrapped round.
LEMMA Wrapped ==
  ASSUME NEW x \in Int, NEW j \in Int
  PROVE  ((x % IdxMod) + j) % NUM = (x + j) % NUM
<1>1. PICK k \in Nat : IdxMod = k * NUM
  BY ConstantsAssumption
<1>2. NUM \in Nat /\ NUM > 0 /\ k * NUM > 0
  BY <1>1, Sizes
<1>3. ((x % (k * NUM)) + j) % NUM = (x + j) % NUM
  BY <1>2, ModModPlus, Zenon
<1>. QED BY <1>1, <1>3, Zenon

\* The distance from one index to another.
LEMMA HeldIs ==
  ASSUME NEW a \in Idx, NEW b \in Idx
  PROVE  Held(a, b) = IF b < a THEN b - a + IdxMod ELSE b - a
BY Sizes, ModNear DEF Held, Idx

\* One entry more, one entry less.
LEMMA HeldPut ==
  ASSUME NEW a \in Idx, NEW b \in Idx, Held(a, b) < NUM
  PROVE  /\ (b + 1) % IdxMod \in Idx
         /\ Held(a, (b + 1) % IdxMod) = Held(a, b) + 1
<1>1. PICK c \in Idx : c = (b + 1) % IdxMod /\ c = IF b + 1 < IdxMod THEN b + 1 ELSE 0
  BY Sizes, ModNear DEF Idx
<1>2. /\ Held(a, b) = IF b < a THEN b - a + IdxMod ELSE b - a
      /\ Held(a, c) = IF c < a THEN c - a + IdxMod ELSE c - a
  BY HeldIs, Zenon
<1>3. Held(a, c) = Held(a, b) + 1
  <2>1. c = IF b + 1 < IdxMod THEN b + 1 ELSE 0
    BY <1>1, Zenon
  <2>. QED BY <1>2, <2>1, Sizes DEF Idx
<1>. QED BY <1>1, <1>3, Zenon

LEMMA HeldTake ==
  ASSUME NEW a \in Idx, NEW b \in Idx, a # b
  PROVE  /\ (a + 1) % IdxMod \in Idx
         /\ Held(a, b) \in Nat /\ Held(a, b) > 0
         /\ Held((a + 1) % IdxMod, b) = Held(a, b) - 1
<1>1. PICK c \in Idx : c = (a + 1) % IdxMod /\ c = IF a + 1 < IdxMod THEN a + 1 ELSE 0
  BY Sizes, ModNear DEF Idx
<1>2. /\ Held(a, b) = IF b < a THEN b - a + IdxMod ELSE b - a
      /\ Held(c, b) = IF b < c THEN b - c + IdxMod ELSE b - c
  BY HeldIs, Zenon
<1>3. Held(a, b) \in Nat /\ Held(a, b) > 0 /\ Held(c, b) = Held(a, b) - 1
  <2>1. c = IF a + 1 < IdxMod THEN a + 1 ELSE 0
    BY <1>1, Zenon
  <2>. QED BY <1>2, <2>1, Sizes DEF Idx
<1>. QED BY <1>1, <1>3, Zenon

\* The entry at the index of the writer.
LEMMA HeldEnd ==
  ASSUME NEW a \in Idx, NEW b \in Idx
  PROVE  Held(a, b) \in Nat /\ (a + Held(a, b)) % NUM = b % NUM
<1>1. PICK k \in Nat : IdxMod = k * NUM
  BY ConstantsAssumption
<1>2. PICK h \in Nat : h = Held(a, b) /\ (a + h = b \/ a + h = b + IdxMod)
  BY HeldIs, Sizes DEF Idx
<1>3. CASE a + h = b + IdxMod
  <2>1. b \in Int /\ -k \in Int /\ NUM \in Nat /\ NUM > 0
    BY Sizes DEF Idx
  <2>2. (b - (-k) * NUM) % NUM = b % NUM
    BY <2>1, ModShift, Zenon
  <2>3. b - (-k) * NUM = a + h
    BY <1>1, <1>3, Sizes DEF Idx
  <2>. QED BY <1>2, <2>2, <2>3, Zenon
<1>. QED BY <1>2, <1>3, Zenon

\* The places of a ring, counted from an index, are different.
LEMMA Places ==
  ASSUME NEW a \in Idx, NEW j \in Desc, NEW k \in Desc
  PROVE  /\ (a + j) % NUM \in Desc
         /\ j # k => (a + j) % NUM # (a + k) % NUM
<1>1. a + j \in Int /\ a + k \in Int /\ j \in Int /\ k \in Int
  BY Sizes DEF Idx, Desc
<1>2. (a + j) % NUM \in Desc
  BY <1>1, Sizes, ModRange, Zenon DEF Desc
<1>3. CASE j < k
  <2>1. a + j < a + k /\ a + k < a + j + NUM
    BY <1>3, Sizes DEF Idx, Desc
  <2>. QED BY <1>1, <1>2, <2>1, Sizes, ModDistinct, Zenon
<1>4. CASE k < j
  <2>1. a + k < a + j /\ a + j < a + k + NUM
    BY <1>4, Sizes DEF Idx, Desc
  <2>. QED BY <1>1, <1>2, <2>1, Sizes, ModDistinct, Zenon
<1>. QED BY <1>1, <1>2, <1>3, <1>4

\* A ring that two descriptors are not on has room for one of them.
LEMMA Room ==
  ASSUME NEW f, NEW a, NEW b, Ring(f, a, b), NEW x \in Desc, NEW y \in Desc,
         x # y, ~In(x, f), ~In(y, f)
  PROVE  Held(a, b) < NUM - 1
<1> SUFFICES ASSUME ~(Held(a, b) < NUM - 1) PROVE FALSE
  BY Zenon
<1>1. a \in Idx /\ b \in Idx /\ Held(a, b) \in Nat /\ Held(a, b) < NUM
  BY HeldEnd, Zenon DEF Ring
<1>2. Held(a, b) = NUM - 1
  BY <1>1, Sizes
<1> DEFINE g == [k \in 0..NUM - 2 |-> f[(a + k) % NUM]]
           Rest == Desc \ {x, y}
<1>3. \A k \in 0..NUM - 2 : k \in Desc /\ (a + k) % NUM \in Desc /\ f[(a + k) % NUM] # None
  BY <1>1, <1>2, Places, Sizes DEF Ring, Desc
<1>4. g \in [0..NUM - 2 -> Rest]
  BY <1>3, Zenon DEF Ring, In
<1>5. \A j, k \in 0..NUM - 2 : g[j] = g[k] => j = k
  BY <1>1, <1>3, Places, Zenon DEF Ring
<1>6. g \in Injection(0..NUM - 2, Rest)
  BY <1>4, <1>5, Zenon DEF Injection, IsInjective
<1>7. /\ IsFiniteSet(Desc) /\ Cardinality(Desc) = NUM
      /\ Cardinality(0..NUM - 2) = NUM - 1
  BY FS_Interval, Sizes DEF Desc
<1>8. IsFiniteSet(Rest) /\ Cardinality(Rest) = NUM - 2
  <2>1. IsFiniteSet(Desc \ {x}) /\ Cardinality(Desc \ {x}) = NUM - 1
    BY <1>7, FS_RemoveElement, Zenon
  <2>2. IsFiniteSet((Desc \ {x}) \ {y}) /\ Cardinality((Desc \ {x}) \ {y}) = NUM - 2
    BY <2>1, FS_RemoveElement, Sizes
  <2>3. (Desc \ {x}) \ {y} = Rest
    BY Zenon
  <2>. QED BY <2>2, <2>3, Zenon
<1>9. Cardinality(0..NUM - 2) <= Cardinality(Rest)
  <2> HIDE DEF g, Rest
  <2>. QED BY <1>6, <1>8, FS_Injection, Zenon
<1>. QED BY <1>7, <1>8, <1>9, Sizes

\* An entry is written.
LEMMA RingPut ==
  ASSUME NEW f, NEW a, NEW b, Ring(f, a, b), Held(a, b) < NUM - 1,
         NEW d \in Desc, ~In(d, f)
  PROVE  LET g == [f EXCEPT ![b % NUM] = d]
         IN  /\ Ring(g, a, (b + 1) % IdxMod)
             /\ \A e \in Desc : In(e, g) <=> In(e, f) \/ e = d
<1> DEFINE g == [f EXCEPT ![b % NUM] = d]
           h == Held(a, b)
<1>1. /\ a \in Idx /\ b \in Idx /\ h \in Nat /\ h < NUM - 1 /\ h \in Desc
      /\ f \in [Desc -> Desc \cup {None}]
  BY HeldEnd, Sizes DEF Ring, Desc
<1>2. (a + h) % NUM = b % NUM /\ b % NUM \in Desc /\ f[b % NUM] = None
  <2>1. (a + h) % NUM = b % NUM
    BY <1>1, HeldEnd, Zenon
  <2>2. (a + h) % NUM \in Desc
    BY <1>1, Places, Zenon
  <2>. QED BY <1>1, <2>1, <2>2 DEF Ring
<1>3. /\ g \in [Desc -> Desc \cup {None}] /\ g[b % NUM] = d
      /\ \A s \in Desc : s # b % NUM => g[s] = f[s]
  BY <1>1, <1>2, Zenon
<1>4. (b + 1) % IdxMod \in Idx /\ Held(a, (b + 1) % IdxMod) = h + 1
  BY <1>1, HeldPut, Sizes
<1>5. ASSUME NEW k \in Desc
      PROVE  g[(a + k) % NUM] # None <=> k < h + 1
  <2>1. CASE k = h
    BY <1>1, <1>2, <1>3, <2>1, Sizes
  <2>2. CASE k # h
    <3>1. (a + k) % NUM \in Desc /\ (a + k) % NUM # b % NUM
      BY <1>1, <1>2, <2>2, Places, Zenon
    <3>2. g[(a + k) % NUM] = f[(a + k) % NUM]
      BY <1>3, <3>1, Zenon
    <3>3. g[(a + k) % NUM] # None <=> k < h
      BY <3>2, Zenon DEF Ring
    <3>. QED BY <1>1, <2>2, <3>3 DEF Desc
  <2>. QED BY <2>1, <2>2, Zenon
<1>6. \A s, t \in Desc : g[s] = g[t] /\ g[s] # None => s = t
  BY <1>3, Zenon DEF Ring, In
<1>7. \A e \in Desc : In(e, g) <=> In(e, f) \/ e = d
  BY <1>2, <1>3, Sizes DEF In
<1> HIDE DEF g, h
<1>8. Ring(g, a, (b + 1) % IdxMod)
  BY <1>1, <1>3, <1>4, <1>5, <1>6, Sizes DEF Ring
<1>. QED BY <1>7, <1>8, Zenon DEF g

\* An entry is read.
LEMMA RingTake ==
  ASSUME NEW f, NEW a, NEW b, Ring(f, a, b), a # b
  PROVE  LET g == [f EXCEPT ![a % NUM] = None]
         IN  /\ a % NUM \in Desc /\ f[a % NUM] \in Desc
             /\ Ring(g, (a + 1) % IdxMod, b)
             /\ \A e \in Desc : In(e, g) <=> In(e, f) /\ e # f[a % NUM]
<1> DEFINE g == [f EXCEPT ![a % NUM] = None]
           h == Held(a, b)
<1>1. /\ a \in Idx /\ b \in Idx /\ h \in Nat /\ h < NUM /\ h > 0
      /\ f \in [Desc -> Desc \cup {None}]
  BY HeldTake, Zenon DEF Ring
<1>2. a % NUM \in Desc /\ f[a % NUM] \in Desc
  <2>1. (a + 0) % NUM \in Desc /\ 0 \in Desc /\ a + 0 = a
    BY <1>1, Places, Sizes DEF Desc, Idx
  <2>2. f[(a + 0) % NUM] # None
    BY <1>1, <2>1, Zenon DEF Ring
  <2>. QED BY <1>1, <2>1, <2>2, Zenon
<1>3. /\ g \in [Desc -> Desc \cup {None}] /\ g[a % NUM] = None
      /\ \A s \in Desc : s # a % NUM => g[s] = f[s]
  BY <1>1, <1>2, Zenon
<1>4. (a + 1) % IdxMod \in Idx /\ Held((a + 1) % IdxMod, b) = h - 1
  BY <1>1, HeldTake, Zenon
<1>5. ASSUME NEW k \in Desc
      PROVE  g[(((a + 1) % IdxMod) + k) % NUM] # None <=> k < h - 1
  <2>1. (((a + 1) % IdxMod) + k) % NUM = (a + 1 + k) % NUM
    <3>1. a + 1 \in Int /\ k \in Int
      BY <1>1, Sizes DEF Idx, Desc
    <3>. QED BY <3>1, Wrapped, Zenon
  <2>2. CASE k < NUM - 1
    <3>1. k + 1 \in Desc /\ 0 \in Desc /\ a + (k + 1) = a + 1 + k /\ a + 0 = a /\ k + 1 # 0
      BY <1>1, <2>2, Sizes DEF Desc, Idx
    <3>2. (a + (k + 1)) % NUM \in Desc /\ (a + (k + 1)) % NUM # (a + 0) % NUM
      BY <1>1, <3>1, Places, Zenon
    <3>3. g[(a + (k + 1)) % NUM] = f[(a + (k + 1)) % NUM]
      BY <1>3, <3>1, <3>2
    <3>4. f[(a + (k + 1)) % NUM] # None <=> k + 1 < h
      BY <3>1, Zenon DEF Ring
    <3>5. k + 1 < h <=> k < h - 1
      BY <1>1 DEF Desc
    <3>. QED BY <2>1, <3>1, <3>3, <3>4, <3>5, Zenon
  <2>3. CASE k = NUM - 1
    <3>1. /\ a \in Int /\ -1 \in Int /\ NUM \in Nat /\ NUM > 0
          /\ a + 1 + k = a - (-1) * NUM
      BY <1>1, <2>3, Sizes DEF Idx
    <3>2. (a + 1 + k) % NUM = a % NUM
      BY <3>1, ModShift, Zenon
    <3>3. ~(k < h - 1)
      BY <1>1, <2>3, Sizes
    <3>. QED BY <1>3, <2>1, <3>2, <3>3, Zenon
  <2>. QED BY <2>2, <2>3, Sizes DEF Desc
<1>6. \A s, t \in Desc : g[s] = g[t] /\ g[s] # None => s = t
  BY <1>3, Zenon DEF Ring
<1>7. \A e \in Desc : In(e, g) <=> In(e, f) /\ e # f[a % NUM]
  BY <1>2, <1>3, Sizes, Zenon DEF In, Ring
<1> HIDE DEF g, h
<1>8. Ring(g, (a + 1) % IdxMod, b)
  BY <1>1, <1>3, <1>4, <1>5, <1>6, Sizes DEF Ring
<1>. QED BY <1>2, <1>7, <1>8, Zenon DEF g
------------------------------------------------------------------------------
(* The inductive invariant. *)

\* Where a process has a chain.
Waiting == {"asleep", "awake"}

Rings == Ring(avail, seen, avail_idx) /\ Ring(ring, used_idx, ring_idx)

\* Each process that waits for its buffer has a chain of its own, of three
\* descriptors; the others are free.
Owners ==
  \A p \in Procs :
    /\ idx[p] = None <=> pc[p] \notin Waiting
    /\ idx[p] = None => bdisk[p] = 0
    /\ idx[p] # None => info[idx[p]] = p
    /\ pc[p] = "asleep" => bdisk[p] = 1

Links(f, d) == {d, f[d], f[f[d]]}

Trio(f, d) ==
  /\ d \in Desc /\ f[d] \in Desc /\ f[f[d]] \in Desc
  /\ f[d] # d /\ f[f[d]] # d /\ f[f[d]] # f[d]

Chains ==
  /\ \A p \in Procs :
       idx[p] # None => Trio(next, idx[p]) /\ Links(next, idx[p]) \cap free = {}
  /\ \A p, q \in Procs :
       idx[p] # None /\ idx[q] # None /\ p # q =>
         Links(next, idx[p]) \cap Links(next, idx[q]) = {}
  /\ \A d \in Desc \ free : \E p \in Procs : idx[p] # None /\ d \in Links(next, idx[p])

\* A command is in one place, and its process waits for it.
Flight ==
  /\ \A d \in Desc :
       In(d, avail) \/ d \in busy \/ In(d, ring) =>
         info[d] \in Procs /\ idx[info[d]] = d /\ bdisk[info[d]] = 1
  /\ \A d \in busy : ~In(d, avail) /\ ~In(d, ring)
  /\ \A d \in Desc : ~(In(d, avail) /\ In(d, ring))

\* A command that is neither queued nor busy has been performed.
Performed ==
  \A p \in Procs :
    idx[p] # None /\ ~In(idx[p], avail) /\ idx[p] \notin busy =>
      status[idx[p]] = 0 /\ bdata[p] = store[p]

\* Who has to be woken up, and who will do it.
Wakeups ==
  /\ \A p \in Procs : pc[p] = "want_desc" => Cardinality(free) < 3
  /\ used_idx # ring_idx => irq \/ intr

Inv ==
  /\ TypeOK /\ Rings
  /\ Owners /\ Chains /\ Flight /\ Performed /\ Wakeups

\* It holds when virtio_disk_init() returns.
LEMMA InitInv == Init => Inv
<1> SUFFICES ASSUME Init PROVE Inv
  BY Zenon
<1>1. TypeOK
  <2>1. 0 \in Idx
    BY Sizes DEF Idx
  <2>. QED BY <2>1, Zenon DEF Init, TypeOK
<1>2. Rings
  <2>1. Held(0, 0) = 0 /\ 0 \in Idx
    BY Sizes, HeldIs DEF Idx
  <2>2. \A k \in Desc : (0 + k) % NUM \in Desc /\ ~(k < 0)
    BY <2>1, Places, Sizes DEF Desc
  <2>. QED BY <2>1, <2>2, Sizes, Zenon DEF Init, Rings, Ring
<1>3. \A d \in Desc : ~In(d, avail) /\ ~In(d, ring)
  BY Sizes, Zenon DEF Init, In
<1>4. Owners /\ Chains /\ Performed /\ Wakeups
  BY Zenon DEF Init, Owners, Chains, Performed, Wakeups, Waiting
<1>5. Flight
  BY <1>3, Zenon DEF Init, Flight
<1>. QED BY <1>1, <1>2, <1>4, <1>5, Zenon DEF Inv

\* alloc3_desc() returns three free descriptors.
LEMMA LowestIn ==
  ASSUME NEW S \in SUBSET Desc, S # {}
  PROVE  Lowest(S) \in S
<1> DEFINE R == {m \in Nat \X Nat : m[1] < m[2]}
<1>1. IsWellFoundedOn(R, Nat)
  BY NatLessThanWellFounded, Zenon DEF OpToRel
<1>2. S \subseteq Nat
  BY Sizes DEF Desc
<1>3. PICK d \in S : \A e \in S : ~(<<e, d>> \in R)
  BY <1>1, <1>2, WFMin, Zenon
<1>4. ASSUME NEW e \in S PROVE d <= e
  <2>1. d \in Nat /\ e \in Nat
    BY <1>2, Zenon
  <2>2. ~(e < d)
    BY <1>3, <2>1, Zenon
  <2>. QED BY <2>1, <2>2
<1>. QED BY <1>4, Zenon DEF Lowest

LEMMA FreeCount ==
  ASSUME free \subseteq Desc
  PROVE  IsFiniteSet(free) /\ Cardinality(free) \in Nat
<1>1. IsFiniteSet(Desc)
  BY FS_Interval, Sizes DEF Desc
<1>2. IsFiniteSet(free)
  BY <1>1, FS_Subset, Zenon
<1>. QED BY <1>2, FS_CardinalityType, Zenon

LEMMA Allocated ==
  ASSUME free \subseteq Desc, Cardinality(free) >= 3
  PROVE  \E a, b, c \in free : /\ a # b /\ a # c /\ b # c
                               /\ alloc3_desc = <<a, b, c>>
<1> DEFINE a == Lowest(free)
           b == Lowest(free \ {a})
           c == Lowest(free \ {a, b})
<1>1. IsFiniteSet(free) /\ Cardinality(free) \in Nat
  BY FreeCount, Zenon
<1>2. \A x, y : free \ {x} # {} /\ free \ {x, y} # {} /\ free # {}
  <2> SUFFICES ASSUME NEW x, NEW y PROVE free \ {x, y} # {}
    BY Zenon
  <2>1. ASSUME NEW T, NEW z, IsFiniteSet(T), NEW k \in Nat, Cardinality(T) = k
        PROVE  /\ IsFiniteSet(T \ {z})
               /\ Cardinality(T \ {z}) \in Nat /\ Cardinality(T \ {z}) >= k - 1
    <3>1. IsFiniteSet(T \ {z}) /\ Cardinality(T \ {z}) = IF z \in T THEN k - 1 ELSE k
      BY <2>1, FS_RemoveElement, Zenon
    <3>2. Cardinality(T \ {z}) \in Nat
      BY <3>1, FS_CardinalityType, Zenon
    <3>. QED BY <3>1, <3>2
  <2>2. PICK S, n : n \in Nat /\ S = free \ {x} /\ IsFiniteSet(S) /\ Cardinality(S) = n
    BY <1>1, <2>1, Zenon
  <2>3. n >= Cardinality(free) - 1
    BY <1>1, <2>1, <2>2, Zenon
  <2>4. PICK T, m : m \in Nat /\ T = S \ {y} /\ IsFiniteSet(T) /\ Cardinality(T) = m
    BY <2>1, <2>2, Zenon
  <2>5. m >= n - 1
    BY <2>1, <2>2, <2>4, Zenon
  <2>6. m # 0
    BY <1>1, <2>2, <2>3, <2>4, <2>5
  <2>7. T # {}
    BY <2>4, <2>6, FS_EmptySet, Zenon
  <2>. QED BY <2>2, <2>4, <2>7, Zenon
<1>3. a \in free /\ b \in free \ {a} /\ c \in free \ {a, b}
  <2>1. a \in free
    BY <1>2, LowestIn, Zenon
  <2>2. b \in free \ {a}
    BY <1>2, LowestIn, Zenon
  <2>. QED BY <1>2, <2>1, <2>2, LowestIn, Zenon
<1>4. alloc3_desc = <<a, b, c>>
  BY Zenon DEF alloc3_desc
<1> HIDE DEF a, b, c
<1>. QED BY <1>3, <1>4, Zenon
------------------------------------------------------------------------------
(* Each step keeps it. *)

\* The conjuncts whose variables a step leaves alone.
LEMMA RingsSame ==
  ASSUME Rings, UNCHANGED <<avail, seen, avail_idx, ring, used_idx, ring_idx>>
  PROVE  Rings'
BY Zenon DEF Rings

LEMMA OwnersSame ==
  ASSUME Owners, UNCHANGED <<idx, bdisk, info>>,
         \A q \in Procs : /\ pc'[q] \in Waiting <=> pc[q] \in Waiting
                          /\ pc'[q] = "asleep" => pc[q] = "asleep"
  PROVE  Owners'
<1>1. idx' = idx /\ bdisk' = bdisk /\ info' = info
  BY Zenon
<1> SUFFICES ASSUME NEW q \in Procs
             PROVE  /\ idx'[q] = None <=> pc'[q] \notin Waiting
                    /\ idx'[q] = None => bdisk'[q] = 0
                    /\ idx'[q] # None => info'[idx'[q]] = q
                    /\ pc'[q] = "asleep" => bdisk'[q] = 1
  BY Zenon DEF Owners
<1>2. /\ idx[q] = None <=> pc[q] \notin Waiting
      /\ idx[q] = None => bdisk[q] = 0
      /\ idx[q] # None => info[idx[q]] = q
      /\ pc[q] = "asleep" => bdisk[q] = 1
  BY Zenon DEF Owners
<1>. QED BY <1>1, <1>2, Zenon

LEMMA ChainsSame ==
  ASSUME Chains, UNCHANGED <<idx, next, free>>
  PROVE  Chains'
BY Zenon DEF Chains

LEMMA FlightSame ==
  ASSUME Flight, UNCHANGED <<avail, busy, ring, info, idx, bdisk>>
  PROVE  Flight'
BY Zenon DEF Flight, In

LEMMA PerformedSame ==
  ASSUME Performed, UNCHANGED <<idx, avail, busy, status, bdata, store>>
  PROVE  Performed'
BY Zenon DEF Performed, In

\* What Chain() is for the head of a chain of three.
LEMMA ChainIs ==
  ASSUME NEW d, Trio(next, d)
  PROVE  Chain(d) = Links(next, d)
BY Sizes, Zenon DEF Trio, Chain, Links

\* A descriptor that is queued or busy is the head of its chain, and not free.
LEMMA Heads ==
  ASSUME Inv, NEW d \in Desc, In(d, avail) \/ d \in busy \/ In(d, ring)
  PROVE  \E p \in Procs : /\ info[d] = p /\ idx[p] = d /\ bdisk[p] = 1
                          /\ Trio(next, d) /\ d \notin free
<1>1. PICK p \in Procs : info[d] = p /\ idx[p] = d /\ bdisk[p] = 1
  BY Zenon DEF Inv, Flight
<1>2. Trio(next, d) /\ Links(next, d) \cap free = {}
  BY <1>1, Sizes, Zenon DEF Inv, Chains
<1>. QED BY <1>1, <1>2, Zenon DEF Links

\* A transfer is queued.
LEMMA SubmitInv ==
  ASSUME Inv, NEW p \in Procs, pc[p] \in {"idle", "retry"}, rw_submit(p),
         write' \in [Procs -> {0, 1}]
  PROVE  Inv'
<1> USE DEF Inv
<1>1. PICK a, b, c \in free : /\ a # b /\ a # c /\ b # c
                              /\ alloc3_desc = <<a, b, c>>
  BY Allocated, Zenon DEF rw_submit, TypeOK
<1>2. /\ Cardinality(free) >= 3
      /\ free' = free \ {a, b, c}
      /\ next' = [next EXCEPT ![a] = b, ![b] = c, ![c] = None]
      /\ ops' = [ops EXCEPT ![a] = IF write'[p] = 1 THEN "OUT" ELSE "IN"]
      /\ status' = [status EXCEPT ![a] = 255]
      /\ bdisk' = [bdisk EXCEPT ![p] = 1]
      /\ info' = [info EXCEPT ![a] = p]
      /\ avail' = [avail EXCEPT ![avail_idx % NUM] = a]
      /\ avail_idx' = (avail_idx + 1) % IdxMod
      /\ idx' = [idx EXCEPT ![p] = a]
      /\ pc' = [pc EXCEPT ![p] = "asleep"]
      /\ UNCHANGED <<used_idx, device, bdata, intr>>
  BY <1>1, Zenon DEF rw_submit, record, notify
<1>3. /\ a \in Desc /\ b \in Desc /\ c \in Desc /\ None \notin Desc
      /\ idx[p] = None
      /\ \A q \in Procs : idx'[q] = IF q = p THEN a ELSE idx[q]
  BY <1>1, <1>2, Sizes DEF TypeOK, Owners, Waiting
<1>4. \A q \in Procs : idx[q] # None =>
        /\ idx[q] \in Desc /\ Trio(next, idx[q])
        /\ Links(next, idx[q]) \cap {a, b, c} = {}
        /\ idx[q] \notin {a, b, c}
  <2> SUFFICES ASSUME NEW q \in Procs, idx[q] # None
               PROVE  /\ idx[q] \in Desc /\ Trio(next, idx[q])
                      /\ Links(next, idx[q]) \cap {a, b, c} = {}
                      /\ idx[q] \notin {a, b, c}
    BY Zenon
  <2>1. Trio(next, idx[q]) /\ Links(next, idx[q]) \cap free = {}
    BY Zenon DEF Chains
  <2>2. idx[q] \in Links(next, idx[q]) /\ idx[q] \in Desc
    BY <2>1, Zenon DEF Links, Trio
  <2>. QED BY <1>1, <2>1, <2>2, Zenon
<1>5. \A d \in {a, b, c} : ~In(d, avail) /\ ~In(d, ring) /\ d \notin busy
  BY <1>1, <1>3, Heads
<1>6. /\ Rings'
      /\ \A e \in Desc : In(e, avail') <=> In(e, avail) \/ e = a
  <2>1. Held(seen, avail_idx) < NUM - 1
    BY <1>1, <1>3, <1>5, Room, Zenon DEF Rings
  <2>2. /\ Ring(avail', seen, avail_idx')
        /\ \A e \in Desc : In(e, avail') <=> In(e, avail) \/ e = a
    BY <1>2, <1>3, <1>5, <2>1, RingPut, Zenon DEF Rings
  <2>. QED BY <1>2, <2>2, Zenon DEF Rings, device
<1>7. TypeOK'
  <2>1. avail' \in [Desc -> Desc \cup {None}] /\ avail_idx' \in Idx
    BY <1>6, Zenon DEF Rings, Ring
  <2>2. next' \in [Desc -> Desc \cup {None}]
    BY <1>2, <1>3, Zenon DEF TypeOK
  <2>. QED BY <1>2, <1>3, <2>1, <2>2 DEF TypeOK, device
<1>8. Owners'
  BY <1>2, <1>3, <1>4 DEF Owners, Waiting, TypeOK
<1>9. Chains'
  <2>1. /\ next'[a] = b /\ next'[b] = c /\ next'[c] = None
        /\ \A d \in Desc \ {a, b, c} : next'[d] = next[d]
    BY <1>1, <1>2, <1>3 DEF TypeOK
  <2>2. Trio(next', a) /\ Links(next', a) = {a, b, c}
    BY <1>1, <1>3, <2>1, Zenon DEF Trio, Links
  <2>3. ASSUME NEW q \in Procs, idx[q] # None
        PROVE  Trio(next', idx[q]) /\ Links(next', idx[q]) = Links(next, idx[q])
    <3>1. PICK d \in Desc \ {a, b, c} :
            /\ d = idx[q] /\ Trio(next, d)
            /\ next[d] \in Desc \ {a, b, c} /\ next[next[d]] \in Desc \ {a, b, c}
      BY <1>4, <2>3, Zenon DEF Trio, Links
    <3>2. next'[d] = next[d] /\ next'[next[d]] = next[next[d]]
      BY <2>1, <3>1, Zenon
    <3>. QED BY <3>1, <3>2, Zenon DEF Trio, Links
  <2>4. ASSUME NEW q \in Procs, idx'[q] # None
        PROVE  Trio(next', idx'[q]) /\ Links(next', idx'[q]) \cap free' = {}
    <3>1. free' = free \ {a, b, c}
      BY <1>2, Zenon
    <3>2. CASE q = p
      BY <1>3, <2>2, <3>1, <3>2, Zenon
    <3>3. CASE q # p
      BY <1>3, <2>3, <2>4, <3>1, <3>3 DEF Chains
    <3>. QED BY <3>2, <3>3, Zenon
  <2>5. ASSUME NEW q \in Procs, NEW r \in Procs, idx'[q] # None, idx'[r] # None, q # r
        PROVE  Links(next', idx'[q]) \cap Links(next', idx'[r]) = {}
    BY <1>3, <1>4, <2>2, <2>3, <2>5, Zenon DEF Chains
  <2>6. ASSUME NEW d \in Desc \ free'
        PROVE  \E q \in Procs : idx'[q] # None /\ d \in Links(next', idx'[q])
    <3>1. CASE d \in {a, b, c}
      BY <1>3, <2>2, <3>1, Zenon
    <3>2. CASE d \in Desc \ free
      BY <1>3, <2>3, <3>2, Zenon DEF Chains
    <3>. QED BY <1>2, <3>1, <3>2, Zenon
  <2>. QED BY <2>4, <2>5, <2>6, Zenon DEF Chains
<1>10. Flight'
  <2>1. UNCHANGED <<busy, ring>>
    BY <1>2, Zenon DEF device
  <2>2. ASSUME NEW d \in Desc, In(d, avail') \/ d \in busy' \/ In(d, ring')
        PROVE  info'[d] \in Procs /\ idx'[info'[d]] = d /\ bdisk'[info'[d]] = 1
    <3>1. CASE d = a
      BY <1>2, <1>3, <3>1, Zenon DEF TypeOK
    <3>2. CASE d # a
      <4>1. info[d] \in Procs /\ idx[info[d]] = d /\ bdisk[info[d]] = 1
        BY <1>6, <2>1, <2>2, <3>2, Zenon DEF Flight
      <4>2. info'[d] = info[d] /\ info[d] # p
        BY <1>2, <1>3, <3>2, <4>1 DEF TypeOK
      <4>. QED BY <1>2, <1>3, <4>1, <4>2 DEF TypeOK
    <3>. QED BY <3>1, <3>2, Zenon
  <2>3. \A d \in busy' : ~In(d, avail') /\ ~In(d, ring')
    BY <1>5, <1>6, <2>1, Zenon DEF Flight, TypeOK
  <2>4. \A d \in Desc : ~(In(d, avail') /\ In(d, ring'))
    BY <1>5, <1>6, <2>1, Zenon DEF Flight
  <2>. QED BY <2>2, <2>3, <2>4, Zenon DEF Flight
<1>11. Performed'
  BY <1>2, <1>3, <1>4, <1>6 DEF Performed, device
<1>12. Wakeups'
  <2>1. \A q \in Procs : pc[q] # "want_desc" /\ pc'[q] # "want_desc"
    BY <1>2, FreeCount DEF Wakeups, TypeOK
  <2>. QED BY <1>2, <2>1, Zenon DEF Wakeups, device
<1>. QED BY <1>6, <1>7, <1>8, <1>9, <1>10, <1>11, <1>12, Zenon

\* alloc3_desc() fails.
LEMMA NodescInv ==
  ASSUME Inv, NEW p \in Procs, pc[p] \in {"idle", "retry"}, rw_nodesc(p),
         write' \in [Procs -> {0, 1}]
  PROVE  Inv'
<1> USE DEF Inv
<1>1. \A q \in Procs :
        \/ pc'[q] = pc[q]
        \/ pc'[q] \in {"want_desc", "retry"} /\ pc[q] \in {"idle", "want_desc", "retry"}
  BY Zenon DEF rw_nodesc, wakeFree, TypeOK
<1>2. TypeOK'
  <2>1. pc' \in [Procs -> {"idle", "want_desc", "retry", "asleep", "awake"}]
    BY Zenon DEF rw_nodesc, wakeFree, TypeOK
  <2>. QED BY <2>1, Zenon DEF rw_nodesc, TypeOK, driver, device
<1>3. Rings'
  BY RingsSame, Zenon DEF rw_nodesc, driver, device
<1>4. Owners'
  BY <1>1, OwnersSame, Zenon DEF rw_nodesc, driver, Waiting
<1>5. Chains'
  BY ChainsSame, Zenon DEF rw_nodesc, driver
<1>6. Flight'
  BY FlightSame, Zenon DEF rw_nodesc, driver, device
<1>7. Performed'
  BY PerformedSame, Zenon DEF rw_nodesc, driver, device
<1>8. Wakeups'
  BY Zenon DEF rw_nodesc, Wakeups, driver, device
<1>. QED BY <1>2, <1>3, <1>4, <1>5, <1>6, <1>7, <1>8, Zenon

\* The interrupt handler begins and ends.
LEMMA HandlerInv ==
  ASSUME Inv, intr_ack \/ intr_done
  PROVE  Inv'
<1> USE DEF Inv
<1>1. /\ UNCHANGED <<driver, status, store, seen, busy, ring, ring_idx, bdisk, bdata,
                     pc, write, idx>>
      /\ intr' \in BOOLEAN /\ irq' \in BOOLEAN
  BY Zenon DEF intr_ack, intr_done, device, TypeOK
<1>2. TypeOK'
  BY <1>1, Zenon DEF TypeOK, driver
<1>3. Rings'
  BY <1>1, RingsSame, Zenon DEF driver
<1>4. Owners'
  BY <1>1, OwnersSame, Zenon DEF driver
<1>5. Chains'
  BY <1>1, ChainsSame, Zenon DEF driver
<1>6. Flight'
  BY <1>1, FlightSame, Zenon DEF driver
<1>7. Performed'
  BY <1>1, PerformedSame, Zenon DEF driver
<1>8. Wakeups'
  BY <1>1, Zenon DEF Wakeups, driver, intr_ack, intr_done
<1>. QED BY <1>2, <1>3, <1>4, <1>5, <1>6, <1>7, <1>8, Zenon

\* The owner of an idle buffer has no transfer.
LEMMA ModifyInv ==
  ASSUME Inv, NEW p \in Procs, NEW v \in Data, modify(p, v)
  PROVE  Inv'
<1> USE DEF Inv
<1>1. /\ UNCHANGED <<driver, status, device, bdisk, pc, write, idx, intr>>
      /\ bdata' \in [Procs -> Data]
      /\ idx[p] = None /\ \A q \in Procs : q # p => bdata'[q] = bdata[q]
  BY Zenon DEF modify, TypeOK, Owners, Waiting
<1>2. TypeOK'
  BY <1>1, Zenon DEF TypeOK, driver, device
<1>3. Rings'
  BY <1>1, RingsSame, Zenon DEF driver, device
<1>4. Owners'
  BY <1>1, OwnersSame, Zenon DEF driver
<1>5. Chains'
  BY <1>1, ChainsSame, Zenon DEF driver
<1>6. Flight'
  BY <1>1, FlightSame, Zenon DEF driver, device
<1>7. Performed'
  BY <1>1, Zenon DEF Performed, In, driver, device
<1>8. Wakeups'
  BY <1>1, Zenon DEF Wakeups, driver, device
<1>. QED BY <1>2, <1>3, <1>4, <1>5, <1>6, <1>7, <1>8, Zenon

\* A process wakes up on its buffer.
LEMMA WokenInv ==
  ASSUME Inv, NEW p \in Procs, rw_woken(p)
  PROVE  Inv'
<1> USE DEF Inv
<1>1. CASE bdisk[p] = 1
  <2>1. /\ pc' = [pc EXCEPT ![p] = "asleep"] /\ pc[p] = "awake"
        /\ UNCHANGED <<driver, write, idx, status, device, bdisk, bdata, intr>>
    BY <1>1, Zenon DEF rw_woken
  <2>2. TypeOK'
    BY <2>1, Zenon DEF TypeOK, driver, device
  <2>3. Rings'
    BY <2>1, RingsSame, Zenon DEF driver, device
  <2>4. Owners'
    BY <1>1, <2>1, Zenon DEF Owners, Waiting, TypeOK, driver
  <2>5. Chains'
    BY <2>1, ChainsSame, Zenon DEF driver
  <2>6. Flight'
    BY <2>1, FlightSame, Zenon DEF driver, device
  <2>7. Performed'
    BY <2>1, PerformedSame, Zenon DEF driver, device
  <2>8. Wakeups'
    BY <2>1 DEF Wakeups, TypeOK, driver, device
  <2>. QED BY <2>2, <2>3, <2>4, <2>5, <2>6, <2>7, <2>8, Zenon
<1>2. CASE bdisk[p] # 1
  <2>1. PICK d \in Desc : idx[p] = d /\ d # None /\ Trio(next, d) /\ info[d] = p
    BY Sizes DEF rw_woken, Owners, Waiting, Chains, TypeOK
  <2>2. PICK C : C = Links(next, d) /\ d \in C /\ C \subseteq Desc
    BY <2>1, Zenon DEF Trio, Links
  <2>3. /\ info' = [info EXCEPT ![d] = None]
        /\ free' = free \cup C
        /\ next' = [e \in Desc |-> IF e \in C THEN None ELSE next[e]]
        /\ pc' = [wakeFree(pc) EXCEPT ![p] = "idle"]
        /\ write' = [write EXCEPT ![p] = 0]
        /\ idx' = [idx EXCEPT ![p] = None]
        /\ UNCHANGED <<ops, avail, avail_idx, used_idx, status, device, bdisk, bdata, intr>>
    BY <1>2, <2>1, <2>2, ChainIs DEF rw_woken, free_chain
  <2>4. /\ \A q \in Procs : q # p => idx'[q] = idx[q]
        /\ idx'[p] = None
    BY <2>3, Zenon DEF TypeOK
  <2>5. ASSUME NEW q \in Procs, q # p, idx[q] # None
        PROVE  idx[q] \in Desc /\ Links(next, idx[q]) \cap C = {} /\ idx[q] \notin C
    <3>1. Links(next, idx[q]) \cap C = {} /\ Trio(next, idx[q])
      BY <2>1, <2>2, <2>5, Zenon DEF Chains
    <3>. QED BY <3>1, Zenon DEF Links, Trio
  <2>6. TypeOK'
    <3>1. pc' \in [Procs -> {"idle", "want_desc", "retry", "asleep", "awake"}]
      BY <2>3, Zenon DEF TypeOK, wakeFree
    <3>2. next' \in [Desc -> Desc \cup {None}] /\ free' \subseteq Desc
      BY <2>2, <2>3, Zenon DEF TypeOK
    <3>3. /\ info' \in [Desc -> Procs \cup {None}] /\ write' \in [Procs -> {0, 1}]
          /\ idx' \in [Procs -> Desc \cup {None}]
      BY <2>1, <2>3, Zenon DEF TypeOK
    <3>. QED BY <2>3, <3>1, <3>2, <3>3, Zenon DEF TypeOK, device
  <2>7. Rings'
    BY <2>3, RingsSame, Zenon DEF device
  <2>8. Owners'
    <3>1. \A q \in Procs : q # p => /\ pc'[q] \in Waiting <=> pc[q] \in Waiting
                                    /\ pc'[q] = "asleep" => pc[q] = "asleep"
      BY <2>3, Zenon DEF wakeFree, Waiting, TypeOK
    <3>2. pc'[p] = "idle" /\ bdisk'[p] = 0
      BY <1>2, <2>3, Zenon DEF wakeFree, TypeOK
    <3>3. ASSUME NEW q \in Procs, idx'[q] # None PROVE info'[idx'[q]] = q
      <4>1. q # p /\ idx[q] # None /\ idx'[q] = idx[q]
        BY <2>4, <3>3, Zenon
      <4>2. idx[q] \in Desc /\ idx[q] # d
        BY <2>2, <2>5, <4>1, Zenon
      <4>. QED BY <2>3, <4>1, <4>2, Zenon DEF Owners, TypeOK
    <3>4. bdisk' = bdisk
      BY <2>3, Zenon
    <3>. QED BY <2>4, <3>1, <3>2, <3>3, <3>4 DEF Owners, Waiting
  <2>9. Chains'
    <3>1. ASSUME NEW q \in Procs, idx'[q] # None
          PROVE  /\ q # p /\ idx'[q] = idx[q]
                 /\ Trio(next', idx'[q]) /\ Links(next', idx'[q]) = Links(next, idx[q])
                 /\ Links(next, idx[q]) \cap C = {}
      <4>1. q # p /\ idx'[q] = idx[q] /\ idx[q] # None
        BY <2>4, <3>1, Zenon
      <4>2. Trio(next, idx[q]) /\ Links(next, idx[q]) \cap C = {}
        BY <2>5, <4>1, Zenon DEF Chains
      <4>3. \A e \in Desc \ C : next'[e] = next[e]
        BY <2>3, Zenon
      <4>. QED BY <4>1, <4>2, <4>3, Zenon DEF Trio, Links
    <3>2. free' = free \cup C
      BY <2>3, Zenon
    <3>3. ASSUME NEW q \in Procs, idx'[q] # None
          PROVE  Links(next', idx'[q]) \cap free' = {}
      BY <3>1, <3>2, <3>3, Zenon DEF Chains
    <3>4. ASSUME NEW q \in Procs, NEW r \in Procs, idx'[q] # None, idx'[r] # None, q # r
          PROVE  Links(next', idx'[q]) \cap Links(next', idx'[r]) = {}
      BY <3>1, <3>4, Zenon DEF Chains
    <3>5. ASSUME NEW e \in Desc \ free'
          PROVE  \E q \in Procs : idx'[q] # None /\ e \in Links(next', idx'[q])
      <4>1. PICK q \in Procs : idx[q] # None /\ e \in Links(next, idx[q])
        BY <3>2, <3>5, Zenon DEF Chains
      <4>2. q # p
        BY <2>1, <2>2, <3>2, <3>5, <4>1, Zenon
      <4>. QED BY <2>4, <3>1, <4>1, <4>2, Zenon
    <3>. QED BY <3>1, <3>3, <3>4, <3>5, Zenon DEF Chains
  <2>10. Flight'
    <3>1. UNCHANGED <<avail, busy, ring, bdisk>>
      BY <2>3, Zenon DEF device
    <3>2. ASSUME NEW e \in Desc, In(e, avail) \/ e \in busy \/ In(e, ring)
          PROVE  info'[e] \in Procs /\ idx'[info'[e]] = e /\ bdisk[info'[e]] = 1
      <4>1. info[e] \in Procs /\ idx[info[e]] = e /\ bdisk[info[e]] = 1
        BY <3>2, Zenon DEF Flight
      <4>2. e # d /\ info[e] # p
        BY <1>2, <2>1, <4>1, Zenon
      <4>3. info'[e] = info[e]
        BY <2>3, <4>2, Zenon DEF TypeOK
      <4>. QED BY <2>4, <4>1, <4>2, <4>3, Zenon
    <3>. QED BY <3>1, <3>2, Zenon DEF Flight
  <2>11. Performed'
    <3>1. UNCHANGED <<avail, busy, status, bdata, store>>
      BY <2>3, Zenon DEF device
    <3>. QED BY <2>4, <3>1, Zenon DEF Performed
  <2>12. Wakeups'
    <3>1. \A q \in Procs : pc'[q] # "want_desc"
      BY <2>3, Zenon DEF wakeFree, TypeOK
    <3>. QED BY <2>3, <3>1, Zenon DEF Wakeups, device
  <2>. QED BY <2>6, <2>7, <2>8, <2>9, <2>10, <2>11, <2>12, Zenon
<1>. QED BY <1>1, <1>2, Zenon

\* The handler takes an entry from the used ring.
LEMMA EntryInv ==
  ASSUME Inv, intr_entry
  PROVE  Inv'
<1> USE DEF Inv
<1>1. PICK d : d = ring[used_idx % NUM]
  BY Zenon
<1>2. /\ intr /\ used_idx # ring_idx
      /\ bdisk' = [bdisk EXCEPT ![info[d]] = 0]
      /\ pc' = [pc EXCEPT ![info[d]] = IF @ = "asleep" THEN "awake" ELSE @]
      /\ ring' = [ring EXCEPT ![used_idx % NUM] = None]
      /\ used_idx' = (used_idx + 1) % IdxMod
      /\ UNCHANGED <<free, next, ops, info, avail, avail_idx, status, store, seen,
                     busy, irq, ring_idx, bdata, write, idx, intr>>
  BY <1>1, Zenon DEF intr_entry
<1>3. /\ d \in Desc /\ In(d, ring)
      /\ Ring(ring', used_idx', ring_idx)
      /\ \A e \in Desc : In(e, ring') <=> In(e, ring) /\ e # d
  <2>1. /\ used_idx % NUM \in Desc /\ d \in Desc
        /\ Ring(ring', used_idx', ring_idx)
        /\ \A e \in Desc : In(e, ring') <=> In(e, ring) /\ e # d
    BY <1>1, <1>2, RingTake, Zenon DEF Rings
  <2>. QED BY <1>1, <2>1, Zenon DEF In
<1>4. PICK p \in Procs : info[d] = p /\ idx[p] = d
  BY <1>3, Zenon DEF Flight
<1>5. \A q \in Procs : /\ bdisk'[q] = IF q = p THEN 0 ELSE bdisk[q]
                       /\ q # p => pc'[q] = pc[q]
                       /\ pc'[q] \in Waiting <=> pc[q] \in Waiting
  BY <1>2, <1>4 DEF TypeOK, Waiting
<1>6. pc'[p] = "awake"
  BY <1>2, <1>3, <1>4, Sizes DEF TypeOK, Owners, Waiting
<1>7. TypeOK'
  <2>1. pc' \in [Procs -> {"idle", "want_desc", "retry", "asleep", "awake"}]
    BY <1>2, <1>4, Zenon DEF TypeOK
  <2>2. ring' \in [Desc -> Desc \cup {None}] /\ used_idx' \in Idx
    BY <1>3, Zenon DEF Ring
  <2>3. bdisk' \in [Procs -> {0, 1}]
    BY <1>2, <1>4, Zenon DEF TypeOK
  <2>. QED BY <1>2, <2>1, <2>2, <2>3, Zenon DEF TypeOK
<1>8. Rings'
  BY <1>2, <1>3, Zenon DEF Rings
<1>9. Owners'
  <2>1. UNCHANGED <<idx, info>>
    BY <1>2, Zenon
  <2>. QED BY <1>5, <1>6, <2>1, Zenon DEF Owners
<1>10. Chains'
  BY <1>2, ChainsSame, Zenon
<1>11. Flight'
  <2>1. UNCHANGED <<avail, busy, info, idx>>
    BY <1>2, Zenon
  <2>2. ASSUME NEW e \in Desc, In(e, avail) \/ e \in busy \/ In(e, ring')
        PROVE  info[e] \in Procs /\ idx[info[e]] = e /\ bdisk'[info[e]] = 1
    <3>1. e # d /\ (In(e, avail) \/ e \in busy \/ In(e, ring))
      BY <1>3, <2>2, Zenon DEF Flight
    <3>2. info[e] \in Procs /\ idx[info[e]] = e /\ bdisk[info[e]] = 1
      BY <3>1, Zenon DEF Flight
    <3>. QED BY <1>4, <1>5, <3>1, <3>2, Zenon
  <2>3. \A e \in Desc : In(e, ring') => In(e, ring)
    BY <1>3, Zenon
  <2>. QED BY <2>1, <2>2, <2>3, Zenon DEF Flight, TypeOK
<1>12. Performed'
  BY <1>2, PerformedSame, Zenon
<1>13. Wakeups'
  <2>1. \A q \in Procs : pc'[q] = "want_desc" => pc[q] = "want_desc"
    BY <1>5, <1>6, Zenon
  <2>. QED BY <1>2, <2>1, Zenon DEF Wakeups
<1>. QED BY <1>7, <1>8, <1>9, <1>10, <1>11, <1>12, <1>13, Zenon

\* The device accepts a command.
LEMMA AcceptInv ==
  ASSUME Inv, dev_accept
  PROVE  Inv'
<1> USE DEF Inv
<1>1. PICK d : d = avail[seen % NUM]
  BY Zenon
<1>2. /\ seen # avail_idx
      /\ busy' = busy \cup {d}
      /\ avail' = [avail EXCEPT ![seen % NUM] = None]
      /\ seen' = (seen + 1) % IdxMod
      /\ UNCHANGED <<free, next, ops, info, avail_idx, used_idx, status, store, irq,
                     ring, ring_idx, bdisk, bdata, pc, write, idx, intr>>
  BY <1>1, Zenon DEF dev_accept
<1>3. /\ d \in Desc /\ In(d, avail)
      /\ Ring(avail', seen', avail_idx)
      /\ \A e \in Desc : In(e, avail') <=> In(e, avail) /\ e # d
  <2>1. /\ seen % NUM \in Desc /\ d \in Desc
        /\ Ring(avail', seen', avail_idx)
        /\ \A e \in Desc : In(e, avail') <=> In(e, avail) /\ e # d
    BY <1>1, <1>2, RingTake, Zenon DEF Rings
  <2>. QED BY <1>1, <2>1, Zenon DEF In
<1>4. TypeOK'
  <2>1. avail' \in [Desc -> Desc \cup {None}] /\ seen' \in Idx
    BY <1>3, Zenon DEF Ring
  <2>2. busy' \subseteq Desc
    BY <1>2, <1>3 DEF TypeOK
  <2>. QED BY <1>2, <2>1, <2>2, Zenon DEF TypeOK
<1>5. Rings'
  BY <1>2, <1>3, Zenon DEF Rings
<1>6. Owners'
  BY <1>2, OwnersSame, Zenon
<1>7. Chains'
  BY <1>2, ChainsSame, Zenon
<1>8. Flight'
  <2>1. UNCHANGED <<ring, info, idx, bdisk>> /\ busy' = busy \cup {d}
    BY <1>2, Zenon
  <2>2. ASSUME NEW e \in Desc, In(e, avail') \/ e \in busy' \/ In(e, ring)
        PROVE  info[e] \in Procs /\ idx[info[e]] = e /\ bdisk[info[e]] = 1
    BY <1>3, <2>1, <2>2, Zenon DEF Flight
  <2>3. \A e \in busy' : ~In(e, avail') /\ ~In(e, ring)
    BY <1>3, <2>1 DEF Flight, TypeOK
  <2>4. \A e \in Desc : ~(In(e, avail') /\ In(e, ring))
    BY <1>3, Zenon DEF Flight
  <2>. QED BY <2>1, <2>2, <2>3, <2>4, Zenon DEF Flight
<1>9. Performed'
  <2>1. UNCHANGED <<idx, status, bdata, store>> /\ busy' = busy \cup {d}
    BY <1>2, Zenon
  <2>2. \A e \in Desc : In(e, avail') \/ e \in busy' <=> In(e, avail) \/ e \in busy
    BY <1>3, <2>1, Zenon
  <2>. QED BY <2>1, <2>2, Zenon DEF Performed, TypeOK
<1>10. Wakeups'
  BY <1>2, Zenon DEF Wakeups
<1>. QED BY <1>4, <1>5, <1>6, <1>7, <1>8, <1>9, <1>10, Zenon

\* The device performs a command.
LEMMA PerformInv ==
  ASSUME Inv, NEW d \in Desc, dev_perform(d)
  PROVE  Inv'
<1> USE DEF Inv
<1>1. PICK p \in Procs : info[d] = p /\ idx[p] = d /\ bdisk[p] = 1 /\ Trio(next, d)
  BY Heads, Zenon DEF dev_perform
<1>2. /\ status' = [status EXCEPT ![d] = 0]
      /\ busy' = busy \ {d} /\ d \in busy
      /\ ring' = [ring EXCEPT ![ring_idx % NUM] = d]
      /\ ring_idx' = (ring_idx + 1) % IdxMod
      /\ irq' = TRUE
      /\ UNCHANGED <<driver, seen, bdisk, pc, write, idx, intr>>
  BY Zenon DEF dev_perform
<1>3. /\ bdata' \in [Procs -> Data] /\ store' \in [Procs -> Data]
      /\ bdata'[p] = store'[p]
      /\ \A q \in Procs : q # p => bdata'[q] = bdata[q] /\ store'[q] = store[q]
  BY <1>1 DEF dev_perform, TypeOK
<1>4. ~In(d, ring) /\ ~In(d, avail)
  BY <1>2, Zenon DEF Flight
<1>5. next[d] \in Desc /\ next[d] # d /\ ~In(next[d], ring)
  <2>1. next[d] \in Desc /\ next[d] # d
    BY <1>1, Zenon DEF Trio
  <2>2. ASSUME In(next[d], ring) PROVE FALSE
    <3>1. PICK q \in Procs : idx[q] = next[d]
      BY <2>1, <2>2, Heads, Zenon
    <3>2. Links(next, idx[p]) \cap Links(next, idx[q]) = {}
      BY <1>1, <2>1, <3>1, Sizes, Zenon DEF Chains
    <3>3. next[d] \in Links(next, idx[p]) /\ next[d] \in Links(next, idx[q])
      BY <1>1, <3>1, Zenon DEF Links
    <3>. QED BY <3>2, <3>3, Zenon
  <2>. QED BY <2>1, <2>2, Zenon
<1>6. /\ Ring(ring', used_idx, ring_idx')
      /\ \A e \in Desc : In(e, ring') <=> In(e, ring) \/ e = d
  <2>1. Held(used_idx, ring_idx) < NUM - 1
    BY <1>4, <1>5, Room, Zenon DEF Rings
  <2>. QED BY <1>2, <1>4, <2>1, RingPut, Zenon DEF Rings
<1>7. TypeOK'
  <2>1. ring' \in [Desc -> Desc \cup {None}] /\ ring_idx' \in Idx
    BY <1>6, Zenon DEF Ring
  <2>2. status' \in [Desc -> {0, 255}] /\ busy' \subseteq Desc /\ irq' \in BOOLEAN
    BY <1>2, Zenon DEF TypeOK
  <2>. QED BY <1>2, <1>3, <2>1, <2>2, Zenon DEF TypeOK, driver
<1>8. Rings'
  BY <1>2, <1>6, Zenon DEF Rings, driver
<1>9. Owners'
  BY <1>2, OwnersSame, Zenon DEF driver
<1>10. Chains'
  BY <1>2, ChainsSame, Zenon DEF driver
<1>11. Flight'
  <2>1. UNCHANGED <<avail, info, idx, bdisk>> /\ busy' = busy \ {d}
    BY <1>2, Zenon DEF driver
  <2>2. ASSUME NEW e \in Desc, In(e, avail) \/ e \in busy' \/ In(e, ring')
        PROVE  info[e] \in Procs /\ idx[info[e]] = e /\ bdisk[info[e]] = 1
    BY <1>1, <1>6, <2>1, <2>2, Zenon DEF Flight
  <2>3. \A e \in busy' : ~In(e, avail) /\ ~In(e, ring')
    BY <1>6, <2>1, Zenon DEF Flight, TypeOK
  <2>4. \A e \in Desc : ~(In(e, avail) /\ In(e, ring'))
    BY <1>4, <1>6, Zenon DEF Flight
  <2>. QED BY <2>1, <2>2, <2>3, <2>4, Zenon DEF Flight
<1>12. Performed'
  <2>1. UNCHANGED <<avail, idx>> /\ busy' = busy \ {d} /\ status'[d] = 0
    BY <1>2, Zenon DEF driver, TypeOK
  <2>2. ASSUME NEW q \in Procs, idx[q] # None, ~In(idx[q], avail), idx[q] \notin busy'
        PROVE  status'[idx[q]] = 0 /\ bdata'[q] = store'[q]
    <3>1. CASE q = p
      BY <1>1, <1>3, <2>1, <3>1, Zenon
    <3>2. CASE q # p
      <4>1. idx[q] \in Desc /\ idx[q] # d
        BY <1>1, <2>2, <3>2 DEF Owners, TypeOK
      <4>2. status[idx[q]] = 0 /\ bdata[q] = store[q]
        BY <2>1, <2>2, <4>1, Zenon DEF Performed
      <4>. QED BY <1>2, <1>3, <3>2, <4>1, <4>2, Zenon DEF TypeOK
    <3>. QED BY <3>1, <3>2, Zenon
  <2>. QED BY <2>1, <2>2, Zenon DEF Performed
<1>13. Wakeups'
  BY <1>2, Zenon DEF Wakeups, driver
<1>. QED BY <1>7, <1>8, <1>9, <1>10, <1>11, <1>12, <1>13, Zenon

\* Every step keeps it.
LEMMA NextInv == Inv /\ [Next]_vars => Inv'
<1> SUFFICES ASSUME Inv, [Next]_vars PROVE Inv'
  BY Zenon
<1>1. ASSUME NEW p \in Procs, NEW w \in {0, 1}, virtio_disk_rw(p, w)
      PROVE  Inv'
  <2>1. write' \in [Procs -> {0, 1}] /\ pc[p] \in {"idle", "retry"}
    BY <1>1, Zenon DEF virtio_disk_rw, Inv, TypeOK
  <2>. QED BY <1>1, <2>1, NodescInv, SubmitInv, Zenon DEF virtio_disk_rw
<1>2. ASSUME NEW p \in Procs, rw_retry(p)
      PROVE  Inv'
  <2>1. write' \in [Procs -> {0, 1}] /\ pc[p] \in {"idle", "retry"}
    BY <1>2, Zenon DEF rw_retry, Inv, TypeOK
  <2>. QED BY <1>2, <2>1, NodescInv, SubmitInv, Zenon DEF rw_retry
<1>3. CASE UNCHANGED vars
  <2>1. UNCHANGED <<driver, status, device, bdisk, bdata, pc, write, idx, intr>>
    BY <1>3, Zenon DEF vars
  <2>2. Rings' /\ Owners' /\ Chains' /\ Flight' /\ Performed'
    BY <2>1, RingsSame, OwnersSame, ChainsSame, FlightSame, PerformedSame, Zenon
       DEF Inv, driver, device
  <2>3. TypeOK'
    BY <2>1, Zenon DEF Inv, TypeOK, driver, device
  <2>4. Wakeups'
    BY <2>1, Zenon DEF Inv, Wakeups, driver, device
  <2>. QED BY <2>2, <2>3, <2>4, Zenon DEF Inv
<1>. QED BY <1>1, <1>2, <1>3, WokenInv, ModifyInv, HandlerInv, EntryInv, AcceptInv,
            PerformInv, Zenon
         DEF Next, Handler, Device

\* Inv is an invariant of Virtio: it is the induction behind the theorems below.
THEOREM Invariance == Spec => []Inv
BY InitInv, NextInv, PTL DEF Spec
------------------------------------------------------------------------------
(* The theorems. *)

\* What the handler has not looked at is on the used ring.
LEMMA CompletedIs ==
  ASSUME Inv
  PROVE  /\ \A id \in Completed : id \in Desc /\ In(id, ring)
         /\ Completed # {} => used_idx # ring_idx
<1>1. /\ Ring(ring, used_idx, ring_idx)
      /\ used_idx \in Idx /\ ring_idx \in Idx /\ ring \in [Desc -> Desc \cup {None}]
  BY Zenon DEF Inv, Rings, Ring
<1>2. PICK h \in Nat : /\ h = Held(used_idx, ring_idx) /\ h < NUM
                       /\ used_idx = ring_idx => h = 0
  BY <1>1, HeldEnd, HeldIs DEF Ring, Idx
<1>3. Completed = {ring[(used_idx + k) % NUM] : k \in 0..h - 1}
  BY <1>2, Zenon DEF Completed, Held
<1>4. ASSUME NEW k \in 0..h - 1
      PROVE  LET id == ring[(used_idx + k) % NUM] IN id \in Desc /\ In(id, ring)
  <2>1. k \in Desc /\ k < h
    BY <1>2, Sizes DEF Desc
  <2>2. (used_idx + k) % NUM \in Desc
    BY <1>1, <2>1, Places, Zenon
  <2>3. ring[(used_idx + k) % NUM] # None
    BY <1>1, <1>2, <2>1, Zenon DEF Ring
  <2>. QED BY <1>1, <2>2, <2>3, Zenon DEF In
<1>5. used_idx = ring_idx => 0..h - 1 = {}
  BY <1>2
<1>. QED BY <1>3, <1>4, <1>5, Zenon

\* Three different things are three.
LEMMA ThreeOf ==
  ASSUME NEW x, NEW y, NEW z, x # y, x # z, y # z
  PROVE  Cardinality({x, y, z}) = 3
<1>1. PICK S : S = {x} /\ IsFiniteSet(S) /\ Cardinality(S) = 1
  BY FS_Singleton, Zenon
<1>2. IsFiniteSet(S \cup {y}) /\ Cardinality(S \cup {y}) = 2
  BY <1>1, FS_AddElement
<1>3. PICK T : T = S \cup {y}
  BY Zenon
<1>4. Cardinality(T \cup {z}) = 3
  BY <1>1, <1>2, <1>3, FS_AddElement
<1>5. T \cup {z} = {x, y, z}
  BY <1>1, <1>3, Zenon
<1>. QED BY <1>4, <1>5, Zenon

\* Every descriptor is free or in the chain of one transfer, and the handler only
\* meets completions of transfers that are waited for: DescOwned of Virtio.
THEOREM DescriptorsOwned == Spec => []DescOwned
<1>1. Inv => DescOwned
  <2> SUFFICES ASSUME Inv PROVE DescOwned
    BY Zenon
  <2> DEFINE heads == {idx[p] : p \in {q \in Procs : idx[q] # None}}
  <2>1. \A p, q \in Procs : idx[p] = idx[q] /\ idx[p] # None => p = q
    BY Zenon DEF Inv, Owners
  <2>2. ASSUME NEW p \in Procs, idx[p] # None
        PROVE  Trio(next, idx[p]) /\ Chain(idx[p]) = Links(next, idx[p])
    BY <2>2, ChainIs, Zenon DEF Inv, Chains
  <2>3. ASSUME NEW d \in heads PROVE Cardinality(Chain(d)) = 3
    <3>1. Trio(next, d) /\ Chain(d) = {d, next[d], next[next[d]]}
      BY <2>2, <2>3, Zenon DEF Links
    <3>2. d # next[d] /\ d # next[next[d]] /\ next[d] # next[next[d]]
      BY <3>1, Zenon DEF Trio
    <3>3. Cardinality({d, next[d], next[next[d]]}) = 3
      BY <3>2, ThreeOf, Zenon
    <3>. QED BY <3>1, <3>3, Zenon
  <2>4. \A d, e \in heads : d # e => Chain(d) \cap Chain(e) = {}
    BY <2>2 DEF Inv, Chains
  <2>5. free = Desc \ UNION {Chain(d) : d \in heads}
    <3>1. ASSUME NEW d \in Desc \ free PROVE d \in UNION {Chain(e) : e \in heads}
      <4>1. PICK p \in Procs : idx[p] # None /\ d \in Links(next, idx[p])
        BY Zenon DEF Inv, Chains
      <4>. QED BY <2>2, <4>1, Zenon
    <3>2. ASSUME NEW d \in free PROVE d \in Desc /\ d \notin UNION {Chain(e) : e \in heads}
      BY <2>2 DEF Inv, Chains, TypeOK
    <3>. QED BY <3>1, <3>2, Zenon
  <2>6. ASSUME NEW id \in Completed
        PROVE  /\ status[id] = 0 /\ info[id] # None
               /\ idx[info[id]] = id /\ bdisk[info[id]] = 1
    <3>1. id \in Desc /\ In(id, ring)
      BY CompletedIs, Zenon
    <3>2. info[id] \in Procs /\ idx[info[id]] = id /\ bdisk[info[id]] = 1
      BY <3>1, Zenon DEF Inv, Flight
    <3>3. ~In(id, avail) /\ id \notin busy
      BY <3>1, Zenon DEF Inv, Flight
    <3>. QED BY <3>1, <3>2, <3>3, Sizes, ConstantsAssumption, Zenon DEF Inv, Performed
  <2>7. TypeOK
    BY Zenon DEF Inv
  <2>. QED BY <2>1, <2>3, <2>4, <2>5, <2>6, <2>7, Zenon DEF DescOwned
<1>. QED BY Invariance, <1>1, PTL

\* No process sleeps without reason, and no completion without an interrupt:
\* NoLostWakeup of Virtio.
THEOREM NoWakeupLost == Spec => []NoLostWakeup
<1>1. Inv => NoLostWakeup
  BY CompletedIs, Zenon DEF Inv, Owners, Wakeups, NoLostWakeup
<1>. QED BY Invariance, <1>1, PTL

\* virtio_disk_rw() returns when the buffer and the block agree: ReturnsTransferred of
\* Virtio.
THEOREM Transferred == Spec => ReturnsTransferred
<1> DEFINE A == \A p \in Procs : pc[p] = "awake" /\ pc'[p] = "idle" => bdata[p] = store[p]
<1>1. ASSUME Inv, [Next]_vars PROVE [A]_vars
  <2> SUFFICES ASSUME Next, NEW p \in Procs, pc[p] = "awake", pc'[p] = "idle"
               PROVE  bdata[p] = store[p]
    BY <1>1, Zenon
  <2>1. pc \in [Procs -> {"idle", "want_desc", "retry", "asleep", "awake"}]
    BY <1>1, Zenon DEF Inv, TypeOK
  <2>2. ASSUME NEW q \in Procs, rw_nodesc(q) PROVE pc'[p] # "idle"
    BY <2>1, <2>2, Zenon DEF rw_nodesc, wakeFree
  <2>3. ASSUME NEW q \in Procs, rw_submit(q) PROVE pc'[p] # "idle"
    BY <2>1, <2>3, Zenon DEF rw_submit
  <2>4. CASE intr_entry
    <3>1. \E b : pc' = [pc EXCEPT ![b] = IF @ = "asleep" THEN "awake" ELSE @]
      BY <2>4, Zenon DEF intr_entry
    <3>. QED BY <2>1, <3>1, Zenon
  <2>5. ASSUME UNCHANGED pc PROVE FALSE
    BY <2>5, Zenon
  <2>6. ASSUME NEW q \in Procs, rw_woken(q) PROVE bdata[p] = store[p]
    <3>1. q = p /\ bdisk[p] # 1
      <4>1. CASE bdisk[q] = 1
        BY <2>1, <2>6, <4>1, Zenon DEF rw_woken
      <4>2. CASE bdisk[q] # 1
        <5>1. pc' = [wakeFree(pc) EXCEPT ![q] = "idle"]
          BY <2>6, <4>2, Zenon DEF rw_woken
        <5>. QED BY <2>1, <4>2, <5>1, Zenon DEF wakeFree
      <4>. QED BY <4>1, <4>2, Zenon
    <3>2. idx[p] # None /\ idx[p] \in Desc /\ info[idx[p]] = p
      BY <1>1, Zenon DEF Inv, Owners, Waiting, TypeOK
    <3>3. ~In(idx[p], avail) /\ idx[p] \notin busy
      BY <1>1, <3>1, <3>2, Zenon DEF Inv, Flight
    <3>. QED BY <1>1, <3>2, <3>3, Zenon DEF Inv, Performed
  <2>. QED BY <2>2, <2>3, <2>4, <2>5, <2>6, Zenon
           DEF Next, Handler, Device, virtio_disk_rw, rw_retry,
              modify, intr_ack, intr_done, dev_accept, dev_perform
<1>. QED BY Invariance, <1>1, PTL DEF Spec, ReturnsTransferred
==============================================================================
