----------------------------- MODULE AddressSpace ----------------------------
(***************************************************************************)
(* The memory of processes as programs know it: a size and a row of pages, *)
(* each with contents and permissions.  A call changes it in one step or   *)
(* not at all.                                                             *)
(***************************************************************************)
EXTENDS Integers, Sequences

CONSTANTS
  Procs, initproc, PGSIZE, USERSTACK, Programs, Values, Zero,
  MaxSize,   \* no image grows beyond it
  NoImage    \* of no process

VARIABLE image

Page(v, perm) == [val |-> v, perm |-> perm]
Count(size) == (size + PGSIZE - 1) \div PGSIZE
Fresh == Page(Zero, {"R", "W", "U"})

\* What a file becomes: page k belongs to the first segment that reaches it,
\* and holds the file if some segment's data does; then come the guard page
\* and the stack, with the argument v in its n last pages.
Loaded(g, v, n) ==
  LET End(s) == s.vaddr + s.memsz
      segs == g.segs
      text == CHOOSE m \in {Count(End(segs[i])) : i \in DOMAIN segs} \cup {0} :
                \A i \in DOMAIN segs : Count(End(segs[i])) <= m
      Of(k) == CHOOSE i \in DOMAIN segs :
                 /\ k < Count(End(segs[i]))
                 /\ \A j \in 1..(i - 1) : k >= Count(End(segs[j]))
      InFile(k) == \E i \in DOMAIN segs :
                     LET first == segs[i].vaddr \div PGSIZE
                     IN k \in first..(first + Count(segs[i].filesz) - 1)
      all == text + 1 + USERSTACK
  IN [size |-> all * PGSIZE,
      pages |-> [k1 \in 1..all |->
        LET k == k1 - 1
        IN CASE k < text -> Page(IF InFile(k) THEN g.val ELSE Zero,
                                 {"R", "U"} \cup segs[Of(k)].perm)
             [] k = text -> Page(Zero, {"R", "W"})
             [] k > text -> Page(IF k >= all - n THEN v ELSE Zero, {"R", "W", "U"})]]

Init ==
  image = [p \in Procs |->
    IF p = initproc
      THEN [size |-> PGSIZE, pages |-> <<Page(Zero, {"R", "W", "X", "U"})>>]
      ELSE NoImage]

Live(p) == image[p] # NoImage

Grow(p, size) ==
  /\ Live(p) /\ size > image[p].size
  /\ image' = [image EXCEPT ![p] =
       [size |-> size,
        pages |-> [k \in 1..Count(size) |->
          IF k \in DOMAIN image[p].pages THEN image[p].pages[k] ELSE Fresh]]]

Shrink(p, size) ==
  /\ Live(p) /\ size < image[p].size
  /\ image' = [image EXCEPT ![p] =
       [size |-> size, pages |-> SubSeq(image[p].pages, 1, Count(size))]]

Fork(p, c) == Live(p) /\ ~Live(c) /\ image' = [image EXCEPT ![c] = image[p]]

\* The argument is a value the caller could read.
Exec(p, g, n) ==
  /\ Live(p)
  /\ \E v \in Values :
       /\ \E k \in DOMAIN image[p].pages :
            "U" \in image[p].pages[k].perm /\ image[p].pages[k].val = v
       /\ image' = [image EXCEPT ![p] = Loaded(g, v, n)]

Exit(p) == Live(p) /\ p # initproc /\ image' = [image EXCEPT ![p] = NoImage]

\* Writable pages from a on, without a gap, get the value v.
Write(p, a, n, v) ==
  LET Open(k) == {"U", "W"} \subseteq image[p].pages[k].perm
  IN /\ Live(p)
     /\ image' = [image EXCEPT ![p].pages =
          [k \in DOMAIN @ |->
             IF k \in a..(a + n - 1) /\ \A j \in a..k : Open(j)
               THEN [@[k] EXCEPT !.val = v] ELSE @[k]]]

\* p is the process whose memory changes.
Next == \E p \in Procs :
  /\ image'[p] # image[p]
  /\ \/ Exit(p)
     \/ \E q \in Procs : Fork(q, p)
     \/ \E size \in 0..MaxSize : Grow(p, size) \/ Shrink(p, size)
     \/ \E a, n \in 1..Count(MaxSize), v \in Values : Write(p, a, n, v)
     \/ \E g \in Programs, n \in 1..USERSTACK : Exec(p, g, n)

Spec == Init /\ [][Next]_image
==============================================================================
