------------------------------- MODULE Umalloc -------------------------------
(* malloc and free of user/umalloc.c, in one process.  Addresses count units *)
(* of a Header; base is at 0 and the heap begins at 1.  sbrk is Vm's; here   *)
(* it gives the units or fails, and the program may call it by itself.       *)
EXTENDS Integers, FiniteSets

CONSTANTS
  HeapEnd,            \* the heap never ends above
  MinCore,            \* units morecore asks for at least, 4096 in the code
  MaxUnits,           \* units of a block malloc is asked for, its header included
  SbrkUnits           \* units the program takes from sbrk itself

VARIABLES
  ptr, size,          \* s.ptr and s.size of the header at each address
  freep,              \* -1 for a null pointer
  brk,                \* the first address above the heap
  used,               \* headers of the blocks the program holds
  own                 \* addresses the program got from sbrk itself

base == 0
Addresses == base..HeapEnd
Null == -1

Init ==
  /\ ptr = [a \in Addresses |-> Null]
  /\ size = [a \in Addresses |-> 0]
  /\ freep = Null
  /\ brk = 1
  /\ used = {}
  /\ own = {}

\* The free list that malloc and free work on.
List == [ptr |-> ptr, size |-> size, freep |-> freep, brk |-> brk]

\* Where in the list the block at bp goes: after p.
RECURSIVE Place(_, _, _)
Place(m, bp, p) ==
  LET next == m.ptr[p]
  IN  IF (bp > p /\ bp < next) \/ (p >= next /\ (bp > p \/ bp < next)) THEN p
      ELSE Place(m, bp, next)

\* Mutant: not joined with the block below.
release_NoLower(m, bp) ==
  LET p == Place(m, bp, m.freep)
      next == m.ptr[p]
      up == bp + m.size[bp] = next
  IN  [m EXCEPT !.size[bp] = IF up THEN @ + m.size[next] ELSE @,
                !.ptr = [@ EXCEPT ![bp] = IF up THEN m.ptr[next] ELSE next, ![p] = bp],
                !.freep = p]

\* free: into the list, joined with the block above and with the one below.
release(m, bp) ==
  LET p == Place(m, bp, m.freep)
      next == m.ptr[p]
      up == bp + m.size[bp] = next
      n == IF up THEN m.size[bp] + m.size[next] ELSE m.size[bp]
      after == IF up THEN m.ptr[next] ELSE next
      down == p + m.size[p] = bp
  IN  [m EXCEPT
        !.size = IF down THEN [@ EXCEPT ![bp] = n, ![p] = @ + n] ELSE [@ EXCEPT ![bp] = n],
        !.ptr = [@ EXCEPT ![bp] = after, ![p] = IF down THEN after ELSE bp],
        !.freep = p]

Core(nu) == IF nu < MinCore THEN MinCore ELSE nu

\* The block sbrk gave, in the list.
morecore(m, nu) ==
  release([m EXCEPT !.size[m.brk] = Core(nu), !.brk = @ + Core(nu)], m.brk)

Room(m, nu) == m.brk + Core(nu) - 1 <= HeapEnd

\* The block at p for the caller, all of it or its upper end.
Take(m, prevp, p, nunits) ==
  IF m.size[p] = nunits
  THEN [list |-> [m EXCEPT !.ptr[prevp] = m.ptr[p], !.freep = prevp], block |-> p]
  ELSE LET b == p + m.size[p] - nunits
       IN  [list |-> [m EXCEPT !.size = [@ EXCEPT ![p] = @ - nunits, ![b] = nunits], !.freep = prevp], block |-> b]

\* The loop of malloc; sbrks tells whether sbrk can give more.
RECURSIVE Search(_, _, _, _, _)
Search(m, prevp, p, nunits, sbrks) ==
  IF m.size[p] >= nunits THEN Take(m, prevp, p, nunits)
  ELSE IF p # m.freep THEN Search(m, p, m.ptr[p], nunits, sbrks)
  ELSE IF ~sbrks THEN [list |-> m, block |-> Null]
  ELSE LET more == morecore(m, nunits) IN Search(more, more.freep, more.ptr[more.freep], nunits, sbrks)

Begun == IF freep = Null THEN [List EXCEPT !.ptr[base] = base, !.size[base] = 0, !.freep = base] ELSE List

RECURSIVE Links(_, _)
Links(m, a) == {a} \cup IF m.ptr[a] = base THEN {} ELSE Links(m, m.ptr[a])

\* The program may write over what is not a header any more, and over s.ptr of
\* a block it holds: these values are forgotten, and nothing may depend on them.
Becomes(m, blocks) ==
  /\ ptr' = [a \in Addresses |-> IF a \in Links(m, base) THEN m.ptr[a] ELSE Null]
  /\ size' = [a \in Addresses |-> IF a \in Links(m, base) \cup blocks THEN m.size[a] ELSE 0]
  /\ freep' = m.freep
  /\ brk' = m.brk
  /\ used' = blocks

malloc ==
  \E nunits \in 2..MaxUnits, sbrks \in BOOLEAN :
    /\ sbrks => Room(Begun, nunits)
    /\ LET r == Search(Begun, Begun.freep, Begun.ptr[Begun.freep], nunits, sbrks)
       IN  Becomes(r.list, IF r.block = Null THEN used ELSE used \cup {r.block})
    /\ UNCHANGED own

free ==
  \E bp \in used :
    /\ Becomes(release(List, bp), used \ {bp})
    /\ UNCHANGED own

sbrk ==
  \E n \in SbrkUnits :
    /\ brk + n - 1 <= HeapEnd
    /\ brk' = brk + n
    /\ own' = own \cup brk..brk + n - 1
    /\ UNCHANGED <<ptr, size, freep, used>>

Next == malloc \/ free \/ sbrk
------------------------------------------------------------------------------
FreeBlocks == IF freep = Null THEN {} ELSE Links(List, base) \ {base}
Block(b) == b..b + size[b] - 1

\* Blocks in the free list and blocks the program holds share no unit, with
\* each other or with what the program took from sbrk, and no unit of the heap
\* is lost; the list goes round by rising address through base, freep is in
\* it, and two free blocks that touch have become one.
HeapSound ==
  /\ FreeBlocks \cap used = {}
  /\ \A a, b \in FreeBlocks \cup used : a # b => Block(a) \cap Block(b) = {}
  /\ UNION {Block(b) : b \in FreeBlocks \cup used} = (1..brk - 1) \ own
  /\ \A b \in FreeBlocks : ptr[b] > b + size[b] \/ ptr[b] = base
  /\ freep \in FreeBlocks \cup {base, Null}
==============================================================================
