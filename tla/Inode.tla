-------------------------------- MODULE Inode --------------------------------
(***************************************************************************)
(* The inode table of kernel/fs.c under the system calls of sysfile.c that *)
(* name files: open, create, link, unlink and close, on files of one       *)
(* directory.                                                              *)
(*                                                                         *)
(* A critical section of itable.lock is one step, and so is a stretch of   *)
(* code under the lock of an inode that nobody can observe without it.     *)
(* iput() looks at ip->valid and ip->nlink without that lock.  A process   *)
(* that waits for a sleep lock is one whose next step is disabled (module  *)
(* Bio has sleep locks in full).  A file's contents are left out: itrunc() *)
(* is part of freeing the inode.                                           *)
(***************************************************************************)
EXTENDS Integers, FiniteSets

CONSTANTS
  Procs,
  Names,     \* names in the directory
  NINODES,   \* inodes on the disk, without the directory's
  NINODE,    \* entries of the inode table, without the directory's
  None

Inums == 1..NINODES
Entries == 1..NINODE

VARIABLES
  dir,              \* the directory: an inum, or 0, for each name
  dlock,            \* the process that holds the directory's lock
  dtype, dnlink,    \* disk inodes
  inum, ref, valid, nlink,   \* inode table
  lock,             \* the process that holds ip->lock
  pc, op,           \* each process: where it is, its system call,
  name, new,        \* its arguments,
  ip, dup,          \* its pointers into the table
  file              \* and the inode of its open file

disk == <<dir, dtype, dnlink>>
table == <<inum, ref, valid, nlink>>
args == <<op, name, new>>
vars == <<disk, dlock, table, lock, pc, args, ip, dup, file>>

Init ==
  /\ dir = [n \in Names |-> 0]
  /\ dlock = None
  /\ dtype = [i \in Inums |-> 0] /\ dnlink = [i \in Inums |-> 0]
  /\ inum = [e \in Entries |-> 0] /\ ref = [e \in Entries |-> 0]
  /\ valid = [e \in Entries |-> 0] /\ nlink = [e \in Entries |-> 0]
  /\ lock = [e \in Entries |-> None]
  /\ pc = [p \in Procs |-> "idle"]
  /\ op = [p \in Procs |-> "none"]
  /\ name = [p \in Procs |-> None] /\ new = [p \in Procs |-> None]
  /\ ip = [p \in Procs |-> None] /\ dup = [p \in Procs |-> None]
  /\ file = [p \in Procs |-> None]

goto(p, l) == pc' = [pc EXCEPT ![p] = l]
------------------------------------------------------------------------------
(* The inode table *)

Lowest(S) == CHOOSE x \in S : \A y \in S : x <= y
Present(i) == {e \in Entries : ref[e] > 0 /\ inum[e] = i}
Empty == {e \in Entries : ref[e] = 0}

\* iget(): the entry of inode i goes to ptr[p], and p goes to l.
iget(p, ptr, i, l) ==
  IF Present(i) # {} THEN
    /\ ptr' = [ptr EXCEPT ![p] = Lowest(Present(i))]
    /\ ref' = [ref EXCEPT ![Lowest(Present(i))] = @ + 1]
    /\ goto(p, l)
    /\ UNCHANGED <<inum, valid>>
  ELSE IF Empty # {} THEN
    /\ ptr' = [ptr EXCEPT ![p] = Lowest(Empty)]
    /\ inum' = [inum EXCEPT ![Lowest(Empty)] = i]
    /\ ref' = [ref EXCEPT ![Lowest(Empty)] = 1]
    /\ valid' = [valid EXCEPT ![Lowest(Empty)] = 0]
    /\ goto(p, l)
  ELSE goto(p, "panic") /\ UNCHANGED <<ptr, inum, ref, valid>>

\* ip->nlink as ilock() leaves it.
Links(e) == IF valid[e] = 1 THEN nlink[e] ELSE dnlink[inum[e]]

\* ilock() panics.
NoType(e) == valid[e] = 0 /\ dtype[inum[e]] = 0

\* ilock(ip) on a free lock, then ip->nlink = n and iupdate(ip); p goes to l.
ilock(p, n, l) ==
  LET e == ip[p]
  IN  /\ lock[e] = None
      /\ IF NoType(e)
           THEN goto(p, "panic") /\ UNCHANGED <<valid, nlink, dnlink>>
           ELSE /\ valid' = [valid EXCEPT ![e] = 1]
                /\ nlink' = [nlink EXCEPT ![e] = n]
                /\ dnlink' = [dnlink EXCEPT ![inum[e]] = n]
                /\ goto(p, l)

\* Mutant: iput() does not ask whether the inode still has links.
LastUse_IgnoresLinks(e) == ref[e] = 1 /\ valid[e] = 1

\* Mutant: iput() does not ask whether there are other references.
LastUse_IgnoresRefs(e) == valid[e] = 1 /\ nlink[e] = 0

\* The test of iput().
LastUse(e) == ref[e] = 1 /\ valid[e] = 1 /\ nlink[e] = 0

\* The inode that iput() is called with.
Target(p) == IF dup[p] # None THEN dup[p] ELSE ip[p]

\* What follows iput(): the end of the system call, or, in a link() that found
\* the new name taken, its bad path.  A directory lock still held is released.
after_iput(p) ==
  /\ dlock' = IF dlock = p THEN None ELSE dlock
  /\ IF dup[p] # None
       THEN /\ dup' = [dup EXCEPT ![p] = None]
            /\ goto(p, "link_bad")
            /\ UNCHANGED <<ip, args>>
       ELSE /\ ip' = [ip EXCEPT ![p] = None]
            /\ op' = [op EXCEPT ![p] = "none"]
            /\ name' = [name EXCEPT ![p] = None]
            /\ new' = [new EXCEPT ![p] = None]
            /\ goto(p, "idle")
            /\ UNCHANGED dup

iput(p) ==
  LET e == Target(p)
  IN  /\ pc[p] = "iput"
      /\ IF LastUse(e)
           THEN /\ lock[e] = None
                /\ lock' = [lock EXCEPT ![e] = p]
                /\ goto(p, "itrunc")
                /\ UNCHANGED <<table, dlock, args, ip, dup>>
           ELSE /\ ref' = [ref EXCEPT ![e] = @ - 1]
                /\ after_iput(p)
                /\ UNCHANGED <<inum, valid, nlink, lock>>
      /\ UNCHANGED <<disk, file>>

\* itrunc(ip), ip->type = 0, iupdate(ip).
iput_free(p) ==
  /\ pc[p] = "itrunc"
  /\ dtype' = [dtype EXCEPT ![inum[Target(p)]] = 0]
  /\ goto(p, "invalidate")
  /\ UNCHANGED <<dir, dnlink, dlock, table, lock, args, ip, dup, file>>

\* ip->valid = 0, releasesleep(&ip->lock).
iput_invalidate(p) ==
  /\ pc[p] = "invalidate"
  /\ valid' = [valid EXCEPT ![Target(p)] = 0]
  /\ lock' = [lock EXCEPT ![Target(p)] = None]
  /\ goto(p, "drop")
  /\ UNCHANGED <<disk, dlock, inum, ref, nlink, args, ip, dup, file>>

iput_drop(p) ==
  /\ pc[p] = "drop"
  /\ ref' = [ref EXCEPT ![Target(p)] = @ - 1]
  /\ after_iput(p)
  /\ UNCHANGED <<disk, inum, valid, nlink, lock, file>>
------------------------------------------------------------------------------
(* System calls *)

begin(p, o, n, m) ==
  /\ pc[p] = "idle"
  /\ op' = [op EXCEPT ![p] = o]
  /\ name' = [name EXCEPT ![p] = n]
  /\ new' = [new EXCEPT ![p] = m]
  /\ goto(p, "lookup")
  /\ UNCHANGED <<disk, dlock, table, lock, ip, dup, file>>

\* An early return, which leaves nothing behind.
return(p) ==
  /\ goto(p, "idle")
  /\ op' = [op EXCEPT ![p] = "none"]
  /\ name' = [name EXCEPT ![p] = None]
  /\ new' = [new EXCEPT ![p] = None]

\* namei() of sys_open() and sys_link(), and dirlookup() of create() on a name
\* that exists: under the directory's lock, which is released at the end.
namei(p) ==
  /\ pc[p] = "lookup"
  /\ op[p] \in {"open", "create", "link"}
  /\ dlock = None
  /\ IF dir[name[p]] # 0
       THEN iget(p, ip, dir[name[p]], "ilock") /\ UNCHANGED <<dlock, args>>
     ELSE IF op[p] = "create"
       THEN dlock' = p /\ goto(p, "ialloc") /\ UNCHANGED <<inum, ref, valid, ip, args>>
       ELSE return(p) /\ UNCHANGED <<dlock, inum, ref, valid, ip>>
  /\ UNCHANGED <<disk, nlink, lock, dup, file>>

\* ilock() of the inode found, in sys_open() or in create().
open_ilock(p) ==
  /\ pc[p] = "ilock"
  /\ op[p] \in {"open", "create"}
  /\ ilock(p, Links(ip[p]), "opened")
  /\ lock' = [lock EXCEPT ![ip[p]] = p]
  /\ UNCHANGED <<dir, dtype, dlock, inum, ref, args, ip, dup, file>>

\* The rest of sys_open(), with the inode locked: filealloc() may fail.
sys_open(p) ==
  /\ pc[p] = "opened"
  /\ lock' = [lock EXCEPT ![ip[p]] = None]
  /\ \/ /\ file[p] = None
        /\ file' = [file EXCEPT ![p] = ip[p]]
        /\ ip' = [ip EXCEPT ![p] = None]
        /\ return(p)
     \/ goto(p, "iput") /\ UNCHANGED <<file, ip, args>>
  /\ UNCHANGED <<disk, dlock, table, dup>>

\* create(), of a new file: ialloc() marks a free inode,
ialloc(p) ==
  LET unused == {i \in Inums : dtype[i] = 0}
  IN  /\ pc[p] = "ialloc"
      /\ IF unused = {}
           THEN return(p) /\ dlock' = None /\ UNCHANGED <<dtype, dnlink>>
           ELSE /\ dtype' = [dtype EXCEPT ![Lowest(unused)] = 1]
                /\ dnlink' = [dnlink EXCEPT ![Lowest(unused)] = 0]
                /\ new' = [new EXCEPT ![p] = Lowest(unused)]
                /\ goto(p, "iget")
                /\ UNCHANGED <<dlock, op, name>>
      /\ UNCHANGED <<dir, table, lock, ip, dup, file>>

\* and gets an entry for it.
ialloc_iget(p) ==
  /\ pc[p] = "iget"
  /\ iget(p, ip, new[p], "create")
  /\ UNCHANGED <<disk, dlock, nlink, lock, args, dup, file>>

\* The rest of create(); dirlink() fails when the disk is full.
create(p) ==
  LET e == ip[p]
  IN  /\ pc[p] = "create"
      /\ \/ /\ ilock(p, 1, "opened")
            /\ dir' = IF NoType(e) THEN dir ELSE [dir EXCEPT ![name[p]] = inum[e]]
            /\ dlock' = None
            /\ lock' = [lock EXCEPT ![e] = p]
         \/ /\ ilock(p, 0, "iput")
            /\ UNCHANGED <<dir, dlock, lock>>
      /\ UNCHANGED <<dtype, inum, ref, args, ip, dup, file>>

\* sys_unlink(): the entry is looked up, and its inode locked under the
\* directory's lock; ip stays locked after that one is released.
unlink_lookup(p) ==
  /\ pc[p] = "lookup"
  /\ op[p] = "unlink"
  /\ dlock = None
  /\ IF dir[name[p]] = 0
       THEN return(p) /\ UNCHANGED <<dlock, inum, ref, valid, ip>>
       ELSE iget(p, ip, dir[name[p]], "unlink") /\ dlock' = p /\ UNCHANGED args
  /\ UNCHANGED <<disk, nlink, lock, dup, file>>

unlink_entry(p) ==
  LET e == ip[p]
  IN  /\ pc[p] = "unlink"
      /\ ilock(p, Links(e), IF Links(e) < 1 THEN "panic" ELSE "unlinked")
      /\ lock' = [lock EXCEPT ![e] = p]
      /\ IF NoType(e) \/ Links(e) < 1
           THEN UNCHANGED <<dir, dlock>>
           ELSE dir' = [dir EXCEPT ![name[p]] = 0] /\ dlock' = None
      /\ UNCHANGED <<dtype, inum, ref, args, ip, dup, file>>

\* ip->nlink--, iupdate(ip), iunlock(ip).
unlink_count(p) ==
  LET e == ip[p]
  IN  /\ pc[p] = "unlinked"
      /\ nlink' = [nlink EXCEPT ![e] = @ - 1]
      /\ dnlink' = [dnlink EXCEPT ![inum[e]] = nlink[e] - 1]
      /\ lock' = [lock EXCEPT ![e] = None]
      /\ goto(p, "iput")
      /\ UNCHANGED <<dir, dtype, dlock, inum, ref, valid, args, ip, dup, file>>

\* sys_link(): count the link before it is made.
link_count(p) ==
  /\ pc[p] = "ilock"
  /\ op[p] = "link"
  /\ ilock(p, Links(ip[p]) + 1, "dirlink")
  /\ UNCHANGED <<dir, dtype, dlock, inum, ref, lock, args, ip, dup, file>>

\* dirlink() under the directory's lock; on failure it may hold a reference to
\* the inode that has the name already.
link_entry(p) ==
  /\ pc[p] = "dirlink"
  /\ dlock = None
  /\ \/ /\ dir[new[p]] = 0
        /\ dir' = [dir EXCEPT ![new[p]] = inum[ip[p]]]
        /\ goto(p, "iput")
        /\ UNCHANGED <<dlock, inum, ref, valid, dup>>
     \/ /\ dir[new[p]] = 0
        /\ goto(p, "link_bad")
        /\ UNCHANGED <<dir, dlock, inum, ref, valid, dup>>
     \/ /\ dir[new[p]] # 0
        /\ iget(p, dup, dir[new[p]], "iput")
        /\ dlock' = p
        /\ UNCHANGED dir
  /\ UNCHANGED <<dtype, dnlink, nlink, lock, args, ip, file>>

\* Mutant: the count stays, although there is no link.
link_bad_KeepsCount(p) ==
  /\ pc[p] = "link_bad"
  /\ ilock(p, Links(ip[p]), "iput")
  /\ UNCHANGED <<dir, dtype, dlock, inum, ref, lock, args, ip, dup, file>>

link_bad(p) ==
  /\ pc[p] = "link_bad"
  /\ ilock(p, Links(ip[p]) - 1, "iput")
  /\ UNCHANGED <<dir, dtype, dlock, inum, ref, lock, args, ip, dup, file>>

\* fileclose() of the last descriptor: iput() in a transaction of its own.
fileclose(p) ==
  /\ pc[p] = "idle"
  /\ file[p] # None
  /\ ip' = [ip EXCEPT ![p] = file[p]]
  /\ file' = [file EXCEPT ![p] = None]
  /\ op' = [op EXCEPT ![p] = "close"]
  /\ goto(p, "iput")
  /\ UNCHANGED <<disk, dlock, table, lock, name, new, dup>>
------------------------------------------------------------------------------
Step(p) ==
  \/ namei(p) \/ open_ilock(p) \/ sys_open(p)
  \/ ialloc(p) \/ ialloc_iget(p) \/ create(p)
  \/ unlink_lookup(p) \/ unlink_entry(p) \/ unlink_count(p)
  \/ link_count(p) \/ link_entry(p) \/ link_bad(p)
  \/ iput(p) \/ iput_free(p) \/ iput_invalidate(p) \/ iput_drop(p)

Begin(p) ==
  \/ \E o \in {"open", "create", "unlink"}, n \in Names : begin(p, o, n, None)
  \/ \E n, m \in Names : begin(p, "link", n, m)

Next == \E p \in Procs : Begin(p) \/ fileclose(p) \/ Step(p)

Spec == Init /\ [][Next]_vars
------------------------------------------------------------------------------
Places == {"idle", "lookup", "ilock", "opened", "ialloc", "iget", "create",
           "unlink", "unlinked", "dirlink", "link_bad", "iput", "itrunc", "invalidate",
           "drop", "panic"}

TypeOK ==
  /\ dir \in [Names -> 0..NINODES]
  /\ dlock \in Procs \cup {None}
  /\ dtype \in [Inums -> {0, 1}] /\ dnlink \in [Inums -> Nat]
  /\ inum \in [Entries -> 0..NINODES] /\ ref \in [Entries -> Nat]
  /\ valid \in [Entries -> {0, 1}] /\ nlink \in [Entries -> Nat]
  /\ lock \in [Entries -> Procs \cup {None}]
  /\ pc \in [Procs -> Places]
  /\ op \in [Procs -> {"none", "open", "create", "link", "unlink", "close"}]
  /\ name \in [Procs -> Names \cup {None}]
  /\ new \in [Procs -> Names \cup Inums \cup {None}]
  /\ ip \in [Procs -> Entries \cup {None}] /\ dup \in [Procs -> Entries \cup {None}]
  /\ file \in [Procs -> Entries \cup {None}]

\* No panic() of fs.c or sysfile.c is reached: "ilock: no type" by a process that
\* reaches an inode while another frees it, "unlink: nlink < 1", and, with as many
\* entries as inodes, "iget: no inodes".  And "ip->ref == 1 means no other process
\* can have ip locked, so this acquiresleep() won't block (or deadlock)"
\* (fs.c:344), which is called with itable.lock held.
NoPanic ==
  \A p \in Procs :
    /\ pc[p] # "panic"
    /\ pc[p] = "iput" /\ LastUse(Target(p)) => lock[Target(p)] = None

\* ip->ref counts the pointers to the entry, and an inode has one entry; nobody
\* uses an inode that is free on the disk: not a name, not an open file.
RefExact ==
  /\ TypeOK
  /\ \A e \in Entries :
       ref[e] = Cardinality({p \in Procs : ip[p] = e})
                + Cardinality({p \in Procs : dup[p] = e})
                + Cardinality({p \in Procs : file[p] = e})
  /\ \A d, e \in Entries : ref[d] > 0 /\ ref[e] > 0 /\ inum[d] = inum[e] => d = e
  /\ \A n \in Names : dir[n] # 0 => dtype[dir[n]] = 1
  /\ \A p \in Procs : file[p] # None => dtype[inum[file[p]]] = 1

\* Names of an inode.
NamesOf(i) == {n \in Names : dir[n] = i}

Quiet == \A p \in Procs : pc[p] = "idle"

\* What a commit makes durable: when no system call is in progress, the link count
\* of an inode on the disk is the number of its names.
LinksExact ==
  Quiet => \A i \in Inums : dtype[i] = 1 => dnlink[i] = Cardinality(NamesOf(i))

\* "If that was the last reference and the inode has no links to it, free the inode
\* (and its content) on disk" (fs.c:332): no inode is left without name and file.
UnlinkedFreed ==
  Quiet => \A i \in Inums : dtype[i] = 1 =>
             \/ NamesOf(i) # {}
             \/ \E p \in Procs : file[p] # None /\ inum[file[p]] = i
==============================================================================
