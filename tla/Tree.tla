-------------------------------- MODULE Tree --------------------------------
(***************************************************************************)
(* The tree of directories: namex() of kernel/fs.c and the system calls of *)
(* sysfile.c that change the tree or a process's place in it: mkdir, mknod,*)
(* unlink and chdir, by several processes.                                 *)
(*                                                                         *)
(* An inode is its number: module Inode has the table, its counts and the  *)
(* steps of iput().  Here the count of an inode is the number of pointers  *)
(* that processes hold, and iput() is one step.  What is done under the    *)
(* lock of one inode is one step; a lock that is held over steps is in     *)
(* "lock", and a process waiting for it has no step.  The names "." and    *)
(* ".." are the first two entries of every directory, so isdirempty() asks *)
(* for the others.                                                         *)
(***************************************************************************)
EXTENDS Integers, Sequences, FiniteSets

CONSTANTS
  Procs,
  Names,     \* path elements other than "." and ".."
  NINODES,   \* inodes on the disk
  Paths,     \* paths: [abs: whether it begins with '/', elems: its elements]
  None

ROOTINO == 1
Inums == 1..NINODES
Ops == {"mkdir", "mknod", "unlink", "chdir"}

VARIABLES
  type, nlink,      \* of each inode; "free" is type 0
  entries,          \* the inode that a directory has for a name, or 0,
  dotdot,           \* and for ".."
  valid,            \* inodes that the table has read from the disk
  lock,             \* the process that holds ip->lock
  pc, op, path,     \* each process: where it is, its call, what is left of its path,
  cwd, at, ip,      \* its pointers: p->cwd; ip of namex or dp of its caller; ip,
  old,              \* and what it is about to iput()
  lost              \* history: a process went up from a directory that had been removed

disk == <<type, nlink, entries, dotdot>>
pointers == <<cwd, at, ip, old>>
vars == <<disk, valid, lock, pc, op, path, pointers, lost>>

Empty == [n \in Names |-> 0]

\* The image of mkfs: a root directory, which is its own "..".
Init ==
  /\ type = [i \in Inums |-> IF i = ROOTINO THEN "dir" ELSE "free"]
  /\ nlink = [i \in Inums |-> IF i = ROOTINO THEN 1 ELSE 0]
  /\ entries = [i \in Inums |-> Empty]
  /\ dotdot = [i \in Inums |-> IF i = ROOTINO THEN ROOTINO ELSE 0]
  /\ valid = {}
  /\ lock = [i \in Inums |-> None]
  /\ pc = [p \in Procs |-> "idle"] /\ op = [p \in Procs |-> "none"]
  /\ path = [p \in Procs |-> <<>>]
  /\ cwd = [p \in Procs |-> ROOTINO]
  /\ at = [p \in Procs |-> 0] /\ ip = [p \in Procs |-> 0] /\ old = [p \in Procs |-> 0]
  /\ lost = FALSE

Ready(p, l) == pc[p] = l /\ old[p] = 0
goto(p, l) == pc' = [pc EXCEPT ![p] = l]
set(ptr, p, i) == ptr' = [ptr EXCEPT ![p] = i]

\* Some name leads to i.
Named(i) == i = ROOTINO \/ \E d \in Inums, n \in Names : entries[d][n] = i

\* dirlookup(): the inode number that directory d has for e, or 0.
dirlookup(d, e) ==
  CASE e = "." -> d
    [] e = ".." -> dotdot[d]
    [] OTHER -> entries[d][e]

\* A process follows e from d.
Follow(d, e) == lost' = (lost \/ (e = ".." /\ ~Named(d)))

panic(p) ==
  /\ goto(p, "panic")
  /\ UNCHANGED <<disk, valid, lock, op, path, pointers, lost>>

\* ilock(i), which waits for the lock and panics if the inode is free, and then
\* the step A.
ilock(p, i, A) ==
  /\ lock[i] = None
  /\ IF type[i] = "free" THEN panic(p)
     ELSE valid' = valid \cup {i} /\ A

Pointers(i) ==
  Cardinality({p \in Procs : cwd[p] = i}) + Cardinality({p \in Procs : at[p] = i})
  + Cardinality({p \in Procs : ip[p] = i}) + Cardinality({p \in Procs : old[p] = i})

\* iput() of a last reference frees an inode that has no links.
LastUse_IgnoresRefs(i) == i \in valid /\ nlink[i] = 0
LastUse(i) == Pointers(i) = 1 /\ i \in valid /\ nlink[i] = 0

\* iput(), by which also every call ends.
iput(p) ==
  LET i == old[p] IN
  /\ i # 0
  /\ set(old, p, 0)
  /\ valid' = IF Pointers(i) = 1 \/ LastUse(i) THEN valid \ {i} ELSE valid
  /\ IF LastUse(i)
     THEN /\ lock[i] = None
          /\ type' = [type EXCEPT ![i] = "free"]
          /\ entries' = [entries EXCEPT ![i] = Empty]
          /\ dotdot' = [dotdot EXCEPT ![i] = 0]
     ELSE UNCHANGED <<type, entries, dotdot>>
  /\ IF pc[p] = "idle"
     THEN op' = [op EXCEPT ![p] = "none"] /\ path' = [path EXCEPT ![p] = <<>>]
     ELSE UNCHANGED <<op, path>>
  /\ UNCHANGED <<nlink, lock, pc, cwd, at, ip, lost>>
------------------------------------------------------------------------------
(* Paths *)

\* The call begins: namex() takes the root or the current directory.
begin(p, o, f) ==
  /\ Ready(p, "idle")
  /\ op' = [op EXCEPT ![p] = o]
  /\ path' = [path EXCEPT ![p] = f.elems]
  /\ set(at, p, IF f.abs THEN ROOTINO ELSE cwd[p])
  /\ goto(p, "namex")
  /\ UNCHANGED <<disk, valid, lock, cwd, ip, old, lost>>

nameiparent(p) == op[p] # "chdir"

\* The call gives up its pointer to at[p] and is over.
leave(p) == set(old, p, at[p]) /\ set(at, p, 0) /\ goto(p, "idle")

\* The path is used up.
namex_end(p) ==
  /\ Ready(p, "namex") /\ path[p] = <<>>
  /\ IF nameiparent(p) THEN leave(p)
     ELSE goto(p, "chdir") /\ UNCHANGED <<at, old>>
  /\ UNCHANGED <<disk, valid, lock, op, path, cwd, ip, lost>>

\* One path element, in the directory that at[p] must be.
namex_elem(p) ==
  LET d == at[p]
      e == Head(path[p])
      next == dirlookup(d, e)
      last == nameiparent(p) /\ Len(path[p]) = 1
  IN
  /\ \/ /\ type[d] # "dir" \/ (~last /\ next = 0)
        /\ leave(p) /\ UNCHANGED <<path, lost>>
     \/ /\ type[d] = "dir" /\ last
        /\ goto(p, op[p]) /\ UNCHANGED <<at, old, path, lost>>
     \/ /\ type[d] = "dir" /\ ~last /\ next # 0
        /\ set(at, p, next) /\ set(old, p, d)
        /\ path' = [path EXCEPT ![p] = Tail(@)]
        /\ Follow(d, e)
        /\ UNCHANGED pc
  /\ UNCHANGED <<disk, lock, op, cwd, ip>>

\* The loop of namex().
namex(p) ==
  /\ Ready(p, "namex") /\ path[p] # <<>>
  /\ ilock(p, at[p], namex_elem(p))

\* sys_chdir() with the inode it found.
chdir_found(p) ==
  /\ IF type[at[p]] = "dir"
     THEN set(old, p, cwd[p]) /\ set(cwd, p, at[p]) /\ set(at, p, 0) /\ goto(p, "idle")
     ELSE leave(p) /\ UNCHANGED cwd
  /\ UNCHANGED <<disk, lock, op, path, ip, lost>>

chdir(p) == Ready(p, "chdir") /\ ilock(p, at[p], chdir_found(p))
------------------------------------------------------------------------------
(* create(), for sys_mkdir() and sys_mknod() *)

newtype(p) == IF op[p] = "mkdir" THEN "dir" ELSE "dev"

\* dirlookup() in dp: the name is there, or dp stays locked.
create_lookup(p) ==
  LET d == at[p]
      e == Head(path[p])
      i == dirlookup(d, e)
  IN
  /\ IF i # 0
     THEN /\ set(ip, p, i) /\ set(old, p, d) /\ set(at, p, 0)
          /\ Follow(d, e)
          /\ goto(p, "exists")
          /\ UNCHANGED lock
     ELSE /\ lock' = [lock EXCEPT ![d] = p]
          /\ goto(p, "ialloc")
          /\ UNCHANGED <<ip, old, at, lost>>
  /\ UNCHANGED <<disk, op, path, cwd>>

create(p) ==
  /\ pc[p] \in {"mkdir", "mknod"} /\ old[p] = 0
  /\ ilock(p, at[p], create_lookup(p))

\* iunlockput(ip), the end of the call.
done(p) == set(old, p, ip[p]) /\ set(ip, p, 0) /\ goto(p, "idle")

\* Neither a directory nor a device may take the place of what exists.
create_exists(p) ==
  /\ Ready(p, "exists")
  /\ ilock(p, ip[p], done(p) /\ UNCHANGED <<disk, lock, op, path, cwd, at, lost>>)

\* ialloc(): the first free inode, if there is one.
ialloc(p) ==
  LET free == {i \in Inums : type[i] = "free"}
      i == CHOOSE x \in free : \A y \in free : x <= y
  IN
  /\ Ready(p, "ialloc")
  /\ IF free = {}
     THEN /\ lock' = [lock EXCEPT ![at[p]] = None]
          /\ leave(p)
          /\ UNCHANGED <<type, nlink, ip>>
     ELSE /\ type' = [type EXCEPT ![i] = newtype(p)]
          /\ nlink' = [nlink EXCEPT ![i] = 0]
          /\ set(ip, p, i)
          /\ goto(p, "link")
          /\ UNCHANGED <<lock, at, old>>
  /\ UNCHANGED <<entries, dotdot, valid, op, path, cwd, lost>>

\* dirlink() succeeds, for ".." and for the name; the new inode stays locked.
create_link(p) ==
  LET d == at[p] i == ip[p] IN
  /\ entries' = [entries EXCEPT ![d][Head(path[p])] = i]
  /\ dotdot' = [dotdot EXCEPT ![i] = IF op[p] = "mkdir" THEN d ELSE 0]
  /\ nlink' = [nlink EXCEPT ![i] = 1, ![d] = IF op[p] = "mkdir" THEN @ + 1 ELSE @]
  /\ lock' = [lock EXCEPT ![i] = p, ![d] = None]
  /\ set(old, p, d) /\ set(at, p, 0)
  /\ goto(p, "made")
  /\ UNCHANGED <<type, op, path, cwd, ip, lost>>

\* The disk is full: ".." may have been written before.
create_fail(p) ==
  LET i == ip[p] IN
  /\ \E d \in {dotdot[i], at[p]} :
       /\ op[p] = "mkdir" \/ d = dotdot[i]
       /\ dotdot' = [dotdot EXCEPT ![i] = d]
  /\ nlink' = [nlink EXCEPT ![i] = 0]
  /\ set(old, p, i) /\ set(ip, p, 0)
  /\ goto(p, "bad")
  /\ UNCHANGED <<type, entries, lock, op, path, cwd, at, lost>>

create_new(p) ==
  /\ Ready(p, "link")
  /\ ilock(p, ip[p], create_link(p) \/ create_fail(p))

\* iunlockput(dp) where a call fails.
bad(p) ==
  /\ Ready(p, "bad")
  /\ lock' = [lock EXCEPT ![at[p]] = None]
  /\ leave(p)
  /\ UNCHANGED <<disk, valid, op, path, cwd, ip, lost>>

\* iunlockput() of what create() returned.
made(p) ==
  /\ Ready(p, "made")
  /\ lock' = [lock EXCEPT ![ip[p]] = None]
  /\ done(p)
  /\ UNCHANGED <<disk, valid, op, path, cwd, at, lost>>
------------------------------------------------------------------------------
(* sys_unlink() *)

\* dirlookup() of the name, in dp; "." and ".." cannot be unlinked.
unlink_lookup(p) ==
  LET d == at[p]
      e == Head(path[p])
  IN
  /\ IF e \in {".", ".."} \/ dirlookup(d, e) = 0
     THEN leave(p) /\ UNCHANGED <<lock, ip>>
     ELSE /\ lock' = [lock EXCEPT ![d] = p]
          /\ set(ip, p, dirlookup(d, e))
          /\ goto(p, "remove")
          /\ UNCHANGED <<at, old>>
  /\ UNCHANGED <<disk, op, path, cwd, lost>>

unlink(p) == Ready(p, "unlink") /\ ilock(p, at[p], unlink_lookup(p))

isdirempty_OffByOne(i) == Cardinality({n \in Names : entries[i][n] # 0}) <= 1
isdirempty(i) == entries[i] = Empty

\* The entry goes, dp is unlocked, and ip stays locked; or ip is a directory
\* with entries.
unlink_entry(p) ==
  LET d == at[p] i == ip[p] IN
  /\ \/ /\ type[i] = "dir" /\ ~isdirempty(i)
        /\ set(old, p, i) /\ set(ip, p, 0)
        /\ goto(p, "bad")
        /\ UNCHANGED <<nlink, entries, lock, at>>
     \/ /\ type[i] = "dir" => isdirempty(i)
        /\ entries' = [entries EXCEPT ![d][Head(path[p])] = 0]
        /\ nlink' = [nlink EXCEPT ![d] = IF type[i] = "dir" THEN @ - 1 ELSE @]
        /\ lock' = [lock EXCEPT ![i] = p, ![d] = None]
        /\ set(old, p, d) /\ set(at, p, 0)
        /\ goto(p, "unlinked")
        /\ UNCHANGED ip
  /\ UNCHANGED <<type, dotdot, op, path, cwd, lost>>

unlink_found(p) ==
  /\ Ready(p, "remove")
  /\ IF type[ip[p]] # "free" /\ nlink[ip[p]] < 1 THEN lock[ip[p]] = None /\ panic(p)
     ELSE ilock(p, ip[p], unlink_entry(p))

\* ip->nlink-- and iunlockput(ip).
unlink_done(p) ==
  /\ Ready(p, "unlinked")
  /\ nlink' = [nlink EXCEPT ![ip[p]] = @ - 1]
  /\ lock' = [lock EXCEPT ![ip[p]] = None]
  /\ done(p)
  /\ UNCHANGED <<type, entries, dotdot, valid, op, path, cwd, at, lost>>
------------------------------------------------------------------------------
Panicked == \E p \in Procs : pc[p] = "panic"

\* A panic stops the machine.
Next ==
  /\ ~Panicked
  /\ \E p \in Procs :
       \/ \E o \in Ops, e \in Paths : begin(p, o, e)
       \/ namex(p) \/ namex_end(p) \/ chdir(p) \/ iput(p)
       \/ create(p) \/ create_exists(p) \/ ialloc(p)
       \/ create_new(p) \/ made(p) \/ bad(p)
       \/ unlink(p) \/ unlink_found(p) \/ unlink_done(p)

Spec == Init /\ [][Next]_vars
------------------------------------------------------------------------------
TypeOK ==
  /\ type \in [Inums -> {"free", "dir", "dev"}] /\ nlink \in [Inums -> Nat]
  /\ entries \in [Inums -> [Names -> Inums \cup {0}]] /\ dotdot \in [Inums -> Inums \cup {0}]
  /\ valid \subseteq Inums /\ lock \in [Inums -> Procs \cup {None}]
  /\ cwd \in [Procs -> Inums] /\ lost \in BOOLEAN
  /\ \A ptr \in {at, ip, old} : ptr \in [Procs -> Inums \cup {0}]

\* Nothing keeps the inode of the ".." of a removed directory, which may be free or
\* in other use; a process that goes there leaves what the calls keep.
Lost == lost

\* What has a name is allocated and has one name only, a directory's ".." is the
\* directory with its name, and a link count is one for the name and one for the
\* ".." of each directory below.
TreeShape ==
  \A i \in Inums : Named(i) =>
    /\ type[i] # "free"
    /\ Cardinality({e \in Inums \X Names : entries[e[1]][e[2]] = i}) = IF i = ROOTINO THEN 0 ELSE 1
    /\ nlink[i] = 1 + Cardinality({n \in Names : entries[i][n] # 0 /\ type[entries[i][n]] = "dir"})
    /\ type[i] = "dir" /\ i # ROOTINO => \E n \in Names : entries[dotdot[i]][n] = i

\* A directory that loses its name has nothing in it, whatever other processes
\* were making in it.
RemovesEmpty == \A i \in Inums : Named(i) /\ ~Named(i)' => entries[i] = Empty

\* The directories are a tree at every step of mkdir, mknod and unlink, and only
\* leaves of it go, until a process goes up from a directory that had been removed.
TreeKept == [](~Lost => TreeShape) /\ [][~Lost => RemovesEmpty]_vars

\* No process has a pointer to a free inode or panics, until one goes up from a
\* directory that had been removed; and no current directory is ever freed.
PointersLive ==
  \A p \in Procs :
    /\ type[cwd[p]] = "dir"
    /\ ~Lost => /\ pc[p] # "panic"
                /\ \A ptr \in {at, ip, old} : ptr[p] # 0 => type[ptr[p]] # "free"
==============================================================================
