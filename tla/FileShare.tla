------------------------------ MODULE FileShare ------------------------------
(***************************************************************************)
(* FileShare (src/src/FileShare.cpp, src/src/WindowsFileShare.h): list,    *)
(* stat, read, mkdir and write below a root directory, while other         *)
(* programs use the same file system.                                      *)
(*                                                                         *)
(* A request is a sequence of system calls, one step each, and another     *)
(* program may replace an entry or the root, or write a file, between any  *)
(* two of them.  The process may be killed, or the machine lose its power, *)
(* in the middle.  One write() of another program is atomic and changes    *)
(* the file's modification time.                                           *)
(***************************************************************************)
EXTENDS Integers, Sequences

CONSTANTS
  Dir,        \* directories
  File,       \* files that other programs made
  Fresh,      \* files that write requests make
  Name,       \* names that relative() admits
  Link,       \* a symbolic link or reparse point, to Target
  Target,     \* a directory outside the share
  None,       \* no node
  Base,       \* the directory at the root path at first
  Tree,       \* the entries at first
  Payload,    \* the blocks of a write request
  Chunk,      \* 256 KiB in blocks: what a read returns
  MaxChanges  \* bound: what happens to the share and its connections from outside

Node == Dir \cup File \cup Fresh

ASSUME NodeAssumption ==
  /\ Base \in Dir /\ Target \in Dir /\ Link \notin Node /\ None \notin Node /\ Link # None
  /\ Dir \cap File = {} /\ Dir \cap Fresh = {} /\ File \cap Fresh = {}
ASSUME TreeAssumption == Tree \in [Dir -> [Name -> Dir \cup File \cup {Link, None}]]
\* A block tells who wrote it: change number k of another program writes k.
ASSUME PayloadAssumption ==
  /\ MaxChanges \in Nat
  /\ Payload \in Seq(Int) /\ \A i \in DOMAIN Payload : Payload[i] \notin 1..MaxChanges

VARIABLES
  platform,  \* "unix" or "windows"
  rootAt,    \* what the root path names
  entry,     \* per directory and name: the node
  hidden,    \* temporary files: pairs of directory and file
  data,      \* per file: its blocks
  mtime,     \* per file: its modification time
  synced,    \* files whose blocks survive a loss of power
  root,      \* m_device and m_inode, or None
  op,        \* the request being handled
  changes,   \* such events so far
  seen,      \* history: pairs of a version and the content it stood for
  litter,    \* history: temporary files whose request was cut off or could not remove them
  within     \* history: what was below a directory of the share, since the constructor

disk == <<rootAt, entry, hidden, data, mtime, synced>>
service == <<platform, disk, root, op, seen, litter, within>>
shareVars == <<service, changes>>

Path == {<<>>} \cup {<<m>> : m \in Name} \cup {<<m, n>> : m \in Name, n \in Name}

NoOp == [pc |-> "idle"]
Failure == [ok |-> FALSE]

\* version(): device, inode, size and modification time.
Version(f) == <<f, Len(data[f]), mtime[f]>>

\* The directories of the tree below r: those in every set that holds r and,
\* with a directory, its subdirectories.
Subtree(e, r) ==
  {d \in Dir : \A S \in SUBSET Dir :
     r \in S /\ (\A c \in S, n \in Name : e[c][n] \in Dir => e[c][n] \in S) => d \in S}

\* The nodes of that tree.
Below(e, r) == Subtree(e, r) \cup {x \in Node : \E d \in Subtree(e, r), n \in Name : e[d][n] = x}

\* The constructor: the root must be a real directory.
Construct ==
  /\ root' = IF rootAt \in Dir THEN rootAt ELSE None
  /\ within' = IF rootAt \in Dir THEN Below(entry, rootAt) ELSE {}

ShareInit ==
  /\ platform \in {"unix", "windows"}
  /\ rootAt = Base /\ root = Base /\ entry = Tree /\ hidden = {}
  /\ data = [f \in File \cup Fresh |-> IF f \in File THEN <<0, 0, 0>> ELSE <<>>]
  /\ mtime = [f \in File \cup Fresh |-> 0]
  /\ synced = File
  /\ op = NoOp /\ changes = 0
  /\ seen = {<<Version(f), data[f]>> : f \in File}
  /\ litter = {} /\ within = Below(Tree, Base)

-----------------------------------------------------------------------------
(* handle(): one step per system call *)

Creates(q) == q.op \in {"write", "mkdir"}

At(d, n) == IF d \in Dir THEN entry[d][n] ELSE None

\* resolve(): the path as it is now has no link, and every component exists
\* except perhaps the last one of a request that creates it.
Resolves(q) ==
  LET d == At(rootAt, q.path[1]) IN
  /\ root # None /\ rootAt \in Dir
  /\ q.path # <<>> =>
       /\ d # Link
       /\ d # None \/ (Creates(q) /\ Len(q.path) = 1)
  /\ Len(q.path) = 2 =>
       /\ At(d, q.path[2]) # Link
       /\ At(d, q.path[2]) # None \/ Creates(q)

\* Something happens outside.
Change == changes < MaxChanges /\ changes' = changes + 1

\* handle() returns r.
Done(r) == op' = [pc |-> "done", result |-> r]

Goto(o) == op' = o

\* The arrival of request q.
Begin(q) ==
  /\ op.pc = "idle"
  /\ IF Resolves(q) /\ (Creates(q) => q.path # <<>>)
     THEN Goto([pc |-> "root", q |-> q, fd |-> None, depth |-> 0, pins |-> {}])
     ELSE Done(Failure)
  /\ UNCHANGED <<platform, disk, root, changes, seen, litter, within>>

\* The components that are opened: those of the parent for a request that
\* creates the last one.
Depth(q) == IF Creates(q) THEN Len(q.path) - 1 ELSE Len(q.path)

\* The root directory is the one of the constructor.
SameRoot(d) == d \in Dir /\ d = root

\* The directory stays pinned on Windows, where every parent is kept open
\* without delete sharing.
Pin(d) == IF platform = "windows" THEN op.pins \cup {d} ELSE {}

OpenRoot ==
  /\ op.pc = "root"
  /\ IF SameRoot(rootAt)
     THEN Goto([op EXCEPT !.pc = "walk", !.fd = rootAt, !.pins = Pin(rootAt)])
     ELSE Done(Failure)
  /\ UNCHANGED <<platform, disk, root, changes, seen, litter, within>>

Follow(x) == IF x = Link THEN Target ELSE x

\* What the absolute path of k components names on Windows: links in its middle
\* are followed.
Absolute(path, k) ==
  LET x == At(Follow(rootAt), path[1]) IN
  IF k = 0 THEN rootAt ELSE IF k = 1 THEN x ELSE At(Follow(x), path[2])

\* The next component of the path, opened without following a link.
Component ==
  IF platform = "unix" THEN At(op.fd, op.q.path[op.depth + 1])
  ELSE Absolute(op.q.path, op.depth + 1)

\* A component is a directory, except the last one of read and stat.
Openable(x) ==
  IF op.q.op = "list" \/ op.depth + 1 < Len(op.q.path) THEN x \in Dir ELSE x \in Node

Open ==
  /\ op.pc = "walk" /\ op.depth < Depth(op.q)
  /\ IF Openable(Component)
     THEN Goto([op EXCEPT !.depth = @ + 1, !.fd = Component, !.pins = Pin(Component)])
     ELSE Done(Failure)
  /\ UNCHANGED <<platform, disk, root, changes, seen, litter, within>>

Walked(kind) == op.pc = "walk" /\ op.depth = Depth(op.q) /\ op.q.op = kind

\* The directory in which the last calls of a request work: on Unix the one that
\* is open, on Windows what its path names by then.
Folder ==
  IF platform = "unix" THEN op.fd ELSE Follow(Absolute(op.q.path, Depth(op.q)))

\* readdir() and fstatat() of every entry: files and directories only.
List ==
  /\ Walked("list")
  /\ Done([ok |-> TRUE, names |-> {n \in Name : At(Folder, n) \in Node}])
  /\ UNCHANGED <<platform, disk, root, changes, seen, litter, within>>

\* The checks of a read before the first byte.
Readable ==
  /\ op.fd \in File \cup Fresh
  /\ op.q.want \in {<<>>, Version(op.fd)}
  /\ op.q.offset <= Len(data[op.fd])

Stat ==
  /\ Walked("stat")
  /\ IF Readable THEN Done([ok |-> TRUE, version |-> Version(op.fd)]) ELSE Done(Failure)
  /\ UNCHANGED <<platform, disk, root, changes, seen, litter, within>>

\* fstat() before the read.
Revision ==
  /\ Walked("read")
  /\ IF Readable
     THEN Goto([pc |-> "read", q |-> op.q, fd |-> op.fd, pins |-> op.pins,
                rev |-> Version(op.fd), bytes |-> <<>>])
     ELSE Done(Failure)
  /\ UNCHANGED <<platform, disk, root, changes, seen, litter, within>>

\* The position of the next block, and whether the read ends before it.
Position == op.q.offset + Len(op.bytes) + 1
ReadEnds == Len(op.bytes) = Chunk \/ Position > op.rev[2] \/ Position > Len(data[op.fd])

\* pread(), a block at a time.
Read ==
  /\ op.pc = "read" /\ ~ReadEnds
  /\ Goto([op EXCEPT !.bytes = Append(@, data[op.fd][Position])])
  /\ UNCHANGED <<platform, disk, root, changes, seen, litter, within>>

\* Mutant: the file is not looked at again after the read.
NotAgain == TRUE

\* The second fstat() gives the version of the first; Windows does not look
\* again, no one writes while the file is open.
Unchanged == platform = "windows" \/ Version(op.fd) = op.rev

Reread ==
  /\ op.pc = "read" /\ ReadEnds
  /\ IF Unchanged
     THEN Done([ok |-> TRUE, offset |-> op.q.offset, bytes |-> op.bytes, version |-> op.rev,
                eof |-> op.q.offset + Len(op.bytes) = op.rev[2]])
     ELSE Done(Failure)
  /\ UNCHANGED <<platform, disk, root, changes, seen, litter, within>>

LastName == op.q.path[Len(op.q.path)]

Free(d, n) == d \in Dir /\ At(d, n) = None

\* mkdirat() with a free directory d.
Mkdir(d) ==
  /\ Walked("mkdir")
  /\ IF Free(Folder, LastName)
     THEN /\ d \notin {Base, Target}
          /\ \A e \in Dir, n \in Name : entry[e][n] # d /\ entry[d][n] = None
          /\ entry' = [entry EXCEPT ![Folder][LastName] = d]
          /\ within' = within \cup {d}
          /\ Done([ok |-> TRUE])
     ELSE UNCHANGED <<entry, within>> /\ Done(Failure)
  /\ UNCHANGED <<platform, rootAt, hidden, data, mtime, synced, root, changes, seen, litter>>

\* The temporary file f of a write, made with O_EXCL in the same directory.
Create(f) ==
  /\ Walked("write")
  /\ mtime[f] = 0 /\ Folder \in Dir
  /\ hidden' = hidden \cup {<<Folder, f>>}
  /\ mtime' = [mtime EXCEPT ![f] = 1]
  /\ within' = within \cup {f}
  /\ Goto([pc |-> "write", q |-> op.q, fd |-> op.fd, pins |-> op.pins, tmp |-> f, done |-> FALSE])
  /\ UNCHANGED <<platform, rootAt, entry, data, synced, root, changes, seen, litter>>

Written == Len(data[op.tmp]) = Len(Payload)

\* write() of the next n blocks.
Write(n) ==
  /\ op.pc = "write" /\ ~Written
  /\ Len(data[op.tmp]) + n <= Len(Payload)
  /\ data' = [data EXCEPT ![op.tmp] = SubSeq(Payload, 1, Len(@) + n)]
  /\ UNCHANGED <<platform, rootAt, entry, hidden, mtime, synced, root, op, changes, seen, litter, within>>

\* Mutant: the blocks are not forced to the disk.
NotSynced == synced

\* fsync() of the temporary file.
SyncedAfter == synced \cup {op.tmp}

Sync ==
  /\ op.pc = "write" /\ Written
  /\ synced' = SyncedAfter
  /\ Goto([op EXCEPT !.pc = "link"])
  /\ UNCHANGED <<platform, rootAt, entry, hidden, data, mtime, root, changes, seen, litter, within>>

\* Mutant: the name is taken over, as rename() would.
Rename == TRUE

\* linkat() succeeds if the name is free.
NameFree == Free(Folder, LastName)

Publish ==
  /\ op.pc = "link"
  /\ entry' = IF NameFree THEN [entry EXCEPT ![Folder][LastName] = op.tmp] ELSE entry
  /\ Goto([op EXCEPT !.pc = "unlink", !.done = NameFree])
  /\ seen' = seen \cup {<<Version(op.tmp), data[op.tmp]>>}
  /\ UNCHANGED <<platform, rootAt, hidden, data, mtime, synced, root, changes, litter, within>>

\* unlinkat() of the temporary file, after a success and after a failure; if it
\* fails itself, as something outside has it, the file stays and the result is
\* the same.
Unlink ==
  /\ op.pc = "unlink"
  /\ \/ hidden' = hidden \ {<<Folder, op.tmp>>} /\ UNCHANGED <<litter, changes>>
     \/ Change /\ litter' = litter \cup {op.tmp} /\ UNCHANGED hidden
  /\ Done([ok |-> op.done])
  /\ UNCHANGED <<platform, rootAt, entry, data, mtime, synced, root, seen, within>>

\* The guard of the application refuses, or a system call fails; a write that
\* has its temporary file goes on to remove it.
Fail ==
  /\ \/ op.pc \in {"root", "walk", "read"} /\ Done(Failure)
     \/ op.pc \in {"write", "link"} /\ Goto([op EXCEPT !.pc = "unlink"])
  /\ UNCHANGED <<platform, disk, root, changes, seen, litter, within>>

\* A step of handle().
ShareStep ==
  \/ OpenRoot \/ Open \/ List \/ Stat \/ Revision \/ Read \/ Reread
  \/ \E d \in Dir : Mkdir(d)
  \/ \E f \in Fresh : Create(f)
  \/ \E n \in 1..Len(Payload) : Write(n)
  \/ Sync \/ Publish \/ Unlink \/ Fail

-----------------------------------------------------------------------------
(* Other programs, and the end of this one *)

\* Mutant: the parents are shared for deletion.
NotPinned == {}

\* What Windows keeps from being renamed, deleted or written.
Pinned == IF op.pc \in {"idle", "done"} THEN {} ELSE op.pins

\* Another program removes an entry of a directory of the share, or puts a
\* link or a file in its place.
Put(d, n, x) ==
  /\ Change
  /\ d \in within /\ entry[d][n] # x /\ entry[d][n] \notin Pinned
  /\ entry' = [entry EXCEPT ![d][n] = x]
  /\ within' = within \cup ({x} \cap Node)
  /\ UNCHANGED <<platform, rootAt, hidden, data, mtime, synced, root, op, seen, litter>>

\* Another directory or a link takes the place of the root.
SwapRoot(x) ==
  /\ Change
  /\ rootAt # x /\ rootAt \notin Pinned
  /\ rootAt' = x
  /\ UNCHANGED <<platform, entry, hidden, data, mtime, synced, root, op, seen, litter, within>>

\* Another program writes, truncates or extends a file; k is what it writes.
Modified(s, k) == {[s EXCEPT ![i] = k] : i \in DOMAIN s} \cup {<<k>>}

Modify(f) ==
  /\ Change
  /\ f \notin Pinned /\ \E d \in Dir, n \in Name : entry[d][n] = f
  /\ \E s \in Modified(data[f], changes + 1) :
       /\ data' = [data EXCEPT ![f] = s]
       /\ seen' = seen \cup {<< <<f, Len(s), mtime[f] + 1>>, s >>}
  /\ mtime' = [mtime EXCEPT ![f] = @ + 1]
  /\ UNCHANGED <<platform, rootAt, entry, hidden, synced, root, op, litter, within>>

\* The process is killed, or the machine loses its power and with it what was
\* not forced to the disk; then a new FileShare serves the root path.
Restart(power) ==
  /\ Change
  /\ data' = [f \in DOMAIN data |-> IF power /\ f \notin synced THEN <<>> ELSE data[f]]
  /\ op' = NoOp
  /\ litter' = litter \cup {t[2] : t \in hidden}
  /\ Construct
  /\ UNCHANGED <<platform, rootAt, entry, hidden, mtime, synced, seen>>

Others ==
  \/ \E d \in Dir, n \in Name, x \in File \cup {Link, None} : Put(d, n, x)
  \/ \E x \in {Base, Target, Link} : SwapRoot(x)
  \/ \E f \in File \cup Fresh : Modify(f)

-----------------------------------------------------------------------------
(* Properties *)

\* The last calls of a request: those that list a directory or make something.
InFolder ==
  \/ op.pc \in {"write", "link", "unlink"}
  \/ \E kind \in {"list", "mkdir", "write"} : Walked(kind)

\* A request works only on what is, or was, below the root of the share: no
\* link, replaced directory or replaced root leads it outside, whenever it is
\* put there, also where Windows resolves a path again (FileShare.cpp:34-46,
\* WindowsFileShare.h:47-66, 119, 126, 134).
Confined ==
  /\ op.pc \notin {"idle", "root", "done"} => op.fd \in within
  /\ InFolder => Folder \in within

\* The blocks of a file are those of a write request alone.
Ours(f) == \A i \in DOMAIN data[f] : \E j \in DOMAIN Payload : data[f][i] = Payload[j]

\* A file that a write made has a name only with all of its content, even if
\* the machine loses power, and only a request that is still running, was cut
\* off or could not remove it has a temporary file (FileShare.cpp:134-144,
\* WindowsFileShare.h:126-135).
WritesAreWhole ==
  /\ \A d \in Dir, n \in Name :
       entry[d][n] \in Fresh /\ Ours(entry[d][n]) => data[entry[d][n]] = Payload
  /\ \A t \in hidden :
       t[2] \in litter \/ (op.pc \in {"write", "link", "unlink"} /\ op.tmp = t[2])

\* The share never replaces or removes a name: an entry that exists changes
\* only when another program changes it (FileShare.cpp:129, 143,
\* WindowsFileShare.h:134).
NothingReplaced ==
  [][\A d \in Dir, n \in Name :
       entry[d][n] # None /\ entry'[d][n] # entry[d][n] => changes' # changes]_shareVars
=============================================================================
