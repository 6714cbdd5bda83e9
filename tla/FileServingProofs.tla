-------------------------- MODULE FileServingProofs --------------------------
(***************************************************************************)
(* Theorems about the two ways in which this library serves files: over    *)
(* the LAN, by FileShare and LanFiles, and by the child process of         *)
(* FileProtocolServer, whose names begin with FP.                          *)
(*                                                                         *)
(* LanFiles, for any tree, any blocks and any number of requests and of    *)
(* changes by other programs: a request stays below the root, a file is    *)
(* published whole, a name is never taken over, a download is the content  *)
(* of one moment, and a request is answered once.  Another program can act *)
(* between any two system calls, so each conjunct is about what it cannot  *)
(* change: a descriptor stays the node it was opened as, a parent that     *)
(* Windows keeps open stays in its place, a temporary file has no name,    *)
(* and a version belongs to one content.                                   *)
(*                                                                         *)
(* FileProtocolServer, for any number of children: the object owns one     *)
(* child at a time, kills only a child it was asked to stop, and reports   *)
(* an end as a failure exactly when nobody asked for it.  The code keeps   *)
(* one flag, stopping, for a succession of children.  That the flag speaks *)
(* of the current child is the heart of the invariant.                     *)
(***************************************************************************)
EXTENDS LanFiles, FileProtocolServer, FiniteSetTheorems, SequenceTheorems, TLAPS

Files == File \cup Fresh

Call == [id : Id, op : {"list", "stat", "read", "mkdir", "write"}, path : Path, offset : Nat,
         want : {<<>>} \cup (Files \X Nat \X Nat)]

WalkOp == [pc : {"root", "walk"}, q : Call, fd : Node \cup {None}, depth : {0, 1, 2},
           pins : SUBSET Node]
ReadOp == [pc : {"read"}, q : Call, fd : Files, pins : SUBSET Node, rev : Files \X Nat \X Nat,
           bytes : Seq(Int)]
WriteOp == [pc : {"write", "link", "unlink"}, q : Call, fd : Dir, pins : SUBSET Node,
            tmp : Fresh, done : BOOLEAN]

Walking == op.pc \in {"root", "walk"}
Writing == op.pc \in {"write", "link", "unlink"}

DiskTypes ==
  /\ platform \in {"unix", "windows"}
  /\ rootAt \in Dir \cup {Link} /\ root \in Dir \cup {None}
  /\ entry \in [Dir -> [Name -> Node \cup {Link, None}]]
  /\ hidden \in SUBSET (Dir \X Fresh) /\ synced \in SUBSET Files
  /\ data \in [Files -> Seq(Int)] /\ mtime \in [Files -> Nat]
  /\ changes \in 0..MaxChanges

OpTypes ==
  /\ op.pc \in {"idle", "root", "walk", "read", "write", "link", "unlink", "done"}
  /\ Walking => op \in WalkOp
  /\ op.pc = "read" => op \in ReadOp
  /\ Writing => op \in WriteOp /\ op.q.path # <<>>

\* What is below the share's root is in within, whatever its depth.
Closed ==
  /\ within \subseteq Node
  /\ root # None => root \in within
  /\ \A d \in within \cap Dir, n \in Name : entry[d][n] \in Node => entry[d][n] \in within

IsNamed(f) == \E d \in Dir, n \in Name : entry[d][n] = f
Published(f) == \E s \in seen : s[1][1] = f

\* A version stands for one content, and no file has yet a version to come.
Versions ==
  /\ \A s \in seen : \E f \in Files, c \in Seq(Int), m \in Nat :
       s = << <<f, Len(c), m>>, c >> /\ m <= mtime[f]
  /\ \A s, t \in seen : s[1] = t[1] => s[2] = t[2]

\* A file with a name is published, and what is published survives.
Contents ==
  /\ \A f \in File : Published(f)
  /\ \A f \in Files : IsNamed(f) => Published(f)
  /\ \A f \in Files : Published(f) => f \in synced /\ <<Version(f), data[f]>> \in seen
  /\ \A f \in Fresh : mtime[f] = 0 => data[f] = <<>> /\ ~Published(f)
  /\ \A f \in Fresh : IsNamed(f) /\ Ours(f) => data[f] = Payload

\* On Windows what a request has opened is kept open, and is still where the
\* first k components of its path lead.
InPlace(k) ==
  platform = "windows" =>
    /\ rootAt = root /\ root \in Dir \cap op.pins
    /\ op.fd \in op.pins /\ op.fd = Absolute(op.q.path, k)
    /\ k = 2 => Absolute(op.q.path, 1) \in Dir \cap op.pins

\* The walk: the open component is below the root and in its place.
Walk ==
  /\ Walking /\ Creates(op.q) => op.q.path # <<>>
  /\ op.pc = "root" => op.depth = 0
  /\ op.pc = "walk" =>
       /\ op.fd \in within /\ root \in Dir
       /\ op.depth < Len(op.q.path) \/ op.depth = 0 => op.fd \in Dir
       /\ op.fd \in Files => Published(op.fd)
       /\ Creates(op.q) => op.depth < Len(op.q.path)
       /\ op.depth <= Len(op.q.path)
       /\ InPlace(op.depth)

\* The blocks read so far are those of the version, unless the file has moved
\* on from it.
Reading ==
  op.pc = "read" =>
    /\ op.fd \in within /\ Published(op.fd)
    /\ op.rev[1] = op.fd /\ op.rev[3] <= mtime[op.fd] /\ op.q.offset <= op.rev[2]
    /\ platform = "windows" => op.fd \in op.pins /\ op.rev = Version(op.fd)
    /\ op.rev[3] = mtime[op.fd] =>
         /\ op.rev = Version(op.fd)
         /\ op.q.offset + Len(op.bytes) <= Len(data[op.fd])
         /\ op.bytes = SubSeq(data[op.fd], op.q.offset + 1, op.q.offset + Len(op.bytes))

\* The temporary file holds a prefix of the blocks and nobody can find it, and
\* its directory is in its place.
Temporary ==
  /\ Writing => Creates(op.q) /\ InPlace(Depth(op.q))
  /\ Writing => op.fd \in within /\ op.tmp \in within /\ mtime[op.tmp] # 0
  /\ op.pc \in {"write", "link"} => ~Published(op.tmp)
  /\ op.pc = "write" =>
       /\ Len(data[op.tmp]) <= Len(Payload)
       /\ data[op.tmp] = SubSeq(Payload, 1, Len(data[op.tmp]))
  /\ op.pc = "link" => data[op.tmp] = Payload /\ op.tmp \in synced
  /\ \A t \in hidden : t[2] \in litter \/ (Writing /\ t = <<op.fd, op.tmp>>)

\* The content c holds what r says.
Holds(c, r) ==
  /\ r.offset + Len(r.bytes) <= Len(c)
  /\ r.bytes = SubSeq(c, r.offset + 1, r.offset + Len(r.bytes))
  /\ r.eof => r.offset + Len(r.bytes) = Len(c)

\* An answer with bytes is a chunk of one content.
IsAnswer(r) ==
  "bytes" \in DOMAIN r =>
    /\ r.offset \in Nat /\ r.bytes \in Seq(Int) /\ r.eof \in BOOLEAN
    /\ r.version \in Files \X Nat \X Nat
    /\ \E s \in seen : s[1] = r.version /\ Holds(s[2], r)

Answers == op.pc = "done" => IsAnswer(op.result)

ShareInv ==
  /\ DiskTypes /\ OpTypes /\ Closed /\ Versions /\ Contents
  /\ Walk /\ Reading /\ Temporary /\ Answers

-----------------------------------------------------------------------------
(* Operators *)

LEMMA PathFacts ==
  ASSUME NEW p \in Path
  PROVE  /\ Len(p) \in {0, 1, 2} /\ (Len(p) = 0 <=> p = <<>>)
         /\ Len(p) # 0 => p[1] \in Name /\ p[Len(p)] \in Name
         /\ Len(p) = 2 => p[2] \in Name
<1>1. CASE p = <<>>
  BY <1>1
<1>2. ASSUME NEW m \in Name, p = <<m>>
      PROVE  Len(p) = 1 /\ p # <<>> /\ p[1] \in Name
  BY <1>2
<1>3. ASSUME NEW m \in Name, NEW n \in Name, p = <<m, n>>
      PROVE  Len(p) = 2 /\ p # <<>> /\ p[1] \in Name /\ p[2] \in Name
  BY <1>3
<1>4. QED
  BY <1>1, <1>2, <1>3 DEF Path

LEMMA AtType ==
  ASSUME DiskTypes, NEW d, NEW n \in Name
  PROVE  At(d, n) \in Node \cup {Link, None}
  BY DEF DiskTypes, At

LEMMA VersionType ==
  ASSUME DiskTypes, NEW f \in Files
  PROVE  /\ Version(f) \in Files \X Nat \X Nat
         /\ Version(f)[1] = f /\ Version(f)[2] = Len(data[f]) /\ Version(f)[3] = mtime[f]
<1>1. data[f] \in Seq(Int) /\ mtime[f] \in Nat
  BY DEF DiskTypes
<1>2. Len(data[f]) \in Nat
  BY <1>1
<1>3. QED
  BY <1>1, <1>2 DEF Version

\* The tree below a directory is closed: what a directory of it names is in it.
LEMMA BelowClosed ==
  ASSUME NEW e \in [Dir -> [Name -> Node \cup {Link, None}]], NEW r \in Dir
  PROVE  /\ Below(e, r) \subseteq Node /\ r \in Below(e, r)
         /\ \A d \in Below(e, r) \cap Dir, n \in Name : e[d][n] \in Node => e[d][n] \in Below(e, r)
<1>1. r \in Subtree(e, r) /\ Subtree(e, r) \subseteq Dir
  BY DEF Subtree
<1>2. ASSUME NEW d \in Subtree(e, r), NEW n \in Name, e[d][n] \in Dir
      PROVE  e[d][n] \in Subtree(e, r)
  <2>1. SUFFICES ASSUME NEW S \in SUBSET Dir, r \in S,
                        \A c \in S, m \in Name : e[c][m] \in Dir => e[c][m] \in S
                 PROVE  e[d][n] \in S
    BY <1>2 DEF Subtree
  <2>2. d \in S
    BY <2>1 DEF Subtree
  <2>3. QED
    BY <1>2, <2>1, <2>2
<1>3. Below(e, r) \subseteq Node /\ r \in Below(e, r)
  BY <1>1 DEF Below, Node
<1>4. \A d \in Below(e, r) \cap Dir : d \in Subtree(e, r)
  BY <1>1, <1>2 DEF Below
<1>5. QED
  BY <1>3, <1>4 DEF Below

\* What is pinned stays in its place, as long as no pinned entry changes.
LEMMA InPlaceKept ==
  ASSUME DiskTypes, NEW k \in {0, 1, 2}, op.q.path \in Path, k <= Len(op.q.path), InPlace(k),
         UNCHANGED <<platform, root>>, op'.q = op.q, op'.fd = op.fd, op'.pins = op.pins,
         platform = "windows" =>
           /\ rootAt' = rootAt
           /\ \A d \in Dir, n \in Name : entry[d][n] \in op.pins => entry'[d][n] = entry[d][n]
  PROVE  InPlace(k)'
<1>1. SUFFICES ASSUME platform = "windows" PROVE InPlace(k)'
  BY DEF InPlace
<1>2. PICK p \in Path : op.q.path = p
  OBVIOUS
<1>3. PICK r \in Dir : root = r
  BY <1>1 DEF InPlace
<1>4. /\ rootAt = r /\ r \in op.pins /\ op.fd \in op.pins /\ op.fd = Absolute(p, k)
      /\ k = 2 => Absolute(p, 1) \in Dir \cap op.pins
  BY <1>1, <1>2, <1>3 DEF InPlace
<1>5. rootAt' = r /\ root' = r /\ op'.q.path = p
  BY <1>1, <1>2, <1>3, <1>4
<1>6. \A d \in Dir : Follow(d) = d
  BY NodeAssumption DEF Follow, Node
<1>7. /\ Absolute(p, 0) = r /\ Absolute(p, 1) = entry[r][p[1]]
      /\ Absolute(p, 2) = At(Follow(entry[r][p[1]]), p[2])
  BY <1>4, <1>6 DEF Absolute, At
<1>8. /\ Absolute(p, 0)' = r /\ Absolute(p, 1)' = entry'[r][p[1]]
      /\ Absolute(p, 2)' = (At(Follow(entry[r][p[1]]), p[2]))'
  BY <1>5, <1>6 DEF Absolute, At, Follow
<1>9. CASE k = 0
  BY <1>3, <1>4, <1>5, <1>7, <1>8, <1>9 DEF InPlace
<1>10. k # 0 => p[1] \in Name
  <2>1. Len(p) \in Nat /\ (k # 0 => Len(p) # 0)
    BY <1>2, PathFacts
  <2>2. QED
    BY <2>1, PathFacts
<1>11. k # 0 => entry[r][p[1]] \in op.pins /\ entry'[r][p[1]] = entry[r][p[1]]
  <2>1. k = 1 => entry[r][p[1]] \in op.pins
    BY <1>4, <1>7
  <2>2. k = 2 => entry[r][p[1]] \in op.pins
    BY <1>4, <1>7
  <2>3. QED
    BY <1>1, <1>10, <2>1, <2>2
<1>12. CASE k = 1
  BY <1>3, <1>4, <1>5, <1>7, <1>8, <1>11, <1>12 DEF InPlace
<1>13. CASE k = 2
  <2>1. PICK x \in Dir : entry[r][p[1]] = x
    BY <1>4, <1>7, <1>13
  <2>2. p[2] \in Name
    BY <1>2, <1>13, PathFacts
  <2>3. entry'[r][p[1]] = x
    BY <1>11, <1>13, <2>1
  <2>4. Absolute(p, 2) = entry[x][p[2]]
    BY <1>6, <1>7, <2>1 DEF At
  <2>5. Absolute(p, 2)' = entry'[x][p[2]]
    BY <1>6, <1>8, <2>1, <2>3 DEF At, Follow
  <2>6. entry'[x][p[2]] = entry[x][p[2]]
    BY <1>1, <1>4, <1>13, <2>1, <2>2, <2>4
  <2>7. QED
    BY <1>3, <1>4, <1>5, <1>7, <1>8, <1>13, <2>1, <2>3, <2>4, <2>5, <2>6 DEF InPlace
<1>14. QED
  BY <1>9, <1>12, <1>13

\* The folder of the last calls is the directory that the request has open, also
\* where Windows resolves its path again.
LEMMA FolderIsOpen ==
  ASSUME ShareInv, Writing \/ (op.pc = "walk" /\ op.depth = Depth(op.q))
  PROVE  Folder = op.fd /\ op.fd \in within
<1>1. op.fd \in within /\ InPlace(Depth(op.q))
  BY DEF ShareInv, Walk, Temporary
<1>2. op.fd \in Node
  BY <1>1 DEF ShareInv, Closed
<1>3. Follow(op.fd) = op.fd
  BY <1>2, NodeAssumption DEF Follow
<1>4. CASE platform = "unix"
  BY <1>1, <1>4 DEF Folder
<1>5. CASE platform = "windows"
  BY <1>1, <1>3, <1>5 DEF Folder, InPlace
<1>6. QED
  BY <1>4, <1>5 DEF ShareInv, DiskTypes

-----------------------------------------------------------------------------
(* The initial state *)

LEMMA ShareInvInit == ShareInit => ShareInv
<1> SUFFICES ASSUME ShareInit PROVE ShareInv
  OBVIOUS
<1>1. /\ platform \in {"unix", "windows"}
      /\ rootAt = Base /\ root = Base /\ entry = Tree /\ hidden = {}
      /\ data = [f \in Files |-> IF f \in File THEN <<0, 0, 0>> ELSE <<>>]
      /\ mtime = [f \in Files |-> 0]
      /\ synced = File /\ op = NoOp /\ changes = 0
      /\ seen = {<<Version(f), data[f]>> : f \in File}
      /\ within = Below(Tree, Base)
  BY DEF ShareInit, Files
<1>2. Tree \in [Dir -> [Name -> Node \cup {Link, None}]] /\ Base \in Dir /\ Base # None
  BY NodeAssumption, TreeAssumption DEF Node
<1>3. DiskTypes
  <2>1. <<0, 0, 0>> \in Seq(Int) /\ <<>> \in Seq(Int)
    OBVIOUS
  <2>2. data \in [Files -> Seq(Int)]
    BY <1>1, <2>1
  <2>3. mtime \in [Files -> Nat] /\ changes \in 0..MaxChanges
    BY <1>1, PayloadAssumption
  <2>4. entry \in [Dir -> [Name -> Node \cup {Link, None}]]
    BY <1>1, <1>2
  <2>5. /\ platform \in {"unix", "windows"} /\ rootAt \in Dir \cup {Link}
        /\ root \in Dir \cup {None} /\ hidden \in SUBSET (Dir \X Fresh)
        /\ synced \in SUBSET Files
    BY <1>1, <1>2 DEF Files
  <2>6. QED
    BY <2>2, <2>3, <2>4, <2>5 DEF DiskTypes
<1>4. op.pc = "idle"
  BY <1>1 DEF NoOp
<1>5. OpTypes /\ Walk /\ Reading /\ Answers /\ Temporary
  BY <1>1, <1>4 DEF OpTypes, Walk, Walking, Reading, Answers, Temporary, Writing
<1>6. Closed
  BY <1>1, <1>2, BelowClosed DEF Closed
<1>7. \A f \in Files : mtime[f] = 0 /\ data[f] \in Seq(Int)
  BY <1>1, <1>3 DEF DiskTypes
<1>8. ASSUME NEW s \in seen
      PROVE  \E f \in File : s = <<Version(f), data[f]>> /\ s[1][1] = f /\ f \in Files
  BY <1>1 DEF Version, Files
<1>9. Versions
  <2>1. ASSUME NEW s \in seen
        PROVE  \E f \in Files, c \in Seq(Int), m \in Nat :
                 s = << <<f, Len(c), m>>, c >> /\ m <= mtime[f]
    <3>1. PICK f \in File : s = <<Version(f), data[f]>> /\ f \in Files
      BY <1>8, <2>1
    <3>2. s = << <<f, Len(data[f]), 0>>, data[f] >>
      BY <1>7, <3>1 DEF Version
    <3>3. 0 <= mtime[f] /\ 0 \in Nat /\ data[f] \in Seq(Int)
      BY <1>7, <3>1
    <3>4. QED
      BY <3>1, <3>2, <3>3
  <2>2. ASSUME NEW s \in seen, NEW t \in seen, s[1] = t[1] PROVE s[2] = t[2]
    <3>1. PICK f \in File : s = <<Version(f), data[f]>> /\ s[1][1] = f
      BY <1>8
    <3>2. PICK g \in File : t = <<Version(g), data[g]>> /\ t[1][1] = g
      BY <1>8
    <3>3. f = g
      BY <2>2, <3>1, <3>2
    <3>4. QED
      BY <3>1, <3>2, <3>3
  <2>3. QED
    BY <2>1, <2>2 DEF Versions
<1>10. Contents
  <2>1. \A f \in Fresh : ~IsNamed(f) /\ ~Published(f) /\ f \notin File
    BY <1>1, <1>8, NodeAssumption, TreeAssumption DEF IsNamed, Published, Node
  <2>2. \A f \in Fresh : data[f] = <<>>
    BY <1>1, <2>1 DEF Files
  <2>3. ASSUME NEW f \in File
        PROVE  Published(f) /\ f \in synced /\ <<Version(f), data[f]>> \in seen
    <3>1. f \in synced /\ <<Version(f), data[f]>> \in seen
      BY <1>1
    <3>2. <<Version(f), data[f]>>[1][1] = f
      BY DEF Version
    <3>3. QED
      BY <3>1, <3>2 DEF Published
  <2>4. QED
    BY <2>1, <2>2, <2>3 DEF Contents, Files
<1>11. QED
  BY <1>3, <1>5, <1>6, <1>9, <1>10 DEF ShareInv

-----------------------------------------------------------------------------
(* Steps that change only the request *)

LEMMA OnlyOp ==
  ASSUME ShareInv, UNCHANGED <<platform, disk, root, changes, seen, litter, within>>,
         OpTypes', Walk', Reading', Temporary', Answers'
  PROVE  ShareInv'
<1>1. /\ UNCHANGED <<platform, rootAt, entry, hidden, data, mtime, synced>>
      /\ UNCHANGED <<root, changes, seen, litter, within>>
  BY DEF disk
<1>2. DiskTypes'
  BY <1>1 DEF ShareInv, DiskTypes
<1>3. Closed'
  BY <1>1 DEF ShareInv, Closed
<1>4. Versions'
  BY <1>1 DEF ShareInv, Versions
<1>5. Contents'
  BY <1>1 DEF ShareInv, Contents, IsNamed, Published, Version, Ours
<1>6. QED
  BY <1>2, <1>3, <1>4, <1>5 DEF ShareInv

\* handle() returns, with no temporary file left.
LEMMA DoneKeeps ==
  ASSUME ShareInv, UNCHANGED <<platform, disk, root, changes, seen, litter, within>>,
         ~Writing, NEW r, IsAnswer(r), Done(r)
  PROVE  ShareInv'
<1>1. op'.pc = "done" /\ op'.result = r
  BY DEF Done
<1>2. OpTypes' /\ Walk' /\ Reading'
  BY <1>1 DEF OpTypes, Walk, Walking, Reading, Writing
<1>3. Temporary'
  BY <1>1 DEF ShareInv, Temporary, Writing, disk
<1>4. IsAnswer(r)'
  BY DEF IsAnswer, Holds
<1>5. Answers'
  BY <1>1, <1>4 DEF Answers
<1>6. QED
  BY <1>2, <1>3, <1>5, OnlyOp

LEMMA NoBytes ==
  /\ IsAnswer(Failure)
  /\ \A N : IsAnswer([ok |-> TRUE, names |-> N]) /\ IsAnswer([ok |-> TRUE, version |-> N])
  /\ \A b : IsAnswer([ok |-> b])
  BY DEF IsAnswer, Failure

LEMMA BeginKeeps ==
  ASSUME ShareInv, NEW q \in Call, Begin(q)
  PROVE  ShareInv'
<1>1. /\ op.pc = "idle" /\ UNCHANGED <<platform, disk, root, changes, seen, litter, within>>
  BY DEF Begin
<1>2. CASE Done(Failure)
  BY <1>1, <1>2, NoBytes, DoneKeeps DEF Writing
<1>3. CASE /\ Creates(q) => q.path # <<>>
           /\ op' = [pc |-> "root", q |-> q, fd |-> None, depth |-> 0, pins |-> {}]
  <2>1. op' \in WalkOp /\ op'.pc = "root" /\ op'.q = q /\ op'.depth = 0
    BY <1>3 DEF WalkOp
  <2>2. OpTypes' /\ Reading' /\ Answers'
    BY <2>1 DEF OpTypes, Walking, Reading, Writing, Answers
  <2>3. Walk'
    BY <1>3, <2>1 DEF Walk, Walking, Creates
  <2>4. Temporary'
    BY <1>1, <2>1 DEF ShareInv, Temporary, Writing, disk
  <2>5. QED
    BY <1>1, <2>2, <2>3, <2>4, OnlyOp
<1>4. QED
  BY <1>2, <1>3 DEF Begin, Goto

\* The walk goes on.
LEMMA WalkKeeps ==
  ASSUME ShareInv, UNCHANGED <<platform, disk, root, changes, seen, litter, within>>,
         ~Writing, op' \in WalkOp, op'.pc = "walk", Walk'
  PROVE  ShareInv'
<1>1. OpTypes' /\ Reading' /\ Answers'
  BY DEF OpTypes, Walking, Reading, Writing, Answers
<1>2. Temporary'
  BY DEF ShareInv, Temporary, Writing, disk
<1>3. QED
  BY <1>1, <1>2, OnlyOp

LEMMA OpenRootKeeps == ASSUME ShareInv, OpenRoot PROVE ShareInv'
<1>1. /\ op.pc = "root" /\ UNCHANGED <<platform, disk, root, changes, seen, litter, within>>
      /\ op \in WalkOp /\ op.depth = 0 /\ (Creates(op.q) => op.q.path # <<>>)
  BY DEF OpenRoot, ShareInv, OpTypes, Walking, Walk
<1>2. CASE ~SameRoot(rootAt)
  BY <1>1, <1>2, NoBytes, DoneKeeps DEF Writing, OpenRoot
<1>3. CASE SameRoot(rootAt)
  <2>1. /\ op' = [op EXCEPT !.pc = "walk", !.fd = rootAt, !.pins = Pin(rootAt)]
        /\ rootAt \in Dir /\ rootAt = root
    BY <1>3 DEF OpenRoot, SameRoot, Goto
  <2>2. rootAt \in Node /\ root # None /\ rootAt \notin Files
    BY <2>1, NodeAssumption DEF Node, Files
  <2>3. Pin(rootAt) \in SUBSET Node /\ (platform = "windows" => rootAt \in Pin(rootAt))
    BY <1>1, <2>2 DEF Pin, WalkOp
  <2>4. op' \in WalkOp
    BY <1>1, <2>1, <2>2, <2>3 DEF WalkOp
  <2>5. /\ op'.pc = "walk" /\ op'.q = op.q /\ op'.depth = 0 /\ op'.fd = rootAt
        /\ op'.pins = Pin(rootAt)
    BY <1>1, <2>1 DEF WalkOp
  <2>6. rootAt \in within
    BY <2>1, <2>2 DEF ShareInv, Closed
  <2>7. op.q.path \in Path
    BY <1>1 DEF WalkOp, Call
  <2>8. 0 <= Len(op.q.path) /\ (op.q.path # <<>> => 0 < Len(op.q.path))
    BY <2>7, PathFacts
  <2>9. UNCHANGED <<platform, root, rootAt, within, seen>>
    BY <1>1 DEF disk
  <2>10. Walk'
    <3>1. (Walking /\ Creates(op.q) => op.q.path # <<>>)' /\ (op.pc = "root" => op.depth = 0)'
      BY <1>1, <2>5 DEF Creates
    <3>2. (Creates(op.q) => op.depth < Len(op.q.path))' /\ (op.depth <= Len(op.q.path))'
      BY <1>1, <2>5, <2>8 DEF Creates
    <3>3. /\ op'.fd \in within' /\ root' \in Dir /\ op'.fd \in Dir /\ op'.fd \notin Files
          /\ op'.depth # 1
      BY <2>1, <2>2, <2>5, <2>6, <2>9
    <3>4. (InPlace(op.depth))'
      BY <2>1, <2>3, <2>5, <2>9 DEF InPlace, Absolute
    <3>5. QED
      BY <3>1, <3>2, <3>3, <3>4 DEF Walk
  <2>11. QED
    BY <1>1, <2>4, <2>5, <2>10, WalkKeeps DEF Writing
<1>4. QED
  BY <1>2, <1>3

\* A walk that has not come to its last component.
LEMMA DepthFacts ==
  ASSUME NEW k \in {0, 1, 2}, NEW l \in {0, 1, 2}, k < l - 1 \/ k < l
  PROVE  /\ k \in {0, 1} /\ k < l /\ k + 1 \in {1, 2} /\ k + 1 <= l
         /\ k < l - 1 => k + 1 < l
         /\ k = 1 => l = 2 /\ k + 1 = 2
  OBVIOUS

\* The next component is an entry of the directory that is open, on Windows
\* too, where its path starts from the root again.
LEMMA NextComponent ==
  ASSUME ShareInv, op.pc = "walk", op.depth < Depth(op.q)
  PROVE  /\ op \in WalkOp /\ op.q.path \in Path /\ op.fd \in Dir /\ op.depth \in {0, 1}
         /\ op.depth + 1 \in {1, 2} /\ op.depth + 1 <= Len(op.q.path)
         /\ Creates(op.q) => op.depth + 1 < Len(op.q.path)
         /\ op.q.path[op.depth + 1] \in Name
         /\ Component = entry[op.fd][op.q.path[op.depth + 1]]
         /\ platform = "windows" => Component = Absolute(op.q.path, op.depth + 1)
<1>1. op \in WalkOp /\ op.depth \in {0, 1, 2} /\ op.q.path \in Path
  BY DEF ShareInv, OpTypes, Walking, WalkOp, Call
<1>2. Len(op.q.path) \in {0, 1, 2}
  BY <1>1, PathFacts
<1>3. /\ op.depth \in {0, 1} /\ op.depth < Len(op.q.path)
      /\ op.depth + 1 \in {1, 2} /\ op.depth + 1 <= Len(op.q.path)
      /\ Creates(op.q) => op.depth + 1 < Len(op.q.path)
  <2>1. op.depth < Len(op.q.path) - 1 \/ op.depth < Len(op.q.path)
    BY DEF Depth
  <2>2. Creates(op.q) => op.depth < Len(op.q.path) - 1
    BY DEF Depth
  <2>3. QED
    BY <1>1, <1>2, <2>1, <2>2, DepthFacts
<1>4. op.q.path[op.depth + 1] \in Name
  <2>1. CASE op.depth = 0
    BY <1>1, <1>3, <2>1, PathFacts
  <2>2. CASE op.depth = 1
    <3>1. Len(op.q.path) = 2 /\ op.depth + 1 = 2
      BY <1>1, <1>2, <1>3, <2>2, DepthFacts
    <3>2. QED
      BY <1>1, <3>1, PathFacts
  <2>3. QED
    BY <1>3, <2>1, <2>2
<1>5. op.fd \in Dir /\ root \in Dir
  BY <1>3 DEF ShareInv, Walk
<1>6. \A d \in Dir : Follow(d) = d
  BY NodeAssumption DEF Follow, Node
<1>7. CASE platform = "unix"
  BY <1>1, <1>3, <1>4, <1>5, <1>7 DEF Component, At
<1>8. CASE platform # "unix"
  <2>1. platform = "windows"
    BY <1>8 DEF ShareInv, DiskTypes
  <2>2. rootAt = root /\ op.fd = Absolute(op.q.path, op.depth)
    BY <2>1 DEF ShareInv, Walk, InPlace
  <2>3. At(Follow(rootAt), op.q.path[1]) = entry[root][op.q.path[1]]
    BY <1>5, <1>6, <2>2 DEF At
  <2>4. CASE op.depth = 0
    <3>1. op.depth + 1 = 1 /\ op.fd = root
      BY <2>2, <2>4 DEF Absolute
    <3>2. Component = entry[root][op.q.path[1]]
      BY <1>8, <2>3, <3>1 DEF Component, Absolute
    <3>3. QED
      BY <1>1, <1>3, <1>4, <1>5, <1>8, <3>1, <3>2 DEF Component
  <2>5. CASE op.depth = 1
    <3>1. op.depth + 1 = 2 /\ 2 # 1 /\ 2 # 0 /\ op.depth # 0
      BY <2>5
    <3>2. Component = At(Follow(op.fd), op.q.path[2])
      BY <1>8, <2>2, <2>5, <3>1 DEF Component, Absolute
    <3>3. Component = entry[op.fd][op.q.path[2]]
      BY <1>5, <1>6, <3>2 DEF At
    <3>4. QED
      BY <1>1, <1>3, <1>4, <1>5, <1>8, <3>1, <3>3 DEF Component
  <2>6. QED
    BY <1>3, <2>4, <2>5
<1>9. QED
  BY <1>7, <1>8

LEMMA OpenKeeps == ASSUME ShareInv, Open PROVE ShareInv'
<1>1. /\ op.pc = "walk" /\ op.depth < Depth(op.q)
      /\ UNCHANGED <<platform, disk, root, changes, seen, litter, within>>
  BY DEF Open
<1> DEFINE x == Component
<1>2. /\ op \in WalkOp /\ op.q.path \in Path /\ op.fd \in Dir /\ op.depth \in {0, 1}
      /\ op.depth + 1 \in {1, 2} /\ op.depth + 1 <= Len(op.q.path)
      /\ Creates(op.q) => op.depth + 1 < Len(op.q.path)
      /\ op.q.path[op.depth + 1] \in Name
      /\ x = entry[op.fd][op.q.path[op.depth + 1]]
      /\ platform = "windows" => x = Absolute(op.q.path, op.depth + 1)
  BY <1>1, NextComponent
<1>3. CASE ~Openable(x)
  BY <1>1, <1>3, NoBytes, DoneKeeps DEF Writing, Open
<1>4. CASE Openable(x)
  <2>1. op' = [op EXCEPT !.depth = @ + 1, !.fd = x, !.pins = Pin(x)]
    BY <1>4 DEF Open, Goto
  <2>2. x \in Node /\ (op.depth + 1 < Len(op.q.path) => x \in Dir)
    BY <1>4 DEF Openable, Node
  <2>3. x \in within
    BY <1>1, <1>2, <2>2 DEF ShareInv, Closed, Walk
  <2>4. x \in Files => Published(x)
    BY <1>2 DEF ShareInv, Contents, IsNamed
  <2>5. /\ Pin(x) \in SUBSET Node
        /\ platform = "windows" => x \in Pin(x) /\ op.pins \subseteq Pin(x)
    BY <1>2, <2>2 DEF Pin, WalkOp
  <2> HIDE DEF x
  <2>6. op' \in WalkOp
    BY <1>2, <2>1, <2>2, <2>5 DEF WalkOp
  <2>7. /\ op'.pc = "walk" /\ op'.q = op.q /\ op'.depth = op.depth + 1 /\ op'.fd = x
        /\ op'.pins = Pin(x)
    BY <1>1, <1>2, <2>1 DEF WalkOp
  <2>8. UNCHANGED <<platform, root, rootAt, entry, within, seen>>
    BY <1>1 DEF disk
  <2>9. Walk'
    <3>1. (Walking /\ Creates(op.q) => op.q.path # <<>>)' /\ (op.pc = "root" => op.depth = 0)'
      BY <1>1, <2>7 DEF ShareInv, Walk, Walking, Creates
    <3>2. (Creates(op.q) => op.depth < Len(op.q.path))' /\ (op.depth <= Len(op.q.path))'
      BY <1>2, <2>7 DEF Creates
    <3>3. op'.fd \in within' /\ root' \in Dir /\ (op.fd \in Files => Published(op.fd))'
      BY <1>1, <2>3, <2>4, <2>7, <2>8 DEF ShareInv, Walk, Published
    <3>4. op'.depth # 0
      BY <1>2, <2>7
    <3>5. op'.depth < Len(op'.q.path) \/ op'.depth = 0 => op'.fd \in Dir
      BY <2>2, <2>7, <3>4
    <3>6. (InPlace(op.depth))'
      <4>1. SUFFICES ASSUME platform = "windows"
                     PROVE  /\ rootAt' = root' /\ root' \in Dir \cap op'.pins /\ op'.fd \in op'.pins
                            /\ op'.fd = (Absolute(op.q.path, op.depth))'
                            /\ op'.depth = 2 => (Absolute(op.q.path, 1))' \in Dir \cap op'.pins
        BY <2>8 DEF InPlace
      <4>2. \A k \in {1, 2} : (Absolute(op.q.path, k))' = Absolute(op.q.path, k)
        BY <2>7, <2>8 DEF Absolute, At, Follow
      <4>3. rootAt = root /\ root \in Dir \cap op.pins /\ op.fd \in op.pins
        BY <1>1, <4>1 DEF ShareInv, Walk, InPlace
      <4>4. op'.fd = (Absolute(op.q.path, op.depth))'
        BY <1>2, <2>7, <2>8, <4>1 DEF Absolute, At, Follow
      <4>5. op.depth = 1 => op.fd = Absolute(op.q.path, 1)
        BY <1>1, <4>1 DEF ShareInv, Walk, InPlace
      <4>6. op'.depth = 2 => op.depth = 1
        BY <1>2, <2>7
      <4>7. QED
        BY <1>2, <2>5, <2>7, <2>8, <4>1, <4>2, <4>3, <4>4, <4>5, <4>6
    <3>7. QED
      BY <3>1, <3>2, <3>3, <3>5, <3>6 DEF Walk
  <2>10. QED
    BY <1>1, <2>6, <2>7, <2>9, WalkKeeps DEF Writing
<1>5. QED
  BY <1>3, <1>4

\* The answers of list and stat, and a request that is refused.
LEMMA ListKeeps == ASSUME ShareInv, List PROVE ShareInv'
  BY NoBytes, DoneKeeps DEF List, Walked, Writing

LEMMA StatKeeps == ASSUME ShareInv, Stat PROVE ShareInv'
  BY NoBytes, DoneKeeps DEF Stat, Walked, Writing

-----------------------------------------------------------------------------
(* Blocks *)

LEMMA NoBlocks ==
  ASSUME NEW s, NEW o \in Nat
  PROVE  <<>> = SubSeq(s, o + 1, o + 0)
<1>1. o + 1 \in Int /\ o + 0 \in Int /\ o + 0 < o + 1
  OBVIOUS
<1>2. QED
  BY <1>1, SubSeqEmpty

LEMMA ChunkOf ==
  ASSUME NEW s \in Seq(Int), NEW o \in Nat, NEW k \in Nat, o + k <= Len(s)
  PROVE  SubSeq(s, o + 1, o + k) \in Seq(Int) /\ Len(SubSeq(s, o + 1, o + k)) = k
  OBVIOUS

\* Two chunks in a row are one.
LEMMA TwoChunks ==
  ASSUME NEW s \in Seq(Int), NEW n \in Nat, NEW k \in Nat, n + k <= Len(s)
  PROVE  SubSeq(s, 1, n) \o SubSeq(s, n + 1, n + k) = SubSeq(s, 1, n + k)
<1>1. 1 \in 1..Len(s) + 1 /\ n \in 1 - 1..Len(s) /\ n + k \in n..Len(s)
  OBVIOUS
<1>2. QED
  BY <1>1, ConcatAdjacentSubSeq

\* One block more.
LEMMA NextBlock ==
  ASSUME NEW s \in Seq(Int), NEW o \in Nat, NEW k \in Nat, o + k + 1 <= Len(s)
  PROVE  Append(SubSeq(s, o + 1, o + k), s[o + k + 1]) = SubSeq(s, o + 1, o + (k + 1))
<1> DEFINE a == SubSeq(s, o + 1, o + k)
<1>1. a \in Seq(Int) /\ s[o + k + 1] \in Int
  BY ChunkOf
<1>2. /\ o + 1 \in 1..Len(s) /\ o + k + 1 \in (o + 1)..Len(s)
      /\ (o + k + 1) - 1 = o + k /\ o + k + 1 = o + (k + 1)
  OBVIOUS
<1>3. SubSeq(s, o + 1, o + k + 1) = SubSeq(s, o + 1, (o + k + 1) - 1) \o <<s[o + k + 1]>>
  BY <1>2, SubSeqRecursiveSecond
<1> HIDE DEF a
<1>4. a \o <<s[o + k + 1]>> = Append(a, s[o + k + 1])
  BY <1>1, AppendIsConcat
<1>5. QED
  BY <1>2, <1>3, <1>4 DEF a

-----------------------------------------------------------------------------
(* Reading *)

\* A read goes on, with the disk as it is.
LEMMA ReadOpKeeps ==
  ASSUME ShareInv, UNCHANGED <<platform, disk, root, changes, seen, litter, within>>,
         ~Writing, op' \in ReadOp, op'.pc = "read", Reading'
  PROVE  ShareInv'
<1>1. OpTypes' /\ Walk' /\ Answers'
  BY DEF OpTypes, Walking, Walk, Writing, Answers
<1>2. Temporary'
  BY DEF ShareInv, Temporary, Writing, disk
<1>3. QED
  BY <1>1, <1>2, OnlyOp

LEMMA RevisionKeeps == ASSUME ShareInv, Revision PROVE ShareInv'
<1>1. /\ op.pc = "walk" /\ UNCHANGED <<platform, disk, root, changes, seen, litter, within>>
  BY DEF Revision, Walked
<1>2. op \in WalkOp
  BY <1>1 DEF ShareInv, OpTypes, Walking
<1>3. CASE ~Readable
  BY <1>1, <1>3, NoBytes, DoneKeeps DEF Writing, Revision
<1>4. CASE Readable
  <2> DEFINE v == Version(op.fd)
  <2>1. /\ op' = [pc |-> "read", q |-> op.q, fd |-> op.fd, pins |-> op.pins, rev |-> v, bytes |-> <<>>]
        /\ op.fd \in Files /\ op.q.offset <= Len(data[op.fd])
    BY <1>4 DEF Revision, Readable, Goto, Files
  <2>2. v \in Files \X Nat \X Nat /\ v[1] = op.fd /\ v[2] = Len(data[op.fd]) /\ v[3] = mtime[op.fd]
    BY <2>1, VersionType DEF ShareInv
  <2>3. v = Version(op.fd)
    OBVIOUS
  <2> HIDE DEF v
  <2>4. op' \in ReadOp
    <3>1. <<>> \in Seq(Int)
      OBVIOUS
    <3>2. QED
      BY <1>2, <2>1, <2>2, <3>1 DEF ReadOp, WalkOp
  <2>5. /\ op'.pc = "read" /\ op'.q = op.q /\ op'.fd = op.fd /\ op'.pins = op.pins
        /\ op'.rev = v /\ op'.bytes = <<>>
    BY <2>1
  <2>6. UNCHANGED <<platform, within, seen, data, mtime>>
    BY <1>1 DEF disk
  <2>7. op.q.offset \in Nat /\ data[op.fd] \in Seq(Int) /\ mtime[op.fd] \in Nat
    BY <1>2, <2>1 DEF WalkOp, Call, ShareInv, DiskTypes
  <2>8. op.q.offset + Len(<<>>) <= Len(data[op.fd]) /\ mtime[op.fd] <= mtime[op.fd] /\ Len(<<>>) = 0
    BY <2>1, <2>7
  <2>9. <<>> = SubSeq(data[op.fd], op.q.offset + 1, op.q.offset + Len(<<>>))
    BY <2>7, <2>8, NoBlocks
  <2>10. op.fd \in within /\ Published(op.fd) /\ (platform = "windows" => op.fd \in op.pins)
    BY <1>1, <2>1 DEF ShareInv, Walk, InPlace
  <2>11. (Version(op.fd))' = v
    BY <2>3, <2>5, <2>6 DEF Version
  <2>12. Reading'
    BY <2>1, <2>2, <2>5, <2>6, <2>8, <2>9, <2>10, <2>11 DEF Reading, Published, Version
  <2>13. QED
    BY <1>1, <2>4, <2>5, <2>12, ReadOpKeeps DEF Writing
<1>5. QED
  BY <1>3, <1>4

LEMMA ReadKeeps == ASSUME ShareInv, Read PROVE ShareInv'
<1> DEFINE b == data[op.fd][Position]
           c == data[op.fd]
           o == op.q.offset
           k == Len(op.bytes)
<1>1. /\ op.pc = "read" /\ ~ReadEnds /\ op' = [op EXCEPT !.bytes = Append(@, b)]
      /\ UNCHANGED <<platform, disk, root, changes, seen, litter, within>>
  BY DEF Read, Goto
<1>2. op \in ReadOp /\ op.bytes \in Seq(Int) /\ op.fd \in Files /\ o \in Nat
  BY <1>1 DEF ShareInv, OpTypes, ReadOp, Call
<1>3. c \in Seq(Int) /\ k \in Nat
  BY <1>2 DEF ShareInv, DiskTypes
<1>4. Position = o + k + 1 /\ o + k + 1 <= Len(c)
  BY <1>1, <1>2, <1>3 DEF ReadEnds, Position
<1>5. b \in Int /\ b = c[o + k + 1]
  BY <1>2, <1>3, <1>4
<1>6. UNCHANGED <<platform, within, seen, data, mtime>>
  BY <1>1 DEF disk
<1> HIDE DEF b
<1>7. Append(op.bytes, b) \in Seq(Int) /\ Len(Append(op.bytes, b)) = k + 1
  BY <1>2, <1>5
<1>8. op' \in ReadOp
  BY <1>1, <1>2, <1>7 DEF ReadOp
<1>9. /\ op'.pc = "read" /\ op'.q = op.q /\ op'.fd = op.fd /\ op'.pins = op.pins
      /\ op'.rev = op.rev /\ op'.bytes = Append(op.bytes, b)
  BY <1>1, <1>2 DEF ReadOp
<1>10. ASSUME op.rev[3] = mtime[op.fd]
       PROVE  /\ o + Len(Append(op.bytes, b)) <= Len(c)
              /\ Append(op.bytes, b) = SubSeq(c, o + 1, o + Len(Append(op.bytes, b)))
  <2>1. op.bytes = SubSeq(c, o + 1, o + k)
    BY <1>1, <1>10 DEF ShareInv, Reading
  <2>2. Append(SubSeq(c, o + 1, o + k), c[o + k + 1]) = SubSeq(c, o + 1, o + (k + 1))
    BY <1>2, <1>3, <1>4, NextBlock
  <2>3. o + (k + 1) <= Len(c)
    BY <1>2, <1>3, <1>4
  <2>4. QED
    BY <1>5, <1>7, <2>1, <2>2, <2>3
<1>11. (Version(op.fd))' = Version(op.fd)
  BY <1>6, <1>9 DEF Version
<1>12. Reading'
  BY <1>1, <1>6, <1>9, <1>10, <1>11 DEF ShareInv, Reading, Published
<1>13. QED
  BY <1>1, <1>8, <1>9, <1>12, ReadOpKeeps DEF Writing

\* What a read answers is a chunk of the content that its version stands for:
\* the version is still the file's, on Windows because the file is kept open.
LEMMA RereadKeeps == ASSUME ShareInv, Reread PROVE ShareInv'
<1>1. /\ op.pc = "read" /\ UNCHANGED <<platform, disk, root, changes, seen, litter, within>>
  BY DEF Reread
<1>2. op \in ReadOp /\ op.bytes \in Seq(Int) /\ op.fd \in Files /\ op.q.offset \in Nat
  BY <1>1 DEF ShareInv, OpTypes, ReadOp, Call
<1>3. CASE ~Unchanged
  BY <1>1, <1>3, NoBytes, DoneKeeps DEF Writing, Reread
<1>4. CASE Unchanged
  <2> DEFINE e == op.q.offset + Len(op.bytes) = op.rev[2]
             r == [ok |-> TRUE, offset |-> op.q.offset, bytes |-> op.bytes, version |-> op.rev,
                   eof |-> e]
  <2>1. Done(r)
    BY <1>4 DEF Reread
  <2>2. /\ op.rev = Version(op.fd) /\ Published(op.fd)
    BY <1>1, <1>4 DEF Unchanged, ShareInv, Reading, DiskTypes
  <2>3. /\ op.rev \in Files \X Nat \X Nat /\ op.rev[2] = Len(data[op.fd])
        /\ op.rev[3] = mtime[op.fd]
    BY <1>2, <2>2, VersionType DEF ShareInv
  <2>4. /\ op.q.offset + Len(op.bytes) <= Len(data[op.fd])
        /\ op.bytes = SubSeq(data[op.fd], op.q.offset + 1, op.q.offset + Len(op.bytes))
    BY <1>1, <2>3 DEF ShareInv, Reading
  <2>5. <<Version(op.fd), data[op.fd]>> \in seen
    BY <1>2, <2>2 DEF ShareInv, Contents
  <2>6. e \in BOOLEAN /\ (e => op.q.offset + Len(op.bytes) = Len(data[op.fd]))
    BY <2>3
  <2> HIDE DEF e
  <2>7. Holds(data[op.fd], r)
    BY <2>4, <2>6 DEF Holds
  <2>8. \E s \in seen : s[1] = r.version /\ Holds(s[2], r)
    <3>1. <<Version(op.fd), data[op.fd]>>[1] = r.version /\ <<Version(op.fd), data[op.fd]>>[2] = data[op.fd]
      BY <2>2
    <3> HIDE DEF r
    <3>2. QED
      BY <2>5, <2>7, <3>1
  <2>9. /\ r.offset \in Nat /\ r.bytes \in Seq(Int) /\ r.eof \in BOOLEAN
        /\ r.version \in Files \X Nat \X Nat
    BY <1>2, <2>3, <2>6
  <2> HIDE DEF r
  <2>10. IsAnswer(r)
    BY <2>8, <2>9 DEF IsAnswer
  <2>11. QED
    BY <1>1, <2>1, <2>10, DoneKeeps DEF Writing
<1>5. QED
  BY <1>3, <1>4

-----------------------------------------------------------------------------
(* Names and temporary files *)

\* Names change, the files do not: a name is given to published files only.
LEMMA NamesKeep ==
  ASSUME ShareInv, UNCHANGED <<data, mtime, synced, seen>>,
         \A f \in Files : IsNamed(f)' => IsNamed(f) \/ f \in File
  PROVE  Versions' /\ Contents'
<1>1. Versions'
  BY DEF ShareInv, Versions
<1>2. \A f \in Files : /\ Published(f)' = Published(f) /\ Version(f)' = Version(f)
                       /\ Ours(f)' = Ours(f)
  BY DEF Published, Version, Ours
<1>3. \A f \in Fresh : f \in Files /\ f \notin File
  BY NodeAssumption DEF Files
<1>4. Contents'
  <2>1. \A f \in File : f \in Files /\ Published(f)'
    BY <1>2 DEF ShareInv, Contents, Files
  <2>2. ASSUME NEW f \in Files, IsNamed(f)' PROVE Published(f)'
    BY <1>2, <2>1, <2>2 DEF ShareInv, Contents
  <2>3. ASSUME NEW f \in Files, Published(f)'
        PROVE  f \in synced' /\ <<Version(f)', data'[f]>> \in seen'
    BY <1>2, <2>3 DEF ShareInv, Contents
  <2>4. ASSUME NEW f \in Fresh, mtime'[f] = 0 PROVE data'[f] = <<>> /\ ~Published(f)'
    BY <1>2, <1>3, <2>4 DEF ShareInv, Contents
  <2>5. ASSUME NEW f \in Fresh, IsNamed(f)', Ours(f)' PROVE data'[f] = Payload
    BY <1>2, <1>3, <2>5 DEF ShareInv, Contents
  <2>6. QED
    BY <2>1, <2>2, <2>3, <2>4, <2>5 DEF Contents
<1>5. QED
  BY <1>1, <1>4

\* No request is under way that the disk matters to.
LEMMA NothingUnderWay ==
  ASSUME ShareInv, ~Writing, op'.pc \in {"idle", "done"}, UNCHANGED <<hidden, litter>>
  PROVE  OpTypes' /\ Walk' /\ Reading' /\ Temporary'
<1>1. OpTypes' /\ Walk' /\ Reading'
  BY DEF OpTypes, Walking, Writing, Walk, Reading
<1>2. Temporary'
  BY DEF ShareInv, Temporary, Writing
<1>3. QED
  BY <1>1, <1>2

\* The directory of a request that creates its last component.
LEMMA CreatesIn ==
  ASSUME ShareInv, op.pc = "walk", op.depth = Depth(op.q), Creates(op.q)
  PROVE  /\ op \in WalkOp /\ op.fd \in Dir /\ op.fd \in within /\ op.q.path # <<>>
         /\ LastName \in Name
<1>1. op \in WalkOp /\ op.q.path \in Path /\ op.q.path # <<>>
  BY DEF ShareInv, OpTypes, Walking, WalkOp, Call, Walk
<1>2. LastName \in Name
  BY <1>1, PathFacts DEF LastName
<1>3. op.fd \in Dir /\ op.fd \in within
  BY DEF ShareInv, Walk
<1>4. QED
  BY <1>1, <1>2, <1>3

LEMMA MkdirKeeps == ASSUME ShareInv, NEW d \in Dir, Mkdir(d) PROVE ShareInv'
<1>1. /\ op.pc = "walk" /\ op.depth = Depth(op.q) /\ op.q.op = "mkdir"
      /\ UNCHANGED <<platform, rootAt, hidden, data, mtime, synced, root, changes, seen, litter>>
  BY DEF Mkdir, Walked
<1>2. Creates(op.q) /\ ~Writing
  BY <1>1 DEF Creates, Writing
<1>3. op.fd \in Dir /\ op.fd \in within /\ LastName \in Name /\ Folder = op.fd
  BY <1>1, <1>2, CreatesIn, FolderIsOpen
<1>4. CASE ~Free(Folder, LastName)
  <2>1. UNCHANGED <<entry, within>> /\ Done(Failure)
    BY <1>4 DEF Mkdir
  <2>2. QED
    BY <1>1, <1>2, <2>1, NoBytes, DoneKeeps DEF disk
<1>5. CASE Free(Folder, LastName)
  <2>1. /\ \A e \in Dir, n \in Name : entry[e][n] # d /\ entry[d][n] = None
        /\ entry' = [entry EXCEPT ![op.fd][LastName] = d]
        /\ within' = within \cup {d}
        /\ Done([ok |-> TRUE])
    BY <1>3, <1>5 DEF Mkdir
  <2>2. entry \in [Dir -> [Name -> Node \cup {Link, None}]]
    BY DEF ShareInv, DiskTypes
  <2>3. \A e \in Dir, n \in Name : entry'[e][n] = entry[e][n] \/ entry'[e][n] = d
    BY <1>3, <2>1, <2>2
  <2>4. d \in Node /\ d \notin Files /\ None \notin Node
    BY NodeAssumption DEF Node, Files
  <2>5. DiskTypes'
    <3>1. entry' \in [Dir -> [Name -> Node \cup {Link, None}]]
      BY <1>3, <2>1, <2>2, <2>4
    <3>2. QED
      BY <1>1, <3>1 DEF ShareInv, DiskTypes
  <2>6. Closed'
    BY <1>1, <2>1, <2>3, <2>4 DEF ShareInv, Closed
  <2>7. Versions' /\ Contents'
    BY <1>1, <2>3, <2>4, NamesKeep DEF IsNamed
  <2>8. op'.pc = "done" /\ op'.result = [ok |-> TRUE]
    BY <2>1 DEF Done
  <2>9. OpTypes' /\ Walk' /\ Reading' /\ Temporary'
    BY <1>1, <1>2, <2>8, NothingUnderWay
  <2>10. Answers'
    <3>1. IsAnswer(op.result)'
      BY <2>8 DEF IsAnswer
    <3>2. QED
      BY <3>1 DEF Answers
  <2>11. QED
    BY <2>5, <2>6, <2>7, <2>9, <2>10 DEF ShareInv
<1>6. QED
  BY <1>4, <1>5

LEMMA CreateKeeps == ASSUME ShareInv, NEW f \in Fresh, Create(f) PROVE ShareInv'
<1>1. /\ op.pc = "walk" /\ op.depth = Depth(op.q) /\ op.q.op = "write" /\ mtime[f] = 0
      /\ hidden' = hidden \cup {<<Folder, f>>} /\ mtime' = [mtime EXCEPT ![f] = 1]
      /\ within' = within \cup {f}
      /\ op' = [pc |-> "write", q |-> op.q, fd |-> op.fd, pins |-> op.pins, tmp |-> f, done |-> FALSE]
      /\ UNCHANGED <<platform, rootAt, entry, data, synced, root, changes, seen, litter>>
  BY DEF Create, Walked, Goto
<1>2. Creates(op.q) /\ ~Writing
  BY <1>1 DEF Creates, Writing
<1>3. /\ op \in WalkOp /\ op.fd \in Dir /\ op.fd \in within /\ op.q.path # <<>>
      /\ Folder = op.fd
  BY <1>1, <1>2, CreatesIn, FolderIsOpen
<1>4. data[f] = <<>> /\ ~Published(f) /\ f \in Files /\ f \in Node /\ f \notin Dir
  BY <1>1, NodeAssumption DEF ShareInv, Contents, Files, Node
<1>5. mtime \in [Files -> Nat]
  BY DEF ShareInv, DiskTypes
<1>6. mtime'[f] = 1 /\ \A g \in Files : g # f => mtime'[g] = mtime[g]
  BY <1>1, <1>4, <1>5
<1>7. DiskTypes'
  <2>1. mtime' \in [Files -> Nat]
    BY <1>1, <1>5
  <2>2. hidden' \in SUBSET (Dir \X Fresh)
    BY <1>1, <1>3 DEF ShareInv, DiskTypes
  <2>3. QED
    BY <1>1, <2>1, <2>2 DEF ShareInv, DiskTypes
<1>8. Closed'
  BY <1>1, <1>4 DEF ShareInv, Closed
<1>9. Versions'
  <2>1. ASSUME NEW s \in seen
        PROVE  \E g \in Files, c \in Seq(Int), m \in Nat :
                 s = << <<g, Len(c), m>>, c >> /\ m <= mtime'[g]
    <3>1. PICK g \in Files, c \in Seq(Int), m \in Nat : s = << <<g, Len(c), m>>, c >> /\ m <= mtime[g]
      BY DEF ShareInv, Versions
    <3>2. g # f
      BY <1>4, <3>1 DEF Published
    <3>3. QED
      BY <1>6, <3>1, <3>2
  <2>2. QED
    BY <1>1, <2>1 DEF ShareInv, Versions
<1>10. Contents'
  <2>1. \A g \in Files : /\ Published(g)' = Published(g) /\ IsNamed(g)' = IsNamed(g)
                         /\ Ours(g)' = Ours(g)
    BY <1>1 DEF Published, IsNamed, Ours
  <2>2. \A g \in Files : g # f => Version(g)' = Version(g)
    BY <1>1, <1>6 DEF Version
  <2>3. mtime'[f] # 0
    BY <1>6
  <2>4. \A g \in Fresh : g \in Files
    BY DEF Files
  <2>5. \A g \in Fresh : mtime'[g] = 0 => mtime[g] = 0
    BY <1>6, <2>3, <2>4
  <2>6. QED
    BY <1>1, <1>4, <2>1, <2>2, <2>4, <2>5 DEF ShareInv, Contents, Files
<1>11. /\ op'.pc = "write" /\ op'.q = op.q /\ op'.fd = op.fd /\ op'.tmp = f
       /\ op' \in WriteOp /\ op'.pins = op.pins
  BY <1>1, <1>3 DEF WriteOp, WalkOp
<1>12. OpTypes' /\ Walk' /\ Reading' /\ Answers'
  BY <1>3, <1>11 DEF OpTypes, Walking, Writing, Walk, Reading, Answers
<1>13. Temporary'
  <2>1. Len(<<>>) <= Len(Payload) /\ <<>> = SubSeq(Payload, 1, Len(<<>>))
    BY PayloadAssumption, SubSeqEmpty
  <2>2. mtime'[f] # 0
    BY <1>6
  <2>3. Published(f)' = Published(f)
    BY <1>1 DEF Published
  <2>4. Writing' /\ op'.pc # "link"
    BY <1>11 DEF Writing
  <2>5. \A t \in hidden : t[2] \in litter
    BY <1>2 DEF ShareInv, Temporary
  <2>6. (Writing => op.fd \in within /\ op.tmp \in within /\ mtime[op.tmp] # 0)'
    BY <1>1, <1>3, <1>11, <2>2
  <2>7. (~Published(op.tmp))'
    BY <1>4, <1>11, <2>3 DEF Published
  <2>8. (Len(data[op.tmp]) <= Len(Payload) /\ data[op.tmp] = SubSeq(Payload, 1, Len(data[op.tmp])))'
    BY <1>1, <1>4, <1>11, <2>1
  <2>9. (\A t \in hidden : t[2] \in litter \/ (Writing /\ t = <<op.fd, op.tmp>>))'
    BY <1>1, <1>3, <1>11, <2>4, <2>5
  <2>10. (Creates(op.q) /\ InPlace(Depth(op.q)))'
    <3>1. InPlace(Depth(op.q))
      BY <1>1 DEF ShareInv, Walk
    <3>2. QED
      BY <1>1, <1>2, <1>11, <3>1 DEF Creates, Depth, InPlace, Absolute, At
  <2>11. QED
    BY <2>4, <2>6, <2>7, <2>8, <2>9, <2>10 DEF Temporary
<1>14. QED
  BY <1>7, <1>8, <1>9, <1>10, <1>12, <1>13 DEF ShareInv

\* The parts of a path that is pinned stay in their place.
LEMMA FolderKept ==
  ASSUME ShareInv, Writing, UNCHANGED <<platform, root>>,
         op'.q = op.q, op'.fd = op.fd, op'.pins = op.pins,
         platform = "windows" =>
           /\ rootAt' = rootAt
           /\ \A d \in Dir, n \in Name : entry[d][n] \in op.pins => entry'[d][n] = entry[d][n]
  PROVE  (Creates(op.q) /\ InPlace(Depth(op.q)))'
<1>1. op.q.path \in Path /\ op.q.path # <<>> /\ Creates(op.q) /\ InPlace(Depth(op.q))
  BY DEF ShareInv, OpTypes, WriteOp, Call, Temporary
<1>2. PICK k \in {0, 1} : k = Depth(op.q) /\ k <= Len(op.q.path)
  <2>1. PICK l \in {1, 2} : Len(op.q.path) = l
    BY <1>1, PathFacts
  <2>2. l - 1 \in {0, 1} /\ l - 1 <= l
    OBVIOUS
  <2>3. Depth(op.q) = l - 1
    BY <1>1, <2>1 DEF Depth
  <2>4. QED
    BY <2>1, <2>2, <2>3
<1>3. InPlace(k)'
  BY <1>1, <1>2, InPlaceKept DEF ShareInv
<1>4. op'.q = op.q /\ Creates(op'.q) /\ Depth(op'.q) = k
  BY <1>1, <1>2
<1>5. (Creates(op.q))' /\ (Depth(op.q))' = k
  BY <1>4 DEF Creates, Depth
<1>6. QED
  BY <1>3, <1>5 DEF InPlace

\* The parts of the invariant that a write of a temporary file f leaves alone:
\* nobody has seen f.
LEMMA UnseenKeeps ==
  ASSUME ShareInv, NEW f \in Fresh, ~Published(f), mtime[f] # 0,
         \A g \in Files : g # f => data'[g] = data[g],
         data' \in [Files -> Seq(Int)], synced \subseteq synced', synced' \in SUBSET Files,
         UNCHANGED <<platform, rootAt, entry, hidden, mtime, root, changes, seen, litter, within>>
  PROVE  DiskTypes' /\ Closed' /\ Versions' /\ Contents'
<1>1. DiskTypes'
  BY DEF ShareInv, DiskTypes
<1>2. Closed' /\ Versions'
  BY DEF ShareInv, Closed, Versions
<1>3. \A g \in Files : Published(g)' = Published(g) /\ IsNamed(g)' = IsNamed(g)
  BY DEF Published, IsNamed
<1>4. \A g \in Files : g # f => Version(g)' = Version(g) /\ Ours(g)' = Ours(g)
  BY DEF Version, Ours
<1>5. f \in Files /\ ~IsNamed(f) /\ \A g \in Fresh : g \in Files
  BY DEF ShareInv, Contents, Files
<1>6. Contents'
  <2>1. \A g \in File : g \in Files /\ Published(g)'
    BY <1>3 DEF ShareInv, Contents, Files
  <2>2. ASSUME NEW g \in Files, IsNamed(g)' PROVE Published(g)'
    BY <1>3, <2>2 DEF ShareInv, Contents
  <2>3. ASSUME NEW g \in Files, Published(g)'
        PROVE  g \in synced' /\ <<Version(g)', data'[g]>> \in seen'
    <3>1. Published(g) /\ g # f
      BY <1>3, <2>3
    <3>2. QED
      BY <1>4, <3>1 DEF ShareInv, Contents
  <2>4. ASSUME NEW g \in Fresh, mtime'[g] = 0 PROVE data'[g] = <<>> /\ ~Published(g)'
    BY <1>3, <1>5, <2>4 DEF ShareInv, Contents
  <2>5. ASSUME NEW g \in Fresh, IsNamed(g)', Ours(g)' PROVE data'[g] = Payload
    <3>1. IsNamed(g) /\ g # f /\ g \in Files
      BY <1>3, <1>5, <2>5
    <3>2. QED
      BY <1>4, <2>5, <3>1 DEF ShareInv, Contents
  <2>6. QED
    BY <2>1, <2>2, <2>3, <2>4, <2>5 DEF Contents
<1>7. QED
  BY <1>1, <1>2, <1>6

LEMMA WriteKeeps == ASSUME ShareInv, NEW n \in 1..Len(Payload), Write(n) PROVE ShareInv'
<1> DEFINE f == op.tmp
           k == Len(data[f]) + n
<1>1. /\ op.pc = "write" /\ k <= Len(Payload)
      /\ data' = [data EXCEPT ![f] = SubSeq(Payload, 1, k)]
      /\ UNCHANGED <<platform, rootAt, entry, hidden, mtime, synced, root, op, changes, seen, litter, within>>
  BY DEF Write
<1>2. Writing /\ op \in WriteOp /\ f \in Fresh /\ f \in Files
  BY <1>1 DEF ShareInv, OpTypes, Writing, WriteOp, Files
<1>3. data \in [Files -> Seq(Int)] /\ data[f] \in Seq(Int)
  BY <1>2 DEF ShareInv, DiskTypes
<1>4. k \in Nat
  BY <1>3
<1>5. SubSeq(Payload, 1, k) \in Seq(Int) /\ Len(SubSeq(Payload, 1, k)) = k
  BY <1>1, <1>4, PayloadAssumption
<1>6. ~Published(f) /\ mtime[f] # 0
  BY <1>1, <1>2 DEF ShareInv, Temporary
<1> HIDE DEF f, k
<1>7. data' \in [Files -> Seq(Int)] /\ \A g \in Files : g # f => data'[g] = data[g]
  BY <1>1, <1>3, <1>5
<1>8. synced \subseteq synced' /\ synced' \in SUBSET Files
  BY <1>1 DEF ShareInv, DiskTypes
<1>9. DiskTypes' /\ Closed' /\ Versions' /\ Contents'
  BY <1>1, <1>2, <1>6, <1>7, <1>8, UnseenKeeps
<1>10. OpTypes' /\ Walk' /\ Reading' /\ Answers'
  BY <1>1, <1>2 DEF ShareInv, OpTypes, Walking, Writing, Walk, Reading, Answers
<1>11. Temporary'
  <2>1. data'[f] = SubSeq(Payload, 1, k)
    BY <1>1, <1>2, <1>3
  <2>2. (Len(data[op.tmp]) <= Len(Payload) /\ data[op.tmp] = SubSeq(Payload, 1, Len(data[op.tmp])))'
    BY <1>1, <1>5, <2>1 DEF f
  <2>3. UNCHANGED <<op, within, mtime, seen, hidden, litter>>
    BY <1>1
  <2>4. (Writing => op.fd \in within /\ op.tmp \in within /\ mtime[op.tmp] # 0)'
    BY <2>3 DEF ShareInv, Temporary, Writing
  <2>5. (~Published(op.tmp))' /\ (op.pc # "link")'
    BY <1>1, <1>6, <2>3 DEF Published, f
  <2>6. (\A t \in hidden : t[2] \in litter \/ (Writing /\ t = <<op.fd, op.tmp>>))'
    BY <2>3 DEF ShareInv, Temporary, Writing
  <2>7. (Creates(op.q) /\ InPlace(Depth(op.q)))'
    BY <1>1, <1>2, FolderKept
  <2>8. QED
    BY <2>2, <2>4, <2>5, <2>6, <2>7 DEF Temporary
<1>12. QED
  BY <1>9, <1>10, <1>11 DEF ShareInv

LEMMA SyncKeeps == ASSUME ShareInv, Sync PROVE ShareInv'
<1> DEFINE f == op.tmp
<1>1. /\ op.pc = "write" /\ Len(data[f]) = Len(Payload) /\ synced' = synced \cup {f}
      /\ op' = [op EXCEPT !.pc = "link"]
      /\ UNCHANGED <<platform, rootAt, entry, hidden, data, mtime, root, changes, seen, litter, within>>
  BY DEF Sync, Written, SyncedAfter, Goto
<1>2. Writing /\ op \in WriteOp /\ f \in Fresh /\ f \in Files /\ op.q.path # <<>>
  BY <1>1 DEF ShareInv, OpTypes, Writing, WriteOp, Files
<1>3. data[f] = Payload
  <2>1. data[f] = SubSeq(Payload, 1, Len(Payload))
    BY <1>1 DEF ShareInv, Temporary
  <2>2. QED
    BY <2>1, PayloadAssumption, SubSeqFull
<1>4. ~Published(f) /\ mtime[f] # 0
  BY <1>1, <1>2 DEF ShareInv, Temporary
<1>5. data' \in [Files -> Seq(Int)] /\ \A g \in Files : g # f => data'[g] = data[g]
  BY <1>1 DEF ShareInv, DiskTypes
<1>6. synced \subseteq synced' /\ synced' \in SUBSET Files
  BY <1>1, <1>2 DEF ShareInv, DiskTypes
<1>7. DiskTypes' /\ Closed' /\ Versions' /\ Contents'
  BY <1>1, <1>2, <1>4, <1>5, <1>6, UnseenKeeps
<1>8. /\ op' \in WriteOp /\ op'.pc = "link" /\ op'.tmp = op.tmp /\ op'.fd = op.fd /\ op'.q = op.q
      /\ op'.pins = op.pins
  BY <1>1, <1>2 DEF WriteOp
<1>9. OpTypes' /\ Walk' /\ Reading' /\ Answers'
  BY <1>2, <1>8 DEF OpTypes, Walking, Writing, Walk, Reading, Answers
<1>10. Temporary'
  <2>1. (Creates(op.q) /\ InPlace(Depth(op.q)))'
    BY <1>1, <1>2, <1>8, FolderKept
  <2>2. QED
    BY <1>1, <1>2, <1>3, <1>4, <1>8, <2>1 DEF ShareInv, Temporary, Writing, Published
<1>11. QED
  BY <1>7, <1>9, <1>10 DEF ShareInv

\* The file gets its name, if that is free: the first time that others can see
\* it, with all of its blocks, forced to the disk.
LEMMA PublishKeeps == ASSUME ShareInv, Publish PROVE ShareInv'
<1> DEFINE f == op.tmp
           x == <<Version(f), data[f]>>
           b == NameFree
<1>1. /\ op.pc = "link"
      /\ entry' = IF b THEN [entry EXCEPT ![op.fd][LastName] = f] ELSE entry
      /\ op' = [op EXCEPT !.pc = "unlink", !.done = b]
      /\ seen' = seen \cup {x}
      /\ UNCHANGED <<platform, rootAt, hidden, data, mtime, synced, root, changes, litter, within>>
  BY FolderIsOpen DEF Publish, Goto, Writing
<1>2. Writing /\ op \in WriteOp /\ f \in Fresh /\ f \in Files /\ f \in Node /\ op.fd \in Dir
  BY <1>1 DEF ShareInv, OpTypes, Writing, WriteOp, Files, Node
<1>3. op.q.path # <<>> /\ LastName \in Name
  <2>1. op.q.path \in Path /\ op.q.path # <<>>
    BY <1>2 DEF ShareInv, OpTypes, WriteOp, Call
  <2>2. QED
    BY <2>1, PathFacts DEF LastName
<1>4. ~Published(f) /\ mtime[f] # 0 /\ f \in within /\ data[f] = Payload /\ f \in synced
  BY <1>1, <1>2 DEF ShareInv, Temporary
<1>5. data[f] \in Seq(Int) /\ mtime[f] \in Nat /\ entry \in [Dir -> [Name -> Node \cup {Link, None}]]
  BY <1>2 DEF ShareInv, DiskTypes
<1>6. x = << <<f, Len(data[f]), mtime[f]>>, data[f] >> /\ x[1] = Version(f) /\ x[2] = data[f] /\ x[1][1] = f
  BY DEF Version
<1>7. \A d \in Dir, n \in Name : entry'[d][n] = entry[d][n] \/ entry'[d][n] = f
  BY <1>1, <1>2, <1>3, <1>5
<1>8. b \in BOOLEAN /\ (b => entry[op.fd][LastName] = None)
  BY <1>1, FolderIsOpen DEF NameFree, Free, At, Writing
<1> HIDE DEF f, x, b
<1>9. DiskTypes'
  <2>1. entry' \in [Dir -> [Name -> Node \cup {Link, None}]]
    BY <1>1, <1>2, <1>3, <1>5
  <2>2. QED
    BY <1>1, <2>1 DEF ShareInv, DiskTypes
<1>10. Closed'
  BY <1>1, <1>4, <1>7 DEF ShareInv, Closed
<1>11. Versions'
  <2>1. \A s \in seen' : \E g \in Files, c \in Seq(Int), m \in Nat :
          s = << <<g, Len(c), m>>, c >> /\ m <= mtime[g]
    <3>1. mtime[f] <= mtime[f]
      BY <1>5
    <3>2. QED
      BY <1>1, <1>2, <1>5, <1>6, <3>1 DEF ShareInv, Versions
  <2>2. \A s \in seen : s[1] # x[1]
    BY <1>4, <1>6 DEF Published
  <2>3. \A s, t \in seen' : s[1] = t[1] => s[2] = t[2]
    BY <1>1, <2>2 DEF ShareInv, Versions
  <2>4. QED
    BY <1>1, <2>1, <2>3 DEF Versions
<1>12. Contents'
  <2>1. \A g \in Files : /\ Published(g)' => Published(g) \/ g = f
                         /\ Published(g) => Published(g)'
                         /\ IsNamed(g)' => IsNamed(g) \/ g = f
    BY <1>1, <1>6, <1>7 DEF Published, IsNamed
  <2>2. \A g \in Files : g = f => Published(g)'
    BY <1>1, <1>6 DEF Published
  <2>3. \A g \in Files : Version(g)' = Version(g) /\ Ours(g)' = Ours(g)
    BY <1>1 DEF Version, Ours
  <2>4. \A g \in Fresh : g \in Files
    BY DEF Files
  <2>5. \A g \in File : g \in Files /\ Published(g)'
    BY <2>1 DEF ShareInv, Contents, Files
  <2>6. ASSUME NEW g \in Files, IsNamed(g)' PROVE Published(g)'
    BY <2>1, <2>2, <2>6 DEF ShareInv, Contents
  <2>7. ASSUME NEW g \in Files, Published(g)'
        PROVE  g \in synced' /\ <<Version(g)', data'[g]>> \in seen'
    <3>1. CASE g = f
      BY <1>1, <1>4, <2>3, <3>1 DEF x
    <3>2. CASE g # f
      BY <1>1, <2>1, <2>3, <2>7, <3>2 DEF ShareInv, Contents
    <3>3. QED
      BY <3>1, <3>2
  <2>8. ASSUME NEW g \in Fresh, mtime'[g] = 0 PROVE data'[g] = <<>> /\ ~Published(g)'
    BY <1>1, <1>4, <2>1, <2>4, <2>8 DEF ShareInv, Contents
  <2>9. ASSUME NEW g \in Fresh, IsNamed(g)', Ours(g)' PROVE data'[g] = Payload
    BY <1>1, <1>4, <2>1, <2>3, <2>4, <2>9 DEF ShareInv, Contents
  <2>10. QED
    BY <2>5, <2>6, <2>7, <2>8, <2>9 DEF Contents
<1>13. /\ op' \in WriteOp /\ op'.pc = "unlink" /\ op'.tmp = op.tmp /\ op'.fd = op.fd /\ op'.q = op.q
       /\ op'.pins = op.pins
  BY <1>1, <1>2, <1>8 DEF WriteOp
<1>14. OpTypes' /\ Walk' /\ Reading' /\ Answers'
  BY <1>3, <1>13 DEF OpTypes, Walking, Writing, Walk, Reading, Answers
<1>15. Temporary'
  <2>1. \A d \in Dir, n \in Name : entry[d][n] \in op.pins => entry'[d][n] = entry[d][n]
    <3>1. None \notin op.pins
      BY <1>2, NodeAssumption DEF WriteOp
    <3>2. QED
      BY <1>1, <1>2, <1>3, <1>5, <1>8, <3>1
  <2>2. (Creates(op.q) /\ InPlace(Depth(op.q)))'
    BY <1>1, <1>2, <1>13, <2>1, FolderKept
  <2>3. QED
    BY <1>1, <1>2, <1>13, <2>2 DEF ShareInv, Temporary, Writing
<1>16. QED
  BY <1>9, <1>10, <1>11, <1>12, <1>14, <1>15 DEF ShareInv

LEMMA ChangeType == ASSUME DiskTypes, Change PROVE changes' \in 0..MaxChanges /\ changes + 1 \in 1..MaxChanges
  BY PayloadAssumption DEF DiskTypes, Change

LEMMA UnlinkKeeps == ASSUME ShareInv, Unlink PROVE ShareInv'
<1>1. /\ op.pc = "unlink" /\ Done([ok |-> op.done])
      /\ \/ hidden' = hidden \ {<<op.fd, op.tmp>>} /\ litter' = litter
         \/ litter' = litter \cup {op.tmp} /\ hidden' = hidden
      /\ Change \/ changes' = changes
      /\ UNCHANGED <<platform, rootAt, entry, data, mtime, synced, root, seen, within>>
  BY FolderIsOpen DEF Unlink, Writing
<1>2. DiskTypes' /\ Closed'
  <2>1. changes' \in 0..MaxChanges
    BY <1>1, ChangeType DEF ShareInv, DiskTypes
  <2>2. QED
    BY <1>1, <2>1 DEF ShareInv, DiskTypes, Closed
<1>3. Versions' /\ Contents'
  BY <1>1, NamesKeep DEF IsNamed
<1>4. op'.pc = "done" /\ op'.result = [ok |-> op.done]
  BY <1>1 DEF Done
<1>5. OpTypes' /\ Walk' /\ Reading'
  BY <1>4 DEF OpTypes, Walking, Writing, Walk, Reading
<1>6. Temporary'
  <2>1. \A t \in hidden : t[2] \in litter \/ t = <<op.fd, op.tmp>>
    BY DEF ShareInv, Temporary
  <2>2. \A t \in hidden' : t[2] \in litter'
    BY <1>1, <2>1
  <2>3. QED
    BY <1>4, <2>2 DEF Temporary, Writing
<1>7. Answers'
  BY <1>4 DEF Answers, IsAnswer
<1>8. QED
  BY <1>2, <1>3, <1>5, <1>6, <1>7 DEF ShareInv

LEMMA FailKeeps == ASSUME ShareInv, Fail PROVE ShareInv'
<1>1. UNCHANGED <<platform, disk, root, changes, seen, litter, within>>
  BY DEF Fail
<1>2. CASE op.pc \in {"root", "walk", "read"} /\ Done(Failure)
  BY <1>1, <1>2, NoBytes, DoneKeeps DEF Writing
<1>3. CASE op.pc \in {"write", "link"} /\ op' = [op EXCEPT !.pc = "unlink"]
  <2>1. op \in WriteOp /\ Writing /\ op.q.path # <<>>
    BY <1>3 DEF ShareInv, OpTypes, Writing
  <2>2. /\ op' \in WriteOp /\ op'.pc = "unlink" /\ op'.tmp = op.tmp /\ op'.fd = op.fd /\ op'.q = op.q
        /\ op'.pins = op.pins
    BY <1>3, <2>1 DEF WriteOp
  <2>3. OpTypes' /\ Walk' /\ Reading' /\ Answers'
    BY <2>1, <2>2 DEF OpTypes, Walking, Writing, Walk, Reading, Answers
  <2>4. Temporary'
    <3>1. (Creates(op.q) /\ InPlace(Depth(op.q)))'
      BY <1>1, <2>1, <2>2, FolderKept DEF disk
    <3>2. QED
      BY <1>1, <2>1, <2>2, <3>1 DEF ShareInv, Temporary, Writing, disk
  <2>5. QED
    BY <1>1, <2>3, <2>4, OnlyOp
<1>4. QED
  BY <1>2, <1>3 DEF Fail, Goto

LEMMA ShareStepKeeps == ASSUME ShareInv, ShareStep PROVE ShareInv'
<1>1. ASSUME NEW d \in Dir, Mkdir(d) PROVE ShareInv'
  BY <1>1, MkdirKeeps
<1>2. ASSUME NEW f \in Fresh, Create(f) PROVE ShareInv'
  BY <1>2, CreateKeeps
<1>3. ASSUME NEW n \in 1..Len(Payload), Write(n) PROVE ShareInv'
  BY <1>3, WriteKeeps
<1>4. QED
  BY <1>1, <1>2, <1>3, OpenRootKeeps, OpenKeeps, ListKeeps, StatKeeps, RevisionKeeps, ReadKeeps,
     RereadKeeps, SyncKeeps, PublishKeeps, UnlinkKeeps, FailKeeps DEF ShareStep

-----------------------------------------------------------------------------
(* Other programs *)

\* A request that the share has under way, with its own files as they were.
LEMMA RequestKept ==
  ASSUME ShareInv, UNCHANGED <<platform, op, root, hidden, data, mtime, synced, seen, litter>>,
         within \subseteq within',
         op.pc = "walk" \/ Writing =>
           (platform = "windows" =>
              /\ rootAt' = rootAt
              /\ \A d \in Dir, n \in Name : entry[d][n] \in op.pins => entry'[d][n] = entry[d][n])
  PROVE  OpTypes' /\ Walk' /\ Reading' /\ Temporary' /\ Answers'
<1>1. OpTypes'
  BY DEF ShareInv, OpTypes, Walking, Writing
<1>2. Walk'
  <2>1. ASSUME op.pc = "walk"
        PROVE  /\ op.fd \in within' /\ root \in Dir
               /\ op.depth < Len(op.q.path) \/ op.depth = 0 => op.fd \in Dir
               /\ op.fd \in Files => Published(op.fd)
               /\ Creates(op.q) => op.depth < Len(op.q.path)
               /\ op.depth <= Len(op.q.path)
               /\ (InPlace(op.depth))'
    <3>1. PICK k \in {0, 1, 2} : k = op.depth
      BY <2>1 DEF ShareInv, OpTypes, Walking, WalkOp
    <3>2. op.q.path \in Path /\ k <= Len(op.q.path) /\ InPlace(k)
      BY <2>1, <3>1 DEF ShareInv, OpTypes, Walking, WalkOp, Call, Walk
    <3>3. InPlace(k)'
      BY <2>1, <3>2, InPlaceKept DEF ShareInv
    <3>4. (InPlace(op.depth))'
      BY <3>1, <3>3 DEF InPlace
    <3>5. QED
      BY <2>1, <3>4 DEF ShareInv, Walk
  <2>2. (Published(op.fd))' = Published(op.fd)
    BY DEF Published
  <2>3. QED
    BY <2>1, <2>2 DEF ShareInv, Walk, Walking, Creates
<1>3. Reading'
  BY DEF ShareInv, Reading, Published, Version
<1>4. Temporary'
  <2>1. Writing => (Creates(op.q) /\ InPlace(Depth(op.q)))'
    BY FolderKept
  <2>2. QED
    BY <2>1 DEF ShareInv, Temporary, Writing, Published
<1>5. Answers'
  BY DEF ShareInv, Answers, IsAnswer, Holds
<1>6. QED
  BY <1>1, <1>2, <1>3, <1>4, <1>5

LEMMA PutKeeps ==
  ASSUME ShareInv, NEW d \in Dir, NEW n \in Name, NEW x \in File \cup {Link, None}, Put(d, n, x)
  PROVE  ShareInv'
<1>1. /\ d \in within /\ entry[d][n] \notin Pinned
      /\ entry' = [entry EXCEPT ![d][n] = x] /\ within' = within \cup ({x} \cap Node)
      /\ UNCHANGED <<platform, rootAt, hidden, data, mtime, synced, root, op, seen, litter>>
  BY DEF Put
<1>2. entry \in [Dir -> [Name -> Node \cup {Link, None}]]
  BY DEF ShareInv, DiskTypes
<1>3. \A e \in Dir, m \in Name : entry'[e][m] = IF e = d /\ m = n THEN x ELSE entry[e][m]
  BY <1>1, <1>2
<1>4. DiskTypes'
  <2>1. entry' \in [Dir -> [Name -> Node \cup {Link, None}]]
    BY <1>1, <1>2 DEF Node
  <2>2. changes' \in 0..MaxChanges
    BY ChangeType DEF Put, ShareInv
  <2>3. QED
    BY <1>1, <2>1, <2>2 DEF ShareInv, DiskTypes
<1>5. Closed'
  <2>1. within' \subseteq Node /\ (root' # None => root' \in within')
    BY <1>1 DEF ShareInv, Closed
  <2>2. ASSUME NEW e \in within' \cap Dir, NEW m \in Name, entry'[e][m] \in Node
        PROVE  entry'[e][m] \in within'
    <3>1. e \in within
      BY <1>1, NodeAssumption DEF Node
    <3>2. QED
      BY <1>1, <1>3, <2>2, <3>1 DEF ShareInv, Closed
  <2>3. QED
    BY <2>1, <2>2 DEF Closed
<1>6. Versions' /\ Contents'
  <2>1. \A f \in Files : IsNamed(f)' => IsNamed(f) \/ f \in File
    BY <1>3, NodeAssumption DEF IsNamed, Files, Node
  <2>2. QED
    BY <1>1, <2>1, NamesKeep
<1>7. ASSUME op.pc = "walk" \/ Writing, NEW e \in Dir, NEW m \in Name, entry[e][m] \in op.pins
      PROVE  entry'[e][m] = entry[e][m]
  BY <1>1, <1>3, <1>7 DEF Pinned, Writing
<1>8. OpTypes' /\ Walk' /\ Reading' /\ Temporary' /\ Answers'
  BY <1>1, <1>7, RequestKept
<1>9. QED
  BY <1>4, <1>5, <1>6, <1>8 DEF ShareInv

LEMMA SwapRootKeeps ==
  ASSUME ShareInv, NEW x \in {Base, Target, Link}, SwapRoot(x)
  PROVE  ShareInv'
<1>1. /\ rootAt \notin Pinned /\ rootAt' = x
      /\ UNCHANGED <<platform, entry, hidden, data, mtime, synced, root, op, seen, litter, within>>
  BY DEF SwapRoot
<1>2. DiskTypes'
  <2>1. changes' \in 0..MaxChanges
    BY ChangeType DEF SwapRoot, ShareInv
  <2>2. QED
    BY <1>1, <2>1, NodeAssumption DEF ShareInv, DiskTypes
<1>3. Closed'
  BY <1>1 DEF ShareInv, Closed
<1>4. Versions' /\ Contents'
  BY <1>1, NamesKeep DEF IsNamed
<1>5. ~((op.pc = "walk" \/ Writing) /\ platform = "windows")
  BY <1>1 DEF ShareInv, Walk, Temporary, InPlace, Pinned, Writing
<1>6. OpTypes' /\ Walk' /\ Reading' /\ Temporary' /\ Answers'
  BY <1>1, <1>5, RequestKept
<1>7. QED
  BY <1>2, <1>3, <1>4, <1>6 DEF ShareInv

LEMMA ModifiedFacts ==
  ASSUME NEW s \in Seq(Int), NEW k \in Int, NEW u \in Modified(s, k)
  PROVE  u \in Seq(Int) /\ \E i \in DOMAIN u : u[i] = k
<1>1. CASE u = <<k>>
  BY <1>1
<1>2. ASSUME NEW i \in DOMAIN s, u = [s EXCEPT ![i] = k]
      PROVE  u \in Seq(Int) /\ i \in DOMAIN u /\ u[i] = k
  <2>1. Len(s) \in Nat /\ DOMAIN s = 1..Len(s) /\ s \in [1..Len(s) -> Int]
    BY LenProperties
  <2>2. u \in [1..Len(s) -> Int] /\ i \in DOMAIN u /\ u[i] = k
    BY <1>2, <2>1
  <2>3. u \in Seq(Int)
    BY <2>1, <2>2, SeqDef
  <2>4. QED
    BY <2>2, <2>3
<1>3. QED
  BY <1>1, <1>2 DEF Modified

\* Another program writes a file: it has a new version, no temporary file is
\* touched, and a read that has it open will see the change.
LEMMA ModifyKeeps == ASSUME ShareInv, NEW f \in Files, Modify(f) PROVE ShareInv'
<1>1. PICK u \in Modified(data[f], changes + 1) :
        /\ data' = [data EXCEPT ![f] = u]
        /\ seen' = seen \cup {<< <<f, Len(u), mtime[f] + 1>>, u >>}
  BY DEF Modify
<1>2. /\ f \notin Pinned /\ IsNamed(f) /\ mtime' = [mtime EXCEPT ![f] = @ + 1]
      /\ UNCHANGED <<platform, rootAt, entry, hidden, synced, root, op, litter, within>>
  BY DEF Modify, IsNamed
<1>3. changes' \in 0..MaxChanges /\ changes + 1 \in 1..MaxChanges
  BY ChangeType DEF Modify, ShareInv
<1>4. data \in [Files -> Seq(Int)] /\ mtime \in [Files -> Nat] /\ mtime[f] \in Nat /\ data[f] \in Seq(Int)
  BY DEF ShareInv, DiskTypes
<1>5. u \in Seq(Int) /\ \E i \in DOMAIN u : u[i] = changes + 1
  <2>1. changes + 1 \in Int
    BY <1>3
  <2>2. QED
    BY <1>1, <1>4, <2>1, ModifiedFacts
<1> DEFINE m == mtime[f] + 1
           v == <<f, Len(u), m>>
           x == <<v, u>>
<1>6. m \in Nat /\ m # 0 /\ m > mtime[f]
  BY <1>4
<1>7. /\ data'[f] = u /\ mtime'[f] = m
      /\ \A g \in Files : g # f => data'[g] = data[g] /\ mtime'[g] = mtime[g]
  BY <1>1, <1>2, <1>4
<1>8. x[1] = v /\ x[2] = u /\ v[1] = f /\ v[3] = m /\ seen' = seen \cup {x}
  BY <1>1
<1>9. \A s \in seen : s[1] # v
  <2>1. ASSUME NEW s \in seen, s[1] = v PROVE FALSE
    <3>1. PICK g \in Files, c \in Seq(Int), k \in Nat : s = << <<g, Len(c), k>>, c >> /\ k <= mtime[g]
      BY DEF ShareInv, Versions
    <3>2. g = f /\ k = m
      BY <2>1, <3>1
    <3>3. QED
      BY <1>4, <1>6, <3>1, <3>2
  <2>2. QED
    BY <2>1
<1>10. x = << <<f, Len(u), m>>, u >>
  OBVIOUS
<1>11. (Version(f))' = v /\ \A g \in Files : g # f => Version(g)' = Version(g)
  BY <1>7 DEF Version
<1> HIDE DEF m, v, x
<1>12. \A g \in Files : Published(g)' = Published(g)
  <2>1. Published(f)
    BY <1>2 DEF ShareInv, Contents
  <2>2. QED
    BY <1>8, <2>1 DEF Published
<1>13. DiskTypes'
  <2>1. data' \in [Files -> Seq(Int)]
    BY <1>1, <1>4, <1>5
  <2>2. mtime' \in [Files -> Nat]
    BY <1>2, <1>4
  <2>3. QED
    BY <1>2, <1>3, <2>1, <2>2 DEF ShareInv, DiskTypes
<1>14. Closed'
  BY <1>2 DEF ShareInv, Closed
<1>15. Versions'
  <2>1. ASSUME NEW s \in seen'
        PROVE  \E g \in Files, c \in Seq(Int), k \in Nat :
                 s = << <<g, Len(c), k>>, c >> /\ k <= mtime'[g]
    <3>1. CASE s = x
      <4>1. m <= mtime'[f]
        BY <1>6, <1>7
      <4>2. QED
        BY <1>5, <1>6, <1>10, <3>1, <4>1
    <3>2. CASE s \in seen
      <4>1. PICK g \in Files, c \in Seq(Int), k \in Nat : s = << <<g, Len(c), k>>, c >> /\ k <= mtime[g]
        BY <3>2 DEF ShareInv, Versions
      <4>2. k <= mtime'[g]
        <5>1. CASE g = f
          BY <1>4, <1>6, <1>7, <4>1, <5>1
        <5>2. CASE g # f
          BY <1>7, <4>1, <5>2
        <5>3. QED
          BY <5>1, <5>2
      <4>3. QED
        BY <4>1, <4>2
    <3>3. QED
      BY <1>8, <3>1, <3>2
  <2>2. \A s, t \in seen' : s[1] = t[1] => s[2] = t[2]
    BY <1>8, <1>9 DEF ShareInv, Versions
  <2>3. QED
    BY <2>1, <2>2 DEF Versions
<1>16. Contents'
  <2>1. \A g \in Files : IsNamed(g)' = IsNamed(g)
    BY <1>2 DEF IsNamed
  <2>2. \A g \in File : g \in Files /\ Published(g)'
    BY <1>12 DEF ShareInv, Contents, Files
  <2>3. ASSUME NEW g \in Files, IsNamed(g)' PROVE Published(g)'
    BY <1>12, <2>1, <2>3 DEF ShareInv, Contents
  <2>4. ASSUME NEW g \in Files, Published(g)'
        PROVE  g \in synced' /\ <<Version(g)', data'[g]>> \in seen'
    <3>1. g \in synced'
      BY <1>2, <1>12, <2>4 DEF ShareInv, Contents
    <3>2. CASE g = f
      <4>1. Version(g)' = v /\ data'[g] = u
        BY <1>7, <1>11, <3>2
      <4>2. QED
        BY <1>8, <3>1, <4>1 DEF x
    <3>3. CASE g # f
      BY <1>7, <1>8, <1>11, <1>12, <2>4, <3>1, <3>3 DEF ShareInv, Contents
    <3>4. QED
      BY <3>2, <3>3
  <2>5. \A g \in Fresh : g \in Files
    BY DEF Files
  <2>6. ASSUME NEW g \in Fresh, mtime'[g] = 0 PROVE data'[g] = <<>> /\ ~Published(g)'
    <3>1. g # f
      BY <1>6, <1>7, <2>6
    <3>2. QED
      BY <1>7, <1>12, <2>5, <2>6, <3>1 DEF ShareInv, Contents
  <2>7. ASSUME NEW g \in Fresh, IsNamed(g)', Ours(g)' PROVE data'[g] = Payload
    <3>1. g # f
      <4>1. PICK i \in DOMAIN u : u[i] = changes + 1
        BY <1>5
      <4>2. \A j \in DOMAIN Payload : Payload[j] # changes + 1
        BY <1>3, PayloadAssumption
      <4>3. QED
        BY <1>7, <2>7, <4>1, <4>2 DEF Ours
    <3>2. Ours(g)
      BY <1>7, <2>5, <2>7, <3>1 DEF Ours
    <3>3. QED
      BY <1>7, <2>1, <2>5, <2>7, <3>1, <3>2 DEF ShareInv, Contents
  <2>8. QED
    BY <2>2, <2>3, <2>4, <2>6, <2>7 DEF Contents
<1>17. OpTypes'
  BY <1>2 DEF ShareInv, OpTypes, Walking, Writing
<1>18. Walk'
  <2>1. op.pc = "walk" => (InPlace(op.depth))' = InPlace(op.depth)
    BY <1>2 DEF InPlace, Absolute, At
  <2>2. QED
    BY <1>2, <1>12, <2>1 DEF ShareInv, Walk, Walking, Creates
<1>19. Answers'
  <2>1. seen \subseteq seen'
    BY <1>8
  <2>2. QED
    BY <1>2, <2>1 DEF ShareInv, Answers, IsAnswer, Holds
<1>20. Temporary'
  <2>1. ASSUME Writing PROVE op.tmp \in Files /\ mtime'[op.tmp] # 0
    <3>1. op.tmp \in Files /\ mtime[op.tmp] # 0
      BY <2>1 DEF ShareInv, OpTypes, WriteOp, Files, Temporary
    <3>2. CASE op.tmp = f
      BY <1>6, <1>7, <3>1, <3>2
    <3>3. CASE op.tmp # f
      BY <1>7, <3>1, <3>3
    <3>4. QED
      BY <3>1, <3>2, <3>3
  <2>2. ASSUME op.pc \in {"write", "link"} PROVE ~Published(op.tmp) /\ data'[op.tmp] = data[op.tmp]
    <3>1. ~Published(op.tmp) /\ Writing
      BY <2>2 DEF ShareInv, Temporary, Writing
    <3>2. op.tmp # f
      BY <1>2, <3>1 DEF ShareInv, Contents
    <3>3. QED
      BY <1>7, <2>1, <3>1, <3>2
  <2>3. (Writing => op.fd \in within /\ op.tmp \in within /\ mtime[op.tmp] # 0)'
    BY <1>2, <2>1 DEF ShareInv, Temporary, Writing
  <2>4. (op.pc \in {"write", "link"} => ~Published(op.tmp))'
    <3>1. op.pc \in {"write", "link"} => op.tmp \in Files
      BY <2>1 DEF Writing
    <3>2. QED
      BY <1>2, <1>12, <2>2, <3>1
  <2>5. (op.pc = "write" => /\ Len(data[op.tmp]) <= Len(Payload)
                            /\ data[op.tmp] = SubSeq(Payload, 1, Len(data[op.tmp])))'
    BY <1>2, <2>2 DEF ShareInv, Temporary
  <2>6. (op.pc = "link" => data[op.tmp] = Payload /\ op.tmp \in synced)'
    BY <1>2, <2>2 DEF ShareInv, Temporary
  <2>7. (\A t \in hidden : t[2] \in litter \/ (Writing /\ t = <<op.fd, op.tmp>>))'
    BY <1>2 DEF ShareInv, Temporary, Writing
  <2>8. Writing => (Creates(op.q) /\ InPlace(Depth(op.q)))'
    BY <1>2, FolderKept
  <2>9. QED
    BY <1>2, <2>3, <2>4, <2>5, <2>6, <2>7, <2>8 DEF Temporary, Writing
<1>21. Reading'
  <2>1. SUFFICES ASSUME op.pc = "read" PROVE Reading'
    BY <1>2 DEF Reading
  <2>2. /\ op \in ReadOp /\ op.fd \in Files /\ op.rev \in Files \X Nat \X Nat
        /\ op.rev[3] \in Nat /\ mtime[op.fd] \in Nat
    BY <2>1, <1>4 DEF ShareInv, OpTypes, ReadOp
  <2>3. /\ op.fd \in within /\ Published(op.fd) /\ op.rev[1] = op.fd
        /\ op.rev[3] <= mtime[op.fd] /\ op.q.offset <= op.rev[2]
        /\ platform = "windows" => op.fd \in op.pins /\ op.rev = Version(op.fd)
        /\ op.rev[3] = mtime[op.fd] =>
             /\ op.rev = Version(op.fd)
             /\ op.q.offset + Len(op.bytes) <= Len(data[op.fd])
             /\ op.bytes = SubSeq(data[op.fd], op.q.offset + 1, op.q.offset + Len(op.bytes))
    BY <2>1 DEF ShareInv, Reading
  <2>4. (Published(op.fd))'
    BY <1>2, <1>12, <2>2, <2>3
  <2>5. CASE op.fd = f
    <3>1. platform # "windows"
      BY <1>2, <2>1, <2>3, <2>5 DEF Pinned
    <3>2. op.rev[3] <= mtime'[op.fd] /\ op.rev[3] # mtime'[op.fd]
      BY <1>6, <1>7, <2>2, <2>3, <2>5
    <3>3. QED
      BY <1>2, <2>3, <2>4, <3>1, <3>2 DEF Reading
  <2>6. CASE op.fd # f
    <3>1. /\ data'[op.fd] = data[op.fd] /\ mtime'[op.fd] = mtime[op.fd]
          /\ (Version(op.fd))' = Version(op.fd)
      BY <1>2, <1>7, <1>11, <2>2, <2>6 DEF Version
    <3>2. QED
      BY <1>2, <2>3, <2>4, <3>1 DEF Reading
  <2>7. QED
    BY <2>5, <2>6
<1>22. QED
  BY <1>13, <1>14, <1>15, <1>16, <1>17, <1>18, <1>19, <1>20, <1>21 DEF ShareInv

\* The process starts again: the tree is looked at anew, what has a name is on
\* the disk, and a temporary file of the past has no request.
LEMMA RestartKeeps == ASSUME ShareInv, NEW power \in BOOLEAN, Restart(power) PROVE ShareInv'
<1>1. /\ data' = [f \in DOMAIN data |-> IF power /\ f \notin synced THEN <<>> ELSE data[f]]
      /\ op' = NoOp /\ litter' = litter \cup {t[2] : t \in hidden}
      /\ root' = IF rootAt \in Dir THEN rootAt ELSE None
      /\ within' = IF rootAt \in Dir THEN Below(entry, rootAt) ELSE {}
      /\ UNCHANGED <<platform, rootAt, entry, hidden, mtime, synced, seen>>
  BY DEF Restart, Construct
<1>2. data \in [Files -> Seq(Int)] /\ entry \in [Dir -> [Name -> Node \cup {Link, None}]]
  BY DEF ShareInv, DiskTypes
<1>3. /\ data' \in [Files -> Seq(Int)]
      /\ \A f \in Files : f \in synced => data'[f] = data[f]
      /\ \A f \in Files : data[f] = <<>> => data'[f] = <<>>
  <2>1. <<>> \in Seq(Int) /\ DOMAIN data = Files
    BY <1>2
  <2>2. QED
    BY <1>1, <1>2, <2>1
<1>4. DiskTypes'
  <2>1. changes' \in 0..MaxChanges
    BY ChangeType DEF Restart, ShareInv
  <2>2. root' \in Dir \cup {None}
    BY <1>1
  <2>3. QED
    BY <1>1, <1>3, <2>1, <2>2 DEF ShareInv, DiskTypes
<1>5. Closed'
  <2>1. CASE rootAt \in Dir
    BY <1>1, <1>2, <2>1, BelowClosed DEF Closed
  <2>2. CASE rootAt \notin Dir
    BY <1>1, <2>2 DEF Closed
  <2>3. QED
    BY <2>1, <2>2
<1>6. Versions'
  BY <1>1 DEF ShareInv, Versions
<1>7. Contents'
  <2>1. \A f \in Files : Published(f)' = Published(f) /\ IsNamed(f)' = IsNamed(f)
    BY <1>1 DEF Published, IsNamed
  <2>2. \A f \in Files : Published(f) => /\ f \in synced /\ data'[f] = data[f]
                                         /\ Version(f)' = Version(f) /\ Ours(f)' = Ours(f)
    BY <1>1, <1>3 DEF ShareInv, Contents, Version, Ours
  <2>3. \A f \in Fresh : f \in Files
    BY DEF Files
  <2>4. \A f \in File : f \in Files /\ Published(f)'
    BY <2>1 DEF ShareInv, Contents, Files
  <2>5. ASSUME NEW f \in Files, IsNamed(f)' PROVE Published(f)'
    BY <2>1, <2>5 DEF ShareInv, Contents
  <2>6. ASSUME NEW f \in Files, Published(f)'
        PROVE  f \in synced' /\ <<Version(f)', data'[f]>> \in seen'
    <3>1. Published(f)
      BY <2>1, <2>6
    <3>2. f \in synced /\ <<Version(f), data[f]>> \in seen
      BY <3>1 DEF ShareInv, Contents
    <3>3. data'[f] = data[f] /\ Version(f)' = Version(f)
      BY <2>2, <3>1
    <3>4. QED
      BY <1>1, <3>2, <3>3
  <2>7. ASSUME NEW f \in Fresh, mtime'[f] = 0 PROVE data'[f] = <<>> /\ ~Published(f)'
    BY <1>1, <1>3, <2>1, <2>3, <2>7 DEF ShareInv, Contents
  <2>8. ASSUME NEW f \in Fresh, IsNamed(f)', Ours(f)' PROVE data'[f] = Payload
    <3>1. IsNamed(f) /\ Published(f)
      BY <2>1, <2>3, <2>8 DEF ShareInv, Contents
    <3>2. QED
      BY <2>2, <2>3, <2>8, <3>1 DEF ShareInv, Contents
  <2>9. QED
    BY <2>4, <2>5, <2>6, <2>7, <2>8 DEF Contents
<1>8. op'.pc = "idle"
  BY <1>1 DEF NoOp
<1>9. OpTypes' /\ Walk' /\ Reading' /\ Answers'
  BY <1>8 DEF OpTypes, Walking, Writing, Walk, Reading, Answers
<1>10. Temporary'
  BY <1>1, <1>8 DEF Temporary, Writing
<1>11. QED
  BY <1>4, <1>5, <1>6, <1>7, <1>9, <1>10 DEF ShareInv

LEMMA OthersKeep == ASSUME ShareInv, Others PROVE ShareInv'
<1>1. ASSUME NEW d \in Dir, NEW n \in Name, NEW x \in File \cup {Link, None}, Put(d, n, x)
      PROVE  ShareInv'
  BY <1>1, PutKeeps
<1>2. ASSUME NEW x \in {Base, Target, Link}, SwapRoot(x) PROVE ShareInv'
  BY <1>2, SwapRootKeeps
<1>3. ASSUME NEW f \in File \cup Fresh, Modify(f) PROVE ShareInv'
  BY <1>3, ModifyKeeps DEF Files
<1>4. QED
  BY <1>1, <1>2, <1>3 DEF Others

\* Nothing of the share changes but the number of changes.
LEMMA ShareKept ==
  ASSUME ShareInv, UNCHANGED service, changes' \in 0..MaxChanges
  PROVE  ShareInv'
<1>1. /\ UNCHANGED <<platform, rootAt, entry, hidden, data, mtime, synced>>
      /\ UNCHANGED <<root, op, seen, litter, within>>
  BY DEF service, disk
<1>2. DiskTypes'
  BY <1>1 DEF ShareInv, DiskTypes
<1>3. Closed'
  BY <1>1 DEF ShareInv, Closed
<1>4. Versions' /\ Contents'
  BY <1>1, NamesKeep DEF IsNamed
<1>5. OpTypes' /\ Walk' /\ Reading' /\ Temporary' /\ Answers'
  BY <1>1, RequestKept
<1>6. QED
  BY <1>2, <1>3, <1>4, <1>5 DEF ShareInv

\* The answer has been taken from the handler.
LEMMA IdleKeeps ==
  ASSUME ShareInv, ~Writing, op' = NoOp,
         UNCHANGED <<platform, disk, root, changes, seen, litter, within>>
  PROVE  ShareInv'
<1>1. op'.pc = "idle"
  BY DEF NoOp
<1>2. OpTypes' /\ Walk' /\ Reading' /\ Temporary'
  BY <1>1, NothingUnderWay DEF disk
<1>3. Answers'
  BY <1>1 DEF Answers
<1>4. QED
  BY <1>2, <1>3, OnlyOp

-----------------------------------------------------------------------------
(* The connection and the device *)

Elements(q) == {q[i] : i \in DOMAIN q}

\* The request table: an id is in one place until it is reported.
Table ==
  /\ paired \in BOOLEAN /\ session \in BOOLEAN
  /\ issued \in 0..MaxRequests /\ table \subseteq 1..issued /\ refused \subseteq 1..issued
  /\ table \cap refused = {}
  /\ IsFiniteSet(table) /\ Cardinality(table) <= MaxPending
  /\ ends \in [Id -> Nat]
  /\ \A id \in Id : ends[id] = IF id \in table \cup refused \/ id > issued THEN 0 ELSE 1

\* Requests on their way, and the answers to them.
Requests ==
  /\ \A q \in queued : q \in Call /\ q.id \in 1..issued
  /\ up \in Seq(Call) /\ serving \in 0..MaxRequests
Replies == down \in Seq(Elements(down)) /\ \A a \in Elements(down) : IsAnswer(a.result)

\* What the device has is the start of one content.
Download ==
  /\ got.bytes \in Seq(Int) /\ got.eof \in BOOLEAN
  /\ got.version \in {<<>>} \cup (Files \X Nat \X Nat)
  /\ got = Nothing \/
       \E s \in seen : /\ s[1] = got.version /\ Len(got.bytes) <= Len(s[2])
                       /\ got.bytes = SubSeq(s[2], 1, Len(got.bytes))
                       /\ got.eof => Len(got.bytes) = Len(s[2])

IInv == ShareInv /\ Table /\ Requests /\ Replies /\ Download

LEMMA ElementsOf ==
  ASSUME NEW S, NEW q \in Seq(S)
  PROVE  q \in Seq(Elements(q))
<1>1. Len(q) \in Nat /\ DOMAIN q = 1..Len(q) /\ q \in [1..Len(q) -> S]
  BY LenProperties
<1>2. q \in [1..Len(q) -> Elements(q)]
  BY <1>1 DEF Elements
<1>3. QED
  BY <1>1, <1>2, SeqDef

LEMMA ElementsAppend ==
  ASSUME NEW q, q \in Seq(Elements(q)), NEW a
  PROVE  /\ Append(q, a) \in Seq(Elements(Append(q, a)))
         /\ Elements(Append(q, a)) \subseteq Elements(q) \cup {a}
<1> DEFINE S == Elements(q) \cup {a}
           r == Append(q, a)
<1>1. q \in Seq(S) /\ a \in S
  BY SeqMonotonic
<1> HIDE DEF S
<1>2. r \in Seq(S) /\ Len(r) = Len(q) + 1
  BY <1>1, AppendProperties
<1>3. r \in Seq(Elements(r))
  BY <1>2, ElementsOf
<1>4. Elements(r) \subseteq S
  BY <1>2, LenProperties DEF Elements
<1>5. QED
  BY <1>3, <1>4 DEF S

LEMMA ElementsTail ==
  ASSUME NEW q, q \in Seq(Elements(q)), q # <<>>
  PROVE  /\ Head(q) \in Elements(q)
         /\ Tail(q) \in Seq(Elements(Tail(q))) /\ Elements(Tail(q)) \subseteq Elements(q)
<1> DEFINE S == Elements(q)
<1>1. q \in Seq(S)
  OBVIOUS
<1> HIDE DEF S
<1>2. Head(q) \in S /\ Tail(q) \in Seq(S)
  BY <1>1
<1>3. Tail(q) \in Seq(Elements(Tail(q)))
  BY <1>2, ElementsOf
<1>4. Elements(Tail(q)) \subseteq S
  BY <1>2, LenProperties DEF Elements
<1>5. QED
  BY <1>2, <1>3, <1>4 DEF S

LEMMA InvInit == Init => IInv
<1> SUFFICES ASSUME Init PROVE IInv
  OBVIOUS
<1>1. ShareInv
  BY ShareInvInit DEF Init
<1>2. Table
  <2>1. /\ paired = TRUE /\ session = TRUE /\ table = {} /\ refused = {} /\ issued = 0
        /\ ends = [i \in Id |-> 0]
    BY DEF Init
  <2>2. IsFiniteSet({}) /\ Cardinality({}) = 0 /\ 0 <= MaxPending /\ 0 \in 0..MaxRequests
    BY FS_EmptySet, PendingAssumption
  <2>3. \A id \in Id : id > 0
    BY PendingAssumption DEF Id
  <2>4. QED
    BY <2>1, <2>2, <2>3 DEF Table
<1>3. Requests /\ Replies
  <2>1. <<>> \in Seq(Call) /\ <<>> \in Seq(Elements(<<>>)) /\ Elements(<<>>) = {}
    BY DEF Elements
  <2>2. 0 \in 0..MaxRequests
    BY PendingAssumption
  <2>3. QED
    BY <2>1, <2>2 DEF Init, Requests, Replies
<1>4. Download
  <2>1. <<>> \in Seq(Int)
    OBVIOUS
  <2>2. QED
    BY <2>1 DEF Init, Download, Nothing
<1>5. QED
  BY <1>1, <1>2, <1>3, <1>4 DEF IInv

-----------------------------------------------------------------------------
(* A step of the device *)

\* History is only added to, so what an answer says stays true.
LEMMA RepliesKept ==
  ASSUME Replies, seen \subseteq seen', UNCHANGED down
  PROVE  Replies'
<1>1. \A r : IsAnswer(r) => IsAnswer(r)'
  BY DEF IsAnswer
<1>2. QED
  BY <1>1 DEF Replies

LEMMA DownloadKept ==
  ASSUME Download, seen \subseteq seen', UNCHANGED got
  PROVE  Download'
  BY DEF Download

LEMMA RequestsKept ==
  ASSUME Requests, queued' \subseteq queued, UNCHANGED <<issued, up, serving>>
  PROVE  Requests'
  BY DEF Requests

\* The requests S are reported, wherever they were.
LEMMA CompleteKeeps ==
  ASSUME Table, NEW S, S \subseteq table \cup refused, Complete(S),
         table' = table \ S, refused' = refused \ S, UNCHANGED issued,
         paired' \in BOOLEAN, session' \in BOOLEAN
  PROVE  Table'
<1>1. IsFiniteSet(table \ S) /\ Cardinality(table \ S) <= Cardinality(table)
  BY FS_Subset DEF Table
<1>2. Cardinality(table \ S) <= MaxPending
  <2>1. Cardinality(table) \in Nat /\ Cardinality(table \ S) \in Nat
    BY <1>1, FS_CardinalityType DEF Table
  <2>2. QED
    BY <1>1, <2>1, PendingAssumption DEF Table
<1>3. ends' = [i \in Id |-> IF i \in S THEN ends[i] + 1 ELSE ends[i]]
  BY DEF Complete
<1>4. \A id \in Id : id \in S => id \in table \cup refused /\ ends[id] = 0 /\ ~(id > issued)
  <2>1. \A id \in table \cup refused : id \in 1..issued
    BY DEF Table
  <2>2. issued \in Nat
    BY PendingAssumption DEF Table
  <2>3. \A id \in table \cup refused : ~(id > issued)
    BY <2>1, <2>2
  <2>4. QED
    BY <2>3 DEF Table
<1>5. ASSUME NEW id \in Id
      PROVE  ends'[id] = (IF id \in table' \cup refused' \/ id > issued' THEN 0 ELSE 1) /\ ends'[id] \in Nat
  <2>1. CASE id \in S
    <3>1. ends'[id] = 1
      BY <1>3, <1>4, <2>1
    <3>2. id \notin table' \cup refused' /\ ~(id > issued')
      BY <1>4, <2>1
    <3>3. QED
      BY <3>1, <3>2
  <2>2. CASE id \notin S
    <3>1. ends'[id] = ends[id]
      BY <1>3, <2>2
    <3>2. (id \in table' \cup refused' \/ id > issued') <=> (id \in table \cup refused \/ id > issued)
      BY <2>2
    <3>3. QED
      BY <3>1, <3>2 DEF Table
  <2>3. QED
    BY <2>1, <2>2
<1>6. ends' \in [Id -> Nat]
  BY <1>3, <1>5
<1>7. QED
  BY <1>1, <1>2, <1>5, <1>6 DEF Table

LEMMA DetailsType ==
  ASSUME Download, NEW r, NEW x \in Details(r)
  PROVE  x.offset \in Nat /\ x.want \in {<<>>} \cup (Files \X Nat \X Nat)
<1>1. Len(got.bytes) \in Nat /\ got.version \in {<<>>} \cup (Files \X Nat \X Nat)
  BY DEF Download
<1>2. \/ x = [offset |-> 0, want |-> <<>>]
      \/ x = [offset |-> 9, want |-> <<>>]
      \/ x = [offset |-> Len(got.bytes), want |-> got.version]
  BY DEF Details
<1>3. QED
  BY <1>1, <1>2

LEMMA ShareSame == ASSUME ShareInv, UNCHANGED shareVars PROVE ShareInv' /\ seen \subseteq seen'
<1>1. UNCHANGED service /\ changes' = changes /\ seen' = seen
  BY DEF shareVars, service
<1>2. changes' \in 0..MaxChanges
  BY <1>1 DEF ShareInv, DiskTypes
<1>3. QED
  BY <1>1, <1>2, ShareKept

LEMMA ShareCounted ==
  ASSUME ShareInv, UNCHANGED service, Change \/ UNCHANGED changes
  PROVE  ShareInv' /\ seen \subseteq seen'
<1>1. changes' \in 0..MaxChanges
  BY ChangeType DEF ShareInv, DiskTypes
<1>2. seen' = seen
  BY DEF service
<1>3. QED
  BY <1>1, <1>2, ShareKept

LEMMA AskKeeps ==
  ASSUME IInv, NEW r \in Request, NEW x \in Details(r), Ask(r, x) PROVE IInv'
<1> DEFINE id == issued + 1
           call == [id |-> id, op |-> r.op, path |-> r.path, offset |-> x.offset, want |-> x.want]
<1>1. /\ id \in Id /\ issued' = id
      /\ IF paired /\ Room
         THEN table' = table \cup {id} /\ queued' = queued \cup {call} /\ UNCHANGED refused
         ELSE refused' = refused \cup {id} /\ UNCHANGED <<table, queued>>
      /\ UNCHANGED <<shareVars, paired, ends, got, session, up, down, serving>>
  BY DEF Ask
<1>2. call \in Call /\ call.id = id
  <2>1. r.op \in {"list", "stat", "read", "mkdir", "write"} /\ r.path \in Path
    BY RequestAssumption
  <2>2. x.offset \in Nat /\ x.want \in {<<>>} \cup (Files \X Nat \X Nat)
    BY DetailsType DEF IInv
  <2> DEFINE i == id
  <2>3. i \in Id
    BY <1>1
  <2> HIDE DEF i
  <2>4. [id |-> i, op |-> r.op, path |-> r.path, offset |-> x.offset, want |-> x.want] \in Call
    BY <2>1, <2>2, <2>3 DEF Call
  <2>5. QED
    BY <2>4 DEF i
<1> HIDE DEF call
<1>3. issued \in Nat /\ id \in Nat /\ id > issued /\ ~(id > id) /\ id \in 1..id /\ id \in 0..MaxRequests
  <2>1. issued \in 0..MaxRequests
    BY DEF IInv, Table
  <2>2. issued \in Nat /\ id \in 1..MaxRequests
    BY <1>1, <2>1, PendingAssumption DEF Id
  <2>3. QED
    BY <2>2, PendingAssumption
<1>4. \A i \in 1..issued : i \in 1..id
  BY <1>3
<1>5. id \notin table /\ id \notin refused
  <2>1. table \subseteq 1..issued /\ refused \subseteq 1..issued
    BY DEF IInv, Table
  <2>2. id \notin 1..issued
    BY <1>3
  <2>3. QED
    BY <2>1, <2>2
<1>6. \A i \in Id : (i > id \/ i = id) <=> i > issued
  BY <1>3 DEF Id
<1>7. ShareInv' /\ Replies' /\ Download'
  <2>1. ShareInv' /\ seen \subseteq seen'
    BY <1>1, ShareSame DEF IInv
  <2>2. QED
    BY <1>1, <2>1, RepliesKept, DownloadKept DEF IInv
<1>8. Requests'
  <2>1. \A q \in queued' : q \in queued \/ q = call
    BY <1>1
  <2>2. \A q \in queued' : q \in Call /\ q.id \in 1..id
    BY <1>2, <1>3, <1>4, <2>1 DEF IInv, Requests
  <2>3. QED
    BY <1>1, <2>2 DEF IInv, Requests
<1>9. ASSUME table' = table \cup {id} \/ table' = table,
             refused' = refused \cup {id} \/ refused' = refused,
             table' \cup refused' = table \cup refused \cup {id}
      PROVE  /\ table' \subseteq 1..issued' /\ refused' \subseteq 1..issued'
             /\ \A i \in Id : ends'[i] = IF i \in table' \cup refused' \/ i > issued' THEN 0 ELSE 1
  <2>1. table' \subseteq 1..issued' /\ refused' \subseteq 1..issued'
    BY <1>1, <1>3, <1>4, <1>9 DEF IInv, Table
  <2>2. ASSUME NEW i \in Id
        PROVE  (i \in table' \cup refused' \/ i > issued') <=> (i \in table \cup refused \/ i > issued)
    BY <1>1, <1>6, <1>9
  <2>3. QED
    BY <1>1, <2>1, <2>2 DEF IInv, Table
<1>10. CASE paired /\ Room
  <2>1. table' = table \cup {id} /\ refused' = refused
    BY <1>1, <1>10
  <2>2. IsFiniteSet(table') /\ Cardinality(table') = Cardinality(table) + 1
    BY <1>5, <2>1, FS_AddElement DEF IInv, Table
  <2>3. Cardinality(table') <= MaxPending
    <3>1. Cardinality(table) \in Nat
      BY FS_CardinalityType DEF IInv, Table
    <3>2. QED
      BY <1>10, <2>2, <3>1, PendingAssumption DEF Room
  <2>4. table' \cap refused' = {}
    BY <1>5, <2>1 DEF IInv, Table
  <2>5. Table'
    <3>1. /\ table' \subseteq 1..issued' /\ refused' \subseteq 1..issued'
          /\ \A i \in Id : ends'[i] = IF i \in table' \cup refused' \/ i > issued' THEN 0 ELSE 1
      BY <1>9, <2>1
    <3>2. QED
      BY <1>1, <1>3, <2>2, <2>3, <2>4, <3>1 DEF IInv, Table
  <2>6. QED
    BY <1>7, <1>8, <2>5 DEF IInv
<1>11. CASE ~(paired /\ Room)
  <2>1. table' = table /\ refused' = refused \cup {id}
    BY <1>1, <1>11
  <2>2. table' \cap refused' = {}
    BY <1>5, <2>1 DEF IInv, Table
  <2>3. Table'
    <3>1. /\ table' \subseteq 1..issued' /\ refused' \subseteq 1..issued'
          /\ \A i \in Id : ends'[i] = IF i \in table' \cup refused' \/ i > issued' THEN 0 ELSE 1
      BY <1>9, <2>1
    <3>2. QED
      BY <1>1, <1>3, <2>1, <2>2, <3>1 DEF IInv, Table
  <2>4. QED
    BY <1>7, <1>8, <2>3 DEF IInv
<1>12. QED
  BY <1>10, <1>11

LEMMA RefuseKeeps == ASSUME IInv, NEW id \in refused, Refuse(id) PROVE IInv'
<1>1. /\ refused' = refused \ {id} /\ Complete({id})
      /\ UNCHANGED <<shareVars, paired, table, queued, issued, got, session, up, down, serving>>
  BY DEF Refuse
<1>2. Table'
  <2>1. table' = table \ {id}
    BY <1>1 DEF IInv, Table
  <2>2. QED
    BY <1>1, <2>1, CompleteKeeps DEF IInv, Table
<1>3. ShareInv' /\ seen \subseteq seen'
  BY <1>1, ShareSame DEF IInv
<1>4. QED
  BY <1>1, <1>2, <1>3, RequestsKept, RepliesKept, DownloadKept DEF IInv

LEMMA LeaveKeeps ==
  ASSUME IInv, Leave, queued' \subseteq queued, Change \/ UNCHANGED changes
  PROVE  IInv'
<1>1. /\ paired' = FALSE /\ table' = {} /\ Complete(table) /\ down' = <<>>
      /\ UNCHANGED <<service, refused, issued, got, session, up, serving>>
  BY DEF Leave
<1>2. Table'
  <2>1. table' = table \ table /\ refused' = refused \ table
    BY <1>1 DEF IInv, Table
  <2>2. QED
    BY <1>1, <2>1, CompleteKeeps DEF IInv, Table
<1>3. ShareInv' /\ seen \subseteq seen'
  BY <1>1, ShareCounted DEF IInv
<1>4. Replies'
  <2>1. <<>> \in Seq(Elements(<<>>)) /\ Elements(<<>>) = {}
    BY DEF Elements
  <2>2. QED
    BY <1>1, <2>1 DEF Replies
<1>5. QED
  BY <1>1, <1>2, <1>3, <1>4, RequestsKept, DownloadKept DEF IInv

LEMMA SendKeeps == ASSUME IInv, NEW q \in queued, Send(q) PROVE IInv'
<1>1. queued' = queued \ {q} /\ queued' \subseteq queued
  BY DEF Send
<1>2. CASE UNCHANGED <<shareVars, paired, table, refused, issued, ends, got, session, up, down, serving>>
  <2>1. Table'
    BY <1>2 DEF IInv, Table
  <2>2. ShareInv' /\ seen \subseteq seen'
    BY <1>2, ShareSame DEF IInv
  <2>3. QED
    BY <1>1, <1>2, <2>1, <2>2, RequestsKept, RepliesKept, DownloadKept DEF IInv
<1>3. CASE /\ up' = IF session THEN Append(up, q) ELSE up
           /\ UNCHANGED <<shareVars, paired, table, refused, issued, ends, got, session, down, serving>>
  <2>1. Table'
    BY <1>3 DEF IInv, Table
  <2>2. ShareInv' /\ seen \subseteq seen'
    BY <1>3, ShareSame DEF IInv
  <2>3. Requests'
    <3>1. up \in Seq(Call) /\ q \in Call
      BY DEF IInv, Requests
    <3>2. up' \in Seq(Call)
      BY <1>3, <3>1
    <3>3. QED
      BY <1>1, <1>3, <3>2 DEF IInv, Requests
  <2>4. QED
    BY <1>3, <2>1, <2>2, <2>3, RepliesKept, DownloadKept DEF IInv
<1>4. CASE Leave /\ UNCHANGED changes
  BY <1>1, <1>4, LeaveKeeps
<1>5. QED
  BY <1>2, <1>3, <1>4 DEF Send

LEMMA SweepKeeps == ASSUME IInv, NEW S \in SUBSET table, Sweep(S) PROVE IInv'
<1>1. /\ Change /\ table' = table \ S /\ Complete(S)
      /\ UNCHANGED <<service, paired, queued, refused, issued, got, session, up, down, serving>>
  BY DEF Sweep
<1>2. Table'
  <2>1. refused' = refused \ S
    BY <1>1 DEF IInv, Table
  <2>2. QED
    BY <1>1, <2>1, CompleteKeeps DEF IInv, Table
<1>3. ShareInv' /\ seen \subseteq seen'
  BY <1>1, ShareCounted DEF IInv
<1>4. QED
  BY <1>1, <1>2, <1>3, RequestsKept, RepliesKept, DownloadKept DEF IInv

LEMMA PairAgainKeeps == ASSUME IInv, PairAgain PROVE IInv'
<1>1. /\ paired' = TRUE /\ session' = TRUE
      /\ UNCHANGED <<shareVars, table, queued, refused, issued, ends, got, up, down, serving>>
  BY DEF PairAgain
<1>2. Table'
  BY <1>1 DEF IInv, Table
<1>3. ShareInv' /\ seen \subseteq seen'
  BY <1>1, ShareSame DEF IInv
<1>4. QED
  BY <1>1, <1>2, <1>3, RequestsKept, RepliesKept, DownloadKept DEF IInv

\* The prefix g of a content.
Prefix(g) ==
  \E s \in seen : /\ s[1] = g.version /\ Len(g.bytes) <= Len(s[2])
                  /\ g.bytes = SubSeq(s[2], 1, Len(g.bytes))
                  /\ g.eof => Len(g.bytes) = Len(s[2])

LEMMA ContentType == ASSUME Versions, NEW s \in seen PROVE s[2] \in Seq(Int)
  BY DEF Versions

\* A chunk that goes on where the last one ended belongs to the same content,
\* for the version is the same.
LEMMA CollectedIsPrefix ==
  ASSUME Versions, Download, NEW r, "bytes" \in DOMAIN r, IsAnswer(r)
  PROVE  /\ Collected(r).bytes \in Seq(Int) /\ Collected(r).eof \in BOOLEAN
         /\ Collected(r).version \in {<<>>} \cup (Files \X Nat \X Nat)
         /\ Collected(r) = Nothing \/ Prefix(Collected(r))
<1> DEFINE o == r.offset
           b == r.bytes
           k == Len(b)
           v == r.version
           e == r.eof
           n == Len(got.bytes)
<1>1. /\ o \in Nat /\ b \in Seq(Int) /\ e \in BOOLEAN /\ v \in Files \X Nat \X Nat /\ k \in Nat
  BY DEF IsAnswer
<1>2. PICK s \in seen : s[1] = v /\ o + k <= Len(s[2]) /\ b = SubSeq(s[2], o + 1, o + k)
                        /\ (e => o + k = Len(s[2]))
  BY DEF IsAnswer, Holds
<1> DEFINE c == s[2]
<1>3. c \in Seq(Int)
  BY ContentType
<1>4. got.bytes \in Seq(Int) /\ n \in Nat
  BY DEF Download
<1>5. CASE o = 0
  <2> DEFINE g == [version |-> v, bytes |-> b, eof |-> e]
  <2>1. Collected(r) = g
    BY <1>5 DEF Collected
  <2>2. k <= Len(c) /\ b = SubSeq(c, 1, k) /\ (e => k = Len(c))
    <3>1. 0 + 1 = 1 /\ 0 + k = k
      BY <1>1
    <3>2. QED
      BY <1>2, <1>5, <3>1
  <2>3. Prefix(g)
    <3> HIDE DEF v, b, e
    <3>1. g.version = v /\ g.bytes = b /\ g.eof = e
      OBVIOUS
    <3>2. QED
      BY <1>2, <2>2, <3>1 DEF Prefix
  <2>4. QED
    BY <1>1, <2>1, <2>3
<1>6. CASE o # 0 /\ o = n /\ v = got.version
  <2> DEFINE h == got.bytes \o b
             g == [version |-> v, bytes |-> h, eof |-> e]
  <2>1. Collected(r) = g
    BY <1>6 DEF Collected
  <2>2. got # Nothing
    BY <1>6 DEF Nothing
  <2>3. PICK t \in seen : t[1] = got.version /\ n <= Len(t[2]) /\ got.bytes = SubSeq(t[2], 1, n)
    BY <2>2 DEF Download
  <2>4. t[2] = c
    BY <1>2, <1>6, <2>3 DEF Versions
  <2>5. h = SubSeq(c, 1, n + k)
    <3>1. got.bytes = SubSeq(c, 1, n) /\ b = SubSeq(c, n + 1, n + k) /\ n + k <= Len(c)
      BY <1>2, <1>6, <2>3, <2>4
    <3> HIDE DEF n, k, b, c
    <3>2. SubSeq(c, 1, n) \o SubSeq(c, n + 1, n + k) = SubSeq(c, 1, n + k)
      BY <1>1, <1>3, <1>4, <3>1, TwoChunks
    <3>3. QED
      BY <3>1, <3>2
  <2>6. h \in Seq(Int) /\ Len(h) = n + k
    BY <1>1, <1>4
  <2>7. Prefix(g)
    <3>1. n + k <= Len(c) /\ (e => n + k = Len(c))
      BY <1>2, <1>6
    <3> HIDE DEF h, v, e
    <3>2. g.version = v /\ g.bytes = h /\ g.eof = e
      OBVIOUS
    <3>3. QED
      BY <1>2, <2>5, <2>6, <3>1, <3>2 DEF Prefix
  <2>8. QED
    BY <1>1, <2>1, <2>6, <2>7
<1>7. CASE o # 0 /\ ~(o = n /\ v = got.version)
  <2>1. Collected(r) = got
    BY <1>7 DEF Collected
  <2>2. QED
    BY <2>1 DEF Download, Prefix
<1>8. QED
  BY <1>5, <1>6, <1>7

LEMMA ResponseKeeps == ASSUME IInv, Response PROVE IInv'
<1> DEFINE id == Head(down).id
           r == Head(down).result
<1>1. /\ down # <<>> /\ down' = Tail(down)
      /\ IF Awaited(id)
         THEN /\ table' = table \ {id} /\ Complete({id})
              /\ got' = IF "bytes" \in DOMAIN r THEN Collected(r) ELSE got
         ELSE UNCHANGED <<table, ends, got>>
      /\ UNCHANGED <<shareVars, paired, queued, refused, issued, session, up, serving>>
  BY DEF Response
<1>2. ShareInv' /\ seen' = seen
  BY <1>1, ShareSame DEF IInv, shareVars, service
<1>3. IsAnswer(r) /\ Replies'
  <2>1. down \in Seq(Elements(down)) /\ \A a \in Elements(down) : IsAnswer(a.result)
    BY DEF IInv, Replies
  <2>2. /\ Head(down) \in Elements(down)
        /\ Tail(down) \in Seq(Elements(Tail(down))) /\ Elements(Tail(down)) \subseteq Elements(down)
    BY <1>1, <2>1, ElementsTail
  <2>3. \A x : IsAnswer(x)' <=> IsAnswer(x)
    BY <1>2 DEF IsAnswer
  <2>4. QED
    BY <1>1, <2>1, <2>2, <2>3 DEF Replies
<1>4. Requests'
  BY <1>1, RequestsKept DEF IInv
<1>5. CASE Awaited(id)
  <2>1. id \in table
    BY <1>5 DEF Awaited
  <2> HIDE DEF id
  <2>2. Table'
    <3>1. refused' = refused \ {id} /\ {id} \subseteq table \cup refused
      BY <1>1, <2>1 DEF IInv, Table
    <3>2. QED
      BY <1>1, <1>5, <3>1, CompleteKeeps DEF IInv, Table
  <2>3. Download'
    <3>1. CASE "bytes" \in DOMAIN r
      <4>1. got' = Collected(r)
        BY <1>1, <1>5, <3>1
      <4>2. /\ Collected(r).bytes \in Seq(Int) /\ Collected(r).eof \in BOOLEAN
            /\ Collected(r).version \in {<<>>} \cup (Files \X Nat \X Nat)
            /\ Collected(r) = Nothing \/ Prefix(Collected(r))
        BY <1>3, <3>1, CollectedIsPrefix DEF IInv, ShareInv
      <4>3. /\ got'.bytes \in Seq(Int) /\ got'.eof \in BOOLEAN
            /\ got'.version \in {<<>>} \cup (Files \X Nat \X Nat)
            /\ got' = Nothing \/ Prefix(got')
        BY <4>1, <4>2
      <4>4. QED
        BY <1>2, <4>3 DEF Download, Prefix
    <3>2. CASE "bytes" \notin DOMAIN r
      BY <1>1, <1>2, <1>5, <3>2, DownloadKept DEF IInv
    <3>3. QED
      BY <3>1, <3>2
  <2>4. QED
    BY <1>2, <1>3, <1>4, <2>2, <2>3 DEF IInv
<1>6. CASE ~Awaited(id)
  <2>1. UNCHANGED <<table, ends, got>>
    BY <1>1, <1>6
  <2>2. Table' /\ Download'
    BY <1>1, <1>2, <2>1, DownloadKept DEF IInv, Table
  <2>3. QED
    BY <1>2, <1>3, <1>4, <2>2 DEF IInv
<1>7. QED
  BY <1>5, <1>6

-----------------------------------------------------------------------------
(* A step of the host *)

\* The device and its table are left alone.
LEMMA DeviceKept ==
  ASSUME Table, Download, UNCHANGED deviceVars, session' \in BOOLEAN, seen \subseteq seen'
  PROVE  Table' /\ Download'
<1>1. UNCHANGED <<paired, table, queued, refused, issued, ends, got>>
  BY DEF deviceVars
<1>2. QED
  BY <1>1, DownloadKept DEF Table

LEMMA ServeKeeps == ASSUME IInv, Serve PROVE IInv'
<1>1. /\ up # <<>> /\ Begin(Head(up)) /\ serving' = Head(up).id /\ up' = Tail(up)
      /\ UNCHANGED <<deviceVars, session, down>>
  BY DEF Serve
<1>2. Head(up) \in Call /\ Tail(up) \in Seq(Call) /\ Head(up).id \in 0..MaxRequests
  <2>1. Head(up) \in Call /\ Tail(up) \in Seq(Call)
    BY <1>1 DEF IInv, Requests
  <2>2. Head(up).id \in Id
    BY <2>1 DEF Call
  <2>3. QED
    BY <2>1, <2>2, PendingAssumption DEF Id
<1>3. ShareInv'
  BY <1>1, <1>2, BeginKeeps DEF IInv
<1>4. seen' = seen
  BY <1>1 DEF Begin
<1>5. Requests'
  BY <1>1, <1>2 DEF IInv, Requests, deviceVars
<1>6. QED
  BY <1>1, <1>3, <1>4, <1>5, DeviceKept, RepliesKept DEF IInv, Table

\* Versions that have been seen are not forgotten.
LEMMA SeenGrows == ASSUME ShareStep \/ Others PROVE seen \subseteq seen'
<1>1. ASSUME ShareStep PROVE seen \subseteq seen'
  BY <1>1 DEF ShareStep, OpenRoot, Open, List, Stat, Revision, Read, Reread, Mkdir, Create, Write,
              Sync, Publish, Unlink, Fail
<1>2. ASSUME Others PROVE seen \subseteq seen'
  BY <1>2 DEF Others, Put, SwapRoot, Modify
<1>3. QED
  BY <1>1, <1>2

LEMMA WorkKeeps ==
  ASSUME IInv, ShareStep \/ Others, UNCHANGED <<deviceVars, session, up, down, serving>>
  PROVE  IInv'
<1>1. ShareInv' /\ seen \subseteq seen'
  BY ShareStepKeeps, OthersKeep, SeenGrows DEF IInv
<1>2. Requests'
  BY DEF IInv, Requests, deviceVars
<1>3. QED
  BY <1>1, <1>2, DeviceKept, RepliesKept DEF IInv, Table

LEMMA AnswerKeeps == ASSUME IInv, Answer PROVE IInv'
<1> DEFINE a == [id |-> serving, result |-> op.result]
<1>1. /\ op.pc = "done" /\ op' = NoOp /\ serving' = 0
      /\ down' = IF paired THEN Append(down, a) ELSE down
      /\ UNCHANGED <<platform, disk, root, changes, seen, litter, within>>
      /\ UNCHANGED <<deviceVars, session, up>>
  BY DEF Answer
<1>2. ShareInv'
  BY <1>1, IdleKeeps DEF IInv, Writing
<1>3. IsAnswer(a.result)
  BY <1>1 DEF IInv, ShareInv, Answers
<1> HIDE DEF a
<1>4. Replies'
  <2>1. \A x : IsAnswer(x)' <=> IsAnswer(x)
    BY <1>1 DEF IsAnswer
  <2>2. down \in Seq(Elements(down)) /\ \A x \in Elements(down) : IsAnswer(x.result)
    BY DEF IInv, Replies
  <2>3. /\ Append(down, a) \in Seq(Elements(Append(down, a)))
        /\ Elements(Append(down, a)) \subseteq Elements(down) \cup {a}
    BY <2>2, ElementsAppend
  <2>4. down' \in Seq(Elements(down')) /\ \A x \in Elements(down') : IsAnswer(x.result)
    BY <1>1, <1>3, <2>2, <2>3
  <2>5. QED
    BY <2>1, <2>4 DEF Replies
<1>5. Requests'
  <2>1. 0 \in 0..MaxRequests
    BY PendingAssumption
  <2>2. QED
    BY <1>1, <2>1 DEF IInv, Requests, deviceVars
<1>6. QED
  BY <1>1, <1>2, <1>4, <1>5, DeviceKept DEF IInv, Table

LEMMA HostLostKeeps == ASSUME IInv, HostLost PROVE IInv'
<1>1. /\ Change \/ UNCHANGED changes
      /\ session' = FALSE /\ up' = <<>>
      /\ UNCHANGED <<service, deviceVars, down, serving>>
  BY DEF HostLost
<1>2. ShareInv' /\ seen \subseteq seen'
  BY <1>1, ShareCounted DEF IInv
<1>3. Requests'
  <2>1. <<>> \in Seq(Call)
    OBVIOUS
  <2>2. QED
    BY <1>1, <2>1 DEF IInv, Requests, deviceVars
<1>4. QED
  BY <1>1, <1>2, <1>3, DeviceKept, RepliesKept DEF IInv

LEMMA HostRestartKeeps == ASSUME IInv, HostRestart PROVE IInv'
<1>1. /\ session' = FALSE /\ up' = <<>> /\ serving' = 0
      /\ UNCHANGED <<deviceVars, down>>
  BY DEF HostRestart
<1>2. PICK power \in BOOLEAN : Restart(power)
  BY DEF HostRestart
<1>3. ShareInv'
  BY <1>2, RestartKeeps DEF IInv
<1>4. seen' = seen
  BY <1>2 DEF Restart
<1>5. Requests'
  <2>1. <<>> \in Seq(Call) /\ 0 \in 0..MaxRequests
    BY PendingAssumption
  <2>2. QED
    BY <1>1, <2>1 DEF IInv, Requests, deviceVars
<1>6. QED
  BY <1>1, <1>3, <1>4, <1>5, DeviceKept, RepliesKept DEF IInv

-----------------------------------------------------------------------------
(* Every step *)

LEMMA InvNext == IInv /\ [Next]_vars => IInv'
<1> SUFFICES ASSUME IInv, [Next]_vars PROVE IInv'
  OBVIOUS
<1>1. ASSUME NEW r \in Request, NEW x \in Details(r), Ask(r, x) PROVE IInv'
  BY <1>1, AskKeeps
<1>2. ASSUME NEW id \in refused, Refuse(id) PROVE IInv'
  BY <1>2, RefuseKeeps
<1>3. ASSUME NEW q \in queued, Send(q) PROVE IInv'
  BY <1>3, SendKeeps
<1>4. ASSUME NEW S \in SUBSET table, Sweep(S) PROVE IInv'
  BY <1>4, SweepKeeps
<1>5. CASE Lost
  BY <1>5, LeaveKeeps DEF Lost
<1>6. CASE Response \/ PairAgain
  BY <1>6, ResponseKeeps, PairAgainKeeps
<1>7. CASE Serve \/ Answer \/ HostLost \/ HostRestart
  BY <1>7, ServeKeeps, AnswerKeeps, HostLostKeeps, HostRestartKeeps
<1>8. CASE Work \/ Elsewhere
  BY <1>8, WorkKeeps DEF Work, Elsewhere
<1>9. CASE UNCHANGED vars
  <2>1. /\ UNCHANGED shareVars /\ UNCHANGED deviceVars
        /\ UNCHANGED <<session, up, down, serving>>
    BY <1>9 DEF vars
  <2>2. ShareInv' /\ seen \subseteq seen'
    BY <2>1, ShareSame DEF IInv
  <2>3. Requests'
    BY <2>1 DEF IInv, Requests, deviceVars
  <2>4. QED
    BY <2>1, <2>2, <2>3, DeviceKept, RepliesKept DEF IInv, Table
<1>10. QED
  BY <1>1, <1>2, <1>3, <1>4, <1>5, <1>6, <1>7, <1>8, <1>9 DEF Next

LEMMA Invariant == Spec => []IInv
  BY InvInit, InvNext, PTL DEF Spec

\* A request stays below the root of the share: what another program puts in
\* the place of the root, of a directory or of a file between two system calls
\* does not lead it outside, for any tree and any number of such changes
\* (FileShare.cpp:34-46, WindowsFileShare.h:47-66).
THEOREM RequestsAreConfined == Spec => []Confined
<1>1. ASSUME IInv PROVE Confined
  <2>1. ShareInv
    BY <1>1 DEF IInv
  <2>2. op.pc \notin {"idle", "root", "done"} => op.fd \in within
    BY <2>1 DEF ShareInv, OpTypes, Walk, Reading, Temporary, Writing
  <2>3. InFolder => Folder \in within
    BY <2>1, FolderIsOpen DEF InFolder, Walked, Writing
  <2>4. QED
    BY <2>2, <2>3 DEF Confined
<1>2. QED
  BY <1>1, Invariant, PTL

\* A name of the share that a write made has all of the blocks, after a loss of
\* power too, and temporary files are those of the running request and of the
\* ones that were cut off or could not remove them (FileShare.cpp:134-144, WindowsFileShare.h:126-135).
THEOREM UploadsAreWhole == Spec => []WritesAreWhole
<1>1. ASSUME IInv PROVE WritesAreWhole
  <2>1. ASSUME NEW d \in Dir, NEW n \in Name, entry[d][n] \in Fresh, Ours(entry[d][n])
        PROVE  data[entry[d][n]] = Payload
    <3>1. IsNamed(entry[d][n])
      BY DEF IsNamed
    <3>2. QED
      BY <1>1, <2>1, <3>1 DEF IInv, ShareInv, Contents
  <2>2. ASSUME NEW t \in hidden
        PROVE  t[2] \in litter \/ (op.pc \in {"write", "link", "unlink"} /\ op.tmp = t[2])
    BY <1>1 DEF IInv, ShareInv, Temporary, Writing
  <2>3. QED
    BY <2>1, <2>2 DEF WritesAreWhole
<1>2. QED
  BY <1>1, Invariant, PTL

\* What a device puts together of chunks with one version is a prefix of the
\* content that the file had at one moment, and all of it with eof
\* (FileShare.cpp:107-121).
THEOREM DownloadIsConsistent == Spec => []DownloadIsOneContent
<1>1. ASSUME IInv, got # Nothing
      PROVE  \E s \in seen : /\ s[1] = got.version
                             /\ got.bytes = SubSeq(s[2], 1, Len(got.bytes))
                             /\ got.eof => got.bytes = s[2]
  <2>1. PICK s \in seen : /\ s[1] = got.version
                          /\ got.bytes = SubSeq(s[2], 1, Len(got.bytes))
                          /\ got.eof => Len(got.bytes) = Len(s[2])
    BY <1>1 DEF IInv, Download
  <2>2. s[2] \in Seq(Int)
    BY <1>1, ContentType DEF IInv, ShareInv
  <2>3. SubSeq(s[2], 1, Len(s[2])) = s[2]
    BY <2>2, SubSeqFull
  <2>4. QED
    BY <2>1, <2>3
<1>2. IInv => TypeOK
  BY DEF IInv, ShareInv, DiskTypes, OpTypes, Table, Requests, Files, TypeOK
<1>3. IInv => DownloadIsOneContent
  BY <1>1, <1>2 DEF DownloadIsOneContent
<1>4. QED
  BY <1>3, Invariant, PTL

Taken(d, n) == entry[d][n] # None /\ entry'[d][n] # entry[d][n]

\* A step of the handler names only what had no name.
LEMMA StepTakesNothing ==
  ASSUME ShareInv, ShareStep, NEW e \in Dir, NEW m \in Name, Taken(e, m)
  PROVE  FALSE
<1>1. entry \in [Dir -> [Name -> Node \cup {Link, None}]]
  BY DEF ShareInv, DiskTypes
<1>2. ASSUME op.fd \in Dir, LastName \in Name, At(op.fd, LastName) = None, NEW x,
             entry' = [entry EXCEPT ![op.fd][LastName] = x]
      PROVE  FALSE
  <2>1. entry[op.fd][LastName] = None
    BY <1>2 DEF At
  <2>2. entry'[e][m] = entry[e][m] \/ (e = op.fd /\ m = LastName)
    BY <1>1, <1>2
  <2>3. QED
    BY <2>1, <2>2 DEF Taken
<1>3. ASSUME NEW d \in Dir, Mkdir(d) PROVE FALSE
  <2>1. op.pc = "walk" /\ op.depth = Depth(op.q) /\ Creates(op.q)
    BY <1>3 DEF Mkdir, Walked, Creates
  <2>2. op.fd \in Dir /\ LastName \in Name /\ Folder = op.fd
    BY <2>1, CreatesIn, FolderIsOpen
  <2>3. entry' = entry \/ (At(op.fd, LastName) = None /\ entry' = [entry EXCEPT ![op.fd][LastName] = d])
    BY <1>3, <2>2 DEF Mkdir, Free
  <2>4. QED
    BY <1>2, <2>2, <2>3 DEF Taken
<1>4. CASE Publish
  <2>1. Writing /\ op \in WriteOp /\ op.fd \in Dir /\ op.q.path \in Path /\ op.q.path # <<>>
    BY <1>4 DEF Publish, ShareInv, OpTypes, Writing, WriteOp, Call
  <2>2. LastName \in Name
    BY <2>1, PathFacts DEF LastName
  <2>3. entry' = entry \/ (At(op.fd, LastName) = None /\ entry' = [entry EXCEPT ![op.fd][LastName] = op.tmp])
    BY <1>4, <2>1, FolderIsOpen DEF Publish, NameFree, Free
  <2>4. QED
    BY <1>2, <2>1, <2>2, <2>3 DEF Taken
<1>5. ASSUME UNCHANGED entry PROVE FALSE
  BY <1>5 DEF Taken
<1>6. QED
  BY <1>3, <1>4, <1>5 DEF ShareStep, OpenRoot, Open, List, Stat, Revision, Read, Reread, Create,
                          Write, Sync, Unlink, Fail, disk

\* The share never takes over or removes a name: neither mkdir() nor the
\* publication of a write changes an entry that exists, whatever another
\* program put there after the path was resolved (FileShare.cpp:129, 143,
\* WindowsFileShare.h:134).
THEOREM NoNameTakenOver == Spec => NothingReplaced
<1> DEFINE A == \A d \in Dir, n \in Name :
                  entry[d][n] # None /\ entry'[d][n] # entry[d][n] => changes' # changes
<1>1. ASSUME IInv, [Next]_vars PROVE [A]_shareVars
  <2>1. SUFFICES ASSUME NEW d \in Dir, NEW n \in Name, Taken(d, n), changes' = changes
                 PROVE  FALSE
    BY DEF Taken
  <2>2. entry' # entry
    BY <2>1 DEF Taken
  <2>3. ~Change
    BY <1>1, <2>1 DEF IInv, ShareInv, DiskTypes, Change
  <2>4. ~UNCHANGED service
    BY <2>2 DEF service, disk
  <2>5. CASE Work
    BY <1>1, <2>1, <2>5, StepTakesNothing DEF IInv, Work
  <2>6. ~Elsewhere
    BY <2>3 DEF Elsewhere, Others, Put, SwapRoot, Modify
  <2>7. ~HostRestart /\ ~HostLost
    BY <2>3, <2>4 DEF HostRestart, Restart, HostLost
  <2>8. ~Serve /\ ~Answer
    BY <2>2 DEF Serve, Begin, Answer, disk
  <2>9. ~Lost /\ ~Response /\ ~PairAgain
    BY <2>3, <2>4 DEF Lost, Response, PairAgain, shareVars
  <2>10. /\ \A r \in Request : \A x \in Details(r) : ~Ask(r, x)
         /\ \A id \in refused : ~Refuse(id)
         /\ \A S \in SUBSET table : ~Sweep(S)
    BY <2>3, <2>4 DEF Ask, Refuse, Sweep, shareVars
  <2>11. \A q \in queued : ~Send(q)
    BY <2>4 DEF Send, Leave, shareVars
  <2>12. ~UNCHANGED vars
    BY <2>4 DEF vars, shareVars
  <2>13. QED
    BY <1>1, <2>5, <2>6, <2>7, <2>8, <2>9, <2>10, <2>11, <2>12 DEF Next
<1>2. QED
  BY <1>1, Invariant, PTL DEF Spec, NothingReplaced

-----------------------------------------------------------------------------
(* The contract of jobs *)

\* Where the table says that a request is.
PlaceOf(id) ==
  IF id \in table THEN "running"
  ELSE IF id \in refused THEN "refused"
  ELSE IF id > issued THEN "new" ELSE "reported"

\* The history of signals says the same: it adds nothing to the table.
LEMMA Staged == Table => \A id \in Id : JobStage(id) = PlaceOf(id)
<1> SUFFICES ASSUME Table, NEW id \in Id PROVE JobStage(id) = PlaceOf(id)
  OBVIOUS
<1>1. ends[id] = IF id \in table \cup refused \/ id > issued THEN 0 ELSE 1
  BY DEF Table
<1>2. CASE id \in table \cup refused \/ id > issued
  <2>1. ends[id] = 0
    BY <1>1, <1>2
  <2>2. QED
    BY <1>2, <2>1 DEF JobStage, PlaceOf
<1>3. CASE ~(id \in table \cup refused \/ id > issued)
  <2>1. ends[id] = 1
    BY <1>1, <1>3
  <2>2. QED
    BY <1>3, <2>1 DEF JobStage, PlaceOf
<1>4. QED
  BY <1>2, <1>3

LEMMA StagedNext == Table' => \A id \in Id : JobStage(id)' = PlaceOf(id)'
<1>1. (Table => \A id \in Id : JobStage(id) = PlaceOf(id))'
  BY Staged, PTL
<1>2. QED
  BY <1>1

\* The ids in the table and the queued errors were issued.
LEMMA Issued == Table => table \cup refused \subseteq Id /\ \A id \in table \cup refused : ~(id > issued)
<1> SUFFICES ASSUME Table, NEW id \in table \cup refused PROVE id \in Id /\ ~(id > issued)
  OBVIOUS
<1>1. id \in 1..issued /\ issued \in 0..MaxRequests /\ MaxRequests \in Nat
  BY PendingAssumption DEF Table
<1>2. QED
  BY <1>1 DEF Id

\* The requests S leave the table and are reported.
LEMMA ContractReport ==
  ASSUME Table, Table', NEW S, S \subseteq table \cup refused,
         table' = table \ S, refused' = refused \ S, UNCHANGED issued
  PROVE  Jobs!Next
<1>1. S \in SUBSET Id /\ \A id \in S : ~(id > issued)
  BY Issued
<1>2. \A id \in Id : PlaceOf(id)' = IF id \in S THEN "reported" ELSE PlaceOf(id)
  BY <1>1 DEF PlaceOf
<1>3. \A id \in Id : JobStage(id)' = IF id \in S THEN "reported" ELSE JobStage(id)
  BY <1>2, Staged, StagedNext
<1>4. Jobs!Move(S, "reported")
  BY <1>3 DEF Jobs!Move
<1>5. S \subseteq Jobs!In({"running", "refused"})
  <2>1. \A id \in S : JobStage(id) \in {"running", "refused"}
    BY <1>1, Staged DEF PlaceOf
  <2>2. QED
    BY <1>1, <2>1 DEF Jobs!In
<1>6. Jobs!Report(S)
  BY <1>4, <1>5 DEF Jobs!Report
<1>7. QED
  BY <1>1, <1>6 DEF Jobs!Next

\* request() gives the next id a place.
LEMMA ContractAsk ==
  ASSUME Table, Table', NEW r, NEW x, Ask(r, x)
  PROVE  Jobs!Next
<1>1. PICK id \in Id : id = issued + 1
  BY DEF Ask
<1>2. /\ issued' = id
      /\ \/ Room /\ table' = table \cup {id} /\ refused' = refused
         \/ refused' = refused \cup {id} /\ table' = table
  BY <1>1 DEF Ask
<1>3. issued \in Nat /\ id \in Nat
  BY <1>1, PendingAssumption DEF Table, Id
<1>4. id > issued /\ \A k \in Id : k # id => (k > issued <=> k > id)
  BY <1>1, <1>3, PendingAssumption DEF Id
<1>5. id \notin table \cup refused
  BY <1>4, Issued
<1>6. JobStage(id) = "new" /\ id \in Jobs!In({"new"})
  <2>1. PlaceOf(id) = "new"
    BY <1>4, <1>5 DEF PlaceOf
  <2>2. QED
    BY <2>1, Staged DEF Jobs!In
<1>7. CASE Room /\ table' = table \cup {id} /\ refused' = refused
  <2>1. \A k \in Id : PlaceOf(k)' = IF k \in {id} THEN "running" ELSE PlaceOf(k)
    BY <1>2, <1>4, <1>7 DEF PlaceOf
  <2>2. Jobs!Move({id}, "running")
    BY <2>1, Staged, StagedNext DEF Jobs!Move
  <2>3. Jobs!In({"running"}) = table
    <3>1. \A k \in Id : JobStage(k) = "running" <=> k \in table
      BY Staged DEF PlaceOf
    <3>2. QED
      BY <3>1, Issued DEF Jobs!In
  <2>4. Cardinality(Jobs!In({"running"})) < MaxPending
    BY <1>7, <2>3 DEF Room
  <2>5. Jobs!Accept(id)
    BY <1>6, <2>2, <2>4 DEF Jobs!Accept, Jobs!Room, Jobs!Cardinality, Cardinality
  <2>6. QED
    BY <2>5 DEF Jobs!Next
<1>8. CASE refused' = refused \cup {id} /\ table' = table
  <2>1. \A k \in Id : PlaceOf(k)' = IF k \in {id} THEN "refused" ELSE PlaceOf(k)
    BY <1>2, <1>4, <1>5, <1>8 DEF PlaceOf
  <2>2. Jobs!Move({id}, "refused")
    BY <2>1, Staged, StagedNext DEF Jobs!Move
  <2>3. Jobs!Refuse(id)
    BY <1>6, <2>2 DEF Jobs!Refuse
  <2>4. QED
    BY <2>3 DEF Jobs!Next
<1>9. QED
  BY <1>2, <1>7, <1>8

LEMMA ContractInit == Init => Jobs!Init
<1> SUFFICES ASSUME Init PROVE Jobs!Init
  OBVIOUS
<1>1. Table /\ table = {} /\ refused = {} /\ issued = 0
  BY InvInit DEF IInv, Init
<1>2. \A id \in Id : id > issued
  BY <1>1 DEF Id
<1>3. \A id \in Id : JobStage(id) = "new"
  BY <1>1, <1>2, Staged DEF PlaceOf
<1>4. QED
  BY <1>3 DEF Jobs!Init

\* Every step is a step of the contract: it asks, or it reports a set of
\* requests, which may be empty.
LEMMA ContractNext == IInv /\ [Next]_vars => Jobs!Next
<1> SUFFICES ASSUME IInv, [Next]_vars PROVE Jobs!Next
  OBVIOUS
<1>1. Table /\ Table'
  BY InvNext DEF IInv
<1>2. ASSUME UNCHANGED <<table, refused, issued>> PROVE Jobs!Next
  <2>1. {} \subseteq table \cup refused /\ table' = table \ {} /\ refused' = refused \ {}
    BY <1>2
  <2>2. QED
    BY <1>1, <1>2, <2>1, ContractReport
<1>3. ASSUME Leave PROVE Jobs!Next
  <2>1. table' = {} /\ UNCHANGED <<refused, issued>>
    BY <1>3 DEF Leave
  <2>2. table \subseteq table \cup refused /\ table' = table \ table /\ refused' = refused \ table
    BY <1>1, <2>1 DEF Table
  <2>3. QED
    BY <1>1, <2>1, <2>2, ContractReport
<1>4. ASSUME NEW r \in Request, NEW x \in Details(r), Ask(r, x) PROVE Jobs!Next
  BY <1>1, <1>4, ContractAsk
<1>5. ASSUME NEW id \in refused, Refuse(id) PROVE Jobs!Next
  <2>1. refused' = refused \ {id} /\ UNCHANGED <<table, issued>>
    BY <1>5 DEF Refuse
  <2>2. table' = table \ {id}
    BY <1>1, <2>1 DEF Table
  <2>3. QED
    BY <1>1, <2>1, <2>2, ContractReport
<1>6. ASSUME NEW q \in queued, Send(q) PROVE Jobs!Next
  BY <1>2, <1>3, <1>6 DEF Send
<1>7. ASSUME NEW S \in SUBSET table, Sweep(S) PROVE Jobs!Next
  <2>1. table' = table \ S /\ UNCHANGED <<refused, issued>>
    BY <1>7 DEF Sweep
  <2>2. S \subseteq table \cup refused /\ refused' = refused \ S
    BY <1>1, <2>1 DEF Table
  <2>3. QED
    BY <1>1, <2>1, <2>2, ContractReport
<1>8. CASE Response
  <2>1. UNCHANGED <<refused, issued>>
    BY <1>8 DEF Response
  <2>2. (\E id \in table : table' = table \ {id}) \/ table' = table
    BY <1>8 DEF Response, Awaited
  <2>3. ASSUME NEW id \in table, table' = table \ {id} PROVE Jobs!Next
    <3>1. {id} \subseteq table \cup refused /\ refused' = refused \ {id}
      BY <1>1, <2>1 DEF Table
    <3>2. QED
      BY <1>1, <2>1, <2>3, <3>1, ContractReport
  <2>4. QED
    BY <1>2, <2>1, <2>2, <2>3
<1>9. CASE Lost
  BY <1>3, <1>9 DEF Lost
<1>10. CASE PairAgain \/ Serve \/ Work \/ Answer \/ HostLost \/ HostRestart \/ Elsewhere
  <2>1. UNCHANGED <<table, refused, issued>>
    BY <1>10 DEF PairAgain, Serve, Work, Answer, HostLost, HostRestart, Elsewhere, deviceVars
  <2>2. QED
    BY <1>2, <2>1
<1>11. CASE UNCHANGED vars
  BY <1>2, <1>11 DEF vars, deviceVars
<1>12. QED
  BY <1>4, <1>5, <1>6, <1>7, <1>8, <1>9, <1>10, <1>11 DEF Next

\* The request table of LanPeer implements the contract of jobs, for any number
\* of requests and any limit: a request is accepted with room in the table or
\* refused, and reported once in a later step, whatever the connection does.
THEOREM JobsImplemented == Spec => ImplementsJobs
<1>1. Init => Jobs!Init
  BY ContractInit
<1>2. IInv /\ [Next]_vars => [Jobs!Next]_(<<TRUE, [id \in Id |-> JobStage(id)]>>)
  BY ContractNext
<1>3. QED
  BY <1>1, <1>2, Invariant, PTL DEF Spec, ImplementsJobs, Jobs!Spec

-----------------------------------------------------------------------------
(* FileProtocolServer *)

\* What the history of a child says by its state: a child that was not started
\* was not asked, a timer runs only for one that was, and a child that was not
\* reported has caused no signal.
Past ==
  \A c \in Child :
    /\ state[c] = "none" => ~asked[c]
    /\ timer[c] => asked[c]
    /\ state[c] # "reported" => failed[c] = "" /\ stopped[c] = 0

\* The flag belongs to the current child.
FlagIsCurrent == process # NoProcess => (stopping <=> asked[process])

FPInv == OneChild /\ FailuresAreReal /\ Past /\ FlagIsCurrent

LEMMA FPInvInit == FPInit => FPInv
<1> SUFFICES ASSUME FPInit PROVE FPInv
  OBVIOUS
<1>1. FPTypeOK
  BY DEF FPInit, FPTypeOK
<1>2. OneChild
  BY <1>1, NoProcessAssumption DEF FPInit, OneChild, Unreported
<1>3. FailuresAreReal /\ Past
  <2>1. \A c \in Child : ~asked[c] /\ ~timer[c]
    BY DEF FPInit
  <2>2. \A c \in Child : stopped[c] = 0
    BY DEF FPInit
  <2>3. \A c \in Child : failed[c] = ""
    BY DEF FPInit
  <2>4. \A c \in Child : stopped[c] # 1
    <3>1. 0 # 1
      OBVIOUS
    <3>2. QED
      BY <2>2, <3>1
  <2>5. FailuresAreReal
    BY <2>3, <2>4 DEF FailuresAreReal
  <2>6. Past
    BY <2>1, <2>2, <2>3 DEF Past
  <2>7. QED
    BY <2>5, <2>6
<1>4. FlagIsCurrent
  BY DEF FPInit, FlagIsCurrent
<1>5. QED
  BY <1>2, <1>3, <1>4 DEF FPInv

-----------------------------------------------------------------------------
\* The report of the current child c keeps the invariant, whether or not the
\* next child n is started in the slot: c is then reported as failed, or was
\* asked to stop.
LEMMA ReportKeeps ==
  ASSUME FPInv, alive, NEW c \in Child, NEW n \in Child \cup {NoProcess}, NEW fails \in BOOLEAN,
         NEW e \in {"server_exited", "backend_start_failed"},
         Unreported(c), ~fails => asked[c], e = "server_exited" /\ fails => ~asked[c],
         Report(c, e, fails, n)
  PROVE  FPInv'
<1>1. /\ FPTypeOK /\ c = process /\ c # NoProcess
      /\ failed[c] = "" /\ stopped[c] = 0
  BY NoProcessAssumption DEF FPInv, OneChild, Past, Unreported
<1>2. /\ failed' \in [Child -> {"", "server_exited", "backend_start_failed"}]
      /\ \A v \in Child \ {c} : failed'[v] = failed[v]
      /\ IF fails THEN failed'[c] = e ELSE failed'[c] = ""
  BY <1>1 DEF Report, FPTypeOK
<1>3. stopped \in [Child -> {0, 1}]
  BY <1>1 DEF FPTypeOK
<1>4. stopped' = [stopped EXCEPT ![c] = 1] /\ UNCHANGED <<alive, asked, killed, timer>>
  <2>1. stopped' = [stopped EXCEPT ![c] = stopped[c] + 1]
    BY DEF Report
  <2>2. stopped[c] = 0
    BY <1>1
  <2>3. stopped[c] + 1 = 1
    BY <2>2
  <2>4. UNCHANGED <<alive, asked, killed, timer>>
    BY DEF Report
  <2>5. QED
    BY <2>1, <2>3, <2>4
<1>5. CASE n = NoProcess
  <2>1. /\ process' = NoProcess /\ stopping' = stopping
        /\ error' = IF fails THEN e ELSE error
        /\ state' = [state EXCEPT ![c] = "reported"]
    BY <1>5 DEF Report
  <2>2. FPTypeOK'
    BY <1>1, <1>2, <1>4, <2>1 DEF FPTypeOK
  <2>3. Past'
    BY <1>1, <1>2, <1>4, <2>1 DEF FPInv, Past, FPTypeOK
  <2>4. OneChild'
    <3>1. \A v \in Child : Unreported(v)' => Unreported(v) /\ v # c
      BY <1>1, <2>1 DEF Unreported, FPTypeOK
    <3>2. \A v \in Child : ~(Unreported(v)')
      BY <1>1, <3>1 DEF FPInv, OneChild
    <3>3. QED
      BY <1>4, <2>1, <2>2, <3>2, NoProcessAssumption DEF FPInv, OneChild
  <2>5. FailuresAreReal'
    BY <1>1, <1>2, <1>4 DEF FPInv, FailuresAreReal, FPTypeOK
  <2>6. QED
    BY <2>1, <2>3, <2>4, <2>5 DEF FPInv, FlagIsCurrent
<1>6. CASE n # NoProcess
  <2>1. /\ n \in Child /\ state[n] = "none" /\ n # c
        /\ process' = n /\ stopping' = FALSE /\ error' = ""
        /\ state' = [state EXCEPT ![c] = "reported", ![n] = "starting"]
    BY <1>6 DEF Report, StoppingAtStart, Unreported
  <2>2. FPTypeOK'
    BY <1>1, <1>2, <1>4, <2>1 DEF FPTypeOK
  <2>3. Past'
    BY <1>1, <1>2, <1>4, <2>1 DEF FPInv, Past, FPTypeOK
  <2>4. OneChild'
    BY <1>1, <1>4, <2>1, <2>2 DEF FPInv, OneChild, Unreported, FPTypeOK
  <2>5. FailuresAreReal'
    BY <1>1, <1>2, <1>4 DEF FPInv, FailuresAreReal, FPTypeOK
  <2>6. FlagIsCurrent'
    BY <1>4, <2>1 DEF FPInv, Past, FlagIsCurrent
  <2>7. QED
    BY <2>3, <2>4, <2>5, <2>6 DEF FPInv
<1>7. QED
  BY <1>5, <1>6

LEMMA FPInvNext == FPInv /\ [FPNext]_fpVars => FPInv'
<1> SUFFICES ASSUME FPInv, [FPNext]_fpVars PROVE FPInv'
  OBVIOUS
<1> USE NoProcessAssumption
<1>t. FPTypeOK
  BY DEF FPInv, OneChild
<1>1. CASE StartRefused
  BY <1>1, <1>t
  DEF StartRefused, FPInv, OneChild, FPTypeOK, Unreported, FailuresAreReal, Past, FlagIsCurrent
<1>2. CASE Stop
  <2>1. process \in Child /\ Unreported(process)
    BY <1>2, <1>t DEF Stop, FPInv, OneChild, FPTypeOK
  <2>2. failed[process] = ""
    BY <2>1 DEF FPInv, Past, Unreported
  <2>3. FPTypeOK'
    BY <1>2, <1>t DEF Stop, Arm, FPTypeOK
  <2>4. OneChild' /\ Past' /\ FlagIsCurrent'
    BY <1>2, <1>t, <2>1, <2>3
    DEF Stop, Arm, FPInv, OneChild, Past, FlagIsCurrent, FPTypeOK, Unreported
  <2>5. FailuresAreReal'
    BY <1>2, <1>t, <2>1, <2>2 DEF Stop, FPInv, FailuresAreReal, FPTypeOK
  <2>6. QED
    BY <2>4, <2>5 DEF FPInv
<1>3. CASE Destroy
  <2>1. FPTypeOK'
    BY <1>3, <1>t DEF Destroy, FPTypeOK
  <2>2. OneChild' /\ Past'
    BY <1>3, <1>t, <2>1 DEF Destroy, FPInv, OneChild, Past, FPTypeOK, Unreported
  <2>3. FailuresAreReal' /\ FlagIsCurrent'
    BY <1>3 DEF Destroy, FPInv, FailuresAreReal, FlagIsCurrent
  <2>4. QED
    BY <2>2, <2>3 DEF FPInv
<1>4. ASSUME NEW c \in Child, Start(c) PROVE FPInv'
  <2>1. FPTypeOK'
    BY <1>4, <1>t DEF Start, StoppingAtStart, FPTypeOK
  <2>2. OneChild' /\ Past'
    BY <1>4, <1>t, <2>1 DEF Start, Idle, FPInv, OneChild, Past, FPTypeOK, Unreported
  <2>3. FailuresAreReal' /\ FlagIsCurrent'
    BY <1>4 DEF Start, StoppingAtStart, FPInv, FailuresAreReal, FlagIsCurrent, Past
  <2>4. QED
    BY <2>2, <2>3 DEF FPInv
<1>5. ASSUME NEW c \in Child, KillTimer(c) PROVE FPInv'
  <2>1. FPTypeOK'
    BY <1>5, <1>t DEF KillTimer, FPTypeOK
  <2>2. \A v \in Child : killed'[v] => asked[v]
    BY <1>5, <1>t DEF KillTimer, Victim, FPInv, OneChild, Past
  <2>3. OneChild' /\ Past'
    BY <1>5, <1>t, <2>1, <2>2 DEF KillTimer, FPInv, OneChild, Past, FPTypeOK, Unreported
  <2>4. FailuresAreReal' /\ FlagIsCurrent'
    BY <1>5 DEF KillTimer, FPInv, FailuresAreReal, FlagIsCurrent
  <2>5. QED
    BY <2>3, <2>4 DEF FPInv
<1>6. ASSUME NEW c \in Child, Deleted(c) PROVE FPInv'
  BY <1>6, <1>t
  DEF Deleted, FPInv, OneChild, FPTypeOK, Unreported, FailuresAreReal, Past, FlagIsCurrent
<1>7. ASSUME NEW c \in Child, Started(c) PROVE FPInv'
  <2>1. FPTypeOK'
    BY <1>7, <1>t DEF Started, FPTypeOK
  <2>2. OneChild' /\ Past'
    BY <1>7, <1>t, <2>1 DEF Started, FPInv, OneChild, Past, FPTypeOK, Unreported
  <2>3. FailuresAreReal' /\ FlagIsCurrent'
    BY <1>7 DEF Started, FPInv, FailuresAreReal, FlagIsCurrent
  <2>4. QED
    BY <2>2, <2>3 DEF FPInv
<1>8. ASSUME NEW c \in Child, Ended(c) PROVE FPInv'
  <2>1. FPTypeOK'
    BY <1>8, <1>t DEF Ended, FPTypeOK
  <2>2. OneChild' /\ Past'
    BY <1>8, <1>t, <2>1 DEF Ended, FPInv, OneChild, Past, FPTypeOK, Unreported
  <2>3. FailuresAreReal' /\ FlagIsCurrent'
    BY <1>8 DEF Ended, FPInv, FailuresAreReal, FlagIsCurrent
  <2>4. QED
    BY <2>2, <2>3 DEF FPInv
<1>9. ASSUME NEW c \in Child, NEW n \in Child \cup {NoProcess}, Finished(c, n) PROVE FPInv'
  <2>1. Unreported(c) /\ c = process /\ c # NoProcess
    BY <1>9 DEF Finished, Unreported, FPInv, OneChild
  <2>2. stopping <=> asked[c]
    BY <2>1 DEF FPInv, FlagIsCurrent
  <2>3. (~stopping) \in BOOLEAN
    OBVIOUS
  <2>4. QED
    BY <1>9, <2>1, <2>2, <2>3, ReportKeeps DEF Finished
<1>10. ASSUME NEW c \in Child, NEW n \in Child \cup {NoProcess}, FailedToStart(c, n) PROVE FPInv'
  BY <1>10, ReportKeeps DEF FailedToStart, Unreported
<1>11. CASE UNCHANGED fpVars
  BY <1>11, <1>t
  DEF fpVars, FPInv, OneChild, FPTypeOK, Unreported, FailuresAreReal, Past, FlagIsCurrent
<1>12. QED
  BY <1>1, <1>2, <1>3, <1>4, <1>5, <1>6, <1>7, <1>8, <1>9, <1>10, <1>11 DEF FPNext, Step

LEMMA FPInvariant == FPSpec => []FPInv
  BY FPInvInit, FPInvNext, PTL DEF FPSpec

-----------------------------------------------------------------------------
\* However children follow each other, also when one is started in the slot
\* that reports another, a process that is not reported is the current one, and
\* only a child that stop() was called for is killed.
THEOREM ChildIsOwned == FPSpec => []OneChild
<1>1. FPInv => OneChild
  BY DEF FPInv
<1>2. QED
  BY FPInvariant, <1>1, PTL

\* failed() is emitted for the ends that nobody asked for and for no others,
\* though one flag serves all children.
THEOREM FailuresReported == FPSpec => []FailuresAreReal
<1>1. FPInv => FailuresAreReal
  BY DEF FPInv
<1>2. QED
  BY FPInvariant, <1>1, PTL
=============================================================================
