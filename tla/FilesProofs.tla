---------------------------- MODULE FilesProofs ----------------------------
(***************************************************************************)
(* Moves and copies lose nothing and report the truth, for any set of      *)
(* paths, any writes of others and any failure: of a directory, unless its *)
(* destination lies inside it, each file that has one path on each side,   *)
(* and of a single file.                                                   *)
(***************************************************************************)
EXTENDS MCFiles, TLAPS

\* Which part moves is settled at the start, and the other one stands still.
LEMMA OnePartMoves ==
  ASSUME [FilesNext]_<<what, vars, fileVars>>
  PROVE  /\ what' = what
         /\ what = "directory" => [Next]_vars
         /\ what = "file" => [File!Next]_fileVars
BY DEF FilesNext, vars, fileVars

----------------------------------------------------------------------------
(* A directory *)

\* The files walked that nobody else writes and that no path of the destination leads to.
Walked == Paths \ (Ignored \cup touched \cup Shared)

\* While it is not decided that anything be written, nothing is.
NotBegun ==
  at \in {"called", "refused", "walking", "linked"} =>
    /\ dst = before.dst /\ dstExists = before.dstExists
    /\ \A f \in Paths \ touched : src[f] = before.src[f]

\* A walked file is where it was or, in a move, where it goes; its copy is whole once it
\* is out of todo, and the source goes only when all of them are.
Tracked(f) ==
  /\ \/ src[f] = before.src[f]
     \/ call.op = "move" /\ src[f] = None /\ dst[f] = before.src[f]
  /\ before.src[f] = None => dst[f] = before.dst[f]
  /\ at = "copying" =>
       /\ src[f] = before.src[f]
       /\ f \in todo => src[f] # None
       /\ f \notin todo /\ src[f] # None => dst[f] = src[f]
  /\ at \in {"removing", "done"} /\ before.src[f] # None => dst[f] = before.src[f]

DirectoryInv ==
  /\ \A f \in DOMAIN call.over : f \in Paths \ Ignored /\ call.over[f] \in Paths \ Ignored
  /\ src \in Trees /\ dst \in Trees
  /\ todo \subseteq Paths \ Ignored
  /\ at = "called" /\ ~dstExists => dst = Empty /\ DOMAIN call.over = {}
  /\ at = "removing" => call.op = "move"
  /\ at = "done" /\ call.op = "move" => src = Empty
  /\ NotBegun
  /\ \A f \in Walked : Tracked(f)

LEMMA DirectoryInit == Init => DirectoryInv
<1>. SUFFICES ASSUME Init PROVE DirectoryInv
  OBVIOUS
<1>1. before.src = src /\ before.dst = dst /\ before.dstExists = dstExists
  BY DEF Init
<1>2. src \in Trees /\ dst \in Trees
  BY DEF Init, Trees, Empty, Kinds, None
<1>3. DOMAIN Apart = {}
  BY DEF Apart
<1>4. /\ \A f \in DOMAIN call.over : f \in Paths \ Ignored /\ call.over[f] \in Paths \ Ignored
      /\ ~dstExists => DOMAIN call.over = {}
  <2>1. call.over \in Overlaps /\ (call.over # Apart => dstExists)
    BY DEF Init
  <2>2. CASE call.over = Apart
    BY <1>3, <2>2
  <2>3. CASE call.over # Apart
    <3>1. PICK S \in SUBSET (Paths \ Ignored) : call.over \in [S -> Paths \ Ignored]
      BY <2>1, <2>3 DEF Overlaps
    <3>. QED  BY <2>1, <2>3, <3>1
  <2>. QED  BY <2>2, <2>3
<1>. QED
  BY <1>1, <1>2, <1>4 DEF Init, DirectoryInv, NotBegun, Walked, Tracked

\* What a copy writes is what the source had, nothing or half a file, and it writes to
\* the destination, or to a file of the source that is shared.
LEMMA Landed ==
  ASSUME DirectoryInv, NEW f \in Paths \ Ignored,
         NEW content \in Paths \cup Kinds, Lands(f, content)
  PROVE  /\ src' \in Trees /\ dst' \in Trees
         /\ \A g \in Paths \ Shared : src'[g] = src[g]
         /\ \A g \in Ignored : src'[g] = src[g]
         /\ \A g \in Paths \ {f} : dst'[g] = dst[g]
         /\ f \notin Shared => dst'[f] = content
<1>1. CASE f \in DOMAIN call.over
  <2>1. call.over[f] \in Paths \ Ignored /\ call.over[f] \in Shared /\ f \in Shared
    BY <1>1 DEF DirectoryInv, Shared
  <2>. DEFINE t == call.over[f]
  <2>2. src' = [src EXCEPT ![t] = content] /\ dst' = dst
    BY <1>1 DEF Lands
  <2>3. t \in Paths \ Ignored /\ t \in Shared /\ Ignored \subseteq Paths
    BY <2>1, DirectoryMoveAssumption
  <2>. HIDE DEF t
  <2>. QED  BY <2>1, <2>2, <2>3 DEF DirectoryInv, Trees
<1>2. CASE f \notin DOMAIN call.over
  BY <1>2 DEF Lands, DirectoryInv, Trees
<1>. QED  BY <1>1, <1>2

LEMMA DirectoryStep ==
  ASSUME ~Nested, DirectoryInv, [Next]_vars
  PROVE  DirectoryInv'
<1>. USE DEF DirectoryInv, Walked, Trees, Kinds, None, Shared
<1>1. CASE Refuse \/ RenameFails \/ CrossesDevices
  BY <1>1 DEF Refuse, RenameFails, CrossesDevices, Renames, NotBegun, Tracked
<1>2. CASE Rename
  BY <1>2 DEF Rename, Renames, NotBegun, Tracked, Empty
<1>3. CASE Walk
  BY <1>3 DEF Walk, Walks, In, NotBegun, Tracked
<1>4. CASE WalkRejects \/ WalkFails
  BY <1>4 DEF WalkRejects, WalkFails, Walks, NotBegun, Tracked
<1>5. CASE CopyEnds
  BY <1>5 DEF CopyEnds, NotBegun, Tracked
<1>6. CASE RemoveFails \/ RemoveEnds
  BY <1>6, ~Nested DEF RemoveFails, RemoveEnds, NotBegun, Tracked
<1>7. ASSUME NEW f \in Paths, CopyFile(f) PROVE DirectoryInv'
  <2>1. /\ at = "copying" /\ f \in todo /\ f \in Paths \ Ignored /\ src[f] # None
        /\ todo' = todo \ {f} /\ UNCHANGED <<call, before, dstExists, touched, at>>
        /\ Lands(f, src[f]) /\ src[f] \in Paths \cup Kinds
    BY <1>7 DEF CopyFile
  <2>2. /\ src' \in Trees /\ dst' \in Trees
        /\ \A g \in Paths \ Shared : src'[g] = src[g]
        /\ \A g \in Paths \ {f} : dst'[g] = dst[g]
        /\ f \notin Shared => dst'[f] = src[f]
    BY <2>1, Landed
  <2>3. ASSUME NEW g \in Walked PROVE Tracked(g)'
    BY <2>1, <2>2, <2>3 DEF Tracked
  <2>4. Walked' = Walked
    BY <2>1
  <2>. QED  BY <2>1, <2>2, <2>3, <2>4 DEF NotBegun
<1>8. ASSUME NEW f \in Paths, CopyFails(f) PROVE DirectoryInv'
  <2>1. /\ at = "copying" /\ f \in todo /\ f \in Paths \ Ignored
        /\ at' = "failed" /\ UNCHANGED <<call, before, dstExists, todo, touched>>
    BY <1>8 DEF CopyFails
  <2>2. /\ src' \in Trees /\ dst' \in Trees
        /\ \A g \in Paths \ Shared : src'[g] = src[g]
        /\ \A g \in Paths \ {f} : dst'[g] = dst[g]
    <3>1. CASE UNCHANGED <<src, dst>>
      BY <3>1
    <3>2. ASSUME NEW left \in {src[f], None, "half"}, Lands(f, left)
          PROVE  /\ src' \in Trees /\ dst' \in Trees
                 /\ \A g \in Paths \ Shared : src'[g] = src[g]
                 /\ \A g \in Paths \ {f} : dst'[g] = dst[g]
      <4>1. left \in Paths \cup Kinds
        BY <2>1, <3>2
      <4>. QED  BY <2>1, <3>2, <4>1, Landed
    <3>. QED  BY <1>8, <3>1, <3>2 DEF CopyFails
  <2>3. ASSUME NEW g \in Walked PROVE Tracked(g)'
    <3>1. g \in Paths \ Shared /\ Tracked(g) /\ src'[g] = src[g]
      BY <2>2, <2>3
    <3>2. src[g] = before.src[g] /\ (g = f => before.src[g] # None)
      BY <2>1, <3>1 DEF Tracked
    <3>. QED  BY <2>1, <2>2, <3>1, <3>2 DEF Tracked
  <2>4. Walked' = Walked
    BY <2>1
  <2>. QED  BY <2>1, <2>2, <2>3, <2>4 DEF NotBegun
<1>9. ASSUME NEW f \in Paths, Remove(f) PROVE DirectoryInv'
  BY <1>9, ~Nested DEF Remove, NotBegun, Tracked
<1>10. ASSUME NEW f \in Paths, Write(f) PROVE DirectoryInv'
  BY <1>10 DEF Write, NotBegun, Tracked
<1>11. CASE UNCHANGED vars
  BY <1>11 DEF vars, NotBegun, Tracked
<1>. QED
  BY <1>1, <1>2, <1>3, <1>4, <1>5, <1>6, <1>7, <1>8, <1>9, <1>10, <1>11 DEF Next

LEMMA DirectoryInvHolds ==
  ASSUME ~Nested
  PROVE  FilesSpec => [](what = "directory" => DirectoryInv)
<1>1. FilesInit => (what = "directory" => DirectoryInv)
  BY DirectoryInit DEF FilesInit
<1>2. (what = "directory" => DirectoryInv) /\ [FilesNext]_<<what, vars, fileVars>>
        => (what = "directory" => DirectoryInv)'
  BY OnePartMoves, DirectoryStep
<1>. QED  BY <1>1, <1>2, PTL DEF FilesSpec

\* moveDirectory and copyDirectory: wherever a system call fails or the server dies, each
\* walked file that nobody else wrote, and that no path of the destination leads to, is
\* whole on one side, and files of the destination that the source has no match for are as
\* they were.
THEOREM NoTreeIsLost ==
  ASSUME ~Nested
  PROVE  FilesSpec => []TreesAreKept
<1>1. (what = "directory" => DirectoryInv) => TreesAreKept
  <2>. SUFFICES ASSUME DirectoryInv, NEW f \in Walked PROVE Kept(f)
    BY DEF TreesAreKept, NothingLost, Walked
  <2>1. Tracked(f) /\ Target(f) = dst[f] /\ f \in Paths
    BY DEF DirectoryInv, Target, Walked, Shared
  <2>. QED  BY <2>1 DEF Tracked, Kept
<1>. QED  BY <1>1, DirectoryInvHolds, PTL

\* A move or copy that is reported done is complete, but for files that a path of the
\* destination leads to, and one that is refused has changed nothing.
THEOREM ReportsAreTrue ==
  ASSUME ~Nested
  PROVE  FilesSpec => []EndsAreTrue
<1>1. (what = "directory" => DirectoryInv) => EndsAreTrue
  BY DEF DirectoryInv, Walked, Tracked, NotBegun, EndsAreTrue, DoneIsDone, AbortsUnwritten
<1>. QED  BY <1>1, DirectoryInvHolds, PTL

\* At any moment, a file that nobody else wrote, with one path on each side, and that
\* neither side holds any more is one that MCP_IGNORE hides from the walk, and it stood in
\* the source of a move only.
OnlyIgnoredGo ==
  \A f \in Paths \ (touched \cup Shared) :
    (before.src[f] # None \/ before.dst[f] # None) /\ f \notin In(src) \cup In(dst)
      => f \in Ignored /\ call.op = "move" /\ before.dst[f] = None

\* What the walk does not look at stays where it is, but for a rename and for rmSync.
IgnoredInv ==
  \A f \in Ignored \ touched :
    /\ call.op # "move" => src[f] = before.src[f]
    /\ \/ dst[f] = before.dst[f]
       \/ call.op = "move" /\ before.dst[f] = None /\ dst[f] = before.src[f]

LEMMA IgnoredStep ==
  ASSUME ~Nested, DirectoryInv, IgnoredInv, [Next]_vars
  PROVE  IgnoredInv'
<1>. USE DEF IgnoredInv
<1>1. CASE Rename
  <2>1. /\ src' = Empty /\ dst' = src /\ call.op = "move" /\ UNCHANGED <<call, before, touched>>
        /\ \A f \in Paths \ touched : src[f] = before.src[f] /\ before.dst[f] = None
    BY <1>1 DEF Rename, Renames, DirectoryInv, NotBegun, Empty
  <2>2. Ignored \subseteq Paths
    BY DirectoryMoveAssumption
  <2>. QED  BY <2>1, <2>2
<1>2. ASSUME NEW f \in Paths, CopyFile(f) \/ CopyFails(f) PROVE IgnoredInv'
  <2>1. f \in Paths \ Ignored /\ UNCHANGED <<call, before, touched>>
    BY <1>2 DEF CopyFile, CopyFails, DirectoryInv
  <2>2. ASSUME NEW left \in {src[f], None, "half"}, Lands(f, left)
        PROVE  /\ \A g \in Ignored : src'[g] = src[g]
               /\ \A g \in Paths \ {f} : dst'[g] = dst[g]
    <3>1. left \in Paths \cup Kinds
      BY <2>1, <2>2 DEF DirectoryInv, Trees, Kinds, None
    <3>. QED  BY <2>1, <2>2, <3>1, Landed
  <2>3. /\ \A g \in Ignored : src'[g] = src[g]
        /\ \A g \in Paths \ {f} : dst'[g] = dst[g]
    BY <1>2, <2>2 DEF CopyFile, CopyFails
  <2>4. Ignored \subseteq Paths
    BY DirectoryMoveAssumption
  <2>. QED  BY <2>1, <2>3, <2>4
<1>3. ASSUME NEW f \in Paths, Remove(f) PROVE IgnoredInv'
  BY <1>3, ~Nested DEF Remove, DirectoryInv
<1>4. ASSUME NEW f \in Paths, Write(f) PROVE IgnoredInv'
  <2>1. /\ touched' = touched \cup {f} /\ UNCHANGED <<call, before, dst>>
        /\ \A g \in Paths \ {f} : src'[g] = src[g]
    BY <1>4 DEF Write, DirectoryInv, Trees
  <2>2. Ignored \subseteq Paths
    BY DirectoryMoveAssumption
  <2>. QED  BY <2>1, <2>2
<1>5. CASE UNCHANGED <<call, before, src, dst, touched>>
  BY <1>5
<1>6. ASSUME \/ Refuse \/ RenameFails \/ CrossesDevices \/ Walk \/ WalkRejects \/ WalkFails
             \/ CopyEnds \/ RemoveFails \/ RemoveEnds \/ UNCHANGED vars
      PROVE  UNCHANGED <<call, before, src, dst, touched>>
  BY <1>6 DEF Refuse, RenameFails, CrossesDevices, Walk, WalkRejects, WalkFails, CopyEnds,
              RemoveFails, RemoveEnds, vars
<1>. QED  BY <1>1, <1>2, <1>3, <1>4, <1>5, <1>6 DEF Next

\* moveDirectory and copyDirectory lose no file with one path on each side but, in a move,
\* those of the source that are ignored: the walk passes over them and rmSync takes them
\* with the rest.
THEOREM OnlyIgnoredAreLost ==
  ASSUME ~Nested
  PROVE  Spec => []OnlyIgnoredGo
<1>1. Init => DirectoryInv /\ IgnoredInv
  BY DirectoryInit DEF Init, IgnoredInv
<1>2. DirectoryInv /\ IgnoredInv /\ [Next]_vars => DirectoryInv' /\ IgnoredInv'
  BY DirectoryStep, IgnoredStep
<1>3. DirectoryInv /\ IgnoredInv => OnlyIgnoredGo
  <2>. SUFFICES ASSUME DirectoryInv, IgnoredInv, NEW f \in Paths \ (touched \cup Shared),
                       before.src[f] # None \/ before.dst[f] # None,
                       src[f] = None, dst[f] = None
                PROVE  f \in Ignored /\ call.op = "move" /\ before.dst[f] = None
    BY DEF OnlyIgnoredGo, In
  <2>1. f \in Ignored
    BY DEF DirectoryInv, Walked, Tracked, None
  <2>. QED  BY <2>1 DEF IgnoredInv
<1>. QED  BY <1>1, <1>2, <1>3, PTL DEF Spec

\* So an entire tree moves if nothing in it is ignored, and no path of the destination leads
\* into it: the conditions that the run move_ignored and section 5 of the README do without.
COROLLARY TreesMoveEntirely ==
  ASSUME ~Nested, ~Overlapping, Ignored = {}
  PROVE  Spec => []EntireTreeMoves
<1>1. Init => call.over = Apart
  BY ~Overlapping DEF Init, Overlaps
<1>2. call.over = Apart /\ [Next]_vars => (call.over = Apart)'
  <2>1. [Next]_vars => call' = call
    BY DEF Next, vars, Refuse, Rename, RenameFails, CrossesDevices, Walk, WalkRejects,
           WalkFails, CopyEnds, RemoveFails, RemoveEnds, CopyFile, CopyFails, Remove, Write
  <2>. QED  BY <2>1
<1>3. OnlyIgnoredGo /\ call.over = Apart => EntireTreeMoves
  <2>1. DOMAIN Apart = {}
    BY DEF Apart
  <2>2. call.over = Apart => Shared = {} /\ \A f : Target(f) = dst[f]
    BY <2>1 DEF Shared, Target
  <2>. QED  BY <2>2, Ignored = {} DEF OnlyIgnoredGo, EntireTreeMoves, In
<1>. QED  BY <1>1, <1>2, <1>3, OnlyIgnoredAreLost, PTL DEF Spec

\* A call that walked its tree to the end found no link in it.
NoLink == \A f \in Paths \ Ignored : before.src[f] # "link"

LinkInv ==
  /\ at = "called" => dstExists = before.dstExists
  /\ at \in {"called", "walking"} =>
       \A f \in Paths : before.src[f] = "link" => src[f] = "link"
  /\ at \in {"copying", "removing"} => NoLink
  /\ at = "done" /\ (call.op = "copy" \/ before.dstExists) => NoLink

\* A symlink anywhere in what is walked aborts every copy, and every move to a destination
\* that is there already; only the rename at the head of moveDirectory does not look.
THEOREM LinksAbortUnlessRenamed ==
  Spec => [](call.op = "copy" \/ before.dstExists => LinksAbort)
<1>. USE DEF LinkInv, NoLink
<1>1. Init => LinkInv
  BY DEF Init
<1>2. LinkInv /\ [Next]_vars => LinkInv'
  <2>. SUFFICES ASSUME LinkInv, [Next]_vars PROVE LinkInv'
    OBVIOUS
  <2>1. CASE Refuse \/ RenameFails \/ CrossesDevices
    BY <2>1 DEF Refuse, RenameFails, CrossesDevices, Renames
  <2>2. CASE Rename
    BY <2>2 DEF Rename, Renames
  <2>3. CASE Walk
    BY <2>3 DEF Walk, Walks, Linked, In, None
  <2>4. CASE WalkRejects \/ WalkFails \/ CopyEnds
    BY <2>4 DEF WalkRejects, WalkFails, CopyEnds, Walks
  <2>5. CASE RemoveFails \/ RemoveEnds
    BY <2>5 DEF RemoveFails, RemoveEnds
  <2>6. ASSUME NEW f \in Paths, CopyFile(f) \/ CopyFails(f) \/ Remove(f) PROVE LinkInv'
    BY <2>6 DEF CopyFile, CopyFails, Remove
  <2>7. ASSUME NEW f \in Paths, Write(f) PROVE LinkInv'
    <3>1. \A g \in Paths : src[g] = "link" => src'[g] = "link"
      BY <2>7 DEF Write
    <3>. QED  BY <2>7, <3>1 DEF Write
  <2>8. CASE UNCHANGED vars
    BY <2>8 DEF vars
  <2>. QED  BY <2>1, <2>2, <2>3, <2>4, <2>5, <2>6, <2>7, <2>8 DEF Next
<1>3. LinkInv => (call.op = "copy" \/ before.dstExists => LinksAbort)
  BY DEF LinksAbort
<1>. QED  BY <1>1, <1>2, <1>3, PTL DEF Spec

----------------------------------------------------------------------------
(* A single file *)

\* The source stays until the destination is whole.
FileInv ==
  /\ source = "ours" \/ stage = "done"
  /\ stage = "copied" => target = "ours" /\ file.op = "move"
  /\ File!FileIsWhole

\* moveFile and copyFile: wherever they fail or the server dies, the file is whole at one
\* of the two places; an answered call has put it at its destination.
THEOREM FilesAreWhole == FilesSpec => []FileIsWhole
<1>. USE DEF FileInv, File!FileIsWhole, File!None
<1>1. FilesInit => (what = "file" => FileInv)
  BY DEF FilesInit, File!Init
<1>2. FileInv /\ [File!Next]_fileVars => FileInv'
  <2>. SUFFICES ASSUME FileInv, [File!Next]_fileVars PROVE FileInv'
    OBVIOUS
  <2>1. CASE File!Validate \/ File!Fails \/ File!Dies \/ File!RivalCreates
    BY <2>1 DEF File!Validate, File!Fails, File!Dies, File!RivalCreates
  <2>2. CASE File!Rename
    BY <2>2 DEF File!Rename, File!Put
  <2>3. CASE File!CopyBegins \/ File!CopyEnds
    BY <2>3 DEF File!CopyBegins, File!CopyEnds, File!Put
  <2>4. CASE File!Unlink
    BY <2>4 DEF File!Unlink
  <2>5. CASE UNCHANGED fileVars
    BY <2>5 DEF fileVars
  <2>. QED  BY <2>1, <2>2, <2>3, <2>4, <2>5 DEF File!Next
<1>3. (what = "file" => FileInv) /\ [FilesNext]_<<what, vars, fileVars>>
        => (what = "file" => FileInv)'
  BY <1>2, OnePartMoves
<1>4. (what = "file" => FileInv) => FileIsWhole
  BY DEF FileIsWhole
<1>. QED  BY <1>1, <1>3, <1>4, PTL DEF FilesSpec
=============================================================================
