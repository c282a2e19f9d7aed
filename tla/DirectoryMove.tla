--------------------------- MODULE DirectoryMove ---------------------------
(***************************************************************************)
(* move_directory and copy_directory (lib/moveDirOps.js) on one source and *)
(* one destination tree, which the checks on roots have let through.  The  *)
(* call blocks the server, but any system call of it may fail, the server  *)
(* may die between two of them, and processes the server started go on     *)
(* writing to the source.  A directory moved onto itself is left alone and *)
(* left out here.                                                          *)
(*                                                                         *)
(* A tree is the files at its relative paths; directories are not kept.    *)
(* Nested says that the destination lies inside the source.  Then the walk *)
(* also copies the destination's own files, a level deeper in it, which    *)
(* changes none of the files followed here.                                *)
(*                                                                         *)
(* The other way round, a path of the destination may lead to a file of    *)
(* the source (Overlapping): because the source lies inside the            *)
(* destination, so that "b/x" there is "x" here, or because the destination*)
(* has a symlink there.  Hard links, which do the same harm until the      *)
(* source is removed, are left out.                                        *)
(***************************************************************************)
EXTENDS Naturals, FiniteSets

CONSTANTS
  Paths,         \* relative paths
  Ignored,       \* those the walk passes over: MCP_IGNORE matches them, or they are no files
  Nested,
  Overlapping,   \* whether paths of the destination may lead to files of the source
  MaxWrites      \* bound: writes of other processes

\* What is at a path: nothing, a file that the source had at some path when the call came
\* (it goes by that path), one of the destination's, what another process wrote, half a
\* file, or a symlink.
None == "none"
Kinds == {None, "theirs", "written", "half", "link"}

ASSUME DirectoryMoveAssumption ==
  /\ Ignored \subseteq Paths /\ Paths \cap Kinds = {}
  /\ Nested \in BOOLEAN /\ Overlapping \in BOOLEAN
  /\ MaxWrites \in Nat

VARIABLES
  call,        \* the operation, its overwrite, and which paths of the destination lead to
               \* which of the source
  before,      \* the two trees as the call found them, and whether there was a dst
  src, dst,    \* the trees
  dstExists,
  todo,        \* files walked and not copied yet
  touched,     \* files that others wrote since the call began
  at           \* where the call is, or how it ended

vars == <<call, before, src, dst, dstExists, todo, touched, at>>

Empty == [f \in Paths |-> None]
In(tree) == {f \in Paths : tree[f] # None}

\* Partial maps from paths of the destination to the source's that they lead to.
Apart == [f \in {} |-> f]
Overlaps ==
  IF Overlapping THEN UNION {[S -> Paths \ Ignored] : S \in SUBSET (Paths \ Ignored)}
                 ELSE {Apart}

\* The files that have a path on both sides, and those that such a path stands for.
Shared == DOMAIN call.over \cup {call.over[f] : f \in DOMAIN call.over}

\* What the destination has at a path, wherever it leads.
Target(f) == IF f \in DOMAIN call.over THEN src[call.over[f]] ELSE dst[f]

Init ==
  /\ call \in [op : {"move", "copy"}, overwrite : BOOLEAN, over : Overlaps]
  /\ src \in {tree \in [Paths -> Paths \cup {None, "link"}] :
               \A f \in Paths : tree[f] \in {f, None, "link"}}
  /\ dstExists \in BOOLEAN
  /\ dst \in IF dstExists THEN [Paths -> {None, "theirs"}] ELSE {Empty}
  /\ call.over # Apart => dstExists
  /\ \A f \in DOMAIN call.over : dst[f] = None
  /\ before = [src |-> src, dst |-> dst, dstExists |-> dstExists]
  /\ todo = {} /\ touched = {}
  /\ at = "called"

----------------------------------------------------------------------------

\* validateDirOp
Refuse ==
  /\ at = "called"
  /\ dstExists /\ ~call.overwrite
  /\ at' = "refused"
  /\ UNCHANGED <<call, before, src, dst, dstExists, todo, touched>>

Renames == at = "called" /\ call.op = "move" /\ ~dstExists

\* No system renames a directory into itself.
Rename ==
  /\ Renames /\ ~Nested
  /\ dst' = src /\ src' = Empty /\ dstExists' = TRUE
  /\ at' = "done"
  /\ UNCHANGED <<call, before, todo, touched>>

RenameFails ==
  /\ Renames
  /\ at' = "failed"
  /\ UNCHANGED <<call, before, src, dst, dstExists, todo, touched>>

\* EXDEV: go on by copying, from here on as if to an existing destination.
CrossesDevices ==
  /\ Renames /\ ~Nested
  /\ at' = "walking"
  /\ UNCHANGED <<call, before, src, dst, dstExists, todo, touched>>

Walks ==
  \/ at = "walking"
  \/ at = "called" /\ IF dstExists THEN call.overwrite ELSE call.op = "copy"

\* walkTree: what is ignored is not looked at; a link ends the call.
Linked == \E f \in In(src) \ Ignored : src[f] = "link"

\* Mutant: files the destination has already are passed over.
WalkMissing ==
  /\ Walks /\ ~Linked
  /\ todo' = In(src) \ (Ignored \cup In(dst))
  /\ dstExists' = TRUE
  /\ at' = "copying"
  /\ UNCHANGED <<call, before, src, dst, touched>>

Walk ==
  /\ Walks /\ ~Linked
  /\ todo' = In(src) \ Ignored
  /\ dstExists' = TRUE
  /\ at' = "copying"
  /\ UNCHANGED <<call, before, src, dst, touched>>

\* Mutant: the destination is made before the walk.
RejectsLate ==
  /\ Walks /\ Linked
  /\ dstExists' = TRUE
  /\ at' = "linked"
  /\ UNCHANGED <<call, before, src, dst, todo, touched>>

WalkRejects ==
  /\ Walks /\ Linked
  /\ at' = "linked"
  /\ UNCHANGED <<call, before, src, dst, dstExists, todo, touched>>

WalkFails ==
  /\ Walks
  /\ at' = "failed"
  /\ UNCHANGED <<call, before, src, dst, dstExists, todo, touched>>

\* Something is written to a path of the destination, or to the source's it leads to.
Lands(f, content) ==
  IF f \in DOMAIN call.over
  THEN src' = [src EXCEPT ![call.over[f]] = content] /\ UNCHANGED dst
  ELSE dst' = [dst EXCEPT ![f] = content] /\ UNCHANGED src

\* A file copied onto itself stays as it is.
CopyFile(f) ==
  /\ at = "copying" /\ f \in todo /\ src[f] # None
  /\ Lands(f, src[f])
  /\ todo' = todo \ {f}
  /\ UNCHANGED <<call, before, dstExists, touched, at>>

\* ... and may leave what was there, the new file, nothing, or half of it.
CopyFails(f) ==
  /\ at = "copying" /\ f \in todo
  /\ \/ UNCHANGED <<src, dst>>
     \/ /\ ~(f \in DOMAIN call.over /\ call.over[f] = f)
        /\ \E left \in {src[f], None, "half"} : Lands(f, left)
  /\ at' = "failed"
  /\ UNCHANGED <<call, before, dstExists, todo, touched>>

CopyEnds ==
  /\ at = "copying" /\ todo = {}
  /\ at' = IF call.op = "move" THEN "removing" ELSE "done"
  /\ UNCHANGED <<call, before, src, dst, dstExists, todo, touched>>

\* Mutant: the removal does not wait for the copying.
RemoveAhead(f) ==
  /\ at \in {"copying", "removing"} /\ call.op = "move"
  /\ src[f] # None
  /\ src' = [src EXCEPT ![f] = None]
  /\ UNCHANGED <<call, before, dst, dstExists, todo, touched, at>>

\* rmSync of the source, file by file: the ignored ones, and the destination when it is
\* inside, with the rest.
Remove(f) ==
  /\ at = "removing"
  /\ \/ /\ src[f] # None
        /\ src' = [src EXCEPT ![f] = None]
        /\ UNCHANGED dst
     \/ /\ Nested /\ dst[f] # None
        /\ dst' = [dst EXCEPT ![f] = None]
        /\ UNCHANGED src
  /\ UNCHANGED <<call, before, dstExists, todo, touched, at>>

RemoveFails ==
  /\ at = "removing"
  /\ at' = "failed"
  /\ UNCHANGED <<call, before, src, dst, dstExists, todo, touched>>

RemoveEnds ==
  /\ at = "removing" /\ src = Empty
  /\ Nested => dst = Empty
  /\ dstExists' = ~Nested
  /\ at' = "done"
  /\ UNCHANGED <<call, before, src, dst, todo, touched>>

\* Another process writes a file of the source.
Write(f) ==
  /\ at \in {"walking", "copying", "removing"}
  /\ Cardinality(touched) < MaxWrites \/ f \in touched
  /\ src[f] # "link"
  /\ src' = [src EXCEPT ![f] = "written"]
  /\ touched' = touched \cup {f}
  /\ UNCHANGED <<call, before, dst, dstExists, todo, at>>

Next ==
  \/ Refuse \/ Rename \/ RenameFails \/ CrossesDevices
  \/ Walk \/ WalkRejects \/ WalkFails \/ CopyEnds \/ RemoveFails \/ RemoveEnds
  \/ \E f \in Paths : CopyFile(f) \/ CopyFails(f) \/ Remove(f) \/ Write(f)

Spec == Init /\ [][Next]_vars

----------------------------------------------------------------------------
(* Properties *)

Trees == [Paths -> Paths \cup Kinds]

TypeOK ==
  /\ call.over \in Overlaps
  /\ src \in Trees /\ dst \in Trees
  /\ dstExists \in BOOLEAN /\ (~dstExists => dst = Empty)
  /\ todo \subseteq Paths \ Ignored /\ (todo # {} => at \in {"copying", "failed"})
  /\ touched \subseteq Paths
  /\ at \in {"called", "refused", "walking", "linked", "copying", "removing", "done", "failed"}

\* At every moment, and so wherever a system call fails or the server dies, what a walked
\* file held is in the source or in the destination, and what the source has nothing for
\* is in the destination as it was; a copy never takes from the source.
Kept(f) ==
  /\ before.src[f] = f => f \in {src[f], Target(f)}
  /\ before.src[f] = None => dst[f] = before.dst[f]
  /\ call.op = "copy" => src[f] = before.src[f]

\* So it is with the files that have one path on each side ...
NothingLost == \A f \in Paths \ (Ignored \cup touched \cup Shared) : Kept(f)

\* ... but not with all that are walked.
NoWalkedFileLost == \A f \in Paths \ (Ignored \cup touched) : Kept(f)

\* What is reported done is done: the destination holds every such file, whole, and
\* a move leaves no source behind.
DoneIsDone ==
  at = "done" =>
    /\ \A f \in Paths \ (Ignored \cup touched \cup Shared) :
         before.src[f] # None => dst[f] = before.src[f]
    /\ call.op = "move" => src = Empty

\* "aborts the whole operation before anything is written": a call that a link, or an
\* existing destination, puts an end to has changed nothing but, the links aside, what
\* others wrote.
AbortsUnwritten ==
  at \in {"linked", "refused"} =>
    /\ dst = before.dst /\ dstExists = before.dstExists
    /\ \A f \in Paths \ touched : src[f] = before.src[f]

\* "Any symlink found anywhere inside the source tree aborts the whole operation".
LinksAbort == at = "done" => "link" \notin {before.src[f] : f \in Paths \ Ignored}

\* "Move (or merge) an entire directory tree ... non-colliding files from both sides are
\* kept": no file is gone that nobody else touched.
EntireTreeMoves ==
  at = "done" =>
    \A f \in Paths \ touched :
      before.src[f] # None \/ before.dst[f] # None => src[f] # None \/ Target(f) # None
=============================================================================
