------------------------------ MODULE FileMove ------------------------------
(***************************************************************************)
(* move_file and copy_file (lib/moveOps.js) on a file and a destination    *)
(* that the checks on roots have let through and that are not the same.    *)
(* The call blocks the server, but not other processes; a system call of it*)
(* may fail, and the server may die between two of them.                   *)
(***************************************************************************)
EXTENDS Naturals

CONSTANT Rivals   \* may another process create the destination meanwhile?

FileMoveAssumption == Rivals \in BOOLEAN

VARIABLES
  file,        \* the call: op, overwrite, and whether the two are on different devices
  source,      \* ours, or None
  target,      \* None, ours, theirs, rival (another process has just made it), or half
  at,          \* called, checked, copying, copied, or how it ended
  destroyed    \* was a rival's file overwritten?

fileVars == <<file, source, target, at, destroyed>>

None == "none"

Init ==
  /\ file \in [op : {"move", "copy"}, overwrite : BOOLEAN, crossDevice : BOOLEAN]
  /\ source = "ours" /\ target \in {None, "theirs"}
  /\ at = "called" /\ destroyed = FALSE

\* What becomes of the destination when something is put there.
Put(content) ==
  /\ target' = content
  /\ destroyed' = (destroyed \/ target = "rival")

\* validateMoveOrCopy
Validate ==
  /\ at = "called"
  /\ at' = IF target # None /\ ~file.overwrite THEN "refused" ELSE "checked"
  /\ UNCHANGED <<file, source, target, destroyed>>

Rename ==
  /\ at = "checked" /\ file.op = "move" /\ ~file.crossDevice
  /\ Put(source) /\ source' = None
  /\ at' = "done"
  /\ UNCHANGED file

\* copyFileSync, for copy_file or after EXDEV: it opens, and empties, the destination ...
CopyBegins ==
  /\ at = "checked" /\ (file.op = "copy" \/ file.crossDevice)
  /\ Put("half")
  /\ at' = "copying"
  /\ UNCHANGED <<file, source>>

\* ... and fills it.
CopyEnds ==
  /\ at = "copying"
  /\ Put(source)
  /\ at' = IF file.op = "move" THEN "copied" ELSE "done"
  /\ UNCHANGED <<file, source>>

\* Mutant: the source goes as soon as the copy is under way.
UnlinkEarly ==
  /\ at \in {"copying", "copied"} /\ file.op = "move"
  /\ source' = None
  /\ at' = IF at = "copied" THEN "done" ELSE at
  /\ UNCHANGED <<file, target, destroyed>>

Unlink ==
  /\ at = "copied"
  /\ source' = None
  /\ at' = "done"
  /\ UNCHANGED <<file, target, destroyed>>

\* A system call fails: the error goes to the caller.
Fails ==
  /\ at \in {"checked", "copying", "copied"}
  /\ at' = "failed"
  /\ target' \in IF at = "copying" THEN {"half", None} ELSE {target}
  /\ UNCHANGED <<file, source, destroyed>>

\* The server dies.
Dies ==
  /\ at \in {"checked", "copying", "copied"}
  /\ at' = "dead"
  /\ UNCHANGED <<file, source, target, destroyed>>

\* Another process creates the destination.
RivalCreates ==
  /\ Rivals /\ target = None /\ at \in {"called", "checked"}
  /\ target' = "rival"
  /\ UNCHANGED <<file, source, at, destroyed>>

Next ==
  \/ Validate \/ Rename \/ CopyBegins \/ CopyEnds \/ Unlink
  \/ Fails \/ Dies \/ RivalCreates

Spec == Init /\ [][Next]_fileVars

----------------------------------------------------------------------------
(* Properties *)

\* Wherever the call fails or the server dies, the file is whole at one of the two places,
\* and an answered call has done what it says: the file is at its destination, and after
\* a move nowhere else.
FileIsWhole ==
  /\ source = "ours" \/ target = "ours"
  /\ at = "done" => target = "ours" /\ (source = None <=> file.op = "move")

\* "throws a clear ToolError instead of silently destroying the existing destination
\* file": also of one that appears while the call is at work.
NoneDestroyed == ~file.overwrite => ~destroyed
=============================================================================
