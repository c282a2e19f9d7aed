------------------------------ MODULE MCFiles ------------------------------
(***************************************************************************)
(* Moves and copies for TLC: of a directory (DirectoryMove) or of a single *)
(* file (FileMove), one call at a time, as each blocks the server.  The    *)
(* variables of the other one stay as they are.                            *)
(***************************************************************************)
EXTENDS DirectoryMove

CONSTANT Rivals

VARIABLES what, file, source, target, stage, destroyed

fileVars == <<file, source, target, stage, destroyed>>

File == INSTANCE FileMove WITH at <- stage

ASSUME File!FileMoveAssumption

FilesInit ==
  \/ /\ what = "directory" /\ Init
     /\ file = None /\ source = None /\ target = None /\ stage = None /\ destroyed = FALSE
  \/ /\ what = "file" /\ File!Init
     /\ call = [op |-> "copy", overwrite |-> FALSE, over |-> Apart] /\ before = None
     /\ src = Empty /\ dst = Empty /\ dstExists = FALSE
     /\ todo = {} /\ touched = {} /\ at = "called"

FilesNext ==
  \/ what = "directory" /\ Next /\ UNCHANGED <<what, fileVars>>
  \/ what = "file" /\ File!Next /\ UNCHANGED <<what, vars>>

FilesSpec == FilesInit /\ [][FilesNext]_<<what, vars, fileVars>>

\* No walked file with one path on each side is lost at any moment ...
TreesAreKept == what = "directory" => NothingLost

\* ... and what is reported done, or refused, is.
EndsAreTrue == what = "directory" => DoneIsDone /\ AbortsUnwritten

\* The file of a single move is whole at one of the two places.
FileIsWhole == what = "file" => File!FileIsWhole
=============================================================================
