---------------------------- MODULE TempFiles ----------------------------
(***************************************************************************)
(* The temporary files of packages/storage-client: uploads and downloads   *)
(* pass through a file whose name holds Date.now(), so that two of them    *)
(* begun in the same millisecond may meet in one file.                     *)
(***************************************************************************)
EXTENDS Integers, Sequences, FiniteSets, SequencesExt

CONSTANTS
  MaxClock,  \* bound: milliseconds told apart
  Torn       \* what a file holds that two write at once, or one that is half written

ASSUME ClockAssumption == MaxClock \in Nat

VARIABLES
  clock,  \* Date.now()
  files   \* the temporary files: [path, content]

fileVars == <<clock, files>>

(* Mutant of Path: the millisecond is left out of the names.               *)
PathUntimed(label, ms) == <<label, 0>>

(* The file with this label of what began in this millisecond.             *)
Path(label, ms) == <<label, ms>>

ContentsOf(path) == {f.content : f \in {g \in files : g.path = path}}
Unlinked(path) == {f \in files : f.path # path}
Written(path, content) == Unlinked(path) \cup {[path |-> path, content |-> content]}

NextMillisecond ==
  /\ clock < MaxClock
  /\ clock' = clock + 1
  /\ UNCHANGED files
=============================================================================
