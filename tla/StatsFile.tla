----------------------------- MODULE StatsFile -----------------------------
(***************************************************************************)
(* write_atomic_text_file of src/stats_json.cpp: run after run of the       *)
(* program writes its statistics to the same path, through the same         *)
(* temporary file, while automation reads the path at any time.  A run may  *)
(* crash between any two steps.  A file is Absent or a pair of the run that *)
(* wrote it and whether all of its text is there.                           *)
(***************************************************************************)
EXTENDS Naturals

CONSTANTS Runs,           \* bound: runs of the program
          FlushMayFail    \* the device can refuse data when the file is closed

VARIABLES pc,      \* the writer's next step
          run,     \* the current run
          temp,    \* path + ".tmp"
          target   \* path

vars == <<pc, run, temp, target>>

Absent == <<0, TRUE>>

Init == pc = "open" /\ run = 1 /\ temp = Absent /\ target = Absent

\* The stream opens and truncates the temporary file.
OpenTemp ==
  /\ pc = "open"
  /\ pc' = "write" /\ temp' = <<run, FALSE>>
  /\ UNCHANGED <<run, target>>

\* out.write: the text goes to the stream's buffer, or !out is noticed.
WriteText ==
  /\ pc = "write"
  /\ pc' \in {"flush", "thrown"}
  /\ UNCHANGED <<run, temp, target>>

\* Mutant: CloseTemp after the rename: the text is still in the buffer.
CloseTempTooLate ==
  /\ pc = "flush"
  /\ pc' = "rename"
  /\ UNCHANGED <<run, temp, target>>

\* The stream's destructor flushes and closes; nobody looks at the result.
CloseTemp ==
  /\ pc = "flush"
  /\ pc' = "rename"
  /\ \/ temp' = <<run, TRUE>>
     \/ FlushMayFail /\ UNCHANGED temp
  /\ UNCHANGED <<run, target>>

RenameTo(place) ==
  /\ target' = temp /\ temp' = Absent
  /\ pc' = place
  /\ UNCHANGED run

\* The first rename; on an error the target is removed ...
Rename ==
  /\ pc = "rename"
  /\ \/ RenameTo("returned")
     \/ pc' = "remove" /\ UNCHANGED <<run, temp, target>>

RemoveTarget ==
  /\ pc = "remove"
  /\ target' \in {target, Absent}
  /\ pc' = "retry"
  /\ UNCHANGED <<run, temp>>

\* ... and the rename is tried once more before the function throws.
RenameAgain ==
  /\ pc = "retry"
  /\ \/ RenameTo("returned")
     \/ pc' = "thrown" /\ UNCHANGED <<run, temp, target>>

\* The temporary file cannot be opened.
OpenFails == pc = "open" /\ pc' = "thrown" /\ UNCHANGED <<run, temp, target>>

\* The process ends, having finished or not; the next run starts over.
NextRun ==
  /\ run < Runs
  /\ run' = run + 1 /\ pc' = "open"
  /\ UNCHANGED <<temp, target>>

Next ==
  \/ OpenTemp \/ OpenFails \/ WriteText \/ CloseTemp \/ Rename \/ RemoveTarget
  \/ RenameAgain \/ NextRun

Spec == Init /\ [][Next]_vars

-----------------------------------------------------------------------------
\* "This avoids partially written JSON files being read by automation"
\* (docs/dev_notes.md): at every moment the path holds a complete file of
\* one run, or none.
ReadersSeeWholeFiles == target[2]

\* A call that returns has put this run's complete statistics at the path,
\* also when the first rename failed.
ReturnMeansWritten == pc = "returned" => target = <<run, TRUE>>
=============================================================================
