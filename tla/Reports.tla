------------------------------ MODULE Reports ------------------------------
(***************************************************************************)
(* The places where the system reports on itself while others may read:     *)
(* the statistics files (StatsFile), the verdict of the throughput check    *)
(* (ThroughputCheck) and the diagnostics of the ROS adapter                 *)
(* (DiagnosticsReport).  They share no state, so a behaviour follows one.   *)
(***************************************************************************)
EXTENDS Naturals, Sequences

CONSTANTS Runs, FlushMayFail,
          WarmupEnd, MeasurementEnd, LateTime, MaxImages, WritesFile,
          MaxEvents, MaxReports

ASSUME ReportsAssumption ==
  /\ Runs \in Nat \ {0} /\ {FlushMayFail, WritesFile} \subseteq BOOLEAN
  /\ {WarmupEnd, MeasurementEnd, LateTime, MaxImages} \subseteq Nat
  /\ WarmupEnd <= MeasurementEnd /\ MeasurementEnd < LateTime
  /\ {MaxEvents, MaxReports} \subseteq Nat

VARIABLES reporter, pc, run, temp, target,
          now, queue, published, images, handled, exit_code, step, draft,
          report, counter, session, updates, events, read, reports

File  == INSTANCE StatsFile
Check == INSTANCE ThroughputCheck
Diag  == INSTANCE DiagnosticsReport

fileVars  == <<pc, run, temp, target>>
checkVars == <<now, queue, published, images, handled, exit_code, step, draft,
               report>>
diagVars  == <<counter, session, updates, events, read, reports>>
vars      == <<reporter, fileVars, checkVars, diagVars>>

Init ==
  /\ reporter \in {"file", "check", "diagnostics"}
  /\ File!Init /\ Check!CheckInit /\ Diag!DiagInit

FileStep ==
  /\ reporter = "file" /\ File!Next
  /\ UNCHANGED <<reporter, checkVars, diagVars>>

CheckStep(Action) ==
  /\ reporter = "check" /\ Action
  /\ UNCHANGED <<reporter, fileVars, diagVars>>

DiagStep ==
  /\ reporter = "diagnostics" /\ Diag!DiagNext
  /\ UNCHANGED <<reporter, fileVars, checkVars>>

Next == FileStep \/ CheckStep(Check!CheckNext) \/ DiagStep

\* The clock goes on, the executor serves a timer that is due, and a process
\* that has no more to wait for takes its next step.
Fairness == /\ WF_vars(CheckStep(Check!PassTime))
            /\ WF_vars(CheckStep(Check!Proceed))

Spec == Init /\ [][Next]_vars /\ Fairness

-----------------------------------------------------------------------------
\* StatsFile: write_atomic_text_file leaves a complete file of one run at the
\* path, or none, and a call that returns has published this run's.
FilesTruthful == File!ReadersSeeWholeFiles /\ File!ReturnMeansWritten

\* ThroughputCheck: exit code 0 means two images and only valid ones.
VerdictTruthful == Check!VerdictTruthful

\* ThroughputCheck: the check ends, with or without images.
CheckEnds == reporter = "check" ~> step \in {"exited", "aborted"}

\* DiagnosticsReport: the numbers of one report agree up to one frame.
ReportConsistent == Diag!ReportConsistent

\* DiagnosticsReport: an error shown is in the level of the next report.
ErrorsReachTheLevel == Diag!ErrorsReachTheLevel
=============================================================================
