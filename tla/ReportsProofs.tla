----------------------------- MODULE ReportsProofs -----------------------------
(***************************************************************************)
(* For any number of runs, images, events and reports: the path of the      *)
(* statistics holds whole files only, provided that closing a file writes   *)
(* it; exit code 0 of the throughput check is earned; and the numbers of a  *)
(* diagnostics report agree although they are read one by one while the     *)
(* receiver thread goes on counting.                                        *)
(***************************************************************************)
EXTENDS Reports, TLAPS

\* StatsFile: from the rename on the temporary file is whole, and the path
\* holds a whole file or none.
FileInv ==
  /\ target[2] = TRUE
  /\ pc \in {"rename", "remove", "retry"} => temp = <<run, TRUE>>
  /\ pc = "returned" => target = <<run, TRUE>>

-----------------------------------------------------------------------------
\* ThroughputCheck: the images handled inside the measurement.
Inside == {i \in DOMAIN handled :
             handled[i][1] \in WarmupEnd .. MeasurementEnd - 1}

\* The types of what the check works with.
CheckTypeOK ==
  /\ now \in Nat
  /\ queue \in Seq(BOOLEAN)
  /\ images \in [warmup : Nat, measured : Nat, valid : Nat, invalid : Nat]
  /\ handled \in Seq(Nat \X BOOLEAN)

\* The counters say which images came inside the measurement.
CountsImages ==
  /\ images.measured >= 1 => \E i \in Inside : TRUE
  /\ images.measured >= 2 => \E i, j \in Inside : i # j
  /\ images.invalid = 0 => \A i \in Inside : handled[i][2]

\* The verdict is given once, after which no image is handled.
VerdictIsLast == exit_code = 0 => step # "spin"

\* The inductive invariant of the check.
CheckInv == CheckTypeOK /\ CountsImages /\ VerdictIsLast /\ VerdictTruthful

-----------------------------------------------------------------------------
\* DiagnosticsReport: what an event can still have to count.
Pending ==
  {<<>>, <<"accepted">>, <<"completed">>, <<"failed">>, <<"rejected">>,
   <<"published">>, <<"image_errors">>,
   <<"received", "published">>, <<"received", "image_errors">>,
   <<"samples", "received", "published">>,
   <<"samples", "received", "image_errors">>,
   <<"clock_errors", "received", "published">>,
   <<"clock_errors", "received", "image_errors">>,
   <<"crc_errors", "rejected">>, <<"rejected", "completed">>,
   <<"header_errors", "rejected", "completed">>,
   <<"disconnects", "completed">>}

\* The counter that is increased next.
Due(name) == updates # <<>> /\ Head(updates) = name

\* The values of a report, but for the level.
Names == {"received", "failed", "samples", "crc_errors", "header_errors",
          "clock_errors", "image_errors", "rejected_for_level", "accepted",
          "completed", "disconnects", "rejected", "published"}

\* Counters, the rest of an event and the reports have their types.
DiagTypeOK ==
  /\ counter \in [Diag!Counters -> Nat]
  /\ updates \in Pending
  /\ reports \in Seq([Names \cup {"level"} -> Nat \cup {"OK", "WARN", "ERROR"}])

\* The order of writing, between any two updates of the receiver thread.
WritingOrder ==
  /\ counter["received"] + (IF Due("received") THEN 1 ELSE 0)
       <= counter["samples"] + counter["clock_errors"]
  /\ counter["received"] <= counter["published"] + counter["image_errors"]
       + (IF Due("published") \/ Due("image_errors") THEN 1 ELSE 0)
  /\ counter["crc_errors"] + counter["header_errors"]
       <= counter["rejected"] + (IF Due("rejected") THEN 1 ELSE 0)

\* The values read are values the counters had, in the order of Reads.
ReadingOrder ==
  /\ DOMAIN read \subseteq Names
  /\ \A name \in DOMAIN read :
       read[name] \in Nat /\ read[name] <= counter[Diag!Source(name)]
  /\ DOMAIN read # {} => "received" \in DOMAIN read
  /\ "header_errors" \in DOMAIN read => "crc_errors" \in DOMAIN read
  /\ "rejected" \in DOMAIN read => "header_errors" \in DOMAIN read

\* What the report under way shows, or would show if it were read now.
Seen == [name \in Names |->
           IF name \in DOMAIN read THEN read[name]
                                   ELSE counter[Diag!Source(name)]]

\* The report under way will be consistent.
ReadConsistent ==
  /\ "received" \in DOMAIN read =>
       /\ Seen["received"] <= Seen["samples"] + Seen["clock_errors"]
       /\ Seen["received"] <= Seen["published"] + Seen["image_errors"] + 1
  /\ "header_errors" \in DOMAIN read =>
       Seen["crc_errors"] + Seen["header_errors"] <= Seen["rejected"] + 1

\* The value through which a number shown enters the level.
ForLevel(name) == IF name = "rejected" THEN "rejected_for_level" ELSE name

\* The report under way will have every error shown so far in its level.
ErrorsSeen ==
  \A i \in DOMAIN reports, c \in Diag!Errors \cup {"rejected", "failed"} :
    reports[i][c] > 0 => Seen[ForLevel(c)] > 0

\* The inductive invariant of the diagnostics.
DiagInv ==
  /\ DiagTypeOK /\ WritingOrder /\ ReadingOrder /\ ReadConsistent /\ ErrorsSeen
  /\ ReportConsistent /\ ErrorsReachTheLevel

-----------------------------------------------------------------------------
\* A step of write_atomic_text_file, a crash or the start of the next run keeps
\* the files whole, when closing the stream writes what is in its buffer.
LEMMA FileStepKeeps ==
  ASSUME ~FlushMayFail, FileInv, File!Next
  PROVE  FileInv'
<1>1. CASE File!OpenTemp
  BY <1>1 DEF FileInv, File!OpenTemp
<1>2. CASE File!OpenFails
  BY <1>2 DEF FileInv, File!OpenFails
<1>3. CASE File!WriteText
  BY <1>3 DEF FileInv, File!WriteText
<1>4. CASE File!CloseTemp
  BY <1>4 DEF FileInv, File!CloseTemp
<1>5. \A r : <<r, TRUE>>[2] = TRUE
  OBVIOUS
<1>6. CASE File!Rename
  BY <1>6, <1>5, Zenon DEF FileInv, File!Rename, File!RenameTo
<1>7. CASE File!RemoveTarget
  BY <1>7, <1>5, Zenon DEF FileInv, File!RemoveTarget, File!Absent
<1>8. CASE File!RenameAgain
  BY <1>8, <1>5, Zenon DEF FileInv, File!RenameAgain, File!RenameTo
<1>9. CASE File!NextRun
  BY <1>9 DEF FileInv, File!NextRun
<1> QED
  BY <1>1, <1>2, <1>3, <1>4, <1>6, <1>7, <1>8, <1>9 DEF File!Next

\* The statistics files (write_atomic_text_file): when the device takes what
\* is flushed at the end, a reader finds a whole file of one run or none, and
\* a call that returned has published its own, whatever crashed before.
THEOREM StatisticsFilesTruthful ==
  ASSUME ~FlushMayFail
  PROVE  Spec => []FilesTruthful
<1>1. Init => FileInv
  BY DEF Init, FileInv, File!Init, File!Absent
<1>2. FileInv /\ [Next]_vars => FileInv'
  <2> SUFFICES ASSUME FileInv, [Next]_vars PROVE FileInv'
    OBVIOUS
  <2>1. CASE FileStep
    BY <2>1, FileStepKeeps DEF FileStep
  <2>2. CASE UNCHANGED fileVars
    BY <2>2 DEF FileInv, fileVars
  <2> QED
    BY <2>1, <2>2 DEF Next, CheckStep, DiagStep, vars
<1>3. FileInv => FilesTruthful
  BY DEF FileInv, FilesTruthful, File!ReadersSeeWholeFiles,
         File!ReturnMeansWritten
<1> QED
  BY <1>1, <1>2, <1>3, PTL DEF Spec

-----------------------------------------------------------------------------
\* An image that is handled: it is the last one, and those before it stay
\* inside or outside of the measurement.
LEMMA HandledImage ==
  ASSUME CheckTypeOK, queue # <<>>,
         handled' = Append(handled, <<now, queue[1]>>)
  PROVE  /\ queue[1] \in BOOLEAN
         /\ handled' \in Seq(Nat \X BOOLEAN)
         /\ Len(handled) + 1 \notin Inside
         /\ \A i \in Inside : i \in Inside' /\ handled'[i] = handled[i]
         /\ \A i \in Inside' :
              (i \in Inside /\ handled'[i] = handled[i]) \/ i = Len(handled) + 1
         /\ Len(handled) + 1 \in Inside' <=>
              now \in WarmupEnd .. MeasurementEnd - 1
         /\ handled'[Len(handled) + 1][2] = queue[1]
<1>1. queue[1] \in BOOLEAN
  BY DEF CheckTypeOK
<1>2. /\ handled' \in Seq(Nat \X BOOLEAN) /\ Len(handled') = Len(handled) + 1
      /\ \A i \in 1 .. Len(handled) : handled'[i] = handled[i]
      /\ handled'[Len(handled) + 1] = <<now, queue[1]>>
  BY <1>1 DEF CheckTypeOK
<1>3. /\ DOMAIN handled = 1 .. Len(handled) /\ Len(handled) \in Nat
      /\ DOMAIN handled' = 1 .. Len(handled) + 1
  BY <1>2 DEF CheckTypeOK
<1> QED
  BY <1>1, <1>2, <1>3 DEF Inside

\* on_image counts an image that is handled inside the measurement.
LEMMA ImageCounted ==
  ASSUME ReportsAssumption, CheckInv, Check!on_image
  PROVE  CheckInv'
<1> USE DEF CheckInv
<1>1. CheckTypeOK /\ step = "spin" /\ exit_code # 0 /\ CountsImages
  BY DEF Check!on_image, VerdictIsLast
<1>2. /\ queue[1] \in BOOLEAN
      /\ handled' \in Seq(Nat \X BOOLEAN)
      /\ Len(handled) + 1 \notin Inside
      /\ \A i \in Inside : i \in Inside' /\ handled'[i] = handled[i]
      /\ \A i \in Inside' :
           (i \in Inside /\ handled'[i] = handled[i]) \/ i = Len(handled) + 1
      /\ Len(handled) + 1 \in Inside' <=>
           now \in WarmupEnd .. MeasurementEnd - 1
      /\ handled'[Len(handled) + 1][2] = queue[1]
  BY <1>1, HandledImage DEF Check!on_image
<1>3. VerdictIsLast' /\ VerdictTruthful'
  BY <1>1 DEF Check!on_image, VerdictIsLast, VerdictTruthful,
              Check!VerdictTruthful
<1>4. CASE now \in WarmupEnd .. MeasurementEnd - 1
  <2>1. images' = [images EXCEPT !.measured = @ + 1,
                                 !.valid = IF queue[1] THEN @ + 1 ELSE @,
                                 !.invalid = IF queue[1] THEN @ ELSE @ + 1]
    BY <1>1, <1>4 DEF Check!on_image, ReportsAssumption, CheckTypeOK
  <2>2. CheckTypeOK'
    <3>1. now' \in Nat /\ queue' \in Seq(BOOLEAN)
      BY <1>1 DEF CheckTypeOK, Check!on_image
    <3>2. images' \in [warmup : Nat, measured : Nat, valid : Nat, invalid : Nat]
      <4>1. \A r \in [warmup : Nat, measured : Nat, valid : Nat, invalid : Nat],
               m, v, n \in Nat :
              [r EXCEPT !.measured = m, !.valid = v, !.invalid = n]
                \in [warmup : Nat, measured : Nat, valid : Nat, invalid : Nat]
        OBVIOUS
      <4>2. /\ images.measured + 1 \in Nat
            /\ (IF queue[1] THEN images.valid + 1 ELSE images.valid) \in Nat
            /\ (IF queue[1] THEN images.invalid ELSE images.invalid + 1) \in Nat
        BY <1>1 DEF CheckTypeOK
      <4> QED
        BY <1>1, <2>1, <4>1, <4>2, Zenon DEF CheckTypeOK
    <3> QED
      BY <1>2, <3>1, <3>2 DEF CheckTypeOK
  <2>3. /\ images'.measured = images.measured + 1
        /\ images'.invalid = IF queue[1] THEN images.invalid
                                         ELSE images.invalid + 1
        /\ images.measured \in Nat /\ images.invalid \in Nat
    BY <1>1, <2>1 DEF CheckTypeOK
  <2>4. images'.measured >= 1 => \E i \in Inside' : TRUE
    BY <1>2, <1>4
  <2>5. images'.measured >= 2 => \E i, j \in Inside' : i # j
    BY <1>1, <1>2, <1>4, <2>3 DEF CountsImages
  <2>6. images'.invalid = 0 => \A i \in Inside' : handled'[i][2]
    <3>1. SUFFICES ASSUME images'.invalid = 0, NEW i \in Inside'
                   PROVE  handled'[i][2]
      OBVIOUS
    <3>2. queue[1] /\ images.invalid = 0
      BY <2>3, <3>1
    <3> QED
      BY <1>1, <1>2, <3>2, Zenon DEF CountsImages
  <2>7. CountsImages'
    BY <2>4, <2>5, <2>6 DEF CountsImages
  <2> QED
    BY <1>3, <2>2, <2>7
<1>5. CASE now \notin WarmupEnd .. MeasurementEnd - 1
  <2>1. images' = [images EXCEPT !.warmup = @ + 1] \/ images' = images
    BY <1>1, <1>5 DEF Check!on_image, ReportsAssumption, CheckTypeOK
  <2>2. CheckTypeOK'
    <3>1. now' \in Nat /\ queue' \in Seq(BOOLEAN)
      BY <1>1 DEF CheckTypeOK, Check!on_image
    <3>2. images' \in [warmup : Nat, measured : Nat, valid : Nat, invalid : Nat]
      BY <1>1, <2>1 DEF CheckTypeOK
    <3> QED
      BY <1>2, <3>1, <3>2 DEF CheckTypeOK
  <2>3. /\ images'.measured = images.measured
        /\ images'.invalid = images.invalid
    BY <1>1, <2>1 DEF CheckTypeOK
  <2>4. CountsImages'
    BY <1>1, <1>2, <1>5, <2>3 DEF CountsImages
  <2> QED
    BY <1>3, <2>2, <2>4
<1> QED
  BY <1>4, <1>5

\* The timer's verdict is what the counters say.
LEMMA VerdictGiven ==
  ASSUME CheckInv, Check!check_deadline
  PROVE  CheckInv'
<1>1. CheckTypeOK' /\ CountsImages' /\ Inside' = Inside /\ handled' = handled
  BY DEF CheckInv, Check!check_deadline, CheckTypeOK, CountsImages, Inside
<1>2. VerdictIsLast'
  BY DEF Check!check_deadline, VerdictIsLast
<1>3. VerdictTruthful'
  <2>1. SUFFICES ASSUME Check!Passed
                 PROVE  /\ \E i, j \in Inside : i # j
                        /\ \A i \in Inside : handled[i][2]
    BY <1>1 DEF Check!check_deadline, VerdictTruthful, Check!VerdictTruthful,
                Inside
  <2> QED
    BY <2>1 DEF CheckInv, CountsImages, Check!Passed
<1> QED
  BY <1>1, <1>2, <1>3 DEF CheckInv

\* Nothing that happens before or after concerns the verdict.
LEMMA VerdictStays ==
  ASSUME CheckInv, now' \in Nat, queue' \in Seq(BOOLEAN),
         UNCHANGED <<images, handled, exit_code>>,
         step # "spin" => step' # "spin"
  PROVE  CheckInv'
BY DEF CheckInv, CheckTypeOK, CountsImages, Inside, VerdictIsLast,
       VerdictTruthful, Check!VerdictTruthful

\* Every step of the throughput check keeps its invariant.
LEMMA CheckStepKeeps ==
  ASSUME ReportsAssumption, CheckInv, Check!CheckNext
  PROVE  CheckInv'
<1> USE DEF CheckInv, CheckTypeOK
<1>1. CASE Check!PassTime
  BY <1>1, VerdictStays DEF Check!PassTime
<1>2. CASE Check!PublishImage
  BY <1>2, VerdictStays DEF Check!PublishImage
<1>3. CASE Check!on_image
  BY <1>3, ImageCounted
<1>4. CASE Check!check_deadline
  BY <1>4, VerdictGiven
<1>5. CASE Check!OpenDraft
  BY <1>5, VerdictStays DEF Check!OpenDraft
<1>6. CASE Check!WriteDraft
  BY <1>6, VerdictStays DEF Check!WriteDraft
<1>7. CASE Check!RemoveReport
  BY <1>7, VerdictStays DEF Check!RemoveReport
<1>8. CASE Check!RenameDraft
  BY <1>8, VerdictStays DEF Check!RenameDraft
<1>9. CASE Check!ShutDown
  BY <1>9, VerdictStays DEF Check!ShutDown
<1> QED
  BY <1>1, <1>2, <1>3, <1>4, <1>5, <1>6, <1>7, <1>8, <1>9
     DEF Check!CheckNext, Check!Proceed

\* The throughput check (image_throughput_check): whenever its exit code is 0,
\* at least two images were handled inside the measurement and all of those
\* were valid, for every length of the measurement and any number of images.
THEOREM CheckVerdictTruthful == Spec => []VerdictTruthful
<1>1. Init => CheckInv
  BY DEF Init, Check!CheckInit, CheckInv, CheckTypeOK, CountsImages, Inside,
         VerdictIsLast, VerdictTruthful, Check!VerdictTruthful
<1>2. CheckInv /\ [Next]_vars => CheckInv'
  <2> SUFFICES ASSUME CheckInv, [Next]_vars PROVE CheckInv'
    OBVIOUS
  <2>1. CASE CheckStep(Check!CheckNext)
    BY <2>1, CheckStepKeeps, ReportsAssumption DEF CheckStep
  <2>2. CASE UNCHANGED checkVars
    BY <2>2, VerdictStays DEF CheckInv, CheckTypeOK, checkVars
  <2> QED
    BY <2>1, <2>2 DEF Next, FileStep, DiagStep, vars
<1>3. CheckInv => VerdictTruthful
  BY DEF CheckInv
<1> QED
  BY <1>1, <1>2, <1>3, PTL DEF Spec

-----------------------------------------------------------------------------
\* What an update leaves to do: a latency sample or clock error is followed by
\* the frame count, that by the image, and an error of a frame by its
\* rejection; nothing else comes before these.
LEMMA NextUpdate ==
  ASSUME updates \in Pending, updates # <<>>
  PROVE  LET h == Head(updates)
             t == Tail(updates)
         IN  /\ h \in Diag!Counters
             /\ t \in Pending
             /\ h \in {"samples", "clock_errors"} <=>
                  t # <<>> /\ Head(t) = "received"
             /\ h = "received" <=>
                  t # <<>> /\ Head(t) \in {"published", "image_errors"}
             /\ h \in {"crc_errors", "header_errors"} <=>
                  t # <<>> /\ Head(t) = "rejected"
<1> DEFINE h == Head(updates)
           t == Tail(updates)
<1>1. \A a : Head(<<a>>) = a /\ Tail(<<a>>) = <<>>
  OBVIOUS
<1>2. CASE \E a \in {"accepted", "completed", "failed", "rejected",
                     "published", "image_errors"} : updates = <<a>>
  <2>1. t = <<>> /\ h \in {"accepted", "completed", "failed", "rejected",
                           "published", "image_errors"}
    BY <1>1, <1>2, Zenon
  <2> QED
    BY <2>1 DEF Pending, Diag!Counters
<1>3. CASE \E a, b : /\ updates = <<a, b>>
                     /\ <<a, b>> \in {<<"received", "published">>,
                                      <<"received", "image_errors">>,
                                      <<"crc_errors", "rejected">>,
                                      <<"rejected", "completed">>,
                                      <<"disconnects", "completed">>}
  <2>1. PICK a, b : /\ updates = <<a, b>>
                    /\ \/ a = "received" /\ b \in {"published", "image_errors"}
                       \/ a = "crc_errors" /\ b = "rejected"
                       \/ a \in {"rejected", "disconnects"} /\ b = "completed"
    BY <1>3
  <2>2. h = a /\ t = <<b>> /\ t # <<>> /\ Head(t) = b
    <3>1. /\ Head(<<a, b>>) = a /\ Tail(<<a, b>>) = <<b>>
          /\ <<b>> # <<>> /\ Head(<<b>>) = b
      OBVIOUS
    <3> QED
      BY <2>1, <3>1, Zenon
  <2> QED
    BY <2>1, <2>2 DEF Pending, Diag!Counters
<1>4. CASE \E a, b, c : /\ updates = <<a, b, c>>
                        /\ \/ /\ a \in {"samples", "clock_errors"}
                              /\ b = "received"
                              /\ c \in {"published", "image_errors"}
                           \/ /\ a = "header_errors" /\ b = "rejected"
                              /\ c = "completed"
  <2>1. PICK a, b, c : /\ updates = <<a, b, c>>
                       /\ \/ /\ a \in {"samples", "clock_errors"}
                             /\ b = "received"
                             /\ c \in {"published", "image_errors"}
                          \/ /\ a = "header_errors" /\ b = "rejected"
                             /\ c = "completed"
    BY <1>4, Zenon
  <2>2. h = a /\ t = <<b, c>> /\ t # <<>> /\ Head(t) = b
    <3>1. /\ Head(<<a, b, c>>) = a /\ Tail(<<a, b, c>>) = <<b, c>>
          /\ <<b, c>> # <<>> /\ Head(<<b, c>>) = b
      OBVIOUS
    <3> QED
      BY <2>1, <3>1, Zenon
  <2> QED
    BY <2>1, <2>2 DEF Pending, Diag!Counters
<1> QED
  BY <1>2, <1>3, <1>4 DEF Pending

\* The counters are numbers.
LEMMA CounterNumbers ==
  ASSUME counter \in [Diag!Counters -> Nat]
  PROVE  /\ \A name \in Names : Diag!Source(name) \in Diag!Counters
         /\ \A name \in Names : counter[Diag!Source(name)] \in Nat
         /\ \A c \in Diag!Counters : counter[c] \in Nat
BY DEF Names, Diag!Counters, Diag!Source

\* What is seen of a value is a number.
LEMMA SeenNumbers ==
  ASSUME DiagTypeOK, ReadingOrder
  PROVE  \A name \in Names : Seen[name] \in Nat
BY CounterNumbers DEF DiagTypeOK, ReadingOrder, Seen

\* Where what is seen only grows, the errors already shown stay seen.
LEMMA SeenGrows ==
  ASSUME ErrorsSeen, reports' = reports,
         \A name \in Names : /\ Seen[name] \in Nat /\ Seen'[name] \in Nat
                             /\ Seen[name] <= Seen'[name]
  PROVE  ErrorsSeen'
<1> SUFFICES ASSUME NEW i \in DOMAIN reports,
                    NEW c \in Diag!Errors \cup {"rejected", "failed"},
                    reports[i][c] > 0
             PROVE  Seen'[ForLevel(c)] > 0
  BY DEF ErrorsSeen
<1>1. ForLevel(c) \in Names
  BY DEF ForLevel, Names, Diag!Errors
<1>2. Seen[ForLevel(c)] > 0
  BY DEF ErrorsSeen
<1> QED
  BY <1>1, <1>2

\* Where what is seen of the values read stays and the rest only grows, the
\* report under way stays consistent.
LEMMA ConsistencyKept ==
  ASSUME ReadConsistent, ReadingOrder, DOMAIN read' = DOMAIN read,
         \A name \in Names :
           /\ Seen[name] \in Nat /\ Seen'[name] \in Nat
           /\ Seen[name] <= Seen'[name]
           /\ name \in DOMAIN read => Seen'[name] = Seen[name]
  PROVE  ReadConsistent'
<1>1. {"received", "samples", "clock_errors", "published", "image_errors",
       "crc_errors", "header_errors", "rejected"} \subseteq Names
  BY DEF Names
<1>2. /\ Seen["samples"] \in Nat /\ Seen'["samples"] \in Nat
      /\ Seen["samples"] <= Seen'["samples"]
      /\ Seen["clock_errors"] \in Nat /\ Seen'["clock_errors"] \in Nat
      /\ Seen["clock_errors"] <= Seen'["clock_errors"]
      /\ Seen["published"] \in Nat /\ Seen'["published"] \in Nat
      /\ Seen["published"] <= Seen'["published"]
      /\ Seen["image_errors"] \in Nat /\ Seen'["image_errors"] \in Nat
      /\ Seen["image_errors"] <= Seen'["image_errors"]
      /\ Seen["rejected"] \in Nat /\ Seen'["rejected"] \in Nat
      /\ Seen["rejected"] <= Seen'["rejected"]
      /\ Seen["received"] \in Nat /\ Seen["crc_errors"] \in Nat
      /\ Seen["header_errors"] \in Nat
  BY <1>1
<1>3. ASSUME "received" \in DOMAIN read
      PROVE  /\ Seen'["received"] <= Seen'["samples"] + Seen'["clock_errors"]
             /\ Seen'["received"]
                  <= Seen'["published"] + Seen'["image_errors"] + 1
  <2>1. Seen'["received"] = Seen["received"]
    BY <1>1, <1>3
  <2>2. /\ Seen["received"] <= Seen["samples"] + Seen["clock_errors"]
        /\ Seen["received"] <= Seen["published"] + Seen["image_errors"] + 1
    BY <1>3 DEF ReadConsistent
  <2> QED
    BY <1>2, <2>1, <2>2
<1>4. ASSUME "header_errors" \in DOMAIN read
      PROVE  Seen'["crc_errors"] + Seen'["header_errors"]
               <= Seen'["rejected"] + 1
  <2>1. /\ Seen'["header_errors"] = Seen["header_errors"]
        /\ Seen'["crc_errors"] = Seen["crc_errors"]
    BY <1>1, <1>4 DEF ReadingOrder
  <2>2. Seen["crc_errors"] + Seen["header_errors"] <= Seen["rejected"] + 1
    BY <1>4 DEF ReadConsistent
  <2> QED
    BY <1>2, <2>1, <2>2
<1> QED
  BY <1>3, <1>4 DEF ReadConsistent

\* The start of an event, whose first update is none that others wait for.
LEMMA EventKeeps ==
  ASSUME DiagInv, updates = <<>>, updates' \in Pending,
         updates' # <<>>,
         Head(updates') \notin {"received", "published", "image_errors",
                                "rejected"},
         UNCHANGED <<counter, read, reports>>
  PROVE  DiagInv'
<1>1. DiagTypeOK' /\ ReadingOrder'
  BY DEF DiagInv, DiagTypeOK, ReadingOrder
<1>2. WritingOrder'
  BY DEF DiagInv, WritingOrder, Due
<1>3. ReadConsistent' /\ ErrorsSeen'
  BY DEF DiagInv, ReadConsistent, ErrorsSeen, Seen
<1>4. ReportConsistent' /\ ErrorsReachTheLevel'
  BY DEF DiagInv, ReportConsistent, Diag!ReportConsistent,
         ErrorsReachTheLevel, Diag!ErrorsReachTheLevel
<1> QED
  BY <1>1, <1>2, <1>3, <1>4 DEF DiagInv

\* An update of the receiver thread.
LEMMA UpdateKeeps ==
  ASSUME DiagInv, Diag!Update
  PROVE  DiagInv'
<1> DEFINE h == Head(updates)
<1>1. /\ updates \in Pending /\ updates # <<>> /\ updates' = Tail(updates)
      /\ UNCHANGED <<read, reports>>
      /\ counter \in [Diag!Counters -> Nat]
      /\ counter' = [counter EXCEPT ![h] = @ + 1]
  BY DEF DiagInv, DiagTypeOK, Diag!Update
<1>2. /\ h \in Diag!Counters
      /\ updates' \in Pending
      /\ h \in {"samples", "clock_errors"} <=> Due("received")'
      /\ h = "received" <=> Due("published")' \/ Due("image_errors")'
      /\ h \in {"crc_errors", "header_errors"} <=> Due("rejected")'
  BY <1>1, NextUpdate, Zenon DEF Due
<1>3. /\ counter' \in [Diag!Counters -> Nat]
      /\ \A c \in Diag!Counters :
           /\ counter[c] \in Nat
           /\ counter'[c] = IF c = h THEN counter[c] + 1 ELSE counter[c]
  BY <1>1, <1>2
<1>4. DiagTypeOK'
  BY <1>1, <1>2, <1>3 DEF DiagInv, DiagTypeOK
<1>5. WritingOrder'
  <2>1. \A name : Due(name) <=> h = name
    BY <1>1 DEF Due
  <2>2. counter'["received"] + (IF Due("received")' THEN 1 ELSE 0)
          <= counter'["samples"] + counter'["clock_errors"]
    BY <1>2, <1>3, <2>1 DEF DiagInv, WritingOrder, Diag!Counters
  <2>3. counter'["received"] <= counter'["published"] + counter'["image_errors"]
          + (IF Due("published")' \/ Due("image_errors")' THEN 1 ELSE 0)
    BY <1>2, <1>3, <2>1 DEF DiagInv, WritingOrder, Diag!Counters
  <2>4. counter'["crc_errors"] + counter'["header_errors"]
          <= counter'["rejected"] + (IF Due("rejected")' THEN 1 ELSE 0)
    BY <1>2, <1>3, <2>1 DEF DiagInv, WritingOrder, Diag!Counters
  <2> QED
    BY <2>2, <2>3, <2>4 DEF WritingOrder
<1>6. \A name \in Names : Diag!Source(name) \in Diag!Counters
  BY <1>1, CounterNumbers
<1>7. ReadingOrder'
  <2>1. \A name \in DOMAIN read :
          read[name] \in Nat /\ read[name] <= counter'[Diag!Source(name)]
    BY <1>3, <1>6 DEF DiagInv, ReadingOrder
  <2> QED
    BY <1>1, <2>1 DEF DiagInv, ReadingOrder
<1>8. \A name \in Names :
        /\ Seen[name] \in Nat /\ Seen'[name] \in Nat
        /\ Seen[name] <= Seen'[name]
        /\ name \in DOMAIN read => Seen'[name] = Seen[name]
  BY <1>1, <1>3, <1>6 DEF DiagInv, ReadingOrder, Seen
<1>9. ReadConsistent'
  BY <1>1, <1>8, ConsistencyKept DEF DiagInv
<1>10. ErrorsSeen'
  BY <1>1, <1>8, SeenGrows DEF DiagInv
<1>11. ReportConsistent' /\ ErrorsReachTheLevel'
  BY <1>1 DEF DiagInv, ReportConsistent, Diag!ReportConsistent,
         ErrorsReachTheLevel, Diag!ErrorsReachTheLevel
<1> QED
  BY <1>4, <1>5, <1>7, <1>9, <1>10, <1>11 DEF DiagInv

\* The reads of the callback in their order.
LEMMA ReadOrder ==
  /\ Len(Diag!Reads) = 13
  /\ \A n \in 1 .. 13 : Diag!Reads[n] \in Names
  /\ \A n \in 1 .. 13 : Diag!Reads[n] = "received" <=> n = 1
  /\ \A n \in 1 .. 13 : Diag!Reads[n] = "header_errors" <=> n = 5
  /\ \A n \in 1 .. 13 : Diag!Reads[n] = "rejected" <=> n = 12
  /\ Diag!Reads[4] = "crc_errors"
  /\ \A name \in Names : \E n \in 1 .. 13 : Diag!Reads[n] = name
BY DEF Diag!Reads, Names

\* The next read of the timer's callback: the value is the one seen before, so
\* only what follows from having read it is new.
LEMMA ReadKeeps ==
  ASSUME DiagInv, Diag!ReadValue
  PROVE  DiagInv'
<1>1. PICK n \in 1 .. 13 :
        /\ Diag!Reads[n] \notin DOMAIN read
        /\ \A m \in 1 .. n - 1 : Diag!Reads[m] \in DOMAIN read
        /\ read' = Diag!With(read, Diag!Reads[n],
                             counter[Diag!Source(Diag!Reads[n])])
  BY ReadOrder DEF Diag!ReadValue
<1> DEFINE new == Diag!Reads[n]
<1>2. /\ UNCHANGED <<counter, updates, reports>>
      /\ counter \in [Diag!Counters -> Nat]
  BY DEF DiagInv, DiagTypeOK, Diag!ReadValue
<1>3. /\ new \in Names
      /\ DOMAIN read' = DOMAIN read \cup {new}
      /\ read'[new] = counter[Diag!Source(new)]
      /\ \A c \in DOMAIN read : read'[c] = read[c]
  <2>1. new \in Names
    BY ReadOrder
  <2>2. /\ DOMAIN read' = DOMAIN read \cup {new}
        /\ read'[new] = counter[Diag!Source(new)]
        /\ \A c \in DOMAIN read : c # new => read'[c] = read[c]
    <3> DEFINE value == counter[Diag!Source(new)]
    <3>1. /\ DOMAIN Diag!With(read, new, value) = DOMAIN read \cup {new}
          /\ Diag!With(read, new, value)[new] = value
          /\ \A c \in DOMAIN read :
               c # new => Diag!With(read, new, value)[c] = read[c]
      BY DEF Diag!With
    <3> QED
      BY <1>1, <3>1
  <2> QED
    BY <1>1, <2>1, <2>2, Zenon
<1>4. /\ \A name \in Names : counter[Diag!Source(name)] \in Nat
      /\ \A c \in Diag!Counters : counter[c] \in Nat
  BY <1>2, CounterNumbers
<1>5. DiagTypeOK' /\ WritingOrder'
  BY <1>2 DEF DiagInv, DiagTypeOK, WritingOrder, Due
<1>6. /\ DOMAIN read # {} => "received" \in DOMAIN read
      /\ "header_errors" \in DOMAIN read => "crc_errors" \in DOMAIN read
      /\ "rejected" \in DOMAIN read => "header_errors" \in DOMAIN read
  BY DEF DiagInv, ReadingOrder
<1>7. /\ new = "received" <=> n = 1
      /\ new = "header_errors" <=> n = 5
      /\ new = "rejected" <=> n = 12
      /\ new # "received" => "received" \in DOMAIN read
      /\ new = "header_errors" => "crc_errors" \in DOMAIN read
      /\ new = "rejected" => "header_errors" \in DOMAIN read
  BY <1>1, ReadOrder
<1>8. ReadingOrder'
  <2>1. DOMAIN read' \subseteq Names
    BY <1>3 DEF DiagInv, ReadingOrder
  <2>2. \A name \in DOMAIN read' :
          read'[name] \in Nat /\ read'[name] <= counter'[Diag!Source(name)]
    BY <1>2, <1>3, <1>4 DEF DiagInv, ReadingOrder
  <2>3. /\ DOMAIN read' # {} => "received" \in DOMAIN read'
        /\ "header_errors" \in DOMAIN read' => "crc_errors" \in DOMAIN read'
        /\ "rejected" \in DOMAIN read' => "header_errors" \in DOMAIN read'
    BY <1>3, <1>6, <1>7
  <2> QED
    BY <2>1, <2>2, <2>3 DEF ReadingOrder
<1>9. Seen' = Seen
  BY <1>2, <1>3 DEF Seen
<1>10. \A name \in Names : Seen[name] \in Nat
  BY SeenNumbers DEF DiagInv
<1>11. ReadConsistent'
  <2>1. CASE n = 1
    <3>1. DOMAIN read = {} /\ DOMAIN read' = {"received"}
      BY <1>1, <1>3, <1>6, <1>7, <2>1
    <3>2. /\ Seen["received"] = counter["received"]
          /\ Seen["samples"] = counter["samples"]
          /\ Seen["clock_errors"] = counter["clock_errors"]
          /\ Seen["published"] = counter["published"]
          /\ Seen["image_errors"] = counter["image_errors"]
      BY <3>1 DEF Seen, Names, Diag!Source
    <3>3. /\ counter["received"] \in Nat /\ counter["samples"] \in Nat
          /\ counter["clock_errors"] \in Nat /\ counter["published"] \in Nat
          /\ counter["image_errors"] \in Nat
      BY <1>4 DEF Diag!Counters
    <3>4. /\ counter["received"] <= counter["samples"] + counter["clock_errors"]
          /\ counter["received"]
               <= counter["published"] + counter["image_errors"] + 1
      BY <3>3 DEF DiagInv, WritingOrder
    <3> QED
      BY <1>9, <3>1, <3>2, <3>4 DEF ReadConsistent
  <2>2. CASE n = 5
    <3>1. /\ new = "header_errors" /\ "received" \in DOMAIN read
          /\ "crc_errors" \in DOMAIN read /\ "rejected" \notin DOMAIN read
      BY <1>1, <1>6, <1>7, <2>2
    <3>2. /\ Seen["header_errors"] = counter["header_errors"]
          /\ Seen["crc_errors"] = read["crc_errors"]
          /\ Seen["rejected"] = counter["rejected"]
      BY <1>1, <3>1 DEF Seen, Names, Diag!Source
    <3>3. read["crc_errors"] \in Nat /\ read["crc_errors"] <= counter["crc_errors"]
      BY <3>1 DEF DiagInv, ReadingOrder, Diag!Source
    <3>4. /\ counter["header_errors"] \in Nat /\ counter["crc_errors"] \in Nat
          /\ counter["rejected"] \in Nat
      BY <1>4 DEF Diag!Counters
    <3>5. Seen["crc_errors"] + Seen["header_errors"] <= Seen["rejected"] + 1
      BY <3>2, <3>3, <3>4 DEF DiagInv, WritingOrder
    <3> QED
      BY <1>3, <1>9, <3>1, <3>5 DEF DiagInv, ReadConsistent
  <2>3. CASE n # 1 /\ n # 5
    BY <1>3, <1>7, <1>9, <2>3 DEF DiagInv, ReadConsistent
  <2> QED
    BY <2>1, <2>2, <2>3
<1>12. ErrorsSeen'
  BY <1>2, <1>9 DEF DiagInv, ErrorsSeen
<1>13. ReportConsistent' /\ ErrorsReachTheLevel'
  BY <1>2 DEF DiagInv, ReportConsistent, Diag!ReportConsistent,
         ErrorsReachTheLevel, Diag!ErrorsReachTheLevel
<1> QED
  BY <1>5, <1>8, <1>11, <1>12, <1>13 DEF DiagInv

\* An error that was seen makes the level WARN or ERROR.
LEMMA LevelOfErrors ==
  ASSUME DOMAIN read = Names,
         NEW c \in Diag!Errors \cup {"rejected", "failed"},
         read[ForLevel(c)] > 0
  PROVE  Diag!Level(read) # "OK"
BY DEF Diag!Level, Diag!Errors, ForLevel

\* The report: what was read, with the level it implies.
LEMMA PublishKeeps ==
  ASSUME DiagInv, Diag!PublishReport
  PROVE  DiagInv'
<1> DEFINE shown == Diag!With(read, "level", Diag!Level(read))
           S == [Names \cup {"level"} -> Nat \cup {"OK", "WARN", "ERROR"}]
<1>1. /\ UNCHANGED <<counter, updates>> /\ read' = <<>>
      /\ reports \in Seq(S) /\ reports' = Append(reports, shown)
      /\ counter \in [Diag!Counters -> Nat]
  BY DEF DiagInv, DiagTypeOK, Diag!PublishReport
<1>2. DOMAIN read = Names
  <2>1. DOMAIN read \subseteq Names
    BY DEF DiagInv, ReadingOrder
  <2>2. \A n \in 1 .. 13 : Diag!Reads[n] \in DOMAIN read
    BY ReadOrder DEF Diag!PublishReport
  <2> QED
    BY <2>1, <2>2, ReadOrder
<1>3. /\ DOMAIN shown = Names \cup {"level"}
      /\ shown["level"] = Diag!Level(read)
      /\ \A name \in Names : name # "level" => shown[name] = read[name]
  <2>1. /\ DOMAIN shown = DOMAIN read \cup {"level"}
        /\ shown["level"] = Diag!Level(read)
        /\ \A c \in DOMAIN read : c # "level" => shown[c] = read[c]
    BY DEF Diag!With
  <2> QED
    BY <1>2, <2>1
<1>4. \A name \in Names : name # "level"
  BY DEF Names
<1>5. \A name \in Names : read[name] \in Nat /\ Seen[name] = read[name]
                          /\ read[name] <= counter[Diag!Source(name)]
  BY <1>2 DEF DiagInv, ReadingOrder, Seen
<1>6. shown \in S
  <2>1. shown["level"] \in {"OK", "WARN", "ERROR"}
    BY <1>3 DEF Diag!Level
  <2>2. shown = [c \in DOMAIN shown |-> shown[c]]
    BY DEF Diag!With
  <2>3. \A c \in DOMAIN shown : shown[c] \in Nat \cup {"OK", "WARN", "ERROR"}
    BY <1>3, <1>4, <1>5, <2>1
  <2> QED
    BY <1>3, <2>2, <2>3
<1> HIDE DEF shown
<1>7. /\ reports' \in Seq(S) /\ DOMAIN reports = 1 .. Len(reports)
      /\ Len(reports) \in Nat
      /\ DOMAIN reports' = 1 .. Len(reports) + 1
      /\ \A i \in DOMAIN reports : reports'[i] = reports[i]
      /\ reports'[Len(reports) + 1] = shown
  BY <1>1, <1>6
<1> HIDE DEF S
<1>8. DiagTypeOK'
  BY <1>1, <1>7 DEF DiagInv, DiagTypeOK, S
<1>9. WritingOrder'
  BY <1>1 DEF DiagInv, WritingOrder, Due
<1>10. DOMAIN read' = {}
  BY <1>1
<1>11. ReadingOrder' /\ ReadConsistent'
  BY <1>10 DEF ReadingOrder, ReadConsistent
<1>12. \A name \in Names : /\ Seen'[name] = counter[Diag!Source(name)]
                           /\ counter[Diag!Source(name)] \in Nat
  BY <1>1, <1>10, CounterNumbers DEF Seen
<1>13. \A c \in Diag!Errors \cup {"rejected", "failed"} :
         /\ c \in Names /\ ForLevel(c) \in Names
         /\ Diag!Source(ForLevel(c)) = c /\ Diag!Source(c) = c
  BY DEF Names, ForLevel, Diag!Source, Diag!Errors
<1>14. ErrorsSeen'
  <2>1. SUFFICES ASSUME NEW i \in DOMAIN reports',
                        NEW c \in Diag!Errors \cup {"rejected", "failed"},
                        reports'[i][c] > 0
                 PROVE  Seen'[ForLevel(c)] > 0
    BY DEF ErrorsSeen
  <2>2. CASE i \in DOMAIN reports
    <3>1. Seen[ForLevel(c)] > 0
      BY <1>7, <2>1, <2>2 DEF DiagInv, ErrorsSeen
    <3> QED
      BY <1>5, <1>12, <1>13, <3>1
  <2>3. CASE i = Len(reports) + 1
    <3>1. read[c] > 0
      BY <1>3, <1>4, <1>7, <1>13, <2>1, <2>3
    <3> QED
      BY <1>5, <1>12, <1>13, <3>1
  <2> QED
    BY <1>7, <2>2, <2>3
<1>15. ReportConsistent'
  <2>1. /\ shown["received"] <= shown["samples"] + shown["clock_errors"]
        /\ shown["received"] <= shown["published"] + shown["image_errors"] + 1
        /\ shown["crc_errors"] + shown["header_errors"] <= shown["rejected"] + 1
    <3>1. {"received", "samples", "clock_errors", "published", "image_errors",
           "crc_errors", "header_errors", "rejected"} \subseteq Names
      BY DEF Names
    <3>2. /\ shown["received"] = Seen["received"]
          /\ shown["samples"] = Seen["samples"]
          /\ shown["clock_errors"] = Seen["clock_errors"]
          /\ shown["published"] = Seen["published"]
          /\ shown["image_errors"] = Seen["image_errors"]
          /\ shown["crc_errors"] = Seen["crc_errors"]
          /\ shown["header_errors"] = Seen["header_errors"]
          /\ shown["rejected"] = Seen["rejected"]
      BY <1>3, <1>4, <1>5, <3>1
    <3> QED
      BY <1>2, <3>1, <3>2 DEF DiagInv, ReadConsistent
  <2> QED
    BY <1>7, <2>1 DEF DiagInv, ReportConsistent, Diag!ReportConsistent
<1>16. ErrorsReachTheLevel'
  <2>1. SUFFICES ASSUME NEW i \in DOMAIN reports', NEW j \in DOMAIN reports',
                        i < j,
                        NEW c \in Diag!Errors \cup {"rejected", "failed"},
                        reports'[i][c] > 0
                 PROVE  reports'[j].level # "OK"
    BY DEF ErrorsReachTheLevel, Diag!ErrorsReachTheLevel
  <2>2. i \in DOMAIN reports /\ reports'[i] = reports[i]
    BY <1>7, <2>1
  <2>3. CASE j \in DOMAIN reports
    BY <1>7, <2>1, <2>2, <2>3
       DEF DiagInv, ErrorsReachTheLevel, Diag!ErrorsReachTheLevel
  <2>4. CASE j = Len(reports) + 1
    <3>1. read[ForLevel(c)] > 0
      BY <1>5, <1>13, <2>1, <2>2 DEF DiagInv, ErrorsSeen
    <3> QED
      BY <1>2, <1>3, <1>7, <2>4, <3>1, LevelOfErrors
  <2> QED
    BY <1>7, <2>3, <2>4
<1> QED
  BY <1>8, <1>9, <1>11, <1>14, <1>15, <1>16 DEF DiagInv

\* Every step of the receiver thread and of the timer keeps the invariant.
LEMMA DiagStepKeeps ==
  ASSUME DiagInv, Diag!DiagNext
  PROVE  DiagInv'
<1>1. CASE Diag!AcceptSession
  <2>1. Head(<<"accepted">>) = "accepted" /\ <<"accepted">> # <<>>
    OBVIOUS
  <2> QED
    BY <1>1, <2>1, EventKeeps DEF Diag!AcceptSession, Diag!Event, Pending
<1>2. CASE Diag!FrameAccepted
  <2>1. PICK u \in Diag!Accepted : updates = <<>> /\ updates' = u
                                   /\ UNCHANGED <<counter, read, reports>>
    BY <1>2 DEF Diag!FrameAccepted, Diag!Event
  <2>2. \E t \in {"samples", "clock_errors"}, i \in {"published", "image_errors"} :
          u = <<t, "received", i>>
    BY DEF Diag!Accepted, Diag!PublishFrame
  <2>3. /\ u \in Pending /\ u # <<>>
        /\ Head(u) \in {"samples", "clock_errors"}
    BY <2>2 DEF Pending
  <2> QED
    BY <2>1, <2>3, EventKeeps
<1>3. CASE Diag!CrcMismatch
  <2>1. /\ Head(<<"crc_errors", "rejected">>) = "crc_errors"
        /\ <<"crc_errors", "rejected">> # <<>>
    OBVIOUS
  <2> QED
    BY <1>3, <2>1, EventKeeps DEF Diag!CrcMismatch, Diag!Event, Pending
<1>4. CASE Diag!HeaderInvalid
  <2>1. /\ Head(<<"header_errors", "rejected", "completed">>) = "header_errors"
        /\ <<"header_errors", "rejected", "completed">> # <<>>
    OBVIOUS
  <2> QED
    BY <1>4, <2>1, EventKeeps DEF Diag!HeaderInvalid, Diag!Event, Pending
<1>5. CASE Diag!PeerCloses
  <2>1. /\ Head(<<"disconnects", "completed">>) = "disconnects"
        /\ <<"disconnects", "completed">> # <<>>
    OBVIOUS
  <2> QED
    BY <1>5, <2>1, EventKeeps DEF Diag!PeerCloses, Diag!Event, Pending
<1>6. CASE Diag!LoopFails
  <2>1. Head(<<"failed">>) = "failed" /\ <<"failed">> # <<>>
    OBVIOUS
  <2> QED
    BY <1>6, <2>1, EventKeeps DEF Diag!LoopFails, Diag!Event, Pending
<1>7. CASE Diag!Update
  BY <1>7, UpdateKeeps
<1>8. CASE Diag!ReadValue
  BY <1>8, ReadKeeps
<1>9. CASE Diag!PublishReport
  BY <1>9, PublishKeeps
<1> QED
  BY <1>1, <1>2, <1>3, <1>4, <1>5, <1>6, <1>7, <1>8, <1>9 DEF Diag!DiagNext

\* The invariant of the diagnostics holds throughout.
LEMMA DiagInvariant == Spec => []DiagInv
<1>1. Init => DiagInv
  <2> SUFFICES ASSUME Init PROVE DiagInv
    OBVIOUS
  <2>1. /\ counter = [c \in Diag!Counters |-> 0] /\ updates = <<>>
        /\ read = <<>> /\ reports = <<>>
    BY DEF Init, Diag!DiagInit
  <2>2. DOMAIN read = {} /\ DOMAIN reports = {}
    BY <2>1
  <2>3. DiagTypeOK
    BY <2>1 DEF DiagTypeOK, Pending
  <2>4. WritingOrder
    BY <2>1 DEF WritingOrder, Due, Diag!Counters
  <2> QED
    BY <2>2, <2>3, <2>4 DEF DiagInv, ReadingOrder, ReadConsistent, ErrorsSeen,
       ReportConsistent, Diag!ReportConsistent, ErrorsReachTheLevel,
       Diag!ErrorsReachTheLevel
<1>2. DiagInv /\ [Next]_vars => DiagInv'
  <2> SUFFICES ASSUME DiagInv, [Next]_vars PROVE DiagInv'
    OBVIOUS
  <2>1. CASE DiagStep
    BY <2>1, DiagStepKeeps DEF DiagStep
  <2>2. CASE UNCHANGED diagVars
    <3>1. UNCHANGED <<counter, updates, read, reports>>
      BY <2>2 DEF diagVars
    <3> QED
      BY <3>1 DEF DiagInv, DiagTypeOK, WritingOrder, Due, ReadingOrder,
         ReadConsistent, Seen, ErrorsSeen, ReportConsistent,
         Diag!ReportConsistent, ErrorsReachTheLevel, Diag!ErrorsReachTheLevel
  <2> QED
    BY <2>1, <2>2 DEF Next, FileStep, CheckStep, vars
<1> QED
  BY <1>1, <1>2, PTL DEF Spec

\* The diagnostics (publish_diagnostics): although the timer reads the atomics
\* one by one while the receiver thread counts, no report shows a frame without
\* its latency sample or clock error, more than one frame without its image,
\* or more than one error of a frame without its rejection.
THEOREM DiagnosticsReportConsistent == Spec => []ReportConsistent
<1>1. DiagInv => ReportConsistent
  BY DEF DiagInv
<1> QED
  BY <1>1, DiagInvariant, PTL

\* The level of the diagnostics (publish_diagnostics): an error that a report
\* shows in any of its numbers is in the level of every later report.
THEOREM DiagnosticsErrorsReachTheLevel == Spec => []ErrorsReachTheLevel
<1>1. DiagInv => ErrorsReachTheLevel
  BY DEF DiagInv
<1> QED
  BY <1>1, DiagInvariant, PTL
================================================================================
