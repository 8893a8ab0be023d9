---------------------------- MODULE BatchOutput ----------------------------
(***************************************************************************)
(* One document of a batch with --skip-unchanged, run after run: the check *)
(* whether its PDF is up to date (OutputUpToDate), else its conversion and *)
(* the overwriting of the PDF in place (WriteAll, on POSIX systems).  A    *)
(* run may be stopped at any step, a call of the system may fail, and the  *)
(* input may be edited.                                                    *)
(*                                                                         *)
(* A file is a sequence of units, each with the version of the input that  *)
(* it was made from; the last unit of a version's PDF holds its %%EOF.     *)
(***************************************************************************)
EXTENDS Integers, Sequences

CONSTANTS
    Length,          \* [versions of the input -> units of the PDF made of it]
    HadPdf,          \* TRUE: an earlier run may have left the PDF of version 1
    MaxStops,        \* bound on the runs that are killed or fail
    MaxTime          \* bound on the clock

Versions == DOMAIN Length

ASSUME LengthAssumption ==
    Length \in Seq(Nat \ {0}) /\ Length # << >>
ASSUME BoundAssumption == MaxTime \in Nat \ {0} /\ MaxStops \in Nat
ASSUME SwitchAssumption == HadPdf \in BOOLEAN

VARIABLES
    input, inputTime,   \* the version of the input file and its modification time
    exists, pdf,        \* the output file and its units
    pdfTime,
    now,
    pc,
    seenTime,           \* outputStatus.modified
    seen,               \* the version that was read and converted
    oldLength,          \* st.st_size in WriteAll
    written,            \* units written
    answer,             \* what the run's report says of the document
    stops,              \* runs that were killed or failed
    mixed,              \* a write onto an older PDF was broken off (history variable)
    raced               \* edited since the last read by a run, or in the PDF's tick (history)

files == <<exists, pdf, pdfTime>>
inputs == <<input, inputTime, now>>
history == <<mixed, raced>>
vars == <<input, inputTime, exists, pdf, pdfTime, now, pc, seenTime, seen, oldLength,
          written, answer, stops, mixed, raced>>

\* The PDF that a conversion of version v makes.
Whole(v) == [n \in 1 .. Length[v] |-> v]

\* "%%EOF" in the last bytes.
EndsWithEof == Len(pdf) > 0 /\ Length[pdf[Len(pdf)]] = Len(pdf)

Init ==
    /\ exists \in {FALSE, HadPdf}
    /\ input = IF exists /\ 2 \in Versions THEN 2 ELSE 1
    /\ inputTime = 1 /\ now = 1
    /\ pdf = IF exists THEN Whole(1) ELSE << >>
    /\ pdfTime = 0
    /\ pc = "stopped"
    /\ seenTime = 0 /\ seen = 1 /\ oldLength = 0 /\ written = 0
    /\ answer = "none" /\ stops = 0
    /\ mixed = FALSE /\ raced = FALSE

At(place) == pc = place
Goto(place) == pc' = place

-----------------------------------------------------------------------------
(* A run's job: ExecuteBatchJobs, OutputUpToDate, BuildNativePdfFile *)

Begin ==
    /\ At("stopped")
    /\ answer' = "none"
    /\ Goto("output status")
    /\ UNCHANGED <<inputs, files, seenTime, seen, oldLength, written, stops, history>>

OutputStatus ==
    /\ At("output status")
    /\ \/ exists /\ seenTime' = pdfTime /\ Goto("input status")
       \/ ~exists /\ Goto("read") /\ UNCHANGED seenTime
    /\ UNCHANGED <<inputs, files, seen, oldLength, written, answer, stops, history>>

\* mutant: the times are not compared
InputStatusAny ==
    /\ At("input status")
    /\ Goto("tail")
    /\ UNCHANGED <<inputs, files, seenTime, seen, oldLength, written, answer, stops, history>>

InputStatus ==
    /\ At("input status")
    /\ Goto(IF seenTime < inputTime THEN "read" ELSE "tail")
    /\ UNCHANGED <<inputs, files, seenTime, seen, oldLength, written, answer, stops, history>>

\* mutant: the PDF's end is not looked at
CheckEndNever ==
    /\ At("tail")
    /\ answer' = "skipped" /\ Goto("stopped")
    /\ UNCHANGED <<inputs, files, seenTime, seen, oldLength, written, stops, history>>

CheckEnd ==
    /\ At("tail")
    /\ \/ EndsWithEof /\ answer' = "skipped" /\ Goto("stopped")
       \/ ~EndsWithEof /\ Goto("read") /\ UNCHANGED answer
    /\ UNCHANGED <<inputs, files, seenTime, seen, oldLength, written, stops, history>>

Read ==
    /\ At("read")
    /\ seen' = input /\ raced' = FALSE
    /\ Goto("build")
    /\ UNCHANGED <<inputs, files, seenTime, oldLength, written, answer, stops, mixed>>

Build ==
    /\ At("build")
    /\ Goto("open")
    /\ UNCHANGED <<inputs, files, seenTime, seen, oldLength, written, answer, stops, history>>

\* The input cannot be read, or not converted.
Fail ==
    /\ stops < MaxStops /\ pc \in {"read", "build", "open"}
    /\ answer' = "error" /\ Goto("stopped")
    /\ stops' = stops + 1
    /\ UNCHANGED <<inputs, files, seenTime, seen, oldLength, written, history>>

-----------------------------------------------------------------------------
(* WriteAll *)

\* open with O_CREAT and without O_TRUNC, and fstat.
Open ==
    /\ At("open")
    /\ oldLength' = Len(pdf)
    /\ exists' = TRUE
    /\ pdfTime' = IF exists THEN pdfTime ELSE now
    /\ written' = 0
    /\ Goto("write")
    /\ UNCHANGED <<inputs, pdf, seenTime, seen, answer, stops, history>>

\* One write(2) of `units` of the units that are left.
Write(units) ==
    /\ At("write") /\ written + units <= Length[seen]
    /\ pdf' = [n \in 1 .. (IF Len(pdf) > written + units THEN Len(pdf) ELSE written + units) |->
                 IF n > written /\ n <= written + units THEN seen ELSE pdf[n]]
    /\ pdfTime' = now
    /\ written' = written + units
    /\ Goto(IF written + units = Length[seen] THEN "truncate" ELSE "write")
    /\ UNCHANGED <<inputs, exists, seenTime, seen, oldLength, answer, stops, history>>

\* mutant: the file keeps what it had past the new end
TruncateNever ==
    /\ At("truncate")
    /\ UNCHANGED <<pdf, pdfTime>>
    /\ answer' = "ok" /\ Goto("stopped") /\ mixed' = FALSE
    /\ UNCHANGED <<inputs, exists, seenTime, seen, oldLength, written, stops, raced>>

\* A file that was longer is cut to its new size, and closed.
Truncate ==
    /\ At("truncate")
    /\ \/ /\ oldLength > Length[seen]
          /\ pdf' = SubSeq(pdf, 1, Length[seen]) /\ pdfTime' = now
       \/ /\ oldLength <= Length[seen]
          /\ UNCHANGED <<pdf, pdfTime>>
    /\ answer' = "ok" /\ Goto("stopped") /\ mixed' = FALSE
    /\ UNCHANGED <<inputs, exists, seenTime, seen, oldLength, written, stops, raced>>

\* What is left of an older PDF when the writing is broken off.
BreakOff ==
    IF pc \in {"write", "truncate"} /\ written # 0
    THEN mixed' \in BOOLEAN /\ (mixed' <=> oldLength > written)
    ELSE UNCHANGED mixed

\* A write, the ftruncate or the close fails (a full disk); what was written stays.
WriteFails ==
    /\ stops < MaxStops /\ pc \in {"write", "truncate"}
    /\ answer' = "error" /\ Goto("stopped") /\ BreakOff
    /\ stops' = stops + 1
    /\ UNCHANGED <<inputs, files, seenTime, seen, oldLength, written, raced>>

-----------------------------------------------------------------------------
(* What goes on around a run *)

Stop ==
    /\ stops < MaxStops /\ ~At("stopped")
    /\ Goto("stopped") /\ BreakOff
    /\ stops' = stops + 1
    /\ UNCHANGED <<inputs, files, seenTime, seen, oldLength, written, answer, raced>>

Edit ==
    /\ input + 1 \in Versions
    /\ input' = input + 1 /\ inputTime' = now
    /\ raced' = (raced \/ ~At("stopped") \/ pdfTime = now)
    /\ answer' = IF At("stopped") THEN "none" ELSE answer   \* that run's report is history
    /\ UNCHANGED <<files, now, pc, seenTime, seen, oldLength, written, stops, mixed>>

Tick ==
    /\ now < MaxTime
    /\ now' = now + 1
    /\ UNCHANGED <<input, inputTime, files, pc, seenTime, seen, oldLength, written, answer, stops, history>>

Job ==
    \/ Begin \/ OutputStatus \/ InputStatus \/ CheckEnd \/ Read \/ Build \/ Open
    \/ (\E units \in 1 .. Length[seen] : Write(units)) \/ Truncate

Next == Job \/ Fail \/ WriteFails \/ Stop \/ Edit \/ Tick

Spec == Init /\ [][Next]_vars

\* The batch is run again after a stop or a failure, and each run takes its steps.
AgainSpec == Spec /\ WF_vars(Job)

-----------------------------------------------------------------------------
(* Properties *)

TypeOK ==
    /\ input \in Versions /\ seen \in Versions
    /\ inputTime \in 0 .. MaxTime /\ pdfTime \in 0 .. MaxTime /\ now \in 0 .. MaxTime
    /\ seenTime \in 0 .. MaxTime
    /\ exists \in BOOLEAN /\ pdf \in Seq(Versions) /\ (~exists => pdf = << >>)
    /\ pc \in {"stopped", "output status", "input status", "tail", "read", "build", "open",
               "write", "truncate"}
    /\ oldLength \in Nat /\ written \in Nat
    /\ At("write") => written < Length[seen]
    /\ At("truncate") => written = Length[seen] /\ Len(pdf) >= written
    /\ answer \in {"none", "skipped", "ok", "error"} /\ stops \in 0 .. MaxStops
    /\ mixed \in BOOLEAN /\ raced \in BOOLEAN

\* Unless a write over an older PDF was broken off, a document that is skipped has the whole
\* PDF of one version, and unless it was edited during a run or in the tick of its PDF, as
\* make too would miss, that of its present version.  (A mixture of a new PDF with an old one's
\* end is skipped, although "only a complete PDF" is to be, batch_report.h:71.)
SkippedIsSound ==
    answer = "skipped" /\ ~mixed =>
        /\ \E v \in Versions : pdf = Whole(v)
        /\ ~raced => pdf = Whole(input)

\* A document reported as converted has exactly the PDF of what was read, also where a longer
\* file, a file cut short or a mixed one was overwritten.
OkIsWhole == answer = "ok" => pdf = Whole(seen)

\* A batch that goes on after stops and failures ends with the document's PDF (with the same
\* two exceptions): a PDF cut short or out of date is always made again.
GoesOn == <>[](pdf = Whole(input) \/ mixed \/ raced)
=============================================================================
