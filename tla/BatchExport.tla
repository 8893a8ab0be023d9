---------------------------- MODULE BatchExport ----------------------------
(***************************************************************************)
(* A batch with a report (ExecuteBatchJobs of src/cli/main_cli.cpp): the   *)
(* threads of RunJobs convert the documents and each adds a record to the  *)
(* report, which is buffered; then the report is closed and the exit code  *)
(* made of the documents' results and the report's.                        *)
(*                                                                         *)
(* A document's result is its exit code: 0 (converted or skipped), 3 (not  *)
(* read) or 12 (not written, or without an output of its own).  A line of  *)
(* the report is the document with its result.                             *)
(***************************************************************************)
EXTENDS RunJobs, Sequences

CONSTANTS
    Broken,         \* documents that may have got a result before the batch began
    DiskFails,      \* TRUE: the report's file may fail
    FlushAt,        \* how many lines fill the buffer's 64 KiB
    Second,         \* a second, in ticks
    MaxElapsed      \* bound on the clock

ASSUME BatchAssumption ==
    /\ Broken \subseteq Jobs /\ DiskFails \in BOOLEAN
    /\ FlushAt \in Nat \ {0} /\ Second \in Nat \ {0} /\ MaxElapsed \in Nat

VARIABLES
    result,               \* per document; 0 until it has failed
    converted,            \* threads that have converted their document
    report,               \* "none" (no --report), "asked", "open", "closed"
    buffer, file, failed, \* of the report
    elapsed,              \* since the report's lastWrite
    exit

jobVars == <<result, converted>>
reportVars == <<report, buffer, file, failed, elapsed>>
exportVars == <<vars, jobVars, reportVars, exit>>

NoExit == -1
Codes == {0, 3, 12}

ExportInit ==
    /\ Init
    /\ result \in {r \in [Jobs -> {0, 12}] : \A j \in Jobs \ Broken : r[j] = 0}
    /\ converted = {}
    /\ report \in {"none", "asked"}
    /\ buffer = << >> /\ file = << >> /\ failed = FALSE /\ elapsed = 0
    /\ exit = NoExit

-----------------------------------------------------------------------------
(* Report *)

\* mutant: a failed write is forgotten
FlushUnchecked(lines) ==
    /\ buffer' = << >> /\ UNCHANGED failed
    /\ \/ file' = file \o lines
       \/ DiskFails /\ \E n \in 0 .. Len(lines) : file' = file \o SubSeq(lines, 1, n)

\* A file that fails has some of the lines; they are not tried again.
FlushLocked(lines) ==
    /\ buffer' = << >>
    /\ \/ file' = file \o lines /\ UNCHANGED failed
       \/ /\ DiskFails
          /\ \E n \in 0 .. Len(lines) : file' = file \o SubSeq(lines, 1, n)
          /\ failed' = TRUE

Open ==
    /\ report = "asked" /\ exit = NoExit
    /\ \/ report' = "open" /\ elapsed' = 0 /\ UNCHANGED exit
       \/ exit' = 12 /\ UNCHANGED <<report, elapsed>>          \* OpenReport
    /\ UNCHANGED <<vars, jobVars, buffer, file, failed>>

Write(line) ==
    IF Len(buffer) + 1 >= FlushAt \/ elapsed >= Second
    THEN FlushLocked(Append(buffer, line)) /\ elapsed' = 0
    ELSE buffer' = Append(buffer, line) /\ UNCHANGED <<file, failed, elapsed>>

\* mutant: what is buffered is not written
CloseUnflushed ==
    /\ report = "open" /\ returned
    /\ report' = "closed"
    /\ buffer' = << >> /\ UNCHANGED <<file, failed>>
    /\ UNCHANGED <<vars, jobVars, elapsed, exit>>

Close ==
    /\ report = "open" /\ returned
    /\ report' = "closed"
    /\ FlushLocked(buffer)
    /\ UNCHANGED <<vars, jobVars, elapsed, exit>>

-----------------------------------------------------------------------------
(* ExecuteBatchJobs *)

StartJobs(w) ==
    /\ report # "asked" /\ Start(w)
    /\ UNCHANGED <<jobVars, reportVars, exit>>

\* What RunJobs does between two documents.
Between(w) ==
    /\ TakeSize(w) \/ Measure(w) \/ Arrive(w) \/ Woken(w) \/ TakeJob(w)
    /\ UNCHANGED <<jobVars, reportVars, exit>>

Convert(w) ==
    /\ At(w, "run") /\ w \notin converted
    /\ converted' = converted \cup {w}
    /\ \/ result[index[w]] = 0 /\ \E code \in Codes : result' = [result EXCEPT ![index[w]] = code]
       \/ result[index[w]] # 0 /\ UNCHANGED result
    /\ UNCHANGED <<vars, reportVars, exit>>

Record(w) ==
    /\ w \in converted /\ Run(w)
    /\ converted' = converted \ {w}
    /\ \/ report = "open" /\ Write(<<index[w], result[index[w]]>>)
       \/ report = "none" /\ UNCHANGED <<buffer, file, failed, elapsed>>
    /\ UNCHANGED <<result, report, exit>>

JoinJobs ==
    /\ Join
    /\ UNCHANGED <<jobVars, reportVars, exit>>

Failures == {j \in Jobs : result[j] # 0}
LastResult == result[CHOOSE j \in Failures : \A i \in Failures : i <= j]

Exit ==
    /\ returned /\ report \in {"none", "closed"} /\ exit = NoExit
    /\ exit' = IF Failures # {} THEN LastResult
               ELSE IF failed THEN 12
               ELSE 0
    /\ UNCHANGED <<vars, jobVars, reportVars>>

\* Time passes while every thread that has something to do converts a document.
Tick ==
    /\ elapsed < MaxElapsed /\ report = "open" /\ ~returned
    /\ \A w \in Workers : (At(w, "run") /\ w \notin converted) \/ At(w, "done") \/ w \in waiting
    /\ \E w \in Workers : At(w, "run")
    /\ elapsed' = elapsed + 1
    /\ UNCHANGED <<vars, jobVars, report, buffer, file, failed, exit>>

Ended == exit # NoExit /\ UNCHANGED exportVars

ExportNext ==
    \/ Open \/ JoinJobs \/ Close \/ Exit \/ Tick \/ Ended
    \/ \E w \in Workers : StartJobs(w) \/ Between(w) \/ Convert(w) \/ Record(w)

ExportSpec == ExportInit /\ [][ExportNext]_exportVars

\* The calling thread goes on, and so does every other that has something to do.
FairExportSpec ==
    /\ ExportSpec /\ WF_exportVars(Open \/ JoinJobs \/ Close \/ Exit)
    /\ \A w \in Workers :
        WF_exportVars(StartJobs(w)) /\ WF_exportVars(Between(w) \/ Convert(w) \/ Record(w))

-----------------------------------------------------------------------------
(* Properties *)

\* While no write of the report has failed, it has one line for each document that a thread is
\* done with, with the document's result: none is lost between two flushes or at the close, and
\* none is written twice.
OneLineEach ==
    report \in {"open", "closed"} /\ ~failed =>
        LET lines == file \o (IF report = "open" THEN buffer ELSE << >>)
        IN /\ \A j \in Jobs :
                 Cardinality({n \in DOMAIN lines : lines[n] = <<j, result[j]>>}) = runs[j]
           /\ \A n \in DOMAIN lines : runs[lines[n][1]] = 1

\* A batch that exits with 0 has run every document without a failure, and its report has a
\* line for each.
ZeroMeansAll ==
    exit = 0 =>
        /\ \A j \in Jobs : runs[j] = 1 /\ result[j] = 0
        /\ report # "none" => {file[n] : n \in DOMAIN file} = {<<j, 0>> : j \in Jobs}

\* The command ends: no thread waits for ever for the others' sizes, the calling thread joins
\* every thread, those that went home too, and closes the report whatever its disk does.
Exits == <>(exit # NoExit)
=============================================================================
