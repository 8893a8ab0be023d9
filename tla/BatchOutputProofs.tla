------------------------- MODULE BatchOutputProofs -------------------------
(***************************************************************************)
(* WriteAll leaves exactly the PDF it was given, whatever the file had     *)
(* before, for PDFs of any number of units and any splitting of the        *)
(* writes.  The invariant that carries it says what the file holds between *)
(* two writes: the new units up to the position, then the old ones.  A     *)
(* second invariant says what a skipped document is: whose version its PDF *)
(* is, and which state of the two files makes the next run convert.        *)
(***************************************************************************)
EXTENDS BatchOutput, TLAPS

Overwriting ==
    pc \in {"write", "truncate"} =>
        /\ Len(pdf) = IF oldLength > written THEN oldLength ELSE written
        /\ \A n \in 1 .. written : pdf[n] = seen

Answered == answer = "ok" => At("stopped") /\ pdf = Whole(seen)

Created == pc \in {"write", "truncate"} => exists

IInv == TypeOK /\ Created /\ Overwriting /\ Answered

LEMMA LengthType ==
    /\ Versions = 1 .. Len(Length) /\ Len(Length) \in Nat \ {0}
    /\ 1 \in Versions
    /\ \A v \in Versions : Length[v] \in Nat \ {0}
BY LengthAssumption DEF Versions

LEMMA WholeType == ASSUME NEW v \in Versions
                   PROVE  Whole(v) \in Seq(Versions) /\ Len(Whole(v)) = Length[v]
BY LengthType DEF Whole

LEMMA Initially == Init => IInv
<1> SUFFICES ASSUME Init PROVE IInv
  OBVIOUS
<1> USE LengthType, BoundAssumption, SwitchAssumption
<1>1. input \in Versions /\ seen \in Versions
  BY DEF Init
<1>2. pdf \in Seq(Versions) /\ (~exists => pdf = << >>)
  <2>1. CASE exists
    BY <2>1, <1>1, WholeType DEF Init
  <2>2. CASE ~exists
    BY <2>2 DEF Init
  <2> QED
    BY <2>1, <2>2
<1>3. exists \in BOOLEAN
  BY DEF Init
<1>4. /\ inputTime \in 0 .. MaxTime /\ pdfTime \in 0 .. MaxTime /\ now \in 0 .. MaxTime
      /\ seenTime \in 0 .. MaxTime /\ stops \in 0 .. MaxStops
      /\ oldLength \in Nat /\ written \in Nat
  BY DEF Init
<1>5. ~At("write") /\ ~At("truncate")
  BY DEF Init, At
<1>6. TypeOK
  BY <1>1, <1>2, <1>3, <1>4, <1>5 DEF Init, TypeOK
<1> QED
  BY <1>5, <1>6 DEF Init, At, IInv, Created, Overwriting, Answered

\* One write(2): the file keeps its type, and the new units go on to the new position.
LEMMA WriteStep == ASSUME IInv, NEW units \in 1 .. Length[seen], Write(units)
                   PROVE  IInv'
<1> DEFINE end == written + units
           size == IF Len(pdf) > end THEN Len(pdf) ELSE end
<1> USE LengthType
<1>1. /\ At("write") /\ written \in Nat /\ seen \in Versions /\ pdf \in Seq(Versions)
      /\ oldLength \in Nat /\ units \in Nat \ {0} /\ Len(pdf) \in Nat
  <2>1. /\ At("write") /\ written \in Nat /\ seen \in Versions /\ pdf \in Seq(Versions)
        /\ oldLength \in Nat
    BY DEF IInv, TypeOK, Write
  <2> QED
    BY <2>1
<1>2. end \in Nat /\ end <= Length[seen] /\ size \in Nat /\ end <= size /\ Len(pdf) <= size
  BY <1>1 DEF Write
<1>3. pdf' = [n \in 1 .. size |-> IF n > written /\ n <= end THEN seen ELSE pdf[n]]
  BY DEF Write
<1>4. Len(pdf) >= written
  BY <1>1 DEF IInv, Overwriting, At
<1>5. ASSUME NEW n \in 1 .. size, ~(n > written /\ n <= end) PROVE n \in 1 .. Len(pdf)
  BY <1>5, <1>1, <1>2, <1>4
<1>6. pdf' \in Seq(Versions) /\ Len(pdf') = size
  <2>1. ASSUME NEW n \in 1 .. size
        PROVE  (IF n > written /\ n <= end THEN seen ELSE pdf[n]) \in Versions
    BY <1>1, <1>5
  <2>2. pdf' \in [1 .. size -> Versions]
    BY <2>1, <1>3
  <2> HIDE DEF size
  <2> QED
    BY <2>2, <1>2
<1>7. /\ seen' = seen /\ oldLength' = oldLength /\ written' = end
      /\ pc' = IF end = Length[seen] THEN "truncate" ELSE "write"
  BY DEF Write, Goto
<1>8. TypeOK'
  <2>1. /\ At("write")' => written' < Length[seen']
        /\ At("truncate")' => written' = Length[seen'] /\ Len(pdf') >= written'
    <3>1. Length[seen] \in Nat
      BY <1>1
    <3>2. end # Length[seen] => end < Length[seen]
      BY <3>1, <1>2
    <3>3. Len(pdf') >= end
      BY <1>2, <1>6
    <3> HIDE DEF end, size
    <3> QED
      BY <3>2, <3>3, <1>7 DEF At
  <2>2. written' \in Nat /\ oldLength' \in Nat /\ pdf' \in Seq(Versions)
    BY <1>1, <1>2, <1>6, <1>7
  <2>3. exists
    BY <1>1 DEF IInv, Created, At
  <2> QED
    BY <2>1, <2>2, <2>3, <1>7 DEF IInv, TypeOK, Write, history, inputs
<1>9. Len(pdf') = IF oldLength > end THEN oldLength ELSE end
  <2>1. Len(pdf) = IF oldLength > written THEN oldLength ELSE written
    BY <1>1 DEF IInv, Overwriting, At
  <2> QED
    BY <2>1, <1>1, <1>6
<1>10. ASSUME NEW n \in 1 .. end PROVE pdf'[n] = seen
  <2>1. CASE n > written
    BY <2>1, <1>1, <1>2, <1>3
  <2>2. CASE n <= written
    <3>1. pdf'[n] = pdf[n]
      BY <2>2, <1>1, <1>2, <1>3
    <3> QED
      BY <2>2, <3>1, <1>1 DEF IInv, Overwriting, At
  <2> QED
    BY <2>1, <2>2, <1>1
<1>11. Overwriting' /\ Created'
  BY <1>1, <1>7, <1>9, <1>10 DEF Overwriting, IInv, Created, Write, At
<1>12. Answered'
  BY <1>1 DEF IInv, Answered, Write, At
<1> QED
  BY <1>8, <1>11, <1>12 DEF IInv

\* The end of WriteAll: what is left of a longer file goes, and the file is what was written.
LEMMA TruncateStep == ASSUME IInv, Truncate PROVE IInv'
<1> USE LengthType
<1>1. /\ At("truncate") /\ seen \in Versions /\ pdf \in Seq(Versions) /\ oldLength \in Nat
      /\ written = Length[seen] /\ seen' = seen
  BY DEF IInv, TypeOK, Truncate
<1>2. /\ Len(pdf) = IF oldLength > Length[seen] THEN oldLength ELSE Length[seen]
      /\ \A n \in 1 .. Length[seen] : pdf[n] = seen
  BY <1>1 DEF IInv, Overwriting, At
<1>3. pdf' = Whole(seen)
  <2>1. CASE oldLength > Length[seen]
    <3>1. pdf' = SubSeq(pdf, 1, Length[seen])
      BY <2>1, <1>1 DEF Truncate
    <3>2. SubSeq(pdf, 1, Length[seen]) = [n \in 1 .. Length[seen] |-> pdf[n]]
      BY <1>1, <1>2, <2>1
    <3> QED
      BY <3>1, <3>2, <1>2 DEF Whole
  <2>2. CASE oldLength <= Length[seen]
    <3>1. pdf' = pdf
      BY <2>2, <1>1 DEF Truncate
    <3>2. pdf = [n \in 1 .. Length[seen] |-> pdf[n]]
      BY <1>1, <1>2, <2>2
    <3> QED
      BY <3>1, <3>2, <1>2 DEF Whole
  <2> QED
    BY <2>1, <2>2, <1>1
<1>4. TypeOK'
  <2>1. pdf' \in Seq(Versions)
    BY <1>1, <1>3, WholeType
  <2>2. pdfTime' \in 0 .. MaxTime
    BY DEF IInv, TypeOK, Truncate
  <2>3. exists
    BY <1>1 DEF IInv, Created, At
  <2> QED
    BY <2>1, <2>2, <2>3, <1>1 DEF IInv, TypeOK, Truncate, Goto, history, inputs, At
<1> QED
  BY <1>1, <1>3, <1>4 DEF IInv, Created, Overwriting, Answered, Truncate, Goto, At

LEMMA BreakOffType == ASSUME IInv, BreakOff PROVE mixed' \in BOOLEAN
BY DEF BreakOff, IInv, TypeOK

LEMMA Inductive == IInv /\ [Next]_vars => IInv'
<1> SUFFICES ASSUME IInv, [Next]_vars PROVE IInv'
  OBVIOUS
<1> USE LengthType
<1>1. CASE Begin
  BY <1>1 DEF Begin, IInv, TypeOK, Created, Overwriting, Answered, At, Goto, history, inputs, files
<1>2. CASE OutputStatus
  BY <1>2 DEF OutputStatus, IInv, TypeOK, Created, Overwriting, Answered, At, Goto, history, inputs, files
<1>3. CASE InputStatus
  BY <1>3 DEF InputStatus, IInv, TypeOK, Created, Overwriting, Answered, At, Goto, history, inputs, files
<1>4. CASE CheckEnd
  BY <1>4 DEF CheckEnd, IInv, TypeOK, Created, Overwriting, Answered, At, Goto, history, inputs, files
<1>5. CASE Read
  BY <1>5 DEF Read, IInv, TypeOK, Created, Overwriting, Answered, At, Goto, history, inputs, files
<1>6. CASE Build
  BY <1>6 DEF Build, IInv, TypeOK, Created, Overwriting, Answered, At, Goto, history, inputs, files
<1>7. CASE Open
  BY <1>7 DEF Open, IInv, TypeOK, Created, Overwriting, Answered, At, Goto, history, inputs
<1>8. ASSUME NEW units \in 1 .. Length[seen], Write(units) PROVE IInv'
  BY <1>8, WriteStep
<1>9. CASE Truncate
  BY <1>9, TruncateStep
<1>10. CASE Fail
  <2>1. stops' \in 0 .. MaxStops
    <3>1. stops \in 0 .. MaxStops
      BY DEF IInv, TypeOK
    <3>2. stops < MaxStops /\ stops' = stops + 1
      BY <1>10 DEF Fail
    <3> QED
      BY <3>1, <3>2, BoundAssumption
  <2> QED
    BY <1>10, <2>1 DEF Fail, IInv, TypeOK, Created, Overwriting, Answered, At, Goto, history, inputs, files
<1>11. CASE WriteFails
  <2>1. stops' \in 0 .. MaxStops
    <3>1. stops \in 0 .. MaxStops
      BY DEF IInv, TypeOK
    <3>2. stops < MaxStops /\ stops' = stops + 1
      BY <1>11 DEF WriteFails
    <3> QED
      BY <3>1, <3>2, BoundAssumption
  <2>2. mixed' \in BOOLEAN
    BY <1>11, BreakOffType DEF WriteFails
  <2> QED
    BY <1>11, <2>1, <2>2 DEF WriteFails, IInv, TypeOK, Created, Overwriting, Answered, At, Goto, history, inputs, files
<1>12. CASE Stop
  <2>1. stops' \in 0 .. MaxStops
    <3>1. stops \in 0 .. MaxStops
      BY DEF IInv, TypeOK
    <3>2. stops < MaxStops /\ stops' = stops + 1
      BY <1>12 DEF Stop
    <3> QED
      BY <3>1, <3>2, BoundAssumption
  <2>2. mixed' \in BOOLEAN
    BY <1>12, BreakOffType DEF Stop
  <2> QED
    BY <1>12, <2>1, <2>2 DEF Stop, IInv, TypeOK, Created, Overwriting, Answered, At, Goto, history, inputs, files
<1>13. CASE Edit
  BY <1>13, BoundAssumption DEF Edit, history, IInv, TypeOK, Created, Overwriting, Answered, At, files
<1>14. CASE Tick
  <2>1. now' \in 0 .. MaxTime
    <3>1. now \in 0 .. MaxTime
      BY DEF IInv, TypeOK
    <3>2. now < MaxTime /\ now' = now + 1
      BY <1>14 DEF Tick
    <3> QED
      BY <3>1, <3>2, BoundAssumption
  <2> QED
    BY <1>14, <2>1 DEF Tick, history, IInv, TypeOK, Created, Overwriting, Answered, At, files
<1>15. CASE UNCHANGED vars
  BY <1>15 DEF vars, IInv, TypeOK, Created, Overwriting, Answered, At
<1> QED
  BY <1>1, <1>2, <1>3, <1>4, <1>5, <1>6, <1>7, <1>8, <1>9, <1>10, <1>11, <1>12, <1>13, <1>14,
     <1>15 DEF Next, Job

\* Every reachable state is well typed: a write never passes the end of the PDF, and the file
\* is at least as long as what was written when WriteAll truncates it.
THEOREM TypeCorrect == Spec => []TypeOK
<1>1. IInv => TypeOK
  BY DEF IInv
<1> QED
  BY Initially, Inductive, <1>1, PTL DEF Spec

\* A document that is reported as converted has exactly its PDF, however long the file was that
\* it was written over and wherever an earlier run was stopped in it.
THEOREM WrittenWhole == Spec => []OkIsWhole
<1>1. IInv => OkIsWhole
  BY DEF IInv, Answered, OkIsWhole
<1> QED
  BY Initially, Inductive, <1>1, PTL DEF Spec

-----------------------------------------------------------------------------
(* What a skipped document is.  The PDF is a part of one version's unless   *)
(* a write is under way or was broken off over an older one; a run that     *)
(* goes on past its check has found it outdated, and it stays so, edited or *)
(* not, until the run writes.                                               *)

\* The first n units of a version's PDF.
Part(v, n) == [i \in 1 .. n |-> v]
FromOne == \E v \in Versions : \E n \in 0 .. Length[v] : pdf = Part(v, n)

Writing == pc \in {"write", "truncate"} /\ written # 0
OneVersion == ~mixed /\ ~Writing => FromOne

\* A PDF the next run makes again.
Outdated == pdfTime < inputTime \/ ~EndsWithEof
FoundOutdated ==
    pc \in {"read", "build", "open"} \/ (pc = "write" /\ written = 0) => Outdated

Times ==
    /\ inputTime <= now /\ pdfTime <= now
    /\ pc \in {"input status", "tail"} => seenTime = pdfTime

\* Unless an edit raced the run, it converts the present version and has compared its time.
ReadCurrent ==
    ~raced =>
        /\ pc \in {"build", "open", "write", "truncate"} => seen = input
        /\ At("tail") => inputTime <= pdfTime

CurrentOrOutdated == ~raced /\ ~mixed /\ ~Writing => Outdated \/ pdf = Whole(input)

Skipped == answer = "skipped" => At("stopped") /\ SkippedIsSound

SInv == Times /\ OneVersion /\ FoundOutdated /\ ReadCurrent /\ CurrentOrOutdated /\ Skipped

\* A part of a PDF that ends with its %%EOF is all of it.
LEMMA EofIsLast == ASSUME TypeOK, FromOne, EndsWithEof
                   PROVE  \E v \in Versions : pdf = Whole(v)
<1>0. PICK v \in Versions : \E n \in 0 .. Length[v] : pdf = Part(v, n)
  BY DEF FromOne
<1>1. PICK n \in 0 .. Length[v] : pdf = Part(v, n)
  BY <1>0
<1>2. Length[v] \in Nat /\ n \in Nat
  BY LengthType
<1>3. Len(pdf) = n
  BY <1>1, <1>2 DEF Part
<1>4. n > 0
  BY <1>3 DEF EndsWithEof
<1>5. pdf[n] = v
  BY <1>1, <1>2, <1>4 DEF Part
<1>6. Length[v] = n
  BY <1>3, <1>5 DEF EndsWithEof
<1> QED
  BY <1>1, <1>6 DEF Part, Whole

LEMMA WholeIsPart == ASSUME NEW v \in Versions, pdf = Whole(v) PROVE FromOne
<1>1. Length[v] \in 0 .. Length[v]
  BY LengthType
<1>2. pdf = Part(v, Length[v])
  BY DEF Whole, Part
<1> QED
  BY <1>1, <1>2 DEF FromOne

\* What is said of the file alone stays while it is left alone.
LEMMA SameFile == ASSUME UNCHANGED files
                  PROVE  (FromOne' <=> FromOne) /\ (EndsWithEof' <=> EndsWithEof)
BY DEF files, FromOne, EndsWithEof

LEMMA Numbers == ASSUME TypeOK
                 PROVE  now \in Nat /\ pdfTime \in Nat /\ inputTime \in Nat /\ seenTime \in Nat
<1>1. MaxTime \in Nat
  BY BoundAssumption
<1>2. /\ now \in 0 .. MaxTime /\ pdfTime \in 0 .. MaxTime /\ inputTime \in 0 .. MaxTime
      /\ seenTime \in 0 .. MaxTime
  BY DEF TypeOK
<1> QED
  BY <1>1, <1>2

\* A file that is not there has no end.
LEMMA AbsentHasNoEof == ASSUME TypeOK, ~exists PROVE ~EndsWithEof
<1>1. pdf = << >>
  BY DEF TypeOK
<1>2. Len(pdf) = 0
  BY <1>1
<1> QED
  BY <1>2 DEF EndsWithEof

LEMMA SInitially == Init => SInv
<1> SUFFICES ASSUME Init PROVE SInv
  OBVIOUS
<1> USE LengthType
<1>1. FromOne
  <2>1. CASE exists
    BY <2>1, WholeIsPart DEF Init
  <2>2. CASE ~exists
    <3>1. pdf = Part(1, 0)
      BY <2>2 DEF Init, Part
    <3>2. 0 \in 0 .. Length[1]
      OBVIOUS
    <3> QED
      BY <3>1, <3>2 DEF FromOne
  <2> QED
    BY <2>1, <2>2
<1>2. Outdated
  BY DEF Init, Outdated
<1>3. Times /\ ReadCurrent /\ FoundOutdated
  BY <1>2 DEF Init, Times, ReadCurrent, FoundOutdated, At
<1> QED
  BY <1>1, <1>2, <1>3 DEF Init, SInv, OneVersion, CurrentOrOutdated, Skipped

\* The steps of a run before it writes.
LEMMA CheckSteps == ASSUME IInv, SInv, Begin \/ OutputStatus \/ InputStatus \/ Read \/ Build \/ Fail
                    PROVE  SInv'
<1>1. (FromOne' <=> FromOne) /\ (EndsWithEof' <=> EndsWithEof)
  <2>1. UNCHANGED files
    BY DEF Begin, OutputStatus, InputStatus, Read, Build, Fail
  <2> QED
    BY <2>1, SameFile
<1>2. /\ pdf' = pdf /\ pdfTime' = pdfTime /\ input' = input /\ inputTime' = inputTime
      /\ now' = now /\ mixed' = mixed /\ exists' = exists /\ written' = written
  BY DEF Begin, OutputStatus, InputStatus, Read, Build, Fail, files, inputs, history
<1>3. ~At("write") /\ ~At("truncate") /\ ~At("write")' /\ ~At("truncate")'
  BY DEF Begin, OutputStatus, InputStatus, Read, Build, Fail, At, Goto
<1>4. Outdated' <=> Outdated
  BY <1>1, <1>2 DEF Outdated
<1>5. Times'
  BY <1>2 DEF SInv, Times, Begin, OutputStatus, InputStatus, Read, Build, Fail, At, Goto
<1>6. OneVersion'
  BY <1>1, <1>2, <1>3 DEF SInv, OneVersion, Writing, At
<1>7. FoundOutdated'
  <2>1. CASE OutputStatus
    <3>1. ~exists => ~EndsWithEof
      BY AbsentHasNoEof DEF IInv
    <3> QED
      BY <2>1, <3>1, <1>4 DEF OutputStatus, FoundOutdated, Outdated, At, Goto
  <2>2. CASE InputStatus
    BY <2>2, <1>4 DEF InputStatus, SInv, Times, FoundOutdated, Outdated, At, Goto
  <2>3. CASE Begin \/ Read \/ Build \/ Fail
    BY <2>3, <1>4 DEF Begin, Read, Build, Fail, SInv, FoundOutdated, At, Goto
  <2> QED
    BY <2>1, <2>2, <2>3
<1>8. CurrentOrOutdated'
  <2>1. CASE Read
    BY <2>1, <1>4 DEF Read, SInv, FoundOutdated, CurrentOrOutdated, At
  <2>2. CASE ~Read
    <3>1. raced' = raced
      BY <2>2 DEF Begin, OutputStatus, InputStatus, Build, Fail, history
    <3> QED
      BY <3>1, <1>2, <1>3, <1>4 DEF SInv, CurrentOrOutdated, Writing, At, Whole
  <2> QED
    BY <2>1, <2>2
<1>9. ReadCurrent'
  <2>1. CASE InputStatus
    <3>1. seenTime = pdfTime /\ inputTime \in Nat /\ pdfTime \in Nat
      BY <2>1, Numbers DEF InputStatus, SInv, Times, At, IInv
    <3>2. ~(pdfTime < inputTime) => inputTime <= pdfTime
      BY <3>1
    <3> QED
      BY <2>1, <3>1, <3>2, <1>2 DEF InputStatus, ReadCurrent, At, Goto
  <2>2. CASE Begin \/ OutputStatus \/ Read \/ Build \/ Fail
    BY <2>2, <1>2 DEF Begin, OutputStatus, Read, Build, Fail, history, SInv, ReadCurrent, At, Goto
  <2> QED
    BY <2>1, <2>2
<1>10. Skipped'
  BY DEF SInv, Skipped, Begin, OutputStatus, InputStatus, Read, Build, Fail, At
<1> QED
  BY <1>5, <1>6, <1>7, <1>8, <1>9, <1>10 DEF SInv

\* The check's last step: a PDF that ends with its %%EOF is skipped.
LEMMA CheckEndStep == ASSUME IInv, SInv, CheckEnd PROVE SInv'
<1>1. (FromOne' <=> FromOne) /\ (EndsWithEof' <=> EndsWithEof)
  BY SameFile DEF CheckEnd
<1>2. /\ At("tail") /\ pdf' = pdf /\ pdfTime' = pdfTime /\ input' = input /\ inputTime' = inputTime
      /\ now' = now /\ mixed' = mixed /\ raced' = raced /\ written' = written
      /\ seenTime' = seenTime /\ seen' = seen
  BY DEF CheckEnd, files, inputs, history
<1>3. Outdated' <=> Outdated
  BY <1>1, <1>2 DEF Outdated
<1>4. Times' /\ OneVersion' /\ CurrentOrOutdated'
  BY <1>1, <1>2, <1>3 DEF CheckEnd, SInv, Times, OneVersion, CurrentOrOutdated, Writing, At, Goto, Whole
<1>5. FoundOutdated' /\ ReadCurrent'
  BY <1>2, <1>3 DEF CheckEnd, FoundOutdated, ReadCurrent, Outdated, At, Goto
<1>6. Skipped'
  <2>1. CASE EndsWithEof
    <3>1. ~mixed => \E v \in Versions : pdf = Whole(v)
      BY <2>1, <1>2, EofIsLast DEF IInv, SInv, OneVersion, Writing, At
    <3>2. ~mixed /\ ~raced => pdf = Whole(input)
      <4>1. inputTime \in Nat /\ pdfTime \in Nat
        BY Numbers DEF IInv
      <4>2. ~raced => ~(pdfTime < inputTime)
        BY <4>1, <1>2 DEF SInv, ReadCurrent
      <4> QED
        BY <2>1, <4>2, <1>2 DEF SInv, CurrentOrOutdated, Outdated, Writing, At
    <3>3. pc' = "stopped"
      BY <2>1 DEF CheckEnd, Goto
    <3> QED
      BY <3>1, <3>2, <3>3, <1>2 DEF Skipped, SkippedIsSound, At, Whole
  <2>2. CASE ~EndsWithEof
    BY <2>2 DEF CheckEnd, SInv, Skipped, At
  <2> QED
    BY <2>1, <2>2
<1> QED
  BY <1>4, <1>5, <1>6 DEF SInv

LEMMA OpenStep == ASSUME IInv, SInv, Open PROVE SInv'
<1>1. /\ pdf' = pdf /\ input' = input /\ inputTime' = inputTime /\ now' = now /\ mixed' = mixed
      /\ raced' = raced /\ seen' = seen /\ written' = 0 /\ At("open") /\ pc' = "write"
      /\ answer' = answer
  BY DEF Open, inputs, history, At, Goto
<1>2. (FromOne' <=> FromOne) /\ (EndsWithEof' <=> EndsWithEof)
  BY <1>1 DEF FromOne, EndsWithEof
<1>3. Outdated'
  <2>1. CASE exists
    BY <2>1, <1>1, <1>2 DEF Open, SInv, FoundOutdated, Outdated, At
  <2>2. CASE ~exists
    <3>1. ~EndsWithEof
      BY <2>2, AbsentHasNoEof DEF IInv
    <3> QED
      BY <3>1, <1>2 DEF Outdated
  <2> QED
    BY <2>1, <2>2
<1>4. pdfTime' <= now'
  <2>1. now \in Nat /\ pdfTime \in Nat
    BY Numbers DEF IInv
  <2>2. now' = now /\ pdfTime <= now /\ pdfTime' \in {pdfTime, now}
    BY <1>1 DEF Open, SInv, Times
  <2> QED
    BY <2>1, <2>2
<1>5. Times'
  BY <1>1, <1>4 DEF SInv, Times
<1>6. OneVersion'
  BY <1>1, <1>2 DEF SInv, OneVersion, Writing, At
<1>7. ReadCurrent'
  BY <1>1 DEF SInv, ReadCurrent, At
<1>8. Skipped'
  BY <1>1 DEF SInv, Skipped, At
<1> QED
  BY <1>1, <1>3, <1>5, <1>6, <1>7, <1>8 DEF SInv, FoundOutdated, CurrentOrOutdated

LEMMA WriteSound == ASSUME IInv, SInv, NEW units \in 1 .. Length[seen], Write(units)
                    PROVE  SInv'
<1> USE LengthType
<1>1. /\ At("write") /\ written \in Nat /\ seen \in Versions /\ units \in Nat \ {0} /\ now \in Nat
      /\ input' = input /\ inputTime' = inputTime /\ now' = now /\ pdfTime' = now
      /\ raced' = raced /\ seen' = seen /\ written' = written + units /\ answer' = answer
      /\ pc' \in {"write", "truncate"}
  <2>1. now \in Nat
    BY Numbers DEF IInv
  <2>2. written \in Nat /\ seen \in Versions
    BY DEF IInv, TypeOK
  <2>3. units \in Nat \ {0}
    BY <2>2
  <2> QED
    BY <2>1, <2>2, <2>3 DEF Write, inputs, history, Goto
<1>2. written' # 0
  BY <1>1
<1>3. Writing'
  BY <1>1, <1>2 DEF Writing
<1>4. Times'
  <2>1. now <= now
    BY <1>1
  <2> QED
    BY <2>1, <1>1 DEF SInv, Times
<1>5. FoundOutdated'
  BY <1>1, <1>2 DEF FoundOutdated
<1>6. ReadCurrent' /\ Skipped'
  BY <1>1 DEF SInv, ReadCurrent, Skipped, At
<1> QED
  BY <1>3, <1>4, <1>5, <1>6 DEF SInv, OneVersion, CurrentOrOutdated

LEMMA TruncateSound == ASSUME IInv, SInv, Truncate PROVE SInv'
<1>1. /\ At("truncate") /\ seen \in Versions /\ pc' = "stopped" /\ answer' = "ok"
      /\ input' = input /\ inputTime' = inputTime /\ now' = now /\ raced' = raced /\ seen' = seen
  BY DEF IInv, TypeOK, Truncate, inputs, Goto
<1>2. pdf' = Whole(seen)
  BY TruncateStep, <1>1 DEF IInv, Answered, Whole
<1>3. FromOne'
  <2>1. Length[seen] \in 0 .. Length[seen]
    BY <1>1, LengthType
  <2>2. pdf' = Part(seen, Length[seen])
    BY <1>2 DEF Whole, Part
  <2> QED
    BY <1>1, <2>1, <2>2 DEF FromOne, Part
<1>4. ~raced => pdf' = Whole(input)
  BY <1>1, <1>2 DEF SInv, ReadCurrent, At
<1>5. Times'
  <2>1. now \in Nat /\ pdfTime \in Nat
    BY Numbers DEF IInv
  <2>2. pdfTime <= now /\ pdfTime' \in {pdfTime, now}
    BY DEF SInv, Times, Truncate
  <2>3. pdfTime' <= now
    BY <2>1, <2>2
  <2> QED
    BY <2>3, <1>1 DEF SInv, Times
<1>6. OneVersion' /\ FoundOutdated' /\ ReadCurrent' /\ Skipped'
  BY <1>1, <1>3 DEF OneVersion, FoundOutdated, ReadCurrent, Skipped, At
<1>7. CurrentOrOutdated'
  BY <1>1, <1>4 DEF CurrentOrOutdated, Whole
<1> QED
  BY <1>5, <1>6, <1>7 DEF SInv

\* A run that is broken off leaves a part of its own PDF, or says the file is mixed.
LEMMA BrokenOff == ASSUME IInv, SInv, BreakOff, pc' = "stopped", UNCHANGED <<inputs, files>>,
                          UNCHANGED <<raced, written>>, answer' # "skipped"
                   PROVE  SInv'
<1> USE LengthType
<1>1. (FromOne' <=> FromOne) /\ (EndsWithEof' <=> EndsWithEof)
  BY SameFile
<1>2. /\ pdf' = pdf /\ pdfTime' = pdfTime /\ input' = input /\ inputTime' = inputTime
      /\ now' = now /\ raced' = raced
  BY DEF files, inputs
<1>3. Outdated' <=> Outdated
  BY <1>1, <1>2 DEF Outdated
<1>4. Times' /\ FoundOutdated' /\ ReadCurrent' /\ Skipped'
  BY <1>2 DEF SInv, Times, FoundOutdated, ReadCurrent, Skipped, At
<1>5. CASE Writing
  <2>1. /\ written \in Nat /\ oldLength \in Nat /\ seen \in Versions /\ Length[seen] \in Nat
        /\ written <= Length[seen]
    <3>1. written \in Nat /\ oldLength \in Nat /\ seen \in Versions
      BY DEF IInv, TypeOK
    <3>2. Length[seen] \in Nat
      BY <3>1
    <3>3. written < Length[seen] \/ written = Length[seen]
      BY <1>5 DEF IInv, TypeOK, At, Writing
    <3> QED
      BY <3>1, <3>2, <3>3
  <2>2. ASSUME ~mixed' PROVE pdf = Part(seen, written)
    <3>1. ~(oldLength > written)
      BY <2>2, <1>5 DEF BreakOff, Writing
    <3>2. Len(pdf) = written /\ \A n \in 1 .. written : pdf[n] = seen
      BY <3>1, <1>5 DEF IInv, Overwriting, Writing
    <3>3. pdf = [n \in 1 .. written |-> pdf[n]]
      <4>1. pdf \in Seq(Versions)
        BY DEF IInv, TypeOK
      <4> QED
        BY <4>1, <3>2
    <3> QED
      BY <3>2, <3>3 DEF Part
  <2>3. OneVersion'
    <3>1. written \in 0 .. Length[seen]
      BY <2>1
    <3> QED
      BY <2>1, <2>2, <3>1, <1>1 DEF OneVersion, FromOne
  <2>4. ASSUME ~mixed', ~raced, ~Outdated PROVE pdf = Whole(input)
    <3>1. PICK v \in Versions : pdf = Whole(v)
      BY <2>3, <2>4, <1>1, <1>5, EofIsLast DEF IInv, OneVersion, Outdated, Writing
    <3>2. seen = input
      BY <2>4, <1>5 DEF SInv, ReadCurrent, Writing
    <3>3. written # 0
      BY <1>5 DEF Writing
    <3>4. pdf[1] = seen
      BY <2>2, <2>4, <2>1, <3>3 DEF Part
    <3>5. pdf[1] = v
      BY <3>1 DEF Whole
    <3> QED
      BY <3>1, <3>2, <3>4, <3>5
  <2>5. CurrentOrOutdated'
    BY <2>4, <1>2, <1>3 DEF CurrentOrOutdated, Whole
  <2> QED
    BY <1>4, <2>3, <2>5 DEF SInv
<1>6. CASE ~Writing
  <2>1. mixed' = mixed
    BY <1>6 DEF BreakOff, Writing
  <2> QED
    BY <2>1, <1>1, <1>2, <1>3, <1>4, <1>6 DEF SInv, OneVersion, CurrentOrOutdated, Whole
<1> QED
  BY <1>5, <1>6

LEMMA EditSound == ASSUME IInv, SInv, Edit PROVE SInv'
<1>1. (FromOne' <=> FromOne) /\ (EndsWithEof' <=> EndsWithEof)
  BY SameFile DEF Edit
<1>2. /\ pdf' = pdf /\ pdfTime' = pdfTime /\ now' = now /\ inputTime' = now /\ pc' = pc
      /\ seenTime' = seenTime /\ written' = written /\ mixed' = mixed
  BY DEF Edit, files
<1>3. now \in Nat /\ pdfTime \in Nat /\ inputTime \in Nat /\ inputTime <= now /\ pdfTime <= now
  BY Numbers DEF IInv, SInv, Times
<1>4. Outdated => Outdated'
  BY <1>1, <1>2, <1>3 DEF Outdated
<1>5. ASSUME ~raced' PROVE At("stopped") /\ pdfTime' < inputTime'
  <2>1. At("stopped") /\ pdfTime # now
    BY <1>5 DEF Edit
  <2>2. pdfTime < now
    BY <2>1, <1>3
  <2> QED
    BY <2>1, <2>2, <1>2
<1>6. Times'
  <2>1. now <= now
    BY <1>3
  <2> QED
    BY <2>1, <1>2, <1>3 DEF SInv, Times
<1>7. OneVersion' /\ FoundOutdated'
  BY <1>1, <1>2, <1>4 DEF SInv, OneVersion, FoundOutdated, Writing
<1>8. ReadCurrent' /\ CurrentOrOutdated'
  BY <1>2, <1>5 DEF ReadCurrent, CurrentOrOutdated, Outdated, At
<1>9. Skipped'
  BY <1>2 DEF Edit, SInv, Skipped, At
<1> QED
  BY <1>6, <1>7, <1>8, <1>9 DEF SInv

LEMMA TickSound == ASSUME IInv, SInv, Tick PROVE SInv'
<1>1. (FromOne' <=> FromOne) /\ (EndsWithEof' <=> EndsWithEof)
  BY SameFile DEF Tick
<1>2. /\ pdf' = pdf /\ pdfTime' = pdfTime /\ now' = now + 1 /\ inputTime' = inputTime /\ pc' = pc
      /\ input' = input /\ seenTime' = seenTime /\ written' = written /\ mixed' = mixed
      /\ raced' = raced /\ seen' = seen /\ answer' = answer
  BY DEF Tick, files, history
<1>3. Times'
  <2>1. now \in Nat /\ pdfTime \in Nat /\ inputTime \in Nat
    BY Numbers DEF IInv
  <2>2. inputTime <= now /\ pdfTime <= now
    BY DEF SInv, Times
  <2>3. inputTime <= now + 1 /\ pdfTime <= now + 1
    BY <2>1, <2>2
  <2> QED
    BY <2>3, <1>2 DEF SInv, Times
<1>4. Outdated' <=> Outdated
  BY <1>1, <1>2 DEF Outdated
<1>5. OneVersion' /\ FoundOutdated' /\ ReadCurrent' /\ CurrentOrOutdated'
  BY <1>1, <1>2, <1>4 DEF SInv, OneVersion, FoundOutdated, ReadCurrent, CurrentOrOutdated, Writing, At, Whole
<1>6. Skipped'
  BY <1>2 DEF SInv, Skipped, SkippedIsSound, At, Whole
<1> QED
  BY <1>3, <1>5, <1>6 DEF SInv

LEMMA SoundInductive == IInv /\ SInv /\ [Next]_vars => SInv'
<1> SUFFICES ASSUME IInv, SInv, [Next]_vars PROVE SInv'
  OBVIOUS
<1>1. ASSUME NEW units \in 1 .. Length[seen], Write(units) PROVE SInv'
  BY <1>1, WriteSound
<1>2. CASE WriteFails
  BY <1>2, BrokenOff DEF WriteFails, Goto
<1>3. CASE Stop
  <2>1. answer # "skipped"
    BY <1>3 DEF Stop, SInv, Skipped
  <2> QED
    BY <1>3, <2>1, BrokenOff DEF Stop, Goto
<1>4. CASE UNCHANGED vars
  <2>1. UNCHANGED files
    BY <1>4 DEF vars, files
  <2>2. (FromOne' <=> FromOne) /\ (EndsWithEof' <=> EndsWithEof)
    BY <2>1, SameFile
  <2> QED
    BY <1>4, <2>2 DEF vars, SInv, Times, OneVersion, FoundOutdated, ReadCurrent, CurrentOrOutdated,
       Skipped, SkippedIsSound, Outdated, Writing, At, Whole
<1> QED
  BY <1>1, <1>2, <1>3, <1>4, CheckSteps, CheckEndStep, OpenStep, TruncateSound, EditSound, TickSound
     DEF Next, Job

\* A document that is skipped has the whole PDF of a version, the present one unless an edit
\* raced, but for a write over an older PDF that was broken off (OutputUpToDate, WriteAll):
\* whatever the lengths of the PDFs and wherever earlier runs were stopped.
THEOREM SkipsAreSound == Spec => []SkippedIsSound
<1>1. SInv => SkippedIsSound
  BY DEF SInv, Skipped, SkippedIsSound
<1> QED
  BY Initially, Inductive, SInitially, SoundInductive, <1>1, PTL DEF Spec
=============================================================================
