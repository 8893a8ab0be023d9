------------------------------- MODULE Serve -------------------------------
(***************************************************************************)
(* A session of rayomd --serve --json (RunServeJson in main_cli.cpp): one  *)
(* line in is a request, one line out its answer, in order.  The lines are *)
(* read through a buffer of its own (LineReader in serve_request.cpp) from *)
(* a pipe that gives any number of bytes at a time; the request's buffers  *)
(* are used again.                                                         *)
(*                                                                         *)
(* A byte stands for itself where lines are made of it (a line break, a    *)
(* '\r', a space) and for a whole field, with its name and value, where a  *)
(* request is; "bad" is anything the JSON reader refuses.                  *)
(***************************************************************************)
EXTENDS Integers, Sequences, FiniteSets, SequencesExt

CONSTANTS
    Inputs,       \* what a client may send in a session: sequences of Bytes
    Ids,          \* the fields that give an id, and
    Args,         \* those that give args (see Fields)
    BatchArgs,    \* the args that are flags of the batch modes
    NoId,
    Limit,        \* kMaxRequestBytes
    BlockSize,    \* the bytes of LineReader::buffer_
    WordSize      \* a shorter line may be "quit"

FixedFields == {"input", "markdown", "source_path", "output"}
OtherBytes == {"bad", "quit", "space", "return", "newline"}
Fields == Ids \union Args \union FixedFields
Bytes == Fields \union OtherBytes

ASSUME BytesAssumption == Inputs \subseteq Seq(Bytes) /\ BatchArgs \subseteq Args /\ NoId \notin Ids
ASSUME FieldsAssumption ==
    Ids \intersect Args = {} /\ (Ids \union Args) \intersect (FixedFields \union OtherBytes) = {}
ASSUME SizesAssumption == {Limit, BlockSize, WordSize} \subseteq Nat \ {0}

VARIABLES
    input,       \* all the client means to send
    sent,        \* how much of it is written to the pipe
    closed,      \* the client has closed its end
    gone,        \* the client no longer reads
    taken, at,   \* how much was read, and how much of that looked at: end_ and begin_
    line, any, tooLong,   \* LineReader::Next
    request,     \* the request's buffers: id, args
    answers,     \* written and flushed
    step, code

reader == <<line, any, tooLong>>
vars == <<input, sent, closed, gone, taken, at, reader, request, answers, step, code>>

Init ==
    /\ input \in Inputs
    /\ sent = 0 /\ closed = FALSE /\ gone = FALSE
    /\ taken = 0 /\ at = 0
    /\ line = << >> /\ any = FALSE /\ tooLong = FALSE
    /\ request = [id |-> NoId, args |-> {}]
    /\ answers = << >>
    /\ step = "banner" /\ code = 0

-----------------------------------------------------------------------------
(* The client *)

Send ==
    /\ ~closed
    /\ sent' \in sent + 1 .. Len(input)
    /\ UNCHANGED <<input, closed, gone, taken, at, reader, request, answers, step, code>>

Close ==
    /\ ~closed /\ closed' = TRUE
    /\ UNCHANGED <<input, sent, gone, taken, at, reader, request, answers, step, code>>

Leave ==
    /\ ~gone /\ gone' = TRUE
    /\ UNCHANGED <<input, sent, closed, taken, at, reader, request, answers, step, code>>

-----------------------------------------------------------------------------
(* LineReader::Next *)

NextLine == line' = << >> /\ any' = FALSE /\ tooLong' = FALSE /\ step' = "read"

Exit(result) == step' = "done" /\ code' = result

\* mutant: fread, which waits for a full buffer
FullBlock == IF sent - taken >= BlockSize THEN BlockSize ELSE IF closed THEN sent - taken ELSE 0

\* What a read(2) gives: what the pipe has, up to the buffer's size; it waits only when that is nothing.
Block == IF sent - taken >= BlockSize THEN BlockSize ELSE sent - taken

Read ==
    /\ step = "read" /\ at = taken
    /\ Block > 0
    /\ taken' = taken + Block
    /\ any' = TRUE /\ step' = "take"
    /\ UNCHANGED <<input, sent, closed, gone, at, line, tooLong, request, answers, code>>

\* What is there of a line at the end of the input is a line.
LastLine == any

ReadEnds ==
    /\ step = "read" /\ at = taken
    /\ closed /\ sent = taken
    /\ IF LastLine THEN step' = "line" /\ UNCHANGED code ELSE Exit(0)
    /\ UNCHANGED <<input, sent, closed, gone, taken, at, reader, request, answers>>

\* What the buffer holds, up to a line break.
Buffered == SubSeq(input, at + 1, taken)
LineEnd == SelectInSeq(Buffered, LAMBDA b : b = "newline")
Part == IF LineEnd = 0 THEN Buffered ELSE SubSeq(Buffered, 1, LineEnd - 1)

\* One byte more than the limit: the '\r' of a CRLF line.
Past(part) == Len(line) + Len(part) > Limit + 1

Take ==
    /\ step = "take"
    /\ IF tooLong \/ Past(Part) THEN tooLong' = TRUE /\ line' = << >>
                                ELSE line' = line \o Part /\ UNCHANGED tooLong
    /\ at' = IF LineEnd = 0 THEN taken ELSE at + LineEnd
    /\ step' = IF LineEnd = 0 THEN "read" ELSE "line"
    /\ UNCHANGED <<input, sent, closed, gone, taken, any, request, answers, code>>

\* A line read before is still in the buffer.
TakeMore ==
    /\ step = "read" /\ at < taken
    /\ any' = TRUE /\ step' = "take"
    /\ UNCHANGED <<input, sent, closed, gone, taken, at, line, tooLong, request, answers, code>>

-----------------------------------------------------------------------------
(* ParseRequest *)

FieldOf(b) == CASE b \in Ids -> "id" [] b \in Args -> "args" [] OTHER -> b

\* A field as it is read: a second one of the name ends the reading, with the id read so far.
ReadField(state, b) ==
    IF ~state.ok \/ b \in {"space", "return"} THEN state
    ELSE IF b \notin Fields \/ FieldOf(b) \in state.seen THEN [state EXCEPT !.ok = FALSE]
    ELSE [ok |-> TRUE, seen |-> state.seen \union {FieldOf(b)},
          id |-> IF b \in Ids THEN b ELSE state.id,
          args |-> IF b \in Args THEN state.args \union {b} ELSE state.args]

\* mutant: the last request's id and args are still there
StaleRequest(previous) == [ok |-> TRUE, seen |-> {}, id |-> previous.id, args |-> previous.args]

NewRequest(previous) == [ok |-> TRUE, seen |-> {}, id |-> NoId, args |-> {}]

Parse(text, previous) ==
    LET state == FoldLeft(ReadField, NewRequest(previous), text) IN
    [state EXCEPT !.ok =
        /\ state.ok
        /\ ("input" \in state.seen) # ("markdown" \in state.seen)
        /\ "source_path" \in state.seen => "markdown" \in state.seen
        /\ "output" \in state.seen]

-----------------------------------------------------------------------------
(* RunServeJson *)

Banner ==
    /\ step = "banner"
    /\ IF gone THEN Exit(12) /\ UNCHANGED reader ELSE NextLine /\ UNCHANGED code
    /\ UNCHANGED <<input, sent, closed, gone, taken, at, request, answers>>

\* The line without a '\r' at its end.
Stripped(text) == IF text # << >> /\ Last(text) = "return" THEN Front(text) ELSE text

Blank(text) == \A n \in DOMAIN text : text[n] = "space"
Quits(text) ==
    /\ Len(text) < WordSize
    /\ \E n \in DOMAIN text : text[n] = "quit" /\ \A m \in DOMAIN text \ {n} : text[m] \in {"space", "return"}

\* An answer that could not be written ends the session.
Write(answer) ==
    IF gone THEN Exit(12) /\ UNCHANGED <<answers, reader>>
    ELSE answers' = Append(answers, answer) /\ NextLine /\ UNCHANGED code

LineTooLong ==
    /\ step = "line" /\ (tooLong \/ Len(Stripped(line)) > Limit)
    /\ Write([id |-> NoId, kind |-> "too long", args |-> {}])
    /\ UNCHANGED <<input, sent, closed, gone, taken, at, request>>

IsLine == step = "line" /\ ~tooLong /\ Len(Stripped(line)) <= Limit

Skip ==
    /\ IsLine /\ Blank(Stripped(line))
    /\ NextLine
    /\ UNCHANGED <<input, sent, closed, gone, taken, at, request, answers, code>>

Quit ==
    /\ IsLine /\ Quits(Stripped(line))
    /\ Exit(0)
    /\ UNCHANGED <<input, sent, closed, gone, taken, at, reader, request, answers>>

Refused(parsed) == [id |-> parsed.id, kind |-> "refused", args |-> {}]

\* The request's document, converted under the session's options with its own args.
Converted(parsed) ==
    IF parsed.args \intersect BatchArgs # {} THEN Refused(parsed)
    ELSE [id |-> parsed.id, kind |-> "converted", args |-> parsed.args]

Answer ==
    /\ IsLine /\ ~Blank(Stripped(line)) /\ ~Quits(Stripped(line))
    /\ \E parsed \in {Parse(Stripped(line), request)} :
        /\ request' = [id |-> parsed.id, args |-> parsed.args]
        /\ Write(IF parsed.ok THEN Converted(parsed) ELSE Refused(parsed))
    /\ UNCHANGED <<input, sent, closed, gone, taken, at>>

Session ==
    \/ Banner \/ Read \/ ReadEnds \/ Take \/ TakeMore
    \/ LineTooLong \/ Skip \/ Quit \/ Answer

Next == Send \/ Close \/ Leave \/ Session

Spec == Init /\ [][Next]_vars

\* The program goes on while it can; nobody has to send anything, or to close the pipe.
FairSpec == Spec /\ WF_vars(Session)

-----------------------------------------------------------------------------
(* Properties *)

\* The lines of a text, whatever blocks it came in: between line breaks, the last one when it is
\* not empty.
LinesOf(text) ==
    LET ends == {n \in DOMAIN text : text[n] = "newline"}
        end(k) == IF k = 0 THEN 0 ELSE CHOOSE e \in ends : Cardinality({f \in ends : f <= e}) = k
        whole == [k \in 1 .. Cardinality(ends) |-> SubSeq(text, end(k - 1) + 1, end(k) - 1)]
        rest == SubSeq(text, end(Len(whole)) + 1, Len(text))
    IN  IF rest = << >> THEN whole ELSE Append(whole, rest)

\* The answer a line gets on its own: to its id, when that is its first one and nothing before it
\* is wrong, and done with its args when nothing is wrong in it.
FieldsOf(text) == {FieldOf(b) : b \in Range(text) \intersect Fields}
NoneTwice(text) ==
    \A m, n \in DOMAIN text : m # n /\ {text[m], text[n]} \subseteq Fields => FieldOf(text[m]) # FieldOf(text[n])
Readable(text) == Range(text) \subseteq Fields \union {"space", "return"} /\ NoneTwice(text)
Complete(text) ==
    /\ Readable(text)
    /\ "output" \in FieldsOf(text)
    /\ Cardinality(FieldsOf(text) \intersect {"input", "markdown"}) = 1
    /\ ~ {"input", "source_path"} \subseteq FieldsOf(text)
IdOf(text) ==
    LET ids == {n \in DOMAIN text : text[n] \in Ids /\ Readable(SubSeq(text, 1, n))}
    IN  IF ids = {} THEN NoId ELSE text[CHOOSE n \in ids : TRUE]

Expected(text) ==
    IF Len(Stripped(text)) > Limit THEN [id |-> NoId, kind |-> "too long", args |-> {}]
    ELSE IF Complete(text) /\ Range(text) \intersect BatchArgs = {}
         THEN [id |-> IdOf(text), kind |-> "converted", args |-> Range(text) \intersect Args]
    ELSE [id |-> IdOf(text), kind |-> "refused", args |-> {}]

\* The answers a text gets: one for each line that is not blank, up to one that quits.
Ends(l) == Len(Stripped(l)) <= Limit /\ Quits(Stripped(l))
Asks(l) == Len(Stripped(l)) > Limit \/ ~Blank(Stripped(l))
AnswersTo(lines) == FoldLeft(LAMBDA said, l : IF Asks(l) THEN Append(said, Expected(l)) ELSE said, << >>, lines)
Answered(text) ==
    LET lines == LinesOf(text)
        last == SelectInSeq(lines, Ends)
    IN  AnswersTo(IF last = 0 THEN lines ELSE SubSeq(lines, 1, last - 1))

\* What of the first n bytes is whole lines.
WholeLines(n) ==
    LET ends == {m \in 1 .. n : input[m] = "newline"}
    IN  IF ends = {} THEN << >> ELSE SubSeq(input, 1, CHOOSE m \in ends : \A k \in ends : k <= m)

\* Each line has the answer it would have alone in a session of its own, in the order of the lines:
\* none takes over an id or args of another's, whatever blocks they came in, and exit code 0 says that
\* every request was answered, also one without a line break at the end.
OwnAnswers ==
    /\ IsPrefix(answers, Answered(SubSeq(input, 1, taken)))
    /\ step = "done" /\ code = 0 => answers = Answered(SubSeq(input, 1, at))

\* A request that was sent is answered with no need of more input, or of its end.
Waiting == step # "done" /\ Len(answers) < Len(Answered(WholeLines(sent)))
Prompt == []<>~Waiting
=============================================================================
