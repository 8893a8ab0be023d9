---------------------------- MODULE EmbeddedText ----------------------------
(***************************************************************************)
(* What the descent of Embeds brings in, and where it stands: the blocks   *)
(* of each entry spliced into the document's at the line of its embed      *)
(* (SpliceEmbeds), compared with the document as one reads it.             *)
(***************************************************************************)
EXTENDS Embeds, Functions, SequencesExt

EmbedLines(e) == {entries[e].embeds[n][1] : n \in 1 .. Len(entries[e].embeds)}

\* The lines of an entry that hold text once the lines of its embeds are comments (Blank): an embed
\* that was not brought in stays a link in its paragraph.
HoldsText(e, n) ==
    /\ n \in 1 .. Len(entries[e].text) \ EmbedLines(e)
    /\ entries[e].text[n].kind # "blank"

BlockStarts(e) == {n \in 1 .. Len(entries[e].text) : HoldsText(e, n) /\ ~HoldsText(e, n - 1)}

\* The blocks of an entry's own text, each at its first line (line), which the source map shows.
BlocksOf(e) ==
    [n \in 1 .. Cardinality(BlockStarts(e)) |->
        LET at == CHOOSE m \in BlockStarts(e) : Cardinality({k \in BlockStarts(e) : k <= m}) = n
        IN  [entry |-> e, at |-> at, line |-> at]]

\* mutant: a block keeps its own line
AtItsOwn(line, blocks) == blocks

\* The embed's line in the source map, for each of its blocks.
AtLine(line, blocks) == [n \in DOMAIN blocks |-> [blocks[n] EXCEPT !.line = line]]

\* The first of the blocks from one on that is not before a line, or the place after the last of them.
NotBefore(line, blocks, from) ==
    CHOOSE n \in from .. Len(blocks) + 1 :
        /\ \A m \in from .. n - 1 : blocks[m].line < line
        /\ n <= Len(blocks) => blocks[n].line >= line

\* SpliceEmbeds for one embed: the blocks before its line, then those it brings.
TakeEmbed(own, state, line, blocks) ==
    LET next == NotBefore(line, own, state.at)
    IN  [out |-> state.out \o SubSeq(own, state.at, next - 1) \o AtLine(line, blocks), at |-> next]

\* SpliceEmbeds: for one embed after another, and at the end the blocks after the last.
WithEmbeds(own, brought) ==
    LET taken[n \in 0 .. Len(brought)] ==
            IF n = 0 THEN [out |-> << >>, at |-> 1]
            ELSE TakeEmbed(own, taken[n - 1], brought[n].line, brought[n].blocks)
        all == taken[Len(brought)]
    IN  all.out \o SubSeq(own, all.at, Len(own))

\* AppendEntry: what an embed brings is an entry, with its own embeds in it.
Brought(e, splice) ==
    [n \in 1 .. Len(entries[e].embeds) |->
        [line |-> entries[e].embeds[n][1], blocks |-> splice[entries[e].embeds[n][2]]]]
Spliced ==
    LET splice[e \in 1 .. Len(entries)] == WithEmbeds(BlocksOf(e), Brought(e, splice))
    IN  splice[1]

-----------------------------------------------------------------------------
(* Properties *)

\* A place an embed may be at, from one around it: it names a note that is not around it, with
\* text, and was not refused.
Inside(around) ==
    LET embeds == {n \in 1 .. Len(around.text) : around.text[n].kind = "embed"}
        named(n) == vault.resolve[<<vault.folder[Last(around.notes)], around.text[n].name>>]
        brings(n) == Begun(PartOf(named(n), around.text[n].anchor))
    IN  {[place |-> Append(around.place, n), notes |-> Append(around.notes, named(n)), text |-> brings(n)] :
            n \in {m \in embeds :
                /\ Append(around.place, m) \notin refused
                /\ named(m) # Nothing
                /\ brings(m) # << >>
                /\ named(m) \notin Range(around.notes)
                /\ vault.file[named(m)] \notin {vault.file[p] : p \in Range(Tail(around.notes))}}}

\* The places of the embeds that belong in the document, at most MaxDepth deep.
Belongs ==
    LET document == [place |-> << >>, notes |-> <<DocumentPath>>, text |-> vault.document]
        level[d \in 0 .. MaxDepth] ==
            IF d = 0 THEN {document} ELSE UNION {Inside(around) : around \in level[d - 1]}
    IN  UNION {{at.place : at \in level[d]} : d \in 1 .. MaxDepth}

\* The order of reading: an embed before those inside it, and those before the next line's.
Earlier(a, b) ==
    \/ IsStrictPrefix(a, b)
    \/ \E n \in 1 .. Min2(Len(a), Len(b)) : a[n] < b[n] /\ SubSeq(a, 1, n - 1) = SubSeq(b, 1, n - 1)

\* The descent brings in the embeds that belong, in the order of reading; past the limit of their
\* number (or a cancel) it is the first ones that are there, and no later one.
FirstInOrder ==
    step = "done" =>
        LET places == {entries[e].place : e \in 2 .. Len(entries)} IN
        /\ \A e, f \in 2 .. Len(entries) : e < f => Earlier(entries[e].place, entries[f].place)
        /\ places \subseteq Belongs
        /\ \A p \in places, q \in Belongs \ places : Earlier(p, q)
        /\ Cardinality(places) = Min2(MaxEmbeds, Cardinality(Belongs)) \/ cancel

\* The document as it reads: each block once, where its text is or its embed stood, and in the
\* source map at the line of the document that brought it in.
InPlace ==
    step = "done" =>
        LET at(b) == Append(entries[b.entry].place, b.at)
            all == UNION {{[entry |-> e, at |-> n] : n \in BlockStarts(e)} : e \in 1 .. Len(entries)}
        IN
        /\ Len(Spliced) = Cardinality(all)
        /\ {[entry |-> Spliced[n].entry, at |-> Spliced[n].at] : n \in DOMAIN Spliced} = all
        /\ \A n \in 1 .. Len(Spliced) - 1 : Earlier(at(Spliced[n]), at(Spliced[n + 1]))
        /\ \A n \in DOMAIN Spliced : Spliced[n].line = Head(at(Spliced[n]))
=============================================================================
