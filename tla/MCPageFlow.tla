----------------------------- MODULE MCPageFlow -----------------------------
(* Documents of a few blocks on pages of eleven lines, with two notes the    *)
(* text refers to and one only a note refers to.                            *)
EXTENDS PageFlow

Words(n) == [i \in 1..n |-> [extra |-> 0, refs |-> <<>>]]
Cites(n, i, refs) == [Words(n) EXCEPT ![i].refs = refs]
Formula(extra, refs) == <<[extra |-> extra, refs |-> refs]>>

Paragraph(lines) == [kind |-> "paragraph", lines |-> lines]
Heading(level) == [kind |-> "heading", level |-> level, lines |-> Words(1)]
Cells(a, b, refs) == [cells |-> <<Repeated(a, TableLine), Repeated(b, TableLine)>>, refs |-> refs]
TableOf(math, rows) == [kind |-> "table", math |-> math, rows |-> rows]
Code(n) == [kind |-> "code", n |-> n]

MCBlocks == {
    Paragraph(Words(6)),
    Paragraph(Cites(3, 2, <<1>>)),
    Paragraph(Formula(2, <<1, 2>>)),
    Heading(1), Heading(3),
    [kind |-> "bullet", lines |-> Words(1), children |-> <<Paragraph(Cites(5, 3, <<2>>)), Code(2)>>],
    [kind |-> "quote", children |-> <<Paragraph(Cites(2, 1, <<1>>)), [kind |-> "page break"],
                                      Paragraph(Words(1))>>],
    [kind |-> "page break"],
    [kind |-> "anchor"],
    TableOf(TRUE, <<[cells |-> <<Repeated(8, 5), Repeated(3, 9)>>, refs |-> <<1>>], Cells(1, 1, <<2>>)>>),
    [kind |-> "heading", level |-> 1, lines |-> Cites(1, 1, <<1>>)],
    [kind |-> "numbered", lines |-> Cites(1, 1, <<2>>), children |-> <<[kind |-> "rule"]>>],
    [kind |-> "alert", children |-> <<
        [kind |-> "bullet", lines |-> Words(2), children |-> <<
            [kind |-> "quote", children |-> <<Paragraph(Cites(1, 1, <<1>>))>>]>>],
        [kind |-> "formula", fits |-> FALSE, n |-> 2]>>],
    [kind |-> "images", shown |-> TRUE, talls |-> <<9, 4>>],
    [kind |-> "contents", n |-> 3],
    TableOf(TRUE, <<Cells(1, 1, <<>>), Cells(1, 1, <<1>>), Cells(1, 1, <<2>>), Cells(9, 1, <<>>)>>),
    TableOf(TRUE, <<Cells(1, 1, <<>>), Cells(12, 4, <<2>>)>>),
    TableOf(FALSE, <<Cells(1, 1, <<>>), Cells(1, 1, <<>>), Cells(11, 3, <<>>), Cells(1, 1, <<>>)>>) }

\* A table whose row fits a page with its note, but not with its header too.
MCTableBlocks == {TableOf(TRUE, <<Cells(1, 1, <<>>), Cells(1, 1, <<1>>)>>), Paragraph(Words(6))}

Note(tall, named, cuttable) == [tall |-> tall, named |-> named, cuttable |-> cuttable]
MCNoteSets == {
    <<Note(1, <<>>, FALSE), Note(2, <<3, 3, 1>>, FALSE), Note(1, <<2>>, FALSE)>>,
    <<Note(13, <<>>, TRUE), Note(1, <<3>>, FALSE), Note(1, <<>>, FALSE)>>,
    <<Note(2, <<3>>, FALSE), Note(20, <<3>>, TRUE), Note(2, <<>>, FALSE)>> }
MCTableNotes == {<<Note(n, <<>>, FALSE)>> : n \in {1, 8, 10, 14}}
=============================================================================
