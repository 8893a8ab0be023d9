------------------------------ MODULE MCServe ------------------------------
(***************************************************************************)
(* Instances of Serve for TLC: sessions of two lines, and of three shorter *)
(* ones.                                                                   *)
(***************************************************************************)
EXTENDS Serve

Requests ==
    {<<"id1", "input", "output">>,
     <<"markdown", "output">>,
     <<"id2", "toc", "markdown", "output">>,
     <<"workers", "id1", "input", "output">>,
     <<"id1", "bad">>,
     <<"id2", "id1">>,
     <<"input", "source_path", "id1", "output">>,
     <<"bad", "id1">>}

\* Lines at the limit, past it by one or by more than a block, and lines that ask for nothing.
OtherLines ==
    {<<"id1", "input", "output", "space", "space">>,
     <<"id1", "input", "output", "space", "return">>,
     <<"id1", "input", "output", "space", "space", "space">>,
     <<"space", "space", "space", "space", "space", "space", "quit", "return">>,
     << >>, <<"space">>, <<"return">>,
     <<"quit">>, <<"space", "quit", "space">>, <<"space", "space", "quit", "space">>}

Breaks == {<<"newline">>, <<"return", "newline">>}
LinesEnded(lines) == {l \o b : l \in lines, b \in Breaks}

\* What comes after a line, with or without a line break at its end.
Followers ==
    {<<"markdown", "output", "newline">>, <<"id2">>, <<"quit">>,
     <<"id1", "input", "output", "space", "space", "return", "newline">>}

Firsts == {l \o <<"newline">> : l \in Requests} \union LinesEnded(OtherLines)
TwoLines == {l \o m : l \in Firsts, m \in Followers}
ThreeLines ==
    {k \o l \o m : k \in {<<"id2", "toc", "markdown", "output", "newline">>, <<"id1", "bad", "return", "newline">>},
                   l \in {<<"markdown", "output", "newline">>, <<"quit", "newline">>, <<"newline">>},
                   m \in Followers}

Sessions == TwoLines \union ThreeLines
=============================================================================
