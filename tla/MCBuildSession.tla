--------------------------- MODULE MCBuildSession ---------------------------
EXTENDS BuildSession, TLC

(* Documents of three pieces with a blank line between them; the next one  *)
(* has another piece in place of a plain one, or the plain one again, or   *)
(* other options. The plain piece is the set's first.                      *)
First == <<<<"a">>, <<"a", "nl", "a">>, <<"fence">>, <<"def1">>, <<"open", "a">>, <<"eacute">>>>
Second == <<<<"b">>, <<"b", "nl", "under">>, <<"ref">>, <<"alpha">>, <<"item", "b">>,
            <<"close", "b">>, <<"note", "b">>, <<"toc">>, <<"han">>, <<"wiki">>>>
Third == <<<<"c">>, <<>>, <<"tab", "c">>, <<"fence">>, <<"ref", "ref">>>>

MCOptions == {{}, {"obsidian"}, {"trueType"}}
MCSystemFonts == <<"system", "fallback">>

Gap == <<"nl", "nl">>
Document(a, b, c) == First[a] \o Gap \o Second[b] \o Gap \o Third[c]
Pieces == (DOMAIN First) \X (DOMAIN Second) \X (DOMAIN Third)
PiecesOf == [t \in {Document(p[1], p[2], p[3]) : p \in Pieces} |->
               CHOOSE p \in Pieces : t = Document(p[1], p[2], p[3])]
MCTexts == DOMAIN PiecesOf

Edited(p) ==
    {p} \cup UNION {IF p[1] # 1 THEN {[p EXCEPT ![1] = 1]} ELSE {[p EXCEPT ![1] = i] : i \in DOMAIN First},
                   IF p[2] # 1 THEN {[p EXCEPT ![2] = 1]} ELSE {[p EXCEPT ![2] = i] : i \in DOMAIN Second},
                   IF p[3] # 1 THEN {[p EXCEPT ![3] = 1]} ELSE {[p EXCEPT ![3] = i] : i \in DOMAIN Third}}
MCFollows(last) ==
    {<<Document(q[1], q[2], q[3]), last[2]>> : q \in Edited(PiecesOf[last[1]])}
    \cup {<<last[1], given>> :
            given \in IF PiecesOf[last[1]][1] = 1 /\ PiecesOf[last[1]][3] = 1 THEN Options ELSE {}}

Has(text, symbols) == \E k \in DOMAIN text : text[k] \in symbols
MCUnicodeReference(text) == Has(text, {"alpha"})
MCAscii(text) == ~Has(text, {"eacute", "han"})
MCFits(text) == ~Has(text, {"han"})
Replaced(text, old, new) == [k \in DOMAIN text |-> IF text[k] = old THEN new ELSE text[k]]
MCWinAnsi(text) == Replaced(text, "eacute", "e9")
MCRewritten(text) == Replaced(text, "wiki", "link")
MCReferenceBudget(text) == 1 + Len(text) \div 9

(* What the steps to come may tell apart: versions by their order, and of  *)
(* what is kept between builds only what a version still names.            *)
Versions == {0, markdown.version, markdown.base, winAnsi.version, winAnsi.base, winAnsiOf,
             IF winAnsiChanged THEN lastWinAnsiOf ELSE 0} \cup {v.version : v \in views}
Rank(v) == Cardinality({u \in Versions : u < v})
Viewed(name) == {v.version : v \in {v \in views : v.kept = name}}
Named == winAnsiOf # 0 /\ winAnsiOf \in {markdown.version, markdown.base}
BaseOf(kept, named) == IF kept.base # 0 /\ named THEN <<Rank(kept.base), kept.old>> ELSE <<>>
MarkdownRest ==
    <<Rank(markdown.version), markdown.text,
      BaseOf(markdown, changed \/ markdown.base \in {winAnsiOf} \cup Viewed("markdown"))>>
WinAnsiRest ==
    IF ~Named /\ winAnsi.version \notin Viewed("winAnsi") THEN <<>>
    ELSE <<Rank(winAnsi.version), winAnsi.text, IF Named THEN Rank(winAnsiOf) ELSE 0,
           BaseOf(winAnsi, winAnsiChanged \/ winAnsi.base \in Viewed("winAnsi"))>>
RankedRecord(r) ==
    CASE r.kept \in {"none", "own"} -> r
      [] r.kept \notin {"none", "own"} /\ r.version \notin {KeptTextOf(r.kept).version, KeptTextOf(r.kept).base} ->
            NoRecord
      [] OTHER -> [r EXCEPT !.version = Rank(@)]
BuildState ==
    CASE stage = "idle" -> <<>>
      [] stage = "begun" -> <<changed>>
      [] stage \notin {"idle", "begun"} ->
            <<changed, winAnsiChanged, IF winAnsiChanged THEN Rank(lastWinAnsiOf) ELSE 0, fonts,
              tries, renderer, IF store.parsed THEN <<notes, RankedRecord(pending), recording>> ELSE <<>> >>
Ranked ==
    <<IF markdown.version = 0 THEN <<>> ELSE <<MarkdownRest, WinAnsiRest>>,
      options, IF store.spliced THEN store ELSE <<store.blocks, store.displaced, store.parsed>>,
      RankedRecord(record), tape, stage, BuildState>>
=============================================================================
