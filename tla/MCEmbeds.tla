------------------------------ MODULE MCEmbeds ------------------------------
(***************************************************************************)
(* Instances of Embeds for TLC: a document, notes a and b, each in a       *)
(* folder of its own, a hard link to a, and a note c that b names "a".       *)
(***************************************************************************)
EXTENDS EmbeddedText, TLC

CONSTANTS doc, a, b, c, link

Line0(kind) == [kind |-> kind, name |-> "a", anchor |-> Whole]
EmbedOf(name, anchor) == [kind |-> "embed", name |-> name, anchor |-> anchor]
T == Line0("text")
D == Line0("definition")
R == Line0("rule")
B == Line0("blank")
A == EmbedOf("a", Whole)
A1 == EmbedOf("a", "part")
B1 == EmbedOf("b", Whole)
L == EmbedOf("link", Whole)
X == EmbedOf("doc", Whole)

InFolder == doc :> "top" @@ a :> "top" @@ b :> "sub" @@ link :> "sub" @@ c :> "top"

\* "b" and "link" are found from everywhere; "a" means c in the folder of b and of the link.
Resolves ==
    [key \in Folders \X Names |->
        CASE key[2] = "a" -> IF key[1] = "sub" THEN c ELSE a
          [] key[2] = "b" -> b
          [] key[2] = "link" -> link
          [] key[2] = "doc" -> IF key[1] = "sub" THEN doc ELSE Nothing]

VaultOf(document, textA, textB, front) ==
    [document |-> document,
     body |-> doc :> document @@ a :> textA @@ b :> textB @@ link :> textA @@ c :> <<B1, A>>,
     front |-> [p \in Paths |-> IF p = b THEN front ELSE 0],
     section |-> [key \in Paths \X Anchors |-> IF key[1] \in {a, link} THEN Tail(textA) ELSE << >>],
     file |-> doc :> 0 @@ a :> 1 @@ b :> 2 @@ link :> 1 @@ c :> 3,
     folder |-> InFolder,
     resolve |-> Resolves]

Documents == {<<T, A, T, B1>>, <<A, A1, T>>, <<B1, B, B1, A>>, <<A1, L, T, L>>}
TextsOfA == {<<R, D, T>>, <<T, B1>>, <<R, B1, X>>, <<A1, B1, B, T>>}
TextsOfB == {<<T>>, <<A, T, X>>, <<T, L, A1>>}

SmallVaults == {VaultOf(d, x, y, f) : d \in Documents, x \in TextsOfA, y \in TextsOfB, f \in {0, 2}}
=============================================================================
