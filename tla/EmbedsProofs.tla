---------------------------- MODULE EmbedsProofs ----------------------------
(***************************************************************************)
(* Proofs about Embeds, for any vault and any limits: what ends the        *)
(* descent, what its limits keep, and that it brings in what the document  *)
(* embeds, in the order of reading.                                        *)
(***************************************************************************)
EXTENDS EmbeddedText, CountingLemmas, SequenceTheorems

\* The call that runs stands at a line of its text, or past them.
Standing ==
    /\ step # "done" <=> Len(stack) > 0
    /\ \A n \in 1 .. Len(stack) : stack[n].line > 0

\* What Expand has seen of the embed it is at.
Seen ==
    step \in {"found", "loaded"} =>
        /\ Line # 0
        /\ Note \in Paths /\ ~OnChain(Note)
        /\ Depth < MaxDepth
        /\ ~Full
        /\ step = "loaded" => loaded[Note] # "untried"

IInv == TypeOK /\ Standing /\ Seen /\ EntriesStay /\ NoCycle /\ WorkBounded /\ BytesKept

-----------------------------------------------------------------------------
(* The helpers *)

LEMMA SizeSmall == \A n \in Nat : Size(n) \in Nat /\ Size(n) <= n
BY LimitAssumption, SMT DEF Size

LEMMA SizeNat == \A n \in Int : Size(n) \in Nat
BY LimitAssumption, SMT DEF Size

LEMMA NextEmbedAt ==
    ASSUME NEW text \in Texts, NEW from \in Nat \ {0}
    PROVE  /\ NextEmbed(text, from) \in 0 .. Len(text)
           /\ NextEmbed(text, from) # 0 => NextEmbed(text, from) >= from
<1> DEFINE at == {n \in from .. Len(text) : text[n].kind = "embed"}
<1>1. at \subseteq Nat /\ at \subseteq from .. Len(text) /\ Len(text) \in Nat
  BY DEF Texts
<1>2. CASE at = {}
  BY <1>1, <1>2 DEF NextEmbed
<1>3. CASE at # {}
  <2>1. \E n \in at : \A m \in at : n <= m
    BY <1>1, <1>3, LeastNatural
  <2>2. NextEmbed(text, from) \in at
    BY <1>3, <2>1 DEF NextEmbed
  <2> QED
    BY <1>1, <2>2
<1> QED
  BY <1>2, <1>3

LEMMA Parts ==
    ASSUME vault \in Vaults, NEW p \in Paths, NEW anchor \in Anchors
    PROVE  PartOf(p, anchor) \in Texts /\ SizeOf(p) \in Nat
BY VaultAssumption DEF PartOf, SizeOf, Texts

LEMMA GrownNat ==
    ASSUME NEW text \in Texts
    PROVE  Grown(text) \in Nat
<1>1. IsFiniteSet(1 .. Len(text))
  BY FS_Interval DEF Texts
<1>2. IsFiniteSet({n \in 1 .. Len(text) : text[n].kind = "definition"})
  BY <1>1, FS_Subset
<1> QED
  BY <1>2, FS_CardinalityType DEF Grown

LEMMA BegunText ==
    ASSUME NEW text \in Texts
    PROVE  Begun(text) \in Texts /\ EntrySize(text) \in Nat
<1>1. Begun(text) \in Texts
  <2>1. CASE text # << >> /\ text[1].kind = "rule"
    <3>1. text[1] \in Lines
      BY <2>1 DEF Texts
    <3>2. [text[1] EXCEPT !.kind = "blank"] \in Lines
      BY <3>1 DEF Lines, Kinds
    <3> QED
      BY <2>1, <3>2 DEF Begun, Texts
  <2>2. CASE ~(text # << >> /\ text[1].kind = "rule")
    BY <2>2 DEF Begun
  <2> QED
    BY <2>1, <2>2
<1> QED
  BY <1>1, GrownNat DEF EntrySize, Texts

\* Where the innermost call of Expand is.
LEMMA Here ==
    ASSUME TypeOK, Standing, step # "done"
    PROVE  /\ Len(stack) \in Nat \ {0} /\ Depth \in Nat
           /\ Top \in [entry : 1 .. Len(entries), note : Paths, line : Nat \ {0}]
           /\ Text \in Texts /\ Line \in 0 .. Len(Text)
           /\ Line # 0 => /\ Line >= Top.line /\ Embed \in Lines
                          /\ FolderHere \in Folders
                          /\ Key \in Folders \X Names
                          /\ Note \in Paths \union {Nothing, Unknown}
<1>1. Len(stack) \in Nat \ {0} /\ Depth \in Nat
  BY DEF TypeOK, Standing, Depth
<1>2. Top \in [entry : 1 .. Len(entries), note : Paths, line : Nat \ {0}]
  <2>1. Top \in [entry : 1 .. Len(entries), note : Paths, line : Nat]
    <3> DEFINE Calls == [entry : 1 .. Len(entries), note : Paths, line : Nat]
    <3>1. stack \in Seq(Calls)
      BY DEF TypeOK
    <3> HIDE DEF Calls
    <3>2. Top \in Calls
      BY <1>1, <3>1 DEF Top
    <3> QED
      BY <3>2 DEF Calls
  <2>2. Top.line > 0
    BY <1>1 DEF Standing, Top
  <2> QED
    BY <2>1, <2>2
<1>3. Text \in Texts
  <2> DEFINE Entries == [text : Texts, place : Seq(Nat), embeds : Seq(Nat \X Nat)]
  <2>1. entries \in Seq(Entries)
    BY DEF TypeOK
  <2> HIDE DEF Entries
  <2>2. entries[Top.entry] \in Entries
    BY <1>2, <2>1
  <2> QED
    BY <2>2 DEF Entries, Text
<1>4. Line \in 0 .. Len(Text) /\ (Line # 0 => Line >= Top.line)
  BY <1>2, <1>3, NextEmbedAt DEF Line
<1>5. ASSUME Line # 0
      PROVE  Embed \in Lines /\ FolderHere \in Folders /\ Key \in Folders \X Names
             /\ Note \in Paths \union {Nothing, Unknown}
  <2>1. Embed \in Lines
    BY <1>3, <1>4, <1>5 DEF Embed, Texts
  <2>2. FolderHere \in Folders
    BY <1>2, VaultAssumption DEF TypeOK, FolderHere
  <2>3. Key \in Folders \X Names
    BY <2>1, <2>2 DEF Key, Lines
  <2> QED
    BY <2>1, <2>2, <2>3 DEF Note, TypeOK
<1> QED
  BY <1>1, <1>2, <1>3, <1>4, <1>5

-----------------------------------------------------------------------------
(* What a step does to the calls *)

EntryKind == [text : Texts, place : Seq(Nat), embeds : Seq(Nat \X Nat)]
CallKind == [entry : 1 .. Len(entries), note : Paths, line : Nat]

\* The steps that take no note into the chain.
SameChain ==
    /\ Len(stack') \in Nat /\ Len(stack') <= Len(stack)
    /\ \A n \in 1 .. Len(stack') : stack'[n].note = stack[n].note

LEMMA LeaveKeeps ==
    ASSUME TypeOK, Standing, step # "done", Leave, UNCHANGED entries
    PROVE  /\ stack' \in Seq(CallKind') /\ step' \in {"next", "done"}
           /\ Standing' /\ SameChain
<1>1. stack \in Seq(CallKind) /\ Len(stack) \in Nat \ {0} /\ CallKind' = CallKind
  BY Here DEF TypeOK, CallKind
<1> HIDE DEF CallKind
<1>2. stack' = SubSeq(stack, 1, Len(stack) - 1)
  BY DEF Leave
<1>3. \A n \in 1 .. Len(stack) - 1 : stack[n] \in CallKind
  BY <1>1
<1>4. /\ stack' \in Seq(CallKind) /\ Len(stack') = Len(stack) - 1
      /\ \A n \in 1 .. Len(stack') : stack'[n] = stack[n]
  <2> DEFINE shorter == SubSeq(stack, 1, Len(stack) - 1)
  <2>1. stack' = shorter
    BY <1>2
  <2>2. Len(stack) - 1 \in Int
    BY <1>1
  <2>3. /\ shorter \in Seq(CallKind)
        /\ Len(shorter) = IF 1 <= Len(stack) - 1 THEN Len(stack) - 1 - 1 + 1 ELSE 0
        /\ \A n \in 1 .. Len(stack) - 1 - 1 + 1 : shorter[n] = stack[1 + n - 1]
    BY <1>3, <2>2, SubSeqProperties
  <2> HIDE DEF shorter
  <2>4. Len(shorter) = Len(stack) - 1
    <3>1. Len(shorter) = IF 1 <= Len(stack) - 1 THEN Len(stack) - 1 - 1 + 1 ELSE 0
      BY <2>3
    <3>2. Len(stack) \in Nat \ {0}
      BY <1>1
    <3>3. \A k \in Nat \ {0} : (IF 1 <= k - 1 THEN k - 1 - 1 + 1 ELSE 0) = k - 1
      OBVIOUS
    <3> QED
      BY <3>1, <3>2, <3>3
  <2>5. ASSUME NEW n \in 1 .. Len(stack) - 1 PROVE shorter[n] = stack[n]
    <3>1. n \in 1 .. Len(stack) - 1 - 1 + 1 /\ 1 + n - 1 = n
      BY <1>1
    <3> QED
      BY <2>3, <3>1
  <2> QED
    BY <2>1, <2>3, <2>4, <2>5
<1>5. step' = IF Len(stack) = 1 THEN "done" ELSE "next"
  BY DEF Leave
<1>6. Standing'
  BY <1>1, <1>4, <1>5 DEF Standing
<1> QED
  BY <1>1, <1>4, <1>5, <1>6 DEF SameChain

LEMMA GoOnKeeps ==
    ASSUME TypeOK, Standing, step # "done", Line # 0, GoOn, UNCHANGED entries
    PROVE  /\ stack' \in Seq(CallKind') /\ step' = "next"
           /\ Standing' /\ SameChain
<1>1. stack \in Seq(CallKind) /\ Len(stack) \in Nat \ {0} /\ CallKind' = CallKind
  BY Here DEF TypeOK, CallKind
<1>2. Line \in Nat
  BY Here DEF Texts
<1>3. Top \in CallKind
  BY Here DEF CallKind
<1>4. [Top EXCEPT !.line = Line + 1] \in CallKind
  BY <1>2, <1>3 DEF CallKind
<1>5. stack' = [stack EXCEPT ![Len(stack)] = [Top EXCEPT !.line = Line + 1]] /\ step' = "next"
  BY DEF GoOn, Top
<1>6. Len(stack') = Len(stack)
      /\ \A n \in 1 .. Len(stack) : stack'[n] = IF n = Len(stack) THEN [Top EXCEPT !.line = Line + 1] ELSE stack[n]
  BY <1>1, <1>5 
<1>7. \A n \in 1 .. Len(stack) : stack'[n] \in CallKind
  BY <1>1, <1>4, <1>6
<1>8. stack' \in Seq(CallKind)
  BY <1>1, <1>4, <1>5
<1>9. \A n \in 1 .. Len(stack) : stack'[n].note = stack[n].note /\ stack'[n].line > 0
  <2> SUFFICES ASSUME NEW n \in 1 .. Len(stack) PROVE stack'[n].note = stack[n].note /\ stack'[n].line > 0
    OBVIOUS
  <2>1. CASE n = Len(stack)
    BY <1>2, <1>3, <1>6, <2>1 DEF Top, CallKind
  <2>2. CASE n # Len(stack)
    BY <1>6, <2>2 DEF Standing
  <2> QED
    BY <2>1, <2>2
<1> QED
  BY <1>1, <1>5, <1>6, <1>8, <1>9 DEF Standing, SameChain

LEMMA SameCalls ==
    ASSUME TypeOK, Standing, UNCHANGED <<stack, entries>>
    PROVE  stack' \in Seq(CallKind') /\ SameChain
BY DEF TypeOK, CallKind, SameChain

\* The call that reads a note just brought in, above one that goes on after its embed.
LEMMA IncludeKeeps ==
    ASSUME TypeOK, Standing, Include, Note \in Paths
    PROVE  /\ entries' \in Seq(EntryKind) /\ Len(entries') = Len(entries) + 1
           /\ stack' \in Seq(CallKind') /\ Len(stack') = Len(stack) + 1
           /\ \A n \in 1 .. Len(stack) : stack'[n].note = stack[n].note
           /\ stack'[Len(stack) + 1].note = Note
           /\ step' = "next" /\ Standing'
           /\ \A e \in 1 .. Len(entries) : /\ entries'[e].text = entries[e].text
                                           /\ entries'[e].place = entries[e].place
           /\ entries'[Len(entries) + 1].text = Begun(PartOf(Note, Embed.anchor))
           /\ entries'[Len(entries) + 1].place = Place
           /\ \A n \in 1 .. Len(stack) : n # Len(stack) => stack'[n] = stack[n]
           /\ stack'[Len(stack)].entry = Top.entry /\ stack'[Len(stack)].line = Line + 1
           /\ stack'[Len(stack) + 1].entry = Len(entries) + 1 /\ stack'[Len(stack) + 1].line = 1
           /\ entries'[Top.entry].embeds = Append(entries[Top.entry].embeds, <<Line, Child>>)
           /\ \A e \in 1 .. Len(entries) : e # Top.entry => entries'[e].embeds = entries[e].embeds
           /\ entries'[Len(entries) + 1].embeds = << >>
<1> DEFINE text == PartOf(Note, Embed.anchor)
           above == [Top EXCEPT !.line = Line + 1]
           around == [entries[Top.entry] EXCEPT !.embeds = Append(@, <<Line, Child>>)]
           entry == [text |-> Begun(text), place |-> Place, embeds |-> << >>]
           call == [entry |-> Child, note |-> Note, line |-> 1]
<1>1. step = "loaded" /\ Line # 0
  BY DEF Include, Usable, AtEmbed
<1>2. /\ stack \in Seq(CallKind) /\ Len(stack) \in Nat \ {0}
      /\ entries \in Seq(EntryKind) /\ Len(entries) \in Nat
      /\ Top \in [entry : 1 .. Len(entries), note : Paths, line : Nat \ {0}]
      /\ Line \in Nat \ {0} /\ Embed \in Lines
  <2>1. stack \in Seq(CallKind) /\ entries \in Seq(EntryKind)
    BY DEF TypeOK, CallKind, EntryKind
  <2>2. Text \in Texts /\ Line \in 0 .. Len(Text)
    BY <1>1, Here
  <2> QED
    BY <1>1, <2>1, <2>2, Here DEF Texts
<1>3. text \in Texts /\ Begun(text) \in Texts
  BY <1>2, Parts, BegunText DEF TypeOK, Lines
<1>4. entries[Top.entry] \in EntryKind
  BY <1>2
<1>5. /\ around \in EntryKind /\ around.text = entries[Top.entry].text /\ around.place = entries[Top.entry].place
      /\ around.embeds = Append(entries[Top.entry].embeds, <<Line, Child>>)
  <2>1. Child \in Nat
    BY <1>2 DEF Child
  <2>2. Append(entries[Top.entry].embeds, <<Line, Child>>) \in Seq(Nat \X Nat)
    BY <1>2, <1>4, <2>1 DEF EntryKind
  <2> QED
    BY <1>4, <2>2 DEF EntryKind
<1>6. entry \in EntryKind
  <2>1. Place \in Seq(Nat)
    BY <1>2, <1>4 DEF Place, EntryKind
  <2>2. << >> \in Seq(Nat \X Nat)
    OBVIOUS
  <2> QED
    BY <1>3, <2>1, <2>2 DEF EntryKind
<1>7. entries' = Append([entries EXCEPT ![Top.entry] = around], entry)
      /\ stack' = Append([stack EXCEPT ![Len(stack)] = above], call) /\ step' = "next"
  BY DEF Include, Top
<1> HIDE DEF around, entry
<1>8. /\ entries' \in Seq(EntryKind) /\ Len(entries') = Len(entries) + 1
      /\ entries'[Top.entry] = around
      /\ \A e \in 1 .. Len(entries) : e # Top.entry => entries'[e] = entries[e]
      /\ entries'[Len(entries) + 1] = entry
  <2> DEFINE longer == [entries EXCEPT ![Top.entry] = around]
  <2>1. longer \in Seq(EntryKind) /\ Len(longer) = Len(entries)
        /\ \A e \in 1 .. Len(entries) : longer[e] = IF e = Top.entry THEN around ELSE entries[e]
    BY <1>2, <1>5, ExceptSeq
  <2>2. entries' = Append(longer, entry)
    BY <1>7
  <2> HIDE DEF longer
  <2>3. /\ Append(longer, entry) \in Seq(EntryKind) /\ Len(Append(longer, entry)) = Len(longer) + 1
        /\ \A e \in 1 .. Len(longer) : Append(longer, entry)[e] = longer[e]
        /\ Append(longer, entry)[Len(longer) + 1] = entry
    BY <1>6, <2>1, AppendProperties
  <2>4. Len(longer) = Len(entries)
    BY <2>1
  <2>5. entries' \in Seq(EntryKind) /\ Len(entries') = Len(entries) + 1 /\ entries'[Len(entries) + 1] = entry
    BY <2>2, <2>3, <2>4
  <2>6. \A e \in 1 .. Len(entries) : entries'[e] = longer[e]
    BY <2>2, <2>3, <2>4
  <2>7. entries'[Top.entry] = around
    BY <1>2, <2>1, <2>6
  <2>8. \A e \in 1 .. Len(entries) : e # Top.entry => entries'[e] = entries[e]
    BY <2>1, <2>6
  <2> QED
    BY <2>5, <2>7, <2>8
<1>9. CallKind \subseteq CallKind' /\ above \in CallKind /\ call \in CallKind'
  <2>1. CallKind' = [entry : 1 .. Len(entries) + 1, note : Paths, line : Nat]
    BY <1>8 DEF CallKind
  <2>2. above = [entry |-> Top.entry, note |-> Top.note, line |-> Line + 1]
    BY <1>2
  <2>3. above \in CallKind
    BY <1>2, <2>2 DEF CallKind
  <2>4. call \in CallKind'
    <3>1. Child \in 1 .. Len(entries) + 1
      BY <1>2 DEF Child
    <3> QED
      BY <2>1, <3>1
  <2>5. CallKind \subseteq CallKind'
    <3> SUFFICES ASSUME NEW c \in CallKind PROVE c \in CallKind'
      OBVIOUS
    <3>1. c = [entry |-> c.entry, note |-> c.note, line |-> c.line]
          /\ c.entry \in 1 .. Len(entries) /\ c.note \in Paths /\ c.line \in Nat
      BY DEF CallKind
    <3>2. c.entry \in 1 .. Len(entries) + 1
      BY <1>2, <3>1
    <3> QED
      BY <2>1, <3>1, <3>2
  <2> QED
    BY <2>3, <2>4, <2>5
<1>10. /\ above.entry = Top.entry /\ above.note = Top.note /\ above.line = Line + 1 /\ above.line > 0
       /\ call.entry = Len(entries) + 1 /\ call.note = Note /\ call.line = 1 /\ call.line > 0
  BY <1>2 DEF Child
<1> HIDE DEF above, call
<1>11. /\ stack' \in Seq(CallKind') /\ Len(stack') = Len(stack) + 1
       /\ stack'[Len(stack)] = above
       /\ \A n \in 1 .. Len(stack) : n # Len(stack) => stack'[n] = stack[n]
       /\ stack'[Len(stack) + 1] = call
  <2> DEFINE later == [stack EXCEPT ![Len(stack)] = above]
  <2>1. later \in Seq(CallKind) /\ Len(later) = Len(stack)
        /\ \A n \in 1 .. Len(stack) : later[n] = IF n = Len(stack) THEN above ELSE stack[n]
    BY <1>2, <1>9, ExceptSeq
  <2>2. later \in Seq(CallKind')
    BY <1>9, <2>1
  <2>3. stack' = Append(later, call)
    BY <1>7
  <2> HIDE DEF later
  <2>4. /\ Append(later, call) \in Seq(CallKind') /\ Len(Append(later, call)) = Len(later) + 1
        /\ \A n \in 1 .. Len(later) : Append(later, call)[n] = later[n]
        /\ Append(later, call)[Len(later) + 1] = call
    BY <1>9, <2>2, AppendProperties
  <2>5. Len(later) = Len(stack)
    BY <2>1
  <2>6. stack' \in Seq(CallKind') /\ Len(stack') = Len(stack) + 1 /\ stack'[Len(stack) + 1] = call
    BY <2>3, <2>4, <2>5
  <2>7. \A n \in 1 .. Len(stack) : stack'[n] = later[n]
    BY <2>3, <2>4, <2>5
  <2>8. stack'[Len(stack)] = above
    BY <1>2, <2>1, <2>7
  <2>9. \A n \in 1 .. Len(stack) : n # Len(stack) => stack'[n] = stack[n]
    BY <2>1, <2>7
  <2> QED
    BY <2>6, <2>8, <2>9
<1>12. \A n \in 1 .. Len(stack) : stack'[n].note = stack[n].note /\ stack'[n].line > 0
  <2> SUFFICES ASSUME NEW n \in 1 .. Len(stack)
               PROVE  stack'[n].note = stack[n].note /\ stack'[n].line > 0
    OBVIOUS
  <2>1. CASE n = Len(stack)
    <3>1. stack'[n] = above
      BY <1>11, <2>1
    <3> QED
      BY <1>10, <2>1, <3>1 DEF Top
  <2>2. CASE n # Len(stack)
    <3>1. stack'[n] = stack[n]
      BY <1>11, <2>2
    <3> QED
      BY <3>1 DEF Standing
  <2> QED
    BY <2>1, <2>2
<1>13. Standing'
  BY <1>2, <1>7, <1>10, <1>11, <1>12 DEF Standing
<1>14. entry.text = Begun(text) /\ entry.place = Place /\ entry.embeds = << >>
  BY DEF entry
<1>15. \A e \in 1 .. Len(entries) : entries'[e].text = entries[e].text /\ entries'[e].place = entries[e].place
  BY <1>5, <1>8
<1>16. entries'[Len(entries) + 1].text = Begun(text) /\ entries'[Len(entries) + 1].place = Place
  BY <1>8, <1>14
<1>17. stack'[Len(stack)].entry = Top.entry /\ stack'[Len(stack)].line = Line + 1
  BY <1>10, <1>11
<1>18. /\ entries'[Top.entry].embeds = Append(entries[Top.entry].embeds, <<Line, Child>>)
       /\ \A e \in 1 .. Len(entries) : e # Top.entry => entries'[e].embeds = entries[e].embeds
       /\ entries'[Len(entries) + 1].embeds = << >>
  BY <1>5, <1>8, <1>14
<1> QED
  BY <1>7, <1>8, <1>10, <1>11, <1>12, <1>13, <1>15, <1>16, <1>17, <1>18

\* The steps that bring in no note.
Quiet ==
    /\ SameChain /\ Standing' /\ stack' \in Seq(CallKind') /\ step' \in {"next", "found", "loaded", "done"}
    /\ UNCHANGED <<vault, entries, bytes>>

LEMMA QuietOrInclude ==
    ASSUME IInv, [Next]_vars
    PROVE  Quiet \/ Include
<1>1. TypeOK /\ Standing
  BY DEF IInv
<1>2. CASE Return
  BY <1>1, <1>2, LeaveKeeps DEF Return, Quiet, counts
<1>3. CASE Stop
  BY <1>1, <1>3, LeaveKeeps DEF Stop, AtEmbed, Quiet, counts
<1>4. CASE TooDeep
  BY <1>1, <1>4, GoOnKeeps DEF TooDeep, MayEmbed, AtEmbed, Quiet, counts
<1>5. CASE LookUp
  BY <1>1, <1>5, SameCalls DEF LookUp, MayEmbed, AtEmbed, Quiet, Standing
<1>6. CASE NoNote
  BY <1>1, <1>6, GoOnKeeps DEF NoNote, MayEmbed, AtEmbed, Quiet, counts
<1>7. CASE Found
  BY <1>1, <1>7, SameCalls DEF Found, MayEmbed, AtEmbed, Quiet, Standing, counts
<1>8. CASE Cancelled
  BY <1>1, <1>8, LeaveKeeps DEF Cancelled, AtEmbed, Quiet, counts
<1>9. CASE Load
  BY <1>1, <1>9, SameCalls DEF Load, AtEmbed, Quiet, Standing
<1>10. CASE Unread
  BY <1>1, <1>10, GoOnKeeps DEF Unread, AtEmbed, Quiet, counts
<1>11. CASE TooLarge
  BY <1>1, <1>11, GoOnKeeps DEF TooLarge, Usable, AtEmbed, Quiet
<1>12. CASE Cancel
  BY <1>1, <1>12, SameCalls DEF Cancel, Quiet, Standing, counts, TypeOK
<1>13. CASE UNCHANGED vars
  BY <1>1, <1>13, SameCalls DEF vars, Quiet, Standing, counts, TypeOK
<1> QED
  BY <1>2, <1>3, <1>4, <1>5, <1>6, <1>7, <1>8, <1>9, <1>10, <1>11, <1>12, <1>13 DEF Next, Expand

\* What Include's guard says once Expand has seen the embed.
LEMMA Including ==
    ASSUME IInv, Include
    PROVE  /\ TypeOK /\ Standing /\ step = "loaded"
           /\ Note \in Paths /\ ~OnChain(Note) /\ Depth < MaxDepth /\ ~Full /\ ~SameFile
           /\ PartOf(Note, Embed.anchor) \in Texts /\ SizeOf(Note) \in Nat
<1>1. TypeOK /\ Standing /\ Seen
  BY DEF IInv
<1>2. step = "loaded" /\ Line # 0 /\ ~SameFile
  BY DEF Include, Usable, AtEmbed
<1>3. Note \in Paths /\ ~OnChain(Note) /\ Depth < MaxDepth /\ ~Full
  BY <1>1, <1>2 DEF Seen
<1>4. Embed.anchor \in Anchors /\ vault \in Vaults
  BY <1>1, <1>2, Here DEF Lines, TypeOK
<1> QED
  BY <1>1, <1>2, <1>3, <1>4, Parts

-----------------------------------------------------------------------------
(* The invariant *)

LEMMA InitInv ==
    ASSUME Init
    PROVE  IInv
<1> DEFINE document == [text |-> vault.document, place |-> << >>, embeds |-> << >>]
           call == [entry |-> 1, note |-> DocumentPath, line |-> 1]
<1>1. vault \in Vaults /\ entries = <<document>> /\ stack = <<call>>
  BY DEF Init
<1>2. document \in EntryKind
  BY <1>1, VaultAssumption DEF EntryKind
<1>3. call \in CallKind /\ call.line > 0
  BY <1>1, NameAssumption DEF CallKind
<1> HIDE DEF document, call
<1>4. entries \in Seq(EntryKind) /\ Len(entries) = 1 /\ stack \in Seq(CallKind) /\ Len(stack) = 1 /\ stack[1] = call
  BY <1>1, <1>2, <1>3
<1>5. TypeOK
  <2>1. entries \in Seq(EntryKind) /\ stack \in Seq(CallKind) /\ vault \in Vaults
    BY <1>1, <1>4
  <2>2. known \in [Folders \X Names -> Paths \union {Nothing, Unknown}]
        /\ loaded \in [Paths -> {"untried", "read", "failed"}] /\ step \in {"next", "found", "loaded", "done"}
    BY DEF Init
  <2>3. {bytes, read, scanned, lookups} \subseteq Nat
    <3>1. bytes = 0 /\ read = 0 /\ scanned = 0 /\ lookups = 0
      BY DEF Init
    <3> QED
      BY <3>1
  <2>4. stopped \in BOOLEAN /\ cancel \in BOOLEAN
    BY DEF Init
  <2>5. {stopped, cancel} \subseteq BOOLEAN
    BY <2>4
  <2> QED
    BY <2>1, <2>2, <2>3, <2>5 DEF TypeOK, EntryKind, CallKind
<1>6. Standing
  BY <1>3, <1>4 DEF Init, Standing
<1>7. Seen
  BY DEF Init, Seen
<1>8. EntriesStay /\ NoCycle
  BY <1>4, LimitAssumption DEF EntriesStay, NoCycle
<1>9. WorkBounded /\ BytesKept
  BY LimitAssumption DEF Init, WorkBounded, BytesKept
<1> QED
  BY <1>5, <1>6, <1>7, <1>8, <1>9 DEF IInv

LEMMA KeepsTypes ==
    ASSUME IInv, [Next]_vars
    PROVE  TypeOK' /\ Standing'
<1>1. TypeOK /\ Standing /\ Seen
  BY DEF IInv
<1>2. /\ entries' \in Seq(EntryKind) /\ stack' \in Seq(CallKind')
      /\ step' \in {"next", "found", "loaded", "done"} /\ Standing'
  <2>1. CASE Quiet
    BY <1>1, <2>1 DEF Quiet, TypeOK, EntryKind
  <2>2. CASE Include
    BY <2>2, Including, IncludeKeeps
  <2> QED
    BY <2>1, <2>2, QuietOrInclude
<1>3. vault' \in Vaults /\ bytes' \in Nat
  <2>1. CASE Quiet
    BY <1>1, <2>1 DEF Quiet, TypeOK
  <2>2. CASE Include
    <3>1. EntrySize(PartOf(Note, Embed.anchor)) \in Nat
      BY <2>2, Including, BegunText
    <3>2. bytes' = bytes + EntrySize(PartOf(Note, Embed.anchor)) /\ vault' = vault
      BY <2>2 DEF Include
    <3> QED
      BY <1>1, <3>1, <3>2 DEF TypeOK
  <2> QED
    BY <2>1, <2>2, QuietOrInclude
<1>4. known' \in [Folders \X Names -> Paths \union {Nothing, Unknown}] /\ lookups' \in Nat
  <2>1. CASE LookUp
    <3>1. Key \in Folders \X Names /\ vault \in Vaults
      BY <1>1, <2>1, Here DEF LookUp, MayEmbed, AtEmbed, TypeOK
    <3>2. vault.resolve[Key] \in Paths \union {Nothing}
      BY <3>1, VaultAssumption
    <3>3. PICK path \in Paths \union {Nothing} : known' = [known EXCEPT ![Key] = path]
      BY <2>1, <3>2 DEF LookUp
    <3>4. known' \in [Folders \X Names -> Paths \union {Nothing, Unknown}]
      BY <1>1, <3>3 DEF TypeOK
    <3> QED
      BY <1>1, <2>1, <3>4 DEF LookUp, TypeOK
  <2>2. CASE ~LookUp
    BY <1>1, <2>2 DEF Next, Expand, Return, Stop, TooDeep, NoNote, Found, Cancelled, Load, Unread, TooLarge,
                      Include, Cancel, vars, counts, TypeOK
  <2> QED
    BY <2>1, <2>2
<1>5. loaded' \in [Paths -> {"untried", "read", "failed"}] /\ read' \in Nat
  <2>1. CASE Load
    <3>1. Note \in Paths
      BY <1>1, <2>1 DEF Load, AtEmbed, Seen
    <3>2. SizeOf(Note) \in Nat
      BY <1>1, <3>1, VaultAssumption DEF SizeOf, TypeOK, Texts
    <3> QED
      BY <1>1, <2>1, <3>2 DEF Load, TypeOK
  <2>2. CASE ~Load
    BY <1>1, <2>2 DEF Next, Expand, Return, Stop, TooDeep, LookUp, NoNote, Found, Cancelled, Unread, TooLarge,
                      Include, Cancel, vars, counts, TypeOK
  <2> QED
    BY <2>1, <2>2
<1>6. scanned' \in Nat
  <2>1. CASE Usable /\ Scanned
    <3>1. Note \in Paths
      BY <1>1, <2>1 DEF Usable, AtEmbed, Seen
    <3>2. SizeOf(Note) \in Nat
      BY <1>1, <3>1, VaultAssumption DEF SizeOf, TypeOK, Texts
    <3> QED
      BY <1>1, <2>1, <3>2 DEF Scanned, TypeOK
  <2>2. CASE ~(Usable /\ Scanned)
    BY <1>1, <2>2 DEF Next, Expand, Return, Stop, TooDeep, LookUp, NoNote, Found, Cancelled, Load, Unread, TooLarge,
                      Include, Cancel, vars, counts, TypeOK
  <2> QED
    BY <2>1, <2>2
<1>7. {stopped', cancel'} \subseteq BOOLEAN
  BY <1>1 DEF Next, Expand, Return, Stop, TooDeep, LookUp, NoNote, Found, Cancelled, Load, Unread, TooLarge,
              Include, Cancel, vars, counts, TypeOK
<1> QED
  BY <1>2, <1>3, <1>4, <1>5, <1>6, <1>7 DEF TypeOK, EntryKind, CallKind

LEMMA KeepsSeen ==
    ASSUME IInv, [Next]_vars
    PROVE  Seen'
<1>1. TypeOK /\ Standing /\ Seen
  BY DEF IInv
<1>2. CASE Found
  <2>1. UNCHANGED <<vault, entries, stack, known>> /\ step' = "found"
    BY <1>2 DEF Found
  <2>2. Line # 0 /\ Note \in Paths /\ ~OnChain(Note) /\ Depth < MaxDepth /\ ~Full
    BY <1>2 DEF Found, MayEmbed, AtEmbed
  <2> QED
    BY <2>1, <2>2 DEF Seen, Line, Note, Key, FolderHere, Embed, OnChain, Depth, Full, Text, Top
<1>3. CASE Load
  <2>1. UNCHANGED <<vault, entries, stack, known>> /\ step = "found" /\ step' = "loaded"
    BY <1>3 DEF Load, AtEmbed
  <2>2. Line # 0 /\ Note \in Paths /\ ~OnChain(Note) /\ Depth < MaxDepth /\ ~Full
    BY <1>1, <2>1 DEF Seen
  <2>3. loaded'[Note] # "untried"
    BY <1>1, <1>3, <2>2 DEF Load, TypeOK
  <2> QED
    BY <2>1, <2>2, <2>3 DEF Seen, Line, Note, Key, FolderHere, Embed, OnChain, Depth, Full, Text, Top
<1>4. CASE Cancel \/ UNCHANGED vars
  <2>1. UNCHANGED <<vault, entries, stack, known, loaded, step>>
    BY <1>4 DEF Cancel, vars
  <2> QED
    BY <1>1, <2>1 DEF Seen, Line, Note, Key, FolderHere, Embed, OnChain, Depth, Full, Text, Top
<1>5. CASE step' \in {"next", "done"}
  BY <1>5 DEF Seen
<1>6. CASE LookUp
  BY <1>6 DEF LookUp, MayEmbed, AtEmbed, Seen
<1> QED
  BY <1>2, <1>3, <1>4, <1>5, <1>6 DEF Next, Expand, Return, Stop, TooDeep, NoNote, Cancelled, Unread, TooLarge,
     Include, Leave, GoOn

LEMMA KeepsEntries ==
    ASSUME IInv, [Next]_vars
    PROVE  EntriesStay'
<1>1. TypeOK /\ EntriesStay
  BY DEF IInv
<1>2. CASE Quiet
  BY <1>1, <1>2 DEF Quiet, EntriesStay
<1>3. CASE Include
  <2>1. Len(entries') = Len(entries) + 1 /\ ~Full
    BY <1>3, Including, IncludeKeeps
  <2>2. Len(entries) \in Nat /\ MaxEmbeds \in Nat
    BY <1>1, LimitAssumption DEF TypeOK
  <2> QED
    BY <2>1, <2>2 DEF Full, EntriesStay
<1> QED
  BY <1>2, <1>3, QuietOrInclude

\* A note is compared with the chain by its path, when it is found, and by its file, once it was
\* opened; the chain does not change in between.
LEMMA KeepsNoCycle ==
    ASSUME IInv, [Next]_vars
    PROVE  NoCycle'
<1>1. TypeOK /\ Standing /\ NoCycle
  BY DEF IInv
<1>2. Len(stack) \in Nat /\ MaxDepth \in Nat
  BY <1>1, LimitAssumption DEF TypeOK
<1>3. CASE Quiet
  <2>1. Len(stack') \in Nat /\ Len(stack') <= Len(stack) /\ vault' = vault
        /\ \A n \in 1 .. Len(stack') : stack'[n].note = stack[n].note
    BY <1>3 DEF Quiet, SameChain
  <2>2. 1 .. Len(stack') \subseteq 1 .. Len(stack) /\ Len(stack') <= MaxDepth + 1
    BY <1>1, <1>2, <2>1 DEF NoCycle
  <2> QED
    BY <1>1, <2>1, <2>2 DEF NoCycle
<1>4. CASE Include
  <2> DEFINE top == Len(stack) + 1
  <2>1. /\ Len(stack') = top /\ stack'[top].note = Note /\ vault' = vault
        /\ \A n \in 1 .. Len(stack) : stack'[n].note = stack[n].note
    <3>1. Note \in Paths
      BY <1>4, Including
    <3> QED
      BY <1>1, <1>4, <3>1, IncludeKeeps DEF Include
  <2>2. top <= MaxDepth + 1
    BY <1>2, <1>4, Including DEF Depth
  <2>3. \A n \in 1 .. Len(stack) : /\ stack[n].note # Note
                                   /\ n # 1 => vault.file[stack[n].note] # vault.file[Note]
    BY <1>2, <1>4, Including DEF OnChain, SameFile
  <2>4. ASSUME NEW m \in 1 .. top, NEW n \in 1 .. top, m # n
        PROVE  /\ stack'[m].note # stack'[n].note
               /\ m # 1 /\ n # 1 => vault.file[stack'[m].note] # vault.file[stack'[n].note]
    <3>1. CASE m = top
      <4>1. n \in 1 .. Len(stack)
        BY <1>2, <2>4, <3>1
      <4> QED
        BY <2>1, <2>3, <3>1, <4>1
    <3>2. CASE n = top
      <4>1. m \in 1 .. Len(stack)
        BY <1>2, <2>4, <3>2
      <4> QED
        BY <2>1, <2>3, <3>2, <4>1
    <3>3. CASE m # top /\ n # top
      <4>1. m \in 1 .. Len(stack) /\ n \in 1 .. Len(stack)
        BY <1>2, <3>3
      <4> QED
        BY <1>1, <2>1, <2>4, <4>1 DEF NoCycle
    <3> QED
      BY <3>1, <3>2, <3>3
  <2> QED
    BY <2>1, <2>2, <2>4 DEF NoCycle
<1> QED
  BY <1>3, <1>4, QuietOrInclude

LEMMA KeepsWork ==
    ASSUME IInv, [Next]_vars
    PROVE  WorkBounded'
<1>1. TypeOK /\ Standing /\ Seen /\ WorkBounded
  BY DEF IInv
<1>2. /\ lookups \in Nat /\ read \in Nat /\ scanned \in Nat
      /\ MaxLookups \in Nat /\ MaxReadBytes \in Nat /\ MaxScanBytes \in Nat /\ MaxBytes \in Nat
      /\ lookups <= MaxLookups /\ read <= MaxReadBytes /\ scanned <= MaxScanBytes
  BY <1>1, LimitAssumption DEF TypeOK, WorkBounded
<1>3. lookups' <= MaxLookups
  <2>1. CASE LookUp
    BY <1>2, <2>1 DEF LookUp
  <2>2. CASE ~LookUp
    BY <1>2, <2>2 DEF Next, Expand, Return, Stop, TooDeep, NoNote, Found, Cancelled, Load, Unread, TooLarge,
                      Include, Cancel, vars, counts
  <2> QED
    BY <2>1, <2>2
<1>4. read' <= MaxReadBytes
  <2>1. CASE Load
    <3>1. Note \in Paths
      BY <1>1, <2>1 DEF Load, AtEmbed, Seen
    <3>2. SizeOf(Note) \in Nat
      BY <1>1, <3>1, VaultAssumption DEF SizeOf, TypeOK, Texts
    <3>3. Size(MaxReadBytes - read) \in Nat /\ Size(MaxReadBytes - read) <= MaxReadBytes - read
      BY <1>2, SizeSmall
    <3>4. CASE read' = read + SizeOf(Note) /\ SizeOf(Note) <= Min2(MaxBytes, Size(MaxReadBytes - read))
      BY <1>2, <3>2, <3>3, <3>4 DEF Min2
    <3> QED
      BY <1>2, <2>1, <3>4 DEF Load
  <2>2. CASE ~Load
    BY <1>2, <2>2 DEF Next, Expand, Return, Stop, TooDeep, LookUp, NoNote, Found, Cancelled, Unread, TooLarge,
                      Include, Cancel, vars, counts
  <2> QED
    BY <2>1, <2>2
<1>5. scanned' <= MaxScanBytes
  <2>1. CASE Usable /\ Scanned
    <3>1. Note \in Paths
      BY <1>1, <2>1 DEF Usable, AtEmbed, Seen
    <3>2. SizeOf(Note) \in Nat
      BY <1>1, <3>1, VaultAssumption DEF SizeOf, TypeOK, Texts
    <3>3. Size(MaxScanBytes - scanned) \in Nat /\ Size(MaxScanBytes - scanned) <= MaxScanBytes - scanned
      BY <1>2, SizeSmall
    <3> QED
      BY <1>2, <2>1, <3>2, <3>3 DEF Scanned, Scannable
  <2>2. CASE ~(Usable /\ Scanned)
    BY <1>2, <2>2 DEF Next, Expand, Return, Stop, TooDeep, LookUp, NoNote, Found, Cancelled, Load, Unread, TooLarge,
                      Include, Cancel, vars, counts
  <2> QED
    BY <2>1, <2>2
<1> QED
  BY <1>3, <1>4, <1>5 DEF WorkBounded

\* A text that did not grow has the size that was compared with the bytes left.
LEMMA SameSize ==
    ASSUME NEW text \in Texts, ~Grew(Begun(text))
    PROVE  EntrySize(text) = Len(text)
<1>1. Begun(text) = text
  <2> SUFFICES ASSUME text # << >>, text[1].kind = "rule" PROVE FALSE
    BY DEF Begun
  <2> DEFINE blank == [text[1] EXCEPT !.kind = "blank"]
  <2>1. text[1] \in Lines /\ Len(text) \in Nat \ {0}
    BY DEF Texts
  <2>2. blank \in Lines /\ blank.kind = "blank"
    BY <2>1 DEF Lines, Kinds
  <2>3. Begun(text) = <<blank>> \o text
    BY DEF Begun
  <2> HIDE DEF blank
  <2>4. Len(<<blank>> \o text) > 1 /\ (<<blank>> \o text)[1] = blank /\ (<<blank>> \o text)[2] = text[1]
    BY <2>1, <2>2 DEF Texts
  <2> QED
    BY <2>2, <2>3, <2>4 DEF Grew
<1>2. Grown(text) = 0
  BY <1>1, GrownNat DEF Grew
<1> QED
  BY <1>1, <1>2 DEF EntrySize, Texts

LEMMA KeepsBytes ==
    ASSUME IInv, [Next]_vars
    PROVE  BytesKept'
<1>1. TypeOK /\ Standing /\ BytesKept
  BY DEF IInv
<1>2. CASE Quiet
  BY <1>1, <1>2 DEF Quiet, BytesKept
<1>3. CASE Include
  <2> DEFINE text == PartOf(Note, Embed.anchor)
  <2>1. /\ Len(entries') = Len(entries) + 1
        /\ \A e \in 1 .. Len(entries) : entries'[e].text = entries[e].text
        /\ entries'[Len(entries) + 1].text = Begun(text) /\ text \in Texts
    BY <1>3, Including, IncludeKeeps
  <2>2. Len(entries) \in Nat \ {0} /\ bytes \in Nat /\ MaxBytes \in Nat
    <3>1. Len(entries) \in Nat /\ Top.entry \in 1 .. Len(entries)
      <4>1. Top \in [entry : 1 .. Len(entries), note : Paths, line : Nat \ {0}]
        BY <1>1, <1>3, Including, Here
      <4>2. entries \in Seq(EntryKind)
        BY <1>1 DEF TypeOK, EntryKind
      <4> QED
        BY <4>1, <4>2
    <3> QED
      BY <1>1, <3>1, LimitAssumption DEF TypeOK
  <2>3. SUFFICES ASSUME \A e \in 2 .. Len(entries) + 1 : ~Grew(entries'[e].text)
                 PROVE  bytes' <= MaxBytes
    BY <2>1 DEF BytesKept, Grew, Grown
  <2>4. bytes <= MaxBytes
    <3>1. \A e \in 2 .. Len(entries) : e \in 2 .. Len(entries) + 1 /\ e \in 1 .. Len(entries)
      BY <2>2
    <3> QED
      BY <1>1, <2>1, <2>3, <3>1 DEF BytesKept
  <2>5. EntrySize(text) = Len(text)
    BY <2>1, <2>2, <2>3, SameSize
  <2>6. bytes' = bytes + EntrySize(text) /\ Len(text) <= Size(MaxBytes - bytes)
    BY <1>3 DEF Include, Fits, BytesLeft
  <2>7. Size(MaxBytes - bytes) \in Nat /\ Size(MaxBytes - bytes) <= MaxBytes - bytes
    BY <2>2, <2>4, SizeSmall
  <2>8. Len(text) \in Nat
    BY <2>1 DEF Texts
  <2> QED
    BY <2>2, <2>5, <2>6, <2>7, <2>8
<1> QED
  BY <1>2, <1>3, QuietOrInclude

LEMMA Invariance == Spec => []IInv
<1>1. Init => IInv
  BY InitInv
<1>2. IInv /\ [Next]_vars => IInv'
  BY KeepsTypes, KeepsSeen, KeepsEntries, KeepsNoCycle, KeepsWork, KeepsBytes DEF IInv
<1> QED
  BY <1>1, <1>2, PTL DEF Spec

-----------------------------------------------------------------------------
(* The order of reading *)

Way == Seq(Nat)

\* Where an earlier place ends, or its line is before the other's.
DiffersAt(a, b, n) ==
    /\ n \in 1 .. Len(b)
    /\ \A i \in 1 .. n - 1 : i <= Len(a) /\ a[i] = b[i]
    /\ \/ Len(a) = n - 1
       \/ n <= Len(a) /\ a[n] < b[n]

\* q is at or inside the place p.
Starts(p, q) == Len(p) <= Len(q) /\ \A i \in 1 .. Len(p) : q[i] = p[i]

LEMMA WayFacts ==
    ASSUME NEW a \in Way
    PROVE  Len(a) \in Nat /\ \A i \in 1 .. Len(a) : a[i] \in Nat
BY DEF Way

LEMMA Beginning ==
    ASSUME NEW a \in Way, NEW m \in Nat, m <= Len(a)
    PROVE  /\ SubSeq(a, 1, m) \in Way /\ Len(SubSeq(a, 1, m)) = m
           /\ \A i \in 1 .. m : SubSeq(a, 1, m)[i] = a[i]
<1>1. \A i \in 1 .. m : a[i] \in Nat
  BY WayFacts
<1>2. /\ SubSeq(a, 1, m) \in Seq(Nat)
      /\ Len(SubSeq(a, 1, m)) = IF 1 <= m THEN m - 1 + 1 ELSE 0
      /\ \A i \in 1 .. m - 1 + 1 : SubSeq(a, 1, m)[i] = a[1 + i - 1]
  BY <1>1, SubSeqProperties
<1>3. m - 1 + 1 = m /\ \A i \in 1 .. m : 1 + i - 1 = i
  OBVIOUS
<1>4. Len(SubSeq(a, 1, m)) = m
  BY <1>2, <1>3
<1>5. \A i \in 1 .. m : SubSeq(a, 1, m)[i] = a[i]
  <2> TAKE i \in 1 .. m
  <2>1. i \in 1 .. m - 1 + 1 /\ 1 + i - 1 = i
    BY <1>3
  <2> QED
    BY <1>2, <2>1
<1> QED
  BY <1>2, <1>4, <1>5 DEF Way

LEMMA SameBeginning ==
    ASSUME NEW a \in Way, NEW b \in Way, NEW m \in Nat, m <= Len(a), m <= Len(b)
    PROVE  SubSeq(a, 1, m) = SubSeq(b, 1, m) <=> \A i \in 1 .. m : a[i] = b[i]
<1> DEFINE x == SubSeq(a, 1, m)
           y == SubSeq(b, 1, m)
<1>1. /\ x \in Way /\ Len(x) = m /\ \A i \in 1 .. m : x[i] = a[i]
      /\ y \in Way /\ Len(y) = m /\ \A i \in 1 .. m : y[i] = b[i]
  BY Beginning
<1> HIDE DEF x, y
<1>2. ASSUME \A i \in 1 .. m : a[i] = b[i] PROVE x = y
  <2>1. \A i \in 1 .. Len(x) : x[i] = y[i]
    BY <1>1, <1>2
  <2> QED
    BY <1>1, <2>1, SeqEqual DEF Way
<1>3. ASSUME x = y, NEW i \in 1 .. m PROVE a[i] = b[i]
  BY <1>1, <1>3
<1> QED
  BY <1>2, <1>3 DEF x, y

LEMMA EarlierAt ==
    ASSUME NEW a \in Way, NEW b \in Way
    PROVE  Earlier(a, b) <=> \E n \in Nat : DiffersAt(a, b, n)
<1>1. Len(a) \in Nat /\ Len(b) \in Nat
  BY WayFacts
<1>2. ASSUME IsStrictPrefix(a, b) PROVE DiffersAt(a, b, Len(a) + 1)
  <2>1. Len(a) <= Len(b) /\ SubSeq(a, 1, Len(a)) = SubSeq(b, 1, Len(a)) /\ a # b
    BY <1>2 DEF IsStrictPrefix, IsPrefix
  <2>2. \A i \in 1 .. Len(a) : a[i] = b[i]
    BY <1>1, <2>1, SameBeginning
  <2>3. Len(a) # Len(b)
    BY <2>1, SubSeqFull DEF Way
  <2> QED
    BY <1>1, <2>1, <2>2, <2>3 DEF DiffersAt
<1>3. ASSUME NEW n \in 1 .. Min2(Len(a), Len(b)),
             a[n] < b[n], SubSeq(a, 1, n - 1) = SubSeq(b, 1, n - 1)
      PROVE  DiffersAt(a, b, n)
  <2>1. n \in Nat /\ n - 1 \in Nat /\ n <= Len(a) /\ n <= Len(b) /\ n - 1 <= Len(a) /\ n - 1 <= Len(b)
    BY <1>1, <1>3 DEF Min2
  <2>2. \A i \in 1 .. n - 1 : a[i] = b[i]
    BY <1>3, <2>1, SameBeginning
  <2> QED
    BY <1>1, <1>3, <2>1, <2>2 DEF DiffersAt
<1>4. ASSUME NEW n \in Nat, DiffersAt(a, b, n) PROVE Earlier(a, b)
  <2>1. n \in 1 .. Len(b) /\ (\A i \in 1 .. n - 1 : i <= Len(a) /\ a[i] = b[i])
        /\ (Len(a) = n - 1 \/ (n <= Len(a) /\ a[n] < b[n]))
    BY <1>4 DEF DiffersAt
  <2>2. n - 1 \in Nat /\ n - 1 <= Len(a) /\ n - 1 <= Len(b)
    BY <1>1, <2>1
  <2>3. SubSeq(a, 1, n - 1) = SubSeq(b, 1, n - 1)
    BY <2>1, <2>2, SameBeginning
  <2>4. CASE Len(a) = n - 1
    <3>1. a # b
      BY <1>1, <2>1, <2>4
    <3> QED
      BY <2>2, <2>3, <2>4, <3>1 DEF Earlier, IsStrictPrefix, IsPrefix
  <2>5. CASE n <= Len(a) /\ a[n] < b[n]
    <3>1. n \in 1 .. Min2(Len(a), Len(b))
      BY <1>1, <2>1, <2>5 DEF Min2
    <3> QED
      BY <2>3, <2>5, <3>1 DEF Earlier
  <2> QED
    BY <2>1, <2>4, <2>5
<1> QED
  BY <1>1, <1>2, <1>3, <1>4 DEF Earlier

LEMMA EarlierTransitive ==
    ASSUME NEW a \in Way, NEW b \in Way, NEW c \in Way, Earlier(a, b), Earlier(b, c)
    PROVE  Earlier(a, c)
<1>1. PICK n \in Nat : DiffersAt(a, b, n)
  BY EarlierAt
<1>2. PICK m \in Nat : DiffersAt(b, c, m)
  BY EarlierAt
<1>3. Len(a) \in Nat /\ Len(b) \in Nat /\ Len(c) \in Nat
  BY WayFacts
<1>4. /\ n \in 1 .. Len(b) /\ m \in 1 .. Len(c)
      /\ \A i \in 1 .. n - 1 : i <= Len(a) /\ a[i] = b[i]
      /\ \A i \in 1 .. m - 1 : i <= Len(b) /\ b[i] = c[i]
  BY <1>1, <1>2 DEF DiffersAt
<1>5. (Len(a) = n - 1 \/ (n <= Len(a) /\ a[n] < b[n])) /\ (Len(b) = m - 1 \/ (m <= Len(b) /\ b[m] < c[m]))
  BY <1>1, <1>2 DEF DiffersAt
<1>6. CASE n < m
  <2>1. \A i \in 1 .. n - 1 : i <= Len(a) /\ a[i] = c[i]
    BY <1>4, <1>6
  <2>2. b[n] = c[n] /\ n \in 1 .. Len(c)
    BY <1>3, <1>4, <1>6
  <2> QED
    BY <1>5, <2>1, <2>2, EarlierAt DEF DiffersAt
<1>7. CASE n = m
  <2>1. \A i \in 1 .. n - 1 : i <= Len(a) /\ a[i] = c[i]
    BY <1>4, <1>7
  <2>2. b[n] < c[n]
    BY <1>3, <1>4, <1>5, <1>7
  <2>3. Len(a) = n - 1 \/ (n <= Len(a) /\ a[n] < c[n])
    <3>1. CASE Len(a) = n - 1
      BY <3>1
    <3>2. CASE n <= Len(a) /\ a[n] < b[n]
      <4>1. a[n] \in Nat /\ b[n] \in Nat /\ c[n] \in Nat
        BY <1>4, <1>7, <3>2, WayFacts
      <4> QED
        BY <2>2, <3>2, <4>1
    <3> QED
      BY <1>5, <3>1, <3>2
  <2> QED
    BY <1>4, <1>7, <2>1, <2>3, EarlierAt DEF DiffersAt
<1>8. CASE n > m
  <2>1. \A i \in 1 .. m - 1 : i <= Len(a) /\ a[i] = c[i]
    BY <1>4, <1>8
  <2>2. m <= Len(a) /\ a[m] = b[m]
    BY <1>4, <1>8
  <2>3. b[m] < c[m]
    BY <1>3, <1>4, <1>5, <1>8
  <2> QED
    BY <1>4, <2>1, <2>2, <2>3, EarlierAt DEF DiffersAt
<1> QED
  BY <1>6, <1>7, <1>8

LEMMA NotEarlierItself ==
    ASSUME NEW a \in Way
    PROVE  ~Earlier(a, a)
<1>1. SUFFICES ASSUME NEW n \in Nat, DiffersAt(a, a, n) PROVE FALSE
  BY EarlierAt
<1>2. n \in 1 .. Len(a) /\ Len(a) \in Nat
  BY <1>1, WayFacts DEF DiffersAt
<1>3. a[n] \in Nat
  BY <1>2, WayFacts
<1> QED
  BY <1>1, <1>2, <1>3 DEF DiffersAt

LEMMA OneIsEarlier ==
    ASSUME NEW a \in Way, NEW b \in Way, a # b
    PROVE  Earlier(a, b) \/ Earlier(b, a)
<1> DEFINE apart == {i \in Nat \ {0} : i > Len(a) \/ i > Len(b) \/ a[i] # b[i]}
<1>1. Len(a) \in Nat /\ Len(b) \in Nat
  BY WayFacts
<1>2. apart \subseteq Nat /\ apart # {}
  <2>1. Len(a) + 1 \in apart
    BY <1>1
  <2> QED
    BY <2>1
<1>3. PICK n \in apart : \A i \in apart : n <= i
  <2> HIDE DEF apart
  <2> QED
    BY <1>2, LeastNatural
<1>4. n \in Nat \ {0}
  BY <1>3
<1>5. \A i \in 1 .. n - 1 : i <= Len(a) /\ i <= Len(b) /\ a[i] = b[i]
  <2>1. TAKE i \in 1 .. n - 1
  <2>2. i \in Nat \ {0} /\ i < n
    BY <1>4
  <2>3. i \notin apart
    <3> HIDE DEF apart
    <3> QED
      BY <1>3, <1>4, <2>2
  <2> QED
    BY <1>1, <2>2, <2>3
<1>6. n - 1 <= Len(a) /\ n - 1 <= Len(b)
  BY <1>1, <1>4, <1>5
<1>7. ~(n > Len(a) /\ n > Len(b))
  <2>1. SUFFICES ASSUME n > Len(a), n > Len(b) PROVE FALSE
    OBVIOUS
  <2>2. Len(a) = n - 1 /\ Len(b) = n - 1
    BY <1>1, <1>4, <1>6, <2>1
  <2>3. \A i \in 1 .. Len(a) : a[i] = b[i]
    BY <1>5, <2>2
  <2>4. a = b
    BY <2>2, <2>3, SeqEqual DEF Way
  <2> QED
    BY <2>4
<1>8. CASE n > Len(a)
  <2>1. Len(a) = n - 1 /\ n \in 1 .. Len(b)
    BY <1>1, <1>4, <1>6, <1>7, <1>8
  <2>2. DiffersAt(a, b, n)
    BY <1>5, <2>1 DEF DiffersAt
  <2> QED
    BY <1>4, <2>2, EarlierAt
<1>9. CASE n > Len(b)
  <2>1. Len(b) = n - 1 /\ n \in 1 .. Len(a)
    BY <1>1, <1>4, <1>6, <1>7, <1>9
  <2>2. DiffersAt(b, a, n)
    BY <1>5, <2>1 DEF DiffersAt
  <2> QED
    BY <1>4, <2>2, EarlierAt
<1>10. CASE n <= Len(a) /\ n <= Len(b)
  <2>1. a[n] # b[n] /\ n \in 1 .. Len(a) /\ n \in 1 .. Len(b)
    BY <1>1, <1>3, <1>4, <1>10
  <2>2. a[n] \in Nat /\ b[n] \in Nat
    BY <2>1, WayFacts
  <2>3. a[n] < b[n] \/ b[n] < a[n]
    BY <2>1, <2>2
  <2>4. DiffersAt(a, b, n) \/ DiffersAt(b, a, n)
    BY <1>5, <1>10, <2>1, <2>3 DEF DiffersAt
  <2> QED
    BY <1>4, <2>4, EarlierAt
<1> QED
  BY <1>1, <1>4, <1>8, <1>9, <1>10

LEMMA Longer ==
    ASSUME NEW p \in Way, NEW l \in Nat
    PROVE  /\ Append(p, l) \in Way /\ Len(Append(p, l)) = Len(p) + 1
           /\ \A i \in 1 .. Len(p) : Append(p, l)[i] = p[i]
           /\ Append(p, l)[Len(p) + 1] = l
BY AppendProperties DEF Way

LEMMA InsideIsLater ==
    ASSUME NEW p \in Way, NEW l \in Nat
    PROVE  Earlier(p, Append(p, l))
<1>1. Len(p) \in Nat
  BY WayFacts
<1>2. DiffersAt(p, Append(p, l), Len(p) + 1)
  BY <1>1, Longer DEF DiffersAt
<1> QED
  BY <1>1, <1>2, Longer, EarlierAt

LEMMA NextIsLater ==
    ASSUME NEW p \in Way, NEW l \in Nat, NEW m \in Nat, l < m
    PROVE  Earlier(Append(p, l), Append(p, m))
<1> DEFINE a == Append(p, l)
           b == Append(p, m)
<1>1. /\ Len(p) \in Nat /\ a \in Way /\ b \in Way /\ Len(a) = Len(p) + 1 /\ Len(b) = Len(p) + 1
      /\ \A i \in 1 .. Len(p) : a[i] = p[i] /\ b[i] = p[i]
      /\ a[Len(p) + 1] = l /\ b[Len(p) + 1] = m
  BY WayFacts, Longer
<1> HIDE DEF a, b
<1>2. DiffersAt(a, b, Len(p) + 1)
  BY <1>1 DEF DiffersAt
<1>3. Earlier(a, b)
  BY <1>1, <1>2, EarlierAt
<1> QED
  BY <1>3 DEF a, b

\* What is inside an embed is before the line after it.
LEMMA AfterIsLater ==
    ASSUME NEW p \in Way, NEW x \in Nat, NEW l \in Nat
    PROVE  Earlier(Append(Append(p, x), l), Append(p, x + 1))
<1> DEFINE at == Append(p, x)
           a == Append(at, l)
           b == Append(p, x + 1)
<1>1. /\ Len(p) \in Nat /\ at \in Way /\ b \in Way /\ Len(at) = Len(p) + 1 /\ Len(b) = Len(p) + 1
      /\ \A i \in 1 .. Len(p) : at[i] = p[i] /\ b[i] = p[i]
      /\ at[Len(p) + 1] = x /\ b[Len(p) + 1] = x + 1
  <2>1. x + 1 \in Nat
    OBVIOUS
  <2>2. at \in Way /\ Len(at) = Len(p) + 1 /\ (\A i \in 1 .. Len(p) : at[i] = p[i]) /\ at[Len(p) + 1] = x
    BY Longer
  <2>3. b \in Way /\ Len(b) = Len(p) + 1 /\ (\A i \in 1 .. Len(p) : b[i] = p[i]) /\ b[Len(p) + 1] = x + 1
    BY <2>1, Longer
  <2> QED
    BY <2>2, <2>3, WayFacts
<1> HIDE DEF at
<1>2. a \in Way /\ Len(a) = Len(at) + 1 /\ \A i \in 1 .. Len(at) : a[i] = at[i]
  BY <1>1, Longer
<1> HIDE DEF a, b
<1>3. DiffersAt(a, b, Len(p) + 1)
  BY <1>1, <1>2 DEF DiffersAt
<1>4. Earlier(a, b)
  BY <1>1, <1>2, <1>3, EarlierAt
<1> QED
  BY <1>4 DEF a, b, at

\* What lies between two lines of a text.
LEMMA Between ==
    ASSUME NEW p \in Way, NEW l \in Nat, NEW m \in Nat, NEW q \in Way,
           ~Earlier(q, Append(p, l)), Earlier(q, Append(p, m))
    PROVE  Starts(p, q) /\ Len(q) > Len(p) /\ l <= q[Len(p) + 1] /\ q[Len(p) + 1] < m
<1> DEFINE a == Append(p, l)
           b == Append(p, m)
           k == Len(p) + 1
<1>1. /\ Len(p) \in Nat /\ a \in Way /\ b \in Way /\ Len(a) = k /\ Len(b) = k
      /\ \A i \in 1 .. Len(p) : a[i] = p[i] /\ b[i] = p[i]
      /\ a[k] = l /\ b[k] = m /\ Len(q) \in Nat
  BY WayFacts, Longer
<1>2. ~Earlier(q, a) /\ Earlier(q, b)
  OBVIOUS
<1> HIDE DEF a, b
<1>3. PICK n \in Nat : DiffersAt(q, b, n)
  BY <1>1, <1>2, EarlierAt
<1>4. n \in 1 .. k /\ (\A i \in 1 .. n - 1 : i <= Len(q) /\ q[i] = b[i])
      /\ (Len(q) = n - 1 \/ (n <= Len(q) /\ q[n] < b[n]))
  BY <1>1, <1>3 DEF DiffersAt
<1>5. n = k
  <2>1. SUFFICES ASSUME n # k PROVE FALSE
    OBVIOUS
  <2>2. n \in 1 .. Len(p) /\ \A i \in 1 .. n : b[i] = a[i]
    BY <1>1, <1>4, <2>1
  <2>3. DiffersAt(q, a, n)
    BY <1>1, <1>4, <2>2 DEF DiffersAt
  <2> QED
    BY <1>1, <1>2, <2>3, EarlierAt
<1>6. \A i \in 1 .. Len(p) : i <= Len(q) /\ q[i] = p[i]
  BY <1>1, <1>4, <1>5
<1>7. Len(q) # Len(p)
  <2>1. SUFFICES ASSUME Len(q) = Len(p) PROVE FALSE
    OBVIOUS
  <2>2. DiffersAt(q, a, k)
    BY <1>1, <1>6, <2>1 DEF DiffersAt
  <2> QED
    BY <1>1, <1>2, <2>2, EarlierAt
<1>8. k <= Len(q) /\ q[k] < m
  BY <1>1, <1>4, <1>5, <1>7
<1>9. l <= q[k]
  <2>1. SUFFICES ASSUME ~(l <= q[k]) PROVE FALSE
    OBVIOUS
  <2>2. q[k] \in Nat
    BY <1>1, <1>8, WayFacts
  <2>3. DiffersAt(q, a, k)
    BY <1>1, <1>6, <1>8, <2>1, <2>2 DEF DiffersAt
  <2> QED
    BY <1>1, <1>2, <2>3, EarlierAt
<1> QED
  BY <1>1, <1>6, <1>8, <1>9 DEF Starts

LEMMA InsideFrom ==
    ASSUME NEW p \in Way, NEW l \in Nat, NEW q \in Way, Starts(p, q), ~Earlier(q, Append(p, l))
    PROVE  Len(q) > Len(p) /\ l <= q[Len(p) + 1]
<1> DEFINE a == Append(p, l)
           k == Len(p) + 1
<1>1. /\ Len(p) \in Nat /\ a \in Way /\ Len(a) = k /\ a[k] = l /\ Len(q) \in Nat
      /\ \A i \in 1 .. Len(p) : a[i] = p[i]
  BY WayFacts, Longer
<1>2. ~Earlier(q, a)
  OBVIOUS
<1> HIDE DEF a
<1>3. Len(p) <= Len(q) /\ \A i \in 1 .. Len(p) : q[i] = a[i]
  BY <1>1 DEF Starts
<1>4. Len(q) # Len(p)
  <2>1. SUFFICES ASSUME Len(q) = Len(p) PROVE FALSE
    OBVIOUS
  <2>2. DiffersAt(q, a, k)
    BY <1>1, <1>3, <2>1 DEF DiffersAt
  <2> QED
    BY <1>1, <1>2, <2>2, EarlierAt
<1>5. l <= q[k]
  <2>1. SUFFICES ASSUME ~(l <= q[k]) PROVE FALSE
    OBVIOUS
  <2>2. q[k] \in Nat
    BY <1>1, <1>3, <1>4, WayFacts
  <2>3. DiffersAt(q, a, k)
    BY <1>1, <1>3, <1>4, <2>1, <2>2 DEF DiffersAt
  <2> QED
    BY <1>1, <1>2, <2>3, EarlierAt
<1> QED
  BY <1>1, <1>3, <1>4, <1>5

LEMMA InsideBefore ==
    ASSUME NEW p \in Way, NEW l \in Nat, NEW q \in Way, Starts(p, q), Len(q) > Len(p),
           Earlier(q, Append(p, l))
    PROVE  q[Len(p) + 1] < l
<1> DEFINE a == Append(p, l)
           k == Len(p) + 1
<1>1. /\ Len(p) \in Nat /\ a \in Way /\ Len(a) = k /\ a[k] = l /\ Len(q) \in Nat
      /\ \A i \in 1 .. Len(p) : a[i] = p[i]
  BY WayFacts, Longer
<1>2. Earlier(q, a)
  OBVIOUS
<1> HIDE DEF a
<1>3. PICK n \in Nat : DiffersAt(q, a, n)
  BY <1>1, <1>2, EarlierAt
<1>4. \A i \in 1 .. Len(p) : q[i] = a[i] /\ q[i] \in Nat
  BY <1>1, WayFacts DEF Starts
<1>5. n \in 1 .. k /\ (Len(q) = n - 1 \/ (n <= Len(q) /\ q[n] < a[n]))
  BY <1>1, <1>3 DEF DiffersAt
<1>6. n = k
  <2>1. SUFFICES ASSUME n # k PROVE FALSE
    OBVIOUS
  <2>2. n \in 1 .. Len(p)
    BY <1>1, <1>5, <2>1
  <2>3. q[n] = a[n] /\ q[n] \in Nat
    BY <1>4, <2>2
  <2> QED
    BY <1>1, <1>5, <2>2, <2>3
<1> QED
  BY <1>1, <1>5, <1>6

-----------------------------------------------------------------------------
(* The places that belong *)

\* What Inside and Belongs say, of any vault and any places refused.
PartIn(v, p, anchor) == IF anchor = Whole THEN v.body[p] ELSE v.section[<<p, anchor>>]
NamedAt(v, around, n) == v.resolve[<<v.folder[Last(around.notes)], around.text[n].name>>]
BroughtAt(v, around, n) == Begun(PartIn(v, NamedAt(v, around, n), around.text[n].anchor))

Welcome(v, ref, around, n) ==
    /\ n \in 1 .. Len(around.text) /\ around.text[n].kind = "embed"
    /\ Append(around.place, n) \notin ref
    /\ NamedAt(v, around, n) # Nothing
    /\ BroughtAt(v, around, n) # << >>
    /\ NamedAt(v, around, n) \notin Range(around.notes)
    /\ v.file[NamedAt(v, around, n)] \notin {v.file[p] : p \in Range(Tail(around.notes))}

Within(v, around, n) ==
    [place |-> Append(around.place, n), notes |-> Append(around.notes, NamedAt(v, around, n)),
     text |-> BroughtAt(v, around, n)]

InsideOf(v, ref, around) ==
    {Within(v, around, n) : n \in {m \in 1 .. Len(around.text) : Welcome(v, ref, around, m)}}

DocumentOf(v) == [place |-> << >>, notes |-> <<DocumentPath>>, text |-> v.document]
Deeper(v, ref, spots) == UNION {InsideOf(v, ref, around) : around \in spots}

\* The levels down to a depth.
TableOf(v, ref, depth, levels) ==
    levels = [d \in 0 .. depth |-> IF d = 0 THEN {DocumentOf(v)} ELSE Deeper(v, ref, levels[d - 1])]

Levels(v, ref) == CHOOSE levels : TableOf(v, ref, MaxDepth, levels)
BelongsOf(v, ref) == UNION {{at.place : at \in Levels(v, ref)[d]} : d \in 1 .. MaxDepth}

LEMMA InsideIs ==
    ASSUME NEW around
    PROVE  Inside(around) = InsideOf(vault, refused, around)
BY DEF Inside, InsideOf, Welcome, Within, NamedAt, BroughtAt, PartIn, PartOf

LEMMA TablesExist ==
    ASSUME NEW v, NEW ref, NEW depth \in Nat
    PROVE  \E levels : TableOf(v, ref, depth, levels)
<1> DEFINE missing == {d \in Nat : ~ \E levels : TableOf(v, ref, d, levels)}
<1>1. SUFFICES ASSUME missing # {} PROVE FALSE
  OBVIOUS
<1>2. PICK d \in missing : \A e \in missing : d <= e
  <2>1. missing \subseteq Nat
    OBVIOUS
  <2> HIDE DEF missing
  <2> QED
    BY <1>1, <2>1, LeastNatural
<1>3. d # 0
  <2>1. SUFFICES ASSUME d = 0 PROVE FALSE
    OBVIOUS
  <2> DEFINE levels == [e \in 0 .. 0 |-> {DocumentOf(v)}]
  <2>2. TableOf(v, ref, 0, levels)
    BY DEF TableOf
  <2> QED
    BY <1>2, <2>1, <2>2
<1>4. d \in Nat /\ d - 1 \in Nat /\ d - 1 \notin missing
  <2>1. d \in Nat
    BY <1>2
  <2> HIDE DEF missing
  <2> QED
    BY <1>2, <1>3, <2>1
<1>5. PICK less : TableOf(v, ref, d - 1, less)
  BY <1>4
<1> DEFINE levels == [e \in 0 .. d |-> IF e = 0 THEN {DocumentOf(v)} ELSE Deeper(v, ref, less[e - 1])]
<1>6. \A e \in 0 .. d - 1 : levels[e] = less[e]
  <2> DEFINE at(e) == IF e = 0 THEN {DocumentOf(v)} ELSE Deeper(v, ref, less[e - 1])
  <2>1. less = [e \in 0 .. d - 1 |-> at(e)]
    BY <1>5 DEF TableOf
  <2>2. TAKE e \in 0 .. d - 1
  <2>3. e \in 0 .. d
    BY <1>4
  <2>4. levels[e] = at(e)
    BY <2>3
  <2> HIDE DEF at, levels
  <2>5. less[e] = at(e)
    BY <2>1
  <2> QED
    BY <2>4, <2>5
<1>7. \A e \in 0 .. d : e # 0 => levels[e - 1] = less[e - 1]
  <2> HIDE DEF levels
  <2>1. \A e \in 0 .. d : e # 0 => e - 1 \in 0 .. d - 1
    BY <1>4
  <2> QED
    BY <1>6, <2>1
<1>8. levels = [e \in 0 .. d |-> IF e = 0 THEN {DocumentOf(v)} ELSE Deeper(v, ref, levels[e - 1])]
  <2> DEFINE again == [e \in 0 .. d |-> IF e = 0 THEN {DocumentOf(v)} ELSE Deeper(v, ref, levels[e - 1])]
  <2>1. \A e \in 0 .. d : levels[e] = again[e]
    <3>1. TAKE e \in 0 .. d
    <3>2. CASE e = 0
      BY <1>4, <3>2
    <3>3. CASE e # 0
      <4>1. levels[e - 1] = less[e - 1]
        BY <1>7, <3>3
      <4>2. again[e] = Deeper(v, ref, levels[e - 1])
        <5> HIDE DEF levels
        <5> QED
          BY <3>3
      <4>3. levels[e] = Deeper(v, ref, less[e - 1])
        BY <3>3
      <4> HIDE DEF levels, again
      <4> QED
        BY <4>1, <4>2, <4>3
    <3> QED
      BY <3>2, <3>3
  <2>2. DOMAIN levels = 0 .. d /\ levels = [e \in 0 .. d |-> levels[e]]
    OBVIOUS
  <2>3. again = [e \in 0 .. d |-> again[e]]
    OBVIOUS
  <2> HIDE DEF levels, again
  <2>4. levels = again
    BY <2>1, <2>2, <2>3
  <2> QED
    BY <2>4 DEF again
<1>9. TableOf(v, ref, d, levels)
  <2> HIDE DEF levels
  <2> QED
    BY <1>8 DEF TableOf
<1> QED
  BY <1>2, <1>9

\* What holds at depth 0 and one deeper each time holds down to MaxDepth.
LEMMA DownTo ==
    ASSUME NEW D, 0 \in D, \A d \in 1 .. MaxDepth : d - 1 \in D => d \in D
    PROVE  0 .. MaxDepth \subseteq D
<1> DEFINE out == {d \in 0 .. MaxDepth : d \notin D}
<1>1. SUFFICES ASSUME out # {} PROVE FALSE
  OBVIOUS
<1>2. MaxDepth \in Nat /\ out \subseteq Nat
  BY LimitAssumption
<1>3. PICK d \in out : \A e \in out : d <= e
  <2> HIDE DEF out
  <2> QED
    BY <1>1, <1>2, LeastNatural
<1>4. d \in 0 .. MaxDepth /\ d # 0 /\ d \notin D
  BY <1>3
<1>5. d - 1 \notin out
  <2>1. d \in Nat
    BY <1>2, <1>4
  <2> HIDE DEF out
  <2> QED
    BY <1>3, <2>1
<1>6. d \in 1 .. MaxDepth /\ d - 1 \in 0 .. MaxDepth
  BY <1>2, <1>4
<1> QED
  BY <1>4, <1>5, <1>6

LEMMA TablesSame ==
    ASSUME NEW v, NEW ref, NEW one, NEW two, TableOf(v, ref, MaxDepth, one), TableOf(v, ref, MaxDepth, two)
    PROVE  one = two
<1> DEFINE same == {d \in 0 .. MaxDepth : one[d] = two[d]}
<1>0. MaxDepth \in Nat
  BY LimitAssumption
<1>1. 0 \in same
  BY <1>0 DEF TableOf
<1>2. ASSUME NEW d \in 1 .. MaxDepth, d - 1 \in same PROVE d \in same
  <2>1. d \in 0 .. MaxDepth /\ d # 0 /\ one[d - 1] = two[d - 1]
    BY <1>0, <1>2
  <2>2. one[d] = Deeper(v, ref, one[d - 1]) /\ two[d] = Deeper(v, ref, two[d - 1])
    BY <2>1 DEF TableOf
  <2> QED
    BY <2>1, <2>2
<1>3. 0 .. MaxDepth \subseteq same
  <2> HIDE DEF same
  <2> QED
    BY <1>1, <1>2, DownTo
<1>4. one = [d \in 0 .. MaxDepth |-> one[d]] /\ two = [d \in 0 .. MaxDepth |-> two[d]]
  BY DEF TableOf
<1> QED
  BY <1>3, <1>4

LEMMA LevelsAre ==
    ASSUME NEW v, NEW ref
    PROVE  /\ TableOf(v, ref, MaxDepth, Levels(v, ref))
           /\ Levels(v, ref)[0] = {DocumentOf(v)}
           /\ \A d \in 1 .. MaxDepth : Levels(v, ref)[d] = Deeper(v, ref, Levels(v, ref)[d - 1])
<1>0. MaxDepth \in Nat
  BY LimitAssumption
<1>1. TableOf(v, ref, MaxDepth, Levels(v, ref))
  BY <1>0, TablesExist DEF Levels
<1>2. DOMAIN Levels(v, ref) = 0 .. MaxDepth
      /\ \A d \in 0 .. MaxDepth : Levels(v, ref)[d] = IF d = 0 THEN {DocumentOf(v)} ELSE Deeper(v, ref, Levels(v, ref)[d - 1])
  BY <1>1 DEF TableOf
<1> QED
  BY <1>0, <1>1, <1>2

LEMMA BelongsAre == Belongs = BelongsOf(vault, refused)
<1> DEFINE document == [place |-> << >>, notes |-> <<DocumentPath>>, text |-> vault.document]
           level[d \in 0 .. MaxDepth] ==
              IF d = 0 THEN {document} ELSE UNION {Inside(around) : around \in level[d - 1]}
           IsLevel(l) == l = [d \in 0 .. MaxDepth |->
              IF d = 0 THEN {document} ELSE UNION {Inside(around) : around \in l[d - 1]}]
<1>1. Belongs = UNION {{at.place : at \in level[d]} : d \in 1 .. MaxDepth}
  BY DEF Belongs
<1>2. \A s : UNION {Inside(around) : around \in s} = Deeper(vault, refused, s)
  BY InsideIs DEF Deeper
<1>3. \A l : IsLevel(l) <=> TableOf(vault, refused, MaxDepth, l)
  <2> TAKE l
  <2> DEFINE a == [d \in 0 .. MaxDepth |-> IF d = 0 THEN {document} ELSE UNION {Inside(around) : around \in l[d - 1]}]
             b == [d \in 0 .. MaxDepth |-> IF d = 0 THEN {document} ELSE Deeper(vault, refused, l[d - 1])]
  <2>1. \A d \in 0 .. MaxDepth : UNION {Inside(around) : around \in l[d - 1]} = Deeper(vault, refused, l[d - 1])
    BY <1>2
  <2>2. a = b
    BY <2>1
  <2>3. IsLevel(l) <=> l = a
    OBVIOUS
  <2>4. TableOf(vault, refused, MaxDepth, l) <=> l = b
    BY DEF TableOf, DocumentOf
  <2> HIDE DEF a, b, IsLevel
  <2> QED
    BY <2>2, <2>3, <2>4
<1>4. level = CHOOSE l : IsLevel(l)
  OBVIOUS
<1>5. IsLevel(level)
  <2>1. \E l : IsLevel(l)
    <3>1. MaxDepth \in Nat
      BY LimitAssumption
    <3> HIDE DEF IsLevel
    <3> QED
      BY <1>3, <3>1, TablesExist
  <2> HIDE DEF level, IsLevel
  <2> QED
    BY <1>4, <2>1
<1> HIDE DEF level, IsLevel
<1>6. level = Levels(vault, refused)
  BY <1>3, <1>5, LevelsAre, TablesSame
<1> QED
  BY <1>1, <1>6 DEF BelongsOf

\* A text brought in, with the lines and the notes that lead to it.
Spot == [place : Way, notes : Seq(Paths), text : Texts]

LEMMA WithinSpot ==
    ASSUME NEW v \in Vaults, NEW ref, NEW around \in Spot, Len(around.notes) > 0, NEW n, Welcome(v, ref, around, n)
    PROVE  /\ Within(v, around, n) \in Spot /\ n \in Nat \ {0}
           /\ Len(Within(v, around, n).place) = Len(around.place) + 1
           /\ Len(Within(v, around, n).notes) = Len(around.notes) + 1
<1>1. around.place \in Way /\ around.notes \in Seq(Paths) /\ around.text \in Seq(Lines)
  BY DEF Spot, Texts
<1>2. n \in 1 .. Len(around.text) /\ n \in Nat \ {0} /\ around.text[n] \in Lines
  BY <1>1 DEF Welcome
<1>3. Last(around.notes) \in Paths
  BY <1>1 DEF Last
<1>4. v.folder[Last(around.notes)] \in Folders
  BY <1>3, VaultAssumption
<1>5. NamedAt(v, around, n) \in Paths \union {Nothing}
  <2>1. around.text[n].name \in Names
    BY <1>2 DEF Lines
  <2>2. <<v.folder[Last(around.notes)], around.text[n].name>> \in Folders \X Names
    BY <1>4, <2>1
  <2> QED
    BY <2>2, VaultAssumption DEF NamedAt
<1>6. NamedAt(v, around, n) \in Paths
  BY <1>5 DEF Welcome
<1>7. BroughtAt(v, around, n) \in Texts
  <2>1. around.text[n].anchor \in Anchors
    BY <1>2 DEF Lines
  <2>2. PartIn(v, NamedAt(v, around, n), around.text[n].anchor) \in Texts
    BY <1>6, <2>1, VaultAssumption DEF PartIn
  <2> QED
    BY <2>2, BegunText DEF BroughtAt
<1>8. Append(around.place, n) \in Way /\ Len(Append(around.place, n)) = Len(around.place) + 1
  BY <1>1, <1>2, Longer
<1>9. Append(around.notes, NamedAt(v, around, n)) \in Seq(Paths)
      /\ Len(Append(around.notes, NamedAt(v, around, n))) = Len(around.notes) + 1
  BY <1>1, <1>6, AppendProperties
<1> QED
  BY <1>2, <1>7, <1>8, <1>9 DEF Within, Spot

LEMMA LevelStep ==
    ASSUME NEW v, NEW ref, NEW d \in 1 .. MaxDepth, NEW r
    PROVE  r \in Levels(v, ref)[d] <=>
             \E around \in Levels(v, ref)[d - 1], n \in Nat :
                Welcome(v, ref, around, n) /\ r = Within(v, around, n)
<1> DEFINE above == Levels(v, ref)[d - 1]
<1>1. r \in Levels(v, ref)[d] <=> r \in Deeper(v, ref, above)
  BY LevelsAre
<1> HIDE DEF above
<1>2. r \in Deeper(v, ref, above) <=> \E around \in above : r \in InsideOf(v, ref, around)
  BY DEF Deeper
<1>3. \A around : r \in InsideOf(v, ref, around) <=>
          \E n \in Nat : Welcome(v, ref, around, n) /\ r = Within(v, around, n)
  <2> TAKE around
  <2>1. \A n : Welcome(v, ref, around, n) => n \in 1 .. Len(around.text) /\ n \in Nat
    BY DEF Welcome
  <2>2. r \in InsideOf(v, ref, around) <=>
          \E n \in 1 .. Len(around.text) : Welcome(v, ref, around, n) /\ r = Within(v, around, n)
    BY DEF InsideOf
  <2> QED
    BY <2>1, <2>2
<1>4. r \in Deeper(v, ref, above) <=>
        \E around \in above, n \in Nat : Welcome(v, ref, around, n) /\ r = Within(v, around, n)
  BY <1>2, <1>3
<1> QED
  BY <1>1, <1>4 DEF above

LEMMA LevelTypes ==
    ASSUME NEW v \in Vaults, NEW ref, NEW d \in 0 .. MaxDepth, NEW r \in Levels(v, ref)[d]
    PROVE  r \in Spot /\ Len(r.place) = d /\ Len(r.notes) = d + 1
<1> DEFINE good(e, s) == s \in Spot /\ Len(s.place) = e /\ Len(s.notes) = e + 1
           D == {e \in 0 .. MaxDepth : \A s \in Levels(v, ref)[e] : good(e, s)}
<1>0. MaxDepth \in Nat
  BY LimitAssumption
<1>1. 0 \in D
  <2>1. good(0, DocumentOf(v))
    <3>1. <<DocumentPath>> \in Seq(Paths) /\ Len(<<DocumentPath>>) = 1
      BY NameAssumption
    <3>2. << >> \in Way /\ Len(<< >>) = 0 /\ v.document \in Texts
      BY VaultAssumption DEF Way
    <3> QED
      BY <3>1, <3>2 DEF DocumentOf, Spot
  <2> HIDE DEF good
  <2>2. \A s \in Levels(v, ref)[0] : good(0, s)
    BY <2>1, LevelsAre
  <2> QED
    BY <1>0, <2>2
<1>2. ASSUME NEW e \in 1 .. MaxDepth, e - 1 \in D PROVE e \in D
  <2>1. SUFFICES ASSUME NEW s \in Levels(v, ref)[e] PROVE good(e, s)
    BY <1>0
  <2>2. PICK around \in Levels(v, ref)[e - 1], n \in Nat :
            Welcome(v, ref, around, n) /\ s = Within(v, around, n)
    BY <2>1, LevelStep
  <2>3. around \in Spot /\ Len(around.place) = e - 1 /\ Len(around.notes) = e - 1 + 1
    BY <1>2
  <2>4. e \in Nat \ {0} /\ e - 1 + 1 = e
    BY <1>0
  <2>5. Len(around.notes) > 0
    BY <2>3, <2>4
  <2> QED
    BY <2>2, <2>3, <2>4, <2>5, WithinSpot
<1> HIDE DEF D
<1>3. 0 .. MaxDepth \subseteq D
  BY <1>1, <1>2, DownTo
<1> QED
  BY <1>3 DEF D

LEMMA LongerSame ==
    ASSUME NEW p \in Way, NEW s \in Way, NEW l \in Nat, NEW m \in Nat, Append(p, l) = Append(s, m)
    PROVE  p = s /\ l = m
<1>1. Append(p, l) = Append(s, m) <=> p = s /\ l = m
  BY AppendInjective DEF Way
<1> QED
  BY <1>1

LEMMA LevelUnique ==
    ASSUME NEW v \in Vaults, NEW ref, NEW d \in 0 .. MaxDepth,
           NEW r \in Levels(v, ref)[d], NEW s \in Levels(v, ref)[d], r.place = s.place
    PROVE  r = s
<1> DEFINE D == {e \in 0 .. MaxDepth : \A x, y \in Levels(v, ref)[e] : x.place = y.place => x = y}
<1>0. MaxDepth \in Nat
  BY LimitAssumption
<1>1. 0 \in D
  BY <1>0, LevelsAre
<1>2. ASSUME NEW e \in 1 .. MaxDepth, e - 1 \in D PROVE e \in D
  <2>1. SUFFICES ASSUME NEW x \in Levels(v, ref)[e], NEW y \in Levels(v, ref)[e], x.place = y.place PROVE x = y
    BY <1>0
  <2>2. PICK around \in Levels(v, ref)[e - 1], n \in Nat : x = Within(v, around, n)
    BY <2>1, LevelStep
  <2>3. PICK about \in Levels(v, ref)[e - 1], m \in Nat : y = Within(v, about, m)
    BY <2>1, LevelStep
  <2>4. Append(around.place, n) = Append(about.place, m)
    BY <2>1, <2>2, <2>3 DEF Within
  <2>5. around.place \in Way /\ about.place \in Way /\ n \in Nat /\ m \in Nat
    <3>1. e - 1 \in 0 .. MaxDepth
      BY <1>0
    <3>2. around \in Spot /\ about \in Spot
      BY <3>1, LevelTypes
    <3> QED
      BY <2>2, <2>3, <3>2 DEF Spot
  <2>6. around.place = about.place /\ n = m
    BY <2>4, <2>5, LongerSame
  <2>7. around = about
    BY <1>2, <2>6
  <2> QED
    BY <2>2, <2>3, <2>6, <2>7
<1> HIDE DEF D
<1>3. 0 .. MaxDepth \subseteq D
  BY <1>1, <1>2, DownTo
<1> QED
  BY <1>3 DEF D

\* What is refused takes places away, and no others than those at it and inside it.
LEMMA LevelFewer ==
    ASSUME NEW v, NEW ref, NEW more, ref \subseteq more, NEW d \in 0 .. MaxDepth
    PROVE  Levels(v, more)[d] \subseteq Levels(v, ref)[d]
<1> DEFINE D == {e \in 0 .. MaxDepth : Levels(v, more)[e] \subseteq Levels(v, ref)[e]}
<1>0. MaxDepth \in Nat
  BY LimitAssumption
<1>1. 0 \in D
  BY <1>0, LevelsAre
<1>2. ASSUME NEW e \in 1 .. MaxDepth, e - 1 \in D PROVE e \in D
  <2>1. SUFFICES ASSUME NEW x \in Levels(v, more)[e] PROVE x \in Levels(v, ref)[e]
    BY <1>0
  <2>2. PICK around \in Levels(v, more)[e - 1], n \in Nat :
            Welcome(v, more, around, n) /\ x = Within(v, around, n)
    BY <2>1, LevelStep
  <2>3. around \in Levels(v, ref)[e - 1] /\ Welcome(v, ref, around, n)
    BY <1>2, <2>2 DEF Welcome
  <2> QED
    BY <2>2, <2>3, LevelStep
<1> HIDE DEF D
<1>3. 0 .. MaxDepth \subseteq D
  BY <1>1, <1>2, DownTo
<1> QED
  BY <1>3 DEF D

LEMMA LevelKeeps ==
    ASSUME NEW v \in Vaults, NEW ref, NEW x \in Way, NEW d \in 0 .. MaxDepth, NEW r \in Levels(v, ref)[d],
           x # r.place, ~Earlier(x, r.place)
    PROVE  r \in Levels(v, ref \union {x})[d]
<1> DEFINE more == ref \union {x}
           D == {e \in 0 .. MaxDepth : \A s \in Levels(v, ref)[e] :
                    x # s.place /\ ~Earlier(x, s.place) => s \in Levels(v, more)[e]}
<1>0. MaxDepth \in Nat
  BY LimitAssumption
<1>1. 0 \in D
  <2>1. Levels(v, ref)[0] = {DocumentOf(v)} /\ Levels(v, more)[0] = {DocumentOf(v)}
    BY LevelsAre
  <2> HIDE DEF more
  <2> QED
    BY <1>0, <2>1
<1>2. ASSUME NEW e \in 1 .. MaxDepth, e - 1 \in D PROVE e \in D
  <2>0. e \in 0 .. MaxDepth
    BY <1>0
  <2>1. SUFFICES ASSUME NEW s \in Levels(v, ref)[e], x # s.place, ~Earlier(x, s.place) PROVE s \in Levels(v, more)[e]
    <3> HIDE DEF more
    <3> QED
      BY <2>0
  <2>2. PICK around \in Levels(v, ref)[e - 1], n \in Nat :
            Welcome(v, ref, around, n) /\ s = Within(v, around, n)
    BY <2>1, LevelStep
  <2>3. around.place \in Way /\ n \in Nat
    <3>1. e - 1 \in 0 .. MaxDepth
      BY <1>0
    <3>2. around \in Spot
      BY <3>1, LevelTypes
    <3> QED
      BY <3>2 DEF Spot, Texts
  <2>4. s.place = Append(around.place, n)
    BY <2>2 DEF Within
  <2>5. Earlier(around.place, s.place) /\ s.place \in Way
    BY <2>3, <2>4, InsideIsLater, Longer
  <2>6. x # around.place /\ ~Earlier(x, around.place)
    BY <2>1, <2>3, <2>5, EarlierTransitive
  <2>7. around \in Levels(v, more)[e - 1]
    BY <1>2, <2>6
  <2>8. Welcome(v, more, around, n)
    BY <2>1, <2>2, <2>4 DEF Welcome
  <2> HIDE DEF more
  <2> QED
    BY <2>2, <2>7, <2>8, LevelStep
<1> HIDE DEF D
<1>3. 0 .. MaxDepth \subseteq D
  BY <1>1, <1>2, DownTo
<1> QED
  BY <1>3 DEF D

LEMMA LevelAbove ==
    ASSUME NEW v \in Vaults, NEW ref, NEW d \in 0 .. MaxDepth, NEW r \in Levels(v, ref)[d], NEW k \in 0 .. d
    PROVE  \E s \in Levels(v, ref)[k] : Starts(s.place, r.place)
<1> DEFINE D == {e \in 0 .. MaxDepth : \A x \in Levels(v, ref)[e] : \A j \in 0 .. e :
                    \E s \in Levels(v, ref)[j] : Starts(s.place, x.place)}
<1>0. MaxDepth \in Nat
  BY LimitAssumption
<1>1. \A e \in 0 .. MaxDepth : \A x \in Levels(v, ref)[e] : Starts(x.place, x.place)
  <2> TAKE e \in 0 .. MaxDepth
  <2> TAKE x \in Levels(v, ref)[e]
  <2>1. x.place \in Way
    BY LevelTypes DEF Spot
  <2> QED
    BY <2>1, WayFacts DEF Starts
<1>2. 0 \in D
  BY <1>0, <1>1
<1>3. ASSUME NEW e \in 1 .. MaxDepth, e - 1 \in D PROVE e \in D
  <2>0. e \in 0 .. MaxDepth /\ e - 1 \in 0 .. MaxDepth /\ e \in Nat
    BY <1>0
  <2>1. SUFFICES ASSUME NEW x \in Levels(v, ref)[e], NEW j \in 0 .. e
                 PROVE  \E s \in Levels(v, ref)[j] : Starts(s.place, x.place)
    BY <2>0
  <2>2. CASE j = e
    BY <1>1, <2>0, <2>2
  <2>3. CASE j # e
    <3>1. PICK around \in Levels(v, ref)[e - 1], n \in Nat : x = Within(v, around, n)
      BY <2>1, LevelStep
    <3>2. j \in 0 .. e - 1
      BY <2>0, <2>3
    <3>3. PICK s \in Levels(v, ref)[j] : Starts(s.place, around.place)
      BY <1>3, <3>2
    <3>4. around.place \in Way /\ s.place \in Way /\ n \in Nat
      <4>1. j \in 0 .. MaxDepth
        BY <1>0, <2>0, <3>2
      <4>2. around \in Spot /\ s \in Spot
        BY <2>0, <4>1, LevelTypes
      <4> QED
        BY <3>1, <4>2 DEF Spot
    <3>5. x.place = Append(around.place, n)
      BY <3>1 DEF Within
    <3>6. Len(x.place) = Len(around.place) + 1 /\ \A i \in 1 .. Len(around.place) : x.place[i] = around.place[i]
      BY <3>4, <3>5, Longer
    <3>7. Len(s.place) \in Nat /\ Len(around.place) \in Nat
      BY <3>4, WayFacts
    <3>8. Starts(s.place, x.place)
      BY <3>3, <3>6, <3>7 DEF Starts
    <3> QED
      BY <3>8
  <2> QED
    BY <2>2, <2>3
<1> HIDE DEF D
<1>4. 0 .. MaxDepth \subseteq D
  BY <1>2, <1>3, DownTo
<1> QED
  BY <1>4 DEF D

LEMMA SamePlace ==
    ASSUME NEW p \in Way, NEW s \in Way, NEW q \in Way, Starts(p, q), Starts(s, q), Len(p) = Len(s)
    PROVE  p = s
<1>1. \A i \in 1 .. Len(p) : p[i] = s[i]
  BY WayFacts DEF Starts
<1> QED
  BY <1>1, SeqEqual DEF Way

\* What belongs inside a text is at or inside one of its embeds that belong.
LEMMA BelongsInside ==
    ASSUME NEW v \in Vaults, NEW ref, NEW k \in 0 .. MaxDepth, NEW h \in Levels(v, ref)[k],
           NEW q \in BelongsOf(v, ref), Starts(h.place, q), Len(q) > k
    PROVE  q \in Way /\ k < MaxDepth /\ Welcome(v, ref, h, q[k + 1])
<1>0. MaxDepth \in Nat
  BY LimitAssumption
<1>1. PICK d \in 1 .. MaxDepth : \E r \in Levels(v, ref)[d] : q = r.place
  BY DEF BelongsOf
<1>2. PICK r \in Levels(v, ref)[d] : q = r.place
  BY <1>1
<1>3. q \in Way /\ Len(q) = d /\ d \in 0 .. MaxDepth /\ h.place \in Way /\ Len(h.place) = k
  BY <1>0, <1>2, LevelTypes DEF Spot
<1>4. k + 1 \in 0 .. d /\ k + 1 \in 1 .. MaxDepth /\ k + 1 \in 0 .. MaxDepth /\ k + 1 - 1 = k
  BY <1>0, <1>3
<1>5. PICK s \in Levels(v, ref)[k + 1] : Starts(s.place, q)
  BY <1>2, <1>3, <1>4, LevelAbove
<1>6. PICK around \in Levels(v, ref)[k + 1 - 1], n \in Nat :
          Welcome(v, ref, around, n) /\ s = Within(v, around, n)
  BY <1>4, <1>5, LevelStep
<1>7. around \in Levels(v, ref)[k]
  BY <1>4, <1>6
<1>8. around.place \in Way /\ Len(around.place) = k /\ n \in Nat
  BY <1>7, LevelTypes DEF Spot, Texts
<1>9. s.place = Append(around.place, n)
  BY <1>6 DEF Within
<1>10. Len(s.place) = k + 1 /\ (\A i \in 1 .. k : s.place[i] = around.place[i]) /\ s.place[k + 1] = n
  BY <1>8, <1>9, Longer
<1>11. Starts(around.place, q) /\ q[k + 1] = n
  <2>1. k \in Nat
    BY <1>0
  <2> QED
    BY <1>3, <1>5, <1>8, <1>10, <2>1 DEF Starts
<1>12. around = h
  <2>1. around.place = h.place
    BY <1>3, <1>8, <1>11, SamePlace
  <2> QED
    BY <1>7, <2>1, LevelUnique
<1> QED
  BY <1>0, <1>3, <1>4, <1>6, <1>11, <1>12

LEMMA ImageFinite ==
    ASSUME NEW S, IsFiniteSet(S), NEW f, DOMAIN f = S
    PROVE  IsFiniteSet({f[x] : x \in S})
<1> DEFINE T == {f[x] : x \in S}
           g == [x \in S |-> f[x]]
<1>1. g \in Surjection(S, T)
  BY DEF Surjection
<1> HIDE DEF T, g
<1>2. IsFiniteSet(T)
  BY <1>1, FS_Surjection
<1> QED
  BY <1>2 DEF T

LEMMA BelongsFinite ==
    ASSUME NEW v \in Vaults, NEW ref
    PROVE  IsFiniteSet(BelongsOf(v, ref))
<1> DEFINE D == {e \in 0 .. MaxDepth : IsFiniteSet(Levels(v, ref)[e])}
<1>0. MaxDepth \in Nat
  BY LimitAssumption
<1>1. 0 \in D
  <2> DEFINE document == DocumentOf(v)
  <2>1. Levels(v, ref)[0] = {document}
    BY LevelsAre
  <2> HIDE DEF document
  <2>2. IsFiniteSet({document})
    BY FS_Singleton
  <2>3. IsFiniteSet(Levels(v, ref)[0])
    BY <2>1, <2>2
  <2> QED
    BY <1>0, <2>3
<1>2. ASSUME NEW e \in 1 .. MaxDepth, e - 1 \in D PROVE e \in D
  <2>0. e \in 0 .. MaxDepth /\ e - 1 \in 0 .. MaxDepth /\ IsFiniteSet(Levels(v, ref)[e - 1])
    BY <1>0, <1>2
  <2> DEFINE insides == {InsideOf(v, ref, around) : around \in Levels(v, ref)[e - 1]}
  <2>1. IsFiniteSet(insides)
    <3> DEFINE f == [around \in Levels(v, ref)[e - 1] |-> InsideOf(v, ref, around)]
    <3>1. DOMAIN f = Levels(v, ref)[e - 1] /\ insides = {f[around] : around \in Levels(v, ref)[e - 1]}
      OBVIOUS
    <3> HIDE DEF f, insides
    <3> QED
      BY <2>0, <3>1, ImageFinite
  <2>2. \A s \in insides : IsFiniteSet(s)
    <3>1. SUFFICES ASSUME NEW around \in Levels(v, ref)[e - 1] PROVE IsFiniteSet(InsideOf(v, ref, around))
      OBVIOUS
    <3> DEFINE lines == {m \in 1 .. Len(around.text) : Welcome(v, ref, around, m)}
    <3>2. Len(around.text) \in Nat
      BY <2>0, LevelTypes DEF Spot, Texts
    <3> DEFINE last == Len(around.text)
    <3>3. IsFiniteSet(1 .. Len(around.text)) /\ lines \in SUBSET (1 .. Len(around.text))
      <4>1. last \in Int
        BY <3>2
      <4>2. lines \in SUBSET (1 .. last)
        OBVIOUS
      <4> HIDE DEF last
      <4>3. IsFiniteSet(1 .. last)
        BY <4>1, FS_Interval
      <4> QED
        BY <4>2, <4>3 DEF last
    <3>4. IsFiniteSet(lines)
      BY <3>3, FS_Subset
    <3> DEFINE f == [n \in lines |-> Within(v, around, n)]
    <3>5. DOMAIN f = lines /\ InsideOf(v, ref, around) = {f[n] : n \in lines}
      BY DEF InsideOf
    <3> HIDE DEF f, lines
    <3> QED
      BY <3>4, <3>5, ImageFinite
  <2>3. Levels(v, ref)[e] = UNION insides
    BY LevelsAre DEF Deeper
  <2> HIDE DEF insides
  <2>4. IsFiniteSet(UNION insides)
    BY <2>1, <2>2, FS_UNION
  <2> QED
    BY <2>0, <2>3, <2>4
<1> HIDE DEF D
<1>3. 0 .. MaxDepth \subseteq D
  BY <1>1, <1>2, DownTo
<1> DEFINE places == {{at.place : at \in Levels(v, ref)[d]} : d \in 1 .. MaxDepth}
<1>4. IsFiniteSet(1 .. MaxDepth)
  BY <1>0, FS_Interval
<1>5. IsFiniteSet(places)
  <2> DEFINE f == [d \in 1 .. MaxDepth |-> {at.place : at \in Levels(v, ref)[d]}]
  <2>1. DOMAIN f = 1 .. MaxDepth /\ places = {f[d] : d \in 1 .. MaxDepth}
    OBVIOUS
  <2> HIDE DEF f, places
  <2> QED
    BY <1>4, <2>1, ImageFinite
<1>6. \A s \in places : IsFiniteSet(s)
  <2>1. SUFFICES ASSUME NEW d \in 1 .. MaxDepth PROVE IsFiniteSet({at.place : at \in Levels(v, ref)[d]})
    OBVIOUS
  <2>2. IsFiniteSet(Levels(v, ref)[d])
    BY <1>0, <1>3 DEF D
  <2> DEFINE f == [at \in Levels(v, ref)[d] |-> at.place]
  <2>3. DOMAIN f = Levels(v, ref)[d] /\ {at.place : at \in Levels(v, ref)[d]} = {f[at] : at \in Levels(v, ref)[d]}
    OBVIOUS
  <2> HIDE DEF f
  <2> QED
    BY <2>2, <2>3, ImageFinite
<1>7. BelongsOf(v, ref) = UNION places
  BY DEF BelongsOf
<1> HIDE DEF places
<1> QED
  BY <1>5, <1>6, <1>7, FS_UNION

-----------------------------------------------------------------------------
(* Where the descent is *)

SpotAt(es, st, n) ==
    [place |-> es[st[n].entry].place, notes |-> [i \in 1 .. n |-> st[i].note], text |-> es[st[n].entry].text]

\* The next place the descent looks at.
HeadOf(es, st) == Append(es[st[Len(st)].entry].place, st[Len(st)].line)

Placed(es) == {es[e].place : e \in 2 .. Len(es)}

CallOf(es) == [entry : 1 .. Len(es), note : Paths, line : Nat]

Shaped(es, st) ==
    /\ es \in Seq(EntryKind) /\ st \in Seq(CallOf(es))
    /\ Len(st) > 0 /\ Len(st) <= MaxDepth + 1
    /\ \A n \in 1 .. Len(st) : st[n].line > 0

\* Each call reads a text at its level, the next one what the line before the call's brought in.
Chained(v, ref, es, st) ==
    /\ \A n \in 1 .. Len(st) : SpotAt(es, st, n) \in Levels(v, ref)[n - 1]
    /\ \A n \in 2 .. Len(st) : es[st[n].entry].place = Append(es[st[n - 1].entry].place, st[n - 1].line - 1)

\* What was brought in or refused is behind.
Ahead(ref, es, st) ==
    /\ \A e \in 1 .. Len(es) : Earlier(es[e].place, HeadOf(es, st))
    /\ \A p \in ref : p \in Way /\ Earlier(p, HeadOf(es, st))

\* What belongs and is behind was brought in.
Complete(v, ref, es, st) == \A q \in BelongsOf(v, ref) : Earlier(q, HeadOf(es, st)) => q \in Placed(es)

Walk(v, ref, es, st) ==
    /\ Chained(v, ref, es, st) /\ Ahead(ref, es, st) /\ Complete(v, ref, es, st)
    /\ Placed(es) \subseteq BelongsOf(v, ref)

LEMMA ShapeFacts ==
    ASSUME NEW es, NEW st, Shaped(es, st)
    PROVE  /\ Len(es) \in Nat /\ Len(st) \in Nat \ {0}
           /\ \A e \in 1 .. Len(es) : es[e].place \in Way /\ es[e].text \in Texts
           /\ \A n \in 1 .. Len(st) : /\ st[n].entry \in 1 .. Len(es) /\ st[n].note \in Paths
                                      /\ st[n].line \in Nat \ {0}
                                      /\ es[st[n].entry].place \in Way /\ es[st[n].entry].text \in Texts
<1> DEFINE Call == CallOf(es)
           Entry == EntryKind
<1>1. es \in Seq(Entry) /\ st \in Seq(Call)
  BY DEF Shaped
<1> HIDE DEF Call, Entry
<1>2. Len(es) \in Nat /\ Len(st) \in Nat /\ (\A e \in 1 .. Len(es) : es[e] \in Entry) /\ (\A n \in 1 .. Len(st) : st[n] \in Call)
  BY <1>1
<1>3. \A e \in 1 .. Len(es) : es[e].place \in Way /\ es[e].text \in Texts
  BY <1>2 DEF Entry, EntryKind, Way
<1>4. \A n \in 1 .. Len(st) : st[n].entry \in 1 .. Len(es) /\ st[n].note \in Paths /\ st[n].line \in Nat
  BY <1>2 DEF Call, CallOf
<1>5. Len(st) \in Nat \ {0} /\ \A n \in 1 .. Len(st) : st[n].line \in Nat \ {0}
  BY <1>2, <1>4 DEF Shaped
<1> QED
  BY <1>2, <1>3, <1>4, <1>5

LEMMA BelongsWay ==
    ASSUME NEW v \in Vaults, NEW ref, NEW q \in BelongsOf(v, ref)
    PROVE  q \in Way
<1>1. PICK d \in 1 .. MaxDepth : q \in {at.place : at \in Levels(v, ref)[d]}
  BY DEF BelongsOf
<1>2. PICK r \in Levels(v, ref)[d] : q = r.place
  BY <1>1
<1>3. d \in 0 .. MaxDepth
  BY LimitAssumption
<1> QED
  BY <1>2, <1>3, LevelTypes DEF Spot

LEMMA BelongsFewer ==
    ASSUME NEW v, NEW ref, NEW more, ref \subseteq more
    PROVE  BelongsOf(v, more) \subseteq BelongsOf(v, ref)
<1>1. ASSUME NEW q \in BelongsOf(v, more) PROVE q \in BelongsOf(v, ref)
  <2>1. PICK d \in 1 .. MaxDepth : q \in {at.place : at \in Levels(v, more)[d]}
    BY DEF BelongsOf
  <2>2. d \in 0 .. MaxDepth
    BY LimitAssumption
  <2>3. Levels(v, more)[d] \subseteq Levels(v, ref)[d]
    BY <2>2, LevelFewer
  <2> QED
    BY <2>1, <2>3 DEF BelongsOf
<1> QED
  BY <1>1

\* Refusing what is not before a place leaves it.
LEMMA StillBelongs ==
    ASSUME NEW v \in Vaults, NEW ref, NEW x \in Way, NEW q \in BelongsOf(v, ref), Earlier(q, x)
    PROVE  q \in BelongsOf(v, ref \union {x})
<1>1. PICK d \in 1 .. MaxDepth : q \in {at.place : at \in Levels(v, ref)[d]}
  BY DEF BelongsOf
<1>2. PICK r \in Levels(v, ref)[d] : q = r.place
  BY <1>1
<1>3. d \in 0 .. MaxDepth /\ q \in Way
  BY LimitAssumption, BelongsWay
<1>4. x # r.place /\ ~Earlier(x, r.place)
  BY <1>2, <1>3, EarlierTransitive, NotEarlierItself
<1>5. r \in Levels(v, ref \union {x})[d]
  BY <1>3, <1>4, LevelKeeps
<1> QED
  BY <1>2, <1>5 DEF BelongsOf

\* The next embed of the innermost call's text is at a line, or at a later one.
NextFrom(es, st, line) ==
    /\ st[Len(st)].line <= line
    /\ \A n \in 1 .. Len(es[st[Len(st)].entry].text) :
          st[Len(st)].line <= n /\ n < line => es[st[Len(st)].entry].text[n].kind # "embed"

\* The innermost call is past a line.
PastLine(st, line, later) ==
    /\ \A n \in 1 .. Len(st) : n # Len(st) => later[n] = st[n]
    /\ later[Len(st)].entry = st[Len(st)].entry /\ later[Len(st)].note = st[Len(st)].note
    /\ later[Len(st)].line = line + 1

\* The loop goes on after a line whose embed, if it is one, does not belong.
LEMMA WentOn ==
    ASSUME NEW v \in Vaults, NEW ref, NEW es, NEW st, Shaped(es, st), Walk(v, ref, es, st),
           NEW line \in Nat, NextFrom(es, st, line),
           NEW more, more \in {ref, ref \union {Append(es[st[Len(st)].entry].place, line)}},
           Len(st) - 1 < MaxDepth => ~Welcome(v, more, SpotAt(es, st, Len(st)), line),
           NEW later, Len(later) = Len(st), PastLine(st, line, later)
    PROVE  Walk(v, more, es, later)
<1> DEFINE k == Len(st)
           P == es[st[k].entry].place
           l == st[k].line
           C == Append(P, l)
           X == Append(P, line)
           D == Append(P, line + 1)
           h == SpotAt(es, st, k)
           text == es[st[k].entry].text
<1>1. MaxDepth \in Nat /\ Len(es) \in Nat /\ k \in Nat \ {0} /\ k <= MaxDepth + 1
  BY LimitAssumption, ShapeFacts DEF Shaped
<1>2. P \in Way /\ l \in Nat \ {0} /\ text \in Texts /\ \A e \in 1 .. Len(es) : es[e].place \in Way
  BY <1>1, ShapeFacts
<1>3. line \in Nat /\ l <= line /\ line + 1 \in Nat /\ (\A n \in 1 .. Len(text) : l <= n /\ n < line => text[n].kind # "embed")
      /\ more \in {ref, ref \union {X}} /\ (k - 1 < MaxDepth => ~Welcome(v, more, h, line))
  BY DEF NextFrom
<1>4. /\ Len(later) = k /\ later[k].entry = st[k].entry /\ later[k].note = st[k].note /\ later[k].line = line + 1
      /\ \A n \in 1 .. k : n # k => later[n] = st[n]
  BY DEF PastLine
<1>5. Chained(v, ref, es, st) /\ Ahead(ref, es, st) /\ Complete(v, ref, es, st) /\ Placed(es) \subseteq BelongsOf(v, ref)
  BY DEF Walk
<1>6. HeadOf(es, st) = C /\ HeadOf(es, later) = D
  BY <1>4 DEF HeadOf
<1>7. C \in Way /\ X \in Way /\ D \in Way /\ Earlier(C, D) /\ Earlier(X, D) /\ (C = X \/ Earlier(C, X))
  <2>1. C \in Way /\ X \in Way /\ D \in Way
    BY <1>2, <1>3, Longer
  <2>2. Earlier(C, D) /\ Earlier(X, D)
    BY <1>2, <1>3, NextIsLater
  <2>3. CASE l = line
    BY <2>1, <2>2, <2>3
  <2>4. CASE l # line
    <3>1. l < line
      BY <1>2, <1>3, <2>4
    <3> QED
      BY <1>2, <2>1, <2>2, <3>1, NextIsLater
  <2> QED
    BY <2>3, <2>4
<1> HIDE DEF C, X, D
<1>8. \A e \in 1 .. Len(es) : Earlier(es[e].place, C) /\ Earlier(es[e].place, X) /\ Earlier(es[e].place, D)
  <2> TAKE e \in 1 .. Len(es)
  <2>1. es[e].place \in Way /\ Earlier(es[e].place, C)
    BY <1>2, <1>5, <1>6 DEF Ahead
  <2> QED
    BY <1>7, <2>1, EarlierTransitive
<1>9. \A n \in 1 .. k : SpotAt(es, later, n) = SpotAt(es, st, n)
  <2> TAKE n \in 1 .. k
  <2>1. later[n].entry = st[n].entry
    BY <1>4
  <2>2. \A i \in 1 .. n : later[i].note = st[i].note
    BY <1>1, <1>4
  <2>3. [i \in 1 .. n |-> later[i].note] = [i \in 1 .. n |-> st[i].note]
    BY <2>2
  <2> QED
    BY <2>1, <2>3 DEF SpotAt
<1>10. \A n \in 1 .. k : SpotAt(es, st, n) \in Levels(v, more)[n - 1]
  <2> TAKE n \in 1 .. k
  <2>1. SpotAt(es, st, n) \in Levels(v, ref)[n - 1] /\ n - 1 \in 0 .. MaxDepth
    <3>1. n - 1 \in 0 .. MaxDepth
      BY <1>1
    <3> QED
      BY <1>5, <3>1 DEF Chained
  <2>2. SpotAt(es, st, n).place = es[st[n].entry].place /\ st[n].entry \in 1 .. Len(es)
    BY ShapeFacts DEF SpotAt
  <2>3. X # SpotAt(es, st, n).place /\ ~Earlier(X, SpotAt(es, st, n).place)
    BY <1>2, <1>7, <1>8, <2>2, EarlierTransitive, NotEarlierItself
  <2>4. SpotAt(es, st, n) \in Levels(v, ref \union {X})[n - 1]
    BY <1>7, <2>1, <2>3, LevelKeeps
  <2> QED
    BY <1>3, <2>1, <2>4
<1>11. Chained(v, more, es, later)
  <2>1. \A n \in 1 .. Len(later) : SpotAt(es, later, n) \in Levels(v, more)[n - 1]
    BY <1>4, <1>9, <1>10
  <2>2. \A n \in 2 .. Len(later) : later[n - 1].line = st[n - 1].line /\ later[n].entry = st[n].entry
                                   /\ later[n - 1].entry = st[n - 1].entry
    <3> TAKE n \in 2 .. Len(later)
    <3>1. n \in 1 .. k /\ n - 1 \in 1 .. k /\ n - 1 # k
      BY <1>1, <1>4
    <3> QED
      BY <1>4, <3>1
  <2> QED
    BY <1>4, <1>5, <2>1, <2>2 DEF Chained
<1>12. Ahead(more, es, later)
  <2>1. \A p \in ref : p \in Way /\ Earlier(p, D)
    BY <1>5, <1>6, <1>7, EarlierTransitive DEF Ahead
  <2>2. \A p \in more : p \in Way /\ Earlier(p, D)
    BY <1>3, <1>7, <2>1
  <2> QED
    BY <1>6, <1>8, <2>2 DEF Ahead
<1>13. Placed(es) \subseteq BelongsOf(v, more)
  <2>1. SUFFICES ASSUME NEW e \in 2 .. Len(es) PROVE es[e].place \in BelongsOf(v, more)
    BY DEF Placed
  <2>2. es[e].place \in BelongsOf(v, ref) /\ e \in 1 .. Len(es)
    BY <1>1, <1>5 DEF Placed
  <2>3. es[e].place \in BelongsOf(v, ref \union {X})
    BY <1>7, <1>8, <2>2, StillBelongs
  <2> QED
    BY <1>3, <2>2, <2>3
<1>14. Complete(v, more, es, later)
  <2>1. SUFFICES ASSUME NEW q \in BelongsOf(v, more), Earlier(q, D) PROVE q \in Placed(es)
    BY <1>6 DEF Complete
  <2>2. q \in BelongsOf(v, ref) /\ q \in Way
    BY <1>3, BelongsFewer, BelongsWay
  <2>3. CASE Earlier(q, C)
    BY <1>5, <1>6, <2>2, <2>3 DEF Complete
  <2>4. CASE ~Earlier(q, C)
    <3>1. Starts(P, q) /\ Len(q) > Len(P) /\ l <= q[Len(P) + 1] /\ q[Len(P) + 1] < line + 1
      <4>1. q \in Way /\ P \in Way /\ l \in Nat /\ line + 1 \in Nat
            /\ ~Earlier(q, Append(P, l)) /\ Earlier(q, Append(P, line + 1))
        BY <1>2, <1>3, <2>1, <2>2, <2>4 DEF C, D
      <4> HIDE DEF P, l
      <4> DEFINE m == line + 1
      <4>2. m \in Nat /\ Earlier(q, Append(P, m))
        BY <4>1
      <4> HIDE DEF m
      <4>3. Starts(P, q) /\ Len(q) > Len(P) /\ l <= q[Len(P) + 1] /\ q[Len(P) + 1] < m
        BY <4>1, <4>2, Between
      <4>4. m = line + 1
        BY DEF m
      <4> QED
        BY <4>3, <4>4
    <3>2. h \in Levels(v, more)[k - 1] /\ h.place = P /\ h.text = text /\ k - 1 \in 0 .. MaxDepth
      <4>1. k \in 1 .. k /\ k - 1 \in 0 .. MaxDepth
        BY <1>1
      <4>2. SpotAt(es, st, k) \in Levels(v, more)[k - 1]
        <5> HIDE DEF k
        <5> QED
          BY <1>10, <4>1
      <4>3. h.place = P /\ h.text = text
        BY DEF SpotAt
      <4> QED
        BY <4>1, <4>2, <4>3
    <3>3. Len(P) = k - 1
      BY <3>2, LevelTypes
    <3> HIDE DEF P, h
    <3>4. k - 1 < MaxDepth /\ Welcome(v, more, h, q[k - 1 + 1])
      BY <2>1, <3>1, <3>2, <3>3, BelongsInside
    <3> DEFINE n == q[k - 1 + 1]
    <3>5. n \in 1 .. Len(text) /\ text[n].kind = "embed"
      BY <3>2, <3>4 DEF Welcome
    <3>6. l <= n /\ n < line + 1
      BY <3>1, <3>3
    <3> HIDE DEF n, text, l
    <3>7. Len(text) \in Nat
      BY <1>2 DEF Texts
    <3>8. n = line
      BY <1>2, <1>3, <3>5, <3>6, <3>7
    <3> QED
      BY <1>3, <3>4, <3>8 DEF n
  <2> QED
    BY <2>3, <2>4
<1> QED
  BY <1>11, <1>12, <1>13, <1>14 DEF Walk

\* The innermost call's text has no embed any more.
NoneFrom(es, st) ==
    \A n \in 1 .. Len(es[st[Len(st)].entry].text) :
        st[Len(st)].line <= n => es[st[Len(st)].entry].text[n].kind # "embed"

\* Past the last embed of a text nothing belongs inside it.
LEMMA NothingAfter ==
    ASSUME NEW v \in Vaults, NEW ref, NEW es, NEW st, Shaped(es, st), Walk(v, ref, es, st),
           NoneFrom(es, st),
           NEW q \in BelongsOf(v, ref), Starts(es[st[Len(st)].entry].place, q)
    PROVE  Earlier(q, HeadOf(es, st))
<1> DEFINE k == Len(st)
           P == es[st[k].entry].place
           l == st[k].line
           text == es[st[k].entry].text
           h == SpotAt(es, st, k)
<1>1. MaxDepth \in Nat /\ k \in Nat \ {0} /\ k <= MaxDepth + 1
  BY LimitAssumption, ShapeFacts DEF Shaped
<1>2. P \in Way /\ l \in Nat /\ q \in Way /\ Starts(P, q) /\ HeadOf(es, st) = Append(P, l)
      /\ \A n \in 1 .. Len(text) : l <= n => text[n].kind # "embed"
  BY <1>1, ShapeFacts, BelongsWay DEF HeadOf, NoneFrom
<1>3. h \in Levels(v, ref)[k - 1] /\ k - 1 \in 0 .. MaxDepth /\ h.place = P /\ h.text = text
  <2>1. k \in 1 .. k /\ k - 1 \in 0 .. MaxDepth
    BY <1>1
  <2>2. h \in Levels(v, ref)[k - 1]
    BY <2>1 DEF Walk, Chained
  <2>3. h.place = P /\ h.text = text
    BY DEF SpotAt
  <2> QED
    BY <2>1, <2>2, <2>3
<1>4. Len(P) = k - 1
  BY <1>3, LevelTypes
<1> HIDE DEF P, l, h, text, k
<1>5. SUFFICES ASSUME ~Earlier(q, Append(P, l)) PROVE FALSE
  BY <1>2
<1>6. Len(q) > Len(P) /\ l <= q[Len(P) + 1]
  BY <1>2, <1>5, InsideFrom
<1>7. Welcome(v, ref, h, q[k - 1 + 1])
  BY <1>2, <1>3, <1>4, <1>6, BelongsInside
<1>8. q[k - 1 + 1] \in 1 .. Len(text) /\ text[q[k - 1 + 1]].kind = "embed" /\ l <= q[k - 1 + 1]
  BY <1>3, <1>4, <1>6, <1>7 DEF Welcome
<1> QED
  BY <1>2, <1>8

LEMMA CameBack ==
    ASSUME NEW v \in Vaults, NEW ref, NEW es, NEW st, Shaped(es, st), Walk(v, ref, es, st),
           NoneFrom(es, st),
           Len(st) > 1, NEW later, Len(later) = Len(st) - 1, \A n \in 1 .. Len(st) - 1 : later[n] = st[n]
    PROVE  Walk(v, ref, es, later)
<1> DEFINE k == Len(st)
           F == es[st[k - 1].entry].place
           x == st[k - 1].line - 1
           P == es[st[k].entry].place
           l == st[k].line
           C == Append(P, l)
           D == Append(F, x + 1)
<1>1. MaxDepth \in Nat /\ Len(es) \in Nat /\ k \in Nat \ {0} /\ k - 1 \in 1 .. k /\ k \in 2 .. k /\ k \in 1 .. k
  BY LimitAssumption, ShapeFacts
<1>2. F \in Way /\ x \in Nat /\ P \in Way /\ l \in Nat /\ (\A e \in 1 .. Len(es) : es[e].place \in Way)
      /\ st[k - 1].line = x + 1
  <2>1. st[k - 1].line \in Nat \ {0}
    BY <1>1, ShapeFacts
  <2>2. x \in Nat /\ st[k - 1].line = x + 1
    BY <2>1
  <2>3. F \in Way /\ P \in Way /\ l \in Nat /\ (\A e \in 1 .. Len(es) : es[e].place \in Way)
    BY <1>1, ShapeFacts
  <2> QED
    BY <2>2, <2>3
<1>3. Chained(v, ref, es, st) /\ Ahead(ref, es, st) /\ Complete(v, ref, es, st) /\ Placed(es) \subseteq BelongsOf(v, ref)
  BY DEF Walk
<1>4. P = Append(F, x)
  BY <1>1, <1>3 DEF Chained
<1>5. Len(later) = k - 1 /\ \A n \in 1 .. k - 1 : later[n] = st[n]
  OBVIOUS
<1>6. HeadOf(es, st) = C /\ HeadOf(es, later) = D
  <2>1. later[k - 1] = st[k - 1]
    BY <1>1, <1>5
  <2>2. later[k - 1].line = x + 1 /\ es[later[k - 1].entry].place = F
    BY <1>2, <2>1
  <2> QED
    BY <1>5, <2>2 DEF HeadOf
<1>7. C \in Way /\ D \in Way /\ Earlier(C, D) /\ Earlier(P, C)
  <2>1. C \in Way /\ Earlier(P, C)
    BY <1>2, Longer, InsideIsLater
  <2>2. x + 1 \in Nat
    BY <1>2
  <2>3. D \in Way
    BY <1>2, <2>2, Longer
  <2>4. C = Append(Append(F, x), l)
    BY <1>4
  <2>5. Earlier(C, D)
    <3> HIDE DEF F, x, l, P
    <3> QED
      BY <1>2, <2>4, AfterIsLater
  <2> QED
    BY <2>1, <2>3, <2>5
<1>8. \A q \in BelongsOf(v, ref) : Starts(P, q) => Earlier(q, C)
  BY <1>6, NothingAfter
<1>9. Chained(v, ref, es, later)
  <2>1. \A n \in 1 .. k - 1 : SpotAt(es, later, n) = SpotAt(es, st, n)
    <3> TAKE n \in 1 .. k - 1
    <3>1. \A i \in 1 .. n : later[i] = st[i]
      BY <1>1, <1>5
    <3>2. [i \in 1 .. n |-> later[i].note] = [i \in 1 .. n |-> st[i].note]
      BY <3>1
    <3>3. later[n] = st[n]
      BY <1>5
    <3> QED
      BY <3>2, <3>3 DEF SpotAt
  <2>2. \A n \in 1 .. Len(later) : SpotAt(es, later, n) \in Levels(v, ref)[n - 1]
    <3> TAKE n \in 1 .. Len(later)
    <3>1. n \in 1 .. k - 1 /\ n \in 1 .. Len(st)
      BY <1>1, <1>5
    <3> QED
      BY <1>3, <2>1, <3>1 DEF Chained
  <2>3. \A n \in 2 .. Len(later) : es[later[n].entry].place = Append(es[later[n - 1].entry].place, later[n - 1].line - 1)
    <3> TAKE n \in 2 .. Len(later)
    <3>1. n \in 1 .. k - 1 /\ n - 1 \in 1 .. k - 1 /\ n \in 2 .. Len(st)
      BY <1>1, <1>5
    <3>2. later[n] = st[n] /\ later[n - 1] = st[n - 1]
      BY <1>5, <3>1
    <3> QED
      BY <1>3, <3>1, <3>2 DEF Chained
  <2> QED
    BY <2>2, <2>3 DEF Chained
<1> HIDE DEF C, D, P, F, l, x
<1>10. Ahead(ref, es, later)
  <2>1. \A e \in 1 .. Len(es) : Earlier(es[e].place, D)
    <3> TAKE e \in 1 .. Len(es)
    <3>1. es[e].place \in Way /\ Earlier(es[e].place, C)
      BY <1>2, <1>3, <1>6 DEF Ahead
    <3> QED
      BY <1>7, <3>1, EarlierTransitive
  <2>2. \A p \in ref : p \in Way /\ Earlier(p, D)
    BY <1>3, <1>6, <1>7, EarlierTransitive DEF Ahead
  <2> QED
    BY <1>6, <2>1, <2>2 DEF Ahead
<1>11. Complete(v, ref, es, later)
  <2>1. SUFFICES ASSUME NEW q \in BelongsOf(v, ref), Earlier(q, D) PROVE q \in Placed(es)
    BY <1>6 DEF Complete
  <2>2. q \in Way
    BY BelongsWay
  <2>3. SUFFICES ASSUME ~Earlier(q, C) PROVE FALSE
    BY <1>3, <1>6 DEF Complete
  <2>4. ~Earlier(q, Append(F, x))
    BY <1>2, <1>4, <1>7, <2>2, <2>3, EarlierTransitive
  <2> DEFINE m == x + 1
  <2>5. m \in Nat /\ Earlier(q, Append(F, m))
    BY <1>2, <2>1 DEF D
  <2> HIDE DEF m
  <2>6. Starts(F, q) /\ Len(q) > Len(F) /\ x <= q[Len(F) + 1] /\ q[Len(F) + 1] < m
    BY <1>2, <2>2, <2>4, <2>5, Between
  <2>7. Len(q) \in Nat /\ Len(F) \in Nat /\ q[Len(F) + 1] \in Nat
    BY <1>2, <2>2, <2>6, WayFacts
  <2>8. q[Len(F) + 1] = x
    BY <1>2, <2>6, <2>7 DEF m
  <2>9. Len(P) = Len(F) + 1 /\ (\A i \in 1 .. Len(F) : P[i] = F[i]) /\ P[Len(F) + 1] = x
    BY <1>2, <1>4, Longer
  <2>10. Starts(P, q)
    BY <2>6, <2>7, <2>8, <2>9 DEF Starts
  <2> QED
    BY <1>8, <2>3, <2>10
<1> QED
  BY <1>3, <1>9, <1>10, <1>11 DEF Walk

\* At the end of the document's own text all that belongs is there.
LEMMA CameToEnd ==
    ASSUME NEW v \in Vaults, NEW ref, NEW es, NEW st, Shaped(es, st), Walk(v, ref, es, st),
           NoneFrom(es, st),
           Len(st) = 1
    PROVE  BelongsOf(v, ref) \subseteq Placed(es)
<1>1. SUFFICES ASSUME NEW q \in BelongsOf(v, ref) PROVE q \in Placed(es)
  OBVIOUS
<1>2. q \in Way /\ Len(q) \in Nat
  BY BelongsWay, WayFacts
<1>3. SpotAt(es, st, 1) \in Levels(v, ref)[1 - 1]
  BY DEF Walk, Chained
<1>4. SpotAt(es, st, 1) = DocumentOf(v)
  BY <1>3, LevelsAre
<1>5. es[st[1].entry].place = << >>
  BY <1>4 DEF SpotAt, DocumentOf
<1>6. Starts(es[st[Len(st)].entry].place, q)
  BY <1>2, <1>5 DEF Starts
<1>7. Earlier(q, HeadOf(es, st))
  BY <1>6, NothingAfter
<1> QED
  BY <1>7 DEF Walk, Complete

\* What is not there when the descent stops comes later than all that is.
LEMMA LaterThanPlaced ==
    ASSUME NEW v \in Vaults, NEW ref, NEW es, NEW st, Shaped(es, st), Walk(v, ref, es, st),
           NEW p \in Placed(es), NEW q \in BelongsOf(v, ref), q \notin Placed(es)
    PROVE  Earlier(p, q)
<1> DEFINE C == HeadOf(es, st)
<1>1. q \in Way /\ C \in Way
  <2>1. es[st[Len(st)].entry].place \in Way /\ st[Len(st)].line \in Nat
    BY ShapeFacts
  <2> QED
    BY <2>1, BelongsWay, Longer DEF HeadOf
<1>2. p \in Way /\ Earlier(p, C)
  <2>1. PICK e \in 2 .. Len(es) : p = es[e].place
    BY DEF Placed
  <2>2. e \in 1 .. Len(es)
    BY <2>1, ShapeFacts
  <2> QED
    BY <2>1, <2>2, ShapeFacts DEF Walk, Ahead
<1>3. ~Earlier(q, C)
  BY DEF Walk, Complete
<1> HIDE DEF C
<1>4. q = C \/ Earlier(C, q)
  BY <1>1, <1>3, OneIsEarlier
<1> QED
  BY <1>1, <1>2, <1>4, EarlierTransitive

\* An entry more, with a place and a text.
OneMore(es, more, place, text) ==
    /\ Len(more) = Len(es) + 1
    /\ \A e \in 1 .. Len(es) : more[e].place = es[e].place /\ more[e].text = es[e].text
    /\ more[Len(es) + 1].place = place /\ more[Len(es) + 1].text = text

\* An embed that belongs is brought in.
LEMMA BroughtIn ==
    ASSUME NEW v \in Vaults, NEW ref, NEW es, NEW st, Shaped(es, st), Walk(v, ref, es, st),
           NEW line \in Nat, NextFrom(es, st, line), Len(st) - 1 < MaxDepth, Welcome(v, ref, SpotAt(es, st, Len(st)), line),
           NEW more,
           OneMore(es, more, Append(es[st[Len(st)].entry].place, line), BroughtAt(v, SpotAt(es, st, Len(st)), line)),
           NEW later, Len(later) = Len(st) + 1, PastLine(st, line, later),
           later[Len(st) + 1] = [entry |-> Len(es) + 1, note |-> NamedAt(v, SpotAt(es, st, Len(st)), line), line |-> 1]
    PROVE  /\ Walk(v, ref, more, later)
           /\ \A e \in 1 .. Len(es) : Earlier(es[e].place, Append(es[st[Len(st)].entry].place, line))
<1> DEFINE k == Len(st)
           P == es[st[k].entry].place
           l == st[k].line
           text == es[st[k].entry].text
           h == SpotAt(es, st, k)
           C == Append(P, l)
           X == Append(P, line)
           D == Append(X, 1)
           inner == Within(v, h, line)
<1>1. MaxDepth \in Nat /\ Len(es) \in Nat /\ k \in Nat \ {0} /\ k <= MaxDepth
      /\ k \in 1 .. k /\ k - 1 \in 0 .. MaxDepth /\ k \in 1 .. MaxDepth /\ k \in 0 .. MaxDepth
  <2>1. MaxDepth \in Nat /\ Len(es) \in Nat /\ k \in Nat \ {0} /\ k - 1 < MaxDepth
    BY LimitAssumption, ShapeFacts
  <2> QED
    BY <2>1
<1>2. P \in Way /\ l \in Nat \ {0} /\ text \in Texts /\ \A e \in 1 .. Len(es) : es[e].place \in Way
  BY <1>1, ShapeFacts
<1>3. Chained(v, ref, es, st) /\ Ahead(ref, es, st) /\ Complete(v, ref, es, st) /\ Placed(es) \subseteq BelongsOf(v, ref)
  BY DEF Walk
<1>4. /\ line \in Nat /\ l <= line /\ (\A n \in 1 .. Len(text) : l <= n /\ n < line => text[n].kind # "embed")
      /\ Welcome(v, ref, h, line)
      /\ Len(more) = Len(es) + 1 /\ (\A e \in 1 .. Len(es) : more[e].place = es[e].place /\ more[e].text = es[e].text)
      /\ more[Len(es) + 1].place = X /\ more[Len(es) + 1].text = BroughtAt(v, h, line)
      /\ Len(later) = k + 1 /\ (\A n \in 1 .. k : n # k => later[n] = st[n])
      /\ later[k].entry = st[k].entry /\ later[k].note = st[k].note /\ later[k].line = line + 1
      /\ later[k + 1].entry = Len(es) + 1 /\ later[k + 1].line = 1 /\ later[k + 1].note = NamedAt(v, h, line)
  <2>1. /\ l <= line /\ line \in Nat /\ Welcome(v, ref, h, line)
        /\ \A n \in 1 .. Len(text) : l <= n /\ n < line => text[n].kind # "embed"
    BY DEF NextFrom
  <2>2. /\ Len(more) = Len(es) + 1 /\ more[Len(es) + 1].place = X /\ more[Len(es) + 1].text = BroughtAt(v, h, line)
        /\ \A e \in 1 .. Len(es) : more[e].place = es[e].place /\ more[e].text = es[e].text
    BY DEF OneMore
  <2>3. /\ Len(later) = k + 1 /\ later[k].entry = st[k].entry /\ later[k].note = st[k].note /\ later[k].line = line + 1
        /\ \A n \in 1 .. k : n # k => later[n] = st[n]
    BY DEF PastLine
  <2>4. later[k + 1].entry = Len(es) + 1 /\ later[k + 1].line = 1 /\ later[k + 1].note = NamedAt(v, h, line)
    OBVIOUS
  <2> HIDE DEF l, text, h, X, k
  <2> QED
    BY <2>1, <2>2, <2>3, <2>4
<1>5. h.place = P /\ h.text = text /\ h.notes = [i \in 1 .. k |-> st[i].note]
  BY DEF SpotAt
<1>6. h \in Levels(v, ref)[k - 1]
  BY <1>1, <1>3 DEF Chained
<1>7. h \in Spot /\ Len(P) = k - 1 /\ Len(h.notes) = k
  <2>1. h \in Spot /\ Len(h.place) = k - 1 /\ Len(h.notes) = k - 1 + 1
    BY <1>1, <1>6, LevelTypes
  <2>2. k - 1 + 1 = k
    BY <1>1
  <2>3. h.place = P
    BY <1>5
  <2> HIDE DEF P, h, k
  <2> QED
    BY <2>1, <2>2, <2>3
<1>8. X \in Way /\ D \in Way /\ C \in Way /\ Earlier(X, D) /\ Earlier(D, Append(P, line + 1)) /\ (C = X \/ Earlier(C, X))
  <2>1. X \in Way /\ C \in Way
    BY <1>2, Longer
  <2>2. D \in Way /\ Earlier(X, D)
    <3> HIDE DEF X
    <3> QED
      BY <2>1, Longer, InsideIsLater
  <2>3. Earlier(D, Append(P, line + 1))
    <3> HIDE DEF P
    <3>1. P \in Way /\ line \in Nat /\ 1 \in Nat
      BY <1>2
    <3> QED
      BY <3>1, AfterIsLater
  <2>4. C = X \/ Earlier(C, X)
    <3>1. CASE l = line
      BY <3>1
    <3>2. CASE l # line
      <4>1. l < line
        BY <1>2, <1>4, <3>2
      <4> HIDE DEF P, l
      <4> QED
        BY <1>2, <4>1, NextIsLater
    <3> QED
      BY <3>1, <3>2
  <2> QED
    BY <2>1, <2>2, <2>3, <2>4
<1>9. HeadOf(es, st) = C /\ HeadOf(more, later) = D
  BY <1>4 DEF HeadOf
<1>10. inner.place = X /\ inner.notes = Append(h.notes, NamedAt(v, h, line)) /\ inner.text = BroughtAt(v, h, line)
  BY <1>5 DEF Within
<1> HIDE DEF P, l, text, h, C, X, D, inner
<1>11. \A n \in 1 .. k : SpotAt(more, later, n) = SpotAt(es, st, n)
  <2> TAKE n \in 1 .. k
  <2>1. later[n].entry = st[n].entry /\ st[n].entry \in 1 .. Len(es)
    BY <1>4, ShapeFacts
  <2>2. \A i \in 1 .. n : later[i].note = st[i].note
    BY <1>1, <1>4
  <2>3. [i \in 1 .. n |-> later[i].note] = [i \in 1 .. n |-> st[i].note]
    BY <2>2
  <2>4. more[later[n].entry].place = es[st[n].entry].place /\ more[later[n].entry].text = es[st[n].entry].text
    BY <1>4, <2>1
  <2> QED
    BY <2>3, <2>4 DEF SpotAt
<1>12. inner \in Levels(v, ref)[k] /\ inner \in Spot
  <2>1. inner \in Levels(v, ref)[k]
    BY <1>1, <1>4, <1>6, LevelStep DEF inner
  <2> QED
    BY <1>1, <2>1, LevelTypes
<1>13. SpotAt(more, later, k + 1) = inner
  <2> DEFINE notes == [i \in 1 .. k + 1 |-> later[i].note]
             named == NamedAt(v, h, line)
  <2>1. SpotAt(more, later, k + 1) = [place |-> X, notes |-> notes, text |-> BroughtAt(v, h, line)]
    BY <1>4 DEF SpotAt
  <2>2. inner = [place |-> inner.place, notes |-> inner.notes, text |-> inner.text] /\ inner.notes \in Seq(Paths)
    BY <1>12 DEF Spot
  <2>3. h.notes \in Seq(Paths) /\ Len(h.notes) = k
    BY <1>7 DEF Spot
  <2>4. named \in Paths
    <3>1. Len(inner.notes) = k + 1
      BY <1>1, <1>12, LevelTypes
    <3>2. inner.notes = Append(h.notes, named)
      BY <1>10
    <3> HIDE DEF named
    <3>3. Append(h.notes, named)[k + 1] = named
      BY <1>1, <2>3, <3>2
    <3>4. k + 1 \in 1 .. Len(inner.notes)
      BY <1>1, <3>1
    <3> QED
      BY <2>2, <3>2, <3>3, <3>4
  <2>5. \A i \in 1 .. k : later[i].note = h.notes[i]
    <3> TAKE i \in 1 .. k
    <3>1. later[i].note = st[i].note
      BY <1>4
    <3> QED
      BY <1>5, <3>1
  <2>6. later[k + 1].note = named
    BY <1>4
  <2> HIDE DEF named
  <2>7. Len(Append(h.notes, named)) = k + 1 /\ Append(h.notes, named) \in Seq(Paths)
        /\ (\A i \in 1 .. k : Append(h.notes, named)[i] = h.notes[i]) /\ Append(h.notes, named)[k + 1] = named
    BY <2>3, <2>4, AppendProperties
  <2>8. \A i \in 1 .. k + 1 : later[i].note = Append(h.notes, named)[i]
    BY <1>1, <2>5, <2>6, <2>7
  <2>9. Append(h.notes, named) = [i \in 1 .. k + 1 |-> Append(h.notes, named)[i]]
    BY <2>7
  <2>10. notes = Append(h.notes, named)
    BY <2>8, <2>9
  <2> QED
    BY <1>10, <2>1, <2>2, <2>10 DEF named
<1>14. Chained(v, ref, more, later)
  <2>1. ASSUME NEW n \in 1 .. k + 1 PROVE SpotAt(more, later, n) \in Levels(v, ref)[n - 1]
    <3>1. CASE n = k + 1
      <4>1. n - 1 = k
        BY <1>1, <3>1
      <4> QED
        BY <1>12, <1>13, <3>1, <4>1
    <3>2. CASE n # k + 1
      <4>1. n \in 1 .. k
        BY <1>1, <3>2
      <4>2. SpotAt(es, st, n) \in Levels(v, ref)[n - 1]
        BY <1>3, <4>1 DEF Chained
      <4> QED
        BY <1>11, <4>1, <4>2
    <3> QED
      BY <3>1, <3>2
  <2>2. ASSUME NEW n \in 2 .. k + 1
        PROVE  more[later[n].entry].place = Append(more[later[n - 1].entry].place, later[n - 1].line - 1)
    <3>1. CASE n = k + 1
      <4>1. n - 1 = k /\ line + 1 - 1 = line
        BY <1>1, <3>1
      <4>2. more[later[k].entry].place = P
        <5>1. st[k].entry \in 1 .. Len(es) /\ later[k].entry = st[k].entry
          BY <1>1, <1>4, ShapeFacts
        <5>2. more[st[k].entry].place = es[st[k].entry].place
          BY <1>4, <5>1
        <5> QED
          BY <5>1, <5>2 DEF P
      <4>3. later[n].entry = Len(es) + 1
        BY <1>4, <3>1
      <4>4. later[n - 1].entry = later[k].entry /\ later[n - 1].line = line + 1
        BY <1>4, <4>1
      <4>5. more[Len(es) + 1].place = Append(P, line)
        BY <1>4 DEF X
      <4>6. more[later[n].entry].place = Append(P, line)
        BY <4>3, <4>5
      <4>7. more[later[n - 1].entry].place = P /\ later[n - 1].line - 1 = line
        BY <4>1, <4>2, <4>4
      <4> QED
        BY <4>6, <4>7
    <3>2. CASE n # k + 1
      <4>1. n \in 1 .. k /\ n - 1 \in 1 .. k /\ n - 1 # k /\ n \in 2 .. k
        BY <1>1, <3>2
      <4>2. es[st[n].entry].place = Append(es[st[n - 1].entry].place, st[n - 1].line - 1)
        BY <1>3, <4>1 DEF Chained
      <4>3. later[n].entry = st[n].entry /\ later[n - 1] = st[n - 1]
        BY <1>4, <4>1
      <4>4. st[n].entry \in 1 .. Len(es) /\ st[n - 1].entry \in 1 .. Len(es)
        BY <4>1, ShapeFacts
      <4> QED
        BY <1>4, <4>2, <4>3, <4>4
    <3> QED
      BY <3>1, <3>2
  <2> QED
    BY <1>4, <2>1, <2>2 DEF Chained
<1>15. \A e \in 1 .. Len(es) : Earlier(es[e].place, X) /\ Earlier(es[e].place, D)
  <2> TAKE e \in 1 .. Len(es)
  <2>1. es[e].place \in Way /\ Earlier(es[e].place, C)
    BY <1>2, <1>3, <1>9 DEF Ahead
  <2> QED
    BY <1>8, <2>1, EarlierTransitive
<1>16. Ahead(ref, more, later)
  <2>1. \A e \in 1 .. Len(more) : Earlier(more[e].place, D)
    <3> TAKE e \in 1 .. Len(more)
    <3>1. e \in 1 .. Len(es) \/ e = Len(es) + 1
      BY <1>1, <1>4
    <3> QED
      BY <1>4, <1>8, <1>15, <3>1
  <2>2. Earlier(C, D)
    BY <1>8, EarlierTransitive
  <2>3. \A p \in ref : p \in Way /\ Earlier(p, D)
    BY <1>3, <1>8, <1>9, <2>2, EarlierTransitive DEF Ahead
  <2> QED
    BY <1>9, <2>1, <2>3 DEF Ahead
<1>17. Placed(more) = Placed(es) \union {X}
  <2>0. Len(es) > 0
    <3>1. st[k].entry \in 1 .. Len(es)
      BY <1>1, ShapeFacts
    <3> QED
      BY <1>1, <3>1
  <2>1. \A e \in 2 .. Len(es) + 1 : e \in 2 .. Len(es) \/ e = Len(es) + 1
    BY <1>1
  <2>2. \A e \in 2 .. Len(es) : e \in 1 .. Len(es) /\ e \in 2 .. Len(es) + 1
    BY <1>1
  <2>3. Len(es) + 1 \in 2 .. Len(es) + 1
    BY <1>1, <2>0
  <2>4. ASSUME NEW p \in Placed(more) PROVE p \in Placed(es) \union {X}
    <3>1. PICK e \in 2 .. Len(es) + 1 : p = more[e].place
      BY <1>4 DEF Placed
    <3> QED
      BY <1>4, <2>1, <2>2, <3>1 DEF Placed
  <2>5. ASSUME NEW p \in Placed(es) \union {X} PROVE p \in Placed(more)
    <3>1. CASE p = X
      BY <1>4, <2>3, <3>1 DEF Placed
    <3>2. CASE p \in Placed(es)
      <4>1. PICK e \in 2 .. Len(es) : p = es[e].place
        BY <3>2 DEF Placed
      <4> QED
        BY <1>4, <2>2, <4>1 DEF Placed
    <3> QED
      BY <2>5, <3>1, <3>2
  <2> QED
    BY <2>4, <2>5
<1>18. X \in BelongsOf(v, ref)
  BY <1>1, <1>10, <1>12 DEF BelongsOf
<1>19. Complete(v, ref, more, later)
  <2>1. SUFFICES ASSUME NEW q \in BelongsOf(v, ref), Earlier(q, D), ~Earlier(q, C) PROVE q = X
    BY <1>3, <1>9, <1>17 DEF Complete
  <2>2. q \in Way /\ Len(q) \in Nat
    BY BelongsWay, WayFacts
  <2> DEFINE m == line + 1
  <2>3. m \in Nat /\ Append(P, m) \in Way
    BY <1>2, Longer
  <2>4. Earlier(q, Append(P, m)) /\ ~Earlier(q, Append(P, l))
    BY <1>8, <2>1, <2>2, <2>3, EarlierTransitive DEF C
  <2> HIDE DEF m
  <2>5. Starts(P, q) /\ Len(q) > Len(P) /\ l <= q[Len(P) + 1] /\ q[Len(P) + 1] < m
    BY <1>2, <2>2, <2>3, <2>4, Between
  <2>6. Len(P) + 1 = k
    BY <1>1, <1>7
  <2>7. Welcome(v, ref, h, q[k - 1 + 1])
    BY <1>1, <1>5, <1>6, <1>7, <2>5, BelongsInside
  <2>8. q[k] \in 1 .. Len(text) /\ text[q[k]].kind = "embed"
    <3>1. k - 1 + 1 = k
      BY <1>1
    <3> QED
      BY <1>5, <2>7, <3>1 DEF Welcome
  <2>9. q[k] = line
    <3>1. l <= q[k] /\ q[k] < line + 1
      BY <2>5, <2>6 DEF m
    <3>2. Len(text) \in Nat
      BY <1>2 DEF Texts
    <3> HIDE DEF k
    <3> QED
      BY <1>2, <1>4, <2>8, <3>1, <3>2
  <2>10. Len(X) = k /\ (\A i \in 1 .. k - 1 : X[i] = P[i]) /\ X[k] = line
    BY <1>2, <1>7, <2>6, Longer DEF X
  <2>11. Starts(X, q)
    <3>1. Len(q) >= k /\ \A i \in 1 .. k - 1 : q[i] = P[i]
      <4>1. Len(P) = k - 1 /\ Len(q) > k - 1
        BY <1>7, <2>5
      <4>2. \A i \in 1 .. k - 1 : q[i] = P[i]
        BY <2>5, <4>1 DEF Starts
      <4> QED
        BY <1>1, <2>2, <4>1, <4>2
    <3>2. \A i \in 1 .. k : q[i] = X[i]
      <4> TAKE i \in 1 .. k
      <4>1. i = k \/ i \in 1 .. k - 1
        BY <1>1
      <4> QED
        BY <2>9, <2>10, <3>1, <4>1
    <3> QED
      BY <2>10, <3>1, <3>2 DEF Starts
  <2>12. CASE Len(q) = k
    <3>1. Starts(q, q)
      BY <2>2 DEF Starts
    <3> QED
      BY <1>8, <2>2, <2>10, <2>11, <2>12, <3>1, SamePlace
  <2>13. CASE Len(q) # k
    <3>1. Len(q) > k /\ Len(q) > Len(X)
      BY <1>1, <1>7, <2>2, <2>5, <2>10, <2>13
    <3>2. q[Len(X) + 1] < 1
      BY <1>8, <2>1, <2>2, <2>11, <3>1, InsideBefore DEF D
    <3>3. Welcome(v, ref, inner, q[k + 1])
      BY <1>1, <1>10, <1>12, <2>11, <3>1, BelongsInside
    <3>4. q[k + 1] >= 1
      BY <3>3 DEF Welcome
    <3>5. q[k + 1] \in Nat
      BY <1>1, <2>2, <3>1, WayFacts
    <3> QED
      BY <2>10, <3>2, <3>4, <3>5
  <2> QED
    BY <2>12, <2>13
<1>20. \A e \in 1 .. Len(es) : Earlier(es[e].place, Append(es[st[Len(st)].entry].place, line))
  BY <1>15 DEF X, P
<1> QED
  BY <1>3, <1>14, <1>16, <1>17, <1>18, <1>19, <1>20 DEF Walk

-----------------------------------------------------------------------------
(* The embed Expand is at *)

LEMMA NextEmbedIs ==
    ASSUME NEW text \in Texts, NEW from \in Nat \ {0}
    PROVE  /\ NextEmbed(text, from) = 0 => \A n \in 1 .. Len(text) : from <= n => text[n].kind # "embed"
           /\ NextEmbed(text, from) # 0 =>
                /\ NextEmbed(text, from) \in 1 .. Len(text) /\ from <= NextEmbed(text, from)
                /\ text[NextEmbed(text, from)].kind = "embed"
                /\ \A n \in 1 .. Len(text) : from <= n /\ n < NextEmbed(text, from) => text[n].kind # "embed"
<1> DEFINE at == {n \in from .. Len(text) : text[n].kind = "embed"}
           next == NextEmbed(text, from)
<1>1. at \subseteq Nat \ {0} /\ Len(text) \in Nat
  BY DEF Texts
<1>2. \A n \in 1 .. Len(text) : from <= n /\ text[n].kind = "embed" => n \in at
  BY <1>1
<1>3. CASE at = {}
  <2>1. next = 0
    BY <1>3 DEF NextEmbed
  <2> HIDE DEF at
  <2> QED
    BY <1>2, <1>3, <2>1
<1>4. CASE at # {}
  <2>1. \E n \in at : \A m \in at : n <= m
    BY <1>1, <1>4, LeastNatural
  <2>2. next \in at /\ \A m \in at : next <= m
    BY <1>4, <2>1 DEF NextEmbed
  <2>3. next # 0 /\ next \in 1 .. Len(text) /\ from <= next /\ text[next].kind = "embed"
    BY <1>1, <2>2
  <2>4. ASSUME NEW n \in 1 .. Len(text), from <= n, n < next PROVE text[n].kind # "embed"
    <3>1. n \notin at
      BY <1>1, <2>2, <2>3, <2>4
    <3> HIDE DEF at
    <3> QED
      BY <1>2, <2>4, <3>1
  <2> HIDE DEF at
  <2> QED
    BY <2>3, <2>4
<1> QED
  BY <1>3, <1>4

LEMMA BegunEmpty ==
    ASSUME NEW text \in Texts
    PROVE  Begun(text) = << >> <=> text = << >>
<1>1. CASE text # << >> /\ text[1].kind = "rule"
  <2> DEFINE blank == [text[1] EXCEPT !.kind = "blank"]
  <2>1. text[1] \in Lines /\ Len(text) \in Nat
    BY <1>1 DEF Texts
  <2>2. blank \in Lines
    BY <2>1 DEF Lines, Kinds
  <2>3. Begun(text) = <<blank>> \o text
    BY <1>1 DEF Begun
  <2> HIDE DEF blank
  <2>4. Len(<<blank>> \o text) = Len(text) + 1
    BY <2>2 DEF Texts
  <2> QED
    BY <1>1, <2>1, <2>3, <2>4
<1>2. CASE ~(text # << >> /\ text[1].kind = "rule")
  BY <1>2 DEF Begun
<1> QED
  BY <1>1, <1>2

LEMMA ShapedHere ==
    ASSUME IInv, step # "done"
    PROVE  /\ vault \in Vaults /\ Shaped(entries, stack)
           /\ Top = stack[Len(stack)] /\ Text = entries[stack[Len(stack)].entry].text
           /\ Text \in Texts /\ Top.line \in Nat \ {0}
<1>1. TypeOK /\ Standing /\ NoCycle
  BY DEF IInv
<1>2. entries \in Seq(EntryKind) /\ stack \in Seq(CallOf(entries)) /\ vault \in Vaults
  BY <1>1 DEF TypeOK, EntryKind, CallOf
<1>3. Len(stack) > 0 /\ Len(stack) <= MaxDepth + 1 /\ \A n \in 1 .. Len(stack) : stack[n].line > 0
  BY <1>1 DEF Standing, NoCycle
<1>4. Text \in Texts /\ Top.line \in Nat \ {0}
  BY <1>1, Here
<1> QED
  BY <1>2, <1>3, <1>4 DEF Shaped, Top, Text

\* Whether the embed Expand is at belongs, in the terms Expand has.
LEMMA WelcomeHere ==
    ASSUME IInv, step # "done", Line # 0, NEW ref
    PROVE  LET found == vault.resolve[Key]
               spot == SpotAt(entries, stack, Len(stack))
           IN  /\ NamedAt(vault, spot, Line) = found
               /\ BroughtAt(vault, spot, Line) = Begun(PartOf(found, Embed.anchor))
               /\ Welcome(vault, ref, spot, Line) <=>
                    /\ Place \notin ref
                    /\ found # Nothing
                    /\ Begun(PartOf(found, Embed.anchor)) # << >>
                    /\ ~OnChain(found)
                    /\ \A n \in 2 .. Len(stack) : vault.file[stack[n].note] # vault.file[found]
<1> DEFINE k == Len(stack)
           found == vault.resolve[Key]
           spot == SpotAt(entries, stack, k)
           notes == [i \in 1 .. k |-> stack[i].note]
<1>1. k \in Nat \ {0} /\ (\A n \in 1 .. k : stack[n].note \in Paths) /\ Text \in Texts /\ Top.line \in Nat \ {0}
      /\ Top = stack[k]
  BY ShapedHere, ShapeFacts
<1>2. Line \in 1 .. Len(Text) /\ Text[Line].kind = "embed"
  BY <1>1, NextEmbedIs DEF Line
<1>3. spot.place = entries[Top.entry].place /\ spot.text = Text /\ spot.notes = notes
  BY <1>1 DEF SpotAt, Text
<1>4. notes \in Seq(Paths) /\ Len(notes) = k /\ (\A i \in 1 .. k : notes[i] = stack[i].note) /\ DOMAIN notes = 1 .. k
  BY <1>1
<1>5. Last(notes) = Top.note
  <2>1. k \in 1 .. k
    BY <1>1
  <2> HIDE DEF notes, k
  <2> QED
    BY <1>1, <1>4, <2>1 DEF Last
<1>6. Range(notes) = {stack[i].note : i \in 1 .. k}
  BY <1>4 DEF Range
<1>7. Range(Tail(notes)) = {stack[i].note : i \in 2 .. k}
  <2>1. Len(Tail(notes)) = k - 1 /\ Tail(notes) \in Seq(Paths) /\ \A i \in 1 .. k - 1 : Tail(notes)[i] = notes[i + 1]
    <3> HIDE DEF notes, k
    <3>1. notes # << >>
      BY <1>1, <1>4
    <3> QED
      BY <1>1, <1>4, <3>1
  <2>2. DOMAIN Tail(notes) = 1 .. k - 1
    BY <2>1
  <2>3. Range(Tail(notes)) = {Tail(notes)[i] : i \in 1 .. k - 1}
    BY <2>2 DEF Range
  <2>4. \A i \in 1 .. k - 1 : i + 1 \in 2 .. k /\ i + 1 \in 1 .. k
    BY <1>1
  <2>5. \A i \in 2 .. k : i - 1 \in 1 .. k - 1 /\ i - 1 + 1 = i /\ i \in 1 .. k
    BY <1>1
  <2>6. \A i \in 1 .. k - 1 : Tail(notes)[i] = stack[i + 1].note
    BY <1>4, <2>1, <2>4
  <2> HIDE DEF notes, k
  <2>7. ASSUME NEW p \in Range(Tail(notes)) PROVE p \in {stack[i].note : i \in 2 .. k}
    BY <2>3, <2>4, <2>6, <2>7
  <2>8. ASSUME NEW p \in {stack[i].note : i \in 2 .. k} PROVE p \in Range(Tail(notes))
    <3>1. PICK i \in 2 .. k : p = stack[i].note
      BY <2>8
    <3>2. p = Tail(notes)[i - 1]
      BY <2>5, <2>6, <3>1
    <3> QED
      BY <2>3, <2>5, <3>1, <3>2
  <2> QED
    BY <2>7, <2>8
<1> HIDE DEF notes, spot
<1>8. NamedAt(vault, spot, Line) = found
  BY <1>3, <1>5 DEF NamedAt, Key, FolderHere, Embed
<1>9. BroughtAt(vault, spot, Line) = Begun(PartOf(found, Embed.anchor))
  BY <1>3, <1>8 DEF BroughtAt, PartIn, PartOf, Embed
<1>10. Append(spot.place, Line) = Place
  BY <1>3 DEF Place
<1> HIDE DEF found
<1>11. found \in Range(spot.notes) <=> OnChain(found)
  BY <1>3, <1>6 DEF OnChain
<1>12. vault.file[found] \in {vault.file[p] : p \in Range(Tail(spot.notes))}
       <=> \E n \in 2 .. k : vault.file[stack[n].note] = vault.file[found]
  <2> DEFINE file == vault.file
  <2> HIDE DEF file
  <2>1. file[found] \in {file[p] : p \in {stack[i].note : i \in 2 .. k}}
        <=> \E n \in 2 .. k : file[stack[n].note] = file[found]
    OBVIOUS
  <2> QED
    BY <1>3, <1>7, <2>1 DEF file
<1>13. Welcome(vault, ref, spot, Line) <=>
          /\ Place \notin ref /\ found # Nothing /\ Begun(PartOf(found, Embed.anchor)) # << >>
          /\ ~OnChain(found) /\ ~\E n \in 2 .. k : vault.file[stack[n].note] = vault.file[found]
  BY <1>2, <1>3, <1>8, <1>9, <1>10, <1>11, <1>12 DEF Welcome
<1> QED
  BY <1>8, <1>9, <1>13 DEF spot, found

-----------------------------------------------------------------------------
(* The order of what was brought in *)

\* What a lookup found is what the name names, or nothing where the file went away.
KnownRight == \A key \in Folders \X Names : known[key] \in {Unknown, Nothing, vault.resolve[key]}

InOrder(es) == \A e, f \in 2 .. Len(es) : e < f => Earlier(es[e].place, es[f].place)

\* What belongs and is not there comes after all that is.
FirstOnly(v, ref, es) == \A p \in Placed(es), q \in BelongsOf(v, ref) \ Placed(es) : Earlier(p, q)

Walking == ~stopped /\ step # "done" => Walk(vault, refused, entries, stack)
Arrived == ~stopped /\ step = "done" => BelongsOf(vault, refused) \subseteq Placed(entries)
Halted ==
    stopped =>
        /\ step \in {"next", "done"} /\ FirstOnly(vault, refused, entries)
        /\ cancel \/ Len(entries) = MaxEmbeds + 1

OrderInv ==
    /\ KnownRight /\ Len(entries) > 0 /\ InOrder(entries)
    /\ Placed(entries) \subseteq BelongsOf(vault, refused)
    /\ Walking /\ Arrived /\ Halted

LEMMA InitOrder ==
    ASSUME Init
    PROVE  OrderInv
<1> DEFINE document == [text |-> vault.document, place |-> << >>, embeds |-> << >>]
           call == [entry |-> 1, note |-> DocumentPath, line |-> 1]
<1>1. vault \in Vaults /\ entries = <<document>> /\ stack = <<call>> /\ refused = {} /\ ~stopped /\ step = "next"
  BY DEF Init
<1>2. IInv /\ MaxDepth \in Nat /\ 0 \in 0 .. MaxDepth
  BY InitInv, LimitAssumption
<1>3. Len(entries) = 1 /\ entries[1] = document /\ Len(stack) = 1 /\ stack[1] = call
  BY <1>1
<1>4. document.place = << >> /\ document.text = vault.document /\ call.entry = 1 /\ call.note = DocumentPath /\ call.line = 1
  OBVIOUS
<1> HIDE DEF document, call
<1>5. SpotAt(entries, stack, 1) = DocumentOf(vault)
  <2>1. [i \in 1 .. 1 |-> stack[i].note] = <<DocumentPath>>
    BY <1>3, <1>4
  <2> QED
    BY <1>3, <1>4, <2>1 DEF SpotAt, DocumentOf
<1>6. << >> \in Way /\ 1 \in Nat /\ Len(<< >>) = 0
  BY DEF Way
<1>7. HeadOf(entries, stack) = Append(<< >>, 1)
  BY <1>3, <1>4 DEF HeadOf
<1>8. Placed(entries) = {}
  <2>1. 2 .. Len(entries) = {}
    BY <1>3
  <2> QED
    BY <2>1 DEF Placed
<1>9. Chained(vault, refused, entries, stack)
  <2>1. ASSUME NEW n \in 1 .. Len(stack) PROVE SpotAt(entries, stack, n) \in Levels(vault, refused)[n - 1]
    <3>1. n = 1 /\ n - 1 = 0
      BY <1>3
    <3>2. SpotAt(entries, stack, 1) \in Levels(vault, refused)[0]
      BY <1>5, LevelsAre
    <3> QED
      BY <3>1, <3>2
  <2>2. 2 .. Len(stack) = {}
    BY <1>3
  <2> QED
    BY <2>1, <2>2 DEF Chained
<1>10. Ahead(refused, entries, stack)
  <2>1. \A e \in 1 .. Len(entries) : entries[e].place = << >>
    BY <1>3, <1>4
  <2>2. Earlier(<< >>, Append(<< >>, 1))
    BY <1>6, InsideIsLater
  <2> QED
    BY <1>1, <1>7, <2>1, <2>2 DEF Ahead
<1>11. Complete(vault, refused, entries, stack)
  <2>1. SUFFICES ASSUME NEW q \in BelongsOf(vault, refused), Earlier(q, Append(<< >>, 1)) PROVE FALSE
    BY <1>7 DEF Complete
  <2> DEFINE top == << >>
             h == DocumentOf(vault)
  <2>2. q \in Way /\ Len(q) \in Nat /\ Len(q) > 0
    <3>1. PICK d \in 1 .. MaxDepth : q \in {at.place : at \in Levels(vault, refused)[d]}
      BY DEF BelongsOf
    <3>2. PICK r \in Levels(vault, refused)[d] : q = r.place
      BY <3>1
    <3>3. d \in 0 .. MaxDepth /\ d > 0 /\ d \in Nat
      BY <1>2
    <3>4. Len(r.place) = d
      BY <1>1, <3>3, LevelTypes
    <3> QED
      BY <1>1, <3>2, <3>3, <3>4, BelongsWay
  <2>3. top \in Way /\ Len(top) = 0 /\ Starts(top, q)
    BY <1>6 DEF Starts
  <2>4. h \in Levels(vault, refused)[0] /\ h.place = top
    BY LevelsAre DEF DocumentOf
  <2>5. Earlier(q, Append(top, 1))
    BY <2>1
  <2> HIDE DEF top, h
  <2>6. q[Len(top) + 1] < 1
    BY <2>2, <2>3, <2>5, InsideBefore
  <2>7. Welcome(vault, refused, h, q[0 + 1])
    BY <1>1, <1>2, <2>2, <2>3, <2>4, BelongsInside
  <2>8. q[0 + 1] >= 1
    BY <2>7 DEF Welcome
  <2>9. q[1] \in Nat
    BY <2>2, WayFacts
  <2> QED
    BY <2>3, <2>6, <2>8, <2>9
<1>12. Walk(vault, refused, entries, stack)
  BY <1>8, <1>9, <1>10, <1>11 DEF Walk
<1>13. KnownRight
  BY DEF Init, KnownRight
<1>14. InOrder(entries)
  <2>1. 2 .. Len(entries) = {}
    BY <1>3
  <2> QED
    BY <2>1 DEF InOrder
<1> QED
  BY <1>1, <1>3, <1>8, <1>12, <1>13, <1>14 DEF OrderInv, Walking, Arrived, Halted

LEMMA KeepsKnown ==
    ASSUME IInv, KnownRight, [Next]_vars
    PROVE  KnownRight' /\ vault' = vault
<1>1. vault' = vault
  BY DEF Next, Expand, Return, Stop, TooDeep, LookUp, NoNote, Found, Cancelled, Load, Unread, TooLarge, Include,
         Cancel, vars
<1>2. CASE LookUp
  <2>1. PICK path \in {vault.resolve[Key], Nothing} : known' = [known EXCEPT ![Key] = path]
    BY <1>2 DEF LookUp
  <2>2. known \in [Folders \X Names -> Paths \union {Nothing, Unknown}]
    BY DEF IInv, TypeOK
  <2>3. \A key \in Folders \X Names : known'[key] = IF key = Key THEN path ELSE known[key]
    BY <2>1, <2>2
  <2> QED
    BY <1>1, <2>3 DEF KnownRight
<1>3. CASE ~LookUp
  <2>1. known' = known
    BY <1>3 DEF Next, Expand, Return, Stop, TooDeep, NoNote, Found, Cancelled, Load, Unread, TooLarge, Include,
                Cancel, vars
  <2> QED
    BY <1>1, <2>1 DEF KnownRight
<1> QED
  BY <1>1, <1>2, <1>3

\* The steps that leave the place of the descent alone.
LEMMA KeepsStanding ==
    ASSUME OrderInv, UNCHANGED <<vault, entries, stack, refused, stopped>>, KnownRight',
           step # "done" => step' \in {"next", "found", "loaded"}, step = "done" => step' = "done",
           stopped => step' = step, cancel => cancel'
    PROVE  OrderInv'
BY DEF OrderInv, Walking, Arrived, Halted

LEMMA StoppedKeeps ==
    ASSUME IInv, OrderInv, stopped, [Next]_vars
    PROVE  OrderInv'
<1>1. step \in {"next", "done"} /\ FirstOnly(vault, refused, entries) /\ (cancel \/ Len(entries) = MaxEmbeds + 1)
  BY DEF OrderInv, Halted
<1>2. CASE Return \/ Stop
  <2>1. UNCHANGED <<vault, entries, known, refused, cancel>> /\ stopped' = TRUE /\ step' \in {"next", "done"}
    <3>1. CASE Return
      BY <3>1 DEF Return, Leave
    <3>2. CASE Stop
      BY <3>2 DEF Stop, Leave
    <3> QED
      BY <1>2, <3>1, <3>2
  <2> QED
    BY <1>1, <2>1 DEF OrderInv, KnownRight, Walking, Arrived, Halted
<1>3. CASE Cancel \/ UNCHANGED vars
  <2>1. UNCHANGED <<vault, entries, known, refused, step, stopped>> /\ (cancel => cancel')
    <3>1. CASE Cancel
      BY <3>1 DEF Cancel
    <3>2. CASE UNCHANGED vars
      BY <3>2, Zenon DEF vars
    <3> QED
      BY <1>3, <3>1, <3>2
  <2> QED
    BY <1>1, <2>1 DEF OrderInv, KnownRight, Walking, Arrived, Halted
<1> QED
  BY <1>1, <1>2, <1>3 DEF Next, Expand, TooDeep, LookUp, NoNote, Found, Cancelled, Load, Unread, TooLarge, Include,
     MayEmbed, Usable, AtEmbed

LEMMA GoOnPast ==
    ASSUME TypeOK, Standing, step # "done", Line # 0, GoOn
    PROVE  Len(stack') = Len(stack) /\ PastLine(stack, Line, stack') /\ step' = "next"
<1> DEFINE past == [Top EXCEPT !.line = Line + 1]
<1>1. stack \in Seq(CallKind) /\ Len(stack) \in Nat \ {0} /\ Top \in [entry : 1 .. Len(entries), note : Paths, line : Nat]
  BY Here DEF TypeOK, CallKind
<1>2. past.entry = Top.entry /\ past.note = Top.note /\ past.line = Line + 1
  BY <1>1
<1>3. stack' = [stack EXCEPT ![Len(stack)] = past] /\ step' = "next"
  BY DEF GoOn, Top
<1> HIDE DEF past
<1>4. Len(stack') = Len(stack) /\ stack'[Len(stack)] = past /\ \A n \in 1 .. Len(stack) : n # Len(stack) => stack'[n] = stack[n]
  BY <1>1, <1>3
<1> QED
  BY <1>2, <1>3, <1>4 DEF PastLine, Top

LEMMA WentOnKeeps ==
    ASSUME IInv, OrderInv, ~stopped, TooDeep \/ NoNote \/ Unread \/ TooLarge, KnownRight'
    PROVE  OrderInv'
<1> DEFINE k == Len(stack)
           P == entries[stack[k].entry].place
           spot == SpotAt(entries, stack, k)
           found == vault.resolve[Key]
<1>1. /\ UNCHANGED <<vault, entries, stopped>> /\ GoOn /\ Line # 0 /\ step # "done"
      /\ refused' \in {refused, refused \union {Place}}
  <2>1. CASE TooDeep
    BY <2>1 DEF TooDeep, MayEmbed, AtEmbed
  <2>2. CASE NoNote
    BY <2>2 DEF NoNote, MayEmbed, AtEmbed
  <2>3. CASE Unread
    BY <2>3 DEF Unread, AtEmbed
  <2>4. CASE TooLarge
    BY <2>4 DEF TooLarge, Usable, AtEmbed
  <2> QED
    BY <2>1, <2>2, <2>3, <2>4
<1>2. /\ vault \in Vaults /\ Shaped(entries, stack) /\ Top = stack[k] /\ Text = entries[stack[k].entry].text
      /\ Text \in Texts /\ Top.line \in Nat \ {0}
  BY <1>1, ShapedHere
<1>3. /\ Line \in Nat /\ Top.line <= Line
      /\ \A n \in 1 .. Len(Text) : Top.line <= n /\ n < Line => Text[n].kind # "embed"
  <2>1. Line \in 1 .. Len(Text)
    BY <1>1, <1>2, NextEmbedIs DEF Line
  <2> QED
    BY <1>1, <1>2, <2>1, NextEmbedIs DEF Line, Texts
<1>4. Walk(vault, refused, entries, stack) /\ KnownRight
  BY <1>1 DEF OrderInv, Walking
<1>5. Note \in Paths \union {Nothing, Unknown} /\ Note \in {Unknown, Nothing, found} /\ (Note \in Paths => Note = found)
      /\ Embed \in Lines
  <2>1. Note \in Paths \union {Nothing, Unknown} /\ Key \in Folders \X Names /\ Embed \in Lines
    BY <1>1, Here DEF IInv
  <2> QED
    BY <1>4, <2>1, NameAssumption DEF KnownRight, Note
<1> HIDE DEF found
<1>6. Welcome(vault, refused', spot, Line) =>
        /\ Place \notin refused' /\ found # Nothing /\ Begun(PartOf(found, Embed.anchor)) # << >>
        /\ ~OnChain(found) /\ \A n \in 2 .. k : vault.file[stack[n].note] # vault.file[found]
  BY <1>1, WelcomeHere DEF found
<1> HIDE DEF k, spot
<1>7. ASSUME Len(stack) - 1 < MaxDepth PROVE ~Welcome(vault, refused', spot, Line)
  <2>1. CASE TooDeep
    <3>1. Depth >= MaxDepth
      BY <2>1 DEF TooDeep
    <3>2. Len(stack) \in Nat /\ MaxDepth \in Nat
      BY <1>2, ShapeFacts, LimitAssumption
    <3> QED
      BY <1>7, <3>1, <3>2 DEF Depth
  <2>2. CASE NoNote
    <3>1. CASE Note \notin Paths
      <4>1. found # Nothing => Place \in refused'
        BY <2>2, <3>1 DEF NoNote, found
      <4> QED
        BY <1>6, <4>1
    <3>2. CASE Note \in Paths
      <4>1. OnChain(Note)
        BY <2>2, <3>2, NameAssumption DEF NoNote
      <4> QED
        BY <1>5, <1>6, <3>2, <4>1
    <3> QED
      BY <3>1, <3>2
  <2>3. CASE Unread
    <3>1. Note = found
      BY <1>5, <2>3 DEF Unread, AtEmbed, IInv, Seen
    <3>2. CASE loaded[Note] = "failed" /\ refused' = refused \union {Place}
      BY <1>6, <3>2
    <3>3. CASE SameFile
      BY <1>6, <3>1, <3>3 DEF SameFile, k
    <3> QED
      BY <2>3, <3>2, <3>3 DEF Unread
  <2>4. CASE TooLarge
    <3>1. Note = found /\ Note \in Paths
      BY <1>5, <2>4 DEF TooLarge, Usable, AtEmbed, IInv, Seen
    <3>2. PartOf(Note, Embed.anchor) \in Texts
      BY <1>2, <1>5, <3>1, Parts DEF Lines
    <3>3. CASE PartOf(Note, Embed.anchor) = << >>
      BY <1>6, <3>1, <3>2, <3>3, BegunEmpty
    <3>4. CASE PartOf(Note, Embed.anchor) # << >>
      <4>1. Place \in refused'
        BY <2>4, <3>4 DEF TooLarge
      <4> QED
        BY <1>6, <4>1
    <3> QED
      BY <3>3, <3>4
  <2> QED
    BY <2>1, <2>2, <2>3, <2>4
<1>8. Len(stack') = Len(stack) /\ PastLine(stack, Line, stack') /\ step' = "next"
  BY <1>1, GoOnPast DEF IInv
<1>9. refused' \in {refused, refused \union {Append(entries[stack[Len(stack)].entry].place, Line)}}
  BY <1>1, <1>2 DEF Place, k
<1>10. Walk(vault, refused', entries, stack')
  <2> DEFINE line == Line
             more == refused'
             later == stack'
  <2>1. line \in Nat /\ NextFrom(entries, stack, line)
    BY <1>2, <1>3 DEF NextFrom, k
  <2>2. Len(stack) - 1 < MaxDepth => ~Welcome(vault, more, SpotAt(entries, stack, Len(stack)), line)
    BY <1>7 DEF k, spot
  <2>3. Len(later) = Len(stack) /\ PastLine(stack, line, later)
    BY <1>8
  <2>4. more \in {refused, refused \union {Append(entries[stack[Len(stack)].entry].place, line)}}
    BY <1>9
  <2> HIDE DEF line, more, later
  <2>5. Walk(vault, more, entries, later)
    BY <1>2, <1>4, <2>1, <2>2, <2>3, <2>4, WentOn
  <2> QED
    BY <2>5 DEF more, later
<1>11. Placed(entries) \subseteq BelongsOf(vault, refused') /\ InOrder(entries) /\ Len(entries) > 0
  BY <1>10 DEF Walk, OrderInv
<1> QED
  BY <1>1, <1>8, <1>10, <1>11 DEF OrderInv, Walking, Arrived, Halted

\* Leave takes the innermost call away.
LEMMA LeaveTakes ==
    ASSUME TypeOK, Standing, step # "done", Leave
    PROVE  /\ Len(stack) \in Nat \ {0} /\ Len(stack') = Len(stack) - 1
           /\ \A n \in 1 .. Len(stack) - 1 : stack'[n] = stack[n]
           /\ step' = IF Len(stack) = 1 THEN "done" ELSE "next"
<1>1. stack \in Seq(CallKind) /\ Len(stack) \in Nat \ {0}
  BY Here DEF TypeOK, CallKind
<1> HIDE DEF CallKind
<1>2. stack' = SubSeq(stack, 1, Len(stack) - 1) /\ step' = IF Len(stack) = 1 THEN "done" ELSE "next"
  BY DEF Leave
<1> DEFINE m == Len(stack) - 1
<1>3. m \in Nat /\ m <= Len(stack) /\ \A n \in 1 .. m : stack[n] \in CallKind
  BY <1>1
<1> HIDE DEF m
<1>4. Len(SubSeq(stack, 1, m)) = m /\ \A n \in 1 .. m : SubSeq(stack, 1, m)[n] = stack[n]
  BY <1>1, <1>3
<1> QED
  BY <1>1, <1>2, <1>4 DEF m

LEMMA ReturnKeeps ==
    ASSUME IInv, OrderInv, ~stopped, Return, KnownRight'
    PROVE  OrderInv'
<1>1. UNCHANGED <<vault, entries, stopped, refused>> /\ Leave /\ Line = 0 /\ step # "done"
  BY DEF Return
<1>2. vault \in Vaults /\ Shaped(entries, stack) /\ Text \in Texts /\ Top.line \in Nat \ {0}
      /\ Top = stack[Len(stack)] /\ Text = entries[stack[Len(stack)].entry].text
  BY <1>1, ShapedHere
<1>3. NoneFrom(entries, stack)
  BY <1>1, <1>2, NextEmbedIs DEF Line, NoneFrom
<1>4. Walk(vault, refused, entries, stack)
  BY <1>1 DEF OrderInv, Walking
<1>5. /\ Len(stack) \in Nat \ {0} /\ Len(stack') = Len(stack) - 1
      /\ \A n \in 1 .. Len(stack) - 1 : stack'[n] = stack[n]
      /\ step' = IF Len(stack) = 1 THEN "done" ELSE "next"
  BY <1>1, LeaveTakes DEF IInv
<1>6. CASE Len(stack) = 1
  <2>1. BelongsOf(vault, refused) \subseteq Placed(entries)
    BY <1>2, <1>3, <1>4, <1>6, CameToEnd
  <2> QED
    BY <1>1, <1>5, <1>6, <2>1 DEF OrderInv, Walking, Arrived, Halted
<1>7. CASE Len(stack) # 1
  <2> DEFINE later == stack'
  <2>1. Len(stack) > 1 /\ Len(later) = Len(stack) - 1 /\ \A n \in 1 .. Len(stack) - 1 : later[n] = stack[n]
    BY <1>5, <1>7
  <2> HIDE DEF later
  <2>2. Walk(vault, refused, entries, later)
    BY <1>2, <1>3, <1>4, <2>1, CameBack
  <2>3. Walk(vault, refused, entries, stack')
    BY <2>2 DEF later
  <2> QED
    BY <1>1, <1>5, <1>7, <2>3 DEF OrderInv, Walking, Arrived, Halted
<1> QED
  BY <1>6, <1>7

LEMMA StopKeeps ==
    ASSUME IInv, OrderInv, ~stopped, Stop \/ Cancelled, KnownRight'
    PROVE  OrderInv'
<1>1. UNCHANGED <<vault, entries, refused>> /\ stopped' = TRUE /\ step' \in {"next", "done"} /\ step # "done"
  <2>1. CASE Stop
    BY <2>1 DEF Stop, Leave, AtEmbed
  <2>2. CASE Cancelled
    BY <2>2 DEF Cancelled, Leave, AtEmbed
  <2> QED
    BY <2>1, <2>2
<1>2. vault \in Vaults /\ Shaped(entries, stack)
  BY <1>1, ShapedHere
<1>3. Walk(vault, refused, entries, stack)
  BY <1>1 DEF OrderInv, Walking
<1>4. FirstOnly(vault, refused, entries)
  BY <1>2, <1>3, LaterThanPlaced DEF FirstOnly
<1>5. cancel' \/ Len(entries) = MaxEmbeds + 1
  <2>1. CASE Stop
    <3>1. Len(entries) > MaxEmbeds /\ Len(entries) <= MaxEmbeds + 1
      BY <2>1 DEF Stop, Full, IInv, EntriesStay
    <3>2. Len(entries) \in Nat /\ MaxEmbeds \in Nat
      BY <1>2, ShapeFacts, LimitAssumption
    <3> QED
      BY <3>1, <3>2
  <2>2. CASE Cancelled
    BY <2>2 DEF Cancelled
  <2> QED
    BY <2>1, <2>2
<1>6. FirstOnly(vault, refused, entries)' /\ (cancel' \/ Len(entries') = MaxEmbeds + 1)
  BY <1>1, <1>4, <1>5
<1> QED
  BY <1>1, <1>6 DEF OrderInv, Walking, Arrived, Halted

LEMMA IncludeKeepsOrder ==
    ASSUME IInv, OrderInv, ~stopped, Include, KnownRight'
    PROVE  OrderInv'
<1> DEFINE k == Len(stack)
           P == entries[stack[k].entry].place
           found == vault.resolve[Key]
           spot == SpotAt(entries, stack, k)
<1>1. UNCHANGED <<vault, refused, stopped>> /\ Line # 0 /\ step # "done" /\ ~SameFile
      /\ Fits(PartOf(Note, Embed.anchor))
  BY DEF Include, Usable, AtEmbed
<1>2. /\ vault \in Vaults /\ Shaped(entries, stack) /\ Top = stack[k] /\ Text = entries[stack[k].entry].text
      /\ Text \in Texts /\ Top.line \in Nat \ {0}
  BY <1>1, ShapedHere
<1>3. Note \in Paths /\ ~OnChain(Note) /\ Depth < MaxDepth /\ PartOf(Note, Embed.anchor) \in Texts
      /\ TypeOK /\ Standing
  BY Including
<1>4. Walk(vault, refused, entries, stack) /\ KnownRight /\ InOrder(entries) /\ Len(entries) > 0
  BY <1>1 DEF OrderInv, Walking
<1>5. Note = found
  <2>1. Key \in Folders \X Names
    BY <1>1, <1>3, Here
  <2> QED
    BY <1>3, <1>4, <2>1, NameAssumption DEF KnownRight, Note
<1>6. /\ Line \in Nat /\ NextFrom(entries, stack, Line)
  <2>1. Line \in 1 .. Len(Text) /\ Line \in Nat
    BY <1>1, <1>2, NextEmbedIs DEF Line, Texts
  <2>2. Top.line <= Line /\ \A n \in 1 .. Len(Text) : Top.line <= n /\ n < Line => Text[n].kind # "embed"
    BY <1>1, <1>2, NextEmbedIs DEF Line
  <2> QED
    BY <1>2, <2>1, <2>2 DEF NextFrom
<1>7. P \in Way /\ k \in Nat \ {0} /\ stack[k].line \in Nat /\ Place = Append(P, Line) /\ Len(entries) \in Nat
  BY <1>2, ShapeFacts DEF Place
<1> HIDE DEF P, k
<1>8. Place \notin refused
  <2> DEFINE C == Append(P, stack[k].line)
  <2>1. C \in Way /\ Place \in Way /\ (C = Place \/ Earlier(C, Place))
    <3>1. CASE stack[k].line = Line
      BY <1>6, <1>7, <3>1, Longer
    <3>2. CASE stack[k].line # Line
      <4>1. stack[k].line < Line
        BY <1>6, <1>7, <3>2 DEF NextFrom, k
      <4> QED
        BY <1>6, <1>7, <4>1, Longer, NextIsLater
    <3> QED
      BY <3>1, <3>2
  <2>2. \A p \in refused : p \in Way /\ Earlier(p, C)
    BY <1>4 DEF Walk, Ahead, HeadOf, P, k
  <2> HIDE DEF C
  <2>3. \A p \in refused : Earlier(p, Place)
    BY <2>1, <2>2, EarlierTransitive
  <2> QED
    BY <2>1, <2>3, NotEarlierItself
<1> HIDE DEF found
<1>9. /\ NamedAt(vault, spot, Line) = Note
      /\ BroughtAt(vault, spot, Line) = Begun(PartOf(Note, Embed.anchor))
      /\ Welcome(vault, refused, spot, Line)
  <2>1. Begun(PartOf(Note, Embed.anchor)) # << >>
    BY <1>1, <1>3, BegunEmpty DEF Fits
  <2>2. Note # Nothing
    BY <1>3, NameAssumption
  <2>3. \A n \in 2 .. k : vault.file[stack[n].note] # vault.file[Note]
    BY <1>1 DEF SameFile, k
  <2> QED
    BY <1>1, <1>3, <1>5, <1>8, <2>1, <2>2, <2>3, WelcomeHere DEF found, k
<1>10. /\ Len(entries') = Len(entries) + 1
       /\ OneMore(entries, entries', Place, BroughtAt(vault, spot, Line))
       /\ Len(stack') = k + 1 /\ PastLine(stack, Line, stack') /\ step' = "next"
       /\ stack'[k + 1] = [entry |-> Len(entries) + 1, note |-> NamedAt(vault, spot, Line), line |-> 1]
  <2>1. /\ Len(entries') = Len(entries) + 1 /\ Len(stack') = k + 1 /\ step' = "next"
        /\ \A e \in 1 .. Len(entries) : entries'[e].text = entries[e].text /\ entries'[e].place = entries[e].place
        /\ entries'[Len(entries) + 1].text = Begun(PartOf(Note, Embed.anchor))
        /\ entries'[Len(entries) + 1].place = Place
        /\ \A n \in 1 .. k : n # k => stack'[n] = stack[n]
        /\ \A n \in 1 .. k : stack'[n].note = stack[n].note
        /\ stack'[k].entry = Top.entry /\ stack'[k].line = Line + 1
        /\ stack'[k + 1].entry = Len(entries) + 1 /\ stack'[k + 1].line = 1 /\ stack'[k + 1].note = Note
        /\ stack' \in Seq(CallKind')
    BY <1>3, IncludeKeeps DEF k
  <2>2. stack'[k + 1] = [entry |-> Len(entries) + 1, note |-> Note, line |-> 1]
    <3> DEFINE Calls == CallKind'
    <3>1. stack' \in Seq(Calls) /\ k + 1 \in 1 .. Len(stack')
      BY <1>7, <2>1
    <3> HIDE DEF Calls
    <3>2. stack'[k + 1] \in Calls
      BY <3>1
    <3>3. stack'[k + 1] \in [entry : 1 .. Len(entries'), note : Paths, line : Nat]
      BY <3>2 DEF Calls, CallKind
    <3> QED
      BY <2>1, <3>3
  <2>3. OneMore(entries, entries', Place, BroughtAt(vault, spot, Line))
    BY <1>9, <2>1 DEF OneMore
  <2>4. k \in 1 .. k
    BY <1>7
  <2>5. PastLine(stack, Line, stack')
    BY <1>2, <2>1, <2>4 DEF PastLine, k
  <2> QED
    BY <1>9, <2>1, <2>2, <2>3, <2>5
<1>11. /\ Walk(vault, refused, entries', stack')
       /\ \A e \in 1 .. Len(entries) : Earlier(entries[e].place, Place)
  <2> DEFINE line == Line
             more == entries'
             later == stack'
  <2>1. line \in Nat /\ NextFrom(entries, stack, line)
    BY <1>6
  <2>2. Len(stack) - 1 < MaxDepth /\ Welcome(vault, refused, SpotAt(entries, stack, Len(stack)), line)
    BY <1>3, <1>9 DEF Depth, spot, k
  <2>3. OneMore(entries, more, Append(entries[stack[Len(stack)].entry].place, line),
                BroughtAt(vault, SpotAt(entries, stack, Len(stack)), line))
    BY <1>7, <1>10 DEF spot, k, P
  <2>4. /\ Len(later) = Len(stack) + 1 /\ PastLine(stack, line, later)
        /\ later[Len(stack) + 1] =
              [entry |-> Len(entries) + 1, note |-> NamedAt(vault, SpotAt(entries, stack, Len(stack)), line), line |-> 1]
    BY <1>10 DEF spot, k
  <2> HIDE DEF line, more, later
  <2>5. /\ Walk(vault, refused, more, later)
        /\ \A e \in 1 .. Len(entries) : Earlier(entries[e].place, Append(entries[stack[Len(stack)].entry].place, line))
    BY <1>2, <1>4, <2>1, <2>2, <2>3, <2>4, BroughtIn
  <2> QED
    BY <1>7, <2>5 DEF more, later, line, k, P
<1>12. InOrder(entries')
  <2>1. SUFFICES ASSUME NEW e \in 2 .. Len(entries) + 1, NEW f \in 2 .. Len(entries) + 1, e < f
                 PROVE  Earlier(entries'[e].place, entries'[f].place)
    BY <1>10 DEF InOrder
  <2>2. e \in 1 .. Len(entries) /\ entries'[e].place = entries[e].place
    <3>1. e \in 1 .. Len(entries)
      BY <1>7, <2>1
    <3> QED
      BY <1>10, <3>1 DEF OneMore
  <2>3. CASE f = Len(entries) + 1
    <3>1. entries'[f].place = Place
      BY <1>10, <2>3 DEF OneMore
    <3> QED
      BY <1>11, <2>2, <3>1
  <2>4. CASE f # Len(entries) + 1
    <3>1. e \in 2 .. Len(entries) /\ f \in 2 .. Len(entries) /\ f \in 1 .. Len(entries)
      BY <1>7, <2>1, <2>4
    <3>2. entries'[f].place = entries[f].place
      BY <1>10, <3>1 DEF OneMore
    <3> QED
      BY <1>4, <2>1, <2>2, <3>1, <3>2 DEF InOrder
  <2> QED
    BY <2>3, <2>4
<1>13. Placed(entries') \subseteq BelongsOf(vault, refused) /\ Len(entries') > 0
  BY <1>7, <1>10, <1>11 DEF Walk
<1> QED
  BY <1>1, <1>10, <1>11, <1>12, <1>13 DEF OrderInv, Walking, Arrived, Halted

LEMMA KeepsOrder ==
    ASSUME IInv, OrderInv, [Next]_vars
    PROVE  OrderInv'
<1>1. KnownRight /\ KnownRight' /\ vault' = vault
  BY KeepsKnown DEF OrderInv
<1>2. CASE stopped
  BY <1>2, StoppedKeeps
<1>3. CASE ~stopped
  <2>1. CASE LookUp \/ Found \/ Load
    <3>1. UNCHANGED <<entries, stack, refused, stopped, cancel>> /\ step # "done" /\ step' \in {"next", "found", "loaded"}
      BY <2>1 DEF LookUp, Found, Load, MayEmbed, AtEmbed
    <3> QED
      BY <1>1, <1>3, <3>1, KeepsStanding
  <2>2. CASE Cancel
    <3>1. UNCHANGED <<entries, stack, refused, stopped, step>> /\ step # "done" /\ cancel'
      BY <2>2 DEF Cancel
    <3>2. step' \in {"next", "found", "loaded"}
      BY <3>1 DEF IInv, TypeOK
    <3> QED
      BY <1>1, <1>3, <3>1, <3>2, KeepsStanding
  <2>3. CASE UNCHANGED vars
    <3>1. UNCHANGED <<entries, stack, refused, stopped, step>> /\ (cancel => cancel')
      BY <2>3, Zenon DEF vars
    <3>2. step # "done" => step' \in {"next", "found", "loaded"}
      BY <3>1 DEF IInv, TypeOK
    <3> QED
      BY <1>1, <1>3, <3>1, <3>2, KeepsStanding
  <2>4. CASE TooDeep \/ NoNote \/ Unread \/ TooLarge
    BY <1>1, <1>3, <2>4, WentOnKeeps
  <2>5. CASE Return
    BY <1>1, <1>3, <2>5, ReturnKeeps
  <2>6. CASE Stop \/ Cancelled
    BY <1>1, <1>3, <2>6, StopKeeps
  <2>7. CASE Include
    BY <1>1, <1>3, <2>7, IncludeKeepsOrder
  <2> QED
    BY <2>1, <2>2, <2>3, <2>4, <2>5, <2>6, <2>7 DEF Next, Expand
<1> QED
  BY <1>2, <1>3

LEMMA OrderInvariance == Spec => []OrderInv
<1>1. Init => OrderInv
  BY InitOrder
<1>2. IInv /\ OrderInv /\ [Next]_vars => OrderInv'
  BY KeepsOrder
<1> QED
  BY <1>1, <1>2, Invariance, PTL DEF Spec

\* Each entry after the document has a place of its own.
LEMMA PlacedCount ==
    ASSUME TypeOK, Len(entries) > 0, InOrder(entries)
    PROVE  IsFiniteSet(Placed(entries)) /\ Cardinality(Placed(entries)) = Len(entries) - 1
<1> DEFINE n == Len(entries) - 1
           place == [i \in 1 .. n |-> entries[i + 1].place]
<1>1. entries \in Seq(EntryKind)
  BY DEF TypeOK, EntryKind
<1>2. n \in Nat /\ Len(entries) \in Nat /\ \A e \in 1 .. Len(entries) : entries[e].place \in Way
  <2>1. Len(entries) \in Nat /\ \A e \in 1 .. Len(entries) : entries[e] \in EntryKind
    <3> HIDE DEF EntryKind
    <3> QED
      BY <1>1
  <2>2. n \in Nat
    BY <2>1
  <2> QED
    BY <2>1, <2>2 DEF EntryKind, Way
<1>3. \A i \in 1 .. n : i + 1 \in 2 .. Len(entries) /\ i + 1 \in 1 .. Len(entries) /\ i + 1 \in Nat
  BY <1>2
<1>4. \A e \in 2 .. Len(entries) : e - 1 \in 1 .. n /\ e - 1 + 1 = e
  BY <1>2
<1> HIDE DEF n
<1>5. place \in [1 .. n -> Placed(entries)]
  BY <1>3 DEF Placed
<1>6. ASSUME NEW i \in 1 .. n, NEW j \in 1 .. n, place[i] = place[j] PROVE i = j
  <2>1. entries[i + 1].place = entries[j + 1].place /\ entries[i + 1].place \in Way
    BY <1>2, <1>3, <1>6
  <2>2. ~(i + 1 < j + 1) /\ ~(j + 1 < i + 1)
    BY <1>3, <2>1, NotEarlierItself DEF InOrder
  <2> QED
    BY <1>2, <2>2
<1>7. ASSUME NEW p \in Placed(entries) PROVE \E i \in 1 .. n : place[i] = p
  <2>1. PICK e \in 2 .. Len(entries) : p = entries[e].place
    BY DEF Placed
  <2>2. place[e - 1] = p
    BY <1>4, <2>1
  <2> QED
    BY <1>4, <2>2
<1> HIDE DEF place
<1>8. place \in Bijection(1 .. n, Placed(entries))
  BY <1>5, <1>6, <1>7 DEF Bijection, Injection, IsInjective, Surjection
<1>9. ExistsBijection(1 .. n, Placed(entries))
  BY <1>8 DEF ExistsBijection
<1>10. IsFiniteSet(Placed(entries)) /\ Cardinality(Placed(entries)) = n
  BY <1>2, <1>9, FS_CountingElements, FS_NatBijection
<1> QED
  BY <1>10 DEF n

LEMMA OrderIs ==
    ASSUME IInv, OrderInv
    PROVE  FirstInOrder
<1>1. SUFFICES ASSUME step = "done"
               PROVE  /\ InOrder(entries) /\ Placed(entries) \subseteq Belongs
                      /\ \A p \in Placed(entries), q \in Belongs \ Placed(entries) : Earlier(p, q)
                      /\ Cardinality(Placed(entries)) = Min2(MaxEmbeds, Cardinality(Belongs)) \/ cancel
  BY DEF FirstInOrder, Placed, InOrder
<1> DEFINE B == BelongsOf(vault, refused)
<1>2. Belongs = B
  BY BelongsAre
<1>3. TypeOK /\ Len(entries) > 0 /\ InOrder(entries) /\ Placed(entries) \subseteq B /\ vault \in Vaults
      /\ Len(entries) <= MaxEmbeds + 1
  BY DEF IInv, OrderInv, TypeOK, EntriesStay
<1>4. IsFiniteSet(Placed(entries)) /\ Cardinality(Placed(entries)) = Len(entries) - 1 /\ Len(entries) \in Nat
      /\ MaxEmbeds \in Nat
  BY <1>3, PlacedCount, LimitAssumption DEF TypeOK
<1>5. IsFiniteSet(B)
  BY <1>3, BelongsFinite
<1>6. Cardinality(B) \in Nat /\ Cardinality(Placed(entries)) <= Cardinality(B)
  BY <1>3, <1>5, FS_CardinalityType, FS_Subset
<1>7. CASE stopped
  <2>1. FirstOnly(vault, refused, entries) /\ (cancel \/ Len(entries) = MaxEmbeds + 1)
    BY <1>7 DEF OrderInv, Halted
  <2>2. Len(entries) = MaxEmbeds + 1 => Cardinality(Placed(entries)) = Min2(MaxEmbeds, Cardinality(B))
    BY <1>4, <1>6 DEF Min2
  <2> QED
    BY <1>2, <1>3, <2>1, <2>2 DEF FirstOnly
<1>8. CASE ~stopped
  <2>1. Placed(entries) = B
    BY <1>1, <1>3, <1>8 DEF OrderInv, Arrived
  <2>2. Cardinality(Placed(entries)) = Min2(MaxEmbeds, Cardinality(B))
    <3>1. Cardinality(B) = Len(entries) - 1 /\ Len(entries) - 1 <= MaxEmbeds
      BY <1>3, <1>4, <2>1
    <3> QED
      BY <1>4, <1>6, <2>1, <3>1 DEF Min2
  <2> QED
    BY <1>2, <1>3, <2>1, <2>2
<1> QED
  BY <1>7, <1>8

-----------------------------------------------------------------------------
(* The tree of the entries *)

\* What an entry brings in is a later one, at one of its lines.
BringsIn(es, e, embed) ==
    /\ embed[1] \in 1 .. Len(es[e].text) /\ embed[2] \in e + 1 .. Len(es)
    /\ es[embed[2]].place = Append(es[e].place, embed[1])

\* Each entry after the document was brought in by one before it, line after line.
Tree(es) ==
    /\ Len(es) > 0 /\ es[1].place = << >>
    /\ \A e \in 1 .. Len(es) : \A n \in 1 .. Len(es[e].embeds) : BringsIn(es, e, es[e].embeds[n])
    /\ \A e \in 1 .. Len(es) : \A m, n \in 1 .. Len(es[e].embeds) : m < n => es[e].embeds[m][1] < es[e].embeds[n][1]
    /\ \A c \in 2 .. Len(es) : \E e \in 1 .. c - 1 : \E n \in 1 .. Len(es[e].embeds) : es[e].embeds[n][2] = c

\* Each call is past the embeds of its entry, which is before those of the calls it made.
Past(es, st) ==
    /\ \A k \in 1 .. Len(st) :
          \A n \in 1 .. Len(es[st[k].entry].embeds) : es[st[k].entry].embeds[n][1] < st[k].line
    /\ \A j, k \in 1 .. Len(st) : j < k => st[j].entry < st[k].entry

TreeInv == Tree(entries) /\ Past(entries, stack)

\* An entry more, which the one at t brings in at line l.
OneIn(es, more, t, l) ==
    /\ Len(more) = Len(es) + 1
    /\ \A e \in 1 .. Len(es) : more[e].text = es[e].text /\ more[e].place = es[e].place
    /\ more[t].embeds = Append(es[t].embeds, <<l, Len(es) + 1>>)
    /\ \A e \in 1 .. Len(es) : e # t => more[e].embeds = es[e].embeds
    /\ more[Len(es) + 1].embeds = << >> /\ more[Len(es) + 1].place = Append(es[t].place, l)

LEMMA EntryFacts ==
    ASSUME NEW es \in Seq(EntryKind), NEW e \in 1 .. Len(es)
    PROVE  /\ Len(es) \in Nat /\ es[e].place \in Way /\ es[e].text \in Texts /\ Len(es[e].text) \in Nat
           /\ es[e].embeds \in Seq(Nat \X Nat) /\ Len(es[e].embeds) \in Nat
           /\ \A n \in 1 .. Len(es[e].embeds) : es[e].embeds[n] \in Nat \X Nat
<1> DEFINE Entry == EntryKind
           Pairs == Nat \X Nat
<1>1. es[e] \in Entry /\ Len(es) \in Nat
  <2> HIDE DEF Entry
  <2>1. es \in Seq(Entry)
    BY DEF Entry
  <2> QED
    BY <2>1
<1>2. es[e].place \in Way /\ es[e].text \in Texts /\ es[e].embeds \in Seq(Pairs)
  BY <1>1 DEF EntryKind, Way
<1> HIDE DEF Pairs
<1>3. Len(es[e].embeds) \in Nat /\ \A n \in 1 .. Len(es[e].embeds) : es[e].embeds[n] \in Pairs
  BY <1>2
<1>4. Len(es[e].text) \in Nat
  BY <1>2 DEF Texts
<1> QED
  BY <1>1, <1>2, <1>3, <1>4 DEF Pairs

LEMMA TreeGrows ==
    ASSUME NEW es \in Seq(EntryKind), Tree(es), NEW more, NEW t \in 1 .. Len(es),
           NEW l \in 1 .. Len(es[t].text), OneIn(es, more, t, l),
           \A n \in 1 .. Len(es[t].embeds) : es[t].embeds[n][1] < l
    PROVE  Tree(more)
<1> DEFINE N == Len(es)
           own == es[t].embeds
           K == Len(own)
           added == <<l, N + 1>>
<1>1. N \in Nat /\ K \in Nat /\ own \in Seq(Nat \X Nat) /\ l \in Nat /\ t \in 1 .. N /\ l \in 1 .. Len(es[t].text)
  BY EntryFacts
<1>2. /\ Len(more) = N + 1 /\ more[t].embeds = Append(own, added)
      /\ \A e \in 1 .. N : more[e].text = es[e].text /\ more[e].place = es[e].place
      /\ \A e \in 1 .. N : e # t => more[e].embeds = es[e].embeds
      /\ more[N + 1].embeds = << >> /\ more[N + 1].place = Append(es[t].place, l)
  BY DEF OneIn
<1>3. Len(more[t].embeds) = K + 1 /\ (\A n \in 1 .. K : more[t].embeds[n] = own[n]) /\ more[t].embeds[K + 1] = added
  <2> DEFINE longer == Append(own, added)
  <2>1. added \in Nat \X Nat
    BY <1>1
  <2> HIDE DEF added
  <2>2. Len(longer) = K + 1 /\ (\A n \in 1 .. K : longer[n] = own[n]) /\ longer[K + 1] = added
    BY <1>1, <2>1, AppendProperties
  <2> QED
    BY <1>2, <2>2
<1>4. added[1] = l /\ added[2] = N + 1
  OBVIOUS
<1>5. /\ \A e \in 1 .. N : \A n \in 1 .. Len(es[e].embeds) : BringsIn(es, e, es[e].embeds[n])
      /\ \A e \in 1 .. N : \A m, n \in 1 .. Len(es[e].embeds) : m < n => es[e].embeds[m][1] < es[e].embeds[n][1]
      /\ \A c \in 2 .. N : \E e \in 1 .. c - 1 : \E n \in 1 .. Len(es[e].embeds) : es[e].embeds[n][2] = c
      /\ N > 0 /\ es[1].place = << >>
  BY DEF Tree
<1>0. own = es[t].embeds /\ K = Len(es[t].embeds) /\ \A n \in 1 .. K : own[n][1] < l
  OBVIOUS
<1> HIDE DEF added, N, K, own
<1>6. ASSUME NEW e \in 1 .. N + 1 PROVE \A n \in 1 .. Len(more[e].embeds) : BringsIn(more, e, more[e].embeds[n])
  <2>1. CASE e = N + 1
    BY <1>2, <2>1
  <2>2. CASE e # N + 1
    <3>1. e \in 1 .. N
      BY <1>1, <2>2
    <3>2. ASSUME NEW embed, BringsIn(es, e, embed) PROVE BringsIn(more, e, embed)
      <4>1. embed[1] \in 1 .. Len(es[e].text) /\ embed[2] \in e + 1 .. N
            /\ es[embed[2]].place = Append(es[e].place, embed[1])
        BY <3>2 DEF BringsIn, N
      <4>2. embed[2] \in 1 .. N /\ embed[2] \in e + 1 .. N + 1
        BY <1>1, <3>1, <4>1
      <4> QED
        BY <1>2, <3>1, <4>1, <4>2 DEF BringsIn
    <3>3. CASE e # t
      BY <1>2, <1>5, <3>1, <3>2, <3>3
    <3>4. CASE e = t
      <4> SUFFICES ASSUME NEW n \in 1 .. K + 1 PROVE BringsIn(more, e, more[e].embeds[n])
        BY <1>3, <3>4
      <4>1. CASE n = K + 1
        <5>1. more[e].embeds[n] = added
          BY <1>3, <3>4, <4>1
        <5>2. N + 1 \in e + 1 .. N + 1
          BY <1>1, <3>1
        <5>3. more[e].text = es[t].text /\ more[e].place = es[t].place
          BY <1>2, <3>1, <3>4
        <5>4. l \in 1 .. Len(more[e].text) /\ more[N + 1].place = Append(more[e].place, l)
          BY <1>2, <5>3
        <5> QED
          BY <1>2, <1>4, <5>1, <5>2, <5>4 DEF BringsIn
      <4>2. CASE n # K + 1
        <5>1. n \in 1 .. K
          BY <1>1, <4>2
        <5>2. more[e].embeds[n] = es[e].embeds[n] /\ BringsIn(es, e, es[e].embeds[n])
          BY <1>0, <1>3, <1>5, <3>1, <3>4, <5>1
        <5> QED
          BY <3>2, <5>2
      <4> QED
        BY <4>1, <4>2
    <3> QED
      BY <3>3, <3>4
  <2> QED
    BY <2>1, <2>2
<1>7. ASSUME NEW e \in 1 .. N + 1, NEW m \in 1 .. Len(more[e].embeds), NEW n \in 1 .. Len(more[e].embeds), m < n
      PROVE  more[e].embeds[m][1] < more[e].embeds[n][1]
  <2>1. CASE e = N + 1
    BY <1>2, <1>7, <2>1
  <2>2. CASE e # N + 1 /\ e # t
    <3>1. e \in 1 .. N
      BY <1>1, <2>2
    <3>2. more[e].embeds = es[e].embeds
      BY <1>2, <2>2, <3>1
    <3>3. m \in 1 .. Len(es[e].embeds) /\ n \in 1 .. Len(es[e].embeds)
      BY <3>2
    <3>4. es[e].embeds[m][1] < es[e].embeds[n][1]
      BY <1>5, <1>7, <3>1, <3>3
    <3> QED
      BY <3>2, <3>4
  <2>3. CASE e = t
    <3>1. m \in 1 .. K + 1 /\ n \in 1 .. K + 1
      BY <1>3, <2>3
    <3>2. m \in 1 .. K
      BY <1>1, <1>7, <3>1
    <3>3. more[e].embeds[m] = own[m]
      BY <1>3, <2>3, <3>2
    <3>4. CASE n = K + 1
      BY <1>0, <1>3, <1>4, <2>3, <3>2, <3>3, <3>4
    <3>5. CASE n # K + 1
      <4>1. n \in 1 .. K
        BY <1>1, <3>1, <3>5
      <4>2. more[e].embeds[n] = own[n]
        BY <1>3, <2>3, <4>1
      <4>3. own[m][1] < own[n][1]
        BY <1>0, <1>1, <1>5, <1>7, <2>3, <3>2, <4>1
      <4> QED
        BY <3>3, <4>2, <4>3
    <3> QED
      BY <3>4, <3>5
  <2> QED
    BY <2>1, <2>2, <2>3
<1>8. ASSUME NEW c \in 2 .. N + 1
      PROVE  \E e \in 1 .. c - 1 : \E n \in 1 .. Len(more[e].embeds) : more[e].embeds[n][2] = c
  <2>1. CASE c = N + 1
    <3>1. t \in 1 .. c - 1 /\ K + 1 \in 1 .. Len(more[t].embeds) /\ more[t].embeds[K + 1][2] = c
      BY <1>1, <1>3, <1>4, <2>1
    <3> QED
      BY <3>1
  <2>2. CASE c # N + 1
    <3>1. c \in 2 .. N
      BY <1>1, <2>2
    <3>2. PICK e \in 1 .. c - 1 : \E n \in 1 .. Len(es[e].embeds) : es[e].embeds[n][2] = c
      BY <1>5, <3>1
    <3>3. PICK n \in 1 .. Len(es[e].embeds) : es[e].embeds[n][2] = c
      BY <3>2
    <3>4. e \in 1 .. N
      BY <1>1, <3>1
    <3>5. n \in 1 .. Len(more[e].embeds) /\ more[e].embeds[n] = es[e].embeds[n]
      <4>1. CASE e = t
        BY <1>0, <1>1, <1>3, <3>3, <4>1
      <4>2. CASE e # t
        <5>1. more[e].embeds = es[e].embeds
          BY <1>2, <3>4, <4>2
        <5> QED
          BY <5>1
      <4> QED
        BY <4>1, <4>2
    <3> QED
      BY <3>3, <3>5
  <2> QED
    BY <2>1, <2>2
<1>9. Len(more) > 0 /\ more[1].place = << >>
  <2>1. 1 \in 1 .. N
    BY <1>1, <1>5
  <2> QED
    BY <1>1, <1>2, <1>5, <2>1
<1>10. Len(more) = N + 1
  BY <1>2
<1>11. /\ \A e \in 1 .. Len(more) : \A n \in 1 .. Len(more[e].embeds) : BringsIn(more, e, more[e].embeds[n])
       /\ \A e \in 1 .. Len(more) : \A m, n \in 1 .. Len(more[e].embeds) :
              m < n => more[e].embeds[m][1] < more[e].embeds[n][1]
       /\ \A c \in 2 .. Len(more) : \E e \in 1 .. c - 1 : \E n \in 1 .. Len(more[e].embeds) : more[e].embeds[n][2] = c
  BY <1>6, <1>7, <1>8, <1>10
<1> QED
  BY <1>9, <1>11 DEF Tree

\* The calls that stay keep their entry and go on.
CallsGoOn(st, later) ==
    /\ Len(later) \in Nat /\ Len(later) <= Len(st)
    /\ \A n \in 1 .. Len(later) : /\ later[n].entry = st[n].entry
                                  /\ later[n].line \in Nat /\ later[n].line >= st[n].line

LEMMA KeepsCalls ==
    ASSUME IInv, [Next]_vars
    PROVE  CallsGoOn(stack, stack') \/ Include
<1>1. /\ TypeOK /\ Standing /\ Len(stack) \in Nat
      /\ \A n \in 1 .. Len(stack) : stack[n].line \in Nat
  <2>1. TypeOK /\ Standing /\ stack \in Seq(CallKind)
    BY DEF IInv, TypeOK, CallKind
  <2> DEFINE Calls == CallKind
  <2>2. stack \in Seq(Calls)
    BY <2>1
  <2> HIDE DEF Calls
  <2>3. Len(stack) \in Nat /\ \A n \in 1 .. Len(stack) : stack[n] \in Calls
    BY <2>2
  <2> QED
    BY <2>1, <2>3 DEF Calls, CallKind
<1>2. ASSUME step # "done", Leave PROVE CallsGoOn(stack, stack')
  <2>1. Len(stack') = Len(stack) - 1 /\ \A n \in 1 .. Len(stack) - 1 : stack'[n] = stack[n]
    BY <1>1, <1>2, LeaveTakes
  <2> QED
    BY <1>1, <2>1 DEF CallsGoOn
<1>3. ASSUME step # "done", Line # 0, GoOn PROVE CallsGoOn(stack, stack')
  <2>1. Len(stack') = Len(stack) /\ PastLine(stack, Line, stack')
    BY <1>1, <1>3, GoOnPast
  <2>2. Line \in Nat /\ Line >= stack[Len(stack)].line
    BY <1>1, <1>3, Here DEF Texts, Top
  <2> SUFFICES ASSUME NEW n \in 1 .. Len(stack)
               PROVE  stack'[n].entry = stack[n].entry /\ stack'[n].line \in Nat /\ stack'[n].line >= stack[n].line
    BY <1>1, <2>1 DEF CallsGoOn
  <2>3. CASE n = Len(stack)
    BY <1>1, <2>1, <2>2, <2>3 DEF PastLine
  <2>4. CASE n # Len(stack)
    BY <1>1, <2>1, <2>4 DEF PastLine
  <2> QED
    BY <2>3, <2>4
<1>4. ASSUME stack' = stack PROVE CallsGoOn(stack, stack')
  BY <1>1, <1>4 DEF CallsGoOn
<1>5. CASE Return
  BY <1>2, <1>5 DEF Return
<1>6. CASE Stop
  BY <1>2, <1>6 DEF Stop, AtEmbed
<1>7. CASE TooDeep
  BY <1>3, <1>7 DEF TooDeep, MayEmbed, AtEmbed
<1>8. CASE LookUp \/ Found \/ Load \/ Cancel \/ UNCHANGED vars
  BY <1>4, <1>8 DEF LookUp, Found, Load, Cancel, vars
<1>9. CASE NoNote
  BY <1>3, <1>9 DEF NoNote, MayEmbed, AtEmbed
<1>10. CASE Cancelled
  BY <1>2, <1>10 DEF Cancelled, AtEmbed
<1>11. CASE Unread
  BY <1>3, <1>11 DEF Unread, AtEmbed
<1>12. CASE TooLarge
  BY <1>3, <1>12 DEF TooLarge, Usable, AtEmbed
<1> QED
  BY <1>5, <1>6, <1>7, <1>8, <1>9, <1>10, <1>11, <1>12 DEF Next, Expand

LEMMA InitTree ==
    ASSUME Init
    PROVE  TreeInv
<1>1. /\ Len(entries) = 1 /\ entries[1].place = << >> /\ Len(entries[1].embeds) = 0
      /\ Len(stack) = 1 /\ stack[1].entry = 1
  BY DEF Init
<1>2. \A e \in 1 .. Len(entries) : 1 .. Len(entries[e].embeds) = {}
  BY <1>1
<1>3. 2 .. Len(entries) = {}
  BY <1>1
<1>4. Tree(entries)
  BY <1>1, <1>2, <1>3 DEF Tree
<1>5. Past(entries, stack)
  BY <1>1, <1>2 DEF Past
<1> QED
  BY <1>4, <1>5 DEF TreeInv

LEMMA CallsPast ==
    ASSUME NEW es \in Seq(EntryKind), NEW st \in Seq(CallOf(es)), NEW later, Past(es, st), CallsGoOn(st, later)
    PROVE  Past(es, later)
<1>1. Len(st) \in Nat /\ \A n \in 1 .. Len(st) : st[n].entry \in 1 .. Len(es) /\ st[n].line \in Nat
  <2> DEFINE Calls == CallOf(es)
  <2>1. st \in Seq(Calls)
    OBVIOUS
  <2> HIDE DEF Calls
  <2>2. Len(st) \in Nat /\ \A n \in 1 .. Len(st) : st[n] \in Calls
    BY <2>1
  <2> QED
    BY <2>2 DEF Calls, CallOf
<1>2. /\ Len(later) \in Nat /\ Len(later) <= Len(st)
      /\ \A n \in 1 .. Len(later) : /\ later[n].entry = st[n].entry
                                    /\ later[n].line \in Nat /\ later[n].line >= st[n].line
  BY DEF CallsGoOn
<1>3. \A n \in 1 .. Len(later) : n \in 1 .. Len(st)
  BY <1>1, <1>2
<1>4. ASSUME NEW k \in 1 .. Len(later), NEW n \in 1 .. Len(es[later[k].entry].embeds)
      PROVE  es[later[k].entry].embeds[n][1] < later[k].line
  <2> DEFINE own == es[st[k].entry].embeds
             Pairs == Nat \X Nat
  <2>1. k \in 1 .. Len(st) /\ later[k].entry = st[k].entry /\ later[k].line \in Nat /\ later[k].line >= st[k].line
    BY <1>2, <1>3
  <2>2. n \in 1 .. Len(own) /\ own[n][1] < st[k].line
    BY <2>1 DEF Past
  <2>3. st[k].entry \in 1 .. Len(es) /\ st[k].line \in Nat
    BY <1>1, <2>1
  <2>4. own[n] \in Pairs
    BY <2>2, <2>3, EntryFacts
  <2>5. own[n][1] \in Nat
    BY <2>4
  <2> HIDE DEF own
  <2>6. own[n][1] < later[k].line
    BY <2>1, <2>2, <2>3, <2>5
  <2> QED
    BY <2>1, <2>6 DEF own
<1>5. ASSUME NEW j \in 1 .. Len(later), NEW k \in 1 .. Len(later), j < k PROVE later[j].entry < later[k].entry
  BY <1>2, <1>3, <1>5 DEF Past
<1> QED
  BY <1>4, <1>5 DEF Past

\* The innermost call is past the line of the embed, and the call for the entry it brings in is new.
LEMMA CallInPast ==
    ASSUME NEW es \in Seq(EntryKind), NEW st \in Seq(CallOf(es)), Len(st) > 0, Past(es, st),
           NEW more, NEW l \in Nat, NEW later,
           OneIn(es, more, st[Len(st)].entry, l), st[Len(st)].line <= l,
           Len(later) = Len(st) + 1, \A n \in 1 .. Len(st) : n # Len(st) => later[n] = st[n],
           later[Len(st)].entry = st[Len(st)].entry, later[Len(st)].line = l + 1,
           later[Len(st) + 1].entry = Len(es) + 1
    PROVE  /\ \A n \in 1 .. Len(es[st[Len(st)].entry].embeds) : es[st[Len(st)].entry].embeds[n][1] < l
           /\ Past(more, later)
<1> DEFINE L == Len(st)
           t == st[L].entry
           own == es[t].embeds
           K == Len(own)
           added == <<l, Len(es) + 1>>
           Pairs == Nat \X Nat
<1>1. L \in Nat \ {0} /\ \A n \in 1 .. L : st[n].entry \in 1 .. Len(es) /\ st[n].line \in Nat
  <2> DEFINE Calls == CallOf(es)
  <2>1. st \in Seq(Calls)
    OBVIOUS
  <2> HIDE DEF Calls
  <2>2. Len(st) \in Nat /\ \A n \in 1 .. Len(st) : st[n] \in Calls
    BY <2>1
  <2> QED
    BY <2>2 DEF Calls, CallOf
<1>2. L \in 1 .. L /\ t \in 1 .. Len(es) /\ Len(es) \in Nat /\ own \in Seq(Pairs) /\ K \in Nat
      /\ \A n \in 1 .. K : own[n] \in Pairs
  <2>1. L \in 1 .. L /\ t \in 1 .. Len(es)
    BY <1>1
  <2> HIDE DEF t
  <2> QED
    BY <2>1, EntryFacts
<1>3. ASSUME NEW n \in 1 .. K PROVE own[n][1] < l /\ own[n][1] \in Nat
  <2>1. own[n][1] \in Nat
    BY <1>2
  <2>2. own[n][1] < st[L].line
    BY <1>2 DEF Past
  <2>3. st[L].line \in Nat /\ st[L].line <= l
    BY <1>1, <1>2
  <2> HIDE DEF own, L
  <2> QED
    BY <2>1, <2>2, <2>3
<1>4. /\ Len(more) = Len(es) + 1 /\ more[t].embeds = Append(own, added)
      /\ \A e \in 1 .. Len(es) : e # t => more[e].embeds = es[e].embeds
      /\ more[Len(es) + 1].embeds = << >>
  BY DEF OneIn
<1>5. Len(more[t].embeds) = K + 1 /\ (\A n \in 1 .. K : more[t].embeds[n] = own[n]) /\ more[t].embeds[K + 1] = added
  <2>1. added \in Pairs
    BY <1>2
  <2> HIDE DEF added, Pairs, own
  <2> QED
    BY <1>2, <1>4, <2>1, AppendProperties
<1>6. added[1] = l /\ later[L].line = l + 1 /\ later[L].entry = t /\ later[L + 1].entry = Len(es) + 1 /\ Len(later) = L + 1
      /\ \A n \in 1 .. L : n # L => later[n] = st[n]
  OBVIOUS
<1>7. (\A k \in 1 .. L : \A n \in 1 .. Len(es[st[k].entry].embeds) : es[st[k].entry].embeds[n][1] < st[k].line)
      /\ \A j, k \in 1 .. L : j < k => st[j].entry < st[k].entry
  BY DEF Past
<1> HIDE DEF t, own, K, added, L
<1>8. ASSUME NEW k \in 1 .. L + 1, NEW n \in 1 .. Len(more[later[k].entry].embeds)
      PROVE  more[later[k].entry].embeds[n][1] < later[k].line
  <2>1. CASE k = L + 1
    BY <1>4, <1>6, <2>1
  <2>2. CASE k = L
    <3>1. n \in 1 .. K + 1
      BY <1>5, <1>6, <2>2
    <3>2. more[t].embeds[n][1] < l + 1
      <4>1. CASE n = K + 1
        BY <1>5, <1>6, <4>1
      <4>2. CASE n # K + 1
        <5>1. n \in 1 .. K
          BY <1>2, <3>1, <4>2
        <5>2. own[n][1] < l /\ own[n][1] \in Nat /\ more[t].embeds[n] = own[n]
          BY <1>3, <1>5, <5>1
        <5> QED
          BY <5>2
      <4> QED
        BY <4>1, <4>2
    <3> QED
      BY <1>6, <2>2, <3>2
  <2>3. CASE k # L + 1 /\ k # L
    <3>1. k \in 1 .. L /\ k < L
      BY <1>1, <2>3
    <3>2. later[k] = st[k] /\ st[k].entry \in 1 .. Len(es) /\ st[k].entry # t
      <4>1. st[k].entry < t
        BY <1>2, <1>7, <3>1 DEF t
      <4> QED
        BY <1>1, <1>2, <1>6, <3>1, <4>1
    <3>3. more[later[k].entry].embeds = es[st[k].entry].embeds
      BY <1>4, <3>2
    <3> QED
      BY <1>7, <3>1, <3>2, <3>3
  <2> QED
    BY <2>1, <2>2, <2>3
<1>9. ASSUME NEW j \in 1 .. L + 1, NEW k \in 1 .. L + 1, j < k PROVE later[j].entry < later[k].entry
  <2>1. j \in 1 .. L
    BY <1>1, <1>9
  <2>2. later[j].entry = st[j].entry /\ st[j].entry \in 1 .. Len(es)
    BY <1>1, <1>2, <1>6, <2>1 DEF t
  <2>3. CASE k = L + 1
    BY <1>2, <1>6, <2>2, <2>3
  <2>4. CASE k # L + 1
    <3>1. k \in 1 .. L
      BY <1>1, <2>4
    <3>2. later[k].entry = st[k].entry
      BY <1>6, <3>1 DEF t
    <3> QED
      BY <1>7, <1>9, <2>1, <2>2, <3>1, <3>2
  <2> QED
    BY <2>3, <2>4
<1>10. Past(more, later)
  BY <1>6, <1>8, <1>9 DEF Past
<1> QED
  BY <1>3, <1>10 DEF own, K, t, L

LEMMA KeepsTree ==
    ASSUME IInv, TreeInv, [Next]_vars
    PROVE  TreeInv'
<1>1. entries \in Seq(EntryKind) /\ stack \in Seq(CallOf(entries)) /\ TypeOK /\ Standing
  BY DEF IInv, TypeOK, EntryKind, CallOf
<1>2. Tree(entries) /\ Past(entries, stack)
  BY DEF TreeInv
<1>3. CASE Include
  <2> DEFINE t == stack[Len(stack)].entry
             line == Line
             more == entries'
             later == stack'
  <2>1. Note \in Paths /\ step # "done" /\ Line # 0
    BY <1>3, Including DEF Include, Usable, AtEmbed
  <2>2. /\ Len(entries') = Len(entries) + 1 /\ Len(stack') = Len(stack) + 1
        /\ \A e \in 1 .. Len(entries) : /\ entries'[e].text = entries[e].text
                                        /\ entries'[e].place = entries[e].place
        /\ entries'[Len(entries) + 1].place = Place
        /\ \A n \in 1 .. Len(stack) : n # Len(stack) => stack'[n] = stack[n]
        /\ stack'[Len(stack)].entry = Top.entry /\ stack'[Len(stack)].line = Line + 1
        /\ stack'[Len(stack) + 1].entry = Len(entries) + 1
        /\ entries'[Top.entry].embeds = Append(entries[Top.entry].embeds, <<Line, Child>>)
        /\ \A e \in 1 .. Len(entries) : e # Top.entry => entries'[e].embeds = entries[e].embeds
        /\ entries'[Len(entries) + 1].embeds = << >>
    BY <1>1, <1>3, <2>1, IncludeKeeps
  <2>3. t \in 1 .. Len(entries) /\ line \in 1 .. Len(entries[t].text) /\ stack[Len(stack)].line <= line /\ line \in Nat
        /\ Len(stack) > 0
    <3>1. Text \in Texts /\ Top.line \in Nat \ {0} /\ Top = stack[Len(stack)] /\ Text = entries[t].text
      BY <2>1, ShapedHere
    <3>2. Line \in 1 .. Len(Text) /\ Top.line <= Line /\ Len(Text) \in Nat
      BY <2>1, <3>1, NextEmbedIs DEF Line, Texts
    <3>3. Top.entry \in 1 .. Len(entries) /\ Len(stack) \in Nat \ {0}
      BY <1>1, <2>1, Here
    <3> QED
      BY <3>1, <3>2, <3>3
  <2>4. OneIn(entries, more, t, line) /\ Top.entry = t
    BY <2>2 DEF OneIn, Top, Place, Child
  <2>5. /\ Len(later) = Len(stack) + 1 /\ \A n \in 1 .. Len(stack) : n # Len(stack) => later[n] = stack[n]
        /\ later[Len(stack)].entry = t /\ later[Len(stack)].line = line + 1
        /\ later[Len(stack) + 1].entry = Len(entries) + 1
    BY <2>2 DEF Top
  <2> HIDE DEF line, more, later
  <2>6. (\A n \in 1 .. Len(entries[t].embeds) : entries[t].embeds[n][1] < line) /\ Past(more, later)
    BY <1>1, <1>2, <2>3, <2>4, <2>5, CallInPast
  <2>7. Tree(more)
    <3> HIDE DEF t
    <3> QED
      BY <1>1, <1>2, <2>3, <2>4, <2>6, TreeGrows
  <2> QED
    BY <2>6, <2>7 DEF TreeInv, more, later
<1>4. CASE ~Include
  <2> DEFINE later == stack'
  <2>1. UNCHANGED entries /\ CallsGoOn(stack, later)
    BY <1>4, QuietOrInclude, KeepsCalls DEF Quiet
  <2> HIDE DEF later
  <2>2. Past(entries, later)
    BY <1>1, <1>2, <2>1, CallsPast
  <2> QED
    BY <1>2, <2>1, <2>2 DEF TreeInv, later
<1> QED
  BY <1>3, <1>4

LEMMA TreeInvariance == Spec => []TreeInv
<1>1. Init => TreeInv
  BY InitTree
<1>2. IInv /\ TreeInv /\ [Next]_vars => TreeInv'
  BY KeepsTree
<1> QED
  BY <1>1, <1>2, Invariance, PTL DEF Spec

-----------------------------------------------------------------------------
(* The splices *)

SpliceAt(e, f) == WithEmbeds(BlocksOf(e), Brought(e, f))

\* What an entry becomes depends on what it brings in and on nothing else.
LEMMA SpliceSame ==
    ASSUME NEW e, NEW f, NEW g,
           \A n \in 1 .. Len(entries[e].embeds) : f[entries[e].embeds[n][2]] = g[entries[e].embeds[n][2]]
    PROVE  SpliceAt(e, f) = SpliceAt(e, g)
<1>1. Brought(e, f) = Brought(e, g)
  BY DEF Brought
<1> QED
  BY <1>1 DEF SpliceAt

\* An entry brings in later ones: what they become is known before what it does.
LEMMA SplicesExist ==
    ASSUME Tree(entries), Len(entries) \in Nat
    PROVE  \E f : f = [e \in 1 .. Len(entries) |-> SpliceAt(e, f)]
<1> DEFINE N == Len(entries)
           From(m, f) == /\ f = [e \in 1 .. N |-> f[e]]
                         /\ \A e \in 1 .. N : e > N - m => f[e] = SpliceAt(e, f)
           D == {m \in 0 .. N : \E f : From(m, f)}
<1>1. 0 \in D
  <2> DEFINE f == [e \in 1 .. N |-> 0]
  <2>1. f = [e \in 1 .. N |-> f[e]] /\ \A e \in 1 .. N : ~(e > N - 0)
    OBVIOUS
  <2>2. \E h : From(0, h)
    <3> HIDE DEF f
    <3> QED
      BY <2>1
  <2> HIDE DEF From
  <2> QED
    BY <2>2
<1>2. ASSUME NEW m \in 1 .. N, m - 1 \in D PROVE m \in D
  <2>1. PICK f : From(m - 1, f)
    BY <1>2
  <2> DEFINE k == N - m + 1
             g == [e \in 1 .. N |-> IF e = k THEN SpliceAt(k, f) ELSE f[e]]
  <2>2. k \in 1 .. N /\ (\A e \in 1 .. N : e > N - m <=> (e = k \/ e > N - (m - 1)))
        /\ \A e \in 1 .. N : e > N - (m - 1) <=> e > k
    OBVIOUS
  <2>3. \A e \in 1 .. N : e > k => f[e] = SpliceAt(e, f)
    BY <2>1, <2>2
  <2>4. g = [e \in 1 .. N |-> g[e]] /\ g[k] = SpliceAt(k, f) /\ \A e \in 1 .. N : e # k => g[e] = f[e]
    BY <2>2
  <2> HIDE DEF g, k
  <2>5. ASSUME NEW e \in 1 .. N, e >= k PROVE SpliceAt(e, g) = SpliceAt(e, f)
    <3>1. ASSUME NEW n \in 1 .. Len(entries[e].embeds)
          PROVE  g[entries[e].embeds[n][2]] = f[entries[e].embeds[n][2]]
      <4>1. entries[e].embeds[n][2] \in e + 1 .. N
        BY DEF Tree, BringsIn
      <4>2. entries[e].embeds[n][2] \in 1 .. N /\ entries[e].embeds[n][2] # k
        BY <2>2, <2>5, <4>1
      <4> QED
        BY <2>4, <4>2
    <3> QED
      BY <3>1, SpliceSame
  <2>6. ASSUME NEW e \in 1 .. N, e > N - m PROVE g[e] = SpliceAt(e, g)
    <3>1. e >= k
      BY <2>2, <2>6
    <3>2. CASE e = k
      BY <2>4, <2>5, <3>1, <3>2
    <3>3. CASE e # k
      BY <2>2, <2>3, <2>4, <2>5, <2>6, <3>1, <3>3
    <3> QED
      BY <3>2, <3>3
  <2>7. From(m, g)
    BY <2>4, <2>6
  <2> HIDE DEF From
  <2> QED
    BY <2>7
<1>3. 0 .. N \subseteq D
  <2> HIDE DEF D, N
  <2>1. N \in Nat
    BY DEF N
  <2> QED
    BY <1>1, <1>2, <2>1, StepByStep
<1>4. PICK f : From(N, f)
  BY <1>3
<1>5. \A e \in 1 .. N : f[e] = SpliceAt(e, f)
  BY <1>4
<1>6. f = [e \in 1 .. N |-> SpliceAt(e, f)]
  BY <1>4, <1>5
<1> QED
  BY <1>6

LEMMA SplicedIs ==
    ASSUME Tree(entries), Len(entries) \in Nat
    PROVE  \E f : (\A e \in 1 .. Len(entries) : f[e] = SpliceAt(e, f)) /\ Spliced = f[1]
<1> DEFINE splice[e \in 1 .. Len(entries)] == WithEmbeds(BlocksOf(e), Brought(e, splice))
           IsSplice(f) == f = [e \in 1 .. Len(entries) |-> WithEmbeds(BlocksOf(e), Brought(e, f))]
<1>1. Spliced = splice[1]
  BY DEF Spliced
<1>2. splice = CHOOSE f : IsSplice(f)
  OBVIOUS
<1>3. \E f : IsSplice(f)
  BY SplicesExist DEF SpliceAt
<1>4. IsSplice(splice)
  <2> HIDE DEF splice, IsSplice
  <2> QED
    BY <1>2, <1>3
<1>5. \A e \in 1 .. Len(entries) : splice[e] = SpliceAt(e, splice)
  <2> HIDE DEF splice
  <2> QED
    BY <1>4 DEF SpliceAt
<1> HIDE DEF splice
<1> QED
  BY <1>1, <1>5

-----------------------------------------------------------------------------
(* One splice *)

Block == [entry : Nat, at : Nat, line : Nat]

LEMMA BlockFacts ==
    ASSUME NEW S \in Seq(Block)
    PROVE  /\ Len(S) \in Nat /\ DOMAIN S = 1 .. Len(S)
           /\ \A i \in 1 .. Len(S) : S[i] \in Block /\ S[i].entry \in Nat /\ S[i].at \in Nat /\ S[i].line \in Nat
<1> DEFINE B == Block
<1>1. S \in Seq(B)
  OBVIOUS
<1> HIDE DEF B
<1>2. Len(S) \in Nat /\ DOMAIN S = 1 .. Len(S) /\ \A i \in 1 .. Len(S) : S[i] \in B
  BY <1>1
<1> QED
  BY <1>2 DEF B, Block

LEMMA NotBeforeIs ==
    ASSUME NEW own \in Seq(Block), NEW line \in Nat, NEW from \in 1 .. Len(own) + 1
    PROVE  /\ NotBefore(line, own, from) \in from .. Len(own) + 1
           /\ \A m \in from .. NotBefore(line, own, from) - 1 : own[m].line < line
           /\ NotBefore(line, own, from) <= Len(own) => own[NotBefore(line, own, from)].line >= line
<1> DEFINE N == Len(own)
           late == {n \in from .. N + 1 : n <= N => own[n].line >= line}
           Is(n) == (\A m \in from .. n - 1 : own[m].line < line) /\ (n <= N => own[n].line >= line)
<1>1. N \in Nat /\ \A i \in 1 .. N : own[i].line \in Nat
  BY BlockFacts
<1> HIDE DEF N
<1>2. PICK n \in late : \A m \in late : n <= m
  <2>1. late \subseteq Nat /\ N + 1 \in late
    BY <1>1 DEF N
  <2> HIDE DEF late
  <2> QED
    BY <2>1, LeastNatural
<1>3. n \in from .. N + 1 /\ n <= N => own[n].line >= line
  BY <1>2
<1>4. Is(n)
  <2>1. n \in Nat /\ n \in from .. N + 1
    BY <1>1, <1>2
  <2>2. ASSUME NEW m \in from .. n - 1 PROVE own[m].line < line
    <3>1. m \in from .. N + 1 /\ m < n /\ m \in 1 .. N
      BY <1>1, <2>1 DEF N
    <3>2. m \notin late
      <4> HIDE DEF late
      <4> QED
        BY <1>2, <2>1, <3>1
    <3>3. ~(own[m].line >= line)
      BY <3>1, <3>2
    <3> QED
      BY <1>1, <3>1, <3>3
  <2> QED
    BY <1>2, <2>2
<1>5. n \in from .. N + 1
  BY <1>2
<1>6. NotBefore(line, own, from) = CHOOSE k \in from .. N + 1 : Is(k)
  BY DEF NotBefore, N
<1> HIDE DEF Is
<1>7. NotBefore(line, own, from) \in from .. N + 1 /\ Is(NotBefore(line, own, from))
  BY <1>4, <1>5, <1>6
<1> QED
  BY <1>7 DEF Is, N

Taking(own) == [out : Seq(Block), at : 1 .. Len(own) + 1]
Start == [out |-> << >>, at |-> 1]

\* What an entry's embeds bring, in their order.
Bringing(brought) ==
    /\ Len(brought) \in Nat
    /\ \A n \in 1 .. Len(brought) : brought[n].line \in Nat /\ brought[n].blocks \in Seq(Block)

LEMMA AtLineIs ==
    ASSUME NEW line \in Nat, NEW S \in Seq(Block)
    PROVE  /\ AtLine(line, S) \in Seq(Block) /\ Len(AtLine(line, S)) = Len(S)
           /\ \A i \in 1 .. Len(S) : /\ AtLine(line, S)[i].entry = S[i].entry
                                     /\ AtLine(line, S)[i].at = S[i].at /\ AtLine(line, S)[i].line = line
<1> DEFINE new == [i \in 1 .. Len(S) |-> [S[i] EXCEPT !.line = line]]
<1>1. Len(S) \in Nat /\ DOMAIN S = 1 .. Len(S) /\ \A i \in 1 .. Len(S) : S[i] \in Block
  BY BlockFacts
<1>2. AtLine(line, S) = new
  BY <1>1 DEF AtLine
<1>3. \A i \in 1 .. Len(S) : /\ [S[i] EXCEPT !.line = line] \in Block
                             /\ [S[i] EXCEPT !.line = line].entry = S[i].entry
                             /\ [S[i] EXCEPT !.line = line].at = S[i].at
                             /\ [S[i] EXCEPT !.line = line].line = line
  BY <1>1 DEF Block
<1>4. new \in Seq(Block) /\ Len(new) = Len(S)
  <2> DEFINE B == Block
  <2>1. \A i \in 1 .. Len(S) : new[i] \in B
    BY <1>3
  <2> HIDE DEF B
  <2>2. new \in [1 .. Len(S) -> B]
    BY <2>1
  <2>3. new \in Seq(B)
    BY <1>1, <2>2
  <2>4. \A f \in [1 .. Len(S) -> B] : Len(f) = Len(S)
    BY <1>1
  <2> HIDE DEF new
  <2> QED
    BY <2>2, <2>3, <2>4 DEF B
<1> QED
  BY <1>2, <1>3, <1>4

\* A part of a sequence of blocks.
LEMMA PartIs ==
    ASSUME NEW own \in Seq(Block), NEW i \in 1 .. Len(own) + 1, NEW j \in i - 1 .. Len(own)
    PROVE  /\ SubSeq(own, i, j) \in Seq(Block) /\ Len(SubSeq(own, i, j)) = j - i + 1
           /\ \A n \in 1 .. j - i + 1 : SubSeq(own, i, j)[n] = own[i + n - 1] /\ i + n - 1 \in i .. j
<1> DEFINE B == Block
<1>1. own \in Seq(B) /\ Len(own) \in Nat
  BY BlockFacts
<1> HIDE DEF B
<1>2. i \in Int /\ j \in Int /\ j >= i - 1
  BY <1>1
<1>3. \A k \in i .. j : own[k] \in B
  BY <1>1, <1>2
<1>4. /\ SubSeq(own, i, j) \in Seq(B)
      /\ Len(SubSeq(own, i, j)) = IF i <= j THEN j - i + 1 ELSE 0
      /\ \A k \in 1 .. j - i + 1 : SubSeq(own, i, j)[k] = own[i + k - 1]
  BY <1>2, <1>3, SubSeqProperties
<1>5. (IF i <= j THEN j - i + 1 ELSE 0) = j - i + 1
  BY <1>2
<1>6. \A n \in 1 .. j - i + 1 : i + n - 1 \in i .. j
  BY <1>2
<1> QED
  BY <1>4, <1>5, <1>6 DEF B

LEMMA JoinIs ==
    ASSUME NEW S \in Seq(Block), NEW T \in Seq(Block)
    PROVE  /\ S \o T \in Seq(Block) /\ Len(S \o T) = Len(S) + Len(T)
           /\ \A i \in 1 .. Len(S) : (S \o T)[i] = S[i]
           /\ \A i \in 1 .. Len(T) : (S \o T)[Len(S) + i] = T[i]
           /\ \A i \in 1 .. Len(S) + Len(T) : i \in 1 .. Len(S) \/ i - Len(S) \in 1 .. Len(T)
<1> DEFINE B == Block
<1>1. S \in Seq(B) /\ T \in Seq(B) /\ Len(S) \in Nat /\ Len(T) \in Nat
  BY BlockFacts
<1> HIDE DEF B
<1>2. /\ S \o T \in Seq(B) /\ Len(S \o T) = Len(S) + Len(T)
      /\ \A i \in 1 .. Len(S) + Len(T) : (S \o T)[i] = IF i <= Len(S) THEN S[i] ELSE T[i - Len(S)]
  BY <1>1, ConcatProperties
<1>3. ASSUME NEW i \in 1 .. Len(S) PROVE (S \o T)[i] = S[i]
  <2>1. i \in 1 .. Len(S) + Len(T) /\ i <= Len(S)
    BY <1>1
  <2> QED
    BY <1>2, <2>1
<1>4. ASSUME NEW i \in 1 .. Len(T) PROVE (S \o T)[Len(S) + i] = T[i]
  <2>1. Len(S) + i \in 1 .. Len(S) + Len(T) /\ ~(Len(S) + i <= Len(S)) /\ Len(S) + i - Len(S) = i
    BY <1>1
  <2> QED
    BY <1>2, <2>1
<1>5. \A i \in 1 .. Len(S) + Len(T) : i \in 1 .. Len(S) \/ i - Len(S) \in 1 .. Len(T)
  BY <1>1
<1> QED
  BY <1>2, <1>3, <1>4, <1>5 DEF B

\* One embed's step, with the place it goes on from.
TakesTo(own, state, line, blocks, later, next) ==
    /\ next \in state.at .. Len(own) + 1
    /\ \A m \in state.at .. next - 1 : own[m].line < line
    /\ next <= Len(own) => own[next].line >= line
    /\ later.at = next
    /\ later.out = state.out \o SubSeq(own, state.at, next - 1) \o AtLine(line, blocks)

LEMMA TakeIs ==
    ASSUME NEW own \in Seq(Block), NEW state \in Taking(own), NEW line \in Nat, NEW blocks \in Seq(Block)
    PROVE  /\ TakeEmbed(own, state, line, blocks) \in Taking(own)
           /\ \E next : TakesTo(own, state, line, blocks, TakeEmbed(own, state, line, blocks), next)
<1> DEFINE next == NotBefore(line, own, state.at)
           taken == TakeEmbed(own, state, line, blocks)
<1>1. state.out \in Seq(Block) /\ state.at \in 1 .. Len(own) + 1 /\ Len(own) \in Nat
  BY BlockFacts DEF Taking
<1>2. /\ next \in state.at .. Len(own) + 1
      /\ \A m \in state.at .. next - 1 : own[m].line < line
      /\ next <= Len(own) => own[next].line >= line
  BY <1>1, NotBeforeIs
<1>3. taken = [out |-> state.out \o SubSeq(own, state.at, next - 1) \o AtLine(line, blocks), at |-> next]
  BY DEF TakeEmbed
<1> HIDE DEF next, taken
<1>4. taken.at = next /\ taken.out = state.out \o SubSeq(own, state.at, next - 1) \o AtLine(line, blocks)
  BY <1>3
<1>5. next - 1 \in state.at - 1 .. Len(own) /\ next \in 1 .. Len(own) + 1
  BY <1>1, <1>2
<1>6. SubSeq(own, state.at, next - 1) \in Seq(Block) /\ AtLine(line, blocks) \in Seq(Block)
  BY <1>1, <1>5, PartIs, AtLineIs
<1>7. state.out \o SubSeq(own, state.at, next - 1) \o AtLine(line, blocks) \in Seq(Block)
  BY <1>1, <1>6, JoinIs
<1>8. taken \in Taking(own)
  BY <1>3, <1>5, <1>7 DEF Taking
<1>9. TakesTo(own, state, line, blocks, taken, next)
  BY <1>2, <1>4 DEF TakesTo
<1> HIDE DEF TakesTo
<1> QED
  BY <1>8, <1>9 DEF taken

\* The states of the loop over an entry's embeds.
LEMMA TakenIs ==
    ASSUME NEW own \in Seq(Block), NEW brought, Bringing(brought)
    PROVE  \E taken \in [0 .. Len(brought) -> Taking(own)] :
              /\ taken[0] = Start
              /\ \A n \in 1 .. Len(brought) : taken[n] = TakeEmbed(own, taken[n - 1], brought[n].line, brought[n].blocks)
              /\ WithEmbeds(own, brought) = taken[Len(brought)].out \o SubSeq(own, taken[Len(brought)].at, Len(own))
<1> DEFINE K == Len(brought)
           States == Taking(own)
           Next2(s, n) == TakeEmbed(own, s, brought[n].line, brought[n].blocks)
           go == [n \in 1 .. K |-> [s \in States |-> Next2(s, n)]]
           IsTaken(f) == f = [n \in 0 .. K |-> IF n = 0 THEN Start ELSE Next2(f[n - 1], n)]
           taken[n \in 0 .. K] == IF n = 0 THEN [out |-> << >>, at |-> 1]
                                  ELSE TakeEmbed(own, taken[n - 1], brought[n].line, brought[n].blocks)
<1>1. K \in Nat /\ Len(own) \in Nat
  BY BlockFacts DEF Bringing
<1>2. Start \in States
  <2>1. 1 \in 1 .. Len(own) + 1 /\ << >> \in Seq(Block)
    BY <1>1
  <2> QED
    BY <2>1 DEF Taking, Start
<1>3. \A n \in 1 .. K : \A s \in States : Next2(s, n) \in States
  BY TakeIs DEF Bringing
<1>4. WithEmbeds(own, brought) = taken[K].out \o SubSeq(own, taken[K].at, Len(own))
  BY DEF WithEmbeds
<1>5. taken = CHOOSE f : IsTaken(f)
  BY DEF Start
<1> HIDE DEF taken, K, States
<1>6. \E f : IsTaken(f)
  <2> HIDE DEF Next2
  <2>1. go \in [1 .. K -> [States -> States]] /\ \A n \in 1 .. K : \A s \in States : go[n][s] = Next2(s, n)
    BY <1>3
  <2> HIDE DEF go
  <2>5. \E f : AreSteps(K, States, Start, go, f)
    BY <1>1, <1>2, <2>1, StepsExist
  <2>2. PICK f : AreSteps(K, States, Start, go, f)
    BY <2>5
  <2>6. f \in [0 .. K -> States] /\ f[0] = Start /\ \A n \in 1 .. K : f[n] = go[n][f[n - 1]]
    BY <2>2 DEF AreSteps
  <2>3. ASSUME NEW n \in 0 .. K PROVE f[n] = IF n = 0 THEN Start ELSE Next2(f[n - 1], n)
    <3>1. CASE n = 0
      BY <2>6, <3>1
    <3>2. CASE n # 0
      <4>1. n \in 1 .. K /\ n - 1 \in 0 .. K
        BY <1>1, <3>2
      <4>2. f[n - 1] \in States /\ f[n] = go[n][f[n - 1]]
        BY <2>6, <4>1
      <4> QED
        BY <2>1, <3>2, <4>1, <4>2
    <3> QED
      BY <3>1, <3>2
  <2>4. IsTaken(f)
    BY <2>6, <2>3
  <2> HIDE DEF IsTaken
  <2> QED
    BY <2>4
<1>7. IsTaken(taken)
  <2> HIDE DEF IsTaken
  <2> QED
    BY <1>5, <1>6
<1>8. taken[0] = Start /\ \A n \in 1 .. K : taken[n] = Next2(taken[n - 1], n)
  <2> HIDE DEF Next2
  <2>1. 0 \in 0 .. K /\ \A n \in 1 .. K : n \in 0 .. K /\ n # 0
    BY <1>1
  <2> QED
    BY <1>7, <2>1
<1>9. \A n \in 0 .. K : taken[n] \in States
  <2> DEFINE D == {n \in 0 .. K : taken[n] \in States}
  <2> HIDE DEF Next2
  <2>1. 0 \in D
    BY <1>1, <1>2, <1>8
  <2>2. \A n \in 1 .. K : n - 1 \in D => n \in D
    BY <1>1, <1>3, <1>8
  <2>3. 0 .. K \subseteq D
    <3> HIDE DEF D
    <3> QED
      BY <1>1, <2>1, <2>2, StepByStep
  <2> QED
    BY <2>3
<1>10. taken \in [0 .. K -> States]
  BY <1>7, <1>9
<1> QED
  BY <1>4, <1>8, <1>10 DEF K, States

-----------------------------------------------------------------------------
(* Blocks in the order of reading *)

AtOf(b) == Append(entries[b.entry].place, b.at)
IsBlock(b) == b.entry \in 1 .. Len(entries) /\ b.at \in BlockStarts(b.entry)

\* A block in a text at p, at or inside its line.
Under(p, b) ==
    /\ Len(p) < Len(AtOf(b)) /\ \A i \in 1 .. Len(p) : AtOf(b)[i] = p[i]
    /\ AtOf(b)[Len(p) + 1] = b.line

\* Blocks of a text at p, from one line to another.
Run(p, low, high, S) ==
    /\ S \in Seq(Block)
    /\ \A i \in 1 .. Len(S) : IsBlock(S[i]) /\ Under(p, S[i]) /\ low <= S[i].line /\ S[i].line <= high
    /\ \A i, j \in 1 .. Len(S) : i < j => Earlier(AtOf(S[i]), AtOf(S[j]))

Held(S) == {[entry |-> S[n].entry, at |-> S[n].at] : n \in DOMAIN S}

LEMMA StartsFacts ==
    ASSUME entries \in Seq(EntryKind), NEW e \in 1 .. Len(entries)
    PROVE  /\ Len(entries[e].text) \in Nat /\ BlockStarts(e) \subseteq 1 .. Len(entries[e].text)
           /\ IsFiniteSet(BlockStarts(e)) /\ BlockStarts(e) \subseteq Nat
           /\ \A n \in BlockStarts(e) : n \notin EmbedLines(e)
<1>1. Len(entries[e].text) \in Nat
  BY EntryFacts
<1>2. BlockStarts(e) \subseteq 1 .. Len(entries[e].text)
  BY DEF BlockStarts
<1>3. IsFiniteSet(1 .. Len(entries[e].text))
  <2> DEFINE n == Len(entries[e].text)
  <2>1. n \in Int /\ 1 \in Int
    BY <1>1
  <2> HIDE DEF n
  <2>2. IsFiniteSet(1 .. n)
    BY <2>1, FS_Interval
  <2> QED
    BY <2>2 DEF n
<1>4. IsFiniteSet(BlockStarts(e))
  BY <1>2, <1>3, FS_Subset
<1>5. \A n \in BlockStarts(e) : n \notin EmbedLines(e)
  BY DEF BlockStarts, HoldsText
<1>6. BlockStarts(e) \subseteq Nat
  BY <1>1, <1>2
<1> QED
  BY <1>1, <1>2, <1>4, <1>5, <1>6

LEMMA AtWay ==
    ASSUME entries \in Seq(EntryKind), NEW b, IsBlock(b)
    PROVE  /\ AtOf(b) \in Way /\ entries[b.entry].place \in Way /\ b.at \in Nat
           /\ Len(AtOf(b)) = Len(entries[b.entry].place) + 1
           /\ \A i \in 1 .. Len(entries[b.entry].place) : AtOf(b)[i] = entries[b.entry].place[i]
           /\ AtOf(b)[Len(entries[b.entry].place) + 1] = b.at
<1>1. entries[b.entry].place \in Way /\ b.at \in Nat
  <2>1. b.entry \in 1 .. Len(entries) /\ b.at \in BlockStarts(b.entry)
    BY DEF IsBlock
  <2> DEFINE e == b.entry
  <2> HIDE DEF e
  <2>2. e \in 1 .. Len(entries) /\ b.at \in BlockStarts(e)
    BY <2>1 DEF e
  <2>3. entries[e].place \in Way /\ b.at \in Nat
    BY <2>2, EntryFacts, StartsFacts
  <2> QED
    BY <2>3 DEF e
<1> QED
  BY <1>1, Longer DEF AtOf

LEMMA ApartIsEarlier ==
    ASSUME entries \in Seq(EntryKind), NEW p \in Way, NEW b, NEW c, IsBlock(b), IsBlock(c),
           Under(p, b), Under(p, c), b.line < c.line
    PROVE  Earlier(AtOf(b), AtOf(c))
<1>1. AtOf(b) \in Way /\ AtOf(c) \in Way /\ Len(p) \in Nat
  BY AtWay, WayFacts
<1>2. Len(AtOf(b)) \in Nat /\ Len(AtOf(c)) \in Nat
  BY <1>1, WayFacts
<1>3. DiffersAt(AtOf(b), AtOf(c), Len(p) + 1)
  <2>1. Len(p) + 1 \in 1 .. Len(AtOf(c)) /\ Len(p) + 1 <= Len(AtOf(b))
    BY <1>1, <1>2 DEF Under
  <2>2. \A i \in 1 .. Len(p) : i <= Len(AtOf(b)) /\ AtOf(b)[i] = AtOf(c)[i]
    BY <1>1, <1>2 DEF Under
  <2>3. AtOf(b)[Len(p) + 1] < AtOf(c)[Len(p) + 1]
    BY DEF Under
  <2>4. Len(p) + 1 - 1 = Len(p)
    BY <1>1
  <2> QED
    BY <2>1, <2>2, <2>3, <2>4 DEF DiffersAt
<1> QED
  BY <1>1, <1>3, EarlierAt

LEMMA HeldJoin ==
    ASSUME NEW S \in Seq(Block), NEW T \in Seq(Block)
    PROVE  Held(S \o T) = Held(S) \union Held(T)
<1> DEFINE J == S \o T
           m == Len(S)
           n == Len(T)
<1>1. /\ J \in Seq(Block) /\ Len(J) = m + n
      /\ \A i \in 1 .. m : J[i] = S[i]
      /\ \A i \in 1 .. n : J[m + i] = T[i]
      /\ \A i \in 1 .. m + n : i \in 1 .. m \/ i - m \in 1 .. n
  BY JoinIs
<1>2. DOMAIN S = 1 .. m /\ DOMAIN T = 1 .. n /\ m \in Nat /\ n \in Nat
  BY BlockFacts
<1>3. DOMAIN J = 1 .. m + n
  BY <1>1, BlockFacts
<1> HIDE DEF J, m, n
<1>4. ASSUME NEW x \in Held(J) PROVE x \in Held(S) \union Held(T)
  <2>1. PICK i \in 1 .. m + n : x = [entry |-> J[i].entry, at |-> J[i].at]
    BY <1>3 DEF Held
  <2>2. CASE i \in 1 .. m
    BY <1>1, <1>2, <2>1, <2>2 DEF Held
  <2>3. CASE i - m \in 1 .. n
    <3>1. J[m + (i - m)] = T[i - m] /\ m + (i - m) = i
      BY <1>1, <1>2, <2>3
    <3> QED
      BY <1>2, <2>1, <2>3, <3>1 DEF Held
  <2> QED
    BY <1>1, <2>2, <2>3
<1>5. ASSUME NEW x \in Held(S) PROVE x \in Held(J)
  <2>1. PICK i \in 1 .. m : x = [entry |-> S[i].entry, at |-> S[i].at]
    BY <1>2 DEF Held
  <2>2. i \in 1 .. m + n /\ J[i] = S[i]
    BY <1>1, <1>2
  <2> QED
    BY <1>3, <2>1, <2>2 DEF Held
<1>6. ASSUME NEW x \in Held(T) PROVE x \in Held(J)
  <2>1. PICK i \in 1 .. n : x = [entry |-> T[i].entry, at |-> T[i].at]
    BY <1>2 DEF Held
  <2>2. m + i \in 1 .. m + n /\ J[m + i] = T[i]
    BY <1>1, <1>2
  <2> QED
    BY <1>3, <2>1, <2>2 DEF Held
<1> QED
  BY <1>4, <1>5, <1>6 DEF J

\* A run goes on with one of later lines.
LEMMA RunJoin ==
    ASSUME entries \in Seq(EntryKind), NEW p \in Way, NEW a \in Nat, NEW b \in Nat, NEW c \in Nat, NEW d \in Nat,
           NEW S, NEW T, Run(p, a, b, S), Run(p, c, d, T), b < c, a <= c, b <= d
    PROVE  Run(p, a, d, S \o T)
<1> DEFINE J == S \o T
           m == Len(S)
           n == Len(T)
           Good(x) == IsBlock(x) /\ Under(p, x) /\ a <= x.line /\ x.line <= d
<1>0. S \in Seq(Block) /\ T \in Seq(Block)
  BY DEF Run
<1>1. /\ J \in Seq(Block) /\ Len(J) = m + n
      /\ \A i \in 1 .. m : J[i] = S[i]
      /\ \A i \in 1 .. n : J[m + i] = T[i]
      /\ \A i \in 1 .. m + n : i \in 1 .. m \/ i - m \in 1 .. n
  BY <1>0, JoinIs
<1>2. m \in Nat /\ n \in Nat /\ (\A i \in 1 .. m : S[i].line \in Nat) /\ (\A i \in 1 .. n : T[i].line \in Nat)
  BY <1>0, BlockFacts
<1>3. \A i \in 1 .. m : Good(S[i]) /\ S[i].line <= b
  BY <1>2 DEF Run
<1>4. \A i \in 1 .. n : Good(T[i]) /\ c <= T[i].line
  BY <1>2 DEF Run
<1>5. (\A i, j \in 1 .. m : i < j => Earlier(AtOf(S[i]), AtOf(S[j])))
      /\ (\A i, j \in 1 .. n : i < j => Earlier(AtOf(T[i]), AtOf(T[j])))
  BY DEF Run
<1>6. ASSUME NEW i \in 1 .. m, NEW j \in 1 .. n PROVE Earlier(AtOf(S[i]), AtOf(T[j]))
  <2>1. S[i].line < T[j].line
    BY <1>2, <1>3, <1>4
  <2> QED
    BY <1>3, <1>4, <2>1, ApartIsEarlier
<1> HIDE DEF J, m, n
<1>7. ASSUME NEW i \in 1 .. m + n PROVE Good(J[i])
  <2> HIDE DEF Good
  <2>1. CASE i \in 1 .. m
    BY <1>1, <1>3, <2>1
  <2>2. CASE i - m \in 1 .. n
    <3>1. J[m + (i - m)] = T[i - m] /\ m + (i - m) = i
      BY <1>1, <1>2, <2>2
    <3> QED
      BY <1>4, <2>2, <3>1
  <2> QED
    BY <1>1, <2>1, <2>2
<1>8. ASSUME NEW i \in 1 .. m + n, NEW j \in 1 .. m + n, i < j PROVE Earlier(AtOf(J[i]), AtOf(J[j]))
  <2>1. CASE j \in 1 .. m
    <3>1. i \in 1 .. m
      BY <1>2, <1>8, <2>1
    <3>2. J[i] = S[i] /\ J[j] = S[j]
      BY <1>1, <2>1, <3>1
    <3> QED
      BY <1>5, <1>8, <2>1, <3>1, <3>2
  <2>2. CASE j - m \in 1 .. n
    <3>1. J[j] = T[j - m]
      <4>1. J[m + (j - m)] = T[j - m] /\ m + (j - m) = j
        BY <1>1, <1>2, <2>2
      <4> QED
        BY <4>1
    <3>2. CASE i \in 1 .. m
      BY <1>1, <1>6, <2>2, <3>1, <3>2
    <3>3. CASE i - m \in 1 .. n
      <4>1. J[m + (i - m)] = T[i - m] /\ m + (i - m) = i /\ i - m < j - m
        BY <1>1, <1>2, <1>8, <3>3
      <4> QED
        BY <1>5, <2>2, <3>1, <3>3, <4>1
    <3> QED
      BY <1>1, <3>2, <3>3
  <2> QED
    BY <1>1, <2>1, <2>2
<1> QED
  BY <1>1, <1>7, <1>8 DEF Run, J

\* An embed's blocks keep their order, at its line of the text around.
LEMMA RunMoved ==
    ASSUME entries \in Seq(EntryKind), NEW p \in Way, NEW l \in Nat, NEW a, NEW b, NEW S, Run(Append(p, l), a, b, S)
    PROVE  Run(p, l, l, AtLine(l, S)) /\ Held(AtLine(l, S)) = Held(S)
<1> DEFINE M == AtLine(l, S)
           q == Append(p, l)
<1>1. S \in Seq(Block)
  BY DEF Run
<1>2. /\ M \in Seq(Block) /\ Len(M) = Len(S)
      /\ \A i \in 1 .. Len(S) : M[i].entry = S[i].entry /\ M[i].at = S[i].at /\ M[i].line = l
  BY <1>1, AtLineIs
<1>3. DOMAIN M = 1 .. Len(S) /\ DOMAIN S = 1 .. Len(S) /\ Len(S) \in Nat
  BY <1>1, <1>2, BlockFacts
<1>4. Len(p) \in Nat /\ Len(q) = Len(p) + 1 /\ (\A i \in 1 .. Len(p) : q[i] = p[i]) /\ q[Len(p) + 1] = l
  BY Longer, WayFacts
<1> HIDE DEF M
<1>5. ASSUME NEW i \in 1 .. Len(S) PROVE AtOf(M[i]) = AtOf(S[i]) /\ IsBlock(M[i])
  <2>1. IsBlock(S[i])
    BY DEF Run
  <2> QED
    BY <1>2, <2>1 DEF AtOf, IsBlock
<1>6. ASSUME NEW i \in 1 .. Len(S) PROVE Under(p, M[i])
  <2> DEFINE w == AtOf(S[i])
  <2>1. Len(q) < Len(w) /\ \A k \in 1 .. Len(q) : w[k] = q[k]
    BY DEF Run, Under
  <2>2. AtOf(S[i]) \in Way
    BY AtWay DEF Run
  <2> HIDE DEF w, q
  <2>3. Len(w) \in Nat
    BY <2>2, WayFacts DEF w
  <2>4. Len(p) < Len(w) /\ (\A k \in 1 .. Len(p) : w[k] = p[k]) /\ w[Len(p) + 1] = l
    BY <1>4, <2>1, <2>3
  <2>5. AtOf(M[i]) = w /\ M[i].line = l
    BY <1>2, <1>5 DEF w
  <2> QED
    BY <2>4, <2>5 DEF Under
<1>7. \A i, j \in 1 .. Len(S) : i < j => Earlier(AtOf(M[i]), AtOf(M[j]))
  BY <1>5 DEF Run
<1>8. Run(p, l, l, M)
  BY <1>2, <1>5, <1>6, <1>7 DEF Run
<1>9. Held(M) = Held(S)
  BY <1>2, <1>3 DEF Held
<1> QED
  BY <1>8, <1>9 DEF M

-----------------------------------------------------------------------------
(* An entry's own blocks *)

LEMMA OwnIs ==
    ASSUME entries \in Seq(EntryKind), NEW e \in 1 .. Len(entries)
    PROVE  /\ BlocksOf(e) \in Seq(Block)
           /\ \A n \in 1 .. Len(BlocksOf(e)) :
                /\ BlocksOf(e)[n].entry = e /\ BlocksOf(e)[n].at = BlocksOf(e)[n].line
                /\ BlocksOf(e)[n].at \in BlockStarts(e)
           /\ \A m, n \in 1 .. Len(BlocksOf(e)) : m < n => BlocksOf(e)[m].line < BlocksOf(e)[n].line
           /\ \A x \in BlockStarts(e) : \E n \in 1 .. Len(BlocksOf(e)) : BlocksOf(e)[n].at = x
<1> DEFINE E == BlockStarts(e)
           C == Cardinality(E)
           N == Len(entries[e].text)
           Which(n) == CHOOSE m \in E : Cardinality({k \in E : k <= m}) = n
           At(n) == [entry |-> e, at |-> Which(n), line |-> Which(n)]
           own == BlocksOf(e)
<1>1. N \in Nat /\ IsFiniteSet(E) /\ E \subseteq 1 .. N /\ E \subseteq Nat /\ C \in Nat /\ e \in Nat
  BY StartsFacts, EntryFacts, FS_CardinalityType
<1>2. own = [n \in 1 .. C |-> At(n)]
  BY DEF BlocksOf
<1> HIDE DEF E, N, C
<1>3. ASSUME NEW n \in 1 .. C PROVE Which(n) \in E /\ Rank(E, Which(n)) = n
  <2> DEFINE Is(m) == Rank(E, m) = n
  <2>1. Which(n) = CHOOSE m \in E : Is(m)
    BY DEF Rank, UpTo
  <2>2. \E m \in E : Is(m)
    BY <1>1, RankIs DEF C
  <2> HIDE DEF Which, Is
  <2>3. Which(n) \in E /\ Is(Which(n))
    BY <2>1, <2>2
  <2> QED
    BY <2>3 DEF Is
<1> HIDE DEF Which
<1>4. \A n \in 1 .. C : At(n) \in Block /\ At(n).entry = e /\ At(n).at = Which(n) /\ At(n).line = Which(n)
  BY <1>1, <1>3 DEF Block
<1>5. own \in Seq(Block) /\ Len(own) = C /\ \A n \in 1 .. C : own[n] = At(n)
  <2> DEFINE B == Block
  <2>1. \A n \in 1 .. C : At(n) \in B
    BY <1>4
  <2> HIDE DEF B, At
  <2>2. own \in [1 .. C -> B] /\ \A n \in 1 .. C : own[n] = At(n)
    BY <1>2, <2>1
  <2>3. \A f \in [1 .. C -> B] : f \in Seq(B) /\ Len(f) = C
    BY <1>1
  <2> HIDE DEF own
  <2> QED
    BY <2>2, <2>3 DEF B
<1> HIDE DEF At, own
<1>6. ASSUME NEW m \in 1 .. C, NEW n \in 1 .. C, m < n PROVE Which(m) < Which(n)
  <2>1. Which(m) \in Nat /\ Which(n) \in Nat /\ Which(m) \in E /\ Which(n) \in E
    BY <1>1, <1>3
  <2>2. Which(m) # Which(n)
    BY <1>1, <1>3, <1>6
  <2>3. ASSUME Which(n) < Which(m) PROVE FALSE
    <3>1. Rank(E, Which(n)) < Rank(E, Which(m))
      BY <1>1, <2>1, <2>3, RankGrows
    <3> QED
      BY <1>1, <1>3, <1>6, <3>1
  <2> QED
    BY <2>1, <2>2, <2>3
<1>7. ASSUME NEW x \in E PROVE \E n \in 1 .. C : Which(n) = x
  <2> DEFINE n == Rank(E, x)
  <2>1. n \in 1 .. C
    <3>1. n \in Nat /\ n <= C
      BY <1>1, RankType DEF C
    <3>2. x \in UpTo(E, x)
      BY <1>1 DEF UpTo
    <3>3. n # 0
      BY <1>1, <3>2, RankType, FS_EmptySet DEF Rank
    <3> HIDE DEF n
    <3> QED
      BY <3>1, <3>3
  <2>2. Which(n) = x
    <3>1. Which(n) \in E /\ Rank(E, Which(n)) = Rank(E, x)
      BY <1>3, <2>1
    <3> HIDE DEF n
    <3> QED
      BY <1>1, <3>1, RankOne
  <2> HIDE DEF n
  <2> QED
    BY <2>1, <2>2
<1>8. \A n \in 1 .. Len(own) : own[n].entry = e /\ own[n].at = own[n].line /\ own[n].at \in E
  BY <1>3, <1>4, <1>5
<1>9. \A m, n \in 1 .. Len(own) : m < n => own[m].line < own[n].line
  BY <1>4, <1>5, <1>6
<1>10. \A x \in E : \E n \in 1 .. Len(own) : own[n].at = x
  BY <1>4, <1>5, <1>7
<1> QED
  BY <1>5, <1>8, <1>9, <1>10 DEF own, E

\* Some of them, one after another.
LEMMA OwnRun ==
    ASSUME entries \in Seq(EntryKind), NEW e \in 1 .. Len(entries), NEW i \in 1 .. Len(BlocksOf(e)) + 1,
           NEW j \in i - 1 .. Len(BlocksOf(e)), NEW low \in Nat, NEW high \in Nat,
           \A n \in i .. j : low <= BlocksOf(e)[n].line /\ BlocksOf(e)[n].line <= high
    PROVE  /\ Run(entries[e].place, low, high, SubSeq(BlocksOf(e), i, j))
           /\ \A n \in i .. j : [entry |-> e, at |-> BlocksOf(e)[n].at] \in Held(SubSeq(BlocksOf(e), i, j))
<1> DEFINE own == BlocksOf(e)
           S == SubSeq(own, i, j)
           p == entries[e].place
<1>1. /\ own \in Seq(Block)
      /\ \A n \in 1 .. Len(own) : own[n].entry = e /\ own[n].at = own[n].line /\ own[n].at \in BlockStarts(e)
      /\ \A m, n \in 1 .. Len(own) : m < n => own[m].line < own[n].line
  BY OwnIs
<1>2. Len(own) \in Nat /\ (\A n \in i .. j : low <= own[n].line /\ own[n].line <= high)
      /\ i \in 1 .. Len(own) + 1 /\ j \in i - 1 .. Len(own)
  BY <1>1, BlockFacts
<1> HIDE DEF own
<1>3. /\ S \in Seq(Block) /\ Len(S) = j - i + 1
      /\ \A n \in 1 .. j - i + 1 : S[n] = own[i + n - 1] /\ i + n - 1 \in i .. j
  BY <1>1, <1>2, PartIs
<1> HIDE DEF S
<1>4. \A n \in i .. j : n \in 1 .. Len(own)
  BY <1>2
<1>5. p \in Way /\ Len(p) \in Nat
  BY EntryFacts, WayFacts
<1>6. ASSUME NEW n \in i .. j PROVE IsBlock(own[n]) /\ Under(p, own[n])
  <2>1. own[n].entry = e /\ own[n].at = own[n].line /\ own[n].at \in BlockStarts(e)
    BY <1>1, <1>4
  <2>2. IsBlock(own[n])
    BY <2>1 DEF IsBlock
  <2>3. Len(AtOf(own[n])) = Len(p) + 1 /\ (\A k \in 1 .. Len(p) : AtOf(own[n])[k] = p[k])
        /\ AtOf(own[n])[Len(p) + 1] = own[n].line
    BY <2>1, <2>2, AtWay
  <2> QED
    BY <1>5, <2>2, <2>3 DEF Under
<1>7. \A n \in 1 .. Len(S) : IsBlock(S[n]) /\ Under(p, S[n]) /\ low <= S[n].line /\ S[n].line <= high
  BY <1>2, <1>3, <1>6
<1>8. ASSUME NEW m \in 1 .. Len(S), NEW n \in 1 .. Len(S), m < n PROVE Earlier(AtOf(S[m]), AtOf(S[n]))
  <2>1. i + m - 1 < i + n - 1 /\ i + m - 1 \in i .. j /\ i + n - 1 \in i .. j
    BY <1>2, <1>3, <1>8
  <2>2. S[m].line < S[n].line
    BY <1>1, <1>3, <1>4, <2>1
  <2> QED
    BY <1>5, <1>7, <2>2, ApartIsEarlier
<1>9. Run(p, low, high, S)
  BY <1>3, <1>7, <1>8 DEF Run
<1>10. ASSUME NEW n \in i .. j PROVE [entry |-> e, at |-> own[n].at] \in Held(S)
  <2>1. n - i + 1 \in 1 .. Len(S) /\ i + (n - i + 1) - 1 = n /\ DOMAIN S = 1 .. Len(S)
    BY <1>2, <1>3, BlockFacts
  <2>2. S[n - i + 1] = own[n] /\ own[n].entry = e
    BY <1>1, <1>3, <1>4, <2>1
  <2> QED
    BY <2>1, <2>2 DEF Held
<1> QED
  BY <1>9, <1>10 DEF own, S

-----------------------------------------------------------------------------
(* The loop of SpliceEmbeds *)

\* The entry's splice, as far as line high, from what its embeds become.
Merged(e, f, own, n, high, state) ==
    /\ Run(entries[e].place, 1, high, state.out)
    /\ \A m \in 1 .. state.at - 1 : [entry |-> e, at |-> own[m].at] \in Held(state.out)
    /\ \A m \in 1 .. n : Held(f[entries[e].embeds[m][2]]) \subseteq Held(state.out)
    /\ \A m \in state.at .. Len(own) : own[m].line > high

\* One embed more.
LEMMA MergedNext ==
    ASSUME entries \in Seq(EntryKind), Tree(entries), NEW e \in 1 .. Len(entries), NEW f,
           NEW n \in 1 .. Len(entries[e].embeds), NEW high \in Nat, high < entries[e].embeds[n][1],
           NEW state \in Taking(BlocksOf(e)), Merged(e, f, BlocksOf(e), n - 1, high, state),
           NEW a, NEW b, Run(entries[entries[e].embeds[n][2]].place, a, b, f[entries[e].embeds[n][2]])
    PROVE  Merged(e, f, BlocksOf(e), n, entries[e].embeds[n][1],
                  TakeEmbed(BlocksOf(e), state, entries[e].embeds[n][1], f[entries[e].embeds[n][2]]))
<1> DEFINE own == BlocksOf(e)
           P == entries[e].place
           l == entries[e].embeds[n][1]
           c == entries[e].embeds[n][2]
           later == TakeEmbed(own, state, l, f[c])
           K == Len(entries[e].embeds)
<1>1. /\ P \in Way /\ K \in Nat /\ l \in Nat /\ l \in 1 .. Len(entries[e].text) /\ Len(entries[e].text) \in Nat
      /\ entries[c].place = Append(P, l) /\ l \in EmbedLines(e) /\ high < l
  <2>1. /\ P \in Way /\ K \in Nat /\ Len(entries[e].text) \in Nat
    BY EntryFacts
  <2>2. BringsIn(entries, e, entries[e].embeds[n])
    BY DEF Tree
  <2>3. l \in 1 .. Len(entries[e].text) /\ entries[c].place = Append(P, l)
    BY <2>2 DEF BringsIn
  <2>4. l \in EmbedLines(e)
    BY DEF EmbedLines
  <2> QED
    BY <2>1, <2>3, <2>4
<1>2. /\ own \in Seq(Block) /\ Len(own) \in Nat
      /\ \A m \in 1 .. Len(own) : own[m].entry = e /\ own[m].at = own[m].line /\ own[m].at \in BlockStarts(e) /\ own[m].line \in Nat
      /\ \A i, j \in 1 .. Len(own) : i < j => own[i].line < own[j].line
  BY OwnIs, BlockFacts
<1>3. /\ Run(P, 1, high, state.out)
      /\ \A m \in 1 .. state.at - 1 : [entry |-> e, at |-> own[m].at] \in Held(state.out)
      /\ \A m \in 1 .. n - 1 : Held(f[entries[e].embeds[m][2]]) \subseteq Held(state.out)
      /\ \A m \in state.at .. Len(own) : own[m].line > high
      /\ state.at \in 1 .. Len(own) + 1 /\ state.out \in Seq(Block)
  BY DEF Merged, Taking
<1>4. Run(Append(P, l), a, b, f[c]) /\ f[c] \in Seq(Block) /\ state \in Taking(own)
  BY <1>1 DEF Run
<1> HIDE DEF own, P, l, c
<1>5. PICK next \in state.at .. Len(own) + 1 :
        /\ \A m \in state.at .. next - 1 : own[m].line < l
        /\ next <= Len(own) => own[next].line >= l
        /\ later.at = next
        /\ later.out = state.out \o SubSeq(own, state.at, next - 1) \o AtLine(l, f[c])
  <2>1. PICK next : TakesTo(own, state, l, f[c], later, next)
    <3>1. \E next : TakesTo(own, state, l, f[c], TakeEmbed(own, state, l, f[c]), next)
      BY <1>1, <1>2, <1>4, TakeIs
    <3> QED
      BY <3>1
  <2> HIDE DEF later
  <2> QED
    BY <2>1 DEF TakesTo
<1> DEFINE mid == SubSeq(own, state.at, next - 1)
           kids == AtLine(l, f[c])
           out == state.out \o mid
<1>6. next \in 1 .. Len(own) + 1 /\ next - 1 \in state.at - 1 .. Len(own) /\ next \in Nat /\ state.at \in Nat
  BY <1>2, <1>3, <1>5
<1>7. /\ Run(P, high + 1, l - 1, mid)
      /\ \A m \in state.at .. next - 1 : [entry |-> e, at |-> own[m].at] \in Held(mid)
  <2>1. \A m \in state.at .. next - 1 : high + 1 <= own[m].line /\ own[m].line <= l - 1
    <3>1. TAKE m \in state.at .. next - 1
    <3>2. m \in 1 .. Len(own) /\ m \in state.at .. Len(own)
      BY <1>2, <1>3, <1>6
    <3>3. own[m].line \in Nat /\ own[m].line > high /\ own[m].line < l
      BY <1>2, <1>3, <1>5, <3>2
    <3> QED
      BY <1>1, <3>3
  <2>2. high + 1 \in Nat /\ l - 1 \in Nat
    BY <1>1
  <2> QED
    BY <1>3, <1>6, <2>1, <2>2, OwnRun DEF own, P
<1>8. Run(P, l, l, kids) /\ Held(kids) = Held(f[c])
  BY <1>1, <1>4, RunMoved
<1>9. mid \in Seq(Block) /\ kids \in Seq(Block)
  BY <1>7, <1>8 DEF Run
<1> HIDE DEF mid, kids
<1>10. out \in Seq(Block) /\ Held(out) = Held(state.out) \union Held(mid)
  BY <1>3, <1>9, JoinIs, HeldJoin
<1>11. Run(P, 1, l - 1, out)
  <2>1. high + 1 \in Nat /\ l - 1 \in Nat /\ 1 \in Nat /\ high < high + 1 /\ 1 <= high + 1 /\ high <= l - 1
    BY <1>1
  <2> QED
    BY <1>1, <1>3, <1>7, <2>1, RunJoin
<1> HIDE DEF out
<1>12. later.out = out \o kids
  BY <1>5 DEF out, mid, kids
<1>13. Run(P, 1, l, out \o kids) /\ Held(out \o kids) = Held(out) \union Held(kids)
  <2>1. l - 1 \in Nat /\ 1 \in Nat /\ l - 1 < l /\ 1 <= l /\ l - 1 <= l
    BY <1>1
  <2> QED
    BY <1>1, <1>8, <1>9, <1>10, <1>11, <2>1, RunJoin, HeldJoin
<1> HIDE DEF later
<1>14. Held(later.out) = Held(state.out) \union Held(mid) \union Held(f[c])
  BY <1>8, <1>10, <1>12, <1>13
<1>15. ASSUME NEW m \in 1 .. later.at - 1 PROVE [entry |-> e, at |-> own[m].at] \in Held(later.out)
  <2>1. m \in 1 .. state.at - 1 \/ m \in state.at .. next - 1
    BY <1>5, <1>6
  <2> QED
    BY <1>3, <1>7, <1>14, <2>1
<1>16. ASSUME NEW m \in 1 .. n PROVE Held(f[entries[e].embeds[m][2]]) \subseteq Held(later.out)
  <2>1. CASE m = n
    BY <1>14, <2>1 DEF c
  <2>2. CASE m # n
    <3>1. m \in 1 .. n - 1
      BY <1>1, <2>2
    <3> QED
      BY <1>3, <1>14, <3>1
  <2> QED
    BY <2>1, <2>2
<1>17. ASSUME NEW m \in later.at .. Len(own) PROVE own[m].line > l
  <2>1. next \in 1 .. Len(own) /\ m \in 1 .. Len(own) /\ next <= m
    BY <1>2, <1>5, <1>6
  <2>2. own[next].line # l
    <3>1. own[next].line \in BlockStarts(e)
      BY <1>2, <2>1
    <3> QED
      BY <1>1, <3>1, StartsFacts
  <2>3. own[next].line > l
    <3>1. next <= Len(own) /\ own[next].line \in Nat
      BY <1>2, <2>1
    <3>2. own[next].line >= l
      BY <1>5, <3>1
    <3> QED
      BY <1>1, <2>2, <3>1, <3>2
  <2>4. own[next].line <= own[m].line
    <3>1. CASE next = m
      BY <1>2, <2>1, <3>1
    <3>2. CASE next # m
      BY <1>2, <2>1, <3>2
    <3> QED
      BY <3>1, <3>2
  <2> QED
    BY <1>1, <1>2, <2>1, <2>3, <2>4
<1>18. Run(P, 1, l, later.out)
  BY <1>12, <1>13
<1>19. Merged(e, f, own, n, l, later)
  BY <1>15, <1>16, <1>17, <1>18 DEF Merged, P
<1> QED
  BY <1>19 DEF own, l, c, later

-----------------------------------------------------------------------------
(* What becomes of an entry *)

\* The line of an entry's embed, zero before the first.
LineOf(e, n) == IF n = 0 THEN 0 ELSE entries[e].embeds[n][1]

LEMMA LineOfIs ==
    ASSUME entries \in Seq(EntryKind), Tree(entries), NEW e \in 1 .. Len(entries)
    PROVE  /\ Len(entries[e].embeds) \in Nat /\ Len(entries[e].text) \in Nat
           /\ \A n \in 0 .. Len(entries[e].embeds) : LineOf(e, n) \in Nat /\ LineOf(e, n) <= Len(entries[e].text)
           /\ \A n \in 1 .. Len(entries[e].embeds) :
                /\ LineOf(e, n) = entries[e].embeds[n][1] /\ LineOf(e, n - 1) < LineOf(e, n)
<1> DEFINE K == Len(entries[e].embeds)
<1>1. K \in Nat /\ Len(entries[e].text) \in Nat
  BY EntryFacts
<1>2. \A n \in 1 .. K : entries[e].embeds[n][1] \in 1 .. Len(entries[e].text)
  BY DEF Tree, BringsIn
<1>3. \A m, n \in 1 .. K : m < n => entries[e].embeds[m][1] < entries[e].embeds[n][1]
  BY DEF Tree
<1> HIDE DEF K
<1>4. ASSUME NEW n \in 1 .. K PROVE LineOf(e, n) = entries[e].embeds[n][1] /\ LineOf(e, n - 1) < LineOf(e, n)
  <2>1. n # 0 /\ LineOf(e, n) = entries[e].embeds[n][1]
    BY <1>1 DEF LineOf
  <2>2. CASE n = 1
    <3>1. LineOf(e, n - 1) = 0
      BY <2>2 DEF LineOf
    <3> QED
      BY <1>1, <1>2, <2>1, <3>1
  <2>3. CASE n # 1
    <3>1. n - 1 \in 1 .. K /\ n - 1 # 0 /\ n - 1 < n
      BY <1>1, <2>3
    <3>2. LineOf(e, n - 1) = entries[e].embeds[n - 1][1]
      BY <3>1 DEF LineOf
    <3> QED
      BY <1>3, <2>1, <3>1, <3>2
  <2> QED
    BY <2>2, <2>3
<1>5. ASSUME NEW n \in 0 .. K PROVE LineOf(e, n) \in Nat /\ LineOf(e, n) <= Len(entries[e].text)
  <2>1. CASE n = 0
    BY <1>1, <2>1 DEF LineOf
  <2>2. CASE n # 0
    <3>1. n \in 1 .. K
      BY <1>1, <2>2
    <3> QED
      BY <1>1, <1>2, <1>4, <3>1
  <2> QED
    BY <2>1, <2>2
<1> QED
  BY <1>1, <1>4, <1>5 DEF K

\* The blocks of an entry and of those it brings in, in the order of reading.
Assembled(e, f, S) ==
    /\ Run(entries[e].place, 1, Len(entries[e].text), S)
    /\ \A x \in BlockStarts(e) : [entry |-> e, at |-> x] \in Held(S)
    /\ \A n \in 1 .. Len(entries[e].embeds) : Held(f[entries[e].embeds[n][2]]) \subseteq Held(S)

\* The blocks after the last embed end the splice.
LEMMA MergedToEnd ==
    ASSUME entries \in Seq(EntryKind), Tree(entries), NEW e \in 1 .. Len(entries), NEW f,
           NEW state \in Taking(BlocksOf(e)),
           Merged(e, f, BlocksOf(e), Len(entries[e].embeds), LineOf(e, Len(entries[e].embeds)), state)
    PROVE  Assembled(e, f, state.out \o SubSeq(BlocksOf(e), state.at, Len(BlocksOf(e))))
<1> DEFINE own == BlocksOf(e)
           P == entries[e].place
           K == Len(entries[e].embeds)
           T == Len(entries[e].text)
           high == LineOf(e, K)
           rest == SubSeq(own, state.at, Len(own))
           out == state.out \o rest
<1>1. /\ own \in Seq(Block) /\ Len(own) \in Nat
      /\ \A m \in 1 .. Len(own) : own[m].entry = e /\ own[m].at = own[m].line /\ own[m].at \in BlockStarts(e) /\ own[m].line \in Nat
      /\ \A x \in BlockStarts(e) : \E m \in 1 .. Len(own) : own[m].at = x
  BY OwnIs, BlockFacts
<1>2. P \in Way /\ T \in Nat /\ K \in Nat /\ high \in Nat /\ high <= T
  BY EntryFacts, LineOfIs
<1>3. BlockStarts(e) \subseteq 1 .. T
  BY StartsFacts
<1>4. /\ Run(P, 1, high, state.out)
      /\ \A m \in 1 .. state.at - 1 : [entry |-> e, at |-> own[m].at] \in Held(state.out)
      /\ \A m \in 1 .. K : Held(f[entries[e].embeds[m][2]]) \subseteq Held(state.out)
      /\ \A m \in state.at .. Len(own) : own[m].line > high
      /\ state.at \in 1 .. Len(own) + 1 /\ state.out \in Seq(Block)
  BY DEF Merged, Taking
<1> HIDE DEF own, P, K, T, high
<1>5. /\ Run(P, high + 1, T, rest)
      /\ \A m \in state.at .. Len(own) : [entry |-> e, at |-> own[m].at] \in Held(rest)
  <2>1. \A m \in state.at .. Len(own) : high + 1 <= own[m].line /\ own[m].line <= T
    <3>1. TAKE m \in state.at .. Len(own)
    <3>2. m \in 1 .. Len(own) /\ own[m].line > high
      BY <1>1, <1>4
    <3>3. own[m].line \in 1 .. T
      BY <1>1, <1>3, <3>2
    <3> QED
      BY <1>1, <1>2, <3>2, <3>3
  <2>2. high + 1 \in Nat /\ Len(own) \in state.at - 1 .. Len(own)
    BY <1>1, <1>2, <1>4
  <2> QED
    BY <1>2, <1>4, <2>1, <2>2, OwnRun DEF own, P
<1>6. rest \in Seq(Block)
  BY <1>5 DEF Run
<1> HIDE DEF rest
<1>7. Run(P, 1, T, out) /\ Held(out) = Held(state.out) \union Held(rest)
  <2>1. 1 \in Nat /\ high + 1 \in Nat /\ high < high + 1 /\ 1 <= high + 1
    BY <1>2
  <2> QED
    BY <1>2, <1>4, <1>5, <1>6, <2>1, RunJoin, HeldJoin
<1> HIDE DEF out
<1>8. ASSUME NEW x \in BlockStarts(e) PROVE [entry |-> e, at |-> x] \in Held(out)
  <2>1. PICK m \in 1 .. Len(own) : own[m].at = x
    BY <1>1
  <2>2. m \in 1 .. state.at - 1 \/ m \in state.at .. Len(own)
    BY <1>1, <1>4
  <2> QED
    BY <1>4, <1>5, <1>7, <2>1, <2>2
<1>9. Assembled(e, f, out)
  BY <1>4, <1>7, <1>8 DEF Assembled, P, T, K
<1> QED
  BY <1>9 DEF out, rest, own

\* An entry whose embeds became runs of blocks becomes one.
LEMMA SpliceIsAssembled ==
    ASSUME entries \in Seq(EntryKind), Tree(entries), NEW e \in 1 .. Len(entries), NEW f,
           \A n \in 1 .. Len(entries[e].embeds) :
              \E a, b : Run(entries[entries[e].embeds[n][2]].place, a, b, f[entries[e].embeds[n][2]])
    PROVE  Assembled(e, f, SpliceAt(e, f))
<1> DEFINE own == BlocksOf(e)
           K == Len(entries[e].embeds)
           brought == Brought(e, f)
<1>1. own \in Seq(Block) /\ Len(own) \in Nat /\ K \in Nat
  BY OwnIs, BlockFacts, LineOfIs
<1>2. /\ Len(brought) = K
      /\ \A n \in 1 .. K : brought[n].line = entries[e].embeds[n][1] /\ brought[n].blocks = f[entries[e].embeds[n][2]]
  BY <1>1 DEF Brought
<1>3. \A n \in 1 .. K : LineOf(e, n) = entries[e].embeds[n][1] /\ LineOf(e, n) \in Nat
      /\ LineOf(e, n - 1) \in Nat /\ LineOf(e, n - 1) < LineOf(e, n)
  <2>1. \A n \in 1 .. K : n \in 0 .. K /\ n - 1 \in 0 .. K
    BY <1>1
  <2> QED
    BY <2>1, LineOfIs
<1>4. \A n \in 1 .. K : f[entries[e].embeds[n][2]] \in Seq(Block)
  BY DEF Run
<1> HIDE DEF brought, K
<1>5. Bringing(brought)
  BY <1>1, <1>2, <1>3, <1>4 DEF Bringing
<1> HIDE DEF own
<1>6. PICK taken \in [0 .. K -> Taking(own)] :
        /\ taken[0] = Start
        /\ \A n \in 1 .. K : taken[n] = TakeEmbed(own, taken[n - 1], brought[n].line, brought[n].blocks)
        /\ WithEmbeds(own, brought) = taken[K].out \o SubSeq(own, taken[K].at, Len(own))
  BY <1>1, <1>2, <1>5, TakenIs
<1> DEFINE D == {n \in 0 .. K : Merged(e, f, own, n, LineOf(e, n), taken[n])}
<1>7. 0 \in D
  <2>1. LineOf(e, 0) = 0
    BY DEF LineOf
  <2>2. Run(entries[e].place, 1, 0, << >>)
    BY DEF Run
  <2>3. \A m \in 1 .. Len(own) : own[m].line > 0
    <3>1. \A m \in 1 .. Len(own) : own[m].at = own[m].line /\ own[m].at \in BlockStarts(e)
      BY OwnIs DEF own
    <3>2. BlockStarts(e) \subseteq 1 .. Len(entries[e].text) /\ Len(entries[e].text) \in Nat
      BY StartsFacts
    <3> QED
      BY <3>1, <3>2
  <2>4. Start.out = << >> /\ Start.at = 1
    BY DEF Start
  <2>5. Merged(e, f, own, 0, 0, Start)
    BY <2>2, <2>3, <2>4 DEF Merged
  <2>6. 0 \in 0 .. K
    BY <1>1
  <2> QED
    BY <1>6, <2>1, <2>5, <2>6
<1>8. ASSUME NEW n \in 1 .. K, n - 1 \in D PROVE n \in D
  <2> DEFINE c == entries[e].embeds[n][2]
             l == entries[e].embeds[n][1]
             s == taken[n - 1]
  <2>1. Merged(e, f, own, n - 1, LineOf(e, n - 1), s) /\ s \in Taking(own)
    <3>1. n - 1 \in 0 .. K
      BY <1>1
    <3> QED
      BY <1>6, <1>8, <3>1
  <2>2. PICK a, b : Run(entries[c].place, a, b, f[c])
    BY DEF K
  <2>3. taken[n] = TakeEmbed(own, s, l, f[c])
    BY <1>2, <1>6
  <2>4. LineOf(e, n - 1) \in Nat /\ LineOf(e, n - 1) < l
    BY <1>3
  <2>5. LineOf(e, n) = l
    BY <1>3
  <2> DEFINE low == LineOf(e, n - 1)
  <2> HIDE DEF s, low
  <2>6. Merged(e, f, own, n - 1, low, s) /\ low \in Nat /\ low < l /\ s \in Taking(own)
    BY <2>1, <2>4 DEF low
  <2>7. Merged(e, f, own, n, l, TakeEmbed(own, s, l, f[c]))
    BY <2>2, <2>6, MergedNext DEF own, K
  <2>8. n \in 0 .. K
    BY <1>1
  <2> QED
    BY <2>3, <2>5, <2>7, <2>8
<1>9. K \in D
  <2> HIDE DEF D
  <2>1. 0 .. K \subseteq D
    BY <1>1, <1>7, <1>8, StepByStep
  <2> QED
    BY <1>1, <2>1
<1> DEFINE last == taken[K]
<1>10. last \in Taking(own) /\ Merged(e, f, own, K, LineOf(e, K), last)
  BY <1>1, <1>6, <1>9
<1>11. WithEmbeds(own, brought) = last.out \o SubSeq(own, last.at, Len(own))
  BY <1>6
<1> HIDE DEF last, D
<1>12. Assembled(e, f, last.out \o SubSeq(own, last.at, Len(own)))
  BY <1>10, MergedToEnd DEF own, K
<1>13. Assembled(e, f, WithEmbeds(own, brought))
  BY <1>11, <1>12
<1> QED
  BY <1>13 DEF SpliceAt, own, brought

-----------------------------------------------------------------------------
(* The whole document *)

\* Each entry brings in later ones, so the last becomes a run of its blocks, and each before it.
LEMMA AllAssembled ==
    ASSUME entries \in Seq(EntryKind), Tree(entries), NEW f, \A e \in 1 .. Len(entries) : f[e] = SpliceAt(e, f)
    PROVE  \A e \in 1 .. Len(entries) : Assembled(e, f, f[e])
<1> DEFINE N == Len(entries)
           D == {m \in 0 .. N : \A e \in 1 .. N : e > N - m => Assembled(e, f, f[e])}
<1>1. N \in Nat
  OBVIOUS
<1>2. 0 \in D
  BY <1>1
<1>3. ASSUME NEW m \in 1 .. N, m - 1 \in D PROVE m \in D
  <2> DEFINE k == N - m + 1
  <2>1. k \in 1 .. N /\ \A e \in 1 .. N : e > k => e > N - (m - 1)
    BY <1>1
  <2>2. \A e \in 1 .. N : e > k => Assembled(e, f, f[e])
    BY <1>3, <2>1
  <2>3. ASSUME NEW n \in 1 .. Len(entries[k].embeds)
        PROVE  \E a, b : Run(entries[entries[k].embeds[n][2]].place, a, b, f[entries[k].embeds[n][2]])
    <3> DEFINE c == entries[k].embeds[n][2]
    <3>1. c \in k + 1 .. N
      BY <2>1 DEF Tree, BringsIn
    <3> HIDE DEF c, k
    <3>2. c \in 1 .. N /\ c > k
      BY <1>1, <2>1, <3>1
    <3>3. Run(entries[c].place, 1, Len(entries[c].text), f[c])
      BY <2>2, <3>2 DEF Assembled
    <3>4. \E a, b : Run(entries[c].place, a, b, f[c])
      BY <3>3
    <3> QED
      BY <3>4 DEF c
  <2> HIDE DEF k
  <2>4. Assembled(k, f, SpliceAt(k, f))
    BY <2>1, <2>3, SpliceIsAssembled
  <2>5. Assembled(k, f, f[k])
    BY <2>1, <2>4
  <2>6. \A e \in 1 .. N : e > N - m => e = k \/ e > k
    BY <1>1 DEF k
  <2>7. \A e \in 1 .. N : e > N - m => Assembled(e, f, f[e])
    BY <2>2, <2>5, <2>6
  <2>8. m \in 0 .. N
    BY <1>1
  <2> QED
    BY <2>7, <2>8
<1>4. 0 .. N \subseteq D
  <2> HIDE DEF D, N
  <2> QED
    BY <1>1, <1>2, <1>3, StepByStep
<1>5. N \in D
  <2> HIDE DEF D
  <2> QED
    BY <1>1, <1>4
<1> QED
  BY <1>1, <1>5

\* The document holds what each entry holds: an earlier entry brought it in.
LEMMA AllHeld ==
    ASSUME entries \in Seq(EntryKind), Tree(entries), NEW f, \A e \in 1 .. Len(entries) : Assembled(e, f, f[e])
    PROVE  \A e \in 1 .. Len(entries) : Held(f[e]) \subseteq Held(f[1])
<1> DEFINE N == Len(entries)
           out == {e \in 1 .. N : ~(Held(f[e]) \subseteq Held(f[1]))}
<1>1. N \in Nat
  OBVIOUS
<1>2. SUFFICES ASSUME out # {} PROVE FALSE
  OBVIOUS
<1>3. PICK c \in out : \A e \in out : c <= e
  <2>1. out \subseteq Nat
    BY <1>1
  <2> HIDE DEF out
  <2> QED
    BY <1>2, <2>1, LeastNatural
<1>4. c \in 2 .. N /\ c \in 1 .. N
  BY <1>1, <1>3
<1>5. PICK e \in 1 .. c - 1 : \E n \in 1 .. Len(entries[e].embeds) : entries[e].embeds[n][2] = c
  BY <1>4 DEF Tree
<1>6. PICK n \in 1 .. Len(entries[e].embeds) : entries[e].embeds[n][2] = c
  BY <1>5
<1>7. e \in 1 .. N /\ e < c
  BY <1>1, <1>4
<1>8. Held(f[c]) \subseteq Held(f[e])
  BY <1>6, <1>7 DEF Assembled
<1>9. e \notin out
  <2> HIDE DEF out
  <2> QED
    BY <1>1, <1>3, <1>4, <1>7
<1>10. Held(f[e]) \subseteq Held(f[1])
  BY <1>7, <1>9
<1> QED
  BY <1>3, <1>8, <1>10

LEMMA SplicedAssembled ==
    ASSUME entries \in Seq(EntryKind), Tree(entries)
    PROVE  /\ Run(<< >>, 1, Len(entries[1].text), Spliced)
           /\ \A e \in 1 .. Len(entries) : \A x \in BlockStarts(e) : [entry |-> e, at |-> x] \in Held(Spliced)
<1>1. Len(entries) \in Nat /\ 1 \in 1 .. Len(entries) /\ entries[1].place = << >>
  BY DEF Tree
<1>2. PICK f : (\A e \in 1 .. Len(entries) : f[e] = SpliceAt(e, f)) /\ Spliced = f[1]
  BY <1>1, SplicedIs
<1>3. \A e \in 1 .. Len(entries) : Assembled(e, f, f[e])
  BY <1>2, AllAssembled
<1>4. \A e \in 1 .. Len(entries) : Held(f[e]) \subseteq Held(f[1])
  BY <1>3, AllHeld
<1>5. Run(<< >>, 1, Len(entries[1].text), Spliced)
  BY <1>1, <1>2, <1>3 DEF Assembled
<1>6. ASSUME NEW e \in 1 .. Len(entries), NEW x \in BlockStarts(e) PROVE [entry |-> e, at |-> x] \in Held(Spliced)
  BY <1>2, <1>3, <1>4 DEF Assembled
<1> QED
  BY <1>5, <1>6

AllBlocks == UNION {{[entry |-> e, at |-> n] : n \in BlockStarts(e)} : e \in 1 .. Len(entries)}

LEMMA BlocksAre ==
    ASSUME entries \in Seq(EntryKind), Tree(entries)
    PROVE  InPlace
<1> DEFINE S == Spliced
           N == Len(S)
           id == [i \in 1 .. N |-> [entry |-> S[i].entry, at |-> S[i].at]]
<1>1. /\ S \in Seq(Block)
      /\ \A i \in 1 .. N : IsBlock(S[i]) /\ Under(<< >>, S[i])
      /\ \A i, j \in 1 .. N : i < j => Earlier(AtOf(S[i]), AtOf(S[j]))
  BY SplicedAssembled DEF Run
<1>2. \A e \in 1 .. Len(entries) : \A x \in BlockStarts(e) : [entry |-> e, at |-> x] \in Held(S)
  BY SplicedAssembled
<1>3. N \in Nat /\ DOMAIN S = 1 .. N
  BY <1>1, BlockFacts
<1> HIDE DEF S, N
<1>4. Held(S) = AllBlocks
  <2>1. ASSUME NEW b \in Held(S) PROVE b \in AllBlocks
    <3>1. PICK i \in 1 .. N : b = [entry |-> S[i].entry, at |-> S[i].at]
      BY <1>3 DEF Held
    <3>2. S[i].entry \in 1 .. Len(entries) /\ S[i].at \in BlockStarts(S[i].entry)
      BY <1>1 DEF IsBlock
    <3> DEFINE e == S[i].entry
               x == S[i].at
    <3> HIDE DEF e, x
    <3>3. e \in 1 .. Len(entries) /\ x \in BlockStarts(e) /\ b = [entry |-> e, at |-> x]
      BY <3>1, <3>2 DEF e, x
    <3> QED
      BY <3>3 DEF AllBlocks
  <2>2. ASSUME NEW b \in AllBlocks PROVE b \in Held(S)
    <3>1. PICK e \in 1 .. Len(entries) : b \in {[entry |-> e, at |-> n] : n \in BlockStarts(e)}
      BY DEF AllBlocks
    <3>2. PICK x \in BlockStarts(e) : b = [entry |-> e, at |-> x]
      BY <3>1
    <3> QED
      BY <1>2, <3>2
  <2> QED
    BY <2>1, <2>2
<1>5. id \in [1 .. N -> AllBlocks] /\ \A b \in AllBlocks : \E i \in 1 .. N : id[i] = b
  <2>1. ASSUME NEW i \in 1 .. N PROVE id[i] \in AllBlocks
    <3>1. id[i] \in Held(S)
      BY <1>3 DEF Held
    <3> QED
      BY <1>4, <3>1
  <2>2. ASSUME NEW b \in AllBlocks PROVE \E i \in 1 .. N : id[i] = b
    <3>1. PICK i \in 1 .. N : b = [entry |-> S[i].entry, at |-> S[i].at]
      BY <1>3, <1>4 DEF Held
    <3> QED
      BY <3>1
  <2> QED
    BY <2>1, <2>2
<1>6. ASSUME NEW i \in 1 .. N, NEW j \in 1 .. N, id[i] = id[j] PROVE i = j
  <2>1. S[i].entry = S[j].entry /\ S[i].at = S[j].at
    BY <1>6
  <2>2. AtOf(S[i]) = AtOf(S[j])
    BY <2>1 DEF AtOf
  <2>3. AtOf(S[i]) \in Way
    BY <1>1, AtWay
  <2>4. ~(i < j) /\ ~(j < i)
    BY <1>1, <2>2, <2>3, NotEarlierItself
  <2> QED
    BY <1>3, <2>4
<1> HIDE DEF id
<1>7. N = Cardinality(AllBlocks)
  <2>1. id \in Bijection(1 .. N, AllBlocks)
    BY <1>5, <1>6 DEF Bijection, Injection, IsInjective, Surjection
  <2>2. ExistsBijection(1 .. N, AllBlocks)
    BY <2>1 DEF ExistsBijection
  <2> QED
    BY <1>3, <2>2, FS_CountingElements, FS_NatBijection
<1>8. ASSUME NEW i \in 1 .. N PROVE S[i].line = Head(AtOf(S[i]))
  <2>1. IsBlock(S[i]) /\ Under(<< >>, S[i])
    BY <1>1
  <2>2. AtOf(S[i]) \in Seq(Nat) /\ Len(<< >>) = 0
    BY <2>1, AtWay DEF Way
  <2> DEFINE w == AtOf(S[i])
  <2>3. 0 < Len(w) /\ w[0 + 1] = S[i].line
    BY <2>1, <2>2 DEF Under
  <2> HIDE DEF w
  <2>4. w \in Seq(Nat) /\ 0 < Len(w) /\ w[1] = S[i].line
    BY <2>2, <2>3 DEF w
  <2>5. Head(w) = w[1]
    BY <2>4
  <2> QED
    BY <2>4, <2>5 DEF w
<1>9. ASSUME NEW i \in 1 .. N - 1 PROVE Earlier(AtOf(S[i]), AtOf(S[i + 1]))
  <2>1. i \in 1 .. N /\ i + 1 \in 1 .. N /\ i < i + 1
    BY <1>3
  <2> QED
    BY <1>1, <2>1
<1>10. \A i \in 1 .. N : AtOf(S[i]) = Append(entries[S[i].entry].place, S[i].at)
  BY DEF AtOf
<1>11. /\ N = Cardinality(AllBlocks)
       /\ Held(S) = AllBlocks
       /\ \A i \in 1 .. N - 1 : Earlier(AtOf(S[i]), AtOf(S[i + 1]))
       /\ \A i \in DOMAIN S : S[i].line = Head(AtOf(S[i]))
  BY <1>3, <1>4, <1>7, <1>8, <1>9
<1> QED
  BY <1>11 DEF InPlace, AllBlocks, Held, AtOf, S, N

-----------------------------------------------------------------------------
(* Theorems *)

\* The state of the descent (Resolver) has its types, for any vault and any limits.
THEOREM TypeCorrect == Spec => []TypeOK
<1>1. IInv => TypeOK
  BY DEF IInv
<1> QED
  BY <1>1, Invariance, PTL

\* Expand's view into an entry's text stays valid: set.entries never passes what Run reserves.
THEOREM EntriesInPlace == Spec => []EntriesStay
<1>1. IInv => EntriesStay
  BY DEF IInv
<1> QED
  BY <1>1, Invariance, PTL

\* Whatever embeds what, under whatever names: the chain of Expand's calls holds no path and, after
\* the document, no file twice, and is no longer than the limit of depth lets it be.
THEOREM ChainHasNoCycle == Spec => []NoCycle
<1>1. IInv => NoCycle
  BY DEF IInv
<1> QED
  BY <1>1, Invariance, PTL

\* What Find and Load count stays within the limits they subtract from, so no difference wraps.
THEOREM WorkIsBounded == Spec => []WorkBounded
<1>1. IInv => WorkBounded
  BY DEF IInv
<1> QED
  BY <1>1, Invariance, PTL

\* The bytes embedded stay within their limit as long as no text grows after Expand compared it.
THEOREM BytesLimited == Spec => []BytesKept
<1>1. IInv => BytesKept
  BY DEF IInv
<1> QED
  BY <1>1, Invariance, PTL

\* Every limit of kMaxEmbeds, kMaxBytes and the lookups holds, whatever the notes hold and name.
THEOREM LimitsHold == Spec => []LimitsKept
BY EntriesInPlace, WorkIsBounded, BytesLimited, PTL DEF LimitsKept

\* What the descent brings in is what the document, read from its first line on, embeds: each in its
\* place, in the order of reading, nothing that does not belong, and past the limit of their number
\* or a cancel the first of them and no later one.
THEOREM FirstAreBroughtIn == Spec => []FirstInOrder
<1>1. IInv /\ OrderInv => FirstInOrder
  BY OrderIs
<1> QED
  BY <1>1, Invariance, OrderInvariance, PTL

\* The document reads as it stands in its notes.
THEOREM ReadsInPlace == Spec => []InPlace
<1>1. IInv /\ TreeInv => InPlace
  <2>1. IInv => entries \in Seq(EntryKind)
    BY DEF IInv, TypeOK, EntryKind
  <2> QED
    BY <2>1, BlocksAre DEF TreeInv
<1> QED
  BY <1>1, Invariance, TreeInvariance, PTL
=============================================================================
