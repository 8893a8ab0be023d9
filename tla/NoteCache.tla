------------------------------ MODULE NoteCache ------------------------------
(***************************************************************************)
(* The notes of a vault (src/core/vault.cpp on Linux): threads that find   *)
(* notes by path or by name and read them, over the process's kept notes   *)
(* and name indexes, while tools write, replace, move and delete the files *)
(* between any two of their system calls.  A file has two units or so, a   *)
(* write changes one; the file system's clock ticks every TickLen.  Notes  *)
(* lie in the root or in one folder below it; no note is a link.           *)
(***************************************************************************)
EXTENDS KeptNotes

CONSTANTS
    Threads,           \* each with a vault of its own, all of the same root
    FolderOf,          \* a note's folder: Root or Sub
    Edited,            \* the notes whose files tools write in place (all are made, moved, deleted)
    Inodes,            \* of the notes' files
    TickLen,           \* how far apart the file system's times are
    MaxNow,            \* bound of the clock
    MaxChanges,        \* bound of the changes tools make
    MaxCalls           \* bound of the calls the threads make

ASSUME SettleCoversTick == TickLen \in Nat \ {0} /\ SettleTime + 1 >= TickLen

Root == "root"
Sub == "sub"
Folders == {Root, Sub}

\* What the files hold and what a stat of a folder says.
Texts == Seq({0, 1})
FolderIds == [inode : Folders \union {"sub2"}, size : {0}, modified : Nat, changed : Nat]

ASSUME NotesHaveFiles ==
    /\ FolderOf \in [Notes -> Folders] /\ Edited \subseteq Notes
    /\ \E f \in [Notes -> Inodes] : \A p, q \in Notes : p # q => f[p] # f[q]

ASSUME NoneIsNothing ==
    None \notin Inodes /\ None \notin Notes /\ None \notin Texts /\ None \notin FolderIds

VARIABLES
    byName,            \* whether the builds find notes by name (Obsidian's dialect) or by path
    now,               \* the time
    changes,           \* changes made by tools so far
    entry,             \* per note: the inode its path names, or None
    file,              \* per inode: its text and times
    folder,            \* per folder: its identity, for Sub None while it is moved away
    kept,              \* TheKept
    vault,             \* per thread: its Vault: hitText, openFd and its index's names
    call,              \* per thread: the call it is in
    calls              \* calls begun so far

world == <<byName, now, changes, entry, file, folder>>
vars == <<byName, now, changes, entry, file, folder, kept, vault, call, calls>>

\* The time the file system writes now.
Stamp == now - (now % TickLen)

\* What a stat of a file or a folder says.
IdentityOf(i) == [inode |-> i, size |-> Len(file[i].text),
                  modified |-> file[i].modified, changed |-> file[i].changed]
StampOf(p) == IF entry[p] = None THEN None ELSE IdentityOf(entry[p])

\* The notes a folder lists.
Listed(f) == {p \in Notes : FolderOf[p] = f /\ entry[p] # None}

FolderIdentity(i, time) == [inode |-> i, size |-> 0, modified |-> time, changed |-> time]

NewVault == [hit |-> None, open |-> None, index |-> None]
Idle == [step |-> "idle"]

FirstInode == CHOOSE f \in [Notes -> Inodes] : \A p, q \in Notes : p # q => f[p] # f[q]

Init ==
    /\ byName \in BOOLEAN
    /\ now = 0 /\ changes = 0
    /\ entry = FirstInode
    /\ file = [i \in Inodes |-> [text |-> <<0, 0>>, modified |-> 0, changed |-> 0]]
    /\ folder = [f \in Folders |-> FolderIdentity(f, 0)]
    /\ kept = NothingKept
    /\ vault = [t \in Threads |-> NewVault]
    /\ call = [t \in Threads |-> Idle] /\ calls = 0
-----------------------------------------------------------------------------
(***************************************************************************)
(* The files: an external world that may change at any time.               *)
(***************************************************************************)
Tick ==
    /\ now < MaxNow
    /\ now' = now + 1
    /\ UNCHANGED <<byName, changes, entry, file, folder, kept, vault, call, calls>>

Change ==
    /\ changes < MaxChanges
    /\ changes' = changes + 1
    /\ UNCHANGED <<byName, now, kept, vault, call, calls>>

\* In place: another unit, the last one cut off, or one more.
Write(p) ==
    /\ Change
    /\ entry[p] # None
    /\ LET old == file[entry[p]].text
       IN  \E text \in {[old EXCEPT ![k] = 1 - @] : k \in DOMAIN old} \union {Append(old, 1)}
                       \union (IF old = <<>> THEN {} ELSE {Front(old)}) :
             file' = [file EXCEPT ![entry[p]] = [text |-> text, modified |-> Stamp, changed |-> Stamp]]
    /\ UNCHANGED <<entry, folder>>

\* A tool sets the time of the last write back; the status change is the system's.
SetModified(p) ==
    /\ Change
    /\ entry[p] # None
    /\ file[entry[p]].modified # 0
    /\ file' = [file EXCEPT ![entry[p]].modified = 0, ![entry[p]].changed = Stamp]
    /\ UNCHANGED <<entry, folder>>

Touched(f) == [folder EXCEPT ![f] = FolderIdentity(@.inode, Stamp)]

\* Files with a name or a descriptor: their inodes are not used again.
InUse ==
    {entry[p] : p \in Notes}
    \union {vault[t].open.inode : t \in {u \in Threads : vault[u].open # None}}
    \union {call[t].file.inode : t \in {u \in Threads : call[u].step \in {"opened", "read"}}}

\* A new file at the path, in place of the old one if there is one (a rename over it), last written
\* now or when the file it is a copy of was.
Replace(p) ==
    /\ Change
    /\ folder[FolderOf[p]] # None
    /\ \E i \in Inodes \ InUse, modified \in {0, Stamp} :
         /\ entry' = [entry EXCEPT ![p] = i]
         /\ file' = [file EXCEPT ![i] = [text |-> <<1, 1>>, modified |-> modified, changed |-> Stamp]]
    /\ folder' = Touched(FolderOf[p])

Delete(p) ==
    /\ Change
    /\ entry[p] # None
    /\ entry' = [entry EXCEPT ![p] = None]
    /\ folder' = Touched(FolderOf[p])
    /\ UNCHANGED file

\* The folder moved out of the vault with its notes, or an empty one made.
MoveSub ==
    /\ Change
    /\ folder' = [Touched(Root) EXCEPT ![Sub] = IF @ # None THEN None ELSE FolderIdentity("sub2", Stamp)]
    /\ entry' = [p \in Notes |-> IF FolderOf[p] = Sub THEN None ELSE entry[p]]
    /\ UNCHANGED file

World ==
    \/ Tick \/ MoveSub
    \/ \E p \in Edited : Write(p) \/ SetModified(p)
    \/ \E p \in Notes : Replace(p) \/ Delete(p)
-----------------------------------------------------------------------------
(***************************************************************************)
(* A thread's calls.                                                       *)
(***************************************************************************)
Go(t, c) == call' = [call EXCEPT ![t] = c]
Set(t, v) == vault' = [vault EXCEPT ![t] = v]

Return(t) == Go(t, Idle)

Begin(t) == call[t] = Idle /\ calls < MaxCalls /\ calls' = calls + 1

\* A build ends and another begins.
NextBuild(t) ==
    /\ call[t] = Idle
    /\ vault[t] # NewVault
    /\ Set(t, NewVault)
    /\ UNCHANGED <<world, kept, call>>

\* Cached begins: what is kept for the path is looked up and copied under the mutex.
LookUp(t, by, path) ==
    IF path \in DOMAIN kept.notes
    THEN LET slot == kept.slots[kept.notes[path]]
         IN  /\ kept' = Looked(kept, path)
             /\ Go(t, [step |-> "stat", by |-> by, path |-> path, text |-> slot.text, identity |-> slot.identity])
    ELSE UNCHANGED kept /\ Go(t, [step |-> "open", by |-> by, path |-> path])

\* Find of a path, checked as it is.
Find(t, p) ==
    /\ Begin(t) /\ ~byName
    /\ LookUp(t, "find", p)
    /\ UNCHANGED <<world, vault>>

\* Find of a name that no path from the root leads to: by the vault's name index, made on the first
\* one.
FindByName(t, p) ==
    /\ Begin(t) /\ byName
    /\ FolderOf[p] = Sub
    /\ IF vault[t].index = None
       THEN Go(t, [step |-> "index", path |-> p]) /\ UNCHANGED kept
       ELSE p \in vault[t].index /\ LookUp(t, "find", p)
    /\ UNCHANGED <<world, vault>>

\* Read, of a note found or of a book's first note: of the hit, which changes nothing; of the file a
\* find left open; else as a find looks.
Read(t, p) ==
    /\ Begin(t)
    /\ vault[t].hit # None => vault[t].hit.path # p
    /\ byName => vault[t].open # None /\ vault[t].open.path = p
    /\ LET v == [vault[t] EXCEPT !.hit = None]
       IN  IF v.open # None /\ v.open.path = p
           THEN /\ Set(t, [v EXCEPT !.open = None])
                /\ Go(t, [step |-> "read", path |-> p, file |-> v.open, text |-> <<>>])
                /\ UNCHANGED kept
           ELSE Set(t, v) /\ LookUp(t, "read", p)
    /\ UNCHANGED world

\* Find goes on with a path of the index.
Look(t) ==
    /\ call[t].step = "look"
    /\ LookUp(t, "find", call[t].path)
    /\ UNCHANGED <<world, vault>>

\* The kept note against what its file is now.
Stat(t) ==
    LET c == call[t]
        is == StampOf(c.path)
    IN  /\ c.step = "stat"
        /\ \/ is = None /\ Return(t) /\ UNCHANGED vault
           \/ /\ is # None /\ Unchanged(c.identity, is)
              /\ Set(t, [vault[t] EXCEPT !.hit = [path |-> c.path, text |-> c.text]])
              /\ Return(t)
           \/ /\ is # None /\ ~Unchanged(c.identity, is)
              /\ Go(t, [step |-> "open", by |-> c.by, path |-> c.path])
              /\ UNCHANGED vault
        /\ UNCHANGED <<world, kept>>

\* The time the open began, and the file opened.
Open(t) ==
    LET c == call[t]
    IN  /\ c.step = "open"
        /\ IF entry[c.path] = None
           THEN Return(t)
           ELSE Go(t, [step |-> "opened", by |-> c.by, path |-> c.path,
                       file |-> [inode |-> entry[c.path], start |-> now]])
        /\ UNCHANGED <<world, kept, vault>>

\* fstat; a find leaves the file open in place of the one before, a read goes on with it.
Fstat(t) ==
    LET c == call[t]
        open == [path |-> c.path, inode |-> c.file.inode, start |-> c.file.start,
                 identity |-> IdentityOf(c.file.inode)]
    IN  /\ c.step = "opened"
        /\ \/ /\ c.by = "find"
              /\ Set(t, [vault[t] EXCEPT !.open = open])
              /\ Return(t)
           \/ /\ c.by = "read"
              /\ Set(t, [vault[t] EXCEPT !.open = None])
              /\ Go(t, [step |-> "read", path |-> c.path, file |-> open, text |-> <<>>])
        /\ UNCHANGED <<world, kept>>

\* ReadOpen: the next unit, until there are as many as the file had or it ends.
ReadUnit(t) ==
    LET c == call[t]
        text == file[c.file.inode].text
    IN  /\ c.step = "read"
        /\ Len(c.text) < Min({c.file.identity.size, Len(text)})
        /\ Go(t, [c EXCEPT !.text = Append(@, text[Len(@) + 1])])
        /\ UNCHANGED <<world, kept, vault>>

KeepNote(t) ==
    LET c == call[t]
    IN  /\ c.step = "read"
        /\ Len(c.text) >= Min({c.file.identity.size, Len(file[c.file.inode].text)})
        /\ kept' = Keep(kept, c.path, c.text, c.file.identity, c.file.start)
        /\ Return(t)
        /\ UNCHANGED <<world, vault>>
-----------------------------------------------------------------------------
(***************************************************************************)
(* The name index: one kept of the root, while every folder it read is as  *)
(* it was, else the tree walked.                                           *)
(***************************************************************************)
LookIndex(t) ==
    LET index == LastIndex(kept)
    IN  /\ call[t].step = "index"
        /\ \/ index = None /\ Go(t, [step |-> "walk", path |-> call[t].path])
           \/ index # None /\ Go(t, [step |-> "check", path |-> call[t].path, index |-> index, at |-> 1, since |-> changes])
        /\ UNCHANGED <<world, kept, vault>>

\* mutant: only the root is looked at
RootAsItWas(c) ==
    LET was == c.index.folders[c.at] IN was.name = Root => Unchanged(was.identity, folder[Root])

\* The next folder the index read is as it was (one stat).
AsItWas(c) ==
    LET was == c.index.folders[c.at] IN folder[was.name] # None /\ Unchanged(was.identity, folder[was.name])

SameFolder(t) ==
    LET c == call[t]
    IN  /\ c.step = "check" /\ c.at <= Len(c.index.folders) /\ AsItWas(c)
        /\ Go(t, [c EXCEPT !.at = @ + 1])
        /\ UNCHANGED <<world, kept, vault>>

\* It is another one, or none: the index is dropped and the tree walked.
OtherFolder(t) ==
    LET c == call[t]
    IN  /\ c.step = "check" /\ c.at <= Len(c.index.folders) /\ ~AsItWas(c)
        /\ kept' = DropIndex(kept, c.index)
        /\ Go(t, [step |-> "walk", path |-> c.path])
        /\ UNCHANGED <<world, vault>>

\* The note of the name, if the index has it, is checked as any path is.
GoOn(t, path, names) ==
    /\ Set(t, [vault[t] EXCEPT !.index = names])
    /\ IF path \in names THEN Go(t, [step |-> "look", path |-> path]) ELSE Return(t)

TakeIndex(t) ==
    LET c == call[t]
    IN  /\ c.step = "check"
        /\ c.at > Len(c.index.folders)
        /\ kept' = KeepIndex(kept, c.index)
        /\ GoOn(t, c.path, c.index.names)
        /\ UNCHANGED world

\* Walk: a folder is opened and what it is noted, then its entries are read, those of the folder
\* below last.
BeginWalk(t) ==
    /\ call[t].step = "walk"
    /\ Go(t, [step |-> "begun", path |-> call[t].path, start |-> now])
    /\ UNCHANGED <<world, kept, vault>>

WalkRoot(t) ==
    LET c == call[t]
    IN  /\ c.step = "begun"
        /\ Go(t, [step |-> "root", path |-> c.path, start |-> c.start,
                  index |-> [folders |-> <<[name |-> Root, identity |-> folder[Root]]>>,
                             names |-> {}, keep |-> Settled(folder[Root], c.start)]])
        /\ UNCHANGED <<world, kept, vault>>

Built(t, c, index) ==
    /\ kept' = IF index.keep THEN KeepIndex(kept, index) ELSE kept
    /\ GoOn(t, c.path, index.names)
    /\ UNCHANGED world

ListRoot(t) ==
    LET c == call[t]
        index == [c.index EXCEPT !.names = Listed(Root)]
    IN  /\ c.step = "root"
        /\ \/ folder[Sub] = None /\ Built(t, c, index)
           \/ /\ folder[Sub] # None
              /\ Go(t, [c EXCEPT !.step = "sub", !.index = index])
              /\ UNCHANGED <<world, kept, vault>>

WalkSub(t) ==
    LET c == call[t]
    IN  /\ c.step = "sub"
        /\ \/ folder[Sub] = None /\ Built(t, c, [c.index EXCEPT !.keep = FALSE])
           \/ /\ folder[Sub] # None
              /\ Go(t, [c EXCEPT !.step = "list",
                        !.index.folders = Append(@, [name |-> Sub, identity |-> folder[Sub]]),
                        !.index.keep = @ /\ Settled(folder[Sub], c.start)])
              /\ UNCHANGED <<world, kept, vault>>

\* A folder that was moved away meanwhile is still open; its notes are then not told.
ListSub(t) ==
    LET c == call[t]
    IN  /\ c.step = "list"
        /\ \E names \in IF folder[Sub] = None \/ folder[Sub].inode # c.index.folders[2].identity.inode
                        THEN SUBSET {p \in Notes : FolderOf[p] = Sub} ELSE {Listed(Sub)} :
              Built(t, c, [c.index EXCEPT !.names = @ \union names])

Step(t) ==
    \/ NextBuild(t) \/ Look(t) \/ Stat(t) \/ Open(t) \/ Fstat(t) \/ ReadUnit(t) \/ KeepNote(t)
    \/ LookIndex(t) \/ SameFolder(t) \/ OtherFolder(t) \/ TakeIndex(t)
    \/ BeginWalk(t) \/ WalkRoot(t) \/ ListRoot(t) \/ WalkSub(t) \/ ListSub(t)

Thread(t) ==
    \/ \E p \in Notes : Find(t, p) \/ FindByName(t, p) \/ Read(t, p)
    \/ Step(t) /\ UNCHANGED calls

Next == World \/ \E t \in Threads : Thread(t)

Spec == Init /\ [][Next]_vars
-----------------------------------------------------------------------------
(***************************************************************************)
(* What a build may rely on.                                               *)
(***************************************************************************)
\* A text given out of the kept notes is the whole file's at the stat that allowed it, whatever was
\* written, cut, replaced, deleted or set back while it was read and since: neither an older text
\* nor one put together from two versions (Vault::Cached, Keep, Settled).
HitIsCurrent == [][\A t \in Threads :
    call[t].step = "stat" /\ vault'[t].hit # vault[t].hit =>
        entry[call[t].path] # None /\ vault'[t].hit.text = file[entry[call[t].path]].text]_vars

\* A kept name index that is used names exactly the notes of the tree, unless the tree changed
\* while its folders were looked at: one of a folder since written, moved or made is walked again
\* (KeptIndex, Vault::Walk).
IndexIsCurrent == [][\A t \in Threads :
    call[t].step = "check" /\ vault'[t].index # None /\ call[t].since = changes =>
        vault'[t].index = UNION {Listed(f) : f \in Folders}]_vars

\* The map, the slots and the count of bytes tell the same notes after any number of keeps,
\* replacements and evictions by several threads, and the limits hold (Keep).
NotesAccounted ==
    /\ \A p \in DOMAIN kept.notes : kept.notes[p] \in UsedSlots(kept) /\ kept.slots[kept.notes[p]].key = p
    /\ Cardinality(DOMAIN kept.notes) = Cardinality(UsedSlots(kept))
    /\ kept.bytes = MapThenSumSet(LAMBDA i : CostOf(kept.slots[i]), UsedSlots(kept))
    /\ kept.bytes <= MaxBytes
    /\ Cardinality(DOMAIN kept.notes) <= MaxNotes /\ Len(kept.slots) <= MaxNotes + 1
=============================================================================
