---------------------------- MODULE SourcesList ----------------------------
(***************************************************************************)
(* QApt::SourcesList: the entries of some sources.list files in memory,    *)
(* and the files on the disk, which save() has the worker write one after  *)
(* the other, each with an authorization of its own.                       *)
(*                                                                         *)
(* Other programs write the files, too, and an application may not be      *)
(* allowed to read all of them, while the worker runs as root.             *)
(***************************************************************************)
EXTENDS SourceEntry, SequencesExt

CONSTANTS
  Files,       \* paths
  FileLists,   \* lists of paths that an application may construct it with
  Contents,    \* what files may contain: sequences of lines
  NewEntries,  \* entries that an application makes
  Boilerplate, \* the lines written instead of nothing
  Missing,     \* content of a file that does not exist
  MaxCalls     \* bound: calls that change the list or a file

\* An application makes an entry from a line or from fields.
ASSUME SourcesListAssumption ==
  /\ FileLists \subseteq Seq(Files)
  /\ Contents \subseteq Seq(Lines) /\ Boilerplate \in Seq(Lines)
  /\ \A e \in NewEntries :
       e \in Entries /\ (e = Parse(e.line) \/ (e.valid /\ e = New(e.key, e.comment, e.archs)))

VARIABLES
  sourceFiles, \* d->sourceFiles
  list,        \* d->list; a file without a key has no entries
  disk,        \* content of each file
  readable,    \* whether the application may read it
  saving,      \* files that save() still has to write
  calls,       \* calls so far
  \* history
  loaded,      \* content of each file as reload() found it
  removed,     \* for each file, entries that were passed to removeEntry since then
  synced       \* files that are neither edited nor written since they were loaded or saved

vars == <<sourceFiles, list, disk, readable, saving, calls, loaded, removed, synced>>

TypeOK ==
  /\ \A i \in DOMAIN sourceFiles : sourceFiles[i] \in Files
  /\ IsInjective(sourceFiles)
  /\ DOMAIN list = Files /\ \A f \in Files : \A i \in DOMAIN list[f] : list[f][i].key \in Keys \cup Partial
  /\ DOMAIN disk = Files /\ readable \in [Files -> BOOLEAN]
  /\ IsSuffix(saving, sourceFiles)
  /\ calls \in 0..MaxCalls
  /\ DOMAIN loaded = Files /\ DOMAIN removed = Files /\ synced \subseteq Files

\* addSourcesFileList: each path once.
Deduped(paths) ==
  FoldLeft(LAMBDA acc, f : IF f \in ToSet(acc) THEN acc ELSE Append(acc, f), <<>>, paths)

\* load: one entry for each line of a file that can be opened.
Loaded(f) ==
  IF disk[f] = Missing \/ ~readable[f] THEN <<>>
  ELSE [i \in DOMAIN disk[f] |-> Parse(disk[f][i])]

\* Files of which the list is the content.
Known == {f \in ToSet(sourceFiles) : disk[f] # Missing /\ readable[f]}

Loads ==
  /\ list' = [f \in Files |-> IF f \in ToSet(sourceFiles) THEN Loaded(f) ELSE <<>>]
  /\ loaded' = [f \in Files |-> IF f \in Known THEN disk[f] ELSE <<>>]
  /\ removed' = [f \in Files |-> {}]
  /\ synced' = Known

Init ==
  /\ \E paths \in FileLists : sourceFiles = Deduped(paths)
  /\ disk \in [Files -> Contents \cup {Missing}]
  /\ readable \in [Files -> BOOLEAN]
  /\ list = [f \in Files |-> IF f \in ToSet(sourceFiles) THEN Loaded(f) ELSE <<>>]
  /\ saving = <<>> /\ calls = 0
  /\ loaded = [f \in Files |-> IF f \in Known THEN disk[f] ELSE <<>>]
  /\ removed = [f \in Files |-> {}]
  /\ synced = Known

-----------------------------------------------------------------------------
(* Calls of the application.  save() blocks it. *)

CallMade == saving = <<>> /\ calls < MaxCalls /\ calls' = calls + 1

Reload ==
  /\ CallMade /\ Loads
  /\ UNCHANGED <<sourceFiles, disk, readable, saving>>

\* Entries that an application has in its hands: copies of the list's, enabled or
\* disabled as it likes, and new ones.
InHands ==
  NewEntries \cup {SetEnabled(e, b) : e \in UNION {ToSet(list[f]) : f \in Files}, b \in BOOLEAN}

\* Mutant: an entry with the same source, enabled or not, is replaced.
AddEntryReplacing(f, e) ==
  /\ CallMade
  /\ list' = [list EXCEPT ![f] = Append(SelectSeq(@, LAMBDA x : x.key # e.key), e)]
  /\ synced' = synced \ {f}
  /\ UNCHANGED <<sourceFiles, disk, readable, saving, loaded, removed>>

\* addEntry: to the file that the entry names, listed or not, unless an equal one
\* is there.
AddEntry(f, e) ==
  /\ CallMade
  /\ IF \E i \in DOMAIN list[f] : Equal(list[f][i], e)
       THEN UNCHANGED <<list, synced>>
       ELSE /\ list' = [list EXCEPT ![f] = Append(@, e)]
            /\ synced' = synced \ {f}
  /\ UNCHANGED <<sourceFiles, disk, readable, saving, loaded, removed>>

\* QList::removeAll
Without(entries, e) ==
  FoldLeft(LAMBDA acc, x : IF Equal(x, e) THEN acc ELSE Append(acc, x), <<>>, entries)

\* removeEntry: all equal ones, of the entry's file or, without one, of all.
RemoveEntry(files, e) ==
  /\ CallMade
  /\ list' = [f \in Files |-> IF f \in files THEN Without(list[f], e) ELSE list[f]]
  /\ removed' = [f \in Files |-> IF f \in files THEN removed[f] \cup {e} ELSE removed[f]]
  /\ synced' = synced \ {f \in files : list'[f] # list[f]}
  /\ UNCHANGED <<sourceFiles, disk, readable, saving, loaded>>

Save ==
  /\ CallMade
  /\ saving' = sourceFiles
  /\ UNCHANGED <<sourceFiles, list, disk, readable, loaded, removed, synced>>

-----------------------------------------------------------------------------
(* Writing *)

\* dataForSourceFile
DataForSourceFile(f) ==
  IF list[f] = <<>> THEN Boilerplate
  ELSE [i \in DOMAIN list[f] |-> AsLine(list[f][i])]

\* save writes the next file, whatever became of the one before, and
\* writeFileToDisk is refused, succeeds, or (nobody looks at the result of write)
\* leaves a truncated file.
SaveNext ==
  /\ saving # <<>>
  /\ LET f == Head(saving) IN
       \/ UNCHANGED <<disk, synced>>
       \/ disk' = [disk EXCEPT ![f] = DataForSourceFile(f)] /\ synced' = synced \cup {f}
       \/ disk' = [disk EXCEPT ![f] = <<>>] /\ synced' = synced \ {f}
  /\ saving' = Tail(saving)
  /\ UNCHANGED <<sourceFiles, list, readable, calls, loaded, removed>>

\* Another program replaces a file, even between two of save()'s.
OthersWrite(f, content) ==
  /\ calls < MaxCalls /\ calls' = calls + 1
  /\ disk[f] # content
  /\ disk' = [disk EXCEPT ![f] = content]
  /\ synced' = synced \ {f}
  /\ UNCHANGED <<sourceFiles, list, readable, saving, loaded, removed>>

Next ==
  \/ Reload
  \/ \E f \in Files, e \in InHands : AddEntry(f, e) \/ RemoveEntry({f}, e)
  \/ \E e \in InHands : RemoveEntry(ToSet(sourceFiles), e)
  \/ Save
  \/ SaveNext
  \/ \E f \in Files, c \in Contents : OthersWrite(f, c)

-----------------------------------------------------------------------------
(* Properties *)

\* What a file contains after a save is what the next start of a program will see:
\* reading it gives the entries of the list, in order and with all that can be
\* seen of them.  Exceptions are an empty list, of which the boilerplate remains,
\* and whether an invalid entry is enabled, which setEnabled may not have changed.
AsWritten(e, b) == Visible(e) = Visible(b) \/ (~e.valid /\ ~b.valid /\ e.key = b.key)

SavedIsReloaded ==
  \A f \in synced :
    list[f] # <<>> =>
      /\ Len(disk[f]) = Len(list[f])
      /\ \A i \in DOMAIN list[f] : AsWritten(list[f][i], Parse(disk[f][i]))

\* A save takes a line from a file on the disk only if an entry that equals it was removed,
\* or if the line was not loaded: it was written by another program since, or stood in a
\* file that could not be read.  (A save that leaves a truncated file is not one.)
OnlyRemovedIsLost ==
  [][\A f \in synced' :
       saving # <<>> /\ f = Head(saving) /\ saving' = Tail(saving) /\ disk[f] # Missing =>
         \A i \in DOMAIN disk[f] :
           \/ \E j \in DOMAIN disk'[f] : AsWritten(Parse(disk[f][i]), Parse(disk'[f][j]))
           \/ \E e \in removed[f] : Equal(e, Parse(disk[f][i]))
           \/ disk[f][i] \notin ToSet(loaded[f])]_vars
=============================================================================
