------------------------------ MODULE AptConf ------------------------------
(***************************************************************************)
(* QApt::Config: writeEntry sets an entry of libapt's configuration, which *)
(* is the process's, edits a copy of apt.conf that the object read when it *)
(* was made, and has the worker write the whole copy to the disk, without  *)
(* waiting for it.                                                         *)
(*                                                                         *)
(* A file is a sequence of lines, a line a sequence of statements, of      *)
(* which the first one's key is that which writeBufferEntry looks at.  A   *)
(* line that begins in another way, indented or with the name of a block,  *)
(* has a first statement of its own for that, and a comment one with the   *)
(* key "#", behind which nothing is found.                                 *)
(***************************************************************************)
EXTENDS Integers, SequencesExt

CONSTANTS
  Configs,     \* Config objects of the process (a Backend has one of its own)
  SettingKeys, \* keys that the application writes
  Values,
  NoValue,
  OldLines,    \* lines of other programs
  Begins,      \* apt.conf when the objects are made
  MaxWrites    \* bound: writeEntry calls

ASSUME AptConfAssumption ==
  /\ NoValue \notin Values /\ NoValue \notin Configs
  /\ \A l \in OldLines : Len(l) \in Nat \ {0} /\ DOMAIN l = 1..Len(l)
  /\ Begins \subseteq [exists : BOOLEAN, lines : Seq(OldLines), ends : BOOLEAN]
  /\ \A b \in Begins : ~b.exists => b.lines = <<>>

VARIABLES
  begin,    \* how apt.conf was found; ends: whether its last line has an end
  buffer,   \* d->buffer of each object: lines, and whether the last one has an end
  newFile,  \* d->newFile
  conf,     \* _config
  sent,     \* calls of writeFileToDisk on their way to the worker
  onDisk,   \* lines of apt.conf
  writes,   \* calls of writeEntry so far
  \* history
  lastBy,   \* the object that wrote a setting last
  fresh     \* the object whose copy the worker wrote last, NoValue if none or if a later
            \* one of it was refused

confVars == <<begin, buffer, newFile, conf, sent, onDisk, writes, lastBy, fresh>>

Statement(k, v) == [key |-> k, value |-> v]

ConfTypeOK ==
  /\ begin \in Begins
  /\ \A c \in Configs : \A i \in DOMAIN buffer[c].lines : Len(buffer[c].lines[i]) > 0
  /\ newFile \in [Configs -> BOOLEAN]
  /\ conf \in [SettingKeys -> Values \cup {NoValue}]
  /\ Len(sent) <= writes /\ writes \in 0..MaxWrites
  /\ lastBy \in [SettingKeys -> Configs \cup {NoValue}] /\ fresh \in Configs \cup {NoValue}

ConfInit ==
  /\ begin \in Begins
  /\ onDisk = begin.lines
  /\ buffer = [c \in Configs |-> [lines |-> begin.lines, ends |-> begin.ends]]
  /\ newFile = [c \in Configs |-> ~begin.exists]
  /\ conf = [k \in SettingKeys |-> NoValue]
  /\ sent = <<>> /\ writes = 0
  /\ lastBy = [k \in SettingKeys |-> NoValue] /\ fresh = NoValue

-----------------------------------------------------------------------------
\* Mutant: only the last line is looked at, and a new statement comes first.
WriteBufferEntryLast(b, k, v) ==
  IF b.lines # <<>> /\ Last(b.lines)[1].key = k
    THEN [lines |-> Append(Front(b.lines), <<Statement(k, v)>>), ends |-> TRUE]
    ELSE [lines |-> <<<<Statement(k, v)>>>> \o b.lines, ends |-> TRUE]

\* The lines that begin with a key.
Begun(lines, k) == {i \in DOMAIN lines : lines[i][1].key = k}

\* writeBufferEntry: every line that begins with the key becomes the statement; if
\* there is none, the statement is appended, behind the last line if that has no end.
WriteBufferEntry(b, k, v) ==
  IF Begun(b.lines, k) # {}
    THEN [lines |-> [i \in DOMAIN b.lines |->
                       IF i \in Begun(b.lines, k) THEN <<Statement(k, v)>> ELSE b.lines[i]],
          ends  |-> TRUE]
    ELSE [lines |-> IF b.ends \/ b.lines = <<>>
                      THEN Append(b.lines, <<Statement(k, v)>>)
                      ELSE Append(Front(b.lines), Append(Last(b.lines), Statement(k, v))),
          ends  |-> TRUE]

\* writeEntry.  The first one for a file that did not exist writes no end of line.
\* The buffer and _config are changed whatever becomes of the file.
WriteEntry(c, k, v) ==
  /\ writes < MaxWrites /\ writes' = writes + 1
  /\ buffer' = [buffer EXCEPT ![c] =
                  IF newFile[c] THEN [lines |-> Append(@.lines, <<Statement(k, v)>>), ends |-> FALSE]
                                ELSE WriteBufferEntry(@, k, v)]
  /\ newFile' = [newFile EXCEPT ![c] = FALSE]
  /\ conf' = [conf EXCEPT ![k] = v]
  /\ lastBy' = [lastBy EXCEPT ![k] = c]
  /\ sent' = Append(sent, [by |-> c, lines |-> buffer'[c].lines])
  /\ UNCHANGED <<begin, onDisk, fresh>>

\* writeFileToDisk in the worker, for one call after the other: it is done, or leaves a
\* truncated file, or is refused.
WorkerWrites ==
  /\ sent # <<>> /\ sent' = Tail(sent)
  /\ LET c == Head(sent).by IN
       \/ onDisk' = Head(sent).lines /\ fresh' = c
       \/ onDisk' = <<>> /\ fresh' = NoValue
       \/ onDisk' = onDisk /\ fresh' = IF fresh = c THEN NoValue ELSE fresh
  /\ UNCHANGED <<begin, buffer, newFile, conf, writes, lastBy>>

ConfNext == WorkerWrites \/ \E c \in Configs, k \in SettingKeys, v \in Values : WriteEntry(c, k, v)

ConfSpec == ConfInit /\ [][ConfNext]_confVars

-----------------------------------------------------------------------------
(* Properties *)

\* What apt finds for a key: the last statement counts.
Found(lines, k) ==
  LET mine == {p \in UNION {{i} \X DOMAIN lines[i] : i \in DOMAIN lines} :
                 /\ lines[p[1]][p[2]].key = k
                 /\ \A j \in 1..(p[2] - 1) : lines[p[1]][j].key # "#"}
      last == CHOOSE p \in mine : \A q \in mine : q[1] < p[1] \/ (q[1] = p[1] /\ q[2] <= p[2])
  IN IF mine = {} THEN NoValue ELSE lines[last[1]][last[2]].value

\* A setting that begins a line is found behind another statement only in that line, or
\* in an earlier one.
Tidy(lines) ==
  \A k \in SettingKeys, i \in DOMAIN lines :
    (Begun(lines, k) # {} /\ \E j \in 2..Len(lines[i]) : lines[i][j].key = k)
      => \E h \in Begun(lines, k) : i <= h

\* config.h:99: "Writes a value to the APT configuration object, and applies it": when
\* all calls have arrived, the next program finds in apt.conf all settings that were last
\* written through the object whose copy is on the disk, those included whose own write
\* was refused.  A setting that the stale copy of another object has overwritten is not
\* among them (see ObjectsAgree).
WritesAreKept ==
  sent = <<>> =>
    \A k \in SettingKeys : lastBy[k] # NoValue /\ lastBy[k] = fresh => Found(onDisk, k) = conf[k]

\* So it is if apt.conf existed, its last line had an end, and Tidy held of its lines;
\* otherwise WritesAreKept can fail.
NextProgramAgrees == begin.exists /\ begin.ends /\ Tidy(begin.lines) => WritesAreKept

\* The same of what any object wrote, if the last write was not refused.  It is not so: an
\* object writes what it has read when it was made.
ObjectsAgree ==
  begin.exists /\ begin.ends /\ Tidy(begin.lines) /\ sent = <<>> /\ fresh # NoValue =>
    \A k \in SettingKeys : lastBy[k] # NoValue => Found(onDisk, k) = conf[k]
=============================================================================
