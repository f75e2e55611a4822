--------------------------- MODULE SettingsProofs ---------------------------
(***************************************************************************)
(* Proofs about the files of Settings, for any sources lists, lines and    *)
(* entries, any settings, and any packages and stanzas.                    *)
(***************************************************************************)
EXTENDS Settings, FoldFacts, SequenceTheorems, TLAPS

-----------------------------------------------------------------------------
(* Entries of a sources list *)

\* Entries whose line is of their kind and key, and begins with a comment character
\* if they are not enabled.
SoundEntries ==
  {e \in Entries : /\ e.valid <=> e.line.form = "source"
                   /\ e.line.key = e.key
                   /\ ~e.enabled => e.line.hashes > 0}

\* What is read from a line is sound.
LEMMA ParsedFacts ==
  ASSUME NEW l \in Lines
  PROVE  Parse(l) \in SoundEntries
<1>1. /\ l.form \in {"source", "other"} /\ l.key \in Keys \cup Partial /\ l.comment \in Comments
      /\ l.options \in Seq(Archs) /\ l.hashes \in Nat
  BY DEF Lines
<1>2. (IF l.options = <<>> THEN NoArch ELSE l.options[Len(l.options)]) \in Archs \cup {NoArch}
  <2>1. ASSUME l.options # <<>> PROVE Len(l.options) \in 1..Len(l.options)
    BY <1>1, <2>1, EmptySeq, LenProperties
  <2> QED BY <1>1, <2>1, ElementOfSeq
<1>3. Disabled(l) \in BOOLEAN /\ (Disabled(l) => l.hashes > 0)
  BY DEF Disabled
<1> QED BY <1>1, <1>2, <1>3 DEF Parse, Entries, SoundEntries

\* A written line is one, and reading it gives what can be seen of the entry.
LEMMA WrittenFacts ==
  ASSUME NEW e \in SoundEntries
  PROVE  AsLine(e) \in Lines /\ AsWritten(e, Parse(AsLine(e)))
<1>1. /\ e \in Entries /\ e.valid \in BOOLEAN /\ e.enabled \in BOOLEAN
      /\ e.key \in Keys \cup Partial /\ e.archs \in Archs \cup {NoArch}
      /\ e.comment \in Comments /\ e.line \in Lines
      /\ (e.valid <=> e.line.form = "source") /\ e.line.key = e.key
  BY DEF SoundEntries, Entries
<1>2. CASE e.valid
  <2> DEFINE n == IF e.enabled THEN 0 ELSE 1
             options == IF e.archs = NoArch THEN <<>> ELSE <<e.archs>>
  <2>1. AsLine(e) = SourceLine(e.key, n, options, e.comment)
    BY <1>2 DEF AsLine
  <2>2. n \in Nat /\ (n > 0 <=> ~e.enabled)
    BY <1>1
  <2>3. options \in Seq(Archs)
    <3>1. CASE e.archs = NoArch
      BY <3>1, EmptySeq
    <3>2. CASE e.archs # NoArch
      BY <1>1, <3>2
    <3> QED BY <3>1, <3>2
  <2>4. (IF options = <<>> THEN NoArch ELSE options[Len(options)]) = e.archs
    <3>1. CASE e.archs = NoArch
      BY <3>1
    <3>2. CASE e.archs # NoArch
      BY <3>2
    <3> QED BY <3>1, <3>2
  <2> HIDE DEF n, options
  <2>5. e.key \in Keys /\ NoText \in Texts
    BY <1>1, <1>2, SourceEntryAssumption DEF SourceEntryAssumption, Lines
  <2>6. SourceLine(e.key, n, options, e.comment) \in Lines
    BY <1>1, <2>2, <2>3, <2>5 DEF SourceLine, Lines
  <2>7. Parse(SourceLine(e.key, n, options, e.comment))
          = [valid |-> TRUE, enabled |-> ~(n > 0), key |-> e.key, archs |-> e.archs,
             comment |-> e.comment, line |-> SourceLine(e.key, n, options, e.comment)]
    BY <2>4 DEF Parse, SourceLine, Disabled
  <2>8. e.valid = TRUE /\ e.enabled = ~(n > 0)
    BY <1>1, <1>2, <2>2, Zenon
  <2> DEFINE r == Parse(AsLine(e))
  <2>9. r.valid = e.valid /\ r.enabled = e.enabled /\ r.key = e.key /\ r.archs = e.archs /\ r.comment = e.comment
    <3> HIDE DEF n, options
    <3>1. /\ r.valid = TRUE /\ r.enabled = ~(n > 0)
          /\ r.key = e.key /\ r.archs = e.archs /\ r.comment = e.comment
      BY <2>1, <2>7
    <3> HIDE DEF r
    <3> QED BY <2>8, <3>1
  <2> HIDE DEF r
  <2>10. Visible(e) = Visible(r)
    BY <2>9, Zenon DEF Visible
  <2> QED BY <2>1, <2>6, <2>10 DEF AsWritten, r
<1>3. CASE ~e.valid
  <2>1. AsLine(e) = [e.line EXCEPT !.indented = FALSE]
    BY <1>3 DEF AsLine
  <2>2. AsLine(e) \in Lines /\ AsLine(e).form = e.line.form /\ AsLine(e).key = e.key
    BY <1>1, <2>1 DEF Lines
  <2>3. ~Parse(AsLine(e)).valid /\ Parse(AsLine(e)).key = e.key
    BY <1>1, <1>3, <2>2 DEF Parse
  <2> QED BY <1>3, <2>2, <2>3 DEF AsWritten
<1> QED BY <1>1, <1>2, <1>3

\* An application's own entries are sound.
LEMMA NewFacts ==
  ASSUME NEW e \in NewEntries
  PROVE  e \in SoundEntries
<1>1. e \in Entries /\ e.line \in Lines
  BY SourcesListAssumption DEF SourcesListAssumption, Entries
<1>2. CASE e = Parse(e.line)
  BY <1>1, <1>2, ParsedFacts
<1>3. CASE e.valid /\ e = New(e.key, e.comment, e.archs)
  <2>1. e.enabled = TRUE /\ e.line.form = "source" /\ e.line.key = e.key
    BY <1>3 DEF New, AsLine, SourceLine
  <2> QED BY <1>1, <1>3, <2>1 DEF SoundEntries
<1> QED BY <1>2, <1>3, SourcesListAssumption DEF SourcesListAssumption

\* So are those that it has enabled or disabled.
LEMMA EnabledFacts ==
  ASSUME NEW e \in SoundEntries, NEW b \in BOOLEAN
  PROVE  SetEnabled(e, b) \in SoundEntries
<1>1. /\ e \in Entries /\ e.line \in Lines /\ e.line.hashes \in Nat /\ e.line.indented \in BOOLEAN
      /\ (e.valid <=> e.line.form = "source") /\ e.line.key = e.key
      /\ e.enabled \in BOOLEAN /\ (~e.enabled => e.line.hashes > 0)
  BY DEF SoundEntries, Entries, Lines
<1> DEFINE l == Edited(e.line, b)
<1>2. CASE b = e.enabled
  BY <1>2 DEF SetEnabled
<1>3. CASE b # e.enabled
  <2>1. SetEnabled(e, b) = [e EXCEPT !.enabled = b, !.line = l]
    BY <1>3 DEF SetEnabled
  <2>2. /\ l \in Lines /\ l.form = e.line.form /\ l.key = e.line.key
        /\ ~b => l.hashes > 0
    <3>1. CASE ~b
      <4>1. l = [e.line EXCEPT !.hashes = e.line.hashes + 1, !.indented = FALSE]
        BY <3>1 DEF Edited
      <4>2. e.line.hashes + 1 \in Nat /\ e.line.hashes + 1 > 0
        BY <1>1
      <4> HIDE DEF l
      <4> QED BY <1>1, <4>1, <4>2 DEF Lines
    <3>2. CASE b /\ e.line.indented
      BY <1>1, <3>2 DEF Lines, Edited
    <3>3. CASE b /\ ~e.line.indented
      <4>1. e.line.hashes - 1 \in Nat
        <5>1. ~e.enabled
          BY <1>1, <1>3, <3>3
        <5>2. e.line.hashes > 0
          BY <1>1, <5>1
        <5> HIDE DEF l
        <5> QED BY <1>1, <5>2
      <4> QED BY <1>1, <3>3, <4>1 DEF Lines, Edited
    <3> QED BY <3>1, <3>2, <3>3
  <2> HIDE DEF l
  <2> QED BY <1>1, <2>1, <2>2 DEF SoundEntries, Entries
<1> QED BY <1>2, <1>3

-----------------------------------------------------------------------------
(* Going through a sequence *)

\* A path is taken unless it has been.
Taken(acc, f) == IF f \in ToSet(acc) THEN acc ELSE Append(acc, f)

\* What addSourcesFileList makes of paths are paths.
LEMMA DedupedFacts ==
  ASSUME NEW paths \in Seq(Files)
  PROVE  Deduped(paths) \in Seq(Files)
<1> DEFINE n == Len(paths)
           A == Seq(Files)
           step == [x \in A \X (1..n) |-> Taken(x[1], paths[x[2]])]
           Body(g) == [T \in SUBSET DOMAIN paths |->
                         IF T = {} THEN <<>>
                         ELSE LET x == Max(T) IN
                              IF paths[x] \in ToSet(g[T \ {x}])
                                THEN g[T \ {x}] ELSE Append(g[T \ {x}], paths[x])]
           iter == CHOOSE g : g = Body(g)
<1>1. n \in Nat /\ DOMAIN paths = 1..n /\ \A k \in 1..n : paths[k] \in Files
  OBVIOUS
<1>2. Deduped(paths) = iter[DOMAIN paths]
  BY DEF Deduped, FoldLeft, MapThenFoldSet
<1>3. <<>> \in A
  OBVIOUS
<1>4. \A acc \in A, k \in 1..n : Taken(acc, paths[k]) \in A
  BY <1>1 DEF Taken
<1> HIDE DEF n, A
<1>5. step \in [A \X (1..n) -> A] /\ \A acc \in A, k \in 1..n : step[<<acc, k>>] = Taken(acc, paths[k])
  BY <1>4
<1> HIDE DEF step, Body
<1>6. PICK f \in [SUBSET (1..n) -> A] : IsFold(f, n, <<>>, step)
  <2> HIDE DEF iter
  <2> QED BY <1>1, <1>3, <1>5, FoldExists
<1>7. f = Body(f)
  <2>1. ASSUME NEW T \in SUBSET (1..n), T # {}
        PROVE  f[T] = LET x == Max(T) IN
                      IF paths[x] \in ToSet(f[T \ {x}]) THEN f[T \ {x}] ELSE Append(f[T \ {x}], paths[x])
    <3>1. Max(T) \in 1..n /\ f[T \ {Max(T)}] \in A
      BY <1>1, <2>1, MaxFacts
    <3>2. f[T] = step[<<f[T \ {Max(T)}], Max(T)>>]
      BY <1>6, <2>1 DEF IsFold
    <3> QED BY <1>5, <3>1, <3>2 DEF Taken
  <2>2. f[{}] = <<>>
    BY <1>6 DEF IsFold
  <2>3. f = [T \in SUBSET (1..n) |-> f[T]]
    OBVIOUS
  <2> QED BY <1>1, <2>1, <2>2, <2>3 DEF Body
<1>8. iter = Body(iter)
  BY <1>7
<1> HIDE DEF iter
<1>9. Follows(iter, n, A, <<>>, step)
  <2>1. ASSUME NEW T \in SUBSET (1..n), T # {}, iter[T \ {Max(T)}] \in A
        PROVE  iter[T] = step[<<iter[T \ {Max(T)}], Max(T)>>]
    <3>1. Max(T) \in 1..n
      BY <1>1, <2>1, MaxFacts
    <3>2. iter[T] = Taken(iter[T \ {Max(T)}], paths[Max(T)])
      BY <1>1, <1>8, <2>1 DEF Body, Taken
    <3> QED BY <1>5, <2>1, <3>1, <3>2
  <2>2. ASSUME NEW T \in SUBSET (1..n), T = {} PROVE iter[T] = <<>>
    BY <1>1, <1>8, <2>2 DEF Body
  <2> QED BY <2>1, <2>2 DEF Follows
<1>10. PICK way \in [0..n -> A] : IsWay(way, n, <<>>, step, iter[1..n])
  BY <1>1, <1>3, <1>5, <1>9, WayOfFold
<1>11. way[n] \in A
  BY <1>1
<1> QED BY <1>1, <1>2, <1>10, <1>11 DEF IsWay, A

\* An entry is kept unless it equals the removed one.
KeptUnless(acc, x, e) == IF Equal(x, e) THEN acc ELSE Append(acc, x)

\* removeAll leaves entries of the list, among them all that do not equal the removed one.
LEMMA WithoutFacts ==
  ASSUME NEW S, NEW s \in Seq(S), NEW e
  PROVE  /\ Without(s, e) \in Seq(S)
         /\ \A i \in DOMAIN s : Equal(s[i], e) \/ s[i] \in ToSet(Without(s, e))
<1> DEFINE n == Len(s)
           A == Seq(S)
           step == [x \in A \X (1..n) |-> KeptUnless(x[1], s[x[2]], e)]
           Body(g) == [T \in SUBSET DOMAIN s |->
                         IF T = {} THEN <<>>
                         ELSE LET x == Max(T) IN
                              IF Equal(s[x], e) THEN g[T \ {x}] ELSE Append(g[T \ {x}], s[x])]
           iter == CHOOSE g : g = Body(g)
<1>1. n \in Nat /\ DOMAIN s = 1..n /\ \A k \in 1..n : s[k] \in S
  OBVIOUS
<1>2. Without(s, e) = iter[DOMAIN s]
  BY DEF Without, FoldLeft, MapThenFoldSet
<1>3. <<>> \in A
  OBVIOUS
<1>4. ASSUME NEW acc \in A, NEW x \in S
      PROVE  /\ Append(acc, x) \in A
             /\ ToSet(Append(acc, x)) = ToSet(acc) \cup {x}
  <2>1. Append(acc, x) \in Seq(S) /\ Len(Append(acc, x)) = Len(acc) + 1
        /\ \A i \in 1..Len(acc) : Append(acc, x)[i] = acc[i]
        /\ Append(acc, x)[Len(acc) + 1] = x
    BY AppendProperties
  <2>2. Len(acc) \in Nat /\ DOMAIN acc = 1..Len(acc) /\ DOMAIN Append(acc, x) = 1..(Len(acc) + 1)
    BY <2>1
  <2> QED BY <2>1, <2>2 DEF ToSet
<1>5. \A acc \in A, k \in 1..n : KeptUnless(acc, s[k], e) \in A
  BY <1>1, <1>4 DEF KeptUnless
<1> HIDE DEF n, A
<1>6. step \in [A \X (1..n) -> A] /\ \A acc \in A, k \in 1..n : step[<<acc, k>>] = KeptUnless(acc, s[k], e)
  BY <1>5
<1> HIDE DEF step, Body
<1>7. PICK f \in [SUBSET (1..n) -> A] : IsFold(f, n, <<>>, step)
  <2> HIDE DEF iter
  <2> QED BY <1>1, <1>3, <1>6, FoldExists
<1>8. f = Body(f)
  <2>1. ASSUME NEW T \in SUBSET (1..n), T # {}
        PROVE  f[T] = LET x == Max(T) IN
                      IF Equal(s[x], e) THEN f[T \ {x}] ELSE Append(f[T \ {x}], s[x])
    <3>1. Max(T) \in 1..n /\ f[T \ {Max(T)}] \in A
      BY <1>1, <2>1, MaxFacts
    <3>2. f[T] = step[<<f[T \ {Max(T)}], Max(T)>>]
      BY <1>7, <2>1 DEF IsFold
    <3> QED BY <1>6, <3>1, <3>2 DEF KeptUnless
  <2>2. f[{}] = <<>>
    BY <1>7 DEF IsFold
  <2>3. f = [T \in SUBSET (1..n) |-> f[T]]
    OBVIOUS
  <2> QED BY <1>1, <2>1, <2>2, <2>3 DEF Body
<1>9. iter = Body(iter)
  BY <1>8
<1> HIDE DEF iter
<1>10. Follows(iter, n, A, <<>>, step)
  <2>1. ASSUME NEW T \in SUBSET (1..n), T # {}, iter[T \ {Max(T)}] \in A
        PROVE  iter[T] = step[<<iter[T \ {Max(T)}], Max(T)>>]
    <3>1. Max(T) \in 1..n
      BY <1>1, <2>1, MaxFacts
    <3>2. iter[T] = KeptUnless(iter[T \ {Max(T)}], s[Max(T)], e)
      BY <1>1, <1>9, <2>1 DEF Body, KeptUnless
    <3> QED BY <1>6, <2>1, <3>1, <3>2
  <2>2. ASSUME NEW T \in SUBSET (1..n), T = {} PROVE iter[T] = <<>>
    BY <1>1, <1>9, <2>2 DEF Body
  <2> QED BY <2>1, <2>2 DEF Follows
<1>11. PICK way \in [0..n -> A] : IsWay(way, n, <<>>, step, iter[1..n])
  BY <1>1, <1>3, <1>6, <1>10, WayOfFold
<1>12. /\ \A k \in 0..n : way[k] \in A
       /\ \A k \in 0..(n - 1) : way[k + 1] = KeptUnless(way[k], s[k + 1], e)
       /\ way[n] = Without(s, e)
  <2>1. \A k \in 0..(n - 1) : k \in 0..n /\ k + 1 \in 1..n
    BY <1>1
  <2> QED BY <1>1, <1>2, <1>6, <1>11, <2>1 DEF IsWay
<1> DEFINE Seen(k) == \A i \in 1..k : Equal(s[i], e) \/ s[i] \in ToSet(way[k])
           Good == {k \in 0..n : Seen(k)}
<1>13. 0 \in Good
  BY <1>1
<1>14. ASSUME NEW k \in 0..(n - 1), k \in Good PROVE k + 1 \in Good
  <2>1. k \in 0..n /\ k + 1 \in 1..n /\ k + 1 \in 0..n /\ \A i \in 1..(k + 1) : i \in 1..k \/ i = k + 1
    BY <1>1
  <2>2. ToSet(way[k]) \subseteq ToSet(way[k + 1]) /\ (Equal(s[k + 1], e) \/ s[k + 1] \in ToSet(way[k + 1]))
    <3>1. CASE Equal(s[k + 1], e)
      BY <1>12, <3>1 DEF KeptUnless
    <3>2. CASE ~Equal(s[k + 1], e)
      <4>1. way[k + 1] = Append(way[k], s[k + 1]) /\ way[k] \in A /\ s[k + 1] \in S
        BY <1>1, <1>12, <2>1, <3>2 DEF KeptUnless
      <4> QED BY <1>4, <4>1
    <3> QED BY <3>1, <3>2
  <2> QED BY <1>14, <2>1, <2>2
<1>15. Seen(n)
  <2> HIDE DEF Good
  <2>1. \A k \in 0..n : k \in Good
    BY <1>1, <1>13, <1>14, AllNumbers
  <2> QED BY <1>1, <2>1 DEF Good
<1>16. way[n] \in A
  BY <1>1, <1>12
<1> QED BY <1>1, <1>12, <1>15, <1>16 DEF A
-----------------------------------------------------------------------------
(* Sources lists *)

\* A line that was loaded is an entry of the list as it was read, unless an equal one was removed.
LineKept(l, entries, gone) == Parse(l) \in ToSet(entries) \/ \E e \in gone : Equal(e, Parse(l))

\* A list is what a file says.
Agrees(entries, content) ==
  /\ content \in Seq(Lines)
  /\ entries # <<>> =>
       /\ Len(content) = Len(entries)
       /\ \A i \in DOMAIN entries : AsWritten(entries[i], Parse(content[i]))

ListsInv ==
  /\ sourceFiles \in Seq(Files) /\ saving \in Seq(Files) /\ synced \subseteq Files
  /\ list \in [Files -> Seq(SoundEntries)]
  /\ DOMAIN disk = Files /\ \A f \in Files : disk[f] # Missing => disk[f] \in Seq(Lines)
  /\ loaded \in [Files -> Seq(Lines)] /\ DOMAIN removed = Files
  /\ \A f \in Files : \A i \in DOMAIN loaded[f] : LineKept(loaded[f][i], list[f], removed[f])
  /\ \A f \in synced : Agrees(list[f], disk[f])

\* Reading a file makes a list that agrees with it and keeps its lines.
LEMMA LoadedFacts ==
  ASSUME NEW content \in Seq(Lines)
  PROVE  LET entries == [i \in DOMAIN content |-> Parse(content[i])]
         IN  /\ entries \in Seq(SoundEntries)
             /\ Agrees(entries, content)
             /\ \A gone : \A i \in DOMAIN content : LineKept(content[i], entries, gone)
<1> DEFINE entries == [i \in DOMAIN content |-> Parse(content[i])]
<1>1. DOMAIN content = 1..Len(content) /\ Len(content) \in Nat
  OBVIOUS
<1>2. \A i \in 1..Len(content) : Parse(content[i]) \in SoundEntries
  BY ParsedFacts
<1>3. /\ entries \in Seq(SoundEntries) /\ Len(entries) = Len(content) /\ DOMAIN entries = 1..Len(content)
      /\ \A i \in 1..Len(content) : entries[i] = Parse(content[i])
  BY <1>1, <1>2
<1> HIDE DEF entries
<1>4. Agrees(entries, content)
  BY <1>3 DEF Agrees, AsWritten
<1>5. \A gone : \A i \in DOMAIN content : LineKept(content[i], entries, gone)
  <2> SUFFICES ASSUME NEW i \in DOMAIN content PROVE Parse(content[i]) \in ToSet(entries)
    BY DEF LineKept
  <2> QED BY <1>1, <1>3 DEF ToSet
<1> QED BY <1>3, <1>4, <1>5 DEF entries

\* Writing a list makes a file that agrees with it.
LEMMA WrittenAgrees ==
  ASSUME NEW f \in Files, list[f] \in Seq(SoundEntries)
  PROVE  DataForSourceFile(f) \in Seq(Lines) /\ Agrees(list[f], DataForSourceFile(f))
<1> DEFINE entries == list[f]
           content == [i \in DOMAIN entries |-> AsLine(entries[i])]
<1>1. CASE entries = <<>>
  BY <1>1, SourcesListAssumption DEF SourcesListAssumption, DataForSourceFile, Agrees
<1>2. CASE entries # <<>>
  <2>1. DataForSourceFile(f) = content
    BY <1>2 DEF DataForSourceFile
  <2> HIDE DEF content
  <2>2. entries \in Seq(SoundEntries)
    OBVIOUS
  <2> HIDE DEF entries
  <2>3. /\ DOMAIN entries = 1..Len(entries) /\ Len(entries) \in Nat
        /\ \A i \in 1..Len(entries) : entries[i] \in SoundEntries
    BY <2>2
  <2>4. \A i \in 1..Len(entries) : AsLine(entries[i]) \in Lines /\ AsWritten(entries[i], Parse(AsLine(entries[i])))
    BY <2>3, WrittenFacts
  <2>5. /\ content \in Seq(Lines) /\ Len(content) = Len(entries)
        /\ \A i \in 1..Len(entries) : content[i] = AsLine(entries[i])
    BY <2>3, <2>4 DEF content
  <2>6. Agrees(entries, content)
    BY <2>3, <2>4, <2>5 DEF Agrees
  <2> QED BY <2>1, <2>5, <2>6 DEF entries
<1> QED BY <1>1, <1>2

\* Loading, at the start and with reload().
LEMMA LoadsFacts ==
  ASSUME NEW l, NEW d, NEW r, NEW s,
         sourceFiles \in Seq(Files),
         \A f \in Files : disk[f] # Missing => disk[f] \in Seq(Lines),
         l = [f \in Files |-> IF f \in ToSet(sourceFiles) THEN Loaded(f) ELSE <<>>],
         d = [f \in Files |-> IF f \in Known THEN disk[f] ELSE <<>>],
         r = [f \in Files |-> {}],
         s = Known
  PROVE  /\ s \subseteq Files
         /\ l \in [Files -> Seq(SoundEntries)]
         /\ d \in [Files -> Seq(Lines)] /\ DOMAIN r = Files
         /\ \A f \in Files : \A i \in DOMAIN d[f] : LineKept(d[f][i], l[f], r[f])
         /\ \A f \in s : Agrees(l[f], disk[f])
<1>1. ToSet(sourceFiles) \subseteq Files
  BY DEF ToSet
<1>2. ASSUME NEW f \in Known
      PROVE  /\ f \in Files /\ disk[f] \in Seq(Lines)
             /\ l[f] = [i \in DOMAIN disk[f] |-> Parse(disk[f][i])] /\ d[f] = disk[f]
  BY <1>1, <1>2 DEF Known, Loaded
<1>3. ASSUME NEW f \in Files, f \notin Known PROVE l[f] = <<>> /\ d[f] = <<>>
  BY <1>3 DEF Known, Loaded
<1>4. ASSUME NEW f \in Known
      PROVE  /\ l[f] \in Seq(SoundEntries) /\ d[f] \in Seq(Lines) /\ Agrees(l[f], disk[f])
             /\ \A i \in DOMAIN d[f] : LineKept(d[f][i], l[f], r[f])
  <2> DEFINE content == disk[f]
  <2>1. content \in Seq(Lines)
    BY <1>2
  <2>2. /\ l[f] = [i \in DOMAIN content |-> Parse(content[i])] /\ d[f] = content
    BY <1>2
  <2> HIDE DEF content
  <2>3. /\ [i \in DOMAIN content |-> Parse(content[i])] \in Seq(SoundEntries)
        /\ Agrees([i \in DOMAIN content |-> Parse(content[i])], content)
        /\ \A gone : \A i \in DOMAIN content :
             LineKept(content[i], [j \in DOMAIN content |-> Parse(content[j])], gone)
    BY <2>1, LoadedFacts
  <2>4. \A i \in DOMAIN content : LineKept(content[i], l[f], r[f])
    BY <2>2, <2>3
  <2> QED BY <2>1, <2>2, <2>3, <2>4 DEF content
<1>5. ASSUME NEW f \in Files, f \notin Known
      PROVE  /\ l[f] \in Seq(SoundEntries) /\ d[f] \in Seq(Lines)
             /\ \A i \in DOMAIN d[f] : LineKept(d[f][i], l[f], r[f])
  <2>1. l[f] = <<>> /\ d[f] = <<>>
    BY <1>3, <1>5
  <2>2. <<>> \in Seq(SoundEntries) /\ <<>> \in Seq(Lines) /\ DOMAIN <<>> = {}
    BY EmptySeq
  <2> QED BY <2>1, <2>2
<1> QED BY <1>2, <1>4, <1>5

LEMMA ListsInit == Init => ListsInv
<1> SUFFICES ASSUME Init PROVE ListsInv
  OBVIOUS
<1>1. PICK paths \in FileLists : sourceFiles = Deduped(paths)
  BY DEF Init
<1>2. sourceFiles \in Seq(Files)
  BY <1>1, DedupedFacts, SourcesListAssumption DEF SourcesListAssumption
<1>3. DOMAIN disk = Files /\ \A f \in Files : disk[f] # Missing => disk[f] \in Seq(Lines)
  BY SourcesListAssumption DEF Init, SourcesListAssumption
<1>4. /\ list = [f \in Files |-> IF f \in ToSet(sourceFiles) THEN Loaded(f) ELSE <<>>]
      /\ loaded = [f \in Files |-> IF f \in Known THEN disk[f] ELSE <<>>]
      /\ removed = [f \in Files |-> {}] /\ synced = Known /\ saving = <<>>
  BY DEF Init
<1>5. saving \in Seq(Files)
  BY <1>4, EmptySeq
<1> QED BY <1>2, <1>3, <1>4, <1>5, LoadsFacts DEF ListsInv

LEMMA ReloadInv ==
  ASSUME ListsInv, Reload
  PROVE  ListsInv'
<1>1. /\ list' = [f \in Files |-> IF f \in ToSet(sourceFiles) THEN Loaded(f) ELSE <<>>]
      /\ loaded' = [f \in Files |-> IF f \in Known THEN disk[f] ELSE <<>>]
      /\ removed' = [f \in Files |-> {}] /\ synced' = Known
      /\ UNCHANGED <<sourceFiles, disk, saving>>
  BY DEF Reload, Loads
<1>2. /\ sourceFiles \in Seq(Files) /\ saving \in Seq(Files) /\ DOMAIN disk = Files
      /\ \A f \in Files : disk[f] # Missing => disk[f] \in Seq(Lines)
  BY DEF ListsInv
<1>3. /\ synced' \subseteq Files
      /\ list' \in [Files -> Seq(SoundEntries)]
      /\ loaded' \in [Files -> Seq(Lines)] /\ DOMAIN removed' = Files
      /\ \A f \in Files : \A i \in DOMAIN loaded'[f] : LineKept(loaded'[f][i], list'[f], removed'[f])
      /\ \A f \in synced' : Agrees(list'[f], disk[f])
  BY <1>1, <1>2, LoadsFacts
<1> QED BY <1>1, <1>2, <1>3 DEF ListsInv

\* What an application has in its hands.
LEMMA InHandsFacts ==
  ASSUME ListsInv, NEW e \in InHands
  PROVE  e \in SoundEntries
<1>1. CASE e \in NewEntries
  BY <1>1, NewFacts
<1>2. ASSUME NEW x \in UNION {ToSet(list[f]) : f \in Files}, NEW b \in BOOLEAN, e = SetEnabled(x, b)
      PROVE  e \in SoundEntries
  <2>1. PICK f \in Files : x \in ToSet(list[f])
    BY <1>2
  <2>2. list[f] \in Seq(SoundEntries)
    BY DEF ListsInv
  <2>3. x \in SoundEntries
    BY <2>1, <2>2 DEF ToSet
  <2> QED BY <1>2, <2>3, EnabledFacts
<1> QED BY <1>1, <1>2 DEF InHands

LEMMA AddEntryInv ==
  ASSUME ListsInv, NEW f \in Files, NEW e \in SoundEntries, AddEntry(f, e)
  PROVE  ListsInv'
<1> USE DEF ListsInv
<1>1. CASE UNCHANGED <<list, synced>>
  BY <1>1 DEF AddEntry
<1>2. CASE list' = [list EXCEPT ![f] = Append(@, e)] /\ synced' = synced \ {f}
  <2>1. UNCHANGED <<sourceFiles, disk, saving, loaded, removed>>
    BY DEF AddEntry
  <2>2. list[f] \in Seq(SoundEntries)
    OBVIOUS
  <2>3. /\ list'[f] = Append(list[f], e) /\ list' \in [Files -> Seq(SoundEntries)]
        /\ \A g \in Files \ {f} : list'[g] = list[g]
    BY <1>2, <2>2
  <2>4. ToSet(list[f]) \subseteq ToSet(list'[f])
    <3>1. /\ Len(list'[f]) = Len(list[f]) + 1 /\ list'[f] \in Seq(SoundEntries)
          /\ \A i \in 1..Len(list[f]) : list'[f][i] = list[f][i]
      BY <2>2, <2>3, AppendProperties
    <3>2. DOMAIN list[f] = 1..Len(list[f]) /\ DOMAIN list'[f] = 1..Len(list'[f]) /\ Len(list[f]) \in Nat
      BY <2>2, <3>1
    <3>3. \A i \in DOMAIN list[f] : i \in DOMAIN list'[f] /\ list'[f][i] = list[f][i]
      BY <3>1, <3>2
    <3> QED BY <3>3 DEF ToSet
  <2>5. ASSUME NEW g \in Files, NEW i \in DOMAIN loaded[g]
        PROVE  LineKept(loaded[g][i], list'[g], removed[g])
    BY <2>3, <2>4 DEF LineKept
  <2>6. \A g \in synced' : Agrees(list'[g], disk[g])
    BY <1>2, <2>3
  <2> QED BY <1>2, <2>1, <2>3, <2>5, <2>6
<1> QED BY <1>1, <1>2 DEF AddEntry

LEMMA RemoveEntryInv ==
  ASSUME ListsInv, NEW files, NEW e, RemoveEntry(files, e)
  PROVE  ListsInv'
<1> USE DEF ListsInv
<1>1. /\ list' = [f \in Files |-> IF f \in files THEN Without(list[f], e) ELSE list[f]]
      /\ removed' = [f \in Files |-> IF f \in files THEN removed[f] \cup {e} ELSE removed[f]]
      /\ synced' = synced \ {f \in files : list'[f] # list[f]}
      /\ UNCHANGED <<sourceFiles, disk, saving, loaded>>
  BY DEF RemoveEntry
<1>2. ASSUME NEW f \in Files
      PROVE  /\ list'[f] \in Seq(SoundEntries)
             /\ \A i \in DOMAIN loaded[f] : LineKept(loaded[f][i], list'[f], removed'[f])
  <2>1. list[f] \in Seq(SoundEntries)
    OBVIOUS
  <2>2. CASE f \in files
    <3>1. list'[f] = Without(list[f], e) /\ removed'[f] = removed[f] \cup {e}
      BY <1>1, <2>2
    <3>2. /\ list'[f] \in Seq(SoundEntries)
          /\ \A i \in DOMAIN list[f] : Equal(list[f][i], e) \/ list[f][i] \in ToSet(list'[f])
      BY <2>1, <3>1, WithoutFacts
    <3>3. ASSUME NEW i \in DOMAIN loaded[f] PROVE LineKept(loaded[f][i], list'[f], removed'[f])
      <4>1. CASE Parse(loaded[f][i]) \in ToSet(list[f])
        <5>1. PICK j \in DOMAIN list[f] : Parse(loaded[f][i]) = list[f][j]
          BY <4>1 DEF ToSet
        <5>2. Equal(list[f][j], e) => Equal(e, list[f][j])
          BY DEF Equal
        <5> QED BY <3>1, <3>2, <5>1, <5>2 DEF LineKept
      <4>2. CASE \E x \in removed[f] : Equal(x, Parse(loaded[f][i]))
        BY <3>1, <4>2 DEF LineKept
      <4> QED BY <4>1, <4>2 DEF LineKept
    <3> QED BY <3>2, <3>3
  <2>3. CASE f \notin files
    BY <1>1, <2>3
  <2> QED BY <2>2, <2>3
<1>3. ASSUME NEW f \in synced' PROVE Agrees(list'[f], disk[f])
  <2>1. f \in synced /\ f \in Files /\ list'[f] = list[f]
    BY <1>1, <1>3
  <2> QED BY <2>1
<1> QED BY <1>1, <1>2, <1>3

LEMMA SaveNextInv ==
  ASSUME ListsInv, SaveNext
  PROVE  ListsInv'
<1> USE DEF ListsInv
<1> DEFINE f == Head(saving)
<1>1. f \in Files /\ saving' \in Seq(Files)
  BY HeadTailProperties DEF SaveNext
<1>2. UNCHANGED <<sourceFiles, list, loaded, removed>>
  BY DEF SaveNext
<1>3. CASE UNCHANGED <<disk, synced>>
  BY <1>1, <1>2, <1>3
<1>4. CASE disk' = [disk EXCEPT ![f] = DataForSourceFile(f)] /\ synced' = synced \cup {f}
  <2>1. DataForSourceFile(f) \in Seq(Lines) /\ Agrees(list[f], DataForSourceFile(f))
    BY <1>1, WrittenAgrees
  <2> HIDE DEF f
  <2>2. disk'[f] = DataForSourceFile(f) /\ DOMAIN disk' = Files /\ \A g \in Files \ {f} : disk'[g] = disk[g]
    BY <1>1, <1>4
  <2>3. \A g \in Files : disk'[g] # Missing => disk'[g] \in Seq(Lines)
    BY <2>1, <2>2
  <2>4. \A g \in synced' : Agrees(list[g], disk'[g])
    BY <1>1, <1>4, <2>1, <2>2
  <2> QED BY <1>1, <1>2, <1>4, <2>2, <2>3, <2>4
<1>5. CASE disk' = [disk EXCEPT ![f] = <<>>] /\ synced' = synced \ {f}
  <2> HIDE DEF f
  <2>1. disk'[f] = <<>> /\ DOMAIN disk' = Files /\ \A g \in Files \ {f} : disk'[g] = disk[g]
    BY <1>1, <1>5
  <2>2. \A g \in Files : disk'[g] # Missing => disk'[g] \in Seq(Lines)
    BY <2>1, EmptySeq
  <2> QED BY <1>1, <1>2, <1>5, <2>1, <2>2
<1> QED BY <1>3, <1>4, <1>5 DEF SaveNext

LEMMA ListsNext == ListsInv /\ [Next]_vars => ListsInv'
<1> SUFFICES ASSUME ListsInv, [Next]_vars PROVE ListsInv'
  OBVIOUS
<1>1. CASE Reload
  BY <1>1, ReloadInv
<1>2. ASSUME NEW f \in Files, NEW e \in InHands, AddEntry(f, e) PROVE ListsInv'
  BY <1>2, InHandsFacts, AddEntryInv
<1>3. ASSUME NEW files, NEW e, RemoveEntry(files, e) PROVE ListsInv'
  BY <1>3, RemoveEntryInv
<1>4. CASE Save
  BY <1>4 DEF Save, ListsInv
<1>5. CASE SaveNext
  BY <1>5, SaveNextInv
<1>6. ASSUME NEW f \in Files, NEW c \in Contents, OthersWrite(f, c) PROVE ListsInv'
  <2>1. c \in Seq(Lines)
    BY SourcesListAssumption DEF SourcesListAssumption
  <2>2. /\ disk' = [disk EXCEPT ![f] = c] /\ synced' = synced \ {f}
        /\ UNCHANGED <<sourceFiles, list, saving, loaded, removed>>
    BY <1>6 DEF OthersWrite
  <2>3. disk'[f] = c /\ DOMAIN disk' = Files /\ \A g \in Files \ {f} : disk'[g] = disk[g]
    BY <2>2 DEF ListsInv
  <2> QED BY <2>1, <2>2, <2>3 DEF ListsInv
<1>7. CASE UNCHANGED vars
  BY <1>7 DEF vars, ListsInv
<1> QED BY <1>1, <1>2, <1>3, <1>4, <1>5, <1>6, <1>7 DEF Next

\* The lines that were loaded are on the disk, as far as it agrees with the list.
LoadedKept ==
  \A f \in synced :
    \A i \in DOMAIN loaded[f] :
      \/ \E j \in DOMAIN disk[f] : AsWritten(Parse(loaded[f][i]), Parse(disk[f][j]))
      \/ \E e \in removed[f] : Equal(e, Parse(loaded[f][i]))

LEMMA ListsPromise == ListsInv => SavedIsReloaded /\ LoadedKept
<1> SUFFICES ASSUME ListsInv PROVE SavedIsReloaded /\ LoadedKept
  OBVIOUS
<1>1. SavedIsReloaded
  BY DEF ListsInv, Agrees, SavedIsReloaded
<1>2. ASSUME NEW f \in synced, NEW i \in DOMAIN loaded[f], Parse(loaded[f][i]) \in ToSet(list[f])
      PROVE  \E j \in DOMAIN disk[f] : AsWritten(Parse(loaded[f][i]), Parse(disk[f][j]))
  <2>1. f \in Files /\ list[f] \in Seq(SoundEntries) /\ Agrees(list[f], disk[f])
    BY DEF ListsInv
  <2>2. PICK j \in DOMAIN list[f] : Parse(loaded[f][i]) = list[f][j]
    BY <1>2 DEF ToSet
  <2>3. list[f] # <<>> /\ j \in 1..Len(list[f]) /\ DOMAIN list[f] = 1..Len(list[f])
    BY <2>1, <2>2
  <2>4. Len(disk[f]) = Len(list[f]) /\ AsWritten(list[f][j], Parse(disk[f][j]))
    BY <2>1, <2>3 DEF Agrees
  <2>5. DOMAIN disk[f] = 1..Len(disk[f])
    BY <2>1 DEF Agrees
  <2> QED BY <2>2, <2>3, <2>4, <2>5
<1>3. LoadedKept
  <2> SUFFICES ASSUME NEW f \in synced, NEW i \in DOMAIN loaded[f]
               PROVE  \/ \E j \in DOMAIN disk[f] : AsWritten(Parse(loaded[f][i]), Parse(disk[f][j]))
                      \/ \E e \in removed[f] : Equal(e, Parse(loaded[f][i]))
    BY DEF LoadedKept
  <2>1. LineKept(loaded[f][i], list[f], removed[f])
    BY DEF ListsInv
  <2> QED BY <1>2, <2>1 DEF LineKept
<1> QED BY <1>1, <1>3

\* What a save takes from a file.
Takes(f) ==
  saving # <<>> /\ f = Head(saving) /\ saving' = Tail(saving) /\ disk[f] # Missing =>
    \A i \in DOMAIN disk[f] :
      \/ \E j \in DOMAIN disk'[f] : AsWritten(Parse(disk[f][i]), Parse(disk'[f][j]))
      \/ \E e \in removed[f] : Equal(e, Parse(disk[f][i]))
      \/ disk[f][i] \notin ToSet(loaded[f])

LEMMA SavesTakeRemoved ==
  ASSUME LoadedKept', [Next]_vars, NEW f \in synced'
  PROVE  Takes(f)
<1> SUFFICES ASSUME saving # <<>>, NEW i \in DOMAIN disk[f], disk[f][i] \in ToSet(loaded[f])
             PROVE  \/ \E j \in DOMAIN disk'[f] : AsWritten(Parse(disk[f][i]), Parse(disk'[f][j]))
                    \/ \E e \in removed[f] : Equal(e, Parse(disk[f][i]))
  BY DEF Takes
<1>1. loaded' = loaded /\ removed' = removed
  BY DEF Next, Reload, AddEntry, RemoveEntry, Save, SaveNext, OthersWrite, CallMade, vars
<1>2. PICK k \in DOMAIN loaded[f] : disk[f][i] = loaded[f][k]
  BY DEF ToSet
<1>3. \/ \E j \in DOMAIN disk'[f] : AsWritten(Parse(loaded[f][k]), Parse(disk'[f][j]))
      \/ \E e \in removed[f] : Equal(e, Parse(loaded[f][k]))
  BY <1>1 DEF LoadedKept
<1> QED BY <1>2, <1>3

-----------------------------------------------------------------------------
(* apt.conf *)

AllLines == OldLines \cup {<<Statement(k, v)>> : k \in SettingKeys, v \in Values}

Buffers == [lines : Seq(AllLines), ends : {TRUE}]

Sent == [by : Configs, lines : Seq(AllLines)]

Good == begin.exists /\ begin.ends /\ Tidy(begin.lines)

\* The lines that begin with k set it to v, and nothing else.
Sets(lines, k, v) ==
  /\ Begun(lines, k) # {}
  /\ \A i \in Begun(lines, k) : lines[i] = <<Statement(k, v)>>

\* The last call of an object that is on its way carries what the object has.
Carried ==
  \A i \in DOMAIN sent :
    (\A j \in DOMAIN sent : j > i => sent[j].by # sent[i].by) => sent[i].lines = buffer[sent[i].by].lines

\* If none is on its way, the disk has what the object has whose call was the last one.
Arrived ==
  fresh # NoValue =>
    fresh \in Configs /\ ((\A i \in DOMAIN sent : sent[i].by # fresh) => onDisk = buffer[fresh].lines)

\* An object's copy has a line for each setting that the object wrote last.
ConfInv ==
  /\ DOMAIN conf = SettingKeys /\ DOMAIN lastBy = SettingKeys
  /\ Good =>
       /\ buffer \in [Configs -> Buffers] /\ newFile = [c \in Configs |-> FALSE]
       /\ \A c \in Configs : Tidy(buffer[c].lines)
       /\ \A c \in Configs, k \in SettingKeys : lastBy[k] = c => Sets(buffer[c].lines, k, conf[k])
       /\ sent \in Seq(Sent)
       /\ Carried /\ Arrived

\* A line is a sequence of at least one statement.
LEMMA LinesFacts ==
  \A l \in AllLines : Len(l) \in Nat \ {0} /\ DOMAIN l = 1..Len(l)
<1>1. \A x : Len(<<x>>) = 1 /\ DOMAIN <<x>> = 1..1
  OBVIOUS
<1> QED BY <1>1, AptConfAssumption DEF AllLines, AptConfAssumption

LEMMA ConfigInit == ConfInit => ConfInv
<1> SUFFICES ASSUME ConfInit PROVE ConfInv
  OBVIOUS
<1>1. DOMAIN conf = SettingKeys /\ DOMAIN lastBy = SettingKeys
  BY DEF ConfInit
<1>2. begin \in [exists : BOOLEAN, lines : Seq(OldLines), ends : BOOLEAN]
  BY AptConfAssumption DEF ConfInit, AptConfAssumption
<1>3. begin.lines \in Seq(AllLines)
  <2>1. begin.lines \in Seq(OldLines) /\ OldLines \subseteq AllLines
    BY <1>2 DEF AllLines
  <2> QED BY <2>1
<1>4. ASSUME Good PROVE /\ buffer \in [Configs -> Buffers] /\ newFile = [c \in Configs |-> FALSE]
                        /\ \A c \in Configs : Tidy(buffer[c].lines)
  <2>1. begin.exists = TRUE /\ begin.ends = TRUE
    BY <1>2, <1>4 DEF Good
  <2>2. buffer = [c \in Configs |-> [lines |-> begin.lines, ends |-> TRUE]]
    BY <2>1 DEF ConfInit
  <2>3. [lines |-> begin.lines, ends |-> TRUE] \in Buffers
    BY <1>3 DEF Buffers
  <2>4. buffer \in [Configs -> Buffers] /\ \A c \in Configs : buffer[c].lines = begin.lines
    BY <2>2, <2>3
  <2>5. newFile = [c \in Configs |-> FALSE]
    BY <2>1 DEF ConfInit
  <2> QED BY <1>4, <2>4, <2>5 DEF Good
<1>5. \A c \in Configs, k \in SettingKeys : lastBy[k] # c
  BY AptConfAssumption DEF ConfInit, AptConfAssumption
<1>6. sent = <<>> /\ fresh = NoValue
  BY DEF ConfInit
<1> QED BY <1>1, <1>4, <1>5, <1>6 DEF ConfInv, Carried, Arrived

\* After writeBufferEntry the lines set the key to the value, and other keys as before.
LEMMA BufferFacts ==
  ASSUME NEW b \in Buffers, Tidy(b.lines), NEW k \in SettingKeys, NEW v \in Values
  PROVE  LET w == WriteBufferEntry(b, k, v) IN
         /\ w \in Buffers /\ Tidy(w.lines)
         /\ Sets(w.lines, k, v)
         /\ \A j \in SettingKeys \ {k} : \A u : Sets(b.lines, j, u) => Sets(w.lines, j, u)
<1> DEFINE s == b.lines
           new == <<Statement(k, v)>>
           w == WriteBufferEntry(b, k, v)
<1>1. s \in Seq(AllLines) /\ DOMAIN s = 1..Len(s) /\ Len(s) \in Nat /\ b.ends = TRUE
  <2>1. s \in Seq(AllLines) /\ b.ends = TRUE
    BY DEF Buffers
  <2> HIDE DEF s, w
  <2> QED BY <2>1
<1>2. new \in AllLines /\ new[1].key = k /\ Len(new) = 1
  BY DEF AllLines, Statement
<1>3. CASE Begun(s, k) # {}
  <2> DEFINE t == [i \in DOMAIN s |-> IF i \in Begun(s, k) THEN new ELSE s[i]]
  <2>1. w = [lines |-> t, ends |-> TRUE]
    BY <1>3 DEF WriteBufferEntry
  <2> HIDE DEF s, new, w
  <2>2. /\ t \in Seq(AllLines) /\ DOMAIN t = DOMAIN s
        /\ \A i \in DOMAIN s : t[i] = IF i \in Begun(s, k) THEN new ELSE s[i]
    BY <1>1, <1>2
  <2> HIDE DEF t
  <2>3. w.lines = t /\ w \in Buffers
    BY <2>1, <2>2 DEF Buffers
  <2>4. Begun(t, k) = Begun(s, k) /\ \A i \in Begun(s, k) : t[i] = new
    BY <1>2, <2>2 DEF Begun
  <2>5. Sets(t, k, v)
    BY <1>3, <2>4 DEF Sets, new
  <2>6. ASSUME NEW j \in SettingKeys \ {k} PROVE Begun(t, j) = Begun(s, j) /\ \A i \in Begun(s, j) : t[i] = s[i]
    BY <1>2, <2>2 DEF Begun
  <2>7. Tidy(t)
    <3> SUFFICES ASSUME NEW j \in SettingKeys, NEW i \in DOMAIN t, Begun(t, j) # {},
                        NEW m \in 2..Len(t[i]), t[i][m].key = j
                 PROVE  \E h \in Begun(t, j) : i <= h
      BY DEF Tidy
    <3>1. t[i] = s[i] /\ i \in DOMAIN s
      BY <1>2, <2>2
    <3>2. Begun(s, j) = Begun(t, j)
      BY <2>4, <2>6
    <3> QED BY <3>1, <3>2 DEF Tidy, s
  <2>8. ASSUME NEW j \in SettingKeys \ {k}, NEW u, Sets(s, j, u) PROVE Sets(t, j, u)
    BY <2>6, <2>8 DEF Sets
  <2> QED BY <2>3, <2>5, <2>7, <2>8 DEF w, s
<1>4. CASE Begun(s, k) = {}
  <2> DEFINE t == Append(s, new)
             n == Len(s) + 1
  <2>1. w = [lines |-> t, ends |-> TRUE]
    BY <1>1, <1>4 DEF WriteBufferEntry
  <2> HIDE DEF s, new, w
  <2>2. /\ t \in Seq(AllLines) /\ DOMAIN t = 1..n /\ t[n] = new
        /\ \A i \in 1..Len(s) : t[i] = s[i]
    BY <1>1, <1>2, AppendProperties
  <2> HIDE DEF t
  <2>3. n \in DOMAIN t /\ \A i \in DOMAIN t : i = n \/ (i \in DOMAIN s /\ i # n /\ t[i] = s[i])
    BY <1>1, <2>2
  <2>4. \A i \in DOMAIN s : i \in DOMAIN t /\ i <= n /\ i # n /\ t[i] = s[i]
    BY <1>1, <2>2
  <2>5. w.lines = t /\ w \in Buffers
    BY <2>1, <2>2 DEF Buffers
  <2> HIDE DEF n
  <2>6. Begun(t, k) = {n}
    BY <1>2, <1>4, <2>2, <2>3 DEF Begun
  <2>7. ASSUME NEW j \in SettingKeys \ {k} PROVE Begun(t, j) = Begun(s, j) /\ \A i \in Begun(s, j) : t[i] = s[i]
    BY <1>2, <2>2, <2>3, <2>4 DEF Begun
  <2>8. Sets(t, k, v)
    BY <2>2, <2>6 DEF Sets, new
  <2>9. Tidy(t)
    <3> SUFFICES ASSUME NEW j \in SettingKeys, NEW i \in DOMAIN t, Begun(t, j) # {},
                        NEW m \in 2..Len(t[i]), t[i][m].key = j
                 PROVE  \E h \in Begun(t, j) : i <= h
      BY DEF Tidy
    <3>1. i \in DOMAIN s /\ t[i] = s[i] /\ i <= n
      BY <1>2, <2>2, <2>3, <2>4
    <3>2. CASE j = k
      BY <2>6, <3>1, <3>2
    <3>3. CASE j # k
      BY <2>7, <3>1, <3>3 DEF Tidy, s
    <3> QED BY <3>2, <3>3
  <2>10. ASSUME NEW j \in SettingKeys \ {k}, NEW u, Sets(s, j, u) PROVE Sets(t, j, u)
    BY <2>7, <2>10 DEF Sets
  <2> QED BY <2>5, <2>8, <2>9, <2>10 DEF w, s
<1> QED BY <1>3, <1>4

\* What an object writes keeps what it and the others have.
LEMMA WriteEntryInv ==
  ASSUME ConfInv, NEW c \in Configs, NEW k \in SettingKeys, NEW v \in Values, WriteEntry(c, k, v)
  PROVE  ConfInv'
<1>1. /\ conf' = [conf EXCEPT ![k] = v] /\ lastBy' = [lastBy EXCEPT ![k] = c]
      /\ begin' = begin /\ onDisk' = onDisk /\ fresh' = fresh
      /\ sent' = Append(sent, [by |-> c, lines |-> buffer'[c].lines])
  BY DEF WriteEntry
<1>2. DOMAIN conf' = SettingKeys /\ DOMAIN lastBy' = SettingKeys
  BY <1>1 DEF ConfInv
<1>3. ASSUME Good
      PROVE  /\ buffer' \in [Configs -> Buffers] /\ newFile' = [d \in Configs |-> FALSE]
             /\ \A d \in Configs : Tidy(buffer'[d].lines)
             /\ \A d \in Configs, j \in SettingKeys : lastBy'[j] = d => Sets(buffer'[d].lines, j, conf'[j])
             /\ sent' \in Seq(Sent)
             /\ Carried' /\ Arrived'
  <2>1. /\ buffer \in [Configs -> Buffers] /\ newFile = [d \in Configs |-> FALSE]
        /\ \A d \in Configs : Tidy(buffer[d].lines)
        /\ sent \in Seq(Sent) /\ Carried /\ Arrived
    BY <1>3 DEF ConfInv
  <2> DEFINE w == WriteBufferEntry(buffer[c], k, v)
  <2>2. buffer' = [buffer EXCEPT ![c] = w] /\ newFile' = newFile
    BY <2>1 DEF WriteEntry
  <2>3. /\ w \in Buffers /\ Tidy(w.lines) /\ Sets(w.lines, k, v)
        /\ \A j \in SettingKeys \ {k} : \A u : Sets(buffer[c].lines, j, u) => Sets(w.lines, j, u)
    BY <2>1, BufferFacts
  <2> HIDE DEF w
  <2>4. /\ buffer' \in [Configs -> Buffers]
        /\ buffer'[c] = w /\ \A d \in Configs \ {c} : buffer'[d] = buffer[d]
    BY <2>1, <2>2, <2>3
  <2>5. \A d \in Configs : Tidy(buffer'[d].lines)
    BY <2>1, <2>3, <2>4
  <2>6. ASSUME NEW d \in Configs, NEW j \in SettingKeys, lastBy'[j] = d
        PROVE  Sets(buffer'[d].lines, j, conf'[j])
    <3>1. CASE j = k
      <4>1. d = c /\ conf'[j] = v
        BY <1>1, <2>6, <3>1 DEF ConfInv
      <4> QED BY <2>3, <2>4, <3>1, <4>1
    <3>2. CASE j # k
      <4>1. lastBy[j] = d /\ conf'[j] = conf[j]
        BY <1>1, <2>6, <3>2 DEF ConfInv
      <4>2. Sets(buffer[d].lines, j, conf[j])
        BY <1>3, <2>6, <4>1 DEF ConfInv
      <4> QED BY <2>3, <2>4, <3>2, <4>1, <4>2
    <3> QED BY <3>1, <3>2
  <2> DEFINE new == [by |-> c, lines |-> buffer'[c].lines]
             n   == Len(sent) + 1
  <2>7. new \in Sent
    BY <2>4 DEF Buffers, Sent
  <2>8. /\ sent' \in Seq(Sent)
        /\ DOMAIN sent' = 1..n /\ sent'[n] = new /\ \A i \in DOMAIN sent : sent'[i] = sent[i]
        /\ DOMAIN sent = 1..Len(sent) /\ Len(sent) \in Nat
    <3> HIDE DEF new
    <3> QED BY <1>1, <2>1, <2>7, AppendProperties DEF new
  <2>9. /\ n \in DOMAIN sent' /\ \A i \in DOMAIN sent : i \in DOMAIN sent' /\ n > i
        /\ \A i \in DOMAIN sent' : i = n \/ i \in DOMAIN sent
    BY <2>8
  <2>10. new.by = c /\ new.lines = buffer'[c].lines
    OBVIOUS
  <2> HIDE DEF n, new
  <2>11. Carried'
    <3> SUFFICES ASSUME NEW i \in DOMAIN sent', \A j \in DOMAIN sent' : j > i => sent'[j].by # sent'[i].by
                 PROVE  sent'[i].lines = buffer'[sent'[i].by].lines
      BY DEF Carried
    <3>1. CASE i = n
      BY <2>8, <2>10, <3>1
    <3>2. CASE i \in DOMAIN sent
      <4>1. sent'[i] = sent[i] /\ sent[i].by # c
        BY <2>8, <2>9, <2>10, <3>2
      <4>2. \A j \in DOMAIN sent : j > i => sent[j].by # sent[i].by
        BY <2>8, <2>9, <3>2
      <4>3. sent[i].by \in Configs
        <5>1. sent[i] \in Sent
          BY <2>1, <3>2
        <5> QED BY <5>1 DEF Sent
      <4> QED BY <2>1, <2>4, <3>2, <4>1, <4>2, <4>3 DEF Carried
    <3> QED BY <2>9, <3>1, <3>2
  <2>12. Arrived'
    <3> SUFFICES ASSUME fresh # NoValue, \A i \in DOMAIN sent' : sent'[i].by # fresh
                 PROVE  onDisk = buffer'[fresh].lines
      BY <1>1, <2>1 DEF Arrived
    <3>1. fresh # c
      BY <2>8, <2>9, <2>10
    <3>2. \A i \in DOMAIN sent : sent[i].by # fresh
      BY <2>8, <2>9
    <3> QED BY <2>1, <2>4, <3>1, <3>2 DEF Arrived
  <2> QED BY <2>1, <2>2, <2>4, <2>5, <2>6, <2>8, <2>11, <2>12
<1> QED BY <1>1, <1>2, <1>3 DEF ConfInv, Good

\* What arrives is the last that its object sent, or more of the object is to come.
LEMMA WorkerWritesInv ==
  ASSUME ConfInv, WorkerWrites
  PROVE  ConfInv'
<1>1. /\ sent # <<>> /\ sent' = Tail(sent)
      /\ UNCHANGED <<begin, buffer, newFile, conf, writes, lastBy>>
  BY DEF WorkerWrites
<1>2. ASSUME Good
      PROVE  sent' \in Seq(Sent) /\ Carried' /\ Arrived'
  <2>1. sent \in Seq(Sent) /\ Carried /\ Arrived
    BY <1>2 DEF ConfInv
  <2>2. /\ sent' \in Seq(Sent)
        /\ DOMAIN sent' = 1..(Len(sent) - 1) /\ DOMAIN sent = 1..Len(sent)
        /\ \A i \in DOMAIN sent' : sent'[i] = sent[i + 1]
        /\ Len(sent) \in Nat /\ 1 \in DOMAIN sent /\ Head(sent) = sent[1]
    BY <1>1, <2>1
  <2>3. /\ \A i \in DOMAIN sent' : i + 1 \in DOMAIN sent
        /\ \A j \in DOMAIN sent : j = 1 \/ (j - 1 \in DOMAIN sent' /\ sent'[j - 1] = sent[j])
    BY <2>2
  <2>4. Carried'
    <3> SUFFICES ASSUME NEW i \in DOMAIN sent', \A j \in DOMAIN sent' : j > i => sent'[j].by # sent'[i].by
                 PROVE  sent'[i].lines = buffer[sent'[i].by].lines
      BY <1>1 DEF Carried
    <3>1. ASSUME NEW j \in DOMAIN sent, j > i + 1 PROVE sent[j].by # sent[i + 1].by
      <4>1. j - 1 \in DOMAIN sent' /\ sent'[j - 1] = sent[j] /\ j - 1 > i
        BY <2>2, <2>3, <3>1
      <4> QED BY <2>2, <4>1
    <3> QED BY <2>1, <2>2, <2>3, <3>1 DEF Carried
  <2>5. sent[1].by \in Configs
    <3>1. sent[1] \in Sent
      BY <2>1, <2>2
    <3> QED BY <3>1 DEF Sent
  <2>6. Arrived'
    <3>1. CASE onDisk' = Head(sent).lines /\ fresh' = Head(sent).by
      <4> SUFFICES ASSUME \A i \in DOMAIN sent' : sent'[i].by # sent[1].by
                   PROVE  onDisk' = buffer[sent[1].by].lines
        BY <1>1, <2>2, <2>5, <3>1 DEF Arrived
      <4>1. \A j \in DOMAIN sent : j > 1 => sent[j].by # sent[1].by
        BY <2>2, <2>3
      <4>2. sent[1].lines = buffer[sent[1].by].lines
        BY <2>1, <2>2, <4>1 DEF Carried
      <4> QED BY <2>2, <3>1, <4>2
    <3>2. CASE fresh' = NoValue
      BY <3>2 DEF Arrived
    <3>3. CASE onDisk' = onDisk /\ fresh' = IF fresh = Head(sent).by THEN NoValue ELSE fresh
      <4> SUFFICES ASSUME fresh' # NoValue
                   PROVE  /\ fresh' \in Configs
                          /\ (\A i \in DOMAIN sent' : sent'[i].by # fresh') => onDisk' = buffer[fresh'].lines
        BY <1>1 DEF Arrived
      <4>1. fresh' = fresh /\ fresh # sent[1].by
        BY <2>2, <3>3
      <4>2. ASSUME \A i \in DOMAIN sent' : sent'[i].by # fresh PROVE \A j \in DOMAIN sent : sent[j].by # fresh
        BY <2>3, <4>1, <4>2
      <4> QED BY <2>1, <3>3, <4>1, <4>2 DEF Arrived
    <3> QED BY <3>1, <3>2, <3>3 DEF WorkerWrites
  <2> QED BY <2>2, <2>4, <2>6
<1> QED BY <1>1, <1>2 DEF ConfInv, Good

LEMMA ConfigNext == ConfInv /\ [ConfNext]_confVars => ConfInv'
<1>1. ASSUME ConfInv, UNCHANGED confVars PROVE ConfInv'
  BY <1>1 DEF confVars, ConfInv, Good, Carried, Arrived
<1> QED BY <1>1, WriteEntryInv, WorkerWritesInv DEF ConfNext

\* In tidy lines, apt finds what they set.
LEMMA FoundFacts ==
  ASSUME NEW lines \in Seq(AllLines), NEW k \in SettingKeys, NEW v, Sets(lines, k, v), Tidy(lines)
  PROVE  Found(lines, k) = v
<1> DEFINE places == UNION {{i} \X DOMAIN lines[i] : i \in DOMAIN lines}
           Bare1(p) == \A j \in 1..(p[2] - 1) : lines[p[1]][j].key # "#"
           mine == {p \in places : lines[p[1]][p[2]].key = k /\ Bare1(p)}
           IsLast(p) == \A q \in mine : q[1] < p[1] \/ (q[1] = p[1] /\ q[2] <= p[2])
           set == Begun(lines, k)
           top == Max(set)
<1>1. /\ DOMAIN lines = 1..Len(lines) /\ Len(lines) \in Nat
      /\ \A i \in DOMAIN lines : DOMAIN lines[i] = 1..Len(lines[i]) /\ Len(lines[i]) \in Nat \ {0}
  BY LinesFacts
<1>2. set # {} /\ set \subseteq 1..Len(lines)
  BY <1>1 DEF Sets, Begun
<1>3. top \in set /\ \A i \in set : top >= i
  BY <1>1, <1>2, MaxFacts
<1>4. /\ \A i \in set : lines[i] = <<Statement(k, v)>>
      /\ \A i \in DOMAIN lines : i \in set <=> lines[i][1].key = k
  BY DEF Sets, Begun
<1> HIDE DEF top, set
<1>5. ASSUME NEW i \in DOMAIN lines, NEW m \in DOMAIN lines[i], lines[i][m].key = k
      PROVE  i < top \/ (i = top /\ m = 1)
  <2> i \in Nat /\ top \in Nat /\ m \in Nat /\ m >= 1
    BY <1>1, <1>2, <1>3
  <2>1. CASE i \in set
    <3>1. m = 1
      <4>1. \A x : Len(<<x>>) = 1
        OBVIOUS
      <4>2. Len(lines[i]) = 1
        BY <1>4, <2>1, <4>1
      <4> QED BY <1>1, <4>2
    <3> QED BY <1>3, <2>1, <3>1
  <2>2. CASE i \notin set
    <3>1. m \in 2..Len(lines[i])
      <4>1. m # 1
        BY <1>4, <1>5, <2>2
      <4> QED BY <1>1, <4>1
    <3>2. PICK h \in set : i <= h
      BY <1>2, <1>5, <3>1 DEF Tidy, set
    <3>3. h \in Nat /\ h <= top /\ i # top
      BY <1>1, <1>2, <1>3, <2>2, <3>2
    <3> QED BY <3>2, <3>3
  <2> QED BY <2>1, <2>2
<1>6. <<top, 1>> \in mine
  <2>1. top \in DOMAIN lines /\ 1 \in DOMAIN lines[top] /\ lines[top][1].key = k
    BY <1>1, <1>2, <1>3, <1>4
  <2>2. Bare1(<<top, 1>>)
    OBVIOUS
  <2> QED BY <2>1, <2>2
<1>7. ASSUME NEW q \in mine
      PROVE  q[1] \in DOMAIN lines /\ q[2] \in DOMAIN lines[q[1]] /\ (q[1] < top \/ (q[1] = top /\ q[2] = 1))
             /\ q = <<q[1], q[2]>>
  <2>1. PICK i \in DOMAIN lines : q \in {i} \X DOMAIN lines[i]
    BY <1>7
  <2>2. q[1] = i /\ q[2] \in DOMAIN lines[i] /\ q = <<q[1], q[2]>>
    BY <2>1
  <2>3. lines[q[1]][q[2]].key = k
    BY <1>7
  <2> QED BY <1>5, <2>2, <2>3
<1>8. IsLast(<<top, 1>>)
  BY <1>7
<1>9. ASSUME NEW p \in mine, IsLast(p) PROVE p = <<top, 1>>
  <2>1. top < p[1] \/ (top = p[1] /\ 1 <= p[2])
    BY <1>6, <1>9
  <2>2. p[1] \in Nat /\ top \in Nat
    BY <1>1, <1>2, <1>3, <1>7
  <2>3. p[1] = top /\ p[2] = 1
    BY <1>7, <2>1, <2>2
  <2> QED BY <1>7, <2>3
<1> DEFINE last == CHOOSE p \in mine : IsLast(p)
<1>10. last = <<top, 1>>
  <2> HIDE DEF mine, IsLast
  <2> QED BY <1>6, <1>8, <1>9
<1>11. Found(lines, k) = IF mine = {} THEN NoValue ELSE lines[last[1]][last[2]].value
  BY DEF Found
<1>12. lines[top][1].value = v
  BY <1>3, <1>4 DEF Statement
<1> HIDE DEF mine, last
<1> QED BY <1>6, <1>10, <1>11, <1>12

LEMMA ConfigPromise == ConfInv => NextProgramAgrees
<1> SUFFICES ASSUME ConfInv, Good, sent = <<>>,
                    NEW k \in SettingKeys, lastBy[k] # NoValue, lastBy[k] = fresh
             PROVE  Found(onDisk, k) = conf[k]
  BY DEF NextProgramAgrees, WritesAreKept, Good
<1>1. fresh \in Configs /\ onDisk = buffer[fresh].lines
  BY DEF ConfInv, Arrived
<1>2. onDisk \in Seq(AllLines) /\ Sets(onDisk, k, conf[k]) /\ Tidy(onDisk)
  BY <1>1 DEF ConfInv, Buffers
<1> QED BY <1>2, FoundFacts

-----------------------------------------------------------------------------
(* Pins *)

\* The file of a pin that was asked for has its stanza; every stanza is of a name that had
\* one; as long as each is in the file of its name, it was asked for.
PinInv ==
  /\ DOMAIN pins = PinNames /\ DOMAIN wanted = OwnFiles
  /\ \A n \in OwnFiles : wanted[n] = "pin" => n \in pins[n]
  /\ \A f \in Existing : pins[f] \subseteq given
  /\ ~mixed => \A f \in Existing, n \in OwnFiles : n \in pins[f] => n = f /\ wanted[n] = "pin"

LEMMA PinsInit == PinInit => PinInv
<1> SUFFICES ASSUME PinInit PROVE PinInv
  OBVIOUS
<1>1. DOMAIN pins = PinNames /\ DOMAIN wanted = OwnFiles
  BY DEF PinInit
<1>2. \A n \in OwnFiles : wanted[n] = "pin" <=> n \in pins[n]
  BY DEF PinInit
<1>3. \A f \in Existing : pins[f] \subseteq given
  BY DEF PinInit
<1>4. ~mixed => \A f \in Existing, n \in OwnFiles : n \in pins[f] => n = f
  BY DEF PinInit
<1> QED BY <1>1, <1>2, <1>3, <1>4 DEF PinInv

\* Stanzas that are copied had been there, and are of other names.
LEMMA LastFileFacts ==
  ASSUME PinInv, NEW n
  PROVE  LastFile(n) \subseteq given /\ n \notin LastFile(n)
<1> DEFINE I == {i \in DOMAIN PinOrder : PinOrder[i] \in Existing}
<1>1. LastFile(n) = IF I = {} THEN {} ELSE pins[PinOrder[Max(I)]] \ {n}
  BY DEF LastFile
<1>2. CASE I = {}
  BY <1>1, <1>2
<1>3. CASE I # {}
  <2>1. I \subseteq 1..Len(PinOrder) /\ Len(PinOrder) \in Nat
    <3>1. DOMAIN PinOrder = 1..Len(PinOrder) /\ Len(PinOrder) \in Nat
      <4>1. PinOrder \in Seq(PinNames)
        BY PinFilesAssumption
      <4> QED BY <4>1
    <3> QED BY <3>1
  <2>2. Max(I) \in I
    BY <1>3, <2>1, MaxFacts
  <2>3. PinOrder[Max(I)] \in Existing
    BY <2>2
  <2> QED BY <1>1, <1>3, <2>3 DEF PinInv
<1> QED BY <1>2, <1>3

\* A file of a package's name is written, with its stanza if a pin was asked for.
LEMMA WrittenPins ==
  ASSUME PinInv, NEW n \in OwnFiles, NEW stanzas, NEW wish, WritePins(n, stanzas, wish),
         wish = "pin" => n \in stanzas,
         given \subseteq given', stanzas \subseteq given', mixed => mixed',
         ~mixed' => \A m \in OwnFiles : m \in stanzas => m = n /\ wish = "pin"
  PROVE  PinInv'
<1>1. n \in PinNames /\ n # "no file"
  BY PinFilesAssumption DEF PinFilesAssumption
<1>2. ASSUME NEW new, NEW w, pins' = [pins EXCEPT ![n] = new], wanted' = [wanted EXCEPT ![n] = w],
             w = "pin" => n \in new, new \subseteq given',
             ~mixed' => \A m \in OwnFiles : m \in new => m = n /\ w = "pin"
      PROVE  PinInv'
  <2>1. /\ DOMAIN pins' = PinNames /\ DOMAIN wanted' = OwnFiles
        /\ pins'[n] = new /\ wanted'[n] = w
        /\ \A f \in PinNames \ {n} : pins'[f] = pins[f]
        /\ \A m \in OwnFiles \ {n} : wanted'[m] = wanted[m]
    BY <1>1, <1>2 DEF PinInv
  <2>2. OwnFiles \subseteq PinNames
    BY PinFilesAssumption DEF PinFilesAssumption
  <2>3. \A m \in OwnFiles : wanted'[m] = "pin" => m \in pins'[m]
    BY <1>2, <2>1, <2>2 DEF PinInv
  <2>4. \A f \in Existing' : f = n \/ (f # n /\ f \in Existing /\ pins'[f] = pins[f])
    BY <2>1 DEF Existing
  <2>5. \A f \in Existing' : pins'[f] \subseteq given'
    BY <1>2, <2>1, <2>4 DEF PinInv
  <2>6. ASSUME ~mixed', NEW f \in Existing', NEW m \in OwnFiles, m \in pins'[f]
        PROVE  m = f /\ wanted'[m] = "pin"
    <3>1. CASE f = n
      BY <1>2, <2>1, <2>6, <3>1
    <3>2. CASE f # n
      <4>1. m = f /\ wanted[m] = "pin"
        BY <2>4, <2>6, <3>2 DEF PinInv
      <4> QED BY <2>1, <3>2, <4>1
    <3> QED BY <3>1, <3>2
  <2> QED BY <2>1, <2>3, <2>5, <2>6 DEF PinInv
<1>3. CASE pins' = [pins EXCEPT ![n] = stanzas] /\ wanted' = [wanted EXCEPT ![n] = wish]
  BY <1>2, <1>3
<1>4. CASE pins' = [pins EXCEPT ![n] = {}] /\ wanted' = [wanted EXCEPT ![n] = "none"]
  <2>1. PICK new, w : new = {} /\ w = "none"
    OBVIOUS
  <2>2. pins' = [pins EXCEPT ![n] = new] /\ wanted' = [wanted EXCEPT ![n] = w]
    BY <1>4, <2>1
  <2>3. /\ w # "pin" /\ new \subseteq given'
        /\ \A m \in OwnFiles : m \notin new
    BY <2>1
  <2> QED BY <1>2, <2>2, <2>3
<1>5. CASE UNCHANGED <<pins, wanted>>
  BY <1>5 DEF PinInv, Existing
<1> QED BY <1>3, <1>4, <1>5 DEF WritePins

LEMMA PinsNext == PinInv /\ [PinNext]_pinVars => PinInv'
<1> SUFFICES ASSUME PinInv, [PinNext]_pinVars PROVE PinInv'
  OBVIOUS
<1>1. ASSUME UNCHANGED <<pins, wanted, given, mixed>> PROVE PinInv'
  BY <1>1 DEF PinInv, Existing
<1>2. CASE ReloadPins
  BY <1>1, <1>2 DEF ReloadPins
<1>3. ASSUME NEW p \in PinPackages, Pin(p) PROVE PinInv'
  <2>1. CASE p \in isPinned
    BY <1>1, <1>3, <2>1 DEF Pin
  <2>2. CASE p \notin isPinned
    <3>1. /\ WritePins(PinName[p], {PinName[p]}, "pin")
          /\ given' = given \cup {PinName[p]} /\ mixed' = mixed
      BY <1>3, <2>2 DEF Pin
    <3>2. PinName[p] \in OwnFiles
      BY DEF OwnFiles
    <3> QED BY <3>1, <3>2, WrittenPins
  <2> QED BY <2>1, <2>2
<1>4. ASSUME NEW p \in PinPackages, Unpin(p) PROVE PinInv'
  <2> DEFINE n == PinName[p]
  <2>1. /\ WritePins(n, LastFile(n), "unpin")
        /\ given' = given /\ mixed' = (mixed \/ LastFile(n) # {})
    BY <1>4 DEF Unpin
  <2>2. n \in OwnFiles
    BY DEF OwnFiles
  <2>3. LastFile(n) \subseteq given
    BY LastFileFacts
  <2> HIDE DEF n
  <2> QED BY <2>1, <2>2, <2>3, WrittenPins
<1>5. CASE UNCHANGED pinVars
  BY <1>1, <1>5 DEF pinVars
<1> QED BY <1>2, <1>3, <1>4, <1>5 DEF PinNext

LEMMA PinsPromise == PinInv => PinsAsWanted
<1> SUFFICES ASSUME PinInv PROVE PinsAsWanted
  OBVIOUS
<1>1. ASSUME NEW p \in PinPackages, PinName[p] = p, wanted[p] = "pin" PROVE p \in Pinned
  <2>1. p \in OwnFiles /\ p \in PinNames /\ p # "no file"
    BY <1>1, PinFilesAssumption DEF OwnFiles, PinFilesAssumption
  <2>2. p \in pins[p]
    BY <1>1, <2>1 DEF PinInv
  <2> QED BY <1>1, <2>1, <2>2 DEF Pinned, Existing, NoFile
<1>2. ASSUME NEW p \in Pinned PROVE p \in given /\ (~mixed => wanted[p] = "pin")
  <2>1. p \in OwnFiles /\ \E f \in Existing : p \in pins[f]
    BY <1>2 DEF Pinned, OwnFiles
  <2> QED BY <2>1 DEF PinInv
<1> QED BY <1>1, <1>2 DEF PinsAsWanted

-----------------------------------------------------------------------------
(* The files together *)

SettingsInv == ListsInv /\ ConfInv /\ PinInv

LEMMA SettingsInvariance == SettingsSpec => []SettingsInv
<1>1. SettingsInit => SettingsInv
  BY ListsInit, ConfigInit, PinsInit DEF SettingsInit, SettingsInv
<1>2. SettingsInv /\ [SettingsNext]_settingsVars => SettingsInv'
  <2>1. [SettingsNext]_settingsVars => [Next]_vars /\ [ConfNext]_confVars /\ [PinNext]_pinVars
    BY DEF SettingsNext, settingsVars
  <2> QED BY <2>1, ListsNext, ConfigNext, PinsNext DEF SettingsInv
<1> QED BY <1>1, <1>2, PTL DEF SettingsSpec

\* What reload() or the next program reads from a file that was saved is what the list
\* had, entry for entry, for any lines and whatever other files, programs and refused
\* writes did.
THEOREM SavedIsAlwaysReloaded == SettingsSpec => []SavedIsReloaded
<1>1. SettingsInv => SavedIsReloaded
  BY ListsPromise DEF SettingsInv
<1> QED BY <1>1, SettingsInvariance, PTL

\* A save takes a line from a file only if the application removed an equal entry, or if
\* the line had not been loaded: for any files, lines, entries, other programs and refused
\* or truncated writes.
THEOREM OnlyRemovedIsEverLost == SettingsSpec => OnlyRemovedIsLost
<1>1. SettingsInv => LoadedKept
  BY ListsPromise DEF SettingsInv
<1>2. LoadedKept' /\ [SettingsNext]_settingsVars => [\A f \in synced' : Takes(f)]_vars
  <2>1. [SettingsNext]_settingsVars => [Next]_vars
    BY DEF SettingsNext, settingsVars
  <2> QED BY <2>1, SavesTakeRemoved
<1>3. [\A f \in synced' : Takes(f)]_vars <=>
        [\A f \in synced' :
           saving # <<>> /\ f = Head(saving) /\ saving' = Tail(saving) /\ disk[f] # Missing =>
             \A i \in DOMAIN disk[f] :
               \/ \E j \in DOMAIN disk'[f] : AsWritten(Parse(disk[f][i]), Parse(disk'[f][j]))
               \/ \E e \in removed[f] : Equal(e, Parse(disk[f][i]))
               \/ disk[f][i] \notin ToSet(loaded[f])]_vars
  BY DEF Takes
<1> QED BY <1>1, <1>2, <1>3, SettingsInvariance, PTL DEF SettingsSpec, OnlyRemovedIsLost

\* If apt.conf began as tidy lines with ends, the next program finds there what was last
\* written through the object whose copy is on the disk: for any objects, keys and values,
\* lines of other programs, and writes on their way, refused or truncated.
THEOREM NextProgramAlwaysAgrees == SettingsSpec => []NextProgramAgrees
<1>1. SettingsInv => NextProgramAgrees
  BY ConfigPromise DEF SettingsInv
<1> QED BY <1>1, SettingsInvariance, PTL

\* A pin that a call wrote stays until its file is written again, no package gets a pin that
\* never had one, and what is pinned was asked for as long as each stanza is in the file of
\* its name: for any packages and names, and files with any stanzas.
THEOREM PinsAreAlwaysAsWanted == SettingsSpec => []PinsAsWanted
<1>1. SettingsInv => PinsAsWanted
  BY PinsPromise DEF SettingsInv
<1> QED BY <1>1, SettingsInvariance, PTL
=============================================================================
