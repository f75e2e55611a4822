---------------------------- MODULE SourceEntry ----------------------------
(***************************************************************************)
(* QApt::SourceEntry: one line of a sources.list file, what parseData      *)
(* takes from it and what toString makes of that.                          *)
(*                                                                         *)
(* A line is a "source" line, whose type, URI, distribution and components *)
(* are one value of Keys, or any "other" line: blank, a comment, or a      *)
(* source that is not supported (an option besides arch) or not complete.  *)
(* The fields that parseData had read of such a line before it gave up are *)
(* a value of Partial, and its words a value of Texts.                     *)
(***************************************************************************)
EXTENDS Sequences, Naturals

CONSTANTS Keys, Partial, Texts, Archs, Comments,
          NoArch, NoText, NoComment  \* an empty list, nothing but #, an empty string

ASSUME SourceEntryAssumption ==
  /\ Keys \cap Partial = {}
  /\ NoArch \notin Archs /\ NoText \in Texts /\ NoComment \in Comments

\* hashes: comment characters in front; indented: white space before them.
\* options: the values of the arch options in brackets.
SourceLine(k, n, options, c) ==
  [form |-> "source", indented |-> FALSE, hashes |-> n, key |-> k, options |-> options,
   comment |-> c, text |-> NoText]

OtherLine(part, n, t) ==
  [form |-> "other", indented |-> FALSE, hashes |-> n, key |-> part, options |-> <<>>,
   comment |-> NoComment, text |-> t]

Lines ==
  {l \in [form : {"source", "other"}, indented : BOOLEAN, hashes : Nat, key : Keys \cup Partial,
          options : Seq(Archs), comment : Comments, text : Texts] :
     /\ l.form = "source" <=> l.key \in Keys
     /\ l.form = "other" => l.options = <<>> /\ l.comment = NoComment}

Entries == [valid : BOOLEAN, enabled : BOOLEAN, key : Keys \cup Partial,
            archs : Archs \cup {NoArch}, comment : Comments, line : Lines]

\* A single comment character with nothing behind it returns before it counts.
Disabled(l) == l.hashes > 0 /\ ~(l.text = NoText /\ l.form = "other" /\ l.hashes = 1)

\* parseData: of several arch options the last one counts.
Parse(l) ==
  [valid   |-> l.form = "source",
   enabled |-> ~Disabled(l),
   key     |-> l.key,
   archs   |-> IF l.options = <<>> THEN NoArch ELSE l.options[Len(l.options)],
   comment |-> l.comment,
   line    |-> l]

\* Mutant: toString forgets the architectures.
AsLineArchless(e) ==
  IF e.valid THEN SourceLine(e.key, IF e.enabled THEN 0 ELSE 1, <<>>, e.comment)
             ELSE [e.line EXCEPT !.indented = FALSE]

\* toString: an invalid line is written as it is, without surrounding white space.
AsLine(e) ==
  IF e.valid
    THEN SourceLine(e.key, IF e.enabled THEN 0 ELSE 1,
                    IF e.archs = NoArch THEN <<>> ELSE <<e.archs>>, e.comment)
    ELSE [e.line EXCEPT !.indented = FALSE]

\* The constructor with fields.
New(k, c, a) ==
  LET e == [valid |-> TRUE, enabled |-> TRUE, key |-> k, archs |-> a, comment |-> c,
            line |-> SourceLine(k, 0, <<>>, c)]
  IN [e EXCEPT !.line = AsLine(e)]

\* setEnabled edits the line by one character at its front.
Edited(l, b) ==
  IF ~b THEN [l EXCEPT !.hashes = @ + 1, !.indented = FALSE]
  ELSE IF l.indented THEN [l EXCEPT !.indented = FALSE]
  ELSE [l EXCEPT !.hashes = @ - 1]

SetEnabled(e, b) ==
  IF b = e.enabled THEN e ELSE [e EXCEPT !.enabled = b, !.line = Edited(@, b)]

\* operator==, which addEntry, removeEntry and containsEntry use.
Equal(e, f) == e.enabled = f.enabled /\ e.key = f.key

\* All that an application can see of an entry.
Visible(e) == <<e.valid, e.enabled, e.key, e.archs, e.comment>>
=============================================================================
