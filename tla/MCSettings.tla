---------------------------- MODULE MCSettings -----------------------------
(* Files whose lines differ in what operator== looks at and in what it does *)
(* not, lines that parseData gives up, and new entries that meet them.      *)
EXTENDS Settings

MCContents ==
  { <<SourceLine("a", 0, <<"amd64">>, ""), SourceLine("a", 2, <<"i386">>, "c")>>,
    <<OtherLine("deb", 0, "signed1"), [OtherLine("deb", 1, "signed2") EXCEPT !.indented = TRUE],
      SourceLine("a", 0, <<"i386", "amd64">>, "")>>,
    <<>> }

MCNewEntries == {New("b", "", NoArch), New("a", "c", "i386")}

MCBoilerplate == <<OtherLine("", 2, "see"), OtherLine("", 1, "note")>>

MCFileLists == {<<"f1", "f1", "f2">>, <<"f1">>}

Line(keys) == [i \in DOMAIN keys |-> Statement(keys[i], NoValue)]

MCOldLines == {Line(keys) : keys \in {<<"A">>, <<"A", "B">>, <<"C">>, <<" ", "A">>, <<"#", "B">>}}

\* No file; files whose last line has no end; tidy ones; one that is not.
MCBegins ==
  {[exists |-> FALSE, lines |-> <<>>, ends |-> TRUE],
   [exists |-> TRUE, lines |-> <<Line(<<"A">>)>>, ends |-> FALSE],
   [exists |-> TRUE, lines |-> <<Line(<<"C">>), Line(<<"#", "B">>)>>, ends |-> FALSE],
   [exists |-> TRUE, lines |-> <<Line(<<" ", "A">>), Line(<<"C">>), Line(<<"A", "B">>)>>, ends |-> TRUE],
   [exists |-> TRUE, lines |-> <<Line(<<"A", "B">>), Line(<<"#", "B">>), Line(<<"A">>)>>, ends |-> TRUE],
   [exists |-> TRUE, lines |-> <<Line(<<"A">>), Line(<<" ", "A">>)>>, ends |-> TRUE]}

MCOldPins == {{"p"}, {"q", "p"}, {"q"}}

MCPinName == [x \in {"p", "q", "q:foreign"} |-> IF x = "q:foreign" THEN "q" ELSE x]

MCPinOrder == <<"other", "p", "q", "preferences">>
=============================================================================
