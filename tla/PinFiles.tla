------------------------------ MODULE PinFiles -----------------------------
(***************************************************************************)
(* Backend::setPackagePinned and loadPackagePins: packages are pinned by   *)
(* stanzas in files of preferences.d, of which each name of a package has  *)
(* one, whoever wrote it.  Names are without the architecture, so that a   *)
(* foreign package shares name, file and stanza with its native namesake.  *)
(***************************************************************************)
EXTENDS Integers, SequencesExt

CONSTANTS
  PinPackages, \* packages
  PinName,     \* PinName[p]: Package::name(), under which only p = PinName[p] is found
  PinOrder,    \* the files that may exist, in the order in which they are read: names
               \* of packages and of others, "preferences" last
  OldPins,     \* what files may contain at first: sets of names
  MaxPins      \* bound: calls

PinNames == ToSet(PinOrder)
OwnFiles == {PinName[p] : p \in PinPackages}
NoFile   == {"no file"}

ASSUME PinFilesAssumption ==
  /\ OwnFiles \subseteq PinNames /\ PinOrder \in Seq(PinNames)
  /\ "no file" \notin OwnFiles /\ MaxPins \in Nat

VARIABLES
  pins,     \* for each file the names in its stanzas, or NoFile
  isPinned, \* IsPinned of the packages
  pinCalls, \* calls so far
  \* history
  wanted,   \* for each file of a package's name what the last call that wrote it asked
            \* for, at first "pin" if it has a stanza of its name
  given,    \* names of which there was a stanza at first, or of which a call wrote one
  mixed     \* a name may have a stanza in a file of another name

pinVars == <<pins, isPinned, pinCalls, wanted, given, mixed>>

PinTypeOK ==
  /\ DOMAIN pins = PinNames
  /\ isPinned \subseteq PinPackages
  /\ pinCalls \in 0..MaxPins
  /\ wanted \in [OwnFiles -> {"none", "pin", "unpin"}] /\ mixed \in BOOLEAN

Existing == {f \in PinNames : pins[f] # NoFile}

\* loadPackagePins
Pinned == {p \in PinPackages : PinName[p] = p /\ \E f \in Existing : p \in pins[f]}

PinInit ==
  /\ pins \in [PinNames -> OldPins \cup {NoFile}]
  /\ isPinned = Pinned
  /\ pinCalls = 0
  /\ wanted = [n \in OwnFiles |-> IF n \in pins[n] THEN "pin" ELSE "none"]
  /\ given = UNION {pins[f] : f \in Existing}
  /\ mixed = (\E f \in Existing, n \in OwnFiles : n \in pins[f] /\ n # f)

\* reloadCache makes the packages anew and reads the pins.
ReloadPins ==
  /\ pinCalls < MaxPins /\ pinCalls' = pinCalls + 1
  /\ isPinned' = Pinned
  /\ UNCHANGED <<pins, wanted, given, mixed>>

-----------------------------------------------------------------------------
\* writeFileToDisk of a file of a package's name succeeds, leaves a truncated file, or is
\* refused.
WritePins(n, stanzas, wish) ==
  \/ pins' = [pins EXCEPT ![n] = stanzas] /\ wanted' = [wanted EXCEPT ![n] = wish]
  \/ pins' = [pins EXCEPT ![n] = {}] /\ wanted' = [wanted EXCEPT ![n] = "none"]
  \/ UNCHANGED <<pins, wanted>>

\* Mutant: the pin is added to the file that is read last.
PinSomewhere(p) ==
  /\ pinCalls < MaxPins /\ pinCalls' = pinCalls + 1
  /\ pins' = [pins EXCEPT ![Last(PinOrder)] = (@ \ NoFile) \cup {PinName[p]}]
  /\ wanted' = [wanted EXCEPT ![PinName[p]] = "pin"]
  /\ given' = given \cup {PinName[p]}
  /\ UNCHANGED <<isPinned, mixed>>

\* setPackagePinned(p, true): nothing is done if the package was pinned when the
\* cache was loaded; otherwise the file of its name becomes one stanza.
Pin(p) ==
  /\ pinCalls < MaxPins /\ pinCalls' = pinCalls + 1
  /\ IF p \in isPinned
       THEN UNCHANGED <<pins, wanted, given>>
       ELSE /\ WritePins(PinName[p], {PinName[p]}, "pin")
            /\ given' = given \cup {PinName[p]}
  /\ UNCHANGED <<isPinned, mixed>>

\* The stanzas of the last file that exists, which is the only one whose copy is left.
LastFile(n) ==
  LET I == {i \in DOMAIN PinOrder : PinOrder[i] \in Existing}
  IN  IF I = {} THEN {} ELSE pins[PinOrder[Max(I)]] \ {n}

\* setPackagePinned(p, false): what is meant for each file becomes the content of that
\* of the package's name.  A stanza that cannot be read ends it, as a refused write does.
Unpin(p) ==
  /\ pinCalls < MaxPins /\ pinCalls' = pinCalls + 1
  /\ WritePins(PinName[p], LastFile(PinName[p]), "unpin")
  /\ mixed' = (mixed \/ LastFile(PinName[p]) # {})
  /\ UNCHANGED <<isPinned, given>>

PinNext == ReloadPins \/ \E p \in PinPackages : Pin(p) \/ Unpin(p)

PinSpec == PinInit /\ [][PinNext]_pinVars

-----------------------------------------------------------------------------
(* Properties *)

\* A pin that a call wrote is in force until a later call, for a package of the same name,
\* writes its file; copying gives no package a pin that never had one; and as long as each
\* stanza is in the file of its name, what is pinned is what was asked for.  Stanzas of
\* other names in the file of a package's name are lost when it is written.
PinsAsWanted ==
  /\ \A p \in PinPackages : PinName[p] = p /\ wanted[p] = "pin" => p \in Pinned
  /\ Pinned \subseteq given
  /\ ~mixed => \A p \in Pinned : wanted[p] = "pin"

\* backend.h:788: "Whether to pin or unpin the package".  A stanza may be in another file,
\* where it stays.
UnpinUnpins == \A p \in PinPackages : wanted[PinName[p]] = "unpin" => p \notin Pinned

\* Calls for other packages take no pin away.  They do if the stanza is in their file.
OthersStayPinned ==
  [][\A p \in Pinned : wanted'[p] = wanted[p] => p \in Pinned']_pinVars
=============================================================================
