------------------------------ MODULE Settings -----------------------------
(***************************************************************************)
(* What libqapt keeps in files below /etc/apt, each written as a whole by  *)
(* WorkerDaemon::writeFileToDisk: sources lists, apt.conf and pins.  They  *)
(* share nothing else; a behaviour is about one of them.                   *)
(***************************************************************************)
EXTENDS SourcesList, AptConf, PinFiles

VARIABLE topic

settingsVars == <<topic, vars, confVars, pinVars>>

\* One initial state each for what a behaviour is not about.
SourcesRest ==
  /\ sourceFiles = Deduped(CHOOSE paths \in FileLists : TRUE)
  /\ disk = [f \in Files |-> Missing] /\ readable = [f \in Files |-> TRUE]
ConfRest == ~begin.exists
PinsRest == pins = [n \in PinNames |-> NoFile]

SettingsInit ==
  /\ topic \in {"sources", "conf", "pins"}
  /\ topic # "sources" => SourcesRest
  /\ Init
  /\ ConfInit /\ (topic # "conf" => ConfRest)
  /\ topic # "pins" => PinsRest
  /\ PinInit

SettingsNext ==
  \/ topic = "sources" /\ Next /\ UNCHANGED <<topic, confVars, pinVars>>
  \/ topic = "conf" /\ ConfNext /\ UNCHANGED <<topic, vars, pinVars>>
  \/ topic = "pins" /\ PinNext /\ UNCHANGED <<topic, vars, confVars>>

SettingsSpec == SettingsInit /\ [][SettingsNext]_settingsVars

\* The types of all three.
SettingsTypeOK == topic \in {"sources", "conf", "pins"} /\ TypeOK /\ ConfTypeOK /\ PinTypeOK
=============================================================================
