------------------------------ MODULE Choices -------------------------------
(***************************************************************************)
(* Ways to come to marks other than package by package: a file of          *)
(* selections, a .deb file, requests for GStreamer plugins; and a choice   *)
(* of versions, in a cache with one package of its own.  A behaviour is    *)
(* about one of them.                                                      *)
(***************************************************************************)
EXTENDS Selections, DebCheck, CandidateVersions, PluginSearch

VARIABLE kind

choiceVars == <<kind, markVars, selVars, debVars, versionVars, pluginVars>>

AnyFile     == CHOOSE f \in OtherFiles : TRUE
AnyDeb      == CHOOSE x \in Debs : TRUE
AnyRequests == CHOOSE r \in Requests : TRUE

SelectionsIdle == file = AnyFile
DebIdle        == deb = AnyDeb
PluginsIdle    == requests = AnyRequests /\ ~strict
VersionsIdle   == lists = MaxVersion /\ installed = 0 /\ idFile = "id"

ChoiceInit ==
  /\ kind \in {"selections", "deb", "version", "plugins"}
  /\ SelInit     /\ (kind # "selections" => SelectionsIdle)
  /\ DebInit     /\ (kind # "deb" => DebIdle)
  /\ VersionInit /\ (kind # "version" => VersionsIdle)
  /\ PluginInit  /\ (kind # "plugins" => PluginsIdle)

ChoiceNext ==
  /\ \/ kind = "selections" /\ SelNext /\ UNCHANGED <<debVars, versionVars, pluginVars>>
     \/ kind = "deb" /\ DebNext /\ UNCHANGED <<selVars, versionVars, pluginVars>>
     \/ kind = "version" /\ VersionNext /\ UNCHANGED <<markVars, selVars, debVars, pluginVars>>
     \/ kind = "plugins" /\ PluginNext /\ UNCHANGED <<selVars, debVars, versionVars>>
  /\ UNCHANGED kind

ChoiceSpec == ChoiceInit /\ [][ChoiceNext]_choiceVars
=============================================================================
