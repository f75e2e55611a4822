--------------------------- MODULE MCPackageMarks ---------------------------
(* A new application with a new plugin, which needs an installed library, of *)
(* which there is a newer version, and an installed tool that needs it, too. *)
EXTENDS PackageMarks

CONSTANTS app, plugin, tool, base

MCPackages    == {app, plugin, tool, base}
MCCacheOrder  == <<app, plugin, tool, base>>
MCNameOrder   == <<base, plugin, app, tool>>
MCRequires    == [p \in MCPackages |->
                    CASE p = app -> {plugin} [] p \in {plugin, tool} -> {base} [] OTHER -> {}]

=============================================================================
