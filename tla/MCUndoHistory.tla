--------------------------- MODULE MCUndoHistory ---------------------------
(* A new application needs an installed tool, which needs an installed       *)
(* library that comes before it; stacks of up to two states.                 *)
EXTENDS UndoHistory

CONSTANTS app, lib, tool

MCOrder    == <<lib, tool, app>>
MCRequires == (app :> {tool}) @@ (tool :> {lib}) @@ (lib :> {})

=============================================================================
