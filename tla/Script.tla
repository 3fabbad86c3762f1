-------------------------------- MODULE Script --------------------------------
(***************************************************************************)
(* A run of the script: with --input for a specification, or without it to *)
(* import, build and export.  What --import and --export do before --input *)
(* is no different; with the pieces of the generator's runs none collide.  *)
(***************************************************************************)
EXTENDS Generator, PieceExport

NoInput == [types |-> <<>>, generate |-> <<>>, requires |-> {}, full |-> FALSE]

scriptVars == <<vars, exportVars>>

ScriptInit ==
    \/ Init /\ ExportInit("off")
    \/ /\ ExportInit("import")
       /\ spec = NoInput
       /\ phase = "skipped"
       /\ needed = {} /\ reqs = {} /\ order = <<>> /\ writeOf = <<>>

ScriptNext ==
    \/ stage = "off" /\ Next /\ UNCHANGED exportVars
    \/ stage # "off" /\ ExportStep /\ UNCHANGED vars

(* The script goes on; what the user asks of it next is another matter. *)
ScriptSpec ==
    /\ ScriptInit
    /\ [][ScriptNext]_scriptVars
    /\ WF_scriptVars(Next /\ UNCHANGED exportVars)
=============================================================================
