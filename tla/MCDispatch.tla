---------------------------- MODULE MCDispatch -----------------------------
(* An instance of Dispatch: a gamemode and a filterscript.                 *)
EXTENDS Dispatch

MCScripts == <<"gamemode", "filterscript">>

\* Both have the callback OnLoad; the hooks are in the filterscript.
MCDefines == [s \in {"gamemode", "filterscript"} |->
  IF s = "gamemode" THEN {"OnLoad"} ELSE {"OnLoad", "OnQueryExecute", "OnQueryError"}]
=============================================================================
