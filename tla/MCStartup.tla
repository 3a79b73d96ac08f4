----------------------------- MODULE MCStartup ------------------------------
(* Values for the constants of Startup: no candidate, ones that are kept,   *)
(* ones that are dropped, and a line that cannot be read.                   *)
EXTENDS Startup

SomeAnswers == {{}, {"address"}, {"unknown", "name"}, {"malformed", "unknown"}}
=============================================================================
