---------------------------- MODULE MCCommandStore ----------------------------
(* A job, a dev server and a TUI that the user's config can make           *)
(* interactive, in one pane.                                              *)
EXTENDS CommandLife, TLC

CONSTANTS build, server, tui, sh, claude, noargv, empty

MCCommands == {build, server, tui}
MCShells == {sh}
MCAgents == {claude}
MCClassKind == (build :> "job") @@ (server :> "service") @@ (tui :> "job")
MCFailCodes == {"one", "two"}
MCNone == {}
MCNone1 == {{}}
MCPanes == {1}
\* An extra interactive program is set and later removed.
MCToggled == {{}, {tui}}
MCRemote == {{}, {build}}
==============================================================================
