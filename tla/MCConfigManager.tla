--------------------------- MODULE MCConfigManager ---------------------------
(* A browser session and a caller of the reload endpoint at the web server,*)
(* and the MCP server beside it.                                           *)
EXTENDS ConfigManager

(* The text editor saves while no request is under way; within requests it *)
(* is the other writers, and hooks, that change files.                     *)
EditorWaits ==
  handEdits' # handEdits => \A a \in Actor : request[a].pc \in {"idle", "pushUsers", "pushSettings", "pull"}

(* What the MCP server does with the files it has read concerns nobody     *)
(* else: its steps between two of its looks at the disk come at once.      *)
Private == {"load", "adoptHooks", "register", "adoptSettings", "adoptUsers", "adoptRevisions"}
McpAdopts == request[Mcp].pc \in Private => request'[Mcp].pc # request[Mcp].pc
=============================================================================
