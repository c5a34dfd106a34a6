--------------------------- MODULE MCConfigWriter ---------------------------
(* A save of both files and a save that also reaches into a second         *)
(* directory, by two threads of one process, and a batch over all files in *)
(* another order by a second process.                                      *)
EXTENDS ConfigWriter

CONSTANTS save, edit, remote, ui, mcp, users, settings, extra

Requests == {save, edit, remote}
Processes == {ui, mcp}
Files == {users, settings, extra}
Home == [r \in Requests |-> IF r = remote THEN mcp ELSE ui]
Parent == [f \in Files |-> IF f = extra THEN 2 ELSE 1]
Batches ==
  [r \in Requests |->
     CASE r = save -> <<users, settings>>
       [] r = edit -> <<users, extra>>
       [] r = remote -> <<extra, users>>]
=============================================================================
