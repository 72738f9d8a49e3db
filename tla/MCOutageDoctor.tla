--------------------------- MODULE MCOutageDoctor ---------------------------
(* A web server that needs a database, which needs a mount.                 *)
EXTENDS OutageDoctor, TLC

CONSTANTS web, db, disk

MCUnits == {web, db, disk}
MCNeeds == web :> {db} @@ db :> {disk} @@ disk :> {}
MCStates == web :> {"running", "settled", "failed", "stopped"} @@ db :> {"running", "failed"} @@ disk :> {"running", "failed"}
MCOwner == [p \in Ports |-> web]
=============================================================================
