---------------------------- MODULE MCLagDoctor ----------------------------
(* A service in a user's manager in a slice, and a port.                    *)
EXTENDS LagDoctor, TLC

CONSTANTS slice, manager, service, port

MCInside == slice :> {manager, service} @@ manager :> {service} @@ service :> {}
MCConditions == {<<"unit_stalled", slice>>, <<"unit_stalled", manager>>, <<"turned_away", port>>}
=============================================================================
