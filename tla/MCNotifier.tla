----------------------------- MODULE MCNotifier -----------------------------
(* Small instances of Notifier: which settings the operator moves between.  *)
EXTENDS Notifier

Settings(channels, floor) == [channels |-> channels, floor |-> floor, resolved |-> TRUE, offline |-> TRUE]

(* A channel may come and go, and the floor may be raised to critical.      *)
AnySettings == {Settings(TRUE, 1), Settings(TRUE, 2), Settings(FALSE, 1)}
(* One channel, configured all along.                                       *)
FixedSettings == {Settings(TRUE, 1)}
=============================================================================
