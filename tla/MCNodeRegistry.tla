--------------------------- MODULE MCNodeRegistry ---------------------------
(***************************************************************************)
(* The registry with two sections, of which one has a content that the host *)
(* drops.  The slots of reports are interchangeable.                        *)
(***************************************************************************)
EXTENDS NodeRegistry, TLC

CONSTANTS cpu, unit

MCUnfit == [s \in Sections |-> IF s = unit THEN {MaxVersion} ELSE {}]
SlotsAreAlike == Permutations(Slots)
=============================================================================
