-------------------------- MODULE MCCarpenterDemo --------------------------
(***************************************************************************)
(* Instances of the whole game.                                            *)
(***************************************************************************)
EXTENDS CarpenterDemo, TLC

\* Items differ only in what has happened to them, so states that differ by a
\* renaming of items are the same for every safety property.
ItemSymmetry == Permutations(Items)
=============================================================================
