----------------------------- MODULE MCConnector -----------------------------
(* Values for Connector: lists of no, one and two addresses. *)
EXTENDS Connector, TLC

CONSTANTS a, b

MCLists == {<<>>, <<a>>, <<a, b>>}
MCSymmetry == Permutations(Object)
MCOne == {<<a>>}
==============================================================================
