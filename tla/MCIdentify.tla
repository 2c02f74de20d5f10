----------------------------- MODULE MCIdentify -----------------------------
(* Values for Identify: sizes and types of two bytes, bytes of eight values. *)
EXTENDS Identify

MCReplies == {[type |-> 0, data |-> <<7>>], [type |-> 0, data |-> <<3, 0, 1>>],
              [type |-> 1, data |-> <<5, 4>>]}
MCHeartbeat == [type |-> 0, data |-> <<6, 6>>]
==============================================================================
