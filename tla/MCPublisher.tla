----------------------------- MODULE MCPublisher -----------------------------
(* Values for Publisher: sizes and types of two bytes, bytes of eight      *)
(* values.                                                                 *)
EXTENDS Publisher

MCOk == <<7>>
MCHeartbeat == <<6, 6>>
MCError == <<5, 4, 5>>
==============================================================================
