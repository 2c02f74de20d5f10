----------------------------- MODULE MCConsumer -----------------------------
(* Values for Consumer: the kinds of fault a run allows. *)
EXTENDS Consumer

AllFaults == {"close", "error", "crash", "timeout", "double_answer"}
=============================================================================
