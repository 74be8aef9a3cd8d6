------------------------------ MODULE MCProcess ------------------------------
(***************************************************************************)
(* Small instances of Process: a poll lasts three times the grace, as 30 s *)
(* to 10 s, and a stream may leave two signals waiting instead of eight.   *)
(***************************************************************************)
EXTENDS Process
=============================================================================
