----------------------------- MODULE MCHciUart -----------------------------
(* Two buffers of each kind, as many ACL packets under way, one command.    *)
EXTENDS HciUart

MCPool == [t \in Types |-> 2]
MCCredits == [t \in Types |-> IF t = "cmd" THEN 1 ELSE 2]
=============================================================================
