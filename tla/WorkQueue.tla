----------------------------- MODULE WorkQueue -----------------------------
(***************************************************************************)
(* The part of Zephyr's work queues the firmware relies on: a FIFO of work *)
(* items in which an item is pending at most once, and delayed items that  *)
(* wait on a timeout before they are put in the FIFO.  Both are values, so *)
(* that the modules that own a queue say what one handler does to it as a  *)
(* composition of these operators.                                         *)
(***************************************************************************)
EXTENDS Naturals, Sequences, SequencesExt

(* The items that are pending in the FIFO q. *)
Pending(q) == ToSet(q)

(* k_work_submit_to_queue: an item that is already pending is left where   *)
(* it is, any other goes to the end.                                       *)
Submit(q, w) == IF w \in Pending(q) THEN q ELSE Append(q, w)

(* k_delayed_work_submit_to_queue first takes the item back from the FIFO  *)
(* (its timeout may already have expired) and then starts the timeout: the *)
(* callers add it to the set of armed items.                               *)
Cancel(q, w) ==
  IF w \in Pending(q) THEN RemoveAt(q, CHOOSE i \in DOMAIN q : q[i] = w) ELSE q
=============================================================================
