------------------------------ MODULE Delivery ------------------------------
(***************************************************************************)
(* What both roles of Bluetooth promise an application that publishes:     *)
(* every peer gets only what was published since it became a member, in    *)
(* that order and each message once.  Messages may be lost.                *)
(***************************************************************************)
EXTENDS Naturals, Sequences

CONSTANT Peers

VARIABLES
  members,         \* the peers that are ready for messages
  published,       \* how many messages were published; a message is its number
  joined,          \* how many there were when each member became one
  received         \* what each member received

vars == <<members, published, joined, received>>

Init ==
  /\ members = {} /\ published = 0
  /\ joined = [p \in Peers |-> 0]
  /\ received = [p \in Peers |-> <<>>]

Publish ==
  /\ published' = published + 1
  /\ UNCHANGED <<members, joined, received>>

Join(p) ==
  /\ p \notin members
  /\ members' = members \cup {p}
  /\ joined' = [joined EXCEPT ![p] = published]
  /\ UNCHANGED <<published, received>>

Leave(p) ==
  /\ p \in members
  /\ members' = members \ {p}
  /\ joined' = [joined EXCEPT ![p] = 0]
  /\ received' = [received EXCEPT ![p] = <<>>]
  /\ UNCHANGED published

(* The messages p may still receive.                                       *)
Newer(p) ==
  {m \in joined[p] + 1 .. published :
     \A k \in 1 .. Len(received[p]) : m > received[p][k]}

Deliver(p) ==
  /\ p \in members
  /\ \E m \in Newer(p) : received' = [received EXCEPT ![p] = Append(@, m)]
  /\ UNCHANGED <<members, published, joined>>

Next == Publish \/ \E p \in Peers : Join(p) \/ Leave(p) \/ Deliver(p)

Spec == Init /\ [][Next]_vars
=============================================================================
