---------------------------- MODULE CommsProofs ----------------------------
(***************************************************************************)
(* The serial line of Comms, for every size of its buffers, every length   *)
(* of a message or a write, and every interleaving of the interrupt with   *)
(* the threads.                                                            *)
(***************************************************************************)
EXTENDS Comms, Integers, SequenceTheorems, FiniteSetTheorems, TLAPS

(* The buffer holds no more than its memory, and no more of it is claimed. *)
RingOk(ring, size, S) ==
  /\ ring \in [bytes : Seq(S), claimed : Nat, at : Nat]
  /\ ring.claimed <= Len(ring.bytes) /\ Len(ring.bytes) <= size
  /\ ring.at < size

LEMMA LeastFacts ==
  ASSUME NEW a \in Nat, NEW b \in Nat, NEW c \in Nat
  PROVE  /\ Least({a, b, c}) \in {a, b, c}
         /\ Least({a, b, c}) <= a /\ Least({a, b, c}) <= b /\ Least({a, b, c}) <= c
<1> DEFINE S == {a, b, c}
<1>1. \E n \in S : \A k \in S : n <= k
  <2>1. CASE a <= b /\ a <= c
    BY <2>1
  <2>2. CASE b <= a /\ b <= c
    BY <2>2
  <2>3. CASE c <= a /\ c <= b
    BY <2>3
  <2> QED BY <2>1, <2>2, <2>3
<1>2. Least(S) \in S /\ \A k \in S : Least(S) <= k
  BY <1>1 DEF Least
<1> QED BY <1>2

(* n elements behind the first c of a sequence.                            *)
LEMMA PartFacts ==
  ASSUME NEW S, NEW s \in Seq(S), NEW c \in Nat, NEW n \in Nat, c + n <= Len(s)
  PROVE  /\ SubSeq(s, c + 1, c + n) \in Seq(S)
         /\ Len(SubSeq(s, c + 1, c + n)) = n
         /\ \A k \in 1 .. n : SubSeq(s, c + 1, c + n)[k] = s[c + k]
<1>1. /\ c + 1 \in Int /\ c + n \in Int
      /\ \A i \in c + 1 .. c + n : s[i] \in S
  OBVIOUS
<1>2. /\ SubSeq(s, c + 1, c + n) \in Seq(S)
      /\ Len(SubSeq(s, c + 1, c + n)) =
           IF c + 1 <= c + n + 1 THEN c + n - (c + 1) + 1 ELSE 0
      /\ \A i \in 1 .. c + n - (c + 1) + 1 :
           SubSeq(s, c + 1, c + n)[i] = s[(c + 1) + i - 1]
  BY <1>1, SubSeqProperties
<1>3. c + n - (c + 1) + 1 = n /\ c + 1 <= c + n + 1 /\ \A i \in 1 .. n : (c + 1) + i - 1 = c + i
  OBVIOUS
<1> QED BY <1>2, <1>3

(* A claim takes all there is behind the last one, or the most it asks     *)
(* for, or what there is before the end of the ring's memory; and nothing  *)
(* only if there is nothing left.                                          *)
Claims(ring, size, S, n, claim, claimed) ==
  /\ n \in 0 .. Len(ring.bytes) - ring.claimed
  /\ \/ n = ClaimSize \/ n = Len(ring.bytes) - ring.claimed
     \/ n = size - ((ring.at + ring.claimed) % size)
  /\ n = 0 <=> ring.claimed = Len(ring.bytes)
  /\ RingOk(claim, size, S)
  /\ claim.bytes = ring.bytes /\ claim.claimed = ring.claimed + n
  /\ claimed \in Seq(S) /\ Len(claimed) = n
  /\ \A k \in 1 .. n : claimed[k] = ring.bytes[ring.claimed + k]

LEMMA ClaimFacts ==
  ASSUME NEW S, NEW ring, NEW size \in Nat \ {0}, RingOk(ring, size, S)
  PROVE  Claims(ring, size, S, Claimable(ring, size), Claim(ring, Claimable(ring, size)),
                Claimed(ring, Claimable(ring, size)))
<1> DEFINE n == Claimable(ring, size)
           rest == size - ((ring.at + ring.claimed) % size)
<1>1. /\ ring \in [bytes : Seq(S), claimed : Nat, at : Nat]
      /\ ring.bytes \in Seq(S) /\ Len(ring.bytes) \in Nat
      /\ ring.claimed \in Nat /\ ring.claimed <= Len(ring.bytes)
      /\ ring.at \in Nat /\ ring.at < size /\ Len(ring.bytes) <= size
  BY DEF RingOk
<1>2. rest \in Nat /\ rest > 0
  <2>1. ring.at + ring.claimed \in Nat
    BY <1>1
  <2>2. (ring.at + ring.claimed) % size \in 0 .. size - 1
    BY <2>1
  <2> QED BY <2>2
<1>3. ClaimSize \in Nat /\ ClaimSize > 0
  BY CommsAssumption
<1> HIDE DEF rest
<1>4. n \in {ClaimSize, Len(ring.bytes) - ring.claimed, rest} /\ n <= Len(ring.bytes) - ring.claimed
  <2> DEFINE more == Len(ring.bytes) - ring.claimed
  <2>1. more \in Nat
    BY <1>1
  <2>2. n = Least({ClaimSize, more, rest})
    BY DEF Claimable, rest
  <2> HIDE DEF more, n
  <2>3. n \in {ClaimSize, more, rest} /\ n <= more
    BY <1>2, <1>3, <2>1, <2>2, LeastFacts
  <2> QED BY <2>3 DEF more
<1> HIDE DEF n
<1>5. n \in 0 .. Len(ring.bytes) - ring.claimed /\ (n = 0 <=> ring.claimed = Len(ring.bytes))
  BY <1>1, <1>2, <1>3, <1>4
<1>6. /\ Claim(ring, n) \in [bytes : Seq(S), claimed : Nat, at : Nat]
      /\ Claim(ring, n).bytes = ring.bytes /\ Claim(ring, n).at = ring.at
      /\ Claim(ring, n).claimed = ring.claimed + n
  BY <1>1, <1>5 DEF Claim
<1>7. RingOk(Claim(ring, n), size, S)
  BY <1>1, <1>5, <1>6 DEF RingOk
<1>8. /\ Claimed(ring, n) \in Seq(S) /\ Len(Claimed(ring, n)) = n
      /\ \A k \in 1 .. n : Claimed(ring, n)[k] = ring.bytes[ring.claimed + k]
  <2> DEFINE b == ring.bytes
             c == ring.claimed
  <2>1. b \in Seq(S) /\ c \in Nat /\ n \in Nat /\ c + n <= Len(b)
    BY <1>1, <1>5
  <2> HIDE DEF b, c
  <2>2. /\ SubSeq(b, c + 1, c + n) \in Seq(S) /\ Len(SubSeq(b, c + 1, c + n)) = n
        /\ \A k \in 1 .. n : SubSeq(b, c + 1, c + n)[k] = b[c + k]
    BY <2>1, PartFacts
  <2> QED BY <2>2 DEF Claimed, b, c
<1>l. \/ n = ClaimSize \/ n = Len(ring.bytes) - ring.claimed
      \/ n = size - ((ring.at + ring.claimed) % size)
  BY <1>4 DEF rest
<1>9. Claims(ring, size, S, n, Claim(ring, n), Claimed(ring, n))
  BY <1>5, <1>l, <1>6, <1>7, <1>8 DEF Claims
<1> QED BY <1>9 DEF n

(* The bytes behind the first n of a sequence. *)
LEMMA DropFacts ==
  ASSUME NEW S, NEW s \in Seq(S), NEW n \in 0 .. Len(s)
  PROVE  /\ SubSeq(s, n + 1, Len(s)) \in Seq(S)
         /\ Len(SubSeq(s, n + 1, Len(s))) = Len(s) - n
         /\ \A k \in 1 .. Len(s) - n : SubSeq(s, n + 1, Len(s))[k] = s[n + k]
<1>1. n + 1 \in Int /\ Len(s) \in Int /\ \A i \in n + 1 .. Len(s) : s[i] \in S
  OBVIOUS
<1> QED BY <1>1, SubSeqProperties

LEMMA TakeFacts ==
  ASSUME NEW S, NEW s \in Seq(S), NEW n \in 0 .. Len(s)
  PROVE  /\ SubSeq(s, 1, n) \in Seq(S)
         /\ Len(SubSeq(s, 1, n)) = n
         /\ \A k \in 1 .. n : SubSeq(s, 1, n)[k] = s[k]
<1>1. 1 \in Int /\ n \in Int /\ \A i \in 1 .. n : s[i] \in S
  OBVIOUS
<1> QED BY <1>1, SubSeqProperties

LEMMA PrefixIs ==
  ASSUME NEW S, NEW s \in Seq(S), NEW t \in Seq(S), Len(s) <= Len(t),
         \A k \in 1 .. Len(s) : t[k] = s[k]
  PROVE  IsPrefix(s, t)
<1>1. Len(s) \in 0 .. Len(t)
  OBVIOUS
<1>2. /\ SubSeq(t, 1, Len(s)) \in Seq(S) /\ Len(SubSeq(t, 1, Len(s))) = Len(s)
      /\ \A k \in 1 .. Len(s) : SubSeq(t, 1, Len(s))[k] = t[k]
  BY <1>1, TakeFacts
<1>3. SubSeq(s, 1, Len(s)) = s
  BY SubSeqFull
<1>4. SubSeq(t, 1, Len(s)) = s
  BY <1>2, SeqEqual
<1> QED BY <1>3, <1>4 DEF IsPrefix

LEMMA TakeDrop ==
  ASSUME NEW S, NEW s \in Seq(S), NEW n \in 0 .. Len(s)
  PROVE  SubSeq(s, 1, n) \o SubSeq(s, n + 1, Len(s)) = s
<1>1. /\ 1 \in 1 .. Len(s) + 1 /\ n \in 1 - 1 .. Len(s) /\ Len(s) \in n .. Len(s)
  OBVIOUS
<1>2. SubSeq(s, 1, n) \o SubSeq(s, n + 1, Len(s)) = SubSeq(s, 1, Len(s))
  BY <1>1, ConcatAdjacentSubSeq
<1> QED BY <1>2, SubSeqFull

(* t is the first part of s.                                               *)
Heads(t, s) ==
  Len(t) \in 0 .. Len(s) /\ \A k \in 1 .. Len(t) : t[k] = s[k]

LEMMA TakenNumbers ==
  \A s, t \in Seq(Nat) : Heads(t, s) => t \o SubSeq(s, Len(t) + 1, Len(s)) = s
<1> SUFFICES ASSUME NEW s \in Seq(Nat), NEW t \in Seq(Nat), Len(t) \in 0 .. Len(s),
                    \A k \in 1 .. Len(t) : t[k] = s[k]
             PROVE  t \o SubSeq(s, Len(t) + 1, Len(s)) = s
  BY DEF Heads
<1>1. /\ SubSeq(s, 1, Len(t)) \in Seq(Nat) /\ Len(SubSeq(s, 1, Len(t))) = Len(t)
      /\ \A k \in 1 .. Len(t) : SubSeq(s, 1, Len(t))[k] = s[k]
  BY TakeFacts
<1>2. t = SubSeq(s, 1, Len(t))
  BY <1>1, SeqEqual
<1> QED BY <1>2, TakeDrop

LEMMA ConcatFacts ==
  ASSUME NEW S, NEW s \in Seq(S), NEW t \in Seq(S)
  PROVE  /\ s \o t \in Seq(S) /\ Len(s \o t) = Len(s) + Len(t)
         /\ \A k \in 1 .. Len(s) : (s \o t)[k] = s[k]
         /\ \A k \in 1 .. Len(t) : (s \o t)[Len(s) + k] = t[k]
<1>1. /\ s \o t \in Seq(S) /\ Len(s \o t) = Len(s) + Len(t)
      /\ \A i \in 1 .. Len(s) + Len(t) :
           (s \o t)[i] = IF i <= Len(s) THEN s[i] ELSE t[i - Len(s)]
  BY ConcatProperties
<1>2. ASSUME NEW k \in 1 .. Len(s) PROVE (s \o t)[k] = s[k]
  <2>1. k \in 1 .. Len(s) + Len(t) /\ k <= Len(s)
    OBVIOUS
  <2> QED BY <1>1, <2>1
<1>3. ASSUME NEW k \in 1 .. Len(t) PROVE (s \o t)[Len(s) + k] = t[k]
  <2>1. Len(s) + k \in 1 .. Len(s) + Len(t) /\ ~ (Len(s) + k <= Len(s)) /\ (Len(s) + k) - Len(s) = k
    OBVIOUS
  <2> QED BY <1>1, <2>1
<1> QED BY <1>1, <1>2, <1>3

(* Bytes are put behind those in the buffer, as many as fit.               *)
Puts(ring, size, S, bytes, new) ==
  /\ RingOk(new, size, S)
  /\ new.claimed = ring.claimed
  /\ \E k \in 0 .. Len(bytes) :
       /\ new.bytes = ring.bytes \o SubSeq(bytes, 1, k)
       /\ Len(new.bytes) = Len(ring.bytes) + k
  /\ Room(ring, size) > 0 /\ bytes # <<>> => Len(new.bytes) > Len(ring.bytes)
  /\ Len(bytes) <= Room(ring, size) => new.bytes = ring.bytes \o bytes

LEMMA PutFacts ==
  ASSUME NEW S, NEW ring, NEW size \in Nat \ {0}, RingOk(ring, size, S), NEW bytes \in Seq(S)
  PROVE  Puts(ring, size, S, bytes, Put(ring, size, bytes))
<1> DEFINE k == Least({Len(bytes), Room(ring, size)})
<1>1. /\ ring \in [bytes : Seq(S), claimed : Nat, at : Nat]
      /\ ring.bytes \in Seq(S) /\ Len(ring.bytes) \in Nat
      /\ ring.claimed \in Nat /\ ring.claimed <= Len(ring.bytes)
      /\ ring.at \in Nat /\ ring.at < size /\ Len(ring.bytes) <= size
  BY DEF RingOk
<1>2. Room(ring, size) \in Nat /\ Len(ring.bytes) + Room(ring, size) = size /\ Len(bytes) \in Nat
  BY <1>1 DEF Room
<1>3. /\ k \in {Len(bytes), Room(ring, size)} /\ k <= Len(bytes) /\ k <= Room(ring, size)
  <2>1. {Len(bytes), Room(ring, size)} = {Len(bytes), Room(ring, size), Room(ring, size)}
    OBVIOUS
  <2> QED BY <1>2, <2>1, LeastFacts
<1>4. Put(ring, size, bytes) = [ring EXCEPT !.bytes = @ \o SubSeq(bytes, 1, k)]
  BY DEF Put
<1> HIDE DEF k
<1>5. k \in 0 .. Len(bytes)
  BY <1>2, <1>3
<1>6. SubSeq(bytes, 1, k) \in Seq(S) /\ Len(SubSeq(bytes, 1, k)) = k
  BY <1>5, TakeFacts
<1>n. ring.bytes \o SubSeq(bytes, 1, k) \in Seq(S)
  BY <1>1, <1>6
<1>7. /\ Put(ring, size, bytes).bytes = ring.bytes \o SubSeq(bytes, 1, k)
      /\ Put(ring, size, bytes).claimed = ring.claimed
      /\ Put(ring, size, bytes).at = ring.at
      /\ Put(ring, size, bytes) \in [bytes : Seq(S), claimed : Nat, at : Nat]
  BY <1>1, <1>4, <1>n
<1>8. Len(ring.bytes \o SubSeq(bytes, 1, k)) = Len(ring.bytes) + k
  BY <1>1, <1>6
<1>9. RingOk(Put(ring, size, bytes), size, S)
  BY <1>1, <1>2, <1>3, <1>5, <1>7, <1>8 DEF RingOk
<1>10. Room(ring, size) > 0 /\ bytes # <<>> => k > 0
  BY <1>2, <1>3
<1>11. Len(bytes) <= Room(ring, size) => SubSeq(bytes, 1, k) = bytes
  <2> SUFFICES ASSUME Len(bytes) <= Room(ring, size)
               PROVE  SubSeq(bytes, 1, k) = bytes
    OBVIOUS
  <2>1. k = Len(bytes)
    BY <1>2, <1>3
  <2> QED BY <2>1, SubSeqFull
<1>12. Room(ring, size) > 0 /\ bytes # <<>> => Len(ring.bytes) + k > Len(ring.bytes)
  BY <1>1, <1>5, <1>10
<1> QED BY <1>5, <1>7, <1>8, <1>9, <1>11, <1>12 DEF Puts

(* Releasing n bytes drops them and forgets every claim, unless n is more  *)
(* than there is.                                                          *)
Finishes(ring, size, S, n, done) ==
  /\ RingOk(done, size, S)
  /\ n > Len(ring.bytes) => done = ring
  /\ n <= Len(ring.bytes) =>
       /\ done.bytes = SubSeq(ring.bytes, n + 1, Len(ring.bytes))
       /\ Len(done.bytes) = Len(ring.bytes) - n
       /\ done.claimed = 0

LEMMA FinishFacts ==
  ASSUME NEW S, NEW ring, NEW size \in Nat \ {0}, RingOk(ring, size, S), NEW n \in Nat
  PROVE  Finishes(ring, size, S, n, Finish(ring, size, n))
<1>1. /\ ring.bytes \in Seq(S) /\ Len(ring.bytes) \in Nat
      /\ ring.at \in Nat /\ ring.at < size /\ Len(ring.bytes) <= size
  BY DEF RingOk
<1>2. CASE n > Len(ring.bytes)
  BY <1>1, <1>2 DEF Finish, Finishes
<1>3. CASE n <= Len(ring.bytes)
  <2> DEFINE rest == SubSeq(ring.bytes, n + 1, Len(ring.bytes))
             new == (ring.at + n) % size
  <2>1. rest \in Seq(S) /\ Len(rest) = Len(ring.bytes) - n
    BY <1>1, <1>3, DropFacts
  <2>2. new \in 0 .. size - 1
    <3>1. ring.at + n \in Nat
      BY <1>1
    <3> QED BY <3>1
  <2>3. Finish(ring, size, n) = [bytes |-> rest, claimed |-> 0, at |-> new]
    BY <1>1, <1>3 DEF Finish
  <2> HIDE DEF rest, new
  <2>4. RingOk([bytes |-> rest, claimed |-> 0, at |-> new], size, S)
    BY <1>1, <1>3, <2>1, <2>2 DEF RingOk
  <2>5. ~ (n > Len(ring.bytes))
    BY <1>1, <1>3
  <2> QED BY <2>1, <2>3, <2>4, <2>5 DEF rest, Finishes
<1> QED BY <1>1, <1>2, <1>3

-----------------------------------------------------------------------------
(* Sending.                                                                *)

TxTypes ==
  /\ RingOk(tx, TxSize, Nat)
  /\ air \in Seq(Nat) /\ block \in Seq(Nat) /\ wire \in Seq(Nat)
  /\ written \in Nat
  /\ tx_pc \in {"idle", "claim", "start"} /\ aborted \in BOOLEAN /\ overlapped \in BOOLEAN

(* There is something to claim, or nothing to send. *)
Unclaimed == tx.bytes = <<>> \/ tx.claimed < Len(tx.bytes)

(* A block of n bytes that is released leaves something to claim, or the   *)
(* ring empty: also when it is longer than what is left in the ring, since *)
(* a write dropped bytes it had claimed, so that nothing is released.      *)
Leaves(n) == n <= Len(tx.bytes) \/ Unclaimed

StallInv ==
  /\ tx_pc # "start" /\ air # <<>> => Leaves(Len(air))
  /\ tx_pc = "start" =>
       /\ block # <<>>
       /\ air = <<>> => Leaves(Len(block))
       /\ air # <<>> /\ Len(block) > Len(tx.bytes) => Leaves(Len(air))
  /\ air = <<>> /\ ~ aborted =>
       /\ tx_pc = "idle" => tx.bytes = <<>>
       /\ tx_pc = "claim" => Unclaimed

(* The block is the first part of what is in the ring.                     *)
Leads(bytes) ==
  /\ Len(bytes) <= Len(tx.bytes)
  /\ \A k \in 1 .. Len(bytes) : bytes[k] = tx.bytes[k]

WholeInv ==
  ~ overlapped =>
    /\ wire \o tx.bytes = [k \in 1 .. written |-> k]
    /\ air # <<>> => tx_pc = "idle" /\ Leads(air)
    /\ tx_pc = "start" => Leads(block)
    /\ air = <<>> /\ tx_pc # "start" => tx.claimed = 0

TxInv == TxTypes /\ StallInv /\ WholeInv

LEMMA TxFacts ==
  ASSUME TxInv
  PROVE  /\ tx \in [bytes : Seq(Nat), claimed : Nat, at : Nat]
         /\ tx.bytes \in Seq(Nat) /\ Len(tx.bytes) \in Nat
         /\ tx.claimed \in Nat /\ tx.claimed <= Len(tx.bytes) /\ Len(tx.bytes) <= TxSize
         /\ TxSize \in Nat \ {0} /\ RingOk(tx, TxSize, Nat)
         /\ air \in Seq(Nat) /\ Len(air) \in Nat /\ (air = <<>> <=> Len(air) = 0)
         /\ block \in Seq(Nat) /\ Len(block) \in Nat /\ (block = <<>> <=> Len(block) = 0)
         /\ wire \in Seq(Nat) /\ written \in Nat /\ overlapped \in BOOLEAN
         /\ (tx.bytes = <<>> <=> Len(tx.bytes) = 0)
<1>1. TxSize \in Nat \ {0}
  BY CommsAssumption
<1>2. air \in Seq(Nat) /\ block \in Seq(Nat) /\ RingOk(tx, TxSize, Nat)
  BY DEF TxInv, TxTypes
<1>3. tx \in [bytes : Seq(Nat), claimed : Nat, at : Nat] /\ tx.claimed <= Len(tx.bytes)
  BY <1>2 DEF RingOk
<1>4. tx.bytes \in Seq(Nat) /\ tx.claimed \in Nat
  BY <1>3
<1> QED BY <1>1, <1>2, <1>3, <1>4 DEF TxInv, TxTypes, RingOk

(* The bytes of a write of n, behind those written before.                 *)
LEMMA Numbers ==
  ASSUME NEW w \in Nat, NEW n \in Nat
  PROVE  LET s == [k \in 1 .. n |-> w + k] IN
         /\ s \in Seq(Nat) /\ Len(s) = n /\ (n > 0 => s # <<>>)
         /\ \A k \in 1 .. n : s[k] = w + k
<1> DEFINE s == [k \in 1 .. n |-> w + k]
<1>1. s \in Seq(Nat) /\ Len(s) = n
  OBVIOUS
<1>2. n > 0 => s # <<>>
  BY <1>1
<1>3. \A k \in 1 .. n : s[k] = w + k
  OBVIOUS
<1> QED BY <1>1, <1>2, <1>3

LEMMA ConcatNumbers ==
  \A s, t, u \in Seq(Nat) : s \o (t \o u) = (s \o t) \o u
<1> SUFFICES ASSUME NEW s \in Seq(Nat), NEW t \in Seq(Nat), NEW u \in Seq(Nat)
             PROVE  s \o (t \o u) = (s \o t) \o u
  OBVIOUS
<1> QED BY ConcatAssociative, SMTT(30)

LEMMA ConcatBytes ==
  \A s, t, u \in Seq(Byte) : s \o (t \o u) = (s \o t) \o u
<1> SUFFICES ASSUME NEW s \in Seq(Byte), NEW t \in Seq(Byte), NEW u \in Seq(Byte)
             PROVE  s \o (t \o u) = (s \o t) \o u
  OBVIOUS
<1> QED BY ConcatAssociative, SMTT(30)

LEMMA MoreNumbers ==
  ASSUME NEW w \in Nat, NEW n \in Nat
  PROVE  [i \in 1 .. w |-> i] \o [k \in 1 .. n |-> w + k] = [i \in 1 .. w + n |-> i]
<1> DEFINE old == [i \in 1 .. w |-> i]
           new == [k \in 1 .. n |-> w + k]
           both == [i \in 1 .. w + n |-> i]
<1>1. old \in Seq(Nat) /\ Len(old) = w
  OBVIOUS
<1>2. new \in Seq(Nat) /\ Len(new) = n
  OBVIOUS
<1>3. both \in Seq(Nat) /\ Len(both) = w + n
  OBVIOUS
<1>4. old \o new \in Seq(Nat) /\ Len(old \o new) = w + n
  <2> HIDE DEF old, new
  <2> QED BY <1>1, <1>2
<1>5. ASSUME NEW i \in 1 .. w + n
      PROVE  (old \o new)[i] = both[i]
  <2>1. (old \o new)[i] = IF i <= w THEN old[i] ELSE new[i - w]
    <3> HIDE DEF old, new
    <3> QED BY <1>1, <1>2, ConcatProperties
  <2>2. CASE i <= w
    BY <2>1, <2>2
  <2>3. CASE i > w
    <3>1. i - w \in 1 .. n /\ w + (i - w) = i
      BY <2>3
    <3> QED BY <2>1, <2>3, <3>1
  <2> QED BY <2>2, <2>3
<1> HIDE DEF old, new, both
<1>6. old \o new = both
  BY <1>3, <1>4, <1>5, SeqEqual
<1> QED BY <1>6 DEF old, new, both

LEMMA PutsStep ==
  ASSUME TxInv, WritePuts
  PROVE  TxInv'
<1>0. /\ tx.bytes \in Seq(Nat) /\ Len(tx.bytes) \in Nat
      /\ tx.claimed \in Nat /\ tx.claimed <= Len(tx.bytes)
      /\ (tx.bytes = <<>> <=> Len(tx.bytes) = 0)
      /\ Len(air) \in Nat /\ (air = <<>> <=> Len(air) = 0)
      /\ Len(block) \in Nat /\ (block = <<>> <=> Len(block) = 0)
      /\ wire \in Seq(Nat) /\ written \in Nat /\ overlapped \in BOOLEAN
  BY TxFacts
<1>r. TxSize \in Nat \ {0} /\ RingOk(tx, TxSize, Nat)
  BY TxFacts
<1>1. PICK n \in WriteLengths :
        /\ tx' = Put(tx, TxSize, [k \in 1 .. n |-> written + k])
        /\ written' = written + n
        /\ overlapped' = (overlapped \/ air # <<>> \/ n > Room(tx, TxSize))
  BY DEF WritePuts
<1>2. /\ tx_pc = "idle" /\ tx_pc' = "claim" /\ Room(tx, TxSize) > 0
      /\ UNCHANGED <<air, block, wire, aborted>>
  BY DEF WritePuts
<1> DEFINE new == [k \in 1 .. n |-> written + k]
<1>3. n \in Nat /\ n > 0
  BY CommsAssumption
<1>4. new \in Seq(Nat) /\ Len(new) = n /\ new # <<>> /\ \A k \in 1 .. n : new[k] = written + k
  BY <1>0, <1>3, Numbers
<1> HIDE DEF new
<1>5. tx' = Put(tx, TxSize, new)
  BY <1>0, <1>1 DEF new
<1>6. Puts(tx, TxSize, Nat, new, tx')
  BY <1>r, <1>4, <1>5, PutFacts
<1>7. /\ RingOk(tx', TxSize, Nat) /\ tx'.claimed = tx.claimed
      /\ n <= Room(tx, TxSize) => tx'.bytes = tx.bytes \o new
  BY <1>4, <1>6 DEF Puts
<1>8. Len(tx'.bytes) > Len(tx.bytes)
  <2>1. Room(tx, TxSize) > 0 /\ new # <<>>
    BY <1>2, <1>4
  <2> QED BY <1>6, <2>1 DEF Puts
<1>9. TxTypes'
  BY <1>0, <1>1, <1>2, <1>3, <1>4, <1>7 DEF TxInv, TxTypes
<1>10. Unclaimed'
  BY <1>0, <1>7, <1>8 DEF Unclaimed
<1>11. StallInv'
  BY <1>0, <1>2, <1>10 DEF StallInv, Leaves
<1>12. WholeInv'
  <2> SUFFICES ASSUME ~ overlapped'
               PROVE  /\ wire \o tx'.bytes = [i \in 1 .. written' |-> i]
                      /\ air = <<>> /\ tx'.claimed = 0
    BY <1>0, <1>2 DEF WholeInv
  <2>1. ~ overlapped /\ air = <<>> /\ n <= Room(tx, TxSize)
    <3>1. Room(tx, TxSize) \in Int
      BY <1>0, <1>r DEF Room
    <3>2. ~ overlapped /\ air = <<>> /\ ~ (n > Room(tx, TxSize))
      BY <1>1, Zenon
    <3> QED BY <1>3, <3>1, <3>2
  <2>2. wire \o tx.bytes = [i \in 1 .. written |-> i] /\ tx.claimed = 0
    BY <1>0, <1>2, <2>1 DEF TxInv, WholeInv
  <2>3. wire \o (tx.bytes \o new) = (wire \o tx.bytes) \o new
    <3>1. wire \in Seq(Nat) /\ tx.bytes \in Seq(Nat) /\ new \in Seq(Nat)
      BY <1>0, <1>4
    <3> QED BY <3>1, ConcatNumbers, Zenon
  <2>4. [i \in 1 .. written |-> i] \o new = [i \in 1 .. written + n |-> i]
    BY <1>0, <1>3, MoreNumbers DEF new
  <2> QED BY <1>0, <1>1, <1>7, <2>1, <2>2, <2>3, <2>4
<1> QED BY <1>0, <1>9, <1>11, <1>12 DEF TxInv

LEMMA ClaimsStep ==
  ASSUME TxInv, WriteClaims
  PROVE  TxInv'
<1>0. /\ tx.bytes \in Seq(Nat) /\ Len(tx.bytes) \in Nat
      /\ tx.claimed \in Nat /\ tx.claimed <= Len(tx.bytes)
      /\ (tx.bytes = <<>> <=> Len(tx.bytes) = 0)
      /\ Len(air) \in Nat /\ (air = <<>> <=> Len(air) = 0)
      /\ Len(block) \in Nat /\ (block = <<>> <=> Len(block) = 0)
      /\ wire \in Seq(Nat) /\ written \in Nat /\ overlapped \in BOOLEAN
  BY TxFacts
<1>r. TxSize \in Nat \ {0} /\ RingOk(tx, TxSize, Nat)
  BY TxFacts
<1> DEFINE n == Claimable(tx, TxSize)
<1>1. /\ tx_pc = "claim" /\ tx' = Claim(tx, n) /\ block' = Claimed(tx, n)
      /\ tx_pc' = IF n = 0 THEN "idle" ELSE "start"
      /\ UNCHANGED <<air, written, wire, aborted, overlapped>>
  BY DEF WriteClaims
<1>2. /\ n \in 0 .. Len(tx.bytes) - tx.claimed
      /\ n = 0 <=> tx.claimed = Len(tx.bytes)
      /\ RingOk(tx', TxSize, Nat)
      /\ tx'.bytes = tx.bytes /\ tx'.claimed = tx.claimed + n
      /\ block' \in Seq(Nat) /\ Len(block') = n
      /\ \A k \in 1 .. n : block'[k] = tx.bytes[tx.claimed + k]
  <2>1. Claims(tx, TxSize, Nat, n, tx', block')
    BY <1>r, <1>1, ClaimFacts
  <2> QED BY <2>1 DEF Claims
<1> HIDE DEF n
<1>3. TxTypes'
  BY <1>0, <1>1, <1>2 DEF TxInv, TxTypes
<1>4. CASE n = 0
  <2>1. tx'.claimed = tx.claimed /\ tx_pc' = "idle" /\ tx.claimed = Len(tx.bytes)
    BY <1>0, <1>1, <1>2, <1>4
  <2>2. StallInv'
    BY <1>0, <1>1, <1>2, <2>1 DEF TxInv, StallInv, Leaves, Unclaimed
  <2>3. WholeInv'
    BY <1>0, <1>1, <1>2, <2>1 DEF TxInv, WholeInv, Leads
  <2> QED BY <1>0, <1>3, <2>2, <2>3 DEF TxInv
<1>5. CASE n # 0
  <2>1. tx_pc' = "start" /\ block' # <<>> /\ Len(block') <= Len(tx'.bytes)
    BY <1>0, <1>1, <1>2, <1>5
  <2>2. StallInv'
    BY <1>0, <1>1, <1>2, <2>1 DEF StallInv, Leaves
  <2>3. WholeInv'
    <3> SUFFICES ASSUME ~ overlapped
                 PROVE  WholeInv'
      BY <1>0, <1>1 DEF WholeInv
    <3>1. air = <<>> /\ tx.claimed = 0 /\ wire \o tx.bytes = [k \in 1 .. written |-> k]
      BY <1>0, <1>1 DEF TxInv, WholeInv
    <3>2. Leads(block)'
      BY <1>0, <1>2, <2>1, <3>1 DEF Leads
    <3> QED BY <1>0, <1>1, <1>2, <2>1, <3>1, <3>2 DEF WholeInv
  <2> QED BY <1>0, <1>3, <2>2, <2>3 DEF TxInv
<1> QED BY <1>0, <1>4, <1>5

LEMMA StartsStep ==
  ASSUME TxInv, WriteStarts
  PROVE  TxInv'
<1>0. /\ tx.bytes \in Seq(Nat) /\ Len(tx.bytes) \in Nat
      /\ tx.claimed \in Nat /\ tx.claimed <= Len(tx.bytes)
      /\ (tx.bytes = <<>> <=> Len(tx.bytes) = 0)
      /\ Len(air) \in Nat /\ (air = <<>> <=> Len(air) = 0)
      /\ Len(block) \in Nat /\ (block = <<>> <=> Len(block) = 0)
      /\ wire \in Seq(Nat) /\ written \in Nat /\ overlapped \in BOOLEAN
  BY TxFacts
<1>r. TxSize \in Nat \ {0} /\ RingOk(tx, TxSize, Nat)
  BY TxFacts
<1>len. Len(block) \in Nat
  BY <1>0
<1>1. /\ tx_pc = "start" /\ tx_pc' = "idle" /\ block' = <<>>
      /\ UNCHANGED <<written, wire, overlapped>>
  BY DEF WriteStarts
<1>2. CASE air = <<>>
  <2>1. air' = block /\ aborted' = FALSE /\ tx' = tx /\ block # <<>>
    <3>1. air' = block /\ aborted' = FALSE /\ tx' = tx
      BY <1>2 DEF WriteStarts
    <3>2. block # <<>>
      BY <1>1 DEF TxInv, StallInv
    <3> QED BY <3>1, <3>2
  <2>2. TxTypes'
    <3>1. block \in Seq(Nat) /\ <<>> \in Seq(Nat)
      BY DEF TxInv, TxTypes
    <3>2. RingOk(tx', TxSize, Nat) /\ air' \in Seq(Nat) /\ block' \in Seq(Nat)
      BY <1>1, <1>r, <2>1, <3>1
    <3> QED BY <1>0, <1>1, <2>1, <3>1, <3>2 DEF TxTypes
  <2>3. StallInv'
    BY <1>0, <1>1, <1>2, <2>1 DEF TxInv, StallInv, Leaves, Unclaimed
  <2>4. WholeInv'
    BY <1>0, <1>1, <1>2, <2>1 DEF TxInv, WholeInv, Leads
  <2> QED BY <1>0, <2>2, <2>3, <2>4 DEF TxInv
<1>3. CASE air # <<>>
  <2>1. tx' = Finish(tx, TxSize, Len(block)) /\ UNCHANGED <<air, aborted>>
    BY <1>0, <1>3 DEF WriteStarts
  <2>2. /\ RingOk(tx', TxSize, Nat)
        /\ Len(block) > Len(tx.bytes) => tx' = tx
        /\ Len(block) <= Len(tx.bytes) => tx'.claimed = 0
    <3>1. Finishes(tx, TxSize, Nat, Len(block), tx')
      BY <1>r, <1>len, <2>1, FinishFacts
    <3> QED BY <3>1 DEF Finishes
  <2>3. TxTypes'
    BY <1>0, <1>1, <2>1, <2>2 DEF TxInv, TxTypes
  <2>4. Leaves(Len(air))'
    <3>1. CASE Len(block) > Len(tx.bytes)
      BY <1>0, <1>1, <1>3, <2>1, <2>2, <3>1 DEF TxInv, StallInv, Leaves, Unclaimed
    <3>2. CASE Len(block) <= Len(tx.bytes)
      <4>1. tx'.claimed = 0 /\ tx'.bytes \in Seq(Nat)
        BY <1>0, <2>2, <3>2 DEF RingOk
      <4> QED BY <1>0, <4>1 DEF Leaves, Unclaimed
    <3> QED BY <1>0, <3>1, <3>2
  <2>5. StallInv'
    BY <1>0, <1>1, <1>3, <2>1, <2>4 DEF StallInv
  <2>6. overlapped
    BY <1>0, <1>1, <1>3 DEF TxInv, WholeInv
  <2> QED BY <1>0, <1>1, <2>3, <2>5, <2>6 DEF TxInv, WholeInv
<1> QED BY <1>0, <1>2, <1>3

LEMMA DoneStep ==
  ASSUME TxInv, TxDone
  PROVE  TxInv'
<1>0. /\ tx.bytes \in Seq(Nat) /\ Len(tx.bytes) \in Nat
      /\ tx.claimed \in Nat /\ tx.claimed <= Len(tx.bytes)
      /\ (tx.bytes = <<>> <=> Len(tx.bytes) = 0)
      /\ air \in Seq(Nat) /\ Len(air) \in Nat /\ (air = <<>> <=> Len(air) = 0)
      /\ Len(block) \in Nat /\ (block = <<>> <=> Len(block) = 0)
      /\ wire \in Seq(Nat) /\ written \in Nat /\ overlapped \in BOOLEAN
  BY TxFacts
<1>r. TxSize \in Nat \ {0} /\ RingOk(tx, TxSize, Nat)
  BY TxFacts
<1>l. Len(air) \in Nat /\ air # <<>> /\ Len(air) > 0
  BY <1>0 DEF TxDone
<1> DEFINE ring == Finish(tx, TxSize, Len(air))
           n == Claimable(ring, TxSize)
<1>1. /\ wire' = wire \o air
      /\ ring.bytes = <<>> => tx' = ring /\ air' = <<>>
      /\ ring.bytes # <<>> => tx' = Claim(ring, n) /\ air' = Claimed(ring, n)
      /\ UNCHANGED <<tx_pc, block, written, aborted, overlapped>>
  BY DEF TxDone, Starts
<1>2. Finishes(tx, TxSize, Nat, Len(air), ring)
  BY <1>r, <1>l, FinishFacts
<1>3. RingOk(ring, TxSize, Nat)
  BY <1>2 DEF Finishes
<1>4. Claims(ring, TxSize, Nat, n, Claim(ring, n), Claimed(ring, n))
  BY <1>r, <1>3, ClaimFacts
<1> HIDE DEF ring, n
<1>5. /\ ring.bytes \in Seq(Nat) /\ Len(ring.bytes) \in Nat /\ ring.claimed \in Nat
      /\ ring.claimed <= Len(ring.bytes) /\ (ring.bytes = <<>> <=> Len(ring.bytes) = 0)
  BY <1>3 DEF RingOk
(* What is left in the ring, and what is now on the air.                   *)
<1>6. /\ RingOk(tx', TxSize, Nat) /\ air' \in Seq(Nat)
      /\ tx'.bytes = ring.bytes
      /\ Len(air') \in Nat /\ Len(air') <= Len(tx'.bytes) - ring.claimed
      /\ tx'.claimed = ring.claimed + Len(air')
      /\ \A k \in 1 .. Len(air') : air'[k] = tx'.bytes[ring.claimed + k]
      /\ air' = <<>> <=> (ring.bytes = <<>> \/ ring.claimed = Len(ring.bytes))
  <2>1. CASE ring.bytes = <<>>
    BY <1>1, <1>3, <1>5, <2>1
  <2>2. CASE ring.bytes # <<>>
    <3>1. tx' = Claim(ring, n) /\ air' = Claimed(ring, n)
      BY <1>1, <2>2
    <3>2. Claims(ring, TxSize, Nat, n, tx', air')
      BY <1>4, <3>1
    <3> QED BY <1>5, <2>2, <3>2 DEF Claims
  <2> QED BY <2>1, <2>2
<1>7. TxTypes'
  <2>1. wire' \in Seq(Nat)
    BY <1>0, <1>1
  <2> QED BY <1>1, <1>6, <2>1 DEF TxInv, TxTypes
(* The line is idle now only if all was sent, or if a write has claimed    *)
(* the rest and is about to start its transmission.                        *)
<1>8. air' = <<>> => tx'.bytes = <<>> \/ (tx_pc = "start" /\ Len(block) <= Len(tx'.bytes))
  <2> SUFFICES ASSUME air' = <<>>, tx'.bytes # <<>>
               PROVE  tx_pc = "start" /\ Len(block) <= Len(tx'.bytes)
    OBVIOUS
  <2>1. ring.claimed = Len(ring.bytes) /\ Len(ring.bytes) > 0
    BY <1>5, <1>6
  <2>2. Len(air) > Len(tx.bytes)
    <3> SUFFICES ASSUME Len(air) <= Len(tx.bytes) PROVE FALSE
      BY <1>0
    <3>1. ring.claimed = 0
      BY <1>2 DEF Finishes
    <3> QED BY <2>1, <3>1
  <2>3. ring = tx
    BY <1>2, <2>2 DEF Finishes
  <2>4. ~ Leaves(Len(air))
    BY <1>0, <1>5, <2>1, <2>2, <2>3 DEF Leaves, Unclaimed
  <2>5. tx_pc = "start" /\ ~ (Len(block) > Len(tx.bytes))
    BY <1>l, <2>4 DEF TxInv, StallInv
  <2> QED BY <1>0, <1>6, <2>3, <2>5
<1>9. StallInv'
  <2>1. Len(air') <= Len(tx'.bytes)
    BY <1>5, <1>6
  <2>2. Leaves(Len(air))'
    BY <2>1 DEF Leaves
  <2>3. tx_pc = "start" => block # <<>>
    BY DEF TxInv, StallInv
  <2>4. tx_pc' = tx_pc /\ block' = block
    BY <1>1
  <2>5. air' = <<>> => Leaves(Len(block))' /\ (tx_pc # "start" => tx'.bytes = <<>>)
    BY <1>8, <2>4 DEF Leaves, Unclaimed
  <2> QED BY <2>2, <2>3, <2>4, <2>5 DEF StallInv, Unclaimed
<1>10. WholeInv'
  <2> SUFFICES ASSUME ~ overlapped
               PROVE  /\ (wire \o tx.bytes)' = [i \in 1 .. written |-> i]
                      /\ tx_pc = "idle" /\ Leads(air)'
                      /\ air' = <<>> => tx'.claimed = 0
    BY <1>1 DEF WholeInv
  <2>1. /\ wire \o tx.bytes = [i \in 1 .. written |-> i]
        /\ tx_pc = "idle" /\ Leads(air)
    BY <1>l DEF TxInv, WholeInv
  <2>2. Len(air) \in 0 .. Len(tx.bytes)
    BY <1>0, <2>1 DEF Leads
  <2>3. /\ ring.claimed = 0
        /\ ring.bytes = SubSeq(tx.bytes, Len(air) + 1, Len(tx.bytes))
    BY <1>2, <2>2 DEF Finishes
  <2>4. air \in Seq(Nat) /\ tx.bytes \in Seq(Nat) /\ Heads(air, tx.bytes)
    BY <1>0, <2>1, <2>2 DEF Leads, Heads
  <2>5. air \o ring.bytes = tx.bytes
    BY <2>2, <2>3, <2>4, TakenNumbers, Zenon
  <2>6. wire \o (air \o ring.bytes) = (wire \o air) \o ring.bytes
    <3>1. wire \in Seq(Nat) /\ air \in Seq(Nat) /\ ring.bytes \in Seq(Nat)
      BY <1>0, <1>5
    <3> QED BY <3>1, ConcatNumbers, Zenon
  <2>7. (wire \o tx.bytes)' = [i \in 1 .. written |-> i]
    BY <1>1, <1>6, <2>1, <2>5, <2>6
  <2>8. Leads(air)'
    BY <1>5, <1>6, <2>3 DEF Leads
  <2>9. air' = <<>> => tx'.claimed = 0
    BY <1>6, <2>3
  <2> QED BY <2>1, <2>7, <2>8, <2>9
<1> QED BY <1>7, <1>9, <1>10 DEF TxInv

LEMMA AbortStep ==
  ASSUME TxInv, TxAborted
  PROVE  TxInv'
<1>0. /\ tx.bytes \in Seq(Nat) /\ Len(tx.bytes) \in Nat
      /\ tx.claimed \in Nat /\ tx.claimed <= Len(tx.bytes)
      /\ air \in Seq(Nat) /\ Len(air) \in Nat /\ wire \in Seq(Nat)
  BY TxFacts
<1>r. TxSize \in Nat \ {0} /\ RingOk(tx, TxSize, Nat)
  BY TxFacts
<1>1. PICK n \in 0 .. Len(air) - 1 :
        /\ wire' = wire \o SubSeq(air, 1, n)
        /\ tx' = Finish(tx, TxSize, n)
  BY DEF TxAborted
<1>2. /\ air # <<>> /\ air' = <<>> /\ aborted' = TRUE
      /\ UNCHANGED <<tx_pc, block, written, overlapped>>
  BY DEF TxAborted
<1>n. n \in Nat /\ n < Len(air)
  BY <1>0
<1>3. Finishes(tx, TxSize, Nat, n, tx')
  BY <1>r, <1>n, <1>1, FinishFacts
<1>4. RingOk(tx', TxSize, Nat)
  BY <1>3 DEF Finishes
<1>5. SubSeq(air, 1, n) \in Seq(Nat) /\ Len(SubSeq(air, 1, n)) = n
      /\ \A k \in 1 .. n : SubSeq(air, 1, n)[k] = air[k]
  BY <1>0, TakeFacts
<1>6. TxTypes'
  <2>1. wire' \in Seq(Nat) /\ <<>> \in Seq(Nat)
    BY <1>0, <1>1, <1>5
  <2> QED BY <1>2, <1>4, <2>1 DEF TxInv, TxTypes
(* Nothing is released only if the transmission was of bytes that a write  *)
(* dropped.                                                                *)
<1>7. tx_pc = "start" => Leaves(Len(block))'
  <2> SUFFICES ASSUME tx_pc = "start", Len(block) > Len(tx'.bytes)
               PROVE  Unclaimed'
    BY <1>2, <1>4, TxFacts DEF RingOk, Leaves
  <2>1. CASE n <= Len(tx.bytes)
    <3>1. tx'.claimed = 0 /\ tx'.bytes \in Seq(Nat)
      BY <1>3, <2>1 DEF Finishes, RingOk
    <3> QED BY <3>1 DEF Unclaimed
  <2>2. CASE n > Len(tx.bytes)
    <3>1. tx' = tx
      BY <1>3, <2>2 DEF Finishes
    <3>2. Leaves(Len(air))
      BY <1>2, <3>1 DEF TxInv, StallInv
    <3> QED BY <1>0, <1>n, <2>2, <3>1, <3>2 DEF Leaves, Unclaimed
  <2> QED BY <1>0, <1>n, <2>1, <2>2
<1>8. StallInv'
  <2>1. tx_pc = "start" => block # <<>>
    BY DEF TxInv, StallInv
  <2> QED BY <1>2, <1>7, <2>1 DEF StallInv
<1>9. WholeInv'
  <2> SUFFICES ASSUME ~ overlapped
               PROVE  /\ (wire \o tx.bytes)' = [i \in 1 .. written |-> i]
                      /\ tx_pc = "idle" /\ tx'.claimed = 0
    BY <1>2 DEF WholeInv
  <2>1. /\ wire \o tx.bytes = [i \in 1 .. written |-> i]
        /\ tx_pc = "idle" /\ Leads(air)
    BY <1>2 DEF TxInv, WholeInv
  <2> DEFINE done == SubSeq(air, 1, n)
  <2>2. n \in 0 .. Len(tx.bytes)
    BY <1>0, <1>n, <2>1 DEF Leads
  <2>3. /\ tx'.claimed = 0
        /\ tx'.bytes = SubSeq(tx.bytes, n + 1, Len(tx.bytes))
    BY <1>3, <2>2 DEF Finishes
  <2>4. done \in Seq(Nat) /\ tx.bytes \in Seq(Nat) /\ Len(done) = n /\ Heads(done, tx.bytes)
    <3>1. done \in Seq(Nat) /\ tx.bytes \in Seq(Nat) /\ Len(done) = n
      BY <1>0, <1>5
    <3>2. \A k \in 1 .. Len(air) : air[k] = tx.bytes[k]
      BY <2>1 DEF Leads
    <3>3. \A k \in 1 .. n : k \in 1 .. Len(air) /\ done[k] = air[k]
      BY <1>0, <1>n, <1>5
    <3> QED BY <2>2, <3>1, <3>2, <3>3 DEF Heads
  <2> HIDE DEF done
  <2>5. done \o tx'.bytes = tx.bytes
    <3>1. done \o SubSeq(tx.bytes, Len(done) + 1, Len(tx.bytes)) = tx.bytes
      BY <2>4, TakenNumbers, Zenon
    <3>2. tx'.bytes = SubSeq(tx.bytes, Len(done) + 1, Len(tx.bytes))
      BY <2>3, <2>4, Zenon
    <3> QED BY <3>1, <3>2, Zenon
  <2>6. wire \o (done \o tx'.bytes) = (wire \o done) \o tx'.bytes
    <3>1. wire \in Seq(Nat) /\ done \in Seq(Nat) /\ tx'.bytes \in Seq(Nat)
      BY <1>0, <1>4, <2>4 DEF RingOk
    <3> QED BY <3>1, ConcatNumbers, Zenon
  <2>7. (wire \o tx.bytes)' = [i \in 1 .. written |-> i]
    BY <1>1, <2>1, <2>5, <2>6 DEF done
  <2> QED BY <2>1, <2>3, <2>7
<1> QED BY <1>6, <1>8, <1>9 DEF TxInv

LEMMA TxStarts == Init => TxInv
<1> SUFFICES ASSUME Init PROVE TxInv
  OBVIOUS
<1>1. TxSize \in Nat \ {0} /\ <<>> \in Seq(Nat)
  BY CommsAssumption
<1>2. RingOk(tx, TxSize, Nat) /\ tx.bytes = <<>> /\ tx.claimed = 0
  BY <1>1 DEF Init, RingOk
<1>3. TxTypes
  BY <1>1, <1>2 DEF Init, TxTypes
<1>4. StallInv
  BY <1>2 DEF Init, StallInv
<1>5. wire \o tx.bytes = [k \in 1 .. written |-> k]
  BY <1>2 DEF Init
<1>6. WholeInv
  BY <1>2, <1>5 DEF Init, WholeInv
<1> QED BY <1>3, <1>4, <1>6 DEF TxInv

LEMMA TxStep == TxInv /\ [Next]_vars => TxInv'
<1> SUFFICES ASSUME TxInv, [Next]_vars PROVE TxInv'
  OBVIOUS
<1>1. ASSUME UNCHANGED txVars PROVE TxInv'
  BY <1>1 DEF txVars, TxInv, TxTypes, StallInv, WholeInv, Leaves, Unclaimed, Leads
<1>2. PeerSends \/ RxReady \/ RxReadyEarly \/ RxInits \/ RxTakes \/ RxClaims \/ RxParses
        \/ UNCHANGED vars => UNCHANGED txVars
  BY DEF PeerSends, RxReady, RxReadyEarly, RxInits, RxTakes, RxClaims, RxParses, vars
<1> QED BY <1>1, <1>2, PutsStep, ClaimsStep, StartsStep, DoneStep, AbortStep DEF Next

(* The inductive invariant of sending.                                     *)
LEMMA Sending == Spec => []TxInv
BY TxStarts, TxStep, PTL DEF Spec

(* The line is never idle with bytes in the ring, unless the last          *)
(* transmission was aborted: whatever uart_tx() refuses, and whichever     *)
(* claim a write drops while the interrupt transmits another.              *)
THEOREM SendingGoesOn == Spec => []TxNeverStalls
<1>1. TxInv => TxNeverStalls
  BY DEF TxInv, StallInv, TxNeverStalls
<1> QED BY <1>1, Sending, PTL

(* What was written is transmitted in order and once, as long as no write  *)
(* came while the last one was transmitted and none was too long.          *)
THEOREM SendingIsWhole == Spec => []SentWhole
<1>1. TxInv => SentWhole
  BY DEF TxInv, WholeInv, SentWhole
<1> QED BY <1>1, Sending, PTL
-----------------------------------------------------------------------------
(* Receiving.                                                              *)

(* The peer's messages: number m is m, as many times as it is long.        *)
Messages(msgs) ==
  /\ msgs \in Seq(Seq(Nat))
  /\ \A m \in 1 .. Len(msgs) : \A k \in 1 .. Len(msgs[m]) : msgs[m][k] = m

(* The messages behind the first d lie end to end in s, the first of them  *)
(* from place first on, and fill it: m from at[m] on, behind its length.   *)
(* With first less than 1, s begins within that message.                   *)
Lie(s, msgs, d, first, at) ==
  /\ at \in [Nat -> Int]
  /\ at[d + 1] = first /\ at[Len(msgs) + 1] = Len(s) + 1
  /\ \A m \in d + 1 .. Len(msgs) :
       /\ at[m + 1] = at[m] + 1 + Len(msgs[m])
       /\ at[m] + Len(msgs[m]) <= Len(s)
       /\ at[m] >= 1 => s[at[m]].value = Len(msgs[m])
       /\ \A k \in 1 .. Len(msgs[m]) : at[m] + k >= 1 => s[at[m] + k].value = m
       /\ Len(msgs[m]) > 0 /\ at[m] + Len(msgs[m]) >= 1 => s[at[m] + Len(msgs[m])].end

Framed(s, msgs, d, first) == \E at : Lie(s, msgs, d, first, at)

(* What the thread has of the present message, number d + 1.               *)
Progress(s, msgs, d, msg, size) ==
  /\ d <= Len(msgs)
  /\ size = 0 => msg = <<>> /\ Framed(s, msgs, d, 1)
  /\ size # 0 =>
       /\ d < Len(msgs) /\ size = Len(msgs[d + 1])
       /\ msg \in Seq(Nat) /\ Len(msg) < size
       /\ \A k \in 1 .. Len(msg) : msg[k] = d + 1
       /\ Framed(s, msgs, d, 0 - Len(msg))

(* Where the first of them begins, and where the next one does.            *)
Begins(s, msgs, d, first) ==
  LET l == Len(msgs[d + 1]) IN
  /\ l \in Nat /\ first + l <= Len(s)
  /\ first >= 1 => s[first].value = l
  /\ \A k \in 1 .. l : first + k >= 1 => s[first + k].value = d + 1
  /\ l > 0 /\ first + l >= 1 => s[first + l].end
  /\ Framed(s, msgs, d + 1, first + 1 + l)

LEMMA FramedFirst ==
  ASSUME NEW s \in Seq(Byte), NEW msgs, Messages(msgs), NEW d \in Nat, d <= Len(msgs),
         NEW first \in Int, Framed(s, msgs, d, first)
  PROVE  /\ d = Len(msgs) => first = Len(s) + 1
         /\ d < Len(msgs) => Begins(s, msgs, d, first)
<1>1. PICK at : Lie(s, msgs, d, first, at)
  BY DEF Framed
<1>2. Len(msgs) \in Nat
  BY DEF Messages
<1>3. d = Len(msgs) => first = Len(s) + 1
  BY <1>1 DEF Lie
<1>4. ASSUME d < Len(msgs)
      PROVE  Begins(s, msgs, d, first)
  <2>1. d + 1 \in d + 1 .. Len(msgs)
    BY <1>2, <1>4
  <2>2. /\ first + Len(msgs[d + 1]) <= Len(s)
        /\ first >= 1 => s[first].value = Len(msgs[d + 1])
        /\ \A k \in 1 .. Len(msgs[d + 1]) : first + k >= 1 => s[first + k].value = d + 1
        /\ Len(msgs[d + 1]) > 0 /\ first + Len(msgs[d + 1]) >= 1
             => s[first + Len(msgs[d + 1])].end
        /\ at[(d + 1) + 1] = first + 1 + Len(msgs[d + 1])
    BY <1>1, <2>1 DEF Lie
  <2>3. \A m \in (d + 1) + 1 .. Len(msgs) : m \in d + 1 .. Len(msgs)
    BY <1>2
  <2>4. Lie(s, msgs, d + 1, first + 1 + Len(msgs[d + 1]), at)
    BY <1>1, <2>2, <2>3 DEF Lie
  <2>5. Len(msgs[d + 1]) \in Nat
    <3>1. d + 1 \in 1 .. Len(msgs)
      BY <2>1
    <3> QED BY <3>1 DEF Messages
  <2> QED BY <2>2, <2>4, <2>5 DEF Framed, Begins
<1> QED BY <1>3, <1>4

(* Without the first n bytes everything lies n places further on.          *)
LEMMA FramedDrop ==
  ASSUME NEW s \in Seq(Byte), NEW msgs, Messages(msgs), NEW d \in Nat, d <= Len(msgs),
         NEW first \in Int, Framed(s, msgs, d, first), NEW n \in 0 .. Len(s)
  PROVE  Framed(SubSeq(s, n + 1, Len(s)), msgs, d, first - n)
<1>1. PICK at : Lie(s, msgs, d, first, at)
  BY DEF Framed
<1> DEFINE t == SubSeq(s, n + 1, Len(s))
           new == [m \in Nat |-> at[m] - n]
<1>2. /\ t \in Seq(Byte) /\ Len(t) = Len(s) - n
      /\ \A k \in 1 .. Len(s) - n : t[k] = s[n + k]
  BY DropFacts
<1>3. new \in [Nat -> Int] /\ \A m \in Nat : new[m] = at[m] - n
  BY <1>1 DEF Lie
<1>4. Len(msgs) \in Nat /\ \A m \in 1 .. Len(msgs) : Len(msgs[m]) \in Nat
  BY DEF Messages
<1> HIDE DEF t, new
<1>5. new[d + 1] = first - n /\ new[Len(msgs) + 1] = Len(t) + 1
  BY <1>1, <1>2, <1>3, <1>4 DEF Lie
<1>6. ASSUME NEW m \in d + 1 .. Len(msgs)
      PROVE  /\ new[m + 1] = new[m] + 1 + Len(msgs[m])
             /\ new[m] + Len(msgs[m]) <= Len(t)
             /\ new[m] >= 1 => t[new[m]].value = Len(msgs[m])
             /\ \A k \in 1 .. Len(msgs[m]) : new[m] + k >= 1 => t[new[m] + k].value = m
             /\ Len(msgs[m]) > 0 /\ new[m] + Len(msgs[m]) >= 1
                  => t[new[m] + Len(msgs[m])].end
  <2>1. m \in Nat /\ m + 1 \in Nat /\ Len(msgs[m]) \in Nat /\ Len(s) \in Nat
    BY <1>4
  <2>2. at[m] \in Int /\ at[m + 1] \in Int /\ new[m] = at[m] - n /\ new[m + 1] = at[m + 1] - n
    BY <1>1, <1>3, <2>1 DEF Lie
  <2>3. /\ at[m + 1] = at[m] + 1 + Len(msgs[m])
        /\ at[m] + Len(msgs[m]) <= Len(s)
        /\ at[m] >= 1 => s[at[m]].value = Len(msgs[m])
        /\ \A k \in 1 .. Len(msgs[m]) : at[m] + k >= 1 => s[at[m] + k].value = m
        /\ Len(msgs[m]) > 0 /\ at[m] + Len(msgs[m]) >= 1
             => s[at[m] + Len(msgs[m])].end
    BY <1>1 DEF Lie
  <2>4. ASSUME NEW k \in 0 .. Len(msgs[m]), new[m] + k >= 1
        PROVE  t[new[m] + k] = s[at[m] + k] /\ at[m] + k >= 1
    <3>1. at[m] + Len(msgs[m]) <= Len(s) /\ k \in Int /\ n \in Int /\ k <= Len(msgs[m]) /\ n >= 0
      BY <2>1, <2>3
    <3> DEFINE i == new[m]
               l == Len(msgs[m])
               z == Len(s)
    <3>2. i \in Int /\ z \in Int /\ l \in Int /\ i + n + l <= z /\ at[m] = i + n /\ i + k >= 1 /\ k <= l
      BY <2>1, <2>2, <2>4, <3>1
    <3> HIDE DEF i, l, z
    <3>3. i + k \in 1 .. z - n /\ n + (i + k) = at[m] + k /\ at[m] + k >= 1
      BY <3>1, <3>2
    <3> QED BY <1>2, <3>3 DEF i, z
  <2>5. new[m] >= 1 => t[new[m]] = s[at[m]] /\ at[m] >= 1
    <3>1. 0 \in 0 .. Len(msgs[m]) /\ new[m] + 0 = new[m] /\ at[m] + 0 = at[m]
      BY <2>1, <2>2
    <3> QED BY <2>4, <3>1
  <2>6. new[m + 1] = new[m] + 1 + Len(msgs[m]) /\ new[m] + Len(msgs[m]) <= Len(t)
    <3>1. Len(t) = Len(s) - n /\ n \in Int /\ at[m] + Len(msgs[m]) <= Len(s)
          /\ at[m + 1] = at[m] + 1 + Len(msgs[m])
      BY <1>2, <2>3
    <3> DEFINE i == at[m]
               j == at[m + 1]
               l == Len(msgs[m])
               z == Len(s)
               y == Len(t)
    <3>2. i \in Int /\ z \in Int /\ l \in Int /\ n \in Int /\ y = z - n /\ i + l <= z /\ j = i + 1 + l
          /\ new[m] = i - n /\ new[m + 1] = j - n
      BY <2>1, <2>2, <3>1
    <3> HIDE DEF i, j, l, z, y
    <3>3. new[m + 1] = new[m] + 1 + l /\ new[m] + l <= y
      BY <3>2
    <3> QED BY <3>3 DEF l, y
  <2>7. new[m] >= 1 => t[new[m]].value = Len(msgs[m])
    BY <2>3, <2>5
  <2>8. ASSUME NEW k \in 1 .. Len(msgs[m]), new[m] + k >= 1
        PROVE  t[new[m] + k].value = m
    <3>1. k \in 0 .. Len(msgs[m])
      BY <2>1
    <3> QED BY <2>3, <2>4, <2>8, <3>1
  <2>9. Len(msgs[m]) > 0 /\ new[m] + Len(msgs[m]) >= 1 => t[new[m] + Len(msgs[m])].end
    <3>1. Len(msgs[m]) \in 0 .. Len(msgs[m])
      BY <2>1
    <3> QED BY <2>3, <2>4, <3>1
  <2> QED BY <2>6, <2>7, <2>8, <2>9
<1>7. Lie(t, msgs, d, first - n, new)
  BY <1>3, <1>5, <1>6 DEF Lie
<1> QED BY <1>7 DEF Framed, t

(* The peer sends another message, of length n.                            *)
More(msgs, n, more, enc) ==
  /\ Messages(more) /\ Len(more) = Len(msgs) + 1 /\ Len(more[Len(msgs) + 1]) = n
  /\ \A m \in 1 .. Len(msgs) : more[m] = msgs[m]
  /\ enc \in Seq(Byte) /\ Len(enc) = n + 1 /\ enc[1].value = n
  /\ \A k \in 1 .. n : enc[1 + k].value = Len(msgs) + 1
  /\ n > 0 => enc[1 + n].end

LEMMA MoreFacts ==
  ASSUME NEW msgs, Messages(msgs), NEW n \in Nat
  PROVE  More(msgs, n, Append(msgs, [k \in 1 .. n |-> Len(msgs) + 1]),
              Encoded(Len(msgs) + 1, n))
<1> DEFINE l == Len(msgs)
           msg == [k \in 1 .. n |-> l + 1]
           enc == Encoded(l + 1, n)
           more == Append(msgs, msg)
<1>1. /\ l \in Nat /\ msgs \in Seq(Seq(Nat))
      /\ \A m \in 1 .. l : Len(msgs[m]) \in Nat
  BY DEF Messages
<1>2. msg \in Seq(Nat) /\ Len(msg) = n /\ \A k \in 1 .. n : msg[k] = l + 1
  BY <1>1
<1>3. /\ enc \in Seq(Byte) /\ Len(enc) = n + 1
      /\ enc[1].value = n
      /\ \A k \in 1 .. n : enc[1 + k].value = l + 1
      /\ n > 0 => enc[1 + n].end
  <2> DEFINE a == <<[value |-> n, end |-> FALSE]>>
             b == [k \in 1 .. n |-> [value |-> l + 1, end |-> k = n]]
  <2>1. a \in Seq(Byte) /\ Len(a) = 1 /\ a[1].value = n
    BY DEF Byte
  <2>2. b \in Seq(Byte) /\ Len(b) = n
    BY <1>1 DEF Byte
  <2>3. \A k \in 1 .. n : b[k].value = l + 1 /\ b[k].end = (k = n)
    OBVIOUS
  <2>4. enc = a \o b
    BY DEF Encoded
  <2> HIDE DEF a, b, enc
  <2>5. /\ enc \in Seq(Byte) /\ Len(enc) = Len(a) + Len(b)
        /\ \A k \in 1 .. Len(a) : enc[k] = a[k]
        /\ \A k \in 1 .. Len(b) : enc[Len(a) + k] = b[k]
    <3>1. a \in Seq(Byte) /\ b \in Seq(Byte)
      BY <2>1, <2>2
    <3> QED BY <2>4, <3>1, ConcatFacts
  <2>6. /\ enc \in Seq(Byte) /\ Len(enc) = n + 1 /\ enc[1] = a[1]
        /\ \A k \in 1 .. n : enc[1 + k] = b[k]
    BY <2>1, <2>2, <2>5
  <2>7. n > 0 => enc[1 + n].end
    <3> SUFFICES ASSUME n > 0 PROVE enc[1 + n].end
      OBVIOUS
    <3>1. n \in 1 .. n
      OBVIOUS
    <3> QED BY <2>3, <2>6, <3>1
  <2>8. \A k \in 1 .. n : enc[1 + k].value = l + 1
    BY <2>3, <2>6
  <2> QED BY <2>1, <2>6, <2>7, <2>8
<1>4. /\ Len(more) = l + 1 /\ more[l + 1] = msg /\ more \in Seq(Seq(Nat))
      /\ \A m \in 1 .. l : more[m] = msgs[m]
  BY <1>1, <1>2
<1> HIDE DEF enc, msg, more
<1>5. Messages(more)
  <2> SUFFICES ASSUME NEW m \in 1 .. l + 1, NEW k \in 1 .. Len(more[m])
               PROVE  more[m][k] = m
    BY <1>4 DEF Messages
  <2>1. CASE m = l + 1
    BY <1>2, <1>4, <2>1
  <2>2. CASE m # l + 1
    <3>1. m \in 1 .. l
      BY <1>1, <2>2
    <3> QED BY <1>4, <3>1 DEF Messages
  <2> QED BY <2>1, <2>2
<1>6. More(msgs, n, more, enc)
  BY <1>2, <1>3, <1>4, <1>5 DEF More
<1> QED BY <1>6 DEF more, enc, msg

(* It lies behind the others.                                              *)
LEMMA FramedMore ==
  ASSUME NEW s \in Seq(Byte), NEW msgs, Messages(msgs), NEW d \in Nat, d <= Len(msgs),
         NEW first \in Int, Framed(s, msgs, d, first), NEW n \in Nat,
         NEW more, NEW enc, More(msgs, n, more, enc)
  PROVE  Framed(s \o enc, more, d, first)
<1> DEFINE l == Len(msgs)
<1>1. /\ l \in Nat /\ Len(s) \in Nat /\ \A m \in 1 .. l : Len(msgs[m]) \in Nat
  BY DEF Messages
<1>2. Len(more[l + 1]) = n /\ Len(more) = l + 1 /\ \A m \in 1 .. l : more[m] = msgs[m]
  BY DEF More
<1>3. /\ enc \in Seq(Byte) /\ Len(enc) = n + 1
      /\ enc[1].value = n
      /\ \A k \in 1 .. n : enc[1 + k].value = l + 1
      /\ n > 0 => enc[1 + n].end
  BY DEF More
<1> DEFINE t == s \o enc
<1>5. /\ t \in Seq(Byte) /\ Len(t) = Len(s) + n + 1
      /\ \A k \in 1 .. Len(s) : t[k] = s[k]
      /\ \A k \in 1 .. n + 1 : t[Len(s) + k] = enc[k]
  <2>1. /\ t \in Seq(Byte) /\ Len(t) = Len(s) + Len(enc)
        /\ \A k \in 1 .. Len(s) : t[k] = s[k]
        /\ \A k \in 1 .. Len(enc) : t[Len(s) + k] = enc[k]
    <3>1. enc \in Seq(Byte)
      BY <1>3
    <3> QED BY <3>1, ConcatFacts
  <2> QED BY <1>1, <1>3, <2>1
<1> HIDE DEF t
<1>7. PICK at : Lie(s, msgs, d, first, at)
  BY DEF Framed
<1> DEFINE new == [at EXCEPT ![l + 2] = Len(s) + n + 2]
<1>8. /\ new \in [Nat -> Int] /\ new[l + 2] = Len(s) + n + 2
      /\ \A m \in Nat : m # l + 2 => new[m] = at[m]
  <2>1. at \in [Nat -> Int]
    BY <1>7 DEF Lie
  <2>2. l + 2 \in Nat /\ Len(s) + n + 2 \in Int
    BY <1>1
  <2> QED BY <2>1, <2>2
<1> HIDE DEF new
<1>9. /\ d + 1 \in Nat /\ d + 1 # l + 2 /\ l + 1 \in Nat /\ l + 1 # l + 2
      /\ Len(more) + 1 = l + 2
  BY <1>1, <1>2
<1>10. new[d + 1] = first /\ new[l + 1] = Len(s) + 1 /\ new[Len(more) + 1] = Len(t) + 1
  BY <1>1, <1>5, <1>7, <1>8, <1>9 DEF Lie
<1>11. ASSUME NEW m \in d + 1 .. l
       PROVE  /\ new[m + 1] = new[m] + 1 + Len(more[m])
              /\ new[m] + Len(more[m]) <= Len(t)
              /\ new[m] >= 1 => t[new[m]].value = Len(more[m])
              /\ \A k \in 1 .. Len(more[m]) : new[m] + k >= 1 => t[new[m] + k].value = m
              /\ Len(more[m]) > 0 /\ new[m] + Len(more[m]) >= 1
                   => t[new[m] + Len(more[m])].end
  <2>1. /\ m \in Nat /\ m + 1 \in Nat /\ m # l + 2 /\ m + 1 # l + 2
        /\ Len(msgs[m]) \in Nat /\ more[m] = msgs[m]
    BY <1>1, <1>2
  <2>2. new[m] = at[m] /\ new[m + 1] = at[m + 1] /\ at[m] \in Int
    BY <1>7, <1>8, <2>1 DEF Lie
  <2>3. /\ at[m + 1] = at[m] + 1 + Len(msgs[m])
        /\ at[m] + Len(msgs[m]) <= Len(s)
        /\ at[m] >= 1 => s[at[m]].value = Len(msgs[m])
        /\ \A k \in 1 .. Len(msgs[m]) : at[m] + k >= 1 => s[at[m] + k].value = m
        /\ Len(msgs[m]) > 0 /\ at[m] + Len(msgs[m]) >= 1
             => s[at[m] + Len(msgs[m])].end
    BY <1>7 DEF Lie
  <2>4. ASSUME NEW k \in 0 .. Len(msgs[m]), at[m] + k >= 1
        PROVE  t[at[m] + k] = s[at[m] + k]
    <3>1. at[m] + k \in 1 .. Len(s)
      <4>1. at[m] + Len(msgs[m]) <= Len(s) /\ k \in Int /\ k <= Len(msgs[m])
        BY <2>1, <2>3
      <4> QED BY <1>1, <2>1, <2>2, <2>4, <4>1
    <3> QED BY <1>5, <3>1
  <2>5. at[m] >= 1 => t[at[m]] = s[at[m]]
    <3>1. 0 \in 0 .. Len(msgs[m]) /\ at[m] + 0 = at[m]
      BY <2>1, <2>2
    <3> QED BY <2>4, <3>1
  <2>6. new[m] + Len(msgs[m]) <= Len(t)
    <3>1. Len(s) \in Nat /\ Len(t) \in Nat /\ Len(s) <= Len(t)
      BY <1>1, <1>5
    <3>2. new[m] = at[m] /\ at[m] \in Int /\ Len(msgs[m]) \in Nat
      BY <2>1, <2>2
    <3>3. at[m] + Len(msgs[m]) <= Len(s)
      BY <2>3
    <3> QED BY <3>1, <3>2, <3>3
  <2>7. ASSUME NEW k \in 1 .. Len(msgs[m]), at[m] + k >= 1
        PROVE  t[at[m] + k].value = m
    <3>1. k \in 0 .. Len(msgs[m])
      BY <2>1
    <3> QED BY <2>3, <2>4, <2>7, <3>1
  <2>8. Len(msgs[m]) > 0 /\ at[m] + Len(msgs[m]) >= 1 => t[at[m] + Len(msgs[m])].end
    <3>1. Len(msgs[m]) \in 0 .. Len(msgs[m])
      BY <2>1
    <3> QED BY <2>3, <2>4, <3>1
  <2> QED BY <2>1, <2>2, <2>3, <2>5, <2>6, <2>7, <2>8
<1>12. /\ new[l + 1 + 1] = new[l + 1] + 1 + Len(more[l + 1])
       /\ new[l + 1] + Len(more[l + 1]) <= Len(t)
       /\ new[l + 1] >= 1 => t[new[l + 1]].value = Len(more[l + 1])
       /\ \A k \in 1 .. Len(more[l + 1]) :
            new[l + 1] + k >= 1 => t[new[l + 1] + k].value = l + 1
       /\ Len(more[l + 1]) > 0 /\ new[l + 1] + Len(more[l + 1]) >= 1
            => t[new[l + 1] + Len(more[l + 1])].end
  <2>1. new[l + 1] = Len(s) + 1 /\ Len(more[l + 1]) = n /\ l + 1 + 1 = l + 2
    BY <1>1, <1>2, <1>10
  <2>2. t[Len(s) + 1] = enc[1]
    BY <1>5
  <2>3. ASSUME NEW k \in 1 .. n
        PROVE  t[Len(s) + 1 + k] = enc[1 + k]
    <3>1. 1 + k \in 1 .. n + 1 /\ Len(s) + 1 + k = Len(s) + (1 + k)
      BY <1>1
    <3> QED BY <1>5, <3>1
  <2>4. n > 0 => n \in 1 .. n
    OBVIOUS
  <2>5. new[l + 1 + 1] = new[l + 1] + 1 + n /\ Len(s) + 1 + n <= Len(t)
    BY <1>1, <1>5, <1>8, <2>1
  <2>6. t[new[l + 1]].value = Len(more[l + 1])
    BY <1>3, <2>1, <2>2
  <2>7. \A k \in 1 .. Len(more[l + 1]) : t[new[l + 1] + k].value = l + 1
    BY <1>3, <2>1, <2>3
  <2>8. Len(more[l + 1]) > 0 => t[new[l + 1] + Len(more[l + 1])].end
    BY <1>3, <2>1, <2>3, <2>4
  <2> QED BY <2>1, <2>5, <2>6, <2>7, <2>8
<1>13. \A m \in d + 1 .. Len(more) : m \in d + 1 .. l \/ m = l + 1
  BY <1>1, <1>2
<1>14. Lie(t, more, d, first, new)
  BY <1>8, <1>10, <1>11, <1>12, <1>13 DEF Lie
<1> QED BY <1>14 DEF Framed, t

LEMMA ProgressMore ==
  ASSUME NEW s \in Seq(Byte), NEW msgs, Messages(msgs), NEW d \in Nat, NEW msg, NEW size,
         Progress(s, msgs, d, msg, size), NEW n \in Nat, NEW more, NEW enc, More(msgs, n, more, enc)
  PROVE  Progress(s \o enc, more, d, msg, size)
<1>1. Len(msgs) \in Nat /\ Len(more) = Len(msgs) + 1 /\ d <= Len(msgs)
  BY DEF Messages, More, Progress
<1> DEFINE t == s \o enc
<1>2. CASE size = 0
  <2>1. msg = <<>> /\ Framed(s, msgs, d, 1)
    BY <1>2 DEF Progress
  <2>2. Framed(t, more, d, 1)
    BY <1>1, <2>1, FramedMore
  <2> HIDE DEF t
  <2>3. d <= Len(more)
    BY <1>1
  <2>4. Progress(t, more, d, msg, size)
    BY <1>2, <2>1, <2>2, <2>3 DEF Progress
  <2> QED BY <2>4 DEF t
<1>3. CASE size # 0
  <2>1. /\ d < Len(msgs) /\ size = Len(msgs[d + 1])
        /\ msg \in Seq(Nat) /\ Len(msg) < size
        /\ \A k \in 1 .. Len(msg) : msg[k] = d + 1
        /\ Framed(s, msgs, d, 0 - Len(msg))
    BY <1>3 DEF Progress
  <2>2. 0 - Len(msg) \in Int
    BY <2>1
  <2>3. Framed(t, more, d, 0 - Len(msg))
    BY <1>1, <2>1, <2>2, FramedMore
  <2> HIDE DEF t
  <2>4. d < Len(more) /\ d <= Len(more) /\ size = Len(more[d + 1])
    <3>1. d + 1 \in 1 .. Len(msgs)
      BY <1>1, <2>1
    <3>2. more[d + 1] = msgs[d + 1]
      BY <3>1 DEF More
    <3> QED BY <1>1, <2>1, <3>2
  <2>5. Progress(t, more, d, msg, size)
    BY <1>3, <2>1, <2>3, <2>4 DEF Progress
  <2> QED BY <2>5 DEF t
<1> QED BY <1>2, <1>3

(* In what is not confusing no length is 0, and one message ends.          *)
Clear(s, n) ==
  /\ \A k \in 1 .. n : s[k].value # 0
  /\ \A j, k \in 1 .. n : s[j].end /\ s[k].end => j = k

LEMMA NotConfusing ==
  ASSUME NEW s \in Seq(Byte), ~ Confusing(s)
  PROVE  Clear(s, Len(s))
<1>1. DOMAIN s = 1 .. Len(s) /\ Len(s) \in Nat
  OBVIOUS
<1> DEFINE Ends == {k \in 1 .. Len(s) : s[k].end}
<1>2. /\ ~ (Cardinality(Ends) > 1)
      /\ \A k \in 1 .. Len(s) : s[k].value # 0
  BY <1>1 DEF Confusing
<1>3. ASSUME NEW j \in 1 .. Len(s), NEW k \in 1 .. Len(s), s[j].end, s[k].end, j # k
      PROVE  FALSE
  <2>1. IsFiniteSet(1 .. Len(s))
    BY <1>1, FS_Interval
  <2>2. IsFiniteSet(Ends) /\ Cardinality(Ends) \in Nat
    <3>1. Ends \in SUBSET (1 .. Len(s))
      OBVIOUS
    <3>2. IsFiniteSet(Ends)
      BY <2>1, <3>1, FS_Subset
    <3> QED BY <3>2, FS_CardinalityType
  <2>3. {j} \cup {k} \in SUBSET Ends
    BY <1>3
  <2>4. IsFiniteSet({j}) /\ Cardinality({j}) = 1
    BY FS_Singleton
  <2> DEFINE Two == {j} \cup {k}
  <2>5. Cardinality(Two) = Cardinality({j}) + 1
    <3>1. k \notin {j}
      BY <1>3
    <3> QED BY <2>4, <3>1, FS_AddElement
  <2>6. Cardinality(Two) <= Cardinality(Ends)
    BY <2>2, <2>3, FS_Subset
  <2> HIDE DEF Two, Ends
  <2>7. ~ (Cardinality(Ends) > 1) /\ Cardinality(Ends) \in Nat
    BY <1>2, <2>2
  <2>8. Cardinality(Two) = 2
    BY <2>4, <2>5
  <2> QED BY <2>6, <2>7, <2>8
<1> QED BY <1>2, <1>3 DEF Clear

(* What is behind a complete message, up to place n, is the beginning of   *)
(* the next one.                                                           *)
Ended(s, msgs, d, n, r, t) ==
  /\ s \in Seq(Byte) /\ Messages(msgs) /\ d \in Nat /\ d <= Len(msgs)
  /\ n \in 1 .. Len(s) /\ r \in 1 .. n
  /\ s[r].end /\ Framed(s, msgs, d, r + 1) /\ Clear(s, n)
  /\ t \in Seq(Nat) /\ Len(t) = n - r /\ \A k \in 1 .. n - r : t[k] = s[r + k].value

LEMMA RestIsNext ==
  ASSUME NEW s, NEW msgs, NEW d, NEW n, NEW r, NEW t, Ended(s, msgs, d, n, r, t)
  PROVE  Progress(SubSeq(s, n + 1, Len(s)), msgs, d, Rest(t).message, Rest(t).size)
<1> DEFINE u == SubSeq(s, n + 1, Len(s))
<1>1. /\ Len(msgs) \in Nat /\ Len(s) \in Nat /\ n \in Nat /\ r \in Nat /\ n <= Len(s) /\ r <= n
      /\ r >= 1 /\ r + 1 \in Int /\ d \in Nat /\ d <= Len(msgs)
  <2>1. /\ s \in Seq(Byte) /\ Messages(msgs) /\ d \in Nat /\ d <= Len(msgs)
        /\ n \in 1 .. Len(s) /\ r \in 1 .. n
    BY DEF Ended
  <2>2. Len(msgs) \in Nat /\ Len(s) \in Nat
    BY <2>1 DEF Messages
  <2> QED BY <2>1, <2>2
<1>a. /\ s \in Seq(Byte) /\ Messages(msgs) /\ s[r].end /\ Framed(s, msgs, d, r + 1)
  BY DEF Ended
<1>b. t \in Seq(Nat) /\ Len(t) = n - r
  BY DEF Ended
<1>c. \A k \in 1 .. n - r : t[k] = s[r + k].value
  BY DEF Ended
<1>2. Framed(u, msgs, d, (r + 1) - n)
  <2>1. n \in 0 .. Len(s)
    BY <1>1
  <2> QED BY <1>1, <1>a, <2>1, FramedDrop
<1> HIDE DEF u
<1>3. CASE n = r
  <2>1. t = <<>>
    BY <1>1, <1>3, <1>b
  <2>2. Rest(t).message = <<>> /\ Rest(t).size = 0
    BY <2>1 DEF Rest
  <2>3. (r + 1) - n = 1
    BY <1>1, <1>3
  <2>4. Progress(u, msgs, d, <<>>, 0)
    BY <1>1, <1>2, <2>3 DEF Progress
  <2> QED BY <2>2, <2>4 DEF u
<1>4. CASE n > r
  <2>1. d < Len(msgs)
    <3>1. d = Len(msgs) => r + 1 = Len(s) + 1
      BY <1>1, <1>a, FramedFirst
    <3>2. r + 1 # Len(s) + 1
      BY <1>1, <1>4
    <3> QED BY <1>1, <3>1, <3>2
  <2> DEFINE l == Len(msgs[d + 1])
  <2>2. /\ l \in Nat
        /\ (r + 1) + l <= Len(s)
        /\ s[r + 1].value = l
        /\ \A k \in 1 .. l : s[(r + 1) + k].value = d + 1
        /\ l > 0 => s[(r + 1) + l].end
    <3>1. Begins(s, msgs, d, r + 1)
      BY <1>1, <1>a, <2>1, FramedFirst
    <3>2. /\ l \in Nat /\ (r + 1) + l <= Len(s)
          /\ r + 1 >= 1 => s[r + 1].value = l
          /\ \A k \in 1 .. l : (r + 1) + k >= 1 => s[(r + 1) + k].value = d + 1
          /\ l > 0 /\ (r + 1) + l >= 1 => s[(r + 1) + l].end
      BY <3>1 DEF Begins
    <3>3. r + 1 >= 1 /\ (r + 1) + l >= 1
      <4>1. r \in Nat /\ l \in Nat
        BY <1>1, <3>2
      <4>2. \A a, b \in Nat : a + 1 >= 1 /\ (a + 1) + b >= 1
        OBVIOUS
      <4> QED BY <4>1, <4>2, Zenon
    <3>4. \A k \in 1 .. l : (r + 1) + k >= 1
      BY <1>1
    <3> QED BY <3>2, <3>3, <3>4
  <2> HIDE DEF l
  <2>3. t # <<>> /\ Head(t) = l /\ l # 0
    <3>1. 1 \in 1 .. n - r /\ r + 1 \in 1 .. n /\ n - r > 0
      BY <1>1, <1>4
    <3>2. t # <<>> /\ Head(t) = t[1]
      BY <1>b, <3>1
    <3>3. t[1] = s[r + 1].value
      BY <1>c, <3>1
    <3>4. s[r + 1].value # 0
      BY <3>1 DEF Ended, Clear
    <3> QED BY <2>2, <3>2, <3>3, <3>4
  <2>4. (r + 1) + l > n
    <3> SUFFICES ASSUME (r + 1) + l <= n PROVE FALSE
      BY <1>1, <2>2
    <3>1. (r + 1) + l \in 1 .. n /\ r \in 1 .. n /\ (r + 1) + l # r /\ l > 0
      BY <1>1, <2>2, <2>3
    <3>2. s[(r + 1) + l].end /\ s[r].end
      BY <1>a, <2>2, <3>1
    <3> QED BY <3>1, <3>2 DEF Ended, Clear
  <2>5. Rest(t).message = Tail(t) /\ Rest(t).size = l
    BY <2>3 DEF Rest
  <2>6. /\ Tail(t) \in Seq(Nat) /\ Len(Tail(t)) = (n - r) - 1
        /\ \A k \in 1 .. (n - r) - 1 : Tail(t)[k] = t[k + 1]
    BY <1>1, <1>4, <1>b, <2>3
  <2>7. ASSUME NEW k \in 1 .. (n - r) - 1
        PROVE  Tail(t)[k] = d + 1
    <3>1. /\ k + 1 \in 1 .. n - r /\ r + (k + 1) = (r + 1) + k /\ k \in 1 .. l
      BY <1>1, <1>4, <2>2, <2>4
    <3>2. Tail(t)[k] = t[k + 1]
      BY <2>6
    <3>3. t[k + 1] = s[(r + 1) + k].value
      BY <1>c, <3>1
    <3>4. s[(r + 1) + k].value = d + 1
      BY <2>2, <3>1
    <3> QED BY <3>2, <3>3, <3>4
  <2>8. (n - r) - 1 < l /\ 0 - ((n - r) - 1) = (r + 1) - n
    BY <1>1, <2>2, <2>4
  <2>9. Progress(u, msgs, d, Tail(t), l)
    <3>1. /\ d <= Len(msgs) /\ d < Len(msgs) /\ l = Len(msgs[d + 1]) /\ l # 0
          /\ Tail(t) \in Seq(Nat) /\ Len(Tail(t)) < l
      BY <1>1, <2>1, <2>3, <2>6, <2>8 DEF l
    <3>2. \A k \in 1 .. Len(Tail(t)) : Tail(t)[k] = d + 1
      BY <2>6, <2>7
    <3>3. Framed(u, msgs, d, 0 - Len(Tail(t)))
      BY <1>2, <2>6, <2>8
    <3> QED BY <3>1, <3>2, <3>3 DEF Progress
  <2> QED BY <2>5, <2>9 DEF u
<1> QED BY <1>1, <1>3, <1>4

(* The thread has part of message d + 1, and data is what it has claimed   *)
(* behind place from, up to n.                                             *)
Parsing(s, msgs, d, n, have, data, from, size) ==
  /\ s \in Seq(Byte) /\ Messages(msgs) /\ d \in Nat /\ d < Len(msgs) /\ n \in 1 .. Len(s)
  /\ have \in Seq(Nat) /\ \A k \in 1 .. Len(have) : have[k] = d + 1
  /\ data \in Seq(Nat) /\ from \in 0 .. n /\ Len(data) = n - from
  /\ \A k \in 1 .. n - from : data[k] = s[from + k].value
  /\ size = Len(msgs[d + 1]) /\ size > 0 /\ Len(have) <= size
  /\ Framed(s, msgs, d, from - Len(have))

LEMMA ParsingFacts ==
  ASSUME NEW s, NEW msgs, NEW d, NEW n, NEW have, NEW data, NEW from, NEW size,
         Parsing(s, msgs, d, n, have, data, from, size)
  PROVE  /\ Begins(s, msgs, d, from - Len(have))
         /\ size \in Nat /\ Len(have) \in Nat /\ Len(data) \in Nat /\ n \in Nat /\ from \in Nat
         /\ Len(s) \in Nat /\ n <= Len(s) /\ from <= n /\ n > 0
         /\ Len(msgs) \in Nat /\ d \in Nat /\ d < Len(msgs) /\ d + 1 \in 1 .. Len(msgs)
         /\ size > 0 /\ Len(have) <= size /\ Len(data) = n - from
         /\ size = Len(msgs[d + 1])
<1>1. /\ s \in Seq(Byte) /\ Messages(msgs) /\ d \in Nat /\ d < Len(msgs)
      /\ Framed(s, msgs, d, from - Len(have)) /\ size = Len(msgs[d + 1])
      /\ have \in Seq(Nat) /\ data \in Seq(Nat) /\ from \in 0 .. n /\ n \in 1 .. Len(s)
      /\ Len(data) = n - from /\ size > 0 /\ Len(have) <= size
  BY DEF Parsing
<1>2. Len(s) \in Nat /\ Len(have) \in Nat /\ Len(data) \in Nat
  BY <1>1
<1>3. n \in Nat /\ from \in Nat /\ n <= Len(s) /\ from <= n /\ n > 0
  BY <1>1, <1>2
<1>4. Len(msgs) \in Nat /\ d <= Len(msgs) /\ d + 1 \in 1 .. Len(msgs)
  <2>1. Len(msgs) \in Nat
    BY <1>1 DEF Messages
  <2> QED BY <1>1, <2>1
<1>5. from - Len(have) \in Int
  BY <1>2, <1>3
<1>6. Begins(s, msgs, d, from - Len(have))
  BY <1>1, <1>4, <1>5, FramedFirst
<1>7. size \in Nat
  BY <1>1, <1>6 DEF Begins
<1> QED BY <1>1, <1>2, <1>3, <1>4, <1>6, <1>7

(* All of what the thread has is of that message, as far as it goes.       *)
AllOf(bytes, l, m) ==
  bytes \in Seq(Nat) /\ Len(bytes) = l /\ \A k \in 1 .. l : bytes[k] = m

LEMMA ParsingAll ==
  ASSUME NEW s, NEW msgs, NEW d, NEW n, NEW have, NEW data, NEW from, NEW size,
         Parsing(s, msgs, d, n, have, data, from, size),
         NEW piece \in Seq(Nat), Len(piece) <= Len(data), Len(have) + Len(piece) <= size,
         \A k \in 1 .. Len(piece) : piece[k] = data[k]
  PROVE  AllOf(have \o piece, Len(have) + Len(piece), d + 1)
<1>1. /\ size \in Nat /\ Len(have) \in Nat /\ Len(data) \in Nat /\ n \in Nat /\ from \in Nat
      /\ Len(data) = n - from
  BY ParsingFacts
<1>2. have \in Seq(Nat) /\ \A k \in 1 .. Len(have) : have[k] = d + 1
  BY DEF Parsing
<1>3. \A k \in 1 .. n - from : data[k] = s[from + k].value
  BY DEF Parsing
<1>4. \A k \in 1 .. size :
        (from - Len(have)) + k >= 1 => s[(from - Len(have)) + k].value = d + 1
  <2>1. Begins(s, msgs, d, from - Len(have)) /\ size = Len(msgs[d + 1])
    BY ParsingFacts
  <2> QED BY <2>1 DEF Begins
<1> DEFINE all == have \o piece
<1>5. /\ all \in Seq(Nat) /\ Len(all) = Len(have) + Len(piece)
      /\ \A k \in 1 .. Len(have) : all[k] = have[k]
      /\ \A k \in 1 .. Len(piece) : all[Len(have) + k] = piece[k]
  BY <1>2, ConcatFacts
<1> HIDE DEF all
<1>6. ASSUME NEW k \in 1 .. Len(have) + Len(piece)
      PROVE  all[k] = d + 1
  <2>1. CASE k <= Len(have)
    <3>1. k \in 1 .. Len(have)
      BY <1>1, <2>1
    <3> QED BY <1>2, <1>5, <3>1
  <2>2. CASE k > Len(have)
    <3> DEFINE i == k - Len(have)
    <3>0. Len(have) \in Nat /\ Len(piece) \in Nat
      BY <1>1
    <3>1. i \in Int /\ i = k - Len(have) /\ i > 0
      BY <2>2, <3>0
    <3>2. i \in 1 .. Len(piece) /\ Len(have) + i = k
      BY <2>2, <3>0
    <3> HIDE DEF i
    <3>3. i \in 1 .. n - from /\ k \in 1 .. size
      BY <1>1, <3>2
    <3>4. (from - Len(have)) + k = from + i /\ from + i >= 1
      BY <1>1, <3>1, <3>2
    <3>5. all[k] = data[i]
      BY <1>5, <3>2
    <3>6. data[i] = s[from + i].value
      BY <1>3, <3>3
    <3>7. s[from + i].value = d + 1
      BY <1>4, <3>3, <3>4
    <3> QED BY <3>5, <3>6, <3>7
  <2> QED BY <1>1, <2>1, <2>2
<1> QED BY <1>5, <1>6 DEF all, AllOf

(* What one claim gives.                                                   *)
Parsed(s, msgs, d, n, parsed) ==
  \/ /\ parsed.out = <<>>
     /\ Progress(SubSeq(s, n + 1, Len(s)), msgs, d, parsed.next.message, parsed.next.size)
  \/ /\ d < Len(msgs) /\ parsed.out = <<msgs[d + 1]>>
     /\ Progress(SubSeq(s, n + 1, Len(s)), msgs, d + 1, parsed.next.message, parsed.next.size)

(* A message is not complete: it has begun, or has grown.                  *)
LEMMA CutPartial ==
  ASSUME NEW s, NEW msgs, NEW d, NEW n, NEW have, NEW data, NEW from, NEW size,
         Parsing(s, msgs, d, n, have, data, from, size), Len(data) < size - Len(have)
  PROVE  Parsed(s, msgs, d, n, Cut(data, have, size))
<1>1. /\ size \in Nat /\ Len(have) \in Nat /\ Len(data) \in Nat /\ n \in Nat /\ from \in Nat
      /\ Len(data) = n - from /\ n <= Len(s) /\ Len(s) \in Nat /\ size > 0
      /\ size = Len(msgs[d + 1]) /\ d < Len(msgs) /\ d \in Nat /\ Len(msgs) \in Nat
  BY ParsingFacts
<1>2. /\ s \in Seq(Byte) /\ Messages(msgs) /\ data \in Seq(Nat)
      /\ Framed(s, msgs, d, from - Len(have))
  BY DEF Parsing
<1>3. ~ (Len(data) >= size - Len(have))
  BY <1>1
<1>4. Cut(data, have, size) = [out |-> <<>>, next |-> [message |-> have \o data, size |-> size]]
  BY <1>3 DEF Cut
<1> DEFINE all == have \o data
<1>5. /\ all \in Seq(Nat) /\ Len(all) = Len(have) + Len(data)
      /\ \A k \in 1 .. Len(have) + Len(data) : all[k] = d + 1
  <2>1. Len(data) <= Len(data) /\ Len(have) + Len(data) <= size
    BY <1>1
  <2>2. data \in Seq(Nat) /\ \A k \in 1 .. Len(data) : data[k] = data[k]
    BY <1>2
  <2> HIDE DEF all
  <2>3. AllOf(have \o data, Len(have) + Len(data), d + 1)
    BY <2>1, <2>2, ParsingAll
  <2> QED BY <2>3 DEF all, AllOf
<1> HIDE DEF all
<1>6. Framed(SubSeq(s, n + 1, Len(s)), msgs, d, (from - Len(have)) - n)
  <2>1. n \in 0 .. Len(s) /\ d <= Len(msgs) /\ from - Len(have) \in Int
    BY <1>1
  <2> QED BY <1>1, <1>2, <2>1, FramedDrop
<1>7. (from - Len(have)) - n = 0 - Len(all) /\ Len(all) < size /\ size # 0 /\ d <= Len(msgs)
  <2>1. Len(all) = Len(have) + (n - from)
    BY <1>1, <1>5
  <2>2. Len(have) + (n - from) < size
    BY <1>1
  <2>3. (from - Len(have)) - n = 0 - (Len(have) + (n - from))
    BY <1>1
  <2> QED BY <1>1, <2>1, <2>2, <2>3
<1>8. Progress(SubSeq(s, n + 1, Len(s)), msgs, d, all, size)
  <2> DEFINE u == SubSeq(s, n + 1, Len(s))
  <2>1. \A k \in 1 .. Len(all) : all[k] = d + 1
    BY <1>5
  <2>2. Framed(u, msgs, d, 0 - Len(all))
    BY <1>6, <1>7
  <2>3. /\ d <= Len(msgs) /\ d < Len(msgs) /\ size = Len(msgs[d + 1]) /\ size # 0
        /\ all \in Seq(Nat) /\ Len(all) < size
    BY <1>1, <1>5, <1>7
  <2> HIDE DEF u
  <2>4. Progress(u, msgs, d, all, size)
    BY <2>1, <2>2, <2>3 DEF Progress
  <2> QED BY <2>4 DEF u
<1>9. /\ Cut(data, have, size).out = <<>>
      /\ Cut(data, have, size).next.message = all /\ Cut(data, have, size).next.size = size
  BY <1>4 DEF all
<1> QED BY <1>8, <1>9 DEF Parsed

(* A message is complete: it is the next one, and the rest begins another. *)
LEMMA CutComplete ==
  ASSUME NEW s, NEW msgs, NEW d, NEW n, NEW have, NEW data, NEW from, NEW size,
         Parsing(s, msgs, d, n, have, data, from, size), Len(data) >= size - Len(have),
         from > 0 \/ size > Len(have), Clear(s, n)
  PROVE  Parsed(s, msgs, d, n, Cut(data, have, size))
<1>1. /\ size \in Nat /\ Len(have) \in Nat /\ Len(data) \in Nat /\ n \in Nat /\ from \in Nat
      /\ Len(data) = n - from /\ n <= Len(s) /\ Len(s) \in Nat /\ size > 0 /\ Len(have) <= size
      /\ size = Len(msgs[d + 1]) /\ d < Len(msgs) /\ d \in Nat /\ Len(msgs) \in Nat
  BY ParsingFacts
<1>2. s \in Seq(Byte) /\ Messages(msgs) /\ data \in Seq(Nat)
  BY DEF Parsing
<1> DEFINE remaining == size - Len(have)
           r == from + remaining
           piece == SubSeq(data, 1, remaining)
           t == SubSeq(data, remaining + 1, Len(data))
<1>3. /\ remaining \in 0 .. Len(data) /\ r \in 1 .. n /\ remaining \in Nat /\ r \in Nat
      /\ (from - Len(have)) + size = r /\ (from - Len(have)) + 1 + size = r + 1
      /\ size = Len(have) + remaining /\ r = from + remaining
  <2> DEFINE l == Len(have)
             k == Len(data)
  <2>1. /\ size \in Nat /\ l \in Nat /\ k \in Nat /\ n \in Nat /\ from \in Nat
        /\ k = n - from /\ l <= size /\ k >= size - l /\ (from > 0 \/ size > l)
        /\ remaining = size - l /\ r = from + remaining
    BY <1>1
  <2> HIDE DEF l, k, remaining, r
  <2>2. /\ remaining \in 0 .. k /\ r \in 1 .. n /\ remaining \in Nat /\ r \in Nat
        /\ (from - l) + size = r /\ (from - l) + 1 + size = r + 1
        /\ size = l + remaining
    BY <2>1
  <2> QED BY <2>1, <2>2 DEF l, k
<1>4. Cut(data, have, size) = [out |-> <<have \o piece>>, next |-> Rest(t)]
  BY <1>1 DEF Cut
<1>5. /\ piece \in Seq(Nat) /\ Len(piece) = remaining
      /\ \A k \in 1 .. remaining : piece[k] = data[k]
  BY <1>2, <1>3, TakeFacts
<1>6. /\ t \in Seq(Nat) /\ Len(t) = Len(data) - remaining
      /\ \A k \in 1 .. Len(data) - remaining : t[k] = data[remaining + k]
  BY <1>2, <1>3, DropFacts
<1> HIDE DEF remaining, r, piece, t
<1>7. have \o piece = msgs[d + 1]
  <2> DEFINE all == have \o piece
             msg == msgs[d + 1]
  <2>1. /\ all \in Seq(Nat) /\ Len(all) = size
        /\ \A k \in 1 .. size : all[k] = d + 1
    <3>1. Len(piece) <= Len(data) /\ Len(have) + Len(piece) <= size
      BY <1>1, <1>3, <1>5
    <3>2. Len(have) + Len(piece) = size
      BY <1>3, <1>5
    <3>3. piece \in Seq(Nat) /\ \A k \in 1 .. Len(piece) : piece[k] = data[k]
      BY <1>5
    <3> HIDE DEF all
    <3>4. AllOf(have \o piece, Len(have) + Len(piece), d + 1)
      BY <3>1, <3>3, ParsingAll
    <3> QED BY <3>2, <3>4 DEF all, AllOf
  <2>2. msg \in Seq(Nat) /\ Len(msg) = size /\ \A k \in 1 .. size : msg[k] = d + 1
    <3>1. d + 1 \in 1 .. Len(msgs) /\ Len(msg) = size
      BY <1>1
    <3>2. msgs \in Seq(Seq(Nat)) /\ \A k \in 1 .. Len(msg) : msg[k] = d + 1
      BY <1>2, <3>1 DEF Messages
    <3> QED BY <3>1, <3>2
  <2> HIDE DEF all, msg
  <2>3. all = msg
    BY <2>1, <2>2, SeqEqual
  <2> QED BY <2>3 DEF all, msg
<1>8. s[r].end /\ Framed(s, msgs, d + 1, r + 1)
  <2>1. Begins(s, msgs, d, from - Len(have))
    BY ParsingFacts
  <2> QED BY <1>1, <1>3, <2>1 DEF Begins
<1>9. Len(t) = n - r /\ \A k \in 1 .. n - r : t[k] = s[r + k].value
  <2>1. Len(data) - remaining = n - r
    BY <1>1, <1>3
  <2>2. \A k \in 1 .. n - from : data[k] = s[from + k].value
    BY DEF Parsing
  <2>3. ASSUME NEW k \in 1 .. n - r
        PROVE  t[k] = s[r + k].value
    <3>1. remaining + k \in 1 .. n - from /\ from + (remaining + k) = r + k
      BY <1>1, <1>3
    <3>2. t[k] = data[remaining + k]
      BY <1>6, <2>1
    <3> QED BY <2>2, <3>1, <3>2
  <2> QED BY <1>6, <2>1, <2>3
<1>10. Progress(SubSeq(s, n + 1, Len(s)), msgs, d + 1, Rest(t).message, Rest(t).size)
  <2>1. d + 1 \in Nat /\ d + 1 <= Len(msgs) /\ n \in 1 .. Len(s)
    BY <1>1, <1>3
  <2>2. Ended(s, msgs, d + 1, n, r, t)
    BY <1>2, <1>3, <1>6, <1>8, <1>9, <2>1 DEF Ended
  <2> QED BY <2>2, RestIsNext
<1>11. /\ Cut(data, have, size).out = <<msgs[d + 1]>>
       /\ Cut(data, have, size).next = Rest(t)
  BY <1>4, <1>7
<1> QED BY <1>1, <1>10, <1>11 DEF Parsed

(* One claim that is not confusing, in either state of the thread.         *)
LEMMA ParseFacts ==
  ASSUME NEW s \in Seq(Byte), NEW msgs, Messages(msgs), NEW d \in Nat,
         Progress(s, msgs, d, message, message_size),
         NEW n \in 1 .. Len(s), Clear(s, n),
         NEW values \in Seq(Nat), Len(values) = n, \A k \in 1 .. n : values[k] = s[k].value
  PROVE  Parsed(s, msgs, d, n, Parse(values))
<1>1. /\ n \in Nat /\ n > 0 /\ n <= Len(s) /\ Len(s) \in Nat /\ Len(msgs) \in Nat
      /\ d <= Len(msgs)
  BY DEF Messages, Progress
<1>2. CASE message_size # 0
  <2>1. /\ d < Len(msgs) /\ message_size = Len(msgs[d + 1])
        /\ message \in Seq(Nat) /\ Len(message) < message_size
        /\ \A k \in 1 .. Len(message) : message[k] = d + 1
        /\ Framed(s, msgs, d, 0 - Len(message))
    BY <1>2 DEF Progress
  <2>2. message_size \in Nat /\ Len(message) \in Nat
    <3>1. d + 1 \in 1 .. Len(msgs)
      BY <1>1, <2>1
    <3> QED BY <2>1, <3>1 DEF Messages
  <2>3. Parsing(s, msgs, d, n, message, values, 0, message_size)
    <3>1. 0 \in 0 .. n /\ Len(values) = n - 0 /\ message_size > 0 /\ Len(message) <= message_size
      BY <1>1, <1>2, <2>1, <2>2
    <3>2. \A k \in 1 .. n - 0 : values[k] = s[0 + k].value
      BY <1>1
    <3> QED BY <2>1, <3>1, <3>2 DEF Parsing
  <2>4. Parse(values) = Cut(values, message, message_size)
    BY <1>2 DEF Parse
  <2>5. CASE Len(values) < message_size - Len(message)
    BY <2>3, <2>4, <2>5, CutPartial
  <2>6. CASE Len(values) >= message_size - Len(message)
    <3>1. message_size > Len(message)
      BY <2>1, <2>2
    <3> QED BY <2>3, <2>4, <2>6, <3>1, CutComplete
  <2> QED BY <1>1, <2>2, <2>5, <2>6
<1>3. CASE message_size = 0
  <2>1. message = <<>> /\ Framed(s, msgs, d, 1)
    BY <1>3 DEF Progress
  <2>2. d < Len(msgs)
    <3>1. d = Len(msgs) => 1 = Len(s) + 1
      BY <1>1, <2>1, FramedFirst
    <3> QED BY <1>1, <3>1
  <2> DEFINE size == Head(values)
             data == Tail(values)
  <2>3. values # <<>> /\ size = values[1] /\ 1 \in 1 .. n
    BY <1>1
  <2>4. size = Len(msgs[d + 1]) /\ size \in Nat /\ size > 0
    <3>1. Begins(s, msgs, d, 1)
      BY <1>1, <2>1, <2>2, FramedFirst
    <3>2. s[1].value = Len(msgs[d + 1]) /\ Len(msgs[d + 1]) \in Nat
      BY <3>1 DEF Begins
    <3>3. s[1].value # 0
      BY <2>3 DEF Clear
    <3> QED BY <2>3, <3>2, <3>3
  <2>5. /\ data \in Seq(Nat) /\ Len(data) = n - 1
        /\ \A k \in 1 .. n - 1 : data[k] = values[k + 1]
    BY <1>1, <2>3
  <2>6. Parse(values) = Cut(data, <<>>, size)
    BY <1>3, <2>4 DEF Parse
  <2> HIDE DEF size, data
  <2>7. Parsing(s, msgs, d, n, <<>>, data, 1, size)
    <3>1. /\ <<>> \in Seq(Nat) /\ Len(<<>>) = 0 /\ 1 - Len(<<>>) = 1
          /\ \A k \in 1 .. Len(<<>>) : <<>>[k] = d + 1
      OBVIOUS
    <3>2. 1 \in 0 .. n /\ 0 <= size
      BY <1>1, <2>4
    <3>3. ASSUME NEW k \in 1 .. n - 1
          PROVE  data[k] = s[1 + k].value
      <4>1. k + 1 \in 1 .. n /\ 1 + k = k + 1
        BY <1>1
      <4> QED BY <2>5, <4>1
    <3> QED BY <2>1, <2>2, <2>4, <2>5, <3>1, <3>2, <3>3 DEF Parsing
  <2>8. CASE Len(data) < size - Len(<<>>)
    BY <2>6, <2>7, <2>8, CutPartial
  <2>9. CASE Len(data) >= size - Len(<<>>)
    <3>1. 1 > 0
      OBVIOUS
    <3> QED BY <2>6, <2>7, <2>9, <3>1, CutComplete
  <2>10. Len(data) < size - Len(<<>>) \/ Len(data) >= size - Len(<<>>)
    BY <1>1, <2>4, <2>5
  <2> QED BY <2>8, <2>9, <2>10
<1> QED BY <1>2, <1>3

RxTypes ==
  /\ RingOk(rx, RxSize, Byte) /\ line \in Seq(Byte)
  /\ rx_pc \in {"init", "wait", "claim", "parse"}
  /\ comms_sem \in BOOLEAN /\ excused \in BOOLEAN /\ cut \in BOOLEAN
  /\ Messages(sent)

WakeInv ==
  /\ rx_pc # "parse" => rx.claimed = 0
  /\ rx_pc = "init" => rx.bytes = <<>>
  /\ rx_pc = "wait" /\ ~ comms_sem => rx.bytes = <<>> \/ cut
  /\ rx_pc = "parse" =>
       /\ rx.claimed > 0
       /\ ~ comms_sem /\ ~ cut => rx.claimed = Len(rx.bytes)
       /\ ~ excused => Clear(rx.bytes, rx.claimed)

(* What was sent and is not delivered: part of a message in the thread,    *)
(* the rest in the ring and on the line.                                   *)
OrderInv ==
  ~ excused =>
    /\ delivered \in Seq(Seq(Nat)) /\ Len(delivered) <= Len(sent)
    /\ \A m \in 1 .. Len(delivered) : delivered[m] = sent[m]
    /\ Progress(rx.bytes \o line, sent, Len(delivered), message, message_size)

RxInv == RxTypes /\ WakeInv /\ OrderInv

LEMMA RxFacts ==
  ASSUME RxInv
  PROVE  /\ RxSize \in Nat \ {0} /\ RingOk(rx, RxSize, Byte)
         /\ rx.bytes \in Seq(Byte) /\ Len(rx.bytes) \in Nat
         /\ rx.claimed \in Nat /\ rx.claimed <= Len(rx.bytes)
         /\ (rx.bytes = <<>> <=> Len(rx.bytes) = 0)
         /\ line \in Seq(Byte) /\ Len(line) \in Nat /\ Messages(sent) /\ Len(sent) \in Nat
         /\ excused \in BOOLEAN
<1>1. RxSize \in Nat \ {0}
  BY CommsAssumption
<1>2. RingOk(rx, RxSize, Byte) /\ line \in Seq(Byte) /\ Messages(sent) /\ excused \in BOOLEAN
  BY DEF RxInv, RxTypes
<1>3. rx \in [bytes : Seq(Byte), claimed : Nat, at : Nat] /\ rx.claimed <= Len(rx.bytes)
  BY <1>2 DEF RingOk
<1> QED BY <1>1, <1>2, <1>3 DEF Messages

LEMMA PeerStep ==
  ASSUME RxInv, PeerSends
  PROVE  RxInv'
<1>0. /\ rx.bytes \in Seq(Byte) /\ line \in Seq(Byte) /\ Messages(sent) /\ Len(sent) \in Nat
  BY RxFacts
<1>1. PICK n \in Lengths :
        /\ sent' = Append(sent, [k \in 1 .. n |-> Len(sent) + 1])
        /\ line' = line \o Encoded(Len(sent) + 1, n)
  BY DEF PeerSends
<1>2. UNCHANGED <<rx, comms_sem, rx_pc, message, message_size, delivered, excused, cut>>
  BY DEF PeerSends
<1>3. n \in Nat
  BY CommsAssumption
<1> DEFINE enc == Encoded(Len(sent) + 1, n)
           s == rx.bytes \o line
<1>4. s \in Seq(Byte)
  BY <1>0
<1> HIDE DEF enc, s
<1>5. More(sent, n, sent', enc)
  BY <1>0, <1>1, <1>3, MoreFacts DEF enc
<1>6. RxTypes'
  <2>1. Messages(sent') /\ enc \in Seq(Byte)
    BY <1>5 DEF More
  <2>2. line' \in Seq(Byte)
    BY <1>0, <1>1, <2>1 DEF enc
  <2> QED BY <1>2, <2>1, <2>2 DEF RxInv, RxTypes
<1>7. WakeInv'
  BY <1>2 DEF RxInv, WakeInv
<1>8. OrderInv'
  <2> SUFFICES ASSUME ~ excused
               PROVE  /\ delivered \in Seq(Seq(Nat)) /\ Len(delivered) <= Len(sent')
                      /\ \A m \in 1 .. Len(delivered) : delivered[m] = sent'[m]
                      /\ Progress(rx.bytes \o line', sent', Len(delivered), message, message_size)
    BY <1>2 DEF OrderInv
  <2>1. /\ delivered \in Seq(Seq(Nat)) /\ Len(delivered) <= Len(sent)
        /\ \A m \in 1 .. Len(delivered) : delivered[m] = sent[m]
        /\ Progress(s, sent, Len(delivered), message, message_size)
    BY DEF RxInv, OrderInv, s
  <2>2. Len(delivered) \in Nat
    BY <2>1
  <2>3. Len(sent') = Len(sent) + 1 /\ \A m \in 1 .. Len(sent) : sent'[m] = sent[m]
    BY <1>5 DEF More
  <2>4. Progress(s \o enc, sent', Len(delivered), message, message_size)
    BY <1>0, <1>3, <1>4, <1>5, <2>1, <2>2, ProgressMore
  <2>5. rx.bytes \o line' = s \o enc
    <3>1. /\ rx.bytes \in Seq(Byte) /\ line \in Seq(Byte) /\ enc \in Seq(Byte)
      BY <1>0, <1>5 DEF More
    <3>2. rx.bytes \o (line \o enc) = (rx.bytes \o line) \o enc
      BY <3>1, ConcatBytes, Zenon
    <3> QED BY <1>1, <3>2 DEF s, enc
  <2>6. \A m \in 1 .. Len(delivered) : delivered[m] = sent'[m]
    BY <1>0, <2>1, <2>2, <2>3
  <2> QED BY <1>0, <2>1, <2>2, <2>3, <2>4, <2>5, <2>6
<1> QED BY <1>6, <1>7, <1>8 DEF RxInv

(* Moving bytes from the line into the ring changes nothing of the two     *)
(* together, as long as they fit.                                          *)
LEMMA ReadyStep ==
  ASSUME RxInv, RxReady
  PROVE  RxInv'
<1>0. /\ rx.bytes \in Seq(Byte) /\ Len(rx.bytes) \in Nat /\ line \in Seq(Byte) /\ Len(line) \in Nat
      /\ excused \in BOOLEAN
  BY RxFacts
<1>r. RxSize \in Nat \ {0} /\ RingOk(rx, RxSize, Byte)
  BY RxFacts
<1>1. PICK n \in 1 .. Len(line) :
        /\ rx' = Put(rx, RxSize, SubSeq(line, 1, n))
        /\ line' = SubSeq(line, n + 1, Len(line))
        /\ excused' = (excused \/ n > Room(rx, RxSize))
  BY DEF RxReady
<1>2. rx_pc # "init" /\ comms_sem' = TRUE /\ UNCHANGED <<rx_pc, message, message_size, sent, delivered, cut>>
  BY DEF RxReady
<1> DEFINE new == SubSeq(line, 1, n)
<1>3. n \in 0 .. Len(line) /\ n \in Nat
  BY <1>0
<1>4. new \in Seq(Byte) /\ Len(new) = n
  BY <1>0, <1>3, TakeFacts
<1>5. line' \in Seq(Byte)
  BY <1>0, <1>1, <1>3, DropFacts
<1> HIDE DEF new
<1>6. Puts(rx, RxSize, Byte, new, rx')
  BY <1>r, <1>1, <1>4, PutFacts DEF new
<1>7. /\ RingOk(rx', RxSize, Byte) /\ rx'.claimed = rx.claimed
      /\ n <= Room(rx, RxSize) => rx'.bytes = rx.bytes \o new
  BY <1>4, <1>6 DEF Puts
<1>8. excused' \in BOOLEAN
  BY <1>0, <1>1
<1>9. RxTypes'
  BY <1>2, <1>5, <1>7, <1>8 DEF RxInv, RxTypes
<1>10. PICK k \in 0 .. n : rx'.bytes = rx.bytes \o SubSeq(new, 1, k)
  BY <1>4, <1>6 DEF Puts
<1>11. \A i \in 1 .. Len(rx.bytes) : rx'.bytes[i] = rx.bytes[i]
  <2>1. SubSeq(new, 1, k) \in Seq(Byte)
    BY <1>4, TakeFacts
  <2> DEFINE a == rx.bytes
             b == SubSeq(new, 1, k)
  <2>2. a \in Seq(Byte) /\ b \in Seq(Byte)
    BY <1>0, <2>1
  <2> HIDE DEF a, b
  <2>3. \A i \in 1 .. Len(a) : (a \o b)[i] = a[i]
    BY <2>2, ConcatFacts
  <2> QED BY <1>10, <2>3 DEF a, b
<1>12. WakeInv'
  <2>1. ~ excused' => ~ excused
    BY <1>1, Zenon
  <2>2. ASSUME rx_pc = "parse", ~ excused'
        PROVE  Clear(rx'.bytes, rx.claimed)
    <3>1. Clear(rx.bytes, rx.claimed)
      BY <2>1, <2>2 DEF RxInv, WakeInv
    <3>2. \A i \in 1 .. rx.claimed : rx'.bytes[i] = rx.bytes[i]
      BY <1>11, RxFacts
    <3> QED BY <3>1, <3>2 DEF Clear
  <2> QED BY <1>2, <1>7, <2>2 DEF RxInv, WakeInv
<1>13. OrderInv'
  <2> SUFFICES ASSUME ~ excused'
               PROVE  /\ delivered \in Seq(Seq(Nat)) /\ Len(delivered) <= Len(sent)
                      /\ \A m \in 1 .. Len(delivered) : delivered[m] = sent[m]
                      /\ Progress(rx'.bytes \o line', sent, Len(delivered), message, message_size)
    BY <1>2 DEF OrderInv
  <2>1. ~ excused /\ ~ (n > Room(rx, RxSize))
    BY <1>1, Zenon
  <2>2. rx'.bytes = rx.bytes \o new
    <3>1. Room(rx, RxSize) \in Int
      BY <1>0, <1>r DEF Room
    <3>2. n <= Room(rx, RxSize)
      BY <1>3, <2>1, <3>1
    <3> QED BY <1>7, <3>2
  <2>3. new \o line' = line
    BY <1>0, <1>1, <1>3, TakeDrop DEF new
  <2>4. rx'.bytes \o line' = rx.bytes \o line
    <3>1. rx.bytes \o (new \o line') = (rx.bytes \o new) \o line'
      BY <1>0, <1>4, <1>5, ConcatBytes, Zenon
    <3> QED BY <2>2, <2>3, <3>1
  <2> QED BY <2>1, <2>4 DEF RxInv, OrderInv
<1> QED BY <1>9, <1>12, <1>13 DEF RxInv

(* Bytes that come before the ring exists are lost.                        *)
LEMMA EarlyStep ==
  ASSUME RxInv, RxReadyEarly
  PROVE  RxInv'
<1>1. PICK n \in 1 .. Len(line) : line' = SubSeq(line, n + 1, Len(line))
  BY DEF RxReadyEarly
<1>2. /\ rx_pc = "init" /\ excused' = TRUE /\ comms_sem' = TRUE
      /\ UNCHANGED <<rx, rx_pc, message, message_size, sent, delivered, cut>>
  BY DEF RxReadyEarly
<1>3. line \in Seq(Byte) /\ n \in 0 .. Len(line)
  BY RxFacts
<1>4. line' \in Seq(Byte)
  BY <1>1, <1>3, DropFacts
<1>5. RxTypes'
  BY <1>2, <1>4 DEF RxInv, RxTypes
<1>6. WakeInv'
  BY <1>2 DEF RxInv, WakeInv
<1>7. OrderInv'
  BY <1>2 DEF OrderInv
<1> QED BY <1>5, <1>6, <1>7 DEF RxInv

LEMMA InitsStep ==
  ASSUME RxInv, RxInits
  PROVE  RxInv'
<1>1. /\ rx_pc = "init" /\ rx_pc' = "wait"
      /\ UNCHANGED <<rx, comms_sem, message, message_size, line, sent, delivered, excused, cut>>
  BY DEF RxInits
<1>2. RxTypes'
  BY <1>1 DEF RxInv, RxTypes
<1>3. WakeInv'
  BY <1>1 DEF RxInv, WakeInv
<1>4. OrderInv'
  BY <1>1 DEF RxInv, OrderInv
<1> QED BY <1>2, <1>3, <1>4 DEF RxInv

LEMMA DropConcat ==
  ASSUME NEW s \in Seq(Byte), NEW t \in Seq(Byte), NEW n \in 0 .. Len(s)
  PROVE  SubSeq(s, n + 1, Len(s)) \o t = SubSeq(s \o t, n + 1, Len(s \o t))
<1> DEFINE a == SubSeq(s, n + 1, Len(s))
           b == s \o t
           c == SubSeq(b, n + 1, Len(b))
<1>1. Len(s) \in Nat /\ Len(t) \in Nat /\ n \in Nat /\ n <= Len(s)
  OBVIOUS
<1>2. a \in Seq(Byte) /\ Len(a) = Len(s) - n /\ \A k \in 1 .. Len(s) - n : a[k] = s[n + k]
  BY DropFacts
<1>3. /\ b \in Seq(Byte) /\ Len(b) = Len(s) + Len(t)
      /\ \A k \in 1 .. Len(s) : b[k] = s[k]
      /\ \A k \in 1 .. Len(t) : b[Len(s) + k] = t[k]
  BY ConcatFacts
<1> HIDE DEF a, b
<1>4. c \in Seq(Byte) /\ Len(c) = Len(b) - n /\ \A k \in 1 .. Len(b) - n : c[k] = b[n + k]
  <2>1. n \in 0 .. Len(b)
    BY <1>1, <1>3
  <2> QED BY <1>3, <2>1, DropFacts
<1> HIDE DEF c
<1>5. /\ a \o t \in Seq(Byte) /\ Len(a \o t) = Len(a) + Len(t)
      /\ \A k \in 1 .. Len(a) : (a \o t)[k] = a[k]
      /\ \A k \in 1 .. Len(t) : (a \o t)[Len(a) + k] = t[k]
  <2>1. a \in Seq(Byte)
    BY <1>2
  <2> QED BY <2>1, ConcatFacts
<1>6. ASSUME NEW k \in 1 .. Len(c)
      PROVE  (a \o t)[k] = c[k]
  <2>1. CASE k <= Len(s) - n
    <3>1. k \in 1 .. Len(s) - n /\ n + k \in 1 .. Len(s) /\ k \in 1 .. Len(b) - n
      BY <1>1, <1>3, <1>4, <2>1
    <3>2. (a \o t)[k] = s[n + k]
      BY <1>2, <1>5, <3>1
    <3>3. c[k] = s[n + k]
      BY <1>3, <1>4, <3>1
    <3> QED BY <3>2, <3>3
  <2>2. CASE k > Len(s) - n
    <3> DEFINE i == k - (Len(s) - n)
    <3>1. /\ i \in 1 .. Len(t) /\ Len(a) + i = k /\ Len(s) + i = n + k /\ k \in 1 .. Len(b) - n
      BY <1>1, <1>2, <1>3, <1>4, <2>2
    <3> HIDE DEF i
    <3>2. (a \o t)[k] = t[i]
      BY <1>5, <3>1
    <3>3. c[k] = t[i]
      BY <1>3, <1>4, <3>1
    <3> QED BY <3>2, <3>3
  <2>3. k <= Len(s) - n \/ k > Len(s) - n
    BY <1>1
  <2> QED BY <2>1, <2>2, <2>3
<1>7. Len(a \o t) = Len(c)
  BY <1>1, <1>2, <1>3, <1>4, <1>5
<1>8. a \o t = c
  BY <1>4, <1>5, <1>6, <1>7, SeqEqual
<1> QED BY <1>8 DEF a, b, c

LEMMA TakesStep ==
  ASSUME RxInv, RxTakes
  PROVE  RxInv'
<1>1. /\ rx_pc = "wait" /\ comms_sem' = FALSE /\ rx_pc' = "claim"
      /\ UNCHANGED <<rx, message, message_size, line, sent, delivered, excused, cut>>
  BY DEF RxTakes
<1>2. RxTypes'
  BY <1>1 DEF RxInv, RxTypes
<1>3. WakeInv'
  BY <1>1 DEF RxInv, WakeInv
<1>4. OrderInv'
  BY <1>1 DEF RxInv, OrderInv
<1> QED BY <1>2, <1>3, <1>4 DEF RxInv

LEMMA RxClaimsStep ==
  ASSUME RxInv, RxClaims
  PROVE  RxInv'
<1>0. /\ rx.bytes \in Seq(Byte) /\ Len(rx.bytes) \in Nat /\ excused \in BOOLEAN
      /\ (rx.bytes = <<>> <=> Len(rx.bytes) = 0)
  BY RxFacts
<1>r. RxSize \in Nat \ {0} /\ RingOk(rx, RxSize, Byte)
  BY RxFacts
<1> DEFINE n == Claimable(rx, RxSize)
           taken == Claimed(rx, n)
<1>1. /\ rx_pc = "claim" /\ rx' = Claim(rx, n)
      /\ rx_pc' = IF n = 0 THEN "wait" ELSE "parse"
      /\ excused' = (excused \/ Confusing(taken))
      /\ cut' = (n < Len(rx.bytes) /\ (n = ClaimSize \/ rx.at + n = RxSize))
      /\ UNCHANGED <<comms_sem, message, message_size, line, sent, delivered>>
  BY DEF RxClaims
<1>2. Claims(rx, RxSize, Byte, n, rx', taken)
  BY <1>r, <1>1, ClaimFacts
<1> HIDE DEF n, taken
<1>3. rx.claimed = 0
  BY <1>1 DEF RxInv, WakeInv
<1>4. /\ n \in 0 .. Len(rx.bytes) /\ n \in Nat /\ (n = 0 <=> rx.bytes = <<>>)
      /\ RingOk(rx', RxSize, Byte) /\ rx'.bytes = rx.bytes /\ rx'.claimed = n
      /\ taken \in Seq(Byte) /\ Len(taken) = n
      /\ \A k \in 1 .. n : taken[k] = rx.bytes[k]
      /\ n = ClaimSize \/ n = Len(rx.bytes) \/ rx.at + n = RxSize
  <2>1. /\ n \in 0 .. Len(rx.bytes) - 0 /\ (n = 0 <=> 0 = Len(rx.bytes))
        /\ RingOk(rx', RxSize, Byte) /\ rx'.bytes = rx.bytes /\ rx'.claimed = 0 + n
        /\ taken \in Seq(Byte) /\ Len(taken) = n
        /\ \A k \in 1 .. n : taken[k] = rx.bytes[0 + k]
        /\ n = ClaimSize \/ n = Len(rx.bytes) - 0 \/ n = RxSize - ((rx.at + 0) % RxSize)
    BY <1>2, <1>3 DEF Claims
  <2>2. rx.at \in Nat /\ rx.at < RxSize
    BY <1>r DEF RingOk
  <2>3. (rx.at + 0) % RxSize = rx.at
    BY <1>r, <2>2
  <2>4. n = RxSize - ((rx.at + 0) % RxSize) => rx.at + n = RxSize
    BY <1>r, <2>2, <2>3
  <2> QED BY <1>0, <2>1, <2>4
<1>5. excused' \in BOOLEAN /\ cut' \in BOOLEAN /\ rx_pc' \in {"init", "wait", "claim", "parse"}
  BY <1>0, <1>1
<1>6. RxTypes'
  BY <1>1, <1>4, <1>5 DEF RxInv, RxTypes
<1>7. ASSUME ~ excused'
      PROVE  Clear(rx.bytes, n)
  <2>1. ~ Confusing(taken)
    BY <1>1, <1>7, Zenon
  <2>2. Clear(taken, n)
    BY <1>4, <2>1, NotConfusing
  <2> QED BY <1>4, <2>2 DEF Clear
<1>8. WakeInv'
  <2>1. CASE n = 0
    BY <1>1, <1>4, <2>1 DEF WakeInv
  <2>2. CASE n # 0
    <3>1. rx_pc' = "parse" /\ n > 0
      BY <1>1, <1>4, <2>2
    <3>2. ~ cut' => n = Len(rx.bytes)
      <4>1. ~ cut' => ~ (n < Len(rx.bytes)) \/ ~ (n = ClaimSize \/ rx.at + n = RxSize)
        BY <1>1, Zenon
      <4>2. ~ (n < Len(rx.bytes)) => n = Len(rx.bytes)
        BY <1>0, <1>4
      <4> QED BY <1>4, <4>1, <4>2, Zenon
    <3> QED BY <1>4, <1>7, <3>1, <3>2 DEF WakeInv
  <2> QED BY <2>1, <2>2
<1>9. OrderInv'
  <2>1. ~ excused' => ~ excused
    BY <1>1, Zenon
  <2> QED BY <1>1, <1>4, <2>1 DEF RxInv, OrderInv
<1> QED BY <1>6, <1>8, <1>9 DEF RxInv

(* A claim that is cut into messages: each is the next one that was sent.  *)
LEMMA ParsesStep ==
  ASSUME RxInv, RxParses
  PROVE  RxInv'
<1>0. /\ rx.bytes \in Seq(Byte) /\ Len(rx.bytes) \in Nat
      /\ rx.claimed \in Nat /\ rx.claimed <= Len(rx.bytes)
      /\ (rx.bytes = <<>> <=> Len(rx.bytes) = 0)
      /\ line \in Seq(Byte) /\ Len(line) \in Nat /\ Messages(sent) /\ Len(sent) \in Nat
  BY RxFacts
<1>r. RxSize \in Nat \ {0} /\ RingOk(rx, RxSize, Byte)
  BY RxFacts
<1> DEFINE n == rx.claimed
           values == [k \in 1 .. n |-> rx.bytes[k].value]
           parsed == Parse(values)
<1>1. /\ rx_pc = "parse" /\ rx_pc' = "wait" /\ rx' = Finish(rx, RxSize, n)
      /\ delivered' = delivered \o parsed.out
      /\ message' = parsed.next.message /\ message_size' = parsed.next.size
      /\ UNCHANGED <<comms_sem, line, sent, excused, cut>>
  BY DEF RxParses
<1>2. /\ n > 0 /\ (~ comms_sem /\ ~ cut => n = Len(rx.bytes))
      /\ ~ excused => Clear(rx.bytes, n)
  BY <1>1 DEF RxInv, WakeInv
<1>3. n \in 0 .. Len(rx.bytes) /\ n \in Nat
  BY <1>0
<1>4. Finishes(rx, RxSize, Byte, n, rx')
  BY <1>r, <1>1, <1>3, FinishFacts
<1>5. /\ RingOk(rx', RxSize, Byte)
      /\ rx'.bytes = SubSeq(rx.bytes, n + 1, Len(rx.bytes))
      /\ Len(rx'.bytes) = Len(rx.bytes) - n /\ rx'.claimed = 0
  BY <1>3, <1>4 DEF Finishes
<1>6. RxTypes'
  BY <1>1, <1>5 DEF RxInv, RxTypes
<1>7. WakeInv'
  <2>1. n = Len(rx.bytes) => rx'.bytes = <<>>
    <3>1. rx'.bytes \in Seq(Byte)
      BY <1>5 DEF RingOk
    <3> QED BY <1>0, <1>5, <3>1
  <2> QED BY <1>1, <1>2, <1>5, <2>1 DEF WakeInv
<1>8. OrderInv'
  <2> SUFFICES ASSUME ~ excused
               PROVE  /\ delivered' \in Seq(Seq(Nat)) /\ Len(delivered') <= Len(sent)
                      /\ \A m \in 1 .. Len(delivered') : delivered'[m] = sent[m]
                      /\ Progress(rx'.bytes \o line, sent, Len(delivered'), message', message_size')
    BY <1>1 DEF OrderInv
  <2> DEFINE s == rx.bytes \o line
             d == Len(delivered)
  <2>1. /\ delivered \in Seq(Seq(Nat)) /\ d <= Len(sent)
        /\ \A m \in 1 .. d : delivered[m] = sent[m]
        /\ Progress(s, sent, d, message, message_size)
    BY DEF RxInv, OrderInv
  <2>2. d \in Nat
    BY <2>1
  <2>3. rx'.bytes \o line = SubSeq(s, n + 1, Len(s))
    <3> DEFINE b == rx.bytes
    <3>1. b \in Seq(Byte) /\ line \in Seq(Byte) /\ n \in 0 .. Len(b)
      BY <1>0, <1>3
    <3>2. rx'.bytes = SubSeq(b, n + 1, Len(b)) /\ s = b \o line
      BY <1>5
    <3> HIDE DEF b, s, n
    <3>3. SubSeq(b, n + 1, Len(b)) \o line = SubSeq(b \o line, n + 1, Len(b \o line))
      BY <3>1, DropConcat
    <3> QED BY <3>2, <3>3
  <2>4. /\ s \in Seq(Byte) /\ n \in 1 .. Len(s)
        /\ \A k \in 1 .. n : s[k] = rx.bytes[k]
    <3> DEFINE b == rx.bytes
    <3>1. b \in Seq(Byte) /\ line \in Seq(Byte)
      BY <1>0
    <3> HIDE DEF b
    <3>2. /\ b \o line \in Seq(Byte) /\ Len(b \o line) = Len(b) + Len(line)
          /\ \A k \in 1 .. Len(b) : (b \o line)[k] = b[k]
      BY <3>1, ConcatFacts
    <3>3. /\ s \in Seq(Byte) /\ Len(s) = Len(rx.bytes) + Len(line)
          /\ \A k \in 1 .. Len(rx.bytes) : s[k] = rx.bytes[k]
      BY <3>2 DEF b
    <3>4. \A k \in 1 .. n : k \in 1 .. Len(rx.bytes)
      BY <1>0, <1>3
    <3> QED BY <1>0, <1>2, <1>3, <3>3, <3>4
  <2>5. Clear(s, n)
    BY <1>2, <2>4 DEF Clear
  <2>6. values \in Seq(Nat) /\ Len(values) = n /\ \A k \in 1 .. n : values[k] = s[k].value
    <3>1. \A k \in 1 .. n : rx.bytes[k] \in Byte
      BY <1>0, <1>3
    <3>2. \A k \in 1 .. n : rx.bytes[k].value \in Nat
      BY <3>1 DEF Byte
    <3>3. values \in Seq(Nat) /\ Len(values) = n
      BY <1>3, <3>2
    <3>4. \A k \in 1 .. n : values[k] = s[k].value
      BY <2>4
    <3> QED BY <3>3, <3>4
  <2> HIDE DEF s, d, values, parsed, n
  <2>7. Parsed(s, sent, d, n, parsed)
    <3>1. Parsed(s, sent, d, n, Parse(values))
      BY <1>0, <2>1, <2>2, <2>4, <2>5, <2>6, ParseFacts
    <3> QED BY <3>1 DEF parsed
  <2>8. CASE /\ parsed.out = <<>>
             /\ Progress(SubSeq(s, n + 1, Len(s)), sent, d, parsed.next.message, parsed.next.size)
    <3>1. delivered' = delivered
      BY <1>1, <2>1, <2>8
    <3> QED BY <1>1, <2>1, <2>3, <2>8, <3>1 DEF d
  <2>9. CASE /\ d < Len(sent) /\ parsed.out = <<sent[d + 1]>>
             /\ Progress(SubSeq(s, n + 1, Len(s)), sent, d + 1,
                         parsed.next.message, parsed.next.size)
    <3>1. sent[d + 1] \in Seq(Nat)
      <4>1. d + 1 \in 1 .. Len(sent)
        BY <1>0, <2>2, <2>9
      <4> QED BY <1>0, <4>1 DEF Messages
    <3>2. delivered' = Append(delivered, sent[d + 1])
      BY <1>1, <2>1, <2>9
    <3>3. /\ delivered' \in Seq(Seq(Nat)) /\ Len(delivered') = d + 1
          /\ delivered'[d + 1] = sent[d + 1]
          /\ \A m \in 1 .. d : delivered'[m] = delivered[m]
      BY <2>1, <3>1, <3>2 DEF d
    <3>4. \A m \in 1 .. d + 1 : m = d + 1 \/ m \in 1 .. d
      BY <2>2
    <3>5. \A m \in 1 .. d + 1 : delivered'[m] = sent[m]
      BY <2>1, <3>3, <3>4
    <3>6. d + 1 <= Len(sent)
      BY <1>0, <2>2, <2>9
    <3> QED BY <1>1, <2>3, <2>9, <3>3, <3>5, <3>6
  <2> QED BY <2>7, <2>8, <2>9 DEF Parsed
<1> QED BY <1>6, <1>7, <1>8 DEF RxInv

LEMMA RxStarts == Init => RxInv
<1> SUFFICES ASSUME Init PROVE RxInv
  OBVIOUS
<1>1. /\ RxSize \in Nat \ {0} /\ <<>> \in Seq(Byte) /\ <<>> \in Seq(Seq(Nat))
      /\ Len(<<>>) = 0
  BY CommsAssumption
<1>2. RingOk(rx, RxSize, Byte) /\ rx.bytes = <<>> /\ rx.claimed = 0
  BY <1>1 DEF Init, RingOk
<1>3. Messages(sent) /\ sent = <<>> /\ line = <<>> /\ delivered = <<>>
  BY <1>1 DEF Init, Messages
<1>4. RxTypes
  BY <1>1, <1>2, <1>3 DEF Init, RxTypes
<1>5. WakeInv
  BY <1>2 DEF Init, WakeInv
<1>6. Framed(<<>>, <<>>, 0, 1)
  <2> DEFINE at == [m \in Nat |-> 1]
  <2>1. at \in [Nat -> Int] /\ at[0 + 1] = 1
    OBVIOUS
  <2>2. Lie(<<>>, <<>>, 0, 1, at)
    BY <1>1, <2>1 DEF Lie
  <2> QED BY <2>2 DEF Framed
<1>7. Progress(<<>>, <<>>, 0, <<>>, 0)
  BY <1>1, <1>6 DEF Progress
<1>8. OrderInv
  <2>1. rx.bytes \o line = <<>>
    BY <1>2, <1>3
  <2>2. message = <<>> /\ message_size = 0
    BY DEF Init
  <2> QED BY <1>1, <1>3, <1>7, <2>1, <2>2 DEF OrderInv
<1> QED BY <1>4, <1>5, <1>8 DEF RxInv

LEMMA RxStep == RxInv /\ [Next]_vars => RxInv'
<1> SUFFICES ASSUME RxInv, [Next]_vars PROVE RxInv'
  OBVIOUS
<1>1. ASSUME UNCHANGED rxVars PROVE RxInv'
  BY <1>1 DEF rxVars, RxInv, RxTypes, WakeInv, OrderInv
<1>2. WritePuts \/ WriteClaims \/ WriteStarts \/ TxDone \/ TxAborted \/ UNCHANGED vars
        => UNCHANGED rxVars
  BY DEF WritePuts, WriteClaims, WriteStarts, TxDone, TxAborted, vars
<1> QED BY <1>1, <1>2, PeerStep, ReadyStep, EarlyStep, InitsStep, TakesStep, RxClaimsStep,
            ParsesStep DEF Next

(* The inductive invariant of receiving.                                   *)
LEMMA Receiving == Spec => []RxInv
BY RxStarts, RxStep, PTL DEF Spec

(* Messages are handed on whole, in order and none twice, wherever a claim *)
(* ends and whatever arrives between two of them.                          *)
THEOREM ReceivingInOrder == Spec => []DeliveredInOrder
<1>1. RxInv => DeliveredInOrder
  <2> SUFFICES ASSUME RxInv, ~ excused
               PROVE  IsPrefix(delivered, sent)
    BY DEF DeliveredInOrder
  <2>1. /\ delivered \in Seq(Seq(Nat)) /\ Len(delivered) <= Len(sent)
        /\ \A m \in 1 .. Len(delivered) : delivered[m] = sent[m]
    BY DEF RxInv, OrderInv
  <2>2. sent \in Seq(Seq(Nat))
    BY RxFacts DEF Messages
  <2>3. \A m \in 1 .. Len(delivered) : sent[m] = delivered[m]
    BY <2>1
  <2> QED BY <2>1, <2>2, <2>3, PrefixIs
<1> QED BY <1>1, Receiving, PTL

(* No signal is lost: the thread waits only when it has nothing left to    *)
(* do, or its last claim took the most a claim asks for or ended where the *)
(* memory of the ring does; and with nothing on the way, all that was sent *)
(* is delivered.                                                           *)
THEOREM ReceivingForgetsNothing == Spec => []NothingForgotten
<1>1. RxInv => NothingForgotten
  <2> SUFFICES ASSUME RxInv, rx_pc = "wait", ~ comms_sem
               PROVE  /\ rx.bytes = <<>> \/ cut
                      /\ rx.bytes = <<>> /\ line = <<>> /\ ~ excused => delivered = sent
    BY DEF NothingForgotten
  <2>1. rx.bytes = <<>> \/ cut
    BY DEF RxInv, WakeInv
  <2>2. ASSUME rx.bytes = <<>>, line = <<>>, ~ excused
        PROVE  delivered = sent
    <3> DEFINE d == Len(delivered)
    <3>1. /\ delivered \in Seq(Seq(Nat)) /\ d <= Len(sent)
          /\ \A m \in 1 .. d : delivered[m] = sent[m]
          /\ Progress(rx.bytes \o line, sent, d, message, message_size)
      BY <2>2 DEF RxInv, OrderInv
    <3>2. /\ Messages(sent) /\ sent \in Seq(Seq(Nat)) /\ Len(sent) \in Nat /\ d \in Nat
      BY <3>1, RxFacts DEF Messages
    <3> DEFINE s == rx.bytes \o line
    <3>3. s \in Seq(Byte) /\ Len(s) = 0
      BY <2>2
    <3>4. Progress(s, sent, d, message, message_size)
      BY <3>1
    <3> HIDE DEF d, s
    <3>5. d = Len(sent)
      <4> SUFFICES ASSUME d < Len(sent)
                   PROVE  FALSE
        BY <3>1, <3>2
      <4>1. CASE message_size = 0
        <5>1. Framed(s, sent, d, 1)
          BY <3>4, <4>1 DEF Progress
        <5>2. Begins(s, sent, d, 1)
          <6>1. s \in Seq(Byte) /\ Messages(sent) /\ d \in Nat /\ d <= Len(sent) /\ 1 \in Int
            BY <3>1, <3>2, <3>3
          <6> QED BY <5>1, <6>1, FramedFirst
        <5> QED BY <3>3, <5>2 DEF Begins
      <4>2. CASE message_size # 0
        <5>1. /\ Framed(s, sent, d, 0 - Len(message)) /\ message \in Seq(Nat)
              /\ message_size = Len(sent[d + 1]) /\ Len(message) < message_size
          BY <3>4, <4>2 DEF Progress
        <5>2. Len(message) \in Nat /\ 0 - Len(message) \in Int
          BY <5>1
        <5>3. Begins(s, sent, d, 0 - Len(message))
          BY <3>1, <3>2, <3>3, <5>1, <5>2, FramedFirst
        <5>4. message_size \in Nat /\ (0 - Len(message)) + message_size <= Len(s)
          BY <5>1, <5>3 DEF Begins
        <5>5. \A a, b \in Nat : (0 - a) + b <= 0 => ~ (a < b)
          OBVIOUS
        <5>6. (0 - Len(message)) + message_size <= 0
          BY <3>3, <5>4
        <5> QED BY <5>1, <5>2, <5>4, <5>5, <5>6, Zenon
      <4> QED BY <4>1, <4>2
    <3> QED BY <3>1, <3>2, <3>5, SeqEqual DEF d
  <2> QED BY <2>1, <2>2
<1> QED BY <1>1, Receiving, PTL
=============================================================================
