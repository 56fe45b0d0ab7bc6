---------------------------- MODULE HciUartProofs ----------------------------
(***************************************************************************)
(* The firmware of the controller, for every size of its pools, every      *)
(* length of a packet and every interleaving of bytes, interrupt, threads  *)
(* and faults.                                                             *)
(***************************************************************************)
EXTENDS HciUart, SequenceTheorems, FiniteSetTheorems, FunctionTheorems, TLAPS

Size(p) == 2 + p.len

LEMMA BytesFacts ==
  ASSUME NEW p \in Packet
  PROVE  /\ Size(p) \in Nat /\ Size(p) >= 2
         /\ Bytes(p) \in Seq(Byte) /\ Len(Bytes(p)) = Size(p)
         /\ Bytes(p)[1] = [part |-> "type", packet |-> p]
         /\ Bytes(p)[2] = [part |-> "header", packet |-> p]
         /\ \A k \in 3 .. Size(p) : Bytes(p)[k] = [part |-> "data", packet |-> p]
<1> DEFINE a == [part |-> "type", packet |-> p]
           b == [part |-> "header", packet |-> p]
           c == [part |-> "data", packet |-> p]
           n == p.len
           data == [i \in 1 .. n |-> c]
<1>1. a \in Byte /\ b \in Byte /\ c \in Byte
  BY DEF Byte
<1>2. n \in Nat
  BY HciAssumption DEF Packet
<1>3. Bytes(p) = <<a, b>> \o data /\ Size(p) = 2 + n
  BY DEF Bytes, Size
<1> HIDE DEF a, b, c, n
<1>4. data \in Seq(Byte) /\ Len(data) = n /\ \A i \in 1 .. n : data[i] = c
  BY <1>1, <1>2
<1> HIDE DEF data
<1>5. <<a, b>> \in Seq(Byte) /\ Len(<<a, b>>) = 2 /\ <<a, b>>[1] = a /\ <<a, b>>[2] = b
  BY <1>1
<1>6. /\ Bytes(p) \in Seq(Byte) /\ Len(Bytes(p)) = 2 + n
      /\ Bytes(p)[1] = a /\ Bytes(p)[2] = b
      /\ \A k \in 3 .. 2 + n : Bytes(p)[k] = data[k - 2]
  BY <1>2, <1>3, <1>4, <1>5, ConcatProperties
<1>7. \A k \in 3 .. 2 + n : Bytes(p)[k] = c
  BY <1>2, <1>4, <1>6
<1> QED BY <1>2, <1>3, <1>6, <1>7 DEF a, b, c

LEMMA DropFacts ==
  ASSUME NEW S, NEW s \in Seq(S), NEW n \in 0 .. Len(s)
  PROVE  /\ SubSeq(s, n + 1, Len(s)) \in Seq(S)
         /\ Len(SubSeq(s, n + 1, Len(s))) = Len(s) - n
         /\ \A k \in 1 .. Len(s) - n : SubSeq(s, n + 1, Len(s))[k] = s[n + k]
<1>1. n + 1 \in Int /\ Len(s) \in Int /\ \A i \in n + 1 .. Len(s) : s[i] \in S
  OBVIOUS
<1> QED BY <1>1, SubSeqProperties

LEMMA TakeFacts ==
  ASSUME NEW S, NEW s \in Seq(S), NEW n \in 0 .. Len(s)
  PROVE  /\ SubSeq(s, 1, n) \in Seq(S)
         /\ Len(SubSeq(s, 1, n)) = n
         /\ \A k \in 1 .. n : SubSeq(s, 1, n)[k] = s[k]
<1>1. 1 \in Int /\ n \in Int /\ \A i \in 1 .. n : s[i] \in S
  OBVIOUS
<1> QED BY <1>1, SubSeqProperties

LEMMA ConcatFacts ==
  ASSUME NEW S, NEW s \in Seq(S), NEW t \in Seq(S)
  PROVE  /\ s \o t \in Seq(S) /\ Len(s \o t) = Len(s) + Len(t)
         /\ \A k \in 1 .. Len(s) : (s \o t)[k] = s[k]
         /\ \A k \in 1 .. Len(t) : (s \o t)[Len(s) + k] = t[k]
<1>1. /\ s \o t \in Seq(S) /\ Len(s \o t) = Len(s) + Len(t)
      /\ \A i \in 1 .. Len(s) + Len(t) :
           (s \o t)[i] = IF i <= Len(s) THEN s[i] ELSE t[i - Len(s)]
  BY ConcatProperties
<1>2. ASSUME NEW k \in 1 .. Len(s) PROVE (s \o t)[k] = s[k]
  <2>1. k \in 1 .. Len(s) + Len(t) /\ k <= Len(s)
    OBVIOUS
  <2> QED BY <1>1, <2>1
<1>3. ASSUME NEW k \in 1 .. Len(t) PROVE (s \o t)[Len(s) + k] = t[k]
  <2>1. Len(s) + k \in 1 .. Len(s) + Len(t) /\ ~ (Len(s) + k <= Len(s)) /\ (Len(s) + k) - Len(s) = k
    OBVIOUS
  <2> QED BY <1>1, <2>1
<1> QED BY <1>1, <1>2, <1>3

(* Dropping from a sequence that another one follows.                      *)
LEMMA DropConcat ==
  ASSUME NEW S, NEW s \in Seq(S), NEW t \in Seq(S), NEW n \in 0 .. Len(s)
  PROVE  SubSeq(s, n + 1, Len(s)) \o t = SubSeq(s \o t, n + 1, Len(s \o t))
<1> DEFINE a == SubSeq(s, n + 1, Len(s))
           st == s \o t
           b == SubSeq(st, n + 1, Len(st))
<1>1. a \in Seq(S) /\ Len(a) = Len(s) - n /\ \A k \in 1 .. Len(s) - n : a[k] = s[n + k]
  BY DropFacts
<1>2. /\ st \in Seq(S) /\ Len(st) = Len(s) + Len(t)
      /\ \A k \in 1 .. Len(s) : st[k] = s[k]
      /\ \A k \in 1 .. Len(t) : st[Len(s) + k] = t[k]
  BY ConcatFacts
<1>3. n \in 0 .. Len(st)
  BY <1>2
<1> HIDE DEF a, st
<1>4. b \in Seq(S) /\ Len(b) = Len(st) - n /\ \A k \in 1 .. Len(st) - n : b[k] = st[n + k]
  BY <1>2, <1>3, DropFacts
<1> HIDE DEF b
<1>5. /\ a \o t \in Seq(S) /\ Len(a \o t) = Len(a) + Len(t)
      /\ \A k \in 1 .. Len(a) : (a \o t)[k] = a[k]
      /\ \A k \in 1 .. Len(t) : (a \o t)[Len(a) + k] = t[k]
  <2>1. a \in Seq(S) /\ t \in Seq(S)
    BY <1>1
  <2> QED BY ONLY <2>1, ConcatFacts
<1>6. Len(a \o t) = Len(b)
  BY <1>1, <1>2, <1>4, <1>5
<1>7. ASSUME NEW k \in 1 .. Len(b) PROVE (a \o t)[k] = b[k]
  <2>1. CASE k <= Len(a)
    BY <1>1, <1>2, <1>4, <1>5, <2>1
  <2>2. CASE k > Len(a)
    <3>1. k - Len(a) \in 1 .. Len(t) /\ Len(a) + (k - Len(a)) = k
          /\ n + k = Len(s) + (k - Len(a)) /\ k \in 1 .. Len(st) - n
      <4>1. /\ Len(s) \in Int /\ Len(t) \in Int /\ n \in Int /\ k \in Int /\ Len(a) \in Int
            /\ Len(a) = Len(s) - n /\ Len(st) = Len(s) + Len(t) /\ Len(b) = Len(st) - n
            /\ k <= Len(b) /\ 1 <= k /\ Len(a) < k /\ 0 <= n
        BY <1>1, <1>2, <1>4, <2>2
      <4> QED BY ONLY <4>1
    <3>2. (a \o t)[Len(a) + (k - Len(a))] = t[k - Len(a)] /\ b[k] = st[n + k]
          /\ st[Len(s) + (k - Len(a))] = t[k - Len(a)]
      BY <1>2, <1>4, <1>5, <3>1, Zenon
    <3> QED BY ONLY <3>1, <3>2
  <2>3. k <= Len(a) \/ k > Len(a)
    BY <1>1, <1>4
  <2> QED BY ONLY <2>1, <2>2, <2>3
<1>8. a \o t = b
  <2>1. /\ a \o t \in Seq(S) /\ b \in Seq(S) /\ Len(a \o t) = Len(b)
        /\ \A k \in 1 .. Len(a \o t) : (a \o t)[k] = b[k]
    BY <1>4, <1>5, <1>6, <1>7
  <2> QED BY ONLY <2>1, SeqEqual
<1> QED BY <1>8 DEF a, b, st
-----------------------------------------------------------------------------
(* The bytes s that were not read are the last r of the d-th packet and    *)
(* then the packets after it; at[m] is where the m-th begins.              *)
Lie(s, q, d, r, at) ==
  /\ at \in [Nat -> Int] /\ at[d + 1] = r + 1 /\ at[Len(q) + 1] = Len(s) + 1
  /\ \A m, l \in d + 1 .. Len(q) + 1 : m < l => at[m] < at[l]
  /\ \A m \in d + 1 .. Len(q) :
       /\ at[m + 1] = at[m] + Size(q[m])
       /\ \A k \in 1 .. Size(q[m]) : s[at[m] + k - 1] = Bytes(q[m])[k]
  /\ r > 0 =>
       /\ d >= 1 /\ r < Size(q[d])
       /\ \A k \in 1 .. r : s[k] = Bytes(q[d])[Size(q[d]) - r + k]

Framed(s, q, d, r) == \E at : Lie(s, q, d, r, at)

LEMMA SizesOf ==
  ASSUME NEW q \in Seq(Packet)
  PROVE  /\ Len(q) \in Nat
         /\ \A m \in 1 .. Len(q) :
              /\ q[m] \in Packet /\ Size(q[m]) \in Nat /\ Size(q[m]) >= 2
              /\ Bytes(q[m]) \in Seq(Byte) /\ Len(Bytes(q[m])) = Size(q[m])
<1>1. Len(q) \in Nat /\ \A m \in 1 .. Len(q) : q[m] \in Packet
  OBVIOUS
<1> QED BY <1>1, BytesFacts

(* Where packets begin that are not read yet.                              *)
LEMMA Begins ==
  ASSUME NEW s \in Seq(Byte), NEW q \in Seq(Packet), NEW d \in 0 .. Len(q), NEW r \in Nat,
         NEW at, Lie(s, q, d, r, at)
  PROVE  /\ r <= Len(s)
         /\ \A m \in d + 1 .. Len(q) + 1 :
              m \in Nat /\ at[m] \in Int /\ at[m] >= r + 1 /\ at[m] <= Len(s) + 1
<1>1. Len(q) \in Nat /\ Len(s) \in Nat /\ d \in Nat
  OBVIOUS
<1>2. \A m \in d + 1 .. Len(q) + 1 :
        m \in Nat /\ at[m] \in Int /\ at[m] >= r + 1 /\ at[m] <= Len(s) + 1
  <2> SUFFICES ASSUME NEW m \in d + 1 .. Len(q) + 1
               PROVE  m \in Nat /\ at[m] \in Int /\ at[m] >= r + 1 /\ at[m] <= Len(s) + 1
    OBVIOUS
  <2>1. /\ m \in Nat /\ d + 1 \in d + 1 .. Len(q) + 1
        /\ Len(q) + 1 \in d + 1 .. Len(q) + 1
    BY <1>1
  <2>2. at[m] \in Int /\ at[d + 1] = r + 1 /\ at[Len(q) + 1] = Len(s) + 1
    BY <2>1 DEF Lie
  <2>3. m = d + 1 \/ at[d + 1] < at[m]
    <3>1. m = d + 1 \/ d + 1 < m
      BY <1>1
    <3> QED BY <2>1, <3>1 DEF Lie
  <2>4. m = Len(q) + 1 \/ at[m] < at[Len(q) + 1]
    <3>1. m = Len(q) + 1 \/ m < Len(q) + 1
      BY <1>1
    <3> QED BY <2>1, <3>1 DEF Lie
  <2> QED BY <1>1, <2>1, <2>2, <2>3, <2>4
<1>3. r <= Len(s)
  BY <1>1, <1>2
<1> QED BY <1>2, <1>3

(* n bytes of the packet being read are read.                              *)
LEMMA FramedDrop ==
  ASSUME NEW s \in Seq(Byte), NEW q \in Seq(Packet), NEW d \in 0 .. Len(q), NEW r \in Nat,
         Framed(s, q, d, r), NEW n \in 0 .. r
  PROVE  Framed(SubSeq(s, n + 1, Len(s)), q, d, r - n)
<1> DEFINE t == SubSeq(s, n + 1, Len(s))
<1>1. PICK at : Lie(s, q, d, r, at)
  BY DEF Framed
<1> DEFINE new == [m \in Nat |-> at[m] - n]
<1>2. /\ Len(q) \in Nat /\ Len(s) \in Nat /\ d \in Nat /\ n \in Nat /\ n <= r
      /\ r - n \in Nat
      /\ \A m \in 1 .. Len(q) : Size(q[m]) \in Nat /\ Size(q[m]) >= 2
  BY SizesOf
<1>3. /\ r <= Len(s)
      /\ \A m \in d + 1 .. Len(q) + 1 :
           m \in Nat /\ at[m] \in Int /\ at[m] >= r + 1 /\ at[m] <= Len(s) + 1
  BY <1>1, Begins
<1>4. /\ t \in Seq(Byte) /\ Len(t) = Len(s) - n
      /\ \A k \in 1 .. Len(s) - n : t[k] = s[n + k]
  <2>1. n \in 0 .. Len(s)
    BY <1>2, <1>3
  <2> QED BY <2>1, DropFacts
<1> HIDE DEF t
<1>5. /\ new \in [Nat -> Int]
      /\ \A m \in Nat : new[m] = at[m] - n
  <2>1. at \in [Nat -> Int]
    BY <1>1 DEF Lie
  <2> QED BY <1>2, <2>1
<1> HIDE DEF new
<1>6. new[d + 1] = (r - n) + 1 /\ new[Len(q) + 1] = Len(t) + 1
  <2>1. at[d + 1] = r + 1 /\ at[Len(q) + 1] = Len(s) + 1 /\ d + 1 \in Nat /\ Len(q) + 1 \in Nat
    BY <1>1, <1>2 DEF Lie
  <2>2. new[d + 1] = at[d + 1] - n /\ new[Len(q) + 1] = at[Len(q) + 1] - n
    BY <1>5, <2>1
  <2>3. Len(t) = Len(s) - n /\ Len(s) \in Nat /\ n \in Nat /\ r \in Nat
    BY <1>2, <1>4
  <2> QED BY <2>1, <2>2, <2>3
<1>7. ASSUME NEW m \in d + 1 .. Len(q) + 1, NEW l \in d + 1 .. Len(q) + 1, m < l
      PROVE  new[m] < new[l]
  <2>1. at[m] < at[l] /\ m \in Nat /\ l \in Nat /\ at[m] \in Int /\ at[l] \in Int
    BY <1>1, <1>3, <1>7 DEF Lie
  <2>2. new[m] = at[m] - n /\ new[l] = at[l] - n /\ n \in Nat
    BY <1>2, <1>5, <2>1
  <2> QED BY <2>1, <2>2
<1>8. ASSUME NEW m \in d + 1 .. Len(q)
      PROVE  /\ new[m + 1] = new[m] + Size(q[m])
             /\ \A k \in 1 .. Size(q[m]) : t[new[m] + k - 1] = Bytes(q[m])[k]
  <2>1. /\ m \in 1 .. Len(q) /\ m \in d + 1 .. Len(q) + 1 /\ m + 1 \in d + 1 .. Len(q) + 1
        /\ m \in Nat /\ m + 1 \in Nat
    BY <1>2
  <2>2. /\ at[m] \in Int /\ at[m] >= r + 1 /\ at[m + 1] <= Len(s) + 1 /\ Size(q[m]) \in Nat
        /\ new[m] = at[m] - n /\ new[m + 1] = at[m + 1] - n
    BY <1>2, <1>3, <1>5, <2>1
  <2>3. at[m + 1] = at[m] + Size(q[m])
    BY <1>1 DEF Lie
  <2>4. ASSUME NEW k \in 1 .. Size(q[m])
        PROVE  t[new[m] + k - 1] = Bytes(q[m])[k]
    <3>1. s[at[m] + k - 1] = Bytes(q[m])[k]
      BY <1>1 DEF Lie
    <3>2. new[m] + k - 1 \in 1 .. Len(s) - n /\ n + (new[m] + k - 1) = at[m] + k - 1
      <4>1. n \in Nat /\ n <= r /\ r \in Nat /\ Len(s) \in Nat
        BY <1>2
      <4>2. k \in Int /\ 1 <= k /\ k <= Size(q[m])
        BY <2>2
      <4>3. new[m] \in Int
        BY <2>2, <4>1
      <4>4. n \in Int /\ r \in Int /\ Len(s) \in Int /\ Size(q[m]) \in Int
            /\ at[m] + Size(q[m]) <= Len(s) + 1
        BY <2>2, <2>3, <4>1
      <4>5. new[m] = at[m] - n /\ at[m] \in Int /\ at[m] >= r + 1
        BY <2>2
      <4>6. new[m] + k - 1 \in Int
        BY <4>2, <4>3
      <4>7. 1 <= new[m] + k - 1
        BY ONLY <4>1, <4>2, <4>4, <4>5
      <4>8. new[m] + k - 1 <= Len(s) - n
        BY ONLY <4>1, <4>2, <4>4, <4>5
      <4>9. n + (new[m] + k - 1) = at[m] + k - 1
        BY ONLY <4>2, <4>4, <4>5
      <4>10. Len(s) - n \in Int
        BY <4>1
      <4> QED BY ONLY <4>6, <4>7, <4>8, <4>9, <4>10
    <3>3. t[new[m] + k - 1] = s[n + (new[m] + k - 1)]
      BY <1>4, <3>2
    <3> QED BY <3>1, <3>2, <3>3
  <2> QED BY <1>2, <2>2, <2>3, <2>4
<1>9. r - n > 0 =>
        /\ d >= 1 /\ r - n < Size(q[d])
        /\ \A k \in 1 .. r - n : t[k] = Bytes(q[d])[Size(q[d]) - (r - n) + k]
  <2> SUFFICES ASSUME r - n > 0
               PROVE  /\ d >= 1 /\ r - n < Size(q[d])
                      /\ \A k \in 1 .. r - n : t[k] = Bytes(q[d])[Size(q[d]) - (r - n) + k]
    OBVIOUS
  <2>1. /\ d >= 1 /\ r < Size(q[d])
        /\ \A k \in 1 .. r : s[k] = Bytes(q[d])[Size(q[d]) - r + k]
    BY <1>1, <1>2 DEF Lie
  <2>2. Size(q[d]) \in Nat
    BY <1>2, <2>1
  <2>3. ASSUME NEW k \in 1 .. r - n
        PROVE  t[k] = Bytes(q[d])[Size(q[d]) - (r - n) + k]
    <3>1. n + k \in 1 .. r /\ k \in 1 .. Len(s) - n
          /\ Size(q[d]) - r + (n + k) = Size(q[d]) - (r - n) + k
      BY <1>2, <1>3, <2>2
    <3>2. t[k] = s[n + k]
      BY <1>4, <3>1
    <3>3. s[n + k] = Bytes(q[d])[Size(q[d]) - r + (n + k)]
      BY <2>1, <3>1
    <3> QED BY <3>1, <3>2, <3>3
  <2> QED BY <1>2, <2>1, <2>2, <2>3
<1>10. Lie(t, q, d, r - n, new)
  BY <1>5, <1>6, <1>7, <1>8, <1>9 DEF Lie
<1> QED BY <1>10 DEF Framed, t

(* The type byte of the next packet is read.                               *)
LEMMA FramedStart ==
  ASSUME NEW s \in Seq(Byte), NEW q \in Seq(Packet), NEW d \in 0 .. Len(q),
         Framed(s, q, d, 0), s # <<>>
  PROVE  /\ d < Len(q) /\ s[1] = Bytes(q[d + 1])[1]
         /\ Framed(SubSeq(s, 2, Len(s)), q, d + 1, Size(q[d + 1]) - 1)
<1> DEFINE t == SubSeq(s, 2, Len(s))
           z == Size(q[d + 1])
<1>1. PICK at : Lie(s, q, d, 0, at)
  BY DEF Framed
<1> DEFINE new == [m \in Nat |-> at[m] - 1]
<1>2. /\ Len(q) \in Nat /\ Len(s) \in Nat /\ Len(s) > 0 /\ d \in Nat
      /\ \A m \in 1 .. Len(q) : Size(q[m]) \in Nat /\ Size(q[m]) >= 2
  BY SizesOf
<1>3. /\ at[d + 1] = 1 /\ at[Len(q) + 1] = Len(s) + 1
      /\ at \in [Nat -> Int]
      /\ \A m, l \in d + 1 .. Len(q) + 1 : m < l => at[m] < at[l]
      /\ \A m \in d + 1 .. Len(q) :
           /\ at[m + 1] = at[m] + Size(q[m])
           /\ \A k \in 1 .. Size(q[m]) : s[at[m] + k - 1] = Bytes(q[m])[k]
  BY <1>1 DEF Lie
<1>4. d < Len(q)
  BY <1>2, <1>3
<1>5. z \in Nat /\ z >= 2 /\ at[d + 2] = 1 + z
      /\ \A k \in 1 .. z : s[k] = Bytes(q[d + 1])[k]
  <2>1. d + 1 \in 1 .. Len(q) /\ d + 1 \in d + 1 .. Len(q) /\ (d + 1) + 1 = d + 2
    BY <1>2, <1>4
  <2>2. /\ at[d + 2] = 1 + z /\ z \in Nat /\ z >= 2
        /\ \A k \in 1 .. z : s[1 + k - 1] = Bytes(q[d + 1])[k]
    BY <1>2, <1>3, <2>1
  <2> QED BY <2>2
<1> HIDE DEF z
<1>6. s[1] = Bytes(q[d + 1])[1]
  BY <1>5
<1>7. /\ t \in Seq(Byte) /\ Len(t) = Len(s) - 1
      /\ \A k \in 1 .. Len(s) - 1 : t[k] = s[1 + k]
  <2>1. 1 \in 0 .. Len(s) /\ 1 + 1 = 2
    BY <1>2
  <2>2. /\ SubSeq(s, 1 + 1, Len(s)) \in Seq(Byte)
        /\ Len(SubSeq(s, 1 + 1, Len(s))) = Len(s) - 1
        /\ \A k \in 1 .. Len(s) - 1 : SubSeq(s, 1 + 1, Len(s))[k] = s[1 + k]
    BY <2>1, DropFacts
  <2> QED BY <2>1, <2>2
<1> HIDE DEF t
<1>8. \A m \in d + 2 .. Len(q) + 1 :
        /\ m \in d + 1 .. Len(q) + 1 /\ m \in Nat /\ at[m] \in Int /\ at[m] >= 1 + z
        /\ at[m] <= Len(s) + 1
  <2> SUFFICES ASSUME NEW m \in d + 2 .. Len(q) + 1
               PROVE  /\ m \in d + 1 .. Len(q) + 1 /\ m \in Nat /\ at[m] \in Int
                      /\ at[m] >= 1 + z /\ at[m] <= Len(s) + 1
    OBVIOUS
  <2>1. /\ m \in d + 1 .. Len(q) + 1 /\ m \in Nat /\ d + 2 \in d + 1 .. Len(q) + 1
        /\ (m = d + 2 \/ d + 2 < m)
        /\ 0 \in Nat
    BY <1>2, <1>4
  <2>2. at[m] \in Int /\ at[m] <= Len(s) + 1
    BY <1>1, <2>1, Begins
  <2>3. m = d + 2 \/ at[d + 2] < at[m]
    BY <1>3, <2>1
  <2> QED BY <1>2, <1>5, <2>1, <2>2, <2>3
<1>9. new \in [Nat -> Int] /\ \A m \in Nat : new[m] = at[m] - 1
  BY <1>3
<1> HIDE DEF new
<1>10. new[(d + 1) + 1] = (z - 1) + 1 /\ new[Len(q) + 1] = Len(t) + 1
  <2>1. (d + 1) + 1 = d + 2 /\ d + 2 \in Nat /\ Len(q) + 1 \in Nat
    BY <1>2
  <2>2. new[d + 2] = at[d + 2] - 1 /\ new[Len(q) + 1] = at[Len(q) + 1] - 1
    BY <1>9, <2>1
  <2> QED BY <1>2, <1>3, <1>5, <1>7, <2>1, <2>2
<1>11. ASSUME NEW m \in (d + 1) + 1 .. Len(q) + 1, NEW l \in (d + 1) + 1 .. Len(q) + 1, m < l
       PROVE  new[m] < new[l]
  <2>1. m \in d + 2 .. Len(q) + 1 /\ l \in d + 2 .. Len(q) + 1
    BY <1>2
  <2>2. at[m] < at[l] /\ m \in Nat /\ l \in Nat /\ at[m] \in Int /\ at[l] \in Int
    BY <1>3, <1>8, <1>11, <2>1
  <2>3. new[m] = at[m] - 1 /\ new[l] = at[l] - 1
    BY <1>9, <2>2
  <2> QED BY ONLY <2>2, <2>3
<1>12. ASSUME NEW m \in (d + 1) + 1 .. Len(q)
       PROVE  /\ new[m + 1] = new[m] + Size(q[m])
              /\ \A k \in 1 .. Size(q[m]) : t[new[m] + k - 1] = Bytes(q[m])[k]
  <2>1. /\ m \in 1 .. Len(q) /\ m \in d + 1 .. Len(q) /\ m \in d + 2 .. Len(q) + 1
        /\ m + 1 \in d + 2 .. Len(q) + 1 /\ m \in Nat /\ m + 1 \in Nat
    BY <1>2
  <2>2. /\ at[m] \in Int /\ at[m] >= 1 + z /\ at[m + 1] <= Len(s) + 1 /\ Size(q[m]) \in Nat
        /\ new[m] = at[m] - 1 /\ new[m + 1] = at[m + 1] - 1
    BY <1>2, <1>8, <1>9, <2>1
  <2>3. at[m + 1] = at[m] + Size(q[m])
    BY <1>3, <2>1
  <2>4. ASSUME NEW k \in 1 .. Size(q[m])
        PROVE  t[new[m] + k - 1] = Bytes(q[m])[k]
    <3>1. s[at[m] + k - 1] = Bytes(q[m])[k]
      BY <1>3, <2>1
    <3>2. new[m] + k - 1 \in 1 .. Len(s) - 1 /\ 1 + (new[m] + k - 1) = at[m] + k - 1
      <4>1. Len(s) \in Nat /\ z \in Nat /\ z >= 2
        BY <1>2, <1>5
      <4>2. k \in Int /\ 1 <= k /\ k <= Size(q[m])
        BY <2>2
      <4>3. new[m] \in Int
        BY <2>2
      <4>4. /\ 1 \in Int /\ 0 \in Int /\ Len(s) \in Int /\ Size(q[m]) \in Int
            /\ at[m] \in Int /\ 1 <= 1 /\ at[m] >= 1 + 1
            /\ at[m] + Size(q[m]) <= Len(s) + 1
        BY <2>2, <2>3, <4>1
      <4>5. new[m] = at[m] - 1
        BY <2>2
      <4>6. new[m] + k - 1 \in Int
        BY <4>2, <4>3
      <4>7. 1 <= new[m] + k - 1
        BY ONLY <4>2, <4>4, <4>5
      <4>8. new[m] + k - 1 <= Len(s) - 1
        BY ONLY <4>2, <4>4, <4>5
      <4>9. 1 + (new[m] + k - 1) = at[m] + k - 1
        BY ONLY <4>2, <4>4, <4>5
      <4>10. Len(s) - 1 \in Int
        BY <4>4
      <4> QED BY ONLY <4>6, <4>7, <4>8, <4>9, <4>10
    <3>3. t[new[m] + k - 1] = s[1 + (new[m] + k - 1)]
      BY <1>7, <3>2
    <3> QED BY <3>1, <3>2, <3>3
  <2> QED BY <2>2, <2>3, <2>4
<1>13. \A k \in 1 .. z - 1 : t[k] = Bytes(q[d + 1])[z - (z - 1) + k]
  <2> SUFFICES ASSUME NEW k \in 1 .. z - 1
               PROVE  t[k] = Bytes(q[d + 1])[z - (z - 1) + k]
    OBVIOUS
  <2>1. at[d + 2] <= Len(s) + 1
    <3>1. d + 2 \in d + 2 .. Len(q) + 1
      BY <1>2, <1>4
    <3> QED BY <1>8, <3>1
  <2>2. z <= Len(s)
    BY <1>2, <1>5, <2>1
  <2>3. k \in 1 .. Len(s) - 1 /\ 1 + k \in 1 .. z /\ z - (z - 1) + k = 1 + k
    BY <1>2, <1>5, <2>2
  <2> QED BY <1>5, <1>7, <2>3
<1>14. d + 1 >= 1 /\ z - 1 < z
  BY <1>2, <1>5
<1>15. Lie(t, q, d + 1, z - 1, new)
  BY <1>9, <1>10, <1>11, <1>12, <1>13, <1>14 DEF Lie, z
<1> QED BY <1>4, <1>6, <1>15 DEF Framed, t, z

(* The host begins another packet.                                         *)
LEMMA FramedMore ==
  ASSUME NEW s \in Seq(Byte), NEW q \in Seq(Packet), NEW d \in 0 .. Len(q), NEW r \in Nat,
         Framed(s, q, d, r), NEW p \in Packet
  PROVE  Framed(s \o Bytes(p), Append(q, p), d, r)
<1> DEFINE t == s \o Bytes(p)
           w == Append(q, p)
           z == Size(p)
           x == Bytes(p)
<1>1. PICK at : Lie(s, q, d, r, at)
  BY DEF Framed
<1> DEFINE new == [at EXCEPT ![Len(q) + 2] = Len(s) + 1 + z]
<1>1a. \A m \in 1 .. Len(q) : Size(q[m]) \in Nat /\ Size(q[m]) >= 2
  BY SizesOf
<1>1b. z \in Nat /\ z >= 2 /\ x \in Seq(Byte) /\ Len(x) = z
  BY BytesFacts
<1>2. /\ Len(q) \in Nat /\ Len(s) \in Nat /\ d \in Nat /\ d <= Len(q)
      /\ z \in Nat /\ z >= 2
  BY <1>1b
<1>3. /\ r <= Len(s)
      /\ \A m \in d + 1 .. Len(q) + 1 :
           m \in Nat /\ at[m] \in Int /\ at[m] >= r + 1 /\ at[m] <= Len(s) + 1
  BY <1>1, Begins
<1>4. /\ t \in Seq(Byte) /\ Len(t) = Len(s) + z
      /\ \A k \in 1 .. Len(s) : t[k] = s[k]
      /\ \A k \in 1 .. z : t[Len(s) + k] = x[k]
  <2>0. Len(x) = z
    BY <1>1b
  <2>1. s \in Seq(Byte) /\ x \in Seq(Byte)
    BY <1>1b
  <2> HIDE DEF x, z, t
  <2>2. /\ s \o x \in Seq(Byte) /\ Len(s \o x) = Len(s) + Len(x)
        /\ \A k \in 1 .. Len(s) : (s \o x)[k] = s[k]
        /\ \A k \in 1 .. Len(x) : (s \o x)[Len(s) + k] = x[k]
    BY ONLY <2>1, ConcatFacts
  <2>3. t = s \o x
    BY DEF t, x
  <2> QED BY <2>0, <2>2, <2>3
<1>5. Len(w) = Len(q) + 1 /\ w[Len(q) + 1] = p /\ \A m \in 1 .. Len(q) : w[m] = q[m]
  BY <1>2
<1> HIDE DEF t, w, x
<1>6. /\ at \in [Nat -> Int] /\ at[d + 1] = r + 1 /\ at[Len(q) + 1] = Len(s) + 1
      /\ \A m, l \in d + 1 .. Len(q) + 1 : m < l => at[m] < at[l]
      /\ \A m \in d + 1 .. Len(q) :
           /\ at[m + 1] = at[m] + Size(q[m])
           /\ \A k \in 1 .. Size(q[m]) : s[at[m] + k - 1] = Bytes(q[m])[k]
  BY <1>1 DEF Lie
<1>7. /\ new \in [Nat -> Int] /\ new[Len(q) + 2] = Len(s) + 1 + z
      /\ \A m \in d + 1 .. Len(q) + 1 : new[m] = at[m]
  <2>1. Len(q) + 2 \in Nat /\ Len(s) + 1 + z \in Int
    BY <1>2
  <2>2. \A m \in d + 1 .. Len(q) + 1 : m \in Nat /\ m # Len(q) + 2
    BY <1>2
  <2> QED BY <1>6, <2>1, <2>2
<1> HIDE DEF new, z
<1>8. new[d + 1] = r + 1 /\ new[Len(w) + 1] = Len(t) + 1
  <2>1. d + 1 \in d + 1 .. Len(q) + 1 /\ Len(w) + 1 = Len(q) + 2
    BY <1>2, <1>5
  <2>2. new[d + 1] = at[d + 1] /\ at[d + 1] = r + 1
    BY <1>6, <1>7, <2>1
  <2>3. new[Len(w) + 1] = Len(s) + 1 + z /\ Len(t) = Len(s) + z
    BY <1>4, <1>7, <2>1
  <2> QED BY <1>2, <2>2, <2>3
<1>9. ASSUME NEW m \in d + 1 .. Len(w) + 1, NEW l \in d + 1 .. Len(w) + 1, m < l
      PROVE  new[m] < new[l]
  <2>1. m \in d + 1 .. Len(q) + 1
    BY <1>2, <1>5, <1>9
  <2>2. CASE l \in d + 1 .. Len(q) + 1
    BY <1>6, <1>7, <1>9, <2>1, <2>2
  <2>3. CASE l = Len(q) + 2
    <3>1. new[m] = at[m] /\ at[m] \in Int /\ at[m] <= Len(s) + 1
      BY <1>3, <1>7, <2>1
    <3>2. new[l] = Len(s) + 1 + z
      BY <1>7, <2>3
    <3> QED BY <1>2, <3>1, <3>2
  <2> QED BY <1>2, <1>5, <2>2, <2>3
<1>10. ASSUME NEW m \in d + 1 .. Len(q)
       PROVE  /\ new[m + 1] = new[m] + Size(w[m])
              /\ \A k \in 1 .. Size(w[m]) : t[new[m] + k - 1] = Bytes(w[m])[k]
  <2>1. /\ m \in 1 .. Len(q) /\ m \in d + 1 .. Len(q) + 1 /\ m + 1 \in d + 1 .. Len(q) + 1
    BY <1>2
  <2>2. /\ at[m] \in Int /\ at[m] >= r + 1 /\ at[m + 1] <= Len(s) + 1 /\ Size(q[m]) \in Nat
        /\ new[m] = at[m] /\ new[m + 1] = at[m + 1] /\ w[m] = q[m]
    BY <1>1a, <1>3, <1>5, <1>7, <2>1
  <2>3. at[m + 1] = at[m] + Size(q[m])
    BY <1>6
  <2>4. ASSUME NEW k \in 1 .. Size(q[m])
        PROVE  t[at[m] + k - 1] = Bytes(q[m])[k]
    <3>1. s[at[m] + k - 1] = Bytes(q[m])[k]
      BY <1>6
    <3>2. at[m] + k - 1 \in 1 .. Len(s)
      <4>1. at[m] \in Int /\ at[m] >= r + 1 /\ Size(q[m]) \in Int /\ at[m] + Size(q[m]) <= Len(s) + 1
        BY <2>2, <2>3
      <4>2. k \in Int /\ 1 <= k /\ k <= Size(q[m]) /\ r \in Int /\ 0 <= r /\ Len(s) \in Int
        BY <1>2, <2>2
      <4> QED BY ONLY <4>1, <4>2
    <3> QED BY <1>4, <3>1, <3>2
  <2> QED BY <2>2, <2>3, <2>4
<1>11. /\ new[(Len(q) + 1) + 1] = new[Len(q) + 1] + Size(w[Len(q) + 1])
       /\ \A k \in 1 .. Size(w[Len(q) + 1]) :
            t[new[Len(q) + 1] + k - 1] = Bytes(w[Len(q) + 1])[k]
  <2>1. Len(q) + 1 \in d + 1 .. Len(q) + 1 /\ (Len(q) + 1) + 1 = Len(q) + 2
    BY <1>2
  <2>2. new[Len(q) + 1] = Len(s) + 1 /\ Size(w[Len(q) + 1]) = z /\ Bytes(w[Len(q) + 1]) = x
    <3>1. new[Len(q) + 1] = at[Len(q) + 1] /\ at[Len(q) + 1] = Len(s) + 1
      BY <1>6, <1>7, <2>1
    <3>2. w[Len(q) + 1] = p
      BY <1>5
    <3>3. Size(w[Len(q) + 1]) = z /\ Bytes(w[Len(q) + 1]) = x
      BY <3>2, Zenon DEF z, x
    <3> QED BY ONLY <3>1, <3>3
  <2>3. ASSUME NEW k \in 1 .. z PROVE t[Len(s) + 1 + k - 1] = x[k]
    <3>1. Len(s) + 1 + k - 1 = Len(s) + k
      BY <1>2
    <3> QED BY <1>4, <3>1
  <2>4. new[(Len(q) + 1) + 1] = Len(s) + 1 + z
    BY <1>7, <2>1
  <2> QED BY ONLY <2>2, <2>3, <2>4
<1>12. \A m \in d + 1 .. Len(w) :
         /\ new[m + 1] = new[m] + Size(w[m])
         /\ \A k \in 1 .. Size(w[m]) : t[new[m] + k - 1] = Bytes(w[m])[k]
  <2>1. \A m \in d + 1 .. Len(w) : m \in d + 1 .. Len(q) \/ m = Len(q) + 1
    BY <1>2, <1>5
  <2> QED BY <1>10, <1>11, <2>1
<1>13. r > 0 =>
         /\ d >= 1 /\ r < Size(w[d])
         /\ \A k \in 1 .. r : t[k] = Bytes(w[d])[Size(w[d]) - r + k]
  <2> SUFFICES ASSUME r > 0
               PROVE  /\ d >= 1 /\ r < Size(w[d])
                      /\ \A k \in 1 .. r : t[k] = Bytes(w[d])[Size(w[d]) - r + k]
    OBVIOUS
  <2>1. /\ d >= 1 /\ r < Size(q[d])
        /\ \A k \in 1 .. r : s[k] = Bytes(q[d])[Size(q[d]) - r + k]
    BY <1>1 DEF Lie
  <2>2. d \in 1 .. Len(q) /\ \A k \in 1 .. r : k \in 1 .. Len(s)
    BY <1>2, <1>3, <2>1
  <2>3. w[d] = q[d]
    BY <1>5, <2>2
  <2> QED BY <1>4, <2>1, <2>2, <2>3
<1>14. Lie(t, w, d, r, new)
  BY <1>7, <1>8, <1>9, <1>12, <1>13 DEF Lie
<1> QED BY <1>14 DEF Framed, t, w

(* What is left of the packet being read comes first.                      *)
LEMMA FramedBytes ==
  ASSUME NEW s \in Seq(Byte), NEW q \in Seq(Packet), NEW d \in 0 .. Len(q), NEW r \in Nat,
         Framed(s, q, d, r), r > 0
  PROVE  /\ r <= Len(s) /\ d \in 1 .. Len(q) /\ r < Size(q[d])
         /\ \A k \in 1 .. r : s[k] = Bytes(q[d])[Size(q[d]) - r + k]
<1>1. PICK at : Lie(s, q, d, r, at)
  BY DEF Framed
<1>2. r <= Len(s)
  BY <1>1, Begins
<1> QED BY <1>1, <1>2 DEF Lie

LEMMA FramedEmpty == Framed(<<>>, <<>>, 0, 0)
<1> DEFINE at == [m \in Nat |-> 1]
<1>1. at \in [Nat -> Int] /\ at[0 + 1] = 0 + 1 /\ at[Len(<<>>) + 1] = Len(<<>>) + 1
  OBVIOUS
<1>2. \A m, l \in 0 + 1 .. Len(<<>>) + 1 : ~ (m < l)
  OBVIOUS
<1>3. 0 + 1 .. Len(<<>>) = {}
  OBVIOUS
<1>4. Lie(<<>>, <<>>, 0, 0, at)
  BY <1>1, <1>2, <1>3 DEF Lie
<1> QED BY <1>4 DEF Framed
-----------------------------------------------------------------------------
(* Counting the positions of a sequence.                                   *)

LEMMA CountType ==
  ASSUME NEW n \in Nat, NEW P \in SUBSET (1 .. n)
  PROVE  IsFiniteSet(P) /\ Cardinality(P) \in Nat
<1>1. IsFiniteSet(1 .. n)
  BY FS_Interval
<1>2. IsFiniteSet(P)
  BY <1>1, FS_Subset
<1> QED BY <1>2, FS_CardinalityType

LEMMA CountMore ==
  ASSUME NEW n \in Nat, NEW P \in SUBSET (1 .. n), NEW Q \in SUBSET (1 .. n + 1),
         \A i \in 1 .. n : i \in Q <=> i \in P
  PROVE  Cardinality(Q) = Cardinality(P) + (IF n + 1 \in Q THEN 1 ELSE 0)
<1>0. /\ \A i \in Q : i \in 1 .. n \/ i = n + 1
      /\ \A i \in P : i \in 1 .. n
      /\ n + 1 \notin 1 .. n
  OBVIOUS
<1>1. IsFiniteSet(P) /\ Cardinality(P) \in Nat
  BY CountType
<1>2. CASE n + 1 \in Q
  <2>1. Q = P \cup {n + 1} /\ n + 1 \notin P
    BY <1>0, <1>2, Zenon
  <2>2. Cardinality(P \cup {n + 1}) = Cardinality(P) + 1
    BY <1>1, <2>1, FS_AddElement
  <2>3. Cardinality(Q) = Cardinality(P) + 1
    BY <2>1, <2>2
  <2> QED BY <1>2, <2>3
<1>3. CASE n + 1 \notin Q
  <2>1. Q = P
    BY <1>0, <1>3, Zenon
  <2>2. Cardinality(P) = Cardinality(P) + 0
    BY <1>1
  <2> QED BY <1>3, <2>1, <2>2
<1> QED BY <1>2, <1>3

LEMMA CountTail ==
  ASSUME NEW n \in Nat, NEW P \in SUBSET (1 .. n + 1), NEW Q \in SUBSET (1 .. n),
         \A i \in 1 .. n : i \in Q <=> i + 1 \in P
  PROVE  Cardinality(P) = Cardinality(Q) + (IF 1 \in P THEN 1 ELSE 0)
<1> DEFINE R == P \ {1}
           f == [i \in Q |-> i + 1]
<1>1. IsFiniteSet(Q) /\ Cardinality(Q) \in Nat /\ IsFiniteSet(P) /\ Cardinality(P) \in Nat
  BY CountType
<1>2. f \in Bijection(Q, R)
  <2>1. f \in [Q -> R]
    <3>1. \A i \in Q : i + 1 \in R
      OBVIOUS
    <3> QED BY <3>1
  <2>2. \A a, b \in Q : f[a] = f[b] => a = b
    <3>1. \A a, b \in Q : a \in Int /\ b \in Int /\ (a + 1 = b + 1 => a = b)
      OBVIOUS
    <3> QED BY <3>1
  <2>3. \A j \in R : \E i \in Q : f[i] = j
    <3> SUFFICES ASSUME NEW j \in R PROVE \E i \in Q : f[i] = j
      OBVIOUS
    <3>1. j - 1 \in 1 .. n /\ (j - 1) + 1 = j /\ j \in P
      OBVIOUS
    <3>2. j - 1 \in Q
      BY <3>1
    <3> QED BY <3>1, <3>2
  <2> HIDE DEF f, R
  <2> QED BY <2>1, <2>2, <2>3, Fun_IsBij
<1>3. Cardinality(R) = Cardinality(Q)
  BY <1>1, <1>2, FS_Bijection DEF ExistsBijection
<1>4. CASE 1 \in P
  <2>1. Cardinality(P \ {1}) = Cardinality(P) - 1
    BY <1>1, <1>4, FS_RemoveElement
  <2>2. Cardinality(P) = Cardinality(Q) + 1
    BY <1>1, <1>3, <2>1
  <2> QED BY <1>4, <2>2
<1>5. CASE 1 \notin P
  <2>1. R = P
    BY <1>5
  <2>2. Cardinality(P) = Cardinality(Q) + 0
    BY <1>1, <1>3, <2>1
  <2> QED BY <1>5, <2>2
<1> QED BY <1>4, <1>5

(* How many of the first packets fit.                                      *)
LEMMA FittingType ==
  ASSUME NEW i \in Nat
  PROVE  Fitting(i) \in Nat
<1>1. {j \in 1 .. i : Fits(sent[j])} \in SUBSET (1 .. i)
  OBVIOUS
<1> QED BY <1>1, CountType DEF Fitting

LEMMA FittingNone == Fitting(0) = 0
<1>1. {j \in 1 .. 0 : Fits(sent[j])} = {}
  OBVIOUS
<1> QED BY <1>1, FS_EmptySet DEF Fitting

LEMMA FittingNext ==
  ASSUME NEW i \in Nat
  PROVE  Fitting(i + 1) = Fitting(i) + (IF Fits(sent[i + 1]) THEN 1 ELSE 0)
<1> DEFINE P == {j \in 1 .. i : Fits(sent[j])}
           Q == {j \in 1 .. i + 1 : Fits(sent[j])}
<1>1. P \in SUBSET (1 .. i) /\ Q \in SUBSET (1 .. i + 1) /\ \A j \in 1 .. i : j \in Q <=> j \in P
  OBVIOUS
<1>2. i + 1 \in Q <=> Fits(sent[i + 1])
  OBVIOUS
<1>3. Fitting(i) = Cardinality(P) /\ Fitting(i + 1) = Cardinality(Q)
  BY DEF Fitting
<1> HIDE DEF P, Q
<1>4. Cardinality(Q) = Cardinality(P) + (IF i + 1 \in Q THEN 1 ELSE 0)
  BY <1>1, CountMore
<1> QED BY <1>2, <1>3, <1>4

LEMMA FittingGrows ==
  ASSUME NEW i \in Nat, NEW j \in Nat, i <= j
  PROVE  Fitting(i) <= Fitting(j)
<1> DEFINE P == {k \in 1 .. i : Fits(sent[k])}
           Q == {k \in 1 .. j : Fits(sent[k])}
<1>1. P \in SUBSET (1 .. i) /\ Q \in SUBSET (1 .. j) /\ P \subseteq Q
  OBVIOUS
<1>2. Fitting(i) = Cardinality(P) /\ Fitting(j) = Cardinality(Q)
  BY DEF Fitting
<1> HIDE DEF P, Q
<1>3. IsFiniteSet(Q)
  BY <1>1, CountType
<1> QED BY <1>1, <1>2, <1>3, FS_Subset

LEMMA FittingBefore ==
  ASSUME NEW i \in Nat, NEW j \in Nat, i < j, Fits(sent[j])
  PROVE  Fitting(i) < Fitting(j)
<1>1. j - 1 \in Nat /\ i <= j - 1 /\ (j - 1) + 1 = j
  OBVIOUS
<1>2. Fitting(i) <= Fitting(j - 1)
  BY <1>1, FittingGrows
<1>3. Fitting((j - 1) + 1) = Fitting(j - 1) + (IF Fits(sent[(j - 1) + 1]) THEN 1 ELSE 0)
  BY <1>1, FittingNext
<1>4. Fitting(j) = Fitting(j - 1) + 1
  BY <1>1, <1>3
<1>5. Fitting(i) \in Nat /\ Fitting(j - 1) \in Nat
  BY <1>1, FittingType
<1> QED BY <1>2, <1>4, <1>5

LEMMA FittingKept ==
  ASSUME sent \in Seq(Packet), NEW p \in Packet, sent' = Append(sent, p),
         NEW i \in 0 .. Len(sent)
  PROVE  Fitting(i)' = Fitting(i)
<1>1. \A j \in 1 .. i : sent'[j] = sent[j]
  OBVIOUS
<1>2. \A j \in 1 .. i : Fits(sent'[j]) <=> Fits(sent[j])
  BY <1>1
<1>3. {j \in 1 .. i : Fits(sent'[j])} = {j \in 1 .. i : Fits(sent[j])}
  BY <1>2
<1> QED BY <1>3 DEF Fitting
-----------------------------------------------------------------------------
(* The types but for the size of the pools, which needs PoolInv.           *)
Typed ==
  /\ sent \in Seq(Packet) /\ sending \in Seq(Byte) /\ line \in Seq(Byte)
  /\ credits \in [Types -> Nat]
  /\ isr \in {"idle", "header", "body"} /\ buf \in Types \cup {"none"}
  /\ remaining \in Nat /\ filled \in Seq(Byte)
  /\ free \in [Types -> Nat]
  /\ tx_queue \in Seq([type : Types, bytes : Seq(Byte)])
  /\ handed \in Seq(Seq(Byte))
  /\ started \in BOOLEAN /\ rx_queue \in Seq(Types)
  /\ writing \in BOOLEAN /\ halted \in BOOLEAN
  /\ starved \in BOOLEAN /\ faults \subseteq Faults

(* Of each type: buffers that wait for the controller, events that wait    *)
(* for the host, packets that were not read; the buffer being filled.      *)
QueuedOf(t)    == {i \in 1 .. Len(tx_queue) : tx_queue[i].type = t}
ReportedOf(t)  == {i \in 1 .. Len(rx_queue) : rx_queue[i] = t}
UnreadOf(d, t) == {m \in d + 1 .. Len(sent) : sent[m].type = t}
Held(t)        == IF buf = t THEN 1 ELSE 0

(* No buffer is lost or released twice.                                    *)
PoolInv ==
  \A t \in Types : free[t] + Held(t) + Cardinality(QueuedOf(t)) = Pool[t]

(* How much of the packet being read is left.                              *)
Left(d) == IF isr = "header" THEN 1 + sent[d].len ELSE remaining

(* A buffer is being filled exactly between its type byte and its last.    *)
IsrInv ==
  /\ isr = "header" => buf # "none" /\ remaining = 0
  /\ isr = "idle" /\ remaining = 0 => buf = "none"
  /\ writing => rx_queue # <<>>

(* Of each type: what the host may still send and what it sent that no     *)
(* event answered yet.                                                     *)
Due(d, t) ==
  credits[t] + Cardinality(UnreadOf(d, t)) + Held(t)
    + Cardinality(QueuedOf(t)) + Cardinality(ReportedOf(t))

FlowInv(d) ==
  "flood" \notin faults =>
    \A t \in Types : Due(d, t) <= IF started THEN Credits[t] ELSE 0

(* The first c packets were passed on, those that fit.                     *)
Ordered(c) ==
  /\ Len(Passed) = Fitting(c)
  /\ \A i \in 1 .. c : Fits(sent[i]) => Passed[Fitting(i)] = Bytes(sent[i])

(* The packets dealt with when d were begun.                               *)
Done(d) == IF buf = "none" THEN d ELSE d - 1

(* What the buffer holds of the d-th; one that is discarded does not fit.  *)
Filling(d) ==
  /\ isr # "header" /\ buf = "none" /\ remaining > 0 => ~ Fits(sent[d])
  /\ buf # "none" =>
       /\ d >= 1 /\ buf = sent[d].type
       /\ isr # "header" => Fits(sent[d])
       /\ filled = SubSeq(Bytes(sent[d]), 1, Size(sent[d]) - Left(d))

(* d packets were begun.                                                   *)
Reads(d) ==
  /\ isr = "header" => d >= 1
  /\ Framed(line \o sending, sent, d, Left(d))
  /\ FlowInv(d) /\ Ordered(Done(d)) /\ Filling(d)

(* The framing is not lost before a type byte found no buffer.             *)
ReadInv == ~ starved => \E d \in 0 .. Len(sent) : Reads(d)

IInv == Typed /\ IsrInv /\ PoolInv /\ FlowControlSuffices /\ ReadInv

LEMMA AppendFacts ==
  ASSUME NEW S, NEW q \in Seq(S), NEW e \in S
  PROVE  /\ Append(q, e) \in Seq(S) /\ Append(q, e) # <<>>
         /\ Len(Append(q, e)) = Len(q) + 1 /\ Append(q, e)[Len(q) + 1] = e
         /\ \A i \in 1 .. Len(q) : Append(q, e)[i] = q[i]
         /\ <<e>> \in Seq(S) /\ <<>> \in Seq(S)
  OBVIOUS

LEMMA ByteFacts ==
  ASSUME NEW b \in Byte
  PROVE  AsType(b) \subseteq Types \cup {"other"} /\ AsLength(b) \subseteq Nat
<1>1. b.packet \in Packet
  BY DEF Byte
<1>2. b.packet.type \in Types /\ b.packet.len \in Nat /\ Lengths \subseteq Nat
  BY <1>1, HciAssumption DEF Packet
<1> QED BY <1>2 DEF AsType, AsLength

LEMMA LineFacts ==
  ASSUME Typed, line # <<>>
  PROVE  /\ Head(line) \in Byte /\ Head(line) = line[1] /\ Tail(line) \in Seq(Byte)
         /\ Len(line) \in Nat /\ 1 \in 0 .. Len(line)
         /\ Tail(line) = SubSeq(line, 1 + 1, Len(line))
<1>1. line \in Seq(Byte)
  BY DEF Typed
<1> QED BY <1>1

(* What the interrupt takes of the line.                                   *)
LEMMA TakesFacts ==
  ASSUME Typed
  PROVE  /\ DiscardSome \in 0 .. Len(line) /\ DiscardSome <= remaining
         /\ Min({remaining, Len(line)}) \in 0 .. Len(line)
         /\ Min({remaining, Len(line)}) <= remaining
<1>1. remaining \in Nat /\ Len(line) \in Nat /\ DiscardLen \in Nat
  BY HciAssumption DEF Typed
<1>2. ASSUME NEW S \in SUBSET Nat, NEW m \in S, \A k \in S : m <= k
      PROVE  Min(S) \in S /\ \A k \in S : Min(S) <= k
  BY <1>2 DEF Min
<1>3. ASSUME NEW a \in Nat, NEW b \in Nat
      PROVE  Min({a, b}) \in Nat /\ Min({a, b}) <= a /\ Min({a, b}) <= b
  <2>1. {a, b} \in SUBSET Nat
    OBVIOUS
  <2>2. CASE a <= b
    <3>1. a \in {a, b} /\ \A k \in {a, b} : a <= k
      BY <2>2
    <3>2. Min({a, b}) \in {a, b} /\ \A k \in {a, b} : Min({a, b}) <= k
      BY <1>2, <2>1, <3>1
    <3> QED BY <3>2
  <2>3. CASE b <= a
    <3>1. b \in {a, b} /\ \A k \in {a, b} : b <= k
      BY <2>3
    <3>2. Min({a, b}) \in {a, b} /\ \A k \in {a, b} : Min({a, b}) <= k
      BY <1>2, <2>1, <3>1
    <3> QED BY <3>2
  <2> QED BY <2>2, <2>3
<1>4. ASSUME NEW a \in Nat, NEW b \in Nat, NEW c \in Nat
      PROVE  /\ Min({a, b, c}) \in Nat
             /\ Min({a, b, c}) <= a /\ Min({a, b, c}) <= c
  <2>1. {a, b, c} \in SUBSET Nat
    OBVIOUS
  <2>2. \E m \in {a, b, c} : \A k \in {a, b, c} : m <= k
    <3>1. CASE a <= b /\ a <= c
      BY <3>1
    <3>2. CASE b <= a /\ b <= c
      BY <3>2
    <3>3. CASE c <= a /\ c <= b
      BY <3>3
    <3> QED BY <3>1, <3>2, <3>3
  <2>3. PICK m \in {a, b, c} : \A k \in {a, b, c} : m <= k
    BY <2>2
  <2>4. Min({a, b, c}) \in {a, b, c} /\ \A k \in {a, b, c} : Min({a, b, c}) <= k
    BY <1>2, <2>1, <2>3
  <2> QED BY <2>4
<1>5. /\ Min({remaining, DiscardLen, Len(line)}) \in Nat
      /\ Min({remaining, DiscardLen, Len(line)}) <= remaining
      /\ Min({remaining, DiscardLen, Len(line)}) <= Len(line)
  BY <1>1, <1>4
<1>6. /\ Min({remaining, Len(line)}) \in Nat
      /\ Min({remaining, Len(line)}) <= remaining
      /\ Min({remaining, Len(line)}) <= Len(line)
  BY <1>1, <1>3
<1> QED BY <1>1, <1>5, <1>6 DEF DiscardSome

LEMMA TypedStep == Typed /\ IsrInv /\ [Next]_vars => Typed' /\ IsrInv'
<1> SUFFICES ASSUME Typed, IsrInv, [Next]_vars PROVE Typed' /\ IsrInv'
  OBVIOUS
<1> USE DEF hostVars, isrVars, threadVars
<1>1. ASSUME NEW p \in Packet, HostBegins(p) PROVE Typed' /\ IsrInv'
  <2>1. /\ Bytes(p) \in Seq(Byte) /\ Bytes(p) # <<>>
    <3>1. Bytes(p) \in Seq(Byte) /\ Len(Bytes(p)) >= 2
      BY BytesFacts
    <3> QED BY <3>1
  <2>2. Head(Bytes(p)) \in Byte /\ Tail(Bytes(p)) \in Seq(Byte)
    BY <2>1
  <2>3. sent' \in Seq(Packet) /\ sending' \in Seq(Byte) /\ line' \in Seq(Byte)
    BY <1>1, <2>2 DEF Typed, HostBegins
  <2>4. credits' \in [Types -> Nat]
    <3>1. credits \in [Types -> Nat] /\ p.type \in Types /\ credits[p.type] \in Nat
      BY DEF Typed, Packet
    <3>2. credits' = [credits EXCEPT ![p.type] = IF @ > 0 THEN @ - 1 ELSE 0]
      BY <1>1 DEF HostBegins
    <3> DEFINE c == IF credits[p.type] > 0 THEN credits[p.type] - 1 ELSE 0
    <3>3. c \in Nat /\ credits' = [credits EXCEPT ![p.type] = c]
      BY <3>1, <3>2
    <3> HIDE DEF c
    <3> QED BY <3>1, <3>3
  <2>5. faults' \subseteq Faults
    <3>1. p.type \in Types /\ credits[p.type] \in Nat /\ p.len \in Nat /\ Room \in Nat
      BY HciAssumption DEF Typed, Packet
    <3>2. credits[p.type] = 0 => "flood" \in Faults
      BY <1>1, <3>1 DEF HostBegins
    <3>3. p.len > Room => "oversize" \in Faults
      BY <1>1, <3>1 DEF HostBegins
    <3> QED BY <1>1, <3>2, <3>3 DEF Typed, HostBegins
  <2> QED BY <1>1, <2>3, <2>4, <2>5 DEF Typed, IsrInv, HostBegins
<1>2. CASE HostContinues
  <2>1. sending \in Seq(Byte) /\ sending # <<>> /\ line \in Seq(Byte)
    BY <1>2 DEF Typed, HostContinues
  <2>2. sending' \in Seq(Byte) /\ line' \in Seq(Byte)
    BY <1>2, <2>1 DEF HostContinues
  <2> QED BY <1>2, <2>2 DEF Typed, IsrInv, HostContinues
<1>3. CASE ReadType
  <2>1. /\ Head(line) \in Byte /\ line' \in Seq(Byte)
        /\ AsType(Head(line)) \subseteq Types \cup {"other"}
    BY <1>3, LineFacts, ByteFacts DEF ReadType
  <2>2. PICK t \in AsType(Head(line)) :
          IF t \in Types /\ free[t] > 0
            THEN /\ free' = [free EXCEPT ![t] = @ - 1]
                 /\ buf' = t /\ filled' = <<Head(line)>> /\ isr' = "header"
                 /\ UNCHANGED starved
            ELSE /\ starved' = (starved \/ t \in Types)
                 /\ buf' = "none"
                 /\ UNCHANGED <<free, filled, isr>>
    BY <1>3 DEF ReadType
  <2>3. isr = "idle" /\ remaining = 0
        /\ UNCHANGED <<hostVars, remaining, tx_queue, threadVars, faults>>
    BY <1>3 DEF ReadType
  <2>4. CASE t \in Types /\ free[t] > 0
    <3>1. free' \in [Types -> Nat]
      <4>1. free \in [Types -> Nat] /\ free[t] - 1 \in Nat
        BY <2>4 DEF Typed
      <4>2. free' = [free EXCEPT ![t] = free[t] - 1]
        BY <2>2, <2>4
      <4> QED BY <4>1, <4>2
    <3>2. filled' \in Seq(Byte)
      <4>1. <<Head(line)>> \in Seq(Byte)
        BY <2>1
      <4>2. filled' = <<Head(line)>>
        BY <2>2, <2>4
      <4> QED BY ONLY <4>1, <4>2
    <3> QED BY <2>1, <2>2, <2>3, <2>4, <3>1, <3>2 DEF Typed, IsrInv, Types
  <2>5. CASE ~ (t \in Types /\ free[t] > 0)
    <3>1. starved' \in BOOLEAN
      BY <2>2, <2>5 DEF Typed
    <3> QED BY <2>1, <2>2, <2>3, <2>5, <3>1 DEF Typed, IsrInv
  <2> QED BY <2>4, <2>5
<1>4. CASE ReadHeader
  <2>1. /\ Head(line) \in Byte /\ line' \in Seq(Byte)
        /\ AsLength(Head(line)) \subseteq Nat
    BY <1>4, LineFacts, ByteFacts DEF ReadHeader
  <2>2. /\ isr = "header" /\ isr' = "body"
        /\ UNCHANGED <<hostVars, tx_queue, threadVars, starved, faults>>
        /\ remaining' \in Nat
        /\ \/ free' = [free EXCEPT ![buf] = @ + 1] /\ buf' = "none" /\ filled' = <<>>
           \/ filled' = Append(filled, Head(line)) /\ UNCHANGED <<free, buf>>
    BY <1>4, <2>1 DEF ReadHeader, GivenBack
  <2>3. free' \in [Types -> Nat]
    <3>1. free \in [Types -> Nat] /\ buf \in Types /\ free[buf] + 1 \in Nat
      BY <2>2 DEF Typed, IsrInv
    <3> QED BY <2>2, <3>1
  <2>4. filled' \in Seq(Byte)
    <3>1. filled \in Seq(Byte) /\ Head(line) \in Byte
      BY <2>1 DEF Typed
    <3>2. Append(filled, Head(line)) \in Seq(Byte) /\ <<>> \in Seq(Byte)
      BY <3>1, AppendFacts
    <3>3. filled' \in {<<>>, filled, Append(filled, Head(line))}
      BY <2>2
    <3> QED BY ONLY <3>1, <3>2, <3>3
  <2> QED BY <2>1, <2>2, <2>3, <2>4 DEF Typed, IsrInv
<1>5. CASE DiscardPayload
  <2> DEFINE n == DiscardSome
  <2>1. n \in 0 .. Len(line) /\ n <= remaining
    BY TakesFacts
  <2>2. /\ isr' = "idle" /\ buf = "none"
        /\ UNCHANGED <<hostVars, buf, filled, free, tx_queue, threadVars, starved, faults>>
        /\ line' = SubSeq(line, n + 1, Len(line))
        /\ remaining' = IF n > remaining THEN 0 ELSE remaining - n
    BY <1>5 DEF DiscardPayload
  <2> HIDE DEF n
  <2>3. remaining' \in Nat /\ line' \in Seq(Byte)
    BY <2>1, <2>2, DropFacts DEF Typed
  <2> QED BY <2>2, <2>3 DEF Typed, IsrInv
<1>6. CASE ReadPayload
  <2> DEFINE n == Min({remaining, Len(line)})
             bytes == filled \o SubSeq(line, 1, n)
  <2>1. n \in 0 .. Len(line) /\ n <= remaining
    BY TakesFacts
  <2>2. /\ isr' = "idle" /\ buf # "none"
        /\ UNCHANGED <<hostVars, free, threadVars, starved, faults>>
        /\ line' = SubSeq(line, n + 1, Len(line))
        /\ remaining' = remaining - n
        /\ IF n = remaining
              THEN /\ tx_queue' = Append(tx_queue, [type |-> buf, bytes |-> bytes])
                   /\ buf' = "none" /\ filled' = <<>>
              ELSE filled' = bytes /\ UNCHANGED <<tx_queue, buf>>
    BY <1>6 DEF ReadPayload
  <2>3. SubSeq(line, 1, n) \in Seq(Byte) /\ line' \in Seq(Byte)
    <3>1. line \in Seq(Byte)
      BY DEF Typed
    <3> HIDE DEF n
    <3>2. SubSeq(line, 1, n) \in Seq(Byte)
      BY <2>1, <3>1, TakeFacts
    <3>3. SubSeq(line, n + 1, Len(line)) \in Seq(Byte)
      BY <2>1, <3>1, DropFacts
    <3> QED BY <2>2, <3>2, <3>3
  <2>4. bytes \in Seq(Byte)
    <3>1. filled \in Seq(Byte)
      BY DEF Typed
    <3> HIDE DEF n
    <3> QED BY <2>3, <3>1, ConcatFacts
  <2> HIDE DEF n, bytes
  <2>5. remaining' \in Nat /\ (n # remaining => remaining' # 0)
    BY <2>1, <2>2 DEF Typed
  <2>6. tx_queue' \in Seq([type : Types, bytes : Seq(Byte)]) /\ filled' \in Seq(Byte)
    <3>1. filled' \in Seq(Byte)
      <4>1. filled' \in {<<>>, bytes}
        BY <2>2
      <4>2. <<>> \in Seq(Byte)
        OBVIOUS
      <4> QED BY ONLY <2>4, <4>1, <4>2
    <3>b. buf \in Types
      BY <2>2 DEF Typed
    <3>2. [type |-> buf, bytes |-> bytes] \in [type : Types, bytes : Seq(Byte)]
      BY <2>4, <3>b
    <3>3. tx_queue \in Seq([type : Types, bytes : Seq(Byte)])
      BY DEF Typed
    <3> DEFINE B == [type : Types, bytes : Seq(Byte)]
               e == [type |-> buf, bytes |-> bytes]
    <3>4. tx_queue \in Seq(B) /\ e \in B /\ tx_queue' \in {tx_queue, Append(tx_queue, e)}
      BY <2>2, <3>2, <3>3
    <3> HIDE DEF B, e
    <3>5. tx_queue' \in Seq(B)
      BY <3>4, AppendFacts
    <3> QED BY <3>1, <3>5 DEF B
  <2> QED BY <2>2, <2>3, <2>5, <2>6 DEF Typed, IsrInv
<1>7. CASE MainStarts
  <2>1. credits' \in [Types -> Nat]
    BY <1>7, HciAssumption DEF MainStarts, FirstEvent
  <2> QED BY <1>7, <2>1 DEF Typed, IsrInv, MainStarts
<1>8. CASE ThreadSends
  <2>1. /\ tx_queue # <<>> /\ tx_queue \in Seq([type : Types, bytes : Seq(Byte)])
    BY <1>8 DEF Typed, ThreadSends
  <2>2. Head(tx_queue) \in [type : Types, bytes : Seq(Byte)]
    <3> DEFINE B == [type : Types, bytes : Seq(Byte)]
    <3>1. tx_queue \in Seq(B) /\ tx_queue # <<>>
      BY <2>1
    <3> HIDE DEF B
    <3>2. Head(tx_queue) \in B
      BY <3>1
    <3> QED BY <3>2 DEF B
  <2>3. Head(tx_queue).type \in Types /\ Head(tx_queue).bytes \in Seq(Byte)
    BY <2>2
  <2>4. tx_queue' \in Seq([type : Types, bytes : Seq(Byte)])
    BY <1>8, <2>1 DEF ThreadSends
  <2>5. handed' \in Seq(Seq(Byte))
    BY <1>8, <2>3 DEF Typed, ThreadSends
  <2>6. free' = [free EXCEPT ![Head(tx_queue).type] = @ + 1]
    BY <1>8 DEF ThreadSends, SendRefused
  <2>7. free' \in [Types -> Nat]
    BY <2>3, <2>6 DEF Typed
  <2>8. rx_queue' = rx_queue \/ rx_queue' = Append(rx_queue, Head(tx_queue).type)
    BY <1>8 DEF ThreadSends
  <2>9. rx_queue' \in Seq(Types) /\ (rx_queue # <<>> => rx_queue' # <<>>)
    <3>1. rx_queue \in Seq(Types)
      BY DEF Typed
    <3>2. CASE rx_queue' = Append(rx_queue, Head(tx_queue).type)
      <4>1. rx_queue' \in Seq(Types) /\ Len(rx_queue') = Len(rx_queue) + 1
        BY <2>3, <3>1, <3>2
      <4>2. rx_queue' # <<>>
        BY <3>1, <4>1
      <4> QED BY <4>1, <4>2
    <3> QED BY <2>8, <3>1, <3>2
  <2>10. faults' \subseteq Faults
    BY <1>8 DEF ThreadSends, Typed
  <2>11. UNCHANGED <<hostVars, line, isrVars, started, writing, halted, starved>>
    BY <1>8 DEF ThreadSends
  <2> QED BY <2>4, <2>5, <2>7, <2>9, <2>10, <2>11 DEF Typed, IsrInv
<1>9. CASE MainWrites
  BY <1>9 DEF Typed, IsrInv, MainWrites
<1>10. CASE MainWritten
  <2>1. rx_queue \in Seq(Types) /\ rx_queue # <<>>
    BY <1>10 DEF Typed, IsrInv, MainWritten
  <2>2. Head(rx_queue) \in Types /\ Tail(rx_queue) \in Seq(Types)
    BY <2>1
  <2>3. credits' \in [Types -> Nat]
    <3> DEFINE e == Head(rx_queue)
    <3>1. credits' = [credits EXCEPT ![e] = @ + 1] /\ credits \in [Types -> Nat] /\ e \in Types
      BY <1>10, <2>2 DEF Typed, MainWritten
    <3> HIDE DEF e
    <3>2. credits[e] + 1 \in Nat
      BY ONLY <3>1
    <3> QED BY ONLY <3>1, <3>2
  <2> QED BY <1>10, <2>2, <2>3 DEF Typed, IsrInv, MainWritten
<1>11. CASE ControllerAsserts
  BY <1>11 DEF Typed, IsrInv, ControllerAsserts
<1>12. CASE UNCHANGED vars
  BY <1>12 DEF Typed, IsrInv, vars
<1> QED
  BY <1>1, <1>2, <1>3, <1>4, <1>5, <1>6, <1>7, <1>8, <1>9, <1>10, <1>11, <1>12
  DEF Next, Host, Interrupt, Threads
-----------------------------------------------------------------------------
(* How the counts change.                                                  *)

LEMMA CountTypes ==
  ASSUME Typed, NEW t \in Types
  PROVE  /\ Cardinality(QueuedOf(t)) \in Nat /\ Cardinality(ReportedOf(t)) \in Nat
         /\ \A d \in 0 .. Len(sent) : Cardinality(UnreadOf(d, t)) \in Nat
<1>1. Len(tx_queue) \in Nat /\ Len(rx_queue) \in Nat /\ Len(sent) \in Nat
  BY DEF Typed
<1>2. QueuedOf(t) \in SUBSET (1 .. Len(tx_queue)) /\ ReportedOf(t) \in SUBSET (1 .. Len(rx_queue))
  BY DEF QueuedOf, ReportedOf
<1>3. \A d \in 0 .. Len(sent) : UnreadOf(d, t) \in SUBSET (1 .. Len(sent))
  BY <1>1 DEF UnreadOf
<1> QED BY <1>1, <1>2, <1>3, CountType

Queueing == [type : Types, bytes : Seq(Byte)]

LEMMA QueuedMore ==
  ASSUME Typed, NEW t \in Types, NEW e \in Queueing, tx_queue' = Append(tx_queue, e)
  PROVE  Cardinality(QueuedOf(t))' = Cardinality(QueuedOf(t)) + (IF e.type = t THEN 1 ELSE 0)
<1> DEFINE n == Len(tx_queue)
           P == QueuedOf(t)
           Q == QueuedOf(t)'
<1>1. tx_queue \in Seq(Queueing) /\ n \in Nat
  BY DEF Typed, Queueing
<1>2. /\ Len(tx_queue') = n + 1 /\ tx_queue'[n + 1] = e
      /\ \A i \in 1 .. n : tx_queue'[i] = tx_queue[i]
  BY <1>1, AppendFacts
<1>3. /\ P = {i \in 1 .. n : tx_queue[i].type = t}
      /\ Q = {i \in 1 .. n + 1 : tx_queue'[i].type = t}
  BY <1>2 DEF QueuedOf
<1> HIDE DEF n, P, Q
<1>4. /\ P \in SUBSET (1 .. n) /\ Q \in SUBSET (1 .. n + 1)
      /\ \A i \in 1 .. n : i \in Q <=> i \in P
      /\ n + 1 \in Q <=> e.type = t
  BY <1>1, <1>2, <1>3
<1>5. Cardinality(Q) = Cardinality(P) + (IF n + 1 \in Q THEN 1 ELSE 0)
  BY <1>1, <1>4, CountMore
<1> QED BY <1>4, <1>5 DEF P, Q

LEMMA QueuedTail ==
  ASSUME Typed, NEW t \in Types, tx_queue # <<>>, tx_queue' = Tail(tx_queue)
  PROVE  /\ Cardinality(QueuedOf(t))' \in Nat
         /\ Cardinality(QueuedOf(t)) =
              Cardinality(QueuedOf(t))' + (IF Head(tx_queue).type = t THEN 1 ELSE 0)
<1> DEFINE n == Len(tx_queue) - 1
           P == QueuedOf(t)
           Q == QueuedOf(t)'
<1>1. tx_queue \in Seq(Queueing)
  BY DEF Typed, Queueing
<1>2. /\ n \in Nat /\ Len(tx_queue) = n + 1 /\ Len(tx_queue') = n /\ Head(tx_queue) = tx_queue[1]
      /\ \A i \in 1 .. n : tx_queue'[i] = tx_queue[i + 1]
  BY <1>1
<1>3. /\ P = {i \in 1 .. n + 1 : tx_queue[i].type = t}
      /\ Q = {i \in 1 .. n : tx_queue'[i].type = t}
  BY <1>2 DEF QueuedOf
<1> HIDE DEF n, P, Q
<1>4. /\ P \in SUBSET (1 .. n + 1) /\ Q \in SUBSET (1 .. n)
      /\ \A i \in 1 .. n : i \in Q <=> i + 1 \in P
      /\ 1 \in P <=> Head(tx_queue).type = t
  BY <1>2, <1>3
<1>5. Cardinality(P) = Cardinality(Q) + (IF 1 \in P THEN 1 ELSE 0)
  BY <1>2, <1>4, CountTail
<1>6. Cardinality(Q) \in Nat
  BY <1>2, <1>4, CountType
<1> QED BY <1>4, <1>5, <1>6 DEF P, Q

LEMMA ReportedMore ==
  ASSUME Typed, NEW t \in Types, NEW e \in Types, rx_queue' = Append(rx_queue, e)
  PROVE  Cardinality(ReportedOf(t))' = Cardinality(ReportedOf(t)) + (IF e = t THEN 1 ELSE 0)
<1> DEFINE n == Len(rx_queue)
           P == ReportedOf(t)
           Q == ReportedOf(t)'
<1>1. rx_queue \in Seq(Types) /\ n \in Nat
  BY DEF Typed
<1>2. /\ Len(rx_queue') = n + 1 /\ rx_queue'[n + 1] = e
      /\ \A i \in 1 .. n : rx_queue'[i] = rx_queue[i]
  BY <1>1, AppendFacts
<1>3. /\ P = {i \in 1 .. n : rx_queue[i] = t}
      /\ Q = {i \in 1 .. n + 1 : rx_queue'[i] = t}
  BY <1>2 DEF ReportedOf
<1> HIDE DEF n, P, Q
<1>4. /\ P \in SUBSET (1 .. n) /\ Q \in SUBSET (1 .. n + 1)
      /\ \A i \in 1 .. n : i \in Q <=> i \in P
      /\ n + 1 \in Q <=> e = t
  BY <1>1, <1>2, <1>3
<1>5. Cardinality(Q) = Cardinality(P) + (IF n + 1 \in Q THEN 1 ELSE 0)
  BY <1>1, <1>4, CountMore
<1> QED BY <1>4, <1>5 DEF P, Q

LEMMA ReportedTail ==
  ASSUME Typed, NEW t \in Types, rx_queue # <<>>, rx_queue' = Tail(rx_queue)
  PROVE  /\ Cardinality(ReportedOf(t))' \in Nat
         /\ Cardinality(ReportedOf(t)) =
              Cardinality(ReportedOf(t))' + (IF Head(rx_queue) = t THEN 1 ELSE 0)
<1> DEFINE n == Len(rx_queue) - 1
           P == ReportedOf(t)
           Q == ReportedOf(t)'
<1>1. rx_queue \in Seq(Types)
  BY DEF Typed
<1>2. /\ n \in Nat /\ Len(rx_queue) = n + 1 /\ Len(rx_queue') = n /\ Head(rx_queue) = rx_queue[1]
      /\ \A i \in 1 .. n : rx_queue'[i] = rx_queue[i + 1]
  BY <1>1
<1>3. /\ P = {i \in 1 .. n + 1 : rx_queue[i] = t}
      /\ Q = {i \in 1 .. n : rx_queue'[i] = t}
  BY <1>2 DEF ReportedOf
<1> HIDE DEF n, P, Q
<1>4. /\ P \in SUBSET (1 .. n + 1) /\ Q \in SUBSET (1 .. n)
      /\ \A i \in 1 .. n : i \in Q <=> i + 1 \in P
      /\ 1 \in P <=> Head(rx_queue) = t
  BY <1>2, <1>3
<1>5. Cardinality(P) = Cardinality(Q) + (IF 1 \in P THEN 1 ELSE 0)
  BY <1>2, <1>4, CountTail
<1>6. Cardinality(Q) \in Nat
  BY <1>2, <1>4, CountType
<1> QED BY <1>4, <1>5, <1>6 DEF P, Q

LEMMA UnreadMore ==
  ASSUME Typed, NEW t \in Types, NEW d \in 0 .. Len(sent), NEW p \in Packet,
         sent' = Append(sent, p)
  PROVE  Cardinality(UnreadOf(d, t))' = Cardinality(UnreadOf(d, t)) + (IF p.type = t THEN 1 ELSE 0)
<1> DEFINE n == Len(sent)
           P == UnreadOf(d, t)
           Q == UnreadOf(d, t)'
<1>1. sent \in Seq(Packet) /\ n \in Nat /\ d \in Nat /\ d <= n
  BY DEF Typed
<1>2. /\ Len(sent') = n + 1 /\ sent'[n + 1] = p
      /\ \A i \in 1 .. n : sent'[i] = sent[i]
  BY <1>1, AppendFacts
<1>3. /\ P = {i \in d + 1 .. n : sent[i].type = t}
      /\ Q = {i \in d + 1 .. n + 1 : sent'[i].type = t}
  BY <1>2 DEF UnreadOf
<1> HIDE DEF n, P, Q
<1>4. /\ P \in SUBSET (1 .. n) /\ Q \in SUBSET (1 .. n + 1)
      /\ \A i \in 1 .. n : i \in Q <=> i \in P
      /\ n + 1 \in Q <=> p.type = t
  BY <1>1, <1>2, <1>3
<1>5. Cardinality(Q) = Cardinality(P) + (IF n + 1 \in Q THEN 1 ELSE 0)
  BY <1>1, <1>4, CountMore
<1> QED BY <1>4, <1>5 DEF P, Q

LEMMA UnreadNext ==
  ASSUME Typed, NEW t \in Types, NEW d \in 0 .. Len(sent), d < Len(sent)
  PROVE  /\ Cardinality(UnreadOf(d + 1, t)) \in Nat
         /\ Cardinality(UnreadOf(d, t)) =
              Cardinality(UnreadOf(d + 1, t)) + (IF sent[d + 1].type = t THEN 1 ELSE 0)
<1> DEFINE P == UnreadOf(d, t)
           Q == UnreadOf(d + 1, t)
<1>1. Len(sent) \in Nat /\ d \in Nat
  BY DEF Typed
<1>2. /\ P \in SUBSET (1 .. Len(sent)) /\ Q \subseteq P
      /\ \A i \in P : i \in Q \/ i = d + 1
      /\ d + 1 \notin Q
      /\ d + 1 \in P <=> sent[d + 1].type = t
  BY <1>1 DEF UnreadOf
<1> HIDE DEF P, Q
<1>3. IsFiniteSet(P) /\ Cardinality(P) \in Nat
  BY <1>1, <1>2, CountType
<1>n. Cardinality(Q) \in Nat
  <2>1. Q \in SUBSET (1 .. Len(sent))
    BY <1>2
  <2> QED BY <1>1, <2>1, CountType
<1>4. Q = P \ {d + 1}
  BY <1>2, Zenon
<1>5. CASE d + 1 \in P
  <2>1. Cardinality(P \ {d + 1}) = Cardinality(P) - 1
    BY <1>3, <1>5, FS_RemoveElement
  <2>2. Cardinality(P) = Cardinality(Q) + 1
    BY <1>3, <1>4, <2>1
  <2> QED BY <1>2, <1>n, <1>5, <2>2 DEF P, Q
<1>6. CASE d + 1 \notin P
  <2>1. Q = P
    BY <1>4, <1>6
  <2>2. Cardinality(P) = Cardinality(Q) + 0
    BY <1>3, <2>1
  <2> QED BY <1>2, <1>n, <1>6, <2>2 DEF P, Q
<1> QED BY <1>5, <1>6

(* No buffer is lost, none is released twice.                              *)
LEMMA PoolStep == Typed /\ IsrInv /\ PoolInv /\ [Next]_vars => PoolInv'
<1> SUFFICES ASSUME Typed, IsrInv, PoolInv, [Next]_vars PROVE PoolInv'
  OBVIOUS
<1> USE DEF hostVars, isrVars, threadVars
<1>f. CASE UNCHANGED <<free, buf, tx_queue>>
  BY <1>f DEF PoolInv, Held, QueuedOf
<1>k. \A t \in Types : /\ free[t] \in Nat /\ Cardinality(QueuedOf(t)) \in Nat
                       /\ Held(t) \in {0, 1} /\ t # "none"
                       /\ free[t] + Held(t) + Cardinality(QueuedOf(t)) = Pool[t]
  BY CountTypes DEF Typed, Held, Types, PoolInv
<1>1. CASE ReadType
  <2>1. buf = "none" /\ UNCHANGED tx_queue
    BY <1>1 DEF ReadType, IsrInv
  <2>2. \/ \E t \in Types : free[t] > 0 /\ free' = [free EXCEPT ![t] = @ - 1] /\ buf' = t
        \/ buf' = "none" /\ UNCHANGED free
    BY <1>1 DEF ReadType
  <2>3. CASE buf' = "none" /\ UNCHANGED free
    BY <1>f, <2>1, <2>3
  <2>4. ASSUME NEW t \in Types, free[t] > 0, free' = [free EXCEPT ![t] = @ - 1], buf' = t
        PROVE  PoolInv'
    <3> SUFFICES ASSUME NEW u \in Types
                 PROVE  free'[u] + Held(u)' + Cardinality(QueuedOf(u))' = Pool[u]
      BY DEF PoolInv
    <3>1. QueuedOf(u)' = QueuedOf(u)
      BY <2>1 DEF QueuedOf
    <3>2. Held(u) = 0 /\ Held(u)' = IF u = t THEN 1 ELSE 0
      BY <1>k, <2>1, <2>4 DEF Held
    <3>3. free'[u] = IF u = t THEN free[u] - 1 ELSE free[u]
      BY <2>4 DEF Typed
    <3> QED BY <1>k, <3>1, <3>2, <3>3
  <2> QED BY <2>2, <2>3, <2>4
<1>2. CASE ReadHeader
  <2>1. buf \in Types /\ UNCHANGED tx_queue
    BY <1>2 DEF ReadHeader, IsrInv, Typed
  <2>2. \/ free' = [free EXCEPT ![buf] = @ + 1] /\ buf' = "none"
        \/ UNCHANGED <<free, buf>>
    BY <1>2 DEF ReadHeader, GivenBack
  <2>3. CASE free' = [free EXCEPT ![buf] = @ + 1] /\ buf' = "none"
    <3> SUFFICES ASSUME NEW u \in Types
                 PROVE  free'[u] + Held(u)' + Cardinality(QueuedOf(u))' = Pool[u]
      BY DEF PoolInv
    <3>1. QueuedOf(u)' = QueuedOf(u)
      BY <2>1 DEF QueuedOf
    <3>2. Held(u)' = 0 /\ Held(u) = IF u = buf THEN 1 ELSE 0
      BY <1>k, <2>3 DEF Held
    <3>3. free'[u] = IF u = buf THEN free[u] + 1 ELSE free[u]
      BY <2>1, <2>3 DEF Typed
    <3> QED BY <1>k, <3>1, <3>2, <3>3
  <2> QED BY <1>f, <2>1, <2>2, <2>3
<1>3. CASE ReadPayload
  <2>1. buf \in Types /\ UNCHANGED free
    BY <1>3 DEF ReadPayload, Typed
  <2>2. \/ UNCHANGED <<free, buf, tx_queue>>
        \/ /\ buf' = "none"
           /\ \E b : tx_queue' = Append(tx_queue, [type |-> buf, bytes |-> b])
                     /\ b = filled \o SubSeq(line, 1, Min({remaining, Len(line)}))
    BY <1>3 DEF ReadPayload
  <2>3. ASSUME buf' = "none", NEW b, tx_queue' = Append(tx_queue, [type |-> buf, bytes |-> b]),
               b = filled \o SubSeq(line, 1, Min({remaining, Len(line)}))
        PROVE  PoolInv'
    <3> DEFINE e == [type |-> buf, bytes |-> b]
    <3>1. SubSeq(line, 1, Min({remaining, Len(line)})) \in Seq(Byte)
      <4> DEFINE n == Min({remaining, Len(line)})
      <4>1. n \in 0 .. Len(line) /\ line \in Seq(Byte)
        BY TakesFacts DEF Typed
      <4> HIDE DEF n
      <4>2. SubSeq(line, 1, n) \in Seq(Byte)
        BY <4>1, TakeFacts
      <4> QED BY <4>2 DEF n
    <3>2. b \in Seq(Byte)
      BY <2>3, <3>1, ConcatFacts DEF Typed
    <3>3. e \in Queueing /\ e.type = buf
      BY <2>1, <3>2 DEF Queueing
    <3> HIDE DEF e
    <3>4. tx_queue' = Append(tx_queue, e)
      BY <2>3 DEF e
    <3> SUFFICES ASSUME NEW u \in Types
                 PROVE  free'[u] + Held(u)' + Cardinality(QueuedOf(u))' = Pool[u]
      BY DEF PoolInv
    <3>5. Cardinality(QueuedOf(u))' = Cardinality(QueuedOf(u)) + (IF e.type = u THEN 1 ELSE 0)
      BY <3>3, <3>4, QueuedMore
    <3>6. Held(u)' = 0 /\ Held(u) = (IF e.type = u THEN 1 ELSE 0)
      BY <1>k, <2>3, <3>3 DEF Held
    <3>7. free'[u] = free[u]
      BY <2>1
    <3> QED BY <1>k, <3>5, <3>6, <3>7
  <2> QED BY <1>f, <2>2, <2>3
<1>4. CASE ThreadSends
  <2> DEFINE t == Head(tx_queue).type
  <2>1. /\ tx_queue # <<>> /\ tx_queue' = Tail(tx_queue) /\ UNCHANGED buf
        /\ free' = [free EXCEPT ![t] = @ + 1]
    BY <1>4 DEF ThreadSends, SendRefused
  <2> HIDE DEF t
  <2> SUFFICES ASSUME NEW u \in Types
               PROVE  free'[u] + Held(u)' + Cardinality(QueuedOf(u))' = Pool[u]
    BY DEF PoolInv
  <2>2. /\ Cardinality(QueuedOf(u))' \in Nat
        /\ Cardinality(QueuedOf(u)) = Cardinality(QueuedOf(u))' + (IF t = u THEN 1 ELSE 0)
    BY <2>1, QueuedTail DEF t
  <2>3. free'[u] = IF u = t THEN free[u] + 1 ELSE free[u]
    BY <2>1 DEF Typed
  <2>4. Held(u)' = Held(u)
    BY <2>1 DEF Held
  <2> QED BY <1>k, <2>2, <2>3, <2>4
<1>5. CASE (\E p \in Packet : HostBegins(p)) \/ HostContinues \/ MainStarts \/ MainWrites
           \/ MainWritten \/ ControllerAsserts \/ DiscardPayload \/ UNCHANGED vars
  <2>1. UNCHANGED <<free, buf, tx_queue>>
    BY <1>5 DEF HostBegins, HostContinues, MainStarts, MainWrites, MainWritten,
                ControllerAsserts, DiscardPayload, vars
  <2> QED BY <1>f, <2>1
<1> QED
  BY <1>1, <1>2, <1>3, <1>4, <1>5 DEF Next, Host, Interrupt, Threads
-----------------------------------------------------------------------------
(* The flow control.                                                       *)

LEMMA DueType ==
  ASSUME Typed, NEW t \in Types, NEW d \in 0 .. Len(sent)
  PROVE  /\ credits[t] \in Nat /\ Held(t) \in {0, 1}
         /\ Cardinality(UnreadOf(d, t)) \in Nat /\ Cardinality(QueuedOf(t)) \in Nat
         /\ Cardinality(ReportedOf(t)) \in Nat
         /\ Credits[t] \in Nat /\ Pool[t] \in Nat /\ Credits[t] <= Pool[t]
<1>1. credits[t] \in Nat /\ Held(t) \in {0, 1}
  BY DEF Typed, Held
<1>2. Credits[t] \in Nat /\ Pool[t] \in Nat /\ Credits[t] <= Pool[t]
  BY HciAssumption
<1> QED BY <1>1, <1>2, CountTypes

(* Nothing new is due.                                                     *)
LEMMA FlowLess ==
  ASSUME NEW d, NEW c, FlowInv(d), faults \subseteq faults', started' = started,
         \A t \in Types : Due(c, t)' <= Due(d, t) /\ Due(d, t) \in Int /\ Due(c, t)' \in Int
  PROVE  FlowInv(c)'
<1>1. \A t \in Types : Credits[t] \in Int
  BY HciAssumption
<1>2. ASSUME "flood" \notin faults', NEW t \in Types
      PROVE  Due(c, t)' <= IF started' THEN Credits[t] ELSE 0
  <2>1. Due(d, t) <= IF started THEN Credits[t] ELSE 0
    BY <1>2 DEF FlowInv
  <2>2. Due(c, t)' <= Due(d, t) /\ Due(d, t) \in Int /\ Due(c, t)' \in Int
    OBVIOUS
  <2>3. CASE started
    BY <1>1, <2>1, <2>2, <2>3
  <2>4. CASE ~ started
    BY <2>1, <2>2, <2>4
  <2> QED BY <2>3, <2>4
<1> QED BY <1>2 DEF FlowInv

LEMMA FlowFrame ==
  ASSUME NEW d, FlowInv(d), faults \subseteq faults',
         UNCHANGED <<credits, sent, buf, tx_queue, rx_queue, started>>
  PROVE  FlowInv(d)'
BY DEF FlowInv, Due, Held, UnreadOf, QueuedOf, ReportedOf

LEMMA FlowBegins ==
  ASSUME Typed, NEW d \in 0 .. Len(sent), FlowInv(d), NEW p \in Packet, HostBegins(p)
  PROVE  FlowInv(d)'
<1>1. CASE credits[p.type] = 0
  BY <1>1 DEF HostBegins, FlowInv
<1>2. CASE credits[p.type] # 0
  <2>1. p.type \in Types /\ credits[p.type] \in Nat /\ credits[p.type] > 0
    BY <1>2 DEF Typed, Packet
  <2>2. /\ sent' = Append(sent, p) /\ credits' = [credits EXCEPT ![p.type] = @ - 1]
        /\ UNCHANGED <<buf, tx_queue, rx_queue, started>> /\ faults \subseteq faults'
    BY <2>1 DEF HostBegins, isrVars, threadVars
  <2>3. ASSUME NEW t \in Types
        PROVE  Due(d, t)' <= Due(d, t) /\ Due(d, t) \in Int /\ Due(d, t)' \in Int
    <3> DEFINE e == IF p.type = t THEN 1 ELSE 0
    <3>1. /\ credits[t] \in Nat /\ Held(t) \in {0, 1}
          /\ Cardinality(UnreadOf(d, t)) \in Nat /\ Cardinality(QueuedOf(t)) \in Nat
          /\ Cardinality(ReportedOf(t)) \in Nat
      BY DueType
    <3>2. credits'[t] = credits[t] - e
      <4>1. /\ credits \in [Types -> Nat] /\ credits' = [credits EXCEPT ![p.type] = credits[p.type] - 1]
        BY <2>2 DEF Typed
      <4>2. p.type = t => credits'[t] = credits[t] - 1
        BY ONLY <2>1, <4>1
      <4>3. p.type # t => credits'[t] = credits[t]
        BY ONLY <2>1, <4>1
      <4> QED BY <3>1, <4>2, <4>3
    <3>3. Cardinality(UnreadOf(d, t))' = Cardinality(UnreadOf(d, t)) + e
      BY <2>2, UnreadMore
    <3>4. Held(t)' = Held(t) /\ QueuedOf(t)' = QueuedOf(t) /\ ReportedOf(t)' = ReportedOf(t)
      BY <2>2 DEF Held, QueuedOf, ReportedOf
    <3>5. e \in {0, 1}
      OBVIOUS
    <3> HIDE DEF e
    <3>6. Due(d, t) = credits[t] + Cardinality(UnreadOf(d, t)) + Held(t)
                        + Cardinality(QueuedOf(t)) + Cardinality(ReportedOf(t))
      BY Zenon DEF Due
    <3>7. Due(d, t)' = (credits[t] - e) + (Cardinality(UnreadOf(d, t)) + e) + Held(t)
                         + Cardinality(QueuedOf(t)) + Cardinality(ReportedOf(t))
      BY <3>2, <3>3, <3>4, Zenon DEF Due
    <3>8. /\ credits[t] \in Int /\ Cardinality(UnreadOf(d, t)) \in Int /\ Held(t) \in Int
          /\ Cardinality(QueuedOf(t)) \in Int /\ Cardinality(ReportedOf(t)) \in Int /\ e \in Int
      BY <3>1, <3>5
    <3>9. \E c, u, h, q, i, j \in Int : /\ Due(d, t)' = (c - j) + (u + j) + h + q + i
                                       /\ Due(d, t) = c + u + h + q + i
      BY <3>6, <3>7, <3>8, Zenon
    <3> QED BY ONLY <3>9
  <2> QED BY <2>2, <2>3, FlowLess
<1> QED BY <1>1, <1>2

(* A type byte that comes with a credit finds a buffer.                    *)
LEMMA FlowFinds ==
  ASSUME Typed, PoolInv, NEW d \in 0 .. Len(sent), FlowInv(d), "flood" \notin faults,
         d < Len(sent), buf = "none"
  PROVE  free[sent[d + 1].type] > 0
<1> DEFINE t == sent[d + 1].type
<1>1. t \in Types
  <2>1. d + 1 \in 1 .. Len(sent) /\ sent \in Seq(Packet)
    BY DEF Typed
  <2>2. sent[d + 1] \in Packet
    BY <2>1
  <2> QED BY <2>2 DEF Packet
<1>2. /\ Cardinality(UnreadOf(d + 1, t)) \in Nat
      /\ Cardinality(UnreadOf(d, t)) = Cardinality(UnreadOf(d + 1, t)) + 1
  BY <1>1, UnreadNext
<1> HIDE DEF t
<1>3. /\ credits[t] \in Nat /\ Held(t) \in {0, 1}
      /\ Cardinality(UnreadOf(d, t)) \in Nat /\ Cardinality(QueuedOf(t)) \in Nat
      /\ Cardinality(ReportedOf(t)) \in Nat
      /\ Credits[t] \in Nat /\ Pool[t] \in Nat /\ Credits[t] <= Pool[t]
  BY <1>1, DueType
<1>4. Due(d, t) <= IF started THEN Credits[t] ELSE 0
  BY <1>1 DEF FlowInv
<1>5. Due(d, t) <= Pool[t] /\ Due(d, t) \in Int
  <2>1. Due(d, t) \in Int
    BY <1>3 DEF Due
  <2>2. Due(d, t) <= Credits[t]
    <3>1. CASE started
      BY <1>4, <3>1
    <3>2. CASE ~ started
      <4>1. Due(d, t) <= 0 /\ 0 <= Credits[t] /\ Credits[t] \in Int
        BY <1>3, <1>4, <3>2
      <4> QED BY ONLY <2>1, <4>1
    <3> QED BY <3>1, <3>2
  <2>3. Credits[t] \in Int /\ Pool[t] \in Int /\ Credits[t] <= Pool[t]
    BY <1>3
  <2>4. Due(d, t) <= Pool[t]
    BY ONLY <2>1, <2>2, <2>3
  <2> QED BY <2>1, <2>4
<1>6. free[t] + Held(t) + Cardinality(QueuedOf(t)) = Pool[t] /\ free[t] \in Nat /\ Held(t) = 0
  BY <1>1 DEF PoolInv, Typed, Held, Types
<1>7. free[t] > 0
  <2>1. /\ Due(d, t) = credits[t] + (Cardinality(UnreadOf(d + 1, t)) + 1) + Held(t)
                         + Cardinality(QueuedOf(t)) + Cardinality(ReportedOf(t))
    BY <1>2, Zenon DEF Due
  <2>2. /\ credits[t] \in Nat /\ Cardinality(UnreadOf(d + 1, t)) \in Nat
        /\ Cardinality(QueuedOf(t)) \in Nat /\ Cardinality(ReportedOf(t)) \in Nat
        /\ Held(t) = 0 /\ free[t] \in Nat /\ Pool[t] \in Nat
    BY <1>2, <1>3, <1>6
  <2>3. \E c, u, q, i, f, p \in Nat :
          /\ Due(d, t) = c + (u + 1) + 0 + q + i /\ f + 0 + q = p
          /\ free[t] = f /\ Pool[t] = p
    BY <1>6, <2>1, <2>2, Zenon
  <2> QED BY ONLY <1>5, <2>3
<1> QED BY <1>7 DEF t

LEMMA FlowReadsType ==
  ASSUME Typed, NEW d \in 0 .. Len(sent), FlowInv(d), d < Len(sent), buf = "none",
         buf' = sent[d + 1].type,
         UNCHANGED <<credits, sent, tx_queue, rx_queue, started, faults>>
  PROVE  FlowInv(d + 1)'
<1>1. ASSUME NEW t \in Types
      PROVE  Due(d + 1, t)' <= Due(d, t) /\ Due(d, t) \in Int /\ Due(d + 1, t)' \in Int
  <2> DEFINE e == IF sent[d + 1].type = t THEN 1 ELSE 0
  <2>1. /\ credits[t] \in Nat
        /\ Cardinality(UnreadOf(d, t)) \in Nat /\ Cardinality(QueuedOf(t)) \in Nat
        /\ Cardinality(ReportedOf(t)) \in Nat
    BY DueType
  <2>2. /\ Cardinality(UnreadOf(d + 1, t)) \in Nat
        /\ Cardinality(UnreadOf(d, t)) = Cardinality(UnreadOf(d + 1, t)) + e
    BY UnreadNext
  <2>3. Held(t) = 0 /\ Held(t)' = e /\ e \in {0, 1}
    BY DEF Held, Types
  <2>4. /\ UnreadOf(d + 1, t)' = UnreadOf(d + 1, t) /\ QueuedOf(t)' = QueuedOf(t)
        /\ ReportedOf(t)' = ReportedOf(t) /\ credits'[t] = credits[t]
    BY DEF UnreadOf, QueuedOf, ReportedOf
  <2> HIDE DEF e
  <2>5. Due(d, t) = credits[t] + (Cardinality(UnreadOf(d + 1, t)) + e) + 0
                      + Cardinality(QueuedOf(t)) + Cardinality(ReportedOf(t))
    BY <2>2, <2>3, Zenon DEF Due
  <2>6. Due(d + 1, t)' = credits[t] + Cardinality(UnreadOf(d + 1, t)) + e
                           + Cardinality(QueuedOf(t)) + Cardinality(ReportedOf(t))
    BY <2>3, <2>4, Zenon DEF Due
  <2>7. /\ credits[t] \in Int /\ Cardinality(UnreadOf(d + 1, t)) \in Int /\ e \in Int
        /\ Cardinality(QueuedOf(t)) \in Int /\ Cardinality(ReportedOf(t)) \in Int
    BY <2>1, <2>2, <2>3
  <2>8. \E c, u, h, q, i \in Int : /\ Due(d, t) = c + (u + h) + 0 + q + i
                                  /\ Due(d + 1, t)' = c + u + h + q + i
    BY <2>5, <2>6, <2>7, Zenon
  <2> QED BY ONLY <2>8
<1> QED BY <1>1, FlowLess

(* A buffer is given back or queued.                                       *)
LEMMA FlowReads ==
  ASSUME Typed, NEW d \in 0 .. Len(sent), FlowInv(d), buf # "none", buf' = "none",
         \/ UNCHANGED tx_queue
         \/ \E e \in Queueing : e.type = buf /\ tx_queue' = Append(tx_queue, e),
         UNCHANGED <<credits, sent, rx_queue, started, faults>>
  PROVE  FlowInv(d)'
<1>1. ASSUME NEW t \in Types
      PROVE  Due(d, t)' <= Due(d, t) /\ Due(d, t) \in Int /\ Due(d, t)' \in Int
  <2>1. /\ credits[t] \in Nat /\ Held(t) \in {0, 1}
        /\ Cardinality(UnreadOf(d, t)) \in Nat /\ Cardinality(QueuedOf(t)) \in Nat
        /\ Cardinality(ReportedOf(t)) \in Nat
    BY DueType
  <2>2. Held(t)' = 0
    BY DEF Held, Types
  <2>3. /\ UnreadOf(d, t)' = UnreadOf(d, t)
        /\ ReportedOf(t)' = ReportedOf(t) /\ credits'[t] = credits[t]
    BY DEF UnreadOf, ReportedOf
  <2>6. Due(d, t) = credits[t] + Cardinality(UnreadOf(d, t)) + Held(t)
                      + Cardinality(QueuedOf(t)) + Cardinality(ReportedOf(t))
    BY Zenon DEF Due
  <2>4. CASE UNCHANGED tx_queue
    <3>1. QueuedOf(t)' = QueuedOf(t)
      BY <2>4 DEF QueuedOf
    <3>2. Due(d, t)' = credits[t] + Cardinality(UnreadOf(d, t)) + 0
                         + Cardinality(QueuedOf(t)) + Cardinality(ReportedOf(t))
      BY <2>2, <2>3, <3>1, Zenon DEF Due
    <3> QED BY ONLY <2>1, <2>6, <3>2
  <2>5. ASSUME NEW e \in Queueing, e.type = buf, tx_queue' = Append(tx_queue, e)
        PROVE  Due(d, t)' <= Due(d, t) /\ Due(d, t) \in Int /\ Due(d, t)' \in Int
    <3>1. Cardinality(QueuedOf(t))' = Cardinality(QueuedOf(t)) + (IF e.type = t THEN 1 ELSE 0)
      BY <2>5, QueuedMore
    <3>2. Held(t) = IF e.type = t THEN 1 ELSE 0
      BY <2>5 DEF Held
    <3>3. Due(d, t)' = credits[t] + Cardinality(UnreadOf(d, t)) + 0
                         + (Cardinality(QueuedOf(t)) + Held(t)) + Cardinality(ReportedOf(t))
      BY <2>2, <2>3, <3>1, <3>2, Zenon DEF Due
    <3>4. /\ credits[t] \in Int /\ Cardinality(UnreadOf(d, t)) \in Int /\ Held(t) \in Int
          /\ Cardinality(QueuedOf(t)) \in Int /\ Cardinality(ReportedOf(t)) \in Int
      BY <2>1
    <3>5. \E c, u, h, q, i \in Int : /\ Due(d, t)' = c + u + 0 + (q + h) + i
                                    /\ Due(d, t) = c + u + h + q + i
      BY <2>6, <3>3, <3>4, Zenon
    <3> QED BY ONLY <3>5
  <2> QED BY <2>4, <2>5
<1> QED BY <1>1, FlowLess

LEMMA FlowStarts ==
  ASSUME Typed, NEW d \in 0 .. Len(sent), FlowInv(d), MainStarts
  PROVE  FlowInv(d)'
<1>1. /\ ~ started /\ started' /\ credits' = Credits
      /\ UNCHANGED <<sent, buf, tx_queue, rx_queue, faults>>
  BY DEF MainStarts, FirstEvent, isrVars
<1>2. ASSUME "flood" \notin faults, NEW t \in Types
      PROVE  Due(d, t)' <= Credits[t]
  <2>1. /\ credits[t] \in Nat /\ Held(t) \in {0, 1}
        /\ Cardinality(UnreadOf(d, t)) \in Nat /\ Cardinality(QueuedOf(t)) \in Nat
        /\ Cardinality(ReportedOf(t)) \in Nat /\ Credits[t] \in Nat
    BY DueType
  <2>2. /\ Held(t)' = Held(t) /\ UnreadOf(d, t)' = UnreadOf(d, t)
        /\ QueuedOf(t)' = QueuedOf(t) /\ ReportedOf(t)' = ReportedOf(t)
        /\ credits'[t] = Credits[t]
    BY <1>1 DEF Held, UnreadOf, QueuedOf, ReportedOf
  <2>3. Due(d, t) <= 0
    BY <1>1, <1>2 DEF FlowInv
  <2>4. /\ Due(d, t) = credits[t] + Cardinality(UnreadOf(d, t)) + Held(t)
                         + Cardinality(QueuedOf(t)) + Cardinality(ReportedOf(t))
        /\ Due(d, t)' = Credits[t] + Cardinality(UnreadOf(d, t)) + Held(t)
                          + Cardinality(QueuedOf(t)) + Cardinality(ReportedOf(t))
    BY <2>2, Zenon DEF Due
  <2>5. Held(t) \in Nat
    BY <2>1
  <2>6. \E c, u, h, q, i, n \in Nat : /\ Due(d, t) = c + u + h + q + i
                                     /\ Due(d, t)' = n + u + h + q + i
                                     /\ Credits[t] = n
    BY <2>1, <2>4, <2>5, Zenon
  <2> QED BY ONLY <2>3, <2>6
<1> QED BY <1>1, <1>2 DEF FlowInv

LEMMA FlowSends ==
  ASSUME Typed, NEW d \in 0 .. Len(sent), FlowInv(d), ThreadSends
  PROVE  FlowInv(d)'
<1> DEFINE e == Head(tx_queue).type
<1>1. /\ tx_queue # <<>> /\ tx_queue' = Tail(tx_queue)
      /\ UNCHANGED rx_queue \/ rx_queue' = Append(rx_queue, e)
      /\ UNCHANGED <<credits, sent, buf, started>> /\ faults \subseteq faults'
  BY DEF ThreadSends, hostVars, isrVars
<1>2. e \in Types
  <2>1. tx_queue \in Seq(Queueing)
    BY DEF Typed, Queueing
  <2>2. Head(tx_queue) \in Queueing
    BY <1>1, <2>1
  <2> QED BY <2>2 DEF Queueing
<1> HIDE DEF e
<1>3. ASSUME NEW t \in Types
      PROVE  Due(d, t)' <= Due(d, t) /\ Due(d, t) \in Int /\ Due(d, t)' \in Int
  <2> DEFINE k == IF e = t THEN 1 ELSE 0
  <2>1. /\ credits[t] \in Nat /\ Held(t) \in {0, 1}
        /\ Cardinality(UnreadOf(d, t)) \in Nat /\ Cardinality(QueuedOf(t)) \in Nat
        /\ Cardinality(ReportedOf(t)) \in Nat
    BY DueType
  <2>2. /\ Held(t)' = Held(t) /\ UnreadOf(d, t)' = UnreadOf(d, t) /\ credits'[t] = credits[t]
    BY <1>1 DEF Held, UnreadOf
  <2>3. /\ Cardinality(QueuedOf(t))' \in Nat
        /\ Cardinality(QueuedOf(t)) = Cardinality(QueuedOf(t))' + k
    BY <1>1, QueuedTail DEF e
  <2>4. k \in {0, 1}
    OBVIOUS
  <2>5. \/ Cardinality(ReportedOf(t))' = Cardinality(ReportedOf(t))
        \/ Cardinality(ReportedOf(t))' = Cardinality(ReportedOf(t)) + k
    <3>1. CASE UNCHANGED rx_queue
      BY <3>1 DEF ReportedOf
    <3>2. CASE rx_queue' = Append(rx_queue, e)
      BY <1>2, <3>2, ReportedMore
    <3> QED BY <1>1, <3>1, <3>2
  <2> HIDE DEF k
  <2>6. Due(d, t) \in Int
    BY <2>1 DEF Due
  <2>7. Due(d, t)' = Due(d, t) \/ Due(d, t)' = Due(d, t) - k
    <3>1. Due(d, t)' = credits[t] + Cardinality(UnreadOf(d, t)) + Held(t)
                         + Cardinality(QueuedOf(t))' + Cardinality(ReportedOf(t))'
      BY <2>2, Zenon DEF Due
    <3>2. Due(d, t) = credits[t] + Cardinality(UnreadOf(d, t)) + Held(t)
                        + (Cardinality(QueuedOf(t))' + k) + Cardinality(ReportedOf(t))
      BY <2>3, Zenon DEF Due
    <3>3. /\ credits[t] \in Int /\ Cardinality(UnreadOf(d, t)) \in Int /\ Held(t) \in Int
          /\ Cardinality(QueuedOf(t))' \in Int /\ Cardinality(ReportedOf(t)) \in Int /\ k \in Int
      BY <2>1, <2>3, <2>4
    <3>4. CASE Cardinality(ReportedOf(t))' = Cardinality(ReportedOf(t))
      <4>1. \E c, u, h, q, i, j \in Int : /\ Due(d, t)' = c + u + h + q + i
                                         /\ Due(d, t) = c + u + h + (q + j) + i
                                         /\ j = k
        BY <3>1, <3>2, <3>3, <3>4, Zenon
      <4>2. Due(d, t)' = Due(d, t) - k
        BY ONLY <4>1
      <4> QED BY <4>2, Zenon
    <3>5. CASE Cardinality(ReportedOf(t))' = Cardinality(ReportedOf(t)) + k
      <4>0. Due(d, t)' = credits[t] + Cardinality(UnreadOf(d, t)) + Held(t)
                           + Cardinality(QueuedOf(t))' + (Cardinality(ReportedOf(t)) + k)
        BY <3>1, <3>5, Zenon
      <4>1. \E c, u, h, q, i, j \in Int : /\ Due(d, t)' = c + u + h + q + (i + j)
                                         /\ Due(d, t) = c + u + h + (q + j) + i
        BY <4>0, <3>2, <3>3, Zenon
      <4>2. Due(d, t)' = Due(d, t)
        BY ONLY <4>1
      <4> QED BY <4>2, Zenon
    <3> QED BY <2>5, <3>4, <3>5
  <2> QED BY <2>4, <2>6, <2>7
<1> QED BY <1>1, <1>3, FlowLess

LEMMA FlowWritten ==
  ASSUME Typed, IsrInv, NEW d \in 0 .. Len(sent), FlowInv(d), MainWritten
  PROVE  FlowInv(d)'
<1> DEFINE e == Head(rx_queue)
<1>1. /\ rx_queue # <<>> /\ rx_queue' = Tail(rx_queue)
      /\ credits' = [credits EXCEPT ![e] = @ + 1]
      /\ UNCHANGED <<sent, buf, tx_queue, started, faults>>
  BY DEF MainWritten, IsrInv, isrVars
<1> HIDE DEF e
<1>2. ASSUME NEW t \in Types
      PROVE  Due(d, t)' <= Due(d, t) /\ Due(d, t) \in Int /\ Due(d, t)' \in Int
  <2> DEFINE k == IF e = t THEN 1 ELSE 0
  <2>1. /\ credits[t] \in Nat /\ Held(t) \in {0, 1}
        /\ Cardinality(UnreadOf(d, t)) \in Nat /\ Cardinality(QueuedOf(t)) \in Nat
        /\ Cardinality(ReportedOf(t)) \in Nat
    BY DueType
  <2>2. /\ Held(t)' = Held(t) /\ UnreadOf(d, t)' = UnreadOf(d, t) /\ QueuedOf(t)' = QueuedOf(t)
    BY <1>1 DEF Held, UnreadOf, QueuedOf
  <2>3. /\ Cardinality(ReportedOf(t))' \in Nat
        /\ Cardinality(ReportedOf(t)) = Cardinality(ReportedOf(t))' + k
    BY <1>1, ReportedTail DEF e
  <2>4. credits'[t] = credits[t] + k
    <3>1. credits \in [Types -> Nat] /\ credits' = [credits EXCEPT ![e] = credits[e] + 1]
      BY <1>1 DEF Typed
    <3>2. e = t => credits'[t] = credits[t] + 1
      BY ONLY <3>1, <2>1, t \in Types
    <3>3. e # t => credits'[t] = credits[t]
      BY ONLY <3>1, <2>1, t \in Types
    <3> QED BY <2>1, <3>2, <3>3
  <2>5. k \in {0, 1}
    OBVIOUS
  <2> HIDE DEF k
  <2>6. Due(d, t) \in Int
    BY <2>1 DEF Due
  <2>7. Due(d, t)' = Due(d, t)
    <3>1. Due(d, t)' = (credits[t] + k) + Cardinality(UnreadOf(d, t)) + Held(t)
                         + Cardinality(QueuedOf(t)) + Cardinality(ReportedOf(t))'
      BY <2>2, <2>4, Zenon DEF Due
    <3>2. Due(d, t) = credits[t] + Cardinality(UnreadOf(d, t)) + Held(t)
                        + Cardinality(QueuedOf(t)) + (Cardinality(ReportedOf(t))' + k)
      BY <2>3, Zenon DEF Due
    <3>3. /\ credits[t] \in Int /\ Cardinality(UnreadOf(d, t)) \in Int /\ Held(t) \in Int
          /\ Cardinality(QueuedOf(t)) \in Int /\ Cardinality(ReportedOf(t))' \in Int /\ k \in Int
      BY <2>1, <2>3, <2>5
    <3>4. \E c, u, h, q, i, j \in Int : /\ Due(d, t)' = (c + j) + u + h + q + i
                                       /\ Due(d, t) = c + u + h + q + (i + j)
      BY <3>1, <3>2, <3>3, Zenon
    <3> QED BY ONLY <3>4
  <2> QED BY <2>6, <2>7
<1> QED BY <1>1, <1>2, FlowLess
-----------------------------------------------------------------------------
(* The order of the packets.                                               *)

QueuedBytes(q) == [i \in 1 .. Len(q) |-> q[i].bytes]

LEMMA PassedIs == Passed = handed \o QueuedBytes(tx_queue)
  BY DEF Passed, QueuedBytes

LEMMA QueuedBytesFacts ==
  ASSUME NEW q \in Seq(Queueing)
  PROVE  /\ QueuedBytes(q) \in Seq(Seq(Byte)) /\ Len(QueuedBytes(q)) = Len(q)
         /\ \A i \in 1 .. Len(q) : QueuedBytes(q)[i] = q[i].bytes
<1>1. \A i \in 1 .. Len(q) : q[i] \in Queueing
  OBVIOUS
<1>2. \A i \in 1 .. Len(q) : q[i].bytes \in Seq(Byte)
  BY <1>1 DEF Queueing
<1> DEFINE f(i) == q[i].bytes
           B == Seq(Byte)
           s == [i \in 1 .. Len(q) |-> f(i)]
<1>3. \A i \in 1 .. Len(q) : f(i) \in B
  BY <1>2
<1>4. Len(q) \in Nat
  OBVIOUS
<1> HIDE DEF f, B
<1>5. s \in Seq(B) /\ Len(s) = Len(q) /\ \A i \in 1 .. Len(q) : s[i] = f(i)
  BY <1>3, <1>4
<1> QED BY <1>5 DEF QueuedBytes, f, B

LEMMA PassedType ==
  ASSUME Typed
  PROVE  Passed \in Seq(Seq(Byte)) /\ Len(Passed) \in Nat
<1>1. tx_queue \in Seq(Queueing) /\ handed \in Seq(Seq(Byte))
  BY DEF Typed, Queueing
<1>2. QueuedBytes(tx_queue) \in Seq(Seq(Byte))
  BY <1>1, QueuedBytesFacts
<1>3. Passed \in Seq(Seq(Byte))
  BY <1>1, <1>2, PassedIs, ConcatFacts
<1> QED BY <1>3

(* A buffer is queued: the last of what is passed on.                      *)
LEMMA PassedMore ==
  ASSUME Typed, NEW e \in Queueing, tx_queue' = Append(tx_queue, e), UNCHANGED handed
  PROVE  Passed' = Append(Passed, e.bytes)
<1> DEFINE q == tx_queue
           w == Append(q, e)
           a == QueuedBytes(q)
           b == QueuedBytes(w)
           B == Seq(Byte)
           x == e.bytes
<1>1. q \in Seq(Queueing) /\ handed \in Seq(B) /\ x \in B
  BY DEF Typed, Queueing
<1> HIDE DEF q
<1>2. /\ w \in Seq(Queueing) /\ Len(w) = Len(q) + 1 /\ w[Len(q) + 1] = e
      /\ \A i \in 1 .. Len(q) : w[i] = q[i]
      /\ Len(q) \in Nat
  BY <1>1, AppendFacts
<1> HIDE DEF w
<1>3. /\ a \in Seq(B) /\ Len(a) = Len(q) /\ \A i \in 1 .. Len(q) : a[i] = q[i].bytes
      /\ b \in Seq(B) /\ Len(b) = Len(w) /\ \A i \in 1 .. Len(w) : b[i] = w[i].bytes
  BY <1>1, <1>2, QueuedBytesFacts
<1> HIDE DEF a, b, B
<1>4. \A i \in 1 .. Len(q) : b[i] = a[i]
  BY <1>2, <1>3
<1>5. b[Len(q) + 1] = x
  BY <1>2, <1>3
<1> HIDE DEF x
<1>6. b = Append(a, x)
  <2> DEFINE c == Append(a, x)
  <2>1. c \in Seq(B) /\ Len(c) = Len(a) + 1 /\ c[Len(a) + 1] = x /\ \A i \in 1 .. Len(a) : c[i] = a[i]
    BY <1>1, <1>3, AppendFacts
  <2> HIDE DEF c
  <2>2. ASSUME NEW i \in 1 .. Len(b) PROVE b[i] = c[i]
    <3>1. i \in 1 .. Len(q) \/ i = Len(q) + 1
      BY <1>2, <1>3
    <3>2. CASE i \in 1 .. Len(q)
      BY <1>3, <1>4, <2>1, <3>2
    <3>3. CASE i = Len(q) + 1
      BY <1>3, <1>5, <2>1, <3>3
    <3> QED BY ONLY <3>1, <3>2, <3>3
  <2>3. Len(b) = Len(c)
    BY <1>2, <1>3, <2>1
  <2>4. b = c
    BY <1>3, <2>1, <2>2, <2>3, SeqEqual
  <2> QED BY <2>4 DEF c
<1>7. handed \o Append(a, x) = Append(handed \o a, x)
  BY <1>1, <1>3
<1>8. Passed = handed \o a /\ Passed' = handed \o b
  BY PassedIs DEF q, w, a, b, Passed, QueuedBytes
<1> QED BY <1>6, <1>7, <1>8 DEF x

(* The controller takes the first buffer.                                  *)
LEMMA PassedMoves ==
  ASSUME Typed, tx_queue # <<>>, tx_queue' = Tail(tx_queue),
         handed' = Append(handed, Head(tx_queue).bytes)
  PROVE  Passed' = Passed
<1> DEFINE q == tx_queue
           w == Tail(q)
           a == QueuedBytes(q)
           b == QueuedBytes(w)
           B == Seq(Byte)
           h == handed
           x == Head(q).bytes
           n == Len(q) - 1
<1>1. q \in Seq(Queueing) /\ h \in Seq(B) /\ q # <<>>
  BY DEF Typed, Queueing
<1>2. /\ w \in Seq(Queueing) /\ Len(w) = n /\ n \in Nat /\ Len(q) = n + 1
      /\ \A i \in 1 .. n : w[i] = q[i + 1]
      /\ Head(q) = q[1] /\ Head(q) \in Queueing
  BY <1>1
<1>3. x \in B
  BY <1>2 DEF Queueing
<1>4. Passed = h \o a /\ Passed' = Append(h, x) \o b
  BY PassedIs DEF Passed, QueuedBytes
<1> HIDE DEF q, w, h, n
<1>5. /\ a \in Seq(B) /\ Len(a) = Len(q) /\ \A i \in 1 .. Len(q) : a[i] = q[i].bytes
      /\ b \in Seq(B) /\ Len(b) = Len(w) /\ \A i \in 1 .. Len(w) : b[i] = w[i].bytes
  BY <1>1, <1>2, QueuedBytesFacts
<1> HIDE DEF a, b, B
<1>6. a[1] = x
  BY <1>2, <1>5
<1> HIDE DEF x
<1>7. ASSUME NEW i \in 1 .. n PROVE b[i] = a[i + 1]
  <2>1. i \in 1 .. Len(w) /\ i + 1 \in 1 .. Len(q)
    BY <1>2
  <2>2. b[i] = w[i].bytes /\ a[i + 1] = q[i + 1].bytes
    BY <1>5, <2>1, Zenon
  <2>3. w[i] = q[i + 1]
    BY <1>2, Zenon
  <2> QED BY ONLY <2>2, <2>3
<1>8. a = <<x>> \o b
  <2> DEFINE c == <<x>> \o b
  <2>1. c \in Seq(B) /\ Len(c) = n + 1 /\ c[1] = x /\ \A i \in 1 .. n : c[1 + i] = b[i]
    <3>1. <<x>> \in Seq(B) /\ Len(<<x>>) = 1 /\ <<x>>[1] = x
      BY <1>3
    <3>2. /\ c \in Seq(B) /\ Len(c) = Len(<<x>>) + Len(b)
          /\ \A k \in 1 .. Len(<<x>>) : c[k] = <<x>>[k]
          /\ \A k \in 1 .. Len(b) : c[Len(<<x>>) + k] = b[k]
      BY <1>5, <3>1, ConcatFacts
    <3> QED BY <1>2, <1>5, <3>1, <3>2
  <2> HIDE DEF c
  <2>2. ASSUME NEW i \in 1 .. Len(a) PROVE a[i] = c[i]
    <3>1. CASE i = 1
      BY <1>6, <2>1, <3>1
    <3>2. CASE i # 1
      <4>1. i - 1 \in 1 .. n /\ (i - 1) + 1 = i /\ 1 + (i - 1) = i
        BY <1>2, <1>5, <3>2
      <4> QED BY <1>7, <2>1, <4>1
    <3> QED BY <3>1, <3>2
  <2>3. Len(a) = Len(c)
    BY <1>2, <1>5, <2>1
  <2>4. a = c
    BY <1>5, <2>1, <2>2, <2>3, SeqEqual
  <2> QED BY <2>4 DEF c
<1>9. h \o (<<x>> \o b) = Append(h, x) \o b
  <2>1. <<x>> \in Seq(B) /\ Append(h, x) = h \o <<x>>
    <3>1. h \in Seq(B) /\ x \in B
      BY <1>1, <1>3
    <3>2. <<x>> \in Seq(B)
      BY ONLY <3>1
    <3>3. Append(h, x) = h \o <<x>>
      BY ONLY <3>1, AppendIsConcat
    <3> QED BY <3>2, <3>3
  <2>2. h \o (<<x>> \o b) = (h \o <<x>>) \o b
    <3>1. h \in Seq(B) /\ <<x>> \in Seq(B) /\ b \in Seq(B)
      BY <1>1, <1>5, <2>1
    <3> QED BY ONLY <3>1, ConcatAssociative
  <2> QED BY <2>1, <2>2
<1> QED BY <1>4, <1>8, <1>9

LEMMA OrderedFrame ==
  ASSUME NEW c, Ordered(c), UNCHANGED <<sent, Passed>>
  PROVE  Ordered(c)'
BY DEF Ordered, Fitting

LEMMA OrderedMore ==
  ASSUME Typed, NEW c \in 0 .. Len(sent), Ordered(c), NEW p \in Packet,
         sent' = Append(sent, p), UNCHANGED Passed
  PROVE  Ordered(c)'
<1>1. sent \in Seq(Packet) /\ Len(sent) \in Nat /\ c \in Nat /\ c <= Len(sent)
  BY DEF Typed
<1>2. ASSUME NEW i \in 0 .. c PROVE Fitting(i)' = Fitting(i)
  <2>1. i \in 0 .. Len(sent)
    BY <1>1
  <2> QED BY <1>1, <2>1, FittingKept
<1>3. \A i \in 1 .. c : sent'[i] = sent[i] /\ i \in 0 .. c
  BY <1>1
<1>4. Fitting(c)' = Fitting(c)
  BY <1>1, <1>2
<1>5. Len(Passed)' = Fitting(c)'
  BY <1>4 DEF Ordered
<1>6. ASSUME NEW i \in 1 .. c, Fits(sent'[i])
      PROVE  Passed'[Fitting(i)'] = Bytes(sent'[i])
  <2>1. sent'[i] = sent[i] /\ Fitting(i)' = Fitting(i)
    BY <1>2, <1>3
  <2>2. Fits(sent[i])
    BY <1>6, <2>1
  <2>3. Passed[Fitting(i)] = Bytes(sent[i])
    BY <2>2 DEF Ordered
  <2> QED BY <2>1, <2>3
<1> QED BY <1>5, <1>6 DEF Ordered

(* A packet too large is dealt with when its header is read.               *)
LEMMA OrderedSkip ==
  ASSUME NEW c \in Nat, Ordered(c), ~ Fits(sent[c + 1])
  PROVE  Ordered(c + 1)
<1>1. Fitting(c + 1) = Fitting(c) + 0
  BY FittingNext
<1>2. Fitting(c + 1) = Fitting(c)
  BY <1>1, FittingType
<1>3. \A i \in 1 .. c + 1 : i \in 1 .. c \/ i = c + 1
  OBVIOUS
<1> QED BY <1>2, <1>3 DEF Ordered

LEMMA OrderedNext ==
  ASSUME Typed, NEW c \in Nat, Ordered(c), Fits(sent[c + 1]), UNCHANGED sent,
         NEW x \in Seq(Byte), x = Bytes(sent[c + 1]), Passed' = Append(Passed, x)
  PROVE  Ordered(c + 1)'
<1>1. /\ Fitting(c + 1) = Fitting(c) + 1 /\ Fitting(c) \in Nat /\ Fitting(0) = 0
      /\ Len(Passed) = Fitting(c)
  BY FittingNext, FittingType, FittingNone DEF Ordered
<1>2. /\ Len(Passed') = Len(Passed) + 1 /\ Passed'[Len(Passed) + 1] = x
      /\ \A k \in 1 .. Len(Passed) : Passed'[k] = Passed[k]
  BY PassedType, AppendFacts
<1>3. \A i : Fitting(i)' = Fitting(i)
  BY DEF Fitting
<1>4. ASSUME NEW i \in 1 .. c + 1, Fits(sent[i])
      PROVE  Passed'[Fitting(i)] = Bytes(sent[i])
  <2>1. CASE i = c + 1
    BY <1>1, <1>2, <2>1
  <2>2. CASE i # c + 1
    <3>1. i \in 1 .. c /\ i \in Nat /\ 0 \in Nat /\ 0 < i /\ i <= c
      BY <2>2
    <3>2. Fitting(0) < Fitting(i) /\ Fitting(i) <= Fitting(c) /\ Fitting(i) \in Nat
      BY <1>4, <3>1, FittingBefore, FittingGrows, FittingType
    <3>3. Fitting(i) \in 1 .. Len(Passed)
      BY <1>1, <3>2
    <3>4. Passed[Fitting(i)] = Bytes(sent[i])
      BY <1>4, <3>1 DEF Ordered
    <3> QED BY <1>2, <3>3, <3>4
  <2> QED BY <2>1, <2>2
<1>5. Len(Passed)' = Fitting(c + 1)'
  BY <1>1, <1>2, <1>3
<1>6. ASSUME NEW i \in 1 .. c + 1, Fits(sent'[i])
      PROVE  Passed'[Fitting(i)'] = Bytes(sent'[i])
  BY <1>3, <1>4, <1>6
<1> QED BY <1>5, <1>6 DEF Ordered

(* What was passed on in order are the packets that fit, without a gap.    *)
LEMMA OrderedIsWhole ==
  ASSUME Typed, NEW c \in 0 .. Len(sent), Ordered(c)
  PROVE  PacketsAreWhole
<1>1. Len(sent) \in Nat /\ c \in Nat /\ c <= Len(sent)
  BY DEF Typed
<1>2. Len(Passed) = Fitting(c) /\ Fitting(c) <= Fitting(Len(sent))
  BY <1>1, FittingGrows DEF Ordered
<1>3. ASSUME NEW i \in DOMAIN sent, Fits(sent[i]), Fitting(i) <= Len(Passed)
      PROVE  Passed[Fitting(i)] = Bytes(sent[i])
  <2>1. i \in 1 .. Len(sent) /\ i \in Nat
    BY DEF Typed
  <2>2. CASE i <= c
    <3>1. i \in 1 .. c
      BY <1>1, <2>1, <2>2
    <3> QED BY <1>3, <3>1 DEF Ordered
  <2>3. CASE c < i
    <3>1. Fitting(c) < Fitting(i) /\ Fitting(c) \in Nat /\ Fitting(i) \in Nat
      BY <1>1, <1>3, <2>1, <2>3, FittingBefore, FittingType
    <3> QED BY <1>2, <1>3, <3>1
  <2> QED BY <1>1, <2>1, <2>2, <2>3
<1> QED BY <1>2, <1>3 DEF PacketsAreWhole
-----------------------------------------------------------------------------
(* What the interrupt reads.                                               *)

LEMMA TakeMore ==
  ASSUME NEW S, NEW s \in Seq(S), NEW n \in Nat, NEW k \in Nat, n + k <= Len(s),
         NEW x \in Seq(S), Len(x) = k, \A i \in 1 .. k : x[i] = s[n + i]
  PROVE  SubSeq(s, 1, n) \o x = SubSeq(s, 1, n + k)
<1> DEFINE a == SubSeq(s, 1, n)
           b == SubSeq(s, 1, n + k)
           c == a \o x
<1>0. n \in 0 .. Len(s) /\ n + k \in 0 .. Len(s)
  OBVIOUS
<1>1. a \in Seq(S) /\ Len(a) = n /\ \A i \in 1 .. n : a[i] = s[i]
  BY <1>0, TakeFacts
<1>2. b \in Seq(S) /\ Len(b) = n + k /\ \A i \in 1 .. n + k : b[i] = s[i]
  BY <1>0, TakeFacts
<1> HIDE DEF a, b
<1>3. /\ c \in Seq(S) /\ Len(c) = Len(a) + Len(x)
      /\ \A i \in 1 .. Len(a) : c[i] = a[i]
      /\ \A i \in 1 .. Len(x) : c[Len(a) + i] = x[i]
  <2>1. a \in Seq(S) /\ x \in Seq(S)
    BY <1>1
  <2>2. /\ a \o x \in Seq(S) /\ Len(a \o x) = Len(a) + Len(x)
        /\ \A i \in 1 .. Len(a) : (a \o x)[i] = a[i]
        /\ \A i \in 1 .. Len(x) : (a \o x)[Len(a) + i] = x[i]
    BY ONLY <2>1, ConcatFacts
  <2> QED BY <2>2
<1> HIDE DEF c
<1>4. ASSUME NEW i \in 1 .. Len(c) PROVE c[i] = b[i]
  <2>1. i \in 1 .. n + k
    BY <1>1, <1>3
  <2>2. CASE i <= n
    <3>1. i \in 1 .. n
      BY <2>1, <2>2
    <3> QED BY <1>1, <1>2, <1>3, <2>1, <3>1
  <2>3. CASE n < i
    <3>1. i - n \in 1 .. k /\ n + (i - n) = i
      BY <2>1, <2>3
    <3>2. c[n + (i - n)] = x[i - n] /\ x[i - n] = s[n + (i - n)]
      BY <1>1, <1>3, <3>1
    <3> QED BY <1>2, <2>1, <3>1, <3>2
  <2>4. i <= n \/ n < i
    BY <2>1
  <2> QED BY ONLY <2>2, <2>3, <2>4
<1>5. Len(c) = Len(b)
  BY <1>1, <1>2, <1>3
<1>6. c = b
  BY <1>2, <1>3, <1>4, <1>5, SeqEqual
<1> QED BY <1>6 DEF a, b, c

LEMMA StreamFacts ==
  ASSUME Typed
  PROVE  /\ line \in Seq(Byte) /\ sending \in Seq(Byte) /\ line \o sending \in Seq(Byte)
         /\ Len(line \o sending) = Len(line) + Len(sending)
         /\ \A k \in 1 .. Len(line) : (line \o sending)[k] = line[k]
         /\ Len(line) \in Nat /\ Len(sending) \in Nat
         /\ sent \in Seq(Packet) /\ Len(sent) \in Nat
<1>1. line \in Seq(Byte) /\ sending \in Seq(Byte) /\ sent \in Seq(Packet)
  BY DEF Typed
<1> QED BY <1>1, ConcatFacts

LEMMA StreamDrop ==
  ASSUME Typed, NEW n \in 0 .. Len(line), line' = SubSeq(line, n + 1, Len(line)),
         UNCHANGED sending
  PROVE  (line \o sending)' = SubSeq(line \o sending, n + 1, Len(line \o sending))
<1>1. line \in Seq(Byte) /\ sending \in Seq(Byte)
  BY DEF Typed
<1>2. SubSeq(line, n + 1, Len(line)) \o sending
        = SubSeq(line \o sending, n + 1, Len(line \o sending))
  BY <1>1, DropConcat
<1> QED BY <1>2

LEMMA LeftType ==
  ASSUME Typed, NEW d \in 0 .. Len(sent), isr = "header" => d >= 1
  PROVE  /\ Left(d) \in Nat /\ (isr = "header" => Left(d) > 0)
         /\ d >= 1 => sent[d] \in Packet /\ sent[d].len \in Nat /\ Size(sent[d]) = 2 + sent[d].len
<1>1. sent \in Seq(Packet) /\ remaining \in Nat /\ Len(sent) \in Nat
  BY DEF Typed
<1>2. d >= 1 => sent[d] \in Packet
  BY <1>1
<1>3. d >= 1 => sent[d].len \in Nat
  BY <1>2, HciAssumption DEF Packet
<1> QED BY <1>1, <1>2, <1>3 DEF Left, Size

LEMMA ReadsBegins ==
  ASSUME Typed, NEW d \in 0 .. Len(sent), Reads(d), NEW p \in Packet, HostBegins(p)
  PROVE  Reads(d)'
<1>1. /\ sending = <<>> /\ sent' = Append(sent, p)
      /\ sending' = Tail(Bytes(p)) /\ line' = Append(line, Head(Bytes(p)))
      /\ UNCHANGED <<isr, buf, remaining, filled, tx_queue, handed>>
  BY DEF HostBegins, isrVars, threadVars
<1>2. Len(sent) \in Nat /\ d \in Nat /\ d <= Len(sent) /\ sent \in Seq(Packet) /\ line \in Seq(Byte)
  BY StreamFacts
<1>3. d >= 1 => sent'[d] = sent[d]
  BY <1>1, <1>2
<1>4. isr = "header" => d >= 1
  BY DEF Reads
<1>5. Left(d)' = Left(d) /\ Left(d) \in Nat
  BY <1>1, <1>3, <1>4, LeftType DEF Left
<1>6. (line \o sending)' = (line \o sending) \o Bytes(p)
  <2> DEFINE x == Bytes(p)
  <2>1. x \in Seq(Byte) /\ Len(x) >= 2
    BY BytesFacts
  <2> HIDE DEF x
  <2>2. Append(line, Head(x)) \o Tail(x) = line \o x
    <3>1. Head(x) \in Byte /\ Tail(x) \in Seq(Byte) /\ <<Head(x)>> \in Seq(Byte)
          /\ x = <<Head(x)>> \o Tail(x)
      BY <2>1
    <3>2. Append(line, Head(x)) = line \o <<Head(x)>>
      BY <1>2, <3>1, AppendIsConcat
    <3>3. (line \o <<Head(x)>>) \o Tail(x) = line \o (<<Head(x)>> \o Tail(x))
      BY <1>2, <3>1, ConcatAssociative
    <3> QED BY <3>1, <3>2, <3>3
  <2>3. line \o sending = line
    BY <1>1, <1>2
  <2> QED BY <1>1, <2>2, <2>3 DEF x
<1>7. Framed((line \o sending)', sent', d, Left(d)')
  <2>1. Framed(line \o sending, sent, d, Left(d))
    BY DEF Reads
  <2>2. Framed((line \o sending) \o Bytes(p), Append(sent, p), d, Left(d))
    BY <1>2, <1>5, <2>1, StreamFacts, FramedMore
  <2> QED BY <1>1, <1>5, <1>6, <2>2
<1>8. FlowInv(d)'
  BY FlowBegins DEF Reads
<1>9. Ordered(Done(d))'
  <2>1. Done(d) \in 0 .. Len(sent)
    <3>1. buf # "none" => d >= 1
      BY DEF Reads, Filling
    <3> QED BY <1>2, <3>1 DEF Done
  <2>2. Done(d)' = Done(d) /\ Passed' = Passed
    BY <1>1 DEF Done, Passed
  <2> DEFINE c == Done(d)
  <2>3. c \in 0 .. Len(sent) /\ Ordered(c)
    BY <2>1 DEF Reads
  <2>4. \A e \in 0 .. Len(sent) : Ordered(e) => Ordered(e)'
    BY <1>1, <2>2, OrderedMore
  <2> QED BY <1>1, <2>2, <2>3, <2>4 DEF Done
<1>10. Filling(d)'
  <2>1. CASE d >= 1
    BY <1>1, <1>3, <1>5, <2>1 DEF Reads, Filling, Fits
  <2>2. CASE d = 0
    <3>1. Left(d) = 0
      <4>1. Left(d) > 0 => d \in 1 .. Len(sent)
        <5>1. Framed(line \o sending, sent, d, Left(d)) /\ line \o sending \in Seq(Byte)
          BY StreamFacts DEF Reads
        <5> QED BY <1>2, <1>5, <5>1, FramedBytes
      <4> QED BY <1>5, <2>2, <4>1
    <3>2. isr # "header" /\ remaining = 0
      BY <1>4, <2>2, <3>1 DEF Left
    <3>3. buf = "none"
      BY <2>2 DEF Reads, Filling
    <3> QED BY <1>1, <3>2, <3>3 DEF Filling
  <2> QED BY <1>2, <2>1, <2>2
<1> QED BY <1>1, <1>4, <1>7, <1>8, <1>9, <1>10 DEF Reads

LEMMA DoneType ==
  ASSUME Typed, NEW d \in 0 .. Len(sent), Reads(d)
  PROVE  Done(d) \in 0 .. Len(sent) /\ Ordered(Done(d))
<1>1. Len(sent) \in Nat
  BY StreamFacts
<1>2. buf # "none" => d >= 1
  BY DEF Reads, Filling
<1> QED BY <1>1, <1>2 DEF Done, Reads

(* Nothing that ReadInv is about changes, but for the flow control.        *)
LEMMA ReadsFrame ==
  ASSUME Typed, NEW d \in 0 .. Len(sent), Reads(d), FlowInv(d)',
         UNCHANGED <<sent, isr, remaining, buf, filled>>,
         (line \o sending)' = line \o sending, Passed' = Passed
  PROVE  Reads(d)'
<1>1. Left(d)' = Left(d) /\ Done(d)' = Done(d)
  BY DEF Left, Done
<1>2. Framed((line \o sending)', sent', d, Left(d)')
  BY <1>1 DEF Reads
<1>3. Ordered(Done(d))'
  <2>1. \A c : Ordered(c) => Ordered(c)'
    BY OrderedFrame
  <2>2. Ordered(Done(d))
    BY DEF Reads
  <2> QED BY <1>1, <2>1, <2>2
<1>4. Filling(d)'
  BY <1>1 DEF Reads, Filling
<1> QED BY <1>1, <1>2, <1>3, <1>4 DEF Reads

LEMMA ReadsContinues ==
  ASSUME Typed, NEW d \in 0 .. Len(sent), Reads(d), HostContinues
  PROVE  Reads(d)'
<1>1. /\ sending # <<>> /\ line' = Append(line, Head(sending)) /\ sending' = Tail(sending)
      /\ UNCHANGED <<sent, credits, isr, remaining, buf, filled, tx_queue, handed,
                     rx_queue, started, faults>>
  BY DEF HostContinues, isrVars, threadVars
<1>2. (line \o sending)' = line \o sending
  <2> DEFINE x == sending
  <2>1. line \in Seq(Byte) /\ x \in Seq(Byte) /\ x # <<>>
    BY <1>1, StreamFacts
  <2>2. line' \o sending' = Append(line, Head(x)) \o Tail(x)
    BY <1>1
  <2> HIDE DEF x
  <2>3. /\ Head(x) \in Byte /\ Tail(x) \in Seq(Byte) /\ <<Head(x)>> \in Seq(Byte)
        /\ x = <<Head(x)>> \o Tail(x)
    BY <2>1
  <2>4. Append(line, Head(x)) = line \o <<Head(x)>>
    BY <2>1, <2>3, AppendIsConcat
  <2>5. (line \o <<Head(x)>>) \o Tail(x) = line \o (<<Head(x)>> \o Tail(x))
    BY <2>1, <2>3, ConcatAssociative
  <2>6. Append(line, Head(x)) \o Tail(x) = line \o x
    BY <2>3, <2>4, <2>5
  <2> QED BY <2>2, <2>6 DEF x
<1>3. FlowInv(d)'
  BY <1>1, FlowFrame DEF Reads
<1>4. Passed' = Passed
  BY <1>1 DEF Passed
<1> QED BY <1>1, <1>2, <1>3, <1>4, ReadsFrame

(* The type byte is that of the packet after those that were begun.        *)
LEMMA StartFacts ==
  ASSUME Typed, IsrInv, NEW d \in 0 .. Len(sent), Reads(d), ReadType
  PROVE  /\ d < Len(sent) /\ d + 1 \in 1 .. Len(sent) /\ sent[d + 1] \in Packet
         /\ sent[d + 1].type \in Types
         /\ Head(line) = Bytes(sent[d + 1])[1]
         /\ AsType(Head(line)) = {sent[d + 1].type}
         /\ Framed((line \o sending)', sent, d + 1, Size(sent[d + 1]) - 1)
<1> DEFINE s == line \o sending
<1>1. /\ line # <<>> /\ line' = Tail(line) /\ isr = "idle" /\ remaining = 0
      /\ UNCHANGED sending
  BY DEF ReadType, hostVars
<1>2. /\ s \in Seq(Byte) /\ line \in Seq(Byte) /\ Len(line) \in Nat /\ Len(line) >= 1
      /\ Len(s) >= 1 /\ s[1] = line[1] /\ s # <<>>
      /\ sent \in Seq(Packet) /\ Len(sent) \in Nat /\ d \in Nat /\ d <= Len(sent)
  <2>1. /\ line \in Seq(Byte) /\ s \in Seq(Byte) /\ Len(s) = Len(line) + Len(sending)
        /\ \A k \in 1 .. Len(line) : s[k] = line[k]
        /\ Len(line) \in Nat /\ Len(sending) \in Nat
        /\ sent \in Seq(Packet) /\ Len(sent) \in Nat
    BY StreamFacts
  <2> HIDE DEF s
  <2>2. Len(line) >= 1
    BY <1>1, <2>1
  <2>3. 1 \in 1 .. Len(line) /\ Len(s) >= 1
    BY <2>1, <2>2
  <2>4. s # <<>>
    BY <2>1, <2>3
  <2> QED BY <2>1, <2>2, <2>3, <2>4
<1>3. Head(line) = line[1] /\ line' = SubSeq(line, 1 + 1, Len(line)) /\ 1 \in 0 .. Len(line)
  BY <1>1, LineFacts
<1>4. Framed(s, sent, d, 0)
  <2>1. Left(d) = 0
    BY <1>1 DEF Left
  <2> QED BY <2>1 DEF Reads
<1>5. s' = SubSeq(s, 1 + 1, Len(s))
  BY <1>1, <1>3, StreamDrop
<1> HIDE DEF s
<1>6. /\ d < Len(sent) /\ s[1] = Bytes(sent[d + 1])[1]
      /\ Framed(SubSeq(s, 2, Len(s)), sent, d + 1, Size(sent[d + 1]) - 1)
  BY <1>2, <1>4, FramedStart
<1>7. d + 1 \in 1 .. Len(sent) /\ 1 + 1 = 2
  BY <1>2, <1>6
<1>8. sent[d + 1] \in Packet
  BY <1>2, <1>7
<1>9. sent[d + 1].type \in Types
  BY <1>8 DEF Packet
<1>10. Bytes(sent[d + 1])[1] = [part |-> "type", packet |-> sent[d + 1]]
  BY <1>8, BytesFacts
<1>11. Head(line) = [part |-> "type", packet |-> sent[d + 1]]
  BY <1>2, <1>3, <1>6, <1>10
<1>12. AsType(Head(line)) = {sent[d + 1].type}
  BY <1>11 DEF AsType
<1>13. Framed(s', sent, d + 1, Size(sent[d + 1]) - 1)
  BY <1>5, <1>6, <1>7
<1> QED BY <1>2, <1>3, <1>6, <1>7, <1>8, <1>9, <1>12, <1>13 DEF s

(* The first bytes of a packet that came before the others.                *)
LEMMA FirstByte ==
  ASSUME NEW p \in Packet
  PROVE  SubSeq(Bytes(p), 1, 1) = <<Bytes(p)[1]>>
<1> DEFINE x == Bytes(p)
<1>1. x \in Seq(Byte) /\ Len(x) >= 2
  BY BytesFacts
<1> HIDE DEF x
<1>2. 1 \in 0 .. Len(x) /\ x[1] \in Byte
  BY <1>1
<1> DEFINE a == SubSeq(x, 1, 1)
           b == <<x[1]>>
<1>3. a \in Seq(Byte) /\ Len(a) = 1 /\ a[1] = x[1]
  BY <1>1, <1>2, TakeFacts
<1>4. b \in Seq(Byte) /\ Len(b) = 1 /\ b[1] = x[1]
  BY <1>2
<1> HIDE DEF a, b
<1>5. \A k \in 1 .. Len(a) : a[k] = b[k]
  BY <1>3, <1>4
<1>6. a = b
  BY <1>3, <1>4, <1>5, SeqEqual
<1> QED BY <1>6 DEF a, b, x

LEMMA ReadsType ==
  ASSUME Typed, IsrInv, PoolInv, NEW d \in 0 .. Len(sent), Reads(d), ReadType,
         ~ starved
  PROVE  \/ starved' = TRUE /\ "flood" \in faults
         \/ starved' = FALSE /\ Reads(d + 1)'
<1> DEFINE p == sent[d + 1]
           t == sent[d + 1].type
<1>1. /\ d < Len(sent) /\ d + 1 \in 1 .. Len(sent) /\ p \in Packet /\ t \in Types
      /\ Head(line) = Bytes(p)[1] /\ AsType(Head(line)) = {t}
      /\ Framed((line \o sending)', sent, d + 1, Size(p) - 1)
  BY StartFacts
<1>2. /\ isr = "idle" /\ remaining = 0 /\ buf = "none" /\ d \in Nat
      /\ UNCHANGED <<sent, remaining, tx_queue, handed, credits, rx_queue, started, faults>>
  BY DEF ReadType, IsrInv, hostVars, threadVars
<1>3. IF free[t] > 0
        THEN buf' = t /\ filled' = <<Head(line)>> /\ isr' = "header" /\ starved' = FALSE
        ELSE starved' = TRUE
  <2>1. PICK u \in AsType(Head(line)) :
          IF u \in Types /\ free[u] > 0
            THEN /\ free' = [free EXCEPT ![u] = @ - 1]
                 /\ buf' = u /\ filled' = <<Head(line)>> /\ isr' = "header"
                 /\ UNCHANGED starved
            ELSE /\ starved' = (starved \/ u \in Types)
                 /\ buf' = "none"
                 /\ UNCHANGED <<free, filled, isr>>
    BY DEF ReadType
  <2>2. u = t
    BY <1>1, <2>1
  <2>3. CASE free[t] > 0
    <3>1. buf' = t /\ filled' = <<Head(line)>> /\ isr' = "header" /\ starved' = starved
      BY <1>1, <2>1, <2>2, <2>3
    <3>2. starved' = FALSE
      BY <3>1 DEF Typed
    <3> QED BY <2>3, <3>1, <3>2
  <2>4. CASE ~ (free[t] > 0)
    <3>1. starved' = (starved \/ t \in Types)
      BY <2>1, <2>2, <2>4
    <3>2. starved' = TRUE
      BY <1>1, <3>1
    <3> QED BY <2>4, <3>2
  <2> QED BY <2>3, <2>4
<1>4. CASE ~ (free[t] > 0)
  <2>1. "flood" \in faults
    <3>1. FlowInv(d)
      BY DEF Reads
    <3> QED BY <1>1, <1>2, <1>4, <3>1, FlowFinds
  <2> QED BY <1>3, <1>4, <2>1
<1>5. CASE free[t] > 0
  <2>1. buf' = t /\ filled' = <<Bytes(p)[1]>> /\ isr' = "header" /\ t # "none"
    BY <1>1, <1>3, <1>5 DEF Types
  <2>2. p.len \in Nat /\ Size(p) = 2 + p.len
    BY <1>1, HciAssumption DEF Packet, Size
  <2>3. Left(d + 1)' = 1 + p.len /\ Size(p) - 1 = 1 + p.len
    BY <1>2, <2>1, <2>2 DEF Left
  <2>4. Framed((line \o sending)', sent', d + 1, Left(d + 1)')
    BY <1>1, <1>2, <2>3
  <2>5. FlowInv(d + 1)'
    <3>1. FlowInv(d)
      BY DEF Reads
    <3> QED BY <1>1, <1>2, <2>1, <3>1, FlowReadsType
  <2>6. Ordered(Done(d + 1))'
    <3>1. Done(d) = d /\ Done(d + 1)' = d /\ Passed' = Passed
      BY <1>2, <2>1 DEF Done, Passed
    <3>2. Ordered(d)
      BY <3>1 DEF Reads
    <3>3. Ordered(d)'
      BY <1>2, <3>1, <3>2, OrderedFrame
    <3>4. \A c : c = d => Ordered(c)'
      BY <3>3
    <3> QED BY <3>1, <3>4
  <2>7. Filling(d + 1)'
    <3>1. Size(p) - Left(d + 1)' = 1
      BY <2>2, <2>3
    <3>2. filled' = SubSeq(Bytes(p), 1, 1)
      BY <1>1, <2>1, FirstByte
    <3>3. d + 1 >= 1
      BY <1>2
    <3> QED BY <1>2, <2>1, <3>1, <3>2, <3>3 DEF Filling
  <2>8. d + 1 >= 1 /\ starved' = FALSE
    BY <1>2, <1>3, <1>5
  <2> QED BY <2>4, <2>5, <2>6, <2>7, <2>8 DEF Reads
<1> QED BY <1>4, <1>5

(* Bytes of the packet being read leave the line.                          *)
LEMMA ReadsFramed ==
  ASSUME Typed, NEW d \in 0 .. Len(sent), Reads(d), NEW n \in 0 .. Len(line), n <= Left(d),
         line' = SubSeq(line, n + 1, Len(line)), UNCHANGED <<sending, sent>>,
         Left(d)' = Left(d) - n
  PROVE  Framed((line \o sending)', sent', d, Left(d)')
<1> DEFINE s == line \o sending
           r == Left(d)
<1>1. s \in Seq(Byte) /\ sent \in Seq(Packet)
  BY StreamFacts
<1>2. s' = SubSeq(s, n + 1, Len(s))
  BY StreamDrop
<1>3. Framed(s, sent, d, r) /\ (isr = "header" => d >= 1)
  BY DEF Reads
<1>4. r \in Nat /\ n \in 0 .. r
  <2>1. r \in Nat
    BY <1>3, LeftType
  <2> QED BY <2>1, StreamFacts
<1>5. Left(d)' = r - n
  OBVIOUS
<1> HIDE DEF s, r
<1>6. Framed(SubSeq(s, n + 1, Len(s)), sent, d, r - n)
  BY <1>1, <1>3, <1>4, FramedDrop
<1>7. Framed(s', sent', d, Left(d)')
  BY <1>2, <1>5, <1>6
<1> QED BY <1>7 DEF s

(* The bytes of the packet being read that have come.                      *)
LEMMA ReadsBytes ==
  ASSUME Typed, NEW d \in 0 .. Len(sent), Reads(d), Left(d) > 0
  PROVE  /\ d \in 1 .. Len(sent) /\ sent[d] \in Packet /\ Left(d) < Size(sent[d])
         /\ Left(d) \in Nat /\ Size(sent[d]) \in Nat /\ Size(sent[d]) = 2 + sent[d].len
         /\ sent[d].len \in Nat
         /\ \A k \in 1 .. Left(d) : k <= Len(line) =>
              line[k] = Bytes(sent[d])[Size(sent[d]) - Left(d) + k]
<1> DEFINE s == line \o sending
           r == Left(d)
<1>1. /\ s \in Seq(Byte) /\ sent \in Seq(Packet) /\ Len(line) \in Nat
      /\ \A k \in 1 .. Len(line) : s[k] = line[k]
  BY StreamFacts
<1>2. Framed(s, sent, d, r) /\ (isr = "header" => d >= 1)
  BY DEF Reads
<1>3. r \in Nat /\ r > 0
  BY <1>2, LeftType
<1> HIDE DEF s, r
<1>4. /\ d \in 1 .. Len(sent) /\ r < Size(sent[d])
      /\ \A k \in 1 .. r : s[k] = Bytes(sent[d])[Size(sent[d]) - r + k]
  BY <1>1, <1>2, <1>3, FramedBytes
<1>5. sent[d] \in Packet
  BY <1>1, <1>4
<1>6. sent[d].len \in Nat /\ Size(sent[d]) = 2 + sent[d].len /\ Size(sent[d]) \in Nat
  <2> DEFINE p == sent[d]
  <2>1. p \in Packet
    BY <1>5
  <2> HIDE DEF p
  <2>2. p.len \in Lengths /\ Lengths \subseteq Nat
    BY <2>1, HciAssumption DEF Packet
  <2>3. Size(p) = 2 + p.len
    BY DEF Size
  <2>4. p.len \in Nat
    BY <2>2
  <2>5. Size(p) \in Nat
    BY <2>3, <2>4
  <2> QED BY <2>3, <2>4, <2>5 DEF p
<1>7. ASSUME NEW k \in 1 .. r, k <= Len(line)
      PROVE  line[k] = Bytes(sent[d])[Size(sent[d]) - r + k]
  <2>1. k \in 1 .. Len(line)
    BY <1>1, <1>3, <1>7
  <2> QED BY <1>1, <1>4, <2>1
<1> QED BY <1>3, <1>4, <1>5, <1>6, <1>7 DEF r

LEMMA ReadsHeader ==
  ASSUME Typed, IsrInv, NEW d \in 0 .. Len(sent), Reads(d), ReadHeader
  PROVE  Reads(d)'
<1> DEFINE p == sent[d]
<1>1. /\ isr = "header" /\ line # <<>> /\ line' = Tail(line) /\ isr' = "body"
      /\ UNCHANGED <<sent, sending, credits, tx_queue, handed, rx_queue, started, faults>>
      /\ \E len \in AsLength(Head(line)) :
           /\ remaining' = len
           /\ \/ len > Room /\ buf' = "none"
              \/ len <= Room /\ filled' = Append(filled, Head(line)) /\ buf' = buf
  BY DEF ReadHeader, hostVars, threadVars
<1>2. buf # "none" /\ buf \in Types
  BY <1>1 DEF IsrInv, Typed
<1>3. Left(d) = 1 + p.len
  BY <1>1 DEF Left
<1>4. d >= 1
  BY <1>1 DEF Reads
<1>5. p.len \in Nat
  BY <1>4, LeftType
<1>6. /\ d \in 1 .. Len(sent) /\ p \in Packet /\ Size(p) = 2 + p.len
      /\ \A k \in 1 .. Left(d) : k <= Len(line) => line[k] = Bytes(p)[Size(p) - Left(d) + k]
  <2>1. Left(d) > 0
    BY <1>3, <1>5
  <2> QED BY <2>1, ReadsBytes
<1>7. /\ Head(line) = line[1] /\ line' = SubSeq(line, 1 + 1, Len(line))
      /\ 1 \in 0 .. Len(line) /\ Head(line) \in Byte
  BY <1>1, LineFacts
<1>8. Head(line) = Bytes(p)[2]
  <2>1. 1 \in 1 .. Left(d) /\ 1 <= Len(line) /\ Size(p) - Left(d) + 1 = 2
    BY <1>3, <1>5, <1>6, <1>7
  <2> QED BY <1>6, <1>7, <2>1
<1>9. AsLength(Head(line)) = {p.len}
  <2>1. Bytes(p)[2] = [part |-> "header", packet |-> p]
    BY <1>6, BytesFacts
  <2> QED BY <1>8, <2>1 DEF AsLength
<1>10. /\ remaining' = p.len
       /\ \/ p.len > Room /\ buf' = "none"
          \/ p.len <= Room /\ filled' = Append(filled, Head(line)) /\ buf' = buf
  BY <1>1, <1>9
<1>11. Left(d)' = p.len
  BY <1>1, <1>10 DEF Left
<1>12. Framed((line \o sending)', sent', d, Left(d)')
  <2>1. 1 <= Left(d) /\ Left(d)' = Left(d) - 1
    BY <1>3, <1>5, <1>11
  <2> QED BY <1>1, <1>7, <2>1, ReadsFramed
<1>13. Passed' = Passed /\ \A c : Ordered(c) => Ordered(c)'
  <2>1. Passed' = Passed
    BY <1>1 DEF Passed
  <2> QED BY <1>1, <2>1, OrderedFrame
<1>14. Done(d) = d - 1 /\ Ordered(d - 1)
  BY <1>2 DEF Done, Reads
<1>15. FlowInv(d)
  BY DEF Reads
<1>16. CASE p.len > Room /\ buf' = "none"
  <2>1. FlowInv(d)'
    BY <1>1, <1>2, <1>15, <1>16, FlowReads
  <2>2. ~ Fits(p)
    BY <1>5, <1>16, HciAssumption DEF Fits
  <2>3. Ordered(d)
    <3>1. d - 1 \in Nat /\ (d - 1) + 1 = d
      BY <1>4
    <3>2. Ordered((d - 1) + 1)
      BY <1>14, <2>2, <3>1, OrderedSkip
    <3> QED BY <3>1, <3>2
  <2>4. Ordered(Done(d))'
    <3>1. Done(d)' = d
      BY <1>16 DEF Done
    <3>2. Ordered(d)'
      BY <1>13, <2>3
    <3>3. \A c : c = d => Ordered(c)'
      BY <3>2
    <3> QED BY <3>1, <3>3
  <2>5. Filling(d)'
    <3>1. ~ Fits(sent'[d])
      BY <1>1, <2>2
    <3> QED BY <1>16, <3>1 DEF Filling, Fits
  <2> QED BY <1>1, <1>12, <2>1, <2>4, <2>5 DEF Reads
<1>17. CASE p.len <= Room /\ filled' = Append(filled, Head(line)) /\ buf' = buf
  <2>1. FlowInv(d)'
    BY <1>1, <1>15, <1>17, FlowFrame
  <2>2. Ordered(Done(d))'
    <3>1. Done(d)' = d - 1
      BY <1>2, <1>17 DEF Done
    <3>2. Ordered(d - 1)'
      BY <1>13, <1>14
    <3>3. \A c : c = d - 1 => Ordered(c)'
      BY <3>2
    <3> QED BY <3>1, <3>3
  <2>3. filled' = SubSeq(Bytes(p), 1, Size(p) - p.len)
    <3> DEFINE s == Bytes(p)
               b == Head(line)
               x == <<b>>
    <3>1. s \in Seq(Byte) /\ Len(s) = Size(p)
      BY <1>6, BytesFacts
    <3>2. filled = SubSeq(s, 1, 1)
      <4>1. filled = SubSeq(s, 1, Size(p) - Left(d))
        BY <1>2 DEF Reads, Filling
      <4>2. Size(p) - Left(d) = 1
        BY <1>3, <1>5, <1>6
      <4> QED BY <4>1, <4>2
    <3>3. filled \in Seq(Byte) /\ b \in Byte /\ b = s[2]
      BY <1>7, <1>8 DEF Typed
    <3>4. Size(p) \in Nat /\ Size(p) >= 2 /\ Size(p) - p.len = 2
      BY <1>5, <1>6
    <3> HIDE DEF s, b
    <3>5. x \in Seq(Byte) /\ Len(x) = 1 /\ x[1] = s[1 + 1]
      BY <3>3
    <3> HIDE DEF x
    <3>6. SubSeq(s, 1, 1) \o x = SubSeq(s, 1, 1 + 1)
      <4>1. 1 \in Nat /\ 1 + 1 <= Len(s) /\ \A i \in 1 .. 1 : x[i] = s[1 + i]
        BY <3>1, <3>4, <3>5
      <4> QED BY <3>1, <3>5, <4>1, TakeMore
    <3>7. Append(filled, b) = filled \o x
      BY <3>3, AppendIsConcat DEF x
    <3>8. Append(filled, b) = SubSeq(s, 1, 2)
      BY <3>2, <3>6, <3>7
    <3> QED BY <1>17, <3>4, <3>8 DEF s, b
  <2>4. Filling(d)'
    <3>1. Fits(p)
      BY <1>17 DEF Fits
    <3>2. buf = p.type
      BY <1>2 DEF Reads, Filling
    <3> QED BY <1>1, <1>2, <1>4, <1>11, <1>17, <2>3, <3>1, <3>2 DEF Filling, Fits
  <2> QED BY <1>1, <1>12, <2>1, <2>2, <2>4 DEF Reads
<1> QED BY <1>10, <1>16, <1>17

(* What of a packet too large is thrown away.                              *)
LEMMA ReadsDiscard ==
  ASSUME Typed, IsrInv, NEW d \in 0 .. Len(sent), Reads(d), DiscardPayload
  PROVE  Reads(d)'
<1> DEFINE n == DiscardSome
<1>1. n \in 0 .. Len(line) /\ n <= remaining /\ n \in Int
  <2>1. n \in 0 .. Len(line) /\ n <= remaining
    BY TakesFacts
  <2> HIDE DEF n
  <2> QED BY <2>1
<1>2. /\ isr # "header" /\ isr' = "idle" /\ buf = "none" /\ buf' = "none"
      /\ line' = SubSeq(line, n + 1, Len(line))
      /\ remaining' = IF n > remaining THEN 0 ELSE remaining - n
      /\ UNCHANGED <<sent, sending, credits, tx_queue, handed, rx_queue, started, faults>>
  BY DEF DiscardPayload, AtPayload, hostVars, threadVars
<1> HIDE DEF n
<1>3. remaining \in Nat
  BY DEF Typed
<1>4. remaining' = remaining - n
  BY <1>1, <1>2, <1>3
<1>5. Left(d) = remaining /\ Left(d)' = Left(d) - n
  BY <1>2, <1>4 DEF Left
<1>6. Framed((line \o sending)', sent', d, Left(d)')
  BY <1>1, <1>2, <1>5, ReadsFramed
<1>7. FlowInv(d)'
  <2>1. FlowInv(d)
    BY DEF Reads
  <2> QED BY <1>2, <2>1, FlowFrame
<1>8. Ordered(Done(d))'
  <2>1. Passed' = Passed
    BY <1>2 DEF Passed
  <2>2. \A c : Ordered(c) => Ordered(c)'
    BY <1>2, <2>1, OrderedFrame
  <2>3. Done(d)' = Done(d) /\ Ordered(Done(d))
    BY <1>2 DEF Done, Reads
  <2> QED BY <2>2, <2>3
<1>9. Filling(d)'
  <2>1. remaining' > 0 => ~ Fits(sent[d])
    <3>1. remaining' > 0 => remaining > 0
      BY <1>1, <1>3, <1>4
    <3> QED BY <1>2, <3>1 DEF Reads, Filling
  <2> QED BY <1>2, <2>1 DEF Filling, Fits
<1> QED BY <1>2, <1>6, <1>7, <1>8, <1>9 DEF Reads

(* What of the packet being read is in the buffer then.                    *)
LEMMA ReadsTakes ==
  ASSUME Typed, NEW d \in 0 .. Len(sent), Reads(d), buf # "none", isr # "header",
         NEW n \in 0 .. Len(line), n <= remaining
  PROVE  /\ d \in 1 .. Len(sent) /\ sent[d] \in Packet /\ Size(sent[d]) \in Nat
         /\ remaining \in Nat /\ remaining < Size(sent[d])
         /\ filled \o SubSeq(line, 1, n) = SubSeq(Bytes(sent[d]), 1, Size(sent[d]) - remaining + n)
<1> DEFINE p == sent[d]
           s == Bytes(p)
           x == SubSeq(line, 1, n)
           r == remaining
           m == Size(p) - r
<1>1. Left(d) = r /\ r \in Nat
  BY DEF Left, Typed
<1>2. d >= 1 /\ filled = SubSeq(s, 1, m)
  BY <1>1 DEF Reads, Filling
<1>3. sent \in Seq(Packet) /\ line \in Seq(Byte) /\ Len(sent) \in Nat /\ Len(line) \in Nat
  BY StreamFacts
<1>4. d \in 1 .. Len(sent) /\ p \in Packet
  BY <1>2, <1>3
<1>5. s \in Seq(Byte) /\ Len(s) = Size(p) /\ Size(p) \in Nat /\ Size(p) >= 2
  BY <1>4, BytesFacts
<1>6. r < Size(p)
  <2>1. CASE r > 0
    BY <1>1, <2>1, ReadsBytes
  <2>2. CASE r = 0
    BY <1>5, <2>2
  <2> QED BY <1>1, <2>1, <2>2
<1>7. m \in Nat /\ m + n <= Len(s) /\ n \in Nat
  BY <1>1, <1>3, <1>5, <1>6
<1>8. x \in Seq(Byte) /\ Len(x) = n /\ \A k \in 1 .. n : x[k] = line[k]
  BY <1>3, TakeFacts
<1>9. ASSUME NEW k \in 1 .. n PROVE x[k] = s[m + k]
  <2>1. r > 0 /\ k \in 1 .. r /\ k <= Len(line)
    BY <1>1, <1>3, <1>7
  <2>2. \A i \in 1 .. Left(d) : i <= Len(line) => line[i] = Bytes(p)[Size(p) - Left(d) + i]
    BY <1>1, <2>1, ReadsBytes
  <2>3. line[k] = s[m + k]
    BY <1>1, <2>1, <2>2
  <2> QED BY <1>8, <2>3
<1> HIDE DEF s, x, m, p
<1>10. SubSeq(s, 1, m) \o x = SubSeq(s, 1, m + n)
  BY <1>5, <1>7, <1>8, <1>9, TakeMore
<1> QED BY <1>1, <1>2, <1>4, <1>5, <1>6, <1>10 DEF s, x, m, p

LEMMA WholeBytes ==
  ASSUME NEW p \in Packet
  PROVE  SubSeq(Bytes(p), 1, Size(p)) = Bytes(p)
<1> DEFINE s == Bytes(p)
           a == SubSeq(s, 1, Len(s))
<1>1. s \in Seq(Byte) /\ Len(s) = Size(p)
  BY BytesFacts
<1> HIDE DEF s
<1>2. Len(s) \in 0 .. Len(s)
  BY <1>1
<1>3. a \in Seq(Byte) /\ Len(a) = Len(s) /\ \A k \in 1 .. Len(s) : a[k] = s[k]
  BY <1>1, <1>2, TakeFacts
<1> HIDE DEF a
<1>4. a = s
  BY <1>1, <1>3, SeqEqual
<1> QED BY <1>1, <1>4 DEF a, s

LEMMA ReadsPayload ==
  ASSUME Typed, IsrInv, NEW d \in 0 .. Len(sent), Reads(d), ReadPayload
  PROVE  Reads(d)'
<1> DEFINE p == sent[d]
           n == Min({remaining, Len(line)})
           bytes == filled \o SubSeq(line, 1, n)
<1>1. n \in 0 .. Len(line) /\ n <= remaining /\ n \in Int
  <2>1. n \in 0 .. Len(line) /\ n <= remaining
    BY TakesFacts
  <2> HIDE DEF n
  <2> QED BY <2>1
<1>2. /\ isr # "header" /\ isr' = "idle" /\ buf # "none" /\ buf \in Types
      /\ line' = SubSeq(line, n + 1, Len(line)) /\ remaining' = remaining - n
      /\ UNCHANGED <<sent, sending, credits, handed, rx_queue, started, faults>>
      /\ IF n = remaining
           THEN /\ tx_queue' = Append(tx_queue, [type |-> buf, bytes |-> bytes])
                /\ buf' = "none" /\ filled' = <<>>
           ELSE filled' = bytes /\ UNCHANGED <<tx_queue, buf>>
  BY DEF ReadPayload, AtPayload, hostVars, threadVars, Typed
<1> HIDE DEF n
<1>3. /\ d \in 1 .. Len(sent) /\ p \in Packet /\ Size(p) \in Nat
      /\ remaining \in Nat /\ remaining < Size(p)
      /\ bytes = SubSeq(Bytes(p), 1, Size(p) - remaining + n)
  BY <1>1, <1>2, ReadsTakes
<1> HIDE DEF bytes
<1>4. Left(d) = remaining /\ Left(d)' = Left(d) - n
  BY <1>2 DEF Left
<1>5. Framed((line \o sending)', sent', d, Left(d)')
  BY <1>1, <1>2, <1>4, ReadsFramed
<1>6. FlowInv(d) /\ Done(d) = d - 1 /\ Ordered(d - 1) /\ Fits(p) /\ buf = p.type
  BY <1>2 DEF Reads, Filling, Done
<1>7. CASE n = remaining
  <2> DEFINE e == [type |-> buf, bytes |-> bytes]
             B == Seq(Byte)
  <2>1. bytes = Bytes(p) /\ bytes \in Seq(Byte)
    <3>1. Size(p) - remaining + n = Size(p)
      BY <1>3, <1>7
    <3> QED BY <1>3, <3>1, WholeBytes, BytesFacts
  <2>2. bytes \in B /\ Queueing = [type : Types, bytes : B]
    BY <2>1 DEF Queueing
  <2> HIDE DEF B
  <2>3. e \in Queueing /\ e.type = buf /\ e.bytes = bytes
    BY <1>2, <2>2
  <2>4. tx_queue' = Append(tx_queue, e) /\ buf' = "none" /\ remaining' = 0
    BY <1>2, <1>3, <1>7
  <2> HIDE DEF e
  <2>5. FlowInv(d)'
    BY <1>2, <1>6, <2>3, <2>4, FlowReads
  <2>6. Passed' = Append(Passed, bytes)
    BY <1>2, <2>3, <2>4, PassedMore
  <2>7. Ordered(d)'
    <3>1. d - 1 \in Nat /\ (d - 1) + 1 = d
      BY <1>3
    <3>2. Fits(sent[(d - 1) + 1]) /\ bytes = Bytes(sent[(d - 1) + 1])
      BY <1>6, <2>1, <3>1
    <3>3. Ordered((d - 1) + 1)'
      BY <1>2, <1>6, <2>1, <2>6, <3>1, <3>2, OrderedNext
    <3>4. \A c : c = (d - 1) + 1 => Ordered(c)'
      BY <3>3
    <3> QED BY <3>1, <3>4
  <2>8. Ordered(Done(d))'
    <3>1. Done(d)' = d
      BY <2>4 DEF Done
    <3>2. \A c : c = d => Ordered(c)'
      BY <2>7
    <3> QED BY <3>1, <3>2
  <2>9. Filling(d)'
    BY <2>4 DEF Filling
  <2> QED BY <1>2, <1>5, <2>5, <2>8, <2>9 DEF Reads
<1>8. CASE n # remaining
  <2>1. filled' = bytes /\ UNCHANGED <<tx_queue, buf>>
    BY <1>2, <1>8
  <2>2. FlowInv(d)'
    BY <1>2, <1>6, <2>1, FlowFrame
  <2>3. Ordered(Done(d))'
    <3>1. Passed' = Passed
      BY <1>2, <2>1 DEF Passed
    <3>2. \A c : Ordered(c) => Ordered(c)'
      BY <1>2, <3>1, OrderedFrame
    <3>3. Done(d)' = d - 1
      BY <1>2, <2>1 DEF Done
    <3> QED BY <1>6, <3>2, <3>3
  <2>4. Filling(d)'
    <3>1. Size(p) - remaining + n = Size(p) - (remaining - n)
      BY <1>1, <1>3
    <3>2. filled' = SubSeq(Bytes(p), 1, Size(p) - Left(d)')
      BY <1>3, <1>4, <2>1, <3>1
    <3>3. d >= 1 /\ Fits(sent'[d]) /\ buf' = sent'[d].type /\ buf' # "none" /\ isr' # "header"
      BY <1>2, <1>3, <1>6, <2>1
    <3>4. filled' = SubSeq(Bytes(sent'[d]), 1, Size(sent'[d]) - Left(d)')
      BY <1>2, <3>2
    <3> QED BY <3>3, <3>4 DEF Filling, Fits
  <2> QED BY <1>2, <1>5, <2>2, <2>3, <2>4 DEF Reads
<1> QED BY <1>7, <1>8

(* A thread's step.                                                        *)
LEMMA ReadsThreads ==
  ASSUME Typed, IsrInv, NEW d \in 0 .. Len(sent), Reads(d),
         MainStarts \/ ThreadSends \/ MainWrites \/ MainWritten \/ ControllerAsserts
           \/ UNCHANGED vars
  PROVE  Reads(d)'
<1>1. UNCHANGED <<sent, sending, line, isr, remaining, buf, filled>>
  BY DEF MainStarts, ThreadSends, MainWrites, MainWritten, ControllerAsserts, vars,
         hostVars, isrVars
<1>2. (line \o sending)' = line \o sending
  BY <1>1
<1>3. Passed' = Passed
  <2>1. CASE ThreadSends
    BY <2>1, PassedMoves DEF ThreadSends
  <2>2. CASE UNCHANGED <<tx_queue, handed>>
    BY <2>2 DEF Passed
  <2> QED BY <2>1, <2>2 DEF MainStarts, MainWrites, MainWritten, ControllerAsserts, vars, threadVars
<1>4. FlowInv(d)
  BY DEF Reads
<1>5. FlowInv(d)'
  <2>1. CASE MainStarts
    BY <1>4, <2>1, FlowStarts
  <2>2. CASE ThreadSends
    BY <1>4, <2>2, FlowSends
  <2>3. CASE MainWritten
    BY <1>4, <2>3, FlowWritten
  <2>4. CASE MainWrites \/ ControllerAsserts \/ UNCHANGED vars
    <3>1. /\ UNCHANGED <<credits, sent, buf, tx_queue, rx_queue, started>>
          /\ faults \subseteq faults'
      BY <2>4 DEF MainWrites, ControllerAsserts, vars, hostVars, isrVars, threadVars
    <3> QED BY <1>4, <3>1, FlowFrame
  <2> QED BY <2>1, <2>2, <2>3, <2>4
<1> QED BY <1>1, <1>2, <1>3, <1>5, ReadsFrame
-----------------------------------------------------------------------------
(* The framing survives every step, but for a type byte without a buffer;  *)
(* that takes a packet without a credit.                                   *)
LEMMA ReadStep ==
  ASSUME IInv, [Next]_vars
  PROVE  ReadInv' /\ FlowControlSuffices'
<1> USE DEF hostVars, isrVars, threadVars
<1>1. Typed /\ IsrInv /\ PoolInv /\ (starved => "flood" \in faults) /\ Typed' /\ starved \in BOOLEAN
  BY TypedStep DEF IInv, FlowControlSuffices, Typed
<1>2. faults \subseteq faults'
  BY DEF Next, Host, Interrupt, Threads, HostBegins, HostContinues, ReadType, ReadHeader,
         DiscardPayload, ReadPayload, MainStarts, ThreadSends, MainWrites, MainWritten,
         ControllerAsserts, vars
<1>3. starved => starved'
  BY DEF Next, Host, Interrupt, Threads, HostBegins, HostContinues, ReadType, ReadHeader,
         DiscardPayload, ReadPayload, MainStarts, ThreadSends, MainWrites, MainWritten,
         ControllerAsserts, vars
<1>4. CASE starved
  BY <1>1, <1>2, <1>3, <1>4 DEF ReadInv, FlowControlSuffices
<1>5. CASE ~ starved /\ ReadType
  <2>1. PICK d \in 0 .. Len(sent) : Reads(d)
    BY <1>5 DEF IInv, ReadInv
  <2>2. d < Len(sent) /\ Len(sent) \in Nat /\ d \in Nat
    BY <1>1, <1>5, <2>1, StartFacts, StreamFacts
  <2>3. d + 1 \in 0 .. Len(sent')
    <3>1. sent' = sent
      BY <1>5 DEF ReadType
    <3> QED BY <2>2, <3>1
  <2>4. \/ starved' = TRUE /\ "flood" \in faults
        \/ starved' = FALSE /\ Reads(d + 1)'
    BY <1>1, <1>5, <2>1, ReadsType
  <2>5. Reads(d + 1)' => (\E c \in 0 .. Len(sent) : Reads(c))'
    BY <2>3
  <2> QED BY <1>2, <2>4, <2>5 DEF ReadInv, FlowControlSuffices
<1>6. CASE ~ starved /\ ~ ReadType
  <2>1. PICK d \in 0 .. Len(sent) : Reads(d)
    BY <1>6 DEF IInv, ReadInv
  <2>2. starved' = starved
    BY <1>6 DEF Next, Host, Interrupt, Threads, HostBegins, HostContinues, ReadHeader,
         DiscardPayload, ReadPayload, MainStarts, ThreadSends, MainWrites, MainWritten,
         ControllerAsserts, vars
  <2>3. Reads(d)'
    <3>1. ASSUME NEW p \in Packet, HostBegins(p) PROVE Reads(d)'
      BY <1>1, <2>1, <3>1, ReadsBegins
    <3>2. CASE HostContinues
      BY <1>1, <2>1, <3>2, ReadsContinues
    <3>3. CASE ReadHeader
      BY <1>1, <2>1, <3>3, ReadsHeader
    <3>4. CASE DiscardPayload
      BY <1>1, <2>1, <3>4, ReadsDiscard
    <3>5. CASE ReadPayload
      BY <1>1, <2>1, <3>5, ReadsPayload
    <3>6. CASE MainStarts \/ ThreadSends \/ MainWrites \/ MainWritten \/ ControllerAsserts
               \/ UNCHANGED vars
      BY <1>1, <2>1, <3>6, ReadsThreads
    <3> QED BY <1>6, <3>1, <3>2, <3>3, <3>4, <3>5, <3>6 DEF Next, Host, Interrupt, Threads
  <2>4. d \in 0 .. Len(sent')
    <3>1. sent' = sent \/ \E p \in Packet : sent' = Append(sent, p)
      BY <1>6 DEF Next, Host, Interrupt, Threads, HostBegins, HostContinues, ReadHeader,
           DiscardPayload, ReadPayload, MainStarts, ThreadSends, MainWrites, MainWritten,
           ControllerAsserts, vars
    <3>2. sent \in Seq(Packet) /\ Len(sent) \in Nat
      BY <1>1, StreamFacts
    <3>3. ASSUME NEW p \in Packet, sent' = Append(sent, p) PROVE d \in 0 .. Len(sent')
      BY <3>2, <3>3
    <3> QED BY <3>1, <3>3
  <2>5. Reads(d)' => (\E c \in 0 .. Len(sent) : Reads(c))'
    BY <2>4
  <2> QED BY <1>6, <2>2, <2>3, <2>5 DEF ReadInv, FlowControlSuffices
<1> QED BY <1>1, <1>4, <1>5, <1>6

LEMMA InitInv == Init => IInv
<1> SUFFICES ASSUME Init PROVE IInv
  OBVIOUS
<1> USE DEF Init
<1>1. /\ sent = <<>> /\ sending = <<>> /\ line = <<>> /\ tx_queue = <<>> /\ rx_queue = <<>>
      /\ handed = <<>> /\ filled = <<>> /\ isr = "idle" /\ buf = "none" /\ remaining = 0
      /\ free = Pool /\ starved = FALSE /\ started = FALSE
  OBVIOUS
<1>2. \A S : <<>> \in Seq(S)
  OBVIOUS
<1>3. credits \in [Types -> Nat] /\ free \in [Types -> Nat]
  BY HciAssumption
<1>4. Typed
  <2>1. /\ sent \in Seq(Packet) /\ sending \in Seq(Byte) /\ line \in Seq(Byte)
        /\ filled \in Seq(Byte) /\ tx_queue \in Seq([type : Types, bytes : Seq(Byte)])
        /\ handed \in Seq(Seq(Byte)) /\ rx_queue \in Seq(Types)
    BY <1>1, <1>2, Zenon
  <2>2. /\ isr \in {"idle", "header", "body"} /\ buf \in Types \cup {"none"}
        /\ remaining \in Nat /\ started \in BOOLEAN /\ starved \in BOOLEAN
        /\ writing \in BOOLEAN /\ halted \in BOOLEAN /\ faults \subseteq Faults
    OBVIOUS
  <2> QED BY <1>3, <2>1, <2>2, Zenon DEF Typed
<1>5. IsrInv /\ FlowControlSuffices
  BY <1>1 DEF IsrInv, FlowControlSuffices
<1>6. ASSUME NEW t \in Types
      PROVE  /\ QueuedOf(t) = {} /\ ReportedOf(t) = {} /\ UnreadOf(0, t) = {}
             /\ Held(t) = 0 /\ credits[t] = 0 /\ free[t] = Pool[t] /\ Pool[t] \in Nat
  <2>1. 1 .. 0 = {} /\ 0 + 1 .. 0 = {}
    OBVIOUS
  <2>2. Len(tx_queue) = 0 /\ Len(rx_queue) = 0 /\ Len(sent) = 0
    BY <1>1
  <2>3. QueuedOf(t) = {} /\ ReportedOf(t) = {} /\ UnreadOf(0, t) = {}
    BY <2>1, <2>2 DEF QueuedOf, ReportedOf, UnreadOf
  <2>4. Held(t) = 0
    BY <1>1 DEF Held, Types
  <2>5. Pool[t] \in Nat
    BY HciAssumption
  <2> QED BY <1>1, <2>3, <2>4, <2>5
<1>7. ASSUME NEW t \in Types
      PROVE  /\ Cardinality(QueuedOf(t)) = 0 /\ Cardinality(ReportedOf(t)) = 0
             /\ Cardinality(UnreadOf(0, t)) = 0
  <2>1. Cardinality({}) = 0
    BY FS_EmptySet
  <2> QED BY <1>6, <2>1, Zenon
<1>8. PoolInv
  <2> SUFFICES ASSUME NEW t \in Types
               PROVE  free[t] + Held(t) + Cardinality(QueuedOf(t)) = Pool[t]
    BY DEF PoolInv
  <2>1. free[t] = Pool[t] /\ Held(t) = 0 /\ Cardinality(QueuedOf(t)) = 0 /\ Pool[t] \in Nat
    BY <1>6, <1>7, Zenon
  <2> QED BY ONLY <2>1
<1>9. FlowInv(0)
  <2>1. ASSUME NEW t \in Types PROVE Due(0, t) = 0
    <3>1. /\ credits[t] = 0 /\ Cardinality(UnreadOf(0, t)) = 0 /\ Held(t) = 0
          /\ Cardinality(QueuedOf(t)) = 0 /\ Cardinality(ReportedOf(t)) = 0
      BY <1>6, <1>7, Zenon
    <3>2. Due(0, t) = 0 + 0 + 0 + 0 + 0
      BY <3>1, Zenon DEF Due
    <3> QED BY ONLY <3>2
  <2> QED BY <1>1, <2>1 DEF FlowInv
<1>10. Left(0) = 0 /\ Done(0) = 0
  BY <1>1 DEF Left, Done
<1>11. Framed(line \o sending, sent, 0, Left(0))
  <2>1. line \o sending = <<>>
    BY <1>1
  <2> QED BY <1>1, <1>10, <2>1, FramedEmpty
<1>12. Ordered(0)
  <2>1. Len(Passed) = 0
    <3>1. Passed \in Seq(Seq(Byte)) /\ Passed = handed \o QueuedBytes(tx_queue)
      BY <1>4, PassedType, PassedIs
    <3>2. tx_queue \in Seq(Queueing) /\ handed \in Seq(Seq(Byte))
      BY <1>1, <1>2
    <3>3. QueuedBytes(tx_queue) \in Seq(Seq(Byte)) /\ Len(QueuedBytes(tx_queue)) = Len(tx_queue)
      BY <3>2, QueuedBytesFacts
    <3>4. Len(handed \o QueuedBytes(tx_queue)) = Len(handed) + Len(QueuedBytes(tx_queue))
      BY <3>2, <3>3, ConcatFacts
    <3>5. Len(handed) = 0 /\ Len(tx_queue) = 0
      BY <1>1
    <3> QED BY <3>1, <3>3, <3>4, <3>5
  <2>2. 1 .. 0 = {}
    OBVIOUS
  <2> QED BY <2>1, <2>2, FittingNone DEF Ordered
<1>13. Filling(0)
  BY <1>1 DEF Filling
<1>14. Reads(0)
  BY <1>1, <1>9, <1>10, <1>11, <1>12, <1>13 DEF Reads
<1>15. ReadInv
  <2>1. 0 \in 0 .. Len(sent)
    BY <1>1
  <2> QED BY <1>14, <2>1 DEF ReadInv
<1> QED BY <1>4, <1>5, <1>8, <1>15 DEF IInv

LEMMA StepInv == IInv /\ [Next]_vars => IInv'
BY TypedStep, PoolStep, ReadStep DEF IInv

LEMMA Invariance == Spec => []IInv
BY InitInv, StepInv, PTL DEF Spec

(* Type correctness.  No pool of the controller's firmware holds more      *)
(* buffers than it has: none is released twice, by the interrupt, by       *)
(* tx_thread() or by the controller.                                       *)
THEOREM TypeCorrect == Spec => []TypeOK
<1>1. IInv => TypeOK
  <2> SUFFICES ASSUME IInv PROVE TypeOK
    OBVIOUS
  <2>1. Typed /\ PoolInv
    BY DEF IInv
  <2>2. ASSUME NEW t \in Types PROVE free[t] <= Pool[t]
    <3>1. /\ free[t] \in Nat /\ Held(t) \in {0, 1} /\ Cardinality(QueuedOf(t)) \in Nat
          /\ free[t] + Held(t) + Cardinality(QueuedOf(t)) = Pool[t]
      BY <2>1, CountTypes DEF Typed, Held, PoolInv
    <3> QED BY <3>1
  <2> QED BY <2>1, <2>2 DEF Typed, TypeOK
<1> QED BY <1>1, Invariance, PTL

(* A host that sends no packet without a credit never loses one for want   *)
(* of a buffer, whatever the sizes of the pools and of the credits in      *)
(* them, the packets too large, those that the controller refuses and the  *)
(* moments at which bt_uart_isr() interrupts the threads.                  *)
THEOREM CreditsSuffice == Spec => []FlowControlSuffices
<1>1. IInv => FlowControlSuffices
  BY DEF IInv
<1> QED BY <1>1, Invariance, PTL

(* The controller gets the host's packets byte for byte and in order, but  *)
(* for those too large for a buffer, wherever the interrupt finds the      *)
(* bytes that have come: h4_discard() and h4_read() never leave a packet's *)
(* end behind or take the beginning of the next.                           *)
THEOREM FramingKept == Spec => []PacketsAreWhole
<1>1. IInv => PacketsAreWhole
  <2> SUFFICES ASSUME IInv PROVE PacketsAreWhole
    OBVIOUS
  <2>1. CASE starved
    BY <2>1 DEF PacketsAreWhole
  <2>2. CASE ~ starved
    <3>1. PICK d \in 0 .. Len(sent) : Reads(d)
      BY <2>2 DEF IInv, ReadInv
    <3>2. Typed
      BY DEF IInv
    <3>3. \E c \in 0 .. Len(sent) : Ordered(c)
      BY <3>1, <3>2, DoneType
    <3> QED BY <3>2, <3>3, OrderedIsWhole
  <2> QED BY <2>1, <2>2
<1> QED BY <1>1, Invariance, PTL
=============================================================================
