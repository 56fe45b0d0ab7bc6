---------------------------- MODULE SharedProofs ----------------------------
(***************************************************************************)
(* What several components rest on: lemmas about queues, the work queues   *)
(* of Zephyr as WorkQueue has them and those of messages that wait for a   *)
(* Bluetooth connection; and what ver_comp() decides, for every pair of    *)
(* versions.                                                               *)
(***************************************************************************)
EXTENDS WorkQueue, VersionCompare, SequenceTheorems, TLAPS

(* No item is pending twice. *)
Once(q) == \A i, j \in DOMAIN q : q[i] = q[j] => i = j

(* Submitting makes the item pending, loses no other and queues none twice: *)
(* k_work_submit_to_queue is a no-op on a pending item.                      *)
LEMMA SubmitFacts ==
  ASSUME NEW S, NEW q \in Seq(S), NEW w \in S
  PROVE  /\ Submit(q, w) \in Seq(S)
         /\ Pending(Submit(q, w)) = Pending(q) \cup {w}
         /\ Once(q) => Once(Submit(q, w))
<1>1. CASE w \in Pending(q)
  BY <1>1 DEF Submit
<1>2. CASE w \notin Pending(q)
  <2>1. Submit(q, w) = Append(q, w)
    BY <1>2 DEF Submit
  <2>2. /\ Append(q, w) \in Seq(S)
        /\ DOMAIN Append(q, w) = 1 .. Len(q) + 1
        /\ \A i \in 1 .. Len(q) : Append(q, w)[i] = q[i]
        /\ Append(q, w)[Len(q) + 1] = w
    OBVIOUS
  <2>3. DOMAIN q = 1 .. Len(q) /\ Len(q) \in Nat
    OBVIOUS
  <2>4. Pending(Append(q, w)) = Pending(q) \cup {w}
    <3>1. Pending(Append(q, w)) \subseteq Pending(q) \cup {w}
      BY <2>2, <2>3 DEF Pending, ToSet
    <3>2. Pending(q) \subseteq Pending(Append(q, w))
      BY <2>2, <2>3 DEF Pending, ToSet
    <3>3. w \in Pending(Append(q, w))
      BY <2>2, <2>3 DEF Pending, ToSet
    <3> QED BY <3>1, <3>2, <3>3
  <2>5. Once(q) => Once(Append(q, w))
    BY <1>2, <2>2, <2>3 DEF Once, Pending, ToSet
  <2> QED BY <2>1, <2>2, <2>4, <2>5
<1> QED BY <1>1, <1>2

(* Removing position k moves what follows it one place forward.            *)
LEMMA RemoveAtFacts ==
  ASSUME NEW S, NEW q \in Seq(S), NEW k \in 1 .. Len(q)
  PROVE  /\ RemoveAt(q, k) \in Seq(S)
         /\ DOMAIN RemoveAt(q, k) = 1 .. Len(q) - 1
         /\ \A i \in 1 .. Len(q) - 1 :
              RemoveAt(q, k)[i] = IF i < k THEN q[i] ELSE q[i + 1]
<1> DEFINE a == SubSeq(q, 1, k - 1)
           b == SubSeq(q, k + 1, Len(q))
<1>1. Len(q) \in Nat /\ k \in Int /\ 1 <= k /\ k <= Len(q)
  OBVIOUS
<1>2. a \in Seq(S) /\ Len(a) = k - 1 /\ \A i \in 1 .. k - 1 : a[i] = q[i]
  BY <1>1, SubSeqProperties
<1>3. /\ b \in Seq(S)
      /\ Len(b) = IF k + 1 <= Len(q) THEN Len(q) - (k + 1) + 1 ELSE 0
      /\ \A i \in 1 .. Len(q) - (k + 1) + 1 : b[i] = q[k + 1 + i - 1]
  BY <1>1, SubSeqProperties
<1> HIDE DEF a, b
<1>4. Len(b) = Len(q) - k
  BY <1>1, <1>3
<1>5. ASSUME NEW i \in 1 .. Len(q) - k PROVE b[i] = q[k + i]
  <2>1. i \in 1 .. Len(q) - (k + 1) + 1 /\ k + 1 + i - 1 = k + i
    BY <1>1
  <2> QED BY <1>3, <2>1
<1>6. a \o b \in Seq(S) /\ Len(a \o b) = Len(a) + Len(b)
  BY <1>2, <1>3, ConcatProperties
<1>7. ASSUME NEW i \in 1 .. Len(q) - 1
      PROVE  (a \o b)[i] = IF i < k THEN q[i] ELSE q[i + 1]
  <2>1. i \in 1 .. Len(a) + Len(b)
    BY <1>1, <1>2, <1>4
  <2>2. (a \o b)[i] = IF i <= Len(a) THEN a[i] ELSE b[i - Len(a)]
    BY <2>1, <1>2, <1>3, ConcatProperties
  <2>3. CASE i < k
    <3>1. i <= Len(a) /\ i \in 1 .. k - 1
      BY <1>1, <1>2, <2>3
    <3> QED BY <1>2, <2>2, <2>3, <3>1
  <2>4. CASE ~ i < k
    <3>1. ~ i <= Len(a) /\ i - Len(a) \in 1 .. Len(q) - k /\ k + (i - Len(a)) = i + 1
      BY <1>1, <1>2, <2>4
    <3> QED BY <1>5, <2>2, <2>4, <3>1
  <2> QED BY <2>3, <2>4
<1>8. Len(a \o b) = Len(q) - 1 /\ DOMAIN (a \o b) = 1 .. Len(a \o b)
  BY <1>1, <1>2, <1>4, <1>6
<1>9. RemoveAt(q, k) = a \o b
  BY DEF RemoveAt, a, b
<1> QED BY <1>6, <1>7, <1>8, <1>9

(* Taking an item back loses no other item.                                *)
LEMMA CancelFacts ==
  ASSUME NEW S, NEW q \in Seq(S), NEW w, Once(q)
  PROVE  /\ Cancel(q, w) \in Seq(S)
         /\ Pending(Cancel(q, w)) = Pending(q) \ {w}
         /\ Once(Cancel(q, w))
<1>1. CASE w \notin Pending(q)
  BY <1>1 DEF Cancel
<1>2. CASE w \in Pending(q)
  <2> DEFINE k == CHOOSE i \in DOMAIN q : q[i] = w
             r == Cancel(q, w)
  <2>1. DOMAIN q = 1 .. Len(q) /\ Len(q) \in Nat
    OBVIOUS
  <2>2. k \in 1 .. Len(q) /\ q[k] = w
    BY <1>2, <2>1 DEF Pending, ToSet
  <2>3. r = RemoveAt(q, k)
    BY <1>2 DEF Cancel
  <2> HIDE DEF k, r
  <2>4. /\ r \in Seq(S)
        /\ DOMAIN r = 1 .. Len(q) - 1
        /\ \A i \in 1 .. Len(q) - 1 : r[i] = IF i < k THEN q[i] ELSE q[i + 1]
    BY <2>2, <2>3, RemoveAtFacts
  <2>5. Once(r)
    <3> SUFFICES ASSUME NEW i \in DOMAIN r, NEW j \in DOMAIN r, r[i] = r[j]
                 PROVE  i = j
      BY DEF Once
    <3> DEFINE at(x) == IF x < k THEN x ELSE x + 1
    <3>1. at(i) \in DOMAIN q /\ at(j) \in DOMAIN q /\ q[at(i)] = q[at(j)]
      BY <2>1, <2>2, <2>4
    <3>2. at(i) = at(j)
      BY <3>1 DEF Once
    <3> QED BY <2>1, <2>2, <2>4, <3>2
  <2>6. Pending(r) \subseteq Pending(q) \ {w}
    <3> SUFFICES ASSUME NEW i \in DOMAIN r
                 PROVE  r[i] \in Pending(q) \ {w}
      BY DEF Pending, ToSet
    <3> DEFINE x == IF i < k THEN i ELSE i + 1
    <3>1. x \in DOMAIN q /\ x # k /\ r[i] = q[x]
      BY <2>1, <2>2, <2>4
    <3>2. q[x] # w
      BY <2>1, <2>2, <3>1 DEF Once
    <3> QED BY <3>1, <3>2 DEF Pending, ToSet
  <2>7. Pending(q) \ {w} \subseteq Pending(r)
    <3> SUFFICES ASSUME NEW i \in DOMAIN q, q[i] # w
                 PROVE  q[i] \in Pending(r)
      BY DEF Pending, ToSet
    <3> DEFINE x == IF i < k THEN i ELSE i - 1
    <3>1. x \in DOMAIN r /\ r[x] = q[i]
      BY <2>1, <2>2, <2>4
    <3> QED BY <3>1 DEF Pending, ToSet
  <2> QED BY <2>4, <2>5, <2>6, <2>7 DEF r
<1> QED BY <1>1, <1>2

(* Running the oldest item removes that item and no other.                 *)
LEMMA TailFacts ==
  ASSUME NEW S, NEW q \in Seq(S), q # <<>>
  PROVE  /\ Tail(q) \in Seq(S)
         /\ Head(q) \in Pending(q)
         /\ Pending(q) = Pending(Tail(q)) \cup {Head(q)}
         /\ Once(q) => Once(Tail(q)) /\ Head(q) \notin Pending(Tail(q))
<1> DEFINE t == Tail(q)
<1>1. /\ Len(q) \in Nat /\ Len(q) > 0 /\ DOMAIN q = 1 .. Len(q)
      /\ t \in Seq(S) /\ DOMAIN t = 1 .. Len(q) - 1
      /\ \A i \in 1 .. Len(q) - 1 : t[i] = q[i + 1]
      /\ Head(q) = q[1]
  OBVIOUS
<1> HIDE DEF t
<1>2. Head(q) \in Pending(q)
  BY <1>1 DEF Pending, ToSet
<1>3. Pending(t) \subseteq Pending(q)
  <2> SUFFICES ASSUME NEW i \in DOMAIN t
               PROVE  t[i] \in Pending(q)
    BY DEF Pending, ToSet
  <2>1. i + 1 \in DOMAIN q /\ t[i] = q[i + 1]
    BY <1>1
  <2> QED BY <2>1 DEF Pending, ToSet
<1>4. Pending(q) \subseteq Pending(t) \cup {Head(q)}
  <2> SUFFICES ASSUME NEW i \in DOMAIN q, i # 1
               PROVE  q[i] \in Pending(t)
    BY <1>1 DEF Pending, ToSet
  <2>1. i - 1 \in DOMAIN t /\ t[i - 1] = q[i]
    BY <1>1
  <2> QED BY <2>1 DEF Pending, ToSet
<1>5. ASSUME Once(q) PROVE Once(t) /\ Head(q) \notin Pending(t)
  <2>1. ASSUME NEW i \in DOMAIN t, NEW j \in DOMAIN t, t[i] = t[j]
        PROVE  i = j
    <3>1. i + 1 \in DOMAIN q /\ j + 1 \in DOMAIN q /\ q[i + 1] = q[j + 1]
      BY <1>1, <2>1
    <3>2. i + 1 = j + 1
      BY <1>5, <3>1 DEF Once
    <3> QED BY <1>1, <3>2
  <2>2. ASSUME NEW i \in DOMAIN t
        PROVE  t[i] # Head(q)
    <3>1. i + 1 \in DOMAIN q /\ 1 \in DOMAIN q /\ i + 1 # 1
      BY <1>1
    <3> QED BY <1>1, <1>5, <3>1 DEF Once
  <2> QED BY <2>1, <2>2 DEF Once, Pending, ToSet
<1> QED BY <1>1, <1>2, <1>3, <1>4, <1>5 DEF t
-----------------------------------------------------------------------------
(* A message that waits in the queue q of a member that received r, since  *)
(* j messages were published, of the p there are now: it is newer than     *)
(* what the member received, and they wait in order.                       *)
Fresh(q, r, j, p) ==
  /\ \A k \in 1 .. Len(q) : j < q[k] /\ q[k] <= p
  /\ \A k, l \in 1 .. Len(q) : k < l => q[k] < q[l]
  /\ \A k \in 1 .. Len(q), l \in 1 .. Len(r) : r[l] < q[k]
  /\ \A l \in 1 .. Len(r) : r[l] <= p
  /\ j <= p

LEMMA FreshEmpty ==
  ASSUME NEW p \in Nat
  PROVE  Fresh(<<>>, <<>>, p, p)
  BY DEF Fresh

(* A publish that finds no room in the queue. *)
LEMMA FreshOlder ==
  ASSUME NEW q \in Seq(Nat), NEW r \in Seq(Nat), NEW j \in Nat, NEW p \in Nat,
         Fresh(q, r, j, p)
  PROVE  Fresh(q, r, j, p + 1)
  BY DEF Fresh

LEMMA FreshAppend ==
  ASSUME NEW q \in Seq(Nat), NEW r \in Seq(Nat), NEW j \in Nat, NEW p \in Nat,
         Fresh(q, r, j, p)
  PROVE  Fresh(Append(q, p + 1), r, j, p + 1)
<1> DEFINE s == Append(q, p + 1)
<1>1. /\ Len(s) = Len(q) + 1 /\ s[Len(s)] = p + 1
      /\ \A k \in 1 .. Len(q) : s[k] = q[k] /\ q[k] \in Nat
  OBVIOUS
<1>2. \A k \in 1 .. Len(r) : r[k] \in Nat
  OBVIOUS
<1>3. Len(q) \in Nat /\ Len(r) \in Nat
  OBVIOUS
<1> HIDE DEF s
<1> QED BY <1>1, <1>2, <1>3 DEF Fresh

LEMMA TailType ==
  ASSUME NEW S, NEW q \in Seq(S), q # <<>>
  PROVE  Tail(q) \in Seq(S) /\ Len(Tail(q)) = Len(q) - 1
  OBVIOUS

(* The first message leaves the queue, unsent or received. *)
LEMMA FreshTail ==
  ASSUME NEW q \in Seq(Nat), NEW r \in Seq(Nat), NEW j \in Nat, NEW p \in Nat,
         Fresh(q, r, j, p), q # <<>>
  PROVE  /\ Fresh(Tail(q), r, j, p)
         /\ Fresh(Tail(q), Append(r, Head(q)), j, p)
         /\ Head(q) \in j + 1 .. p
         /\ \A l \in 1 .. Len(r) : Head(q) > r[l]
<1> DEFINE s == Tail(q)
<1> DEFINE t == Append(r, Head(q))
<1>1. /\ Len(q) \in Nat /\ Len(q) > 0 /\ Len(s) = Len(q) - 1
      /\ \A k \in 1 .. Len(s) : s[k] = q[k + 1]
      /\ \A k \in 1 .. Len(q) : q[k] \in Nat
  OBVIOUS
<1>2. /\ Len(r) \in Nat /\ Len(t) = Len(r) + 1 /\ t[Len(t)] = q[1]
      /\ \A k \in 1 .. Len(r) : t[k] = r[k] /\ r[k] \in Nat
      /\ Head(q) = q[1]
  OBVIOUS
<1> HIDE DEF s, t
<1>3. \A k \in 1 .. Len(s) : k + 1 \in 1 .. Len(q) /\ 1 < k + 1
  BY <1>1
<1>4. Fresh(s, r, j, p)
  <2>1. \A k \in 1 .. Len(s) : j < s[k] /\ s[k] <= p
    BY <1>1, <1>3 DEF Fresh
  <2>2. ASSUME NEW k \in 1 .. Len(s), NEW l \in 1 .. Len(s), k < l
        PROVE  s[k] < s[l]
    <3>1. /\ k + 1 \in 1 .. Len(q) /\ l + 1 \in 1 .. Len(q) /\ k + 1 < l + 1
          /\ s[k] = q[k + 1] /\ s[l] = q[l + 1]
      BY <1>1, <2>2
    <3> QED BY <3>1 DEF Fresh
  <2>3. \A k \in 1 .. Len(s), l \in 1 .. Len(r) : r[l] < s[k]
    BY <1>1, <1>3 DEF Fresh
  <2> QED BY <2>1, <2>2, <2>3 DEF Fresh
<1>5. \A l \in 1 .. Len(t) : l \in 1 .. Len(r) \/ l = Len(t)
  BY <1>2
<1>6. ASSUME NEW k \in 1 .. Len(s)
      PROVE  q[1] < s[k]
  <2>1. 1 \in 1 .. Len(q) /\ k + 1 \in 1 .. Len(q) /\ 1 < k + 1 /\ s[k] = q[k + 1]
    BY <1>1
  <2> QED BY <2>1 DEF Fresh
<1>7. Fresh(s, t, j, p)
  <2>1. \A k \in 1 .. Len(s), l \in 1 .. Len(t) : t[l] < s[k]
    BY <1>2, <1>4, <1>5, <1>6 DEF Fresh
  <2>2. ASSUME NEW l \in 1 .. Len(t)
        PROVE  t[l] <= p
    <3>1. 1 \in 1 .. Len(q) /\ q[1] <= p
      BY <1>1 DEF Fresh
    <3> QED BY <1>2, <1>5, <3>1 DEF Fresh
  <2> QED BY <1>4, <2>1, <2>2 DEF Fresh
<1>8. q[1] \in j + 1 .. p /\ \A l \in 1 .. Len(r) : q[1] > r[l]
  BY <1>1, <1>2 DEF Fresh
<1> QED BY <1>2, <1>4, <1>7, <1>8 DEF s, t
-----------------------------------------------------------------------------
(* The comparison of versions.                                             *)
(* The loop of ver_comp() stops at a first difference. *)
LEMMA FirstDifference ==
  ASSUME NEW D \in SUBSET (1 .. VER_ENTIRES), D # {}
  PROVE  \E i \in D : \A j \in D : i <= j
<1>1. 1 \in D \/ 2 \in D \/ 3 \in D \/ 4 \in D
  <2>1. PICK x \in D : x \in 1 .. 4
    BY DEF VER_ENTIRES
  <2>2. x = 1 \/ x = 2 \/ x = 3 \/ x = 4
    BY <2>1
  <2> QED BY <2>1, <2>2
<1>2. CASE 1 \in D BY <1>2 DEF VER_ENTIRES
<1>3. CASE 1 \notin D /\ 2 \in D BY <1>3 DEF VER_ENTIRES
<1>4. CASE 1 \notin D /\ 2 \notin D /\ 3 \in D BY <1>4 DEF VER_ENTIRES
<1>5. CASE 1 \notin D /\ 2 \notin D /\ 3 \notin D /\ 4 \in D BY <1>5 DEF VER_ENTIRES
<1> QED BY <1>1, <1>2, <1>3, <1>4, <1>5

(* Two versions with the same numbers are told apart by their hash alone.  *)
LEMMA SameNumbersSameRaw ==
  ASSUME NEW v \in Version, NEW w \in Version, SameNumbers(v, w)
  PROVE  v.raw = w.raw /\ (v.hash = w.hash => v = w)
<1> DEFINE I == 1 .. VER_ENTIRES
<1>1. v.raw \in [I -> Byte] /\ w.raw \in [I -> Byte]
  BY DEF Version
<1>2. v = [raw |-> v.raw, hash |-> v.hash] /\ w = [raw |-> w.raw, hash |-> w.hash]
  BY DEF Version
<1>3. \A i \in I : v.raw[i] = w.raw[i]
  BY DEF SameNumbers
<1> HIDE DEF I
<1>4. v.raw = w.raw
  BY <1>1, <1>3
<1> QED BY <1>2, <1>4

(* ver_comp() is 1 exactly for an upgrade, -1 exactly for a version with    *)
(* lower numbers and 0 exactly for the same build.                         *)
THEOREM VerCompDecides ==
  ASSUME NEW v \in Version, NEW w \in Version
  PROVE  /\ ver_comp(v, w) \in {-1, 0, 1}
         /\ ver_comp(v, w) = 1 <=> Upgrade(v, w)
         /\ ver_comp(v, w) = -1 <=> NumLess(w, v)
         /\ ver_comp(v, w) = 0 <=> v = w
<1> DEFINE D == {i \in 1 .. VER_ENTIRES : v.raw[i] # w.raw[i]}
           k == CHOOSE i \in D : \A j \in D : i <= j
<1>1. \A i \in 1 .. VER_ENTIRES : v.raw[i] \in Int /\ w.raw[i] \in Int
  <2>1. v.raw \in [1 .. VER_ENTIRES -> Byte] /\ w.raw \in [1 .. VER_ENTIRES -> Byte]
    BY DEF Version
  <2>2. \A b \in Byte : b \in Int
    BY DEF Byte
  <2> QED BY <2>1, <2>2
<1>2. ver_comp(v, w) =
        CASE D # {} /\ v.raw[k] > w.raw[k] -> -1
          [] D # {} /\ v.raw[k] < w.raw[k] -> 1
          [] D = {} /\ v.hash # w.hash -> 1
          [] D = {} /\ v.hash = w.hash -> 0
  BY DEF ver_comp
<1>3. CASE D = {}
  <2>1. SameNumbers(v, w) /\ ~ NumLess(v, w) /\ ~ NumLess(w, v)
    <3>1. \A i \in 1 .. VER_ENTIRES : v.raw[i] = w.raw[i]
      BY <1>3
    <3> QED BY <1>1, <3>1 DEF SameNumbers, NumLess
  <2>2. v = w <=> v.hash = w.hash
    BY <2>1, SameNumbersSameRaw
  <2>3. ver_comp(v, w) = IF v.hash = w.hash THEN 0 ELSE 1
    BY <1>2, <1>3
  <2> QED BY <2>1, <2>2, <2>3 DEF Upgrade
<1>4. CASE D # {}
  <2>1. k \in D /\ \A j \in D : k <= j
    <3>1. D \in SUBSET (1 .. VER_ENTIRES)
      OBVIOUS
    <3> QED BY <1>4, <3>1, FirstDifference
  <2> HIDE DEF k
  <2>2. k \in 1 .. VER_ENTIRES /\ v.raw[k] # w.raw[k] /\ k \in Int
    BY <2>1 DEF VER_ENTIRES
  <2>3. \A j \in 1 .. k - 1 : v.raw[j] = w.raw[j]
    <3> SUFFICES ASSUME NEW j \in 1 .. k - 1, v.raw[j] # w.raw[j]
                 PROVE  FALSE
      OBVIOUS
    <3>1. j \in D
      BY <2>2 DEF VER_ENTIRES
    <3> QED BY <2>1, <2>2, <3>1
  <2>4. ~ SameNumbers(v, w) /\ v # w
    BY <2>2 DEF SameNumbers
  <2>5. ASSUME NEW i \in 1 .. VER_ENTIRES, v.raw[i] # w.raw[i],
               \A j \in 1 .. i - 1 : v.raw[j] = w.raw[j]
        PROVE  i = k
    <3>1. i \in D
      BY <2>5
    <3>2. k <= i
      BY <2>1, <3>1
    <3>3. ~ k < i
      BY <2>2, <2>5 DEF VER_ENTIRES
    <3> QED BY <2>2, <3>2, <3>3 DEF VER_ENTIRES
  <2>6. CASE v.raw[k] > w.raw[k]
    <3>1. NumLess(w, v)
      BY <1>1, <2>2, <2>3, <2>6 DEF NumLess
    <3>2. ~ NumLess(v, w)
      <4> SUFFICES ASSUME NEW i \in 1 .. VER_ENTIRES,
                          \A j \in 1 .. i - 1 : v.raw[j] = w.raw[j],
                          v.raw[i] < w.raw[i]
                   PROVE  FALSE
        BY DEF NumLess
      <4>1. i = k
        BY <1>1, <2>5
      <4> QED BY <1>1, <2>2, <2>6, <4>1
    <3>3. ver_comp(v, w) = -1
      <4>1. ~ v.raw[k] < w.raw[k]
        BY <1>1, <2>2, <2>6
      <4> QED BY <1>2, <1>4, <2>6, <4>1
    <3> QED BY <2>4, <3>1, <3>2, <3>3 DEF Upgrade
  <2>7. CASE v.raw[k] < w.raw[k]
    <3>1. NumLess(v, w)
      BY <1>1, <2>2, <2>3, <2>7 DEF NumLess
    <3>2. ~ NumLess(w, v)
      <4> SUFFICES ASSUME NEW i \in 1 .. VER_ENTIRES,
                          \A j \in 1 .. i - 1 : w.raw[j] = v.raw[j],
                          w.raw[i] < v.raw[i]
                   PROVE  FALSE
        BY DEF NumLess
      <4>1. i = k
        BY <1>1, <2>5
      <4> QED BY <1>1, <2>2, <2>7, <4>1
    <3>3. ver_comp(v, w) = 1
      <4>1. ~ v.raw[k] > w.raw[k]
        BY <1>1, <2>2, <2>7
      <4> QED BY <1>2, <1>4, <2>7, <4>1
    <3> QED BY <2>4, <3>1, <3>2, <3>3 DEF Upgrade
  <2> QED BY <1>1, <2>2, <2>6, <2>7
<1> QED BY <1>3, <1>4

(* The order on the numbers has no cycles of length two, so an upgrade     *)
(* never goes to lower numbers.                                            *)
LEMMA UpgradeIsNotDowngrade ==
  ASSUME NEW v \in Version, NEW w \in Version, Upgrade(v, w)
  PROVE  ~ NumLess(w, v)
<1>1. ver_comp(v, w) = 1
  BY VerCompDecides
<1>2. ver_comp(v, w) # -1
  BY <1>1
<1> QED BY <1>2, VerCompDecides
=============================================================================
