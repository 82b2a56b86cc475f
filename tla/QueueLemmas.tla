----------------------------- MODULE QueueLemmas -----------------------------
(***************************************************************************)
(* Queues without duplicates: what appending, serving and removing one     *)
(* element do to the elements.  The proofs about the lock manager's and    *)
(* the workers' queues rest on these.                                      *)
(***************************************************************************)
EXTENDS Naturals, SequencesExt, TLAPS, SequenceTheorems

Apart(s) == \A i, j \in DOMAIN s : s[i] = s[j] => i = j

\* A queue is one of whatever all its elements are.
LEMMA NarrowedQueue ==
  ASSUME NEW S, NEW T, NEW s \in Seq(S), \A i \in DOMAIN s : s[i] \in T
  PROVE  s \in Seq(T)
<1>1. s \in [1 .. Len(s) -> T] /\ Len(s) \in Nat
  <2>1. DOMAIN s = 1 .. Len(s) /\ Len(s) \in Nat /\ s = [i \in 1 .. Len(s) |-> s[i]]
    OBVIOUS
  <2>2. QED  BY <2>1
<1>2. QED  BY <1>1, SeqDef

\* An element taken out of a queue of different ones is gone, and nothing else.
LEMMA RemovedQueue ==
  ASSUME NEW S, NEW s \in Seq(S), Apart(s), NEW i \in DOMAIN s
  PROVE  /\ RemoveAt(s, i) \in Seq(S \ {s[i]})
         /\ Apart(RemoveAt(s, i))
         /\ Range(RemoveAt(s, i)) = Range(s) \ {s[i]}
<1> DEFINE n == Len(s)
           z == RemoveAt(s, i)
           a == SubSeq(s, 1, i - 1)
           b == SubSeq(s, i + 1, n)
<1>1. DOMAIN s = 1 .. n /\ n \in Nat /\ i \in 1 .. n /\ \A j \in 1 .. n : s[j] \in S
  OBVIOUS
<1>2. a \in Seq(S) /\ Len(a) = i - 1 /\ \A j \in 1 .. i - 1 : a[j] = s[j]
  BY <1>1
<1>3. b \in Seq(S) /\ Len(b) = n - i /\ \A j \in 1 .. n - i : b[j] = s[j + i]
  <2>1. /\ b \in Seq(S) /\ Len(b) = n - i
        /\ \A j \in 1 .. n - i : b[j] = s[(i + 1) + j - 1]
    BY <1>1, Z3
  <2>2. \A j \in 1 .. n - i : (i + 1) + j - 1 = j + i
    BY <1>1
  <2>3. QED  BY <2>1, <2>2
<1>4. z = a \o b
  BY DEF RemoveAt
<1> HIDE DEF z, a, b
<1> a \in Seq(S) /\ b \in Seq(S)
  BY <1>2, <1>3
<1>4a. /\ z \in Seq(S) /\ Len(z) = Len(a) + Len(b)
       /\ \A j \in 1 .. Len(a) + Len(b) : z[j] = IF j <= Len(a) THEN a[j] ELSE b[j - Len(a)]
  BY <1>4, ConcatProperties
<1>5. /\ z \in Seq(S) /\ DOMAIN z = 1 .. n - 1 /\ Len(z) = n - 1
      /\ \A j \in 1 .. n - 1 : z[j] = IF j < i THEN s[j] ELSE s[j + 1]
  <2>1. z \in Seq(S) /\ Len(z) = n - 1 /\ DOMAIN z = 1 .. n - 1
    <3>1. z \in Seq(S) /\ Len(z) = Len(a) + Len(b)
      BY <1>4a
    <3>2. Len(a) + Len(b) = n - 1 /\ n - 1 \in Nat
      BY <1>1, <1>2, <1>3
    <3>3. QED  BY <3>1, <3>2
  <2>2. ASSUME NEW j \in 1 .. n - 1, j < i PROVE z[j] = s[j]
    BY <1>1, <1>2, <1>3, <1>4a, <2>2
  <2>3. ASSUME NEW j \in 1 .. n - 1, ~(j < i) PROVE z[j] = s[j + 1]
    <3>1. j - (i - 1) \in 1 .. n - i /\ j - (i - 1) + i = j + 1
      BY <1>1, <2>3
    <3>2. z[j] = b[j - (i - 1)]
      <4>1. j \in 1 .. Len(a) + Len(b) /\ j > Len(a)
        BY <1>1, <1>2, <1>3, <2>3
      <4>2. z[j] = b[j - Len(a)]
        BY <1>1, <1>2, <1>4a, <4>1
      <4>3. QED  BY <1>2, <4>2
    <3>3. QED  BY <1>3, <3>1, <3>2
  <2>4. QED  BY <2>1, <2>2, <2>3
<1> DEFINE Old(j) == IF j < i THEN j ELSE j + 1
<1>6. \A j \in DOMAIN z : Old(j) \in 1 .. n /\ Old(j) # i /\ z[j] = s[Old(j)]
  BY <1>1, <1>5
<1>7. \A k \in 1 .. n : k # i => \E j \in DOMAIN z : z[j] = s[k]
  <2> TAKE k \in 1 .. n
  <2> HAVE k # i
  <2>1. CASE k < i
    <3>1. k \in DOMAIN z /\ z[k] = s[k]
      BY <1>1, <1>5, <2>1
    <3>2. QED  BY <3>1
  <2>2. CASE k > i
    <3>1. k - 1 \in DOMAIN z /\ z[k - 1] = s[k]
      BY <1>1, <1>5, <2>2
    <3>2. QED  BY <3>1
  <2>3. QED  BY <1>1, <2>1, <2>2
<1>8. \A j \in DOMAIN z : z[j] \in S \ {s[i]}
  <2> TAKE j \in DOMAIN z
  <2>1. z[j] = s[Old(j)] /\ Old(j) \in 1 .. n /\ Old(j) # i
    BY <1>6
  <2> HIDE DEF Old
  <2>2. QED  BY <1>1, <2>1 DEF Apart
<1>9. z \in Seq(S \ {s[i]})
  BY <1>5, <1>8, NarrowedQueue
<1>10. Apart(z)
  <2> SUFFICES ASSUME NEW j \in DOMAIN z, NEW k \in DOMAIN z, z[j] = z[k] PROVE j = k
    BY DEF Apart
  <2>1. Old(j) = Old(k)
    <3> HIDE DEF Old
    <3>1. QED  BY <1>1, <1>6 DEF Apart
  <2>2. QED  BY <1>1, <1>5, <2>1
<1>11. Range(z) = Range(s) \ {s[i]}
  <2>1. \A y \in Range(z) : y \in Range(s) \ {s[i]}
    <3> SUFFICES ASSUME NEW j \in DOMAIN z PROVE z[j] \in Range(s) /\ z[j] # s[i]
      BY DEF Range
    <3> HIDE DEF Old
    <3>1. QED  BY <1>1, <1>6, <1>8 DEF Range
  <2>2. \A y \in Range(s) \ {s[i]} : y \in Range(z)
    BY <1>1, <1>7 DEF Range
  <2>3. QED  BY <2>1, <2>2
<1>12. QED  BY <1>9, <1>10, <1>11 DEF z

\* Appending a new element.
LEMMA AppendedQueue ==
  ASSUME NEW S, NEW s \in Seq(S), NEW x \in S, x \notin Range(s), Apart(s)
  PROVE  /\ Append(s, x) \in Seq(S)
         /\ Apart(Append(s, x))
         /\ Range(Append(s, x)) = Range(s) \cup {x}
<1> DEFINE a == Append(s, x)
<1>1. /\ a \in Seq(S) /\ DOMAIN a = 1 .. Len(s) + 1 /\ DOMAIN s = 1 .. Len(s) /\ Len(s) \in Nat
      /\ a[Len(s) + 1] = x
      /\ \A i \in 1 .. Len(s) : a[i] = s[i]
  OBVIOUS
<1>2. \A i \in DOMAIN s : s[i] # x
  BY DEF Range
<1> HIDE DEF a
<1>3. \A y \in Range(a) : y \in Range(s) \cup {x}
  BY <1>1 DEF Range
<1>4. \A y \in Range(s) \cup {x} : y \in Range(a)
  BY <1>1 DEF Range
<1>5. Apart(a)
  BY <1>1, <1>2 DEF Apart
<1>6. QED  BY <1>1, <1>3, <1>4, <1>5 DEF a

\* Serving the first element.
LEMMA ServedQueue ==
  ASSUME NEW S, NEW s \in Seq(S), s # <<>>, Apart(s)
  PROVE  /\ Head(s) \in Range(s) /\ Head(s) \in S
         /\ Tail(s) \in Seq(S)
         /\ Apart(Tail(s))
         /\ Range(Tail(s)) = Range(s) \ {Head(s)}
<1> DEFINE z == RemoveAt(s, 1)
<1>1. 1 \in DOMAIN s /\ Head(s) = s[1] /\ s[1] \in S
  OBVIOUS
<1>2. z \in Seq(S \ {s[1]}) /\ Apart(z) /\ Range(z) = Range(s) \ {s[1]}
  BY <1>1, RemovedQueue
<1>3. z = Tail(s)
  BY DEF RemoveAt
<1> HIDE DEF z
<1>4. z \in Seq(S) /\ Head(s) \in Range(s)
  BY <1>1, <1>2, NarrowedQueue DEF Range
<1>5. QED  BY <1>1, <1>2, <1>3, <1>4
=============================================================================
