----------------------- MODULE BoundedQueues_proofs ------------------------
(***************************************************************************)
(* Lemmas about the sequence operators the components are built from, and  *)
(* about the least element of a set of naturals.                           *)
(***************************************************************************)
EXTENDS BoundedQueues, SequencesExt, SequenceTheorems, WellFoundedInduction, TLAPS

(* Pushing keeps the element type and the bound (push_back after erasing   *)
(* the first element of a full vector).                                    *)
LEMMA PushDropOldestType ==
  ASSUME NEW S, NEW q \in Seq(S), NEW x \in S, NEW cap \in Nat \ {0}, Len(q) <= cap
  PROVE  /\ PushDropOldest(q, x, cap) \in Seq(S)
         /\ Len(PushDropOldest(q, x, cap)) <= cap
         /\ PushDropOldest(q, x, cap) # <<>>
<1>1. CASE Len(q) >= cap
  <2>1. Tail(q) \in Seq(S) /\ Len(Tail(q)) = Len(q) - 1
    BY <1>1, HeadTailProperties
  <2>. QED  BY <1>1, <2>1, AppendProperties DEF PushDropOldest
<1>2. CASE ~(Len(q) >= cap)
  BY <1>2, AppendProperties DEF PushDropOldest
<1>. QED  BY <1>1, <1>2

(* Pushing adds only the new element. *)
LEMMA PushDropOldestElements ==
  ASSUME NEW S, NEW q \in Seq(S), NEW x \in S, NEW cap \in Nat \ {0},
         NEW j \in DOMAIN PushDropOldest(q, x, cap)
  PROVE  \/ PushDropOldest(q, x, cap)[j] = x
         \/ \E k \in DOMAIN q : PushDropOldest(q, x, cap)[j] = q[k]
<1>1. CASE Len(q) >= cap
  <2>1. /\ Tail(q) \in Seq(S) /\ Len(Tail(q)) = Len(q) - 1
        /\ \A i \in 1 .. Len(Tail(q)) : Tail(q)[i] = q[i+1]
    BY <1>1, HeadTailProperties
  <2>2. PushDropOldest(q, x, cap) = Append(Tail(q), x)
    BY <1>1 DEF PushDropOldest
  <2>3. DOMAIN Append(Tail(q), x) = 1 .. Len(q)
    BY <2>1, AppendProperties, LenProperties
  <2>4. CASE j = Len(q)
    BY <2>1, <2>2, <2>4, AppendProperties
  <2>5. CASE j # Len(q)
    <3>1. j \in 1 .. Len(Tail(q)) /\ j + 1 \in DOMAIN q
      BY <2>1, <2>2, <2>3, <2>5, LenProperties
    <3>. QED  BY <2>1, <2>2, <3>1, AppendProperties
  <2>. QED  BY <2>4, <2>5
<1>2. CASE ~(Len(q) >= cap)
  <2>1. PushDropOldest(q, x, cap) = Append(q, x)
    BY <1>2 DEF PushDropOldest
  <2>2. DOMAIN Append(q, x) = 1 .. Len(q) + 1
    BY AppendProperties, LenProperties
  <2>. QED  BY <2>1, <2>2, AppendProperties, LenProperties
<1>. QED  BY <1>1, <1>2

(* Sequences without a repeated element, when the first one is erased ...  *)
LEMMA TailDistinct ==
  ASSUME NEW S, NEW q \in Seq(S), q # <<>>, IsInjective(q)
  PROVE  /\ IsInjective(Tail(q)) /\ Head(q) \in Range(q)
         /\ Range(Tail(q)) = Range(q) \ {Head(q)}
<1>1. /\ Tail(q) \in Seq(S) /\ Len(Tail(q)) = Len(q) - 1 /\ Head(q) = q[1]
      /\ \A i \in 1 .. Len(Tail(q)) : Tail(q)[i] = q[i + 1]
  BY HeadTailProperties
<1>2. Len(q) \in Nat \ {0} /\ DOMAIN q = 1 .. Len(q) /\ DOMAIN Tail(q) = 1 .. Len(q) - 1
  BY <1>1, LenProperties, EmptySeq
<1>3. IsInjective(Tail(q))
  <2>. SUFFICES ASSUME NEW i \in DOMAIN Tail(q), NEW j \in DOMAIN Tail(q),
                       Tail(q)[i] = Tail(q)[j]
                PROVE  i = j
    BY DEF IsInjective
  <2>1. i + 1 \in DOMAIN q /\ j + 1 \in DOMAIN q /\ q[i + 1] = q[j + 1]
    BY <1>1, <1>2
  <2>2. i + 1 = j + 1
    BY <2>1 DEF IsInjective
  <2>. QED  BY <1>2, <2>2
<1>4. Head(q) \in Range(q)
  BY <1>1, <1>2 DEF Range
<1>5. ASSUME NEW x \in Range(Tail(q)) PROVE x \in Range(q) \ {Head(q)}
  <2>1. PICK i \in DOMAIN Tail(q) : x = Tail(q)[i]
    BY DEF Range
  <2>2. i + 1 \in DOMAIN q /\ 1 \in DOMAIN q /\ i + 1 # 1 /\ x = q[i + 1]
    BY <1>1, <1>2, <2>1
  <2>. QED  BY <1>1, <2>2 DEF Range, IsInjective
<1>6. ASSUME NEW x \in Range(q), x # Head(q) PROVE x \in Range(Tail(q))
  <2>1. PICK i \in DOMAIN q : x = q[i]
    BY DEF Range
  <2>2. i - 1 \in 1 .. Len(q) - 1 /\ (i - 1) + 1 = i
    BY <1>1, <1>2, <1>6, <2>1
  <2>3. Tail(q)[i - 1] = x
    BY <1>1, <2>1, <2>2
  <2>. QED  BY <1>2, <2>2, <2>3 DEF Range
<1>. QED  BY <1>3, <1>4, <1>5, <1>6

(* ... or a new one is appended ...                                        *)
LEMMA AppendDistinct ==
  ASSUME NEW S, NEW q \in Seq(S), IsInjective(q), NEW x \in S, x \notin Range(q)
  PROVE  IsInjective(Append(q, x)) /\ Range(Append(q, x)) = Range(q) \cup {x}
<1>. DEFINE r == Append(q, x)
<1>1. /\ r \in Seq(S) /\ Len(r) = Len(q) + 1 /\ r[Len(q) + 1] = x
      /\ \A i \in 1 .. Len(q) : r[i] = q[i]
  BY AppendProperties
<1>2. Len(q) \in Nat /\ DOMAIN q = 1 .. Len(q) /\ DOMAIN r = 1 .. Len(q) + 1
  BY <1>1, LenProperties
<1>. HIDE DEF r
<1>3. ASSUME NEW i \in 1 .. Len(q) PROVE r[i] # x
  BY <1>1, <1>2 DEF Range
<1>4. ASSUME NEW i \in DOMAIN r, NEW j \in DOMAIN r, r[i] = r[j] PROVE i = j
  <2>1. CASE i \in 1 .. Len(q) /\ j \in 1 .. Len(q)
    BY <1>1, <1>2, <1>4, <2>1 DEF IsInjective
  <2>2. CASE ~(i \in 1 .. Len(q) /\ j \in 1 .. Len(q))
    BY <1>1, <1>2, <1>3, <1>4, <2>2
  <2>. QED  BY <2>1, <2>2
<1>5. Range(r) = Range(q) \cup {x}
  <2>1. ASSUME NEW y \in Range(r) PROVE y \in Range(q) \cup {x}
    BY <1>1, <1>2, <2>1 DEF Range
  <2>2. ASSUME NEW y \in Range(q) \cup {x} PROVE y \in Range(r)
    <3>1. PICK i \in 1 .. Len(q) + 1 : y = r[i]
      BY <1>1, <1>2, <2>2 DEF Range
    <3>. QED  BY <1>2, <3>1 DEF Range
  <2>. QED  BY <2>1, <2>2
<1>. QED  BY <1>4, <1>5 DEF IsInjective, r

(* ... or a new one is pushed.                                             *)
LEMMA PushDropOldestDistinct ==
  ASSUME NEW S, NEW q \in Seq(S), IsInjective(q), NEW x \in S, x \notin Range(q),
         NEW cap \in Nat \ {0}
  PROVE  /\ IsInjective(PushDropOldest(q, x, cap))
         /\ Range(PushDropOldest(q, x, cap)) \subseteq Range(q) \cup {x}
<1>1. CASE Len(q) >= cap
  <2>1. Tail(q) \in Seq(S) /\ q # <<>>
    BY <1>1, HeadTailProperties
  <2>2. IsInjective(Tail(q)) /\ Range(Tail(q)) \subseteq Range(q)
    BY <2>1, TailDistinct
  <2>3. x \notin Range(Tail(q))
    BY <2>2
  <2>4. /\ IsInjective(Append(Tail(q), x))
        /\ Range(Append(Tail(q), x)) = Range(Tail(q)) \cup {x}
    BY <2>1, <2>2, <2>3, AppendDistinct
  <2>. QED  BY <1>1, <2>2, <2>4 DEF PushDropOldest
<1>2. CASE ~(Len(q) >= cap)
  BY <1>2, AppendDistinct DEF PushDropOldest
<1>. QED  BY <1>1, <1>2

(* Erasing the element at position i (vector::erase). *)
LEMMA RemoveAtProperties ==
  ASSUME NEW S, NEW q \in Seq(S), NEW i \in 1 .. Len(q)
  PROVE  /\ RemoveAt(q, i) \in Seq(S)
         /\ Len(RemoveAt(q, i)) = Len(q) - 1
         /\ \A j \in 1 .. Len(q) - 1 :
               RemoveAt(q, i)[j] = IF j < i THEN q[j] ELSE q[j + 1]
<1>. DEFINE a == SubSeq(q, 1, i - 1)
            b == SubSeq(q, i + 1, Len(q))
            r == RemoveAt(q, i)
<1>1. /\ a \in Seq(S) /\ Len(a) = i - 1
      /\ \A j \in 1 .. i - 1 : a[j] = q[j]
  BY SubSeqProperties, LenProperties
<1>2. /\ b \in Seq(S) /\ Len(b) = Len(q) - i
      /\ \A j \in 1 .. Len(q) - i : b[j] = q[i + j]
  BY SubSeqProperties, LenProperties
<1>3. r = a \o b
  BY DEF RemoveAt
<1>4. Len(q) \in Nat
  BY LenProperties
<1>. HIDE DEF a, b, r
<1>5. /\ r \in Seq(S) /\ Len(r) = Len(a) + Len(b)
      /\ \A j \in 1 .. Len(a) + Len(b) :
            r[j] = IF j <= Len(a) THEN a[j] ELSE b[j - Len(a)]
  BY <1>1, <1>2, <1>3, ConcatProperties
<1>6. ASSUME NEW j \in 1 .. Len(q) - 1
      PROVE  r[j] = IF j < i THEN q[j] ELSE q[j + 1]
  <2>. /\ Len(a) = i - 1 /\ Len(b) = Len(q) - i
       /\ j \in 1 .. Len(a) + Len(b)
    BY <1>1, <1>2, <1>4
  <2>1. CASE j < i
    <3>1. j <= Len(a) /\ j \in 1 .. i - 1
      BY <1>4, <2>1
    <3>2. r[j] = a[j]
      BY <1>5, <3>1
    <3>. QED  BY <1>1, <2>1, <3>1, <3>2
  <2>2. CASE ~(j < i)
    <3>1. j - (i - 1) \in 1 .. Len(q) - i /\ i + (j - (i - 1)) = j + 1
      BY <1>4, <2>2
    <3>2. ~(j <= Len(a))
      BY <1>4, <2>2
    <3>3. r[j] = b[j - (i - 1)]
      BY <1>5, <3>2
    <3>4. b[j - (i - 1)] = q[i + (j - (i - 1))]
      BY <1>2, <3>1
    <3>. QED  BY <2>2, <3>1, <3>3, <3>4
  <2>. QED  BY <2>1, <2>2
<1>7. Len(r) = Len(q) - 1
  BY <1>1, <1>2, <1>4, <1>5
<1>. QED  BY <1>5, <1>6, <1>7 DEF r

-----------------------------------------------------------------------------
(***************************************************************************)
(* Queues whose elements are in an order: each is related by R to every    *)
(* element behind it.                                                      *)
(***************************************************************************)
Sorted(q, R) == \A i, j \in DOMAIN q : i < j => <<q[i], q[j]>> \in R

LEMMA EmptySorted == ASSUME NEW R PROVE Sorted(<<>>, R) /\ Range(<<>>) = {}
BY DEF Sorted, Range

(* The elements are those at the positions from 1 to the length.           *)
LEMMA RangeOfQueue ==
  ASSUME NEW S, NEW q \in Seq(S)
  PROVE  /\ Len(q) \in Nat /\ DOMAIN q = 1 .. Len(q) /\ Range(q) \subseteq S
         /\ \A i \in 1 .. Len(q) : q[i] \in Range(q)
         /\ \A x \in Range(q) : \E i \in 1 .. Len(q) : x = q[i]
<1>1. Len(q) \in Nat /\ DOMAIN q = 1 .. Len(q)
  BY LenProperties
<1>2. \A i \in 1 .. Len(q) : q[i] \in S
  BY ElementOfSeq
<1>3. Range(q) = {q[i] : i \in 1 .. Len(q)}
  BY <1>1 DEF Range
<1>4. Range(q) \subseteq S /\ \A i \in 1 .. Len(q) : q[i] \in Range(q)
  BY <1>2, <1>3
<1>5. \A x \in Range(q) : \E i \in 1 .. Len(q) : x = q[i]
  BY <1>3
<1>. QED  BY <1>1, <1>4, <1>5

(* The first element is related to all that remain when it is erased.      *)
LEMMA TailSorted ==
  ASSUME NEW S, NEW R, NEW q \in Seq(S), q # <<>>, Sorted(q, R)
  PROVE  /\ Sorted(Tail(q), R)
         /\ Head(q) \in Range(q) /\ Range(Tail(q)) \subseteq Range(q)
         /\ \A x \in Range(Tail(q)) : <<Head(q), x>> \in R
<1>1. /\ Tail(q) \in Seq(S) /\ Len(Tail(q)) = Len(q) - 1 /\ Head(q) = q[1]
      /\ \A i \in 1 .. Len(Tail(q)) : Tail(q)[i] = q[i + 1]
  BY HeadTailProperties
<1>2. Len(q) \in Nat \ {0} /\ DOMAIN q = 1 .. Len(q) /\ DOMAIN Tail(q) = 1 .. Len(q) - 1
  BY <1>1, LenProperties, EmptySeq
<1>3. Sorted(Tail(q), R)
  <2>. SUFFICES ASSUME NEW i \in DOMAIN Tail(q), NEW j \in DOMAIN Tail(q), i < j
                PROVE  <<Tail(q)[i], Tail(q)[j]>> \in R
    BY DEF Sorted
  <2>1. i + 1 \in DOMAIN q /\ j + 1 \in DOMAIN q /\ i + 1 < j + 1
    BY <1>2
  <2>. QED  BY <1>1, <1>2, <2>1 DEF Sorted
<1>4. ASSUME NEW x \in Range(Tail(q)) PROVE x \in Range(q) /\ <<Head(q), x>> \in R
  <2>1. PICK i \in DOMAIN Tail(q) : x = Tail(q)[i]
    BY DEF Range
  <2>2. i + 1 \in DOMAIN q /\ 1 \in DOMAIN q /\ 1 < i + 1 /\ x = q[i + 1]
    BY <1>1, <1>2, <2>1
  <2>. QED  BY <1>1, <2>2 DEF Range, Sorted
<1>. QED  BY <1>1, <1>2, <1>3, <1>4 DEF Range

(* An element to which all others are related may be appended ...          *)
LEMMA AppendSorted ==
  ASSUME NEW S, NEW R, NEW q \in Seq(S), Sorted(q, R), NEW x \in S,
         \A y \in Range(q) : <<y, x>> \in R
  PROVE  Sorted(Append(q, x), R) /\ Range(Append(q, x)) = Range(q) \cup {x}
<1>. DEFINE r == Append(q, x)
<1>1. /\ r \in Seq(S) /\ Len(r) = Len(q) + 1 /\ r[Len(q) + 1] = x
      /\ \A i \in 1 .. Len(q) : r[i] = q[i]
  BY AppendProperties
<1>2. Len(q) \in Nat /\ DOMAIN q = 1 .. Len(q) /\ DOMAIN r = 1 .. Len(q) + 1
  BY <1>1, LenProperties
<1>. HIDE DEF r
<1>3. ASSUME NEW i \in DOMAIN r, NEW j \in DOMAIN r, i < j PROVE <<r[i], r[j]>> \in R
  <2>1. i \in DOMAIN q /\ r[i] = q[i] /\ q[i] \in Range(q)
    BY <1>1, <1>2, <1>3 DEF Range
  <2>2. CASE j = Len(q) + 1
    BY <1>1, <2>1, <2>2
  <2>3. CASE j # Len(q) + 1
    BY <1>1, <1>2, <1>3, <2>1, <2>3 DEF Sorted
  <2>. QED  BY <2>2, <2>3
<1>4. Range(r) = Range(q) \cup {x}
  <2>1. ASSUME NEW y \in Range(r) PROVE y \in Range(q) \cup {x}
    BY <1>1, <1>2, <2>1 DEF Range
  <2>2. ASSUME NEW y \in Range(q) \cup {x} PROVE y \in Range(r)
    <3>1. PICK i \in 1 .. Len(q) + 1 : y = r[i]
      BY <1>1, <1>2, <2>2 DEF Range
    <3>. QED  BY <1>2, <3>1 DEF Range
  <2>. QED  BY <2>1, <2>2
<1>. QED  BY <1>3, <1>4 DEF Sorted, r

(* ... or pushed.                                                          *)
LEMMA PushDropOldestSorted ==
  ASSUME NEW S, NEW R, NEW q \in Seq(S), Sorted(q, R), NEW x \in S,
         NEW cap \in Nat \ {0}, \A y \in Range(q) : <<y, x>> \in R
  PROVE  /\ Sorted(PushDropOldest(q, x, cap), R)
         /\ Range(PushDropOldest(q, x, cap)) \subseteq Range(q) \cup {x}
<1>1. CASE Len(q) >= cap
  <2>1. Tail(q) \in Seq(S) /\ q # <<>>
    BY <1>1, HeadTailProperties
  <2>2. Sorted(Tail(q), R) /\ Range(Tail(q)) \subseteq Range(q)
    BY <2>1, TailSorted
  <2>3. \A y \in Range(Tail(q)) : <<y, x>> \in R
    BY <2>2
  <2>. DEFINE t == Tail(q)
  <2>4. t \in Seq(S) /\ Sorted(t, R) /\ \A y \in Range(t) : <<y, x>> \in R
    BY <2>1, <2>2, <2>3
  <2>. HIDE DEF t
  <2>5. Sorted(Append(t, x), R) /\ Range(Append(t, x)) = Range(t) \cup {x}
    BY <2>4, AppendSorted
  <2>. QED  BY <1>1, <2>2, <2>5 DEF PushDropOldest, t
<1>2. CASE ~(Len(q) >= cap)
  BY <1>2, AppendSorted DEF PushDropOldest
<1>. QED  BY <1>1, <1>2

-----------------------------------------------------------------------------
(***************************************************************************)
(* Sequences that are cut and joined.                                      *)
(***************************************************************************)
(* The two parts of a sequence that is cut after its k-th element.         *)
LEMMA CutProperties ==
  ASSUME NEW S, NEW q \in Seq(S), NEW k \in 0 .. Len(q)
  PROVE  /\ SubSeq(q, 1, k) \in Seq(S) /\ Len(SubSeq(q, 1, k)) = k
         /\ \A i \in 1 .. k : SubSeq(q, 1, k)[i] = q[i]
         /\ SubSeq(q, k + 1, Len(q)) \in Seq(S) /\ Len(SubSeq(q, k + 1, Len(q))) = Len(q) - k
         /\ \A i \in 1 .. Len(q) - k : SubSeq(q, k + 1, Len(q))[i] = q[k + i]
<1>1. Len(q) \in Nat /\ \A i \in 1 .. Len(q) : q[i] \in S
  BY LenProperties, ElementOfSeq
<1>2. /\ SubSeq(q, 1, k) \in Seq(S) /\ Len(SubSeq(q, 1, k)) = k
      /\ \A i \in 1 .. k : SubSeq(q, 1, k)[i] = q[i]
  <2>1. \A i \in 1 .. k : q[i] \in S
    BY <1>1
  <2>2. /\ SubSeq(q, 1, k) \in Seq(S)
        /\ Len(SubSeq(q, 1, k)) = IF 1 <= k THEN k - 1 + 1 ELSE 0
        /\ \A i \in 1 .. k - 1 + 1 : SubSeq(q, 1, k)[i] = q[1 + i - 1]
    BY <1>1, <2>1, SubSeqProperties
  <2>3. k - 1 + 1 = k /\ \A i \in 1 .. k : 1 + i - 1 = i
    BY <1>1
  <2>. QED  BY <1>1, <2>2, <2>3
<1>3. /\ SubSeq(q, k + 1, Len(q)) \in Seq(S) /\ Len(SubSeq(q, k + 1, Len(q))) = Len(q) - k
      /\ \A i \in 1 .. Len(q) - k : SubSeq(q, k + 1, Len(q))[i] = q[k + i]
  <2>1. \A i \in k + 1 .. Len(q) : q[i] \in S
    BY <1>1
  <2>2. /\ SubSeq(q, k + 1, Len(q)) \in Seq(S)
        /\ Len(SubSeq(q, k + 1, Len(q))) = IF k + 1 <= Len(q) THEN Len(q) - (k + 1) + 1 ELSE 0
        /\ \A i \in 1 .. Len(q) - (k + 1) + 1 : SubSeq(q, k + 1, Len(q))[i] = q[(k + 1) + i - 1]
    BY <1>1, <2>1, SubSeqProperties
  <2>3. Len(q) - (k + 1) + 1 = Len(q) - k /\ \A i \in 1 .. Len(q) - k : (k + 1) + i - 1 = k + i
    BY <1>1
  <2>4. Len(SubSeq(q, k + 1, Len(q))) = Len(q) - k
    <3>. DEFINE l == Len(SubSeq(q, k + 1, Len(q)))
                n == Len(q)
    <3>1. l = (IF k + 1 <= n THEN n - (k + 1) + 1 ELSE 0) /\ n \in Nat /\ k \in 0 .. n
      BY <1>1, <2>2
    <3>. HIDE DEF l, n
    <3>2. CASE k = n
      BY <3>1, <3>2
    <3>3. CASE k < n
      BY <3>1, <3>3
    <3>4. l = n - k
      BY <3>1, <3>2, <3>3
    <3>. QED  BY <3>4 DEF l, n
  <2>5. \A i \in 1 .. Len(q) - k : SubSeq(q, k + 1, Len(q))[i] = q[k + i]
    BY <2>2, <2>3
  <2>. QED  BY <2>2, <2>4, <2>5
<1>. QED  BY <1>2, <1>3

(* Two sequences, one after the other.                                     *)
LEMMA JoinProperties ==
  ASSUME NEW S, NEW a \in Seq(S), NEW b \in Seq(S)
  PROVE  /\ a \o b \in Seq(S) /\ Len(a) \in Nat /\ Len(b) \in Nat
         /\ Len(a \o b) = Len(a) + Len(b)
         /\ \A i \in 1 .. Len(a) : (a \o b)[i] = a[i]
         /\ \A i \in 1 .. Len(b) : (a \o b)[Len(a) + i] = b[i]
         /\ \A i \in 1 .. Len(a) + Len(b) : i > Len(a) => (a \o b)[i] = b[i - Len(a)]
<1>. DEFINE c == a \o b
<1>1. /\ c \in Seq(S) /\ Len(c) = Len(a) + Len(b)
      /\ \A i \in 1 .. Len(a) + Len(b) : c[i] = IF i <= Len(a) THEN a[i] ELSE b[i - Len(a)]
  BY ConcatProperties
<1>2. Len(a) \in Nat /\ Len(b) \in Nat
  BY LenProperties
<1>. HIDE DEF c
<1>3. ASSUME NEW i \in 1 .. Len(a) PROVE c[i] = a[i]
  BY <1>1, <1>2
<1>4. ASSUME NEW i \in 1 .. Len(b) PROVE c[Len(a) + i] = b[i]
  <2>1. Len(a) + i \in 1 .. Len(a) + Len(b) /\ ~(Len(a) + i <= Len(a)) /\ (Len(a) + i) - Len(a) = i
    BY <1>2
  <2>. QED  BY <1>1, <2>1
<1>5. ASSUME NEW i \in 1 .. Len(a) + Len(b), i > Len(a) PROVE c[i] = b[i - Len(a)]
  BY <1>1, <1>2, <1>5
<1>. QED  BY <1>1, <1>2, <1>3, <1>4, <1>5 DEF c

-----------------------------------------------------------------------------
(* A non-empty set of naturals has a least element. *)
LEMMA LeastNatural ==
  ASSUME NEW T \in SUBSET Nat, T # {}
  PROVE  \E x \in T : \A y \in T : x <= y
<1>1. PICK x \in T : \A y \in T : ~(<<y, x>> \in OpToRel(<, Nat))
  BY NatLessThanWellFounded, WFMin
<1>2. \A y \in T : ~(y < x)
  BY <1>1 DEF OpToRel
<1>. QED  BY <1>2
=============================================================================
