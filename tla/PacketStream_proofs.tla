------------------------- MODULE PacketStream_proofs -------------------------
(***************************************************************************)
(* Theorems about PacketStream, for any number of connections and packets, *)
(* any data, and every way recv may cut the streams.                       *)
(***************************************************************************)
EXTENDS PacketStream, BoundedQueues_proofs

(***************************************************************************)
(* Sequences that are cut and joined.                                      *)
(***************************************************************************)
(* Without a repeated element, the two parts have nothing in common ...    *)
LEMMA CutDistinct ==
  ASSUME NEW S, NEW q \in Seq(S), IsInjective(q), NEW k \in 0 .. Len(q)
  PROVE  LET x == SubSeq(q, 1, k)  y == SubSeq(q, k + 1, Len(q))
         IN /\ IsInjective(x) /\ Range(x) \subseteq Range(q)
            /\ IsInjective(y) /\ Range(y) \subseteq Range(q)
            /\ Range(x) \cap Range(y) = {}
<1>. DEFINE x == SubSeq(q, 1, k)
            y == SubSeq(q, k + 1, Len(q))
            m == Len(q)
<1>1. m \in Nat /\ k \in 0 .. m /\ DOMAIN q = 1 .. m
  BY LenProperties
<1>2. /\ x \in Seq(S) /\ Len(x) = k /\ \A i \in 1 .. k : x[i] = q[i]
      /\ y \in Seq(S) /\ Len(y) = m - k /\ \A i \in 1 .. m - k : y[i] = q[k + i]
  BY CutProperties
<1>. HIDE DEF x, y, m
<1>3. DOMAIN x = 1 .. k
  BY <1>2, LenProperties
<1>4. DOMAIN y = 1 .. m - k
  BY <1>2, LenProperties
<1>5. \A i \in 1 .. k : i \in DOMAIN q
  BY <1>1
<1>6. \A i \in 1 .. m - k : k + i \in DOMAIN q
  BY <1>1
<1>7. IsInjective(x)
  BY <1>2, <1>3, <1>5 DEF IsInjective
<1>8. IsInjective(y)
  <2>. SUFFICES ASSUME NEW i \in 1 .. m - k, NEW j \in 1 .. m - k, y[i] = y[j] PROVE i = j
    BY <1>4 DEF IsInjective
  <2>1. k + i = k + j
    BY <1>2, <1>6 DEF IsInjective
  <2>. QED  BY <1>1, <2>1
<1>9. Range(x) \subseteq Range(q) /\ Range(y) \subseteq Range(q)
  BY <1>2, <1>3, <1>4, <1>5, <1>6 DEF Range
<1>10. Range(x) \cap Range(y) = {}
  <2>. SUFFICES ASSUME NEW i \in 1 .. k, NEW j \in 1 .. m - k, x[i] = y[j] PROVE FALSE
    BY <1>3, <1>4 DEF Range
  <2>1. i = k + j
    BY <1>2, <1>5, <1>6 DEF IsInjective
  <2>. QED  BY <1>1, <2>1
<1>. QED  BY <1>7, <1>8, <1>9, <1>10 DEF x, y, m

(* ... and what has nothing in common can be joined.                       *)
LEMMA JoinDistinct ==
  ASSUME NEW S, NEW a \in Seq(S), NEW b \in Seq(S), IsInjective(a), IsInjective(b),
         Range(a) \cap Range(b) = {}
  PROVE  IsInjective(a \o b) /\ Range(a \o b) = Range(a) \cup Range(b)
<1>. DEFINE c == a \o b
            m == Len(a)
            l == Len(b)
<1>1. /\ m \in Nat /\ l \in Nat /\ c \in Seq(S) /\ Len(c) = m + l
      /\ \A i \in 1 .. m : c[i] = a[i]
      /\ \A i \in 1 .. l : c[m + i] = b[i]
      /\ \A i \in 1 .. m + l : i > m => c[i] = b[i - m]
  BY JoinProperties
<1>2. DOMAIN a = 1 .. m /\ DOMAIN b = 1 .. l
  BY LenProperties
<1>. HIDE DEF c, m, l
<1>3. DOMAIN c = 1 .. m + l
  BY <1>1, LenProperties
<1>4. \A i \in 1 .. m + l : i \in 1 .. m \/ (i > m /\ i - m \in 1 .. l)
  BY <1>1
<1>5. \A i \in 1 .. m : i \in 1 .. m + l
  BY <1>1
<1>6. \A i \in 1 .. l : m + i \in 1 .. m + l
  BY <1>1
<1>7. \A i \in 1 .. m, j \in 1 .. l : a[i] # b[j]
  BY <1>2 DEF Range
<1>8. ASSUME NEW i \in 1 .. m + l, NEW j \in 1 .. m + l, c[i] = c[j] PROVE i = j
  <2>1. CASE i \in 1 .. m /\ j \in 1 .. m
    BY <1>1, <1>2, <1>8, <2>1 DEF IsInjective
  <2>2. CASE i > m /\ i - m \in 1 .. l /\ j > m /\ j - m \in 1 .. l
    <3>1. c[i] = b[i - m] /\ c[j] = b[j - m]
      BY <1>1, <2>2
    <3>2. b[i - m] = b[j - m]
      BY <1>8, <3>1
    <3>3. i - m = j - m
      BY <1>2, <2>2, <3>2 DEF IsInjective
    <3>. QED  BY <1>1, <3>3
  <2>3. CASE i \in 1 .. m /\ j > m /\ j - m \in 1 .. l
    BY <1>1, <1>7, <1>8, <2>3
  <2>4. CASE j \in 1 .. m /\ i > m /\ i - m \in 1 .. l
    BY <1>1, <1>7, <1>8, <2>4
  <2>. QED  BY <1>4, <2>1, <2>2, <2>3, <2>4
<1>9. Range(c) \subseteq Range(a) \cup Range(b)
  BY <1>1, <1>2, <1>3, <1>4 DEF Range
<1>10. Range(a) \subseteq Range(c) /\ Range(b) \subseteq Range(c)
  <2>1. \A i \in 1 .. m : a[i] \in Range(c)
    BY <1>1, <1>3, <1>5 DEF Range
  <2>2. \A i \in 1 .. l : b[i] \in Range(c)
    BY <1>1, <1>3, <1>6 DEF Range
  <2>. QED  BY <1>2, <2>1, <2>2 DEF Range
<1>. QED  BY <1>3, <1>8, <1>9, <1>10 DEF IsInjective, c

(* Cutting the front of the first of two joined sequences.                 *)
LEMMA CutFront ==
  ASSUME NEW b \in Seq(Bytes), NEW w \in Seq(Bytes), NEW k \in 0 .. Len(b)
  PROVE  /\ SubSeq(b, k + 1, Len(b)) \o w \in Seq(Bytes)
         /\ Len(SubSeq(b, k + 1, Len(b)) \o w) = Len(b \o w) - k
         /\ \A i \in 1 .. Len(b \o w) - k :
              (SubSeq(b, k + 1, Len(b)) \o w)[i] = (b \o w)[k + i]
<1>. DEFINE r == SubSeq(b, k + 1, Len(b))
            c == r \o w
            d == b \o w
            m == Len(b)
            l == Len(w)
<1>1. m \in Nat /\ l \in Nat /\ k \in 0 .. m
  BY LenProperties
<1>2. r \in Seq(Bytes) /\ Len(r) = m - k /\ \A i \in 1 .. m - k : r[i] = b[k + i]
  BY CutProperties
<1>. HIDE DEF r
<1>3. /\ c \in Seq(Bytes) /\ Len(c) = (m - k) + l
      /\ \A i \in 1 .. m - k : c[i] = r[i]
      /\ \A i \in 1 .. (m - k) + l : i > m - k => c[i] = w[i - (m - k)]
  <2>1. r \in Seq(Bytes) /\ Len(r) = m - k
    BY <1>2
  <2>2. /\ c \in Seq(Bytes) /\ Len(c) = Len(r) + l
        /\ \A i \in 1 .. Len(r) : c[i] = r[i]
        /\ \A i \in 1 .. Len(r) + l : i > Len(r) => c[i] = w[i - Len(r)]
    BY <2>1, JoinProperties
  <2>. HIDE DEF c, m, l
  <2>. QED  BY <2>1, <2>2
<1>4. /\ Len(d) = m + l /\ \A i \in 1 .. m : d[i] = b[i]
      /\ \A i \in 1 .. m + l : i > m => d[i] = w[i - m]
  BY JoinProperties
<1>. HIDE DEF c, d, m, l
<1>5. Len(c) = Len(d) - k
  BY <1>1, <1>3, <1>4
<1>6. ASSUME NEW i \in 1 .. Len(d) - k PROVE c[i] = d[k + i]
  <2>0. i \in 1 .. (m - k) + l
    BY <1>1, <1>4
  <2>1. CASE i <= m - k
    <3>1. i \in 1 .. m - k /\ k + i \in 1 .. m
      BY <1>1, <2>0, <2>1
    <3>. QED  BY <1>2, <1>3, <1>4, <3>1
  <2>2. CASE i > m - k
    <3>1. k + i \in 1 .. m + l /\ k + i > m /\ (k + i) - m = i - (m - k)
      <4>1. m \in Nat /\ l \in Nat /\ k \in Nat /\ i \in Nat /\ k <= m
        BY <1>1, <2>0
      <4>2. k + i > m
        BY <2>2, <4>1
      <4>3. k + i <= m + l
        BY <2>0, <4>1
      <4>4. (k + i) - m = i - (m - k)
        BY <4>1
      <4>. QED  BY <4>1, <4>2, <4>3, <4>4
    <3>2. c[i] = w[i - (m - k)]
      BY <1>3, <2>0, <2>2
    <3>. DEFINE j == k + i
    <3>3. j \in 1 .. m + l /\ j > m /\ j - m = i - (m - k)
      BY <3>1
    <3>. HIDE DEF j
    <3>4. d[j] = w[j - m]
      BY <1>4, <3>3, ZenonT(40)
    <3>. QED  BY <3>2, <3>3, <3>4 DEF j
  <2>. QED  BY <1>1, <2>0, <2>1, <2>2
<1>. QED  BY <1>3, <1>5, <1>6 DEF c, d, r

(* Moving the front of one sequence to the end of another.                 *)
LEMMA MoveFront ==
  ASSUME NEW S, NEW b \in Seq(S), NEW w \in Seq(S), NEW k \in 0 .. Len(w)
  PROVE  (b \o SubSeq(w, 1, k)) \o SubSeq(w, k + 1, Len(w)) = b \o w
<1>1. Len(w) \in Nat
  BY LenProperties
<1>2. SubSeq(w, 1, k) \in Seq(S) /\ SubSeq(w, k + 1, Len(w)) \in Seq(S)
  BY CutProperties
<1>3. SubSeq(w, 1, k) \o SubSeq(w, k + 1, Len(w)) = SubSeq(w, 1, Len(w))
  <2>1. 1 \in 1 .. Len(w) + 1 /\ k \in 1 - 1 .. Len(w) /\ Len(w) \in k .. Len(w)
    BY <1>1
  <2>. QED  BY <2>1, ConcatAdjacentSubSeq
<1>4. SubSeq(w, 1, Len(w)) = w
  BY SubSeqFull
<1>. DEFINE x == SubSeq(w, 1, k)
            y == SubSeq(w, k + 1, Len(w))
<1>. HIDE DEF x, y
<1>5. (b \o x) \o y = b \o (x \o y)
  <2>1. x \in Seq(S) /\ y \in Seq(S)
    BY <1>2 DEF x, y
  <2>. QED  BY <2>1, ConcatAssociative, SMTT(30)
<1>. QED  BY <1>3, <1>4, <1>5 DEF x, y
-----------------------------------------------------------------------------
(***************************************************************************)
(* Types.                                                                  *)
(***************************************************************************)
LEMMA BodyProperties ==
  ASSUME NEW body \in Bodies
  PROVE  Len(body) \in Nat /\ \A i \in 1 .. Len(body) : body[i] \in BodyValues
<1>1. body \in Seq(BodyValues)
  BY StreamAssumption
<1>. QED  BY <1>1, LenProperties, ElementOfSeq

(* The bytes of a packet.                                                  *)
LEMMA PacketShape ==
  ASSUME NEW s \in Sockets, NEW n \in Nat, NEW body \in Bodies
  PROVE  LET p == PacketOf(s, n, body)
         IN /\ p \in Seq(Bytes) /\ Len(p) = HeadSize + Len(body)
            /\ p[1].val = "L1" /\ p[2].val = "L2" /\ p[3].reads = {Len(body)}
            /\ \A i \in 1 .. Len(p) : p[i].src = s /\ p[i].at = <<n, i>>
<1>. DEFINE head == <<Byte(s, <<n, 1>>, "L1", Strange), Byte(s, <<n, 2>>, "L2", Strange),
                      Byte(s, <<n, 3>>, "length", {Len(body)})>>
            data == [i \in 1 .. Len(body) |-> Byte(s, <<n, HeadSize + i>>, body[i], Strange)]
<1>1. Len(body) \in Nat /\ \A i \in 1 .. Len(body) : body[i] \in BodyValues
  BY BodyProperties
<1>2. /\ Byte(s, <<n, 1>>, "L1", Strange) \in Bytes /\ Byte(s, <<n, 2>>, "L2", Strange) \in Bytes
      /\ Byte(s, <<n, 3>>, "length", {Len(body)}) \in Bytes
  <2>1. Strange \in SUBSET Int /\ {Len(body)} \in SUBSET Int
    BY <1>1, StreamAssumption
  <2>. QED  BY <2>1 DEF Byte, Bytes, BodyValues
<1>3. head \in Seq(Bytes) /\ Len(head) = 3
  BY <1>2
<1>4. data \in Seq(Bytes) /\ Len(data) = Len(body)
  <2>1. \A i \in 1 .. Len(body) : Byte(s, <<n, HeadSize + i>>, body[i], Strange) \in Bytes
    BY <1>1, StreamAssumption DEF Byte, Bytes, HeadSize
  <2>2. data \in [1 .. Len(body) -> Bytes]
    BY <2>1
  <2>3. data \in Seq(Bytes)
    BY <1>1, <2>2, IsASeq
  <2>. QED  BY <1>1, <2>3, LenProperties
<1>5. /\ head[1] = Byte(s, <<n, 1>>, "L1", Strange) /\ head[2] = Byte(s, <<n, 2>>, "L2", Strange)
      /\ head[3] = Byte(s, <<n, 3>>, "length", {Len(body)})
  OBVIOUS
<1>6. \A i \in 1 .. Len(body) : data[i].src = s /\ data[i].at = <<n, 3 + i>>
  BY DEF Byte, HeadSize
<1>. DEFINE p == PacketOf(s, n, body)
<1>. HIDE DEF head, data, p
<1>7. p = head \o data
  BY DEF PacketOf, head, data, p
<1>8. /\ p \in Seq(Bytes) /\ Len(p) = 3 + Len(body)
      /\ \A i \in 1 .. 3 : p[i] = head[i]
      /\ \A i \in 1 .. Len(body) : p[3 + i] = data[i]
  <2>1. /\ head \o data \in Seq(Bytes)
        /\ Len(head \o data) = Len(head) + Len(data)
        /\ \A i \in 1 .. Len(head) : (head \o data)[i] = head[i]
        /\ \A i \in 1 .. Len(data) : (head \o data)[Len(head) + i] = data[i]
    <3>1. \A a \in Seq(Bytes), b \in Seq(Bytes) :
            /\ a \o b \in Seq(Bytes) /\ Len(a \o b) = Len(a) + Len(b)
            /\ \A i \in 1 .. Len(a) : (a \o b)[i] = a[i]
            /\ \A i \in 1 .. Len(b) : (a \o b)[Len(a) + i] = b[i]
      BY JoinProperties
    <3>2. head \in Seq(Bytes)
      BY <1>3
    <3>3. data \in Seq(Bytes)
      BY <1>4
    <3>. QED  BY <3>1, <3>2, <3>3
  <2>. QED  BY <1>3, <1>4, <1>7, <2>1
<1>9. p[1] = head[1] /\ p[2] = head[2] /\ p[3] = head[3]
  BY <1>8
<1>10. ASSUME NEW i \in 1 .. Len(p) PROVE p[i].src = s /\ p[i].at = <<n, i>>
  <2>1. CASE i <= 3
    <3>1. i = 1 \/ i = 2 \/ i = 3
      BY <2>1, <1>8, <1>1
    <3>. QED  BY <1>5, <1>9, <3>1 DEF Byte
  <2>2. CASE ~(i <= 3)
    <3>1. i \in 1 .. 3 + Len(body)
      BY <1>8
    <3>2. i - 3 \in 1 .. Len(body) /\ 3 + (i - 3) = i
      BY <1>1, <2>2, <3>1
    <3>3. p[i] = data[i - 3]
      BY <1>8, <3>2
    <3>. QED  BY <1>6, <3>2, <3>3
  <2>. QED  BY <2>1, <2>2
<1>. QED  BY <1>5, <1>8, <1>9, <1>10 DEF Byte, HeadSize, p

(* What was sent are packets, one after the other; who is served has sent. *)
SentInv ==
  /\ \A s \in Sockets : \A k \in 1 .. Len(sent[s]) :
       \E body \in Bodies : sent[s][k] = PacketOf(s, k, body)
  /\ \A s \in Sockets : sent[s] = <<>> => wire[s] = <<>>
  /\ cur # NoSocket => sent[cur] # <<>>

StreamInv == TypeOK /\ SentInv

LEMMA InitStreamInv == Init => StreamInv
<1>. SUFFICES ASSUME Init PROVE StreamInv
  OBVIOUS
<1>1. /\ <<>> \in Seq(Bytes) /\ <<>> \in Seq(Seq(Bytes)) /\ Len(<<>>) = 0
  BY EmptySeq
<1>4. TypeOK
  <2>1. Len(buf) < HeadSize
    BY <1>1 DEF Init, HeadSize
  <2>. QED  BY <1>1, <2>1 DEF Init, TypeOK
<1>5. SentInv
  BY <1>1 DEF Init, SentInv
<1>. QED  BY <1>4, <1>5 DEF StreamInv

(* What is read as a length is a number.                                   *)
LEMMA NumbersRead ==
  ASSUME NEW b \in Seq(Bytes)
  PROVE  LengthsRead(b) \subseteq Int
<1>1. CASE Len(b) >= HeadSize
  <2>1. 3 \in 1 .. Len(b)
    BY <1>1, LenProperties DEF HeadSize
  <2>2. b[3] \in Bytes
    BY <2>1, ElementOfSeq
  <2>3. b[3].reads \subseteq Int
    BY <2>2 DEF Bytes
  <2>. QED  BY <1>1, <2>3 DEF LengthsRead, HeadSize
<1>2. CASE ~(Len(b) >= HeadSize)
  BY <1>2, StreamAssumption DEF LengthsRead
<1>. QED  BY <1>1, <1>2

(* The buffer from its first label on.                                     *)
LEMMA AlignedProperties ==
  ASSUME TypeOK, Labels # {}
  PROVE  /\ FirstLabel \in Labels /\ \A j \in Labels : FirstLabel <= j
         /\ Len(buf) \in Nat /\ FirstLabel \in 1 .. Len(buf) - 1
         /\ Aligned \in Seq(Bytes) /\ Len(Aligned) = Len(buf) - FirstLabel + 1
         /\ \A i \in 1 .. Len(Aligned) : Aligned[i] = buf[FirstLabel - 1 + i]
<1>1. Len(buf) \in Nat /\ buf \in Seq(Bytes)
  BY LenProperties DEF TypeOK
<1>2. Labels \in SUBSET Nat
  BY <1>1 DEF Labels
<1>3. \E i \in Labels : \A j \in Labels : i <= j
  BY <1>2, LeastNatural
<1>4. FirstLabel \in Labels /\ \A j \in Labels : FirstLabel <= j
  BY <1>3 DEF FirstLabel
<1>5. FirstLabel \in 1 .. Len(buf) - 1
  BY <1>4 DEF Labels
<1>. HIDE DEF FirstLabel
<1>. DEFINE k == FirstLabel - 1
<1>6. k \in 0 .. Len(buf) /\ k + 1 = FirstLabel
  BY <1>1, <1>5
<1>. HIDE DEF k
<1>7. /\ SubSeq(buf, k + 1, Len(buf)) \in Seq(Bytes)
      /\ Len(SubSeq(buf, k + 1, Len(buf))) = Len(buf) - k
      /\ \A i \in 1 .. Len(buf) - k : SubSeq(buf, k + 1, Len(buf))[i] = buf[k + i]
  BY <1>1, <1>6, CutProperties
<1>8. /\ Aligned \in Seq(Bytes) /\ Len(Aligned) = Len(buf) - k
      /\ \A i \in 1 .. Len(buf) - k : Aligned[i] = buf[k + i]
  BY <1>6, <1>7 DEF Aligned
<1>9. k = FirstLabel - 1 /\ Len(buf) - k = Len(buf) - FirstLabel + 1
  BY <1>1, <1>5, <1>6
<1>. QED  BY <1>1, <1>4, <1>5, <1>8, <1>9

(* The steps one by one. *)
LEMMA SendStreamInv ==
  ASSUME StreamInv, NEW s \in Sockets, NEW body \in Bodies, Send(s, body)
  PROVE  StreamInv'
<1>. DEFINE p == PacketOf(s, Len(sent[s]) + 1, body)
<1>1. /\ sent[s] \in Seq(Seq(Bytes)) /\ Len(sent[s]) \in Nat /\ wire[s] \in Seq(Bytes)
      /\ sent \in [Sockets -> Seq(Seq(Bytes))] /\ wire \in [Sockets -> Seq(Bytes)]
  BY LenProperties DEF StreamInv, TypeOK
<1>2. p \in Seq(Bytes)
  BY <1>1, PacketShape
<1>3. /\ sent' = [sent EXCEPT ![s] = Append(sent[s], p)]
      /\ wire' = [wire EXCEPT ![s] = wire[s] \o p]
      /\ UNCHANGED <<buf, cur, thrown, delivered>>
  BY DEF Send
<1>4. /\ Append(sent[s], p) \in Seq(Seq(Bytes)) /\ Len(Append(sent[s], p)) = Len(sent[s]) + 1
      /\ Append(sent[s], p)[Len(sent[s]) + 1] = p
      /\ \A k \in 1 .. Len(sent[s]) : Append(sent[s], p)[k] = sent[s][k]
  BY <1>1, <1>2, AppendProperties
<1>5. wire[s] \o p \in Seq(Bytes)
  BY <1>1, <1>2, JoinProperties
<1>6. Append(sent[s], p) # <<>>
  <2>. DEFINE q == Append(sent[s], p)
  <2>1. Len(q) > 0
    BY <1>1, <1>4
  <2>. HIDE DEF q
  <2>2. q # <<>>
    BY <2>1, EmptySeq
  <2>. QED  BY <2>2 DEF q
<1>7. p = PacketOf(s, Len(sent[s]) + 1, body)
  OBVIOUS
<1>. HIDE DEF p
<1>8. TypeOK'
  <2>1. sent' \in [Sockets -> Seq(Seq(Bytes))] /\ wire' \in [Sockets -> Seq(Bytes)]
    BY <1>1, <1>3, <1>4, <1>5
  <2>. QED  BY <1>3, <2>1 DEF StreamInv, TypeOK
<1>9. ASSUME NEW t \in Sockets, NEW k \in 1 .. Len(sent'[t])
      PROVE  \E c \in Bodies : sent'[t][k] = PacketOf(t, k, c)
  <2>1. CASE t # s
    BY <1>1, <1>3, <2>1 DEF StreamInv, SentInv
  <2>2. CASE t = s
    <3>1. sent'[s] = Append(sent[s], p)
      BY <1>1, <1>3
    <3>2. k \in 1 .. Len(sent[s]) \/ k = Len(sent[s]) + 1
      BY <1>1, <1>4, <2>2, <3>1
    <3>3. CASE k \in 1 .. Len(sent[s])
      BY <1>4, <2>2, <3>1, <3>3 DEF StreamInv, SentInv
    <3>4. CASE k = Len(sent[s]) + 1
      BY <1>4, <1>7, <2>2, <3>1, <3>4
    <3>. QED  BY <3>2, <3>3, <3>4
  <2>. QED  BY <2>1, <2>2
<1>10. ASSUME NEW t \in Sockets, sent'[t] = <<>> PROVE wire'[t] = <<>>
  <2>1. t # s
    BY <1>1, <1>3, <1>6, <1>10
  <2>. QED  BY <1>1, <1>3, <1>10, <2>1 DEF StreamInv, SentInv
<1>11. cur' # NoSocket => sent'[cur'] # <<>>
  <2>. SUFFICES ASSUME cur # NoSocket PROVE sent'[cur] # <<>>
    BY <1>3
  <2>1. cur \in Sockets /\ sent[cur] # <<>>
    BY DEF StreamInv, SentInv, TypeOK
  <2>. QED  BY <1>1, <1>3, <1>6, <2>1
<1>. QED  BY <1>8, <1>9, <1>10, <1>11 DEF StreamInv, SentInv

LEMMA RecvStreamInv ==
  ASSUME StreamInv, NEW s \in Sockets, NEW k \in 1 .. Len(wire[s]), RecvBytes(s, k)
  PROVE  StreamInv'
<1>1. wire[s] \in Seq(Bytes) /\ Len(wire[s]) \in Nat /\ buf \in Seq(Bytes)
  BY LenProperties DEF StreamInv, TypeOK
<1>2. k \in 0 .. Len(wire[s])
  BY <1>1
<1>3. SubSeq(wire[s], 1, k) \in Seq(Bytes) /\ SubSeq(wire[s], k + 1, Len(wire[s])) \in Seq(Bytes)
  BY <1>1, <1>2, CutProperties
<1>4. wire[s] # <<>>
  BY <1>1, EmptySeq
<1>5. sent[s] # <<>>
  BY <1>4 DEF StreamInv, SentInv
<1>6. /\ buf' = buf \o SubSeq(wire[s], 1, k)
      /\ wire' = [wire EXCEPT ![s] = SubSeq(wire[s], k + 1, Len(wire[s]))]
      /\ cur' = s /\ UNCHANGED <<sent, thrown, delivered>> /\ NoSocket \notin Sockets
  BY StreamAssumption DEF RecvBytes
<1>7. TypeOK'
  <2>1. buf' \in Seq(Bytes)
    BY <1>1, <1>3, <1>6, JoinProperties
  <2>2. wire' \in [Sockets -> Seq(Bytes)] /\ cur' # NoSocket
    BY <1>3, <1>6 DEF StreamInv, TypeOK
  <2>. QED  BY <1>6, <2>1, <2>2 DEF StreamInv, TypeOK
<1>8. \A t \in Sockets : sent'[t] = <<>> => wire'[t] = <<>>
  BY <1>5, <1>6 DEF StreamInv, SentInv, TypeOK
<1>9. \A t \in Sockets : \A j \in 1 .. Len(sent'[t]) :
        \E body \in Bodies : sent'[t][j] = PacketOf(t, j, body)
  BY <1>6 DEF StreamInv, SentInv
<1>. QED  BY <1>5, <1>6, <1>7, <1>8, <1>9 DEF StreamInv, SentInv

(* A packet that is complete is in the buffer.                             *)
LEMMA PacketFits ==
  ASSUME StreamInv, Labels # {}, NEW n \in LengthsRead(Aligned), n >= 0, Complete(Aligned, n)
  PROVE  Aligned \in Seq(Bytes) /\ PacketLength(n) \in 0 .. Len(Aligned)
<1>1. Aligned \in Seq(Bytes) /\ Len(Aligned) \in Nat
  BY AlignedProperties, LenProperties DEF StreamInv
<1>2. n \in Int
  BY <1>1, NumbersRead
<1>3. Len(Aligned) >= 3 + n /\ PacketLength(n) = 3 + n
  BY DEF Complete, PacketLength, HeadSize
<1>. QED  BY <1>1, <1>2, <1>3

LEMMA AlignedStarts ==
  ASSUME StreamInv, Labels # {}
  PROVE  StartsWithLabel(Aligned)
<1>1. /\ FirstLabel \in Labels /\ FirstLabel \in 1 .. Len(buf) - 1 /\ Len(buf) \in Nat
      /\ Len(Aligned) = Len(buf) - FirstLabel + 1
      /\ \A i \in 1 .. Len(Aligned) : Aligned[i] = buf[FirstLabel - 1 + i]
  BY AlignedProperties DEF StreamInv
<1>2. /\ Len(Aligned) >= 2 /\ 1 \in 1 .. Len(Aligned) /\ 2 \in 1 .. Len(Aligned)
      /\ FirstLabel - 1 + 1 = FirstLabel /\ FirstLabel - 1 + 2 = FirstLabel + 1
  BY <1>1
<1>3. Aligned[1] = buf[FirstLabel] /\ Aligned[2] = buf[FirstLabel + 1]
  BY <1>1, <1>2
<1>4. buf[FirstLabel].val = "L1" /\ buf[FirstLabel + 1].val = "L2"
  BY <1>1 DEF Labels
<1>. QED  BY <1>2, <1>3, <1>4 DEF StartsWithLabel

(* A turn of the loop touches what was pushed and the buffer only.         *)
LEMMA DispatchStreamInv ==
  ASSUME StreamInv, Dispatch
  PROVE  StreamInv'
<1>1. Len(buf) \in Nat /\ buf \in Seq(Bytes) /\ cur \in Sockets /\ cur # NoSocket
  BY LenProperties DEF StreamInv, TypeOK, Dispatch, InLoop, NoHead, NoLabel, Incomplete, PushPacket
<1>2. UNCHANGED <<sent, wire>>
  BY DEF Dispatch, NoHead, NoLabel, Incomplete, PushPacket
<1>3. SUFFICES /\ buf' \in Seq(Bytes) /\ cur' \in {cur, NoSocket} /\ thrown' \in BOOLEAN
               /\ delivered' \in [Sockets -> Seq(Seq(Bytes))]
               /\ cur' = NoSocket => Len(buf') < HeadSize \/ StartsWithLabel(buf')
  BY <1>1, <1>2 DEF StreamInv, TypeOK, SentInv
<1>4. thrown \in BOOLEAN /\ delivered \in [Sockets -> Seq(Seq(Bytes))]
  BY DEF StreamInv, TypeOK
<1>5. CASE NoHead
  BY <1>1, <1>4, <1>5 DEF NoHead
<1>6. CASE NoLabel
  <2>1. buf' = <<>> /\ cur' = NoSocket /\ UNCHANGED <<thrown, delivered>>
    BY <1>6 DEF NoLabel
  <2>2. Len(buf') < HeadSize /\ buf' \in Seq(Bytes)
    BY <2>1, EmptySeq DEF HeadSize
  <2>. QED  BY <1>4, <2>1, <2>2
<1>7. CASE Incomplete
  <2>1. buf' = Aligned /\ cur' = NoSocket /\ UNCHANGED <<thrown, delivered>> /\ Labels # {}
    BY <1>7 DEF Incomplete
  <2>2. Aligned \in Seq(Bytes)
    BY <2>1, AlignedProperties DEF StreamInv
  <2>3. StartsWithLabel(Aligned)
    BY <2>1, AlignedStarts
  <2>. QED  BY <1>4, <2>1, <2>2, <2>3
<1>8. ASSUME Labels # {}, NEW n \in LengthsRead(Aligned), Complete(Aligned, n), PushBytes(n)
      PROVE  /\ buf' \in Seq(Bytes) /\ cur' = cur /\ thrown' = thrown
             /\ delivered' \in [Sockets -> Seq(Seq(Bytes))]
  <2>. DEFINE len == PacketLength(n)
  <2>1. /\ cur' = cur /\ thrown' = thrown /\ n >= 0
        /\ delivered' = [delivered EXCEPT ![cur] = Append(delivered[cur], SubSeq(Aligned, 1, len))]
        /\ buf' = SubSeq(Aligned, len + 1, Len(Aligned))
    BY <1>8 DEF PushBytes, LoopAgain, Rest
  <2>2. Aligned \in Seq(Bytes) /\ len \in 0 .. Len(Aligned)
    BY <1>8, <2>1, PacketFits
  <2>. HIDE DEF len
  <2>3. SubSeq(Aligned, 1, len) \in Seq(Bytes) /\ SubSeq(Aligned, len + 1, Len(Aligned)) \in Seq(Bytes)
    BY <2>2, CutProperties
  <2>4. delivered[cur] \in Seq(Seq(Bytes))
    BY <1>1, <1>4
  <2>5. Append(delivered[cur], SubSeq(Aligned, 1, len)) \in Seq(Seq(Bytes))
    BY <2>3, <2>4, AppendProperties
  <2>6. delivered' \in [Sockets -> Seq(Seq(Bytes))]
    BY <1>4, <2>1, <2>5
  <2>. QED  BY <2>1, <2>3, <2>6
<1>9. CASE PushPacket
  <2>1. PICK n \in LengthsRead(Aligned) :
          Labels # {} /\ Complete(Aligned, n) /\ (PushBytes(n) \/ NewThrows(n))
    BY <1>9 DEF PushPacket
  <2>2. CASE PushBytes(n)
    BY <1>1, <1>4, <1>8, <2>1, <2>2
  <2>3. CASE NewThrows(n)
    BY <1>1, <1>4, <2>3 DEF NewThrows
  <2>. QED  BY <2>1, <2>2, <2>3
<1>. QED  BY <1>5, <1>6, <1>7, <1>9 DEF Dispatch

LEMMA NextStreamInv == StreamInv /\ [Next]_vars => StreamInv'
<1>. SUFFICES ASSUME StreamInv, [Next]_vars PROVE StreamInv'
  OBVIOUS
<1>1. CASE Dispatch
  BY <1>1, DispatchStreamInv
<1>2. ASSUME NEW s \in Sockets, Recv(s) PROVE StreamInv'
  BY <1>2, RecvStreamInv DEF Recv
<1>3. ASSUME NEW s \in Sockets, NEW body \in Bodies, Send(s, body) PROVE StreamInv'
  BY <1>3, SendStreamInv
<1>4. CASE UNCHANGED vars
  BY <1>4 DEF vars, StreamInv, SentInv, TypeOK
<1>. QED  BY <1>1, <1>2, <1>3, <1>4 DEF Next

(* The types hold, and a call of DispatchParamData leaves in s_AnlyBuff     *)
(* fewer bytes than a head or bytes that start with a label, however many   *)
(* connections write into it and whatever is read as a length.              *)
THEOREM StreamTypeCorrect == Spec => []TypeOK
<1>1. StreamInv => TypeOK
  BY DEF StreamInv
<1>. QED  BY <1>1, InitStreamInv, NextStreamInv, PTL DEF Spec
-----------------------------------------------------------------------------
(***************************************************************************)
(* A connection that is alone.  The bytes received and not yet cut,        *)
(* followed by those on the wire, are the packets not yet pushed.  The     *)
(* packets of a connection start at start[0], start[1], ..., counted from  *)
(* the first byte sent, and the first n have been pushed.                  *)
(***************************************************************************)
Starts(packets, start) ==
  /\ \A k \in 0 .. Len(packets) : start[k] \in Nat
  /\ \A k \in 1 .. Len(packets) : start[k] = start[k - 1] + Len(packets[k])
  /\ \A j, k \in 0 .. Len(packets) : j <= k => start[j] <= start[k]

Carried(packets, n, coming, start) ==
  /\ Starts(packets, start)
  /\ start[n] + Len(coming) = start[Len(packets)]
  /\ \A k \in n + 1 .. Len(packets) : \A i \in 1 .. Len(packets[k]) :
       coming[(start[k - 1] - start[n]) + i] = packets[k][i]

LEMMA Offsets ==
  ASSUME NEW from \in Nat, NEW before \in Nat, NEW after \in Nat, NEW end \in Nat,
         NEW l \in Nat, NEW len \in Nat, after = before + l, from <= before, after <= end,
         from + len = end
  PROVE  /\ l <= len /\ len - l \in Nat /\ end - from = len
         /\ \A i \in 1 .. l : (before - from) + i \in 1 .. len
OBVIOUS

LEMMA ShiftedOffsets ==
  ASSUME NEW from \in Nat, NEW to \in Nat, NEW before \in Nat, NEW after \in Nat, NEW end \in Nat,
         NEW l \in Nat, NEW lk \in Nat, NEW left \in Nat,
         to = from + l, to <= before, after = before + lk, after <= end, to + left = end
  PROVE  \A i \in 1 .. lk : /\ (before - to) + i \in 1 .. left
                            /\ l + ((before - to) + i) = (before - from) + i
OBVIOUS

(* Where the bytes of a packet are.                                        *)
PlaceOf(packets, n, coming, start, k) ==
  /\ k \in Nat /\ k \in 1 .. Len(packets) /\ Len(coming) \in Nat
  /\ start[n] \in Nat /\ start[k] \in Nat /\ start[k - 1] \in Nat /\ start[Len(packets)] \in Nat
  /\ Len(packets[k]) \in Nat
  /\ start[k] = start[k - 1] + Len(packets[k])
  /\ start[n] <= start[k - 1] /\ start[k] <= start[Len(packets)]
  /\ start[n] + Len(coming) = start[Len(packets)]
  /\ \A i \in 1 .. Len(packets[k]) :
       /\ (start[k - 1] - start[n]) + i \in 1 .. Len(coming)
       /\ coming[(start[k - 1] - start[n]) + i] = packets[k][i]

LEMMA PacketPlace ==
  ASSUME NEW S, NEW packets \in Seq(Seq(S)), NEW n \in 0 .. Len(packets), NEW coming \in Seq(S),
         NEW start, NEW k \in n + 1 .. Len(packets)
  PROVE  Carried(packets, n, coming, start) => PlaceOf(packets, n, coming, start, k)
<1>0. HAVE Carried(packets, n, coming, start)
<1>. DEFINE m == Len(packets)
            l == Len(packets[k])
<1>1. m \in Nat /\ n \in Nat /\ n <= m /\ Len(coming) \in Nat
  BY LenProperties
<1>2. k \in Nat /\ k \in 1 .. m /\ k - 1 \in Nat /\ k - 1 \in 0 .. m /\ k \in 0 .. m /\ n <= k - 1 /\ k <= m
      /\ n \in 0 .. m /\ m \in 0 .. m
  BY <1>1
<1>3. start[n] \in Nat /\ start[k] \in Nat /\ start[k - 1] \in Nat /\ start[m] \in Nat
  BY <1>0, <1>2 DEF Carried, Starts
<1>4. packets[k] \in Seq(S)
  BY <1>2, ElementOfSeq
<1>5. l \in Nat
  BY <1>4, LenProperties
<1>6. start[k] = start[k - 1] + l /\ start[n] <= start[k - 1] /\ start[k] <= start[m]
  BY <1>0, <1>2 DEF Carried, Starts
<1>7. start[n] + Len(coming) = start[m]
  BY <1>0 DEF Carried
<1>8. \A i \in 1 .. l : coming[(start[k - 1] - start[n]) + i] = packets[k][i]
  BY <1>0 DEF Carried
<1>9. \A i \in 1 .. l : (start[k - 1] - start[n]) + i \in 1 .. Len(coming)
  <2>. DEFINE sn == start[n]
              sb == start[k - 1]
              sk == start[k]
              sm == start[m]
              len == Len(coming)
  <2>1. sn \in Nat /\ sb \in Nat /\ sk \in Nat /\ sm \in Nat /\ len \in Nat /\ l \in Nat
    BY <1>1, <1>3, <1>5
  <2>2. sk = sb + l /\ sn <= sb /\ sk <= sm /\ sn + len = sm
    BY <1>6, <1>7
  <2>. HIDE DEF sn, sb, sk, sm, len, l
  <2>3. \A i \in 1 .. l : (sb - sn) + i \in 1 .. len
    BY <2>1, <2>2, Offsets
  <2>. QED  BY <2>3 DEF sn, sb, len
<1>. HIDE DEF m, l
<1>. QED  BY <1>1, <1>2, <1>3, <1>4, <1>5, <1>6, <1>7, <1>8, <1>9 DEF m, l, PlaceOf

(* The first packet that was not pushed.                                   *)
LEMMA NextPacket ==
  ASSUME NEW S, NEW packets \in Seq(Seq(S)), NEW n \in Nat, n < Len(packets), NEW coming \in Seq(S),
         NEW start
  PROVE  Carried(packets, n, coming, start) =>
         /\ Len(packets[n + 1]) <= Len(coming)
         /\ \A i \in 1 .. Len(packets[n + 1]) : coming[i] = packets[n + 1][i]
<1>0. HAVE Carried(packets, n, coming, start)
<1>1. n \in 0 .. Len(packets) /\ n + 1 \in n + 1 .. Len(packets) /\ (n + 1) - 1 = n
  <2>1. Len(packets) \in Nat
    BY LenProperties
  <2>. QED  BY <2>1
<1>. DEFINE l == Len(packets[n + 1])
<1>2. /\ Len(coming) \in Nat /\ start[n] \in Nat /\ start[n + 1] \in Nat /\ start[Len(packets)] \in Nat
      /\ l \in Nat /\ start[n + 1] = start[n] + l /\ start[n + 1] <= start[Len(packets)]
      /\ start[n] + Len(coming) = start[Len(packets)]
      /\ \A i \in 1 .. l : coming[(start[n] - start[n]) + i] = packets[n + 1][i]
  <2>1. PlaceOf(packets, n, coming, start, n + 1)
    BY <1>0, <1>1, PacketPlace
  <2>. QED  BY <1>1, <2>1 DEF PlaceOf
<1>. HIDE DEF l
<1>3. l <= Len(coming) /\ \A i \in 1 .. l : (start[n] - start[n]) + i = i
  <2>. DEFINE sn == start[n]
              sk == start[n + 1]
              sm == start[Len(packets)]
              len == Len(coming)
  <2>1. /\ sn \in Nat /\ sk \in Nat /\ sm \in Nat /\ len \in Nat /\ l \in Nat
        /\ sk = sn + l /\ sk <= sm /\ sn + len = sm
    BY <1>2
  <2>. HIDE DEF sn, sk, sm, len
  <2>2. l <= len /\ \A i \in 1 .. l : (sn - sn) + i = i
    BY <2>1
  <2>. QED  BY <2>2 DEF sn, len
<1>4. \A i \in 1 .. l : coming[i] = packets[n + 1][i]
  BY <1>2, <1>3
<1>. QED  BY <1>3, <1>4 DEF l

(* It is cut off.                                                          *)
LEMMA CutPacket ==
  ASSUME NEW S, NEW packets \in Seq(Seq(S)), NEW n \in Nat, n < Len(packets), NEW coming \in Seq(S),
         NEW start,
         NEW rest \in Seq(S), Len(rest) = Len(coming) - Len(packets[n + 1]),
         \A i \in 1 .. Len(rest) : rest[i] = coming[Len(packets[n + 1]) + i]
  PROVE  Carried(packets, n, coming, start) => Carried(packets, n + 1, rest, start)
<1>0. HAVE Carried(packets, n, coming, start)
<1>1. /\ n \in 0 .. Len(packets) /\ n + 1 \in n + 1 .. Len(packets) /\ (n + 1) - 1 = n
      /\ Len(packets) \in Nat
  <2>1. Len(packets) \in Nat
    BY LenProperties
  <2>. QED  BY <2>1
<1>. DEFINE l == Len(packets[n + 1])
            last == start[Len(packets)]
<1>2. /\ Len(coming) \in Nat /\ start[n] \in Nat /\ start[n + 1] \in Nat /\ last \in Nat
      /\ l \in Nat /\ start[n + 1] = start[n] + l /\ start[n + 1] <= last
      /\ start[n] + Len(coming) = last
  <2>1. PlaceOf(packets, n, coming, start, n + 1)
    BY <1>0, <1>1, PacketPlace
  <2>. QED  BY <1>1, <2>1 DEF PlaceOf
<1>3. Len(rest) = Len(coming) - l /\ \A i \in 1 .. Len(rest) : rest[i] = coming[l + i]
  OBVIOUS
<1>. HIDE DEF l, last
<1>. DEFINE first == start[n]
            next == start[n + 1]
            len == Len(coming)
            left == Len(rest)
<1>4. /\ first \in Nat /\ next \in Nat /\ last \in Nat /\ l \in Nat /\ len \in Nat
      /\ next = first + l /\ next <= last /\ first + len = last /\ left = len - l
  BY <1>2, <1>3
<1>. HIDE DEF first, next, len, left
<1>7. next + left = last /\ left \in Nat
  BY <1>4
<1>5. ASSUME NEW k \in (n + 1) + 1 .. Len(packets), NEW i \in 1 .. Len(packets[k])
      PROVE  rest[(start[k - 1] - start[n + 1]) + i] = packets[k][i]
  <2>. DEFINE before == start[k - 1]
              lk == Len(packets[k])
  <2>1. k \in n + 1 .. Len(packets) /\ k - 1 \in Nat /\ n + 1 <= k - 1
        /\ n + 1 \in 0 .. Len(packets) /\ k - 1 \in 0 .. Len(packets)
    BY <1>1
  <2>2. /\ before \in Nat /\ start[k] \in Nat /\ lk \in Nat
        /\ start[k] = before + lk /\ start[k] <= last
        /\ coming[(before - first) + i] = packets[k][i]
    <3>1. PlaceOf(packets, n, coming, start, k)
      BY <1>0, <1>1, <2>1, PacketPlace
    <3>. QED  BY <3>1 DEF PlaceOf, last, first
  <2>3. next <= before
    BY <1>0, <2>1 DEF Carried, Starts, next
  <2>4. i \in 1 .. lk
    OBVIOUS
  <2>. DEFINE after == start[k]
  <2>5. after \in Nat /\ after = before + lk /\ after <= last
    BY <2>2
  <2>. HIDE DEF before, lk, after
  <2>6. /\ (before - next) + i \in 1 .. left
        /\ l + ((before - next) + i) = (before - first) + i
    BY <1>4, <1>7, <2>2, <2>3, <2>4, <2>5, ShiftedOffsets
  <2>7. rest[(before - next) + i] = packets[k][i]
    BY <1>3, <2>2, <2>6 DEF left
  <2>. QED  BY <2>7 DEF before, next
<1>6. Starts(packets, start)
  BY <1>0 DEF Carried
<1>. QED  BY <1>5, <1>6, <1>7 DEF Carried, last, next, left

(* A packet is sent.                                                       *)
LEMMA AddPacket ==
  ASSUME NEW S, NEW packets \in Seq(Seq(S)), NEW n \in 0 .. Len(packets), NEW coming \in Seq(S),
         NEW start, NEW p \in Seq(S)
  PROVE  Carried(packets, n, coming, start) =>
         \E new : Carried(Append(packets, p), n, coming \o p, new)
<1>0. HAVE Carried(packets, n, coming, start)
<1>. DEFINE m == Len(packets)
            new == [k \in 0 .. m + 1 |-> IF k = m + 1 THEN start[m] + Len(p) ELSE start[k]]
            more == Append(packets, p)
            c == coming \o p
<1>1. m \in Nat /\ n \in Nat /\ n <= m /\ Len(p) \in Nat /\ Len(coming) \in Nat
  BY LenProperties
<1>2. \A k \in 0 .. m : start[k] \in Nat
  BY <1>0 DEF Carried, Starts
<1>3. new[m + 1] = start[m] + Len(p) /\ \A k \in 0 .. m : new[k] = start[k]
  BY <1>1
<1>4. Len(more) = m + 1 /\ more[m + 1] = p /\ \A k \in 1 .. m : more[k] = packets[k]
  BY AppendProperties
<1>5. /\ Len(c) = Len(coming) + Len(p)
      /\ \A i \in 1 .. Len(coming) : c[i] = coming[i]
      /\ \A i \in 1 .. Len(p) : c[Len(coming) + i] = p[i]
  BY JoinProperties
<1>6. /\ \A k \in 1 .. m : start[k] = start[k - 1] + Len(packets[k])
      /\ \A j, k \in 0 .. m : j <= k => start[j] <= start[k]
      /\ start[n] + Len(coming) = start[m]
  BY <1>0 DEF Carried, Starts
<1>. HIDE DEF new, more, c
<1>7. /\ new[n] = start[n] /\ new[m] = start[m] /\ start[n] \in Nat /\ start[m] \in Nat
      /\ \A k \in 0 .. m + 1 : new[k] \in Nat
  <2>1. n \in 0 .. m /\ m \in 0 .. m
    BY <1>1
  <2>2. start[m] + Len(p) \in Nat
    BY <1>1, <1>2, <2>1, SMTT(30)
  <2>3. \A k \in 0 .. m + 1 : k \in 0 .. m \/ k = m + 1
    BY <1>1
  <2>. QED  BY <1>2, <1>3, <2>1, <2>2, <2>3
<1>8. ASSUME NEW k \in 1 .. m + 1 PROVE new[k] = new[k - 1] + Len(more[k])
  <2>1. CASE k = m + 1
    <3>1. (m + 1) - 1 = m /\ m \in 0 .. m
      BY <1>1
    <3>2. new[m] = start[m]
      BY <1>3, <3>1
    <3>. QED  BY <1>3, <1>4, <2>1, <3>1, <3>2
  <2>2. CASE k # m + 1
    <3>1. k \in 1 .. m /\ k \in 0 .. m /\ k - 1 \in 0 .. m
      BY <1>1, <2>2
    <3>. QED  BY <1>3, <1>4, <1>6, <3>1
  <2>. QED  BY <2>1, <2>2
<1>9. ASSUME NEW j \in 0 .. m + 1, NEW k \in 0 .. m + 1, j <= k PROVE new[j] <= new[k]
  <2>1. CASE k \in 0 .. m
    <3>1. j \in 0 .. m
      BY <1>1, <1>9, <2>1
    <3>. QED  BY <1>3, <1>6, <1>9, <2>1, <3>1
  <2>2. CASE k = m + 1 /\ j = m + 1
    <3>1. new[m + 1] \in Nat
      BY <1>1, <1>7
    <3>. QED  BY <2>2, <3>1
  <2>3. CASE k = m + 1 /\ j \in 0 .. m
    <3>1. start[j] <= start[m] /\ new[j] = start[j] /\ start[j] \in Nat
      BY <1>1, <1>2, <1>3, <1>6, <2>3
    <3>. QED  BY <1>1, <1>3, <1>7, <2>3, <3>1
  <2>4. k \in 0 .. m \/ k = m + 1
    BY <1>1
  <2>5. j \in 0 .. m \/ j = m + 1
    BY <1>1
  <2>. QED  BY <2>1, <2>2, <2>3, <2>4, <2>5
<1>10. new[n] + Len(c) = new[m + 1]
  BY <1>1, <1>3, <1>5, <1>6, <1>7
<1>11. ASSUME NEW k \in n + 1 .. m + 1, NEW i \in 1 .. Len(more[k])
       PROVE  c[(new[k - 1] - new[n]) + i] = more[k][i]
  <2>1. CASE k = m + 1
    <3>1. (m + 1) - 1 = m /\ i \in 1 .. Len(p)
      BY <1>1, <1>4, <2>1
    <3>2. (start[m] - start[n]) + i = Len(coming) + i
      BY <1>1, <1>6, <1>7, <3>1
    <3>. QED  BY <1>4, <1>5, <1>7, <2>1, <3>1, <3>2, SMTT(30)
  <2>2. CASE k # m + 1
    <3>1. k \in n + 1 .. m /\ k \in 1 .. m /\ k - 1 \in 0 .. m
      BY <1>1, <2>2
    <3>2. more[k] = packets[k] /\ new[k - 1] = start[k - 1]
      BY <1>3, <1>4, <3>1
    <3>3. /\ (start[k - 1] - start[n]) + i \in 1 .. Len(coming)
          /\ coming[(start[k - 1] - start[n]) + i] = packets[k][i]
      <4>1. PlaceOf(packets, n, coming, start, k)
        BY <1>0, <3>1, PacketPlace
      <4>. QED  BY <3>2, <4>1 DEF PlaceOf
    <3>. QED  BY <1>5, <1>7, <3>2, <3>3
  <2>. QED  BY <2>1, <2>2
<1>12. Carried(more, n, c, new)
  BY <1>4, <1>8, <1>9, <1>7, <1>10, <1>11 DEF Carried, Starts
<1>. QED  BY <1>12 DEF more, c
-----------------------------------------------------------------------------
(* What a connection that is alone has pushed; a complete packet does not  *)
(* wait.                                                                   *)
Coming(s) == buf \o wire[s]

Pushed(s) ==
  LET n == Len(delivered[s])
  IN /\ ~thrown /\ n <= Len(sent[s])
     /\ \A k \in 1 .. n : delivered[s][k] = sent[s][k]
     /\ cur = NoSocket => n = Len(sent[s]) \/ Len(buf) < Len(sent[s][n + 1])

FrameInv ==
  \A s \in Sockets : Alone(s) =>
    /\ Pushed(s)
    /\ \E start : Carried(sent[s], Len(delivered[s]), Coming(s), start)

LEMMA InitFrameInv == Init => FrameInv
<1>. SUFFICES ASSUME Init, NEW s \in Sockets
              PROVE  /\ Pushed(s)
                     /\ \E start : Carried(sent[s], Len(delivered[s]), Coming(s), start)
  BY DEF FrameInv
<1>. DEFINE start == [k \in {0} |-> 0]
<1>1. sent[s] = <<>> /\ wire[s] = <<>> /\ buf = <<>> /\ delivered[s] = <<>> /\ thrown = FALSE
  BY DEF Init
<1>2. Len(<<>>) = 0 /\ <<>> \o <<>> = <<>>
  BY EmptySeq
<1>3. Coming(s) = <<>>
  BY <1>1, <1>2 DEF Coming
<1>4. start[0] = 0
  OBVIOUS
<1>. HIDE DEF start
<1>5. Carried(<<>>, 0, <<>>, start)
  BY <1>2, <1>4 DEF Carried, Starts
<1>6. Pushed(s)
  BY <1>1, <1>2 DEF Pushed
<1>. QED  BY <1>1, <1>2, <1>3, <1>5, <1>6

(* What the packets of a connection are.                                   *)
LEMMA SentPackets ==
  ASSUME StreamInv, NEW s \in Sockets
  PROVE  /\ sent[s] \in Seq(Seq(Bytes)) /\ Len(sent[s]) \in Nat
         /\ delivered[s] \in Seq(Seq(Bytes)) /\ Len(delivered[s]) \in Nat
         /\ wire[s] \in Seq(Bytes) /\ Len(wire[s]) \in Nat
         /\ buf \in Seq(Bytes) /\ Len(buf) \in Nat
         /\ Coming(s) \in Seq(Bytes) /\ Len(Coming(s)) = Len(buf) + Len(wire[s])
         /\ \A i \in 1 .. Len(buf) : Coming(s)[i] = buf[i]
<1>1. /\ sent[s] \in Seq(Seq(Bytes)) /\ delivered[s] \in Seq(Seq(Bytes))
      /\ wire[s] \in Seq(Bytes) /\ buf \in Seq(Bytes)
  BY DEF StreamInv, TypeOK
<1>2. Len(sent[s]) \in Nat /\ Len(delivered[s]) \in Nat
  BY <1>1, LenProperties
<1>3. Len(wire[s]) \in Nat /\ Len(buf) \in Nat
  BY <1>1, LenProperties
<1>4. /\ Coming(s) \in Seq(Bytes) /\ Len(Coming(s)) = Len(buf) + Len(wire[s])
      /\ \A i \in 1 .. Len(buf) : Coming(s)[i] = buf[i]
  BY <1>1, JoinProperties DEF Coming
<1>. QED  BY <1>1, <1>2, <1>3, <1>4

LEMMA SentPacket ==
  ASSUME StreamInv, NEW s \in Sockets, NEW k \in 1 .. Len(sent[s])
  PROVE  LET p == sent[s][k]
         IN /\ p \in Seq(Bytes) /\ Len(p) \in Nat /\ Len(p) >= 3
            /\ p[1].val = "L1" /\ p[2].val = "L2" /\ p[3].reads = {Len(p) - 3}
<1>1. PICK body \in Bodies : sent[s][k] = PacketOf(s, k, body)
  BY DEF StreamInv, SentInv
<1>2. k \in Nat
  BY SentPackets
<1>3. Len(body) \in Nat
  BY <1>1, BodyProperties
<1>. DEFINE p == PacketOf(s, k, body)
<1>4. /\ p \in Seq(Bytes) /\ Len(p) = HeadSize + Len(body)
      /\ p[1].val = "L1" /\ p[2].val = "L2" /\ p[3].reads = {Len(body)}
  BY <1>1, <1>2, PacketShape, SMTT(30)
<1>. HIDE DEF p
<1>5. Len(p) \in Nat /\ Len(p) >= 3 /\ Len(body) = Len(p) - 3
  BY <1>3, <1>4 DEF HeadSize
<1>. QED  BY <1>1, <1>4, <1>5 DEF p

(* When everything was pushed, the buffer is empty.                        *)
LEMMA CaughtUp ==
  ASSUME StreamInv, NEW s \in Sockets, NEW start, Len(delivered[s]) = Len(sent[s])
  PROVE  Carried(sent[s], Len(delivered[s]), Coming(s), start) => Len(buf) = 0
<1>0. HAVE Carried(sent[s], Len(delivered[s]), Coming(s), start)
<1>1. /\ Len(sent[s]) \in Nat /\ Len(wire[s]) \in Nat /\ Len(buf) \in Nat
      /\ Len(Coming(s)) = Len(buf) + Len(wire[s])
  BY SentPackets
<1>. DEFINE a == start[Len(sent[s])]
            b == Len(buf)
            w == Len(wire[s])
<1>2. a \in Nat /\ a + (b + w) = a
  <2>1. Len(sent[s]) \in 0 .. Len(sent[s])
    BY <1>1
  <2>. QED  BY <1>0, <1>1, <2>1 DEF Carried, Starts
<1>3. b \in Nat /\ w \in Nat
  BY <1>1
<1>. HIDE DEF a, b, w
<1>4. b = 0
  BY <1>2, <1>3
<1>. QED  BY <1>4 DEF b

(* Received bytes only move.                                               *)
LEMMA RecvFrameInv ==
  ASSUME StreamInv, FrameInv, NEW s \in Sockets, NEW k \in 1 .. Len(wire[s]), RecvBytes(s, k)
  PROVE  FrameInv'
<1>. SUFFICES ASSUME NEW t \in Sockets, Alone(t)'
              PROVE  (/\ Pushed(t)
                      /\ \E start : Carried(sent[t], Len(delivered[t]), Coming(t), start))'
  BY DEF FrameInv
<1>1. /\ buf' = buf \o SubSeq(wire[s], 1, k)
      /\ wire' = [wire EXCEPT ![s] = SubSeq(wire[s], k + 1, Len(wire[s]))]
      /\ cur' = s /\ sent' = sent /\ delivered' = delivered /\ thrown' = thrown
      /\ NoSocket \notin Sockets
  BY StreamAssumption DEF RecvBytes
<1>2. Alone(t)
  BY <1>1 DEF Alone
<1>3. wire[s] \in Seq(Bytes) /\ Len(wire[s]) \in Nat /\ buf \in Seq(Bytes)
  BY SentPackets
<1>4. k \in 0 .. Len(wire[s])
  BY <1>3
<1>5. s = t
  <2>1. wire[s] # <<>>
    BY <1>3, EmptySeq
  <2>2. sent[s] # <<>>
    BY <2>1 DEF StreamInv, SentInv
  <2>. QED  BY <1>2, <2>2 DEF Alone
<1>6. Coming(t)' = Coming(t)
  <2>1. wire'[s] = SubSeq(wire[s], k + 1, Len(wire[s]))
    BY <1>1 DEF StreamInv, TypeOK
  <2>2. (buf \o SubSeq(wire[s], 1, k)) \o SubSeq(wire[s], k + 1, Len(wire[s])) = buf \o wire[s]
    BY <1>3, <1>4, MoveFront
  <2>. QED  BY <1>1, <1>5, <2>1, <2>2 DEF Coming
<1>7. \E start : Carried(sent[t], Len(delivered[t]), Coming(t), start)
  BY <1>2 DEF FrameInv
<1>8. Pushed(t)'
  <2>1. cur' # NoSocket
    BY <1>1
  <2>2. Pushed(t)
    BY <1>2 DEF FrameInv
  <2>. QED  BY <1>1, <2>1, <2>2 DEF Pushed
<1>. QED  BY <1>1, <1>6, <1>7, <1>8

(* A packet is sent behind the others.                                     *)
LEMMA SendFrameInv ==
  ASSUME StreamInv, FrameInv, NEW s \in Sockets, NEW body \in Bodies, Send(s, body)
  PROVE  FrameInv'
<1>. SUFFICES ASSUME NEW t \in Sockets, Alone(t)'
              PROVE  (/\ Pushed(t)
                      /\ \E start : Carried(sent[t], Len(delivered[t]), Coming(t), start))'
  BY DEF FrameInv
<1>. DEFINE p == PacketOf(s, Len(sent[s]) + 1, body)
<1>1. /\ sent' = [sent EXCEPT ![s] = Append(sent[s], p)]
      /\ wire' = [wire EXCEPT ![s] = wire[s] \o p]
      /\ buf' = buf /\ cur' = cur /\ delivered' = delivered /\ thrown' = thrown
  BY DEF Send
<1>2. Len(sent[s]) + 1 \in Nat
  BY SentPackets
<1>3. p \in Seq(Bytes) /\ Len(p) = HeadSize + Len(body) /\ Len(body) \in Nat
  BY <1>2, PacketShape, BodyProperties, SMTT(30)
<1>. HIDE DEF p
<1>4. Len(p) \in Nat /\ Len(p) >= 3
  BY <1>3 DEF HeadSize
<1>5. /\ sent'[s] = Append(sent[s], p) /\ wire'[s] = wire[s] \o p
      /\ \A r \in Sockets : r # s => sent'[r] = sent[r]
  BY <1>1 DEF StreamInv, TypeOK
<1>6. /\ sent[s] \in Seq(Seq(Bytes)) /\ Len(sent[s]) \in Nat /\ Len(delivered[s]) \in Nat
      /\ wire[s] \in Seq(Bytes) /\ Coming(s) \in Seq(Bytes) /\ buf \in Seq(Bytes)
      /\ Len(wire[s]) \in Nat /\ Len(buf) \in Nat /\ Len(Coming(s)) = Len(buf) + Len(wire[s])
  BY SentPackets
<1>7. /\ Append(sent[s], p) # <<>> /\ Len(Append(sent[s], p)) = Len(sent[s]) + 1
      /\ Append(sent[s], p)[Len(sent[s]) + 1] = p
      /\ \A k \in 1 .. Len(sent[s]) : Append(sent[s], p)[k] = sent[s][k]
  <2>1. sent[s] \in Seq(Seq(Bytes)) /\ p \in Seq(Bytes) /\ Len(sent[s]) \in Nat
    BY <1>3, <1>6
  <2>2. /\ Append(sent[s], p) \in Seq(Seq(Bytes)) /\ Len(Append(sent[s], p)) = Len(sent[s]) + 1
        /\ Append(sent[s], p)[Len(sent[s]) + 1] = p
        /\ \A k \in 1 .. Len(sent[s]) : Append(sent[s], p)[k] = sent[s][k]
    BY <2>1, AppendProperties
  <2>3. Append(sent[s], p) # <<>>
    BY <2>1, AppendProperties
  <2>. QED  BY <2>2, <2>3
<1>8. t = s
  BY <1>5, <1>7 DEF Alone
<1>9. Alone(s)
  BY <1>5, <1>8 DEF Alone
<1>10. Coming(s)' = Coming(s) \o p
  <2>1. (buf \o wire[s]) \o p = buf \o (wire[s] \o p)
    <3>1. \A b, w \in Seq(Bytes) : (b \o w) \o p = b \o (w \o p)
      BY <1>3, ConcatAssociative, SMTT(30)
    <3>. QED  BY <1>6, <3>1
  <2>. QED  BY <1>1, <1>5, <2>1 DEF Coming
<1>11. Pushed(s)
  BY <1>9 DEF FrameInv
<1>12. PICK start : Carried(sent[s], Len(delivered[s]), Coming(s), start)
  BY <1>9 DEF FrameInv
<1>13. Len(delivered[s]) \in 0 .. Len(sent[s])
  BY <1>6, <1>11 DEF Pushed
<1>14. \E new : Carried(Append(sent[s], p), Len(delivered[s]), Coming(s) \o p, new)
  BY <1>3, <1>6, <1>12, <1>13, AddPacket
<1>15. Pushed(s)'
  <2>. DEFINE n == Len(delivered[s])
              m == Len(sent[s])
              more == Append(sent[s], p)
  <2>1. /\ ~thrown /\ n \in Nat /\ m \in Nat /\ n <= m
        /\ \A k \in 1 .. n : delivered[s][k] = sent[s][k]
    BY <1>6, <1>11 DEF Pushed
  <2>2. Len(more) = m + 1 /\ more[m + 1] = p /\ \A k \in 1 .. m : more[k] = sent[s][k]
    BY <1>7
  <2>3. cur = NoSocket => n = m \/ Len(buf) < Len(sent[s][n + 1])
    BY <1>11 DEF Pushed
  <2>4. n = m => Len(buf) = 0
    BY <1>12, CaughtUp
  <2>. HIDE DEF n, m, more
  <2>5. n <= Len(more)
    BY <2>1, <2>2
  <2>6. \A k \in 1 .. n : k \in 1 .. m
    BY <2>1
  <2>7. \A k \in 1 .. n : delivered[s][k] = more[k]
    BY <2>1, <2>2, <2>6
  <2>8. cur = NoSocket => n = Len(more) \/ Len(buf) < Len(more[n + 1])
    <3>1. CASE n = m
      <4>1. Len(more[n + 1]) = Len(p)
        BY <2>2, <3>1
      <4>. QED  BY <1>4, <2>4, <3>1, <4>1
    <3>2. CASE n # m
      <4>1. n + 1 \in 1 .. m
        BY <2>1, <3>2
      <4>. QED  BY <2>2, <2>3, <3>2, <4>1
    <3>. QED  BY <3>1, <3>2
  <2>. QED  BY <1>1, <1>5, <2>1, <2>5, <2>7, <2>8 DEF Pushed, n, more
<1>. QED  BY <1>1, <1>5, <1>8, <1>10, <1>14, <1>15

(* A buffer that holds a head starts with the next packet.                 *)
LEMMA NextInBuffer ==
  ASSUME StreamInv, NEW s \in Sockets, NEW start, Len(buf) >= 3,
         Len(delivered[s]) <= Len(sent[s])
  PROVE  Carried(sent[s], Len(delivered[s]), Coming(s), start) =>
         /\ Len(delivered[s]) < Len(sent[s]) /\ Labels # {} /\ Aligned = buf
         /\ \A k \in LengthsRead(buf) :
              k >= 0 /\ PacketLength(k) = Len(sent[s][Len(delivered[s]) + 1])
         /\ Len(sent[s][Len(delivered[s]) + 1]) <= Len(Coming(s))
         /\ \A i \in 1 .. Len(sent[s][Len(delivered[s]) + 1]) :
              Coming(s)[i] = sent[s][Len(delivered[s]) + 1][i]
<1>0. HAVE Carried(sent[s], Len(delivered[s]), Coming(s), start)
<1>. DEFINE n == Len(delivered[s])
            p == sent[s][n + 1]
<1>1. /\ n \in Nat /\ Len(sent[s]) \in Nat /\ sent[s] \in Seq(Seq(Bytes)) /\ Coming(s) \in Seq(Bytes)
      /\ buf \in Seq(Bytes) /\ Len(buf) \in Nat
      /\ \A i \in 1 .. Len(buf) : Coming(s)[i] = buf[i]
  BY SentPackets
<1>2. n < Len(sent[s])
  <2>1. n # Len(sent[s])
    BY <1>0, CaughtUp
  <2>. QED  BY <1>1, <2>1
<1>3. n + 1 \in 1 .. Len(sent[s])
  BY <1>1, <1>2
<1>4. /\ p \in Seq(Bytes) /\ Len(p) \in Nat /\ Len(p) >= 3
      /\ p[1].val = "L1" /\ p[2].val = "L2" /\ p[3].reads = {Len(p) - 3}
  BY <1>3, SentPacket
<1>. HIDE DEF n, p
<1>5. Len(p) <= Len(Coming(s)) /\ \A i \in 1 .. Len(p) : Coming(s)[i] = p[i]
  <2>1. Carried(sent[s], n, Coming(s), start)
    BY <1>0 DEF n
  <2>2. /\ Len(sent[s][n + 1]) <= Len(Coming(s))
        /\ \A i \in 1 .. Len(sent[s][n + 1]) : Coming(s)[i] = sent[s][n + 1][i]
    BY <1>1, <1>2, <2>1, NextPacket
  <2>. QED  BY <2>2 DEF p
<1>6. buf[1] = p[1] /\ buf[2] = p[2] /\ buf[3] = p[3]
  <2>1. 1 \in 1 .. Len(buf) /\ 2 \in 1 .. Len(buf) /\ 3 \in 1 .. Len(buf)
    BY <1>1
  <2>2. 1 \in 1 .. Len(p) /\ 2 \in 1 .. Len(p) /\ 3 \in 1 .. Len(p)
    BY <1>4
  <2>. QED  BY <1>1, <1>5, <2>1, <2>2
<1>7. 1 \in Labels
  <2>1. 1 \in 1 .. Len(buf) - 1 /\ 1 + 1 = 2
    BY <1>1
  <2>. QED  BY <1>4, <1>6, <2>1 DEF Labels
<1>8. Aligned = buf
  <2>1. FirstLabel <= 1 /\ FirstLabel \in 1 .. Len(buf) - 1
    BY <1>7, AlignedProperties DEF StreamInv
  <2>2. FirstLabel = 1
    BY <1>1, <2>1
  <2>. QED  BY <1>1, <2>2, SubSeqFull DEF Aligned
<1>9. \A k \in LengthsRead(buf) : k >= 0 /\ PacketLength(k) = Len(p)
  <2>1. LengthsRead(buf) = {Len(p) - 3}
    BY <1>4, <1>6 DEF LengthsRead, HeadSize
  <2>2. Len(p) - 3 >= 0 /\ 3 + (Len(p) - 3) = Len(p)
    BY <1>4
  <2>. QED  BY <2>1, <2>2 DEF PacketLength, HeadSize
<1>. QED  BY <1>2, <1>5, <1>7, <1>8, <1>9 DEF n, p

(* A turn of the loop pushes the next packet, or waits for the rest of it. *)
LEMMA DispatchFrameInv ==
  ASSUME StreamInv, FrameInv, Dispatch
  PROVE  FrameInv'
<1>. SUFFICES ASSUME NEW s \in Sockets, Alone(s)'
              PROVE  (/\ Pushed(s)
                      /\ \E start : Carried(sent[s], Len(delivered[s]), Coming(s), start))'
  BY DEF FrameInv
<1>. DEFINE n == Len(delivered[s])
            p == sent[s][n + 1]
<1>1. cur # NoSocket /\ sent' = sent /\ wire' = wire
  BY DEF Dispatch, InLoop, NoHead, NoLabel, Incomplete, PushPacket
<1>2. Alone(s)
  BY <1>1 DEF Alone
<1>3. cur = s
  <2>1. cur \in Sockets /\ sent[cur] # <<>>
    BY <1>1 DEF StreamInv, SentInv, TypeOK
  <2>. QED  BY <1>2, <2>1 DEF Alone
<1>4. PICK start : Carried(sent[s], n, Coming(s), start)
  BY <1>2 DEF FrameInv
<1>5. ~thrown /\ n <= Len(sent[s]) /\ \A k \in 1 .. n : delivered[s][k] = sent[s][k]
  BY <1>2 DEF FrameInv, Pushed
<1>6. /\ sent[s] \in Seq(Seq(Bytes)) /\ Len(sent[s]) \in Nat /\ n \in Nat
      /\ delivered[s] \in Seq(Seq(Bytes))
      /\ wire[s] \in Seq(Bytes) /\ Len(wire[s]) \in Nat /\ buf \in Seq(Bytes) /\ Len(buf) \in Nat
      /\ Coming(s) \in Seq(Bytes) /\ Len(Coming(s)) = Len(buf) + Len(wire[s])
      /\ \A i \in 1 .. Len(buf) : Coming(s)[i] = buf[i]
  BY SentPackets
<1>7. ASSUME n < Len(sent[s]) PROVE p \in Seq(Bytes) /\ Len(p) \in Nat /\ Len(p) >= 3
  <2>1. n + 1 \in 1 .. Len(sent[s])
    BY <1>6, <1>7
  <2>. QED  BY <2>1, SentPacket
<1>8. ASSUME Len(buf) >= 3
      PROVE  /\ n < Len(sent[s]) /\ Labels # {} /\ Aligned = buf
             /\ \A k \in LengthsRead(buf) : k >= 0 /\ PacketLength(k) = Len(p)
             /\ Len(p) <= Len(Coming(s)) /\ \A i \in 1 .. Len(p) : Coming(s)[i] = p[i]
  BY <1>4, <1>5, <1>8, NextInBuffer
<1>. HIDE DEF n, p
<1>9. ASSUME buf' = buf, delivered' = delivered, cur' = NoSocket, thrown' = thrown,
             n = Len(sent[s]) \/ Len(buf) < Len(p)
      PROVE  (/\ Pushed(s)
              /\ \E start_1 : Carried(sent[s], Len(delivered[s]), Coming(s), start_1))'
  <2>1. Coming(s)' = Coming(s)
    BY <1>1, <1>9 DEF Coming
  <2>. QED  BY <1>1, <1>4, <1>5, <1>9, <2>1 DEF Pushed, n, p
<1>10. CASE NoHead
  <2>1. /\ Len(buf) < 3 /\ buf' = buf /\ delivered' = delivered /\ cur' = NoSocket
        /\ thrown' = thrown
    BY <1>10 DEF NoHead, HeadSize
  <2>2. n = Len(sent[s]) \/ Len(buf) < Len(p)
    BY <1>5, <1>6, <1>7, <2>1
  <2>. QED  BY <1>9, <2>1, <2>2
<1>11. CASE NoLabel
  BY <1>8, <1>11 DEF NoLabel, HeadSize
<1>12. CASE Incomplete
  <2>1. /\ Len(buf) >= 3 /\ buf' = Aligned /\ delivered' = delivered /\ cur' = NoSocket
        /\ thrown' = thrown
    BY <1>12 DEF Incomplete, HeadSize
  <2>2. PICK k \in LengthsRead(Aligned) : ~Complete(Aligned, k)
    BY <1>12 DEF Incomplete
  <2>4. Aligned = buf /\ PacketLength(k) = Len(p) /\ n < Len(sent[s])
    BY <1>8, <2>1, <2>2
  <2>3. Len(buf) < Len(p)
    BY <1>6, <1>7, <2>2, <2>4 DEF Complete
  <2>. QED  BY <1>9, <2>1, <2>3, <2>4
<1>13. CASE PushPacket
  <2>0. PICK k \in LengthsRead(Aligned) :
          Len(buf) >= 3 /\ Complete(Aligned, k) /\ (PushBytes(k) \/ NewThrows(k))
    BY <1>13 DEF PushPacket, HeadSize
  <2>14. ~NewThrows(k)
    <3>1. k >= 0 /\ PacketLength(k) = Len(p) /\ Len(p) >= 3
      BY <1>7, <1>8, <2>0
    <3>2. k \in Int
      BY <1>6, <1>8, <2>0, NumbersRead
    <3>. QED  BY <3>1, <3>2 DEF NewThrows
  <2>1. /\ Len(buf) >= 3 /\ Complete(Aligned, k) /\ cur' = cur /\ thrown' = thrown
        /\ delivered' = [delivered EXCEPT ![cur]
                           = Append(delivered[cur], SubSeq(Aligned, 1, PacketLength(k)))]
        /\ buf' = SubSeq(Aligned, PacketLength(k) + 1, Len(Aligned))
    BY <2>0, <2>14 DEF PushBytes, LoopAgain, Rest
  <2>. DEFINE l == Len(p)
              rest == SubSeq(buf, l + 1, Len(buf))
              c == rest \o wire[s]
  <2>2. /\ Aligned = buf /\ PacketLength(k) = l /\ n < Len(sent[s])
        /\ \A i \in 1 .. l : Coming(s)[i] = p[i]
    BY <1>8, <2>0, <2>1
  <2>3. p \in Seq(Bytes) /\ l \in Nat /\ l <= Len(buf)
    BY <1>7, <2>1, <2>2 DEF Complete
  <2>4. l \in 0 .. Len(buf)
    BY <1>6, <2>3
  <2>5. /\ SubSeq(buf, 1, l) \in Seq(Bytes) /\ Len(SubSeq(buf, 1, l)) = l
        /\ \A i \in 1 .. l : SubSeq(buf, 1, l)[i] = buf[i]
        /\ rest \in Seq(Bytes) /\ Len(rest) = Len(buf) - l
        /\ \A i \in 1 .. Len(buf) - l : rest[i] = buf[l + i]
    BY <1>6, <2>4, CutProperties
  <2>. HIDE DEF rest, l
  <2>6. SubSeq(buf, 1, l) = p
    <3>1. \A i \in 1 .. l : i \in 1 .. Len(buf)
      BY <1>6, <2>4
    <3>2. \A i \in 1 .. l : SubSeq(buf, 1, l)[i] = p[i]
      BY <1>6, <2>2, <2>5, <3>1
    <3>. QED  BY <2>3, <2>5, <3>2, SeqEqual DEF l
  <2>7. delivered'[s] = Append(delivered[s], p) /\ buf' = rest
    BY <1>3, <2>1, <2>2, <2>6 DEF StreamInv, TypeOK, rest
  <2>8. /\ Len(delivered'[s]) = n + 1 /\ delivered'[s][n + 1] = p
        /\ \A j \in 1 .. n : delivered'[s][j] = delivered[s][j]
    BY <1>6, <2>3, <2>7, AppendProperties DEF n
  <2>9. Coming(s)' = c
    BY <1>1, <2>7 DEF Coming
  <2>10. /\ c \in Seq(Bytes) /\ Len(c) = Len(Coming(s)) - l
         /\ \A i \in 1 .. Len(c) : c[i] = Coming(s)[l + i]
    <3>1. buf \in Seq(Bytes) /\ wire[s] \in Seq(Bytes)
      BY <1>6
    <3>2. /\ SubSeq(buf, l + 1, Len(buf)) \o wire[s] \in Seq(Bytes)
          /\ Len(SubSeq(buf, l + 1, Len(buf)) \o wire[s]) = Len(buf \o wire[s]) - l
          /\ \A i \in 1 .. Len(buf \o wire[s]) - l :
               (SubSeq(buf, l + 1, Len(buf)) \o wire[s])[i] = (buf \o wire[s])[l + i]
      BY <2>4, <3>1, CutFront
    <3>3. c = SubSeq(buf, l + 1, Len(buf)) \o wire[s] /\ Coming(s) = buf \o wire[s]
      BY DEF Coming, c, rest
    <3>. HIDE DEF c
    <3>. QED  BY <3>2, <3>3
  <2>. HIDE DEF c
  <2>11. Carried(sent[s], n + 1, c, start)
    BY <1>4, <1>6, <2>2, <2>10, CutPacket DEF l, p
  <2>12. Pushed(s)'
    <3>1. n + 1 <= Len(sent[s]) /\ \A j \in 1 .. n + 1 : j \in 1 .. n \/ j = n + 1
      <4>1. n + 1 <= Len(sent[s])
        BY <1>6, <2>2
      <4>2. \A j \in 1 .. n + 1 : j \in 1 .. n \/ j = n + 1
        BY <1>6
      <4>. QED  BY <4>1, <4>2
    <3>2. \A j \in 1 .. n + 1 : delivered'[s][j] = sent[s][j]
      BY <1>5, <2>8, <3>1 DEF p
    <3>3. cur' # NoSocket
      BY <1>1, <2>1
    <3>. QED  BY <1>1, <1>5, <2>1, <2>8, <3>1, <3>2, <3>3 DEF Pushed
  <2>. QED  BY <1>1, <2>8, <2>9, <2>11, <2>12
<1>. QED  BY <1>10, <1>11, <1>12, <1>13 DEF Dispatch

LEMMA NextFrameInv == StreamInv /\ FrameInv /\ [Next]_vars => FrameInv'
<1>. SUFFICES ASSUME StreamInv, FrameInv, [Next]_vars PROVE FrameInv'
  OBVIOUS
<1>1. CASE Dispatch
  BY <1>1, DispatchFrameInv
<1>2. ASSUME NEW s \in Sockets, Recv(s) PROVE FrameInv'
  BY <1>2, RecvFrameInv DEF Recv
<1>3. ASSUME NEW s \in Sockets, NEW body \in Bodies, Send(s, body) PROVE FrameInv'
  BY <1>3, SendFrameInv
<1>4. CASE UNCHANGED vars
  BY <1>4 DEF vars, FrameInv, Pushed, Alone, Coming
<1>. QED  BY <1>1, <1>2, <1>3, <1>4 DEF Next

LEMMA FrameInvHolds == Spec => [](StreamInv /\ FrameInv)
BY InitStreamInv, NextStreamInv, InitFrameInv, NextFrameInv, PTL DEF Spec

(* Whatever the packets are, and however recv cuts the stream, the packets *)
(* DispatchParamData pushes for a connection that is alone are the ones    *)
(* sent on it, whole and in order, and no data is taken for a length.      *)
THEOREM PacketsAreFramed == Spec => []Framed
<1>1. ASSUME StreamInv, FrameInv PROVE Framed
  <2>. SUFFICES ASSUME NEW s \in Sockets, Alone(s) PROVE ~thrown /\ IsPrefix(delivered[s], sent[s])
    BY DEF Framed
  <2>. DEFINE n == Len(delivered[s])
  <2>1. /\ sent[s] \in Seq(Seq(Bytes)) /\ Len(sent[s]) \in Nat
        /\ delivered[s] \in Seq(Seq(Bytes)) /\ n \in Nat
    BY <1>1, SentPackets
  <2>2. ~thrown /\ n <= Len(sent[s]) /\ \A k \in 1 .. n : delivered[s][k] = sent[s][k]
    BY <1>1 DEF FrameInv, Pushed
  <2>3. n \in 0 .. Len(sent[s]) /\ n \in 0 .. n
    BY <2>1, <2>2
  <2>4. /\ SubSeq(sent[s], 1, n) \in Seq(Seq(Bytes)) /\ Len(SubSeq(sent[s], 1, n)) = n
        /\ \A k \in 1 .. n : SubSeq(sent[s], 1, n)[k] = sent[s][k]
    BY <2>1, <2>3, CutProperties
  <2>5. SubSeq(delivered[s], 1, n) = delivered[s]
    BY <2>1, SubSeqFull
  <2>6. SubSeq(sent[s], 1, n) = delivered[s]
    BY <2>1, <2>2, <2>4, SeqEqual
  <2>. QED  BY <2>2, <2>5, <2>6 DEF IsPrefix
<1>. QED  BY <1>1, FrameInvHolds, PTL

(* When all its bytes have been received and no call is under way, every   *)
(* packet has been pushed.                                                 *)
THEOREM NothingIsStuck == Spec => []NothingStuck
<1>1. ASSUME StreamInv, FrameInv PROVE NothingStuck
  <2>. SUFFICES ASSUME NEW s \in Sockets, Alone(s), cur = NoSocket, wire[s] = <<>>
                PROVE  delivered[s] = sent[s]
    BY DEF NothingStuck
  <2>. DEFINE n == Len(delivered[s])
  <2>1. /\ sent[s] \in Seq(Seq(Bytes)) /\ Len(sent[s]) \in Nat
        /\ delivered[s] \in Seq(Seq(Bytes)) /\ n \in Nat
        /\ Coming(s) \in Seq(Bytes) /\ Len(Coming(s)) = Len(buf) + Len(wire[s])
        /\ Len(buf) \in Nat
    BY <1>1, SentPackets
  <2>2. /\ n <= Len(sent[s]) /\ \A k \in 1 .. n : delivered[s][k] = sent[s][k]
        /\ n = Len(sent[s]) \/ Len(buf) < Len(sent[s][n + 1])
    BY <1>1 DEF FrameInv, Pushed
  <2>3. PICK start : Carried(sent[s], n, Coming(s), start)
    BY <1>1 DEF FrameInv
  <2>4. n = Len(sent[s])
    <3>. SUFFICES ASSUME n # Len(sent[s]) PROVE FALSE
      OBVIOUS
    <3>1. n < Len(sent[s])
      BY <2>1, <2>2
    <3>2. Len(sent[s][n + 1]) <= Len(Coming(s))
      BY <2>1, <2>3, <3>1, NextPacket
    <3>3. Len(Coming(s)) = Len(buf)
      BY <2>1, EmptySeq
    <3>4. n + 1 \in 1 .. Len(sent[s])
      BY <2>1, <3>1
    <3>5. Len(sent[s][n + 1]) \in Nat
      BY <1>1, <3>4, SentPacket
    <3>. QED  BY <2>1, <2>2, <3>2, <3>3, <3>5
  <2>. QED  BY <2>1, <2>2, <2>4, SeqEqual
<1>. QED  BY <1>1, FrameInvHolds, PTL
-----------------------------------------------------------------------------
(***************************************************************************)
(* Where the bytes are.  A byte on the wire of a connection is its own,    *)
(* and no byte is of a packet that was not sent yet, so that the bytes of  *)
(* a new packet are new.                                                   *)
(***************************************************************************)
Apart(q, r) == Range(q) \cap Range(r) = {}

Known(q) == \A b \in Range(q) : b.at[1] <= Len(sent[b.src])

WireInv ==
  \A s \in Sockets :
    /\ IsInjective(wire[s]) /\ Apart(wire[s], buf) /\ Known(wire[s])
    /\ \A b \in Range(wire[s]) : b.src = s
    /\ \A p \in Pushes : Apart(wire[s], PushedPacket(p))

KnownInv == Known(buf) /\ \A p \in Pushes : Known(PushedPacket(p))

ByteInv == NoByteTwice /\ WireInv /\ KnownInv

LEMMA InitByteInv == Init => ByteInv
<1>. SUFFICES ASSUME Init PROVE ByteInv
  OBVIOUS
<1>1. DOMAIN <<>> = {} /\ Range(<<>>) = {} /\ IsInjective(<<>>)
  BY EmptySeq DEF Range, IsInjective
<1>2. Pushes = {}
  BY <1>1 DEF Init, Pushes
<1>. QED  BY <1>1, <1>2 DEF Init, ByteInv, NoByteTwice, WireInv, KnownInv, Apart, Known

(* Nothing is pushed: the packets pushed stay apart from each other.       *)
LEMMA NothingPushed ==
  ASSUME delivered' = delivered
  PROVE  Pushes' = Pushes /\ \A p \in Pushes : PushedPacket(p)' = PushedPacket(p)
BY DEF Pushes, PushedPacket

LEMMA PushedTypes ==
  ASSUME StreamInv, NEW p \in Pushes
  PROVE  /\ p[1] \in Sockets /\ p[2] \in DOMAIN delivered[p[1]] /\ p = <<p[1], p[2]>>
         /\ PushedPacket(p) \in Seq(Bytes)
<1>1. PICK t \in Sockets : p \in {t} \X DOMAIN delivered[t]
  BY DEF Pushes
<1>2. p[1] = t /\ p[2] \in DOMAIN delivered[t] /\ p = <<p[1], p[2]>>
  BY <1>1
<1>3. delivered[t] \in Seq(Seq(Bytes))
  BY <1>1 DEF StreamInv, TypeOK
<1>4. delivered[t][p[2]] \in Seq(Bytes)
  BY <1>2, <1>3, LenProperties
<1>. QED  BY <1>1, <1>2, <1>4 DEF PushedPacket

LEMMA SendByteInv ==
  ASSUME StreamInv, ByteInv, NEW s \in Sockets, NEW body \in Bodies, Send(s, body)
  PROVE  ByteInv'
<1>. DEFINE n == Len(sent[s]) + 1
            p == PacketOf(s, n, body)
<1>1. /\ sent' = [sent EXCEPT ![s] = Append(sent[s], p)]
      /\ wire' = [wire EXCEPT ![s] = wire[s] \o p]
      /\ buf' = buf /\ cur' = cur /\ delivered' = delivered
  BY DEF Send
<1>2. Len(sent[s]) \in Nat /\ n \in Nat /\ wire[s] \in Seq(Bytes) /\ sent[s] \in Seq(Seq(Bytes))
  BY SentPackets
<1>. HIDE DEF n
<1>3. p \in Seq(Bytes) /\ \A i \in 1 .. Len(p) : p[i].src = s /\ p[i].at = <<n, i>>
  <2>1. n \in Nat
    BY <1>2
  <2>2. LET q == PacketOf(s, n, body)
        IN /\ q \in Seq(Bytes) /\ Len(q) = HeadSize + Len(body)
           /\ q[1].val = "L1" /\ q[2].val = "L2" /\ q[3].reads = {Len(body)}
           /\ \A i \in 1 .. Len(q) : q[i].src = s /\ q[i].at = <<n, i>>
    BY <2>1, PacketShape, SMTT(30)
  <2>. QED  BY <2>2
<1>4. DOMAIN p = 1 .. Len(p)
  BY <1>3, LenProperties
<1>. HIDE DEF p
<1>5. IsInjective(p)
  <2>. SUFFICES ASSUME NEW i \in 1 .. Len(p), NEW j \in 1 .. Len(p), p[i] = p[j] PROVE i = j
    BY <1>4 DEF IsInjective
  <2>1. <<n, i>> = <<n, j>>
    BY <1>3
  <2>. QED  BY <2>1
<1>6. \A b \in Range(p) : b.src = s /\ b.at[1] = n
  BY <1>3, <1>4 DEF Range
<1>7. ASSUME NEW q, Known(q) PROVE Range(q) \cap Range(p) = {}
  <2>1. ASSUME NEW b \in Range(q), b \in Range(p) PROVE FALSE
    <3>1. b.at[1] <= Len(sent[s]) /\ b.at[1] = Len(sent[s]) + 1
      BY <1>6, <1>7, <2>1 DEF Known, n
    <3>. QED  BY <1>2, <3>1
  <2>. QED  BY <2>1
<1>8. IsInjective(wire[s] \o p) /\ Range(wire[s] \o p) = Range(wire[s]) \cup Range(p)
  <2>1. IsInjective(wire[s]) /\ Range(wire[s]) \cap Range(p) = {}
    BY <1>7 DEF ByteInv, WireInv
  <2>2. \A q \in Seq(Bytes) : IsInjective(q) /\ Range(q) \cap Range(p) = {} =>
          IsInjective(q \o p) /\ Range(q \o p) = Range(q) \cup Range(p)
    BY <1>3, <1>5, JoinDistinct
  <2>. QED  BY <1>2, <2>1, <2>2
<1>9. /\ sent'[s] = Append(sent[s], p) /\ wire'[s] = wire[s] \o p
      /\ \A t \in Sockets : t # s => sent'[t] = sent[t] /\ wire'[t] = wire[t]
  BY <1>1 DEF StreamInv, TypeOK
<1>10. Len(sent'[s]) = n
  BY <1>2, <1>3, <1>9, AppendProperties DEF n
<1>11. \A t \in Sockets : Len(sent[t]) \in Nat /\ Len(sent[t]) <= Len(sent'[t])
  <2>. SUFFICES ASSUME NEW t \in Sockets PROVE Len(sent[t]) \in Nat /\ Len(sent[t]) <= Len(sent'[t])
    OBVIOUS
  <2>1. Len(sent[t]) \in Nat
    BY SentPackets
  <2>2. CASE t = s
    BY <1>2, <1>10, <2>2 DEF n
  <2>3. CASE t # s
    BY <1>9, <2>1, <2>3
  <2>. QED  BY <2>1, <2>2, <2>3
<1>12. \A q \in Seq(Bytes) : Known(q) => \A b \in Range(q) : b.at[1] <= Len(sent'[b.src])
  <2>. SUFFICES ASSUME NEW q \in Seq(Bytes), Known(q), NEW b \in Range(q)
                PROVE  b.at[1] <= Len(sent'[b.src])
    OBVIOUS
  <2>1. b \in Bytes
    BY LenProperties DEF Range
  <2>2. b.src \in Sockets /\ b.at[1] \in Nat
    BY <2>1 DEF Bytes
  <2>3. b.at[1] <= Len(sent[b.src])
    BY DEF Known
  <2>4. Len(sent[b.src]) \in Nat /\ Len(sent[b.src]) <= Len(sent'[b.src]) /\ Len(sent'[b.src]) \in Nat
    <3>1. sent'[b.src] \in Seq(Seq(Bytes))
      BY <2>2, SendStreamInv DEF StreamInv, TypeOK
    <3>. QED  BY <1>11, <2>2, <3>1, LenProperties
  <2>. QED  BY <2>2, <2>3, <2>4
<1>13. Pushes' = Pushes /\ \A q \in Pushes : PushedPacket(q)' = PushedPacket(q)
  BY <1>1, NothingPushed
<1>14. buf \in Seq(Bytes) /\ \A q \in Pushes : PushedPacket(q) \in Seq(Bytes)
  BY PushedTypes DEF StreamInv, TypeOK
<1>15. NoByteTwice'
  BY <1>1, <1>13 DEF ByteInv, NoByteTwice
<1>16. KnownInv'
  <2>1. Known(buf)'
    BY <1>1, <1>12, <1>14 DEF ByteInv, KnownInv, Known
  <2>2. ASSUME NEW q \in Pushes PROVE Known(PushedPacket(q))'
    BY <1>12, <1>13, <1>14 DEF ByteInv, KnownInv, Known
  <2>. QED  BY <1>13, <2>1, <2>2 DEF KnownInv
<1>17. ASSUME NEW t \in Sockets
       PROVE  (/\ IsInjective(wire[t]) /\ Apart(wire[t], buf) /\ Known(wire[t])
               /\ \A b \in Range(wire[t]) : b.src = t
               /\ \A q \in Pushes : Apart(wire[t], PushedPacket(q)))'
  <2>1. CASE t # s
    <3>1. wire'[t] = wire[t] /\ wire[t] \in Seq(Bytes)
      BY <1>9, <2>1 DEF StreamInv, TypeOK
    <3>2. Known(wire[t])'
      BY <1>12, <3>1 DEF ByteInv, WireInv, Known
    <3>. QED  BY <1>1, <1>13, <3>1, <3>2 DEF ByteInv, WireInv, Apart
  <2>2. CASE t = s
    <3>1. \A b \in Range(p) : b.at[1] <= Len(sent'[b.src])
      BY <1>2, <1>6, <1>10
    <3>2. \A b \in Range(wire[s]) : b.at[1] <= Len(sent'[b.src])
      BY <1>2, <1>12 DEF ByteInv, WireInv
    <3>3. Known(wire[t])'
      BY <1>8, <1>9, <2>2, <3>1, <3>2 DEF Known
    <3>4. Apart(wire[t], buf)'
      BY <1>1, <1>7, <1>8, <1>9, <2>2 DEF Apart, ByteInv, WireInv, KnownInv
    <3>5. \A b \in Range(wire'[t]) : b.src = t
      BY <1>6, <1>8, <1>9, <2>2 DEF ByteInv, WireInv
    <3>6. \A q \in Pushes : Apart(wire[t], PushedPacket(q))'
      BY <1>7, <1>8, <1>9, <1>13, <2>2 DEF Apart, ByteInv, WireInv, KnownInv
    <3>. QED  BY <1>8, <1>9, <1>13, <2>2, <3>3, <3>4, <3>5, <3>6
  <2>. QED  BY <2>1, <2>2
<1>. QED  BY <1>15, <1>16, <1>17 DEF ByteInv, WireInv

(* Received bytes leave the wire.                                          *)
LEMMA RecvByteInv ==
  ASSUME StreamInv, ByteInv, NEW s \in Sockets, NEW k \in 1 .. Len(wire[s]), RecvBytes(s, k)
  PROVE  ByteInv'
<1>. DEFINE x == SubSeq(wire[s], 1, k)
            y == SubSeq(wire[s], k + 1, Len(wire[s]))
<1>1. /\ buf' = buf \o x /\ wire' = [wire EXCEPT ![s] = y]
      /\ sent' = sent /\ delivered' = delivered
  BY DEF RecvBytes
<1>2. wire[s] \in Seq(Bytes) /\ Len(wire[s]) \in Nat /\ buf \in Seq(Bytes) /\ k \in 0 .. Len(wire[s])
  <2>1. wire[s] \in Seq(Bytes) /\ Len(wire[s]) \in Nat /\ buf \in Seq(Bytes)
    BY SentPackets
  <2>. QED  BY <2>1
<1>3. /\ IsInjective(wire[s]) /\ Range(wire[s]) \cap Range(buf) = {}
      /\ \A b \in Range(wire[s]) : b.src = s
      /\ \A q \in Pushes : Range(wire[s]) \cap Range(PushedPacket(q)) = {}
  BY DEF ByteInv, WireInv, Apart
<1>4. /\ IsInjective(x) /\ Range(x) \subseteq Range(wire[s])
      /\ IsInjective(y) /\ Range(y) \subseteq Range(wire[s])
      /\ Range(x) \cap Range(y) = {}
  BY <1>2, <1>3, CutDistinct
<1>5. x \in Seq(Bytes)
  BY <1>2, CutProperties
<1>. HIDE DEF x, y
<1>6. IsInjective(buf \o x) /\ Range(buf \o x) = Range(buf) \cup Range(x)
  <2>1. IsInjective(buf) /\ Range(buf) \cap Range(x) = {}
    BY <1>3, <1>4 DEF ByteInv, NoByteTwice
  <2>2. \A q \in Seq(Bytes) : IsInjective(q) /\ Range(q) \cap Range(x) = {} =>
          IsInjective(q \o x) /\ Range(q \o x) = Range(q) \cup Range(x)
    BY <1>4, <1>5, JoinDistinct
  <2>. QED  BY <1>2, <2>1, <2>2
<1>7. wire'[s] = y /\ \A t \in Sockets : t # s => wire'[t] = wire[t]
  BY <1>1 DEF StreamInv, TypeOK
<1>8. Pushes' = Pushes /\ \A q \in Pushes : PushedPacket(q)' = PushedPacket(q)
  BY <1>1, NothingPushed
<1>9. Range(buf') = Range(buf) \cup Range(x) /\ IsInjective(buf')
  BY <1>1, <1>6
<1>10. NoByteTwice'
  <2>1. \A q \in Pushes : Range(PushedPacket(q)) \cap Range(buf') = {}
    BY <1>3, <1>4, <1>9 DEF ByteInv, NoByteTwice
  <2>. QED  BY <1>8, <1>9, <2>1 DEF ByteInv, NoByteTwice
<1>11. KnownInv'
  <2>1. Known(buf)'
    BY <1>1, <1>4, <1>9 DEF ByteInv, KnownInv, WireInv, Known
  <2>2. ASSUME NEW q \in Pushes PROVE Known(PushedPacket(q))'
    BY <1>1, <1>8 DEF ByteInv, KnownInv, Known
  <2>. QED  BY <1>8, <2>1, <2>2 DEF KnownInv
<1>12. ASSUME NEW t \in Sockets
       PROVE  (/\ IsInjective(wire[t]) /\ Apart(wire[t], buf) /\ Known(wire[t])
               /\ \A b \in Range(wire[t]) : b.src = t
               /\ \A q \in Pushes : Apart(wire[t], PushedPacket(q)))'
  <2>1. CASE t = s
    BY <1>1, <1>3, <1>4, <1>7, <1>8, <1>9, <2>1 DEF ByteInv, WireInv, Known, Apart
  <2>2. CASE t # s
    <3>1. /\ wire'[t] = wire[t] /\ IsInjective(wire[t]) /\ Known(wire[t])
          /\ \A b \in Range(wire[t]) : b.src = t
          /\ Range(wire[t]) \cap Range(buf) = {}
          /\ \A q \in Pushes : Range(wire[t]) \cap Range(PushedPacket(q)) = {}
      BY <1>7, <2>2 DEF ByteInv, WireInv, Apart
    <3>2. Range(wire[t]) \cap Range(x) = {}
      BY <1>3, <1>4, <2>2, <3>1
    <3>3. Apart(wire[t], buf)'
      BY <1>9, <3>1, <3>2 DEF Apart
    <3>. QED  BY <1>1, <1>8, <3>1, <3>3 DEF Known, Apart
  <2>. QED  BY <2>1, <2>2
<1>. QED  BY <1>10, <1>11, <1>12 DEF ByteInv, WireInv

(* The buffer loses its front: bytes that were in it are pushed, or gone.  *)
LEMMA ShorterByteInv ==
  ASSUME StreamInv, ByteInv, sent' = sent, wire' = wire, delivered' = delivered,
         IsInjective(buf'), Range(buf') \subseteq Range(buf)
  PROVE  ByteInv'
<1>1. Pushes' = Pushes /\ \A q \in Pushes : PushedPacket(q)' = PushedPacket(q)
  BY NothingPushed
<1>2. NoByteTwice'
  BY <1>1 DEF ByteInv, NoByteTwice
<1>3. WireInv'
  BY <1>1 DEF ByteInv, WireInv, Apart, Known
<1>4. KnownInv'
  BY <1>1 DEF ByteInv, KnownInv, Known
<1>. QED  BY <1>2, <1>3, <1>4 DEF ByteInv

LEMMA AlignedDistinct ==
  ASSUME StreamInv, IsInjective(buf), Labels # {}
  PROVE  IsInjective(Aligned) /\ Range(Aligned) \subseteq Range(buf)
<1>. DEFINE k == FirstLabel - 1
<1>1. buf \in Seq(Bytes) /\ FirstLabel \in 1 .. Len(buf) - 1 /\ Len(buf) \in Nat
  BY AlignedProperties DEF StreamInv, TypeOK
<1>2. k \in 0 .. Len(buf) /\ k + 1 = FirstLabel
  BY <1>1
<1>. HIDE DEF k
<1>3. LET y == SubSeq(buf, k + 1, Len(buf))
      IN IsInjective(y) /\ Range(y) \subseteq Range(buf)
  BY <1>1, <1>2, CutDistinct
<1>. QED  BY <1>2, <1>3 DEF Aligned

LEMMA PushByteInv ==
  ASSUME StreamInv, ByteInv, cur # NoSocket, Labels # {}, UNCHANGED <<sent, wire>>,
         NEW n \in LengthsRead(Aligned), Complete(Aligned, n), PushBytes(n)
  PROVE  ByteInv'
<1>. DEFINE l == PacketLength(n)
            x == SubSeq(Aligned, 1, l)
            y == SubSeq(Aligned, l + 1, Len(Aligned))
            new == <<cur, Len(delivered[cur]) + 1>>
            Out(q) == delivered'[q[1]][q[2]]
<1>1. /\ cur # NoSocket /\ Labels # {} /\ n >= 0 /\ sent' = sent /\ wire' = wire
      /\ delivered' = [delivered EXCEPT ![cur] = Append(delivered[cur], x)]
      /\ buf' = y
  BY DEF PushBytes, Rest
<1>2. cur \in Sockets /\ IsInjective(buf)
  BY <1>1 DEF StreamInv, TypeOK, ByteInv, NoByteTwice
<1>3. IsInjective(Aligned) /\ Range(Aligned) \subseteq Range(buf)
  BY <1>1, <1>2, AlignedDistinct
<1>4. Aligned \in Seq(Bytes) /\ l \in 0 .. Len(Aligned)
  BY <1>1, PacketFits
<1>. HIDE DEF l
<1>5. /\ IsInjective(x) /\ Range(x) \subseteq Range(Aligned)
      /\ IsInjective(y) /\ Range(y) \subseteq Range(Aligned)
      /\ Range(x) \cap Range(y) = {}
  BY <1>3, <1>4, CutDistinct
<1>6. x \in Seq(Bytes)
  BY <1>4, CutProperties
<1>. HIDE DEF x, y
<1>7. delivered[cur] \in Seq(Seq(Bytes)) /\ Len(delivered[cur]) \in Nat
  BY <1>2, SentPackets
<1>8. /\ delivered'[cur] = Append(delivered[cur], x)
      /\ \A t \in Sockets : t # cur => delivered'[t] = delivered[t]
  BY <1>1, <1>2 DEF StreamInv, TypeOK
<1>9. /\ DOMAIN delivered[cur] = 1 .. Len(delivered[cur])
      /\ DOMAIN delivered'[cur] = 1 .. Len(delivered[cur]) + 1
      /\ delivered'[cur][Len(delivered[cur]) + 1] = x
      /\ \A k \in 1 .. Len(delivered[cur]) : delivered'[cur][k] = delivered[cur][k]
  BY <1>6, <1>7, <1>8, AppendProperties, LenProperties
<1>10. \A k \in 1 .. Len(delivered[cur]) + 1 :
         k \in 1 .. Len(delivered[cur]) \/ k = Len(delivered[cur]) + 1
  BY <1>7
<1>11. /\ \A q \in Pushes' : q \in Pushes \/ q = new
       /\ \A q \in Pushes : Out(q) = PushedPacket(q)
       /\ Out(new) = x
  <2>1. ASSUME NEW q \in Pushes' PROVE q \in Pushes \/ q = new
    <3>1. PICK t \in Sockets : q \in {t} \X DOMAIN delivered'[t]
      BY DEF Pushes
    <3>2. q = <<t, q[2]>> /\ q[2] \in DOMAIN delivered'[t]
      BY <3>1
    <3>3. CASE t # cur
      BY <1>8, <3>1, <3>3 DEF Pushes
    <3>4. CASE t = cur
      <4>1. q[2] \in DOMAIN delivered[cur] \/ q[2] = Len(delivered[cur]) + 1
        BY <1>9, <1>10, <3>2, <3>4
      <4>2. q[2] \in DOMAIN delivered[cur] => q \in {cur} \X DOMAIN delivered[cur]
        BY <3>2, <3>4
      <4>. QED  BY <1>2, <3>2, <3>4, <4>1, <4>2 DEF Pushes
    <3>. QED  BY <3>3, <3>4
  <2>2. ASSUME NEW q \in Pushes PROVE delivered'[q[1]][q[2]] = delivered[q[1]][q[2]]
    <3>1. q[1] \in Sockets /\ q[2] \in DOMAIN delivered[q[1]]
      BY PushedTypes
    <3>. QED  BY <1>8, <1>9, <3>1
  <2>3. Out(new) = x
    BY <1>9
  <2>. QED  BY <2>1, <2>2, <2>3 DEF PushedPacket
<1>. HIDE DEF new, Out
<1>12. /\ \A q \in Pushes : /\ IsInjective(PushedPacket(q))
                           /\ Range(PushedPacket(q)) \cap Range(buf) = {}
       /\ \A q, r \in Pushes : q # r => Range(PushedPacket(q)) \cap Range(PushedPacket(r)) = {}
  BY DEF ByteInv, NoByteTwice
<1>13. Range(x) \subseteq Range(buf) /\ Range(buf') \subseteq Range(buf)
  BY <1>1, <1>3, <1>5
<1>14. \A q \in Pushes' : (q \in Pushes /\ Out(q) = PushedPacket(q)) \/ (q = new /\ Out(q) = x)
  BY <1>11
<1>15. NoByteTwice'
  <2>1. ASSUME NEW q \in Pushes'
        PROVE  /\ IsInjective(Out(q)) /\ Range(Out(q)) \cap Range(buf') = {}
    BY <1>1, <1>5, <1>12, <1>13, <1>14
  <2>2. ASSUME NEW q \in Pushes', NEW r \in Pushes', q # r
        PROVE  Range(Out(q)) \cap Range(Out(r)) = {}
    BY <1>12, <1>13, <1>14, <2>2
  <2>. QED  BY <1>1, <1>5, <2>1, <2>2 DEF NoByteTwice, PushedPacket, Out
<1>16. WireInv'
  <2>1. ASSUME NEW t \in Sockets, NEW q \in Pushes'
        PROVE  Range(wire[t]) \cap Range(Out(q)) = {}
    BY <1>13, <1>14 DEF ByteInv, WireInv, Apart
  <2>. QED  BY <1>1, <1>13, <2>1 DEF ByteInv, WireInv, Apart, Known, PushedPacket, Out
<1>17. KnownInv'
  <2>1. \A b \in Range(buf) : b.at[1] <= Len(sent'[b.src])
    BY <1>1 DEF ByteInv, KnownInv, Known
  <2>2. ASSUME NEW q \in Pushes', NEW b \in Range(Out(q)) PROVE b.at[1] <= Len(sent'[b.src])
    BY <1>1, <1>13, <1>14, <2>1 DEF ByteInv, KnownInv, Known
  <2>. QED  BY <1>13, <2>1, <2>2 DEF KnownInv, Known, PushedPacket, Out
<1>. QED  BY <1>15, <1>16, <1>17 DEF ByteInv

LEMMA NextByteInv == StreamInv /\ ByteInv /\ [Next]_vars => ByteInv'
<1>. SUFFICES ASSUME StreamInv, ByteInv, [Next]_vars PROVE ByteInv'
  OBVIOUS
<1>0. IsInjective(buf)
  BY DEF ByteInv, NoByteTwice
<1>1. CASE NoHead
  BY <1>0, <1>1, ShorterByteInv DEF NoHead
<1>2. CASE NoLabel
  <2>1. Range(<<>>) = {} /\ IsInjective(<<>>)
    BY EmptySeq DEF Range, IsInjective
  <2>2. sent' = sent /\ wire' = wire /\ delivered' = delivered /\ buf' = <<>>
    BY <1>2 DEF NoLabel
  <2>3. IsInjective(buf') /\ Range(buf') \subseteq Range(buf)
    BY <2>1, <2>2
  <2>. QED  BY <2>2, <2>3, ShorterByteInv
<1>3. CASE Incomplete
  <2>1. sent' = sent /\ wire' = wire /\ delivered' = delivered /\ buf' = Aligned /\ Labels # {}
    BY <1>3 DEF Incomplete
  <2>2. IsInjective(buf') /\ Range(buf') \subseteq Range(buf)
    BY <1>0, <2>1, AlignedDistinct
  <2>. QED  BY <2>1, <2>2, ShorterByteInv
<1>4. CASE PushPacket
  <2>1. PICK n \in LengthsRead(Aligned) : Complete(Aligned, n) /\ (PushBytes(n) \/ NewThrows(n))
    BY <1>4 DEF PushPacket
  <2>2. cur # NoSocket /\ Labels # {} /\ UNCHANGED <<sent, wire>>
    BY <1>4 DEF PushPacket, InLoop
  <2>3. CASE PushBytes(n)
    BY <2>1, <2>2, <2>3, PushByteInv
  <2>4. CASE NewThrows(n)
    BY <1>0, <2>2, <2>4, ShorterByteInv DEF NewThrows
  <2>. QED  BY <2>1, <2>3, <2>4
<1>5. ASSUME NEW s \in Sockets, Recv(s) PROVE ByteInv'
  BY <1>5, RecvByteInv DEF Recv
<1>6. ASSUME NEW s \in Sockets, NEW body \in Bodies, Send(s, body) PROVE ByteInv'
  BY <1>6, SendByteInv
<1>7. CASE UNCHANGED vars
  BY <1>0, <1>7, ShorterByteInv DEF vars
<1>. QED  BY <1>1, <1>2, <1>3, <1>4, <1>5, <1>6, <1>7 DEF Next, Dispatch

(* However many connections share s_AnlyBuff, and wherever it is cut, no   *)
(* byte is pushed twice, or pushed and kept.                               *)
THEOREM BytesAreMoved == Spec => []NoByteTwice
<1>1. StreamInv /\ ByteInv => NoByteTwice
  BY DEF ByteInv
<1>. QED  BY <1>1, InitStreamInv, NextStreamInv, InitByteInv, NextByteInv, PTL DEF Spec
=============================================================================
