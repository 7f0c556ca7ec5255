-------------------- MODULE MsvServerCommQueues_proofs ---------------------
(***************************************************************************)
(* Theorems about the queues of CMsvServerComm and what passes through     *)
(* them: the lengths of the parallel vectors, the order of the packets (no *)
(* request is answered twice, replies come in the order of the requests),  *)
(* the entries of the registry, the outputs a reply returns, the function  *)
(* list that is stored; and, from these, that the server does what         *)
(* OrderedService promises its clients.                                    *)
(***************************************************************************)
EXTENDS MsvServerComm_proofs, FiniteSetTheorems
-----------------------------------------------------------------------------
(***************************************************************************)
(* The lengths of the parallel vectors.  In the middle of an addition or   *)
(* of a removal they differ, by what is still to be pushed and by the      *)
(* number of removals that have erased the socket but not yet the element  *)
(* in question; several removals can be under way at once, and they may    *)
(* erase at stale indices.                                                 *)
(***************************************************************************)
Deleting(pcs) == {s \in Sockets : cliPc[s] \in pcs}
NRecvQ == Cardinality(Deleting({"delRecvQ"}))
NSendQ == Cardinality(Deleting({"delRecvQ", "delSendQ"}))
NLockRecv == Cardinality(Deleting({"delRecvQ", "delSendQ", "delLockRecv"}))
NLockSend == Cardinality(Deleting({"delRecvQ", "delSendQ", "delLockRecv", "delLockSend"}))

LackRecvQ == IF accPc \in {"pushLockRecv", "pushLockSend", "pushRecvQ"} THEN 1 ELSE 0
LackSendQ ==
  IF accPc \in {"pushLockRecv", "pushLockSend", "pushRecvQ", "pushSendQ"} THEN 1 ELSE 0
LackLockRecv == IF accPc = "pushLockRecv" THEN 1 ELSE 0
LackLockSend == IF accPc \in {"pushLockRecv", "pushLockSend"} THEN 1 ELSE 0

LengthsInv ==
  /\ Len(recvQ) + LackRecvQ = Len(remote) + NRecvQ
  /\ Len(sendQ) + LackSendQ = Len(remote) + NSendQ
  /\ nLockRecv + LackLockRecv = Len(remote) + NLockRecv
  /\ nLockSend + LackLockSend = Len(remote) + NLockSend

(* The socket being added has no thread of its own yet. *)
NotStarted == accPc # "accept" => cliPc[accSock] = "none"

Lengths == <<Len(remote), Len(recvQ), Len(sendQ), nLockRecv, nLockSend>>
Lacks == <<LackRecvQ, LackSendQ, LackLockRecv, LackLockSend>>
Removals == <<NRecvQ, NSendQ, NLockRecv, NLockSend>>
-----------------------------------------------------------------------------
LEMMA ExceptLength ==
  ASSUME NEW S, NEW q \in Seq(S), NEW i, NEW x PROVE Len([q EXCEPT ![i] = x]) = Len(q)
<1>1. CASE i \in 1 .. Len(q)
  <2>1. q \in Seq(S \cup {x})
    BY SeqMonotonic
  <2>. QED  BY <1>1, <2>1, ExceptSeq
<1>2. CASE i \notin 1 .. Len(q)
  <2>1. q = [j \in 1 .. Len(q) |-> q[j]]
    BY LenProperties
  <2>2. [q EXCEPT ![i] = x] = q
    BY <1>2, <2>1
  <2>. QED  BY <2>2
<1>. QED  BY <1>1, <1>2

LEMMA LengthsTyped ==
  ASSUME RegistryTypeOK
  PROVE  /\ Len(remote) \in Nat /\ Len(recvQ) \in Nat /\ Len(sendQ) \in Nat
         /\ nLockRecv \in Nat /\ nLockSend \in Nat
BY DEF RegistryTypeOK

LEMMA DeletingFinite ==
  ASSUME NEW pcs PROVE IsFiniteSet(Deleting(pcs)) /\ Cardinality(Deleting(pcs)) \in Nat
<1>1. Deleting(pcs) \in SUBSET Sockets
  BY DEF Deleting
<1>. QED  BY <1>1, CommAssumption, FS_Subset, FS_CardinalityType

LEMMA RemovalsTyped ==
  NRecvQ \in Nat /\ NSendQ \in Nat /\ NLockRecv \in Nat /\ NLockSend \in Nat
BY DeletingFinite DEF NRecvQ, NSendQ, NLockRecv, NLockSend

LEMMA LacksTyped ==
  LackRecvQ \in Nat /\ LackSendQ \in Nat /\ LackLockRecv \in Nat /\ LackLockSend \in Nat
BY DEF LackRecvQ, LackSendQ, LackLockRecv, LackLockSend

(* A client thread that enters or leaves one of the three sets changes its *)
(* size by one.                                                            *)
LEMMA DeletingEnter ==
  ASSUME ClientTypeOK, NEW s \in Sockets, NEW pc, NEW pcs,
         cliPc' = [cliPc EXCEPT ![s] = pc], cliPc[s] \notin pcs, pc \in pcs
  PROVE  Cardinality(Deleting(pcs)') = Cardinality(Deleting(pcs)) + 1
<1>1. Deleting(pcs)' = Deleting(pcs) \cup {s} /\ s \notin Deleting(pcs)
  BY DEF Deleting, ClientTypeOK
<1>. QED  BY <1>1, DeletingFinite, FS_AddElement

LEMMA DeletingLeave ==
  ASSUME ClientTypeOK, NEW s \in Sockets, NEW pc, NEW pcs,
         cliPc' = [cliPc EXCEPT ![s] = pc], cliPc[s] \in pcs, pc \notin pcs
  PROVE  Cardinality(Deleting(pcs)') = Cardinality(Deleting(pcs)) - 1
<1>1. Deleting(pcs)' = Deleting(pcs) \ {s} /\ s \in Deleting(pcs)
  BY DEF Deleting, ClientTypeOK
<1>. QED  BY <1>1, DeletingFinite, FS_RemoveElement

LEMMA DeletingStay ==
  ASSUME ClientTypeOK, NEW s \in Sockets, NEW pc, NEW pcs,
         cliPc' = [cliPc EXCEPT ![s] = pc], cliPc[s] \in pcs <=> pc \in pcs
  PROVE  Deleting(pcs)' = Deleting(pcs)
BY DEF Deleting, ClientTypeOK

LEMMA SameClients == ASSUME UNCHANGED cliPc PROVE UNCHANGED Removals
BY DEF Removals, NRecvQ, NSendQ, NLockRecv, NLockSend, Deleting

LEMMA SameAccept == ASSUME UNCHANGED accPc PROVE UNCHANGED Lacks
BY DEF Lacks, LackRecvQ, LackSendQ, LackLockRecv, LackLockSend

LEMMA BothLess ==
  ASSUME NEW l \in Nat, NEW k \in Nat, NEW r \in Nat, NEW n \in Nat, l + k = r + n
  PROVE  (l - 1) + k = r + (n - 1)
OBVIOUS

LEMMA KeepLengths ==
  ASSUME LengthsInv, UNCHANGED Lengths, UNCHANGED Lacks, UNCHANGED Removals
  PROVE  LengthsInv'
BY DEF LengthsInv, Lengths, Lacks, Removals

(* A step of a client thread outside the erasures. *)
LEMMA ClientKeepsLengths ==
  ASSUME LengthsInv, ClientTypeOK, NEW s \in Sockets, NEW pc,
         cliPc[s] \notin {"delRecvQ", "delSendQ", "delLockRecv", "delLockSend"},
         pc \notin {"delRecvQ", "delSendQ", "delLockRecv", "delLockSend"},
         cliPc' = [cliPc EXCEPT ![s] = pc], UNCHANGED accPc, UNCHANGED Lengths
  PROVE  LengthsInv'
<1>1. UNCHANGED Removals
  BY DeletingStay DEF Removals, NRecvQ, NSendQ, NLockRecv, NLockSend
<1>. QED  BY <1>1, SameAccept, KeepLengths
-----------------------------------------------------------------------------
(***************************************************************************)
(* The steps that change a length or are part of a change.                 *)
(***************************************************************************)
LEMMA AddLengths ==
  ASSUME TypeInv, NotStarted, LengthsInv, AcceptThread PROVE LengthsInv'
<1>. RegistryTypeOK /\ AcceptInv /\ ClientTypeOK
  BY DEF TypeInv, ClientInv
<1>. USE LengthsTyped, RemovalsTyped, LacksTyped
<1>1. CASE AddPushSocket
  <2>1. Len(remote') = Len(remote) + 1
    BY <1>1, AppendProperties DEF AddPushSocket, RegistryTypeOK, AcceptInv
  <2>2. UNCHANGED Removals
    BY <1>1, SameClients DEF AddPushSocket, cli
  <2>. QED  BY <1>1, <2>1, <2>2 DEF AddPushSocket, GotoAcc, LengthsInv, Removals,
                LackRecvQ, LackSendQ, LackLockRecv, LackLockSend
<1>2. CASE AddPushLockRecv
  <2>1. UNCHANGED Removals
    BY <1>2, SameClients DEF AddPushLockRecv, cli
  <2>. QED  BY <1>2, <2>1 DEF AddPushLockRecv, GotoAcc, LengthsInv, Removals,
                LackRecvQ, LackSendQ, LackLockRecv, LackLockSend
<1>3. CASE AddPushLockSend
  <2>1. UNCHANGED Removals
    BY <1>3, SameClients DEF AddPushLockSend, cli
  <2>. QED  BY <1>3, <2>1 DEF AddPushLockSend, GotoAcc, LengthsInv, Removals,
                LackRecvQ, LackSendQ, LackLockRecv, LackLockSend
<1>4. CASE AddPushRecvQ
  <2>1. Len(recvQ') = Len(recvQ) + 1
    BY <1>4, AppendProperties, EmptySeq DEF AddPushRecvQ, RegistryTypeOK
  <2>2. UNCHANGED Removals
    BY <1>4, SameClients DEF AddPushRecvQ, cli
  <2>. QED  BY <1>4, <2>1, <2>2 DEF AddPushRecvQ, GotoAcc, LengthsInv, Removals,
                LackRecvQ, LackSendQ, LackLockRecv, LackLockSend
<1>5. CASE AddPushSendQ
  <2>1. Len(sendQ') = Len(sendQ) + 1
    BY <1>5, AppendProperties, EmptySeq DEF AddPushSendQ, RegistryTypeOK
  <2>2. UNCHANGED Removals
    BY <1>5, SameClients DEF AddPushSendQ, cli
  <2>. QED  BY <1>5, <2>1, <2>2 DEF AddPushSendQ, GotoAcc, LengthsInv, Removals,
                LackRecvQ, LackSendQ, LackLockRecv, LackLockSend
<1>6. CASE AddAskFunList
  <2>1. UNCHANGED Lengths
    BY <1>6, ExceptLength DEF AddAskFunList, registry, RegistryTypeOK, Lengths
  <2>2. UNCHANGED Removals
    BY <1>6, SameClients DEF AddAskFunList, cli
  <2>3. UNCHANGED accPc \/ (accPc = "askFunList" /\ accPc' = "wait")
    BY <1>6 DEF AddAskFunList, acc
  <2>4. UNCHANGED Lacks
    BY <2>3 DEF Lacks, LackRecvQ, LackSendQ, LackLockRecv, LackLockSend
  <2>. QED  BY <2>1, <2>2, <2>4, KeepLengths
<1>7. CASE AddEndWait
  <2>0. Len(remote') = Len(remote)
    <3>1. CASE UNCHANGED remote
      BY <3>1
    <3>2. CASE ~UNCHANGED remote
      <4>1. PICK i \in 1 .. Len(remote), fs \in SUBSET Id : remote' = [remote EXCEPT ![i].funcs = fs]
        BY <1>7, <3>2, EndWaitList
      <4>. DEFINE e == [remote[i] EXCEPT !.funcs = fs]
      <4>2. remote' = [remote EXCEPT ![i] = e]
        BY <4>1
      <4>. HIDE DEF e
      <4>. QED  BY <4>2, ExceptLength DEF RegistryTypeOK
    <3>. QED  BY <3>1, <3>2
  <2>1. UNCHANGED Lengths
    BY <1>7, <2>0 DEF AddEndWait, Lengths
  <2>2. UNCHANGED Removals
    BY <1>7, SameClients DEF AddEndWait, cli
  <2>3. UNCHANGED accPc \/ (accPc = "wait" /\ accPc' = "start")
    BY <1>7 DEF AddEndWait, acc
  <2>4. UNCHANGED Lacks
    BY <2>3 DEF Lacks, LackRecvQ, LackSendQ, LackLockRecv, LackLockSend
  <2>. QED  BY <2>1, <2>2, <2>4, KeepLengths
<1>8. CASE StartProcessClient
  <2>1. UNCHANGED Lengths
    BY <1>8 DEF StartProcessClient, registry, Lengths
  <2>2. accSock \in Sockets /\ cliPc[accSock] = "none"
    BY <1>8 DEF StartProcessClient, AcceptInv, NotStarted
  <2>3. cliPc' = [cliPc EXCEPT ![accSock] = "recv"]
    BY <1>8 DEF StartProcessClient, GotoCli
  <2>4. UNCHANGED Removals
    BY <2>2, <2>3, DeletingStay DEF Removals, NRecvQ, NSendQ, NLockRecv, NLockSend
  <2>5. UNCHANGED Lacks
    BY <1>8 DEF StartProcessClient, Lacks, LackRecvQ, LackSendQ, LackLockRecv, LackLockSend
  <2>. QED  BY <2>1, <2>4, <2>5, KeepLengths
<1>. QED
  BY <1>1, <1>2, <1>3, <1>4, <1>5, <1>6, <1>7, <1>8 DEF AcceptThread

LEMMA ClientLengths ==
  ASSUME TypeInv, LengthsInv, NEW s \in Sockets, ProcessClient(s) PROVE LengthsInv'
<1>. RegistryTypeOK /\ ClientInv /\ ClientTypeOK
  BY DEF TypeInv, ClientInv
<1>. USE LengthsTyped, RemovalsTyped, LacksTyped
<1>1. CASE DelSocket(s)
  <2>1. UNCHANGED Lacks
    BY <1>1, SameAccept DEF DelSocket, acc
  <2>2. CASE cliIdx[s] > Len(remote)
    <3>1. UNCHANGED Lengths /\ UNCHANGED Removals
      BY <1>1, <2>2, SameClients DEF DelSocket, cli, Lengths
    <3>. QED  BY <2>1, <3>1, KeepLengths
  <2>3. CASE ~(cliIdx[s] > Len(remote))
    <3>1. cliPc[s] = "delSocket" /\ cliPc' = [cliPc EXCEPT ![s] = "delRecvQ"]
      BY <1>1, <2>3 DEF DelSocket, GotoCli
    <3>2. /\ NRecvQ' = NRecvQ + 1 /\ NSendQ' = NSendQ + 1
          /\ NLockRecv' = NLockRecv + 1 /\ NLockSend' = NLockSend + 1
      BY <3>1, DeletingEnter DEF NRecvQ, NSendQ, NLockRecv, NLockSend
    <3>3. cliIdx[s] \in 1 .. Len(remote)
      BY <2>3, <3>1 DEF ClientInv, ClientTypeOK
    <3>4. Len(remote') = Len(remote) - 1
      BY <1>1, <2>3, <3>3, RemoveAtProperties DEF DelSocket, RegistryTypeOK
    <3>5. UNCHANGED <<nLockRecv, nLockSend, recvQ, sendQ>>
      BY <1>1 DEF DelSocket
    <3>6. \A n \in Nat : Len(remote') + (n + 1) = Len(remote) + n
      BY <3>4
    <3>7. /\ Len(remote') + NRecvQ' = Len(remote) + NRecvQ
          /\ Len(remote') + NSendQ' = Len(remote) + NSendQ
          /\ Len(remote') + NLockRecv' = Len(remote) + NLockRecv
          /\ Len(remote') + NLockSend' = Len(remote) + NLockSend
      BY <3>2, <3>6
    <3>. QED  BY <2>1, <3>5, <3>7 DEF LengthsInv, Lacks
  <2>. QED  BY <2>2, <2>3
<1>2. CASE DelRecvQ(s)
  <2>1. UNCHANGED Lacks
    BY <1>2, SameAccept DEF DelRecvQ, acc
  <2>2. CASE cliIdx[s] > nLockRecv \/ cliIdx[s] > Len(recvQ)
    <3>1. UNCHANGED Lengths /\ UNCHANGED Removals
      BY <1>2, <2>2, SameClients DEF DelRecvQ, cli, Lengths
    <3>. QED  BY <2>1, <3>1, KeepLengths
  <2>3. CASE ~(cliIdx[s] > nLockRecv \/ cliIdx[s] > Len(recvQ))
    <3>1. cliPc[s] = "delRecvQ" /\ cliPc' = [cliPc EXCEPT ![s] = "delSendQ"]
      BY <1>2, <2>3 DEF DelRecvQ, GotoCli
    <3>2. NRecvQ' = NRecvQ - 1 /\ NSendQ' = NSendQ /\ NLockRecv' = NLockRecv /\ NLockSend' = NLockSend
      <4>1. NRecvQ' = NRecvQ - 1
        <5>. DEFINE pcs == {"delRecvQ"}
        <5>1. cliPc[s] \in pcs /\ "delSendQ" \notin pcs
          BY <3>1
        <5>. HIDE DEF pcs
        <5>2. Cardinality(Deleting(pcs)') = Cardinality(Deleting(pcs)) - 1
          BY <3>1, <5>1, DeletingLeave
        <5>. QED  BY <5>2 DEF NRecvQ, pcs
      <4>2. NSendQ' = NSendQ /\ NLockRecv' = NLockRecv /\ NLockSend' = NLockSend
        BY <3>1, DeletingStay DEF NSendQ, NLockRecv, NLockSend
      <4>. QED  BY <4>1, <4>2
    <3>3. cliIdx[s] \in 1 .. Len(recvQ)
      BY <2>3, <3>1 DEF ClientInv, ClientTypeOK
    <3>4. Len(recvQ') = Len(recvQ) - 1
      BY <1>2, <2>3, <3>3, RemoveAtProperties DEF DelRecvQ, RegistryTypeOK
    <3>5. UNCHANGED <<remote, nLockRecv, nLockSend, sendQ>>
      BY <1>2 DEF DelRecvQ
    <3>. QED  BY <2>1, <3>2, <3>4, <3>5 DEF LengthsInv, Lacks
  <2>. QED  BY <2>2, <2>3
<1>3. CASE DelSendQ(s)
  <2>1. UNCHANGED Lacks
    BY <1>3, SameAccept DEF DelSendQ, acc
  <2>2. CASE cliIdx[s] > nLockSend \/ cliIdx[s] > Len(sendQ)
    <3>1. UNCHANGED Lengths /\ UNCHANGED Removals
      BY <1>3, <2>2, SameClients DEF DelSendQ, cli, Lengths
    <3>. QED  BY <2>1, <3>1, KeepLengths
  <2>3. CASE ~(cliIdx[s] > nLockSend \/ cliIdx[s] > Len(sendQ))
    <3>1. cliPc[s] = "delSendQ" /\ cliPc' = [cliPc EXCEPT ![s] = "delLockRecv"]
      BY <1>3, <2>3 DEF DelSendQ, GotoCli
    <3>2. NRecvQ' = NRecvQ /\ NSendQ' = NSendQ - 1 /\ NLockRecv' = NLockRecv /\ NLockSend' = NLockSend
      <4>1. NSendQ' = NSendQ - 1
        <5>. DEFINE pcs == {"delRecvQ", "delSendQ"}
        <5>1. cliPc[s] \in pcs /\ "delLockRecv" \notin pcs
          BY <3>1
        <5>. HIDE DEF pcs
        <5>2. Cardinality(Deleting(pcs)') = Cardinality(Deleting(pcs)) - 1
          BY <3>1, <5>1, DeletingLeave
        <5>. QED  BY <5>2 DEF NSendQ, pcs
      <4>2. NRecvQ' = NRecvQ /\ NLockRecv' = NLockRecv /\ NLockSend' = NLockSend
        BY <3>1, DeletingStay DEF NRecvQ, NLockRecv, NLockSend
      <4>. QED  BY <4>1, <4>2
    <3>3. cliIdx[s] \in 1 .. Len(sendQ)
      BY <2>3, <3>1 DEF ClientInv, ClientTypeOK
    <3>4. Len(sendQ') = Len(sendQ) - 1
      BY <1>3, <2>3, <3>3, RemoveAtProperties DEF DelSendQ, RegistryTypeOK
    <3>5. UNCHANGED <<remote, nLockRecv, nLockSend, recvQ>>
      BY <1>3 DEF DelSendQ
    <3>. QED  BY <2>1, <3>2, <3>4, <3>5 DEF LengthsInv, Lacks
  <2>. QED  BY <2>2, <2>3
<1>4. CASE DelLockRecv(s)
  <2>1. UNCHANGED Lacks
    BY <1>4, SameAccept DEF DelLockRecv, acc
  <2>2. CASE cliIdx[s] > nLockRecv \/ cliIdx[s] > nLockSend
    <3>1. UNCHANGED Lengths /\ UNCHANGED Removals
      BY <1>4, <2>2, SameClients DEF DelLockRecv, cli, Lengths
    <3>. QED  BY <2>1, <3>1, KeepLengths
  <2>3. CASE ~(cliIdx[s] > nLockRecv \/ cliIdx[s] > nLockSend)
    <3>1. cliPc[s] = "delLockRecv" /\ cliPc' = [cliPc EXCEPT ![s] = "delLockSend"]
      BY <1>4, <2>3 DEF DelLockRecv, GotoCli
    <3>2. /\ NRecvQ' = NRecvQ /\ NSendQ' = NSendQ
          /\ NLockRecv' = NLockRecv - 1 /\ NLockSend' = NLockSend
      <4>1. NLockRecv' = NLockRecv - 1
        <5>. DEFINE pcs == {"delRecvQ", "delSendQ", "delLockRecv"}
        <5>1. cliPc[s] \in pcs /\ "delLockSend" \notin pcs
          BY <3>1
        <5>. HIDE DEF pcs
        <5>2. Cardinality(Deleting(pcs)') = Cardinality(Deleting(pcs)) - 1
          BY <3>1, <5>1, DeletingLeave
        <5>. QED  BY <5>2 DEF NLockRecv, pcs
      <4>2. NRecvQ' = NRecvQ /\ NSendQ' = NSendQ /\ NLockSend' = NLockSend
        BY <3>1, DeletingStay DEF NRecvQ, NSendQ, NLockSend
      <4>. QED  BY <4>1, <4>2
    <3>3. nLockRecv' = nLockRecv - 1 /\ UNCHANGED <<remote, nLockSend, recvQ, sendQ>>
      BY <1>4, <2>3 DEF DelLockRecv
    <3>4. /\ nLockRecv \in Nat /\ LackLockRecv \in Nat /\ Len(remote) \in Nat /\ NLockRecv \in Nat
          /\ nLockRecv + LackLockRecv = Len(remote) + NLockRecv
      BY DEF LengthsInv
    <3>5. (nLockRecv - 1) + LackLockRecv = Len(remote) + (NLockRecv - 1)
      BY <3>4, BothLess
    <3>6. nLockRecv' + LackLockRecv' = Len(remote') + NLockRecv'
      BY <2>1, <3>2, <3>3, <3>5, Zenon DEF Lacks
    <3>7. /\ nLockSend' + LackLockSend' = Len(remote') + NLockSend'
          /\ Len(recvQ') + LackRecvQ' = Len(remote') + NRecvQ'
          /\ Len(sendQ') + LackSendQ' = Len(remote') + NSendQ'
      BY <2>1, <3>2, <3>3, Zenon DEF LengthsInv, Lacks
    <3>. QED  BY <3>6, <3>7 DEF LengthsInv
  <2>. QED  BY <2>2, <2>3
<1>11. CASE DelLockSend(s)
  <2>1. UNCHANGED Lacks
    BY <1>11, SameAccept DEF DelLockSend, acc
  <2>2. CASE cliIdx[s] > nLockSend
    <3>1. UNCHANGED Lengths /\ UNCHANGED Removals
      BY <1>11, <2>2, SameClients DEF DelLockSend, cli, Lengths
    <3>. QED  BY <2>1, <3>1, KeepLengths
  <2>3. CASE ~(cliIdx[s] > nLockSend)
    <3>1. cliPc[s] = "delLockSend" /\ cliPc' = [cliPc EXCEPT ![s] = "close"]
      BY <1>11, <2>3 DEF DelLockSend, GotoCli
    <3>2. /\ NRecvQ' = NRecvQ /\ NSendQ' = NSendQ
          /\ NLockRecv' = NLockRecv /\ NLockSend' = NLockSend - 1
      <4>1. NLockSend' = NLockSend - 1
        <5>. DEFINE pcs == {"delRecvQ", "delSendQ", "delLockRecv", "delLockSend"}
        <5>1. cliPc[s] \in pcs /\ "close" \notin pcs
          BY <3>1
        <5>. HIDE DEF pcs
        <5>2. Cardinality(Deleting(pcs)') = Cardinality(Deleting(pcs)) - 1
          BY <3>1, <5>1, DeletingLeave
        <5>. QED  BY <5>2 DEF NLockSend, pcs
      <4>2. NRecvQ' = NRecvQ /\ NSendQ' = NSendQ /\ NLockRecv' = NLockRecv
        BY <3>1, DeletingStay DEF NRecvQ, NSendQ, NLockRecv
      <4>. QED  BY <4>1, <4>2
    <3>3. nLockSend' = nLockSend - 1 /\ UNCHANGED <<remote, nLockRecv, recvQ, sendQ>>
      BY <1>11, <2>3 DEF DelLockSend, EraseLockSend
    <3>4. /\ nLockSend \in Nat /\ LackLockSend \in Nat /\ Len(remote) \in Nat /\ NLockSend \in Nat
          /\ nLockSend + LackLockSend = Len(remote) + NLockSend
      BY DEF LengthsInv
    <3>5. (nLockSend - 1) + LackLockSend = Len(remote) + (NLockSend - 1)
      BY <3>4, BothLess
    <3>6. nLockSend' + LackLockSend' = Len(remote') + NLockSend'
      BY <2>1, <3>2, <3>3, <3>5, Zenon DEF Lacks
    <3>7. /\ nLockRecv' + LackLockRecv' = Len(remote') + NLockRecv'
          /\ Len(recvQ') + LackRecvQ' = Len(remote') + NRecvQ'
          /\ Len(sendQ') + LackSendQ' = Len(remote') + NSendQ'
      BY <2>1, <3>2, <3>3, Zenon DEF LengthsInv, Lacks
    <3>. QED  BY <3>6, <3>7 DEF LengthsInv
  <2>. QED  BY <2>2, <2>3
<1>5. CASE Recv(s)
  BY <1>5, ClientKeepsLengths DEF Recv, registry, acc, Lengths
<1>6. CASE PushRecvFind(s)
  BY <1>6, ClientKeepsLengths DEF PushRecvFind, BackToRecv, registry, acc, Lengths
<1>7. CASE PushPacketDataRecv(s)
  <2>1. UNCHANGED Lengths
    BY <1>7, ExceptLength DEF PushPacketDataRecv, Lengths, RegistryTypeOK
  <2>2. CASE UNCHANGED cli
    <3>1. UNCHANGED Lacks /\ UNCHANGED Removals
      BY <1>7, <2>2, SameAccept, SameClients DEF PushPacketDataRecv, cli, acc
    <3>. QED  BY <2>1, <3>1, KeepLengths
  <2>3. CASE BackToRecv(s)
    BY <1>7, <2>1, <2>3, ClientKeepsLengths DEF PushPacketDataRecv, BackToRecv, acc
  <2>. QED  BY <1>7, <2>2, <2>3 DEF PushPacketDataRecv
<1>8. CASE Disconnect(s)
  BY <1>8, ClientKeepsLengths DEF Disconnect, GotoCli, registry, acc, Lengths
<1>9. CASE DelFind(s)
  <2>1. UNCHANGED Lengths /\ UNCHANGED accPc
    BY <1>9 DEF DelFind, registry, acc, Lengths
  <2>2. PICK pc \in {"close", "delSocket"} : cliPc' = [cliPc EXCEPT ![s] = pc]
    BY <1>9 DEF DelFind
  <2>3. cliPc[s] = "delFind"
    BY <1>9 DEF DelFind
  <2>. QED  BY <2>1, <2>2, <2>3, ClientKeepsLengths
<1>10. CASE CloseSocket(s)
  BY <1>10, ClientKeepsLengths DEF CloseSocket, registry, acc, Lengths
<1>. QED
  BY <1>1, <1>2, <1>3, <1>4, <1>5, <1>6, <1>7, <1>8, <1>9, <1>10, <1>11 DEF ProcessClient

(* The worker threads change the contents of the vectors, not the lengths. *)
LEMMA WorkersKeepLengths ==
  ASSUME TypeInv, LengthsInv, ParamThreadRecvProc \/ ParamThreadSendProc PROVE LengthsInv'
<1>. RegistryTypeOK
  BY DEF TypeInv
<1>1. UNCHANGED <<acc, cli>>
  BY DEF ParamThreadRecvProc, RxPick, RxFind, RxPop, RxUpdataRemoteFuncList, RxReplyFind,
         RxPushPacketDataSend, ParamThreadSendProc, TxPick, TxFind, TxPop, TxSendToClient
<1>2. UNCHANGED Lengths
  <2>1. CASE RxPick \/ RxFind \/ RxReplyFind \/ TxPick \/ TxFind \/ TxSendToClient
    BY <2>1 DEF RxPick, RxFind, RxReplyFind, TxPick, TxFind, TxSendToClient, registry, Lengths
  <2>2. CASE RxPop
    BY <2>2, ExceptLength DEF RxPop, PopFirst, RegistryTypeOK, Lengths
  <2>3. CASE RxUpdataRemoteFuncList
    BY <2>3, ExceptLength
       DEF RxUpdataRemoteFuncList, UpdataRemoteFuncList, RegistryTypeOK, Lengths
  <2>4. CASE RxPushPacketDataSend
    BY <2>4, ExceptLength DEF RxPushPacketDataSend, RegistryTypeOK, Lengths
  <2>5. CASE TxPop
    BY <2>5, ExceptLength DEF TxPop, PopFirst, RegistryTypeOK, Lengths
  <2>. QED
    BY <2>1, <2>2, <2>3, <2>4, <2>5 DEF ParamThreadRecvProc, ParamThreadSendProc
<1>. QED  BY <1>1, <1>2, SameAccept, SameClients, KeepLengths DEF acc, cli

LEMMA NextNotStarted ==
  ASSUME TypeInv, NotStarted, [Next]_vars PROVE NotStarted'
<1>. AcceptInv /\ ClientTypeOK
  BY DEF TypeInv, ClientInv
<1>1. CASE UNCHANGED <<acc, cli>>
  BY <1>1 DEF NotStarted, acc, cli
<1>2. ASSUME NEW s \in Sockets, Accept(s) PROVE NotStarted'
  BY <1>2 DEF Accept, NotStarted, cli
<1>3. ASSUME NEW s \in Sockets, ProcessClient(s) PROVE NotStarted'
  <2>1. UNCHANGED acc /\ cliPc[s] # "none"
    BY <1>3 DEF ProcessClient, Recv, PushRecvFind, PushPacketDataRecv, Disconnect, DelFind,
                DelSocket, DelRecvQ, DelSendQ, DelLockRecv, DelLockSend, CloseSocket
  <2>2. \E pc : cliPc' = [cliPc EXCEPT ![s] = pc]
    <3>1. cliPc = [cliPc EXCEPT ![s] = cliPc[s]]
      BY DEF ClientTypeOK
    <3>. QED
      BY <1>3, <3>1 DEF ProcessClient, Recv, PushRecvFind, PushPacketDataRecv, Disconnect,
                 DelFind, DelSocket, DelRecvQ, DelSendQ, DelLockRecv, DelLockSend, CloseSocket,
                 BackToRecv, GotoCli, cli
  <2>. QED  BY <2>1, <2>2 DEF NotStarted, acc, AcceptInv, ClientTypeOK
<1>4. CASE AcceptThread
  <2>1. CASE StartProcessClient
    BY <2>1 DEF StartProcessClient, NotStarted
  <2>2. CASE ~StartProcessClient
    <3>1. UNCHANGED <<accSock, cliPc>> /\ accPc # "accept"
      BY <1>4, <2>2 DEF AcceptThread, AddPushSocket, AddPushLockRecv, AddPushLockSend,
           AddPushRecvQ, AddPushSendQ, AddAskFunList, AddEndWait, GotoAcc, acc, cli
    <3>. QED  BY <3>1 DEF NotStarted
  <2>. QED  BY <2>1, <2>2
<1>5. CASE ParamThreadRecvProc \/ ParamThreadSendProc
  <2>1. UNCHANGED <<acc, cli>>
    BY <1>5 DEF ParamThreadRecvProc, RxPick, RxFind, RxPop, RxUpdataRemoteFuncList, RxReplyFind,
           RxPushPacketDataSend, ParamThreadSendProc, TxPick, TxFind, TxPop, TxSendToClient
  <2>. QED  BY <1>1, <2>1
<1>6. ASSUME NEW s \in Sockets, Client(s) PROVE NotStarted'
  BY <1>1, <1>6 DEF Client, ClientSend, ClientClose
<1>7. CASE UNCHANGED vars
  BY <1>1, <1>7 DEF vars
<1>. QED  BY <1>2, <1>3, <1>4, <1>5, <1>6, <1>7 DEF Next, Halted

LEMMA NextLengths ==
  ASSUME TypeInv, NotStarted, LengthsInv, [Next]_vars PROVE LengthsInv'
<1>1. ASSUME NEW s \in Sockets, Client(s) \/ Accept(s) PROVE LengthsInv'
  <2>1. CASE Client(s)
    <3>1. UNCHANGED <<accPc, cliPc>> /\ UNCHANGED Lengths
      BY <2>1 DEF Client, ClientSend, ClientClose, registry, acc, cli, Lengths
    <3>. QED  BY <3>1, SameAccept, SameClients, KeepLengths
  <2>2. CASE Accept(s)
    <3>1. UNCHANGED cliPc /\ UNCHANGED Lengths
      BY <2>2 DEF Accept, registry, cli, Lengths
    <3>2. UNCHANGED Lacks
      BY <2>2 DEF Accept, Lacks, LackRecvQ, LackSendQ, LackLockRecv, LackLockSend
    <3>3. accPc' = "pushSocket"
      BY <2>2 DEF Accept
    <3>. QED  BY <3>1, <3>2, SameClients, KeepLengths
  <2>. QED  BY <1>1, <2>1, <2>2
<1>2. CASE UNCHANGED vars
  <2>1. UNCHANGED <<accPc, cliPc>> /\ UNCHANGED Lengths
    BY <1>2 DEF vars, registry, acc, cli, Lengths
  <2>. QED  BY <2>1, SameAccept, SameClients, KeepLengths
<1>. QED
  BY <1>1, <1>2, AddLengths, ClientLengths, WorkersKeepLengths DEF Next, Halted

LEMMA InitLengths == Init => NotStarted /\ LengthsInv
<1>. SUFFICES ASSUME Init PROVE NotStarted /\ LengthsInv
  OBVIOUS
<1>1. NotStarted
  BY DEF Init, NotStarted
<1>2. NRecvQ = 0 /\ NSendQ = 0 /\ NLockRecv = 0 /\ NLockSend = 0
  <2>1. ASSUME NEW pcs, "none" \notin pcs PROVE Deleting(pcs) = {}
    BY <2>1 DEF Init, Deleting
  <2>. QED  BY <2>1, FS_EmptySet DEF NRecvQ, NSendQ, NLockRecv, NLockSend
<1>3. LengthsInv
  BY <1>2 DEF Init, LengthsInv, LackRecvQ, LackSendQ, LackLockRecv, LackLockSend
<1>. QED  BY <1>1, <1>3

(* Whatever AddSocketSource and DelSocketSource do concurrently, and at    *)
(* whatever stale index they erase, the five parallel vectors have the     *)
(* same length whenever no socket is being added or removed.               *)
THEOREM LengthsCorrect == Spec => []LengthsAgree
<1>1. Init => TypeInv /\ NotStarted /\ LengthsInv
  BY InitTypeInv, InitLengths
<1>2. TypeInv /\ NotStarted /\ LengthsInv /\ [Next]_vars
        => (TypeInv /\ NotStarted /\ LengthsInv)'
  BY NextTypeInv, NextNotStarted, NextLengths
<1>3. TypeInv /\ LengthsInv => LengthsAgree
  <2>. SUFFICES ASSUME TypeInv, LengthsInv, Settled PROVE LengthsAgree
    BY DEF LengthsAgree
  <2>1. NRecvQ = 0 /\ NSendQ = 0 /\ NLockRecv = 0 /\ NLockSend = 0
    <3>1. /\ Deleting({"delRecvQ"}) = {} /\ Deleting({"delRecvQ", "delSendQ"}) = {}
          /\ Deleting({"delRecvQ", "delSendQ", "delLockRecv"}) = {}
          /\ Deleting({"delRecvQ", "delSendQ", "delLockRecv", "delLockSend"}) = {}
      BY DEF Settled, Deleting
    <3>. QED  BY <3>1, FS_EmptySet DEF NRecvQ, NSendQ, NLockRecv, NLockSend
  <2>2. LackRecvQ = 0 /\ LackSendQ = 0 /\ LackLockRecv = 0 /\ LackLockSend = 0
    BY DEF Settled, LackRecvQ, LackSendQ, LackLockRecv, LackLockSend
  <2>. QED  BY <2>1, <2>2, LengthsTyped DEF LengthsInv, LengthsAgree, TypeInv
<1>. QED  BY <1>1, <1>2, <1>3, PTL DEF Spec
-----------------------------------------------------------------------------
(***************************************************************************)
(* The order of the packets.  A call passes, as a request and then as its  *)
(* reply, through eight places: not issued yet, on the wire, in the hands  *)
(* of the client's thread, in a receive queue, in the hands of             *)
(* ParamThreadRecvProc, in a send queue, in the hands of                   *)
(* ParamThreadSendProc, sent.  R says which call may be ahead of which.    *)
(***************************************************************************)
AnyPacket == Packet \cup {NoPacket}

Call(p) == p.kind \in {"req", "unknown", "reply"}
CallIds(packets) == {p.id : p \in {x \in packets : Call(x)}}

(* A family of queues: what is in them, the order within each of them, and *)
(* between any two of them.                                                *)
IdsIn(f) == UNION {CallIds(Range(f[i])) : i \in DOMAIN f}

PacketOrder(R) ==
  {pq \in AnyPacket \X AnyPacket :
     Call(pq[1]) /\ Call(pq[2]) => <<pq[1].id, pq[2].id>> \in R}
Each(f, R) == \A i \in DOMAIN f : f[i] \in Seq(AnyPacket) /\ Sorted(f[i], PacketOrder(R))
Apart(f, R) ==
  \A i, k \in DOMAIN f : i # k =>
    \A a \in CallIds(Range(f[i])), b \in CallIds(Range(f[k])) : <<a, b>> \in R

(* Every call in A may be ahead of every call in B. *)
AllAhead(A, B, R) == \A a \in A, b \in B : <<a, b>> \in R

(* g is f but for its i-th queue. *)
Except(f, g, i) ==
  /\ i \in DOMAIN f /\ DOMAIN g = DOMAIN f
  /\ \A k \in DOMAIN f : k # i => g[k] = f[k]

LEMMA CallIdsProperties ==
  /\ \A A, B : A \subseteq B => CallIds(A) \subseteq CallIds(B)
  /\ \A A, B : CallIds(A \cup B) = CallIds(A) \cup CallIds(B)
  /\ \A x : CallIds({x}) = IF Call(x) THEN {x.id} ELSE {}
  /\ CallIds({}) = {}
BY DEF CallIds

LEMMA IdsInProperties ==
  ASSUME NEW f
  PROVE  /\ \A i \in DOMAIN f : CallIds(Range(f[i])) \subseteq IdsIn(f)
         /\ \A a \in IdsIn(f) : \E i \in DOMAIN f : a \in CallIds(Range(f[i]))
BY DEF IdsIn

(* A packet is pushed to one queue. *)
LEMMA PushOne ==
  ASSUME NEW R, NEW q \in Seq(AnyPacket), Sorted(q, PacketOrder(R)), NEW x \in AnyPacket,
         NEW r, r = Append(q, x) \/ r = PushDropOldest(q, x, MAX_PACKETDATA_NUM),
         AllAhead(CallIds(Range(q)), CallIds({x}), R)
  PROVE  /\ r \in Seq(AnyPacket) /\ Sorted(r, PacketOrder(R))
         /\ CallIds(Range(r)) \subseteq CallIds(Range(q)) \cup CallIds({x})
<1>1. \A y \in Range(q) : <<y, x>> \in PacketOrder(R)
  <2>. SUFFICES ASSUME NEW y \in Range(q) PROVE <<y, x>> \in PacketOrder(R)
    OBVIOUS
  <2>1. y \in AnyPacket
    BY RangeOfQueue
  <2>2. Call(y) /\ Call(x) => y.id \in CallIds(Range(q)) /\ x.id \in CallIds({x})
    BY DEF CallIds
  <2>. QED  BY <2>1, <2>2 DEF PacketOrder, AllAhead
<1>2. Sorted(r, PacketOrder(R)) /\ Range(r) \subseteq Range(q) \cup {x}
  <2>. DEFINE O == PacketOrder(R)
  <2>1. Sorted(q, O) /\ \A y \in Range(q) : <<y, x>> \in O
    BY <1>1
  <2>. HIDE DEF O
  <2>2. Sorted(Append(q, x), O) /\ Range(Append(q, x)) = Range(q) \cup {x}
    BY <2>1, AppendSorted
  <2>3. /\ Sorted(PushDropOldest(q, x, MAX_PACKETDATA_NUM), O)
        /\ Range(PushDropOldest(q, x, MAX_PACKETDATA_NUM)) \subseteq Range(q) \cup {x}
    BY <2>1, PushDropOldestSorted, CommAssumption
  <2>. QED  BY <2>2, <2>3 DEF O
<1>3. r \in Seq(AnyPacket)
  <2>1. Append(q, x) \in Seq(AnyPacket)
    BY AppendProperties
  <2>2. Tail(q) \in Seq(AnyPacket) \/ q = <<>>
    BY HeadTailProperties
  <2>3. PushDropOldest(q, x, MAX_PACKETDATA_NUM) \in Seq(AnyPacket)
    <3>1. CASE q = <<>>
      <4>1. ~(Len(q) >= MAX_PACKETDATA_NUM)
        BY <3>1, CommAssumption
      <4>. QED  BY <2>1, <4>1 DEF PushDropOldest
    <3>2. CASE q # <<>>
      BY <2>1, <2>2, <3>2, AppendProperties DEF PushDropOldest
    <3>. QED  BY <3>1, <3>2
  <2>. QED  BY <2>1, <2>3
<1>4. CallIds(Range(r)) \subseteq CallIds(Range(q) \cup {x})
  BY <1>2, CallIdsProperties
<1>. QED  BY <1>2, <1>3, <1>4, CallIdsProperties

(* The first packet of one queue is erased. *)
LEMMA PopOne ==
  ASSUME NEW R, NEW q \in Seq(AnyPacket), Sorted(q, PacketOrder(R)), q # <<>>
  PROVE  /\ Tail(q) \in Seq(AnyPacket) /\ Sorted(Tail(q), PacketOrder(R))
         /\ CallIds(Range(Tail(q))) \subseteq CallIds(Range(q))
         /\ CallIds({Head(q)}) \subseteq CallIds(Range(q))
         /\ AllAhead(CallIds({Head(q)}), CallIds(Range(Tail(q))), R)
<1>1. /\ Sorted(Tail(q), PacketOrder(R))
      /\ Head(q) \in Range(q) /\ Range(Tail(q)) \subseteq Range(q)
      /\ \A x \in Range(Tail(q)) : <<Head(q), x>> \in PacketOrder(R)
  BY TailSorted
<1>2. Tail(q) \in Seq(AnyPacket)
  BY HeadTailProperties
<1>3. {Head(q)} \subseteq Range(q)
  BY <1>1
<1>4. AllAhead(CallIds({Head(q)}), CallIds(Range(Tail(q))), R)
  BY <1>1 DEF AllAhead, CallIds, PacketOrder
<1>. QED  BY <1>1, <1>2, <1>3, <1>4, CallIdsProperties

(* One queue of a family changes. *)
LEMMA ExceptFamily ==
  ASSUME NEW R, NEW f, NEW g, NEW i, Except(f, g, i), Each(f, R), NEW X,
         g[i] \in Seq(AnyPacket), Sorted(g[i], PacketOrder(R)),
         CallIds(Range(g[i])) \subseteq CallIds(Range(f[i])) \cup X
  PROVE  /\ Each(g, R) /\ IdsIn(g) \subseteq IdsIn(f) \cup X
         /\ Apart(f, R) /\ AllAhead(IdsIn(f), X, R) /\ AllAhead(X, IdsIn(f), R)
              => Apart(g, R)
<1>1. Each(g, R)
  BY DEF Each, Except
<1>2. IdsIn(g) \subseteq IdsIn(f) \cup X
  BY DEF IdsIn, Except
<1>3. ASSUME Apart(f, R), AllAhead(IdsIn(f), X, R), AllAhead(X, IdsIn(f), R) PROVE Apart(g, R)
  <2>. SUFFICES ASSUME NEW j \in DOMAIN g, NEW k \in DOMAIN g, j # k,
                       NEW a \in CallIds(Range(g[j])), NEW b \in CallIds(Range(g[k]))
                PROVE  <<a, b>> \in R
    BY DEF Apart
  <2>1. CASE a \in CallIds(Range(f[j])) /\ b \in CallIds(Range(f[k]))
    BY <1>3, <2>1 DEF Apart, Except
  <2>2. CASE a \notin CallIds(Range(f[j]))
    <3>1. j = i /\ a \in X /\ b \in CallIds(Range(f[k])) /\ k \in DOMAIN f
      BY <2>2 DEF Except
    <3>2. b \in IdsIn(f)
      BY <3>1, IdsInProperties
    <3>. QED  BY <1>3, <3>1, <3>2 DEF AllAhead
  <2>3. CASE b \notin CallIds(Range(f[k]))
    <3>1. k = i /\ b \in X /\ a \in CallIds(Range(f[j])) /\ j \in DOMAIN f
      BY <2>3 DEF Except
    <3>2. a \in IdsIn(f)
      BY <3>1, IdsInProperties
    <3>. QED  BY <1>3, <3>1, <3>2 DEF AllAhead
  <2>. QED  BY <2>1, <2>2, <2>3
<1>. QED  BY <1>1, <1>2, <1>3

LEMMA PushToFamily ==
  ASSUME NEW R, NEW f, NEW g, NEW i, Except(f, g, i), Each(f, R), NEW x \in AnyPacket,
         g[i] = Append(f[i], x) \/ g[i] = PushDropOldest(f[i], x, MAX_PACKETDATA_NUM),
         AllAhead(IdsIn(f), CallIds({x}), R)
  PROVE  /\ Each(g, R) /\ IdsIn(g) \subseteq IdsIn(f) \cup CallIds({x})
         /\ Apart(f, R) /\ AllAhead(CallIds({x}), IdsIn(f), R) => Apart(g, R)
<1>1. f[i] \in Seq(AnyPacket) /\ Sorted(f[i], PacketOrder(R)) /\ i \in DOMAIN f
  BY DEF Each, Except
<1>2. AllAhead(CallIds(Range(f[i])), CallIds({x}), R)
  BY <1>1, IdsInProperties DEF AllAhead
<1>3. /\ g[i] \in Seq(AnyPacket) /\ Sorted(g[i], PacketOrder(R))
      /\ CallIds(Range(g[i])) \subseteq CallIds(Range(f[i])) \cup CallIds({x})
  BY <1>1, <1>2, PushOne
<1>. QED  BY <1>3, ExceptFamily

LEMMA PushNoCall ==
  ASSUME NEW R, NEW f, NEW g, NEW i, Except(f, g, i), Each(f, R), NEW x \in AnyPacket,
         g[i] = Append(f[i], x) \/ g[i] = PushDropOldest(f[i], x, MAX_PACKETDATA_NUM), ~Call(x)
  PROVE  Each(g, R) /\ IdsIn(g) \subseteq IdsIn(f) /\ (Apart(f, R) => Apart(g, R))
<1>1. CallIds({x}) = {}
  BY CallIdsProperties
<1>2. AllAhead(IdsIn(f), {}, R) /\ AllAhead({}, IdsIn(f), R)
  BY DEF AllAhead
<1>3. /\ Each(g, R) /\ IdsIn(g) \subseteq IdsIn(f) \cup {}
      /\ Apart(f, R) /\ AllAhead({}, IdsIn(f), R) => Apart(g, R)
  BY <1>1, <1>2, PushToFamily
<1>. QED  BY <1>2, <1>3

LEMMA PopFromFamily ==
  ASSUME NEW R, NEW f, NEW g, NEW i, Except(f, g, i), Each(f, R), Apart(f, R),
         f[i] # <<>>, g[i] = Tail(f[i])
  PROVE  /\ Each(g, R) /\ IdsIn(g) \subseteq IdsIn(f) /\ Apart(g, R)
         /\ Head(f[i]) \in AnyPacket
         /\ CallIds({Head(f[i])}) \subseteq IdsIn(f)
         /\ AllAhead(CallIds({Head(f[i])}), IdsIn(g), R)
<1>1. f[i] \in Seq(AnyPacket) /\ Sorted(f[i], PacketOrder(R)) /\ i \in DOMAIN f
  BY DEF Each, Except
<1>2. /\ g[i] \in Seq(AnyPacket) /\ Sorted(g[i], PacketOrder(R))
      /\ CallIds(Range(g[i])) \subseteq CallIds(Range(f[i])) \cup {}
      /\ CallIds({Head(f[i])}) \subseteq CallIds(Range(f[i]))
      /\ AllAhead(CallIds({Head(f[i])}), CallIds(Range(g[i])), R)
  BY <1>1, PopOne
<1>3. Each(g, R) /\ IdsIn(g) \subseteq IdsIn(f) \cup {} /\ Apart(g, R)
  <2>1. AllAhead(IdsIn(f), {}, R) /\ AllAhead({}, IdsIn(f), R)
    BY DEF AllAhead
  <2>. QED  BY <1>2, <2>1, ExceptFamily
<1>4. CallIds({Head(f[i])}) \subseteq IdsIn(f)
  BY <1>1, <1>2, IdsInProperties
<1>5. ASSUME NEW a \in CallIds({Head(f[i])}), NEW b \in IdsIn(g) PROVE <<a, b>> \in R
  <2>1. PICK k \in DOMAIN g : b \in CallIds(Range(g[k]))
    BY IdsInProperties
  <2>2. CASE k = i
    BY <1>2, <2>1, <2>2 DEF AllAhead
  <2>3. CASE k # i
    <3>1. b \in CallIds(Range(f[k])) /\ k \in DOMAIN f /\ a \in CallIds(Range(f[i]))
      BY <1>2, <2>1, <2>3 DEF Except
    <3>. QED  BY <1>1, <2>3, <3>1 DEF Apart
  <2>. QED  BY <2>2, <2>3
<1>6. Head(f[i]) \in AnyPacket
  BY <1>1, HeadTailProperties
<1>. QED  BY <1>3, <1>4, <1>5, <1>6 DEF AllAhead

(* Every queue of g is a queue of f, each used once, or empty. *)
LEMMA SubFamily ==
  ASSUME NEW R, NEW f, NEW g, NEW m, Each(f, R),
         \A j \in DOMAIN g : g[j] = <<>> \/ (m[j] \in DOMAIN f /\ g[j] = f[m[j]]),
         \A j, k \in DOMAIN g : j # k => m[j] # m[k]
  PROVE  Each(g, R) /\ IdsIn(g) \subseteq IdsIn(f) /\ (Apart(f, R) => Apart(g, R))
<1>0. CallIds(Range(<<>>)) = {}
  BY EmptySorted, CallIdsProperties
<1>1. Each(g, R)
  <2>1. <<>> \in Seq(AnyPacket) /\ Sorted(<<>>, PacketOrder(R))
    BY EmptySeq, EmptySorted
  <2>. QED  BY <2>1 DEF Each
<1>2. IdsIn(g) \subseteq IdsIn(f)
  <2>. SUFFICES ASSUME NEW a \in IdsIn(g) PROVE a \in IdsIn(f)
    OBVIOUS
  <2>1. PICK j \in DOMAIN g : a \in CallIds(Range(g[j]))
    BY IdsInProperties
  <2>. QED  BY <1>0, <2>1, IdsInProperties
<1>3. ASSUME Apart(f, R) PROVE Apart(g, R)
  <2>. SUFFICES ASSUME NEW j \in DOMAIN g, NEW k \in DOMAIN g, j # k,
                       NEW a \in CallIds(Range(g[j])), NEW b \in CallIds(Range(g[k]))
                PROVE  <<a, b>> \in R
    BY DEF Apart
  <2>1. /\ m[j] \in DOMAIN f /\ g[j] = f[m[j]]
        /\ m[k] \in DOMAIN f /\ g[k] = f[m[k]] /\ m[j] # m[k]
    BY <1>0
  <2>. QED  BY <1>3, <2>1 DEF Apart
<1>. QED  BY <1>1, <1>2, <1>3

LEMMA AddToFamily ==
  ASSUME NEW R, NEW f \in Seq(Seq(Packet)), Each(f, R)
  PROVE  LET g == Append(f, <<>>)
         IN Each(g, R) /\ IdsIn(g) \subseteq IdsIn(f) /\ (Apart(f, R) => Apart(g, R))
<1>. DEFINE g == Append(f, <<>>)
            m == [j \in DOMAIN g |-> j]
<1>1. <<>> \in Seq(Packet) /\ Len(f) \in Nat /\ DOMAIN f = 1 .. Len(f)
  BY EmptySeq, LenProperties
<1>2. /\ g \in Seq(Seq(Packet)) /\ Len(g) = Len(f) + 1 /\ g[Len(f) + 1] = <<>>
      /\ \A j \in 1 .. Len(f) : g[j] = f[j]
  BY <1>1, AppendProperties
<1>3. DOMAIN g = 1 .. Len(f) + 1
  BY <1>2, LenProperties
<1>. HIDE DEF g
<1>4. \A j \in DOMAIN g : g[j] = <<>> \/ (m[j] \in DOMAIN f /\ g[j] = f[m[j]])
  BY <1>1, <1>2, <1>3, SMTT(30)
<1>5. \A j, k \in DOMAIN g : j # k => m[j] # m[k]
  OBVIOUS
<1>. HIDE DEF m
<1>. QED  BY <1>4, <1>5, SubFamily DEF g

LEMMA EraseFromFamily ==
  ASSUME NEW R, NEW f \in Seq(Seq(Packet)), NEW i \in 1 .. Len(f), Each(f, R)
  PROVE  LET g == RemoveAt(f, i)
         IN Each(g, R) /\ IdsIn(g) \subseteq IdsIn(f) /\ (Apart(f, R) => Apart(g, R))
<1>. DEFINE g == RemoveAt(f, i)
            m == [j \in DOMAIN g |-> IF j < i THEN j ELSE j + 1]
<1>1. Len(f) \in Nat /\ DOMAIN f = 1 .. Len(f)
  BY LenProperties
<1>2. /\ g \in Seq(Seq(Packet)) /\ Len(g) = Len(f) - 1
      /\ \A j \in 1 .. Len(f) - 1 : g[j] = IF j < i THEN f[j] ELSE f[j + 1]
  BY RemoveAtProperties
<1>3. DOMAIN g = 1 .. Len(f) - 1
  BY <1>2, LenProperties
<1>. HIDE DEF g
<1>4. \A j \in DOMAIN g : m[j] \in DOMAIN f /\ g[j] = f[m[j]]
  <2>. SUFFICES ASSUME NEW j \in DOMAIN g PROVE m[j] \in DOMAIN f /\ g[j] = f[m[j]]
    OBVIOUS
  <2>1. j \in 1 .. Len(f) - 1 /\ m[j] = IF j < i THEN j ELSE j + 1
    BY <1>3
  <2>. HIDE DEF m
  <2>2. CASE j < i
    <3>1. j \in 1 .. Len(f) /\ m[j] = j
      BY <1>1, <2>1, <2>2
    <3>2. g[j] = f[j]
      BY <1>2, <2>1, <2>2
    <3>. QED  BY <1>1, <3>1, <3>2
  <2>3. CASE ~(j < i)
    <3>1. j + 1 \in 1 .. Len(f)
      BY <1>1, <2>1
    <3>. QED  BY <1>1, <1>2, <2>1, <2>3, <3>1
  <2>. QED  BY <2>2, <2>3
<1>5. \A j, k \in DOMAIN g : j # k => m[j] # m[k]
  BY <1>3
<1>. HIDE DEF m
<1>. QED  BY <1>4, <1>5, SubFamily DEF g

(***************************************************************************)
(* The packets in the hands of the threads of the clients, as a family of  *)
(* queues of one packet each.                                              *)
(***************************************************************************)
Slots(h) == [s \in DOMAIN h |-> <<h[s]>>]

LEMMA SinglePacket ==
  ASSUME NEW R, NEW x \in AnyPacket
  PROVE  <<x>> \in Seq(AnyPacket) /\ Sorted(<<x>>, PacketOrder(R)) /\ Range(<<x>>) = {x}
<1>1. DOMAIN <<x>> = {1} /\ <<x>>[1] = x
  OBVIOUS
<1>2. Range(<<x>>) = {x}
  BY <1>1 DEF Range
<1>3. Sorted(<<x>>, PacketOrder(R))
  BY <1>1 DEF Sorted
<1>4. <<x>> \in Seq(AnyPacket)
  OBVIOUS
<1>. QED  BY <1>2, <1>3, <1>4

LEMMA SlotProperties ==
  ASSUME NEW R, NEW h, NEW s \in DOMAIN h, \A t \in DOMAIN h : h[t] \in AnyPacket
  PROVE  Each(Slots(h), R) /\ CallIds({h[s]}) \subseteq IdsIn(Slots(h))
<1>1. DOMAIN Slots(h) = DOMAIN h /\ \A t \in DOMAIN h : Slots(h)[t] = <<h[t]>>
  BY DEF Slots
<1>2. ASSUME NEW x \in AnyPacket
      PROVE  <<x>> \in Seq(AnyPacket) /\ Sorted(<<x>>, PacketOrder(R)) /\ Range(<<x>>) = {x}
  BY SinglePacket
<1>3. Each(Slots(h), R)
  <2>1. ASSUME NEW t \in DOMAIN h
        PROVE  Slots(h)[t] \in Seq(AnyPacket) /\ Sorted(Slots(h)[t], PacketOrder(R))
    <3>1. h[t] \in AnyPacket /\ Slots(h)[t] = <<h[t]>>
      BY <1>1
    <3>2. <<h[t]>> \in Seq(AnyPacket) /\ Sorted(<<h[t]>>, PacketOrder(R))
      BY <1>2, <3>1
    <3>. QED  BY <3>1, <3>2
  <2>. QED  BY <1>1, <2>1 DEF Each
<1>4. CallIds({h[s]}) \subseteq IdsIn(Slots(h))
  <2>1. CallIds(Range(Slots(h)[s])) \subseteq IdsIn(Slots(h))
    BY <1>1, IdsInProperties
  <2>2. Range(Slots(h)[s]) = {h[s]}
    BY <1>1, <1>2
  <2>. QED  BY <2>1, <2>2
<1>. QED  BY <1>3, <1>4

LEMMA FillSlot ==
  ASSUME NEW R, NEW h, NEW s \in DOMAIN h, \A t \in DOMAIN h : h[t] \in AnyPacket,
         NEW y \in AnyPacket
  PROVE  LET k == [h EXCEPT ![s] = y]
         IN /\ IdsIn(Slots(k)) \subseteq IdsIn(Slots(h)) \cup CallIds({y})
            /\ Apart(Slots(h), R) /\ AllAhead(IdsIn(Slots(h)), CallIds({y}), R)
                 /\ AllAhead(CallIds({y}), IdsIn(Slots(h)), R) => Apart(Slots(k), R)
<1>. DEFINE k == [h EXCEPT ![s] = y]
            f == Slots(h)
            g == Slots(k)
<1>1. Except(f, g, s) /\ g[s] = <<y>>
  BY DEF Slots, Except
<1>2. Each(f, R)
  BY SlotProperties
<1>3. <<y>> \in Seq(AnyPacket) /\ Sorted(<<y>>, PacketOrder(R)) /\ Range(<<y>>) = {y}
  BY SinglePacket
<1>. HIDE DEF f, g
<1>4. /\ g[s] \in Seq(AnyPacket) /\ Sorted(g[s], PacketOrder(R))
      /\ CallIds(Range(g[s])) \subseteq CallIds(Range(f[s])) \cup CallIds({y})
  BY <1>1, <1>3
<1>5. /\ IdsIn(g) \subseteq IdsIn(f) \cup CallIds({y})
      /\ Apart(f, R) /\ AllAhead(IdsIn(f), CallIds({y}), R)
           /\ AllAhead(CallIds({y}), IdsIn(f), R) => Apart(g, R)
  BY <1>1, <1>2, <1>4, ExceptFamily
<1>. QED  BY <1>5 DEF f, g

LEMMA EmptySlot ==
  ASSUME NEW R, NEW h, NEW s \in DOMAIN h, \A t \in DOMAIN h : h[t] \in AnyPacket,
         Apart(Slots(h), R)
  PROVE  LET k == [h EXCEPT ![s] = NoPacket]
         IN /\ IdsIn(Slots(k)) \subseteq IdsIn(Slots(h)) /\ Apart(Slots(k), R)
            /\ CallIds({h[s]}) \subseteq IdsIn(Slots(h))
            /\ AllAhead(CallIds({h[s]}), IdsIn(Slots(k)), R)
<1>. DEFINE k == [h EXCEPT ![s] = NoPacket]
<1>1. CallIds({NoPacket}) = {} /\ NoPacket \in AnyPacket
  BY CallIdsProperties DEF NoPacket, Call, AnyPacket
<1>2. IdsIn(Slots(k)) \subseteq IdsIn(Slots(h)) /\ Apart(Slots(k), R)
  BY <1>1, FillSlot DEF AllAhead
<1>3. CallIds({h[s]}) \subseteq IdsIn(Slots(h))
  BY SlotProperties
<1>4. ASSUME NEW a \in CallIds({h[s]}), NEW b \in IdsIn(Slots(k)) PROVE <<a, b>> \in R
  <2>1. PICK t \in DOMAIN Slots(k) : b \in CallIds(Range(Slots(k)[t]))
    BY IdsInProperties
  <2>2. /\ DOMAIN Slots(k) = DOMAIN h /\ DOMAIN Slots(h) = DOMAIN h
        /\ Slots(k)[t] = <<k[t]>> /\ Slots(h)[t] = <<h[t]>> /\ Slots(h)[s] = <<h[s]>>
    BY <2>1 DEF Slots
  <2>3. \A x : Range(<<x>>) = {x}
    <3>1. \A x : DOMAIN <<x>> = {1} /\ <<x>>[1] = x
      OBVIOUS
    <3>. QED  BY <3>1 DEF Range
  <2>4. t # s
    BY <1>1, <2>1, <2>2, <2>3
  <2>5. b \in CallIds(Range(Slots(h)[t])) /\ a \in CallIds(Range(Slots(h)[s]))
    BY <2>1, <2>2, <2>3, <2>4
  <2>. QED  BY <2>2, <2>4, <2>5 DEF Apart
<1>. QED  BY <1>2, <1>3, <1>4 DEF AllAhead

(***************************************************************************)
(* The eight places, the last of them farthest ahead.                      *)
(***************************************************************************)
Unissued == {id \in Id : id[2] > issued[id[1]]}

Places ==
  <<Unissued, IdsIn(wire), IdsIn(Slots(cliPkt)), IdsIn(recvQ), CallIds({rxPkt}),
    IdsIn(sendQ), CallIds({txPkt}), IdsIn(sent)>>

Chained(H, R) == \A i, j \in 1 .. 8 : i < j => AllAhead(H[j], H[i], R)

(* What place j gains when X moves ahead from place k. *)
Gain(k, j, X) == IF j = k + 1 THEN X ELSE {}
Moved(H, G, k, X) == \A j \in 1 .. 8 : G[j] \subseteq H[j] \cup Gain(k, j, X)

(* Some calls move one place ahead, others are lost. *)
LEMMA MoveAhead ==
  ASSUME NEW R, NEW H, NEW G, NEW k \in 1 .. 7, NEW X, Chained(H, R),
         X \subseteq H[k], AllAhead(X, G[k], R),
         Moved(H, G, k, X)
  PROVE  Chained(G, R)
<1>. USE DEF Gain, Moved
<1>. SUFFICES ASSUME NEW i \in 1 .. 8, NEW j \in 1 .. 8, i < j, NEW a \in G[j], NEW b \in G[i]
              PROVE  <<a, b>> \in R
  BY DEF Chained, AllAhead
<1>1. CASE a \in H[j] /\ b \in H[i]
  BY <1>1 DEF Chained, AllAhead
<1>2. CASE a \notin H[j]
  <2>1. j = k + 1 /\ a \in X /\ a \in H[k]
    BY <1>2
  <2>2. CASE i = k
    BY <2>1, <2>2 DEF AllAhead
  <2>3. CASE i # k
    <3>1. i < k /\ b \in H[i]
      BY <2>1, <2>3
    <3>. QED  BY <2>1, <3>1 DEF Chained, AllAhead
  <2>. QED  BY <2>2, <2>3
<1>3. CASE b \notin H[i]
  <2>1. i = k + 1 /\ b \in H[k] /\ a \in H[j] /\ k < j
    BY <1>3
  <2>. QED  BY <2>1 DEF Chained, AllAhead
<1>. QED  BY <1>1, <1>2, <1>3

LEMMA StayBehind ==
  ASSUME NEW R, NEW H, NEW G, Chained(H, R), Moved(H, G, 0, {}) PROVE Chained(G, R)
BY DEF Chained, AllAhead, Moved, Gain

(* A step, place by place. *)
LEMMA PlaceByPlace ==
  ASSUME NEW k, NEW X,
         Unissued' \subseteq Unissued \cup Gain(k, 1, X),
         IdsIn(wire') \subseteq IdsIn(wire) \cup Gain(k, 2, X),
         IdsIn(Slots(cliPkt')) \subseteq IdsIn(Slots(cliPkt)) \cup Gain(k, 3, X),
         IdsIn(recvQ') \subseteq IdsIn(recvQ) \cup Gain(k, 4, X),
         CallIds({rxPkt'}) \subseteq CallIds({rxPkt}) \cup Gain(k, 5, X),
         IdsIn(sendQ') \subseteq IdsIn(sendQ) \cup Gain(k, 6, X),
         CallIds({txPkt'}) \subseteq CallIds({txPkt}) \cup Gain(k, 7, X),
         IdsIn(sent') \subseteq IdsIn(sent) \cup Gain(k, 8, X)
  PROVE  Moved(Places, Places', k, X)
<1>1. /\ Places[1] = Unissued /\ Places[2] = IdsIn(wire) /\ Places[3] = IdsIn(Slots(cliPkt))
      /\ Places[4] = IdsIn(recvQ) /\ Places[5] = CallIds({rxPkt}) /\ Places[6] = IdsIn(sendQ)
      /\ Places[7] = CallIds({txPkt}) /\ Places[8] = IdsIn(sent)
  BY DEF Places
<1>2. /\ Places'[1] = Unissued' /\ Places'[2] = IdsIn(wire')
      /\ Places'[3] = IdsIn(Slots(cliPkt')) /\ Places'[4] = IdsIn(recvQ')
      /\ Places'[5] = CallIds({rxPkt'}) /\ Places'[6] = IdsIn(sendQ')
      /\ Places'[7] = CallIds({txPkt'}) /\ Places'[8] = IdsIn(sent')
  BY DEF Places
<1>. SUFFICES ASSUME NEW j \in 1 .. 8 PROVE Places'[j] \subseteq Places[j] \cup Gain(k, j, X)
  BY DEF Moved
<1>3. CASE j = 1
  BY <1>1, <1>2, <1>3
<1>4. CASE j = 2
  BY <1>1, <1>2, <1>4
<1>5. CASE j = 3
  BY <1>1, <1>2, <1>5
<1>6. CASE j = 4
  BY <1>1, <1>2, <1>6
<1>7. CASE j = 5
  BY <1>1, <1>2, <1>7
<1>8. CASE j = 6
  BY <1>1, <1>2, <1>8
<1>9. CASE j = 7
  BY <1>1, <1>2, <1>9
<1>10. CASE j = 8
  BY <1>1, <1>2, <1>10
<1>. QED  BY <1>3, <1>4, <1>5, <1>6, <1>7, <1>8, <1>9, <1>10

(* What the places hold, and that each may be ahead of the one before. *)
LEMMA NeighboursAhead ==
  ASSUME NEW R, Chained(Places, R)
  PROVE  /\ AllAhead(IdsIn(wire), Unissued, R)
         /\ AllAhead(IdsIn(Slots(cliPkt)), IdsIn(wire), R)
         /\ AllAhead(IdsIn(recvQ), IdsIn(Slots(cliPkt)), R)
         /\ AllAhead(CallIds({rxPkt}), IdsIn(recvQ), R)
         /\ AllAhead(IdsIn(sendQ), CallIds({rxPkt}), R)
         /\ AllAhead(CallIds({txPkt}), IdsIn(sendQ), R)
         /\ AllAhead(IdsIn(sent), CallIds({txPkt}), R)
<1>1. \A i \in 1 .. 7 : AllAhead(Places[i + 1], Places[i], R)
  BY DEF Chained
<1>2. /\ AllAhead(Places[2], Places[1], R) /\ AllAhead(Places[3], Places[2], R)
      /\ AllAhead(Places[4], Places[3], R) /\ AllAhead(Places[5], Places[4], R)
      /\ AllAhead(Places[6], Places[5], R) /\ AllAhead(Places[7], Places[6], R)
      /\ AllAhead(Places[8], Places[7], R)
  BY <1>1
<1>. QED  BY <1>2 DEF Places

Ordered(R) ==
  Each(wire, R) /\ Each(recvQ, R) /\ Each(sendQ, R) /\ Each(sent, R) /\ Chained(Places, R)

AllApart(R) ==
  /\ Apart(wire, R) /\ Apart(Slots(cliPkt), R) /\ Apart(recvQ, R) /\ Apart(sendQ, R)
  /\ Apart(sent, R)

(* A later call of a client may not be ahead of an earlier one, nothing else is
   asked; or R is symmetric and asks that calls differ. *)
ByNumber(R) == \A a, b \in Id : (a[1] = b[1] => a[2] < b[2]) => <<a, b>> \in R
Symmetric(R) == \A a, b : <<a, b>> \in R => <<b, a>> \in R

LEMMA AheadBothWays ==
  ASSUME NEW R, Symmetric(R), NEW A, NEW B, AllAhead(A, B, R) PROVE AllAhead(B, A, R)
BY DEF Symmetric, AllAhead

LEMMA PacketsTyped ==
  ASSUME TypeInv
  PROVE  /\ wire \in [Sockets -> Seq(Packet)] /\ sent \in [Sockets -> Seq(Packet)]
         /\ recvQ \in Seq(Seq(Packet)) /\ sendQ \in Seq(Seq(Packet))
         /\ cliPkt \in [Sockets -> AnyPacket] /\ rxPkt \in AnyPacket /\ txPkt \in AnyPacket
         /\ issued \in [Sockets -> 0 .. MaxRequests] /\ NoPacket \in AnyPacket
         /\ Packet \subseteq AnyPacket /\ CallIds({NoPacket}) = {}
<1>1. CallIds({NoPacket}) = {}
  BY CallIdsProperties DEF NoPacket, Call
<1>. QED  BY <1>1 DEF TypeInv, NetTypeOK, RegistryTypeOK, ClientInv, ClientTypeOK, RxInv, RxTypeOK,
             TxInv, TxTypeOK, AnyPacket

(* Nothing that holds a packet changes. *)
LEMMA OrderKept ==
  ASSUME NEW R, Ordered(R), UNCHANGED <<wire, issued, sent, cliPkt, recvQ, sendQ, rxPkt, txPkt>>
  PROVE  Ordered(R)' /\ (AllApart(R) => AllApart(R)')
BY DEF Ordered, AllApart, Places, Unissued

(* A call is issued: its number is the next of its client. *)
LEMMA OrderClientSend ==
  ASSUME NEW R, ByNumber(R), TypeInv, Ordered(R), AllApart(R),
         NEW s \in Sockets, NEW kind \in Kinds[s], ClientSend(s, kind)
  PROVE  Ordered(R)' /\ (Symmetric(R) => AllApart(R)')
<1>. DEFINE n == issued[s] + 1
            pkt == [kind |-> kind, id |-> <<s, n>>, out |-> {}]
            X == {<<s, n>>}
<1>1. /\ wire \in [Sockets -> Seq(Packet)] /\ issued \in [Sockets -> 0 .. MaxRequests]
      /\ MaxRequests \in Nat
  BY PacketsTyped, CommAssumption
<1>2. /\ n \in 1 .. MaxRequests /\ issued' = [issued EXCEPT ![s] = n]
      /\ wire' = [wire EXCEPT ![s] = Append(wire[s], pkt)]
      /\ UNCHANGED <<sent, cliPkt, recvQ, sendQ, rxPkt, txPkt>>
  BY <1>1 DEF ClientSend, registry, cli, rx, tx
<1>3. kind \in {"req", "unknown"}
  BY CommAssumption
<1>4. pkt \in AnyPacket /\ CallIds({pkt}) = X
  <2>1. <<s, n>> \in Id
    BY <1>2 DEF Id
  <2>2. pkt \in Packet
    BY <1>3, <2>1 DEF Packet
  <2>3. Call(pkt) /\ pkt.id = <<s, n>>
    BY <1>3 DEF Call
  <2>. HIDE DEF pkt
  <2>4. CallIds({pkt}) = {pkt.id}
    BY <2>3, CallIdsProperties
  <2>. QED  BY <2>2, <2>3, <2>4 DEF AnyPacket
<1>5. X \subseteq Unissued /\ Unissued' \subseteq Unissued /\ AllAhead(X, Unissued', R)
  <2>1. <<s, n>> \in Id
    BY <1>2 DEF Id
  <2>2. <<s, n>> \in Unissued
    BY <1>1, <1>2, <2>1 DEF Unissued
  <2>3. ASSUME NEW id \in Unissued' PROVE id \in Unissued /\ <<<<s, n>>, id>> \in R
    <3>1. id \in Id /\ id[1] \in Sockets /\ id[2] \in Nat /\ id[2] > issued'[id[1]]
      BY <1>1 DEF Unissued, Id
    <3>2. issued'[id[1]] = (IF id[1] = s THEN n ELSE issued[id[1]])
      BY <1>1, <1>2, <3>1
    <3>3. id[2] > issued[id[1]] /\ (id[1] = s => n < id[2])
      <4>1. issued[id[1]] \in Nat /\ n = issued[s] + 1
        BY <1>1, <3>1
      <4>. QED  BY <1>2, <3>1, <3>2, <4>1
    <3>. QED  BY <2>1, <3>1, <3>3 DEF Unissued, ByNumber
  <2>. QED  BY <2>2, <2>3 DEF AllAhead
<1>. HIDE DEF pkt, X
<1>6. AllAhead(IdsIn(wire), X, R)
  BY <1>5, NeighboursAhead DEF Ordered, AllAhead
<1>7. Except(wire, wire', s) /\ wire'[s] = Append(wire[s], pkt)
  BY <1>1, <1>2 DEF Except
<1>8. /\ Each(wire', R) /\ IdsIn(wire') \subseteq IdsIn(wire) \cup X
      /\ Apart(wire, R) /\ AllAhead(X, IdsIn(wire), R) => Apart(wire', R)
  BY <1>4, <1>6, <1>7, PushToFamily DEF Ordered
<1>9. Moved(Places, Places', 1, X)
  <2>1. Gain(1, 2, X) = X
    BY DEF Gain
  <2>. QED  BY <1>2, <1>5, <1>8, <2>1, PlaceByPlace
<1>10. Chained(Places', R)
  <2>1. Places[1] = Unissued /\ Places'[1] = Unissued'
    BY DEF Places
  <2>2. X \subseteq Places[1] /\ AllAhead(X, Places'[1], R) /\ Chained(Places, R)
    BY <1>5, <2>1 DEF Ordered
  <2>. QED  BY <1>9, <2>2, MoveAhead
<1>11. Ordered(R)'
  BY <1>2, <1>8, <1>10 DEF Ordered
<1>12. ASSUME Symmetric(R) PROVE AllApart(R)'
  BY <1>2, <1>6, <1>8, <1>12, AheadBothWays DEF AllApart
<1>. QED  BY <1>11, <1>12

(* The thread of a client takes a packet off the wire. *)
LEMMA OrderRecv ==
  ASSUME NEW R, TypeInv, Ordered(R), AllApart(R), NEW s \in Sockets, Recv(s)
  PROVE  Ordered(R)' /\ (Symmetric(R) => AllApart(R)')
<1>. DEFINE x == Head(wire[s])
            X == CallIds({x})
<1>1. /\ wire \in [Sockets -> Seq(Packet)] /\ cliPkt \in [Sockets -> AnyPacket]
      /\ wire[s] # <<>> /\ wire' = [wire EXCEPT ![s] = Tail(wire[s])]
      /\ cliPkt' = [cliPkt EXCEPT ![s] = x]
      /\ UNCHANGED <<issued, sent, recvQ, sendQ, rxPkt, txPkt>>
  BY PacketsTyped DEF Recv, registry, rx, tx
<1>2. Except(wire, wire', s) /\ wire'[s] = Tail(wire[s])
  BY <1>1 DEF Except
<1>3. /\ Each(wire', R) /\ IdsIn(wire') \subseteq IdsIn(wire) /\ Apart(wire', R)
      /\ x \in AnyPacket /\ X \subseteq IdsIn(wire) /\ AllAhead(X, IdsIn(wire'), R)
  <2>1. Each(wire, R) /\ Apart(wire, R)
    BY DEF Ordered, AllApart
  <2>2. wire[s] # <<>>
    BY <1>1
  <2>. QED  BY <1>2, <2>1, <2>2, PopFromFamily
<1>. HIDE DEF x, X
<1>4. AllAhead(IdsIn(Slots(cliPkt)), X, R)
  BY <1>3, NeighboursAhead DEF Ordered, AllAhead
<1>5. /\ IdsIn(Slots(cliPkt')) \subseteq IdsIn(Slots(cliPkt)) \cup X
      /\ AllAhead(X, IdsIn(Slots(cliPkt)), R) => Apart(Slots(cliPkt'), R)
  BY <1>1, <1>3, <1>4, FillSlot DEF X, AllApart
<1>6. Moved(Places, Places', 2, X)
  <2>1. Gain(2, 3, X) = X /\ Unissued' = Unissued
    BY <1>1 DEF Gain, Unissued
  <2>. QED  BY <1>1, <1>3, <1>5, <2>1, PlaceByPlace
<1>7. Chained(Places', R)
  <2>1. Places[2] = IdsIn(wire) /\ Places'[2] = IdsIn(wire')
    BY DEF Places
  <2>2. X \subseteq Places[2] /\ AllAhead(X, Places'[2], R) /\ Chained(Places, R)
    BY <1>3, <2>1 DEF Ordered
  <2>. QED  BY <1>6, <2>2, MoveAhead
<1>8. Ordered(R)'
  BY <1>1, <1>3, <1>7 DEF Ordered
<1>9. ASSUME Symmetric(R) PROVE AllApart(R)'
  BY <1>1, <1>3, <1>4, <1>5, <1>9, AheadBothWays DEF AllApart
<1>. QED  BY <1>8, <1>9

(* It drops the packet it holds ... *)
LEMMA OrderDropped ==
  ASSUME NEW R, TypeInv, Ordered(R), AllApart(R), NEW s \in Sockets,
         cliPkt' = [cliPkt EXCEPT ![s] = NoPacket],
         UNCHANGED <<wire, issued, sent, recvQ, sendQ, rxPkt, txPkt>>
  PROVE  Ordered(R)' /\ AllApart(R)'
<1>1. cliPkt \in [Sockets -> AnyPacket]
  BY PacketsTyped
<1>2. IdsIn(Slots(cliPkt')) \subseteq IdsIn(Slots(cliPkt)) /\ Apart(Slots(cliPkt'), R)
  BY <1>1, EmptySlot DEF AllApart
<1>3. Moved(Places, Places', 0, {})
  <2>1. Unissued' = Unissued
    BY DEF Unissued
  <2>. QED  BY <1>2, <2>1, PlaceByPlace
<1>4. Chained(Places', R)
  BY <1>3, StayBehind DEF Ordered
<1>. QED  BY <1>2, <1>4 DEF Ordered, AllApart

(* ... or pushes it into a receive queue, at whatever index it has found. *)
LEMMA OrderPushRecv ==
  ASSUME NEW R, TypeInv, Ordered(R), AllApart(R), NEW s \in Sockets,
         NEW i \in 1 .. Len(recvQ),
         recvQ' = [recvQ EXCEPT ![i] = PushDropOldest(@, cliPkt[s], MAX_PACKETDATA_NUM)],
         cliPkt' = [cliPkt EXCEPT ![s] = NoPacket],
         UNCHANGED <<wire, issued, sent, sendQ, rxPkt, txPkt>>
  PROVE  Ordered(R)' /\ (Symmetric(R) => AllApart(R)')
<1>. DEFINE x == cliPkt[s]
            X == CallIds({x})
<1>1. cliPkt \in [Sockets -> AnyPacket] /\ x \in AnyPacket /\ recvQ \in Seq(Seq(Packet))
  BY PacketsTyped
<1>2. /\ IdsIn(Slots(cliPkt')) \subseteq IdsIn(Slots(cliPkt)) /\ Apart(Slots(cliPkt'), R)
      /\ X \subseteq IdsIn(Slots(cliPkt)) /\ AllAhead(X, IdsIn(Slots(cliPkt')), R)
  BY <1>1, EmptySlot DEF AllApart
<1>3. AllAhead(IdsIn(recvQ), X, R)
  BY <1>2, NeighboursAhead DEF Ordered, AllAhead
<1>4. Except(recvQ, recvQ', i) /\ recvQ'[i] = PushDropOldest(recvQ[i], x, MAX_PACKETDATA_NUM)
  <2>1. DOMAIN recvQ = 1 .. Len(recvQ)
    BY <1>1, LenProperties
  <2>. QED  BY <2>1 DEF Except
<1>5. /\ Each(recvQ', R) /\ IdsIn(recvQ') \subseteq IdsIn(recvQ) \cup X
      /\ AllAhead(X, IdsIn(recvQ), R) => Apart(recvQ', R)
  <2>1. Each(recvQ, R) /\ Apart(recvQ, R)
    BY DEF Ordered, AllApart
  <2>2. x \in AnyPacket
    BY <1>1
  <2>3. ASSUME NEW f, NEW g, NEW y \in AnyPacket, Except(f, g, i), Each(f, R), Apart(f, R),
               g[i] = PushDropOldest(f[i], y, MAX_PACKETDATA_NUM),
               AllAhead(IdsIn(f), CallIds({y}), R)
        PROVE  /\ Each(g, R) /\ IdsIn(g) \subseteq IdsIn(f) \cup CallIds({y})
               /\ AllAhead(CallIds({y}), IdsIn(f), R) => Apart(g, R)
    BY <2>3, PushToFamily
  <2>4. CallIds({x}) = X
    OBVIOUS
  <2>. HIDE DEF x, X
  <2>. QED  BY <1>3, <1>4, <2>1, <2>2, <2>3, <2>4
<1>. HIDE DEF x, X
<1>6. Moved(Places, Places', 3, X)
  <2>1. Gain(3, 4, X) = X /\ Unissued' = Unissued
    BY DEF Gain, Unissued
  <2>. QED  BY <1>2, <1>5, <2>1, PlaceByPlace
<1>7. Chained(Places', R)
  <2>1. Places[3] = IdsIn(Slots(cliPkt)) /\ Places'[3] = IdsIn(Slots(cliPkt'))
    BY DEF Places
  <2>2. X \subseteq Places[3] /\ AllAhead(X, Places'[3], R) /\ Chained(Places, R)
    BY <1>2, <2>1 DEF Ordered
  <2>. QED  BY <1>6, <2>2, MoveAhead
<1>8. Ordered(R)'
  BY <1>5, <1>7 DEF Ordered
<1>9. ASSUME Symmetric(R) PROVE AllApart(R)'
  BY <1>2, <1>3, <1>5, <1>9, AheadBothWays DEF AllApart
<1>. QED  BY <1>8, <1>9

(* The vectors of queues: other queues, none of them with more in it. *)
LEMMA OrderFewer ==
  ASSUME NEW R, TypeInv, Ordered(R), AllApart(R), Each(recvQ', R), Each(sendQ', R),
         IdsIn(recvQ') \subseteq IdsIn(recvQ), IdsIn(sendQ') \subseteq IdsIn(sendQ),
         Apart(recvQ', R), Apart(sendQ', R),
         CallIds({rxPkt'}) \subseteq CallIds({rxPkt}),
         CallIds({txPkt'}) \subseteq CallIds({txPkt}),
         UNCHANGED <<wire, issued, sent, cliPkt>>
  PROVE  Ordered(R)' /\ AllApart(R)'
<1>1. Moved(Places, Places', 0, {})
  <2>1. Unissued' = Unissued
    BY DEF Unissued
  <2>. QED  BY <2>1, PlaceByPlace
<1>2. Chained(Places', R)
  BY <1>1, StayBehind DEF Ordered
<1>. QED  BY <1>2 DEF Ordered, AllApart

LEMMA OrderProcessClient ==
  ASSUME NEW R, TypeInv, Ordered(R), AllApart(R), NEW s \in Sockets, ProcessClient(s)
  PROVE  Ordered(R)' /\ (Symmetric(R) => AllApart(R)')
<1>. DEFINE held == <<wire, issued, sent, cliPkt, recvQ, sendQ, rxPkt, txPkt>>
<1>. RegistryTypeOK /\ ClientInv
  BY DEF TypeInv
<1>0. /\ recvQ \in Seq(Seq(Packet)) /\ sendQ \in Seq(Seq(Packet)) /\ Len(recvQ) \in Nat
      /\ Len(sendQ) \in Nat /\ cliIdx[s] \in Nat
      /\ cliPc[s] \in {"push", "delRecvQ", "delSendQ"} => cliIdx[s] >= 1
  BY LenProperties DEF RegistryTypeOK, ClientInv, ClientTypeOK
<1>1. CASE Recv(s)
  BY <1>1, OrderRecv
<1>2. CASE PushRecvFind(s)
  <2>1. UNCHANGED <<wire, issued, sent, recvQ, sendQ, rxPkt, txPkt>>
    BY <1>2 DEF PushRecvFind, net, registry, rx, tx
  <2>2. UNCHANGED cliPkt \/ cliPkt' = [cliPkt EXCEPT ![s] = NoPacket]
    BY <1>2 DEF PushRecvFind, BackToRecv
  <2>. QED  BY <2>1, <2>2, OrderKept, OrderDropped
<1>3. CASE PushPacketDataRecv(s)
  <2>1. UNCHANGED <<wire, issued, sent, sendQ, rxPkt, txPkt>>
    BY <1>3 DEF PushPacketDataRecv, net, rx, tx
  <2>2. CASE UNCHANGED <<recvQ, cliPkt>>
    BY <2>1, <2>2, OrderKept
  <2>3. CASE ~UNCHANGED <<recvQ, cliPkt>>
    <3>1. /\ ~(cliIdx[s] > Len(recvQ)) /\ cliPc[s] = "push"
          /\ recvQ' = [recvQ EXCEPT ![cliIdx[s]] =
                          PushDropOldest(@, cliPkt[s], MAX_PACKETDATA_NUM)]
          /\ cliPkt' = [cliPkt EXCEPT ![s] = NoPacket]
      BY <1>3, <2>3 DEF PushPacketDataRecv, BackToRecv, cli
    <3>2. cliIdx[s] \in 1 .. Len(recvQ)
      <4>. DEFINE i == cliIdx[s]
                  n == Len(recvQ)
      <4>1. i \in Nat /\ n \in Nat /\ i >= 1 /\ ~(i > n)
        BY <1>0, <3>1
      <4>. HIDE DEF i, n
      <4>2. i \in 1 .. n
        BY <4>1
      <4>. QED  BY <4>2 DEF i, n
    <3>. QED  BY <2>1, <3>1, <3>2, OrderPushRecv
  <2>. QED  BY <2>2, <2>3
<1>4. CASE DelRecvQ(s) \/ DelSendQ(s)
  <2>1. UNCHANGED <<wire, issued, sent, cliPkt, rxPkt, txPkt>>
    BY <1>4 DEF DelRecvQ, DelSendQ, GotoCli, cli, net, rx, tx
  <2>2. cliIdx[s] \in Nat /\ cliIdx[s] >= 1
    BY <1>0, <1>4 DEF DelRecvQ, DelSendQ
  <2>3. recvQ' = recvQ \/ \E i \in 1 .. Len(recvQ) : recvQ' = RemoveAt(recvQ, i)
    <3>. DEFINE n == Len(recvQ)
    <3>1. recvQ' = recvQ \/ (~(cliIdx[s] > n) /\ recvQ' = RemoveAt(recvQ, cliIdx[s]))
      BY <1>4 DEF DelRecvQ, DelSendQ
    <3>2. n \in Nat
      BY <1>0
    <3>. HIDE DEF n
    <3>3. recvQ' = recvQ \/ (cliIdx[s] \in 1 .. n /\ recvQ' = RemoveAt(recvQ, cliIdx[s]))
      BY <2>2, <3>1, <3>2
    <3>. QED  BY <3>3 DEF n
  <2>4. sendQ' = sendQ \/ \E i \in 1 .. Len(sendQ) : sendQ' = RemoveAt(sendQ, i)
    <3>. DEFINE n == Len(sendQ)
    <3>1. sendQ' = sendQ \/ (~(cliIdx[s] > n) /\ sendQ' = RemoveAt(sendQ, cliIdx[s]))
      BY <1>4 DEF DelRecvQ, DelSendQ
    <3>2. n \in Nat
      BY <1>0
    <3>. HIDE DEF n
    <3>3. sendQ' = sendQ \/ (cliIdx[s] \in 1 .. n /\ sendQ' = RemoveAt(sendQ, cliIdx[s]))
      BY <2>2, <3>1, <3>2
    <3>. QED  BY <3>3 DEF n
  <2>5. Each(recvQ, R) /\ Apart(recvQ, R) /\ Each(sendQ, R) /\ Apart(sendQ, R)
    BY DEF Ordered, AllApart
  <2>6. ASSUME NEW f \in Seq(Seq(Packet)), NEW g, Each(f, R), Apart(f, R),
               g = f \/ \E i \in 1 .. Len(f) : g = RemoveAt(f, i)
        PROVE  Each(g, R) /\ IdsIn(g) \subseteq IdsIn(f) /\ Apart(g, R)
    <3>1. CASE g = f
      BY <2>6, <3>1
    <3>2. CASE g # f
      <4>1. PICK i \in 1 .. Len(f) : g = RemoveAt(f, i)
        BY <2>6, <3>2
      <4>. QED  BY <2>6, <4>1, EraseFromFamily
    <3>. QED  BY <3>1, <3>2
  <2>7. Each(recvQ', R) /\ IdsIn(recvQ') \subseteq IdsIn(recvQ) /\ Apart(recvQ', R)
    <3>1. recvQ \in Seq(Seq(Packet))
      BY <1>0
    <3>. QED  BY <2>3, <2>5, <2>6, <3>1
  <2>8. Each(sendQ', R) /\ IdsIn(sendQ') \subseteq IdsIn(sendQ) /\ Apart(sendQ', R)
    <3>1. sendQ \in Seq(Seq(Packet))
      BY <1>0
    <3>. QED  BY <2>4, <2>5, <2>6, <3>1
  <2>. QED  BY <2>1, <2>7, <2>8, OrderFewer
<1>5. CASE Disconnect(s) \/ DelFind(s) \/ DelSocket(s) \/ DelLockRecv(s) \/ DelLockSend(s) \/ CloseSocket(s)
  <2>1. UNCHANGED held
    BY <1>5 DEF Disconnect, DelFind, DelSocket, DelLockRecv, DelLockSend, CloseSocket, GotoCli, EraseLockSend,
       cli, net, registry, rx, tx
  <2>. QED  BY <2>1, OrderKept
<1>. QED  BY <1>1, <1>2, <1>3, <1>4, <1>5 DEF ProcessClient

(* The accept thread adds queues that are empty, and a question.           *)
LEMMA OrderAcceptThread ==
  ASSUME NEW R, TypeInv, Ordered(R), AllApart(R), AcceptThread
  PROVE  Ordered(R)' /\ AllApart(R)'
<1>. RegistryTypeOK
  BY DEF TypeInv
<1>0. /\ recvQ \in Seq(Seq(Packet)) /\ sendQ \in Seq(Seq(Packet))
      /\ Each(recvQ, R) /\ Apart(recvQ, R) /\ Each(sendQ, R) /\ Apart(sendQ, R)
  BY DEF Ordered, AllApart, RegistryTypeOK
<1>1. CASE AddPushRecvQ
  <2>1. UNCHANGED <<wire, issued, sent, cliPkt, rxPkt, txPkt, sendQ>>
        /\ recvQ' = Append(recvQ, <<>>)
    BY <1>1 DEF AddPushRecvQ, net, cli, rx, tx
  <2>2. Each(recvQ', R) /\ IdsIn(recvQ') \subseteq IdsIn(recvQ) /\ Apart(recvQ', R)
    BY <1>0, <2>1, AddToFamily
  <2>. QED  BY <1>0, <2>1, <2>2, OrderFewer
<1>2. CASE AddPushSendQ
  <2>1. UNCHANGED <<wire, issued, sent, cliPkt, rxPkt, txPkt, recvQ>>
        /\ sendQ' = Append(sendQ, <<>>)
    BY <1>2 DEF AddPushSendQ, net, cli, rx, tx
  <2>2. Each(sendQ', R) /\ IdsIn(sendQ') \subseteq IdsIn(sendQ) /\ Apart(sendQ', R)
    BY <1>0, <2>1, AddToFamily
  <2>. QED  BY <1>0, <2>1, <2>2, OrderFewer
<1>3. CASE AddAskFunList
  <2>1. UNCHANGED <<wire, issued, sent, cliPkt, rxPkt, txPkt, recvQ>>
    BY <1>3 DEF AddAskFunList, net, cli, rx, tx, registry
  <2>2. CASE UNCHANGED sendQ
    BY <2>1, <2>2, OrderKept
  <2>3. CASE ~UNCHANGED sendQ
    <3>. DEFINE last == remote[Len(remote)].sock
                i == FindIndexByPortName(last)
                x == AskPacket(last)
    <3>1. /\ remote # <<>> /\ ~(i > Len(sendQ)) /\ i # 0
          /\ sendQ' = [sendQ EXCEPT ![i] = PushDropOldest(@, x, MAX_PACKETDATA_NUM)]
      BY <1>3, <2>3 DEF AddAskFunList, registry
    <3>2. last \in Sockets /\ i \in Nat /\ Len(sendQ) \in Nat
      BY <1>0, <3>1, LastIsSocket, FindIndexType, LenProperties
    <3>3. x \in AnyPacket /\ ~Call(x)
      <4>1. <<last, 0>> \in Id
        BY <3>2, CommAssumption DEF Id
      <4>. QED  BY <4>1 DEF AskPacket, Packet, AnyPacket, Call
    <3>. HIDE DEF i, x
    <3>4. i \in 1 .. Len(sendQ)
      BY <3>1, <3>2
    <3>5. /\ Except(sendQ, sendQ', i)
          /\ sendQ'[i] = PushDropOldest(sendQ[i], x, MAX_PACKETDATA_NUM)
      <4>1. DOMAIN sendQ = 1 .. Len(sendQ)
        BY <1>0, LenProperties
      <4>. QED  BY <3>1, <3>4, <4>1 DEF Except
    <3>6. Each(sendQ', R) /\ IdsIn(sendQ') \subseteq IdsIn(sendQ) /\ Apart(sendQ', R)
      BY <1>0, <3>3, <3>5, PushNoCall
    <3>. QED  BY <1>0, <2>1, <3>6, OrderFewer
  <2>. QED  BY <2>2, <2>3
<1>4. CASE AddPushSocket \/ AddPushLockRecv \/ AddPushLockSend \/ AddEndWait \/ StartProcessClient
  <2>1. UNCHANGED <<wire, issued, sent, cliPkt, recvQ, sendQ, rxPkt, txPkt>>
    BY <1>4 DEF AddPushSocket, AddPushLockRecv, AddPushLockSend, AddEndWait, StartProcessClient,
       GotoCli, net, registry, cli, rx, tx
  <2>. QED  BY <2>1, OrderKept
<1>. QED  BY <1>1, <1>2, <1>3, <1>4 DEF AcceptThread

(* ParamThreadRecvProc takes a request from a receive queue and makes its reply of it. *)
LEMMA OrderRxPop ==
  ASSUME NEW R, TypeInv, Ordered(R), AllApart(R), NEW i \in 1 .. Len(recvQ), recvQ[i] # <<>>,
         recvQ' = PopFirst(recvQ, i),
         CallIds({rxPkt'}) \subseteq CallIds({rxPkt}) \cup CallIds({Head(recvQ[i])}),
         UNCHANGED <<wire, issued, sent, cliPkt, sendQ, txPkt>>
  PROVE  Ordered(R)' /\ AllApart(R)'
<1>. DEFINE x == Head(recvQ[i])
            X == CallIds({x})
<1>1. Each(recvQ, R) /\ Apart(recvQ, R) /\ recvQ \in Seq(Seq(Packet))
  BY PacketsTyped DEF Ordered, AllApart
<1>2. Except(recvQ, recvQ', i) /\ recvQ'[i] = Tail(recvQ[i])
  <2>1. DOMAIN recvQ = 1 .. Len(recvQ)
    BY <1>1, LenProperties
  <2>. QED  BY <2>1 DEF Except, PopFirst
<1>3. /\ Each(recvQ', R) /\ IdsIn(recvQ') \subseteq IdsIn(recvQ) /\ Apart(recvQ', R)
      /\ X \subseteq IdsIn(recvQ) /\ AllAhead(X, IdsIn(recvQ'), R)
  BY <1>1, <1>2, PopFromFamily
<1>. HIDE DEF x, X
<1>4. CallIds({rxPkt'}) \subseteq CallIds({rxPkt}) \cup X
  BY DEF x, X
<1>5. Moved(Places, Places', 4, X)
  <2>1. Gain(4, 5, X) = X /\ Unissued' = Unissued
    BY DEF Gain, Unissued
  <2>. QED  BY <1>3, <1>4, <2>1, PlaceByPlace
<1>6. Chained(Places', R)
  <2>1. Places[4] = IdsIn(recvQ) /\ Places'[4] = IdsIn(recvQ')
    BY DEF Places
  <2>2. X \subseteq Places[4] /\ AllAhead(X, Places'[4], R) /\ Chained(Places, R)
    BY <1>3, <2>1 DEF Ordered
  <2>. QED  BY <1>5, <2>2, MoveAhead
<1>7. Ordered(R)'
  BY <1>3, <1>6 DEF Ordered
<1>8. AllApart(R)'
  BY <1>3 DEF AllApart
<1>. QED  BY <1>7, <1>8

(* It pushes the reply into a send queue. *)
LEMMA OrderRxPush ==
  ASSUME NEW R, TypeInv, Ordered(R), AllApart(R), NEW i \in 1 .. Len(sendQ),
         sendQ' = [sendQ EXCEPT ![i] = PushDropOldest(@, rxPkt, MAX_PACKETDATA_NUM)],
         rxPkt' = NoPacket, UNCHANGED <<wire, issued, sent, cliPkt, recvQ, txPkt>>
  PROVE  Ordered(R)' /\ (Symmetric(R) => AllApart(R)')
<1>. DEFINE X == CallIds({rxPkt})
<1>1. Each(sendQ, R) /\ Apart(sendQ, R) /\ sendQ \in Seq(Seq(Packet)) /\ rxPkt \in AnyPacket
  BY PacketsTyped DEF Ordered, AllApart
<1>2. Except(sendQ, sendQ', i) /\ sendQ'[i] = PushDropOldest(sendQ[i], rxPkt, MAX_PACKETDATA_NUM)
  <2>1. DOMAIN sendQ = 1 .. Len(sendQ)
    BY <1>1, LenProperties
  <2>. QED  BY <2>1 DEF Except
<1>3. AllAhead(IdsIn(sendQ), X, R)
  BY NeighboursAhead DEF Ordered
<1>4. /\ Each(sendQ', R) /\ IdsIn(sendQ') \subseteq IdsIn(sendQ) \cup X
      /\ AllAhead(X, IdsIn(sendQ), R) => Apart(sendQ', R)
  <2>1. ASSUME NEW f, NEW g, NEW y \in AnyPacket, Except(f, g, i), Each(f, R), Apart(f, R),
               g[i] = PushDropOldest(f[i], y, MAX_PACKETDATA_NUM),
               AllAhead(IdsIn(f), CallIds({y}), R)
        PROVE  /\ Each(g, R) /\ IdsIn(g) \subseteq IdsIn(f) \cup CallIds({y})
               /\ AllAhead(CallIds({y}), IdsIn(f), R) => Apart(g, R)
    BY <2>1, PushToFamily
  <2>. QED  BY <1>1, <1>2, <1>3, <2>1
<1>5. CallIds({rxPkt'}) = {}
  BY PacketsTyped
<1>6. Moved(Places, Places', 5, X)
  <2>1. Gain(5, 6, X) = X /\ Unissued' = Unissued
    BY DEF Gain, Unissued
  <2>. QED  BY <1>4, <1>5, <2>1, PlaceByPlace
<1>7. Chained(Places', R)
  <2>1. Places[5] = X /\ Places'[5] = CallIds({rxPkt'})
    BY DEF Places
  <2>2. X \subseteq Places[5] /\ AllAhead(X, Places'[5], R) /\ Chained(Places, R)
    BY <1>5, <2>1 DEF AllAhead, Ordered
  <2>. HIDE DEF X
  <2>. QED  BY <1>6, <2>2, MoveAhead
<1>8. Ordered(R)'
  BY <1>4, <1>7 DEF Ordered
<1>9. ASSUME Symmetric(R) PROVE AllApart(R)'
  BY <1>3, <1>4, <1>9, AheadBothWays DEF AllApart
<1>. QED  BY <1>8, <1>9

LEMMA OrderParamThreadRecvProc ==
  ASSUME NEW R, TypeInv, Ordered(R), AllApart(R), ParamThreadRecvProc
  PROVE  Ordered(R)' /\ (Symmetric(R) => AllApart(R)')
<1>. RegistryTypeOK /\ RxInv
  BY DEF TypeInv
<1>0. /\ recvQ \in Seq(Seq(Packet)) /\ sendQ \in Seq(Seq(Packet)) /\ Len(recvQ) \in Nat
      /\ Len(sendQ) \in Nat /\ rxIdx \in Nat
      /\ rxPc \in {"pop", "replyPush"} => rxIdx >= 1
      /\ CallIds({NoPacket}) = {}
  BY PacketsTyped, LenProperties DEF RegistryTypeOK, RxInv, RxTypeOK
<1>00. ASSUME UNCHANGED <<wire, issued, sent, cliPkt, recvQ, sendQ, txPkt>>,
              UNCHANGED rxPkt \/ rxPkt' = NoPacket
       PROVE  Ordered(R)' /\ AllApart(R)'
  <2>1. CallIds({rxPkt'}) \subseteq CallIds({rxPkt})
    BY <1>0, <1>00
  <2>2. Each(recvQ, R) /\ Apart(recvQ, R) /\ Each(sendQ, R) /\ Apart(sendQ, R)
    BY DEF Ordered, AllApart
  <2>. QED  BY <1>00, <2>1, <2>2, OrderFewer
<1>1. CASE RxPick \/ RxFind \/ RxReplyFind \/ RxUpdataRemoteFuncList
  <2>1. UNCHANGED <<wire, issued, sent, cliPkt, recvQ, sendQ, txPkt>>
    BY <1>1 DEF RxPick, RxFind, RxReplyFind, RxUpdataRemoteFuncList, net, registry, cli, tx
  <2>2. UNCHANGED rxPkt \/ rxPkt' = NoPacket
    BY <1>1 DEF RxPick, RxFind, RxReplyFind, RxUpdataRemoteFuncList, RxFindThen, RxNext
  <2>. QED  BY <1>00, <2>1, <2>2
<1>2. CASE RxPop
  <2>1. UNCHANGED <<wire, issued, sent, cliPkt, sendQ, txPkt>> /\ rxPc = "pop"
    BY <1>2 DEF RxPop, net, cli, tx
  <2>2. CASE UNCHANGED <<recvQ, rx>>
    BY <1>00, <2>1, <2>2 DEF rx
  <2>3. CASE RxNext /\ UNCHANGED recvQ
    BY <1>00, <2>1, <2>3 DEF RxNext
  <2>4. CASE /\ ~(rxIdx > Len(recvQ)) /\ recvQ[rxIdx] # <<>> /\ recvQ' = PopFirst(recvQ, rxIdx)
             /\ RxHandle(Head(recvQ[rxIdx]))
    <3>1. rxIdx \in 1 .. Len(recvQ)
      <4>. DEFINE n == Len(recvQ)
      <4>1. rxIdx \in Nat /\ n \in Nat /\ rxIdx >= 1 /\ ~(rxIdx > n)
        BY <1>0, <2>1, <2>4
      <4>. HIDE DEF n
      <4>2. rxIdx \in 1 .. n
        BY <4>1
      <4>. QED  BY <4>2 DEF n
    <3>2. CallIds({rxPkt'}) \subseteq CallIds({rxPkt}) \cup CallIds({Head(recvQ[rxIdx])})
      <4>. DEFINE pkt == Head(recvQ[rxIdx])
      <4>1. \/ rxPkt' = rxPkt \/ rxPkt' = NoPacket
            \/ pkt.kind = "req" /\ \E outs : rxPkt' = ReplyPacket(pkt.id, outs)
        BY <2>4 DEF RxHandle, RxNext
      <4>. HIDE DEF pkt
      <4>2. ASSUME pkt.kind = "req", NEW outs, rxPkt' = ReplyPacket(pkt.id, outs)
            PROVE  CallIds({rxPkt'}) \subseteq CallIds({pkt})
        <5>1. CallIds({pkt}) = {pkt.id}
          BY <4>2, CallIdsProperties DEF Call
        <5>2. rxPkt'.id = pkt.id
          BY <4>2 DEF ReplyPacket
        <5>3. CallIds({rxPkt'}) \subseteq {rxPkt'.id}
          BY DEF CallIds
        <5>. QED  BY <5>1, <5>2, <5>3
      <4>3. CallIds({rxPkt'}) \subseteq CallIds({rxPkt}) \cup CallIds({pkt})
        BY <1>0, <4>1, <4>2
      <4>. QED  BY <4>3 DEF pkt
    <3>. QED  BY <2>1, <2>4, <3>1, <3>2, OrderRxPop
  <2>. QED  BY <1>2, <2>2, <2>3, <2>4 DEF RxPop
<1>3. CASE RxPushPacketDataSend
  <2>1. UNCHANGED <<wire, issued, sent, cliPkt, recvQ, txPkt>> /\ rxPc = "replyPush"
    BY <1>3 DEF RxPushPacketDataSend, net, cli, tx
  <2>2. CASE UNCHANGED <<sendQ, rx>>
    BY <1>00, <2>1, <2>2 DEF rx
  <2>3. CASE ~UNCHANGED <<sendQ, rx>>
    <3>1. /\ ~(rxIdx > Len(sendQ)) /\ rxPkt' = NoPacket
          /\ sendQ' = [sendQ EXCEPT ![rxIdx] = PushDropOldest(@, rxPkt, MAX_PACKETDATA_NUM)]
      BY <1>3, <2>3 DEF RxPushPacketDataSend, RxNext
    <3>2. rxIdx \in 1 .. Len(sendQ)
      <4>. DEFINE n == Len(sendQ)
      <4>1. rxIdx \in Nat /\ n \in Nat /\ rxIdx >= 1 /\ ~(rxIdx > n)
        BY <1>0, <2>1, <3>1
      <4>. HIDE DEF n
      <4>2. rxIdx \in 1 .. n
        BY <4>1
      <4>. QED  BY <4>2 DEF n
    <3>. QED  BY <2>1, <3>1, <3>2, OrderRxPush
  <2>. QED  BY <2>2, <2>3
<1>. QED  BY <1>1, <1>2, <1>3 DEF ParamThreadRecvProc

(* ParamThreadSendProc takes a packet from a send queue ... *)
LEMMA OrderTxPop ==
  ASSUME NEW R, TypeInv, Ordered(R), AllApart(R), NEW i \in 1 .. Len(sendQ), sendQ[i] # <<>>,
         sendQ' = PopFirst(sendQ, i), txPkt' = Head(sendQ[i]),
         UNCHANGED <<wire, issued, sent, cliPkt, recvQ, rxPkt>>
  PROVE  Ordered(R)' /\ AllApart(R)'
<1>. DEFINE X == CallIds({Head(sendQ[i])})
<1>1. Each(sendQ, R) /\ Apart(sendQ, R) /\ sendQ \in Seq(Seq(Packet))
  BY PacketsTyped DEF Ordered, AllApart
<1>2. Except(sendQ, sendQ', i) /\ sendQ'[i] = Tail(sendQ[i])
  <2>1. DOMAIN sendQ = 1 .. Len(sendQ)
    BY <1>1, LenProperties
  <2>. QED  BY <2>1 DEF Except, PopFirst
<1>3. /\ Each(sendQ', R) /\ IdsIn(sendQ') \subseteq IdsIn(sendQ) /\ Apart(sendQ', R)
      /\ X \subseteq IdsIn(sendQ) /\ AllAhead(X, IdsIn(sendQ'), R)
  BY <1>1, <1>2, PopFromFamily
<1>4. CallIds({txPkt'}) = X
  OBVIOUS
<1>. HIDE DEF X
<1>5. Moved(Places, Places', 6, X)
  <2>1. Gain(6, 7, X) = X /\ Unissued' = Unissued
    BY DEF Gain, Unissued
  <2>. QED  BY <1>3, <1>4, <2>1, PlaceByPlace
<1>6. Chained(Places', R)
  <2>1. Places[6] = IdsIn(sendQ) /\ Places'[6] = IdsIn(sendQ')
    BY DEF Places
  <2>2. X \subseteq Places[6] /\ AllAhead(X, Places'[6], R) /\ Chained(Places, R)
    BY <1>3, <2>1 DEF Ordered
  <2>. QED  BY <1>5, <2>2, MoveAhead
<1>7. Ordered(R)'
  BY <1>3, <1>6 DEF Ordered
<1>8. AllApart(R)'
  BY <1>3 DEF AllApart
<1>. QED  BY <1>7, <1>8

(* ... and sends it; a client that is asked for its function list puts it on the wire. *)
LEMMA OrderTxSend ==
  ASSUME NEW R, TypeInv, Ordered(R), AllApart(R), NEW s \in Sockets,
         sent' = [sent EXCEPT ![s] = Append(@, txPkt)],
         wire' = wire \/ wire' = [wire EXCEPT ![s] = Append(@, ListPacket(s))],
         txPkt' = NoPacket, UNCHANGED <<issued, cliPkt, recvQ, sendQ, rxPkt>>
  PROVE  Ordered(R)' /\ (Symmetric(R) => AllApart(R)')
<1>. DEFINE X == CallIds({txPkt})
<1>1. /\ Each(sent, R) /\ Apart(sent, R) /\ sent \in [Sockets -> Seq(Packet)]
      /\ Each(wire, R) /\ Apart(wire, R) /\ wire \in [Sockets -> Seq(Packet)]
      /\ txPkt \in AnyPacket
  BY PacketsTyped DEF Ordered, AllApart
<1>2. Except(sent, sent', s) /\ sent'[s] = Append(sent[s], txPkt)
  BY <1>1 DEF Except
<1>3. AllAhead(IdsIn(sent), X, R)
  BY NeighboursAhead DEF Ordered
<1>4. /\ Each(sent', R) /\ IdsIn(sent') \subseteq IdsIn(sent) \cup X
      /\ AllAhead(X, IdsIn(sent), R) => Apart(sent', R)
  <2>1. ASSUME NEW f, NEW g, NEW y \in AnyPacket, Except(f, g, s), Each(f, R), Apart(f, R),
               g[s] = Append(f[s], y), AllAhead(IdsIn(f), CallIds({y}), R)
        PROVE  /\ Each(g, R) /\ IdsIn(g) \subseteq IdsIn(f) \cup CallIds({y})
               /\ AllAhead(CallIds({y}), IdsIn(f), R) => Apart(g, R)
    BY <2>1, PushToFamily
  <2>. QED  BY <1>1, <1>2, <1>3, <2>1
<1>5. Each(wire', R) /\ IdsIn(wire') \subseteq IdsIn(wire) /\ Apart(wire', R)
  <2>1. CASE wire' = wire
    BY <1>1, <2>1
  <2>2. CASE wire' # wire
    <3>. DEFINE x == ListPacket(s)
    <3>1. x \in AnyPacket /\ ~Call(x)
      <4>1. <<s, 0>> \in Id
        BY CommAssumption DEF Id
      <4>. QED  BY <4>1 DEF ListPacket, Packet, AnyPacket, Call
    <3>. HIDE DEF x
    <3>2. Except(wire, wire', s) /\ wire'[s] = Append(wire[s], x)
      BY <1>1, <2>2 DEF Except, x
    <3>. QED  BY <1>1, <3>1, <3>2, PushNoCall
  <2>. QED  BY <2>1, <2>2
<1>6. CallIds({txPkt'}) = {}
  BY PacketsTyped
<1>7. Moved(Places, Places', 7, X)
  <2>1. Gain(7, 8, X) = X /\ Unissued' = Unissued
    BY DEF Gain, Unissued
  <2>. QED  BY <1>4, <1>5, <1>6, <2>1, PlaceByPlace
<1>8. Chained(Places', R)
  <2>1. Places[7] = X /\ Places'[7] = CallIds({txPkt'})
    BY DEF Places
  <2>2. X \subseteq Places[7] /\ AllAhead(X, Places'[7], R) /\ Chained(Places, R)
    BY <1>6, <2>1 DEF AllAhead, Ordered
  <2>. HIDE DEF X
  <2>. QED  BY <1>7, <2>2, MoveAhead
<1>9. Ordered(R)'
  BY <1>4, <1>5, <1>8 DEF Ordered
<1>10. ASSUME Symmetric(R) PROVE AllApart(R)'
  BY <1>3, <1>4, <1>5, <1>10, AheadBothWays DEF AllApart
<1>. QED  BY <1>9, <1>10

LEMMA OrderParamThreadSendProc ==
  ASSUME NEW R, TypeInv, Ordered(R), AllApart(R), ParamThreadSendProc
  PROVE  Ordered(R)' /\ (Symmetric(R) => AllApart(R)')
<1>. NetTypeOK /\ RegistryTypeOK /\ TxInv
  BY DEF TypeInv
<1>0. /\ sendQ \in Seq(Seq(Packet)) /\ Len(sendQ) \in Nat /\ txIdx \in Nat
      /\ txPc = "pop" => txIdx >= 1
      /\ CallIds({NoPacket}) = {}
  BY PacketsTyped, LenProperties DEF RegistryTypeOK, TxInv, TxTypeOK
<1>00. ASSUME UNCHANGED <<wire, issued, sent, cliPkt, recvQ, sendQ, rxPkt>>,
              UNCHANGED txPkt \/ txPkt' = NoPacket
       PROVE  Ordered(R)' /\ AllApart(R)'
  <2>1. CallIds({txPkt'}) \subseteq CallIds({txPkt})
    BY <1>0, <1>00
  <2>2. Each(recvQ, R) /\ Apart(recvQ, R) /\ Each(sendQ, R) /\ Apart(sendQ, R)
    BY DEF Ordered, AllApart
  <2>. QED  BY <1>00, <2>1, <2>2, OrderFewer
<1>1. CASE TxPick \/ TxFind
  <2>1. UNCHANGED <<wire, issued, sent, cliPkt, recvQ, sendQ, rxPkt>>
    BY <1>1 DEF TxPick, TxFind, net, registry, cli, rx
  <2>2. UNCHANGED txPkt \/ txPkt' = NoPacket
    BY <1>1 DEF TxPick, TxFind, TxNext
  <2>. QED  BY <1>00, <2>1, <2>2
<1>2. CASE TxPop
  <2>1. UNCHANGED <<wire, issued, sent, cliPkt, recvQ, rxPkt>> /\ txPc = "pop"
    BY <1>2 DEF TxPop, net, cli, rx
  <2>2. CASE UNCHANGED <<sendQ, tx>>
    BY <1>00, <2>1, <2>2 DEF tx
  <2>3. CASE TxNext /\ UNCHANGED sendQ
    BY <1>00, <2>1, <2>3 DEF TxNext
  <2>4. CASE /\ ~(txIdx > Len(sendQ)) /\ sendQ[txIdx] # <<>> /\ sendQ' = PopFirst(sendQ, txIdx)
             /\ txPkt' = Head(sendQ[txIdx])
    <3>1. txIdx \in 1 .. Len(sendQ)
      <4>. DEFINE n == Len(sendQ)
      <4>1. txIdx \in Nat /\ n \in Nat /\ txIdx >= 1 /\ ~(txIdx > n)
        BY <1>0, <2>1, <2>4
      <4>. HIDE DEF n
      <4>2. txIdx \in 1 .. n
        BY <4>1
      <4>. QED  BY <4>2 DEF n
    <3>. QED  BY <2>1, <2>4, <3>1, OrderTxPop
  <2>. QED  BY <1>2, <2>2, <2>3, <2>4 DEF TxPop
<1>3. CASE TxSendToClient
  <2>1. UNCHANGED <<issued, cliPkt, recvQ, sendQ, rxPkt>> /\ txPkt' = NoPacket
    BY <1>3 DEF TxSendToClient, TxNext, registry, cli, rx
  <2>2. CASE txSock \in open
    <3>1. txSock \in Sockets
      BY <2>2 DEF NetTypeOK
    <3>2. /\ sent' = [sent EXCEPT ![txSock] = Append(@, txPkt)]
          /\ wire' = wire \/ wire' = [wire EXCEPT ![txSock] = Append(@, ListPacket(txSock))]
      BY <1>3, <2>2 DEF TxSendToClient
    <3>. QED  BY <2>1, <3>1, <3>2, OrderTxSend
  <2>3. CASE txSock \notin open
    BY <1>00, <1>3, <2>1, <2>3 DEF TxSendToClient
  <2>. QED  BY <2>2, <2>3
<1>. QED  BY <1>1, <1>2, <1>3 DEF ParamThreadSendProc

LEMMA NextOrdered ==
  ASSUME NEW R, ByNumber(R), TypeInv, Ordered(R), AllApart(R), [Next]_vars
  PROVE  Ordered(R)' /\ (Symmetric(R) => AllApart(R)')
<1>. DEFINE held == <<wire, issued, sent, cliPkt, recvQ, sendQ, rxPkt, txPkt>>
<1>1. ASSUME NEW s \in Sockets, Client(s) \/ Accept(s)
      PROVE  Ordered(R)' /\ (Symmetric(R) => AllApart(R)')
  <2>1. CASE ClientClose(s) \/ Accept(s)
    <3>1. UNCHANGED held
      BY <2>1 DEF ClientClose, Accept, registry, cli, rx, tx
    <3>. QED  BY <3>1, OrderKept
  <2>2. ASSUME NEW kind \in Kinds[s], ClientSend(s, kind)
        PROVE  Ordered(R)' /\ (Symmetric(R) => AllApart(R)')
    BY <2>2, OrderClientSend
  <2>. QED  BY <1>1, <2>1, <2>2 DEF Client
<1>2. CASE UNCHANGED vars
  <2>1. UNCHANGED held
    BY <1>2 DEF vars, net, registry, cli, rx, tx
  <2>. QED  BY <2>1, OrderKept
<1>. QED
  BY <1>1, <1>2, OrderAcceptThread, OrderProcessClient, OrderParamThreadRecvProc,
     OrderParamThreadSendProc DEF Next, Halted

LEMMA InitOrdered ==
  ASSUME NEW R, Init PROVE Ordered(R) /\ AllApart(R)
<1>1. /\ wire = [s \in Sockets |-> <<>>] /\ sent = [s \in Sockets |-> <<>>]
      /\ recvQ = <<>> /\ sendQ = <<>> /\ cliPkt = [s \in Sockets |-> NoPacket]
      /\ rxPkt = NoPacket /\ txPkt = NoPacket
  BY DEF Init
<1>2. CallIds({NoPacket}) = {} /\ CallIds(Range(<<>>)) = {} /\ NoPacket \in AnyPacket
  BY EmptySorted, CallIdsProperties DEF NoPacket, Call, AnyPacket
<1>3. ASSUME NEW f, \A i \in DOMAIN f : f[i] = <<>> PROVE Each(f, R) /\ IdsIn(f) = {} /\ Apart(f, R)
  <2>1. <<>> \in Seq(AnyPacket) /\ Sorted(<<>>, PacketOrder(R))
    BY EmptySeq, EmptySorted
  <2>. QED  BY <1>2, <1>3, <2>1 DEF Each, IdsIn, Apart
<1>4. /\ \A i \in DOMAIN wire : wire[i] = <<>>
      /\ \A i \in DOMAIN sent : sent[i] = <<>>
      /\ \A i \in DOMAIN recvQ : recvQ[i] = <<>>
      /\ \A i \in DOMAIN sendQ : sendQ[i] = <<>>
  BY <1>1
<1>5. /\ Each(wire, R) /\ IdsIn(wire) = {} /\ Apart(wire, R)
      /\ Each(sent, R) /\ IdsIn(sent) = {} /\ Apart(sent, R)
      /\ Each(recvQ, R) /\ IdsIn(recvQ) = {} /\ Apart(recvQ, R)
      /\ Each(sendQ, R) /\ IdsIn(sendQ) = {} /\ Apart(sendQ, R)
  BY <1>3, <1>4
<1>6. IdsIn(Slots(cliPkt)) = {} /\ Apart(Slots(cliPkt), R)
  <2>1. Range(<<NoPacket>>) = {NoPacket}
    BY <1>2, SinglePacket
  <2>2. \A s \in DOMAIN Slots(cliPkt) : CallIds(Range(Slots(cliPkt)[s])) = {}
    BY <1>1, <1>2, <2>1 DEF Slots
  <2>. QED  BY <2>2 DEF IdsIn, Apart
<1>7. Chained(Places, R)
  <2>1. \A j \in 1 .. 8 : j # 1 => Places[j] = {}
    <3>1. /\ Places[2] = {} /\ Places[3] = {} /\ Places[4] = {} /\ Places[5] = {}
          /\ Places[6] = {} /\ Places[7] = {} /\ Places[8] = {}
      BY <1>1, <1>2, <1>5, <1>6 DEF Places
    <3>2. \A j \in 1 .. 8 : j # 1 => j \in {2, 3, 4, 5, 6, 7, 8}
      OBVIOUS
    <3>. QED  BY <3>1, <3>2
  <2>2. \A i, j \in 1 .. 8 : i < j => Places[j] = {}
    BY <2>1
  <2>. QED  BY <2>2 DEF Chained, AllAhead
<1>. QED  BY <1>5, <1>6, <1>7 DEF Ordered, AllApart
-----------------------------------------------------------------------------
(***************************************************************************)
(* No request is answered twice: the calls at different places, and those  *)
(* of different packets at one place, differ.                              *)
(***************************************************************************)
Differ == {ab \in Id \X Id : ab[1] # ab[2]}

LEMMA DifferOrder == ByNumber(Differ) /\ Symmetric(Differ)
<1>1. ASSUME NEW a \in Id, NEW b \in Id, a[1] = b[1] => a[2] < b[2] PROVE <<a, b>> \in Differ
  <2>1. a[2] \in Nat /\ ~(a[2] < a[2])
    BY CommAssumption DEF Id
  <2>2. a # b
    BY <1>1, <2>1
  <2>. QED  BY <2>2 DEF Differ
<1>2. Symmetric(Differ)
  BY DEF Symmetric, Differ
<1>. QED  BY <1>1, <1>2 DEF ByNumber

(* Whatever queue a packet is pushed into, found there or dropped from, and
   however clients connect and leave, a request gets at most one reply, on one
   socket.                                                                 *)
THEOREM AnsweredAtMostOnce == Spec => []ReplyOnce
<1>. DEFINE Inv == TypeInv /\ Ordered(Differ) /\ AllApart(Differ)
<1>1. Init => Inv
  BY InitTypeInv, InitOrdered
<1>2. Inv /\ [Next]_vars => Inv'
  BY NextTypeInv, NextOrdered, DifferOrder
<1>3. Inv => ReplyOnce
  <2>. SUFFICES ASSUME Inv, NEW s \in Sockets, NEW t \in Sockets,
                       NEW i \in DOMAIN sent[s], NEW j \in DOMAIN sent[t],
                       sent[s][i].kind = "reply", sent[t][j].kind = "reply",
                       sent[s][i].id = sent[t][j].id
                PROVE  s = t /\ i = j
    BY DEF ReplyOnce
  <2>. DEFINE a == sent[s][i].id
  <2>1. sent \in [Sockets -> Seq(Packet)] /\ Each(sent, Differ) /\ Apart(sent, Differ)
    BY PacketsTyped DEF Ordered, AllApart
  <2>2. <<a, a>> \notin Differ
    BY DEF Differ
  <2>3. Call(sent[s][i]) /\ Call(sent[t][j])
    BY DEF Call
  <2>4. CASE s # t
    <3>1. a \in CallIds(Range(sent[s])) /\ a \in CallIds(Range(sent[t]))
      BY <2>3 DEF CallIds, Range
    <3>. QED  BY <2>1, <2>2, <2>4, <3>1 DEF Apart
  <2>5. CASE s = t /\ i # j
    <3>1. /\ \A k, l \in DOMAIN sent[s] : k < l => <<sent[s][k], sent[s][l]>> \in PacketOrder(Differ)
          /\ DOMAIN sent[s] \subseteq Nat
      BY <2>1, LenProperties DEF Each, Sorted
    <3>2. i < j \/ j < i
      BY <2>5, <3>1
    <3>3. \/ <<sent[s][i], sent[s][j]>> \in PacketOrder(Differ)
          \/ <<sent[s][j], sent[s][i]>> \in PacketOrder(Differ)
      BY <2>5, <3>1, <3>2
    <3>. QED  BY <2>2, <2>3, <2>5, <3>3 DEF PacketOrder
  <2>. QED  BY <2>4, <2>5
<1>. QED  BY <1>1, <1>2, <1>3, PTL DEF Spec
-----------------------------------------------------------------------------
(***************************************************************************)
(* The entries of the registry: no socket has two.  A handle is used once, *)
(* and its entry is gone or its thread has been started when it is closed. *)
(***************************************************************************)
EntriesOnce ==
  /\ \A i, k \in 1 .. Len(remote) : remote[i].sock = remote[k].sock => i = k
  /\ \A i \in 1 .. Len(remote) : remote[i].sock \in open \/ cliPc[remote[i].sock] # "none"
  /\ accPc # "accept" => accSock \in open
  /\ accPc = "pushSocket" => \A i \in 1 .. Len(remote) : remote[i].sock # accSock

(* The same sockets in the same entries. *)
SameSockets ==
  Len(remote') = Len(remote) /\ \A i \in 1 .. Len(remote) : remote'[i].sock = remote[i].sock

LEMMA SameSocketsWhen ==
  ASSUME RegistryTypeOK,
         \/ UNCHANGED remote
         \/ \E fs : \E i \in 1 .. Len(remote) : remote' = [remote EXCEPT ![i].funcs = fs]
  PROVE  SameSockets
<1>1. CASE UNCHANGED remote
  BY <1>1 DEF SameSockets
<1>2. ASSUME NEW i \in 1 .. Len(remote), NEW fs, remote' = [remote EXCEPT ![i].funcs = fs]
      PROVE  SameSockets
  <2>1. remote \in Seq(Entry)
    BY DEF RegistryTypeOK, Entry
  <2>2. Len(remote') = Len(remote)
    BY <1>2, <2>1, ExceptLength
  <2>. QED  BY <1>2, <2>2, NewListStays DEF EntriesStay, SameSockets
<1>. QED  BY <1>1, <1>2

LEMMA EntriesOnceKept ==
  ASSUME TypeInv, EntriesOnce, SameSockets, UNCHANGED accSock, accPc' = "pushSocket" => accPc = "pushSocket",
         accPc' # "accept" => accPc # "accept" /\ accSock \in open',
         \A s \in Sockets : s \in open \/ cliPc[s] # "none" => s \in open' \/ cliPc'[s] # "none"
  PROVE  EntriesOnce'
<1>1. \A i \in 1 .. Len(remote) : remote[i].sock \in Sockets
  BY EntrySocket DEF TypeInv
<1>. QED  BY <1>1 DEF EntriesOnce, SameSockets

LEMMA EntriesAcceptThread ==
  ASSUME TypeInv, NotStarted, EntriesOnce, AcceptThread PROVE EntriesOnce'
<1>. RegistryTypeOK /\ AcceptInv /\ ClientTypeOK
  BY DEF TypeInv, ClientInv
<1>1. CASE AddPushSocket
  <2>. DEFINE e == [sock |-> accSock, funcs |-> {}]
  <2>1. accSock \in Sockets /\ accSock \in open /\ remote \in Seq(Entry) /\ Len(remote) \in Nat
    BY <1>1, LenProperties DEF AddPushSocket, AcceptInv, EntriesOnce, RegistryTypeOK, Entry
  <2>2. e \in Entry /\ remote' = Append(remote, e)
    BY <1>1, <2>1 DEF AddPushSocket, Entry
  <2>. HIDE DEF e
  <2>3. /\ Len(remote') = Len(remote) + 1 /\ remote'[Len(remote) + 1] = e
        /\ \A i \in 1 .. Len(remote) : remote'[i] = remote[i]
    BY <2>1, <2>2, AppendProperties
  <2>4. /\ accPc = "pushSocket" /\ accPc' = "pushLockRecv"
        /\ UNCHANGED <<open, cliPc, accSock>>
    BY <1>1 DEF AddPushSocket, GotoAcc, net, cli
  <2>. DEFINE n == Len(remote)
  <2>5. ASSUME NEW i \in 1 .. n + 1
        PROVE  remote'[i].sock = IF i = n + 1 THEN accSock ELSE remote[i].sock
    BY <2>1, <2>3 DEF e
  <2>6. /\ \A i \in 1 .. n : remote[i].sock # accSock
        /\ \A i, k \in 1 .. n : remote[i].sock = remote[k].sock => i = k
        /\ \A i \in 1 .. n : remote[i].sock \in open \/ cliPc[remote[i].sock] # "none"
    BY <2>4 DEF EntriesOnce
  <2>7. n \in Nat /\ Len(remote') = n + 1
    BY <2>1, <2>3
  <2>. HIDE DEF n
  <2>8. \A i, k \in 1 .. n + 1 : remote'[i].sock = remote'[k].sock => i = k
    BY <2>5, <2>6, <2>7
  <2>9. \A i \in 1 .. n + 1 : remote'[i].sock \in open \/ cliPc[remote'[i].sock] # "none"
    BY <2>1, <2>5, <2>6, <2>7
  <2>. QED  BY <2>1, <2>4, <2>7, <2>8, <2>9 DEF EntriesOnce
<1>2. CASE StartProcessClient
  <2>1. SameSockets
    BY <1>2, SameSocketsWhen DEF StartProcessClient, registry
  <2>2. /\ UNCHANGED open /\ accPc' = "accept" /\ accSock \in Sockets
        /\ cliPc' = [cliPc EXCEPT ![accSock] = "recv"]
    BY <1>2 DEF StartProcessClient, GotoCli, net, AcceptInv
  <2>3. \A i \in 1 .. Len(remote) : remote[i].sock \in Sockets
    BY EntrySocket
  <2>. QED  BY <2>1, <2>2, <2>3 DEF EntriesOnce, SameSockets, ClientTypeOK
<1>3. CASE AddEndWait
  <2>1. accPc = "wait"
    BY <1>3 DEF AddEndWait
  <2>2. UNCHANGED remote
        \/ \E i \in 1 .. Len(remote), fs \in SUBSET Id : remote' = [remote EXCEPT ![i].funcs = fs]
    BY <1>3, EndWaitList
  <2>3. SameSockets
    BY <2>2, SameSocketsWhen
  <2>4. UNCHANGED <<open, cliPc, accSock>> /\ accPc' \in {"wait", "start"}
    BY <1>3 DEF AddEndWait, GotoAcc, net, cli, acc
  <2>5. accSock \in open
    BY <2>1 DEF EntriesOnce
  <2>. QED  BY <2>1, <2>3, <2>4, <2>5, EntriesOnceKept
<1>4. CASE AddPushLockRecv \/ AddPushLockSend \/ AddPushRecvQ \/ AddPushSendQ \/ AddAskFunList
  <2>1. UNCHANGED <<remote, open, cliPc, accSock>>
    BY <1>4 DEF AddPushLockRecv, AddPushLockSend, AddPushRecvQ, AddPushSendQ, AddAskFunList,
       GotoAcc, net, cli, acc, registry
  <2>2. accPc \notin {"accept", "pushSocket"} /\ accPc' \notin {"accept", "pushSocket"}
    BY <1>4 DEF AddPushLockRecv, AddPushLockSend, AddPushRecvQ, AddPushSendQ, AddAskFunList,
       GotoAcc, acc
  <2>3. SameSockets /\ accSock \in open
    BY <2>1, <2>2, SameSocketsWhen DEF EntriesOnce
  <2>. QED  BY <2>1, <2>2, <2>3, EntriesOnceKept
<1>. QED  BY <1>1, <1>2, <1>3, <1>4 DEF AcceptThread

LEMMA EntriesProcessClient ==
  ASSUME TypeInv, NotStarted, EntriesOnce, NEW s \in Sockets, ProcessClient(s) PROVE EntriesOnce'
<1>. RegistryTypeOK /\ AcceptInv /\ ClientInv /\ ClientTypeOK
  BY DEF TypeInv, ClientInv
<1>1. UNCHANGED acc /\ cliPc[s] # "none"
  BY DEF ProcessClient, Recv, PushRecvFind, PushPacketDataRecv, Disconnect, DelFind,
         DelSocket, DelRecvQ, DelSendQ, DelLockRecv, DelLockSend, CloseSocket
<1>2. /\ \A t \in Sockets : cliPc'[t] = IF t = s THEN cliPc'[s] ELSE cliPc[t]
      /\ cliPc'[s] # "none"
  <2>1. UNCHANGED cliPc \/ \E pc \in {"recv", "find", "push", "delFind", "delSocket", "delRecvQ",
                                      "delSendQ", "delLockRecv", "delLockSend", "close", "gone"} :
                              cliPc' = [cliPc EXCEPT ![s] = pc]
    BY DEF ProcessClient, Recv, PushRecvFind, PushPacketDataRecv, Disconnect, DelFind,
           DelSocket, DelRecvQ, DelSendQ, DelLockRecv, DelLockSend, CloseSocket, BackToRecv, GotoCli, cli
  <2>. QED  BY <1>1, <2>1 DEF ClientTypeOK
<1>3. \A t \in Sockets : t \in open => t \in open' \/ cliPc'[t] # "none"
  <2>1. open \ {s} \subseteq open'
    BY DEF ProcessClient, Recv, PushRecvFind, PushPacketDataRecv, Disconnect, DelFind,
           DelSocket, DelRecvQ, DelSendQ, DelLockRecv, DelLockSend, CloseSocket, net
  <2>. QED  BY <1>2, <2>1
<1>4. accPc # "accept" => accSock \in open'
  <2>1. open \ {s} \subseteq open'
    BY DEF ProcessClient, Recv, PushRecvFind, PushPacketDataRecv, Disconnect, DelFind,
           DelSocket, DelRecvQ, DelSendQ, DelLockRecv, DelLockSend, CloseSocket, net
  <2>. QED  BY <1>1, <2>1 DEF NotStarted, EntriesOnce
<1>5. CASE UNCHANGED remote
  <2>1. SameSockets
    BY <1>5, SameSocketsWhen
  <2>. QED  BY <1>1, <1>2, <1>3, <1>4, <2>1, EntriesOnceKept DEF acc
<1>6. CASE ~UNCHANGED remote
  <2>1. DelSocket(s) /\ ~(cliIdx[s] > Len(remote))
    BY <1>6 DEF ProcessClient, Recv, PushRecvFind, PushPacketDataRecv, Disconnect, DelFind,
           DelSocket, DelRecvQ, DelSendQ, DelLockRecv, DelLockSend, CloseSocket, registry
  <2>. DEFINE i == cliIdx[s]
              n == Len(remote)
  <2>2. /\ remote \in Seq(Entry) /\ n \in Nat /\ i \in Nat /\ i >= 1 /\ ~(i > n)
        /\ remote' = RemoveAt(remote, i)
    BY <2>1, LenProperties DEF DelSocket, RegistryTypeOK, Entry, ClientInv, ClientTypeOK
  <2>3. i \in 1 .. n
    <3>. HIDE DEF i, n
    <3>. QED  BY <2>2
  <2>4. /\ Len(remote') = n - 1
        /\ \A j \in 1 .. n - 1 : remote'[j] = IF j < i THEN remote[j] ELSE remote[j + 1]
    BY <2>2, <2>3, RemoveAtProperties
  <2>. DEFINE m == [j \in 1 .. n - 1 |-> IF j < i THEN j ELSE j + 1]
  <2>. HIDE DEF i, n
  <2>5. /\ \A j \in 1 .. n - 1 : m[j] \in 1 .. n /\ remote'[j] = remote[m[j]]
        /\ \A j, k \in 1 .. n - 1 : m[j] = m[k] => j = k
    BY <2>2, <2>3, <2>4
  <2>6. \A j \in 1 .. n : remote[j].sock \in Sockets
    BY EntrySocket DEF n
  <2>7. /\ \A j, k \in 1 .. n : remote[j].sock = remote[k].sock => j = k
        /\ \A j \in 1 .. n : remote[j].sock \in open \/ cliPc[remote[j].sock] # "none"
        /\ accPc = "pushSocket" => \A j \in 1 .. n : remote[j].sock # accSock
    BY DEF EntriesOnce, n
  <2>. HIDE DEF m
  <2>8. \A j, k \in 1 .. n - 1 : remote'[j].sock = remote'[k].sock => j = k
    BY <2>5, <2>7
  <2>9. \A j \in 1 .. n - 1 : remote'[j].sock \in open' \/ cliPc'[remote'[j].sock] # "none"
    BY <1>2, <1>3, <2>5, <2>6, <2>7
  <2>10. accPc = "pushSocket" => \A j \in 1 .. n - 1 : remote'[j].sock # accSock
    BY <2>5, <2>7
  <2>. QED  BY <1>1, <1>4, <2>4, <2>8, <2>9, <2>10 DEF EntriesOnce, acc
<1>. QED  BY <1>5, <1>6

LEMMA EntriesWorkers ==
  ASSUME TypeInv, EntriesOnce, ParamThreadRecvProc \/ ParamThreadSendProc PROVE EntriesOnce'
<1>. RegistryTypeOK
  BY DEF TypeInv
<1>1. UNCHANGED <<open, acc, cliPc>>
  BY DEF ParamThreadRecvProc, RxPick, RxFind, RxPop, RxUpdataRemoteFuncList, RxReplyFind,
         RxPushPacketDataSend, ParamThreadSendProc, TxPick, TxFind, TxPop, TxSendToClient, net, cli
<1>2. SameSockets
  <2>1. CASE RxUpdataRemoteFuncList
    <3>. DEFINE i == FindIndexByPortName(rxSock)
    <3>1. UNCHANGED remote \/ (i # 0 /\ remote' = [remote EXCEPT ![i].funcs = rxParams])
      BY <2>1 DEF RxUpdataRemoteFuncList, UpdataRemoteFuncList
    <3>2. i \in 0 .. Len(remote)
      BY FindIndexInRegistry
    <3>. HIDE DEF i
    <3>3. i # 0 => i \in 1 .. Len(remote)
      BY <3>2, LenProperties DEF RegistryTypeOK
    <3>4. UNCHANGED remote
          \/ \E j \in 1 .. Len(remote) : remote' = [remote EXCEPT ![j].funcs = rxParams]
      BY <3>1, <3>3
    <3>5. UNCHANGED remote
          \/ \E fs : \E j \in 1 .. Len(remote) : remote' = [remote EXCEPT ![j].funcs = fs]
      BY <3>4, Zenon
    <3>. QED  BY <3>5, SameSocketsWhen
  <2>2. CASE ~RxUpdataRemoteFuncList
    <3>1. UNCHANGED remote
      BY <2>2 DEF ParamThreadRecvProc, RxPick, RxFind, RxPop, RxReplyFind, RxPushPacketDataSend,
         ParamThreadSendProc, TxPick, TxFind, TxPop, TxSendToClient, registry
    <3>. QED  BY <3>1, SameSocketsWhen
  <2>. QED  BY <2>1, <2>2
<1>. QED  BY <1>1, <1>2, EntriesOnceKept DEF acc, EntriesOnce

LEMMA NextEntriesOnce ==
  ASSUME TypeInv, NotStarted, EntriesOnce, [Next]_vars PROVE EntriesOnce'
<1>. RegistryTypeOK
  BY DEF TypeInv
<1>1. ASSUME NEW s \in Sockets, Accept(s) PROVE EntriesOnce'
  <2>1. /\ cliPc[s] = "none" /\ s \notin open /\ open' = open \cup {s}
        /\ accSock' = s /\ UNCHANGED <<remote, cliPc>>
    BY <1>1 DEF Accept, registry, cli
  <2>2. \A i \in 1 .. Len(remote) : remote[i].sock # s
    BY <2>1 DEF EntriesOnce
  <2>. QED  BY <2>1, <2>2 DEF EntriesOnce
<1>2. ASSUME NEW s \in Sockets, Client(s) PROVE EntriesOnce'
  <2>1. UNCHANGED <<remote, open, acc, cliPc>>
    BY <1>2 DEF Client, ClientSend, ClientClose, registry, cli
  <2>. QED  BY <2>1 DEF EntriesOnce, acc
<1>3. CASE UNCHANGED vars
  BY <1>3 DEF vars, net, registry, acc, cli, EntriesOnce
<1>. QED  BY <1>1, <1>2, <1>3, EntriesAcceptThread, EntriesProcessClient, EntriesWorkers
          DEF Next, Halted

LEMMA InitEntriesOnce == ASSUME Init PROVE EntriesOnce
<1>1. Len(<<>>) = 0
  OBVIOUS
<1>. QED  BY <1>1 DEF Init, EntriesOnce
-----------------------------------------------------------------------------
(***************************************************************************)
(* The replies of a client come in the order of its requests where clients *)
(* stay and have addresses of their own: its calls are then in one queue   *)
(* at a time, so that a queue and its neighbours decide the order.         *)
(***************************************************************************)
Later == {ab \in Id \X Id : ab[1][1] = ab[2][1] => ab[1][2] < ab[2][2]}

LEMMA LaterOrder == ByNumber(Later)
BY DEF ByNumber, Later

(* What the thread of a client holds is that client's. *)
HeldOwn == \A s \in Sockets : Call(cliPkt[s]) => cliPkt[s].id[1] = s

LEMMA NextHeldOwn ==
  ASSUME OwnInv, HeldOwn, [Next]_vars PROVE HeldOwn'
<1>. ClientTypeOK /\ NetTypeOK
  BY DEF OwnInv, TypeInv, ClientInv
<1>1. ASSUME NEW s \in Sockets, Recv(s) PROVE HeldOwn'
  <2>1. wire[s] \in Seq(Packet) /\ wire[s] # <<>> /\ cliPkt' = [cliPkt EXCEPT ![s] = Head(wire[s])]
    BY <1>1 DEF Recv, NetTypeOK
  <2>2. 1 \in DOMAIN wire[s] /\ Head(wire[s]) = wire[s][1]
    BY <2>1, EmptySeq, LenProperties, HeadTailProperties
  <2>3. Head(wire[s]).id[1] = s
    BY <2>2 DEF OwnInv, WireOwn
  <2>. QED  BY <2>1, <2>3 DEF HeldOwn, ClientTypeOK
<1>2. ASSUME NEW s \in Sockets, cliPkt' = [cliPkt EXCEPT ![s] = NoPacket] PROVE HeldOwn'
  BY <1>2 DEF HeldOwn, ClientTypeOK, NoPacket, Call
<1>3. CASE UNCHANGED cliPkt
  BY <1>3 DEF HeldOwn
<1>4. ASSUME NEW s \in Sockets, ProcessClient(s), ~Recv(s)
      PROVE  UNCHANGED cliPkt \/ cliPkt' = [cliPkt EXCEPT ![s] = NoPacket]
  BY <1>4 DEF ProcessClient, PushRecvFind, PushPacketDataRecv, Disconnect, DelFind,
     DelSocket, DelRecvQ, DelSendQ, DelLockRecv, DelLockSend, CloseSocket, BackToRecv, GotoCli, cli
<1>5. CASE \/ \E s \in Sockets : Client(s) \/ Accept(s)
           \/ AcceptThread \/ ParamThreadRecvProc \/ ParamThreadSendProc \/ UNCHANGED vars
  <2>1. UNCHANGED cliPkt
    <3>1. CASE \E s \in Sockets : Client(s) \/ Accept(s)
      BY <3>1 DEF Client, ClientSend, ClientClose, Accept, cli
    <3>2. CASE AcceptThread
      BY <3>2 DEF AcceptThread, AddPushSocket, AddPushLockRecv, AddPushLockSend, AddPushRecvQ,
         AddPushSendQ, AddAskFunList, AddEndWait, StartProcessClient, GotoCli, cli
    <3>3. CASE ParamThreadRecvProc
      BY <3>3 DEF ParamThreadRecvProc, RxPick, RxFind, RxPop, RxUpdataRemoteFuncList, RxReplyFind,
         RxPushPacketDataSend, cli
    <3>4. CASE ParamThreadSendProc
      BY <3>4 DEF ParamThreadSendProc, TxPick, TxFind, TxPop, TxSendToClient, cli
    <3>5. CASE UNCHANGED vars
      BY <3>5 DEF vars, cli
    <3>. QED  BY <1>5, <3>1, <3>2, <3>3, <3>4, <3>5
  <2>. QED  BY <1>3, <2>1
<1>. QED  BY <1>1, <1>2, <1>3, <1>4, <1>5 DEF Next, Halted

(* Two queues hold calls of two clients. *)
LEMMA ApartWhenOwn ==
  ASSUME NEW f, NEW own, \A i \in DOMAIN f : \A j \in DOMAIN f[i] : Call(f[i][j]) =>
           f[i][j].id \in Id /\ f[i][j].id[1] = own[i],
         \A i, k \in DOMAIN f : own[i] = own[k] => i = k
  PROVE  Apart(f, Later)
<1>. SUFFICES ASSUME NEW i \in DOMAIN f, NEW k \in DOMAIN f, i # k,
                     NEW a \in CallIds(Range(f[i])), NEW b \in CallIds(Range(f[k]))
              PROVE  <<a, b>> \in Later
  BY DEF Apart
<1>1. ASSUME NEW l \in DOMAIN f, NEW c \in CallIds(Range(f[l])) PROVE c \in Id /\ c[1] = own[l]
  BY DEF CallIds, Range
<1>2. a \in Id /\ b \in Id /\ a[1] # b[1]
  BY <1>1
<1>. QED  BY <1>2 DEF Later

LEMMA OwnApart == ASSUME OwnInv, HeldOwn, EntriesOnce PROVE AllApart(Later)
<1>1. \A p \in Packet : p.id \in Id
  BY DEF Packet
<1>2. /\ wire \in [Sockets -> Seq(Packet)] /\ sent \in [Sockets -> Seq(Packet)]
      /\ recvQ \in Seq(Seq(Packet)) /\ sendQ \in Seq(Seq(Packet))
      /\ cliPkt \in [Sockets -> AnyPacket]
  BY PacketsTyped DEF OwnInv
<1>3. \A q \in Seq(Packet) : \A j \in DOMAIN q : q[j].id \in Id
  BY <1>1, RangeOfQueue, ElementOfSeq
<1>4. Apart(wire, Later) /\ Apart(sent, Later)
  <2>. DEFINE own == [s \in Sockets |-> s]
  <2>1. \A s, t \in Sockets : own[s] = own[t] => s = t
    OBVIOUS
  <2>2. \A s \in Sockets : \A j \in DOMAIN wire[s] : wire[s][j].id \in Id /\ wire[s][j].id[1] = own[s]
    BY <1>2, <1>3 DEF OwnInv, WireOwn
  <2>3. \A s \in Sockets : \A j \in DOMAIN sent[s] : sent[s][j].id \in Id /\ sent[s][j].id[1] = own[s]
    BY <1>2, <1>3 DEF OwnInv, RoutedToClient
  <2>4. DOMAIN wire = Sockets /\ DOMAIN sent = Sockets
    BY <1>2
  <2>. HIDE DEF own
  <2>. QED  BY <2>1, <2>2, <2>3, <2>4, ApartWhenOwn
<1>5. Apart(Slots(cliPkt), Later)
  <2>. DEFINE own == [s \in Sockets |-> s]
              f == Slots(cliPkt)
  <2>1. \A s, t \in Sockets : own[s] = own[t] => s = t
    OBVIOUS
  <2>2. DOMAIN f = Sockets /\ \A s \in Sockets : f[s] = <<cliPkt[s]>>
    BY <1>2 DEF Slots
  <2>3. ASSUME NEW s \in Sockets, Call(cliPkt[s]) PROVE cliPkt[s].id \in Id /\ cliPkt[s].id[1] = own[s]
    BY <1>1, <1>2, <2>3 DEF HeldOwn, AnyPacket, NoPacket, Call
  <2>4. \A x : DOMAIN <<x>> = {1} /\ <<x>>[1] = x
    OBVIOUS
  <2>. HIDE DEF own, f
  <2>5. \A s \in DOMAIN f : \A j \in DOMAIN f[s] :
          Call(f[s][j]) => f[s][j].id \in Id /\ f[s][j].id[1] = own[s]
    BY <2>2, <2>3, <2>4
  <2>6. Apart(f, Later)
    BY <2>1, <2>2, <2>5, ApartWhenOwn
  <2>. QED  BY <2>6 DEF f
<1>6. ASSUME NEW f \in Seq(Seq(Packet)), AllOwned(f) PROVE Apart(f, Later)
  <2>. DEFINE own == [i \in DOMAIN f |-> remote[i].sock]
  <2>1. DOMAIN f = 1 .. Len(f) /\ \A i \in DOMAIN f : f[i] \in Seq(Packet)
    BY LenProperties, ElementOfSeq
  <2>2. \A i \in DOMAIN f : \A j \in DOMAIN f[i] : f[i][j].id \in Id /\ At(i, f[i][j].id[1])
    BY <1>3, <1>6, <2>1 DEF AllOwned
  <2>. SUFFICES ASSUME NEW i \in DOMAIN f, NEW k \in DOMAIN f, i # k,
                       NEW a \in CallIds(Range(f[i])), NEW b \in CallIds(Range(f[k]))
                PROVE  <<a, b>> \in Later
    BY DEF Apart
  <2>3. ASSUME NEW l \in DOMAIN f, NEW c \in CallIds(Range(f[l])) PROVE c \in Id /\ At(l, c[1])
    BY <2>2 DEF CallIds, Range
  <2>4. a \in Id /\ b \in Id /\ At(i, a[1]) /\ At(k, b[1])
    BY <2>3
  <2>5. a[1] # b[1]
    BY <2>4 DEF At, EntriesOnce
  <2>. QED  BY <2>4, <2>5 DEF Later
<1>7. Apart(recvQ, Later) /\ Apart(sendQ, Later)
  BY <1>2, <1>6 DEF OwnInv, QueuesOwn
<1>. QED  BY <1>4, <1>5, <1>7 DEF AllApart

(* The replies a client receives come in the order of its requests, also where
   a full queue drops some, for any number of clients and requests.        *)
THEOREM AnsweredInOrder ==
  ASSUME Leaving = {}, OwnAddresses PROVE Spec => []RepliesInOrder
<1>. DEFINE Inv == OwnInv /\ HeldOwn /\ NotStarted /\ EntriesOnce /\ Ordered(Later)
<1>1. Init => Inv
  <2>. SUFFICES ASSUME Init PROVE Inv
    OBVIOUS
  <2>1. HeldOwn
    BY DEF Init, HeldOwn, NoPacket, Call
  <2>. QED  BY <2>1, InitOwnInv, InitLengths, InitEntriesOnce, InitOrdered
<1>2. Inv /\ [Next]_vars => Inv'
  <2>. SUFFICES ASSUME Inv, [Next]_vars PROVE Inv'
    OBVIOUS
  <2>1. OwnInv' /\ HeldOwn'
    BY NextOwnInv, NextHeldOwn
  <2>2. TypeInv
    BY DEF OwnInv
  <2>3. NotStarted' /\ EntriesOnce'
    BY <2>2, NextNotStarted, NextEntriesOnce
  <2>4. Ordered(Later)'
    BY <2>2, OwnApart, LaterOrder, NextOrdered
  <2>. QED  BY <2>1, <2>3, <2>4
<1>3. Inv => RepliesInOrder
  <2>. SUFFICES ASSUME Inv, NEW s \in Sockets, NEW i \in DOMAIN sent[s], NEW j \in DOMAIN sent[s],
                       i < j, sent[s][i].kind = "reply", sent[s][j].kind = "reply"
                PROVE  sent[s][i].id[2] < sent[s][j].id[2]
    BY DEF RepliesInOrder
  <2>1. /\ sent[s] \in Seq(Packet) /\ Sorted(sent[s], PacketOrder(Later))
        /\ sent[s][i].id[1] = s /\ sent[s][j].id[1] = s
    BY PacketsTyped DEF OwnInv, RoutedToClient, Ordered, Each
  <2>2. <<sent[s][i], sent[s][j]>> \in PacketOrder(Later)
    BY <2>1 DEF Sorted
  <2>3. <<sent[s][i].id, sent[s][j].id>> \in Later
    BY <2>2 DEF PacketOrder, Call
  <2>. QED  BY <2>1, <2>3 DEF Later
<1>. QED  BY <1>1, <1>2, <1>3, PTL DEF Spec
-----------------------------------------------------------------------------
(***************************************************************************)
(* The outputs of a call.  A server with one client has at most one entry, *)
(* so that a pass of ParamThreadRecvProc handles at most one packet and    *)
(* paramsIN and paramsOUT are empty when it does.                          *)
(***************************************************************************)
Good == {p \in Packet : p.kind = "reply" => p.out = {p.id}}

RepliesGood ==
  /\ sent \in [Sockets -> Seq(Good)] /\ sendQ \in Seq(Seq(Good))
  /\ rxPkt \in Good \cup {NoPacket} /\ txPkt \in Good \cup {NoPacket}

OnePerPass ==
  /\ rxPc # "pick" => rxI = 0
  /\ rxI = 0 /\ rxPc \in {"pick", "find", "pop"} => rxOuts = {} /\ rxParams = {}

OutputsInv == RepliesGood /\ OnePerPass

LEMMA OneEntry ==
  ASSUME \A s, t \in Sockets : s = t, TypeInv, EntriesOnce PROVE Len(remote) <= 1
<1>. DEFINE n == Len(remote)
<1>1. n \in Nat /\ \A i \in 1 .. n : remote[i].sock \in Sockets
  BY EntrySocket, LenProperties DEF TypeInv, RegistryTypeOK
<1>2. \A i, k \in 1 .. n : i = k
  BY <1>1 DEF EntriesOnce
<1>. HIDE DEF n
<1>3. n <= 1
  <2>. SUFFICES ASSUME ~(n <= 1) PROVE FALSE
    OBVIOUS
  <2>1. 1 \in 1 .. n /\ 2 \in 1 .. n
    BY <1>1
  <2>. QED  BY <1>2, <2>1
<1>. QED  BY <1>3 DEF n

LEMMA GoodPackets ==
  ASSUME NEW s \in Sockets, NEW id \in Id
  PROVE  AskPacket(s) \in Good /\ ReplyPacket(id, {id}) \in Good
<1>1. <<s, 0>> \in Id
  BY CommAssumption DEF Id
<1>2. AskPacket(s) \in Packet /\ AskPacket(s).kind = "ask"
  BY <1>1 DEF AskPacket, Packet
<1>3. /\ ReplyPacket(id, {id}) \in Packet
      /\ ReplyPacket(id, {id}).out = {id} /\ ReplyPacket(id, {id}).id = id
  BY DEF ReplyPacket, Packet
<1>. QED  BY <1>2, <1>3 DEF Good

(* A packet of some set is pushed to a queue of packets of that set. *)
LEMMA PushGood ==
  ASSUME NEW S, NEW f \in Seq(Seq(S)), NEW i \in 1 .. Len(f), NEW p \in S
  PROVE  [f EXCEPT ![i] = PushDropOldest(@, p, MAX_PACKETDATA_NUM)] \in Seq(Seq(S))
<1>. DEFINE q == PushDropOldest(f[i], p, MAX_PACKETDATA_NUM)
<1>1. f[i] \in Seq(S)
  BY ElementOfSeq
<1>2. Append(f[i], p) \in Seq(S)
  BY <1>1, AppendProperties
<1>3. q \in Seq(S)
  <2>1. CASE f[i] = <<>>
    <3>1. ~(Len(f[i]) >= MAX_PACKETDATA_NUM)
      BY <2>1, CommAssumption
    <3>. QED  BY <1>2, <3>1 DEF PushDropOldest
  <2>2. CASE f[i] # <<>>
    <3>1. Tail(f[i]) \in Seq(S)
      BY <1>1, <2>2, HeadTailProperties
    <3>2. Append(Tail(f[i]), p) \in Seq(S)
      BY <3>1, AppendProperties
    <3>. QED  BY <1>2, <3>2 DEF PushDropOldest
  <2>. QED  BY <2>1, <2>2
<1>. HIDE DEF q
<1>4. [f EXCEPT ![i] = q] \in Seq(Seq(S))
  BY <1>3, ExceptSeq
<1>. QED  BY <1>4 DEF q

(* The other threads erase queues and add empty ones and a question.       *)
LEMMA OutputsClients ==
  ASSUME TypeInv, OutputsInv, NEW s \in Sockets, ProcessClient(s) PROVE OutputsInv'
<1>. ClientInv /\ RegistryTypeOK
  BY DEF TypeInv
<1>1. UNCHANGED <<sent, rx, tx>>
  BY DEF ProcessClient, Recv, PushRecvFind, PushPacketDataRecv, Disconnect, DelFind,
         DelSocket, DelRecvQ, DelSendQ, DelLockRecv, DelLockSend, CloseSocket, net
<1>2. sendQ' \in Seq(Seq(Good))
  <2>1. CASE UNCHANGED sendQ
    BY <2>1 DEF OutputsInv, RepliesGood
  <2>2. CASE ~UNCHANGED sendQ
    <3>1. /\ cliPc[s] = "delSendQ" /\ ~(cliIdx[s] > Len(sendQ))
          /\ sendQ' = RemoveAt(sendQ, cliIdx[s])
      BY <2>2 DEF ProcessClient, Recv, PushRecvFind, PushPacketDataRecv, Disconnect, DelFind,
         DelSocket, DelRecvQ, DelSendQ, DelLockRecv, DelLockSend, CloseSocket, registry
    <3>2. cliIdx[s] \in 1 .. Len(sendQ)
      <4>. DEFINE i == cliIdx[s]
                  n == Len(sendQ)
      <4>1. i \in Nat /\ n \in Nat /\ i >= 1 /\ ~(i > n)
        BY <3>1, LenProperties DEF ClientInv, ClientTypeOK, RegistryTypeOK
      <4>. HIDE DEF i, n
      <4>2. i \in 1 .. n
        BY <4>1
      <4>. QED  BY <4>2 DEF i, n
    <3>. QED  BY <3>1, <3>2, RemoveAtProperties DEF OutputsInv, RepliesGood
  <2>. QED  BY <2>1, <2>2
<1>. QED  BY <1>1, <1>2 DEF OutputsInv, RepliesGood, OnePerPass, rx, tx

LEMMA OutputsAccept ==
  ASSUME TypeInv, OutputsInv, AcceptThread PROVE OutputsInv'
<1>. RegistryTypeOK
  BY DEF TypeInv
<1>1. UNCHANGED <<sent, rx, tx>>
  BY DEF AcceptThread, AddPushSocket, AddPushLockRecv, AddPushLockSend, AddPushRecvQ,
         AddPushSendQ, AddAskFunList, AddEndWait, StartProcessClient, net
<1>2. sendQ' \in Seq(Seq(Good))
  <2>. sendQ \in Seq(Seq(Good))
    BY DEF OutputsInv, RepliesGood
  <2>1. CASE UNCHANGED sendQ
    BY <2>1
  <2>2. CASE AddPushSendQ
    <3>1. <<>> \in Seq(Good) /\ sendQ' = Append(sendQ, <<>>)
      BY <2>2, EmptySeq DEF AddPushSendQ
    <3>. QED  BY <3>1, AppendProperties
  <2>3. CASE AddAskFunList /\ ~UNCHANGED sendQ
    <3>. DEFINE last == remote[Len(remote)].sock
                i == FindIndexByPortName(last)
                x == AskPacket(last)
    <3>1. /\ remote # <<>> /\ ~(i > Len(sendQ)) /\ i # 0
          /\ sendQ' = [sendQ EXCEPT ![i] = PushDropOldest(@, x, MAX_PACKETDATA_NUM)]
      BY <2>3 DEF AddAskFunList, registry
    <3>2. last \in Sockets /\ i \in Nat /\ Len(sendQ) \in Nat
      BY <3>1, LastIsSocket, FindIndexType, LenProperties
    <3>3. x \in Good
      <4>1. <<last, 0>> \in Id
        BY <3>2, CommAssumption DEF Id
      <4>. QED  BY <3>2, <4>1, GoodPackets
    <3>. HIDE DEF i, x
    <3>4. i \in 1 .. Len(sendQ)
      BY <3>1, <3>2
    <3>. QED  BY <3>1, <3>3, <3>4, PushGood
  <2>4. CASE ~AddPushSendQ /\ ~AddAskFunList
    <3>1. UNCHANGED sendQ
      BY <2>4 DEF AcceptThread, AddPushSocket, AddPushLockRecv, AddPushLockSend, AddPushRecvQ,
         AddEndWait, StartProcessClient, registry
    <3>. QED  BY <3>1
  <2>. QED  BY <2>1, <2>2, <2>3, <2>4
<1>. QED  BY <1>1, <1>2 DEF OutputsInv, RepliesGood, OnePerPass, rx, tx

LEMMA OutputsSendProc ==
  ASSUME TypeInv, OutputsInv, ParamThreadSendProc PROVE OutputsInv'
<1>. NetTypeOK /\ RegistryTypeOK /\ TxInv
  BY DEF TypeInv
<1>. /\ sendQ \in Seq(Seq(Good)) /\ sent \in [Sockets -> Seq(Good)]
     /\ txPkt \in Good \cup {NoPacket}
  BY DEF OutputsInv, RepliesGood
<1>1. UNCHANGED rx
  BY DEF ParamThreadSendProc, TxPick, TxFind, TxPop, TxSendToClient
<1>2. sendQ' \in Seq(Seq(Good)) /\ txPkt' \in Good \cup {NoPacket}
  <2>1. CASE ~TxPop
    BY <2>1 DEF ParamThreadSendProc, TxPick, TxFind, TxSendToClient, TxNext, registry
  <2>2. CASE TxPop
    <3>1. CASE UNCHANGED sendQ /\ (UNCHANGED tx \/ TxNext)
      BY <3>1 DEF tx, TxNext
    <3>2. CASE ~(UNCHANGED sendQ /\ (UNCHANGED tx \/ TxNext))
      <4>1. /\ txPc = "pop" /\ ~(txIdx > Len(sendQ)) /\ sendQ[txIdx] # <<>>
            /\ sendQ' = PopFirst(sendQ, txIdx) /\ txPkt' = Head(sendQ[txIdx])
        BY <2>2, <3>2 DEF TxPop
      <4>2. txIdx \in 1 .. Len(sendQ)
        <5>. DEFINE n == Len(sendQ)
        <5>1. txIdx \in Nat /\ n \in Nat /\ txIdx >= 1 /\ ~(txIdx > n)
          BY <4>1, LenProperties DEF TxInv, TxTypeOK
        <5>. HIDE DEF n
        <5>2. txIdx \in 1 .. n
          BY <5>1
        <5>. QED  BY <5>2 DEF n
      <4>3. sendQ[txIdx] \in Seq(Good)
        BY <4>2, ElementOfSeq
      <4>4. Tail(sendQ[txIdx]) \in Seq(Good) /\ Head(sendQ[txIdx]) \in Good
        BY <4>1, <4>3, HeadTailProperties
      <4>5. [sendQ EXCEPT ![txIdx] = Tail(sendQ[txIdx])] \in Seq(Seq(Good))
        BY <4>2, <4>4, ExceptSeq
      <4>. QED  BY <4>1, <4>4, <4>5 DEF PopFirst
    <3>. QED  BY <3>1, <3>2
  <2>. QED  BY <2>1, <2>2
<1>3. sent' \in [Sockets -> Seq(Good)]
  <2>1. CASE UNCHANGED sent
    BY <2>1
  <2>2. CASE ~UNCHANGED sent
    <3>1. /\ txPc = "send" /\ txSock \in open
          /\ sent' = [sent EXCEPT ![txSock] = Append(@, txPkt)]
      BY <2>2 DEF ParamThreadSendProc, TxPick, TxFind, TxPop, TxSendToClient, net
    <3>2. txSock \in Sockets /\ txPkt \in Packet
      BY <3>1 DEF NetTypeOK, TxInv
    <3>3. NoPacket \notin Packet
      BY DEF NoPacket, Packet
    <3>4. Append(sent[txSock], txPkt) \in Seq(Good)
      BY <3>2, <3>3, AppendProperties
    <3>. QED  BY <3>1, <3>2, <3>4
  <2>. QED  BY <2>1, <2>2
<1>. QED  BY <1>1, <1>2, <1>3 DEF OutputsInv, RepliesGood, OnePerPass, rx

LEMMA OutputsRecvProc ==
  ASSUME \A s, t \in Sockets : s = t, TypeInv, EntriesOnce, OutputsInv, ParamThreadRecvProc
  PROVE  OutputsInv'
<1>. RegistryTypeOK /\ RxInv /\ RxTypeOK
  BY DEF TypeInv, RxInv
<1>. /\ sendQ \in Seq(Seq(Good)) /\ sent \in [Sockets -> Seq(Good)]
     /\ rxPkt \in Good \cup {NoPacket} /\ OnePerPass
  BY DEF OutputsInv, RepliesGood
<1>0. UNCHANGED <<sent, tx>> /\ rxI \in Nat
  BY DEF ParamThreadRecvProc, RxPick, RxFind, RxPop, RxUpdataRemoteFuncList, RxReplyFind,
         RxPushPacketDataSend, net, RxTypeOK
<1>1. ASSUME UNCHANGED sendQ, rxPkt' \in Good \cup {NoPacket}, OnePerPass' PROVE OutputsInv'
  BY <1>0, <1>1 DEF OutputsInv, RepliesGood, tx
<1>2. ASSUME RxNext PROVE rxPkt' \in Good \cup {NoPacket} /\ OnePerPass'
  <2>1. rxPkt' = NoPacket /\ rxPc' = "pick" /\ rxI' # 0
    BY <1>0, <1>2 DEF RxNext
  <2>. QED  BY <2>1 DEF OnePerPass
<1>3. CASE RxPick
  <2>1. UNCHANGED <<sendQ, rxPkt>> /\ rxPc = "pick"
    BY <1>3 DEF RxPick, registry
  <2>2. CASE RxMore
    <3>1. rxI = 0
      <4>. DEFINE n == Len(remote)
      <4>1. n \in Nat /\ n <= 1 /\ rxI < n
        BY <2>2, OneEntry, LenProperties DEF RxMore, RegistryTypeOK
      <4>. HIDE DEF n
      <4>. QED  BY <1>0, <4>1
    <3>2. rxI' = 0 /\ UNCHANGED <<rxOuts, rxParams>>
      BY <1>3, <2>2, <3>1 DEF RxPick
    <3>3. OnePerPass'
      BY <2>1, <3>1, <3>2 DEF OnePerPass
    <3>. QED  BY <1>1, <2>1, <3>3
  <2>3. CASE ~RxMore
    <3>1. rxI' = 0 /\ rxOuts' = {} /\ rxParams' = {}
      BY <1>3, <2>3 DEF RxPick, RxNewPass
    <3>2. OnePerPass'
      BY <3>1 DEF OnePerPass
    <3>. QED  BY <1>1, <2>1, <3>2
  <2>. QED  BY <2>2, <2>3
<1>4. CASE RxFind \/ RxReplyFind
  <2>1. /\ UNCHANGED <<sendQ, rxOuts, rxParams>>
        /\ \/ rxPc = "find" /\ RxFindThen("pop")
           \/ rxPc = "replyFind" /\ RxFindThen("replyPush")
    BY <1>4 DEF RxFind, RxReplyFind, registry
  <2>2. CASE RxNext
    BY <1>1, <1>2, <2>1, <2>2
  <2>3. CASE ~RxNext
    <3>1. /\ UNCHANGED <<rxI, rxPkt, rxOuts, rxParams>>
          /\ \/ rxPc = "find" /\ rxPc' = "pop"
             \/ rxPc = "replyFind" /\ rxPc' = "replyPush"
      BY <2>1, <2>3 DEF RxFindThen
    <3>2. OnePerPass'
      BY <3>1 DEF OnePerPass
    <3>. QED  BY <1>1, <2>1, <3>1, <3>2
  <2>. QED  BY <2>2, <2>3
<1>5. CASE RxPop
  <2>1. rxPc = "pop" /\ UNCHANGED sendQ
    BY <1>5 DEF RxPop
  <2>2. CASE UNCHANGED rx
    BY <1>1, <2>1, <2>2 DEF rx, OnePerPass
  <2>3. CASE RxNext
    BY <1>1, <1>2, <2>1, <2>3
  <2>4. CASE ~UNCHANGED rx /\ ~RxNext
    <3>1. /\ ~(rxIdx > Len(recvQ)) /\ recvQ[rxIdx] # <<>> /\ RxHandle(Head(recvQ[rxIdx]))
      BY <1>5, <2>4 DEF RxPop
    <3>. DEFINE pkt == Head(recvQ[rxIdx])
    <3>2. pkt.id \in Id
      <4>1. rxIdx \in 1 .. Len(recvQ)
        <5>. DEFINE n == Len(recvQ)
        <5>1. rxIdx \in Nat /\ n \in Nat /\ rxIdx >= 1 /\ ~(rxIdx > n)
          BY <2>1, <3>1, LenProperties DEF RxInv, RxTypeOK, RegistryTypeOK
        <5>. HIDE DEF n
        <5>2. rxIdx \in 1 .. n
          BY <5>1
        <5>. QED  BY <5>2 DEF n
      <4>2. pkt \in Packet
        BY <3>1, <4>1, QueuePopped DEF RegistryTypeOK, Queues
      <4>. QED  BY <4>2 DEF Packet
    <3>. HIDE DEF pkt
    <3>3. \/ rxPc' = "update" /\ UNCHANGED <<rxI, rxPkt, rxOuts>>
          \/ /\ rxOuts' = rxOuts \cup {pkt.id} /\ rxPkt' = ReplyPacket(pkt.id, rxOuts')
             /\ rxPc' = "replyFind" /\ UNCHANGED rxI
      BY <2>4, <3>1 DEF RxHandle, pkt
    <3>4. rxI = 0 /\ rxOuts = {}
      BY <2>1 DEF OnePerPass
    <3>5. OnePerPass'
      BY <3>3, <3>4 DEF OnePerPass
    <3>6. rxPkt' \in Good \cup {NoPacket}
      <4>1. CASE UNCHANGED rxPkt
        BY <4>1
      <4>2. CASE ~UNCHANGED rxPkt
        <5>1. rxPkt' = ReplyPacket(pkt.id, {pkt.id})
          BY <3>3, <3>4, <4>2
        <5>2. \E s \in Sockets : TRUE
          BY <3>2 DEF Id
        <5>. QED  BY <3>2, <5>1, <5>2, GoodPackets
      <4>. QED  BY <4>1, <4>2
    <3>. QED  BY <1>1, <2>1, <3>5, <3>6
  <2>. QED  BY <2>2, <2>3, <2>4
<1>6. CASE RxUpdataRemoteFuncList
  <2>1. RxNext /\ UNCHANGED sendQ
    BY <1>6 DEF RxUpdataRemoteFuncList
  <2>. QED  BY <1>1, <1>2, <2>1
<1>7. CASE RxPushPacketDataSend
  <2>1. rxPc = "replyPush"
    BY <1>7 DEF RxPushPacketDataSend
  <2>2. CASE UNCHANGED <<sendQ, rx>>
    BY <1>1, <2>2 DEF rx, OnePerPass
  <2>3. CASE ~UNCHANGED <<sendQ, rx>>
    <3>1. /\ ~(rxIdx > Len(sendQ)) /\ RxNext
          /\ sendQ' = [sendQ EXCEPT ![rxIdx] = PushDropOldest(@, rxPkt, MAX_PACKETDATA_NUM)]
      BY <1>7, <2>3 DEF RxPushPacketDataSend
    <3>2. rxIdx \in 1 .. Len(sendQ)
      <4>. DEFINE n == Len(sendQ)
      <4>1. rxIdx \in Nat /\ n \in Nat /\ rxIdx >= 1 /\ ~(rxIdx > n)
        BY <2>1, <3>1, LenProperties DEF RxInv, RxTypeOK, RegistryTypeOK
      <4>. HIDE DEF n
      <4>2. rxIdx \in 1 .. n
        BY <4>1
      <4>. QED  BY <4>2 DEF n
    <3>3. rxPkt \in Good
      <4>1. NoPacket \notin Packet
        BY DEF NoPacket, Packet
      <4>. QED  BY <2>1, <4>1 DEF RxInv
    <3>4. sendQ' \in Seq(Seq(Good))
      BY <3>1, <3>2, <3>3, PushGood
    <3>. QED  BY <1>0, <1>2, <3>1, <3>4 DEF OutputsInv, RepliesGood, tx
  <2>. QED  BY <2>2, <2>3
<1>. QED  BY <1>3, <1>4, <1>5, <1>6, <1>7 DEF ParamThreadRecvProc

LEMMA InitOutputs == ASSUME Init PROVE OutputsInv
<1>1. <<>> \in Seq(Good) /\ <<>> \in Seq(Seq(Good))
  BY EmptySeq
<1>. QED  BY <1>1 DEF Init, OutputsInv, RepliesGood, OnePerPass

LEMMA NextOutputs ==
  ASSUME \A s, t \in Sockets : s = t, TypeInv, EntriesOnce, OutputsInv, [Next]_vars
  PROVE  OutputsInv'
<1>1. ASSUME NEW s \in Sockets, Client(s) \/ Accept(s) PROVE OutputsInv'
  <2>1. UNCHANGED <<sent, sendQ, rx, tx>>
    BY <1>1 DEF Client, ClientSend, ClientClose, Accept, registry
  <2>. QED  BY <2>1 DEF OutputsInv, RepliesGood, OnePerPass, rx, tx
<1>2. CASE UNCHANGED vars
  BY <1>2 DEF vars, net, registry, OutputsInv, RepliesGood, OnePerPass, rx, tx
<1>. QED  BY <1>1, <1>2, OutputsClients, OutputsAccept, OutputsSendProc, OutputsRecvProc
          DEF Next, Halted

(* A server with one client: the reply to a request returns the outputs of that
   request, none left over from another one in the same pass.              *)
THEOREM AnsweredWithOwnOutputs ==
  ASSUME \A s, t \in Sockets : s = t PROVE Spec => []ReplyReturnsOwnOutputs
<1>. DEFINE Inv == TypeInv /\ NotStarted /\ EntriesOnce /\ OutputsInv
<1>1. Init => Inv
  BY InitTypeInv, InitLengths, InitEntriesOnce, InitOutputs
<1>2. Inv /\ [Next]_vars => Inv'
  BY NextTypeInv, NextNotStarted, NextEntriesOnce, NextOutputs
<1>3. Inv => ReplyReturnsOwnOutputs
  <2>. SUFFICES ASSUME Inv, NEW s \in Sockets, NEW i \in DOMAIN sent[s],
                       sent[s][i].kind = "reply"
                PROVE  sent[s][i].out = {sent[s][i].id}
    BY DEF ReplyReturnsOwnOutputs
  <2>1. sent[s] \in Seq(Good)
    BY DEF OutputsInv, RepliesGood
  <2>2. sent[s][i] \in Good
    BY <2>1, LenProperties, ElementOfSeq
  <2>. QED  BY <2>2 DEF Good
<1>. QED  BY <1>1, <1>2, <1>3, PTL DEF Spec
-----------------------------------------------------------------------------
(***************************************************************************)
(* What is on its way from the clients to the thread that executes it: a   *)
(* set that holds whatever a client sends holds all of it.                 *)
(***************************************************************************)
Incoming(S) ==
  /\ wire \in [Sockets -> Seq(S)]
  /\ cliPkt \in [Sockets -> S \cup {NoPacket}]
  /\ recvQ \in Seq(Seq(S))

Request(s, kind) == [kind |-> kind, id |-> <<s, issued[s] + 1>>, out |-> {}]

LEMMA IncomingClientSends ==
  ASSUME NEW S, NetTypeOK, Incoming(S), NEW s \in Sockets, Client(s) \/ Accept(s),
         \A kind \in {"req", "unknown"} : ClientSend(s, kind) => Request(s, kind) \in S
  PROVE  Incoming(S)'
<1>1. UNCHANGED <<cliPkt, recvQ>>
  BY DEF Client, ClientSend, ClientClose, Accept, registry, cli
<1>2. CASE UNCHANGED wire
  BY <1>1, <1>2 DEF Incoming
<1>3. CASE ~UNCHANGED wire
  <2>1. PICK kind \in Kinds[s] : ClientSend(s, kind)
    BY <1>3 DEF Client, ClientClose, Accept
  <2>2. kind \in {"req", "unknown"}
    BY CommAssumption
  <2>3. Append(wire[s], Request(s, kind)) \in Seq(S)
    BY <2>1, <2>2, AppendProperties DEF Incoming
  <2>4. wire' = [wire EXCEPT ![s] = Append(@, Request(s, kind))]
    BY <2>1 DEF ClientSend, Request
  <2>. QED  BY <1>1, <2>3, <2>4 DEF Incoming
<1>. QED  BY <1>2, <1>3

LEMMA IncomingProcessClient ==
  ASSUME NEW S, TypeInv, Incoming(S), NEW s \in Sockets, ProcessClient(s) PROVE Incoming(S)'
<1>. ClientInv /\ ClientTypeOK /\ RegistryTypeOK
  BY DEF TypeInv, ClientInv
<1>. recvQ \in Seq(Seq(S))
  BY DEF Incoming
<1>1. wire' \in [Sockets -> Seq(S)] /\ cliPkt' \in [Sockets -> S \cup {NoPacket}]
  <2>1. CASE Recv(s)
    <3>1. Tail(wire[s]) \in Seq(S) /\ Head(wire[s]) \in S
      BY <2>1, HeadTailProperties DEF Recv, Incoming
    <3>. QED  BY <2>1, <3>1 DEF Recv, Incoming
  <2>2. CASE ~Recv(s)
    <3>1. UNCHANGED wire /\ (UNCHANGED cliPkt \/ BackToRecv(s))
      BY <2>2 DEF ProcessClient, PushRecvFind, PushPacketDataRecv, Disconnect, DelFind,
         DelSocket, DelRecvQ, DelSendQ, DelLockRecv, DelLockSend, CloseSocket, GotoCli, net, cli
    <3>. QED  BY <3>1 DEF BackToRecv, Incoming
  <2>. QED  BY <2>1, <2>2
<1>2. ASSUME cliPc[s] \in {"push", "delRecvQ"} PROVE cliIdx[s] \in Nat /\ cliIdx[s] >= 1
  BY <1>2 DEF ClientInv, ClientTypeOK
<1>3. recvQ' \in Seq(Seq(S))
  <2>1. CASE PushPacketDataRecv(s) /\ ~UNCHANGED recvQ
    <3>1. /\ cliPc[s] = "push" /\ ~(cliIdx[s] > Len(recvQ))
          /\ recvQ' = [recvQ EXCEPT ![cliIdx[s]] =
                          PushDropOldest(@, cliPkt[s], MAX_PACKETDATA_NUM)]
      BY <2>1 DEF PushPacketDataRecv
    <3>2. cliIdx[s] \in 1 .. Len(recvQ)
      BY <1>2, <3>1, LengthsTyped
    <3>3. cliPkt[s] \in S
      <4>1. NoPacket \notin Packet
        BY DEF NoPacket, Packet
      <4>. QED  BY <3>1, <4>1 DEF ClientInv, Incoming
    <3>. QED  BY <3>1, <3>2, <3>3, PushGood
  <2>2. CASE DelRecvQ(s) /\ ~UNCHANGED recvQ
    <3>1. /\ cliPc[s] = "delRecvQ" /\ ~(cliIdx[s] > Len(recvQ))
          /\ recvQ' = RemoveAt(recvQ, cliIdx[s])
      BY <2>2 DEF DelRecvQ
    <3>2. cliIdx[s] \in 1 .. Len(recvQ)
      BY <1>2, <3>1, LengthsTyped
    <3>. QED  BY <3>1, <3>2, RemoveAtProperties
  <2>3. CASE UNCHANGED recvQ
    BY <2>3
  <2>. QED  BY <2>1, <2>2, <2>3 DEF ProcessClient, Recv, PushRecvFind, Disconnect, DelFind,
            DelSocket, DelSendQ, DelLockRecv, DelLockSend, CloseSocket, registry
<1>. QED  BY <1>1, <1>3 DEF Incoming

LEMMA IncomingAccept ==
  ASSUME NEW S, Incoming(S), AcceptThread PROVE Incoming(S)'
<1>1. UNCHANGED <<wire, cliPkt>>
  BY DEF AcceptThread, AddPushSocket, AddPushLockRecv, AddPushLockSend, AddPushRecvQ,
         AddPushSendQ, AddAskFunList, AddEndWait, StartProcessClient, GotoCli, net, cli
<1>2. CASE AddPushRecvQ
  <2>1. <<>> \in Seq(S) /\ recvQ' = Append(recvQ, <<>>)
    BY <1>2, EmptySeq DEF AddPushRecvQ
  <2>. QED  BY <1>1, <2>1, AppendProperties DEF Incoming
<1>3. CASE ~AddPushRecvQ
  <2>1. UNCHANGED recvQ
    BY <1>3 DEF AcceptThread, AddPushSocket, AddPushLockRecv, AddPushLockSend,
       AddPushSendQ, AddAskFunList, AddEndWait, StartProcessClient, registry
  <2>. QED  BY <1>1, <2>1 DEF Incoming
<1>. QED  BY <1>2, <1>3

LEMMA IncomingRecvProc ==
  ASSUME NEW S, TypeInv, Incoming(S), ParamThreadRecvProc
  PROVE  /\ Incoming(S)'
         /\ recvQ' # recvQ => /\ RxPop /\ rxIdx \in 1 .. Len(recvQ) /\ recvQ[rxIdx] # <<>>
                              /\ Head(recvQ[rxIdx]) \in S /\ RxHandle(Head(recvQ[rxIdx]))
<1>. RegistryTypeOK /\ RxInv /\ RxTypeOK
  BY DEF TypeInv, RxInv
<1>1. UNCHANGED <<wire, cliPkt>>
  BY DEF ParamThreadRecvProc, RxPick, RxFind, RxPop, RxUpdataRemoteFuncList, RxReplyFind,
         RxPushPacketDataSend, net, cli
<1>2. CASE UNCHANGED recvQ
  BY <1>1, <1>2 DEF Incoming
<1>3. CASE ~UNCHANGED recvQ
  <2>1. RxPop
    BY <1>3 DEF ParamThreadRecvProc, RxPick, RxFind, RxUpdataRemoteFuncList, RxReplyFind,
       RxPushPacketDataSend, registry
  <2>2. /\ rxPc = "pop" /\ ~(rxIdx > Len(recvQ)) /\ recvQ[rxIdx] # <<>>
        /\ recvQ' = PopFirst(recvQ, rxIdx) /\ RxHandle(Head(recvQ[rxIdx]))
    BY <1>3, <2>1 DEF RxPop
  <2>3. rxIdx \in 1 .. Len(recvQ)
    <3>1. rxIdx \in Nat /\ rxIdx >= 1
      BY <2>2 DEF RxInv, RxTypeOK
    <3>. QED  BY <2>2, <3>1, LengthsTyped
  <2>4. recvQ[rxIdx] \in Seq(S)
    BY <2>3, ElementOfSeq DEF Incoming
  <2>5. Tail(recvQ[rxIdx]) \in Seq(S) /\ Head(recvQ[rxIdx]) \in S
    BY <2>2, <2>4, HeadTailProperties
  <2>6. [recvQ EXCEPT ![rxIdx] = Tail(recvQ[rxIdx])] \in Seq(Seq(S))
    BY <2>3, <2>5, ExceptSeq DEF Incoming
  <2>. QED  BY <1>1, <2>1, <2>2, <2>3, <2>5, <2>6 DEF Incoming, PopFirst
<1>. QED  BY <1>2, <1>3

LEMMA IncomingSendProc ==
  ASSUME NEW S, NetTypeOK, Incoming(S), ParamThreadSendProc,
         \A s \in Sockets : ListPacket(s) \in S
  PROVE  Incoming(S)'
<1>1. UNCHANGED <<cliPkt, recvQ>>
  BY DEF ParamThreadSendProc, TxPick, TxFind, TxPop, TxSendToClient, registry, cli
<1>2. CASE UNCHANGED wire
  BY <1>1, <1>2 DEF Incoming
<1>3. CASE ~UNCHANGED wire
  <2>1. txSock \in open /\ wire' = [wire EXCEPT ![txSock] = Append(@, ListPacket(txSock))]
    BY <1>3 DEF ParamThreadSendProc, TxPick, TxFind, TxPop, TxSendToClient, net
  <2>2. Append(wire[txSock], ListPacket(txSock)) \in Seq(S)
    BY <2>1, AppendProperties DEF NetTypeOK, Incoming
  <2>. QED  BY <1>1, <2>1, <2>2 DEF Incoming
<1>. QED  BY <1>2, <1>3

LEMMA InitIncoming == ASSUME NEW S, Init PROVE Incoming(S)
<1>1. <<>> \in Seq(S) /\ <<>> \in Seq(Seq(S))
  BY EmptySeq
<1>. QED  BY <1>1 DEF Init, Incoming

(***************************************************************************)
(* The wait for the function list.  As long as no client has sent a        *)
(* request, none is executed, and m_lockSocketSource is left by none but   *)
(* the thread that entered it.                                             *)
(***************************************************************************)
NobodyAsked == \A s \in Sockets : issued[s] = 0
NotRequest == {p \in Packet : p.kind # "req"}
Idle ==
  /\ Incoming(NotRequest)
  /\ lockSource = IF accPc = "wait" THEN "held" ELSE "free"

LEMMA SentByNobody ==
  ASSUME TypeInv, Next, NobodyAsked'
  PROVE  NobodyAsked /\ \A s \in Sockets : \A kind : ~ClientSend(s, kind)
<1>. NetTypeOK
  BY DEF TypeInv
<1>1. ASSUME NEW s \in Sockets, NEW kind, ClientSend(s, kind) PROVE FALSE
  BY <1>1 DEF ClientSend, NobodyAsked, NetTypeOK
<1>2. UNCHANGED issued
  BY <1>1, CommAssumption
  DEF Next, Halted, vars, net, Client, ClientClose, Accept, ProcessClient, Recv, PushRecvFind,
      PushPacketDataRecv, Disconnect, DelFind, DelSocket, DelRecvQ, DelSendQ, DelLockRecv,
      DelLockSend, CloseSocket, AcceptThread, AddPushSocket, AddPushLockRecv, AddPushLockSend,
      AddPushRecvQ, AddPushSendQ, AddAskFunList, AddEndWait, StartProcessClient,
      ParamThreadRecvProc, RxPick, RxFind, RxPop, RxUpdataRemoteFuncList, RxReplyFind,
      RxPushPacketDataSend, ParamThreadSendProc, TxPick, TxFind, TxPop, TxSendToClient
<1>. QED  BY <1>1, <1>2 DEF NobodyAsked

LEMMA NextIdle ==
  ASSUME TypeInv, NobodyAsked => Idle, [Next]_vars, NobodyAsked' PROVE Idle'
<1>1. CASE UNCHANGED vars
  BY <1>1 DEF vars, net, registry, acc, cli, Idle, Incoming, NobodyAsked
<1>2. CASE Next
  <2>. Idle /\ NetTypeOK
    BY <1>2, SentByNobody DEF TypeInv
  <2>. Incoming(NotRequest)
    BY DEF Idle
  <2>1. ASSUME NEW s \in Sockets, Client(s) \/ Accept(s) PROVE Idle'
    <3>1. \A kind \in {"req", "unknown"} : ~ClientSend(s, kind)
      BY <1>2, SentByNobody
    <3>2. Incoming(NotRequest)'
      BY <2>1, <3>1, IncomingClientSends
    <3>3. UNCHANGED lockSource /\ accPc' \in {accPc, "pushSocket"} /\ (accPc' # accPc => accPc = "accept")
      BY <2>1 DEF Client, ClientSend, ClientClose, Accept, acc
    <3>. QED  BY <3>2, <3>3 DEF Idle
  <2>2. ASSUME NEW s \in Sockets, ProcessClient(s) PROVE Idle'
    <3>1. UNCHANGED lockSource /\ UNCHANGED accPc
      BY <2>2 DEF ProcessClient, Recv, PushRecvFind, PushPacketDataRecv, Disconnect, DelFind,
         DelSocket, DelRecvQ, DelSendQ, DelLockRecv, DelLockSend, CloseSocket, acc
    <3>. QED  BY <2>2, <3>1, IncomingProcessClient DEF Idle
  <2>3. CASE AcceptThread
    <3>1. Incoming(NotRequest)'
      BY <2>3, IncomingAccept
    <3>2. CASE AddAskFunList
      BY <3>1, <3>2 DEF AddAskFunList, Idle, acc
    <3>3. CASE AddEndWait
      BY <3>1, <3>3 DEF AddEndWait, Idle, acc
    <3>4. CASE ~AddAskFunList /\ ~AddEndWait
      <4>1. UNCHANGED lockSource /\ accPc # "wait" /\ accPc' # "wait"
        BY <2>3, <3>4 DEF AcceptThread, AddPushSocket, AddPushLockRecv, AddPushLockSend,
           AddPushRecvQ, AddPushSendQ, StartProcessClient, GotoAcc
      <4>. QED  BY <3>1, <4>1 DEF Idle
    <3>. QED  BY <3>2, <3>3, <3>4
  <2>4. CASE ParamThreadRecvProc
    <3>1. Incoming(NotRequest)' /\ UNCHANGED accPc
      BY <2>4, IncomingRecvProc
      DEF ParamThreadRecvProc, RxPick, RxFind, RxPop, RxUpdataRemoteFuncList, RxReplyFind,
          RxPushPacketDataSend, acc
    <3>2. UNCHANGED lockSource
      <4>1. CASE recvQ' # recvQ
        <5>1. /\ RxHandle(Head(recvQ[rxIdx])) /\ Head(recvQ[rxIdx]) \in NotRequest
          BY <2>4, <4>1, IncomingRecvProc
        <5>. QED  BY <5>1 DEF RxHandle, NotRequest
      <4>2. CASE recvQ' = recvQ
        <5>1. ASSUME RxPop, ~UNCHANGED lockSource PROVE FALSE
          <6>1. /\ ~(rxIdx > Len(recvQ)) /\ recvQ[rxIdx] # <<>>
                /\ recvQ' = PopFirst(recvQ, rxIdx) /\ rxPc = "pop"
            BY <5>1 DEF RxPop
          <6>2. rxIdx \in 1 .. Len(recvQ) /\ recvQ[rxIdx] \in Seq(Packet)
            BY <6>1, LengthsTyped, ElementOfSeq DEF TypeInv, RxInv, RxTypeOK, RegistryTypeOK
          <6>3. recvQ'[rxIdx] = Tail(recvQ[rxIdx])
            BY <6>1, <6>2, LenProperties DEF PopFirst, TypeInv, RegistryTypeOK
          <6>4. Len(recvQ'[rxIdx]) = Len(recvQ[rxIdx]) - 1 /\ Len(recvQ[rxIdx]) \in Nat
            BY <6>1, <6>2, <6>3, HeadTailProperties, LenProperties
          <6>. QED  BY <4>2, <6>4
        <5>. QED  BY <2>4, <5>1 DEF ParamThreadRecvProc, RxPick, RxFind, RxUpdataRemoteFuncList,
                  RxReplyFind, RxPushPacketDataSend
      <4>. QED  BY <4>1, <4>2
    <3>. QED  BY <3>1, <3>2 DEF Idle
  <2>5. CASE ParamThreadSendProc
    <3>1. \A s \in Sockets : ListPacket(s) \in NotRequest
      BY CommAssumption DEF ListPacket, NotRequest, Packet, Id
    <3>2. UNCHANGED lockSource /\ UNCHANGED accPc
      BY <2>5 DEF ParamThreadSendProc, TxPick, TxFind, TxPop, TxSendToClient, acc
    <3>. QED  BY <2>5, <3>1, <3>2, IncomingSendProc DEF Idle
  <2>6. CASE Halted
    BY <2>6 DEF Halted, vars, net, registry, acc, cli, Idle, Incoming
  <2>. QED  BY <1>2, <2>1, <2>2, <2>3, <2>4, <2>5, <2>6 DEF Next
<1>. QED  BY <1>1, <1>2

(* While AddSocketSource sleeps for the function list, and as long as no client has
   sent a request, no thread changes the registry: whoever would store the list needs
   the lock of the one that waits.                                         *)
THEOREM NobodyListsDuringWait == Spec => NoListDuringWait
<1>. DEFINE Inv == TypeInv /\ (NobodyAsked => Idle)
<1>1. Init => Inv
  <2>1. ASSUME Init PROVE Idle
    BY <2>1, InitIncoming DEF Init, Idle
  <2>. QED  BY <2>1, InitTypeInv
<1>2. Inv /\ [Next]_vars => Inv'
  BY NextTypeInv, NextIdle
<1>3. Inv /\ [Next]_vars =>
        [accPc = "wait" /\ accPc' = "wait" /\ (\A s \in Sockets : issued[s] = 0)
           => UNCHANGED remote]_vars
  <2>. SUFFICES ASSUME Inv, Next, accPc = "wait", accPc' = "wait", NobodyAsked
                PROVE  UNCHANGED remote
    BY DEF NobodyAsked
  <2>1. ~SourceFree
    BY DEF Idle, SourceFree
  <2>2. ASSUME NEW s \in Sockets, Client(s) \/ Accept(s) PROVE UNCHANGED remote
    BY <2>2 DEF Client, ClientSend, ClientClose, Accept, registry
  <2>3. ASSUME NEW s \in Sockets, ProcessClient(s) PROVE UNCHANGED remote
    BY <2>1, <2>3 DEF ProcessClient, Recv, PushRecvFind, PushPacketDataRecv, Disconnect,
       DelFind, DelSocket, DelRecvQ, DelSendQ, DelLockRecv, DelLockSend, CloseSocket, registry
  <2>4. CASE AcceptThread
    BY <2>1, <2>4 DEF AcceptThread, AddPushSocket, AddPushLockRecv, AddPushLockSend,
       AddPushRecvQ, AddPushSendQ, AddAskFunList, AddEndWait, StartProcessClient,
       GotoAcc, registry
  <2>5. CASE ParamThreadRecvProc
    BY <2>1, <2>5 DEF ParamThreadRecvProc, RxPick, RxFind, RxPop, RxUpdataRemoteFuncList,
       RxReplyFind, RxPushPacketDataSend, registry
  <2>6. CASE ParamThreadSendProc
    BY <2>6 DEF ParamThreadSendProc, TxPick, TxFind, TxPop, TxSendToClient, registry
  <2>7. CASE Halted
    BY <2>7 DEF Halted, vars, registry
  <2>. QED  BY <2>2, <2>3, <2>4, <2>5, <2>6, <2>7 DEF Next
<1>. QED  BY <1>1, <1>2, <1>3, PTL DEF Spec, NoListDuringWait
-----------------------------------------------------------------------------
(***************************************************************************)
(* The function list of a call.  With one client a pass handles one        *)
(* packet, so the server stores what that client announced: the list it    *)
(* parses is the first parameter of the pass, and no request is mistaken   *)
(* for a list.                                                             *)
(***************************************************************************)
Announced == {id \in Id : id[2] = 0}
WellNumbered == {p \in Packet : p.kind = "list" => p.id \in Announced}
ListEntry == [sock : Sockets, funcs : SUBSET Announced]

ListsInv ==
  /\ Incoming(WellNumbered)
  /\ remote \in Seq(ListEntry)
  /\ rxPc = "update" => rxParams \subseteq Announced

LEMMA ListsClientSends ==
  ASSUME TypeInv, ListsInv, NEW s \in Sockets, Client(s) \/ Accept(s) PROVE ListsInv'
<1>. NetTypeOK
  BY DEF TypeInv
<1>1. UNCHANGED <<remote, rxPc, rxParams>>
  BY DEF Client, ClientSend, ClientClose, Accept, registry, rx
<1>2. ASSUME NEW kind \in {"req", "unknown"}, ClientSend(s, kind)
      PROVE  Request(s, kind) \in WellNumbered
  <2>1. issued[s] + 1 \in 0 .. MaxRequests
    BY <1>2, CommAssumption DEF ClientSend, NetTypeOK
  <2>. QED  BY <2>1 DEF Request, WellNumbered, Packet, Id
<1>3. Incoming(WellNumbered)'
  BY <1>2, IncomingClientSends DEF ListsInv
<1>. QED  BY <1>1, <1>3 DEF ListsInv

LEMMA ListsClients ==
  ASSUME TypeInv, ListsInv, NEW s \in Sockets, ProcessClient(s) PROVE ListsInv'
<1>. ClientInv /\ ClientTypeOK /\ RegistryTypeOK
  BY DEF TypeInv, ClientInv
<1>1. UNCHANGED rx
  BY DEF ProcessClient, Recv, PushRecvFind, PushPacketDataRecv, Disconnect, DelFind,
         DelSocket, DelRecvQ, DelSendQ, DelLockRecv, DelLockSend, CloseSocket
<1>2. ASSUME cliPc[s] = "delSocket" PROVE cliIdx[s] \in Nat /\ cliIdx[s] >= 1
  BY <1>2 DEF ClientInv, ClientTypeOK
<1>3. Incoming(WellNumbered)'
  BY IncomingProcessClient DEF ListsInv
<1>4. remote' \in Seq(ListEntry)
  <2>. remote \in Seq(ListEntry)
    BY DEF ListsInv
  <2>1. CASE DelSocket(s) /\ ~UNCHANGED remote
    <3>1. /\ cliPc[s] = "delSocket" /\ ~(cliIdx[s] > Len(remote))
          /\ remote' = RemoveAt(remote, cliIdx[s])
      BY <2>1 DEF DelSocket
    <3>2. cliIdx[s] \in 1 .. Len(remote)
      BY <1>2, <3>1, LengthsTyped
    <3>. QED  BY <3>1, <3>2, RemoveAtProperties
  <2>2. CASE UNCHANGED remote
    BY <2>2
  <2>. QED  BY <2>1, <2>2 DEF ProcessClient, Recv, PushRecvFind, PushPacketDataRecv, Disconnect,
            DelFind, DelRecvQ, DelSendQ, DelLockRecv, DelLockSend, CloseSocket, registry
<1>. QED  BY <1>1, <1>3, <1>4 DEF ListsInv, rx

(* An entry of the registry whose list is replaced. *)
LEMMA ListReplaced ==
  ASSUME remote \in Seq(ListEntry), NEW i \in 1 .. Len(remote), NEW list \in SUBSET Announced
  PROVE  [remote EXCEPT ![i].funcs = list] \in Seq(ListEntry)
<1>. DEFINE e == [remote[i] EXCEPT !.funcs = list]
<1>1. remote[i] \in ListEntry
  BY ElementOfSeq
<1>2. e \in ListEntry
  BY <1>1 DEF ListEntry
<1>. HIDE DEF e
<1>3. [remote EXCEPT ![i] = e] \in Seq(ListEntry)
  BY <1>2, ExceptSeq
<1>. QED  BY <1>3 DEF e

LEMMA ListsAccept ==
  ASSUME TypeInv, ListsInv, AcceptThread PROVE ListsInv'
<1>. RegistryTypeOK /\ AcceptInv
  BY DEF TypeInv
<1>1. UNCHANGED rx
  BY DEF AcceptThread, AddPushSocket, AddPushLockRecv, AddPushLockSend, AddPushRecvQ,
         AddPushSendQ, AddAskFunList, AddEndWait, StartProcessClient
<1>2. Incoming(WellNumbered)'
  BY IncomingAccept DEF ListsInv
<1>3. remote' \in Seq(ListEntry)
  <2>. remote \in Seq(ListEntry)
    BY DEF ListsInv
  <2>1. CASE AddPushSocket
    <3>1. [sock |-> accSock, funcs |-> {}] \in ListEntry
      BY <2>1 DEF AddPushSocket, AcceptInv, ListEntry
    <3>. QED  BY <2>1, <3>1, AppendProperties DEF AddPushSocket
  <2>2. CASE AddEndWait /\ ~UNCHANGED remote
    <3>. DEFINE found == FindIndexByPortName(accAsked)
                fs == remote[accAt].funcs \cup remote[found].funcs
    <3>1. /\ found # 0 /\ ~(accAt > Len(remote))
          /\ remote' = [remote EXCEPT ![accAt].funcs = @ \cup remote[found].funcs]
      BY <2>2 DEF AddEndWait
    <3>2. found \in 0 .. Len(remote) /\ Len(remote) \in Nat /\ accAt \in Nat /\ accAt >= 1
      BY <2>2, FindIndexInRegistry, LengthsTyped DEF AddEndWait, AcceptInv, AcceptTypeOK
    <3>3. found \in 1 .. Len(remote) /\ accAt \in 1 .. Len(remote)
      BY <3>1, <3>2
    <3>. HIDE DEF found
    <3>4. remote[found] \in ListEntry /\ remote[accAt] \in ListEntry
      BY <3>3, ElementOfSeq
    <3>5. fs \in SUBSET Announced
      BY <3>4 DEF ListEntry
    <3>6. remote' = [remote EXCEPT ![accAt].funcs = fs]
      BY <3>1, <3>3
    <3>. QED  BY <3>3, <3>5, <3>6, ListReplaced
  <2>3. CASE UNCHANGED remote
    BY <2>3
  <2>. QED  BY <2>1, <2>2, <2>3 DEF AcceptThread, AddPushLockRecv, AddPushLockSend,
            AddPushRecvQ, AddPushSendQ, AddAskFunList, StartProcessClient, registry
<1>. QED  BY <1>1, <1>2, <1>3 DEF ListsInv, rx

LEMMA ListsRecvProc ==
  ASSUME TypeInv, OnePerPass, ListsInv, ParamThreadRecvProc PROVE ListsInv'
<1>. RegistryTypeOK /\ RxInv /\ RxTypeOK
  BY DEF TypeInv, RxInv
<1>1. Incoming(WellNumbered)'
  BY IncomingRecvProc DEF ListsInv
<1>2. CASE RxPop
  <2>1. rxPc = "pop" /\ UNCHANGED remote
    BY <1>2 DEF RxPop
  <2>2. ASSUME rxPc' = "update" PROVE rxParams' \subseteq Announced
    <3>. DEFINE pkt == Head(recvQ[rxIdx])
    <3>1. /\ ~(rxIdx > Len(recvQ)) /\ recvQ[rxIdx] # <<>> /\ RxHandle(pkt)
      BY <1>2, <2>1, <2>2 DEF RxPop, RxNext, rx
    <3>2. rxIdx \in 1 .. Len(recvQ)
      <4>1. rxIdx \in Nat /\ rxIdx >= 1
        BY <2>1 DEF RxInv, RxTypeOK
      <4>. QED  BY <3>1, <4>1, LengthsTyped
    <3>3. recvQ[rxIdx] \in Seq(WellNumbered)
      BY <3>2, ElementOfSeq DEF ListsInv, Incoming
    <3>4. pkt \in WellNumbered
      BY <3>1, <3>3, HeadTailProperties
    <3>. HIDE DEF pkt
    <3>5. pkt.kind = "list" /\ rxParams' = rxParams \cup {pkt.id}
      BY <2>2, <3>1 DEF RxHandle, RxNext
    <3>6. pkt.id \in Announced
      BY <3>4, <3>5 DEF WellNumbered
    <3>7. rxParams = {}
      BY <2>1 DEF OnePerPass
    <3>. QED  BY <3>5, <3>6, <3>7
  <2>. QED  BY <1>1, <2>1, <2>2 DEF ListsInv
<1>3. CASE RxUpdataRemoteFuncList
  <2>1. rxPc = "update" /\ rxPc' = "pick"
    BY <1>3 DEF RxUpdataRemoteFuncList, RxNext
  <2>2. remote' \in Seq(ListEntry)
    <3>. DEFINE idx == FindIndexByPortName(rxSock)
    <3>1. remote' = IF idx = 0 THEN remote ELSE [remote EXCEPT ![idx].funcs = rxParams]
      BY <1>3 DEF RxUpdataRemoteFuncList, UpdataRemoteFuncList
    <3>2. idx \in 0 .. Len(remote) /\ Len(remote) \in Nat
      BY FindIndexInRegistry, LengthsTyped
    <3>. HIDE DEF idx
    <3>3. CASE idx = 0
      BY <3>1, <3>3 DEF ListsInv
    <3>4. CASE idx # 0
      <4>1. idx \in 1 .. Len(remote)
        BY <3>2, <3>4
      <4>2. rxParams \in SUBSET Announced
        BY <2>1 DEF ListsInv
      <4>. QED  BY <3>1, <3>4, <4>1, <4>2, ListReplaced DEF ListsInv
    <3>. QED  BY <3>3, <3>4
  <2>. QED  BY <1>1, <2>1, <2>2 DEF ListsInv
<1>4. CASE ~RxPop /\ ~RxUpdataRemoteFuncList
  <2>1. UNCHANGED remote /\ (rxPc' = "update" => UNCHANGED <<rxPc, rxParams>>)
    BY <1>4 DEF ParamThreadRecvProc, RxPick, RxFind, RxReplyFind, RxPushPacketDataSend,
       RxFindThen, RxNext, registry, rx
  <2>. QED  BY <1>1, <2>1 DEF ListsInv
<1>. QED  BY <1>2, <1>3, <1>4

LEMMA ListsSendProc ==
  ASSUME TypeInv, ListsInv, ParamThreadSendProc PROVE ListsInv'
<1>. NetTypeOK
  BY DEF TypeInv
<1>1. UNCHANGED <<remote, rxPc, rxParams>>
  BY DEF ParamThreadSendProc, TxPick, TxFind, TxPop, TxSendToClient, registry, rx
<1>2. ASSUME NEW s \in Sockets PROVE ListPacket(s) \in WellNumbered
  <2>1. <<s, 0>> \in Announced
    BY CommAssumption DEF Announced, Id
  <2>. QED  BY <2>1 DEF ListPacket, WellNumbered, Packet, Announced
<1>3. Incoming(WellNumbered)'
  BY <1>2, IncomingSendProc DEF ListsInv
<1>. QED  BY <1>1, <1>3 DEF ListsInv

(* A server with one client: the function list UpdataRemoteFuncList stores, and
   that AddSocketSource copies, is the one the client announced, with no
   parameter of a request among it.                                        *)
THEOREM ListIsAnnounced ==
  ASSUME \A s, t \in Sockets : s = t PROVE Spec => []FunListIsAnnounced
<1>. DEFINE Inv == TypeInv /\ NotStarted /\ EntriesOnce /\ OutputsInv /\ ListsInv
<1>1. Init => Inv
  <2>. SUFFICES ASSUME Init PROVE OutputsInv /\ ListsInv
    BY InitTypeInv, InitLengths, InitEntriesOnce
  <2>1. <<>> \in Seq(ListEntry)
    BY EmptySeq
  <2>2. ListsInv
    BY <2>1, InitIncoming DEF Init, ListsInv
  <2>. QED  BY <2>2, InitOutputs
<1>2. Inv /\ [Next]_vars => Inv'
  <2>. SUFFICES ASSUME Inv, [Next]_vars PROVE OutputsInv' /\ ListsInv'
    BY NextTypeInv, NextNotStarted, NextEntriesOnce
  <2>1. OnePerPass
    BY DEF OutputsInv
  <2>2. CASE UNCHANGED vars
    <3>1. ListsInv'
      BY <2>2 DEF vars, net, registry, cli, rx, ListsInv, Incoming
    <3>. QED  BY <3>1, NextOutputs
  <2>. QED  BY <2>1, <2>2, NextOutputs, ListsClientSends, ListsClients, ListsAccept,
            ListsRecvProc, ListsSendProc DEF Next, Halted
<1>3. Inv => FunListIsAnnounced
  <2>. SUFFICES ASSUME Inv, NEW i \in 1 .. Len(remote), NEW id \in remote[i].funcs
                PROVE  id = <<remote[i].sock, 0>>
    BY DEF FunListIsAnnounced
  <2>1. remote[i] \in ListEntry
    BY ElementOfSeq DEF ListsInv
  <2>2. id \in Sockets \X (0 .. MaxRequests) /\ id[2] = 0 /\ remote[i].sock \in Sockets
    BY <2>1 DEF ListEntry, Announced, Id
  <2>3. id[1] = remote[i].sock
    BY <2>2
  <2>. QED  BY <2>2, <2>3
<1>. QED  BY <1>1, <1>2, <1>3, PTL DEF Spec
-----------------------------------------------------------------------------
(***************************************************************************)
(* The promise to the clients, OrderedService.  First what pushing and     *)
(* popping do to the packets in a family of queues.                        *)
(***************************************************************************)
LEMMA AppendedRange ==
  ASSUME NEW S, NEW q \in Seq(S), NEW x \in S PROVE Range(Append(q, x)) = Range(q) \cup {x}
<1>. DEFINE R == S \X S
<1>1. Sorted(q, R) /\ \A y \in Range(q) : <<y, x>> \in R
  BY RangeOfQueue DEF Sorted
<1>. HIDE DEF R
<1>. QED  BY <1>1, AppendSorted

LEMMA TailRange ==
  ASSUME NEW S, NEW q \in Seq(S), q # <<>>
  PROVE  Range(q) = Range(Tail(q)) \cup {Head(q)} /\ Tail(q) \in Seq(S) /\ Head(q) \in S
<1>1. /\ Tail(q) \in Seq(S) /\ Len(Tail(q)) = Len(q) - 1 /\ Head(q) = q[1] /\ Head(q) \in S
      /\ \A i \in 1 .. Len(Tail(q)) : Tail(q)[i] = q[i + 1]
  BY HeadTailProperties
<1>2. Len(q) \in Nat \ {0} /\ DOMAIN q = 1 .. Len(q) /\ DOMAIN Tail(q) = 1 .. Len(q) - 1
  BY <1>1, LenProperties, EmptySeq
<1>3. ASSUME NEW x \in Range(q) PROVE x \in Range(Tail(q)) \cup {Head(q)}
  <2>1. PICK i \in 1 .. Len(q) : x = q[i]
    BY <1>2 DEF Range
  <2>2. CASE i = 1
    BY <1>1, <2>1, <2>2
  <2>3. CASE i # 1
    <3>1. i - 1 \in DOMAIN Tail(q) /\ i - 1 + 1 = i
      BY <1>2, <2>3
    <3>2. x = Tail(q)[i - 1]
      BY <1>1, <1>2, <2>1, <3>1
    <3>. QED  BY <3>1, <3>2 DEF Range
  <2>. QED  BY <2>2, <2>3
<1>4. ASSUME NEW x \in Range(Tail(q)) PROVE x \in Range(q)
  <2>1. PICK i \in DOMAIN Tail(q) : x = Tail(q)[i]
    BY DEF Range
  <2>2. i + 1 \in DOMAIN q /\ x = q[i + 1]
    BY <1>1, <1>2, <2>1
  <2>. QED  BY <2>2 DEF Range
<1>5. Head(q) \in Range(q)
  BY <1>1, <1>2 DEF Range
<1>. QED  BY <1>1, <1>3, <1>4, <1>5

LEMMA PacketsChanged ==
  ASSUME NEW f, NEW g, NEW i, Except(f, g, i)
  PROVE  /\ PacketsIn(g) \subseteq PacketsIn(f) \cup Range(g[i])
         /\ PacketsIn(f) \subseteq PacketsIn(g) \cup Range(f[i])
         /\ Range(f[i]) \subseteq PacketsIn(f) /\ Range(g[i]) \subseteq PacketsIn(g)
BY DEF PacketsIn, Except

LEMMA PacketsAppended ==
  ASSUME NEW f, NEW g, NEW i, Except(f, g, i), f[i] \in Seq(Packet), NEW x \in Packet,
         g[i] = Append(f[i], x)
  PROVE  PacketsIn(g) = PacketsIn(f) \cup {x}
<1>1. Range(g[i]) = Range(f[i]) \cup {x}
  BY AppendedRange
<1>. QED  BY <1>1, PacketsChanged

LEMMA PacketsPopped ==
  ASSUME NEW f, NEW g, NEW i, Except(f, g, i), f[i] \in Seq(Packet), f[i] # <<>>,
         g[i] = Tail(f[i])
  PROVE  /\ PacketsIn(f) = PacketsIn(g) \cup {Head(f[i])}
         /\ Head(f[i]) \in Packet
<1>1. Range(f[i]) = Range(g[i]) \cup {Head(f[i])} /\ Head(f[i]) \in Packet
  BY TailRange
<1>. QED  BY <1>1, PacketsChanged

(* A queue that is full loses its first packet, and no other.              *)
LEMMA PacketsPushed ==
  ASSUME NEW f, NEW g, NEW i, Except(f, g, i), f[i] \in Seq(Packet), NEW x \in Packet,
         g[i] = PushDropOldest(f[i], x, MAX_PACKETDATA_NUM)
  PROVE  \/ PacketsIn(g) = PacketsIn(f) \cup {x}
         \/ /\ f[i] # <<>> /\ Head(f[i]) \in PacketsIn(f)
            /\ PacketsIn(g) \cup {Head(f[i])} = PacketsIn(f) \cup {x}
            /\ x \in PacketsIn(g)
<1>1. CASE Len(f[i]) >= MAX_PACKETDATA_NUM
  <2>1. f[i] # <<>>
    BY <1>1, CommAssumption
  <2>2. Range(f[i]) = Range(Tail(f[i])) \cup {Head(f[i])} /\ Tail(f[i]) \in Seq(Packet)
    BY <2>1, TailRange
  <2>. DEFINE t == Tail(f[i])
  <2>3. t \in Seq(Packet) /\ g[i] = Append(t, x)
    BY <1>1, <2>2 DEF PushDropOldest
  <2>. HIDE DEF t
  <2>4. Range(g[i]) = Range(t) \cup {x}
    BY <2>3, AppendedRange
  <2>. QED  BY <2>1, <2>2, <2>4, PacketsChanged DEF t
<1>2. CASE ~(Len(f[i]) >= MAX_PACKETDATA_NUM)
  <2>1. g[i] = Append(f[i], x)
    BY <1>2 DEF PushDropOldest
  <2>. QED  BY <2>1, PacketsAppended
<1>. QED  BY <1>1, <1>2

(* A new entry has an empty queue.                                         *)
LEMMA PacketsAdded ==
  ASSUME NEW f \in Seq(Seq(Packet)) PROVE PacketsIn(Append(f, <<>>)) = PacketsIn(f)
<1>. DEFINE g == Append(f, <<>>)
<1>1. <<>> \in Seq(Packet) /\ Len(f) \in Nat /\ DOMAIN f = 1 .. Len(f)
  BY EmptySeq, LenProperties
<1>2. /\ g \in Seq(Seq(Packet)) /\ Len(g) = Len(f) + 1 /\ g[Len(f) + 1] = <<>>
      /\ \A j \in 1 .. Len(f) : g[j] = f[j]
  BY <1>1, AppendProperties
<1>3. DOMAIN g = 1 .. Len(f) + 1 /\ Range(<<>>) = {}
  BY <1>2, LenProperties, EmptySorted
<1>. HIDE DEF g
<1>4. ASSUME NEW p \in PacketsIn(g) PROVE p \in PacketsIn(f)
  <2>1. PICK j \in DOMAIN g : p \in Range(g[j])
    BY DEF PacketsIn
  <2>2. j \in DOMAIN f /\ g[j] = f[j]
    BY <1>1, <1>2, <1>3, <2>1, SMTT(30)
  <2>. QED  BY <2>1, <2>2 DEF PacketsIn
<1>5. ASSUME NEW p \in PacketsIn(f) PROVE p \in PacketsIn(g)
  <2>1. PICK j \in DOMAIN f : p \in Range(f[j])
    BY DEF PacketsIn
  <2>2. j \in DOMAIN g /\ g[j] = f[j]
    BY <1>1, <1>2, <1>3, <2>1
  <2>. QED  BY <2>1, <2>2 DEF PacketsIn
<1>. QED  BY <1>4, <1>5 DEF g

LEMMA MeaningProperties ==
  /\ \A A, B : A \subseteq B => MeaningOf(A) \subseteq MeaningOf(B)
  /\ \A A, B : MeaningOf(A \cup B) = MeaningOf(A) \cup MeaningOf(B)
  /\ \A p : MeaningOf({p}) =
       IF p.kind \notin {"ask", "none"} THEN {Meaning(p)} ELSE {}
  /\ \A A : \A x \in MeaningOf(A) : \E p \in A :
       p.kind \notin {"ask", "none"} /\ x = Meaning(p)
  /\ MeaningOf({NoPacket}) = {}
BY DEF MeaningOf, NoPacket
-----------------------------------------------------------------------------
(***************************************************************************)
(* While nobody leaves, an entry stays: whoever has one is found.          *)
(***************************************************************************)
HasEntry(s) == \E i \in 1 .. Len(remote) : remote[i].sock = s

Registered ==
  /\ \A i \in 1 .. Len(remote) : remote[i].sock \in open
  /\ \A s \in Sockets : cliPc[s] # "none" => HasEntry(s)
  /\ rxPc # "pick" => HasEntry(rxSock)
  /\ txPc # "pick" => HasEntry(txSock)
  /\ accPc \notin {"accept", "pushSocket"} =>
       remote # <<>> /\ remote[Len(remote)].sock = accSock

LEMMA EntryFound ==
  ASSUME RegistryTypeOK, Registered, NEW s \in Sockets, HasEntry(s)
  PROVE  s \in open /\ FindIndexByPortName(s) # 0
<1>. DEFINE match == {i \in 1 .. Len(remote) : IsSameSocket(s, remote[i].sock)}
<1>1. Len(remote) \in Nat
  BY DEF RegistryTypeOK
<1>2. PICK i \in 1 .. Len(remote) : remote[i].sock = s
  BY DEF HasEntry
<1>3. s \in open /\ i \in match
  BY <1>2 DEF Registered, IsSameSocket
<1>4. match \in SUBSET Nat /\ match # {}
  BY <1>1, <1>3
<1>5. PICK k \in match : \A j \in match : k <= j
  BY <1>4, LeastNatural
<1>6. FindIndexByPortName(s) = CHOOSE n \in match : \A j \in match : n <= j
  BY <1>4 DEF FindIndexByPortName
<1>7. FindIndexByPortName(s) \in match
  BY <1>5, <1>6
<1>8. \A n \in match : n # 0
  BY <1>1
<1>. QED  BY <1>3, <1>7, <1>8

(* The entries stay, and no thread works for a socket without one.         *)
LEMMA RegisteredKept ==
  ASSUME TypeInv, Registered, SameSockets, open \subseteq open', remote' # <<>> \/ remote = <<>>,
         \A s \in Sockets : cliPc'[s] # "none" => cliPc[s] # "none" \/ HasEntry(s),
         rxPc' # "pick" => HasEntry(rxSock'),
         txPc' # "pick" => HasEntry(txSock'),
         accPc' \notin {"accept", "pushSocket"} =>
           accPc \notin {"accept", "pushSocket"} /\ UNCHANGED accSock
  PROVE  Registered'
<1>1. \A s : HasEntry(s) => HasEntry(s)'
  BY DEF HasEntry, SameSockets
<1>2. \A i \in 1 .. Len(remote') : remote'[i].sock \in open'
  BY DEF Registered, SameSockets
<1>3. \A s \in Sockets : cliPc'[s] # "none" => HasEntry(s)'
  BY <1>1 DEF Registered
<1>4. (rxPc' # "pick" => HasEntry(rxSock)') /\ (txPc' # "pick" => HasEntry(txSock)')
  BY DEF HasEntry, SameSockets
<1>5. ASSUME accPc' \notin {"accept", "pushSocket"}
      PROVE  remote' # <<>> /\ remote'[Len(remote')].sock = accSock'
  <2>1. remote # <<>> /\ remote[Len(remote)].sock = accSock /\ UNCHANGED accSock
    BY <1>5 DEF Registered
  <2>2. Len(remote) \in 1 .. Len(remote)
    BY <2>1, EmptySeq, LenProperties DEF TypeInv, RegistryTypeOK
  <2>. QED  BY <2>1, <2>2 DEF SameSockets
<1>. QED  BY <1>2, <1>3, <1>4, <1>5 DEF Registered

LEMMA RegisteredAcceptThread ==
  ASSUME OwnInv, NotStarted, EntriesOnce, Registered, AcceptThread PROVE Registered'
<1>. TypeInv /\ RegistryTypeOK /\ AcceptInv /\ ClientTypeOK
  BY DEF OwnInv, TypeInv, ClientInv
<1>0. UNCHANGED <<open, rxPc, rxSock, txPc, txSock>>
  BY DEF AcceptThread, AddPushSocket, AddPushLockRecv, AddPushLockSend, AddPushRecvQ,
         AddPushSendQ, AddAskFunList, AddEndWait, StartProcessClient, net, rx, tx
<1>1. CASE AddPushSocket
  <2>. DEFINE e == [sock |-> accSock, funcs |-> {}]
              n == Len(remote)
  <2>1. accSock \in Sockets /\ accSock \in open /\ remote \in Seq(Entry) /\ n \in Nat
    BY <1>1, LenProperties DEF AddPushSocket, AcceptInv, EntriesOnce, RegistryTypeOK, Entry
  <2>2. e \in Entry /\ remote' = Append(remote, e) /\ UNCHANGED <<cliPc, accSock>>
    BY <1>1, <2>1 DEF AddPushSocket, Entry, GotoAcc, cli
  <2>3. e.sock = accSock
    OBVIOUS
  <2>. HIDE DEF e
  <2>4. /\ remote' \in Seq(Entry) /\ Len(remote') = n + 1 /\ remote'[n + 1] = e
        /\ \A i \in 1 .. n : remote'[i] = remote[i]
    BY <2>1, <2>2, AppendProperties
  <2>5. remote' # <<>>
    BY <2>1, <2>4, EmptySeq
  <2>. HIDE DEF n
  <2>6. \A i \in 1 .. n + 1 : i = n + 1 \/ i \in 1 .. n
    BY <2>1 DEF n
  <2>7. \A i \in 1 .. n : i \in 1 .. n + 1
    BY <2>1
  <2>8. \A s : HasEntry(s) => HasEntry(s)'
    BY <2>4, <2>7 DEF HasEntry, n
  <2>9. \A i \in 1 .. Len(remote') : remote'[i].sock \in open'
    BY <1>0, <2>1, <2>3, <2>4, <2>6 DEF Registered, n
  <2>10. remote'[Len(remote')].sock = accSock'
    BY <2>2, <2>3, <2>4
  <2>11. /\ \A s \in Sockets : cliPc'[s] # "none" => HasEntry(s)'
         /\ (rxPc' # "pick" => HasEntry(rxSock)') /\ (txPc' # "pick" => HasEntry(txSock)')
    BY <1>0, <2>2, <2>8 DEF Registered, HasEntry
  <2>. QED  BY <2>5, <2>9, <2>10, <2>11 DEF Registered
<1>2. CASE ~AddPushSocket
  <2>1. SameSockets /\ (remote' # <<>> \/ remote = <<>>)
    <3>1. CASE UNCHANGED remote
      BY <3>1, SameSocketsWhen
    <3>2. CASE ~UNCHANGED remote
      <4>1. AddEndWait
        BY <1>2, <3>2 DEF AcceptThread, AddPushLockRecv, AddPushLockSend, AddPushRecvQ,
           AddPushSendQ, AddAskFunList, StartProcessClient, registry
      <4>2. PICK i \in 1 .. Len(remote), fs \in SUBSET Id : remote' = [remote EXCEPT ![i].funcs = fs]
        BY <3>2, <4>1, EndWaitList
      <4>3. SameSockets
        BY <4>2, SameSocketsWhen
      <4>4. remote' # <<>>
        <5>1. Len(remote') # 0
          BY <4>2, <4>3, LenProperties DEF SameSockets, RegistryTypeOK
        <5>. QED  BY <5>1, EmptySeq
      <4>. QED  BY <4>3, <4>4
    <3>. QED  BY <3>1, <3>2
  <2>2. /\ accPc # "pushSocket"
        /\ accPc' \notin {"accept", "pushSocket"} =>
             accPc \notin {"accept", "pushSocket"} /\ UNCHANGED accSock
    BY <1>2 DEF AcceptThread, AddPushLockRecv, AddPushLockSend, AddPushRecvQ,
       AddPushSendQ, AddAskFunList, AddEndWait, StartProcessClient, GotoAcc, acc
  <2>3. \A s \in Sockets : cliPc'[s] # "none" => cliPc[s] # "none" \/ HasEntry(s)
    <3>1. CASE UNCHANGED cliPc
      BY <3>1
    <3>2. CASE ~UNCHANGED cliPc
      <4>1. accPc = "start" /\ cliPc' = [cliPc EXCEPT ![accSock] = "recv"]
        BY <1>2, <3>2 DEF AcceptThread, AddPushLockRecv, AddPushLockSend, AddPushRecvQ,
           AddPushSendQ, AddAskFunList, AddEndWait, StartProcessClient, GotoCli, cli
      <4>2. Len(remote) \in 1 .. Len(remote) /\ remote[Len(remote)].sock = accSock
        BY <4>1, EmptySeq, LenProperties DEF Registered, RegistryTypeOK
      <4>3. HasEntry(accSock)
        BY <4>2 DEF HasEntry
      <4>. QED  BY <4>1, <4>3 DEF ClientTypeOK
    <3>. QED  BY <3>1, <3>2
  <2>4. (rxPc' # "pick" => HasEntry(rxSock')) /\ (txPc' # "pick" => HasEntry(txSock'))
    BY <1>0 DEF Registered
  <2>. QED  BY <1>0, <2>1, <2>2, <2>3, <2>4, RegisteredKept
<1>. QED  BY <1>1, <1>2

LEMMA RegisteredProcessClient ==
  ASSUME OwnInv, Registered, NEW s \in Sockets, ProcessClient(s) PROVE Registered'
<1>. TypeInv /\ RegistryTypeOK /\ ClientTypeOK
  BY DEF OwnInv, TypeInv, ClientInv
<1>1. cliPc[s] \in {"recv", "find", "push"} /\ ~fin[s]
  BY DEF OwnInv, NobodyLeaves, ProcessClient, Recv, PushRecvFind, PushPacketDataRecv,
         Disconnect, DelFind, DelSocket, DelRecvQ, DelSendQ, DelLockRecv, DelLockSend, CloseSocket
<1>2. Recv(s) \/ PushRecvFind(s) \/ PushPacketDataRecv(s)
  BY <1>1 DEF ProcessClient, Disconnect, DelFind, DelSocket, DelRecvQ, DelSendQ, DelLockRecv, DelLockSend, CloseSocket
<1>3. UNCHANGED <<remote, open, acc, rx, tx>>
  BY <1>2 DEF Recv, PushRecvFind, PushPacketDataRecv, registry, net
<1>4. UNCHANGED cliPc \/ \E pc \in {"recv", "find", "push"} : cliPc' = [cliPc EXCEPT ![s] = pc]
  BY <1>2 DEF Recv, PushRecvFind, PushPacketDataRecv, BackToRecv, cli
<1>5. \A t \in Sockets : cliPc'[t] # "none" => cliPc[t] # "none"
  BY <1>1, <1>4 DEF ClientTypeOK
<1>6. SameSockets
  BY <1>3, SameSocketsWhen
<1>7. /\ rxPc' # "pick" => HasEntry(rxSock')
      /\ txPc' # "pick" => HasEntry(txSock')
  BY <1>3 DEF Registered, rx, tx
<1>. QED  BY <1>3, <1>5, <1>6, <1>7, RegisteredKept DEF acc

LEMMA RegisteredWorkers ==
  ASSUME OwnInv, Registered, ParamThreadRecvProc \/ ParamThreadSendProc PROVE Registered'
<1>. TypeInv /\ RegistryTypeOK /\ RxTypeOK /\ TxTypeOK
  BY DEF OwnInv, TypeInv, RxInv, TxInv
<1>1. UNCHANGED <<open, acc, cliPc>>
  BY DEF ParamThreadRecvProc, RxPick, RxFind, RxPop, RxUpdataRemoteFuncList, RxReplyFind,
         RxPushPacketDataSend, ParamThreadSendProc, TxPick, TxFind, TxPop, TxSendToClient, net, cli
<1>2. SameSockets /\ (remote' # <<>> \/ remote = <<>>)
  <2>1. CASE UNCHANGED remote
    BY <2>1, SameSocketsWhen
  <2>2. CASE ~UNCHANGED remote
    <3>. DEFINE i == FindIndexByPortName(rxSock)
    <3>1. i # 0 /\ remote' = [remote EXCEPT ![i].funcs = rxParams]
      BY <2>2 DEF ParamThreadRecvProc, RxPick, RxFind, RxPop, RxReplyFind, RxPushPacketDataSend,
         RxUpdataRemoteFuncList, UpdataRemoteFuncList,
         ParamThreadSendProc, TxPick, TxFind, TxPop, TxSendToClient, registry
    <3>2. i \in 1 .. Len(remote)
      BY <3>1, FindIndexInRegistry, LenProperties DEF RegistryTypeOK
    <3>. HIDE DEF i
    <3>3. \E j \in 1 .. Len(remote) : remote' = [remote EXCEPT ![j].funcs = rxParams]
      BY <3>1, <3>2
    <3>4. \E fs : \E j \in 1 .. Len(remote) : remote' = [remote EXCEPT ![j].funcs = fs]
      BY <3>3, Zenon
    <3>5. SameSockets
      BY <3>4, SameSocketsWhen
    <3>6. Len(remote') # 0
      BY <3>2, <3>5, LenProperties DEF SameSockets, RegistryTypeOK
    <3>. QED  BY <3>5, <3>6, EmptySeq
  <2>. QED  BY <2>1, <2>2
<1>3. \A i \in Nat : i < Len(remote) => HasEntry(remote[i + 1].sock)
  <2>1. \A i \in Nat : i < Len(remote) => i + 1 \in 1 .. Len(remote)
    BY LenProperties DEF RegistryTypeOK
  <2>. QED  BY <2>1 DEF HasEntry
<1>4. rxPc' # "pick" => HasEntry(rxSock')
  <2>1. CASE UNCHANGED <<rxPc, rxSock>>
    BY <2>1 DEF Registered
  <2>2. CASE RxPick
    BY <1>3, <2>2 DEF RxPick, RxMore, RxNewPass, RxTypeOK
  <2>3. CASE RxFind \/ RxReplyFind
    BY <2>3 DEF RxFind, RxReplyFind, RxFindThen, RxNext, Registered
  <2>4. CASE RxPop
    BY <2>4 DEF RxPop, RxHandle, RxNext, Registered, rx
  <2>5. CASE RxUpdataRemoteFuncList \/ RxPushPacketDataSend
    BY <2>5 DEF RxUpdataRemoteFuncList, RxPushPacketDataSend, RxNext, Registered, rx
  <2>6. CASE ParamThreadSendProc
    BY <2>1, <2>6 DEF ParamThreadSendProc, TxPick, TxFind, TxPop, TxSendToClient, rx
  <2>. QED  BY <2>2, <2>3, <2>4, <2>5, <2>6 DEF ParamThreadRecvProc
<1>5. txPc' # "pick" => HasEntry(txSock')
  <2>1. CASE UNCHANGED <<txPc, txSock>>
    BY <2>1 DEF Registered
  <2>2. CASE TxPick
    BY <1>3, <2>2 DEF TxPick, TxTypeOK, Registered
  <2>3. CASE TxFind \/ TxPop \/ TxSendToClient
    BY <2>3 DEF TxFind, TxPop, TxSendToClient, TxNext, Registered, tx
  <2>4. CASE ParamThreadRecvProc
    BY <2>1, <2>4 DEF ParamThreadRecvProc, RxPick, RxFind, RxPop, RxUpdataRemoteFuncList,
       RxReplyFind, RxPushPacketDataSend, tx
  <2>. QED  BY <2>2, <2>3, <2>4 DEF ParamThreadSendProc
<1>. QED  BY <1>1, <1>2, <1>4, <1>5, RegisteredKept DEF acc

LEMMA NextRegistered ==
  ASSUME OwnInv, NotStarted, EntriesOnce, Registered, [Next]_vars PROVE Registered'
<1>. TypeInv /\ RegistryTypeOK
  BY DEF OwnInv, TypeInv
<1>1. ASSUME NEW s \in Sockets, Client(s) \/ Accept(s) PROVE Registered'
  <2>1. UNCHANGED <<remote, cliPc, rx, tx>> /\ open \subseteq open'
    BY <1>1 DEF Client, ClientSend, ClientClose, Accept, registry, cli
  <2>2. accPc' \notin {"accept", "pushSocket"} =>
          accPc \notin {"accept", "pushSocket"} /\ UNCHANGED accSock
    BY <1>1 DEF Client, ClientSend, ClientClose, Accept, acc
  <2>3. SameSockets
    BY <2>1, SameSocketsWhen
  <2>4. (rxPc' # "pick" => HasEntry(rxSock')) /\ (txPc' # "pick" => HasEntry(txSock'))
    BY <2>1 DEF Registered, rx, tx
  <2>. QED  BY <2>1, <2>2, <2>3, <2>4, RegisteredKept
<1>2. CASE UNCHANGED vars
  <2>1. UNCHANGED <<remote, open, accPc, accSock, cliPc, rxPc, rxSock, txPc, txSock>>
    BY <1>2 DEF vars, net, registry, acc, cli, rx, tx
  <2>. QED  BY <2>1 DEF Registered, HasEntry
<1>. QED  BY <1>1, <1>2, RegisteredAcceptThread, RegisteredProcessClient, RegisteredWorkers
          DEF Next, Halted

LEMMA InitRegistered == ASSUME Init PROVE Registered
<1>1. Len(<<>>) = 0
  OBVIOUS
<1>. QED  BY <1>1 DEF Init, Registered
-----------------------------------------------------------------------------
(***************************************************************************)
(* What clients send and what the server sends never share a queue, and a  *)
(* client whose thread has not started has nothing beyond the wire.        *)
(***************************************************************************)
Asking == {"req", "unknown", "list"}
Answering == {"ask", "reply"}

Sides ==
  /\ \A p \in PacketsIn(wire) \cup PacketsIn(recvQ) : p.kind \in Asking
  /\ \A p \in PacketsIn(sendQ) : p.kind \in Answering
  /\ \A s \in Sockets : IF cliPc[s] \in {"find", "push"}
                         THEN cliPkt[s].kind \in Asking ELSE cliPkt[s] = NoPacket
  /\ IF rxPc \in {"replyFind", "replyPush"} THEN rxPkt.kind = "reply" ELSE rxPkt = NoPacket
  /\ IF txPc = "send" THEN txPkt.kind \in Answering ELSE txPkt = NoPacket

Quiet ==
  \A p \in InHand \cup PacketsIn(recvQ) \cup PacketsIn(sendQ) :
    Call(p) => cliPc[p.id[1]] # "none"

ServeInv ==
  /\ OwnInv /\ HeldOwn /\ NotStarted /\ EntriesOnce /\ Ordered(Later)
  /\ Registered /\ Sides /\ Quiet

Answers == [s \in Sockets |-> AnsweredTo(s)]

(* A step of the promised service, or none. *)
Promised == Service!Next \/ UNCHANGED <<issued, MeaningOf(WithServer), Answers>>

LEMMA FlightTyped ==
  ASSUME TypeInv
  PROVE  /\ PacketsIn(wire) \subseteq Packet /\ PacketsIn(recvQ) \subseteq Packet
         /\ PacketsIn(sendQ) \subseteq Packet /\ InHand \subseteq AnyPacket
         /\ \A p \in AnyPacket : Call(p) => p \in Packet
         /\ \A p \in AnyPacket : p.kind # "none" => p \in Packet
         /\ \A p \in Packet : p.id \in Id /\ p.id[1] \in Sockets /\ p.id[2] \in Nat
<1>1. /\ wire \in [Sockets -> Seq(Packet)] /\ recvQ \in Seq(Seq(Packet))
      /\ sendQ \in Seq(Seq(Packet)) /\ cliPkt \in [Sockets -> AnyPacket]
      /\ rxPkt \in AnyPacket /\ txPkt \in AnyPacket
  BY PacketsTyped
<1>2. ASSUME NEW f \in Seq(Seq(Packet)) PROVE PacketsIn(f) \subseteq Packet
  <2>1. DOMAIN f = 1 .. Len(f) /\ \A i \in 1 .. Len(f) : f[i] \in Seq(Packet)
    BY LenProperties, ElementOfSeq
  <2>2. \A i \in DOMAIN f : Range(f[i]) \subseteq Packet
    BY <2>1, RangeOfQueue
  <2>. QED  BY <2>2 DEF PacketsIn
<1>3. PacketsIn(wire) \subseteq Packet
  <2>1. \A s \in DOMAIN wire : Range(wire[s]) \subseteq Packet
    BY <1>1, RangeOfQueue
  <2>. QED  BY <2>1 DEF PacketsIn
<1>4. InHand \subseteq AnyPacket
  BY <1>1 DEF InHand
<1>5. \A p \in AnyPacket : p.kind # "none" => p \in Packet
  BY DEF AnyPacket, NoPacket
<1>6. \A p \in AnyPacket : Call(p) => p \in Packet
  BY DEF AnyPacket, NoPacket, Call
<1>7. \A p \in Packet : p.id \in Id /\ p.id[1] \in Sockets /\ p.id[2] \in Nat
  <2>1. \A p \in Packet : p.id \in Id
    BY DEF Packet
  <2>2. \A id \in Id : id[1] \in Sockets /\ id[2] \in Nat
    BY CommAssumption DEF Id
  <2>. QED  BY <2>1, <2>2
<1>. QED  BY <1>1, <1>2, <1>3, <1>4, <1>5, <1>6, <1>7

LEMMA HandOfClient ==
  ASSUME cliPkt \in [Sockets -> AnyPacket], NEW s \in Sockets, NEW y,
         cliPkt' = [cliPkt EXCEPT ![s] = y], UNCHANGED <<rxPkt, txPkt>>
  PROVE  /\ InHand' \subseteq InHand \cup {y} /\ y \in InHand'
         /\ InHand \subseteq InHand' \cup {cliPkt[s]} /\ cliPkt[s] \in InHand
BY DEF InHand

LEMMA SameAnswers == ASSUME UNCHANGED sent PROVE UNCHANGED Answers
BY DEF Answers, AnsweredTo

(* But for what means nothing, the packets with the server stay the same.  *)
LEMMA NothingServed ==
  ASSUME UNCHANGED <<issued, sent>>, NEW D, \A p \in D : p.kind \in {"ask", "none"},
         WithServer' \subseteq WithServer \cup D, WithServer \subseteq WithServer' \cup D
  PROVE  Promised
<1>1. ASSUME NEW A, NEW B, A \subseteq B \cup D PROVE MeaningOf(A) \subseteq MeaningOf(B)
  BY <1>1 DEF MeaningOf
<1>2. MeaningOf(WithServer') = MeaningOf(WithServer)
  <2>. DEFINE A == WithServer
              B == WithServer'
  <2>1. A \subseteq B \cup D /\ B \subseteq A \cup D
    OBVIOUS
  <2>. HIDE DEF A, B
  <2>2. MeaningOf(A) \subseteq MeaningOf(B)
    BY <1>1, <2>1
  <2>3. MeaningOf(B) \subseteq MeaningOf(A)
    BY <1>1, <2>1
  <2>. QED  BY <2>2, <2>3 DEF A, B
<1>. QED  BY <1>2, SameAnswers DEF Promised, MeaningOf

LEMMA PacketsKept ==
  ASSUME UNCHANGED <<issued, sent>>,
         WithServer' \subseteq WithServer \cup {NoPacket},
         WithServer \subseteq WithServer' \cup {NoPacket}
  PROVE  Promised
<1>. DEFINE D == {NoPacket}
<1>1. \A p \in D : p.kind \in {"ask", "none"}
  BY DEF NoPacket
<1>2. WithServer' \subseteq WithServer \cup D /\ WithServer \subseteq WithServer' \cup D
  OBVIOUS
<1>. HIDE DEF D
<1>. QED  BY <1>1, <1>2, NothingServed

(* One of them goes.                                                       *)
LEMMA OneGone ==
  ASSUME NEW h, h \in WithServer, h.kind \notin {"ask", "none"},
         WithServer' \subseteq WithServer \cup {NoPacket},
         WithServer \subseteq WithServer' \cup {NoPacket, h}
  PROVE  /\ Meaning(h) \in MeaningOf(WithServer)
         /\ \/ MeaningOf(WithServer') = MeaningOf(WithServer)
            \/ MeaningOf(WithServer') = MeaningOf(WithServer) \ {Meaning(h)}
<1>. DEFINE A == WithServer
            B == WithServer'
            x == Meaning(h)
<1>1. MeaningOf({h}) = {x} /\ MeaningOf({NoPacket}) = {}
  BY MeaningProperties
<1>2. A \subseteq B \cup ({NoPacket} \cup {h}) /\ B \subseteq A \cup {NoPacket} /\ {h} \subseteq A
  OBVIOUS
<1>. HIDE DEF A, B, x
<1>3. MeaningOf(A) \subseteq MeaningOf(B \cup ({NoPacket} \cup {h}))
  BY <1>2, MeaningProperties
<1>4. MeaningOf(A) \subseteq MeaningOf(B) \cup {x}
  <2>1. MeaningOf(B \cup ({NoPacket} \cup {h})) = MeaningOf(B) \cup MeaningOf({NoPacket} \cup {h})
    BY MeaningProperties
  <2>2. MeaningOf({NoPacket} \cup {h}) = MeaningOf({NoPacket}) \cup MeaningOf({h})
    BY MeaningProperties
  <2>. QED  BY <1>1, <1>3, <2>1, <2>2
<1>5. MeaningOf(B) \subseteq MeaningOf(A \cup {NoPacket})
  BY <1>2, MeaningProperties
<1>6. MeaningOf(B) \subseteq MeaningOf(A)
  <2>1. MeaningOf(A \cup {NoPacket}) = MeaningOf(A) \cup MeaningOf({NoPacket})
    BY MeaningProperties
  <2>. QED  BY <1>1, <1>5, <2>1
<1>7. x \in MeaningOf(A)
  BY <1>1, <1>2, MeaningProperties
<1>8. x \in MeaningOf(A) /\ (MeaningOf(B) = MeaningOf(A) \/ MeaningOf(B) = MeaningOf(A) \ {x})
  BY <1>4, <1>6, <1>7
<1>. QED  BY <1>8 DEF A, B, x

(* A full queue drops h when x of the same client is pushed.               *)
LEMMA Displaced ==
  ASSUME UNCHANGED <<issued, sent>>, NEW h \in WithServer, NEW x, x \in WithServer',
         WithServer' \subseteq WithServer \cup {NoPacket},
         WithServer \subseteq WithServer' \cup {NoPacket, h},
         x.kind \notin {"ask", "none"}, x.id[1] = h.id[1],
         h.kind \in {"ask", "none", "list"} \/ x.kind = "list" \/ h.id[2] < x.id[2]
  PROVE  Promised
<1>1. CASE h.kind \in {"ask", "none"}
  <2>1. \A p \in {NoPacket, h} : p.kind \in {"ask", "none"}
    BY <1>1 DEF NoPacket
  <2>. QED  BY <2>1, NothingServed
<1>2. CASE h.kind \notin {"ask", "none"}
  <2>. DEFINE A == MeaningOf(WithServer)
              B == MeaningOf(WithServer')
              X == Meaning(h)
              Y == Meaning(x)
  <2>1. X \in A /\ (B = A \/ B = A \ {X})
    BY <1>2, OneGone
  <2>2. UNCHANGED Answers
    BY SameAnswers
  <2>3. CASE B = A
    BY <2>2, <2>3 DEF Promised, MeaningOf
  <2>4. CASE B = A \ {X}
    <3>1. Y \in B
      BY DEF MeaningOf
    <3>2. Service!Displaces(Y, X)
      BY <1>2 DEF Service!Displaces, Meaning
    <3>. HIDE DEF X, Y
    <3>3. Service!Lose(X)
      BY <2>1, <2>2, <2>4, <3>1, <3>2 DEF Service!Lose, Answers, MeaningOf
    <3>. QED  BY <2>1, <3>3 DEF Promised, Service!Next
  <2>. QED  BY <2>1, <2>3, <2>4
<1>. QED  BY <1>1, <1>2

(* A step that moves no packet.                                            *)
LEMMA ServeKept ==
  ASSUME TypeInv, Sides, Quiet, UNCHANGED <<issued, sent, wire, cliPkt, rxPkt, txPkt>>,
         PacketsIn(recvQ') = PacketsIn(recvQ), PacketsIn(sendQ') = PacketsIn(sendQ),
         \A s \in Sockets : /\ cliPc'[s] \in {"find", "push"} <=> cliPc[s] \in {"find", "push"}
                            /\ cliPc[s] # "none" => cliPc'[s] # "none",
         rxPc' \in {"replyFind", "replyPush"} <=> rxPc \in {"replyFind", "replyPush"},
         txPc' = "send" <=> txPc = "send"
  PROVE  Sides' /\ Quiet' /\ Promised
<1>1. InHand' = InHand
  BY DEF InHand
<1>2. WithServer' = WithServer
  BY <1>1 DEF WithServer
<1>3. Promised
  BY <1>2, PacketsKept
<1>4. Quiet'
  <2>. SUFFICES ASSUME NEW p \in InHand \cup PacketsIn(recvQ) \cup PacketsIn(sendQ), Call(p)
                PROVE  cliPc'[p.id[1]] # "none"
    BY <1>1 DEF Quiet
  <2>1. p.id[1] \in Sockets
    BY FlightTyped DEF AnyPacket
  <2>. QED  BY <2>1 DEF Quiet
<1>5. Sides'
  BY DEF Sides
<1>. QED  BY <1>3, <1>4, <1>5
-----------------------------------------------------------------------------
(***************************************************************************)
(* One lemma for each action that moves a packet.                          *)
(***************************************************************************)
LEMMA ServeClientSend ==
  ASSUME ServeInv, NEW s \in Sockets, NEW kind \in Kinds[s], ClientSend(s, kind)
  PROVE  Sides' /\ Quiet' /\ Promised
<1>. DEFINE n == issued[s] + 1
            x == [kind |-> kind, id |-> <<s, n>>, out |-> {}]
<1>1. TypeInv /\ wire \in [Sockets -> Seq(Packet)] /\ issued \in [Sockets -> 0 .. MaxRequests]
  BY PacketsTyped DEF ServeInv, OwnInv
<1>2. /\ wire' = [wire EXCEPT ![s] = Append(wire[s], x)]
      /\ issued' = [issued EXCEPT ![s] = n] /\ issued[s] < MaxRequests
      /\ UNCHANGED <<sent, cliPc, cliPkt, recvQ, sendQ, rxPc, rxPkt, txPc, txPkt>>
  BY DEF ClientSend, registry, cli, rx, tx
<1>3. n \in 1 .. MaxRequests /\ kind \in {"req", "unknown"}
  <2>1. MaxRequests \in Nat /\ issued[s] \in 0 .. MaxRequests /\ issued[s] < MaxRequests
    BY <1>1, <1>2, CommAssumption
  <2>2. Kinds[s] \subseteq {"req", "unknown"}
    BY CommAssumption
  <2>. QED  BY <2>1, <2>2
<1>4. x \in Packet /\ x.kind = kind /\ Meaning(x) = [kind |-> kind, id |-> <<s, n>>]
  <2>1. <<s, n>> \in Id
    BY <1>3 DEF Id
  <2>. QED  BY <1>3, <2>1 DEF Packet, Meaning
<1>. HIDE DEF x
<1>5. PacketsIn(wire') = PacketsIn(wire) \cup {x}
  <2>1. Except(wire, wire', s) /\ wire'[s] = Append(wire[s], x) /\ wire[s] \in Seq(Packet)
    BY <1>1, <1>2 DEF Except
  <2>. QED  BY <1>4, <2>1, PacketsAppended
<1>6. InHand' = InHand /\ WithServer' = WithServer \cup {x}
  <2>1. InHand' = InHand
    BY <1>2 DEF InHand
  <2>. QED  BY <1>2, <1>5, <2>1 DEF WithServer
<1>7. Sides' /\ Quiet'
  <2>1. Sides'
    BY <1>2, <1>3, <1>4, <1>5 DEF ServeInv, Sides, Asking
  <2>2. Quiet'
    BY <1>2, <1>6 DEF ServeInv, Quiet
  <2>. QED  BY <2>1, <2>2
<1>8. MeaningOf(WithServer') = MeaningOf(WithServer) \cup {Service!CallOf(s, kind, n)}
  <2>1. MeaningOf({x}) = {Meaning(x)}
    BY <1>3, <1>4, MeaningProperties
  <2>2. MeaningOf(WithServer \cup {x}) = MeaningOf(WithServer) \cup MeaningOf({x})
    BY MeaningProperties
  <2>. QED  BY <1>4, <1>6, <2>1, <2>2 DEF Service!CallOf
<1>9. UNCHANGED Answers
  BY <1>2, SameAnswers
<1>10. Service!Send(s, kind)
  BY <1>2, <1>3, <1>8, <1>9 DEF Service!Send, Answers, MeaningOf
<1>. QED  BY <1>3, <1>7, <1>10 DEF Promised, Service!Next

(* The thread of a client takes a packet off the wire.                     *)
LEMMA ServeRecv ==
  ASSUME ServeInv, NEW s \in Sockets, Recv(s) PROVE Sides' /\ Quiet' /\ Promised
<1>. DEFINE x == Head(wire[s])
<1>1. /\ TypeInv /\ wire \in [Sockets -> Seq(Packet)] /\ cliPkt \in [Sockets -> AnyPacket]
      /\ ClientTypeOK
  BY PacketsTyped DEF ServeInv, OwnInv, TypeInv, ClientInv
<1>2. /\ cliPc[s] = "recv" /\ wire[s] # <<>> /\ wire' = [wire EXCEPT ![s] = Tail(wire[s])]
      /\ cliPc' = [cliPc EXCEPT ![s] = "find"] /\ cliPkt' = [cliPkt EXCEPT ![s] = x]
      /\ UNCHANGED <<issued, sent, recvQ, sendQ, rxPc, rxPkt, txPc, txPkt>>
  BY DEF Recv, registry, rx, tx
<1>3. x \in Packet /\ PacketsIn(wire) = PacketsIn(wire') \cup {x}
  <2>1. Except(wire, wire', s) /\ wire'[s] = Tail(wire[s]) /\ wire[s] \in Seq(Packet)
    BY <1>1, <1>2 DEF Except
  <2>. QED  BY <1>2, <2>1, PacketsPopped
<1>4. x.id[1] = s /\ x.kind \in Asking
  <2>1. 1 \in DOMAIN wire[s] /\ x = wire[s][1]
    BY <1>1, <1>2, EmptySeq, LenProperties, HeadTailProperties
  <2>2. x.id[1] = s
    BY <2>1 DEF ServeInv, OwnInv, WireOwn
  <2>. QED  BY <1>3, <2>2 DEF ServeInv, Sides
<1>. HIDE DEF x
<1>5. cliPkt[s] = NoPacket
  BY <1>2 DEF ServeInv, Sides
<1>6. /\ InHand' \subseteq InHand \cup {x} /\ x \in InHand'
      /\ InHand \subseteq InHand' \cup {NoPacket}
  BY <1>1, <1>2, <1>5, HandOfClient
<1>7. Promised
  <2>1. WithServer' \subseteq WithServer \cup {NoPacket} /\ WithServer \subseteq WithServer' \cup {NoPacket}
    BY <1>2, <1>3, <1>6 DEF WithServer
  <2>. QED  BY <1>2, <2>1, PacketsKept
<1>8. \A t \in Sockets : cliPc[t] # "none" => cliPc'[t] # "none"
  BY <1>1, <1>2 DEF ClientTypeOK
<1>9. Quiet'
  <2>. SUFFICES ASSUME NEW p \in InHand \cup {x} \cup PacketsIn(recvQ) \cup PacketsIn(sendQ), Call(p)
                PROVE  cliPc'[p.id[1]] # "none"
    BY <1>2, <1>6 DEF Quiet
  <2>1. CASE p = x
    BY <1>1, <1>2, <1>4, <2>1 DEF ClientTypeOK
  <2>2. CASE p # x
    <3>1. p.id[1] \in Sockets
      BY <1>1, <2>2, FlightTyped DEF AnyPacket
    <3>. QED  BY <1>8, <2>2, <3>1 DEF ServeInv, Quiet
  <2>. QED  BY <2>1, <2>2
<1>10. Sides'
  <2>1. \A t \in Sockets : IF cliPc'[t] \in {"find", "push"}
                           THEN cliPkt'[t].kind \in Asking ELSE cliPkt'[t] = NoPacket
    BY <1>1, <1>2, <1>4 DEF ServeInv, Sides, ClientTypeOK
  <2>. QED  BY <1>2, <1>3, <2>1 DEF ServeInv, Sides
<1>. QED  BY <1>7, <1>9, <1>10

(* The calls with the server are in the order of their places.             *)
LEMMA PlacesOfCalls ==
  ASSUME TypeInv, Ordered(Later)
  PROVE  /\ \A p \in PacketsIn(wire) : Call(p) => p.id \in Places[2]
         /\ \A s \in Sockets : Call(cliPkt[s]) => cliPkt[s].id \in Places[3]
         /\ \A p \in PacketsIn(recvQ) : Call(p) => p.id \in Places[4]
         /\ Call(rxPkt) => rxPkt.id \in Places[5]
         /\ \A p \in PacketsIn(sendQ) : Call(p) => p.id \in Places[6]
         /\ Call(txPkt) => txPkt.id \in Places[7]
         /\ \A i, j \in 1 .. 8 : i < j =>
              \A a \in Places[j], b \in Places[i] : a[1] = b[1] => a[2] < b[2]
<1>1. /\ Places[2] = IdsIn(wire) /\ Places[3] = IdsIn(Slots(cliPkt)) /\ Places[4] = IdsIn(recvQ)
      /\ Places[5] = CallIds({rxPkt}) /\ Places[6] = IdsIn(sendQ) /\ Places[7] = CallIds({txPkt})
  BY DEF Places
<1>2. ASSUME NEW f, NEW p \in PacketsIn(f), Call(p) PROVE p.id \in IdsIn(f)
  BY <1>2 DEF PacketsIn, IdsIn, CallIds
<1>3. ASSUME NEW p, Call(p) PROVE p.id \in CallIds({p})
  BY <1>3 DEF CallIds
<1>4. ASSUME NEW s \in Sockets, Call(cliPkt[s]) PROVE cliPkt[s].id \in IdsIn(Slots(cliPkt))
  <2>1. cliPkt \in [Sockets -> AnyPacket]
    BY PacketsTyped
  <2>2. CallIds({cliPkt[s]}) \subseteq IdsIn(Slots(cliPkt))
    BY <2>1, SlotProperties
  <2>. QED  BY <1>3, <1>4, <2>2
<1>5. ASSUME NEW i \in 1 .. 8, NEW j \in 1 .. 8, i < j, NEW a \in Places[j], NEW b \in Places[i],
             a[1] = b[1]
      PROVE  a[2] < b[2]
  <2>1. <<a, b>> \in Later
    BY <1>5 DEF Ordered, Chained, AllAhead
  <2>. QED  BY <1>5, <2>1 DEF Later
<1>. QED  BY <1>1, <1>2, <1>3, <1>4, <1>5

(* It pushes it to the receive queue of its client.                        *)
LEMMA ServePushRecv ==
  ASSUME ServeInv, NEW s \in Sockets, PushPacketDataRecv(s), ~bad'
  PROVE  Sides' /\ Quiet' /\ Promised
<1>. DEFINE x == cliPkt[s]
            i == cliIdx[s]
            h == Head(recvQ[i])
<1>1. /\ TypeInv /\ recvQ \in Seq(Seq(Packet)) /\ cliPkt \in [Sockets -> AnyPacket]
      /\ ClientTypeOK /\ nLockRecv \in Nat
  BY PacketsTyped DEF ServeInv, OwnInv, TypeInv, ClientInv, RegistryTypeOK
<1>2. /\ cliPc[s] = "push" /\ ~(i > nLockRecv) /\ ~(i > Len(recvQ))
      /\ recvQ' = [recvQ EXCEPT ![i] = PushDropOldest(recvQ[i], x, MAX_PACKETDATA_NUM)]
      /\ cliPc' = [cliPc EXCEPT ![s] = "recv"] /\ cliPkt' = [cliPkt EXCEPT ![s] = NoPacket]
      /\ UNCHANGED <<issued, sent, wire, sendQ, rxPc, rxPkt, txPc, txPkt>>
  BY DEF PushPacketDataRecv, BackToRecv, net, rx, tx
<1>3. At(i, s) /\ x.id[1] = s /\ x.kind \in Asking
  BY <1>2 DEF ServeInv, OwnInv, ClientsOwn, Sides
<1>4. x \in Packet
  BY <1>1, <1>3, FlightTyped DEF Asking
<1>5. i \in 1 .. Len(recvQ)
  <2>1. i \in 1 .. Len(remote) /\ Len(recvQ) \in Nat /\ ~(i > Len(recvQ))
    BY <1>1, <1>2, <1>3, LenProperties DEF At
  <2>. HIDE DEF i
  <2>. QED  BY <2>1
<1>6. recvQ[i] \in Seq(Packet) /\ Except(recvQ, recvQ', i)
      /\ recvQ'[i] = PushDropOldest(recvQ[i], x, MAX_PACKETDATA_NUM)
  <2>1. DOMAIN recvQ = 1 .. Len(recvQ)
    BY <1>1, LenProperties
  <2>2. recvQ[i] \in Seq(Packet)
    BY <1>1, <1>5, ElementOfSeq
  <2>. QED  BY <1>2, <1>5, <2>1, <2>2 DEF Except
<1>. HIDE DEF x
<1>7. \/ PacketsIn(recvQ') = PacketsIn(recvQ) \cup {x}
      \/ /\ recvQ[i] # <<>> /\ h \in PacketsIn(recvQ)
         /\ PacketsIn(recvQ') \cup {h} = PacketsIn(recvQ) \cup {x} /\ x \in PacketsIn(recvQ')
  BY <1>4, <1>6, PacketsPushed
<1>8. /\ InHand' \subseteq InHand \cup {NoPacket} /\ InHand \subseteq InHand' \cup {x}
      /\ x \in InHand
  BY <1>1, <1>2, HandOfClient DEF x
<1>9. Promised
  <2>1. WithServer' \subseteq WithServer \cup {NoPacket}
    BY <1>2, <1>7, <1>8 DEF WithServer
  <2>2. CASE PacketsIn(recvQ') = PacketsIn(recvQ) \cup {x}
    <3>1. WithServer \subseteq WithServer' \cup {NoPacket}
      BY <1>2, <1>8, <2>2 DEF WithServer
    <3>. QED  BY <1>2, <2>1, <3>1, PacketsKept
  <2>3. CASE recvQ[i] # <<>> /\ h \in PacketsIn(recvQ) /\ x \in PacketsIn(recvQ')
             /\ PacketsIn(recvQ') \cup {h} = PacketsIn(recvQ) \cup {x}
    <3>1. WithServer \subseteq WithServer' \cup {NoPacket, h} /\ h \in WithServer /\ x \in WithServer'
      BY <1>2, <1>8, <2>3 DEF WithServer
    <3>2. h.id[1] = s
      <4>1. recvQ \in Queues /\ AllOwned(recvQ)
        BY DEF ServeInv, OwnInv, TypeInv, RegistryTypeOK, QueuesOwn, Queues
      <4>2. At(i, h.id[1])
        BY <1>5, <2>3, <4>1, PoppedOwned
      <4>. QED  BY <1>3, <4>2 DEF At
    <3>3. h.kind \in {"ask", "none", "list"} \/ x.kind = "list" \/ h.id[2] < x.id[2]
      <4>. SUFFICES ASSUME h.kind # "list", x.kind # "list" PROVE h.id[2] < x.id[2]
        OBVIOUS
      <4>1. Call(x) /\ Call(h)
        BY <1>3, <2>3 DEF ServeInv, Sides, Asking, Call
      <4>2. x.id \in Places[3] /\ h.id \in Places[4] /\ Ordered(Later)
        BY <1>1, <2>3, <4>1, PlacesOfCalls DEF ServeInv, x
      <4>. HIDE DEF h
      <4>3. \A a \in Places[4], b \in Places[3] : a[1] = b[1] => a[2] < b[2]
        BY <1>1, <4>2, PlacesOfCalls
      <4>. QED  BY <1>3, <3>2, <4>2, <4>3
    <3>4. x.kind \notin {"ask", "none"}
      BY <1>3 DEF Asking
    <3>. HIDE DEF h
    <3>. QED  BY <1>2, <1>3, <2>1, <3>1, <3>2, <3>3, <3>4, Displaced
  <2>. QED  BY <1>7, <2>2, <2>3
<1>. HIDE DEF h, i
<1>10. PacketsIn(recvQ') \subseteq PacketsIn(recvQ) \cup {x}
  BY <1>7
<1>11. \A t \in Sockets : cliPc'[t] = IF t = s THEN "recv" ELSE cliPc[t]
  BY <1>1, <1>2 DEF ClientTypeOK
<1>12. Quiet'
  <2>. SUFFICES ASSUME NEW p \in InHand \cup PacketsIn(recvQ) \cup PacketsIn(sendQ), Call(p)
                PROVE  cliPc'[p.id[1]] # "none"
    BY <1>2, <1>8, <1>10 DEF Quiet, NoPacket, Call
  <2>1. p.id[1] \in Sockets
    BY <1>1, FlightTyped DEF AnyPacket
  <2>. QED  BY <1>2, <1>11, <2>1 DEF ServeInv, Quiet
<1>13. Sides'
  <2>1. \A t \in Sockets : IF cliPc'[t] \in {"find", "push"}
                           THEN cliPkt'[t].kind \in Asking ELSE cliPkt'[t] = NoPacket
    BY <1>1, <1>2, <1>11 DEF ServeInv, Sides
  <2>. QED  BY <1>2, <1>3, <1>10, <2>1 DEF ServeInv, Sides
<1>. QED  BY <1>9, <1>12, <1>13

LEMMA ServeProcessClient ==
  ASSUME ServeInv, ~bad, NEW s \in Sockets, ProcessClient(s) PROVE Sides' /\ Quiet' /\ Promised
<1>. TypeInv /\ RegistryTypeOK /\ ClientTypeOK /\ Sides /\ Quiet
  BY DEF ServeInv, OwnInv, TypeInv, ClientInv
<1>1. cliPc[s] \in {"recv", "find", "push"} /\ ~fin[s]
  BY DEF ServeInv, OwnInv, NobodyLeaves, ProcessClient, Recv, PushRecvFind, PushPacketDataRecv,
         Disconnect, DelFind, DelSocket, DelRecvQ, DelSendQ, DelLockRecv, DelLockSend, CloseSocket
<1>2. Recv(s) \/ PushRecvFind(s) \/ PushPacketDataRecv(s)
  BY <1>1 DEF ProcessClient, Disconnect, DelFind, DelSocket, DelRecvQ, DelSendQ, DelLockRecv, DelLockSend, CloseSocket
<1>3. CASE PushRecvFind(s)
  <2>1. HasEntry(s)
    BY <1>3 DEF PushRecvFind, ServeInv, Registered
  <2>2. FindIndexByPortName(s) # 0
    BY <2>1, EntryFound DEF ServeInv
  <2>3. /\ cliPc[s] = "find" /\ cliPc' = [cliPc EXCEPT ![s] = "push"]
        /\ UNCHANGED <<issued, sent, wire, cliPkt, recvQ, sendQ, rxPc, rxPkt, txPc, txPkt>>
    BY <1>3, <2>2 DEF PushRecvFind, net, registry, rx, tx
  <2>4. \A t \in Sockets : /\ cliPc'[t] \in {"find", "push"} <=> cliPc[t] \in {"find", "push"}
                           /\ cliPc[t] # "none" => cliPc'[t] # "none"
    BY <2>3 DEF ClientTypeOK
  <2>. QED  BY <2>3, <2>4, ServeKept
<1>4. CASE PushPacketDataRecv(s) /\ bad'
  <2>1. UNCHANGED <<issued, sent, wire, cliPc, cliPkt, recvQ, sendQ, rxPc, rxPkt, txPc, txPkt>>
    BY <1>4 DEF PushPacketDataRecv, net, cli, rx, tx
  <2>. QED  BY <2>1, ServeKept
<1>. QED  BY <1>2, <1>3, <1>4, ServeRecv, ServePushRecv

(* The question for the function list displaces no reply: the client of the
   entry has none in its queue before its thread starts.                   *)
LEMMA ServeAskFunList ==
  ASSUME ServeInv, OwnAddresses, AddAskFunList, ~bad' PROVE Sides' /\ Quiet' /\ Promised
<1>. DEFINE last == remote[Len(remote)].sock
            i == FindIndexByPortName(last)
            x == AskPacket(last)
            h == Head(sendQ[i])
<1>1. /\ TypeInv /\ RegistryTypeOK /\ sendQ \in Seq(Seq(Packet))
  BY PacketsTyped DEF ServeInv, OwnInv, TypeInv
<1>2. /\ accPc = "askFunList" /\ remote # <<>> /\ ~(i > Len(sendQ))
      /\ sendQ' = IF i = 0 THEN sendQ
                   ELSE [sendQ EXCEPT ![i] = PushDropOldest(sendQ[i], x, MAX_PACKETDATA_NUM)]
      /\ UNCHANGED <<issued, sent, wire, cliPc, cliPkt, recvQ, rxPc, rxPkt, txPc, txPkt>>
  BY DEF AddAskFunList, net, cli, rx, tx
<1>3. last \in Sockets /\ cliPc[last] = "none"
  <2>1. last = accSock /\ cliPc[accSock] = "none"
    BY <1>2 DEF ServeInv, Registered, NotStarted
  <2>2. last \in Sockets
    BY <1>1, <1>2, LastIsSocket
  <2>. QED  BY <2>1, <2>2
<1>. DEFINE rest == PacketsIn(wire) \cup InHand \cup PacketsIn(recvQ)
<1>4. /\ UNCHANGED <<issued, sent>> /\ WithServer = rest \cup PacketsIn(sendQ)
      /\ WithServer' = rest \cup PacketsIn(sendQ')
  BY <1>2 DEF WithServer, InHand
<1>. HIDE DEF rest
<1>5. CASE i = 0
  BY <1>1, <1>2, <1>5, ServeKept DEF ServeInv
<1>6. CASE i # 0
  <2>1. At(i, last)
    BY <1>1, <1>3, <1>6, FoundIsOwn
  <2>2. i \in 1 .. Len(sendQ)
    <3>1. i \in 1 .. Len(remote) /\ Len(sendQ) \in Nat /\ ~(i > Len(sendQ))
      BY <1>1, <1>2, <2>1, LenProperties DEF At
    <3>. HIDE DEF i
    <3>. QED  BY <3>1
  <2>3. x \in Packet /\ x.kind = "ask"
    <3>1. <<last, 0>> \in Id
      BY <1>3, CommAssumption DEF Id
    <3>. HIDE DEF last
    <3>. QED  BY <3>1 DEF AskPacket, Packet
  <2>4. sendQ[i] \in Seq(Packet) /\ Except(sendQ, sendQ', i)
        /\ sendQ'[i] = PushDropOldest(sendQ[i], x, MAX_PACKETDATA_NUM)
    <3>1. DOMAIN sendQ = 1 .. Len(sendQ)
      BY <1>1, LenProperties
    <3>. HIDE DEF i, x, last
    <3>2. sendQ[i] \in Seq(Packet)
      BY <1>1, <2>2, ElementOfSeq
    <3>. QED  BY <1>2, <1>6, <2>2, <3>1, <3>2 DEF Except
  <2>5. recvQ \in Queues /\ sendQ \in Queues /\ AllOwned(sendQ) /\ Sides /\ Quiet
    BY DEF ServeInv, OwnInv, TypeInv, RegistryTypeOK, QueuesOwn, Queues
  <2>. HIDE DEF i, x, last
  <2>6. \/ PacketsIn(sendQ') = PacketsIn(sendQ) \cup {x}
        \/ /\ sendQ[i] # <<>> /\ h \in PacketsIn(sendQ)
           /\ PacketsIn(sendQ') \cup {h} = PacketsIn(sendQ) \cup {x} /\ x \in PacketsIn(sendQ')
    BY <2>3, <2>4, PacketsPushed
  <2>7. ASSUME PacketsIn(sendQ') = PacketsIn(sendQ) \cup {x} PROVE Promised
    <3>. DEFINE D == {x}
    <3>1. \A p \in D : p.kind \in {"ask", "none"}
      BY <2>3
    <3>2. WithServer' \subseteq WithServer \cup D /\ WithServer \subseteq WithServer' \cup D
      BY <1>4, <2>7
    <3>. HIDE DEF D
    <3>. QED  BY <1>4, <3>1, <3>2, NothingServed
  <2>8. ASSUME sendQ[i] # <<>>, h \in PacketsIn(sendQ),
               PacketsIn(sendQ') \cup {h} = PacketsIn(sendQ) \cup {x}
        PROVE  Promised
    <3>1. h.id[1] = last
      <4>1. At(i, h.id[1])
        BY <2>2, <2>5, <2>8, PoppedOwned
      <4>. QED  BY <2>1, <4>1 DEF At
    <3>2. h.kind = "ask"
      <4>1. ~Call(h)
        BY <1>3, <2>5, <2>8, <3>1 DEF Quiet
      <4>. QED  BY <2>5, <2>8, <4>1 DEF Sides, Answering, Call
    <3>. DEFINE D == {x, h}
    <3>3. \A p \in D : p.kind \in {"ask", "none"}
      BY <2>3, <3>2
    <3>4. WithServer' \subseteq WithServer \cup D /\ WithServer \subseteq WithServer' \cup D
      <4>. HIDE DEF h
      <4>. QED  BY <1>4, <2>8
    <3>. HIDE DEF D
    <3>. QED  BY <1>4, <3>3, <3>4, NothingServed
  <2>9. Promised
    BY <2>6, <2>7, <2>8
  <2>10. PacketsIn(sendQ') \subseteq PacketsIn(sendQ) \cup {x}
    BY <2>6
  <2>. HIDE DEF h
  <2>11. Sides'
    BY <1>2, <2>3, <2>5, <2>10 DEF Sides, Answering
  <2>12. Quiet'
    BY <1>2, <2>3, <2>5, <2>10 DEF Quiet, InHand, Call
  <2>. QED  BY <2>9, <2>11, <2>12
<1>. QED  BY <1>5, <1>6

LEMMA ServeAcceptThread ==
  ASSUME ServeInv, OwnAddresses, ~bad, AcceptThread PROVE Sides' /\ Quiet' /\ Promised
<1>. TypeInv /\ ClientTypeOK /\ AcceptInv /\ Sides /\ Quiet
  BY DEF ServeInv, OwnInv, TypeInv, ClientInv
<1>1. CASE ~AddAskFunList \/ bad'
  <2>1. UNCHANGED <<issued, sent, wire, cliPkt, rxPc, rxPkt, txPc, txPkt>>
    BY DEF AcceptThread, AddPushSocket, AddPushLockRecv, AddPushLockSend, AddPushRecvQ, AddPushSendQ,
       AddAskFunList, AddEndWait, StartProcessClient, GotoCli, net, cli, rx, tx
  <2>2. PacketsIn(recvQ') = PacketsIn(recvQ) /\ PacketsIn(sendQ') = PacketsIn(sendQ)
    <3>1. UNCHANGED recvQ \/ recvQ' = Append(recvQ, <<>>)
      BY DEF AcceptThread, AddPushSocket, AddPushLockRecv, AddPushLockSend, AddPushRecvQ, AddPushSendQ,
         AddAskFunList, AddEndWait, StartProcessClient, registry
    <3>2. UNCHANGED sendQ \/ sendQ' = Append(sendQ, <<>>)
      BY <1>1 DEF AcceptThread, AddPushSocket, AddPushLockRecv, AddPushLockSend, AddPushRecvQ, AddPushSendQ,
         AddAskFunList, AddEndWait, StartProcessClient, registry
    <3>3. recvQ \in Seq(Seq(Packet)) /\ sendQ \in Seq(Seq(Packet))
      BY PacketsTyped
    <3>. QED  BY <3>1, <3>2, <3>3, PacketsAdded
  <2>3. \A s \in Sockets : /\ cliPc'[s] \in {"find", "push"} <=> cliPc[s] \in {"find", "push"}
                           /\ cliPc[s] # "none" => cliPc'[s] # "none"
    <3>1. CASE UNCHANGED cliPc
      BY <3>1
    <3>2. CASE ~UNCHANGED cliPc
      <4>1. accPc = "start" /\ cliPc' = [cliPc EXCEPT ![accSock] = "recv"]
        BY <3>2 DEF AcceptThread, AddPushSocket, AddPushLockRecv, AddPushLockSend, AddPushRecvQ,
           AddPushSendQ, AddAskFunList, AddEndWait, StartProcessClient, GotoCli, cli
      <4>2. cliPc[accSock] = "none"
        BY <4>1 DEF ServeInv, NotStarted
      <4>. QED  BY <4>1, <4>2 DEF ClientTypeOK
    <3>. QED  BY <3>1, <3>2
  <2>. QED  BY <2>1, <2>2, <2>3, ServeKept
<1>. QED  BY <1>1, ServeAskFunList

(* A packet that needs no answer is done ...                               *)
LEMMA Discharged ==
  ASSUME UNCHANGED <<issued, sent>>, NEW h \in WithServer, h.kind \in {"list", "unknown"},
         WithServer' \subseteq WithServer \cup {NoPacket},
         WithServer \subseteq WithServer' \cup {NoPacket, h}
  PROVE  Promised
<1>. DEFINE A == MeaningOf(WithServer)
            B == MeaningOf(WithServer')
            X == Meaning(h)
<1>1. X \in A /\ (B = A \/ B = A \ {X})
  BY OneGone
<1>2. UNCHANGED Answers
  BY SameAnswers
<1>3. CASE B = A
  BY <1>2, <1>3 DEF Promised, MeaningOf
<1>4. CASE B = A \ {X}
  <2>1. X.kind # "req"
    BY DEF Meaning
  <2>. HIDE DEF X
  <2>2. Service!Discharge(X)
    BY <1>1, <1>2, <1>4, <2>1 DEF Service!Discharge, Answers, MeaningOf
  <2>. QED  BY <1>1, <2>2 DEF Promised, Service!Next
<1>. QED  BY <1>1, <1>3, <1>4

(* ... and the reply takes the place of its call.                          *)
LEMMA Replied ==
  ASSUME UNCHANGED <<issued, sent>>, NEW h \in WithServer, h.kind = "req",
         NEW r, r \in WithServer', r.kind = "reply", r.id = h.id,
         WithServer' \subseteq WithServer \cup {NoPacket, r},
         WithServer \subseteq WithServer' \cup {NoPacket, h}
  PROVE  Promised
<1>. DEFINE A == WithServer
            B == WithServer'
<1>1. /\ h \in A /\ r \in B /\ A \subseteq B \cup {NoPacket, h} /\ B \subseteq A \cup {NoPacket, r}
  OBVIOUS
<1>2. Meaning(h) = Meaning(r) /\ h.kind \notin {"ask", "none"} /\ r.kind \notin {"ask", "none"}
  BY DEF Meaning
<1>. HIDE DEF A, B
<1>3. MeaningOf(A) \subseteq MeaningOf(B)
  BY <1>1, <1>2 DEF MeaningOf, NoPacket
<1>4. MeaningOf(B) \subseteq MeaningOf(A)
  BY <1>1, <1>2 DEF MeaningOf, NoPacket
<1>5. MeaningOf(WithServer') = MeaningOf(WithServer)
  BY <1>3, <1>4 DEF A, B
<1>. QED  BY <1>5, SameAnswers DEF Promised, MeaningOf

(* ParamThreadRecvProc takes a packet from a receive queue.                *)
LEMMA ServeRxPop ==
  ASSUME ServeInv, RxPop, ~(rxIdx > nLockRecv), rxIdx \in 1 .. Len(recvQ), recvQ[rxIdx] # <<>>
  PROVE  Sides' /\ Quiet' /\ Promised
<1>. DEFINE i == rxIdx
            h == Head(recvQ[i])
<1>1. /\ TypeInv /\ recvQ \in Seq(Seq(Packet)) /\ Sides /\ Quiet
  BY PacketsTyped DEF ServeInv, OwnInv
<1>2. /\ rxPc = "pop" /\ recvQ' = PopFirst(recvQ, i) /\ RxHandle(h)
      /\ UNCHANGED <<issued, sent, wire, cliPc, cliPkt, sendQ, txPc, txPkt>>
  <2>1. ~(rxIdx > Len(recvQ))
    BY <1>1, LenProperties
  <2>. QED  BY <2>1 DEF RxPop, net, cli, tx
<1>3. rxPkt = NoPacket
  BY <1>1, <1>2 DEF Sides
<1>4. h \in Packet /\ PacketsIn(recvQ) = PacketsIn(recvQ') \cup {h}
  <2>1. DOMAIN recvQ = 1 .. Len(recvQ) /\ recvQ[i] \in Seq(Packet)
    BY <1>1, LenProperties, ElementOfSeq
  <2>2. Except(recvQ, recvQ', i) /\ recvQ'[i] = Tail(recvQ[i])
    BY <1>2, <2>1 DEF Except, PopFirst
  <2>. QED  BY <2>1, <2>2, PacketsPopped
<1>. HIDE DEF h, i
<1>5. h.kind \in Asking /\ h \in WithServer
  BY <1>1, <1>4 DEF Sides, WithServer
<1>6. /\ InHand' \subseteq InHand \cup {rxPkt'} /\ rxPkt' \in InHand'
      /\ InHand \subseteq InHand' \cup {NoPacket}
  <2>1. UNCHANGED cliPkt /\ UNCHANGED txPkt
    BY <1>2
  <2>. QED  BY <1>3, <2>1 DEF InHand
<1>7. CASE rxPkt' = NoPacket /\ h.kind \in {"list", "unknown"}
           /\ rxPc' \notin {"replyFind", "replyPush"}
  <2>1. /\ WithServer' \subseteq WithServer \cup {NoPacket}
        /\ WithServer \subseteq WithServer' \cup {NoPacket, h}
    BY <1>2, <1>4, <1>6, <1>7 DEF WithServer
  <2>2. Promised
    BY <1>2, <1>5, <1>7, <2>1, Discharged
  <2>3. Sides'
    BY <1>1, <1>2, <1>4, <1>7 DEF Sides
  <2>4. Quiet'
    <3>1. ~Call(NoPacket)
      BY DEF Call, NoPacket
    <3>. QED  BY <1>1, <1>2, <1>4, <1>6, <1>7, <3>1 DEF Quiet
  <2>. QED  BY <2>2, <2>3, <2>4
<1>8. CASE h.kind = "req" /\ rxPkt'.kind = "reply" /\ rxPkt'.id = h.id /\ rxPc' = "replyFind"
  <2>1. /\ WithServer' \subseteq WithServer \cup {NoPacket, rxPkt'} /\ rxPkt' \in WithServer'
        /\ WithServer \subseteq WithServer' \cup {NoPacket, h}
    BY <1>2, <1>4, <1>6 DEF WithServer
  <2>. DEFINE r == rxPkt'
  <2>2. Promised
    <3>1. /\ WithServer' \subseteq WithServer \cup {NoPacket, r} /\ r \in WithServer'
          /\ r.kind = "reply" /\ r.id = h.id /\ h.kind = "req" /\ UNCHANGED <<issued, sent>>
      BY <1>2, <1>8, <2>1
    <3>. HIDE DEF r
    <3>. QED  BY <1>5, <2>1, <3>1, Replied
  <2>3. Sides'
    BY <1>1, <1>2, <1>4, <1>8 DEF Sides
  <2>4. Quiet'
    <3>1. Call(h)
      BY <1>8 DEF Call
    <3>2. cliPc[h.id[1]] # "none"
      BY <1>1, <1>4, <3>1 DEF Quiet
    <3>. QED  BY <1>1, <1>2, <1>4, <1>6, <1>8, <3>2 DEF Quiet
  <2>. QED  BY <2>2, <2>3, <2>4
<1>9. \/ rxPkt' = NoPacket /\ h.kind \in {"list", "unknown"} /\ rxPc' \notin {"replyFind", "replyPush"}
      \/ h.kind = "req" /\ rxPkt'.kind = "reply" /\ rxPkt'.id = h.id /\ rxPc' = "replyFind"
  <2>1. \A id, outs : ReplyPacket(id, outs).kind = "reply" /\ ReplyPacket(id, outs).id = id
    BY DEF ReplyPacket
  <2>2. CASE h.kind = "list"
    BY <1>2, <1>3, <2>2 DEF RxHandle
  <2>3. CASE h.kind = "req"
    BY <1>2, <2>1, <2>3 DEF RxHandle
  <2>4. CASE h.kind = "unknown"
    BY <1>2, <2>4 DEF RxHandle, RxNext
  <2>. QED  BY <1>5, <2>2, <2>3, <2>4 DEF Asking
<1>. QED  BY <1>7, <1>8, <1>9

(* It pushes the reply to the send queue of the client.                    *)
LEMMA ServeRxPush ==
  ASSUME ServeInv, RxPushPacketDataSend, ~bad' PROVE Sides' /\ Quiet' /\ Promised
<1>. DEFINE x == rxPkt
            i == rxIdx
            h == Head(sendQ[i])
<1>1. /\ TypeInv /\ sendQ \in Seq(Seq(Packet)) /\ Sides /\ Quiet /\ x \in AnyPacket
  BY PacketsTyped DEF ServeInv, OwnInv
<1>2. /\ rxPc = "replyPush" /\ ~(i > Len(sendQ))
      /\ sendQ' = [sendQ EXCEPT ![i] = PushDropOldest(sendQ[i], x, MAX_PACKETDATA_NUM)]
      /\ rxPc' = "pick" /\ rxPkt' = NoPacket
      /\ UNCHANGED <<issued, sent, wire, cliPc, cliPkt, recvQ, txPc, txPkt>>
  BY DEF RxPushPacketDataSend, RxNext, net, cli, tx
<1>3. At(i, x.id[1]) /\ x.kind = "reply"
  BY <1>1, <1>2 DEF ServeInv, OwnInv, RxOwn, Sides
<1>4. x \in Packet
  BY <1>1, <1>3, FlightTyped
<1>5. i \in 1 .. Len(sendQ)
  <2>1. i \in 1 .. Len(remote) /\ Len(sendQ) \in Nat /\ ~(i > Len(sendQ))
    BY <1>1, <1>2, <1>3, LenProperties DEF At
  <2>. HIDE DEF i
  <2>. QED  BY <2>1
<1>6. sendQ[i] \in Seq(Packet) /\ Except(sendQ, sendQ', i)
      /\ sendQ'[i] = PushDropOldest(sendQ[i], x, MAX_PACKETDATA_NUM)
  <2>1. DOMAIN sendQ = 1 .. Len(sendQ)
    BY <1>1, LenProperties
  <2>2. sendQ[i] \in Seq(Packet)
    BY <1>1, <1>5, ElementOfSeq
  <2>. QED  BY <1>2, <1>5, <2>1, <2>2 DEF Except
<1>. HIDE DEF x, i
<1>7. \/ PacketsIn(sendQ') = PacketsIn(sendQ) \cup {x}
      \/ /\ sendQ[i] # <<>> /\ h \in PacketsIn(sendQ)
         /\ PacketsIn(sendQ') \cup {h} = PacketsIn(sendQ) \cup {x} /\ x \in PacketsIn(sendQ')
  BY <1>4, <1>6, PacketsPushed
<1>8. /\ InHand' \subseteq InHand \cup {NoPacket} /\ InHand \subseteq InHand' \cup {x}
      /\ x \in InHand
  BY <1>2 DEF x, InHand
<1>9. Promised
  <2>1. WithServer' \subseteq WithServer \cup {NoPacket}
    BY <1>2, <1>7, <1>8 DEF WithServer
  <2>2. CASE PacketsIn(sendQ') = PacketsIn(sendQ) \cup {x}
    <3>1. WithServer \subseteq WithServer' \cup {NoPacket}
      BY <1>2, <1>8, <2>2 DEF WithServer
    <3>. QED  BY <1>2, <2>1, <3>1, PacketsKept
  <2>3. CASE sendQ[i] # <<>> /\ h \in PacketsIn(sendQ) /\ x \in PacketsIn(sendQ')
             /\ PacketsIn(sendQ') \cup {h} = PacketsIn(sendQ) \cup {x}
    <3>1. WithServer \subseteq WithServer' \cup {NoPacket, h} /\ h \in WithServer /\ x \in WithServer'
      BY <1>2, <1>8, <2>3 DEF WithServer
    <3>2. h.id[1] = x.id[1]
      <4>1. sendQ \in Queues /\ AllOwned(sendQ)
        BY DEF ServeInv, OwnInv, TypeInv, RegistryTypeOK, QueuesOwn, Queues
      <4>2. At(i, h.id[1])
        BY <1>5, <2>3, <4>1, PoppedOwned
      <4>. QED  BY <1>3, <4>2 DEF At
    <3>3. h.kind \in {"ask", "none", "list"} \/ x.kind = "list" \/ h.id[2] < x.id[2]
      <4>. SUFFICES ASSUME h.kind # "ask" PROVE h.id[2] < x.id[2]
        OBVIOUS
      <4>1. Call(x) /\ Call(h)
        BY <1>1, <1>3, <2>3 DEF Sides, Answering, Call
      <4>2. x.id \in Places[5] /\ h.id \in Places[6] /\ Ordered(Later)
        BY <1>1, <2>3, <4>1, PlacesOfCalls DEF ServeInv, x
      <4>. HIDE DEF h
      <4>3. \A a \in Places[6], b \in Places[5] : a[1] = b[1] => a[2] < b[2]
        BY <1>1, <4>2, PlacesOfCalls
      <4>. QED  BY <3>2, <4>2, <4>3
    <3>4. x.kind \notin {"ask", "none"}
      BY <1>3
    <3>. HIDE DEF h
    <3>. QED  BY <1>2, <1>3, <2>1, <3>1, <3>2, <3>3, <3>4, Displaced
  <2>. QED  BY <1>7, <2>2, <2>3
<1>. HIDE DEF h
<1>10. PacketsIn(sendQ') \subseteq PacketsIn(sendQ) \cup {x}
  BY <1>7
<1>11. Quiet'
  <2>1. ~Call(NoPacket)
    BY DEF NoPacket, Call
  <2>. QED  BY <1>1, <1>2, <1>8, <1>10, <2>1 DEF Quiet
<1>12. Sides'
  BY <1>1, <1>2, <1>3, <1>10 DEF Sides, Answering
<1>. QED  BY <1>9, <1>11, <1>12

LEMMA ServeParamThreadRecvProc ==
  ASSUME ServeInv, ~bad, ParamThreadRecvProc PROVE Sides' /\ Quiet' /\ Promised
<1>. TypeInv /\ RegistryTypeOK /\ RxInv /\ RxTypeOK /\ Sides /\ Quiet
  BY DEF ServeInv, OwnInv, TypeInv, RxInv
<1>1. ASSUME UNCHANGED <<rxPkt, recvQ, sendQ>>,
             rxPc' \in {"replyFind", "replyPush"} <=> rxPc \in {"replyFind", "replyPush"}
      PROVE  Sides' /\ Quiet' /\ Promised
  <2>1. UNCHANGED <<issued, sent, wire, cliPc, cliPkt, txPc, txPkt>>
    BY DEF ParamThreadRecvProc, RxPick, RxFind, RxPop, RxUpdataRemoteFuncList, RxReplyFind,
           RxPushPacketDataSend, net, cli, tx
  <2>. QED  BY <1>1, <2>1, ServeKept
<1>2. CASE RxPick
  <2>1. UNCHANGED <<rxPkt, recvQ, sendQ>> /\ rxPc = "pick" /\ rxPc' \in {"pick", "find"}
    BY <1>2 DEF RxPick, registry
  <2>. QED  BY <1>1, <2>1
<1>3. CASE RxFind
  <2>1. /\ rxPc = "find" /\ rxPc' \in {"pick", "pop"} /\ UNCHANGED <<recvQ, sendQ>>
        /\ rxPkt' = rxPkt \/ rxPkt' = NoPacket
    BY <1>3 DEF RxFind, RxFindThen, RxNext, registry
  <2>2. rxPkt = NoPacket
    BY <2>1 DEF Sides
  <2>. QED  BY <1>1, <2>1, <2>2
<1>4. CASE RxPop
  <2>1. CASE ~(rxIdx > nLockRecv) /\ rxIdx \in 1 .. Len(recvQ) /\ recvQ[rxIdx] # <<>>
    BY <1>4, <2>1, ServeRxPop
  <2>2. CASE ~(~(rxIdx > nLockRecv) /\ rxIdx \in 1 .. Len(recvQ) /\ recvQ[rxIdx] # <<>>)
    <3>1. /\ rxPc = "pop" /\ rxIdx \in 1 .. Len(remote) /\ Len(recvQ) \in Nat
      BY <1>4, LenProperties DEF RxPop, ServeInv, OwnInv, RxOwn, At, RegistryTypeOK
    <3>2. rxIdx > Len(recvQ) \/ rxIdx \in 1 .. Len(recvQ)
      BY <3>1
    <3>3. \/ rxIdx > nLockRecv \/ rxIdx > Len(recvQ) \/ recvQ[rxIdx] = <<>>
      BY <2>2, <3>2
    <3>4. /\ rxPc' \in {"pick", "pop"} /\ UNCHANGED <<recvQ, sendQ>>
          /\ rxPkt' = rxPkt \/ rxPkt' = NoPacket
      BY <1>4, <3>3 DEF RxPop, RxNext, rx
    <3>5. rxPkt = NoPacket
      BY <3>1 DEF Sides
    <3>. QED  BY <1>1, <3>1, <3>4, <3>5
  <2>. QED  BY <2>1, <2>2
<1>5. CASE RxUpdataRemoteFuncList
  <2>1. rxPc = "update" /\ rxPc' = "pick" /\ UNCHANGED <<recvQ, sendQ>> /\ rxPkt' = NoPacket
    BY <1>5 DEF RxUpdataRemoteFuncList, RxNext
  <2>2. rxPkt = NoPacket
    BY <2>1 DEF Sides
  <2>. QED  BY <1>1, <2>1, <2>2
<1>6. CASE RxReplyFind
  <2>1. rxPc = "replyFind" /\ rxSock \in Sockets /\ HasEntry(rxSock)
    BY <1>6 DEF RxReplyFind, ServeInv, OwnInv, RxOwn, Registered
  <2>2. FindIndexByPortName(rxSock) # 0
    BY <2>1, EntryFound DEF ServeInv
  <2>3. rxPc' = "replyPush" /\ UNCHANGED <<rxPkt, recvQ, sendQ>>
    BY <1>6, <2>2 DEF RxReplyFind, RxFindThen, registry
  <2>. QED  BY <1>1, <2>1, <2>3
<1>7. CASE RxPushPacketDataSend
  <2>1. CASE bad'
    <3>1. UNCHANGED <<rxPc, rxPkt, recvQ, sendQ>>
      BY <1>7, <2>1 DEF RxPushPacketDataSend, rx
    <3>. QED  BY <1>1, <3>1
  <2>. QED  BY <1>7, <2>1, ServeRxPush
<1>. QED  BY <1>2, <1>3, <1>4, <1>5, <1>6, <1>7 DEF ParamThreadRecvProc
(* ParamThreadSendProc sends a reply: no other call of the client is with
   the server that is as old.                                              *)
LEMMA ServeTxReply ==
  ASSUME ServeInv, TxSendToClient, txPkt.kind = "reply" PROVE Promised
<1>. DEFINE r == txPkt
            s == txSock
            n == r.id[2]
            Others == PacketsIn(wire) \cup {cliPkt[t] : t \in Sockets} \cup {rxPkt}
                        \cup PacketsIn(recvQ) \cup PacketsIn(sendQ)
            A == MeaningOf(WithServer)
            B == MeaningOf(WithServer')
            X == Meaning(r)
<1>1. /\ TypeInv /\ r \in AnyPacket /\ sent \in [Sockets -> Seq(Packet)] /\ RegistryTypeOK
      /\ cliPkt \in [Sockets -> AnyPacket] /\ rxPkt \in AnyPacket /\ Ordered(Later)
  BY PacketsTyped DEF ServeInv, OwnInv, TypeInv
<1>2. /\ r \in Packet /\ Call(r) /\ r.kind = "reply"
  BY <1>1, FlightTyped DEF Call
<1>3. /\ txPc = "send" /\ txPkt' = NoPacket
      /\ UNCHANGED <<issued, cliPkt, rxPkt, recvQ, sendQ>>
  BY DEF TxSendToClient, TxNext, registry, cli, rx
<1>4. s \in Sockets /\ r.id[1] = s /\ s \in open
  <2>1. s \in Sockets /\ r.id[1] = s /\ HasEntry(s)
    BY <1>3 DEF ServeInv, OwnInv, TxOwn, Registered
  <2>. QED  BY <1>1, <2>1, EntryFound DEF ServeInv
<1>5. sent' = [sent EXCEPT ![s] = Append(sent[s], r)] /\ UNCHANGED wire
  BY <1>2, <1>4 DEF TxSendToClient
<1>6. WithServer = Others \cup {r} /\ WithServer' = Others \cup {NoPacket}
  BY <1>3, <1>5 DEF WithServer, InHand
<1>7. ASSUME NEW p \in Others, p.kind \notin {"ask", "none", "list"}, p.id[1] = s
      PROVE  n < p.id[2]
  <2>1. p \in AnyPacket
    BY <1>1, FlightTyped DEF AnyPacket
  <2>2. Call(p)
    BY <1>7, <2>1 DEF AnyPacket, Packet, NoPacket, Call
  <2>3. r.id \in Places[7] /\ \E i \in 1 .. 6 : p.id \in Places[i]
    <3>1. r.id \in Places[7]
      BY <1>1, <1>2, PlacesOfCalls
    <3>2. \/ p.id \in Places[2] \/ p.id \in Places[3] \/ p.id \in Places[4]
          \/ p.id \in Places[5] \/ p.id \in Places[6]
      BY <1>1, <2>2, PlacesOfCalls
    <3>3. {2, 3, 4, 5, 6} \subseteq 1 .. 6
      OBVIOUS
    <3>. QED  BY <3>1, <3>2, <3>3
  <2>4. \A i \in 1 .. 6 : \A a \in Places[7], b \in Places[i] : a[1] = b[1] => a[2] < b[2]
    BY <1>1, PlacesOfCalls
  <2>. QED  BY <1>4, <1>7, <2>3, <2>4
<1>8. n \in Nat
  BY <1>1, <1>2, FlightTyped
<1>. HIDE DEF r, s, n, Others
<1>9. X.kind = "req" /\ X.id = r.id /\ X.id[1] = s /\ X.id[2] = n
  BY <1>2, <1>4 DEF Meaning, n
<1>10. \A p \in Others : p.kind \notin {"ask", "none"} =>
         /\ Meaning(p) # X
         /\ Meaning(p).id[1] = s => Meaning(p).kind = "list" \/ n < Meaning(p).id[2]
  <2>. SUFFICES ASSUME NEW p \in Others, p.kind \notin {"ask", "none"}
                PROVE  /\ Meaning(p) # X
                       /\ Meaning(p).id[1] = s => Meaning(p).kind = "list" \/ n < Meaning(p).id[2]
    OBVIOUS
  <2>1. Meaning(p).id = p.id /\ (p.kind = "list" <=> Meaning(p).kind = "list")
    BY DEF Meaning
  <2>2. CASE p.kind = "list" \/ p.id[1] # s
    BY <1>9, <2>1, <2>2
  <2>3. CASE p.kind # "list" /\ p.id[1] = s
    <3>1. n < p.id[2]
      BY <1>7, <2>3
    <3>2. p.id[2] # n
      BY <1>8, <3>1
    <3>. QED  BY <1>9, <2>1, <3>1, <3>2
  <2>. QED  BY <2>2, <2>3
<1>. HIDE DEF X
<1>11. A = MeaningOf(Others) \cup {X} /\ B = MeaningOf(Others)
  <2>1. MeaningOf(WithServer) = MeaningOf(Others) \cup MeaningOf({r})
    BY <1>6, MeaningProperties
  <2>2. MeaningOf({r}) = {X} /\ MeaningOf({NoPacket}) = {}
    BY <1>2, MeaningProperties DEF X
  <2>3. MeaningOf(Others \cup {NoPacket}) = MeaningOf(Others) \cup MeaningOf({NoPacket})
    BY MeaningProperties
  <2>4. MeaningOf(WithServer') = MeaningOf(Others)
    BY <1>6, <2>2, <2>3
  <2>. QED  BY <2>1, <2>2, <2>4
<1>12. \A y \in MeaningOf(Others) : y # X /\ (y.id[1] = s => y.kind = "list" \/ n < y.id[2])
  BY <1>10, MeaningProperties
<1>13. Answers' = [Answers EXCEPT ![s] = Answers[s] \cup {r.id}]
  <2>1. Range(sent'[s]) = Range(sent[s]) \cup {r}
    <3>1. sent[s] \in Seq(Packet) /\ sent'[s] = Append(sent[s], r)
      BY <1>1, <1>4, <1>5
    <3>. QED  BY <1>2, <3>1, AppendedRange
  <2>2. \A t \in Sockets : t = s => AnsweredTo(t)' = AnsweredTo(t) \cup {r.id}
    BY <1>2, <2>1 DEF AnsweredTo
  <2>3. \A t \in Sockets : t # s => AnsweredTo(t)' = AnsweredTo(t)
    BY <1>1, <1>4, <1>5 DEF AnsweredTo
  <2>. QED  BY <1>4, <2>2, <2>3 DEF Answers
<1>. HIDE DEF A, B
<1>14. /\ X \in A /\ X.kind = "req" /\ B = A \ {X} /\ UNCHANGED issued
       /\ \A y \in A \ {X} : y.id[1] = X.id[1] => y.kind = "list" \/ X.id[2] < y.id[2]
  BY <1>3, <1>9, <1>11, <1>12
<1>15. Answers' = [Answers EXCEPT ![X.id[1]] = @ \cup {X.id}]
  BY <1>9, <1>13
<1>16. Service!Oldest(X)
  BY <1>14 DEF Service!Oldest, A, MeaningOf
<1>17. Service!Answer(X)
  BY <1>14, <1>15, <1>16 DEF Service!Answer, Answers, A, B, MeaningOf
<1>. QED  BY <1>14, <1>17 DEF Promised, Service!Next, A

(* It sends a question, and the client answers with its list.              *)
LEMMA ServeTxAsk ==
  ASSUME ServeInv, TxSendToClient, txPkt.kind = "ask"
  PROVE  Promised /\ PacketsIn(wire') \subseteq PacketsIn(wire) \cup {ListPacket(txSock)}
<1>. DEFINE r == txPkt
            s == txSock
            x == ListPacket(s)
            Others == PacketsIn(wire) \cup {cliPkt[t] : t \in Sockets} \cup {rxPkt}
                        \cup PacketsIn(recvQ) \cup PacketsIn(sendQ)
<1>1. /\ TypeInv /\ r \in AnyPacket /\ sent \in [Sockets -> Seq(Packet)] /\ RegistryTypeOK
      /\ wire \in [Sockets -> Seq(Packet)]
  BY PacketsTyped DEF ServeInv, OwnInv, TypeInv
<1>2. r \in Packet /\ r.kind = "ask"
  BY <1>1, FlightTyped
<1>3. /\ txPc = "send" /\ txPkt' = NoPacket
      /\ UNCHANGED <<issued, cliPkt, rxPkt, recvQ, sendQ>>
  BY DEF TxSendToClient, TxNext, registry, cli, rx
<1>4. s \in Sockets /\ s \in open /\ ~fin[s]
  <2>1. s \in Sockets /\ HasEntry(s)
    BY <1>3 DEF ServeInv, OwnInv, TxOwn, Registered
  <2>. QED  BY <1>1, <2>1, EntryFound DEF ServeInv, OwnInv, NobodyLeaves
<1>5. /\ sent' = [sent EXCEPT ![s] = Append(sent[s], r)]
      /\ wire' = [wire EXCEPT ![s] = Append(wire[s], x)]
  BY <1>4 DEF TxSendToClient
<1>6. x \in Packet /\ x.kind = "list" /\ Meaning(x) = Service!ListOf(s)
  <2>1. <<s, 0>> \in Id
    BY <1>4, CommAssumption DEF Id
  <2>2. x = [kind |-> "list", id |-> <<s, 0>>, out |-> {}]
    BY DEF ListPacket
  <2>. HIDE DEF x
  <2>. QED  BY <2>1, <2>2 DEF Packet, Meaning, Service!ListOf
<1>. HIDE DEF r, s, x
<1>7. PacketsIn(wire') = PacketsIn(wire) \cup {x}
  <2>1. Except(wire, wire', s) /\ wire'[s] = Append(wire[s], x) /\ wire[s] \in Seq(Packet)
    BY <1>1, <1>4, <1>5 DEF Except
  <2>. QED  BY <1>6, <2>1, PacketsAppended
<1>8. WithServer = Others \cup {r} /\ WithServer' = Others \cup {NoPacket} \cup {x}
  BY <1>3, <1>7 DEF WithServer, InHand, r
<1>. HIDE DEF Others
<1>9. MeaningOf(WithServer') = MeaningOf(WithServer) \cup {Service!ListOf(s)}
  <2>1. MeaningOf({r}) = {} /\ MeaningOf({x}) = {Service!ListOf(s)} /\ MeaningOf({NoPacket}) = {}
    BY <1>2, <1>6, MeaningProperties
  <2>2. MeaningOf(Others \cup {r}) = MeaningOf(Others) \cup MeaningOf({r})
    BY MeaningProperties
  <2>3. MeaningOf(Others \cup {NoPacket}) = MeaningOf(Others) \cup MeaningOf({NoPacket})
    BY MeaningProperties
  <2>4. MeaningOf(Others \cup {NoPacket} \cup {x}) =
          MeaningOf(Others \cup {NoPacket}) \cup MeaningOf({x})
    <3>. DEFINE M == Others \cup {NoPacket}
    <3>. HIDE DEF M
    <3>1. MeaningOf(M \cup {x}) = MeaningOf(M) \cup MeaningOf({x})
      BY MeaningProperties
    <3>. QED  BY <3>1 DEF M
  <2>. QED  BY <1>8, <2>1, <2>2, <2>3, <2>4
<1>10. UNCHANGED Answers
  <2>1. Range(sent'[s]) = Range(sent[s]) \cup {r}
    <3>1. sent[s] \in Seq(Packet) /\ sent'[s] = Append(sent[s], r)
      BY <1>1, <1>4, <1>5
    <3>. QED  BY <1>2, <3>1, AppendedRange
  <2>2. \A t \in Sockets : t = s => AnsweredTo(t)' = AnsweredTo(t)
    BY <1>2, <2>1 DEF AnsweredTo
  <2>3. \A t \in Sockets : t # s => AnsweredTo(t)' = AnsweredTo(t)
    BY <1>1, <1>4, <1>5 DEF AnsweredTo
  <2>. QED  BY <2>2, <2>3 DEF Answers
<1>11. Service!SendList(s)
  BY <1>3, <1>9, <1>10 DEF Service!SendList, Answers, MeaningOf
<1>. QED  BY <1>4, <1>7, <1>11 DEF Promised, Service!Next, x, s

(* It takes a packet from a send queue.                                    *)
LEMMA ServeTxPop ==
  ASSUME ServeInv, TxPop, ~bad', txIdx \in 1 .. Len(sendQ), sendQ[txIdx] # <<>>
  PROVE  Sides' /\ Quiet' /\ Promised
<1>. DEFINE i == txIdx
            h == Head(sendQ[i])
<1>1. /\ TypeInv /\ sendQ \in Seq(Seq(Packet)) /\ Sides /\ Quiet
  BY PacketsTyped DEF ServeInv, OwnInv
<1>2. ~(txIdx > Len(sendQ))
  BY <1>1, LenProperties
<1>3. /\ txPc = "pop" /\ sendQ' = PopFirst(sendQ, i) /\ txPc' = "send" /\ txPkt' = h
      /\ UNCHANGED <<issued, sent, wire, cliPc, cliPkt, recvQ, rxPc, rxPkt>>
  BY <1>2 DEF TxPop, net, cli, rx
<1>4. h \in Packet /\ PacketsIn(sendQ) = PacketsIn(sendQ') \cup {h}
  <2>1. DOMAIN sendQ = 1 .. Len(sendQ) /\ sendQ[i] \in Seq(Packet)
    BY <1>1, LenProperties, ElementOfSeq
  <2>2. Except(sendQ, sendQ', i) /\ sendQ'[i] = Tail(sendQ[i])
    BY <1>3, <2>1 DEF Except, PopFirst
  <2>. QED  BY <2>1, <2>2, PacketsPopped
<1>. HIDE DEF h, i
<1>5. txPkt = NoPacket
  BY <1>1, <1>3 DEF Sides
<1>6. InHand' \subseteq InHand \cup {h} /\ h \in InHand' /\ InHand \subseteq InHand' \cup {NoPacket}
  BY <1>3, <1>5 DEF InHand
<1>7. /\ WithServer' \subseteq WithServer \cup {NoPacket}
      /\ WithServer \subseteq WithServer' \cup {NoPacket}
  BY <1>3, <1>4, <1>6 DEF WithServer
<1>8. Promised
  BY <1>3, <1>7, PacketsKept
<1>9. Sides'
  BY <1>1, <1>3, <1>4 DEF Sides
<1>10. Quiet'
  BY <1>1, <1>3, <1>4, <1>6 DEF Quiet
<1>. QED  BY <1>8, <1>9, <1>10

LEMMA ServeTxSend ==
  ASSUME ServeInv, TxSendToClient PROVE Sides' /\ Quiet' /\ Promised
<1>1. /\ txPc = "send" /\ txPc' = "pick" /\ txPkt' = NoPacket /\ Sides /\ Quiet
      /\ UNCHANGED <<cliPc, cliPkt, rxPc, rxPkt, recvQ, sendQ>>
  BY DEF TxSendToClient, TxNext, registry, cli, rx, ServeInv
<1>2. txPkt.kind \in Answering
  BY <1>1 DEF Sides
<1>3. Promised /\ PacketsIn(wire') \subseteq PacketsIn(wire) \cup {ListPacket(txSock)}
  <2>1. CASE txPkt.kind = "ask"
    BY <2>1, ServeTxAsk
  <2>2. CASE txPkt.kind = "reply"
    <3>1. UNCHANGED wire
      BY <2>2 DEF TxSendToClient
    <3>. QED  BY <2>2, <3>1, ServeTxReply
  <2>. QED  BY <1>2, <2>1, <2>2 DEF Answering
<1>4. Sides'
  <2>1. ListPacket(txSock).kind \in Asking
    BY DEF ListPacket, Asking
  <2>. QED  BY <1>1, <1>3, <2>1 DEF Sides
<1>5. Quiet'
  <2>1. InHand' \subseteq InHand \cup {NoPacket} /\ ~Call(NoPacket)
    BY <1>1 DEF InHand, NoPacket, Call
  <2>. QED  BY <1>1, <2>1 DEF Quiet
<1>. QED  BY <1>3, <1>4, <1>5

LEMMA ServeParamThreadSendProc ==
  ASSUME ServeInv, ~bad, ParamThreadSendProc PROVE Sides' /\ Quiet' /\ Promised
<1>. TypeInv /\ RegistryTypeOK /\ TxTypeOK /\ Sides /\ Quiet
  BY DEF ServeInv, OwnInv, TypeInv, TxInv
<1>1. ASSUME UNCHANGED <<wire, sent, txPkt, recvQ, sendQ>>, txPc' = "send" <=> txPc = "send"
      PROVE  Sides' /\ Quiet' /\ Promised
  <2>1. UNCHANGED <<issued, cliPc, cliPkt, rxPc, rxPkt>>
    BY DEF ParamThreadSendProc, TxPick, TxFind, TxPop, TxSendToClient, net, cli, rx
  <2>. QED  BY <1>1, <2>1, ServeKept
<1>2. CASE TxPick
  <2>1. UNCHANGED <<wire, sent, txPkt, recvQ, sendQ>> /\ txPc = "pick" /\ txPc' \in {"pick", "find"}
    BY <1>2 DEF TxPick, net, registry
  <2>. QED  BY <1>1, <2>1
<1>3. CASE TxFind
  <2>1. /\ txPc = "find" /\ txPc' \in {"pick", "pop"} /\ UNCHANGED <<wire, sent, recvQ, sendQ>>
        /\ txPkt' = txPkt \/ txPkt' = NoPacket
    BY <1>3 DEF TxFind, TxNext, net, registry
  <2>2. txPkt = NoPacket
    BY <2>1 DEF Sides
  <2>. QED  BY <1>1, <2>1, <2>2
<1>4. CASE TxPop
  <2>1. CASE ~bad' /\ txIdx \in 1 .. Len(sendQ) /\ sendQ[txIdx] # <<>>
    BY <1>4, <2>1, ServeTxPop
  <2>2. CASE ~(~bad' /\ txIdx \in 1 .. Len(sendQ) /\ sendQ[txIdx] # <<>>)
    <3>1. /\ txPc = "pop" /\ txIdx \in 1 .. Len(remote) /\ Len(sendQ) \in Nat
      BY <1>4, LenProperties DEF TxPop, ServeInv, OwnInv, TxOwn, At, RegistryTypeOK
    <3>2. txIdx > Len(sendQ) \/ txIdx \in 1 .. Len(sendQ)
      BY <3>1
    <3>3. \/ txIdx > nLockSend \/ txIdx > Len(sendQ) \/ sendQ[txIdx] = <<>>
      BY <1>4, <2>2, <3>2 DEF TxPop
    <3>4. /\ txPc' \in {"pick", "pop"} /\ UNCHANGED <<wire, sent, recvQ, sendQ>>
          /\ txPkt' = txPkt \/ txPkt' = NoPacket
      BY <1>4, <3>3 DEF TxPop, TxNext, tx, net
    <3>5. txPkt = NoPacket
      BY <3>1 DEF Sides
    <3>. QED  BY <1>1, <3>1, <3>4, <3>5
  <2>. QED  BY <2>1, <2>2
<1>5. CASE TxSendToClient
  BY <1>5, ServeTxSend
<1>. QED  BY <1>2, <1>3, <1>4, <1>5 DEF ParamThreadSendProc
-----------------------------------------------------------------------------
LEMMA NextServe ==
  ASSUME ServeInv, OwnAddresses, [Next]_vars PROVE Sides' /\ Quiet' /\ Promised
<1>. TypeInv /\ Sides /\ Quiet
  BY DEF ServeInv, OwnInv
<1>1. ASSUME UNCHANGED <<issued, sent, wire, recvQ, sendQ, cliPc, cliPkt, rxPc, rxPkt, txPc, txPkt>>
      PROVE  Sides' /\ Quiet' /\ Promised
  BY <1>1, ServeKept
<1>2. ASSUME ~bad, NEW s \in Sockets, Client(s) \/ Accept(s) \/ ProcessClient(s)
      PROVE  Sides' /\ Quiet' /\ Promised
  <2>1. CASE ClientClose(s)
    <3>1. UNCHANGED <<issued, sent, wire, recvQ, sendQ, cliPc, cliPkt, rxPc, rxPkt, txPc, txPkt>>
      BY <2>1 DEF ClientClose, registry, cli, rx, tx
    <3>. QED  BY <1>1, <3>1
  <2>2. CASE \E kind \in Kinds[s] : ClientSend(s, kind)
    BY <2>2, ServeClientSend
  <2>3. CASE Accept(s)
    <3>1. UNCHANGED <<issued, sent, wire, recvQ, sendQ, cliPc, cliPkt, rxPc, rxPkt, txPc, txPkt>>
      BY <2>3 DEF Accept, registry, cli, rx, tx
    <3>. QED  BY <1>1, <3>1
  <2>4. CASE ProcessClient(s)
    BY <1>2, <2>4, ServeProcessClient
  <2>. QED  BY <1>2, <2>1, <2>2, <2>3, <2>4 DEF Client
<1>3. CASE UNCHANGED vars
  <2>1. UNCHANGED <<issued, sent, wire, recvQ, sendQ, cliPc, cliPkt, rxPc, rxPkt, txPc, txPkt>>
    BY <1>3 DEF vars, net, registry, cli, rx, tx
  <2>. QED  BY <1>1, <2>1
<1>. QED  BY <1>2, <1>3, ServeAcceptThread, ServeParamThreadRecvProc, ServeParamThreadSendProc
          DEF Next, Halted

LEMMA InitServe ==
  ASSUME Init PROVE Sides /\ Quiet /\ MeaningOf(WithServer) = {} /\ Service!Init
<1>1. \A s \in Sockets : Range(wire[s]) = {} /\ Range(sent[s]) = {}
  BY EmptySorted DEF Init
<1>2. DOMAIN wire = Sockets /\ DOMAIN recvQ = {} /\ DOMAIN sendQ = {}
  BY EmptySorted DEF Init
<1>3. PacketsIn(wire) = {} /\ PacketsIn(recvQ) = {} /\ PacketsIn(sendQ) = {}
  BY <1>1, <1>2 DEF PacketsIn
<1>4. InHand \subseteq {NoPacket}
  BY DEF Init, InHand
<1>5. Sides
  BY <1>3 DEF Init, Sides
<1>6. Quiet
  BY <1>3, <1>4 DEF Quiet, Call, NoPacket
<1>7. MeaningOf(WithServer) = {}
  BY <1>3, <1>4 DEF WithServer, MeaningOf, NoPacket
<1>8. \A s \in Sockets : AnsweredTo(s) = {}
  BY <1>1 DEF AnsweredTo
<1>9. issued = [s \in Sockets |-> 0]
  BY DEF Init
<1>. QED  BY <1>5, <1>6, <1>7, <1>8, <1>9 DEF Service!Init, MeaningOf

(* Without disconnects, and with a local address for every socket, the     *)
(* server does what OrderedService says: of the calls of a client, which   *)
(* pass through its receive queue, ParamThreadRecvProc, its send queue and *)
(* ParamThreadSendProc, the oldest is answered next, and a call is lost    *)
(* only to a later packet of that client that a full queue took instead.   *)
THEOREM ServedInOrder ==
  ASSUME Leaving = {}, OwnAddresses PROVE Spec => ServesInOrder
<1>1. Init => ServeInv /\ Service!Init
  <2>. SUFFICES ASSUME Init PROVE ServeInv /\ Service!Init
    OBVIOUS
  <2>1. HeldOwn
    BY DEF Init, HeldOwn, NoPacket, Call
  <2>. QED  BY <2>1, InitOwnInv, InitLengths, InitEntriesOnce, InitOrdered, InitRegistered, InitServe
            DEF ServeInv
<1>2. ServeInv /\ [Next]_vars =>
        ServeInv' /\ [Service!Next]_<<issued, MeaningOf(WithServer), [s \in Sockets |-> AnsweredTo(s)]>>
  <2>. SUFFICES ASSUME ServeInv, [Next]_vars PROVE ServeInv' /\ Promised
    BY DEF Promised, Answers, MeaningOf
  <2>1. OwnInv' /\ HeldOwn' /\ TypeInv
    BY NextOwnInv, NextHeldOwn DEF ServeInv, OwnInv
  <2>2. NotStarted' /\ EntriesOnce'
    BY <2>1, NextNotStarted, NextEntriesOnce DEF ServeInv
  <2>3. Ordered(Later)'
    BY <2>1, OwnApart, LaterOrder, NextOrdered DEF ServeInv
  <2>4. Registered'
    BY NextRegistered DEF ServeInv
  <2>. QED  BY <2>1, <2>2, <2>3, <2>4, NextServe DEF ServeInv
<1>. QED  BY <1>1, <1>2, PTL DEF Spec, ServesInOrder, Service!Spec
=============================================================================
