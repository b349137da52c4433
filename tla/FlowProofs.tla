----------------------------- MODULE FlowProofs -----------------------------
(***************************************************************************)
(* Proofs about Flow for a message of any length and a ring of any size.   *)
(*                                                                         *)
(* FlowContract speaks about what was written and how the two ended.  The  *)
(* inductive invariant numbers the packets: the sender has sent packets    *)
(* 0 .. sent - 1, of which the receiver has dealt with the first Handled; what *)
(* each packet says and what each buffer holds follow from its number.     *)
(***************************************************************************)
EXTENDS Flow, TLAPS

\* Two numbers that are less than the size of the ring apart use different buffers.
LEMMA SlotsDiffer ==
  ASSUME NEW r \in Nat \ {0}, NEW a \in Nat, NEW b \in Nat, a < b, b - a < r
  PROVE  a % r # b % r
<1> DEFINE qa == a \div r  qb == b \div r
<1>1. /\ qa \in Nat /\ qb \in Nat
      /\ a = r * qa + (a % r) /\ b = r * qb + (b % r)
  OBVIOUS
<1> QED
  <2> SUFFICES ASSUME a % r = b % r PROVE FALSE
    OBVIOUS
  <2>0. a % r \in Nat
    OBVIOUS
  <2>1. b - a = r * (qb - qa)
    BY <1>1, <2>0
  <2>2. CASE qb - qa >= 1
    BY <2>1, <2>2, <1>1
  <2>3. CASE qb - qa < 1
    BY <2>1, <2>3, <1>1
  <2> QED
    BY <2>2, <2>3, <1>1

\* Acknowledged packets, and those whose acknowledgement is still in the flowQueue.
Handled == acked + Len(acks)

\* The packet that the receiver has taken and not yet acknowledged.
InHand == IF receiver = "copy" THEN 1 ELSE 0

\* The buffer that packet n points to.
Place(n) == n % RingBuffers

\* The packet with the chunk that follows n others, and the one that ends a transfer
\* with an error.
Chunk(n) == Packet(Place(n), n + 1 = MessageChunks, FALSE)
EndPacket(error) == Packet(-1, TRUE, error = "fault")

\* What packet n says.
PacketNo(n) == IF n < flowProgress THEN Chunk(n) ELSE EndPacket(sEnd)

\* Nothing more will be sent.
Ended == sender \in {"end", "gone"}

\* How many packets there are, and where they are.
Counting ==
  /\ sent = Handled + InHand + Len(xfer)
  /\ sender \in {"ack", "send"} => sent = flowProgress /\ sEnd = "success"
  /\ sender = "send" => flowProgress < MessageChunks /\ ~anyFault
  /\ sender = "drain" => sent = flowProgress + 1
  /\ Ended => sent = acked /\ (sent = flowProgress => flowProgress = MessageChunks)
                           /\ sent \in {flowProgress, flowProgress + 1}
  /\ sent = flowProgress + 1 => flowProgress < MessageChunks /\ sEnd # "success"
  /\ sent - acked <= RingBuffers
  /\ sender = "send" => sent - acked < RingBuffers

\* What the packets and the buffers hold.
Contents ==
  /\ \A i \in 1..Len(xfer) : xfer[i] = PacketNo(Handled + InHand + i - 1)
  /\ receiver = "copy" => packet = PacketNo(Handled)
  /\ \A n \in acked..(flowProgress - 1) : buf[Place(n)] = n + 1
  /\ sender = "send" => buf[Place(sent)] = flowProgress + 1

\* What the receiver has written.
Written ==
  /\ DataIntact
  /\ Len(dest) <= flowProgress
  /\ ~didFault => Len(dest) = IF Handled <= flowProgress THEN Handled ELSE flowProgress

\* What the sender knows of the receiver's faults.
Faults ==
  /\ anyFault => didFault
  /\ sEnd = "remoteFault" => didFault
  /\ \A i \in 1..Len(acks) : acks[i].fault => didFault
  /\ acks # <<>> => (acks[Len(acks)].fault <=> didFault)
  /\ acks = <<>> /\ sent = flowProgress => (anyFault <=> didFault)
  /\ Ended /\ sent = flowProgress => sEnd = IF didFault THEN "remoteFault" ELSE "success"

\* How the receiver ended: with the last chunk, or with the end of a failed transfer.
Outcome ==
  /\ receiver \in {"end", "gone"} <=> Handled = MessageChunks \/ Handled = flowProgress + 1
  /\ receiver \in {"end", "gone"} =>
       rEnd = IF didFault THEN "fault"
              ELSE IF Handled = flowProgress + 1 /\ sEnd = "fault" THEN "remoteFault"
              ELSE "success"

\* The inductive invariant behind FlowContract.
FlowInv == FlowTypeOK /\ Counting /\ Contents /\ Written /\ Faults /\ Outcome

\* Every buffer of the ring has its place in it.
LEMMA SlotsInRing == \A n \in Nat : Place(n) \in 0..(RingBuffers - 1)
  BY FlowAssumption DEF Place

\* What Seq() says of the operations on the flowQueues.
LEMMA AppendType == ASSUME NEW S, NEW q \in Seq(S), NEW e \in S PROVE Append(q, e) \in Seq(S)
  OBVIOUS

\* What is known of a packet.
LEMMA PacketFacts ==
  ASSUME NEW p \in PacketType
  PROVE  /\ p.data \in (-1)..(RingBuffers - 1)
         /\ p.terminate \in BOOLEAN /\ p.fault \in BOOLEAN
  BY DEF PacketType

\* What a packet is made of.
LEMMA PacketMade ==
  ASSUME NEW d \in (-1)..(RingBuffers - 1), NEW t \in BOOLEAN, NEW f \in BOOLEAN
  PROVE  /\ Packet(d, t, f) \in PacketType
         /\ Packet(d, t, f).data = d /\ Packet(d, t, f).terminate = t /\ Packet(d, t, f).fault = f
  BY DEF Packet, PacketType

\* What is known of a packet with a chunk ...
LEMMA ChunkFacts ==
  ASSUME NEW n \in Nat
  PROVE  /\ Chunk(n) \in PacketType
         /\ Chunk(n).data = Place(n) /\ Chunk(n).data # -1
         /\ Chunk(n).terminate <=> n + 1 = MessageChunks
         /\ ~Chunk(n).fault
<1>1. Place(n) \in (-1)..(RingBuffers - 1) /\ Place(n) # -1
  BY SlotsInRing, FlowAssumption
<1>2. (n + 1 = MessageChunks) \in BOOLEAN /\ FALSE \in BOOLEAN
  OBVIOUS
<1> QED
  BY Zenon, <1>1, <1>2, PacketMade DEF Chunk

\* ... and of one that ends a transfer.
LEMMA EndPacketFacts ==
  ASSUME NEW error
  PROVE  /\ EndPacket(error) \in PacketType
         /\ EndPacket(error).data = -1
         /\ EndPacket(error).terminate
         /\ EndPacket(error).fault <=> error = "fault"
<1>1. -1 \in (-1)..(RingBuffers - 1)
  BY FlowAssumption
<1>2. (error = "fault") \in BOOLEAN /\ TRUE \in BOOLEAN
  OBVIOUS
<1> QED
  BY Zenon, <1>1, <1>2, PacketMade DEF EndPacket

\* What StopForRemote and StopForFault do.
LEMMA StopEffect ==
  ASSUME StopForRemote \/ StopForFault
  PROVE  /\ sender = "ack" /\ ~MustWait /\ ~lastTransferSent
         /\ sEnd' \in {"fault", "remoteFault"}
         /\ sEnd' = "remoteFault" => anyFault
         /\ xfer' = Append(xfer, EndPacket(sEnd'))
         /\ sent' = sent + 1 /\ sender' = "drain"
         /\ UNCHANGED <<acks, buf, acked, flowProgress, anyFault, packet, dest, didFault, receiver, rEnd>>
  BY DEF StopForRemote, StopForFault, EndPacket, receiverVars

\* What SendChunk does.
LEMMA SendEffect ==
  ASSUME SendChunk, FlowTypeOK, Counting
  PROVE  /\ sender = "send"
         /\ xfer' = Append(xfer, Chunk(sent))
         /\ sent' = sent + 1 /\ flowProgress' = flowProgress + 1 /\ anyFault' \in BOOLEAN /\ ~anyFault' /\ sender' = "ack"
         /\ UNCHANGED <<acks, buf, acked, sEnd, packet, dest, didFault, receiver, rEnd>>
<1>1. sent = flowProgress
  BY DEF SendChunk, FlowTypeOK, Counting
<1> QED
  BY Zenon, <1>1 DEF SendChunk, Chunk, Place, Slot, receiverVars

\* What CopyAndAck does.
LEMMA CopyEffect ==
  ASSUME NEW ok \in BOOLEAN, CopyAndAck(ok), FlowTypeOK
  PROVE  \E ack \in PacketType :
         /\ receiver = "copy"
         /\ didFault' \in BOOLEAN
         /\ didFault => didFault'
         /\ packet.data = -1 => (didFault' <=> didFault)
         /\ packet.data # -1 /\ ~didFault /\ ~didFault' => dest' = Append(dest, buf[packet.data])
         /\ packet.data = -1 \/ didFault \/ didFault' => dest' = dest
         /\ acks' = Append(acks, ack) /\ (ack.fault <=> didFault')
         /\ ~packet.terminate => rEnd' = rEnd /\ receiver' = "get"
         /\ packet.terminate => /\ receiver' = "end"
                                /\ rEnd' = IF didFault' THEN "fault"
                                           ELSE IF packet.fault THEN "remoteFault" ELSE "success"
         /\ UNCHANGED <<xfer, buf, sent, acked, flowProgress, anyFault, sender, sEnd, packet>>
<1> DEFINE ack == Packet(-1, packet.terminate, didFault')
<1>1. didFault' \in BOOLEAN /\ packet.terminate \in BOOLEAN
  BY Zenon, PacketFacts DEF CopyAndAck, FlowTypeOK
<1>2. ack \in PacketType /\ (ack.fault <=> didFault')
  <2>1. -1 \in (-1)..(RingBuffers - 1)
    BY FlowAssumption
  <2> QED
    BY Zenon, <1>1, <2>1, PacketMade
<1>3. acks' = Append(acks, ack)
  BY Zenon DEF CopyAndAck
<1> HIDE DEF ack
<1>4. /\ didFault => didFault'
      /\ packet.data = -1 => (didFault' <=> didFault)
      /\ packet.data # -1 /\ ~didFault /\ ~didFault' => dest' = Append(dest, buf[packet.data])
      /\ packet.data = -1 \/ didFault \/ didFault' => dest' = dest
  BY Zenon DEF CopyAndAck, FlowTypeOK
<1>5. /\ receiver = "copy"
      /\ ~packet.terminate => rEnd' = rEnd /\ receiver' = "get"
      /\ packet.terminate => /\ receiver' = "end"
                             /\ rEnd' = IF didFault' THEN "fault"
                                        ELSE IF packet.fault THEN "remoteFault" ELSE "success"
      /\ UNCHANGED <<xfer, buf, sent, acked, flowProgress, anyFault, sender, sEnd, packet>>
  BY Zenon DEF CopyAndAck, senderVars
<1> QED
  BY Zenon, <1>1, <1>2, <1>3, <1>4, <1>5

\* Two coroutines that have just started are in the invariant.
LEMMA FlowInvInit == FlowInit => FlowInv
<1> SUFFICES ASSUME FlowInit PROVE FlowInv
  OBVIOUS
<1>1. FlowTypeOK
  <2>1. -1 \in (-1)..(RingBuffers - 1) /\ FALSE \in BOOLEAN
    BY FlowAssumption
  <2>2. NoPacket \in PacketType
    BY Zenon, <2>1, PacketMade DEF NoPacket
  <2>3. anyFault \in BOOLEAN /\ didFault \in BOOLEAN
    BY Zenon DEF FlowInit
  <2> QED
    BY <2>2, <2>3, FlowAssumption DEF FlowInit, FlowTypeOK, Errors
<1>2. Handled = 0 /\ InHand = 0 /\ ~Ended
  BY DEF FlowInit, Handled, InHand, Ended
<1> QED
  BY <1>1, <1>2, FlowAssumption
     DEF FlowInit, FlowInv, Counting, Contents, Written, DataIntact, Faults, Outcome

\* What the types say of the numbers, for the steps below.
NumbersOK ==
  /\ sent \in Nat /\ acked \in Nat /\ flowProgress \in Nat /\ flowProgress <= MessageChunks
  /\ MessageChunks \in Nat /\ RingBuffers \in Nat /\ RingBuffers > 0 /\ MessageChunks > 0
  /\ Len(xfer) \in Nat /\ Len(acks) \in Nat /\ Len(dest) \in Nat
  /\ Handled \in Nat /\ Handled = acked + Len(acks) /\ InHand \in {0, 1}

\* The numbers that a transfer is counted with are natural numbers.
LEMMA Numbers == FlowInv => NumbersOK
  BY FlowAssumption DEF NumbersOK, FlowInv, FlowTypeOK, Handled, InHand

\* The sender takes an acknowledgement while it may still send.
LEMMA TakeAckStep ==
  ASSUME FlowInv, TakeAck
  PROVE  FlowInv'
<1>0. /\ NumbersOK
      /\ FlowTypeOK /\ Counting /\ Contents /\ Written /\ Faults /\ Outcome
  BY Numbers DEF FlowInv
<1>1. /\ Head(acks) \in PacketType /\ Tail(acks) \in Seq(PacketType)
      /\ Len(Tail(acks)) = Len(acks) - 1 /\ Len(acks) > 0
  BY <1>0 DEF TakeAck, FlowTypeOK
<1>2. anyFault' \in BOOLEAN /\ (anyFault' <=> anyFault \/ Head(acks).fault)
  BY Zenon, <1>0, <1>1, PacketFacts DEF TakeAck, FlowTypeOK
<1>3. /\ sender = "ack" /\ acks' = Tail(acks) /\ acked' = acked + 1
      /\ UNCHANGED <<xfer, buf, sent, flowProgress, sender, sEnd, packet, dest, didFault, receiver, rEnd>>
  BY DEF TakeAck, receiverVars
<1>4. FlowTypeOK'
  BY <1>0, <1>1, <1>2, <1>3 DEF FlowTypeOK
<1>5. Handled' = Handled /\ InHand' = InHand /\ ~Ended /\ ~Ended'
  BY <1>0, <1>1, <1>3 DEF Handled, InHand, Ended, NumbersOK
<1>6. Counting'
  BY <1>0, <1>3, <1>5 DEF NumbersOK, Counting
<1>7. Contents'
  <2>1. \A n : PacketNo(n)' = PacketNo(n)
    BY <1>3 DEF PacketNo
  <2> QED
    BY <1>0, <1>3, <1>5, <2>1 DEF NumbersOK, Contents
<1>8. Written'
  BY <1>0, <1>3, <1>5 DEF Written, DataIntact
<1>9. Faults'
  <2>1. \A i \in 1..Len(Tail(acks)) : Tail(acks)[i] = acks[i + 1] /\ i + 1 \in 1..Len(acks)
    BY <1>0, <1>1 DEF FlowTypeOK
  <2>2. acks # <<>> /\ acks[1] = Head(acks) /\ 1 \in 1..Len(acks)
    BY <1>0, <1>1 DEF FlowTypeOK
  <2>3. Tail(acks) # <<>> => Len(Tail(acks)) \in 1..Len(Tail(acks))
    BY <1>1
  <2>4. Tail(acks) = <<>> => Len(acks) = 1
    <3>1. Tail(acks) = <<>> => Len(Tail(acks)) = 0
      OBVIOUS
    <3> QED
      BY <1>0, <1>1, <3>1 DEF NumbersOK
  <2> QED
    BY <1>0, <1>1, <1>2, <1>3, <1>5, <2>1, <2>2, <2>3, <2>4 DEF NumbersOK, Faults
<1>10. Outcome'
  BY <1>0, <1>3, <1>5 DEF Outcome
<1> QED
  BY <1>4, <1>6, <1>7, <1>8, <1>9, <1>10 DEF FlowInv

\* The sender finds that all its chunks have been acknowledged.
LEMMA FinishedStep ==
  ASSUME FlowInv, Finished
  PROVE  FlowInv'
<1>0. /\ NumbersOK
      /\ FlowTypeOK /\ Counting /\ Contents /\ Written /\ Faults /\ Outcome
  BY Numbers DEF FlowInv
<1>1. /\ sender = "ack" /\ flowProgress = MessageChunks /\ sender' = "end"
      /\ sEnd' = IF anyFault THEN "remoteFault" ELSE "success"
      /\ UNCHANGED <<xfer, acks, buf, sent, acked, flowProgress, anyFault, packet, dest, didFault,
                     receiver, rEnd>>
  BY DEF Finished, lastTransferSent, receiverVars
<1>2. sent = acked
  BY <1>0, <1>1 DEF Finished, MustWait, lastTransferSent
<1>3. /\ Handled' = Handled /\ InHand' = InHand /\ Ended'
      /\ Len(xfer) = 0 /\ receiver # "copy" /\ Len(acks) = 0 /\ Handled = sent /\ sent = flowProgress
  BY <1>0, <1>1, <1>2 DEF Handled, InHand, Ended, NumbersOK, Counting
<1>4. FlowTypeOK'
  BY <1>0, <1>1 DEF FlowTypeOK, Errors
<1>5. Counting'
  BY <1>0, <1>1, <1>2, <1>3 DEF NumbersOK, Counting
<1>6. Contents'
  BY <1>0, <1>1, <1>2, <1>3 DEF NumbersOK, Contents
<1>7. Written'
  BY <1>0, <1>1, <1>3 DEF Written, DataIntact
<1>8. Faults'
  <2>1. acks = <<>>
    BY <1>0, <1>3 DEF FlowTypeOK
  <2> QED
    BY <1>0, <1>1, <1>3, <2>1 DEF NumbersOK, Faults
<1>9. Outcome'
  BY <1>0, <1>1, <1>3 DEF NumbersOK, Outcome
<1> QED
  BY <1>4, <1>5, <1>6, <1>7, <1>8, <1>9 DEF FlowInv

\* The sender ends a transfer that failed.
LEMMA StopStep ==
  ASSUME FlowInv, StopForRemote \/ StopForFault
  PROVE  FlowInv'
<1>0. /\ NumbersOK
      /\ FlowTypeOK /\ Counting /\ Contents /\ Written /\ Faults /\ Outcome
  BY Numbers DEF FlowInv
<1> DEFINE p == EndPacket(sEnd')
<1>1. /\ sender = "ack" /\ sEnd' \in {"fault", "remoteFault"} /\ (sEnd' = "remoteFault" => anyFault)
      /\ xfer' = Append(xfer, p)
      /\ sent' = sent + 1 /\ sender' = "drain"
      /\ UNCHANGED <<acks, buf, acked, flowProgress, anyFault, packet, dest, didFault, receiver, rEnd>>
  BY StopEffect
<1>2. ~MustWait /\ flowProgress # MessageChunks
  BY StopEffect DEF lastTransferSent
<1>3. /\ flowProgress < MessageChunks /\ sent = flowProgress
      /\ sent' - acked <= RingBuffers
  BY <1>0, <1>1, <1>2 DEF NumbersOK, Counting, MustWait, lastTransferSent
<1>4. Handled' = Handled /\ InHand' = InHand /\ ~Ended'
  BY <1>1 DEF Handled, InHand, Ended
<1>5. p \in PacketType
  BY EndPacketFacts
<1> HIDE DEF p
<1>6. FlowTypeOK'
  BY <1>0, <1>1, <1>5 DEF FlowTypeOK, Errors
<1>7. Len(xfer') = Len(xfer) + 1
  BY <1>0, <1>1, <1>5 DEF FlowTypeOK
<1>8. Counting'
  BY <1>0, <1>1, <1>3, <1>4, <1>7 DEF NumbersOK, Counting
<1>9. Contents'
  <2>1. /\ \A n \in Nat : n < flowProgress => PacketNo(n)' = PacketNo(n)
        /\ \A n \in Nat : n >= flowProgress => PacketNo(n)' = p
    BY <1>0, <1>1, <1>3 DEF PacketNo, p, NumbersOK
  <2>2. \A i \in 1..Len(xfer) : xfer'[i] = xfer[i]
    BY <1>0, <1>1, <1>5 DEF FlowTypeOK
  <2>3. xfer'[Len(xfer) + 1] = p
    BY <1>0, <1>1, <1>5 DEF FlowTypeOK
  <2>4. ASSUME NEW i \in 1..Len(xfer') PROVE xfer'[i] = PacketNo(Handled + InHand + i - 1)'
    <3>1. CASE i <= Len(xfer)
      BY <1>0, <1>3, <1>4, <2>1, <2>2, <3>1 DEF NumbersOK, Contents, Counting
    <3>2. CASE i = Len(xfer) + 1
      BY <1>0, <1>3, <1>4, <2>1, <2>3, <3>2 DEF NumbersOK, Counting
    <3> QED
      BY <1>0, <1>7, <3>1, <3>2 DEF NumbersOK
  <2>5. receiver = "copy" => packet = PacketNo(Handled)'
    <3>1. receiver = "copy" => InHand = 1
      BY DEF InHand
    <3> QED
      BY <1>0, <1>3, <1>4, <2>1, <3>1 DEF NumbersOK, Contents, Counting
  <2> QED
    BY <1>0, <1>1, <1>4, <2>4, <2>5 DEF Contents
<1>10. Written'
  BY <1>0, <1>1, <1>4 DEF Written, DataIntact
<1>11. Faults'
  BY <1>0, <1>1, <1>3, <1>4 DEF NumbersOK, Faults
<1>12. Outcome'
  BY <1>0, <1>1, <1>3, <1>4 DEF NumbersOK, Outcome, Counting
<1> QED
  BY <1>6, <1>8, <1>9, <1>10, <1>11, <1>12 DEF FlowInv

\* The sender copies a chunk into a buffer whose last chunk was acknowledged.
LEMMA FillStep ==
  ASSUME FlowInv, Fill
  PROVE  FlowInv'
<1>0. /\ NumbersOK
      /\ FlowTypeOK /\ Counting /\ Contents /\ Written /\ Faults /\ Outcome
  BY Numbers DEF FlowInv
<1>1. /\ sender = "ack" /\ sender' = "send" /\ ~anyFault /\ ~MustWait /\ flowProgress # MessageChunks
      /\ buf' = [buf EXCEPT ![Place(sent)] = flowProgress + 1]
      /\ UNCHANGED <<xfer, acks, sent, acked, flowProgress, anyFault, sEnd, packet, dest, didFault,
                     receiver, rEnd>>
  BY DEF Fill, Slot, Place, lastTransferSent, receiverVars
<1>2. /\ flowProgress < MessageChunks /\ sent = flowProgress
      /\ sent - acked < RingBuffers /\ acked <= sent
  BY <1>0, <1>1 DEF NumbersOK, Counting, MustWait, lastTransferSent
<1>3. /\ Handled' = Handled /\ InHand' = InHand /\ ~Ended /\ ~Ended'
      /\ \A n \in Nat : PacketNo(n)' = PacketNo(n)
  BY <1>1 DEF Handled, InHand, Ended, PacketNo
<1>4. Place(sent) \in 0..(RingBuffers - 1)
  BY <1>0, SlotsInRing DEF NumbersOK
<1>5. FlowTypeOK'
  BY <1>0, <1>1, <1>2, <1>4 DEF FlowTypeOK, NumbersOK
<1>6. Counting'
  BY <1>0, <1>1, <1>2, <1>3 DEF NumbersOK, Counting
<1>7. Contents'
  <2>1. ASSUME NEW n \in acked..(flowProgress - 1) PROVE buf'[Place(n)] = n + 1
    <3>1. n \in Nat /\ n < sent /\ sent - n < RingBuffers
      BY <1>0, <1>2 DEF NumbersOK
    <3>2. Place(n) # Place(sent)
      <4>1. RingBuffers \in Nat \ {0} /\ sent \in Nat
        BY <1>0 DEF NumbersOK
      <4> QED
        BY <3>1, <4>1, SlotsDiffer DEF Place
    <3>3. Place(n) \in 0..(RingBuffers - 1)
      BY <3>1, SlotsInRing
    <3>4. buf[Place(n)] = n + 1
      BY <1>0 DEF Contents
    <3> QED
      BY <1>0, <1>1, <3>2, <3>3, <3>4 DEF FlowTypeOK
  <2>2. buf'[Place(sent)] = flowProgress + 1
    BY <1>0, <1>1, <1>4 DEF FlowTypeOK
  <2>3. /\ \A i \in 1..Len(xfer) : xfer[i] = PacketNo(Handled + InHand + i - 1)'
        /\ receiver = "copy" => packet = PacketNo(Handled)'
    BY <1>0, <1>3 DEF NumbersOK, Contents
  <2> QED
    BY <1>1, <1>3, <2>1, <2>2, <2>3 DEF Contents
<1>8. Written' /\ Faults' /\ Outcome'
  BY <1>0, <1>1, <1>2, <1>3 DEF Written, DataIntact, Faults, Outcome
<1> QED
  BY <1>5, <1>6, <1>7, <1>8 DEF FlowInv

\* The sender passes a buffer on.
LEMMA SendStep ==
  ASSUME FlowInv, SendChunk
  PROVE  FlowInv'
<1>0. /\ NumbersOK
      /\ FlowTypeOK /\ Counting /\ Contents /\ Written /\ Faults /\ Outcome
  BY Numbers DEF FlowInv
<1> DEFINE p == Chunk(sent)
<1>1. sender = "send" /\ sent = flowProgress
  BY <1>0 DEF SendChunk, Counting
<1>2. /\ xfer' = Append(xfer, p)
      /\ sent' = sent + 1 /\ flowProgress' = flowProgress + 1 /\ anyFault' \in BOOLEAN /\ ~anyFault' /\ sender' = "ack"
      /\ UNCHANGED <<acks, buf, acked, sEnd, packet, dest, didFault, receiver, rEnd>>
  BY <1>0, SendEffect
<1>3. Handled' = Handled /\ InHand' = InHand /\ ~Ended'
  BY <1>2 DEF Handled, InHand, Ended
<1>4. p \in PacketType
  BY <1>0, ChunkFacts DEF NumbersOK
<1>5. \A n \in Nat : n <= sent => PacketNo(n)' = Chunk(n)
  BY <1>0, <1>1, <1>2 DEF PacketNo, NumbersOK
<1>6. \A n \in Nat : n < sent => PacketNo(n) = Chunk(n)
  BY <1>0, <1>1 DEF PacketNo, NumbersOK
<1> HIDE DEF p
<1>8. flowProgress < MessageChunks /\ ~anyFault /\ sent - acked < RingBuffers
  BY <1>0, <1>1 DEF Counting
<1>9. FlowTypeOK'
  BY <1>0, <1>2, <1>4, <1>8 DEF FlowTypeOK, NumbersOK
<1>10. Len(xfer') = Len(xfer) + 1
  BY <1>0, <1>2, <1>4 DEF FlowTypeOK
<1>11. Counting'
  BY <1>0, <1>1, <1>2, <1>3, <1>8, <1>10 DEF NumbersOK, Counting
<1>12. Contents'
  <2>0. /\ sent \in Nat /\ Handled \in Nat /\ InHand \in Nat /\ Len(xfer) \in Nat
        /\ sent = Handled + InHand + Len(xfer)
    BY <1>0 DEF NumbersOK, Counting
  <2>1. \A i \in 1..Len(xfer) : xfer'[i] = xfer[i]
    BY <1>0, <1>2, <1>4 DEF FlowTypeOK
  <2>2. xfer'[Len(xfer) + 1] = Chunk(sent)
    BY <1>0, <1>2, <1>4 DEF FlowTypeOK, p
  <2>3. ASSUME NEW i \in 1..Len(xfer') PROVE xfer'[i] = PacketNo(Handled + InHand + i - 1)'
    <3>1. CASE i <= Len(xfer)
      <4> DEFINE n == Handled + InHand + i - 1
      <4>1. n \in Nat /\ n < sent /\ i \in 1..Len(xfer)
        BY <1>10, <2>0, <3>1
      <4>2. xfer[i] = PacketNo(n)
        BY <1>0, <4>1 DEF Contents
      <4>3. PacketNo(Handled + InHand + i - 1)' = Chunk(n)
        BY <1>0, <1>1, <1>2, <1>3, <4>1 DEF PacketNo, NumbersOK
      <4> QED
        BY <1>6, <2>1, <4>1, <4>2, <4>3
    <3>2. CASE i = Len(xfer) + 1
      <4>1. Handled' + InHand' + i - 1 = sent
        BY <1>3, <2>0, <3>2
      <4> QED
        BY <1>5, <2>0, <2>2, <3>2, <4>1
    <3> QED
      BY <1>10, <2>0, <3>1, <3>2
  <2>4. receiver = "copy" => packet = PacketNo(Handled)'
    <3>1. receiver = "copy" => InHand = 1
      BY DEF InHand
    <3> QED
      <4>1. receiver = "copy" => Handled < sent
        BY <1>0, <3>1 DEF NumbersOK, Counting
      <4>2. receiver = "copy" => PacketNo(Handled)' = Chunk(Handled)
        BY <1>0, <1>1, <1>2, <1>3, <4>1 DEF PacketNo, NumbersOK
      <4> QED
        BY <1>0, <1>6, <4>1, <4>2 DEF NumbersOK, Contents
  <2>5. \A n \in acked..flowProgress : buf[Place(n)] = n + 1
    BY <1>0, <1>1 DEF NumbersOK, Contents
  <2>6. \A n \in acked'..(flowProgress' - 1) : buf'[Place(n)] = n + 1
    BY <1>0, <1>2, <2>5 DEF NumbersOK
  <2> QED
    BY <1>2, <1>3, <2>3, <2>4, <2>6 DEF Contents
<1>13. Written'
  BY <1>0, <1>1, <1>2, <1>3 DEF Written, DataIntact, NumbersOK, Counting
<1>14. Faults'
  BY <1>0, <1>1, <1>2, <1>3, <1>8 DEF NumbersOK, Faults
<1>15. Outcome'
  <2>1. Handled <= sent
    BY <1>0 DEF NumbersOK, Counting
  <2>2. receiver \notin {"end", "gone"}
    BY <1>0, <1>1, <1>8, <2>1 DEF NumbersOK, Outcome
  <2> QED
    BY <1>0, <1>1, <1>2, <1>3, <1>8, <2>1, <2>2 DEF NumbersOK, Outcome
<1> QED
  BY <1>9, <1>11, <1>12, <1>13, <1>14, <1>15 DEF FlowInv

\* The sender takes an acknowledgement that it ignores.
LEMMA DrainAckStep ==
  ASSUME FlowInv, Drain, sent # acked
  PROVE  FlowInv'
<1>0. /\ NumbersOK
      /\ FlowTypeOK /\ Counting /\ Contents /\ Written /\ Faults /\ Outcome
  BY Numbers DEF FlowInv
<1>1. /\ sender = "drain" /\ acks # <<>> /\ acks' = Tail(acks) /\ acked' = acked + 1
      /\ UNCHANGED <<xfer, buf, sent, flowProgress, anyFault, sender, sEnd, packet, dest, didFault,
                     receiver, rEnd>>
  BY DEF Drain, receiverVars
<1>2. /\ Tail(acks) \in Seq(PacketType) /\ Len(Tail(acks)) = Len(acks) - 1 /\ Len(acks) > 0
  BY <1>0, <1>1 DEF FlowTypeOK
<1>3. FlowTypeOK'
  BY <1>0, <1>1, <1>2 DEF FlowTypeOK
<1>4. Handled' = Handled /\ InHand' = InHand /\ ~Ended /\ ~Ended' /\ sent = flowProgress + 1
  BY <1>0, <1>1, <1>2 DEF Handled, InHand, Ended, NumbersOK, Counting
<1>5. Counting'
  BY <1>0, <1>1, <1>4 DEF NumbersOK, Counting
<1>6. Contents'
  <2>1. \A n : PacketNo(n)' = PacketNo(n)
    BY <1>1 DEF PacketNo
  <2> QED
    BY <1>0, <1>1, <1>4, <2>1 DEF NumbersOK, Contents
<1>7. Written' /\ Outcome'
  BY <1>0, <1>1, <1>4 DEF Written, DataIntact, Outcome
<1>8. Faults'
  <2>1. \A i \in 1..Len(Tail(acks)) : Tail(acks)[i] = acks[i + 1] /\ i + 1 \in 1..Len(acks)
    BY <1>0, <1>2 DEF FlowTypeOK
  <2>2. Tail(acks) # <<>> => Len(Tail(acks)) \in 1..Len(Tail(acks))
    BY <1>2
  <2> QED
    BY <1>0, <1>1, <1>2, <1>4, <2>1, <2>2 DEF NumbersOK, Faults
<1> QED
  BY <1>3, <1>5, <1>6, <1>7, <1>8 DEF FlowInv

\* The sender has all acknowledgements of a transfer that failed.
LEMMA DrainEndStep ==
  ASSUME FlowInv, Drain, sent = acked
  PROVE  FlowInv'
<1>0. /\ NumbersOK
      /\ FlowTypeOK /\ Counting /\ Contents /\ Written /\ Faults /\ Outcome
  BY Numbers DEF FlowInv
<1>1. /\ sender = "drain" /\ sender' = "end"
      /\ UNCHANGED <<acks, acked, xfer, buf, sent, flowProgress, anyFault, sEnd, packet, dest, didFault,
                     receiver, rEnd>>
  BY DEF Drain, receiverVars
<1>2. /\ Handled' = Handled /\ InHand' = InHand /\ sent = flowProgress + 1
      /\ \A n : PacketNo(n)' = PacketNo(n)
  BY <1>0, <1>1 DEF Handled, InHand, NumbersOK, Counting, PacketNo
<1>3. FlowTypeOK'
  BY <1>0, <1>1 DEF FlowTypeOK
<1>4. Counting'
  BY <1>0, <1>1, <1>2 DEF NumbersOK, Counting
<1>5. Contents' /\ Written' /\ Outcome'
  BY <1>0, <1>1, <1>2 DEF Contents, Written, DataIntact, Outcome
<1>6. Faults'
  BY <1>0, <1>1, <1>2 DEF NumbersOK, Faults
<1> QED
  BY <1>3, <1>4, <1>5, <1>6 DEF FlowInv

\* The receiver takes a packet.
LEMMA GetStep ==
  ASSUME FlowInv, GetPacket
  PROVE  FlowInv'
<1>0. /\ NumbersOK
      /\ FlowTypeOK /\ Counting /\ Contents /\ Written /\ Faults /\ Outcome
  BY Numbers DEF FlowInv
<1>1. /\ receiver = "get" /\ receiver' = "copy" /\ xfer # <<>>
      /\ packet' = Head(xfer) /\ xfer' = Tail(xfer)
      /\ UNCHANGED <<acks, buf, sent, acked, flowProgress, anyFault, sender, sEnd, dest, didFault, rEnd>>
  BY DEF GetPacket, senderVars
<1>2. /\ Head(xfer) \in PacketType /\ Tail(xfer) \in Seq(PacketType) /\ Head(xfer) = xfer[1]
      /\ Len(Tail(xfer)) = Len(xfer) - 1 /\ Len(xfer) > 0
  BY <1>0, <1>1 DEF FlowTypeOK
<1>3. /\ Handled' = Handled /\ InHand = 0 /\ InHand' = 1 /\ (Ended' <=> Ended)
      /\ \A n : PacketNo(n)' = PacketNo(n)
  BY <1>1 DEF Handled, InHand, Ended, PacketNo
<1>4. FlowTypeOK'
  BY <1>0, <1>1, <1>2 DEF FlowTypeOK
<1>5. Counting'
  BY <1>0, <1>1, <1>2, <1>3 DEF NumbersOK, Counting
<1>6. Contents'
  <2>1. packet' = PacketNo(Handled)'
    BY <1>0, <1>1, <1>2, <1>3 DEF NumbersOK, Contents
  <2>2. ASSUME NEW i \in 1..Len(Tail(xfer)) PROVE Tail(xfer)[i] = PacketNo(Handled + 1 + i - 1)
    <3>1. Tail(xfer)[i] = xfer[i + 1] /\ i + 1 \in 1..Len(xfer)
      BY <1>0, <1>2 DEF FlowTypeOK
    <3>2. xfer[i + 1] = PacketNo(Handled + 0 + (i + 1) - 1)
      BY <1>0, <1>3, <3>1 DEF Contents
    <3>3. Handled + 0 + (i + 1) - 1 = Handled + 1 + i - 1
      BY <1>0 DEF NumbersOK
    <3> QED
      BY <3>1, <3>2, <3>3
  <2> QED
    BY <1>0, <1>1, <1>3, <2>1, <2>2 DEF Contents
<1>7. Written' /\ Faults' /\ Outcome'
  BY <1>0, <1>1, <1>3 DEF Written, DataIntact, Faults, Outcome
<1> QED
  BY <1>4, <1>5, <1>6, <1>7 DEF FlowInv

\* An item is completed, or nothing happens.
LEMMA QuietStep ==
  ASSUME FlowInv, SenderCompletes \/ ReceiverCompletes \/ UNCHANGED flowVars
  PROVE  FlowInv'
<1>0. /\ NumbersOK
      /\ FlowTypeOK /\ Counting /\ Contents /\ Written /\ Faults /\ Outcome
  BY Numbers DEF FlowInv
<1>1. /\ UNCHANGED <<xfer, acks, buf, sent, acked, flowProgress, anyFault, sEnd, packet, dest, didFault, rEnd>>
      /\ sender' = sender \/ (sender = "end" /\ sender' = "gone")
      /\ receiver' = receiver \/ (receiver = "end" /\ receiver' = "gone")
  BY DEF SenderCompletes, ReceiverCompletes, flowVars, senderVars, receiverVars
<1>2. /\ Handled' = Handled /\ InHand' = InHand /\ (Ended' <=> Ended)
      /\ \A n : PacketNo(n)' = PacketNo(n)
  BY <1>1 DEF Handled, InHand, Ended, PacketNo
<1>3. FlowTypeOK'
  BY <1>0, <1>1 DEF FlowTypeOK
<1>4. Counting'
  BY <1>0, <1>1, <1>2 DEF Counting
<1>5. Contents' /\ Written'
  BY <1>0, <1>1, <1>2 DEF Contents, Written, DataIntact
<1>6. Faults'
  BY <1>0, <1>1, <1>2 DEF Faults
<1>7. Outcome'
  BY <1>0, <1>1, <1>2 DEF Outcome
<1> QED
  BY <1>3, <1>4, <1>5, <1>6, <1>7 DEF FlowInv

\* The receiver copies the chunk out of its buffer and acknowledges the packet.
LEMMA CopyStep ==
  ASSUME FlowInv, NEW ok \in BOOLEAN, CopyAndAck(ok)
  PROVE  FlowInv'
<1>0. /\ NumbersOK
      /\ FlowTypeOK /\ Counting /\ Contents /\ Written /\ Faults /\ Outcome
  BY Numbers DEF FlowInv
<1>1. PICK ack \in PacketType :
         /\ receiver = "copy"
         /\ didFault' \in BOOLEAN
         /\ didFault => didFault'
         /\ packet.data = -1 => (didFault' <=> didFault)
         /\ packet.data # -1 /\ ~didFault /\ ~didFault' => dest' = Append(dest, buf[packet.data])
         /\ packet.data = -1 \/ didFault \/ didFault' => dest' = dest
         /\ acks' = Append(acks, ack) /\ (ack.fault <=> didFault')
         /\ ~packet.terminate => rEnd' = rEnd /\ receiver' = "get"
         /\ packet.terminate => /\ receiver' = "end"
                                /\ rEnd' = IF didFault' THEN "fault"
                                           ELSE IF packet.fault THEN "remoteFault" ELSE "success"
         /\ UNCHANGED <<xfer, buf, sent, acked, flowProgress, anyFault, sender, sEnd, packet>>
  BY Zenon, <1>0, CopyEffect
<1>2. /\ Len(acks') = Len(acks) + 1 /\ acks' \in Seq(PacketType)
      /\ \A i \in 1..Len(acks) : acks'[i] = acks[i]
      /\ acks'[Len(acks) + 1] = ack
  BY <1>0, <1>1 DEF FlowTypeOK
<1>3. /\ Handled' = Handled + 1 /\ InHand = 1 /\ InHand' = 0 /\ (Ended' <=> Ended)
      /\ \A n : PacketNo(n)' = PacketNo(n)
  BY <1>0, <1>1, <1>2 DEF Handled, InHand, Ended, PacketNo, NumbersOK
<1>4. /\ Handled < sent /\ acked <= Handled /\ ~Ended
      /\ sent <= flowProgress + 1 /\ (Handled >= flowProgress => Handled = flowProgress)
  <2>1. Handled < sent /\ acked <= Handled
    BY <1>0, <1>3 DEF NumbersOK, Counting
  <2>2. sender \in {"ack", "send", "drain", "end", "gone"}
    BY <1>0 DEF FlowTypeOK
  <2>3. sent <= flowProgress + 1 /\ ~Ended
    BY <1>0, <2>1, <2>2 DEF NumbersOK, Counting, Ended
  <2> QED
    BY <1>0, <2>1, <2>3 DEF NumbersOK
<1>5. Handled < flowProgress =>
        /\ packet.data # -1 /\ buf[packet.data] = Handled + 1 /\ ~packet.fault
        /\ packet.terminate <=> Handled + 1 = MessageChunks
  <2>1. Handled < flowProgress => packet = Chunk(Handled)
    BY <1>0, <1>1 DEF Contents, PacketNo
  <2>2. /\ Chunk(Handled).data = Place(Handled) /\ Chunk(Handled).data # -1
        /\ Chunk(Handled).terminate <=> Handled + 1 = MessageChunks
        /\ ~Chunk(Handled).fault
    BY <1>0, ChunkFacts DEF NumbersOK
  <2>3. Handled < flowProgress => buf[Place(Handled)] = Handled + 1
    BY <1>0, <1>4 DEF NumbersOK, Contents
  <2> QED
    BY <2>1, <2>2, <2>3
<1>6. Handled >= flowProgress => /\ packet.data = -1 /\ packet.terminate
                                 /\ packet.fault <=> sEnd = "fault"
  <2>1. Handled >= flowProgress => packet = EndPacket(sEnd)
    BY <1>0, <1>1 DEF Contents, PacketNo, NumbersOK
  <2> QED
    BY <2>1, EndPacketFacts
<1>7. \/ dest' = dest
      \/ /\ Handled < flowProgress /\ ~didFault /\ ~didFault' /\ dest' = Append(dest, Handled + 1)
  BY <1>0, <1>1, <1>4, <1>5, <1>6 DEF NumbersOK
<1>8. FlowTypeOK'
  <2>1. dest' \in Seq(0..MessageChunks)
    <3>1. Handled < flowProgress => Handled + 1 \in 0..MessageChunks
      BY <1>0 DEF NumbersOK
    <3>2. dest \in Seq(0..MessageChunks)
      BY <1>0 DEF FlowTypeOK
    <3> QED
      BY Zenon, <1>7, <3>1, <3>2, AppendType
  <2>2. receiver' \in {"get", "copy", "end", "gone"} /\ rEnd' \in Errors
    BY <1>0, <1>1 DEF FlowTypeOK, Errors
  <2>3. /\ xfer' \in Seq(PacketType) /\ packet' \in PacketType
        /\ buf' \in [0..(RingBuffers - 1) -> 0..MessageChunks]
        /\ sent' \in Nat /\ acked' \in Nat /\ flowProgress' \in 0..MessageChunks
        /\ anyFault' \in BOOLEAN /\ didFault' \in BOOLEAN
        /\ sender' \in {"ack", "send", "drain", "end", "gone"} /\ sEnd' \in Errors
    BY Zenon, <1>0, <1>1 DEF FlowTypeOK
  <2> QED
    BY Zenon, <1>2, <2>1, <2>2, <2>3 DEF FlowTypeOK
<1>9. Counting'
  BY <1>0, <1>1, <1>3 DEF NumbersOK, Counting
<1>10. Contents'
  <2>1. receiver' # "copy"
    BY <1>0, <1>1
  <2>2. ASSUME NEW i \in 1..Len(xfer) PROVE xfer[i] = PacketNo(Handled + 1 + 0 + i - 1)
    <3>1. xfer[i] = PacketNo(Handled + 1 + i - 1)
      BY <1>0, <1>3 DEF Contents
    <3>2. Handled + 1 + i - 1 = Handled + 1 + 0 + i - 1
      BY <1>0 DEF NumbersOK
    <3> QED
      BY <3>1, <3>2
  <2> QED
    BY <1>0, <1>1, <1>3, <2>1, <2>2 DEF Contents
<1>11. Written'
  <2>1. CASE dest' = dest
    <3>1. ~didFault' => Handled >= flowProgress
      <4>1. Len(Append(dest, Handled + 1)) = Len(dest) + 1
        BY <1>0 DEF FlowTypeOK, NumbersOK
      <4> QED
        BY <1>0, <1>1, <1>5, <2>1, <4>1 DEF NumbersOK
    <3> QED
      BY <1>0, <1>1, <1>3, <1>4, <2>1, <3>1 DEF Written, DataIntact, NumbersOK
  <2>2. CASE Handled < flowProgress /\ ~didFault /\ ~didFault' /\ dest' = Append(dest, Handled + 1)
    <3>1. Len(dest) = Handled
      BY <1>0, <2>2 DEF Written, NumbersOK
    <3>2. /\ Len(dest') = Handled + 1 /\ dest'[Handled + 1] = Handled + 1
          /\ \A i \in 1..Handled : dest'[i] = dest[i]
      BY <1>0, <2>2, <3>1 DEF FlowTypeOK, NumbersOK
    <3> QED
      BY <1>0, <1>1, <1>3, <2>2, <3>1, <3>2 DEF Written, DataIntact, NumbersOK
  <2> QED
    BY <1>7, <2>1, <2>2
<1>12. Faults'
  <2>1. acks' # <<>>
    BY <1>0, <1>2 DEF NumbersOK
  <2>2. \A i \in 1..Len(acks') : acks'[i].fault => didFault'
    BY <1>0, <1>1, <1>2 DEF NumbersOK, Faults
  <2>3. acks'[Len(acks')].fault <=> didFault'
    BY <1>1, <1>2
  <2> QED
    BY <1>0, <1>1, <1>3, <1>4, <2>1, <2>2, <2>3 DEF Faults
<1>13. Outcome'
  <2>1. receiver' \in {"end", "gone"} <=> packet.terminate
    BY <1>1
  <2>2. CASE Handled < flowProgress
    BY <1>0, <1>1, <1>3, <1>5, <2>1, <2>2 DEF NumbersOK, Outcome
  <2>3. CASE Handled >= flowProgress
    BY <1>0, <1>1, <1>3, <1>4, <1>6, <2>1, <2>3 DEF NumbersOK, Outcome
  <2> QED
    BY <1>0, <2>2, <2>3 DEF NumbersOK
<1> QED
  BY <1>8, <1>9, <1>10, <1>11, <1>12, <1>13 DEF FlowInv

\* Every step of the two coroutines keeps the invariant.
LEMMA FlowStep == FlowInv /\ [FlowNext]_flowVars => FlowInv'
  BY TakeAckStep, FinishedStep, StopStep, FillStep, SendStep, DrainAckStep, DrainEndStep,
     GetStep, CopyStep, QuietStep DEF FlowNext, Sender, Receiver

\* The invariant contains what the coroutines guarantee.
LEMMA FlowInvContract == FlowInv => FlowContract
<1> SUFFICES ASSUME FlowInv PROVE FlowContract
  OBVIOUS
<1>0. /\ NumbersOK
      /\ FlowTypeOK /\ Counting /\ Contents /\ Written /\ Faults /\ Outcome
  BY Numbers DEF FlowInv
<1>1. DataIntact
  BY <1>0 DEF Written
<1>2. FramesLive
  BY <1>0 DEF FramesLive, NumbersOK, Counting, Outcome, MustWait, lastTransferSent, Ended, InHand
<1>3. EndsAgree
  <2> SUFFICES ASSUME Ended
               PROVE  /\ receiver \in {"end", "gone"}
                      /\ <<sEnd, rEnd>> \in { <<"success", "success">>, <<"fault", "remoteFault">>,
                                              <<"remoteFault", "fault">>, <<"fault", "fault">> }
                      /\ rEnd = "success" => Len(dest) = MessageChunks
    BY DEF EndsAgree, Ended
  <2>1. /\ Handled = sent /\ Handled \in {flowProgress, flowProgress + 1}
        /\ Handled = flowProgress => flowProgress = MessageChunks
        /\ Handled = flowProgress + 1 => sEnd # "success"
    BY <1>0 DEF NumbersOK, Counting
  <2>2. receiver \in {"end", "gone"}
    BY <1>0, <2>1 DEF Outcome
  <2>3. rEnd = IF didFault THEN "fault"
               ELSE IF Handled = flowProgress + 1 /\ sEnd = "fault" THEN "remoteFault"
               ELSE "success"
    BY <1>0, <2>2 DEF Outcome
  <2>4. CASE Handled = flowProgress
    BY <1>0, <2>1, <2>2, <2>3, <2>4 DEF NumbersOK, Faults, Written
  <2>5. CASE Handled = flowProgress + 1
    <3>1. sEnd \in {"fault", "remoteFault"} /\ (sEnd = "remoteFault" => didFault)
      BY <1>0, <2>1, <2>5 DEF FlowTypeOK, Errors, Faults
    <3> QED
      BY <2>2, <2>3, <2>5, <3>1
  <2> QED
    BY <2>1, <2>4, <2>5
<1> QED
  BY <1>1, <1>2, <1>3 DEF FlowContract

\* Whatever copies fail and however the two coroutines of a transfer interleave: what arrives is
\* a prefix of the message, neither touches the other's frame after it completed, and at the end
\* both report the same outcome.  For messages of any length and rings of any size.
THEOREM FlowCorrect == FlowSpec => []FlowContract
<1>1. FlowInit => FlowInv
  BY FlowInvInit
<1>2. FlowInv /\ [FlowNext]_flowVars => FlowInv'
  BY FlowStep
<1>3. FlowInv => FlowContract
  BY FlowInvContract
<1> QED
  BY <1>1, <1>2, <1>3, PTL DEF FlowSpec
=============================================================================
