------------------------------- MODULE Flow -------------------------------
(***************************************************************************)
(* The transfer between an item that sends a large buffer and one that     *)
(* receives into a buffer: the two coroutines of doSubmitExchangeMsgs()    *)
(* (hel.cpp) that talk through their items' flowQueues.                    *)
(*                                                                         *)
(* The sender copies one chunk after the other into a ring of kernel       *)
(* buffers and passes the receiver a pointer to the buffer; the receiver   *)
(* copies the data out of the buffer, which is the sender's, and           *)
(* acknowledges.  A buffer is written again once that many acknowledgements *)
(* came back.  Copies from and to user memory may fail.  Each coroutine    *)
(* completes its own item, after which its frame, with item, flowQueue and *)
(* buffers, may be gone.                                                   *)
(*                                                                         *)
(* One unit of data stands for one chunk; chunk k of the message is the    *)
(* number k.                                                               *)
(***************************************************************************)
EXTENDS Integers, Sequences

CONSTANTS
  MessageChunks,  \* length of the message in chunks
  RingBuffers     \* size of the ring (2 in the code)

ASSUME FlowAssumption == MessageChunks \in Nat \ {0} /\ RingBuffers \in Nat \ {0}

VARIABLES
  xfer,       \* flowQueue of the receiver: packets of the sender
  acks,       \* flowQueue of the sender: acknowledgements
  buf,        \* what the buffers of the ring hold (0: nothing yet)
  sent,       \* numSent
  acked,      \* numAcked
  flowProgress, \* chunks the sender has sent
  anyFault,   \* anyRemoteFault
  sender,     \* where the sender is: "ack", "send", "drain", "end", "gone"
  sEnd,       \* the error of the sending item
  packet,     \* the packet that the receiver holds
  dest,       \* the chunks that the receiver has written to its user's buffer
  didFault,   \* the receiver's copy failed
  receiver,   \* where the receiver is: "get", "copy", "end", "gone"
  rEnd        \* the error of the receiving item

senderVars == <<sent, acked, flowProgress, anyFault, sender, sEnd>>
receiverVars == <<packet, dest, didFault, receiver, rEnd>>
flowVars == <<xfer, acks, buf, senderVars, receiverVars>>

(* FlowPacket: data is the buffer that it points to, -1 for none. *)
Packet(data, terminate, fault) == [data |-> data, terminate |-> terminate, fault |-> fault]
NoPacket == Packet(-1, FALSE, FALSE)

FlowInit ==
  /\ xfer = <<>> /\ acks = <<>>
  /\ buf = [b \in 0..(RingBuffers - 1) |-> 0]
  /\ sent = 0 /\ acked = 0 /\ flowProgress = 0 /\ anyFault = FALSE
  /\ sender = "ack" /\ sEnd = "success"
  /\ packet = NoPacket /\ dest = <<>> /\ didFault = FALSE
  /\ receiver = "get" /\ rEnd = "success"

----------------------------------------------------------------------------
(* Sender *)

lastTransferSent == flowProgress = MessageChunks

\* Mutant of MustWait: one buffer too many in flight.
MustWaitLate == sent # acked /\ (lastTransferSent \/ sent - acked > RingBuffers)

(* The sender waits for acknowledgements until a buffer is free, or, once it
   has sent everything, until all are there.                                *)
MustWait == sent # acked /\ (lastTransferSent \/ sent - acked >= RingBuffers)

(* co_await node->flowQueue.async_get() in the main loop. *)
TakeAck ==
  /\ sender = "ack" /\ MustWait
  /\ acks # <<>>
  /\ acks' = Tail(acks)
  /\ acked' = acked + 1
  /\ anyFault' = (anyFault \/ Head(acks).fault)
  /\ UNCHANGED <<xfer, buf, sent, flowProgress, sender, sEnd, receiverVars>>

(* All chunks were acknowledged. *)
Finished ==
  /\ sender = "ack" /\ ~MustWait
  /\ lastTransferSent
  /\ sEnd' = IF anyFault THEN "remoteFault" ELSE "success"
  /\ sender' = "end"
  /\ UNCHANGED <<xfer, acks, buf, sent, acked, flowProgress, anyFault, receiverVars>>

(* The receiver cannot write: a packet without data ends the transfer. *)
StopForRemote ==
  /\ sender = "ack" /\ ~MustWait
  /\ ~lastTransferSent /\ anyFault
  /\ xfer' = Append(xfer, Packet(-1, TRUE, FALSE))
  /\ sent' = sent + 1
  /\ sEnd' = "remoteFault"
  /\ sender' = "drain"
  /\ UNCHANGED <<acks, buf, acked, flowProgress, anyFault, receiverVars>>

(* The sender cannot read its user's memory. *)
StopForFault ==
  /\ sender = "ack" /\ ~MustWait
  /\ ~lastTransferSent /\ ~anyFault
  /\ xfer' = Append(xfer, Packet(-1, TRUE, TRUE))
  /\ sent' = sent + 1
  /\ sEnd' = "fault"
  /\ sender' = "drain"
  /\ UNCHANGED <<acks, buf, acked, flowProgress, anyFault, receiverVars>>

(* The buffer that the next chunk is copied into. *)
Slot == sent % RingBuffers

(* The next chunk is copied into its buffer ... *)
Fill ==
  /\ sender = "ack" /\ ~MustWait
  /\ ~lastTransferSent /\ ~anyFault
  /\ buf' = [buf EXCEPT ![Slot] = flowProgress + 1]
  /\ sender' = "send"
  /\ UNCHANGED <<xfer, acks, sent, acked, flowProgress, anyFault, sEnd, receiverVars>>

(* ... and the buffer is passed on. *)
SendChunk ==
  /\ sender = "send"
  /\ xfer' = Append(xfer, Packet(Slot, flowProgress + 1 = MessageChunks, FALSE))
  /\ sent' = sent + 1
  /\ flowProgress' = flowProgress + 1
  /\ anyFault' = FALSE
  /\ sender' = "ack"
  /\ UNCHANGED <<acks, buf, acked, sEnd, receiverVars>>

(* "Retrieve but ignore all acks." *)
Drain ==
  /\ sender = "drain"
  /\ \/ /\ sent # acked
        /\ acks # <<>>
        /\ acks' = Tail(acks) /\ acked' = acked + 1
        /\ UNCHANGED sender
     \/ /\ sent = acked
        /\ sender' = "end"
        /\ UNCHANGED <<acks, acked>>
  /\ UNCHANGED <<xfer, buf, sent, flowProgress, anyFault, sEnd, receiverVars>>

(* node->complete(): from here on the frame may be destroyed. *)
SenderCompletes ==
  /\ sender = "end"
  /\ sender' = "gone"
  /\ UNCHANGED <<xfer, acks, buf, sent, acked, flowProgress, anyFault, sEnd, receiverVars>>

----------------------------------------------------------------------------
(* Receiver *)

GetPacket ==
  /\ receiver = "get"
  /\ xfer # <<>>
  /\ packet' = Head(xfer)
  /\ xfer' = Tail(xfer)
  /\ receiver' = "copy"
  /\ UNCHANGED <<acks, buf, senderVars, dest, didFault, rEnd>>

(* The receiver writes the chunk to its user's memory, which may fail, and
   acknowledges the packet.                                                 *)
CopyAndAck(ok) ==
  LET copies == packet.data # -1 /\ ~didFault
      faulted == didFault \/ (copies /\ ~ok)
  IN /\ receiver = "copy"
     /\ copies \/ ok
     /\ didFault' = faulted
     /\ dest' = IF copies /\ ok THEN Append(dest, buf[packet.data]) ELSE dest
     /\ acks' = Append(acks, Packet(-1, packet.terminate, faulted))
     /\ rEnd' = IF ~packet.terminate THEN rEnd
                ELSE IF faulted THEN "fault"
                ELSE IF packet.fault THEN "remoteFault"
                ELSE "success"
     /\ receiver' = IF packet.terminate THEN "end" ELSE "get"
     /\ UNCHANGED <<xfer, buf, senderVars, packet>>

ReceiverCompletes ==
  /\ receiver = "end"
  /\ receiver' = "gone"
  /\ UNCHANGED <<xfer, acks, buf, senderVars, packet, dest, didFault, rEnd>>

Sender == \/ TakeAck \/ Finished \/ StopForRemote \/ StopForFault
          \/ Fill \/ SendChunk \/ Drain \/ SenderCompletes
Receiver == \/ GetPacket \/ (\E ok \in BOOLEAN : CopyAndAck(ok)) \/ ReceiverCompletes

FlowNext == Sender \/ Receiver

FlowSpec == FlowInit /\ [][FlowNext]_flowVars
FlowFairSpec == FlowSpec /\ WF_flowVars(Sender) /\ WF_flowVars(Receiver)

----------------------------------------------------------------------------
(* Properties *)

Errors == {"success", "fault", "remoteFault"}
PacketType == [data : -1..(RingBuffers - 1), terminate : BOOLEAN, fault : BOOLEAN]

FlowTypeOK ==
  /\ xfer \in Seq(PacketType) /\ acks \in Seq(PacketType) /\ packet \in PacketType
  /\ buf \in [0..(RingBuffers - 1) -> 0..MessageChunks]
  /\ sent \in Nat /\ acked \in Nat /\ flowProgress \in 0..MessageChunks
  /\ anyFault \in BOOLEAN /\ didFault \in BOOLEAN
  /\ sender \in {"ack", "send", "drain", "end", "gone"} /\ sEnd \in Errors
  /\ dest \in Seq(0..MessageChunks)
  /\ receiver \in {"get", "copy", "end", "gone"} /\ rEnd \in Errors

(* What the receiver has written is a prefix of the message: no buffer of the
   ring is filled again before the receiver has copied it (hel.cpp:3127-3137,
   3167-3168).                                                               *)
DataIntact == \A i \in 1..Len(dest) : dest[i] = i

(* The receiver reads a buffer of the sender and puts an acknowledgement into
   its flowQueue only while the sender has not completed its item, and the
   sender puts a packet into the receiver's flowQueue only while the receiver
   has not completed ("may deallocate the peer!", hel.cpp:3150, 3178, 3195,
   3251, 3255, 3272).                                                         *)
FramesLive ==
  /\ receiver = "copy" => sender \notin {"end", "gone"}
  /\ sender = "send" \/ (sender = "ack" /\ ~MustWait /\ ~lastTransferSent) => receiver \notin {"end", "gone"}

(* When both have ended they agree about what happened: the sender succeeds
   exactly if the receiver does, which then has the whole message; otherwise at
   least one of them reports a fault of its own (hel.cpp:3139-3146, 3249-3262). *)
EndsAgree ==
  sender \in {"end", "gone"} =>
    /\ receiver \in {"end", "gone"}
    /\ <<sEnd, rEnd>> \in { <<"success", "success">>, <<"fault", "remoteFault">>,
                            <<"remoteFault", "fault">>, <<"fault", "fault">> }
    /\ rEnd = "success" => Len(dest) = MessageChunks

(* What the two coroutines guarantee together: the data arrives intact, neither
   touches the other after it has completed, and they agree about the outcome. *)
FlowContract == DataIntact /\ FramesLive /\ EndsAgree

(* Whatever fails, both items are completed (hel.cpp:3205, 3280). *)
FlowEndsEventually == <>(sender = "gone" /\ receiver = "gone")
============================================================================
