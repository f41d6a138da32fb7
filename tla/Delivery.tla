------------------------------ MODULE Delivery ------------------------------
(***************************************************************************)
(* What the callers of readn() and writen() rely on: messages that are     *)
(* written one after the other are read whole, each once and in order,     *)
(* until one of the two ends; what is read then is nobody's message.       *)
(***************************************************************************)
EXTENDS Integers, Sequences

VARIABLES stream,     \* the bytes of all the messages
          ends,       \* where each message ends in it
          delivered,  \* the messages that have been read
          over        \* a read has failed

Start(i) == IF i = 1 THEN 0 ELSE ends[i - 1]
Size(i) == ends[i] - Start(i)
Message(i) == SubSeq(stream, Start(i) + 1, ends[i])

DeliveryInit == delivered = <<>> /\ over = FALSE

Deliver == /\ ~over /\ Len(delivered) < Len(ends)
           /\ delivered' = Append(delivered, Message(Len(delivered) + 1))
           /\ UNCHANGED <<stream, ends, over>>

Break == /\ ~over /\ over' = TRUE
         /\ UNCHANGED <<stream, ends, delivered>>

DeliverySpec == DeliveryInit /\ [][Deliver \/ Break]_<<stream, ends, delivered, over>>
=============================================================================
