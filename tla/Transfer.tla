------------------------------ MODULE Transfer ------------------------------
(***************************************************************************)
(* readn() and writen() of source/Protcol.c on a stream socket, one side   *)
(* calling writen() for each message and the other readn(). One read() or  *)
(* write() moves any number of the bytes asked for; a call that a signal   *)
(* interrupts is made again and changes nothing. Either process may end at *)
(* any point. Both sides know the size of each message, which is fixed or  *)
(* was in a message before; after a failed read the reader knows no more   *)
(* sizes, and the model stops there (ClientApi has what follows).          *)
(***************************************************************************)
EXTENDS Integers, Sequences

CONSTANTS Bytes,    \* the values of the bytes
          Streams,  \* the streams that may be written
          Cuts,     \* the ways to cut them in messages
          Room      \* the bytes that the socket holds

ASSUME TransferAssumption == /\ Streams \subseteq Seq(Bytes)
                             /\ Cuts \subseteq Seq(Nat) /\ Room \in Nat

VARIABLES stream, ends,  \* the bytes of all the messages; where each one ends
          wi, wleft,     \* writen(): the message, and "left"
          wup, rup,      \* are the writer's and the reader's process up?
          sock,          \* the bytes in the socket
          ri, rleft,     \* readn(): the message, and "left"
          buf,           \* what it has read in its buffer
          delivered,     \* the buffers of the calls that returned size
          over           \* a call has returned 0 or -1

vars == <<stream, ends, wi, wleft, wup, rup, sock, ri, rleft, buf, delivered, over>>
input == <<stream, ends>>
writer == <<wi, wleft>>
reader == <<ri, rleft, buf, delivered, over>>

INSTANCE Delivery

N == Len(ends)

\* "left" at the beginning of the call for message i.
Left(i) == IF i <= N THEN Size(i) ELSE 0

\* The messages end in order, within the stream.
IsCut(e, s) == /\ \A i \in 1 .. Len(e) : e[i] <= Len(s)
               /\ \A i \in 1 .. Len(e) - 1 : e[i] <= e[i + 1]

Init == /\ stream \in Streams /\ ends \in {e \in Cuts : IsCut(e, stream)}
        /\ wi = 1 /\ wleft = Left(1) /\ wup = TRUE /\ rup = TRUE
        /\ sock = <<>>
        /\ ri = 1 /\ rleft = Left(1) /\ buf = <<>>
        /\ delivered = <<>> /\ over = FALSE

-----------------------------------------------------------------------------

\* (Mutants of Write: bufptr does not move; left is not lowered by r.)
WriteSame(k) ==
    /\ wup /\ rup /\ wi <= N /\ k <= wleft /\ Len(sock) + k <= Room
    /\ sock' = sock \o SubSeq(stream, Start(wi) + 1, Start(wi) + k)
    /\ wleft' = wleft - k
    /\ UNCHANGED <<input, wi, wup, rup, reader>>
WriteAll(k) ==
    /\ wup /\ rup /\ wi <= N /\ k <= wleft /\ Len(sock) + k <= Room
    /\ sock' = sock \o SubSeq(stream, ends[wi] - wleft + 1, ends[wi] - wleft + k)
    /\ wleft' = 0
    /\ UNCHANGED <<input, wi, wup, rup, reader>>

\* write() takes k bytes from bufptr on, and blocks while there is no room.
Write(k) ==
    /\ wup /\ rup /\ wi <= N /\ k <= wleft /\ Len(sock) + k <= Room
    /\ sock' = sock \o SubSeq(stream, ends[wi] - wleft + 1, ends[wi] - wleft + k)
    /\ wleft' = wleft - k
    /\ UNCHANGED <<input, wi, wup, rup, reader>>

\* writen() returns: with 1 when nothing is left, with -1 when the reader has
\* ended. The callers go on with the next message either way.
WriteReturn ==
    /\ wup /\ wi <= N /\ (wleft = 0 \/ ~rup)
    /\ wi' = wi + 1 /\ wleft' = Left(wi + 1)
    /\ UNCHANGED <<input, wup, rup, sock, reader>>

\* read() gives k of the bytes that there are.
Read(k) ==
    /\ rup /\ ~over /\ ri <= N /\ k <= rleft /\ k <= Len(sock)
    /\ buf' = buf \o SubSeq(sock, 1, k)
    /\ sock' = SubSeq(sock, k + 1, Len(sock))
    /\ rleft' = rleft - k
    /\ UNCHANGED <<input, writer, wup, rup, ri, delivered, over>>

\* (Mutant of ReadReturn: a partial read is enough.)
ReadReturnPartial ==
    /\ rup /\ ~over /\ ri <= N /\ (rleft = 0 \/ buf # <<>>)
    /\ delivered' = Append(delivered, buf)
    /\ ri' = ri + 1 /\ rleft' = Left(ri + 1) /\ buf' = <<>>
    /\ UNCHANGED <<input, writer, wup, rup, sock, over>>

\* readn() returns size.
ReadReturn ==
    /\ rup /\ ~over /\ ri <= N /\ rleft = 0
    /\ delivered' = Append(delivered, buf)
    /\ ri' = ri + 1 /\ rleft' = Left(ri + 1) /\ buf' = <<>>
    /\ UNCHANGED <<input, writer, wup, rup, sock, over>>

\* readn() returns 0 at the end of file, or -1; its buffer keeps what it has.
ReadEnd ==
    /\ rup /\ ~over /\ ri <= N /\ rleft > 0 /\ sock = <<>> /\ ~wup
    /\ over' = TRUE
    /\ UNCHANGED <<input, writer, wup, rup, sock, ri, rleft, buf, delivered>>

WriterEnds == wup /\ wup' = FALSE /\ UNCHANGED <<input, writer, rup, sock, reader>>
ReaderEnds == rup /\ rup' = FALSE /\ UNCHANGED <<input, writer, wup, sock, reader>>

Moves == 1 .. Room
Next == \/ \E k \in Moves : Write(k)
        \/ WriteReturn
        \/ \E k \in Moves : Read(k)
        \/ ReadReturn
        \/ ReadEnd
        \/ WriterEnds
        \/ ReaderEnds

Spec == Init /\ [][Next]_vars

\* Neither process stops in the middle of a call: a signal interrupts it only so
\* often, and read() and write() return when there are bytes and when there is room.
Fairness == /\ WF_vars(WriteReturn \/ \E k \in Moves : Write(k))
            /\ WF_vars(ReadReturn \/ ReadEnd \/ \E k \in Moves : Read(k))
FairSpec == Spec /\ Fairness

-----------------------------------------------------------------------------

TypeOK == /\ stream \in Seq(Bytes) /\ ends \in Seq(Nat) /\ IsCut(ends, stream)
          /\ wi \in 1 .. N + 1 /\ wleft \in 0 .. Left(wi)
          /\ ri \in 1 .. N + 1 /\ rleft \in 0 .. Left(ri)
          /\ wup \in BOOLEAN /\ rup \in BOOLEAN /\ over \in BOOLEAN
          /\ sock \in Seq(Bytes) /\ Len(sock) <= Room
          /\ buf \in Seq(Bytes) /\ delivered \in Seq(Seq(Bytes))

\* The positions in the stream that the two sides have come to.
Written == Start(wi) + Left(wi) - wleft
Taken == Start(ri) + Left(ri) - rleft

\* What is in the socket is exactly what writen() has written and readn() has not
\* read, in order, over any partial reads and writes (Protcol.c:11-16, 33-38).
SocketHolds ==
    rup => /\ Len(sock) = Written - Taken
           /\ \A k \in 1 .. Len(sock) : sock[k] = stream[Taken + k]

\* The buffer holds the part of its message that was read, from its beginning.
BufferHolds ==
    /\ Len(buf) = Taken - Start(ri)
    /\ \A k \in 1 .. Len(buf) : buf[k] = stream[Start(ri) + k]

IInv == /\ TypeOK /\ SocketHolds /\ BufferHolds
        /\ Len(delivered) = ri - 1

\* Protcol.c:21, "Evita scritture parziali": with readn() and writen() on the
\* two sides each call that returns size has read one whole message, and no
\* byte is lost, repeated or given to another message, whatever the socket
\* does and wherever a process ends. What ClientApi calls an item rests on it.
ImplementsDelivery == DeliverySpec

\* While both processes live, everything that is written is read, even through a
\* socket that holds less than one message.
Arrives == <>(~wup \/ ~rup \/ Len(delivered) = N)
=============================================================================
