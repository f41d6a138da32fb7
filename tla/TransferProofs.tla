--------------------------- MODULE TransferProofs ---------------------------
(***************************************************************************)
(* Transfer implements Delivery, for all streams, all ways to cut them in  *)
(* messages and any room in the socket.                                    *)
(***************************************************************************)
EXTENDS Transfer, SequenceTheorems, TLAPS

\* Part of a sequence, element by element.
LEMMA PartOfSeq ==
    ASSUME NEW S, NEW s \in Seq(S), NEW m \in Nat, NEW n \in Nat,
           m <= n, n <= Len(s)
    PROVE  /\ SubSeq(s, m + 1, n) \in Seq(S)
           /\ Len(SubSeq(s, m + 1, n)) = n - m
           /\ \A i \in 1 .. n - m : SubSeq(s, m + 1, n)[i] = s[m + i]
<1>1. \A i \in m + 1 .. n : s[i] \in S
  OBVIOUS
<1>2. \A i \in 1 .. n - (m + 1) + 1 : SubSeq(s, m + 1, n)[i] = s[m + 1 + i - 1]
  BY <1>1, SubSeqProperties
<1>3. ASSUME NEW i \in 1 .. n - m PROVE SubSeq(s, m + 1, n)[i] = s[m + i]
  <2>1. i \in 1 .. n - (m + 1) + 1 /\ m + 1 + i - 1 = m + i
    OBVIOUS
  <2> QED BY <2>1, <1>2
<1>4. /\ SubSeq(s, m + 1, n) \in Seq(S)
      /\ Len(SubSeq(s, m + 1, n)) = IF m + 1 <= n THEN n - (m + 1) + 1 ELSE 0
  BY <1>1, SubSeqProperties
<1> QED BY <1>3, <1>4

LEMMA NextPart ==
    ASSUME NEW S, NEW s \in Seq(S), NEW m \in Nat, NEW k \in Nat, m + k <= Len(s)
    PROVE  /\ SubSeq(s, m + 1, m + k) \in Seq(S)
           /\ Len(SubSeq(s, m + 1, m + k)) = k
           /\ \A i \in 1 .. k : SubSeq(s, m + 1, m + k)[i] = s[m + i]
<1>1. PICK n \in Nat : n = m + k
  OBVIOUS
<1>2. m <= n /\ n <= Len(s) /\ n - m = k
  BY <1>1
<1>3. /\ SubSeq(s, m + 1, n) \in Seq(S)
      /\ Len(SubSeq(s, m + 1, n)) = n - m
      /\ \A i \in 1 .. n - m : SubSeq(s, m + 1, n)[i] = s[m + i]
  BY <1>2, PartOfSeq
<1> QED BY <1>1, <1>2, <1>3

\* Where the messages begin and end.
LEMMA Positions ==
    ASSUME TypeOK
    PROVE  /\ N \in Nat
           /\ \A i \in 1 .. N + 1 : /\ Start(i) \in Nat /\ Left(i) \in Nat
                                    /\ Start(i) + Left(i) <= Len(stream)
           /\ \A i \in 1 .. N : /\ Left(i) = Size(i) /\ ends[i] = Start(i) + Left(i)
                                /\ Start(i + 1) = ends[i]
<1>1. N \in Nat /\ Len(stream) \in Nat /\ \A i \in 1 .. N : ends[i] \in Nat
  BY DEF TypeOK, N
<1>2. \A i \in 1 .. N : ends[i] <= Len(stream)
  BY DEF TypeOK, IsCut, N
<1>3. \A i \in 1 .. N - 1 : ends[i] <= ends[i + 1]
  BY DEF TypeOK, IsCut, N
<1>4. ASSUME NEW i \in 1 .. N
      PROVE  /\ Start(i) \in Nat /\ Left(i) \in Nat
             /\ Start(i) + Left(i) <= Len(stream)
             /\ Left(i) = Size(i) /\ ends[i] = Start(i) + Left(i)
             /\ Start(i + 1) = ends[i]
  <2>1. CASE i = 1
    BY <1>1, <1>2, <2>1 DEF Start, Left, Size
  <2>2. CASE i # 1
    <3>1. i - 1 \in 1 .. N - 1 /\ (i - 1) + 1 = i
      BY <1>1, <2>2
    <3>2. ends[i - 1] <= ends[i] /\ ends[i - 1] \in Nat /\ ends[i] \in Nat
      BY <3>1, <1>1, <1>3
    <3> QED BY <3>1, <3>2, <2>2, <1>1, <1>2 DEF Start, Left, Size
  <2> QED BY <2>1, <2>2
<1>5. Start(N + 1) \in Nat /\ Left(N + 1) = 0 /\ Start(N + 1) <= Len(stream)
  <2>1. CASE N = 0
    BY <2>1, <1>1 DEF Start, Left
  <2>2. CASE N # 0
    <3>1. N \in 1 .. N /\ (N + 1) - 1 = N
      BY <2>2, <1>1
    <3> QED BY <3>1, <2>2, <1>1, <1>2 DEF Start, Left
  <2> QED BY <2>1, <2>2
<1> QED BY <1>1, <1>4, <1>5

LEMMA InitIInv == Init => IInv
<1> SUFFICES ASSUME Init PROVE IInv
  OBVIOUS
<1>1. stream \in Seq(Bytes) /\ ends \in Seq(Nat) /\ IsCut(ends, stream)
  BY TransferAssumption DEF Init
<1>2. Left(1) \in Nat /\ Start(1) = 0
  BY <1>1 DEF Left, Size, Start, N
<1>3. N \in Nat
  BY <1>1 DEF N
<1>4. TypeOK
  <2>1. sock \in Seq(Bytes) /\ buf \in Seq(Bytes) /\ Len(sock) <= Room
    BY TransferAssumption DEF Init
  <2>2. delivered \in Seq(Seq(Bytes))
    BY DEF Init
  <2>3. wi \in 1 .. N + 1 /\ ri \in 1 .. N + 1
    BY <1>3 DEF Init
  <2>4. wleft \in 0 .. Left(wi) /\ rleft \in 0 .. Left(ri)
    BY <1>2 DEF Init
  <2> QED BY <1>1, <2>1, <2>2, <2>3, <2>4 DEF Init, TypeOK
<1>5. Written = 0 /\ Taken = 0
  BY <1>2 DEF Init, Written, Taken
<1> QED BY <1>2, <1>4, <1>5 DEF Init, IInv, SocketHolds, BufferHolds

-----------------------------------------------------------------------------
(* The steps *)

LEMMA WriteKeeps ==
    ASSUME IInv, NEW k \in Moves, Write(k) PROVE IInv'
<1> DEFINE part == SubSeq(stream, ends[wi] - wleft + 1, ends[wi] - wleft + k)
<1>0. TypeOK
  BY DEF IInv
<1>1. /\ k \in Nat /\ wi \in 1 .. N /\ k <= wleft /\ wleft \in 0 .. Left(wi)
      /\ stream \in Seq(Bytes) /\ Len(stream) \in Nat /\ sock \in Seq(Bytes)
      /\ N \in Nat /\ Room \in Nat
  BY <1>0, Positions, TransferAssumption DEF Write, TypeOK, Moves
<1>2. /\ Start(wi) \in Nat /\ Left(wi) \in Nat /\ Start(wi) + Left(wi) <= Len(stream)
      /\ ends[wi] = Start(wi) + Left(wi)
  BY <1>0, <1>1, Positions
<1>3. Written = ends[wi] - wleft /\ Written \in Nat /\ Written + k <= Len(stream)
  BY <1>1, <1>2 DEF Written
<1>4. /\ part \in Seq(Bytes) /\ Len(part) = k
      /\ \A i \in 1 .. k : part[i] = stream[Written + i]
  <2>1. part = SubSeq(stream, Written + 1, Written + k)
    BY <1>3
  <2>2. /\ SubSeq(stream, Written + 1, Written + k) \in Seq(Bytes)
        /\ Len(SubSeq(stream, Written + 1, Written + k)) = k
        /\ \A i \in 1 .. k :
              SubSeq(stream, Written + 1, Written + k)[i] = stream[Written + i]
    <3>1. PICK m \in Nat : m = Written
      BY <1>3
    <3>2. stream \in Seq(Bytes) /\ k \in Nat /\ m + k <= Len(stream)
      BY <3>1, <1>1, <1>3
    <3>3. /\ SubSeq(stream, m + 1, m + k) \in Seq(Bytes)
          /\ Len(SubSeq(stream, m + 1, m + k)) = k
          /\ \A i \in 1 .. k : SubSeq(stream, m + 1, m + k)[i] = stream[m + i]
      BY ONLY <3>2, NextPart, m \in Nat
    <3> QED BY <3>1, <3>3
  <2> QED BY <2>1, <2>2
<1>5. /\ sock' = sock \o part /\ wleft' = wleft - k /\ Len(sock) + k <= Room
      /\ rup /\ UNCHANGED <<stream, ends, wi, wup, rup, ri, rleft, buf, delivered, over>>
  BY DEF Write, input, reader
<1> HIDE DEF part
<1>6. /\ sock' \in Seq(Bytes) /\ Len(sock') = Len(sock) + k
      /\ \A i \in 1 .. Len(sock) + k :
           sock'[i] = IF i <= Len(sock) THEN sock[i] ELSE part[i - Len(sock)]
  BY <1>1, <1>4, <1>5, ConcatProperties
<1>7. N' = N /\ Left(wi)' = Left(wi) /\ Left(ri)' = Left(ri) /\ Start(ri)' = Start(ri)
      /\ Start(wi)' = Start(wi) /\ IsCut(ends, stream)'
  BY <1>0, <1>5 DEF N, Left, Start, Size, IsCut, TypeOK
<1>8. TypeOK'
  <2>1. sock' \in Seq(Bytes) /\ Len(sock') <= Room
    BY <1>5, <1>6
  <2>2. wleft' \in 0 .. Left(wi)'
    BY <1>1, <1>2, <1>5, <1>7
  <2>3. wup' \in BOOLEAN /\ rup' \in BOOLEAN /\ over' \in BOOLEAN
    BY <1>0, <1>5 DEF TypeOK
  <2> QED BY <2>1, <2>2, <2>3, <1>0, <1>5, <1>7 DEF TypeOK
<1>9. Written' = Written + k /\ Taken' = Taken
  BY <1>1, <1>2, <1>5, <1>7 DEF Written, Taken
<1>10. SocketHolds'
  <2>1. /\ Len(sock) = Written - Taken
        /\ \A i \in 1 .. Len(sock) : sock[i] = stream[Taken + i]
    BY <1>5 DEF IInv, SocketHolds
  <2>2. Taken \in Int /\ Len(sock) \in Nat
    <3>1. ri \in 1 .. N + 1 /\ rleft \in 0 .. Left(ri)
      BY <1>0 DEF TypeOK
    <3>2. Start(ri) \in Nat /\ Left(ri) \in Nat
      BY <3>1, <1>0, Positions
    <3> QED BY <3>1, <3>2, <1>1 DEF Taken
  <2>3. Len(sock') = Written' - Taken'
    BY <2>1, <2>2, <1>1, <1>3, <1>6, <1>9
  <2>4. ASSUME NEW i \in 1 .. Len(sock') PROVE sock'[i] = stream[Taken + i]
    <3>1. CASE i <= Len(sock)
      BY <3>1, <2>1, <2>2, <1>1, <1>6
    <3>2. CASE ~(i <= Len(sock))
      <4>1. i - Len(sock) \in 1 .. k /\ sock'[i] = part[i - Len(sock)]
        BY <3>2, <2>2, <1>1, <1>6
      <4>2. sock'[i] = stream[Written + (i - Len(sock))]
        BY <4>1, <1>4
      <4>3. Written + (i - Len(sock)) = Taken + i
        BY <2>1, <2>2, <1>3
      <4> QED BY <4>2, <4>3
    <3> QED BY <3>1, <3>2
  <2> QED BY <2>3, <2>4, <1>5, <1>9 DEF SocketHolds
<1>11. BufferHolds'
  BY <1>5, <1>7, <1>9 DEF IInv, BufferHolds
<1> QED BY <1>5, <1>8, <1>10, <1>11 DEF IInv

LEMMA ReadKeeps ==
    ASSUME IInv, NEW k \in Moves, Read(k) PROVE IInv'
<1> DEFINE part == SubSeq(sock, 1, k)
           rest == SubSeq(sock, k + 1, Len(sock))
<1>0. TypeOK
  BY DEF IInv
<1>1. /\ k \in Nat /\ ri \in 1 .. N /\ k <= rleft /\ rleft \in 0 .. Left(ri)
      /\ sock \in Seq(Bytes) /\ Len(sock) \in Nat /\ k <= Len(sock) /\ buf \in Seq(Bytes)
      /\ N \in Nat /\ Len(sock) <= Room /\ Room \in Nat
  BY <1>0, Positions, TransferAssumption DEF Read, TypeOK, Moves
<1>2. Start(ri) \in Nat /\ Left(ri) \in Nat /\ Taken \in Nat
  <2>1. Start(ri) \in Nat /\ Left(ri) \in Nat
    BY <1>0, <1>1, Positions
  <2> QED BY <2>1, <1>1 DEF Taken
<1>3. /\ part \in Seq(Bytes) /\ Len(part) = k
      /\ \A i \in 1 .. k : part[i] = sock[i]
  <2>1. 0 \in Nat /\ 0 <= k /\ 0 + 1 = 1 /\ k - 0 = k
    BY <1>1
  <2>2. /\ SubSeq(sock, 0 + 1, k) \in Seq(Bytes) /\ Len(SubSeq(sock, 0 + 1, k)) = k - 0
        /\ \A i \in 1 .. k - 0 : SubSeq(sock, 0 + 1, k)[i] = sock[0 + i]
    BY <2>1, <1>1, PartOfSeq
  <2>3. \A i \in 1 .. k : 0 + i = i
    BY <1>1
  <2> QED BY <2>1, <2>2, <2>3
<1>4. /\ rest \in Seq(Bytes) /\ Len(rest) = Len(sock) - k
      /\ \A i \in 1 .. Len(sock) - k : rest[i] = sock[k + i]
  BY <1>1, PartOfSeq
<1>5. /\ buf' = buf \o part /\ sock' = rest /\ rleft' = rleft - k /\ rup
      /\ UNCHANGED <<stream, ends, wi, wleft, wup, rup, ri, delivered, over>>
  BY DEF Read, input, writer
<1> HIDE DEF part, rest
<1>6. /\ buf' \in Seq(Bytes) /\ Len(buf') = Len(buf) + k
      /\ \A i \in 1 .. Len(buf) + k :
           buf'[i] = IF i <= Len(buf) THEN buf[i] ELSE part[i - Len(buf)]
  BY <1>1, <1>3, <1>5, ConcatProperties
<1>7. N' = N /\ Left(wi)' = Left(wi) /\ Left(ri)' = Left(ri) /\ Start(ri)' = Start(ri)
      /\ Start(wi)' = Start(wi) /\ IsCut(ends, stream)'
  BY <1>0, <1>5 DEF N, Left, Start, Size, IsCut, TypeOK
<1>8. TypeOK'
  <2>1. sock' \in Seq(Bytes) /\ Len(sock') <= Room /\ buf' \in Seq(Bytes)
    BY <1>1, <1>4, <1>5, <1>6
  <2>2. rleft' \in 0 .. Left(ri)'
    BY <1>1, <1>2, <1>5, <1>7
  <2>3. wup' \in BOOLEAN /\ rup' \in BOOLEAN /\ over' \in BOOLEAN
    BY <1>0, <1>5 DEF TypeOK
  <2> QED BY <2>1, <2>2, <2>3, <1>0, <1>5, <1>7 DEF TypeOK
<1>9. Written' = Written /\ Taken' = Taken + k
  BY <1>1, <1>2, <1>5, <1>7 DEF Written, Taken
<1>10. /\ Len(sock) = Written - Taken
       /\ \A i \in 1 .. Len(sock) : sock[i] = stream[Taken + i]
  BY <1>5 DEF IInv, SocketHolds
<1>11. SocketHolds'
  <2>1. Len(sock') = Written' - Taken'
    <3>1. Written \in Int
      <4>1. wi \in 1 .. N + 1 /\ wleft \in 0 .. Left(wi)
        BY <1>0 DEF TypeOK
      <4>2. Start(wi) \in Nat /\ Left(wi) \in Nat
        BY <4>1, <1>0, Positions
      <4> QED BY <4>1, <4>2 DEF Written
    <3>2. Len(sock') = Len(sock) - k
      BY <1>4, <1>5
    <3>3. Written - (Taken + k) = (Written - Taken) - k
      BY <3>1, <1>1, <1>2
    <3> QED BY <3>2, <3>3, <1>9, <1>10
  <2>2. ASSUME NEW i \in 1 .. Len(sock') PROVE sock'[i] = stream[Taken' + i]
    <3>1. i \in 1 .. Len(sock) - k /\ k + i \in 1 .. Len(sock)
      BY <1>1, <1>4, <1>5
    <3>2. sock'[i] = stream[Taken + (k + i)]
      BY <3>1, <1>4, <1>5, <1>10
    <3>3. Taken + (k + i) = Taken' + i
      BY <1>1, <1>2, <1>9
    <3> QED BY <3>2, <3>3
  <2> QED BY <2>1, <2>2, <1>5 DEF SocketHolds
<1>12. BufferHolds'
  <2>1. /\ Len(buf) = Taken - Start(ri) /\ Len(buf) \in Nat
        /\ \A i \in 1 .. Len(buf) : buf[i] = stream[Start(ri) + i]
    BY <1>1 DEF IInv, BufferHolds
  <2>2. Len(buf') = Taken' - Start(ri)
    BY <2>1, <1>1, <1>2, <1>6, <1>9
  <2>3. ASSUME NEW i \in 1 .. Len(buf') PROVE buf'[i] = stream[Start(ri) + i]
    <3>1. CASE i <= Len(buf)
      BY <3>1, <2>1, <1>1, <1>6
    <3>2. CASE ~(i <= Len(buf))
      <4>1. i - Len(buf) \in 1 .. k /\ i - Len(buf) \in 1 .. Len(sock)
        BY <3>2, <2>1, <1>1, <1>6
      <4>2. buf'[i] = part[i - Len(buf)]
        BY <3>2, <2>1, <1>1, <1>6
      <4>3. buf'[i] = stream[Taken + (i - Len(buf))]
        BY <4>1, <4>2, <1>3, <1>10
      <4>4. Taken + (i - Len(buf)) = Start(ri) + i
        BY <2>1, <1>2
      <4> QED BY <4>3, <4>4
    <3> QED BY <3>1, <3>2
  <2> QED BY <2>2, <2>3, <1>5, <1>7 DEF BufferHolds
<1> QED BY <1>5, <1>8, <1>11, <1>12 DEF IInv

\* The call for the next message begins where this one ends.
LEMMA NextPosition ==
    ASSUME TypeOK, NEW i \in 1 .. N
    PROVE  /\ i + 1 \in 1 .. N + 1 /\ Left(i + 1) \in Nat
           /\ Start(i + 1) = Start(i) + Left(i)
<1>1. i + 1 \in 1 .. N + 1 /\ N \in Nat
  BY Positions
<1> QED BY <1>1, Positions

LEMMA WriteReturnKeeps ==
    ASSUME IInv, WriteReturn PROVE IInv'
<1>0. TypeOK
  BY DEF IInv
<1>1. /\ wi \in 1 .. N /\ wi' = wi + 1 /\ wleft' = Left(wi + 1)
      /\ wleft = 0 \/ ~rup
      /\ UNCHANGED <<stream, ends, wup, rup, sock, ri, rleft, buf, delivered, over>>
  BY <1>0, Positions DEF WriteReturn, TypeOK, input, reader
<1>2. /\ wi + 1 \in 1 .. N + 1 /\ Left(wi + 1) \in Nat
      /\ Start(wi + 1) = Start(wi) + Left(wi)
  BY <1>0, <1>1, NextPosition
<1>3. /\ N' = N /\ Left(wi)' = Left(wi + 1) /\ Left(ri)' = Left(ri)
      /\ Start(ri)' = Start(ri) /\ Start(wi)' = Start(wi + 1) /\ IsCut(ends, stream)'
  BY <1>0, <1>1 DEF N, Left, Start, Size, IsCut, TypeOK
<1>4. TypeOK'
  BY <1>0, <1>1, <1>2, <1>3 DEF TypeOK
<1>5. Taken' = Taken
  BY <1>1, <1>3 DEF Taken
<1>6. rup => Written' = Written
  <2>1. Start(wi) \in Nat /\ Left(wi) \in Nat /\ Start(wi + 1) \in Nat
    BY <1>0, <1>1, <1>2, Positions
  <2> QED BY <2>1, <1>1, <1>2, <1>3 DEF Written
<1>7. SocketHolds'
  BY <1>1, <1>5, <1>6 DEF IInv, SocketHolds
<1>8. BufferHolds'
  BY <1>1, <1>3, <1>5 DEF IInv, BufferHolds
<1> QED BY <1>1, <1>4, <1>7, <1>8 DEF IInv

\* The buffer of a call that returns size is its message.
LEMMA BufferIsMessage ==
    ASSUME IInv, ri \in 1 .. N, rleft = 0 PROVE buf = Message(ri)
<1>0. TypeOK
  BY DEF IInv
<1>1. /\ Start(ri) \in Nat /\ Left(ri) \in Nat /\ ends[ri] = Start(ri) + Left(ri)
      /\ Start(ri) + Left(ri) <= Len(stream)
  BY <1>0, Positions
<1>2. stream \in Seq(Bytes) /\ buf \in Seq(Bytes)
  BY <1>0 DEF TypeOK
<1>3. /\ Message(ri) \in Seq(Bytes) /\ Len(Message(ri)) = ends[ri] - Start(ri)
      /\ \A i \in 1 .. ends[ri] - Start(ri) : Message(ri)[i] = stream[Start(ri) + i]
  <2>1. ends[ri] \in Nat /\ Start(ri) <= ends[ri] /\ ends[ri] <= Len(stream)
    BY <1>1
  <2> QED BY <2>1, <1>1, <1>2, PartOfSeq DEF Message
<1>4. /\ Len(buf) = ends[ri] - Start(ri)
      /\ \A i \in 1 .. Len(buf) : buf[i] = stream[Start(ri) + i]
  BY <1>1 DEF IInv, BufferHolds, Taken
<1> QED BY <1>2, <1>3, <1>4, SeqEqual

LEMMA ReadReturnKeeps ==
    ASSUME IInv, ReadReturn PROVE IInv'
<1>0. TypeOK
  BY DEF IInv
<1>1. /\ ri \in 1 .. N /\ ri' = ri + 1 /\ rleft = 0 /\ rleft' = Left(ri + 1)
      /\ buf' = <<>> /\ delivered' = Append(delivered, buf)
      /\ UNCHANGED <<stream, ends, wi, wleft, wup, rup, sock, over>>
  BY <1>0, Positions DEF ReadReturn, TypeOK, input, writer
<1>2. /\ ri + 1 \in 1 .. N + 1 /\ Left(ri + 1) \in Nat
      /\ Start(ri + 1) = Start(ri) + Left(ri)
  BY <1>0, <1>1, NextPosition
<1>3. /\ N' = N /\ Left(wi)' = Left(wi) /\ Left(ri)' = Left(ri + 1)
      /\ Start(wi)' = Start(wi) /\ Start(ri)' = Start(ri + 1) /\ IsCut(ends, stream)'
  BY <1>0, <1>1 DEF N, Left, Start, Size, IsCut, TypeOK
<1>4. /\ delivered' \in Seq(Seq(Bytes)) /\ Len(delivered') = Len(delivered) + 1
      /\ Len(delivered) = ri - 1 /\ ri \in Int
  BY <1>0, <1>1 DEF TypeOK, IInv
<1>5. TypeOK'
  <2>1. buf' \in Seq(Bytes)
    BY <1>1
  <2> QED BY <2>1, <1>0, <1>1, <1>2, <1>3, <1>4 DEF TypeOK
<1>6. Start(ri) \in Nat /\ Left(ri) \in Nat /\ Start(ri + 1) \in Nat
  BY <1>0, <1>1, <1>2, Positions
<1>7. Written' = Written /\ Taken' = Taken /\ Taken' = Start(ri)'
  BY <1>1, <1>2, <1>3, <1>6 DEF Written, Taken
<1>8. SocketHolds'
  BY <1>1, <1>7 DEF IInv, SocketHolds
<1>9. BufferHolds'
  BY <1>1, <1>3, <1>6, <1>7, <1>2 DEF BufferHolds
<1>10. Len(delivered') = ri' - 1
  BY <1>1, <1>4
<1> QED BY <1>5, <1>8, <1>9, <1>10 DEF IInv

\* The other steps move no byte, and may only end a process.
LEMMA EndKeeps ==
    ASSUME IInv, ReadEnd \/ WriterEnds \/ ReaderEnds \/ UNCHANGED vars PROVE IInv'
<1>0. TypeOK
  BY DEF IInv
<1>1. /\ UNCHANGED <<stream, ends, wi, wleft, sock, ri, rleft, buf, delivered>>
      /\ wup' \in BOOLEAN /\ rup' \in BOOLEAN /\ over' \in BOOLEAN /\ (rup' => rup)
  <2>1. UNCHANGED <<stream, ends, wi, wleft, sock, ri, rleft, buf, delivered>>
    BY DEF ReadEnd, WriterEnds, ReaderEnds, vars, input, writer, reader
  <2>2. wup \in BOOLEAN /\ rup \in BOOLEAN /\ over \in BOOLEAN
    BY <1>0 DEF TypeOK
  <2>3. (wup' = wup \/ wup' = FALSE) /\ (over' = over \/ over' = TRUE)
    BY DEF ReadEnd, WriterEnds, ReaderEnds, vars, input, writer, reader
  <2>4. rup' = rup \/ rup' = FALSE
    BY DEF ReadEnd, WriterEnds, ReaderEnds, vars, input, writer, reader
  <2>5. wup' \in BOOLEAN /\ rup' \in BOOLEAN /\ over' \in BOOLEAN
    BY <2>2, <2>3, <2>4, Zenon
  <2>6. rup' => rup
    BY <2>4, Zenon
  <2> QED BY <2>1, <2>5, <2>6
<1>2. /\ N' = N /\ Left(wi)' = Left(wi) /\ Left(ri)' = Left(ri)
      /\ Start(wi)' = Start(wi) /\ Start(ri)' = Start(ri) /\ IsCut(ends, stream)'
  BY <1>0, <1>1 DEF N, Left, Start, Size, IsCut, TypeOK
<1>3. TypeOK'
  <2>1. sock' \in Seq(Bytes) /\ Len(sock') <= Room /\ buf' \in Seq(Bytes)
        /\ delivered' \in Seq(Seq(Bytes))
    BY <1>0, <1>1 DEF TypeOK
  <2>2. /\ stream' \in Seq(Bytes) /\ ends' \in Seq(Nat)
        /\ wi' \in 1 .. N' + 1 /\ wleft' \in 0 .. Left(wi)'
        /\ ri' \in 1 .. N' + 1 /\ rleft' \in 0 .. Left(ri)'
    BY <1>0, <1>1, <1>2 DEF TypeOK
  <2>3. wup' \in BOOLEAN /\ rup' \in BOOLEAN /\ over' \in BOOLEAN
    BY <1>1
  <2>4. N' + 1 = N + 1 /\ IsCut(ends, stream)'
    BY <1>2
  <2> QED BY <2>1, <2>2, <2>3, <2>4, Zenon DEF TypeOK
<1>4. Written' = Written /\ Taken' = Taken
  BY <1>1, <1>2 DEF Written, Taken
<1>5. SocketHolds'
  <2> SUFFICES ASSUME rup'
               PROVE  /\ Len(sock') = Written' - Taken'
                      /\ \A k \in 1 .. Len(sock') : sock'[k] = stream'[Taken' + k]
    BY DEF SocketHolds
  <2>1. rup
    BY <1>1
  <2>2. /\ Len(sock) = Written - Taken
        /\ \A k \in 1 .. Len(sock) : sock[k] = stream[Taken + k]
    BY <2>1 DEF IInv, SocketHolds
  <2> QED BY <2>2, <1>1, <1>4
<1>6. BufferHolds'
  BY <1>1, <1>2, <1>4 DEF IInv, BufferHolds
<1> QED BY <1>1, <1>3, <1>5, <1>6 DEF IInv

LEMMA NextKeeps == IInv /\ [Next]_vars => IInv'
BY WriteKeeps, ReadKeeps, WriteReturnKeeps, ReadReturnKeeps, EndKeeps DEF Next

\* The inductive invariant: what is in the socket and in the reader's buffer is,
\* byte for byte, the part of the stream between the positions of the two sides
\* (the loops of Protcol.c:11-16 and 33-38), however reads and writes are cut.
THEOREM StreamKept == Spec => []IInv
<1>1. Init => IInv
  BY InitIInv
<1>2. IInv /\ [Next]_vars => IInv'
  BY NextKeeps
<1> QED BY <1>1, <1>2, PTL DEF Spec

-----------------------------------------------------------------------------
(* Refinement *)

LEMMA StepDelivers ==
    ASSUME IInv, [Next]_vars
    PROVE  [Deliver \/ Break]_<<stream, ends, delivered, over>>
<1>1. CASE ReadReturn
  <2>1. /\ ~over /\ ri \in 1 .. N /\ rleft = 0 /\ delivered' = Append(delivered, buf)
        /\ UNCHANGED <<stream, ends, over>>
    BY <1>1, Positions DEF ReadReturn, IInv, TypeOK, input
  <2>2. Len(delivered) = ri - 1 /\ ri - 1 < N /\ (ri - 1) + 1 = ri
    BY <2>1, Positions DEF IInv
  <2>3. buf = Message(ri)
    BY <2>1, BufferIsMessage
  <2> QED BY <2>1, <2>2, <2>3 DEF Deliver, N
<1>2. CASE ReadEnd
  BY <1>2 DEF ReadEnd, Break, input
<1>3. CASE UNCHANGED <<stream, ends, delivered, over>>
  BY <1>3
<1>4. \/ ReadReturn \/ ReadEnd
      \/ UNCHANGED <<stream, ends, delivered, over>>
  BY DEF Next, vars, Write, Read, WriteReturn, WriterEnds, ReaderEnds, input, reader
<1> QED BY <1>1, <1>2, <1>3, <1>4

\* Protcol.c:21, "Evita scritture parziali": readn() and writen() over any socket
\* implement the delivery of whole messages, each once and in order.
THEOREM MessagesWhole == Spec => ImplementsDelivery
<1>1. Init => DeliveryInit
  BY DEF Init, DeliveryInit
<1>2. IInv /\ [Next]_vars => [Deliver \/ Break]_<<stream, ends, delivered, over>>
  BY StepDelivers
<1> QED BY <1>1, <1>2, StreamKept, PTL DEF Spec, ImplementsDelivery, DeliverySpec
=============================================================================
