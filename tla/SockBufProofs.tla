---------------------------- MODULE SockBufProofs ----------------------------
(***************************************************************************)
(* Proofs about the buffered sockets, for every size of the buffers and    *)
(* every stream: the ring buffer keeps the order of the bytes, a line is   *)
(* what the stream holds, and what goes out is in its place but for the    *)
(* buffer that sockflush sends in parts.                                   *)
(***************************************************************************)
EXTENDS SockBuf, SequenceTheorems, TLAPS

(* No send will happen any more: the connection is broken, or the cancel   *)
(* flag is set and no call has passed its look at it.                      *)
Stopped == broken \/ (cancel /\ ~(running /\ wait = "select"))

(* As many bytes were sent, are in outbuf and are left to sockwrite as were *)
(* handed over, in that order; but once a part of outbuf was sent, it holds *)
(* bytes from before.                                                       *)
OutputInLine ==
  /\ Len(wire) + Len(outbuf) + Len(rest) = handed
  /\ \A i \in 1 .. Len(outbuf) :
       outbuf[i] = Len(wire) + i - 1 \/ (part /\ outbuf[i] < Len(wire) + i - 1)
  /\ \A i \in 1 .. Len(rest) : rest[i] = Len(wire) + Len(outbuf) + i - 1

(* Only a writing call has something left; sockwrite sends past outbuf     *)
(* only when that is empty, or when no send will happen.                   *)
OutputCalls ==
  /\ rest # << >> => Writing
  /\ running /\ call = "write" => outbuf = << >> \/ Stopped

OutputInv == WireInPlace /\ OutputCalls /\ (Stopped \/ OutputInLine)

InputInv == TypeOK /\ RingInOrder /\ LineInOrder

-----------------------------------------------------------------------------
(* Types *)

LEMMA TypesInit == Init => TypeOK
<1> SUFFICES ASSUME Init PROVE TypeOK
  OBVIOUS
<1>1. /\ << >> \in Seq(Nat)
      /\ << >> \in Seq(Nat \cup {Blank, Eof, Nul})
      /\ Len(<< >>) = 0
  OBVIOUS
<1>2. /\ inbuf \in [Slots -> Nat \cup {Blank}]
      /\ inbufstart \in Slots /\ inbuflen \in 0 .. Siz
  BY SockConstants DEF Init, SockConstants, Slots
<1> QED
  BY SockConstants, <1>1, <1>2 DEF Init, SockConstants, TypeOK

(* A function on 1 .. n is a sequence.                                     *)
LEMMA FunctionIsSeq ==
  ASSUME NEW S, NEW n \in Nat, NEW f \in [1 .. n -> S]
  PROVE  f \in Seq(S) /\ Len(f) = n
OBVIOUS

(* The steps that do not touch the buffers.                                *)
LEMMA TypesQuiet ==
  ASSUME TypeOK,
         UNCHANGED vars \/ BeginInput \/ CheckCancel \/ SelectTimeout \/ ReadEof \/ Flush
         \/ Cancel \/ PeerSends \/ PeerCloses
  PROVE  TypeOK'
<1> USE DEF TypeOK, input, output, peer, caller, flow, Begin, Return
<1>1. CASE UNCHANGED vars
  BY <1>1 DEF vars, Slots
<1>2. CASE BeginInput
  <2>1. << >> \in Seq(Nat \cup {Blank, Eof, Nul})
    OBVIOUS
  <2> QED
    BY <1>2, <2>1, SockConstants DEF BeginInput, SockConstants, Slots
<1>3. CASE CheckCancel
  BY <1>3 DEF CheckCancel, Slots
<1>4. CASE SelectTimeout
  BY <1>4 DEF SelectTimeout, Slots
<1>5. CASE ReadEof
  BY <1>5 DEF ReadEof, Slots
<1>6. CASE Flush
  BY <1>6 DEF Flush, Slots
<1>7. CASE Cancel
  BY <1>7 DEF Cancel, Slots
<1>8. CASE PeerSends
  BY <1>8, SockConstants DEF PeerSends, SockConstants, Slots
<1>9. CASE PeerCloses
  BY <1>9 DEF PeerCloses, Slots
<1> QED
  BY <1>1, <1>2, <1>3, <1>4, <1>5, <1>6, <1>7, <1>8, <1>9

(* The steps that take input.  Only what was sent is received.             *)
LEMMA TypesInput ==
  ASSUME TypeOK, RingInOrder,
         FillInbuf \/ TakeByte \/ LineEof \/ ReadBuffered \/ ReadSocket
  PROVE  TypeOK'
<1> USE SockConstants DEF SockConstants, TypeOK, output, peer
<1>0. recvd <= sent
  BY DEF RingInOrder
<1>1. CASE FillInbuf
  <2> DEFINE n == Least(sent - recvd, Siz)
  <2>1. n \in 0 .. Siz
    BY <1>0 DEF Least
  <2>2. inbuf' \in [Slots -> Nat \cup {Blank}]
    BY <1>1, <2>1 DEF FillInbuf, Filled, Offset, Slots
  <2>3. inbuflen' \in 0 .. Siz /\ recvd' \in Nat /\ wait' \in {"check", "select"}
    BY <1>1, <2>1 DEF FillInbuf
  <2> QED
    BY <1>1, <2>2, <2>3 DEF FillInbuf, Slots, caller
<1>2. CASE TakeByte
  <2> DEFINE c == inbuf[inbufstart]
  <2> DEFINE line == IF str = << >> /\ c \in EofLike THEN str ELSE Append(str, c)
  <2>1. c \in Nat \cup {Blank, Eof, Nul}
    OBVIOUS
  <2>2. line \in Seq(Nat \cup {Blank, Eof, Nul}) /\ Ended(line) \in Seq(Nat \cup {Blank, Eof, Nul})
    BY <2>1 DEF Ended
  <2>3. str' = line \/ str' = Ended(line)
    BY <1>2 DEF TakeByte
  <2>4. running' \in BOOLEAN
    BY <1>2 DEF TakeByte, LineGoesOn
  <2>5. inbufstart' \in Slots /\ inbuflen' \in 0 .. Siz /\ taken' \in Nat
    BY <1>2 DEF TakeByte, Wrapped, Slots
  <2>6. inbuf' \in [Slots -> Nat \cup {Blank}]
    BY <1>2 DEF TakeByte, Slots
  <2> HIDE DEF line
  <2> QED
    BY <1>2, <2>2, <2>3, <2>4, <2>5, <2>6 DEF TakeByte
<1>3. CASE LineEof
  <2>1. str' \in Seq(Nat \cup {Blank, Eof, Nul})
    <3>1. Append(str, Eof) \in Seq(Nat \cup {Blank, Eof, Nul})
      OBVIOUS
    <3>2. Append(Append(str, Eof), Nul) \in Seq(Nat \cup {Blank, Eof, Nul})
      BY <3>1
    <3> QED
      BY <1>3, <3>1, <3>2 DEF LineEof, Ended
  <2> QED
    BY <1>3, <2>1 DEF LineEof, Return, input, Slots
<1>4. CASE ReadBuffered
  <2>1. FirstPart \in 0 .. inbuflen /\ FirstPart <= size /\ FirstPart <= Siz - inbufstart
    BY DEF FirstPart, Least, Slots
  <2>2. /\ SecondPart \in 0 .. inbuflen - FirstPart
        /\ SecondPart > 0 => FirstPart = Siz - inbufstart
    BY <2>1 DEF SecondPart, FirstPart, Least, Slots
  <2>3. SecondPart < Siz
    BY <2>1, <2>2 DEF Slots
  <2>4. Copied \in [1 .. FirstPart + SecondPart -> Nat \cup {Blank, Eof, Nul}]
    <3> SUFFICES ASSUME NEW i \in 1 .. FirstPart + SecondPart
                 PROVE  /\ i <= SecondPart => inbuf[i - 1] \in Nat \cup {Blank, Eof, Nul}
                        /\ i <= FirstPart => inbuf[inbufstart + i - 1] \in Nat \cup {Blank, Eof, Nul}
      BY DEF Copied
    <3>1. i <= SecondPart => i - 1 \in Slots
      BY <2>1, <2>2, <2>3 DEF Slots
    <3>2. i <= FirstPart => inbufstart + i - 1 \in Slots
      BY <2>1, <2>2 DEF Slots
    <3> QED
      BY <3>1, <3>2
  <2>5. Copied \in Seq(Nat \cup {Blank, Eof, Nul})
    BY <2>1, <2>2, <2>4, FunctionIsSeq
  <2>6. inbufstart' \in Slots
    BY <1>4, <2>1, <2>2, <2>3 DEF ReadBuffered, Wrapped, Slots
  <2>7. inbuflen' \in 0 .. Siz /\ taken' \in Nat
    BY <1>4, <2>1, <2>2 DEF ReadBuffered
  <2>8. inbuf' \in [Slots -> Nat \cup {Blank}]
    BY <1>4 DEF ReadBuffered, Slots
  <2> QED
    BY <1>4, <2>5, <2>6, <2>7, <2>8 DEF ReadBuffered, Return
<1>5. CASE ReadSocket
  <2> DEFINE n == Least(sent - recvd, size)
  <2>1. n \in Nat
    BY <1>0 DEF Least
  <2>2. [i \in 1 .. n |-> recvd + i - 1] \in [1 .. n -> Nat \cup {Blank, Eof, Nul}]
    BY <2>1
  <2>3. [i \in 1 .. n |-> recvd + i - 1] \in Seq(Nat \cup {Blank, Eof, Nul})
    BY <2>1, <2>2, FunctionIsSeq
  <2>4. str' \in Seq(Nat \cup {Blank, Eof, Nul})
    BY <1>5, <2>3 DEF ReadSocket
  <2>5. recvd' \in Nat /\ taken' \in Nat
    BY <1>5, <2>1 DEF ReadSocket
  <2>6. inbuf' \in [Slots -> Nat \cup {Blank}]
    BY <1>5 DEF ReadSocket, Slots
  <2> QED
    BY <1>5, <2>4, <2>5, <2>6 DEF ReadSocket, Return, Slots
<1> QED
  BY <1>1, <1>2, <1>3, <1>4, <1>5

(* The steps that put output.                                              *)
LEMMA TypesOutput ==
  ASSUME TypeOK, Putc \/ Write \/ SendBuffered \/ SendDirect \/ SendEnds
  PROVE  TypeOK'
<1> USE SockConstants DEF SockConstants, TypeOK, input, peer, caller, Slots
<1>1. CASE Putc
  <2>1. Append(outbuf, handed) \in Seq(Nat) /\ Len(Append(outbuf, handed)) = Len(outbuf) + 1
    OBVIOUS
  <2>2. call' \in {"putc", "flush"} /\ wait' \in {"check", "select"} /\ running' \in BOOLEAN
    BY <1>1 DEF Putc
  <2>3. outbuf' \in Seq(Nat) /\ Len(outbuf') <= Siz /\ handed' \in Nat
    BY <1>1, <2>1 DEF Putc
  <2> QED
    BY <1>1, <2>2, <2>3 DEF Putc
<1>2. CASE Write
  <2>1. PICK n \in Sizes : rest' = Handed(n) /\ handed' = handed + n /\ Begin(FirstCall, n)
    BY <1>2 DEF Write
  <2>2. Handed(n) \in [1 .. n -> Nat] /\ n \in Nat
    BY DEF Handed
  <2>3. rest' \in Seq(Nat)
    BY <2>1, <2>2, FunctionIsSeq
  <2>4. call' \in {"flush", "write"} /\ running' = TRUE /\ wait' = "check" /\ size' \in Nat
    BY <2>1, <2>2 DEF Begin, FirstCall
  <2> QED
    BY <1>2, <2>1, <2>2, <2>3, <2>4 DEF Write
<1>3. CASE SendBuffered
  <2>1. PICK k \in 1 .. Len(outbuf) :
          /\ wire' = wire \o SubSeq(outbuf, 1, k)
          /\ outbuf' = Kept(k) /\ part' = (k # Len(outbuf))
          /\ again' = IF part THEN again \cup (Len(wire) + 1 .. Len(wire) + k) ELSE again
          /\ IF k = Len(outbuf) THEN FlushReturns ELSE wait' = "check" /\ UNCHANGED <<call, running>>
    BY <1>3 DEF SendBuffered
  <2>2. k \in 0 .. Len(outbuf)
    BY <2>1
  <2>3. /\ SubSeq(outbuf, 1, k) \in Seq(Nat)
        /\ Kept(k) \in Seq(Nat) /\ Len(Kept(k)) <= Len(outbuf)
    BY <2>2, SubSeqProperties DEF Kept
  <2>4. wire' \in Seq(Nat) /\ outbuf' \in Seq(Nat) /\ Len(outbuf') <= Siz
    BY <2>1, <2>3
  <2>5. /\ call' \in {"none", "gets", "read", "putc", "flush", "write"}
        /\ wait' \in {"check", "select"} /\ running' \in BOOLEAN
    BY <2>1 DEF FlushReturns, Return
  <2>6. part' \in BOOLEAN /\ again' \subseteq 1 .. Len(wire')
    <3> DEFINE m == Len(wire)
               p == Len(wire')
    <3>1. p = m + k /\ m \in Nat /\ k \in Nat
      BY <2>1, <2>2, SubSeqProperties, ConcatProperties
    <3>2. again \subseteq 1 .. m /\ again' \subseteq again \cup (m + 1 .. m + k)
      BY <2>1
    <3>3. part' \in BOOLEAN
      BY <2>1
    <3> HIDE DEF m, p
    <3>4. again' \subseteq 1 .. p
      BY ONLY <3>1, <3>2
    <3> QED
      BY <3>3, <3>4 DEF p
  <2> QED
    BY <1>3, <2>4, <2>5, <2>6 DEF SendBuffered
<1>4. CASE SendDirect
  <2>1. PICK k \in 1 .. Len(rest) :
          /\ wire' = wire \o SubSeq(rest, 1, k)
          /\ rest' = SubSeq(rest, k + 1, Len(rest))
          /\ IF k = Len(rest) THEN Return ELSE wait' = "check" /\ UNCHANGED <<call, running>>
    BY <1>4 DEF SendDirect
  <2>2. k \in 0 .. Len(rest)
    BY <2>1
  <2>3. SubSeq(rest, 1, k) \in Seq(Nat) /\ SubSeq(rest, k + 1, Len(rest)) \in Seq(Nat)
    <3>1. Len(rest) \in Nat /\ \A i \in 1 .. Len(rest) : rest[i] \in Nat
      OBVIOUS
    <3>2. SubSeq(rest, 1, k) \in Seq(Nat)
      BY <2>2, <3>1, SubSeqProperties
    <3>3. SubSeq(rest, k + 1, Len(rest)) \in Seq(Nat)
      BY <2>2, <3>1, SubSeqProperties
    <3> QED
      BY <3>2, <3>3
  <2>4. wire' \in Seq(Nat) /\ rest' \in Seq(Nat) /\ again \subseteq 1 .. Len(wire')
    BY <2>1, <2>3, ConcatProperties
  <2>5. /\ call' \in {"none", "gets", "read", "putc", "flush", "write"}
        /\ wait' \in {"check", "select"} /\ running' \in BOOLEAN
    BY <2>1 DEF Return
  <2> QED
    BY <1>4, <2>4, <2>5 DEF SendDirect
<1>5. CASE SendEnds
  <2>1. << >> \in Seq(Nat)
    OBVIOUS
  <2> QED
    BY <1>5, <2>1 DEF SendEnds, FlushReturns, Return
<1> QED
  BY <1>1, <1>2, <1>3, <1>4, <1>5

-----------------------------------------------------------------------------
(* The ring buffer *)

(* A step that leaves the ring alone.                                      *)
LEMMA RingQuiet ==
  ASSUME TypeOK, RingInOrder, UNCHANGED input, sent' \in Nat, sent' >= sent
  PROVE  RingInOrder'
BY DEF TypeOK, RingInOrder, input, Offset, Slots

(* Distances around a ring, seen from a place n slots further on.          *)
Distance(a, s) == IF s >= a THEN s - a ELSE s + Siz - a

LEMMA DistanceMoves ==
  ASSUME Siz \in Nat, NEW a \in Int, NEW b \in Int, NEW s \in Int, NEW n \in Int, NEW len \in Int,
         0 <= a, a < Siz, 0 <= b, b < Siz, 0 <= s, s < Siz, 0 <= n, n <= len, len <= Siz,
         b = a + n \/ b = a + n - Siz,
         Distance(b, s) < len - n
  PROVE  Distance(a, s) = Distance(b, s) + n /\ Distance(b, s) \in Int
BY DEF Distance

(* A step that takes n bytes from the ring and moves inbufstart n slots on,*)
(* around the end of inbuf, leaves the others in order.                    *)
LEMMA RingTaken ==
  ASSUME TypeOK, RingInOrder, NEW n \in 0 .. inbuflen,
         inbuf' = inbuf, recvd' = recvd, sent' = sent,
         inbuflen' = inbuflen - n, taken' = taken + n,
         inbufstart' \in Slots,
         inbufstart' = inbufstart + n \/ inbufstart' = inbufstart + n - Siz
  PROVE  RingInOrder'
<1> USE SockConstants DEF SockConstants, TypeOK, RingInOrder
<1>1. ASSUME NEW s \in Slots, Offset(s)' < inbuflen'
      PROVE  inbuf'[s] = taken' + Offset(s)'
  <2>1. Offset(s) = Distance(inbufstart, s) /\ Offset(s)' = Distance(inbufstart', s)
    BY DEF Offset, Distance
  <2>2. /\ inbufstart \in Int /\ inbufstart' \in Int /\ s \in Int
        /\ 0 <= inbufstart /\ inbufstart < Siz /\ 0 <= inbufstart' /\ inbufstart' < Siz
        /\ 0 <= s /\ s < Siz
    BY DEF Slots
  <2> DEFINE a == inbufstart
             b == inbufstart'
             len == inbuflen
  <2>3. /\ Siz \in Nat /\ len \in Int /\ n \in Int /\ 0 <= n /\ n <= len /\ len <= Siz
        /\ b = a + n \/ b = a + n - Siz
    OBVIOUS
  <2>4. Distance(b, s) < len - n
    BY <1>1, <2>1
  <2> HIDE DEF a, b, len
  <2>5. Distance(a, s) = Distance(b, s) + n /\ Distance(b, s) \in Int
    BY <2>2, <2>3, <2>4, DistanceMoves DEF a, b
  <2>6. Offset(s) = Offset(s)' + n /\ Offset(s)' \in Int
    BY <2>1, <2>5 DEF a, b
  <2>7. Offset(s) < inbuflen
    BY <1>1, <2>6
  <2>8. inbuf[s] = taken + Offset(s)
    BY <2>7
  <2> QED
    BY <2>6, <2>8
<1>2. recvd' = taken' + inbuflen' /\ recvd' <= sent'
  OBVIOUS
<1> QED
  BY <1>1, <1>2

(* The bytes from inbufstart on, by their distance.                        *)
LEMMA RingHolds ==
  ASSUME TypeOK, RingInOrder, NEW k \in 0 .. inbuflen - 1
  PROVE  /\ inbufstart + k < Siz => inbuf[inbufstart + k] = taken + k
         /\ inbufstart + k >= Siz => inbuf[inbufstart + k - Siz] = taken + k
<1> USE SockConstants DEF SockConstants, TypeOK, RingInOrder
<1>1. ASSUME inbufstart + k < Siz PROVE inbuf[inbufstart + k] = taken + k
  <2>1. inbufstart + k \in Slots /\ Offset(inbufstart + k) = k
    BY <1>1 DEF Offset, Slots
  <2>2. k < inbuflen
    OBVIOUS
  <2> QED
    BY <2>1, <2>2
<1>2. ASSUME inbufstart + k >= Siz PROVE inbuf[inbufstart + k - Siz] = taken + k
  <2>1. inbufstart + k - Siz \in Slots /\ Offset(inbufstart + k - Siz) = k
    BY <1>2 DEF Offset, Slots
  <2>2. k < inbuflen
    OBVIOUS
  <2> QED
    BY <2>1, <2>2
<1> QED
  BY <1>1, <1>2

LEMMA RingNext == TypeOK /\ RingInOrder /\ [Next]_vars => RingInOrder'
<1> SUFFICES ASSUME TypeOK, RingInOrder, [Next]_vars PROVE RingInOrder'
  OBVIOUS
<1> USE SockConstants DEF SockConstants
<1>1. CASE FillInbuf
  <2> DEFINE n == Least(sent - recvd, Siz)
  <2>1. n \in 1 .. Siz /\ n <= sent - recvd /\ inbuflen = 0 /\ recvd = taken
    BY <1>1 DEF FillInbuf, Least, NeedsInput, TypeOK, RingInOrder
  <2>2. ASSUME NEW s \in Slots, Offset(s)' < inbuflen'
        PROVE  inbuf'[s] = taken' + Offset(s)'
    <3>1. Offset(s)' = Offset(s) /\ Offset(s) < n /\ taken' = taken
      BY <1>1, <2>2 DEF FillInbuf, Offset
    <3>2. inbuf'[s] = recvd + Offset(s)
      BY <1>1, <3>1 DEF FillInbuf, Filled
    <3> QED
      BY <2>1, <3>1, <3>2
  <2>3. recvd' = taken' + inbuflen' /\ recvd' <= sent'
    BY <1>1, <2>1 DEF FillInbuf, peer, TypeOK
  <2> QED
    BY <2>2, <2>3 DEF RingInOrder
<1>2. CASE TakeByte
  <2>1. 1 \in 0 .. inbuflen /\ inbufstart \in Slots
    BY <1>2 DEF TakeByte, TypeOK
  <2>2. /\ inbufstart' \in Slots
        /\ inbufstart' = inbufstart + 1 \/ inbufstart' = inbufstart + 1 - Siz
    BY <1>2, <2>1 DEF TakeByte, Wrapped, Slots
  <2> QED
    BY <1>2, <2>1, <2>2, RingTaken DEF TakeByte, peer
<1>3. CASE ReadBuffered
  <2> USE DEF TypeOK
  <2>1. FirstPart \in 0 .. inbuflen /\ FirstPart <= size /\ FirstPart <= Siz - inbufstart
    BY DEF FirstPart, Least, Slots
  <2>2. /\ SecondPart \in 0 .. inbuflen - FirstPart
        /\ SecondPart > 0 => FirstPart = Siz - inbufstart
    BY <2>1 DEF SecondPart, FirstPart, Least, Slots
  <2> DEFINE n == FirstPart + SecondPart
  <2>3. n \in 0 .. inbuflen
    BY <2>1, <2>2
  <2>4. /\ inbufstart' \in Slots
        /\ inbufstart' = inbufstart + n \/ inbufstart' = inbufstart + n - Siz
    BY <1>3, <2>1, <2>2 DEF ReadBuffered, Wrapped, Slots
  <2>5. inbuf' = inbuf /\ recvd' = recvd /\ sent' = sent /\ inbuflen' = inbuflen - n
        /\ taken' = taken + n
    BY <1>3 DEF ReadBuffered, peer
  <2> HIDE DEF n
  <2> QED
    BY <2>3, <2>4, <2>5, RingTaken
<1>4. CASE ReadSocket
  <2>1. /\ inbuflen = 0
        /\ inbuflen' = 0 /\ inbufstart' = inbufstart /\ inbufstart \in Slots
    BY <1>4 DEF ReadSocket, NeedsInput, TypeOK
  <2>2. \A s \in Slots : Offset(s)' >= 0
    BY <2>1 DEF Offset, Slots
  <2>3. \A s \in Slots : ~(Offset(s)' < inbuflen')
    <3> TAKE s \in Slots
    <3>1. Offset(s)' \in Int
      BY <2>1 DEF Offset, Slots
    <3> QED
      BY <2>1, <2>2, <3>1
  <2>4. recvd' = taken' + inbuflen' /\ recvd' <= sent'
    BY <1>4, <2>1 DEF ReadSocket, Least, TypeOK, RingInOrder, peer
  <2> QED
    BY <2>3, <2>4 DEF RingInOrder
<1>5. CASE PeerSends
  BY <1>5, RingQuiet DEF PeerSends, TypeOK
<1>6. CASE \/ UNCHANGED vars \/ BeginInput \/ CheckCancel \/ SelectTimeout \/ LineEof \/ ReadEof
           \/ Putc \/ Flush \/ Write \/ SendBuffered \/ SendDirect \/ SendEnds
           \/ Cancel \/ PeerCloses
  <2>1. UNCHANGED <<input, sent>>
    BY <1>6 DEF vars, peer, BeginInput, CheckCancel, SelectTimeout, LineEof, ReadEof, Putc, Flush,
       Write, SendBuffered, SendDirect, SendEnds, Cancel, PeerCloses
  <2> QED
    BY <2>1, RingQuiet DEF TypeOK
<1> QED
  BY <1>1, <1>2, <1>3, <1>4, <1>5, <1>6 DEF Next

-----------------------------------------------------------------------------
(* Lines *)

(* A step that leaves the caller's buffer and a line under way alone.      *)
LEMMA LineQuiet ==
  ASSUME LineInOrder, UNCHANGED caller,
         call' = "gets" => call = "gets" /\ running' = running /\ taken' = taken
  PROVE  LineInOrder'
BY DEF LineInOrder, Line, caller

(* The line inside what sockgets stores.                                   *)
LEMMA LineEnded ==
  ASSUME NEW line \in Seq(Nat \cup {Blank, Eof, Nul}), line # << >>,
         ~running', str' = Ended(line)
  PROVE  /\ Line' = line /\ str' # << >> /\ str'[Len(line) + 1] = Nul
         /\ Len(line) \in Nat /\ Len(line) > 0
<1>1. str' = Append(line, Nul)
  BY DEF Ended
<1>2. /\ Len(line) \in Nat /\ Len(str') = Len(line) + 1 /\ str'[Len(line) + 1] = Nul
      /\ \A i \in 1 .. Len(line) : str'[i] = line[i]
  BY <1>1
<1>3. Len(line) > 0
  BY <1>2, EmptySeq
<1>4. SubSeq(str', 1, Len(str') - 1) = line
  BY <1>1
<1>5. str' # << >>
  BY <1>2
<1> QED
  BY <1>2, <1>3, <1>4, <1>5 DEF Line

LEMMA LineNext == TypeOK /\ RingInOrder /\ LineInOrder /\ [Next]_vars => LineInOrder'
<1> SUFFICES ASSUME TypeOK, RingInOrder, LineInOrder, [Next]_vars PROVE LineInOrder'
  OBVIOUS
<1> USE SockConstants DEF SockConstants
<1>1. CASE BeginInput
  <2>1. /\ str' = << >> /\ base' = taken /\ taken' = taken /\ running' = TRUE
        /\ \E n \in Sizes : size' = n
    BY <1>1 DEF BeginInput, Begin, input
  <2>2. Len(str') = 0 /\ size' \in Nat \ {0} /\ taken \in Nat /\ Line' = str'
    BY <2>1 DEF TypeOK, Line
  <2> QED
    BY <2>1, <2>2 DEF LineInOrder
<1>2. CASE TakeByte
  <2> DEFINE c == inbuf[inbufstart]
  <2> DEFINE line == IF str = << >> /\ c \in EofLike THEN str ELSE Append(str, c)
  <2> DEFINE stops == Ends \cup EofLike \cup {Eof}
  <2>1. /\ call = "gets" /\ running /\ call' = call /\ UNCHANGED <<size, base>>
        /\ taken' = taken + 1 /\ running' = LineGoesOn(c, line)
        /\ str' = IF LineGoesOn(c, line) THEN line ELSE Ended(line)
    BY <1>2 DEF TakeByte
  <2>2. c = taken
    <3>1. 0 \in 0 .. inbuflen - 1 /\ inbufstart + 0 = inbufstart /\ inbufstart < Siz
          /\ taken + 0 = taken
      BY <1>2 DEF TakeByte, TypeOK, Slots
    <3> QED
      BY <3>1, RingHolds
  <2>3. /\ Len(str) \in Nat /\ Len(str) < size /\ taken = base + Len(str)
        /\ base \in Nat /\ size \in Nat
        /\ \A i \in 1 .. Len(str) : str[i] = base + i - 1 /\ str[i] \notin stops
    BY <2>1 DEF LineInOrder, Line, TypeOK
  <2>4. c \in Nat /\ (c \in stops <=> c \in Ends \cup EofLike)
    BY <2>2, <2>3
  <2>5. CASE str = << >> /\ c \in EofLike
    <3>1. str' = << >> /\ ~running' /\ size' = size /\ Line' = << >> /\ Len(<< >>) = 0
      BY <2>1, <2>5 DEF LineGoesOn, Ended, Line
    <3>2. taken' = base' + 1 /\ base' \in EofLike
      <4>1. Len(str) = 0 /\ taken' = taken + 1 /\ base' = base /\ c \in EofLike
        BY <2>1, <2>5
      <4> HIDE DEF c
      <4> QED
        BY <2>2, <2>3, <4>1
    <3>3. size' \in Nat
      BY <2>1, <2>3
    <3> HIDE DEF c, line
    <3>4. 0 <= size' /\ \A i \in 1 .. 0 : FALSE
      BY <3>3
    <3> QED
      BY <3>1, <3>2, <3>4 DEF LineInOrder
  <2>6. CASE ~(str = << >> /\ c \in EofLike)
    <3>1. line = Append(str, c)
      BY <2>6
    <3>2. /\ Len(line) = Len(str) + 1 /\ line \in Seq(Nat \cup {Blank, Eof, Nul})
          /\ line[Len(str) + 1] = c
          /\ \A i \in 1 .. Len(str) : line[i] = str[i]
      BY <3>1, <2>4 DEF TypeOK
    <3>3. running' = (c \notin Ends \cup EofLike /\ Len(line) < size)
      BY <2>1 DEF LineGoesOn
    <3>4. line # << >> /\ Len(line) # 0 /\ Len(line) \in Nat
      BY <2>3, <3>2
    <3>5. Line' = line /\ (~running' => str' # << >> /\ str'[Len(line) + 1] = Nul)
      <4>1. CASE running'
        BY <2>1, <4>1 DEF Line
      <4>2. CASE ~running'
        <5> HIDE DEF c, line
        <5> QED
          BY <2>1, <3>2, <3>4, <4>2, LineEnded
      <4> QED
        BY <4>1, <4>2
    <3>6. /\ Len(line) <= size' /\ (running' => Len(line) < size')
          /\ taken' = base' + Len(line)
      <4>1. size' = size /\ base' = base /\ taken' = taken + 1
        BY <2>1
      <4>2. Len(line) <= size' /\ taken' = base' + Len(line)
        BY <2>3, <3>2, <4>1
      <4>3. running' => Len(line) < size'
        BY <3>3, <4>1
      <4> QED
        BY <4>2, <4>3
    <3>7. ASSUME NEW i \in 1 .. Len(line)
          PROVE  /\ line[i] = base' + i - 1
                 /\ line[i] \in stops => ~running' /\ i = Len(line)
                 /\ ~running' /\ i = Len(line) => line[i] \in stops \/ i = size'
      <4>1. CASE i \in 1 .. Len(str)
        BY <2>1, <2>3, <3>2, <4>1
      <4>2. CASE i = Len(str) + 1
        <5>1. line[i] = c /\ i = Len(line)
          BY <3>2, <4>2
        <5>2. line[i] = base' + i - 1
          BY <2>1, <2>2, <2>3, <4>2, <5>1
        <5>3. c \in stops => ~running'
          BY <2>4, <3>3
        <5>4. ~running' => c \in stops \/ i = size'
          <6> SUFFICES ASSUME ~running', c \notin stops PROVE i = size'
            OBVIOUS
          <6>1. ~(Len(line) < size)
            BY <2>4, <3>3
          <6> QED
            BY <2>1, <2>3, <3>2, <4>2, <6>1
        <5> QED
          BY <5>1, <5>2, <5>3, <5>4
      <4> QED
        BY <2>3, <3>2, <4>1, <4>2
    <3>8. line[Len(line)] # Eof
      BY <2>4, <3>2
    <3>9. running' => str' = line
      BY <2>1
    <3> HIDE DEF c, line
    <3> QED
      BY <3>4, <3>5, <3>6, <3>7, <3>8, <3>9 DEF LineInOrder
  <2> QED
    BY <2>5, <2>6
<1>3. CASE LineEof
  <2> DEFINE line == Append(str, Eof)
  <2>1. /\ call = "gets" /\ running /\ ~running' /\ call' = call /\ UNCHANGED <<size, base, taken>>
        /\ str' = Ended(IF str = << >> THEN str ELSE line)
    BY <1>3 DEF LineEof, Return, NoInput, NeedsInput, Reading, input
  <2>2. /\ Len(str) \in Nat /\ Len(str) < size /\ size \in Nat /\ base \in Nat
        /\ taken = base + Len(str)
        /\ \A i \in 1 .. Len(str) :
             str[i] = base + i - 1 /\ str[i] \notin Ends \cup EofLike \cup {Eof}
    BY <2>1 DEF LineInOrder, Line, TypeOK
  <2>3. CASE str = << >>
    <3>1. str' = << >> /\ Line' = << >> /\ Len(<< >>) = 0 /\ taken' = base'
      BY <2>1, <2>2, <2>3 DEF Ended, Line
    <3> QED
      BY <2>1, <2>2, <3>1 DEF LineInOrder
  <2>4. CASE str # << >>
    <3>1. /\ Len(line) = Len(str) + 1 /\ line \in Seq(Nat \cup {Blank, Eof, Nul})
          /\ line[Len(str) + 1] = Eof
          /\ \A i \in 1 .. Len(str) : line[i] = str[i]
      BY DEF TypeOK
    <3>2. \A i \in 1 .. Len(line) : i \in 1 .. Len(str) \/ i = Len(line)
      <4> DEFINE n == Len(str)
                 m == Len(line)
      <4>1. n \in Nat /\ m = n + 1
        BY <2>2, <3>1
      <4> HIDE DEF n, m
      <4>2. \A i \in 1 .. m : i \in 1 .. n \/ i = m
        BY <4>1
      <4> QED
        BY <4>2 DEF n, m
    <3>3. line # << >> /\ Len(line) > 0 /\ Len(line) \in Nat
      <4> DEFINE n == Len(str)
                 m == Len(line)
      <4>1. n \in Nat /\ m = n + 1
        BY <2>2, <3>1
      <4> HIDE DEF n, m
      <4>2. m > 0 /\ m \in Nat
        BY <4>1
      <4>3. Len(line) # 0 /\ Len(<< >>) = 0
        BY <4>2 DEF m
      <4> QED
        BY <4>2, <4>3 DEF m
    <3>4. str' = Ended(line)
      BY <2>1, <2>4
    <3> HIDE DEF line
    <3>5. Line' = line /\ str' # << >> /\ str'[Len(line) + 1] = Nul
      BY <2>1, <3>1, <3>3, <3>4, LineEnded
    <3>6. taken' = base' + Len(line) - 1 /\ line[Len(line)] = Eof /\ Len(line) <= size'
      BY <2>1, <2>2, <3>1
    <3> QED
      BY <2>1, <2>2, <3>1, <3>2, <3>3, <3>5, <3>6 DEF LineInOrder
  <2> QED
    BY <2>3, <2>4
<1>4. CASE \/ UNCHANGED vars \/ CheckCancel \/ SelectTimeout \/ FillInbuf \/ ReadEof
           \/ Cancel \/ PeerSends \/ PeerCloses
  <2>1. UNCHANGED caller /\ (call' = "gets" => call = "gets" /\ running' = running /\ taken' = taken)
    BY <1>4 DEF vars, input, output, peer, caller, flow, CheckCancel, SelectTimeout, FillInbuf,
       ReadEof, Return, Cancel, PeerSends, PeerCloses
  <2> QED
    BY <2>1, LineQuiet
<1>5. CASE ReadBuffered \/ ReadSocket
  BY <1>5 DEF ReadBuffered, ReadSocket, Return, LineInOrder
<1>6. CASE Putc \/ Flush \/ Write \/ SendBuffered \/ SendDirect \/ SendEnds
  <2>1. call' # "gets"
    BY <1>6 DEF Putc, Flush, Write, Begin, FirstCall, SendBuffered, SendDirect, SendEnds, Writing,
       FlushReturns, Return
  <2> QED
    BY <2>1 DEF LineInOrder
<1> QED
  BY <1>1, <1>2, <1>3, <1>4, <1>5, <1>6 DEF Next

LEMMA InputInvariant == Spec => []InputInv
<1>1. Init => InputInv
  <2> SUFFICES ASSUME Init PROVE InputInv
    OBVIOUS
  <2>1. RingInOrder
    <3>1. \A s \in Slots : ~(Offset(s) < inbuflen)
      BY SockConstants DEF Init, Offset, Slots, SockConstants
    <3> QED
      BY <3>1 DEF Init, RingInOrder
  <2>2. LineInOrder
    BY DEF Init, LineInOrder
  <2> QED
    BY <2>1, <2>2, TypesInit DEF InputInv
<1>2. InputInv /\ [Next]_vars => InputInv'
  <2> SUFFICES ASSUME InputInv, [Next]_vars PROVE InputInv'
    OBVIOUS
  <2>1. TypeOK'
    BY TypesQuiet, TypesInput, TypesOutput DEF InputInv, Next
  <2> QED
    BY <2>1, RingNext, LineNext DEF InputInv
<1> QED
  BY <1>1, <1>2, PTL DEF Spec

(* The buffers never hold more than they can.                              *)
THEOREM SockTypes == Spec => []TypeOK
<1>1. InputInv => TypeOK
  BY DEF InputInv
<1> QED
  BY <1>1, InputInvariant, PTL

(* The ring buffer holds what was received and not taken, in order, for    *)
(* every size of the buffer and every pattern of refills and reads.        *)
THEOREM SockRing == Spec => []RingInOrder
<1>1. InputInv => RingInOrder
  BY DEF InputInv
<1> QED
  BY <1>1, InputInvariant, PTL

(* What sockgets stores is the next bytes of the stream up to the first    *)
(* that ends the line, or up to the size, and a '\0' behind them, which is *)
(* one byte more than the size when the line is as long as that            *)
(* (sock.c:392-406).                                                       *)
THEOREM SockLines == Spec => []LineInOrder
<1>1. InputInv => LineInOrder
  BY DEF InputInv
<1> QED
  BY <1>1, InputInvariant, PTL

-----------------------------------------------------------------------------
(* What the caller sees *)

(* The size is one that callers pass, and before it returns sockread has   *)
(* taken nothing.                                                          *)
BeforeRead ==
  /\ Reading => size \in Sizes
  /\ running /\ call = "read" => str = << >> /\ taken = base

LEMMA BeforeReadNext == BeforeRead /\ [Next]_vars => BeforeRead'
<1> SUFFICES ASSUME BeforeRead, [Next]_vars PROVE BeforeRead'
  OBVIOUS
<1> USE DEF BeforeRead, Reading, input, caller, flow
<1>1. CASE BeginInput
  BY <1>1 DEF BeginInput, Begin
<1>2. CASE CheckCancel \/ SelectTimeout \/ Cancel \/ PeerSends \/ PeerCloses \/ UNCHANGED vars
  BY <1>2 DEF CheckCancel, SelectTimeout, Cancel, PeerSends, PeerCloses, vars
<1>3. CASE FillInbuf \/ TakeByte \/ LineEof
  BY <1>3 DEF FillInbuf, TakeByte, LineEof, Return
<1>4. CASE ReadBuffered \/ ReadSocket \/ ReadEof
  BY <1>4 DEF ReadBuffered, ReadSocket, ReadEof, Return
<1>5. CASE Putc \/ Flush \/ Write \/ SendBuffered \/ SendDirect \/ SendEnds
  <2>1. call' \notin {"gets", "read"}
    BY <1>5 DEF Putc, Flush, Write, Begin, FirstCall, SendBuffered, SendDirect, SendEnds, Writing,
       FlushReturns, Return
  <2> QED
    BY <2>1
<1> QED
  BY <1>1, <1>2, <1>3, <1>4, <1>5 DEF Next

(* A step is not seen if the call goes on, or none was there and none is.  *)
LEMMA NotSeen ==
  ASSUME UNCHANGED <<sent, closed, cancel>>,
         \/ Reading /\ Reading' /\ UNCHANGED <<call, size, base>>
         \/ ~Reading /\ ~Reading' /\ UNCHANGED <<taken, str>>
  PROVE  UNCHANGED Reads!vars
BY DEF Reads!vars

(* What a step that takes k bytes and returns looks like.                  *)
LEMMA TakeSeen ==
  ASSUME Reading, running' = FALSE, UNCHANGED <<sent, closed, cancel>>,
         NEW k, taken' = base + k, base + k <= sent
  PROVE  Reads!Take(k)
BY DEF Reads!Take, Reading

(* sockgets returns a line ...                                             *)
LEMMA LineSeen ==
  ASSUME TypeOK, RingInOrder, LineInOrder, TakeByte, ~running'
  PROVE  Reads!Line
<1> DEFINE c == inbuf[inbufstart]
           line == IF str = << >> /\ c \in EofLike THEN str ELSE Append(str, c)
           k == Len(str) + 1
<1>1. /\ call = "gets" /\ running /\ Reading /\ ~Reading' /\ running' = FALSE
      /\ UNCHANGED <<sent, closed, cancel>> /\ taken' = taken + 1
      /\ str' = Ended(line) /\ running' = LineGoesOn(c, line)
  BY DEF TakeByte, Reading, peer
<1>2. c = taken
  <2>1. 0 \in 0 .. inbuflen - 1 /\ inbufstart + 0 = inbufstart /\ inbufstart < Siz
        /\ taken + 0 = taken
    BY SockConstants DEF TakeByte, TypeOK, Slots, SockConstants
  <2> QED
    BY <2>1, RingHolds
<1>3. taken < sent
  BY DEF TakeByte, TypeOK, RingInOrder
<1>4. /\ Len(str) \in Nat /\ Len(str) < size /\ taken = base + Len(str)
      /\ base \in Nat /\ size \in Nat /\ sent \in Nat
      /\ \A i \in 1 .. Len(str) : str[i] = base + i - 1 /\ str[i] \notin Ends \cup EofLike
  BY <1>1 DEF LineInOrder, Line, TypeOK
<1> HIDE DEF c
<1>5. Reads!Take(k)
  <2>1. k \in Nat /\ taken' = base + k /\ base + k <= sent
    BY <1>1, <1>3, <1>4
  <2> HIDE DEF k
  <2> QED
    BY <1>1, <2>1, TakeSeen
<1>6. Reads!InLine(Len(str))
  BY <1>1, <1>4 DEF Reads!InLine
<1>7. Reads!InLine(k) => k = size
  <2> SUFFICES ASSUME Reads!InLine(k) PROVE k = size
    OBVIOUS
  <2>1. k \in 1 .. k /\ base + k - 1 = c
    BY <1>2, <1>4
  <2>2. c \notin Ends \cup EofLike
    BY <1>1, <2>1 DEF Reads!InLine
  <2>3. line = Append(str, c) /\ ~(Len(line) < size)
    BY <1>1, <2>2 DEF LineGoesOn
  <2>4. Len(line) = k
    BY <1>2, <1>4, <2>3 DEF TypeOK
  <2> QED
    BY <1>4, <2>3, <2>4
<1>8. str' = IF k = 1 /\ base \in EofLike THEN << >> ELSE Append(Reads!Bytes(k), Nul)
  <2>1. CASE str = << >> /\ c \in EofLike
    BY <1>1, <1>2, <1>4, <2>1 DEF Ended
  <2>2. CASE ~(str = << >> /\ c \in EofLike)
    <3>1. ~(k = 1 /\ base \in EofLike)
      <4>1. k = 1 => str = << >> /\ c = base
        <5>1. Len(str) = 0 => str = << >>
          BY EmptySeq DEF TypeOK
        <5> QED
          BY <1>2, <1>4, <5>1
      <4> QED
        BY <2>2, <4>1
    <3>2. line = Append(str, c) /\ str \in Seq(Nat \cup {Blank, Eof, Nul}) /\ c \in Nat \cup {Blank, Eof, Nul}
      BY <1>1, <1>2, <2>2 DEF TypeOK
    <3>3. /\ line \in Seq(Nat \cup {Blank, Eof, Nul}) /\ Len(line) = k
          /\ \A i \in 1 .. Len(str) : line[i] = str[i]
          /\ line[k] = c
      BY <3>2, AppendProperties
    <3>4. \A i \in 1 .. k : line[i] = base + i - 1
      <4> SUFFICES ASSUME NEW i \in 1 .. k PROVE line[i] = base + i - 1
        OBVIOUS
      <4>1. CASE i = k
        BY <1>2, <1>4, <3>3, <4>1
      <4>2. CASE i # k
        BY <1>4, <3>3, <4>2
      <4> QED
        BY <4>1, <4>2
    <3>5. line = [i \in 1 .. k |-> base + i - 1]
      <4>1. line = [i \in 1 .. Len(line) |-> line[i]]
        BY <3>3
      <4> QED
        BY <3>3, <3>4, <4>1
    <3>6. line # << >>
      BY <1>4, <3>3
    <3>7. str' = Append(line, Nul)
      BY <1>1, <3>6 DEF Ended
    <3>8. Reads!Bytes(k) = [i \in 1 .. k |-> base + i - 1]
      BY <1>1 DEF Reads!Bytes
    <3> QED
      BY <3>1, <3>5, <3>7, <3>8
  <2> QED
    BY <2>1, <2>2
<1>9. k \in 1 .. size /\ k - 1 = Len(str)
  BY <1>4
<1> HIDE DEF k
<1> QED
  BY <1>1, <1>5, <1>6, <1>7, <1>8, <1>9 DEF Reads!Line

(* ... or the part of one that there is.                                   *)
LEMMA PartSeen ==
  ASSUME TypeOK, RingInOrder, LineInOrder, LineEof
  PROVE  Reads!PartOfLine
<1> DEFINE k == Len(str)
<1>1. /\ call = "gets" /\ running /\ Reading /\ ~Reading' /\ running' = FALSE /\ inbuflen = 0
      /\ UNCHANGED <<sent, closed, cancel, taken>>
      /\ str' = Ended(IF str = << >> THEN str ELSE Append(str, Eof))
      /\ cancel \/ (closed /\ sent = recvd)
  BY DEF LineEof, NoInput, NeedsInput, Reading, Return, peer, input
<1>2. /\ k \in Nat /\ k < size /\ taken = base + k
      /\ base \in Nat /\ size \in Nat /\ sent \in Nat
      /\ \A i \in 1 .. k : str[i] = base + i - 1 /\ str[i] \notin Ends \cup EofLike
  BY <1>1 DEF LineInOrder, Line, TypeOK
<1>3. taken = recvd /\ taken <= sent
  BY <1>1 DEF RingInOrder, TypeOK
<1>4. Reads!Take(k)
  <2> HIDE DEF k
  <2> QED
    BY <1>1, <1>2, <1>3, TakeSeen
<1>5. Reads!InLine(k) /\ Reads!Over(k)
  BY <1>1, <1>2, <1>3 DEF Reads!InLine, Reads!Over
<1>6. str' = IF k = 0 THEN << >> ELSE Reads!Bytes(k) \o <<Eof, Nul>>
  <2>1. str = [i \in 1 .. k |-> base + i - 1]
    <3>1. str = [i \in 1 .. k |-> str[i]]
      BY DEF TypeOK
    <3> QED
      BY <1>2, <3>1
  <2>2. Reads!Bytes(k) = [i \in 1 .. k |-> base + i - 1]
    BY <1>1 DEF Reads!Bytes
  <2>3. k = 0 <=> str = << >>
    BY EmptySeq DEF TypeOK
  <2>4. CASE str = << >>
    BY <1>1, <2>3, <2>4 DEF Ended
  <2>5. CASE str # << >>
    <3>1. str' = Append(Append(str, Eof), Nul)
      <4>1. Append(str, Eof) # << >>
        <5> DEFINE S == Nat \cup {Blank, Eof, Nul}
        <5>1. str \in Seq(S) /\ Eof \in S
          BY DEF TypeOK
        <5> HIDE DEF S
        <5>2. Len(Append(str, Eof)) = Len(str) + 1 /\ Len(str) \in Nat
          BY <5>1, AppendProperties, LenProperties
        <5>3. Len(Append(str, Eof)) # 0 /\ Len(<< >>) = 0
          BY <5>2
        <5> QED
          BY <5>3
      <4> QED
        BY <1>1, <2>5, <4>1 DEF Ended
    <3>2. Append(Append(str, Eof), Nul) = str \o <<Eof, Nul>>
      BY DEF TypeOK
    <3> HIDE DEF k
    <3> QED
      BY <2>1, <2>2, <2>3, <2>5, <3>1, <3>2
  <2> QED
    BY <2>4, <2>5
<1>7. k \in 0 .. size - 1
  BY <1>2
<1> HIDE DEF k
<1> QED
  BY <1>1, <1>4, <1>5, <1>6, <1>7 DEF Reads!PartOfLine

(* sockread returns with at least a byte, unless there will be none.       *)
LEMMA ReadSeen ==
  ASSUME TypeOK, RingInOrder, BeforeRead, ReadBuffered \/ ReadSocket \/ ReadEof,
         size \in Nat \ {0}
  PROVE  Reads!Read
<1>1. /\ call = "read" /\ running /\ Reading /\ ~Reading' /\ running' = FALSE
      /\ UNCHANGED <<sent, closed, cancel>>
      /\ str = << >> /\ taken = base /\ base \in Nat /\ sent \in Nat /\ size \in Nat
  BY DEF ReadBuffered, ReadSocket, ReadEof, NeedsInput, NoInput, Reading, Return, peer, BeforeRead,
     TypeOK
<1>2. ASSUME NEW k \in 0 .. size, taken' = base + k, base + k <= sent, Len(str') = k,
             k = 0 => cancel \/ (closed /\ taken = sent)
      PROVE  Reads!Read
  <2>1. Reads!Take(k)
    BY <1>1, <1>2, TakeSeen
  <2>2. k = 0 => Reads!Over(0)
    BY <1>1, <1>2 DEF Reads!Over
  <2> QED
    BY <1>1, <1>2, <2>1, <2>2 DEF Reads!Read
<1>3. CASE ReadBuffered
  <2> DEFINE k == FirstPart + SecondPart
  <2>1. /\ FirstPart \in Nat /\ SecondPart \in Nat /\ FirstPart > 0
        /\ k <= size /\ k <= inbuflen /\ inbuflen \in Nat
    BY <1>3, SockConstants DEF ReadBuffered, FirstPart, SecondPart, Least, TypeOK, Slots,
       SockConstants
  <2>2. taken' = taken + k /\ str' = Copied /\ recvd = taken + inbuflen /\ recvd <= sent
    BY <1>3 DEF ReadBuffered, RingInOrder
  <2>3. Len(Copied) = k
    BY <2>1 DEF Copied
  <2>4. k \in 0 .. size /\ k # 0 /\ base + k <= sent
    BY <1>1, <2>1, <2>2 DEF TypeOK
  <2> HIDE DEF k
  <2> QED
    BY <1>1, <1>2, <2>2, <2>3, <2>4
<1>4. CASE ReadSocket
  <2> DEFINE k == Least(sent - recvd, size)
  <2>1. /\ inbuflen = 0 /\ sent > recvd /\ recvd = taken /\ taken' = taken + k
        /\ str' = [i \in 1 .. k |-> recvd + i - 1]
    BY <1>4 DEF ReadSocket, NeedsInput, RingInOrder, TypeOK
  <2>2. k \in Nat /\ k # 0 /\ k <= size /\ base + k <= sent
    BY <1>1, <2>1 DEF Least, TypeOK
  <2> HIDE DEF k
  <2>3. Len(str') = k
    BY <2>1, <2>2
  <2> QED
    BY <1>1, <1>2, <2>1, <2>2, <2>3
<1>5. CASE ReadEof
  <2>1. /\ inbuflen = 0 /\ recvd = taken /\ UNCHANGED <<taken, str>>
        /\ cancel \/ (closed /\ sent = recvd)
    BY <1>5 DEF ReadEof, NoInput, NeedsInput, RingInOrder, TypeOK, input, caller
  <2>2. 0 \in 0 .. size /\ taken' = base + 0 /\ base + 0 <= sent /\ Len(str') = 0
    BY <1>1, <2>1 DEF RingInOrder
  <2> QED
    BY <1>1, <1>2, <2>1, <2>2
<1> QED
  BY <1>3, <1>4, <1>5

(* ReadsAreAtomic: to its caller each call on the input takes the next     *)
(* bytes of the stream at once, and the end of the stream comes behind its *)
(* last byte (sock.c:355-446).                                             *)
THEOREM SockReadsAtomic == Spec => ReadsAreAtomic
<1>1. Init => BeforeRead /\ Reads!Init
  BY DEF Init, BeforeRead, Reads!Init, Reading
<1>2. ASSUME InputInv, BeforeRead, [Next]_vars PROVE [Reads!Next]_(Reads!vars)
  <2> USE DEF input, output, peer, caller, flow
  <2>1. CASE BeginInput
    <3>1. /\ ~Reading /\ Reading' /\ call' \in {"gets", "read"} /\ size' \in Sizes
          /\ UNCHANGED <<sent, closed, cancel>> /\ base' = taken
      BY <2>1 DEF BeginInput, Begin, Reading
    <3> QED
      BY <3>1 DEF Reads!Call, Reads!Next
  <2>2. CASE TakeByte
    <3>1. CASE running'
      <4>1. Reading /\ Reading' /\ UNCHANGED <<call, size, base, sent, closed, cancel>>
        BY <2>2, <3>1 DEF TakeByte, Reading
      <4> QED
        BY <4>1, NotSeen
    <3>2. CASE ~running'
      BY <1>2, <2>2, <3>2, LineSeen DEF InputInv, Reads!Next
    <3> QED
      BY <3>1, <3>2
  <2>3. CASE LineEof
    BY <1>2, <2>3, PartSeen DEF InputInv, Reads!Next
  <2>4. CASE ReadBuffered \/ ReadSocket \/ ReadEof
    <3>1. Reading
      BY <2>4 DEF ReadBuffered, ReadSocket, ReadEof, NeedsInput, NoInput, Reading
    <3>2. size \in Nat \ {0}
      BY <1>2, <3>1, SockConstants DEF BeforeRead, SockConstants
    <3> QED
      BY <1>2, <2>4, <3>2, ReadSeen DEF InputInv, Reads!Next
  <2>5. CASE CheckCancel \/ SelectTimeout \/ FillInbuf
    <3>1. UNCHANGED <<sent, closed, cancel, call, running, size, base, taken, str>>
      BY <2>5 DEF CheckCancel, SelectTimeout, FillInbuf
    <3>2. Reading' = Reading
      BY <3>1 DEF Reading
    <3> QED
      BY <3>1, <3>2, NotSeen
  <2>6. CASE Putc \/ Flush \/ Write \/ SendBuffered \/ SendDirect \/ SendEnds
    <3>1. ~Reading /\ ~Reading' /\ UNCHANGED <<sent, closed, cancel, taken, str>>
      BY <2>6 DEF Putc, Flush, Write, Begin, FirstCall, SendBuffered, SendDirect, SendEnds, Writing,
         FlushReturns, Return, Reading
    <3> QED
      BY <3>1, NotSeen
  <2>7. CASE Cancel \/ PeerSends \/ PeerCloses
    <3>1. /\ UNCHANGED <<call, running, size, base, taken, str>>
          /\ Reads!Arrive \/ Reads!Close \/ Reads!GiveUp
      <4>1. CASE Cancel
        BY <2>7, <4>1 DEF Cancel, Reads!GiveUp
      <4>2. CASE PeerSends
        <5>1. sent \in Nat
          BY <1>2 DEF InputInv, TypeOK
        <5> QED
          BY <2>7, <4>2, <5>1, SockConstants DEF PeerSends, Reads!Arrive, SockConstants
      <4>3. CASE PeerCloses
        BY <2>7, <4>3 DEF PeerCloses, Reads!Close
      <4> QED
        BY <2>7, <4>1, <4>2, <4>3
    <3>2. Reading' = Reading
      BY <3>1 DEF Reading
    <3> QED
      BY <3>1, <3>2 DEF Reads!World, Reads!Next
  <2>8. CASE UNCHANGED vars
    <3>1. UNCHANGED <<sent, closed, cancel, call, running, size, base, taken, str>>
      BY <2>8 DEF vars
    <3>2. Reading' = Reading
      BY <3>1 DEF Reading
    <3> QED
      BY <3>1, <3>2, NotSeen
  <2> QED
    BY <1>2, <2>1, <2>2, <2>3, <2>4, <2>5, <2>6, <2>7, <2>8 DEF Next
<1> QED
  BY <1>1, <1>2, BeforeReadNext, InputInvariant, PTL DEF Spec, ReadsAreAtomic, Reads!Spec

-----------------------------------------------------------------------------
(* Output *)

(* Once no send will happen, none ever will.                               *)
LEMMA StoppedStays == TypeOK /\ Stopped /\ [Next]_vars => Stopped' /\ wire' = wire
<1> SUFFICES ASSUME TypeOK, Stopped, [Next]_vars PROVE Stopped' /\ wire' = wire
  OBVIOUS
<1> USE DEF Stopped
<1>1. CASE UNCHANGED vars
  BY <1>1 DEF vars, output, flow
<1>2. CASE BeginInput \/ Putc \/ Flush \/ Write
  BY <1>2 DEF BeginInput, Putc, Flush, Write, Begin, output
<1>3. CASE CheckCancel \/ SelectTimeout \/ Cancel \/ PeerSends \/ PeerCloses
  BY <1>3 DEF CheckCancel, SelectTimeout, Cancel, PeerSends, PeerCloses, output, flow
<1>4. CASE FillInbuf \/ TakeByte \/ LineEof \/ ReadBuffered \/ ReadSocket \/ ReadEof
  BY <1>4 DEF FillInbuf, TakeByte, LineEof, ReadBuffered, ReadSocket, ReadEof, Return, output
<1>5. CASE SendBuffered \/ SendDirect
  BY <1>5 DEF SendBuffered, SendDirect, FlushReturns, Return
<1>6. CASE SendEnds
  BY <1>6 DEF SendEnds, FlushReturns, Return
<1> QED
  BY <1>1, <1>2, <1>3, <1>4, <1>5, <1>6 DEF Next

(* A step that leaves the output alone and is not a writing call's.        *)
LEMMA OutputQuiet ==
  ASSUME TypeOK, OutputInv, [Next]_vars, UNCHANGED output, ~Writing,
         running' /\ call' = "write" => outbuf = << >>
  PROVE  OutputInv'
<1>1. rest = << >>
  BY DEF OutputInv, OutputCalls
<1>2. OutputCalls'
  BY <1>1 DEF OutputCalls, output
<1>3. WireInPlace'
  BY DEF OutputInv, WireInPlace, output
<1>4. Stopped' \/ OutputInLine'
  BY StoppedStays DEF OutputInv, OutputInLine, output
<1> QED
  BY <1>2, <1>3, <1>4 DEF OutputInv

LEMMA OutputNext ==
  ASSUME TypeOK, OutputInv, [Next]_vars
  PROVE  OutputInv'
<1> USE SockConstants DEF SockConstants
<1>1. CASE UNCHANGED vars
  BY <1>1 DEF vars, output, flow, OutputInv, WireInPlace, OutputCalls, OutputInLine, Stopped, Writing
<1>2. CASE BeginInput
  BY <1>2, OutputQuiet DEF BeginInput, Begin, Writing
<1>3. CASE Flush
  BY <1>3, OutputQuiet DEF Flush, Begin, Writing
<1>4. CASE FillInbuf \/ TakeByte \/ LineEof \/ ReadBuffered \/ ReadSocket \/ ReadEof
  BY <1>4, OutputQuiet DEF FillInbuf, TakeByte, LineEof, ReadBuffered, ReadSocket, ReadEof, Return,
     NoInput, NeedsInput, Reading, Writing
<1>5. CASE CheckCancel \/ SelectTimeout \/ Cancel \/ PeerSends \/ PeerCloses
  <2>1. UNCHANGED output /\ UNCHANGED <<call, running>>
    BY <1>5 DEF CheckCancel, SelectTimeout, Cancel, PeerSends, PeerCloses, flow
  <2>2. OutputCalls'
    BY <2>1, StoppedStays DEF OutputInv, OutputCalls, output, Writing
  <2>3. WireInPlace' /\ (Stopped' \/ OutputInLine')
    BY <2>1, StoppedStays DEF OutputInv, WireInPlace, OutputInLine, output
  <2> QED
    BY <2>2, <2>3 DEF OutputInv
<1>6. CASE Putc
  <2>1. /\ ~running /\ outbuf' = Append(outbuf, handed) /\ handed' = handed + 1
        /\ UNCHANGED <<rest, wire, part, again>>
        /\ running' => call' = "flush"
    BY <1>6 DEF Putc
  <2>2. rest = << >>
    BY <2>1 DEF OutputInv, OutputCalls, Writing
  <2>3. OutputCalls' /\ WireInPlace'
    BY <2>1, <2>2 DEF OutputInv, OutputCalls, WireInPlace
  <2>4. ASSUME OutputInLine PROVE OutputInLine'
    <3>1. /\ Len(outbuf') = Len(outbuf) + 1
          /\ outbuf'[Len(outbuf) + 1] = handed
          /\ \A i \in 1 .. Len(outbuf) : outbuf'[i] = outbuf[i]
      BY <2>1 DEF TypeOK
    <3>2. Len(rest) = 0 /\ handed = Len(wire) + Len(outbuf)
      BY <2>2, <2>4 DEF OutputInLine, TypeOK
    <3>3. Len(wire) \in Nat /\ Len(outbuf) \in Nat /\ handed \in Nat
      BY DEF TypeOK
    <3>4. ASSUME NEW i \in 1 .. Len(outbuf')
          PROVE  outbuf'[i] = Len(wire) + i - 1 \/ (part /\ outbuf'[i] < Len(wire) + i - 1)
      <4>1. i \in 1 .. Len(outbuf) \/ i = Len(outbuf) + 1
        BY <3>1, <3>3
      <4> QED
        BY <2>4, <3>1, <3>2, <3>3, <4>1 DEF OutputInLine
    <3> QED
      BY <2>1, <2>2, <3>1, <3>2, <3>3, <3>4 DEF OutputInLine
  <2> QED
    BY <2>3, <2>4, StoppedStays DEF OutputInv
<1>7. CASE Write
  <2>1. PICK n \in Sizes : rest' = Handed(n) /\ handed' = handed + n /\ Begin(FirstCall, n)
    BY <1>7 DEF Write
  <2>2. ~running /\ running' /\ call' = FirstCall /\ UNCHANGED <<wire, outbuf, part, again>>
    BY <1>7, <2>1 DEF Write, Begin
  <2>3. rest = << >>
    BY <2>2 DEF OutputInv, OutputCalls, Writing
  <2>4. OutputCalls' /\ WireInPlace'
    BY <2>2 DEF OutputInv, OutputCalls, WireInPlace, FirstCall, Writing
  <2>5. ASSUME OutputInLine PROVE OutputInLine'
    <3>1. n \in Nat /\ handed \in Nat /\ Len(wire) \in Nat /\ Len(outbuf) \in Nat
      BY DEF TypeOK
    <3>2. Len(Handed(n)) = n /\ \A i \in 1 .. n : Handed(n)[i] = handed + i - 1
      BY <3>1 DEF Handed
    <3>3. handed = Len(wire) + Len(outbuf)
      BY <2>3, <2>5, <3>1 DEF OutputInLine
    <3> QED
      BY <2>1, <2>2, <2>5, <3>1, <3>2, <3>3 DEF OutputInLine
  <2> QED
    BY <2>4, <2>5, StoppedStays DEF OutputInv
<1>8. CASE SendBuffered
  <2>1. PICK k \in 1 .. Len(outbuf) :
          /\ wire' = wire \o SubSeq(outbuf, 1, k)
          /\ outbuf' = Kept(k) /\ part' = (k # Len(outbuf))
          /\ again' = IF part THEN again \cup (Len(wire) + 1 .. Len(wire) + k) ELSE again
          /\ IF k = Len(outbuf) THEN FlushReturns ELSE wait' = "check" /\ UNCHANGED <<call, running>>
    BY <1>8 DEF SendBuffered
  <2>2. /\ running /\ call = "flush" /\ wait = "select" /\ ~broken
        /\ UNCHANGED <<rest, handed, broken, cancel>>
    BY <1>8 DEF SendBuffered
  <2>3. /\ Len(outbuf) \in Nat /\ Len(wire) \in Nat /\ Len(rest) \in Nat /\ handed \in Nat
        /\ k \in 1 .. Len(outbuf) /\ \A i \in 1 .. Len(outbuf) : outbuf[i] \in Nat
    BY DEF TypeOK
  <2>4. OutputInLine
    BY <2>2 DEF OutputInv, Stopped
  <2>5. /\ SubSeq(outbuf, 1, k) \in Seq(Nat) /\ Len(SubSeq(outbuf, 1, k)) = k
        /\ \A i \in 1 .. k : SubSeq(outbuf, 1, k)[i] = outbuf[i]
    BY <2>3, SubSeqProperties
  <2>6. /\ Len(outbuf') = Len(outbuf) - k
        /\ \A i \in 1 .. Len(outbuf) - k : outbuf'[i] = outbuf[i]
    BY <2>1, <2>3, SubSeqProperties DEF Kept
  <2>7. /\ Len(wire') = Len(wire) + k
        /\ \A i \in 1 .. Len(wire) + k :
             wire'[i] = IF i <= Len(wire) THEN wire[i] ELSE SubSeq(outbuf, 1, k)[i - Len(wire)]
    BY <2>1, <2>5, ConcatProperties DEF TypeOK
  <2>8. OutputCalls'
    <3>1. CASE k = Len(outbuf)
      <4>1. outbuf' = << >>
        BY <2>1, <3>1 DEF Kept, TypeOK
      <4> QED
        BY <2>1, <2>2, <3>1, <4>1 DEF OutputCalls, OutputInv, FlushReturns, Return, Writing
    <3>2. CASE k # Len(outbuf)
      BY <2>1, <2>2, <3>2 DEF OutputCalls, OutputInv, Writing
    <3> QED
      BY <3>1, <3>2
  <2>9. WireInPlace'
    <3> SUFFICES ASSUME NEW i \in 1 .. Len(wire')
                 PROVE  wire'[i] = i - 1 \/ (i \in again' /\ wire'[i] < i - 1)
      BY DEF WireInPlace
    <3>1. CASE i <= Len(wire)
      BY <2>1, <2>7, <3>1 DEF OutputInv, WireInPlace
    <3>2. CASE i > Len(wire)
      <4> DEFINE h == i - Len(wire)
      <4>1. h \in 1 .. k /\ h \in 1 .. Len(outbuf) /\ Len(wire) + h = i
        BY <2>3, <2>7, <3>2
      <4>2. wire'[i] = outbuf[h]
        BY <2>5, <2>7, <3>2, <4>1
      <4>3. outbuf[h] = Len(wire) + h - 1 \/ (part /\ outbuf[h] < Len(wire) + h - 1)
        BY <2>4, <4>1 DEF OutputInLine
      <4>4. part => i \in again'
        BY <2>1, <2>3, <2>7, <3>2
      <4> HIDE DEF h
      <4> QED
        BY <2>3, <4>1, <4>2, <4>3, <4>4
    <3> QED
      BY <2>3, <2>7, <3>1, <3>2
  <2>10. OutputInLine'
    <3>1. Len(wire') + Len(outbuf') + Len(rest') = handed'
      <4> DEFINE w == Len(wire)
                 o == Len(outbuf)
                 r == Len(rest)
      <4>1. w + o + r = handed /\ rest' = rest /\ handed' = handed
        BY <2>2, <2>4 DEF OutputInLine
      <4>2. w \in Nat /\ o \in Nat /\ r \in Nat /\ k \in Int
        BY <2>3
      <4>3. Len(wire') = w + k /\ Len(outbuf') = o - k
        BY <2>6, <2>7
      <4> HIDE DEF w, o, r
      <4>4. (w + k) + (o - k) + r = w + o + r
        BY <4>2
      <4> QED
        BY <4>1, <4>3, <4>4 DEF r
    <3>2. ASSUME NEW i \in 1 .. Len(outbuf')
          PROVE  part' /\ outbuf'[i] < Len(wire') + i - 1
      <4>1. i \in 1 .. Len(outbuf) /\ k # Len(outbuf) /\ outbuf'[i] = outbuf[i]
        BY <2>3, <2>6
      <4>2. outbuf[i] <= Len(wire) + i - 1 /\ outbuf[i] \in Nat
        <5> DEFINE x == outbuf[i]
                   a == Len(wire) + i - 1
        <5>1. x = a \/ x < a
          BY <2>4, <4>1 DEF OutputInLine
        <5>2. x \in Nat /\ a \in Int
          BY <2>3, <4>1
        <5> HIDE DEF x, a
        <5>3. x <= a
          BY <5>1, <5>2
        <5> QED
          BY <5>2, <5>3 DEF x, a
      <4> DEFINE w == Len(wire)
      <4>3. w \in Nat /\ k \in Nat /\ k >= 1 /\ i \in Nat /\ Len(wire') = w + k
        BY <2>3, <2>7, <4>1
      <4>4. outbuf[i] < w + k + i - 1
        <5> DEFINE x == outbuf[i]
        <5>1. x <= w + i - 1 /\ x \in Nat
          BY <4>2
        <5> HIDE DEF x, w
        <5>2. x < w + k + i - 1
          BY <4>3, <5>1
        <5> QED
          BY <5>2 DEF x
      <4> HIDE DEF w
      <4> QED
        BY <2>1, <4>1, <4>3, <4>4
    <3>3. \A i \in 1 .. Len(rest) : rest[i] = Len(wire') + Len(outbuf') + i - 1
      BY <2>3, <2>4, <2>6, <2>7 DEF OutputInLine
    <3> QED
      BY <2>2, <3>1, <3>2, <3>3 DEF OutputInLine
  <2> QED
    BY <2>8, <2>9, <2>10 DEF OutputInv
<1>9. CASE SendDirect
  <2>1. PICK k \in 1 .. Len(rest) :
          /\ wire' = wire \o SubSeq(rest, 1, k)
          /\ rest' = SubSeq(rest, k + 1, Len(rest))
          /\ IF k = Len(rest) THEN Return ELSE wait' = "check" /\ UNCHANGED <<call, running>>
    BY <1>9 DEF SendDirect
  <2>2. /\ running /\ call = "write" /\ wait = "select" /\ ~broken
        /\ UNCHANGED <<outbuf, handed, cancel, broken, part, again>>
    BY <1>9 DEF SendDirect
  <2>3. OutputInLine /\ outbuf = << >>
    BY <2>2 DEF OutputInv, OutputCalls, Stopped
  <2>4. k \in 0 .. Len(rest) /\ Len(rest) \in Nat /\ \A i \in 1 .. Len(rest) : rest[i] \in Nat
    BY <2>1 DEF TypeOK
  <2>5. /\ SubSeq(rest, 1, k) \in Seq(Nat) /\ Len(SubSeq(rest, 1, k)) = k
        /\ \A i \in 1 .. k : SubSeq(rest, 1, k)[i] = rest[i]
    BY <2>4, SubSeqProperties
  <2>6. /\ Len(rest') = Len(rest) - k
        /\ \A i \in 1 .. Len(rest) - k : rest'[i] = rest[k + i]
    BY <2>1, <2>4, SubSeqProperties
  <2>7. /\ Len(wire') = Len(wire) + k /\ Len(wire) \in Nat
        /\ \A i \in 1 .. Len(wire) + k :
             wire'[i] = IF i <= Len(wire) THEN wire[i] ELSE SubSeq(rest, 1, k)[i - Len(wire)]
    BY <2>1, <2>5, ConcatProperties DEF TypeOK
  <2>8. OutputCalls'
    <3>1. CASE k = Len(rest)
      BY <2>1, <2>2, <2>4, <2>6, <3>1 DEF OutputCalls, Return
    <3>2. CASE k # Len(rest)
      BY <2>1, <2>2, <2>3, <3>2 DEF OutputCalls, Writing
    <3> QED
      BY <3>1, <3>2
  <2>9. WireInPlace'
    <3> SUFFICES ASSUME NEW i \in 1 .. Len(wire')
                 PROVE  wire'[i] = i - 1 \/ (i \in again' /\ wire'[i] < i - 1)
      BY DEF WireInPlace
    <3>1. CASE i <= Len(wire)
      BY <2>2, <2>7, <3>1 DEF OutputInv, WireInPlace
    <3>2. CASE i > Len(wire)
      <4>1. i - Len(wire) \in 1 .. k /\ i - Len(wire) \in 1 .. Len(rest)
        BY <2>4, <2>7, <3>2
      <4>2. wire'[i] = rest[i - Len(wire)]
        BY <2>5, <2>7, <3>2, <4>1
      <4> QED
        BY <2>3, <2>7, <4>1, <4>2 DEF OutputInLine
    <3> QED
      BY <2>7, <3>1, <3>2
  <2>10. OutputInLine'
    <3>1. Len(outbuf) = 0 /\ Len(outbuf') = 0 /\ handed' = handed
      BY <2>2, <2>3
    <3>2. ASSUME NEW i \in 1 .. Len(rest') PROVE rest'[i] = Len(wire') + Len(outbuf') + i - 1
      <4>1. i \in 1 .. Len(rest) - k /\ k + i \in 1 .. Len(rest)
        BY <2>4, <2>6
      <4>2. rest'[i] = Len(wire) + (k + i) - 1
        BY <2>3, <2>6, <2>7, <3>1, <4>1 DEF OutputInLine
      <4> QED
        BY <2>4, <2>7, <3>1, <4>1, <4>2
    <3>3. Len(wire') + Len(outbuf') + Len(rest') = handed'
      BY <2>3, <2>4, <2>6, <2>7, <3>1 DEF OutputInLine
    <3> QED
      BY <3>1, <3>2, <3>3 DEF OutputInLine
  <2> QED
    BY <2>8, <2>9, <2>10 DEF OutputInv
<1>10. CASE SendEnds
  <2>1. Writing /\ UNCHANGED <<outbuf, handed, wire, part, again>> /\ Stopped'
    BY <1>10 DEF SendEnds, FlushReturns, Return, Stopped
  <2>2. OutputCalls'
    BY <1>10, <2>1 DEF SendEnds, FlushReturns, Return, Writing, OutputCalls, OutputInv
  <2>3. WireInPlace'
    BY <2>1 DEF WireInPlace, OutputInv
  <2> QED
    BY <2>1, <2>2, <2>3 DEF OutputInv
<1> QED
  BY <1>1, <1>2, <1>3, <1>4, <1>5, <1>6, <1>7, <1>8, <1>9, <1>10 DEF Next

(* Every byte on the connection is in its place among those handed over,   *)
(* through outbuf or past it, cancelled or broken at any point, but for    *)
(* bytes from before that sockflush sends once it has sent a part of       *)
(* outbuf (sock.c:295-341).                                                *)
THEOREM SockWire == Spec => []WireInPlace
<1>1. Init => OutputInv
  BY DEF Init, OutputInv, WireInPlace, OutputCalls, OutputInLine
<1>2. TypeOK /\ OutputInv /\ [Next]_vars => OutputInv'
  BY OutputNext
<1>3. OutputInv => WireInPlace
  BY DEF OutputInv
<1> QED
  BY <1>1, <1>2, <1>3, SockTypes, PTL DEF Spec
=============================================================================
