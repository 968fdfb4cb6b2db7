------------------------------ MODULE SockBuf -------------------------------
(***************************************************************************)
(* The buffered sockets of sock.c: one SOCK, the thread that calls the     *)
(* library on it, another thread that may call sockcancel, and the peer at *)
(* the other end of the connection.  Input goes through the ring buffer    *)
(* inbuf (sockgetc, sockgets, sockread), output through the linear buffer  *)
(* outbuf (sockputc, sockflush) or past it (sockwrite, sockputs).          *)
(*                                                                         *)
(* A byte is its position in the stream: byte k is the k-th that the peer  *)
(* sends, or, on the way out, the k-th that the caller hands over.  That   *)
(* makes order, loss and repetition visible.  What a byte holds matters in *)
(* two cases only: it ends a line (Ends), or its char value is that of EOF *)
(* (EofLike: sockgetc returns a char as int, so 0xFF is -1).               *)
(*                                                                         *)
(* A call that has to wait polls: it looks at the cancel flag, then lets   *)
(* select wait for a second, and so on (sockwaitread, sockwaitwrite).      *)
(* Signals that interrupt select or recv are left out.                     *)
(***************************************************************************)
EXTENDS Naturals, Sequences

CONSTANTS
  Siz,          \* SOCK_BUF_SIZ
  Sizes,        \* the sizes callers pass to sockgets, sockread and sockwrite
  Ends,         \* the incoming bytes that are '\n' or '\0'
  EofLike,      \* the incoming bytes whose value is (char)EOF
  Blank,        \* a place of a buffer that was never written
  Eof,          \* the (char)EOF that sockgets stores when the stream ends
  Nul,          \* the '\0' that it stores behind a line
  MaxIn,        \* bound: how many bytes the peer sends
  MaxOut        \* bound: how many bytes the caller hands over

ASSUME SockConstants ==
  /\ Siz \in Nat \ {0}
  /\ Sizes \subseteq Nat \ {0}
  /\ Ends \subseteq Nat /\ EofLike \subseteq Nat
  /\ Blank \notin Nat /\ Eof \notin Nat /\ Nul \notin Nat
  /\ Blank # Eof /\ Blank # Nul /\ Eof # Nul
  /\ MaxIn \in Nat /\ MaxOut \in Nat

VARIABLES
  inbuf, inbufstart, inbuflen,   \* the ring buffer
  outbuf,    \* what outbuf holds; its length is outbuflen
  cancel,    \* the cancel flag
  call,      \* the last call: "gets", "read", "putc", "flush", "write" or "none"
  running,   \* it has not returned yet
  wait,      \* where the poll loop is: "check" (the flag) or "select"
  size,      \* the size the caller passed
  str,       \* the caller's buffer, as far as the call wrote it
  base,      \* bytes taken from the stream before the call
  taken,     \* bytes taken from the stream
  rest,      \* what sockwrite has left to send
  sent, recvd, closed,   \* the peer: bytes sent, received from the kernel, end of its stream
  broken,    \* a send has failed for good
  handed,    \* bytes handed over by the caller
  wire,      \* the bytes sent, in their order
  part,      \* history: sockflush has sent a part of what outbuf held
  again      \* history: the places of wire that its further sends have filled

input  == <<inbuf, inbufstart, inbuflen, taken, recvd>>
output == <<outbuf, rest, broken, handed, wire, part, again>>
peer   == <<sent, closed>>
caller == <<size, str, base>>
flow   == <<call, running, wait>>
vars   == <<input, output, peer, caller, flow, cancel>>

Least(a, b) == IF a < b THEN a ELSE b

Slots == 0 .. Siz - 1

\* How far slot s is behind inbufstart: the k for which (inbufstart + k) % SOCK_BUF_SIZ is s.
Offset(s) == IF s >= inbufstart THEN s - inbufstart ELSE s + Siz - inbufstart

\* Mutant: the wrap comes one place too late.
WrapsLate(start) == IF start > Siz THEN 0 ELSE start

\* inbufstart after k bytes were taken, none of them beyond the end of inbuf.
Wrapped(start) == IF start >= Siz THEN 0 ELSE start

Init ==
  /\ inbuf = [s \in Slots |-> Blank] /\ inbufstart = 0 /\ inbuflen = 0
  /\ outbuf = << >> /\ cancel = FALSE
  /\ call = "none" /\ running = FALSE /\ wait = "check"
  /\ size = 0 /\ str = << >> /\ base = 0 /\ taken = 0
  /\ rest = << >> /\ handed = 0 /\ wire = << >>
  /\ part = FALSE /\ again = {}
  /\ sent = 0 /\ recvd = 0 /\ closed = FALSE /\ broken = FALSE

-----------------------------------------------------------------------------
(* Calls *)

Begin(c, n) ==
  /\ ~running
  /\ call' = c /\ running' = TRUE /\ wait' = "check" /\ size' = n

Return == running' = FALSE /\ UNCHANGED <<call, wait>>

\* sockgets(str, n, sp) and sockread(sp, buffer, count)
BeginInput ==
  /\ \E c \in {"gets", "read"}, n \in Sizes : Begin(c, n)
  /\ str' = << >> /\ base' = taken
  /\ UNCHANGED <<input, output, peer, cancel>>

Reading == running /\ call \in {"gets", "read"}
Writing == running /\ call \in {"flush", "write"}

-----------------------------------------------------------------------------
(* sockwaitread, sockwaitwrite *)

NeedsInput == Reading /\ inbuflen = 0

Readable == sent > recvd \/ closed

\* A look at the cancel flag before each wait.
CheckCancel ==
  /\ NeedsInput \/ Writing
  /\ wait = "check" /\ ~cancel
  /\ wait' = "select"
  /\ UNCHANGED <<input, output, peer, caller, call, running, cancel>>

\* Mutant: the flag is looked at once, before the loop.
ChecksOnce ==
  /\ (NeedsInput /\ ~Readable) \/ Writing
  /\ wait = "select"
  /\ UNCHANGED vars

\* select returns 0 after a second in which nothing became ready.
SelectTimeout ==
  /\ (NeedsInput /\ ~Readable) \/ Writing
  /\ wait = "select"
  /\ wait' = "check"
  /\ UNCHANGED <<input, output, peer, caller, call, running, cancel>>

-----------------------------------------------------------------------------
(* sockgetc and sockgets *)

\* Mutant: the refill starts at the first slot.
FilledFlat(n) == [s \in Slots |-> IF s < n THEN recvd + s ELSE inbuf[s]]

\* The n bytes recv returned, stored behind one another in the ring.
Filled(n) == [s \in Slots |-> IF Offset(s) < n THEN recvd + Offset(s) ELSE inbuf[s]]

\* sockgetc: inbuf is empty and something has arrived: FIONREAD, recv.
FillInbuf ==
  LET n == Least(sent - recvd, Siz) IN
  /\ call = "gets" /\ NeedsInput /\ wait = "select" /\ sent > recvd
  /\ inbuf' = Filled(n) /\ inbuflen' = n /\ recvd' = recvd + n
  /\ wait' = "check"
  /\ UNCHANGED <<inbufstart, taken, output, peer, caller, call, running, cancel>>

\* Mutant: sockgets looks at the size only.
GoesOnToSize(c, line) == Len(line) < size

\* sockgets goes on unless the byte ends the line or the buffer is full.
LineGoesOn(c, line) == c \notin Ends \cup EofLike /\ Len(line) < size

\* sockgets returns: unless there is no line, and NULL is returned, a '\0' goes behind it,
\* also when the line has all the size the caller passed.
Ended(line) == IF line = << >> THEN line ELSE Append(line, Nul)

\* sockgets takes one byte from the buffer.  A first byte that looks like EOF is gone.
TakeByte ==
  LET c == inbuf[inbufstart]
      line == IF str = << >> /\ c \in EofLike THEN str ELSE Append(str, c)
  IN
  /\ call = "gets" /\ running /\ inbuflen > 0
  /\ inbufstart' = Wrapped(inbufstart + 1) /\ inbuflen' = inbuflen - 1
  /\ taken' = taken + 1
  /\ str' = IF LineGoesOn(c, line) THEN line ELSE Ended(line)
  /\ running' = LineGoesOn(c, line) /\ UNCHANGED <<call, wait>>
  /\ UNCHANGED <<inbuf, recvd, output, peer, size, base, cancel>>

\* Mutant: the end of the stream is looked for before its bytes.
EofAtClose ==
  /\ NeedsInput
  /\ (wait = "check" /\ cancel) \/ (wait = "select" /\ closed)

\* There is no byte and none will come, or the call was cancelled.
NoInput ==
  /\ NeedsInput
  /\ \/ wait = "check" /\ cancel
     \/ wait = "select" /\ closed /\ sent = recvd

\* sockgetc returns EOF; inside a line sockgets stores it as the last char.
LineEof ==
  /\ call = "gets" /\ NoInput
  /\ str' = Ended(IF str = << >> THEN str ELSE Append(str, Eof))
  /\ Return
  /\ UNCHANGED <<input, output, peer, size, base, cancel>>

-----------------------------------------------------------------------------
(* sockread *)

\* The bytes up to the end of inbuf, and those that then come from its first slots.
FirstPart  == Least(Least(Siz - inbufstart, inbuflen), size)
SecondPart == Least(inbuflen - FirstPart, size - FirstPart)

\* Both parts are copied to the start of the caller's buffer, one over the other.
Copied ==
  [i \in 1 .. FirstPart + SecondPart |->
     IF i <= SecondPart THEN inbuf[i - 1]
     ELSE IF i <= FirstPart THEN inbuf[inbufstart + i - 1]
     ELSE Blank]

\* sockread takes what is buffered and does not wait for more.
ReadBuffered ==
  LET n == FirstPart + SecondPart IN
  /\ call = "read" /\ running /\ inbuflen > 0
  /\ str' = Copied
  /\ inbufstart' = IF SecondPart > 0 THEN SecondPart ELSE Wrapped(inbufstart + FirstPart)
  /\ inbuflen' = inbuflen - n /\ taken' = taken + n
  /\ Return
  /\ UNCHANGED <<inbuf, recvd, output, peer, size, base, cancel>>

\* With an empty buffer it receives straight into the caller's.
ReadSocket ==
  LET n == Least(sent - recvd, size) IN
  /\ call = "read" /\ NeedsInput /\ wait = "select" /\ sent > recvd
  /\ str' = [i \in 1 .. n |-> recvd + i - 1]
  /\ recvd' = recvd + n /\ taken' = taken + n
  /\ Return
  /\ UNCHANGED <<inbuf, inbufstart, inbuflen, output, peer, size, base, cancel>>

ReadEof ==
  /\ call = "read" /\ NoInput
  /\ Return
  /\ UNCHANGED <<input, output, peer, caller, cancel>>

-----------------------------------------------------------------------------
(* sockputc, sockflush, sockwrite *)

\* The next k bytes of the caller.
Handed(k) == [i \in 1 .. k |-> handed + i - 1]

\* sockputc: a full buffer or a line end flushes.  (A caller that goes on after EOF
\* with a full buffer writes past it; callers here do not.)
Putc ==
  /\ ~running /\ Len(outbuf) < Siz
  /\ handed < MaxOut
  /\ outbuf' = Append(outbuf, handed) /\ handed' = handed + 1
  /\ \E newline \in BOOLEAN :
       IF newline \/ Len(outbuf) + 1 >= Siz
       THEN call' = "flush" /\ running' = TRUE /\ wait' = "check"
       ELSE call' = "putc" /\ UNCHANGED <<running, wait>>
  /\ UNCHANGED <<input, rest, broken, wire, part, again, peer, caller, cancel>>

Flush ==
  /\ outbuf # << >>
  /\ Begin("flush", 0)
  /\ UNCHANGED <<input, output, peer, str, base, cancel>>

\* Mutant: sockwrite does not flush.
WritesPast == "write"

\* sockwrite, sockputs: what is buffered goes first.
FirstCall == IF outbuf = << >> THEN "write" ELSE "flush"

Write ==
  /\ \E n \in Sizes :
       /\ handed + n <= MaxOut
       /\ rest' = Handed(n) /\ handed' = handed + n
       /\ Begin(FirstCall, n)
  /\ UNCHANGED <<input, outbuf, broken, wire, part, again, peer, str, base, cancel>>

\* sockflush is over: sockwrite, if that was the caller, goes on without a look at the
\* result.
FlushReturns ==
  IF rest # << >>
  THEN call' = "write" /\ wait' = "check" /\ UNCHANGED running
  ELSE Return

\* sockflush after a send that took k of n bytes: outbuflen is reduced, and the first
\* bytes stay where they are.
Kept(k) == SubSeq(outbuf, 1, Len(outbuf) - k)

\* A send takes any part of what it is given.
SendBuffered ==
  /\ running /\ call = "flush" /\ wait = "select" /\ ~broken
  /\ \E k \in 1 .. Len(outbuf) :
       /\ wire' = wire \o SubSeq(outbuf, 1, k)
       /\ outbuf' = Kept(k) /\ part' = (k # Len(outbuf))
       /\ again' = IF part THEN again \cup (Len(wire) + 1 .. Len(wire) + k) ELSE again
       /\ IF k = Len(outbuf) THEN FlushReturns
          ELSE wait' = "check" /\ UNCHANGED <<call, running>>
  /\ UNCHANGED <<input, rest, broken, handed, peer, caller, cancel>>

SendDirect ==
  /\ running /\ call = "write" /\ wait = "select" /\ ~broken
  /\ \E k \in 1 .. Len(rest) :
       /\ wire' = wire \o SubSeq(rest, 1, k)
       /\ rest' = SubSeq(rest, k + 1, Len(rest))
       /\ IF k = Len(rest) THEN Return
          ELSE wait' = "check" /\ UNCHANGED <<call, running>>
  /\ UNCHANGED <<input, outbuf, broken, handed, part, again, peer, caller, cancel>>

\* The call is cancelled, or send fails because the peer has closed; once it failed it
\* fails for ever.
SendEnds ==
  /\ Writing
  /\ \/ wait = "check" /\ cancel /\ UNCHANGED broken
     \/ wait = "select" /\ closed /\ broken' = TRUE
  /\ IF call = "flush" THEN FlushReturns /\ UNCHANGED rest
     ELSE Return /\ rest' = << >>
  /\ UNCHANGED <<input, outbuf, handed, wire, part, again, peer, caller, cancel>>

-----------------------------------------------------------------------------
(* Another thread, and the peer *)

Cancel ==
  /\ ~cancel /\ cancel' = TRUE
  /\ UNCHANGED <<input, output, peer, caller, flow>>

PeerSends ==
  /\ ~closed /\ sent < MaxIn
  /\ \E n \in 1 .. MaxIn - sent : sent' = sent + n
  /\ UNCHANGED <<input, output, closed, caller, flow, cancel>>

PeerCloses ==
  /\ ~closed /\ closed' = TRUE
  /\ UNCHANGED <<input, output, sent, caller, flow, cancel>>

ReadStep == FillInbuf \/ TakeByte \/ LineEof \/ ReadBuffered \/ ReadSocket \/ ReadEof

WriteStep == SendBuffered \/ SendDirect \/ SendEnds

Next ==
  \/ BeginInput \/ Putc \/ Flush \/ Write
  \/ CheckCancel \/ SelectTimeout
  \/ FillInbuf \/ TakeByte \/ LineEof \/ ReadBuffered \/ ReadSocket \/ ReadEof
  \/ SendBuffered \/ SendDirect \/ SendEnds
  \/ Cancel \/ PeerSends \/ PeerCloses

Spec == Init /\ [][Next]_vars

\* A thread inside a reading call runs on; select does not wait longer than a second.
FairSpec == Spec /\ WF_vars(ReadStep \/ (Reading /\ (CheckCancel \/ SelectTimeout)))

-----------------------------------------------------------------------------
(* Properties *)

\* The variables have their types, and the buffers do not hold more than they can.
TypeOK ==
  /\ inbuf \in [Slots -> Nat \cup {Blank}] /\ inbufstart \in Slots /\ inbuflen \in 0 .. Siz
  /\ outbuf \in Seq(Nat) /\ Len(outbuf) <= Siz
  /\ cancel \in BOOLEAN /\ running \in BOOLEAN /\ closed \in BOOLEAN /\ broken \in BOOLEAN
  /\ call \in {"none", "gets", "read", "putc", "flush", "write"}
  /\ wait \in {"check", "select"}
  /\ size \in Nat /\ str \in Seq(Nat \cup {Blank, Eof, Nul}) /\ base \in Nat /\ taken \in Nat
  /\ rest \in Seq(Nat) /\ handed \in Nat /\ wire \in Seq(Nat)
  /\ part \in BOOLEAN /\ again \subseteq 1 .. Len(wire)
  /\ sent \in Nat /\ recvd \in Nat

\* The ring buffer holds, from inbufstart on and around the end of inbuf, exactly the
\* bytes that were received and not yet taken, in their order: sockgetc's refill at any
\* inbufstart and the two-part copy of sockread agree on where a byte is.
RingInOrder ==
  /\ recvd = taken + inbuflen
  /\ recvd <= sent
  /\ \A s \in Slots : Offset(s) < inbuflen => inbuf[s] = taken + Offset(s)

\* The line so far: when sockgets has returned, all but the '\0'.
Line == IF running \/ str = << >> THEN str ELSE SubSeq(str, 1, Len(str) - 1)

\* What sockgets stores is the stream from where the call began, without a gap, up to the
\* first byte that ends the line, to the size it was given or to an EOF of its own, and a
\* '\0' behind that (sock.c:392-406): one byte more than the size, behind the buffer of a
\* caller that gives the size of its buffer as to fgets (tcppclientc.c:48).
\* What it took is what it stored; when it returns NULL it took nothing, or a first byte
\* that looks like EOF, which is lost.
LineInOrder ==
  call = "gets" =>
    LET n == Len(Line)
        Last(i) == ~running /\ i = n
        stops == Ends \cup EofLike \cup {Eof}
    IN
    /\ n <= size
    /\ running => n < size /\ taken = base + n
    /\ ~running /\ str # << >> =>
         n > 0 /\ str[n + 1] = Nul /\ taken = base + (IF Line[n] = Eof THEN n - 1 ELSE n)
    /\ ~running /\ str = << >> => taken = base \/ (taken = base + 1 /\ base \in EofLike)
    /\ \A i \in 1 .. n :
         /\ Line[i] = base + i - 1 \/ (Last(i) /\ Line[i] = Eof)
         /\ Line[i] \in stops => Last(i)
         /\ Last(i) => Line[i] \in stops \/ i = size

\* The bytes on the connection are the first ones the caller handed over, each once and
\* in order, whether they went through outbuf (sockputc) or past it (sockwrite).
WireInOrder == \A i \in 1 .. Len(wire) : wire[i] = i - 1

\* What sockread stores is the stream from where the call began.
ReadInOrder ==
  call = "read" => \A i \in 1 .. Len(str) : str[i] = base + i - 1

\* What a "socket buffering library" (sock.h:4) is for: bytes leave its two buffers, towards
\* the peer and towards the caller of sockread, in the order in which they came.
BytesInOrder == WireInOrder /\ ReadInOrder

\* A send that takes a part of outbuf does harm to that flush alone (sock.c:295-341): what
\* its further sends put on the connection are bytes from before, and every other byte, by
\* sockflush or by sockwrite, ahead of it or behind it, is in its place.
WireInPlace == \A i \in 1 .. Len(wire) : wire[i] = i - 1 \/ (i \in again /\ wire[i] < i - 1)

\* A call on the input looks to its caller as if it took its bytes all at once when it
\* returns: what comes piece by piece, through the ring or past it, and the polls in between
\* are not seen, and the end of the stream is reported behind its last byte (sock.c:355-446).
Reads == INSTANCE AtomicReads WITH
  call   <- IF Reading THEN call ELSE "none",
  size   <- IF Reading THEN size ELSE 0,
  taken  <- IF Reading THEN base ELSE taken,
  result <- IF Reading THEN << >> ELSE str

ReadsAreAtomic == Reads!Spec

\* A call that waits for input returns when the peer closes or another thread calls
\* sockcancel, also when it began before that.
ReadsEnd == Reading /\ (cancel \/ closed) ~> ~running
=============================================================================
