---------------------------- MODULE AtomicReads -----------------------------
(***************************************************************************)
(* What sockgets and sockread promise: a call takes the next bytes of the  *)
(* stream all at once when it returns.  A line is all of what comes up to  *)
(* its end or the size that was asked for, unless the stream is over or    *)
(* another thread gives up; no byte that came before the end of the stream *)
(* is held back, and none that a call took comes again.                    *)
(***************************************************************************)
EXTENDS Naturals, Sequences

CONSTANTS
  Sizes,     \* the sizes callers pass
  Ends,      \* the bytes that end a line
  EofLike,   \* the bytes that look like the end of the stream
  Eof,       \* what stands at the end of a part of a line
  Nul        \* what stands behind a line or a part of one

VARIABLES
  sent, closed, cancel,   \* the stream so far, whether it is over, whether another thread gave up
  call, size,   \* the call under way, "gets", "read" or "none", and its size
  taken,        \* how many bytes the calls have taken that returned
  result        \* what the last of them stored

vars == <<sent, closed, cancel, call, size, taken, result>>

Init ==
  /\ sent = 0 /\ closed = FALSE /\ cancel = FALSE
  /\ call = "none" /\ size = 0 /\ taken = 0 /\ result = << >>

Arrive == ~closed /\ sent' \in Nat /\ sent' > sent /\ UNCHANGED <<closed, cancel>>
Close  == ~closed /\ closed' = TRUE /\ UNCHANGED <<sent, cancel>>
GiveUp == cancel' = TRUE /\ UNCHANGED <<sent, closed>>

World == (Arrive \/ Close \/ GiveUp) /\ UNCHANGED <<call, size, taken, result>>

Call ==
  /\ call = "none" /\ call' \in {"gets", "read"} /\ size' \in Sizes /\ result' = << >>
  /\ UNCHANGED <<sent, closed, cancel, taken>>

Take(k) ==
  /\ taken + k <= sent /\ taken' = taken + k
  /\ call' = "none" /\ size' = 0 /\ UNCHANGED <<sent, closed, cancel>>

InLine(k) == \A i \in 1 .. k : taken + i - 1 \notin Ends \cup EofLike
Bytes(k)  == [i \in 1 .. k |-> taken + i - 1]

\* A first byte that looks like the end of the stream is lost.
Line ==
  /\ call = "gets"
  /\ \E k \in 1 .. size :
       /\ Take(k) /\ InLine(k - 1) /\ (InLine(k) => k = size)
       /\ result' = IF k = 1 /\ taken \in EofLike THEN << >> ELSE Append(Bytes(k), Nul)

Over(k) == cancel \/ (closed /\ taken + k = sent)

PartOfLine ==
  /\ call = "gets"
  /\ \E k \in 0 .. size - 1 :
       /\ Take(k) /\ InLine(k) /\ Over(k)
       /\ result' = IF k = 0 THEN << >> ELSE Bytes(k) \o <<Eof, Nul>>

\* How many bytes sockread takes; where it stores them is another matter.
Read ==
  /\ call = "read"
  /\ \E k \in 0 .. size : Take(k) /\ Len(result') = k /\ (k = 0 => Over(0))

Next == World \/ Call \/ Line \/ PartOfLine \/ Read

Spec == Init /\ [][Next]_vars
=============================================================================
