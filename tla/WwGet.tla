------------------------------- MODULE WwGet -------------------------------
(***************************************************************************)
(* wwgetc2.c: a downloader that fetches its URLs one after the other, takes *)
(* the responses apart as they arrive and prints what it holds to be their *)
(* bodies; and wwgetc.c, which prints all that it reads.                   *)
(***************************************************************************)
EXTENDS Naturals, Sequences, SequencesExt, FiniteSets, FiniteSetsExt

CONSTANTS
  Clients,     \* processes
  Copying,     \* those of them that run wwgetc.c
  Servers,
  Urls,        \* Urls[c]: the servers of the URLs in c's arguments
  LineSize, HeadSize,   \* MAX_RESPONSE_LINE, MAX_RESPONSE_HEAD
  MaxBody      \* MAX_RESPONSE_BODY

ASSUME WwGetConstants ==
  /\ Copying \subseteq Clients /\ Urls \in [Clients -> Seq(Servers)]
  /\ LineSize \in Nat /\ LineSize > 3 /\ HeadSize \in Nat /\ HeadSize > 3 /\ MaxBody \in Nat

VARIABLES
  url,         \* url[c]: index of the URL being fetched
  state,       \* "start", "reading", "print", "ended", "killed", or "undefined" when it has
               \* written behind its array for the line, after which it may do anything
  resp,        \* resp[c]: mode and the response's line, head and body so far
  size,        \* size[c]: Statistics.read_size
  wire,        \* wire[c]: bytes on their way to c
  queue        \* queue[s]: connections that s has not accepted

\* A byte is a pair of an identity and a class; "cr" and "lf" are the classes that
\* strstr looks for.
CRLF == <<"cr", "lf">>
HeadEnd == <<"cr", "lf", "cr", "lf">>

\* Position of the first occurrence of the classes pat in the bytes s; 0 if there is none.
At(pat, s) ==
  {i \in 1 .. Len(s) : /\ i + Len(pat) <= Len(s) + 1
                       /\ \A j \in 1 .. Len(pat) : s[i + j - 1][2] = pat[j]}

Find(pat, s) == IF At(pat, s) = {} THEN 0 ELSE Min(At(pat, s))

Upto(s, n) == SubSeq(s, 1, Min({Len(s), n}))

\* memmove of what is behind the first k bytes to the front of buf.  n stays what it was,
\* so that the last k bytes of the packet count a second time.
Shift(b, k) == IF k < Len(b) THEN SubSeq(b, k + 1, Len(b)) \o SubSeq(b, Len(b) - k + 1, Len(b))
                             ELSE b

NewResponse(c) == [mode |-> IF c \in Copying THEN "copy" ELSE "line",
                   line |-> << >>, head |-> << >>, body |-> << >>]

InBody(r, b) == [r EXCEPT !.mode = "body", !.body = @ \o Upto(b, MaxBody - Len(@))]

\* Mutant: a part of the head that does not end it is forgotten.
ForgetsHead(r, b) ==
  LET text == r.head \o Upto(b, HeadSize - 3 - Len(r.head))
      at   == Find(HeadEnd, text)
  IN  IF at = 0 THEN {[r EXCEPT !.mode = "head"], InBody(r, b)}
      ELSE {InBody(r, Shift(b, at + 3 - Len(r.head)))}

\* The possible states after b has been copied behind the head.  Behind it the memory is
\* uninitialized: strstr may find there what it looks for.  A head that ends with the
\* packet, or in that memory, lets the packet fall through into the body.
InHead(r, b) ==
  LET text == r.head \o Upto(b, HeadSize - 3 - Len(r.head))
      at   == Find(HeadEnd, text)
  IN  IF at = 0 THEN {[r EXCEPT !.mode = "head", !.head = text], InBody(r, b)}
      ELSE {InBody(r, Shift(b, at + 3 - Len(r.head)))}

\* The copy into the line is as long as the whole array allows, wherever in it the copy
\* starts; behind a line that does not end yet goes a NUL.
Overruns(r, b) ==
  LET text == r.line \o Upto(b, LineSize - 3)
  IN  /\ r.mode = "line"
      /\ Len(text) > LineSize \/ (Len(text) = LineSize /\ Find(CRLF, text) = 0)

InLine(r, b) ==
  LET text == r.line \o Upto(b, LineSize - 3)
      at   == Find(CRLF, text)
      used == at + 1 - Len(r.line)
  IN  IF at = 0 THEN {[r EXCEPT !.line = text], [r EXCEPT !.mode = "head"]}
      ELSE IF Len(b) > used THEN InHead(r, Shift(b, used))
      ELSE {[r EXCEPT !.mode = "head"]}

After(r, b) ==
  CASE r.mode = "line" -> InLine(r, b)
    [] r.mode = "head" -> InHead(r, b)
    [] r.mode = "body" -> {InBody(r, b)}
    [] r.mode = "copy" -> {r}

-----------------------------------------------------------------------------
Init ==
  /\ url = [c \in Clients |-> 1] /\ state = [c \in Clients |-> "start"]
  /\ resp = [c \in Clients |-> NewResponse(c)] /\ size = [c \in Clients |-> 0]
  /\ wire = [c \in Clients |-> << >>] /\ queue = [s \in Servers |-> << >>]

More(c) == url[c] <= Len(Urls[c])
Server(c) == Urls[c][url[c]]
Goes(c, to) == state' = [state EXCEPT ![c] = to]

\* The URL cannot be parsed or its host is not found: get_url returns -1, and main prints
\* the empty body.
LookupFails(c) ==
  /\ state[c] = "start" /\ More(c) /\ Goes(c, "print")
  /\ UNCHANGED <<url, resp, size, wire, queue>>

\* The request is written at once.
Connect(c) ==
  /\ state[c] = "start" /\ More(c) /\ Goes(c, "reading")
  /\ queue' = [queue EXCEPT ![Server(c)] = Append(@, c)]
  /\ UNCHANGED <<url, resp, size, wire>>

\* exit(1): the URLs behind this one are not fetched.
ConnectFails(c) ==
  /\ state[c] = "start" /\ More(c) /\ Goes(c, "ended")
  /\ UNCHANGED <<url, resp, size, wire, queue>>

\* A read returns any part of what has arrived.
Read(c) ==
  /\ state[c] = "reading"
  /\ \E n \in 1 .. Len(wire[c]) :
       /\ ~Overruns(resp[c], SubSeq(wire[c], 1, n))
       /\ \E r \in After(resp[c], SubSeq(wire[c], 1, n)) : resp' = [resp EXCEPT ![c] = r]
       /\ wire' = [wire EXCEPT ![c] = SubSeq(@, n + 1, Len(@))]
       /\ size' = [size EXCEPT ![c] = IF c \in Copying THEN @ ELSE @ + n]
  /\ UNCHANGED <<url, state, queue>>

Overrun(c) ==
  /\ state[c] = "reading" /\ Goes(c, "undefined")
  /\ \E n \in 1 .. Len(wire[c]) : Overruns(resp[c], SubSeq(wire[c], 1, n))
  /\ wire' = [wire EXCEPT ![c] = << >>]
  /\ UNCHANGED <<url, resp, size, queue>>

\* read returns 0 or fails.
EndOfStream(c) ==
  /\ state[c] = "reading" /\ Goes(c, "print")
  /\ wire' = [wire EXCEPT ![c] = << >>]
  /\ UNCHANGED <<url, resp, size, queue>>

\* The body and the statistics are printed, and the next session is initialized.
PrintBody(c) ==
  /\ state[c] = "print" /\ Goes(c, "start")
  /\ url' = [url EXCEPT ![c] = @ + 1]
  /\ resp' = [resp EXCEPT ![c] = NewResponse(c)] /\ size' = [size EXCEPT ![c] = 0]
  /\ UNCHANGED <<wire, queue>>

Ends(c) ==
  /\ state[c] = "start" /\ ~More(c) /\ Goes(c, "ended")
  /\ UNCHANGED <<url, resp, size, wire, queue>>

\* The user interrupts the program.
Killed(c) ==
  /\ state[c] \in {"start", "reading"} /\ Goes(c, "killed")
  /\ wire' = [wire EXCEPT ![c] = << >>]
  /\ UNCHANGED <<url, resp, size, queue>>
=============================================================================
