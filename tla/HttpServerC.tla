---------------------------- MODULE HttpServerC ----------------------------
(***************************************************************************)
(* httpserverc.c: a server that serves one connection after the other.     *)
(***************************************************************************)
EXTENDS Naturals, Sequences

CONSTANTS
  Clients, Servers,
  Response,    \* Response[s][c]: the bytes that s sends for the request of c
  Buffer,      \* bytes that the buffer of an output stream holds
  Nobody       \* no client

VARIABLES
  queue,       \* queue[s]: connections that s has not accepted
  wire,        \* wire[c]: bytes on their way to c
  state,       \* state[c]: "killed" when the client is gone, "undefined" when it may be
  server,      \* "accept", "request", "respond" or "dead"
  sc,          \* sc[s]: the client s serves
  left         \* left[s]: what s has still to write

Init ==
  /\ server = [s \in Servers |-> "accept"]
  /\ sc = [s \in Servers |-> Nobody] /\ left = [s \in Servers |-> << >>]

Goes(s, to) == server' = [server EXCEPT ![s] = to]

Accept(s) ==
  /\ server[s] = "accept" /\ queue[s] # << >> /\ Goes(s, "request")
  /\ sc' = [sc EXCEPT ![s] = Head(queue[s])]
  /\ queue' = [queue EXCEPT ![s] = Tail(@)]
  /\ UNCHANGED <<wire, left>>

AcceptFails(s) ==
  /\ server[s] = "accept" /\ Goes(s, "dead")
  /\ queue' = [queue EXCEPT ![s] = << >>]
  /\ UNCHANGED <<wire, sc, left>>

\* No stream for the connection: exit(1).
FdopenFails(s) ==
  /\ server[s] = "request" /\ Goes(s, "dead")
  /\ queue' = [queue EXCEPT ![s] = << >>] /\ sc' = [sc EXCEPT ![s] = Nobody]
  /\ UNCHANGED <<wire, left>>

\* The request line and the lines up to a blank one, or the end of the stream, are read.
\* Without a request the response is that to "test".
GetRequest(s) ==
  /\ server[s] = "request" /\ Goes(s, "respond")
  /\ left' = [left EXCEPT ![s] = Response[s][sc[s]]]
  /\ UNCHANGED <<queue, wire, sc>>

\* The stream writes its buffer when it is full and when it is closed.  A first write to
\* a client that is gone is lost.
Gone(c) == state[c] \in {"killed", "undefined"}

Write(s) ==
  /\ server[s] = "respond" /\ left[s] # << >>
  /\ LET n == IF Len(left[s]) < Buffer THEN Len(left[s]) ELSE Buffer
     IN  /\ wire' = IF Gone(sc[s]) THEN wire
                    ELSE [wire EXCEPT ![sc[s]] = @ \o SubSeq(left[s], 1, n)]
         /\ left' = [left EXCEPT ![s] = SubSeq(@, n + 1, Len(@))]
  /\ UNCHANGED <<queue, server, sc>>

\* SIGPIPE ends the whole server, and the connections that wait with it.
WriteFails(s) ==
  /\ server[s] = "respond" /\ left[s] # << >> /\ Gone(sc[s]) /\ Goes(s, "dead")
  /\ queue' = [queue EXCEPT ![s] = << >>]
  /\ sc' = [sc EXCEPT ![s] = Nobody] /\ left' = [left EXCEPT ![s] = << >>]
  /\ UNCHANGED wire

\* Mutant: the connection is not closed.
LeavesOpen(s) ==
  /\ server[s] = "respond" /\ left[s] = << >> /\ Goes(s, "accept")
  /\ UNCHANGED <<queue, wire, sc, left>>

Close(s) ==
  /\ server[s] = "respond" /\ left[s] = << >> /\ Goes(s, "accept")
  /\ sc' = [sc EXCEPT ![s] = Nobody]
  /\ UNCHANGED <<queue, wire, left>>
=============================================================================
