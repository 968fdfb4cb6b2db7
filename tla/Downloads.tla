----------------------------- MODULE Downloads -----------------------------
(***************************************************************************)
(* wwgetc2.c and wwgetc.c against servers that serve one connection after  *)
(* the other: httpserverc.c, whose responses have no header fields, and    *)
(* others that send some.                                                  *)
(***************************************************************************)
EXTENDS WwGet

CONSTANTS
  Response,    \* Response[s][c]: the bytes that s sends for the request of c
  BodyStart,   \* BodyStart[s]: where the body starts in a response of s
  Fields,      \* the servers whose responses have header fields and fit in the buffers
  Buffer,      \* bytes that the buffer of an output stream holds
  Nobody

Bytes == UNION {Range(Response[s][c]) : s \in Servers, c \in Clients}

ASSUME DownloadsConstants ==
  /\ \A s \in Servers, c \in Clients : Response[s][c] \in Seq(Bytes)
  /\ Fields \subseteq Servers /\ Nobody \notin Clients
  /\ BodyStart \in [Servers -> Nat \ {0}] /\ Buffer \in Nat \ {0}

\* The status line ends before the blank line that the body follows, both are shorter than
\* the client's buffers for them, and the response is no longer than its buffer for a body.
Fits(R, body) ==
  /\ body - 4 \in At(HeadEnd, R) /\ body - 1 <= HeadSize - 3
  /\ \E i \in At(CRLF, R) : i + 1 <= body - 5 /\ i + 1 <= LineSize - 3
  /\ Len(R) <= MaxBody

ASSUME FieldsConstants == \A s \in Fields, c \in Clients : Fits(Response[s][c], BodyStart[s])

VARIABLES server, sc, left
vars == <<url, state, resp, size, wire, queue, server, sc, left>>

Srv == INSTANCE HttpServerC

Connected(c) == \E s \in Servers : sc[s] = c \/ Contains(queue[s], c)

DownInit == Init /\ Srv!Init

\* A connect fails when nobody listens; it may fail for other reasons.
Fetch(c) ==
  /\ \/ Connect(c) /\ server[Server(c)] # "dead"
     \/ ConnectFails(c) /\ server[Server(c)] = "dead"
     \/ Read(c)
     \/ Overrun(c)
     \/ EndOfStream(c) /\ ~Connected(c) /\ (wire[c] = << >> \/ server[Server(c)] = "dead")
     \/ PrintBody(c)
     \/ Ends(c)
  /\ UNCHANGED <<server, sc, left>>

Trouble(c) == (LookupFails(c) \/ ConnectFails(c) \/ Killed(c)) /\ UNCHANGED <<server, sc, left>>

Serve(s) ==
  /\ \/ Srv!Accept(s) \/ Srv!GetRequest(s) \/ Srv!Write(s) \/ Srv!WriteFails(s) \/ Srv!Close(s)
  /\ UNCHANGED <<url, state, resp, size>>

Dies(s) == (Srv!AcceptFails(s) \/ Srv!FdopenFails(s)) /\ UNCHANGED <<url, state, resp, size>>

DownNext ==
  \/ \E c \in Clients : Fetch(c) \/ Trouble(c)
  \/ \E s \in Servers : Serve(s) \/ Dies(s)

\* Every process is scheduled; no failure has to happen.
DownSpec ==
  /\ DownInit /\ [][DownNext]_vars
  /\ \A c \in Clients : WF_vars(Fetch(c))
  /\ \A s \in Servers : WF_vars(Serve(s))

-----------------------------------------------------------------------------
(* Properties *)

\* Every variable has a value of its kind, and a server has a client exactly while it is
\* in a session.
TypeOK ==
  /\ \A c \in Clients : url[c] \in 1 .. Len(Urls[c]) + 1
  /\ state \in [Clients -> {"start", "reading", "print", "ended", "killed", "undefined"}]
  /\ \A c \in Clients : resp[c].mode \in {"line", "head", "body", "copy"}
  /\ size \in [Clients -> Nat]
  /\ server \in [Servers -> {"accept", "request", "respond", "dead"}]
  /\ \A s \in Servers : sc[s] # Nobody <=> server[s] \in {"request", "respond"}

TheBody(c) == LET s == Server(c) IN SubSeq(Response[s][c], BodyStart[s], Len(Response[s][c]))

Subsequence(s, t) ==
  \E f \in [1 .. Len(s) -> 1 .. Len(t)] :
    /\ \A i \in 1 .. Len(s) : t[f[i]] = s[i]
    /\ \A i, j \in 1 .. Len(s) : i < j => f[i] < f[j]

Whole(c) == state[c] = "print" /\ More(c) /\ size[c] = Len(Response[Server(c)][c])

\* The end of the status line came in two packets; the byte that then counts twice hides
\* the end of the head if that comes in two packets too.
LineWasCut(c) == resp[c].line # << >> /\ Last(resp[c].line)[2] = "cr"

\* However a response with header fields is cut into packets, all of its body is printed,
\* in order, although parts of packets are counted twice; the exceptions are a packet that
\* ends within the end of the status line, and one that overruns the array for that line,
\* after which nothing is said of the program (wwgetc2.c:250-304).
NothingLost ==
  \A c \in Clients : Whole(c) /\ Server(c) \in Fields /\ ~LineWasCut(c) =>
    Subsequence(TheBody(c), resp[c].body)

\* Every download ends, also when its server dies of another client's end or its
\* connection waits behind others, as long as no client has written behind its array for
\* the status line (httpserverc.c:74-82, wwgetc2.c:250-310).
DownloadsEnd ==
  \A c \in Clients : <>(state[c] \in {"ended", "killed"} \/ \E d \in Clients : state[d] = "undefined")
=============================================================================
