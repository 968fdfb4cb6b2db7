----------------------------- MODULE HttpProxy ------------------------------
(***************************************************************************)
(* The select loop of httpproxy.pl: sessions, their sockets, and the relay *)
(* of responses.  One thread serves every client.  Each round asks select  *)
(* which sockets are ready and then visits every session of a COPY of the  *)
(* session table; a visit looks at the session's sockets in the result of  *)
(* select and runs the handler of the session's state.  Handlers of other  *)
(* sessions, and the rest of the world, may have acted since select.       *)
(*                                                                         *)
(* A response is a stream of units: HeaderUnits units of header, then the  *)
(* body.  What is read, kept in BUF and delivered is counted; the contents *)
(* of requests are reduced to what decides how they are answered.  The     *)
(* disk cache is the subject of ProxyCache; here a request that the cache  *)
(* (or the list of URLs not to fetch) answers is a "local" one.            *)
(*                                                                         *)
(* The sockets of clients block.  A write of BUF that is longer than the   *)
(* room in the client's buffers, and every write of a local answer, which  *)
(* select was not asked about, takes until the client has read enough: the *)
(* step that writes then comes late, and no other handler runs before it.  *)
(***************************************************************************)
EXTENDS Naturals, Sequences, FiniteSets

CONSTANTS
  Sess,         \* sessions with a client, or prefetching
  Fds,          \* descriptors of client and server sockets
  NoFd,         \* the session has no such socket
  Hosts,        \* origin servers (host and port)
  NoHost,
  Requests,     \* requests clients may send
  Responses,    \* responses servers may give
  HeaderUnits,  \* units in which a response header arrives
  NoLength,     \* no Content-Length
  Nothing,
  Listen,       \* the ACCEPTING session
  Operator,     \* the STDIN session
  Extra,        \* bytes a client sends after its request (a line end)
  MaxUnread,    \* bound: requests and Extras a client sent that were not read
  MaxBacklog,   \* bound: connections waiting to be accepted
  MaxPrefetch   \* bound: prefetch sessions started when a response ends

(* keep: the client asks for Keep-Alive.  local: answered from the cache or *)
(* with "Error" (not worth fetching); bad: not a request that is understood.*)
RequestType == [kind : {"fetch", "local", "bad"}, host : Hosts, keep : BOOLEAN]

(* framed: the length is announced (or is known to be 0, status 304).       *)
(* ka: the server says Keep-Alive, which it only may when framed.           *)
ResponseType == [body : Nat, framed : BOOLEAN, ka : BOOLEAN]

ASSUME ProxyConstants ==
  /\ Requests \subseteq RequestType
  /\ Responses \subseteq ResponseType
  /\ \A r \in Responses : r.ka => r.framed
  /\ HeaderUnits \in Nat \ {0}
  /\ MaxBacklog \in Nat /\ MaxPrefetch \in Nat /\ MaxUnread \in Nat
  /\ IsFiniteSet(Sess) /\ IsFiniteSet(Fds)
  /\ NoFd \notin Fds /\ NoHost \notin Hosts
  /\ NoLength \notin Nat
  /\ Nothing \notin Responses /\ Extra \notin Requests
  /\ Listen \notin Sess /\ Operator \notin Sess /\ Listen # Operator

VARIABLES
  sess,     \* %SESSION
  rin, win, \* the sockets given to select
  rout,     \* its result, as far as it is still looked at in this round
  wout,
  todo,     \* what is left of this round's copy of %SESSION
  socknum,  \* SOCKETNUM
  alive,    \* the program has not called die (after which nothing is modelled)
  backlog,  \* connections not yet accepted
  cli,      \* cli[n]: the client of session n
  srv       \* srv[f]: the far end of server socket f

vars == <<sess, rin, win, rout, wout, todo, socknum, alive, backlog, cli, srv>>

Busy == {"CONNECTING", "READING", "WRITING_SERVER", "WRITING_CLIENT"}

(* The fields of a session, by the names of the source: STATE, CLIENT,      *)
(* SERVER, KEEP_ALIVE, KEEP_ALIVE_TIME > 0, KEEP_ALIVE_HOST, SERVER_HOST,   *)
(* SERVER_NOKEEPALIVE, RESPONSE_HEADER_RECEIVED, CONTENT_LENGTH,            *)
(* RECEIVED_BODY_SIZE, length of BUF.                                       *)
SessionType ==
  [state : Busy \cup {"NONE", "READ_REQUEST"},
   client : Fds \cup {NoFd}, server : Fds \cup {NoFd},
   keep : BOOLEAN, kept : BOOLEAN,
   kahost : Hosts \cup {NoHost}, host : Hosts \cup {NoHost},
   nokeep : BOOLEAN, hdr : BOOLEAN,
   length : Nat \cup {NoLength}, rcvd : Nat, buf : Nat]

NewSession ==
  [state |-> "NONE", client |-> NoFd, server |-> NoFd, keep |-> FALSE, kept |-> FALSE,
   kahost |-> NoHost, host |-> NoHost, nokeep |-> FALSE, hdr |-> FALSE,
   length |-> NoLength, rcvd |-> 0, buf |-> 0]

(* A client: what it sent that was not read yet, whether it closed, whether *)
(* it waits for a response, whether what was written to it and not read yet *)
(* fills the buffers, the host it asked for, and how many units of that     *)
(* response it got, and is due.                                             *)
ClientType ==
  [unread : Seq(Requests \cup {Extra}), eof : BOOLEAN, waiting : BOOLEAN, full : BOOLEAN,
   asked : Hosts \cup {NoHost}, got : Nat, due : Nat]

NewClient ==
  [unread |-> <<>>, eof |-> FALSE, waiting |-> FALSE, full |-> FALSE,
   asked |-> NoHost, got |-> 0, due |-> 0]

(* A server connection: its host, its state, the response it is giving, how *)
(* many units it has sent and how many of them were read.                   *)
ServerType ==
  [host : Hosts \cup {NoHost}, up : {"none", "connecting", "up", "closed"},
   resp : Responses \cup {Nothing}, sent : Nat, pos : Nat]

NoServer == [host |-> NoHost, up |-> "none", resp |-> Nothing, sent |-> 0, pos |-> 0]

NewServer(h) == [NoServer EXCEPT !.host = h, !.up = "connecting"]

TypeOK ==
  /\ sess \in [Sess -> SessionType]
  /\ rin \subseteq Fds /\ win \subseteq Fds
  /\ rout \subseteq Fds /\ wout \subseteq Fds
  /\ todo \subseteq Sess \cup {Listen, Operator}
  /\ socknum \in Nat
  /\ alive \in BOOLEAN
  /\ backlog \in 0 .. MaxBacklog
  /\ cli \in [Sess -> ClientType]
  /\ srv \in [Fds -> ServerType]

Init ==
  /\ sess = [n \in Sess |-> NewSession]
  /\ rin = {} /\ win = {} /\ rout = {} /\ wout = {}
  /\ todo = {}
  /\ socknum = 0
  /\ alive = TRUE
  /\ backlog = 0
  /\ cli = [n \in Sess |-> NewClient]
  /\ srv = [f \in Fds |-> NoServer]

-----------------------------------------------------------------------------
Live(n) == sess[n].state # "NONE"

Units(r) == HeaderUnits + r.body

OwnedFds ==
  ({sess[n].client : n \in Sess} \cup {sess[n].server : n \in Sess}) \ {NoFd}

(* Session numbers are not used twice: a number still in this round's copy  *)
(* is not a new session's.                                                  *)
FreeNums == {n \in Sess : ~Live(n) /\ n \notin todo}

ClientReadable(n) == cli[n].unread # <<>> \/ cli[n].eof
ServerReadable(f) == srv[f].sent > srv[f].pos \/ srv[f].up = "closed"

Readable(f) ==
  \E n \in Sess : \/ f = sess[n].client /\ ClientReadable(n)
                  \/ f = sess[n].server /\ ServerReadable(f)

(* A client socket is writable when there is room for a byte, and when the  *)
(* client has closed; a server socket as soon as the connection is made or  *)
(* has failed.                                                              *)
ClientWritable(n) == ~cli[n].full \/ cli[n].eof

Writable(f) ==
  \E n \in Sess : \/ f = sess[n].client /\ ClientWritable(n)
                  \/ f = sess[n].server /\ srv[f].up # "connecting"

(* FD_SET or FD_CLR of a socket; a session without that socket sets none.   *)
Bit(f, on) == IF on /\ f # NoFd THEN {f} ELSE {}

(* Mutant: bits are set but never cleared.                                  *)
MaskedNotCleared(mask, s, c, v) == mask \cup Bit(s.client, c) \cup Bit(s.server, v)

Masked(mask, s, c, v) == (mask \ {s.client, s.server}) \cup Bit(s.client, c) \cup Bit(s.server, v)

(* change_state, of a session whose other fields are those of s.            *)
ChangeState(n, s, state, crin, cwin, srin, swin) ==
  /\ sess' = [sess EXCEPT ![n] = [s EXCEPT !.state = state]]
  /\ rin' = Masked(rin, s, crin, srin)
  /\ win' = Masked(win, s, cwin, swin)

(* do_close_itr: the links, or the new location, of the page that just      *)
(* ended may be fetched ahead, each by a session without client that starts *)
(* with do_connect, which dies when one of its system calls fails; free are *)
(* the descriptors that are not in use.  base, rin0, win0, srv0, num0 is    *)
(* what becomes of the rest.                                                *)
PrefetchSession(f, h) ==
  [NewSession EXCEPT !.state = "CONNECTING", !.server = f, !.host = h]

FindPrefetch(free, base, rin0, win0, srv0, num0) ==
  \E P \in SUBSET FreeNums : \E fd \in [P -> free] :
    \E h \in [{fd[m] : m \in P} -> Hosts] :
      /\ Cardinality(P) <= MaxPrefetch
      /\ \A m, o \in P : fd[m] = fd[o] => m = o
      /\ sess' = [m \in Sess |->
                    IF m \in P THEN PrefetchSession(fd[m], h[fd[m]]) ELSE base[m]]
      /\ rin' = rin0
      /\ win' = win0 \cup DOMAIN h
      /\ srv' = [f \in Fds |-> IF f \in DOMAIN h THEN NewServer(h[f]) ELSE srv0[f]]
      /\ socknum' = num0 + Cardinality(P)
      /\ alive' = TRUE \/ (P # {} /\ alive' = FALSE)

Closed(f) == [g \in Fds |-> IF g = f THEN NoServer ELSE srv[g]]

(* Mutants: SOCKETNUM goes down by two, or by one, whatever was open.       *)
SocketsOfBoth(s) == 2
SocketsOfOne(s) == 1

SocketsOf(s) == Cardinality({s.client, s.server} \ {NoFd})

(* do_close: both sockets are closed and leave the masks, the session is    *)
(* deleted.                                                                 *)
DoClose(n) ==
  LET s == sess[n]
      mine == {s.client, s.server}
  IN  /\ FindPrefetch((Fds \ OwnedFds) \cup (mine \ {NoFd}), [sess EXCEPT ![n] = NewSession],
                      rin \ mine, win \ mine, Closed(s.server), socknum - SocketsOf(s))
      /\ cli' = [cli EXCEPT ![n] = NewClient]

(* do_keep_close: the client's connection, and the server's unless it is    *)
(* not a keep-alive one, wait for the next request.                         *)
KeptSession(s) ==
  [s EXCEPT !.state = "READ_REQUEST", !.kept = TRUE, !.kahost = s.host, !.keep = FALSE,
            !.hdr = FALSE, !.length = NoLength, !.rcvd = 0, !.buf = 0,
            !.server = IF s.nokeep THEN NoFd ELSE s.server]

DoKeepClose(n) ==
  LET s == sess[n]
      k == KeptSession(s)
      gone == IF s.nokeep THEN s.server ELSE NoFd
  IN  FindPrefetch(Fds \ OwnedFds, [sess EXCEPT ![n] = k],
                   Masked(rin \ {gone}, k, TRUE, TRUE), Masked(win \ {gone}, k, FALSE, FALSE),
                   Closed(gone), IF gone = NoFd THEN socknum ELSE socknum - 1)
-----------------------------------------------------------------------------
(* The loop.                                                                *)

(* select: returns when some socket is ready (or the operator typed a       *)
(* line), with all the sockets that are; then the session table is copied.  *)
Select ==
  /\ alive /\ todo = {}
  /\ rout' = {f \in rin : Readable(f)}
  /\ wout' = {f \in win : Writable(f)}
  /\ todo' = {n \in Sess : Live(n)} \cup {Listen, Operator}
  /\ rout' # {} \/ wout' # {} \/ backlog > 0
  /\ UNCHANGED <<sess, rin, win, socknum, alive, backlog, cli, srv>>

(* The visit of one entry of the copy, in whatever order the hash yields    *)
(* them.  What select returned is not used after the round.                 *)
Visit(x) ==
  /\ alive /\ x \in todo
  /\ todo' = todo \ {x}
  /\ rout' = IF todo' = {} THEN {} ELSE rout
  /\ wout' = IF todo' = {} THEN {} ELSE wout

In(n, state) == sess[n].state = state

ClientReady(n) == sess[n].client \in rout
ServerReady(n) == sess[n].server \in rout

(* Mutant: the new client is not polled.                                    *)
AcceptIntoDeaf(n, f) ==
  /\ ChangeState(n, [NewSession EXCEPT !.client = f], "READ_REQUEST", FALSE, FALSE, FALSE, FALSE)
  /\ socknum' = socknum + 1
  /\ backlog' = backlog - 1
  /\ cli' = [cli EXCEPT ![n] = NewClient]
  /\ alive' \in BOOLEAN
  /\ UNCHANGED srv

(* do_accept, which dies when accept fails, and change_state.                 *)
AcceptInto(n, f) ==
  /\ ChangeState(n, [NewSession EXCEPT !.client = f], "READ_REQUEST", TRUE, FALSE, FALSE, FALSE)
  /\ socknum' = socknum + 1
  /\ backlog' = backlog - 1
  /\ cli' = [cli EXCEPT ![n] = NewClient]
  /\ alive' \in BOOLEAN
  /\ UNCHANGED srv

(* Mutant: the round goes through the session table itself, so that it also *)
(* meets the session it just accepted.                                      *)
AcceptVisited ==
  /\ backlog > 0 /\ alive /\ Listen \in todo
  /\ \E n \in FreeNums, f \in Fds \ OwnedFds :
       AcceptInto(n, f) /\ todo' = (todo \ {Listen}) \cup {n}
  /\ UNCHANGED <<rout, wout>>

(* ACCEPTING.  When all the session numbers of this instance are in use the *)
(* connection stays in the backlog.                                         *)
Accept ==
  /\ Visit(Listen)
  /\ backlog > 0
  /\ \E n \in FreeNums, f \in Fds \ OwnedFds : AcceptInto(n, f)

AcceptNothing ==
  /\ Visit(Listen)
  /\ backlog = 0 \/ FreeNums = {} \/ Fds \subseteq OwnedFds
  /\ UNCHANGED <<sess, rin, win, socknum, alive, backlog, cli, srv>>

(* STDIN: "close N" closes any session, also one this round has yet to      *)
(* visit; other commands change nothing.                                    *)
OperatorVisit ==
  /\ Visit(Operator)
  /\ \/ \E n \in Sess : Live(n) /\ DoClose(n)
     \/ UNCHANGED <<sess, rin, win, socknum, alive, cli, srv>>
  /\ UNCHANGED backlog

(* A session that none of its sockets' readiness concerns, or that was      *)
(* deleted since the table was copied.                                      *)
NothingReady(n) ==
  /\ Visit(n)
  /\ sess[n].state \in {"READ_REQUEST", "READING"} => ~ClientReady(n) /\ ~ServerReady(n)
  /\ sess[n].state \in {"CONNECTING", "WRITING_SERVER"} => sess[n].server \notin wout
  /\ In(n, "WRITING_CLIENT") => sess[n].client \notin wout
  /\ UNCHANGED <<sess, rin, win, socknum, alive, backlog, cli, srv>>

(* Mutant: any open server connection is used again.                        *)
ReusableForAny(s, h) == s.server # NoFd

(* The session's open server connection leads to the host of the request.   *)
Reusable(s, h) == s.server # NoFd /\ s.kahost = h

(* The connection that is closed before another one is made, if the session *)
(* had a request before.                                                    *)
Replaced(s) == IF s.kept THEN s.server ELSE NoFd

(* do_read_request, when the origin server has to be asked.  do_connect     *)
(* dies when socket, bind, fcntl or connect fails.                          *)
Fetch(n, r) ==
  LET s == [sess[n] EXCEPT !.keep = r.keep, !.host = r.host]
      old == Replaced(s)
  IN  \/ /\ Reusable(s, r.host)
         /\ ChangeState(n, s, "CONNECTING", FALSE, FALSE, FALSE, TRUE)
         /\ UNCHANGED <<socknum, alive, srv>>
      \/ /\ ~Reusable(s, r.host)
         /\ \E f \in (Fds \ OwnedFds) \cup ({old} \ {NoFd}) :
              /\ sess' = [sess EXCEPT ![n] = [s EXCEPT !.server = f, !.state = "CONNECTING"]]
              /\ rin' = rin \ {s.client, old, f}
              /\ win' = (win \ {s.client, old}) \cup {f}
              /\ srv' = [Closed(old) EXCEPT ![f] = NewServer(r.host)]
              /\ socknum' = IF old = NoFd THEN socknum + 1 ELSE socknum
              /\ alive' \in BOOLEAN

(* READ_REQUEST, the client is readable.  The read may return a part of a   *)
(* request, which is kept until the rest is there, or the request and what  *)
(* came after it, which is passed on as the request's body.  A stray Extra, *)
(* left over from the request before, is not a request line.  A local       *)
(* answer is written here and now, header and body, whether or not select   *)
(* reported the client writable.                                            *)
ReadRequest(n) ==
  /\ Visit(n) /\ In(n, "READ_REQUEST") /\ ClientReady(n)
  /\ UNCHANGED backlog
  /\ \/ cli[n].unread = <<>> /\ DoClose(n)
     \/ cli[n].unread # <<>> /\ UNCHANGED <<sess, rin, win, socknum, alive, cli, srv>>
     \/ \E k \in 1 .. Len(cli[n].unread) :
          LET r == Head(cli[n].unread)
              c == [cli[n] EXCEPT !.unread = SubSeq(@, k + 1, Len(@)), !.got = 0, !.due = 0]
          IN  IF r = Extra \/ r.kind = "bad" \/ (r.kind = "local" /\ ~r.keep)
              THEN DoClose(n)
              ELSE IF r.kind = "local"
              THEN /\ DoKeepClose(n)
                   /\ \E full \in BOOLEAN :
                        cli' = [cli EXCEPT ![n] = [c EXCEPT !.waiting = FALSE, !.full = full,
                                                            !.asked = NoHost]]
              ELSE /\ Fetch(n, r)
                   /\ cli' = [cli EXCEPT ![n] = [c EXCEPT !.asked = r.host]]

(* READ_REQUEST, the idle server connection is readable.                    *)
IdleServer(n) ==
  /\ Visit(n) /\ In(n, "READ_REQUEST") /\ ~ClientReady(n) /\ ServerReady(n)
  /\ DoClose(n)
  /\ UNCHANGED backlog

(* CONNECTING, the server is writable: the connection was made, or failed,  *)
(* or is a kept one that the server may have closed; writing to a closed    *)
(* connection fails or does not.  The client may be gone (getpeername       *)
(* fails).  The server decides what it will answer; it says Keep-Alive only *)
(* to a request that did.                                                   *)
WriteRequest(n) ==
  LET f == sess[n].server
  IN  /\ Visit(n) /\ In(n, "CONNECTING") /\ f \in wout
      /\ UNCHANGED backlog
      /\ \/ /\ srv[f].up = "closed" \/ (cli[n].eof /\ sess[n].client # NoFd)
            /\ DoClose(n)
         \/ /\ ChangeState(n, sess[n], "READING", TRUE, FALSE, TRUE, FALSE)
            /\ UNCHANGED <<socknum, alive>>
            /\ \/ srv[f].up = "closed" /\ UNCHANGED <<srv, cli>>
               \/ /\ srv[f].up = "up"
                  /\ \E a \in Responses :
                       /\ a.ka => sess[n].keep
                       /\ srv' = [srv EXCEPT ![f].resp = a, ![f].sent = 0, ![f].pos = 0]
                       /\ cli' = IF sess[n].client = NoFd THEN cli
                                 ELSE [cli EXCEPT ![n].due = Units(a)]

(* Mutants: BUF gets the body without the header; the header counts as body.*)
ReceivedBodyOnly(s, a, pos, k) ==
  IF s.hdr
  THEN [s EXCEPT !.buf = k, !.rcvd = @ + k]
  ELSE IF pos + k < HeaderUnits THEN [s EXCEPT !.buf = k]
  ELSE [s EXCEPT !.buf = pos + k - HeaderUnits, !.hdr = TRUE, !.rcvd = pos + k - HeaderUnits,
                 !.length = IF a.framed THEN a.body ELSE NoLength,
                 !.keep = @ /\ a.framed,
                 !.nokeep = @ \/ ~a.ka]

ReceivedCountsHeader(s, a, pos, k) ==
  IF s.hdr
  THEN [s EXCEPT !.buf = k, !.rcvd = @ + k]
  ELSE [s EXCEPT !.buf = k, !.hdr = TRUE, !.rcvd = pos + k,
                 !.length = IF a.framed THEN a.body ELSE NoLength,
                 !.keep = @ /\ a.framed,
                 !.nokeep = @ \/ ~a.ka]

(* READING, the server is readable: k units of its stream.                  *)
Received(s, a, pos, k) ==
  IF s.hdr
  THEN [s EXCEPT !.buf = k, !.rcvd = @ + k]
  ELSE IF pos + k < HeaderUnits THEN [s EXCEPT !.buf = k]
  ELSE [s EXCEPT !.buf = k, !.hdr = TRUE, !.rcvd = pos + k - HeaderUnits,
                 !.length = IF a.framed THEN a.body ELSE NoLength,
                 !.keep = @ /\ a.framed,
                 !.nokeep = @ \/ ~a.ka]

(* What was read goes to the client, unless the header is not complete, in  *)
(* which case the session goes on reading.  A prefetching session has no    *)
(* client.                                                                  *)
ReadServer(n) ==
  LET f == sess[n].server
      v == srv[f]
  IN  /\ Visit(n) /\ In(n, "READING") /\ ServerReady(n)
      /\ UNCHANGED backlog
      /\ \/ v.sent = v.pos /\ DoClose(n)
         \/ \E k \in 1 .. (v.sent - v.pos) :
              LET s == Received(sess[n], v.resp, v.pos, k)
              IN  /\ IF s.hdr /\ s.client # NoFd
                     THEN ChangeState(n, s, "WRITING_CLIENT", FALSE, TRUE, FALSE, FALSE)
                     ELSE sess' = [sess EXCEPT ![n] = s] /\ UNCHANGED <<rin, win>>
                  /\ srv' = [srv EXCEPT ![f].pos = @ + k]
                  /\ UNCHANGED <<socknum, alive, cli>>

(* READING, only the client is readable: it closed, or sent more.           *)
ReadClient(n) ==
  /\ Visit(n) /\ In(n, "READING") /\ ~ServerReady(n) /\ ClientReady(n)
  /\ UNCHANGED backlog
  /\ \/ cli[n].unread = <<>> /\ DoClose(n)
     \/ /\ cli[n].unread # <<>>
        /\ ChangeState(n, sess[n], "WRITING_SERVER", FALSE, FALSE, FALSE, TRUE)
        /\ cli' = [cli EXCEPT ![n].unread = <<>>]
        /\ UNCHANGED <<socknum, alive, srv>>

(* Mutant: the session goes back to READING without polling the server.     *)
WriteServerDeaf(n) ==
  /\ Visit(n) /\ In(n, "WRITING_SERVER") /\ sess[n].server \in wout
  /\ ChangeState(n, sess[n], "READING", TRUE, FALSE, FALSE, FALSE)
  /\ UNCHANGED <<socknum, alive, backlog, cli, srv>>

(* WRITING_SERVER: the program dies when the write fails.                   *)
WriteServer(n) ==
  /\ Visit(n) /\ In(n, "WRITING_SERVER") /\ sess[n].server \in wout
  /\ \/ /\ ChangeState(n, sess[n], "READING", TRUE, FALSE, TRUE, FALSE)
        /\ UNCHANGED alive
     \/ /\ srv[sess[n].server].up = "closed"
        /\ alive' = FALSE
        /\ UNCHANGED <<sess, rin, win>>
  /\ UNCHANGED <<socknum, backlog, cli, srv>>

(* Mutant: the length is not compared.                                      *)
CompleteUnchecked(s) == s.keep

(* The whole response was delivered and its length was announced.           *)
Complete(s) == s.keep /\ s.rcvd = s.length

(* WRITING_CLIENT: BUF goes to the client, all of it, and may fill its      *)
(* buffers.                                                                 *)
WriteClient(n) ==
  /\ Visit(n) /\ In(n, "WRITING_CLIENT") /\ sess[n].client \in wout
  /\ UNCHANGED backlog
  /\ \/ cli[n].eof /\ DoClose(n)
     \/ \E full \in BOOLEAN :
          LET c == [cli[n] EXCEPT !.got = @ + sess[n].buf, !.full = full]
          IN  IF Complete(sess[n])
              THEN /\ DoKeepClose(n)
                   /\ cli' = [cli EXCEPT ![n] = [c EXCEPT !.waiting = FALSE, !.asked = NoHost]]
              ELSE /\ ChangeState(n, [sess[n] EXCEPT !.buf = 0], "READING",
                                  TRUE, FALSE, TRUE, FALSE)
                   /\ cli' = [cli EXCEPT ![n] = c]
                   /\ UNCHANGED <<socknum, alive, srv>>

Handle(n) ==
  \/ NothingReady(n) \/ ReadRequest(n) \/ IdleServer(n) \/ WriteRequest(n)
  \/ ReadServer(n) \/ ReadClient(n) \/ WriteServer(n) \/ WriteClient(n)

Loop == Select \/ Accept \/ AcceptNothing \/ OperatorVisit \/ \E n \in Sess : Handle(n)

-----------------------------------------------------------------------------
(* The world.                                                               *)

proxyVars == <<sess, rin, win, rout, wout, todo, socknum, alive>>

ClientConnects ==
  /\ alive /\ backlog < MaxBacklog
  /\ backlog' = backlog + 1
  /\ UNCHANGED <<proxyVars, cli, srv>>

Connected(n) == alive /\ sess[n].client # NoFd /\ ~cli[n].eof

MaySend(n) == Connected(n) /\ Len(cli[n].unread) < MaxUnread

(* A client does not send a request before it has read the answer to the    *)
(* one before.                                                              *)
ClientAsks(n) ==
  /\ MaySend(n) /\ In(n, "READ_REQUEST") /\ ~cli[n].waiting /\ ~cli[n].full
  /\ \E r \in Requests :
       cli' = [cli EXCEPT ![n].unread = Append(@, r), ![n].waiting = TRUE]
  /\ UNCHANGED <<proxyVars, backlog, srv>>

ClientSendsExtra(n) ==
  /\ MaySend(n) /\ cli[n].waiting
  /\ cli' = [cli EXCEPT ![n].unread = Append(@, Extra)]
  /\ UNCHANGED <<proxyVars, backlog, srv>>

ClientCloses(n) ==
  /\ Connected(n)
  /\ cli' = [cli EXCEPT ![n].eof = TRUE]
  /\ UNCHANGED <<proxyVars, backlog, srv>>

ClientReads(n) ==
  /\ Connected(n) /\ cli[n].full
  /\ cli' = [cli EXCEPT ![n].full = FALSE]
  /\ UNCHANGED <<proxyVars, backlog, srv>>

ServerConnects(f) ==
  /\ alive /\ srv[f].up = "connecting"
  /\ \E u \in {"up", "closed"} : srv' = [srv EXCEPT ![f].up = u]
  /\ UNCHANGED <<proxyVars, backlog, cli>>

ServerSends(f) ==
  /\ alive /\ srv[f].up = "up" /\ srv[f].resp # Nothing
  /\ \E k \in srv[f].sent + 1 .. Units(srv[f].resp) : srv' = [srv EXCEPT ![f].sent = k]
  /\ UNCHANGED <<proxyVars, backlog, cli>>

(* A server may close at any time, in the middle of a response or idle.     *)
ServerCloses(f) ==
  /\ alive /\ srv[f].up = "up"
  /\ srv' = [srv EXCEPT ![f].up = "closed"]
  /\ UNCHANGED <<proxyVars, backlog, cli>>

(* It must close after a response that is not Keep-Alive.                   *)
ServerFinishes(f) ==
  /\ srv[f].resp # Nothing /\ ~srv[f].resp.ka /\ srv[f].sent = Units(srv[f].resp)
  /\ ServerCloses(f)

World ==
  \/ ClientConnects
  \/ \E n \in Sess : ClientAsks(n) \/ ClientSendsExtra(n) \/ ClientCloses(n) \/ ClientReads(n)
  \/ \E f \in Fds : ServerConnects(f) \/ ServerSends(f) \/ ServerCloses(f)

(* After die nothing is modelled.                                           *)
Dead == ~alive /\ UNCHANGED vars

Next == Loop \/ World \/ Dead

Spec == Init /\ [][Next]_vars

ReadsWhole(n) == ReadRequest(n) /\ cli'[n].unread # cli[n].unread

(* The loop runs as long as select returns and clients read what is written *)
(* to them, a request is read in a finite number of parts, and servers      *)
(* answer.                                                                  *)
Fairness ==
  /\ WF_vars(Loop)
  /\ \A n \in Sess : SF_vars(ReadsWhole(n)) /\ WF_vars(ClientReads(n))
  /\ \A f \in Fds : /\ WF_vars(ServerConnects(f))
                    /\ WF_vars(ServerSends(f))
                    /\ WF_vars(ServerFinishes(f))

FairSpec == Spec /\ Fairness

-----------------------------------------------------------------------------
(* Properties.                                                              *)

(* What select found is still so when the handler comes to use it, although *)
(* sessions are closed, and descriptors used again, between the two: a      *)
(* handler that reads after it looked at rout finds bytes, or the end, and  *)
(* one that writes after it looked at wout finds room, or a connection that *)
(* failed.  It is why the round visits a copy of the session table.  It is  *)
(* not said of the writes that no look at wout comes before: answers from   *)
(* the cache and error pages go to a blocking client that was reported      *)
(* readable only, whether it has room or not (lines 817, 883-910, 926).     *)
ReadyWhenUsed ==
  \A n \in todo \cap Sess, f \in Fds :
    f \in {sess[n].client, sess[n].server} =>
      /\ f \in rout => Readable(f)
      /\ f \in wout => Writable(f)

(* Each descriptor has one owner and is open as long as it has one; none    *)
(* leaks, and SOCKETNUM counts them.                                        *)
SocketsAccounted ==
  /\ socknum = Cardinality(OwnedFds)
  /\ \A n \in Sess : sess[n].client = sess[n].server => sess[n].client = NoFd
  /\ \A n, m \in Sess :
       n # m => {sess[n].client, sess[n].server} \cap {sess[m].client, sess[m].server} \subseteq {NoFd}
  /\ \A f \in Fds : srv[f].up # "none" <=> \E n \in Sess : f = sess[n].server

(* Whatever happened to the other sessions, select waits for exactly what   *)
(* the state of each session needs: a session is neither forgotten nor does *)
(* a socket nobody looks at keep the loop spinning.                         *)
PollsWhatStatesNeed ==
  /\ rin \cup win \subseteq OwnedFds
  /\ \A n \in Sess, f \in Fds :
       /\ f = sess[n].client =>
            /\ f \in rin <=> sess[n].state \in {"READ_REQUEST", "READING"}
            /\ f \in win <=> In(n, "WRITING_CLIENT")
       /\ f = sess[n].server =>
            /\ f \in rin <=> sess[n].state \in {"READ_REQUEST", "READING"}
            /\ f \in win <=> sess[n].state \in {"CONNECTING", "WRITING_SERVER"}

(* A request is only ever written to a connection to the host it names,     *)
(* through any sequence of keep-alive requests to several hosts.            *)
RightServer ==
  \A n \in Sess :
    sess[n].state \in Busy /\ sess[n].client # NoFd =>
      srv[sess[n].server].host = cli[n].asked

(* When a server connection is used again, nothing of an earlier response   *)
(* is left in it that could be taken for the next one.                      *)
CleanReuse ==
  \A n \in Sess :
    In(n, "CONNECTING") /\ srv[sess[n].server].resp # Nothing =>
      LET v == srv[sess[n].server]
      IN  v.pos = Units(v.resp) /\ v.sent = v.pos

(* A connection is kept for the next request only when the client has got   *)
(* the response whole: the counting of the body against Content-Length is   *)
(* right for every way the response is split into reads.                    *)
KeptAfterWhole ==
  \A n \in Sess : In(n, "READ_REQUEST") => cli[n].got = cli[n].due

(* What the client has got is a prefix of the response, and BUF is the next *)
(* part of it: nothing is lost, repeated or overwritten in between.         *)
RelayInOrder ==
  \A n \in Sess :
    sess[n].client # NoFd /\ sess[n].state \in {"READING", "WRITING_SERVER", "WRITING_CLIENT"}
      /\ srv[sess[n].server].resp # Nothing /\ cli[n].due # 0 =>
        IF In(n, "WRITING_CLIENT") THEN cli[n].got + sess[n].buf = srv[sess[n].server].pos
        ELSE cli[n].got = srv[sess[n].server].pos

(* Every request sent on to a server comes to an end, if servers answer or  *)
(* close: the session waits for the next request or is gone.                *)
EveryRequestEnds ==
  \A n \in Sess :
    sess[n].state \in Busy ~> sess[n].state \in {"NONE", "READ_REQUEST"} \/ ~alive

(* A client that went away is noticed, whatever its session was doing.      *)
GoneClientsDropped ==
  \A n \in Sess : cli[n].eof ~> ~cli[n].eof \/ ~alive
=============================================================================
