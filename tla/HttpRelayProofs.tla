-------------------------- MODULE HttpRelayProofs ---------------------------
(***************************************************************************)
(* Proofs about what passes through a session: the response of the server  *)
(* to the client, in order and whole, and nothing of it into the next one. *)
(* They rest on the invariant of HttpProxyProofs, which says whose socket  *)
(* is whose.  What the client has got is only accounted for if a header    *)
(* arrives in one piece (HeaderUnits = 1): otherwise the code loses the    *)
(* pieces before the last.                                                 *)
(***************************************************************************)
EXTENDS HttpProxyProofs

(* All of the connection's last response was read, or there was none.      *)
AtEnd(v) == v.resp = Nothing \/ v.pos = Units(v.resp)

(* s, c and v are a session, its client and its server connection.         *)
Waiting(s, c, v) ==
  s.state = "READ_REQUEST" =>
    /\ ~s.hdr
    /\ s.server # NoFd => AtEnd(v)
    /\ HeaderUnits = 1 => c.got = c.due

Asking(s, c, v) ==
  s.state = "CONNECTING" =>
    /\ ~s.hdr /\ AtEnd(v)
    /\ s.client # NoFd => c.got = 0 /\ c.due = 0

(* The request was written to a connection that the server had closed.     *)
Refused(s, c, v) ==
  ~s.hdr /\ v.up = "closed" /\ AtEnd(v) /\ (s.client # NoFd => c.due = 0)

(* What was read is counted, and is with the client or in BUF.             *)
InResponse(s, c, v) ==
  /\ v.resp # Nothing
  /\ s.hdr => v.pos = HeaderUnits + s.rcvd /\ (s.keep => s.length = v.resp.body)
  /\ ~s.hdr => v.pos < HeaderUnits
  /\ s.client # NoFd =>
       /\ c.due = Units(v.resp)
       /\ HeaderUnits = 1 /\ s.state = "WRITING_CLIENT" => c.got + s.buf = v.pos
       /\ HeaderUnits = 1 /\ s.state # "WRITING_CLIENT" => c.got = v.pos

Relaying(s, c, v) ==
  s.state \in {"READING", "WRITING_SERVER", "WRITING_CLIENT"} =>
    /\ Refused(s, c, v) \/ InResponse(s, c, v)
    /\ s.state = "WRITING_CLIENT" => s.hdr /\ s.client # NoFd

RelayOK(s, c, v) == Waiting(s, c, v) /\ Asking(s, c, v) /\ Relaying(s, c, v)

RelayInv == \A n \in Sess : RelayOK(sess[n], cli[n], srv[sess[n].server])

-----------------------------------------------------------------------------
LEMMA NoSessionRelays ==
  ASSUME NEW s, NEW c, NEW v, s.state = "NONE"
  PROVE  RelayOK(s, c, v)
BY DEF RelayOK, Waiting, Asking, Relaying

LEMMA StartingRelays ==
  ASSUME NEW s, NEW c, NEW V, Starting(s, V)
  PROVE  RelayOK(s, c, V[s.server])
<1>1. PICK f \in Fds, h \in Hosts : s = PrefetchSession(f, h) /\ V[f] = NewServer(h)
  BY DEF Starting
<1>2. s.state = "CONNECTING" /\ s.client = NoFd /\ s.server = f /\ ~s.hdr
  BY <1>1 DEF PrefetchSession, NewSession
<1>3. V[s.server].resp = Nothing
  BY <1>1, <1>2, NewServerQuiet
<1> QED
  BY <1>2, <1>3 DEF RelayOK, Waiting, Asking, Relaying, AtEnd

(* A step has to be looked at for the session it is about.                 *)
LEMMA RelayStep ==
  ASSUME StateInv, RelayInv, NEW n \in Sess, LeavesOthers(n),
         RelayOK(sess'[n], cli'[n], srv'[sess'[n].server])
  PROVE  RelayInv'
<1>1. ASSUME NEW m \in Sess PROVE RelayOK(sess'[m], cli'[m], srv'[sess'[m].server])
  <2>1. CASE m = n
    BY <2>1
  <2>2. CASE m # n /\ m \in FreeNums
    <3>1. sess'[m].state = "NONE" \/ Starting(sess'[m], srv')
      BY <2>2 DEF LeavesOthers
    <3> QED
      BY <3>1, NoSessionRelays, StartingRelays
  <2>3. CASE m # n /\ m \notin FreeNums
    <3>1. sess'[m] = sess[m] /\ cli'[m] = cli[m] /\ RelayOK(sess[m], cli[m], srv[sess[m].server])
      BY <2>3 DEF LeavesOthers, RelayInv
    <3>2. /\ SessionOK(sess[m], srv) /\ sess[m].server \in Fds \cup {NoFd}
      BY SessionFacts
    <3>3. CASE sess[m].server \in Fds
      <4>1. sess[m].server \in Others(sess, n)
        BY <2>3, <3>3 DEF Others, HasFd
      <4> QED
        BY <3>1, <4>1 DEF LeavesOthers
    <3>4. CASE sess[m].server = NoFd
      <4>1. sess[m].state \notin {"CONNECTING", "READING", "WRITING_SERVER", "WRITING_CLIENT"}
        BY <3>2, <3>4 DEF SessionOK, Busy
      <4> QED
        BY <3>1, <3>4, <4>1 DEF RelayOK, Waiting, Asking, Relaying
    <3> QED
      BY <3>2, <3>3, <3>4
  <2> QED
    BY <2>1, <2>2, <2>3
<1> QED
  BY <1>1 DEF RelayInv

LEMMA CloseRelays ==
  ASSUME StateInv, RelayInv, NEW n \in Sess, Live(n), DoClose(n)
  PROVE  RelayInv'
<1>1. LeavesOthers(n) /\ sess'[n].state = "NONE"
  BY CloseKeeps, NewSessionIs
<1> QED
  BY <1>1, NoSessionRelays, RelayStep

(* change_state leaves what a session knows of the response.               *)
LEMMA ChangedTo ==
  ASSUME NEW n \in Sess, sess \in [Sess -> SessionType], NEW s \in SessionType,
         NEW state \in Busy \cup {"READ_REQUEST"},
         NEW a, NEW b, NEW c, NEW d, ChangeState(n, s, state, a, b, c, d)
  PROVE  /\ sess'[n].state = state
         /\ sess'[n].client = s.client /\ sess'[n].server = s.server
         /\ sess'[n].hdr = s.hdr /\ sess'[n].keep = s.keep /\ sess'[n].rcvd = s.rcvd
         /\ sess'[n].length = s.length /\ sess'[n].buf = s.buf
<1>1. sess'[n] = [s EXCEPT !.state = state]
  BY DEF ChangeState
<1> QED
  BY <1>1 DEF SessionType

(* The numbers of a session, its client and its server connection.         *)
LEMMA RelayFacts ==
  ASSUME StateInv, RelayInv, NEW n \in Sess
  PROVE  /\ sess \in [Sess -> SessionType] /\ sess[n] \in SessionType
         /\ cli \in [Sess -> ClientType] /\ cli[n] \in ClientType
         /\ cli[n].got \in Nat /\ cli[n].due \in Nat
         /\ sess[n].rcvd \in Nat /\ sess[n].buf \in Nat /\ sess[n].hdr \in BOOLEAN
         /\ sess[n].keep \in BOOLEAN
         /\ RelayOK(sess[n], cli[n], srv[sess[n].server])
         /\ HeaderUnits \in Nat /\ HeaderUnits > 0
         /\ \A a \in Responses : /\ Units(a) = HeaderUnits + a.body /\ Units(a) \in Nat
                                 /\ a.body \in Nat /\ a # Nothing
         /\ sess[n].state \in Busy =>
              LET v == srv[sess[n].server]
              IN  /\ sess[n].server \in Fds /\ v \in ServerType
                  /\ v.pos \in Nat /\ v.sent \in Nat /\ QuietServer(v)
                  /\ v.resp \in Responses \cup {Nothing}
                  /\ AtEnd(v) => v.sent = v.pos
<1>1. /\ sess \in [Sess -> SessionType] /\ sess[n] \in SessionType
      /\ cli \in [Sess -> ClientType] /\ srv \in [Fds -> ServerType] /\ Quiet(srv)
      /\ sess[n].state \in Busy => sess[n].server \in Fds
  BY SessionFacts
<1>2. cli[n].got \in Nat /\ cli[n].due \in Nat
  BY <1>1 DEF ClientType
<1>3. /\ sess[n].rcvd \in Nat /\ sess[n].buf \in Nat /\ sess[n].hdr \in BOOLEAN
      /\ sess[n].keep \in BOOLEAN
  BY <1>1 DEF SessionType
<1>4. HeaderUnits \in Nat /\ HeaderUnits > 0
  BY ProxyConstants
<1>5. \A a \in Responses : /\ Units(a) = HeaderUnits + a.body /\ Units(a) \in Nat
                           /\ a.body \in Nat /\ a # Nothing
  BY ProxyConstants DEF Units, ResponseType
<1>6. ASSUME NEW f \in Fds
      PROVE  /\ srv[f] \in ServerType
             /\ srv[f].pos \in Nat /\ srv[f].sent \in Nat /\ QuietServer(srv[f])
             /\ srv[f].resp \in Responses \cup {Nothing}
             /\ AtEnd(srv[f]) => srv[f].sent = srv[f].pos
  <2>1. /\ srv[f] \in ServerType
        /\ srv[f].pos \in Nat /\ srv[f].sent \in Nat /\ QuietServer(srv[f])
        /\ srv[f].resp \in Responses \cup {Nothing}
    BY <1>1 DEF ServerType, Quiet
  <2> QED
    BY <1>5, <2>1 DEF AtEnd, QuietServer
<1> QED
  BY <1>1, <1>2, <1>3, <1>4, <1>5, <1>6 DEF RelayInv

-----------------------------------------------------------------------------
LEMMA AcceptRelays ==
  ASSUME StateInv, RelayInv, NEW n \in FreeNums, NEW f \in Fds \ OwnedFds, AcceptInto(n, f)
  PROVE  RelayInv'
<1>1. n \in Sess /\ LeavesOthers(n)
  BY AcceptKeeps DEF FreeNums
<1>2. sess'[n] = [[NewSession EXCEPT !.client = f] EXCEPT !.state = "READ_REQUEST"]
      /\ cli'[n] = NewClient
  BY <1>1, SessionFacts DEF AcceptInto, ChangeState
<1>3. /\ sess'[n].state = "READ_REQUEST" /\ sess'[n].server = NoFd /\ ~sess'[n].hdr
      /\ cli'[n].got = cli'[n].due
  BY <1>2 DEF NewSession, NewClient
<1>4. RelayOK(sess'[n], cli'[n], srv'[sess'[n].server])
  BY <1>3 DEF RelayOK, Waiting, Asking, Relaying
<1> QED
  BY <1>1, <1>4, RelayStep

LEMMA KeepCloseRelays ==
  ASSUME StateInv, RelayInv, NEW n \in Sess, Live(n), DoKeepClose(n),
         cli' \in [Sess -> ClientType], \A m \in Sess \ {n} : cli'[m] = cli[m],
         HeaderUnits = 1 => cli'[n].got = cli'[n].due,
         sess[n].server # NoFd => AtEnd(srv[sess[n].server])
  PROVE  RelayInv'
<1>1. /\ LeavesOthers(n) /\ sess'[n] = KeptSession(sess[n])
      /\ sess'[n].server # NoFd =>
           sess'[n].server = sess[n].server /\ srv'[sess[n].server] = srv[sess[n].server]
  BY KeepCloseKeeps
<1>2. sess'[n].state = "READ_REQUEST" /\ ~sess'[n].hdr
  BY <1>1, SessionFacts DEF KeptSession, SessionType
<1>3. RelayOK(sess'[n], cli'[n], srv'[sess'[n].server])
  BY <1>1, <1>2 DEF RelayOK, Waiting, Asking, Relaying
<1> QED
  BY <1>1, <1>3, RelayStep

LEMMA FetchRelays ==
  ASSUME StateInv, RelayInv, NEW n \in Sess, In(n, "READ_REQUEST"), NEW r \in Requests,
         Fetch(n, r), cli' \in [Sess -> ClientType], \A m \in Sess \ {n} : cli'[m] = cli[m],
         cli'[n].asked = r.host, cli'[n].got = 0, cli'[n].due = 0
  PROVE  RelayInv'
<1> DEFINE s == [sess[n] EXCEPT !.keep = r.keep, !.host = r.host]
           old == Replaced(s)
<1>1. LeavesOthers(n)
  BY FetchKeeps
<1>2. /\ sess[n] \in SessionType /\ sess \in [Sess -> SessionType]
      /\ sess[n].state = "READ_REQUEST" /\ ~sess[n].hdr
      /\ sess[n].server # NoFd => AtEnd(srv[sess[n].server])
  BY RelayFacts DEF RelayOK, Waiting, In
<1>3. /\ s \in SessionType /\ s.hdr = sess[n].hdr /\ s.server = sess[n].server
      /\ s.client = sess[n].client
  <2>1. r.host \in Hosts /\ r.keep \in BOOLEAN
    BY ProxyConstants DEF RequestType
  <2> QED
    BY <1>2, <2>1 DEF SessionType
<1>4. \/ /\ Reusable(s, r.host)
         /\ ChangeState(n, s, "CONNECTING", FALSE, FALSE, FALSE, TRUE)
         /\ UNCHANGED <<socknum, srv>>
      \/ \E f \in (Fds \ OwnedFds) \cup ({old} \ {NoFd}) :
              /\ sess' = [sess EXCEPT ![n] = [s EXCEPT !.server = f, !.state = "CONNECTING"]]
              /\ srv' = [Closed(old) EXCEPT ![f] = NewServer(r.host)]
  BY DEF Fetch
<1>5. CASE /\ Reusable(s, r.host)
           /\ ChangeState(n, s, "CONNECTING", FALSE, FALSE, FALSE, TRUE)
           /\ UNCHANGED <<socknum, srv>>
  <2> HIDE DEF s
  <2>1. sess'[n].state = "CONNECTING" /\ sess'[n].server = s.server /\ sess'[n].hdr = s.hdr
    BY <1>2, <1>3, <1>5, ChangedTo DEF Busy
  <2>2. s.server # NoFd
    BY <1>5 DEF Reusable
  <2>3. RelayOK(sess'[n], cli'[n], srv'[sess'[n].server])
    BY <1>2, <1>3, <1>5, <2>1, <2>2 DEF RelayOK, Waiting, Asking, Relaying
  <2> QED
    BY <1>1, <2>3, RelayStep
<1>6. ASSUME NEW f \in (Fds \ OwnedFds) \cup ({old} \ {NoFd}),
             sess' = [sess EXCEPT ![n] = [s EXCEPT !.server = f, !.state = "CONNECTING"]],
             srv' = [Closed(old) EXCEPT ![f] = NewServer(r.host)]
      PROVE  RelayInv'
  <2>1. f \in Fds
    <3>1. old \in {NoFd, s.server} /\ s.server \in Fds \cup {NoFd}
      BY <1>3, FieldTypes DEF Replaced
    <3> QED
      BY <1>6, <3>1
  <2> HIDE DEF s, old
  <2>2. sess'[n].state = "CONNECTING" /\ sess'[n].server = f /\ sess'[n].hdr = s.hdr
    BY <1>2, <1>3, <1>6 DEF SessionType
  <2>3. srv'[f] = NewServer(r.host)
    BY <1>6, <2>1 DEF Closed
  <2>4. AtEnd(srv'[f])
    BY <2>3, NewServerQuiet DEF AtEnd
  <2>5. RelayOK(sess'[n], cli'[n], srv'[sess'[n].server])
    BY <1>2, <1>3, <2>2, <2>4 DEF RelayOK, Waiting, Asking, Relaying
  <2> QED
    BY <1>1, <2>5, RelayStep
<1> QED
  BY <1>4, <1>5, <1>6

LEMMA ReadRequestRelays ==
  ASSUME StateInv, RelayInv, NEW n \in Sess, ReadRequest(n)
  PROVE  RelayInv'
<1>1. /\ In(n, "READ_REQUEST") /\ Live(n) /\ cli \in [Sess -> ClientType]
      /\ cli' \in [Sess -> ClientType] /\ cli[n] \in ClientType
      /\ sess[n].server # NoFd => AtEnd(srv[sess[n].server])
  <2>1. StateInv'
    BY ReadRequestKeeps
  <2>2. RelayOK(sess[n], cli[n], srv[sess[n].server]) /\ cli \in [Sess -> ClientType]
    BY RelayFacts
  <2> QED
    BY <2>1, <2>2 DEF ReadRequest, In, Live, StateInv, RelayOK, Waiting
<1>2. CASE DoClose(n)
  BY <1>1, <1>2, CloseRelays
<1>3. CASE UNCHANGED <<sess, rin, win, socknum, alive, cli, srv>>
  BY <1>3 DEF RelayInv
<1>4. ASSUME NEW k \in 1 .. Len(cli[n].unread),
             LET r == Head(cli[n].unread)
                 c == [cli[n] EXCEPT !.unread = SubSeq(@, k + 1, Len(@)), !.got = 0, !.due = 0]
             IN  IF r = Extra \/ r.kind = "bad" \/ (r.kind = "local" /\ ~r.keep)
                 THEN DoClose(n)
                 ELSE IF r.kind = "local"
                 THEN /\ DoKeepClose(n)
                      /\ \E full \in BOOLEAN :
                           cli' = [cli EXCEPT ![n] = [c EXCEPT !.waiting = FALSE, !.full = full,
                                                               !.asked = NoHost]]
                 ELSE /\ Fetch(n, r)
                      /\ cli' = [cli EXCEPT ![n] = [c EXCEPT !.asked = r.host]]
      PROVE  RelayInv'
  <2> DEFINE r == Head(cli[n].unread)
             u == SubSeq(cli[n].unread, k + 1, Len(cli[n].unread))
             d(full) == [cli[n] EXCEPT !.unread = u, !.got = 0, !.due = 0, !.waiting = FALSE,
                                       !.full = full, !.asked = NoHost]
             e == [cli[n] EXCEPT !.unread = u, !.got = 0, !.due = 0, !.asked = r.host]
  <2>1. r \in Requests \cup {Extra}
    <3>1. cli[n].unread \in Seq(Requests \cup {Extra})
      BY <1>1 DEF ClientType
    <3>2. Len(cli[n].unread) # 0
      BY <3>1
    <3>3. cli[n].unread # <<>>
      BY <3>1, <3>2
    <3> QED
      BY <3>1, <3>3, HeadTailProperties
  <2>2. \/ DoClose(n)
        \/ DoKeepClose(n) /\ \E full \in BOOLEAN : cli' = [cli EXCEPT ![n] = d(full)]
        \/ r # Extra /\ Fetch(n, r) /\ cli' = [cli EXCEPT ![n] = e]
    BY <1>4
  <2> HIDE DEF r, u
  <2>3. /\ \A full \in BOOLEAN : d(full).got = 0 /\ d(full).due = 0
        /\ e.got = 0 /\ e.due = 0 /\ e.asked = r.host
    BY <1>1 DEF ClientType
  <2> HIDE DEF d, e
  <2>4. CASE DoKeepClose(n) /\ \E full \in BOOLEAN : cli' = [cli EXCEPT ![n] = d(full)]
    <3>1. /\ \E full \in BOOLEAN : cli'[n] = d(full)
          /\ \A m \in Sess \ {n} : cli'[m] = cli[m]
      BY <1>1, <2>4
    <3> QED
      BY <1>1, <2>3, <2>4, <3>1, KeepCloseRelays
  <2>5. CASE r # Extra /\ Fetch(n, r) /\ cli' = [cli EXCEPT ![n] = e]
    <3>1. cli'[n] = e /\ \A m \in Sess \ {n} : cli'[m] = cli[m]
      BY <1>1, <2>5
    <3>2. r \in Requests
      BY <2>1, <2>5
    <3> QED
      BY <1>1, <2>3, <2>5, <3>1, <3>2, FetchRelays
  <2> QED
    BY <1>2, <2>2, <2>4, <2>5
<1> QED
  BY <1>2, <1>3, <1>4 DEF ReadRequest

LEMMA WriteRequestRelays ==
  ASSUME StateInv, RelayInv, NEW n \in Sess, WriteRequest(n)
  PROVE  RelayInv'
<1> DEFINE f == sess[n].server
           c == cli[n]
<1>1. /\ sess \in [Sess -> SessionType] /\ sess[n] \in SessionType /\ Live(n)
      /\ sess[n].state = "CONNECTING" /\ f \in Fds /\ cli \in [Sess -> ClientType]
      /\ srv \in [Fds -> ServerType]
  BY SessionFacts DEF WriteRequest, In, Busy
<1>2. /\ ~sess[n].hdr /\ AtEnd(srv[f])
      /\ sess[n].client # NoFd => c.got = 0 /\ c.due = 0
  BY <1>1, RelayFacts DEF RelayOK, Asking
<1>3. LeavesOthers(n)
  BY WriteRequestKeeps
<1>4. CASE DoClose(n)
  BY <1>1, <1>4, CloseRelays
<1>5. CASE /\ ChangeState(n, sess[n], "READING", TRUE, FALSE, TRUE, FALSE)
           /\ srv[f].up = "closed" /\ UNCHANGED <<srv, cli>>
  <2>1. /\ sess'[n].state = "READING" /\ sess'[n].client = sess[n].client
        /\ sess'[n].server = f /\ sess'[n].hdr = sess[n].hdr
    BY <1>1, <1>5, ChangedTo DEF Busy
  <2>2. RelayOK(sess'[n], cli'[n], srv'[f])
    BY <1>2, <1>5, <2>1 DEF RelayOK, Waiting, Asking, Relaying, Refused
  <2> QED
    BY <1>3, <2>1, <2>2, RelayStep
<1>6. ASSUME ChangeState(n, sess[n], "READING", TRUE, FALSE, TRUE, FALSE),
             NEW a \in Responses,
             srv' = [srv EXCEPT ![f].resp = a, ![f].sent = 0, ![f].pos = 0],
             cli' = IF sess[n].client = NoFd THEN cli ELSE [cli EXCEPT ![n].due = Units(a)]
      PROVE  RelayInv'
  <2>1. /\ sess'[n].state = "READING" /\ sess'[n].client = sess[n].client
        /\ sess'[n].server = f /\ sess'[n].hdr = sess[n].hdr
    BY <1>1, <1>6, ChangedTo DEF Busy
  <2>2. srv'[f].resp = a /\ srv'[f].pos = 0
    BY <1>1, <1>6 DEF ServerType
  <2>3. sess[n].client # NoFd => cli'[n].due = Units(a) /\ cli'[n].got = 0
    BY <1>1, <1>2, <1>6 DEF ClientType
  <2>4. a # Nothing /\ HeaderUnits > 0
    BY RelayFacts
  <2>5. InResponse(sess'[n], cli'[n], srv'[f])
    BY <1>2, <2>1, <2>2, <2>3, <2>4 DEF InResponse
  <2>6. RelayOK(sess'[n], cli'[n], srv'[f])
    BY <2>1, <2>5 DEF RelayOK, Waiting, Asking, Relaying
  <2> QED
    BY <1>3, <2>1, <2>6, RelayStep
<1> QED
  BY <1>4, <1>5, <1>6 DEF WriteRequest

(* What a read adds is counted, and is next for the client.                *)
LEMMA ReceivedRelays ==
  ASSUME NEW s \in SessionType, NEW a \in Responses, NEW pos \in Nat, NEW k \in Nat, k > 0,
         s.hdr => pos = HeaderUnits + s.rcvd /\ (s.keep => s.length = a.body),
         ~s.hdr => pos < HeaderUnits
  PROVE  LET t == Received(s, a, pos, k)
         IN  /\ t.hdr => pos + k = HeaderUnits + t.rcvd /\ (t.keep => t.length = a.body)
             /\ ~t.hdr => pos + k < HeaderUnits
             /\ t.buf = k
<1> DEFINE t == Received(s, a, pos, k)
<1>1. HeaderUnits \in Nat /\ s.rcvd \in Nat /\ s.keep \in BOOLEAN /\ s.hdr \in BOOLEAN
      /\ a.framed \in BOOLEAN
  BY ProxyConstants DEF SessionType, ResponseType
<1>2. CASE s.hdr
  <2>1. t = [s EXCEPT !.buf = k, !.rcvd = s.rcvd + k]
    BY <1>2 DEF Received
  <2> HIDE DEF t
  <2>2. t.buf = k /\ t.rcvd = s.rcvd + k /\ t.hdr /\ t.keep = s.keep /\ t.length = s.length
    BY <1>2, <2>1 DEF SessionType
  <2>3. pos + k = HeaderUnits + t.rcvd
    BY <1>1, <1>2, <2>2
  <2> QED
    BY <1>2, <2>2, <2>3 DEF t
<1>3. CASE ~s.hdr /\ pos + k < HeaderUnits
  <2>1. t = [s EXCEPT !.buf = k]
    BY <1>3 DEF Received
  <2> HIDE DEF t
  <2>2. t.buf = k /\ ~t.hdr
    BY <1>3, <2>1 DEF SessionType
  <2> QED
    BY <1>3, <2>2 DEF t
<1>4. CASE ~s.hdr /\ ~(pos + k < HeaderUnits)
  <2> DEFINE body == pos + k - HeaderUnits
             len == IF a.framed THEN a.body ELSE NoLength
             keep == s.keep /\ a.framed
             nokeep == s.nokeep \/ ~a.ka
  <2>1. t = [s EXCEPT !.buf = k, !.hdr = TRUE, !.rcvd = body, !.length = len,
                      !.keep = keep, !.nokeep = nokeep]
    BY <1>4 DEF Received
  <2>2. pos + k = HeaderUnits + body
    BY <1>1, <1>4
  <2>3. keep => len = a.body
    BY <1>1
  <2> HIDE DEF t, body, len, keep, nokeep
  <2>4. t.buf = k /\ t.hdr /\ t.rcvd = body /\ t.length = len /\ t.keep = keep
    BY <2>1 DEF SessionType
  <2> QED
    BY <2>2, <2>3, <2>4 DEF t
<1> QED
  BY <1>1, <1>2, <1>3, <1>4

LEMMA ReadServerRelays ==
  ASSUME StateInv, RelayInv, NEW n \in Sess, ReadServer(n)
  PROVE  RelayInv'
<1> DEFINE f == sess[n].server
           v == srv[f]
           c == cli[n]
<1>1. /\ sess \in [Sess -> SessionType] /\ sess[n] \in SessionType /\ Live(n)
      /\ sess[n].state = "READING" /\ f \in Fds /\ cli \in [Sess -> ClientType]
      /\ srv \in [Fds -> ServerType]
  BY SessionFacts DEF ReadServer, In, Busy
<1>2. LeavesOthers(n)
  BY ReadServerKeeps
<1>3. CASE DoClose(n)
  BY <1>1, <1>3, CloseRelays
<1>4. ASSUME NEW k \in 1 .. (v.sent - v.pos),
             LET s == Received(sess[n], v.resp, v.pos, k)
             IN  /\ IF s.hdr /\ s.client # NoFd
                    THEN ChangeState(n, s, "WRITING_CLIENT", FALSE, TRUE, FALSE, FALSE)
                    ELSE sess' = [sess EXCEPT ![n] = s] /\ UNCHANGED <<rin, win>>
                 /\ srv' = [srv EXCEPT ![f].pos = @ + k]
                 /\ UNCHANGED <<socknum, cli>>
      PROVE  RelayInv'
  <2> DEFINE s == Received(sess[n], v.resp, v.pos, k)
  <2>1. /\ v.pos \in Nat /\ v.sent \in Nat /\ v.resp \in Responses \cup {Nothing}
        /\ AtEnd(v) => v.sent = v.pos
        /\ Relaying(sess[n], c, v) /\ HeaderUnits \in Nat /\ HeaderUnits > 0
        /\ c.got \in Nat
    BY <1>1, RelayFacts DEF RelayOK, Busy
  <2>2. k \in Nat /\ k > 0 /\ v.sent # v.pos
    BY <1>4, <2>1
  <2>3. InResponse(sess[n], c, v) /\ v.resp \in Responses
    BY <1>1, <2>1, <2>2 DEF Relaying, Refused, InResponse
  <2>4. s \in SessionType /\ SameEnds(sess[n], s)
    BY <1>1, <2>1, <2>2, <2>3, ReceivedIs
  <2>5. /\ s.hdr => v.pos + k = HeaderUnits + s.rcvd /\ (s.keep => s.length = v.resp.body)
        /\ ~s.hdr => v.pos + k < HeaderUnits
        /\ s.buf = k
    BY <1>1, <2>1, <2>2, <2>3, ReceivedRelays DEF InResponse
  <2>6. /\ IF s.hdr /\ s.client # NoFd
           THEN ChangeState(n, s, "WRITING_CLIENT", FALSE, TRUE, FALSE, FALSE)
           ELSE sess' = [sess EXCEPT ![n] = s]
        /\ srv' = [srv EXCEPT ![f].pos = @ + k] /\ cli' = cli
    BY <1>4
  <2> HIDE DEF s
  <2>7. srv'[f].resp = v.resp /\ srv'[f].pos = v.pos + k
    BY <1>1, <2>6 DEF ServerType
  <2>8. sess[n].client # NoFd => c.due = Units(v.resp) /\ (HeaderUnits = 1 => c.got = v.pos)
    BY <1>1, <2>3 DEF InResponse
  <2>9. CASE s.hdr /\ s.client # NoFd
             /\ ChangeState(n, s, "WRITING_CLIENT", FALSE, TRUE, FALSE, FALSE)
    <3>1. /\ sess'[n].state = "WRITING_CLIENT"
          /\ sess'[n].client = s.client /\ sess'[n].server = s.server
          /\ sess'[n].hdr = s.hdr /\ sess'[n].keep = s.keep /\ sess'[n].rcvd = s.rcvd
          /\ sess'[n].length = s.length /\ sess'[n].buf = s.buf
      BY <1>1, <2>4, <2>9, ChangedTo DEF Busy
    <3>2. s.client = sess[n].client /\ s.server = f
      BY <2>4 DEF SameEnds
    <3>3. InResponse(sess'[n], cli'[n], srv'[f])
      BY <2>3, <2>5, <2>6, <2>7, <2>8, <2>9, <3>1, <3>2 DEF InResponse
    <3>4. RelayOK(sess'[n], cli'[n], srv'[f])
      BY <2>9, <3>1, <3>3 DEF RelayOK, Waiting, Asking, Relaying
    <3> QED
      BY <1>2, <3>1, <3>2, <3>4, RelayStep
  <2>10. CASE ~(s.hdr /\ s.client # NoFd) /\ sess' = [sess EXCEPT ![n] = s]
    <3>1. /\ sess'[n] = s /\ s.client = sess[n].client /\ s.server = f /\ s.state = "READING"
      BY <1>1, <2>4, <2>10 DEF SameEnds
    <3>2. HeaderUnits = 1 => s.hdr
      BY <2>1, <2>2, <2>5
    <3>3. InResponse(s, c, srv'[f])
      BY <2>3, <2>5, <2>7, <2>8, <2>10, <3>1, <3>2 DEF InResponse
    <3>4. RelayOK(sess'[n], cli'[n], srv'[f])
      BY <2>6, <3>1, <3>3 DEF RelayOK, Waiting, Asking, Relaying
    <3> QED
      BY <1>2, <3>1, <3>4, RelayStep
  <2> QED
    BY <2>6, <2>9, <2>10
<1> QED
  BY <1>3, <1>4 DEF ReadServer

(* A session that is in a response turns to another of its sockets.        *)
LEMMA TurnRelays ==
  ASSUME StateInv, RelayInv, NEW n \in Sess, LeavesOthers(n),
         sess[n].state \in {"READING", "WRITING_SERVER"},
         NEW state \in {"READING", "WRITING_SERVER"},
         NEW a, NEW b, NEW c, NEW d, ChangeState(n, sess[n], state, a, b, c, d),
         srv' = srv, cli'[n].got = cli[n].got, cli'[n].due = cli[n].due
  PROVE  RelayInv'
<1>1. /\ sess \in [Sess -> SessionType] /\ sess[n] \in SessionType
      /\ Relaying(sess[n], cli[n], srv[sess[n].server])
  BY RelayFacts DEF RelayOK
<1>2. /\ sess'[n].state = state
      /\ sess'[n].client = sess[n].client /\ sess'[n].server = sess[n].server
      /\ sess'[n].hdr = sess[n].hdr /\ sess'[n].keep = sess[n].keep
      /\ sess'[n].rcvd = sess[n].rcvd
      /\ sess'[n].length = sess[n].length /\ sess'[n].buf = sess[n].buf
  <2>1. state \in Busy \cup {"READ_REQUEST"}
    BY DEF Busy
  <2> QED
    BY <1>1, <2>1, ChangedTo
<1>3. /\ Refused(sess[n], cli[n], srv[sess[n].server]) =>
           Refused(sess'[n], cli'[n], srv'[sess'[n].server])
      /\ InResponse(sess[n], cli[n], srv[sess[n].server]) =>
           InResponse(sess'[n], cli'[n], srv'[sess'[n].server])
  BY <1>2 DEF Refused, InResponse
<1>4. RelayOK(sess'[n], cli'[n], srv'[sess'[n].server])
  BY <1>1, <1>2, <1>3 DEF RelayOK, Waiting, Asking, Relaying
<1> QED
  BY <1>4, RelayStep

LEMMA ReadClientRelays ==
  ASSUME StateInv, RelayInv, NEW n \in Sess, ReadClient(n)
  PROVE  RelayInv'
<1>1. LeavesOthers(n) /\ Live(n) /\ sess[n].state = "READING" /\ cli \in [Sess -> ClientType]
  BY ReadClientKeeps, SessionFacts DEF ReadClient, In
<1>2. CASE DoClose(n)
  BY <1>1, <1>2, CloseRelays
<1>3. CASE /\ ChangeState(n, sess[n], "WRITING_SERVER", FALSE, FALSE, FALSE, TRUE)
           /\ cli' = [cli EXCEPT ![n].unread = <<>>]
           /\ srv' = srv
  <2>1. cli'[n].got = cli[n].got /\ cli'[n].due = cli[n].due
    BY <1>1, <1>3 DEF ClientType
  <2> QED
    BY <1>1, <1>3, <2>1, TurnRelays
<1> QED
  BY <1>2, <1>3 DEF ReadClient

LEMMA WriteServerRelays ==
  ASSUME StateInv, RelayInv, NEW n \in Sess, WriteServer(n)
  PROVE  RelayInv'
<1>1. LeavesOthers(n) /\ sess[n].state = "WRITING_SERVER" /\ cli' = cli /\ srv' = srv
  BY WriteServerKeeps DEF WriteServer, In
<1>2. CASE ChangeState(n, sess[n], "READING", TRUE, FALSE, TRUE, FALSE)
  BY <1>1, <1>2, TurnRelays
<1>3. CASE UNCHANGED <<sess, rin, win>>
  BY <1>1, <1>3 DEF RelayInv
<1> QED
  BY <1>2, <1>3 DEF WriteServer

LEMMA WriteClientRelays ==
  ASSUME StateInv, RelayInv, NEW n \in Sess, WriteClient(n)
  PROVE  RelayInv'
<1>0. CASE DoClose(n)
  <2>1. Live(n)
    BY SessionFacts DEF WriteClient, In
  <2> QED
    BY <1>0, <2>1, CloseRelays
<1>a. SUFFICES ASSUME NEW full \in BOOLEAN, Written(n, full) PROVE RelayInv'
  BY <1>0 DEF WriteClient, Written
<1> DEFINE f == sess[n].server
           v == srv[f]
           c == [cli[n] EXCEPT !.got = @ + sess[n].buf, !.full = full]
           d == [c EXCEPT !.waiting = FALSE, !.asked = NoHost]
           s == [sess[n] EXCEPT !.buf = 0]
<1>1. /\ sess \in [Sess -> SessionType] /\ sess[n] \in SessionType /\ Live(n)
      /\ sess[n].state = "WRITING_CLIENT" /\ cli \in [Sess -> ClientType] /\ cli[n] \in ClientType
      /\ LeavesOthers(n) /\ cli' \in [Sess -> ClientType]
  <2>1. StateInv' /\ LeavesOthers(n)
    BY WriteClientKeeps
  <2> QED
    BY <2>1, SessionFacts DEF WriteClient, In, StateInv
<1>2. /\ sess[n].hdr /\ sess[n].client # NoFd /\ InResponse(sess[n], cli[n], v)
      /\ v.resp \in Responses
      /\ cli[n].due = Units(v.resp) /\ v.pos = HeaderUnits + sess[n].rcvd
      /\ HeaderUnits = 1 => cli[n].got + sess[n].buf = v.pos
      /\ sess[n].keep => sess[n].length = v.resp.body
  <2>1. Relaying(sess[n], cli[n], v) /\ v.resp \in Responses \cup {Nothing}
    BY <1>1, RelayFacts DEF RelayOK, Busy
  <2> QED
    BY <1>1, <2>1 DEF Relaying, Refused, InResponse
<1>3. /\ c.got = cli[n].got + sess[n].buf /\ c.due = cli[n].due
      /\ d.got = cli[n].got + sess[n].buf /\ d.due = cli[n].due
  BY <1>1 DEF ClientType
<1>4. /\ s \in SessionType /\ s.client = sess[n].client /\ s.server = f /\ s.hdr = sess[n].hdr
      /\ s.keep = sess[n].keep /\ s.rcvd = sess[n].rcvd /\ s.length = sess[n].length
  BY <1>1 DEF SessionType
<1> HIDE DEF c, d, s
<1>6. CASE Complete(sess[n]) /\ DoKeepClose(n) /\ cli' = [cli EXCEPT ![n] = d]
  <2>1. AtEnd(v) /\ v.pos = Units(v.resp)
    <3>1. sess[n].rcvd = v.resp.body
      BY <1>2, <1>6 DEF Complete
    <3>2. Units(v.resp) = HeaderUnits + v.resp.body
      BY <1>2, RelayFacts
    <3> QED
      BY <1>2, <3>1, <3>2 DEF AtEnd
  <2>2. cli'[n] = d /\ \A m \in Sess \ {n} : cli'[m] = cli[m]
    BY <1>1, <1>6
  <2>3. HeaderUnits = 1 => cli'[n].got = cli'[n].due
    BY <1>2, <1>3, <2>1, <2>2
  <2> QED
    BY <1>1, <1>6, <2>1, <2>2, <2>3, KeepCloseRelays
<1>7. CASE /\ ChangeState(n, s, "READING", TRUE, FALSE, TRUE, FALSE)
           /\ cli' = [cli EXCEPT ![n] = c]
           /\ srv' = srv
  <2>1. /\ sess'[n].state = "READING"
        /\ sess'[n].client = s.client /\ sess'[n].server = s.server
        /\ sess'[n].hdr = s.hdr /\ sess'[n].keep = s.keep /\ sess'[n].rcvd = s.rcvd
        /\ sess'[n].length = s.length
    <3>1. ChangeState(n, s, "READING", TRUE, FALSE, TRUE, FALSE)
      BY <1>7
    <3>2. "READING" \in Busy \cup {"READ_REQUEST"}
      BY DEF Busy
    <3> HIDE DEF f, v
    <3> QED
      BY <1>1, <1>4, <3>1, <3>2, ChangedTo
  <2>2. cli'[n] = c
    BY <1>1, <1>7
  <2>3. InResponse(sess'[n], cli'[n], srv'[f])
    BY <1>2, <1>3, <1>4, <1>7, <2>1, <2>2 DEF InResponse
  <2>4. RelayOK(sess'[n], cli'[n], srv'[f])
    BY <2>1, <2>3 DEF RelayOK, Waiting, Asking, Relaying
  <2> QED
    BY <1>1, <1>4, <2>1, <2>4, RelayStep
<1> QED
  BY <1>a, <1>6, <1>7 DEF Written, c, d, s

LEMMA HandleRelays ==
  ASSUME StateInv, RelayInv, NEW n \in Sess, Handle(n)
  PROVE  RelayInv'
<1>1. CASE NothingReady(n)
  BY <1>1 DEF NothingReady, RelayInv
<1>2. CASE IdleServer(n)
  <2>1. Live(n) /\ DoClose(n)
    BY <1>2 DEF IdleServer, In, Live
  <2> QED
    BY <2>1, CloseRelays
<1> QED
  BY <1>1, <1>2, ReadRequestRelays, WriteRequestRelays, ReadServerRelays, ReadClientRelays,
     WriteServerRelays, WriteClientRelays DEF Handle

LEMMA LoopRelays ==
  ASSUME StateInv, RelayInv, Loop
  PROVE  RelayInv'
<1>1. CASE Select \/ AcceptNothing
  BY <1>1 DEF Select, AcceptNothing, RelayInv
<1>2. CASE Accept
  BY <1>2, AcceptRelays DEF Accept
<1>3. CASE OperatorVisit
  <2>1. CASE UNCHANGED <<sess, rin, win, socknum, alive, cli, srv>>
    BY <2>1 DEF RelayInv
  <2> QED
    BY <1>3, <2>1, CloseRelays DEF OperatorVisit
<1> QED
  BY <1>1, <1>2, <1>3, HandleRelays DEF Loop

-----------------------------------------------------------------------------
(* The world: it may send and close, but not change what was read.         *)

LEMMA ClientsRelay ==
  ASSUME StateInv, RelayInv, UNCHANGED <<sess, srv>>,
         \A n \in Sess : cli'[n].got = cli[n].got /\ cli'[n].due = cli[n].due
  PROVE  RelayInv'
<1>1. ASSUME NEW n \in Sess PROVE RelayOK(sess[n], cli'[n], srv[sess[n].server])
  <2>1. RelayOK(sess[n], cli[n], srv[sess[n].server])
    BY DEF RelayInv
  <2> QED
    BY <2>1 DEF RelayOK, Waiting, Asking, Relaying, Refused, InResponse
<1> QED
  BY <1>1 DEF RelayInv

LEMMA ServersRelay ==
  ASSUME StateInv, RelayInv, UNCHANGED <<sess, cli>>,
         \A f \in Fds : /\ srv'[f].resp = srv[f].resp /\ srv'[f].pos = srv[f].pos
                        /\ srv[f].up = "closed" => srv'[f].up = "closed"
  PROVE  RelayInv'
<1>1. ASSUME NEW n \in Sess PROVE RelayOK(sess[n], cli[n], srv'[sess[n].server])
  <2>1. /\ RelayOK(sess[n], cli[n], srv[sess[n].server])
        /\ SessionOK(sess[n], srv) /\ sess[n].server \in Fds \cup {NoFd}
    BY SessionFacts DEF RelayInv
  <2>2. CASE sess[n].server \in Fds
    BY <2>1, <2>2 DEF RelayOK, Waiting, Asking, Relaying, Refused, InResponse, AtEnd
  <2>3. CASE sess[n].server = NoFd
    <3>1. sess[n].state \notin {"CONNECTING", "READING", "WRITING_SERVER", "WRITING_CLIENT"}
      BY <2>1, <2>3 DEF SessionOK, Busy
    <3> QED
      BY <2>1, <2>3, <3>1 DEF RelayOK, Waiting, Asking, Relaying
  <2> QED
    BY <2>1, <2>2, <2>3
<1> QED
  BY <1>1 DEF RelayInv

LEMMA WorldRelays ==
  ASSUME StateInv, RelayInv, World
  PROVE  RelayInv'
<1>1. cli \in [Sess -> ClientType] /\ srv \in [Fds -> ServerType]
  BY DEF StateInv, Tied
<1>2. CASE ClientConnects
  BY <1>2 DEF ClientConnects, proxyVars, RelayInv
<1>3. ASSUME NEW n \in Sess,
             ClientAsks(n) \/ ClientSendsExtra(n) \/ ClientCloses(n) \/ ClientReads(n)
      PROVE  RelayInv'
  <2>1. UNCHANGED <<sess, srv>>
    BY <1>3 DEF ClientAsks, ClientSendsExtra, ClientCloses, ClientReads, proxyVars
  <2>2. \A m \in Sess : cli'[m].got = cli[m].got /\ cli'[m].due = cli[m].due
    <3>1. CASE ClientAsks(n)
      <4>1. PICK r \in Requests :
              cli' = [cli EXCEPT ![n].unread = Append(@, r), ![n].waiting = TRUE]
        BY <3>1 DEF ClientAsks
      <4>2. cli'[n] = [cli[n] EXCEPT !.unread = Append(@, r), !.waiting = TRUE]
            /\ \A m \in Sess \ {n} : cli'[m] = cli[m]
        BY <1>1, <4>1
      <4>3. cli[n] \in ClientType
        BY <1>1
      <4>4. cli'[n].got = cli[n].got /\ cli'[n].due = cli[n].due
        BY <4>2, <4>3 DEF ClientType
      <4> QED
        BY <4>2, <4>4
    <3>2. CASE ClientSendsExtra(n)
      <4>1. cli'[n] = [cli[n] EXCEPT !.unread = Append(@, Extra)]
            /\ \A m \in Sess \ {n} : cli'[m] = cli[m]
        BY <1>1, <3>2 DEF ClientSendsExtra
      <4> QED
        BY <1>1, <4>1 DEF ClientType
    <3>3. CASE ClientCloses(n)
      BY <1>1, <3>3 DEF ClientCloses, ClientType
    <3>4. CASE ClientReads(n)
      <4>1. cli'[n] = [cli[n] EXCEPT !.full = FALSE]
            /\ \A m \in Sess \ {n} : cli'[m] = cli[m]
        BY <1>1, <3>4 DEF ClientReads
      <4> QED
        BY <1>1, <4>1 DEF ClientType
    <3> QED
      BY <1>3, <3>1, <3>2, <3>3, <3>4
  <2> QED
    BY <2>1, <2>2, ClientsRelay
<1>4. ASSUME NEW f \in Fds, ServerConnects(f) \/ ServerSends(f) \/ ServerCloses(f)
      PROVE  RelayInv'
  <2>1. UNCHANGED <<sess, cli>>
    BY <1>4 DEF ServerConnects, ServerSends, ServerCloses, proxyVars
  <2>2. \A g \in Fds : /\ srv'[g].resp = srv[g].resp /\ srv'[g].pos = srv[g].pos
                       /\ srv[g].up = "closed" => srv'[g].up = "closed"
    BY <1>1, <1>4 DEF ServerConnects, ServerSends, ServerCloses, ServerType
  <2> QED
    BY <2>1, <2>2, ServersRelay
<1> QED
  BY <1>2, <1>3, <1>4 DEF World

-----------------------------------------------------------------------------
(* The specification                                                       *)

LEMMA InitRelay == Init => RelayInv
<1> SUFFICES ASSUME Init, NEW n \in Sess
             PROVE  RelayOK(sess[n], cli[n], srv[sess[n].server])
  BY DEF RelayInv
<1>1. sess[n].state = "NONE"
  BY NewSessionIs DEF Init
<1> QED
  BY <1>1, NoSessionRelays

LEMMA NextRelay == LoopInv /\ RelayInv /\ [Next]_vars => RelayInv'
<1> SUFFICES ASSUME StateInv, RelayInv, [Next]_vars PROVE RelayInv'
  BY DEF LoopInv
<1>1. CASE UNCHANGED vars
  BY <1>1 DEF vars, RelayInv
<1>2. CASE Dead
  BY <1>1, <1>2 DEF Dead
<1> QED
  BY <1>1, <1>2, LoopRelays, WorldRelays DEF Next

(* The invariant of the relay holds in every state.                        *)
THEOREM RelayInvariant == Spec => []RelayInv
<1> QED
  BY InitRelay, NextRelay, LoopInvariant, PTL DEF Spec

(* A server connection that do_keep_close kept is only used again when     *)
(* nothing of the response before is left in it, whatever the server and   *)
(* the sizes of the reads did.                                             *)
THEOREM ReuseIsClean == Spec => []CleanReuse
<1>1. LoopInv /\ RelayInv => CleanReuse
  <2> SUFFICES ASSUME StateInv, RelayInv, NEW n \in Sess, sess[n].state = "CONNECTING",
                      srv[sess[n].server].resp # Nothing
               PROVE  LET v == srv[sess[n].server]
                      IN  v.pos = Units(v.resp) /\ v.sent = v.pos
    BY DEF LoopInv, CleanReuse, In
  <2> DEFINE v == srv[sess[n].server]
  <2>1. v \in ServerType /\ QuietServer(v)
    BY SessionFacts DEF Busy, Quiet
  <2>2. v.pos = Units(v.resp)
    BY DEF RelayInv, RelayOK, Asking, AtEnd
  <2>3. v.pos <= v.sent /\ v.sent <= Units(v.resp) /\ v.pos \in Nat /\ v.sent \in Nat
    BY <2>1 DEF QuietServer, ServerType
  <2>4. v.sent = v.pos
    BY <2>2, <2>3
  <2> QED
    BY <2>2, <2>4
<1> QED
  BY <1>1, LoopInvariant, RelayInvariant, PTL

(* A session goes back to READ_REQUEST only when its client has the whole  *)
(* response, if headers arrive in one piece.                               *)
THEOREM KeptWhenWhole ==
  ASSUME HeaderUnits = 1
  PROVE  Spec => []KeptAfterWhole
<1>1. RelayInv => KeptAfterWhole
  BY DEF RelayInv, RelayOK, Waiting, KeptAfterWhole, In
<1> QED
  BY <1>1, RelayInvariant, PTL

(* What the client got, followed by BUF, is what was read of the response, *)
(* whatever interrupts the relay, if headers arrive in one piece.          *)
THEOREM RelaysInOrder ==
  ASSUME HeaderUnits = 1
  PROVE  Spec => []RelayInOrder
<1>1. RelayInv => RelayInOrder
  <2> SUFFICES ASSUME RelayInv, NEW n \in Sess, sess[n].client # NoFd,
                      sess[n].state \in {"READING", "WRITING_SERVER", "WRITING_CLIENT"},
                      cli[n].due # 0
               PROVE  IF sess[n].state = "WRITING_CLIENT"
                      THEN cli[n].got + sess[n].buf = srv[sess[n].server].pos
                      ELSE cli[n].got = srv[sess[n].server].pos
    BY DEF RelayInOrder, In
  <2>1. InResponse(sess[n], cli[n], srv[sess[n].server])
    BY DEF RelayInv, RelayOK, Relaying, Refused
  <2> QED
    BY <2>1 DEF InResponse
<1> QED
  BY <1>1, RelayInvariant, PTL
=============================================================================
