-------------------------- MODULE HttpProxyProofs --------------------------
(***************************************************************************)
(* Proofs about the select loop, for any number of sessions, descriptors,  *)
(* hosts, requests and responses: who owns which socket, what select waits *)
(* for, and which server is asked.  What holds of the session table, the   *)
(* masks and the server connections is stated of values S, R, W, V, so     *)
(* that a handler can be followed through do_close and findprefetch.       *)
(***************************************************************************)
EXTENDS HttpProxy, FiniteSetTheorems, SequenceTheorems, TLAPS

HasFd(S, n, f) == f = S[n].client \/ f = S[n].server

(* The sockets of all sessions, and of all but n.                          *)
Owned(S) == {f \in Fds : \E n \in Sess : HasFd(S, n, f)}
Others(S, n) == {f \in Fds : \E m \in Sess \ {n} : HasFd(S, m, f)}

(* What one session keeps to: it has the sockets its state needs, two      *)
(* different ones, and its server connection leads to its host; one that   *)
(* waits for a request has a server connection only from a request before. *)
SessionOK(s, V) ==
  /\ s \in SessionType
  /\ s.state = "NONE" => s.client = NoFd /\ s.server = NoFd
  /\ s.state \in Busy => s.server # NoFd
  /\ s.client = s.server => s.client = NoFd
  /\ s.server # NoFd => V[s.server].host = s.host
  /\ s.state = "READ_REQUEST" /\ s.server # NoFd => s.kept /\ s.kahost = s.host

(* Whether the session s has to wait for reading, or for writing, f.       *)
Reads(s, f) == s.state \in {"READ_REQUEST", "READING"} /\ f \in {s.client, s.server}
Writes(s, f) == \/ s.state = "WRITING_CLIENT" /\ f = s.client
                \/ s.state \in {"CONNECTING", "WRITING_SERVER"} /\ f = s.server

Tied(S, R, W, V) ==
  /\ S \in [Sess -> SessionType] /\ V \in [Fds -> ServerType]
  /\ R \subseteq Fds /\ W \subseteq Fds
  /\ \A n \in Sess : SessionOK(S[n], V)
  /\ \A n, m \in Sess, f \in Fds : HasFd(S, n, f) /\ HasFd(S, m, f) => n = m
  /\ \A f \in Fds : V[f].up # "none" <=> \E n \in Sess : f = S[n].server
  /\ \A f \in Fds : f \in R <=> \E n \in Sess : Reads(S[n], f)
  /\ \A f \in Fds : f \in W <=> \E n \in Sess : Writes(S[n], f)

-----------------------------------------------------------------------------
(* Sessions and their sockets                                              *)

LEMMA FieldTypes ==
  ASSUME NEW s \in SessionType
  PROVE  /\ s.client \in Fds \cup {NoFd} /\ s.server \in Fds \cup {NoFd}
         /\ s.state \in Busy \cup {"NONE", "READ_REQUEST"}
         /\ s.host \in Hosts \cup {NoHost} /\ s.kahost \in Hosts \cup {NoHost}
BY DEF SessionType

(* The session s, the masks R2 and W2 and the server connections V2 fit    *)
(* those of all sessions but n.                                            *)
Fits(S, n, s, R, W, V, R2, W2, V2) ==
  /\ R2 \in SUBSET Fds /\ W2 \in SUBSET Fds /\ V2 \in [Fds -> ServerType]
  /\ SessionOK(s, V2)
  /\ s.client \notin Others(S, n) /\ s.server \notin Others(S, n)
  /\ \A f \in Others(S, n) : /\ V2[f] = V[f]
                             /\ f \in R2 <=> f \in R
                             /\ f \in W2 <=> f \in W
  /\ \A f \in Fds \ Others(S, n) : /\ V2[f].up # "none" <=> f = s.server
                                   /\ f \in R2 <=> Reads(s, f)
                                   /\ f \in W2 <=> Writes(s, f)

(* If one session changes, only what concerns it has to be looked at.      *)
LEMMA OneSession ==
  ASSUME NEW S, NEW R, NEW W, NEW V, Tied(S, R, W, V), NEW n \in Sess,
         NEW s, NEW R2, NEW W2, NEW V2, Fits(S, n, s, R, W, V, R2, W2, V2)
  PROVE  Tied([S EXCEPT ![n] = s], R2, W2, V2)
<1> USE DEF Fits
<1> DEFINE S2 == [S EXCEPT ![n] = s]
<1>1. /\ S2 \in [Sess -> SessionType] /\ S2[n] = s
      /\ \A m \in Sess \ {n} : S2[m] = S[m]
  BY DEF Tied, SessionOK
<1> HIDE DEF S2
<1>2. \A m \in Sess \ {n} : /\ SessionOK(S[m], V)
                            /\ S[m].client \in Fds \cup {NoFd} /\ S[m].server \in Fds \cup {NoFd}
                            /\ \A f \in Fds : HasFd(S, m, f) => f \in Others(S, n)
  BY FieldTypes DEF Tied, SessionOK, Others
<1>3. \A m \in Sess : SessionOK(S2[m], V2)
  <2>1. ASSUME NEW m \in Sess, m # n PROVE SessionOK(S[m], V2)
    <3>1. S[m].server # NoFd => V2[S[m].server] = V[S[m].server]
      BY <1>2, <2>1 DEF HasFd
    <3> QED
      BY <1>2, <2>1, <3>1 DEF SessionOK
  <2> QED
    BY <1>1, <2>1
<1>4. \A f \in Fds : HasFd(S2, n, f) => f \notin Others(S, n)
  BY <1>1 DEF HasFd
<1>5. \A k, m \in Sess, f \in Fds : HasFd(S2, k, f) /\ HasFd(S2, m, f) => k = m
  <2>1. \A m \in Sess \ {n}, f \in Fds : HasFd(S2, m, f) <=> HasFd(S, m, f)
    BY <1>1 DEF HasFd
  <2> QED
    BY <1>2, <1>4, <2>1 DEF Tied
<1>6. \A f \in Fds : V2[f].up # "none" <=> \E m \in Sess : f = S2[m].server
  <2>1. ASSUME NEW f \in Others(S, n) PROVE V2[f].up # "none" <=> \E m \in Sess : f = S2[m].server
    <3>1. f \in Fds /\ V2[f] = V[f] /\ f # s.server /\ f # S[n].server
      <4>1. PICK m \in Sess \ {n} : HasFd(S, m, f)
        BY DEF Others
      <4>2. f # S[n].server
        BY <4>1 DEF Others, Tied, HasFd
      <4> QED
        BY <4>2 DEF Others
    <3> QED
      BY <1>1, <3>1 DEF Tied
  <2>2. ASSUME NEW f \in Fds \ Others(S, n) PROVE V2[f].up # "none" <=> \E m \in Sess : f = S2[m].server
    <3>1. \A m \in Sess \ {n} : f # S2[m].server
      BY <1>1, <1>2 DEF HasFd
    <3> QED
      BY <1>1, <3>1
  <2> QED
    BY <2>1, <2>2
<1>7. \A f \in Fds : f \in R2 <=> \E m \in Sess : Reads(S2[m], f)
  <2>1. ASSUME NEW f \in Others(S, n) PROVE f \in R2 <=> \E m \in Sess : Reads(S2[m], f)
    <3>1. PICK m \in Sess \ {n} : HasFd(S, m, f)
      BY DEF Others
    <3>2. f \in Fds /\ ~HasFd(S, n, f) /\ f # s.client /\ f # s.server
      BY <3>1 DEF Others, Tied
    <3>3. ~Reads(S[n], f) /\ ~Reads(s, f)
      BY <3>2 DEF Reads, HasFd
    <3> QED
      BY <1>1, <3>2, <3>3 DEF Tied
  <2>2. ASSUME NEW f \in Fds \ Others(S, n) PROVE f \in R2 <=> \E m \in Sess : Reads(S2[m], f)
    <3>1. \A m \in Sess \ {n} : ~Reads(S2[m], f)
      BY <1>1, <1>2 DEF HasFd, Reads
    <3> QED
      BY <1>1, <3>1
  <2> QED
    BY <2>1, <2>2
<1>8. \A f \in Fds : f \in W2 <=> \E m \in Sess : Writes(S2[m], f)
  <2>1. ASSUME NEW f \in Others(S, n) PROVE f \in W2 <=> \E m \in Sess : Writes(S2[m], f)
    <3>1. PICK m \in Sess \ {n} : HasFd(S, m, f)
      BY DEF Others
    <3>2. f \in Fds /\ ~HasFd(S, n, f) /\ f # s.client /\ f # s.server
      BY <3>1 DEF Others, Tied
    <3>3. ~Writes(S[n], f) /\ ~Writes(s, f)
      BY <3>2 DEF Writes, HasFd
    <3> QED
      BY <1>1, <3>2, <3>3 DEF Tied
  <2>2. ASSUME NEW f \in Fds \ Others(S, n) PROVE f \in W2 <=> \E m \in Sess : Writes(S2[m], f)
    <3>1. \A m \in Sess \ {n} : ~Writes(S2[m], f)
      BY <1>1, <1>2 DEF HasFd, Writes
    <3> QED
      BY <1>1, <3>1
  <2> QED
    BY <2>1, <2>2
<1>9. Tied(S2, R2, W2, V2)
  BY <1>1, <1>3, <1>5, <1>6, <1>7, <1>8 DEF Tied
<1> QED
  BY <1>9 DEF S2

(* A session owns the sockets that no other session has.                   *)
LEMMA OwnAndOthers ==
  ASSUME NEW S, NEW R, NEW W, NEW V, Tied(S, R, W, V), NEW n \in Sess
  PROVE  /\ Owned(S) = Others(S, n) \cup ({S[n].client, S[n].server} \ {NoFd})
         /\ S[n].client \notin Others(S, n) /\ S[n].server \notin Others(S, n)
         /\ S[n].client \in Fds \cup {NoFd} /\ S[n].server \in Fds \cup {NoFd}
         /\ Others(S, n) \subseteq Fds
<1>1. S[n].client \in Fds \cup {NoFd} /\ S[n].server \in Fds \cup {NoFd}
  BY FieldTypes DEF Tied
<1>2. \A f \in Fds : HasFd(S, n, f) => f \notin Others(S, n)
  BY DEF Tied, Others
<1>3. NoFd \notin Others(S, n) /\ NoFd \notin Fds
  BY ProxyConstants DEF Others
<1>4. \A f \in Fds : f \in Owned(S) <=> f \in Others(S, n) \/ HasFd(S, n, f)
  BY DEF Owned, Others
<1>5. S[n].client \notin Others(S, n) /\ S[n].server \notin Others(S, n)
  BY <1>1, <1>2, <1>3 DEF HasFd
<1>6. Owned(S) = Others(S, n) \cup ({S[n].client, S[n].server} \ {NoFd})
  <2>1. Owned(S) \subseteq Fds /\ Others(S, n) \subseteq Fds
    BY DEF Owned, Others
  <2> QED
    BY <1>1, <1>3, <1>4, <2>1 DEF HasFd
<1> QED
  BY <1>1, <1>5, <1>6 DEF Others

LEMMA SocketsOfIs ==
  ASSUME NEW s, s.client = s.server => s.client = NoFd
  PROVE  /\ SocketsOf(s) \in Nat /\ IsFiniteSet({s.client, s.server} \ {NoFd})
         /\ SocketsOf(s) = (IF s.client = NoFd THEN 0 ELSE 1) + (IF s.server = NoFd THEN 0 ELSE 1)
<1> DEFINE T == {s.client, s.server} \ {NoFd}
<1>1. CASE s.client = NoFd /\ s.server = NoFd
  <2>1. T = {}
    BY <1>1
  <2> QED
    BY <1>1, <2>1, FS_EmptySet DEF SocketsOf
<1>2. CASE s.client = NoFd /\ s.server # NoFd
  <2>1. T = {s.server}
    BY <1>2
  <2>2. IsFiniteSet(T) /\ Cardinality(T) = 1
    BY <2>1, FS_Singleton
  <2> QED
    BY <1>2, <2>2 DEF SocketsOf
<1>3. CASE s.client # NoFd /\ s.server = NoFd
  <2>1. T = {s.client}
    BY <1>3
  <2>2. IsFiniteSet(T) /\ Cardinality(T) = 1
    BY <2>1, FS_Singleton
  <2> QED
    BY <1>3, <2>2 DEF SocketsOf
<1>4. CASE s.client # NoFd /\ s.server # NoFd
  <2>1. T = {s.client} \cup {s.server} /\ s.server \notin {s.client}
    BY <1>4
  <2>2. IsFiniteSet({s.client}) /\ Cardinality({s.client}) = 1
    BY FS_Singleton
  <2>3. IsFiniteSet(T) /\ Cardinality(T) = 2
    <3> HIDE DEF T
    <3> QED
      BY <2>1, <2>2, FS_AddElement
  <2> QED
    BY <1>4, <2>3 DEF SocketsOf
<1> QED
  BY <1>1, <1>2, <1>3, <1>4

(* The number of sockets, split into those of one session and the others.  *)
LEMMA CountSplit ==
  ASSUME NEW S, NEW R, NEW W, NEW V, Tied(S, R, W, V), NEW n \in Sess
  PROVE  /\ Cardinality(Others(S, n)) \in Nat /\ Cardinality(Owned(S)) \in Nat
         /\ SocketsOf(S[n]) \in Nat
         /\ Cardinality(Owned(S)) = Cardinality(Others(S, n)) + SocketsOf(S[n])
<1> DEFINE T == {S[n].client, S[n].server} \ {NoFd}
           O == Others(S, n)
<1>1. Owned(S) = O \cup T /\ O \cap T = {} /\ O \in SUBSET Fds
  BY OwnAndOthers
<1>2. IsFiniteSet(O)
  BY <1>1, ProxyConstants, FS_Subset
<1>3. IsFiniteSet(T) /\ SocketsOf(S[n]) = Cardinality(T) /\ SocketsOf(S[n]) \in Nat
  <2>1. S[n].client = S[n].server => S[n].client = NoFd
    BY DEF Tied, SessionOK
  <2> QED
    BY <2>1, SocketsOfIs DEF SocketsOf
<1> HIDE DEF T, O
<1>4. Cardinality(O \cap T) = 0
  BY <1>1, FS_EmptySet
<1>5. /\ Cardinality(O \cup T) = Cardinality(O) + Cardinality(T) - Cardinality(O \cap T)
      /\ IsFiniteSet(O \cup T)
  BY <1>2, <1>3, FS_Union
<1>6. Cardinality(O) \in Nat /\ Cardinality(T) \in Nat
  BY <1>2, <1>3, FS_CardinalityType
<1>7. Cardinality(Owned(S)) = Cardinality(O) + SocketsOf(S[n])
  BY <1>1, <1>3, <1>4, <1>5, <1>6
<1> QED
  BY <1>3, <1>6, <1>7 DEF O

(* The other sessions stay what they are.                                  *)
LEMMA OthersStay ==
  ASSUME NEW S, NEW S2, NEW n, \A m \in Sess \ {n} : S2[m] = S[m]
  PROVE  Others(S2, n) = Others(S, n)
BY DEF Others, HasFd

(* What the table says of a socket that no other session has.              *)
LEMMA OwnBits ==
  ASSUME NEW S, NEW R, NEW W, NEW V, Tied(S, R, W, V), NEW n \in Sess,
         NEW f \in Fds \ Others(S, n)
  PROVE  /\ f \in R <=> Reads(S[n], f)
         /\ f \in W <=> Writes(S[n], f)
         /\ V[f].up # "none" <=> f = S[n].server
<1>1. \A m \in Sess \ {n} : ~HasFd(S, m, f)
  BY DEF Others
<1>2. \A m \in Sess \ {n} : ~Reads(S[m], f) /\ ~Writes(S[m], f) /\ f # S[m].server
  BY <1>1 DEF HasFd, Reads, Writes
<1> QED
  BY <1>2 DEF Tied

LEMMA CountOne ==
  ASSUME NEW S, NEW R, NEW W, NEW V, Tied(S, R, W, V), NEW n \in Sess,
         NEW S2, NEW R2, NEW W2, NEW V2, Tied(S2, R2, W2, V2),
         \A m \in Sess \ {n} : S2[m] = S[m]
  PROVE  /\ Cardinality(Owned(S2)) = Cardinality(Owned(S)) - SocketsOf(S[n]) + SocketsOf(S2[n])
         /\ Cardinality(Owned(S)) \in Nat
<1>1. Others(S2, n) = Others(S, n)
  BY OthersStay
<1>3. /\ Cardinality(Others(S, n)) \in Nat /\ SocketsOf(S[n]) \in Nat
      /\ Cardinality(Owned(S)) = Cardinality(Others(S, n)) + SocketsOf(S[n])
      /\ Cardinality(Owned(S)) \in Nat
  BY CountSplit
<1>4. /\ SocketsOf(S2[n]) \in Nat
      /\ Cardinality(Owned(S2)) = Cardinality(Others(S, n)) + SocketsOf(S2[n])
  BY <1>1, CountSplit
<1>5. Cardinality(Owned(S2)) = Cardinality(Owned(S)) - SocketsOf(S[n]) + SocketsOf(S2[n])
  BY <1>3, <1>4
<1> QED
  BY <1>3, <1>5

-----------------------------------------------------------------------------
(* findprefetch                                                            *)

LEMMA PrefetchSessionIs ==
  ASSUME NEW f \in Fds, NEW h \in Hosts, NEW V, V[f].host = h
  PROVE  /\ PrefetchSession(f, h) \in SessionType
         /\ PrefetchSession(f, h).state = "CONNECTING"
         /\ PrefetchSession(f, h).client = NoFd /\ PrefetchSession(f, h).server = f
         /\ SessionOK(PrefetchSession(f, h), V)
<1>1. /\ PrefetchSession(f, h) \in SessionType
      /\ PrefetchSession(f, h).state = "CONNECTING"
      /\ PrefetchSession(f, h).client = NoFd /\ PrefetchSession(f, h).server = f
      /\ PrefetchSession(f, h).host = h
  BY ProxyConstants DEF PrefetchSession, NewSession, SessionType, Busy
<1> QED
  BY <1>1, ProxyConstants DEF SessionOK, Busy

LEMMA NewServerIs ==
  ASSUME NEW h \in Hosts
  PROVE  NewServer(h) \in ServerType /\ NewServer(h).up = "connecting" /\ NewServer(h).host = h
BY DEF NewServer, NoServer, ServerType

(* Sessions that prefetch take free numbers and free descriptors, and leave *)
(* what there was as it is.                                                 *)
Starts(S, P, free, fd, h, W, V, S2, W2, V2) ==
  /\ P \in SUBSET Sess /\ \A m \in P : S[m].state = "NONE"
  /\ free \in SUBSET Fds /\ free \cap Owned(S) = {}
  /\ fd \in [P -> free] /\ \A m, o \in P : fd[m] = fd[o] => m = o
  /\ h \in [{fd[m] : m \in P} -> Hosts]
  /\ S2 = [m \in Sess |-> IF m \in P THEN PrefetchSession(fd[m], h[fd[m]]) ELSE S[m]]
  /\ W2 = W \cup DOMAIN h
  /\ V2 = [f \in Fds |-> IF f \in DOMAIN h THEN NewServer(h[f]) ELSE V[f]]

LEMMA Prefetched ==
  ASSUME NEW S, NEW R, NEW W, NEW V, Tied(S, R, W, V),
         NEW P, NEW free, NEW fd, NEW h, NEW S2, NEW W2, NEW V2,
         Starts(S, P, free, fd, h, W, V, S2, W2, V2)
  PROVE  /\ Tied(S2, R, W2, V2)
         /\ Cardinality(Owned(S2)) = Cardinality(Owned(S)) + Cardinality(P)
         /\ Cardinality(Owned(S)) \in Nat /\ Cardinality(P) \in Nat
<1> USE DEF Starts
<1> DEFINE D == {fd[m] : m \in P}
<1>1. /\ DOMAIN h = D /\ D \subseteq free /\ D \subseteq Fds /\ D \cap Owned(S) = {}
      /\ \A m \in P : fd[m] \in D /\ h[fd[m]] \in Hosts
      /\ \A f \in D : h[f] \in Hosts
  OBVIOUS
<1>2. ASSUME NEW m \in P
      PROVE  /\ fd[m] \in Fds /\ fd[m] \in D /\ h[fd[m]] \in Hosts
             /\ V2[fd[m]].host = h[fd[m]] /\ V2[fd[m]].up = "connecting"
  <2>1. fd[m] \in Fds /\ fd[m] \in D /\ h[fd[m]] \in Hosts
    BY <1>1
  <2>2. V2[fd[m]] = NewServer(h[fd[m]])
    BY <1>1, <2>1
  <2> QED
    BY <2>1, <2>2, NewServerIs
<1>3. ASSUME NEW m \in P
      PROVE  /\ S2[m] \in SessionType /\ S2[m].state = "CONNECTING"
             /\ S2[m].client = NoFd /\ S2[m].server = fd[m]
             /\ SessionOK(S2[m], V2)
  <2>1. S2[m] = PrefetchSession(fd[m], h[fd[m]])
    OBVIOUS
  <2>2. fd[m] \in Fds /\ h[fd[m]] \in Hosts /\ V2[fd[m]].host = h[fd[m]]
    BY <1>2
  <2> QED
    BY <2>1, <2>2, PrefetchSessionIs
<1>4. \A m \in Sess \ P : S2[m] = S[m] /\ SessionOK(S[m], V)
  BY DEF Tied
<1>5. \A f \in Fds \ D : V2[f] = V[f]
  BY <1>1
<1>6. \A m \in Sess \ P, f \in Fds : HasFd(S, m, f) => f \notin D
  BY <1>1 DEF Owned
<1>7. \A m \in P, f \in Fds : ~HasFd(S, m, f)
  BY ProxyConstants DEF Tied, SessionOK, HasFd
<1>8. NoFd \notin Fds
  BY ProxyConstants
<1>9. \A m \in P, f \in Fds : HasFd(S2, m, f) <=> f = fd[m]
  <2>1. ASSUME NEW m \in P, NEW f \in Fds PROVE HasFd(S2, m, f) <=> f = fd[m]
    <3>1. S2[m].client = NoFd /\ S2[m].server = fd[m]
      BY <1>3
    <3> QED
      BY <1>8, <3>1 DEF HasFd
  <2> QED
    BY <2>1
<1>10. \A m \in Sess \ P, f \in Fds : HasFd(S2, m, f) <=> HasFd(S, m, f)
  BY <1>4 DEF HasFd
<1> HIDE DEF D
<1>11. S2 \in [Sess -> SessionType] /\ V2 \in [Fds -> ServerType]
  <2>1. \A m \in Sess : S2[m] \in SessionType
    BY <1>3, <1>4 DEF SessionOK
  <2>2. \A f \in Fds : V2[f] \in ServerType
    BY <1>1, <1>5, NewServerIs DEF Tied
  <2> QED
    BY <2>1, <2>2
<1>12. \A m \in Sess : SessionOK(S2[m], V2)
  <2>1. ASSUME NEW m \in Sess \ P PROVE SessionOK(S[m], V2)
    <3>1. S[m].server # NoFd => V2[S[m].server] = V[S[m].server]
      <4>1. S[m].server \in Fds \cup {NoFd}
        BY FieldTypes DEF Tied
      <4> QED
        BY <1>5, <1>6, <4>1 DEF HasFd
    <3> QED
      BY <1>4, <3>1 DEF SessionOK
  <2> QED
    BY <1>3, <1>4, <2>1
<1>13. \A k, m \in Sess, f \in Fds : HasFd(S2, k, f) /\ HasFd(S2, m, f) => k = m
  BY <1>1, <1>6, <1>9, <1>10 DEF Tied
<1>14. \A f \in Fds : V2[f].up # "none" <=> \E m \in Sess : f = S2[m].server
  <2>1. ASSUME NEW f \in D PROVE V2[f].up # "none" /\ \E m \in Sess : f = S2[m].server
    <3>1. PICK m \in P : f = fd[m]
      BY DEF D
    <3> QED
      BY <1>2, <1>3, <3>1
  <2>2. ASSUME NEW f \in Fds \ D PROVE V2[f].up # "none" <=> \E m \in Sess : f = S2[m].server
    <3>1. ASSUME NEW m \in P PROVE f # S2[m].server /\ f # S[m].server
      <4>1. S2[m].server = fd[m] /\ fd[m] \in D
        BY <1>2, <1>3
      <4> QED
        BY <1>7, <4>1 DEF HasFd
    <3> QED
      BY <1>4, <1>5, <3>1 DEF Tied
  <2> QED
    BY <2>1, <2>2
<1>15. \A f \in Fds : f \in R <=> \E m \in Sess : Reads(S2[m], f)
  <2>1. \A m \in P, f \in Fds : ~Reads(S2[m], f) /\ ~Reads(S[m], f)
    BY <1>3, <1>7 DEF Reads, HasFd
  <2> QED
    BY <1>4, <2>1 DEF Tied
<1>16. \A f \in Fds : f \in W2 <=> \E m \in Sess : Writes(S2[m], f)
  <2>1. ASSUME NEW m \in P, NEW f \in Fds
        PROVE  (Writes(S2[m], f) <=> f = fd[m]) /\ ~Writes(S[m], f)
    <3>1. /\ S2[m].client = NoFd /\ S2[m].server = fd[m] /\ S2[m].state = "CONNECTING"
          /\ ~HasFd(S, m, f)
      BY <1>3, <1>7
    <3> QED
      BY <3>1 DEF Writes, HasFd
  <2>2. \A f \in Fds : f \in D <=> \E m \in P : f = fd[m]
    BY DEF D
  <2>3. ASSUME NEW f \in Fds PROVE f \in W <=> \E m \in Sess \ P : Writes(S2[m], f)
    <3>1. f \in W <=> \E m \in Sess : Writes(S[m], f)
      BY DEF Tied
    <3> QED
      BY <1>4, <2>1, <3>1
  <2>4. ASSUME NEW f \in Fds PROVE f \in W2 <=> f \in W \/ f \in D
    BY <1>1
  <2> QED
    BY <2>1, <2>2, <2>3, <2>4
<1>17. Tied(S2, R, W2, V2)
  <2>1. W2 \subseteq Fds
    BY <1>1 DEF Tied
  <2> QED
    BY <1>11, <1>12, <1>13, <1>14, <1>15, <1>16, <2>1 DEF Tied
<1>18. IsFiniteSet(P) /\ Cardinality(P) \in Nat /\ Cardinality(D) = Cardinality(P) /\ IsFiniteSet(D)
  <2>1. IsFiniteSet(P)
    BY ProxyConstants, FS_Subset
  <2>2. fd \in Bijection(P, D)
    <3>1. fd \in [P -> D]
      BY DEF D
    <3>2. \A f \in D : \E m \in P : fd[m] = f
      BY DEF D
    <3>3. fd \in Injection(P, D)
      BY <3>1 DEF Injection, IsInjective
    <3>4. fd \in Surjection(P, D)
      BY <3>1, <3>2 DEF Surjection
    <3> QED
      BY <3>3, <3>4 DEF Bijection
  <2>3. ExistsBijection(P, D)
    BY <2>2 DEF ExistsBijection
  <2> QED
    BY <2>1, <2>3, FS_Bijection, FS_CardinalityType
<1>19. Owned(S2) = Owned(S) \cup D /\ Owned(S) \in SUBSET Fds
  <2>1. ASSUME NEW f \in Fds PROVE f \in Owned(S2) <=> f \in Owned(S) \/ f \in D
    <3>1. f \in D <=> \E m \in P : f = fd[m]
      BY DEF D
    <3> QED
      BY <1>7, <1>9, <1>10, <3>1 DEF Owned
  <2>2. Owned(S) \subseteq Fds /\ Owned(S2) \subseteq Fds
    BY DEF Owned
  <2> QED
    BY <1>1, <2>1, <2>2
<1>20. IsFiniteSet(Owned(S)) /\ Cardinality(Owned(S)) \in Nat
  BY <1>19, ProxyConstants, FS_Subset, FS_CardinalityType
<1>21. Cardinality(Owned(S) \cup D) = Cardinality(Owned(S)) + Cardinality(D) - Cardinality(Owned(S) \cap D)
  BY <1>18, <1>20, FS_Union
<1>22. Cardinality(Owned(S) \cap D) = 0
  <2>1. Owned(S) \cap D = {}
    BY <1>1
  <2> QED
    BY <2>1, FS_EmptySet
<1>23. Cardinality(Owned(S2)) = Cardinality(Owned(S)) + Cardinality(P)
  <2>1. Owned(S2) = Owned(S) \cup D
    BY <1>19
  <2>2. Cardinality(Owned(S2)) = Cardinality(Owned(S)) + Cardinality(D) - 0
    BY <1>21, <1>22, <2>1, Zenon
  <2>3. Cardinality(D) = Cardinality(P) /\ Cardinality(P) \in Nat
    BY <1>18
  <2> QED
    BY <1>20, <2>2, <2>3
<1> QED
  BY <1>17, <1>18, <1>20, <1>23

-----------------------------------------------------------------------------
(* The invariant                                                           *)

(* A server that was not asked has sent nothing, none sends more than its  *)
(* response, and nothing is read before it is sent.                        *)
QuietServer(v) ==
  /\ v.resp = Nothing => v.sent = 0
  /\ v.resp # Nothing => v.sent <= Units(v.resp)
  /\ v.pos <= v.sent

Quiet(V) == \A f \in Fds : QuietServer(V[f])

(* A session that deals with a request names the host its client asked for.*)
Asked(S, C) == \A n \in Sess : S[n].state \in Busy /\ S[n].client # NoFd => C[n].asked = S[n].host

StateInv ==
  /\ Tied(sess, rin, win, srv)
  /\ socknum = Cardinality(Owned(sess))
  /\ Quiet(srv)
  /\ cli \in [Sess -> ClientType]
  /\ Asked(sess, cli)

(* A socket of a session this round has yet to visit is ready for what     *)
(* select said it is ready for.                                            *)
ReadyToRead(s, c, V, f) ==
  \/ f = s.client /\ (c.unread # <<>> \/ c.eof)
  \/ f = s.server /\ (V[f].sent > V[f].pos \/ V[f].up = "closed")

ReadyToWrite(s, c, V, f) ==
  \/ f = s.client /\ (~c.full \/ c.eof)
  \/ f = s.server /\ V[f].up # "connecting"

StillReady(S, C, V, T, RO, WO) ==
  \A n \in T \cap Sess, f \in Fds :
    HasFd(S, n, f) => /\ f \in RO => ReadyToRead(S[n], C[n], V, f)
                      /\ f \in WO => ReadyToWrite(S[n], C[n], V, f)

RoundInv ==
  /\ rout \subseteq Fds /\ wout \subseteq Fds
  /\ todo \subseteq Sess \cup {Listen, Operator}
  /\ alive \in BOOLEAN
  /\ backlog \in 0 .. MaxBacklog
  /\ StillReady(sess, cli, srv, todo, rout, wout)

LoopInv == StateInv /\ RoundInv

(* A session that starts to prefetch, with its server connection.          *)
Starting(s, V) ==
  \E f \in Fds, h \in Hosts : s = PrefetchSession(f, h) /\ V[f] = NewServer(h)

(* What a step does to the sessions it is not about: numbers that are free *)
(* may be taken by sessions that prefetch, and that is all.                *)
LeavesOthers(n) ==
  /\ \A m \in Sess \ {n} : m \notin FreeNums => sess'[m] = sess[m] /\ cli'[m] = cli[m]
  /\ \A m \in FreeNums \ {n} : sess'[m].state = "NONE" \/ Starting(sess'[m], srv')
  /\ \A f \in Others(sess, n) : srv'[f] = srv[f]

LEMMA OwnedIs ==
  ASSUME StateInv
  PROVE  OwnedFds = Owned(sess)
<1>1. \A n \in Sess : sess[n].client \in Fds \cup {NoFd} /\ sess[n].server \in Fds \cup {NoFd}
  BY FieldTypes DEF StateInv, Tied
<1>2. NoFd \notin Fds
  BY ProxyConstants
<1>3. ASSUME NEW f PROVE f \in OwnedFds <=> f \in Owned(sess)
  BY <1>1, <1>2 DEF OwnedFds, Owned, HasFd
<1> QED
  BY <1>3

LEMMA NewSessionIs ==
  /\ NewSession \in SessionType
  /\ NewSession.state = "NONE" /\ NewSession.client = NoFd /\ NewSession.server = NoFd
  /\ \A V : SessionOK(NewSession, V)
<1>1. /\ NewSession \in SessionType
      /\ NewSession.state = "NONE" /\ NewSession.client = NoFd /\ NewSession.server = NoFd
  BY DEF NewSession, SessionType
<1> QED
  BY <1>1 DEF SessionOK, Busy

LEMMA NewServerQuiet ==
  /\ QuietServer(NoServer) /\ NoServer.resp = Nothing
  /\ \A h : QuietServer(NewServer(h)) /\ NewServer(h).resp = Nothing
BY DEF QuietServer, NewServer, NoServer

(* findprefetch adds its sessions to a table base that is in order.        *)
LEMMA FindPrefetchKeeps ==
  ASSUME NEW free \in SUBSET Fds, NEW base, NEW rin0, NEW win0, NEW srv0, NEW num0,
         Tied(base, rin0, win0, srv0), Quiet(srv0), num0 = Cardinality(Owned(base)),
         free \cap Owned(base) = {},
         \A m \in FreeNums : base[m].state = "NONE",
         FindPrefetch(free, base, rin0, win0, srv0, num0)
  PROVE  /\ Tied(sess', rin', win', srv') /\ Quiet(srv')
         /\ socknum' = Cardinality(Owned(sess'))
         /\ \A m \in Sess : \/ sess'[m] = base[m]
                            \/ /\ m \in FreeNums /\ sess'[m].client = NoFd
                               /\ Starting(sess'[m], srv')
         /\ \A f \in Fds \ free : srv'[f] = srv0[f]
<1> DEFINE Started(P, fd, h) ==
        /\ Cardinality(P) <= MaxPrefetch
        /\ \A m, o \in P : fd[m] = fd[o] => m = o
        /\ sess' = [m \in Sess |->
                      IF m \in P THEN PrefetchSession(fd[m], h[fd[m]]) ELSE base[m]]
        /\ rin' = rin0
        /\ win' = win0 \cup DOMAIN h
        /\ srv' = [f \in Fds |-> IF f \in DOMAIN h THEN NewServer(h[f]) ELSE srv0[f]]
        /\ socknum' = num0 + Cardinality(P)
        /\ alive' = TRUE \/ (P # {} /\ alive' = FALSE)
<1>a. PICK P \in SUBSET FreeNums :
        \E fd \in [P -> free] : \E h \in [{fd[m] : m \in P} -> Hosts] : Started(P, fd, h)
  BY Zenon DEF FindPrefetch
<1>b. PICK fd \in [P -> free] : \E h \in [{fd[m] : m \in P} -> Hosts] : Started(P, fd, h)
  BY <1>a
<1>1. PICK h \in [{fd[m] : m \in P} -> Hosts] : Started(P, fd, h)
  BY <1>b
<1>2. P \in SUBSET Sess /\ \A m \in P : base[m].state = "NONE"
  BY DEF FreeNums
<1>3. /\ Tied(sess', rin0, win', srv')
      /\ Cardinality(Owned(sess')) = Cardinality(Owned(base)) + Cardinality(P)
  <2>1. Starts(base, P, free, fd, h, win0, srv0, sess', win', srv')
    BY <1>1, <1>2, Zenon DEF Starts
  <2> HIDE DEF Started
  <2> QED
    BY <2>1, Prefetched
<1>4. Quiet(srv')
  <2>1. ASSUME NEW f \in Fds PROVE QuietServer(srv'[f])
    <3>1. CASE f \in DOMAIN h
      <4>1. srv'[f] = NewServer(h[f])
        BY <1>1, <3>1
      <4> QED
        BY <4>1, NewServerQuiet
    <3>2. CASE f \notin DOMAIN h
      BY <1>1, <3>2 DEF Quiet
    <3> QED
      BY <3>1, <3>2
  <2> QED
    BY <2>1 DEF Quiet
<1>5. ASSUME NEW m \in Sess
      PROVE  \/ sess'[m] = base[m]
             \/ m \in FreeNums /\ sess'[m].client = NoFd /\ Starting(sess'[m], srv')
  <2>1. CASE m \in P
    <3>1. fd[m] \in Fds /\ fd[m] \in DOMAIN h /\ h[fd[m]] \in Hosts
      BY <2>1
    <3>2. sess'[m] = PrefetchSession(fd[m], h[fd[m]]) /\ srv'[fd[m]] = NewServer(h[fd[m]])
      BY <1>1, <2>1, <3>1
    <3>3. sess'[m].client = NoFd
      BY <3>2 DEF PrefetchSession, NewSession
    <3> QED
      BY <2>1, <3>1, <3>2, <3>3 DEF Starting
  <2>2. CASE m \notin P
    BY <1>1, <2>2
  <2> QED
    BY <2>1, <2>2
<1>6. \A f \in Fds \ free : srv'[f] = srv0[f]
  BY <1>1
<1> QED
  BY <1>1, <1>3, <1>4, <1>5, <1>6

-----------------------------------------------------------------------------
(* do_close, do_keep_close and change_state                                *)

LEMMA ClosedIs ==
  ASSUME StateInv, NEW g
  PROVE  /\ Closed(g) \in [Fds -> ServerType]
         /\ \A f \in Fds : /\ f = g => Closed(g)[f] = NoServer
                           /\ f # g => Closed(g)[f] = srv[f]
         /\ NoServer.up = "none" /\ Quiet(Closed(g))
<1>1. NoServer \in ServerType /\ NoServer.up = "none" /\ NoServer.sent = 0
  BY DEF NoServer, ServerType
<1> QED
  BY <1>1, NewServerQuiet DEF Closed, Quiet, StateInv, Tied

LEMMA CloseKeeps ==
  ASSUME StateInv, NEW n \in Sess, Live(n), DoClose(n)
  PROVE  StateInv' /\ LeavesOthers(n) /\ sess'[n] = NewSession
<1> DEFINE mine == {sess[n].client, sess[n].server}
           base == [sess EXCEPT ![n] = NewSession]
           V0 == Closed(sess[n].server)
           free == (Fds \ OwnedFds) \cup (mine \ {NoFd})
           num0 == socknum - SocketsOf(sess[n])
<1>1. /\ Tied(sess, rin, win, srv) /\ socknum = Cardinality(Owned(sess))
      /\ cli \in [Sess -> ClientType] /\ Asked(sess, cli)
      /\ sess \in [Sess -> SessionType] /\ rin \in SUBSET Fds /\ win \in SUBSET Fds
  BY DEF StateInv, Tied
<1>2. /\ Owned(sess) = Others(sess, n) \cup (mine \ {NoFd})
      /\ mine \cap Others(sess, n) = {} /\ mine \subseteq Fds \cup {NoFd}
      /\ Others(sess, n) \subseteq Fds
  BY <1>1, OwnAndOthers
<1>3. Fits(sess, n, NewSession, rin, win, srv, rin \ mine, win \ mine, V0)
  <2>1. \A f \in Others(sess, n) : /\ V0[f] = srv[f]
                                   /\ f \in rin \ mine <=> f \in rin
                                   /\ f \in win \ mine <=> f \in win
    BY <1>2, ClosedIs
  <2>2. ASSUME NEW f \in Fds \ Others(sess, n)
        PROVE  V0[f].up = "none" /\ f \notin rin \ mine /\ f \notin win \ mine
    <3>1. /\ f \in rin <=> Reads(sess[n], f)
          /\ f \in win <=> Writes(sess[n], f)
          /\ srv[f].up # "none" <=> f = sess[n].server
      BY <1>1, OwnBits
    <3>2. V0[f].up = "none"
      BY <3>1, ClosedIs
    <3> QED
      BY <3>1, <3>2 DEF Reads, Writes
  <2>3. NoFd \notin Others(sess, n) /\ NoFd \notin Fds
    BY ProxyConstants, <1>2
  <2>4. \A f \in Fds : ~Reads(NewSession, f) /\ ~Writes(NewSession, f) /\ f # NewSession.server
    BY <2>3, NewSessionIs DEF Reads, Writes
  <2>5. V0 \in [Fds -> ServerType]
    BY ClosedIs
  <2> QED
    BY <1>1, <2>1, <2>2, <2>3, <2>4, <2>5, NewSessionIs DEF Fits
<1>4. Tied(base, rin \ mine, win \ mine, V0)
  BY <1>1, <1>3, OneSession
<1>5. num0 = Cardinality(Owned(base))
  <2>1. SocketsOf(NewSession) = 0
    <3>1. {NewSession.client, NewSession.server} \ {NoFd} = {}
      BY NewSessionIs
    <3> QED
      BY <3>1, FS_EmptySet DEF SocketsOf
  <2>2. /\ Cardinality(Owned(base)) = Cardinality(Owned(sess)) - SocketsOf(sess[n]) + SocketsOf(NewSession)
        /\ Cardinality(Owned(sess)) \in Nat
    <3>1. base[n] = NewSession /\ \A m \in Sess \ {n} : base[m] = sess[m]
      BY <1>1
    <3> HIDE DEF base
    <3> QED
      BY <1>1, <1>4, <3>1, CountOne
  <2>3. SocketsOf(sess[n]) \in Nat
    BY <1>1, CountSplit
  <2> QED
    BY <1>1, <2>1, <2>2, <2>3
<1>6. base[n] = NewSession /\ \A m \in Sess \ {n} : base[m] = sess[m]
  BY <1>1
<1>7. n \notin FreeNums /\ \A m \in FreeNums : m \in Sess /\ base[m].state = "NONE"
  BY <1>6 DEF FreeNums, Live
<1>8. free \in SUBSET Fds /\ free \cap Owned(base) = {}
  <2>1. Owned(base) = Others(sess, n)
    <3>1. Others(base, n) = Others(sess, n)
      BY <1>6, OthersStay
    <3>2. {base[n].client, base[n].server} \ {NoFd} = {}
      BY <1>6, NewSessionIs
    <3>3. Owned(base) = Others(base, n) \cup ({base[n].client, base[n].server} \ {NoFd})
      BY <1>4, OwnAndOthers
    <3> QED
      BY <3>1, <3>2, <3>3
  <2>2. OwnedFds = Others(sess, n) \cup (mine \ {NoFd})
    BY <1>2, OwnedIs
  <2> HIDE DEF mine
  <2> QED
    BY <1>2, <2>1, <2>2
<1>9. FindPrefetch(free, base, rin \ mine, win \ mine, V0, num0) /\ cli' = [cli EXCEPT ![n] = NewClient]
  BY DEF DoClose
<1>10. Quiet(V0)
  BY ClosedIs
<1>11. \A f \in Others(sess, n) : f \in Fds \ free /\ V0[f] = srv[f]
  BY <1>2, OwnedIs, ClosedIs
<1> HIDE DEF mine, base, V0, free, num0
<1>12. /\ Tied(sess', rin', win', srv') /\ Quiet(srv')
       /\ socknum' = Cardinality(Owned(sess'))
       /\ \A m \in Sess : \/ sess'[m] = base[m]
                          \/ /\ m \in FreeNums /\ sess'[m].client = NoFd
                             /\ Starting(sess'[m], srv')
       /\ \A f \in Fds \ free : srv'[f] = V0[f]
  BY <1>4, <1>5, <1>7, <1>8, <1>9, <1>10, FindPrefetchKeeps
<1>13. sess'[n] = NewSession
  BY <1>6, <1>7, <1>12
<1>14. LeavesOthers(n)
  BY <1>1, <1>6, <1>7, <1>9, <1>11, <1>12 DEF LeavesOthers
<1>15. Asked(sess', cli')
  <2>1. ASSUME NEW m \in Sess, sess'[m].state \in Busy, sess'[m].client # NoFd
        PROVE  cli'[m].asked = sess'[m].host
    <3>1. m # n /\ sess'[m] = sess[m]
      BY <1>6, <1>12, <1>13, <2>1, NewSessionIs
    <3> QED
      BY <1>1, <1>9, <2>1, <3>1 DEF Asked
  <2> QED
    BY <2>1 DEF Asked
<1>16. cli' \in [Sess -> ClientType]
  <2>1. NewClient \in ClientType
    BY DEF NewClient, ClientType
  <2> QED
    BY <1>1, <1>9, <2>1
<1> QED
  BY <1>12, <1>13, <1>14, <1>15, <1>16 DEF StateInv

LEMMA MaskedIs ==
  ASSUME NEW mask \in SUBSET Fds, NEW s, NEW c \in BOOLEAN, NEW v \in BOOLEAN,
         s.client \in Fds \cup {NoFd}, s.server \in Fds \cup {NoFd}
  PROVE  /\ Masked(mask, s, c, v) \in SUBSET Fds
         /\ \A f \in Fds :
              f \in Masked(mask, s, c, v) <=>
                 \/ f \in mask /\ f # s.client /\ f # s.server
                 \/ c /\ f = s.client
                 \/ v /\ f = s.server
BY ProxyConstants DEF Masked, Bit

LEMMA KeptIs ==
  ASSUME NEW s \in SessionType
  PROVE  /\ KeptSession(s) \in SessionType
         /\ KeptSession(s).state = "READ_REQUEST" /\ KeptSession(s).kept
         /\ KeptSession(s).client = s.client
         /\ KeptSession(s).server = IF s.nokeep THEN NoFd ELSE s.server
         /\ KeptSession(s).host = s.host /\ KeptSession(s).kahost = s.host
BY ProxyConstants DEF KeptSession, SessionType

LEMMA KeepCloseKeeps ==
  ASSUME StateInv, NEW n \in Sess, Live(n), DoKeepClose(n),
         cli' \in [Sess -> ClientType], \A m \in Sess \ {n} : cli'[m] = cli[m]
  PROVE  /\ StateInv' /\ LeavesOthers(n) /\ sess'[n] = KeptSession(sess[n])
         /\ sess'[n].server # NoFd =>
              sess'[n].server = sess[n].server /\ srv'[sess[n].server] = srv[sess[n].server]
<1> DEFINE s == sess[n]
           k == KeptSession(s)
           gone == IF s.nokeep THEN s.server ELSE NoFd
           base == [sess EXCEPT ![n] = k]
           R0 == Masked(rin \ {gone}, k, TRUE, TRUE)
           W0 == Masked(win \ {gone}, k, FALSE, FALSE)
           V0 == Closed(gone)
           free == Fds \ OwnedFds
           num0 == IF gone = NoFd THEN socknum ELSE socknum - 1
<1>1. /\ Tied(sess, rin, win, srv) /\ socknum = Cardinality(Owned(sess))
      /\ Asked(sess, cli)
      /\ sess \in [Sess -> SessionType] /\ rin \in SUBSET Fds /\ win \in SUBSET Fds
      /\ s \in SessionType /\ SessionOK(s, srv)
  BY DEF StateInv, Tied
<1>2. /\ s.client \notin Others(sess, n) /\ s.server \notin Others(sess, n)
      /\ s.client \in Fds \cup {NoFd} /\ s.server \in Fds \cup {NoFd}
      /\ Others(sess, n) \subseteq Fds
      /\ Owned(sess) = Others(sess, n) \cup ({s.client, s.server} \ {NoFd})
  BY <1>1, OwnAndOthers
<1>3. NoFd \notin Fds
  BY ProxyConstants
<1>4. /\ k \in SessionType /\ k.state = "READ_REQUEST" /\ k.kept
      /\ k.client = s.client /\ k.server = (IF s.nokeep THEN NoFd ELSE s.server)
      /\ k.host = s.host /\ k.kahost = s.host
  BY <1>1, KeptIs
<1>5. gone \in {s.server, NoFd} /\ k.server \in {s.server, NoFd}
      /\ (gone = s.server \/ k.server = s.server) /\ (gone = NoFd \/ k.server = NoFd)
  BY <1>4
<1> HIDE DEF k
<1>6. /\ V0 \in [Fds -> ServerType] /\ Quiet(V0)
      /\ \A f \in Fds : (f = gone => V0[f].up = "none") /\ (f # gone => V0[f] = srv[f])
  BY ClosedIs
<1>7. R0 \in SUBSET Fds /\ W0 \in SUBSET Fds
      /\ \A f \in Fds : /\ f \in R0 <=> \/ f \in rin /\ f \notin {gone, k.client, k.server}
                                        \/ f = k.client \/ f = k.server
                        /\ f \in W0 <=> f \in win /\ f \notin {gone, k.client, k.server}
  <2>1. k.client \in Fds \cup {NoFd} /\ k.server \in Fds \cup {NoFd}
    BY <1>2, <1>4, <1>5
  <2>2. rin \ {gone} \in SUBSET Fds /\ win \ {gone} \in SUBSET Fds
    BY <1>1
  <2> HIDE DEF gone
  <2>3. R0 \in SUBSET Fds
        /\ \A f \in Fds : f \in R0 <=> \/ f \in rin \ {gone} /\ f # k.client /\ f # k.server
                                       \/ f = k.client \/ f = k.server
    BY <2>1, <2>2, MaskedIs
  <2>4. W0 \in SUBSET Fds
        /\ \A f \in Fds : f \in W0 <=> f \in win \ {gone} /\ f # k.client /\ f # k.server
    BY <2>1, <2>2, MaskedIs
  <2> QED
    BY <2>3, <2>4
<1> HIDE DEF gone, R0, W0, V0
<1>8. Fits(sess, n, k, rin, win, srv, R0, W0, V0)
  <2>1. SessionOK(k, V0)
    <3>1. k.server # NoFd => V0[k.server] = srv[k.server] /\ k.server = s.server
      BY <1>2, <1>5, <1>6
    <3> QED
      BY <1>1, <1>4, <1>5, <3>1 DEF SessionOK, Busy
  <2>2. k.client \notin Others(sess, n) /\ k.server \notin Others(sess, n) /\ gone \notin Others(sess, n)
    BY <1>2, <1>3, <1>4, <1>5
  <2>3. ASSUME NEW f \in Others(sess, n)
        PROVE  V0[f] = srv[f] /\ (f \in R0 <=> f \in rin) /\ (f \in W0 <=> f \in win)
    BY <1>2, <1>6, <1>7, <2>2
  <2>4. ASSUME NEW f \in Fds \ Others(sess, n)
        PROVE  /\ V0[f].up # "none" <=> f = k.server
               /\ f \in R0 <=> Reads(k, f)
               /\ f \in W0 <=> Writes(k, f)
    <3>1. /\ f \in rin <=> Reads(sess[n], f)
          /\ f \in win <=> Writes(sess[n], f)
          /\ srv[f].up # "none" <=> f = s.server
      BY <1>1, OwnBits
    <3>2. f \in rin \/ f \in win => f \in {gone, k.client, k.server}
      BY <1>4, <1>5, <3>1 DEF Reads, Writes
    <3>3. V0[f].up # "none" <=> f = k.server
      BY <1>3, <1>5, <1>6, <3>1
    <3> QED
      BY <1>4, <1>7, <3>2, <3>3 DEF Reads, Writes
  <2> QED
    BY <1>6, <1>7, <2>1, <2>2, <2>3, <2>4 DEF Fits
<1>9. Tied(base, R0, W0, V0)
  BY <1>1, <1>8, OneSession
<1>10. base[n] = k /\ \A m \in Sess \ {n} : base[m] = sess[m]
  BY <1>1
<1>11. num0 = Cardinality(Owned(base)) /\ Owned(base) \subseteq Owned(sess)
  <2> HIDE DEF base
  <2>1. /\ Cardinality(Owned(base)) = Cardinality(Owned(sess)) - SocketsOf(s) + SocketsOf(k)
        /\ Cardinality(Owned(sess)) \in Nat
    BY <1>1, <1>9, <1>10, CountOne
  <2>2. s.client = s.server => s.client = NoFd
    BY <1>1 DEF SessionOK
  <2>3. SocketsOf(s) = (IF s.client = NoFd THEN 0 ELSE 1) + (IF s.server = NoFd THEN 0 ELSE 1)
    BY <2>2, SocketsOfIs
  <2>4. k.client = k.server => k.client = NoFd
    BY <1>4, <1>5, <2>2
  <2>5. SocketsOf(k) = (IF k.client = NoFd THEN 0 ELSE 1) + (IF k.server = NoFd THEN 0 ELSE 1)
    BY <2>4, SocketsOfIs
  <2>6. num0 = Cardinality(Owned(base))
    BY <1>1, <1>4, <1>5, <2>1, <2>3, <2>5
  <2>7. Owned(base) = Others(base, n) \cup ({k.client, k.server} \ {NoFd})
    <3>1. Owned(base) = Others(base, n) \cup ({base[n].client, base[n].server} \ {NoFd})
      BY <1>9, OwnAndOthers
    <3> QED
      BY <1>10, <3>1
  <2>8. Others(base, n) = Others(sess, n)
    BY <1>10, OthersStay
  <2> QED
    BY <1>2, <1>4, <1>5, <2>6, <2>7, <2>8
<1>12. n \notin FreeNums /\ \A m \in FreeNums : m \in Sess /\ base[m].state = "NONE"
  BY <1>10 DEF FreeNums, Live
<1>13. free \in SUBSET Fds /\ free \cap Owned(base) = {}
  BY <1>11, OwnedIs
<1>14. FindPrefetch(free, base, R0, W0, V0, num0)
  BY DEF DoKeepClose, gone, R0, W0, V0, k
<1>15. \A f \in Others(sess, n) : f \in Fds \ free /\ V0[f] = srv[f]
  BY <1>2, <1>8, OwnedIs DEF Fits
<1> HIDE DEF base, free, num0
<1>16. /\ Tied(sess', rin', win', srv') /\ Quiet(srv')
       /\ socknum' = Cardinality(Owned(sess'))
       /\ \A m \in Sess : \/ sess'[m] = base[m]
                          \/ /\ m \in FreeNums /\ sess'[m].client = NoFd
                             /\ Starting(sess'[m], srv')
       /\ \A f \in Fds \ free : srv'[f] = V0[f]
  <2>1. num0 = Cardinality(Owned(base)) /\ Quiet(V0)
    BY <1>6, <1>11
  <2>2. \A m \in FreeNums : base[m].state = "NONE"
    BY <1>12
  <2> QED
    BY <1>9, <1>13, <1>14, <2>1, <2>2, FindPrefetchKeeps
<1>17. LeavesOthers(n)
  BY <1>10, <1>12, <1>15, <1>16 DEF LeavesOthers
<1>18. Asked(sess', cli')
  <2>1. ASSUME NEW m \in Sess, sess'[m].state \in Busy, sess'[m].client # NoFd
        PROVE  cli'[m].asked = sess'[m].host
    <3>1. m # n /\ sess'[m] = sess[m]
      BY <1>4, <1>10, <1>12, <1>16, <2>1 DEF Busy
    <3> QED
      BY <1>1, <2>1, <3>1 DEF Asked
  <2> QED
    BY <2>1 DEF Asked
<1>19. sess'[n] = k
  BY <1>10, <1>12, <1>16
<1>20. k.server # NoFd => k.server = s.server /\ srv'[s.server] = srv[s.server]
  <2>1. ASSUME k.server # NoFd PROVE s.server \in Fds \ free /\ s.server # gone
    BY <1>2, <1>3, <1>5, <2>1, OwnedIs DEF free
  <2> QED
    BY <1>3, <1>5, <1>6, <1>16, <2>1
<1> QED
  BY <1>16, <1>17, <1>18, <1>19, <1>20 DEF StateInv, k

InState(s, state) == [s EXCEPT !.state = state]

LEMMA InStateIs ==
  ASSUME NEW s \in SessionType, NEW state \in Busy \cup {"NONE", "READ_REQUEST"}
  PROVE  /\ InState(s, state) \in SessionType
         /\ InState(s, state).state = state
         /\ InState(s, state).client = s.client /\ InState(s, state).server = s.server
         /\ InState(s, state).host = s.host
         /\ InState(s, state).kahost = s.kahost /\ InState(s, state).kept = s.kept
BY DEF InState, SessionType

(* change_state of a session that keeps its server connection and its      *)
(* client, or gets one; V may differ from srv in what servers sent.        *)
LEMMA ChangeKeeps ==
  ASSUME NEW V, Tied(sess, rin, win, V), NEW n \in Sess,
         NEW s \in SessionType, NEW state \in Busy \cup {"NONE", "READ_REQUEST"},
         NEW crin \in BOOLEAN, NEW cwin \in BOOLEAN, NEW srin \in BOOLEAN, NEW swin \in BOOLEAN,
         ChangeState(n, s, state, crin, cwin, srin, swin),
         SessionOK(InState(s, state), V),
         s.client \notin Others(sess, n),
         s.server = sess[n].server, sess[n].client \in {s.client, NoFd},
         s.client # NoFd => /\ crin <=> state \in {"READ_REQUEST", "READING"}
                            /\ cwin <=> state = "WRITING_CLIENT",
         s.server # NoFd => /\ srin <=> state \in {"READ_REQUEST", "READING"}
                            /\ swin <=> state \in {"CONNECTING", "WRITING_SERVER"}
  PROVE  /\ Tied(sess', rin', win', V)
         /\ sess'[n] = InState(s, state) /\ \A m \in Sess \ {n} : sess'[m] = sess[m]
<1> DEFINE t == InState(s, state)
<1>0. t.state = state /\ t.client = s.client /\ t.server = s.server /\ SessionOK(t, V)
  BY InStateIs
<1>1. sess' = [sess EXCEPT ![n] = t] /\ rin' = Masked(rin, s, crin, srin) /\ win' = Masked(win, s, cwin, swin)
  BY DEF ChangeState, InState
<1> HIDE DEF t
<1>2. /\ sess[n].server \notin Others(sess, n) /\ Others(sess, n) \subseteq Fds
      /\ sess[n].server \in Fds \cup {NoFd}
  BY OwnAndOthers
<1>3. s.client \in Fds \cup {NoFd} /\ s.server \in Fds \cup {NoFd} /\ NoFd \notin Fds
  BY <1>2, FieldTypes, ProxyConstants
<1>4. /\ sess \in [Sess -> SessionType] /\ rin \in SUBSET Fds /\ win \in SUBSET Fds
      /\ V \in [Fds -> ServerType]
  BY DEF Tied
<1>5. /\ rin' \in SUBSET Fds
      /\ \A f \in Fds : f \in rin' <=> \/ f \in rin /\ f # s.client /\ f # s.server
                                       \/ crin /\ f = s.client
                                       \/ srin /\ f = s.server
  BY <1>1, <1>3, <1>4, MaskedIs
<1>6. /\ win' \in SUBSET Fds
      /\ \A f \in Fds : f \in win' <=> \/ f \in win /\ f # s.client /\ f # s.server
                                       \/ cwin /\ f = s.client
                                       \/ swin /\ f = s.server
  BY <1>1, <1>3, <1>4, MaskedIs
<1>7. Fits(sess, n, t, rin, win, V, rin', win', V)
  <2>1. ASSUME NEW f \in Others(sess, n) PROVE (f \in rin' <=> f \in rin) /\ (f \in win' <=> f \in win)
    BY <1>2, <1>5, <1>6
  <2>2. ASSUME NEW f \in Fds \ Others(sess, n)
        PROVE  /\ V[f].up # "none" <=> f = t.server
               /\ f \in rin' <=> Reads(t, f)
               /\ f \in win' <=> Writes(t, f)
    <3>1. /\ f \in rin <=> Reads(sess[n], f)
          /\ f \in win <=> Writes(sess[n], f)
          /\ V[f].up # "none" <=> f = sess[n].server
      BY OwnBits
    <3>2. f \in rin \/ f \in win => f = s.client \/ f = s.server
      BY <1>3, <3>1 DEF Reads, Writes
    <3>3. f \in rin' <=> Reads(t, f)
      BY <1>0, <1>3, <1>5, <3>2 DEF Reads
    <3>4. f \in win' <=> Writes(t, f)
      BY <1>0, <1>3, <1>6, <3>2 DEF Writes
    <3> QED
      BY <1>0, <3>1, <3>3, <3>4
  <2> QED
    BY <1>0, <1>2, <1>4, <1>5, <1>6, <2>1, <2>2 DEF Fits
<1>8. Tied([sess EXCEPT ![n] = t], rin', win', V)
  BY <1>7, OneSession
<1>9. Tied(sess', rin', win', V)
  BY <1>1, <1>8
<1> QED
  BY <1>1, <1>4, <1>9 DEF t

-----------------------------------------------------------------------------
(* The handlers                                                            *)

(* Servers may send, and connections be made or end.                       *)
LEMMA ServersMayAct ==
  ASSUME NEW S, NEW R, NEW W, NEW V, Tied(S, R, W, V),
         NEW V2 \in [Fds -> ServerType],
         \A f \in Fds : /\ V2[f].host = V[f].host
                        /\ V2[f].up # "none" <=> V[f].up # "none"
  PROVE  Tied(S, R, W, V2)
<1>1. ASSUME NEW n \in Sess PROVE SessionOK(S[n], V2)
  <2>1. SessionOK(S[n], V) /\ S[n].server \in Fds \cup {NoFd}
    BY FieldTypes DEF Tied
  <2> QED
    BY <2>1 DEF SessionOK
<1> QED
  BY <1>1 DEF Tied

(* A step about one session: what is left to say about the count of        *)
(* sockets and the host that was asked for.                                *)
LEMMA StepKeeps ==
  ASSUME StateInv, NEW n \in Sess,
         Tied(sess', rin', win', srv'), Quiet(srv'),
         \A m \in Sess \ {n} : sess'[m] = sess[m] /\ cli'[m] = cli[m],
         \A f \in Others(sess, n) : srv'[f] = srv[f],
         cli' \in [Sess -> ClientType],
         socknum' = socknum - SocketsOf(sess[n]) + SocketsOf(sess'[n]),
         sess'[n].state \in Busy /\ sess'[n].client # NoFd => cli'[n].asked = sess'[n].host
  PROVE  StateInv' /\ LeavesOthers(n)
<1>1. /\ Tied(sess, rin, win, srv) /\ socknum = Cardinality(Owned(sess))
      /\ Asked(sess, cli)
  BY DEF StateInv
<1>2. socknum' = Cardinality(Owned(sess'))
  BY <1>1, CountOne
<1>3. Asked(sess', cli')
  BY <1>1 DEF Asked
<1> QED
  BY <1>2, <1>3 DEF StateInv, LeavesOthers, FreeNums, Live

(* The same, when no socket was opened or closed.                          *)
LEMMA SameSockets ==
  ASSUME StateInv, NEW n \in Sess, NEW s,
         sess'[n] = s, s.client = sess[n].client, s.server = sess[n].server,
         Tied(sess', rin', win', srv'), Quiet(srv'),
         \A m \in Sess \ {n} : sess'[m] = sess[m] /\ cli'[m] = cli[m],
         \A f \in Others(sess, n) : srv'[f] = srv[f],
         cli' \in [Sess -> ClientType],
         socknum' = socknum,
         s.state \in Busy /\ s.client # NoFd => cli'[n].asked = s.host
  PROVE  StateInv' /\ LeavesOthers(n)
<1>1. SocketsOf(sess[n]) = SocketsOf(s)
  BY DEF SocketsOf
<1>2. SocketsOf(sess[n]) \in Nat /\ socknum \in Nat
  BY CountSplit DEF StateInv
<1>3. socknum' = socknum - SocketsOf(sess[n]) + SocketsOf(sess'[n])
  BY <1>1, <1>2
<1> QED
  BY <1>3, StepKeeps

LEMMA UnchangedKeeps ==
  ASSUME StateInv, UNCHANGED <<sess, rin, win, socknum, cli, srv>>, NEW n
  PROVE  StateInv' /\ LeavesOthers(n)
BY DEF StateInv, LeavesOthers, Others, FreeNums, Live

(* A session that is visited in the state of one of the handlers.          *)
LEMMA SessionFacts ==
  ASSUME StateInv, NEW n \in Sess
  PROVE  /\ sess[n] \in SessionType /\ SessionOK(sess[n], srv)
         /\ Tied(sess, rin, win, srv) /\ sess \in [Sess -> SessionType]
         /\ srv \in [Fds -> ServerType] /\ cli \in [Sess -> ClientType]
         /\ sess[n].client \in Fds \cup {NoFd} /\ sess[n].server \in Fds \cup {NoFd}
         /\ sess[n].client \notin Others(sess, n) /\ sess[n].server \notin Others(sess, n)
         /\ Others(sess, n) \subseteq Fds
         /\ Quiet(srv) /\ Asked(sess, cli)
         /\ sess[n].state # "NONE" => Live(n)
         /\ sess[n].state \in Busy => sess[n].server \in Fds
<1>1. /\ sess[n] \in SessionType /\ SessionOK(sess[n], srv)
      /\ Tied(sess, rin, win, srv) /\ sess \in [Sess -> SessionType]
      /\ srv \in [Fds -> ServerType] /\ cli \in [Sess -> ClientType]
      /\ Quiet(srv) /\ Asked(sess, cli)
  BY DEF StateInv, Tied
<1>2. /\ sess[n].client \in Fds \cup {NoFd} /\ sess[n].server \in Fds \cup {NoFd}
      /\ sess[n].client \notin Others(sess, n) /\ sess[n].server \notin Others(sess, n)
      /\ Others(sess, n) \subseteq Fds
  BY <1>1, OwnAndOthers
<1>3. sess[n].state \in Busy => sess[n].server \in Fds
  BY <1>1, <1>2 DEF SessionOK
<1> QED
  BY <1>1, <1>2, <1>3 DEF Live

(* do_connect                                                              *)
LEMMA FetchKeeps ==
  ASSUME StateInv, NEW n \in Sess, In(n, "READ_REQUEST"), NEW r \in Requests, Fetch(n, r),
         cli' \in [Sess -> ClientType], \A m \in Sess \ {n} : cli'[m] = cli[m],
         cli'[n].asked = r.host
  PROVE  StateInv' /\ LeavesOthers(n)
<1> DEFINE s == [sess[n] EXCEPT !.keep = r.keep, !.host = r.host]
           old == Replaced(s)
<1>1. /\ sess[n] \in SessionType /\ SessionOK(sess[n], srv) /\ sess[n].state = "READ_REQUEST"
      /\ Tied(sess, rin, win, srv) /\ sess \in [Sess -> SessionType]
      /\ srv \in [Fds -> ServerType] /\ Quiet(srv)
      /\ sess[n].client \in Fds \cup {NoFd} /\ sess[n].server \in Fds \cup {NoFd}
      /\ sess[n].client \notin Others(sess, n) /\ sess[n].server \notin Others(sess, n)
      /\ Others(sess, n) \subseteq Fds /\ NoFd \notin Fds
  BY SessionFacts, ProxyConstants DEF In
<1>2. r.host \in Hosts /\ r.keep \in BOOLEAN
  BY ProxyConstants DEF RequestType
<1>3. /\ s \in SessionType /\ s.state = "READ_REQUEST" /\ s.host = r.host
      /\ s.client = sess[n].client /\ s.server = sess[n].server
      /\ s.kept = sess[n].kept /\ s.kahost = sess[n].kahost
  BY <1>1, <1>2 DEF SessionType
<1>4. \/ /\ Reusable(s, r.host)
         /\ ChangeState(n, s, "CONNECTING", FALSE, FALSE, FALSE, TRUE)
         /\ UNCHANGED <<socknum, srv>>
      \/ /\ ~Reusable(s, r.host)
         /\ \E f \in (Fds \ OwnedFds) \cup ({old} \ {NoFd}) :
              /\ sess' = [sess EXCEPT ![n] = [s EXCEPT !.server = f, !.state = "CONNECTING"]]
              /\ rin' = rin \ {s.client, old, f}
              /\ win' = (win \ {s.client, old}) \cup {f}
              /\ srv' = [Closed(old) EXCEPT ![f] = NewServer(r.host)]
              /\ socknum' = IF old = NoFd THEN socknum + 1 ELSE socknum
  BY DEF Fetch
<1> HIDE DEF s
<1>5. CASE /\ Reusable(s, r.host)
           /\ ChangeState(n, s, "CONNECTING", FALSE, FALSE, FALSE, TRUE)
           /\ UNCHANGED <<socknum, srv>>
  <2>1. s.server # NoFd /\ s.kahost = r.host /\ sess[n].host = r.host
    BY <1>1, <1>3, <1>5 DEF Reusable, SessionOK
  <2>2. /\ InState(s, "CONNECTING") \in SessionType
        /\ InState(s, "CONNECTING").state = "CONNECTING"
        /\ InState(s, "CONNECTING").client = s.client
        /\ InState(s, "CONNECTING").server = s.server
        /\ InState(s, "CONNECTING").host = s.host
    BY <1>3, InStateIs DEF Busy
  <2>3. SessionOK(InState(s, "CONNECTING"), srv)
    BY <1>1, <1>3, <2>1, <2>2 DEF SessionOK, Busy
  <2>4. ChangeState(n, s, "CONNECTING", FALSE, FALSE, FALSE, TRUE)
    BY <1>5
  <2>5. /\ Tied(sess', rin', win', srv)
        /\ sess'[n] = InState(s, "CONNECTING") /\ \A m \in Sess \ {n} : sess'[m] = sess[m]
    BY <1>1, <1>3, <2>3, <2>4, ChangeKeeps DEF Busy
  <2> QED
    BY <1>1, <1>3, <1>5, <2>2, <2>5, SameSockets
<1>6. CASE ~Reusable(s, r.host)
  <2>1. PICK f \in (Fds \ OwnedFds) \cup ({old} \ {NoFd}) :
              /\ sess' = [sess EXCEPT ![n] = [s EXCEPT !.server = f, !.state = "CONNECTING"]]
              /\ rin' = rin \ {s.client, old, f}
              /\ win' = (win \ {s.client, old}) \cup {f}
              /\ srv' = [Closed(old) EXCEPT ![f] = NewServer(r.host)]
              /\ socknum' = IF old = NoFd THEN socknum + 1 ELSE socknum
    BY <1>4, <1>6
  <2>2. old = s.server
    BY <1>1, <1>3 DEF Replaced, SessionOK
  <2> HIDE DEF old
  <2>3. /\ f \in Fds /\ f \notin Others(sess, n) /\ f # s.client
    <3>1. OwnedFds = Others(sess, n) \cup ({sess[n].client, sess[n].server} \ {NoFd})
      BY <1>1, OwnAndOthers, OwnedIs
    <3>2. s.client = s.server => s.client = NoFd
      BY <1>1, <1>3 DEF SessionOK
    <3> QED
      BY <1>1, <1>3, <2>1, <2>2, <3>1, <3>2
  <2> DEFINE t == [s EXCEPT !.server = f, !.state = "CONNECTING"]
  <2>4. /\ t \in SessionType /\ t.state = "CONNECTING" /\ t.client = s.client /\ t.server = f
        /\ t.host = r.host
    BY <1>3, <2>3 DEF SessionType, Busy
  <2> HIDE DEF t
  <2>5. /\ Closed(old) \in [Fds -> ServerType] /\ Quiet(Closed(old))
        /\ \A g \in Fds : (g = old => Closed(old)[g].up = "none") /\ (g # old => Closed(old)[g] = srv[g])
    BY ClosedIs
  <2>6. NewServer(r.host) \in ServerType /\ NewServer(r.host).up = "connecting"
        /\ NewServer(r.host).host = r.host /\ NewServer(r.host).sent = 0
    BY <1>2, NewServerIs DEF NewServer, NoServer
  <2>7. /\ srv' \in [Fds -> ServerType] /\ srv'[f] = NewServer(r.host)
        /\ \A g \in Fds \ {f} : srv'[g] = Closed(old)[g]
    BY <2>1, <2>3, <2>5, <2>6
  <2>8. Quiet(srv')
    BY <2>5, <2>6, <2>7, NewServerQuiet DEF Quiet
  <2>9. SessionOK(t, srv')
    BY <1>1, <2>3, <2>4, <2>6, <2>7 DEF SessionOK, Busy
  <2>10. ASSUME NEW g \in Others(sess, n)
         PROVE  srv'[g] = srv[g] /\ (g \in rin' <=> g \in rin) /\ (g \in win' <=> g \in win)
    <3>1. g \in Fds /\ g # f /\ g # old /\ g # s.client
      BY <1>1, <1>3, <2>2, <2>3
    <3> QED
      BY <2>1, <2>5, <2>7, <3>1
  <2>11. ASSUME NEW g \in Fds \ Others(sess, n)
         PROVE  /\ srv'[g].up # "none" <=> g = t.server
                /\ g \in rin' <=> Reads(t, g)
                /\ g \in win' <=> Writes(t, g)
    <3>1. /\ g \in rin <=> Reads(sess[n], g)
          /\ g \in win <=> Writes(sess[n], g)
          /\ srv[g].up # "none" <=> g = sess[n].server
      BY <1>1, OwnBits
    <3>2. g \in rin \/ g \in win => g \in {s.client, old}
      BY <1>3, <2>2, <3>1 DEF Reads, Writes
    <3>3. g \notin rin' /\ (g \in win' <=> g = f)
      BY <2>1, <2>2, <3>2
    <3>4. srv'[g].up # "none" <=> g = f
      BY <1>3, <2>2, <2>5, <2>6, <2>7, <3>1
    <3> QED
      BY <2>4, <3>3, <3>4 DEF Reads, Writes
  <2>12. rin' \in SUBSET Fds /\ win' \in SUBSET Fds
    BY <2>1, <2>3 DEF StateInv, Tied
  <2>13. Fits(sess, n, t, rin, win, srv, rin', win', srv')
    BY <1>1, <1>3, <2>3, <2>4, <2>7, <2>9, <2>10, <2>11, <2>12 DEF Fits
  <2>14. Tied([sess EXCEPT ![n] = t], rin', win', srv')
    BY <1>1, <2>13, OneSession
  <2>15. /\ Tied(sess', rin', win', srv')
         /\ sess'[n] = t /\ \A m \in Sess \ {n} : sess'[m] = sess[m]
    <3>1. sess' = [sess EXCEPT ![n] = t]
      BY <2>1 DEF t
    <3> QED
      BY <1>1, <2>14, <3>1
  <2>16. socknum' = socknum - SocketsOf(sess[n]) + SocketsOf(t)
    <3>1. SocketsOf(sess[n]) = (IF s.client = NoFd THEN 0 ELSE 1) + (IF s.server = NoFd THEN 0 ELSE 1)
      BY <1>1, <1>3, SocketsOfIs DEF SessionOK
    <3>2. SocketsOf(t) = (IF s.client = NoFd THEN 0 ELSE 1) + 1
      BY <1>1, <2>3, <2>4, SocketsOfIs
    <3>3. socknum \in Nat /\ socknum' = IF s.server = NoFd THEN socknum + 1 ELSE socknum
      BY <1>1, <2>1, <2>2, CountSplit DEF StateInv
    <3> QED
      BY <3>1, <3>2, <3>3
  <2> QED
    BY <2>4, <2>8, <2>10, <2>15, <2>16, StepKeeps
<1> QED
  BY <1>4, <1>5, <1>6

(* do_accept                                                               *)
LEMMA AcceptKeeps ==
  ASSUME StateInv, NEW n \in FreeNums, NEW f \in Fds \ OwnedFds, AcceptInto(n, f)
  PROVE  StateInv' /\ LeavesOthers(n)
<1> DEFINE s == [NewSession EXCEPT !.client = f]
           t == InState(s, "READ_REQUEST")
<1>1. n \in Sess /\ sess[n].state = "NONE"
  BY DEF FreeNums, Live
<1>2. /\ SessionOK(sess[n], srv) /\ Tied(sess, rin, win, srv) /\ Quiet(srv)
      /\ cli \in [Sess -> ClientType] /\ NoFd \notin Others(sess, n)
      /\ Owned(sess) = Others(sess, n) \cup ({sess[n].client, sess[n].server} \ {NoFd})
  BY <1>1, SessionFacts, OwnAndOthers, ProxyConstants
<1>3. sess[n].client = NoFd /\ sess[n].server = NoFd
  BY <1>1, <1>2 DEF SessionOK
<1>4. s \in SessionType /\ s.client = f /\ s.server = NoFd /\ f # NoFd
  BY ProxyConstants DEF NewSession, SessionType
<1>5. /\ ChangeState(n, s, "READ_REQUEST", TRUE, FALSE, FALSE, FALSE)
      /\ socknum' = socknum + 1
      /\ cli' = [cli EXCEPT ![n] = NewClient] /\ srv' = srv
  BY DEF AcceptInto
<1> HIDE DEF s
<1>6. t \in SessionType /\ t.state = "READ_REQUEST" /\ t.client = f /\ t.server = NoFd
  BY <1>4, InStateIs
<1> HIDE DEF t
<1>7. SessionOK(t, srv)
  BY <1>4, <1>6 DEF SessionOK, Busy
<1>8. f \notin Others(sess, n)
  BY <1>2, OwnedIs
<1>9. /\ Tied(sess', rin', win', srv)
      /\ sess'[n] = t /\ \A m \in Sess \ {n} : sess'[m] = sess[m]
  <2>1. SessionOK(InState(s, "READ_REQUEST"), srv)
    BY <1>7 DEF t
  <2> QED
    BY <1>1, <1>2, <1>3, <1>4, <1>5, <1>8, <2>1, ChangeKeeps DEF t
<1>10. socknum' = socknum - SocketsOf(sess[n]) + SocketsOf(t)
  <2>1. SocketsOf(sess[n]) = 0 + 0
    BY <1>3, SocketsOfIs
  <2>2. SocketsOf(t) = 1 + 0
    BY <1>4, <1>6, SocketsOfIs
  <2>3. socknum \in Nat
    BY <1>1, CountSplit DEF StateInv
  <2> QED
    BY <1>5, <2>1, <2>2, <2>3
<1>11. cli' \in [Sess -> ClientType] /\ \A m \in Sess \ {n} : cli'[m] = cli[m]
  <2>1. NewClient \in ClientType
    BY DEF NewClient, ClientType
  <2> QED
    BY <1>2, <1>5, <2>1
<1> QED
  BY <1>1, <1>2, <1>5, <1>6, <1>9, <1>10, <1>11, StepKeeps DEF Busy

(* A session goes from one state of dealing with a request to another.     *)
LEMMA MovesOn ==
  ASSUME StateInv, NEW n \in Sess, sess[n].state \in Busy,
         NEW s \in SessionType, s.client = sess[n].client, s.server = sess[n].server,
         s.host = sess[n].host,
         NEW state \in Busy,
         NEW crin \in BOOLEAN, NEW cwin \in BOOLEAN, NEW srin \in BOOLEAN, NEW swin \in BOOLEAN,
         crin <=> state = "READING", cwin <=> state = "WRITING_CLIENT",
         srin <=> state = "READING", swin <=> state \in {"CONNECTING", "WRITING_SERVER"},
         ChangeState(n, s, state, crin, cwin, srin, swin),
         srv' \in [Fds -> ServerType], Quiet(srv'),
         \A f \in Fds : srv'[f].host = srv[f].host /\ (srv'[f].up # "none" <=> srv[f].up # "none"),
         \A f \in Others(sess, n) : srv'[f] = srv[f],
         cli' \in [Sess -> ClientType], \A m \in Sess \ {n} : cli'[m] = cli[m],
         cli'[n].asked = cli[n].asked,
         socknum' = socknum
  PROVE  StateInv' /\ LeavesOthers(n)
<1> DEFINE t == InState(s, state)
<1>1. Tied(sess, rin, win, srv') /\ SessionOK(sess[n], srv')
  <2>1. Tied(sess, rin, win, srv')
    BY SessionFacts, ServersMayAct
  <2> QED
    BY <2>1 DEF Tied
<1>2. /\ t \in SessionType /\ t.state = state /\ t.client = s.client /\ t.server = s.server
      /\ t.host = s.host
  BY InStateIs
<1>3. SessionOK(t, srv')
  BY <1>1, <1>2 DEF SessionOK, Busy
<1>4. state # "READ_REQUEST"
  BY DEF Busy
<1>5. s.client \notin Others(sess, n)
  BY SessionFacts
<1>6. /\ Tied(sess', rin', win', srv')
      /\ sess'[n] = t /\ \A m \in Sess \ {n} : sess'[m] = sess[m]
  <2>1. SessionOK(InState(s, state), srv')
    BY <1>3
  <2> HIDE DEF t
  <2>2. /\ Tied(sess', rin', win', srv')
        /\ sess'[n] = InState(s, state) /\ \A m \in Sess \ {n} : sess'[m] = sess[m]
    BY <1>1, <1>4, <1>5, <2>1, ChangeKeeps
  <2> QED
    BY <2>2 DEF t
<1> HIDE DEF t
<1>7. sess[n].client # NoFd => cli[n].asked = sess[n].host
  BY SessionFacts DEF Asked
<1> QED
  BY <1>2, <1>6, <1>7, SameSockets

(* It stays in its state, and only what it counts or keeps changes.        *)
LEMMA StaysPut ==
  ASSUME NEW S, NEW R, NEW W, NEW V, Tied(S, R, W, V), NEW n \in Sess,
         NEW s \in SessionType, s.state = S[n].state, s.client = S[n].client,
         s.server = S[n].server, s.host = S[n].host, s.kept = S[n].kept, s.kahost = S[n].kahost
  PROVE  Tied([S EXCEPT ![n] = s], R, W, V)
<1>1. SessionOK(s, V)
  <2>1. SessionOK(S[n], V)
    BY DEF Tied
  <2> QED
    BY <2>1 DEF SessionOK
<1>2. s.client \notin Others(S, n) /\ s.server \notin Others(S, n)
  BY OwnAndOthers
<1>3. ASSUME NEW f \in Fds \ Others(S, n)
      PROVE  /\ V[f].up # "none" <=> f = s.server
             /\ f \in R <=> Reads(s, f)
             /\ f \in W <=> Writes(s, f)
  BY OwnBits DEF Reads, Writes
<1>4. R \in SUBSET Fds /\ W \in SUBSET Fds /\ V \in [Fds -> ServerType]
  BY DEF Tied
<1>5. Fits(S, n, s, R, W, V, R, W, V)
  BY <1>1, <1>2, <1>3, <1>4 DEF Fits
<1> QED
  BY <1>5, OneSession

SameEnds(s, t) ==
  /\ t.state = s.state /\ t.client = s.client /\ t.server = s.server
  /\ t.host = s.host /\ t.kept = s.kept /\ t.kahost = s.kahost

LEMMA ReceivedIs ==
  ASSUME NEW s \in SessionType, NEW a \in Responses, NEW pos \in Nat, NEW k \in Nat
  PROVE  Received(s, a, pos, k) \in SessionType /\ SameEnds(s, Received(s, a, pos, k))
<1> DEFINE t == Received(s, a, pos, k)
<1>1. HeaderUnits \in Nat /\ a.body \in Nat /\ a.framed \in BOOLEAN /\ a.ka \in BOOLEAN
  BY ProxyConstants DEF ResponseType
<1>2. CASE s.hdr
  <2>1. t = [s EXCEPT !.buf = k, !.rcvd = s.rcvd + k]
    BY <1>2 DEF Received
  <2>2. s.rcvd + k \in Nat
    BY DEF SessionType
  <2> HIDE DEF t
  <2>3. t \in SessionType
    BY <2>1, <2>2 DEF SessionType
  <2>4. SameEnds(s, t)
    BY <2>1 DEF SameEnds, SessionType
  <2> QED
    BY <2>3, <2>4 DEF t
<1>3. CASE ~s.hdr /\ pos + k < HeaderUnits
  <2>1. t = [s EXCEPT !.buf = k]
    BY <1>3 DEF Received
  <2> HIDE DEF t
  <2>2. t \in SessionType
    BY <2>1 DEF SessionType
  <2>3. SameEnds(s, t)
    BY <2>1 DEF SameEnds, SessionType
  <2> QED
    BY <2>2, <2>3 DEF t
<1>4. CASE ~s.hdr /\ ~(pos + k < HeaderUnits)
  <2> DEFINE body == pos + k - HeaderUnits
             len == IF a.framed THEN a.body ELSE NoLength
             keep == s.keep /\ a.framed
             nokeep == s.nokeep \/ ~a.ka
  <2>1. t = [s EXCEPT !.buf = k, !.hdr = TRUE, !.rcvd = body, !.length = len,
                      !.keep = keep, !.nokeep = nokeep]
    BY <1>4 DEF Received
  <2>2. body \in Nat
    BY <1>1, <1>4
  <2>3. len \in Nat \cup {NoLength} /\ keep \in BOOLEAN /\ nokeep \in BOOLEAN
    BY <1>1
  <2> HIDE DEF t, body, len, keep, nokeep
  <2>4. t \in SessionType
    BY <2>1, <2>2, <2>3 DEF SessionType
  <2>5. SameEnds(s, t)
    BY <2>1 DEF SameEnds, SessionType
  <2> QED
    BY <2>4, <2>5 DEF t
<1> QED
  BY <1>2, <1>3, <1>4

-----------------------------------------------------------------------------
LEMMA WriteRequestKeeps ==
  ASSUME StateInv, NEW n \in Sess, WriteRequest(n)
  PROVE  StateInv' /\ LeavesOthers(n)
<1> DEFINE f == sess[n].server
<1>1. /\ sess[n].state = "CONNECTING" /\ sess[n] \in SessionType /\ f \in Fds /\ Live(n)
      /\ f \notin Others(sess, n) /\ Others(sess, n) \subseteq Fds
      /\ srv \in [Fds -> ServerType] /\ Quiet(srv) /\ cli \in [Sess -> ClientType]
  BY SessionFacts DEF WriteRequest, In, Busy
<1>2. CASE DoClose(n)
  BY <1>1, <1>2, CloseKeeps
<1>3. CASE /\ ChangeState(n, sess[n], "READING", TRUE, FALSE, TRUE, FALSE)
           /\ socknum' = socknum
           /\ UNCHANGED <<srv, cli>>
  BY <1>1, <1>3, MovesOn DEF Busy
<1>4. ASSUME ChangeState(n, sess[n], "READING", TRUE, FALSE, TRUE, FALSE), socknum' = socknum,
             NEW a \in Responses,
             srv' = [srv EXCEPT ![f].resp = a, ![f].sent = 0, ![f].pos = 0],
             cli' = IF sess[n].client = NoFd THEN cli ELSE [cli EXCEPT ![n].due = Units(a)]
      PROVE  StateInv' /\ LeavesOthers(n)
  <2>1. /\ srv' \in [Fds -> ServerType]
        /\ \A g \in Fds : srv'[g].host = srv[g].host /\ srv'[g].up = srv[g].up
        /\ \A g \in Fds \ {f} : srv'[g] = srv[g]
        /\ srv'[f].sent = 0 /\ srv'[f].pos = 0 /\ srv'[f].resp = a
    BY <1>1, <1>4 DEF ServerType
  <2>2. Quiet(srv') /\ \A g \in Others(sess, n) : srv'[g] = srv[g]
    <3>1. Units(a) \in Nat /\ a # Nothing
      BY ProxyConstants DEF Units, ResponseType
    <3>2. QuietServer(srv'[f])
      BY <2>1, <3>1 DEF QuietServer
    <3> QED
      BY <1>1, <2>1, <3>2 DEF Quiet
  <2>3. /\ cli' \in [Sess -> ClientType] /\ cli'[n].asked = cli[n].asked
        /\ \A m \in Sess \ {n} : cli'[m] = cli[m]
    <3>1. Units(a) \in Nat
      BY ProxyConstants DEF Units, ResponseType
    <3> QED
      BY <1>1, <1>4, <3>1 DEF ClientType
  <2> QED
    BY <1>1, <1>4, <2>1, <2>2, <2>3, MovesOn DEF Busy
<1> QED
  BY <1>2, <1>3, <1>4 DEF WriteRequest

LEMMA ReadServerKeeps ==
  ASSUME StateInv, NEW n \in Sess, ReadServer(n)
  PROVE  StateInv' /\ LeavesOthers(n)
<1> DEFINE f == sess[n].server
           v == srv[f]
<1>1. /\ sess[n].state = "READING" /\ sess[n] \in SessionType /\ f \in Fds /\ Live(n)
      /\ f \notin Others(sess, n) /\ Others(sess, n) \subseteq Fds
      /\ srv \in [Fds -> ServerType] /\ Quiet(srv) /\ cli \in [Sess -> ClientType]
      /\ sess \in [Sess -> SessionType] /\ Asked(sess, cli)
  BY SessionFacts DEF ReadServer, In, Busy
<1>2. CASE DoClose(n)
  BY <1>1, <1>2, CloseKeeps
<1>3. ASSUME NEW k \in 1 .. (v.sent - v.pos),
             LET s == Received(sess[n], v.resp, v.pos, k)
             IN  /\ IF s.hdr /\ s.client # NoFd
                    THEN ChangeState(n, s, "WRITING_CLIENT", FALSE, TRUE, FALSE, FALSE)
                    ELSE sess' = [sess EXCEPT ![n] = s] /\ UNCHANGED <<rin, win>>
                 /\ srv' = [srv EXCEPT ![f].pos = @ + k]
                 /\ UNCHANGED <<socknum, cli>>
      PROVE  StateInv' /\ LeavesOthers(n)
  <2> DEFINE s == Received(sess[n], v.resp, v.pos, k)
  <2>1. v.sent \in Nat /\ v.pos \in Nat /\ k \in Nat /\ v.resp \in Responses
    <3>1. v.sent \in Nat /\ v.pos \in Nat /\ v.resp \in Responses \cup {Nothing}
      BY <1>1 DEF ServerType
    <3>2. k \in Nat /\ v.sent # 0
      BY <1>3, <3>1
    <3> QED
      BY <1>1, <3>1, <3>2 DEF Quiet, QuietServer
  <2>2. /\ s \in SessionType /\ s.state = "READING" /\ s.client = sess[n].client
        /\ s.server = sess[n].server /\ s.host = sess[n].host /\ s.kept = sess[n].kept
        /\ s.kahost = sess[n].kahost
    <3>1. s \in SessionType /\ SameEnds(sess[n], s)
      BY <1>1, <2>1, ReceivedIs
    <3> HIDE DEF s
    <3> QED
      BY <1>1, <3>1 DEF SameEnds
  <2>3. /\ IF s.hdr /\ s.client # NoFd
           THEN ChangeState(n, s, "WRITING_CLIENT", FALSE, TRUE, FALSE, FALSE)
           ELSE sess' = [sess EXCEPT ![n] = s] /\ UNCHANGED <<rin, win>>
        /\ srv' = [srv EXCEPT ![f].pos = @ + k] /\ UNCHANGED <<socknum, cli>>
    BY <1>3
  <2> HIDE DEF s
  <2>4. /\ srv' \in [Fds -> ServerType]
        /\ \A g \in Fds : srv'[g].host = srv[g].host /\ srv'[g].up = srv[g].up
        /\ srv'[f].resp = v.resp /\ srv'[f].sent = v.sent /\ srv'[f].pos = v.pos + k
        /\ \A g \in Fds \ {f} : srv'[g] = srv[g]
    BY <1>1, <2>1, <2>3 DEF ServerType
  <2>5. Quiet(srv') /\ \A g \in Others(sess, n) : srv'[g] = srv[g]
    <3>1. QuietServer(v)
      BY <1>1 DEF Quiet
    <3>2. v.pos + k <= v.sent
      BY <1>3, <2>1
    <3>3. QuietServer(srv'[f])
      BY <2>1, <2>4, <3>1, <3>2 DEF QuietServer
    <3> QED
      BY <1>1, <2>4, <3>3 DEF Quiet
  <2>6. CASE ChangeState(n, s, "WRITING_CLIENT", FALSE, TRUE, FALSE, FALSE)
    BY <1>1, <2>2, <2>3, <2>4, <2>5, <2>6, MovesOn DEF Busy
  <2>7. CASE sess' = [sess EXCEPT ![n] = s] /\ UNCHANGED <<rin, win>>
    <3>1. Tied(sess, rin, win, srv')
      BY <2>4, SessionFacts, ServersMayAct
    <3>2. Tied([sess EXCEPT ![n] = s], rin, win, srv')
      BY <1>1, <2>2, <3>1, StaysPut
    <3>3. sess[n].client # NoFd => cli[n].asked = sess[n].host
      BY <1>1 DEF Asked, Busy
    <3>4. sess'[n] = s /\ \A m \in Sess \ {n} : sess'[m] = sess[m]
      BY <1>1, <2>7
    <3>5. Tied(sess', rin', win', srv')
      BY <2>7, <3>2
    <3> QED
      BY <1>1, <2>2, <2>3, <2>5, <3>3, <3>4, <3>5, SameSockets
  <2> QED
    BY <2>3, <2>6, <2>7
<1> QED
  BY <1>2, <1>3 DEF ReadServer

LEMMA ReadClientKeeps ==
  ASSUME StateInv, NEW n \in Sess, ReadClient(n)
  PROVE  StateInv' /\ LeavesOthers(n)
<1>1. /\ sess[n].state = "READING" /\ sess[n] \in SessionType /\ Live(n)
      /\ srv \in [Fds -> ServerType] /\ Quiet(srv) /\ cli \in [Sess -> ClientType]
      /\ Others(sess, n) \subseteq Fds
  BY SessionFacts DEF ReadClient, In
<1>2. CASE DoClose(n)
  BY <1>1, <1>2, CloseKeeps
<1>3. CASE /\ ChangeState(n, sess[n], "WRITING_SERVER", FALSE, FALSE, FALSE, TRUE)
           /\ cli' = [cli EXCEPT ![n].unread = <<>>]
           /\ UNCHANGED <<socknum, srv>>
  <2>1. /\ cli' \in [Sess -> ClientType] /\ cli'[n].asked = cli[n].asked
        /\ \A m \in Sess \ {n} : cli'[m] = cli[m]
    <3>1. <<>> \in Seq(Requests \cup {Extra})
      OBVIOUS
    <3>2. cli[n] \in ClientType /\ cli' = [cli EXCEPT ![n] = [cli[n] EXCEPT !.unread = <<>>]]
      BY <1>1, <1>3
    <3>3. [cli[n] EXCEPT !.unread = <<>>] \in ClientType
          /\ [cli[n] EXCEPT !.unread = <<>>].asked = cli[n].asked
      BY <3>1, <3>2 DEF ClientType
    <3> QED
      BY <1>1, <3>2, <3>3
  <2> QED
    BY <1>1, <1>3, <2>1, MovesOn DEF Busy
<1> QED
  BY <1>2, <1>3 DEF ReadClient

LEMMA WriteServerKeeps ==
  ASSUME StateInv, NEW n \in Sess, WriteServer(n)
  PROVE  StateInv' /\ LeavesOthers(n)
<1>1. /\ sess[n].state = "WRITING_SERVER" /\ sess[n] \in SessionType /\ Live(n)
      /\ srv \in [Fds -> ServerType] /\ Quiet(srv) /\ cli \in [Sess -> ClientType]
      /\ Others(sess, n) \subseteq Fds
      /\ UNCHANGED <<socknum, cli, srv>>
  BY SessionFacts DEF WriteServer, In
<1>2. CASE ChangeState(n, sess[n], "READING", TRUE, FALSE, TRUE, FALSE)
  BY <1>1, <1>2, MovesOn DEF Busy
<1>3. CASE UNCHANGED <<sess, rin, win>>
  BY <1>1, <1>3, UnchangedKeeps
<1> QED
  BY <1>2, <1>3 DEF WriteServer

(* The second branch of WriteClient.                                       *)
Written(n, full) ==
  LET c == [cli[n] EXCEPT !.got = @ + sess[n].buf, !.full = full]
  IN  IF Complete(sess[n])
      THEN /\ DoKeepClose(n)
           /\ cli' = [cli EXCEPT ![n] = [c EXCEPT !.waiting = FALSE, !.asked = NoHost]]
      ELSE /\ ChangeState(n, [sess[n] EXCEPT !.buf = 0], "READING", TRUE, FALSE, TRUE, FALSE)
           /\ cli' = [cli EXCEPT ![n] = c]
           /\ UNCHANGED <<socknum, alive, srv>>

LEMMA WriteClientKeeps ==
  ASSUME StateInv, NEW n \in Sess, WriteClient(n)
  PROVE  StateInv' /\ LeavesOthers(n)
<1>0. CASE DoClose(n)
  <2>1. Live(n)
    BY SessionFacts DEF WriteClient, In
  <2> QED
    BY <1>0, <2>1, CloseKeeps
<1>a. SUFFICES ASSUME NEW full \in BOOLEAN, Written(n, full)
               PROVE  StateInv' /\ LeavesOthers(n)
  BY <1>0 DEF WriteClient, Written
<1> DEFINE c == [cli[n] EXCEPT !.got = @ + sess[n].buf, !.full = full]
           d == [c EXCEPT !.waiting = FALSE, !.asked = NoHost]
           s == [sess[n] EXCEPT !.buf = 0]
<1>1. /\ sess[n].state = "WRITING_CLIENT" /\ sess[n] \in SessionType /\ Live(n)
      /\ srv \in [Fds -> ServerType] /\ Quiet(srv) /\ cli \in [Sess -> ClientType]
      /\ Others(sess, n) \subseteq Fds
  BY SessionFacts DEF WriteClient, In
<1>2. c \in ClientType /\ c.asked = cli[n].asked
  <2>1. cli[n] \in ClientType /\ cli[n].got + sess[n].buf \in Nat
    BY <1>1 DEF ClientType, SessionType
  <2> QED
    BY <2>1 DEF ClientType
<1>3. d \in ClientType
  <2> HIDE DEF c
  <2> QED
    BY <1>2 DEF ClientType
<1>4. /\ s \in SessionType /\ s.client = sess[n].client /\ s.server = sess[n].server
      /\ s.host = sess[n].host
  BY <1>1 DEF SessionType
<1> HIDE DEF c, d, s
<1>6. CASE DoKeepClose(n) /\ cli' = [cli EXCEPT ![n] = d]
  <2>1. cli' \in [Sess -> ClientType] /\ \A m \in Sess \ {n} : cli'[m] = cli[m]
    BY <1>1, <1>3, <1>6
  <2> QED
    BY <1>1, <1>6, <2>1, KeepCloseKeeps
<1>7. CASE /\ ChangeState(n, s, "READING", TRUE, FALSE, TRUE, FALSE)
           /\ cli' = [cli EXCEPT ![n] = c]
           /\ UNCHANGED <<socknum, srv>>
  <2>1. /\ cli' \in [Sess -> ClientType] /\ \A m \in Sess \ {n} : cli'[m] = cli[m]
        /\ cli'[n].asked = cli[n].asked
    BY <1>1, <1>2, <1>7
  <2> QED
    BY <1>1, <1>4, <1>7, <2>1, MovesOn DEF Busy
<1> QED
  BY <1>a, <1>6, <1>7 DEF Written, c, d, s

LEMMA ReadRequestKeeps ==
  ASSUME StateInv, NEW n \in Sess, ReadRequest(n)
  PROVE  StateInv' /\ LeavesOthers(n)
<1>1. /\ In(n, "READ_REQUEST") /\ Live(n) /\ cli \in [Sess -> ClientType]
  BY SessionFacts DEF ReadRequest, In
<1>2. CASE DoClose(n)
  BY <1>1, <1>2, CloseKeeps
<1>3. CASE UNCHANGED <<sess, rin, win, socknum, alive, cli, srv>>
  BY <1>3, UnchangedKeeps
<1>4. ASSUME NEW k \in 1 .. Len(cli[n].unread),
             LET r == Head(cli[n].unread)
                 c == [cli[n] EXCEPT !.unread = SubSeq(@, k + 1, Len(@)), !.got = 0, !.due = 0]
             IN  IF r = Extra \/ r.kind = "bad" \/ (r.kind = "local" /\ ~r.keep)
                 THEN DoClose(n)
                 ELSE IF r.kind = "local"
                 THEN /\ DoKeepClose(n)
                      /\ \E full \in BOOLEAN :
                           cli' = [cli EXCEPT ![n] = [c EXCEPT !.waiting = FALSE, !.full = full,
                                                               !.asked = NoHost]]
                 ELSE /\ Fetch(n, r)
                      /\ cli' = [cli EXCEPT ![n] = [c EXCEPT !.asked = r.host]]
      PROVE  StateInv' /\ LeavesOthers(n)
  <2> DEFINE r == Head(cli[n].unread)
             u == SubSeq(cli[n].unread, k + 1, Len(cli[n].unread))
             c == [cli[n] EXCEPT !.unread = u, !.got = 0, !.due = 0]
             d(full) == [c EXCEPT !.waiting = FALSE, !.full = full, !.asked = NoHost]
             e == [c EXCEPT !.asked = r.host]
  <2>1. /\ cli[n] \in ClientType /\ cli[n].unread \in Seq(Requests \cup {Extra})
        /\ cli[n].unread # <<>>
    <3>1. cli[n] \in ClientType /\ cli[n].unread \in Seq(Requests \cup {Extra})
      BY <1>1 DEF ClientType
    <3>2. Len(cli[n].unread) # 0
      BY <3>1
    <3> QED
      BY <3>1, <3>2
  <2>2. r \in Requests \cup {Extra}
    BY <2>1, HeadTailProperties
  <2>3. u \in Seq(Requests \cup {Extra})
    <3>1. \A i \in k + 1 .. Len(cli[n].unread) : cli[n].unread[i] \in Requests \cup {Extra}
      BY <2>1
    <3>2. k + 1 \in Int /\ Len(cli[n].unread) \in Int
      BY <2>1
    <3> QED
      BY <3>1, <3>2, SubSeqProperties
  <2>4. \/ DoClose(n)
        \/ DoKeepClose(n) /\ \E full \in BOOLEAN : cli' = [cli EXCEPT ![n] = d(full)]
        \/ r # Extra /\ Fetch(n, r) /\ cli' = [cli EXCEPT ![n] = e]
    BY <1>4
  <2> HIDE DEF r, u
  <2>5. c \in ClientType
    BY <2>1, <2>3 DEF ClientType
  <2> HIDE DEF c
  <2>6. \A full \in BOOLEAN : d(full) \in ClientType
    BY <2>5 DEF ClientType
  <2>7. CASE DoKeepClose(n) /\ \E full \in BOOLEAN : cli' = [cli EXCEPT ![n] = d(full)]
    <3> HIDE DEF d
    <3>1. cli' \in [Sess -> ClientType] /\ \A m \in Sess \ {n} : cli'[m] = cli[m]
      BY <1>1, <2>6, <2>7
    <3> QED
      BY <1>1, <2>7, <3>1, KeepCloseKeeps
  <2>8. CASE r # Extra /\ Fetch(n, r) /\ cli' = [cli EXCEPT ![n] = e]
    <3>1. r \in Requests /\ r.host \in Hosts
      BY <2>2, <2>8, ProxyConstants DEF RequestType
    <3>2. e \in ClientType /\ e.asked = r.host
      BY <2>5, <3>1 DEF ClientType
    <3> HIDE DEF e
    <3>3. /\ cli' \in [Sess -> ClientType] /\ \A m \in Sess \ {n} : cli'[m] = cli[m]
          /\ cli'[n].asked = r.host
      BY <1>1, <2>8, <3>2
    <3> QED
      BY <1>1, <2>8, <3>1, <3>3, FetchKeeps
  <2> QED
    BY <1>2, <2>4, <2>7, <2>8
<1> QED
  BY <1>2, <1>3, <1>4 DEF ReadRequest

LEMMA HandleKeeps ==
  ASSUME StateInv, NEW n \in Sess, Handle(n)
  PROVE  StateInv' /\ LeavesOthers(n)
<1>1. CASE NothingReady(n)
  BY <1>1, UnchangedKeeps DEF NothingReady
<1>2. CASE IdleServer(n)
  <2>1. DoClose(n) /\ Live(n)
    BY <1>2, SessionFacts DEF IdleServer, In
  <2> QED
    BY <2>1, CloseKeeps
<1> QED
  BY <1>1, <1>2, ReadRequestKeeps, WriteRequestKeeps, ReadServerKeeps, ReadClientKeeps,
     WriteServerKeeps, WriteClientKeeps DEF Handle

-----------------------------------------------------------------------------
(* What select returned                                                    *)

LEMMA StillReadyKept ==
  ASSUME StateInv, RoundInv, NEW n \in Sess, LeavesOthers(n),
         todo' \subseteq todo, rout' \subseteq rout, wout' \subseteq wout,
         n \notin todo' \/ sess'[n] = NewSession
  PROVE  StillReady(sess', cli', srv', todo', rout', wout')
<1>1. SUFFICES ASSUME NEW m \in todo' \cap Sess, NEW f \in Fds, HasFd(sess', m, f)
               PROVE  /\ f \in rout' => ReadyToRead(sess'[m], cli'[m], srv', f)
                      /\ f \in wout' => ReadyToWrite(sess'[m], cli'[m], srv', f)
  BY DEF StillReady
<1>2. m # n
  BY <1>1, NewSessionIs, ProxyConstants DEF HasFd
<1>3. m \notin FreeNums /\ m \in todo
  BY <1>1 DEF FreeNums
<1>4. sess'[m] = sess[m] /\ cli'[m] = cli[m] /\ srv'[f] = srv[f] /\ HasFd(sess, m, f)
  <2>1. sess'[m] = sess[m] /\ cli'[m] = cli[m]
    BY <1>1, <1>2, <1>3 DEF LeavesOthers
  <2>2. HasFd(sess, m, f)
    BY <1>1, <2>1 DEF HasFd
  <2>3. f \in Others(sess, n)
    BY <1>1, <1>2, <2>2 DEF Others
  <2> QED
    BY <2>1, <2>2, <2>3 DEF LeavesOthers
<1>5. /\ f \in rout => ReadyToRead(sess[m], cli[m], srv, f)
      /\ f \in wout => ReadyToWrite(sess[m], cli[m], srv, f)
  BY <1>1, <1>3, <1>4 DEF RoundInv, StillReady
<1> QED
  BY <1>4, <1>5 DEF ReadyToRead, ReadyToWrite

(* A visit of the session n, or one that changes no other.                 *)
LEMMA VisitKeeps ==
  ASSUME LoopInv, NEW x, Visit(x), NEW n \in Sess, StateInv', LeavesOthers(n),
         x = n \/ n \notin todo \/ sess'[n] = NewSession,
         alive' \in BOOLEAN, backlog' \in 0 .. MaxBacklog
  PROVE  LoopInv'
<1>1. todo' = todo \ {x} /\ rout' \subseteq rout /\ wout' \subseteq wout
  BY DEF Visit
<1>2. StillReady(sess', cli', srv', todo', rout', wout')
  BY <1>1, StillReadyKept DEF LoopInv
<1> QED
  BY <1>1, <1>2 DEF LoopInv, RoundInv

LEMMA NothingChanges ==
  ASSUME LoopInv, NEW x, Visit(x), UNCHANGED <<sess, rin, win, socknum, alive, backlog, cli, srv>>
  PROVE  LoopInv'
<1>1. StateInv'
  BY UnchangedKeeps DEF LoopInv
<1>2. todo' = todo \ {x} /\ rout' \subseteq rout /\ wout' \subseteq wout
  BY DEF Visit
<1>3. StillReady(sess, cli, srv, todo', rout', wout')
  BY <1>2 DEF LoopInv, RoundInv, StillReady
<1> QED
  BY <1>1, <1>2, <1>3 DEF LoopInv, RoundInv

LEMMA SelectKeeps ==
  ASSUME LoopInv, Select
  PROVE  LoopInv'
<1>1. StateInv'
  BY UnchangedKeeps DEF LoopInv, Select
<1>2. /\ \A f \in rout' : f \in Fds /\ Readable(f)
      /\ \A f \in wout' : f \in Fds /\ Writable(f)
      /\ todo' \subseteq Sess \cup {Listen, Operator}
      /\ UNCHANGED <<sess, alive, backlog, cli, srv>>
  BY DEF Select, LoopInv, StateInv, Tied
<1>3. StillReady(sess, cli, srv, todo', rout', wout')
  <2>1. SUFFICES ASSUME NEW n \in todo' \cap Sess, NEW f \in Fds, HasFd(sess, n, f)
                 PROVE  /\ f \in rout' => ReadyToRead(sess[n], cli[n], srv, f)
                        /\ f \in wout' => ReadyToWrite(sess[n], cli[n], srv, f)
    BY DEF StillReady
  <2>2. \A m \in Sess : f = sess[m].client \/ f = sess[m].server => m = n
    BY <2>1 DEF LoopInv, StateInv, Tied, HasFd
  <2>3. f \in rout' => ReadyToRead(sess[n], cli[n], srv, f)
    BY <1>2, <2>2 DEF Readable, ReadyToRead, ClientReadable, ServerReadable
  <2>4. f \in wout' => ReadyToWrite(sess[n], cli[n], srv, f)
    BY <1>2, <2>2 DEF Writable, ReadyToWrite, ClientWritable
  <2> QED
    BY <2>3, <2>4
<1> QED
  BY <1>1, <1>2, <1>3 DEF LoopInv, RoundInv

(* Every handler says whether the program is still alive behind it.        *)
LEMMA Decided ==
  ASSUME NEW n \in Sess, DoClose(n) \/ DoKeepClose(n)
  PROVE  alive' \in BOOLEAN
BY DEF DoClose, DoKeepClose, FindPrefetch

LEMMA HandleDecides ==
  ASSUME LoopInv, NEW n \in Sess, Handle(n)
  PROVE  alive' \in BOOLEAN
<1>1. alive \in BOOLEAN
  BY DEF LoopInv, RoundInv
<1>2. ASSUME NEW r, Fetch(n, r) PROVE alive' \in BOOLEAN
  BY <1>1, <1>2 DEF Fetch
<1> QED
  BY <1>1, <1>2, Decided DEF Handle, NothingReady, ReadRequest, IdleServer, WriteRequest,
     ReadServer, ReadClient, WriteServer, WriteClient

LEMMA LoopKeeps ==
  ASSUME LoopInv, Loop
  PROVE  LoopInv'
<1>1. ASSUME Accept PROVE LoopInv'
  <2>1. PICK n \in FreeNums, f \in Fds \ OwnedFds : AcceptInto(n, f)
    BY <1>1 DEF Accept
  <2>2. StateInv' /\ LeavesOthers(n)
    BY <2>1, AcceptKeeps DEF LoopInv
  <2>3. n \in Sess /\ n \notin todo
    BY DEF FreeNums
  <2>4. Visit(Listen) /\ alive' \in BOOLEAN /\ backlog' \in 0 .. MaxBacklog
    <3>1. Visit(Listen) /\ backlog > 0 /\ backlog' = backlog - 1 /\ alive' \in BOOLEAN
      BY <1>1, <2>1 DEF Accept, AcceptInto
    <3> QED
      BY <3>1, ProxyConstants DEF LoopInv, RoundInv
  <2> QED
    BY <2>2, <2>3, <2>4, VisitKeeps
<1>2. ASSUME AcceptNothing PROVE LoopInv'
  BY <1>2, NothingChanges DEF AcceptNothing
<1>3. ASSUME OperatorVisit PROVE LoopInv'
  <2>1. Visit(Operator) /\ alive' \in BOOLEAN /\ backlog' \in 0 .. MaxBacklog
    BY <1>3, Decided DEF OperatorVisit, LoopInv, RoundInv
  <2>2. ASSUME NEW n \in Sess, Live(n), DoClose(n) PROVE LoopInv'
    <3>1. StateInv' /\ LeavesOthers(n) /\ sess'[n] = NewSession
      BY <2>2, CloseKeeps DEF LoopInv
    <3> QED
      BY <2>1, <3>1, VisitKeeps
  <2>3. CASE UNCHANGED <<sess, rin, win, socknum, alive, cli, srv>>
    BY <1>3, <2>1, <2>3, NothingChanges DEF OperatorVisit
  <2> QED
    BY <1>3, <2>2, <2>3 DEF OperatorVisit
<1>4. ASSUME NEW n \in Sess, Handle(n) PROVE LoopInv'
  <2>1. StateInv' /\ LeavesOthers(n)
    BY <1>4, HandleKeeps DEF LoopInv
  <2>2. Visit(n) /\ alive' \in BOOLEAN /\ backlog' \in 0 .. MaxBacklog
    BY <1>4, HandleDecides DEF LoopInv, RoundInv, Handle, NothingReady, ReadRequest, IdleServer,
                WriteRequest, ReadServer, ReadClient, WriteServer, WriteClient
  <2> QED
    BY <2>1, <2>2, VisitKeeps
<1> QED
  BY <1>1, <1>2, <1>3, <1>4, SelectKeeps DEF Loop

-----------------------------------------------------------------------------
(* The world: what was ready stays ready                                   *)

LEMMA ClientsKeep ==
  ASSUME LoopInv, NEW n \in Sess, NEW c \in ClientType,
         cli' = [cli EXCEPT ![n] = c], c.asked = cli[n].asked,
         cli[n].unread # <<>> => c.unread # <<>>, cli[n].eof => c.eof, c.full => cli[n].full,
         UNCHANGED <<proxyVars, backlog, srv>>
  PROVE  LoopInv'
<1>1. /\ UNCHANGED <<sess, rin, win, socknum, srv, todo, rout, wout, alive, backlog>>
      /\ cli \in [Sess -> ClientType]
  BY DEF proxyVars, LoopInv, StateInv
<1>2. /\ cli' \in [Sess -> ClientType] /\ cli'[n] = c
      /\ \A m \in Sess \ {n} : cli'[m] = cli[m]
  BY <1>1
<1>3. Asked(sess, cli')
  BY <1>2 DEF LoopInv, StateInv, Asked
<1>4. StillReady(sess, cli', srv, todo, rout, wout)
  BY <1>2 DEF LoopInv, RoundInv, StillReady, ReadyToRead, ReadyToWrite
<1>5. StateInv'
  BY <1>1, <1>2, <1>3 DEF LoopInv, StateInv
<1> QED
  BY <1>1, <1>4, <1>5 DEF LoopInv, RoundInv

LEMMA ServersKeep ==
  ASSUME LoopInv, NEW f \in Fds, NEW v \in ServerType, srv[f].up # "none",
         srv' = [srv EXCEPT ![f] = v], v.host = srv[f].host, v.up # "none",
         QuietServer(v),
         srv[f].sent > srv[f].pos => v.sent > v.pos,
         srv[f].up = "closed" => v.up = "closed", srv[f].up # "connecting" => v.up # "connecting",
         UNCHANGED <<proxyVars, backlog, cli>>
  PROVE  LoopInv'
<1>1. /\ UNCHANGED <<sess, rin, win, socknum, cli, todo, rout, wout, alive, backlog>>
      /\ srv \in [Fds -> ServerType] /\ Tied(sess, rin, win, srv) /\ Quiet(srv)
  BY DEF proxyVars, LoopInv, StateInv, Tied
<1>2. /\ srv' \in [Fds -> ServerType] /\ srv'[f] = v
      /\ \A g \in Fds \ {f} : srv'[g] = srv[g]
  BY <1>1
<1>3. \A g \in Fds : /\ srv'[g].host = srv[g].host
                     /\ srv'[g].up # "none" <=> srv[g].up # "none"
  BY <1>2
<1>4. Tied(sess, rin, win, srv')
  BY <1>1, <1>2, <1>3, ServersMayAct
<1>5. Quiet(srv')
  BY <1>1, <1>2 DEF Quiet
<1>6. StillReady(sess, cli, srv', todo, rout, wout)
  <2>1. SUFFICES ASSUME NEW m \in todo \cap Sess, NEW g \in Fds, HasFd(sess, m, g)
                 PROVE  /\ g \in rout => ReadyToRead(sess[m], cli[m], srv', g)
                        /\ g \in wout => ReadyToWrite(sess[m], cli[m], srv', g)
    BY DEF StillReady
  <2>2. /\ g \in rout => ReadyToRead(sess[m], cli[m], srv, g)
        /\ g \in wout => ReadyToWrite(sess[m], cli[m], srv, g)
    BY <2>1 DEF LoopInv, RoundInv, StillReady
  <2>3. CASE g = f
    BY <1>2, <2>2, <2>3 DEF ReadyToRead, ReadyToWrite
  <2>4. CASE g # f
    BY <1>2, <2>2, <2>4 DEF ReadyToRead, ReadyToWrite
  <2> QED
    BY <2>3, <2>4
<1>7. StateInv'
  BY <1>1, <1>4, <1>5 DEF LoopInv, StateInv
<1> QED
  BY <1>1, <1>6, <1>7 DEF LoopInv, RoundInv

LEMMA WorldKeeps ==
  ASSUME LoopInv, World
  PROVE  LoopInv'
<1>1. /\ cli \in [Sess -> ClientType] /\ srv \in [Fds -> ServerType] /\ Quiet(srv)
  BY DEF LoopInv, StateInv, Tied
<1>2. ASSUME ClientConnects PROVE LoopInv'
  <2>1. backlog' \in 0 .. MaxBacklog
        /\ UNCHANGED <<sess, rin, win, socknum, cli, srv, todo, rout, wout, alive>>
    BY <1>2, ProxyConstants DEF ClientConnects, proxyVars, LoopInv, RoundInv
  <2>2. StateInv'
    BY <2>1, UnchangedKeeps DEF LoopInv
  <2> QED
    BY <2>1, <2>2 DEF LoopInv, RoundInv
<1>3. ASSUME NEW n \in Sess, ClientAsks(n) PROVE LoopInv'
  <2>1. PICK r \in Requests : cli' = [cli EXCEPT ![n].unread = Append(@, r), ![n].waiting = TRUE]
    BY <1>3 DEF ClientAsks
  <2> DEFINE c == [cli[n] EXCEPT !.unread = Append(@, r), !.waiting = TRUE]
  <2>2. cli[n] \in ClientType /\ cli[n].unread \in Seq(Requests \cup {Extra})
    BY <1>1 DEF ClientType
  <2>3. /\ Append(cli[n].unread, r) \in Seq(Requests \cup {Extra})
        /\ Append(cli[n].unread, r) # <<>>
    BY <2>2, AppendProperties
  <2>4. /\ c \in ClientType /\ c.asked = cli[n].asked /\ c.eof = cli[n].eof /\ c.full = cli[n].full
        /\ c.unread = Append(cli[n].unread, r)
    BY <2>2, <2>3 DEF ClientType
  <2>5. cli' = [cli EXCEPT ![n] = c]
    BY <2>1
  <2> HIDE DEF c
  <2> QED
    BY <1>3, <2>3, <2>4, <2>5, ClientsKeep DEF ClientAsks
<1>4. ASSUME NEW n \in Sess, ClientSendsExtra(n) PROVE LoopInv'
  <2> DEFINE c == [cli[n] EXCEPT !.unread = Append(@, Extra)]
  <2>2. cli[n] \in ClientType /\ cli[n].unread \in Seq(Requests \cup {Extra})
    BY <1>1 DEF ClientType
  <2>3. /\ Append(cli[n].unread, Extra) \in Seq(Requests \cup {Extra})
        /\ Append(cli[n].unread, Extra) # <<>>
    BY <2>2, AppendProperties
  <2>4. /\ c \in ClientType /\ c.asked = cli[n].asked /\ c.eof = cli[n].eof /\ c.full = cli[n].full
        /\ c.unread = Append(cli[n].unread, Extra)
    BY <2>2, <2>3 DEF ClientType
  <2>5. cli' = [cli EXCEPT ![n] = c]
    BY <1>4 DEF ClientSendsExtra
  <2> HIDE DEF c
  <2> QED
    BY <1>4, <2>3, <2>4, <2>5, ClientsKeep DEF ClientSendsExtra
<1>5. ASSUME NEW n \in Sess, ClientCloses(n) PROVE LoopInv'
  <2> DEFINE c == [cli[n] EXCEPT !.eof = TRUE]
  <2>1. /\ c \in ClientType /\ c.asked = cli[n].asked /\ c.eof /\ c.unread = cli[n].unread
        /\ c.full = cli[n].full
    BY <1>1 DEF ClientType
  <2>2. cli' = [cli EXCEPT ![n] = c]
    BY <1>5 DEF ClientCloses
  <2> HIDE DEF c
  <2> QED
    BY <1>5, <2>1, <2>2, ClientsKeep DEF ClientCloses
<1>9. ASSUME NEW n \in Sess, ClientReads(n) PROVE LoopInv'
  <2> DEFINE c == [cli[n] EXCEPT !.full = FALSE]
  <2>1. /\ c \in ClientType /\ c.asked = cli[n].asked /\ c.eof = cli[n].eof
        /\ c.unread = cli[n].unread /\ ~c.full
    BY <1>1 DEF ClientType
  <2>2. cli' = [cli EXCEPT ![n] = c]
    BY <1>9 DEF ClientReads
  <2> HIDE DEF c
  <2> QED
    BY <1>9, <2>1, <2>2, ClientsKeep DEF ClientReads
<1>6. ASSUME NEW f \in Fds, ServerConnects(f) PROVE LoopInv'
  <2>1. PICK u \in {"up", "closed"} : srv' = [srv EXCEPT ![f].up = u]
    BY <1>6 DEF ServerConnects
  <2> DEFINE v == [srv[f] EXCEPT !.up = u]
  <2>2. /\ v \in ServerType /\ v.host = srv[f].host /\ v.up = u /\ v.resp = srv[f].resp
        /\ v.sent = srv[f].sent /\ v.pos = srv[f].pos
    BY <1>1 DEF ServerType
  <2>3. srv' = [srv EXCEPT ![f] = v]
    BY <2>1
  <2>4. srv[f].up = "connecting" /\ UNCHANGED <<proxyVars, backlog, cli>>
    BY <1>6 DEF ServerConnects
  <2>5. QuietServer(v)
    BY <1>1, <2>2 DEF Quiet, QuietServer
  <2> HIDE DEF v
  <2> QED
    BY <2>2, <2>3, <2>4, <2>5, ServersKeep
<1>7. ASSUME NEW f \in Fds, ServerSends(f) PROVE LoopInv'
  <2>1. PICK k \in srv[f].sent + 1 .. Units(srv[f].resp) : srv' = [srv EXCEPT ![f].sent = k]
    BY <1>7 DEF ServerSends
  <2> DEFINE v == [srv[f] EXCEPT !.sent = k]
  <2>2. srv[f].sent \in Nat /\ srv[f].pos \in Nat /\ k \in Nat /\ k > srv[f].sent
    BY <1>1, <2>1 DEF ServerType
  <2>3. /\ v \in ServerType /\ v.host = srv[f].host /\ v.up = srv[f].up /\ v.resp = srv[f].resp
        /\ v.sent = k /\ v.pos = srv[f].pos
    BY <1>1, <2>2 DEF ServerType
  <2>4. srv' = [srv EXCEPT ![f] = v]
    BY <2>1
  <2>5. srv[f].up = "up" /\ srv[f].resp # Nothing /\ UNCHANGED <<proxyVars, backlog, cli>>
    BY <1>7 DEF ServerSends
  <2>6. srv[f].sent > srv[f].pos => v.sent > v.pos
    BY <2>2, <2>3
  <2>7. QuietServer(v)
    <3>1. Units(srv[f].resp) \in Nat
      BY <1>1, <2>5, ProxyConstants DEF Units, ServerType, ResponseType
    <3>2. k <= Units(srv[f].resp) /\ srv[f].pos <= srv[f].sent
      BY <1>1, <2>1, <2>2, <3>1 DEF Quiet, QuietServer
    <3> QED
      BY <2>2, <2>3, <2>5, <3>1, <3>2 DEF QuietServer
  <2> HIDE DEF v
  <2> QED
    BY <2>3, <2>4, <2>5, <2>6, <2>7, ServersKeep
<1>8. ASSUME NEW f \in Fds, ServerCloses(f) PROVE LoopInv'
  <2> DEFINE v == [srv[f] EXCEPT !.up = "closed"]
  <2>1. /\ v \in ServerType /\ v.host = srv[f].host /\ v.up = "closed" /\ v.resp = srv[f].resp
        /\ v.sent = srv[f].sent /\ v.pos = srv[f].pos
    BY <1>1 DEF ServerType
  <2>2. srv[f].up = "up" /\ UNCHANGED <<proxyVars, backlog, cli>>
        /\ srv' = [srv EXCEPT ![f] = v]
    BY <1>8 DEF ServerCloses
  <2>3. QuietServer(v)
    BY <1>1, <2>1 DEF Quiet, QuietServer
  <2> HIDE DEF v
  <2> QED
    BY <2>1, <2>2, <2>3, ServersKeep
<1> QED
  BY <1>2, <1>3, <1>4, <1>5, <1>6, <1>7, <1>8, <1>9 DEF World

-----------------------------------------------------------------------------
(* The specification                                                       *)

LEMMA InitInv == Init => LoopInv
<1> SUFFICES ASSUME Init PROVE LoopInv
  OBVIOUS
<1>1. NoServer \in ServerType /\ NoServer.up = "none" /\ NoServer.sent = 0
  BY DEF NoServer, ServerType
<1>2. NewClient \in ClientType
  BY DEF NewClient, ClientType
<1>3. /\ sess = [n \in Sess |-> NewSession] /\ srv = [f \in Fds |-> NoServer]
      /\ cli = [n \in Sess |-> NewClient]
      /\ rin = {} /\ win = {} /\ rout = {} /\ wout = {} /\ todo = {}
      /\ socknum = 0 /\ alive = TRUE /\ backlog = 0
  BY DEF Init
<1>4. \A n \in Sess, f \in Fds :
        ~HasFd(sess, n, f) /\ f # sess[n].server /\ ~Reads(sess[n], f) /\ ~Writes(sess[n], f)
  BY <1>3, NewSessionIs, ProxyConstants DEF HasFd, Reads, Writes
<1>5. \A n \in Sess : SessionOK(sess[n], srv) /\ sess[n].state = "NONE"
  BY <1>3, NewSessionIs
<1>6. Tied(sess, rin, win, srv)
  BY <1>1, <1>3, <1>4, <1>5, NewSessionIs DEF Tied
<1>7. socknum = Cardinality(Owned(sess))
  <2>1. Owned(sess) = {}
    BY <1>4 DEF Owned
  <2> QED
    BY <1>3, <2>1, FS_EmptySet
<1>8. Quiet(srv) /\ Asked(sess, cli) /\ cli \in [Sess -> ClientType]
  BY <1>1, <1>2, <1>3, <1>5, NewServerQuiet DEF Quiet, Asked, Busy
<1>9. RoundInv
  BY <1>3, ProxyConstants DEF RoundInv, StillReady
<1> QED
  BY <1>6, <1>7, <1>8, <1>9 DEF LoopInv, StateInv

LEMMA NextInv == LoopInv /\ [Next]_vars => LoopInv'
<1> SUFFICES ASSUME LoopInv, [Next]_vars PROVE LoopInv'
  OBVIOUS
<1>1. CASE UNCHANGED vars
  <2>1. UNCHANGED <<sess, rin, win, rout, wout, todo, socknum, alive, backlog, cli, srv>>
    BY <1>1 DEF vars
  <2>2. StateInv'
    BY <2>1, UnchangedKeeps DEF LoopInv
  <2> QED
    BY <2>1, <2>2 DEF LoopInv, RoundInv
<1>2. CASE Dead
  BY <1>1, <1>2 DEF Dead
<1> QED
  BY <1>1, <1>2, LoopKeeps, WorldKeeps DEF Next

(* The inductive invariant holds in every state.                           *)
THEOREM LoopInvariant == Spec => []LoopInv
<1> QED
  BY InitInv, NextInv, PTL DEF Spec

(* The loop never leaves its types: what was read is counted in natural    *)
(* numbers, and descriptors and sessions are those there are.              *)
THEOREM ProxyTypes == Spec => []TypeOK
<1>1. LoopInv => TypeOK
  <2> SUFFICES ASSUME LoopInv PROVE TypeOK
    OBVIOUS
  <2>1. socknum \in Nat
    <3>1. IsFiniteSet(Owned(sess))
      <4>1. Owned(sess) \in SUBSET Fds
        BY DEF Owned
      <4> QED
        BY <4>1, ProxyConstants, FS_Subset
    <3> QED
      BY <3>1, FS_CardinalityType DEF LoopInv, StateInv
  <2> QED
    BY <2>1 DEF LoopInv, StateInv, RoundInv, Tied, TypeOK
<1> QED
  BY <1>1, LoopInvariant, PTL

(* Every descriptor has one owner and is open as long as it has one, and   *)
(* SOCKETNUM counts them, however sessions are closed, kept, connected     *)
(* again or started to fetch ahead.                                        *)
THEOREM SocketsNeverLeak == Spec => []SocketsAccounted
<1>1. LoopInv => SocketsAccounted
  <2> SUFFICES ASSUME LoopInv PROVE SocketsAccounted
    OBVIOUS
  <2>1. Tied(sess, rin, win, srv) /\ StateInv
    BY DEF LoopInv, StateInv
  <2>2. socknum = Cardinality(OwnedFds)
    BY <2>1, OwnedIs DEF StateInv
  <2>3. \A n \in Sess : sess[n].client = sess[n].server => sess[n].client = NoFd
    BY <2>1 DEF Tied, SessionOK
  <2>4. \A n, m \in Sess :
          n # m => {sess[n].client, sess[n].server} \cap {sess[m].client, sess[m].server} \subseteq {NoFd}
    <3>1. \A n \in Sess : sess[n].client \in Fds \cup {NoFd} /\ sess[n].server \in Fds \cup {NoFd}
      BY <2>1, OwnAndOthers
    <3> QED
      BY <2>1, <3>1 DEF Tied, HasFd
  <2>5. \A f \in Fds : srv[f].up # "none" <=> \E n \in Sess : f = sess[n].server
    BY <2>1 DEF Tied
  <2> QED
    BY <2>2, <2>3, <2>4, <2>5 DEF SocketsAccounted
<1> QED
  BY <1>1, LoopInvariant, PTL

(* select waits for exactly what the state of each session needs, whatever *)
(* happened to the others.                                                 *)
THEOREM PollsAsNeeded == Spec => []PollsWhatStatesNeed
<1>1. LoopInv => PollsWhatStatesNeed
  <2> SUFFICES ASSUME LoopInv PROVE PollsWhatStatesNeed
    OBVIOUS
  <2>1. Tied(sess, rin, win, srv) /\ StateInv
    BY DEF LoopInv, StateInv
  <2>2. rin \cup win \subseteq OwnedFds
    <3>1. ASSUME NEW f \in rin \cup win PROVE f \in Owned(sess)
      <4>1. f \in Fds /\ \E n \in Sess : Reads(sess[n], f) \/ Writes(sess[n], f)
        BY <2>1 DEF Tied
      <4> QED
        BY <4>1 DEF Owned, HasFd, Reads, Writes
    <3> QED
      BY <2>1, <3>1, OwnedIs
  <2>3. ASSUME NEW n \in Sess, NEW f \in Fds, HasFd(sess, n, f)
        PROVE  (f \in rin <=> Reads(sess[n], f)) /\ (f \in win <=> Writes(sess[n], f))
    <3>1. f \notin Others(sess, n)
      BY <2>1, <2>3 DEF Tied, Others
    <3> QED
      BY <2>1, <3>1, OwnBits
  <2>4. \A n \in Sess : sess[n].client = sess[n].server => sess[n].client = NoFd
    BY <2>1 DEF Tied, SessionOK
  <2>5. ASSUME NEW n \in Sess, NEW f \in Fds
        PROVE  /\ f = sess[n].client =>
                    /\ f \in rin <=> sess[n].state \in {"READ_REQUEST", "READING"}
                    /\ f \in win <=> In(n, "WRITING_CLIENT")
               /\ f = sess[n].server =>
                    /\ f \in rin <=> sess[n].state \in {"READ_REQUEST", "READING"}
                    /\ f \in win <=> sess[n].state \in {"CONNECTING", "WRITING_SERVER"}
    BY <2>3, <2>4, ProxyConstants DEF HasFd, Reads, Writes, In
  <2> QED
    BY <2>2, <2>5 DEF PollsWhatStatesNeed
<1> QED
  BY <1>1, LoopInvariant, PTL

(* A request is only written to a connection to the host it names, through *)
(* any sequence of keep-alive requests to several hosts.                   *)
THEOREM AlwaysRightServer == Spec => []RightServer
<1>1. LoopInv => RightServer
  <2> SUFFICES ASSUME LoopInv, NEW n \in Sess, sess[n].state \in Busy, sess[n].client # NoFd
               PROVE  srv[sess[n].server].host = cli[n].asked
    BY DEF RightServer
  <2>1. cli[n].asked = sess[n].host /\ SessionOK(sess[n], srv)
    BY DEF LoopInv, StateInv, Asked, Tied
  <2> QED
    BY <2>1 DEF SessionOK
<1> QED
  BY <1>1, LoopInvariant, PTL

(* What select reported of a socket still holds when its session's handler  *)
(* relies on it, although sessions are closed and descriptors used again in *)
(* between.                                                                 *)
THEOREM ReadinessLasts == Spec => []ReadyWhenUsed
<1>1. LoopInv => ReadyWhenUsed
  <2> SUFFICES ASSUME LoopInv, NEW n \in todo \cap Sess, NEW f \in Fds,
                      f \in {sess[n].client, sess[n].server}
               PROVE  (f \in rout => Readable(f)) /\ (f \in wout => Writable(f))
    BY DEF ReadyWhenUsed
  <2>1. /\ f \in rout => ReadyToRead(sess[n], cli[n], srv, f)
        /\ f \in wout => ReadyToWrite(sess[n], cli[n], srv, f)
    BY DEF LoopInv, RoundInv, StillReady, HasFd
  <2> QED
    BY <2>1 DEF ReadyToRead, ReadyToWrite, Readable, Writable, ClientReadable, ServerReadable,
                ClientWritable
<1> QED
  BY <1>1, LoopInvariant, PTL
=============================================================================
