-------------------------- MODULE DownloadsProofs --------------------------
(***************************************************************************)
(* Proofs about the downloaders, for every response and every way it is    *)
(* cut into packets.                                                       *)
(***************************************************************************)
EXTENDS Downloads, SequenceTheorems, WellFoundedInduction, TLAPS

(* A response so far: sequences of bytes, no end of the line in the line   *)
(* and no end of the head in the head as long as they are being read.      *)
WellFormed(r) ==
  /\ r \in [mode : {"line", "head", "body", "copy"},
            line : Seq(Bytes), head : Seq(Bytes), body : Seq(Bytes)]
  /\ r.mode = "line" => At(CRLF, r.line) = {} /\ r.head = << >>
  /\ r.mode = "head" => At(HeadEnd, r.head) = {}

(* A client has not more of a body than it has read, and while it fetches  *)
(* there is a URL to fetch.                                                *)
GoodClient(c) ==
  /\ WellFormed(resp[c]) /\ Len(resp[c].body) <= size[c]
  /\ c \in Copying => resp[c].mode = "copy"
  /\ url[c] >= 1 /\ url[c] <= Len(Urls[c]) + 1
  /\ state[c] \in {"reading", "print"} => url[c] <= Len(Urls[c])

(* The clients' variables, and what is on the wire and to be written.      *)
ClientInv ==
  /\ url \in [Clients -> Nat] /\ size \in [Clients -> Nat]
  /\ state \in [Clients -> {"start", "reading", "print", "ended", "killed", "undefined"}]
  /\ resp = [c \in Clients |-> resp[c]]
  /\ \A c \in Clients : GoodClient(c)

WireInv ==
  /\ wire \in [Clients -> Seq(Bytes)] /\ left \in [Servers -> Seq(Bytes)]
  /\ queue \in [Servers -> Seq(Clients)] /\ sc \in [Servers -> Clients \cup {Nobody}]
  /\ server \in [Servers -> {"accept", "request", "respond", "dead"}]
  /\ \A s \in Servers : sc[s] # Nobody <=> server[s] \in {"request", "respond"}

DownInv == ClientInv /\ WireInv

-----------------------------------------------------------------------------
(* The operators                                                           *)

LEMMA MinOfTwo ==
  ASSUME NEW a \in Int, NEW b \in Int
  PROVE  /\ Min({a, b}) \in {a, b}
         /\ Min({a, b}) <= a /\ Min({a, b}) <= b
<1>1. \E x \in {a, b} : \A y \in {a, b} : x <= y
  OBVIOUS
<1> QED
  BY <1>1 DEF Min

(* A non-empty set of naturals has a least element.                        *)
LEMMA MinExists ==
  ASSUME NEW S \in SUBSET Nat, S # {}
  PROVE  Min(S) \in S
<1>1. PICK d \in S : \A y \in S : ~(<<y, d>> \in OpToRel(<, Nat))
  BY NatLessThanWellFounded, WFMin
<1>2. ASSUME NEW y \in S PROVE d <= y
  <2>1. d \in Nat /\ y \in Nat
    OBVIOUS
  <2>2. ~(y < d)
    BY <1>1, <2>1 DEF OpToRel
  <2> QED
    BY <2>1, <2>2
<1> QED
  BY <1>2 DEF Min

(* A part of a sequence from its start is no longer than the sequence.     *)
LEMMA UptoIs ==
  ASSUME NEW s \in Seq(Bytes), NEW n \in Int
  PROVE  /\ Upto(s, n) \in Seq(Bytes)
         /\ Len(Upto(s, n)) \in Nat /\ Len(Upto(s, n)) <= Len(s)
<1> DEFINE m == Min({Len(s), n})
<1>1. Len(s) \in Nat
  BY LenProperties
<1>2. m \in Int /\ m <= Len(s)
  <2>1. Len(s) \in Int
    BY <1>1
  <2>2. m \in {Len(s), n} /\ m <= Len(s)
    BY <2>1, MinOfTwo
  <2> QED
    BY <2>1, <2>2
<1>3. \A i \in 1 .. m : s[i] \in Bytes
  BY <1>1, <1>2
<1> HIDE DEF m
<1>4. /\ SubSeq(s, 1, m) \in Seq(Bytes)
      /\ Len(SubSeq(s, 1, m)) = IF 1 <= m THEN m - 1 + 1 ELSE 0
  BY <1>2, <1>3, SubSeqProperties
<1>5. Upto(s, n) = SubSeq(s, 1, m)
  BY DEF Upto, m
<1> QED
  BY <1>1, <1>2, <1>4, <1>5

(* memmove without a shorter length leaves as many bytes as there were.    *)
LEMMA ShiftKeepsLength ==
  ASSUME NEW b \in Seq(Bytes), NEW k \in Nat
  PROVE  Shift(b, k) \in Seq(Bytes) /\ Len(Shift(b, k)) = Len(b)
<1>1. Len(b) \in Nat
  BY LenProperties
<1>2. CASE k < Len(b)
  <2> DEFINE u == SubSeq(b, k + 1, Len(b))
             v == SubSeq(b, Len(b) - k + 1, Len(b))
  <2>1. u \in Seq(Bytes) /\ Len(u) = Len(b) - k
    <3>1. \A i \in k + 1 .. Len(b) : b[i] \in Bytes
      BY <1>1
    <3>2. u \in Seq(Bytes) /\ Len(u) = IF k + 1 <= Len(b) THEN Len(b) - (k + 1) + 1 ELSE 0
      BY <1>1, <3>1, SubSeqProperties
    <3> QED
      BY <1>1, <1>2, <3>2
  <2>2. v \in Seq(Bytes) /\ Len(v) = k
    <3>1. \A i \in Len(b) - k + 1 .. Len(b) : b[i] \in Bytes
      BY <1>1, <1>2
    <3>2. /\ v \in Seq(Bytes)
          /\ Len(v) = IF Len(b) - k + 1 <= Len(b) THEN Len(b) - (Len(b) - k + 1) + 1 ELSE 0
      BY <1>1, <3>1, SubSeqProperties
    <3> QED
      BY <1>1, <1>2, <3>2
  <2>3. Shift(b, k) = u \o v
    BY <1>2 DEF Shift
  <2> HIDE DEF u, v
  <2> QED
    BY <1>1, <2>1, <2>2, <2>3, ConcatProperties
<1>3. CASE ~(k < Len(b))
  BY <1>3 DEF Shift
<1> QED
  BY <1>2, <1>3

(* Find returns an occurrence if there is one.                             *)
LEMMA FindSpec ==
  ASSUME NEW pat, NEW s \in Seq(Bytes)
  PROVE  /\ Find(pat, s) = 0 => At(pat, s) = {}
         /\ Find(pat, s) # 0 => Find(pat, s) \in At(pat, s)
<1>1. Len(s) \in Nat
  BY LenProperties
<1>2. At(pat, s) \in SUBSET Nat /\ 0 \notin At(pat, s)
  BY <1>1 DEF At
<1>3. CASE At(pat, s) = {}
  BY <1>3 DEF Find
<1>4. CASE At(pat, s) # {}
  <2>1. Min(At(pat, s)) \in At(pat, s)
    BY <1>2, <1>4, MinExists
  <2> QED
    BY <1>2, <1>4, <2>1 DEF Find
<1> QED
  BY <1>3, <1>4

(* An occurrence that was not there before ends in what was added.         *)
LEMMA FoundInNew ==
  ASSUME NEW pat, Len(pat) \in Nat \ {0}, NEW s \in Seq(Bytes), NEW u \in Seq(Bytes),
         At(pat, s) = {}, NEW i \in At(pat, s \o u)
  PROVE  i \in Nat /\ i + Len(pat) > Len(s) + 1
<1>1. Len(s) \in Nat /\ Len(u) \in Nat
  BY LenProperties
<1>2. /\ Len(s \o u) = Len(s) + Len(u)
      /\ \A j \in 1 .. Len(s) + Len(u) : (s \o u)[j] = IF j <= Len(s) THEN s[j] ELSE u[j - Len(s)]
  BY ConcatProperties
<1>3. i \in Nat /\ i >= 1 /\ \A j \in 1 .. Len(pat) : (s \o u)[i + j - 1][2] = pat[j]
  BY <1>1, <1>2 DEF At
<1>4. ASSUME i + Len(pat) <= Len(s) + 1 PROVE FALSE
  <2>1. ASSUME NEW j \in 1 .. Len(pat) PROVE s[i + j - 1][2] = pat[j]
    <3>1. i + j - 1 \in 1 .. Len(s)
      BY <1>1, <1>3, <1>4
    <3>2. (s \o u)[i + j - 1] = s[i + j - 1]
      BY <1>1, <1>2, <3>1
    <3> QED
      BY <1>3, <3>2
  <2>2. i \in At(pat, s)
    <3>1. i \in 1 .. Len(s)
      BY <1>1, <1>3, <1>4
    <3> QED
      BY <1>4, <2>1, <3>1 DEF At
  <2> QED
    BY <2>2
<1> QED
  BY <1>1, <1>3, <1>4

LEMMA PatternLengths == Len(CRLF) = 2 /\ Len(HeadEnd) = 4
BY DEF CRLF, HeadEnd

-----------------------------------------------------------------------------
(* The parser                                                              *)

(* What one packet b may do to the response r.                             *)
Grows(r, b, q) ==
  /\ WellFormed(q) /\ Len(q.body) <= Len(r.body) + Len(b)
  /\ r.mode = "copy" => q.mode = "copy"

(* The four fields are sequences of bytes.                                 *)
Response4 == [mode : {"line", "head", "body", "copy"},
              line : Seq(Bytes), head : Seq(Bytes), body : Seq(Bytes)]

LEMMA InBodyGrows ==
  ASSUME NEW r \in Response4, r.mode # "copy", NEW b \in Seq(Bytes)
  PROVE  Grows(r, b, InBody(r, b))
<1>1. r.body \in Seq(Bytes) /\ Len(r.body) \in Nat /\ Len(b) \in Nat
  BY LenProperties DEF Response4
<1> DEFINE u == Upto(b, MaxBody - Len(r.body))
<1>2. u \in Seq(Bytes) /\ Len(u) \in Nat /\ Len(u) <= Len(b)
  <2>1. MaxBody - Len(r.body) \in Int
    BY <1>1, WwGetConstants
  <2> QED
    BY <2>1, UptoIs
<1> HIDE DEF u
<1>3. r.body \o u \in Seq(Bytes) /\ Len(r.body \o u) = Len(r.body) + Len(u)
  BY <1>1, <1>2, ConcatProperties
<1>4. InBody(r, b) = [r EXCEPT !.mode = "body", !.body = r.body \o u]
  BY DEF InBody, u, Response4
<1>5. /\ InBody(r, b) \in Response4 /\ InBody(r, b).mode = "body"
      /\ InBody(r, b).body = r.body \o u
  BY <1>3, <1>4 DEF Response4
<1> QED
  BY <1>1, <1>2, <1>3, <1>5 DEF Grows, WellFormed, Response4

LEMMA InHeadGrows ==
  ASSUME NEW r \in Response4, r.mode # "copy", At(HeadEnd, r.head) = {},
         NEW b \in Seq(Bytes), NEW q \in InHead(r, b)
  PROVE  Grows(r, b, q)
<1> DEFINE u    == Upto(b, HeadSize - 3 - Len(r.head))
           text == r.head \o u
           at   == Find(HeadEnd, text)
<1>1. r.head \in Seq(Bytes) /\ Len(r.head) \in Nat /\ Len(b) \in Nat /\ Len(r.body) \in Nat
  BY LenProperties DEF Response4
<1>2. u \in Seq(Bytes)
  <2>1. HeadSize - 3 - Len(r.head) \in Int
    BY <1>1, WwGetConstants
  <2> QED
    BY <2>1, UptoIs
<1>3. text \in Seq(Bytes)
  BY <1>1, <1>2, ConcatProperties
<1>4. CASE at = 0
  <2>1. CASE q = [r EXCEPT !.mode = "head", !.head = text]
    <3>1. At(HeadEnd, text) = {}
      BY <1>3, <1>4, FindSpec
    <3>2. q \in Response4 /\ q.mode = "head" /\ q.head = text /\ q.body = r.body
      <4> HIDE DEF text
      <4> QED
        BY <1>3, <2>1 DEF Response4
    <3> QED
      BY <1>1, <3>1, <3>2 DEF Grows, WellFormed, Response4
  <2>2. CASE q = InBody(r, b)
    BY <2>2, InBodyGrows
  <2> QED
    BY <1>4, <2>1, <2>2 DEF InHead
<1>5. CASE at # 0
  <2>1. at \in Nat /\ at + 4 > Len(r.head) + 1
    <3>1. at \in At(HeadEnd, r.head \o u)
      BY <1>3, <1>5, FindSpec
    <3>2. Len(HeadEnd) = 4 /\ Len(HeadEnd) \in Nat \ {0}
      BY PatternLengths
    <3> HIDE DEF at, u
    <3> QED
      BY <1>1, <1>2, <3>1, <3>2, FoundInNew
  <2> DEFINE k == at + 3 - Len(r.head)
  <2>2. k \in Nat
    <3> HIDE DEF at
    <3> QED
      BY <1>1, <2>1
  <2>3. q = InBody(r, Shift(b, k))
    BY <1>5 DEF InHead
  <2> HIDE DEF k
  <2>4. Shift(b, k) \in Seq(Bytes) /\ Len(Shift(b, k)) = Len(b)
    BY <2>2, ShiftKeepsLength
  <2>5. Grows(r, Shift(b, k), q)
    BY <2>3, <2>4, InBodyGrows
  <2> QED
    BY <2>4, <2>5 DEF Grows
<1> QED
  BY <1>4, <1>5

LEMMA InLineGrows ==
  ASSUME NEW r \in Response4, r.mode = "line", At(CRLF, r.line) = {}, r.head = << >>,
         NEW b \in Seq(Bytes), NEW q \in InLine(r, b)
  PROVE  Grows(r, b, q)
<1> DEFINE u    == Upto(b, LineSize - 3)
           text == r.line \o u
           at   == Find(CRLF, text)
           used == at + 1 - Len(r.line)
<1>1. r.line \in Seq(Bytes) /\ Len(r.line) \in Nat /\ Len(b) \in Nat /\ Len(r.body) \in Nat
  BY LenProperties DEF Response4
<1>2. u \in Seq(Bytes)
  <2>1. LineSize - 3 \in Int
    BY WwGetConstants
  <2> QED
    BY <2>1, UptoIs
<1>3. text \in Seq(Bytes)
  BY <1>1, <1>2, ConcatProperties
<1>4. At(HeadEnd, r.head) = {}
  <2>1. Len(r.head) = 0
    OBVIOUS
  <2> QED
    BY <2>1 DEF At
<1>5. CASE q = [r EXCEPT !.mode = "head"]
  <2>1. q \in Response4 /\ q.mode = "head" /\ q.head = r.head /\ q.body = r.body
    BY <1>5 DEF Response4
  <2> QED
    BY <1>1, <1>4, <2>1 DEF Grows, WellFormed, Response4
<1>6. CASE at = 0 /\ q = [r EXCEPT !.line = text]
  <2>1. At(CRLF, text) = {}
    BY <1>3, <1>6, FindSpec
  <2>2. /\ q \in Response4 /\ q.mode = "line" /\ q.line = text
        /\ q.head = r.head /\ q.body = r.body
    <3> HIDE DEF text
    <3> QED
      BY <1>3, <1>6 DEF Response4
  <2> QED
    BY <1>1, <2>1, <2>2 DEF Grows, WellFormed, Response4
<1>7. CASE at # 0 /\ q \in InHead(r, Shift(b, used))
  <2>1. at \in Nat /\ at + 2 > Len(r.line) + 1
    <3>1. at \in At(CRLF, r.line \o u)
      BY <1>3, <1>7, FindSpec
    <3>2. Len(CRLF) = 2 /\ Len(CRLF) \in Nat \ {0}
      BY PatternLengths
    <3> HIDE DEF at, u
    <3> QED
      BY <1>1, <1>2, <3>1, <3>2, FoundInNew
  <2>2. used \in Nat
    <3> HIDE DEF at
    <3> QED
      BY <1>1, <2>1
  <2>3. Shift(b, used) \in Seq(Bytes) /\ Len(Shift(b, used)) = Len(b)
    <3> HIDE DEF used
    <3> QED
      BY <2>2, ShiftKeepsLength
  <2>4. Grows(r, Shift(b, used), q)
    <3> HIDE DEF used
    <3> QED
      BY <1>4, <1>7, <2>3, InHeadGrows
  <2> QED
    BY <2>3, <2>4 DEF Grows
<1> QED
  BY <1>5, <1>6, <1>7 DEF InLine

(* One packet adds no more bytes to the body than it has.                  *)
LEMMA AfterGrows ==
  ASSUME NEW r, WellFormed(r), NEW b \in Seq(Bytes), NEW q \in After(r, b)
  PROVE  Grows(r, b, q)
<1>1. r \in Response4 /\ r.mode \in {"line", "head", "body", "copy"}
  BY DEF WellFormed, Response4
<1>2. CASE r.mode = "line"
  <2>1. q \in InLine(r, b)
    BY <1>2 DEF After
  <2> QED
    BY <1>1, <1>2, <2>1, InLineGrows DEF WellFormed
<1>3. CASE r.mode = "head"
  <2>1. q \in InHead(r, b)
    BY <1>3 DEF After
  <2> QED
    BY <1>1, <1>3, <2>1, InHeadGrows DEF WellFormed
<1>4. CASE r.mode = "body"
  <2>1. q = InBody(r, b)
    BY <1>4 DEF After
  <2> QED
    BY <1>1, <1>4, <2>1, InBodyGrows
<1>5. CASE r.mode = "copy"
  <2>1. q = r
    BY <1>5 DEF After
  <2>2. Len(r.body) \in Nat /\ Len(b) \in Nat
    BY <1>1, LenProperties DEF Response4
  <2> QED
    BY <2>1, <2>2 DEF Grows
<1> QED
  BY <1>1, <1>2, <1>3, <1>4, <1>5

-----------------------------------------------------------------------------
(* The system                                                              *)

LEMMA NewResponseIs ==
  ASSUME NEW c
  PROVE  /\ WellFormed(NewResponse(c)) /\ Len(NewResponse(c).body) = 0
         /\ c \in Copying => NewResponse(c).mode = "copy"
<1>1. << >> \in Seq(Bytes) /\ Len(<< >>) = 0
  OBVIOUS
<1>2. At(CRLF, << >>) = {}
  BY <1>1 DEF At
<1> QED
  BY <1>1, <1>2 DEF NewResponse, WellFormed

LEMMA DownStart == DownInit => DownInv
<1> SUFFICES ASSUME DownInit PROVE DownInv
  OBVIOUS
<1>1. \A c \in Clients : Urls[c] \in Seq(Servers) /\ Len(Urls[c]) \in Nat
  BY WwGetConstants, LenProperties
<1>2. ClientInv
  <2>1. ASSUME NEW c \in Clients PROVE GoodClient(c)
    <3>1. /\ resp[c] = NewResponse(c) /\ size[c] = 0 /\ url[c] = 1 /\ state[c] = "start"
      BY DEF DownInit, Init
    <3> QED
      BY <1>1, <3>1, NewResponseIs DEF GoodClient
  <2> QED
    BY <2>1 DEF DownInit, Init, ClientInv
<1>3. WireInv
  <2>1. << >> \in Seq(Bytes) /\ << >> \in Seq(Clients)
    OBVIOUS
  <2> QED
    BY <2>1 DEF DownInit, Init, Srv!Init, WireInv
<1> QED
  BY <1>2, <1>3 DEF DownInv

(* A packet is what the wire's first bytes are.                            *)
LEMMA Cut ==
  ASSUME NEW w \in Seq(Bytes), NEW n \in Nat, n <= Len(w)
  PROVE  /\ SubSeq(w, 1, n) \in Seq(Bytes) /\ Len(SubSeq(w, 1, n)) = n
         /\ SubSeq(w, n + 1, Len(w)) \in Seq(Bytes)
<1>1. Len(w) \in Nat
  BY LenProperties
<1>2. /\ \A i \in 1 .. n : w[i] \in Bytes
      /\ \A i \in n + 1 .. Len(w) : w[i] \in Bytes
  BY <1>1
<1>3. SubSeq(w, 1, n) \in Seq(Bytes) /\ Len(SubSeq(w, 1, n)) = IF 1 <= n THEN n - 1 + 1 ELSE 0
  BY <1>2, SubSeqProperties
<1>4. SubSeq(w, n + 1, Len(w)) \in Seq(Bytes)
  <2>1. n + 1 \in Int /\ Len(w) \in Int
    BY <1>1
  <2> QED
    BY <1>2, <2>1, SubSeqProperties
<1> QED
  BY <1>3, <1>4

(* If only client c changes, only it has to be looked at.                  *)
LEMMA OneClient ==
  ASSUME ClientInv, NEW c \in Clients,
         url' \in [Clients -> Nat], size' \in [Clients -> Nat],
         state' \in [Clients -> {"start", "reading", "print", "ended", "killed", "undefined"}],
         resp' = [d \in Clients |-> resp'[d]],
         \A d \in Clients \ {c} : /\ url'[d] = url[d] /\ size'[d] = size[d]
                                  /\ state'[d] = state[d] /\ resp'[d] = resp[d],
         GoodClient(c)'
  PROVE  ClientInv'
BY DEF ClientInv, GoodClient

LEMMA ReadKeeps ==
  ASSUME DownInv, NEW c \in Clients, Read(c), UNCHANGED <<server, sc, left>>
  PROVE  DownInv'
<1>1. PICK n \in 1 .. Len(wire[c]) :
        /\ \E r \in After(resp[c], SubSeq(wire[c], 1, n)) : resp' = [resp EXCEPT ![c] = r]
        /\ wire' = [wire EXCEPT ![c] = SubSeq(@, n + 1, Len(@))]
        /\ size' = [size EXCEPT ![c] = IF c \in Copying THEN @ ELSE @ + n]
  BY DEF Read
<1>2. PICK r \in After(resp[c], SubSeq(wire[c], 1, n)) : resp' = [resp EXCEPT ![c] = r]
  BY <1>1
<1>3. wire[c] \in Seq(Bytes) /\ Len(wire[c]) \in Nat
  BY LenProperties DEF DownInv, WireInv
<1>4. n \in Nat /\ n <= Len(wire[c])
  BY <1>3
<1>5. /\ SubSeq(wire[c], 1, n) \in Seq(Bytes) /\ Len(SubSeq(wire[c], 1, n)) = n
      /\ SubSeq(wire[c], n + 1, Len(wire[c])) \in Seq(Bytes)
  BY <1>3, <1>4, Cut
<1>6. Grows(resp[c], SubSeq(wire[c], 1, n), r)
  BY <1>2, <1>5, AfterGrows DEF DownInv, ClientInv, GoodClient
<1>7. WireInv'
  BY <1>1, <1>5 DEF DownInv, WireInv, Read
<1>8. GoodClient(c)'
  <2>1. resp'[c] = r /\ url'[c] = url[c] /\ state'[c] = state[c]
    BY <1>2 DEF DownInv, ClientInv, Read
  <2>2. size'[c] = IF c \in Copying THEN size[c] ELSE size[c] + n
    BY <1>1 DEF DownInv, ClientInv
  <2>3. /\ size[c] \in Nat /\ Len(resp[c].body) \in Nat /\ Len(r.body) \in Nat
        /\ Len(resp[c].body) <= size[c]
    BY <1>6, LenProperties DEF DownInv, ClientInv, GoodClient, Grows, WellFormed
  <2>4. CASE c \in Copying
    <3>1. r = resp[c]
      BY <1>2, <2>4 DEF DownInv, ClientInv, GoodClient, After
    <3> QED
      BY <2>1, <2>2, <2>4, <3>1 DEF DownInv, ClientInv, GoodClient
  <2>5. CASE c \notin Copying
    <3>1. Len(r.body) <= size[c] + n
      BY <1>4, <1>5, <1>6, <2>3 DEF Grows
    <3> QED
      BY <1>6, <2>1, <2>2, <2>5, <3>1 DEF DownInv, ClientInv, GoodClient, Grows
  <2> QED
    BY <2>4, <2>5
<1>9. ClientInv'
  <2>1. size' \in [Clients -> Nat]
    BY <1>1, <1>4 DEF DownInv, ClientInv
  <2>2. resp' = [d \in Clients |-> resp'[d]]
    BY <1>2 DEF DownInv, ClientInv
  <2>3. \A d \in Clients \ {c} : size'[d] = size[d] /\ resp'[d] = resp[d]
    BY <1>1, <1>2 DEF DownInv, ClientInv
  <2> QED
    BY <1>8, <2>1, <2>2, <2>3, OneClient DEF DownInv, ClientInv, Read
<1> QED
  BY <1>7, <1>9 DEF DownInv

(* The other steps of a client.                                            *)
LEMMA ClientKeeps ==
  ASSUME DownInv, NEW c \in Clients, Fetch(c) \/ Trouble(c)
  PROVE  DownInv'
<1>0. /\ UNCHANGED <<server, sc, left>>
      /\ \A d \in Clients : Urls[d] \in Seq(Servers) /\ Len(Urls[d]) \in Nat
      /\ << >> \in Seq(Bytes)
  BY WwGetConstants, LenProperties DEF Fetch, Trouble
<1>1. CASE LookupFails(c)
  <2>1. WireInv'
    BY <1>0, <1>1 DEF LookupFails, DownInv, WireInv
  <2>2. ClientInv'
    BY <1>0, <1>1 DEF LookupFails, Goes, More, DownInv, ClientInv, GoodClient
  <2> QED
    BY <2>1, <2>2 DEF DownInv
<1>2. CASE Connect(c)
  <2>1. WireInv'
    <3>1. Append(queue[Server(c)], c) \in Seq(Clients) \/ Server(c) \notin Servers
      BY DEF DownInv, WireInv
    <3> QED
      BY <1>0, <1>2, <3>1 DEF Connect, DownInv, WireInv
  <2>2. ClientInv'
    BY <1>0, <1>2 DEF Connect, Goes, More, DownInv, ClientInv, GoodClient
  <2> QED
    BY <2>1, <2>2 DEF DownInv
<1>3. CASE ConnectFails(c)
  <2>1. WireInv'
    BY <1>3, <1>0 DEF ConnectFails, DownInv, WireInv
  <2>2. ClientInv'
    BY <1>3, <1>0 DEF ConnectFails, Goes, More, DownInv, ClientInv, GoodClient
  <2> QED
    BY <2>1, <2>2 DEF DownInv
<1>4. CASE EndOfStream(c)
  <2>1. WireInv'
    BY <1>4, <1>0 DEF EndOfStream, DownInv, WireInv
  <2>2. ClientInv'
    BY <1>4, <1>0 DEF EndOfStream, Goes, More, DownInv, ClientInv, GoodClient
  <2> QED
    BY <2>1, <2>2 DEF DownInv
<1>5. CASE PrintBody(c)
  <2>1. WireInv'
    BY <1>0, <1>5 DEF PrintBody, DownInv, WireInv
  <2>2. GoodClient(c)'
    <3>1. /\ resp'[c] = NewResponse(c) /\ size'[c] = 0 /\ state'[c] = "start"
          /\ url'[c] = url[c] + 1
      BY <1>5 DEF PrintBody, Goes, DownInv, ClientInv
    <3>2. url[c] \in Nat /\ url[c] <= Len(Urls[c])
      BY <1>5 DEF PrintBody, DownInv, ClientInv, GoodClient
    <3> QED
      BY <1>0, <3>1, <3>2, NewResponseIs DEF GoodClient
  <2>3. /\ url' \in [Clients -> Nat] /\ size' \in [Clients -> Nat]
        /\ state' \in [Clients -> {"start", "reading", "print", "ended", "killed", "undefined"}]
        /\ resp' = [d \in Clients |-> resp'[d]]
    BY <1>5 DEF PrintBody, Goes, DownInv, ClientInv
  <2>4. \A d \in Clients \ {c} : /\ url'[d] = url[d] /\ size'[d] = size[d]
                                 /\ state'[d] = state[d] /\ resp'[d] = resp[d]
    BY <1>5 DEF PrintBody, Goes, DownInv, ClientInv
  <2>5. ClientInv'
    BY <2>2, <2>3, <2>4, OneClient DEF DownInv
  <2> QED
    BY <2>1, <2>5 DEF DownInv
<1>6. CASE Ends(c)
  <2>1. WireInv'
    BY <1>6, <1>0 DEF Ends, DownInv, WireInv
  <2>2. ClientInv'
    BY <1>6, <1>0 DEF Ends, Goes, More, DownInv, ClientInv, GoodClient
  <2> QED
    BY <2>1, <2>2 DEF DownInv
<1>7. CASE Killed(c)
  <2>1. WireInv'
    BY <1>7, <1>0 DEF Killed, DownInv, WireInv
  <2>2. ClientInv'
    BY <1>7, <1>0 DEF Killed, Goes, More, DownInv, ClientInv, GoodClient
  <2> QED
    BY <2>1, <2>2 DEF DownInv
<1>8. CASE Read(c)
  BY <1>0, <1>8, ReadKeeps
<1>9. CASE Overrun(c)
  <2>1. WireInv'
    BY <1>9, <1>0 DEF Overrun, DownInv, WireInv
  <2>2. ClientInv'
    BY <1>9, <1>0 DEF Overrun, Goes, More, DownInv, ClientInv, GoodClient
  <2> QED
    BY <2>1, <2>2 DEF DownInv
<1> QED
  BY <1>1, <1>2, <1>3, <1>4, <1>5, <1>6, <1>7, <1>8, <1>9 DEF Fetch, Trouble

(* The steps of a server.                                                  *)
LEMMA ServerKeeps ==
  ASSUME DownInv, NEW s \in Servers, Serve(s) \/ Dies(s)
  PROVE  DownInv'
<1>1. UNCHANGED <<url, state, resp, size>> /\ << >> \in Seq(Bytes) /\ << >> \in Seq(Clients)
  BY DEF Serve, Dies
<1>2. ClientInv'
  BY <1>1 DEF DownInv, ClientInv, GoodClient
<1>3. Nobody \notin Clients
  BY DownloadsConstants
<1>4. ASSUME Srv!Accept(s) PROVE WireInv'
  <2>1. Head(queue[s]) \in Clients /\ Tail(queue[s]) \in Seq(Clients)
    BY <1>4, HeadTailProperties DEF Srv!Accept, DownInv, WireInv
  <2> QED
    BY <1>3, <1>4, <2>1 DEF Srv!Accept, Srv!Goes, DownInv, WireInv
<1>5. ASSUME Srv!AcceptFails(s) PROVE WireInv'
  BY <1>1, <1>5 DEF Srv!AcceptFails, Srv!Goes, DownInv, WireInv
<1>6. ASSUME Srv!GetRequest(s) PROVE WireInv'
  <2>1. sc[s] \in Clients
    BY <1>6 DEF Srv!GetRequest, DownInv, WireInv
  <2>2. Response[s][sc[s]] \in Seq(Bytes)
    BY <2>1, DownloadsConstants
  <2> QED
    BY <1>6, <2>2 DEF Srv!GetRequest, Srv!Goes, DownInv, WireInv
<1>7. ASSUME Srv!Write(s) PROVE WireInv'
  <2> DEFINE n == IF Len(left[s]) < Buffer THEN Len(left[s]) ELSE Buffer
  <2>1. left[s] \in Seq(Bytes) /\ Len(left[s]) \in Nat
    BY LenProperties DEF DownInv, WireInv
  <2>2. n \in Nat /\ n <= Len(left[s])
    BY <2>1, DownloadsConstants
  <2>3. /\ wire' = IF Srv!Gone(sc[s]) THEN wire
                   ELSE [wire EXCEPT ![sc[s]] = @ \o SubSeq(left[s], 1, n)]
        /\ left' = [left EXCEPT ![s] = SubSeq(@, n + 1, Len(@))]
        /\ UNCHANGED <<queue, server, sc>>
    BY <1>7 DEF Srv!Write
  <2> HIDE DEF n
  <2>4. SubSeq(left[s], 1, n) \in Seq(Bytes) /\ SubSeq(left[s], n + 1, Len(left[s])) \in Seq(Bytes)
    BY <2>1, <2>2, Cut
  <2>5. wire' \in [Clients -> Seq(Bytes)]
    <3>1. sc[s] \in Clients
      BY <1>7 DEF Srv!Write, DownInv, WireInv
    <3>2. wire[sc[s]] \o SubSeq(left[s], 1, n) \in Seq(Bytes)
      BY <2>4, <3>1, ConcatProperties DEF DownInv, WireInv
    <3> QED
      BY <2>3, <3>1, <3>2 DEF DownInv, WireInv
  <2> QED
    BY <2>3, <2>4, <2>5 DEF DownInv, WireInv
<1>8. ASSUME Srv!WriteFails(s) PROVE WireInv'
  BY <1>1, <1>8 DEF Srv!WriteFails, Srv!Goes, DownInv, WireInv
<1>9. ASSUME Srv!Close(s) PROVE WireInv'
  BY <1>9 DEF Srv!Close, Srv!Goes, DownInv, WireInv
<1>10. ASSUME Srv!FdopenFails(s) PROVE WireInv'
  BY <1>1, <1>10 DEF Srv!FdopenFails, Srv!Goes, DownInv, WireInv
<1> QED
  BY <1>2, <1>4, <1>5, <1>6, <1>7, <1>8, <1>9, <1>10 DEF Serve, Dies, DownInv

LEMMA DownStep == DownInv /\ [DownNext]_vars => DownInv'
<1> SUFFICES ASSUME DownInv, [DownNext]_vars PROVE DownInv'
  OBVIOUS
<1>1. CASE UNCHANGED vars
  BY <1>1 DEF vars, DownInv, ClientInv, WireInv, GoodClient
<1>2. CASE DownNext
  BY <1>2, ClientKeeps, ServerKeeps DEF DownNext
<1> QED
  BY <1>1, <1>2

(* Every variable has a value of its kind, and a server has a client       *)
(* exactly while it is in a session (wwgetc2.c, httpserverc.c:74-82).      *)
THEOREM DownTypes == DownSpec => []TypeOK
<1>1. DownInv => TypeOK
  <2> SUFFICES ASSUME DownInv PROVE TypeOK
    OBVIOUS
  <2>1. ASSUME NEW c \in Clients PROVE url[c] \in 1 .. Len(Urls[c]) + 1
    <3>1. url[c] \in Nat /\ Len(Urls[c]) \in Nat
      BY WwGetConstants, LenProperties DEF DownInv, ClientInv
    <3> QED
      BY <3>1 DEF DownInv, ClientInv, GoodClient
  <2>2. \A c \in Clients : resp[c].mode \in {"line", "head", "body", "copy"}
    BY DEF DownInv, ClientInv, GoodClient, WellFormed
  <2> QED
    BY <2>1, <2>2 DEF DownInv, ClientInv, WireInv, TypeOK
<1> QED
  BY <1>1, DownStart, DownStep, PTL DEF DownSpec

-----------------------------------------------------------------------------
(* What is not lost                                                        *)

(* The positions from to to of R are in t, d positions further back.       *)
Shows(t, R, from, to, d) == \A i \in from .. to : i - d \in 1 .. Len(t) /\ t[i - d] = R[i]

(* The positions from to to of R are in t, in order.                       *)
Kept(R, from, to, t) ==
  \E f \in [from .. to -> 1 .. Len(t)] :
    /\ \A i \in from .. to : t[f[i]] = R[i]
    /\ \A i, j \in from .. to : i < j => f[i] < f[j]

(* The line r.line was cut in its end.                                     *)
CutIn(r) == r.line # << >> /\ Last(r.line)[2] = "cr"

(* What the parser has of a response R with header fields, of which it has *)
(* read pos bytes: the line is what was read; the head ends with what was  *)
(* read last, from before the head's end on; the body holds what was read  *)
(* of the real one.                                                        *)
Parsed(r, R, body, pos) ==
  /\ pos <= Len(R)
  /\ r.mode = "line" =>
       /\ r.body = << >> /\ Len(r.line) = pos /\ pos < body - 1
       /\ Shows(r.line, R, 1, pos, 0)
  /\ r.mode = "head" =>
       /\ r.body = << >>
       /\ CutIn(r) \/ /\ Len(r.head) <= pos /\ pos < body - 1
                      /\ \E q \in Nat : /\ q <= body - 5
                                      /\ Shows(r.head, R, q + 1, pos, pos - Len(r.head))
  /\ r.mode = "body" => CutIn(r) \/ Kept(R, body, pos, r.body)
  /\ r.mode # "copy"

ParsedClient(c) ==
  LET s == Server(c)
  IN  c \notin Copying /\ More(c) /\ s \in Fields =>
        Parsed(resp[c], Response[s][c], BodyStart[s], size[c])

(* What is on the wire and to be written are the parts of the response     *)
(* that come next; as long as its connection waits, nothing has come.      *)
Queued(s, c) ==
  Contains(queue[s], c) =>
    s = Server(c) /\ wire[c] = << >> /\ size[c] = 0 /\ \A t \in Servers : sc[t] # c

Served(s, c) ==
  LET R == Response[Server(c)][c]
      n == size[c] + Len(wire[c])
  IN  sc[s] = c =>
        /\ s = Server(c)
        /\ server[s] = "request" => wire[c] = << >> /\ size[c] = 0
        /\ server[s] = "respond" => n + Len(left[s]) = Len(R) /\ Shows(left[s], R, n + 1, Len(R), n)

OnTheWire(c) ==
  LET R == Response[Server(c)][c]
      n == size[c] + Len(wire[c])
  IN  /\ n <= Len(R) /\ Shows(wire[c], R, size[c] + 1, n, size[c])
      /\ \A s \in Servers : Queued(s, c) /\ Served(s, c)

(* A connection waits once, and only a client that reads (or is gone) has  *)
(* one.                                                                    *)
Once(s, c) ==
  \A i, j \in 1 .. Len(queue[s]) : queue[s][i] = c /\ queue[s][j] = c => i = j

Transfer(c) ==
  /\ \A s \in Servers : Once(s, c)
  /\ state[c] \in {"start", "print", "ended"} => ~Connected(c)
  /\ state[c] = "reading" /\ c \notin Copying => OnTheWire(c)
  /\ state[c] \in {"start", "print"} => wire[c] = << >>
  /\ state[c] = "start" => resp[c] = NewResponse(c) /\ size[c] = 0
  /\ c \in Copying => size[c] = 0

LossInv == \A c \in Clients : ParsedClient(c) /\ Transfer(c)

-----------------------------------------------------------------------------
(* The operators                                                           *)

LEMMA FindIsFirst ==
  ASSUME NEW pat, NEW s \in Seq(Bytes), NEW x \in At(pat, s)
  PROVE  Find(pat, s) # 0 /\ Find(pat, s) <= x
<1>1. Len(s) \in Nat
  BY LenProperties
<1>2. At(pat, s) \in SUBSET Nat /\ 0 \notin At(pat, s) /\ At(pat, s) # {}
  <2>1. At(pat, s) \in SUBSET Nat /\ 0 \notin At(pat, s)
    BY <1>1 DEF At
  <2> QED
    BY <2>1
<1>3. Min(At(pat, s)) \in At(pat, s)
  BY <1>2, MinExists
<1>4. PICK d \in At(pat, s) : \A y \in At(pat, s) : ~(<<y, d>> \in OpToRel(<, Nat))
  BY <1>2, NatLessThanWellFounded, WFMin
<1>5. \E m \in At(pat, s) : \A y \in At(pat, s) : m <= y
  <2>1. ASSUME NEW y \in At(pat, s) PROVE d <= y
    <3>1. d \in Nat /\ y \in Nat
      BY <1>2
    <3>2. ~(y < d)
      BY <1>4, <3>1 DEF OpToRel
    <3> QED
      BY <3>1, <3>2
  <2> QED
    BY <2>1
<1>6. Min(At(pat, s)) <= x
  BY <1>5 DEF Min
<1> QED
  BY <1>2, <1>3, <1>6 DEF Find

(* The first n bytes are all of s if it has no more.                       *)
LEMMA UptoHas ==
  ASSUME NEW s \in Seq(Bytes), NEW n \in Int
  PROVE  /\ n >= Len(s) => Upto(s, n) = s
         /\ 0 <= n /\ n < Len(s) => Len(Upto(s, n)) = n
         /\ \A i \in 1 .. Len(Upto(s, n)) : Upto(s, n)[i] = s[i]
<1> DEFINE m == Min({Len(s), n})
<1>1. Len(s) \in Nat /\ Len(s) \in Int
  BY LenProperties
<1>2. m \in {Len(s), n} /\ m <= Len(s) /\ m <= n
  BY <1>1, MinOfTwo
<1> HIDE DEF m
<1>3. m \in Int
  BY <1>1, <1>2
<1>4. \A i \in 1 .. m : s[i] \in Bytes
  BY <1>1, <1>2, <1>3
<1>5. /\ Len(SubSeq(s, 1, m)) = IF 1 <= m THEN m - 1 + 1 ELSE 0
      /\ \A i \in 1 .. m - 1 + 1 : SubSeq(s, 1, m)[i] = s[1 + i - 1]
  BY <1>3, <1>4, SubSeqProperties
<1>6. Upto(s, n) = SubSeq(s, 1, m)
  BY DEF Upto, m
<1>7. Len(Upto(s, n)) = IF 1 <= m THEN m ELSE 0
  BY <1>3, <1>5, <1>6
<1>8. ASSUME NEW i \in 1 .. Len(Upto(s, n)) PROVE Upto(s, n)[i] = s[i]
  <2>1. i \in 1 .. m - 1 + 1 /\ 1 + i - 1 = i
    BY <1>3, <1>7
  <2> QED
    BY <1>5, <1>6, <2>1
<1>9. ASSUME n >= Len(s) PROVE Upto(s, n) = s
  <2>1. m = Len(s)
    BY <1>1, <1>2, <1>9
  <2>2. Len(Upto(s, n)) = Len(s)
    BY <1>1, <1>7, <2>1
  <2>3. Upto(s, n) \in Seq(Bytes)
    BY UptoIs
  <2> QED
    BY <1>8, <2>2, <2>3, SeqEqual
<1>10. ASSUME 0 <= n, n < Len(s) PROVE Len(Upto(s, n)) = n
  BY <1>1, <1>2, <1>7, <1>10
<1> QED
  BY <1>8, <1>9, <1>10

(* What memmove leaves: the rest of the packet, and its end once more.     *)
LEMMA ShiftIs ==
  ASSUME NEW b \in Seq(Bytes), NEW k \in Nat, k < Len(b)
  PROVE  \A j \in 1 .. Len(b) : Shift(b, k)[j] = IF j <= Len(b) - k THEN b[j + k] ELSE b[j]
<1> DEFINE u == SubSeq(b, k + 1, Len(b))
           v == SubSeq(b, Len(b) - k + 1, Len(b))
<1>1. Len(b) \in Nat
  BY LenProperties
<1>2. /\ u \in Seq(Bytes) /\ Len(u) = Len(b) - k
      /\ \A i \in 1 .. Len(b) - k : u[i] = b[k + 1 + i - 1]
  <2>1. \A i \in k + 1 .. Len(b) : b[i] \in Bytes
    BY <1>1
  <2>2. /\ u \in Seq(Bytes) /\ Len(u) = IF k + 1 <= Len(b) THEN Len(b) - (k + 1) + 1 ELSE 0
        /\ \A i \in 1 .. Len(b) - (k + 1) + 1 : u[i] = b[k + 1 + i - 1]
    BY <1>1, <2>1, SubSeqProperties
  <2>3. Len(b) - (k + 1) + 1 = Len(b) - k /\ k + 1 <= Len(b)
    BY <1>1
  <2> HIDE DEF u
  <2>4. Len(u) = Len(b) - k /\ \A i \in 1 .. Len(b) - k : u[i] = b[k + 1 + i - 1]
    BY <2>2, <2>3
  <2> QED
    BY <2>2, <2>4
<1>3. /\ v \in Seq(Bytes) /\ Len(v) = k
      /\ \A i \in 1 .. k : v[i] = b[Len(b) - k + 1 + i - 1]
  <2>1. \A i \in Len(b) - k + 1 .. Len(b) : b[i] \in Bytes
    BY <1>1
  <2>2. /\ v \in Seq(Bytes)
        /\ Len(v) = IF Len(b) - k + 1 <= Len(b) THEN Len(b) - (Len(b) - k + 1) + 1 ELSE 0
        /\ \A i \in 1 .. Len(b) - (Len(b) - k + 1) + 1 : v[i] = b[Len(b) - k + 1 + i - 1]
    BY <1>1, <2>1, SubSeqProperties
  <2>3. Len(b) - (Len(b) - k + 1) + 1 = k
    BY <1>1
  <2> QED
    BY <1>1, <2>2, <2>3
<1>4. Shift(b, k) = u \o v
  BY DEF Shift
<1> HIDE DEF u, v
<1>5. \A j \in 1 .. Len(u) + Len(v) : (u \o v)[j] = IF j <= Len(u) THEN u[j] ELSE v[j - Len(u)]
  BY <1>2, <1>3, ConcatProperties
<1> SUFFICES ASSUME NEW j \in 1 .. Len(b)
             PROVE  Shift(b, k)[j] = IF j <= Len(b) - k THEN b[j + k] ELSE b[j]
  OBVIOUS
<1>6. (u \o v)[j] = IF j <= Len(u) THEN u[j] ELSE v[j - Len(u)]
  BY <1>1, <1>2, <1>3, <1>5
<1>7. CASE j <= Len(b) - k
  <2>1. u[j] = b[j + k]
    <3>1. j \in 1 .. Len(b) - k /\ k + 1 + j - 1 = j + k
      BY <1>1, <1>7
    <3> QED
      BY <1>2, <3>1
  <2> QED
    BY <1>2, <1>4, <1>6, <1>7, <2>1
<1>8. CASE ~(j <= Len(b) - k)
  <2> DEFINE i == j - (Len(b) - k)
  <2>1. v[i] = b[j]
    <3>1. i \in 1 .. k /\ Len(b) - k + 1 + i - 1 = j
      BY <1>1, <1>8
    <3> QED
      BY <1>3, <3>1
  <2> QED
    BY <1>2, <1>4, <1>6, <1>8, <2>1
<1> QED
  BY <1>7, <1>8

(* What a packet brings can be appended to what was kept.                  *)
LEMMA KeptOnwards ==
  ASSUME NEW R, NEW from \in Int, NEW to \in Int, NEW next \in Int, NEW d \in Int,
         NEW t \in Seq(Bytes), NEW b \in Seq(Bytes), Kept(R, from, to, t),
         \A i \in from .. next : i > to => i - d \in 1 .. Len(b) /\ b[i - d] = R[i]
  PROVE  Kept(R, from, next, t \o b)
<1>1. Len(t) \in Nat /\ Len(b) \in Nat
  BY LenProperties
<1>2. /\ Len(t \o b) = Len(t) + Len(b)
      /\ \A j \in 1 .. Len(t) + Len(b) : (t \o b)[j] = IF j <= Len(t) THEN t[j] ELSE b[j - Len(t)]
  BY ConcatProperties
<1>3. PICK f \in [from .. to -> 1 .. Len(t)] :
        /\ \A i \in from .. to : t[f[i]] = R[i]
        /\ \A i, j \in from .. to : i < j => f[i] < f[j]
  BY DEF Kept
<1> DEFINE g == [i \in from .. next |-> IF i <= to THEN f[i] ELSE Len(t) + (i - d)]
<1>4. ASSUME NEW i \in from .. next
      PROVE  /\ g[i] \in 1 .. Len(t) + Len(b) /\ (t \o b)[g[i]] = R[i]
             /\ i > to => g[i] > Len(t)
             /\ i <= to => g[i] = f[i] /\ g[i] <= Len(t)
  <2>1. CASE i <= to
    <3>1. g[i] = f[i] /\ i \in from .. to
      BY <2>1
    <3>2. f[i] \in 1 .. Len(t)
      BY <1>3, <3>1
    <3> HIDE DEF g
    <3> QED
      BY <1>1, <1>2, <1>3, <2>1, <3>1, <3>2
  <2>2. CASE ~(i <= to)
    <3>1. i - d \in 1 .. Len(b) /\ b[i - d] = R[i] /\ g[i] = Len(t) + (i - d)
      BY <2>2
    <3> DEFINE k == i - d
    <3>2. k \in 1 .. Len(b) /\ g[i] = Len(t) + k /\ b[k] = R[i]
      BY <3>1
    <3> HIDE DEF g, k
    <3>3. g[i] \in 1 .. Len(t) + Len(b) /\ g[i] > Len(t) /\ g[i] - Len(t) = k
      BY <1>1, <3>2
    <3> QED
      BY <1>1, <1>2, <2>2, <3>2, <3>3
  <2> QED
    BY <2>1, <2>2
<1>5. g \in [from .. next -> 1 .. Len(t \o b)]
  <2>1. DOMAIN g = from .. next /\ g = [i \in from .. next |-> g[i]]
    OBVIOUS
  <2> HIDE DEF g
  <2> QED
    BY <1>2, <1>4, <2>1
<1>6. ASSUME NEW i \in from .. next, NEW j \in from .. next, i < j PROVE g[i] < g[j]
  <2>1. CASE j <= to
    <3>1. i \in from .. to /\ j \in from .. to /\ g[i] = f[i] /\ g[j] = f[j]
      BY <1>6, <2>1
    <3> HIDE DEF g
    <3> QED
      BY <1>3, <1>6, <3>1
  <2>2. CASE ~(j <= to) /\ i <= to
    <3>1. g[i] <= Len(t) /\ g[j] > Len(t) /\ g[i] \in Int /\ g[j] \in Int
      <4> HIDE DEF g
      <4> QED
        BY <1>1, <1>4, <2>2
    <3> HIDE DEF g
    <3> QED
      BY <1>1, <3>1
  <2>3. CASE ~(j <= to) /\ ~(i <= to)
    <3>1. g[i] = Len(t) + (i - d) /\ g[j] = Len(t) + (j - d)
      BY <2>3
    <3> HIDE DEF g
    <3> QED
      BY <1>1, <1>6, <3>1
  <2> QED
    BY <2>1, <2>2, <2>3
<1> HIDE DEF g
<1> QED
  BY <1>4, <1>5, <1>6 DEF Kept

(* Nothing is kept of nothing.                                             *)
LEMMA KeptNothing ==
  ASSUME NEW R, NEW from \in Int, NEW to \in Int, to < from, NEW t
  PROVE  Kept(R, from, to, t)
<1>1. from .. to = {}
  OBVIOUS
<1> DEFINE f == [i \in {} |-> 1]
<1>2. f \in [{} -> 1 .. Len(t)]
  OBVIOUS
<1>3. f \in [from .. to -> 1 .. Len(t)]
  BY <1>1, <1>2
<1> QED
  BY <1>1, <1>3 DEF Kept

LEMMA ShowsConcat ==
  ASSUME NEW R, NEW t \in Seq(Bytes), NEW b \in Seq(Bytes), NEW lo \in Int, NEW pos \in Int,
         NEW next \in Int, NEW d \in Int, NEW e \in Int, e = d + Len(t),
         Shows(t, R, lo, pos, d), Shows(b, R, pos + 1, next, e)
  PROVE  Shows(t \o b, R, lo, next, d)
<1>1. Len(t) \in Nat /\ Len(b) \in Nat /\ Len(t \o b) = Len(t) + Len(b)
  BY LenProperties, ConcatProperties
<1>2. \A j \in 1 .. Len(t) + Len(b) : (t \o b)[j] = IF j <= Len(t) THEN t[j] ELSE b[j - Len(t)]
  BY ConcatProperties
<1> SUFFICES ASSUME NEW i \in lo .. next
             PROVE  i - d \in 1 .. Len(t \o b) /\ (t \o b)[i - d] = R[i]
  BY DEF Shows
<1>3. CASE i <= pos
  <2>1. i - d \in 1 .. Len(t) /\ t[i - d] = R[i]
    BY <1>3 DEF Shows
  <2> DEFINE j == i - d
  <2>2. j \in 1 .. Len(t) /\ t[j] = R[i]
    BY <2>1
  <2> HIDE DEF j
  <2>3. j \in 1 .. Len(t) + Len(b) /\ j <= Len(t)
    BY <1>1, <2>2
  <2>4. j \in 1 .. Len(t \o b) /\ (t \o b)[j] = R[i]
    BY <1>1, <1>2, <2>2, <2>3
  <2> QED
    BY <2>4 DEF j
<1>4. CASE ~(i <= pos)
  <2>1. i - e \in 1 .. Len(b) /\ b[i - e] = R[i]
    BY <1>4 DEF Shows
  <2> DEFINE n == Len(t)
             m == Len(b)
             j == i - d
  <2>2. n \in Nat /\ m \in Nat /\ e = d + n /\ i - e \in 1 .. m
    BY <1>1, <2>1
  <2> HIDE DEF n, m
  <2>3. j \in 1 .. n + m /\ ~(j <= n) /\ j - n = i - e
    BY <2>2
  <2> HIDE DEF j
  <2>4. (t \o b)[j] = b[j - n]
    BY <1>2, <2>3 DEF n, m
  <2>5. j \in 1 .. Len(t \o b) /\ (t \o b)[j] = R[i]
    BY <1>1, <2>1, <2>3, <2>4 DEF n, m
  <2> QED
    BY <2>5 DEF j
<1> QED
  BY <1>3, <1>4

(* Both parts of what is cut show their part of R.                         *)
LEMMA CutShows ==
  ASSUME NEW R, NEW w \in Seq(Bytes), NEW p \in Nat, NEW n \in Nat, n <= Len(w), NEW end \in Int,
         end = p + Len(w), Shows(w, R, p + 1, end, p)
  PROVE  /\ Shows(SubSeq(w, 1, n), R, p + 1, p + n, p)
         /\ Shows(SubSeq(w, n + 1, Len(w)), R, p + n + 1, end, p + n)
         /\ Len(SubSeq(w, n + 1, Len(w))) = Len(w) - n
<1> DEFINE m == Len(w)
           u == SubSeq(w, 1, n)
           v == SubSeq(w, n + 1, m)
<1>1. m \in Nat /\ n <= m /\ end = p + m
  BY LenProperties
<1>2. ASSUME NEW i \in p + 1 .. end PROVE w[i - p] = R[i]
  BY DEF Shows
<1>3. /\ \A i \in 1 .. n : w[i] \in Bytes
      /\ \A i \in n + 1 .. m : w[i] \in Bytes
  BY <1>1
<1> HIDE DEF m
<1>4. Len(u) = n /\ \A i \in 1 .. n : u[i] = w[i]
  <2>1. /\ Len(u) = IF 1 <= n THEN n - 1 + 1 ELSE 0
        /\ \A i \in 1 .. n - 1 + 1 : u[i] = w[1 + i - 1]
    BY <1>3, SubSeqProperties
  <2> HIDE DEF u
  <2>2. n - 1 + 1 = n /\ \A i \in 1 .. n : 1 + i - 1 = i
    OBVIOUS
  <2> QED
    BY <2>1, <2>2
<1>5. Len(v) = m - n /\ \A i \in 1 .. m - n : v[i] = w[n + i]
  <2>1. n + 1 \in Int /\ m \in Int
    BY <1>1
  <2>2. /\ Len(v) = IF n + 1 <= m THEN m - (n + 1) + 1 ELSE 0
        /\ \A i \in 1 .. m - (n + 1) + 1 : v[i] = w[n + 1 + i - 1]
    BY <1>3, <2>1, SubSeqProperties
  <2> HIDE DEF v
  <2>3. m - (n + 1) + 1 = m - n /\ \A i \in 1 .. m - n : n + 1 + i - 1 = n + i
    BY <1>1
  <2> QED
    BY <1>1, <2>2, <2>3
<1> HIDE DEF u, v
<1>6. Shows(u, R, p + 1, p + n, p)
  <2> SUFFICES ASSUME NEW i \in p + 1 .. p + n PROVE i - p \in 1 .. Len(u) /\ u[i - p] = R[i]
    BY DEF Shows
  <2>1. i \in p + 1 .. end /\ i - p \in 1 .. n
    BY <1>1
  <2> QED
    BY <1>2, <1>4, <2>1
<1>7. Shows(v, R, p + n + 1, end, p + n)
  <2> SUFFICES ASSUME NEW i \in p + n + 1 .. end
               PROVE  i - (p + n) \in 1 .. Len(v) /\ v[i - (p + n)] = R[i]
    BY DEF Shows
  <2> DEFINE j == i - (p + n)
  <2>1. i \in p + 1 .. end /\ j \in 1 .. m - n /\ n + j = i - p
    BY <1>1
  <2> HIDE DEF j
  <2>2. v[j] = w[i - p]
    BY <1>5, <2>1
  <2>3. j \in 1 .. Len(v) /\ v[j] = R[i]
    BY <1>2, <1>5, <2>1, <2>2
  <2> QED
    BY <2>3 DEF j
<1> QED
  BY <1>5, <1>6, <1>7 DEF u, v, m

-----------------------------------------------------------------------------
(* The parser                                                              *)

LEMMA HeadShape ==
  ASSUME NEW r \in Response4, NEW b, NEW q \in InHead(r, b)
  PROVE  /\ q.line = r.line /\ q.mode \in {"head", "body"}
         /\ q.mode = "head" => q.body = r.body
<1>1. ASSUME NEW a PROVE InBody(r, a).mode = "body" /\ InBody(r, a).line = r.line
  BY DEF InBody, Response4
<1>2. ASSUME NEW h PROVE LET x == [r EXCEPT !.mode = "head", !.head = h]
                         IN  x.mode = "head" /\ x.line = r.line /\ x.body = r.body
  BY DEF Response4
<1> QED
  BY <1>1, <1>2 DEF InHead

(* A head that ends in the packet is found, and what of the body has       *)
(* arrived is kept; d is how far text is behind R.                         *)
LEMMA HeadKeeps ==
  ASSUME NEW R \in Seq(Bytes), NEW B \in Nat, Fits(R, B),
         NEW r \in Response4, r.body = << >>, At(HeadEnd, r.head) = {},
         NEW b \in Seq(Bytes), NEW q \in InHead(r, b),
         NEW next \in Nat, next <= Len(R), NEW d \in Nat, NEW lo \in Int, lo <= B - 4,
         Len(r.head) < B - 1, Len(r.head) + Len(b) <= next,
         Shows(r.head \o b, R, lo, next, d)
  PROVE  \/ q.mode = "body" /\ Kept(R, B, next, q.body)
         \/ /\ q.mode = "head" /\ q.head = r.head \o b
            /\ next < B - 1 /\ At(HeadEnd, q.head) = {}
<1> DEFINE m    == HeadSize - 3 - Len(r.head)
           u    == Upto(b, m)
           text == r.head \o u
           at   == Find(HeadEnd, text)
<1>1. /\ r.head \in Seq(Bytes) /\ Len(r.head) \in Nat /\ Len(b) \in Nat
      /\ Len(R) \in Nat /\ HeadSize \in Nat /\ MaxBody \in Nat
  BY LenProperties, WwGetConstants DEF Response4
<1>0. ASSUME NEW i \in lo .. next
      PROVE  i - d \in 1 .. Len(r.head) + Len(b) /\ (r.head \o b)[i - d] = R[i]
  <2>1. Len(r.head \o b) = Len(r.head) + Len(b)
    BY <1>1, ConcatProperties
  <2> QED
    BY <2>1 DEF Shows
<1>2. /\ B - 4 \in At(HeadEnd, R) /\ B - 1 <= HeadSize - 3 /\ Len(R) <= MaxBody
  BY DEF Fits
<1>3. m \in Int /\ m >= 0
  BY <1>1, <1>2
<1> HIDE DEF m
<1>4. /\ u \in Seq(Bytes) /\ Len(u) \in Nat
      /\ m >= Len(b) => u = b
      /\ m < Len(b) => Len(u) = m
      /\ \A i \in 1 .. Len(u) : u[i] = b[i]
      /\ Len(u) <= Len(b)
  BY <1>3, UptoIs, UptoHas
<1> HIDE DEF u
<1>5. /\ text \in Seq(Bytes) /\ Len(text) = Len(r.head) + Len(u)
      /\ \A i \in 1 .. Len(r.head) + Len(u) :
           text[i] = IF i <= Len(r.head) THEN r.head[i] ELSE u[i - Len(r.head)]
  BY <1>1, <1>4, ConcatProperties
<1>6. \A i \in 1 .. Len(r.head) + Len(b) :
        (r.head \o b)[i] = IF i <= Len(r.head) THEN r.head[i] ELSE b[i - Len(r.head)]
  BY <1>1, ConcatProperties
<1> HIDE DEF text
<1>7. ASSUME NEW i \in 1 .. Len(text) PROVE text[i] = (r.head \o b)[i]
  <2>1. i \in 1 .. Len(r.head) + Len(u) /\ i \in 1 .. Len(r.head) + Len(b)
    BY <1>1, <1>4, <1>5
  <2>2. CASE i <= Len(r.head)
    BY <1>5, <1>6, <2>1, <2>2
  <2>3. CASE ~(i <= Len(r.head))
    <3>1. i - Len(r.head) \in 1 .. Len(u)
      BY <1>1, <1>4, <2>1, <2>3
    <3> QED
      BY <1>4, <1>5, <1>6, <2>1, <2>3, <3>1
  <2> QED
    BY <2>2, <2>3
<1>8. CASE next < B - 1
  <2>1. Kept(R, B, next, q.body)
    BY <1>8, KeptNothing
  <2>2. CASE q = [r EXCEPT !.mode = "head", !.head = text] /\ at = 0
    <3>1. m >= Len(b)
      BY <1>1, <1>2, <1>8 DEF m
    <3>2. text = r.head \o b
      BY <1>4, <3>1 DEF text
    <3>3. q.mode = "head" /\ q.head = text
      BY <2>2 DEF Response4
    <3>4. At(HeadEnd, text) = {}
      BY <1>5, <2>2, FindSpec
    <3> QED
      BY <1>8, <3>2, <3>3, <3>4
  <2>3. CASE \E a : q = InBody(r, a)
    <3>1. q.mode = "body"
      BY <2>3 DEF InBody, Response4
    <3> QED
      BY <2>1, <3>1
  <2> QED
    BY <2>2, <2>3 DEF InHead, m, u, text
<1>9. CASE ~(next < B - 1)
  <2> DEFINE x == B - 4 - d
  <2>1. /\ \A j \in 1 .. 4 : B - 4 + j - 1 \in lo .. next
        /\ \A j \in 1 .. Len(HeadEnd) : R[B - 4 + j - 1][2] = HeadEnd[j]
        /\ Len(HeadEnd) = 4
    BY <1>1, <1>2, <1>9, PatternLengths DEF At
  <2>2. x \in Nat /\ x >= 1 /\ x + 3 <= Len(text)
    <3>1. B - 4 \in lo .. next /\ B - 1 \in lo .. next
      BY <1>1, <1>9
    <3>2. x \in 1 .. Len(r.head) + Len(b) /\ B - 1 - d \in 1 .. Len(r.head) + Len(b)
      BY <1>0, <3>1
    <3>3. x + 3 = B - 1 - d
      OBVIOUS
    <3>4. CASE m >= Len(b)
      BY <1>1, <1>4, <1>5, <3>2, <3>3, <3>4
    <3>5. CASE ~(m >= Len(b))
      <4>1. Len(u) = m /\ Len(text) = Len(r.head) + Len(u)
        BY <1>1, <1>3, <1>4, <1>5, <3>5
      <4>2. m = HeadSize - 3 - Len(r.head)
        BY DEF m
      <4>3. Len(text) = HeadSize - 3
        BY <1>1, <1>3, <4>1, <4>2
      <4> QED
        BY <1>1, <1>2, <3>2, <3>3, <4>3
    <3> QED
      BY <3>4, <3>5
  <2>3. ASSUME NEW j \in 1 .. Len(HeadEnd) PROVE text[x + j - 1][2] = HeadEnd[j]
    <3>1. j \in 1 .. 4
      BY <2>1
    <3>2. B - 4 + j - 1 \in lo .. next
      BY <2>1, <3>1
    <3>3. B - 4 + j - 1 - d = x + j - 1 /\ x + j - 1 \in 1 .. Len(text)
      <4>1. Len(text) \in Nat
        BY <1>5, LenProperties
      <4> QED
        BY <2>2, <3>1, <4>1
    <3>4. text[x + j - 1] = R[B - 4 + j - 1]
      <4> DEFINE i == B - 4 + j - 1
                 n == x + j - 1
      <4>1. i - d = n /\ n \in 1 .. Len(text) /\ i \in lo .. next
        BY <3>2, <3>3
      <4> HIDE DEF i, n
      <4>2. text[n] = (r.head \o b)[n] /\ (r.head \o b)[i - d] = R[i]
        BY <1>0, <1>7, <4>1
      <4>3. text[n] = R[i]
        BY <4>1, <4>2
      <4> QED
        BY <4>3 DEF i, n
    <3> QED
      BY <2>1, <3>4
  <2> HIDE DEF x
  <2>4. x \in At(HeadEnd, text)
    <3>1. Len(text) \in Nat
      BY <1>5, LenProperties
    <3>2. x \in 1 .. Len(text) /\ x + Len(HeadEnd) <= Len(text) + 1
      BY <2>1, <2>2, <3>1
    <3> QED
      BY <2>3, <3>2 DEF At
  <2>5. at # 0 /\ at <= x
    BY <1>5, <2>4, FindIsFirst
  <2>6. at \in Nat /\ at + 4 > Len(r.head) + 1
    <3>1. at \in At(HeadEnd, r.head \o u)
      BY <1>5, <2>5, FindSpec DEF text
    <3>2. Len(HeadEnd) = 4 /\ Len(HeadEnd) \in Nat \ {0}
      BY PatternLengths
    <3> HIDE DEF at
    <3> QED
      BY <1>1, <1>4, <3>1, <3>2, FoundInNew
  <2> DEFINE k == at + 3 - Len(r.head)
             a == Shift(b, k)
  <2>7. q = InBody(r, a)
    BY <2>5 DEF InHead, m, u, text
  <2> HIDE DEF at
  <2>8. k \in Nat /\ k + Len(r.head) + d <= B - 1
    BY <1>1, <2>2, <2>5, <2>6 DEF x
  <2>9. a \in Seq(Bytes) /\ Len(a) = Len(b)
    <3> HIDE DEF k
    <3> QED
      BY <2>8, ShiftKeepsLength
  <2> DEFINE e == IF k < Len(b) THEN d + Len(r.head) + k ELSE d + Len(r.head)
  <2>10. e \in Int
    <3> HIDE DEF k
    <3> QED
      BY <1>1, <2>8
  <2>11. ASSUME NEW i \in B .. next PROVE i - e \in 1 .. Len(a) /\ a[i - e] = R[i]
    <3>1. i \in lo .. next
      OBVIOUS
    <3>2. i - d \in 1 .. Len(r.head) + Len(b) /\ (r.head \o b)[i - d] = R[i]
      BY <1>0, <3>1
    <3> DEFINE h == Len(r.head)
               n == Len(b)
               j == i - d - h
    <3>8. /\ i \in Int /\ i >= B /\ i - d \in Int /\ i - d <= h + n
          /\ k \in Nat /\ k + h + d <= B - 1 /\ h \in Nat /\ n \in Nat
      <4> HIDE DEF k
      <4> QED
        BY <1>1, <2>8, <3>2
    <3> HIDE DEF h, k, n
    <3>9. i = j + d + h /\ j \in Int
      BY <3>8
    <3> HIDE DEF j
    <3>3. j \in 1 .. n /\ j > k
      BY <3>8, <3>9
    <3>4. ~(i - d <= Len(r.head))
      BY <3>3, <3>8, <3>9 DEF h
    <3>5. b[j] = R[i]
      BY <1>6, <3>2, <3>4 DEF j, h
    <3>6. CASE k < Len(b)
      <4>1. i - e = j - k /\ i - e \in 1 .. n /\ i - e <= n - k /\ i - e + k = j
        <5>1. e = d + h + k /\ k < n
          BY <3>6 DEF h, n
        <5> HIDE DEF e
        <5> QED
          BY <3>3, <3>8, <3>9, <5>1
      <4>2. a[i - e] = b[i - e + k]
        <5> HIDE DEF e
        <5> QED
          BY <2>8, <3>6, <4>1, ShiftIs DEF n
      <4> QED
        BY <2>9, <3>5, <4>1, <4>2 DEF n
    <3>7. CASE ~(k < Len(b))
      <4>1. a = b
        BY <3>7 DEF Shift
      <4>2. i - e = j
        <5>1. e = d + h
          BY <3>7 DEF h
        <5> HIDE DEF e
        <5> QED
          BY <3>8, <3>9, <5>1
      <4> QED
        BY <3>3, <3>5, <4>1, <4>2 DEF n
    <3> QED
      BY <3>6, <3>7
  <2> HIDE DEF a, e, k
  <2>12. q.mode = "body" /\ q.body = << >> \o a
    <3>1. Len(<< >>) = 0 /\ << >> \in Seq(Bytes)
      OBVIOUS
    <3>2. MaxBody - Len(r.body) >= Len(a) /\ MaxBody - Len(r.body) \in Int
      BY <1>1, <1>2, <2>9, <3>1
    <3>3. Upto(a, MaxBody - Len(r.body)) = a
      BY <2>9, <3>2, UptoHas
    <3> QED
      BY <2>7, <3>3 DEF InBody, Response4
  <2>13. Kept(R, B, B - 1, << >>)
    BY KeptNothing
  <2>14. << >> \in Seq(Bytes) /\ B - 1 \in Int
    OBVIOUS
  <2>15. Kept(R, B, next, << >> \o a)
    <3>1. \A i \in B .. next : i > B - 1 => i - e \in 1 .. Len(a) /\ a[i - e] = R[i]
      BY <2>11
    <3>2. B \in Int /\ next \in Int
      OBVIOUS
    <3> QED
      BY <2>9, <2>10, <2>13, <2>14, <3>1, <3>2, KeptOnwards
  <2> QED
    BY <2>12, <2>15
<1> QED
  BY <1>8, <1>9

LEMMA HeadParsed ==
  ASSUME NEW R \in Seq(Bytes), NEW B \in Nat, Fits(R, B),
         NEW r \in Response4, r.mode = "head", At(HeadEnd, r.head) = {},
         NEW pos \in Nat, Parsed(r, R, B, pos),
         NEW b \in Seq(Bytes), NEW next \in Nat, next = pos + Len(b), next <= Len(R),
         Shows(b, R, pos + 1, next, pos), NEW q \in InHead(r, b)
  PROVE  Parsed(q, R, B, next)
<1>1. /\ r.head \in Seq(Bytes) /\ Len(r.head) \in Nat /\ Len(b) \in Nat
  BY LenProperties DEF Response4
<1>2. /\ q.line = r.line /\ q.mode \in {"head", "body"}
      /\ q.mode = "head" => q.body = << >>
  BY HeadShape DEF Parsed
<1>3. CASE CutIn(r)
  BY <1>2, <1>3 DEF Parsed, CutIn
<1>4. CASE ~CutIn(r)
  <2>1. PICK o \in Nat : o <= B - 5 /\ Shows(r.head, R, o + 1, pos, pos - Len(r.head))
    BY <1>4 DEF Parsed
  <2>2. Len(r.head) <= pos /\ pos < B - 1 /\ r.body = << >>
    BY <1>4 DEF Parsed
  <2> DEFINE d == pos - Len(r.head)
  <2>3. d \in Nat /\ pos = d + Len(r.head)
    BY <1>1, <2>2
  <2>4. Shows(r.head \o b, R, o + 1, next, d)
    <3>1. Shows(r.head, R, o + 1, pos, d)
      BY <2>1
    <3> HIDE DEF d
    <3>2. d \in Int /\ o + 1 \in Int /\ pos \in Int /\ next \in Int
      BY <2>3
    <3> QED
      BY <1>1, <2>3, <3>1, <3>2, ShowsConcat
  <2>5. /\ o + 1 \in Int /\ o + 1 <= B - 4 /\ Len(r.head) < B - 1
        /\ Len(r.head) + Len(b) <= next
    BY <1>1, <2>1, <2>2
  <2> HIDE DEF d
  <2>6. \/ q.mode = "body" /\ Kept(R, B, next, q.body)
        \/ /\ q.mode = "head" /\ q.head = r.head \o b
           /\ next < B - 1 /\ At(HeadEnd, q.head) = {}
    <3> DEFINE lo == o + 1
    <3>1. /\ lo \in Int /\ lo <= B - 4 /\ Len(r.head) < B - 1 /\ Len(r.head) + Len(b) <= next
          /\ r.body = << >> /\ d \in Nat /\ Shows(r.head \o b, R, lo, next, d)
      BY <2>2, <2>3, <2>4, <2>5
    <3> HIDE DEF lo
    <3> QED
      BY ONLY <3>1, HeadKeeps, R \in Seq(Bytes), B \in Nat, Fits(R, B), r \in Response4,
         At(HeadEnd, r.head) = {}, b \in Seq(Bytes), next \in Nat, next <= Len(R),
         q \in InHead(r, b)
  <2>7. CASE q.mode = "body" /\ Kept(R, B, next, q.body)
    <3>1. q.mode # "line" /\ q.mode # "head" /\ q.mode # "copy"
      BY <2>7
    <3> QED
      BY <2>7, <3>1 DEF Parsed
  <2>8. CASE q.mode = "head" /\ q.head = r.head \o b /\ next < B - 1
    <3>1. Len(q.head) = Len(r.head) + Len(b)
      BY <1>1, <2>8, ConcatProperties
    <3>2. next - Len(q.head) = d /\ Len(q.head) <= next
      <4> DEFINE h == Len(r.head)
                 n == Len(b)
                 k == Len(q.head)
      <4>1. h \in Nat /\ n \in Nat /\ k = h + n /\ next = pos + n /\ pos = d + h /\ h + n <= next
        BY <1>1, <2>3, <2>5, <3>1
      <4> HIDE DEF h, n, k
      <4>2. next - k = d /\ k <= next
        BY <2>3, <4>1
      <4> QED
        BY <4>2 DEF k
    <3> QED
      BY <1>2, <2>1, <2>4, <2>8, <3>2 DEF Parsed
  <2> QED
    BY <2>6, <2>7, <2>8
<1> QED
  BY <1>3, <1>4

LEMMA LineParsed ==
  ASSUME NEW R \in Seq(Bytes), NEW B \in Nat, Fits(R, B),
         NEW r \in Response4, r.mode = "line", At(CRLF, r.line) = {}, r.head = << >>,
         NEW pos \in Nat, Parsed(r, R, B, pos),
         NEW b \in Seq(Bytes), NEW next \in Nat, next = pos + Len(b), next <= Len(R),
         Shows(b, R, pos + 1, next, pos), NEW q \in InLine(r, b)
  PROVE  Parsed(q, R, B, next)
<1> DEFINE m    == LineSize - 3
           u    == Upto(b, m)
           text == r.line \o u
           at   == Find(CRLF, text)
           n    == Len(b)
<1>1. /\ r.line \in Seq(Bytes) /\ Len(r.line) = pos /\ n \in Nat /\ next = pos + n
      /\ r.body = << >> /\ pos < B - 1 /\ Shows(r.line, R, 1, pos, 0)
      /\ m \in Nat /\ Len(R) \in Nat
  BY LenProperties, WwGetConstants DEF Response4, Parsed
<1>2. PICK x \in At(CRLF, R) : x + 1 <= B - 5 /\ x + 1 <= m
  BY DEF Fits
<1>3. /\ x \in Nat /\ x >= 1 /\ R[x][2] = CRLF[1] /\ R[x + 1][2] = CRLF[2] /\ x + 1 <= Len(R)
  <2>1. /\ x \in 1 .. Len(R) /\ x + Len(CRLF) <= Len(R) + 1
        /\ \A j \in 1 .. Len(CRLF) : R[x + j - 1][2] = CRLF[j]
    BY <1>2 DEF At
  <2>2. Len(CRLF) = 2
    BY PatternLengths
  <2>3. x + 1 - 1 = x /\ x + 2 - 1 = x + 1 /\ x \in Nat
    BY <1>1, <2>1
  <2> QED
    BY <1>1, <2>1, <2>2, <2>3
<1> HIDE DEF m
<1>4. /\ u \in Seq(Bytes) /\ Len(u) \in Nat /\ Len(u) <= n
      /\ m >= n => u = b
      /\ m < n => Len(u) = m
      /\ \A i \in 1 .. Len(u) : u[i] = b[i]
  BY <1>1, UptoIs, UptoHas
<1> HIDE DEF u, n
<1>5. text \in Seq(Bytes) /\ Len(text) = pos + Len(u)
  <2>1. text \in Seq(Bytes) /\ Len(text) = Len(r.line) + Len(u)
    <3>1. r.line \in Seq(Bytes) /\ u \in Seq(Bytes)
      BY <1>1, <1>4
    <3> QED
      BY <3>1, ConcatProperties
  <2> HIDE DEF text
  <2> QED
    BY <1>1, <2>1
<1>6. Shows(text, R, 1, pos + Len(u), 0)
  <2>1. Shows(u, R, pos + 1, pos + Len(u), pos)
    <3> SUFFICES ASSUME NEW i \in pos + 1 .. pos + Len(u)
                 PROVE  i - pos \in 1 .. Len(u) /\ u[i - pos] = R[i]
      BY DEF Shows
    <3>1. i \in pos + 1 .. next /\ i - pos \in 1 .. Len(u)
      BY <1>1, <1>4
    <3>2. b[i - pos] = R[i]
      BY <3>1 DEF Shows
    <3> QED
      BY <1>4, <3>1, <3>2
  <2> DEFINE l == pos + Len(u)
  <2>2. l \in Int /\ pos \in Int /\ pos = 0 + Len(r.line)
    BY <1>1, <1>4
  <2>3. Shows(u, R, pos + 1, l, pos)
    BY <2>1
  <2> HIDE DEF l
  <2>4. Shows(text, R, 1, l, 0)
    BY <1>1, <1>4, <2>2, <2>3, ShowsConcat
  <2> QED
    BY <2>4 DEF l
<1> HIDE DEF text
<1>7. ASSUME NEW i \in 1 .. Len(text) PROVE text[i] = R[i]
  <2>1. i \in 1 .. pos + Len(u) /\ i - 0 = i
    BY <1>5
  <2> QED
    BY <1>6, <2>1 DEF Shows
<1>8. ASSUME x + 1 <= Len(text) PROVE at # 0 /\ at <= x
  <2>1. Len(text) \in Nat /\ Len(CRLF) = 2
    BY <1>5, PatternLengths, LenProperties
  <2>2. x \in 1 .. Len(text) /\ x + 1 \in 1 .. Len(text) /\ x + 2 <= Len(text) + 1
    BY <1>3, <1>8, <2>1
  <2>3. text[x] = R[x] /\ text[x + 1] = R[x + 1]
    BY <1>7, <2>2
  <2>4. \A j \in 1 .. Len(CRLF) : text[x + j - 1][2] = CRLF[j]
    <3>1. x + 1 - 1 = x /\ x + 2 - 1 = x + 1
      BY <1>3
    <3> QED
      BY <1>3, <2>1, <2>3, <3>1
  <2>5. x \in At(CRLF, text)
    BY <2>1, <2>2, <2>4 DEF At
  <2> QED
    BY <1>5, <2>5, FindIsFirst
<1>9. ASSUME q = [r EXCEPT !.mode = "head"], next <= B - 5 PROVE Parsed(q, R, B, next)
  <2>1. q.mode = "head" /\ q.body = << >> /\ q.head = << >> /\ Len(q.head) = 0
    BY <1>1, <1>9 DEF Response4
  <2>2. next + 1 .. next = {}
    OBVIOUS
  <2>3. Shows(q.head, R, next + 1, next, next - Len(q.head))
    BY <2>2 DEF Shows
  <2>4. next < B - 1 /\ Len(q.head) <= next
    BY <1>9, <2>1
  <2>5. q.mode # "line" /\ q.mode # "body" /\ q.mode # "copy"
    BY <2>1
  <2> QED
    BY <1>9, <2>1, <2>3, <2>4, <2>5 DEF Parsed
<1>10. CASE at = 0
  <2>1. ~(x + 1 <= Len(text))
    BY <1>8, <1>10
  <2>2. u = b /\ Len(text) = next /\ next < x + 1
    <3>1. Len(u) \in Nat /\ Len(text) = pos + Len(u)
      BY <1>4, <1>5
    <3>2. m >= n
      BY <1>1, <1>2, <1>3, <1>4, <2>1, <3>1
    <3>3. u = b /\ Len(u) = n
      BY <1>4, <3>2 DEF n
    <3> QED
      BY <1>1, <1>3, <2>1, <3>1, <3>3
  <2>3. next <= B - 5
    BY <1>2, <1>3, <2>2
  <2>4. CASE q = [r EXCEPT !.line = text]
    <3>1. /\ q.mode = "line" /\ q.line = text /\ q.body = << >>
      BY <1>1, <2>4 DEF Response4
    <3>2. Shows(text, R, 1, next, 0) /\ next < B - 1
      BY <1>5, <1>6, <2>2, <2>3
    <3>3. q.mode # "head" /\ q.mode # "body" /\ q.mode # "copy"
      BY <3>1
    <3> QED
      BY <2>2, <3>1, <3>2, <3>3 DEF Parsed
  <2> QED
    BY <1>9, <1>10, <2>3, <2>4 DEF InLine, text, u, m
<1>11. CASE at # 0
  <2> DEFINE e    == at + 1
             used == at + 1 - pos
             a    == Shift(b, used)
  <2>1. /\ at \in At(CRLF, text) /\ at \in Nat /\ at >= 1 /\ at + 1 <= Len(text)
        /\ text[at][2] = "cr" /\ at + 2 > pos + 1
    <3>1. at \in At(CRLF, text)
      BY <1>5, <1>11, FindSpec
    <3>2. Len(CRLF) = 2 /\ Len(CRLF) \in Nat \ {0} /\ CRLF[1] = "cr"
      BY PatternLengths DEF CRLF
    <3> HIDE DEF at
    <3>3. at + 2 > pos + 1
      <4>1. at \in At(CRLF, r.line \o u)
        BY <3>1 DEF text
      <4> QED
        BY <1>1, <1>4, <3>2, <4>1, FoundInNew
    <3>4. /\ at \in 1 .. Len(text) /\ at + 2 <= Len(text) + 1
          /\ \A j \in 1 .. Len(CRLF) : text[at + j - 1][2] = CRLF[j]
      BY <3>1, <3>2 DEF At
    <3>5. at + 1 - 1 = at /\ Len(text) \in Nat
      BY <1>5, <3>4, LenProperties
    <3> QED
      BY <3>1, <3>2, <3>3, <3>4, <3>5
  <2>2. at <= x
    <3>1. Len(text) \in Nat
      BY <1>5, LenProperties
    <3>2. CASE x + 1 <= Len(text)
      BY <1>8, <3>2
    <3>3. CASE ~(x + 1 <= Len(text))
      <4> HIDE DEF at
      <4> QED
        BY <1>3, <2>1, <3>1, <3>3
    <3> QED
      BY <3>2, <3>3
  <2> HIDE DEF at
  <2>3. e \in Nat /\ e <= B - 5 /\ used \in Nat /\ used >= 1 /\ used + pos = e
    BY <1>1, <1>2, <1>3, <2>1, <2>2
  <2>4. ASSUME used = 1 PROVE CutIn(r)
    <3>1. at = pos /\ at \in 1 .. Len(r.line)
      BY <1>1, <2>1, <2>4
    <3>2. at \in 1 .. Len(text) /\ at - 0 = at /\ at \in 1 .. pos
      BY <1>1, <2>1, <3>1
    <3>3. text[at] = R[at] /\ r.line[at] = R[at]
      BY <1>1, <1>7, <3>2 DEF Shows
    <3>4. r.line # << >>
      BY <3>1
    <3> QED
      BY <1>1, <2>1, <3>1, <3>3, <3>4 DEF CutIn, Last
  <2>5. CASE ~(n > used)
    <3>1. q = [r EXCEPT !.mode = "head"]
      BY <1>1, <1>11, <2>5 DEF InLine, text, u, m, at, n
    <3>2. next <= B - 5
      BY <1>1, <2>3, <2>5
    <3> QED
      BY <1>9, <3>1, <3>2
  <2>6. CASE n > used
    <3>1. q \in InHead(r, a)
      BY <1>1, <1>11, <2>6 DEF InLine, text, u, m, at, n
    <3>2. /\ q.line = r.line /\ q.mode \in {"head", "body"}
          /\ q.mode = "head" => q.body = << >>
      BY <1>1, <3>1, HeadShape
    <3>3. CASE used = 1
      BY <2>4, <3>2, <3>3 DEF Parsed, CutIn
    <3>4. CASE used # 1
      <4> HIDE DEF used
      <4>1. a \in Seq(Bytes) /\ Len(a) = n
        BY <2>3, ShiftKeepsLength DEF n
      <4>2. \A j \in 1 .. n : a[j] = IF j <= n - used THEN b[j + used] ELSE b[j]
        <5>1. used \in Nat /\ used < Len(b)
          BY <1>1, <2>3, <2>6 DEF n
        <5> QED
          BY <5>1, ShiftIs DEF n
      <4> HIDE DEF a, e
      <4>3. ASSUME NEW i \in pos + 1 .. next PROVE i - pos \in 1 .. n /\ b[i - pos] = R[i]
        BY <1>1 DEF Shows, n
      <4>4. ASSUME NEW i \in e + 1 .. next PROVE i - e \in 1 .. n /\ a[i - e] = R[i]
        <5> DEFINE j == i - e
        <5>1. /\ j \in 1 .. n /\ j <= n - used /\ j + used = i - pos
              /\ i \in pos + 1 .. next
          BY <1>1, <2>3
        <5> HIDE DEF j
        <5>2. a[j] = b[j + used]
          BY <4>2, <5>1
        <5>3. a[j] = R[i]
          BY <4>3, <5>1, <5>2
        <5> QED
          BY <5>1, <5>3 DEF j
      <4>5. r.head \o a = a
        BY <4>1, ConcatEmptySeq
      <4>6. Shows(r.head \o a, R, e + 1, next, e)
        BY <4>1, <4>4, <4>5 DEF Shows
      <4>7. \/ q.mode = "body" /\ Kept(R, B, next, q.body)
            \/ /\ q.mode = "head" /\ q.head = r.head \o a
               /\ next < B - 1 /\ At(HeadEnd, q.head) = {}
        <5> DEFINE lo == e + 1
        <5>1. lo \in Int /\ lo <= B - 4 /\ e \in Nat
          BY <2>3
        <5>2. /\ Len(r.head) < B - 1 /\ Len(r.head) + Len(a) <= next /\ r.body = << >>
              /\ At(HeadEnd, r.head) = {}
          <6>1. Len(r.head) = 0 /\ At(HeadEnd, r.head) = {}
            <7>1. Len(r.head) = 0
              OBVIOUS
            <7> QED
              BY <7>1 DEF At
          <6> QED
            BY <1>1, <4>1, <6>1
        <5>3. Shows(r.head \o a, R, lo, next, e)
          BY <4>6
        <5> HIDE DEF lo
        <5> QED
          BY ONLY <3>1, <4>1, <5>1, <5>2, <5>3, HeadKeeps, R \in Seq(Bytes), B \in Nat,
             Fits(R, B), r \in Response4, next \in Nat, next <= Len(R)
      <4>8. CASE q.mode = "body" /\ Kept(R, B, next, q.body)
        <5>1. q.mode # "line" /\ q.mode # "head" /\ q.mode # "copy"
          BY <4>8
        <5> QED
          BY <4>8, <5>1 DEF Parsed
      <4>9. CASE q.mode = "head" /\ q.head = a /\ next < B - 1 /\ At(HeadEnd, a) = {}
        <5> DEFINE o == next - used
        <5>1. Len(q.head) = n /\ n <= next /\ next - Len(q.head) = pos /\ o \in Nat
          <6>1. Len(q.head) = n
            BY <4>1, <4>9
          <6>2. n <= next /\ next - n = pos /\ o \in Nat
            BY <1>1, <2>3, <2>6
          <6> HIDE DEF o
          <6> QED
            BY <6>1, <6>2
        <5>2. Shows(q.head, R, o + 1, next, pos)
          <6> SUFFICES ASSUME NEW i \in o + 1 .. next
                       PROVE  i - pos \in 1 .. n /\ a[i - pos] = R[i]
            BY <4>9, <5>1 DEF Shows
          <6>1. i \in pos + 1 .. next /\ i - pos \in 1 .. n /\ ~(i - pos <= n - used)
            <7>1. i \in Int /\ i > next - used /\ i <= next
              BY <2>3
            <7> QED
              BY <1>1, <2>3, <2>6, <7>1
          <6>2. a[i - pos] = b[i - pos]
            BY <4>2, <6>1
          <6> QED
            BY <4>3, <6>1, <6>2
        <5>3. o <= B - 5
          <6> SUFFICES ASSUME ~(o <= B - 5) PROVE FALSE
            OBVIOUS
          <6>1. used = 2 /\ next = B - 2 /\ n = B - 2 - pos /\ e = pos + 2
            BY <1>1, <2>3, <3>4, <4>9
          <6>2. /\ R[B - 4][2] = "cr" /\ R[B - 3][2] = "lf" /\ R[B - 2][2] = "cr"
            <7>1. \A j \in 1 .. 4 : R[B - 4 + j - 1][2] = HeadEnd[j]
              <8>1. B - 4 \in At(HeadEnd, R)
                BY DEF Fits
              <8>2. \A j \in 1 .. Len(HeadEnd) : R[B - 4 + j - 1][2] = HeadEnd[j]
                BY <8>1 DEF At
              <8> SUFFICES ASSUME NEW j \in 1 .. 4 PROVE R[B - 4 + j - 1][2] = HeadEnd[j]
                OBVIOUS
              <8>3. j \in 1 .. Len(HeadEnd)
                BY PatternLengths
              <8> QED
                BY <8>2, <8>3
            <7>4. /\ R[B - 4 + 1 - 1][2] = HeadEnd[1] /\ R[B - 4 + 2 - 1][2] = HeadEnd[2]
                  /\ R[B - 4 + 3 - 1][2] = HeadEnd[3]
              BY <7>1
            <7>2. B - 4 + 1 - 1 = B - 4 /\ B - 4 + 2 - 1 = B - 3 /\ B - 4 + 3 - 1 = B - 2
              OBVIOUS
            <7>3. HeadEnd[1] = "cr" /\ HeadEnd[2] = "lf" /\ HeadEnd[3] = "cr"
              BY DEF HeadEnd
            <7> QED
              BY <7>2, <7>3, <7>4
          <6> DEFINE y == n - 4
          <6>3. /\ y \in Nat /\ y >= 1 /\ y + 3 = n - 1
                /\ y = B - 4 - e /\ y + 1 = B - 3 - e /\ y + 2 = B - 2 - e /\ y + 3 = B - 3 - pos
                /\ B - 4 \in e + 1 .. next /\ B - 3 \in e + 1 .. next
                /\ B - 2 \in e + 1 .. next /\ B - 3 \in o + 1 .. next
            BY <1>1, <2>3, <6>1
          <6>4. a[y] = R[B - 4] /\ a[y + 1] = R[B - 3] /\ a[y + 2] = R[B - 2]
            BY <4>4, <6>3
          <6>5. a[y + 3] = R[B - 3]
            <7>1. q.head[B - 3 - pos] = R[B - 3]
              BY <5>2, <6>3 DEF Shows
            <7> QED
              BY <4>9, <6>3, <7>1
          <6> HIDE DEF y
          <6>6. \A j \in 1 .. 4 : a[y + j - 1][2] = HeadEnd[j]
            <7>1. y + 1 - 1 = y /\ y + 2 - 1 = y + 1 /\ y + 3 - 1 = y + 2 /\ y + 4 - 1 = y + 3
              BY <6>3
            <7> QED
              BY <6>2, <6>4, <6>5, <7>1 DEF HeadEnd
          <6>7. y \in 1 .. Len(a) /\ y + 4 <= Len(a) + 1
            <7>1. y \in 1 .. n /\ y + 4 <= n + 1
              <8>1. y \in Nat /\ y >= 1 /\ y + 3 = n - 1 /\ n \in Nat
                BY <1>1, <6>3
              <8> QED
                BY <8>1
            <7> QED
              BY <4>1, <7>1
          <6>8. y \in At(HeadEnd, a)
            BY <6>6, <6>7, PatternLengths DEF At
          <6> QED
            BY <4>9, <6>8
        <5>4. q.mode # "line" /\ q.mode # "body" /\ q.mode # "copy"
          BY <4>9
        <5> HIDE DEF o
        <5> QED
          BY <3>2, <4>9, <5>1, <5>2, <5>3, <5>4 DEF Parsed
      <4> QED
        BY <4>5, <4>7, <4>8, <4>9
    <3> QED
      BY <3>3, <3>4
  <2> QED
    BY <2>5, <2>6
<1> QED
  BY <1>10, <1>11

(* However the packet goes through the parser.                             *)
LEMMA AfterParsed ==
  ASSUME NEW R \in Seq(Bytes), NEW B \in Nat, Fits(R, B), NEW r, WellFormed(r),
         NEW pos \in Nat, Parsed(r, R, B, pos), Len(r.body) <= pos,
         NEW b \in Seq(Bytes), NEW next \in Nat, next = pos + Len(b), next <= Len(R),
         Shows(b, R, pos + 1, next, pos), NEW q \in After(r, b)
  PROVE  Parsed(q, R, B, next)
<1>1. /\ r \in Response4 /\ r.mode \in {"line", "head", "body"}
      /\ r.body \in Seq(Bytes) /\ Len(r.body) \in Nat /\ Len(b) \in Nat /\ Len(R) \in Nat
  BY LenProperties DEF WellFormed, Response4, Parsed
<1>2. CASE r.mode = "line"
  <2>1. q \in InLine(r, b)
    BY <1>2 DEF After
  <2> QED
    BY <1>1, <1>2, <2>1, LineParsed DEF WellFormed
<1>3. CASE r.mode = "head"
  <2>1. q \in InHead(r, b)
    BY <1>3 DEF After
  <2> QED
    BY <1>1, <1>3, <2>1, HeadParsed DEF WellFormed
<1>4. CASE r.mode = "body"
  <2>1. Upto(b, MaxBody - Len(r.body)) = b
    <3>1. MaxBody \in Nat /\ Len(R) <= MaxBody
      BY WwGetConstants DEF Fits
    <3>2. MaxBody - Len(r.body) \in Int /\ MaxBody - Len(r.body) >= Len(b)
      <4> DEFINE k == Len(r.body)
                 n == Len(b)
                 l == Len(R)
      <4>1. /\ k \in Nat /\ n \in Nat /\ l \in Nat
            /\ k <= pos /\ next = pos + n /\ next <= l /\ l <= MaxBody
        BY <1>1, <3>1
      <4> HIDE DEF k, n, l
      <4>2. MaxBody - k \in Int /\ MaxBody - k >= n
        BY <3>1, <4>1
      <4> QED
        BY <4>2 DEF k, n
    <3> QED
      BY <3>2, UptoHas
  <2>2. q = InBody(r, b)
    BY <1>4 DEF After
  <2>3. q.mode = "body" /\ q.line = r.line /\ q.body = r.body \o b
    BY <1>1, <2>1, <2>2 DEF InBody, Response4
  <2>4. CutIn(q) \/ Kept(R, B, next, q.body)
    <3>1. CASE CutIn(r)
      BY <2>3, <3>1 DEF CutIn
    <3>2. CASE Kept(R, B, pos, r.body)
      <4>1. \A i \in B .. next : i > pos => i - pos \in 1 .. Len(b) /\ b[i - pos] = R[i]
        <5>1. ASSUME NEW i \in B .. next, i > pos PROVE i \in pos + 1 .. next
          BY <5>1
        <5> QED
          BY <5>1 DEF Shows
      <4>2. B \in Int /\ pos \in Int /\ next \in Int
        OBVIOUS
      <4>3. Kept(R, B, next, r.body \o b)
        BY <1>1, <3>2, <4>1, <4>2, KeptOnwards
      <4> QED
        BY <2>3, <4>3
    <3> QED
      BY <1>4, <3>1, <3>2 DEF Parsed
  <2>5. q.mode # "line" /\ q.mode # "head" /\ q.mode # "copy"
    BY <2>3
  <2> QED
    BY <2>4, <2>5 DEF Parsed
<1> QED
  BY <1>1, <1>2, <1>3, <1>4

LEMMA NewParsed ==
  ASSUME NEW c \in Clients, c \notin Copying, NEW R \in Seq(Bytes), NEW B \in Nat, Fits(R, B)
  PROVE  Parsed(NewResponse(c), R, B, 0)
<1>1. B - 4 \in 1 .. Len(R) /\ Len(R) \in Nat
  BY LenProperties DEF Fits, At
<1>2. 1 .. 0 = {} /\ Len(<< >>) = 0
  OBVIOUS
<1>3. Shows(<< >>, R, 1, 0, 0)
  BY <1>2 DEF Shows
<1>4. /\ NewResponse(c).mode = "line" /\ NewResponse(c).line = << >>
      /\ NewResponse(c).body = << >>
  BY DEF NewResponse
<1>5. NewResponse(c).mode # "head" /\ NewResponse(c).mode # "body" /\ NewResponse(c).mode # "copy"
  BY <1>4
<1>6. 0 <= Len(R) /\ 0 < B - 1
  BY <1>1
<1> HIDE DEF NewResponse
<1> QED
  BY <1>2, <1>3, <1>4, <1>5, <1>6 DEF Parsed

-----------------------------------------------------------------------------
(* The steps                                                               *)

LEMMA LossStart == DownInit => LossInv
<1> SUFFICES ASSUME DownInit, NEW c \in Clients PROVE ParsedClient(c) /\ Transfer(c)
  BY DEF LossInv
<1>1. /\ resp[c] = NewResponse(c) /\ size[c] = 0 /\ state[c] = "start" /\ wire[c] = << >>
      /\ \A s \in Servers : queue[s] = << >> /\ sc[s] = Nobody
      /\ Nobody \notin Clients
  BY DownloadsConstants DEF DownInit, Init, Srv!Init
<1>2. ParsedClient(c)
  <2> SUFFICES ASSUME c \notin Copying, More(c), Server(c) \in Fields
               PROVE  Parsed(resp[c], Response[Server(c)][c], BodyStart[Server(c)], size[c])
    BY DEF ParsedClient
  <2> DEFINE s == Server(c)
  <2>1. s \in Servers /\ s \in Fields
    BY DownloadsConstants
  <2>2. /\ Response[s][c] \in Seq(Bytes) /\ BodyStart[s] \in Nat
        /\ Fits(Response[s][c], BodyStart[s])
    BY <2>1, DownloadsConstants, FieldsConstants
  <2> QED
    BY <1>1, <2>2, NewParsed
<1>3. Transfer(c)
  <2>1. \A s \in Servers : ~Contains(queue[s], c) /\ sc[s] # c
    BY <1>1 DEF Contains
  <2>2. \A s \in Servers : Once(s, c)
    BY <1>1 DEF Once
  <2> QED
    BY <1>1, <2>1, <2>2 DEF Transfer, Connected
<1> QED
  BY <1>2, <1>3

(* The constants of the response that c is fetching.                       *)
LEMMA Fetched ==
  ASSUME NEW c \in Clients, Server(c) \in Servers
  PROVE  /\ Response[Server(c)][c] \in Seq(Bytes) /\ Len(Response[Server(c)][c]) \in Nat
         /\ BodyStart[Server(c)] \in Nat
         /\ Server(c) \in Fields => Fits(Response[Server(c)][c], BodyStart[Server(c)])
BY DownloadsConstants, FieldsConstants, LenProperties

LEMMA ServerOf ==
  ASSUME ClientInv, NEW c \in Clients, More(c)
  PROVE  Server(c) \in Servers
<1>1. Urls[c] \in Seq(Servers) /\ url[c] \in Nat /\ url[c] >= 1 /\ url[c] <= Len(Urls[c])
  BY WwGetConstants DEF ClientInv, GoodClient, More
<1>2. url[c] \in 1 .. Len(Urls[c])
  BY <1>1, LenProperties
<1> QED
  BY <1>1, <1>2 DEF Server

(* What a step leaves alone.                                               *)
LEMMA ParsedFrame ==
  ASSUME NEW c \in Clients, ParsedClient(c),
         url'[c] = url[c], resp'[c] = resp[c], size'[c] = size[c]
  PROVE  ParsedClient(c)'
BY DEF ParsedClient, Server, More

(* The servers change nothing that is about c.                             *)
SameServers(c) ==
  \A s \in Servers :
    /\ Contains(queue[s], c)' => Contains(queue[s], c)
    /\ Once(s, c) => Once(s, c)'
    /\ sc'[s] = c => sc[s] = c /\ server'[s] = server[s] /\ left'[s] = left[s]

LEMMA TransferFrame ==
  ASSUME NEW c \in Clients, Transfer(c), SameServers(c),
         url'[c] = url[c], resp'[c] = resp[c], size'[c] = size[c], state'[c] = state[c],
         wire'[c] = wire[c]
  PROVE  Transfer(c)'
<1>1. \A s \in Servers : Once(s, c)'
  BY DEF Transfer, SameServers
<1>2. Connected(c)' => Connected(c)
  BY DEF SameServers, Connected
<1>3. ASSUME OnTheWire(c) PROVE OnTheWire(c)'
  <2>1. Server(c)' = Server(c)
    BY DEF Server
  <2>2. ASSUME NEW s \in Servers PROVE Queued(s, c)' /\ Served(s, c)'
    <3>1. Queued(s, c) /\ Served(s, c)
      BY <1>3 DEF OnTheWire
    <3>2. Queued(s, c)'
      BY <2>1, <3>1 DEF Queued, SameServers
    <3>3. Served(s, c)'
      BY <2>1, <3>1 DEF Served, SameServers, Shows
    <3> QED
      BY <3>2, <3>3
  <2>3. /\ size[c] + Len(wire[c]) <= Len(Response[Server(c)][c])
        /\ Shows(wire[c], Response[Server(c)][c], size[c] + 1, size[c] + Len(wire[c]), size[c])
    BY <1>3 DEF OnTheWire
  <2> QED
    BY <2>1, <2>2, <2>3 DEF OnTheWire, Shows
<1>4. NewResponse(c)' = NewResponse(c)
  BY DEF NewResponse
<1> QED
  BY <1>1, <1>2, <1>3, <1>4 DEF Transfer

(* A client's step leaves the others as they are; only Connect touches a   *)
(* queue.                                                                  *)
LEMMA OtherClients ==
  ASSUME DownInv, LossInv, NEW c \in Clients, NEW d \in Clients \ {c},
         Fetch(c) \/ Trouble(c)
  PROVE  ParsedClient(d)' /\ Transfer(d)'
<1>1. /\ url'[d] = url[d] /\ resp'[d] = resp[d] /\ size'[d] = size[d] /\ state'[d] = state[d]
      /\ wire'[d] = wire[d] /\ UNCHANGED <<server, sc, left>>
  BY DEF Fetch, Trouble, LookupFails, Connect, ConnectFails, Read, Overrun, EndOfStream, PrintBody,
         Ends, Killed, Goes, DownInv, ClientInv, WireInv
<1>2. SameServers(d)
  <2>1. CASE queue' = queue
    BY <1>1, <2>1 DEF SameServers, Once
  <2>2. CASE Connect(c)
    <3> SUFFICES ASSUME NEW s \in Servers
                 PROVE  /\ Contains(queue[s], d)' => Contains(queue[s], d)
                        /\ Once(s, d) => Once(s, d)'
      BY <1>1 DEF SameServers
    <3>1. queue'[s] = queue[s] \/ queue'[s] = Append(queue[s], c)
      BY <2>2 DEF Connect, DownInv, WireInv
    <3>2. CASE queue'[s] = queue[s]
      BY <3>2 DEF Once
    <3>3. CASE queue'[s] = Append(queue[s], c)
      <4>1. /\ queue[s] \in Seq(Clients) /\ Len(queue[s]) \in Nat
            /\ Len(queue'[s]) = Len(queue[s]) + 1 /\ queue'[s][Len(queue[s]) + 1] = c
            /\ \A i \in 1 .. Len(queue[s]) : queue'[s][i] = queue[s][i]
        BY <3>3, LenProperties, AppendProperties DEF DownInv, WireInv
      <4>2. ASSUME NEW i \in 1 .. Len(queue'[s]), queue'[s][i] = d
            PROVE  i \in 1 .. Len(queue[s]) /\ queue[s][i] = d
        <5>1. i # Len(queue[s]) + 1
          BY <4>1, <4>2
        <5> QED
          BY <4>1, <4>2, <5>1
      <4> QED
        BY <4>2 DEF Contains, Once
    <3> QED
      BY <3>1, <3>2, <3>3
  <2> QED
    BY <2>1, <2>2 DEF Fetch, Trouble, LookupFails, ConnectFails, Read, Overrun, EndOfStream,
                      PrintBody, Ends, Killed
<1> QED
  BY <1>1, <1>2, ParsedFrame, TransferFrame DEF LossInv

LEMMA ConnectLoss ==
  ASSUME DownInv, LossInv, NEW c \in Clients, Connect(c), UNCHANGED <<server, sc, left>>
  PROVE  ParsedClient(c)' /\ Transfer(c)'
<1>1. /\ state[c] = "start" /\ More(c) /\ url'[c] = url[c] /\ resp'[c] = resp[c]
      /\ size'[c] = size[c] /\ wire'[c] = wire[c] /\ state'[c] = "reading"
      /\ queue' = [queue EXCEPT ![Server(c)] = Append(@, c)]
  BY DEF Connect, Goes, DownInv, ClientInv
<1>2. /\ ~Connected(c) /\ wire[c] = << >> /\ size[c] = 0
      /\ \A s \in Servers : Once(s, c) /\ sc[s] # c /\ ~Contains(queue[s], c)
  BY <1>1 DEF LossInv, Transfer, Connected
<1>3. Server(c) \in Servers /\ Server(c)' = Server(c)
  BY <1>1, ServerOf DEF DownInv, Server
<1>4. ASSUME NEW s \in Servers PROVE (Contains(queue[s], c)' => s = Server(c)) /\ Once(s, c)'
  <2>1. CASE s # Server(c)
    <3>1. queue'[s] = queue[s]
      BY <1>1, <2>1 DEF DownInv, WireInv
    <3> QED
      BY <1>2, <3>1 DEF Once, Contains
  <2>2. CASE s = Server(c)
    <3>1. queue'[s] = Append(queue[s], c)
      BY <1>1, <2>2 DEF DownInv, WireInv
    <3>2. /\ queue[s] \in Seq(Clients) /\ Len(queue[s]) \in Nat
          /\ Len(queue'[s]) = Len(queue[s]) + 1
          /\ \A i \in 1 .. Len(queue[s]) : queue'[s][i] = queue[s][i]
      BY <3>1, LenProperties, AppendProperties DEF DownInv, WireInv
    <3>3. \A i \in 1 .. Len(queue[s]) : queue[s][i] # c
      BY <1>2 DEF Contains
    <3>4. ASSUME NEW i \in 1 .. Len(queue'[s]), queue'[s][i] = c PROVE i = Len(queue[s]) + 1
      <4>1. i \notin 1 .. Len(queue[s])
        BY <3>2, <3>3, <3>4
      <4> QED
        BY <3>2, <4>1
    <3> QED
      BY <2>2, <3>4 DEF Once
  <2> QED
    BY <2>1, <2>2
<1>5. OnTheWire(c)'
  <2> DEFINE R == Response[Server(c)][c]
  <2>1. /\ size'[c] = 0 /\ wire'[c] = << >> /\ \A s \in Servers : sc'[s] # c
    BY <1>1, <1>2
  <2>2. \A s \in Servers : Queued(s, c)' /\ Served(s, c)'
    BY <1>3, <1>4, <2>1 DEF Queued, Served
  <2>3. size'[c] + Len(wire'[c]) = 0 /\ size'[c] + 1 .. 0 = {}
    BY <2>1
  <2>4. 0 <= Len(R) /\ R' = R
    <3>1. Len(R) \in Nat
      BY <1>3, Fetched
    <3> QED
      BY <1>3, <3>1
  <2>5. Shows(wire'[c], R, size'[c] + 1, 0, size'[c])
    BY <2>3 DEF Shows
  <2> QED
    BY <2>2, <2>3, <2>4, <2>5 DEF OnTheWire, Shows
<1>6. ParsedClient(c)'
  BY <1>1, ParsedFrame DEF LossInv
<1>7. c \in Copying => size'[c] = 0
  BY <1>1, <1>2
<1> QED
  BY <1>1, <1>4, <1>5, <1>6, <1>7 DEF Transfer

LEMMA ReadLoss ==
  ASSUME DownInv, LossInv, NEW c \in Clients, Read(c), UNCHANGED <<server, sc, left>>
  PROVE  ParsedClient(c)' /\ Transfer(c)'
<1> DEFINE R == Response[Server(c)][c]
           w == wire[c]
           p == size[c]
<1>1. PICK n \in 1 .. Len(w) :
        /\ \E r \in After(resp[c], SubSeq(w, 1, n)) : resp' = [resp EXCEPT ![c] = r]
        /\ wire' = [wire EXCEPT ![c] = SubSeq(@, n + 1, Len(@))]
        /\ size' = [size EXCEPT ![c] = IF c \in Copying THEN @ ELSE @ + n]
  BY DEF Read
<1>2. PICK r \in After(resp[c], SubSeq(w, 1, n)) : resp' = [resp EXCEPT ![c] = r]
  BY <1>1
<1>3. /\ state[c] = "reading" /\ UNCHANGED <<url, state, queue>> /\ More(c)
      /\ Server(c)' = Server(c) /\ resp'[c] = r
      /\ wire'[c] = SubSeq(w, n + 1, Len(w))
      /\ size'[c] = IF c \in Copying THEN size[c] ELSE p + n
  BY <1>1, <1>2 DEF Read, More, Server, DownInv, ClientInv, WireInv, GoodClient
<1>4. w \in Seq(Bytes) /\ Len(w) \in Nat /\ p \in Nat /\ n \in Nat /\ n <= Len(w) /\ n # 0
  BY LenProperties DEF DownInv, WireInv, ClientInv
<1>5. \A s \in Servers : Once(s, c)'
  BY <1>3 DEF LossInv, Transfer, Once
<1>6. CASE c \in Copying
  <2>1. ParsedClient(c)'
    BY <1>6 DEF ParsedClient
  <2> QED
    BY <1>3, <1>5, <1>6, <2>1 DEF LossInv, Transfer
<1>7. CASE c \notin Copying
  <2>1. OnTheWire(c)
    BY <1>3, <1>7 DEF LossInv, Transfer
  <2>2. R \in Seq(Bytes) /\ Len(R) \in Nat /\ Server(c) \in Servers
    BY <1>3, ServerOf, Fetched DEF DownInv
  <2> DEFINE end == p + Len(w)
  <2>3. end <= Len(R) /\ Shows(w, R, p + 1, end, p) /\ end \in Int
    BY <1>4, <2>1 DEF OnTheWire
  <2>4. w # << >>
    BY <1>4
  <2> HIDE DEF w, p
  <2>5. /\ Shows(SubSeq(w, 1, n), R, p + 1, p + n, p)
        /\ Shows(SubSeq(w, n + 1, Len(w)), R, p + n + 1, end, p + n)
        /\ p + n + Len(SubSeq(w, n + 1, Len(w))) = end
    <3> HIDE DEF R
    <3>1. end = p + Len(w)
      OBVIOUS
    <3>2. /\ w \in Seq(Bytes) /\ p \in Nat /\ n \in Nat /\ n <= Len(w) /\ end \in Int
          /\ Shows(w, R, p + 1, end, p)
      BY <1>4, <2>3
    <3> HIDE DEF end
    <3>3. Shows(SubSeq(w, 1, n), R, p + 1, p + n, p)
      BY ONLY <3>1, <3>2, CutShows
    <3>4. Shows(SubSeq(w, n + 1, Len(w)), R, p + n + 1, end, p + n)
      BY ONLY <3>1, <3>2, CutShows
    <3>5. p + n + Len(SubSeq(w, n + 1, Len(w))) = end
      <4> DEFINE k == Len(SubSeq(w, n + 1, Len(w)))
                 m == Len(w)
      <4>1. k = m - n
        BY ONLY <3>1, <3>2, CutShows
      <4>2. m \in Nat /\ end = p + m
        BY <1>4, <3>1
      <4> HIDE DEF k, m
      <4>3. p + n + k = end
        BY <3>2, <4>1, <4>2
      <4> QED
        BY <4>3 DEF k
    <3> QED
      BY <3>3, <3>4, <3>5
  <2>6. OnTheWire(c)'
    <3>1. ASSUME NEW s \in Servers PROVE Queued(s, c)' /\ Served(s, c)'
      <4>1. Queued(s, c) /\ Served(s, c)
        BY <2>1 DEF OnTheWire
      <4>2. Queued(s, c)'
        BY <1>3, <2>4, <4>1 DEF Queued, w
      <4>3. size'[c] + Len(wire'[c]) = p + Len(w)
        BY <1>3, <1>7, <2>5
      <4>4. Served(s, c)'
        BY <1>3, <2>4, <4>1, <4>3 DEF Served, Shows, w, p
      <4> QED
        BY <4>2, <4>4
    <3>2. size'[c] = p + n /\ size'[c] + Len(wire'[c]) = end
      BY <1>3, <1>7, <2>5
    <3>3. R' = R
      BY <1>3
    <3>4. /\ size'[c] + Len(wire'[c]) <= Len(R)
          /\ Shows(wire'[c], R, size'[c] + 1, size'[c] + Len(wire'[c]), size'[c])
      BY <1>3, <2>3, <2>5, <3>2
    <3> QED
      BY <3>1, <3>3, <3>4 DEF OnTheWire, Shows
  <2>7. ParsedClient(c)'
    <3> SUFFICES ASSUME Server(c) \in Fields
                 PROVE  Parsed(r, R, BodyStart[Server(c)], p + n)
      BY <1>3, <1>7 DEF ParsedClient, Parsed, Shows, Kept, CutIn
    <3>1. Parsed(resp[c], R, BodyStart[Server(c)], p)
      BY <1>3, <1>7 DEF LossInv, ParsedClient, p
    <3>2. SubSeq(w, 1, n) \in Seq(Bytes) /\ Len(SubSeq(w, 1, n)) = n
      BY <1>4, Cut
    <3>3. WellFormed(resp[c]) /\ Len(resp[c].body) <= p
      BY DEF DownInv, ClientInv, GoodClient, p
    <3>4. BodyStart[Server(c)] \in Nat /\ Fits(R, BodyStart[Server(c)])
      BY <2>2, Fetched
    <3>5. p + n <= Len(R) /\ p + n \in Nat
      BY <1>4, <2>2, <2>3
    <3> HIDE DEF R
    <3> DEFINE b    == SubSeq(w, 1, n)
               next == p + n
               B    == BodyStart[Server(c)]
    <3>6. /\ b \in Seq(Bytes) /\ next \in Nat /\ next = p + Len(b) /\ next <= Len(R)
          /\ Shows(b, R, p + 1, next, p) /\ r \in After(resp[c], b) /\ B \in Nat /\ Fits(R, B)
          /\ Parsed(resp[c], R, B, p) /\ R \in Seq(Bytes) /\ p \in Nat
      BY <1>2, <1>4, <2>2, <2>5, <3>1, <3>2, <3>4, <3>5
    <3> HIDE DEF b, next, B
    <3>7. Parsed(r, R, B, next)
      BY <3>3, <3>6, AfterParsed
    <3> QED
      BY <3>7 DEF B, next
  <2> QED
    BY <1>3, <1>5, <1>7, <2>6, <2>7 DEF Transfer
<1> QED
  BY <1>6, <1>7

LEMMA ClientLoss ==
  ASSUME DownInv, LossInv, NEW c \in Clients, Fetch(c) \/ Trouble(c)
  PROVE  LossInv'
<1>0. UNCHANGED <<server, sc, left>>
  BY DEF Fetch, Trouble
<1> SUFFICES ParsedClient(c)' /\ Transfer(c)'
  BY OtherClients DEF LossInv
<1>1. ASSUME queue' = queue PROVE /\ Connected(c)' = Connected(c)
                                  /\ \A s \in Servers : Once(s, c)'
  <2>1. \A s \in Servers : Once(s, c)
    BY DEF LossInv, Transfer
  <2> QED
    BY <1>0, <1>1, <2>1 DEF Connected, Once
<1>2. CASE LookupFails(c)
  <2>1. /\ state[c] = "start" /\ state'[c] = "print" /\ queue' = queue /\ url' = url
        /\ resp' = resp /\ size' = size /\ wire' = wire
    BY <1>2 DEF LookupFails, Goes, DownInv, ClientInv
  <2>2. ParsedClient(c)'
    BY <2>1, ParsedFrame DEF LossInv
  <2> QED
    BY <1>1, <2>1, <2>2 DEF LossInv, Transfer
<1>3. CASE Connect(c)
  BY <1>0, <1>3, ConnectLoss
<1>4. CASE ConnectFails(c)
  <2>1. /\ state[c] = "start" /\ state'[c] = "ended" /\ queue' = queue /\ url' = url
        /\ resp' = resp /\ size' = size /\ wire' = wire
    BY <1>4 DEF ConnectFails, Goes, DownInv, ClientInv
  <2>2. ParsedClient(c)'
    BY <2>1, ParsedFrame DEF LossInv
  <2> QED
    BY <1>1, <2>1, <2>2 DEF LossInv, Transfer
<1>5. CASE EndOfStream(c) /\ ~Connected(c)
  <2>1. /\ state'[c] = "print" /\ queue' = queue /\ url' = url /\ resp' = resp /\ size' = size
        /\ wire'[c] = << >>
    BY <1>5 DEF EndOfStream, Goes, DownInv, ClientInv, WireInv
  <2>2. ParsedClient(c)'
    BY <2>1, ParsedFrame DEF LossInv
  <2> QED
    BY <1>1, <1>5, <2>1, <2>2 DEF LossInv, Transfer
<1>6. CASE PrintBody(c)
  <2>1. /\ state[c] = "print" /\ state'[c] = "start" /\ queue' = queue /\ url'[c] = url[c] + 1
        /\ resp'[c] = NewResponse(c) /\ size'[c] = 0 /\ wire' = wire
        /\ NewResponse(c)' = NewResponse(c)
    BY <1>6 DEF PrintBody, Goes, NewResponse, DownInv, ClientInv
  <2>2. ParsedClient(c)'
    <3> DEFINE s == Urls[c][url'[c]]
    <3> SUFFICES ASSUME c \notin Copying, More(c)', s \in Fields
                 PROVE  Parsed(NewResponse(c), Response[s][c], BodyStart[s], 0)
      BY <2>1 DEF ParsedClient, Server, Parsed, Shows, Kept, CutIn
    <3>1. /\ Response[s][c] \in Seq(Bytes) /\ BodyStart[s] \in Nat
          /\ Fits(Response[s][c], BodyStart[s])
      BY DownloadsConstants, FieldsConstants
    <3> HIDE DEF s
    <3> QED
      BY <3>1, NewParsed
  <2> QED
    BY <1>1, <2>1, <2>2 DEF LossInv, Transfer
<1>7. CASE Ends(c)
  <2>1. /\ state[c] = "start" /\ state'[c] = "ended" /\ queue' = queue /\ url' = url
        /\ resp' = resp /\ size' = size /\ wire' = wire
    BY <1>7 DEF Ends, Goes, DownInv, ClientInv
  <2>2. ParsedClient(c)'
    BY <2>1, ParsedFrame DEF LossInv
  <2> QED
    BY <1>1, <2>1, <2>2 DEF LossInv, Transfer
<1>8. CASE Killed(c)
  <2>1. /\ state'[c] = "killed" /\ queue' = queue /\ url' = url /\ resp' = resp /\ size' = size
    BY <1>8 DEF Killed, Goes, DownInv, ClientInv
  <2>2. ParsedClient(c)'
    BY <2>1, ParsedFrame DEF LossInv
  <2> QED
    BY <1>1, <2>1, <2>2 DEF LossInv, Transfer
<1>9. CASE Read(c)
  BY <1>0, <1>9, ReadLoss
<1>10. CASE Overrun(c)
  <2>1. /\ state'[c] = "undefined" /\ queue' = queue /\ url' = url /\ resp' = resp
        /\ size' = size
    BY <1>10 DEF Overrun, Goes, DownInv, ClientInv
  <2>2. ParsedClient(c)'
    BY <2>1, ParsedFrame DEF LossInv
  <2> QED
    BY <1>1, <2>1, <2>2 DEF LossInv, Transfer
<1> QED
  BY <1>2, <1>3, <1>4, <1>5, <1>6, <1>7, <1>8, <1>9, <1>10 DEF Fetch, Trouble

LEMMA AcceptLoss ==
  ASSUME DownInv, LossInv, NEW s \in Servers, Srv!Accept(s), NEW c \in Clients,
         UNCHANGED <<url, state, resp, size>>
  PROVE  Transfer(c)'
<1>1. /\ queue[s] \in Seq(Clients) /\ queue[s] # << >> /\ Len(queue[s]) \in Nat
      /\ server[s] = "accept" /\ server' = [server EXCEPT ![s] = "request"]
      /\ sc' = [sc EXCEPT ![s] = Head(queue[s])] /\ queue' = [queue EXCEPT ![s] = Tail(queue[s])]
      /\ UNCHANGED <<wire, left>> /\ sc[s] \notin Clients
  BY DownloadsConstants, LenProperties DEF Srv!Accept, Srv!Goes, DownInv, WireInv
<1>2. /\ Head(queue[s]) = queue[s][1] /\ Len(Tail(queue[s])) = Len(queue[s]) - 1
      /\ \A i \in 1 .. Len(Tail(queue[s])) : Tail(queue[s])[i] = queue[s][i + 1]
  BY <1>1, HeadTailProperties
<1>3. /\ queue'[s] = Tail(queue[s]) /\ sc'[s] = queue[s][1] /\ server'[s] = "request"
      /\ \A t \in Servers \ {s} : queue'[t] = queue[t] /\ sc'[t] = sc[t] /\ server'[t] = server[t]
  BY <1>1, <1>2 DEF DownInv, WireInv
<1>4. ASSUME NEW i \in 1 .. Len(queue'[s])
      PROVE  i + 1 \in 1 .. Len(queue[s]) /\ queue'[s][i] = queue[s][i + 1] /\ i \in Nat
  <2> DEFINE n == Len(queue[s])
  <2>1. i \in 1 .. Len(Tail(queue[s])) /\ Len(Tail(queue[s])) = n - 1 /\ n \in Nat
    BY <1>1, <1>2, <1>3
  <2>2. queue'[s][i] = queue[s][i + 1]
    BY <1>2, <1>3, <2>1
  <2> HIDE DEF n
  <2>3. i \in 1 .. n - 1
    BY <2>1
  <2>4. i + 1 \in 1 .. n /\ i \in Nat
    BY <2>1, <2>3
  <2> QED
    BY <2>2, <2>4 DEF n
<1>5. Transfer(c) /\ \A t \in Servers : Once(t, c)
  BY DEF LossInv, Transfer
<1>6. ASSUME NEW t \in Servers PROVE /\ Once(t, c)'
                                     /\ Contains(queue[t], c)' => Contains(queue[t], c)
  <2>1. CASE t = s
    <3>1. Once(t, c)'
      <4> SUFFICES ASSUME NEW i \in 1 .. Len(queue'[s]), NEW j \in 1 .. Len(queue'[s]),
                          queue'[s][i] = c, queue'[s][j] = c
                   PROVE  i = j
        BY <2>1 DEF Once
      <4>1. /\ i + 1 \in 1 .. Len(queue[s]) /\ queue[s][i + 1] = c /\ i \in Nat
            /\ j + 1 \in 1 .. Len(queue[s]) /\ queue[s][j + 1] = c /\ j \in Nat
        BY <1>4
      <4>2. i + 1 = j + 1
        BY <1>5, <4>1 DEF Once
      <4> QED
        BY <4>1, <4>2
    <3> QED
      BY <1>4, <2>1, <3>1 DEF Contains
  <2>2. CASE t # s
    BY <1>3, <1>5, <2>2 DEF Once, Contains
  <2> QED
    BY <2>1, <2>2
<1>7. CASE c # queue[s][1]
  <2>1. \A t \in Servers : sc'[t] = c => sc[t] = c /\ server'[t] = server[t] /\ left'[t] = left[t]
    BY <1>1, <1>3, <1>7
  <2>2. SameServers(c)
    BY <1>6, <2>1 DEF SameServers
  <2> QED
    BY <1>1, <1>5, <2>2, TransferFrame
<1>8. CASE c = queue[s][1]
  <2>1. 1 \in 1 .. Len(queue[s]) /\ Contains(queue[s], c)
    <3>1. 1 \in 1 .. Len(queue[s])
      BY <1>1
    <3> QED
      BY <1>8, <3>1 DEF Contains
  <2>2. state[c] \notin {"start", "print", "ended"}
    BY <1>5, <2>1 DEF Transfer, Connected
  <2>3. ASSUME OnTheWire(c) PROVE OnTheWire(c)'
    <3>1. Server(c)' = Server(c)
      BY DEF Server
    <3>2. /\ s = Server(c) /\ wire[c] = << >> /\ size[c] = 0 /\ \A t \in Servers : sc[t] # c
      BY <2>1, <2>3 DEF OnTheWire, Queued
    <3>3. ASSUME NEW t \in Servers PROVE ~Contains(queue[t], c)'
      <4>1. CASE t = s
        <5> SUFFICES ASSUME NEW i \in 1 .. Len(queue'[s]), queue'[s][i] = c PROVE FALSE
          BY <4>1 DEF Contains
        <5>1. i + 1 \in 1 .. Len(queue[s]) /\ queue[s][i + 1] = c /\ i \in Nat /\ i # 0
          BY <1>4
        <5>2. i + 1 = 1
          BY <1>5, <1>8, <2>1, <5>1 DEF Once
        <5> QED
          BY <5>1, <5>2
      <4>2. CASE t # s
        BY <1>6, <2>3, <3>2, <4>2 DEF OnTheWire, Queued
      <4> QED
        BY <4>1, <4>2
    <3>4. ASSUME NEW t \in Servers PROVE Queued(t, c)' /\ Served(t, c)'
      <4>1. Queued(t, c)'
        BY <3>3 DEF Queued
      <4>2. CASE t = s
        <5>1. Served(t, c)'
          BY <1>1, <1>3, <3>1, <3>2, <4>2 DEF Served
        <5> QED
          BY <4>1, <5>1
      <4>3. CASE t # s
        <5>1. Served(t, c)'
          BY <1>3, <3>2, <4>3 DEF Served
        <5> QED
          BY <4>1, <5>1
      <4> QED
        BY <4>2, <4>3
    <3> QED
      BY <1>1, <2>3, <3>1, <3>4 DEF OnTheWire, Shows
  <2> QED
    BY <1>1, <1>5, <1>6, <2>2, <2>3 DEF Transfer
<1> QED
  BY <1>7, <1>8

LEMMA GetRequestLoss ==
  ASSUME DownInv, LossInv, NEW s \in Servers, Srv!GetRequest(s), NEW c \in Clients,
         UNCHANGED <<url, state, resp, size>>
  PROVE  Transfer(c)'
<1>1. /\ server[s] = "request" /\ server' = [server EXCEPT ![s] = "respond"]
      /\ left' = [left EXCEPT ![s] = Response[s][sc[s]]] /\ UNCHANGED <<queue, wire, sc>>
  BY DEF Srv!GetRequest, Srv!Goes
<1>2. /\ left'[s] = Response[s][sc[s]] /\ server'[s] = "respond"
      /\ \A t \in Servers \ {s} : server'[t] = server[t] /\ left'[t] = left[t]
  BY <1>1 DEF DownInv, WireInv
<1>3. Transfer(c)
  BY DEF LossInv
<1>4. CASE sc[s] # c
  <2>1. SameServers(c)
    BY <1>1, <1>2, <1>4 DEF SameServers, Once
  <2> QED
    BY <1>1, <1>3, <2>1, TransferFrame
<1>5. CASE sc[s] = c
  <2>1. state[c] \notin {"start", "print", "ended"}
    BY <1>3, <1>5 DEF Transfer, Connected
  <2>2. ASSUME OnTheWire(c) PROVE OnTheWire(c)'
    <3>1. Server(c)' = Server(c)
      BY DEF Server
    <3>2. s = Server(c) /\ wire[c] = << >> /\ size[c] = 0
      BY <1>1, <1>5, <2>2 DEF OnTheWire, Served
    <3> DEFINE R == Response[Server(c)][c]
    <3>3. R \in Seq(Bytes) /\ Len(R) \in Nat
      BY <3>2, Fetched
    <3>4. Shows(R, R, 1, Len(R), 0)
      <4> SUFFICES ASSUME NEW i \in 1 .. Len(R) PROVE i - 0 \in 1 .. Len(R) /\ R[i - 0] = R[i]
        BY DEF Shows
      <4>1. i - 0 = i
        OBVIOUS
      <4> QED
        BY <4>1
    <3>5. ASSUME NEW t \in Servers PROVE Queued(t, c)' /\ Served(t, c)'
      <4>1. Queued(t, c) /\ Served(t, c)
        BY <2>2 DEF OnTheWire
      <4>2. Queued(t, c)'
        BY <1>1, <3>1, <4>1 DEF Queued
      <4>3. CASE t = s
        <5>1. /\ size[c] + Len(wire[c]) = 0 /\ 0 + Len(R) = Len(R) /\ 0 + 1 = 1
          BY <3>2, <3>3
        <5>2. left'[t] = R /\ sc'[t] = c /\ wire'[c] = << >> /\ size'[c] = 0
              /\ server'[t] = "respond" /\ t = Server(c)' /\ R' = R
          BY <1>1, <1>2, <1>5, <3>1, <3>2, <4>3
        <5>3. size'[c] + Len(wire'[c]) = 0
          BY <5>2
        <5>4. /\ size'[c] + Len(wire'[c]) + Len(left'[t]) = Len(R)
              /\ Shows(left'[t], R, size'[c] + Len(wire'[c]) + 1, Len(R), size'[c] + Len(wire'[c]))
          BY <3>4, <5>1, <5>2, <5>3
        <5>5. Served(t, c)'
          BY <5>2, <5>4 DEF Served, Shows
        <5> QED
          BY <4>2, <5>5
      <4>4. CASE t # s
        <5>1. Served(t, c)'
          BY <1>1, <1>2, <3>1, <4>1, <4>4 DEF Served, Shows
        <5> QED
          BY <4>2, <5>1
      <4> QED
        BY <4>3, <4>4
    <3> QED
      BY <1>1, <2>2, <3>1, <3>5 DEF OnTheWire, Shows
  <2>3. \A t \in Servers : Once(t, c)'
    BY <1>1, <1>3 DEF Transfer, Once
  <2> QED
    BY <1>1, <1>3, <2>1, <2>2, <2>3 DEF Transfer
<1> QED
  BY <1>4, <1>5

LEMMA WriteLoss ==
  ASSUME DownInv, LossInv, NEW s \in Servers, Srv!Write(s), NEW c \in Clients,
         UNCHANGED <<url, state, resp, size>>
  PROVE  Transfer(c)'
<1> DEFINE l == left[s]
           n == IF Len(l) < Buffer THEN Len(l) ELSE Buffer
           u == SubSeq(l, 1, n)
           v == SubSeq(l, n + 1, Len(l))
<1>1. /\ server[s] = "respond"
      /\ wire' = IF Srv!Gone(sc[s]) THEN wire ELSE [wire EXCEPT ![sc[s]] = @ \o u]
      /\ left' = [left EXCEPT ![s] = v] /\ UNCHANGED <<queue, server, sc>>
  BY DEF Srv!Write
<1>2. l \in Seq(Bytes) /\ Len(l) \in Nat /\ sc[s] \in Clients
  BY <1>1, LenProperties DEF DownInv, WireInv
<1>3. n \in Nat /\ n <= Len(l)
  BY <1>2, DownloadsConstants
<1> HIDE DEF n
<1>4. u \in Seq(Bytes) /\ Len(u) = n /\ v \in Seq(Bytes)
  BY <1>2, <1>3, Cut
<1>5. /\ left'[s] = v /\ \A t \in Servers \ {s} : left'[t] = left[t]
      /\ sc[s] # c => wire'[c] = wire[c]
      /\ sc[s] = c => wire'[c] = IF Srv!Gone(c) THEN wire[c] ELSE wire[c] \o u
  BY <1>1 DEF DownInv, WireInv
<1> HIDE DEF l, u, v
<1>6. Transfer(c)
  BY DEF LossInv
<1>7. CASE sc[s] # c
  <2>1. SameServers(c)
    BY <1>1, <1>5, <1>7 DEF SameServers, Once
  <2> QED
    BY <1>5, <1>6, <1>7, <2>1, TransferFrame
<1>8. CASE sc[s] = c
  <2>1. state[c] \notin {"start", "print", "ended"}
    BY <1>6, <1>8 DEF Transfer, Connected
  <2>2. ASSUME OnTheWire(c), state[c] = "reading" PROVE OnTheWire(c)'
    <3> DEFINE R == Response[Server(c)][c]
               w == wire[c]
               p == size[c] + Len(w)
    <3>1. Server(c)' = Server(c) /\ R' = R
      BY DEF Server
    <3>2. s = Server(c) /\ p + Len(l) = Len(R) /\ Shows(l, R, p + 1, Len(R), p)
      BY <1>1, <1>8, <2>2 DEF OnTheWire, Served, l
    <3>3. R \in Seq(Bytes) /\ Len(R) \in Nat
      BY <3>2, Fetched
    <3>4. w \in Seq(Bytes) /\ Len(w) \in Nat /\ size[c] \in Nat
      BY LenProperties DEF DownInv, WireInv, ClientInv
    <3>5. wire'[c] = w \o u /\ Len(w \o u) = Len(w) + n
      BY <1>4, <1>5, <1>8, <2>2, <3>4, ConcatProperties DEF Srv!Gone
    <3>6. p \in Nat /\ Shows(w, R, size[c] + 1, p, size[c])
      BY <2>2, <3>4 DEF OnTheWire
    <3> DEFINE end  == Len(R)
               next == p + n
               m    == Len(l)
    <3>7. m \in Nat /\ end = p + m /\ end \in Int /\ next \in Nat /\ next <= end
      BY <1>2, <1>3, <3>2, <3>3, <3>6
    <3>8. Shows(u, R, p + 1, next, p) /\ Shows(v, R, next + 1, end, next) /\ Len(v) = m - n
      <4>1. /\ l \in Seq(Bytes) /\ p \in Nat /\ n \in Nat /\ n <= Len(l) /\ end \in Int
            /\ end = p + Len(l) /\ Shows(l, R, p + 1, end, p)
        BY <1>2, <1>3, <3>2, <3>6, <3>7
      <4> HIDE DEF end, p, R
      <4>2. /\ Shows(SubSeq(l, 1, n), R, p + 1, p + n, p)
            /\ Shows(SubSeq(l, n + 1, Len(l)), R, p + n + 1, end, p + n)
        BY ONLY <4>1, CutShows
      <4>3. Len(SubSeq(l, n + 1, Len(l))) = Len(l) - n
        BY ONLY <4>1, CutShows
      <4> QED
        BY <4>2, <4>3 DEF u, v
    <3>9. Shows(w \o u, R, size[c] + 1, next, size[c])
      <4> DEFINE d  == size[c]
                 lo == d + 1
      <4>1. /\ d \in Int /\ lo \in Int /\ p = d + Len(w) /\ p \in Int /\ next \in Int
            /\ Shows(w, R, lo, p, d) /\ Shows(u, R, p + 1, next, p)
        BY <3>4, <3>6, <3>7, <3>8
      <4> HIDE DEF d, lo, next, p, w, R
      <4>2. Shows(w \o u, R, lo, next, d)
        BY <1>4, <3>4, <4>1, ShowsConcat
      <4> QED
        BY <4>2 DEF d, lo
    <3>10. size'[c] + Len(wire'[c]) = next
      <4> DEFINE k == Len(wire'[c])
                 h == Len(w)
      <4>1. k = h + n /\ h \in Nat /\ next = size[c] + h + n /\ size'[c] = size[c]
        BY <3>4, <3>5
      <4> HIDE DEF k, h, next
      <4> QED
        BY <1>3, <3>4, <4>1 DEF k
    <3>11. next + Len(v) = end
      <4> DEFINE k == Len(v)
      <4>1. k = m - n
        BY <3>8
      <4>2. p \in Nat /\ m \in Nat /\ n \in Nat /\ end = p + m /\ next = p + n
        BY <1>3, <3>6, <3>7
      <4> HIDE DEF k, m, p, end, next
      <4>3. next + k = end
        BY <4>1, <4>2
      <4> QED
        BY <4>3 DEF k
    <3> HIDE DEF next
    <3>12. ASSUME NEW t \in Servers PROVE Queued(t, c)' /\ Served(t, c)'
      <4>1. Queued(t, c) /\ Served(t, c)
        BY <2>2 DEF OnTheWire
      <4>2. ~Contains(queue[t], c)
        BY <1>8, <4>1 DEF Queued
      <4>3. Queued(t, c)'
        BY <1>1, <4>2 DEF Queued
      <4>4. Served(t, c)'
        <5> SUFFICES ASSUME sc'[t] = c PROVE Served(t, c)'
          BY DEF Served
        <5>1. t = s
          BY <1>1, <3>2, <4>1 DEF Served
        <5>2. /\ t = Server(c)' /\ server'[t] = "respond" /\ left'[t] = v
          BY <1>1, <1>5, <3>1, <3>2, <5>1
        <5>3. /\ size'[c] + Len(wire'[c]) + Len(left'[t]) = Len(R)
              /\ Shows(left'[t], R, size'[c] + Len(wire'[c]) + 1, Len(R), size'[c] + Len(wire'[c]))
          BY <3>8, <3>10, <3>11, <5>2
        <5> QED
          BY <3>1, <5>2, <5>3 DEF Served, Shows
      <4> QED
        BY <4>3, <4>4
    <3>13. /\ size'[c] + Len(wire'[c]) <= Len(R)
           /\ Shows(wire'[c], R, size'[c] + 1, size'[c] + Len(wire'[c]), size'[c])
      BY <3>5, <3>7, <3>9, <3>10
    <3> QED
      BY <3>1, <3>12, <3>13 DEF OnTheWire, Shows
  <2>3. \A t \in Servers : Once(t, c)'
    BY <1>1, <1>6 DEF Transfer, Once
  <2> QED
    BY <1>6, <2>1, <2>2, <2>3 DEF Transfer
<1> QED
  BY <1>7, <1>8

(* The steps of a server.                                                  *)
LEMMA ServerLoss ==
  ASSUME DownInv, LossInv, NEW s \in Servers, Serve(s) \/ Dies(s)
  PROVE  LossInv'
<1>0. UNCHANGED <<url, state, resp, size>> /\ Nobody \notin Clients
  BY DownloadsConstants DEF Serve, Dies
<1> SUFFICES ASSUME NEW c \in Clients PROVE ParsedClient(c)' /\ Transfer(c)'
  BY DEF LossInv
<1>1. ParsedClient(c)'
  BY <1>0, ParsedFrame DEF LossInv
<1>2. ASSUME NEW t \in Servers, queue'[t] = << >> PROVE ~Contains(queue[t], c)' /\ Once(t, c)'
  BY <1>2 DEF Contains, Once
<1>3. ASSUME NEW t \in Servers, queue'[t] = queue[t]
      PROVE  /\ Contains(queue[t], c)' => Contains(queue[t], c)
             /\ Once(t, c) => Once(t, c)'
  BY <1>3 DEF Contains, Once
<1>4. ASSUME wire' = wire,
             \A t \in Servers :
               /\ queue'[t] = << >> \/ queue'[t] = queue[t]
               /\ sc'[t] = c => sc[t] = c /\ server'[t] = server[t] /\ left'[t] = left[t]
      PROVE  Transfer(c)'
  <2>1. SameServers(c)
    BY <1>4, <1>2, <1>3 DEF SameServers
  <2> QED
    BY <1>0, <1>1, <1>4, <2>1, TransferFrame DEF LossInv
<1>5. CASE Srv!AcceptFails(s)
  <2>1. /\ \A t \in Servers : queue'[t] = << >> \/ queue'[t] = queue[t]
        /\ server[s] = "accept" /\ sc' = sc /\ left' = left /\ wire' = wire
        /\ \A t \in Servers \ {s} : server'[t] = server[t]
    BY <1>5 DEF Srv!AcceptFails, Srv!Goes, DownInv, WireInv
  <2>2. sc[s] # c
    BY <1>0, <2>1 DEF DownInv, WireInv
  <2> QED
    BY <1>1, <1>4, <2>1, <2>2
<1>6. CASE Srv!WriteFails(s)
  <2>1. /\ \A t \in Servers : queue'[t] = << >> \/ queue'[t] = queue[t]
        /\ sc'[s] = Nobody /\ wire' = wire
        /\ \A t \in Servers \ {s} :
             server'[t] = server[t] /\ sc'[t] = sc[t] /\ left'[t] = left[t]
    BY <1>6 DEF Srv!WriteFails, Srv!Goes, DownInv, WireInv
  <2> QED
    BY <1>0, <1>1, <1>4, <2>1
<1>7. CASE Srv!Close(s)
  <2>1. /\ queue' = queue /\ sc'[s] = Nobody /\ wire' = wire
        /\ \A t \in Servers \ {s} :
             server'[t] = server[t] /\ sc'[t] = sc[t] /\ left'[t] = left[t]
    BY <1>7 DEF Srv!Close, Srv!Goes, DownInv, WireInv
  <2> QED
    BY <1>0, <1>1, <1>4, <2>1
<1>8. CASE Srv!FdopenFails(s)
  <2>1. /\ \A t \in Servers : queue'[t] = << >> \/ queue'[t] = queue[t]
        /\ sc'[s] = Nobody /\ wire' = wire
        /\ \A t \in Servers \ {s} :
             server'[t] = server[t] /\ sc'[t] = sc[t] /\ left'[t] = left[t]
    BY <1>8 DEF Srv!FdopenFails, Srv!Goes, DownInv, WireInv
  <2> QED
    BY <1>0, <1>1, <1>4, <2>1
<1> QED
  BY <1>0, <1>1, <1>5, <1>6, <1>7, <1>8, AcceptLoss, GetRequestLoss, WriteLoss DEF Serve, Dies

LEMMA LossStep == DownInv /\ LossInv /\ [DownNext]_vars => LossInv'
<1> SUFFICES ASSUME DownInv, LossInv, [DownNext]_vars PROVE LossInv'
  OBVIOUS
<1>1. CASE UNCHANGED vars
  <2> SUFFICES ASSUME NEW c \in Clients PROVE ParsedClient(c)' /\ Transfer(c)'
    BY DEF LossInv
  <2>1. UNCHANGED <<url, state, resp, size, wire, queue, server, sc, left>>
    BY <1>1 DEF vars
  <2>2. SameServers(c)
    BY <2>1 DEF SameServers, Contains, Once
  <2> QED
    BY <2>1, <2>2, ParsedFrame, TransferFrame DEF LossInv
<1>2. CASE DownNext
  BY <1>2, ClientLoss, ServerLoss DEF DownNext
<1> QED
  BY <1>1, <1>2

(* What was kept of the body is a subsequence of what is printed.          *)
LEMMA KeptBody ==
  ASSUME NEW R \in Seq(Bytes), NEW B \in Nat \ {0}, NEW t, Kept(R, B, Len(R), t)
  PROVE  Subsequence(SubSeq(R, B, Len(R)), t)
<1> DEFINE end == Len(R)
           s   == SubSeq(R, B, end)
<1>1. end \in Nat /\ end \in Int /\ B \in Int /\ \A i \in B .. end : R[i] \in Bytes
  <2>1. end \in Nat
    BY LenProperties
  <2> QED
    BY <2>1
<1>2. PICK f \in [B .. end -> 1 .. Len(t)] :
        /\ \A i \in B .. end : t[f[i]] = R[i]
        /\ \A i, j \in B .. end : i < j => f[i] < f[j]
  BY DEF Kept
<1> HIDE DEF end
<1>3. /\ Len(s) = IF B <= end THEN end - B + 1 ELSE 0
      /\ \A i \in 1 .. end - B + 1 : s[i] = R[B + i - 1]
  BY <1>1, SubSeqProperties
<1> HIDE DEF s
<1>4. ASSUME NEW i \in 1 .. Len(s) PROVE s[i] = R[B + i - 1] /\ B + i - 1 \in B .. end
  <2> DEFINE n == Len(s)
  <2>1. n = IF B <= end THEN end - B + 1 ELSE 0
    BY <1>3
  <2>2. i \in 1 .. n
    OBVIOUS
  <2> HIDE DEF n
  <2>3. i \in 1 .. end - B + 1 /\ B + i - 1 \in B .. end
    BY <1>1, <2>1, <2>2
  <2> QED
    BY <1>3, <2>3
<1> DEFINE g == [i \in 1 .. Len(s) |-> f[B + i - 1]]
<1>5. g \in [1 .. Len(s) -> 1 .. Len(t)]
  BY <1>2, <1>4
<1>6. \A i \in 1 .. Len(s) : t[g[i]] = s[i]
  BY <1>2, <1>4
<1>7. ASSUME NEW i \in 1 .. Len(s), NEW j \in 1 .. Len(s), i < j PROVE g[i] < g[j]
  <2>1. B + i - 1 < B + j - 1
    BY <1>7
  <2> QED
    BY <1>2, <1>4, <2>1
<1> HIDE DEF g
<1> QED
  BY <1>5, <1>6, <1>7 DEF Subsequence, s, end

(* However a response with header fields is cut into packets, whatever the *)
(* uninitialized memory behind a line or a head holds, all of its body is  *)
(* printed, in order; unless a packet ended within the end of the status   *)
(* line, or one overran the array for that line (wwgetc2.c:250-304).       *)
THEOREM BodiesAreWhole == DownSpec => []NothingLost
<1>1. DownInv /\ LossInv => NothingLost
  <2> SUFFICES ASSUME DownInv, LossInv, NEW c \in Clients, Whole(c), Server(c) \in Fields,
                      ~LineWasCut(c)
               PROVE  Subsequence(TheBody(c), resp[c].body)
    BY DEF NothingLost
  <2> DEFINE s == Server(c)
             R == Response[s][c]
             B == BodyStart[s]
  <2>1. More(c) /\ size[c] = Len(R) /\ s \in Servers
    BY DownloadsConstants DEF Whole
  <2>2. R \in Seq(Bytes) /\ Len(R) \in Nat /\ B \in Nat \ {0} /\ Fits(R, B)
    BY <2>1, Fetched, DownloadsConstants
  <2>3. B - 4 \in 1 .. Len(R) /\ B - 4 + 4 <= Len(R) + 1
    BY <2>2, PatternLengths DEF Fits, At
  <2>4. c \notin Copying
    <3>1. Len(R) # 0
      BY <2>2, <2>3
    <3> QED
      BY <2>1, <3>1 DEF LossInv, Transfer
  <2>5. Parsed(resp[c], R, B, Len(R))
    BY <2>1, <2>4 DEF LossInv, ParsedClient
  <2>6. ~CutIn(resp[c])
    BY DEF CutIn, LineWasCut
  <2>7. ~(Len(R) < B - 1)
    BY <2>2, <2>3
  <2>8. resp[c].mode = "body"
    <3>1. resp[c].mode \in {"line", "head", "body", "copy"}
      BY DEF DownInv, ClientInv, GoodClient, WellFormed
    <3> QED
      BY <2>5, <2>6, <2>7, <3>1 DEF Parsed
  <2>9. Kept(R, B, Len(R), resp[c].body)
    BY <2>5, <2>6, <2>8 DEF Parsed
  <2> HIDE DEF R, B
  <2>10. Subsequence(SubSeq(R, B, Len(R)), resp[c].body)
    BY <2>2, <2>9, KeptBody
  <2> QED
    BY <2>10 DEF TheBody, R, B
<1>2. DownSpec => [](DownInv /\ LossInv)
  BY DownStart, DownStep, LossStart, LossStep, PTL DEF DownSpec
<1> QED
  BY <1>1, <1>2, PTL
=============================================================================
