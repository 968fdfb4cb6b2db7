-------------------------- MODULE ProxyCacheProofs --------------------------
(***************************************************************************)
(* Proofs about the disk cache, for any number of sessions, URLs, versions *)
(* and restarts, under the faults SafeFaults allows.  One lemma per action *)
(* shows that it preserves CacheInv.                                       *)
(***************************************************************************)
EXTENDS ProxyCache, TLAPS

USE CacheConstants, CacheMarkers

(* The response an action works on is a Response, with a size.             *)
LEMMA ResponseFacts ==
  ASSUME NEW r \in Response
  PROVE  /\ r.url \in Urls /\ r.ver \in Versions /\ r.decl \in BOOLEAN
         /\ Size[r.ver] \in Nat
         /\ r # Idle /\ r # NoFile /\ r # EmptyFile
BY DEF Response

LEMMA InitInv == Init => CacheInv
BY DEF Init, CacheInv, TypeOK, NamesInv, SessionInv, PhaseInv, AliasInv, EntryInv,
       Readable, Named, Steps

(* READING, header complete: the temporary file is new, or was left by an  *)
(* earlier process; in both cases no reader is given it.                   *)
LEMMA ReceiveHeaderInv ==
  ASSUME CacheInv, SafeFaults, NEW n \in Nums, NEW r \in Response, ReceiveHeader(n, r)
  PROVE  CacheInv'
<1> USE DEF CacheInv
<1>1. PICK k \in 0 .. Size[r.ver] :
        /\ rcvd' = [rcvd EXCEPT ![n] = k]
        /\ \/ OpenTmp(n, r, k) /\ handle' = [handle EXCEPT ![n] = TRUE]
           \/ MayFail("opentmp") /\ UNCHANGED <<tmp, data, handle>>
  BY DEF ReceiveHeader, SafeFaults, MayFail
<1>2. k \in Nat /\ k <= Size[r.ver] /\ r.url \in Urls /\ r.ver \in Versions
  BY <1>1, ResponseFacts
<1>3. /\ pc = "loop" /\ fetch[n] = Idle /\ cur = Idle
      /\ fetch' = [fetch EXCEPT ![n] = r]
      /\ UNCHANGED <<body, head, cur, pc, restarts>>
  BY DEF ReceiveHeader, PhaseInv
<1>4. CASE OpenTmp(n, r, k) /\ handle' = [handle EXCEPT ![n] = TRUE]
  <2>1. PICK i \in Inodes :
          /\ tmp[n] = NoFile => data[i] = NoFile
          /\ tmp[n] # NoFile => i = tmp[n]
          /\ tmp' = [tmp EXCEPT ![n] = i]
          /\ data' = [data EXCEPT ![i] = [url |-> r.url, ver |-> r.ver, len |-> k]]
    BY <1>4 DEF OpenTmp, TypeOK
  <2>2. [url |-> r.url, ver |-> r.ver, len |-> k] \in Content
    BY <1>2 DEF Content
  <2>3. [url |-> r.url, ver |-> r.ver, len |-> k] # NoFile
    BY <2>2
  <2>4. TypeOK'
    BY <1>1, <1>2, <1>3, <1>4, <2>1, <2>2 DEF TypeOK
  <2>5. \A m \in Nums : m # n => tmp[m] # i
    BY <2>1 DEF NamesInv, Named, TypeOK
  <2>6. \A u \in Urls : Readable(u) => body[u] # i
    BY <1>3, <2>1 DEF NamesInv, Named, AliasInv, Readable, TypeOK
  <2>7. NamesInv'
    <3>1. \A j, m \in Nums : tmp'[j] = tmp'[m] /\ tmp'[j] # NoFile => j = m
      BY <2>1, <2>5 DEF NamesInv, TypeOK
    <3>2. \A j \in Inodes : j \in Named(tmp', body) <=> j = i \/ j \in Named(tmp, body)
      BY <2>1 DEF Named, TypeOK
    <3>3. ASSUME NEW j \in Inodes
          PROVE  data'[j] # NoFile <=> j \in Named(tmp', body)
      BY <2>1, <2>3, <3>2 DEF NamesInv, TypeOK
    <3> QED
      BY <1>3, <3>1, <3>3 DEF NamesInv, Named
  <2>8. SessionInv'
    BY <1>1, <1>2, <1>3, <1>4, <2>1, <2>5 DEF SessionInv, TypeOK
  <2>9. PhaseInv'
    BY <1>3 DEF PhaseInv
  <2>10. AliasInv'
    BY <1>3, <2>1, <2>6 DEF AliasInv, Readable, TypeOK
  <2>11. EntryInv'
    BY <1>3, <2>1, <2>6 DEF EntryInv, Readable, TypeOK
  <2> QED
    BY <2>4, <2>7, <2>8, <2>9, <2>10, <2>11
<1>5. CASE MayFail("opentmp") /\ UNCHANGED <<tmp, data, handle>>
  <2>1. tmp[n] = NoFile
    BY <1>3, <1>5 DEF SafeFaults, MayFail, SessionInv, PhaseInv
  <2>2. TypeOK'
    BY <1>1, <1>2, <1>3, <1>5 DEF TypeOK
  <2>3. NamesInv' /\ AliasInv' /\ EntryInv'
    BY <1>3, <1>5 DEF NamesInv, Named, AliasInv, EntryInv, Readable
  <2>4. SessionInv'
    BY <1>1, <1>2, <1>3, <1>5, <2>1 DEF SessionInv, TypeOK
  <2>5. PhaseInv'
    BY <1>3 DEF PhaseInv
  <2> QED
    BY <2>2, <2>3, <2>4, <2>5
<1> QED
  BY <1>1, <1>4, <1>5

(* READING: the units that arrive go to a file no reader is given.         *)
LEMMA ReceiveBodyInv ==
  ASSUME CacheInv, SafeFaults, NEW n \in Nums, ReceiveBody(n)
  PROVE  CacheInv'
<1> USE DEF CacheInv
<1>1. PICK k \in 1 .. Size[fetch[n].ver] - rcvd[n] :
        /\ rcvd' = [rcvd EXCEPT ![n] = @ + k]
        /\ data' = IF handle[n] THEN [data EXCEPT ![tmp[n]].len = @ + k] ELSE data
  BY DEF ReceiveBody, SafeFaults, MayFail
<1>2. /\ pc = "loop" /\ cur = Idle /\ fetch[n] # Idle
      /\ UNCHANGED <<tmp, body, head, fetch, handle, cur, pc, restarts>>
  BY DEF ReceiveBody, PhaseInv
<1>3. /\ fetch[n] \in Response /\ Size[fetch[n].ver] \in Nat /\ rcvd[n] \in Nat
      /\ k \in Nat /\ rcvd[n] + k \in Nat /\ rcvd[n] + k <= Size[fetch[n].ver]
  BY <1>1, <1>2, ResponseFacts DEF TypeOK
<1>4. CASE handle[n]
  <2> DEFINE c == [url |-> fetch[n].url, ver |-> fetch[n].ver, len |-> rcvd[n] + k]
  <2>1. tmp[n] \in Inodes /\ data[tmp[n]] =
          [url |-> fetch[n].url, ver |-> fetch[n].ver, len |-> rcvd[n]]
    BY <1>2, <1>4 DEF SessionInv, TypeOK
  <2>2. data' = [data EXCEPT ![tmp[n]] = c]
    <3>1. data' = [data EXCEPT ![tmp[n]].len = @ + k]
      BY <1>1, <1>4
    <3>2. [data[tmp[n]] EXCEPT !.len = @ + k] = c
      BY <2>1
    <3> QED
      BY <3>1, <3>2
  <2>3. c \in Content /\ c # NoFile
    BY <1>3 DEF Response, Content
  <2>4. \A m \in Nums : m # n => tmp[m] # tmp[n]
    BY <2>1 DEF NamesInv
  <2>5. \A u \in Urls : Readable(u) => body[u] # tmp[n]
    BY <1>2 DEF AliasInv
  <2> HIDE DEF c
  <2>6. TypeOK'
    <3>1. data' \in [Inodes -> Content \cup {NoFile}]
      BY <2>2, <2>3 DEF TypeOK
    <3>2. rcvd' \in [Nums -> Nat]
      BY <1>1, <1>3 DEF TypeOK
    <3> QED
      BY <1>2, <3>1, <3>2 DEF TypeOK
  <2>7. NamesInv'
    BY <1>2, <2>1, <2>2, <2>3 DEF NamesInv, Named, TypeOK
  <2>8. SessionInv'
    BY <1>1, <1>2, <1>3, <2>1, <2>2, <2>4 DEF SessionInv, TypeOK, c
  <2>9. PhaseInv' /\ AliasInv'
    BY <1>2 DEF PhaseInv, AliasInv, Readable
  <2>10. EntryInv'
    BY <1>2, <2>2, <2>5 DEF EntryInv, Readable, TypeOK
  <2> QED
    BY <2>6, <2>7, <2>8, <2>9, <2>10
<1>5. CASE ~handle[n]
  <2>1. tmp[n] = NoFile
    BY <1>2, <1>5 DEF SessionInv, TypeOK
  <2>2. TypeOK'
    BY <1>1, <1>2, <1>3, <1>5 DEF TypeOK
  <2>3. NamesInv' /\ AliasInv' /\ EntryInv' /\ PhaseInv'
    BY <1>1, <1>2, <1>5 DEF NamesInv, Named, AliasInv, EntryInv, PhaseInv, Readable
  <2>4. SessionInv'
    BY <1>1, <1>2, <1>3, <1>5, <2>1 DEF SessionInv, TypeOK
  <2> QED
    BY <2>2, <2>3, <2>4
<1> QED
  BY <1>4, <1>5

(* Entering write_cache.                                                   *)
LEMMA BeginWriteCacheInv ==
  ASSUME CacheInv, NEW n \in Nums, BeginWriteCache(n)
  PROVE  CacheInv'
<1> USE DEF CacheInv, BeginWriteCache
<1>1. TypeOK'
  BY DEF TypeOK, Steps
<1>2. NamesInv' /\ AliasInv' /\ EntryInv'
  BY DEF NamesInv, Named, AliasInv, EntryInv, Readable
<1>3. SessionInv'
  BY DEF SessionInv, PhaseInv, TypeOK
<1>4. PhaseInv'
  BY DEF PhaseInv, TypeOK, Stored, WrongSize
<1> QED
  BY <1>1, <1>2, <1>3, <1>4

(* Inside write_cache there is a session with a response.                  *)
LEMMA InWriteCache ==
  ASSUME CacheInv, pc # "loop"
  PROVE  /\ cur \in Nums /\ cur # Idle
         /\ Stored \in Response /\ Stored # Idle
         /\ Stored.url \in Urls /\ Size[Stored.ver] \in Nat
         /\ handle[cur] = FALSE
<1>1. cur \in Nums /\ Stored \in Response /\ handle[cur] = FALSE
  BY DEF CacheInv, TypeOK, PhaseInv, Stored
<1> QED
  BY <1>1, ResponseFacts

(* The old body loses its name; it was not readable under another one.     *)
LEMMA UnlinkBodyInv ==
  ASSUME CacheInv, SafeFaults, UnlinkBody
  PROVE  CacheInv'
<1> DEFINE w == Stored.url
<1> USE DEF CacheInv
<1>1. /\ pc = "rmbody" /\ pc' = "rmhead"
      /\ body' = [body EXCEPT ![w] = NoFile]
      /\ data' = Remaining(tmp, body')
      /\ UNCHANGED <<tmp, head, fetch, handle, rcvd, cur, restarts>>
  BY DEF UnlinkBody, SafeFaults, MayFail
<1>2. w \in Urls /\ cur \in Nums
  BY <1>1, InWriteCache
<1>3. \A i \in Inodes : i \in Named(tmp, body') => data'[i] = data[i] /\ i \in Named(tmp, body)
  BY <1>1, <1>2 DEF Remaining, Named, TypeOK
<1>4. \A i \in Inodes : i \notin Named(tmp, body') => data'[i] = NoFile
  BY <1>1 DEF Remaining
<1>5. /\ \A n \in Nums : tmp[n] # NoFile => data'[tmp[n]] = data[tmp[n]]
      /\ \A u \in Urls : body'[u] # NoFile => data'[body'[u]] = data[body'[u]]
  BY <1>1, <1>3 DEF Named, TypeOK
<1>6. \A u \in Urls : Readable(u)' => Readable(u) /\ body'[u] = body[u]
  BY <1>1, <1>2 DEF Readable, TypeOK
<1>7. TypeOK'
  BY <1>1 DEF TypeOK, Remaining, Steps
<1>8. NamesInv'
  BY <1>1, <1>3, <1>4 DEF NamesInv
<1>9. SessionInv'
  BY <1>1, <1>5 DEF SessionInv
<1>10. PhaseInv'
  BY <1>1, <1>2 DEF PhaseInv, Stored, WrongSize, TypeOK
<1>11. AliasInv'
  BY <1>1, <1>6 DEF AliasInv
<1>12. EntryInv'
  <2>1. ASSUME NEW u \in Urls, Readable(u)'
        PROVE  Readable(u) /\ head'[u] = head[u] /\ data'[body'[u]] = data[body[u]]
    BY <1>1, <1>5, <1>6, <2>1 DEF Readable
  <2> QED
    BY <2>1 DEF EntryInv
<1> QED
  BY <1>7, <1>8, <1>9, <1>10, <1>11, <1>12

LEMMA UnlinkHeadInv ==
  ASSUME CacheInv, SafeFaults, UnlinkHead
  PROVE  CacheInv'
<1> DEFINE w == Stored.url
<1> USE DEF CacheInv
<1>1. /\ pc = "rmhead" /\ pc' = "link"
      /\ head' = [head EXCEPT ![w] = NoFile]
      /\ UNCHANGED <<tmp, body, data, fetch, handle, rcvd, cur, restarts>>
  BY DEF UnlinkHead, SafeFaults, MayFail
<1>2. w \in Urls /\ cur \in Nums
  BY <1>1, InWriteCache
<1>3. \A u \in Urls : Readable(u)' => Readable(u) /\ head'[u] = head[u]
  BY <1>1, <1>2 DEF Readable, TypeOK
<1>4. TypeOK'
  BY <1>1 DEF TypeOK, Steps
<1>5. NamesInv' /\ SessionInv'
  BY <1>1 DEF NamesInv, Named, SessionInv
<1>6. PhaseInv'
  BY <1>1, <1>2 DEF PhaseInv, Stored, WrongSize, TypeOK
<1>7. AliasInv'
  BY <1>1, <1>3 DEF AliasInv
<1>8. EntryInv'
  BY <1>1, <1>3 DEF EntryInv, Readable
<1> QED
  BY <1>4, <1>5, <1>6, <1>7, <1>8

(* The temporary file gets its permanent name; there is no header yet.     *)
LEMMA LinkBodyInv ==
  ASSUME CacheInv, LinkBody
  PROVE  CacheInv'
<1> DEFINE w == Stored.url
<1> USE DEF CacheInv
<1>1. /\ pc = "link" /\ pc' = "openhead"
      /\ body' = [body EXCEPT ![w] = tmp[cur]] \/ body' = body
      /\ UNCHANGED <<tmp, head, data, fetch, handle, rcvd, cur, restarts>>
  BY DEF LinkBody
<1>2. w \in Urls /\ cur \in Nums
  BY <1>1, InWriteCache
<1>3. head[w] = NoFile /\ body[w] = NoFile
  BY <1>1 DEF PhaseInv
<1>4. \A u \in Urls : Readable(u)' => Readable(u) /\ body'[u] = body[u]
  BY <1>1, <1>2, <1>3 DEF Readable, TypeOK
<1>5. \A i \in Inodes : i \in Named(tmp, body') <=> i \in Named(tmp, body)
  BY <1>1, <1>2, <1>3 DEF Named, TypeOK
<1>6. TypeOK'
  BY <1>1, <1>2 DEF TypeOK, Steps
<1>7. NamesInv'
  BY <1>1, <1>5 DEF NamesInv
<1>8. SessionInv'
  BY <1>1 DEF SessionInv
<1>9. PhaseInv'
  BY <1>1, <1>2, <1>3 DEF PhaseInv, Stored, WrongSize, TypeOK
<1>10. AliasInv'
  BY <1>1, <1>4 DEF AliasInv
<1>11. EntryInv'
  BY <1>1, <1>4 DEF EntryInv, Readable
<1> QED
  BY <1>6, <1>7, <1>8, <1>9, <1>10, <1>11

LEMMA OpenHeadInv ==
  ASSUME CacheInv, OpenHead
  PROVE  CacheInv'
<1> DEFINE w == Stored.url
<1> USE DEF CacheInv
<1>1. /\ pc = "openhead"
      /\ \/ pc' = "writehead" /\ head' = [head EXCEPT ![w] = EmptyFile]
         \/ pc' = "saved" /\ head' = head
      /\ UNCHANGED <<tmp, body, data, fetch, handle, rcvd, cur, restarts>>
  BY DEF OpenHead
<1>2. w \in Urls /\ cur \in Nums
  BY <1>1, InWriteCache
<1>3. \A u \in Urls : Readable(u)' => Readable(u) /\ head'[u] = head[u]
  BY <1>1, <1>2 DEF Readable, TypeOK
<1>4. TypeOK'
  BY <1>1 DEF TypeOK, Steps
<1>5. NamesInv' /\ SessionInv'
  BY <1>1 DEF NamesInv, Named, SessionInv
<1>6. PhaseInv'
  BY <1>1, <1>2 DEF PhaseInv, Stored, WrongSize, TypeOK
<1>7. AliasInv'
  BY <1>1, <1>3 DEF AliasInv
<1>8. EntryInv'
  BY <1>1, <1>3 DEF EntryInv, Readable
<1> QED
  BY <1>4, <1>5, <1>6, <1>7, <1>8

(* The header is written: the entry becomes readable, and it is whole.     *)
LEMMA WriteHeadInv ==
  ASSUME CacheInv, WriteHead
  PROVE  CacheInv'
<1> USE DEF CacheInv
<1>0. PICK w \in Urls : w = Stored.url
  BY InWriteCache DEF WriteHead
<1>10. CASE UNCHANGED head
  <2>1. /\ pc = "writehead" /\ pc' = "saved"
        /\ UNCHANGED <<tmp, body, head, data, fetch, handle, rcvd, cur, restarts>>
    BY <1>10 DEF WriteHead
  <2> QED
    BY <2>1 DEF TypeOK, Steps, NamesInv, Named, SessionInv, PhaseInv, Stored, WrongSize, AliasInv,
       EntryInv, Readable
<1>11. SUFFICES ASSUME head' = [head EXCEPT ![w] = Stored]
                PROVE  CacheInv'
  BY <1>0, <1>10 DEF WriteHead
<1>1. /\ pc = "writehead" /\ pc' = "saved"
      /\ head' = [head EXCEPT ![w] = Stored]
      /\ UNCHANGED <<tmp, body, data, fetch, handle, rcvd, cur, restarts>>
  BY <1>0, <1>11 DEF WriteHead
<1>2. /\ cur \in Nums /\ Stored \in Response /\ fetch[cur] = Stored
      /\ fetch[cur] # Idle
  BY <1>0, <1>1, InWriteCache DEF Stored
<1>3. body[w] \in {NoFile, tmp[cur]} /\ ~WrongSize(cur)
  BY <1>0, <1>1 DEF PhaseInv
<1>4. \A u \in Urls : u # w /\ Readable(u)' => Readable(u) /\ head'[u] = head[u]
  BY <1>1, <1>2 DEF Readable, TypeOK
<1>5. TypeOK'
  BY <1>1, <1>2 DEF TypeOK, Steps
<1>6. NamesInv' /\ SessionInv'
  BY <1>1 DEF NamesInv, Named, SessionInv
<1>7. PhaseInv'
  BY <1>0, <1>1, <1>2 DEF PhaseInv, Stored, WrongSize, TypeOK
<1>8. AliasInv'
  <2>1. ASSUME NEW n \in Nums, Readable(w)', tmp[n] = body[w]
        PROVE  n = cur
    BY <1>1, <1>2, <1>3, <2>1 DEF NamesInv, Readable
  <2> QED
    BY <1>1, <1>4, <2>1 DEF AliasInv
<1>9. EntryInv'
  <2>1. ASSUME Readable(w)'
        PROVE  /\ Stored.url = w
               /\ data[body[w]].url = w /\ data[body[w]].ver = Stored.ver
               /\ data[body[w]].len <= Size[Stored.ver]
               /\ Stored.decl => data[body[w]].len = Size[Stored.ver]
    <3>1. body[w] = tmp[cur] /\ tmp[cur] # NoFile
      BY <1>1, <1>3, <2>1 DEF Readable
    <3>2. /\ data[tmp[cur]] = [url |-> Stored.url, ver |-> Stored.ver, len |-> rcvd[cur]]
          /\ rcvd[cur] <= Size[Stored.ver]
      BY <1>2, <3>1 DEF SessionInv
    <3>3. Size[Stored.ver] \in Nat /\ rcvd[cur] \in Nat
      BY <1>2, ResponseFacts DEF TypeOK
    <3>4. Stored.decl => rcvd[cur] = Size[Stored.ver]
      BY <1>2, <1>3, <3>2, <3>3 DEF WrongSize
    <3> QED
      BY <1>0, <3>1, <3>2, <3>4
  <2> QED
    BY <1>1, <1>2, <1>4, <2>1 DEF EntryInv, TypeOK
<1> QED
  BY <1>5, <1>6, <1>7, <1>8, <1>9

(* The temporary name goes; the body keeps its own.                        *)
LEMMA UnlinkTmpInv ==
  ASSUME CacheInv, SafeFaults, UnlinkTmp
  PROVE  CacheInv'
<1> USE DEF CacheInv
<1>1. /\ pc \in {"saved", "skipped"} /\ pc' = "loop" /\ cur' = Idle
      /\ tmp' = [tmp EXCEPT ![cur] = NoFile]
      /\ data' = Remaining(tmp', body)
      /\ fetch' = [fetch EXCEPT ![cur] = Idle]
      /\ rcvd' = [rcvd EXCEPT ![cur] = 0]
      /\ UNCHANGED <<body, head, handle, restarts>>
  BY DEF UnlinkTmp, EndResponse, SafeFaults, MayFail
<1>2. cur \in Nums /\ handle[cur] = FALSE
  BY <1>1, InWriteCache
<1>3. \A i \in Inodes : i \in Named(tmp', body) => data'[i] = data[i] /\ i \in Named(tmp, body)
  BY <1>1, <1>2 DEF Remaining, Named, TypeOK
<1>4. \A i \in Inodes : i \notin Named(tmp', body) => data'[i] = NoFile
  BY <1>1 DEF Remaining
<1>5. /\ \A n \in Nums : tmp'[n] # NoFile => data'[tmp'[n]] = data[tmp'[n]]
      /\ \A u \in Urls : body[u] # NoFile => data'[body[u]] = data[body[u]]
  BY <1>1, <1>2, <1>3 DEF Named, TypeOK
<1>6. \A n \in Nums : /\ n # cur => tmp'[n] = tmp[n] /\ fetch'[n] = fetch[n] /\ rcvd'[n] = rcvd[n]
                      /\ n = cur => tmp'[n] = NoFile /\ fetch'[n] = Idle
  BY <1>1, <1>2 DEF TypeOK
<1>7. TypeOK'
  BY <1>1 DEF TypeOK, Remaining
<1>8. NamesInv'
  <2>1. \A n, m \in Nums : tmp'[n] = tmp'[m] /\ tmp'[n] # NoFile => n = m
    BY <1>6 DEF NamesInv
  <2>2. \A i \in Inodes : data'[i] # NoFile <=> i \in Named(tmp', body)
    BY <1>3, <1>4 DEF NamesInv
  <2> QED
    BY <1>1, <2>1, <2>2 DEF NamesInv, Named
<1>9. SessionInv'
  <2>1. ASSUME NEW n \in Nums, n # cur
        PROVE  /\ tmp'[n] = tmp[n] /\ fetch'[n] = fetch[n] /\ rcvd'[n] = rcvd[n]
               /\ handle'[n] <=> handle[n]
               /\ tmp[n] # NoFile => data'[tmp[n]] = data[tmp[n]]
    BY <1>1, <1>5, <1>6, <2>1
  <2>2. tmp'[cur] = NoFile /\ fetch'[cur] = Idle /\ ~handle'[cur]
    BY <1>1, <1>2, <1>6
  <2>3. ASSUME NEW n \in Nums
        PROVE  /\ handle'[n] => fetch'[n] # Idle /\ tmp'[n] # NoFile
               /\ fetch'[n] # Idle =>
                    /\ rcvd'[n] <= Size[fetch'[n].ver]
                    /\ tmp'[n] # NoFile =>
                         data'[tmp'[n]] = [url |-> fetch'[n].url, ver |-> fetch'[n].ver,
                                           len |-> rcvd'[n]]
                    /\ handle'[n] \/ tmp'[n] = NoFile \/ cur' = n
               /\ fetch'[n] = Idle /\ tmp'[n] # NoFile => restarts' > 0
    <3>1. CASE n = cur
      BY <2>2, <3>1
    <3>2. CASE n # cur
      <4>1. /\ handle[n] => fetch[n] # Idle /\ tmp[n] # NoFile
            /\ fetch[n] # Idle =>
                 /\ rcvd[n] <= Size[fetch[n].ver]
                 /\ tmp[n] # NoFile =>
                      data[tmp[n]] = [url |-> fetch[n].url, ver |-> fetch[n].ver, len |-> rcvd[n]]
                 /\ handle[n] \/ tmp[n] = NoFile
            /\ fetch[n] = Idle /\ tmp[n] # NoFile => restarts > 0
        BY <3>2 DEF SessionInv
      <4> QED
        BY <1>1, <2>1, <3>2, <4>1
    <3> QED
      BY <3>1, <3>2
  <2> QED
    BY <2>3 DEF SessionInv
<1>10. PhaseInv'
  BY <1>1 DEF PhaseInv
<1>11. AliasInv'
  BY <1>1, <1>6 DEF AliasInv, Readable
<1>12. EntryInv'
  <2>1. ASSUME NEW u \in Urls, Readable(u)'
        PROVE  Readable(u) /\ head'[u] = head[u] /\ data'[body'[u]] = data[body[u]]
    BY <1>1, <1>5, <2>1 DEF Readable
  <2> QED
    BY <2>1 DEF EntryInv
<1> QED
  BY <1>7, <1>8, <1>9, <1>10, <1>11, <1>12

(* A new process finds the files as they are.  It was not killed between   *)
(* the writing of a header and the unlinking of its temporary file, so no  *)
(* readable body has a temporary name.                                     *)
LEMMA RestartInv ==
  ASSUME CacheInv, SafeFaults, Restart
  PROVE  CacheInv'
<1> USE DEF CacheInv, Restart
<1>1. pc # "saved" /\ CrashPoints # {}
  BY DEF SafeFaults
<1>2. TypeOK'
  BY DEF TypeOK, Steps
<1>3. NamesInv' /\ SessionInv'
  BY DEF NamesInv, Named, SessionInv, TypeOK
<1>4. PhaseInv'
  BY <1>1 DEF PhaseInv
<1>5. AliasInv' /\ EntryInv'
  BY <1>1 DEF AliasInv, EntryInv, Readable
<1> QED
  BY <1>2, <1>3, <1>4, <1>5

LEMMA StepInv ==
  ASSUME CacheInv, SafeFaults, [Next]_vars
  PROVE  CacheInv'
<1>1. CASE Next
  BY <1>1, ReceiveHeaderInv, ReceiveBodyInv, BeginWriteCacheInv, UnlinkBodyInv,
     UnlinkHeadInv, LinkBodyInv, OpenHeadInv, WriteHeadInv, UnlinkTmpInv, RestartInv
     DEF Next, WriteCache
<1>2. CASE UNCHANGED vars
  BY <1>2 DEF vars, CacheInv, TypeOK, NamesInv, Named, SessionInv, PhaseInv, AliasInv,
     EntryInv, Readable, Stored, WrongSize
<1> QED
  BY <1>1, <1>2

(* The inductive invariant holds in every execution with safe faults.      *)
THEOREM CacheInvariant ==
  ASSUME SafeFaults
  PROVE  Spec => []CacheInv
<1>1. CacheInv /\ [Next]_vars => CacheInv'
  BY StepInv
<1> QED
  BY <1>1, InitInv, PTL DEF Spec

(* Type correctness of the cache (see TypeOK).                             *)
THEOREM CacheTypes ==
  ASSUME SafeFaults
  PROVE  Spec => []TypeOK
<1>1. CacheInv => TypeOK
  BY DEF CacheInv
<1> QED
  BY <1>1, CacheInvariant, PTL

(* write_cache leaves no temporary file behind on any path (see            *)
(* NoStrayTmp).                                                            *)
THEOREM CacheNoStrayTmp ==
  ASSUME SafeFaults
  PROVE  Spec => []NoStrayTmp
<1>1. CacheInv => NoStrayTmp
  BY DEF CacheInv, SessionInv, NoStrayTmp
<1> QED
  BY <1>1, CacheInvariant, PTL

(* What the cache answers is what CacheInv says of readable entries.       *)
LEMMA ReadableIsAnswered ==
  ASSUME CacheInv, NEW u \in Urls
  PROVE  /\ Readable(u) =>
              /\ ReadCache(u) = [head |-> head[u], body |-> Sent(data[body[u]])]
              /\ head[u] \in Response /\ data[body[u]] \in Content
              /\ ReadCache(u) # Miss
         /\ ~Readable(u) => ReadCache(u) = Miss
<1>1. ASSUME Readable(u)
      PROVE  head[u] \in Response /\ data[body[u]] \in Content
  BY <1>1 DEF CacheInv, TypeOK, NamesInv, Named, Readable
<1>2. ASSUME Readable(u)
      PROVE  ReadCache(u) = [head |-> head[u], body |-> Sent(data[body[u]])]
  BY <1>2 DEF ReadCache, ExistCache, Readable
<1>3. ASSUME ~Readable(u)
      PROVE  ReadCache(u) = Miss
  BY <1>3 DEF ReadCache, ExistCache, Readable
<1>4. ASSUME Readable(u)
      PROVE  ReadCache(u) # Miss
  <2>1. Sent(data[body[u]]) \in Content \cup {Dummy}
    BY <1>1, <1>4 DEF Sent
  <2> QED
    BY <1>1, <1>2, <1>4, <2>1
<1> QED
  BY <1>1, <1>2, <1>3, <1>4

(* Requests are answered with a header and a body of one response, whole   *)
(* when it announced its length (see EntryIntact), wherever the process is *)
(* killed but after the header was written.                                *)
THEOREM CacheEntriesIntact ==
  ASSUME SafeFaults
  PROVE  Spec => []EntryIntact
<1>1. ASSUME CacheInv, NEW u \in Urls, Readable(u)
      PROVE  LET e == ReadCache(u)
             IN  /\ e.head.url = u
                 /\ e.body = Dummy => (e.head.decl => Size[e.head.ver] = 0)
                 /\ e.body # Dummy =>
                      /\ e.body.url = u /\ e.body.ver = e.head.ver
                      /\ e.body.len <= Size[e.head.ver]
                      /\ e.head.decl => e.body.len = Size[e.head.ver]
  <2>1. /\ ReadCache(u) = [head |-> head[u], body |-> Sent(data[body[u]])]
        /\ data[body[u]] \in Content
    BY <1>1, ReadableIsAnswered
  <2>2. /\ head[u].url = u
        /\ data[body[u]].url = u /\ data[body[u]].ver = head[u].ver
        /\ data[body[u]].len <= Size[head[u].ver]
        /\ head[u].decl => data[body[u]].len = Size[head[u].ver]
    BY <1>1 DEF CacheInv, EntryInv
  <2> QED
    BY <2>1, <2>2 DEF Sent
<1>2. CacheInv => EntryIntact
  BY <1>1, ReadableIsAnswered DEF EntryIntact
<1> QED
  BY <1>2, CacheInvariant, PTL

(* A session never writes to a file that readers are given (see            *)
(* WritesAreUnread).                                                       *)
THEOREM CacheWritesUnread ==
  ASSUME SafeFaults
  PROVE  Spec => []WritesAreUnread
<1>1. ASSUME CacheInv, NEW n \in Nums, NEW u \in Urls, handle[n], body[u] = tmp[n]
      PROVE  ~Readable(u)
  BY <1>1 DEF CacheInv, AliasInv, PhaseInv
<1>2. CacheInv => WritesAreUnread
  BY <1>1, ReadableIsAnswered DEF WritesAreUnread
<1> QED
  BY <1>2, CacheInvariant, PTL

(* Steps of one session's response, and of write_cache before and after the *)
(* two that matter to readers, change no answer of the cache.               *)
LEMMA SilentStep ==
  ASSUME CacheInv, CacheInv', SafeFaults, [Next]_vars, ~UnlinkBody, ~WriteHead
  PROVE  \A u \in Urls : ReadCache(u)' = ReadCache(u)
<1> SUFFICES ASSUME NEW u \in Urls
             PROVE  ReadCache(u)' = ReadCache(u)
  OBVIOUS
<1> DEFINE Kept == /\ Readable(u)' <=> Readable(u)
                   /\ Readable(u) => head'[u] = head[u] /\ data'[body'[u]] = data[body[u]]
<1>1. Kept => ReadCache(u)' = ReadCache(u)
  BY DEF ReadCache, ExistCache, Readable
<1>2. ASSUME NEW n \in Nums, NEW r \in Response, ReceiveHeader(n, r)
      PROVE  Kept
  <2>1. body' = body /\ head' = head /\ pc = "loop"
    BY <1>2 DEF ReceiveHeader
  <2>2. ASSUME Readable(u)
        PROVE  data'[body[u]] = data[body[u]]
    <3>1. body[u] \in Inodes /\ data[body[u]] # NoFile /\ tmp[n] # body[u]
      BY <2>1, <2>2 DEF CacheInv, TypeOK, NamesInv, Named, AliasInv, Readable
    <3>2. data' = data \/ \E i \in Inodes, c \in Content :
                              i # body[u] /\ data' = [data EXCEPT ![i] = c]
      <4>1. PICK k \in 0 .. Size[r.ver] :
              OpenTmp(n, r, k) \/ UNCHANGED data
        BY <1>2 DEF ReceiveHeader, SafeFaults, MayFail
      <4>2. [url |-> r.url, ver |-> r.ver, len |-> k] \in Content
        BY <4>1, ResponseFacts DEF Content
      <4> QED
        BY <3>1, <4>1, <4>2 DEF OpenTmp, CacheInv, TypeOK
    <3> QED
      BY <3>1, <3>2 DEF CacheInv, TypeOK
  <2> QED
    BY <2>1, <2>2 DEF Readable
<1>3. ASSUME NEW n \in Nums, ReceiveBody(n)
      PROVE  Kept
  <2>1. body' = body /\ head' = head /\ pc = "loop" /\ fetch[n] # Idle
    BY <1>3 DEF ReceiveBody
  <2>2. ASSUME Readable(u)
        PROVE  data'[body[u]] = data[body[u]]
    <3>1. body[u] \in Inodes /\ tmp[n] # body[u]
      BY <2>1, <2>2 DEF CacheInv, TypeOK, AliasInv, Readable
    <3>2. PICK k \in Int :
            data' = IF handle[n] THEN [data EXCEPT ![tmp[n]].len = @ + k] ELSE data
      BY <1>3 DEF ReceiveBody, SafeFaults, MayFail
    <3> QED
      BY <3>1, <3>2 DEF CacheInv, TypeOK
  <2> QED
    BY <2>1, <2>2 DEF Readable
<1>4. ASSUME NEW n \in Nums, BeginWriteCache(n)
      PROVE  Kept
  BY <1>4 DEF BeginWriteCache, Readable
<1>5. ASSUME UnlinkHead
      PROVE  Kept
  <2>0. PICK w \in Urls : w = Stored.url
    BY <1>5, InWriteCache DEF UnlinkHead
  <2>1. /\ body' = body /\ data' = data /\ body[w] = NoFile
        /\ head' = [head EXCEPT ![w] = NoFile] \/ head' = head
    BY <1>5, <2>0 DEF UnlinkHead, CacheInv, PhaseInv
  <2>2. u # w => head'[u] = head[u]
    BY <2>1 DEF CacheInv, TypeOK
  <2> QED
    BY <2>1, <2>2 DEF Readable
<1>6. ASSUME LinkBody
      PROVE  Kept
  <2>0. PICK w \in Urls : w = Stored.url
    BY <1>6, InWriteCache DEF LinkBody
  <2>1. /\ head' = head /\ data' = data /\ head[w] = NoFile
        /\ body' = [body EXCEPT ![w] = tmp[cur]] \/ body' = body
    BY <1>6, <2>0 DEF LinkBody, CacheInv, PhaseInv
  <2>2. u # w => body'[u] = body[u]
    BY <2>1 DEF CacheInv, TypeOK
  <2> QED
    BY <2>1, <2>2 DEF Readable
<1>7. ASSUME OpenHead
      PROVE  Kept
  <2>0. PICK w \in Urls : w = Stored.url
    BY <1>7, InWriteCache DEF OpenHead
  <2>1. /\ body' = body /\ data' = data /\ head[w] = NoFile
        /\ head' = [head EXCEPT ![w] = EmptyFile] \/ head' = head
    BY <1>7, <2>0 DEF OpenHead, CacheInv, PhaseInv
  <2>2. /\ u # w => head'[u] = head[u]
        /\ u = w => head'[u] \in {NoFile, EmptyFile}
    BY <2>1 DEF CacheInv, TypeOK
  <2> QED
    BY <2>1, <2>2 DEF Readable
<1>8. ASSUME UnlinkTmp
      PROVE  Kept
  <2>1. /\ body' = body /\ head' = head
        /\ data' = data \/ data' = Remaining(tmp', body)
    BY <1>8 DEF UnlinkTmp
  <2>2. body[u] \in Inodes => data'[body[u]] = data[body[u]]
    BY <2>1 DEF Remaining, Named
  <2>3. Readable(u) => body[u] \in Inodes
    BY DEF Readable, CacheInv, TypeOK
  <2>4. Readable(u)' <=> Readable(u)
    BY <2>1 DEF Readable
  <2> QED
    BY <2>1, <2>2, <2>3, <2>4
<1>9. ASSUME Restart \/ UNCHANGED vars
      PROVE  Kept
  <2>1. body' = body /\ head' = head /\ data' = data
    BY <1>9 DEF Restart, vars
  <2> QED
    BY <2>1 DEF Readable
<1> QED
  BY <1>1, <1>2, <1>3, <1>4, <1>5, <1>6, <1>7, <1>8, <1>9 DEF Next, WriteCache

(* Unlinking a body turns the entry of one URL into a miss.                 *)
LEMMA WithdrawStep ==
  ASSUME CacheInv, CacheInv', SafeFaults, UnlinkBody
  PROVE  \E w \in Urls : /\ ReadCache(w)' = Miss
                         /\ \A u \in Urls \ {w} : ReadCache(u)' = ReadCache(u)
<1>0. PICK w \in Urls : w = Stored.url
  BY InWriteCache DEF UnlinkBody
<1>1. /\ body' = [body EXCEPT ![w] = NoFile] /\ head' = head
      /\ data' = Remaining(tmp, body')
  BY <1>0 DEF UnlinkBody, SafeFaults, MayFail
<1>2. ReadCache(w)' = Miss
  BY <1>1 DEF ReadCache, ExistCache, CacheInv, TypeOK
<1>3. ASSUME NEW u \in Urls, u # w
      PROVE  ReadCache(u)' = ReadCache(u)
  <2>1. body'[u] = body[u] /\ head'[u] = head[u]
    BY <1>1, <1>3 DEF CacheInv, TypeOK
  <2>2. body[u] # NoFile => data'[body[u]] = data[body[u]]
    BY <1>1, <2>1 DEF Remaining, Named, CacheInv, TypeOK
  <2> QED
    BY <2>1, <2>2 DEF ReadCache, ExistCache
<1> QED
  BY <1>2, <1>3

(* Writing a header publishes one whole response, or nothing (the link had  *)
(* failed and there is no body).                                            *)
LEMMA PublishStep ==
  ASSUME CacheInv, CacheInv', WriteHead
  PROVE  \E w \in Urls : /\ ReadCache(w) = Miss
                         /\ ReadCache(w)' = Miss \/ AC!Legitimate(w, ReadCache(w)')
                         /\ \A u \in Urls \ {w} : ReadCache(u)' = ReadCache(u)
<1>0. PICK w \in Urls : w = Stored.url
  BY InWriteCache DEF WriteHead
<1>6. CASE UNCHANGED head
  <2>1. body' = body /\ head' = head /\ data' = data /\ head[w] = EmptyFile
    BY <1>0, <1>6 DEF WriteHead, CacheInv, PhaseInv
  <2>2. ReadCache(w) = Miss /\ \A u \in Urls : ReadCache(u)' = ReadCache(u)
    BY <2>1 DEF ReadCache, ExistCache
  <2> QED
    BY <2>2
<1>7. SUFFICES ASSUME head' = [head EXCEPT ![w] = Stored]
               PROVE  \E v \in Urls : /\ ReadCache(v) = Miss
                                      /\ ReadCache(v)' = Miss \/ AC!Legitimate(v, ReadCache(v)')
                                      /\ \A u \in Urls \ {v} : ReadCache(u)' = ReadCache(u)
  BY <1>0, <1>6 DEF WriteHead
<1>1. /\ head' = [head EXCEPT ![w] = Stored] /\ body' = body /\ data' = data
      /\ pc = "writehead"
  BY <1>0, <1>7 DEF WriteHead
<1>2. ReadCache(w) = Miss
  BY <1>0, <1>1 DEF CacheInv, PhaseInv, ReadCache, ExistCache
<1>3. ASSUME NEW u \in Urls, u # w
      PROVE  ReadCache(u)' = ReadCache(u)
  BY <1>1, <1>3 DEF ReadCache, ExistCache, CacheInv, TypeOK
<1>4. ASSUME Readable(w)'
      PROVE  AC!Legitimate(w, ReadCache(w)')
  <2>1. ReadCache(w)' = [head |-> head'[w], body |-> Sent(data'[body'[w]])]
    BY <1>4 DEF ReadCache, ExistCache, Readable
  <2>2. head'[w] \in Response /\ data'[body'[w]] \in Content
    BY <1>4 DEF CacheInv, TypeOK, NamesInv, Named, Readable
  <2>3. /\ head'[w].url = w
        /\ data'[body'[w]].url = w /\ data'[body'[w]].ver = head'[w].ver
        /\ data'[body'[w]].len <= Size[head'[w].ver]
        /\ head'[w].decl => data'[body'[w]].len = Size[head'[w].ver]
    BY <1>4 DEF CacheInv, EntryInv
  <2> QED
    <3>1. Sent(data'[body'[w]]) \in Content \cup {Dummy}
      BY <2>2 DEF Sent
    <3>2. ReadCache(w)' \in AC!Entry
      BY <2>1, <2>2, <3>1 DEF AC!Entry, AC!Response, AC!Content, Response, Content
    <3>3. data'[body'[w]].len \in Nat /\ Size[head'[w].ver] \in Nat
      BY <2>2 DEF Response, Content
    <3> QED
      BY <2>1, <2>2, <2>3, <3>2, <3>3 DEF AC!Legitimate, Sent
<1>5. ~Readable(w)' => ReadCache(w)' = Miss
  BY DEF ReadCache, ExistCache, Readable
<1> QED
  BY <1>2, <1>3, <1>4, <1>5

(* The files implement the map from URLs to whole responses that readers    *)
(* are promised (see CacheIsAtomic).                                        *)
THEOREM CacheRefinesAtomic ==
  ASSUME SafeFaults
  PROVE  Spec => CacheIsAtomic
<1> DEFINE e == [u \in Urls |-> ReadCache(u)]
<1>1. Init => AC!Init
  BY DEF Init, AC!Init, ReadCache, ExistCache
<1>2. ASSUME CacheInv, CacheInv', [Next]_vars
      PROVE  [AC!Next]_e
  <2>1. CASE \A u \in Urls : ReadCache(u)' = ReadCache(u)
    BY <2>1
  <2>2. ASSUME NEW w \in Urls, ReadCache(w)' = Miss,
               \A u \in Urls \ {w} : ReadCache(u)' = ReadCache(u)
        PROVE  [AC!Next]_e
    <3>1. e' = [e EXCEPT ![w] = Miss]
      BY <2>2
    <3>2. CASE ReadCache(w) = Miss
      BY <2>1, <2>2, <3>2
    <3>3. CASE ReadCache(w) # Miss
      BY <3>1, <3>3 DEF AC!Next, AC!Withdraw
    <3> QED
      BY <3>2, <3>3
  <2>3. ASSUME NEW w \in Urls, ReadCache(w) = Miss, AC!Legitimate(w, ReadCache(w)'),
               \A u \in Urls \ {w} : ReadCache(u)' = ReadCache(u)
        PROVE  AC!Next
    <3> DEFINE c == ReadCache(w)'
    <3>1. e' = [e EXCEPT ![w] = c] /\ e[w] = Miss
      BY <2>3
    <3>2. c \in AC!Entry /\ AC!Legitimate(w, c)
      BY <2>3 DEF AC!Legitimate
    <3> HIDE DEF c
    <3> DEFINE n == IF c.body = Dummy THEN 0 ELSE c.body.len
    <3>3. /\ c.head \in AC!Response
          /\ c.body \in AC!Content \cup {Dummy}
          /\ c = [head |-> c.head, body |-> c.body]
          /\ Size[c.head.ver] \in Nat
      BY <3>2 DEF AC!Legitimate, AC!Entry, AC!Response
    <3>5. n \in 0 .. Size[c.head.ver]
      BY <3>2, <3>3 DEF AC!Legitimate, AC!Content
    <3>6. c = [head |-> c.head,
               body |-> IF n = 0 THEN Dummy ELSE [url |-> w, ver |-> c.head.ver, len |-> n]]
      BY <2>3, <3>2, <3>3 DEF AC!Legitimate, AC!Content
    <3> HIDE DEF n
    <3>4. AC!Publish(w)
      BY <3>1, <3>2, <3>3, <3>5, <3>6 DEF AC!Publish
    <3> QED
      BY <3>4 DEF AC!Next
  <2> QED
    BY <1>2, <2>1, <2>2, <2>3, SilentStep, WithdrawStep, PublishStep
<1> QED
  BY <1>1, <1>2, CacheInvariant, PTL DEF Spec, CacheIsAtomic, AC!Spec
=============================================================================
