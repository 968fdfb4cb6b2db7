----------------------------- MODULE ProxyCache -----------------------------
(***************************************************************************)
(* The disk cache of httpproxy.pl.  A response is collected in a temporary *)
(* file named after the session number (tmp/N); when the session ends,     *)
(* write_cache hard-links that file to <url>.body, writes <url>.head and   *)
(* unlinks tmp/N.  The program has one thread, so write_cache is not       *)
(* interleaved with other sessions; but it may be killed between any two   *)
(* of its system calls, and a system call may fail.  Session numbers start *)
(* again from the same value after a restart, so a file tmp/N left behind  *)
(* is met again by the N-th session of the next process.                   *)
(*                                                                         *)
(* Directories map names to inodes, because a body and a temporary file    *)
(* may be two names of one file.  The contents of a file are the url and   *)
(* version of the response that was last written to it and the number of   *)
(* units of body stored.  Standard-I/O buffering is not modelled: a file   *)
(* is closed (flushed) before it gets its permanent name, and a header is  *)
(* written by one write call; a write that fails stores nothing.           *)
(***************************************************************************)
EXTENDS Integers

CONSTANTS
  Nums,         \* session numbers
  Urls,         \* URLs
  Versions,     \* the different responses to one URL
  Size,         \* Size[v]: length of the body of version v
  Inodes,       \* files of the cache file system
  Dummy,        \* the five bytes sent as the body of an empty entry
  Miss,         \* the answer of the cache when nothing usable is stored
  NoFile,       \* no such directory entry
  EmptyFile,    \* a header file that was created but not written
  Idle,         \* a session with no response under way
  CrashPoints,  \* the values of pc at which the process may be killed
  IOErrors,     \* the system calls that may fail
  MaxRestarts   \* bound: how often the process is killed and started again

Steps == {"rmbody", "rmhead", "link", "openhead", "writehead", "saved", "skipped"}

Calls == {"opentmp", "writetmp", "rmbody", "rmhead", "link", "openhead", "writehead", "rmtmp"}

ASSUME CacheConstants ==
  /\ Size \in [Versions -> Nat]
  /\ NoFile \notin Inodes
  /\ CrashPoints \subseteq Steps \cup {"loop"}
  /\ IOErrors \subseteq Calls
  /\ MaxRestarts \in Nat

Response == [url : Urls, ver : Versions, decl : BOOLEAN]
Content  == [url : Urls, ver : Versions, len : Nat]

ASSUME CacheMarkers ==
  /\ Idle \notin Response /\ Idle \notin Nums
  /\ NoFile \notin Response \cup Content /\ EmptyFile \notin Response
  /\ NoFile # EmptyFile
  /\ Dummy \notin Content
  /\ Miss \notin [head : Response, body : Content \cup {Dummy}]

VARIABLES
  tmp,       \* tmp[n]: inode of the file "$cachetmpdir/n"
  body,      \* body[u]: inode of <u>.body
  head,      \* head[u]: contents of <u>.head
  data,      \* data[i]: contents of inode i, NoFile when i is free
  fetch,     \* fetch[n]: the response session n is receiving (CACHE_TMPFILE set)
  handle,    \* handle[n]: the CACHE file handle of session n is open
  rcvd,      \* rcvd[n]: RECEIVED_BODY_SIZE
  cur,       \* the session inside write_cache
  pc,        \* "loop", or the next system call of write_cache
  restarts   \* how many times the process was killed

vars == <<tmp, body, head, data, fetch, handle, rcvd, cur, pc, restarts>>

TypeOK ==
  /\ tmp \in [Nums -> Inodes \cup {NoFile}]
  /\ body \in [Urls -> Inodes \cup {NoFile}]
  /\ head \in [Urls -> Response \cup {NoFile, EmptyFile}]
  /\ data \in [Inodes -> Content \cup {NoFile}]
  /\ fetch \in [Nums -> Response \cup {Idle}]
  /\ handle \in [Nums -> BOOLEAN]
  /\ rcvd \in [Nums -> Nat]
  /\ cur \in Nums \cup {Idle}
  /\ pc \in Steps \cup {"loop"}
  /\ restarts \in 0 .. MaxRestarts

Init ==
  /\ tmp = [n \in Nums |-> NoFile]
  /\ body = [u \in Urls |-> NoFile]
  /\ head = [u \in Urls |-> NoFile]
  /\ data = [i \in Inodes |-> NoFile]
  /\ fetch = [n \in Nums |-> Idle]
  /\ handle = [n \in Nums |-> FALSE]
  /\ rcvd = [n \in Nums |-> 0]
  /\ cur = Idle
  /\ pc = "loop"
  /\ restarts = 0

-----------------------------------------------------------------------------
(* File system.                                                             *)

MayFail(call) == call \in IOErrors

(* The files that have a name in the directories t and b. *)
Named(t, b) == {t[n] : n \in Nums} \cup {b[u] : u \in Urls}

(* The contents that remain when the names are those of t and b: a file    *)
(* whose last name was unlinked is freed.                                  *)
Remaining(t, b) == [i \in Inodes |-> IF i \in Named(t, b) THEN data[i] ELSE NoFile]

(* open(">tmp/n"): creates the file, or truncates the one with that name.  *)
OpenTmp(n, r, k) ==
  \E i \in (IF tmp[n] = NoFile THEN {j \in Inodes : data[j] = NoFile} ELSE {tmp[n]}) :
    /\ tmp' = [tmp EXCEPT ![n] = i]
    /\ data' = [data EXCEPT ![i] = [url |-> r.url, ver |-> r.ver, len |-> k]]

-----------------------------------------------------------------------------
(* READING: the response header is complete; k units of body came with it.  *)
(* A response without a status, or a 304, opens no file and is not modelled.*)
ReceiveHeader(n, r) ==
  /\ pc = "loop" /\ fetch[n] = Idle
  /\ fetch' = [fetch EXCEPT ![n] = r]
  /\ \E k \in 0 .. Size[r.ver] :
       /\ rcvd' = [rcvd EXCEPT ![n] = k]
       /\ \/ /\ OpenTmp(n, r, k) \/ (MayFail("writetmp") /\ OpenTmp(n, r, 0))
             /\ handle' = [handle EXCEPT ![n] = TRUE]
          \/ /\ MayFail("opentmp")
             /\ UNCHANGED <<tmp, data, handle>>
  /\ UNCHANGED <<body, head, cur, pc, restarts>>

(* READING: k more units of body; the origin server sends no more than the  *)
(* response holds.  They count as received also when they cannot be stored. *)
ReceiveBody(n) ==
  /\ pc = "loop" /\ fetch[n] # Idle
  /\ \E k \in 1 .. Size[fetch[n].ver] - rcvd[n] :
       /\ rcvd' = [rcvd EXCEPT ![n] = @ + k]
       /\ \/ data' = IF handle[n] THEN [data EXCEPT ![tmp[n]].len = @ + k] ELSE data
          \/ MayFail("writetmp") /\ UNCHANGED data
  /\ UNCHANGED <<tmp, body, head, fetch, handle, cur, pc, restarts>>

(* Mutant: the test of the size is missing.                                 *)
WrongSizeUnchecked(n) == FALSE

(* The announced length is not the one received ("Illegal Size").           *)
WrongSize(n) ==
  fetch[n].decl /\ Size[fetch[n].ver] # 0 /\ rcvd[n] # Size[fetch[n].ver]

(* do_close or do_keep_close calls write_cache: the server or the client    *)
(* closed its connection, at whatever point of the response, or the         *)
(* announced length was reached.  The CACHE handle is closed; a body of the *)
(* wrong size is not stored.                                                *)
BeginWriteCache(n) ==
  /\ pc = "loop" /\ fetch[n] # Idle
  /\ handle' = [handle EXCEPT ![n] = FALSE]
  /\ cur' = n
  /\ pc' = IF WrongSize(n) THEN "skipped" ELSE "rmbody"
  /\ UNCHANGED <<tmp, body, head, data, fetch, rcvd, restarts>>

(* The session's response, while write_cache runs. *)
Stored == fetch[cur]

UnlinkBody ==
  /\ pc = "rmbody"
  /\ pc' = "rmhead"
  /\ \/ /\ body' = [body EXCEPT ![Stored.url] = NoFile]
        /\ data' = Remaining(tmp, body')
     \/ MayFail("rmbody") /\ UNCHANGED <<body, data>>
  /\ UNCHANGED <<tmp, head, fetch, handle, rcvd, cur, restarts>>

(* Mutant: the old header stays until the new one is written over it.       *)
UnlinkHeadSkipped ==
  /\ pc = "rmhead" /\ pc' = "link"
  /\ UNCHANGED <<tmp, body, head, data, fetch, handle, rcvd, cur, restarts>>

UnlinkHead ==
  /\ pc = "rmhead"
  /\ pc' = "link"
  /\ \/ head' = [head EXCEPT ![Stored.url] = NoFile]
     \/ MayFail("rmhead") /\ UNCHANGED head
  /\ UNCHANGED <<tmp, body, data, fetch, handle, rcvd, cur, restarts>>

(* Mutant: the body becomes a symbolic link to the name tmp/n.              *)
LinkBodyByName ==
  /\ pc = "link" /\ pc' = "openhead"
  /\ body' = [body EXCEPT ![Stored.url] = cur]
  /\ UNCHANGED <<tmp, head, data, fetch, handle, rcvd, cur, restarts>>

(* link() fails when the temporary file does not exist or the body does;    *)
(* the failure is logged and write_cache goes on.                           *)
LinkBody ==
  /\ pc = "link"
  /\ pc' = "openhead"
  /\ \/ /\ tmp[cur] # NoFile /\ body[Stored.url] = NoFile
        /\ body' = [body EXCEPT ![Stored.url] = tmp[cur]]
     \/ /\ tmp[cur] = NoFile \/ body[Stored.url] # NoFile \/ MayFail("link")
        /\ UNCHANGED body
  /\ UNCHANGED <<tmp, head, data, fetch, handle, rcvd, cur, restarts>>

OpenHead ==
  /\ pc = "openhead"
  /\ \/ /\ head' = [head EXCEPT ![Stored.url] = EmptyFile]
        /\ pc' = "writehead"
     \/ MayFail("openhead") /\ pc' = "saved" /\ UNCHANGED head
  /\ UNCHANGED <<tmp, body, data, fetch, handle, rcvd, cur, restarts>>

WriteHead ==
  /\ pc = "writehead"
  /\ \/ head' = [head EXCEPT ![Stored.url] = Stored]
     \/ MayFail("writehead") /\ UNCHANGED head
  /\ pc' = "saved"
  /\ UNCHANGED <<tmp, body, data, fetch, handle, rcvd, cur, restarts>>

EndResponse ==
  /\ fetch' = [fetch EXCEPT ![cur] = Idle]
  /\ rcvd' = [rcvd EXCEPT ![cur] = 0]
  /\ cur' = Idle
  /\ pc' = "loop"

(* Mutants: tmp/n is never unlinked; it is unlinked only when the response  *)
(* was stored.                                                              *)
UnlinkTmpForgotten ==
  /\ pc \in {"saved", "skipped"} /\ EndResponse
  /\ UNCHANGED <<tmp, body, head, data, handle, restarts>>

UnlinkTmpOnSuccess ==
  /\ pc \in {"saved", "skipped"} /\ EndResponse
  /\ tmp' = IF pc = "saved" THEN [tmp EXCEPT ![cur] = NoFile] ELSE tmp
  /\ data' = Remaining(tmp', body)
  /\ UNCHANGED <<body, head, handle, restarts>>

(* endlabel: unlink tmp/n, forget the response.                             *)
UnlinkTmp ==
  /\ pc \in {"saved", "skipped"}
  /\ \/ /\ tmp' = [tmp EXCEPT ![cur] = NoFile]
        /\ data' = Remaining(tmp', body)
     \/ MayFail("rmtmp") /\ UNCHANGED <<tmp, data>>
  /\ EndResponse
  /\ UNCHANGED <<body, head, handle, restarts>>

(* The process is killed and started again: the files stay, and sessions    *)
(* get the same numbers again.                                              *)
Restart ==
  /\ pc \in CrashPoints /\ restarts < MaxRestarts
  /\ restarts' = restarts + 1
  /\ fetch' = [n \in Nums |-> Idle]
  /\ handle' = [n \in Nums |-> FALSE]
  /\ rcvd' = [n \in Nums |-> 0]
  /\ cur' = Idle
  /\ pc' = "loop"
  /\ UNCHANGED <<tmp, body, head, data>>

WriteCache ==
  UnlinkBody \/ UnlinkHead \/ LinkBody \/ OpenHead \/ WriteHead \/ UnlinkTmp

Next ==
  \/ \E n \in Nums :
       \/ \E r \in Response : ReceiveHeader(n, r)
       \/ ReceiveBody(n)
       \/ BeginWriteCache(n)
  \/ WriteCache
  \/ Restart

Spec == Init /\ [][Next]_vars

-----------------------------------------------------------------------------
(* Reading the cache.                                                       *)

(* existcache: a header file is there.                                      *)
ExistCache(u) == head[u] # NoFile

(* do_read_request: the body that goes to the client.                       *)
Sent(c) == IF c.len = 0 THEN Dummy ELSE c

(* existcache and read_cache: what a request for u is answered with.  A     *)
(* missing body, or an empty header, counts as a miss.                      *)
ReadCache(u) ==
  IF ExistCache(u) /\ body[u] # NoFile /\ head[u] # EmptyFile
  THEN [head |-> head[u], body |-> Sent(data[body[u]])]
  ELSE Miss

-----------------------------------------------------------------------------
(* Properties.                                                              *)

(* A request answered from the cache gets a header and a body of one        *)
(* response for the URL it asked for, and, when that response announced its *)
(* length, all of it: the check of write_cache ("Illegal Size") and the     *)
(* order in which it replaces the two files are enough, in every state in   *)
(* which the process may be killed.  An entry without a body is answered    *)
(* with a dummy one; only a response that announced none may be.            *)
EntryIntact ==
  \A u \in Urls :
    LET e == ReadCache(u)
    IN  e # Miss =>
          /\ e.head.url = u
          /\ e.body = Dummy => (e.head.decl => Size[e.head.ver] = 0)
          /\ e.body # Dummy =>
               /\ e.body.url = u /\ e.body.ver = e.head.ver
               /\ e.body.len <= Size[e.head.ver]
               /\ e.head.decl => e.body.len = Size[e.head.ver]

(* What "Illegal Size" (lines 469-471) is there for, whatever the faults: a *)
(* stored response that announced its length has a body of that length.     *)
AnnouncedIsWhole ==
  \A u \in Urls :
    LET e == ReadCache(u)
    IN  e # Miss /\ e.head.decl =>
          Size[e.head.ver] = IF e.body = Dummy THEN 0 ELSE e.body.len

(* The file a session is still writing is never one that readers are given: *)
(* a temporary file left under the same number by an earlier process may be *)
(* linked to a body, but then that body has no header.                      *)
WritesAreUnread ==
  \A n \in Nums, u \in Urls :
    handle[n] /\ body[u] = tmp[n] => ReadCache(u) = Miss

(* As long as the process was not killed, every temporary file belongs to a *)
(* response under way: write_cache leaves none behind on any of its paths.  *)
NoStrayTmp ==
  \A n \in Nums :
    tmp[n] # NoFile => fetch[n] # Idle \/ restarts > 0

(* To its readers the cache is a map from URLs to whole responses that      *)
(* changes one entry at a time and never in place.                          *)
AC == INSTANCE AtomicCache WITH entry <- [u \in Urls |-> ReadCache(u)]

CacheIsAtomic == AC!Spec

-----------------------------------------------------------------------------
(* Why it holds.                                                            *)

(* The faults under which the cache keeps its promise.  A kill between the  *)
(* writing of the header and the unlinking of tmp/n leaves a readable body  *)
(* under a second name that the next process writes to; a failed unlink of  *)
(* tmp/n does the same; a failed unlink of the old body, or a tmp/n that    *)
(* cannot be opened but is there from an earlier process, gives a header    *)
(* the body of another response; and a part of the body that could not be   *)
(* written counts as received, so that a part is stored for the whole.      *)
SafeFaults ==
  /\ "saved" \notin CrashPoints
  /\ IOErrors \subseteq {"opentmp", "link", "openhead", "writehead"}
  /\ CrashPoints = {} \/ "opentmp" \notin IOErrors

Readable(u) == body[u] # NoFile /\ head[u] \notin {NoFile, EmptyFile}

(* Directory entries and files agree, and no two temporary files are one.   *)
NamesInv ==
  /\ \A n, m \in Nums : tmp[n] = tmp[m] /\ tmp[n] # NoFile => n = m
  /\ \A i \in Inodes : data[i] # NoFile <=> i \in Named(tmp, body)

(* What a session knows about its temporary file.                           *)
SessionInv ==
  \A n \in Nums :
    /\ handle[n] => fetch[n] # Idle /\ tmp[n] # NoFile
    /\ fetch[n] # Idle =>
         /\ rcvd[n] <= Size[fetch[n].ver]
         /\ tmp[n] # NoFile =>
              data[tmp[n]] = [url |-> fetch[n].url, ver |-> fetch[n].ver, len |-> rcvd[n]]
         /\ handle[n] \/ tmp[n] = NoFile \/ cur = n
    /\ fetch[n] = Idle /\ tmp[n] # NoFile => restarts > 0

(* How far write_cache has got.                                             *)
PhaseInv ==
  /\ pc = "loop" <=> cur = Idle
  /\ pc # "loop" => fetch[cur] # Idle /\ ~handle[cur]
  /\ pc \notin {"loop", "skipped"} => ~WrongSize(cur)
  /\ pc \in {"rmhead", "link"} => body[Stored.url] = NoFile
  /\ pc \in {"openhead", "writehead", "saved"} => body[Stored.url] \in {NoFile, tmp[cur]}
  /\ pc \in {"link", "openhead"} => head[Stored.url] = NoFile
  /\ pc = "writehead" => head[Stored.url] = EmptyFile
  /\ restarts > 0 => CrashPoints # {}

(* A readable body has no temporary name, but for the moment between the    *)
(* writing of its header and the unlinking of tmp/n.                        *)
AliasInv ==
  \A u \in Urls, n \in Nums :
    Readable(u) /\ tmp[n] = body[u] => pc = "saved" /\ cur = n

EntryInv ==
  \A u \in Urls :
    Readable(u) =>
      /\ head[u].url = u
      /\ data[body[u]].url = u /\ data[body[u]].ver = head[u].ver
      /\ data[body[u]].len <= Size[head[u].ver]
      /\ head[u].decl => data[body[u]].len = Size[head[u].ver]

CacheInv == TypeOK /\ NamesInv /\ SessionInv /\ PhaseInv /\ AliasInv /\ EntryInv
=============================================================================
