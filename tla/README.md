# inettools: models and proofs

inettools is a collection of network programs in C and Perl: a caching HTTP
proxy with prefetching (`httpproxy.pl`), a parallel downloader (`wwgetcp.pl`), a
buffered-socket library (`sock.c`), TCP relays, thread-pool test clients and
servers, and many small test programs.  This directory holds TLA+ models of its
core, TLC configurations that check them on small instances, and TLAPS proofs.

    tlc -workers 2 -config MCHttpRelay.cfg MCHttpProxy     (a run)
    tlapm ProxyCacheProofs.tla                             (the proofs)

## Inventory

| part | state | operations | hard behaviour |
|---|---|---|---|
| `httpproxy.pl`, select loop | session table (STATE, CLIENT, SERVER, keep-alive fields, BUF, counters), select masks `$rin` `$win`, results `$rout` `$wout`, SOCKETNUM | one handler per STATE (lines 1152-1355), make_session, do_accept, do_connect, do_read_request, do_close, do_keep_close, change_state | handlers of other sessions and the world act between select and a handler; descriptors are used again; keep-alive on both sides; responses in any number of reads; early closes |
| `httpproxy.pl`, disk cache | files tmp/N, U.body, U.head | existcache, read_cache, write_cache, the temporary file written in READING | kills between system calls, restarts that use the same names again, failing calls |
| `httpproxy.pl`, prefetching | list of links, level of a session, access counts | findprefetch, getlinks, sort_prefetchlinks, prefetch | sessions that start sessions; no bound on redirects |
| `httpproxy.pl`, URLs | none | parse_url, build_url, clean_path, url2fname, split_field | pure functions |
| `sock.c` | ring buffer inbuf, linear outbuf, cancel flag | sockgetc, sockgets, sockread, sockputc, sockputs, sockwrite, sockflush, sockopen, sockclose | partial sends, wrap-around, end of file inside a line, cancel from another thread |
| `tcppclientc.c`, `tcppserverc.c` | thread_num, mutex, condition | main loop, thread start and end | a limit on threads under interleaving; failing pthread_create |
| `wwgetcp.pl` | one record per connection (STATE, range, received), list of ranges to get | connect, header, body, timeout, reconnect | timeouts against late data, ranges that must cover the file |
| `tcpmproxy*.pl`, `throu.pl`, `tcpproxy*.pl`, `irctelnet.pl` | session table and masks | accept, connect, read, write, close | live iteration of the table, end of file on one side |
| `srvtest.c` | descriptors of a connection in the parent, an active process, a socket pair and the standby process; children not waited for | accept and fork, echo, pass the descriptor, take over, wait in the SIGCHLD handler | two processes on one connection; signals that merge into one; who still holds a descriptor |
| `wwgetc2.c`, `wwgetc.c` | the response's mode, line, head and body so far | get_url packet by packet, URL after URL | ends of line and head anywhere in packets; bytes counted twice; uninitialized memory searched |
| `httpserverc.c` | the connection it serves | accept, read the request, write, close | one connection blocks the others; a client that is gone ends the server |
| `htmlls.c`, `htmlls2.c` | stack of start tags, list of links | start tag, end tag, combine_url | tags left open, left over or too many |
| `url.c`, `common.c` | none | parse_url, build_url, public_url, dirname, fnamecat, cleanpath | pure functions |
| the rest | none, or one socket | small test programs | none |

How they interact: the loop of `httpproxy.pl` calls the cache when a request is
read (existcache, read_cache) and when a response ends (write_cache, in
do_close_itr), and starts prefetch sessions at that same place.  All of it is one
thread: only the operating system, the clients and the servers act in between.
The C programs share `sock.c` and `sockutil.c` and nothing at run time.

What makes each part correct: the cache answers with one whole response or not
at all; a client gets the response to its own request, whole and in order, over
connections that are used again; no session's handler blocks or disturbs
another; every descriptor and every temporary file is given back; what was asked
ends.  `PROJECT.json` lists the hazards, line by line.

## Modules

### ProxyCache, AtomicCache, ProxyCacheProofs

`ProxyCache` is the disk cache.  Directories (`tmp`, `body`, `head`) map names to
inodes because write_cache hard-links the temporary file to the body; `data` is
what a file holds.  `ReceiveHeader` and `ReceiveBody` are the writes of READING;
`BeginWriteCache` to `UnlinkTmp` are the system calls of write_cache in their
order, one action each, because the process may be killed between any two of
them (`Restart`; files stay, session numbers start again) and each may fail
(`IOErrors`), the writes of the temporary file and of the header included: print's
result is not looked at, so what could not be stored counts as received.
`ReadCache` is existcache followed by read_cache and by what do_read_request sends:
`Dummy`, five bytes that stand for an empty body.  Since the program has one thread,
nothing else runs during write_cache: all other actions wait for `pc = "loop"`.

`AtomicCache` is what a reader is promised: a map from URLs to whole responses
that changes one entry at a time.  `CacheIsAtomic` says that the files implement
it, with `entry[u]` refined to `ReadCache(u)`.

Left out: mkdirp and directories, name collisions of url2fname, the log, writes
that store a part of what they are given (a write succeeds or stores nothing),
responses with status 304 or without a status (they open no file).

### HttpProxy, HttpProxyProofs, HttpRelayProofs

`HttpProxy` is the select loop with its sessions.  `sess[n]` is the hash of
session n under short names: `state`, `client`, `server`, `keep` (KEEP_ALIVE),
`kept` (KEEP_ALIVE_TIME > 0), `kahost` (KEEP_ALIVE_HOST and PORT), `host`
(SERVER_HOST and PORT), `nokeep` (SERVER_NOKEEPALIVE), `hdr`
(RESPONSE_HEADER_RECEIVED), `length`, `rcvd`, `buf` (how much of BUF is to be
written).  `rin`, `win`, `rout`, `wout`, `socknum` are the program's.  `todo` is
what is left of the copy %SESSION2 of this round; deleted sessions may still be
in it, sessions made in the round are not.  The ACCEPTING and STDIN sessions are
the members `Listen` and `Operator` of `todo`.

| action | code |
|---|---|
| `Select` | select and the copy of the table |
| `Accept`, `AcceptNothing` | ACCEPTING, do_accept |
| `OperatorVisit` | STDIN, "close N" |
| `ReadRequest` (with `Fetch`, `DoKeepClose`, `DoClose`) | READ_REQUEST on the client, do_read_request with do_connect |
| `IdleServer` | READ_REQUEST on the server |
| `WriteRequest` | CONNECTING |
| `ReadServer` (with `Received`), `ReadClient` | READING |
| `WriteServer`, `WriteClient` | WRITING_SERVER, WRITING_CLIENT |
| `NothingReady` | a visit that finds nothing ready |

Client sockets block, server sockets do not.  `cli[n].full` says that what was
written to a client and not read yet fills its buffers: select then does not report
it writable, until it reads (`ClientReads`) or closes.  A write that is longer than
the room takes until the client has read enough, and the whole program waits for
it; as one thread does everything, that wait is a late step, not a different one,
and the model does not show it.  What can be said of it is whether a write comes
after select found room for at least a byte: `ReadyWhenUsed` says so for the sockets a
handler tests in rout and wout.  The local answers test nothing: nothing is said of
them, and a client without room for one stops the program (see "Seen while modelling").

The world: clients connect, send a request, read what fills their buffers, send an
`Extra` (the line end some clients send after a POST), close; servers accept or refuse, answer in any
number of pieces, close at any time.  Data are counted in units; a response has
`HeaderUnits` units of header and a body.  A read returns any part of what has
arrived.  Requests are `fetch` (ask a server), `local` (a cache hit, or a URL not
worth fetching) or `bad`.  do_close_itr may start prefetch sessions
(`FindPrefetch`), which have no client.  The calls of die in do_accept, do_connect
(of a request or of a prefetch) and WRITING_SERVER make `alive` FALSE, and nothing
happens after that.

Left out: clients that pipeline or send a request before they have read the last
answer, responses to HEAD, partial writes, the other calls of die (a failed listen at
the start, a failed select, a Substitute that does not match) and other ends of the
program, status, refresh and eval commands, the log.
write_cache is the other module: as one visit of the loop contains the whole of
it and it touches no socket, the two meet only in `local` requests.

### SockBuf, AtomicReads, SockBufProofs

`SockBuf` is one SOCK of `sock.c`, the thread that calls the library, a thread that
may call sockcancel, and the peer.  A byte is its position in the stream, so order,
loss and repetition are visible; what it holds matters only where it ends a line
(`Ends`) or has the char value of EOF (`EofLike`).  `inbuf`, `inbufstart`,
`inbuflen`, `cancel` are the fields of SOCK; `outbuf` is a sequence whose length is
outbuflen; `call`, `running`, `wait`, `size`, `str` are the call under way, its place
in the poll loop, its size argument and the caller's buffer.

| action | code |
|---|---|
| `BeginInput`, `Flush`, `Write`, `Putc` | a call of sockgets/sockread, sockflush, sockwrite/sockputs/sockprintf, sockputc |
| `CheckCancel`, `SelectTimeout` | sockwaitread, sockwaitwrite |
| `FillInbuf`, `TakeByte`, `LineEof` | sockgetc inside sockgets: refill, a byte, EOF |
| `ReadBuffered`, `ReadSocket`, `ReadEof` | sockread |
| `SendBuffered`, `SendDirect`, `SendEnds` | the send loops of sockflush and sockwrite |

A send takes any part of what it is given, from sockflush as from sockwrite; `part`
and `again` are history: that the flush under way has sent a part, and where on the
wire its further sends went.  `Ended` is the `'\0'` that sockgets stores behind a line,
the byte `size + 1` of one that is as long as its size.

`AtomicReads` is what the caller of sockgets and sockread is promised: while a call is
under way nothing is taken from the stream; when it returns, the next bytes are, at once:
a line up to its end or the size, or the part of a line there is if the stream is over or
the call was cancelled, or (sockread) as many bytes as it says.  `ReadsAreAtomic` is the
refinement; it reads `base` for the bytes taken as long as a call runs.

sockgetc alone is `TakeByte` of a line of size one.  `Copied` is the two-part copy of
sockread with its missing advance.  `Distance` from inbufstart (`Offset`) stands for
the `%` of the refill.  Left out: opening, accepting and closing (sockclose drops what
outbuf still holds), signals that interrupt select or recv, a caller that goes on with
sockputc after EOF on a full buffer.

### PoolClient, PoolServer, ThreadPools, ThreadPoolsProofs

`PoolClient` is `tcppclientc.c`, `PoolServer` is `tcppserverc.c`; `ThreadPools`
composes them over the connections they share (`backlog`, `link`), as they are meant
to be run.  What a program does while it holds `thread_num_mutex` is one step, since
outside the lock the client only prints the count; the server's test of the limit
(`Refuse`, `Pass`) is outside the lock and a step of its own, apart from `Start`,
where the thread counts itself.  Behind the lock under which it is counted out a
thread still prints and returns (`Return`), while others may be created: the threads
that exist may be any number, those that have not been counted out are limited.
`Wait`, `WakeUp` and `Signalled` are
pthread_cond_wait, a wakeup without a signal, and pthread_cond_signal.  A failed
pthread_create is `CreateFails`: the client's count stays up (`clost`), the server's
connection stays open (`slost`).

Nobody handles SIGPIPE.  When the server has closed a connection before the client's
thread has made the last of its sends, the signal may end the whole client (`Killed`),
which leaves the server connections without a peer (`link[t] = "left"`); an answer into
such a connection, or getpeername of it, ends the server (`Dies`).  A send that comes
before the reset succeeds (`Send`).  Left out: die on a failed socket, accept or malloc,
which ends the program.

### FdPass, FdPassProofs

`FdPass` is `srvtest.c`: the parent (`parent`, `csock`) accepts and forks; an active
process per connection (`active`) echoes lines and, on one that begins with '!', writes
`[ACT pass]`, sends the descriptor into the socket pair (`pair`) and exits; the standby
process (`standby`, `fd`) receives descriptors, writes `[SBY take over]` and closes.  A
connection is open as long as anyone has its descriptor (`Holds`).  `zombies`, `sigchld`
and `handling` are the children that can be waited for, the pending signal (one, however
many children exited) and the handler.  The signal also comes when a child is stopped or
continued (`Stops`, as often as `MaxStops`), because it is asked for without
SA_NOCLDSTOP; wait then blocks the parent in its handler until some child exits.  The
active processes inherit the listening socket (`Listening`): connections are made, and
wait, as long as the parent or one of them lives.

| action | code |
|---|---|
| `Accept`, `Fork`, `CloseCopy`, `ParentExits` | the parent's loop; a failed accept or fork |
| `ChildEnds` (in the steps in which one ends), `Stops` | what raises SIGCHLD |
| `Signal`, `Wait` | sigchld() interrupts the parent; wait() returns |
| `Echo`, `AnnouncePass`, `SendFd`, `SendFdFails`, `ActiveExits` | the active process |
| `RecvFd`, `TakeOver`, `CloseFd`, `StandbyExits`, `RecvFdFails` | the standby process |
| `Connect`, `Say`, `Leave` | clients |

### WwGet, HttpServerC, Downloads, DownloadsProofs

`WwGet` is `wwgetc2.c`, and for the clients in `Copying` `wwgetc.c`.  A byte is a pair of
an identity, which shows loss and repetition, and a class (`cr`, `lf` or other), which
is all that strstr looks at.  `resp[c]` is get_url's mode and its three buffers; `After`
is its switch, with `InLine`, `InHead` and `InBody` for the labels.  They return sets
where the code searches uninitialized memory.  `Shift` is the memmove that leaves `n` as
it was.  The copy into the line is bounded by the whole array wherever in it the copy
starts: a packet for which it goes beyond (`Overruns`) leads to the state "undefined",
after which nothing is said of that client.  `HttpServerC` is `httpserverc.c`; `Write`
writes what the stream's buffer holds, `WriteFails` is SIGPIPE, `FdopenFails` the exit
when there is no stream for a connection.  `Downloads` lets clients fetch from such servers and from others
that send header fields (`Fields`).

The body that wwgetc2 prints is never exactly that of the response: up to
`n3 + 2` bytes at the end of a packet are counted twice.  `NothingLost` says what holds
all the same.  It leaves out three cases the code gets wrong: a status line whose CR and
LF come in two packets, a line that overran its array (`Overruns`), and servers
without header fields (httpserverc itself), where the line end that the status line took
is missing from the blank line and the end of the head is not found.

### Urls, LinkList, Links, LinkListProofs

`Urls` holds `url.c`, the path functions of `common.c` and combine_url as operators.  A
string is a sequence of delimiters and words (`Strings`); `Words`, `Ports`, the `Digits`
that printf writes for a port and `LowerCase` are constants, and `UrlConstants` is what is
assumed of them: words and delimiters differ, different ports have different digits, a
letter is made lower once.  `ParseUrl` returns a record, `NotParsed` for -1.  `Cleanpath`
folds `Put` over the pieces of a path and returns the stack, with the count below zero and
whether a piece was stored outside the array; `CombineUrl` joins the stack, or is
`Undefined` then, for a relative link on a mailto page, whose path parse_url does not
write, and for a mailto link, whose unwritten path is copied whatever its length.
cleanpath has `MaxPieces` arrays of 256 bytes (100 in the code) and no test of their
number or of a name's length (`LongWords`): beyond them, too, a piece is stored outside.
All other strings are taken to fit in the arrays they are copied to.  Words side by side
are one word of the program, so "." and ".." do not stand side by side (`DotsApart`).  `LinkList` is the loop of `htmlls.c` and `htmlls2.c` over the tags of a page, one
tag a step; `in.prog` tells the two apart, which differ only in `Emit`: htmlls stores at
most `MaxLinks` links, htmlls2 prints those that `refurl` asks for, with combine_url's
result.  `Links` puts the two together.

`LinksMatch` has a definition of matching without a stack (`Matches`) to compare with and
names the URL each link has: as written in htmlls, and in htmlls2 what combine_url made of
it or, when it made nothing, what the link before was printed with (`Shown`; the URLs are
compared when all links are printed, without `refurl`).
`Resolves` has one of relative paths (`Reduced`): a name leads one deeper, ".." one back
(`Depth`), and of the names at a depth it is the last one that counts.

## Runs

| run | question | bounds |
|---|---|---|
| `cache` | what do readers get when the process is killed anywhere but after the header was written, and link, open of the header or its write fail? | 2 sessions, 2 URLs, 2 versions of one unit, 4 inodes (all that can be named at once), 1 restart |
| `cache_killed` | and is an announced length kept when it may be killed there too? Violated: see Findings | as above |
| `http_loop` | do sessions that share descriptors within a round disturb each other? | 2 sessions, 3 descriptors, so that one is always used again soon; 1 prefetch session at a time; backlog 1; responses without body, and answers from the cache |
| `http_relay` | is a response relayed whole, from the right server, and does every request end? | 1 session, 2 hosts, 5 requests, 4 shapes of response with up to 2 units of body, 1 unread item per client |
| `http_split_header` | and when a header arrives in two reads? Violated: see Findings | as above with `HeaderUnits = 2` |
| `sock_buf` | is a byte ever lost, repeated or out of place, is each call one step for its caller, and do waiting calls return? | ring of 3, sizes 2 and 4 (below and above it), 6 bytes in, 4 out, one line end, one byte like EOF |
| `sock_order` | do bytes leave the two buffers in the order in which they came? Violated in two ways: see Findings | as above |
| `thread_pools` | does the client keep its limit, does a wakeup get lost, does anything get stuck, with programs that may be killed? | client limit of 2 threads with 4 to use, server limit of 1 with 2, 1 failed pthread_create in each |
| `fd_pass` | who speaks on a passed connection, has every wait its child, is every descriptor closed, every passed connection taken over? | 2 connections, 2 lines in all, 2 stops or continues of a child, room for 1 descriptor in the socket pair |
| `downloads` | what do wwgetc2 and wwgetc print, and does every download end? | 2 clients, one of each program, 2 servers, 3 downloads, responses of 6 and 13 bytes, written 7 bytes at a time, read in any parts, arrays of 9, 14 and 13 bytes |
| `links` | which links are listed, and how are they resolved? | all pages of up to 5 tags of 2 names for both programs, a stack of 3, a list of 2; links of up to 5 parts on 4 bases, paths of 4 pieces; 720 URLs |
| `url_port` | is build_url the inverse of parse_url? Violated: see Findings | the http URLs among these |

Two sessions are enough for `http_loop` because a handler touches its own session,
its own descriptors and fresh ones: a disturbance needs one session that gives a
descriptor up and one that takes it.  One session is enough for `http_relay`
because `http_loop` shows sessions independent.  Two body units make "header only",
"header and part", "part" and "rest" all different reads; two hosts make a kept
connection right or wrong.  Nothing counts without bound: KEEP_ALIVE_TIME is kept
as a test against 0, and session numbers are used again only when the number is
out of the round's copy, which for the loop is the same as a new number.

A ring of 3 with sizes 2 and 4 makes refills start at every slot and lines and reads
end before, at and behind the end of inbuf.  In `thread_pools` there are two threads more
than the client's limit, so that a broken limit would show and threads that are counted out
can outlive the start of others; the failed pthread_creates are as many as use up the
client's limit, the exception `KeepsStarting` names.

In `fd_pass` two connections and room for one descriptor make the second pass wait, and
two exits merge into one signal; two lines are a pass on each connection, or a pass and a line
behind it; two stops are a child that is stopped and continued, or two children.  In
`downloads` a packet can end at every byte of line and head, a response needs two writes,
and each array is as small as the responses allow, so that a copy can reach its end.  In `links` five tags do not fit on a stack of three.

Fairness of `sock_buf`: the steps of a thread inside a reading call (`WF`); select
waits a second at most.  Nothing is assumed of the peer, of the other thread, or of
sends, which may block for ever.  Fairness of `thread_pools`: the system schedules each
main loop and each thread (`WF`) of a program that is alive; no wakeup without a signal
and no success of connect or pthread_create is assumed.  Fairness of `fd_pass` and `downloads`: the system schedules every process (`WF` of
`ParentStep`, `StandbyStep`, `ActiveStep`, of `Fetch` and `Serve`); no failure has to
happen, and of the clients of `fd_pass` nothing is assumed.  Fairness of `http_relay`: the loop is a `while(1)` that select lets go on when
something is ready (`WF` of `Loop`); a request is read in finitely many parts
(`SF` of `ReadsWhole`); a server's connect, its answer and the close after an
answer without Keep-Alive eventually happen (`WF`); and a client reads what was
written to it (`WF` of `ClientReads`), since one that never does holds its session, and
the code has no timeout for it.  Nothing else is assumed of clients.  The liveness
properties hold up to `~alive`: the calls of die in WRITING_SERVER, do_accept and
do_connect end the program.

## Proofs

`ProxyCacheProofs` proves, for every number of sessions, URLs, versions, inodes and
restarts, under `SafeFaults`:

- `CacheInvariant`: the inductive invariant `CacheInv`;
- `CacheTypes`, `CacheNoStrayTmp`, `CacheEntriesIntact`, `CacheWritesUnread`: the
  invariants of the run `cache`;
- `CacheRefinesAtomic`: every step of the files is a step of `AtomicCache` or
  leaves every answer alone.

`SafeFaults` names the faults: no kill between the writing of a header and the
unlinking of its temporary file; only open, link and the header's write may fail; if the process may
be killed, opening tmp/N does not fail.  Each exclusion is needed: without it TLC
finds an entry that is not intact (the first one is the run `cache_killed`).  A write of
the header may fail too, one of the body (`writetmp`) may not: what it loses counts as
received, and a part is stored as the whole.

Why `EntryIntact` is not inductive: it says nothing of the temporary files.  A body
is a second name of a temporary file, and it stays as it is only because no
session writes to that name.  `AliasInv` says that a readable body has no temporary
name outside the moment after its header was written; `SessionInv` that a
temporary file holds exactly what its session has received; `PhaseInv` how far
write_cache has got and that it never runs with a body of the wrong size;
`NamesInv` that files and names agree, so that a new temporary file is not an old
body.  `EntryInv` then follows step by step: only `WriteHead` makes an entry
readable, and at that point `PhaseInv` and `SessionInv` give it its contents.

`SockBufProofs` proves, for every size of the buffers and every stream, `SockTypes`,
`SockRing`, `SockLines`, `SockReadsAtomic` and, for sends of any part, `SockWire`
(`WireInPlace`).
`RingInOrder` is inductive with the types: `DistanceMoves` is the arithmetic of a step
around the ring, `RingTaken` uses it for sockgetc and sockread alike.  `LineInOrder` follows
because the byte at inbufstart is the next of the stream (`RingHolds`).  `SockReadsAtomic`
goes through the steps: those within a call are not seen (`NotSeen`), and the three in which
a call returns are steps of `AtomicReads` (`LineSeen`, `PartSeen`, `ReadSeen`) because the
ring is empty when the end of the stream is reported and, in sockread, because nothing was
taken before (`BeforeRead`).  `WireInOrder` does not hold, because sockflush goes on at the
first byte again when a send has taken a part (the run `sock_order`); `WireInPlace` says how
far that goes: what is out of place are the further sends of that flush (`again`), which
repeat bytes from before, and everything ahead of them and behind is in its place.  It is not
inductive: `OutputInLine` adds what is still in outbuf and in sockwrite's hands, and `Stopped`
covers the calls that give up: they leave a gap, but the cancel flag and a broken connection
stay, so nothing is sent after it.

`ThreadPoolsProofs` proves, for every number of threads, limits and failures,
`PoolTypes`, `NoLostWakeup`, `ClientKeepsLimit` and `ConnectionsHaveOneOwner`.  The limit is
one of the threads that have not counted themselves out, and it is not inductive:
`ClientCount` says that the count is that of these threads, of the one about to be created
and of those that could not be created; `ServerCount` is needed for the
types (the server's count never goes below zero).  `OneOwner` counts the places where the
server has a connection: the backlog, the main loop, a thread, the connections left by a
failed pthread_create.  The count is not inductive; `OnePlace` says that no two of these
places hold the same connection, `InHand` that one does as long as the connection is open
and that a thread of the client that has yet to connect left nothing behind when its number
was used before, and the count follows from both.  A client that is killed hangs up, which
moves no connection: the server's ends stay where they are.

`FdPassProofs` proves, for any number of connections, `FdTypes`, `OneVoice` and
`HandlerWaits` (`WaitsAccounted`).  `PassThenTakeOver` is not inductive: the invariant adds that a
descriptor in the socket pair, or in the standby process's hands, is of a connection on
which the pass was the last thing written and whose active process reads no more, and
that it is there once.  `WaitsAccounted` says that the pending signal and the run of the handler are no more than
the children that can be waited for and the stops so far: without a stop no wait blocks, and
each stop makes the parent wait for at most one child in advance.

`DownloadsProofs` proves, for every number of clients and servers and every response,
`DownTypes` (`TypeOK` of `Downloads`) and `BodiesAreWhole`.  The first lemmas say what the parser does
with one packet (`InLineGrows`, `InHeadGrows`, `InBodyGrows`).  What `memmove` takes away is
a natural number only because neither the line nor the head read so far contains its end
(`WellFormed`), so that an occurrence ends in the new packet (`FoundInNew`).

`BodiesAreWhole` (`NothingLost`) assumes of a response with header fields what `Fits` says
(`FieldsConstants`): its status line ends before its blank line, both come before the
buffers for line and head are full, and the response fits in the buffer for the body.  The
invariant `LossInv` has two parts.  `Transfer`: what is on the wire and what the server has
yet to write are the next parts of the response.  `Parsed`: the line is what was read; the
head ends with what was read last, from some place before the blank line on; the body holds
what was read of the real one at increasing places.  A memmove without a shorter length
leaves bytes twice, but outside that last part, so the blank line is found with its last
byte.  The exceptions are a status line cut between CR and LF (`CutIn`), when one byte stands
twice in what was read last, and a packet for which the copy into the line goes beyond the
array (`Overruns`), after which the client is "undefined".

`LinkListProofs` proves, for every page and every size of stack and list:

- `LinksNest`: its invariant orders the positions on the stack and says that a start tag on
  it lies within no listed link that ended before and that a listed link lies on one side
  of it.
- `LinksAreMatched` (`LinksMatch`): the invariant `MatchInv` says that the stack holds
  exactly the start tags that the definition without a stack has open, and the list exactly
  the links that end before the present tag, in htmlls up to the room there is.  `UrlsShown`
adds that what the last link was printed with is what `Shown` names.  All hold
  if the page's start tags fit on the stack, which is a count: what is on the stack is a
  part of them, and the tag at hand is one more.  `Matches` is defined by recursion over the
  page; `MatchesIs` solves the recursion by looking at the least tag at which it would fail.
- `BuildingInverts` (`BuildInverts`), for all words, ports and strings with
  `UrlConstants`, if the URLs of the inputs are strings (`LinksConstants`).  `ParsedIs` says
  what parse_url returns: no delimiter in a part where it would be found again, a host in
  lower case, a port that is not 0.  `PartsAround` says that what is put together around a
  character is cut there again, by strchr if the first part lacks the character and by
  strrchr if the second does; with it each parser undoes its writer (`UserpassParses`,
  `HostportParses`, `HostpartParses`, `WebUrlParses`, `MailUrlParses`).  A port that is
  written without a colon becomes part of the host, and the default takes its place.
- `LinksAreResolved` (`Resolves`), from the same assumptions and the same for the links.  A
  fold is defined by recursion over the sets of positions; `FoldExists` shows by induction
  that the recursion has a solution if the operator stays in a set, which `CutIs` and
  `PutIs` show of the two folds of cleanpath, and `Counted` that the solution goes through
  the sequence in order.  The invariant of the second fold is `Holds`: the stack is as high
  as the path is deep, and at each depth lies the last name of that depth (`PutHolds`); on
  a plain path the count never falls below one, so no piece is stored outside the array.

`HttpProxyProofs` proves, for any number of sessions, descriptors, hosts and requests and
any responses, `ProxyTypes`, `SocketsNeverLeak`, `PollsAsNeeded`, `AlwaysRightServer` and
`ReadinessLasts`.  The sets of session numbers and of descriptors are finite
(`ProxyConstants`): SOCKETNUM is a cardinality.  None of the properties is inductive
alone; the invariant is `LoopInv`:

- `Tied` relates the session table, the masks and the server connections: each session has
  the sockets its state needs and its server connection leads to its host, a session that
  waits for a request has one only from a request before, a descriptor has one owner, and
  a mask holds a socket exactly if its owner waits for it.  It is stated of values, not of
  the variables, because do_close and do_keep_close hand their intermediate tables to
  findprefetch, which starts any number of sessions on them (`FindPrefetch`).
- `Quiet`: a server has not sent more than its response, nor was more read than it sent.
- `Asked`: a busy session names the host its client asked for.
- `StillReady`: a socket of a session this round has yet to visit is ready for what select
  said.  It survives the other sessions' handlers because `LeavesOthers` holds of each:
  a handler touches its own session and numbers that are free, and a number still in
  `todo` is not free.  This is where the copy of the table matters.

`HttpRelayProofs` adds `RelayInv` and proves `ReuseIsClean`, and, for `HeaderUnits = 1`,
`KeptWhenWhole` and `RelaysInOrder`.  `RelayInv` says for each session what the read
position of its server connection is (header and counted body), that CONTENT_LENGTH is that
of the response while the session may be kept, and that what the client got, with BUF, is what
was read.  The last part needs the header in one piece, as the run `http_split_header`
shows; the first does not, so `CleanReuse` is proved for every splitting.  A request written
to a connection that the server had closed is a case of its own (`Refused`): the session
reads, but there is no response to count.

Only model-checked: liveness, which is out of the prover's reach (`EveryRequestEnds`,
`GoneClientsDropped`, `KeepsStarting`, `SessionsEnd`, `ServerRecovers`, `ReadsEnd`,
`HangsUp`, `PassedIsTakenOver`, `DownloadsEnd`).

## Findings

- `cache_killed`: killed between the header and unlink(tmp/N), the proxy leaves a
  readable body under a second name; the N-th session of the next process opens
  that name with `>` and truncates the stored body in place.
- `sock_order`: after a send that takes a part of outbuf, sockflush sends its first bytes
  again, and the last ones never (`sock.c:304`); and when the buffered bytes go around the
  end of inbuf, sockread copies the second part over the first (`sock.c:420`), which its
  commented-out slow version does not.  TLC reports the first, and with `MaxOut = 0` in
  `MCSockOrder.cfg` the second.
- `http_split_header`: the part of a response header that arrives before its end is
  never sent to the client.
- `url_port`: `url.h:31` calls build_url the inverse of parse_url, but build_url writes a
  port that is not the default without the colon (`url.c:109`); `BuildInverts` says for which
  URLs the comment holds.

Seen while modelling; the models behave so, and the properties say how far it goes:

- Answers from the cache, "Moved" and error pages are written, header and body, to a blocking
  client that select reported readable only (`httpproxy.pl:817`, 883-910, 926): one that does
  not read stops the whole proxy.
- On a full disk a part of a body is stored as the whole: the result of the print is not
  looked at, and the length that is compared is that of what was received
  (`httpproxy.pl:1298`, 463; `IOErrors = {"writetmp"}` violates `EntryIntact`).  An empty
  entry is answered with the five bytes "dummy" (`httpproxy.pl:907`).
- sockgets stores a `'\0'` behind a line as long as the size it was given, one byte behind
  the buffer of callers that give it the size of their buffer as they would to fgets
  (`sock.c:404`, `tcppclientc.c:48`); a first byte 0xFF makes it return NULL in the middle of
  the stream (`sock.c:381`).
- The server's test of its limit is not under the lock, and a thread counts itself only when
  it runs: connections accepted before that all pass (`tcppserverc.c:92`, 24).
- The client's threads that are counted out still print and return: MAX_THREAD + 2 and more
  may exist (`tcppclientc.c:82-84`).
- SIGPIPE, which nobody handles, kills the client when the server refuses it in the middle
  of its sends (`tcppclientc.c:44`), and the server when its peer is gone
  (`tcppserverc.c:50`).
- After a stop or continue of a child the parent of `srvtest.c` waits for a child that has
  not exited, and accepts nobody until then; it stays one wait ahead (`srvtest.c:105`, 123).
  After its exit(1) the connections that wait are held by the active processes, which inherit
  the listening socket and never accept.
- When a status line comes in two packets and the second is long, wwgetc2 writes behind the
  array for it (`wwgetc2.c:260`).
- cleanpath stores a path of more than 100 pieces, or a piece of 256 bytes, outside its
  arrays (`common.c:44`, 57).
- cleanpath lets "." take the piece before it away (`common.c:48`) and its count may go
  below zero; `..` may take the root away, so that path and host are joined.
- parse_url leaves the path of a mailto URL as it was, and combine_url reads it, never
  written, for a relative link on such a page and for a mailto link (`url.c:80`,
  `htmlls2.c:11-29`).
- Links beyond the 1000th open start tag are lost or get another's text
  (`htmlls2.c:115`); a link that cannot be resolved is printed with the URL of the one
  before (`htmlls2.c:145`).
- The standby process of `srvtest.c` exits at the first client that is gone when it takes
  over, and nobody starts it again.

## Not modelled

`wwgetcp.pl` and `wwgetcploop.pl` (ranges over parallel connections), the relays
(`tcpmproxy*.pl`, `tcpproxy*.pl`, `throu.pl`, `irctelnet.pl`), `wwget_proxy.pl` and the
ICAP servers would each be a model of their own; so would opening and closing in
`sock.c`.  Of `httpproxy.pl`, HEAD, pipelining, the choice of links to prefetch and the
URL functions are left out, and the composition of `HttpProxy` with `AtomicCache`.  The
rest are test programs that make one system call after another, keep no state and have
nothing to interleave with, code for Windows, and vendored code; `PROJECT.json` lists
them with the reasons.

What would come next: the composition of `HttpProxy` with `AtomicCache`, then the parallel
downloader.
