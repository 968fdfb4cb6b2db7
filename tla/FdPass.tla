------------------------------- MODULE FdPass -------------------------------
(***************************************************************************)
(* srvtest.c: a server that forks an active process for each connection,   *)
(* which echoes what the client sends and, on a line that begins with '!', *)
(* passes the descriptor over a socket pair to the one standby process.    *)
(* A connection stays open as long as any process, or a message in the     *)
(* socket pair, holds its descriptor.                                      *)
(***************************************************************************)
EXTENDS Naturals, Sequences, SequencesExt, FiniteSets

CONSTANTS
  Conns,       \* connections; each has its own client
  MaxLines,    \* bound: lines that the clients send
  MaxStops,    \* bound: how often a child is stopped or continued
  PairSize,    \* descriptors that fit into the socket pair
  Nobody       \* no connection

ASSUME FdPassConstants ==
  /\ IsFiniteSet(Conns) /\ Nobody \notin Conns
  /\ MaxLines \in Nat /\ MaxStops \in Nat /\ PairSize \in Nat \ {0}

\* A line by its first character: read as "\n" or "\r", as '!', or as another.
Lines == {"blank", "bang", "text"}

VARIABLES
  link,        \* link[c]: "none", "up", or "gone" when the client has closed it
  said,        \* lines the clients have sent so far
  unread,      \* unread[c]: the client's lines that the server has not read
  heard,       \* heard[c]: what was written to the client
  backlog,     \* connections not yet accepted
  parent,      \* "accept", "fork", "close" or "exited"
  csock,       \* the connection the parent has a descriptor of
  active,      \* active[c]: "none", "read", "pass", "exit" or "exited"
  pair,        \* connections whose descriptors are on their way in fds
  standby,     \* "recv", "write", "close" or "exited"
  fd,          \* the connection the standby process has a descriptor of
  zombies,     \* children that have exited and are not waited for
  sigchld,     \* a SIGCHLD is pending; a second one is lost in it
  handling,    \* the parent is in sigchld()
  stops        \* how often a child was stopped or continued

client == <<link, said>>
vars == <<link, said, unread, heard, backlog, parent, csock, active, pair, standby,
          fd, zombies, sigchld, handling, stops>>

Init ==
  /\ link = [c \in Conns |-> "none"] /\ said = 0
  /\ unread = [c \in Conns |-> << >>] /\ heard = [c \in Conns |-> << >>]
  /\ backlog = {} /\ parent = "accept" /\ csock = Nobody
  /\ active = [c \in Conns |-> "none"] /\ pair = << >>
  /\ standby = "recv" /\ fd = Nobody
  /\ zombies = 0 /\ sigchld = FALSE /\ handling = FALSE /\ stops = 0

Running(c) == active[c] \in {"read", "pass", "exit"}

-----------------------------------------------------------------------------
(* The clients *)

\* The active processes have inherited the listening socket, and nobody closes it: it
\* takes connections as long as the parent or one of them lives.
Listening == parent # "exited" \/ \E c \in Conns : Running(c)

Connect(c) ==
  /\ link[c] = "none" /\ Listening
  /\ link' = [link EXCEPT ![c] = "up"] /\ backlog' = backlog \cup {c}
  /\ UNCHANGED <<said, unread, heard, parent, csock, active, pair, standby, fd,
                 zombies, sigchld, handling, stops>>

Say(c) ==
  /\ link[c] = "up" /\ said < MaxLines
  /\ said' = said + 1
  /\ \E l \in Lines : unread' = [unread EXCEPT ![c] = Append(@, l)]
  /\ UNCHANGED <<link, heard, backlog, parent, csock, active, pair, standby, fd,
                 zombies, sigchld, handling, stops>>

Leave(c) ==
  /\ link[c] = "up" /\ link' = [link EXCEPT ![c] = "gone"]
  /\ UNCHANGED <<said, unread, heard, backlog, parent, csock, active, pair, standby,
                 fd, zombies, sigchld, handling, stops>>

-----------------------------------------------------------------------------
(* The parent *)

\* What the end of a child does to the parent.
ChildEnds == zombies' = zombies + 1 /\ sigchld' = TRUE

Accept ==
  /\ parent = "accept" /\ ~handling
  /\ \E c \in backlog : csock' = c /\ backlog' = backlog \ {c}
  /\ parent' = "fork"
  /\ UNCHANGED <<client, unread, heard, active, pair, standby, fd, zombies, sigchld,
                 handling, stops>>

Fork ==
  /\ parent = "fork" /\ ~handling
  /\ active' = [active EXCEPT ![csock] = "read"] /\ parent' = "close"
  /\ UNCHANGED <<client, unread, heard, backlog, csock, pair, standby, fd, zombies,
                 sigchld, handling, stops>>

\* There is no SA_NOCLDSTOP: a child that is stopped or continued raises the signal too.
\* One that is stopped goes on in the end.
Stops ==
  /\ stops < MaxStops /\ stops' = stops + 1
  /\ standby # "exited" \/ \E c \in Conns : Running(c)
  /\ sigchld' = TRUE
  /\ UNCHANGED <<client, unread, heard, backlog, parent, csock, active, pair, standby,
                 fd, zombies, handling>>

\* accept or fork fails: exit(1).  The children live on, and those that are active keep
\* the connections that wait, though nobody accepts them any more.
ParentExits ==
  /\ parent \in {"accept", "fork"} /\ ~handling
  /\ parent' = "exited" /\ csock' = Nobody
  /\ backlog' = IF \E c \in Conns : Running(c) THEN backlog ELSE {}
  /\ UNCHANGED <<client, unread, heard, active, pair, standby, fd, zombies, sigchld,
                 handling, stops>>

\* Mutant: the parent keeps its descriptor.
KeepsCopy ==
  /\ parent = "close" /\ ~handling
  /\ parent' = "accept"
  /\ UNCHANGED <<client, unread, heard, backlog, csock, active, pair, standby, fd,
                 zombies, sigchld, handling, stops>>

CloseCopy ==
  /\ parent = "close" /\ ~handling
  /\ csock' = Nobody /\ parent' = "accept"
  /\ UNCHANGED <<client, unread, heard, backlog, active, pair, standby, fd, zombies,
                 sigchld, handling, stops>>

\* The signal interrupts the parent wherever it is; accept and fork go on after it.
Signal ==
  /\ sigchld /\ ~handling /\ parent # "exited"
  /\ handling' = TRUE /\ sigchld' = FALSE
  /\ UNCHANGED <<client, unread, heard, backlog, parent, csock, active, pair, standby,
                 fd, zombies, stops>>

\* Mutant: the handler waits as often as there are children, not once.
WaitsForAll ==
  /\ handling /\ zombies > 0
  /\ zombies' = zombies - 1
  /\ handling' = (\E c \in Conns : Running(c))
  /\ UNCHANGED <<client, unread, heard, backlog, parent, csock, active, pair, standby,
                 fd, sigchld, stops>>

\* wait(&st) returns one child, and waits for one when none has exited.
Wait ==
  /\ handling /\ zombies > 0
  /\ zombies' = zombies - 1 /\ handling' = FALSE
  /\ UNCHANGED <<client, unread, heard, backlog, parent, csock, active, pair, standby,
                 fd, sigchld, stops>>

-----------------------------------------------------------------------------
(* The active process of a connection *)

\* One read returns any number of the lines that have arrived; only the first character
\* of them is looked at.
Reads(c, line) ==
  /\ active[c] = "read" /\ unread[c] # << >> /\ Head(unread[c]) = line
  /\ \E n \in 1 .. Len(unread[c]) :
       unread' = [unread EXCEPT ![c] = SubSeq(@, n + 1, Len(@))]

Tells(c, what) == heard' = [heard EXCEPT ![c] = Append(@, what)]

Echo(c) ==
  /\ Reads(c, "text") /\ Tells(c, "echo")
  /\ UNCHANGED <<client, backlog, parent, csock, active, pair, standby, fd, zombies,
                 sigchld, handling, stops>>

\* Mutant: the process goes on reading after it has announced the pass.
PassAndRead(c) ==
  /\ Reads(c, "bang") /\ Tells(c, "pass") /\ Len(pair) < PairSize
  /\ pair' = Append(pair, c)
  /\ UNCHANGED <<client, backlog, parent, csock, active, standby, fd, zombies, sigchld,
                 handling, stops>>

AnnouncePass(c) ==
  /\ Reads(c, "bang") /\ Tells(c, "pass")
  /\ active' = [active EXCEPT ![c] = "pass"]
  /\ UNCHANGED <<client, backlog, parent, csock, pair, standby, fd, zombies, sigchld,
                 handling, stops>>

\* The socket pair is blocking: sendmsg waits while it is full.  It cannot break, for
\* the sender itself holds both ends.
SendFd(c) ==
  /\ active[c] = "pass" /\ Len(pair) < PairSize
  /\ pair' = Append(pair, c) /\ active' = [active EXCEPT ![c] = "exit"]
  /\ UNCHANGED <<client, unread, heard, backlog, parent, csock, standby, fd, zombies,
                 sigchld, handling, stops>>

\* The last process to have the listening socket takes the connections that wait along.
Exits(c) ==
  /\ active' = [active EXCEPT ![c] = "exited"] /\ ChildEnds
  /\ backlog' = IF parent = "exited" /\ \A d \in Conns \ {c} : ~Running(d) THEN {} ELSE backlog
  /\ UNCHANGED <<client, heard, parent, csock, pair, standby, fd, handling, stops>>

\* After the pass; a blank line, the end of the stream or a failed read, after which
\* the loop falls through into `case -1`; a write to a client that is gone.
ActiveExits(c) ==
  \/ active[c] = "exit" /\ UNCHANGED unread /\ Exits(c)
  \/ Reads(c, "blank") /\ Exits(c)
  \/ /\ active[c] = "read" /\ link[c] = "gone"
     /\ unread' = [unread EXCEPT ![c] = << >>] /\ Exits(c)

SendFdFails(c) == active[c] = "pass" /\ UNCHANGED unread /\ Exits(c)

-----------------------------------------------------------------------------
(* The standby process *)

\* Mutant: the process takes another descriptor before it has served the first.
RecvsAhead ==
  /\ standby \in {"recv", "write"} /\ pair # << >>
  /\ fd' = Head(pair) /\ pair' = Tail(pair) /\ standby' = "write"
  /\ UNCHANGED <<client, unread, heard, backlog, parent, csock, active, zombies,
                 sigchld, handling, stops>>

RecvFd ==
  /\ standby = "recv" /\ pair # << >>
  /\ fd' = Head(pair) /\ pair' = Tail(pair) /\ standby' = "write"
  /\ UNCHANGED <<client, unread, heard, backlog, parent, csock, active, zombies,
                 sigchld, handling, stops>>

TakeOver ==
  /\ standby = "write" /\ Tells(fd, "takeover") /\ standby' = "close"
  /\ UNCHANGED <<client, unread, backlog, parent, csock, active, pair, fd, zombies,
                 sigchld, handling, stops>>

\* Mutant: the descriptor is not closed after the message.
KeepsFd ==
  /\ standby = "close"
  /\ standby' = "recv"
  /\ UNCHANGED <<client, unread, heard, backlog, parent, csock, active, pair, fd,
                 zombies, sigchld, handling, stops>>

CloseFd ==
  /\ standby = "close"
  /\ fd' = Nobody /\ standby' = "recv"
  /\ UNCHANGED <<client, unread, heard, backlog, parent, csock, active, pair, zombies,
                 sigchld, handling, stops>>

StandbyEnds ==
  /\ standby' = "exited" /\ fd' = Nobody /\ ChildEnds
  /\ UNCHANGED <<client, unread, heard, backlog, parent, csock, active, pair, handling, stops>>

\* The write fails because the client is gone, or recvmsg finds the socket pair closed
\* by everybody who could send: exit(0).
StandbyExits ==
  /\ \/ standby = "write" /\ link[fd] = "gone"
     \/ standby = "recv" /\ pair = << >> /\ parent = "exited" /\ \A c \in Conns : ~Running(c)
  /\ StandbyEnds

\* recvmsg may refuse the message header, of which recvfd leaves the name uninitialized.
RecvFdFails == standby = "recv" /\ StandbyEnds

-----------------------------------------------------------------------------
ParentStep  == Accept \/ Fork \/ CloseCopy \/ Signal \/ Wait
ActiveStep(c) == Echo(c) \/ AnnouncePass(c) \/ SendFd(c) \/ ActiveExits(c)
StandbyStep == RecvFd \/ TakeOver \/ CloseFd \/ StandbyExits

Next ==
  \/ \E c \in Conns : Connect(c) \/ Say(c) \/ Leave(c) \/ ActiveStep(c) \/ SendFdFails(c)
  \/ ParentStep \/ ParentExits \/ Stops \/ StandbyStep \/ RecvFdFails

Spec == Init /\ [][Next]_vars

\* The system schedules every process; nothing is assumed of the clients, and no call
\* is assumed to fail.
Fairness ==
  /\ WF_vars(ParentStep) /\ WF_vars(StandbyStep)
  /\ \A c \in Conns : WF_vars(ActiveStep(c))

FairSpec == Spec /\ Fairness

-----------------------------------------------------------------------------
(* Properties *)

\* Every variable has a value of its kind; the parent has a descriptor exactly while it
\* forks and closes, the standby process while it writes and closes.
TypeOK ==
  /\ link \in [Conns -> {"none", "up", "gone"}] /\ said \in 0 .. MaxLines
  /\ unread \in [Conns -> Seq(Lines)]
  /\ heard \in [Conns -> Seq({"echo", "pass", "takeover"})]
  /\ backlog \subseteq Conns /\ pair \in Seq(Conns)
  /\ parent \in {"accept", "fork", "close", "exited"} /\ csock \in Conns \cup {Nobody}
  /\ active \in [Conns -> {"none", "read", "pass", "exit", "exited"}]
  /\ standby \in {"recv", "write", "close", "exited"} /\ fd \in Conns \cup {Nobody}
  /\ zombies \in Nat /\ stops \in 0 .. MaxStops /\ sigchld \in BOOLEAN /\ handling \in BOOLEAN
  /\ parent \in {"fork", "close"} <=> csock # Nobody
  /\ standby \in {"write", "close"} <=> fd # Nobody

\* What a client hears: echoes, then at most one announcement of the pass, then at most
\* one line of the standby process; so the active process, which shares the connection
\* with the standby process for a while, is silent from the announcement on
\* (srvtest.c:188-213 against 129-143).
PassThenTakeOver ==
  \A c \in Conns : \A i \in 1 .. Len(heard[c]) :
    /\ heard[c][i] = "pass" =>
         i = Len(heard[c]) \/ (i + 1 = Len(heard[c]) /\ heard[c][i+1] = "takeover")
    /\ heard[c][i] = "takeover" => i = Len(heard[c]) /\ i > 1 /\ heard[c][i-1] = "pass"

\* Every run of the signal handler, the pending one too, has an exited child for its wait
\* or goes back to a child that was stopped or continued: as long as none is, the parent
\* never stops accepting in wait(), although one SIGCHLD may stand for several children,
\* and each that is makes it wait for at most one child in advance (srvtest.c:102-107, 123).
WaitsAccounted ==
  (IF sigchld THEN 1 ELSE 0) + (IF handling THEN 1 ELSE 0) <= zombies + stops

Holds(c) == c \in backlog \/ csock = c \/ Running(c) \/ c \in Range(pair) \/ fd = c

\* A connection whose client has gone is closed by everyone, unless the standby process
\* has exited, when it may stay in the socket pair for good; the parent has exited before
\* it accepted it; or the parent waits for good, in its handler, for a child to exit
\* (srvtest.c:102-107, 136-141, 182, 218).
HangsUp ==
  \/ \A c \in Conns :
       link[c] = "gone" ~> (~Holds(c) \/ standby = "exited" \/ (parent = "exited" /\ c \in backlog))
  \/ <>[](handling /\ zombies = 0)

\* A connection that is passed is taken over, behind those passed before it, as long as
\* the standby process lives (srvtest.c:129-143, 199).
PassedIsTakenOver ==
  \A c \in Conns : c \in Range(pair) ~> (Contains(heard[c], "takeover") \/ standby = "exited")
==============================================================================
