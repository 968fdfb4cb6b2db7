---------------------------- MODULE ThreadPools -----------------------------
(***************************************************************************)
(* tcppclientc run against tcppserverc, as they are meant to be: the       *)
(* client's threads connect, the server's threads answer.  The programs    *)
(* share nothing but connections.  The server may die of clients that have *)
(* left, so only after the client, of which nothing connects any more.     *)
(***************************************************************************)
EXTENDS Naturals, Sequences, FiniteSets

CONSTANTS
  Threads, Workers,             \* threads of the client and of the server
  ClientMax, ServerMax,         \* MAX_THREAD of each program
  ClientLost, ServerLost,       \* bounds: how often pthread_create fails in each
  Nobody

ASSUME PoolConstants ==
  /\ ClientMax \in Nat /\ ServerMax \in Nat
  /\ ClientLost \in Nat /\ ServerLost \in Nat
  /\ IsFiniteSet(Threads) /\ Cardinality(Threads) > ClientMax + 1
  /\ IsFiniteSet(Workers)
  /\ Nobody \notin Threads

VARIABLES
  cnum, cmain, cthread, clost, calive,                    \* the client
  snum, accepted, passed, worker, job, slost, salive,     \* the server
  backlog,     \* connections that wait to be accepted, in their order
  link         \* link[t]: "none", "open", "shut" by the server, or "left" by the client

client == <<cnum, cmain, cthread, clost, calive>>
server == <<snum, accepted, passed, worker, job, slost, salive>>
vars   == <<client, server, backlog, link>>

Client == INSTANCE PoolClient WITH
  MaxThread <- ClientMax, MaxLost <- ClientLost,
  thread_num <- cnum, main <- cmain, thread <- cthread, lost <- clost,
  alive <- calive

Server == INSTANCE PoolServer WITH
  Peers <- Threads, MaxThread <- ServerMax, MaxLost <- ServerLost,
  thread_num <- snum, lost <- slost, alive <- salive

Init ==
  /\ Client!Init /\ Server!Init
  /\ backlog = << >> /\ link = [t \in Threads |-> "none"]

ClientNext ==
  /\ calive
  /\ \/ Client!Wait \/ Client!Count \/ Client!WakeUp \/ Client!Create \/ Client!CreateFails
     \/ \E t \in Threads :
          \/ Client!Connect(t) \/ Client!ConnectFails(t) \/ Client!Send(t) \/ Client!Killed(t)
          \/ Client!Fetch(t) \/ Client!End(t) \/ Client!Return(t)
  /\ UNCHANGED server

ServerNext ==
  /\ salive
  /\ \/ Server!Accept \/ Server!Refuse \/ Server!Pass \/ Server!Create \/ Server!CreateFails
     \/ Server!Dies
     \/ \E w \in Workers :
          Server!Start(w) \/ Server!Serve(w) \/ Server!End(w) \/ Server!Return(w)
  /\ UNCHANGED client

Next == ClientNext \/ ServerNext

Spec == Init /\ [][Next]_vars

\* The system schedules every thread; no wakeup without a signal is assumed.
Fairness ==
  /\ WF_vars(calive /\ Client!MainStep /\ UNCHANGED server)
  /\ \A t \in Threads : WF_vars(calive /\ Client!ThreadStep(t) /\ UNCHANGED server)
  /\ WF_vars(salive /\ Server!MainStep /\ UNCHANGED client)
  /\ \A w \in Workers : WF_vars(salive /\ Server!WorkerStep(w) /\ UNCHANGED client)

FairSpec == Spec /\ Fairness

-----------------------------------------------------------------------------
(* Properties *)

\* The variables have their types.
TypeOK ==
  /\ cnum \in Nat /\ cmain \in {"test", "asleep", "create"}
  /\ cthread \in [Threads -> {"none", "connect", "send", "talk", "end", "leave"}]
  /\ clost \in 0 .. ClientLost /\ calive \in BOOLEAN /\ salive \in BOOLEAN
  /\ snum \in Nat /\ accepted \in Threads \cup {Nobody} /\ passed \in BOOLEAN
  /\ worker \in [Workers -> {"none", "start", "serve", "end", "leave"}]
  /\ job \in [Workers -> Threads \cup {Nobody}] /\ slost \subseteq Threads
  /\ backlog \in Seq(Threads) /\ link \in [Threads -> {"none", "open", "shut", "left"}]

\* No wakeup is lost: the main loop of tcppclientc.c sleeps only while its threads are as
\* many as it allows, whatever path they end by and whenever they end.
SleepsOnlyWhenFull == cmain = "asleep" => cnum > ClientMax

\* The threads of the client from their creation to the lock under which they are counted
\* out; behind it they still print (tcppclientc.c:83), and may be any number.
Live == {t \in Threads : cthread[t] \notin {"none", "leave"}}

\* tcppclientc.c never has more than MAX_THREAD + 1 threads at work, with sockets and all:
\* counting before pthread_create and testing again after a wakeup keep the limit under any
\* schedule, and a thread counts itself out only when its connection is closed.
ClientLimit == Cardinality(Live) <= ClientMax + 1

\* A thread of the server serves one connection, no two threads the same one, and the
\* server's end is open exactly while somebody (backlog, main loop, thread, or the thread
\* that could not be started) has it, also when the client has been killed meanwhile.
OneOwner ==
  LET Owners(t) ==
        Cardinality({w \in Workers : job[w] = t}) + Cardinality({i \in DOMAIN backlog : backlog[i] = t})
        + (IF accepted = t THEN 1 ELSE 0) + (IF t \in slost THEN 1 ELSE 0)
  IN \A t \in Threads : Owners(t) = IF link[t] \in {"open", "left"} THEN 1 ELSE 0

\* tcppclientc.c starts threads for ever, unless a send into a refused connection kills it,
\* or MAX_THREAD + 1 of its threads are lost to a failed pthread_create in either program.
KeepsStarting ==
  []<>(cmain = "create") \/ <>~calive \/ <>[](clost + Cardinality(slost) > ClientMax)

\* A connection that was made is over at both ends in the end, by an answer, by "Too match
\* thread", or because one of the programs was killed, unless the server failed to start a
\* thread for it.
InSession(t) == cthread[t] \in {"send", "talk"} \/ link[t] \in {"open", "left"}
SessionsEnd == \A t \in Threads : InSession(t) ~> ~InSession(t) \/ t \in slost

\* tcppserverc.c does not refuse for ever.
ServerRecovers == []<>(snum <= ServerMax)
=============================================================================
