----------------------------- MODULE PoolServer -----------------------------
(***************************************************************************)
(* tcppserverc.c: a main loop that accepts connections and gives each to a *)
(* thread of its own.  Unlike in tcppclientc.c the limit is tested without *)
(* the lock, and a thread is counted by the thread itself.                 *)
(***************************************************************************)
EXTENDS Naturals, Sequences, FiniteSets

CONSTANTS
  Peers,       \* the clients that may connect
  Workers,     \* threads that can exist at once
  MaxThread,   \* MAX_THREAD
  MaxLost,     \* bound: how often pthread_create fails
  Nobody       \* no connection

VARIABLES
  thread_num,
  accepted,   \* the connection the main loop has just accepted
  passed,     \* it has passed the test of the limit
  worker,     \* worker[w]: "none", "start", "serve", "end", or "leave" (counted out)
  job,        \* job[w]: the connection thread w serves
  lost,       \* the connections whose pthread_create failed
  alive,
  backlog, link

own  == <<thread_num, accepted, passed, worker, job, lost, alive>>
vars == <<own, backlog, link>>

Init ==
  /\ thread_num = 0 /\ accepted = Nobody /\ passed = FALSE /\ lost = {} /\ alive = TRUE
  /\ worker = [w \in Workers |-> "none"] /\ job = [w \in Workers |-> Nobody]

Accept ==
  /\ accepted = Nobody /\ backlog # << >>
  /\ accepted' = Head(backlog) /\ backlog' = Tail(backlog)
  /\ UNCHANGED <<thread_num, passed, worker, job, lost, alive, link>>

\* The server closes its end: the last one if the client has left.
Shut(p) == link' = [link EXCEPT ![p] = IF @ = "left" THEN "none" ELSE "shut"]

TooMany == thread_num > MaxThread

\* Mutant: the connection is forgotten, not closed.
Forget ==
  /\ accepted # Nobody /\ ~passed /\ TooMany
  /\ accepted' = Nobody
  /\ UNCHANGED <<thread_num, passed, worker, job, lost, alive, backlog, link>>

\* thread_num is read without the lock.
Refuse ==
  /\ accepted # Nobody /\ ~passed /\ TooMany
  /\ Shut(accepted) /\ accepted' = Nobody
  /\ UNCHANGED <<thread_num, passed, worker, job, lost, alive, backlog>>

Pass ==
  /\ accepted # Nobody /\ ~passed /\ ~TooMany
  /\ passed' = TRUE
  /\ UNCHANGED <<thread_num, accepted, worker, job, lost, alive, backlog, link>>

Create ==
  /\ passed
  /\ \E w \in Workers :
       /\ worker[w] = "none"
       /\ worker' = [worker EXCEPT ![w] = "start"] /\ job' = [job EXCEPT ![w] = accepted]
  /\ passed' = FALSE /\ accepted' = Nobody
  /\ UNCHANGED <<thread_num, lost, alive, backlog, link>>

\* The result of pthread_create is not looked at: nobody closes the connection.
CreateFails ==
  /\ passed /\ Cardinality(lost) < MaxLost
  /\ lost' = lost \cup {accepted}
  /\ passed' = FALSE /\ accepted' = Nobody
  /\ UNCHANGED <<thread_num, worker, job, alive, backlog, link>>

\* The thread counts itself in.
Start(w) ==
  /\ worker[w] = "start" /\ worker' = [worker EXCEPT ![w] = "serve"]
  /\ thread_num' = thread_num + 1
  /\ UNCHANGED <<accepted, passed, job, lost, alive, backlog, link>>

\* Mutant: the thread keeps its socket after sockclose.
ServesOn(w) ==
  /\ worker[w] = "serve" /\ worker' = [worker EXCEPT ![w] = "end"]
  /\ Shut(job[w])
  /\ UNCHANGED <<thread_num, accepted, passed, job, lost, alive, backlog>>

\* It answers, or gives up at the first line, and closes.
Serve(w) ==
  /\ worker[w] = "serve" /\ worker' = [worker EXCEPT ![w] = "end"]
  /\ Shut(job[w]) /\ job' = [job EXCEPT ![w] = Nobody]
  /\ UNCHANGED <<thread_num, accepted, passed, lost, alive, backlog>>

\* Mutant: the thread returns without passing endlabel.
StaysCounted(w) ==
  /\ worker[w] = "end" /\ worker' = [worker EXCEPT ![w] = "leave"]
  /\ UNCHANGED <<thread_num, accepted, passed, job, lost, alive, backlog, link>>

\* It counts itself out.
End(w) ==
  /\ worker[w] = "end" /\ worker' = [worker EXCEPT ![w] = "leave"]
  /\ thread_num' = thread_num - 1
  /\ UNCHANGED <<accepted, passed, job, lost, alive, backlog, link>>

Return(w) ==
  /\ worker[w] = "leave" /\ worker' = [worker EXCEPT ![w] = "none"]
  /\ UNCHANGED <<thread_num, accepted, passed, job, lost, alive, backlog, link>>

\* The client of the connection is gone: the answer raises SIGPIPE, or the main loop finds
\* no peer (getpeername) and exits.
Gone(p) == p # Nobody /\ link[p] = "left"

Dies ==
  /\ \/ \E w \in Workers : worker[w] = "serve" /\ Gone(job[w])
     \/ accepted = Nobody /\ backlog # << >> /\ Gone(Head(backlog))
  /\ thread_num' = 0 /\ accepted' = Nobody /\ passed' = FALSE /\ lost' = {} /\ alive' = FALSE
  /\ worker' = [w \in Workers |-> "none"] /\ job' = [w \in Workers |-> Nobody]
  /\ backlog' = << >>
  /\ link' = [p \in Peers |-> IF link[p] = "left" THEN "none" ELSE IF link[p] = "open" THEN "shut" ELSE link[p]]

MainStep == Accept \/ Refuse \/ Pass \/ Create \/ CreateFails

WorkerStep(w) == Start(w) \/ Serve(w) \/ End(w) \/ Return(w)
=============================================================================
