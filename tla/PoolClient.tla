----------------------------- MODULE PoolClient -----------------------------
(***************************************************************************)
(* tcppclientc.c: a main loop that starts threads as fast as its limit     *)
(* allows, each of which fetches one page.  What the loop and the threads  *)
(* do while they hold thread_num_mutex is one step: everything else that   *)
(* looks at thread_num only prints it.                                     *)
(*                                                                         *)
(* The network is shared with the server: backlog holds the threads whose  *)
(* connections wait to be accepted, link what has become of the connection *)
(* of a thread.  A send into a connection whose other end is gone kills    *)
(* the whole program: nobody handles SIGPIPE (sock.c:336).  A program that *)
(* is gone has its initial values again.                                   *)
(***************************************************************************)
EXTENDS Naturals, Sequences

CONSTANTS
  Threads,     \* threads that can exist at once: more than the limit allows, so that it is
               \* the limit that keeps their number down
  MaxThread,   \* MAX_THREAD
  MaxLost      \* bound: how often pthread_create fails

VARIABLES
  thread_num,
  main,      \* the main loop: "test", "asleep" (in pthread_cond_wait) or "create"
  thread,    \* thread[t]: "none", "connect", "send" (before the last of its sends), "talk",
             \* "end", or "leave" (counted out, but still to print and return)
  lost,      \* how often pthread_create has failed
  alive,
  backlog, link

own  == <<thread_num, main, thread, lost, alive>>
vars == <<own, backlog, link>>

Init ==
  /\ thread_num = 0 /\ main = "test" /\ lost = 0 /\ alive = TRUE
  /\ thread = [t \in Threads |-> "none"]

Becomes(t, s) == thread' = [thread EXCEPT ![t] = s]

Full == thread_num > MaxThread

\* Under the lock: wait for a thread to end, or count the next one.
Wait ==
  /\ main = "test" /\ Full
  /\ main' = "asleep"
  /\ UNCHANGED <<thread_num, thread, lost, alive, backlog, link>>

Count ==
  /\ main = "test" /\ ~Full
  /\ thread_num' = thread_num + 1
  /\ main' = "create"
  /\ UNCHANGED <<thread, lost, alive, backlog, link>>

\* pthread_cond_wait may return without a signal; the loop tests again.
WakeUp ==
  /\ main = "asleep" /\ main' = "test"
  /\ UNCHANGED <<thread_num, thread, lost, alive, backlog, link>>

Create ==
  /\ main = "create" /\ main' = "test"
  /\ \E t \in Threads : thread[t] = "none" /\ Becomes(t, "connect")
  /\ UNCHANGED <<thread_num, lost, alive, backlog, link>>

\* The result of pthread_create is not looked at: the thread stays counted.
CreateFails ==
  /\ main = "create" /\ main' = "test"
  /\ lost < MaxLost /\ lost' = lost + 1
  /\ UNCHANGED <<thread_num, thread, alive, backlog, link>>

Connect(t) ==
  /\ thread[t] = "connect" /\ Becomes(t, "send")
  /\ backlog' = Append(backlog, t) /\ link' = [link EXCEPT ![t] = "open"]
  /\ UNCHANGED <<thread_num, main, lost, alive>>

\* Mutants: the thread counts itself out before it goes to endlabel, or returns without
\* passing there.
CountsOutTwice(t) ==
  /\ thread[t] = "connect" /\ Becomes(t, "end")
  /\ thread_num' = thread_num - 1
  /\ UNCHANGED <<main, lost, alive, backlog, link>>

JustReturns(t) ==
  /\ thread[t] = "connect" /\ Becomes(t, "none")
  /\ UNCHANGED <<thread_num, main, lost, alive, backlog, link>>

ConnectFails(t) ==
  /\ thread[t] = "connect" /\ Becomes(t, "end")
  /\ UNCHANGED <<thread_num, main, lost, alive, backlog, link>>

\* The request is on its way, whether or not the server still listens to it.
Send(t) ==
  /\ thread[t] = "send" /\ Becomes(t, "talk")
  /\ UNCHANGED <<thread_num, main, lost, alive, backlog, link>>

\* The server closed before the last of the sends: SIGPIPE, and all the threads are gone.
Killed(t) ==
  /\ thread[t] = "send" /\ link[t] = "shut"
  /\ thread_num' = 0 /\ main' = "test" /\ lost' = 0 /\ alive' = FALSE
  /\ thread' = [u \in Threads |-> "none"]
  /\ link' = [u \in Threads |-> IF link[u] = "open" THEN "left" ELSE "none"]
  /\ UNCHANGED backlog

\* The thread reads until the server has closed; then it closes.
Fetch(t) ==
  /\ thread[t] = "talk" /\ link[t] = "shut" /\ Becomes(t, "end")
  /\ link' = [link EXCEPT ![t] = "none"]
  /\ UNCHANGED <<thread_num, main, lost, alive, backlog>>

\* Mutants: no signal; main goes on as if it had tested again.
NoSignal == main
GoesOn == IF main = "asleep" THEN "create" ELSE main

\* pthread_cond_signal wakes main if it waits.
Signalled == IF main = "asleep" THEN "test" ELSE main

\* Under the lock: the thread is counted out.
End(t) ==
  /\ thread[t] = "end" /\ Becomes(t, "leave")
  /\ thread_num' = thread_num - 1
  /\ main' = Signalled
  /\ UNCHANGED <<lost, alive, backlog, link>>

\* After the unlock it prints and returns; main may start others meanwhile.
Return(t) ==
  /\ thread[t] = "leave" /\ Becomes(t, "none")
  /\ UNCHANGED <<thread_num, main, lost, alive, backlog, link>>

MainStep == Wait \/ Count \/ Create \/ CreateFails

ThreadStep(t) == Connect(t) \/ Send(t) \/ Fetch(t) \/ End(t) \/ Return(t)
=============================================================================
