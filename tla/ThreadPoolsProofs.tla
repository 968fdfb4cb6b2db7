-------------------------- MODULE ThreadPoolsProofs --------------------------
(***************************************************************************)
(* Proofs about the two thread pools, for every number of threads, limits  *)
(* and failures: the client keeps its limit, no wakeup is lost, and every  *)
(* open connection has one owner.                                          *)
(***************************************************************************)
EXTENDS ThreadPools, FiniteSetTheorems, SequenceTheorems, TLAPS

(* The client's count is that of its threads, of the one about to be       *)
(* started, and of those that could not be started.                        *)
ClientCount ==
  /\ cnum = Cardinality(Live) + (IF cmain = "create" THEN 1 ELSE 0) + clost
  /\ cnum <= ClientMax + 1

(* The server's count is that of the threads between their two locks.      *)
Counted == {w \in Workers : worker[w] \in {"serve", "end"}}

ServerCount ==
  /\ snum = Cardinality(Counted)
  /\ passed => accepted # Nobody

PoolInv == TypeOK /\ SleepsOnlyWhenFull /\ ClientCount /\ ServerCount

-----------------------------------------------------------------------------

(* A thread that begins to count, or ceases to, changes the number of live *)
(* threads by one.                                                         *)
Idle == {"none", "leave"}

LEMMA LiveChange ==
  ASSUME PoolConstants, cthread \in [Threads -> {"none", "connect", "send", "talk", "end", "leave"}],
         NEW t \in Threads, NEW s \in {"none", "connect", "send", "talk", "end", "leave"},
         cthread' = [cthread EXCEPT ![t] = s]
  PROVE  /\ IsFiniteSet(Live) /\ Cardinality(Live) \in Nat
         /\ cthread[t] \in Idle /\ s \notin Idle => Cardinality(Live') = Cardinality(Live) + 1
         /\ (cthread[t] \in Idle <=> s \in Idle) => Cardinality(Live') = Cardinality(Live)
         /\ cthread[t] \notin Idle /\ s \in Idle =>
              Cardinality(Live') = Cardinality(Live) - 1 /\ Cardinality(Live) > 0
<1> USE DEF Idle
<1>1. IsFiniteSet(Live)
  BY FS_Subset DEF PoolConstants, Live
<1>2. Cardinality(Live) \in Nat
  BY <1>1, FS_CardinalityType
<1>3. CASE cthread[t] \in Idle /\ s \notin Idle
  <2>1. Live' = Live \cup {t} /\ t \notin Live
    BY <1>3 DEF Live
  <2> QED
    BY <1>1, <1>2, <1>3, <2>1, FS_AddElement
<1>4. CASE cthread[t] \in Idle <=> s \in Idle
  <2>1. Live' = Live
    BY <1>4 DEF Live
  <2> QED
    BY <1>1, <1>2, <1>4, <2>1
<1>5. CASE cthread[t] \notin Idle /\ s \in Idle
  <2>1. Live' = Live \ {t} /\ t \in Live
    BY <1>5 DEF Live
  <2>2. Cardinality(Live') = Cardinality(Live) - 1
    BY <1>1, <2>1, FS_RemoveElement
  <2>3. Cardinality(Live) > 0
    BY <1>1, <1>2, <2>1, FS_EmptySet
  <2> QED
    BY <1>1, <1>2, <1>5, <2>2, <2>3
<1> QED
  BY <1>3, <1>4, <1>5

(* The same for the threads the server counts.                             *)
LEMMA CountedChange ==
  ASSUME PoolConstants, worker \in [Workers -> {"none", "start", "serve", "end", "leave"}],
         NEW w \in Workers, NEW s \in {"none", "start", "serve", "end", "leave"},
         worker' = [worker EXCEPT ![w] = s]
  PROVE  /\ IsFiniteSet(Counted) /\ Cardinality(Counted) \in Nat
         /\ worker[w] = "none" /\ s = "start" => Cardinality(Counted') = Cardinality(Counted)
         /\ worker[w] = "start" /\ s = "serve" => Cardinality(Counted') = Cardinality(Counted) + 1
         /\ worker[w] = "serve" /\ s = "end" => Cardinality(Counted') = Cardinality(Counted)
         /\ worker[w] = "leave" /\ s = "none" => Cardinality(Counted') = Cardinality(Counted)
         /\ worker[w] = "end" /\ s = "leave" =>
              Cardinality(Counted') = Cardinality(Counted) - 1 /\ Cardinality(Counted) > 0
<1>1. IsFiniteSet(Counted)
  BY FS_Subset DEF PoolConstants, Counted
<1>2. Cardinality(Counted) \in Nat
  BY <1>1, FS_CardinalityType
<1>3. worker[w] = "none" /\ s = "start" => Counted' = Counted
  BY DEF Counted
<1>4. worker[w] = "serve" /\ s = "end" => Counted' = Counted
  BY DEF Counted
<1>5. ASSUME worker[w] = "start", s = "serve"
      PROVE  Cardinality(Counted') = Cardinality(Counted) + 1
  <2>1. Counted' = Counted \cup {w} /\ w \notin Counted
    BY <1>5 DEF Counted
  <2> QED
    BY <1>1, <1>2, <2>1, FS_AddElement
<1>6. ASSUME worker[w] = "end", s = "leave"
      PROVE  Cardinality(Counted') = Cardinality(Counted) - 1 /\ Cardinality(Counted) > 0
  <2>1. Counted' = Counted \ {w} /\ w \in Counted
    BY <1>6 DEF Counted
  <2>2. Cardinality(Counted') = Cardinality(Counted) - 1
    BY <1>1, <2>1, FS_RemoveElement
  <2>3. Cardinality(Counted) > 0
    BY <1>1, <1>2, <2>1, FS_EmptySet
  <2> QED
    BY <2>2, <2>3
<1>7. worker[w] = "leave" /\ s = "none" => Counted' = Counted
  BY DEF Counted
<1> QED
  BY <1>1, <1>2, <1>3, <1>4, <1>5, <1>6, <1>7

-----------------------------------------------------------------------------

LEMMA PoolInit == PoolConstants /\ Init => PoolInv
<1> SUFFICES ASSUME PoolConstants, Init PROVE PoolInv
  OBVIOUS
<1> USE DEF PoolConstants
<1>1. Live = {} /\ Counted = {}
  BY DEF Init, Client!Init, Server!Init, Live, Counted
<1>2. Cardinality(Live) = 0 /\ Cardinality(Counted) = 0
  BY <1>1, FS_EmptySet
<1>3. TypeOK
  <2>1. clost \in 0 .. ClientLost
    BY DEF Init, Client!Init
  <2>2. backlog \in Seq(Threads)
    BY DEF Init
  <2>3. /\ cthread \in [Threads -> {"none", "connect", "send", "talk", "end", "leave"}]
        /\ link \in [Threads -> {"none", "open", "shut", "left"}]
    BY DEF Init, Client!Init
  <2>4. /\ worker \in [Workers -> {"none", "start", "serve", "end", "leave"}]
        /\ job \in [Workers -> Threads \cup {Nobody}] /\ slost \subseteq Threads
    BY DEF Init, Server!Init
  <2> QED
    BY <2>1, <2>2, <2>3, <2>4 DEF Init, Client!Init, Server!Init, TypeOK
<1>4. SleepsOnlyWhenFull
  BY DEF Init, Client!Init, SleepsOnlyWhenFull
<1>5. ClientCount
  BY <1>2 DEF Init, Client!Init, ClientCount
<1>6. ServerCount
  BY <1>2 DEF Init, Server!Init, ServerCount
<1> QED
  BY <1>3, <1>4, <1>5, <1>6 DEF PoolInv

(* What the steps of the client keep.                                      *)
LEMMA ClientKeeps ==
  ASSUME PoolConstants, PoolInv, ClientNext
  PROVE  TypeOK' /\ SleepsOnlyWhenFull' /\ ClientCount'
<1> USE DEF PoolInv, TypeOK, SleepsOnlyWhenFull, ClientCount, PoolConstants
<1>0. UNCHANGED server
  BY DEF ClientNext
<1> USE <1>0 DEF server
<1>1. IsFiniteSet(Live) /\ Cardinality(Live) \in Nat
  BY FS_Subset, FS_CardinalityType DEF Live
<1>2. CASE Client!Wait
  BY <1>1, <1>2 DEF Client!Wait, Client!Full, Live
<1>3. CASE Client!Count
  BY <1>1, <1>3 DEF Client!Count, Client!Full, Live
<1>4. CASE Client!WakeUp
  BY <1>1, <1>4 DEF Client!WakeUp, Live
<1>5. CASE Client!Create
  <2>1. PICK t \in Threads : cthread[t] = "none" /\ Client!Becomes(t, "connect")
    BY <1>5 DEF Client!Create
  <2>2. Cardinality(Live') = Cardinality(Live) + 1
    BY <2>1, LiveChange DEF Client!Becomes, Idle
  <2> QED
    BY <1>1, <1>5, <2>1, <2>2 DEF Client!Create, Client!Becomes
<1>6. CASE Client!CreateFails
  BY <1>1, <1>6 DEF Client!CreateFails, Live
<1>7. ASSUME NEW t \in Threads, Client!Connect(t)
      PROVE  TypeOK' /\ SleepsOnlyWhenFull' /\ ClientCount'
  <2>1. Cardinality(Live') = Cardinality(Live)
    BY <1>7, LiveChange DEF Client!Connect, Client!Becomes, Idle
  <2> QED
    BY <1>1, <1>7, <2>1 DEF Client!Connect, Client!Becomes
<1>8. ASSUME NEW t \in Threads, Client!ConnectFails(t)
      PROVE  TypeOK' /\ SleepsOnlyWhenFull' /\ ClientCount'
  <2>1. Cardinality(Live') = Cardinality(Live)
    BY <1>8, LiveChange DEF Client!ConnectFails, Client!Becomes, Idle
  <2> QED
    BY <1>1, <1>8, <2>1 DEF Client!ConnectFails, Client!Becomes
<1>9. ASSUME NEW t \in Threads, Client!Fetch(t)
      PROVE  TypeOK' /\ SleepsOnlyWhenFull' /\ ClientCount'
  <2>1. Cardinality(Live') = Cardinality(Live)
    BY <1>9, LiveChange DEF Client!Fetch, Client!Becomes, Idle
  <2> QED
    BY <1>1, <1>9, <2>1 DEF Client!Fetch, Client!Becomes
<1>10. ASSUME NEW t \in Threads, Client!End(t)
       PROVE  TypeOK' /\ SleepsOnlyWhenFull' /\ ClientCount'
  <2>1. Cardinality(Live') = Cardinality(Live) - 1 /\ Cardinality(Live) > 0
    BY <1>10, LiveChange DEF Client!End, Client!Becomes, Idle
  <2>2. cmain' = (IF cmain = "asleep" THEN "test" ELSE cmain)
    BY <1>10 DEF Client!End, Client!Signalled
  <2> QED
    BY <1>1, <1>10, <2>1, <2>2 DEF Client!End, Client!Becomes
<1>11. ASSUME NEW t \in Threads, Client!Send(t) \/ Client!Return(t)
       PROVE  TypeOK' /\ SleepsOnlyWhenFull' /\ ClientCount'
  <2>1. Cardinality(Live') = Cardinality(Live)
    BY <1>11, LiveChange DEF Client!Send, Client!Return, Client!Becomes, Idle
  <2> QED
    BY <1>1, <1>11, <2>1 DEF Client!Send, Client!Return, Client!Becomes
<1>12. ASSUME NEW t \in Threads, Client!Killed(t)
       PROVE  TypeOK' /\ SleepsOnlyWhenFull' /\ ClientCount'
  <2>1. Live' = {}
    BY <1>12 DEF Client!Killed, Live
  <2>2. Cardinality(Live') = 0
    BY <2>1, FS_EmptySet
  <2>3. /\ cthread' \in [Threads -> {"none", "connect", "send", "talk", "end", "leave"}]
        /\ link' \in [Threads -> {"none", "open", "shut", "left"}]
    BY <1>12 DEF Client!Killed
  <2>4. cnum' = 0 /\ cmain' = "test" /\ clost' = 0 /\ backlog' = backlog
    BY <1>12 DEF Client!Killed
  <2>5. calive' \in BOOLEAN
    <3>1. calive' = FALSE
      BY <1>12 DEF Client!Killed
    <3> QED
      BY <3>1
  <2>6. TypeOK'
    BY <2>3, <2>4, <2>5
  <2> QED
    BY <2>2, <2>4, <2>6
<1> QED
  BY <1>2, <1>3, <1>4, <1>5, <1>6, <1>7, <1>8, <1>9, <1>10, <1>11, <1>12 DEF ClientNext

(* What the steps of the server keep.                                      *)
LEMMA ServerKeeps ==
  ASSUME PoolConstants, PoolInv, ServerNext
  PROVE  TypeOK' /\ ServerCount'
<1> USE DEF PoolInv, TypeOK, ServerCount, PoolConstants
<1>0. UNCHANGED client
  BY DEF ServerNext
<1> USE <1>0 DEF client
<1>1. IsFiniteSet(Counted) /\ Cardinality(Counted) \in Nat
  BY FS_Subset, FS_CardinalityType DEF Counted
<1>2. CASE Server!Accept
  BY <1>1, <1>2 DEF Server!Accept, Counted
<1>3. CASE Server!Refuse
  BY <1>1, <1>3 DEF Server!Refuse, Server!Shut, Counted
<1>4. CASE Server!Pass
  BY <1>1, <1>4 DEF Server!Pass, Counted
<1>5. CASE Server!Create
  <2>1. PICK w \in Workers :
          /\ worker[w] = "none"
          /\ worker' = [worker EXCEPT ![w] = "start"] /\ job' = [job EXCEPT ![w] = accepted]
    BY <1>5 DEF Server!Create
  <2>2. Cardinality(Counted') = Cardinality(Counted)
    BY <2>1, CountedChange
  <2> QED
    BY <1>1, <1>5, <2>1, <2>2 DEF Server!Create
<1>6. CASE Server!CreateFails
  BY <1>1, <1>6 DEF Server!CreateFails, Counted
<1>7. ASSUME NEW w \in Workers, Server!Start(w)
      PROVE  TypeOK' /\ ServerCount'
  <2>1. Cardinality(Counted') = Cardinality(Counted) + 1
    BY <1>7, CountedChange DEF Server!Start
  <2> QED
    BY <1>1, <1>7, <2>1 DEF Server!Start
<1>8. ASSUME NEW w \in Workers, Server!Serve(w)
      PROVE  TypeOK' /\ ServerCount'
  <2>1. Cardinality(Counted') = Cardinality(Counted)
    BY <1>8, CountedChange DEF Server!Serve
  <2> QED
    BY <1>1, <1>8, <2>1 DEF Server!Serve, Server!Shut
<1>9. ASSUME NEW w \in Workers, Server!End(w)
      PROVE  TypeOK' /\ ServerCount'
  <2>1. Cardinality(Counted') = Cardinality(Counted) - 1 /\ Cardinality(Counted) > 0
    BY <1>9, CountedChange DEF Server!End
  <2> QED
    BY <1>1, <1>9, <2>1 DEF Server!End
<1>10. ASSUME NEW w \in Workers, Server!Return(w)
       PROVE  TypeOK' /\ ServerCount'
  <2>1. Cardinality(Counted') = Cardinality(Counted)
    BY <1>10, CountedChange DEF Server!Return
  <2> QED
    BY <1>1, <1>10, <2>1 DEF Server!Return
<1>11. CASE Server!Dies
  <2>1. Counted' = {}
    BY <1>11 DEF Server!Dies, Counted
  <2>2. Cardinality(Counted') = 0
    BY <2>1, FS_EmptySet
  <2>3. link' \in [Threads -> {"none", "open", "shut", "left"}] /\ backlog' \in Seq(Threads)
    BY <1>11 DEF Server!Dies
  <2> QED
    BY <1>11, <2>2, <2>3 DEF Server!Dies
<1> QED
  BY <1>2, <1>3, <1>4, <1>5, <1>6, <1>7, <1>8, <1>9, <1>10, <1>11 DEF ServerNext

(* The programs leave each other's counts alone.                           *)
LEMMA PoolNext == PoolConstants /\ PoolInv /\ [Next]_vars => PoolInv'
<1> SUFFICES ASSUME PoolConstants, PoolInv, [Next]_vars PROVE PoolInv'
  OBVIOUS
<1>1. CASE ClientNext
  <2>1. ServerCount'
    BY <1>1 DEF ClientNext, server, PoolInv, ServerCount, Counted
  <2> QED
    BY <1>1, <2>1, ClientKeeps DEF PoolInv
<1>2. CASE ServerNext
  <2>1. SleepsOnlyWhenFull' /\ ClientCount'
    BY <1>2 DEF ServerNext, client, PoolInv, SleepsOnlyWhenFull, ClientCount, Live
  <2> QED
    BY <1>2, <2>1, ServerKeeps DEF PoolInv
<1>3. CASE UNCHANGED vars
  BY <1>3 DEF vars, client, server, PoolInv, TypeOK, SleepsOnlyWhenFull, ClientCount,
     ServerCount, Live, Counted
<1> QED
  BY <1>1, <1>2, <1>3 DEF Next

LEMMA PoolInvariant == Spec => []PoolInv
<1>1. Init => PoolInv
  BY PoolConstants, PoolInit
<1>2. PoolInv /\ [Next]_vars => PoolInv'
  BY PoolConstants, PoolNext
<1> QED
  BY <1>1, <1>2, PTL DEF Spec

(* The variables keep their types: neither count ever goes below zero.     *)
THEOREM PoolTypes == Spec => []TypeOK
<1>1. PoolInv => TypeOK
  BY DEF PoolInv
<1> QED
  BY <1>1, PoolInvariant, PTL

(* The main loop of tcppclientc.c sleeps only while its pool is full.      *)
THEOREM NoLostWakeup == Spec => []SleepsOnlyWhenFull
<1>1. PoolInv => SleepsOnlyWhenFull
  BY DEF PoolInv
<1> QED
  BY <1>1, PoolInvariant, PTL

(* tcppclientc.c has at most MAX_THREAD + 1 threads that are not counted   *)
(* out yet; those that are have closed their sockets and only print.       *)
THEOREM ClientKeepsLimit == Spec => []ClientLimit
<1>1. PoolInv => ClientLimit
  <2> SUFFICES ASSUME PoolInv PROVE ClientLimit
    OBVIOUS
  <2>1. IsFiniteSet(Live)
    BY PoolConstants, FS_Subset DEF PoolConstants, Live
  <2>2. Cardinality(Live) \in Nat
    BY <2>1, FS_CardinalityType
  <2> QED
    BY PoolConstants, <2>2 DEF PoolConstants, PoolInv, TypeOK, ClientCount, ClientLimit
<1> QED
  BY <1>1, PoolInvariant, PTL

-----------------------------------------------------------------------------
(* Who has a connection                                                    *)

Queued(t) == \E i \in 1 .. Len(backlog) : backlog[i] = t
Served(t) == \E w \in Workers : job[w] = t

(* No connection is in two places, or twice in one.                        *)
OnePlace ==
  /\ \A v, w \in Workers : job[v] = job[w] /\ job[v] # Nobody => v = w
  /\ \A i, j \in 1 .. Len(backlog) : backlog[i] = backlog[j] => i = j
  /\ \A t \in Threads :
       /\ Queued(t) => ~Served(t) /\ accepted # t /\ t \notin slost
       /\ Served(t) => accepted # t /\ t \notin slost
       /\ accepted = t => t \notin slost

(* The server's end is open as long as somebody has it, a thread of the    *)
(* server has one until it has answered, and a thread of the client that   *)
(* has none has left nothing behind, unless all of them were killed.       *)
Held(t) == link[t] \in {"open", "left"}

InHand ==
  /\ \A t \in Threads :
       Held(t) <=> Queued(t) \/ Served(t) \/ accepted = t \/ t \in slost
  /\ \A w \in Workers : job[w] # Nobody <=> worker[w] \in {"start", "serve"}
  /\ \A t \in Threads : link[t] \in {"open", "shut"} => cthread[t] \in {"send", "talk"}
  /\ \A t \in Threads : link[t] = "left" => ~calive

OwnerInv == OnePlace /\ InHand

LEMMA OwnerInit == PoolConstants /\ Init => OwnerInv
BY DEF PoolConstants, Init, Client!Init, Server!Init, OwnerInv, OnePlace, InHand, Held, Queued, Served

(* What the steps of the client keep: Connect hands a connection over that *)
(* nobody has, Fetch takes back one that nobody has any more.              *)
LEMMA ClientOwners ==
  ASSUME PoolConstants, PoolInv, OwnerInv, ClientNext
  PROVE  OwnerInv'
<1>0. /\ UNCHANGED <<snum, accepted, passed, worker, job, slost>> /\ calive
      /\ backlog \in Seq(Threads) /\ Len(backlog) \in Nat
      /\ link \in [Threads -> {"none", "open", "shut", "left"}]
      /\ cthread \in [Threads -> {"none", "connect", "send", "talk", "end", "leave"}]
  BY LenProperties DEF ClientNext, server, PoolInv, TypeOK
<1>1. CASE UNCHANGED <<cthread, calive, backlog, link>>
  BY <1>0, <1>1 DEF OwnerInv, OnePlace, InHand, Held, Queued, Served
<1>2. ASSUME NEW t \in Threads, NEW s, cthread[t] \notin {"send", "talk"} \/ s = "talk",
             Client!Becomes(t, s),
             UNCHANGED <<calive, backlog, link>>
      PROVE  OwnerInv'
  <2>1. OnePlace'
    BY <1>0, <1>2 DEF OwnerInv, OnePlace, Queued, Served
  <2>2. InHand'
    BY <1>0, <1>2 DEF Client!Becomes, OwnerInv, InHand, Held, Queued, Served
  <2> QED
    BY <2>1, <2>2 DEF OwnerInv
<1>3. ASSUME NEW t \in Threads, Client!Connect(t) PROVE OwnerInv'
  <2>1. /\ link[t] = "none" /\ ~Queued(t) /\ ~Served(t) /\ accepted # t /\ t \notin slost
    BY <1>0, <1>3 DEF Client!Connect, OwnerInv, InHand, Held
  <2>2. /\ backlog' \in Seq(Threads) /\ Len(backlog') = Len(backlog) + 1
        /\ backlog'[Len(backlog) + 1] = t
        /\ \A i \in 1 .. Len(backlog) : backlog'[i] = backlog[i]
    BY <1>0, <1>3, AppendProperties DEF Client!Connect
  <2>3. \A i \in 1 .. Len(backlog') : i = Len(backlog) + 1 \/ i \in 1 .. Len(backlog)
    BY <1>0, <2>2
  <2>4. \A u \in Threads : Queued(u)' <=> Queued(u) \/ u = t
    BY <1>0, <2>2, <2>3 DEF Queued
  <2>5. \A u \in Threads : Served(u)' <=> Served(u)
    BY <1>0 DEF Served
  <2>6. OnePlace'
    <3>1. (\A v, w \in Workers : job[v] = job[w] /\ job[v] # Nobody => v = w)'
      BY <1>0 DEF OwnerInv, OnePlace
    <3>2. \A i \in 1 .. Len(backlog) : backlog[i] # t
      BY <2>1 DEF Queued
    <3>3. \A i, j \in 1 .. Len(backlog) : backlog[i] = backlog[j] => i = j
      BY DEF OwnerInv, OnePlace
    <3>4. (\A i, j \in 1 .. Len(backlog) : backlog[i] = backlog[j] => i = j)'
      BY <2>2, <2>3, <3>2, <3>3
    <3>5. \A u \in Threads :
            /\ Queued(u) => ~Served(u) /\ accepted # u /\ u \notin slost
            /\ Served(u) => accepted # u /\ u \notin slost
            /\ accepted = u => u \notin slost
      BY DEF OwnerInv, OnePlace
    <3>6. (\A u \in Threads :
            /\ Queued(u) => ~Served(u) /\ accepted # u /\ u \notin slost
            /\ Served(u) => accepted # u /\ u \notin slost
            /\ accepted = u => u \notin slost)'
      BY <1>0, <2>1, <2>4, <2>5, <3>5
    <3> QED
      BY <3>1, <3>4, <3>6 DEF OnePlace
  <2>7. InHand'
    BY <1>0, <1>3, <2>4, <2>5 DEF Client!Connect, Client!Becomes, OwnerInv, InHand, Held
  <2> QED
    BY <2>6, <2>7 DEF OwnerInv
<1>4. ASSUME NEW t \in Threads, Client!Fetch(t) PROVE OwnerInv'
  <2>1. OnePlace'
    BY <1>0, <1>4 DEF Client!Fetch, OwnerInv, OnePlace, Queued, Served
  <2>2. InHand'
    BY <1>0, <1>4 DEF Client!Fetch, Client!Becomes, OwnerInv, InHand, Held, Queued, Served
  <2> QED
    BY <2>1, <2>2 DEF OwnerInv
<1>5. ASSUME NEW t \in Threads, Client!Killed(t) PROVE OwnerInv'
  <2>1. OnePlace'
    BY <1>0, <1>5 DEF Client!Killed, OwnerInv, OnePlace, Queued, Served
  <2>2. \A u \in Threads : link[u] # "left"
    BY <1>0 DEF OwnerInv, InHand
  <2>3. \A u \in Threads : link'[u] = IF link[u] = "open" THEN "left" ELSE "none"
    BY <1>5 DEF Client!Killed
  <2>4. \A u \in Threads : Held(u)' <=> Held(u)
    BY <2>2, <2>3 DEF Held
  <2>5. \A u \in Threads : (Queued(u)' <=> Queued(u)) /\ (Served(u)' <=> Served(u))
    BY <1>0, <1>5 DEF Client!Killed, Queued, Served
  <2>6. InHand'
    BY <1>0, <1>5, <2>3, <2>4, <2>5 DEF Client!Killed, OwnerInv, InHand
  <2> QED
    BY <2>1, <2>6 DEF OwnerInv
<1> QED
  BY <1>1, <1>2, <1>3, <1>4, <1>5 DEF ClientNext, Client!Wait, Client!Count, Client!WakeUp,
     Client!Create, Client!CreateFails, Client!ConnectFails, Client!Send, Client!End, Client!Return

(* The main loop of the server and its threads pass a connection on.       *)
LEMMA ServerOwners ==
  ASSUME PoolConstants, PoolInv, OwnerInv, ServerNext
  PROVE  OwnerInv'
<1>0. /\ UNCHANGED <<cthread, calive>>
      /\ backlog \in Seq(Threads) /\ Len(backlog) \in Nat
      /\ link \in [Threads -> {"none", "open", "shut", "left"}]
      /\ worker \in [Workers -> {"none", "start", "serve", "end", "leave"}]
      /\ job \in [Workers -> Threads \cup {Nobody}]
      /\ accepted \in Threads \cup {Nobody} /\ Nobody \notin Threads
      /\ passed => accepted \in Threads
      /\ slost \subseteq Threads
  BY LenProperties DEF ServerNext, client, PoolInv, TypeOK, ServerCount, PoolConstants
<1>1. ASSUME Server!Accept PROVE OwnerInv'
  <2>1. /\ accepted = Nobody /\ accepted' = Head(backlog) /\ backlog' = Tail(backlog)
        /\ backlog # << >>
        /\ UNCHANGED <<passed, worker, job, slost, link>>
    BY <1>1 DEF Server!Accept
  <2>2. /\ accepted' = backlog[1] /\ 1 \in 1 .. Len(backlog)
        /\ Len(backlog') = Len(backlog) - 1
        /\ \A i \in 1 .. Len(backlog') : backlog'[i] = backlog[i + 1]
    BY <1>0, <2>1, HeadTailProperties, EmptySeq
  <2>3. \A i \in 1 .. Len(backlog') : i + 1 \in 1 .. Len(backlog)
    BY <1>0, <2>2
  <2>4. \A i \in 1 .. Len(backlog) : i = 1 \/ (i - 1 \in 1 .. Len(backlog') /\ i - 1 + 1 = i)
    BY <1>0, <2>2
  <2>5. \A u \in Threads : Queued(u)' <=> Queued(u) /\ u # accepted'
    <3>1. \A i \in 1 .. Len(backlog') : backlog'[i] # accepted'
      <4>1. \A i \in 1 .. Len(backlog') : i + 1 # 1
        BY <1>0, <2>2
      <4> QED
        BY <2>2, <2>3, <4>1 DEF OwnerInv, OnePlace
    <3>2. \A i \in 1 .. Len(backlog) : backlog[i] # accepted' =>
             \E j \in 1 .. Len(backlog') : backlog'[j] = backlog[i]
      BY <2>2, <2>4
    <3> QED
      BY <2>2, <2>3, <3>1, <3>2 DEF Queued
  <2>6. \A u \in Threads : Served(u)' <=> Served(u)
    BY <2>1 DEF Served
  <2>7. accepted' \in Threads /\ Queued(accepted')
    BY <1>0, <2>2, ElementOfSeq DEF Queued
  <2>8. \A i, j \in 1 .. Len(backlog') : backlog'[i] = backlog'[j] => i = j
    <3>1. SUFFICES ASSUME NEW i \in 1 .. Len(backlog'), NEW j \in 1 .. Len(backlog'),
                          backlog'[i] = backlog'[j]
                   PROVE  i = j
      OBVIOUS
    <3>2. i + 1 = j + 1
      BY <2>2, <2>3, <3>1 DEF OwnerInv, OnePlace
    <3> QED
      BY <1>0, <2>2, <3>2
  <2>9. OnePlace'
    BY <1>0, <2>1, <2>5, <2>6, <2>7, <2>8 DEF OwnerInv, OnePlace
  <2>10. InHand'
    BY <1>0, <2>1, <2>5, <2>6, <2>7 DEF OwnerInv, InHand, Held
  <2> QED
    BY <2>9, <2>10 DEF OwnerInv
<1>2. ASSUME Server!Refuse PROVE OwnerInv'
  <2>1. OnePlace'
    BY <1>0, <1>2 DEF Server!Refuse, OwnerInv, OnePlace, Queued, Served
  <2>2. InHand'
    <3>1. \A t \in Threads : Held(t)' <=> Held(t) /\ t # accepted
      BY <1>0, <1>2 DEF Server!Refuse, Server!Shut, Held
    <3>2. \A t \in Threads : accepted = t => ~Queued(t) /\ ~Served(t) /\ t \notin slost
      BY DEF OwnerInv, OnePlace
    <3>3. \A t \in Threads : /\ link'[t] \in {"open", "shut"} => link[t] \in {"open", "shut"}
                             /\ link'[t] = "left" => link[t] = "left"
      BY <1>0, <1>2 DEF Server!Refuse, Server!Shut, OwnerInv, InHand, Held
    <3> QED
      BY <1>0, <1>2, <3>1, <3>2, <3>3 DEF Server!Refuse, OwnerInv, InHand, Queued, Served
  <2> QED
    BY <2>1, <2>2 DEF OwnerInv
<1>3. ASSUME Server!Pass PROVE OwnerInv'
  BY <1>0, <1>3 DEF Server!Pass, OwnerInv, OnePlace, InHand, Held, Queued, Served
<1>4. ASSUME Server!Create PROVE OwnerInv'
  <2>1. PICK w \in Workers :
          /\ worker[w] = "none"
          /\ worker' = [worker EXCEPT ![w] = "start"] /\ job' = [job EXCEPT ![w] = accepted]
    BY <1>4 DEF Server!Create
  <2>2. /\ accepted \in Threads /\ accepted' = Nobody
        /\ UNCHANGED <<slost, backlog, link>>
    BY <1>0, <1>4 DEF Server!Create
  <2>3. job[w] = Nobody
    BY <2>1 DEF OwnerInv, InHand
  <2>4. \A u \in Threads : Served(u)' <=> Served(u) \/ u = accepted
    BY <1>0, <2>1, <2>3 DEF Served
  <2>5. \A u \in Threads : Queued(u)' <=> Queued(u)
    BY <2>2 DEF Queued
  <2>6. OnePlace'
    <3>1. \A v \in Workers : job[v] # accepted
      BY <2>2 DEF OwnerInv, OnePlace, Served
    <3>2. \A u, v \in Workers : job'[u] = job'[v] /\ job'[u] # Nobody => u = v
      BY <1>0, <2>1, <3>1 DEF OwnerInv, OnePlace
    <3> QED
      BY <1>0, <2>2, <2>4, <2>5, <3>2 DEF OwnerInv, OnePlace
  <2>7. InHand'
    BY <1>0, <2>1, <2>2, <2>4, <2>5 DEF OwnerInv, InHand, Held
  <2> QED
    BY <2>6, <2>7 DEF OwnerInv
<1>5. ASSUME Server!CreateFails PROVE OwnerInv'
  <2>1. OnePlace'
    BY <1>0, <1>5 DEF Server!CreateFails, OwnerInv, OnePlace, Queued, Served
  <2>2. InHand'
    BY <1>0, <1>5 DEF Server!CreateFails, OwnerInv, InHand, Held, Queued, Served
  <2> QED
    BY <2>1, <2>2 DEF OwnerInv
<1>6. ASSUME NEW w \in Workers, Server!Start(w) \/ Server!End(w) \/ Server!Return(w)
      PROVE  OwnerInv'
  BY <1>0, <1>6 DEF Server!Start, Server!End, Server!Return, OwnerInv, OnePlace, InHand, Held, Queued, Served
<1>7. ASSUME NEW w \in Workers, Server!Serve(w) PROVE OwnerInv'
  <2>1. /\ worker[w] = "serve" /\ worker' = [worker EXCEPT ![w] = "end"]
        /\ link' = [link EXCEPT ![job[w]] = IF @ = "left" THEN "none" ELSE "shut"]
        /\ job' = [job EXCEPT ![w] = Nobody]
        /\ UNCHANGED <<accepted, slost, backlog>>
    BY <1>7 DEF Server!Serve, Server!Shut
  <2>2. job[w] \in Threads
    BY <1>0, <2>1 DEF OwnerInv, InHand
  <2>3. \A u \in Threads : Served(u)' <=> Served(u) /\ u # job[w]
    BY <1>0, <2>1, <2>2 DEF Served, OwnerInv, OnePlace
  <2>4. \A u \in Threads : Queued(u)' <=> Queued(u)
    BY <2>1 DEF Queued
  <2>5. OnePlace'
    BY <1>0, <2>1, <2>3, <2>4 DEF OwnerInv, OnePlace
  <2>6. InHand'
    <3>1. \A t \in Threads : Held(t)' <=> Held(t) /\ t # job[w]
      BY <1>0, <2>1 DEF Held
    <3>2. link[job[w]] \in {"open", "left"}
      BY <2>2 DEF OwnerInv, InHand, Held, Served
    <3>3. \A t \in Threads : /\ link'[t] \in {"open", "shut"} => link[t] \in {"open", "shut"}
                             /\ link'[t] = "left" => link[t] = "left"
      BY <1>0, <2>1, <3>2
    <3>4. Served(job[w])
      BY DEF Served
    <3> QED
      BY <1>0, <2>1, <2>2, <2>3, <2>4, <3>1, <3>3, <3>4 DEF OwnerInv, OnePlace, InHand
  <2> QED
    BY <2>5, <2>6 DEF OwnerInv
<1>8. ASSUME Server!Dies PROVE OwnerInv'
  <2>1. /\ \A u \in Threads : ~Queued(u)' /\ ~Served(u)' /\ accepted' # u /\ u \notin slost'
        /\ \A w \in Workers : job'[w] = Nobody /\ worker'[w] = "none"
        /\ backlog' = << >>
    BY <1>0, <1>8 DEF Server!Dies, Queued, Served
  <2>2. \A u \in Threads : link'[u] \in {"none", "shut"}
    BY <1>0, <1>8 DEF Server!Dies
  <2>3. \A u \in Threads : link'[u] = "shut" => link[u] \in {"open", "shut"}
    BY <1>0, <1>8 DEF Server!Dies
  <2>4. OnePlace'
    BY <2>1 DEF OnePlace
  <2>5. InHand'
    BY <1>0, <2>1, <2>2, <2>3 DEF OwnerInv, InHand, Held
  <2> QED
    BY <2>4, <2>5 DEF OwnerInv
<1> QED
  BY <1>1, <1>2, <1>3, <1>4, <1>5, <1>6, <1>7, <1>8 DEF ServerNext

LEMMA OwnerInvariant == Spec => []OwnerInv
<1>1. Init => OwnerInv
  BY PoolConstants, OwnerInit
<1>2. PoolInv /\ OwnerInv /\ [Next]_vars => OwnerInv'
  <2> SUFFICES ASSUME PoolInv, OwnerInv, [Next]_vars PROVE OwnerInv'
    OBVIOUS
  <2>1. CASE UNCHANGED vars
    BY <2>1 DEF vars, client, server, OwnerInv, OnePlace, InHand, Held, Queued, Served
  <2> QED
    BY <2>1, PoolConstants, ClientOwners, ServerOwners DEF Next
<1> QED
  BY <1>1, <1>2, PoolInvariant, PTL DEF Spec

(* A set with one element, or none, as it is counted.                      *)
LEMMA AtMostOne ==
  ASSUME NEW S, \A x, y \in S : x = y
  PROVE  Cardinality(S) = IF S = {} THEN 0 ELSE 1
<1>1. CASE S = {}
  BY <1>1, FS_EmptySet
<1>2. CASE S # {}
  <2>1. PICK x \in S : TRUE
    BY <1>2
  <2>2. S = {x}
    BY <2>1
  <2> QED
    BY <1>2, <2>2, FS_Singleton
<1> QED
  BY <1>1, <1>2

(* Whatever the two programs do and whichever threads cannot be started, a *)
(* connection has one owner as long as it is open and none afterwards.     *)
THEOREM ConnectionsHaveOneOwner == Spec => []OneOwner
<1>1. PoolInv /\ OwnerInv => OneOwner
  <2> SUFFICES ASSUME PoolInv, OwnerInv, NEW t \in Threads
               PROVE  Cardinality({w \in Workers : job[w] = t})
                        + Cardinality({i \in DOMAIN backlog : backlog[i] = t})
                        + (IF accepted = t THEN 1 ELSE 0) + (IF t \in slost THEN 1 ELSE 0)
                      = IF link[t] \in {"open", "left"} THEN 1 ELSE 0
    BY DEF OneOwner
  <2> DEFINE W == {w \in Workers : job[w] = t}
             B == {i \in DOMAIN backlog : backlog[i] = t}
  <2>1. DOMAIN backlog = 1 .. Len(backlog) /\ t # Nobody
    BY PoolConstants, LenProperties DEF PoolConstants, PoolInv, TypeOK
  <2>2. (\A x, y \in W : x = y) /\ (\A x, y \in B : x = y)
    BY <2>1 DEF OwnerInv, OnePlace
  <2>3. (W # {} <=> Served(t)) /\ (B # {} <=> Queued(t))
    BY <2>1 DEF Served, Queued
  <2> HIDE DEF W, B
  <2>4. /\ Cardinality(W) = IF Served(t) THEN 1 ELSE 0
        /\ Cardinality(B) = IF Queued(t) THEN 1 ELSE 0
    BY <2>2, <2>3, AtMostOne
  <2>5. /\ Queued(t) => ~Served(t) /\ accepted # t /\ t \notin slost
        /\ Served(t) => accepted # t /\ t \notin slost
        /\ accepted = t => t \notin slost
        /\ link[t] \in {"open", "left"} <=> Queued(t) \/ Served(t) \/ accepted = t \/ t \in slost
    BY DEF OwnerInv, OnePlace, InHand, Held
  <2>6. Cardinality(W) + Cardinality(B) + (IF accepted = t THEN 1 ELSE 0)
          + (IF t \in slost THEN 1 ELSE 0) = IF link[t] \in {"open", "left"} THEN 1 ELSE 0
    <3> HIDE DEF Queued, Served
    <3> QED
      BY <2>4, <2>5
  <2> QED
    BY <2>6 DEF W, B
<1> QED
  BY <1>1, PoolInvariant, OwnerInvariant, PTL
=============================================================================
