---------------------------- MODULE FdPassProofs ----------------------------
(***************************************************************************)
(* Proofs about the test server that passes descriptors, for every number  *)
(* of connections and lines and every size of the socket pair.             *)
(***************************************************************************)
EXTENDS FdPass, SequenceTheorems, TLAPS

(* Where a connection can be, and what its client has heard then: it is in *)
(* the backlog and with the parent before its active process exists; it is *)
(* in the socket pair, once, or with the standby process only after that   *)
(* process has announced the pass and stopped talking.                     *)
InPair(c) == \E i \in 1 .. Len(pair) : pair[i] = c

NotYet(c) == active[c] = "none" /\ c # csock /\ c \notin backlog

Passed(c) == InPair(c) \/ fd = c

LastHeard(c, what) == Len(heard[c]) > 0 /\ heard[c][Len(heard[c])] = what

Stages ==
  /\ \A c \in Conns : link[c] = "none" => NotYet(c)
  /\ \A c \in backlog : active[c] = "none" /\ c # csock
  /\ parent = "fork" => active[csock] = "none"
  /\ \A c \in Conns : active[c] \in {"none", "read"} =>
       \A i \in 1 .. Len(heard[c]) : heard[c][i] = "echo"
  /\ \A c \in Conns : active[c] = "pass" => LastHeard(c, "pass")
  /\ \A c \in Conns : InPair(c) => LastHeard(c, "pass") /\ fd # c
  /\ \A c \in Conns : fd = c /\ standby = "write" => LastHeard(c, "pass")
  /\ \A c \in Conns : Passed(c) => active[c] \in {"exit", "exited"}
  /\ \A i, j \in 1 .. Len(pair) : pair[i] = pair[j] => i = j

FdInv == TypeOK /\ WaitsAccounted /\ PassThenTakeOver /\ Stages

-----------------------------------------------------------------------------

(* A read takes lines from the front and leaves a sequence of lines.       *)
LEMMA ReadsType ==
  ASSUME TypeOK, NEW c \in Conns, NEW l \in Lines, Reads(c, l)
  PROVE  unread' \in [Conns -> Seq(Lines)]
<1>1. PICK n \in 1 .. Len(unread[c]) :
        unread' = [unread EXCEPT ![c] = SubSeq(@, n + 1, Len(@))]
  BY DEF Reads
<1>2. unread[c] \in Seq(Lines)
  BY DEF TypeOK
<1>3. SubSeq(unread[c], n + 1, Len(unread[c])) \in Seq(Lines)
  BY <1>2, SubSeqProperties, LenProperties
<1> QED
  BY <1>1, <1>3 DEF TypeOK

(* What a client hears stays a sequence of the three messages.             *)
LEMMA TellsType ==
  ASSUME TypeOK, NEW c \in Conns, NEW m \in {"echo", "pass", "takeover"}, Tells(c, m)
  PROVE  heard' \in [Conns -> Seq({"echo", "pass", "takeover"})]
<1>1. heard[c] \in Seq({"echo", "pass", "takeover"})
  BY DEF TypeOK
<1>2. Append(heard[c], m) \in Seq({"echo", "pass", "takeover"})
  BY <1>1, AppendProperties
<1> QED
  BY <1>2 DEF TypeOK, Tells

LEMMA InitInv == ASSUME FdPassConstants, Init PROVE FdInv
<1>1. TypeOK
  <2>1. unread \in [Conns -> Seq(Lines)] /\ pair \in Seq(Conns)
    BY DEF Init
  <2>2. heard \in [Conns -> Seq({"echo", "pass", "takeover"})]
    BY DEF Init
  <2>3. zombies \in Nat /\ stops \in 0 .. MaxStops /\ said \in 0 .. MaxLines
    BY DEF FdPassConstants, Init
  <2>4. sigchld \in BOOLEAN /\ handling \in BOOLEAN
    BY DEF Init
  <2>5. link \in [Conns -> {"none", "up", "gone"}]
        /\ active \in [Conns -> {"none", "read", "pass", "exit", "exited"}]
    BY DEF Init
  <2> QED
    BY <2>1, <2>2, <2>3, <2>4, <2>5 DEF Init, TypeOK
<1>2. PassThenTakeOver /\ WaitsAccounted
  BY DEF Init, PassThenTakeOver, WaitsAccounted
<1>3. Stages
  BY DEF FdPassConstants, Init, Stages, NotYet, InPair, Passed, LastHeard
<1> QED
  BY <1>1, <1>2, <1>3 DEF FdInv

(* One step keeps the types.                                               *)
LEMMA TypeStep == ASSUME FdPassConstants, FdInv, [Next]_vars PROVE TypeOK'
<1> USE DEF FdInv, WaitsAccounted
<1> SUFFICES ASSUME TypeOK PROVE TypeOK'
  OBVIOUS
<1>1. ASSUME NEW c \in Conns, Connect(c) \/ Leave(c) PROVE TypeOK'
  BY <1>1 DEF TypeOK, Connect, Leave, client
<1>2. ASSUME NEW c \in Conns, Say(c) PROVE TypeOK'
  <2>1. PICK l \in Lines : unread' = [unread EXCEPT ![c] = Append(@, l)]
    BY <1>2 DEF Say
  <2>2. Append(unread[c], l) \in Seq(Lines)
    BY AppendProperties DEF TypeOK
  <2> QED
    BY <1>2, <2>1, <2>2 DEF TypeOK, Say, FdPassConstants
<1>3. ASSUME NEW c \in Conns, Echo(c) \/ AnnouncePass(c) PROVE TypeOK'
  BY <1>3, ReadsType, TellsType DEF TypeOK, Echo, AnnouncePass, Lines, client
<1>4. ASSUME NEW c \in Conns, SendFd(c) PROVE TypeOK'
  <2>1. Append(pair, c) \in Seq(Conns)
    BY AppendProperties DEF TypeOK
  <2> QED
    BY <1>4, <2>1 DEF TypeOK, SendFd, client
<1>5. ASSUME NEW c \in Conns, ActiveExits(c) \/ SendFdFails(c) PROVE TypeOK'
  <2>1. unread' \in [Conns -> Seq(Lines)] /\ Exits(c)
    <3>1. CASE Reads(c, "blank") /\ Exits(c)
      BY <3>1, ReadsType DEF Lines
    <3>2. CASE UNCHANGED unread /\ Exits(c)
      BY <3>2 DEF TypeOK
    <3>3. CASE unread' = [unread EXCEPT ![c] = << >>] /\ Exits(c)
      BY <3>3 DEF TypeOK
    <3> QED
      BY <1>5, <3>1, <3>2, <3>3 DEF ActiveExits, SendFdFails
  <2> QED
    BY <2>1 DEF TypeOK, Exits, ChildEnds, client
<1>6. CASE ParentStep \/ ParentExits
  <2>1. CASE Accept
    BY <2>1 DEF TypeOK, Accept, client, FdPassConstants
  <2>2. CASE Fork
    BY <2>2 DEF TypeOK, Fork, client
  <2>3. CASE CloseCopy \/ ParentExits
    BY <2>3 DEF TypeOK, CloseCopy, ParentExits, client
  <2>4. CASE Signal
    BY <2>4 DEF TypeOK, Signal, client
  <2>5. CASE Wait
    <3>1. zombies' \in Nat
      BY <2>5 DEF TypeOK, Wait
    <3>2. handling' \in BOOLEAN /\ sigchld' \in BOOLEAN
      BY <2>5 DEF TypeOK, Wait
    <3> QED
      BY <2>5, <3>1, <3>2 DEF TypeOK, Wait, client
  <2> QED
    BY <1>6, <2>1, <2>2, <2>3, <2>4, <2>5 DEF ParentStep
<1>7. CASE RecvFd
  <2>1. Head(pair) \in Conns /\ Tail(pair) \in Seq(Conns)
    BY <1>7, HeadTailProperties DEF RecvFd, TypeOK
  <2> QED
    BY <1>7, <2>1 DEF RecvFd, TypeOK, FdPassConstants, client
<1>8. CASE TakeOver
  <2>1. fd \in Conns
    BY <1>8 DEF TakeOver, TypeOK
  <2> QED
    BY <1>8, <2>1, TellsType DEF TakeOver, TypeOK, client
<1>9. CASE CloseFd \/ StandbyExits \/ RecvFdFails
  <2>1. CASE CloseFd
    BY <2>1 DEF CloseFd, TypeOK, client
  <2>2. CASE StandbyEnds
    <3>1. zombies' \in Nat /\ sigchld' \in BOOLEAN
      BY <2>2 DEF StandbyEnds, ChildEnds, TypeOK
    <3> QED
      BY <2>2, <3>1 DEF StandbyEnds, TypeOK, client
  <2> QED
    BY <1>9, <2>1, <2>2 DEF StandbyExits, RecvFdFails
<1>10. CASE UNCHANGED vars
  BY <1>10 DEF vars, TypeOK
<1>11. CASE Stops
  <2>1. sigchld' \in BOOLEAN
    BY <1>11 DEF Stops
  <2> QED
    BY <1>11, <2>1 DEF Stops, TypeOK, FdPassConstants, client
<1> QED
  BY <1>1, <1>2, <1>3, <1>4, <1>5, <1>6, <1>7, <1>8, <1>9, <1>10, <1>11
  DEF Next, ActiveStep, StandbyStep

(* One step keeps the account of the children.                             *)
LEMMA AccountStep == ASSUME FdInv, [Next]_vars PROVE WaitsAccounted'
  BY DEF FdInv, TypeOK, WaitsAccounted, Next, vars, client, Connect, Say, Leave, ActiveStep, Echo,
         AnnouncePass, SendFd, SendFdFails, ActiveExits, Exits, ChildEnds, Stops, ParentStep, Accept,
         Fork, CloseCopy, Signal, Wait, ParentExits, StandbyStep, RecvFd, TakeOver, CloseFd,
         StandbyExits, RecvFdFails, StandbyEnds

(* What a client is told next: an echo or the pass after echoes only, the  *)
(* take-over right after the pass.                                         *)
LEMMA TellsInOrder ==
  ASSUME TypeOK, PassThenTakeOver, NEW c \in Conns, NEW m, Tells(c, m),
         \/ /\ m \in {"echo", "pass"}
            /\ \A i \in 1 .. Len(heard[c]) : heard[c][i] = "echo"
         \/ m = "takeover" /\ LastHeard(c, "pass")
  PROVE  /\ PassThenTakeOver'
         /\ LastHeard(c, m)'
         /\ m = "echo" => \A i \in 1 .. Len(heard'[c]) : heard'[c][i] = "echo"
<1>1. heard[c] \in Seq({"echo", "pass", "takeover"})
  BY DEF TypeOK
<1>2. /\ Len(heard'[c]) = Len(heard[c]) + 1
      /\ \A i \in 1 .. Len(heard[c]) : heard'[c][i] = heard[c][i]
      /\ heard'[c][Len(heard[c]) + 1] = m
  <2>1. heard'[c] = Append(heard[c], m)
    BY DEF Tells, TypeOK
  <2> QED
    BY <1>1, <2>1, AppendProperties
<1>3. \A d \in Conns : d # c => heard'[d] = heard[d]
  BY DEF Tells, TypeOK
<1>4. Len(heard[c]) \in Nat
  BY <1>1, LenProperties
<1>5. ASSUME NEW i \in 1 .. Len(heard'[c])
      PROVE  /\ heard'[c][i] = "pass" => i = Len(heard'[c]) \/
                  (i + 1 = Len(heard'[c]) /\ heard'[c][i+1] = "takeover")
             /\ heard'[c][i] = "takeover" =>
                  i = Len(heard'[c]) /\ i > 1 /\ heard'[c][i-1] = "pass"
  <2>1. CASE i = Len(heard[c]) + 1
    BY <1>2, <1>4, <2>1 DEF LastHeard
  <2>2. CASE i \in 1 .. Len(heard[c])
    <3>1. /\ heard[c][i] = "pass" => i = Len(heard[c]) \/
                  (i + 1 = Len(heard[c]) /\ heard[c][i+1] = "takeover")
          /\ heard[c][i] = "takeover" => i = Len(heard[c])
      BY <2>2 DEF PassThenTakeOver
    <3>2. heard'[c][i] = heard[c][i]
      BY <1>2, <2>2
    <3>3. heard'[c][i] = "takeover" => FALSE
      BY <2>2, <3>1, <3>2 DEF LastHeard
    <3>4. heard'[c][i] = "pass" => i = Len(heard[c]) /\ m = "takeover"
      BY <1>4, <2>2, <3>1, <3>2 DEF LastHeard
    <3> QED
      BY <1>2, <1>4, <3>3, <3>4
  <2> QED
    BY <1>2, <1>4, <2>1, <2>2
<1>6. PassThenTakeOver'
  BY <1>3, <1>5 DEF PassThenTakeOver
<1>7. LastHeard(c, m)'
  BY <1>2, <1>4 DEF LastHeard
<1> QED
  BY <1>2, <1>4, <1>6, <1>7

(* A step that leaves the descriptors and the messages alone.              *)
LEMMA StagesFrame ==
  ASSUME Stages, PassThenTakeOver, UNCHANGED <<heard, pair, fd, standby>>,
         \A c \in Conns : active'[c] # active[c] => active'[c] \in {"exit", "exited"},
         \A c \in Conns : link'[c] = "none" => NotYet(c)',
         \A c \in backlog' : active'[c] = "none" /\ c # csock',
         parent' = "fork" => active'[csock'] = "none"
  PROVE  Stages' /\ PassThenTakeOver'
  BY DEF Stages, PassThenTakeOver, Passed, InPair, LastHeard

(* One step keeps the order of the messages and the stages of the          *)
(* connections.                                                            *)
LEMMA StageStep ==
  ASSUME FdPassConstants, FdInv, [Next]_vars
  PROVE  PassThenTakeOver' /\ Stages'
<1> USE DEF FdInv
<1>1. ASSUME NEW c \in Conns, Connect(c) \/ Say(c) \/ Leave(c)
      PROVE  PassThenTakeOver' /\ Stages'
  <2>1. UNCHANGED <<heard, pair, fd, standby, active, csock, parent>>
    BY <1>1 DEF Connect, Say, Leave
  <2>2. \A d \in Conns : link'[d] = "none" => NotYet(d)'
    BY <1>1 DEF Connect, Say, Leave, Stages, NotYet, TypeOK
  <2>3. \A d \in backlog' : active'[d] = "none" /\ d # csock'
    BY <1>1, <2>1 DEF Connect, Say, Leave, Stages, NotYet
  <2> QED
    BY <2>1, <2>2, <2>3, StagesFrame DEF Stages
<1>2. CASE ParentStep \/ ParentExits \/ Stops
  <2>1. CASE Accept
    <3>1. PICK b \in backlog : csock' = b /\ backlog' = backlog \ {b}
      BY <2>1 DEF Accept
    <3> QED
      BY <2>1, <3>1, StagesFrame DEF Accept, Stages, NotYet, TypeOK, client
  <2>2. CASE Fork
    <3>1. csock \in Conns /\ active[csock] = "none"
      BY <2>2 DEF Fork, Stages, TypeOK
    <3>2. \A i \in 1 .. Len(heard[csock]) : heard[csock][i] = "echo"
      BY <3>1 DEF Stages
    <3>3. \A d \in Conns : active'[d] = IF d = csock THEN "read" ELSE active[d]
      BY <2>2, <3>1 DEF Fork, TypeOK
    <3>4. UNCHANGED <<heard, pair, fd, standby, csock, backlog, link>> /\ parent' = "close"
      BY <2>2 DEF Fork, client
    <3>5. backlog \subseteq Conns
      BY DEF TypeOK
    <3>6. ~Passed(csock)
      BY <3>1 DEF Stages
    <3> QED
      BY <3>1, <3>2, <3>3, <3>4, <3>5, <3>6
      DEF Stages, NotYet, PassThenTakeOver, Passed, InPair, LastHeard
  <2>3. CASE CloseCopy \/ ParentExits
    <3>1. Nobody \notin Conns
      BY DEF FdPassConstants
    <3> QED
      BY <2>3, <3>1, StagesFrame DEF CloseCopy, ParentExits, Stages, NotYet, TypeOK, client
  <2>4. CASE Signal \/ Wait \/ Stops
    BY <2>4, StagesFrame DEF Signal, Wait, Stops, Stages, NotYet, client
  <2> QED
    BY <1>2, <2>1, <2>2, <2>3, <2>4 DEF ParentStep
<1>3. ASSUME NEW c \in Conns, Echo(c) PROVE PassThenTakeOver' /\ Stages'
  <2>1. active[c] = "read" /\ Tells(c, "echo")
    BY <1>3 DEF Echo, Reads
  <2>2. \A i \in 1 .. Len(heard[c]) : heard[c][i] = "echo"
    BY <2>1 DEF Stages
  <2>3. PassThenTakeOver' /\ \A i \in 1 .. Len(heard'[c]) : heard'[c][i] = "echo"
    BY <2>1, <2>2, TellsInOrder
  <2>4. \A d \in Conns : d # c => heard'[d] = heard[d] /\ active'[d] = active[d]
    BY <1>3, <2>1 DEF Tells, TypeOK, Echo
  <2>5. active'[c] = "read"
    BY <1>3, <2>1 DEF Echo, TypeOK
  <2>6. UNCHANGED <<pair, fd, standby, csock, backlog, link, parent>>
    BY <1>3 DEF Echo, client
  <2>7. ~Passed(c) /\ (parent = "fork" => c # csock) /\ c \notin backlog /\ link[c] # "none"
    BY <2>1 DEF Stages, NotYet
  <2>8. backlog \subseteq Conns /\ (parent = "fork" => csock \in Conns)
    BY DEF TypeOK
  <2> QED
    BY <2>3, <2>4, <2>5, <2>6, <2>7, <2>8 DEF Stages, NotYet, Passed, InPair, LastHeard
<1>10. ASSUME NEW c \in Conns, AnnouncePass(c) PROVE PassThenTakeOver' /\ Stages'
  <2>1. active[c] = "read" /\ Tells(c, "pass")
    BY <1>10 DEF AnnouncePass, Reads
  <2>2. \A i \in 1 .. Len(heard[c]) : heard[c][i] = "echo"
    BY <2>1 DEF Stages
  <2>3. PassThenTakeOver' /\ LastHeard(c, "pass")'
    BY <2>1, <2>2, TellsInOrder
  <2>4. \A d \in Conns : d # c => heard'[d] = heard[d] /\ active'[d] = active[d]
    BY <1>10, <2>1 DEF Tells, TypeOK, AnnouncePass
  <2>5. active'[c] = "pass"
    BY <1>10, <2>1 DEF AnnouncePass, TypeOK
  <2>6. UNCHANGED <<pair, fd, standby, csock, backlog, link, parent>>
    BY <1>10 DEF AnnouncePass, client
  <2>7. ~Passed(c) /\ (parent = "fork" => c # csock) /\ c \notin backlog /\ link[c] # "none"
    BY <2>1 DEF Stages, NotYet
  <2>8. backlog \subseteq Conns /\ (parent = "fork" => csock \in Conns)
    BY DEF TypeOK
  <2> QED
    BY <2>3, <2>4, <2>5, <2>6, <2>7, <2>8 DEF Stages, NotYet, Passed, InPair, LastHeard
<1>4. ASSUME NEW c \in Conns, SendFd(c) PROVE PassThenTakeOver' /\ Stages'
  <2>1. /\ active[c] = "pass" /\ active' = [active EXCEPT ![c] = "exit"]
        /\ pair' = Append(pair, c)
        /\ UNCHANGED <<heard, fd, standby, csock, backlog, link, parent>>
    BY <1>4 DEF SendFd, client
  <2>2. /\ Len(pair') = Len(pair) + 1 /\ Len(pair) \in Nat
        /\ \A i \in 1 .. Len(pair) : pair'[i] = pair[i]
        /\ pair'[Len(pair) + 1] = c
    BY <2>1, AppendProperties, LenProperties DEF TypeOK
  <2>3. LastHeard(c, "pass") /\ ~InPair(c) /\ fd # c /\ link[c] # "none" /\ c \notin backlog
    BY <2>1 DEF Stages, Passed, NotYet
  <2>4. \A d \in Conns : active'[d] = IF d = c THEN "exit" ELSE active[d]
    BY <2>1 DEF TypeOK
  <2>5. \A d \in Conns : InPair(d)' <=> InPair(d) \/ d = c
    BY <2>2 DEF InPair
  <2>6. \A i, j \in 1 .. Len(pair') : pair'[i] = pair'[j] => i = j
    BY <2>2, <2>3 DEF Stages, InPair
  <2>7. backlog \subseteq Conns /\ (parent = "fork" => csock \in Conns)
    BY DEF TypeOK
  <2>8. \A d \in Conns : (LastHeard(d, "pass"))' <=> LastHeard(d, "pass")
    BY <2>1 DEF LastHeard
  <2>9. PassThenTakeOver'
    BY <2>1 DEF PassThenTakeOver
  <2> QED
    BY <2>1, <2>3, <2>4, <2>5, <2>6, <2>7, <2>8, <2>9 DEF Stages, NotYet, Passed
<1>5. ASSUME NEW c \in Conns, ActiveExits(c) \/ SendFdFails(c)
      PROVE  PassThenTakeOver' /\ Stages'
  <2>1. active[c] \in {"read", "pass", "exit"} /\ Exits(c)
    BY <1>5 DEF ActiveExits, SendFdFails, Reads
  <2>2. \A d \in Conns : active'[d] = IF d = c THEN "exited" ELSE active[d]
    BY <2>1 DEF Exits, TypeOK
  <2>3. backlog \subseteq Conns /\ (parent = "fork" => csock \in Conns)
    BY DEF TypeOK
  <2> QED
    BY <2>1, <2>2, <2>3, StagesFrame DEF Exits, Stages, NotYet, client
<1>6. CASE RecvFd
  <2>1. pair \in Seq(Conns) /\ pair # << >> /\ standby = "recv" /\ fd' = Head(pair) /\ pair' = Tail(pair)
    BY <1>6 DEF RecvFd, TypeOK
  <2>2. /\ Len(pair') = Len(pair) - 1 /\ Len(pair) \in Nat /\ Len(pair) > 0
        /\ fd' = pair[1] /\ fd' \in Conns
        /\ \A i \in 1 .. Len(pair') : pair'[i] = pair[i + 1]
    BY <2>1, HeadTailProperties, LenProperties, EmptySeq
  <2>3. \A d \in Conns : InPair(d)' => InPair(d) /\ d # fd'
    BY <2>2 DEF InPair, Stages
  <2>4. InPair(fd')
    BY <2>2 DEF InPair
  <2>5. \A i, j \in 1 .. Len(pair') : pair'[i] = pair'[j] => i = j
    BY <2>2 DEF Stages
  <2>6. UNCHANGED <<heard, active, csock, backlog, link, parent>>
    BY <1>6 DEF RecvFd, client
  <2>7. \A d \in Conns : (LastHeard(d, "pass"))' <=> LastHeard(d, "pass")
    BY <2>6 DEF LastHeard
  <2>8. PassThenTakeOver'
    BY <2>6 DEF PassThenTakeOver
  <2> QED
    BY <2>2, <2>3, <2>4, <2>5, <2>6, <2>7, <2>8 DEF Stages, NotYet, Passed
<1>7. CASE TakeOver
  <2>1. fd \in Conns /\ standby = "write" /\ Tells(fd, "takeover") /\ standby' = "close"
    BY <1>7 DEF TakeOver, TypeOK
  <2>2. LastHeard(fd, "pass") /\ ~InPair(fd) /\ active[fd] \in {"exit", "exited"}
    BY <2>1 DEF Stages, Passed
  <2>3. PassThenTakeOver'
    BY <2>1, <2>2, TellsInOrder
  <2>4. \A d \in Conns : d # fd => heard'[d] = heard[d]
    BY <2>1 DEF Tells, TypeOK
  <2>5. UNCHANGED <<active, csock, backlog, link, parent, fd, pair>>
    BY <1>7 DEF TakeOver, client
  <2> QED
    BY <2>1, <2>2, <2>3, <2>4, <2>5 DEF Stages, NotYet, Passed, InPair, LastHeard
<1>8. CASE CloseFd \/ StandbyExits \/ RecvFdFails
  <2>1. /\ fd' = Nobody /\ Nobody \notin Conns
        /\ UNCHANGED <<heard, active, csock, backlog, link, parent, pair>>
    BY <1>8 DEF CloseFd, StandbyExits, RecvFdFails, StandbyEnds, FdPassConstants, client
  <2> QED
    BY <2>1 DEF Stages, NotYet, Passed, InPair, LastHeard, PassThenTakeOver
<1>9. CASE UNCHANGED vars
  BY <1>9 DEF vars, Stages, NotYet, Passed, InPair, LastHeard, PassThenTakeOver
<1> QED
  BY <1>1, <1>2, <1>3, <1>4, <1>5, <1>6, <1>7, <1>8, <1>9, <1>10
  DEF Next, ActiveStep, StandbyStep

LEMMA InvIsInvariant == Spec => []FdInv
<1>1. Init => FdInv
  BY FdPassConstants, InitInv
<1>2. FdInv /\ [Next]_vars => FdInv'
  BY FdPassConstants, TypeStep, AccountStep, StageStep DEF FdInv
<1> QED
  BY <1>1, <1>2, PTL DEF Spec

(* TypeOK: the parent and the standby process hold a descriptor exactly    *)
(* while they use it, whatever the clients do (srvtest.c:109-222).         *)
THEOREM FdTypes == Spec => []TypeOK
<1>1. FdInv => TypeOK
  BY DEF FdInv
<1> QED
  BY <1>1, InvIsInvariant, PTL

(* PassThenTakeOver: the active process is silent from the pass on, and    *)
(* the standby process speaks once, right behind it (srvtest.c:129-213).   *)
THEOREM OneVoice == Spec => []PassThenTakeOver
<1>1. FdInv => PassThenTakeOver
  BY DEF FdInv
<1> QED
  BY <1>1, InvIsInvariant, PTL

(* WaitsAccounted: however many children end behind one signal, every run  *)
(* of the handler that finds none to wait for goes back to a child that    *)
(* was stopped or continued (srvtest.c:102-107, 123).                      *)
THEOREM HandlerWaits == Spec => []WaitsAccounted
<1>1. FdInv => WaitsAccounted
  BY DEF FdInv
<1> QED
  BY <1>1, InvIsInvariant, PTL
==============================================================================
