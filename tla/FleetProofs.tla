---------------------------- MODULE FleetProofs ----------------------------
(* Theorems about Fleet for every set of servers, ports, threads and       *)
(* schedules and every bound.                                              *)
EXTENDS Fleet, WellFoundedInduction, TLAPS

USE FleetAssumption DEF FleetAssumption

-----------------------------------------------------------------------------
(* Types.                                                                  *)

LEMMA NoRowType == NoRow \in Row /\ NoPass \in Pass /\ Waiting \in Thread
  BY DEF NoRow, Never, Row, NoPass, Pass, Waiting, Thread, Scheduled

LEMMA PortsAreInts ==
  /\ [PortKinds -> UNION {Range[k] : k \in PortKinds}] \subseteq [PortKinds -> Int]
  /\ [PortKinds -> (UNION {Range[k] : k \in PortKinds}) \cup OldPorts] \subseteq [PortKinds -> Int]
  <1>1. UNION {Range[k] : k \in PortKinds} \subseteq Int
    OBVIOUS
  <1>2. (UNION {Range[k] : k \in PortKinds}) \cup OldPorts \subseteq Int
    <2>1. OldPorts \subseteq Int
      OBVIOUS
    <2> QED
      BY <1>1, <2>1, Zenon
  <1> QED
    BY <1>1, <1>2

LEMMA SpendType ==
  ASSUME NEW event \in BoundedEvents, budget \in [BoundedEvents -> Nat], Spend(event)
  PROVE  budget' \in [BoundedEvents -> Nat]
  BY DEF Spend

LEMMA WorksType ==
  ASSUME NEW t \in Threads, NEW after \in Thread, Works(t, after), TypeOK,
         after.pc \in {"aside", "ports"} => after.server \in Servers
  PROVE  /\ thread' \in [Threads -> Thread]
         /\ \A u \in Threads : thread'[u].pc \in {"aside", "ports"} => thread'[u].server \in Servers
  BY DEF Works, TypeOK

LEMMA OvertakesType ==
  ASSUME NEW t \in Threads, NEW after \in Thread, Overtakes(t, after), TypeOK,
         after.pc \in {"aside", "ports"} => after.server \in Servers
  PROVE  /\ thread' \in [Threads -> Thread]
         /\ \A u \in Threads : thread'[u].pc \in {"aside", "ports"} => thread'[u].server \in Servers
  <1>1. ASSUME NEW u \in Threads
        PROVE  [thread[u] EXCEPT !.stale = TRUE] \in Thread
    BY DEF TypeOK, Thread
  <1>2. ASSUME NEW u \in Threads
        PROVE  /\ [thread[u] EXCEPT !.stale = TRUE].pc = thread[u].pc
               /\ [thread[u] EXCEPT !.stale = TRUE].server = thread[u].server
    BY DEF TypeOK, Thread
  <1> QED
    BY <1>1, <1>2 DEF Overtakes, TypeOK

LEMMA MarksType ==
  ASSUME NEW s \in Servers, TypeOK
  PROVE  Marks(s) \in [Servers -> Row]
  <1>1. pass.now \in Int
    BY DEF TypeOK, Pass
  <1>2. \A r \in Row, n \in Int : [r EXCEPT !.last = n] \in Row
    BY DEF Row
  <1> QED
    BY <1>1, <1>2 DEF Marks, TypeOK

LEMMA WithoutType ==
  ASSUME NEW s \in Servers, TypeOK
  PROVE  /\ Without(s) \in Pass
         /\ [Without(s) EXCEPT !.at = "restart", !.server = s] \in Pass
         /\ Without(s).at = pass.at /\ Without(s).now = pass.now
         /\ Without(s).server = pass.server
         /\ Without(s).todo = pass.todo \ {s}
         /\ \A r \in Servers \ {s} : Without(s).snap[r] = pass.snap[r]
  <1>1. NoPass.snap[s] \in [times: SUBSET Int, last: Int, wanted: BOOLEAN]
    BY DEF NoPass, Scheduled, NoRow, Never
  <1>2. pass.snap \in [Servers -> [times: SUBSET Int, last: Int, wanted: BOOLEAN]]
    BY DEF TypeOK, Pass
  <1> DEFINE snap == [pass.snap EXCEPT ![s] = NoPass.snap[s]]
             left == [pass EXCEPT !.todo = @ \ {s}, !.snap = snap]
  <1>3. snap \in [Servers -> [times: SUBSET Int, last: Int, wanted: BOOLEAN]]
    BY <1>1, <1>2
  <1>4. \A r \in Servers \ {s} : snap[r] = pass.snap[r]
    BY <1>2
  <1>5. Without(s) = left
    BY DEF Without, TypeOK, Pass
  <1> HIDE DEF snap
  <1>6. /\ left \in Pass /\ [left EXCEPT !.at = "restart", !.server = s] \in Pass
        /\ left.at = pass.at /\ left.now = pass.now /\ left.server = pass.server
        /\ left.todo = pass.todo \ {s} /\ left.snap = snap
    BY <1>3 DEF TypeOK, Pass
  <1> QED
    BY <1>4, <1>5, <1>6

LEMMA WantedType ==
  ASSUME NEW s \in Servers, NEW wanted \in BOOLEAN, TypeOK
  PROVE  [row EXCEPT ![s].wanted = wanted] \in [Servers -> Row]
  BY DEF TypeOK, Row

LEMMA LookedType ==
  ASSUME NEW s \in Servers, TypeOK, Looked(s)
  PROVE  dealt' \in [Servers -> Int]
  BY DEF Looked, TypeOK, Pass

LEMMA InitType == Init => TypeOK
  <1> SUFFICES ASSUME Init PROVE TypeOK
    OBVIOUS
  <1> DEFINE ports == {p \in [PortKinds -> (UNION {Range[k] : k \in PortKinds}) \cup OldPorts] :
                        \A k \in PortKinds : p[k] \in Range[k] \cup OldPorts}
             old == [exists: {TRUE}, times: Schedules, last: {Never}, wanted: BOOLEAN,
                     ports: ports]
  <1>1. row \in [Servers -> Row]
    <2>1. ports \subseteq [PortKinds -> Int]
      BY PortsAreInts
    <2>2. Never \in Int /\ Schedules \subseteq SUBSET Int
      BY DEF Never
    <2> HIDE DEF ports
    <2>3. old \subseteq Row
      BY <2>1, <2>2 DEF Row
    <2>4. row \in [Servers -> {NoRow} \cup old]
      BY DEF Init, ports
    <2> QED
      BY <2>3, <2>4, NoRowType
  <1>2. thread \in [Threads -> Thread] /\ \A t \in Threads : thread[t].pc = "idle"
    BY NoRowType DEF Init, Waiting
  <1>3. pass \in Pass /\ pass.at = "idle"
    BY NoRowType DEF Init, NoPass
  <1> QED
    BY <1>1, <1>2, <1>3 DEF Init, TypeOK, Never

LEMMA StepType == TypeOK /\ [Next]_vars => TypeOK'
  <1> SUFFICES ASSUME TypeOK, [Next]_vars PROVE TypeOK'
    OBVIOUS
  <1>1. CASE UNCHANGED vars
    BY <1>1 DEF vars, TypeOK
  <1>2. ASSUME NEW t \in Threads, CreateReads(t) PROVE TypeOK'
    <2>1. PICK ports \in [PortKinds -> UNION {Range[k] : k \in PortKinds}] :
            Works(t, [pc |-> "create", server |-> NoServer, ports |-> ports, stale |-> FALSE])
      BY <1>2 DEF CreateReads
    <2>2. ports \in [PortKinds -> Int]
      BY PortsAreInts
    <2>3. [pc |-> "create", server |-> NoServer, ports |-> ports, stale |-> FALSE] \in Thread
      BY <2>2 DEF Thread
    <2>4. budget' \in [BoundedEvents -> Nat]
      BY <1>2, SpendType DEF CreateReads, TypeOK, BoundedEvents
    <2> QED
      BY <1>2, <2>1, <2>3, <2>4, WorksType DEF CreateReads, TypeOK
  <1>3. ASSUME NEW t \in Threads, CreateCommits(t) PROVE TypeOK'
    <2>1. PICK s \in Servers \ Existing :
            /\ row' = [row EXCEPT ![s] = New(thread[t].ports)]
            /\ Overtakes(t, [Waiting EXCEPT !.pc = "aside", !.server = s])
            /\ Races(t, s) /\ DuringPass(s)
            /\ dealt' = [dealt EXCEPT ![s] = Never]
      BY <1>3 DEF CreateCommits
    <2>2. New(thread[t].ports) \in Row
      BY NoRowType DEF New, Row, TypeOK, Thread, NoRow, Never
    <2>3. /\ [Waiting EXCEPT !.pc = "aside", !.server = s] \in Thread
          /\ [Waiting EXCEPT !.pc = "aside", !.server = s].server \in Servers
      BY NoRowType DEF Waiting, Thread
    <2>4. raced' \subseteq Servers /\ late' \subseteq Servers /\ dealt' \in [Servers -> Int]
      BY <2>1 DEF Races, DuringPass, TypeOK, Never
    <2> QED
      BY <1>3, <2>1, <2>2, <2>3, <2>4, OvertakesType DEF CreateCommits, TypeOK
  <1>4. ASSUME NEW t \in Threads, CreateEnds(t) PROVE TypeOK'
    <2>1. row' \in [Servers -> Row]
      BY <1>4, NoRowType DEF CreateEnds, TypeOK
    <2> QED
      BY <1>4, <2>1, NoRowType, WorksType DEF CreateEnds, TypeOK, Waiting
  <1>5. ASSUME NEW t \in Threads, NEW s \in Servers, PortsRead(t, s) PROVE TypeOK'
    <2>1. PICK ports \in [PortKinds -> (UNION {Range[k] : k \in PortKinds}) \cup OldPorts] :
            Works(t, [pc |-> "ports", server |-> s, ports |-> ports, stale |-> FALSE])
      BY <1>5 DEF PortsRead
    <2>2. ports \in [PortKinds -> Int]
      BY PortsAreInts
    <2>3. [pc |-> "ports", server |-> s, ports |-> ports, stale |-> FALSE] \in Thread
      BY <2>2 DEF Thread
    <2>4. budget' \in [BoundedEvents -> Nat]
      BY <1>5, SpendType DEF PortsRead, TypeOK, BoundedEvents
    <2> QED
      BY <1>5, <2>1, <2>3, <2>4, WorksType DEF PortsRead, TypeOK
  <1>6. ASSUME NEW t \in Threads, PortsCommit(t) PROVE TypeOK'
    <2> DEFINE s == thread[t].server
    <2>1. s \in Servers
      BY <1>6 DEF PortsCommit, TypeOK
    <2>2. CASE row[s].exists
      <3>1. /\ row' = [row EXCEPT ![s].ports = thread[t].ports]
            /\ Overtakes(t, Waiting) /\ Races(t, s)
        BY <1>6, <2>2 DEF PortsCommit
      <3>2. row' \in [Servers -> Row]
        <4>1. thread[t].ports \in [PortKinds -> Int]
          BY DEF TypeOK, Thread
        <4>2. \A r \in Row, p \in [PortKinds -> Int] : [r EXCEPT !.ports = p] \in Row
          BY DEF Row
        <4> QED
          BY <2>1, <3>1, <4>1, <4>2 DEF TypeOK
      <3>3. raced' \subseteq Servers
        BY <2>1, <3>1 DEF Races, TypeOK
      <3> QED
        BY <1>6, <3>1, <3>2, <3>3, NoRowType, OvertakesType DEF PortsCommit, TypeOK, Waiting
    <2>3. CASE ~row[s].exists
      BY <1>6, <2>3, NoRowType, WorksType DEF PortsCommit, TypeOK, Waiting
    <2> QED
      BY <2>2, <2>3
  <1>7. ASSUME NEW s \in Servers, SetSchedule(s) PROVE TypeOK'
    <2>1. PICK times \in Schedules :
            row' = [row EXCEPT ![s].times = times, ![s].last = Stamp(times)]
      BY <1>7 DEF SetSchedule
    <2>2. times \in SUBSET Int /\ Stamp(times) \in Int
      <3>1. clock \in Int
        BY DEF TypeOK
      <3> QED
        BY <3>1 DEF Stamp, Never
    <2>3. row' \in [Servers -> Row]
      BY <2>1, <2>2 DEF TypeOK, Row
    <2>4. late' \subseteq Servers /\ dealt' \in [Servers -> Int]
      BY <1>7 DEF SetSchedule, DuringPass, TypeOK
    <2>5. budget' \in [BoundedEvents -> Nat]
      BY <1>7, SpendType DEF SetSchedule, TypeOK, BoundedEvents
    <2> QED
      BY <1>7, <2>3, <2>4, <2>5 DEF SetSchedule, TypeOK
  <1>8. ASSUME NEW s \in Servers, Wants(s) PROVE TypeOK'
    <2>1. row' \in [Servers -> Row]
      BY <1>8 DEF Wants, TypeOK, Row
    <2>2. budget' \in [BoundedEvents -> Nat]
      BY <1>8, SpendType DEF Wants, TypeOK, BoundedEvents
    <2> QED
      BY <1>8, <2>1, <2>2 DEF Wants, TypeOK
  <1>9. ASSUME NEW s \in Servers, Delete(s) PROVE TypeOK'
    <2>1. row' \in [Servers -> Row] /\ dealt' \in [Servers -> Int]
      BY <1>9, NoRowType DEF Delete, TypeOK, Never
    <2>2. raced' \subseteq Servers /\ late' \subseteq Servers
      BY <1>9 DEF Delete, DuringPass, TypeOK
    <2>3. budget' \in [BoundedEvents -> Nat]
      BY <1>9, SpendType DEF Delete, TypeOK, BoundedEvents
    <2> QED
      BY <1>9, <2>1, <2>2, <2>3 DEF Delete, TypeOK
  <1>10. ASSUME NEW s \in Servers, Restarts(s) PROVE TypeOK'
    <2>1. /\ row' = Marks(s) /\ Looked(s)
          /\ pass' = [Without(s) EXCEPT !.at = "restart", !.server = s]
          /\ UNCHANGED <<thread, clock, raced, late, budget>>
      BY <1>10 DEF Restarts
    <2>2. pass' \in Pass /\ pass'.server = s
      <3>1. Without(s) \in Pass
        BY WithoutType
      <3>2. \A p \in Pass : [p EXCEPT !.at = "restart", !.server = s].server = s
        BY DEF Pass
      <3> QED
        BY <2>1, <3>1, <3>2, WithoutType
    <2> QED
      BY <2>1, <2>2, MarksType, LookedType DEF TypeOK
  <1>11. ASSUME NEW s \in Servers, PassesOver(s) PROVE TypeOK'
    <2>1. row' \in [Servers -> Row]
      BY <1>11, MarksType DEF PassesOver, TypeOK
    <2> QED
      BY <1>11, <2>1, WithoutType, LookedType DEF PassesOver, TypeOK
  <1>12. CASE Tick
    BY <1>12 DEF Tick, TypeOK
  <1>13. CASE PassBegins
    <2>1. \A s \in Servers : Scheduled(row[s]) \in [times: SUBSET Int, last: Int, wanted: BOOLEAN]
      BY DEF Scheduled, TypeOK, Row
    <2>2. pass' \in Pass /\ pass'.at = "next"
      BY <1>13, <2>1 DEF PassBegins, Pass, TypeOK, Existing
    <2> QED
      BY <1>13, <2>2 DEF PassBegins, TypeOK
  <1>14. CASE RestartEnds
    <2> DEFINE s == pass.server
    <2>1. s \in Servers
      BY <1>14 DEF RestartEnds, TypeOK
    <2>2. row' \in [Servers -> Row]
      <3>1. \E wanted \in BOOLEAN : row' = row \/ row' = [row EXCEPT ![s].wanted = wanted]
        BY <1>14 DEF RestartEnds
      <3> QED
        BY <2>1, <3>1, WantedType DEF TypeOK
    <2>3. pass' \in Pass /\ pass'.at # "restart"
      <3>1. pass' = [pass EXCEPT !.at = "next", !.server = NoServer] \/ pass' = NoPass
        BY <1>14 DEF RestartEnds
      <3>2. CASE pass' = [pass EXCEPT !.at = "next", !.server = NoServer]
        BY <3>2 DEF TypeOK, Pass
      <3>3. CASE pass' = NoPass
        BY <3>3, NoRowType DEF NoPass
      <3> QED
        BY <3>1, <3>2, <3>3
    <2>4. budget' \in [BoundedEvents -> Nat]
      BY <1>14, SpendType DEF RestartEnds, TypeOK, BoundedEvents
    <2> QED
      BY <1>14, <2>2, <2>3, <2>4 DEF RestartEnds, TypeOK
  <1>15. CASE PassEnds
    BY <1>15, NoRowType DEF PassEnds, TypeOK, NoPass
  <1> QED
    BY <1>1, <1>2, <1>3, <1>4, <1>5, <1>6, <1>7, <1>8, <1>9, <1>10, <1>11, <1>12, <1>13,
       <1>14, <1>15 DEF Next

\* Every reachable state of the fleet is well-typed.
THEOREM TypeCorrect == Spec => []TypeOK
  BY InitType, StepType, PTL DEF Spec

-----------------------------------------------------------------------------
(* Ports.                                                                  *)

\* What a thread has read is still true, unless it is stale: the ports it is to
\* give to its server are no other's.
Reserved(t) ==
  /\ thread[t].pc = "create" => thread[t].server = NoServer
  /\ thread[t].pc \in {"create", "ports"} /\ ~thread[t].stale =>
       \A s \in Existing \ {thread[t].server}, k \in PortKinds :
         row[s].ports[k] # thread[t].ports[k]

PortsInv == PortsApart /\ \A t \in Threads : Reserved(t)

LEMMA RowChanges ==
  ASSUME NEW r \in Row, NEW n \in Int, NEW times \in SUBSET Int, NEW wanted \in BOOLEAN
  PROVE  /\ [r EXCEPT !.wanted = wanted] \in Row
         /\ [r EXCEPT !.wanted = wanted].exists = r.exists
         /\ [r EXCEPT !.wanted = wanted].ports = r.ports
         /\ [r EXCEPT !.last = n] \in Row
         /\ [r EXCEPT !.last = n].exists = r.exists
         /\ [r EXCEPT !.last = n].ports = r.ports
         /\ [r EXCEPT !.times = times, !.last = n] \in Row
         /\ [r EXCEPT !.times = times, !.last = n].exists = r.exists
         /\ [r EXCEPT !.times = times, !.last = n].ports = r.ports
  BY DEF Row

\* A port that is leased is free.
LEMMA LeasedIsFree ==
  ASSUME NEW k \in PortKinds, NEW except, NEW p \in Leased(k, except)
  PROVE  p \notin Used(k, except)
  <1> DEFINE free == Range[k] \ Used(k, except)
  <1>1. free # {} /\ p = FirstFree(Range[k], Used(k, except))
    BY DEF Leased
  <1>2. free \subseteq Nat
    OBVIOUS
  <1> DEFINE R == {ss \in Nat \X Nat : ss[1] < ss[2]}
  <1>3. \E x \in free : \A y \in free : <<y, x>> \notin R
    <2>1. IsWellFoundedOn(R, Nat)
      BY NatLessThanWellFounded DEF OpToRel
    <2> HIDE DEF R, free
    <2> QED
      BY <1>1, <1>2, <2>1, WFMin
  <1>4. \E x \in free : \A y \in free : x <= y
    <2> HIDE DEF free
    <2>1. ASSUME NEW x \in free, NEW y \in free, <<y, x>> \notin R
          PROVE  x <= y
      BY <1>2, <2>1
    <2> QED
      BY <1>3, <2>1
  <1>5. p \in free
    BY <1>1, <1>4 DEF FirstFree
  <1> QED
    BY <1>5

\* Steps after which no server is new and none has other ports.
LEMMA PortsKept ==
  ASSUME PortsInv,
         \A s \in Existing' : s \in Existing /\ row'[s].ports = row[s].ports,
         \A s \in Existing' : s \in raced => s \in raced',
         \A t \in Threads : thread'[t] = thread[t] \/ thread'[t].pc \in {"idle", "aside"}
  PROVE  PortsInv'
  <1>1. PortsApart'
    BY DEF PortsInv, PortsApart
  <1>2. ASSUME NEW t \in Threads PROVE Reserved(t)'
    BY DEF PortsInv, Reserved
  <1> QED
    BY <1>1, <1>2 DEF PortsInv

\* Steps after which server s may have other ports: they are those of thread t,
\* and all the other threads are told.
LEMMA PortsTaken ==
  ASSUME TypeOK, PortsInv, NEW t \in Threads, NEW s \in Servers, NEW after,
         thread[t].pc \in {"create", "ports"}, after.pc \in {"idle", "aside"},
         Overtakes(t, after), Races(t, s),
         \A r \in Existing' \ {s} : r \in Existing /\ row'[r].ports = row[r].ports,
         row'[s].ports = thread[t].ports,
         thread[t].pc = "create" \/ s = thread[t].server
  PROVE  PortsInv'
  <1>1. ASSUME NEW u \in Threads PROVE Reserved(u)'
    <2>1. CASE u = t
      BY <2>1 DEF Overtakes, Reserved
    <2>2. CASE u # t /\ thread[u].pc \in {"create", "ports"}
      <3>1. thread'[u].stale /\ thread'[u].pc = thread[u].pc /\ thread'[u].server = thread[u].server
        BY <2>2 DEF Overtakes, TypeOK, Thread
      <3> QED
        BY <3>1 DEF PortsInv, Reserved
    <2>3. CASE u # t /\ thread[u].pc \notin {"create", "ports"}
      BY <2>3 DEF Overtakes, Reserved
    <2> QED
      BY <2>1, <2>2, <2>3
  <1>2. ASSUME ~thread[t].stale, NEW r \in Existing' \ {s}, NEW k \in PortKinds
        PROVE  row'[r].ports[k] # row'[s].ports[k]
    <2>1. r \in Existing /\ r # thread[t].server
      <3>1. r \in Existing
        BY <1>2
      <3>2. r \in Servers
        BY <3>1 DEF Existing
      <3>3. CASE thread[t].pc = "create"
        BY <3>2, <3>3 DEF PortsInv, Reserved
      <3>4. CASE s = thread[t].server
        BY <1>2, <3>4
      <3> QED
        BY <3>1, <3>3, <3>4
    <2> QED
      BY <1>2, <2>1 DEF PortsInv, Reserved
  <1>3. \A r \in Existing' \ {s} : r \in raced => r \in raced'
    BY DEF Races
  <1>4. thread[t].stale => s \in raced'
    BY DEF Races
  <1>5. PortsApart'
    <2> SUFFICES ASSUME NEW a \in Existing', NEW b \in Existing', NEW k \in PortKinds,
                        a # b, row'[a].ports[k] = row'[b].ports[k]
                 PROVE  a \in raced' \/ b \in raced'
      BY DEF PortsApart
    <2>1. CASE a = s \/ b = s
      BY <2>1, <1>2, <1>4 DEF TypeOK, Thread
    <2>2. CASE a # s /\ b # s
      BY <2>2, <1>3 DEF PortsInv, PortsApart
    <2> QED
      BY <2>1, <2>2
  <1> QED
    BY <1>1, <1>5 DEF PortsInv

LEMMA ReadsReserve ==
  ASSUME TypeOK, PortsInv, NEW t \in Threads, NEW after, Works(t, after),
         UNCHANGED <<row, raced>>,
         after.pc = "create" => after.server = NoServer,
         \A s \in Existing \ {after.server}, k \in PortKinds : row[s].ports[k] # after.ports[k]
  PROVE  PortsInv'
  <1>1. ASSUME NEW u \in Threads PROVE Reserved(u)'
    <2>1. CASE u = t
      BY <2>1 DEF Works, TypeOK, Reserved, Existing
    <2>2. CASE u # t
      BY <2>2 DEF Works, TypeOK, PortsInv, Reserved, Existing
    <2> QED
      BY <2>1, <2>2
  <1> QED
    BY <1>1 DEF PortsInv, PortsApart, Existing

LEMMA InitPorts == Init => PortsInv
  BY DEF Init, PortsInv, PortsApart, Reserved, Waiting

LEMMA StepPorts == TypeOK /\ PortsInv /\ [Next]_vars => PortsInv'
  <1> SUFFICES ASSUME TypeOK, PortsInv, [Next]_vars PROVE PortsInv'
    OBVIOUS
  <1>1. CASE UNCHANGED vars
    BY <1>1, PortsKept DEF vars, Existing
  <1>2. ASSUME NEW t \in Threads, CreateReads(t) PROVE PortsInv'
    <2>1. PICK ports \in [PortKinds -> UNION {Range[k] : k \in PortKinds}] :
            /\ \/ \A k \in PortKinds : ports[k] \in Leased(k, NoServer)
               \/ \A k \in PortKinds : ports[k] \in Resolved(k, NoServer, Never)
            /\ Works(t, [pc |-> "create", server |-> NoServer, ports |-> ports, stale |-> FALSE])
      BY <1>2 DEF CreateReads
    <2>2. \A k \in PortKinds : ports[k] \notin Used(k, NoServer)
      BY <2>1, LeasedIsFree DEF Resolved
    <2>3. \A s \in Existing, k \in PortKinds : row[s].ports[k] # ports[k]
      BY <2>2 DEF Used, Existing
    <2> QED
      BY <1>2, <2>1, <2>3, ReadsReserve DEF CreateReads
  <1>3. ASSUME NEW t \in Threads, CreateCommits(t) PROVE PortsInv'
    <2>1. PICK s \in Servers \ Existing :
            /\ row' = [row EXCEPT ![s] = New(thread[t].ports)]
            /\ Overtakes(t, [Waiting EXCEPT !.pc = "aside", !.server = s])
            /\ Races(t, s)
      BY <1>3 DEF CreateCommits
    <2>2. New(thread[t].ports).ports = thread[t].ports
      BY DEF New, NoRow
    <2> DEFINE after == [Waiting EXCEPT !.pc = "aside", !.server = s]
    <2>3. after.pc = "aside" /\ thread[t].pc = "create"
      BY <1>3 DEF Waiting, CreateCommits
    <2>4. /\ row'[s].ports = thread[t].ports
          /\ \A r \in Existing' \ {s} : r \in Existing /\ row'[r].ports = row[r].ports
      BY <2>1, <2>2 DEF TypeOK, Existing
    <2>5. Overtakes(t, after) /\ Races(t, s) /\ s \in Servers
      BY <2>1
    <2> HIDE DEF after
    <2> QED
      BY <2>3, <2>4, <2>5, PortsTaken
  <1>4. ASSUME NEW t \in Threads, CreateEnds(t) PROVE PortsInv'
    <2>1. row' = row \/ row' = [row EXCEPT ![thread[t].server] = NoRow]
      BY <1>4 DEF CreateEnds
    <2>2. \A s \in Existing' : s \in Existing /\ row'[s].ports = row[s].ports
      BY <2>1 DEF Existing, TypeOK, NoRow
    <2> QED
      BY <1>4, <2>2, PortsKept DEF CreateEnds, Works, Waiting, TypeOK
  <1>5. ASSUME NEW t \in Threads, NEW s \in Servers, PortsRead(t, s) PROVE PortsInv'
    <2>1. PICK ports \in [PortKinds -> (UNION {Range[k] : k \in PortKinds}) \cup OldPorts] :
            /\ \A k \in PortKinds : ports[k] \in Resolved(k, s, row[s].ports[k])
            /\ Works(t, [pc |-> "ports", server |-> s, ports |-> ports, stale |-> FALSE])
      BY <1>5 DEF PortsRead
    <2>2. \A r \in Existing \ {s}, k \in PortKinds : row[r].ports[k] # ports[k]
      BY <2>1 DEF Resolved, Used
    <2> QED
      BY <1>5, <2>1, <2>2, ReadsReserve DEF PortsRead
  <1>6. ASSUME NEW t \in Threads, PortsCommit(t) PROVE PortsInv'
    <2> DEFINE s == thread[t].server
    <2>1. s \in Servers
      BY <1>6 DEF PortsCommit, TypeOK
    <2>2. CASE row[s].exists
      <3>1. /\ row' = [row EXCEPT ![s].ports = thread[t].ports]
            /\ Overtakes(t, Waiting) /\ Races(t, s)
        BY <1>6, <2>2 DEF PortsCommit
      <3>2. /\ row'[s].ports = thread[t].ports
            /\ \A r \in Existing' \ {s} : r \in Existing /\ row'[r].ports = row[r].ports
        BY <2>1, <3>1 DEF TypeOK, Row, Existing
      <3>3. Waiting.pc = "idle"
        BY DEF Waiting
      <3> QED
        BY <1>6, <2>1, <3>1, <3>2, <3>3, PortsTaken DEF PortsCommit
    <2>3. CASE ~row[s].exists
      BY <1>6, <2>3, PortsKept DEF PortsCommit, Works, Waiting, TypeOK, Existing
    <2> QED
      BY <2>2, <2>3
  <1>7. ASSUME NEW s \in Servers,
               SetSchedule(s) \/ Wants(s) \/ Delete(s) \/ Restarts(s) \/ PassesOver(s)
        PROVE  PortsInv'
    <2>1. \/ row' = row \/ row' = [row EXCEPT ![s] = NoRow]
          \/ \E r \in Row : /\ row' = [row EXCEPT ![s] = r]
                             /\ r.exists = row[s].exists /\ r.ports = row[s].ports
      <3>1. CASE SetSchedule(s)
        <4>1. PICK times \in Schedules :
                row' = [row EXCEPT ![s].times = times, ![s].last = Stamp(times)]
          BY <3>1 DEF SetSchedule
        <4> DEFINE r == [row[s] EXCEPT !.times = times, !.last = Stamp(times)]
        <4>2. Stamp(times) \in Int /\ times \in SUBSET Int /\ row[s] \in Row
          <5>1. clock \in Int /\ row[s] \in Row
            BY DEF TypeOK
          <5>2. Stamp(times) \in Int
            BY <5>1 DEF Stamp, Never
          <5> QED
            BY <5>1, <5>2
        <4>3. r \in Row /\ r.exists = row[s].exists /\ r.ports = row[s].ports
          BY <4>2, RowChanges
        <4>4. row' = [row EXCEPT ![s] = r]
          BY <4>1
        <4> QED
          BY <4>3, <4>4
      <3>2. CASE Wants(s)
        <4>1. row' = [row EXCEPT ![s].wanted = TRUE] \/ row' = [row EXCEPT ![s].wanted = FALSE]
          BY <3>2 DEF Wants, TypeOK, Row
        <4>2. PICK wanted \in BOOLEAN : row' = [row EXCEPT ![s].wanted = wanted]
          BY <4>1
        <4> DEFINE r == [row[s] EXCEPT !.wanted = wanted]
        <4>3. r \in Row /\ r.exists = row[s].exists /\ r.ports = row[s].ports
          BY RowChanges DEF TypeOK
        <4> QED
          BY <4>2, <4>3
      <3>3. CASE row' = Marks(s)
        <4> DEFINE r == [row[s] EXCEPT !.last = pass.now]
        <4>1. pass.now \in Int /\ row[s] \in Row
          BY DEF TypeOK, Pass
        <4>2. r \in Row /\ r.exists = row[s].exists /\ r.ports = row[s].ports
          BY <4>1, RowChanges
        <4>3. row' = [row EXCEPT ![s] = r]
          BY <3>3 DEF Marks
        <4> QED
          BY <4>2, <4>3
      <3>4. CASE row' = row \/ row' = [row EXCEPT ![s] = NoRow]
        BY <3>4
      <3> QED
        BY <1>7, <3>1, <3>2, <3>3, <3>4 DEF Delete, Restarts, PassesOver
    <2>2. \A r \in Existing' : r \in Existing /\ row'[r].ports = row[r].ports
      BY <2>1 DEF TypeOK, Existing, NoRow
    <2>3. thread' = thread /\ \A r \in Existing' : r \in raced => r \in raced'
      BY <1>7, NoRowType DEF SetSchedule, Wants, Delete, Restarts, PassesOver, Existing, NoRow, TypeOK
    <2> QED
      BY <2>2, <2>3, PortsKept
  <1>8. CASE Tick \/ PassBegins \/ PassEnds
    BY <1>8, PortsKept DEF Tick, PassBegins, PassEnds, Existing
  <1>9. CASE RestartEnds
    <2> DEFINE s == pass.server
    <2>0. s \in Servers
      BY <1>9 DEF RestartEnds, TypeOK
    <2>1. row' = row \/ \E r \in Row : /\ row' = [row EXCEPT ![s] = r]
                                      /\ r.exists = row[s].exists /\ r.ports = row[s].ports
      <3>1. row' = row \/ \E wanted \in BOOLEAN : row' = [row EXCEPT ![s].wanted = wanted]
        BY <1>9 DEF RestartEnds
      <3>2. ASSUME NEW wanted \in BOOLEAN, row' = [row EXCEPT ![s].wanted = wanted]
            PROVE  \E r \in Row : /\ row' = [row EXCEPT ![s] = r]
                                  /\ r.exists = row[s].exists /\ r.ports = row[s].ports
        <4> DEFINE r == [row[s] EXCEPT !.wanted = wanted]
        <4>1. r \in Row /\ r.exists = row[s].exists /\ r.ports = row[s].ports
          BY <2>0, RowChanges DEF TypeOK
        <4> QED
          BY <3>2, <4>1
      <3> QED
        BY <3>1, <3>2
    <2>2. \A r \in Existing' : r \in Existing /\ row'[r].ports = row[r].ports
      BY <2>0, <2>1 DEF TypeOK, Existing
    <2> QED
      BY <1>9, <2>2, PortsKept DEF RestartEnds
  <1> QED
    BY <1>1, <1>2, <1>3, <1>4, <1>5, <1>6, <1>7, <1>8, <1>9 DEF Next

\* No two servers have the same port of a kind, unless one got its ports in the
\* window between another thread's reading and its commit (create_instance and
\* update_ports), for any number of servers, ports and threads.
THEOREM PortsStayApart == Spec => []PortsApart
  <1>1. TypeOK /\ PortsInv /\ [Next]_vars => (TypeOK /\ PortsInv)'
    BY StepType, StepPorts
  <1>2. Init => TypeOK /\ PortsInv
    BY InitType, InitPorts
  <1>3. PortsInv => PortsApart
    BY DEF PortsInv
  <1> QED
    BY <1>1, <1>2, <1>3, PTL DEF Spec

-----------------------------------------------------------------------------
(* Schedules.                                                              *)

\* What the pass knows of the servers before it, and what it has left behind.
DueInv ==
  pass.at # "idle" =>
    \A s \in Existing \ late :
      /\ s \in pass.todo => /\ pass.snap[s].times = row[s].times
                           /\ pass.snap[s].last = row[s].last
      /\ s \notin pass.todo => Due(row[s].times, pass.now, row[s].last) = {}

\* A schedule is done with at the time it was stamped.
LEMMA StampedIsDone ==
  ASSUME NEW times \in SUBSET Int, NEW now \in Int
  PROVE  Due(times, now, now) = {}
  <1>1. Midnight(now) \in Int
    BY DEF Midnight
  <1>2. \A occ \in Today(times, now) : occ \in Int
    BY <1>1 DEF Today
  <1>3. \A occ \in Today(times, now) : ~(occ <= now /\ now < occ)
    BY <1>2
  <1> QED
    BY <1>3 DEF Due

\* Steps that leave the pass where it is, or end it, and the schedules of all
\* servers that were there before.
LEMMA DueKept ==
  ASSUME DueInv,
         \/ pass'.at = "idle"
         \/ /\ pass.at # "idle" /\ pass'.todo = pass.todo /\ pass'.snap = pass.snap
            /\ pass'.now = pass.now
            /\ \A s \in Existing' \ late' :
                 /\ s \in Existing \ late
                 /\ row'[s].times = row[s].times /\ row'[s].last = row[s].last
  PROVE  DueInv'
  BY DEF DueInv, Due, Today, Midnight

\* The pass deals with server s.
LEMMA DueDealt ==
  ASSUME TypeOK, DueInv, pass.at = "next", NEW s \in pass.todo, late' = late,
         \/ row' = row /\ (DueFor(s) = {} \/ ~row[s].exists)
         \/ row' = Marks(s),
         pass'.todo = pass.todo \ {s}, pass'.now = pass.now,
         \A r \in Servers \ {s} : pass'.snap[r] = pass.snap[r]
  PROVE  DueInv'
  <1>1. s \in Servers /\ pass.now \in Int /\ pass.todo \subseteq Servers
    BY DEF TypeOK, Pass
  <1>2. \A r \in Servers \ {s} : row'[r] = row[r]
    BY <1>1 DEF Marks, TypeOK
  <1>3. ASSUME NEW r \in Existing' \ late', r # s
        PROVE  /\ r \in pass'.todo => /\ pass'.snap[r].times = row'[r].times
                                      /\ pass'.snap[r].last = row'[r].last
               /\ r \notin pass'.todo => Due(row'[r].times, pass'.now, row'[r].last) = {}
    <2>1. r \in Servers /\ r \in Existing \ late /\ row'[r] = row[r]
      BY <1>2, <1>3 DEF Existing
    <2> QED
      BY <1>3, <2>1 DEF DueInv
  <1>4. ASSUME s \in Existing' \ late'
        PROVE  Due(row'[s].times, pass'.now, row'[s].last) = {}
    <2>1. CASE row' = row /\ (DueFor(s) = {} \/ ~row[s].exists)
      <3>1. s \in Existing \ late /\ row[s].exists
        BY <1>4, <2>1 DEF Existing
      <3>2. pass.snap[s].times = row[s].times /\ pass.snap[s].last = row[s].last
        BY <3>1 DEF DueInv
      <3> QED
        BY <2>1, <3>1, <3>2 DEF DueFor
    <2>2. CASE row' = Marks(s)
      <3>1. row'[s].last = pass.now /\ row'[s].times = row[s].times /\ row[s].times \in SUBSET Int
        BY <1>1, <2>2 DEF Marks, TypeOK, Row
      <3> QED
        BY <1>1, <3>1, StampedIsDone
    <2> QED
      BY <2>1, <2>2
  <1> QED
    BY <1>3, <1>4 DEF DueInv

LEMMA InitDue == Init => DueInv
  BY DEF Init, NoPass, DueInv

LEMMA StepDue == TypeOK /\ DueInv /\ [Next]_vars => DueInv'
  <1> SUFFICES ASSUME TypeOK, DueInv, [Next]_vars PROVE DueInv'
    OBVIOUS
  <1>1. CASE UNCHANGED <<row, pass, late>>
    BY <1>1 DEF DueInv, Existing, Due, Today, Midnight
  <1>2. ASSUME NEW t \in Threads,
               CreateReads(t) \/ \E s \in Servers : PortsRead(t, s)
        PROVE  DueInv'
    BY <1>1, <1>2 DEF CreateReads, PortsRead
  <1>3. ASSUME NEW t \in Threads, CreateCommits(t) PROVE DueInv'
    <2>1. PICK s \in Servers \ Existing :
            row' = [row EXCEPT ![s] = New(thread[t].ports)] /\ DuringPass(s)
      BY <1>3 DEF CreateCommits
    <2>2. pass' = pass /\ (pass.at = "idle" \/ late' = late \cup {s})
      BY <1>3, <2>1 DEF CreateCommits, DuringPass
    <2>3. \A r \in Servers \ {s} : row'[r] = row[r]
      BY <2>1 DEF TypeOK
    <2> QED
      BY <2>2, <2>3, DueKept DEF Existing
  <1>4. ASSUME NEW t \in Threads, CreateEnds(t) PROVE DueInv'
    <2>1. \A r \in Existing' : r \in Existing /\ row'[r] = row[r]
      BY <1>4 DEF CreateEnds, TypeOK, Existing, NoRow
    <2> QED
      BY <1>4, <2>1, DueKept DEF CreateEnds
  <1>5. ASSUME NEW t \in Threads, PortsCommit(t) PROVE DueInv'
    <2>1. \A r \in Existing' : /\ r \in Existing
                               /\ row'[r].times = row[r].times /\ row'[r].last = row[r].last
      BY <1>5 DEF PortsCommit, TypeOK, Existing, Row
    <2> QED
      BY <1>5, <2>1, DueKept DEF PortsCommit
  <1>6. ASSUME NEW s \in Servers, SetSchedule(s) \/ Delete(s) PROVE DueInv'
    <2>1. pass' = pass /\ DuringPass(s)
      BY <1>6 DEF SetSchedule, Delete
    <2>2. \A r \in Servers \ {s} : row'[r] = row[r]
      BY <1>6 DEF SetSchedule, Delete, TypeOK
    <2> QED
      BY <2>1, <2>2, DueKept DEF DuringPass, Existing
  <1>7. ASSUME NEW s \in Servers, Wants(s) PROVE DueInv'
    <2>1. \A r \in Existing' : /\ r \in Existing
                               /\ row'[r].times = row[r].times /\ row'[r].last = row[r].last
      BY <1>7 DEF Wants, TypeOK, Existing, Row
    <2> QED
      BY <1>7, <2>1, DueKept DEF Wants
  <1>8. ASSUME NEW s \in Servers, Restarts(s) PROVE DueInv'
    <2> DEFINE left == Without(s)
    <2>1. /\ left \in Pass /\ left.now = pass.now /\ left.todo = pass.todo \ {s}
          /\ \A r \in Servers \ {s} : left.snap[r] = pass.snap[r]
      BY WithoutType
    <2>2. pass' = [left EXCEPT !.at = "restart", !.server = s]
      BY <1>8 DEF Restarts
    <2> HIDE DEF left
    <2>3. pass'.now = left.now /\ pass'.todo = left.todo /\ pass'.snap = left.snap
      BY <2>1, <2>2 DEF Pass
    <2> QED
      BY <1>8, <2>1, <2>3, DueDealt DEF Restarts
  <1>9. ASSUME NEW s \in Servers, PassesOver(s) PROVE DueInv'
    <2>1. /\ pass'.now = pass.now /\ pass'.todo = pass.todo \ {s}
          /\ \A r \in Servers \ {s} : pass'.snap[r] = pass.snap[r]
      BY <1>9, WithoutType DEF PassesOver
    <2> QED
      BY <1>9, <2>1, DueDealt DEF PassesOver
  <1>10. CASE Tick
    BY <1>1, <1>10 DEF Tick
  <1>11. CASE PassBegins
    <2>1. /\ pass'.todo = Existing /\ row' = row /\ late' = late
          /\ pass'.snap = [s \in Servers |-> Scheduled(row[s])]
      BY <1>11 DEF PassBegins
    <2>2. \A s \in Servers : /\ pass'.snap[s].times = row[s].times
                             /\ pass'.snap[s].last = row[s].last
      BY <2>1 DEF Scheduled
    <2> QED
      BY <2>1, <2>2 DEF DueInv, Existing
  <1>12. CASE RestartEnds
    <2> DEFINE s == pass.server
    <2>1. s \in Servers /\ pass.at = "restart"
      BY <1>12 DEF RestartEnds, TypeOK
    <2>2. row' = row \/ \E wanted \in BOOLEAN : row' = [row EXCEPT ![s].wanted = wanted]
      BY <1>12 DEF RestartEnds
    <2>3. \A r \in Existing' : /\ r \in Existing
                               /\ row'[r].times = row[r].times /\ row'[r].last = row[r].last
      <3>1. ASSUME NEW wanted \in BOOLEAN, row' = [row EXCEPT ![s].wanted = wanted],
                   NEW r \in Existing'
            PROVE  /\ r \in Existing
                   /\ row'[r].times = row[r].times /\ row'[r].last = row[r].last
        <4>1. row[s] \in Row /\ row \in [Servers -> Row] /\ r \in Servers
          BY <2>1, <3>1 DEF TypeOK, Existing
        <4>2. /\ row'[r].exists = row[r].exists
              /\ row'[r].times = row[r].times /\ row'[r].last = row[r].last
          BY <2>1, <3>1, <4>1 DEF Row
        <4> QED
          BY <4>1, <4>2, <3>1 DEF Existing
      <3> QED
        BY <2>2, <3>1 DEF Existing
    <2>4. CASE pass' = NoPass
      BY <2>4, DueKept DEF NoPass
    <2>5. CASE pass' = [pass EXCEPT !.at = "next", !.server = NoServer]
      <3>1. pass'.todo = pass.todo /\ pass'.snap = pass.snap /\ pass'.now = pass.now
        BY <2>5 DEF TypeOK, Pass
      <3> QED
        BY <1>12, <2>1, <2>3, <3>1, DueKept DEF RestartEnds
    <2> QED
      BY <1>12, <2>4, <2>5 DEF RestartEnds
  <1>13. CASE PassEnds
    BY <1>13, DueKept DEF PassEnds, NoPass
  <1> QED
    BY <1>1, <1>2, <1>3, <1>4, <1>5, <1>6, <1>7, <1>8, <1>9, <1>10, <1>11, <1>12, <1>13
    DEF Next, vars

\* A pass of the scheduled restarts that ends has left nothing due of what was due
\* when it began (apply_scheduled_restarts), but for servers made or rescheduled
\* meanwhile.
THEOREM NothingIsLeftDue == Spec => NothingLeftDue
  <1>1. TypeOK /\ DueInv /\ [Next]_vars => (TypeOK /\ DueInv)'
    BY StepType, StepDue
  <1>2. Init => TypeOK /\ DueInv
    BY InitType, InitDue
  <1>3. DueInv /\ [Next]_vars =>
          [PassEnds => \A s \in Existing \ late :
             Due(row[s].times, pass.now, row[s].last) = {}]_vars
    BY DEF DueInv, PassEnds
  <1> QED
    BY <1>1, <1>2, <1>3, PTL DEF Spec, NothingLeftDue
-----------------------------------------------------------------------------
(* No restart for what was looked at before.                               *)

\* Day is positive: what is more than a day's multiple is more.
LEMMA DaysApart ==
  ASSUME NEW x \in Int, NEW y \in Int, Day * x < Day * y
  PROVE  x < y
  <1>1. Day \in Nat /\ Day > 0
    OBVIOUS
  <1> QED
    BY <1>1, Z3

LEMMA DayParts ==
  ASSUME NEW n \in Nat
  PROVE  /\ n \div Day \in Int /\ Midnight(n) = Day * (n \div Day)
         /\ Midnight(n) <= n /\ n < Midnight(n) + Day /\ Midnight(n) \in Nat
  <1>1. Day \in Nat /\ Day > 0
    OBVIOUS
  <1> QED
    BY <1>1 DEF Midnight

LEMMA SameDay ==
  ASSUME NEW a \in Nat, NEW b \in Nat, a <= b, Midnight(b) <= a
  PROVE  Midnight(a) = Midnight(b)
  <1> DEFINE p == a \div Day
             q == b \div Day
  <1>1. Day \in Nat /\ Day > 0
    OBVIOUS
  <1>2. /\ p \in Int /\ Midnight(a) = Day * p /\ Midnight(a) <= a /\ a < Midnight(a) + Day
        /\ q \in Int /\ Midnight(b) = Day * q /\ b < Midnight(b) + Day
    BY DayParts
  <1> HIDE DEF p, q
  <1>3. Day * (p + 1) = Day * p + Day /\ Day * (q + 1) = Day * q + Day
    BY <1>1, <1>2
  <1>4. Day * p < Day * (q + 1) /\ Day * q < Day * (p + 1)
    BY <1>1, <1>2, <1>3
  <1>5. p < q + 1 /\ q < p + 1
    BY <1>2, <1>4, DaysApart
  <1> QED
    BY <1>2, <1>5

\* What came before a look at the server and is of the day of a later one is of
\* the day of that look: what was not due then is not due later.
LEMMA LookedThrough ==
  ASSUME NEW times \in SUBSET Nat, NEW last \in Int, NEW seen \in Nat, NEW now \in Nat,
         seen <= now, Due(times, seen, last) = {},
         NEW occ \in Due(times, now, last)
  PROVE  occ > seen
  <1> SUFFICES ASSUME ~(occ > seen) PROVE FALSE
    OBVIOUS
  <1>1. PICK t \in times : occ = Midnight(now) + t
    BY DEF Due, Today
  <1>2. t \in Nat /\ Midnight(now) \in Nat
    BY DayParts
  <1>3. occ \in Nat /\ Midnight(now) <= occ /\ occ <= seen
    BY <1>1, <1>2
  <1>4. Midnight(seen) = Midnight(now)
    BY <1>2, <1>3, SameDay
  <1>5. occ \in Today(times, seen)
    BY <1>1, <1>4 DEF Today
  <1>6. last < occ /\ now - occ <= Grace
    BY DEF Due
  <1>7. seen - occ <= Grace
    <2>1. Grace \in Nat
      OBVIOUS
    <2> QED
      BY <1>3, <1>6, <2>1
  <1> QED
    BY <1>3, <1>5, <1>6, <1>7 DEF Due

\* There is a latest of the times that are due.
LEMMA LatestIsDue ==
  ASSUME NEW times \in SUBSET Nat, NEW last \in Int, NEW now \in Nat,
         Due(times, now, last) # {}
  PROVE  Latest(Due(times, now, last)) \in Due(times, now, last)
  <1> DEFINE due == Due(times, now, last)
             before == {n \in Nat : \E occ \in due : n = now - occ}
             R == {ss \in Nat \X Nat : ss[1] < ss[2]}
  <1>1. \A occ \in due : occ \in Nat /\ occ <= now
    <2>1. ASSUME NEW occ \in due PROVE occ \in Nat /\ occ <= now
      <3>1. PICK t \in times : occ = Midnight(now) + t
        BY DEF Due, Today
      <3>2. t \in Nat /\ Midnight(now) \in Nat
        BY DayParts
      <3> QED
        BY <3>1, <3>2 DEF Due
    <2> QED
      BY <2>1
  <1> HIDE DEF due
  <1>2. before # {} /\ before \subseteq Nat
    <2>1. PICK occ \in due : TRUE
      BY DEF due
    <2>2. now - occ \in before
      BY <1>1, <2>1
    <2> QED
      BY <2>2
  <1>3. \E n \in before : \A k \in before : <<k, n>> \notin R
    <2>1. IsWellFoundedOn(R, Nat)
      BY NatLessThanWellFounded DEF OpToRel
    <2> HIDE DEF R, before
    <2> QED
      BY <1>2, <2>1, WFMin
  <1>4. PICK n \in before : \A k \in before : <<k, n>> \notin R
    BY <1>3
  <1>5. PICK occ \in due : n = now - occ
    BY <1>4
  <1>6. ASSUME NEW other \in due PROVE other <= occ
    <2>1. now - other \in before
      BY <1>1
    <2>2. now - other \in Nat /\ n \in Nat /\ <<now - other, n>> \notin R
      BY <1>1, <1>4, <2>1
    <2>3. ~(now - other < n)
      BY <2>2
    <2> QED
      BY <1>1, <1>5, <2>3
  <1>7. \E o \in due : \A other \in due : other <= o
    BY <1>6
  <1>8. Latest(due) \in due
    BY <1>7 DEF Latest
  <1> QED
    BY <1>8 DEF due

\* Nothing of a server's schedule is due, now or later, up to when it was looked at.
Quiet(s) ==
  \A now \in Nat : now >= dealt[s] =>
    \A occ \in Due(row[s].times, now, row[s].last) : occ > dealt[s]

\* What is known of the times the servers were looked at; a pass under way looks
\* at no server that is left to it before its own time.
FirstInv ==
  /\ clock \in Nat
  /\ \A s \in Servers : row[s].times \subseteq Nat /\ dealt[s] <= clock
  /\ pass.at # "idle" => /\ pass.now \in Nat /\ pass.now <= clock
                         /\ \A s \in pass.todo \ late : dealt[s] <= pass.now
  /\ \A s \in Existing \ late : Quiet(s)

LEMMA InitFirst == Init => FirstInv
  <1> SUFFICES ASSUME Init PROVE FirstInv
    OBVIOUS
  <1>1. clock = 0 /\ pass.at = "idle" /\ \A s \in Servers : dealt[s] = Never
    BY DEF Init, NoPass
  <1>2. ASSUME NEW s \in Servers PROVE row[s].times \in SUBSET Nat
    <2> DEFINE Ports == {p \in [PortKinds -> (UNION {Range[k] : k \in PortKinds}) \cup OldPorts] :
                           \A k \in PortKinds : p[k] \in Range[k] \cup OldPorts}
               There == [exists: {TRUE}, times: Schedules, last: {Never}, wanted: BOOLEAN,
                         ports: Ports]
    <2>0. row \in [Servers -> {NoRow} \cup There]
      BY DEF Init
    <2>1. row[s].times = {} \/ row[s].times \in Schedules
      <3> HIDE DEF Ports
      <3>1. row[s] = NoRow \/ row[s] \in There
        BY <2>0
      <3>2. NoRow.times = {}
        BY DEF NoRow
      <3>3. row[s] \in There => row[s].times \in Schedules
        OBVIOUS
      <3> QED
        BY <3>1, <3>2, <3>3
    <2> QED
      BY <2>1
  <1>3. ASSUME NEW s \in Servers PROVE Quiet(s)
    <2>1. ASSUME NEW now \in Nat, NEW occ \in Due(row[s].times, now, row[s].last)
          PROVE  occ > Never
      <3>1. PICK t \in row[s].times : occ = Midnight(now) + t
        BY DEF Due, Today
      <3>2. t \in Nat /\ Midnight(now) \in Nat
        BY <1>2, DayParts
      <3> QED
        BY <3>1, <3>2 DEF Never
    <2> QED
      BY <1>1, <2>1 DEF Quiet
  <1> QED
    BY <1>1, <1>2, <1>3 DEF FirstInv, Existing, Never

\* Steps that leave the pass and the schedules alone.
LEMMA FirstKept ==
  ASSUME FirstInv, dealt' = dealt, clock' \in Nat, clock <= clock',
         dealt \in [Servers -> Int], clock \in Int, pass.now \in Int,
         \/ pass'.at = "idle"
         \/ /\ pass.at # "idle" /\ pass'.now = pass.now /\ pass'.todo \subseteq pass.todo,
         late' = late,
         \A s \in Servers : row'[s].times = row[s].times \/ row'[s].times = {},
         \A s \in Existing' : s \in Existing /\ row'[s].times = row[s].times
                                             /\ row'[s].last = row[s].last
  PROVE  FirstInv'
  <1>1. \A s \in Servers : row'[s].times \subseteq Nat /\ dealt'[s] <= clock'
    BY DEF FirstInv
  <1>2. pass'.at # "idle" => /\ pass'.now \in Nat /\ pass'.now <= clock'
                             /\ \A s \in pass'.todo \ late' : dealt'[s] <= pass'.now
    BY DEF FirstInv
  <1>3. ASSUME NEW s \in Existing' \ late' PROVE Quiet(s)'
    <2>1. Quiet(s) /\ row'[s].times = row[s].times /\ row'[s].last = row[s].last
      BY <1>3 DEF FirstInv
    <2> QED
      BY <2>1 DEF Quiet, Due, Today, Midnight
  <1> QED
    BY <1>1, <1>2, <1>3 DEF FirstInv

\* A step that sets the schedule of s, or makes or deletes it.
LEMMA FirstSet ==
  ASSUME TypeOK, FirstInv, NEW s \in Servers, DuringPass(s), pass' = pass, clock' = clock,
         NEW r \in Row, row' = [row EXCEPT ![s] = r], r.times \subseteq Nat,
         NEW upto \in Int, dealt' = [dealt EXCEPT ![s] = upto], upto <= clock,
         r.times = {} \/ r.last = upto
  PROVE  FirstInv'
  <1>1. /\ row'[s] = r /\ dealt'[s] = upto
        /\ \A q \in Servers : q # s => row'[q] = row[q] /\ dealt'[q] = dealt[q]
    BY DEF TypeOK
  <1>2. /\ clock' \in Nat
        /\ \A q \in Servers : row'[q].times \subseteq Nat /\ dealt'[q] <= clock'
    BY <1>1 DEF FirstInv
  <1>3. \A q \in Servers : q # s /\ q \notin late' => q \notin late
    BY DEF DuringPass
  <1>4. pass'.at # "idle" => s \in late'
    BY DEF DuringPass
  <1>5. pass'.at # "idle" => /\ pass'.now \in Nat /\ pass'.now <= clock'
                             /\ \A q \in pass'.todo \ late' : dealt'[q] <= pass'.now
    <2>1. pass.todo \subseteq Servers
      BY DEF TypeOK, Pass
    <2> QED
      BY <1>1, <1>3, <1>4, <2>1 DEF FirstInv
  <1>6. ASSUME NEW q \in Existing' \ late' PROVE Quiet(q)'
    <2>1. CASE q = s
      <3>1. ASSUME NEW now \in Nat, NEW occ \in Due(r.times, now, r.last) PROVE occ > upto
        <4>1. PICK t \in r.times : occ = Midnight(now) + t
          BY DEF Due, Today
        <4>2. occ > r.last /\ r.last = upto
          BY <4>1 DEF Due
        <4> QED
          BY <4>2
      <3>2. row'[q].times = r.times /\ row'[q].last = r.last /\ dealt'[q] = upto
        BY <1>1, <2>1
      <3> QED
        BY <3>1, <3>2 DEF Quiet, Due, Today, Midnight
    <2>2. CASE q # s
      <3>1. q \in Servers /\ row'[q] = row[q] /\ dealt'[q] = dealt[q]
        BY <1>1, <1>6, <2>2 DEF Existing
      <3>2. Quiet(q)
        BY <1>3, <1>6, <2>2, <3>1 DEF FirstInv, Existing
      <3> QED
        BY <3>1, <3>2 DEF Quiet, Due, Today, Midnight
    <2> QED
      BY <2>1, <2>2
  <1> QED
    BY <1>2, <1>5, <1>6 DEF FirstInv

\* The pass deals with s: it marks the occurrence, or there is none.
LEMMA FirstDealt ==
  ASSUME TypeOK, FirstInv, DueInv, pass.at = "next", NEW s \in pass.todo,
         UNCHANGED <<clock, late>>, Looked(s),
         \/ row' = row /\ (DueFor(s) = {} \/ ~row[s].exists)
         \/ row' = Marks(s),
         pass'.todo = pass.todo \ {s}, pass'.now = pass.now
  PROVE  FirstInv'
  <1>1. /\ s \in Servers /\ pass.now \in Nat /\ pass.now <= clock /\ pass.todo \subseteq Servers
        /\ row \in [Servers -> Row] /\ dealt \in [Servers -> Int] /\ clock \in Nat
    BY DEF TypeOK, Pass, FirstInv
  <1>2. /\ \A q \in Servers : q # s => row'[q] = row[q] /\ dealt'[q] = dealt[q]
        /\ dealt'[s] = IF dealt[s] < pass.now THEN pass.now ELSE dealt[s]
        /\ row'[s].times = row[s].times /\ row'[s].exists = row[s].exists
        /\ row' = row \/ row'[s].last = pass.now
    BY <1>1 DEF Looked, Marks, Row
  <1>3. \A q \in Servers : row'[q].times \subseteq Nat /\ dealt'[q] <= clock'
    BY <1>1, <1>2 DEF FirstInv
  <1>4. \A q \in pass'.todo \ late' : dealt'[q] <= pass'.now
    BY <1>1, <1>2 DEF FirstInv
  <1>5. ASSUME NEW q \in Existing' \ late' PROVE Quiet(q)'
    <2>1. q \in Existing \ late
      BY <1>1, <1>2, <1>5 DEF Existing
    <2>2. CASE q # s
      <3>1. q \in Servers /\ row'[q] = row[q] /\ dealt'[q] = dealt[q] /\ Quiet(q)
        BY <1>2, <2>1, <2>2 DEF FirstInv, Existing
      <3> QED
        BY <3>1 DEF Quiet, Due, Today, Midnight
    <2>3. CASE q = s
      <3>1. dealt[s] <= pass.now /\ dealt[s] \in Int
        BY <1>1, <2>1, <2>3 DEF FirstInv
      <3>2. dealt'[s] = pass.now
        BY <1>1, <1>2, <3>1
      <3>3. row[s].times \in SUBSET Nat /\ row[s].last \in Int /\ row[s].exists
        BY <1>1, <2>1, <2>3 DEF FirstInv, Row, Existing
      <3>4. ASSUME NEW now \in Nat, now >= pass.now,
                   NEW occ \in Due(row[s].times, now, row'[s].last)
            PROVE  occ > pass.now
        <4>1. CASE row'[s].last = pass.now
          BY <4>1 DEF Due
        <4>2. CASE row' = row
          <5>1. CASE DueFor(s) = {}
            <6>1. pass.snap[s].times = row[s].times /\ pass.snap[s].last = row[s].last
              BY <2>1, <2>3 DEF DueInv
            <6>2. Due(row[s].times, pass.now, row[s].last) = {}
              BY <5>1, <6>1 DEF DueFor
            <6>3. occ \in Due(row[s].times, now, row[s].last)
              BY <4>2
            <6> QED
              BY <1>1, <3>3, <3>4, <6>2, <6>3, LookedThrough
          <5>2. CASE row' = Marks(s)
            <6>1. row'[s].last = pass.now
              BY <1>1, <5>2 DEF Marks, Row
            <6> QED
              BY <4>1, <6>1
          <5> QED
            BY <3>3, <5>1, <5>2
        <4> QED
          BY <1>2, <4>1, <4>2
      <3> QED
        BY <1>2, <2>3, <3>2, <3>4 DEF Quiet, Due, Today, Midnight
    <2> QED
      BY <2>2, <2>3
  <1> QED
    BY <1>1, <1>3, <1>4, <1>5 DEF FirstInv

LEMMA StepFirst == TypeOK /\ DueInv /\ FirstInv /\ [Next]_vars => FirstInv'
  <1> SUFFICES ASSUME TypeOK, DueInv, FirstInv, [Next]_vars PROVE FirstInv'
    OBVIOUS
  <1>0. clock \in Nat /\ clock \in Int /\ pass.now \in Int /\ dealt \in [Servers -> Int]
    BY DEF TypeOK, Pass, FirstInv
  <1>1. CASE UNCHANGED <<row, pass, clock, late, dealt>>
    BY <1>1 DEF FirstInv, Existing, Quiet, Due, Today, Midnight
  <1>2. ASSUME NEW t \in Threads,
               CreateReads(t) \/ \E s \in Servers : PortsRead(t, s)
        PROVE  FirstInv'
    BY <1>1, <1>2 DEF CreateReads, PortsRead
  <1>3. ASSUME NEW t \in Threads, CreateCommits(t) PROVE FirstInv'
    <2>1. PICK s \in Servers \ Existing :
            /\ row' = [row EXCEPT ![s] = New(thread[t].ports)] /\ DuringPass(s)
            /\ dealt' = [dealt EXCEPT ![s] = Never]
      BY <1>3 DEF CreateCommits
    <2>2. /\ New(thread[t].ports) \in Row /\ New(thread[t].ports).times = {}
      <3>1. thread[t].ports \in [PortKinds -> Int] /\ NoRow \in Row
        BY NoRowType DEF TypeOK, Thread
      <3> QED
        BY <3>1 DEF New, Row, NoRow
    <2>3. Never \in Int /\ Never <= clock
      BY <1>0 DEF Never
    <2>4. pass' = pass /\ clock' = clock
      BY <1>3 DEF CreateCommits
    <2> QED
      BY <2>1, <2>2, <2>3, <2>4, FirstSet
  <1>4. ASSUME NEW t \in Threads, CreateEnds(t) PROVE FirstInv'
    <2>1. \A r \in Servers : row'[r] = row[r] \/ (row'[r].times = {} /\ ~row'[r].exists)
      BY <1>4 DEF CreateEnds, TypeOK, NoRow
    <2>2. \A r \in Servers : row'[r].times = row[r].times \/ row'[r].times = {}
      BY <2>1
    <2>3. \A r \in Existing' : r \in Existing /\ row'[r].times = row[r].times
                                             /\ row'[r].last = row[r].last
      BY <2>1 DEF Existing
    <2>4. dealt' = dealt /\ clock' = clock /\ pass' = pass /\ late' = late
      BY <1>4 DEF CreateEnds
    <2> QED
      BY <1>0, <2>2, <2>3, <2>4, FirstKept
  <1>5. ASSUME dealt' = dealt, clock' = clock, late' = late,
               \/ pass'.at = "idle"
               \/ pass.at # "idle" /\ pass'.now = pass.now /\ pass'.todo = pass.todo
               \/ pass' = pass,
               \A r \in Servers : /\ row'[r].exists = row[r].exists
                                  /\ row'[r].times = row[r].times
                                  /\ row'[r].last = row[r].last
        PROVE  FirstInv'
    <2>1. \A r \in Existing' : r \in Existing /\ row'[r].times = row[r].times
                                             /\ row'[r].last = row[r].last
      BY <1>5 DEF Existing
    <2> QED
      BY <1>0, <1>5, <2>1, FirstKept
  <1>6. ASSUME NEW t \in Threads, PortsCommit(t) PROVE FirstInv'
    <2>1. \A r \in Servers : /\ row'[r].exists = row[r].exists
                             /\ row'[r].times = row[r].times
                             /\ row'[r].last = row[r].last
      BY <1>6 DEF PortsCommit, TypeOK, Row
    <2> QED
      BY <1>5, <1>6, <2>1 DEF PortsCommit
  <1>7. ASSUME NEW s \in Servers, Wants(s) PROVE FirstInv'
    <2>1. \A r \in Servers : /\ row'[r].exists = row[r].exists
                             /\ row'[r].times = row[r].times
                             /\ row'[r].last = row[r].last
      BY <1>7 DEF Wants, TypeOK, Row
    <2> QED
      BY <1>5, <1>7, <2>1 DEF Wants
  <1>8. ASSUME NEW s \in Servers, SetSchedule(s) PROVE FirstInv'
    <2>1. PICK times \in Schedules :
            row' = [row EXCEPT ![s].times = times, ![s].last = Stamp(times)]
      BY <1>8 DEF SetSchedule
    <2> DEFINE r == [row[s] EXCEPT !.times = times, !.last = Stamp(times)]
    <2>2. /\ times \in SUBSET Nat /\ times \in SUBSET Int
          /\ Stamp(times) \in Int /\ row[s] \in Row
      <3>1. times \in SUBSET Nat
        OBVIOUS
      <3>2. times \in SUBSET Int
        BY <3>1
      <3>3. Stamp(times) \in Int /\ row[s] \in Row
        BY <1>0 DEF TypeOK, Stamp, Never
      <3> QED
        BY <3>1, <3>2, <3>3
    <2>3. r \in Row /\ r.times = times /\ r.last = Stamp(times)
      BY <2>2 DEF Row
    <2>4. row' = [row EXCEPT ![s] = r]
      BY <2>1 DEF TypeOK
    <2>5. r.times \subseteq Nat /\ (r.times = {} \/ r.last = clock)
      BY <2>2, <2>3 DEF Stamp
    <2>6. /\ DuringPass(s) /\ pass' = pass /\ clock' = clock
          /\ dealt' = [dealt EXCEPT ![s] = clock] /\ clock <= clock
      BY <1>0, <1>8 DEF SetSchedule
    <2> HIDE DEF r
    <2> QED
      BY <1>0, <2>3, <2>4, <2>5, <2>6, FirstSet
  <1>9. ASSUME NEW s \in Servers, Delete(s) PROVE FirstInv'
    <2>1. NoRow \in Row /\ NoRow.times = {} /\ Never \in Int /\ Never <= clock
      BY <1>0, NoRowType DEF NoRow, Never
    <2> QED
      BY <1>9, <2>1, FirstSet DEF Delete
  <1>10. ASSUME NEW s \in Servers, Restarts(s) PROVE FirstInv'
    <2> DEFINE left == Without(s)
    <2>1. left \in Pass /\ left.now = pass.now /\ left.todo = pass.todo \ {s}
      BY WithoutType
    <2>2. pass' = [left EXCEPT !.at = "restart", !.server = s]
      BY <1>10 DEF Restarts
    <2> HIDE DEF left
    <2>3. pass'.now = left.now /\ pass'.todo = left.todo
      BY <2>1, <2>2 DEF Pass
    <2> QED
      BY <1>10, <2>1, <2>3, FirstDealt DEF Restarts
  <1>11. ASSUME NEW s \in Servers, PassesOver(s) PROVE FirstInv'
    <2>1. pass'.now = pass.now /\ pass'.todo = pass.todo \ {s}
      BY <1>11, WithoutType DEF PassesOver
    <2> QED
      BY <1>11, <2>1, FirstDealt DEF PassesOver
  <1>12. CASE Tick
    <2>1. /\ clock' \in Nat /\ clock <= clock' /\ dealt' = dealt /\ late' = late
          /\ row' = row /\ pass' = pass
      BY <1>0, <1>12 DEF Tick
    <2> QED
      BY <1>0, <2>1, FirstKept DEF Existing
  <1>13. CASE PassBegins
    <2>1. /\ pass'.now = clock /\ row' = row /\ late' = late /\ dealt' = dealt
          /\ clock' = clock /\ pass'.todo = Existing
      BY <1>13 DEF PassBegins
    <2>2. Existing \subseteq Servers /\ Existing' = Existing
      BY <2>1 DEF Existing
    <2>3. \A s \in Existing' \ late' : Quiet(s)'
      BY <2>1, <2>2 DEF FirstInv, Quiet, Due, Today, Midnight
    <2> QED
      BY <2>1, <2>2, <2>3 DEF FirstInv
  <1>14. CASE RestartEnds
    <2> DEFINE s == pass.server
    <2>1. s \in Servers /\ pass.at = "restart"
      BY <1>14 DEF RestartEnds, TypeOK
    <2>2. row' = row \/ \E wanted \in BOOLEAN : row' = [row EXCEPT ![s].wanted = wanted]
      BY <1>14 DEF RestartEnds
    <2>3. \A r \in Servers : /\ row'[r].exists = row[r].exists
                             /\ row'[r].times = row[r].times
                             /\ row'[r].last = row[r].last
      <3>1. ASSUME NEW wanted \in BOOLEAN, row' = [row EXCEPT ![s].wanted = wanted],
                   NEW r \in Servers
            PROVE  /\ row'[r].exists = row[r].exists
                   /\ row'[r].times = row[r].times /\ row'[r].last = row[r].last
        BY <2>1, <3>1 DEF TypeOK, Row
      <3> QED
        BY <2>2, <3>1
    <2>4. /\ \/ pass'.at = "idle"
             \/ pass.at # "idle" /\ pass'.now = pass.now /\ pass'.todo = pass.todo
          /\ dealt' = dealt /\ clock' = clock /\ late' = late
      <3>1. NoPass.at = "idle"
        BY DEF NoPass
      <3>2. ASSUME pass' = [pass EXCEPT !.at = "next", !.server = NoServer]
            PROVE  pass'.now = pass.now /\ pass'.todo = pass.todo
        BY <3>2 DEF TypeOK, Pass
      <3> QED
        BY <1>14, <2>1, <3>1, <3>2 DEF RestartEnds
    <2> QED
      BY <1>5, <2>3, <2>4
  <1>15. CASE PassEnds
    BY <1>5, <1>15 DEF PassEnds, NoPass
  <1> QED
    BY <1>1, <1>2, <1>3, <1>4, <1>6, <1>7, <1>8, <1>9, <1>10, <1>11, <1>12, <1>13, <1>14, <1>15
    DEF Next, vars

\* A restart is for an occurrence that came after a pass last looked at the server
\* and after its schedule was set: one that found the server stopped restarts it at
\* no later pass, and none does twice (due_occurrence, set_restart_schedule,
\* apply_scheduled_restarts); but for schedules set during a pass.
THEOREM FirstPassHolds == Spec => FirstPassOnly
  <1>1. TypeOK /\ DueInv /\ FirstInv /\ [Next]_vars => (TypeOK /\ DueInv /\ FirstInv)'
    BY StepType, StepDue, StepFirst
  <1>2. Init => TypeOK /\ DueInv /\ FirstInv
    BY InitType, InitDue, InitFirst
  <1>3. TypeOK /\ DueInv /\ FirstInv /\ [Next]_vars =>
          [\A s \in Servers : Restarts(s) /\ s \notin late => Latest(DueFor(s)) > dealt[s]]_vars
    <2> SUFFICES ASSUME TypeOK, DueInv, FirstInv, NEW s \in Servers, Restarts(s), s \notin late
                 PROVE  Latest(DueFor(s)) > dealt[s]
      OBVIOUS
    <2>1. pass.at = "next" /\ s \in pass.todo /\ DueFor(s) # {} /\ s \in Existing \ late
      BY DEF Restarts, Existing
    <2>2. pass.snap[s].times = row[s].times /\ pass.snap[s].last = row[s].last
      BY <2>1 DEF DueInv
    <2>3. /\ pass.now \in Nat /\ dealt[s] <= pass.now
          /\ row[s].times \in SUBSET Nat /\ row[s].last \in Int
      BY <2>1 DEF FirstInv, TypeOK, Row
    <2>4. Latest(DueFor(s)) \in Due(row[s].times, pass.now, row[s].last)
      BY <2>1, <2>2, <2>3, LatestIsDue DEF DueFor
    <2>5. Quiet(s) /\ pass.now >= dealt[s]
      <3>1. dealt[s] \in Int
        BY DEF TypeOK
      <3> QED
        BY <2>1, <2>3, <3>1 DEF FirstInv
    <2> QED
      BY <2>3, <2>4, <2>5 DEF Quiet
  <1> QED
    BY <1>1, <1>2, <1>3, PTL DEF Spec, FirstPassOnly

=============================================================================
