------------------------------- MODULE Fleet -------------------------------
(***************************************************************************)
(* What the servers of one manager share: the ranges their host ports are  *)
(* leased from, and the monitor's pass that restarts each at the times of  *)
(* its daily schedule (services/instance_service.py, ports.py, the         *)
(* handlers of instances_api.py).                                          *)
(*                                                                         *)
(* Creating a server and changing its ports run in worker threads: what a  *)
(* thread reads may have changed when it commits, and no column keeps two  *)
(* rows from having the same port.  The pass works through a copy of the   *)
(* table and waits for each restart, while schedules are set and servers   *)
(* started, stopped and deleted.  Containers are in Lifecycle; time is a   *)
(* clock of whole days in the manager's local time.                        *)
(***************************************************************************)
EXTENDS Integers, FiniteSets

CONSTANTS
  Servers,   \* row ids
  NoServer,
  PortKinds, \* game, A2S and RCON ports, all treated alike
  Range,     \* the range of each kind
  OldPorts,  \* ports outside of the ranges, set before they were enforced
  Threads,
  Schedules, \* sets of times of day
  Day,       \* length of a day
  Grace,     \* SCHEDULE_CATCHUP_GRACE_SECONDS
  Horizon,   \* the clock's bound
  Limits     \* how often each bounded event may happen

BoundedEvents == {"requests", "breaks"}

ASSUME FleetAssumption ==
  /\ NoServer \notin Servers
  /\ Range \in [PortKinds -> SUBSET Nat] /\ OldPorts \subseteq Nat
  /\ Schedules \subseteq SUBSET Nat /\ Day \in Nat \ {0} /\ Grace \in Nat
  /\ Limits \in [BoundedEvents -> Nat]

VARIABLES
  row,     \* the Instance table
  thread,  \* the threads that create servers and change their ports
  pass,    \* apply_scheduled_restarts
  clock,
  raced,   \* history: servers whose ports were read before another's were committed
  late,    \* history: servers whose schedule was set, or row made, during a pass
  dealt,   \* history: up to when each server's occurrences were looked at
  budget   \* bounded events left

vars == <<row, thread, pass, clock, raced, late, dealt, budget>>

-----------------------------------------------------------------------------
Never == -1

NoRow == [exists |-> FALSE, ports |-> [k \in PortKinds |-> Never], times |-> {},
          last |-> Never, wanted |-> FALSE]

New(ports) == [NoRow EXCEPT !.exists = TRUE, !.ports = ports]

Existing == {s \in Servers : row[s].exists}

Waiting == [pc |-> "idle", server |-> NoServer, ports |-> NoRow.ports, stale |-> FALSE]

\* What the pass reads of a row.
Scheduled(r) == [times |-> r.times, last |-> r.last, wanted |-> r.wanted]

NoPass == [at |-> "idle", now |-> Never, snap |-> [s \in Servers |-> Scheduled(NoRow)],
           todo |-> {}, server |-> NoServer]

Row == [exists: BOOLEAN, ports: [PortKinds -> Int], times: SUBSET Int, last: Int,
        wanted: BOOLEAN]
Thread == [pc: {"idle", "create", "aside", "ports"}, server: Servers \cup {NoServer},
           ports: [PortKinds -> Int], stale: BOOLEAN]
Pass == [at: {"idle", "next", "restart"}, now: Int, todo: SUBSET Servers,
         snap: [Servers -> [times: SUBSET Int, last: Int, wanted: BOOLEAN]],
         server: Servers \cup {NoServer}]

TypeOK ==
  /\ row \in [Servers -> Row]
  /\ thread \in [Threads -> Thread]
  /\ \A t \in Threads : thread[t].pc \in {"aside", "ports"} => thread[t].server \in Servers
  /\ pass \in Pass /\ (pass.at = "restart" => pass.server \in Servers)
  /\ clock \in Int /\ dealt \in [Servers -> Int]
  /\ raced \subseteq Servers /\ late \subseteq Servers
  /\ budget \in [BoundedEvents -> Nat]

Spend(event) == /\ budget[event] > 0
                /\ budget' = [budget EXCEPT ![event] = @ - 1]

\* Some servers are there, with schedules set before and ports apart, perhaps
\* from before the ranges were enforced.
Init ==
  /\ row \in [Servers -> {NoRow} \cup
                [exists: {TRUE}, times: Schedules, last: {Never}, wanted: BOOLEAN,
                 ports: {p \in [PortKinds -> (UNION {Range[k] : k \in PortKinds}) \cup OldPorts] :
                           \A k \in PortKinds : p[k] \in Range[k] \cup OldPorts}]]
  /\ \A s, r \in Existing : s # r => \A k \in PortKinds : row[s].ports[k] # row[r].ports[k]
  /\ thread = [t \in Threads |-> Waiting]
  /\ pass = NoPass
  /\ clock = 0
  /\ raced = {} /\ late = {}
  /\ dealt = [s \in Servers |-> Never]
  /\ budget = Limits

-----------------------------------------------------------------------------
(* Ports                                                                   *)

\* Mutant: only the servers that should be running hold their ports.
UsedByWanted(k, except) == {row[s].ports[k] : s \in {r \in Existing \ {except} : row[r].wanted}}

\* used_ports, of all servers but one.
Used(k, except) == {row[s].ports[k] : s \in Existing \ {except}}

FirstFree(range, used) == CHOOSE p \in range \ used : \A q \in range \ used : p <= q

\* _resolve_port: what may come of a request. A port asked for must be free and
\* in the range, or the one the server has; else the first free one is leased.
Resolved(k, except, current) ==
  ((Range[k] \cup {current}) \ Used(k, except)) \ {Never}

Leased(k, except) == IF Range[k] \subseteq Used(k, except) THEN {}
                     ELSE {FirstFree(Range[k], Used(k, except))}

Works(t, after) == thread' = [thread EXCEPT ![t] = after]

\* create_instance, what it reads: each port is asked for or leased.
CreateReads(t) ==
  /\ thread[t].pc = "idle" /\ Existing # Servers
  /\ Spend("requests")
  /\ \E ports \in [PortKinds -> UNION {Range[k] : k \in PortKinds}] :
       /\ \/ \A k \in PortKinds : ports[k] \in Leased(k, NoServer)
          \/ \A k \in PortKinds : ports[k] \in Resolved(k, NoServer, Never)
       /\ Works(t, [pc |-> "create", server |-> NoServer, ports |-> ports, stale |-> FALSE])
  /\ UNCHANGED <<row, pass, clock, raced, late, dealt>>

\* Whoever has read the ports before this commit has read too early.
Overtakes(t, after) ==
  thread' = [u \in Threads |-> IF u = t THEN after
                               ELSE IF thread[u].pc \in {"create", "ports"}
                                    THEN [thread[u] EXCEPT !.stale = TRUE] ELSE thread[u]]

Races(t, s) == raced' = IF thread[t].stale THEN raced \cup {s} ELSE raced \ {s}

DuringPass(s) == late' = IF pass.at = "idle" THEN late \ {s} ELSE late \cup {s}

CreateCommits(t) ==
  /\ thread[t].pc = "create"
  /\ \E s \in Servers \ Existing :
       /\ row' = [row EXCEPT ![s] = New(thread[t].ports)]
       /\ Overtakes(t, [Waiting EXCEPT !.pc = "aside", !.server = s])
       /\ Races(t, s) /\ DuringPass(s)
       /\ dealt' = [dealt EXCEPT ![s] = Never]
  /\ UNCHANGED <<pass, clock, budget>>

\* The data a deleted server left under the id is moved aside; if that fails,
\* the row goes again.
CreateEnds(t) ==
  LET s == thread[t].server IN
  /\ thread[t].pc = "aside"
  /\ \/ UNCHANGED row
     \/ row' = [row EXCEPT ![s] = NoRow]
  /\ Works(t, Waiting)
  /\ UNCHANGED <<pass, clock, raced, late, dealt, budget>>

\* update_ports, what it reads: a port not given stays, if it may.
PortsRead(t, s) ==
  /\ thread[t].pc = "idle" /\ row[s].exists
  /\ Spend("requests")
  /\ \E ports \in [PortKinds -> (UNION {Range[k] : k \in PortKinds}) \cup OldPorts] :
       /\ ports # row[s].ports
       /\ \A k \in PortKinds : ports[k] \in Resolved(k, s, row[s].ports[k])
       /\ Works(t, [pc |-> "ports", server |-> s, ports |-> ports, stale |-> FALSE])
  /\ UNCHANGED <<row, pass, clock, raced, late, dealt>>

\* The row may be gone: then the commit fails.
PortsCommit(t) ==
  LET s == thread[t].server IN
  /\ thread[t].pc = "ports"
  /\ \/ /\ row[s].exists
        /\ row' = [row EXCEPT ![s].ports = thread[t].ports]
        /\ Overtakes(t, Waiting)
        /\ Races(t, s)
     \/ /\ ~row[s].exists
        /\ Works(t, Waiting)
        /\ UNCHANGED <<row, raced>>
  /\ UNCHANGED <<pass, clock, late, dealt, budget>>

-----------------------------------------------------------------------------
(* Schedules                                                               *)

Midnight(c) == c - (c % Day)

\* The occurrences of today.
Today(times, now) == {Midnight(now) + t : t \in times}

Due(times, now, last) ==
  {occ \in Today(times, now) : occ <= now /\ now - occ <= Grace /\ last < occ}

Latest(occs) == CHOOSE occ \in occs : \A other \in occs : other <= occ

\* Mutant: a schedule is set as if no restart had been due before.
Unstamped(times) == Never

Stamp(times) == IF times = {} THEN Never ELSE clock

\* set_restart_schedule: what is past already today is not to fire.
SetSchedule(s) ==
  /\ row[s].exists /\ Spend("requests")
  /\ \E times \in Schedules \ {row[s].times} :
       row' = [row EXCEPT ![s].times = times,
                          ![s].last = Stamp(times)]
  /\ dealt' = [dealt EXCEPT ![s] = clock]
  /\ DuringPass(s)
  /\ UNCHANGED <<thread, pass, clock, raced>>

\* Start and stop, as the schedule sees them; delete_instance.
Wants(s) ==
  /\ row[s].exists /\ Spend("requests")
  /\ row' = [row EXCEPT ![s].wanted = ~@]
  /\ UNCHANGED <<thread, pass, clock, raced, late, dealt>>

Delete(s) ==
  /\ row[s].exists /\ Spend("requests")
  /\ row' = [row EXCEPT ![s] = NoRow]
  /\ raced' = raced \ {s}
  /\ dealt' = [dealt EXCEPT ![s] = Never]
  /\ DuringPass(s)
  /\ UNCHANGED <<thread, pass, clock>>

\* Time passes at any pace: a pass may take hours, or the manager be down.
Tick ==
  /\ clock < Horizon
  /\ clock' = clock + 1
  /\ UNCHANGED <<row, thread, pass, raced, late, dealt, budget>>

PassBegins ==
  /\ pass.at = "idle" /\ \E s \in Servers : row[s].times # {}
  /\ pass' = [at |-> "next", now |-> clock, todo |-> Existing, server |-> NoServer,
              snap |-> [s \in Servers |-> Scheduled(row[s])]]
  /\ UNCHANGED <<row, thread, clock, raced, late, dealt, budget>>

DueFor(s) == Due(pass.snap[s].times, pass.now, pass.snap[s].last)

\* Mutant: the occurrence of a stopped server is left unmarked.
MarksIfWanted(s) == IF pass.snap[s].wanted THEN [row EXCEPT ![s].last = pass.now] ELSE row

\* The occurrence is marked before the restart, and for a stopped server too.
Marks(s) == [row EXCEPT ![s].last = pass.now]

Looked(s) == dealt' = [dealt EXCEPT ![s] = IF @ < pass.now THEN pass.now ELSE @]

\* The pass goes on without the server; its copy of the row is of no more use.
Without(s) == [pass EXCEPT !.todo = @ \ {s}, !.snap[s] = NoPass.snap[s]]

Restarts(s) ==
  /\ pass.at = "next" /\ s \in pass.todo
  /\ DueFor(s) # {} /\ row[s].exists /\ pass.snap[s].wanted
  /\ row' = Marks(s)
  /\ pass' = [Without(s) EXCEPT !.at = "restart", !.server = s]
  /\ Looked(s)
  /\ UNCHANGED <<thread, clock, raced, late, budget>>

\* Nothing due, or the row is gone, or the server is stopped.
PassesOver(s) ==
  /\ pass.at = "next" /\ s \in pass.todo
  /\ \/ DueFor(s) = {} /\ UNCHANGED row
     \/ DueFor(s) # {} /\ ~row[s].exists /\ UNCHANGED row
     \/ DueFor(s) # {} /\ row[s].exists /\ ~pass.snap[s].wanted /\ row' = Marks(s)
  /\ pass' = Without(s)
  /\ Looked(s)
  /\ UNCHANGED <<thread, clock, raced, late, budget>>

\* restart_instance, which leaves the server to be running; an InstanceError is
\* logged and the pass goes on, any other ends it.
RestartEnds ==
  LET s == pass.server IN
  /\ pass.at = "restart"
  /\ \/ /\ row' = IF row[s].exists THEN [row EXCEPT ![s].wanted = TRUE] ELSE row
        /\ pass' = [pass EXCEPT !.at = "next", !.server = NoServer]
        /\ UNCHANGED budget
     \/ /\ Spend("breaks")
        /\ \E wanted \in BOOLEAN :
             row' = IF row[s].exists THEN [row EXCEPT ![s].wanted = wanted] ELSE row
        /\ \/ pass' = [pass EXCEPT !.at = "next", !.server = NoServer]
           \/ pass' = NoPass
  /\ UNCHANGED <<thread, clock, raced, late, dealt>>

PassEnds ==
  /\ pass.at = "next" /\ pass.todo = {}
  /\ pass' = NoPass
  /\ UNCHANGED <<row, thread, clock, raced, late, dealt, budget>>

-----------------------------------------------------------------------------
Next ==
  \/ \E t \in Threads : \/ CreateReads(t) \/ CreateCommits(t) \/ CreateEnds(t)
                        \/ PortsCommit(t)
                        \/ \E s \in Servers : PortsRead(t, s)
  \/ \E s \in Servers : \/ SetSchedule(s) \/ Wants(s) \/ Delete(s)
                        \/ Restarts(s) \/ PassesOver(s)
  \/ Tick \/ PassBegins \/ RestartEnds \/ PassEnds

Spec == Init /\ [][Next]_vars

-----------------------------------------------------------------------------
\* "two servers never collide on a host port": no two servers have the same port
\* of a kind, unless one got its ports in the window between another thread's
\* reading and its commit.
PortsApart ==
  \A s \in Existing, r \in Existing, k \in PortKinds :
    s # r /\ row[s].ports[k] = row[r].ports[k] => s \in raced \/ r \in raced

\* A restart is for an occurrence that came after the last pass looked at the
\* server, whether it was restarted then or stopped, and after its schedule was
\* set: started at 04:30 it is not restarted for the 04:00 it missed, and no
\* occurrence restarts it twice. Not so where the schedule was set, or the row
\* made, while a pass worked through its copy of the table.
FirstPassOnly ==
  [][\A s \in Servers : Restarts(s) /\ s \notin late => Latest(DueFor(s)) > dealt[s]]_vars

\* A pass that ends has left nothing due of what was due when it began: not for
\* the servers after one that was stopped, deleted or failed to restart.
NothingLeftDue ==
  [][PassEnds => \A s \in Existing \ late :
       Due(row[s].times, pass.now, row[s].last) = {}]_vars
=============================================================================
