----------------------------- MODULE Lifecycle -----------------------------
(***************************************************************************)
(* The life of the game servers a manager runs: the rows of its Instance   *)
(* table, the Docker containers they stand for, and everything that writes *)
(* to both.  services/instance_service.py does each operation in a worker  *)
(* thread (asyncio.to_thread), one database session or one Docker call at  *)
(* a time and without a lock between them, so every such session or call   *)
(* is one action here and any two operations interleave.                   *)
(*                                                                         *)
(* The threads are those of the HTTP handlers (Admins) and the one of the  *)
(* background monitor (Monitor), which runs a recovery pass and then a     *)
(* scheduled-restart pass over a copy of the table it read at its start.   *)
(***************************************************************************)
EXTENDS Naturals, FiniteSets

CONSTANTS
  Instances,    \* ids of the Instance table (SQLite rowids, reused after a delete)
  NoInstance,   \* the instance of a thread that works on none
  Templates,    \* ids of the Template table
  NoTemplate,   \* template_id NULL
  Admins,       \* worker threads that serve the API
  Monitor,      \* the worker thread of _crash_monitor
  Requests,     \* the operations the admins may ask for
  Limits        \* how often each bounded event may happen, one of these

Kinds == {"start", "stop", "restart", "edit", "rename", "toggle", "delete",
          "create", "detach"}

BoundedEvents == {"requests", "schedules", "faults", "exits", "boots"}

ASSUME ThreadsAssumption == /\ Monitor \notin Admins
                            /\ NoInstance \notin Instances
                            /\ NoTemplate \notin Templates
ASSUME BoundsAssumption  == /\ Requests \subseteq Kinds
                            /\ Limits \subseteq [BoundedEvents -> Nat]

VARIABLES
  db,          \* the Instance table
  templates,   \* the Template table
  cont,        \* the container of each instance, as the Docker daemon has it
  conf,        \* the template each instance's config.json was last written from
  seen,        \* _seen_running: instances this manager process has seen up
  thr,         \* the worker threads
  mon,         \* what the monitor's current pass works through
  mgr,         \* the manager process and its shutdown_all_instances
  ranThisBoot, \* history: instances that were up at some time since the manager started
  disturbed,   \* history: instances an operation was raced or failed on
  budget       \* bounded events left

vars == <<db, templates, cont, conf, seen, thr, mon, mgr, ranThisBoot,
          disturbed, budget>>

history == <<ranThisBoot, disturbed>>

-----------------------------------------------------------------------------
Threads == Admins \cup {Monitor}

TemplateOrNone == Templates \cup {NoTemplate}

\* What a container has baked in besides the template: name, ports, launch
\* parameters, network mode.  One bit tells a changed setting from an old one.
Faces == {0, 1}

Row == [exists: BOOLEAN, desired: {"running", "stopped"},
        template: TemplateOrNone, lastStarted: TemplateOrNone, face: Faces,
        autoStart: BOOLEAN, autoRestart: BOOLEAN]

Blank == [exists |-> FALSE, desired |-> "stopped", template |-> NoTemplate,
          lastStarted |-> NoTemplate, face |-> 0, autoStart |-> TRUE,
          autoRestart |-> TRUE]

Status == {"absent", "created", "running", "restarting", "exited"}

Policies == {"no", "on-failure", "unless-stopped"}

Container == [status: Status, template: TemplateOrNone, face: Faces,
              policy: Policies, runs: TemplateOrNone]

NoContainer == [status |-> "absent", template |-> NoTemplate, face |-> 0,
                policy |-> "no", runs |-> NoTemplate]

StartWindow == {"start.find", "start.remove", "start.write", "start.create",
                "start.run", "start.commit"}

Labels == {"idle", "sleep", "next", "start.read", "stop.row", "stop.find",
           "stop.kill", "delete.find", "delete.remove", "delete.row",
           "edit.check", "edit.row", "edit.switch", "edit.find", "edit.remove",
           "toggle.row", "toggle.update", "create.row", "create.aside",
           "detach.row", "detach.next", "detach.drop"}
          \cup StartWindow

\* held: the thread's handle on the container it looked up; "dead" once that
\* container has been removed, whoever removed it.
Thread == [pc: Labels, i: Instances \cup {NoInstance}, row: Row,
           held: {"none", "live", "dead"}, again: BOOLEAN,
           todo: SUBSET Instances, template: TemplateOrNone]

Resting(t) == [pc |-> IF t = Monitor THEN "sleep" ELSE "idle",
               i |-> NoInstance, row |-> Blank, held |-> "none",
               again |-> FALSE, todo |-> {}, template |-> NoTemplate]

Up(i) == cont[i].status = "running"

Alive(i) == cont[i].status \in {"running", "restarting"}

\* Mutant: Docker's "always" for a server that starts on boot.
PolicyAlways(row) == IF row.autoStart THEN "always" ELSE "no"

PolicyOf(row) == IF row.autoStart THEN "unless-stopped"
                 ELSE IF row.autoRestart THEN "on-failure" ELSE "no"

Spend(event) == /\ budget[event] > 0
                /\ budget' = [budget EXCEPT ![event] = @ - 1]

-----------------------------------------------------------------------------
(* Bookkeeping of a thread's step.                                         *)

At(t, pc) == thr[t].pc = pc

\* Thread t's new state, a commit of i's row, what becomes of i's container.
Moves(t, after)    == thr' = [thr EXCEPT ![t] = after]
Commits(i, row)    == db' = [db EXCEPT ![i] = row]
Becomes(i, after)  == cont' = [cont EXCEPT ![i] = after]

Goto(t, pc) == Moves(t, [thr[t] EXCEPT !.pc = pc])

\* The server process of i's container starts, with the config.json it finds.
ServerRuns(i) ==
  /\ Becomes(i, [cont[i] EXCEPT !.status = "running", !.runs = conf[i]])
  /\ ranThisBoot' = ranThisBoot \cup {i}

\* container.stop: a container that is not up is left as it is.
Stopped(i) == Becomes(i, IF Alive(i) THEN [cont[i] EXCEPT !.status = "exited"] ELSE cont[i])

\* A thread that finished its operation on one server: the monitor goes on
\* with its pass, a template deletion with its next server.
Finished(t) ==
  [Resting(t) EXCEPT !.pc = IF t = Monitor THEN "next"
                            ELSE IF thr[t].template # NoTemplate
                                 THEN "detach.next" ELSE "idle",
                     !.todo = thr[t].todo, !.template = thr[t].template]

\* An InstanceError: the monitor logs it and goes on, a request ends with it.
Failed(t) == IF t = Monitor THEN [Resting(t) EXCEPT !.pc = "next"] ELSE Resting(t)

\* Every handle on i's container but t's is dead once the container is gone.
RemovedBy(t, i, after) ==
  [u \in Threads |-> IF u = t THEN after
                     ELSE IF thr[u].i = i /\ thr[u].held = "live"
                          THEN [thr[u] EXCEPT !.held = "dead"] ELSE thr[u]]

\* The shutdown's handle on i's container dies with it too.
ForgottenByShutdown(i) == [mgr EXCEPT !.stop = @ \ {i}, !.remove = @ \ {i}]

\* Another thread is between reading i's row and committing a start.
Starting(t, i) == \E u \in Threads \ {t} : thr[u].i = i /\ thr[u].pc \in StartWindow

\* Another thread is removing i's container, with i's row to follow.
Deleting(t, i) ==
  \E u \in Threads \ {t} :
    thr[u].i = i /\ thr[u].pc \in {"delete.find", "delete.remove", "delete.row"}

DisturbIf(cond, i) == disturbed' = IF cond THEN disturbed \cup {i} ELSE disturbed

-----------------------------------------------------------------------------
\* Servers set up with a template, never started yet.
FreshRows == {row \in Row : /\ row.exists /\ row.desired = "stopped"
                            /\ row.template \in Templates
                            /\ row.lastStarted = NoTemplate
                            /\ row.face = 0 /\ row.autoRestart}

Init ==
  /\ db \in [Instances -> FreshRows]
  /\ templates = Templates
  /\ cont = [i \in Instances |-> NoContainer]
  /\ conf = [i \in Instances |-> NoTemplate]
  /\ seen = {}
  /\ thr = [t \in Threads |-> Resting(t)]
  /\ mon = [pass |-> "recover", snap |-> [i \in Instances |-> Blank], todo |-> {}]
  /\ mgr = [life |-> "up", stop |-> {}, remove |-> {}]
  /\ ranThisBoot = {}
  /\ disturbed = {}
  /\ budget \in Limits

-----------------------------------------------------------------------------
(* The admins' requests.                                                   *)

ServerKinds == {"start", "stop", "restart", "edit", "toggle", "delete"}

FirstStep(kind) == CASE kind = "start"              -> "start.read"
                     [] kind \in {"stop", "restart"} -> "stop.row"
                     [] kind = "edit"               -> "edit.check"
                     [] kind = "toggle"             -> "toggle.row"
                     [] kind = "delete"             -> "delete.find"

\* An admin asks for an operation on a server they can see.
Ask(t, kind, i) ==
  /\ mgr.life = "up" /\ At(t, "idle")
  /\ kind \in Requests \cap ServerKinds
  /\ db[i].exists
  /\ Spend("requests")
  /\ Moves(t, [Resting(t) EXCEPT !.pc = FirstStep(kind), !.i = i,
                                 !.again = (kind = "restart")])
  /\ UNCHANGED <<db, templates, cont, conf, seen, mon, mgr, history>>

\* DELETE /templates/{id}?force: leaves every server on it without one.
AskDetach(t, T) ==
  /\ mgr.life = "up" /\ At(t, "idle")
  /\ "detach" \in Requests /\ T \in templates
  /\ Spend("requests")
  /\ Moves(t, [Resting(t) EXCEPT !.pc = "detach.row", !.template = T])
  /\ UNCHANGED <<db, templates, cont, conf, seen, mon, mgr, history>>

\* create_instance: the template is looked up ...
AskCreate(t, T) ==
  /\ mgr.life = "up" /\ At(t, "idle")
  /\ "create" \in Requests /\ T \in templates
  /\ Spend("requests")
  /\ Moves(t, [Resting(t) EXCEPT !.pc = "create.row",
                                 !.row = [Blank EXCEPT !.exists = TRUE, !.template = T]])
  /\ UNCHANGED <<db, templates, cont, conf, seen, mon, mgr, history>>

\* edit_instance with a new name only: allowed while the server runs.
Rename(i) ==
  /\ mgr.life = "up" /\ "rename" \in Requests
  /\ db[i].exists
  /\ Spend("requests")
  /\ Commits(i, [db[i] EXCEPT !.face = 1 - @])
  /\ UNCHANGED <<templates, cont, conf, seen, thr, mon, mgr, history>>

\* ... the row is inserted, under an id that SQLite may have used before ...
CreateRow(t) ==
  /\ At(t, "create.row")
  /\ \/ \E i \in Instances :
          /\ ~db[i].exists
          /\ Commits(i, thr[t].row)
          /\ Moves(t, [Resting(t) EXCEPT !.pc = "create.aside", !.i = i])
          /\ DisturbIf(thr[t].row.template \notin templates, i)
     \/ /\ \A i \in Instances : db[i].exists
        /\ Moves(t, Resting(t))
        /\ UNCHANGED <<db, disturbed>>
  /\ UNCHANGED <<templates, cont, conf, seen, mon, mgr, ranThisBoot, budget>>

\* ... and withdrawn again if the id's old data cannot be moved aside (#187).
CreateAside(t) ==
  LET i == thr[t].i IN
  /\ At(t, "create.aside")
  /\ Moves(t, Resting(t))
  /\ \/ UNCHANGED <<db, budget, disturbed>>
     \/ /\ Spend("faults")
        /\ Commits(i, Blank)
        /\ DisturbIf(Alive(i) \/ Starting(t, i), i)
  /\ UNCHANGED <<templates, cont, conf, seen, mon, mgr, ranThisBoot>>

-----------------------------------------------------------------------------
(* start_instance                                                          *)

\* ping, the row, its run target, the server files: an InstanceError for each.
StartRead(t) ==
  LET i == thr[t].i IN
  /\ At(t, "start.read")
  /\ \/ /\ db[i].exists /\ db[i].template \in templates
        /\ Moves(t, [thr[t] EXCEPT !.pc = "start.find", !.row = db[i]])
        /\ UNCHANGED budget
     \/ /\ ~db[i].exists \/ db[i].template \notin templates
        /\ Moves(t, Failed(t))
        /\ UNCHANGED budget
     \/ /\ Spend("faults")
        /\ Moves(t, Failed(t))
  /\ UNCHANGED <<db, templates, cont, conf, seen, mon, mgr, history>>

\* The container still carries what this start would give it now.
Matches(c, row) == c.template = row.template /\ c.face = row.face

\* find_instance_container reports a failed lookup as no container.
StartFind(t) ==
  LET i == thr[t].i IN
  /\ At(t, "start.find")
  /\ \/ /\ cont[i].status # "absent"
        /\ Moves(t, [thr[t] EXCEPT !.pc = IF Matches(cont[i], thr[t].row)
                                          THEN "start.write" ELSE "start.remove",
                                   !.held = "live"])
        /\ UNCHANGED budget
     \/ /\ \/ cont[i].status = "absent" /\ UNCHANGED budget
           \/ cont[i].status # "absent" /\ Spend("faults")
        /\ Goto(t, "start.write")
  /\ UNCHANGED <<db, templates, cont, conf, seen, mon, mgr, history>>

\* A stale container is removed by force, running or not; a failure is logged.
StartRemove(t) ==
  LET i == thr[t].i
      after == [thr[t] EXCEPT !.pc = "start.write", !.held = "none"]
  IN
  /\ At(t, "start.remove")
  /\ \/ /\ thr[t].held = "live"
        /\ Becomes(i, NoContainer)
        /\ thr' = RemovedBy(t, i, after)
        /\ mgr' = ForgottenByShutdown(i)
        /\ UNCHANGED budget
     \/ /\ thr[t].held = "dead" \/ budget["faults"] > 0
        /\ IF thr[t].held = "dead" THEN UNCHANGED budget ELSE Spend("faults")
        /\ Moves(t, after)
        /\ UNCHANGED <<cont, mgr>>
  /\ UNCHANGED <<db, templates, conf, seen, mon, history>>

StartWrite(t) ==
  /\ At(t, "start.write")
  /\ conf' = [conf EXCEPT ![thr[t].i] = thr[t].row.template]
  /\ Goto(t, IF thr[t].held = "none" THEN "start.create" ELSE "start.run")
  /\ UNCHANGED <<db, templates, cont, seen, mon, mgr, history, budget>>

\* The daemon refuses a name that is taken, so there is one container at most.
StartCreate(t) ==
  LET i == thr[t].i
      row == thr[t].row
  IN
  /\ At(t, "start.create")
  /\ \/ /\ cont[i].status = "absent"
        /\ Becomes(i, [status |-> "created", template |-> row.template, face |-> row.face,
                       policy |-> PolicyOf(row), runs |-> NoTemplate])
        /\ Moves(t, [thr[t] EXCEPT !.pc = "start.run", !.held = "live"])
        /\ UNCHANGED budget
     \/ /\ IF cont[i].status = "absent" THEN Spend("faults") ELSE UNCHANGED budget
        /\ Moves(t, Failed(t))
        /\ UNCHANGED cont
  /\ UNCHANGED <<db, templates, conf, seen, mon, mgr, history>>

\* Starting a container that is up changes nothing; one that was removed, by
\* whoever, cannot be started.
StartRun(t) ==
  LET i == thr[t].i IN
  /\ At(t, "start.run")
  /\ \/ /\ thr[t].held = "live"
        /\ IF Alive(i) THEN UNCHANGED <<cont, ranThisBoot>> ELSE ServerRuns(i)
        /\ Goto(t, "start.commit")
        /\ UNCHANGED budget
     \/ /\ IF thr[t].held = "live" THEN Spend("faults") ELSE UNCHANGED budget
        /\ Moves(t, Failed(t))
        /\ UNCHANGED <<cont, ranThisBoot>>
  /\ UNCHANGED <<db, templates, conf, seen, mon, mgr, disturbed>>

\* Mutant: a start that does not record the template it started with.
ColumnsButTemplate(i, row) == [db[i] EXCEPT !.desired = "running"]

\* SQLAlchemy writes the columns that differ from the row as it was READ.
Columns(i, row) ==
  [db[i] EXCEPT !.desired = IF row.desired = "running" THEN @ ELSE "running",
                !.lastStarted = IF row.lastStarted = row.template THEN @ ELSE row.template]

Unchanging(row) == row.desired = "running" /\ row.lastStarted = row.template

\* The commit; the recovery pass then remembers the server as seen up.  An
\* UPDATE that finds no row raises, which ends a request and a whole tick.
StartCommit(t) ==
  LET i == thr[t].i
      row == thr[t].row
  IN
  /\ At(t, "start.commit")
  /\ \/ /\ db[i].exists \/ Unchanging(row)
        /\ IF db[i].exists THEN Commits(i, Columns(i, row)) ELSE UNCHANGED db
        /\ seen' = IF t = Monitor /\ mon.pass = "recover" THEN seen \cup {i} ELSE seen
        /\ Moves(t, Finished(t))
        /\ UNCHANGED mon
     \/ /\ ~db[i].exists /\ ~Unchanging(row)
        /\ Moves(t, Resting(t))
        /\ mon' = IF t = Monitor THEN [mon EXCEPT !.pass = "schedule", !.todo = {}] ELSE mon
        /\ UNCHANGED <<db, seen>>
  /\ DisturbIf(Deleting(t, i), i)
  /\ UNCHANGED <<templates, cont, conf, mgr, ranThisBoot, budget>>

-----------------------------------------------------------------------------
(* stop_instance, and the stop half of restart_instance                    *)

\* The user's stop is committed, and is no crash to recover from (#115).  A row
\* that is gone ends the deletion of a template with servers yet to stop.
StopRow(t) ==
  LET i == thr[t].i IN
  /\ At(t, "stop.row")
  /\ \/ /\ db[i].exists
        /\ Commits(i, [db[i] EXCEPT !.desired = "stopped"])
        /\ seen' = seen \ {i}
        /\ Goto(t, "stop.find")
        /\ DisturbIf(Starting(t, i), i)
     \/ /\ ~db[i].exists
        /\ Moves(t, Failed(t))
        /\ disturbed' = disturbed \cup thr[t].todo
        /\ UNCHANGED <<db, seen>>
  /\ UNCHANGED <<templates, cont, conf, mon, mgr, ranThisBoot, budget>>

\* What a thread goes on to when there is no container to act on.
Without(t) ==
  CASE At(t, "stop.find")   -> IF thr[t].again
                               THEN [thr[t] EXCEPT !.pc = "start.read", !.again = FALSE]
                               ELSE Finished(t)
    [] At(t, "delete.find") -> [thr[t] EXCEPT !.pc = "delete.row"]
    [] At(t, "edit.find")   -> Finished(t)

\* Mutant: a delete that leaves the container to itself.
ActingButRemoval(pc) == CASE pc = "stop.find"   -> "stop.kill"
                          [] pc = "delete.find" -> "delete.row"
                          [] pc = "edit.find"   -> "edit.remove"

Acting(pc) == CASE pc = "stop.find"   -> "stop.kill"
                [] pc = "delete.find" -> "delete.remove"
                [] pc = "edit.find"   -> "edit.remove"

\* find_instance_container: a lookup that fails reads as "no container".
Find(t) ==
  LET i == thr[t].i IN
  /\ thr[t].pc \in {"stop.find", "delete.find", "edit.find"}
  /\ \/ /\ cont[i].status # "absent"
        /\ Moves(t, [thr[t] EXCEPT !.pc = Acting(thr[t].pc), !.held = "live"])
        /\ UNCHANGED <<budget, disturbed>>
     \/ /\ cont[i].status = "absent"
        /\ Moves(t, Without(t))
        /\ UNCHANGED <<budget, disturbed>>
     \/ /\ cont[i].status # "absent" /\ Spend("faults")
        /\ Moves(t, Without(t))
        /\ DisturbIf(TRUE, i)
  /\ UNCHANGED <<db, templates, cont, conf, seen, mon, mgr, ranThisBoot>>

\* container.stop: a failure is logged, and a restart starts all the same.
StopKill(t) ==
  LET i == thr[t].i
      after == IF thr[t].again
               THEN [thr[t] EXCEPT !.pc = "start.read", !.again = FALSE, !.held = "none"]
               ELSE Finished(t)
  IN
  /\ At(t, "stop.kill")
  /\ Moves(t, after)
  /\ \/ /\ thr[t].held = "live"
        /\ Stopped(i)
        /\ UNCHANGED <<budget, disturbed>>
     \/ /\ thr[t].held = "dead"
        /\ UNCHANGED <<cont, budget, disturbed>>
     \/ /\ thr[t].held = "live" /\ Spend("faults")
        /\ DisturbIf(TRUE, i)
        /\ UNCHANGED cont
  /\ UNCHANGED <<db, templates, conf, seen, mon, mgr, ranThisBoot>>

-----------------------------------------------------------------------------
(* Removing a container: the middle of delete_instance, the end of an edit *)

AfterRemove(t) == IF At(t, "delete.remove")
                  THEN [thr[t] EXCEPT !.pc = "delete.row", !.held = "none"]
                  ELSE Finished(t)

RemoveContainer(t) ==
  LET i == thr[t].i IN
  /\ thr[t].pc \in {"delete.remove", "edit.remove"}
  /\ \/ /\ thr[t].held = "live"
        /\ Becomes(i, NoContainer)
        /\ thr' = RemovedBy(t, i, AfterRemove(t))
        /\ mgr' = ForgottenByShutdown(i)
        /\ UNCHANGED <<budget, disturbed>>
     \/ /\ thr[t].held = "dead"
        /\ Moves(t, AfterRemove(t))
        /\ UNCHANGED <<cont, mgr, budget, disturbed>>
     \/ /\ thr[t].held = "live" /\ Spend("faults")
        /\ Moves(t, AfterRemove(t))
        /\ DisturbIf(TRUE, i)
        /\ UNCHANGED <<cont, mgr>>
  /\ UNCHANGED <<db, templates, conf, seen, mon, ranThisBoot>>

\* The end of delete_instance.  A purge that fails raises before the row goes.
DeleteRow(t) ==
  LET i == thr[t].i IN
  /\ At(t, "delete.row")
  /\ \/ /\ Commits(i, Blank)
        /\ seen' = seen \ {i}
        /\ Moves(t, Finished(t))
        /\ DisturbIf(Starting(t, i), i)
        /\ UNCHANGED budget
     \/ /\ Spend("faults")
        /\ Moves(t, Failed(t))
        /\ UNCHANGED <<db, seen, disturbed>>
  /\ UNCHANGED <<templates, cont, conf, mon, mgr, ranThisBoot>>

-----------------------------------------------------------------------------
(* update_ports, set_instance_template, edit_instance with a new branch:   *)
(* refused while the server runs; what a container bakes in is changed in  *)
(* the row, and the container removed for the next start to make anew.     *)

EditCheck(t) ==
  LET i == thr[t].i IN
  /\ At(t, "edit.check")
  /\ \/ ~Up(i) /\ Goto(t, "edit.row") /\ UNCHANGED <<budget, disturbed>>
     \/ Up(i) /\ Moves(t, Failed(t)) /\ UNCHANGED <<budget, disturbed>>
     \/ Up(i) /\ Spend("faults") /\ Goto(t, "edit.row") /\ DisturbIf(TRUE, i)
  /\ UNCHANGED <<db, templates, cont, conf, seen, mon, mgr, ranThisBoot>>

\* Ports and branch are written at once, a template is looked up first.
EditRow(t) ==
  LET i == thr[t].i IN
  /\ At(t, "edit.row")
  /\ \/ /\ db[i].exists
        /\ Commits(i, [db[i] EXCEPT !.face = 1 - @])
        /\ Goto(t, "edit.find")
        /\ DisturbIf(Starting(t, i), i)
     \/ /\ db[i].exists
        /\ \E T \in templates \ {db[i].template} :
             Moves(t, [thr[t] EXCEPT !.pc = "edit.switch", !.row = [db[i] EXCEPT !.template = T]])
        /\ UNCHANGED <<db, disturbed>>
     \/ /\ ~db[i].exists
        /\ Moves(t, Failed(t))
        /\ UNCHANGED <<db, disturbed>>
  /\ UNCHANGED <<templates, cont, conf, seen, mon, mgr, ranThisBoot, budget>>

EditSwitch(t) ==
  LET i == thr[t].i
      T == thr[t].row.template
  IN
  /\ At(t, "edit.switch")
  /\ \/ /\ db[i].exists
        /\ Commits(i, [db[i] EXCEPT !.template = T])
        /\ Goto(t, "edit.find")
        /\ DisturbIf(Starting(t, i) \/ T \notin templates, i)
     \/ /\ ~db[i].exists
        /\ Moves(t, Failed(t))
        /\ UNCHANGED <<db, disturbed>>
  /\ UNCHANGED <<templates, cont, conf, seen, mon, mgr, ranThisBoot, budget>>

-----------------------------------------------------------------------------
(* set_restart_settings: the row, then the live container's policy.        *)

ToggleRow(t) ==
  LET i == thr[t].i IN
  /\ At(t, "toggle.row")
  /\ \/ /\ db[i].exists
        /\ \E start, restart \in BOOLEAN :
             LET row == [db[i] EXCEPT !.autoStart = start, !.autoRestart = restart] IN
             /\ row # db[i]
             /\ Commits(i, row)
             /\ Moves(t, [thr[t] EXCEPT !.pc = "toggle.update", !.row = row])
     \/ /\ ~db[i].exists
        /\ Moves(t, Failed(t))
        /\ UNCHANGED db
  /\ UNCHANGED <<templates, cont, conf, seen, mon, mgr, history, budget>>

ToggleUpdate(t) ==
  LET i == thr[t].i IN
  /\ At(t, "toggle.update")
  /\ Moves(t, Finished(t))
  /\ \/ /\ cont[i].status # "absent"
        /\ Becomes(i, [cont[i] EXCEPT !.policy = PolicyOf(thr[t].row)])
        /\ UNCHANGED budget
     \/ /\ IF cont[i].status = "absent" THEN UNCHANGED budget ELSE Spend("faults")
        /\ UNCHANGED cont
  /\ UNCHANGED <<db, templates, conf, seen, mon, mgr, history>>

-----------------------------------------------------------------------------
(* delete_template: unlink and mark stopped first, then stop, then delete. *)

On(T) == {i \in Instances : db[i].exists /\ db[i].template = T}

Unlinked(T) ==
  [i \in Instances |-> IF i \in On(T)
                       THEN [db[i] EXCEPT !.template = NoTemplate, !.desired = "stopped"]
                       ELSE db[i]]

\* detach_template's one commit for every server on the template.
DetachRows(t) ==
  LET on == On(thr[t].template) IN
  /\ At(t, "detach.row")
  /\ db' = Unlinked(thr[t].template)
  /\ Moves(t, [thr[t] EXCEPT !.pc = "detach.next", !.todo = on])
  /\ disturbed' = disturbed \cup {i \in on : Starting(t, i)}
  /\ UNCHANGED <<templates, cont, conf, seen, mon, mgr, ranThisBoot, budget>>

\* Each server it unlinked is stopped, or only forgotten when Docker is down.
DetachNext(t) ==
  /\ At(t, "detach.next")
  /\ \/ \E i \in thr[t].todo :
          /\ \/ /\ Moves(t, [thr[t] EXCEPT !.pc = "stop.row", !.i = i, !.todo = @ \ {i}])
                /\ UNCHANGED <<seen, budget, disturbed>>
             \/ /\ Spend("faults")
                /\ Moves(t, [thr[t] EXCEPT !.todo = @ \ {i}])
                /\ seen' = seen \ {i}
                /\ DisturbIf(TRUE, i)
     \/ /\ thr[t].todo = {}
        /\ Goto(t, "detach.drop")
        /\ UNCHANGED <<seen, budget, disturbed>>
  /\ UNCHANGED <<db, templates, cont, conf, mon, mgr, ranThisBoot>>

\* Mutant: the row goes, and whatever was pointed at it meanwhile stays so.
DropTemplateOnly(t) ==
  /\ At(t, "detach.drop")
  /\ templates' = templates \ {thr[t].template}
  /\ Moves(t, Resting(t))
  /\ UNCHANGED <<db, cont, conf, seen, mon, mgr, history, budget>>

\* The last session: servers pointed at the template in the meantime are
\* unlinked too (but not stopped), and the row goes.
DropTemplate(t) ==
  LET on == On(thr[t].template) IN
  /\ At(t, "detach.drop")
  /\ IF thr[t].template \in templates
     THEN /\ db' = Unlinked(thr[t].template)
          /\ disturbed' = disturbed \cup {i \in on : Starting(t, i) \/ Alive(i)}
     ELSE UNCHANGED <<db, disturbed>>
  /\ templates' = templates \ {thr[t].template}
  /\ Moves(t, Resting(t))
  /\ UNCHANGED <<cont, conf, seen, mon, mgr, ranThisBoot, budget>>

-----------------------------------------------------------------------------
(* The monitor: reconcile_and_recover, then apply_scheduled_restarts, each *)
(* over a copy of the table that is as old as the pass.                    *)

RecoverBegin ==
  /\ mgr.life = "up" /\ At(Monitor, "sleep")
  /\ mon' = [pass |-> "recover", snap |-> db, todo |-> {i \in Instances : db[i].exists}]
  /\ Goto(Monitor, "next")
  /\ UNCHANGED <<db, templates, cont, conf, seen, mgr, history, budget>>

Wanted(row) == row.desired = "running" /\ row.template # NoTemplate

\* Mutants: #115 as it was, and a pass that recovers crashes only.
RecoversUnseen(i, row)  == row.autoStart \/ row.autoRestart
RecoversCrashes(i, row) == row.autoRestart /\ i \in seen

\* Which of the servers that are down a recovery pass brings back (#115).
Recovers(i, row) == row.autoStart \/ (row.autoRestart /\ i \in seen)

\* One server of a recovery pass; status "absent" is also what a failed lookup
\* reads as, and any status but the three below is left alone.
RecoverLook(i) ==
  LET row == mon.snap[i]
      Skip == thr' = thr /\ seen' = seen
      Down == IF Recovers(i, row)
              THEN /\ Moves(Monitor, [thr[Monitor] EXCEPT !.pc = "start.read", !.i = i])
                   /\ seen' = seen
              ELSE Skip
  IN
  /\ At(Monitor, "next") /\ mon.pass = "recover" /\ i \in mon.todo
  /\ mon' = [mon EXCEPT !.todo = @ \ {i}]
  /\ \/ ~Wanted(row) /\ Skip /\ UNCHANGED budget
     \/ /\ Wanted(row)
        /\ \/ Up(i) /\ seen' = seen \cup {i} /\ thr' = thr /\ UNCHANGED budget
           \/ cont[i].status = "restarting" /\ Skip /\ UNCHANGED budget
           \/ cont[i].status \in {"exited", "absent", "created"} /\ Down /\ UNCHANGED budget
           \/ Alive(i) /\ Spend("faults") /\ Down
  /\ UNCHANGED <<db, templates, cont, conf, mgr, history>>

\* A cancelled monitor finishes the pass its thread is in, and no other.
\* Any server may have an occurrence due (module Fleet says when).
ScheduleBegin ==
  /\ mgr.life = "up" /\ At(Monitor, "next") /\ mon.pass = "recover" /\ mon.todo = {}
  /\ mon' = [pass |-> "schedule", snap |-> db, todo |-> {i \in Instances : db[i].exists}]
  /\ UNCHANGED <<db, templates, cont, conf, seen, thr, mgr, history, budget>>

NotDue(i) ==
  /\ At(Monitor, "next") /\ mon.pass = "schedule" /\ i \in mon.todo
  /\ mon' = [mon EXCEPT !.todo = @ \ {i}]
  /\ UNCHANGED <<db, templates, cont, conf, seen, thr, mgr, history, budget>>

\* A due server is restarted if the copy says it should be running.
Due(i) ==
  /\ At(Monitor, "next") /\ mon.pass = "schedule" /\ i \in mon.todo
  /\ db[i].exists /\ mon.snap[i].desired = "running"
  /\ Spend("schedules")
  /\ mon' = [mon EXCEPT !.todo = @ \ {i}]
  /\ Moves(Monitor, [thr[Monitor] EXCEPT !.pc = "stop.row", !.i = i, !.again = TRUE])
  /\ UNCHANGED <<db, templates, cont, conf, seen, mgr, history>>

PassEnd ==
  /\ At(Monitor, "next") /\ mon.todo = {}
  /\ mon.pass = "schedule" \/ mgr.life # "up"
  /\ mon' = [pass |-> "recover", snap |-> [i \in Instances |-> Blank], todo |-> {}]
  /\ Goto(Monitor, "sleep")
  /\ UNCHANGED <<db, templates, cont, conf, seen, mgr, history, budget>>

-----------------------------------------------------------------------------
(* The manager process: shutdown_all_instances, a kill, a boot.            *)

\* The lifespan ends: the containers are listed once.  Threads at work go on.
ShutdownBegin ==
  /\ mgr.life = "up"
  /\ Spend("boots")
  /\ mgr' = [life |-> "stopping", stop |-> {i \in Instances : Up(i)},
             remove |-> {i \in Instances : cont[i].status # "absent"}]
  /\ UNCHANGED <<db, templates, cont, conf, seen, thr, mon, history>>

ShutdownStop(i) ==
  /\ mgr.life = "stopping" /\ i \in mgr.stop
  /\ mgr' = [mgr EXCEPT !.stop = @ \ {i}]
  /\ Stopped(i)
  /\ UNCHANGED <<db, templates, conf, seen, thr, mon, history, budget>>

ShutdownRemove(i) ==
  /\ mgr.life = "stopping" /\ mgr.stop = {} /\ i \in mgr.remove
  /\ Becomes(i, NoContainer)
  /\ thr' = [t \in Threads |-> IF thr[t].i = i /\ thr[t].held = "live"
                               THEN [thr[t] EXCEPT !.held = "dead"] ELSE thr[t]]
  /\ mgr' = ForgottenByShutdown(i)
  /\ UNCHANGED <<db, templates, conf, seen, mon, history, budget>>

\* asyncio.run joins the worker threads before the process ends.
Exit ==
  /\ mgr.life = "stopping" /\ mgr.stop = {} /\ mgr.remove = {}
  /\ \A t \in Threads : thr[t] = Resting(t)
  /\ mgr' = [mgr EXCEPT !.life = "down"]
  /\ UNCHANGED <<db, templates, cont, conf, seen, thr, mon, history, budget>>

Busy == {thr[t].i : t \in Threads} \ {NoInstance}

\* What a process that is gone leaves: no threads, no memory.
Gone ==
  /\ mgr' = [life |-> "down", stop |-> {}, remove |-> {}]
  /\ thr' = [t \in Threads |-> Resting(t)]
  /\ mon' = [pass |-> "recover", snap |-> [i \in Instances |-> Blank], todo |-> {}]
  /\ disturbed' = disturbed \cup Busy \cup UNION {thr[t].todo : t \in Threads}

\* SIGKILL, an OOM kill, the end of compose's stop_grace_period.
Kill ==
  /\ mgr.life # "down"
  /\ Spend("boots")
  /\ Gone
  /\ UNCHANGED <<db, templates, cont, conf, seen, ranThisBoot>>

\* The host goes down with everything on it.  When Docker is back it starts
\* the unless-stopped containers that were up.
HostReboot ==
  /\ Spend("boots")
  /\ Gone
  /\ cont' = [i \in Instances |->
               IF ~Alive(i) THEN cont[i]
               ELSE IF cont[i].policy = "unless-stopped"
                    THEN [cont[i] EXCEPT !.status = "running", !.runs = conf[i]]
                    ELSE [cont[i] EXCEPT !.status = "exited"]]
  /\ UNCHANGED <<db, templates, conf, seen, ranThisBoot>>

\* Mutant: what was seen up outlives the process.
BootRemembering ==
  /\ mgr.life = "down"
  /\ mgr' = [mgr EXCEPT !.life = "up"]
  /\ ranThisBoot' = {i \in Instances : Alive(i)}
  /\ UNCHANGED <<db, templates, cont, conf, seen, thr, mon, disturbed, budget>>

\* A new process has an empty _seen_running.
Boot ==
  /\ mgr.life = "down"
  /\ mgr' = [mgr EXCEPT !.life = "up"]
  /\ seen' = {}
  /\ ranThisBoot' = {i \in Instances : Alive(i)}
  /\ UNCHANGED <<db, templates, cont, conf, thr, mon, disturbed, budget>>

-----------------------------------------------------------------------------
(* The Docker daemon: a server process ends, and its restart policy.       *)

ServerExits(i) ==
  /\ Up(i)
  /\ Spend("exits")
  /\ \E clean \in BOOLEAN :
       Becomes(i, [cont[i] EXCEPT !.status =
         IF cont[i].policy = "unless-stopped" \/ (cont[i].policy = "on-failure" /\ ~clean)
         THEN "restarting" ELSE "exited"])
  /\ UNCHANGED <<db, templates, conf, seen, thr, mon, mgr, history>>

DockerRestarts(i) ==
  /\ cont[i].status = "restarting"
  /\ ServerRuns(i)
  /\ UNCHANGED <<db, templates, conf, seen, thr, mon, mgr, disturbed, budget>>

-----------------------------------------------------------------------------
StartStep(t) == \/ StartRead(t) \/ StartFind(t) \/ StartRemove(t) \/ StartWrite(t)
                \/ StartCreate(t) \/ StartRun(t) \/ StartCommit(t)

StopStep(t) == StopRow(t) \/ Find(t) \/ StopKill(t)

ThreadStep(t) == \/ StartStep(t) \/ StopStep(t)
                 \/ RemoveContainer(t) \/ DeleteRow(t)
                 \/ EditCheck(t) \/ EditRow(t) \/ EditSwitch(t)
                 \/ CreateRow(t) \/ CreateAside(t)
                 \/ ToggleRow(t) \/ ToggleUpdate(t)
                 \/ DetachRows(t) \/ DetachNext(t) \/ DropTemplate(t)

MonitorStep == \/ RecoverBegin \/ ScheduleBegin \/ PassEnd
               \/ \E i \in Instances : RecoverLook(i) \/ NotDue(i) \/ Due(i)

AdminStep == \/ \E t \in Admins : \/ \E kind \in Kinds, i \in Instances : Ask(t, kind, i)
                                  \/ \E T \in Templates : AskDetach(t, T) \/ AskCreate(t, T)
             \/ \E i \in Instances : Rename(i)

ProcessStep == \/ ShutdownBegin \/ Exit \/ Boot \/ Kill \/ HostReboot
               \/ \E i \in Instances : ShutdownStop(i) \/ ShutdownRemove(i)

DaemonStep == \E i \in Instances : ServerExits(i) \/ DockerRestarts(i)

Next == \/ \E t \in Threads : ThreadStep(t)
        \/ MonitorStep \/ AdminStep \/ ProcessStep \/ DaemonStep

\* The monitor loops every 15 s, threads and the shutdown run to their end,
\* compose restarts the manager and Docker a restarting container.  Nobody
\* has to ask for anything, and nothing has to fail.
Fairness == /\ \A t \in Threads : WF_vars(ThreadStep(t))
            /\ WF_vars(MonitorStep)
            /\ WF_vars(Exit \/ Boot \/ \E i \in Instances : ShutdownStop(i) \/ ShutdownRemove(i))
            /\ \A i \in Instances : WF_vars(DockerRestarts(i))

Spec == Init /\ [][Next]_vars

FairSpec == Spec /\ Fairness

-----------------------------------------------------------------------------
TypeOK ==
  /\ db \in [Instances -> Row]
  /\ templates \subseteq Templates
  /\ cont \in [Instances -> Container]
  /\ conf \in [Instances -> TemplateOrNone]
  /\ seen \subseteq Instances
  /\ thr \in [Threads -> Thread]
  /\ mon \in [pass: {"recover", "schedule"}, snap: [Instances -> Row], todo: SUBSET Instances]
  /\ mgr \in [life: {"up", "stopping", "down"}, stop: SUBSET Instances, remove: SUBSET Instances]
  /\ ranThisBoot \subseteq Instances
  /\ disturbed \subseteq Instances
  /\ budget \in [BoundedEvents -> Nat]

Idle(i) == /\ \A t \in Threads : thr[t].i # i /\ i \notin thr[t].todo
           /\ i \notin mgr.stop \cup mgr.remove

\* The row and the container tell the same story: a server that is up is one
\* that exists, that should be running, and that runs the template of its row,
\* which is also the one the next "switched template" prompt compares with.
Agree(i) ==
  Alive(i) => /\ db[i].exists /\ db[i].desired = "running"
              /\ db[i].template # NoTemplate
              /\ cont[i].template = db[i].template
              /\ db[i].lastStarted = db[i].template
              /\ Up(i) => cont[i].runs = db[i].template

\* However the operations of the API, the monitor, a shutdown and Docker's own
\* restarts interleave, once nobody works on a server its row and its container
\* agree -- unless a row was written inside the read-to-commit window of a start,
\* a container call failed, the process was killed at work on it, or a template's
\* deletion ended at another server before it came to stop this one.
SettledAgree == \A i \in Instances : Idle(i) /\ i \notin disturbed => Agree(i)

\* A reboot is no crash (#115): what the monitor remembers as seen up did run
\* under this very process.
SeenRanThisBoot == seen \subseteq ranThisBoot

\* What makes that inductive: no thread works while no manager runs, what is up
\* under this process has run under it, and so has what a start commits.
RanInv == /\ SeenRanThisBoot
          /\ mgr.life = "down" => \A t \in Threads : thr[t].pc \in {"idle", "sleep"}
          /\ mgr.life # "down" => \A i \in Instances : Alive(i) => i \in ranThisBoot
          /\ \A t \in Threads : At(t, "start.commit") => thr[t].i \in ranThisBoot

\* The recovery pass sets out to start i, which is set not to start on boot.
TakenForACrash(i) == /\ At(Monitor, "next")
                     /\ thr'[Monitor].pc = "start.read" /\ thr'[Monitor].i = i
                     /\ ~mon.snap[i].autoStart

\* A server set not to start on boot is brought back by the recovery pass only
\* after it ran under this manager process, however old the pass's copy of its
\* row: a host reboot or a manager restart leaves it down (#115).
RebootIsNotACrash ==
  [][\A i \in Instances : TakenForACrash(i) => i \in ranThisBoot]_vars

\* No row is left with a template that is gone, whatever was pointed at it
\* while it was being deleted and stopped, unless the write came after the
\* deletion of a template that had been looked up before it.
NoDanglingTemplate ==
  \A i \in Instances : i \notin disturbed => db[i].template \in templates \cup {NoTemplate}

\* A server that should be running, starts on boot and has a template comes up
\* (or stops being wanted), whatever was interrupted, raced or failed before.
WantedComesBack ==
  \A i \in Instances : (db[i].exists /\ Wanted(db[i]) /\ db[i].autoStart)
                           ~> (Up(i) \/ ~(Wanted(db[i]) /\ db[i].autoStart))
=============================================================================
