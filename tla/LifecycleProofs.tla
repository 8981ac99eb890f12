-------------------------- MODULE LifecycleProofs --------------------------
(* Theorems about Lifecycle for every set of servers, templates and admins *)
(* and every bound.                                                        *)
EXTENDS Lifecycle, TLAPS

USE ThreadsAssumption, BoundsAssumption

\* The labels at which a thread works on no server.
Unplaced == {"idle", "sleep", "next", "create.row", "detach.row", "detach.next", "detach.drop"}

Sound(r) == r \in Thread /\ (r.pc \notin Unplaced => r.i \in Instances)

SoundThreads == \A t \in Threads : Sound(thr[t])

LEMMA BlankType == Blank \in Row /\ NoContainer \in Container
  BY DEF Blank, Row, NoContainer, Container, TemplateOrNone, Faces, Status, Policies

LEMMA SpendType ==
  ASSUME NEW event \in BoundedEvents, budget \in [BoundedEvents -> Nat], Spend(event)
  PROVE  budget' \in [BoundedEvents -> Nat]
  BY DEF Spend

LEMMA MovesType ==
  ASSUME NEW t \in Threads, NEW after, Sound(after), Moves(t, after),
         thr \in [Threads -> Thread], SoundThreads
  PROVE  thr' \in [Threads -> Thread] /\ SoundThreads'
  BY DEF Sound, SoundThreads, Moves

LEMMA CommitsType ==
  ASSUME NEW i \in Instances, NEW row \in Row, Commits(i, row), db \in [Instances -> Row]
  PROVE  db' \in [Instances -> Row]
  BY DEF Commits

LEMMA BecomesType ==
  ASSUME NEW i \in Instances, NEW c \in Container, Becomes(i, c), cont \in [Instances -> Container]
  PROVE  cont' \in [Instances -> Container]
  BY DEF Becomes

LEMMA RestingSound ==
  ASSUME NEW t \in Threads
  PROVE  Sound(Resting(t))
  BY BlankType DEF Resting, Sound, Thread, Labels, Unplaced, TemplateOrNone

LEMMA FailedSound ==
  ASSUME NEW t \in Threads
  PROVE  Sound(Failed(t))
  BY BlankType DEF Failed, Resting, Sound, Thread, Labels, Unplaced, TemplateOrNone

LEMMA FinishedSound ==
  ASSUME NEW t \in Threads, thr \in [Threads -> Thread]
  PROVE  Sound(Finished(t))
  BY BlankType DEF Finished, Resting, Sound, Thread, Labels, Unplaced, TemplateOrNone

\* A thread that goes on with its server.
LEMMA GoesOnSound ==
  ASSUME NEW t \in Threads, thr \in [Threads -> Thread], SoundThreads, thr[t].pc \notin Unplaced
  PROVE  \A pc \in Labels :
           /\ Sound([thr[t] EXCEPT !.pc = pc])
           /\ \A row \in Row : Sound([thr[t] EXCEPT !.pc = pc, !.row = row])
           /\ Sound([thr[t] EXCEPT !.pc = pc, !.held = "live"])
           /\ Sound([thr[t] EXCEPT !.pc = pc, !.held = "none"])
           /\ Sound([thr[t] EXCEPT !.pc = pc, !.again = FALSE])
           /\ Sound([thr[t] EXCEPT !.pc = pc, !.again = FALSE, !.held = "none"])
  BY DEF SoundThreads, Sound, Thread

\* What a commit may change in a row, and a daemon call in a container.
LEMMA RowType ==
  ASSUME NEW row \in Row, NEW T \in TemplateOrNone,
         NEW start \in BOOLEAN, NEW restart \in BOOLEAN, NEW desired \in {"running", "stopped"}
  PROVE  /\ [row EXCEPT !.desired = desired] \in Row
         /\ [row EXCEPT !.template = T] \in Row
         /\ [row EXCEPT !.template = T, !.desired = desired] \in Row
         /\ [row EXCEPT !.desired = desired, !.lastStarted = T] \in Row
         /\ [row EXCEPT !.autoStart = start, !.autoRestart = restart] \in Row
         /\ [row EXCEPT !.face = 1 - @] \in Row
  <1>1. 1 - row.face \in Faces
    BY DEF Row, Faces
  <1>2. [row EXCEPT !.face = 1 - @] \in Row
    BY <1>1 DEF Row
  <1>3. /\ [row EXCEPT !.template = T, !.desired = desired] \in Row
        /\ [row EXCEPT !.desired = desired, !.lastStarted = T] \in Row
    BY DEF Row
  <1>4. [row EXCEPT !.autoStart = start, !.autoRestart = restart] \in Row
    BY DEF Row
  <1>5. QED
    BY <1>2, <1>3, <1>4 DEF Row

LEMMA ContainerType ==
  ASSUME NEW c \in Container, NEW T \in TemplateOrNone, NEW row \in Row, NEW status \in Status
  PROVE  /\ [c EXCEPT !.status = status, !.runs = T] \in Container
         /\ [c EXCEPT !.status = status] \in Container
         /\ [c EXCEPT !.policy = PolicyOf(row)] \in Container
         /\ [status |-> status, template |-> row.template, face |-> row.face,
             policy |-> PolicyOf(row), runs |-> T] \in Container
  <1>1. PolicyOf(row) \in Policies
    BY DEF PolicyOf, Policies
  <1>2. row.template \in TemplateOrNone /\ row.face \in Faces
    BY DEF Row
  <1>3. QED
    BY <1>1, <1>2 DEF Container

LEMMA RemovedByType ==
  ASSUME NEW t \in Threads, NEW i, NEW after, Sound(after), thr \in [Threads -> Thread], SoundThreads,
         thr' = RemovedBy(t, i, after)
  PROVE  thr' \in [Threads -> Thread] /\ SoundThreads'
  BY DEF RemovedBy, Thread, SoundThreads, Sound

LEMMA StoppedType ==
  ASSUME NEW i \in Instances, cont \in [Instances -> Container], Stopped(i)
  PROVE  cont' \in [Instances -> Container]
  BY BecomesType, ContainerType, BlankType DEF Stopped, Status, TemplateOrNone

LEMMA ServerRunsType ==
  ASSUME NEW i \in Instances, cont \in [Instances -> Container], ServerRuns(i),
         conf \in [Instances -> TemplateOrNone], ranThisBoot \subseteq Instances
  PROVE  cont' \in [Instances -> Container] /\ ranThisBoot' \subseteq Instances
  BY BecomesType, ContainerType, BlankType DEF ServerRuns, Status, TemplateOrNone

LEMMA ForgottenType ==
  ASSUME NEW i, mgr \in [life: {"up", "stopping", "down"}, stop: SUBSET Instances, remove: SUBSET Instances]
  PROVE  ForgottenByShutdown(i) \in [life: {"up", "stopping", "down"}, stop: SUBSET Instances, remove: SUBSET Instances]
  BY DEF ForgottenByShutdown

-----------------------------------------------------------------------------
(* Every action keeps the types, and every thread at work on a server.     *)

LEMMA InitType == Init => TypeOK /\ SoundThreads
  <1> SUFFICES ASSUME Init PROVE TypeOK /\ SoundThreads
    OBVIOUS
  <1>1. db \in [Instances -> Row]
    BY DEF Init, FreshRows
  <1>2. thr \in [Threads -> Thread] /\ SoundThreads
    BY RestingSound DEF Init, SoundThreads, Sound
  <1>3. cont \in [Instances -> Container]
    BY BlankType DEF Init
  <1>4. mon \in [pass: {"recover", "schedule"}, snap: [Instances -> Row], todo: SUBSET Instances]
    BY BlankType DEF Init
  <1>5. budget \in [BoundedEvents -> Nat]
    BY BoundsAssumption DEF Init
  <1>6. QED
    BY <1>1, <1>2, <1>3, <1>4, <1>5 DEF Init, TypeOK, TemplateOrNone

LEMMA AskType ==
  ASSUME TypeOK, SoundThreads, NEW t \in Admins, NEW kind \in Kinds, NEW i \in Instances,
         Ask(t, kind, i)
  PROVE  TypeOK' /\ SoundThreads'
  <1> DEFINE after == [Resting(t) EXCEPT !.pc = FirstStep(kind), !.i = i,
                                         !.again = (kind = "restart")]
  <1>1. FirstStep(kind) \in Labels
    BY DEF Ask, ServerKinds, FirstStep, Labels
  <1>2. (kind = "restart") \in BOOLEAN
    OBVIOUS
  <1>3. Sound(after)
    BY <1>1, <1>2, RestingSound DEF Sound, Thread, Threads
  <1>4. Moves(t, after)
    BY DEF Ask
  <1>5. thr' \in [Threads -> Thread] /\ SoundThreads'
    BY <1>3, <1>4, MovesType DEF TypeOK, Threads
  <1>6. budget' \in [BoundedEvents -> Nat]
    BY SpendType DEF Ask, TypeOK, BoundedEvents
  <1>7. QED
    BY <1>5, <1>6 DEF Ask, TypeOK, history

LEMMA AskDetachType ==
  ASSUME TypeOK, SoundThreads, NEW t \in Admins, NEW T \in Templates, AskDetach(t, T)
  PROVE  TypeOK' /\ SoundThreads'
  <1> DEFINE after == [Resting(t) EXCEPT !.pc = "detach.row", !.template = T]
  <1>1. Sound(after)
    BY RestingSound DEF Sound, Thread, Threads, Labels, Unplaced, TemplateOrNone
  <1>2. Moves(t, after)
    BY DEF AskDetach
  <1>3. thr' \in [Threads -> Thread] /\ SoundThreads'
    BY <1>1, <1>2, MovesType DEF TypeOK, Threads
  <1>4. budget' \in [BoundedEvents -> Nat]
    BY SpendType DEF AskDetach, TypeOK, BoundedEvents
  <1>5. QED
    BY <1>3, <1>4 DEF AskDetach, TypeOK, history

LEMMA FreshRow ==
  ASSUME NEW T \in Templates
  PROVE  [Blank EXCEPT !.exists = TRUE, !.template = T] \in Row
  BY BlankType DEF Row, TemplateOrNone

LEMMA AskCreateType ==
  ASSUME TypeOK, SoundThreads, NEW t \in Admins, NEW T \in Templates, AskCreate(t, T)
  PROVE  TypeOK' /\ SoundThreads'
  <1> DEFINE row   == [Blank EXCEPT !.exists = TRUE, !.template = T]
             after == [Resting(t) EXCEPT !.pc = "create.row", !.row = row]
  <1>1. row \in Row
    BY FreshRow
  <1> HIDE DEF row
  <1>2. Sound(after)
    BY <1>1, RestingSound DEF Sound, Thread, Threads, Labels, Unplaced
  <1>3. Moves(t, after)
    BY DEF AskCreate, row
  <1>4. thr' \in [Threads -> Thread] /\ SoundThreads'
    BY <1>2, <1>3, MovesType DEF TypeOK, Threads
  <1>5. budget' \in [BoundedEvents -> Nat]
    BY SpendType DEF AskCreate, TypeOK, BoundedEvents
  <1>6. QED
    BY <1>4, <1>5 DEF AskCreate, TypeOK, history

LEMMA CreateRowType ==
  ASSUME TypeOK, SoundThreads, NEW t \in Threads, CreateRow(t)
  PROVE  TypeOK' /\ SoundThreads'
  <1>1. CASE \E i \in Instances :
               /\ Commits(i, thr[t].row)
               /\ Moves(t, [Resting(t) EXCEPT !.pc = "create.aside", !.i = i])
               /\ DisturbIf(thr[t].row.template \notin templates, i)
    <2>1. PICK i \in Instances :
             /\ Commits(i, thr[t].row)
             /\ Moves(t, [Resting(t) EXCEPT !.pc = "create.aside", !.i = i])
             /\ DisturbIf(thr[t].row.template \notin templates, i)
      BY <1>1
    <2>2. thr[t].row \in Row
      BY DEF TypeOK, Thread
    <2>3. db' \in [Instances -> Row]
      BY <2>1, <2>2, CommitsType DEF TypeOK
    <2>4. Sound([Resting(t) EXCEPT !.pc = "create.aside", !.i = i])
      BY RestingSound DEF Sound, Thread, Labels
    <2>5. thr' \in [Threads -> Thread] /\ SoundThreads'
      BY <2>1, <2>4, MovesType DEF TypeOK
    <2>6. disturbed' \subseteq Instances
      BY <2>1 DEF DisturbIf, TypeOK
    <2>7. QED
      BY <2>3, <2>5, <2>6 DEF CreateRow, TypeOK
  <1>2. CASE Moves(t, Resting(t)) /\ UNCHANGED <<db, disturbed>>
    <2>1. thr' \in [Threads -> Thread] /\ SoundThreads'
      BY <1>2, RestingSound, MovesType DEF TypeOK
    <2>2. QED
      BY <1>2, <2>1 DEF CreateRow, TypeOK
  <1>3. QED
    BY <1>1, <1>2 DEF CreateRow

LEMMA CreateAsideType ==
  ASSUME TypeOK, SoundThreads, NEW t \in Threads, CreateAside(t)
  PROVE  TypeOK' /\ SoundThreads'
  <1>1. thr[t].i \in Instances
    BY DEF CreateAside, At, Unplaced, SoundThreads, Sound
  <1>2. thr' \in [Threads -> Thread] /\ SoundThreads'
    BY RestingSound, MovesType DEF CreateAside, TypeOK
  <1>3. db' \in [Instances -> Row]
    <2>1. Commits(thr[t].i, Blank) \/ UNCHANGED db
      BY DEF CreateAside
    <2>2. QED
      BY <1>1, <2>1, CommitsType, BlankType DEF TypeOK
  <1>4. budget' \in [BoundedEvents -> Nat] /\ disturbed' \subseteq Instances
    BY <1>1, SpendType DEF CreateAside, DisturbIf, TypeOK, BoundedEvents
  <1>5. QED
    BY <1>2, <1>3, <1>4 DEF CreateAside, TypeOK

LEMMA RenameType ==
  ASSUME TypeOK, SoundThreads, NEW i \in Instances, Rename(i)
  PROVE  TypeOK' /\ SoundThreads'
  <1>1. [db[i] EXCEPT !.face = 1 - @] \in Row
    BY RowType DEF TypeOK, TemplateOrNone
  <1>2. db' \in [Instances -> Row]
    BY <1>1, CommitsType DEF Rename, TypeOK
  <1>3. budget' \in [BoundedEvents -> Nat]
    BY SpendType DEF Rename, TypeOK, BoundedEvents
  <1>4. SoundThreads'
    BY DEF Rename, SoundThreads, Sound
  <1>5. QED
    BY <1>2, <1>3, <1>4 DEF Rename, TypeOK, history

LEMMA StartReadType ==
  ASSUME TypeOK, SoundThreads, NEW t \in Threads, StartRead(t)
  PROVE  TypeOK' /\ SoundThreads'
  <1>1. thr[t].pc \notin Unplaced /\ "start.find" \in Labels
    BY DEF StartRead, At, Unplaced, Labels, StartWindow
  <1>2. thr[t].i \in Instances
    BY <1>1 DEF SoundThreads, Sound
  <1>3. Sound([thr[t] EXCEPT !.pc = "start.find", !.row = db[thr[t].i]])
    BY <1>1, <1>2, GoesOnSound DEF TypeOK
  <1>4. thr' \in [Threads -> Thread] /\ SoundThreads'
    BY <1>3, FailedSound, MovesType DEF StartRead, TypeOK
  <1>5. budget' \in [BoundedEvents -> Nat]
    BY SpendType DEF StartRead, TypeOK, BoundedEvents
  <1>6. QED
    BY <1>4, <1>5 DEF StartRead, TypeOK, history

LEMMA StartFindType ==
  ASSUME TypeOK, SoundThreads, NEW t \in Threads, StartFind(t)
  PROVE  TypeOK' /\ SoundThreads'
  <1> DEFINE pc == IF Matches(cont[thr[t].i], thr[t].row) THEN "start.write" ELSE "start.remove"
  <1>1. thr[t].pc \notin Unplaced /\ "start.write" \in Labels /\ pc \in Labels
    BY DEF StartFind, At, Unplaced, Labels, StartWindow
  <1>2. /\ Sound([thr[t] EXCEPT !.pc = pc, !.held = "live"])
        /\ Sound([thr[t] EXCEPT !.pc = "start.write"])
    BY <1>1, GoesOnSound DEF TypeOK
  <1>3. thr' \in [Threads -> Thread] /\ SoundThreads'
    BY <1>2, MovesType DEF StartFind, Goto, TypeOK
  <1>4. budget' \in [BoundedEvents -> Nat]
    BY SpendType DEF StartFind, TypeOK, BoundedEvents
  <1>5. QED
    BY <1>3, <1>4 DEF StartFind, TypeOK, history

LEMMA StartRemoveType ==
  ASSUME TypeOK, SoundThreads, NEW t \in Threads, StartRemove(t)
  PROVE  TypeOK' /\ SoundThreads'
  <1> DEFINE after == [thr[t] EXCEPT !.pc = "start.write", !.held = "none"]
             i == thr[t].i
  <1>1. thr[t].pc \notin Unplaced /\ "start.write" \in Labels
    BY DEF StartRemove, At, Unplaced, Labels, StartWindow
  <1>2. Sound(after) /\ i \in Instances
    BY <1>1, GoesOnSound DEF TypeOK, SoundThreads, Sound
  <1> HIDE DEF after
  <1>3. CASE /\ Becomes(i, NoContainer) /\ thr' = RemovedBy(t, i, after)
             /\ mgr' = ForgottenByShutdown(i) /\ UNCHANGED budget
    <2>1. cont' \in [Instances -> Container]
      BY <1>2, <1>3, BecomesType, BlankType DEF TypeOK
    <2>2. thr' \in [Threads -> Thread] /\ SoundThreads'
      BY <1>2, <1>3, RemovedByType DEF TypeOK
    <2>3. QED
      BY <1>3, <2>1, <2>2, ForgottenType DEF StartRemove, TypeOK, history
  <1>4. CASE /\ UNCHANGED budget \/ Spend("faults")
             /\ Moves(t, after) /\ UNCHANGED <<cont, mgr>>
    <2>1. thr' \in [Threads -> Thread] /\ SoundThreads'
      BY <1>2, <1>4, MovesType DEF TypeOK
    <2>2. budget' \in [BoundedEvents -> Nat]
      BY <1>4, SpendType DEF TypeOK, BoundedEvents
    <2>3. QED
      BY <1>4, <2>1, <2>2 DEF StartRemove, TypeOK, history
  <1>5. QED
    BY <1>3, <1>4 DEF StartRemove, after

LEMMA StartWriteType ==
  ASSUME TypeOK, SoundThreads, NEW t \in Threads, StartWrite(t)
  PROVE  TypeOK' /\ SoundThreads'
  <1> DEFINE pc == IF thr[t].held = "none" THEN "start.create" ELSE "start.run"
  <1>1. thr[t].pc \notin Unplaced /\ pc \in Labels
    BY DEF StartWrite, At, Unplaced, Labels, StartWindow
  <1>2. Sound([thr[t] EXCEPT !.pc = pc])
    BY <1>1, GoesOnSound DEF TypeOK
  <1>3. thr' \in [Threads -> Thread] /\ SoundThreads'
    BY <1>2, MovesType DEF StartWrite, Goto, TypeOK
  <1>4. thr[t].i \in Instances /\ thr[t].row.template \in TemplateOrNone
    BY <1>1 DEF SoundThreads, Sound, Thread, Row
  <1>5. conf' \in [Instances -> TemplateOrNone]
    BY <1>4 DEF StartWrite, TypeOK
  <1>6. QED
    BY <1>3, <1>5 DEF StartWrite, TypeOK, history

LEMMA StartCreateType ==
  ASSUME TypeOK, SoundThreads, NEW t \in Threads, StartCreate(t)
  PROVE  TypeOK' /\ SoundThreads'
  <1> DEFINE row == thr[t].row
             c == [status |-> "created", template |-> row.template, face |-> row.face,
                   policy |-> PolicyOf(row), runs |-> NoTemplate]
  <1>1. thr[t].pc \notin Unplaced /\ "start.run" \in Labels
    BY DEF StartCreate, At, Unplaced, Labels, StartWindow
  <1>2. thr[t].i \in Instances /\ row \in Row
    BY <1>1 DEF SoundThreads, Sound, Thread
  <1>3. c \in Container
    BY <1>2, BlankType, ContainerType DEF Status, TemplateOrNone
  <1>4. Sound([thr[t] EXCEPT !.pc = "start.run", !.held = "live"])
    BY <1>1, GoesOnSound DEF TypeOK
  <1>5. thr' \in [Threads -> Thread] /\ SoundThreads'
    BY <1>4, FailedSound, MovesType DEF StartCreate, TypeOK
  <1>6. cont' \in [Instances -> Container]
    <2>1. Becomes(thr[t].i, c) \/ UNCHANGED cont
      BY DEF StartCreate
    <2>2. QED
      BY <1>2, <1>3, <2>1, BecomesType DEF TypeOK
  <1>7. budget' \in [BoundedEvents -> Nat]
    BY SpendType DEF StartCreate, TypeOK, BoundedEvents
  <1>8. QED
    BY <1>5, <1>6, <1>7 DEF StartCreate, TypeOK, history

LEMMA StartRunType ==
  ASSUME TypeOK, SoundThreads, NEW t \in Threads, StartRun(t)
  PROVE  TypeOK' /\ SoundThreads'
  <1>1. thr[t].pc \notin Unplaced /\ "start.commit" \in Labels
    BY DEF StartRun, At, Unplaced, Labels, StartWindow
  <1>2. thr[t].i \in Instances /\ Sound([thr[t] EXCEPT !.pc = "start.commit"])
    BY <1>1, GoesOnSound DEF TypeOK, SoundThreads, Sound
  <1>3. thr' \in [Threads -> Thread] /\ SoundThreads'
    BY <1>2, FailedSound, MovesType DEF StartRun, Goto, TypeOK
  <1>4. cont' \in [Instances -> Container] /\ ranThisBoot' \subseteq Instances
    <2>1. UNCHANGED <<cont, ranThisBoot>> \/ ServerRuns(thr[t].i)
      BY DEF StartRun
    <2>2. QED
      BY <1>2, <2>1, ServerRunsType DEF TypeOK
  <1>5. budget' \in [BoundedEvents -> Nat]
    BY SpendType DEF StartRun, TypeOK, BoundedEvents
  <1>6. QED
    BY <1>3, <1>4, <1>5 DEF StartRun, TypeOK

LEMMA StartCommitType ==
  ASSUME TypeOK, SoundThreads, NEW t \in Threads, StartCommit(t)
  PROVE  TypeOK' /\ SoundThreads'
  <1> DEFINE i == thr[t].i
             row == thr[t].row
  <1>1. thr[t].pc \notin Unplaced
    BY DEF StartCommit, At, Unplaced
  <1>2. i \in Instances /\ row \in Row
    BY <1>1 DEF SoundThreads, Sound, Thread
  <1>3. thr' \in [Threads -> Thread] /\ SoundThreads'
    BY FinishedSound, RestingSound, MovesType DEF StartCommit, TypeOK
  <1>4. db' \in [Instances -> Row]
    <2>1. Columns(i, row) \in Row
      <3>1. /\ db[i] \in Row /\ db[i].desired \in {"running", "stopped"}
            /\ db[i].lastStarted \in TemplateOrNone /\ row.template \in TemplateOrNone
        BY <1>2 DEF TypeOK, Row
      <3>2. QED
        BY <3>1, RowType DEF Columns
    <2>2. Commits(i, Columns(i, row)) \/ UNCHANGED db
      BY DEF StartCommit
    <2>3. QED
      BY <1>2, <2>1, <2>2, CommitsType DEF TypeOK
  <1>5. mon' \in [pass: {"recover", "schedule"}, snap: [Instances -> Row], todo: SUBSET Instances]
    <2>1. mon.snap \in [Instances -> Row]
      BY DEF TypeOK
    <2>2. ASSUME mon' = [mon EXCEPT !.pass = "schedule", !.todo = {}]
          PROVE  mon' = [pass |-> "schedule", snap |-> mon.snap, todo |-> {}]
      BY <2>2 DEF TypeOK
    <2>3. UNCHANGED mon \/ mon' = [mon EXCEPT !.pass = "schedule", !.todo = {}]
      BY DEF StartCommit
    <2>4. QED
      BY <2>1, <2>2, <2>3 DEF TypeOK
  <1>6. /\ seen' \subseteq Instances
        /\ disturbed' \subseteq Instances
    BY <1>2 DEF StartCommit, DisturbIf, TypeOK
  <1>7. QED
    BY <1>3, <1>4, <1>5, <1>6 DEF StartCommit, TypeOK

LEMMA StopRowType ==
  ASSUME TypeOK, SoundThreads, NEW t \in Threads, StopRow(t)
  PROVE  TypeOK' /\ SoundThreads'
  <1> DEFINE i == thr[t].i
  <1>1. thr[t].pc \notin Unplaced /\ "stop.find" \in Labels
    BY DEF StopRow, At, Unplaced, Labels
  <1>2. i \in Instances /\ Sound([thr[t] EXCEPT !.pc = "stop.find"])
    BY <1>1, GoesOnSound DEF TypeOK, SoundThreads, Sound
  <1>3. thr' \in [Threads -> Thread] /\ SoundThreads'
    BY <1>2, FailedSound, MovesType DEF StopRow, Goto, TypeOK
  <1>4. db' \in [Instances -> Row]
    <2>1. [db[i] EXCEPT !.desired = "stopped"] \in Row
      BY <1>2, RowType DEF TypeOK, TemplateOrNone
    <2>2. Commits(i, [db[i] EXCEPT !.desired = "stopped"]) \/ UNCHANGED db
      BY DEF StopRow
    <2>3. QED
      BY <1>2, <2>1, <2>2, CommitsType DEF TypeOK
  <1>5. /\ seen' \subseteq Instances
        /\ disturbed' \subseteq Instances
    BY <1>2 DEF StopRow, DisturbIf, TypeOK, Thread
  <1>6. QED
    BY <1>3, <1>4, <1>5 DEF StopRow, TypeOK

LEMMA FindType ==
  ASSUME TypeOK, SoundThreads, NEW t \in Threads, Find(t)
  PROVE  TypeOK' /\ SoundThreads'
  <1>1. thr[t].pc \notin Unplaced /\ {"start.read", "delete.row"} \subseteq Labels
    BY DEF Find, Unplaced, Labels
  <1>2. thr[t].i \in Instances
    BY <1>1 DEF SoundThreads, Sound
  <1>3. Acting(thr[t].pc) \in Labels
    BY DEF Find, Acting, Labels, StartWindow
  <1>4. Sound([thr[t] EXCEPT !.pc = Acting(thr[t].pc), !.held = "live"])
    BY <1>1, <1>3, GoesOnSound DEF TypeOK
  <1>5. Sound(Without(t))
    BY <1>1, GoesOnSound, FinishedSound DEF TypeOK, Find, Without, At
  <1>6. thr' \in [Threads -> Thread] /\ SoundThreads'
    BY <1>4, <1>5, MovesType DEF Find, TypeOK
  <1>7. budget' \in [BoundedEvents -> Nat] /\ disturbed' \subseteq Instances
    BY <1>2, SpendType DEF Find, DisturbIf, TypeOK, BoundedEvents
  <1>8. QED
    BY <1>6, <1>7 DEF Find, TypeOK

LEMMA StopKillType ==
  ASSUME TypeOK, SoundThreads, NEW t \in Threads, StopKill(t)
  PROVE  TypeOK' /\ SoundThreads'
  <1> DEFINE after == IF thr[t].again
                      THEN [thr[t] EXCEPT !.pc = "start.read", !.again = FALSE, !.held = "none"]
                      ELSE Finished(t)
  <1>1. thr[t].pc \notin Unplaced /\ "start.read" \in Labels
    BY DEF StopKill, At, Unplaced, Labels
  <1>2. thr[t].i \in Instances /\ Sound(after)
    BY <1>1, GoesOnSound, FinishedSound DEF TypeOK, SoundThreads, Sound
  <1>3. Moves(t, after)
    BY DEF StopKill
  <1>4. thr' \in [Threads -> Thread] /\ SoundThreads'
    <2> HIDE DEF after
    <2>1. QED
      BY <1>2, <1>3, MovesType DEF TypeOK
  <1>5. cont' \in [Instances -> Container]
    <2>1. Stopped(thr[t].i) \/ UNCHANGED cont
      BY DEF StopKill
    <2>2. QED
      BY <1>2, <2>1, StoppedType DEF TypeOK
  <1>6. budget' \in [BoundedEvents -> Nat] /\ disturbed' \subseteq Instances
    BY <1>2, SpendType DEF StopKill, DisturbIf, TypeOK, BoundedEvents
  <1>7. QED
    BY <1>4, <1>5, <1>6 DEF StopKill, TypeOK

LEMMA RemoveContainerType ==
  ASSUME TypeOK, SoundThreads, NEW t \in Threads, RemoveContainer(t)
  PROVE  TypeOK' /\ SoundThreads'
  <1> DEFINE i == thr[t].i
  <1>1. thr[t].pc \notin Unplaced /\ "delete.row" \in Labels
    BY DEF RemoveContainer, Unplaced, Labels
  <1>2. i \in Instances /\ Sound(AfterRemove(t))
    BY <1>1, GoesOnSound, FinishedSound DEF AfterRemove, TypeOK, SoundThreads, Sound
  <1>3. CASE /\ Becomes(i, NoContainer) /\ thr' = RemovedBy(t, i, AfterRemove(t))
             /\ mgr' = ForgottenByShutdown(i) /\ UNCHANGED <<budget, disturbed>>
    <2>1. cont' \in [Instances -> Container]
      BY <1>2, <1>3, BecomesType, BlankType DEF TypeOK
    <2>2. thr' \in [Threads -> Thread] /\ SoundThreads'
      BY <1>2, <1>3, RemovedByType DEF TypeOK
    <2>3. QED
      BY <1>3, <2>1, <2>2, ForgottenType DEF RemoveContainer, TypeOK
  <1>4. CASE /\ UNCHANGED <<budget, disturbed>> \/ (Spend("faults") /\ DisturbIf(TRUE, i))
             /\ Moves(t, AfterRemove(t)) /\ UNCHANGED <<cont, mgr>>
    <2>1. thr' \in [Threads -> Thread] /\ SoundThreads'
      BY <1>2, <1>4, MovesType DEF TypeOK
    <2>2. budget' \in [BoundedEvents -> Nat] /\ disturbed' \subseteq Instances
      BY <1>2, <1>4, SpendType DEF DisturbIf, TypeOK, BoundedEvents
    <2>3. QED
      BY <1>4, <2>1, <2>2 DEF RemoveContainer, TypeOK
  <1>5. QED
    BY <1>3, <1>4 DEF RemoveContainer

LEMMA DeleteRowType ==
  ASSUME TypeOK, SoundThreads, NEW t \in Threads, DeleteRow(t)
  PROVE  TypeOK' /\ SoundThreads'
  <1>1. thr[t].i \in Instances
    BY DEF DeleteRow, At, Unplaced, SoundThreads, Sound
  <1>2. thr' \in [Threads -> Thread] /\ SoundThreads'
    BY FinishedSound, FailedSound, MovesType DEF DeleteRow, TypeOK
  <1>3. db' \in [Instances -> Row]
    <2>1. Commits(thr[t].i, Blank) \/ UNCHANGED db
      BY DEF DeleteRow
    <2>2. QED
      BY <1>1, <2>1, CommitsType, BlankType DEF TypeOK
  <1>4. /\ budget' \in [BoundedEvents -> Nat]
        /\ seen' \subseteq Instances /\ disturbed' \subseteq Instances
    BY <1>1, SpendType DEF DeleteRow, DisturbIf, TypeOK, BoundedEvents
  <1>5. QED
    BY <1>2, <1>3, <1>4 DEF DeleteRow, TypeOK

LEMMA EditCheckType ==
  ASSUME TypeOK, SoundThreads, NEW t \in Threads, EditCheck(t)
  PROVE  TypeOK' /\ SoundThreads'
  <1>1. thr[t].pc \notin Unplaced /\ "edit.row" \in Labels
    BY DEF EditCheck, At, Unplaced, Labels
  <1>2. thr[t].i \in Instances /\ Sound([thr[t] EXCEPT !.pc = "edit.row"])
    BY <1>1, GoesOnSound DEF TypeOK, SoundThreads, Sound
  <1>3. thr' \in [Threads -> Thread] /\ SoundThreads'
    BY <1>2, FailedSound, MovesType DEF EditCheck, Goto, TypeOK
  <1>4. budget' \in [BoundedEvents -> Nat] /\ disturbed' \subseteq Instances
    BY <1>2, SpendType DEF EditCheck, DisturbIf, TypeOK, BoundedEvents
  <1>5. QED
    BY <1>3, <1>4 DEF EditCheck, TypeOK

LEMMA EditRowType ==
  ASSUME TypeOK, SoundThreads, NEW t \in Threads, EditRow(t)
  PROVE  TypeOK' /\ SoundThreads'
  <1> DEFINE i == thr[t].i
  <1>1. thr[t].pc \notin Unplaced /\ {"edit.find", "edit.switch"} \subseteq Labels
    BY DEF EditRow, At, Unplaced, Labels
  <1>2. i \in Instances /\ db[i] \in Row
    BY <1>1 DEF TypeOK, SoundThreads, Sound
  <1>3. \A T \in templates : Sound([thr[t] EXCEPT !.pc = "edit.switch",
                                                !.row = [db[i] EXCEPT !.template = T]])
    <2>1. \A T \in templates : [db[i] EXCEPT !.template = T] \in Row
      BY <1>2, RowType DEF TypeOK, TemplateOrNone
    <2>2. QED
      BY <1>1, <2>1, GoesOnSound DEF TypeOK
  <1>4. Sound([thr[t] EXCEPT !.pc = "edit.find"])
    BY <1>1, GoesOnSound DEF TypeOK
  <1>5. thr' \in [Threads -> Thread] /\ SoundThreads'
    BY <1>3, <1>4, FailedSound, MovesType DEF EditRow, Goto, TypeOK
  <1>6. db' \in [Instances -> Row]
    <2>1. Commits(i, [db[i] EXCEPT !.face = 1 - @]) \/ UNCHANGED db
      BY DEF EditRow
    <2>2. [db[i] EXCEPT !.face = 1 - @] \in Row
      BY <1>2, RowType DEF TypeOK, TemplateOrNone
    <2>3. QED
      BY <1>2, <2>1, <2>2, CommitsType DEF TypeOK
  <1>7. disturbed' \subseteq Instances
    BY <1>2 DEF EditRow, DisturbIf, TypeOK
  <1>8. QED
    BY <1>5, <1>6, <1>7 DEF EditRow, TypeOK

LEMMA EditSwitchType ==
  ASSUME TypeOK, SoundThreads, NEW t \in Threads, EditSwitch(t)
  PROVE  TypeOK' /\ SoundThreads'
  <1> DEFINE i == thr[t].i
             T == thr[t].row.template
  <1>1. thr[t].pc \notin Unplaced /\ "edit.find" \in Labels
    BY DEF EditSwitch, At, Unplaced, Labels
  <1>2. i \in Instances /\ db[i] \in Row /\ T \in TemplateOrNone
    BY <1>1 DEF TypeOK, SoundThreads, Sound, Thread, Row
  <1>3. Sound([thr[t] EXCEPT !.pc = "edit.find"]) /\ [db[i] EXCEPT !.template = T] \in Row
    BY <1>1, <1>2, GoesOnSound, RowType DEF TypeOK
  <1>4. thr' \in [Threads -> Thread] /\ SoundThreads'
    BY <1>3, FailedSound, MovesType DEF EditSwitch, Goto, TypeOK
  <1>5. db' \in [Instances -> Row]
    <2>1. Commits(i, [db[i] EXCEPT !.template = T]) \/ UNCHANGED db
      BY DEF EditSwitch
    <2>2. QED
      BY <1>2, <1>3, <2>1, CommitsType DEF TypeOK
  <1>6. disturbed' \subseteq Instances
    BY <1>2 DEF EditSwitch, DisturbIf, TypeOK
  <1>7. QED
    BY <1>4, <1>5, <1>6 DEF EditSwitch, TypeOK

LEMMA ToggleRowType ==
  ASSUME TypeOK, SoundThreads, NEW t \in Threads, ToggleRow(t)
  PROVE  TypeOK' /\ SoundThreads'
  <1> DEFINE i == thr[t].i
  <1>1. thr[t].pc \notin Unplaced /\ "toggle.update" \in Labels
    BY DEF ToggleRow, At, Unplaced, Labels
  <1>2. i \in Instances
    BY <1>1 DEF SoundThreads, Sound
  <1>3. CASE Moves(t, Failed(t)) /\ UNCHANGED db
    <2>1. thr' \in [Threads -> Thread] /\ SoundThreads'
      BY <1>3, FailedSound, MovesType DEF TypeOK
    <2>2. QED
      BY <1>3, <2>1 DEF ToggleRow, TypeOK, history
  <1>4. CASE \E row \in Row : /\ Commits(i, row)
                              /\ Moves(t, [thr[t] EXCEPT !.pc = "toggle.update", !.row = row])
    <2>1. PICK row \in Row : /\ Commits(i, row)
                             /\ Moves(t, [thr[t] EXCEPT !.pc = "toggle.update", !.row = row])
      BY <1>4
    <2>2. Sound([thr[t] EXCEPT !.pc = "toggle.update", !.row = row])
      BY <1>1, GoesOnSound DEF TypeOK
    <2>3. thr' \in [Threads -> Thread] /\ SoundThreads'
      BY <2>1, <2>2, MovesType DEF TypeOK
    <2>4. db' \in [Instances -> Row]
      BY <1>2, <2>1, CommitsType DEF TypeOK
    <2>5. QED
      BY <2>3, <2>4 DEF ToggleRow, TypeOK, history
  <1>5. \A start, restart \in BOOLEAN :
          [db[i] EXCEPT !.autoStart = start, !.autoRestart = restart] \in Row
    BY <1>2, RowType DEF TypeOK, TemplateOrNone
  <1>6. QED
    BY <1>3, <1>4, <1>5 DEF ToggleRow

LEMMA ToggleUpdateType ==
  ASSUME TypeOK, SoundThreads, NEW t \in Threads, ToggleUpdate(t)
  PROVE  TypeOK' /\ SoundThreads'
  <1> DEFINE i == thr[t].i
             c == [cont[i] EXCEPT !.policy = PolicyOf(thr[t].row)]
  <1>1. i \in Instances
    BY DEF ToggleUpdate, At, Unplaced, SoundThreads, Sound
  <1>2. thr' \in [Threads -> Thread] /\ SoundThreads'
    BY FinishedSound, MovesType DEF ToggleUpdate, TypeOK
  <1>3. cont' \in [Instances -> Container]
    <2>1. thr[t].row \in Row
      BY DEF TypeOK, Thread
    <2>2. c \in Container
      BY <1>1, <2>1, ContainerType DEF TypeOK, TemplateOrNone, Status
    <2>3. Becomes(i, c) \/ UNCHANGED cont
      BY DEF ToggleUpdate
    <2>4. QED
      BY <1>1, <2>2, <2>3, BecomesType DEF TypeOK
  <1>4. budget' \in [BoundedEvents -> Nat]
    BY SpendType DEF ToggleUpdate, TypeOK, BoundedEvents
  <1>5. QED
    BY <1>2, <1>3, <1>4 DEF ToggleUpdate, TypeOK, history

LEMMA UnlinkedType ==
  ASSUME TypeOK, NEW T
  PROVE  Unlinked(T) \in [Instances -> Row] /\ On(T) \subseteq Instances
  <1>1. \A i \in Instances :
          [db[i] EXCEPT !.template = NoTemplate, !.desired = "stopped"] \in Row
    BY RowType DEF TypeOK, TemplateOrNone
  <1>2. QED
    BY <1>1 DEF Unlinked, On, TypeOK

LEMMA DetachRowsType ==
  ASSUME TypeOK, SoundThreads, NEW t \in Threads, DetachRows(t)
  PROVE  TypeOK' /\ SoundThreads'
  <1> DEFINE on == On(thr[t].template)
  <1>1. on \subseteq Instances /\ db' \in [Instances -> Row]
    BY UnlinkedType DEF DetachRows
  <1> HIDE DEF on
  <1>2. Sound([thr[t] EXCEPT !.pc = "detach.next", !.todo = on])
    <2>1. thr[t] \in Thread /\ "detach.next" \in Labels \cap Unplaced
      BY DEF TypeOK, Labels, Unplaced
    <2>2. QED
      BY <1>1, <2>1 DEF Sound, Thread
  <1>3. thr' \in [Threads -> Thread] /\ SoundThreads'
    BY <1>2, MovesType DEF DetachRows, TypeOK, on
  <1>4. disturbed' \subseteq Instances
    BY <1>1 DEF DetachRows, TypeOK, on
  <1>5. QED
    BY <1>1, <1>3, <1>4 DEF DetachRows, TypeOK

LEMMA DetachNextType ==
  ASSUME TypeOK, SoundThreads, NEW t \in Threads, DetachNext(t)
  PROVE  TypeOK' /\ SoundThreads'
  <1>1. thr[t] \in Thread /\ thr[t].todo \subseteq Instances /\ thr[t].pc \in Unplaced
    BY DEF TypeOK, Thread, DetachNext, At, Unplaced
  <1>2. CASE \E i \in thr[t].todo :
               /\ Moves(t, [thr[t] EXCEPT !.pc = "stop.row", !.i = i, !.todo = @ \ {i}])
               /\ UNCHANGED <<seen, budget, disturbed>>
    <2>1. PICK i \in thr[t].todo :
             /\ Moves(t, [thr[t] EXCEPT !.pc = "stop.row", !.i = i, !.todo = @ \ {i}])
             /\ UNCHANGED <<seen, budget, disturbed>>
      BY <1>2
    <2>2. Sound([thr[t] EXCEPT !.pc = "stop.row", !.i = i, !.todo = @ \ {i}])
      BY <1>1 DEF Sound, Thread, Labels
    <2>3. thr' \in [Threads -> Thread] /\ SoundThreads'
      BY <2>1, <2>2, MovesType DEF TypeOK
    <2>4. QED
      BY <2>1, <2>3 DEF DetachNext, TypeOK
  <1>3. CASE \E i \in thr[t].todo :
               /\ Spend("faults") /\ Moves(t, [thr[t] EXCEPT !.todo = @ \ {i}])
               /\ seen' = seen \ {i} /\ DisturbIf(TRUE, i)
    <2>1. PICK i \in thr[t].todo :
             /\ Spend("faults") /\ Moves(t, [thr[t] EXCEPT !.todo = @ \ {i}])
             /\ seen' = seen \ {i} /\ DisturbIf(TRUE, i)
      BY <1>3
    <2>2. Sound([thr[t] EXCEPT !.todo = @ \ {i}])
      BY <1>1 DEF Sound, Thread
    <2>3. thr' \in [Threads -> Thread] /\ SoundThreads'
      BY <2>1, <2>2, MovesType DEF TypeOK
    <2>4. budget' \in [BoundedEvents -> Nat]
      BY <2>1, SpendType DEF TypeOK, BoundedEvents
    <2>5. seen' \subseteq Instances /\ disturbed' \subseteq Instances
      BY <1>1, <2>1 DEF DisturbIf, TypeOK
    <2>6. QED
      BY <2>3, <2>4, <2>5 DEF DetachNext, TypeOK
  <1>4. CASE Goto(t, "detach.drop") /\ UNCHANGED <<seen, budget, disturbed>>
    <2>1. Sound([thr[t] EXCEPT !.pc = "detach.drop"])
      BY <1>1 DEF Sound, Thread, Labels, Unplaced
    <2>2. thr' \in [Threads -> Thread] /\ SoundThreads'
      BY <1>4, <2>1, MovesType DEF Goto, TypeOK
    <2>3. QED
      BY <1>4, <2>2 DEF DetachNext, TypeOK
  <1>5. QED
    BY <1>2, <1>3, <1>4 DEF DetachNext

LEMMA DropTemplateType ==
  ASSUME TypeOK, SoundThreads, NEW t \in Threads, DropTemplate(t)
  PROVE  TypeOK' /\ SoundThreads'
  <1> DEFINE on == On(thr[t].template)
  <1>1. on \subseteq Instances /\ Unlinked(thr[t].template) \in [Instances -> Row]
    BY UnlinkedType
  <1>2. db' \in [Instances -> Row]
    BY <1>1 DEF DropTemplate, TypeOK
  <1> HIDE DEF on
  <1>3. disturbed' \subseteq Instances
    BY <1>1 DEF DropTemplate, TypeOK, on
  <1>4. thr' \in [Threads -> Thread] /\ SoundThreads'
    BY RestingSound, MovesType DEF DropTemplate, TypeOK
  <1>5. QED
    BY <1>2, <1>3, <1>4 DEF DropTemplate, TypeOK


LEMMA RecoverBeginType ==
  ASSUME TypeOK, SoundThreads, RecoverBegin
  PROVE  TypeOK' /\ SoundThreads'
  <1>1. Sound([thr[Monitor] EXCEPT !.pc = "next"])
    BY DEF TypeOK, Sound, Thread, Labels, Unplaced, Threads
  <1>2. thr' \in [Threads -> Thread] /\ SoundThreads'
    BY <1>1, MovesType DEF RecoverBegin, Goto, TypeOK, Threads
  <1>3. mon' \in [pass: {"recover", "schedule"}, snap: [Instances -> Row], todo: SUBSET Instances]
    BY DEF RecoverBegin, TypeOK
  <1>4. QED
    BY <1>2, <1>3 DEF RecoverBegin, TypeOK, history

LEMMA MonTodoType ==
  ASSUME TypeOK, NEW i \in Instances, mon' = [mon EXCEPT !.todo = @ \ {i}]
  PROVE  mon' \in [pass: {"recover", "schedule"}, snap: [Instances -> Row], todo: SUBSET Instances]
  BY DEF TypeOK

LEMMA RecoverLookType ==
  ASSUME TypeOK, SoundThreads, NEW i \in Instances, RecoverLook(i)
  PROVE  TypeOK' /\ SoundThreads'
  <1>1. thr[Monitor] \in Thread /\ "start.read" \in Labels
    BY DEF TypeOK, Labels, Threads
  <1>2. Sound([thr[Monitor] EXCEPT !.pc = "start.read", !.i = i])
    BY <1>1 DEF Sound, Thread
  <1>3. thr' \in [Threads -> Thread] /\ SoundThreads'
    <2>1. \/ Moves(Monitor, [thr[Monitor] EXCEPT !.pc = "start.read", !.i = i])
          \/ thr' = thr
      BY DEF RecoverLook
    <2>2. CASE thr' = thr
      BY <2>2 DEF TypeOK, SoundThreads, Sound
    <2>3. CASE Moves(Monitor, [thr[Monitor] EXCEPT !.pc = "start.read", !.i = i])
      BY <1>2, <2>3, MovesType DEF TypeOK, Threads
    <2>4. QED
      BY <2>1, <2>2, <2>3
  <1>4. mon' \in [pass: {"recover", "schedule"}, snap: [Instances -> Row], todo: SUBSET Instances]
    BY MonTodoType DEF RecoverLook
  <1>5. seen' \subseteq Instances
    BY DEF RecoverLook, TypeOK
  <1>6. budget' \in [BoundedEvents -> Nat]
    <2>1. UNCHANGED budget \/ Spend("faults")
      BY DEF RecoverLook
    <2>2. QED
      BY <2>1, SpendType DEF TypeOK, BoundedEvents
  <1>7. QED
    BY <1>3, <1>4, <1>5, <1>6 DEF RecoverLook, TypeOK, history

LEMMA DueType ==
  ASSUME TypeOK, SoundThreads, NEW i \in Instances, Due(i)
  PROVE  TypeOK' /\ SoundThreads'
  <1>1. Sound([thr[Monitor] EXCEPT !.pc = "stop.row", !.i = i, !.again = TRUE])
    <2>1. thr[Monitor] \in Thread /\ "stop.row" \in Labels
      BY DEF TypeOK, Labels, Threads
    <2>2. QED
      BY <2>1 DEF Sound, Thread
  <1>2. thr' \in [Threads -> Thread] /\ SoundThreads'
    BY <1>1, MovesType DEF Due, TypeOK, Threads
  <1>3. mon' \in [pass: {"recover", "schedule"}, snap: [Instances -> Row], todo: SUBSET Instances]
    BY MonTodoType DEF Due
  <1>4. budget' \in [BoundedEvents -> Nat]
    BY SpendType DEF Due, TypeOK, BoundedEvents
  <1>5. QED
    BY <1>2, <1>3, <1>4 DEF Due, TypeOK, history

LEMMA PassType ==
  ASSUME TypeOK, SoundThreads, ScheduleBegin \/ PassEnd \/ \E i \in Instances : NotDue(i)
  PROVE  TypeOK' /\ SoundThreads'
  <1>1. CASE ScheduleBegin
    BY <1>1 DEF ScheduleBegin, TypeOK, SoundThreads, Sound, history
  <1>2. ASSUME NEW i \in Instances, NotDue(i)
        PROVE  TypeOK' /\ SoundThreads'
    BY <1>2, MonTodoType DEF NotDue, TypeOK, SoundThreads, Sound, history
  <1>3. CASE PassEnd
    <2>1. Sound([thr[Monitor] EXCEPT !.pc = "sleep"])
      BY DEF TypeOK, Sound, Thread, Labels, Unplaced, Threads
    <2>2. thr' \in [Threads -> Thread] /\ SoundThreads'
      BY <1>3, <2>1, MovesType DEF PassEnd, Goto, TypeOK, Threads
    <2>3. mon' \in [pass: {"recover", "schedule"}, snap: [Instances -> Row], todo: SUBSET Instances]
      BY <1>3, BlankType DEF PassEnd
    <2>4. QED
      BY <1>3, <2>2, <2>3 DEF PassEnd, TypeOK, history
  <1>4. QED
    BY <1>1, <1>2, <1>3

LEMMA ShutdownBeginType ==
  ASSUME TypeOK, SoundThreads, ShutdownBegin
  PROVE  TypeOK' /\ SoundThreads'
  <1>1. budget' \in [BoundedEvents -> Nat]
    BY SpendType DEF ShutdownBegin, TypeOK, BoundedEvents
  <1>2. QED
    BY <1>1 DEF ShutdownBegin, TypeOK, SoundThreads, Sound, history

LEMMA ShutdownStopType ==
  ASSUME TypeOK, SoundThreads, NEW i \in Instances, ShutdownStop(i)
  PROVE  TypeOK' /\ SoundThreads'
  <1>1. cont' \in [Instances -> Container]
    BY StoppedType DEF ShutdownStop, TypeOK
  <1>2. QED
    BY <1>1 DEF ShutdownStop, TypeOK, SoundThreads, Sound, history

LEMMA ShutdownRemoveType ==
  ASSUME TypeOK, SoundThreads, NEW i \in Instances, ShutdownRemove(i)
  PROVE  TypeOK' /\ SoundThreads'
  <1>1. cont' \in [Instances -> Container]
    BY BecomesType, BlankType DEF ShutdownRemove, TypeOK
  <1>2. ASSUME NEW t \in Threads
        PROVE  /\ Sound(thr[t])
               /\ Sound([thr[t] EXCEPT !.held = "dead"])
    BY DEF TypeOK, SoundThreads, Sound, Thread
  <1>3. thr' = [t \in Threads |-> IF thr[t].i = i /\ thr[t].held = "live"
                                  THEN [thr[t] EXCEPT !.held = "dead"] ELSE thr[t]]
    BY DEF ShutdownRemove
  <1>4. thr' \in [Threads -> Thread] /\ SoundThreads'
    BY <1>2, <1>3 DEF SoundThreads, Sound
  <1>5. QED
    BY <1>1, <1>4, ForgottenType DEF ShutdownRemove, TypeOK, history

LEMMA ExitBootType ==
  ASSUME TypeOK, SoundThreads, Exit \/ Boot
  PROVE  TypeOK' /\ SoundThreads'
  BY DEF Exit, Boot, TypeOK, SoundThreads, Sound, history

LEMMA GoneType ==
  ASSUME TypeOK, Gone
  PROVE  /\ thr' \in [Threads -> Thread] /\ SoundThreads'
         /\ mon' \in [pass: {"recover", "schedule"}, snap: [Instances -> Row], todo: SUBSET Instances]
         /\ mgr' \in [life: {"up", "stopping", "down"}, stop: SUBSET Instances, remove: SUBSET Instances]
         /\ disturbed' \subseteq Instances
  <1>1. thr' \in [Threads -> Thread] /\ SoundThreads'
    BY RestingSound DEF Gone, SoundThreads, Sound
  <1>2. mon' \in [pass: {"recover", "schedule"}, snap: [Instances -> Row], todo: SUBSET Instances]
    BY BlankType DEF Gone
  <1>3. Busy \subseteq Instances /\ UNION {thr[t].todo : t \in Threads} \subseteq Instances
    BY DEF Busy, TypeOK, Thread
  <1>4. disturbed' \subseteq Instances
    BY <1>3 DEF Gone, TypeOK
  <1>5. QED
    BY <1>1, <1>2, <1>4 DEF Gone

LEMMA KillType ==
  ASSUME TypeOK, SoundThreads, Kill
  PROVE  TypeOK' /\ SoundThreads'
  <1>1. budget' \in [BoundedEvents -> Nat]
    BY SpendType DEF Kill, TypeOK, BoundedEvents
  <1>2. QED
    BY <1>1, GoneType DEF Kill, TypeOK

LEMMA HostRebootType ==
  ASSUME TypeOK, SoundThreads, HostReboot
  PROVE  TypeOK' /\ SoundThreads'
  <1>1. budget' \in [BoundedEvents -> Nat]
    BY SpendType DEF HostReboot, TypeOK, BoundedEvents
  <1>2. \A i \in Instances :
          /\ [cont[i] EXCEPT !.status = "running", !.runs = conf[i]] \in Container
          /\ [cont[i] EXCEPT !.status = "exited"] \in Container
    BY ContainerType, BlankType DEF TypeOK, Status
  <1>3. cont' \in [Instances -> Container]
    BY <1>2 DEF HostReboot, TypeOK
  <1>4. QED
    BY <1>1, <1>3, GoneType DEF HostReboot, TypeOK

LEMMA ServerExitsType ==
  ASSUME TypeOK, SoundThreads, NEW i \in Instances, ServerExits(i)
  PROVE  TypeOK' /\ SoundThreads'
  <1>1. PICK status \in {"restarting", "exited"} : Becomes(i, [cont[i] EXCEPT !.status = status])
    BY DEF ServerExits
  <1>2. [cont[i] EXCEPT !.status = status] \in Container
    BY ContainerType, BlankType DEF TypeOK, Status, TemplateOrNone
  <1>3. cont' \in [Instances -> Container]
    BY <1>1, <1>2, BecomesType DEF TypeOK
  <1>4. budget' \in [BoundedEvents -> Nat]
    BY SpendType DEF ServerExits, TypeOK, BoundedEvents
  <1>5. QED
    BY <1>3, <1>4 DEF ServerExits, TypeOK, SoundThreads, Sound, history

LEMMA DockerRestartsType ==
  ASSUME TypeOK, SoundThreads, NEW i \in Instances, DockerRestarts(i)
  PROVE  TypeOK' /\ SoundThreads'
  <1>1. cont' \in [Instances -> Container] /\ ranThisBoot' \subseteq Instances
    BY ServerRunsType DEF DockerRestarts, TypeOK
  <1>2. QED
    BY <1>1 DEF DockerRestarts, TypeOK, SoundThreads, Sound

LEMMA NextType ==
  ASSUME TypeOK, SoundThreads, [Next]_vars
  PROVE  TypeOK' /\ SoundThreads'
  <1>1. ASSUME NEW t \in Threads, ThreadStep(t) PROVE TypeOK' /\ SoundThreads'
    <2>1. CASE StartStep(t)
      BY <2>1, StartReadType, StartFindType, StartRemoveType, StartWriteType, StartCreateType,
         StartRunType, StartCommitType DEF StartStep
    <2>2. CASE StopStep(t)
      BY <2>2, StopRowType, FindType, StopKillType DEF StopStep
    <2>3. CASE RemoveContainer(t) \/ DeleteRow(t) \/ EditCheck(t) \/ EditRow(t)
      BY <2>3, RemoveContainerType, DeleteRowType, EditCheckType, EditRowType
    <2>4. CASE ToggleRow(t) \/ ToggleUpdate(t) \/ DetachRows(t) \/ DetachNext(t) \/ DropTemplate(t)
      BY <2>4, ToggleRowType, ToggleUpdateType, DetachRowsType, DetachNextType, DropTemplateType
    <2>5. CASE EditSwitch(t) \/ CreateRow(t) \/ CreateAside(t)
      BY <2>5, EditSwitchType, CreateRowType, CreateAsideType
    <2>6. QED
      BY <1>1, <2>1, <2>2, <2>3, <2>4, <2>5 DEF ThreadStep
  <1>2. CASE MonitorStep
    BY <1>2, RecoverBeginType, RecoverLookType, DueType, PassType DEF MonitorStep
  <1>3. CASE AdminStep
    BY <1>3, AskType, AskDetachType, AskCreateType, RenameType DEF AdminStep
  <1>4. CASE ProcessStep
    BY <1>4, ShutdownBeginType, ShutdownStopType, ShutdownRemoveType, ExitBootType, KillType,
       HostRebootType DEF ProcessStep
  <1>5. CASE DaemonStep
    BY <1>5, ServerExitsType, DockerRestartsType DEF DaemonStep
  <1>6. CASE UNCHANGED vars
    BY <1>6 DEF vars, TypeOK, SoundThreads, Sound
  <1>7. QED
    BY <1>1, <1>2, <1>3, <1>4, <1>5, <1>6 DEF Next

\* Every state of every behaviour is well typed, and a thread inside an
\* operation on one server works on a server of the table's ids.
THEOREM TypeCorrect == Spec => []TypeOK
  <1>1. Init => TypeOK /\ SoundThreads
    BY InitType
  <1>2. TypeOK /\ SoundThreads /\ [Next]_vars => (TypeOK /\ SoundThreads)'
    BY NextType
  <1>3. QED
    BY <1>1, <1>2, PTL DEF Spec
-----------------------------------------------------------------------------
(* What the monitor remembers as seen up ran under this process.           *)

\* What a step owes to the invariant, when the process neither ends nor boots.
LEMMA RanKept ==
  ASSUME RanInv, mgr'.life = mgr.life, mgr.life # "down" \/ thr' = thr,
         ranThisBoot \subseteq ranThisBoot', seen' \subseteq ranThisBoot',
         \A i \in Instances : Alive(i)' => Alive(i) \/ i \in ranThisBoot',
         \A t \in Threads : thr'[t].pc = "start.commit" => thr'[t].i \in ranThisBoot'
  PROVE  RanInv'
  BY DEF RanInv, SeenRanThisBoot, At

\* Only t moves, and not to the commit of a start.
MovesAside(t) == /\ thr'[t].pc # "start.commit"
                 /\ \A u \in Threads \ {t} : thr'[u] = thr[u]

LEMMA MovesAsideIf ==
  ASSUME TypeOK, NEW t \in Threads, NEW after, Moves(t, after), after.pc # "start.commit"
  PROVE  MovesAside(t)
  BY DEF TypeOK, Moves, MovesAside

LEMMA GotoAside ==
  ASSUME TypeOK, NEW t \in Threads, NEW pc, Goto(t, pc), pc # "start.commit"
  PROVE  MovesAside(t)
  <1>1. thr[t] \in Thread
    BY DEF TypeOK
  <1>2. [thr[t] EXCEPT !.pc = pc].pc = pc
    BY <1>1 DEF Thread
  <1>3. QED
    BY <1>2, MovesAsideIf DEF Goto

LEMMA MovesRan ==
  ASSUME RanInv, NEW t \in Threads, MovesAside(t), ranThisBoot \subseteq ranThisBoot'
  PROVE  \A u \in Threads : thr'[u].pc = "start.commit" => thr'[u].i \in ranThisBoot'
  BY DEF RanInv, At, MovesAside

LEMMA RemovedByRan ==
  ASSUME TypeOK, RanInv, NEW t \in Threads, NEW i, NEW after, thr' = RemovedBy(t, i, after),
         after.pc # "start.commit", UNCHANGED ranThisBoot
  PROVE  \A u \in Threads : thr'[u].pc = "start.commit" => thr'[u].i \in ranThisBoot'
  <1> SUFFICES ASSUME NEW u \in Threads, thr'[u].pc = "start.commit"
               PROVE  thr'[u].i \in ranThisBoot'
    OBVIOUS
  <1>1. u # t /\ thr'[u].pc = thr[u].pc /\ thr'[u].i = thr[u].i
    BY DEF RemovedBy, TypeOK, Thread
  <1>2. QED
    BY <1>1 DEF RanInv, At

LEMMA EndedRan ==
  ASSUME NEW t \in Threads
  PROVE  /\ Resting(t).pc # "start.commit" /\ Finished(t).pc # "start.commit"
         /\ Failed(t).pc # "start.commit"
  BY DEF Resting, Finished, Failed

LEMMA BecomesAlive ==
  ASSUME TypeOK, NEW i \in Instances, NEW after, Becomes(i, after),
         after.status \in {"running", "restarting"} => Alive(i)
  PROVE  \A j \in Instances : Alive(j)' => Alive(j)
  BY DEF TypeOK, Becomes, Alive

LEMMA StoppedAlive ==
  ASSUME TypeOK, NEW i \in Instances, Stopped(i)
  PROVE  \A j \in Instances : Alive(j)' => Alive(j)
  <1>1. Becomes(i, IF Alive(i) THEN [cont[i] EXCEPT !.status = "exited"] ELSE cont[i])
    BY DEF Stopped
  <1>2. Alive(i) => [cont[i] EXCEPT !.status = "exited"].status = "exited"
    BY DEF TypeOK, Container
  <1>3. QED
    BY <1>1, <1>2, BecomesAlive DEF Alive

LEMMA ServerRunsAlive ==
  ASSUME TypeOK, NEW i \in Instances, ServerRuns(i)
  PROVE  /\ \A j \in Instances : Alive(j)' => Alive(j) \/ j \in ranThisBoot'
         /\ ranThisBoot \subseteq ranThisBoot' /\ i \in ranThisBoot'
  BY DEF TypeOK, ServerRuns, Becomes, Alive

\* A thread at work works for a manager that runs.
LEMMA WorksWhileUp ==
  ASSUME RanInv, NEW t \in Threads, ThreadStep(t)
  PROVE  mgr.life # "down"
  <1>1. CASE StartStep(t)
    BY <1>1 DEF StartStep, StartRead, StartFind, StartRemove, StartWrite, StartCreate, StartRun,
                StartCommit, At, RanInv
  <1>2. CASE StopStep(t) \/ RemoveContainer(t) \/ DeleteRow(t) \/ EditCheck(t) \/ EditRow(t)
    BY <1>2 DEF StopStep, StopRow, Find, StopKill, RemoveContainer, DeleteRow, EditCheck, EditRow,
                At, RanInv
  <1>3. CASE ToggleRow(t) \/ ToggleUpdate(t) \/ DetachRows(t) \/ DetachNext(t) \/ DropTemplate(t)
    BY <1>3 DEF ToggleRow, ToggleUpdate, DetachRows, DetachNext, DropTemplate, At, RanInv
  <1>4. CASE EditSwitch(t) \/ CreateRow(t) \/ CreateAside(t)
    BY <1>4 DEF EditSwitch, CreateRow, CreateAside, At, RanInv
  <1>5. QED
    BY <1>1, <1>2, <1>3, <1>4 DEF ThreadStep

LEMMA StartStepRan ==
  ASSUME TypeOK, SoundThreads, RanInv, NEW t \in Threads, StartStep(t)
  PROVE  RanInv'
  <1> USE DEF At
  <1>1. mgr.life # "down" /\ thr[t] \in Thread
    BY WorksWhileUp DEF ThreadStep, TypeOK
  <1>2. StartStep(t) => mgr'.life = mgr.life
    BY DEF StartStep, StartRead, StartFind, StartRemove, StartWrite, StartCreate, StartRun,
           StartCommit, ForgottenByShutdown, TypeOK
  <1>3. CASE StartRead(t) \/ StartFind(t) \/ StartWrite(t)
    <2>1. UNCHANGED <<cont, seen, ranThisBoot>>
      BY <1>3 DEF StartRead, StartFind, StartWrite, history
    <2>2. MovesAside(t)
      <3>1. CASE StartRead(t)
        BY <1>1, <3>1, EndedRan, MovesAsideIf DEF StartRead, Thread
      <3>2. CASE StartFind(t)
        BY <1>1, <3>2, GotoAside, MovesAsideIf DEF StartFind, Thread
      <3>3. CASE StartWrite(t)
        BY <3>3, GotoAside DEF StartWrite
      <3>4. QED
        BY <1>3, <3>1, <3>2, <3>3
    <2>3. QED
      BY <1>1, <1>2, <2>1, <2>2, MovesRan, RanKept DEF RanInv, SeenRanThisBoot, Alive
  <1>4. CASE StartRemove(t)
    <2> DEFINE after == [thr[t] EXCEPT !.pc = "start.write", !.held = "none"]
    <2>1. UNCHANGED <<seen, ranThisBoot>> /\ after.pc # "start.commit" /\ thr[t].i \in Instances
      BY <1>1, <1>4 DEF StartRemove, history, Thread, SoundThreads, Sound, Unplaced
    <2>2. \/ Moves(t, after) /\ UNCHANGED cont
          \/ thr' = RemovedBy(t, thr[t].i, after) /\ Becomes(thr[t].i, NoContainer)
      BY <1>4 DEF StartRemove
    <2> HIDE DEF after
    <2>3. \A u \in Threads : thr'[u].pc = "start.commit" => thr'[u].i \in ranThisBoot'
      BY <2>1, <2>2, MovesAsideIf, MovesRan, RemovedByRan
    <2>4. \A j \in Instances : Alive(j)' => Alive(j)
      BY <2>1, <2>2, BecomesAlive DEF NoContainer, Alive
    <2>5. QED
      BY <1>1, <1>2, <2>1, <2>3, <2>4, RanKept DEF RanInv, SeenRanThisBoot
  <1>5. CASE StartCreate(t)
    <2>1. UNCHANGED <<seen, ranThisBoot>> /\ thr[t].i \in Instances
      BY <1>5 DEF StartCreate, history, SoundThreads, Sound, Unplaced
    <2>2. MovesAside(t)
      BY <1>1, <1>5, EndedRan, MovesAsideIf DEF StartCreate, Thread
    <2>3. UNCHANGED cont \/ \E c : Becomes(thr[t].i, c) /\ c.status = "created"
      BY <1>5 DEF StartCreate
    <2>4. \A j \in Instances : Alive(j)' => Alive(j)
      BY <2>1, <2>3, BecomesAlive DEF Alive
    <2>5. QED
      BY <1>1, <1>2, <2>1, <2>2, <2>4, MovesRan, RanKept DEF RanInv, SeenRanThisBoot
  <1>6. CASE StartRun(t)
    <2> DEFINE i == thr[t].i
    <2>1. UNCHANGED seen /\ i \in Instances
      BY <1>6 DEF StartRun, SoundThreads, Sound, Unplaced
    <2>2. /\ \A j \in Instances : Alive(j)' => Alive(j) \/ j \in ranThisBoot'
          /\ ranThisBoot \subseteq ranThisBoot'
      BY <1>6, <2>1, ServerRunsAlive DEF StartRun, Alive
    <2>3. CASE Moves(t, Failed(t))
      BY <1>1, <1>2, <2>1, <2>2, <2>3, EndedRan, MovesAsideIf, MovesRan, RanKept DEF RanInv, SeenRanThisBoot
    <2>4. CASE Goto(t, "start.commit") /\ (Alive(i) \/ ServerRuns(i))
      <3>1. i \in ranThisBoot'
        BY <1>1, <2>1, <2>2, <2>4, ServerRunsAlive DEF RanInv
      <3>2. \A u \in Threads : thr'[u].pc = "start.commit" => thr'[u].i \in ranThisBoot'
        BY <1>1, <2>2, <2>4, <3>1 DEF Goto, Moves, TypeOK, Thread, RanInv
      <3>3. QED
        BY <1>1, <1>2, <2>1, <2>2, <3>2, RanKept DEF RanInv, SeenRanThisBoot
    <2>5. QED
      BY <1>6, <2>3, <2>4 DEF StartRun
  <1>7. CASE StartCommit(t)
    <2>1. UNCHANGED <<cont, ranThisBoot>> /\ seen' \subseteq ranThisBoot
      BY <1>7 DEF StartCommit, RanInv, SeenRanThisBoot
    <2>2. MovesAside(t)
      BY <1>7, EndedRan, MovesAsideIf DEF StartCommit
    <2>3. QED
      BY <1>1, <1>2, <2>1, <2>2, MovesRan, RanKept DEF Alive
  <1>8. QED
    BY <1>3, <1>4, <1>5, <1>6, <1>7 DEF StartStep

LEMMA OtherStepRan ==
  ASSUME TypeOK, SoundThreads, RanInv, NEW t \in Threads, ThreadStep(t), ~StartStep(t)
  PROVE  RanInv'
  <1>1. mgr.life # "down" /\ thr[t] \in Thread
    BY WorksWhileUp DEF TypeOK
  <1>2. CASE RemoveContainer(t)
    <2>1. UNCHANGED <<seen, ranThisBoot>> /\ thr[t].i \in Instances /\ mgr'.life = mgr.life
      BY <1>2 DEF RemoveContainer, ForgottenByShutdown, TypeOK, SoundThreads, Sound, Unplaced
    <2>2. AfterRemove(t).pc # "start.commit"
      BY <1>1, EndedRan DEF AfterRemove, Thread
    <2>3. \/ Moves(t, AfterRemove(t)) /\ UNCHANGED cont
          \/ thr' = RemovedBy(t, thr[t].i, AfterRemove(t)) /\ Becomes(thr[t].i, NoContainer)
      BY <1>2 DEF RemoveContainer
    <2>4. \A u \in Threads : thr'[u].pc = "start.commit" => thr'[u].i \in ranThisBoot'
      BY <2>1, <2>2, <2>3, MovesAsideIf, MovesRan, RemovedByRan
    <2>5. \A j \in Instances : Alive(j)' => Alive(j)
      BY <2>1, <2>3, BecomesAlive DEF NoContainer, Alive
    <2>6. QED
      BY <1>1, <2>1, <2>4, <2>5, RanKept DEF RanInv, SeenRanThisBoot
  <1>3. CASE StopKill(t) \/ ToggleUpdate(t)
    <2>1. UNCHANGED <<seen, ranThisBoot, mgr>> /\ thr[t].i \in Instances
      BY <1>3 DEF StopKill, ToggleUpdate, history, At, SoundThreads, Sound, Unplaced
    <2>2. MovesAside(t)
      <3>1. CASE ToggleUpdate(t)
        BY <3>1, EndedRan, MovesAsideIf DEF ToggleUpdate
      <3>2. [thr[t] EXCEPT !.pc = "start.read", !.again = FALSE, !.held = "none"].pc = "start.read"
        BY <1>1 DEF Thread
      <3>3. CASE StopKill(t)
        BY <3>2, <3>3, EndedRan, MovesAsideIf DEF StopKill
      <3>4. QED
        BY <1>3, <3>1, <3>3
    <2>3. \A j \in Instances : Alive(j)' => Alive(j)
      <3>1. \/ UNCHANGED cont \/ Stopped(thr[t].i)
            \/ Becomes(thr[t].i, [cont[thr[t].i] EXCEPT !.policy = PolicyOf(thr[t].row)])
        BY <1>3 DEF StopKill, ToggleUpdate
      <3>2. [cont[thr[t].i] EXCEPT !.policy = PolicyOf(thr[t].row)].status = cont[thr[t].i].status
        BY <2>1 DEF TypeOK, Container
      <3>3. QED
        BY <2>1, <3>1, <3>2, StoppedAlive, BecomesAlive DEF Alive
    <2>4. QED
      BY <1>1, <2>1, <2>2, <2>3, MovesRan, RanKept DEF RanInv, SeenRanThisBoot
  <1>4. ASSUME StopRow(t) \/ Find(t) \/ DeleteRow(t) \/ EditCheck(t) \/ EditRow(t) \/ ToggleRow(t)
               \/ DetachRows(t) \/ DetachNext(t) \/ DropTemplate(t)
               \/ EditSwitch(t) \/ CreateRow(t) \/ CreateAside(t)
        PROVE  RanInv'
    <2>1. UNCHANGED <<cont, ranThisBoot, mgr>> /\ seen' \subseteq seen
      <3>1. CASE StopRow(t) \/ DeleteRow(t) \/ DetachNext(t)
        BY <3>1 DEF StopRow, DeleteRow, DetachNext
      <3>2. CASE Find(t) \/ EditCheck(t) \/ EditRow(t)
        BY <3>2 DEF Find, EditCheck, EditRow
      <3>3. CASE ToggleRow(t) \/ DetachRows(t) \/ DropTemplate(t)
        BY <3>3 DEF ToggleRow, DetachRows, DropTemplate, history
      <3>4. CASE EditSwitch(t) \/ CreateRow(t) \/ CreateAside(t)
        BY <3>4 DEF EditSwitch, CreateRow, CreateAside
      <3>5. QED
        BY <1>4, <3>1, <3>2, <3>3, <3>4
    <2>2. Find(t) => Without(t).pc # "start.commit" /\ Acting(thr[t].pc) # "start.commit"
      BY <1>1, EndedRan DEF Find, Without, Acting, At, Thread
    <2>3. MovesAside(t)
      <3>1. CASE StopRow(t) \/ EditCheck(t) \/ EditSwitch(t)
        BY <3>1, EndedRan, MovesAsideIf, GotoAside DEF StopRow, EditCheck, EditSwitch
      <3>2. CASE DeleteRow(t) \/ DropTemplate(t)
        BY <3>2, EndedRan, MovesAsideIf DEF DeleteRow, DropTemplate
      <3>3. CASE Find(t)
        <4>1. [thr[t] EXCEPT !.pc = Acting(thr[t].pc), !.held = "live"].pc = Acting(thr[t].pc)
          BY <1>1 DEF Thread
        <4>2. QED
          BY <2>2, <3>3, <4>1, MovesAsideIf DEF Find
      <3>4. CASE ToggleRow(t)
        <4>1. \A row : [thr[t] EXCEPT !.pc = "toggle.update", !.row = row].pc = "toggle.update"
          BY <1>1 DEF Thread
        <4>2. QED
          BY <3>4, <4>1, EndedRan, MovesAsideIf DEF ToggleRow
      <3>5. CASE DetachRows(t)
        <4>1. \A on : [thr[t] EXCEPT !.pc = "detach.next", !.todo = on].pc = "detach.next"
          BY <1>1 DEF Thread
        <4>2. QED
          BY <3>5, <4>1, MovesAsideIf DEF DetachRows
      <3>6. CASE DetachNext(t)
        <4>1. \A i : /\ [thr[t] EXCEPT !.pc = "stop.row", !.i = i, !.todo = @ \ {i}].pc = "stop.row"
                     /\ [thr[t] EXCEPT !.todo = @ \ {i}].pc = thr[t].pc
          BY <1>1 DEF Thread
        <4>2. thr[t].pc # "start.commit"
          BY <3>6 DEF DetachNext, At
        <4>3. QED
          BY <3>6, <4>1, <4>2, MovesAsideIf, GotoAside DEF DetachNext
      <3>7. CASE EditRow(t)
        <4>1. \A row : [thr[t] EXCEPT !.pc = "edit.switch", !.row = row].pc = "edit.switch"
          BY <1>1 DEF Thread
        <4>2. QED
          BY <3>7, <4>1, EndedRan, MovesAsideIf, GotoAside DEF EditRow
      <3>8. CASE CreateRow(t) \/ CreateAside(t)
        <4>1. \A i : [Resting(t) EXCEPT !.pc = "create.aside", !.i = i].pc = "create.aside"
          BY DEF Resting
        <4>2. QED
          BY <3>8, <4>1, EndedRan, MovesAsideIf DEF CreateRow, CreateAside
      <3>9. QED
        BY <1>4, <3>1, <3>2, <3>3, <3>4, <3>5, <3>6, <3>7, <3>8
    <2>4. QED
      BY <1>1, <2>1, <2>3, MovesRan, RanKept DEF RanInv, SeenRanThisBoot, Alive
  <1>5. QED
    BY <1>2, <1>3, <1>4 DEF ThreadStep, StopStep

LEMMA MonitorStepRan ==
  ASSUME TypeOK, RanInv, MonitorStep
  PROVE  RanInv'
  <1> USE DEF At
  <1>1. thr[Monitor] \in Thread /\ Monitor \in Threads
    BY DEF TypeOK, Threads
  <1>2. ASSUME NEW i \in Instances, RecoverLook(i)
        PROVE  RanInv'
    <2>1. UNCHANGED <<cont, ranThisBoot, mgr>> /\ mgr.life # "down"
      BY <1>1, <1>2 DEF RecoverLook, history, RanInv
    <2>2. seen' \subseteq ranThisBoot
      BY <1>2, <2>1 DEF RecoverLook, RanInv, SeenRanThisBoot, Alive, Up
    <2>3. [thr[Monitor] EXCEPT !.pc = "start.read", !.i = i].pc = "start.read"
      BY <1>1 DEF Thread
    <2>4. MovesAside(Monitor) \/ thr' = thr
      BY <1>1, <1>2, <2>3, MovesAsideIf DEF RecoverLook
    <2>5. QED
      BY <1>1, <2>1, <2>2, <2>4, MovesRan, RanKept DEF RanInv, Alive
  <1>3. ASSUME NEW i \in Instances, Due(i)
        PROVE  RanInv'
    <2>1. UNCHANGED <<cont, ranThisBoot, mgr, seen>> /\ mgr.life # "down"
      BY <1>1, <1>3 DEF Due, history, RanInv
    <2>2. [thr[Monitor] EXCEPT !.pc = "stop.row", !.i = i, !.again = TRUE].pc = "stop.row"
      BY <1>1 DEF Thread
    <2>3. MovesAside(Monitor)
      BY <1>1, <1>3, <2>2, MovesAsideIf DEF Due
    <2>4. QED
      BY <1>1, <2>1, <2>3, MovesRan, RanKept DEF RanInv, SeenRanThisBoot, Alive
  <1>4. CASE RecoverBegin \/ PassEnd
    <2>1. UNCHANGED <<cont, ranThisBoot, mgr, seen>> /\ mgr.life # "down"
      BY <1>1, <1>4 DEF RecoverBegin, PassEnd, history, RanInv
    <2>2. MovesAside(Monitor)
      BY <1>1, <1>4, GotoAside DEF RecoverBegin, PassEnd
    <2>3. QED
      BY <1>1, <2>1, <2>2, MovesRan, RanKept DEF RanInv, SeenRanThisBoot, Alive
  <1>5. CASE ScheduleBegin \/ \E i \in Instances : NotDue(i)
    BY <1>5 DEF ScheduleBegin, NotDue, history, RanInv, SeenRanThisBoot, Alive
  <1>6. QED
    BY <1>2, <1>3, <1>4, <1>5 DEF MonitorStep

LEMMA AdminStepRan ==
  ASSUME TypeOK, RanInv, AdminStep
  PROVE  RanInv'
  <1>1. UNCHANGED <<cont, ranThisBoot, mgr, seen>> /\ mgr.life # "down"
    BY DEF AdminStep, Ask, AskDetach, AskCreate, Rename, history
  <1>2. ASSUME NEW t \in Admins, NEW kind \in Kinds, NEW i \in Instances, Ask(t, kind, i)
        PROVE  MovesAside(t)
    <2> DEFINE after == [Resting(t) EXCEPT !.pc = FirstStep(kind), !.i = i,
                                           !.again = (kind = "restart")]
    <2>1. after.pc # "start.commit"
      BY <1>2 DEF Ask, ServerKinds, FirstStep, Resting
    <2>2. Moves(t, after)
      BY <1>2 DEF Ask
    <2>3. QED
      BY <2>1, <2>2, MovesAsideIf DEF Threads
  <1>3. ASSUME NEW t \in Admins, NEW T \in Templates, AskDetach(t, T)
        PROVE  MovesAside(t)
    <2>1. [Resting(t) EXCEPT !.pc = "detach.row", !.template = T].pc = "detach.row"
      BY DEF Resting
    <2>2. QED
      BY <1>3, <2>1, MovesAsideIf DEF AskDetach, Threads
  <1>0. ASSUME NEW t \in Admins, NEW T \in Templates, AskCreate(t, T)
        PROVE  MovesAside(t)
    <2>1. \A row : [Resting(t) EXCEPT !.pc = "create.row", !.row = row].pc = "create.row"
      BY DEF Resting
    <2>2. QED
      BY <1>0, <2>1, MovesAsideIf DEF AskCreate, Threads
  <1>4. (\E t \in Threads : MovesAside(t)) \/ UNCHANGED thr
    BY <1>0, <1>2, <1>3 DEF AdminStep, Rename, Threads
  <1>5. \A u \in Threads : thr'[u].pc = "start.commit" => thr'[u].i \in ranThisBoot'
    BY <1>1, <1>4, MovesRan DEF RanInv, At
  <1>6. QED
    BY <1>1, <1>5, RanKept DEF RanInv, SeenRanThisBoot, Alive

LEMMA ProcessStepRan ==
  ASSUME TypeOK, RanInv, ProcessStep
  PROVE  RanInv'
  <1> USE DEF At
  <1>1. CASE ShutdownBegin \/ Exit
    BY <1>1 DEF ShutdownBegin, Exit, history, RanInv, SeenRanThisBoot, Alive, Resting, TypeOK
  <1>2. ASSUME NEW i \in Instances, ShutdownStop(i)
        PROVE  RanInv'
    <2>1. \A j \in Instances : Alive(j)' => Alive(j)
      BY <1>2, StoppedAlive DEF ShutdownStop
    <2>2. UNCHANGED <<thr, ranThisBoot, seen>> /\ mgr'.life = mgr.life
      BY <1>2 DEF ShutdownStop, history, TypeOK
    <2>3. QED
      BY <2>1, <2>2, RanKept DEF RanInv, SeenRanThisBoot
  <1>3. ASSUME NEW i \in Instances, ShutdownRemove(i)
        PROVE  RanInv'
    <2>1. \A j \in Instances : Alive(j)' => Alive(j)
      BY <1>3, BecomesAlive DEF ShutdownRemove, NoContainer
    <2>2. UNCHANGED <<ranThisBoot, seen>> /\ mgr'.life = mgr.life /\ mgr.life # "down"
      BY <1>3 DEF ShutdownRemove, ForgottenByShutdown, history, TypeOK
    <2>3. \A u \in Threads : thr'[u].pc = thr[u].pc /\ thr'[u].i = thr[u].i
      BY <1>3 DEF ShutdownRemove, TypeOK, Thread
    <2>4. QED
      BY <2>1, <2>2, <2>3, RanKept DEF RanInv, SeenRanThisBoot
  <1>4. CASE Kill \/ HostReboot
    <2>0. Gone /\ UNCHANGED <<ranThisBoot, seen>>
      BY <1>4, Zenon DEF Kill, HostReboot
    <2>1. mgr'.life = "down"
      BY <2>0 DEF Gone
    <2>2. \A t \in Threads : thr'[t].pc \in {"idle", "sleep"}
      BY <2>0 DEF Gone, Resting
    <2>3. QED
      BY <2>0, <2>1, <2>2 DEF RanInv, SeenRanThisBoot
  <1>5. CASE Boot
    <2>1. /\ mgr.life = "down" /\ UNCHANGED <<thr, cont>>
          /\ seen' = {} /\ ranThisBoot' = {i \in Instances : Alive(i)}
      BY <1>5 DEF Boot
    <2>2. mgr'.life = "up"
      BY <1>5 DEF Boot, TypeOK
    <2>3. QED
      BY <2>1, <2>2 DEF RanInv, SeenRanThisBoot, Alive
  <1>6. QED
    BY <1>1, <1>2, <1>3, <1>4, <1>5 DEF ProcessStep

LEMMA DaemonStepRan ==
  ASSUME TypeOK, RanInv, DaemonStep
  PROVE  RanInv'
  <1>1. ASSUME NEW i \in Instances, ServerExits(i)
        PROVE  RanInv'
    <2>1. \A j \in Instances : Alive(j)' => Alive(j)
      BY <1>1, BecomesAlive DEF ServerExits, Up, Alive
    <2>2. QED
      BY <1>1, <2>1, RanKept DEF ServerExits, history, RanInv, SeenRanThisBoot, At
  <1>2. ASSUME NEW i \in Instances, DockerRestarts(i)
        PROVE  RanInv'
    <2>1. /\ \A j \in Instances : Alive(j)' => Alive(j) \/ j \in ranThisBoot'
          /\ ranThisBoot \subseteq ranThisBoot'
      BY <1>2, ServerRunsAlive DEF DockerRestarts
    <2>2. QED
      BY <1>2, <2>1, RanKept DEF DockerRestarts, RanInv, SeenRanThisBoot, At
  <1>3. QED
    BY <1>1, <1>2 DEF DaemonStep

LEMMA NextRan ==
  ASSUME TypeOK, SoundThreads, RanInv, [Next]_vars
  PROVE  RanInv'
  <1>1. CASE \E t \in Threads : ThreadStep(t)
    BY <1>1, StartStepRan, OtherStepRan
  <1>2. CASE UNCHANGED vars
    BY <1>2 DEF vars, RanInv, SeenRanThisBoot, Alive, At
  <1>3. QED
    BY <1>1, <1>2, MonitorStepRan, AdminStepRan, ProcessStepRan, DaemonStepRan DEF Next

LEMMA InitRan == Init => RanInv
  BY DEF Init, RanInv, SeenRanThisBoot, Alive, NoContainer, At, Resting

\* The memory that makes a dead server a crash never holds a server that did
\* not run under this manager process, on any number of servers, threads and
\* templates and whatever fails, is killed or is rebooted, however often.
THEOREM SeenRan == Spec => []SeenRanThisBoot
  <1>1. Init => TypeOK /\ SoundThreads /\ RanInv
    BY InitType, InitRan
  <1>2. TypeOK /\ SoundThreads /\ RanInv /\ [Next]_vars => (TypeOK /\ SoundThreads /\ RanInv)'
    BY NextType, NextRan
  <1>3. RanInv => SeenRanThisBoot
    BY DEF RanInv
  <1>4. QED
    BY <1>1, <1>2, <1>3, PTL DEF Spec

\* Only the look of a recovery pass sends the monitor into a start from "next".
LEMMA RecoveryStarts ==
  ASSUME TypeOK, [Next]_vars, NEW i \in Instances, At(Monitor, "next"),
         thr'[Monitor].pc = "start.read", thr'[Monitor].i = i
  PROVE  RecoverLook(i) /\ Recovers(i, mon.snap[i])
  <1> USE DEF At
  <1>1. Monitor \in Threads /\ thr[Monitor] \in Thread /\ Monitor \notin Admins
    BY ThreadsAssumption DEF TypeOK, Threads
  <1>2. thr'[Monitor].pc # thr[Monitor].pc
    OBVIOUS
  <1>3. ASSUME NEW j \in Instances, RecoverLook(j)
        PROVE  j = i /\ Recovers(i, mon.snap[i])
    <2>1. Moves(Monitor, [thr[Monitor] EXCEPT !.pc = "start.read", !.i = j]) /\ Recovers(j, mon.snap[j])
      BY <1>2, <1>3 DEF RecoverLook
    <2>2. thr'[Monitor].i = j
      BY <1>1, <2>1 DEF Moves, Thread, TypeOK
    <2>3. QED
      BY <2>1, <2>2
  <1>4. ASSUME NEW j \in Instances, Due(j) \/ NotDue(j)
        PROVE  FALSE
    <2>1. [thr[Monitor] EXCEPT !.pc = "stop.row", !.i = j, !.again = TRUE].pc = "stop.row"
      BY <1>1 DEF Thread
    <2>2. CASE Due(j)
      BY <1>1, <2>1, <2>2 DEF Due, Moves, TypeOK
    <2>3. QED
      BY <1>2, <1>4, <2>2 DEF NotDue
  <1>5. CASE RecoverBegin \/ ScheduleBegin \/ PassEnd
    <2>1. \A pc : [thr[Monitor] EXCEPT !.pc = pc].pc = pc
      BY <1>1 DEF Thread
    <2>2. CASE PassEnd
      BY <1>1, <2>1, <2>2 DEF PassEnd, Goto, Moves, TypeOK
    <2>3. QED
      BY <1>2, <1>5, <2>2 DEF RecoverBegin, ScheduleBegin
  <1>6. ASSUME NEW t \in Threads, ThreadStep(t)
        PROVE  FALSE
    <2>1. thr[t].pc # "next"
      <3>1. CASE StartStep(t)
        BY <3>1 DEF StartStep, StartRead, StartFind, StartRemove, StartWrite, StartCreate,
                    StartRun, StartCommit
      <3>2. CASE StopStep(t) \/ RemoveContainer(t) \/ DeleteRow(t) \/ EditCheck(t) \/ EditRow(t)
        BY <3>2 DEF StopStep, StopRow, Find, StopKill, RemoveContainer, DeleteRow, EditCheck, EditRow
      <3>3. CASE ToggleRow(t) \/ ToggleUpdate(t) \/ DetachRows(t) \/ DetachNext(t) \/ DropTemplate(t)
        BY <3>3 DEF ToggleRow, ToggleUpdate, DetachRows, DetachNext, DropTemplate
      <3>4. CASE EditSwitch(t) \/ CreateRow(t) \/ CreateAside(t)
        BY <3>4 DEF EditSwitch, CreateRow, CreateAside
      <3>5. QED
        BY <1>6, <3>1, <3>2, <3>3, <3>4 DEF ThreadStep
    <2>2. t # Monitor
      BY <2>1
    <2>3. (\E after : Moves(t, after)) \/ (\E j, after : thr' = RemovedBy(t, j, after))
      <3>1. CASE StartStep(t)
        BY <3>1 DEF StartStep, StartRead, StartFind, StartRemove, StartWrite, StartCreate,
                    StartRun, StartCommit, Goto
      <3>2. CASE StopStep(t) \/ RemoveContainer(t) \/ DeleteRow(t) \/ EditCheck(t) \/ EditRow(t)
        BY <3>2 DEF StopStep, StopRow, Find, StopKill, RemoveContainer, DeleteRow, EditCheck,
                    EditRow, Goto
      <3>3. CASE ToggleRow(t) \/ ToggleUpdate(t) \/ DetachRows(t) \/ DetachNext(t) \/ DropTemplate(t)
        BY <3>3 DEF ToggleRow, ToggleUpdate, DetachRows, DetachNext, DropTemplate, Goto
      <3>4. CASE EditSwitch(t) \/ CreateRow(t) \/ CreateAside(t)
        BY <3>4 DEF EditSwitch, CreateRow, CreateAside, Goto
      <3>5. QED
        BY <1>6, <3>1, <3>2, <3>3, <3>4 DEF ThreadStep
    <2>4. thr'[Monitor].pc = thr[Monitor].pc
      BY <1>1, <2>2, <2>3 DEF Moves, RemovedBy, TypeOK, Thread
    <2>5. QED
      BY <1>2, <2>4
  <1>7. CASE AdminStep
    <2>1. ASSUME NEW t \in Admins, NEW after, Moves(t, after)
          PROVE  thr'[Monitor] = thr[Monitor]
      BY <1>1, <2>1 DEF Moves, TypeOK
    <2>2. thr'[Monitor] = thr[Monitor]
      BY <1>7, <2>1 DEF AdminStep, Ask, AskDetach, AskCreate, Rename
    <2>3. QED
      BY <1>2, <2>2
  <1>8. CASE ProcessStep
    <2>1. CASE Kill \/ HostReboot
      <3>1. Gone
        BY <2>1, Zenon DEF Kill, HostReboot
      <3>2. QED
        BY <1>1, <3>1 DEF Gone, Resting
    <2>2. ASSUME NEW j \in Instances, ShutdownRemove(j)
          PROVE  FALSE
      BY <1>1, <1>2, <2>2 DEF ShutdownRemove, TypeOK, Thread
    <2>3. QED
      BY <1>2, <1>8, <2>1, <2>2 DEF ProcessStep, ShutdownBegin, Exit, Boot, ShutdownStop
  <1>9. CASE DaemonStep \/ UNCHANGED vars
    BY <1>2, <1>9 DEF DaemonStep, ServerExits, DockerRestarts, vars
  <1>10. QED
    BY <1>3, <1>4, <1>5, <1>6, <1>7, <1>8, <1>9 DEF Next, MonitorStep

\* A reboot of the host or a restart of the manager is never taken for a crash
\* of a server that is not set to start on boot.
THEOREM RebootNoCrash == Spec => RebootIsNotACrash
  <1>1. Init => TypeOK /\ SoundThreads /\ RanInv
    BY InitType, InitRan
  <1>2. TypeOK /\ SoundThreads /\ RanInv /\ [Next]_vars => (TypeOK /\ SoundThreads /\ RanInv)'
    BY NextType, NextRan
  <1>3. TypeOK /\ RanInv /\ [Next]_vars => [\A i \in Instances : TakenForACrash(i) => i \in ranThisBoot]_vars
    <2>1. SUFFICES ASSUME TypeOK, RanInv, [Next]_vars, NEW i \in Instances, TakenForACrash(i)
                   PROVE  i \in ranThisBoot
      OBVIOUS
    <2>2. Recovers(i, mon.snap[i])
      BY <2>1, RecoveryStarts DEF TakenForACrash
    <2>3. QED
      BY <2>1, <2>2 DEF TakenForACrash, Recovers, RanInv, SeenRanThisBoot
  <1>4. QED
    BY <1>1, <1>2, <1>3, PTL DEF Spec, RebootIsNotACrash


-----------------------------------------------------------------------------
(* A row and its container agree once nobody works on them.  What makes    *)
(* that inductive, first for the threads on their own: only a deletion of  *)
(* a template has a template and a list of servers to stop, and only while *)
(* it stops them, and a row to be created is one that exists.              *)

Detaching == {"detach.row", "detach.next", "detach.drop", "stop.row", "stop.find", "stop.kill"}

Orderly(t, r) ==
  /\ r.template # NoTemplate => r.pc \in Detaching /\ ~r.again /\ t # Monitor
  /\ r.template = NoTemplate \/ r.pc \in {"detach.row", "detach.drop"} => r.todo = {}
  /\ r.pc = "create.row" => r.row.exists
  /\ r.pc = "detach.row" => r.template # NoTemplate

OrderlyThreads == \A t \in Threads : Orderly(t, thr[t])

LEMMA MovesOrderly ==
  ASSUME TypeOK, OrderlyThreads, NEW t \in Threads, NEW after, Orderly(t, after), Moves(t, after)
  PROVE  OrderlyThreads'
  BY DEF TypeOK, OrderlyThreads, Moves

LEMMA RemovedByOrderly ==
  ASSUME TypeOK, OrderlyThreads, NEW t \in Threads, NEW i, NEW after, Orderly(t, after),
         thr' = RemovedBy(t, i, after)
  PROVE  OrderlyThreads'
  <1>1. \A u \in Threads \ {t} : Orderly(u, [thr[u] EXCEPT !.held = "dead"])
    BY DEF TypeOK, Thread, OrderlyThreads, Orderly
  <1>2. QED
    BY <1>1 DEF OrderlyThreads, RemovedBy

LEMMA EndsOrderly ==
  ASSUME TypeOK, OrderlyThreads, NEW t \in Threads
  PROVE  Orderly(t, Resting(t)) /\ Orderly(t, Failed(t)) /\ Orderly(t, Finished(t))
  <1>1. Orderly(t, Resting(t)) /\ Orderly(t, Failed(t))
    BY DEF Resting, Failed, Orderly
  <1>2. Orderly(t, Finished(t))
    BY DEF Resting, Finished, Orderly, OrderlyThreads, Detaching
  <1>3. QED
    BY <1>1, <1>2

\* A thread without a template may go anywhere but to a first step.
LEMMA GoesOnOrderly ==
  ASSUME TypeOK, OrderlyThreads, NEW t \in Threads, thr[t].pc \notin Detaching
  PROVE  \A pc \in Labels \ {"create.row", "detach.row"} :
           /\ Orderly(t, [thr[t] EXCEPT !.pc = pc])
           /\ \A row : Orderly(t, [thr[t] EXCEPT !.pc = pc, !.row = row])
           /\ Orderly(t, [thr[t] EXCEPT !.pc = pc, !.held = "live"])
           /\ Orderly(t, [thr[t] EXCEPT !.pc = pc, !.held = "none"])
  BY DEF TypeOK, Thread, OrderlyThreads, Orderly

LEMMA StartStepOrderly ==
  ASSUME TypeOK, OrderlyThreads, NEW t \in Threads, StartStep(t)
  PROVE  OrderlyThreads'
  <1> USE DEF At, Goto
  <1>1. thr[t].pc \notin Detaching /\ StartWindow \subseteq Labels \ {"create.row", "detach.row"}
    BY DEF StartStep, StartRead, StartFind, StartRemove, StartWrite, StartCreate, StartRun,
           StartCommit, Detaching, StartWindow, Labels
  <1>2. \A pc \in StartWindow :
           /\ Orderly(t, [thr[t] EXCEPT !.pc = pc])
           /\ \A row : Orderly(t, [thr[t] EXCEPT !.pc = pc, !.row = row])
           /\ Orderly(t, [thr[t] EXCEPT !.pc = pc, !.held = "live"])
           /\ Orderly(t, [thr[t] EXCEPT !.pc = pc, !.held = "none"])
    BY <1>1, GoesOnOrderly
  <1>3. CASE StartRead(t) \/ StartFind(t) \/ StartWrite(t)
    BY <1>2, <1>3, EndsOrderly, MovesOrderly DEF StartRead, StartFind, StartWrite, StartWindow
  <1>4. CASE StartRemove(t)
    BY <1>2, <1>4, MovesOrderly, RemovedByOrderly DEF StartRemove, StartWindow
  <1>5. CASE StartCreate(t) \/ StartRun(t) \/ StartCommit(t)
    BY <1>2, <1>5, EndsOrderly, MovesOrderly DEF StartCreate, StartRun, StartCommit, StartWindow
  <1>6. QED
    BY <1>3, <1>4, <1>5 DEF StartStep

LEMMA OtherStepOrderly ==
  ASSUME TypeOK, OrderlyThreads, NEW t \in Threads, ThreadStep(t), ~StartStep(t)
  PROVE  OrderlyThreads'
  <1> USE DEF At, Goto
  <1>1. thr[t] \in Thread /\ Orderly(t, thr[t])
    BY DEF TypeOK, OrderlyThreads
  <1>2. CASE StopRow(t)
    <2>1. Orderly(t, [thr[t] EXCEPT !.pc = "stop.find"])
      BY <1>1, <1>2 DEF StopRow, Orderly, Thread, Detaching
    <2>2. QED
      BY <1>2, <2>1, EndsOrderly, MovesOrderly DEF StopRow
  <1>3. CASE Find(t)
    <2>1. Orderly(t, [thr[t] EXCEPT !.pc = Acting(thr[t].pc), !.held = "live"])
      BY <1>1, <1>3 DEF Find, Acting, Orderly, Thread, Detaching
    <2>2. Orderly(t, Without(t))
      <3>1. CASE thr[t].pc = "stop.find" /\ thr[t].again
        BY <1>1, <3>1 DEF Without, Orderly, Thread, Detaching
      <3>2. CASE thr[t].pc = "delete.find"
        BY <1>1, <3>2 DEF Without, Orderly, Thread, Detaching
      <3>3. QED
        BY <1>3, <3>1, <3>2, EndsOrderly DEF Find, Without
    <2>3. QED
      BY <1>3, <2>1, <2>2, MovesOrderly DEF Find
  <1>4. CASE StopKill(t)
    <2>1. ASSUME thr[t].again
          PROVE  Orderly(t, [thr[t] EXCEPT !.pc = "start.read", !.again = FALSE, !.held = "none"])
      BY <1>1, <2>1 DEF Orderly, Thread, Detaching
    <2>2. QED
      BY <1>4, <2>1, EndsOrderly, MovesOrderly DEF StopKill
  <1>5. CASE RemoveContainer(t)
    <2>1. Orderly(t, AfterRemove(t))
      BY <1>1, <1>5, EndsOrderly, GoesOnOrderly DEF RemoveContainer, AfterRemove, Detaching, Labels
    <2>2. QED
      BY <1>5, <2>1, MovesOrderly, RemovedByOrderly DEF RemoveContainer
  <1>6. CASE DeleteRow(t) \/ ToggleUpdate(t) \/ DropTemplate(t) \/ CreateAside(t)
    BY <1>6, EndsOrderly, MovesOrderly DEF DeleteRow, ToggleUpdate, DropTemplate, CreateAside
  <1>7. CASE EditCheck(t) \/ EditRow(t) \/ EditSwitch(t) \/ ToggleRow(t)
    <2>1. /\ thr[t].pc \notin Detaching
          /\ {"edit.row", "edit.find", "edit.switch", "toggle.update"} \subseteq Labels \ {"create.row", "detach.row"}
      BY <1>7 DEF EditCheck, EditRow, EditSwitch, ToggleRow, Detaching, Labels
    <2>2. \A pc \in {"edit.row", "edit.find", "edit.switch", "toggle.update"} :
            /\ Orderly(t, [thr[t] EXCEPT !.pc = pc])
            /\ \A row : Orderly(t, [thr[t] EXCEPT !.pc = pc, !.row = row])
      BY <2>1, GoesOnOrderly
    <2>3. QED
      BY <1>7, <2>2, EndsOrderly, MovesOrderly DEF EditCheck, EditRow, EditSwitch, ToggleRow
  <1>8. CASE CreateRow(t)
    <2>1. \A i : Orderly(t, [Resting(t) EXCEPT !.pc = "create.aside", !.i = i])
      BY DEF Resting, Orderly
    <2>2. QED
      BY <1>8, <2>1, EndsOrderly, MovesOrderly DEF CreateRow
  <1>9. CASE DetachRows(t)
    <2>1. Orderly(t, [thr[t] EXCEPT !.pc = "detach.next", !.todo = On(thr[t].template)])
      BY <1>1, <1>9 DEF DetachRows, Orderly, Thread, Detaching
    <2>2. QED
      BY <1>9, <2>1, MovesOrderly DEF DetachRows
  <1>10. CASE DetachNext(t)
    <2>1. \A i \in thr[t].todo :
            /\ Orderly(t, [thr[t] EXCEPT !.pc = "stop.row", !.i = i, !.todo = @ \ {i}])
            /\ Orderly(t, [thr[t] EXCEPT !.todo = @ \ {i}])
      BY <1>1, <1>10 DEF DetachNext, Orderly, Thread, Detaching
    <2>2. thr[t].todo = {} => Orderly(t, [thr[t] EXCEPT !.pc = "detach.drop"])
      BY <1>1, <1>10 DEF DetachNext, Orderly, Thread, Detaching
    <2>3. QED
      BY <1>10, <2>1, <2>2, MovesOrderly DEF DetachNext
  <1>11. QED
    BY <1>2, <1>3, <1>4, <1>5, <1>6, <1>7, <1>8, <1>9, <1>10 DEF ThreadStep, StopStep

LEMMA NextOrderly ==
  ASSUME TypeOK, OrderlyThreads, [Next]_vars
  PROVE  OrderlyThreads'
  <1> USE DEF At, Goto
  <1>1. Monitor \in Threads /\ Monitor \notin Admins /\ Admins \subseteq Threads
    BY ThreadsAssumption DEF Threads
  <1>2. CASE \E t \in Threads : ThreadStep(t)
    BY <1>2, StartStepOrderly, OtherStepOrderly
  <1>3. CASE MonitorStep
    <2>1. thr[Monitor] \in Thread /\ Orderly(Monitor, thr[Monitor])
      BY <1>1 DEF TypeOK, OrderlyThreads
    <2>2. ASSUME thr[Monitor].pc \in {"sleep", "next"}
          PROVE  /\ \A pc \in {"sleep", "next"} : Orderly(Monitor, [thr[Monitor] EXCEPT !.pc = pc])
                 /\ \A i : /\ Orderly(Monitor, [thr[Monitor] EXCEPT !.pc = "start.read", !.i = i])
                          /\ Orderly(Monitor, [thr[Monitor] EXCEPT !.pc = "stop.row", !.i = i, !.again = TRUE])
      BY <2>1, <2>2 DEF Orderly, Thread, Detaching
    <2>3. (\E after : Orderly(Monitor, after) /\ Moves(Monitor, after)) \/ thr' = thr
      <3>1. CASE RecoverBegin \/ ScheduleBegin \/ PassEnd
        BY <2>2, <3>1 DEF RecoverBegin, ScheduleBegin, PassEnd
      <3>2. ASSUME NEW i \in Instances, RecoverLook(i) \/ NotDue(i) \/ Due(i)
            PROVE  (\E after : Orderly(Monitor, after) /\ Moves(Monitor, after)) \/ thr' = thr
        BY <2>2, <3>2 DEF RecoverLook, NotDue, Due
      <3>3. QED
        BY <1>3, <3>1, <3>2 DEF MonitorStep
    <2>4. QED
      BY <1>1, <2>3, MovesOrderly DEF OrderlyThreads
  <1>4. CASE AdminStep
    <2>1. \A t \in Threads : \A pc \in Labels \ {"create.row", "detach.row"} : \A i, again :
            Orderly(t, [Resting(t) EXCEPT !.pc = pc, !.i = i, !.again = again])
      BY DEF Resting, Orderly
    <2>2. ASSUME NEW kind \in ServerKinds
          PROVE  FirstStep(kind) \in Labels \ {"create.row", "detach.row"}
      BY <2>2 DEF ServerKinds, FirstStep, Labels
    <2>3. ASSUME NEW t \in Admins, NEW T \in Templates
          PROVE  /\ Orderly(t, [Resting(t) EXCEPT !.pc = "detach.row", !.template = T])
                 /\ Orderly(t, [Resting(t) EXCEPT !.pc = "create.row",
                                     !.row = [Blank EXCEPT !.exists = TRUE, !.template = T]])
      BY <1>1, ThreadsAssumption DEF Resting, Orderly, Blank, Detaching
    <2>4. ASSUME NEW t \in Admins, NEW kind \in Kinds, NEW i \in Instances, Ask(t, kind, i)
          PROVE  OrderlyThreads'
      BY <1>1, <2>1, <2>2, <2>4, MovesOrderly DEF Ask
    <2>5. ASSUME NEW t \in Admins, NEW T \in Templates, AskDetach(t, T) \/ AskCreate(t, T)
          PROVE  OrderlyThreads'
      BY <1>1, <2>3, <2>5, MovesOrderly DEF AskDetach, AskCreate
    <2>6. QED
      BY <1>4, <2>4, <2>5 DEF AdminStep, Rename, OrderlyThreads
  <1>5. CASE ProcessStep
    <2>1. CASE Kill \/ HostReboot
      <3>1. Gone
        BY <2>1, Zenon DEF Kill, HostReboot
      <3>2. QED
        BY <3>1, EndsOrderly DEF Gone, OrderlyThreads
    <2>2. ASSUME NEW i \in Instances, ShutdownRemove(i)
          PROVE  OrderlyThreads'
      <3>1. \A t \in Threads : Orderly(t, [thr[t] EXCEPT !.held = "dead"])
        BY DEF TypeOK, Thread, OrderlyThreads, Orderly
      <3>2. QED
        BY <2>2, <3>1 DEF ShutdownRemove, OrderlyThreads
    <2>3. QED
      BY <1>5, <2>1, <2>2 DEF ProcessStep, ShutdownBegin, Exit, Boot, ShutdownStop, OrderlyThreads
  <1>6. CASE DaemonStep \/ UNCHANGED vars
    BY <1>6 DEF DaemonStep, ServerExits, DockerRestarts, vars, OrderlyThreads
  <1>7. QED
    BY <1>2, <1>3, <1>4, <1>5, <1>6 DEF Next

\* A live handle is on a container that is there, and in the steps of a start
\* that write its configuration and run it, on one with the template it read.
Handling == {"start.remove", "start.write", "start.run", "start.commit",
             "stop.kill", "delete.remove", "edit.remove"}

Handle(t) ==
  /\ thr[t].held # "none" => thr[t].pc \in Handling
  /\ thr[t].held = "live" =>
       /\ cont[thr[t].i].status # "absent"
       /\ thr[t].pc \in {"start.write", "start.run"} => cont[thr[t].i].template = thr[t].row.template

Handles == \A t \in Threads : Handle(t)

\* No container goes, or is made anew.
ContainersStay ==
  \A i \in Instances : cont[i].status # "absent" => /\ cont'[i].status # "absent"
                                                    /\ cont'[i].template = cont[i].template

LEMMA BecomesStays ==
  ASSUME TypeOK, NEW i \in Instances, NEW c, Becomes(i, c),
         cont[i].status # "absent" => c.status # "absent" /\ c.template = cont[i].template
  PROVE  ContainersStay
  BY DEF TypeOK, Becomes, ContainersStay

LEMMA StoppedStays ==
  ASSUME TypeOK, NEW i \in Instances, Stopped(i)
  PROVE  ContainersStay
  <1>1. /\ [cont[i] EXCEPT !.status = "exited"].status = "exited"
        /\ [cont[i] EXCEPT !.status = "exited"].template = cont[i].template
    BY DEF TypeOK, Container
  <1>2. QED
    BY <1>1, BecomesStays DEF Stopped

LEMMA ServerRunsStays ==
  ASSUME TypeOK, NEW i \in Instances, ServerRuns(i)
  PROVE  ContainersStay
  <1> DEFINE c == [cont[i] EXCEPT !.status = "running", !.runs = conf[i]]
  <1>1. c.status = "running" /\ c.template = cont[i].template
    BY DEF TypeOK, Container
  <1>2. Becomes(i, c)
    BY DEF ServerRuns
  <1> HIDE DEF c
  <1>3. QED
    BY <1>1, <1>2, BecomesStays

LEMMA MovesHandles ==
  ASSUME TypeOK, SoundThreads, Handles, ContainersStay, NEW t \in Threads, NEW after,
         Moves(t, after), Handle(t)'
  PROVE  Handles'
  <1> SUFFICES ASSUME NEW u \in Threads, u # t
               PROVE  Handle(u)'
    BY DEF Handles
  <1>1. thr'[u] = thr[u] /\ Handle(u) /\ Sound(thr[u])
    BY DEF Moves, TypeOK, Handles, SoundThreads
  <1>2. thr[u].held = "live" => thr[u].i \in Instances
    BY <1>1 DEF Handle, Handling, Sound, Unplaced
  <1>3. QED
    BY <1>1, <1>2 DEF Handle, ContainersStay

LEMMA UnheldHandles ==
  ASSUME TypeOK, SoundThreads, Handles, ContainersStay, NEW t \in Threads, NEW after,
         Moves(t, after), after.held = "none"
  PROVE  Handles'
  <1>1. Handle(t)'
    BY DEF Moves, TypeOK, Handle
  <1>2. QED
    BY <1>1, MovesHandles

\* A container goes with every handle on it.
LEMMA RemovedByHandles ==
  ASSUME TypeOK, SoundThreads, Handles, NEW t \in Threads, NEW i \in Instances, NEW c, Becomes(i, c),
         NEW after, after.held = "none", thr' = RemovedBy(t, i, after)
  PROVE  Handles'
  <1> SUFFICES ASSUME NEW u \in Threads
               PROVE  Handle(u)'
    BY DEF Handles
  <1>1. Handle(u) /\ Sound(thr[u]) /\ thr[u] \in Thread
    BY DEF TypeOK, Handles, SoundThreads
  <1>2. CASE u = t
    BY <1>2 DEF RemovedBy, Handle
  <1>3. CASE u # t /\ thr[u].i = i /\ thr[u].held = "live"
    <2>1. thr'[u] = [thr[u] EXCEPT !.held = "dead"]
      BY <1>3 DEF RemovedBy
    <2>2. thr'[u].held = "dead" /\ thr'[u].pc = thr[u].pc
      BY <1>1, <2>1 DEF Thread
    <2>3. QED
      BY <1>1, <1>3, <2>2 DEF Handle
  <1>4. CASE u # t /\ ~(thr[u].i = i /\ thr[u].held = "live")
    <2>1. thr'[u] = thr[u] /\ (thr[u].held = "live" => thr[u].i # i)
      BY <1>4 DEF RemovedBy
    <2>2. thr[u].held = "live" => cont'[thr[u].i] = cont[thr[u].i]
      BY <1>1, <2>1 DEF Becomes, TypeOK, Handle, Handling, Sound, Unplaced
    <2>3. QED
      BY <1>1, <2>1, <2>2 DEF Handle
  <1>5. QED
    BY <1>2, <1>3, <1>4

LEMMA EndsUnheld ==
  ASSUME NEW t \in Threads
  PROVE  Resting(t).held = "none" /\ Failed(t).held = "none" /\ Finished(t).held = "none"
  BY DEF Resting, Failed, Finished

LEMMA StartStepHandles ==
  ASSUME TypeOK, SoundThreads, Handles, NEW t \in Threads, StartStep(t)
  PROVE  Handles'
  <1> USE DEF At, Goto
  <1>1. thr[t] \in Thread /\ Handle(t)
    BY DEF TypeOK, Handles
  <1>2. thr[t].i \in Instances
    BY DEF SoundThreads, Sound, Unplaced, StartStep, StartRead, StartFind, StartRemove, StartWrite,
           StartCreate, StartRun, StartCommit
  <1>3. CASE StartRead(t)
    <2>1. \A pc, row : [thr[t] EXCEPT !.pc = pc, !.row = row].held = "none"
      BY <1>1, <1>3 DEF StartRead, Handle, Handling, Thread
    <2>2. ContainersStay
      BY <1>3 DEF StartRead, ContainersStay
    <2>3. QED
      BY <1>3, <2>1, <2>2, EndsUnheld, UnheldHandles DEF StartRead
  <1>4. CASE StartFind(t)
    <2>0. ContainersStay /\ cont' = cont
      BY <1>4 DEF StartFind, ContainersStay
    <2>1. CASE Moves(t, [thr[t] EXCEPT !.pc = "start.write"])
      <3>1. [thr[t] EXCEPT !.pc = "start.write"].held = "none"
        BY <1>1, <1>4 DEF StartFind, Handle, Handling, Thread
      <3>2. QED
        BY <2>0, <2>1, <3>1, UnheldHandles
    <2>2. CASE /\ cont[thr[t].i].status # "absent"
               /\ Moves(t, [thr[t] EXCEPT !.pc = IF Matches(cont[thr[t].i], thr[t].row)
                                                 THEN "start.write" ELSE "start.remove",
                                          !.held = "live"])
      <3>1. /\ thr'[t].i = thr[t].i /\ thr'[t].row = thr[t].row /\ thr'[t].held = "live"
            /\ thr'[t].pc = IF Matches(cont[thr[t].i], thr[t].row) THEN "start.write" ELSE "start.remove"
        BY <1>1, <2>2 DEF Moves, TypeOK, Thread
      <3>2. Handle(t)'
        BY <2>0, <2>2, <3>1 DEF Handle, Handling, Matches
      <3>3. QED
        BY <2>0, <2>2, <3>2, MovesHandles
    <2>3. QED
      BY <1>4, <2>1, <2>2 DEF StartFind
  <1>5. CASE StartRemove(t)
    <2> DEFINE after == [thr[t] EXCEPT !.pc = "start.write", !.held = "none"]
    <2>1. after.held = "none"
      BY <1>1 DEF Thread
    <2>2. \/ Becomes(thr[t].i, NoContainer) /\ thr' = RemovedBy(t, thr[t].i, after)
          \/ Moves(t, after) /\ cont' = cont
      BY <1>5 DEF StartRemove
    <2> HIDE DEF after
    <2>3. cont' = cont => ContainersStay
      BY DEF ContainersStay
    <2>4. QED
      BY <1>2, <2>1, <2>2, <2>3, RemovedByHandles, UnheldHandles
  <1>6. CASE StartWrite(t)
    <2>1. ContainersStay /\ cont' = cont
      BY <1>6 DEF StartWrite, ContainersStay
    <2>2. /\ thr'[t].i = thr[t].i /\ thr'[t].row = thr[t].row /\ thr'[t].held = thr[t].held
          /\ thr'[t].pc = IF thr[t].held = "none" THEN "start.create" ELSE "start.run"
      BY <1>1, <1>6 DEF StartWrite, Moves, TypeOK, Thread
    <2>3. Handle(t)'
      BY <1>1, <1>6, <2>1, <2>2 DEF StartWrite, Handle, Handling
    <2>4. QED
      BY <1>6, <2>1, <2>3, MovesHandles DEF StartWrite
  <1>7. CASE StartCreate(t)
    <2> DEFINE row == thr[t].row
               c == [status |-> "created", template |-> row.template, face |-> row.face,
                     policy |-> PolicyOf(row), runs |-> NoTemplate]
               after == [thr[t] EXCEPT !.pc = "start.run", !.held = "live"]
    <2>1. CASE cont[thr[t].i].status = "absent" /\ Becomes(thr[t].i, c) /\ Moves(t, after)
      <3>1. ContainersStay
        BY <1>2, <2>1, BecomesStays
      <3>2. /\ thr'[t].i = thr[t].i /\ thr'[t].row = row
            /\ thr'[t].held = "live" /\ thr'[t].pc = "start.run"
        BY <1>1, <2>1 DEF Moves, TypeOK, Thread
      <3>3. cont'[thr[t].i].status = "created" /\ cont'[thr[t].i].template = row.template
        BY <1>2, <2>1 DEF Becomes, TypeOK
      <3> HIDE DEF c, after, row
      <3>4. Handle(t)'
        BY <3>2, <3>3 DEF Handle, Handling
      <3>5. QED
        BY <2>1, <3>1, <3>4, MovesHandles
    <2>2. CASE Moves(t, Failed(t)) /\ UNCHANGED cont
      BY <2>2, EndsUnheld, UnheldHandles DEF ContainersStay
    <2>3. QED
      BY <1>7, <2>1, <2>2 DEF StartCreate
  <1>8. CASE StartRun(t)
    <2>1. ContainersStay
      BY <1>2, <1>8, ServerRunsStays DEF StartRun, ContainersStay
    <2>2. CASE thr[t].held = "live" /\ Moves(t, [thr[t] EXCEPT !.pc = "start.commit"])
      <3>1. thr'[t].i = thr[t].i /\ thr'[t].held = "live" /\ thr'[t].pc = "start.commit"
        BY <1>1, <2>2 DEF Moves, TypeOK, Thread
      <3>2. Handle(t)'
        BY <1>1, <1>2, <2>1, <2>2, <3>1 DEF Handle, Handling, ContainersStay
      <3>3. QED
        BY <2>1, <2>2, <3>2, MovesHandles
    <2>3. QED
      BY <1>8, <2>1, <2>2, EndsUnheld, UnheldHandles DEF StartRun
  <1>9. CASE StartCommit(t)
    BY <1>9, EndsUnheld, UnheldHandles DEF StartCommit, ContainersStay
  <1>10. QED
    BY <1>3, <1>4, <1>5, <1>6, <1>7, <1>8, <1>9 DEF StartStep

\* The other steps leave the thread without a handle, but for a lookup's.
LEMMA OtherStepHandles ==
  ASSUME TypeOK, SoundThreads, Handles, NEW t \in Threads, ThreadStep(t), ~StartStep(t)
  PROVE  Handles'
  <1> USE DEF At, Goto
  <1>1. thr[t] \in Thread /\ Handle(t)
    BY DEF TypeOK, Handles
  <1>2. CASE Find(t)
    <2>1. ContainersStay /\ cont' = cont
      BY <1>2 DEF Find, ContainersStay
    <2>2. Without(t).held = "none"
      BY <1>1, <1>2, EndsUnheld DEF Find, Without, Handle, Handling, Thread
    <2>3. CASE /\ cont[thr[t].i].status # "absent"
               /\ Moves(t, [thr[t] EXCEPT !.pc = Acting(thr[t].pc), !.held = "live"])
      <3>1. thr'[t].i = thr[t].i /\ thr'[t].held = "live" /\ thr'[t].pc = Acting(thr[t].pc)
        BY <1>1, <2>3 DEF Moves, TypeOK, Thread
      <3>2. Handle(t)'
        BY <1>2, <2>1, <2>3, <3>1 DEF Find, Acting, Handle, Handling
      <3>3. QED
        BY <2>1, <2>3, <3>2, MovesHandles
    <2>4. QED
      BY <1>2, <2>1, <2>2, <2>3, UnheldHandles DEF Find
  <1>3. CASE RemoveContainer(t)
    <2>1. thr[t].i \in Instances /\ AfterRemove(t).held = "none"
      BY <1>1, <1>3, EndsUnheld DEF RemoveContainer, AfterRemove, SoundThreads, Sound, Unplaced, Thread
    <2>2. \/ Becomes(thr[t].i, NoContainer) /\ thr' = RemovedBy(t, thr[t].i, AfterRemove(t))
          \/ Moves(t, AfterRemove(t)) /\ cont' = cont
      BY <1>3 DEF RemoveContainer
    <2>3. cont' = cont => ContainersStay
      BY DEF ContainersStay
    <2>4. QED
      BY <2>1, <2>2, <2>3, RemovedByHandles, UnheldHandles
  <1>4. CASE StopKill(t) \/ ToggleUpdate(t)
    <2>1. thr[t].i \in Instances
      BY <1>4 DEF StopKill, ToggleUpdate, SoundThreads, Sound, Unplaced
    <2>2. ContainersStay
      <3>1. \/ UNCHANGED cont \/ Stopped(thr[t].i)
            \/ Becomes(thr[t].i, [cont[thr[t].i] EXCEPT !.policy = PolicyOf(thr[t].row)])
        BY <1>4 DEF StopKill, ToggleUpdate
      <3>2. /\ [cont[thr[t].i] EXCEPT !.policy = PolicyOf(thr[t].row)].status = cont[thr[t].i].status
            /\ [cont[thr[t].i] EXCEPT !.policy = PolicyOf(thr[t].row)].template = cont[thr[t].i].template
        BY <2>1 DEF TypeOK, Container
      <3>3. QED
        BY <2>1, <3>1, <3>2, StoppedStays, BecomesStays DEF ContainersStay
    <2>3. [thr[t] EXCEPT !.pc = "start.read", !.again = FALSE, !.held = "none"].held = "none"
      BY <1>1 DEF Thread
    <2>4. QED
      BY <1>4, <2>2, <2>3, EndsUnheld, UnheldHandles DEF StopKill, ToggleUpdate
  <1>5. ASSUME StopRow(t) \/ DeleteRow(t) \/ EditCheck(t) \/ EditRow(t) \/ EditSwitch(t)
               \/ ToggleRow(t) \/ CreateRow(t) \/ CreateAside(t)
               \/ DetachRows(t) \/ DetachNext(t) \/ DropTemplate(t)
        PROVE  Handles'
    <2>1. ContainersStay /\ thr[t].held = "none"
      <3>1. CASE StopRow(t) \/ DeleteRow(t) \/ EditCheck(t) \/ EditRow(t) \/ EditSwitch(t)
        BY <1>1, <3>1 DEF StopRow, DeleteRow, EditCheck, EditRow, EditSwitch, Handle, Handling, ContainersStay
      <3>2. CASE ToggleRow(t) \/ CreateRow(t) \/ CreateAside(t)
        BY <1>1, <3>2 DEF ToggleRow, CreateRow, CreateAside, Handle, Handling, ContainersStay
      <3>3. CASE DetachRows(t) \/ DetachNext(t) \/ DropTemplate(t)
        BY <1>1, <3>3 DEF DetachRows, DetachNext, DropTemplate, Handle, Handling, ContainersStay
      <3>4. QED
        BY <1>5, <3>1, <3>2, <3>3
    <2>2. /\ \A pc : [thr[t] EXCEPT !.pc = pc].held = "none"
          /\ \A pc, row : [thr[t] EXCEPT !.pc = pc, !.row = row].held = "none"
          /\ \A pc, todo : [thr[t] EXCEPT !.pc = pc, !.todo = todo].held = "none"
          /\ \A i : /\ [thr[t] EXCEPT !.pc = "stop.row", !.i = i, !.todo = @ \ {i}].held = "none"
                    /\ [thr[t] EXCEPT !.todo = @ \ {i}].held = "none"
                    /\ [Resting(t) EXCEPT !.pc = "create.aside", !.i = i].held = "none"
      BY <1>1, <2>1 DEF Thread, Resting
    <2>3. CASE StopRow(t) \/ DeleteRow(t) \/ EditCheck(t) \/ EditRow(t) \/ EditSwitch(t)
      BY <2>1, <2>2, <2>3, EndsUnheld, UnheldHandles DEF StopRow, DeleteRow, EditCheck, EditRow, EditSwitch
    <2>4. CASE ToggleRow(t) \/ CreateRow(t) \/ CreateAside(t)
      BY <2>1, <2>2, <2>4, EndsUnheld, UnheldHandles DEF ToggleRow, CreateRow, CreateAside
    <2>5. CASE DetachRows(t) \/ DetachNext(t) \/ DropTemplate(t)
      BY <2>1, <2>2, <2>5, EndsUnheld, UnheldHandles DEF DetachRows, DetachNext, DropTemplate
    <2>6. QED
      BY <1>5, <2>3, <2>4, <2>5
  <1>6. QED
    BY <1>2, <1>3, <1>4, <1>5 DEF ThreadStep, StopStep

LEMMA NextHandles ==
  ASSUME TypeOK, SoundThreads, Handles, [Next]_vars
  PROVE  Handles'
  <1> USE DEF At, Goto
  <1>1. Monitor \in Threads /\ Admins \subseteq Threads
    BY DEF Threads
  <1>2. CASE \E t \in Threads : ThreadStep(t)
    BY <1>2, StartStepHandles, OtherStepHandles
  <1>3. ASSUME ContainersStay, UNCHANGED thr
        PROVE  Handles'
    <2>1. \A u \in Threads : thr[u].held = "live" => thr[u].i \in Instances
      BY DEF Handles, Handle, Handling, SoundThreads, Sound, Unplaced
    <2>2. QED
      BY <1>3, <2>1 DEF Handles, Handle, ContainersStay
  <1>4. CASE MonitorStep
    <2>1. thr[Monitor] \in Thread /\ Handle(Monitor) /\ ContainersStay
      BY <1>1, <1>4 DEF TypeOK, Handles, ContainersStay, MonitorStep, RecoverBegin, ScheduleBegin,
                        PassEnd, RecoverLook, NotDue, Due, history
    <2>2. ASSUME thr[Monitor].pc \in {"sleep", "next"}
          PROVE  /\ \A pc : [thr[Monitor] EXCEPT !.pc = pc].held = "none"
                 /\ \A pc, i : [thr[Monitor] EXCEPT !.pc = pc, !.i = i].held = "none"
                 /\ \A i : [thr[Monitor] EXCEPT !.pc = "stop.row", !.i = i, !.again = TRUE].held = "none"
      BY <2>1, <2>2 DEF Handle, Handling, Thread
    <2>3. CASE RecoverBegin \/ ScheduleBegin \/ PassEnd
      BY <1>1, <1>3, <2>1, <2>2, <2>3, UnheldHandles DEF RecoverBegin, ScheduleBegin, PassEnd
    <2>4. ASSUME NEW i \in Instances, RecoverLook(i) \/ NotDue(i) \/ Due(i)
          PROVE  Handles'
      BY <1>1, <1>3, <2>1, <2>2, <2>4, UnheldHandles DEF RecoverLook, NotDue, Due
    <2>5. QED
      BY <1>4, <2>3, <2>4 DEF MonitorStep
  <1>5. CASE AdminStep
    <2>1. ContainersStay
      BY <1>5 DEF ContainersStay, AdminStep, Ask, AskDetach, AskCreate, Rename
    <2>2. ASSUME NEW t \in Admins
          PROVE  /\ \A pc, T : [Resting(t) EXCEPT !.pc = pc, !.template = T].held = "none"
                 /\ \A pc, row : [Resting(t) EXCEPT !.pc = pc, !.row = row].held = "none"
      BY DEF Resting
    <2>3. ASSUME NEW t \in Admins, NEW kind \in Kinds, NEW i \in Instances, Ask(t, kind, i)
          PROVE  Handles'
      <3> DEFINE after == [Resting(t) EXCEPT !.pc = FirstStep(kind), !.i = i,
                                             !.again = (kind = "restart")]
      <3>1. Moves(t, after) /\ after.held = "none"
        BY <2>3 DEF Ask, Resting
      <3> HIDE DEF after
      <3>2. QED
        BY <1>1, <2>1, <3>1, UnheldHandles
    <2>4. ASSUME NEW t \in Admins, NEW T \in Templates, AskDetach(t, T) \/ AskCreate(t, T)
          PROVE  Handles'
      BY <1>1, <2>1, <2>2, <2>4, UnheldHandles DEF AskDetach, AskCreate
    <2>5. QED
      BY <1>3, <1>5, <2>1, <2>3, <2>4 DEF AdminStep, Rename
  <1>6. CASE ProcessStep
    <2>1. CASE Kill \/ HostReboot
      <3>1. Gone
        BY <2>1, Zenon DEF Kill, HostReboot
      <3>2. QED
        BY <3>1, EndsUnheld DEF Gone, Handles, Handle
    <2>2. ASSUME NEW i \in Instances, ShutdownRemove(i)
          PROVE  Handles'
      <3>1. ASSUME NEW u \in Threads
            PROVE  Handle(u)'
        <4>1. Handle(u) /\ Sound(thr[u]) /\ thr[u] \in Thread
          BY DEF TypeOK, Handles, SoundThreads
        <4>2. CASE thr[u].i = i /\ thr[u].held = "live"
          <5>1. thr'[u] = [thr[u] EXCEPT !.held = "dead"]
            BY <2>2, <4>2 DEF ShutdownRemove
          <5>2. thr'[u].held = "dead" /\ thr'[u].pc = thr[u].pc
            BY <4>1, <5>1 DEF Thread
          <5>3. QED
            BY <4>1, <4>2, <5>2 DEF Handle
        <4>3. CASE ~(thr[u].i = i /\ thr[u].held = "live")
          <5>1. thr'[u] = thr[u] /\ (thr[u].held = "live" => thr[u].i # i)
            BY <2>2, <4>3 DEF ShutdownRemove
          <5>2. thr[u].held = "live" => cont'[thr[u].i] = cont[thr[u].i]
            BY <2>2, <4>1, <5>1 DEF ShutdownRemove, Becomes, TypeOK, Handle, Handling, Sound, Unplaced
          <5>3. QED
            BY <4>1, <5>1, <5>2 DEF Handle
        <4>4. QED
          BY <4>2, <4>3
      <3>2. QED
        BY <3>1 DEF Handles
    <2>3. ASSUME NEW i \in Instances, ShutdownStop(i)
          PROVE  Handles'
      BY <1>3, <2>3, StoppedStays DEF ShutdownStop
    <2>4. CASE ShutdownBegin \/ Exit \/ Boot
      BY <1>3, <2>4 DEF ShutdownBegin, Exit, Boot, ContainersStay
    <2>5. QED
      BY <1>6, <2>1, <2>2, <2>3, <2>4 DEF ProcessStep
  <1>7. CASE DaemonStep
    <2>1. ASSUME NEW i \in Instances, ServerExits(i)
          PROVE  Handles'
      <3>1. PICK status : /\ status # "absent"
                          /\ Becomes(i, [cont[i] EXCEPT !.status = status])
        BY <2>1 DEF ServerExits
      <3>2. /\ [cont[i] EXCEPT !.status = status].status = status
            /\ [cont[i] EXCEPT !.status = status].template = cont[i].template
        BY DEF TypeOK, Container
      <3>3. QED
        BY <1>3, <2>1, <3>1, <3>2, BecomesStays DEF ServerExits
    <2>2. ASSUME NEW i \in Instances, DockerRestarts(i)
          PROVE  Handles'
      BY <1>3, <2>2, ServerRunsStays DEF DockerRestarts
    <2>3. QED
      BY <1>7, <2>1, <2>2 DEF DaemonStep
  <1>8. CASE UNCHANGED vars
    BY <1>8 DEF vars, Handles, Handle
  <1>9. QED
    BY <1>2, <1>4, <1>5, <1>6, <1>7, <1>8 DEF Next

-----------------------------------------------------------------------------
(* No row is left with a template that is gone.  A row that does not exist *)
(* has none, so that a deleted template is unlinked from all of them.      *)

Vacant == \A i \in Instances : ~db[i].exists => db[i].template = NoTemplate

Linked == Vacant /\ NoDanglingTemplate

LEMMA CommitsLinked ==
  ASSUME TypeOK, Linked, NEW i \in Instances, NEW row, Commits(i, row),
         UNCHANGED templates, disturbed \subseteq disturbed',
         ~row.exists => row.template = NoTemplate,
         i \notin disturbed' => row.template \in templates \cup {NoTemplate}
  PROVE  Linked'
  BY DEF TypeOK, Linked, Vacant, NoDanglingTemplate, Commits

LEMMA KeptLinked ==
  ASSUME Linked, UNCHANGED <<db, templates>>, disturbed \subseteq disturbed'
  PROVE  Linked'
  BY DEF Linked, Vacant, NoDanglingTemplate

\* A commit of other columns of a row that stands where it stood.
LEMMA RowsLinked ==
  ASSUME TypeOK, Linked, NEW i \in Instances, NEW row, Commits(i, row),
         UNCHANGED templates, disturbed \subseteq disturbed',
         row.exists = db[i].exists, row.template = db[i].template
  PROVE  Linked'
  BY CommitsLinked DEF Linked, Vacant, NoDanglingTemplate

LEMMA OtherColumns ==
  ASSUME TypeOK, NEW i \in Instances, NEW row \in Row
  PROVE  /\ [db[i] EXCEPT !.face = 1 - @].exists = db[i].exists
         /\ [db[i] EXCEPT !.face = 1 - @].template = db[i].template
         /\ [db[i] EXCEPT !.desired = "stopped"].exists = db[i].exists
         /\ [db[i] EXCEPT !.desired = "stopped"].template = db[i].template
         /\ Columns(i, row).exists = db[i].exists
         /\ Columns(i, row).template = db[i].template
  <1>1. db[i] \in Row
    BY DEF TypeOK
  <1>2. /\ Columns(i, row).exists = db[i].exists
        /\ Columns(i, row).template = db[i].template
    BY <1>1 DEF Row, Columns
  <1>3. QED
    BY <1>1, <1>2 DEF Row

LEMMA ThreadLinked ==
  ASSUME TypeOK, SoundThreads, OrderlyThreads, Linked, NEW t \in Threads, ThreadStep(t)
  PROVE  Linked'
  <1> USE DEF At
  <1>1. thr[t] \in Thread /\ Orderly(t, thr[t]) /\ Sound(thr[t])
    BY DEF TypeOK, OrderlyThreads, SoundThreads
  <1>2. CASE StartStep(t) /\ ~StartCommit(t)
    BY <1>2, KeptLinked DEF StartStep, StartRead, StartFind, StartRemove, StartWrite, StartCreate,
                            StartRun, history
  <1>3. CASE Find(t) \/ StopKill(t) \/ RemoveContainer(t) \/ EditCheck(t) \/ ToggleUpdate(t) \/ DetachNext(t)
    BY <1>3, KeptLinked DEF Find, StopKill, RemoveContainer, EditCheck, ToggleUpdate, DetachNext,
                            DisturbIf, history
  <1>4. CASE StartCommit(t)
    <2>1. thr[t].i \in Instances /\ thr[t].row \in Row
      BY <1>1, <1>4 DEF StartCommit, Sound, Unplaced, Thread
    <2>2. UNCHANGED db \/ Commits(thr[t].i, Columns(thr[t].i, thr[t].row))
      BY <1>4 DEF StartCommit
    <2>3. UNCHANGED templates /\ disturbed \subseteq disturbed'
      BY <1>4 DEF StartCommit, DisturbIf
    <2>4. QED
      BY <2>1, <2>2, <2>3, KeptLinked, RowsLinked, OtherColumns
  <1>5. CASE StopRow(t) \/ EditRow(t)
    <2>1. thr[t].i \in Instances
      BY <1>1, <1>5 DEF StopRow, EditRow, Sound, Unplaced
    <2>2. \/ UNCHANGED db \/ Commits(thr[t].i, [db[thr[t].i] EXCEPT !.desired = "stopped"])
          \/ Commits(thr[t].i, [db[thr[t].i] EXCEPT !.face = 1 - @])
      BY <1>5 DEF StopRow, EditRow
    <2>3. UNCHANGED templates /\ disturbed \subseteq disturbed'
      BY <1>5 DEF StopRow, EditRow, DisturbIf
    <2>4. Blank \in Row
      BY BlankType
    <2>5. QED
      BY <2>1, <2>2, <2>3, <2>4, KeptLinked, RowsLinked, OtherColumns
  <1>6. CASE DeleteRow(t) \/ CreateAside(t)
    <2>1. thr[t].i \in Instances
      BY <1>1, <1>6 DEF DeleteRow, CreateAside, Sound, Unplaced
    <2>2. UNCHANGED db \/ Commits(thr[t].i, Blank)
      BY <1>6 DEF DeleteRow, CreateAside
    <2>3. UNCHANGED templates /\ disturbed \subseteq disturbed'
      BY <1>6 DEF DeleteRow, CreateAside, DisturbIf
    <2>4. QED
      BY <2>1, <2>2, <2>3, KeptLinked, CommitsLinked DEF Blank
  <1>7. CASE ToggleRow(t)
    <2>1. thr[t].i \in Instances
      BY <1>1, <1>7 DEF ToggleRow, Sound, Unplaced
    <2>2. \A start, restart \in BOOLEAN :
            /\ [db[thr[t].i] EXCEPT !.autoStart = start, !.autoRestart = restart].exists = db[thr[t].i].exists
            /\ [db[thr[t].i] EXCEPT !.autoStart = start, !.autoRestart = restart].template = db[thr[t].i].template
      BY <2>1 DEF TypeOK, Row
    <2>3. UNCHANGED <<templates, disturbed>>
      BY <1>7 DEF ToggleRow, history
    <2>4. UNCHANGED db \/ \E row : /\ Commits(thr[t].i, row) /\ row.exists = db[thr[t].i].exists
                                   /\ row.template = db[thr[t].i].template
      BY <1>7, <2>2 DEF ToggleRow
    <2>5. QED
      BY <2>1, <2>3, <2>4, KeptLinked, RowsLinked
  <1>8. CASE CreateRow(t)
    <2>1. thr[t].row.exists
      BY <1>1, <1>8 DEF CreateRow, Orderly
    <2>2. UNCHANGED templates /\ disturbed \subseteq disturbed'
      BY <1>8 DEF CreateRow, DisturbIf
    <2>3. CASE UNCHANGED db
      BY <2>2, <2>3, KeptLinked
    <2>4. ASSUME NEW i \in Instances, Commits(i, thr[t].row),
                 DisturbIf(thr[t].row.template \notin templates, i)
          PROVE  Linked'
      BY <2>1, <2>2, <2>4, CommitsLinked DEF DisturbIf
    <2>5. QED
      BY <1>8, <2>3, <2>4 DEF CreateRow
  <1>9. CASE EditSwitch(t)
    <2> DEFINE i == thr[t].i
               T == thr[t].row.template
    <2>1. i \in Instances /\ UNCHANGED templates /\ disturbed \subseteq disturbed'
      BY <1>1, <1>9 DEF EditSwitch, Sound, Unplaced, DisturbIf
    <2>2. CASE UNCHANGED db
      BY <2>1, <2>2, KeptLinked
    <2>3. CASE /\ db[i].exists /\ Commits(i, [db[i] EXCEPT !.template = T])
               /\ DisturbIf(Starting(t, i) \/ T \notin templates, i)
      <3>1. [db[i] EXCEPT !.template = T].template = T /\ [db[i] EXCEPT !.template = T].exists
        BY <2>1, <2>3 DEF TypeOK, Row
      <3>2. i \notin disturbed' => T \in templates
        BY <2>3 DEF DisturbIf
      <3>3. Commits(i, [db[i] EXCEPT !.template = T])
        BY <2>3
      <3> HIDE DEF i, T
      <3>4. QED
        BY <2>1, <3>1, <3>2, <3>3, CommitsLinked
    <2>4. QED
      BY <1>9, <2>2, <2>3 DEF EditSwitch
  <1>10. CASE DetachRows(t) \/ DropTemplate(t)
    <2> DEFINE T == thr[t].template
    <2>1. \A i \in Instances :
            /\ Unlinked(T)[i].exists = db[i].exists
            /\ Unlinked(T)[i].template = IF i \in On(T) THEN NoTemplate ELSE db[i].template
      BY DEF TypeOK, Row, Unlinked
    <2>2. disturbed \subseteq disturbed'
      BY <1>10 DEF DetachRows, DropTemplate
    <2>3. \/ db' = Unlinked(T) /\ templates \ {T} \subseteq templates'
          \/ UNCHANGED <<db, templates>>
      BY <1>10 DEF DetachRows, DropTemplate
    <2> HIDE DEF T
    <2>4. CASE db' = Unlinked(T) /\ templates \ {T} \subseteq templates'
      <3>1. \A i \in Instances : /\ db'[i].exists = db[i].exists
                                /\ db'[i].template = IF i \in On(T) THEN NoTemplate ELSE db[i].template
        BY <2>1, <2>4
      <3>2. Vacant'
        BY <3>1 DEF Linked, Vacant
      <3>3. \A i \in Instances : db'[i].template # T \/ db'[i].template = NoTemplate
        BY <3>1 DEF Linked, Vacant, On
      <3>4. NoDanglingTemplate'
        BY <2>2, <2>4, <3>1, <3>3 DEF Linked, NoDanglingTemplate
      <3>5. QED
        BY <3>2, <3>4 DEF Linked
    <2>5. QED
      BY <2>2, <2>3, <2>4, KeptLinked
  <1>11. QED
    BY <1>2, <1>3, <1>4, <1>5, <1>6, <1>7, <1>8, <1>9, <1>10 DEF ThreadStep, StartStep, StopStep

LEMMA NextLinked ==
  ASSUME TypeOK, SoundThreads, OrderlyThreads, Linked, [Next]_vars
  PROVE  Linked'
  <1>1. CASE MonitorStep \/ DaemonStep
    BY <1>1, KeptLinked DEF MonitorStep, RecoverBegin, ScheduleBegin, PassEnd, RecoverLook, NotDue,
                            Due, DaemonStep, ServerExits, DockerRestarts, history
  <1>2. CASE AdminStep
    <2>1. ASSUME NEW i \in Instances, Rename(i)
          PROVE  Linked'
      BY <2>1, RowsLinked, OtherColumns, BlankType DEF Rename, history
    <2>2. ASSUME NEW t \in Admins, NEW kind \in Kinds, NEW i \in Instances, Ask(t, kind, i)
          PROVE  Linked'
      BY <2>2, KeptLinked DEF Ask, history
    <2>3. ASSUME NEW t \in Admins, NEW T \in Templates, AskDetach(t, T) \/ AskCreate(t, T)
          PROVE  Linked'
      BY <2>3, KeptLinked DEF AskDetach, AskCreate, history
    <2>4. QED
      BY <1>2, <2>1, <2>2, <2>3 DEF AdminStep
  <1>3. CASE ProcessStep
    <2>1. CASE Kill \/ HostReboot
      <3>1. UNCHANGED <<db, templates>> /\ Gone
        BY <2>1, Zenon DEF Kill, HostReboot
      <3>2. QED
        BY <3>1, KeptLinked DEF Gone
    <2>2. CASE ~(Kill \/ HostReboot)
      BY <1>3, <2>2, KeptLinked DEF ProcessStep, ShutdownBegin, Exit, Boot, ShutdownStop,
                                    ShutdownRemove, history
    <2>3. QED
      BY <2>1, <2>2
  <1>4. CASE UNCHANGED vars
    BY <1>4, KeptLinked DEF vars
  <1>5. QED
    BY <1>1, <1>2, <1>3, <1>4, ThreadLinked DEF Next

LEMMA InitLinked == Init => OrderlyThreads /\ Handles /\ Linked
  <1> SUFFICES ASSUME Init PROVE OrderlyThreads /\ Handles /\ Linked
    OBVIOUS
  <1>1. \A t \in Threads : thr[t] = Resting(t)
    BY DEF Init
  <1>2. \A t \in Threads : Orderly(t, Resting(t)) /\ Resting(t).held = "none"
    BY DEF Resting, Orderly
  <1>3. \A i \in Instances : db[i] \in FreshRows
    BY DEF Init
  <1>4. Linked
    BY <1>3 DEF Init, FreshRows, Linked, Vacant, NoDanglingTemplate
  <1>5. OrderlyThreads /\ Handles
    BY <1>1, <1>2 DEF OrderlyThreads, Handles, Handle
  <1>6. QED
    BY <1>4, <1>5

\* No row is left with a template that is gone, on any number of servers,
\* templates and threads: what was pointed at a template while it was being
\* deleted is unlinked with it, in the very session that drops it.
THEOREM NoDanglingHolds == Spec => []NoDanglingTemplate
  <1>1. Init => TypeOK /\ SoundThreads /\ OrderlyThreads /\ Linked
    BY InitType, InitLinked
  <1>2. TypeOK /\ SoundThreads /\ OrderlyThreads /\ Linked /\ [Next]_vars
          => (TypeOK /\ SoundThreads /\ OrderlyThreads /\ Linked)'
    BY NextType, NextOrderly, NextLinked
  <1>3. Linked => NoDanglingTemplate
    BY DEF Linked
  <1>4. QED
    BY <1>1, <1>2, <1>3, PTL DEF Spec

-----------------------------------------------------------------------------
(* A server that is up runs what its row says, or a thread is about to end *)
(* it or to commit what it started; and what a start has read of a row     *)
(* still holds while it goes on, unless the row was written meanwhile.     *)

\* Thread t has set out to stop or remove server i, and will find it there.
Ending(t, i) ==
  \/ thr[t].i = i /\ thr[t].pc \in {"stop.find", "edit.find"}
  \/ thr[t].i = i /\ thr[t].pc \in {"stop.kill", "edit.remove"} /\ thr[t].held = "live"
  \/ thr[t].i = i /\ At(t, "stop.row") /\ thr[t].template # NoTemplate
  \/ i \in thr[t].todo

Committing(t, i) == thr[t].i = i /\ At(t, "start.commit")

\* Thread t has removed the container it found, and the row is to follow.
Purging(t, i) == thr[t].i = i /\ (At(t, "delete.row") \/ (At(t, "delete.remove") /\ thr[t].held = "dead"))

ReadStands(t, i) ==
  thr[t].i = i /\ thr[t].pc \in StartWindow =>
    LET row == thr[t].row IN
    /\ db[i].exists /\ row.template \in Templates /\ db[i].template = row.template
    /\ row.desired = "running" => db[i].desired = "running"
    /\ row.lastStarted = row.template => db[i].lastStarted = row.template
    /\ thr[t].pc \in {"start.create", "start.run", "start.commit"} => conf[i] = row.template

Same(i) ==
  /\ db[i].template \in Templates
  /\ cont[i].template = db[i].template /\ conf[i] = db[i].template
  /\ Up(i) => cont[i].runs = db[i].template
  /\ \/ db[i].desired = "running" /\ db[i].lastStarted = db[i].template
     \/ \E t \in Threads : Committing(t, i)

Told(i) ==
  Alive(i) => /\ db[i].exists
              /\ Same(i) \/ \E t \in Threads : Ending(t, i)
              /\ (\E t \in Threads : Purging(t, i)) => \E t \in Threads : Committing(t, i)

Well(i) == Told(i) /\ \A t \in Threads : ReadStands(t, i)

Undisturbed == \A i \in Instances : i \notin disturbed => Well(i)

\* What a step may change of a row, and of the container, without a thread or
\* the two stories of them noticing.
RowStands(i) ==
  /\ db'[i].exists = db[i].exists /\ db'[i].template = db[i].template
  /\ db[i].desired = "running" => db'[i].desired = "running"
  /\ db'[i].lastStarted \in {db[i].lastStarted, db[i].template}
  /\ conf'[i] \in {conf[i], db[i].template}

ServerStands(i) ==
  /\ cont'[i].template = cont[i].template
  /\ Alive(i)' => Alive(i)
  /\ Up(i)' => cont'[i].runs = conf[i] \/ (Up(i) /\ cont'[i].runs = cont[i].runs)

Untouched(i) == db'[i] = db[i] /\ cont'[i] = cont[i] /\ conf'[i] = conf[i]

\* Thread t means to server i after the step what it meant before.
Quiet(t, i) == /\ Ending(t, i) => Ending(t, i)'
               /\ Committing(t, i) => Committing(t, i)'
               /\ Purging(t, i)' => Purging(t, i)

LEMMA UntouchedStands ==
  ASSUME NEW i, Untouched(i)
  PROVE  RowStands(i) /\ ServerStands(i)
  BY DEF Untouched, RowStands, ServerStands, Alive, Up

LEMMA WellKept ==
  ASSUME NEW i \in Instances, Well(i), RowStands(i), ServerStands(i),
         \A t \in Threads : Quiet(t, i) /\ ReadStands(t, i)'
  PROVE  Well(i)'
  <1> SUFFICES ASSUME Alive(i)'
               PROVE  /\ db'[i].exists
                      /\ Same(i)' \/ \E t \in Threads : Ending(t, i)'
                      /\ (\E t \in Threads : Purging(t, i)') => \E t \in Threads : Committing(t, i)'
    BY DEF Well, Told
  <1>1. Told(i) /\ Alive(i)
    BY DEF Well, ServerStands
  <1>2. /\ (\E t \in Threads : Ending(t, i)) => \E t \in Threads : Ending(t, i)'
        /\ (\E t \in Threads : Committing(t, i)) => \E t \in Threads : Committing(t, i)'
        /\ (\E t \in Threads : Purging(t, i)') => \E t \in Threads : Purging(t, i)
    BY DEF Quiet
  <1>3. Same(i) => Same(i)'
    BY <1>2 DEF Same, RowStands, ServerStands
  <1>4. QED
    BY <1>1, <1>2, <1>3 DEF Told, RowStands

LEMMA DownWell ==
  ASSUME NEW i \in Instances, ~Alive(i)', \A t \in Threads : ReadStands(t, i)'
  PROVE  Well(i)'
  BY DEF Well, Told

LEMMA ReadKept ==
  ASSUME NEW t \in Threads, NEW i \in Instances, ReadStands(t, i), RowStands(i),
         thr'[t].pc = thr[t].pc, thr'[t].i = thr[t].i, thr'[t].row = thr[t].row
  PROVE  ReadStands(t, i)'
  BY DEF ReadStands, RowStands

LEMMA SameThread ==
  ASSUME NEW t \in Threads, NEW i \in Instances, thr'[t] = thr[t]
  PROVE  /\ Quiet(t, i)
         /\ RowStands(i) /\ ReadStands(t, i) => ReadStands(t, i)'
  BY ReadKept DEF Quiet, Ending, Committing, Purging, At

\* A thread that has nothing to do with server i, before the step and after it.
LEMMA Away ==
  ASSUME NEW t \in Threads, NEW i \in Instances, thr[t].i # i, thr'[t].i # i,
         i \in thr[t].todo => i \in thr'[t].todo
  PROVE  Quiet(t, i) /\ ReadStands(t, i)'
  BY DEF Quiet, Ending, Committing, Purging, ReadStands

LEMMA MovesRead ==
  ASSUME TypeOK, NEW t \in Threads, NEW after, Moves(t, after), NEW i \in Instances, Well(i),
         RowStands(i) \/ ~Starting(t, i), ReadStands(t, i)'
  PROVE  \A u \in Threads : ReadStands(u, i)'
  <1> SUFFICES ASSUME NEW u \in Threads, u # t
               PROVE  ReadStands(u, i)'
    OBVIOUS
  <1>1. thr'[u] = thr[u] /\ ReadStands(u, i)
    BY DEF Moves, TypeOK, Well
  <1>2. CASE RowStands(i)
    BY <1>1, <1>2, SameThread
  <1>3. CASE ~Starting(t, i)
    BY <1>1, <1>3 DEF Starting, ReadStands
  <1>4. QED
    BY <1>2, <1>3

LEMMA MovesWell ==
  ASSUME TypeOK, NEW t \in Threads, NEW after, Moves(t, after), NEW i \in Instances, Well(i),
         RowStands(i), ServerStands(i), Quiet(t, i), ReadStands(t, i)'
  PROVE  Well(i)'
  <1>1. \A u \in Threads : ReadStands(u, i)'
    BY MovesRead
  <1>2. \A u \in Threads : Quiet(u, i)
    BY SameThread DEF Moves, TypeOK
  <1>3. QED
    BY <1>1, <1>2, WellKept

\* A step of thread t on its server leaves every other server as well as it was.
LEMMA StepUndisturbed ==
  ASSUME TypeOK, Undisturbed, NEW t \in Threads, NEW after, Moves(t, after),
         NEW k \in Instances, thr[t].i = k,
         thr'[t].i \in {k, NoInstance}, thr[t].todo \subseteq thr'[t].todo \cup disturbed',
         \A j \in Instances : j # k => Untouched(j), disturbed \subseteq disturbed',
         k \notin disturbed' => Well(k)'
  PROVE  Undisturbed'
  <1> SUFFICES ASSUME NEW j \in Instances, j # k, j \notin disturbed'
               PROVE  Well(j)'
    BY DEF Undisturbed
  <1>1. Well(j) /\ RowStands(j) /\ ServerStands(j)
    BY UntouchedStands DEF Undisturbed
  <1>2. thr'[t].i # j
    BY ThreadsAssumption
  <1>3. Quiet(t, j) /\ ReadStands(t, j)'
    BY <1>2, Away
  <1>4. QED
    BY <1>1, <1>3, MovesWell

\* So does one that removes its container, and handles on it with it.
LEMMA RemovedUndisturbed ==
  ASSUME TypeOK, Undisturbed, NEW t \in Threads, NEW after,
         NEW i \in Instances, thr[t].i = i, thr' = RemovedBy(t, i, after),
         Becomes(i, NoContainer), UNCHANGED <<db, conf, disturbed>>,
         after.i \in {i, NoInstance}, thr[t].todo \subseteq after.todo,
         Well(i) => ReadStands(t, i)'
  PROVE  Undisturbed'
  <1>1. thr'[t] = after
    BY DEF RemovedBy
  <1>2. ASSUME NEW u \in Threads, u # t
        PROVE  /\ thr'[u].pc = thr[u].pc /\ thr'[u].i = thr[u].i /\ thr'[u].row = thr[u].row
               /\ thr'[u].todo = thr[u].todo
               /\ thr[u].i # i => thr'[u] = thr[u]
    BY <1>2 DEF RemovedBy, TypeOK, Thread
  <1>3. ASSUME NEW j \in Instances, j \notin disturbed
        PROVE  Well(j)'
    <2>0. Well(j) /\ RowStands(j)
      BY <1>3 DEF Undisturbed, RowStands
    <2>1. CASE j = i
      <3>1. ~Alive(j)'
        BY <2>1 DEF Becomes, TypeOK, NoContainer, Alive
      <3>2. \A u \in Threads : ReadStands(u, j)'
        BY <1>2, <2>0, <2>1, ReadKept DEF Well
      <3>3. QED
        BY <3>1, <3>2, DownWell
    <2>2. CASE j # i
      <3>1. ServerStands(j)
        BY <2>2, UntouchedStands DEF Untouched, Becomes, TypeOK
      <3>2. thr'[t].i # j
        BY <1>1, <2>2, ThreadsAssumption
      <3>3. Quiet(t, j) /\ ReadStands(t, j)'
        BY <1>1, <2>2, <3>2, Away
      <3>4. ASSUME NEW u \in Threads, u # t
            PROVE  Quiet(u, j) /\ ReadStands(u, j)'
        <4>1. CASE thr[u].i = i
          BY <1>2, <2>2, <3>4, <4>1, Away
        <4>2. CASE thr[u].i # i
          BY <1>2, <2>0, <3>4, <4>2, SameThread DEF Well
        <4>3. QED
          BY <4>1, <4>2
      <3>5. QED
        BY <2>0, <3>1, <3>3, <3>4, WellKept
    <2>3. QED
      BY <2>1, <2>2
  <1>4. QED
    BY <1>3 DEF Undisturbed

\* A thread that was not about to end a server, nor to commit it, rests.
LEMMA EndsQuiet ==
  ASSUME NEW t \in Threads, NEW i \in Instances, thr'[t].i = NoInstance,
         ~Committing(t, i), Ending(t, i) => i \in thr'[t].todo
  PROVE  Quiet(t, i) /\ ReadStands(t, i)'
  <1>1. thr'[t].i # i
    BY ThreadsAssumption
  <1>2. QED
    BY <1>1 DEF Quiet, Ending, Committing, Purging, ReadStands

LEMMA EndsNowhere ==
  ASSUME NEW t \in Threads
  PROVE  /\ Resting(t).i = NoInstance /\ Failed(t).i = NoInstance /\ Finished(t).i = NoInstance
         /\ Finished(t).todo = thr[t].todo
  BY DEF Resting, Failed, Finished

\* A request that is not a deletion of a template has nothing left to stop.
LEMMA NothingToStop ==
  ASSUME OrderlyThreads, NEW t \in Threads, thr[t].pc \notin Detaching
  PROVE  thr[t].todo = {}
  BY DEF OrderlyThreads, Orderly

\* A step that writes nothing: the thread goes on, or fails, meaning the same.
LEMMA LooksUndisturbed ==
  ASSUME TypeOK, Undisturbed, NEW t \in Threads, NEW after, Moves(t, after),
         NEW k \in Instances, thr[t].i = k,
         thr'[t].i \in {k, NoInstance}, thr[t].todo \subseteq thr'[t].todo \cup disturbed',
         UNCHANGED <<db, cont, conf>>, disturbed \subseteq disturbed',
         k \notin disturbed' /\ Well(k) => Quiet(t, k) /\ ReadStands(t, k)'
  PROVE  Undisturbed'
  <1>1. \A j \in Instances : Untouched(j)
    BY DEF Untouched
  <1>2. k \notin disturbed' => Well(k)'
    <2>1. SUFFICES ASSUME k \notin disturbed'
                   PROVE  Well(k)'
      OBVIOUS
    <2>2. Well(k)
      BY <2>1 DEF Undisturbed
    <2>3. QED
      BY <1>1, <2>1, <2>2, UntouchedStands, MovesWell
  <1>3. QED
    BY <1>1, <1>2, StepUndisturbed

LEMMA StartLooksUndisturbed ==
  ASSUME TypeOK, SoundThreads, OrderlyThreads, Undisturbed, NEW t \in Threads,
         StartRead(t) \/ StartFind(t)
  PROVE  Undisturbed'
  <1> USE DEF At, Goto
  <1>1. PICK k \in Instances : thr[t].i = k
    BY DEF StartRead, StartFind, SoundThreads, Sound, Unplaced
  <1>2. /\ thr[t] \in Thread /\ thr[t].todo = {} /\ thr[t].pc \in {"start.read", "start.find"}
        /\ ~Ending(t, k) /\ ~Committing(t, k)
    <2>1. thr[t].pc \in {"start.read", "start.find"}
      BY DEF StartRead, StartFind
    <2>2. thr[t].todo = {}
      BY <2>1, NothingToStop DEF Detaching
    <2>3. QED
      BY <2>1, <2>2 DEF TypeOK, Ending, Committing
  <1>3. UNCHANGED <<db, cont, conf, disturbed>>
    BY DEF StartRead, StartFind, history
  <1>4. CASE Moves(t, Failed(t))
    <2>1. thr'[t].i = NoInstance
      BY <1>4, EndsNowhere DEF Moves, TypeOK
    <2>2. QED
      BY <1>1, <1>2, <1>3, <1>4, <2>1, EndsQuiet, LooksUndisturbed
  <1>5. CASE StartRead(t) /\ ~Moves(t, Failed(t))
    <2>1. /\ Moves(t, [thr[t] EXCEPT !.pc = "start.find", !.row = db[k]])
          /\ db[k].exists /\ db[k].template \in Templates
      BY <1>1, <1>5 DEF StartRead, TypeOK
    <2>2. thr'[t].i = k /\ thr'[t].pc = "start.find" /\ thr'[t].row = db[k]
      BY <1>1, <1>2, <2>1 DEF Moves, TypeOK, Thread
    <2>3. Quiet(t, k) /\ ReadStands(t, k)'
      BY <1>2, <1>3, <2>1, <2>2 DEF Quiet, Purging, ReadStands
    <2>4. QED
      BY <1>1, <1>2, <1>3, <2>1, <2>2, <2>3, LooksUndisturbed
  <1>6. CASE StartFind(t)
    <2>1. ASSUME NEW after, Moves(t, after), after.i = k, after.row = thr[t].row,
                 after.todo = thr[t].todo, after.pc \in {"start.write", "start.remove"}
          PROVE  Undisturbed'
      <3>1. thr'[t] = after
        BY <2>1 DEF Moves, TypeOK
      <3>2. Quiet(t, k)
        BY <1>2, <2>1, <3>1 DEF Quiet, Purging
      <3>3. ReadStands(t, k) => ReadStands(t, k)'
        BY <1>1, <1>2, <1>3, <1>6, <2>1, <3>1 DEF StartFind, ReadStands, StartWindow
      <3>4. QED
        BY <1>1, <1>2, <1>3, <2>1, <3>1, <3>2, <3>3, LooksUndisturbed DEF Well
    <2>2. \A pc : /\ [thr[t] EXCEPT !.pc = pc].i = k
                  /\ [thr[t] EXCEPT !.pc = pc].row = thr[t].row
                  /\ [thr[t] EXCEPT !.pc = pc].todo = thr[t].todo
                  /\ [thr[t] EXCEPT !.pc = pc].pc = pc
      BY <1>1, <1>2 DEF Thread
    <2>3. \A pc : /\ [thr[t] EXCEPT !.pc = pc, !.held = "live"].i = k
                  /\ [thr[t] EXCEPT !.pc = pc, !.held = "live"].row = thr[t].row
                  /\ [thr[t] EXCEPT !.pc = pc, !.held = "live"].todo = thr[t].todo
                  /\ [thr[t] EXCEPT !.pc = pc, !.held = "live"].pc = pc
      BY <1>1, <1>2 DEF Thread
    <2>4. CASE Moves(t, [thr[t] EXCEPT !.pc = "start.write"])
      BY <2>1, <2>2, <2>4
    <2>5. CASE \E pc \in {"start.write", "start.remove"} :
                 Moves(t, [thr[t] EXCEPT !.pc = pc, !.held = "live"])
      BY <2>1, <2>3, <2>5
    <2>6. QED
      BY <1>6, <2>4, <2>5 DEF StartFind
  <1>7. QED
    BY <1>4, <1>5, <1>6

LEMMA StartRemoveUndisturbed ==
  ASSUME TypeOK, SoundThreads, OrderlyThreads, Undisturbed, NEW t \in Threads, StartRemove(t)
  PROVE  Undisturbed'
  <1> USE DEF At
  <1> DEFINE after == [thr[t] EXCEPT !.pc = "start.write", !.held = "none"]
  <1>1. PICK k \in Instances : thr[t].i = k
    BY DEF StartRemove, SoundThreads, Sound, Unplaced
  <1>2. /\ after.i = k /\ after.row = thr[t].row /\ after.todo = thr[t].todo /\ after.pc = "start.write"
        /\ thr[t].pc = "start.remove" /\ thr[t].todo = {}
    BY <1>1, NothingToStop DEF StartRemove, TypeOK, Thread, Detaching
  <1>3. UNCHANGED <<db, conf, disturbed>>
    BY DEF StartRemove, history
  <1>4. \/ Becomes(k, NoContainer) /\ thr' = RemovedBy(t, k, after)
        \/ Moves(t, after) /\ cont' = cont
    BY <1>1 DEF StartRemove
  <1> HIDE DEF after
  <1>5. thr'[t] = after
    BY <1>4 DEF RemovedBy, Moves, TypeOK
  <1>6. ASSUME Well(k)
        PROVE  Quiet(t, k) /\ ReadStands(t, k)'
    BY <1>1, <1>2, <1>3, <1>5, <1>6 DEF Well, Quiet, Ending, Committing, Purging, ReadStands, StartWindow
  <1>7. CASE Moves(t, after) /\ cont' = cont
    BY <1>1, <1>2, <1>3, <1>5, <1>6, <1>7, LooksUndisturbed
  <1>8. CASE Becomes(k, NoContainer) /\ thr' = RemovedBy(t, k, after)
    BY <1>1, <1>2, <1>3, <1>6, <1>8, RemovedUndisturbed
  <1>9. QED
    BY <1>4, <1>7, <1>8

LEMMA GotoFields ==
  ASSUME TypeOK, NEW t \in Threads, NEW pc, Goto(t, pc)
  PROVE  /\ thr'[t].pc = pc /\ thr'[t].i = thr[t].i /\ thr'[t].row = thr[t].row
         /\ thr'[t].held = thr[t].held /\ thr'[t].todo = thr[t].todo
         /\ thr'[t].template = thr[t].template
  BY DEF Goto, Moves, TypeOK, Thread

LEMMA EndsFields ==
  ASSUME TypeOK, NEW t \in Threads
  PROVE  /\ Moves(t, Resting(t)) => thr'[t] = Resting(t) /\ thr'[t].i = NoInstance
         /\ Moves(t, Failed(t)) => thr'[t] = Failed(t) /\ thr'[t].i = NoInstance
         /\ Moves(t, Finished(t)) => /\ thr'[t] = Finished(t)
                                     /\ thr'[t].i = NoInstance /\ thr'[t].todo = thr[t].todo
  BY EndsNowhere DEF Moves, TypeOK

LEMMA StartWriteUndisturbed ==
  ASSUME TypeOK, SoundThreads, OrderlyThreads, Undisturbed, NEW t \in Threads, StartWrite(t)
  PROVE  Undisturbed'
  <1> USE DEF At
  <1>1. PICK k \in Instances : thr[t].i = k
    BY DEF StartWrite, SoundThreads, Sound, Unplaced
  <1>2. /\ thr[t].pc = "start.write" /\ thr[t].todo = {} /\ UNCHANGED <<db, cont, disturbed>>
        /\ conf' = [conf EXCEPT ![k] = thr[t].row.template]
    BY <1>1, NothingToStop DEF StartWrite, Detaching, history
  <1>3. PICK pc \in {"start.create", "start.run"} : Goto(t, pc)
    BY DEF StartWrite
  <1>4. thr'[t].pc = pc /\ thr'[t].i = k /\ thr'[t].row = thr[t].row /\ thr'[t].todo = {}
    BY <1>1, <1>2, <1>3, GotoFields
  <1>5. \A j \in Instances : j # k => Untouched(j)
    BY <1>2 DEF Untouched, TypeOK
  <1>6. ASSUME k \notin disturbed
        PROVE  Well(k)'
    <2>1. Well(k) /\ ReadStands(t, k)
      BY <1>6 DEF Undisturbed, Well
    <2>2. conf'[k] = thr[t].row.template /\ db[k].template = thr[t].row.template
      BY <1>1, <1>2, <2>1 DEF TypeOK, ReadStands, StartWindow
    <2>3. RowStands(k) /\ ServerStands(k)
      BY <1>2, <2>2 DEF RowStands, ServerStands, Alive, Up
    <2>4. Quiet(t, k)
      BY <1>2, <1>3, <1>4 DEF Quiet, Ending, Committing, Purging
    <2>5. ReadStands(t, k)'
      BY <1>1, <1>2, <1>4, <2>1, <2>2 DEF ReadStands, StartWindow
    <2>6. QED
      BY <1>3, <2>1, <2>3, <2>4, <2>5, MovesWell DEF Goto
  <1>7. QED
    BY <1>1, <1>2, <1>3, <1>4, <1>5, <1>6, StepUndisturbed DEF Goto

LEMMA StartCreateUndisturbed ==
  ASSUME TypeOK, SoundThreads, OrderlyThreads, Undisturbed, NEW t \in Threads, StartCreate(t)
  PROVE  Undisturbed'
  <1> USE DEF At
  <1>1. PICK k \in Instances : thr[t].i = k
    BY DEF StartCreate, SoundThreads, Sound, Unplaced
  <1>2. /\ thr[t].pc = "start.create" /\ thr[t].todo = {} /\ UNCHANGED <<db, conf, disturbed>>
        /\ thr[t] \in Thread
    BY NothingToStop DEF StartCreate, Detaching, history, TypeOK
  <1>3. CASE Moves(t, Failed(t)) /\ UNCHANGED cont
    BY <1>1, <1>2, <1>3, EndsFields, EndsQuiet, LooksUndisturbed DEF Ending, Committing
  <1> DEFINE after == [thr[t] EXCEPT !.pc = "start.run", !.held = "live"]
  <1>4. ASSUME NEW c, Becomes(k, c), c.status = "created", Moves(t, after)
        PROVE  Undisturbed'
    <2>1. /\ after.pc = "start.run" /\ after.i = k /\ after.row = thr[t].row /\ after.todo = {}
          /\ thr'[t] = after
      BY <1>1, <1>2, <1>4 DEF Thread, Moves, TypeOK
    <2> HIDE DEF after
    <2>2. \A j \in Instances : j # k => Untouched(j)
      BY <1>2, <1>4 DEF Untouched, Becomes, TypeOK
    <2>3. ASSUME k \notin disturbed
          PROVE  Well(k)'
      <3>1. Well(k) /\ ReadStands(t, k)
        BY <2>3 DEF Undisturbed, Well
      <3>2. ReadStands(t, k)'
        BY <1>1, <1>2, <2>1, <3>1 DEF ReadStands, StartWindow
      <3>3. ~Alive(k)'
        BY <1>4 DEF Becomes, TypeOK, Alive
      <3>4. RowStands(k)
        BY <1>2 DEF RowStands
      <3>5. QED
        BY <1>4, <3>1, <3>2, <3>3, <3>4, MovesRead, DownWell
    <2>4. QED
      BY <1>1, <1>2, <1>4, <2>1, <2>2, <2>3, StepUndisturbed
  <1>5. QED
    BY <1>1, <1>3, <1>4 DEF StartCreate

LEMMA StartRunUndisturbed ==
  ASSUME TypeOK, SoundThreads, OrderlyThreads, Handles, Undisturbed, NEW t \in Threads, StartRun(t)
  PROVE  Undisturbed'
  <1> USE DEF At
  <1>1. PICK k \in Instances : thr[t].i = k
    BY DEF StartRun, SoundThreads, Sound, Unplaced
  <1>2. /\ thr[t].pc = "start.run" /\ thr[t].todo = {} /\ UNCHANGED <<db, conf, disturbed>>
    BY NothingToStop DEF StartRun, Detaching, history
  <1>3. CASE Moves(t, Failed(t)) /\ UNCHANGED cont
    BY <1>1, <1>2, <1>3, EndsFields, EndsQuiet, LooksUndisturbed DEF Ending, Committing
  <1>4. CASE /\ thr[t].held = "live" /\ Goto(t, "start.commit")
             /\ IF Alive(k) THEN UNCHANGED cont ELSE ServerRuns(k)
    <2>1. thr'[t].pc = "start.commit" /\ thr'[t].i = k /\ thr'[t].row = thr[t].row /\ thr'[t].todo = {}
      BY <1>1, <1>2, <1>4, GotoFields
    <2>2. \A j \in Instances : j # k => Untouched(j)
      BY <1>2, <1>4 DEF Untouched, ServerRuns, Becomes, TypeOK
    <2>3. ASSUME k \notin disturbed
          PROVE  Well(k)'
      <3>1. Well(k) /\ ReadStands(t, k)
        BY <2>3 DEF Undisturbed, Well
      <3>2. ReadStands(t, k)'
        BY <1>1, <1>2, <2>1, <3>1 DEF ReadStands, StartWindow
      <3>3. RowStands(k) /\ Committing(t, k)'
        BY <1>2, <2>1 DEF RowStands, Committing
      <3>4. CASE Alive(k)
        <4>1. Quiet(t, k)
          BY <1>2, <2>1, <3>3 DEF Quiet, Ending, Committing, Purging
        <4>2. ServerStands(k)
          BY <1>4, <3>4 DEF ServerStands, Alive, Up
        <4>3. QED
          BY <1>4, <3>1, <3>2, <3>3, <4>1, <4>2, MovesWell DEF Goto
      <3>5. CASE ~Alive(k)
        <4>1. cont'[k].template = cont[k].template /\ cont'[k].runs = conf[k]
          <5>1. cont[k] \in Container /\ cont'[k] = [cont[k] EXCEPT !.status = "running", !.runs = conf[k]]
            BY <1>4, <3>5 DEF ServerRuns, Becomes, TypeOK
          <5>2. QED
            BY <5>1 DEF Container
        <4>2. cont[k].template = thr[t].row.template
          BY <1>1, <1>2, <1>4 DEF Handles, Handle
        <4>3. /\ db[k].exists /\ db[k].template \in Templates
              /\ db[k].template = thr[t].row.template /\ conf[k] = db[k].template
          BY <1>1, <1>2, <3>1 DEF ReadStands, StartWindow
        <4>4. Same(k)'
          BY <1>2, <3>3, <4>1, <4>2, <4>3 DEF Same
        <4>5. Told(k)'
          BY <1>2, <3>3, <4>3, <4>4 DEF Told
        <4>6. QED
          BY <1>4, <3>1, <3>2, <3>3, <4>5, MovesRead DEF Goto, Well
      <3>6. QED
        BY <3>4, <3>5
    <2>4. QED
      BY <1>1, <1>2, <1>4, <2>1, <2>2, <2>3, StepUndisturbed DEF Goto
  <1>5. QED
    BY <1>1, <1>3, <1>4 DEF StartRun

LEMMA StartCommitUndisturbed ==
  ASSUME TypeOK, SoundThreads, OrderlyThreads, Undisturbed, NEW t \in Threads, StartCommit(t)
  PROVE  Undisturbed'
  <1> USE DEF At
  <1>1. PICK k \in Instances : thr[t].i = k
    BY DEF StartCommit, SoundThreads, Sound, Unplaced
  <1>2. /\ thr[t].pc = "start.commit" /\ thr[t].todo = {} /\ UNCHANGED <<cont, conf>>
        /\ DisturbIf(Deleting(t, k), k)
    BY <1>1, NothingToStop DEF StartCommit, Detaching
  <1>3. PICK after : Moves(t, after) /\ after \in {Finished(t), Resting(t)}
    BY DEF StartCommit
  <1>4. thr'[t] = after /\ thr'[t].i = NoInstance
    BY <1>3, EndsNowhere DEF Moves, TypeOK
  <1>5. (UNCHANGED db \/ Commits(k, Columns(k, thr[t].row)))
    BY <1>1 DEF StartCommit
  <1>6. \A j \in Instances : j # k => Untouched(j)
    BY <1>2, <1>5 DEF Untouched, Commits, TypeOK
  <1>7. ASSUME k \notin disturbed'
        PROVE  Well(k)'
    <2>1. Well(k) /\ ReadStands(t, k) /\ ~Deleting(t, k)
      BY <1>2, <1>7 DEF DisturbIf, Undisturbed, Well
    <2>2. /\ db[k].exists /\ db[k].template = thr[t].row.template
          /\ thr[t].row.desired = "running" => db[k].desired = "running"
          /\ thr[t].row.lastStarted = thr[t].row.template => db[k].lastStarted = thr[t].row.template
      BY <1>1, <1>2, <2>1 DEF ReadStands, StartWindow
    <2>3. db' = [db EXCEPT ![k] = Columns(k, thr[t].row)]
      BY <1>1, <2>2 DEF StartCommit, Commits
    <2>4. db[k] \in Row /\ db'[k] = Columns(k, thr[t].row)
      BY <2>3 DEF TypeOK
    <2>5. /\ db'[k].exists = db[k].exists /\ db'[k].template = db[k].template
          /\ db'[k].desired = "running" /\ db'[k].lastStarted = db[k].template
      BY <2>2, <2>4 DEF Columns, Row
    <2>6. RowStands(k)
      BY <1>2, <2>5 DEF RowStands
    <2>7. thr'[t].i # k
      BY <1>4, ThreadsAssumption
    <2>8. \A u \in Threads : ReadStands(u, k)'
      BY <1>3, <2>1, <2>6, <2>7, MovesRead DEF ReadStands
    <2>9. ASSUME Alive(k)'
          PROVE  Same(k)' \/ \E u \in Threads : Ending(u, k)'
      <3>1. Same(k) \/ \E u \in Threads : Ending(u, k)
        BY <1>2, <2>1, <2>9 DEF Well, Told, Alive
      <3>2. CASE Same(k)
        BY <1>2, <2>5, <3>2 DEF Same, Up
      <3>3. ASSUME NEW u \in Threads, Ending(u, k)
            PROVE  Ending(u, k)'
        <4>1. u # t
          BY <1>2, <3>3 DEF Ending
        <4>2. QED
          BY <1>3, <3>3, <4>1, SameThread DEF Moves, TypeOK, Quiet
      <3>4. QED
        BY <3>1, <3>2, <3>3
    <2>10. ASSUME NEW u \in Threads, Purging(u, k)'
           PROVE  FALSE
      <3>1. u # t
        BY <2>7, <2>10 DEF Purging
      <3>2. thr'[u] = thr[u]
        BY <1>3, <3>1 DEF Moves, TypeOK
      <3>3. QED
        BY <2>1, <2>10, <3>1, <3>2 DEF Purging, Deleting
    <2>11. Told(k)'
      BY <2>2, <2>5, <2>9, <2>10 DEF Told
    <2>12. QED
      BY <2>8, <2>11 DEF Well
  <1>8. disturbed \subseteq disturbed'
    BY <1>2 DEF DisturbIf
  <1>9. QED
    BY <1>1, <1>2, <1>3, <1>4, <1>6, <1>7, <1>8, StepUndisturbed

LEMMA StartStepUndisturbed ==
  ASSUME TypeOK, SoundThreads, OrderlyThreads, Handles, Undisturbed, NEW t \in Threads, StartStep(t)
  PROVE  Undisturbed'
  BY StartLooksUndisturbed, StartRemoveUndisturbed, StartWriteUndisturbed, StartCreateUndisturbed,
     StartRunUndisturbed, StartCommitUndisturbed DEF StartStep

\* A write of the row, or of none, with a thread on its way to end the server.
LEMMA SetsOutWell ==
  ASSUME TypeOK, NEW t \in Threads, NEW after, Moves(t, after), NEW k \in Instances, Well(k),
         ~Starting(t, k), db[k].exists => db'[k].exists, Alive(k)' => Alive(k),
         Ending(t, k)', ~Purging(t, k)', ~Committing(t, k), thr'[t].pc \notin StartWindow
  PROVE  Well(k)'
  <1>1. \A u \in Threads : ReadStands(u, k)'
    BY MovesRead DEF ReadStands
  <1>2. ASSUME NEW u \in Threads, Purging(u, k)', Alive(k)
        PROVE  FALSE
    <2>1. u # t
      BY <1>2
    <2>2. Purging(u, k)
      BY <1>2, <2>1, SameThread DEF Moves, TypeOK, Quiet
    <2>3. PICK v \in Threads : Committing(v, k)
      BY <1>2, <2>2 DEF Well, Told
    <2>4. QED
      BY <2>3 DEF Committing, Starting, StartWindow, At
  <1>3. Told(k)'
    BY <1>2 DEF Well, Told
  <1>4. QED
    BY <1>1, <1>3 DEF Well

LEMMA StopRowUndisturbed ==
  ASSUME TypeOK, SoundThreads, OrderlyThreads, Undisturbed, NEW t \in Threads, StopRow(t)
  PROVE  Undisturbed'
  <1> USE DEF At
  <1>1. PICK k \in Instances : thr[t].i = k
    BY DEF StopRow, SoundThreads, Sound, Unplaced
  <1>2. thr[t].pc = "stop.row" /\ UNCHANGED <<cont, conf>> /\ disturbed \subseteq disturbed'
    BY DEF StopRow, DisturbIf
  <1>3. CASE /\ db[k].exists /\ Commits(k, [db[k] EXCEPT !.desired = "stopped"])
             /\ Goto(t, "stop.find") /\ DisturbIf(Starting(t, k), k)
    <2>1. thr'[t].pc = "stop.find" /\ thr'[t].i = k /\ thr'[t].todo = thr[t].todo
      BY <1>1, <1>3, GotoFields
    <2>2. \A j \in Instances : j # k => Untouched(j)
      BY <1>2, <1>3 DEF Untouched, Commits, TypeOK
    <2>3. ASSUME k \notin disturbed'
          PROVE  Well(k)'
      <3>1. Well(k) /\ ~Starting(t, k)
        BY <1>3, <2>3 DEF DisturbIf, Undisturbed
      <3>2. Ending(t, k)' /\ ~Purging(t, k)' /\ ~Committing(t, k) /\ thr'[t].pc \notin StartWindow
        BY <1>2, <2>1 DEF Ending, Purging, Committing, StartWindow
      <3>3. db'[k].exists
        BY <1>3 DEF Commits, TypeOK, Row
      <3>4. QED
        BY <1>2, <1>3, <3>1, <3>2, <3>3, SetsOutWell DEF Goto, Alive
    <2>4. QED
      BY <1>1, <1>2, <1>3, <2>1, <2>2, <2>3, StepUndisturbed DEF Goto
  <1>4. CASE /\ ~db[k].exists /\ Moves(t, Failed(t)) /\ UNCHANGED db
             /\ disturbed' = disturbed \cup thr[t].todo
    <2>1. thr'[t].i = NoInstance /\ thr'[t].i # k
      BY <1>4, EndsFields, ThreadsAssumption
    <2>2. \A j \in Instances : Untouched(j)
      BY <1>2, <1>4 DEF Untouched
    <2>3. ASSUME k \notin disturbed'
          PROVE  Well(k)'
      <3>1. Well(k) /\ ~Alive(k)'
        BY <1>2, <1>4, <2>3 DEF Undisturbed, Well, Told, Alive
      <3>2. \A u \in Threads : ReadStands(u, k)'
        BY <1>4, <2>1, <2>2, <3>1, UntouchedStands, MovesRead DEF ReadStands
      <3>3. QED
        BY <3>1, <3>2, DownWell
    <2>4. QED
      BY <1>1, <1>4, <2>1, <2>2, <2>3, StepUndisturbed
  <1>5. QED
    BY <1>1, <1>3, <1>4 DEF StopRow

LEMMA WithoutFields ==
  ASSUME TypeOK, NEW t \in Threads, thr[t].pc \in {"stop.find", "delete.find", "edit.find"}
  PROVE  /\ Without(t).i \in {thr[t].i, NoInstance} /\ Without(t).todo = thr[t].todo
         /\ Without(t).pc \notin StartWindow
  <1>1. thr[t] \in Thread
    BY DEF TypeOK
  <1>2. CASE At(t, "stop.find") /\ thr[t].again
    BY <1>1, <1>2 DEF Without, At, Thread, StartWindow
  <1>3. CASE At(t, "delete.find")
    BY <1>1, <1>3 DEF Without, At, Thread, StartWindow
  <1>4. CASE Without(t) = Finished(t)
    BY <1>4 DEF Finished, Resting, StartWindow
  <1>5. QED
    BY <1>2, <1>3, <1>4 DEF Without, At

LEMMA FindUndisturbed ==
  ASSUME TypeOK, SoundThreads, OrderlyThreads, Undisturbed, NEW t \in Threads, Find(t)
  PROVE  Undisturbed'
  <1> USE DEF At
  <1>1. PICK k \in Instances : thr[t].i = k
    BY DEF Find, SoundThreads, Sound, Unplaced
  <1>2. /\ thr[t].pc \in {"stop.find", "delete.find", "edit.find"}
        /\ UNCHANGED <<db, cont, conf>> /\ disturbed \subseteq disturbed' /\ thr[t] \in Thread
    BY DEF Find, DisturbIf, TypeOK
  <1>3. CASE Moves(t, [thr[t] EXCEPT !.pc = Acting(thr[t].pc), !.held = "live"])
    <2>1. /\ thr'[t].pc = Acting(thr[t].pc) /\ thr'[t].held = "live"
          /\ thr'[t].i = k /\ thr'[t].todo = thr[t].todo
      BY <1>1, <1>2, <1>3 DEF Moves, TypeOK, Thread
    <2>2. Quiet(t, k) /\ ReadStands(t, k)'
      BY <1>2, <2>1 DEF Acting, Quiet, Ending, Committing, Purging, ReadStands, StartWindow
    <2>3. QED
      BY <1>1, <1>2, <1>3, <2>1, <2>2, LooksUndisturbed
  <1>4. CASE Moves(t, Without(t)) /\ (cont[k].status = "absent" \/ k \in disturbed')
    <2>1. /\ thr'[t].i \in {k, NoInstance} /\ thr'[t].todo = thr[t].todo
          /\ thr'[t].pc \notin StartWindow
      BY <1>1, <1>2, <1>4, WithoutFields DEF Moves, TypeOK
    <2>2. \A j \in Instances : Untouched(j)
      BY <1>2 DEF Untouched
    <2>3. ASSUME k \notin disturbed'
          PROVE  Well(k)'
      <3>1. Well(k) /\ ~Alive(k)'
        BY <1>2, <1>4, <2>3 DEF Undisturbed, Alive
      <3>2. \A u \in Threads : ReadStands(u, k)'
        BY <1>4, <2>1, <2>2, <3>1, UntouchedStands, MovesRead DEF ReadStands
      <3>3. QED
        BY <3>1, <3>2, DownWell
    <2>4. QED
      BY <1>1, <1>2, <1>4, <2>1, <2>2, <2>3, StepUndisturbed
  <1>5. QED
    BY <1>1, <1>3, <1>4 DEF Find, DisturbIf

LEMMA StopKillUndisturbed ==
  ASSUME TypeOK, SoundThreads, OrderlyThreads, Undisturbed, NEW t \in Threads, StopKill(t)
  PROVE  Undisturbed'
  <1> USE DEF At
  <1> DEFINE after == IF thr[t].again
                      THEN [thr[t] EXCEPT !.pc = "start.read", !.again = FALSE, !.held = "none"]
                      ELSE Finished(t)
  <1>1. PICK k \in Instances : thr[t].i = k
    BY DEF StopKill, SoundThreads, Sound, Unplaced
  <1>2. /\ thr[t].pc = "stop.kill" /\ UNCHANGED <<db, conf>> /\ disturbed \subseteq disturbed'
        /\ thr[t] \in Thread
    BY DEF StopKill, DisturbIf, TypeOK
  <1>3. /\ after.i \in {k, NoInstance} /\ after.todo = thr[t].todo
        /\ after.pc \notin StartWindow \cup {"delete.row", "delete.remove"}
    BY <1>1, <1>2 DEF Thread, Finished, Resting, StartWindow
  <1>4. Moves(t, after)
    BY DEF StopKill
  <1> HIDE DEF after
  <1>5. thr'[t] = after
    BY <1>4 DEF Moves, TypeOK
  <1>6. CASE Stopped(k)
    <2>1. \A j \in Instances : j # k => Untouched(j)
      BY <1>2, <1>6 DEF Untouched, Stopped, Becomes, TypeOK
    <2>2. ASSUME k \notin disturbed'
          PROVE  Well(k)'
      <3>1. Well(k) /\ RowStands(k)
        BY <1>2, <2>2 DEF Undisturbed, RowStands
      <3>2. ~Alive(k)'
        <4>1. cont'[k] = IF Alive(k) THEN [cont[k] EXCEPT !.status = "exited"] ELSE cont[k]
          BY <1>6 DEF Stopped, Becomes, TypeOK
        <4>2. [cont[k] EXCEPT !.status = "exited"].status = "exited"
          BY DEF TypeOK, Container
        <4>3. QED
          BY <4>1, <4>2 DEF Alive
      <3>3. \A u \in Threads : ReadStands(u, k)'
        BY <1>3, <1>4, <1>5, <3>1, MovesRead DEF ReadStands
      <3>4. QED
        BY <3>2, <3>3, DownWell
    <2>3. QED
      BY <1>1, <1>2, <1>3, <1>4, <1>5, <2>1, <2>2, StepUndisturbed
  <1>7. CASE UNCHANGED cont /\ (thr[t].held = "dead" \/ k \in disturbed')
    <2>1. thr[t].held = "dead" => Quiet(t, k) /\ ReadStands(t, k)'
      BY <1>2, <1>3, <1>5 DEF Quiet, Ending, Committing, Purging, ReadStands
    <2>2. QED
      BY <1>1, <1>2, <1>3, <1>4, <1>5, <1>7, <2>1, LooksUndisturbed
  <1>8. QED
    BY <1>1, <1>6, <1>7 DEF StopKill, DisturbIf

LEMMA RemoveContainerUndisturbed ==
  ASSUME TypeOK, SoundThreads, OrderlyThreads, Undisturbed, NEW t \in Threads, RemoveContainer(t)
  PROVE  Undisturbed'
  <1> USE DEF At
  <1>1. PICK k \in Instances : thr[t].i = k
    BY DEF RemoveContainer, SoundThreads, Sound, Unplaced
  <1>2. /\ thr[t].pc \in {"delete.remove", "edit.remove"} /\ UNCHANGED <<db, conf>>
        /\ disturbed \subseteq disturbed' /\ thr[t] \in Thread
    BY DEF RemoveContainer, DisturbIf, TypeOK
  <1>3. PICK after : after = AfterRemove(t)
    OBVIOUS
  <1>4. /\ after.i \in {k, NoInstance} /\ after.todo = thr[t].todo /\ after.pc \notin StartWindow
        /\ thr[t].pc = "edit.remove" => after.i = NoInstance
    BY <1>1, <1>2, <1>3 DEF AfterRemove, Thread, Finished, Resting, StartWindow
  <1>5. CASE Becomes(k, NoContainer) /\ thr' = RemovedBy(t, k, after) /\ UNCHANGED disturbed
    <2>1. thr'[t] = after
      BY <1>5 DEF RemovedBy
    <2>2. ReadStands(t, k)'
      BY <1>4, <2>1 DEF ReadStands
    <2>3. QED
      BY <1>1, <1>2, <1>4, <1>5, <2>2, RemovedUndisturbed
  <1>6. CASE Moves(t, after) /\ UNCHANGED cont /\ (thr[t].held = "dead" \/ k \in disturbed')
    <2>1. thr'[t] = after
      BY <1>6 DEF Moves, TypeOK
    <2>2. thr[t].held = "dead" => Quiet(t, k) /\ ReadStands(t, k)'
      BY <1>1, <1>2, <1>4, <2>1, ThreadsAssumption DEF Quiet, Ending, Committing, Purging, ReadStands
    <2>3. QED
      BY <1>1, <1>2, <1>4, <1>6, <2>1, <2>2, LooksUndisturbed
  <1>7. QED
    BY <1>1, <1>3, <1>5, <1>6 DEF RemoveContainer, DisturbIf

LEMMA DeleteRowUndisturbed ==
  ASSUME TypeOK, SoundThreads, OrderlyThreads, Undisturbed, NEW t \in Threads, DeleteRow(t)
  PROVE  Undisturbed'
  <1> USE DEF At
  <1>1. PICK k \in Instances : thr[t].i = k
    BY DEF DeleteRow, SoundThreads, Sound, Unplaced
  <1>2. /\ thr[t].pc = "delete.row" /\ thr[t].todo = {} /\ UNCHANGED <<cont, conf>>
        /\ disturbed \subseteq disturbed'
    BY NothingToStop DEF DeleteRow, DisturbIf, Detaching
  <1>3. CASE Moves(t, Failed(t)) /\ UNCHANGED <<db, disturbed>>
    BY <1>1, <1>2, <1>3, EndsFields, EndsQuiet, LooksUndisturbed DEF Ending, Committing
  <1>4. CASE Commits(k, Blank) /\ Moves(t, Finished(t)) /\ DisturbIf(Starting(t, k), k)
    <2>1. thr'[t].i = NoInstance /\ thr'[t].i # k
      BY <1>4, EndsFields, ThreadsAssumption
    <2>2. \A j \in Instances : j # k => Untouched(j)
      BY <1>2, <1>4 DEF Untouched, Commits, TypeOK
    <2>3. ASSUME k \notin disturbed'
          PROVE  Well(k)'
      <3>1. Well(k) /\ ~Starting(t, k) /\ Purging(t, k)
        BY <1>1, <1>2, <1>4, <2>3 DEF DisturbIf, Undisturbed, Purging
      <3>2. ASSUME Alive(k)
            PROVE  FALSE
        <4>1. PICK v \in Threads : Committing(v, k)
          BY <3>1, <3>2 DEF Well, Told
        <4>2. QED
          BY <1>2, <3>1, <4>1 DEF Committing, Starting, StartWindow
      <3>3. \A u \in Threads : ReadStands(u, k)'
        BY <1>4, <2>1, <3>1, MovesRead DEF ReadStands
      <3>4. QED
        BY <1>2, <3>2, <3>3, DownWell DEF Alive
    <2>4. QED
      BY <1>1, <1>2, <1>4, <2>1, <2>2, <2>3, StepUndisturbed
  <1>5. QED
    BY <1>1, <1>3, <1>4 DEF DeleteRow

LEMMA EditUndisturbed ==
  ASSUME TypeOK, SoundThreads, OrderlyThreads, Undisturbed, NEW t \in Threads,
         EditCheck(t) \/ EditRow(t) \/ EditSwitch(t)
  PROVE  Undisturbed'
  <1> USE DEF At
  <1>1. PICK k \in Instances : thr[t].i = k
    BY DEF EditCheck, EditRow, EditSwitch, SoundThreads, Sound, Unplaced
  <1>2. /\ thr[t].pc \in {"edit.check", "edit.row", "edit.switch"} /\ UNCHANGED <<cont, conf>>
        /\ disturbed \subseteq disturbed' /\ thr[t] \in Thread
    BY DEF EditCheck, EditRow, EditSwitch, DisturbIf, TypeOK
  <1>3. thr[t].todo = {} /\ ~Ending(t, k) /\ ~Committing(t, k)
    <2>1. thr[t].todo = {}
      BY <1>2, NothingToStop DEF Detaching
    <2>2. QED
      BY <1>2, <2>1 DEF Ending, Committing
  <1>4. CASE Moves(t, Failed(t)) /\ UNCHANGED <<db, disturbed>>
    BY <1>1, <1>2, <1>3, <1>4, EndsFields, EndsQuiet, LooksUndisturbed
  <1>5. CASE EditCheck(t) /\ Goto(t, "edit.row")
    <2>1. UNCHANGED db
      BY <1>5 DEF EditCheck
    <2>2. thr'[t].pc = "edit.row" /\ thr'[t].i = k /\ thr'[t].todo = {}
      BY <1>1, <1>3, <1>5, GotoFields
    <2>3. Quiet(t, k) /\ ReadStands(t, k)'
      BY <1>3, <2>2 DEF Quiet, Purging, ReadStands, StartWindow
    <2>4. QED
      BY <1>1, <1>2, <1>3, <1>5, <2>1, <2>2, <2>3, LooksUndisturbed DEF Goto
  <1>6. ASSUME NEW row, Moves(t, [thr[t] EXCEPT !.pc = "edit.switch", !.row = row]), UNCHANGED db
        PROVE  Undisturbed'
    <2>1. thr'[t].pc = "edit.switch" /\ thr'[t].i = k /\ thr'[t].todo = {}
      BY <1>1, <1>2, <1>3, <1>6 DEF Moves, TypeOK, Thread
    <2>2. Quiet(t, k) /\ ReadStands(t, k)'
      BY <1>3, <2>1 DEF Quiet, Purging, ReadStands, StartWindow
    <2>3. QED
      BY <1>1, <1>2, <1>3, <1>6, <2>1, <2>2, LooksUndisturbed
  <1>7. ASSUME NEW row, db[k].exists, row.exists, Commits(k, row), Goto(t, "edit.find"),
               Starting(t, k) => k \in disturbed'
        PROVE  Undisturbed'
    <2>1. thr'[t].pc = "edit.find" /\ thr'[t].i = k /\ thr'[t].todo = {}
      BY <1>1, <1>3, <1>7, GotoFields
    <2>2. \A j \in Instances : j # k => Untouched(j)
      BY <1>2, <1>7 DEF Untouched, Commits, TypeOK
    <2>3. ASSUME k \notin disturbed'
          PROVE  Well(k)'
      <3>1. Well(k) /\ ~Starting(t, k)
        BY <1>2, <1>7, <2>3 DEF Undisturbed
      <3>2. Ending(t, k)' /\ ~Purging(t, k)' /\ thr'[t].pc \notin StartWindow
        BY <2>1 DEF Ending, Purging, StartWindow
      <3>3. db'[k].exists
        BY <1>7 DEF Commits, TypeOK
      <3>4. QED
        BY <1>2, <1>3, <1>7, <3>1, <3>2, <3>3, SetsOutWell DEF Goto, Alive
    <2>4. QED
      BY <1>1, <1>2, <1>3, <1>7, <2>1, <2>2, <2>3, StepUndisturbed DEF Goto
  <1>8. CASE EditRow(t)
    <2>1. db[k].exists => [db[k] EXCEPT !.face = 1 - @].exists
      BY DEF TypeOK, Row
    <2>2. QED
      BY <1>1, <1>4, <1>6, <1>7, <1>8, <2>1 DEF EditRow, DisturbIf
  <1>9. CASE EditSwitch(t)
    <2>1. db[k].exists => [db[k] EXCEPT !.template = thr[t].row.template].exists
      BY DEF TypeOK, Row
    <2>2. QED
      BY <1>1, <1>4, <1>7, <1>9, <2>1 DEF EditSwitch, DisturbIf
  <1>10. QED
    BY <1>4, <1>5, <1>8, <1>9 DEF EditCheck

LEMMA ToggleUndisturbed ==
  ASSUME TypeOK, SoundThreads, OrderlyThreads, Undisturbed, NEW t \in Threads,
         ToggleRow(t) \/ ToggleUpdate(t)
  PROVE  Undisturbed'
  <1> USE DEF At
  <1>1. PICK k \in Instances : thr[t].i = k
    BY DEF ToggleRow, ToggleUpdate, SoundThreads, Sound, Unplaced
  <1>2. /\ thr[t].pc \in {"toggle.row", "toggle.update"} /\ UNCHANGED <<conf, disturbed>>
        /\ thr[t] \in Thread
    BY DEF ToggleRow, ToggleUpdate, history, TypeOK
  <1>3. thr[t].todo = {} /\ ~Ending(t, k) /\ ~Committing(t, k)
    <2>1. thr[t].todo = {}
      BY <1>2, NothingToStop DEF Detaching
    <2>2. QED
      BY <1>2, <2>1 DEF Ending, Committing
  <1>4. ASSUME NEW after, Moves(t, after), after.i \in {k, NoInstance}, after.todo = {},
               after.pc \notin StartWindow \cup {"delete.row", "delete.remove"},
               \A j \in Instances : j # k => Untouched(j), RowStands(k), ServerStands(k)
        PROVE  Undisturbed'
    <2>1. thr'[t] = after
      BY <1>4 DEF Moves, TypeOK
    <2>2. Quiet(t, k) /\ ReadStands(t, k)'
      BY <1>3, <1>4, <2>1 DEF Quiet, Purging, ReadStands
    <2>3. k \notin disturbed' => Well(k)'
      BY <1>2, <1>4, <2>2, MovesWell DEF Undisturbed
    <2>4. QED
      BY <1>1, <1>2, <1>3, <1>4, <2>1, <2>3, StepUndisturbed
  <1>5. CASE ToggleRow(t) /\ Moves(t, Failed(t)) /\ UNCHANGED db
    BY <1>1, <1>2, <1>3, <1>5, EndsFields, EndsQuiet, LooksUndisturbed DEF ToggleRow
  <1>6. CASE ToggleRow(t) /\ ~(Moves(t, Failed(t)) /\ UNCHANGED db)
    <2>1. PICK start, restart \in BOOLEAN :
            /\ Commits(k, [db[k] EXCEPT !.autoStart = start, !.autoRestart = restart])
            /\ Moves(t, [thr[t] EXCEPT !.pc = "toggle.update",
                                       !.row = [db[k] EXCEPT !.autoStart = start, !.autoRestart = restart]])
      BY <1>1, <1>6 DEF ToggleRow
    <2>2. PICK row : row = [db[k] EXCEPT !.autoStart = start, !.autoRestart = restart]
      OBVIOUS
    <2>3. /\ row.exists = db[k].exists /\ row.template = db[k].template
          /\ row.desired = db[k].desired /\ row.lastStarted = db[k].lastStarted
      BY <2>2 DEF TypeOK, Row
    <2>4. db' = [db EXCEPT ![k] = row] /\ UNCHANGED <<cont, conf>>
      BY <1>6, <2>1, <2>2 DEF Commits, ToggleRow
    <2>5. RowStands(k) /\ ServerStands(k) /\ \A j \in Instances : j # k => Untouched(j)
      BY <2>3, <2>4 DEF RowStands, ServerStands, Alive, Up, Untouched, TypeOK
    <2> DEFINE after == [thr[t] EXCEPT !.pc = "toggle.update", !.row = row]
    <2>6. after.i = k /\ after.todo = {} /\ after.pc = "toggle.update" /\ Moves(t, after)
      BY <1>1, <1>2, <1>3, <2>1, <2>2 DEF Thread
    <2> HIDE DEF after
    <2>7. QED
      BY <1>4, <2>5, <2>6 DEF StartWindow
  <1>7. CASE ToggleUpdate(t)
    <2>1. \/ UNCHANGED cont
          \/ cont' = [cont EXCEPT ![k] = [cont[k] EXCEPT !.policy = PolicyOf(thr[t].row)]]
      BY <1>1, <1>7 DEF ToggleUpdate, Becomes
    <2>2. /\ cont'[k].status = cont[k].status /\ cont'[k].template = cont[k].template
          /\ cont'[k].runs = cont[k].runs
          /\ \A j \in Instances : j # k => cont'[j] = cont[j]
      BY <2>1 DEF TypeOK, Container
    <2>3. UNCHANGED <<db, conf>>
      BY <1>7 DEF ToggleUpdate
    <2>4. RowStands(k) /\ ServerStands(k) /\ \A j \in Instances : j # k => Untouched(j)
      BY <2>2, <2>3 DEF RowStands, ServerStands, Alive, Up, Untouched
    <2>5. /\ Moves(t, Finished(t)) /\ Finished(t).i = NoInstance /\ Finished(t).todo = {}
          /\ Finished(t).pc \notin StartWindow \cup {"delete.row", "delete.remove"}
      BY <1>3, <1>7, EndsNowhere DEF ToggleUpdate, Finished, Resting, StartWindow
    <2>6. QED
      BY <1>4, <2>4, <2>5
  <1>8. QED
    BY <1>5, <1>6, <1>7

LEMMA CreateRowUndisturbed ==
  ASSUME TypeOK, SoundThreads, OrderlyThreads, Undisturbed, NEW t \in Threads, CreateRow(t)
  PROVE  Undisturbed'
  <1> USE DEF At
  <1>1. /\ thr[t].pc = "create.row" /\ thr[t].todo = {} /\ thr[t].row.exists
        /\ UNCHANGED <<cont, conf>> /\ disturbed \subseteq disturbed'
    BY NothingToStop DEF CreateRow, DisturbIf, Detaching, OrderlyThreads, Orderly
  <1>2. ASSUME NEW k \in Instances, NEW after, Moves(t, after), after.i \in {k, NoInstance},
               after.pc \in {"idle", "sleep", "create.aside"},
               \A j \in Instances : j # k => Untouched(j), k \notin disturbed' => Well(k)'
        PROVE  Undisturbed'
    <2>1. thr'[t] = after
      BY <1>2 DEF Moves, TypeOK
    <2>2. ASSUME NEW j \in Instances, j # k, j \notin disturbed'
          PROVE  Well(j)'
      <3>1. Well(j) /\ RowStands(j) /\ ServerStands(j)
        BY <1>1, <1>2, <2>2, UntouchedStands DEF Undisturbed
      <3>2. Quiet(t, j) /\ ReadStands(t, j)'
        BY <1>1, <1>2, <2>1 DEF Quiet, Ending, Committing, Purging, ReadStands, StartWindow
      <3>3. QED
        BY <1>2, <3>1, <3>2, MovesWell
    <2>3. QED
      BY <1>2, <2>2 DEF Undisturbed
  <1>3. ASSUME NEW k \in Instances, ~db[k].exists, Commits(k, thr[t].row),
               Moves(t, [Resting(t) EXCEPT !.pc = "create.aside", !.i = k])
        PROVE  Undisturbed'
    <2> DEFINE after == [Resting(t) EXCEPT !.pc = "create.aside", !.i = k]
    <2>1. after.pc = "create.aside" /\ after.i = k /\ thr'[t] = after
      BY <1>3 DEF Resting, Moves, TypeOK
    <2>2. Moves(t, after)
      BY <1>3
    <2> HIDE DEF after
    <2>3. \A j \in Instances : j # k => Untouched(j)
      BY <1>1, <1>3 DEF Untouched, Commits, TypeOK
    <2>4. ASSUME k \notin disturbed'
          PROVE  Well(k)'
      <3>1. Well(k)
        BY <1>1, <2>4 DEF Undisturbed
      <3>2. ~Alive(k)'
        BY <1>1, <1>3, <3>1 DEF Well, Told, Alive
      <3>3. ~Starting(t, k)
        BY <1>3, <3>1 DEF Well, ReadStands, Starting
      <3>4. ReadStands(t, k)'
        BY <2>1 DEF ReadStands, StartWindow
      <3>5. QED
        BY <2>2, <3>1, <3>2, <3>3, <3>4, MovesRead, DownWell
    <2>5. QED
      BY <1>2, <2>1, <2>2, <2>3, <2>4
  <1>4. CASE Moves(t, Resting(t)) /\ UNCHANGED <<db, disturbed>>
    <2>1. /\ thr'[t].i = NoInstance /\ Resting(t).pc \in {"idle", "sleep"}
      BY <1>4, EndsFields DEF Resting
    <2>2. ASSUME NEW j \in Instances, j \notin disturbed
          PROVE  Well(j)'
      <3>1. Well(j) /\ RowStands(j) /\ ServerStands(j)
        BY <1>1, <1>4, <2>2, UntouchedStands DEF Undisturbed, Untouched
      <3>2. Quiet(t, j) /\ ReadStands(t, j)'
        BY <1>1, <2>1, EndsQuiet DEF Ending, Committing
      <3>3. QED
        BY <1>4, <3>1, <3>2, MovesWell
    <2>3. QED
      BY <1>4, <2>2 DEF Undisturbed
  <1>5. QED
    BY <1>3, <1>4 DEF CreateRow

LEMMA CreateAsideUndisturbed ==
  ASSUME TypeOK, SoundThreads, OrderlyThreads, Undisturbed, NEW t \in Threads, CreateAside(t)
  PROVE  Undisturbed'
  <1> USE DEF At
  <1>1. PICK k \in Instances : thr[t].i = k
    BY DEF CreateAside, SoundThreads, Sound, Unplaced
  <1>2. /\ thr[t].pc = "create.aside" /\ thr[t].todo = {} /\ UNCHANGED <<cont, conf>>
        /\ disturbed \subseteq disturbed' /\ Moves(t, Resting(t))
    BY NothingToStop DEF CreateAside, DisturbIf, Detaching
  <1>3. thr'[t].i = NoInstance /\ thr'[t].i # k
    BY <1>2, EndsFields, ThreadsAssumption
  <1>4. CASE UNCHANGED db
    BY <1>1, <1>2, <1>3, <1>4, EndsQuiet, LooksUndisturbed DEF Ending, Committing
  <1>5. CASE Commits(k, Blank) /\ DisturbIf(Alive(k) \/ Starting(t, k), k)
    <2>1. \A j \in Instances : j # k => Untouched(j)
      BY <1>2, <1>5 DEF Untouched, Commits, TypeOK
    <2>2. ASSUME k \notin disturbed'
          PROVE  Well(k)'
      <3>1. Well(k) /\ ~Starting(t, k) /\ ~Alive(k)
        BY <1>5, <2>2 DEF DisturbIf, Undisturbed
      <3>2. \A u \in Threads : ReadStands(u, k)'
        BY <1>2, <1>3, <3>1, MovesRead DEF ReadStands
      <3>3. QED
        BY <1>2, <3>1, <3>2, DownWell DEF Alive
    <2>3. QED
      BY <1>1, <1>2, <1>3, <2>1, <2>2, StepUndisturbed
  <1>6. QED
    BY <1>1, <1>4, <1>5 DEF CreateAside

\* What deleting a template writes: unlinked, and stopped, on every server.
LEMMA UnlinkedFields ==
  ASSUME TypeOK, NEW T, NEW j \in Instances
  PROVE  /\ Unlinked(T)[j].exists = db[j].exists
         /\ j \notin On(T) => Unlinked(T)[j] = db[j]
  BY DEF Unlinked, TypeOK, Row

LEMMA DetachRowsUndisturbed ==
  ASSUME TypeOK, SoundThreads, OrderlyThreads, Undisturbed, NEW t \in Threads, DetachRows(t)
  PROVE  Undisturbed'
  <1> USE DEF At
  <1> DEFINE T == thr[t].template
             after == [thr[t] EXCEPT !.pc = "detach.next", !.todo = On(T)]
  <1>1. /\ thr[t].pc = "detach.row" /\ thr[t].todo = {} /\ UNCHANGED <<cont, conf>>
        /\ db' = Unlinked(T) /\ Moves(t, after)
        /\ disturbed' = disturbed \cup {i \in On(T) : Starting(t, i)}
    BY DEF DetachRows, OrderlyThreads, Orderly
  <1>2. after.pc = "detach.next" /\ after.todo = On(T) /\ thr'[t] = after
    BY <1>1 DEF Moves, TypeOK, Thread
  <1> HIDE DEF T, after
  <1>3. ASSUME NEW j \in Instances, j \notin disturbed'
        PROVE  Well(j)'
    <2>1. Well(j) /\ ~Committing(t, j) /\ ~Purging(t, j)' /\ ReadStands(t, j)'
      BY <1>1, <1>2, <1>3 DEF Undisturbed, Committing, Purging, ReadStands, StartWindow
    <2>2. CASE j \in On(T)
      <3>1. ~Starting(t, j) /\ Ending(t, j)' /\ thr'[t].pc \notin StartWindow
        BY <1>1, <1>2, <1>3, <2>2 DEF Ending, StartWindow
      <3>2. db'[j].exists = db[j].exists /\ (Alive(j)' => Alive(j))
        BY <1>1, UnlinkedFields DEF Alive
      <3>3. QED
        BY <1>1, <2>1, <3>1, <3>2, SetsOutWell
    <2>3. CASE j \notin On(T)
      <3>1. RowStands(j) /\ ServerStands(j)
        BY <1>1, <2>3, UnlinkedFields, UntouchedStands DEF Untouched
      <3>2. Quiet(t, j)
        BY <1>1, <2>1 DEF Quiet, Ending
      <3>3. QED
        BY <1>1, <2>1, <3>1, <3>2, MovesWell
    <2>4. QED
      BY <2>2, <2>3
  <1>4. QED
    BY <1>3 DEF Undisturbed

LEMMA DetachNextUndisturbed ==
  ASSUME TypeOK, SoundThreads, OrderlyThreads, Undisturbed, NEW t \in Threads, DetachNext(t)
  PROVE  Undisturbed'
  <1> USE DEF At
  <1>1. /\ thr[t].pc = "detach.next" /\ UNCHANGED <<db, cont, conf>> /\ thr[t] \in Thread
        /\ disturbed \subseteq disturbed'
    BY DEF DetachNext, DisturbIf, TypeOK
  <1>2. ASSUME NEW after, Moves(t, after),
               after.pc \in {"detach.next", "detach.drop", "stop.row"},
               \A j \in Instances : Ending(t, j) /\ j \notin disturbed' => Ending(t, j)'
        PROVE  Undisturbed'
    <2>1. thr'[t] = after
      BY <1>2 DEF Moves, TypeOK
    <2>2. ASSUME NEW j \in Instances, j \notin disturbed'
          PROVE  Well(j)'
      <3>1. Well(j) /\ RowStands(j) /\ ServerStands(j)
        BY <1>1, <2>2, UntouchedStands DEF Undisturbed, Untouched
      <3>2. Quiet(t, j) /\ ReadStands(t, j)'
        BY <1>1, <1>2, <2>1, <2>2 DEF Quiet, Committing, Purging, ReadStands, StartWindow
      <3>3. QED
        BY <1>2, <3>1, <3>2, MovesWell
    <2>3. QED
      BY <2>2 DEF Undisturbed
  <1>3. ASSUME NEW j \in Instances
        PROVE  Ending(t, j) <=> j \in thr[t].todo
    BY <1>1 DEF Ending
  <1>4. CASE thr[t].todo = {} /\ Goto(t, "detach.drop")
    <2> DEFINE after == [thr[t] EXCEPT !.pc = "detach.drop"]
    <2>1. Moves(t, after) /\ after.pc = "detach.drop"
      BY <1>1, <1>4 DEF Goto, Thread
    <2> HIDE DEF after
    <2>2. QED
      BY <1>2, <1>3, <1>4, <2>1
  <1>5. ASSUME NEW i \in thr[t].todo, Moves(t, [thr[t] EXCEPT !.todo = @ \ {i}]), i \in disturbed'
        PROVE  Undisturbed'
    <2> DEFINE after == [thr[t] EXCEPT !.todo = @ \ {i}]
    <2>1. Moves(t, after) /\ after.pc = "detach.next" /\ after.todo = thr[t].todo \ {i} /\ thr'[t] = after
      BY <1>1, <1>5 DEF Moves, TypeOK, Thread
    <2> HIDE DEF after
    <2>2. \A j \in Instances : Ending(t, j) /\ j \notin disturbed' => Ending(t, j)'
      BY <1>3, <1>5, <2>1 DEF Ending
    <2>3. QED
      BY <1>2, <2>1, <2>2
  <1>6. ASSUME NEW i \in thr[t].todo,
               Moves(t, [thr[t] EXCEPT !.pc = "stop.row", !.i = i, !.todo = @ \ {i}])
        PROVE  Undisturbed'
    <2> DEFINE after == [thr[t] EXCEPT !.pc = "stop.row", !.i = i, !.todo = @ \ {i}]
    <2>1. /\ Moves(t, after) /\ after.pc = "stop.row" /\ after.i = i /\ thr'[t] = after
          /\ after.todo = thr[t].todo \ {i} /\ after.template = thr[t].template
      BY <1>1, <1>6 DEF Moves, TypeOK, Thread
    <2>2. thr[t].template # NoTemplate
      BY <1>6 DEF OrderlyThreads, Orderly
    <2> HIDE DEF after
    <2>3. \A j \in Instances : Ending(t, j) => Ending(t, j)'
      BY <1>3, <2>1, <2>2 DEF Ending
    <2>4. QED
      BY <1>2, <2>1, <2>3
  <1>7. QED
    BY <1>4, <1>5, <1>6 DEF DetachNext, DisturbIf

LEMMA DropTemplateUndisturbed ==
  ASSUME TypeOK, SoundThreads, OrderlyThreads, Undisturbed, NEW t \in Threads, DropTemplate(t)
  PROVE  Undisturbed'
  <1> USE DEF At
  <1> DEFINE T == thr[t].template
  <1>1. /\ thr[t].pc = "detach.drop" /\ thr[t].todo = {} /\ UNCHANGED <<cont, conf>>
        /\ Moves(t, Resting(t))
        /\ \/ UNCHANGED <<db, disturbed>>
           \/ /\ db' = Unlinked(T)
              /\ disturbed' = disturbed \cup {i \in On(T) : Starting(t, i) \/ Alive(i)}
    BY DEF DropTemplate, OrderlyThreads, Orderly
  <1>2. thr'[t].i = NoInstance
    BY <1>1, EndsFields
  <1> HIDE DEF T
  <1>3. ASSUME NEW j \in Instances, j \notin disturbed'
        PROVE  Well(j)'
    <2>1. Well(j) /\ Quiet(t, j) /\ ReadStands(t, j)'
      BY <1>1, <1>2, <1>3, EndsQuiet DEF Undisturbed, Ending, Committing
    <2>2. CASE db'[j] = db[j]
      <3>1. RowStands(j) /\ ServerStands(j)
        BY <1>1, <2>2, UntouchedStands DEF Untouched
      <3>2. QED
        BY <1>1, <2>1, <3>1, MovesWell
    <2>3. CASE db'[j] # db[j]
      <3>1. ~Starting(t, j) /\ ~Alive(j)
        BY <1>1, <1>3, <2>3, UnlinkedFields
      <3>2. QED
        BY <1>1, <2>1, <3>1, MovesRead, DownWell DEF Alive
    <2>4. QED
      BY <2>2, <2>3
  <1>4. QED
    BY <1>3 DEF Undisturbed

LEMMA ThreadUndisturbed ==
  ASSUME TypeOK, SoundThreads, OrderlyThreads, Handles, Undisturbed, NEW t \in Threads, ThreadStep(t)
  PROVE  Undisturbed'
  BY StartStepUndisturbed, StopRowUndisturbed, FindUndisturbed, StopKillUndisturbed,
     RemoveContainerUndisturbed, DeleteRowUndisturbed, EditUndisturbed, ToggleUndisturbed,
     CreateRowUndisturbed, CreateAsideUndisturbed, DetachRowsUndisturbed, DetachNextUndisturbed,
     DropTemplateUndisturbed DEF ThreadStep, StopStep

\* Threads that rest, and go to the first step of an operation or to none.
LEMMA RestedUndisturbed ==
  ASSUME TypeOK, OrderlyThreads, Undisturbed, NEW t \in Threads, NEW after, Moves(t, after),
         thr[t].pc \in {"idle", "sleep", "next"},
         after.pc \notin StartWindow \cup {"delete.row", "delete.remove"},
         UNCHANGED <<db, cont, conf, disturbed>>
  PROVE  Undisturbed'
  <1>1. thr'[t] = after /\ thr[t].todo = {}
    BY NothingToStop DEF Moves, TypeOK, Detaching
  <1>2. ASSUME NEW j \in Instances, j \notin disturbed
        PROVE  Well(j)'
    <2>1. Well(j) /\ RowStands(j) /\ ServerStands(j)
      BY <1>2, UntouchedStands DEF Undisturbed, Untouched
    <2>2. Quiet(t, j) /\ ReadStands(t, j)'
      BY <1>1 DEF Quiet, Ending, Committing, Purging, ReadStands, At
    <2>3. QED
      BY <2>1, <2>2, MovesWell
  <1>3. QED
    BY <1>2 DEF Undisturbed

LEMMA UnmovedUndisturbed ==
  ASSUME Undisturbed, UNCHANGED <<thr, disturbed>>,
         \A j \in Instances : RowStands(j) /\ (ServerStands(j) \/ ~Alive(j)')
  PROVE  Undisturbed'
  <1> SUFFICES ASSUME NEW j \in Instances, j \notin disturbed
               PROVE  Well(j)'
    BY DEF Undisturbed
  <1>1. Well(j) /\ RowStands(j) /\ \A u \in Threads : Quiet(u, j) /\ ReadStands(u, j)'
    BY SameThread DEF Undisturbed, Well
  <1>2. QED
    BY <1>1, WellKept, DownWell

LEMMA StillUndisturbed ==
  ASSUME Undisturbed, UNCHANGED <<db, cont, conf, thr, disturbed>>
  PROVE  Undisturbed'
  BY UntouchedStands, UnmovedUndisturbed DEF Untouched

LEMMA MonitorUndisturbed ==
  ASSUME TypeOK, OrderlyThreads, Undisturbed, MonitorStep
  PROVE  Undisturbed'
  <1> USE DEF At, Goto
  <1>1. Monitor \in Threads /\ thr[Monitor] \in Thread
    BY DEF Threads, TypeOK
  <1>2. /\ UNCHANGED <<db, cont, conf, disturbed>>
        /\ thr[Monitor].pc \in {"sleep", "next"}
    BY DEF MonitorStep, RecoverBegin, ScheduleBegin, PassEnd, RecoverLook, NotDue, Due, history
  <1>3. /\ \A pc : [thr[Monitor] EXCEPT !.pc = pc].pc = pc
        /\ \A i : [thr[Monitor] EXCEPT !.pc = "start.read", !.i = i].pc = "start.read"
        /\ \A i : [thr[Monitor] EXCEPT !.pc = "stop.row", !.i = i, !.again = TRUE].pc = "stop.row"
    BY <1>1 DEF Thread
  <1>4. CASE UNCHANGED thr
    BY <1>2, <1>4, StillUndisturbed
  <1>5. CASE RecoverBegin \/ ScheduleBegin \/ PassEnd
    <2>1. ASSUME NEW pc \in {"sleep", "next"}, Moves(Monitor, [thr[Monitor] EXCEPT !.pc = pc])
          PROVE  Undisturbed'
      BY <1>1, <1>2, <1>3, <2>1, RestedUndisturbed DEF StartWindow
    <2>2. QED
      BY <1>4, <1>5, <2>1 DEF RecoverBegin, ScheduleBegin, PassEnd
  <1>6. ASSUME NEW i \in Instances, RecoverLook(i) \/ NotDue(i) \/ Due(i)
        PROVE  Undisturbed'
    BY <1>1, <1>2, <1>3, <1>4, <1>6, RestedUndisturbed DEF RecoverLook, NotDue, Due, StartWindow
  <1>7. QED
    BY <1>5, <1>6 DEF MonitorStep

LEMMA AdminUndisturbed ==
  ASSUME TypeOK, OrderlyThreads, Undisturbed, AdminStep
  PROVE  Undisturbed'
  <1> USE DEF At
  <1>1. ASSUME NEW i \in Instances, Rename(i)
        PROVE  Undisturbed'
    <2>1. db' = [db EXCEPT ![i] = [db[i] EXCEPT !.face = 1 - @]] /\ UNCHANGED <<cont, conf, thr, disturbed>>
      BY <1>1 DEF Rename, Commits, history
    <2>2. \A j \in Instances : /\ db'[j].exists = db[j].exists /\ db'[j].template = db[j].template
                               /\ db'[j].desired = db[j].desired /\ db'[j].lastStarted = db[j].lastStarted
      BY <2>1 DEF TypeOK, Row
    <2>3. \A j \in Instances : RowStands(j) /\ ServerStands(j)
      BY <2>1, <2>2 DEF RowStands, ServerStands, Alive, Up
    <2>4. QED
      BY <2>1, <2>3, UnmovedUndisturbed
  <1>2. ASSUME NEW t \in Admins, NEW kind \in Kinds, NEW i \in Instances, Ask(t, kind, i)
        PROVE  Undisturbed'
    <2> DEFINE after == [Resting(t) EXCEPT !.pc = FirstStep(kind), !.i = i,
                                           !.again = (kind = "restart")]
    <2>1. /\ after.pc \notin StartWindow \cup {"delete.row", "delete.remove"} /\ Moves(t, after)
          /\ thr[t].pc = "idle" /\ UNCHANGED <<db, cont, conf, disturbed>> /\ t \in Threads
      BY <1>2 DEF Ask, Resting, ServerKinds, FirstStep, StartWindow, history, Threads
    <2> HIDE DEF after
    <2>2. QED
      BY <2>1, RestedUndisturbed
  <1>3. ASSUME NEW t \in Admins, NEW T \in Templates, AskDetach(t, T) \/ AskCreate(t, T)
        PROVE  Undisturbed'
    <2>1. thr[t].pc = "idle" /\ UNCHANGED <<db, cont, conf, disturbed>> /\ t \in Threads
      BY <1>3 DEF AskDetach, AskCreate, history, Threads
    <2>2. /\ [Resting(t) EXCEPT !.pc = "detach.row", !.template = T].pc = "detach.row"
          /\ \A row : [Resting(t) EXCEPT !.pc = "create.row", !.row = row].pc = "create.row"
      BY DEF Resting
    <2>3. QED
      BY <1>3, <2>1, <2>2, RestedUndisturbed DEF AskDetach, AskCreate, StartWindow
  <1>4. QED
    BY <1>1, <1>2, <1>3 DEF AdminStep

\* A process that is gone was at work on nothing that is left undisturbed.
LEMMA GoneUndisturbed ==
  ASSUME TypeOK, Undisturbed, Gone, UNCHANGED <<db, conf>>,
         \A j \in Instances : ServerStands(j)
  PROVE  Undisturbed'
  <1> SUFFICES ASSUME NEW j \in Instances, j \notin disturbed'
               PROVE  Well(j)'
    BY DEF Undisturbed
  <1>1. \A u \in Threads : thr'[u].i = NoInstance
    BY EndsNowhere DEF Gone
  <1>2. Well(j) /\ RowStands(j)
    BY DEF Gone, Undisturbed, RowStands
  <1>3. ASSUME NEW u \in Threads
        PROVE  thr[u].i # j /\ j \notin thr[u].todo
    BY ThreadsAssumption DEF Gone, Busy
  <1>4. ASSUME NEW u \in Threads
        PROVE  Quiet(u, j) /\ ReadStands(u, j)'
    BY <1>1, <1>3, ThreadsAssumption DEF Quiet, Ending, Committing, Purging, ReadStands
  <1>5. QED
    BY <1>2, <1>4, WellKept

LEMMA ProcessUndisturbed ==
  ASSUME TypeOK, Undisturbed, ProcessStep
  PROVE  Undisturbed'
  <1>1. CASE ShutdownBegin \/ Exit \/ Boot
    BY <1>1, StillUndisturbed DEF ShutdownBegin, Exit, Boot, history
  <1>2. ASSUME NEW i \in Instances, ShutdownStop(i)
        PROVE  Undisturbed'
    <2>1. UNCHANGED <<db, conf, thr, disturbed>> /\ Stopped(i)
      BY <1>2 DEF ShutdownStop, history
    <2>2. [cont[i] EXCEPT !.status = "exited"].status = "exited"
      BY DEF TypeOK, Container
    <2>3. ~Alive(i)' /\ \A j \in Instances : j # i => Untouched(j)
      BY <2>1, <2>2 DEF Stopped, Becomes, TypeOK, Alive, Untouched
    <2>4. \A j \in Instances : RowStands(j)
      BY <2>1 DEF RowStands
    <2>5. QED
      BY <2>1, <2>3, <2>4, UntouchedStands, UnmovedUndisturbed
  <1>3. ASSUME NEW i \in Instances, ShutdownRemove(i)
        PROVE  Undisturbed'
    <2>1. /\ UNCHANGED <<db, conf, disturbed>> /\ cont' = [cont EXCEPT ![i] = NoContainer]
          /\ \A u \in Threads : IF thr[u].i = i /\ thr[u].held = "live"
                                THEN thr'[u] = [thr[u] EXCEPT !.held = "dead"]
                                ELSE thr'[u] = thr[u]
      BY <1>3 DEF ShutdownRemove, Becomes, history
    <2>2. ASSUME NEW u \in Threads
          PROVE  /\ thr'[u].pc = thr[u].pc /\ thr'[u].i = thr[u].i /\ thr'[u].row = thr[u].row
                 /\ thr'[u].todo = thr[u].todo
                 /\ thr[u].i # i => thr'[u] = thr[u]
      BY <2>1 DEF TypeOK, Thread
    <2>3. ASSUME NEW j \in Instances, j \notin disturbed
          PROVE  Well(j)'
      <3>1. Well(j) /\ RowStands(j) /\ (j # i => ServerStands(j))
        BY <2>1, <2>3, UntouchedStands DEF Undisturbed, RowStands, Untouched, TypeOK
      <3>2. \A u \in Threads : ReadStands(u, j)'
        BY <2>2, <3>1, ReadKept DEF Well
      <3>3. CASE j = i
        BY <2>1, <3>2, <3>3, DownWell DEF TypeOK, Alive, NoContainer
      <3>4. CASE j # i
        <4>1. \A u \in Threads : Quiet(u, j)
          BY <2>2, <3>4, Away, SameThread
        <4>2. QED
          BY <3>1, <3>2, <3>4, <4>1, WellKept
      <3>5. QED
        BY <3>3, <3>4
    <2>4. QED
      BY <2>1, <2>3 DEF Undisturbed
  <1>4. CASE Kill
    <2>1. Gone /\ UNCHANGED <<db, cont, conf>>
      BY <1>4 DEF Kill
    <2>2. \A j \in Instances : ServerStands(j)
      BY <2>1, UntouchedStands DEF Untouched
    <2>3. QED
      BY <2>1, <2>2, GoneUndisturbed
  <1>5. CASE HostReboot
    <2>1. Gone /\ UNCHANGED <<db, conf>>
      BY <1>5, Zenon DEF HostReboot
    <2>2. ASSUME NEW j \in Instances
          PROVE  ServerStands(j)
      <3>1. cont'[j] = IF ~Alive(j) THEN cont[j]
                       ELSE IF cont[j].policy = "unless-stopped"
                            THEN [cont[j] EXCEPT !.status = "running", !.runs = conf[j]]
                            ELSE [cont[j] EXCEPT !.status = "exited"]
        BY <1>5 DEF HostReboot
      <3>2. /\ cont'[j].template = cont[j].template
            /\ Alive(j) => cont'[j].status = "exited" \/ cont'[j].runs = conf[j]
            /\ ~Alive(j) => cont'[j] = cont[j]
        BY <3>1 DEF TypeOK, Container
      <3>3. QED
        BY <3>2 DEF ServerStands, Alive, Up
    <2>3. QED
      BY <2>1, <2>2, GoneUndisturbed
  <1>6. QED
    BY <1>1, <1>2, <1>3, <1>4, <1>5 DEF ProcessStep

LEMMA DaemonUndisturbed ==
  ASSUME TypeOK, Undisturbed, DaemonStep
  PROVE  Undisturbed'
  <1>1. ASSUME NEW i \in Instances, ServerExits(i)
        PROVE  Undisturbed'
    <2>1. PICK status : /\ status \in {"restarting", "exited"}
                        /\ cont' = [cont EXCEPT ![i] = [cont[i] EXCEPT !.status = status]]
      BY <1>1 DEF ServerExits, Becomes
    <2>2. Up(i) /\ UNCHANGED <<db, conf, thr, disturbed>>
      BY <1>1 DEF ServerExits, history
    <2>3. cont'[i].status = status /\ cont'[i].template = cont[i].template
      BY <2>1 DEF TypeOK, Container
    <2>4. ServerStands(i) /\ \A j \in Instances : j # i => Untouched(j)
      BY <2>1, <2>2, <2>3 DEF ServerStands, Alive, Up, Untouched, TypeOK
    <2>5. \A j \in Instances : RowStands(j)
      BY <2>2 DEF RowStands
    <2>6. QED
      BY <2>2, <2>4, <2>5, UntouchedStands, UnmovedUndisturbed
  <1>2. ASSUME NEW i \in Instances, DockerRestarts(i)
        PROVE  Undisturbed'
    <2>1. /\ cont' = [cont EXCEPT ![i] = [cont[i] EXCEPT !.status = "running", !.runs = conf[i]]]
          /\ cont[i].status = "restarting" /\ UNCHANGED <<db, conf, thr, disturbed>>
      BY <1>2 DEF DockerRestarts, ServerRuns, Becomes
    <2>2. cont'[i].template = cont[i].template /\ cont'[i].runs = conf[i]
      BY <2>1 DEF TypeOK, Container
    <2>3. ServerStands(i) /\ \A j \in Instances : j # i => Untouched(j)
      BY <2>1, <2>2 DEF ServerStands, Alive, Up, Untouched, TypeOK
    <2>4. \A j \in Instances : RowStands(j)
      BY <2>1 DEF RowStands
    <2>5. QED
      BY <2>1, <2>3, <2>4, UntouchedStands, UnmovedUndisturbed
  <1>3. QED
    BY <1>1, <1>2 DEF DaemonStep

LEMMA NextUndisturbed ==
  ASSUME TypeOK, SoundThreads, OrderlyThreads, Handles, Undisturbed, [Next]_vars
  PROVE  Undisturbed'
  <1>1. CASE UNCHANGED vars
    BY <1>1, StillUndisturbed DEF vars
  <1>2. QED
    BY <1>1, ThreadUndisturbed, MonitorUndisturbed, AdminUndisturbed, ProcessUndisturbed,
       DaemonUndisturbed DEF Next

LEMMA InitUndisturbed == Init => Undisturbed
  <1> SUFFICES ASSUME Init, NEW i \in Instances
               PROVE  Well(i)
    BY DEF Undisturbed
  <1>1. ~Alive(i)
    BY DEF Init, NoContainer, Alive
  <1>2. \A t \in Threads : thr[t].pc \notin StartWindow
    BY DEF Init, Resting, StartWindow
  <1>3. QED
    BY <1>1, <1>2 DEF Well, Told, ReadStands

\* What is not being worked on has no thread to excuse it.
LEMMA IdleAgrees ==
  ASSUME TypeOK, Undisturbed
  PROVE  SettledAgree
  <1> SUFFICES ASSUME NEW i \in Instances, Idle(i), i \notin disturbed, Alive(i)
               PROVE  Agree(i)
    BY DEF SettledAgree, Agree
  <1>1. \A t \in Threads : ~Ending(t, i) /\ ~Committing(t, i)
    BY DEF Idle, Ending, Committing
  <1>2. db[i].exists /\ Same(i)
    BY <1>1 DEF Undisturbed, Well, Told
  <1>3. QED
    BY <1>1, <1>2, ThreadsAssumption DEF Same, Agree

\* Whatever the API, the monitor, a shutdown and Docker do to a server, in
\* whatever order: once nobody works on it, what is up is a server that exists,
\* should be running and runs the template its row and the last start name.
THEOREM SettledHolds == Spec => []SettledAgree
  <1> DEFINE IInv == TypeOK /\ SoundThreads /\ OrderlyThreads /\ Handles /\ Undisturbed
  <1>1. Init => IInv
    BY InitType, InitLinked, InitUndisturbed
  <1>2. IInv /\ [Next]_vars => IInv'
    BY NextType, NextOrderly, NextHandles, NextUndisturbed
  <1>3. IInv => SettledAgree
    BY IdleAgrees
  <1>4. QED
    BY <1>1, <1>2, <1>3, PTL DEF Spec
=============================================================================
