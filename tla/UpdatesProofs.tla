--------------------------- MODULE UpdatesProofs ---------------------------
(* Theorems about Updates for every set of branches and requests, and      *)
(* however many jobs, builds, checks and faults.                            *)
EXTENDS Updates, FiniteSetTheorems, TLAPS

USE BoundsAssumption, LimitsAssumption, NamesAssumption

-----------------------------------------------------------------------------
(* Types.                                                                  *)

LEMMA BoundsType == MaxJobs \in Nat /\ MaxBuild \in Nat /\ 1 \in 1..MaxBuild /\ 0 \in Builds
  BY DEF BoundsAssumption, Builds

LEMMA SomeBranchType == SomeBranch \in Branches
  BY DEF NamesAssumption, SomeBranch

LEMMA NoSettingsType == NoSettings \in Settings /\ NoSettings.found \in [Branches -> Builds]
  BY BoundsType DEF NoSettings, Settings

LEMMA IdleType == Idle \in Call /\ NoCheck \in Check
  BY SomeBranchType, NoSettingsType, BoundsType DEF Idle, Call, NoCheck, Check, Toggles

\* A request begins with what it is about.
LEMMA AskedType ==
  ASSUME NEW b \in Branches
  PROVE  /\ [Idle EXCEPT !.pc = "start.check", !.branch = b] \in Call
         /\ [Idle EXCEPT !.pc = "remove.files", !.branch = b] \in Call
  BY IdleType DEF Idle, Call

LEMMA SavesType ==
  ASSUME NEW s \in Settings, NEW k \in Toggles, NEW v \in BOOLEAN
  PROVE  [Idle EXCEPT !.pc = "save.write", !.snap = s, !.toggle = k, !.value = v] \in Call
  BY IdleType DEF Idle, Call

LEMMA ToggledType ==
  ASSUME NEW s \in Settings, NEW k \in Toggles, NEW v \in BOOLEAN
  PROVE  [s EXCEPT !.on[k] = v] \in Settings
  BY DEF Settings

LEMMA RecordedType ==
  ASSUME NEW s \in Settings, NEW f \in [Branches -> Builds]
  PROVE  [s EXCEPT !.found = f] \in Settings
  BY DEF Settings

LEMMA UpdateType ==
  ASSUME NEW b \in Branches, NEW n \in Builds
  PROVE  [Idle EXCEPT !.pc = "start.check", !.branch = b, !.target = n] \in Call
  BY IdleType DEF Idle, Call

LEMMA SpendType ==
  ASSUME NEW k \in DOMAIN Limits, TypeOK, Spend(k)
  PROVE  budget' \in [DOMAIN Limits -> Nat]
  BY DEF Spend, TypeOK

LEMMA SpentType ==
  ASSUME NEW b \in Branches, TypeOK, SeemsStopped(b)
  PROVE  budget' \in [DOMAIN Limits -> Nat]
  <1>1. CASE Spend("requests")
    BY <1>1, SpendType DEF LimitsAssumption
  <1>2. CASE /\ budget["requests"] > 0 /\ budget["faults"] > 0
             /\ budget' = [budget EXCEPT !["requests"] = @ - 1, !["faults"] = @ - 1]
    <2>1. DOMAIN Limits = {"requests", "checks", "faults"}
      BY DEF LimitsAssumption
    <2>2. budget \in [DOMAIN Limits -> Nat]
      BY DEF TypeOK
    <2>3. budget["requests"] - 1 \in Nat /\ budget["faults"] - 1 \in Nat
      BY <1>2, <2>1, <2>2
    <2>4. \A k \in DOMAIN Limits :
            budget'[k] = IF k = "faults" THEN budget["faults"] - 1
                         ELSE IF k = "requests" THEN budget["requests"] - 1 ELSE budget[k]
      BY <1>2, <2>1, <2>2
    <2>5. budget' = [k \in DOMAIN Limits |-> budget'[k]]
      BY <1>2, <2>2
    <2>6. \A k \in DOMAIN Limits : budget'[k] \in Nat
      BY <2>2, <2>3, <2>4
    <2> QED
      BY <2>5, <2>6
  <1> QED
    BY <1>1, <1>2 DEF SeemsStopped

LEMMA KindsOfLimits == {"requests", "checks", "faults"} = DOMAIN Limits
  BY DEF LimitsAssumption

LEMMA DoesType ==
  ASSUME NEW c \in Callers, NEW r \in Call, TypeOK, Does(c, r)
  PROVE  call' \in [Callers -> Call]
  BY DEF Does, TypeOK

LEMMA EndsType ==
  ASSUME NEW c \in Callers, TypeOK, Ends(c)
  PROVE  call' \in [Callers -> Call]
  BY IdleType, DoesType DEF Ends

LEMMA GotoType ==
  ASSUME NEW c \in Callers, TypeOK, NEW pc, Goto(c, pc),
         pc \in {"idle", "start.check", "start.query", "start.register", "wait", "toggle",
                 "restart", "remove.files", "remove.job", "save.write"}
  PROVE  call' \in [Callers -> Call]
  <1>1. \A r \in Call : [r EXCEPT !.pc = pc] \in Call
    BY DEF Call
  <1>2. [call[c] EXCEPT !.pc = pc] \in Call
    BY <1>1 DEF TypeOK
  <1> QED
    BY <1>2 DEF Goto, TypeOK

\* The fields of a caller, of the check and of a job.
LEMMA Fields ==
  ASSUME TypeOK
  PROVE  /\ \A c \in Callers :
              /\ call[c] \in Call
              /\ call[c].branch \in Branches /\ call[c].target \in Builds
              /\ call[c].snap \in Settings /\ call[c].toggle \in Toggles
              /\ call[c].value \in BOOLEAN
         /\ \A j \in Jobs :
              /\ job[j] \in Job /\ job[j].branch \in Branches /\ job[j].goal \in Builds
              /\ job[j].result \in {"success", "error"}
              /\ box[j] \in Box /\ box[j].build \in Builds
         /\ check.snap \in Settings /\ check.found \in [Branches -> Builds]
         /\ check.branch \in Branches /\ check.updated \subseteq Branches
         /\ settings.on \in [Toggles -> BOOLEAN]
         /\ \A b \in Branches : steam[b] \in Builds /\ disk[b] \in Builds
         /\ Branches \subseteq Callers /\ Admins \subseteq Callers
  BY DEF TypeOK, Call, Job, Box, Check, Settings, Callers, Builds

LEMMA InitType == Init => TypeOK
  <1> SUFFICES ASSUME Init PROVE TypeOK
    OBVIOUS
  <1>1. steam \in [Branches -> 1..MaxBuild] /\ disk \in [Branches -> Builds]
    BY BoundsType DEF Init, Builds
  <1>2. server \in [Branches -> [wanted: BOOLEAN, build: Builds]]
    BY BoundsType DEF Init, Builds
  <1>3. job \in [Jobs -> Job] /\ box \in [Jobs -> Box]
    BY BoundsType, SomeBranchType DEF Init, Job, Box
  <1>4. settings \in Settings
    BY NoSettingsType DEF Init, Settings, NoSettings
  <1>5. slot \in [Branches -> Jobs \cup {NoJob}] /\ cleaned \in BOOLEAN
    BY DEF Init
  <1>6. call \in [Callers -> Call] /\ check \in Check
    BY IdleType DEF Init
  <1>7. budget \in [DOMAIN Limits -> Nat] /\ raced \subseteq Branches /\ left \subseteq Jobs
    BY DEF Init, LimitsAssumption
  <1> QED
    BY <1>1, <1>2, <1>3, <1>4, <1>5, <1>6, <1>7 DEF TypeOK

\* What the job of a step becomes has the type of a job.
LEMMA JobSteps ==
  ASSUME TypeOK, NEW j \in Jobs
  PROVE  /\ [job EXCEPT ![j].pc = "stream"] \in [Jobs -> Job]
         /\ [job EXCEPT ![j].pc = "finish"] \in [Jobs -> Job]
         /\ [job EXCEPT ![j].pc = "done"] \in [Jobs -> Job]
         /\ [job EXCEPT ![j].pc = "dead"] \in [Jobs -> Job]
         /\ [job EXCEPT ![j].pc = "remove", ![j].result = "error"] \in [Jobs -> Job]
         /\ [job EXCEPT ![j].pc = "remove", ![j].result = "success"] \in [Jobs -> Job]
         /\ [job EXCEPT ![j].pc = "cleanup", ![j].status = "error"] \in [Jobs -> Job]
         /\ [job EXCEPT ![j].pc = "done", ![j].status = job[j].result] \in [Jobs -> Job]
  <1>1. ASSUME NEW r \in Job
        PROVE  /\ [r EXCEPT !.pc = "stream"] \in Job
               /\ [r EXCEPT !.pc = "finish"] \in Job
               /\ [r EXCEPT !.pc = "done"] \in Job
               /\ [r EXCEPT !.pc = "dead"] \in Job
               /\ [r EXCEPT !.pc = "remove", !.result = "error"] \in Job
               /\ [r EXCEPT !.pc = "remove", !.result = "success"] \in Job
               /\ [r EXCEPT !.pc = "cleanup", !.status = "error"] \in Job
               /\ [r EXCEPT !.pc = "done", !.status = r.result] \in Job
    BY DEF Job
  <1>2. job[j] \in Job /\ job \in [Jobs -> Job]
    BY DEF TypeOK
  <1> QED
    BY <1>1, <1>2

LEMMA BoxSteps ==
  ASSUME TypeOK, NEW j \in Jobs
  PROVE  /\ [box EXCEPT ![j].status = "ok"] \in [Jobs -> Box]
         /\ [box EXCEPT ![j].status = "failed"] \in [Jobs -> Box]
         /\ [box EXCEPT ![j].status = "gone"] \in [Jobs -> Box]
         /\ [box EXCEPT ![j] = [status |-> "running", build |-> steam[job[j].branch]]]
              \in [Jobs -> Box]
  <1>1. steam[job[j].branch] \in Builds
    BY Fields
  <1> QED
    BY <1>1 DEF TypeOK, Box

\* Actions of the world outside.
LEMMA WorldType ==
  ASSUME TypeOK, NEW b \in Branches, World(b)
  PROVE  TypeOK'
  <1> USE Fields, KindsOfLimits
  <1>1. CASE Release(b)
    <2>1. steam' \in [Branches -> 1..MaxBuild]
      BY <1>1, BoundsType DEF Release, TypeOK
    <2> QED
      BY <1>1, <2>1 DEF Release, TypeOK, history
  <1>2. CASE StartServer(b)
    <2>1. budget' \in [DOMAIN Limits -> Nat]
      BY <1>2, SpendType DEF StartServer
    <2> QED
      BY <1>2, <2>1 DEF StartServer, TypeOK, history
  <1>3. CASE StopServer(b)
    <2>1. budget' \in [DOMAIN Limits -> Nat]
      BY <1>3, SpendType DEF StopServer
    <2> QED
      BY <1>3, <2>1, BoundsType DEF StopServer, TypeOK, history
  <1>4. CASE ServerExits(b)
    <2>1. budget' \in [DOMAIN Limits -> Nat]
      BY <1>4, SpendType DEF ServerExits
    <2>2. server' \in [Branches -> [wanted: BOOLEAN, build: Builds]]
      BY <1>4, BoundsType DEF ServerExits, TypeOK
    <2> QED
      BY <1>4, <2>1, <2>2 DEF ServerExits, TypeOK, history
  <1> QED
    BY <1>1, <1>2, <1>3, <1>4 DEF World

LEMMA BoxEndsType ==
  ASSUME TypeOK, NEW j \in Jobs, BoxEnds(j)
  PROVE  TypeOK'
  <1>1. box' \in [Jobs -> Box]
    <2>1. \/ box' = [box EXCEPT ![j].status = "ok"]
          \/ box' = [box EXCEPT ![j].status = "failed"]
      BY DEF BoxEnds
    <2> QED
      BY <2>1, BoxSteps, Zenon
  <1>2. disk' \in [Branches -> Builds]
    BY Fields DEF BoxEnds, TypeOK
  <1> QED
    BY <1>1, <1>2 DEF BoxEnds, TypeOK, history

LEMMA StartType ==
  ASSUME TypeOK, NEW c \in Callers, Start(c)
  PROVE  TypeOK'
  <1> USE Fields, KindsOfLimits
  <1>1. CASE StartCheck(c)
    <2>1. call' \in [Callers -> Call]
      BY <1>1, EndsType, GotoType DEF StartCheck
    <2> QED
      BY <1>1, <2>1 DEF StartCheck, TypeOK, world, history
  <1>2. CASE StartQuery(c)
    <2>1. call' \in [Callers -> Call]
      BY <1>2, EndsType, GotoType DEF StartQuery
    <2>2. raced' \subseteq Branches
      BY <1>2 DEF StartQuery, TypeOK
    <2>3. budget' \in [DOMAIN Limits -> Nat]
      BY <1>2, SpendType DEF StartQuery, TypeOK
    <2> QED
      BY <1>2, <2>1, <2>2, <2>3 DEF StartQuery, TypeOK, world
  <1>3. CASE StartRegister(c)
    <2> DEFINE b == call[c].branch
    <2>1. PICK j \in Jobs :
            /\ job' = [job EXCEPT ![j] = [branch |-> b, status |-> "running", pc |-> "create",
                                          result |-> "error", goal |-> steam[b]]]
            /\ slot' = [slot EXCEPT ![b] = j]
            /\ Does(c, IF c \in Branches THEN [call[c] EXCEPT !.pc = "wait", !.job = j] ELSE Idle)
      BY <1>3 DEF StartRegister
    <2>2. b \in Branches
      OBVIOUS
    <2> HIDE DEF b
    <2>3. [branch |-> b, status |-> "running", pc |-> "create",
           result |-> "error", goal |-> steam[b]] \in Job
      BY <2>2 DEF Job
    <2>4. job' \in [Jobs -> Job] /\ slot' \in [Branches -> Jobs \cup {NoJob}]
      BY <2>1, <2>2, <2>3 DEF TypeOK
    <2>5. \A r \in Call : [r EXCEPT !.pc = "wait", !.job = j] \in Call
      BY DEF Call
    <2>6. call' \in [Callers -> Call]
      BY <2>1, <2>5, IdleType, DoesType
    <2>7. raced' \subseteq Branches
      BY <1>3, <2>2 DEF StartRegister, TypeOK, b
    <2> QED
      BY <1>3, <2>4, <2>6, <2>7 DEF StartRegister, TypeOK, world
  <1> QED
    BY <1>1, <1>2, <1>3 DEF Start

LEMMA RunType ==
  ASSUME TypeOK, NEW j \in Jobs, Run(j)
  PROVE  TypeOK'
  <1> USE KindsOfLimits
  <1>1. CASE RunCreate(j)
    <2> DEFINE made == [box EXCEPT ![j] = [status |-> "running",
                                          build |-> steam[job[j].branch]]]
    <2>0. /\ \/ job' = [job EXCEPT ![j].pc = "stream"]
             \/ job' = [job EXCEPT ![j].pc = "finish"]
             \/ job' = [job EXCEPT ![j].pc = "dead"]
          /\ box' = made \/ box' = box
      BY <1>1 DEF RunCreate, RunGoes, Starts
    <2>1. job' \in [Jobs -> Job]
      <3>1. CASE job' = [job EXCEPT ![j].pc = "stream"]
        BY <3>1, JobSteps
      <3>2. CASE job' = [job EXCEPT ![j].pc = "finish"]
        BY <3>2, JobSteps
      <3>3. CASE job' = [job EXCEPT ![j].pc = "dead"]
        BY <3>3, JobSteps
      <3> QED
        BY <2>0, <3>1, <3>2, <3>3
    <2>2. box' \in [Jobs -> Box]
      <3>1. made \in [Jobs -> Box] /\ box \in [Jobs -> Box]
        BY BoxSteps DEF TypeOK
      <3> QED
        BY <2>0, <3>1, Zenon
    <2>3. raced' \subseteq Branches
      BY <1>1, Fields DEF RunCreate, Starts, TypeOK
    <2>4. budget' \in [DOMAIN Limits -> Nat]
      BY <1>1, SpendType DEF RunCreate, TypeOK
    <2> QED
      BY <1>1, <2>1, <2>2, <2>3, <2>4 DEF RunCreate, TypeOK, world
  <1>2. CASE RunEnds(j)
    <2>1. job' \in [Jobs -> Job]
      BY <1>2, JobSteps DEF RunEnds, Outcome
    <2> QED
      BY <1>2, <2>1 DEF RunEnds, TypeOK, world, history
  <1>3. CASE RunTimesOut(j)
    <2>1. job' \in [Jobs -> Job]
      BY <1>3, JobSteps DEF RunTimesOut
    <2> QED
      BY <1>3, <2>1 DEF RunTimesOut, TypeOK, world, history
  <1>4. CASE RunLost(j)
    <2>1. job' \in [Jobs -> Job]
      BY <1>4, JobSteps DEF RunLost
    <2>2. budget' \in [DOMAIN Limits -> Nat]
      BY <1>4, SpendType DEF RunLost, TypeOK
    <2> QED
      BY <1>4, <2>1, <2>2 DEF RunLost, TypeOK, world, history
  <1>5. CASE RunRemove(j)
    <2>1. job' \in [Jobs -> Job]
      <3>1. \/ job' = [job EXCEPT ![j].pc = "finish"]
            \/ job' = [job EXCEPT ![j].pc = "done"]
            \/ job' = [job EXCEPT ![j].pc = "dead"]
        BY <1>5 DEF RunRemove, RunGoes
      <3>2. /\ [job EXCEPT ![j].pc = "finish"] \in [Jobs -> Job]
            /\ [job EXCEPT ![j].pc = "done"] \in [Jobs -> Job]
            /\ [job EXCEPT ![j].pc = "dead"] \in [Jobs -> Job]
        BY JobSteps
      <3> QED
        BY <3>1, <3>2, Zenon
    <2>2. box' \in [Jobs -> Box]
      <3>1. box' = [box EXCEPT ![j].status = "gone"] \/ box' = box
        BY <1>5 DEF RunRemove
      <3>2. box \in [Jobs -> Box]
        BY DEF TypeOK
      <3> QED
        BY <3>1, <3>2, BoxSteps, Zenon
    <2>3. budget' \in [DOMAIN Limits -> Nat] /\ left' \subseteq Jobs
      BY <1>5, SpendType DEF RunRemove, TypeOK
    <2> QED
      BY <1>5, <2>1, <2>2, <2>3 DEF RunRemove, TypeOK, world
  <1>6. CASE RunFinish(j)
    <2>1. job' \in [Jobs -> Job]
      BY <1>6, JobSteps DEF RunFinish
    <2> QED
      BY <1>6, <2>1 DEF RunFinish, TypeOK, world, history
  <1> QED
    BY <1>1, <1>2, <1>3, <1>4, <1>5, <1>6 DEF Run

LEMMA RequestType ==
  ASSUME TypeOK, NEW a \in Admins, Request(a)
  PROVE  TypeOK'
  <1> USE Fields, KindsOfLimits
  <1>1. ASSUME NEW b \in Branches, AskDownload(a, b) PROVE TypeOK'
    <2>1. call' \in [Callers -> Call]
      BY <1>1, AskedType, DoesType DEF AskDownload
    <2>2. budget' \in [DOMAIN Limits -> Nat]
      BY <1>1, SpendType DEF AskDownload
    <2> QED
      BY <1>1, <2>1, <2>2 DEF AskDownload, TypeOK, world, history
  <1>2. ASSUME NEW b \in Branches, AskRemove(a, b) PROVE TypeOK'
    <2>1. call' \in [Callers -> Call]
      BY <1>2, AskedType, DoesType DEF AskRemove
    <2>2. budget' \in [DOMAIN Limits -> Nat]
      BY <1>2, SpentType DEF AskRemove
    <2> QED
      BY <1>2, <2>1, <2>2 DEF AskRemove, TypeOK, world, history
  <1>3. CASE AskSave(a)
    <2>1. PICK k \in Toggles :
            Does(a, [Idle EXCEPT !.pc = "save.write", !.snap = settings, !.toggle = k,
                                 !.value = ~settings.on[k]])
      BY <1>3 DEF AskSave
    <2>2. call' \in [Callers -> Call]
      <3>1. settings \in Settings /\ (~settings.on[k]) \in BOOLEAN
        BY DEF TypeOK
      <3> QED
        BY <2>1, <3>1, SavesType, DoesType
    <2>3. budget' \in [DOMAIN Limits -> Nat]
      BY <1>3, SpendType DEF AskSave
    <2> QED
      BY <1>3, <2>2, <2>3 DEF AskSave, TypeOK, world, history
  <1>4. CASE RemoveFiles(a)
    <2>1. call' \in [Callers -> Call]
      BY <1>4, EndsType, GotoType DEF RemoveFiles
    <2>2. budget' \in [DOMAIN Limits -> Nat]
      BY <1>4, SpendType DEF RemoveFiles, TypeOK
    <2>3. disk' \in [Branches -> Builds]
      BY <1>4, BoundsType DEF RemoveFiles, TypeOK
    <2>4. \A r \in Job : [r EXCEPT !.goal = 0] \in Job
      BY BoundsType DEF Job
    <2>5. job' \in [Jobs -> Job]
      <3> DEFINE b == call[a].branch
                 emptied == [k \in Jobs |-> IF job[k].branch = b THEN [job[k] EXCEPT !.goal = 0]
                                           ELSE job[k]]
      <3>1. job' = emptied \/ job' = job
        BY <1>4 DEF RemoveFiles
      <3>2. job \in [Jobs -> Job]
        BY DEF TypeOK
      <3>3. emptied \in [Jobs -> Job]
        BY <2>4, <3>2
      <3> QED
        BY <3>1, <3>2, <3>3, Zenon
    <2> QED
      BY <1>4, <2>1, <2>2, <2>3, <2>5 DEF RemoveFiles, TypeOK, history
  <1>5. CASE RemoveJob(a)
    <2>1. call' \in [Callers -> Call]
      BY <1>5, EndsType DEF RemoveJob
    <2> QED
      BY <1>5, <2>1 DEF RemoveJob, TypeOK, world, history
  <1>6. CASE SaveWrite(a)
    <2>1. call' \in [Callers -> Call]
      BY <1>6, EndsType DEF SaveWrite
    <2>2. settings' \in Settings
      BY <1>6, ToggledType DEF SaveWrite
    <2> QED
      BY <1>6, <2>1, <2>2 DEF SaveWrite, TypeOK, world
  <1> QED
    BY <1>1, <1>2, <1>3, <1>4, <1>5, <1>6 DEF Request

LEMMA CheckingType ==
  ASSUME TypeOK, StartDue \/ Checking
  PROVE  TypeOK'
  <1> USE KindsOfLimits
  <1>0. check \in Check
    BY DEF TypeOK
  <1>1. CASE StartDue
    <2>1. [NoCheck EXCEPT !.pc = "ask", !.todo = Branches] \in Check
      BY IdleType DEF NoCheck, Check
    <2>2. budget' \in [DOMAIN Limits -> Nat]
      BY <1>1, SpendType DEF StartDue
    <2> QED
      BY <1>1, <2>1, <2>2 DEF StartDue, TypeOK, world, history
  <1>2. CASE CheckInstalled
    <2>1. PICK b \in check.todo :
            check' = IF disk[b] = 0 THEN [check EXCEPT !.todo = @ \ {b}]
                     ELSE [check EXCEPT !.pc = "latest", !.todo = @ \ {b}, !.branch = b,
                                        !.installed = disk[b]]
      BY <1>2 DEF CheckInstalled
    <2>2. b \in Branches /\ disk[b] \in Builds
      BY <1>0, Fields DEF Check
    <2>3. /\ [check EXCEPT !.todo = @ \ {b}] \in Check
          /\ [check EXCEPT !.pc = "latest", !.todo = @ \ {b}, !.branch = b,
                           !.installed = disk[b]] \in Check
      BY <1>0, <2>2 DEF Check
    <2>4. check' \in Check
      BY <2>1, <2>3
    <2> QED
      BY <1>2, <2>4 DEF CheckInstalled, TypeOK, world, history
  <1>3. CASE CheckLatest
    <2> DEFINE b == check.branch
               updated == IF steam[b] # check.installed THEN check.updated \cup {b}
                          ELSE check.updated
    <2>1. \/ check' = [check EXCEPT !.pc = "ask", !.found[b] = steam[b], !.updated = updated]
          \/ check' = [check EXCEPT !.pc = "ask"]
          \/ check' = NoCheck
      BY <1>3 DEF CheckLatest
    <2>2. b \in Branches /\ steam[b] \in Builds /\ updated \in SUBSET Branches
      BY Fields
    <2> HIDE DEF b, updated
    <2>5. /\ [check EXCEPT !.pc = "ask", !.found[b] = steam[b], !.updated = updated] \in Check
          /\ [check EXCEPT !.pc = "ask"] \in Check
      BY <1>0, <2>2 DEF Check
    <2>3. check' \in Check
      BY <2>1, <2>5, IdleType
    <2>4. budget' \in [DOMAIN Limits -> Nat]
      BY <1>3, SpendType DEF CheckLatest, TypeOK
    <2> QED
      BY <1>3, <2>3, <2>4 DEF CheckLatest, TypeOK, world, history
  <1>4. CASE RecordRead
    <2>1. [check EXCEPT !.pc = "write", !.snap = settings] \in Check
      BY <1>0 DEF TypeOK, Check
    <2> QED
      BY <1>4, <2>1 DEF RecordRead, TypeOK, world, history
  <1>5. CASE RecordWrite
    <2>1. settings' \in Settings
      BY <1>5, Fields, RecordedType DEF RecordWrite
    <2>2. call' \in [Callers -> Call]
      <3> DEFINE started(c) == [Idle EXCEPT !.pc = "start.check", !.branch = c,
                                            !.target = check.found[c]]
                 begin == {b \in check.updated :
                             check.snap.on["auto_download"] /\ call[b].pc = "idle"}
      <3>1. call' = [c \in Callers |-> IF c \in begin THEN started(c) ELSE call[c]]
        BY <1>5 DEF RecordWrite
      <3>2. \A c \in begin : started(c) \in Call
        BY Fields, UpdateType
      <3>3. \A c \in Callers : call[c] \in Call
        BY Fields
      <3> HIDE DEF started, begin
      <3> QED
        BY <3>1, <3>2, <3>3
    <2> QED
      BY <1>5, <2>1, <2>2, IdleType DEF RecordWrite, TypeOK, world, history
  <1> QED
    BY <1>1, <1>2, <1>3, <1>4, <1>5 DEF Checking

LEMMA AutoType ==
  ASSUME TypeOK, NEW b \in Branches, UpdateTask(b)
  PROVE  TypeOK'
  <1>0. b \in Callers
    BY DEF Callers
  <1>1. CASE AutoWait(b)
    <2>1. call' \in [Callers -> Call]
      BY <1>0, <1>1, EndsType, GotoType DEF AutoWait
    <2> QED
      BY <1>1, <2>1 DEF AutoWait, TypeOK, world, history
  <1>2. CASE AutoToggle(b)
    <2>1. call' \in [Callers -> Call]
      BY <1>0, <1>2, EndsType, GotoType DEF AutoToggle
    <2> QED
      BY <1>2, <2>1 DEF AutoToggle, TypeOK, world, history
  <1>3. CASE AutoRestart(b)
    <2>1. call' \in [Callers -> Call]
      BY <1>0, <1>3, EndsType DEF AutoRestart
    <2>2. server' \in [Branches -> [wanted: BOOLEAN, build: Builds]]
      BY <1>3 DEF AutoRestart, TypeOK
    <2> QED
      BY <1>3, <2>1, <2>2 DEF AutoRestart, TypeOK, history
  <1> QED
    BY <1>1, <1>2, <1>3 DEF UpdateTask

LEMMA CleanUpType ==
  ASSUME TypeOK, CleanUp
  PROVE  TypeOK'
  <1>1. \A r \in Box : [r EXCEPT !.status = "gone"] \in Box
    BY DEF Box
  <1>2. box' \in [Jobs -> Box]
    BY <1>1 DEF CleanUp, TypeOK
  <1> QED
    BY <1>2 DEF CleanUp, TypeOK, world, history

LEMMA RestartType ==
  ASSUME TypeOK, ManagerRestarts
  PROVE  TypeOK'
  <1>1. \A r \in Job : [r EXCEPT !.pc = "done", !.status = "error"] \in Job
    BY DEF Job
  <1>2. job' \in [Jobs -> Job]
    BY <1>1 DEF ManagerRestarts, TypeOK
  <1>3. budget' \in [DOMAIN Limits -> Nat]
    BY SpendType, KindsOfLimits DEF ManagerRestarts
  <1> QED
    BY <1>2, <1>3, IdleType DEF ManagerRestarts, TypeOK, world

LEMMA StepType == TypeOK /\ [Next]_vars => TypeOK'
  <1> SUFFICES ASSUME TypeOK, [Next]_vars PROVE TypeOK'
    OBVIOUS
  <1>1. CASE UNCHANGED vars
    BY <1>1 DEF vars, TypeOK
  <1>2. CASE Next
    BY <1>2, RequestType, StartType, RunType, BoxEndsType, AutoType, WorldType, CheckingType,
       CleanUpType, RestartType DEF Next
  <1> QED
    BY <1>1, <1>2

\* Every variable keeps to its type, whatever is asked, fails or restarts: a
\* task never polls a job that is none, the settings row and the check hold builds.
THEOREM TypeCorrect == Spec => []TypeOK
  BY InitType, StepType, PTL DEF Spec
-----------------------------------------------------------------------------
(* The inductive invariant.                                                *)

\* A job has a container from its create step on, and leaves one running only
\* when its removal failed, its task was cut short or the manager ended.
BoxesOfJobs ==
  \A j \in Jobs :
    /\ job[j].pc \in {"none", "create"} => box[j].status = "none"
    /\ box[j].status = "running" => job[j].pc \in {"stream", "remove", "cleanup", "dead"} \/ j \in left

\* What writes to the folder of b or is about to.
Writes(j, b) == job[j].branch = b /\ (job[j].pc = "create" \/ box[j].status = "running")

\* A branch has one writer, and none once a start has found none.
WritersAlone ==
  \A b \in Branches \ raced :
    /\ \A j, k \in Jobs : Writes(j, b) /\ Writes(k, b) => j = k
    /\ Asked(b) => \A j \in Jobs : ~(job[j].branch = b /\ box[j].status = "running")

\* No build comes before it is released, and whoever writes to a branch's folder
\* writes what every job so far was started for.
BuildsGrow ==
  /\ \A j \in Jobs : job[j].goal <= steam[job[j].branch]
  /\ \A j, k \in Jobs :
       job[j].branch = job[k].branch /\ job[j].branch \notin raced /\ box[k].status = "running"
         => job[j].goal <= box[k].build
  /\ \A b \in Branches : check.found[b] <= steam[b] /\ call[b].target <= steam[b]

\* What a finished container, or a job that believes it, left on disk.
Installed(j) == job[j].branch \in raced \/ disk[job[j].branch] >= job[j].goal
GoalsReached ==
  \A j \in Jobs :
    /\ box[j].status = "ok" \/ job[j].result = "success" => Installed(j)
    /\ job[j].status = "success" => job[j].result = "success" /\ job[j].pc = "done"

\* The task of a branch is about that branch, and about a job it started itself.
TasksOfBranches ==
  \A b \in Branches :
    /\ call[b].pc # "idle" => call[b].branch = b
    /\ call[b].pc \in {"wait", "toggle", "restart"} =>
         LET j == call[b].job IN
         /\ j \in Jobs /\ job[j].branch = b /\ job[j].pc # "none"
         /\ job[j].goal = 0 \/ call[b].target <= job[j].goal
    /\ call[b].pc \in {"toggle", "restart"} => job[call[b].job].status = "success"

Inv == BoxesOfJobs /\ WritersAlone /\ BuildsGrow /\ GoalsReached /\ TasksOfBranches

-----------------------------------------------------------------------------
(* What a step does to one caller, one job and its container.              *)

LEMMA CallTypes ==
  ASSUME TypeOK
  PROVE  /\ call \in [Callers -> Call] /\ Branches \subseteq Callers /\ Admins \subseteq Callers
         /\ job \in [Jobs -> Job] /\ box \in [Jobs -> Box]
         /\ \A b \in Branches : steam[b] \in Int /\ disk[b] \in Int
         /\ \A j \in Jobs : job[j].branch \in Branches /\ job[j].goal \in Int /\ box[j].build \in Int
         /\ \A c \in Callers : call[c].branch \in Branches /\ call[c].target \in Int
         /\ \A b \in Branches : check.found[b] \in Int
  <1>1. Builds \subseteq Int
    BY DEF Builds
  <1> QED
    BY <1>1, Fields DEF TypeOK

LEMMA EndsAt ==
  ASSUME TypeOK, NEW c \in Callers, Ends(c)
  PROVE  /\ \A d \in Callers \ {c} : call'[d] = call[d]
         /\ call'[c].pc = "idle" /\ call'[c].target = 0
  BY CallTypes DEF Ends, Does, Idle

LEMMA GotoAt ==
  ASSUME TypeOK, NEW c \in Callers, NEW pc, Goto(c, pc)
  PROVE  /\ \A d \in Callers \ {c} : call'[d] = call[d]
         /\ call'[c].pc = pc /\ call'[c].branch = call[c].branch
         /\ call'[c].target = call[c].target /\ call'[c].job = call[c].job
  <1>1. \A r \in Call : LET s == [r EXCEPT !.pc = pc] IN
          s.pc = pc /\ s.branch = r.branch /\ s.target = r.target /\ s.job = r.job
    BY DEF Call
  <1> QED
    BY <1>1, CallTypes DEF Goto

\* A step of _run: what it makes of the job's step, result and status and of its
\* container; no other job notices.
RunDoes(j) ==
  /\ \A k \in Jobs \ {j} : job'[k] = job[k] /\ box'[k] = box[k]
  /\ job'[j].branch = job[j].branch /\ job'[j].goal = job[j].goal
  /\ UNCHANGED <<steam, disk, call, check>>
  /\ job[j].pc \notin {"none", "done", "dead"} /\ job'[j].pc \notin {"none", "create"}
  /\ \/ /\ job[j].pc = "create" /\ job'[j].pc \in {"stream", "dead"}
        /\ box'[j] = [status |-> "running", build |-> steam[job[j].branch]]
        /\ job'[j].result = job[j].result /\ job'[j].status = job[j].status
        /\ raced' = IF Asked(job[j].branch) THEN raced \cup {job[j].branch} ELSE raced
        /\ left' = left
     \/ /\ job[j].pc = "create" /\ box'[j] = box[j]
        /\ job'[j].result = job[j].result /\ job'[j].status = job[j].status
        /\ UNCHANGED history
     \/ /\ job[j].pc = "stream" /\ job'[j].pc = "remove" /\ box'[j] = box[j]
        /\ job'[j].result = "success" => box[j].status = "ok"
        /\ job'[j].status = job[j].status
        /\ UNCHANGED history
     \/ /\ job[j].pc = "stream" /\ job'[j].pc = "cleanup" /\ box'[j] = box[j]
        /\ job'[j].result = job[j].result /\ job'[j].status = "error"
        /\ UNCHANGED history
     \/ /\ job[j].pc \in {"remove", "cleanup"}
        /\ job'[j].result = job[j].result /\ job'[j].status = job[j].status
        /\ \/ box'[j].status = "gone" /\ left' = left
           \/ box'[j] = box[j] /\ left' = left \cup {j}
           \/ box'[j] = box[j] /\ job'[j].pc = "dead" /\ left' = left
        /\ raced' = raced
     \/ /\ job[j].pc = "finish" /\ job'[j].pc = "done" /\ box'[j] = box[j]
        /\ job'[j].result = job[j].result /\ job'[j].status = job[j].result
        /\ UNCHANGED history

LEMMA RunSteps ==
  ASSUME TypeOK, NEW j \in Jobs, Run(j)
  PROVE  RunDoes(j)
  <1> USE CallTypes DEF history, RunDoes
  <1>1. CASE RunCreate(j)
    BY <1>1 DEF RunCreate, RunGoes, Starts, world, Job
  <1>2. CASE RunEnds(j)
    BY <1>2 DEF RunEnds, Outcome, world, Job
  <1>3. CASE RunTimesOut(j)
    BY <1>3 DEF RunTimesOut, world, Job
  <1>4. CASE RunLost(j)
    BY <1>4 DEF RunLost, world, Job
  <1>5. CASE RunRemove(j)
    BY <1>5 DEF RunRemove, RunGoes, world, Job, Box
  <1>6. CASE RunFinish(j)
    BY <1>6 DEF RunFinish, world, Job
  <1> QED
    BY <1>1, <1>2, <1>3, <1>4, <1>5, <1>6 DEF Run

-----------------------------------------------------------------------------
(* Steps that leave alone what a part of the invariant is about.           *)

LEMMA WritersKept ==
  ASSUME BoxesOfJobs, WritersAlone, UNCHANGED <<job, box>>, raced \subseteq raced', left \subseteq left',
         \A c \in Callers : call'[c].pc = "start.register" =>
           \/ call[c].pc = "start.register" /\ call'[c].branch = call[c].branch
           \/ Running(call'[c].branch) = {} \/ call'[c].branch \in raced'
  PROVE  BoxesOfJobs' /\ WritersAlone'
  <1>1. BoxesOfJobs'
    BY DEF BoxesOfJobs
  <1>2. ASSUME NEW b \in Branches \ raced', Asked(b)'
        PROVE  \A j \in Jobs : ~(job[j].branch = b /\ box[j].status = "running")
    <2>1. b \notin raced
      OBVIOUS
    <2>2. PICK c \in Callers : call'[c].pc = "start.register" /\ call'[c].branch = b
      BY <1>2 DEF Asked, At
    <2>3. CASE call[c].pc = "start.register" /\ call[c].branch = b
      BY <2>1, <2>3 DEF WritersAlone, Asked, At
    <2>4. CASE Running(b) = {}
      BY <2>4 DEF Running
    <2> QED
      BY <2>2, <2>3, <2>4
  <1> QED
    BY <1>1, <1>2 DEF WritersAlone, Writes

LEMMA BuildsKept ==
  ASSUME TypeOK, TypeOK', BuildsGrow, UNCHANGED <<job, box>>, raced \subseteq raced',
         \A b \in Branches : /\ steam[b] <= steam'[b]
                             /\ check'.found[b] <= steam'[b]
                             /\ call'[b].target <= steam'[b]
  PROVE  BuildsGrow'
  <1>1. \A b \in Branches : steam[b] \in Int /\ steam'[b] \in Int
    BY DEF TypeOK
  <1> QED
    BY <1>1, CallTypes DEF BuildsGrow

LEMMA GoalsKept ==
  ASSUME GoalsReached, UNCHANGED <<job, box, disk>>, raced \subseteq raced'
  PROVE  GoalsReached'
  BY DEF GoalsReached, Installed

\* A task goes on with the job it has, or is about none.
LEMMA TasksKept ==
  ASSUME TasksOfBranches, UNCHANGED job,
         \A b \in Branches :
           \/ call'[b] = call[b]
           \/ call'[b].pc = "idle"
           \/ call'[b].pc \in {"start.check", "start.query", "start.register"}
                /\ call'[b].branch = b
           \/ /\ call[b].pc \in {"wait", "toggle"} /\ call'[b].pc \in {"toggle", "restart"}
              /\ call'[b].branch = call[b].branch /\ call'[b].target = call[b].target
              /\ call'[b].job = call[b].job
              /\ job[call[b].job].status = "success"
  PROVE  TasksOfBranches'
  BY DEF TasksOfBranches

-----------------------------------------------------------------------------
(* The steps that matter to it.                                            *)

LEMMA StepStart ==
  ASSUME TypeOK, TypeOK', Inv, NEW c \in Callers, StartCheck(c) \/ StartQuery(c)
  PROVE  Inv'
  <1> USE CallTypes DEF Inv
  <1>1. /\ UNCHANGED <<steam, disk, job, box, check, left>>
        /\ raced \subseteq raced'
    BY DEF StartCheck, StartQuery, world, history
  <1>2. /\ \A d \in Callers \ {c} : call'[d] = call[d]
        /\ \/ call'[c].pc = "idle" /\ call'[c].target = 0
           \/ /\ call'[c].branch = call[c].branch /\ call'[c].target = call[c].target
              /\ call[c].pc # "idle"
              /\ \/ call'[c].pc = "start.query"
                 \/ /\ call'[c].pc = "start.register"
                    /\ Running(call[c].branch) = {} \/ call[c].branch \in raced'
    <2>1. CASE StartCheck(c)
      BY <2>1, EndsAt, GotoAt DEF StartCheck, At
    <2>2. CASE StartQuery(c)
      BY <2>2, EndsAt, GotoAt DEF StartQuery, At, Seen
    <2> QED
      BY <2>1, <2>2
  <1>3. BoxesOfJobs' /\ WritersAlone'
    BY <1>1, <1>2, WritersKept
  <1>4. BuildsGrow'
    <2>1. \A b \in Branches : /\ steam[b] <= steam'[b] /\ check'.found[b] <= steam'[b]
                              /\ call'[b].target <= steam'[b]
      BY <1>1, <1>2 DEF BuildsGrow, TypeOK
    <2> QED
      BY <1>1, <2>1, BuildsKept
  <1>5. GoalsReached'
    BY <1>1, GoalsKept
  <1>6. TasksOfBranches'
    <2>1. c \in Branches => call[c].branch = c \/ call'[c].pc = "idle"
      BY <1>2 DEF TasksOfBranches
    <2> QED
      BY <1>1, <1>2, <2>1, TasksKept
  <1> QED
    BY <1>3, <1>4, <1>5, <1>6

LEMMA StepRegister ==
  ASSUME TypeOK, TypeOK', Inv, NEW c \in Callers, StartRegister(c)
  PROVE  Inv'
  <1> USE CallTypes
  <1> DEFINE b == call[c].branch
  <1>1. PICK j \in Jobs :
          /\ job[j].pc = "none"
          /\ job' = [job EXCEPT ![j] = [branch |-> b, status |-> "running", pc |-> "create",
                                        result |-> "error", goal |-> steam[b]]]
          /\ Does(c, IF c \in Branches THEN [call[c] EXCEPT !.pc = "wait", !.job = j] ELSE Idle)
    BY DEF StartRegister
  <1>2. /\ UNCHANGED <<steam, disk, box, check, left>>
        /\ raced' = IF Unseen(b) THEN raced \cup {b} ELSE raced
        /\ call[c].pc = "start.register" /\ b \in Branches
    BY DEF StartRegister, world, At
  <1>3. /\ job'[j] = [branch |-> b, status |-> "running", pc |-> "create",
                      result |-> "error", goal |-> steam[b]]
        /\ \A k \in Jobs \ {j} : job'[k] = job[k]
        /\ box[j].status = "none"
    BY <1>1 DEF Inv, BoxesOfJobs
  <1>4. /\ \A d \in Callers \ {c} : call'[d] = call[d]
        /\ IF c \in Branches
           THEN /\ call'[c].pc = "wait" /\ call'[c].branch = b
                /\ call'[c].target = call[c].target /\ call'[c].job = j
           ELSE call'[c].pc = "idle"
    <2>1. \A r \in Call : LET s == [r EXCEPT !.pc = "wait", !.job = j] IN
            s.pc = "wait" /\ s.branch = r.branch /\ s.target = r.target /\ s.job = j
      BY DEF Call
    <2> QED
      BY <1>1, <2>1 DEF Does, Idle
  <1> HIDE DEF b
  <1>5. b \notin raced' =>
          /\ b \notin raced /\ Asked(b)
          /\ \A k \in Jobs : ~Writes(k, b)
    BY <1>2 DEF Inv, WritersAlone, Writes, Unseen, Asked, At, b
  <1>6. \A d \in Callers : call'[d].pc = "start.register" =>
          call[d].pc = "start.register" /\ call'[d].branch = call[d].branch
    BY <1>4
  <1>7. raced \subseteq raced'
    BY <1>2
  <1>8. BoxesOfJobs'
    BY <1>2, <1>3 DEF Inv, BoxesOfJobs
  <1>9. WritersAlone'
    <2>1. ASSUME NEW e \in Branches \ raced'
          PROVE  /\ \A k, l \in Jobs : Writes(k, e)' /\ Writes(l, e)' => k = l
                 /\ Asked(e)' => \A k \in Jobs : ~(job'[k].branch = e /\ box'[k].status = "running")
      <3>1. Asked(e)' => Asked(e)
        BY <1>6 DEF Asked, At
      <3>2. \A k \in Jobs : Writes(k, e)' => Writes(k, e) \/ (k = j /\ e = b)
        BY <1>2, <1>3 DEF Writes
      <3>3. \A k \in Jobs : job'[k].branch = e /\ box'[k].status = "running"
                              => job[k].branch = e /\ box[k].status = "running"
        BY <1>2, <1>3
      <3>4. e \in Branches \ raced
        BY <1>7
      <3> QED
        BY <1>5, <3>1, <3>2, <3>3, <3>4 DEF Inv, WritersAlone
    <2> QED
      BY <2>1 DEF WritersAlone
  <1>10. BuildsGrow'
    <2>1. \A k \in Jobs : job'[k].goal <= steam'[job'[k].branch]
      BY <1>2, <1>3 DEF Inv, BuildsGrow
    <2>2. ASSUME NEW k \in Jobs, NEW l \in Jobs, job'[k].branch = job'[l].branch,
                 job'[k].branch \notin raced', box'[l].status = "running"
          PROVE  job'[k].goal <= box'[l].build
      <3>1. l # j /\ job'[l] = job[l] /\ box' = box
        BY <1>2, <1>3, <2>2
      <3>2. k # j
        BY <1>3, <1>5, <2>2, <3>1 DEF Writes
      <3> QED
        BY <1>3, <1>7, <2>2, <3>1, <3>2 DEF Inv, BuildsGrow
    <2>3. \A e \in Branches : check'.found[e] <= steam'[e] /\ call'[e].target <= steam'[e]
      BY <1>2, <1>4 DEF Inv, BuildsGrow
    <2> QED
      BY <2>1, <2>2, <2>3 DEF BuildsGrow
  <1>11. GoalsReached'
    BY <1>2, <1>3, <1>7 DEF Inv, GoalsReached, Installed
  <1>12. TasksOfBranches'
    <2>1. \A e \in Branches \ {c} : call[e].pc \in {"wait", "toggle", "restart"} => call[e].job # j
      BY <1>1 DEF Inv, TasksOfBranches
    <2>2. c \in Branches => b = c /\ call[c].target <= steam[c]
      BY <1>2 DEF Inv, TasksOfBranches, BuildsGrow, b
    <2> QED
      BY <1>3, <1>4, <2>1, <2>2 DEF Inv, TasksOfBranches
  <1> QED
    BY <1>8, <1>9, <1>10, <1>11, <1>12 DEF Inv

LEMMA StepRun ==
  ASSUME TypeOK, TypeOK', Inv, NEW j \in Jobs, Run(j)
  PROVE  Inv'
  <1>0. RunDoes(j)
    BY RunSteps
  <1> USE CallTypes, <1>0 DEF RunDoes
  <1>1. raced \subseteq raced' /\ left \subseteq left'
    BY DEF history
  <1>2. BoxesOfJobs'
    BY DEF Inv, BoxesOfJobs, history
  <1>3. WritersAlone'
    <2>1. ASSUME NEW e \in Branches \ raced'
          PROVE  /\ \A k, l \in Jobs : Writes(k, e)' /\ Writes(l, e)' => k = l
                 /\ Asked(e)' => \A k \in Jobs : ~(job'[k].branch = e /\ box'[k].status = "running")
      <3>1. Asked(e)' <=> Asked(e)
        BY DEF Asked, At
      <3>2. \A k \in Jobs : Writes(k, e)' => Writes(k, e)
        BY DEF Writes
      <3>3. e \in Branches \ raced
        BY <1>1
      <3>4. Asked(e) => \A k \in Jobs : ~(job'[k].branch = e /\ box'[k].status = "running")
        BY <3>3 DEF Inv, WritersAlone
      <3> QED
        BY <3>1, <3>2, <3>3, <3>4 DEF Inv, WritersAlone
    <2> QED
      BY <2>1 DEF WritersAlone
  <1>4. BuildsGrow'
    <2>1. \A k \in Jobs : job'[k].branch = job[k].branch /\ job'[k].goal = job[k].goal
      OBVIOUS
    <2>2. ASSUME NEW k \in Jobs, box'[k].status = "running"
          PROVE  \/ box[k].status = "running" /\ box'[k].build = box[k].build
                 \/ box'[k].build = steam[job[k].branch]
      BY <2>2
    <2> QED
      BY <1>1, <2>1, <2>2 DEF Inv, BuildsGrow
  <1>5. GoalsReached'
    <2>1. \A k \in Jobs : Installed(k) => Installed(k)'
      BY <1>1 DEF Installed
    <2>2. ASSUME NEW k \in Jobs
          PROVE  /\ box'[k].status = "ok" => box[k].status = "ok"
                 /\ job'[k].result = "success" => box[k].status = "ok" \/ job[k].result = "success"
                 /\ job'[k].status = "success" => job'[k].result = "success" /\ job'[k].pc = "done"
      BY DEF Inv, GoalsReached
    <2> QED
      BY <2>1, <2>2 DEF Inv, GoalsReached
  <1>6. TasksOfBranches'
    BY DEF Inv, TasksOfBranches, GoalsReached
  <1> QED
    BY <1>2, <1>3, <1>4, <1>5, <1>6 DEF Inv

LEMMA StepBoxEnds ==
  ASSUME TypeOK, TypeOK', Inv, NEW j \in Jobs, BoxEnds(j)
  PROVE  Inv'
  <1> USE CallTypes
  <1>1. /\ UNCHANGED <<steam, job, call, check, raced, left>>
        /\ \A k \in Jobs \ {j} : box'[k] = box[k]
        /\ box[j].status = "running" /\ box'[j].status # "running"
        /\ box'[j].status \in {"ok", "failed"}
        /\ \/ disk' = [disk EXCEPT ![job[j].branch] = box[j].build]
           \/ box'[j].status = "failed" /\ disk' = disk
    BY DEF BoxEnds, history, Box
  <1>2. BoxesOfJobs' /\ WritersAlone'
    BY <1>1 DEF Inv, BoxesOfJobs, WritersAlone, Writes, Asked, At
  <1>3. BuildsGrow'
    BY <1>1 DEF Inv, BuildsGrow
  <1>4. GoalsReached'
    <2>1. \A k \in Jobs : Installed(k) => Installed(k)'
      BY <1>1 DEF Inv, BuildsGrow, Installed, TypeOK
    <2>2. box'[j].status = "ok" => Installed(j)'
      BY <1>1 DEF Inv, BuildsGrow, Installed, TypeOK
    <2> QED
      BY <1>1, <2>1, <2>2 DEF Inv, GoalsReached
  <1>5. TasksOfBranches'
    BY <1>1 DEF Inv, TasksOfBranches
  <1> QED
    BY <1>2, <1>3, <1>4, <1>5 DEF Inv

\* Files that are removed owe nobody a build.
LEMMA StepRemoveFiles ==
  ASSUME TypeOK, TypeOK', Inv, NEW a \in Admins, RemoveFiles(a)
  PROVE  Inv'
  <1> USE CallTypes
  <1> DEFINE b == call[a].branch
  <1>0. b \in Branches /\ a \notin Branches
    BY DEF NamesAssumption
  <1>1. /\ UNCHANGED <<steam, box, check, raced, left>>
        /\ call'[a].pc \in {"idle", "remove.job"}
        /\ \A d \in Callers \ {a} : call'[d] = call[d]
    BY EndsAt, GotoAt DEF RemoveFiles, history
  <1>2. \A j \in Jobs : /\ job'[j].branch = job[j].branch /\ job'[j].pc = job[j].pc
                        /\ job'[j].result = job[j].result /\ job'[j].status = job[j].status
                        /\ job'[j].goal = 0 \/ job'[j].goal = job[j].goal
                        /\ job[j].branch = b /\ disk' # disk => job'[j].goal = 0
    BY DEF RemoveFiles, Job
  <1>3. \A e \in Branches \ {b} : disk'[e] = disk[e]
    BY DEF RemoveFiles, TypeOK
  <1> HIDE DEF b
  <1>4. BoxesOfJobs' /\ WritersAlone'
    BY <1>1, <1>2 DEF Inv, BoxesOfJobs, WritersAlone, Writes, Asked, At
  <1>5. BuildsGrow'
    <2>1. /\ \A e \in Branches : steam[e] >= 0
          /\ \A k \in Jobs : box[k].build >= 0
      BY DEF TypeOK, Box, Builds
    <2> QED
      BY <1>0, <1>1, <1>2, <2>1 DEF Inv, BuildsGrow
  <1>6. GoalsReached'
    <2>1. \A e \in Branches : disk'[e] \in Int /\ disk'[e] >= 0
      BY DEF TypeOK, Builds
    <2>2. \A k \in Jobs : Installed(k) => Installed(k)'
      BY <1>1, <1>2, <1>3, <2>1 DEF Installed
    <2> QED
      BY <1>1, <1>2, <2>2 DEF Inv, GoalsReached
  <1>7. TasksOfBranches'
    BY <1>0, <1>1, <1>2 DEF Inv, TasksOfBranches
  <1> QED
    BY <1>4, <1>5, <1>6, <1>7 DEF Inv

LEMMA StepCleanUp ==
  ASSUME TypeOK, TypeOK', Inv, CleanUp
  PROVE  Inv'
  <1> USE CallTypes
  <1>1. /\ UNCHANGED <<steam, disk, job, call, check, raced, left>>
        /\ \A k \in Jobs : box'[k] = box[k] \/
                           (box'[k].status = "gone" /\ box[k].status \in {"ok", "failed"})
    BY DEF CleanUp, history, world, Box
  <1>2. BoxesOfJobs' /\ WritersAlone'
    BY <1>1 DEF Inv, BoxesOfJobs, WritersAlone, Writes, Asked, At
  <1>3. BuildsGrow'
    BY <1>1 DEF Inv, BuildsGrow
  <1>4. GoalsReached'
    BY <1>1 DEF Inv, GoalsReached, Installed
  <1>5. TasksOfBranches'
    BY <1>1 DEF Inv, TasksOfBranches
  <1> QED
    BY <1>2, <1>3, <1>4, <1>5 DEF Inv

LEMMA StepManagerRestarts ==
  ASSUME TypeOK, TypeOK', Inv, ManagerRestarts
  PROVE  Inv'
  <1> USE CallTypes
  <1>1. /\ UNCHANGED <<steam, disk, box, raced>>
        /\ left' = left \cup {j \in Jobs : job[j].pc \notin {"none", "done"}}
        /\ \A c \in Callers : call'[c].pc = "idle" /\ call'[c].target = 0
        /\ check'.found = [b \in Branches |-> 0]
    BY DEF ManagerRestarts, world, Idle, NoCheck
  <1>2. \A j \in Jobs :
          /\ job'[j].branch = job[j].branch /\ job'[j].goal = job[j].goal
          /\ job'[j].result = job[j].result
          /\ IF job[j].pc \in {"none", "done"} THEN job'[j] = job[j]
             ELSE job'[j].pc = "done" /\ job'[j].status = "error"
    BY DEF ManagerRestarts, Job
  <1>3. BoxesOfJobs'
    BY <1>1, <1>2 DEF Inv, BoxesOfJobs
  <1>4. WritersAlone'
    BY <1>1, <1>2 DEF Inv, WritersAlone, Writes, Asked, At
  <1>5. BuildsGrow'
    <2>1. \A e \in Branches : steam[e] >= 0
      BY DEF TypeOK
    <2> QED
      BY <1>1, <1>2, <2>1 DEF Inv, BuildsGrow
  <1>6. GoalsReached'
    BY <1>1, <1>2 DEF Inv, GoalsReached, Installed
  <1>7. TasksOfBranches'
    BY <1>1 DEF Inv, TasksOfBranches
  <1> QED
    BY <1>3, <1>4, <1>5, <1>6, <1>7 DEF Inv

\* What the users, the world and the check do: their tasks begin or go on.
LEMMA StepRequest ==
  ASSUME TypeOK, TypeOK', Inv, NEW a \in Admins, Request(a), ~RemoveFiles(a)
  PROVE  Inv'
  <1> USE CallTypes
  <1>0. a \notin Branches /\ Idle.target = 0
    BY DEF NamesAssumption, Idle
  <1>1. /\ UNCHANGED <<steam, disk, job, box, check, raced, left>>
        /\ \A d \in Callers \ {a} : call'[d] = call[d]
        /\ call'[a].pc # "start.register"
    <2>1. ASSUME NEW b \in Branches, AskDownload(a, b) PROVE <1>1
      BY <2>1 DEF AskDownload, Does, Idle, world, history
    <2>2. ASSUME NEW b \in Branches, AskRemove(a, b) PROVE <1>1
      BY <2>2 DEF AskRemove, Does, Idle, world, history
    <2>3. CASE AskSave(a)
      BY <2>3 DEF AskSave, Does, Idle, world, history
    <2>4. CASE RemoveJob(a)
      BY <2>4, EndsAt DEF RemoveJob, world, history
    <2>5. CASE SaveWrite(a)
      BY <2>5, EndsAt DEF SaveWrite, world, history
    <2> QED
      BY <2>1, <2>2, <2>3, <2>4, <2>5 DEF Request
  <1>2. \A b \in Branches : call'[b] = call[b]
    BY <1>0, <1>1
  <1>3. BoxesOfJobs' /\ WritersAlone'
    BY <1>1, WritersKept DEF Inv
  <1>4. BuildsGrow'
    BY <1>1, <1>2 DEF Inv, BuildsGrow
  <1>5. GoalsReached' /\ TasksOfBranches'
    BY <1>1, <1>2, GoalsKept, TasksKept DEF Inv
  <1> QED
    BY <1>3, <1>4, <1>5 DEF Inv

LEMMA StepWorld ==
  ASSUME TypeOK, TypeOK', Inv, NEW b \in Branches, World(b)
  PROVE  Inv'
  <1> USE CallTypes
  <1>1. UNCHANGED <<disk, job, box, call, check, raced, left>>
    BY DEF World, Release, StartServer, StopServer, ServerExits, history
  <1>2. \A e \in Branches : steam[e] <= steam'[e]
    <2>1. steam \in [Branches -> 1..MaxBuild]
      BY DEF TypeOK
    <2> QED
      BY <2>1 DEF World, Release, StartServer, StopServer, ServerExits
  <1>3. BoxesOfJobs' /\ WritersAlone' /\ GoalsReached' /\ TasksOfBranches'
    BY <1>1, WritersKept, GoalsKept, TasksKept DEF Inv
  <1>4. \A e \in Branches : steam[e] \in Int /\ steam'[e] \in Int
    BY DEF TypeOK
  <1>5. BuildsGrow'
    BY <1>1, <1>2, <1>4, BuildsKept DEF Inv, BuildsGrow
  <1> QED
    BY <1>3, <1>5 DEF Inv

LEMMA StepAuto ==
  ASSUME TypeOK, TypeOK', Inv, NEW b \in Branches, UpdateTask(b)
  PROVE  Inv'
  <1> USE CallTypes
  <1>1. /\ UNCHANGED <<steam, disk, job, box, check, raced, left>>
        /\ \A d \in Callers \ {b} : call'[d] = call[d]
        /\ \/ call'[b].pc = "idle" /\ call'[b].target = 0
           \/ /\ call[b].pc \in {"wait", "toggle"} /\ call'[b].pc \in {"toggle", "restart"}
              /\ call[b].pc = "wait" => job[call[b].job].status = "success"
              /\ call'[b].branch = call[b].branch /\ call'[b].target = call[b].target
              /\ call'[b].job = call[b].job
    <2>1. CASE AutoWait(b)
      BY <2>1, EndsAt, GotoAt DEF AutoWait, At, world, history
    <2>2. CASE AutoToggle(b)
      BY <2>2, EndsAt, GotoAt DEF AutoToggle, At, world, history
    <2>3. CASE AutoRestart(b)
      BY <2>3, EndsAt, GotoAt DEF AutoRestart, At, history
    <2> QED
      BY <2>1, <2>2, <2>3 DEF UpdateTask
  <1>2. call'[b].pc # "idle" => job[call[b].job].status = "success"
    BY <1>1 DEF Inv, TasksOfBranches
  <1>3. \A c \in Callers : call'[c].pc # "start.register" \/ call'[c] = call[c]
    BY <1>1
  <1>4. BoxesOfJobs' /\ WritersAlone'
    BY <1>1, <1>3, WritersKept DEF Inv
  <1>5. BuildsGrow'
    <2>1. \A e \in Branches : steam[e] >= 0
      BY DEF TypeOK
    <2>2. \A e \in Branches : call'[e].target <= steam[e]
      BY <1>1, <2>1 DEF Inv, BuildsGrow
    <2> QED
      BY <1>1, <2>2 DEF Inv, BuildsGrow
  <1>6. GoalsReached' /\ TasksOfBranches'
    BY <1>1, <1>2, GoalsKept, TasksKept DEF Inv
  <1> QED
    BY <1>4, <1>5, <1>6 DEF Inv

LEMMA StepChecking ==
  ASSUME TypeOK, TypeOK', Inv, StartDue \/ Checking
  PROVE  Inv'
  <1> USE CallTypes
  <1>0. \A e \in Branches : steam[e] >= 0
    BY DEF TypeOK
  <1>1. UNCHANGED <<steam, disk, job, box, raced, left>>
    BY DEF StartDue, Checking, CheckInstalled, CheckLatest, RecordRead, RecordWrite, world, history
  <1>2. \A e \in Branches : check'.found[e] <= steam[e]
    <2>0. check \in Check
      BY DEF TypeOK
    <2>1. CASE StartDue \/ RecordWrite \/ check' = NoCheck
      <3>1. check'.found = [b \in Branches |-> 0]
        <4>1. check' = NoCheck \/ check' = [NoCheck EXCEPT !.pc = "ask", !.todo = Branches]
          BY <2>1 DEF StartDue, RecordWrite
        <4>2. NoCheck.found = [b \in Branches |-> 0]
          BY DEF NoCheck
        <4>3. [NoCheck EXCEPT !.pc = "ask", !.todo = Branches].found = NoCheck.found
          BY IdleType DEF Check
        <4> QED
          BY <4>1, <4>2, <4>3
      <3> QED
        BY <1>0, <3>1
    <2>2. CASE CheckInstalled \/ RecordRead
      <3>1. check'.found = check.found
        BY <2>0, <2>2 DEF CheckInstalled, RecordRead, Check
      <3> QED
        BY <3>1 DEF Inv, BuildsGrow
    <2>3. CASE CheckLatest /\ check' # NoCheck
      <3>1. \/ check'.found = [check.found EXCEPT ![check.branch] = steam[check.branch]]
            \/ check'.found = check.found
        BY <2>0, <2>3 DEF CheckLatest, Check
      <3>2. check.found \in [Branches -> Builds]
        BY <2>0 DEF Check
      <3>3. \A e \in Branches : check'.found[e] = check.found[e] \/ check'.found[e] = steam[e]
        BY <3>1, <3>2
      <3> QED
        BY <3>3 DEF Inv, BuildsGrow
    <2> QED
      BY <2>1, <2>2, <2>3 DEF Checking
  <1>3. \A c \in Callers :
          \/ call'[c] = call[c]
          \/ /\ c \in Branches /\ call'[c].pc = "start.check" /\ call'[c].branch = c
             /\ call'[c].target = check.found[c]
    <2>1. CASE RecordWrite
      <3>1. check.updated \subseteq Branches
        BY DEF TypeOK, Check
      <3> QED
        BY <2>1, <3>1 DEF RecordWrite, Idle
    <2>2. CASE ~RecordWrite
      BY <2>2 DEF StartDue, Checking, CheckInstalled, CheckLatest, RecordRead
    <2> QED
      BY <2>1, <2>2
  <1>4. BoxesOfJobs' /\ WritersAlone'
    BY <1>1, <1>3, WritersKept DEF Inv
  <1>5. BuildsGrow'
    <2>1. \A e \in Branches : call'[e].target <= steam'[e]
      BY <1>1, <1>3 DEF Inv, BuildsGrow
    <2> QED
      BY <1>1, <1>2, <2>1 DEF Inv, BuildsGrow
  <1>6. GoalsReached' /\ TasksOfBranches'
    BY <1>1, <1>3, GoalsKept, TasksKept DEF Inv
  <1> QED
    BY <1>4, <1>5, <1>6 DEF Inv

LEMMA InitInv == Init => Inv
  BY SomeBranchType DEF Init, Inv, BoxesOfJobs, WritersAlone, Writes, Asked, At, BuildsGrow,
     GoalsReached, TasksOfBranches, Idle, NoCheck, Callers

LEMMA StepInv == TypeOK /\ TypeOK' /\ Inv /\ [Next]_vars => Inv'
  <1> SUFFICES ASSUME TypeOK, TypeOK', Inv, [Next]_vars PROVE Inv'
    OBVIOUS
  <1>1. CASE UNCHANGED vars
    BY <1>1 DEF vars, history, Inv, BoxesOfJobs, WritersAlone, Writes, Asked, At, BuildsGrow,
       GoalsReached, Installed, TasksOfBranches
  <1>2. ASSUME NEW c \in Callers, Start(c) PROVE Inv'
    BY <1>2, StepStart, StepRegister DEF Start
  <1>3. ASSUME NEW a \in Admins, Request(a) PROVE Inv'
    BY <1>3, StepRequest, StepRemoveFiles
  <1> QED
    BY <1>1, <1>2, <1>3, StepRun, StepBoxEnds, StepAuto, StepWorld, StepChecking, StepCleanUp,
       StepManagerRestarts DEF Next

LEMMA InvHolds == Spec => []Inv
  BY InitType, InitInv, StepType, StepInv, PTL DEF Spec

-----------------------------------------------------------------------------
(* What follows from it.                                                   *)

\* SteamService.start, which "must not start a second writer", keeps to it for
\* every number of requests, branches and jobs: the query for containers sees
\* those of an earlier manager too, and the only starts that pass one another
\* are those whose containers the query could not show.
THEOREM OneWriterHolds == Spec => []OneWriter
  <1>1. WritersAlone => OneWriter
    <2> SUFFICES ASSUME WritersAlone, NEW b \in Branches \ raced
                 PROVE  Cardinality(Running(b)) <= 1
      BY DEF OneWriter
    <2>1. CASE Running(b) = {}
      BY <2>1, FS_EmptySet
    <2>2. ASSUME NEW j \in Running(b)
          PROVE  Cardinality(Running(b)) <= 1
      <3>1. Running(b) = {j}
        BY DEF WritersAlone, Writes, Running
      <3> QED
        BY <3>1, FS_Singleton
    <2> QED
      BY <2>1, <2>2
  <1> QED
    BY <1>1, InvHolds, PTL DEF Inv

\* However _run ends (the log, the timeout, a lost daemon), the container is gone
\* with the job unless its removal failed or the manager ended under it.
THEOREM NothingIsLeft == Spec => []JobsLeaveNothing
  <1>1. BoxesOfJobs => JobsLeaveNothing
    BY DEF BoxesOfJobs, JobsLeaveNothing
  <1> QED
    BY <1>1, InvHolds, PTL DEF Inv

\* A job is a success only when its container said "fully installed", and from
\* then on whoever writes to the folder writes a build that is no older.
THEOREM SuccessHolds == Spec => SuccessIsInstalled
  <1>1. TypeOK /\ Inv /\ [Next]_vars =>
          [\A j \in Jobs : job[j].status = "running" /\ job'[j].status = "success"
                             /\ job[j].branch \notin raced
                           => disk[job[j].branch] >= job[j].goal]_vars
    <2> SUFFICES ASSUME TypeOK, Inv, [Next]_vars, NEW j \in Jobs,
                        job[j].status = "running", job'[j].status = "success"
                 PROVE  Installed(j)
      BY DEF Installed
    <2> USE CallTypes
    <2>1. ASSUME NEW k \in Jobs, Run(k) PROVE Installed(j)
      <3>1. RunDoes(k)
        BY <2>1, RunSteps
      <3>2. j = k /\ job[j].result = "success"
        BY <3>1 DEF RunDoes
      <3> QED
        BY <3>2 DEF Inv, GoalsReached
    <2>2. ASSUME NEW c \in Callers, Start(c) PROVE FALSE
      <3>1. job' = job \/ \E k \in Jobs : \E r : r.status = "running" /\ job' = [job EXCEPT ![k] = r]
        BY <2>2 DEF Start, StartCheck, StartQuery, StartRegister
      <3> QED
        BY <3>1
    <2>3. ASSUME NEW a \in Admins, Request(a) PROVE FALSE
      <3>1. job'[j].status = job[j].status
        <4>1. CASE RemoveFiles(a)
          BY <4>1 DEF RemoveFiles, Job
        <4>2. CASE ~RemoveFiles(a)
          BY <2>3, <4>2 DEF Request, AskDownload, AskRemove, AskSave, RemoveJob, SaveWrite, world
        <4> QED
          BY <4>1, <4>2
      <3> QED
        BY <3>1
    <2>4. ASSUME NEW b \in Branches, UpdateTask(b) \/ World(b) PROVE FALSE
      BY <2>4 DEF UpdateTask, AutoWait, AutoToggle, AutoRestart, World, Release, StartServer,
         StopServer, ServerExits
    <2>5. CASE StartDue \/ Checking \/ CleanUp \/ (\E k \in Jobs : BoxEnds(k))
      BY <2>5 DEF StartDue, Checking, CheckInstalled, CheckLatest, RecordRead, RecordWrite,
         CleanUp, BoxEnds
    <2>6. CASE ManagerRestarts
      BY <2>6 DEF ManagerRestarts, Job
    <2>7. CASE UNCHANGED vars
      BY <2>7 DEF vars
    <2> QED
      BY <2>1, <2>2, <2>3, <2>4, <2>5, <2>6, <2>7 DEF Next
  <1> QED
    BY <1>1, TypeCorrect, InvHolds, PTL DEF Spec, SuccessIsInstalled

\* "The only way a server actually starts running the new build" (auto_update.py)
\* gives it that build or a newer one, whatever happened between the check, the
\* download and the restart, unless the files were removed or had two writers.
THEOREM UpdateIsRun == Spec => RestartsOntoTheUpdate
  <1>1. TypeOK /\ Inv /\ [Next]_vars =>
          [\A b \in Branches \ raced :
             AutoRestart(b) /\ server[b].wanted /\ job[call[b].job].goal # 0
             => server'[b].build >= call[b].target]_vars
    <2> SUFFICES ASSUME TypeOK, Inv, NEW b \in Branches \ raced, AutoRestart(b),
                        server[b].wanted, job[call[b].job].goal # 0
                 PROVE  server'[b].build >= call[b].target
      OBVIOUS
    <2> DEFINE j == call[b].job
    <2>1. server'[b].build = disk[b]
      BY DEF AutoRestart, TypeOK
    <2>2. j \in Jobs /\ job[j].branch = b /\ call[b].target <= job[j].goal
          /\ job[j].status = "success"
      BY DEF AutoRestart, At, Inv, TasksOfBranches
    <2>3. disk[b] >= job[j].goal
      BY <2>2 DEF Inv, GoalsReached, Installed
    <2> QED
      BY <2>1, <2>2, <2>3, CallTypes
  <1> QED
    BY <1>1, TypeCorrect, InvHolds, PTL DEF Spec, RestartsOntoTheUpdate
=============================================================================
