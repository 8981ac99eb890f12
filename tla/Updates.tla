------------------------------ MODULE Updates ------------------------------
(* Downloads of the game's server files (services/steam_service.py) and the *)
(* daily check that starts them by itself (services/auto_update.py).  A job *)
(* lives in the manager's memory, its SteamCMD container does not: it goes  *)
(* on writing to the branch's folder whatever becomes of the manager.  One  *)
(* settings row holds the users' toggles and what the last check found.     *)
EXTENDS Integers, FiniteSets

CONSTANTS Branches,    \* config.BRANCHES
          Admins,      \* requests that may be under way at a time
          MaxJobs,     \* download jobs of a behaviour
          MaxBuild,    \* builds Steam releases
          NoJob,       \* a value that is no job
          Limits       \* a budget for requests, checks and faults

ASSUME BoundsAssumption == MaxJobs \in Nat /\ MaxBuild \in Nat \ {0} /\ NoJob \notin Nat
ASSUME LimitsAssumption == Limits \in [{"requests", "checks", "faults"} -> Nat]
ASSUME NamesAssumption == Admins \cap Branches = {} /\ Branches # {}

Jobs == 1..MaxJobs
Builds == 0..MaxBuild          \* 0: not installed, not running, not known

\* A start is called by a request, or by the task that updates a branch.
Callers == Admins \cup Branches

Toggles == {"auto_download", "auto_restart"}

\* The settings row: the toggles and each branch's latest_build.
Settings == [on: [Toggles -> BOOLEAN], found: [Branches -> Builds]]

\* DownloadJob and the step its _run is at ("dead": an error it does not catch
\* has ended it); goal is the build Steam had when it was registered, 0 once the
\* branch's files were removed under it.
Job == [branch: Branches, status: {"none", "running", "success", "error"},
        pc: {"none", "create", "stream", "remove", "finish", "cleanup", "done", "dead"},
        result: {"success", "error"}, goal: Builds]

\* The job's container, with the build it fetches.
Box == [status: {"none", "running", "ok", "failed", "gone"}, build: Builds]

\* A request, or the update task of a branch: what it does and with what.
Call == [pc: {"idle", "start.check", "start.query", "start.register",
              "wait", "toggle", "restart",
              "remove.files", "remove.job", "save.write"},
         branch: Branches, job: Jobs \cup {NoJob}, target: Builds, snap: Settings,
         toggle: Toggles, value: BOOLEAN]

\* The check: branches still to ask, what it learnt, what it will download.
Check == [pc: {"idle", "ask", "latest", "read", "write"}, todo: SUBSET Branches,
          branch: Branches, installed: Builds, found: [Branches -> Builds],
          updated: SUBSET Branches, snap: Settings]

VARIABLES
  steam,      \* Steam's newest build of each branch
  disk,       \* the build in each branch's folder
  server,     \* the branch's server: wanted, and the build it runs
  job, box,
  slot,       \* SteamService.jobs
  call,
  check,      \* _check_task
  settings,   \* AppSetting "auto_update"
  cleaned,    \* steamcmd_cleaned, of _crash_monitor
  raced,      \* history: branches of which a start could not see another one
  left,       \* history: containers whose removal failed
  budget

vars == <<steam, disk, server, job, box, slot, call, check, settings, cleaned,
          raced, left, budget>>

\* What the actions of one party leave alone.
world == <<steam, disk, server>>
history == <<raced, left>>

SomeBranch == CHOOSE b \in Branches : TRUE
NoSettings == [on |-> [k \in Toggles |-> FALSE], found |-> [b \in Branches |-> 0]]
Idle == [pc |-> "idle", branch |-> SomeBranch, job |-> NoJob, target |-> 0,
         snap |-> NoSettings, toggle |-> "auto_download", value |-> FALSE]
NoCheck == [pc |-> "idle", todo |-> {}, branch |-> SomeBranch, installed |-> 0,
            found |-> [b \in Branches |-> 0], updated |-> {}, snap |-> NoSettings]

TypeOK ==
  /\ steam \in [Branches -> 1..MaxBuild] /\ disk \in [Branches -> Builds]
  /\ server \in [Branches -> [wanted: BOOLEAN, build: Builds]]
  /\ job \in [Jobs -> Job] /\ box \in [Jobs -> Box]
  /\ slot \in [Branches -> Jobs \cup {NoJob}]
  /\ call \in [Callers -> Call]
  /\ check \in Check
  /\ settings \in Settings
  /\ cleaned \in BOOLEAN
  /\ raced \subseteq Branches /\ left \subseteq Jobs
  /\ budget \in [DOMAIN Limits -> Nat]

\* An install in use: files of the first build, both toggles off or both on.
Init ==
  /\ steam = [b \in Branches |-> 1] /\ disk = steam
  /\ server = [b \in Branches |-> [wanted |-> TRUE, build |-> 1]]
  /\ job = [j \in Jobs |-> [branch |-> SomeBranch, status |-> "none", pc |-> "none",
                            result |-> "error", goal |-> 0]]
  /\ box = [j \in Jobs |-> [status |-> "none", build |-> 0]]
  /\ slot = [b \in Branches |-> NoJob]
  /\ call = [c \in Callers |-> Idle]
  /\ check = NoCheck
  /\ settings \in {[NoSettings EXCEPT !.on = [k \in Toggles |-> on]] : on \in BOOLEAN}
  /\ cleaned = FALSE
  /\ raced = {} /\ left = {}
  /\ budget = Limits

Spend(k) == budget[k] > 0 /\ budget' = [budget EXCEPT ![k] = @ - 1]

At(c, pc) == call[c].pc = pc
Does(c, r) == call' = [call EXCEPT ![c] = r]
Ends(c) == Does(c, Idle)
Goto(c, pc) == call' = [call EXCEPT ![c].pc = pc]

Running(b) == {j \in Jobs : job[j].branch = b /\ box[j].status = "running"}


-----------------------------------------------------------------------------
(* The world outside: Steam, the servers of a branch, the containers.      *)

Release(b) ==
  /\ steam[b] < MaxBuild
  /\ steam' = [steam EXCEPT ![b] = @ + 1]
  /\ UNCHANGED <<disk, server, job, box, slot, call, check, settings, cleaned, history, budget>>

\* Lifecycle.tla has the details; a start needs the branch's files.
StartServer(b) ==
  /\ disk[b] # 0 /\ server[b].build = 0 /\ Spend("requests")
  /\ server' = [server EXCEPT ![b] = [wanted |-> TRUE, build |-> disk[b]]]
  /\ UNCHANGED <<steam, disk, job, box, slot, call, check, settings, cleaned, history>>

StopServer(b) ==
  /\ server[b].wanted /\ Spend("requests")
  /\ server' = [server EXCEPT ![b] = [wanted |-> FALSE, build |-> 0]]
  /\ UNCHANGED <<steam, disk, job, box, slot, call, check, settings, cleaned, history>>

ServerExits(b) ==
  /\ server[b].build # 0 /\ Spend("faults")
  /\ server' = [server EXCEPT ![b].build = 0]
  /\ UNCHANGED <<steam, disk, job, box, slot, call, check, settings, cleaned, history>>

\* The script ends when SteamCMD reports a full install, or gives up.
BoxEnds(j) ==
  /\ box[j].status = "running"
  /\ \/ /\ box' = [box EXCEPT ![j].status = "ok"]
        /\ disk' = [disk EXCEPT ![job[j].branch] = box[j].build]
     \/ /\ box' = [box EXCEPT ![j].status = "failed"]
        /\ UNCHANGED disk
  /\ UNCHANGED <<steam, server, job, slot, call, check, settings, cleaned, history, budget>>

-----------------------------------------------------------------------------
(* SteamService.start: look at the job, ask Docker, register a new job.    *)

\* POST /serverfiles/{branch}/download
AskDownload(a, b) ==
  /\ At(a, "idle") /\ Spend("requests")
  /\ Does(a, [Idle EXCEPT !.pc = "start.check", !.branch = b])
  /\ UNCHANGED <<world, job, box, slot, check, settings, cleaned, history>>

Busy(b) == slot[b] # NoJob /\ job[slot[b]].status = "running"

StartCheck(c) ==
  /\ At(c, "start.check")
  /\ IF Busy(call[c].branch) THEN Ends(c) ELSE Goto(c, "start.query")
  /\ UNCHANGED <<world, job, box, slot, check, settings, cleaned, history, budget>>

\* Mutant: containers of an earlier manager are not asked for.
SeenOwn(b) == Running(b) \cap {slot[b]}

\* Containers that are writing to the branch's folder, whoever started them.
Seen(b) == Running(b)

\* find_containers reports a failed lookup as no container; an error other than
\* Docker's own ends whoever asked.
StartQuery(c) ==
  LET b == call[c].branch IN
  /\ At(c, "start.query")
  /\ \/ /\ IF Seen(b) # {} THEN Ends(c) ELSE Goto(c, "start.register")
        /\ UNCHANGED <<raced, budget>>
     \/ /\ Seen(b) # {} /\ Spend("faults")
        /\ Goto(c, "start.register")
        /\ raced' = raced \cup {b}
     \/ /\ Spend("faults")
        /\ Ends(c)
        /\ UNCHANGED raced
  /\ UNCHANGED <<world, job, box, slot, check, settings, cleaned, left>>

\* Another job of b has no container yet, so the query could not show it ...
Unseen(b) == \E j \in Jobs : job[j].branch = b /\ job[j].pc = "create"

\* ... or gets its container when a start has asked already.
Asked(b) == \E c \in Callers : At(c, "start.register") /\ call[c].branch = b

StartRegister(c) ==
  LET b == call[c].branch IN
  /\ At(c, "start.register")
  /\ \E j \in Jobs :
       /\ job[j].pc = "none" /\ \A k \in 1..(j - 1) : job[k].pc # "none"
       /\ job' = [job EXCEPT ![j] = [branch |-> b, status |-> "running", pc |-> "create",
                                     result |-> "error", goal |-> steam[b]]]
       /\ slot' = [slot EXCEPT ![b] = j]
       /\ Does(c, IF c \in Branches THEN [call[c] EXCEPT !.pc = "wait", !.job = j] ELSE Idle)
  /\ raced' = IF Unseen(b) THEN raced \cup {b} ELSE raced
  /\ UNCHANGED <<world, box, check, settings, cleaned, left, budget>>

-----------------------------------------------------------------------------
(* SteamService._run                                                       *)

RunGoes(j, pc) == job' = [job EXCEPT ![j].pc = pc]

Starts(j) ==
  LET b == job[j].branch IN
  /\ box' = [box EXCEPT ![j] = [status |-> "running", build |-> steam[b]]]
  /\ raced' = IF Asked(b) THEN raced \cup {b} ELSE raced

\* The name carries the second of the start, so one of two raced starts may
\* find it taken.  Only Docker's own errors are caught: after another one (no
\* answer in time, a broken connection) nobody ends the job, and its container
\* may be there all the same.
RunCreate(j) ==
  /\ job[j].pc = "create"
  /\ \/ Starts(j) /\ RunGoes(j, "stream") /\ UNCHANGED budget
     \/ /\ IF job[j].branch \in raced THEN UNCHANGED budget ELSE Spend("faults")
        /\ RunGoes(j, "finish")
        /\ UNCHANGED <<box, raced>>
     \/ /\ Spend("faults")
        /\ RunGoes(j, "dead")
        /\ Starts(j) \/ UNCHANGED <<box, raced>>
  /\ UNCHANGED <<world, slot, call, check, settings, cleaned, left>>

\* Mutant: SteamCMD's exit code alone is believed.
OutcomeByExit(j) == "success"

\* Exit code 0 and the line that says "fully installed".
Outcome(j) == IF box[j].status = "ok" THEN "success" ELSE "error"

\* The log ends with the container ...
RunEnds(j) ==
  /\ job[j].pc = "stream" /\ box[j].status \in {"ok", "failed"}
  /\ job' = [job EXCEPT ![j].pc = "remove", ![j].result = Outcome(j)]
  /\ UNCHANGED <<world, box, slot, call, check, settings, cleaned, history, budget>>

\* Mutant: the timed-out container is left to itself.
RunTimesOutOnly(j) ==
  /\ job[j].pc = "stream" /\ box[j].status = "running"
  /\ job' = [job EXCEPT ![j].pc = "finish", ![j].result = "error"]
  /\ UNCHANGED <<world, box, slot, call, check, settings, cleaned, history, budget>>

\* ... or takes longer than steamcmd_timeout_minutes ...
RunTimesOut(j) ==
  /\ job[j].pc = "stream" /\ box[j].status = "running"
  /\ job' = [job EXCEPT ![j].pc = "remove", ![j].result = "error"]
  /\ UNCHANGED <<world, box, slot, call, check, settings, cleaned, history, budget>>

\* Mutant: the handler removes the container without ending the job.
RunLostUnreported(j) ==
  /\ job[j].pc = "stream"
  /\ \/ box[j].status = "gone" /\ UNCHANGED budget
     \/ box[j].status # "gone" /\ Spend("faults")
  /\ job' = [job EXCEPT ![j].pc = "cleanup"]
  /\ UNCHANGED <<world, box, slot, call, check, settings, cleaned, history>>

\* ... or contact is lost: the job ends first, its container is removed later.
RunLost(j) ==
  /\ job[j].pc = "stream"
  /\ \/ box[j].status = "gone" /\ UNCHANGED budget
     \/ box[j].status # "gone" /\ Spend("faults")
  /\ job' = [job EXCEPT ![j].pc = "cleanup", ![j].status = "error"]
  /\ UNCHANGED <<world, box, slot, call, check, settings, cleaned, history>>

\* _force_remove logs Docker's own errors; another one ends the task, with the
\* container removed or not, and a job that waits for its end gets none.
RunRemove(j) ==
  LET next == IF job[j].pc = "remove" THEN "finish" ELSE "done" IN
  /\ job[j].pc \in {"remove", "cleanup"}
  /\ \/ /\ box' = [box EXCEPT ![j].status = "gone"]
        /\ RunGoes(j, next)
        /\ UNCHANGED <<left, budget>>
     \/ /\ box[j].status # "gone" /\ Spend("faults")
        /\ left' = left \cup {j}
        /\ RunGoes(j, next)
        /\ UNCHANGED box
     \/ /\ job[j].pc = "remove" /\ Spend("faults")
        /\ RunGoes(j, "dead")
        /\ box' \in {box, [box EXCEPT ![j].status = "gone"]}
        /\ UNCHANGED left
  /\ UNCHANGED <<world, slot, call, check, settings, cleaned, raced>>

RunFinish(j) ==
  /\ job[j].pc = "finish"
  /\ job' = [job EXCEPT ![j].pc = "done", ![j].status = job[j].result]
  /\ UNCHANGED <<world, box, slot, call, check, settings, cleaned, history, budget>>

\* Once per process: exited containers of earlier downloads are removed.
CleanUp ==
  /\ ~cleaned /\ cleaned' = TRUE
  /\ box' = [j \in Jobs |-> IF box[j].status \in {"ok", "failed"}
                            THEN [box[j] EXCEPT !.status = "gone"] ELSE box[j]]
  /\ UNCHANGED <<world, job, slot, call, check, settings, history, budget>>

-----------------------------------------------------------------------------
(* DELETE /serverfiles/{branch}: refused while a server of it runs.        *)

\* running_instance_names_for_branch: a failed lookup reads as not running.
SeemsStopped(b) ==
  \/ server[b].build = 0 /\ Spend("requests")
  \/ /\ server[b].build # 0 /\ budget["requests"] > 0 /\ budget["faults"] > 0
     /\ budget' = [budget EXCEPT !["requests"] = @ - 1, !["faults"] = @ - 1]

AskRemove(a, b) ==
  /\ At(a, "idle") /\ SeemsStopped(b)
  /\ Does(a, [Idle EXCEPT !.pc = "remove.files", !.branch = b])
  /\ UNCHANGED <<world, job, box, slot, check, settings, cleaned, history>>

\* An error may come before the files are gone, or after.
RemoveFiles(a) ==
  LET b == call[a].branch
      emptied == /\ disk' = [disk EXCEPT ![b] = 0]
                 /\ job' = [j \in Jobs |-> IF job[j].branch = b THEN [job[j] EXCEPT !.goal = 0]
                                          ELSE job[j]]
  IN
  /\ At(a, "remove.files")
  /\ \/ emptied /\ Goto(a, "remove.job") /\ UNCHANGED budget
     \/ Spend("faults") /\ Ends(a) /\ (emptied \/ UNCHANGED <<disk, job>>)
  /\ UNCHANGED <<steam, server, box, slot, check, settings, cleaned, history>>

\* The job is forgotten, whatever it does.
RemoveJob(a) ==
  /\ At(a, "remove.job")
  /\ slot' = [slot EXCEPT ![call[a].branch] = NoJob]
  /\ Ends(a)
  /\ UNCHANGED <<world, job, box, check, settings, cleaned, history, budget>>

-----------------------------------------------------------------------------
(* save_settings: one toggle of the row read, the whole row written.       *)

AskSave(a) ==
  /\ At(a, "idle") /\ Spend("requests")
  /\ \E k \in Toggles :
       Does(a, [Idle EXCEPT !.pc = "save.write", !.snap = settings, !.toggle = k,
                            !.value = ~settings.on[k]])
  /\ UNCHANGED <<world, job, box, slot, check, settings, cleaned, history>>

SaveWrite(a) ==
  LET r == call[a] IN
  /\ At(a, "save.write")
  /\ settings' = [r.snap EXCEPT !.on[r.toggle] = r.value]
  /\ Ends(a)
  /\ UNCHANGED <<world, job, box, slot, check, cleaned, raced, left, budget>>

-----------------------------------------------------------------------------
(* The daily check, or the one a button starts.                            *)

\* Without a Docker daemon it ends at once and records nothing.
StartDue ==
  /\ check.pc = "idle" /\ Spend("checks")
  /\ check' = [NoCheck EXCEPT !.pc = "ask", !.todo = Branches]
  /\ UNCHANGED <<world, job, box, slot, call, settings, cleaned, history>>

\* A branch that is not installed has no update, only a first download.
CheckInstalled ==
  /\ check.pc = "ask" /\ check.todo # {}
  /\ \E b \in check.todo :
       check' = IF disk[b] = 0 THEN [check EXCEPT !.todo = @ \ {b}]
                ELSE [check EXCEPT !.pc = "latest", !.todo = @ \ {b}, !.branch = b,
                                   !.installed = disk[b]]
  /\ UNCHANGED <<world, job, box, slot, call, settings, cleaned, history, budget>>

\* A failed question to Steam is "unknown", never an update; an error other than
\* Docker's own ends the check, and nothing of it is recorded.
CheckLatest ==
  LET b == check.branch IN
  /\ check.pc = "latest"
  /\ \/ /\ check' = [check EXCEPT !.pc = "ask", !.found[b] = steam[b],
                                  !.updated = IF steam[b] # check.installed THEN @ \cup {b} ELSE @]
        /\ UNCHANGED budget
     \/ check' = [check EXCEPT !.pc = "ask"] /\ Spend("faults")
     \/ check' = NoCheck /\ Spend("faults")
  /\ UNCHANGED <<world, job, box, slot, call, settings, cleaned, history>>

\* _record_check reads the row again ...
RecordRead ==
  /\ check.pc = "ask" /\ check.todo = {}
  /\ check' = [check EXCEPT !.pc = "write", !.snap = settings]
  /\ UNCHANGED <<world, job, box, slot, call, settings, cleaned, history, budget>>

\* ... and writes all of it; with auto_download on, the updates begin, one task
\* per branch.
RecordWrite ==
  LET begin == {b \in check.updated : check.snap.on["auto_download"] /\ call[b].pc = "idle"} IN
  /\ check.pc = "write"
  /\ settings' = [check.snap EXCEPT !.found = check.found]
  /\ call' = [c \in Callers |->
                IF c \in begin
                THEN [Idle EXCEPT !.pc = "start.check", !.branch = c, !.target = check.found[c]]
                ELSE call[c]]
  /\ check' = NoCheck
  /\ UNCHANGED <<world, job, box, slot, cleaned, history, budget>>

\* Mutant: any end of the job is taken for a success.
AutoWaitForEnd(b) ==
  /\ At(b, "wait") /\ job[call[b].job].status # "running"
  /\ Goto(b, "toggle")
  /\ UNCHANGED <<world, job, box, slot, check, settings, cleaned, history, budget>>

\* _download_and_restart polls its job, whoever forgot it meanwhile ...
AutoWait(b) ==
  LET st == job[call[b].job].status IN
  /\ At(b, "wait") /\ st # "running"
  /\ IF st = "success" THEN Goto(b, "toggle") ELSE Ends(b)
  /\ UNCHANGED <<world, job, box, slot, check, settings, cleaned, history, budget>>

\* ... reads the toggle as it is now ...
AutoToggle(b) ==
  /\ At(b, "toggle")
  /\ IF settings.on["auto_restart"] THEN Goto(b, "restart") ELSE Ends(b)
  /\ UNCHANGED <<world, job, box, slot, check, settings, cleaned, history, budget>>

\* ... and restarts what should be running; without files it stays stopped.
AutoRestart(b) ==
  /\ At(b, "restart")
  /\ server' = IF server[b].wanted
               THEN [server EXCEPT ![b] = [wanted |-> disk[b] # 0, build |-> disk[b]]]
               ELSE server
  /\ Ends(b)
  /\ UNCHANGED <<steam, disk, job, box, slot, check, settings, cleaned, history, budget>>

-----------------------------------------------------------------------------
\* The process ends and another begins: containers stay, memory does not.
ManagerRestarts ==
  /\ Spend("faults")
  /\ job' = [j \in Jobs |-> IF job[j].pc \in {"none", "done"} THEN job[j]
                            ELSE [job[j] EXCEPT !.pc = "done", !.status = "error"]]
  /\ left' = left \cup {j \in Jobs : job[j].pc \notin {"none", "done"}}
  /\ slot' = [b \in Branches |-> NoJob]
  /\ call' = [c \in Callers |-> Idle]
  /\ check' = NoCheck
  /\ cleaned' = FALSE
  /\ UNCHANGED <<world, box, settings, raced>>

Request(a) ==
  \/ \E b \in Branches : AskDownload(a, b) \/ AskRemove(a, b)
  \/ AskSave(a)
  \/ RemoveFiles(a) \/ RemoveJob(a) \/ SaveWrite(a)
Start(c) == StartCheck(c) \/ StartQuery(c) \/ StartRegister(c)
Run(j) ==
  RunCreate(j) \/ RunEnds(j) \/ RunTimesOut(j) \/ RunLost(j) \/ RunRemove(j) \/ RunFinish(j)
UpdateTask(b) == AutoWait(b) \/ AutoToggle(b) \/ AutoRestart(b)
Checking == CheckInstalled \/ CheckLatest \/ RecordRead \/ RecordWrite
World(b) == Release(b) \/ StartServer(b) \/ StopServer(b) \/ ServerExits(b)

Next ==
  \/ \E a \in Admins : Request(a)
  \/ \E c \in Callers : Start(c)
  \/ \E j \in Jobs : Run(j) \/ BoxEnds(j)
  \/ \E b \in Branches : UpdateTask(b) \/ World(b)
  \/ StartDue \/ Checking
  \/ CleanUp \/ ManagerRestarts

\* The event loop goes on with every task; a job waits for its container no
\* longer than its timeout.
Fairness ==
  /\ \A j \in Jobs : WF_vars(Run(j))
  /\ \A b \in Branches : WF_vars(UpdateTask(b))

Spec == Init /\ [][Next]_vars /\ Fairness


-----------------------------------------------------------------------------
(* Properties.                                                             *)

\* One container at most writes to a branch's folder ("we just must not start a
\* second writer", SteamService.start), unless two starts could not see each
\* other or the query for containers failed.
OneWriter == \A b \in Branches \ raced : Cardinality(Running(b)) <= 1

\* A job that is over leaves no container running, unless its removal failed or
\* the manager ended under it: a start is never refused for a forgotten one.
JobsLeaveNothing ==
  \A j \in Jobs : job[j].pc = "done" /\ j \notin left => box[j].status # "running"

\* A download reported as a success leaves a build on disk that is no older than
\* the newest one when it was asked for, unless the files were removed meanwhile.
SuccessIsInstalled ==
  [][\A j \in Jobs :
       job[j].status = "running" /\ job'[j].status = "success"
         /\ job[j].branch \notin raced
       => disk[job[j].branch] >= job[j].goal]_vars

\* A server restarted by the automatic update runs at least the build the check
\* found ("the only way a server actually starts running the new build",
\* auto_update.py), unless its files were removed or had two writers.
RestartsOntoTheUpdate ==
  [][\A b \in Branches \ raced :
       AutoRestart(b) /\ server[b].wanted /\ job[call[b].job].goal # 0
       => server'[b].build >= call[b].target]_vars

\* The one job an update polls for ever: an error that _run does not catch has
\* ended its task, so that it reads "running" until the manager does.
Stranded(b) == At(b, "wait") /\ job[call[b].job].pc = "dead"

\* An automatic update comes to its end, whatever becomes of the job it polls and
\* of the entry a removal forgets, unless it is Stranded: while it has not ended,
\* _start_download starts no other one for the branch.
UpdatesEnd == \A b \in Branches : At(b, "wait") ~> At(b, "idle") \/ Stranded(b)
=============================================================================
