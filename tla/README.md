# Formal models of the Reforger Server Manager

This directory holds TLA+ models of the manager in `src/`: what they state, what TLC
checks on small instances, and what TLAPS proves for all of them. The reference is the
code: every definition of a module is a translation of the lines `PROJECT.json` maps it
to, and the comment above a property names the behaviour it is about.

| Module | What it is |
| --- | --- |
| `Lifecycle.tla` | rows and containers of game servers, the requests and passes that change them |
| `LifecycleProofs.tla` | its theorems |
| `MCLifecycle.tla`, `lifecycle_*.cfg` | its instances for TLC |
| `Releases.tla` | server templates: editing under a lock, copies, releases, versions, pins, imports |
| `Catalog.tla` | what the versions of a template promise: the abstract specification |
| `MCReleases.tla`, `releases.cfg` | its instance |
| `Updates.tla`, `MCUpdates.tla`, `updates.cfg` | download jobs against their containers, the settings row, the daily check |
| `UpdatesProofs.tla` | its theorems |
| `Streams.tla`, `MCStreams.tla`, `streams.cfg` | download jobs and the pages that follow them over a WebSocket |
| `StreamsProofs.tla` | its theorems |
| `Shelf.tla`, `MCShelf.tla`, `shelf.cfg` | a server's saved game and its backups: archives, prunes, restores, clears |
| `ShelfProofs.tla` | its theorems |
| `Windows.tla` | pure: what is left of a client's attempts in a window of time |
| `Throttle.tla` | what the login throttle promises: the abstract specification |
| `Access.tla` | the login: the throttle's table, passwords, sessions and their salt, the proxy's address |
| `AccessProofs.tla` | the theorems of the login, and that it implements the promise |
| `MCAccess.tla`, `throttle.cfg`, `sessions.cfg` | its instances |
| `Rendering.tla` | pure: from the fields of a template to config.json and back |
| `Editing.tla`, `MCEditing.tla`, `editing.cfg` | one template in the wizard: form, hand-edited JSON, imports of a file, save, open |
| `TemplateProofs.tla` | the theorems of Releases and of Editing |
| `Diffs.tla` | pure: what the change log and the preview of an import compare |
| `Imports.tla`, `MCImports.tla`, `imports*.cfg` | backup and restore of templates and mod lists, and what is done to both meanwhile |
| `ImportsProofs.tla` | its theorems |
| `Fleet.tla` | what all servers share: port ranges, and the pass of the scheduled restarts |
| `FleetProofs.tla` | its theorems |
| `MCFleet.tla`, `fleet.cfg` | its instance |

Run a model with `tlc -config lifecycle_failures.cfg MCLifecycle`, a proof with
`tlapm LifecycleProofs.tla`.

## 1. The system

One Python process (FastAPI under uvicorn, `backend/main.py`) serves a Vue page and
drives sibling containers through a Docker socket. It keeps its state in three places
that do not know of each other:

* **SQLite**, through short SQLModel sessions. No session stays open over a Docker or
  network call in a way that would lock others out; there is no table lock and no
  version column, so "read, decide, commit" is never atomic when anything slow is
  between the read and the commit.
* **Docker**: one container per game server, found by label; a helper container per
  download, cleanup or restore.
* **Memory**: edit locks, download jobs, what the crash monitor has seen up, login
  attempts. It is gone with the process.

Requests run in a thread pool (`asyncio.to_thread` and sync endpoints), so any two of
them interleave at every Docker call. A background task, `_crash_monitor`, does a pass
every 15 seconds: recover crashed servers, apply scheduled restarts, start the daily
update check. Nothing serialises it with the requests. `threading.Lock` is used for
caches only; no lock protects a server, a template or a branch, except the edit lock,
which is advice between browser tabs.

### 1.1 Components

**Instance lifecycle** (`services/instance_service.py`, `services/docker_service.py`,
`instances_api.py`, `main.py`).
State: a row per server (wanted state, template, pin, ports, restart settings, what it
was last started with); a container (status and the labels of what it was created
for); `config.json` on disk; `_seen_running` in memory.
Operations: create, start, stop, restart, rename and edit, change ports, switch
template, restart settings, delete, detach from a deleted template; the monitor's
recovery pass and scheduled restarts; the shutdown that removes every container.
Interacts with: templates (what to render), server files (which build), backups (who
call it to check and to switch templates), the daily update (who restarts a branch).
Hard: every operation is a sequence of Docker calls and commits with other threads in
between; containers may exit or be restarted by Docker at any time; the manager or the
host may go down between any two steps; Docker calls fail.
Correct when: row and container agree once nobody works on the server; a server that
should run comes back; a reboot or a user's stop is not taken for a crash; nothing
points at a deleted template.

**Templates, releases and edit locks** (`services/stages.py`, `services/edit_locks.py`,
`templates_api.py`, `TemplateWizard.vue`).
State: templates in one of three stages (test, Dev, Prod), their content, the
frozen versions of Prod ones, what each was based on; servers' pointers and pins; locks
with an age.
Operations: create, save, copy, release to Dev, release as a new Prod item, release
into a Prod item (which takes the servers along and deletes the source), delete with or
without its servers.
Interacts with: servers that run a template or a version, the mods registry and the
import, which write to templates too, and tabs that hold a lock.
Hard: a save arrives long after the page was loaded; locks lapse; requests check a
stage and act on it later; SQLite gives the id of a deleted row to the next one.
Correct when: versions run on without gaps or repeats; a Prod item equals its newest
version; a pinned server keeps what it was pinned to; pointers have targets; the lock
keeps others' writes out.

**Mods registry** (`mods_api.py`, `services/mod_registry.py`). State: mods known, with
names from the Workshop. Operations: add, backfill, remove, add to a template. Hard: the
last one checks a template, talks to the Workshop and writes the template afterwards.

**Configuration export and import** (`backup_api.py`, `services/backup.py`, `Backup.vue`).
State: none on the server; a file on the user's disk and a page with a preview of it and
a decision per entry.
Operations: export, preview, decide, import (create, overwrite, copy, skip).
Interacts with: templates and mod lists, which it reads and writes as a whole, their edit
locks and origins, the change log (whose comparison the preview uses).
Hard: decisions are made on a preview that may be out of date, on another manager even;
entries refer to each other; a refusal or a collision comes after rows were written;
files of older versions lack stages and versions.
Correct when: an import is all or nothing, touches nothing nobody asked for, and a
restore onto an empty manager brings everything back.

**Mod lists** (`mod_templates_api.py`). State: rows with stages, versions and origins, kept
by the same functions of `stages.py` as templates, without servers or locks. Operations:
create, save, rename, copy, promote, delete, make from a template.

**Server-file downloads and update check** (`services/steam_service.py`, `jobs.py`,
`image_service.py`, `auto_update.py`, `serverfiles_api.py`, `frontend/src/jobs.js`).
State: per branch a job in memory, a SteamCMD container, files on disk; one settings row
that holds both the user's toggles and what the last check found; per page a socket, a
queue and the job it shows.
Operations: download, remove, pull an image, check now, the daily check, download and
restart by itself, save the toggles, follow a job.
Hard: a job is registered after an await; a container outlives the manager that started
it; two writers of one settings row; events between a snapshot and a subscription; a
page that follows one job while another one runs.
Correct when: one container at a time writes a branch; a job ends whatever its container
does; servers restart only for an update that is there; a toggle stays as the user set
it; a page shows the job there is.

**Saved-game backups** (`services/instance_backup.py`, the `backups` endpoints of
`instances_api.py`, clearing of data in `instance_service.py`). State: per server a shelf
of at most `KEEP` archives and their sidecars, next to the world under `profile/`.
Operations: create, upload, delete, prune, sweep, restore (with a safety copy and a
template switch), clear.
Interacts with: the lifecycle (is the server stopped; switch its template) and the
templates (what the server is set to decides which archive fits).
Hard: the restore checks first and acts last; its own safety copy can push archives off
the shelf; an archive is listed from its first byte and described after its last; helper
containers fail.
Correct when: the archive being restored is there, the world it replaces is kept, what is
restored is one world that the server can read, and the shelf stays bounded.

**Login, sessions and throttling** (`auth.py`, `manage.py`). State: a password hash in the
database over one in the environment, a salt in a file that signs the sessions, the
cookies in browsers; in memory an attempt record per client and the proxy's address.
Operations: login, logout, logging everybody out, change of the password (which rotates
the salt), reset from the host's console. Hard: a window, strikes and lockouts under
a cap on the number of records; passwords are looked at in threads; a change is three
steps on disk; the console is another process; behind a proxy every client has its
address. Correct when: a lockout cannot be shaken off and a changed password ends every
other session.

**Ports** (`services/ports.py`, `create_instance`, `update_ports`) and **restart schedule**
(`_due_scheduled_restart`, `apply_scheduled_restarts`). State: the ports and the schedule
of every row, with the stamp of its last restart. Hard: ports are read before and
committed after other work, with no unique column; the pass works on a copy of the table
while it waits for restarts. Correct when: no two servers have the same port, and every
occurrence restarts a running server at most once, within its grace.

**Configuration rendering** (`template_service.py`, `config_fields.py`,
`config_validator.py`, the reconciling half of `templates_api.py`). State: a template's row
holds the rendered config.json, the mods, and `extras_json`, a merge patch of what the
wizard has no field for. Operations: render, validate, open, save, apply a hand-edited
document, import a file. Hard: three representations of one thing, and rows written by
earlier versions of each. Correct when: nothing that was written is lost or comes back,
and opening and saving changes nothing.

**Mods: versions, dependencies, load order, download progress** (`mod_versions.py`,
`load_order.py`, `mod_download.py`, `workshop_service.py`): functions over what the
Workshop and the log say.

**Server log and readings**, **change log and categories**, **first-run setup**,
**Docker gate**, **Supervisor**, **web and CLI**, **frontend**, **scripts**: I/O,
stateless filters, caches or single-writer rows; `PROJECT.json` says for each why it is
not modelled.

### 1.2 Hazards

`PROJECT.json` lists, under `hazards`, what in this code is hard to test, each at the
line where it bites, with the properties that would catch it going wrong. They come in
six families:

1. *Check, then act.* A request reads a row or a container, does something slow, and
   commits on what it read. Every operation of the lifecycle, the mods registry, the
   deletion of templates, `SteamService.start` and the restore are of this shape.
2. *Two stores.* Row and container, job and container, template and frozen version,
   server and page say the same thing in two places, and a failure or a process end
   between the two writes leaves them apart.
3. *Passes over a copy.* The monitor works through a table it read at the start of its
   pass; the daily check downloads what it found outdated when it asked.
4. *Memory and its end.* `_seen_running`, the edit locks, the download jobs and the table
   of login attempts are gone with the process; what they spoke of is not.
5. *Representations.* config.json, columns and custom keys, or two lists of columns to
   compare, are kept equal by hand, field by field, across versions of the program.
6. *Limits.* The shelf of backups, the table of attempts, the port ranges and the grace of
   a schedule: what happens when they are full or over.

## 2. The plan

Written, in this order, because the loss of a running server, of a template or of
a saved game is the worst this program can do: **Lifecycle**, **Releases**, **Updates**,
**Streams**, **Shelf**, **Access** over **Throttle**, **Editing** over **Rendering**,
**Imports** over **Diffs**, **Fleet**. They meet in few places, and there
each keeps what it needs of the other: Shelf a small server (is it stopped; switch its
template), Fleet the wish to run, Imports the effect of each template operation on a row
(Releases has the operations), Releases an import's effect under locks and pins.

Every safety property of every module is proved for all values of the constants, and so are
the refinements of Throttle and Catalog. What is left:

1. **Refinement**: Lifecycle implements a small specification `Intent` of one server
   (wanted, up, crashed, brought back) under the mapping that reads `desired_state` and
   the container; Updates implements "one install at a time" outside the raced window.
2. **Rows of the mods registry** next to imports and pinned versions, the migration of old
   databases (`models.py`), and the load order against "dependencies first".

The runs are few and each asks one question. A refutation that is understood makes room
for a new module: section 12 keeps what it showed.

## 3. Lifecycle

### 3.1 State and actions

| Code | Model |
| --- | --- |
| `Instance` rows | `db`: exists, wanted state, template, `last_started` template, `face`, restart toggles |
| `Template` ids | `templates` |
| containers found by label | `cont`: status, what was baked in (template, `face`, policy), what it runs |
| `config.json` | `conf`: the template it was last rendered from |
| `_seen_running` | `seen` |
| a worker thread in an API handler, the monitor's thread | `thr[t]`: program point, the row as read, the container handle, the rest of a batch |
| the monitor's pass | `mon`: which pass, the copy of the table, who is left |
| the process and its lifespan shutdown | `mgr` |

A database session without a Docker or network call between its read and its commit is
one action; every Docker call is one action; a template lookup in a session of its own
is split from the write that follows. So the start of a server is `StartRead`,
`StartFind`, `StartRemove`, `StartWrite`, `StartCreate`, `StartRun`, `StartCommit`, with
every other thread free to step in between, and `StartCommit` writes what the code's
ORM would: the columns that differ from the row *as read*. `Find` gives a thread a
handle; `held = "dead"` is a handle whose container somebody else removed.

Left out: the in-memory `forget_seen_running` is merged with the commit next to it;
disk failures; a failing `ping` is one of the faults; name, ports, launch parameters and
network mode are one bit, `face`, because the code only asks whether any of them changed;
when a scheduled restart is due is left open here (`Due` and `NotDue` are both possible;
Fleet has the times).

### 3.2 Bounds

One server: one operation works on several, the deletion of a template that detaches
those pointed at it and stops each in turn (for ports, see Fleet), and that with more than
one is left to the proofs, which hold for any set of servers; a row can be deleted and created again under the same id, as SQLite does. Two
templates, so that a switch is seen. Two admins and the monitor: three threads can be
at work on the server at once. A behaviour starts with one of the
budgets in `Limits`, each a bound on requests, scheduled restarts, Docker faults, exits and
process ends. Admins and templates are symmetric in the safety run.

| Run | Bounds | Shows |
| --- | --- | --- |
| `lifecycle_failures` | 2 requests of all nine kinds with 1 each of schedule, fault, exit and process end, or 3 requests with 1 exit; 2.0 million states | `TypeOK`, `SettledAgree`, `SeenRanThisBoot`, `NoDanglingTemplate`, `RebootIsNotACrash` |
| `lifecycle_recovery` | 1 admin who starts, stops and edits, the first of these budgets, fairness | `WantedComesBack` |

`disturbed` is the honest part of `SettledAgree`. A start holds the row it read for as
long as Docker takes; a stop, edit or delete committed in that window is not seen, and
row and container may disagree afterwards: that is what the code does. The model marks
such a server, and one whose Docker call failed or whose process was killed at work, and
the property says that *nothing else* leaves the two apart. The last exception came
from a proof, not from a run: `detach_template` marks the servers as stopped, then stops one
after another, and when one of them was deleted before its turn the error ends the walk; the
rest stay up, unlinked and marked stopped (`StopRow`, section 12). One server cannot show it. Recovery then has to deal
with the marked ones: `WantedComesBack` has no such exception.

Fairness: threads run to their end (a Docker call has a timeout), the monitor loops
every 15 s, the process comes back (`restart: unless-stopped` in `docker-compose.yaml`),
Docker restarts a container it calls restarting. The API asks for nothing by itself and
no failure has to happen.

### 3.3 Proved

`TypeCorrect`, `SeenRan`, `RebootNoCrash`, `NoDanglingHolds` and `SettledHolds`
(`LifecycleProofs.tla`), for any sets of servers, templates and admins and any limits: every
safety property of the two runs. Each action has a lemma of its own; a theorem's step
combines them. The inductive invariants:

* Type correctness is not inductive alone: that a thread works on a
  server, or none, that fits its program point is `SoundThreads`.
* For the reboot, "what is in `seen` ran under this process" needs to know that what is up
  now has run under it, and that a start about to commit has brought its server up: `RanInv`.
* `NoDanglingTemplate` needs `OrderlyThreads` (a template in a thread's hands is being
  detached, by a request, from servers it has collected) and that a deleted row points at none.
* `SettledAgree` is about servers nobody works on; what keeps it true is what is known of one
  that somebody does. `Undisturbed` says it of every server outside `disturbed`. A living
  container has a row, which it agrees with unless a thread is on its way to end it
  (`Ending`) or to commit its start (`Committing`); a thread inside a start has read what the row still
  says (`ReadStands`); and a container about to be removed with its row is also about to be
  committed. `Handles` adds what a thread's handle of a container is worth: it is there, and
  of the template the thread read. Each action either leaves a server standing, or disturbs
  it, or re-establishes this for it.

Checked only: `WantedComesBack` (liveness is out of the prover's reach).

## 4. Releases

### 4.1 State and actions

`item[id]` is a row of the template table: its stage (test, dev, prod, or gone),
content, version and what it is based on; `frozen` the versions kept of Prod items;
`lock[id]` the tab that holds the edit lock; `server` the template each server points at
and the version it is pinned to; `tab` what a browser tab has loaded and whether its
inputs are enabled; `worker` the requests whose check and write are apart. Tabs open, save, close and
lose their lock (`Lapse` is the passing of `edit_locks`' time to live); rows are created,
copied, imported (as new, as a copy, over an existing item), released (`PromoteToDev`,
`PromoteNew`, `PromoteInto`), deleted with detaching or with a move of their servers;
ids of deleted rows are used again when they were the highest, as SQLite does.

Simplifications: contents are model values; names are left out (whether an import meets
an item of its name is open), and so are `based_on_version`, categories and the change log; an import is a file that a manager exported, and two imported versions stand for
any number; mod lists go through the same functions of `stages.py` without servers and
locks; they, names, origins and categories are in Imports.

`Catalog` says what the version table promises whoever reads an older version back: per
id a row of contents to which a release appends, which an import puts where there is none,
and which goes only as a whole. `Released` reads that row out of `frozen`, version by
version; it is a sequence only if the numbers run on.

### 4.2 Run

`releases`: 2 ids, 2 contents, 1 server, 2 tabs (symmetric), 1 worker; 1 write, 1 import,
2 releases, 2 requests with a gap, 1 lapse. It shows the six properties of rows, servers
and locks, and that the version table implements `Catalog` (`VersionsStay`).

Two ids are enough for a source and the Prod item it is released into, and for an id to
be used again; two releases are enough for a version to follow a version, and with an import
before them for one that has neighbours on both sides.

### 4.3 Proved

All seven properties of the run and `TypeOK`, for any ids, contents,
servers, tabs, workers and limits (`TemplateProofs.tla`). The inductive invariant is
`Inv`: `TypeOK`, `WorkersSound` (a waiting request names the item, server and tab it is about), `VersionsRunOn`, `HeadIsLatest`, `OriginsAreProd`, `ServersHaveTargets`.
They are proved together, because they lean on each other: that the head is a frozen
version needs the numbers to run on, and that a pin finds its version after a release
needs both. `PinnedServersStay` and `LockProtects` are action properties that
follow from `Inv` step by step.

`VersionsAlwaysStay` is the refinement. Under `Inv` the table is one row per template, so a
step is a step of the catalog by what it does to the table alone: a version that follows
on the last is an `Append` (`ReadGrows`), an import's two into an empty row a `Restore`, a
deletion a `Drop` (`ReadDrops`), and all other steps leave it as it is (`NextStays`).

## 5. Updates

### 5.1 State and actions

`job[j]` is a `DownloadJob` with the point its `_run` is at; `box[j]` the SteamCMD
container that job started, which lives on when the manager does not; `slot` the
service's table of the last job per branch, which `remove_files` empties whatever the job
is doing; `call[c]` a request or the automatic update of a branch, between two awaits;
`check` the daily check; `settings` the one row with both toggles and the builds the last
check found; `server` the branch's servers as one, wanted or not and running some build
(Lifecycle has the detail); `disk` and `steam` the installed and the newest build.

`SteamService.start` is three actions, because it awaits between looking at its table,
asking Docker for running containers and registering its job. `_record_check` and
`save_settings` are a read and a write each, because they run on different threads with
a session for each half. Every call to Docker may fail in two ways: with Docker's own error,
which the code around it catches (a lookup then reads as no container, in `SeemsStopped` as
a server that does not run), or with another one, a broken connection or a read that times out, which
ends whoever asked. Of a job such an error, while its container is made or removed, leaves a
task that is over, at `dead`, and a status that stays "running"; the container may be there
or not. The order in which the check asks about branches, and when a
check is due, are left open. Deleting files is atomic.

`raced` marks a branch two starts of which could not see each other (one registered
while the other was between its query and its own container), or for which Docker's
answer was lost; `left` the containers whose removal failed or whose manager ended.

### 5.2 Run

`updates`: one branch (no operation reads two, except the settings row, which holds
them side by side), one request next to the automatic update, two jobs, two builds, two
user requests, one check, two faults (a failed Docker or Steam call, an error that escapes,
a crashed server or a new manager process). Two jobs are enough for one to overlap another,
two builds for a release to arrive before, during or after the download, and two faults for a
failure to meet a new manager process or another failure. 1.6 million states.

* `OneWriter`: at most one container writes to a branch's folder, however jobs are
  forgotten and managers replaced, unless the branch is in `raced`.
* `JobsLeaveNothing`: a job that is over leaves no container running, so no later start
  is refused because of one that nobody waits for.
* `SuccessIsInstalled`: a job reported as a success left a build at least as new as the
  newest at its start.
* `RestartsOntoTheUpdate`: the restart after an automatic download brings the build the
  check promised, however the download, a removal and a release overlap.
* `UpdatesEnd`: the automatic update ends, even when its job is forgotten, unless an error
  that nobody catches has ended the task of the job it polls (`Stranded`). That one it
  polls until the manager ends, and `_start_download` starts no other; section 12 has the code.

Fairness: a job waits for its container no longer than `steamcmd_timeout_minutes`, and
the event loop goes on with every task. Containers need not end, and nobody has to ask
for anything.

### 5.3 Proved

`TypeCorrect`, `OneWriterHolds`, `NothingIsLeft`, `SuccessHolds` and `UpdateIsRun`
(`UpdatesProofs.tla`), for any branches (at least one), admins, numbers of jobs and builds and any limits.
The assumptions are numbers for the bounds, and that a branch's task is not
also a user's request. `Inv` has five parts, each about a pair of what is kept apart in the
code:

* `BoxesOfJobs`, job and container: a container that runs belongs to a job that waits for
  it or is about to remove it, or to one that such an error ended, or is in `left`.
* `WritersAlone`, which is what makes `OneWriter` inductive: outside `raced` a branch has
  at most one job that writes or is about to create its container, and none that writes while a
  start is between its query and its registration.
* `BuildsGrow`: what a job set out to install, what a check found and what a task was
  promised is no newer than what Steam has, and a container that runs installs no less than any
  job of its branch wanted. Two jobs that follow each other may not lose a build.
* `GoalsReached`: a success left what the job set out to install (from `BuildsGrow`).
* `TasksOfBranches`: the task of an automatic update looks at a job of its own branch, which
  set out for the build the check promised, or for whatever is newest.

Checked only: `UpdatesEnd`.

## 6. Streams

`pull` are the jobs of one image (`ImageService`; the download jobs of Updates use the
same `jobs.py`), `current` the one the service knows; `page[p]` what a tab shows and the
requests it has under way; `handler[p]` the endpoint's side of its socket, between
composing the snapshot, sending it and subscribing; `chan[p]` what is on the wire. A page
that is left, a lost socket and a restarted manager end a socket; `onclose` asks for the
status again. Percentages are left out; a page has at most one refresh under way.

`streams`: one page, and another tab that presses the button (`PullElsewhere`); two jobs,
one log line each, one fault.

* `FollowsItsJob`: a page that has read everything shows the status of the job its socket
  follows. Two windows are outside: the job went on between the snapshot and the
  subscription (`late`; for an image the Docker query for the snapshot lies in it), or a
  refresh reply composed earlier arrived after the socket had told more (`overtaken`).
* `LogIsWhole`: snapshot and the lines after it make the whole log, once.
* `FollowersLearnTheEnd`: a subscribed page learns the end of its job or loses its socket.
  Fairness: Docker ends every pull, the event loop and the browser go on.

Proved (`StreamsProofs.tla`), for any number of pages, jobs, lines and faults: `TypeCorrect`,
`FollowsHolds` and `LogHolds`. Both properties are about a page that has read everything; the
invariant says what holds while something is under way. `UpToDate`: the last message on the
wire, or if there is none the page, has the status of the job. `Ordered`: only a
snapshot is first, lines say running, and a status that is on its way is one the
job had. `Counted`: the lines shown and those on the wire make the job's log, unless the
page was `cleared` meanwhile. `Taken`: the snapshot is of the job as it was, and as it is
outside `late`. `Asked` says the same of the reply to a refresh. The proof needs facts
about a sequence only at its two ends: a message is put last and taken first.

Checked only: `FollowersLearnTheEnd`.

## 7. Shelf

### 7.1 State and actions

| Code | Model |
| --- | --- |
| game state under `profile/` (`_state_paths`) | `world`: the save target it was written under, which save it is, and whether it is whole, a mix or a part |
| scenario and hive id of the template the server is set to | `runs`, one of `Keys` |
| the server's container | `server`: its status (down, up or restarting: Docker brings a crashed one back), the target it was made for and the save it has in memory |
| `<id>.tar.gz`, `<id>.json` | `archive` (none, being written, whole; of which world; whether the world changed meanwhile), `sidecar` (the label and `server_running`) |
| a worker thread in an endpoint | `thr[t]`: program point, the id it writes, the archive it restores, the template to switch to, what follows the backup |

A backup is `Context`, `Look`, `Mint`, `WriteBegins`, `WriteEnds`, `WriteSidecar`,
`Prune`, `Drop` for every victim, `BackupDone`; a restore is `RestoreCheck`,
`RestoreJudge`, if it is to keep the old world a backup, if it is to switch
`SwitchCheck`, `SwitchWrite`, `SwitchRemove`, then `Swap` and `Unpack`, the two halves of
the helper container's script. A plain switch and a clear of the saves use the same
steps. The server may start, save, end or crash-loop, and the template may be edited, at
any point of them. Every look at the server (`Look`, `RestoreCheck`, `SwitchCheck`,
`ClearCheck`) may fail: `find_instance_container` then returns None, which reads as "not
running", so each of the four goes on under a server that is up (`Unseen`); an error that is not Docker's own
ends the thread instead (`LookupRaises`), as does a daemon that is down for the ping of a
restore. A server that is up saves over whatever is there: over
nothing, or the world of another target, a whole new world; over a world of its own target
that it did not write or read, a mix (`SavedAs`). The manager may be replaced: its threads are gone, a half-written
archive stays, and a helper container between `Swap` and `Unpack` runs on.

Simplifications: one server, because no operation reads two; the game state is one value,
so that a clear removes it at once; the archive and its sidecar are removed by one
action; ids are ordered numbers, of which two threads may get the same when both ask
within a second (`_mint_id` only looks for an existing file); the template to switch to,
`backup_first` and `force` are chosen where the code first looks at them; the start that
follows a clear, and the deletion of the server, are left to Lifecycle.

### 7.2 Run

`shelf`: two admins, two save targets, `KEEP` 2 with a shelf that is full from the start,
two more ids, two requests, one save and one event that nobody asked for (a start, a crash, an edit
of the template, a lookup that fails, a failed step, a new manager process). Two requests are enough for any two operations to
overlap at every step, the save is apart from the events so that a server may save between two steps that
a failed lookup let pass; one more backup than `KEEP` is enough for a prune. 4.7 million
states.

* `ReplacedWorldIsKept`: what a restore removes is on the shelf, whole, when a copy was
  asked for or the restore was forced.
* `RestoreHasItsArchive`: when the world is removed, the archive to replace it is there
  and complete, unless the restore was forced.
* `UnforcedRestoresFit`: what an unforced restore unpacks was recorded for what the server
  is then set to.
* `NoMixedWorld`: no restore leaves a mix of two worlds, and no server that is up makes one
  by saving over a world that was put there under it.
* `TornBackupsSaySo`: an archive that caught the world changing says that the server was
  running.
* `ShelfIsBounded`: with nobody at work there are at most `KEEP` archives, and the one a
  restore protected.

Nothing locks a server's files, so each of these has an exception for what another thread
or the server does in the window between a check and its use, and the history variables
name them one by one: `overrun` (the server came up, or somebody replaced the world,
after a restore had checked, or Docker did not answer that check), `blind` (the same after a backup had looked, or Docker did
not answer), `moved` (the server was pointed elsewhere), `lost` (an archive
was dropped by another thread while one relied on it, to restore it or as the copy it
has just made: `protect` covers the restore's own prune only), `twice` (an id was minted twice), `aborted` (a prune or an upload was cut
short). Without any of them the properties do not hold, and that is what the code does.

### 7.3 Proved

All six properties and `TypeCorrect` (`ShelfProofs.tla`), for any number of threads, save
targets and ids, every `Keep` and any limits. Two of them were stated too weakly or
too strongly for the proof to go through, and were corrected: an id in `lost` may also be that of
the safety copy a thread has made and relies on, and `NoMixedWorld` lets a restore leave a mix
that its archive holds already, as a backup of a mixed world does.

`Inv` says of every archive that one without a file is empty and that no id beyond `last` is in
use (`Archived`), and of every thread, outside the windows the histories name:

* `Alone`: no server is up while it restores or writes an archive, and the world is
  empty between `Swap` and `Unpack`;
* `Marked`: the archive it writes is of the world as it is and not torn;
* `Fits`: the archive it was allowed to restore has the label of what the server is set
  to, or of what the thread is going to switch it to first;
* `HasArchive`: that archive is there, whole and labelled;
* `HasCopy`: the copy it was asked for is there, of the world as it is;
* `Agrees`, `Numbered`, `Unlabelled`: what its own fields say together.

`Reads` adds, for the second half of `NoMixedWorld`, that a server which is up has its own
world on disk as it has it in memory, or a mix already, unless a restore is in `overrun`: only
a restore puts back a world of the same target, and by `Alone` it does so under a server that
is up only when it is in there.

`Apart` is about two threads: they have the same id only if it is in `twice`, and one does
not write the archive the other restores. What one thread may do to another is one lemma (`Watched`,
`IdKept`, `ArchiveKept`), each action is shown to do no more than that, and the thread's own
conjuncts are proved action by action. `ShelfIsBounded` has an argument of its own, a count
(`ShelfFits`): of the archives no thread is still to prune after there are at most `Keep`
and one, or a thread is dropping those that are too many; it uses
the library's facts about cardinalities and the least element of a set of ids.

## 8. Access and Throttle

### 8.1 State and actions

| Code | Model |
| --- | --- |
| `_attempts`, one `_AttemptRecord` per client | `attempts`: the window's times, strikes, locked until, last seen |
| the trusted proxy's address and `_proxy_lookup` | `proxy`, `lookup` |
| `AppSetting "admin_password"` over the environment's password | `stored`, `Env` |
| the file `session_salt` | `salt`, a number; 0 while it is missing or has been emptied and not written |
| a signed cookie in a browser | `cookie`: the salt and time it carries, and the password it was opened with |
| a handler on the event loop, with its password checks in threads | `call[b]` and its program point |
| `manage.py reset-password`, a process of its own | `reset` |

`Charge` is `_throttle`: evict what is stale, evict the oldest unlocked record for a new
client when the table is full, refuse a locked client, trip at `MaxAttempts` with a strike
and the next lockout step, else let through. `Knock` is a login that fails; `AskLogin`,
`LoginKnown`, `Match`, `LoginReply` one that may not. A change of the password is
`AskChange`, `Match`, `ChangeReply`, `ChangeSet`, `RotateEmpty`, `RotateWrite`: the password
is written first, in a thread, and the salt afterwards, on the loop, by a write that empties
the file before it fills it. `LoopFree` says which of these cannot be interleaved with
another handler; the console's `Reset*` can.

Simplifications: two salts are never equal; session times are the clock's; a wrong user
name is a wrong password; cookie flags and the checks of origin and host have no state and
are left out.

`Throttle` is the promise, without a table: a client is let through at most
`MaxAttempts` times in a window, a lockout grows step by step with the strikes, only time
and the right password lift one, nobody who is locked out is forgotten, and the number of
clients remembered passes `MaxTracked` only when all of them are locked out. `Access`
implements it under the mapping `Promised` (`ThrottleHolds == Promised!Spec`).

### 8.2 Runs

* `throttle`: one browser behind the proxy, a stranger, and the proxy's own address make
  three clients at a table of one record; a window of 1, lockouts of 1 and 2, a memory of 2
  over a clock to 5. The last lockout step, the end of a strike's memory, a full table of
  locked records and an eviction all occur. 2.9 million states. Shows `ThrottleHolds`.
* `sessions`: two browsers, two passwords, two proxy addresses, four requests and one
  fault. Shows `OldPasswordIsOut`: once a change or a reset has written its salt,
  every session that counts was opened with the password in effect and signed with the
  newest salt; and `ProxyIsFoundAgain`: a recreated proxy is itself charged for no longer
  than a look-up is kept.

`OldPasswordIsOut` has two windows. `late`: a login whose password was right when a thread
looked at it is answered after the change has written the new salt, and gets a session
signed with that. `broken`: the process ends between the new password and its salt, so
the old sessions stay; the file may be left empty then, which reads as the constant salt of
old installs (salt 0).

By reading the same lines: after the longest lockout the record lapses with `Memory`, so
that a client who waits for it starts without strikes, as `Throttle` says
(`Lapsed`); the table is in memory, so a restart of the manager forgives everybody.

No fairness: both properties are about safety.

### 8.3 Proved

`TypeCorrect`, `OldPasswordHolds`, `ProxyHolds` and `ThrottleImplemented`
(`AccessProofs.tla`), for any browsers, strangers, passwords, proxy
addresses, window, steps of the lockout, memory and size of the table. Assumed is what the
settings satisfy: at least one attempt and one record, at least one lockout step, no step shorter than
the window and no memory shorter either; a client's address is not also the proxy's.

* `OldPasswordIsOut` rests on `Sessions`. `Signed`: a cookie with the newest salt was opened
  with the password in effect, unless it is `late`, the rotation `broken`, or a new salt still to be
  written. `Salted`: the salt is the newest one made, or somebody is
  about to write it. A change writes the password first, and between the two writes every old
  session counts: the property says nothing there, the invariant must.
* `ProxyIsFoundAgain` rests on `LookedUp`: a look-up made after the proxy has its address
  found that address.
* The refinement maps a record of the table to what Throttle promises of the client. The
  invariant `Tabled` relates the record's window, which drops what is too old only when
  the client knocks again, to `through`, which Throttle keeps whole: the window is
  a tail of it but for attempts before the last lockout lifted (`Matches`). With it, each kind of
  knock (a first one, one let through, one refused, one that trips) is a step of Throttle, and
  every other step one that leaves it alone. That no lockout is shorter than the window is
  needed here: otherwise attempts from before a lockout would count after it.

`Since` (`Windows.tla`) is the code's `popleft` loop as the part of the sequence from the first time
that is not too old. It was a filter of the sequence before, which is the same for
times in order; the loop is what the code has, and the library states facts about `SubSeq`.

## 9. Editing and Rendering

### 9.1 State and actions

A template's row is `config` (the rendered document), `mods`, `graph`, `label` and `extras`
(`extras_json`, a merge patch of what the wizard has no field for). `page` is the spec in
the wizard. `OpenTemplate` reads a row, `NewTemplate` starts from the defaults, `ChangeField`
is the form, `ApplyRaw` the editor on the preview (`/validate`, `/reconcile`, then the save of
a template that is there already), `ImportFile` reads a config.json into the page,
`SaveTemplate` renders and stores. The rows it starts with include those earlier versions
left: a key that was custom then and is a field now (the mission header), mods without their
list, a `required` typed by hand, a value that is out of range today.

`Rendering` has the pure half: `merge_patch` and `diff_patch`, `to_config`,
`spec_from_config`, the known paths of `config_validator`, `_custom_keys_only`,
`_drop_now_modelled`, `reconcile_config` and `_out`. Of the several dozen fields it keeps one for
each way the code treats a field: plain, clamped, in a pair, a list of entries, a list of
names, in a block that is written under a condition, free-form, and the mods. Values are
tokens.

A JSON object is one function, from the path of every key in it, at any depth, to the leaf
that is there or to `Object`. What the code does key by key and by recursion is then a
statement about paths above and below each other: a merge keeps what has no leaf of the patch
at it or above it, a dropped key takes along the parents that have nothing else in them. The
modules have no recursion, and documents no bound on their depth. On 800 small documents,
and all pairs of them, `Merge`, `Diff`, `DropPath` and `CustomKeysOnly` give what the Python
functions give.

### 9.2 Run

`editing`: three changes of a page out of 15 of the form, 29 by hand and 3 files, over four rows,
with any number of saves and openings between them; every way a key is treated meets
every other. 182 thousand states.

* `CustomKeysSurvive`: what was typed outside the fields stays in config.json as it was
  typed, whatever the form, saves and openings do after.
* `AppliedIsRendered`: a document applied by hand is what the page then renders, and all it
  renders beyond it are keys of the wizard's.
* `WhatIsSavedOpens`: opening a saved row gives every field back.
* `OpeningChangesNothing`: opening a row and saving it as it is changes nothing the server
  gets, old rows included.

The exceptions, each of them what the code does: a merge patch cannot hold a `null`, and
empty objects are pruned from it (`CustomKeys`, `AppliedIsRendered`); so are keys inside of what should be
a list of names; fields of a block that is switched off are not kept (`Written`);
persistence switched off over a custom database opens as switched on, because the patch
brings the block back, a password typed as empty by hand empties the form's, and a
list of names typed under RCON that is off is forgotten (`Revived`); names typed twice are
stored once at the next save (`Unlisted`); an import of a file takes its fields and none of
its custom keys.

### 9.3 Proved

All four properties of the run (`CustomKeysAreKept`, `WhatIsAppliedIsRendered`,
`SavedIsOpened`, `OpeningIsQuiet` in `TemplateProofs.tla`), for any names of keys,
edits, files, documents of any depth, rows of earlier versions and number of changes.

None of them is inductive: none says what the extras must not contain, and that is what they
depend on. `IInv` is `PageInv /\ RowInv /\ AppliedIsRendered` (`EditingInvariant`):

* `PageInv`: the page is a spec whose extras are `Made` (they leave alone the fields that are
  written and read back unchanged, keep blocks objects, hold no empty object) and `Keeps` the
  custom keys that were applied.
* `RowInv`: the row was rendered from some clean spec (`RowFrom`) with such extras, but for those
  an earlier version kept for what is a field now.

`ApplyIInv` is the step that needs most. What `reconcile_config` stores is the patch from its own rendering
of the fields to the document (`PatchIs`); that the rendering agrees with the document on the
fields that are mirrored (`AppliedFields`) keeps them out of the patch (`ExtrasAreMade`), and
that the merge of both is the document again is `ReconcileApplies`. For saving and opening, a
field is read as it was written since the extras have nothing at or above it (`FieldsStay`,
`HeaderStays`, `ModsStay`).

`OpeningIsQuiet` compares two renderings with two patches key by key (`ReopenedSame`). What has
become a field is dropped from the extras and rendered from the field instead; an entry that
deletes a key deletes it in both; a block that is dropped, as it held only what has become
fields, is written anyhow.

`PatchMakesTarget` is the docstring of `diff_patch`, "Inverse of merge_patch", for
documents of any depth and with the condition it needs: no null in the target.

Assumed is that the names of the wizard's own keys are among `Keys`, that edits name a path,
files are documents, and that a row of an earlier version is one (`IsOld`): rendered from a
clean spec by the same `to_config`, with mods in it and a header that is not empty, with extras that
touch no field except those that are fields only now. A row typed into the database by hand
need not be one.

## 10. Imports and Diffs

### 10.1 State and actions

`rows` are the tables of templates and mod lists by name, with stage, content, versions,
origin and category; `file` what the user exported; `page` what `Backup.vue` holds: the file,
the preview's verdict per entry, the decision per entry. `Export`, `Choose` (upload and
preview), `Decide`, `DecideForAll`, `Import` are the way through; `FileBeforeStages` and
`FileByHand` the files of old versions; `NewManager` the user who takes the file to an empty
one. Meanwhile templates and mod lists are edited, created, copied, promoted (to Dev, as
a new Prod row, into one), renamed, deleted, made into a list, and opened in another
session.

`Import` is one action because it is one transaction: `Progress` goes through the entries in
order and `Carry` is where it ends, `Refused` and a collision end it, `Linked` resolves origins once all rows are there,
and `Commits` writes all or nothing.

`Diffs` turns two contents into the set of lines `change_log.py` and `backup.py` find; an
empty set is "identical". Wording is left out, which columns and lists are compared, by what key and
which fields is not.

Simplifications: a name is a sequence, `<<a>>` as typed and `<<a, n>>` for its n-th
"(imported)" copy; names of copies and of lists made from a template carry a zero. The
truncation of long names is left out. An origin is followed by name, as it follows
renames by its id in the code. Locks are only held or not (Releases has their age).

### 10.2 Runs

`imports`: two shelves (a Prod template with two versions, a Dev one based on it that sorts
before it, a mod list; a template next to an imported copy of itself), two contents, two
changes, an export, a rewritten file, two previews, a new manager. 580 thousand states.

* `AllOrNothing`: an import that is refused or fails leaves every row as it was, and a
  done one has brought in everything that was decided on.
* `UnaskedStays`: a row that was here stays as it was, unless its name was decided to be
  overwritten; and in Prod or open elsewhere not even then, whatever the preview said.
* `RestoreIsWhole`: an exported shelf imported onto an empty manager is that shelf.

`imports_identical` (violation): a template that differs from the file's in a mod's
`required` flag alone is previewed as identical and left out of "Restore everything",
though its servers would read another config.json.

What holds no property, by counterexample or by reading: an overwrite replaces content that was saved
since the preview (only Prod and locks are guarded); an entry that is to be created may
have the name an earlier copy of the same import was given, which ends the import with
an internal error and writes nothing; an overwritten row's category changes
without the line `v0.74.0.md` promises ("Category changes are written to the template's
change log"); an origin's version may be higher than any the local Prod row has; an import
registers the mods of each head only, so that mods used in an older imported version alone are missing
from the overview until the registry is rebuilt (`backup.py:626`).

### 10.3 Proved

`TypeCorrect`, `AllOrNothingHolds`, `UnaskedHolds` and `RestoreHolds` (`ImportsProofs.tla`), for
any contents, shelves, names and budgets. Assumed is that a manager starts with a sound
shelf: only Prod rows have versions and a row stems from a Prod row that is there, which an
empty database satisfies and every operation keeps (`Sound`, part of the invariant).

* An import is a walk through a file of any length. `ProgressWalks` shows that the recursive
  function `Progress` exists and takes one entry after another; `Walked` is what is true after
  i entries: rows that were here are as they were or as a decided overwrite makes them, rows
  that were made have new names, each entry decided on is there under its name or a copy's.
  `WalkedOn` carries it over one entry, case by case (`CarriedCases`), and `UpTo`, induction up
  to a number by its least counterexample, to the end.
* `LinkedFacts`: giving the new rows their origins touches none that was here, and what they
  stem from is Prod afterwards.
* `RestoreHolds` follows a second walk, `RestoredTo`: on an empty manager every entry becomes a
  row of its own. The file holds each row once, since `Before` is a strict total
  order of names (`BeforeIsTotal`, `BeforeIsTransitive`) and the ranks of n names in it are
  the numbers below n (`ByNameFacts`). `Sound` of the exported shelf is needed: a
  Prod row without versions would come back with one.
* The free names of copies (`FreeName`, `CopyName`, `MakeList`) exist because among n + 1
  names one is not taken by n rows (`OneIsFree`).

For these proofs three definitions of the model changed their form: the fold over
the entries is a recursive function and the sort of the names says by rank which comes where, since the
library's `FoldLeft` and `SetToSortSeq` have no facts to cite; TLC finds the same
states. `IInv` was checked on the instance of `imports` first.

## 11. Fleet

### 11.1 State and actions

`row[s]` is what a row says of ports, schedule, the stamp of the last scheduled restart and
the wish to run; `thread[t]` a thread that creates a server or changes its ports, between
reading the used ports and its commit; `pass` is `apply_scheduled_restarts` with its `now` and
its copy of the table; `clock` counts hours, say, over days of `Day`. `CreateReads`,
`CreateCommits` and `CreateEnds` are `create_instance` (the last may undo the row when the
old data cannot be moved aside), `PortsRead` and `PortsCommit` `update_ports`,
`SetSchedule`, `Wants` and `Delete` the handlers; `PassBegins`, `Restarts`, `PassesOver`,
`RestartEnds`, `PassEnds` the pass. Time may pass anywhere, so a pass may be long or the
manager down.

Left out: containers (Lifecycle); a change of the local clock to or from summer time.

### 11.2 Run

`fleet`: two servers, two threads (both symmetric), one kind of port with a range of two and
an old port outside of it, two times of day within one grace at the end of a day of three, a
clock into the second day, two requests, one failing restart. 1.5 million states.

* `PortsApart`: no two servers have the same port of a kind, unless one got its port in the
  window `raced`: another commit fell between reading and writing. Nothing in the
  database keeps two rows apart.
* `FirstPassOnly`: a scheduled restart is for an occurrence that came after the server was
  last looked at and after its schedule was set.
* `NothingLeftDue`: a pass that ends leaves nothing due that was due when it began, also
  for the servers behind one that was stopped, deleted or failed.

Both exclude `late`: a schedule set, or a row made, while a pass works through its copy. The
pass then restarts by the old schedule, and stamps its own older `now` over the newer
stamp, so that an occurrence the user's change should have passed over can fire. Whether
each occurrence does fire is not promised: one that no pass meets within its grace, or
before midnight, is dropped, as `_due_scheduled_restart` only looks at today. A port from
before ranges were enforced is kept, and may be the port of another kind
elsewhere; kinds are checked apart.

### 11.3 Proved

`TypeCorrect`, `PortsStayApart`, `NothingIsLeftDue` and `FirstPassHolds`
(`FleetProofs.tla`), for any servers, kinds, ranges, threads, schedules, length of day and
grace: every property of the run.

`PortsApart` is not inductive:
`PortsInv` adds that what a thread has read is still true unless it is `stale`, so its ports
are no other server's when it commits. That a leased port is free at all needs the least
element of a set of numbers, which the library's well-founded induction gives.

`DueInv` is what a pass knows: its copy agrees with the rows of the servers before it (but for
`late`), and nothing of what was due at its `now` is due at those behind it, because a stamp
with `now` covers every occurrence up to it.

`FirstPassOnly` needs `FirstInv`: of no server is anything due, at any time from then on, of
what came before it was last looked at (`Quiet`). A pass that finds nothing due and
stamps nothing keeps it by `LookedThrough`: what is due later, and came before the look, is
of the same day, so it was one of today's occurrences then, and within its grace. This
is the arithmetic of `Midnight`, and the only place where the grace must be a number. `LatestIsDue`: the
occurrence a restart is for is one of those due.

The assumptions are those of the module: numbers
for ports, times and the grace, a day that is not empty, and a `NoServer` that is none.

## 12. Where code and comments part

`findings` lists the one that is a run. Others were met while modelling, by
a counterexample of a run that was dropped again or by reading:

* `instance_service.py:2306`: a server stopped by its user after the recovery pass took its copy
  of the table is brought up by that pass, though "a user stop is not a crash to recover
  from" (`instance_service.py:1018`).
* `TemplateWizard.vue:1517`: a tab that waited for the lock saves the content it loaded before,
  over what the other editor wrote meanwhile; line 73 promises that it will not be.
* `jobs.js:31`: `connect()` does nothing while a socket is open, and the endpoint does not
  close one when its job ends, so the second job started from a page is shown as running
  for ever.
* `auto_update.py:196`: a toggle saved while a check records what it found is written back to
  its old value; the comment at 193 has the two apart.
* `instance_backup.py:441`, `instances_api.py:251`: a backup made after a template switch is
  labelled with the new template, which did not write it, and fits it from then on.
* `steam_service.py:226` "we just must not start a second writer": two starts of a
  branch can pass each other between query and registration. The container's name
  carries the second of the start, so if both fall into the same one, one of them fails.
* `steam_service.py:205` forgets the job of a branch while it is running, so its page and
  its 409 go; the container query still holds back the next start.
* `auto_update.py:219` "Not installed: there is no 'update', only a first download":
  files removed after the check asked make the update a first download after all.
* `instance_service.py:2178`: "Only instances that should be running" are restarted, by
  the copy of the table read at the start of the pass.
* `instance_service.py:508` (`detach_template`) "then any that is up is stopped": it calls
  `stop_instance` for each server it has unlinked (line 536), which raises "Server not
  found" when that one was deleted since; the error ends the walk and the request, the template
  stays, and the servers behind it stay up without a template and marked as stopped, so
  that nothing brings the two together. Found when the proof of `SettledAgree` did not go through for
  more than one server; TLC shows it with two servers and a start, a detach and a
  delete. The model marks them as `disturbed`.
* `instance_service.py:508` and `templates_api.py:613` ("must not keep
  a dangling id"): a server pointed at the template between the two keeps it; the model
  excepts these in `NoDanglingTemplate` and `Releases` catches the reuse of the id.
* `instance_service.py:2313` "'unknown' — a daemon hiccup; don't act on a blind read": the
  lookup that fails reads as an absent container instead, so the recovery pass starts
  the server, and replaces a container that is running.
* `mods_api.py:83` checks the stage, asks the Workshop and writes later: mods are added to
  a row that was released meanwhile, and "a Prod row's own columns always equal its
  latest version" (`stages.py`) ends.
* `instance_backup.py:674` "a mix of two worlds is not a restore": two restores of one
  server, or a start after the check, leave one.
* `instance_backup.py:448`: a backup says that the server was not running when Docker did
  not answer.
* `instance_backup.py:697`, `instance_service.py:467` and 1599: "Stop the server before ..." is not
  said when the lookup fails (`docker_service.py:241` returns None, which reads as absent):
  a restore whose ping two lines later is answered, a switch and a clear then go on under a
  server that runs, which may save between the safety copy and the swap, or over the restored world.
* `steam_service.py:271` and 359 catch `DockerException` only. A read that times out or a
  broken connection is a `requests` error, so it ends `_run` before `_finish`: the job says
  "running" until the manager ends (or the branch's files are removed), every start is refused
  (line 225), and the automatic update that polls it never ends. `Stranded` in Updates.
* `instance_backup.py:501`: two prunes, or a prune and a deletion, meet: the second finds
  an archive gone, and a backup that is made is reported as "Unknown backup".
* `set_instance_template`: "Blocked while the server is running": checked once, in an
  earlier session than the write.
* `shutdown_all_instances`: "remove every managed server container" and "desired_state
  stays 'running'": a request at work during the shutdown may start one afterwards, or
  commit "stopped".
* `stages.py:419`, a pin that names no version "can't happen through the API": it does
  when a server is pinned across a deletion of the template (`strayed` in Releases).
* A page left in mid-download asks for the status from its `onclose` and opens a socket
  that no component owns any more; its subscription lasts until the browser drops it.
* `change_log.py:93` again: a save that changes nothing but a mod's `required` writes no
  line into the change log.
* `templates_api.py:178` "extras keeps only what the wizard doesn't manage": custom keys in
  an entry of a list are not told apart from the list, so a `playerWhitelist` entry typed
  without its `name` puts the whole list into the extras, which override the form from then on.
* `instance_service.py:1964` "an occurrence already past earlier today does not fire
  immediately": it may when a pass that began before stamps its own time over the stamp.
* `auth.py` `change_password` logs "every other session" out, and one whose login was being
  answered is not (section 8).

## 13. What is not modelled

* The rows of the mods registry, the CRUD of categories and the insertion of log lines:
  one row or one insert per request, decided by nothing else.
* Mods' versions, dependencies, load order and download progress, Workshop and Steam
  parsing: functions over remote answers.
* Clearing of downloaded mods, log pruning, the mod re-download and CPU sampling of the
  lifecycle: deletions and readings next to a server, with the check-then-act shape
  the clear of the saves has in Shelf.
* The table of fields, launch parameters and texts of errors of the rendering.
* Log parsing, readings, the AI provider, the first-run setup, the Docker gate, the
  supervisor, HTTP headers and the host CLI but for the password's reset: stateless, or a
  row with one writer.
* The migration of old databases and the frontend apart from the wizard, the pages of
  downloads and of import; deployment scripts.

## 14. Method

TLC explores small instances completely; a property is stated only after a mutation of
the code as modelled, listed under `mutants`, was seen to break it. Every module has a
`TypeOK` or says in comments what its variables hold; that of Lifecycle is checked by a run,
that one and those of Releases, Updates, Streams, Shelf, Access and Fleet are proved, the
others are documentation and not properties of a run. Deadlock is not checked in any run: the manager may be left alone by everybody, and the budgets run out.
Histories (`disturbed`, `raced`, `late`, `broken`, ...) are variables no action reads in a
guard, except that a container name may be taken only on a raced branch
(`Updates!RunCreate`); they name the windows a property excludes.

TLAPS proves the
theorems listed under `theorems`, without assumptions beyond those of the modules:
distinct model values, numbers for ports and times, budgets in `Nat`. Of each property TLC
agreed first, and of its inductive invariant as well, as an invariant of the run's instance. The
proofs changed the models where they could not go through: exceptions that were too wide
or missing (sections 3.2 and 7.3), an assumption on a constant that was needed and not
stated (`Grace`, the branches of Updates), a filter that stood for a loop (section 8.3), the form of an import's walk and of a sort (section 10.3).

What stays with TLC, and why:

* liveness: `WantedComesBack`, `UpdatesEnd` and `FollowersLearnTheEnd`. No theorem relies on
  fairness.
* Diffs: what a preview calls identical is refuted (section 10.2), so there is nothing to prove.
