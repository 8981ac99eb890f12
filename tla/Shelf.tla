------------------------------- MODULE Shelf -------------------------------
(* The saved game of one server and its shelf of backups                   *)
(* (services/instance_backup.py): archives are written, uploaded, pruned,  *)
(* deleted and restored by worker threads that share nothing but the files *)
(* and the rows, next to template switches, clears and the server itself.  *)
(* A file access, a database session or a Docker call is one action.       *)
EXTENDS Integers, FiniteSets, FiniteSetsExt

CONSTANTS Admins,    \* worker threads that serve the API
          Keys,      \* save targets of templates: scenario and hive id
          NoKey,     \* an archive that does not say
          MaxId,     \* backup ids, ordered by the time they carry
          Keep,      \* KEEP
          Limits     \* how often each bounded event may happen

BoundedEvents == {"requests", "saves", "events"}

ASSUME ShelfAssumption ==
  /\ NoKey \notin Keys /\ MaxId \in Nat /\ Keep \in 1..MaxId
  /\ Limits \in [BoundedEvents -> Nat]

VARIABLES
  world,      \* the game state under profile/
  runs,       \* the save target of the template the server is set to
  server,     \* its container
  archive, sidecar,
  last,       \* the newest id minted
  thr,
  lost,       \* history: archives dropped while a thread relied on them
  twice,      \* history: ids two threads minted in the same second
  moved,      \* history: restores whose server was pointed elsewhere meanwhile
  overrun,    \* history: restores whose world somebody else, or a server up, may change
  blind,      \* history: backups whose world did, after the server was looked at
  aborted,    \* history: a prune or an upload was cut short, and no prune has begun since
  budget

vars == <<world, runs, server, archive, sidecar, last, thr, lost, twice, moved,
          overrun, blind, aborted, budget>>
files == <<archive, sidecar, last>>
history == <<lost, twice, moved, overrun, blind, aborted>>

Ids == 1..MaxId
None == 0

\* Which template wrote it, which save it is, and whether it is one world.
World == [by: Keys \cup {NoKey}, n: Nat, kind: {"whole", "mixed", "part"}]
Empty == [by |-> NoKey, n |-> 0, kind |-> "whole"]

\* The target the container was made for, and the save it has in memory.
Container == [status: {"down", "up", "restarting"}, plays: Keys \cup {NoKey}, n: Nat]
Down == [status |-> "down", plays |-> NoKey, n |-> 0]
Playing(target) == [status |-> "up", plays |-> target, n |-> world.n]

Archive == [file: {"none", "writing", "whole"}, world: World, torn: BOOLEAN]
NoArchive == [file |-> "none", world |-> Empty, torn |-> FALSE]

\* The .json next to an archive: the target it was written for, server_running.
Sidecar == [there: BOOLEAN, label: Keys \cup {NoKey}, running: BOOLEAN]
NoSidecar == [there |-> FALSE, label |-> NoKey, running |-> FALSE]

Backing == {"look", "mint", "open", "write", "adopt", "copy", "sidecar", "prune", "drop"}
Restoring == {"restore.judge", "switch.check", "switch.write", "switch.remove", "swap", "unpack"}
Labels == {"idle", "context", "restore.check", "clear.check", "clear"} \cup Backing \cup Restoring

\* id: the backup it writes; archive: the one it restores; to: a template to
\* switch to; then: what follows the backup.
Thread == [pc: Labels, id: Ids \cup {None}, label: Keys \cup {NoKey}, running: BOOLEAN,
           upload: BOOLEAN, victims: SUBSET Ids, archive: Ids \cup {None},
           to: Keys \cup {NoKey}, first: BOOLEAN, force: BOOLEAN,
           then: {"idle", "switch.check", "swap", "clear.check"}]
Idle == [pc |-> "idle", id |-> None, label |-> NoKey, running |-> FALSE,
         upload |-> FALSE, victims |-> {}, archive |-> None, to |-> NoKey,
         first |-> FALSE, force |-> FALSE, then |-> "idle"]

TypeOK ==
  /\ world \in World /\ runs \in Keys
  /\ server \in Container
  /\ archive \in [Ids -> Archive] /\ sidecar \in [Ids -> Sidecar]
  /\ last \in Ids
  /\ thr \in [Admins -> Thread]
  /\ lost \subseteq Ids /\ twice \subseteq Ids
  /\ moved \subseteq Admins /\ overrun \subseteq Admins /\ blind \subseteq Admins
  /\ aborted \in BOOLEAN
  /\ budget \in [BoundedEvents -> Nat]

\* A server that never ran another template, with a full shelf.
Init ==
  /\ runs \in Keys /\ world = [by |-> runs, n |-> 0, kind |-> "whole"]
  /\ archive = [b \in Ids |-> IF b > Keep THEN NoArchive ELSE
                  [file |-> "whole", torn |-> FALSE, world |-> [world EXCEPT !.n = b]]]
  /\ sidecar = [b \in Ids |-> IF b > Keep THEN NoSidecar ELSE
                  [there |-> TRUE, label |-> runs, running |-> FALSE]]
  /\ server \in {Down, Playing(runs)} /\ last = Keep
  /\ thr = [t \in Admins |-> Idle]
  /\ lost = {} /\ twice = {} /\ moved = {} /\ overrun = {} /\ blind = {}
  /\ aborted = FALSE
  /\ budget = Limits

Spend(event) == budget[event] > 0 /\ budget' = [budget EXCEPT ![event] = @ - 1]

At(t, pc) == thr[t].pc = pc
Does(t, after) == thr' = [thr EXCEPT ![t] = after]
Ends(t) == Does(t, Idle)
Goto(t, pc) == thr' = [thr EXCEPT ![t].pc = pc]

Others(t) == Admins \ {t}

\* Those of some threads that have looked at the server or the world already.
Restorers(T) == {u \in T : thr[u].archive # None /\ thr[u].pc \notin {"idle", "restore.check"}}
Writers(T) == {u \in T : thr[u].pc \in {"mint", "open", "write"}}

\* Somebody else, or the server, writes to the world under them.
Disturbs(T) == overrun' = overrun \cup Restorers(T) /\ blind' = blind \cup Writers(T)

-----------------------------------------------------------------------------
(* The server (Lifecycle has the details) and its template.                *)

ServerStarts ==
  /\ server = Down /\ Spend("events")
  /\ server' = Playing(runs)
  /\ Disturbs(Admins)
  /\ UNCHANGED <<world, runs, files, thr, lost, twice, moved, aborted>>

\* container_status
IsRunning == server.status = "up"

ServerEnds ==
  /\ \/ server # Down /\ server' = Down /\ UNCHANGED budget
     \/ IsRunning /\ server' = [server EXCEPT !.status = "restarting"] /\ Spend("events")
  /\ UNCHANGED <<world, runs, files, thr, history>>

DockerRestarts ==
  /\ server.status = "restarting" /\ server' = Playing(server.plays)
  /\ Disturbs(Admins)
  /\ UNCHANGED <<world, runs, files, thr, lost, twice, moved, aborted, budget>>

\* What a save makes of the world: one of another template is not read, and a
\* new one begins; one that is not the server's own, put there under it, is mixed
\* with its own.
SavedAs ==
  CASE world.by # server.plays -> "whole"
    [] world.by = server.plays /\ world.n = server.n -> world.kind
    [] OTHER -> "mixed"

\* A save point.
ServerSaves ==
  LET next == MaxId + 1 + budget["saves"] IN
  /\ IsRunning /\ Spend("saves")
  /\ world' = [by |-> server.plays, n |-> next, kind |-> SavedAs]
  /\ server' = [server EXCEPT !.n = next]
  /\ UNCHANGED <<runs, files, thr, history>>

\* The template's scenario or hive id is edited.
TemplateEdited ==
  /\ Spend("events")
  /\ runs' \in Keys \ {runs}
  /\ moved' = moved \cup Restorers(Admins)
  /\ UNCHANGED <<world, server, files, thr, lost, twice, overrun, blind, aborted>>

-----------------------------------------------------------------------------
(* create_backup                                                          *)

AskBackup(t) ==
  /\ At(t, "idle") /\ Spend("requests")
  /\ Does(t, [Idle EXCEPT !.pc = "context"])
  /\ UNCHANGED <<world, runs, server, files, history>>

\* _instance_context: the target of the template the server is set to by now.
Context(t) ==
  /\ At(t, "context")
  /\ thr' = [thr EXCEPT ![t].pc = "look", ![t].label = runs]
  /\ UNCHANGED <<world, runs, server, files, history, budget>>

\* find_instance_container: a lookup that fails reads as no container, and so as
\* "not running".
Unseen == IsRunning /\ Spend("events")

\* An error of the lookup that is not Docker's own: nobody catches it.
LookupRaises(t) == Spend("events") /\ Ends(t)

\* Mutant: the flag is left out.
SeenAsDown == FALSE

\* server_running, when Docker answers.
SeenAsIs == IsRunning

\* Refused without any game state; a daemon that does not answer means "no".
Look(t) ==
  /\ At(t, "look")
  /\ \/ world = Empty /\ Ends(t) /\ UNCHANGED <<blind, budget>>
     \/ /\ world # Empty
        /\ thr' = [thr EXCEPT ![t].pc = "mint", ![t].running = SeenAsIs]
        /\ blind' = blind \ {t} /\ UNCHANGED budget
     \/ /\ world # Empty /\ Unseen
        /\ thr' = [thr EXCEPT ![t].pc = "mint", ![t].running = FALSE]
        /\ blind' = blind \cup {t}
     \/ LookupRaises(t) /\ UNCHANGED blind
  /\ UNCHANGED <<world, runs, server, files, lost, twice, moved, overrun, aborted>>

\* The second of the clock, unless its archive is there: two threads may take
\* the same before either has a file.
Mint(t) ==
  LET next == IF thr[t].upload THEN "adopt" ELSE "open"
      shared == \E u \in Others(t) : thr[u].pc \in {"open", "adopt"} /\ thr[u].id = last
  IN
  /\ At(t, "mint")
  /\ \/ /\ last + 1 \in Ids /\ last' = last + 1
        /\ UNCHANGED twice
     \/ /\ shared /\ archive[last].file = "none"
        /\ twice' = twice \cup {last}
        /\ UNCHANGED last
  /\ thr' = [thr EXCEPT ![t].pc = next, ![t].id = last']
  /\ UNCHANGED <<world, runs, server, archive, sidecar, lost, moved, overrun, blind,
                 aborted, budget>>

WriteBegins(t) ==
  /\ At(t, "open")
  /\ archive' = [archive EXCEPT ![thr[t].id] =
                   [file |-> "writing", world |-> world, torn |-> FALSE]]
  /\ Goto(t, "write")
  /\ UNCHANGED <<world, runs, server, sidecar, last, history, budget>>

\* A failed write removes the file.  One deleted meanwhile stays away.
WriteEnds(t) ==
  LET b == thr[t].id IN
  /\ At(t, "write")
  /\ \/ /\ archive' = IF archive[b].file = "none" THEN archive
                      ELSE [archive EXCEPT ![b].file = "whole",
                                           ![b].torn = @ \/ archive[b].world # world]
        /\ Goto(t, "sidecar")
        /\ UNCHANGED budget
     \/ /\ Spend("events")
        /\ archive' = [archive EXCEPT ![b] = NoArchive]
        /\ Ends(t)
  /\ UNCHANGED <<world, runs, server, sidecar, last, history>>

\* Only now does the archive say what it is; one that is gone is an error.
WriteSidecar(t) ==
  LET b == thr[t].id IN
  /\ At(t, "sidecar")
  /\ sidecar' = [sidecar EXCEPT ![b] = [there |-> TRUE, label |-> thr[t].label,
                                        running |-> thr[t].running]]
  /\ IF archive[b].file = "none" THEN Ends(t)
     ELSE Does(t, [thr[t] EXCEPT !.pc = "prune", !.label = NoKey, !.running = FALSE])
  /\ UNCHANGED <<world, runs, server, archive, last, history, budget>>

-----------------------------------------------------------------------------
(* prune and delete_backup                                                *)

Listed == {b \in Ids : archive[b].file # "none"}

\* Mutant: one more than KEEP is kept.
BeyondOne == {b \in Listed : Cardinality({c \in Listed : c > b}) > Keep}

\* Past the newest KEEP.
Beyond == {b \in Listed : Cardinality({c \in Listed : c > b}) >= Keep}

\* Mutant: prune knows of no protection.
VictimsAll(t) == Beyond

\* Never the archive that is being restored.
Victims(t) == Beyond \ {thr[t].archive}

Prune(t) ==
  /\ At(t, "prune")
  /\ thr' = [thr EXCEPT ![t].pc = "drop", ![t].victims = Victims(t)]
  /\ aborted' = FALSE
  /\ UNCHANGED <<world, runs, server, files, lost, twice, moved, overrun, blind, budget>>

Removed(b) ==
  /\ archive' = [archive EXCEPT ![b] = NoArchive]
  /\ sidecar' = [sidecar EXCEPT ![b] = NoSidecar]

\* Somebody restores b, or counts on it as the copy of what it replaces: t as
\* well, whose own copy goes when KEEP newer ones were made meanwhile.
ReliedOn(t, b) == b = thr[t].id \/ \E u \in Others(t) : b \in {thr[u].archive, thr[u].id}

\* What an earlier prune or a deletion took already is an error for this one.
Drop(t) ==
  LET b == Max(thr[t].victims) IN
  /\ At(t, "drop") /\ thr[t].victims # {}
  /\ IF archive[b].file = "none"
       THEN /\ Ends(t)
            /\ aborted' = TRUE
            /\ UNCHANGED <<archive, sidecar, lost>>
       ELSE /\ Removed(b)
            /\ thr' = [thr EXCEPT ![t].victims = @ \ {b}]
            /\ lost' = IF ReliedOn(t, b) THEN lost \cup {b} ELSE lost
            /\ UNCHANGED aborted
  /\ UNCHANGED <<world, runs, server, last, twice, moved, overrun, blind, budget>>

\* The backup was all, or the first step of what it was made for.
BackupDone(t) ==
  /\ At(t, "drop") /\ thr[t].victims = {}
  /\ IF thr[t].then = "idle" THEN Ends(t) ELSE Goto(t, thr[t].then)
  /\ UNCHANGED <<world, runs, server, files, history, budget>>

DeleteBackup(t, b) ==
  /\ At(t, "idle") /\ archive[b].file # "none" /\ Spend("requests")
  /\ Removed(b)
  /\ lost' = IF ReliedOn(t, b) THEN lost \cup {b} ELSE lost
  /\ UNCHANGED <<world, runs, server, last, thr, twice, moved, overrun, blind, aborted>>

\* Opening the card drops sidecars whose archive is gone.
Sweep ==
  /\ \E b \in Ids : sidecar[b].there /\ archive[b].file = "none"
  /\ sidecar' = [b \in Ids |-> IF archive[b].file = "none" THEN NoSidecar ELSE sidecar[b]]
  /\ UNCHANGED <<world, runs, server, archive, last, thr, history, budget>>

-----------------------------------------------------------------------------
(* store_upload: a validated archive, with or without a word on its origin. *)

AskUpload(t) ==
  /\ At(t, "idle") /\ Spend("requests")
  /\ Does(t, [Idle EXCEPT !.pc = "mint", !.upload = TRUE])
  /\ UNCHANGED <<world, runs, server, files, history>>

\* _carried_over: what an archive says of itself, if it does; anything that is no
\* save backup has been refused.
CarriedOver(by) == {by, NoKey}

\* The file is moved from another filesystem, that is, copied.
Adopt(t) ==
  /\ At(t, "adopt")
  /\ \E by \in Keys : \E label \in CarriedOver(by) :
       /\ archive' = [archive EXCEPT ![thr[t].id] =
            [file |-> "writing", torn |-> FALSE,
             world |-> [by |-> by, n |-> MaxId + 1, kind |-> "whole"]]]
       /\ thr' = [thr EXCEPT ![t].pc = "copy", ![t].label = label]
  /\ UNCHANGED <<world, runs, server, sidecar, last, history, budget>>

\* A failed copy stays on the shelf as it is.
AdoptEnds(t) ==
  LET b == thr[t].id IN
  /\ At(t, "copy")
  /\ \/ /\ archive' = IF archive[b].file = "none" THEN archive
                      ELSE [archive EXCEPT ![b].file = "whole"]
        /\ Goto(t, "sidecar")
        /\ UNCHANGED <<aborted, budget>>
     \/ /\ Spend("events") /\ Ends(t)
        /\ aborted' = TRUE
        /\ UNCHANGED archive
  /\ UNCHANGED <<world, runs, server, sidecar, last, lost, twice, moved, overrun, blind>>

-----------------------------------------------------------------------------
(* restore_backup                                                         *)

AskRestore(t, b) ==
  /\ At(t, "idle") /\ Spend("requests")
  /\ Does(t, [Idle EXCEPT !.pc = "restore.check", !.archive = b])
  /\ UNCHANGED <<world, runs, server, files, history>>

\* Mutant: the server's status is left to the page that asks.
RefusedIfGone(t) == archive[thr[t].archive].file = "none"

\* The archive must be there and the server not running (it may be restarting).
Refused(t) == archive[thr[t].archive].file = "none" \/ IsRunning

\* A lookup that fails lets the restore of a running server pass when the daemon
\* answers the ping that follows, and ends it when not.
RestoreCheck(t) ==
  /\ At(t, "restore.check")
  /\ \/ Refused(t) /\ Ends(t) /\ UNCHANGED <<overrun, moved, budget>>
     \/ /\ ~Refused(t)
        /\ Goto(t, "restore.judge")
        /\ overrun' = overrun \ {t} /\ moved' = moved \ {t} /\ UNCHANGED budget
     \/ /\ archive[thr[t].archive].file # "none" /\ Unseen
        /\ Goto(t, "restore.judge")
        /\ overrun' = overrun \cup {t} /\ moved' = moved \ {t}
     \/ LookupRaises(t) /\ UNCHANGED <<overrun, moved>>
  /\ UNCHANGED <<world, runs, server, files, lost, twice, blind, aborted>>

\* Mutant: the archive is held against the template the server has now.
TargetNow(to) == runs

\* What the server will be set to when the files land.
Target(to) == IF to = NoKey THEN runs ELSE to

\* Mutant: a forced restore copies first only when asked to.
CopiesIfAsked(first, misfit) == first

\* Forced, it copies the world it replaces whether asked to or not.
Copies(first, misfit) == first \/ misfit

\* fit_of: a world is read by the scenario that wrote it, out of its hive; an
\* archive that does not say does not fit.
Misfit(b, target) == sidecar[b].label # target

\* One that does not fit needs force.  The request's template, backup_first and
\* force are first looked at here.
RestoreJudge(t) ==
  /\ At(t, "restore.judge")
  /\ \E to \in Keys \cup {NoKey}, first, force \in BOOLEAN :
       LET misfit == Misfit(thr[t].archive, Target(to))
           next == IF to \in {NoKey, runs} THEN "swap" ELSE "switch.check"
       IN IF misfit /\ ~force THEN Ends(t)
          ELSE Does(t, [thr[t] EXCEPT
                 !.to = IF next = "swap" THEN NoKey ELSE to,
                 !.first = Copies(first, misfit), !.force = misfit, !.then = next,
                 !.pc = IF Copies(first, misfit) /\ world # Empty THEN "context" ELSE next])
  /\ UNCHANGED <<world, runs, server, files, history, budget>>

\* set_instance_template, which a switch asks for without a restore.
AskSwitch(t) ==
  /\ At(t, "idle") /\ Spend("requests")
  /\ \E to \in Keys, first \in BOOLEAN :
       Does(t, [Idle EXCEPT !.pc = IF first THEN "context" ELSE "switch.check",
                            !.to = to, !.then = "switch.check"])
  /\ UNCHANGED <<world, runs, server, files, history>>

\* Refused while the server is seen running.
StoppedFor(t, pc) ==
  \/ IsRunning /\ Ends(t) /\ UNCHANGED budget
  \/ ~IsRunning /\ Goto(t, pc) /\ UNCHANGED budget
  \/ Unseen /\ Goto(t, pc)
  \/ LookupRaises(t)

SwitchCheck(t) ==
  /\ At(t, "switch.check") /\ StoppedFor(t, "switch.write")
  /\ UNCHANGED <<world, runs, server, files, history>>

SwitchWrite(t) ==
  /\ At(t, "switch.write")
  /\ runs' = thr[t].to
  /\ moved' = (moved \cup (IF thr[t].to = runs THEN {} ELSE Restorers(Others(t)))) \ {t}
  /\ Goto(t, "switch.remove")
  /\ UNCHANGED <<world, server, files, lost, twice, overrun, blind, aborted, budget>>

\* A container that cannot be found or removed is only logged, but for an error
\* that is not Docker's own.
SwitchRemove(t) ==
  /\ At(t, "switch.remove")
  /\ \/ /\ \/ server' = Down /\ UNCHANGED budget
           \/ Spend("events") /\ UNCHANGED server
        /\ IF thr[t].archive = None THEN Ends(t) ELSE Goto(t, "swap")
     \/ LookupRaises(t) /\ server' \in {server, Down}
  /\ UNCHANGED <<world, runs, files, history>>

\* The helper container removes what the scan found, then unpacks; it is not
\* started, or ends between the two.
Swap(t) ==
  /\ At(t, "swap")
  /\ \/ /\ world' = Empty
        /\ Goto(t, "unpack")
        /\ Disturbs(Others(t))
        /\ UNCHANGED budget
     \/ /\ Spend("events") /\ Ends(t)
        /\ UNCHANGED <<world, overrun, blind>>
  /\ UNCHANGED <<runs, server, files, lost, twice, moved, aborted>>

\* Onto what is there: a second world makes it neither of the two.
Unpacked(a) ==
  IF world = Empty THEN a.world ELSE [by |-> a.world.by, n |-> a.world.n, kind |-> "mixed"]

Unpack(t) ==
  LET a == archive[thr[t].archive] IN
  /\ At(t, "unpack")
  /\ \/ /\ a.file = "whole" /\ world' = Unpacked(a)
        /\ Disturbs(Others(t)) /\ UNCHANGED budget
     \/ /\ a.file = "writing" /\ world' = [a.world EXCEPT !.kind = "part"]
        /\ Disturbs(Others(t)) /\ UNCHANGED budget
     \/ /\ \/ a.file = "none" /\ UNCHANGED budget
           \/ a.file # "none" /\ Spend("events")
        /\ UNCHANGED <<world, overrun, blind>>
  /\ Ends(t)
  /\ UNCHANGED <<runs, server, files, lost, twice, moved, aborted>>

-----------------------------------------------------------------------------
(* clear_instance_data of the saves, by itself or before a start.          *)

AskClear(t) ==
  /\ At(t, "idle") /\ Spend("requests")
  /\ \E first \in BOOLEAN :
       Does(t, [Idle EXCEPT !.pc = IF first THEN "context" ELSE "clear.check",
                            !.then = "clear.check"])
  /\ UNCHANGED <<world, runs, server, files, history>>

ClearCheck(t) ==
  /\ At(t, "clear.check") /\ StoppedFor(t, "clear")
  /\ UNCHANGED <<world, runs, server, files, history>>

Clear(t) ==
  /\ At(t, "clear")
  /\ \/ /\ world' = Empty
        /\ Disturbs(Others(t)) /\ UNCHANGED budget
     \/ /\ Spend("events")
        /\ UNCHANGED <<world, overrun, blind>>
  /\ Ends(t)
  /\ UNCHANGED <<runs, server, files, lost, twice, moved, aborted>>

-----------------------------------------------------------------------------
\* The manager ends: its threads are gone, helper containers run on, and a
\* half-written archive stays.
ManagerRestarts ==
  /\ Spend("events")
  /\ thr' = [t \in Admins |-> IF At(t, "unpack") THEN thr[t] ELSE Idle]
  /\ aborted' = (aborted \/ \E t \in Admins : thr[t].pc \in Backing)
  /\ UNCHANGED <<world, runs, server, files, lost, twice, moved, overrun, blind>>

Server == ServerStarts \/ ServerEnds \/ DockerRestarts \/ ServerSaves \/ TemplateEdited
Ask(t) ==
  \/ AskBackup(t) \/ AskUpload(t) \/ AskSwitch(t) \/ AskClear(t)
  \/ \E b \in Ids : DeleteBackup(t, b) \/ AskRestore(t, b)
Backup(t) ==
  \/ Context(t) \/ Look(t) \/ Mint(t) \/ WriteBegins(t) \/ WriteEnds(t)
  \/ Adopt(t) \/ AdoptEnds(t) \/ WriteSidecar(t) \/ Prune(t) \/ Drop(t) \/ BackupDone(t)
Restore(t) ==
  \/ RestoreCheck(t) \/ RestoreJudge(t) \/ SwitchCheck(t) \/ SwitchWrite(t)
  \/ SwitchRemove(t) \/ Swap(t) \/ Unpack(t)

Next ==
  \/ Server \/ Sweep \/ ManagerRestarts
  \/ \E t \in Admins : Ask(t) \/ Backup(t) \/ Restore(t) \/ ClearCheck(t) \/ Clear(t)

Spec == Init /\ [][Next]_vars

-----------------------------------------------------------------------------
(* Properties.                                                             *)

\* "A restore is the one destructive action here that had no undo": what a
\* restore removes, when it was to be copied (or forced), is on the shelf whole,
\* unless the server came up, Docker did not answer whether it was, somebody else
\* changed the world or took the copy meanwhile, or made so many newer ones that
\* it is no longer among the newest KEEP.
ReplacedWorldIsKept ==
  [][\A t \in Admins \ overrun :
       At(t, "swap") /\ thr'[t].pc = "unpack" /\ (thr[t].first \/ thr[t].force) /\ world # Empty
         /\ thr[t].id \notin lost \cup twice
       => \E b \in Ids : archive[b].file = "whole" /\ archive[b].world = world]_vars

\* The world is removed only for an archive that can be put in its place: the
\* safety copy's prune spares it (#181), and one still being written does not
\* say what it is and is refused, unless another thread dropped it or it was
\* forced.
RestoreHasItsArchive ==
  [][\A t \in Admins :
       At(t, "swap") /\ thr'[t].pc = "unpack" /\ ~thr[t].force
         /\ thr[t].archive \notin lost \cup twice
       => archive[thr[t].archive].file = "whole"]_vars

\* A restore that was not forced puts back a world recorded for what the server
\* then runs (#184), unless the server was pointed elsewhere while it ran.
UnforcedRestoresFit ==
  [][\A t \in Admins \ moved :
       At(t, "unpack") /\ world' # world /\ ~thr[t].force
         /\ archive[thr[t].archive].file = "whole" /\ thr[t].archive \notin twice
       => sidecar[thr[t].archive].label = runs]_vars

\* "A mix of two worlds is not a restore": none makes one, and no server saves
\* over a world it was given while up, unless the server came up or another thread
\* changed the world between a restore's check and its end, or Docker had not
\* answered that check; one that an archive holds already is put back as it is.
NoMixedWorld ==
  [][/\ \A t \in Admins \ overrun :
          Unpack(t) /\ world'.kind = "mixed"
            => world' \in {world, archive[thr[t].archive].world}
     /\ ServerSaves /\ world'.kind = "mixed"
          => world.kind = "mixed" \/ overrun # {}]_vars

\* A snapshot that caught the world changing says that the server was running,
\* unless the server came up, or another thread replaced the world, after the
\* backup had looked, or Docker had not answered.
TornBackupsSaySo ==
  \A t \in Admins \ blind :
    At(t, "sidecar") /\ ~thr[t].upload /\ archive[thr[t].id].torn /\ thr[t].id \notin twice
      => thr[t].running

\* "the shelf cannot grow without bound": with nobody at work it holds KEEP
\* archives and the one a restore protected, unless a prune or an upload was cut
\* short.
ShelfIsBounded ==
  (\A t \in Admins : At(t, "idle")) /\ ~aborted => Cardinality(Listed) <= Keep + 1
=============================================================================
