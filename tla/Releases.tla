------------------------------ MODULE Releases ------------------------------
(***************************************************************************)
(* Server templates on their way from Test over Dev to Prod, the frozen    *)
(* versions a release leaves behind, the servers pinned to them, and the   *)
(* lock an editor takes on a template: services/stages.py, edit_locks.py,  *)
(* templates_api.py and the parts of mods_api.py, backup.py and            *)
(* instance_service.py that write to the same rows.  (Mod lists go the     *)
(* same way through stages.py, without servers and without locks.)         *)
(*                                                                         *)
(* Handlers that run on the event loop have no await between what they     *)
(* read and what they commit: one action each.  The ones that run in a     *)
(* worker thread, or await one, are split where others can come in.        *)
(***************************************************************************)
EXTENDS Naturals, FiniteSets

CONSTANTS
  MaxId,     \* template ids are 1 .. MaxId
  Contents,  \* what a template's content columns may hold
  Servers,   \* the rows of the Instance table
  NoTab,     \* the holder of a free lock
  Tabs,      \* browser tabs (X-Client-Id)
  Workers,   \* worker threads
  Limits     \* how often each bounded event may happen

BoundedEvents == {"writes", "imports", "releases", "threads", "lapses"}

ASSUME ReleasesAssumption == /\ MaxId \in Nat \ {0}
                             /\ NoTab \notin Tabs
                             /\ Contents # {}
                             /\ Limits \in [BoundedEvents -> Nat]

VARIABLES
  item,      \* the Template table
  frozen,    \* the TemplateVersion table
  server,    \* template_id and template_version of each Instance
  lock,      \* _locks of edit_locks.py
  tab,       \* what each browser tab shows
  worker,    \* the worker threads
  overtaken, \* history: templates an add-to-template wrote to when it no longer might
  strayed,   \* history: servers a template was set on that had changed since it was checked
  budget     \* bounded events left

vars == <<item, frozen, server, lock, tab, worker, overtaken, strayed, budget>>

-----------------------------------------------------------------------------
Ids == 1..MaxId

None == 0   \* no template: NULL, and also "no pin"

Gone == [stage |-> "gone", version |-> 0, content |-> CHOOSE c \in Contents : TRUE,
         basedOn |-> None]

Stages == {"gone", "test", "dev", "prod"}

\* version is prod_version, 0 unless prod.
Item == [stage: Stages, version: Nat, content: Contents, basedOn: Ids \cup {None}]

Version == [item: Ids, version: Nat \ {0}, content: Contents]

Setting == [template: Ids \cup {None}, pin: Nat]

\* "reading": the editor has loaded a template but not yet asked for its lock,
\* or was refused it; "editing": its inputs and its Save button are enabled.
Listing == [at |-> "list", item |-> None, content |-> Gone.content]

Tab == {Listing} \cup [at: {"reading", "editing"}, item: Ids, content: Contents]

Worker == [pc: {"idle", "repoint", "add", "delete.detach", "delete.final"},
           item: Ids \cup {None}, pin: Nat, server: Servers \cup {NoTab},
           was: Setting, client: Tabs \cup {NoTab}]

Unset == [template |-> None, pin |-> 0]

Waiting == [pc |-> "idle", item |-> None, pin |-> 0, server |-> NoTab,
            was |-> Unset, client |-> NoTab]

Exists(i) == item[i].stage # "gone"

IsProd(i) == item[i].stage = "prod"

\* SQLite's next rowid: one more than the highest in use, so ids come back.
IsNextId(i) == /\ \A j \in Ids : Exists(j) => j < i
               /\ i = 1 \/ \E j \in Ids : j = i - 1 /\ Exists(j)

\* Mutant: the lock binds nobody.
NeverHeld(i, c) == FALSE

HeldByOther(i, c) == lock[i] \notin {NoTab, c}

VersionsOf(i) == {v.version : v \in {f \in frozen : f.item = i}}

\* Mutant: a release replaces the version before it.
SameVersion(i) == item[i].version

\* One more than the highest version of the item.
NextVersion(i) ==
  IF VersionsOf(i) = {} THEN 1
  ELSE (CHOOSE n \in VersionsOf(i) : \A m \in VersionsOf(i) : m <= n) + 1

\* Mutant: a copy is based on what it was copied from, whatever its stage.
BasedOnSource(i) == i

\* A copy stems from its source when that is Prod, else from its source's origin.
BasedOnFor(i) == IF IsProd(i) THEN i ELSE item[i].basedOn

Spend(event) == /\ budget[event] > 0
                /\ budget' = [budget EXCEPT ![event] = @ - 1]

-----------------------------------------------------------------------------
\* A manager just upgraded: what was there is in Dev, servers run it at latest.
Init ==
  /\ item \in [Ids -> {Gone} \cup [stage: {"dev"}, version: {0}, content: Contents,
                                   basedOn: {None}]]
  /\ frozen = {}
  /\ server \in [Servers -> [template: {i \in Ids : Exists(i)} \cup {None}, pin: {0}]]
  /\ lock = [i \in Ids |-> NoTab]
  /\ tab = [c \in Tabs |-> Listing]
  /\ worker = [w \in Workers |-> Waiting]
  /\ overtaken = {}
  /\ strayed = {}
  /\ budget = Limits

-----------------------------------------------------------------------------
(* The editor and its lock                                                 *)

Shows(c, after) == tab' = [tab EXCEPT ![c] = after]

\* The template is loaded first; a Prod one opens read-only and takes no lock.
Open(c, i) ==
  /\ tab[c].at = "list" /\ Exists(i) /\ ~IsProd(i)
  /\ Shows(c, [at |-> "reading", item |-> i, content |-> item[i].content])
  /\ UNCHANGED <<item, frozen, server, lock, worker, overtaken, strayed, budget>>

\* lock_template, on open and then every 30 s: granted, renewed or refused
\* (423); a template that is gone or in Prod ends the editing (404, 409).
Heartbeat(c) ==
  LET i == tab[c].item IN
  /\ tab[c].at \in {"reading", "editing"}
  /\ \/ /\ Exists(i) /\ ~IsProd(i) /\ ~HeldByOther(i, c)
        /\ lock' = [lock EXCEPT ![i] = c]
        /\ Shows(c, [tab[c] EXCEPT !.at = "editing"])
     \/ /\ Exists(i) /\ ~IsProd(i) /\ HeldByOther(i, c)
        /\ Shows(c, [tab[c] EXCEPT !.at = "reading"])
        /\ UNCHANGED lock
     \/ /\ ~Exists(i) \/ IsProd(i)
        /\ Shows(c, Listing)
        /\ UNCHANGED lock
  /\ UNCHANGED <<item, frozen, server, worker, overtaken, strayed, budget>>

\* update_template writes the whole content from the editor's spec.
Save(c) ==
  LET i == tab[c].item IN
  /\ tab[c].at = "editing"
  /\ Exists(i) /\ ~IsProd(i) /\ ~HeldByOther(i, c)
  /\ Spend("writes")
  /\ \E new \in Contents \ {tab[c].content} :
       /\ item' = [item EXCEPT ![i].content = new]
       /\ Shows(c, [tab[c] EXCEPT !.content = new])
  /\ UNCHANGED <<frozen, server, lock, worker, overtaken, strayed>>

\* Leaving the editor; only one that may edit sends the release, best-effort.
Close(c) ==
  LET i == tab[c].item IN
  /\ tab[c].at \in {"reading", "editing"}
  /\ Shows(c, Listing)
  /\ lock' = IF tab[c].at = "editing" /\ lock[i] = c THEN [lock EXCEPT ![i] = NoTab] ELSE lock
  /\ UNCHANGED <<item, frozen, server, worker, overtaken, strayed, budget>>

\* 90 s without a heartbeat, "Clear edit locks", or a restart of the manager.
Lapse(i) ==
  /\ lock[i] # NoTab
  /\ Spend("lapses")
  /\ lock' = [lock EXCEPT ![i] = NoTab]
  /\ UNCHANGED <<item, frozen, server, tab, worker, overtaken, strayed>>

-----------------------------------------------------------------------------
(* New rows                                                                *)

\* A released row: its own columns are those of the version it is at.
ProdRow(version, content, origin) ==
  [stage |-> "prod", version |-> version, content |-> content, basedOn |-> origin]

Inserts(i, row) == item' = [item EXCEPT ![i] = row]

CreateTemplate(i) ==
  /\ IsNextId(i) /\ Spend("writes")
  /\ \E c \in Contents :
       Inserts(i, [stage |-> "test", version |-> 0, content |-> c, basedOn |-> None])
  /\ UNCHANGED <<frozen, server, lock, tab, worker, overtaken, strayed>>

\* copy_template: of the row as it is, or of a released version of it.
CopyTemplate(src, i) ==
  /\ Exists(src) /\ IsNextId(i) /\ Spend("writes")
  /\ \E c \in {item[src].content}
                \cup {v.content : v \in {f \in frozen : f.item = src /\ IsProd(src)}} :
       Inserts(i, [stage |-> "test", version |-> 0, content |-> c, basedOn |-> BasedOnFor(src)])
  /\ UNCHANGED <<frozen, server, lock, tab, worker, overtaken, strayed>>

\* Two released versions stand for any number; the head of the row is the last.
Imported(i, first, last) == {[item |-> i, version |-> 1, content |-> first],
                             [item |-> i, version |-> 2, content |-> last]}

\* backup.apply, a name that is not here: the row arrives in the stage it was
\* saved in, with its versions; its origin is linked by name, to a Prod row only.
ImportCreate(i) ==
  /\ IsNextId(i) /\ Spend("imports")
  /\ \E c \in Contents, stage \in {"test", "dev"}, origin \in {j \in Ids : IsProd(j)} \cup {None} :
       \/ /\ Inserts(i, [stage |-> stage, version |-> 0, content |-> c, basedOn |-> origin])
          /\ UNCHANGED frozen
       \/ \E first \in Contents :
            /\ Inserts(i, ProdRow(2, c, origin))
            /\ frozen' = frozen \cup Imported(i, first, c)
  /\ UNCHANGED <<server, lock, tab, worker, overtaken, strayed>>

\* backup.apply, a copy next to the one that has the name.
ImportCopy(src, i) ==
  /\ Exists(src) /\ IsNextId(i) /\ Spend("imports")
  /\ \E c \in Contents :
       Inserts(i, [stage |-> "test", version |-> 0, content |-> c, basedOn |-> BasedOnFor(src)])
  /\ UNCHANGED <<frozen, server, lock, tab, worker, overtaken, strayed>>

\* backup.apply, over the one that has the name: refused while another tab has
\* its lock, and in Prod.
ImportOverwrite(c, i) ==
  /\ tab[c].at = "list"
  /\ Exists(i) /\ ~IsProd(i) /\ ~HeldByOther(i, c)
  /\ Spend("imports")
  /\ \E new \in Contents : item' = [item EXCEPT ![i].content = new]
  /\ UNCHANGED <<frozen, server, lock, tab, worker, overtaken, strayed>>

-----------------------------------------------------------------------------
(* Releases                                                                *)

\* Mutant: the row is frozen before the new content is in it.
FreezesRow(i, version, content) ==
  frozen' = frozen \cup {[item |-> i, version |-> version, content |-> item[i].content]}

Freezes(i, version, content) ==
  frozen' = frozen \cup {[item |-> i, version |-> version, content |-> content]}

MayPromote(c, i) == /\ tab[c].at = "list" /\ Exists(i) /\ ~HeldByOther(i, c)
                    /\ Spend("releases")

PromoteToDev(c, i) ==
  /\ MayPromote(c, i) /\ item[i].stage = "test"
  /\ item' = [item EXCEPT ![i].stage = "dev"]
  /\ UNCHANGED <<frozen, server, lock, tab, worker, overtaken, strayed>>

\* A new Prod item: the same row becomes v1 in place.
PromoteNew(c, i) ==
  /\ MayPromote(c, i) /\ item[i].stage = "dev"
  /\ item' = [item EXCEPT ![i] = ProdRow(1, item[i].content, None)]
  /\ Freezes(i, 1, item[i].content)
  /\ lock' = [lock EXCEPT ![i] = NoTab]
  /\ UNCHANGED <<server, tab, worker, overtaken, strayed>>

\* Mutant: the servers stay with the row that is used up.
StayBehind(i, target) == server

Follow(i, target) == [s \in Servers |-> IF server[s].template = i
                                        THEN [server[s] EXCEPT !.template = target]
                                        ELSE server[s]]

\* The next version of a Prod item: the Dev row is used up, its servers follow.
PromoteInto(c, i, target) ==
  LET version == NextVersion(target) IN
  /\ MayPromote(c, i) /\ item[i].stage = "dev"
  /\ target # i /\ IsProd(target)
  /\ item' = [item EXCEPT ![target] = ProdRow(version, item[i].content, item[target].basedOn),
                          ![i] = Gone]
  /\ Freezes(target, version, item[i].content)
  /\ server' = Follow(i, target)
  /\ lock' = [lock EXCEPT ![i] = NoTab]
  /\ overtaken' = overtaken \ {i, target}
  /\ UNCHANGED <<tab, worker, strayed>>

-----------------------------------------------------------------------------
(* delete_template: the lock is checked, then threads are awaited.         *)

Works(w, after) == worker' = [worker EXCEPT ![w] = after]

AskDelete(w, c, i) ==
  /\ worker[w].pc = "idle" /\ tab[c].at = "list"
  /\ Exists(i) /\ ~HeldByOther(i, c)
  /\ Spend("threads")
  /\ Works(w, [Waiting EXCEPT !.pc = "delete.detach", !.item = i])
  /\ UNCHANGED <<item, frozen, server, lock, tab, overtaken, strayed>>

Unlinked(i) == [s \in Servers |-> IF server[s].template = i THEN Unset ELSE server[s]]

\* detach_template, in a thread, when there are servers on it.
Detach(w) ==
  /\ worker[w].pc = "delete.detach"
  /\ server' = Unlinked(worker[w].item)
  /\ Works(w, [worker[w] EXCEPT !.pc = "delete.final"])
  /\ UNCHANGED <<item, frozen, lock, tab, overtaken, strayed, budget>>

\* Mutant: the versions outlive their item.
EveryVersion(i) == frozen

VersionsBut(i) == {v \in frozen : v.item # i}

\* The last session; the template may have been released into another one
\* meanwhile, and the id be another template's.
DeleteFinal(w) ==
  LET i == worker[w].item IN
  /\ worker[w].pc = "delete.final"
  /\ IF Exists(i)
     THEN /\ server' = Unlinked(i)
          /\ item' = [j \in Ids |-> IF j = i THEN Gone
                                    ELSE IF item[j].basedOn = i
                                         THEN [item[j] EXCEPT !.basedOn = None] ELSE item[j]]
          /\ frozen' = VersionsBut(i)
          /\ overtaken' = overtaken \ {i}
     ELSE UNCHANGED <<item, server, frozen, overtaken>>
  /\ Works(w, Waiting)
  /\ UNCHANGED <<lock, tab, strayed, budget>>

-----------------------------------------------------------------------------
(* set_instance_template, in a thread: checked, then committed.            *)

\* require_pinnable: an existing version of a Prod template, or none.
Pinnable(i, pin) == pin = 0 \/ (IsProd(i) /\ pin \in VersionsOf(i))

RepointRead(w, s, i, pin) ==
  /\ worker[w].pc = "idle"
  /\ Exists(i) /\ Pinnable(i, pin)
  /\ Spend("threads")
  /\ Works(w, [Waiting EXCEPT !.pc = "repoint", !.item = i, !.pin = pin,
                              !.server = s, !.was = server[s]])
  /\ UNCHANGED <<item, frozen, server, lock, tab, overtaken, strayed>>

\* The commit writes the columns that differ from the row as it was read.
RepointCommit(w) ==
  LET s   == worker[w].server
      i   == worker[w].item
      pin == worker[w].pin
      new == [template |-> IF worker[w].was.template = i THEN server[s].template ELSE i,
              pin      |-> IF worker[w].was.pin = pin THEN server[s].pin ELSE pin]
  IN
  /\ worker[w].pc = "repoint"
  /\ server' = [server EXCEPT ![s] = new]
  /\ strayed' = IF Exists(i) /\ Pinnable(i, pin) /\ server[s] = worker[w].was
                THEN strayed ELSE strayed \cup {s}
  /\ Works(w, Waiting)
  /\ UNCHANGED <<item, frozen, lock, tab, overtaken, budget>>

-----------------------------------------------------------------------------
(* add-to-template, in a thread: lock and stage are checked, the Workshop  *)
(* is asked about each mod, then the row is saved.                         *)

AddRead(w, c, i) ==
  /\ worker[w].pc = "idle" /\ tab[c].at = "list"
  /\ Exists(i) /\ ~IsProd(i) /\ ~HeldByOther(i, c)
  /\ Spend("threads")
  /\ Works(w, [Waiting EXCEPT !.pc = "add", !.item = i, !.client = c])
  /\ UNCHANGED <<item, frozen, server, lock, tab, overtaken, strayed>>

\* An UPDATE that finds no row raises; one that does writes the content made
\* from the row as it was read, whatever the row has become.
AddCommit(w) ==
  LET i == worker[w].item
      allowed == ~IsProd(i) /\ ~HeldByOther(i, worker[w].client)
  IN
  /\ worker[w].pc = "add"
  /\ IF Exists(i)
     THEN /\ \E new \in Contents : item' = [item EXCEPT ![i].content = new]
          /\ overtaken' = IF allowed THEN overtaken ELSE overtaken \cup {i}
     ELSE UNCHANGED <<item, overtaken>>
  /\ Works(w, Waiting)
  /\ UNCHANGED <<frozen, server, lock, tab, strayed, budget>>

-----------------------------------------------------------------------------
TabStep(c) ==
  \/ Heartbeat(c) \/ Save(c) \/ Close(c)
  \/ \E i \in Ids : \/ Open(c, i) \/ ImportOverwrite(c, i)
                    \/ PromoteToDev(c, i) \/ PromoteNew(c, i)
                    \/ \E target \in Ids : PromoteInto(c, i, target)

RowStep(i) == \/ Lapse(i) \/ CreateTemplate(i) \/ ImportCreate(i)
              \/ \E src \in Ids : CopyTemplate(src, i) \/ ImportCopy(src, i)

WorkerStep(w) ==
  \/ Detach(w) \/ DeleteFinal(w) \/ RepointCommit(w) \/ AddCommit(w)
  \/ \E i \in Ids : \/ \E c \in Tabs : AskDelete(w, c, i) \/ AddRead(w, c, i)
                    \/ \E s \in Servers, pin \in VersionsOf(i) \cup {0} : RepointRead(w, s, i, pin)

Next == \/ \E c \in Tabs : TabStep(c)
        \/ \E i \in Ids : RowStep(i)
        \/ \E w \in Workers : WorkerStep(w)

Spec == Init /\ [][Next]_vars

-----------------------------------------------------------------------------
TypeOK ==
  /\ item \in [Ids -> Item]
  /\ frozen \subseteq Version
  /\ server \in [Servers -> Setting]
  /\ lock \in [Ids -> Tabs \cup {NoTab}]
  /\ tab \in [Tabs -> Tab]
  /\ worker \in [Workers -> Worker]
  /\ overtaken \subseteq Ids
  /\ strayed \subseteq Servers
  /\ budget \in [BoundedEvents -> Nat]

\* The released versions of a template run from 1 to its prod_version, without
\* a gap or a second row for one; only a Prod template has any.
VersionsRunOn ==
  /\ \A i \in Ids : IF IsProd(i) THEN item[i].version # 0 /\ VersionsOf(i) = 1..item[i].version
                    ELSE VersionsOf(i) = {}
  /\ \A v, u \in frozen : v.item = u.item /\ v.version = u.version => v = u

\* "A Prod row's own columns always equal its latest version", through imports,
\* copies, releases into it and ids used again -- but for a template that an
\* add-to-template wrote to after it had been released.
HeadIsLatest ==
  \A i \in Ids \ overtaken : IsProd(i) =>
    [item |-> i, version |-> item[i].version, content |-> item[i].content] \in frozen

\* What a copy is said to be based on is a template that is there and in Prod,
\* so that its release can be offered as that one's next version.
OriginsAreProd == \A i \in Ids : item[i].basedOn # None => IsProd(item[i].basedOn)

\* A server points at a template that is there, and at a version of it that is
\* there, unless its template was set across a deletion or a release.
ServersHaveTargets ==
  \A s \in Servers \ strayed :
    server[s].template # None =>
      /\ Exists(server[s].template)
      /\ server[s].pin # 0 => /\ IsProd(server[s].template)
                              /\ server[s].pin \in VersionsOf(server[s].template)

\* run_target: the version a server is pinned to, else its template's head.
Runs(s) ==
  LET i == server[s].template
      pinned == {v \in frozen : v.item = i /\ v.version = server[s].pin}
  IN IF IsProd(i) /\ pinned # {} THEN (CHOOSE v \in pinned : TRUE).content
     ELSE item[i].content

\* A server pinned to a version runs the same content for as long as nobody
\* points it elsewhere: no release, save, import or deletion changes it.
PinnedServersStay ==
  [][\A s \in Servers \ strayed' :
       server[s].template # None /\ server[s].pin # 0 /\ server'[s] = server[s]
         => Runs(s)' = Runs(s)]_vars

\* While a tab edits a template under its lock, nobody else's save, import or
\* release changes what it edits (#102), but for an add that another tab had
\* begun before.
Edits(c, i) == tab[c].at = "editing" /\ tab[c].item = i /\ lock[i] = c

LockProtects ==
  [][\A i \in Ids \ overtaken', c \in Tabs :
       Edits(c, i) /\ Exists(i) /\ ~IsProd(i) /\ Exists(i)' /\ item'[i].content # item[i].content
         => Save(c) \/ \E w \in Workers : AddCommit(w) /\ worker[w].client = c]_vars

\* "Each release also writes a frozen version row, so an older version can be
\* read back later": read back from the version table, a template's versions are
\* a row that only grows at its end and goes as a whole (Catalog); no copy,
\* import, pin, release into it, late delete or id used again changes one.
ReadBack(i, n) == (CHOOSE v \in frozen : v.item = i /\ v.version = n).content
Released == [i \in Ids |-> [n \in VersionsOf(i) |-> ReadBack(i, n)]]
Catalogue == INSTANCE Catalog WITH released <- Released
VersionsStay == Catalogue!Spec
=============================================================================
