------------------------------ MODULE Imports ------------------------------
(***************************************************************************)
(* Backup and restore of server templates and mod lists: the export of the *)
(* whole shelf to one file, the preview of a file against what is here,    *)
(* the page on which the user decides, and the import that carries the     *)
(* decisions out in one transaction (services/backup.py, backup_api.py,    *)
(* frontend Backup.vue).                                                   *)
(*                                                                         *)
(* A preview ages: the rows change while the user decides, and the user    *)
(* may take the file to another manager.  The handlers that change rows    *)
(* meanwhile are modelled in full in Releases and Editing; here each       *)
(* stands for its effect on a row.  A name is a sequence: <<a>> as typed,  *)
(* <<a, n>> for its n-th "(imported)" copy.  A reference to another row is *)
(* by its id in the database and follows a rename.                         *)
(***************************************************************************)
EXTENDS Naturals, Sequences, FiniteSets, SequencesExt, Diffs

CONSTANTS
  TemplateContents, \* what server templates may hold
  ListContents,     \* what mod lists may hold
  Shelves,          \* the shelves a manager may start with
  NewName,          \* a name to rename to
  None,             \* no origin, no category, no file
  Limits            \* how often each bounded event may happen

BoundedEvents == {"changes", "exports", "files", "previews", "managers"}

Kinds == {"template", "list"}

Names == Seq(Nat)
Origins == [name: Names, version: Nat]
Stages == {"test", "dev", "prod"}
IsSeq(s) == s \in Seq(ToSet(s))

\* A row, an entry of a file, and what both have.
Columns == {"stage", "content", "versions", "basedOn", "category"}
IsLike(r, columns) ==
  /\ DOMAIN r = columns /\ r = [c \in columns |-> r[c]]
  /\ r.stage \in Stages /\ IsSeq(r.versions) /\ r.basedOn \in Origins \cup {None}
IsRow(r) == IsLike(r, Columns)
IsEntry(e) == IsLike(e, Columns \cup {"name"}) /\ e.name \in Names

IsTable(table) ==
  /\ table = [n \in DOMAIN table |-> table[n]]
  /\ IsFiniteSet(DOMAIN table) /\ DOMAIN table \subseteq Names
  /\ \A n \in DOMAIN table : IsRow(table[n])

IsShelf(here) == here = [k \in Kinds |-> here[k]] /\ \A k \in Kinds : IsTable(here[k])

IsProd(row) == row.stage = "prod"

\* Only a Prod row has versions, and it has one at least; a row stems from a Prod row
\* that is there.
IsLinked(table) ==
  \A n \in DOMAIN table :
    /\ IsProd(table[n]) <=> table[n].versions # <<>>
    /\ table[n].basedOn # None => /\ table[n].basedOn.name \in DOMAIN table
                                  /\ IsProd(table[table[n].basedOn.name])

ASSUME ImportsAssumption ==
  /\ NewName \in Names /\ Limits \in [BoundedEvents -> Nat]
  /\ \A here \in Shelves : IsShelf(here) /\ \A k \in Kinds : IsLinked(here[k])

VARIABLES
  rows,      \* the Template and ModTemplate tables, by name
  open,      \* names of templates open in another session
  file,      \* the backup file on the user's disk
  page,      \* what Backup.vue shows: the file chosen, its preview, the decisions
  shelf,     \* history: the shelf the file was exported from, while it is as exported
  answer,    \* how the last import ended
  budget     \* bounded events left

vars == <<rows, open, file, page, shelf, answer, budget>>

-----------------------------------------------------------------------------
Contents(k) == IF k = "template" THEN TemplateContents ELSE ListContents

Origin(name, version) == [name |-> name, version |-> version]

\* versions holds the content of each released version; the last is the head's.
Row(stage, content, versions, origin, category) ==
  [stage |-> stage, content |-> content, versions |-> versions,
   basedOn |-> origin, category |-> category]

Entry(name, row) ==
  [name |-> name, stage |-> row.stage, content |-> row.content, versions |-> row.versions,
   basedOn |-> row.basedOn, category |-> row.category]

EmptyTable == [n \in {} |-> None]

Empty == [k \in Kinds |-> EmptyTable]

With(table, name, row) == [n \in DOMAIN table \cup {name} |-> IF n = name THEN row ELSE table[n]]

\* by_name: a file is read in the order of its names, a name before its copies.
Before(m, n) ==
  \/ Len(m) < Len(n) /\ SubSeq(n, 1, Len(m)) = m
  \/ \E i \in DOMAIN m \cap DOMAIN n : m[i] < n[i] /\ \A j \in 1..(i - 1) : m[j] = n[j]

NoFile == [k \in Kinds |-> <<>>]

\* The i-th name is the one with i - 1 names before it.
ByName(names) ==
  [i \in 1..Cardinality(names) |->
     CHOOSE n \in names : Cardinality({m \in names : Before(m, n)}) = i - 1]

\* build, and parse of what it wrote: every row with all it is made of.
Built(here) ==
  [k \in Kinds |-> LET names == ByName(DOMAIN here[k])
                   IN [i \in DOMAIN names |-> Entry(names[i], here[k][names[i]])]]

NoPage == [at |-> "empty", file |-> NoFile, items |-> Empty, decisions |-> Empty]

Answers == {"none", "done", "refused", "failed"}

Actions == {"create", "overwrite", "copy", "skip"}

\* _no_duplicate_names: a file with the same name twice is refused.
IsFile(entries) ==
  /\ entries = [k \in Kinds |-> entries[k]]
  /\ \A k \in Kinds :
       /\ IsSeq(entries[k]) /\ \A i \in DOMAIN entries[k] : IsEntry(entries[k][i])
       /\ \A i, j \in DOMAIN entries[k] : entries[k][i].name = entries[k][j].name => i = j

IsPage(p) ==
  /\ p = [at |-> p.at, file |-> p.file, items |-> p.items, decisions |-> p.decisions]
  /\ p.at \in {"empty", "preview"} /\ IsFile(p.file)
  /\ p.decisions = [k \in Kinds |-> p.decisions[k]]
  /\ \A k \in Kinds : p.decisions[k] \in [DOMAIN p.decisions[k] -> Actions]

TypeOK ==
  /\ IsShelf(rows) /\ open \subseteq Names
  /\ IsFile(file) /\ IsPage(page)
  /\ shelf # None => IsShelf(shelf)
  /\ answer \in Answers /\ budget \in [BoundedEvents -> Nat]

Spend(event) == /\ budget[event] > 0
                /\ budget' = [budget EXCEPT ![event] = @ - 1]

Init == /\ rows \in Shelves
        /\ open = {}
        /\ file = NoFile /\ page = NoPage
        /\ shelf = None /\ answer = "none"
        /\ budget = Limits

-----------------------------------------------------------------------------
(* The file                                                                *)

Export ==
  /\ Spend("exports")
  /\ \E k \in Kinds : rows[k] # EmptyTable
  /\ file' = Built(rows)
  /\ shelf' = rows
  /\ UNCHANGED <<rows, open, page, answer>>

Rewrites(entries) ==
  /\ file # NoFile /\ Spend("files")
  /\ file' = entries
  /\ shelf' = None
  /\ UNCHANGED <<rows, open, page, answer>>

\* _read_stage: a file written before stages existed arrives in Dev.
FileBeforeStages ==
  Rewrites([k \in Kinds |-> [i \in DOMAIN file[k] |->
              [file[k][i] EXCEPT !.stage = "dev", !.versions = <<>>,
                                 !.basedOn = None, !.category = None]]])

\* A hand-made file: a Prod entry may come without its versions.
FileByHand ==
  Rewrites([k \in Kinds |-> [i \in DOMAIN file[k] |-> [file[k][i] EXCEPT !.versions = <<>>]]])

-----------------------------------------------------------------------------
(* The preview                                                             *)

Changes(k, old, new) == IF k = "template" THEN TemplateChanges(old, new)
                                          ELSE ModListChanges(old, new)

\* _item: new, identical or different, against the row that has the name.
Item(k, here, entry) ==
  IF entry.name \notin DOMAIN here THEN [status |-> "new", stage |-> None]
  ELSE LET row == here[entry.name] IN
       [status |-> IF Changes(k, row.content, entry.content) = {} THEN "identical" ELSE "differs",
        stage |-> row.stage]

Suggested(item) == IF item.status = "new" THEN "create" ELSE "skip"

EntryNamed(entries, name) == entries[CHOOSE i \in DOMAIN entries : entries[i].name = name]

NamesIn(entries) == {entries[i].name : i \in DOMAIN entries}

\* chooseFile: each decision is seeded with what the preview suggests.
Choose ==
  /\ file # NoFile /\ Spend("previews")
  /\ LET items == [k \in Kinds |-> [n \in NamesIn(file[k]) |->
                                      Item(k, rows[k], EntryNamed(file[k], n))]]
     IN page' = [at |-> "preview", file |-> file, items |-> items,
                 decisions |-> [k \in Kinds |-> [n \in DOMAIN items[k] |-> Suggested(items[k][n])]]]
  /\ answer' = "none"
  /\ UNCHANGED <<rows, open, file, shelf>>

\* optionsFor
Options(item) ==
  CASE item.status = "new" -> {"create", "skip"}
    [] item.status = "differs" /\ item.stage = "prod" -> {"skip", "copy"}
    [] item.status = "differs" /\ item.stage # "prod" -> {"skip", "overwrite", "copy"}
    [] OTHER -> {"skip"}

Decide(k, n) ==
  /\ page.at = "preview"
  /\ \E action \in Options(page.items[k][n]) \ {page.decisions[k][n]} :
       page' = [page EXCEPT !.decisions[k][n] = action]
  /\ UNCHANGED <<rows, open, file, shelf, answer, budget>>

\* chooseForAll("restore"): put back everything; a Prod template stays as it is.
DecideForAll ==
  /\ page.at = "preview"
  /\ page' = [page EXCEPT !.decisions =
       [k \in Kinds |-> [n \in DOMAIN page.items[k] |->
          IF page.items[k][n].status = "differs" /\ page.items[k][n].stage # "prod"
          THEN "overwrite" ELSE Suggested(page.items[k][n])]]]
  /\ UNCHANGED <<rows, open, file, shelf, answer, budget>>

-----------------------------------------------------------------------------
(* The import                                                              *)

Decision(k, entry) == IF entry.name \in DOMAIN page.decisions[k]
                      THEN page.decisions[k][entry.name] ELSE "skip"

\* Mutant: a Prod template may be overwritten.
MayOverwriteProd(k, name) == ~(k = "template" /\ name \in open)

\* An overwrite is a save: neither of a Prod row, nor of one that is open.
MayOverwrite(k, name) == ~IsProd(rows[k][name]) /\ ~(k = "template" /\ name \in open)

\* What is refused before anything is written.
Refused ==
  \E k \in Kinds : \E entry \in ToSet(page.file[k]) :
    /\ Decision(k, entry) = "overwrite" /\ entry.name \in DOMAIN rows[k]
    /\ ~MayOverwrite(k, entry.name)

\* free_name: the first "(imported n)" that no row has.
FreeName(taken, name) ==
  Append(name, CHOOSE n \in 1..(Cardinality(taken) + 1) :
                 /\ Append(name, n) \notin taken
                 /\ \A m \in 1..(n - 1) : Append(name, m) \in taken)

BasedOnFor(name, row) == IF IsProd(row) THEN Origin(name, Len(row.versions)) ELSE row.basedOn

\* _restore_stage: a Prod row without versions gets a v1 of its head.
Restored(entry) ==
  Row(entry.stage, entry.content,
      IF entry.stage # "prod" THEN <<>>
      ELSE IF entry.versions = <<>> THEN <<entry.content>> ELSE entry.versions,
      None, entry.category)

CopyOf(name, row, entry) ==
  Row("test", entry.content, <<>>, BasedOnFor(name, row), entry.category)

\* A file without a category keeps the one the row has.
Overwritten(row, entry) ==
  [row EXCEPT !.content = entry.content,
              !.category = IF entry.category = None THEN @ ELSE entry.category]

\* One entry of the file. done.rows is the table as the session holds it,
\* here the one it read at first; an insert of a name the session has inserted
\* already fails on the unique column.
Carried(k, here, done, entry) ==
  LET name == entry.name
      found == name \in DOMAIN here
      decided == Decision(k, entry)
      action == IF decided \in {"overwrite", "copy"} /\ ~found THEN "create" ELSE decided
      free == FreeName(DOMAIN done.rows, name)
  IN CASE done.end # "done" \/ action = "skip" -> done
       [] done.end = "done" /\ action = "create" /\ found -> [done EXCEPT !.end = "refused"]
       [] done.end = "done" /\ action = "create" /\ ~found /\ name \in DOMAIN done.rows ->
            [done EXCEPT !.end = "failed"]
       [] done.end = "done" /\ action = "create" /\ name \notin DOMAIN done.rows ->
            [done EXCEPT !.rows = With(@, name, Restored(entry)), !.made = @ \cup {entry}]
       [] done.end = "done" /\ action = "overwrite" ->
            [done EXCEPT !.rows = With(@, name, Overwritten(here[name], entry))]
       [] done.end = "done" /\ action = "copy" ->
            [done EXCEPT !.rows = With(@, free, CopyOf(name, here[name], entry))]

\* Mutant: origins are looked up among the rows that were here before.
LinkedEarly(here, done) ==
  [n \in DOMAIN done.rows |->
     IF \E e \in done.made : /\ e.name = n /\ e.basedOn # None
                             /\ e.basedOn.name \in DOMAIN here
                             /\ IsProd(here[e.basedOn.name])
     THEN [done.rows[n] EXCEPT !.basedOn = (CHOOSE e \in done.made : e.name = n).basedOn]
     ELSE done.rows[n]]

\* _link_based_on: each row that was made, to its origin by name, once every
\* row of the import is there; only a Prod row can be one.
Linked(here, done) ==
  [n \in DOMAIN done.rows |->
     IF \E e \in done.made : /\ e.name = n /\ e.basedOn # None
                             /\ e.basedOn.name \in DOMAIN done.rows
                             /\ IsProd(done.rows[e.basedOn.name])
     THEN [done.rows[n] EXCEPT !.basedOn = (CHOOSE e \in done.made : e.name = n).basedOn]
     ELSE done.rows[n]]

\* What is done after each number of entries, and after the last.
Progress(k) ==
  LET done[i \in 0..Len(page.file[k])] ==
        IF i = 0 THEN [rows |-> rows[k], made |-> {}, end |-> "done"]
                 ELSE Carried(k, rows[k], done[i - 1], page.file[k][i])
  IN  done

Carry(k) == Progress(k)[Len(page.file[k])]

\* The first kind that fails ends the whole import.
End(done) == IF done["template"].end # "done" THEN done["template"].end ELSE done["list"].end

\* Mutant: each row is committed as it is written.
CommitsEachRow(done) == [k \in Kinds |-> Linked(rows[k], done[k])]

\* Nothing is written unless every item can be.
Commits(done) == IF End(done) = "done" THEN [k \in Kinds |-> Linked(rows[k], done[k])] ELSE rows

Import ==
  /\ page.at = "preview"
  /\ \/ /\ Refused
        /\ answer' = "refused"
        /\ UNCHANGED <<rows, page>>
     \/ LET done == [k \in Kinds |-> Carry(k)] IN
        /\ ~Refused
        /\ answer' = End(done)
        /\ rows' = Commits(done)
        /\ page' = IF End(done) = "done" THEN NoPage ELSE page
  /\ UNCHANGED <<open, file, shelf, budget>>

-----------------------------------------------------------------------------
(* Meanwhile                                                               *)

Changed(k, table) == /\ Spend("changes")
                     /\ rows' = [rows EXCEPT ![k] = table]
                     /\ UNCHANGED <<file, page, shelf, answer>>

\* update_template, update_mod_template
Edit(k, n) ==
  /\ n \in DOMAIN rows[k] /\ ~IsProd(rows[k][n])
  /\ \E c \in Contents(k) \ {rows[k][n].content} :
       Changed(k, [rows[k] EXCEPT ![n].content = c])
  /\ UNCHANGED open

\* promote: from Test to Dev, and from Dev into Prod as a new row.
Promote(k, n) ==
  /\ n \in DOMAIN rows[k]
  /\ \/ /\ rows[k][n].stage = "test"
        /\ Changed(k, [rows[k] EXCEPT ![n].stage = "dev"])
        /\ UNCHANGED open
     \/ /\ rows[k][n].stage = "dev"
        /\ Changed(k, [rows[k] EXCEPT ![n].stage = "prod", ![n].basedOn = None,
                                      ![n].versions = <<rows[k][n].content>>])
        /\ open' = IF k = "template" THEN open \ {n} ELSE open

\* Or as the next version of a Prod row: the Dev row goes.
PromoteInto(k, n, target) ==
  LET content == rows[k][n].content IN
  /\ {n, target} \subseteq DOMAIN rows[k]
  /\ rows[k][n].stage = "dev" /\ IsProd(rows[k][target])
  /\ Changed(k, [m \in DOMAIN rows[k] \ {n} |->
                   IF m = target THEN [rows[k][m] EXCEPT !.content = content,
                                                         !.versions = Append(@, content)]
                   ELSE rows[k][m]])
  /\ open' = IF k = "template" THEN open \ {n} ELSE open

\* create_mod_template; a new server template would do the same.
Create(k) ==
  /\ NewName \notin DOMAIN rows[k]
  /\ \E c \in Contents(k) :
       Changed(k, With(rows[k], NewName, Row("test", c, <<>>, None, None)))
  /\ UNCHANGED open

\* copy_name: after the version it is to become, if it stems from a Prod row, else
\* after its source; told apart from the names of imports by its zero.
CopyName(k, n) ==
  LET origin == BasedOnFor(n, rows[k][n])
      stem == IF origin # None /\ origin.name \in DOMAIN rows[k] /\ IsProd(rows[k][origin.name])
              THEN origin.name ELSE n
  IN  stem \o <<0, CHOOSE i \in 1..(Cardinality(DOMAIN rows[k]) + 1) :
                      /\ stem \o <<0, i>> \notin DOMAIN rows[k]
                      /\ \A j \in 1..(i - 1) : stem \o <<0, j>> \in DOMAIN rows[k]>>

\* copy_template, copy_mod_template: of a row as it is, or of an older version of it.
Copy(k, n) ==
  LET row == rows[k][n] IN
  /\ n \in DOMAIN rows[k]
  /\ \E c \in {row.content} \cup ToSet(row.versions) :
     \E origin \in IF IsProd(row) THEN {Origin(n, v) : v \in {v \in DOMAIN row.versions : row.versions[v] = c}}
                                   ELSE {row.basedOn} :
       Changed(k, With(rows[k], CopyName(k, n), Row("test", c, <<>>, origin, row.category)))
  /\ UNCHANGED open

\* _mods_without_scenarios: the mods picked that are no scenarios, and all they need.
WithoutScenarios(mods) ==
  LET At(id) == mods[CHOOSE i \in DOMAIN mods : mods[i].modId = id]
      picked == {id \in IdsOf(mods) : At(id).explicit /\ ~At(id).scenario}
      Closed(ids) == \A id \in ids : At(id).needs \cap IdsOf(mods) \subseteq ids
      needed == CHOOSE ids \in SUBSET IdsOf(mods) :
                  /\ picked \subseteq ids /\ Closed(ids)
                  /\ \A other \in SUBSET ids : picked \subseteq other /\ Closed(other) => other = ids
  IN  SelectSeq(mods, LAMBDA mod : mod.modId \in needed)

\* make_mod_list: a template's mods as a new list, under a free name of its own.
MakeList(n) ==
  LET mods == WithoutScenarios(rows["template"][n].content.mods)
      list == [description |-> "made from a template",
               mods |-> [i \in DOMAIN mods |-> mods[i] @@ [comment |-> ""]]]
      free == CHOOSE name \in {<<0>> \o n \o [j \in 1..i |-> 0] :
                                 i \in 0..Cardinality(DOMAIN rows["list"])} :
                name \notin DOMAIN rows["list"]
  IN
  /\ n \in DOMAIN rows["template"] /\ mods # <<>>
  /\ Changed("list", With(rows["list"], free, Row("test", list, <<>>, None, None)))
  /\ UNCHANGED open

Refers(row, n) == row.basedOn # None /\ row.basedOn.name = n

\* update_template with another name: rows based on it follow.
Rename(k, n) ==
  LET named(m) == IF m = NewName THEN n ELSE m IN
  /\ n \in DOMAIN rows[k] /\ ~IsProd(rows[k][n]) /\ NewName \notin DOMAIN rows[k]
  /\ Changed(k, [m \in (DOMAIN rows[k] \ {n}) \cup {NewName} |-> rows[k][named(m)]])
  /\ open' = IF k = "template" THEN {IF m = n THEN NewName ELSE m : m \in open} ELSE open

\* delete_template, delete_mod_template: what was based on it no longer is.
Delete(k, n) ==
  /\ n \in DOMAIN rows[k]
  /\ Changed(k, [m \in DOMAIN rows[k] \ {n} |->
                   IF Refers(rows[k][m], n) THEN [rows[k][m] EXCEPT !.basedOn = None]
                                            ELSE rows[k][m]])
  /\ open' = IF k = "template" THEN open \ {n} ELSE open

\* lock_template and unlock_template of another session.
OpenElsewhere(n) ==
  /\ n \in DOMAIN rows["template"] \ open /\ ~IsProd(rows["template"][n])
  /\ Spend("changes")
  /\ open' = open \cup {n}
  /\ UNCHANGED <<rows, file, page, shelf, answer>>

CloseElsewhere(n) ==
  /\ n \in open
  /\ open' = open \ {n}
  /\ UNCHANGED <<rows, file, page, shelf, answer, budget>>

\* The user takes the file to a manager that has nothing yet.
NewManager ==
  /\ Spend("managers")
  /\ rows' = Empty /\ open' = {} /\ page' = NoPage /\ answer' = "none"
  /\ UNCHANGED <<file, shelf>>

-----------------------------------------------------------------------------
Next ==
  \/ Export \/ FileBeforeStages \/ FileByHand
  \/ Choose \/ DecideForAll \/ Import
  \/ \E k \in Kinds : \E n \in DOMAIN page.decisions[k] : Decide(k, n)
  \/ \E k \in Kinds : \E n \in DOMAIN rows[k] :
       \/ Edit(k, n) \/ Promote(k, n) \/ Rename(k, n) \/ Delete(k, n) \/ Copy(k, n)
       \/ \E target \in DOMAIN rows[k] : PromoteInto(k, n, target)
  \/ \E k \in Kinds : Create(k)
  \/ \E n \in DOMAIN rows["template"] : MakeList(n) \/ OpenElsewhere(n) \/ CloseElsewhere(n)
  \/ NewManager

Spec == Init /\ [][Next]_vars

-----------------------------------------------------------------------------
\* "All of them or none": a refused or failed import leaves every row as it
\* was, even where rows were written before the one that fails; a done one has
\* brought in every entry the user decided on, under its name or a copy's.
AllOrNothing ==
  [][Import => IF answer' # "done" THEN rows' = rows
               ELSE \A k \in Kinds : \A entry \in ToSet(page.file[k]) :
                      Decision(k, entry) # "skip" =>
                        \E n \in DOMAIN rows'[k] :
                          /\ n = entry.name \/ Front(n) = entry.name
                          /\ rows'[k][n].content = entry.content]_vars

\* "an import must never write something nobody asked for": a row that was here
\* stays as it was, versions, origin and category included, unless the user
\* chose to overwrite its name; and never one that is in Prod or open in
\* another session by then, whatever the preview showed.
UnaskedStays ==
  [][Import => \A k \in Kinds : \A n \in DOMAIN rows[k] :
       /\ n \in DOMAIN rows'[k]
       /\ rows'[k][n] # rows[k][n] =>
            /\ n \in DOMAIN page.decisions[k] /\ page.decisions[k][n] = "overwrite"
            /\ ~IsProd(rows[k][n]) /\ ~(k = "template" /\ n \in open)]_vars

\* "a restore onto an empty manager brings the golden templates back as golden,
\* versions and all": every row of the shelf that was exported is back, with
\* its stage, versions, origin and category.
RestoreIsWhole ==
  [][/\ Import /\ answer' = "done" /\ rows = Empty
     /\ shelf # None /\ page.file = Built(shelf)
     /\ \A k \in Kinds : \A entry \in ToSet(page.file[k]) : Decision(k, entry) = "create"
     => rows' = shelf]_vars

\* "Already here: identical to what you have; nothing to do": a template the
\* preview calls identical is one whose servers would read the same files.
IdenticalReadsTheSame ==
  [][Choose => \A n \in DOMAIN page'.items["template"] :
       page'.items["template"][n].status = "identical" =>
         Reads(EntryNamed(page'.file["template"], n).content) = Reads(rows["template"][n].content)]_vars
=============================================================================
