----------------------------- MODULE Rendering -----------------------------
(* From a template to its config.json and back (template_service.py,       *)
(* config_validator.py and the helpers of templates_api.py).  A JSON object *)
(* is one function, from the path of every key in it, at any depth, to the  *)
(* leaf that is there or to Object; so what the code does key by key and by *)
(* recursion is said here of all paths at once.  Of the settings one is     *)
(* kept for each way the code treats them: a plain one (scenario, max), one *)
(* that is clamped (grass), a pair (cross, plats), a list of entries        *)
(* (players), lists of names (navs, blacklist), blocks that are written     *)
(* under a condition (persistence, rcon, navs), the free-form block         *)
(* (header) and the mods, which have more to them than config.json holds.   *)
EXTENDS Naturals, Sequences

Null == "null"
Object == "{}"
Empty == [p \in {} |-> Null]

\* The path p is q, or leads through it.
AtOrUnder(p, q) == \A i \in DOMAIN q : i \in DOMAIN p /\ p[i] = q[i]
Under(p, q) == p # q /\ AtOrUnder(p, q)

IsObject(doc, p) == p \in DOMAIN doc /\ doc[p] = Object
Only(doc, paths) == [p \in paths |-> doc[p]]
Inside(doc, path) == Only(doc, {p \in DOMAIN doc : Under(p, path)})

\* merge_patch: objects merge, a null deletes, all else replaces; a null in what
\* replaces something else than an object stays.
Merge(base, patch) ==
  LET kept == {p \in DOMAIN base :
                 \A q \in DOMAIN patch : AtOrUnder(p, q) => patch[q] = Object}
      written == {p \in DOMAIN patch :
                    \/ patch[p] # Null
                    \/ \E q \in DOMAIN patch : Under(p, q) /\ ~IsObject(base, q)}
  IN  [p \in kept \cup written |-> IF p \in DOMAIN patch THEN patch[p] ELSE base[p]]

\* diff_patch: the patch that makes target of base.
Differs(base, target) == {p \in DOMAIN target : p \notin DOMAIN base \/ base[p] # target[p]}
Deleted(base, target) ==
  {p \in DOMAIN base \ DOMAIN target : \A q \in DOMAIN base : Under(p, q) => IsObject(target, q)}
Diff(base, target) ==
  LET entries == Differs(base, target) \cup Deleted(base, target)
      around == {q \in DOMAIN target : \E p \in entries : Under(p, q)}
  IN  [p \in entries \cup around |-> IF p \in DOMAIN target THEN target[p] ELSE Null]

\* _drop_path: doc without the key at path, emptied parents pruned.
DropPath(doc, path) ==
  LET rest == {p \in DOMAIN doc : ~AtOrUnder(p, path)}
      OnTheWay(p) == Under(path, p) /\ doc[p] = Object
      emptied == {p \in rest : OnTheWay(p) /\ \A q \in rest : Under(q, p) => OnTheWay(q)}
  IN  Only(doc, rest \ emptied)


-----------------------------------------------------------------------------
(* TemplateSpec: what the wizard collects, and its rules.                  *)

Game == <<"game">>
Props == <<"game", "props">>
Persistence == <<"game", "props", "persistence">>
Databases == <<"game", "props", "persistence", "databases">>
Header == <<"game", "props", "header">>
Operating == <<"operating">>
Rcon == <<"rcon">>
BindPort == <<"bindPort">>
RconPort == <<"rcon", "port">>

\* The block each field is in; its key has the name of the field.
Home == [scenario |-> Game, max |-> Game, cross |-> Game, plats |-> Game, players |-> Game,
         mods |-> Game, grass |-> Props, hive |-> Persistence, navs |-> Operating,
         password |-> Rcon, clients |-> Rcon, blacklist |-> Rcon]
Fields == DOMAIN Home
PathOf(f) == Append(Home[f], f)

NameLists == {"navs", "blacklist"}

\* What the constraints of the fields refuse.
WellTyped(s) == \A f \in Fields : s.field[f] \notin {Null, Object}
Valid(s) ==
  /\ WellTyped(s)
  /\ s.field["scenario"] # "" /\ s.field["max"] # "0" /\ s.field["grass"] # "10"

\* Its validators: platforms follow the switch, lists of names lose duplicates, an
\* entry gets the keys it lacks, mods lose those the model does not know.
CleanMods(mods) == IF mods = "m1?" THEN "m1" ELSE mods
CleanNames(names) == IF names = "n1,n1" THEN "n1" ELSE names
CleanPlayers(players) == IF players = "one-" THEN "one" ELSE players
CleanFields(v) ==
  [f \in Fields |->
     IF f = "plats" THEN IF v["cross"] = "on" THEN "all" ELSE IF v[f] = "all" THEN "pc" ELSE v[f]
     ELSE IF f \in NameLists THEN CleanNames(v[f])
     ELSE IF f = "players" THEN CleanPlayers(v[f])
     ELSE IF f = "mods" THEN CleanMods(v[f]) ELSE v[f]]
Clean(s) == [s EXCEPT !.field = CleanFields(s.field)]

\* What a key that is not there reads as.
Absent == [scenario |-> "", max |-> "64", cross |-> "on", plats |-> "all", players |-> "none",
           mods |-> "none", grass |-> "50", hive |-> "0", navs |-> "none", password |-> "",
           clients |-> "16", blacklist |-> "none"]

\* A new template, its scenario and a mod picked.
Defaults ==
  [field |-> [Absent EXCEPT !["scenario"] = "sc", !["mods"] = "m1"], header |-> Empty,
   on |-> {}, graph |-> {"m1"}, label |-> "name", extras |-> Empty]

\* The fields and blocks of to_config that are written, some under a condition.
Written(s) ==
  {f \in Fields : /\ f = "players" => s.field[f] # "none"
                  /\ f = "navs" => "nav" \in s.on
                  /\ Home[f] = Persistence => "persists" \in s.on
                  /\ Home[f] = Rcon => s.field["password"] # ""}
Blocks(s) ==
  {Game, Props, Operating}
    \cup (IF "persists" \in s.on THEN {Persistence, Databases} ELSE {})
    \cup (IF s.field["password"] # "" THEN {Rcon} ELSE {})
    \cup (IF s.header # Empty THEN {Header} ELSE {})
Fixed(s) == {BindPort} \cup (IF s.field["password"] # "" THEN {RconPort} ELSE {})

Config(s) ==
  LET fields == {PathOf(f) : f \in Written(s)}
  IN  [p \in Blocks(s) \cup Fixed(s) \cup fields \cup DOMAIN s.header |->
         IF p \in Blocks(s) THEN Object
         ELSE IF p \in Fixed(s) THEN "fixed"
         ELSE IF p \in fields THEN s.field[p[Len(p)]] ELSE s.header[p]]

\* to_config: the extras are applied last.
ToConfig(s) == Merge(Config(s), s.extras)
Render(s) == ToConfig(Clean(s))


-----------------------------------------------------------------------------
(* And back.                                                               *)

\* What spec_from_config can read without an exception.
Readable(cfg) ==
  /\ \A b \in {Game, Props, Operating, Rcon} \cap DOMAIN cfg : cfg[b] = Object
  /\ Persistence \in DOMAIN cfg => cfg[Persistence] \in {Object, Null}

\* What is no list reads as an empty one; a hand-written entry may lack keys.
Value(f, v) ==
  IF f = "players" \/ f \in NameLists
  THEN IF v \in {Null, Object} THEN "none" ELSE IF f = "players" THEN CleanPlayers(v) ELSE v
  ELSE v

\* spec_from_config; strict is clamp=False.  Launch parameters, the mods' graph and
\* what only the row knows are not in it.
SpecFrom(cfg, strict) ==
  LET Get(f) == IF PathOf(f) \in DOMAIN cfg THEN Value(f, cfg[PathOf(f)]) ELSE Absent[f]
  IN  [field |-> [f \in Fields |->
                    IF f = "grass" /\ Get(f) = "10" /\ ~strict THEN "50" ELSE Get(f)],
       header |-> Inside(cfg, Header),
       on |-> (IF Persistence \in DOMAIN cfg THEN {"persists"} ELSE {})
                \cup (IF PathOf("navs") \in DOMAIN cfg THEN {"nav"} ELSE {})]


-----------------------------------------------------------------------------
(* The validator: which keys are the wizard's (config_validator.py).       *)

\* known_paths: all that to_config can write, every block turned on.
Maximal ==
  [Defaults EXCEPT !.field = [@ EXCEPT !["players"] = "one", !["password"] = "_"],
                   !.header = [p \in {Append(Header, "_")} |-> "_"],
                   !.on = {"persists", "nav"}]
KnownPaths == DOMAIN ToConfig(Maximal)

InFreeForm(path) == Under(path, Header)

\* unknown_paths, with those below the topmost ones.
UnknownPaths(cfg) == {p \in DOMAIN cfg : p \notin KnownPaths /\ ~InFreeForm(p)}

Accepted(cfg) ==
  /\ Readable(cfg)
  /\ Header \in DOMAIN cfg => cfg[Header] \in {Object, Null}
  /\ Valid(SpecFrom(cfg, TRUE))


-----------------------------------------------------------------------------
(* Applying a hand-edited document, and opening a saved one.               *)

\* The leaves of patch among keys, and the objects around them.
Around(patch, keys) ==
  Only(patch, keys \cup {q \in DOMAIN patch : \E p \in keys : Under(p, q)})

\* Mutant: every key the wizard manages goes, changed ones as well.
UnknownOnly(patch) ==
  Around(patch, {p \in DOMAIN patch : patch[p] # Object /\ p \notin KnownPaths})

\* _custom_keys_only: no entry that deletes a key of the wizard's.
CustomKeysOnly(patch) ==
  Around(patch, {p \in DOMAIN patch :
                   /\ patch[p] # Object
                   /\ patch[p] = Null => p \notin KnownPaths /\ ~InFreeForm(p)})

\* _same_mod_ids
SameMods(a, b) == CleanMods(a) = CleanMods(b)
ModIds(mods) == IF mods = "m2" THEN {"m1", "m2"} ELSE IF mods = "none" THEN {} ELSE {"m1"}

\* reconcile_config, with what the page then makes of the mods (adoptEditedMods):
\* those that survive keep what the wizard knew of them.
Reconcile(s, cfg) ==
  LET read == SpecFrom(cfg, FALSE)
      mods == IF SameMods(s.field["mods"], read.field["mods"]) THEN s.field["mods"]
              ELSE read.field["mods"]
      spec == [field |-> [read.field EXCEPT !["mods"] = mods], header |-> read.header,
               on |-> read.on, graph |-> s.graph \cap ModIds(mods), label |-> s.label,
               extras |-> Empty]
      patch == CustomKeysOnly(Diff(Render(spec), cfg))
  IN  [spec EXCEPT !.extras = DropPath(patch, PathOf("mods"))]

\* Mutant: the header stays in the extras.
DropMods(extras) == DropPath(DropPath(extras, PathOf("mods")), PathOf("navs"))

\* _drop_now_modelled: keys that could only be hand-edited once.
NowModelled == {Header, PathOf("mods"), PathOf("blacklist"), PathOf("navs")}
DropNowModelled(extras) ==
  DropPath(DropPath(DropPath(DropPath(extras, Header), PathOf("mods")), PathOf("blacklist")),
           PathOf("navs"))

Opened(row, mods) ==
  LET read == SpecFrom(row.config, FALSE)
  IN  [field |-> [read.field EXCEPT !["mods"] = mods], header |-> read.header, on |-> read.on,
       graph |-> row.graph, label |-> row.label, extras |-> DropNowModelled(row.extras)]

\* Mutant: the typed "required" is not looked for.
OutOfRow(row) ==
  Opened(row, IF row.listed THEN row.mods ELSE SpecFrom(row.config, FALSE).field["mods"])

\* _out: the fields are read out of config.json, the mods and what it cannot hold out
\* of the row; a "required" typed by hand before the wizard had it is in config.json.
Out(row) ==
  LET flat == SpecFrom(row.config, FALSE).field["mods"]
  IN  Opened(row, IF ~row.listed THEN flat
                  ELSE IF row.mods = "m1" /\ flat = "m1!" THEN "m1!" ELSE row.mods)
=============================================================================
