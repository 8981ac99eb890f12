------------------------------ MODULE Editing ------------------------------
(* One template in the wizard (TemplateWizard.vue, templates_api.py): its   *)
(* fields are changed in the form, or its config.json by hand, and what     *)
(* the wizard does not know is kept aside as extras.  The row holds the     *)
(* rendered config.json, the mods, the extras and a name; opening reads the *)
(* fields back out of them.  Locks and stages are in Releases.              *)
EXTENDS Rendering

CONSTANTS Keys,        \* the names a key can have
          FormEdits,   \* [field, value]: what the form can set
          RawEdits,    \* [path, value]: what a hand can change, Removed takes out
          Files,       \* config.json files to import
          Old,         \* [spec, mods, listed]: rows earlier versions have saved
          Removed, NoPage,
          MaxEdits     \* changes of the page in a behaviour

Switches == {"persists", "nav"}

ASSUME KeysAssumption ==
  {"game", "props", "persistence", "databases", "header", "operating", "rcon", "bindPort", "port"}
    \cup Fields \subseteq Keys

\* Paths are not empty, and what a key is below of is an object.
IsPath(p) == p \in Seq(Keys) /\ p # <<>>
IsDoc(doc) ==
  /\ doc = [p \in DOMAIN doc |-> doc[p]]
  /\ \A p \in DOMAIN doc :
       IsPath(p) /\ \A n \in 1 .. Len(p) - 1 : IsObject(doc, SubSeq(p, 1, n))

\* A mission header: what may be in config.json at and below Header.
IsHeader(h) ==
  /\ h = [p \in DOMAIN h |-> h[p]]
  /\ \A p \in DOMAIN h :
       /\ IsPath(p) /\ Under(p, Header)
       /\ \A n \in Len(Header) + 1 .. Len(p) - 1 : IsObject(h, SubSeq(p, 1, n))

IsSpec(s) ==
  /\ s = [field |-> s.field, header |-> s.header, on |-> s.on, graph |-> s.graph,
          label |-> s.label, extras |-> s.extras]
  /\ s.field = [f \in Fields |-> s.field[f]]
  /\ s.on \subseteq Switches /\ IsHeader(s.header) /\ IsDoc(s.extras)

\* Extras change no field that can be written and read back unchanged, and blocks stay
\* objects.
Harmless(extras) ==
  /\ \A b \in {Game, Props, Persistence, Operating, Rcon} \cap DOMAIN extras :
       extras[b] = Object
  /\ \A p \in DOMAIN extras :
       /\ ~AtOrUnder(p, Header)
       /\ \A f \in {"scenario", "max", "cross", "grass", "hive", "mods"} : ~AtOrUnder(p, PathOf(f))
  /\ PathOf("password") \in DOMAIN extras => extras[PathOf("password")] = ""

\* A patch of the custom keys has no empty object in it.
NothingEmpty(doc) == \A p \in DOMAIN doc : doc[p] = Object => \E q \in DOMAIN doc : Under(q, p)

\* A block that is off, or was left without a password, is brought back by the extras or
\* overridden by them; a list of names typed into RCON that is off is forgotten.
Revived(s) ==
  \/ "persists" \notin s.on /\ Persistence \in DOMAIN s.extras
  \/ s.field["password"] # "" /\ PathOf("password") \in DOMAIN s.extras
  \/ s.field["password"] = "" /\ PathOf("blacklist") \in DOMAIN s.extras

ModsOf(cfg) == SpecFrom(cfg, FALSE).field["mods"]

RowOf(o) ==
  [config |-> ToConfig(o.spec), mods |-> o.mods, listed |-> o.listed,
   graph |-> o.spec.graph, label |-> o.spec.label, extras |-> o.spec.extras]

ASSUME EditsAssumption ==
  /\ MaxEdits \in Nat
  /\ \A e \in FormEdits : e.field = "header" => IsHeader(e.value)
  /\ \A e \in RawEdits : IsPath(e.path)
  /\ \A cfg \in Files : IsDoc(cfg)

\* An older version rendered and validated alike, but had no field for NowModelled keys.
NowCustom(extras) == Only(extras, {p \in DOMAIN extras : \A q \in NowModelled : ~AtOrUnder(p, q)})
IsOld(o) ==
  LET cfg == ToConfig(o.spec) IN
  /\ IsSpec(o.spec) /\ Clean(o.spec) = o.spec /\ WellTyped(o.spec)
  /\ NothingEmpty(o.spec.extras) /\ Harmless(NowCustom(o.spec.extras)) /\ ~Revived(o.spec)
  /\ Header \in DOMAIN cfg => IsObject(cfg, Header) /\ Inside(cfg, Header) # Empty
  /\ PathOf("mods") \in DOMAIN cfg /\ CleanMods(ModsOf(cfg)) = ModsOf(cfg)
  /\ o.listed => ModsOf(cfg) = o.mods \/ <<o.mods, ModsOf(cfg)>> = <<"m1", "m1!">>
ASSUME OldAssumption == \A o \in Old : IsOld(o)

VARIABLES
  row,      \* Template: config, mods (listed: mods_json is set), graph, label, extras
  page,     \* the wizard's spec, NoPage when none is open
  typed,    \* history: the document applied by the last step
  own,      \* history: the custom keys applied on the page, with their values
  rowOwn,   \* history: those of the row
  saved,    \* history: the fields of the last save, none for an older row
  edits

editing == <<row, page, typed, own, rowOwn, saved, edits>>

Closed == page = NoPage

\* The custom keys of a document, but for nulls and empty objects: a merge patch
\* cannot hold these, they are lost (README).  Nor are keys inside of a list of names.
CustomKeys(cfg) ==
  Only(cfg, {p \in UnknownPaths(cfg) : /\ cfg[p] \notin {Null, Object}
                                       /\ \A q \in NowModelled : ~Under(p, q)})

EditingInit ==
  /\ \E o \in Old : row = RowOf(o)
  /\ page = NoPage /\ typed = NoPage /\ saved = {}
  /\ rowOwn = CustomKeys(row.config) /\ own = Empty
  /\ edits = 0

Edit == edits < MaxEdits /\ edits' = edits + 1

\* get_template and onMounted of the wizard; a page opened before is closed.
OpenTemplate ==
  /\ page' = Out(row) /\ own' = rowOwn
  /\ typed' = NoPage /\ UNCHANGED <<row, rowOwn, saved, edits>>

\* A new template starts from the defaults, and replaces row when it is created.
NewTemplate ==
  /\ Closed /\ page' = Defaults /\ own' = Empty
  /\ typed' = NoPage /\ UNCHANGED <<row, rowOwn, saved, edits>>

\* The mods picked in the form come with their graph.
WithField(s, f, value) ==
  [s EXCEPT !.field = [@ EXCEPT ![f] = value],
            !.graph = IF f = "mods" THEN ModIds(value) ELSE @]
WithSwitch(s, switch, on) ==
  [s EXCEPT !.on = IF on THEN @ \cup {switch} ELSE @ \ {switch}]
WithHeader(s, header) == [s EXCEPT !.header = header]

ChangeField ==
  /\ ~Closed /\ Edit
  /\ \E e \in FormEdits :
       /\ \/ e.field \in Fields /\ page' = WithField(page, e.field, e.value)
          \/ e.field \in Switches /\ page' = WithSwitch(page, e.field, e.value)
          \/ e.field = "header" /\ page' = WithHeader(page, e.value)
       /\ page' # page
  /\ typed' = NoPage /\ UNCHANGED <<row, own, rowOwn, saved>>

Prefixes(p) == {SubSeq(p, 1, n) : n \in 1 .. Len(p) - 1}

\* The document with another leaf, or an empty object, at a path, or without it.
HandEdited(cfg, e) ==
  LET rest == {p \in DOMAIN cfg : ~AtOrUnder(p, e.path)}
  IN  IF e.value = Removed THEN Only(cfg, rest)
      ELSE [p \in rest \cup Prefixes(e.path) \cup {e.path} |->
              IF p = e.path THEN e.value ELSE IF p \in Prefixes(e.path) THEN Object ELSE cfg[p]]

\* Mutant: the extras are not stored.
SavedWithoutExtras(s) ==
  [config |-> Render(s), mods |-> CleanMods(s.field["mods"]), listed |-> TRUE,
   graph |-> s.graph, label |-> s.label, extras |-> Empty]

\* What create_template and update_template write.
Saved(s) ==
  [config |-> Render(s), mods |-> CleanMods(s.field["mods"]), listed |-> TRUE,
   graph |-> s.graph, label |-> s.label, extras |-> s.extras]

\* Values the model does not accept are refused.
Stores(s, keys) ==
  /\ Valid(s)
  /\ row' = Saved(s) /\ rowOwn' = keys /\ saved' = {Clean(s)}

\* "Edit JSON" on the preview of the page, then Apply, which saves a template that is
\* there already; a Dev one only with a comment, and not if the server refuses.
ApplyRaw ==
  /\ ~Closed /\ Edit
  /\ \E e \in RawEdits :
       LET cfg == HandEdited(Render(page), e) IN
       IF Accepted(cfg)
       THEN /\ page' = Reconcile(page, cfg)
            /\ typed' = cfg /\ own' = CustomKeys(cfg)
            /\ \/ Stores(page', own')
               \/ UNCHANGED <<row, rowOwn, saved>>
       ELSE typed' = NoPage /\ UNCHANGED <<row, page, own, rowOwn, saved>>

\* import_config and importConfigFile: only the fields of the file are taken.
WithFile(s, cfg) ==
  LET read == SpecFrom(cfg, FALSE)
  IN  [s EXCEPT !.field = read.field, !.header = read.header, !.on = read.on,
                !.label = "", !.graph = {}]

ImportFile ==
  /\ ~Closed /\ Edit
  /\ \E cfg \in Files : Readable(cfg) /\ page' = WithFile(page, cfg)
  /\ typed' = NoPage /\ UNCHANGED <<row, own, rowOwn, saved>>

SaveTemplate ==
  /\ ~Closed /\ Stores(page, own)
  /\ typed' = NoPage /\ UNCHANGED <<page, own, edits>>

EditingNext == \/ OpenTemplate \/ NewTemplate \/ ChangeField
               \/ ApplyRaw \/ ImportFile \/ SaveTemplate

EditingSpec == EditingInit /\ [][EditingNext]_editing


-----------------------------------------------------------------------------
(* Properties.                                                             *)

Holds(doc, keys) == \A p \in DOMAIN keys : p \in DOMAIN doc /\ doc[p] = keys[p]

\* Custom keys written by hand stay in config.json "exactly as written", whatever is
\* changed in the form, saved and opened after (config_validator.py), except for the
\* nulls and empty objects that a merge patch cannot hold.
CustomKeysSurvive ==
  Holds(row.config, rowOwn) /\ (~Closed => Holds(Render(page), own))

\* A document applied by hand is what the page then renders: all that was written,
\* save for what a patch cannot hold and the mods' unknown keys; all that is rendered
\* beyond it are keys of the wizard's, which revert ("Deleting a managed key in the
\* editor reverts to the wizard's value on Apply", _custom_keys_only).
AppliedIsRendered ==
  typed # NoPage =>
    LET made == Render(page) IN
    /\ Holds(made, Only(typed, {p \in DOMAIN typed :
                                  typed[p] \notin {Null, Object} /\ p # PathOf("mods")}))
    /\ SameMods(ModsOf(made), ModsOf(typed))
    /\ DOMAIN made \ DOMAIN typed \subseteq KnownPaths

\* Keys the extras stand for; those of the mods never do.
Overridden(s, path) ==
  path # PathOf("mods") /\ \E p \in DOMAIN s.extras : AtOrUnder(p, path)

\* A save loses nothing of the form: opening the row gives back every field that is
\* written, the switches, the header, the mods with their graph and the name, unless
\* extras override it.
WhatIsSavedOpens ==
  LET open == Out(row) IN
  \A s \in saved :
    /\ \A f \in Written(s) : Overridden(s, PathOf(f)) \/ open.field[f] = s.field[f]
    /\ "persists" \in open.on <=> "persists" \in s.on \/ Overridden(s, Persistence)
    /\ "nav" \in open.on <=> "nav" \in s.on \/ Overridden(s, PathOf("navs"))
    /\ open.header = s.header /\ open.graph = s.graph /\ open.label = s.label

\* What the server gets aside from lists of names, which lose duplicates at a save.
Unlisted(cfg) ==
  Only(cfg, {p \in DOMAIN cfg : \A f \in NameLists : ~AtOrUnder(p, PathOf(f))})

\* Opening a template, an old one as well, and saving it as it is changes nothing the
\* server gets: no entry of the change log, no restart to apply it.  Aside from names
\* written twice, from values that are out of range now, and from blocks that are off
\* in the form and not in the extras.
OpeningChangesNothing ==
  /\ \A s \in saved : ~Revived(s)
  /\ Valid(SpecFrom(row.config, TRUE))
  => Unlisted(Render(Out(row))) = Unlisted(row.config)
=============================================================================
