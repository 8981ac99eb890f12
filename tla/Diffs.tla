------------------------------- MODULE Diffs -------------------------------
(***************************************************************************)
(* What the change log and an import's preview see of a change: the lines  *)
(* services/change_log.py turns two snapshots into, and the ones           *)
(* backup.py adds to them.  A line is a tuple of what it is about and      *)
(* whom; its wording is left out.  Nothing is said where the set of lines  *)
(* is empty.                                                               *)
(*                                                                         *)
(* The content of a server template is a record: config.json is settings,  *)
(* scenario, admins, whitelist, bans and the flat part of mods; the rest   *)
(* is in columns of its own.                                               *)
(***************************************************************************)
EXTENDS Naturals, Sequences, SequencesExt

\* A mod as config.json carries it (to_config): the rest is for the editor.
Flat(mod) == [modId |-> mod.modId, version |-> mod.version, required |-> mod.required]

FlatMods(content) == [i \in DOMAIN content.mods |-> Flat(content.mods[i])]

\* What a server started from the content reads: config.json and the launch line.
Reads(content) == [settings |-> content.settings, scenario |-> content.scenario,
                   admins |-> content.admins, whitelist |-> content.whitelist,
                   bans |-> content.bans, mods |-> FlatMods(content),
                   launch |-> content.launch, extras |-> content.extras]

-----------------------------------------------------------------------------
IdsOf(mods) == {mods[i].modId : i \in DOMAIN mods}

\* The entry a list indexed by key holds for it: the last one wins.
EntryOf(list, field, key) ==
  LET at == {i \in DOMAIN list : list[i][field] = key}
  IN list[CHOOSE i \in at : \A j \in at : j <= i]

\* Mods are told apart by their id and compared by their version, nothing else.
ModChanges(old, new) ==
  {<<"mod added", m>> : m \in IdsOf(new) \ IdsOf(old)}
  \cup {<<"mod removed", m>> : m \in IdsOf(old) \ IdsOf(new)}
  \cup {<<"mod version", m>> : m \in
          {m \in IdsOf(old) \cap IdsOf(new) :
             EntryOf(old, "modId", m).version # EntryOf(new, "modId", m).version}}

\* The load order of the mods both lists have.
OrderChange(old, new) ==
  LET common == IdsOf(old) \cap IdsOf(new)
      Order(mods) == SelectSeq([i \in DOMAIN mods |-> mods[i].modId], LAMBDA m : m \in common)
  IN IF Order(old) = Order(new) THEN {} ELSE {<<"load order">>}

CommentChanges(old, new) ==
  {<<"mod comment", m>> : m \in
     {m \in IdsOf(old) \cap IdsOf(new) :
        EntryOf(old, "modId", m).comment # EntryOf(new, "modId", m).comment}}

AdminChanges(old, new) ==
  {<<"admin added", a>> : a \in ToSet(new) \ ToSet(old)}
  \cup {<<"admin removed", a>> : a \in ToSet(old) \ ToSet(new)}

\* Whitelist and bans, by identity; a player's name is only a label.
PlayerListChanges(list, old, new) ==
  LET Identities(players) == {players[i].identityId : i \in DOMAIN players}
  IN {<<list, "added", p>> : p \in Identities(new) \ Identities(old)}
     \cup {<<list, "removed", p>> : p \in Identities(old) \ Identities(new)}
     \cup {<<list, "reason", p>> : p \in
             {p \in Identities(old) \cap Identities(new) :
                EntryOf(old, "identityId", p).reason # EntryOf(new, "identityId", p).reason}}

\* One line for each setting that is set, removed or changed.
SettingChanges(old, new) ==
  {<<"setting", p>> : p \in
     {p \in DOMAIN old \cup DOMAIN new :
        p \notin DOMAIN old \cap DOMAIN new \/ old[p] # new[p]}}

\* A line when the two differ.
Line(about, old, new) == IF old = new THEN {} ELSE {<<about>>}

\* diff: what a save writes into the change log, but for a rename.
Diff(old, new) ==
  Line("description", old.description, new.description)
  \cup Line("scenario", old.scenario, new.scenario)
  \cup ModChanges(FlatMods(old), FlatMods(new))
  \cup AdminChanges(old.admins, new.admins)
  \cup PlayerListChanges("whitelist", old.whitelist, new.whitelist)
  \cup PlayerListChanges("bans", old.bans, new.bans)
  \cup SettingChanges(old.settings, new.settings)

\* _template_changes: what the preview of an import says of a template.
TemplateChanges(old, new) ==
  Diff(old, new)
  \cup Line("scenario name", old.scenarioName, new.scenarioName)
  \cup SettingChanges(old.launch, new.launch)
  \cup Line("extras", old.extras, new.extras)
  \cup OrderChange(old.mods, new.mods)

\* _mod_template_changes, and what a save of a mod list writes into its log.
ModListChanges(old, new) ==
  Line("description", old.description, new.description)
  \cup ModChanges(old.mods, new.mods)
  \cup CommentChanges(old.mods, new.mods)
  \cup OrderChange(old.mods, new.mods)
=============================================================================
