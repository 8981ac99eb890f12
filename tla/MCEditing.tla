----------------------------- MODULE MCEditing -----------------------------
(* Editing for TLC: an edit for every way a key is treated, and rows as    *)
(* older versions of the manager left them.                                 *)
EXTENDS Editing, TLC

CONSTANTS removed, none

Set(field, value) == [field |-> field, value |-> value]
Hand(path, value) == [path |-> path, value |-> value]
In(block, key) == Append(block, key)
Typed == In(Header, "h") :> "1"

MCKeys ==
  UNION {{p[i] : i \in DOMAIN p} : p \in KnownPaths} \cup {"h", "db", "custom", "k", "x"}

MCFormEdits ==
  {Set("max", "32"), Set("cross", "off"), Set("cross", "on"), Set("players", "one"),
   Set("players", "none"), Set("header", Typed), Set("persists", TRUE),
   Set("persists", FALSE), Set("hive", "1"), Set("nav", TRUE), Set("navs", "n1"),
   Set("password", "pw"), Set("password", ""), Set("clients", "4"), Set("mods", "m2")}

MCRawEdits ==
  {Hand(PathOf(e[1]), e[2]) :
     e \in {<<"max", "32">>, <<"max", "0">>, <<"grass", "10">>, <<"plats", "pc+">>,
            <<"players", "one-">>, <<"hive", "1">>, <<"navs", "n1,n1">>, <<"password", "pw">>,
            <<"password", "">>, <<"clients", "4">>, <<"blacklist", "n1">>, <<"mods", "m2">>, <<"mods", "m1?">>,
            <<"max", removed>>, <<"players", removed>>, <<"navs", removed>>,
            <<"scenario", removed>>}}
  \cup {Hand(Header, "bad"), Hand(Header, removed), Hand(Persistence, removed),
        Hand(Rcon, removed), Hand(BindPort, "2002"), Hand(In(Header, "h"), "2"),
        Hand(In(Databases, "db"), "d"), Hand(In(Rcon, "custom"), "c"),
        Hand(In(Props, "custom"), "c"), Hand(In(In(Props, "custom"), "k"), "c"),
        Hand(In(Props, "custom"), Object), Hand(In(Props, "custom"), removed)}

MCOld ==
  LET Was(extras, listed) ==
        [spec |-> [Defaults EXCEPT !.extras = extras], mods |-> "m1", listed |-> listed]
      around == [p \in {Game, Props, Header} |-> Object]
  IN  {Was(Empty, TRUE),
       \* saved before the header was modelled, and before a mod's required was
       [Was(around @@ Typed, FALSE) EXCEPT !.spec.graph = {}],
       Was((Game :> Object) @@ (PathOf("mods") :> "m1!"), TRUE),
       \* and before the limit on grass
       [Was(Empty, TRUE) EXCEPT !.spec.field["grass"] = "10"]}

MCFiles ==
  {[Config(Defaults) EXCEPT ![PathOf("max")] = "0"] @@ (<<"x">> :> "c"),
   Config(Defaults) @@ (PathOf("players") :> "one-"),
   (Game :> "bad")}
=============================================================================
