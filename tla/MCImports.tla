----------------------------- MODULE MCImports -----------------------------
(* Small instances of Imports for TLC.                                     *)
EXTENDS Imports, TLC

Mod(id, version, required, explicit) ==
  [modId |-> id, version |-> version, required |-> required, explicit |-> explicit,
   scenario |-> FALSE, needs |-> {}]

Player(id, reason) == [identityId |-> id, name |-> id, reason |-> reason]

Plain == [description |-> "", scenario |-> "s1", scenarioName |-> "Arland",
          settings |-> [maxPlayers |-> 32], admins |-> <<"p1">>,
          whitelist |-> <<Player("p1", "")>>, bans |-> <<Player("p2", "tk")>>,
          launch |-> [maxFps |-> 60], extras |-> {},
          mods |-> <<[Mod("m1", "latest", "default", TRUE) EXCEPT !.needs = {"m2"}],
                    Mod("m2", "1.0", "default", FALSE),
                    [Mod("m3", "latest", "default", TRUE) EXCEPT !.scenario = TRUE]>>]

\* What differs in one column each, and in all that a preview looks at.
Faster == [Plain EXCEPT !.launch = [maxFps |-> 120]]
Optional == [Plain EXCEPT !.mods[1].required = "no"]
Rebuilt == [Faster EXCEPT !.description = "new", !.scenario = "s2", !.settings = [slots |-> 8],
                          !.admins = <<"p2">>, !.whitelist = <<>>,
                          !.bans = <<Player("p2", "cheat"), Player("p3", "")>>,
                          !.mods = <<@[2], [@[1] EXCEPT !.version = "2.0"]>>]

FewContents == {Plain, Rebuilt}
ManyContents == {Plain, Faster, Optional, Rebuilt}

Noted(comment) == [description |-> "",
                   mods |-> <<[Mod("m1", "latest", "default", TRUE) EXCEPT !.modId = "m1"]
                              @@ [comment |-> comment]>>]

Lists == {Noted(""), Noted("keep")}

\* A Prod template with two versions, a Dev one that stems from it and sorts
\* before it, and a mod list; or a template next to an imported copy of it.
Stemmed == [k \in Kinds |->
  IF k = "template"
  THEN <<1>> :> Row("dev", Rebuilt, <<>>, Origin(<<2>>, 2), "hqc")
       @@ <<2>> :> Row("prod", Plain, <<Rebuilt, Plain>>, None, None)
  ELSE <<1>> :> Row("test", Noted(""), <<>>, None, None)]

Copied == [k \in Kinds |->
  IF k = "template"
  THEN <<1>> :> Row("dev", Plain, <<>>, None, "hqc")
       @@ <<1, 1>> :> Row("test", Rebuilt, <<>>, None, None)
  ELSE EmptyTable]

TwoShelves == {Stemmed, Copied}

Third == <<3>>

ImportLimits == [changes |-> 2, exports |-> 1, files |-> 1, previews |-> 2, managers |-> 1]
=============================================================================
