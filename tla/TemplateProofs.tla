--------------------------- MODULE TemplateProofs ---------------------------
(***************************************************************************)
(* Theorems of the templates: on their way through the stages (Releases)   *)
(* and as documents in the wizard (Editing), for any number of templates,  *)
(* servers, tabs and workers, any edits and any documents.                 *)
(*                                                                         *)
(* Releases: types, versions, heads, origins and the servers' targets are  *)
(* one inductive invariant.  The number a release gets has a type only     *)
(* because the versions before it run on, and a pinned server keeps its    *)
(* version only because a template that is used up never had one.          *)
(*                                                                         *)
(* Editing: the row was rendered from a clean spec, and page and row have  *)
(* extras that leave alone what is read back out of config.json, with the  *)
(* custom keys in them; a document that was applied is what is rendered.   *)
(***************************************************************************)
EXTENDS Releases, Editing, SequenceTheorems, WellFoundedInduction, TLAPS

-----------------------------------------------------------------------------
(* Tables                                                                  *)

\* VersionsOf on any version table, so that one fact serves before and after.
Numbers(F, i) == {v.version : v \in {f \in F : f.item = i}}

Unique(F) == \A v, u \in F : v.item = u.item /\ v.version = u.version => v = u

\* Version n of item k is put into F.
Grown(F, G, k, n, c) == G = F \cup {[item |-> k, version |-> n, content |-> c]}

\* The versions of k run from 1 to n.
RunsTo(F, k, n) == Numbers(F, k) = 1..n

\* A row of versions that gets the next one runs on.
LEMMA RunGrows ==
  ASSUME NEW F, NEW G, NEW k, NEW n \in Nat, NEW m, NEW c,
         Unique(F), RunsTo(F, k, n), m = n + 1, Grown(F, G, k, m, c)
  PROVE  /\ Unique(G)
         /\ RunsTo(G, k, m)
         /\ \A j : j # k => Numbers(G, j) = Numbers(F, j)
  <1> DEFINE r == [item |-> k, version |-> m, content |-> c]
  <1>1. r.item = k /\ r.version = n + 1
    OBVIOUS
  <1>2. \A v : v \in G <=> v \in F \/ v = r
    BY DEF Grown
  <1>3. \A x : x \in 1..n <=> \E v \in F : v.item = k /\ v.version = x
    BY DEF RunsTo, Numbers
  <1> HIDE DEF r
  <1>4. \A x : x \in Numbers(G, k) <=> \E v \in G : v.item = k /\ v.version = x
    BY DEF Numbers
  <1>5. \A x : x \in Numbers(G, k) <=> x \in 1..n \/ x = n + 1
    BY <1>1, <1>2, <1>3, <1>4
  <1>6. \A x : x \in 1..(n + 1) <=> x \in 1..n \/ x = n + 1
    OBVIOUS
  <1>7. RunsTo(G, k, m)
    BY <1>5, <1>6 DEF RunsTo
  <1>8. ASSUME NEW j, j # k
        PROVE  Numbers(G, j) = Numbers(F, j)
    BY <1>1, <1>2, <1>8 DEF Numbers
  <1>9. Unique(G)
    <2>1. n + 1 \notin 1..n
      OBVIOUS
    <2>2. \A v \in F : v.item = k => v.version # n + 1
      BY <1>3, <2>1
    <2> QED BY <1>1, <1>2, <2>2 DEF Unique
  <1> QED BY <1>7, <1>8, <1>9

\* What NextVersion returns of a row of versions that runs on.
LEMMA TopOfRun ==
  ASSUME NEW n \in Nat \ {0}
  PROVE  (CHOOSE k \in 1..n : \A m \in 1..n : m <= k) = n
  <1>1. n \in 1..n /\ \A m \in 1..n : m <= n
    OBVIOUS
  <1>2. \A k \in 1..n : (\A m \in 1..n : m <= k) => k = n
    OBVIOUS
  <1> QED BY <1>1, <1>2

LEMMA VersionsAreNumbers ==
  ASSUME NEW i
  PROVE  VersionsOf(i) = Numbers(frozen, i)
  BY DEF VersionsOf, Numbers

LEMMA VersionsAreNumbersNext ==
  ASSUME NEW i
  PROVE  VersionsOf(i)' = Numbers(frozen', i)
  BY DEF VersionsOf, Numbers

-----------------------------------------------------------------------------
(* Types                                                                   *)

LEMMA GoneType == Gone \in Item /\ Gone.stage = "gone" /\ Gone.version = 0
                  /\ Gone.basedOn = None /\ Gone.content \in Contents
  BY ReleasesAssumption DEF Gone, Item, Stages, None

LEMMA ListingType == Listing \in Tab
  BY GoneType DEF Listing, Tab, None

LEMMA WaitingType == Waiting \in Worker
  BY DEF Waiting, Worker, Unset, Setting, None

LEMMA SpendType ==
  ASSUME NEW event \in BoundedEvents, budget \in [BoundedEvents -> Nat], Spend(event)
  PROVE  budget' \in [BoundedEvents -> Nat]
  BY DEF Spend

\* The number of a release follows on the versions before it.
LEMMA NextVersionIs ==
  ASSUME TypeOK, VersionsRunOn, NEW i \in Ids, IsProd(i)
  PROVE  /\ NextVersion(i) = item[i].version + 1
         /\ item[i].version \in Nat \ {0}
         /\ VersionsOf(i) = 1..item[i].version
  <1>1. item[i].version \in Nat \ {0}
    BY DEF TypeOK, VersionsRunOn, Item
  <1>2. VersionsOf(i) = 1..item[i].version
    BY DEF VersionsRunOn
  <1>3. VersionsOf(i) # {}
    BY <1>1, <1>2
  <1> QED BY <1>1, <1>2, <1>3, TopOfRun DEF NextVersion

LEMMA UnlinkedType ==
  ASSUME TypeOK, NEW i
  PROVE  Unlinked(i) \in [Servers -> Setting]
  <1>1. Unset \in Setting
    BY DEF Unset, Setting, None
  <1> QED BY <1>1 DEF Unlinked, TypeOK

LEMMA InitType == Init => TypeOK
  <1> SUFFICES ASSUME Init PROVE TypeOK
    OBVIOUS
  <1>1. item \in [Ids -> Item]
    BY GoneType DEF Init, Item, Stages, None
  <1>2. server \in [Servers -> Setting]
    BY DEF Init, Setting
  <1>3. lock \in [Ids -> Tabs \cup {NoTab}] /\ budget \in [BoundedEvents -> Nat]
    BY ReleasesAssumption DEF Init
  <1>4. tab \in [Tabs -> Tab] /\ worker \in [Workers -> Worker]
    BY ListingType, WaitingType DEF Init
  <1>5. frozen \subseteq Version /\ overtaken \subseteq Ids /\ strayed \subseteq Servers
    BY DEF Init
  <1> QED BY <1>1, <1>2, <1>3, <1>4, <1>5 DEF TypeOK

LEMMA StutterType ==
  ASSUME TypeOK, UNCHANGED vars PROVE TypeOK'
  BY DEF TypeOK, vars

LEMMA OpenTab ==
  ASSUME TypeOK, NEW c \in Tabs, tab[c].at # "list"
  PROVE  tab[c] \in [at: {"reading", "editing"}, item: Ids, content: Contents]
         /\ tab[c].item \in Ids
  BY DEF TypeOK, Tab, Listing

LEMMA TabType ==
  ASSUME TypeOK, NEW c \in Tabs,
         Heartbeat(c) \/ Save(c) \/ Close(c) \/ \E i \in Ids : Open(c, i)
  PROVE  TypeOK'
  <1> USE DEF TypeOK
  <1>0. tab[c] \in Tab
    OBVIOUS
  <1>1. CASE \E i \in Ids : Open(c, i)
    <2> PICK i \in Ids : Open(c, i)
      BY <1>1
    <2>1. item[i].content \in Contents
      BY DEF Item
    <2>2. [at |-> "reading", item |-> i, content |-> item[i].content] \in Tab
      BY <2>1 DEF Tab
    <2> QED BY <2>2 DEF Open, Shows
  <1>2. CASE Heartbeat(c)
    <2>1. tab[c] \in [at: {"reading", "editing"}, item: Ids, content: Contents]
      BY <1>2, OpenTab DEF Heartbeat
    <2>2. [tab[c] EXCEPT !.at = "editing"] \in Tab /\ [tab[c] EXCEPT !.at = "reading"] \in Tab
      BY <2>1 DEF Tab
    <2>3. tab' \in [Tabs -> Tab]
      BY <1>2, <2>2, ListingType DEF Heartbeat, Shows
    <2>4. lock' \in [Ids -> Tabs \cup {NoTab}]
      BY <1>2 DEF Heartbeat
    <2> QED BY <1>2, <2>3, <2>4 DEF Heartbeat
  <1>3. CASE Save(c)
    <2> PICK new \in Contents \ {tab[c].content} :
           /\ item' = [item EXCEPT ![tab[c].item].content = new]
           /\ Shows(c, [tab[c] EXCEPT !.content = new])
      BY <1>3 DEF Save
    <2>1. item' \in [Ids -> Item]
      BY DEF Item
    <2>2. tab[c] \in [at: {"reading", "editing"}, item: Ids, content: Contents]
      BY <1>3, OpenTab DEF Save
    <2>3. [tab[c] EXCEPT !.content = new] \in Tab
      BY <2>2 DEF Tab
    <2>4. tab' \in [Tabs -> Tab]
      BY <2>3 DEF Shows
    <2>5. budget' \in [BoundedEvents -> Nat]
      BY <1>3, SpendType DEF Save, BoundedEvents
    <2> QED BY <1>3, <2>1, <2>4, <2>5 DEF Save
  <1>4. CASE Close(c)
    <2>1. lock' \in [Ids -> Tabs \cup {NoTab}]
      BY <1>4 DEF Close
    <2> QED BY <1>4, <2>1, ListingType DEF Close, Shows
  <1> QED BY <1>1, <1>2, <1>3, <1>4

LEMMA LapseType ==
  ASSUME TypeOK, NEW i \in Ids, Lapse(i) PROVE TypeOK'
  <1>1. budget' \in [BoundedEvents -> Nat]
    BY SpendType DEF Lapse, BoundedEvents, TypeOK
  <1>2. lock' \in [Ids -> Tabs \cup {NoTab}]
    BY DEF Lapse, TypeOK
  <1> QED BY <1>1, <1>2 DEF Lapse, TypeOK

LEMMA PutType ==
  ASSUME TypeOK, NEW i \in Ids, NEW entry \in Item
  PROVE  [item EXCEPT ![i] = entry] \in [Ids -> Item]
  BY DEF TypeOK

LEMMA BasedOnType ==
  ASSUME TypeOK, NEW src \in Ids
  PROVE  BasedOnFor(src) \in Ids \cup {None}
  BY DEF BasedOnFor, TypeOK, Item

\* A content written to a row is a content.
LEMMA WriteType ==
  ASSUME TypeOK, NEW i \in Ids, NEW c \in Contents
  PROVE  [item EXCEPT ![i].content = c] \in [Ids -> Item]
  BY DEF TypeOK, Item

LEMMA InsertType ==
  ASSUME TypeOK, NEW i \in Ids,
         CreateTemplate(i) \/ \E src \in Ids : CopyTemplate(src, i) \/ ImportCopy(src, i)
  PROVE  TypeOK'
  <1>1. PICK c \in Contents, origin \in Ids \cup {None} :
          Inserts(i, [stage |-> "test", version |-> 0, content |-> c, basedOn |-> origin])
    <2>1. CASE CreateTemplate(i)
      BY <2>1 DEF CreateTemplate, None
    <2>2. ASSUME NEW src \in Ids, CopyTemplate(src, i)
          PROVE  \E c \in Contents, origin \in Ids \cup {None} :
                   Inserts(i, [stage |-> "test", version |-> 0, content |-> c, basedOn |-> origin])
      <3>1. {item[src].content} \cup {v.content : v \in {f \in frozen : f.item = src /\ IsProd(src)}}
              \subseteq Contents
        BY DEF TypeOK, Item, Version
      <3> QED BY <2>2, <3>1, BasedOnType DEF CopyTemplate
    <2>3. ASSUME NEW src \in Ids, ImportCopy(src, i)
          PROVE  \E c \in Contents, origin \in Ids \cup {None} :
                   Inserts(i, [stage |-> "test", version |-> 0, content |-> c, basedOn |-> origin])
      BY <2>3, BasedOnType DEF ImportCopy
    <2> QED BY <2>1, <2>2, <2>3
  <1>2. [stage |-> "test", version |-> 0, content |-> c, basedOn |-> origin] \in Item
    BY DEF Item, Stages
  <1>3. item' \in [Ids -> Item]
    BY <1>1, <1>2, PutType DEF Inserts
  <1>4. budget' \in [BoundedEvents -> Nat]
    BY SpendType DEF CreateTemplate, CopyTemplate, ImportCopy, BoundedEvents, TypeOK
  <1>5. UNCHANGED <<frozen, server, lock, tab, worker, overtaken, strayed>>
    BY DEF CreateTemplate, CopyTemplate, ImportCopy
  <1> QED BY <1>3, <1>4, <1>5 DEF TypeOK

LEMMA ImportType ==
  ASSUME TypeOK, NEW i \in Ids, ImportCreate(i)
  PROVE  TypeOK'
  <1>1. PICK c \in Contents, stage \in {"test", "dev"}, origin \in {j \in Ids : IsProd(j)} \cup {None} :
          \/ /\ Inserts(i, [stage |-> stage, version |-> 0, content |-> c, basedOn |-> origin])
             /\ UNCHANGED frozen
          \/ \E first \in Contents :
               /\ Inserts(i, ProdRow(2, c, origin))
               /\ frozen' = frozen \cup Imported(i, first, c)
    BY DEF ImportCreate
  <1>2. /\ [stage |-> stage, version |-> 0, content |-> c, basedOn |-> origin] \in Item
        /\ ProdRow(2, c, origin) \in Item
    BY DEF Item, Stages, ProdRow
  <1>3. \A first \in Contents : Imported(i, first, c) \subseteq Version
    BY DEF Imported, Version
  <1>4. item' \in [Ids -> Item]
    BY <1>1, <1>2, PutType DEF Inserts
  <1>5. frozen' \subseteq Version
    BY <1>1, <1>3 DEF TypeOK
  <1>6. budget' \in [BoundedEvents -> Nat]
    BY SpendType DEF ImportCreate, BoundedEvents, TypeOK
  <1> QED BY <1>4, <1>5, <1>6 DEF TypeOK, ImportCreate

LEMMA OverwriteType ==
  ASSUME TypeOK, NEW c \in Tabs, NEW i \in Ids, ImportOverwrite(c, i)
  PROVE  TypeOK'
  <1>1. item' \in [Ids -> Item]
    BY WriteType DEF ImportOverwrite
  <1>2. budget' \in [BoundedEvents -> Nat]
    BY SpendType DEF ImportOverwrite, BoundedEvents, TypeOK
  <1> QED BY <1>1, <1>2 DEF TypeOK, ImportOverwrite

-----------------------------------------------------------------------------
(* Types of the releases                                                   *)

LEMMA FreezesType ==
  ASSUME TypeOK, NEW i \in Ids, NEW n \in Nat \ {0}, NEW c \in Contents, Freezes(i, n, c)
  PROVE  frozen' \subseteq Version
  BY DEF Freezes, TypeOK, Version

LEMMA ContentType ==
  ASSUME TypeOK, NEW i \in Ids
  PROVE  item[i] \in Item /\ item[i].content \in Contents
  BY DEF TypeOK, Item

LEMMA PromoteToDevType ==
  ASSUME TypeOK, NEW c \in Tabs, NEW i \in Ids, PromoteToDev(c, i)
  PROVE  TypeOK'
  <1>1. item' \in [Ids -> Item]
    BY DEF PromoteToDev, TypeOK, Item, Stages
  <1>2. budget' \in [BoundedEvents -> Nat]
    BY SpendType DEF PromoteToDev, MayPromote, BoundedEvents, TypeOK
  <1> QED BY <1>1, <1>2 DEF TypeOK, PromoteToDev

LEMMA ProdRowType ==
  ASSUME NEW n \in Nat, NEW c \in Contents, NEW origin \in Ids \cup {None}
  PROVE  ProdRow(n, c, origin) \in Item
  BY DEF ProdRow, Item, Stages

LEMMA PromoteNewType ==
  ASSUME TypeOK, NEW c \in Tabs, NEW i \in Ids, PromoteNew(c, i)
  PROVE  TypeOK'
  <1>1. item' \in [Ids -> Item]
    <2>1. ProdRow(1, item[i].content, None) \in Item
      BY ContentType, ProdRowType
    <2> QED BY <2>1, PutType DEF PromoteNew
  <1>2. frozen' \subseteq Version
    BY FreezesType, ContentType DEF PromoteNew
  <1>3. budget' \in [BoundedEvents -> Nat]
    BY SpendType DEF PromoteNew, MayPromote, BoundedEvents, TypeOK
  <1>4. lock' \in [Ids -> Tabs \cup {NoTab}]
    BY DEF PromoteNew, TypeOK
  <1> QED BY <1>1, <1>2, <1>3, <1>4 DEF TypeOK, PromoteNew

\* What a release into a Prod template writes.
NextHead(i, target) == ProdRow(item[target].version + 1, item[i].content, item[target].basedOn)

LEMMA PromoteIntoRow ==
  ASSUME TypeOK, VersionsRunOn, NEW c \in Tabs, NEW i \in Ids, NEW target \in Ids,
         PromoteInto(c, i, target)
  PROVE  /\ item' = [item EXCEPT ![target] = NextHead(i, target), ![i] = Gone]
         /\ NextHead(i, target) \in Item
         /\ frozen' = frozen \cup {[item |-> target, version |-> item[target].version + 1,
                                    content |-> item[i].content]}
  <1>1. NextVersion(target) = item[target].version + 1 /\ item[target].version \in Nat \ {0}
    BY NextVersionIs DEF PromoteInto
  <1>2. item[target].basedOn \in Ids \cup {None}
    BY ContentType DEF Item
  <1>3. NextHead(i, target) \in Item
    BY <1>1, <1>2, ContentType, ProdRowType DEF NextHead
  <1> QED BY <1>1, <1>3 DEF PromoteInto, Freezes, NextHead

LEMMA PromoteIntoType ==
  ASSUME TypeOK, VersionsRunOn, NEW c \in Tabs, NEW i \in Ids, NEW target \in Ids,
         PromoteInto(c, i, target)
  PROVE  TypeOK'
  <1>1. item' \in [Ids -> Item]
    BY PromoteIntoRow, GoneType DEF TypeOK
  <1>2. item[target].version + 1 \in Nat \ {0}
    BY NextVersionIs DEF PromoteInto
  <1>3. frozen' \subseteq Version
    BY <1>2, PromoteIntoRow, ContentType DEF TypeOK, Version
  <1>4. budget' \in [BoundedEvents -> Nat]
    BY SpendType DEF PromoteInto, MayPromote, BoundedEvents, TypeOK
  <1>5. lock' \in [Ids -> Tabs \cup {NoTab}]
    BY DEF PromoteInto, TypeOK
  <1>6. server' \in [Servers -> Setting]
    BY DEF PromoteInto, Follow, TypeOK, Setting
  <1> QED BY <1>1, <1>3, <1>4, <1>5, <1>6 DEF TypeOK, PromoteInto

-----------------------------------------------------------------------------
(* The worker threads                                                      *)

\* A thread at work has a template, and what else its request names.
WorkersSound ==
  \A w \in Workers :
    /\ worker[w].pc # "idle" => worker[w].item \in Ids
    /\ worker[w].pc = "repoint" => worker[w].server \in Servers
    /\ worker[w].pc = "add" => worker[w].client \in Tabs

LEMMA WorkType ==
  ASSUME TypeOK, WorkersSound, NEW w \in Workers, NEW after \in Worker,
         after.pc # "idle" => after.item \in Ids,
         after.pc = "repoint" => after.server \in Servers,
         after.pc = "add" => after.client \in Tabs,
         Works(w, after)
  PROVE  worker' \in [Workers -> Worker] /\ WorkersSound'
  <1>1. worker' = [worker EXCEPT ![w] = after]
    BY DEF Works
  <1>2. worker' \in [Workers -> Worker]
    BY <1>1 DEF TypeOK
  <1>3. \A u \in Workers : worker'[u] = IF u = w THEN after ELSE worker[u]
    BY <1>1 DEF TypeOK
  <1> QED BY <1>2, <1>3 DEF WorkersSound

LEMMA RestType ==
  ASSUME TypeOK, WorkersSound, NEW w \in Workers, Works(w, Waiting)
  PROVE  worker' \in [Workers -> Worker] /\ WorkersSound'
  <1>1. Waiting.pc = "idle"
    BY DEF Waiting
  <1> QED BY <1>1, WorkType, WaitingType

LEMMA AskDeleteType ==
  ASSUME TypeOK, WorkersSound, NEW w \in Workers, NEW c \in Tabs, NEW i \in Ids, AskDelete(w, c, i)
  PROVE  TypeOK' /\ WorkersSound'
  <1> DEFINE after == [Waiting EXCEPT !.pc = "delete.detach", !.item = i]
  <1>1. after \in Worker /\ after.pc = "delete.detach" /\ after.item = i
    BY WaitingType DEF Waiting, Worker
  <1>2. Works(w, after)
    BY DEF AskDelete
  <1> HIDE DEF after
  <1>3. worker' \in [Workers -> Worker] /\ WorkersSound'
    BY <1>1, <1>2, WorkType
  <1>4. budget' \in [BoundedEvents -> Nat]
    BY SpendType DEF AskDelete, BoundedEvents, TypeOK
  <1> QED BY <1>3, <1>4 DEF TypeOK, AskDelete

LEMMA AddReadType ==
  ASSUME TypeOK, WorkersSound, NEW w \in Workers, NEW c \in Tabs, NEW i \in Ids, AddRead(w, c, i)
  PROVE  TypeOK' /\ WorkersSound'
  <1> DEFINE after == [Waiting EXCEPT !.pc = "add", !.item = i, !.client = c]
  <1>1. after \in Worker /\ after.pc = "add" /\ after.item = i /\ after.client = c
    BY WaitingType DEF Waiting, Worker
  <1>2. Works(w, after)
    BY DEF AddRead
  <1> HIDE DEF after
  <1>3. worker' \in [Workers -> Worker] /\ WorkersSound'
    BY <1>1, <1>2, WorkType
  <1>4. budget' \in [BoundedEvents -> Nat]
    BY SpendType DEF AddRead, BoundedEvents, TypeOK
  <1> QED BY <1>3, <1>4 DEF TypeOK, AddRead

LEMMA RepointReadType ==
  ASSUME TypeOK, WorkersSound, NEW w \in Workers, NEW s \in Servers, NEW i \in Ids,
         NEW pin \in VersionsOf(i) \cup {0}, RepointRead(w, s, i, pin)
  PROVE  TypeOK' /\ WorkersSound'
  <1>1. pin \in Nat
    BY DEF VersionsOf, TypeOK, Version
  <1>2. PICK was \in Setting : was = server[s]
    BY DEF TypeOK
  <1> DEFINE after == [Waiting EXCEPT !.pc = "repoint", !.item = i, !.pin = pin,
                                      !.server = s, !.was = was]
  <1>4. after \in Worker /\ after.pc = "repoint" /\ after.item = i /\ after.server = s
    BY <1>1, <1>2, WaitingType DEF Waiting, Worker
  <1>5. Works(w, after)
    BY <1>2 DEF RepointRead
  <1> HIDE DEF after
  <1>6. worker' \in [Workers -> Worker] /\ WorkersSound'
    BY <1>4, <1>5, WorkType
  <1>7. budget' \in [BoundedEvents -> Nat]
    BY SpendType DEF RepointRead, BoundedEvents, TypeOK
  <1> QED BY <1>6, <1>7 DEF TypeOK, RepointRead

LEMMA DetachType ==
  ASSUME TypeOK, WorkersSound, NEW w \in Workers, Detach(w)
  PROVE  TypeOK' /\ WorkersSound'
  <1> DEFINE after == [worker[w] EXCEPT !.pc = "delete.final"]
  <1>1. worker[w] \in Worker /\ worker[w].pc = "delete.detach"
    BY DEF TypeOK, Detach
  <1>2. after \in Worker /\ after.pc = "delete.final" /\ after.item = worker[w].item
    BY <1>1 DEF Worker
  <1>3. after.item \in Ids
    BY <1>1, <1>2 DEF WorkersSound
  <1>4. Works(w, after)
    BY DEF Detach
  <1> HIDE DEF after
  <1>5. worker' \in [Workers -> Worker] /\ WorkersSound'
    BY <1>2, <1>3, <1>4, WorkType
  <1>6. server' \in [Servers -> Setting]
    BY UnlinkedType DEF Detach
  <1> QED BY <1>5, <1>6 DEF TypeOK, Detach

LEMMA DeleteFinalType ==
  ASSUME TypeOK, WorkersSound, NEW w \in Workers, DeleteFinal(w)
  PROVE  TypeOK' /\ WorkersSound'
  <1>1. worker' \in [Workers -> Worker] /\ WorkersSound'
    BY RestType DEF DeleteFinal
  <1>2. server' \in [Servers -> Setting]
    BY UnlinkedType DEF DeleteFinal, TypeOK
  <1>3. \A j \in Ids : [item[j] EXCEPT !.basedOn = None] \in Item
    BY DEF TypeOK, Item
  <1>4. item' \in [Ids -> Item]
    BY <1>3, GoneType DEF DeleteFinal, TypeOK
  <1>5. frozen' \subseteq Version /\ overtaken' \subseteq Ids
    BY DEF DeleteFinal, TypeOK, VersionsBut
  <1> QED BY <1>1, <1>2, <1>4, <1>5 DEF TypeOK, DeleteFinal

\* What the commit leaves of a server's row: the columns that were to change.
LEMMA RepointCommitType ==
  ASSUME TypeOK, WorkersSound, NEW w \in Workers, RepointCommit(w)
  PROVE  TypeOK' /\ WorkersSound'
  <1>1. worker' \in [Workers -> Worker] /\ WorkersSound'
    BY RestType DEF RepointCommit
  <1>2. worker[w] \in Worker /\ worker[w].item \in Ids /\ worker[w].server \in Servers
    BY DEF RepointCommit, TypeOK, WorkersSound
  <1>3. server' \in [Servers -> Setting]
    <2>1. server[worker[w].server] \in Setting /\ worker[w].pin \in Nat
      BY <1>2 DEF TypeOK, Worker
    <2>2. PICK new \in Setting : server' = [server EXCEPT ![worker[w].server] = new]
      BY <1>2, <2>1 DEF RepointCommit, Setting
    <2> QED BY <2>2 DEF TypeOK
  <1>4. strayed' \subseteq Servers
    BY <1>2 DEF RepointCommit, TypeOK
  <1> QED BY <1>1, <1>3, <1>4 DEF TypeOK, RepointCommit

LEMMA AddCommitType ==
  ASSUME TypeOK, WorkersSound, NEW w \in Workers, AddCommit(w)
  PROVE  TypeOK' /\ WorkersSound'
  <1>1. worker' \in [Workers -> Worker] /\ WorkersSound'
    BY RestType DEF AddCommit
  <1>2. worker[w].item \in Ids
    BY DEF AddCommit, WorkersSound
  <1>3. item' = item \/ \E new \in Contents : item' = [item EXCEPT ![worker[w].item].content = new]
    BY DEF AddCommit
  <1>4. item' \in [Ids -> Item]
    <2>1. CASE item' = item
      BY <2>1 DEF TypeOK
    <2>2. ASSUME NEW new \in Contents, item' = [item EXCEPT ![worker[w].item].content = new]
          PROVE  item' \in [Ids -> Item]
      BY <1>2, <2>2, WriteType
    <2> QED BY <1>3, <2>1, <2>2
  <1>5. overtaken' \subseteq Ids
    BY <1>2 DEF AddCommit, TypeOK
  <1> QED BY <1>1, <1>4, <1>5 DEF TypeOK, AddCommit

-----------------------------------------------------------------------------
(* What a step does to the tables                                          *)

Tables == <<item, frozen, server, overtaken, strayed>>

\* A step that writes the content of at most one row, which is not Prod unless
\* the write is marked.
Writes ==
  \E i \in Ids, c \in Contents :
    /\ item' = [item EXCEPT ![i].content = c]
    /\ IsProd(i) => i \in overtaken'
    /\ overtaken \subseteq overtaken'
    /\ UNCHANGED <<frozen, server, strayed>>

\* A step that adds a row under an id that was free.
Adds ==
  \E i \in Ids, entry \in Item :
    /\ ~Exists(i)
    /\ item' = [item EXCEPT ![i] = entry]
    /\ entry.stage \in {"test", "dev"}
    /\ entry.basedOn # None => IsProd(entry.basedOn)
    /\ UNCHANGED <<frozen, server, overtaken, strayed>>

LEMMA NextIdIsFree ==
  ASSUME NEW i \in Ids, IsNextId(i) PROVE ~Exists(i)
  BY ReleasesAssumption DEF IsNextId, Ids

LEMMA SaveWrites ==
  ASSUME TypeOK, NEW c \in Tabs, Save(c)
  PROVE  Writes
  <1>1. PICK new \in Contents \ {tab[c].content} : item' = [item EXCEPT ![tab[c].item].content = new]
    BY DEF Save
  <1>2. tab[c].item \in Ids
    BY OpenTab DEF Save
  <1> QED BY <1>1, <1>2 DEF Save, Writes

LEMMA OverwriteWrites ==
  ASSUME TypeOK, NEW c \in Tabs, NEW i \in Ids, ImportOverwrite(c, i)
  PROVE  Writes
  BY DEF ImportOverwrite, Writes

LEMMA AddCommitWrites ==
  ASSUME TypeOK, WorkersSound, NEW w \in Workers, AddCommit(w)
  PROVE  Writes \/ UNCHANGED Tables
  <1>1. worker[w].item \in Ids
    BY DEF AddCommit, WorkersSound
  <1>2. CASE Exists(worker[w].item)
    <2>1. PICK new \in Contents : item' = [item EXCEPT ![worker[w].item].content = new]
      BY <1>2 DEF AddCommit
    <2>2. IsProd(worker[w].item) => worker[w].item \in overtaken'
      BY <1>2 DEF AddCommit
    <2>3. overtaken \subseteq overtaken' /\ UNCHANGED <<frozen, server, strayed>>
      BY DEF AddCommit
    <2> QED BY <1>1, <2>1, <2>2, <2>3 DEF Writes
  <1>3. CASE ~Exists(worker[w].item)
    BY <1>3 DEF AddCommit, Tables
  <1> QED BY <1>2, <1>3

LEMMA BasedOnProd ==
  ASSUME TypeOK, OriginsAreProd, NEW src \in Ids, BasedOnFor(src) # None
  PROVE  IsProd(BasedOnFor(src))
  BY DEF BasedOnFor, OriginsAreProd

LEMMA InsertAdds ==
  ASSUME TypeOK, OriginsAreProd, NEW i \in Ids,
         CreateTemplate(i) \/ \E src \in Ids : CopyTemplate(src, i) \/ ImportCopy(src, i)
  PROVE  Adds
  <1> DEFINE Row(c, origin) == [stage |-> "test", version |-> 0, content |-> c, basedOn |-> origin]
  <1>1. \E c \in Contents, origin \in Ids \cup {None} :
          Inserts(i, Row(c, origin)) /\ (origin # None => IsProd(origin))
    <2>1. CASE CreateTemplate(i)
      BY <2>1 DEF CreateTemplate, None
    <2>2. ASSUME NEW src \in Ids, CopyTemplate(src, i) \/ ImportCopy(src, i)
          PROVE  \E c \in Contents, origin \in Ids \cup {None} :
                   Inserts(i, Row(c, origin)) /\ (origin # None => IsProd(origin))
      <3>1. {item[src].content} \cup {v.content : v \in {f \in frozen : f.item = src /\ IsProd(src)}}
              \subseteq Contents
        BY DEF TypeOK, Item, Version
      <3>2. \E c \in Contents : Inserts(i, Row(c, BasedOnFor(src)))
        BY <2>2, <3>1 DEF CopyTemplate, ImportCopy
      <3> QED BY <3>2, BasedOnType, BasedOnProd
    <2> QED BY <2>1, <2>2
  <1>2. PICK c \in Contents, origin \in Ids \cup {None} :
          Inserts(i, Row(c, origin)) /\ (origin # None => IsProd(origin))
    BY <1>1
  <1>3. Row(c, origin) \in Item
    BY DEF Item, Stages
  <1>4. ~Exists(i) /\ UNCHANGED <<frozen, server, overtaken, strayed>>
    BY NextIdIsFree DEF CreateTemplate, CopyTemplate, ImportCopy
  <1>5. item' = [item EXCEPT ![i] = Row(c, origin)]
    BY <1>2 DEF Inserts
  <1> QED BY <1>2, <1>3, <1>4, <1>5 DEF Adds

\* What an import makes of a free id: a row in work, or a Prod one with its
\* two versions.
ImportsProd ==
  \E i \in Ids, c \in Contents, first \in Contents, origin \in Ids \cup {None} :
    /\ ~Exists(i)
    /\ item' = [item EXCEPT ![i] = ProdRow(2, c, origin)]
    /\ origin # None => IsProd(origin)
    /\ frozen' = frozen \cup Imported(i, first, c)
    /\ UNCHANGED <<server, overtaken, strayed>>

LEMMA ImportAdds ==
  ASSUME TypeOK, NEW i \in Ids, ImportCreate(i)
  PROVE  Adds \/ ImportsProd
  <1> DEFINE Row(c, stage, origin) ==
               [stage |-> stage, version |-> 0, content |-> c, basedOn |-> origin]
  <1>1. PICK c \in Contents, stage \in {"test", "dev"}, origin \in {j \in Ids : IsProd(j)} \cup {None} :
          \/ Inserts(i, Row(c, stage, origin)) /\ UNCHANGED frozen
          \/ \E first \in Contents : /\ Inserts(i, ProdRow(2, c, origin))
                                     /\ frozen' = frozen \cup Imported(i, first, c)
    BY DEF ImportCreate
  <1>2. ~Exists(i) /\ UNCHANGED <<server, overtaken, strayed>>
    BY NextIdIsFree DEF ImportCreate
  <1>3. origin \in Ids \cup {None} /\ (origin # None => IsProd(origin))
    BY <1>1
  <1>4. CASE Inserts(i, Row(c, stage, origin)) /\ UNCHANGED frozen
    <2>1. Row(c, stage, origin) \in Item
      BY <1>3 DEF Item, Stages
    <2> QED BY <1>2, <1>3, <1>4, <2>1 DEF Adds, Inserts
  <1>5. ASSUME NEW first \in Contents, Inserts(i, ProdRow(2, c, origin)),
               frozen' = frozen \cup Imported(i, first, c)
        PROVE  ImportsProd
    BY <1>2, <1>3, <1>5 DEF ImportsProd, Inserts
  <1> QED BY <1>1, <1>4, <1>5

-----------------------------------------------------------------------------
(* The inductive invariant                                                 *)

Inv == /\ TypeOK
       /\ WorkersSound
       /\ VersionsRunOn
       /\ HeadIsLatest
       /\ OriginsAreProd
       /\ ServersHaveTargets

\* What the four table invariants say, one row at a time.
Sound == VersionsRunOn /\ HeadIsLatest /\ OriginsAreProd /\ ServersHaveTargets

LEMMA RunAt ==
  ASSUME VersionsRunOn, NEW j \in Ids
  PROVE  IF IsProd(j) THEN item[j].version # 0 /\ Numbers(frozen, j) = 1..item[j].version
         ELSE Numbers(frozen, j) = {}
  BY VersionsAreNumbers DEF VersionsRunOn

LEMMA KeepVersions ==
  ASSUME VersionsRunOn, frozen' = frozen,
         \A j \in Ids : /\ IsProd(j)' <=> IsProd(j)
                        /\ IsProd(j) => item'[j].version = item[j].version
  PROVE  VersionsRunOn'
  BY DEF VersionsRunOn, VersionsOf

LEMMA KeepHeads ==
  ASSUME HeadIsLatest, frozen \subseteq frozen',
         \A j \in Ids \ overtaken' : IsProd(j)' =>
           /\ j \notin overtaken
           /\ IsProd(j)
           /\ item'[j].version = item[j].version
           /\ item'[j].content = item[j].content
  PROVE  HeadIsLatest'
  BY DEF HeadIsLatest

LEMMA KeepOrigins ==
  ASSUME OriginsAreProd,
         \A j \in Ids : IsProd(j) => IsProd(j)',
         \A j \in Ids : item'[j].basedOn \in {None, item[j].basedOn},
         \A j \in Ids : item[j].basedOn \in Ids \cup {None}
  PROVE  OriginsAreProd'
  BY DEF OriginsAreProd, IsProd

LEMMA KeepTargets ==
  ASSUME ServersHaveTargets, strayed \subseteq strayed', server' = server,
         server \in [Servers -> Setting], frozen \subseteq frozen',
         \A j \in Ids : (Exists(j) => Exists(j)') /\ (IsProd(j) => IsProd(j)')
  PROVE  ServersHaveTargets'
  <1> SUFFICES ASSUME NEW s \in Servers \ strayed', server[s].template # None
               PROVE  /\ Exists(server[s].template)'
                      /\ server[s].pin # 0 => /\ IsProd(server[s].template)'
                                              /\ server[s].pin \in VersionsOf(server[s].template)'
    BY DEF ServersHaveTargets, Exists, IsProd, VersionsOf
  <1>1. server[s].template \in Ids
    BY DEF Setting
  <1>2. /\ Exists(server[s].template)
        /\ server[s].pin # 0 => /\ IsProd(server[s].template)
                                /\ server[s].pin \in VersionsOf(server[s].template)
    BY DEF ServersHaveTargets
  <1>3. VersionsOf(server[s].template) \subseteq VersionsOf(server[s].template)'
    BY DEF VersionsOf
  <1> QED BY <1>1, <1>2, <1>3

LEMMA InitSound == Init => Sound
  <1> SUFFICES ASSUME Init PROVE Sound
    OBVIOUS
  <1>1. \A i \in Ids : /\ item[i].stage \in {"gone", "dev"}
                       /\ item[i].basedOn = None
    BY GoneType DEF Init
  <1>2. \A i \in Ids : VersionsOf(i) = {}
    BY DEF Init, VersionsOf
  <1>3. VersionsRunOn
    BY <1>1, <1>2 DEF VersionsRunOn, IsProd, Init
  <1>4. HeadIsLatest /\ OriginsAreProd
    BY <1>1 DEF HeadIsLatest, OriginsAreProd, IsProd
  <1>5. ServersHaveTargets
    <2>1. \A s \in Servers : /\ server[s].template \in {i \in Ids : Exists(i)} \cup {None}
                             /\ server[s].pin = 0
      BY DEF Init
    <2> QED BY <2>1 DEF ServersHaveTargets
  <1> QED BY <1>3, <1>4, <1>5 DEF Sound

LEMMA SameSound ==
  ASSUME Sound, UNCHANGED Tables
  PROVE  Sound'
  BY DEF Sound, Tables, VersionsRunOn, HeadIsLatest, OriginsAreProd, ServersHaveTargets,
         Exists, IsProd, VersionsOf

\* A write to a row in work touches nothing that is released.
LEMMA WritesSound ==
  ASSUME TypeOK, Sound, Writes
  PROVE  Sound'
  <1>1. PICK i \in Ids, c \in Contents :
          /\ item' = [item EXCEPT ![i].content = c]
          /\ IsProd(i) => i \in overtaken'
          /\ overtaken \subseteq overtaken'
          /\ UNCHANGED <<frozen, server, strayed>>
    BY DEF Writes
  <1>2. \A j \in Ids : /\ item'[j].stage = item[j].stage
                       /\ item'[j].version = item[j].version
                       /\ item'[j].basedOn = item[j].basedOn
                       /\ item[j].basedOn \in Ids \cup {None}
                       /\ j # i => item'[j].content = item[j].content
    BY <1>1 DEF TypeOK, Item
  <1>3. VersionsRunOn'
    BY <1>1, <1>2, KeepVersions DEF Sound, IsProd
  <1>4. HeadIsLatest'
    BY <1>1, <1>2, KeepHeads DEF Sound, IsProd
  <1>5. OriginsAreProd'
    BY <1>2, KeepOrigins DEF Sound, IsProd
  <1>6. ServersHaveTargets'
    BY <1>1, <1>2, KeepTargets DEF Sound, IsProd, Exists, TypeOK
  <1> QED BY <1>3, <1>4, <1>5, <1>6 DEF Sound

\* A new row in work is nobody's origin and nobody's template yet.
LEMMA AddsSound ==
  ASSUME TypeOK, Sound, Adds
  PROVE  Sound'
  <1>1. PICK i \in Ids, entry \in Item :
          /\ ~Exists(i)
          /\ item' = [item EXCEPT ![i] = entry]
          /\ entry.stage \in {"test", "dev"}
          /\ entry.basedOn # None => IsProd(entry.basedOn)
          /\ UNCHANGED <<frozen, server, overtaken, strayed>>
    BY DEF Adds
  <1>2. \A j \in Ids : item'[j] = IF j = i THEN entry ELSE item[j]
    BY <1>1 DEF TypeOK
  <1>3. \A j \in Ids : IsProd(j)' <=> IsProd(j)
    BY <1>1, <1>2 DEF IsProd, Exists
  <1>4. VersionsRunOn'
    BY <1>1, <1>2, <1>3, KeepVersions DEF Sound, IsProd, Exists
  <1>5. HeadIsLatest'
    BY <1>1, <1>2, <1>3, KeepHeads DEF Sound, IsProd, Exists
  <1>6. OriginsAreProd'
    <2>1. entry.basedOn \in Ids \cup {None}
      BY DEF Item
    <2>2. \A j \in Ids : item[j].basedOn \in Ids \cup {None}
      BY DEF TypeOK, Item
    <2>3. \A j \in Ids : item[j].basedOn # None => IsProd(item[j].basedOn)
      BY DEF Sound, OriginsAreProd
    <2> QED BY <1>1, <1>2, <1>3, <2>1, <2>2, <2>3 DEF OriginsAreProd, IsProd
  <1>7. ServersHaveTargets'
    BY <1>1, <1>2, <1>3, KeepTargets DEF Sound, Exists, TypeOK
  <1> QED BY <1>4, <1>5, <1>6, <1>7 DEF Sound

\* An imported Prod template brings the versions 1 and 2, of which 2 is its head.
LEMMA ImportsProdSound ==
  ASSUME TypeOK, Sound, ImportsProd
  PROVE  Sound'
  <1>1. PICK i \in Ids, c \in Contents, first \in Contents, origin \in Ids \cup {None} :
          /\ ~Exists(i)
          /\ item' = [item EXCEPT ![i] = ProdRow(2, c, origin)]
          /\ origin # None => IsProd(origin)
          /\ frozen' = frozen \cup Imported(i, first, c)
          /\ UNCHANGED <<server, overtaken, strayed>>
    BY DEF ImportsProd
  <1> DEFINE v1 == [item |-> i, version |-> 1, content |-> first]
             v2 == [item |-> i, version |-> 2, content |-> c]
  <1>2. \A j \in Ids : item'[j] = IF j = i THEN ProdRow(2, c, origin) ELSE item[j]
    BY <1>1 DEF TypeOK
  <1>3. /\ ProdRow(2, c, origin).stage = "prod"
        /\ ProdRow(2, c, origin).version = 2
        /\ ProdRow(2, c, origin).content = c
        /\ ProdRow(2, c, origin).basedOn = origin
    BY DEF ProdRow
  <1>4. ~IsProd(i)
    BY <1>1 DEF IsProd, Exists
  <1>5. frozen' = (frozen \cup {v1}) \cup {v2}
    BY <1>1 DEF Imported
  <1>6. RunsTo(frozen, i, 0) /\ Unique(frozen)
    BY <1>4, VersionsAreNumbers DEF Sound, VersionsRunOn, Unique, RunsTo
  <1>7. VersionsRunOn'
    <2> DEFINE H == frozen \cup {v1}
    <2>1. Grown(frozen, H, i, 1, first) /\ Grown(H, frozen', i, 2, c)
      BY <1>5 DEF Grown
    <2> HIDE DEF H
    <2>2. 1 = 0 + 1 /\ 2 = 1 + 1 /\ 0 \in Nat /\ 1 \in Nat
      OBVIOUS
    <2>3. /\ Unique(H) /\ RunsTo(H, i, 1)
          /\ \A j : j # i => Numbers(H, j) = Numbers(frozen, j)
      BY <1>6, <2>1, <2>2, RunGrows
    <2>4. /\ Unique(frozen') /\ RunsTo(frozen', i, 2)
          /\ \A j : j # i => Numbers(frozen', j) = Numbers(H, j)
      BY <2>1, <2>2, <2>3, RunGrows
    <2>5. \A j \in Ids : IF IsProd(j)' THEN item'[j].version # 0
                                            /\ Numbers(frozen', j) = 1..item'[j].version
                         ELSE Numbers(frozen', j) = {}
      <3> TAKE j \in Ids
      <3>1. CASE j = i
        <4>1. item'[j].version = 2 /\ IsProd(j)'
          BY <1>2, <1>3, <3>1 DEF IsProd
        <4>2. Numbers(frozen', j) = 1..2
          BY <2>4, <3>1 DEF RunsTo
        <4> QED BY <4>1, <4>2
      <3>2. CASE j # i
        <4>1. item'[j] = item[j] /\ Numbers(frozen', j) = Numbers(frozen, j)
          BY <1>2, <2>3, <2>4, <3>2
        <4> QED BY <4>1, RunAt DEF Sound, IsProd
      <3> QED BY <3>1, <3>2
    <2> QED BY <2>4, <2>5, VersionsAreNumbersNext DEF VersionsRunOn, Unique
  <1>8. HeadIsLatest'
    <2> SUFFICES ASSUME NEW j \in Ids \ overtaken', IsProd(j)'
                 PROVE  [item |-> j, version |-> item'[j].version, content |-> item'[j].content]
                          \in frozen'
      BY DEF HeadIsLatest
    <2>1. CASE j = i
      BY <1>2, <1>3, <1>5, <2>1
    <2>2. CASE j # i
      BY <1>1, <1>2, <1>5, <2>2 DEF Sound, HeadIsLatest, IsProd
    <2> QED BY <2>1, <2>2
  <1>9. OriginsAreProd'
    <2> SUFFICES ASSUME NEW j \in Ids, item'[j].basedOn # None
                 PROVE  item'[item'[j].basedOn].stage = "prod"
      BY DEF OriginsAreProd, IsProd
    <2>1. IsProd(item'[j].basedOn) /\ item'[j].basedOn \in Ids
      BY <1>1, <1>2, <1>3 DEF Sound, OriginsAreProd, TypeOK, Item
    <2> QED BY <1>2, <1>4, <2>1 DEF IsProd
  <1>10. ServersHaveTargets'
    <2>1. \A j \in Ids : (Exists(j) => Exists(j)') /\ (IsProd(j) => IsProd(j)')
      BY <1>1, <1>2, <1>3 DEF Exists, IsProd
    <2> QED BY <1>1, <1>5, <2>1, KeepTargets DEF Sound, TypeOK
  <1> QED BY <1>7, <1>8, <1>9, <1>10 DEF Sound

LEMMA PromoteToDevSound ==
  ASSUME TypeOK, Sound, NEW c \in Tabs, NEW i \in Ids, PromoteToDev(c, i)
  PROVE  Sound'
  <1>1. \A j \in Ids : /\ j # i => item'[j].stage = item[j].stage
                       /\ item'[j].version = item[j].version
                       /\ item'[j].basedOn = item[j].basedOn
                       /\ item[j].basedOn \in Ids \cup {None}
                       /\ item'[j].content = item[j].content
    BY DEF PromoteToDev, TypeOK, Item
  <1>2. item[i].stage = "test" /\ item'[i].stage = "dev"
    BY DEF PromoteToDev, TypeOK, Item
  <1>3. \A j \in Ids : (IsProd(j)' <=> IsProd(j)) /\ (Exists(j)' <=> Exists(j))
    BY <1>1, <1>2 DEF IsProd, Exists
  <1>4. UNCHANGED <<frozen, server, overtaken, strayed>>
    BY DEF PromoteToDev
  <1>5. VersionsRunOn'
    BY <1>1, <1>3, <1>4, KeepVersions DEF Sound
  <1>6. HeadIsLatest'
    BY <1>1, <1>3, <1>4, KeepHeads DEF Sound
  <1>7. OriginsAreProd'
    BY <1>1, <1>3, KeepOrigins DEF Sound
  <1>8. ServersHaveTargets'
    BY <1>3, <1>4, KeepTargets DEF Sound, TypeOK
  <1> QED BY <1>5, <1>6, <1>7, <1>8 DEF Sound

\* The first version of a template that had none.
LEMMA PromoteNewSound ==
  ASSUME TypeOK, Sound, NEW c \in Tabs, NEW i \in Ids, PromoteNew(c, i)
  PROVE  Sound'
  <1> DEFINE entry == ProdRow(1, item[i].content, None)
             v1 == [item |-> i, version |-> 1, content |-> item[i].content]
  <1>1. \A j \in Ids : item'[j] = IF j = i THEN entry ELSE item[j]
    BY DEF PromoteNew, TypeOK
  <1>2. /\ entry.stage = "prod" /\ entry.version = 1
        /\ entry.content = item[i].content /\ entry.basedOn = None
    BY DEF ProdRow
  <1>3. ~IsProd(i) /\ Exists(i)
    BY DEF IsProd, Exists, PromoteNew
  <1>4. frozen' = frozen \cup {v1} /\ UNCHANGED <<server, overtaken, strayed>>
    BY DEF PromoteNew, Freezes
  <1>5. RunsTo(frozen, i, 0) /\ Unique(frozen)
    BY <1>3, VersionsAreNumbers DEF Sound, VersionsRunOn, Unique, RunsTo
  <1> HIDE DEF entry
  <1>6. VersionsRunOn'
    <2>1. Grown(frozen, frozen', i, 1, item[i].content) /\ 1 = 0 + 1 /\ 0 \in Nat
      BY <1>4 DEF Grown
    <2>2. /\ Unique(frozen') /\ RunsTo(frozen', i, 1)
          /\ \A j : j # i => Numbers(frozen', j) = Numbers(frozen, j)
      BY <1>5, <2>1, RunGrows
    <2>3. \A j \in Ids : IF IsProd(j)' THEN item'[j].version # 0
                                            /\ Numbers(frozen', j) = 1..item'[j].version
                         ELSE Numbers(frozen', j) = {}
      <3> TAKE j \in Ids
      <3>1. CASE j = i
        <4>1. item'[j].version = 1 /\ IsProd(j)'
          BY <1>1, <1>2, <3>1 DEF IsProd
        <4>2. Numbers(frozen', j) = 1..1
          BY <2>2, <3>1 DEF RunsTo
        <4> QED BY <4>1, <4>2
      <3>2. CASE j # i
        <4>1. item'[j] = item[j] /\ Numbers(frozen', j) = Numbers(frozen, j)
          BY <1>1, <2>2, <3>2
        <4> QED BY <4>1, RunAt DEF Sound, IsProd
      <3> QED BY <3>1, <3>2
    <2> QED BY <2>2, <2>3, VersionsAreNumbersNext DEF VersionsRunOn, Unique
  <1>7. HeadIsLatest'
    <2> SUFFICES ASSUME NEW j \in Ids \ overtaken', IsProd(j)'
                 PROVE  [item |-> j, version |-> item'[j].version, content |-> item'[j].content]
                          \in frozen'
      BY DEF HeadIsLatest
    <2>1. CASE j = i
      BY <1>1, <1>2, <1>4, <2>1
    <2>2. CASE j # i
      BY <1>1, <1>4, <2>2 DEF Sound, HeadIsLatest, IsProd
    <2> QED BY <2>1, <2>2
  <1>8. \A j \in Ids : (IsProd(j) => IsProd(j)') /\ (Exists(j) => Exists(j)')
    BY <1>1, <1>2 DEF IsProd, Exists
  <1>9. OriginsAreProd'
    <2>1. \A j \in Ids : /\ item'[j].basedOn \in {None, item[j].basedOn}
                         /\ item[j].basedOn \in Ids \cup {None}
      BY <1>1, <1>2 DEF TypeOK, Item
    <2> QED BY <1>8, <2>1, KeepOrigins DEF Sound
  <1>10. ServersHaveTargets'
    BY <1>4, <1>8, KeepTargets DEF Sound, TypeOK
  <1> QED BY <1>6, <1>7, <1>9, <1>10 DEF Sound

\* The row released into another one had no version, so a server that follows
\* it there has no pin; the target gets its next version, which is its head.
LEMMA PromoteIntoSound ==
  ASSUME TypeOK, Sound, NEW c \in Tabs, NEW i \in Ids, NEW target \in Ids,
         PromoteInto(c, i, target)
  PROVE  Sound'
  <1> DEFINE n == item[target].version
             v == [item |-> target, version |-> n + 1, content |-> item[i].content]
  <1>1. /\ item' = [item EXCEPT ![target] = NextHead(i, target), ![i] = Gone]
        /\ NextHead(i, target) \in Item
        /\ frozen' = frozen \cup {v}
    BY PromoteIntoRow DEF Sound
  <1>2. /\ NextHead(i, target).stage = "prod"
        /\ NextHead(i, target).version = n + 1
        /\ NextHead(i, target).content = item[i].content
        /\ NextHead(i, target).basedOn = item[target].basedOn
    BY DEF NextHead, ProdRow
  <1>3. target # i /\ IsProd(target) /\ item[i].stage = "dev" /\ ~IsProd(i)
    BY DEF PromoteInto, IsProd
  <1>4. \A j \in Ids : item'[j] = IF j = i THEN Gone
                                  ELSE IF j = target THEN NextHead(i, target) ELSE item[j]
    BY <1>1, <1>3 DEF TypeOK
  <1>5. n \in Nat /\ n + 1 # 0 /\ VersionsOf(target) = 1..n
    BY <1>3, NextVersionIs DEF Sound
  <1>6. UNCHANGED strayed /\ overtaken' = overtaken \ {i, target}
        /\ server' = Follow(i, target)
    BY DEF PromoteInto
  <1>7. VersionsRunOn'
    <2>1. Grown(frozen, frozen', target, n + 1, item[i].content)
      BY <1>1 DEF Grown
    <2>2. Unique(frozen) /\ RunsTo(frozen, target, n)
      BY <1>5, VersionsAreNumbers DEF Sound, VersionsRunOn, Unique, RunsTo
    <2>3. /\ Unique(frozen') /\ RunsTo(frozen', target, n + 1)
          /\ \A j : j # target => Numbers(frozen', j) = Numbers(frozen, j)
      <3> HIDE DEF n
      <3>1. PICK m : m = n + 1
        OBVIOUS
      <3> QED BY <1>5, <2>1, <2>2, <3>1, RunGrows
    <2>4. \A j \in Ids : IF IsProd(j)' THEN item'[j].version # 0
                                            /\ Numbers(frozen', j) = 1..item'[j].version
                         ELSE Numbers(frozen', j) = {}
      <3> TAKE j \in Ids
      <3>1. CASE j = target
        <4>1. item'[j].version = n + 1 /\ IsProd(j)'
          BY <1>2, <1>3, <1>4, <3>1 DEF IsProd
        <4>2. Numbers(frozen', j) = 1..(n + 1)
          BY <2>3, <3>1 DEF RunsTo
        <4> QED BY <1>5, <4>1, <4>2
      <3>2. CASE j = i
        <4>1. Numbers(frozen', j) = {}
          BY <1>3, <2>3, <3>2, RunAt DEF Sound
        <4>2. ~IsProd(j)'
          BY <1>4, <3>2, GoneType DEF IsProd
        <4> QED BY <4>1, <4>2
      <3>3. CASE j # i /\ j # target
        <4>1. item'[j] = item[j] /\ Numbers(frozen', j) = Numbers(frozen, j)
          BY <1>4, <2>3, <3>3
        <4> QED BY <4>1, RunAt DEF Sound, IsProd
      <3> QED BY <3>1, <3>2, <3>3
    <2> QED BY <2>3, <2>4, VersionsAreNumbersNext DEF VersionsRunOn, Unique
  <1>8. HeadIsLatest'
    <2> SUFFICES ASSUME NEW j \in Ids \ overtaken', IsProd(j)'
                 PROVE  [item |-> j, version |-> item'[j].version, content |-> item'[j].content]
                          \in frozen'
      BY DEF HeadIsLatest
    <2>1. CASE j = target
      BY <1>1, <1>2, <1>3, <1>4, <2>1
    <2>2. CASE j = i
      BY <1>4, <2>2, GoneType DEF IsProd
    <2>3. CASE j # i /\ j # target
      <3>1. item'[j] = item[j] /\ j \notin overtaken /\ IsProd(j)
        BY <1>4, <1>6, <2>3 DEF IsProd
      <3>2. [item |-> j, version |-> item[j].version, content |-> item[j].content] \in frozen
        BY <3>1 DEF Sound, HeadIsLatest
      <3> QED BY <1>1, <3>1, <3>2
    <2> QED BY <2>1, <2>2, <2>3
  <1>9. \A j \in Ids : IsProd(j) => IsProd(j)'
    BY <1>2, <1>3, <1>4 DEF IsProd
  <1>10. OriginsAreProd'
    <2>1. \A j \in Ids : /\ item'[j].basedOn \in {None, item[j].basedOn}
                         /\ item[j].basedOn \in Ids \cup {None}
      BY <1>2, <1>4, GoneType DEF TypeOK, Item
    <2> QED BY <1>9, <2>1, KeepOrigins DEF Sound
  <1>11. ServersHaveTargets'
    <2> SUFFICES ASSUME NEW s \in Servers \ strayed', server'[s].template # None
                 PROVE  /\ item'[server'[s].template].stage # "gone"
                        /\ server'[s].pin # 0 =>
                             /\ item'[server'[s].template].stage = "prod"
                             /\ server'[s].pin \in Numbers(frozen', server'[s].template)
      BY VersionsAreNumbersNext DEF ServersHaveTargets, Exists, IsProd
    <2>1. server[s] \in Setting /\ s \notin strayed
      BY <1>6 DEF TypeOK
    <2>2. server[s].template # None =>
            /\ server[s].template \in Ids
            /\ Exists(server[s].template)
            /\ server[s].pin # 0 => /\ IsProd(server[s].template)
                                    /\ server[s].pin \in Numbers(frozen, server[s].template)
      BY <2>1, VersionsAreNumbers DEF Sound, ServersHaveTargets, Setting
    <2>3. CASE server[s].template = i
      <3>1. server'[s].template = target /\ server'[s].pin = server[s].pin
        BY <1>6, <2>1, <2>3 DEF Follow, Setting
      <3>2. server[s].pin = 0
        BY <1>3, <2>2, <2>3 DEF None, Ids
      <3> QED BY <1>2, <1>3, <1>4, <3>1, <3>2
    <2>4. CASE server[s].template # i
      <3>1. server'[s] = server[s]
        BY <1>6, <2>4 DEF Follow
      <3>2. \A k \in Ids : Numbers(frozen, k) \subseteq Numbers(frozen', k)
        BY <1>1 DEF Numbers
      <3>3. item'[server[s].template].stage # "gone"
        BY <1>2, <1>4, <2>2, <2>4, <3>1 DEF Exists
      <3>4. IsProd(server[s].template) => item'[server[s].template].stage = "prod"
        BY <1>2, <1>4, <2>2, <2>4, <3>1 DEF IsProd
      <3> QED BY <2>2, <3>1, <3>2, <3>3, <3>4
    <2> QED BY <2>3, <2>4
  <1> QED BY <1>7, <1>8, <1>10, <1>11 DEF Sound

\* Servers that lose their template have no target to lose.
LEMMA UnlinkedTargets ==
  ASSUME TypeOK, Sound, NEW w \in Workers, Detach(w)
  PROVE  Sound'
  <1>1. UNCHANGED <<item, frozen, overtaken, strayed>> /\ server' = Unlinked(worker[w].item)
    BY DEF Detach
  <1>2. \A s \in Servers : server'[s].template = None \/ server'[s] = server[s]
    BY <1>1 DEF Unlinked, Unset
  <1>3. VersionsRunOn' /\ HeadIsLatest' /\ OriginsAreProd'
    BY <1>1 DEF Sound, VersionsRunOn, HeadIsLatest, OriginsAreProd, IsProd, VersionsOf
  <1>4. ServersHaveTargets'
    BY <1>1, <1>2 DEF Sound, ServersHaveTargets, Exists, IsProd, VersionsOf
  <1> QED BY <1>3, <1>4 DEF Sound

\* A deletion takes the versions, the servers and the copies' origin with it.
LEMMA DeleteFinalSound ==
  ASSUME TypeOK, WorkersSound, Sound, NEW w \in Workers, DeleteFinal(w), Exists(worker[w].item)
  PROVE  Sound'
  <1>1. PICK i \in Ids : i = worker[w].item
    BY DEF WorkersSound, DeleteFinal
  <1>2. /\ server' = Unlinked(i) /\ frozen' = VersionsBut(i)
        /\ overtaken' = overtaken \ {i} /\ UNCHANGED strayed
        /\ item' = [j \in Ids |-> IF j = i THEN Gone
                                  ELSE IF item[j].basedOn = i
                                       THEN [item[j] EXCEPT !.basedOn = None] ELSE item[j]]
    BY <1>1 DEF DeleteFinal
  <1>3. \A j \in Ids : j # i => /\ item'[j].stage = item[j].stage
                                /\ item'[j].version = item[j].version
                                /\ item'[j].content = item[j].content
                                /\ item[j].basedOn # i => item'[j].basedOn = item[j].basedOn
                                /\ item[j].basedOn = i => item'[j].basedOn = None
    BY <1>2 DEF TypeOK, Item
  <1>4. item'[i] = Gone
    BY <1>2
  <1>5. \A j \in Ids : j # i => (IsProd(j)' <=> IsProd(j)) /\ (Exists(j)' <=> Exists(j))
    BY <1>3 DEF IsProd, Exists
  <1>6. ~IsProd(i)'
    BY <1>4, GoneType DEF IsProd
  <1>7. /\ Numbers(frozen', i) = {}
        /\ \A j : j # i => Numbers(frozen', j) = Numbers(frozen, j)
    <2>1. frozen' = {v \in frozen : v.item # i}
      BY <1>2 DEF VersionsBut
    <2>2. Numbers(frozen', i) = {}
      BY <2>1 DEF Numbers
    <2>3. ASSUME NEW j, j # i
          PROVE  Numbers(frozen', j) = Numbers(frozen, j)
      BY <2>1, <2>3 DEF Numbers
    <2> QED BY <2>2, <2>3
  <1>8. VersionsRunOn'
    <2>1. Unique(frozen')
      BY <1>2 DEF Sound, VersionsRunOn, Unique, VersionsBut
    <2>2. \A j \in Ids : IF IsProd(j)' THEN item'[j].version # 0
                                            /\ Numbers(frozen', j) = 1..item'[j].version
                         ELSE Numbers(frozen', j) = {}
      <3> TAKE j \in Ids
      <3>1. CASE j = i
        BY <1>6, <1>7, <3>1
      <3>2. CASE j # i
        <4>1. item'[j].version = item[j].version /\ Numbers(frozen', j) = Numbers(frozen, j)
          BY <1>3, <1>7, <3>2
        <4> QED BY <1>5, <3>2, <4>1, RunAt DEF Sound
      <3> QED BY <3>1, <3>2
    <2> QED BY <2>1, <2>2, VersionsAreNumbersNext DEF VersionsRunOn, Unique
  <1>9. HeadIsLatest'
    <2> SUFFICES ASSUME NEW j \in Ids \ overtaken', IsProd(j)'
                 PROVE  [item |-> j, version |-> item'[j].version, content |-> item'[j].content]
                          \in frozen'
      BY DEF HeadIsLatest
    <2>1. j # i /\ j \notin overtaken /\ IsProd(j)
      BY <1>2, <1>5, <1>6
    <2>2. [item |-> j, version |-> item[j].version, content |-> item[j].content] \in frozen
      BY <2>1 DEF Sound, HeadIsLatest
    <2> QED BY <1>2, <1>3, <2>1, <2>2 DEF VersionsBut
  <1>10. OriginsAreProd'
    <2> SUFFICES ASSUME NEW j \in Ids, item'[j].basedOn # None
                 PROVE  item'[item'[j].basedOn].stage = "prod"
      BY DEF OriginsAreProd, IsProd
    <2>1. j # i /\ item[j].basedOn # i /\ item'[j].basedOn = item[j].basedOn
      BY <1>3, <1>4, GoneType
    <2>2. IsProd(item[j].basedOn) /\ item[j].basedOn \in Ids
      BY <2>1 DEF Sound, OriginsAreProd, TypeOK, Item
    <2> QED BY <1>3, <2>1, <2>2 DEF IsProd
  <1>11. ServersHaveTargets'
    <2> SUFFICES ASSUME NEW s \in Servers \ strayed', server'[s].template # None
                 PROVE  /\ item'[server'[s].template].stage # "gone"
                        /\ server'[s].pin # 0 =>
                             /\ item'[server'[s].template].stage = "prod"
                             /\ server'[s].pin \in Numbers(frozen', server'[s].template)
      BY VersionsAreNumbersNext DEF ServersHaveTargets, Exists, IsProd
    <2>1. server'[s] = server[s] /\ server[s].template # i
      BY <1>2 DEF Unlinked, Unset
    <2>2. /\ server[s].template \in Ids
          /\ Exists(server[s].template)
          /\ server[s].pin # 0 => /\ IsProd(server[s].template)
                                  /\ server[s].pin \in Numbers(frozen, server[s].template)
      BY <1>2, <2>1, VersionsAreNumbers DEF Sound, ServersHaveTargets, TypeOK, Setting
    <2>3. Numbers(frozen', server[s].template) = Numbers(frozen, server[s].template)
      BY <1>7, <2>1
    <2> QED BY <1>3, <2>1, <2>2, <2>3 DEF Exists, IsProd
  <1> QED BY <1>8, <1>9, <1>10, <1>11 DEF Sound

\* A server gets what was checked, or is one that strayed.
LEMMA RepointCommitSound ==
  ASSUME TypeOK, WorkersSound, Sound, NEW w \in Workers, RepointCommit(w)
  PROVE  Sound'
  <1>1. PICK r \in Servers : r = worker[w].server
    BY DEF WorkersSound, RepointCommit
  <1> DEFINE i   == worker[w].item
             pin == worker[w].pin
             new == [template |-> IF worker[w].was.template = i THEN server[r].template ELSE i,
                     pin      |-> IF worker[w].was.pin = pin THEN server[r].pin ELSE pin]
  <1>2. UNCHANGED <<item, frozen, overtaken>>
    BY DEF RepointCommit
  <1>3. server' = [server EXCEPT ![r] = new]
    BY <1>1 DEF RepointCommit
  <1>4. strayed \subseteq strayed' /\ (r \notin strayed' =>
          Exists(i) /\ Pinnable(i, pin) /\ server[r] = worker[w].was)
    BY <1>1 DEF RepointCommit
  <1>5. VersionsRunOn' /\ HeadIsLatest' /\ OriginsAreProd'
    BY <1>2 DEF Sound, VersionsRunOn, HeadIsLatest, OriginsAreProd, IsProd, VersionsOf
  <1>6. ServersHaveTargets'
    <2> SUFFICES ASSUME NEW s \in Servers \ strayed', server'[s].template # None
                 PROVE  /\ Exists(server'[s].template)
                        /\ server'[s].pin # 0 =>
                             /\ IsProd(server'[s].template)
                             /\ server'[s].pin \in VersionsOf(server'[s].template)
      BY <1>2 DEF ServersHaveTargets, Exists, IsProd, VersionsOf
    <2>1. CASE s = r
      <3>1. server[r] = worker[w].was /\ Exists(i) /\ Pinnable(i, pin)
        BY <1>4, <2>1
      <3>2. server'[r] = new
        BY <1>3 DEF TypeOK
      <3>3. new.template = i /\ new.pin = pin
        BY <3>1
      <3> HIDE DEF new
      <3> QED BY <2>1, <3>1, <3>2, <3>3 DEF Pinnable
    <2>2. CASE s # r
      <3>1. server'[s] = server[s] /\ s \notin strayed
        BY <1>3, <1>4, <2>2 DEF TypeOK
      <3> QED BY <3>1 DEF Sound, ServersHaveTargets
    <2> QED BY <2>1, <2>2
  <1> QED BY <1>5, <1>6 DEF Sound

-----------------------------------------------------------------------------
(* Theorems                                                                *)

LEMMA InitInv == Init => Inv
  <1>1. Init => WorkersSound
    BY DEF Init, WorkersSound, Waiting
  <1> QED BY <1>1, InitType, InitSound DEF Inv, Sound

\* Steps of a browser tab leave the workers alone.
LEMMA TabStepInv ==
  ASSUME Inv, NEW c \in Tabs, TabStep(c)
  PROVE  Inv'
  <1> USE DEF Inv
  <1>0. Sound
    BY DEF Sound
  <1>1. CASE Heartbeat(c) \/ Close(c) \/ \E i \in Ids : Open(c, i)
    <2>1. TypeOK'
      BY <1>1, TabType
    <2>2. UNCHANGED Tables /\ UNCHANGED worker
      BY <1>1 DEF Heartbeat, Close, Open, Tables
    <2> QED BY <1>0, <2>1, <2>2, SameSound DEF Sound, WorkersSound
  <1>2. CASE Save(c)
    <2>1. TypeOK' /\ Sound'
      BY <1>0, <1>2, TabType, SaveWrites, WritesSound
    <2> QED BY <1>2, <2>1 DEF Sound, WorkersSound, Save
  <1>3. ASSUME NEW i \in Ids, ImportOverwrite(c, i)
        PROVE  Inv'
    <2>1. TypeOK' /\ Sound'
      BY <1>0, <1>3, OverwriteType, OverwriteWrites, WritesSound
    <2> QED BY <1>3, <2>1 DEF Sound, WorkersSound, ImportOverwrite
  <1>4. ASSUME NEW i \in Ids, PromoteToDev(c, i)
        PROVE  Inv'
    <2>1. TypeOK' /\ Sound'
      BY <1>0, <1>4, PromoteToDevType, PromoteToDevSound
    <2> QED BY <1>4, <2>1 DEF Sound, WorkersSound, PromoteToDev
  <1>5. ASSUME NEW i \in Ids, PromoteNew(c, i)
        PROVE  Inv'
    <2>1. TypeOK' /\ Sound'
      BY <1>0, <1>5, PromoteNewType, PromoteNewSound
    <2> QED BY <1>5, <2>1 DEF Sound, WorkersSound, PromoteNew
  <1>6. ASSUME NEW i \in Ids, NEW target \in Ids, PromoteInto(c, i, target)
        PROVE  Inv'
    <2>1. TypeOK' /\ Sound'
      BY <1>0, <1>6, PromoteIntoType, PromoteIntoSound
    <2> QED BY <1>6, <2>1 DEF Sound, WorkersSound, PromoteInto
  <1> QED BY <1>1, <1>2, <1>3, <1>4, <1>5, <1>6 DEF TabStep

\* Steps that make a row, and a lock that lapses.
LEMMA RowStepInv ==
  ASSUME Inv, NEW i \in Ids, RowStep(i)
  PROVE  Inv'
  <1> USE DEF Inv
  <1>0. Sound
    BY DEF Sound
  <1>1. CASE Lapse(i)
    <2>1. UNCHANGED Tables /\ UNCHANGED worker
      BY <1>1 DEF Lapse, Tables
    <2> QED BY <1>0, <1>1, <2>1, LapseType, SameSound DEF Sound, WorkersSound
  <1>2. CASE CreateTemplate(i) \/ \E src \in Ids : CopyTemplate(src, i) \/ ImportCopy(src, i)
    <2>1. TypeOK' /\ Sound'
      BY <1>0, <1>2, InsertType, InsertAdds, AddsSound
    <2>2. UNCHANGED worker
      BY <1>2 DEF CreateTemplate, CopyTemplate, ImportCopy
    <2> QED BY <2>1, <2>2 DEF Sound, WorkersSound
  <1>3. CASE ImportCreate(i)
    <2>1. TypeOK' /\ Sound'
      BY <1>0, <1>3, ImportType, ImportAdds, AddsSound, ImportsProdSound
    <2> QED BY <1>3, <2>1 DEF Sound, WorkersSound, ImportCreate
  <1> QED BY <1>1, <1>2, <1>3 DEF RowStep

LEMMA WorkerStepInv ==
  ASSUME Inv, NEW w \in Workers, WorkerStep(w)
  PROVE  Inv'
  <1> USE DEF Inv
  <1>0. Sound
    BY DEF Sound
  <1>1. CASE Detach(w)
    BY <1>0, <1>1, DetachType, UnlinkedTargets DEF Sound
  <1>2. CASE DeleteFinal(w)
    <2>1. CASE Exists(worker[w].item)
      BY <1>0, <1>2, <2>1, DeleteFinalType, DeleteFinalSound DEF Sound
    <2>2. CASE ~Exists(worker[w].item)
      <3>1. UNCHANGED Tables
        BY <1>2, <2>2 DEF DeleteFinal, Tables
      <3> QED BY <1>0, <1>2, <3>1, DeleteFinalType, SameSound DEF Sound
    <2> QED BY <2>1, <2>2
  <1>3. CASE RepointCommit(w)
    BY <1>0, <1>3, RepointCommitType, RepointCommitSound DEF Sound
  <1>4. CASE AddCommit(w)
    <2>1. Writes \/ UNCHANGED Tables
      BY <1>4, AddCommitWrites
    <2> QED BY <1>0, <1>4, <2>1, AddCommitType, WritesSound, SameSound DEF Sound
  <1>5. ASSUME NEW i \in Ids, NEW c \in Tabs, AskDelete(w, c, i) \/ AddRead(w, c, i)
        PROVE  Inv'
    <2>1. UNCHANGED Tables
      BY <1>5 DEF AskDelete, AddRead, Tables
    <2> QED BY <1>0, <1>5, <2>1, AskDeleteType, AddReadType, SameSound DEF Sound
  <1>6. ASSUME NEW i \in Ids, NEW s \in Servers, NEW pin \in VersionsOf(i) \cup {0},
               RepointRead(w, s, i, pin)
        PROVE  Inv'
    <2>1. UNCHANGED Tables
      BY <1>6 DEF RepointRead, Tables
    <2> QED BY <1>0, <1>6, <2>1, RepointReadType, SameSound DEF Sound
  <1> QED BY <1>1, <1>2, <1>3, <1>4, <1>5, <1>6 DEF WorkerStep

LEMMA StepInv == Inv /\ [Next]_vars => Inv'
  <1> SUFFICES ASSUME Inv, [Next]_vars PROVE Inv'
    OBVIOUS
  <1>1. CASE UNCHANGED vars
    <2>1. UNCHANGED Tables /\ UNCHANGED worker /\ Sound
      BY <1>1 DEF vars, Tables, Inv, Sound
    <2> QED BY <1>1, <2>1, StutterType, SameSound DEF Inv, Sound, WorkersSound
  <1>2. CASE Next
    BY <1>2, TabStepInv, RowStepInv, WorkerStepInv DEF Next
  <1> QED BY <1>1, <1>2

THEOREM Invariance == Spec => []Inv
  BY InitInv, StepInv, PTL DEF Spec

\* Every variable keeps its type; that the number of a release has one rests on
\* the versions before it running on (stages.py, _next_version).
THEOREM TypeCorrect == Spec => []TypeOK
  BY Invariance, PTL DEF Inv

\* The versions of a template run from 1 to its prod_version without a gap or a
\* second row for one, and only Prod templates have any.
THEOREM VersionsAlwaysRunOn == Spec => []VersionsRunOn
  BY Invariance, PTL DEF Inv

\* A Prod row's own columns equal its latest version, unless an add-to-template
\* wrote to it after its release.
THEOREM HeadAlwaysLatest == Spec => []HeadIsLatest
  BY Invariance, PTL DEF Inv

\* What a copy is based on is there and in Prod.
THEOREM OriginsAlwaysProd == Spec => []OriginsAreProd
  BY Invariance, PTL DEF Inv

\* A server points at a template, and a version of it, that are there, unless
\* its template was set across a deletion or a release.
THEOREM ServersAlwaysHaveTargets == Spec => []ServersHaveTargets
  BY Invariance, PTL DEF Inv

-----------------------------------------------------------------------------
(* What a step may never do                                                *)

LEMMA FrozenGrows ==
  ASSUME Next
  PROVE  \/ frozen \subseteq frozen'
         \/ \E w \in Workers : /\ frozen' = VersionsBut(worker[w].item)
                               /\ server' = Unlinked(worker[w].item)
  <1>1. ASSUME NEW c \in Tabs, TabStep(c)
        PROVE  frozen \subseteq frozen'
    BY <1>1 DEF TabStep, Heartbeat, Save, Close, Open, ImportOverwrite, PromoteToDev, PromoteNew,
                PromoteInto, Freezes
  <1>2. ASSUME NEW i \in Ids, RowStep(i)
        PROVE  frozen \subseteq frozen'
    BY <1>2 DEF RowStep, Lapse, CreateTemplate, ImportCreate, CopyTemplate, ImportCopy
  <1>3. ASSUME NEW w \in Workers, WorkerStep(w)
        PROVE  \/ frozen \subseteq frozen'
               \/ /\ frozen' = VersionsBut(worker[w].item)
                  /\ server' = Unlinked(worker[w].item)
    BY <1>3 DEF WorkerStep, Detach, DeleteFinal, RepointCommit, AddCommit, AskDelete, AddRead,
                RepointRead
  <1> QED BY <1>1, <1>2, <1>3 DEF Next

\* Runs on any tables, so that one fact serves before and after a step.
RunsOf(I, F, i, pin) ==
  LET pinned == {v \in F : v.item = i /\ v.version = pin}
  IN IF I[i].stage = "prod" /\ pinned # {} THEN (CHOOSE v \in pinned : TRUE).content
     ELSE I[i].content

LEMMA RunsThePinned ==
  ASSUME NEW I, NEW F, NEW i, NEW pin, NEW v \in F, Unique(F),
         I[i].stage = "prod", v.item = i, v.version = pin
  PROVE  RunsOf(I, F, i, pin) = v.content
  <1> DEFINE pinned == {u \in F : u.item = i /\ u.version = pin}
  <1>1. pinned = {v}
    BY DEF Unique
  <1>2. (CHOOSE u \in pinned : TRUE) = v
    BY <1>1
  <1>3. RunsOf(I, F, i, pin) = (CHOOSE u \in pinned : TRUE).content
    BY <1>1 DEF RunsOf
  <1> QED BY <1>2, <1>3

\* What pins a server survives a step that does not point it elsewhere.
LEMMA PinStays ==
  ASSUME Inv, Inv', Next, NEW s \in Servers \ strayed',
         server[s].template # None, server[s].pin # 0, server'[s] = server[s]
  PROVE  Runs(s)' = Runs(s)
  <1> DEFINE i == server[s].template
             pin == server[s].pin
  <1>1. strayed \subseteq strayed'
    <2>1. ASSUME NEW c \in Tabs, TabStep(c)
          PROVE  strayed \subseteq strayed'
      BY <2>1 DEF TabStep, Heartbeat, Save, Close, Open, ImportOverwrite, PromoteToDev,
                  PromoteNew, PromoteInto
    <2>2. ASSUME NEW j \in Ids, RowStep(j)
          PROVE  strayed \subseteq strayed'
      BY <2>2 DEF RowStep, Lapse, CreateTemplate, ImportCreate, CopyTemplate, ImportCopy
    <2>3. ASSUME NEW w \in Workers, WorkerStep(w)
          PROVE  strayed \subseteq strayed'
      BY <2>3 DEF WorkerStep, Detach, DeleteFinal, RepointCommit, AddCommit, AskDelete, AddRead,
                  RepointRead
    <2> QED BY <2>1, <2>2, <2>3 DEF Next
  <1>2. IsProd(i) /\ pin \in VersionsOf(i)
    BY <1>1 DEF Inv, ServersHaveTargets
  <1>3. IsProd(i)'
    BY DEF Inv, ServersHaveTargets, IsProd
  <1>4. PICK v \in frozen : v.item = i /\ v.version = pin
    BY <1>2 DEF VersionsOf
  <1>5. v \in frozen'
    <2>1. CASE frozen \subseteq frozen'
      BY <2>1
    <2>2. ASSUME NEW w \in Workers, frozen' = VersionsBut(worker[w].item),
                 server' = Unlinked(worker[w].item)
          PROVE  v \in frozen'
      <3>1. i # worker[w].item
        BY <2>2 DEF Unlinked, Unset
      <3> QED BY <1>4, <2>2, <3>1 DEF VersionsBut
    <2> QED BY <2>1, <2>2, FrozenGrows
  <1>6. Unique(frozen) /\ Unique(frozen')
    BY DEF Inv, VersionsRunOn, Unique
  <1>7. Runs(s) = RunsOf(item, frozen, i, pin) /\ Runs(s)' = RunsOf(item', frozen', i, pin)
    BY DEF Runs, RunsOf, IsProd
  <1>8. RunsOf(item, frozen, i, pin) = v.content
    BY <1>2, <1>4, <1>6, RunsThePinned DEF IsProd
  <1>9. RunsOf(item', frozen', i, pin) = v.content
    BY <1>3, <1>4, <1>5, <1>6, RunsThePinned DEF IsProd
  <1> QED BY <1>7, <1>8, <1>9

\* A server pinned to a version runs the same content until it is pointed
\* elsewhere: no release, save, import or deletion changes it.
THEOREM PinnedServersAlwaysStay == Spec => PinnedServersStay
  <1>1. Inv /\ Inv' /\ [Next]_vars =>
          [\A s \in Servers \ strayed' :
             server[s].template # None /\ server[s].pin # 0 /\ server'[s] = server[s]
               => Runs(s)' = Runs(s)]_vars
    BY PinStays
  <1> QED BY <1>1, Invariance, PTL DEF Spec, PinnedServersStay

\* The lock is compared in the step that writes, or the write is marked.
LEMMA LockHolds ==
  ASSUME Inv, Next, NEW i \in Ids \ overtaken', NEW c \in Tabs,
         Edits(c, i), Exists(i), ~IsProd(i), Exists(i)', item'[i].content # item[i].content
  PROVE  Save(c) \/ \E w \in Workers : AddCommit(w) /\ worker[w].client = c
  <1> USE DEF Inv, TypeOK
  <1>0. /\ tab[c].at = "editing" /\ tab[c].item = i /\ lock[i] = c
        /\ \A d \in Tabs : ~HeldByOther(i, d) => d = c
    BY ReleasesAssumption DEF Edits, HeldByOther
  <1>1. ASSUME NEW d \in Tabs, TabStep(d)
        PROVE  Save(c)
    <2>1. CASE Heartbeat(d) \/ Close(d) \/ \E j \in Ids : Open(d, j)
      BY <2>1 DEF Heartbeat, Close, Open
    <2>2. CASE Save(d)
      <3>1. tab[d].item = i
        BY <2>2 DEF Save
      <3>2. d = c
        BY <1>0, <2>2, <3>1 DEF Save
      <3> QED BY <2>2, <3>2
    <2>3. ASSUME NEW j \in Ids, ImportOverwrite(d, j)
          PROVE  Save(c)
      <3>1. j = i
        BY <2>3 DEF ImportOverwrite
      <3> QED BY <1>0, <2>3, <3>1 DEF ImportOverwrite
    <2>4. ASSUME NEW j \in Ids, PromoteToDev(d, j) \/ PromoteNew(d, j)
          PROVE  Save(c)
      <3>1. item'[i].content = item[i].content
        <4>1. CASE PromoteToDev(d, j)
          BY <4>1 DEF PromoteToDev, Item
        <4>2. CASE PromoteNew(d, j)
          <5>1. item' = [item EXCEPT ![j] = ProdRow(1, item[j].content, None)]
            BY <4>2 DEF PromoteNew
          <5>2. ProdRow(1, item[j].content, None).content = item[j].content
            BY DEF ProdRow
          <5> QED BY <5>1, <5>2
        <4> QED BY <2>4, <4>1, <4>2
      <3> QED BY <3>1
    <2>5. ASSUME NEW j \in Ids, NEW target \in Ids, PromoteInto(d, j, target)
          PROVE  Save(c)
      <3>1. i # target /\ i # j
        BY <2>5, GoneType DEF PromoteInto, Exists
      <3> QED BY <2>5, <3>1 DEF PromoteInto
    <2> QED BY <1>1, <2>1, <2>2, <2>3, <2>4, <2>5 DEF TabStep
  <1>2. ASSUME NEW j \in Ids, RowStep(j)
        PROVE  FALSE
    <2>1. CASE Lapse(j)
      BY <2>1 DEF Lapse
    <2>2. CASE ~Lapse(j)
      <3>1. ~Exists(j)
        BY <1>2, <2>2, NextIdIsFree
           DEF RowStep, CreateTemplate, ImportCreate, CopyTemplate, ImportCopy
      <3>2. \E entry : item' = [item EXCEPT ![j] = entry]
        BY <1>2, <2>2 DEF RowStep, CreateTemplate, ImportCreate, CopyTemplate, ImportCopy, Inserts
      <3> QED BY <3>1, <3>2
    <2> QED BY <2>1, <2>2
  <1>3. ASSUME NEW w \in Workers, WorkerStep(w)
        PROVE  AddCommit(w) /\ worker[w].client = c
    <2>1. CASE AddCommit(w)
      <3>1. worker[w].item = i
        BY <2>1 DEF AddCommit
      <3>2. worker[w].client \in Tabs /\ ~HeldByOther(i, worker[w].client)
        BY <2>1, <3>1 DEF AddCommit, WorkersSound
      <3> QED BY <1>0, <2>1, <3>2
    <2>2. CASE DeleteFinal(w)
      <3>1. worker[w].item # i
        BY <2>2, GoneType DEF DeleteFinal, Exists
      <3>2. item'[i].content = item[i].content
        BY <2>2, <3>1 DEF DeleteFinal, Item
      <3> QED BY <3>2
    <2>3. CASE ~AddCommit(w) /\ ~DeleteFinal(w)
      <3>1. UNCHANGED item
        BY <1>3, <2>3 DEF WorkerStep, Detach, RepointCommit, AskDelete, AddRead, RepointRead
      <3> QED BY <3>1
    <2> QED BY <2>1, <2>2, <2>3
  <1> QED BY <1>1, <1>2, <1>3 DEF Next

\* While a tab edits a template under its lock, the content changes by its own
\* save and its own add only, but for an add another tab had begun before (#102).
THEOREM LockAlwaysProtects == Spec => LockProtects
  <1>1. Inv /\ [Next]_vars =>
          [\A i \in Ids \ overtaken', c \in Tabs :
             Edits(c, i) /\ Exists(i) /\ ~IsProd(i) /\ Exists(i)'
               /\ item'[i].content # item[i].content
             => Save(c) \/ \E w \in Workers : AddCommit(w) /\ worker[w].client = c]_vars
    BY LockHolds
  <1> QED BY <1>1, Invariance, PTL DEF Spec, LockProtects

-----------------------------------------------------------------------------
(* Read back from the table, the versions are the abstract catalog.        *)

\* Released on any version table, so that one fact serves before and after.
ReadAll(F) ==
  [i \in Ids |-> [n \in Numbers(F, i) |-> (CHOOSE v \in F : v.item = i /\ v.version = n).content]]

\* c is put after what f has for k.
Longer(f, k, c) == [f EXCEPT ![k] = Append(@, c)]

LEMMA ReleasedIsRead ==
  Released = ReadAll(frozen) /\ Released' = ReadAll(frozen')
  BY VersionsAreNumbers, VersionsAreNumbersNext DEF Released, ReadBack, ReadAll

\* One version more of k leaves what is read back of every other.
LEMMA ReadsTheSame ==
  ASSUME NEW F, NEW G, NEW i, NEW n, Unique(F), Unique(G),
         NEW v \in F, v \in G, v.item = i, v.version = n
  PROVE  /\ (CHOOSE u \in F : u.item = i /\ u.version = n) = v
         /\ (CHOOSE u \in G : u.item = i /\ u.version = n) = v
  <1>1. \A u \in F : u.item = i /\ u.version = n => u = v
    BY DEF Unique
  <1>2. \A u \in G : u.item = i /\ u.version = n => u = v
    BY DEF Unique
  <1> QED BY <1>1, <1>2

\* A row of versions is read back as a sequence of contents.
LEMMA ReadIsSeq ==
  ASSUME NEW F, F \subseteq Version, NEW k \in Ids, NEW n \in Nat, RunsTo(F, k, n)
  PROVE  ReadAll(F)[k] \in Seq(Contents) /\ Len(ReadAll(F)[k]) = n
  <1> DEFINE s == ReadAll(F)[k]
             at(x) == CHOOSE v \in F : v.item = k /\ v.version = x
  <1>1. s = [x \in 1..n |-> at(x).content]
    BY DEF ReadAll, RunsTo
  <1>2. ASSUME NEW x \in 1..n
        PROVE  at(x).content \in Contents
    <2>1. \E v \in F : v.item = k /\ v.version = x
      BY DEF RunsTo, Numbers
    <2>2. at(x) \in F
      BY <2>1
    <2> QED BY <2>2 DEF Version
  <1> HIDE DEF at
  <1>3. s \in [1..n -> Contents]
    BY <1>1, <1>2
  <1> HIDE DEF s
  <1>4. s \in Seq(Contents) /\ Len(s) = n
    BY <1>3
  <1> QED BY <1>4 DEF s

\* The next version of k is read back at the end of its row.
LEMMA ReadGrows ==
  ASSUME NEW F, NEW G, NEW k \in Ids, NEW n \in Nat, NEW m, NEW c \in Contents,
         F \subseteq Version, Unique(F), RunsTo(F, k, n), m = n + 1, Grown(F, G, k, m, c)
  PROVE  ReadAll(G) = Longer(ReadAll(F), k, c)
  <1> DEFINE r == [item |-> k, version |-> m, content |-> c]
             inF(i, x) == CHOOSE v \in F : v.item = i /\ v.version = x
             inG(i, x) == CHOOSE v \in G : v.item = i /\ v.version = x
  <1>1. r.item = k /\ r.version = m /\ r.content = c
    OBVIOUS
  <1>2. G = F \cup {r}
    BY DEF Grown
  <1>3. /\ Unique(G) /\ RunsTo(G, k, m)
        /\ \A j : j # k => Numbers(G, j) = Numbers(F, j)
    BY RunGrows
  <1> HIDE DEF r
  <1>4. ASSUME NEW i, NEW x \in Numbers(F, i)
        PROVE  inG(i, x) = inF(i, x)
    <2>1. PICK v \in F : v.item = i /\ v.version = x
      BY DEF Numbers
    <2>2. v \in G
      BY <1>2
    <2>3. Unique(F) /\ Unique(G)
      BY <1>3
    <2>4. /\ (CHOOSE u \in F : u.item = i /\ u.version = x) = v
          /\ (CHOOSE u \in G : u.item = i /\ u.version = x) = v
      BY <2>1, <2>2, <2>3, ReadsTheSame
    <2> QED BY <2>4
  <1>5. inG(k, m) = r
    <2>1. r \in G
      BY <1>2
    <2>2. \A v \in G : v.item = k /\ v.version = m => v = r
      BY <1>1, <1>3, <2>1 DEF Unique
    <2> QED BY <1>1, <2>1, <2>2
  <1>6. /\ ReadAll(F) = [i \in Ids |-> [x \in Numbers(F, i) |-> inF(i, x).content]]
        /\ ReadAll(G) = [i \in Ids |-> [x \in Numbers(G, i) |-> inG(i, x).content]]
    BY DEF ReadAll
  <1> HIDE DEF inF, inG
  <1>7. \A i \in Ids : i # k => ReadAll(G)[i] = ReadAll(F)[i]
    <2> TAKE i \in Ids
    <2> HAVE i # k
    <2>1. Numbers(G, i) = Numbers(F, i)
      BY <1>3
    <2>2. [x \in Numbers(G, i) |-> inG(i, x).content] = [x \in Numbers(F, i) |-> inF(i, x).content]
      BY <1>4, <2>1
    <2> QED BY <1>6, <2>2
  <1>8. ReadAll(G)[k] = Append(ReadAll(F)[k], c)
    <2> DEFINE s == ReadAll(F)[k]
               t == ReadAll(G)[k]
    <2>1. s \in Seq(Contents) /\ Len(s) = n
      BY ReadIsSeq
    <2>2. t \in Seq(Contents) /\ Len(t) = m
      <3>1. G \subseteq Version /\ m \in Nat
        BY <1>2 DEF r, Version
      <3> QED BY <1>3, <3>1, ReadIsSeq
    <2>3. t = [x \in 1..m |-> inG(k, x).content] /\ s = [x \in 1..n |-> inF(k, x).content]
      BY <1>3, <1>6 DEF RunsTo
    <2>4. \A x \in 1..n : t[x] = s[x]
      <3>1. \A x \in 1..n : x \in Numbers(F, k) /\ x \in 1..m
        BY DEF RunsTo
      <3> QED BY <1>4, <2>3, <3>1
    <2>5. t[m] = c
      <3>1. m \in 1..m
        OBVIOUS
      <3> QED BY <1>1, <1>5, <2>3, <3>1
    <2> HIDE DEF s, t
    <2> DEFINE a == Append(s, c)
    <2>6. /\ a \in Seq(Contents) /\ Len(a) = n + 1
          /\ \A x \in 1..n : a[x] = s[x]
          /\ a[n + 1] = c
      BY <2>1, AppendProperties
    <2> HIDE DEF a
    <2>7. \A x \in 1..m : t[x] = a[x]
      <3> TAKE x \in 1..m
      <3>1. x \in 1..n \/ x = m
        OBVIOUS
      <3> QED BY <2>4, <2>5, <2>6, <3>1
    <2>8. t = a
      BY <2>2, <2>6, <2>7, SeqEqual
    <2>9. t = Append(s, c)
      BY <2>8 DEF a
    <2> QED BY <2>9 DEF s, t
  <1>9. DOMAIN ReadAll(G) = Ids /\ DOMAIN ReadAll(F) = Ids
    BY <1>6
  <1>10. /\ ReadAll(G) = [i \in Ids |-> ReadAll(G)[i]]
         /\ ReadAll(F) = [i \in Ids |-> ReadAll(F)[i]]
    BY <1>6
  <1> QED BY <1>7, <1>8, <1>9, <1>10 DEF Longer

\* Without the versions of k nothing is read back of it, and the same of the others.
LEMMA ReadDrops ==
  ASSUME NEW F, NEW G, NEW k \in Ids, G = {v \in F : v.item # k}, Unique(F)
  PROVE  ReadAll(G) = [ReadAll(F) EXCEPT ![k] = <<>>]
  <1> DEFINE inF(i, x) == CHOOSE v \in F : v.item = i /\ v.version = x
             inG(i, x) == CHOOSE v \in G : v.item = i /\ v.version = x
  <1>1. Unique(G)
    BY DEF Unique
  <1>2. Numbers(G, k) = {} /\ \A j : j # k => Numbers(G, j) = Numbers(F, j)
    <2>1. Numbers(G, k) = {}
      BY DEF Numbers
    <2>2. ASSUME NEW j, j # k
          PROVE  Numbers(G, j) = Numbers(F, j)
      BY <2>2 DEF Numbers
    <2> QED BY <2>1, <2>2
  <1>3. ASSUME NEW i, NEW x \in Numbers(G, i)
        PROVE  inG(i, x) = inF(i, x)
    <2>1. PICK v \in G : v.item = i /\ v.version = x
      BY DEF Numbers
    <2>2. v \in F
      OBVIOUS
    <2> QED BY <1>1, <2>1, <2>2, ReadsTheSame
  <1>4. /\ ReadAll(F) = [i \in Ids |-> [x \in Numbers(F, i) |-> inF(i, x).content]]
        /\ ReadAll(G) = [i \in Ids |-> [x \in Numbers(G, i) |-> inG(i, x).content]]
    BY DEF ReadAll
  <1> HIDE DEF inF, inG
  <1>5. \A i \in Ids : i # k => ReadAll(G)[i] = ReadAll(F)[i]
    <2> TAKE i \in Ids
    <2> HAVE i # k
    <2>1. [x \in Numbers(G, i) |-> inG(i, x).content] = [x \in Numbers(F, i) |-> inF(i, x).content]
      BY <1>2, <1>3
    <2> QED BY <1>4, <2>1
  <1>6. ReadAll(G)[k] = <<>>
    <2>1. ReadAll(G)[k] = [x \in {} |-> inG(k, x).content]
      BY <1>2, <1>4
    <2> QED BY <2>1
  <1>7. /\ DOMAIN ReadAll(F) = Ids
        /\ ReadAll(F) = [i \in Ids |-> ReadAll(F)[i]]
        /\ ReadAll(G) = [i \in Ids |-> ReadAll(G)[i]]
    BY <1>4
  <1> QED BY <1>5, <1>6, <1>7

\* A step of the catalog, on version tables.
Stays(F, G) ==
  \/ ReadAll(G) = ReadAll(F)
  \/ \E i \in Ids, c \in Contents : ReadAll(G) = Longer(ReadAll(F), i, c)
  \/ \E i \in Ids : /\ ReadAll(F)[i] = <<>>
                    /\ \E first, last \in Contents :
                         ReadAll(G) = [ReadAll(F) EXCEPT ![i] = <<first, last>>]
  \/ \E i \in Ids : ReadAll(G) = [ReadAll(F) EXCEPT ![i] = <<>>]

LEMMA PromoteNewStays ==
  ASSUME Inv, NEW c \in Tabs, NEW i \in Ids, PromoteNew(c, i)
  PROVE  Stays(frozen, frozen')
  <1>1. Unique(frozen) /\ RunsTo(frozen, i, 0) /\ frozen \subseteq Version
    <2>1. ~IsProd(i)
      BY DEF PromoteNew, IsProd
    <2> QED BY <2>1, VersionsAreNumbers DEF Inv, VersionsRunOn, Unique, RunsTo, TypeOK
  <1>2. Grown(frozen, frozen', i, 1, item[i].content) /\ 1 = 0 + 1 /\ 0 \in Nat
    BY DEF PromoteNew, Freezes, Grown
  <1>3. item[i].content \in Contents
    BY ContentType DEF Inv
  <1>4. ReadAll(frozen') = Longer(ReadAll(frozen), i, item[i].content)
    BY <1>1, <1>2, <1>3, ReadGrows
  <1> QED BY <1>3, <1>4 DEF Stays

LEMMA PromoteIntoStays ==
  ASSUME Inv, NEW c \in Tabs, NEW i \in Ids, NEW target \in Ids, PromoteInto(c, i, target)
  PROVE  Stays(frozen, frozen')
  <1>1. PICK n : n = item[target].version
    OBVIOUS
  <1>2. n \in Nat /\ RunsTo(frozen, target, n)
    BY <1>1, NextVersionIs, VersionsAreNumbers DEF Inv, PromoteInto, RunsTo
  <1>3. PICK m : m = n + 1
    OBVIOUS
  <1>4. Grown(frozen, frozen', target, m, item[i].content)
    BY <1>1, <1>3, PromoteIntoRow DEF Inv, Grown
  <1>5. Unique(frozen) /\ frozen \subseteq Version /\ item[i].content \in Contents
    BY ContentType DEF Inv, VersionsRunOn, Unique, TypeOK
  <1>6. ReadAll(frozen') = Longer(ReadAll(frozen), target, item[i].content)
    BY <1>2, <1>3, <1>4, <1>5, ReadGrows
  <1> QED BY <1>5, <1>6 DEF Stays

\* What is put after nothing twice is the two.
LEMMA AppendTwo ==
  ASSUME NEW S, NEW x \in S, NEW y \in S
  PROVE  Append(Append(<<>>, x), y) = <<x, y>>
  <1>1. PICK one \in Seq(S) : one = Append(<<>>, x) /\ Len(one) = 1 /\ one[1] = x
    <2>1. <<x>> \in Seq(S) /\ Len(<<x>>) = 1 /\ <<x>>[1] = x /\ Append(<<>>, x) = <<x>>
      OBVIOUS
    <2> QED BY <2>1
  <1>2. PICK two \in Seq(S) : two = <<x, y>> /\ Len(two) = 2 /\ two[1] = x /\ two[2] = y
    <2>1. <<x, y>> \in Seq(S) /\ Len(<<x, y>>) = 2 /\ <<x, y>>[1] = x /\ <<x, y>>[2] = y
      OBVIOUS
    <2> QED BY <2>1
  <1>3. PICK end : end = Append(one, y)
    OBVIOUS
  <1>4. /\ end \in Seq(S) /\ Len(end) = Len(one) + 1
        /\ \A i \in 1..Len(one) : end[i] = one[i]
        /\ end[Len(one) + 1] = y
    BY <1>3, AppendProperties
  <1>5. end[1] = x /\ end[2] = y /\ Len(end) = 2
    BY <1>1, <1>4
  <1>6. \A i \in 1..Len(end) : end[i] = two[i]
    BY <1>2, <1>5
  <1>7. end = two
    BY <1>2, <1>4, <1>5, <1>6, SeqEqual
  <1> QED BY <1>1, <1>2, <1>3, <1>7

LEMMA ImportsProdStays ==
  ASSUME Inv, ImportsProd
  PROVE  Stays(frozen, frozen')
  <1>1. PICK i \in Ids, c \in Contents, first \in Contents :
          /\ ~Exists(i)
          /\ frozen' = frozen \cup Imported(i, first, c)
    BY DEF ImportsProd
  <1> DEFINE H == frozen \cup {[item |-> i, version |-> 1, content |-> first]}
  <1>2. /\ Unique(frozen) /\ RunsTo(frozen, i, 0) /\ frozen \subseteq Version
    <2>1. ~IsProd(i)
      BY <1>1 DEF IsProd, Exists
    <2> QED BY <2>1, VersionsAreNumbers DEF Inv, VersionsRunOn, Unique, RunsTo, TypeOK
  <1>3. Grown(frozen, H, i, 1, first) /\ Grown(H, frozen', i, 2, c) /\ H \subseteq Version
    BY <1>1, <1>2 DEF Grown, Imported, Version
  <1> HIDE DEF H
  <1>4. 1 = 0 + 1 /\ 2 = 1 + 1 /\ 0 \in Nat /\ 1 \in Nat
    OBVIOUS
  <1>5. Unique(H) /\ RunsTo(H, i, 1)
    BY <1>2, <1>3, <1>4, RunGrows
  <1> DEFINE A == ReadAll(frozen)
             B == ReadAll(H)
  <1>6. B = Longer(A, i, first)
    BY <1>2, <1>3, <1>4, ReadGrows
  <1>7. ReadAll(frozen') = Longer(B, i, c)
    BY <1>3, <1>4, <1>5, ReadGrows
  <1>8. A[i] \in Seq(Contents) /\ Len(A[i]) = 0 /\ DOMAIN A = Ids
    <2>1. A[i] \in Seq(Contents) /\ Len(A[i]) = 0
      BY <1>2, <1>4, ReadIsSeq
    <2>2. DOMAIN A = Ids
      BY DEF ReadAll
    <2> QED BY <2>1, <2>2
  <1> HIDE DEF A, B
  <1>9. A[i] = <<>>
    BY <1>8
  <1>10. Append(Append(<<>>, first), c) = <<first, c>>
    BY AppendTwo
  <1>11. B[i] = Append(A[i], first)
    BY <1>6, <1>8 DEF Longer
  <1>12. ReadAll(frozen') = [B EXCEPT ![i] = <<first, c>>]
    BY <1>7, <1>9, <1>10, <1>11 DEF Longer
  <1>13. ReadAll(frozen') = [A EXCEPT ![i] = <<first, c>>]
    BY <1>6, <1>12 DEF Longer
  <1> QED BY <1>9, <1>13 DEF A, Stays

LEMMA DeleteFinalStays ==
  ASSUME Inv, NEW w \in Workers, DeleteFinal(w), Exists(worker[w].item)
  PROVE  Stays(frozen, frozen')
  <1>1. PICK i \in Ids : i = worker[w].item
    BY DEF Inv, WorkersSound, DeleteFinal
  <1>2. frozen' = {v \in frozen : v.item # i}
    BY <1>1 DEF DeleteFinal, VersionsBut
  <1>3. Unique(frozen)
    BY DEF Inv, VersionsRunOn, Unique
  <1>4. ReadAll(frozen') = [ReadAll(frozen) EXCEPT ![i] = <<>>]
    BY <1>2, <1>3, ReadDrops
  <1> QED BY <1>4 DEF Stays

\* Every other step leaves the version table as it is.
LEMMA NextStays ==
  ASSUME Inv, [Next]_vars
  PROVE  Stays(frozen, frozen')
  <1>1. CASE frozen' = frozen
    BY <1>1 DEF Stays
  <1>2. ASSUME NEW c \in Tabs, TabStep(c)
        PROVE  Stays(frozen, frozen')
    <2>1. ASSUME NEW i \in Ids, PromoteNew(c, i)
          PROVE  Stays(frozen, frozen')
      BY <2>1, PromoteNewStays
    <2>2. ASSUME NEW i \in Ids, NEW target \in Ids, PromoteInto(c, i, target)
          PROVE  Stays(frozen, frozen')
      BY <2>2, PromoteIntoStays
    <2>3. \/ frozen' = frozen
          \/ \E i \in Ids : PromoteNew(c, i) \/ \E target \in Ids : PromoteInto(c, i, target)
      BY <1>2 DEF TabStep, Heartbeat, Save, Close, Open, ImportOverwrite, PromoteToDev
    <2> QED BY <1>1, <2>1, <2>2, <2>3
  <1>3. ASSUME NEW i \in Ids, RowStep(i)
        PROVE  Stays(frozen, frozen')
    <2>1. CASE ImportCreate(i)
      <3>1. CASE Adds
        BY <1>1, <3>1 DEF Adds
      <3>2. CASE ImportsProd
        BY <3>2, ImportsProdStays
      <3> QED BY <2>1, <3>1, <3>2, ImportAdds DEF Inv
    <2>2. \/ frozen' = frozen
          \/ ImportCreate(i)
      BY <1>3 DEF RowStep, Lapse, CreateTemplate, CopyTemplate, ImportCopy
    <2> QED BY <1>1, <2>1, <2>2
  <1>4. ASSUME NEW w \in Workers, WorkerStep(w)
        PROVE  Stays(frozen, frozen')
    <2>1. CASE DeleteFinal(w) /\ Exists(worker[w].item)
      BY <2>1, DeleteFinalStays
    <2>2. \/ frozen' = frozen
          \/ DeleteFinal(w) /\ Exists(worker[w].item)
      BY <1>4 DEF WorkerStep, Detach, DeleteFinal, RepointCommit, AddCommit, AskDelete, AddRead,
                  RepointRead
    <2> QED BY <1>1, <2>1, <2>2
  <1>5. CASE UNCHANGED vars
    BY <1>1, <1>5 DEF vars
  <1> QED BY <1>2, <1>3, <1>4, <1>5 DEF Next

\* The version table implements the catalog: read back, a template's versions
\* only grow at the end, are never changed, and go with the template (stages.py).
THEOREM VersionsAlwaysStay == Spec => VersionsStay
  <1>1. Init => Catalogue!Init
    <2> SUFFICES ASSUME Init PROVE Released = [i \in Ids |-> <<>>]
      BY DEF Catalogue!Init
    <2>1. \A i \in Ids : Numbers(frozen, i) = {}
      BY DEF Init, Numbers
    <2>2. \A i \in Ids : VersionsOf(i) = {}
      BY <2>1, VersionsAreNumbers
    <2>3. \A i \in Ids : [n \in VersionsOf(i) |-> ReadBack(i, n)] = <<>>
      BY <2>2
    <2> QED BY <2>3 DEF Released
  <1>2. Inv /\ [Next]_vars => [Catalogue!Next]_Released
    <2> SUFFICES ASSUME Inv, [Next]_vars PROVE Catalogue!Next \/ Released' = Released
      OBVIOUS
    <2>1. Stays(frozen, frozen')
      BY NextStays
    <2>2. \/ Released' = Released
          \/ \E i \in Ids, c \in Contents : Released' = Longer(Released, i, c)
          \/ \E i \in Ids : /\ Released[i] = <<>>
                            /\ \E first, last \in Contents :
                                 Released' = [Released EXCEPT ![i] = <<first, last>>]
          \/ \E i \in Ids : Released' = [Released EXCEPT ![i] = <<>>]
      BY <2>1, ReleasedIsRead DEF Stays
    <2> QED BY <2>2 DEF Longer, Catalogue!Next, Catalogue!Release, Catalogue!Restore, Catalogue!Drop
  <1> QED BY <1>1, <1>2, Invariance, PTL DEF Spec, VersionsStay, Catalogue!Spec


-----------------------------------------------------------------------------
(* Editing: paths and documents.                                           *)

Path == {p \in Seq(Keys) : p # <<>>}

LEMMA AtOrUnderTrans ==
  ASSUME NEW p, NEW q, NEW r, AtOrUnder(p, q), AtOrUnder(q, r)
  PROVE  AtOrUnder(p, r)
  BY DEF AtOrUnder

LEMMA AtOrUnderSelf == \A p : AtOrUnder(p, p)
  BY DEF AtOrUnder

\* Two paths that lead through each other are one.
LEMMA SamePath ==
  ASSUME NEW p \in Path, NEW q \in Path, AtOrUnder(p, q), AtOrUnder(q, p)
  PROVE  p = q
  <1>1. DOMAIN p = DOMAIN q /\ Len(p) = Len(q)
    BY DEF AtOrUnder, Path
  <1>2. \A i \in 1 .. Len(p) : p[i] = q[i]
    BY <1>1 DEF AtOrUnder, Path
  <1> QED BY <1>1, <1>2 DEF Path

LEMMA UnderTrans ==
  ASSUME NEW p \in Path, NEW q \in Path, NEW r \in Path,
         \/ Under(p, q) /\ AtOrUnder(q, r)
         \/ AtOrUnder(p, q) /\ Under(q, r)
  PROVE  Under(p, r)
  BY AtOrUnderTrans, SamePath DEF Under

\* What a path leads through are its prefixes.
LEMMA AboveIsPrefix ==
  ASSUME NEW p \in Path, NEW q \in Path, Under(p, q)
  PROVE  Len(q) \in 1 .. Len(p) - 1 /\ q = SubSeq(p, 1, Len(q))
  <1>1. Len(q) \in DOMAIN q /\ Len(q) <= Len(p)
    BY DEF Under, AtOrUnder, Path
  <1>2. Len(q) # Len(p)
    <2> SUFFICES ASSUME Len(q) = Len(p) PROVE FALSE
      OBVIOUS
    <2>1. AtOrUnder(q, p)
      BY DEF Under, AtOrUnder, Path
    <2> QED BY <2>1, SamePath DEF Under
  <1>3. q = SubSeq(p, 1, Len(q))
    BY <1>1 DEF Under, AtOrUnder, Path
  <1> QED BY <1>1, <1>2, <1>3 DEF Path

LEMMA PrefixIsAbove ==
  ASSUME NEW p \in Path, NEW n \in 1 .. Len(p) - 1
  PROVE  SubSeq(p, 1, n) \in Path /\ Under(p, SubSeq(p, 1, n)) /\ Len(SubSeq(p, 1, n)) = n
  <1> DEFINE q == SubSeq(p, 1, n)
  <1>1. q \in Seq(Keys) /\ Len(q) = n /\ \A i \in 1 .. n : q[i] = p[i]
    BY DEF Path
  <1>2. q # p /\ q # <<>>
    BY <1>1 DEF Path
  <1>3. AtOrUnder(p, q)
    BY <1>1 DEF AtOrUnder, Path
  <1> QED BY <1>1, <1>2, <1>3 DEF Path, Under

\* Of two paths that one leads through, one leads through the other.
LEMMA Comparable ==
  ASSUME NEW p \in Path, NEW q \in Path, NEW r \in Path, AtOrUnder(p, q), AtOrUnder(p, r)
  PROVE  AtOrUnder(q, r) \/ AtOrUnder(r, q)
  BY DEF AtOrUnder, Path

\* A document said of paths above and below each other instead of prefixes.
Tree(doc) ==
  /\ doc = [p \in DOMAIN doc |-> doc[p]]
  /\ DOMAIN doc \subseteq Path
  /\ \A p \in DOMAIN doc, q \in Path : Under(p, q) => q \in DOMAIN doc /\ doc[q] = Object

LEMMA DocIsTree == \A doc : IsDoc(doc) <=> Tree(doc)
  <1>1. ASSUME NEW doc, IsDoc(doc) PROVE Tree(doc)
    <2>1. DOMAIN doc \subseteq Path
      BY <1>1 DEF IsDoc, IsPath, Path
    <2>2. ASSUME NEW p \in DOMAIN doc, NEW q \in Path, Under(p, q)
          PROVE  q \in DOMAIN doc /\ doc[q] = Object
      <3>1. Len(q) \in 1 .. Len(p) - 1 /\ q = SubSeq(p, 1, Len(q))
        BY <2>1, <2>2, AboveIsPrefix
      <3>2. IsObject(doc, SubSeq(p, 1, Len(q)))
        BY <3>1, <1>1 DEF IsDoc
      <3> QED BY <3>1, <3>2 DEF IsObject
    <2> QED BY <1>1, <2>1, <2>2 DEF Tree, IsDoc
  <1>2. ASSUME NEW doc, Tree(doc) PROVE IsDoc(doc)
    <2>1. ASSUME NEW p \in DOMAIN doc
          PROVE  IsPath(p) /\ \A n \in 1 .. Len(p) - 1 : IsObject(doc, SubSeq(p, 1, n))
      <3>1. p \in Path
        BY <1>2, <2>1 DEF Tree
      <3>2. ASSUME NEW n \in 1 .. Len(p) - 1 PROVE IsObject(doc, SubSeq(p, 1, n))
        <4>1. SubSeq(p, 1, n) \in Path /\ Under(p, SubSeq(p, 1, n))
          BY <3>1, PrefixIsAbove
        <4> QED BY <4>1, <1>2 DEF Tree, IsObject
      <3> QED BY <3>1, <3>2 DEF IsPath, Path
    <2> QED BY <1>2, <2>1 DEF Tree, IsDoc
  <1> QED BY <1>1, <1>2


-----------------------------------------------------------------------------
(* The inductive invariant.                                                *)

\* The keys are in the extras, out of the way of what the wizard took over.
Keeps(extras, keys) ==
  \A p \in DOMAIN keys :
    /\ p \in DOMAIN extras /\ extras[p] = keys[p] /\ keys[p] \notin {Null, Object}
    /\ \A q \in NowModelled : ~AtOrUnder(p, q)

\* Extras as the wizard makes them.
Made(extras) ==
  /\ NothingEmpty(extras) /\ Harmless(extras)
  /\ PathOf("navs") \in DOMAIN extras => extras[PathOf("navs")] # Null

\* The row was rendered from s: by a save, or by an earlier version.
Settled(s) == IsSpec(s) /\ Clean(s) = s /\ WellTyped(s)
RowFrom(s) ==
  /\ Settled(s) /\ NothingEmpty(s.extras) /\ Harmless(NowCustom(s.extras))
  /\ row.config = ToConfig(s) /\ row.extras = s.extras
  /\ row.graph = s.graph /\ row.label = s.label
  /\ Header \in DOMAIN row.config =>
       IsObject(row.config, Header) /\ Inside(row.config, Header) # Empty
  /\ PathOf("mods") \in DOMAIN row.config /\ CleanMods(ModsOf(row.config)) = ModsOf(row.config)
  /\ row.listed =>
       \/ ModsOf(row.config) = row.mods
       \/ row.mods = "m1" /\ ModsOf(row.config) = "m1!"
  /\ Keeps(s.extras, rowOwn)
  /\ \/ saved = {s} /\ Valid(s) /\ Made(s.extras) /\ row.listed /\ row.mods = s.field["mods"]
     \/ saved = {} /\ ~Revived(s)

PageInv ==
  ~Closed => IsSpec(page) /\ Made(page.extras) /\ Keeps(page.extras, own)
RowInv == \E s \in saved \cup {o.spec : o \in Old} : RowFrom(s)
IInv == PageInv /\ RowInv /\ AppliedIsRendered


-----------------------------------------------------------------------------
(* Patches.                                                                *)

\* A merge has what the patch sets, as the patch has it.
LEMMA MergeSets ==
  ASSUME NEW base, NEW patch, NEW p \in DOMAIN patch, patch[p] # Null
  PROVE  p \in DOMAIN Merge(base, patch) /\ Merge(base, patch)[p] = patch[p]
  BY DEF Merge

\* What has no leaf of the patch at it or above it stays.
LEMMA MergeKeeps ==
  ASSUME NEW base, NEW patch, NEW p \in DOMAIN base, p \notin DOMAIN patch,
         \A q \in DOMAIN patch : AtOrUnder(p, q) => patch[q] = Object
  PROVE  p \in DOMAIN Merge(base, patch) /\ Merge(base, patch)[p] = base[p]
  BY DEF Merge

\* What is in a merge is from the patch, or from the document and not overridden.
LEMMA MergeIsFrom ==
  ASSUME NEW base, NEW patch, NEW p \in DOMAIN Merge(base, patch)
  PROVE  \/ p \in DOMAIN patch /\ Merge(base, patch)[p] = patch[p]
         \/ /\ p \notin DOMAIN patch /\ p \in DOMAIN base
            /\ Merge(base, patch)[p] = base[p]
            /\ \A q \in DOMAIN patch : AtOrUnder(p, q) => patch[q] = Object
  BY DEF Merge

\* A deletion stays where it is inside of what the patch replaces.
LEMMA MergeNull ==
  ASSUME NEW base, NEW patch, NEW p \in DOMAIN patch, patch[p] = Null
  PROVE  p \in DOMAIN Merge(base, patch)
           <=> \E q \in DOMAIN patch : Under(p, q) /\ ~IsObject(base, q)
  <1> Object # Null
    BY DEF Object, Null
  <1> QED BY AtOrUnderSelf DEF Merge

\* A patch that is a document makes a document of one.
LEMMA MergeIsTree ==
  ASSUME NEW base, NEW patch, Tree(base), Tree(patch)
  PROVE  Tree(Merge(base, patch))
  <1> DEFINE m == Merge(base, patch)
  <1> Object # Null
    BY DEF Object, Null
  <1>1. ASSUME NEW p \in DOMAIN m
        PROVE  p \in Path
    <2>1. p \in DOMAIN patch \/ p \in DOMAIN base
      BY MergeIsFrom
    <2> QED BY <2>1 DEF Tree
  <1>2. ASSUME NEW p \in DOMAIN m, NEW q \in Path, Under(p, q)
        PROVE  q \in DOMAIN m /\ m[q] = Object
    <2>1. CASE p \in DOMAIN patch
      <3>1. q \in DOMAIN patch /\ patch[q] = Object
        BY <1>2, <2>1 DEF Tree
      <3> QED BY <3>1, MergeSets
    <2>2. CASE p \notin DOMAIN patch
      <3>1. /\ p \in DOMAIN base
            /\ \A r \in DOMAIN patch : AtOrUnder(p, r) => patch[r] = Object
        BY <2>2, MergeIsFrom
      <3>2. q \in DOMAIN base /\ base[q] = Object
        BY <1>2, <3>1 DEF Tree
      <3>3. \A r \in DOMAIN patch : AtOrUnder(q, r) => patch[r] = Object
        BY <1>2, <3>1, AtOrUnderTrans DEF Under
      <3>4. CASE q \in DOMAIN patch
        <4>1. patch[q] = Object
          BY <3>3, <3>4, AtOrUnderSelf
        <4> QED BY <3>4, <4>1, MergeSets
      <3>5. CASE q \notin DOMAIN patch
        BY <3>2, <3>3, <3>5, MergeKeeps
      <3> QED BY <3>4, <3>5
    <2> QED BY <2>1, <2>2
  <1>3. m = [p \in DOMAIN m |-> m[p]]
    BY DEF Merge
  <1> QED BY <1>1, <1>2, <1>3 DEF Tree

LEMMA MergeNothing ==
  ASSUME NEW base, base = [p \in DOMAIN base |-> base[p]]
  PROVE  Merge(base, Empty) = base
  <1>1. DOMAIN Empty = {}
    BY DEF Empty
  <1>2. DOMAIN Merge(base, Empty) = DOMAIN base
    BY <1>1 DEF Merge
  <1>3. \A p \in DOMAIN base : Merge(base, Empty)[p] = base[p]
    BY <1>1 DEF Merge
  <1>4. Merge(base, Empty) = [p \in DOMAIN base |-> Merge(base, Empty)[p]]
    BY <1>2 DEF Merge
  <1> QED BY <1>3, <1>4

LEMMA OnlyPart ==
  ASSUME NEW doc, NEW paths
  PROVE  /\ DOMAIN Only(doc, paths) = paths
         /\ \A p \in paths : Only(doc, paths)[p] = doc[p]
         /\ Only(doc, paths) = [p \in paths |-> doc[p]]
  BY DEF Only

\* A part of a document is one if nothing is taken out above what is left.
LEMMA PartIsTree ==
  ASSUME NEW doc, Tree(doc), NEW paths \in SUBSET DOMAIN doc,
         \A p \in paths, q \in DOMAIN doc : Under(p, q) => q \in paths
  PROVE  Tree(Only(doc, paths))
  <1>1. DOMAIN Only(doc, paths) = paths /\ paths \subseteq Path
    BY DEF Only, Tree
  <1>2. ASSUME NEW p \in paths, NEW q \in Path, Under(p, q)
        PROVE  q \in paths /\ Only(doc, paths)[q] = Object
    <2>1. q \in DOMAIN doc /\ doc[q] = Object
      BY <1>2 DEF Tree
    <2> QED BY <2>1, <1>2 DEF Only
  <1> QED BY <1>1, <1>2 DEF Tree, Only

\* The paths that are dropped besides those under path.
Emptied(doc, path) ==
  LET rest == {p \in DOMAIN doc : ~AtOrUnder(p, path)}
      OnTheWay(p) == Under(path, p) /\ doc[p] = Object
  IN  {p \in rest : OnTheWay(p) /\ \A q \in rest : Under(q, p) => OnTheWay(q)}

\* _drop_path takes out what is at path and the parents that has emptied.
LEMMA DropPathIs ==
  ASSUME NEW doc, NEW path
  PROVE  DropPath(doc, path)
           = Only(doc, {p \in DOMAIN doc : ~AtOrUnder(p, path) /\ p \notin Emptied(doc, path)})
  <1>1. {p \in DOMAIN doc : ~AtOrUnder(p, path)} \ Emptied(doc, path)
          = {p \in DOMAIN doc : ~AtOrUnder(p, path) /\ p \notin Emptied(doc, path)}
    OBVIOUS
  <1> QED BY <1>1 DEF DropPath, Emptied

LEMMA DropPathHas ==
  ASSUME NEW doc, NEW path
  PROVE  /\ \A p : p \in DOMAIN DropPath(doc, path)
                   <=> p \in DOMAIN doc /\ ~AtOrUnder(p, path) /\ p \notin Emptied(doc, path)
         /\ \A p \in DOMAIN DropPath(doc, path) : DropPath(doc, path)[p] = doc[p]
  <1> DEFINE paths == {p \in DOMAIN doc : ~AtOrUnder(p, path) /\ p \notin Emptied(doc, path)}
  <1>1. DropPath(doc, path) = Only(doc, paths)
    BY DropPathIs
  <1>2. DOMAIN Only(doc, paths) = paths /\ \A p \in paths : Only(doc, paths)[p] = doc[p]
    BY OnlyPart
  <1> QED BY <1>1, <1>2

\* No leaf goes that is not at path or under it.
LEMMA DropPathPart ==
  ASSUME NEW doc, NEW path
  PROVE  /\ DOMAIN DropPath(doc, path) \subseteq DOMAIN doc
         /\ \A p \in DOMAIN DropPath(doc, path) :
              DropPath(doc, path)[p] = doc[p] /\ ~AtOrUnder(p, path)
         /\ \A p \in DOMAIN doc :
              doc[p] # Object /\ ~AtOrUnder(p, path) => p \in DOMAIN DropPath(doc, path)
         /\ \A p \in DOMAIN doc :
              ~Under(path, p) /\ ~AtOrUnder(p, path) => p \in DOMAIN DropPath(doc, path)
  BY DropPathHas DEF Emptied

LEMMA DropPathIsTree ==
  ASSUME NEW doc, Tree(doc), NEW path \in Path
  PROVE  Tree(DropPath(doc, path))
  <1> DEFINE paths == {p \in DOMAIN doc : ~AtOrUnder(p, path) /\ p \notin Emptied(doc, path)}
  <1>1. ASSUME NEW p \in paths, NEW q \in DOMAIN doc, Under(p, q), q \notin paths PROVE FALSE
    <2>1. p \in Path /\ q \in Path
      BY DEF Tree
    <2>2. ~AtOrUnder(q, path)
      BY <1>1, AtOrUnderTrans DEF Under
    <2>3. q \in Emptied(doc, path)
      BY <1>1, <2>2
    <2>4. Under(path, p) /\ doc[p] = Object
      BY <1>1, <2>3 DEF Emptied
    <2>5. ASSUME NEW r \in DOMAIN doc, ~AtOrUnder(r, path), Under(r, p)
          PROVE  Under(path, r) /\ doc[r] = Object
      <3>1. r \in Path
        BY DEF Tree
      <3>2. Under(r, q)
        BY <1>1, <2>1, <2>5, <3>1, UnderTrans DEF Under
      <3> QED BY <2>3, <2>5, <3>2 DEF Emptied
    <2>6. p \in Emptied(doc, path)
      BY <2>4, <2>5 DEF Emptied
    <2> QED BY <2>6
  <1>2. \A p \in paths, q \in DOMAIN doc : Under(p, q) => q \in paths
    BY <1>1
  <1>3. Tree(Only(doc, paths))
    BY <1>2, PartIsTree
  <1> QED BY <1>3, DropPathIs

\* Nothing is left empty.
LEMMA DropPathEmptiesNothing ==
  ASSUME NEW doc, Tree(doc), NothingEmpty(doc), NEW path \in Path
  PROVE  NothingEmpty(DropPath(doc, path))
  <1> DEFINE left == DropPath(doc, path)
  <1> SUFFICES ASSUME NEW p \in DOMAIN left, left[p] = Object,
                      ~\E q \in DOMAIN left : Under(q, p)
               PROVE  FALSE
    BY DEF NothingEmpty
  <1>1. p \in DOMAIN doc /\ doc[p] = Object /\ ~AtOrUnder(p, path) /\ p \notin Emptied(doc, path)
    BY DropPathHas
  <1>2. \A q \in DOMAIN doc : Under(q, p) => AtOrUnder(q, path) \/ q \in Emptied(doc, path)
    BY DropPathHas
  <1>3. PICK q \in DOMAIN doc : Under(q, p)
    BY <1>1 DEF NothingEmpty
  <1>4. p \in Path /\ q \in Path
    BY <1>1 DEF Tree
  <1>5. Under(path, p)
    <2>1. CASE AtOrUnder(q, path)
      BY <1>1, <1>3, <1>4, <2>1, Comparable, AtOrUnderSelf DEF Under
    <2>2. CASE q \in Emptied(doc, path)
      BY <1>3, <1>4, <2>2, UnderTrans DEF Emptied, Under
    <2> QED BY <1>2, <1>3, <2>1, <2>2
  <1>6. p \in Emptied(doc, path)
    BY <1>1, <1>2, <1>5 DEF Emptied
  <1> QED BY <1>1, <1>6


-----------------------------------------------------------------------------
(* The paths of the fields and of the blocks.                              *)

\* All that to_config can have as objects, and where the fields are.
AllBlocks == {Game, Props, Persistence, Databases, Header, Operating, Rcon}
FieldPaths == {PathOf(f) : f \in Fields}

LEMMA FieldsAre ==
  /\ Fields = {"scenario", "max", "cross", "plats", "players", "mods", "grass", "hive", "navs",
               "password", "clients", "blacklist"}
  /\ Home["scenario"] = Game /\ Home["max"] = Game /\ Home["cross"] = Game
  /\ Home["plats"] = Game /\ Home["players"] = Game /\ Home["mods"] = Game
  /\ Home["grass"] = Props /\ Home["hive"] = Persistence /\ Home["navs"] = Operating
  /\ Home["password"] = Rcon /\ Home["clients"] = Rcon /\ Home["blacklist"] = Rcon
  BY DEF Fields, Home

LEMMA BlockPaths ==
  /\ AllBlocks \subseteq Path /\ BindPort \in Path /\ RconPort \in Path
  /\ Len(Game) = 1 /\ Len(Operating) = 1 /\ Len(Rcon) = 1 /\ Len(BindPort) = 1
  /\ Props = Append(Game, "props") /\ Persistence = Append(Props, "persistence")
  /\ Databases = Append(Persistence, "databases") /\ Header = Append(Props, "header")
  /\ RconPort = Append(Rcon, "port")
  <1>1. Game \in Path /\ Operating \in Path /\ Rcon \in Path /\ BindPort \in Path
    BY KeysAssumption DEF Game, Operating, Rcon, BindPort, Path
  <1>2. Props \in Path /\ Header \in Path /\ RconPort \in Path
    BY KeysAssumption DEF Props, Header, RconPort, Path
  <1>3. Persistence \in Path /\ Databases \in Path
    BY KeysAssumption DEF Persistence, Databases, Path
  <1>4. Len(Game) = 1 /\ Len(Operating) = 1 /\ Len(Rcon) = 1 /\ Len(BindPort) = 1
    BY DEF Game, Operating, Rcon, BindPort
  <1>5. Props = Append(Game, "props") /\ RconPort = Append(Rcon, "port")
    BY DEF Game, Rcon, Props, RconPort
  <1>6. Persistence = Append(Props, "persistence") /\ Header = Append(Props, "header")
    BY DEF Persistence, Props, Header
  <1>7. Databases = Append(Persistence, "databases")
    BY DEF Persistence, Databases
  <1> QED BY <1>1, <1>2, <1>3, <1>4, <1>5, <1>6, <1>7 DEF AllBlocks

LEMMA HomeIsBlock == \A f \in Fields : Home[f] \in {Game, Props, Persistence, Operating, Rcon}
  BY FieldsAre

LEMMA HomeIsPath == \A f \in Fields : Home[f] \in Path /\ f \in Keys
  <1>1. \A f \in Fields : f \in Keys
    BY KeysAssumption
  <1>2. \A f \in Fields : Home[f] \in AllBlocks
    BY HomeIsBlock DEF AllBlocks
  <1> QED BY <1>1, <1>2, BlockPaths

LEMMA AppendIsPath ==
  ASSUME NEW p \in Path, NEW x \in Keys
  PROVE  /\ Append(p, x) \in Path /\ Under(Append(p, x), p)
         /\ Len(Append(p, x)) = Len(p) + 1 /\ Append(p, x)[Len(p) + 1] = x
         /\ \A i \in 1 .. Len(p) : Append(p, x)[i] = p[i]
  <1>0. p \in Seq(Keys)
    BY DEF Path
  <1> DEFINE a == Append(p, x)
  <1>1. /\ a \in Seq(Keys) /\ a # <<>> /\ Len(a) = Len(p) + 1 /\ a[Len(p) + 1] = x
        /\ \A i \in 1 .. Len(p) : a[i] = p[i]
    BY <1>0, AppendProperties
  <1> HIDE DEF a
  <1>2. Len(p) \in Nat /\ DOMAIN p = 1 .. Len(p) /\ DOMAIN a = 1 .. Len(p) + 1
    BY <1>0, <1>1
  <1>3. \A i \in DOMAIN p : i \in DOMAIN a /\ a[i] = p[i]
    BY <1>1, <1>2
  <1>4. a # p
    BY <1>1, <1>2
  <1>5. a \in Path /\ Under(a, p)
    BY <1>1, <1>3, <1>4 DEF Path, Under, AtOrUnder
  <1> QED BY <1>1, <1>5 DEF a

LEMMA AboveAppend ==
  ASSUME NEW p \in Path, NEW x \in Keys, NEW q \in Path, Under(Append(p, x), q)
  PROVE  AtOrUnder(p, q)
  <1> DEFINE a == Append(p, x)
  <1>1. a \in Path /\ Len(a) = Len(p) + 1 /\ \A i \in 1 .. Len(p) : a[i] = p[i]
    BY AppendIsPath
  <1>2. Under(a, q)
    OBVIOUS
  <1> HIDE DEF a
  <1>3. Len(q) \in 1 .. Len(p)
    BY <1>1, <1>2, AboveIsPrefix DEF Path
  <1> QED BY <1>1, <1>2, <1>3 DEF AtOrUnder, Under, Path

LEMMA NothingAboveOne ==
  ASSUME NEW p \in Path, Len(p) = 1, NEW q \in Path, Under(p, q)
  PROVE  FALSE
  BY AboveIsPrefix DEF Path

LEMMA FieldPath ==
  ASSUME NEW f \in Fields
  PROVE  /\ PathOf(f) \in Path /\ Under(PathOf(f), Home[f])
         /\ PathOf(f)[Len(PathOf(f))] = f
         /\ \A q \in Path : Under(PathOf(f), q) => AtOrUnder(Home[f], q)
  <1>1. Home[f] \in Path /\ f \in Keys
    BY HomeIsPath
  <1> QED BY <1>1, AppendIsPath, AboveAppend DEF PathOf

LEMMA AboveBlocks ==
  ASSUME NEW q \in Path
  PROVE  /\ Under(Props, q) => AtOrUnder(Game, q)
         /\ Under(Persistence, q) => AtOrUnder(Props, q)
         /\ Under(Header, q) => AtOrUnder(Props, q)
         /\ Under(Databases, q) => AtOrUnder(Persistence, q)
         /\ Under(RconPort, q) => AtOrUnder(Rcon, q)
  <1>0. /\ Game \in Path /\ Props \in Path /\ Persistence \in Path /\ Rcon \in Path
        /\ "props" \in Keys /\ "persistence" \in Keys /\ "header" \in Keys
        /\ "databases" \in Keys /\ "port" \in Keys
    BY BlockPaths, KeysAssumption DEF AllBlocks
  <1>1. Under(Append(Game, "props"), q) => AtOrUnder(Game, q)
    BY <1>0, AboveAppend
  <1>2. Under(Append(Props, "persistence"), q) => AtOrUnder(Props, q)
    BY <1>0, AboveAppend
  <1>3. Under(Append(Props, "header"), q) => AtOrUnder(Props, q)
    BY <1>0, AboveAppend
  <1>4. Under(Append(Persistence, "databases"), q) => AtOrUnder(Persistence, q)
    BY <1>0, AboveAppend
  <1>5. Under(Append(Rcon, "port"), q) => AtOrUnder(Rcon, q)
    BY <1>0, AboveAppend
  <1> QED BY <1>1, <1>2, <1>3, <1>4, <1>5, BlockPaths

LEMMA AboveBlock ==
  ASSUME NEW b \in AllBlocks, NEW q \in Path, Under(b, q)
  PROVE  /\ b \notin {Game, Operating, Rcon}
         /\ b = Props => q = Game
         /\ b \in {Persistence, Header} => q \in {Game, Props}
         /\ b = Databases => q \in {Game, Props, Persistence}
  <1> USE BlockPaths
  <1>0. Game \in Path /\ Props \in Path /\ Persistence \in Path /\ Operating \in Path /\ Rcon \in Path
    BY DEF AllBlocks
  <1>1. b \notin {Game, Operating, Rcon}
    BY <1>0, NothingAboveOne
  <1>2. ASSUME AtOrUnder(Game, q) PROVE q = Game
    BY <1>0, <1>2, NothingAboveOne DEF Under
  <1>3. ASSUME AtOrUnder(Props, q) PROVE q \in {Game, Props}
    <2>1. CASE Under(Props, q)
      BY <1>0, <1>2, <2>1, AboveBlocks
    <2> QED BY <1>3, <2>1 DEF Under
  <1>4. ASSUME AtOrUnder(Persistence, q) PROVE q \in {Game, Props, Persistence}
    <2>1. CASE Under(Persistence, q)
      BY <1>0, <1>3, <2>1, AboveBlocks
    <2> QED BY <1>4, <2>1 DEF Under
  <1>5. b = Props => q = Game
    BY <1>0, <1>2, AboveBlocks
  <1>6. b \in {Persistence, Header} => q \in {Game, Props}
    BY <1>0, <1>3, AboveBlocks
  <1>7. b = Databases => q \in {Game, Props, Persistence}
    BY <1>0, <1>4, AboveBlocks
  <1> QED BY <1>1, <1>5, <1>6, <1>7

LEMMA AboveField ==
  ASSUME NEW f \in Fields, NEW q \in Path, Under(PathOf(f), q)
  PROVE  /\ q \in {Game, Props, Persistence, Operating, Rcon}
         /\ Home[f] \in {Game, Operating, Rcon} => q = Home[f]
         /\ Home[f] = Props => q \in {Game, Props}
         /\ Home[f] = Persistence => q \in {Game, Props, Persistence}
  <1>1. AtOrUnder(Home[f], q)
    BY FieldPath
  <1>2. Home[f] \in AllBlocks
    BY HomeIsBlock DEF AllBlocks
  <1>3. q = Home[f] \/ Under(Home[f], q)
    BY <1>1 DEF Under
  <1> QED BY <1>2, <1>3, HomeIsBlock, AboveBlock

\* The paths differ.
LEMMA FieldIsNoBlock ==
  \A f \in Fields : PathOf(f) \notin AllBlocks \cup {BindPort, RconPort}
  <1> SUFFICES ASSUME NEW f \in Fields, PathOf(f) \in AllBlocks \cup {BindPort, RconPort}
               PROVE  FALSE
    OBVIOUS
  <1> DEFINE p == PathOf(f)
  <1>1. p[Len(p)] = f
    BY FieldPath
  <1>2. p[Len(p)] \in {"game", "props", "persistence", "databases", "header", "operating", "rcon",
                       "bindPort", "port"}
    BY DEF AllBlocks, Game, Props, Persistence, Databases, Header, Operating, Rcon, BindPort,
           RconPort
  <1> QED BY <1>1, <1>2, FieldsAre

LEMMA FieldsDiffer == \A f, g \in Fields : PathOf(f) = PathOf(g) => f = g
  BY FieldPath

LEMMA BlocksDiffer ==
  /\ BindPort \notin AllBlocks /\ RconPort \notin AllBlocks /\ BindPort # RconPort
  /\ Game # Props /\ Game # Persistence /\ Game # Databases /\ Game # Header
  /\ Game # Operating /\ Game # Rcon /\ Props # Persistence /\ Props # Databases
  /\ Props # Header /\ Props # Operating /\ Props # Rcon
  /\ Persistence # Databases /\ Persistence # Header /\ Persistence # Operating
  /\ Persistence # Rcon /\ Databases # Header /\ Databases # Operating
  /\ Databases # Rcon /\ Header # Operating /\ Header # Rcon /\ Operating # Rcon
  BY DEF AllBlocks, Game, Props, Persistence, Databases, Header, Operating, Rcon, BindPort,
         RconPort

\* Which of them are at or under which.
LEMMA HeaderApart ==
  /\ \A f \in Fields : ~AtOrUnder(PathOf(f), Header) /\ ~AtOrUnder(Header, PathOf(f))
  /\ \A b \in AllBlocks : ~Under(b, Header)
  /\ ~AtOrUnder(BindPort, Header) /\ ~AtOrUnder(RconPort, Header)
  <1> USE BlockPaths, BlocksDiffer
  <1>0. Header \in Path /\ Header \in AllBlocks /\ Rcon \in Path
    BY DEF AllBlocks
  <1>1. ASSUME NEW f \in Fields PROVE ~AtOrUnder(PathOf(f), Header)
    BY <1>0, AboveField, FieldIsNoBlock DEF Under
  <1>2. ASSUME NEW f \in Fields PROVE ~AtOrUnder(Header, PathOf(f))
    <2>1. PathOf(f) \in Path /\ PathOf(f) \notin AllBlocks
      BY FieldPath, FieldIsNoBlock
    <2>2. AtOrUnder(Header, PathOf(f)) => Under(Header, PathOf(f))
      BY <2>1, <1>0 DEF Under
    <2>3. Under(Header, PathOf(f)) => PathOf(f) \in {Game, Props}
      BY <1>0, <2>1, AboveBlock
    <2> QED BY <2>1, <2>2, <2>3 DEF AllBlocks
  <1>3. ASSUME NEW b \in AllBlocks PROVE ~Under(b, Header)
    BY <1>0, AboveBlock DEF AllBlocks
  <1>4. ~AtOrUnder(BindPort, Header)
    BY <1>0, NothingAboveOne DEF Under
  <1>5. ~AtOrUnder(RconPort, Header)
    <2>1. ~AtOrUnder(Rcon, Header)
      BY <1>0, NothingAboveOne DEF Under
    <2>2. RconPort # Header
      BY <1>0
    <2> QED BY <1>0, <2>1, <2>2, AboveBlocks DEF Under
  <1> QED BY <1>1, <1>2, <1>3, <1>4, <1>5

LEMMA FieldsApart == \A f, g \in Fields : AtOrUnder(PathOf(f), PathOf(g)) => f = g
  <1> SUFFICES ASSUME NEW f \in Fields, NEW g \in Fields, AtOrUnder(PathOf(f), PathOf(g)), f # g
               PROVE  FALSE
    OBVIOUS
  <1>1. PathOf(f) # PathOf(g)
    BY FieldsDiffer
  <1>2. PathOf(g) \in Path /\ PathOf(g) \notin AllBlocks
    BY FieldPath, FieldIsNoBlock
  <1>3. PathOf(g) \in {Game, Props, Persistence, Operating, Rcon}
    BY <1>1, <1>2, AboveField DEF Under
  <1> QED BY <1>2, <1>3 DEF AllBlocks


-----------------------------------------------------------------------------
(* What is rendered.                                                       *)

\* A mission header, said of paths above and below each other.
LEMMA HeaderIs ==
  ASSUME NEW h
  PROVE  IsHeader(h) <=>
           /\ h = [p \in DOMAIN h |-> h[p]]
           /\ \A p \in DOMAIN h : p \in Path /\ Under(p, Header)
           /\ \A p \in DOMAIN h, q \in Path : Under(p, q) /\ Under(q, Header) => IsObject(h, q)
  <1>0. Header \in Path /\ Len(Header) \in Nat
    BY BlockPaths DEF AllBlocks, Path
  <1>1. ASSUME IsHeader(h), NEW p \in DOMAIN h, NEW q \in Path, Under(p, q), Under(q, Header)
        PROVE  IsObject(h, q)
    <2>1. p \in Path
      BY <1>1 DEF IsHeader, IsPath, Path
    <2>2. Len(q) \in 1 .. Len(p) - 1 /\ q = SubSeq(p, 1, Len(q))
      BY <1>1, <2>1, AboveIsPrefix
    <2>3. Len(Header) \in 1 .. Len(q) - 1
      BY <1>0, <1>1, AboveIsPrefix
    <2>4. Len(q) \in Len(Header) + 1 .. Len(p) - 1
      BY <1>0, <2>1, <2>2, <2>3 DEF Path
    <2>5. IsObject(h, SubSeq(p, 1, Len(q)))
      BY <1>1, <2>4 DEF IsHeader
    <2> QED BY <2>2, <2>5
  <1>2. ASSUME \A p \in DOMAIN h : p \in Path /\ Under(p, Header),
               \A p \in DOMAIN h, q \in Path : Under(p, q) /\ Under(q, Header) => IsObject(h, q),
               NEW p \in DOMAIN h, NEW n \in Len(Header) + 1 .. Len(p) - 1
        PROVE  IsObject(h, SubSeq(p, 1, n))
    <2> DEFINE q == SubSeq(p, 1, n)
    <2>1. p \in Path /\ n \in 1 .. Len(p) - 1
      BY <1>0, <1>2 DEF Path
    <2>2. q \in Path /\ Under(p, q) /\ Len(q) = n
      BY <2>1, PrefixIsAbove
    <2>3. q # Header /\ ~AtOrUnder(Header, q)
      <3> HIDE DEF q
      <3>1. n \in Nat /\ n > Len(Header) /\ n >= 1
        BY <1>0, <1>2, <2>1
      <3>2. DOMAIN q = 1 .. n /\ DOMAIN Header = 1 .. Len(Header)
        BY <1>0, <2>2 DEF Path
      <3>3. n \in DOMAIN q /\ n \notin DOMAIN Header
        BY <1>0, <3>1, <3>2
      <3> QED BY <3>3 DEF AtOrUnder
    <2>4. AtOrUnder(q, Header)
      BY <1>0, <1>2, <2>1, <2>2, <2>3, Comparable DEF Under
    <2> QED BY <1>2, <2>2, <2>3, <2>4 DEF Under
  <1>3. \A p : p \in Path <=> IsPath(p)
    BY DEF Path, IsPath
  <1>4. IsHeader(h) =>
           /\ h = [p \in DOMAIN h |-> h[p]]
           /\ \A p \in DOMAIN h : p \in Path /\ Under(p, Header)
    BY <1>3 DEF IsHeader
  <1>5. ASSUME h = [p \in DOMAIN h |-> h[p]],
               \A p \in DOMAIN h : p \in Path /\ Under(p, Header),
               \A p \in DOMAIN h, q \in Path : Under(p, q) /\ Under(q, Header) => IsObject(h, q)
        PROVE  IsHeader(h)
    BY <1>2, <1>3, <1>5 DEF IsHeader
  <1> QED BY <1>1, <1>4, <1>5

LEMMA EmptyHeader == IsHeader(Empty) /\ Tree(Empty) /\ DOMAIN Empty = {}
  <1>1. DOMAIN Empty = {} /\ Empty = [p \in DOMAIN Empty |-> Empty[p]]
    BY DEF Empty
  <1> QED BY <1>1 DEF IsHeader, Tree

\* Under which condition to_config writes each block and each field.
LEMMA BlocksAre ==
  ASSUME NEW s
  PROVE  /\ Blocks(s) \subseteq AllBlocks
         /\ Game \in Blocks(s) /\ Props \in Blocks(s) /\ Operating \in Blocks(s)
         /\ Persistence \in Blocks(s) <=> "persists" \in s.on
         /\ Databases \in Blocks(s) <=> "persists" \in s.on
         /\ Rcon \in Blocks(s) <=> s.field["password"] # ""
         /\ Header \in Blocks(s) <=> s.header # Empty
         /\ BindPort \in Fixed(s)
         /\ RconPort \in Fixed(s) <=> s.field["password"] # ""
         /\ Fixed(s) \subseteq {BindPort, RconPort}
  <1>1. Blocks(s) \subseteq AllBlocks
    BY DEF Blocks, AllBlocks
  <1>2. Game \in Blocks(s) /\ Props \in Blocks(s) /\ Operating \in Blocks(s)
    BY DEF Blocks
  <1>3. Persistence \in Blocks(s) <=> "persists" \in s.on
    BY BlocksDiffer DEF Blocks
  <1>4. Databases \in Blocks(s) <=> "persists" \in s.on
    BY BlocksDiffer DEF Blocks
  <1>5. Rcon \in Blocks(s) <=> s.field["password"] # ""
    BY BlocksDiffer DEF Blocks
  <1>6. Header \in Blocks(s) <=> s.header # Empty
    BY BlocksDiffer DEF Blocks
  <1>7. /\ BindPort \in Fixed(s) /\ Fixed(s) \subseteq {BindPort, RconPort}
        /\ RconPort \in Fixed(s) <=> s.field["password"] # ""
    BY BlocksDiffer DEF Fixed
  <1> QED BY <1>1, <1>2, <1>3, <1>4, <1>5, <1>6, <1>7

LEMMA WrittenAre ==
  ASSUME NEW s
  PROVE  /\ Written(s) \subseteq Fields
         /\ \A f \in {"scenario", "max", "cross", "plats", "mods", "grass"} : f \in Written(s)
         /\ "players" \in Written(s) <=> s.field["players"] # "none"
         /\ "navs" \in Written(s) <=> "nav" \in s.on
         /\ "hive" \in Written(s) <=> "persists" \in s.on
         /\ \A f \in {"password", "clients", "blacklist"} :
              f \in Written(s) <=> s.field["password"] # ""
  <1>1. \A f \in Fields : Home[f] = Persistence <=> f = "hive"
    BY FieldsAre, BlocksDiffer
  <1>2. \A f \in Fields : Home[f] = Rcon <=> f \in {"password", "clients", "blacklist"}
    BY FieldsAre, BlocksDiffer
  <1>3. \A f : f \in Written(s) <=>
          /\ f \in Fields
          /\ f = "players" => s.field[f] # "none"
          /\ f = "navs" => "nav" \in s.on
          /\ f = "hive" => "persists" \in s.on
          /\ f \in {"password", "clients", "blacklist"} => s.field["password"] # ""
    BY <1>1, <1>2 DEF Written
  <1> HIDE DEF Written
  <1> QED BY <1>3, FieldsAre

\* Config key by key: no path is two of block, fixed value, field and header entry.
LEMMA ConfigHas ==
  ASSUME NEW s, IsHeader(s.header)
  PROVE  /\ \A p : p \in DOMAIN Config(s) <=>
                     \/ p \in Blocks(s) \/ p \in Fixed(s)
                     \/ \E f \in Written(s) : p = PathOf(f)
                     \/ p \in DOMAIN s.header
         /\ \A p \in Blocks(s) : Config(s)[p] = Object
         /\ \A p \in Fixed(s) : Config(s)[p] = "fixed"
         /\ \A f \in Written(s) : Config(s)[PathOf(f)] = s.field[f]
         /\ \A p \in DOMAIN s.header : Config(s)[p] = s.header[p]
         /\ Config(s) = [p \in DOMAIN Config(s) |-> Config(s)[p]]
  <1> DEFINE fields == {PathOf(f) : f \in Written(s)}
  <1>1. \A p \in DOMAIN s.header : p \in Path /\ Under(p, Header)
    BY HeaderIs
  <1>2. Written(s) \subseteq Fields
    BY WrittenAre
  <1>3. Blocks(s) \subseteq AllBlocks /\ Fixed(s) \subseteq {BindPort, RconPort}
    BY BlocksAre
  <1>4. \A p \in Fixed(s) : p \notin Blocks(s)
    BY <1>3, BlocksDiffer
  <1>5. \A f \in Written(s) : PathOf(f) \notin Blocks(s) /\ PathOf(f) \notin Fixed(s)
    BY <1>2, <1>3, FieldIsNoBlock
  <1>6. \A p \in DOMAIN s.header : p \notin Blocks(s) /\ p \notin Fixed(s) /\ p \notin fields
    BY <1>1, <1>2, <1>3, HeaderApart DEF Under
  <1>7. \A f \in Written(s) : PathOf(f)[Len(PathOf(f))] = f
    BY <1>2, FieldPath
  <1>8. Config(s) = [p \in Blocks(s) \cup Fixed(s) \cup fields \cup DOMAIN s.header |->
                       IF p \in Blocks(s) THEN Object
                       ELSE IF p \in Fixed(s) THEN "fixed"
                       ELSE IF p \in fields THEN s.field[p[Len(p)]] ELSE s.header[p]]
    BY DEF Config
  <1>9. DOMAIN Config(s) = Blocks(s) \cup Fixed(s) \cup fields \cup DOMAIN s.header
    BY <1>8
  <1>10. \A p : p \in DOMAIN Config(s) <=>
                     \/ p \in Blocks(s) \/ p \in Fixed(s)
                     \/ \E f \in Written(s) : p = PathOf(f)
                     \/ p \in DOMAIN s.header
    BY <1>9
  <1>11. \A p \in Blocks(s) : Config(s)[p] = Object
    BY <1>8
  <1>12. \A p \in Fixed(s) : Config(s)[p] = "fixed"
    BY <1>8, <1>4
  <1>13. \A f \in Written(s) : Config(s)[PathOf(f)] = s.field[f]
    <2> TAKE f \in Written(s)
    <2>1. PathOf(f) \in fields
      OBVIOUS
    <2>2. Config(s)[PathOf(f)] = s.field[PathOf(f)[Len(PathOf(f))]]
      BY <1>8, <1>5, <2>1
    <2> QED BY <2>2, <1>7
  <1>14. \A p \in DOMAIN s.header : Config(s)[p] = s.header[p]
    BY <1>8, <1>6
  <1>15. Config(s) = [p \in DOMAIN Config(s) |-> Config(s)[p]]
    BY <1>8
  <1> QED BY <1>10, <1>11, <1>12, <1>13, <1>14, <1>15

\* Every key of to_config is in its blocks.
LEMMA ConfigIsTree ==
  ASSUME NEW s, IsHeader(s.header)
  PROVE  Tree(Config(s))
  <1> DEFINE c == Config(s)
  <1>0. /\ Blocks(s) \subseteq AllBlocks /\ AllBlocks \subseteq Path
        /\ Written(s) \subseteq Fields /\ Header \in Path /\ Rcon \in Path
    BY BlocksAre, BlockPaths, WrittenAre DEF AllBlocks
  <1>1. ASSUME NEW p \in DOMAIN c PROVE p \in Path
    <2>1. CASE p \in Blocks(s)
      BY <1>0, <2>1
    <2>2. CASE p \in Fixed(s)
      BY <2>2, BlocksAre, BlockPaths
    <2>3. CASE \E f \in Written(s) : p = PathOf(f)
      BY <1>0, <2>3, FieldPath
    <2>4. CASE p \in DOMAIN s.header
      BY <2>4, HeaderIs
    <2> QED BY <2>1, <2>2, <2>3, <2>4, ConfigHas
  <1>2. ASSUME NEW p \in DOMAIN c, NEW q \in Path, Under(p, q), ~IsObject(c, q) PROVE FALSE
    <2>0. q \notin Blocks(s)
      BY <1>2, ConfigHas DEF IsObject
    <2>1. CASE p \in Blocks(s)
      <3>1. p = Databases => Persistence \in Blocks(s)
        BY <2>1, BlocksAre
      <3>2. Game \in Blocks(s) /\ Props \in Blocks(s)
        BY BlocksAre
      <3>3. p \in {Props, Persistence, Header, Databases}
        BY <1>0, <1>2, <2>1, AboveBlock DEF AllBlocks
      <3> QED BY <1>0, <1>2, <2>0, <2>1, <3>1, <3>2, <3>3, AboveBlock
    <2>2. CASE p \in Fixed(s)
      <3>1. p \in {BindPort, RconPort}
        BY <2>2, BlocksAre
      <3>2. p # BindPort
        BY <1>2, BlockPaths, NothingAboveOne
      <3>3. AtOrUnder(Rcon, q)
        BY <1>2, <3>1, <3>2, AboveBlocks
      <3>4. q = Rcon
        BY <1>0, <3>3, BlockPaths, NothingAboveOne DEF Under
      <3> QED BY <2>0, <2>2, <3>1, <3>2, <3>4, BlocksAre
    <2>3. CASE \E f \in Written(s) : p = PathOf(f)
      <3>1. PICK f \in Written(s) : p = PathOf(f)
        BY <2>3
      <3>2. f \in Fields /\ Home[f] \in {Game, Props, Persistence, Operating, Rcon}
        BY <1>0, HomeIsBlock
      <3>3. Home[f] = Persistence => Persistence \in Blocks(s)
        BY BlocksAre DEF Written
      <3>4. Home[f] = Rcon => Rcon \in Blocks(s)
        BY BlocksAre DEF Written
      <3>5. Game \in Blocks(s) /\ Props \in Blocks(s) /\ Operating \in Blocks(s)
        BY BlocksAre
      <3>6. CASE Home[f] \in {Game, Operating, Rcon}
        BY <1>2, <2>0, <3>1, <3>2, <3>4, <3>5, <3>6, AboveField
      <3>7. CASE Home[f] \in {Props, Persistence}
        BY <1>2, <2>0, <3>1, <3>2, <3>3, <3>5, <3>7, AboveField
      <3> QED BY <3>2, <3>6, <3>7
    <2>4. CASE p \in DOMAIN s.header
      <3>1. p \in Path /\ Under(p, Header)
        BY <2>4, HeaderIs
      <3>2. Header \in Blocks(s) /\ Game \in Blocks(s) /\ Props \in Blocks(s)
        BY <2>4, EmptyHeader, BlocksAre
      <3>3. CASE Under(q, Header)
        <4>1. q \in DOMAIN s.header /\ s.header[q] = Object
          BY <1>2, <2>4, <3>3, HeaderIs DEF IsObject
        <4> QED BY <1>2, <4>1, ConfigHas DEF IsObject
      <3>4. CASE ~Under(q, Header)
        <4>1. q # Header /\ AtOrUnder(Header, q)
          BY <1>0, <1>2, <2>0, <3>1, <3>2, <3>4, Comparable DEF Under
        <4>2. q \in {Game, Props}
          BY <4>1, <1>0, AboveBlock DEF Under, AllBlocks
        <4> QED BY <2>0, <3>2, <4>2
      <3> QED BY <3>3, <3>4
    <2> QED BY <2>1, <2>2, <2>3, <2>4, ConfigHas
  <1>3. \A p \in DOMAIN c, q \in Path : Under(p, q) => q \in DOMAIN c /\ c[q] = Object
    BY <1>2 DEF IsObject
  <1>4. c = [p \in DOMAIN c |-> c[p]]
    BY ConfigHas
  <1>5. DOMAIN c \subseteq Path
    BY <1>1
  <1> QED BY <1>3, <1>4, <1>5 DEF Tree

\* The validators change fields only, and nothing of what they have made.
LEMMA CleanIs ==
  ASSUME NEW s, IsSpec(s)
  PROVE  /\ Clean(s).field = CleanFields(s.field)
         /\ Clean(s).header = s.header /\ Clean(s).on = s.on /\ Clean(s).graph = s.graph
         /\ Clean(s).label = s.label /\ Clean(s).extras = s.extras
         /\ IsSpec(Clean(s))
  <1>1. Clean(s) = [field |-> CleanFields(s.field), header |-> s.header, on |-> s.on,
                    graph |-> s.graph, label |-> s.label, extras |-> s.extras]
    <2> DEFINE v == CleanFields(s.field)
    <2> HIDE DEF v
    <2>1. s = [field |-> s.field, header |-> s.header, on |-> s.on, graph |-> s.graph,
               label |-> s.label, extras |-> s.extras]
      BY DEF IsSpec
    <2>2. [s EXCEPT !.field = v]
            = [field |-> v, header |-> s.header, on |-> s.on, graph |-> s.graph,
               label |-> s.label, extras |-> s.extras]
      BY <2>1
    <2> QED BY <2>2 DEF Clean, v
  <1>2. CleanFields(s.field) = [f \in Fields |-> CleanFields(s.field)[f]]
    BY DEF CleanFields
  <1> HIDE DEF Clean, CleanFields
  <1>3. /\ Clean(s).field = CleanFields(s.field)
        /\ Clean(s).header = s.header /\ Clean(s).on = s.on /\ Clean(s).graph = s.graph
        /\ Clean(s).label = s.label /\ Clean(s).extras = s.extras
    BY <1>1
  <1>4. Clean(s) = [field |-> Clean(s).field, header |-> Clean(s).header, on |-> Clean(s).on,
                    graph |-> Clean(s).graph, label |-> Clean(s).label,
                    extras |-> Clean(s).extras]
    BY <1>1, <1>3
  <1> QED BY <1>2, <1>3, <1>4 DEF IsSpec

LEMMA CleanFieldsAre ==
  ASSUME NEW v
  PROVE  /\ \A f \in {"scenario", "max", "cross", "grass", "hive", "password", "clients"} :
              CleanFields(v)[f] = v[f]
         /\ CleanFields(v)["plats"] = IF v["cross"] = "on" THEN "all"
                                      ELSE IF v["plats"] = "all" THEN "pc" ELSE v["plats"]
         /\ CleanFields(v)["players"] = CleanPlayers(v["players"])
         /\ CleanFields(v)["mods"] = CleanMods(v["mods"])
         /\ \A f \in NameLists : CleanFields(v)[f] = CleanNames(v[f])
  BY FieldsAre DEF CleanFields, NameLists

LEMMA CleanTwice ==
  /\ \A x : CleanMods(CleanMods(x)) = CleanMods(x)
  /\ \A x : CleanNames(CleanNames(x)) = CleanNames(x)
  /\ \A x : CleanPlayers(CleanPlayers(x)) = CleanPlayers(x)
  BY DEF CleanMods, CleanNames, CleanPlayers

LEMMA CleanFieldsTwice == \A v : CleanFields(CleanFields(v)) = CleanFields(v)
  <1> TAKE v
  <1> DEFINE w == CleanFields(v)
  <1>1. ASSUME NEW f \in Fields PROVE CleanFields(w)[f] = w[f]
    <2>1. CASE f \in {"scenario", "max", "cross", "grass", "hive", "password", "clients"}
      BY <2>1, CleanFieldsAre
    <2>2. CASE f = "plats"
      <3>1. w["cross"] = v["cross"]
        BY CleanFieldsAre
      <3>2. w["plats"] = IF v["cross"] = "on" THEN "all"
                         ELSE IF v["plats"] = "all" THEN "pc" ELSE v["plats"]
        BY CleanFieldsAre
      <3>3. CleanFields(w)["plats"] = IF w["cross"] = "on" THEN "all"
                                      ELSE IF w["plats"] = "all" THEN "pc" ELSE w["plats"]
        BY CleanFieldsAre
      <3> HIDE DEF w
      <3> QED BY <2>2, <3>1, <3>2, <3>3
    <2>3. CASE f = "players"
      BY <2>3, CleanFieldsAre, CleanTwice
    <2>4. CASE f = "mods"
      BY <2>4, CleanFieldsAre, CleanTwice
    <2>5. CASE f \in NameLists
      BY <2>5, CleanFieldsAre, CleanTwice
    <2> QED BY <2>1, <2>2, <2>3, <2>4, <2>5, FieldsAre DEF NameLists
  <1>2. w = [f \in Fields |-> w[f]] /\ CleanFields(w) = [f \in Fields |-> CleanFields(w)[f]]
    BY DEF CleanFields
  <1> HIDE DEF w
  <1>3. CleanFields(w) = w
    BY <1>1, <1>2
  <1> QED BY <1>3 DEF w

LEMMA CleanSpecTwice == ASSUME NEW s, IsSpec(s) PROVE Clean(Clean(s)) = Clean(s)
  <1> DEFINE c == Clean(s)
  <1>1. IsSpec(c) /\ c.field = CleanFields(s.field)
    BY CleanIs
  <1> HIDE DEF c
  <1>2. CleanFields(c.field) = c.field
    BY <1>1, CleanFieldsTwice
  <1>3. c = [field |-> c.field, header |-> c.header, on |-> c.on, graph |-> c.graph,
             label |-> c.label, extras |-> c.extras]
    BY <1>1 DEF IsSpec
  <1>4. Clean(c) = c
    <2> DEFINE v == CleanFields(c.field)
    <2>1. v = c.field
      BY <1>2
    <2> HIDE DEF v
    <2>2. [c EXCEPT !.field = v] = c
      BY <1>3, <2>1
    <2> QED BY <2>2 DEF Clean, v
  <1> QED BY <1>4 DEF c

\* They make no field null or an object.
LEMMA CleanFieldsTyped ==
  ASSUME NEW v, \A f \in Fields : v[f] \notin {Null, Object}
  PROVE  \A f \in Fields : CleanFields(v)[f] \notin {Null, Object}
  <1> USE DEF Null, Object
  <1> TAKE f \in Fields
  <1>1. CASE f \in {"scenario", "max", "cross", "grass", "hive", "password", "clients"}
    BY <1>1, CleanFieldsAre
  <1>2. CASE f = "plats"
    BY <1>2, CleanFieldsAre
  <1>3. CASE f = "players"
    BY <1>3, CleanFieldsAre DEF CleanPlayers
  <1>4. CASE f = "mods"
    BY <1>4, CleanFieldsAre DEF CleanMods
  <1>5. CASE f \in NameLists
    BY <1>5, CleanFieldsAre, FieldsAre DEF CleanNames, NameLists
  <1> QED BY <1>1, <1>2, <1>3, <1>4, <1>5, FieldsAre DEF NameLists

LEMMA SpecParts ==
  ASSUME NEW s, IsSpec(s)
  PROVE  IsHeader(s.header) /\ Tree(s.extras) /\ Tree(Config(s)) /\ Tree(ToConfig(s))
         /\ Tree(Render(s))
  <1>1. \A t : IsSpec(t) => IsHeader(t.header) /\ Tree(t.extras)
    BY DocIsTree DEF IsSpec
  <1>2. ASSUME NEW t, IsSpec(t) PROVE Tree(Config(t)) /\ Tree(ToConfig(t))
    BY <1>1, <1>2, ConfigIsTree, MergeIsTree DEF ToConfig
  <1>3. IsSpec(Clean(s))
    BY CleanIs
  <1> QED BY <1>1, <1>2, <1>3 DEF Render

\* The keys of the wizard, and those of a mission header, are all that is rendered.
LEMMA KnownPathsAre ==
  /\ AllBlocks \cup {BindPort, RconPort} \cup FieldPaths \subseteq KnownPaths
  /\ KnownPaths \subseteq AllBlocks \cup {BindPort, RconPort} \cup FieldPaths
                            \cup {Append(Header, "_")}
  <1> DEFINE m == Maximal
             h == [p \in {Append(Header, "_")} |-> "_"]
  <1>1. /\ m.field["players"] = "one" /\ m.field["password"] = "_" /\ m.header = h
        /\ m.on = {"persists", "nav"} /\ m.extras = Empty
    <2> DEFINE d == [Absent EXCEPT !["scenario"] = "sc", !["mods"] = "m1"]
               v == [d EXCEPT !["players"] = "one", !["password"] = "_"]
    <2>1. "players" \in DOMAIN d /\ "password" \in DOMAIN d
      BY DEF Absent
    <2>2. v["players"] = "one" /\ v["password"] = "_"
      BY <2>1
    <2>3. Defaults = [field |-> d, header |-> Empty, on |-> {}, graph |-> {"m1"},
                      label |-> "name", extras |-> Empty]
      BY DEF Defaults
    <2>4. Maximal = [Defaults EXCEPT !.field = [@ EXCEPT !["players"] = "one", !["password"] = "_"],
                                     !.header = h, !.on = {"persists", "nav"}]
      BY DEF Maximal
    <2> HIDE DEF d, h
    <2>5. Maximal = [field |-> v, header |-> h, on |-> {"persists", "nav"}, graph |-> {"m1"},
                     label |-> "name", extras |-> Empty]
      BY <2>3, <2>4
    <2> HIDE DEF v
    <2> QED BY <2>2, <2>5
  <1> HIDE DEF m
  <1>2. Written(m) = Fields
    <2>1. m.field["players"] # "none" /\ m.field["password"] # ""
      BY <1>1
    <2>2. "nav" \in m.on /\ "persists" \in m.on
      BY <1>1
    <2>3. Written(m) \subseteq Fields /\ \A f \in Fields : f \in Written(m)
      BY <2>1, <2>2, WrittenAre, FieldsAre
    <2> QED BY <2>3
  <1>3. Header \in Blocks(m)
    <2>1. DOMAIN h # {}
      OBVIOUS
    <2> QED BY <1>1, <2>1, EmptyHeader, BlocksAre
  <1>4. Blocks(m) = AllBlocks /\ Fixed(m) = {BindPort, RconPort}
    BY <1>1, <1>3, BlocksAre DEF AllBlocks
  <1>5. Config(m) = [p \in DOMAIN Config(m) |-> Config(m)[p]]
        /\ DOMAIN Config(m) = Blocks(m) \cup Fixed(m) \cup {PathOf(f) : f \in Written(m)}
                                \cup DOMAIN h
    BY <1>1 DEF Config
  <1>6. ToConfig(m) = Config(m)
    BY <1>1, <1>5, MergeNothing DEF ToConfig
  <1>7. KnownPaths = AllBlocks \cup {BindPort, RconPort} \cup FieldPaths \cup {Append(Header, "_")}
    BY <1>2, <1>4, <1>5, <1>6 DEF KnownPaths, FieldPaths, m
  <1> QED BY <1>7

LEMMA ConfigIsKnown ==
  ASSUME NEW s, IsHeader(s.header), NEW p \in DOMAIN Config(s)
  PROVE  p \in KnownPaths \/ InFreeForm(p)
  <1>1. p \in Blocks(s) => p \in KnownPaths
    BY BlocksAre, KnownPathsAre
  <1>2. p \in Fixed(s) => p \in KnownPaths
    BY BlocksAre, KnownPathsAre
  <1>3. (\E f \in Written(s) : p = PathOf(f)) => p \in KnownPaths
    BY WrittenAre, KnownPathsAre DEF FieldPaths
  <1>4. p \in DOMAIN s.header => InFreeForm(p)
    BY HeaderIs DEF InFreeForm
  <1> QED BY <1>1, <1>2, <1>3, <1>4, ConfigHas


-----------------------------------------------------------------------------
(* What is read.                                                           *)

LEMMA InsideIs ==
  ASSUME NEW cfg, NEW path
  PROVE  /\ \A p : p \in DOMAIN Inside(cfg, path) <=> p \in DOMAIN cfg /\ Under(p, path)
         /\ \A p \in DOMAIN Inside(cfg, path) : Inside(cfg, path)[p] = cfg[p]
         /\ Inside(cfg, path) = [p \in DOMAIN Inside(cfg, path) |-> Inside(cfg, path)[p]]
  BY DEF Inside, Only

LEMMA InsideIsHeader ==
  ASSUME NEW cfg, Tree(cfg)
  PROVE  IsHeader(Inside(cfg, Header))
  <1> DEFINE h == Inside(cfg, Header)
  <1>1. \A p \in DOMAIN h : p \in Path /\ Under(p, Header)
    BY InsideIs DEF Tree
  <1>2. \A p \in DOMAIN h, q \in Path : Under(p, q) /\ Under(q, Header) => IsObject(h, q)
    BY InsideIs DEF Tree, IsObject
  <1>3. h = [p \in DOMAIN h |-> h[p]]
    BY InsideIs
  <1> HIDE DEF h
  <1>4. IsHeader(h)
    BY <1>1, <1>2, <1>3, HeaderIs
  <1> QED BY <1>4 DEF h

\* What spec_from_config takes for a field, but for the clamp.
ReadOut(cfg, f) ==
  IF PathOf(f) \in DOMAIN cfg THEN Value(f, cfg[PathOf(f)]) ELSE Absent[f]

LEMMA ReadIs ==
  ASSUME NEW cfg, NEW strict \in BOOLEAN
  PROVE  LET read == SpecFrom(cfg, strict) IN
         /\ read.field = [f \in Fields |-> read.field[f]]
         /\ \A f \in Fields : f # "grass" => read.field[f] = ReadOut(cfg, f)
         /\ strict \/ ReadOut(cfg, "grass") # "10" => read.field["grass"] = ReadOut(cfg, "grass")
         /\ read.header = Inside(cfg, Header) /\ read.on \subseteq Switches
         /\ "persists" \in read.on <=> Persistence \in DOMAIN cfg
         /\ "nav" \in read.on <=> PathOf("navs") \in DOMAIN cfg
  <1> DEFINE read == SpecFrom(cfg, strict)
             values == [f \in Fields |->
                          IF f = "grass" /\ ReadOut(cfg, f) = "10" /\ ~strict THEN "50"
                          ELSE ReadOut(cfg, f)]
             on == (IF Persistence \in DOMAIN cfg THEN {"persists"} ELSE {})
                     \cup (IF PathOf("navs") \in DOMAIN cfg THEN {"nav"} ELSE {})
  <1>1. read = [field |-> values, header |-> Inside(cfg, Header), on |-> on]
    BY DEF SpecFrom, ReadOut
  <1>2. /\ on \subseteq Switches
        /\ "persists" \in on <=> Persistence \in DOMAIN cfg
        /\ "nav" \in on <=> PathOf("navs") \in DOMAIN cfg
    BY DEF Switches
  <1>3. /\ values = [f \in Fields |-> values[f]]
        /\ \A f \in Fields : f # "grass" => values[f] = ReadOut(cfg, f)
        /\ strict \/ ReadOut(cfg, "grass") # "10" => values["grass"] = ReadOut(cfg, "grass")
    BY FieldsAre
  <1> HIDE DEF read, values, on
  <1>4. read.field = values /\ read.header = Inside(cfg, Header) /\ read.on = on
    BY <1>1
  <1>5. /\ read.field = [f \in Fields |-> read.field[f]]
        /\ \A f \in Fields : f # "grass" => read.field[f] = ReadOut(cfg, f)
        /\ strict \/ ReadOut(cfg, "grass") # "10" => read.field["grass"] = ReadOut(cfg, "grass")
        /\ read.header = Inside(cfg, Header) /\ read.on \subseteq Switches
        /\ "persists" \in read.on <=> Persistence \in DOMAIN cfg
        /\ "nav" \in read.on <=> PathOf("navs") \in DOMAIN cfg
    BY <1>2, <1>3, <1>4
  <1> QED BY <1>5 DEF read

\* What is no list is read as it is.
Plain == {"scenario", "max", "cross", "plats", "mods", "grass", "hive", "password", "clients"}

LEMMA PlainIsRead ==
  ASSUME NEW cfg, NEW f \in Plain, PathOf(f) \in DOMAIN cfg
  PROVE  ReadOut(cfg, f) = cfg[PathOf(f)]
  BY DEF ReadOut, Value, Plain, NameLists

LEMMA ModsRead == \A cfg : ModsOf(cfg) = ReadOut(cfg, "mods")
  BY ReadIs, FieldsAre DEF ModsOf

\* A file whose fields are valid.
LEMMA FieldsValid ==
  ASSUME NEW cfg, Valid(SpecFrom(cfg, TRUE))
  PROVE  /\ \A f \in Fields : ReadOut(cfg, f) \notin {Null, Object}
         /\ \A f \in Plain : PathOf(f) \in DOMAIN cfg => cfg[PathOf(f)] \notin {Null, Object}
         /\ ReadOut(cfg, "grass") # "10"
  <1>1. \A f \in Fields : SpecFrom(cfg, TRUE).field[f] \notin {Null, Object}
    BY DEF Valid, WellTyped
  <1>2. \A f \in Fields : SpecFrom(cfg, TRUE).field[f] = ReadOut(cfg, f)
    BY ReadIs
  <1>3. ReadOut(cfg, "grass") # "10"
    BY <1>2, FieldsAre DEF Valid
  <1>4. Plain \subseteq Fields
    BY FieldsAre DEF Plain
  <1> QED BY <1>1, <1>2, <1>3, <1>4, PlainIsRead

\* What a hand can make of a document is a document.
LEMMA HandEditedIsTree ==
  ASSUME NEW cfg, Tree(cfg), NEW e, IsPath(e.path)
  PROVE  Tree(HandEdited(cfg, e))
  <1> DEFINE path == e.path
             rest == {p \in DOMAIN cfg : ~AtOrUnder(p, path)}
  <1>0. path \in Path
    BY DEF IsPath, Path
  <1>1. \A p \in rest, q \in Path : Under(p, q) => q \in rest /\ cfg[q] = Object
    BY AtOrUnderTrans DEF Tree, Under
  <1>2. CASE e.value = Removed
    <2>0. rest \in SUBSET DOMAIN cfg /\ DOMAIN cfg \subseteq Path
      BY DEF Tree
    <2> HIDE DEF rest
    <2>1. Tree(Only(cfg, rest))
      BY <1>1, <2>0, PartIsTree
    <2> USE DEF rest
    <2> QED BY <1>2, <2>1 DEF HandEdited
  <1>3. CASE e.value # Removed
    <2> DEFINE new == [p \in rest \cup Prefixes(path) \cup {path} |->
                         IF p = path THEN e.value
                         ELSE IF p \in Prefixes(path) THEN Object ELSE cfg[p]]
    <2>1. \A p : p \in Prefixes(path) <=> p \in Path /\ Under(path, p)
      <3>1. \A p \in Prefixes(path) : p \in Path /\ Under(path, p)
        BY <1>0, PrefixIsAbove DEF Prefixes
      <3>2. ASSUME NEW p \in Path, Under(path, p) PROVE p \in Prefixes(path)
        BY <1>0, <3>2, AboveIsPrefix DEF Prefixes
      <3> QED BY <3>1, <3>2
    <2>2. rest \subseteq Path
      BY DEF Tree
    <2>3. path \notin rest
      BY AtOrUnderSelf
    <2>4. ASSUME NEW p \in DOMAIN new, NEW q \in Path, Under(p, q)
          PROVE  q \in DOMAIN new /\ new[q] = Object
      <3>1. CASE p \in rest
        <4>1. q \in rest /\ cfg[q] = Object
          BY <1>1, <2>4, <3>1
        <4> QED BY <2>3, <4>1
      <3>2. CASE p \in Prefixes(path) \cup {path}
        <4>1. Under(path, q)
          BY <1>0, <2>1, <2>4, <3>2, UnderTrans DEF Under
        <4>2. q \in Prefixes(path) /\ q # path
          BY <2>1, <4>1 DEF Under
        <4> QED BY <4>2
      <3> QED BY <2>4, <3>1, <3>2
    <2>5. DOMAIN new \subseteq Path /\ new = [p \in DOMAIN new |-> new[p]]
      BY <1>0, <2>1, <2>2
    <2>6. Tree(new)
      BY <2>4, <2>5 DEF Tree
    <2> QED BY <1>3, <2>6 DEF HandEdited
  <1> QED BY <1>2, <1>3

-----------------------------------------------------------------------------
(* The difference of two documents, and the custom keys of it.             *)

\* What diff_patch holds: the changes, nulls for what is gone, the objects around.
LEMMA DiffIs ==
  ASSUME NEW base, NEW target, Tree(base), Tree(target)
  PROVE  LET d == Diff(base, target) IN
         /\ Tree(d)
         /\ \A p \in DOMAIN d \cap DOMAIN target : d[p] = target[p]
         /\ \A p \in DOMAIN d \ DOMAIN target :
              /\ d[p] = Null /\ p \in DOMAIN base
              /\ \A q \in DOMAIN base : Under(p, q) => IsObject(target, q)
         /\ \A p \in DOMAIN target :
              p \notin DOMAIN base \/ base[p] # target[p] => p \in DOMAIN d
         /\ \A p \in DOMAIN d \cap DOMAIN target :
              p \in DOMAIN base /\ base[p] = target[p] => target[p] = Object
  <1> DEFINE d == Diff(base, target)
             entries == Differs(base, target) \cup Deleted(base, target)
             around == {q \in DOMAIN target : \E p \in entries : Under(p, q)}
  <1>1. DOMAIN d = entries \cup around
        /\ (\A p \in DOMAIN d : d[p] = IF p \in DOMAIN target THEN target[p] ELSE Null)
        /\ d = [p \in DOMAIN d |-> d[p]]
    BY DEF Diff
  <1>2. Differs(base, target) \subseteq DOMAIN target /\ DOMAIN target \subseteq Path
        /\ DOMAIN base \subseteq Path
    BY DEF Differs, Tree
  <1>3. \A p \in Deleted(base, target) :
          /\ p \in DOMAIN base /\ p \notin DOMAIN target
          /\ \A q \in DOMAIN base : Under(p, q) => IsObject(target, q)
    BY DEF Deleted
  <1> HIDE DEF d
  <1>4. ASSUME NEW p \in entries, NEW q \in Path, Under(p, q)
        PROVE  q \in DOMAIN target /\ target[q] = Object
    <2>1. CASE p \in Differs(base, target)
      BY <1>2, <1>4, <2>1 DEF Tree
    <2>2. CASE p \in Deleted(base, target)
      <3>1. q \in DOMAIN base
        BY <1>3, <1>4, <2>2 DEF Tree
      <3> QED BY <1>3, <1>4, <2>2, <3>1 DEF IsObject
    <2> QED BY <2>1, <2>2
  <1>5. entries \subseteq Path /\ around \subseteq Path
    BY <1>2, <1>3
  <1>6. ASSUME NEW p \in DOMAIN d, NEW q \in Path, Under(p, q)
        PROVE  q \in DOMAIN d /\ d[q] = Object
    <2>1. PICK e \in entries : AtOrUnder(e, p)
      BY <1>1, AtOrUnderSelf DEF Under
    <2>2. Under(e, q)
      BY <1>1, <1>5, <1>6, <2>1, UnderTrans
    <2>3. q \in around /\ target[q] = Object
      BY <1>4, <1>6, <2>1, <2>2
    <2> QED BY <1>1, <2>3
  <1>7. Tree(d)
    BY <1>1, <1>5, <1>6 DEF Tree
  <1>8. \A p \in DOMAIN d \cap DOMAIN target : d[p] = target[p]
    BY <1>1
  <1>9. \A p \in DOMAIN d \ DOMAIN target :
              /\ d[p] = Null /\ p \in DOMAIN base
              /\ \A q \in DOMAIN base : Under(p, q) => IsObject(target, q)
    BY <1>1, <1>2, <1>3
  <1>10. \A p \in DOMAIN target :
              p \notin DOMAIN base \/ base[p] # target[p] => p \in DOMAIN d
    BY <1>1 DEF Differs
  <1>11. ASSUME NEW p \in DOMAIN d \cap DOMAIN target, p \in DOMAIN base, base[p] = target[p]
         PROVE  target[p] = Object
    <2>1. p \notin entries
      BY <1>3, <1>11 DEF Differs
    <2>2. PICK e \in entries : Under(e, p)
      BY <1>1, <2>1
    <2> QED BY <1>2, <1>4, <2>2
  <1> QED BY <1>7, <1>8, <1>9, <1>10, <1>11 DEF d

\* Of some paths, one leads through none of the others.
LEMMA Topmost ==
  ASSUME NEW T \in SUBSET Path, T # {}
  PROVE  \E p \in T : \A q \in T : ~Under(p, q)
  <1> DEFINE R == OpToRel(<, Nat)
             lengths == {Len(p) : p \in T}
  <1>1. IsWellFoundedOn(R, Nat)
    BY NatLessThanWellFounded
  <1>2. lengths # {} /\ lengths \subseteq Nat
    <2>1. \A p \in T : Len(p) \in Nat
      BY DEF Path
    <2>2. PICK p \in T : TRUE
      OBVIOUS
    <2>3. Len(p) \in lengths
      OBVIOUS
    <2> QED BY <2>1, <2>3
  <1>3. PICK n \in lengths : \A m \in lengths : <<m, n>> \notin R
    BY <1>1, <1>2, WFMin
  <1>4. PICK p \in T : n = Len(p)
    BY <1>3
  <1>5. ASSUME NEW q \in T, Under(p, q) PROVE FALSE
    <2>1. Len(q) < n /\ Len(q) \in lengths /\ Len(q) \in Nat /\ n \in Nat
      BY <1>2, <1>4, <1>5, AboveIsPrefix DEF Path
    <2> QED BY <1>3, <2>1 DEF OpToRel
  <1> QED BY <1>5

\* "Inverse of merge_patch: merge_patch(base, diff_patch(base, target)) == target"
\* (diff_patch): so it is for documents of any depth, if there is no null in target, which
\* a merge patch cannot write.
THEOREM PatchMakesTarget ==
  \A base, target :
    /\ IsDoc(base) /\ IsDoc(target)
    /\ \A p \in DOMAIN target : target[p] # Null
    => Merge(base, Diff(base, target)) = target
  <1>1. SUFFICES ASSUME NEW base, NEW target, Tree(base), Tree(target),
                        \A p \in DOMAIN target : target[p] # Null
                 PROVE  Merge(base, Diff(base, target)) = target
    BY DocIsTree
  <1> DEFINE d == Diff(base, target)
             made == Merge(base, d)
  <1>2. /\ Tree(d)
        /\ \A p \in DOMAIN d \cap DOMAIN target : d[p] = target[p]
        /\ \A p \in DOMAIN d \ DOMAIN target :
             /\ d[p] = Null /\ p \in DOMAIN base
             /\ \A q \in DOMAIN base : Under(p, q) => IsObject(target, q)
        /\ \A p \in DOMAIN target :
             p \notin DOMAIN base \/ base[p] # target[p] => p \in DOMAIN d
    BY <1>1, DiffIs
  <1>3. \A p \in DOMAIN base \ DOMAIN target :
          (\A q \in DOMAIN base : Under(p, q) => IsObject(target, q)) => p \in DOMAIN d
    BY DEF Diff, Deleted
  <1> HIDE DEF d
  <1>4. Tree(made)
    BY <1>1, <1>2, MergeIsTree
  <1>5. ASSUME NEW p \in DOMAIN target PROVE p \in DOMAIN made /\ made[p] = target[p]
    <2>1. CASE p \in DOMAIN d
      BY <1>1, <1>2, <1>5, <2>1, MergeSets
    <2>2. CASE p \notin DOMAIN d
      <3>1. p \in DOMAIN base /\ base[p] = target[p]
        BY <1>2, <1>5, <2>2
      <3>2. ASSUME NEW q \in DOMAIN d, AtOrUnder(p, q) PROVE d[q] = Object
        <4>1. Under(p, q) /\ q \in Path
          BY <1>2, <2>2, <3>2 DEF Under, Tree
        <4>2. q \in DOMAIN target /\ target[q] = Object
          BY <1>1, <1>5, <4>1 DEF Tree
        <4> QED BY <1>2, <4>2
      <3> QED BY <2>2, <3>1, <3>2, MergeKeeps
    <2> QED BY <2>1, <2>2
  <1>6. ASSUME NEW p \in DOMAIN made, p \notin DOMAIN target PROVE FALSE
    <2>1. CASE p \in DOMAIN d
      <3>1. d[p] = Null /\ p \in DOMAIN base
        BY <1>2, <1>6, <2>1
      <3>2. PICK q \in DOMAIN d : Under(p, q) /\ ~IsObject(base, q)
        BY <1>6, <2>1, <3>1, MergeNull
      <3>3. q \in Path
        BY <1>2 DEF Tree
      <3>4. IsObject(base, q)
        BY <1>1, <3>1, <3>2, <3>3 DEF Tree, IsObject
      <3> QED BY <3>2, <3>4
    <2>2. CASE p \notin DOMAIN d
      <3>1. p \in DOMAIN base /\ \A q \in DOMAIN d : AtOrUnder(p, q) => d[q] = Object
        BY <1>6, <2>2, MergeIsFrom
      <3> DEFINE T == {q \in DOMAIN base : AtOrUnder(p, q) /\ ~IsObject(target, q)}
      <3>2. p \in T /\ T \subseteq DOMAIN base /\ DOMAIN base \subseteq Path
        BY <1>1, <1>6, <3>1, AtOrUnderSelf DEF Tree, IsObject
      <3>3. PICK q \in T : \A r \in T : ~Under(q, r)
        BY <3>2, Topmost
      <3>4. q \in DOMAIN base /\ AtOrUnder(p, q) /\ ~IsObject(target, q)
        BY <3>3
      <3>5. \A r \in DOMAIN base : Under(q, r) => IsObject(target, r)
        BY <3>3, <3>4, AtOrUnderTrans DEF Under
      <3>6. q \in DOMAIN d /\ d[q] # Object
        <4>1. CASE q \notin DOMAIN target
          <5>1. q \in DOMAIN d
            BY <1>3, <3>4, <3>5, <4>1
          <5> QED BY <1>2, <4>1, <5>1 DEF Null, Object
        <4>2. CASE q \in DOMAIN target
          <5>1. target[q] # Object /\ p # q
            BY <1>6, <3>4, <4>2 DEF IsObject
          <5>2. base[q] = Object
            BY <1>1, <3>1, <3>2, <3>4, <5>1 DEF Tree, Under
          <5> QED BY <1>2, <4>2, <5>1, <5>2
        <4> QED BY <4>1, <4>2
      <3> QED BY <3>1, <3>4, <3>6
    <2> QED BY <2>1, <2>2
  <1>7. DOMAIN made = DOMAIN target /\ \A p \in DOMAIN target : made[p] = target[p]
    BY <1>5, <1>6
  <1>8. made = [p \in DOMAIN made |-> made[p]] /\ target = [p \in DOMAIN target |-> target[p]]
    BY <1>1, <1>4 DEF Tree
  <1> HIDE DEF made
  <1>9. made = target
    BY <1>7, <1>8
  <1> QED BY <1>9 DEF made, d

\* What _custom_keys_only leaves of a patch.
LEMMA CustomIs ==
  ASSUME NEW d, Tree(d)
  PROVE  LET c == CustomKeysOnly(d) IN
         /\ Tree(c) /\ NothingEmpty(c)
         /\ \A p \in DOMAIN c : p \in DOMAIN d /\ c[p] = d[p]
         /\ \A p \in DOMAIN d : d[p] \notin {Null, Object} => p \in DOMAIN c
         /\ \A p \in DOMAIN c : c[p] = Null => p \notin KnownPaths /\ ~InFreeForm(p)
         /\ \A p \in DOMAIN c : \E e \in DOMAIN c : AtOrUnder(e, p) /\ c[e] # Object
  <1> DEFINE c == CustomKeysOnly(d)
             keys == {p \in DOMAIN d :
                        /\ d[p] # Object
                        /\ d[p] = Null => p \notin KnownPaths /\ ~InFreeForm(p)}
             paths == keys \cup {q \in DOMAIN d : \E p \in keys : Under(p, q)}
  <1>0. Object # Null
    BY DEF Object, Null
  <1>1. c = Only(d, paths)
    BY DEF CustomKeysOnly, Around
  <1>2. DOMAIN c = paths /\ \A p \in paths : c[p] = d[p]
    BY <1>1 DEF Only
  <1>3. DOMAIN d \subseteq Path
    BY DEF Tree
  <1>4. ASSUME NEW p \in paths PROVE \E e \in keys : AtOrUnder(e, p)
    BY AtOrUnderSelf DEF Under
  <1>5. \A p \in paths, q \in DOMAIN d : Under(p, q) => q \in paths
    <2> SUFFICES ASSUME NEW p \in paths, NEW q \in DOMAIN d, Under(p, q) PROVE q \in paths
      OBVIOUS
    <2>1. PICK e \in keys : AtOrUnder(e, p)
      BY <1>4
    <2>2. Under(e, q)
      BY <1>3, <2>1, UnderTrans
    <2> QED BY <2>1, <2>2
  <1>6. Tree(c)
    <2>1. paths \in SUBSET DOMAIN d
      OBVIOUS
    <2> HIDE DEF paths
    <2>2. Tree(Only(d, paths))
      BY <1>5, <2>1, PartIsTree
    <2> QED BY <1>1, <2>2
  <1> HIDE DEF c
  <1>7. NothingEmpty(c)
    BY <1>2 DEF NothingEmpty
  <1>8. \A p \in DOMAIN c : p \in DOMAIN d /\ c[p] = d[p]
    BY <1>2
  <1>9. \A p \in DOMAIN d : d[p] \notin {Null, Object} => p \in DOMAIN c
    BY <1>2
  <1>10. ASSUME NEW p \in DOMAIN c, c[p] = Null PROVE p \notin KnownPaths /\ ~InFreeForm(p)
    <2>1. p \in keys
      <3> SUFFICES ASSUME NEW e \in keys, Under(e, p) PROVE FALSE
        BY <1>2
      <3>1. d[p] = Object
        BY <1>2, <1>3 DEF Tree
      <3> QED BY <1>0, <1>2, <1>10, <3>1
    <2> QED BY <1>2, <1>10, <2>1
  <1>11. ASSUME NEW p \in DOMAIN c
         PROVE  \E e \in DOMAIN c : AtOrUnder(e, p) /\ c[e] # Object
    BY <1>2, <1>4
  <1> QED BY <1>6, <1>7, <1>8, <1>9, <1>10, <1>11 DEF c


-----------------------------------------------------------------------------
(* Applying a document.                                                    *)

LEMMA ConfigSame ==
  ASSUME NEW s, NEW t, s.field = t.field, s.header = t.header, s.on = t.on
  PROVE  Config(s) = Config(t)
  <1>1. Written(s) = Written(t) /\ Blocks(s) = Blocks(t) /\ Fixed(s) = Fixed(t)
    BY DEF Written, Blocks, Fixed
  <1> QED BY <1>1 DEF Config

\* Applying a document gives a spec: its fields, and extras that are a patch of it.
LEMMA ReconcileIs ==
  ASSUME NEW s, NEW cfg, Tree(cfg)
  PROVE  LET r == Reconcile(s, cfg)
             read == SpecFrom(cfg, FALSE) IN
         /\ IsSpec(r)
         /\ \A f \in Fields : f # "mods" => r.field[f] = read.field[f]
         /\ CleanMods(r.field["mods"]) = CleanMods(read.field["mods"])
         /\ r.header = read.header /\ r.on = read.on
         /\ r.extras
              = DropPath(CustomKeysOnly(Diff(Config(Clean(r)), cfg)), PathOf("mods"))
  <1> DEFINE r == Reconcile(s, cfg)
             read == SpecFrom(cfg, FALSE)
             mods == IF SameMods(s.field["mods"], read.field["mods"]) THEN s.field["mods"]
                     ELSE read.field["mods"]
             field == [read.field EXCEPT !["mods"] = mods]
             graph == s.graph \cap ModIds(mods)
             spec == [field |-> field, header |-> read.header, on |-> read.on, graph |-> graph,
                      label |-> s.label, extras |-> Empty]
             extras == DropPath(CustomKeysOnly(Diff(Render(spec), cfg)), PathOf("mods"))
  <1>1. r = [spec EXCEPT !.extras = extras]
    BY DEF Reconcile
  <1>2. CleanMods(mods) = CleanMods(read.field["mods"])
    BY DEF SameMods
  <1>3. /\ read.field = [f \in Fields |-> read.field[f]]
        /\ read.header = Inside(cfg, Header) /\ read.on \subseteq Switches
    BY ReadIs
  <1> HIDE DEF mods, read, extras, r, graph
  <1>4. /\ field = [f \in Fields |-> field[f]] /\ field["mods"] = mods
        /\ \A f \in Fields : f # "mods" => field[f] = read.field[f]
    BY <1>3, FieldsAre
  <1> HIDE DEF field
  <1>5. r = [field |-> field, header |-> read.header, on |-> read.on, graph |-> graph,
             label |-> s.label, extras |-> extras]
    BY <1>1
  <1>6. /\ r.field = field /\ r.header = read.header /\ r.on = read.on /\ r.graph = graph
        /\ r.label = s.label /\ r.extras = extras
    BY <1>5
  <1>7. IsHeader(read.header)
    BY <1>3, InsideIsHeader
  <1>8. /\ spec.field = field /\ spec.header = read.header /\ spec.on = read.on
        /\ spec.extras = Empty
        /\ spec = [field |-> spec.field, header |-> spec.header, on |-> spec.on,
                   graph |-> spec.graph, label |-> spec.label, extras |-> spec.extras]
    OBVIOUS
  <1> HIDE DEF spec
  <1>9. IsSpec(spec)
    BY <1>3, <1>4, <1>7, <1>8, EmptyHeader, DocIsTree DEF IsSpec
  <1>10. Render(spec) = Config(Clean(spec))
    <2>1. Clean(spec).extras = Empty /\ IsSpec(Clean(spec))
      BY <1>8, <1>9, CleanIs
    <2>2. Config(Clean(spec)) = [p \in DOMAIN Config(Clean(spec)) |-> Config(Clean(spec))[p]]
      BY <2>1, ConfigHas DEF IsSpec
    <2> QED BY <2>1, <2>2, MergeNothing DEF Render, ToConfig
  <1>11. Tree(extras)
    <2>1. Tree(Config(Clean(spec)))
      BY <1>9, CleanIs, SpecParts
    <2>2. Tree(Diff(Render(spec), cfg))
      BY <1>10, <2>1, DiffIs
    <2>3. Tree(CustomKeysOnly(Diff(Render(spec), cfg)))
      BY <2>2, CustomIs
    <2>4. PathOf("mods") \in Path
      BY FieldPath, FieldsAre
    <2> QED BY <2>3, <2>4, DropPathIsTree DEF extras
  <1>12. IsSpec(r)
    <2>1. r = [field |-> r.field, header |-> r.header, on |-> r.on, graph |-> r.graph,
               label |-> r.label, extras |-> r.extras]
      BY <1>5, <1>6
    <2> QED BY <1>3, <1>4, <1>6, <1>7, <1>11, <2>1, DocIsTree DEF IsSpec
  <1>13. Config(Clean(r)) = Config(Clean(spec))
    <2>1. /\ Clean(r).field = CleanFields(field) /\ Clean(spec).field = CleanFields(field)
          /\ Clean(r).header = read.header /\ Clean(spec).header = read.header
          /\ Clean(r).on = read.on /\ Clean(spec).on = read.on
      BY <1>6, <1>8, <1>9, <1>12, CleanIs
    <2> QED BY <2>1, ConfigSame
  <1>14. r.extras = DropPath(CustomKeysOnly(Diff(Config(Clean(r)), cfg)), PathOf("mods"))
    BY <1>6, <1>10, <1>13 DEF extras
  <1>15. /\ \A f \in Fields : f # "mods" => r.field[f] = read.field[f]
         /\ CleanMods(r.field["mods"]) = CleanMods(read.field["mods"])
         /\ r.header = read.header /\ r.on = read.on
    BY <1>2, <1>4, <1>6
  <1> QED BY <1>12, <1>14, <1>15 DEF r, read

\* The extras of a document that was accepted, against what is rendered without them.
PatchOf(base, cfg) == DropPath(CustomKeysOnly(Diff(base, cfg)), PathOf("mods"))

\* That patch, key by key, against the document and what is rendered without it.
LEMMA PatchIs ==
  ASSUME NEW base, NEW cfg, Tree(base), Tree(cfg)
  PROVE  LET x == PatchOf(base, cfg) IN
         /\ Tree(x) /\ NothingEmpty(x)
         /\ \A p \in DOMAIN x : ~AtOrUnder(p, PathOf("mods"))
         \* what the document has is as it is there
         /\ \A p \in DOMAIN x \cap DOMAIN cfg : x[p] = cfg[p]
         /\ \A p \in DOMAIN x \cap DOMAIN cfg :
              p \in DOMAIN base /\ base[p] = cfg[p] => cfg[p] = Object
         \* what it has not is deleted, and no key of the wizard's is
         /\ \A p \in DOMAIN x \ DOMAIN cfg :
              /\ x[p] = Null /\ p \in DOMAIN base
              /\ \A q \in DOMAIN base : Under(p, q) => IsObject(cfg, q)
         /\ \A p \in DOMAIN x : x[p] = Null => p \notin KnownPaths /\ ~InFreeForm(p)
         \* all other changes are in it
         /\ \A p \in DOMAIN cfg :
              /\ p \notin DOMAIN base \/ base[p] # cfg[p]
              /\ cfg[p] \notin {Null, Object} /\ ~AtOrUnder(p, PathOf("mods"))
              => p \in DOMAIN x /\ x[p] = cfg[p]
         \* and each object in it is around one
         /\ \A p \in DOMAIN x :
              \E e \in DOMAIN Diff(base, cfg) :
                /\ AtOrUnder(e, p) /\ Diff(base, cfg)[e] # Object
                /\ Diff(base, cfg)[e] = Null => e \notin KnownPaths /\ ~InFreeForm(e)
  <1> DEFINE d == Diff(base, cfg)
             c == CustomKeysOnly(d)
             m == PathOf("mods")
             x == DropPath(c, m)
  <1>0. m \in Path
    BY FieldPath, FieldsAre
  <1>1. /\ Tree(d)
        /\ \A p \in DOMAIN d \cap DOMAIN cfg : d[p] = cfg[p]
        /\ \A p \in DOMAIN d \ DOMAIN cfg :
             /\ d[p] = Null /\ p \in DOMAIN base
             /\ \A q \in DOMAIN base : Under(p, q) => IsObject(cfg, q)
        /\ \A p \in DOMAIN cfg : p \notin DOMAIN base \/ base[p] # cfg[p] => p \in DOMAIN d
        /\ \A p \in DOMAIN d \cap DOMAIN cfg :
             p \in DOMAIN base /\ base[p] = cfg[p] => cfg[p] = Object
    BY DiffIs
  <1> HIDE DEF d
  <1>2. /\ Tree(c) /\ NothingEmpty(c)
        /\ \A p \in DOMAIN c : p \in DOMAIN d /\ c[p] = d[p]
        /\ \A p \in DOMAIN d : d[p] \notin {Null, Object} => p \in DOMAIN c
        /\ \A p \in DOMAIN c : c[p] = Null => p \notin KnownPaths /\ ~InFreeForm(p)
        /\ \A p \in DOMAIN c : \E e \in DOMAIN c : AtOrUnder(e, p) /\ c[e] # Object
    BY <1>1, CustomIs
  <1> HIDE DEF c, m
  <1>3. Tree(x) /\ NothingEmpty(x)
    BY <1>0, <1>2, DropPathIsTree, DropPathEmptiesNothing
  <1>4. /\ DOMAIN x \subseteq DOMAIN c
        /\ \A p \in DOMAIN x : x[p] = c[p] /\ ~AtOrUnder(p, m)
        /\ \A p \in DOMAIN c : c[p] # Object /\ ~AtOrUnder(p, m) => p \in DOMAIN x
    BY DropPathPart
  <1> HIDE DEF x
  <1>5. \A p \in DOMAIN x : p \in DOMAIN d /\ x[p] = d[p] /\ ~AtOrUnder(p, m)
    BY <1>2, <1>4
  <1>6. \A p \in DOMAIN x \cap DOMAIN cfg :
          /\ x[p] = cfg[p]
          /\ p \in DOMAIN base /\ base[p] = cfg[p] => cfg[p] = Object
    BY <1>1, <1>5
  <1>7. \A p \in DOMAIN x \ DOMAIN cfg :
              /\ x[p] = Null /\ p \in DOMAIN base
              /\ \A q \in DOMAIN base : Under(p, q) => IsObject(cfg, q)
    BY <1>1, <1>5
  <1>8. \A p \in DOMAIN x : x[p] = Null => p \notin KnownPaths /\ ~InFreeForm(p)
    BY <1>2, <1>4
  <1>9. \A p \in DOMAIN cfg :
              /\ p \notin DOMAIN base \/ base[p] # cfg[p]
              /\ cfg[p] \notin {Null, Object} /\ ~AtOrUnder(p, m)
              => p \in DOMAIN x /\ x[p] = cfg[p]
    BY <1>1, <1>2, <1>4
  <1>10. \A p \in DOMAIN x :
           \E e \in DOMAIN d : /\ AtOrUnder(e, p) /\ d[e] # Object
                               /\ d[e] = Null => e \notin KnownPaths /\ ~InFreeForm(e)
    BY <1>2, <1>4
  <1>11. x = PatchOf(base, cfg)
    BY DEF x, c, m, d, PatchOf
  <1> QED BY <1>3, <1>5, <1>6, <1>7, <1>8, <1>9, <1>10, <1>11 DEF d, m

LEMMA CustomKeysAre ==
  ASSUME NEW cfg
  PROVE  \A p \in DOMAIN CustomKeys(cfg) :
           /\ p \in DOMAIN cfg /\ CustomKeys(cfg)[p] = cfg[p] /\ cfg[p] \notin {Null, Object}
           /\ p \notin KnownPaths /\ ~InFreeForm(p)
           /\ \A q \in NowModelled : ~AtOrUnder(p, q)
  <1>1. NowModelled \subseteq KnownPaths
    BY KnownPathsAre, FieldsAre DEF NowModelled, AllBlocks, FieldPaths
  <1>2. \A p \in DOMAIN CustomKeys(cfg) :
          /\ p \in DOMAIN cfg /\ CustomKeys(cfg)[p] = cfg[p] /\ cfg[p] \notin {Null, Object}
          /\ p \notin KnownPaths /\ ~InFreeForm(p)
          /\ \A q \in NowModelled : ~Under(p, q)
    BY DEF CustomKeys, UnknownPaths, Only
  <1> QED BY <1>1, <1>2 DEF Under

\* Fields that are written as they are read.
Mirrored == {"scenario", "max", "cross", "grass", "hive"}

\* The document and what is rendered agree on the fields that are mirrored, on a
\* password that is not empty and on the header: the patch holds none of these.
LEMMA AppliedFields ==
  ASSUME NEW s, NEW cfg, Tree(cfg), Accepted(cfg)
  PROVE  LET base == Config(Clean(Reconcile(s, cfg))) IN
         /\ Tree(base)
         /\ \A f \in Mirrored : PathOf(f) \in DOMAIN cfg =>
              /\ PathOf(f) \in DOMAIN base /\ base[PathOf(f)] = cfg[PathOf(f)]
              /\ cfg[PathOf(f)] # Object
         /\ PathOf("password") \in DOMAIN cfg =>
              /\ cfg[PathOf("password")] # Object
              /\ \/ cfg[PathOf("password")] = ""
                 \/ /\ PathOf("password") \in DOMAIN base
                    /\ base[PathOf("password")] = cfg[PathOf("password")]
         /\ \A p \in DOMAIN cfg : Under(p, Header) =>
              p \in DOMAIN base /\ base[p] = cfg[p]
         /\ \A p \in DOMAIN base : Under(p, Header) => p \in DOMAIN cfg
  <1> DEFINE r == Reconcile(s, cfg)
             read == SpecFrom(cfg, FALSE)
             t == Clean(r)
             base == Config(t)
  <1>1. /\ IsSpec(r) /\ \A f \in Fields : f # "mods" => r.field[f] = read.field[f]
        /\ r.header = read.header /\ r.on = read.on
    BY ReconcileIs
  <1>2. /\ \A f \in Fields : f # "grass" => read.field[f] = ReadOut(cfg, f)
        /\ ReadOut(cfg, "grass") # "10" => read.field["grass"] = ReadOut(cfg, "grass")
        /\ read.header = Inside(cfg, Header)
        /\ "persists" \in read.on <=> Persistence \in DOMAIN cfg
    BY ReadIs
  <1>3. /\ \A f \in Plain : PathOf(f) \in DOMAIN cfg => cfg[PathOf(f)] \notin {Null, Object}
        /\ ReadOut(cfg, "grass") # "10"
    BY FieldsValid DEF Accepted
  <1> HIDE DEF r, read
  <1>4. /\ t.field = CleanFields(r.field) /\ t.header = r.header /\ t.on = r.on /\ IsSpec(t)
    BY <1>1, CleanIs
  <1> HIDE DEF t
  <1>5. Tree(base) /\ IsHeader(t.header)
    BY <1>4, SpecParts
  <1>6. Mirrored \subseteq Plain /\ Plain \subseteq Fields /\ "password" \in Plain
        /\ "mods" \notin Mirrored
    BY FieldsAre DEF Mirrored, Plain
  <1>7. ASSUME NEW f \in Mirrored \cup {"password"}, PathOf(f) \in DOMAIN cfg
        PROVE  t.field[f] = cfg[PathOf(f)]
    <2>1. t.field[f] = r.field[f]
      BY <1>4, CleanFieldsAre DEF Mirrored
    <2>2. r.field[f] = ReadOut(cfg, f)
      BY <1>1, <1>2, <1>3, <1>6
    <2>3. ReadOut(cfg, f) = cfg[PathOf(f)]
      BY <1>6, <1>7, PlainIsRead
    <2> QED BY <2>1, <2>2, <2>3
  <1>8. ASSUME NEW f \in Mirrored, PathOf(f) \in DOMAIN cfg PROVE f \in Written(t)
    <2>1. CASE f = "hive"
      <3>1. Under(PathOf("hive"), Persistence) /\ Persistence \in Path
        BY FieldPath, FieldsAre, BlockPaths DEF AllBlocks
      <3>2. Persistence \in DOMAIN cfg
        BY <1>8, <2>1, <3>1 DEF Tree
      <3> QED BY <1>1, <1>2, <1>4, <2>1, <3>2, WrittenAre
    <2> QED BY <2>1, WrittenAre DEF Mirrored
  <1>9. \A f \in Written(t) : PathOf(f) \in DOMAIN base /\ base[PathOf(f)] = t.field[f]
    BY <1>5, ConfigHas
  <1>10. \A f \in Mirrored : PathOf(f) \in DOMAIN cfg =>
              /\ PathOf(f) \in DOMAIN base /\ base[PathOf(f)] = cfg[PathOf(f)]
              /\ cfg[PathOf(f)] # Object
    BY <1>3, <1>6, <1>7, <1>8, <1>9
  <1>11. PathOf("password") \in DOMAIN cfg =>
              /\ cfg[PathOf("password")] # Object
              /\ \/ cfg[PathOf("password")] = ""
                 \/ /\ PathOf("password") \in DOMAIN base
                    /\ base[PathOf("password")] = cfg[PathOf("password")]
    BY <1>3, <1>6, <1>7, <1>9, WrittenAre
  <1>12. t.header = Inside(cfg, Header)
    BY <1>1, <1>2, <1>4
  <1>13. \A p \in DOMAIN cfg : Under(p, Header) => p \in DOMAIN base /\ base[p] = cfg[p]
    <2> SUFFICES ASSUME NEW p \in DOMAIN cfg, Under(p, Header)
                 PROVE  p \in DOMAIN base /\ base[p] = cfg[p]
      OBVIOUS
    <2>1. p \in DOMAIN t.header /\ t.header[p] = cfg[p]
      BY <1>12, InsideIs
    <2> QED BY <1>5, <2>1, ConfigHas
  <1>14. ASSUME NEW p \in DOMAIN base, Under(p, Header) PROVE p \in DOMAIN cfg
    <2>1. p \notin Blocks(t)
      BY <1>14, BlocksAre, HeaderApart
    <2>2. p \notin Fixed(t)
      BY <1>14, BlocksAre, HeaderApart DEF Under
    <2>3. ~\E f \in Written(t) : p = PathOf(f)
      BY <1>14, WrittenAre, HeaderApart DEF Under
    <2>4. p \in DOMAIN t.header
      BY <1>5, <2>1, <2>2, <2>3, ConfigHas
    <2> QED BY <1>12, <2>4, InsideIs
  <1> QED BY <1>5, <1>10, <1>11, <1>13, <1>14 DEF t, r

\* So the extras are harmless: no field that is read back is in them.
LEMMA ExtrasAreMade ==
  ASSUME NEW s, NEW cfg, Tree(cfg), Accepted(cfg)
  PROVE  Made(Reconcile(s, cfg).extras)
  <1> DEFINE base == Config(Clean(Reconcile(s, cfg)))
             x == PatchOf(base, cfg)
             d == Diff(base, cfg)
  <1>1. x = Reconcile(s, cfg).extras
    BY ReconcileIs DEF PatchOf
  <1>2. /\ Tree(base)
        /\ \A f \in Mirrored : PathOf(f) \in DOMAIN cfg =>
              /\ PathOf(f) \in DOMAIN base /\ base[PathOf(f)] = cfg[PathOf(f)]
              /\ cfg[PathOf(f)] # Object
        /\ PathOf("password") \in DOMAIN cfg =>
              /\ cfg[PathOf("password")] # Object
              /\ \/ cfg[PathOf("password")] = ""
                 \/ /\ PathOf("password") \in DOMAIN base
                    /\ base[PathOf("password")] = cfg[PathOf("password")]
        /\ \A p \in DOMAIN cfg : Under(p, Header) =>
              p \in DOMAIN base /\ base[p] = cfg[p]
        /\ \A p \in DOMAIN base : Under(p, Header) => p \in DOMAIN cfg
    BY AppliedFields
  <1> HIDE DEF base
  <1>3. /\ Tree(x) /\ NothingEmpty(x)
        /\ \A p \in DOMAIN x : ~AtOrUnder(p, PathOf("mods"))
        /\ \A p \in DOMAIN x \cap DOMAIN cfg : x[p] = cfg[p]
        /\ \A p \in DOMAIN x \cap DOMAIN cfg :
              p \in DOMAIN base /\ base[p] = cfg[p] => cfg[p] = Object
        /\ \A p \in DOMAIN x \ DOMAIN cfg : x[p] = Null
        /\ \A p \in DOMAIN x : x[p] = Null => p \notin KnownPaths /\ ~InFreeForm(p)
        /\ \A p \in DOMAIN x :
              \E e \in DOMAIN d :
                /\ AtOrUnder(e, p) /\ d[e] # Object
                /\ d[e] = Null => e \notin KnownPaths /\ ~InFreeForm(e)
    BY <1>2, PatchIs
  <1>4. /\ \A p \in DOMAIN d \cap DOMAIN cfg : d[p] = cfg[p]
        /\ \A p \in DOMAIN d \ DOMAIN cfg :
             /\ d[p] = Null /\ p \in DOMAIN base
             /\ \A q \in DOMAIN base : Under(p, q) => IsObject(cfg, q)
        /\ \A p \in DOMAIN d \cap DOMAIN cfg :
             p \in DOMAIN base /\ base[p] = cfg[p] => cfg[p] = Object
    BY <1>2, DiffIs
  <1> HIDE DEF x, d
  <1>5. /\ \A b \in {Game, Props, Operating, Rcon} \cap DOMAIN cfg : cfg[b] = Object
        /\ \A b \in {Persistence, Header} \cap DOMAIN cfg : cfg[b] \in {Object, Null}
    BY DEF Accepted, Readable
  <1>6. /\ \A f \in Fields : PathOf(f) \in KnownPaths /\ PathOf(f) \in Path
        /\ AllBlocks \subseteq KnownPaths /\ AllBlocks \subseteq Path
    BY KnownPathsAre, FieldPath, BlockPaths DEF FieldPaths
  <1>7. ASSUME NEW b \in {Game, Props, Persistence, Operating, Rcon} \cap DOMAIN x
        PROVE  x[b] = Object
    <2>1. x[b] # Null
      BY <1>3, <1>6 DEF AllBlocks
    <2>2. b \in DOMAIN cfg /\ x[b] = cfg[b]
      BY <1>3, <2>1
    <2> QED BY <1>5, <2>1, <2>2
  <1>8. ASSUME NEW p \in DOMAIN x, AtOrUnder(p, Header) PROVE FALSE
    <2>1. PICK e \in DOMAIN d : /\ AtOrUnder(e, p) /\ d[e] # Object
                                /\ d[e] = Null => e \notin KnownPaths /\ ~InFreeForm(e)
      BY <1>3
    <2>2. AtOrUnder(e, Header)
      BY <1>8, <2>1, AtOrUnderTrans
    <2>3. CASE Under(e, Header)
      <3>1. d[e] # Null
        BY <2>1, <2>3 DEF InFreeForm
      <3>2. e \in DOMAIN cfg
        BY <1>4, <3>1
      <3>3. e \in DOMAIN base /\ base[e] = cfg[e]
        BY <1>2, <2>3, <3>2
      <3> QED BY <1>4, <2>1, <3>2, <3>3
    <2>4. CASE e = Header
      <3>1. d[e] # Null
        BY <1>6, <2>1, <2>4 DEF AllBlocks
      <3>2. e \in DOMAIN cfg
        BY <1>4, <3>1
      <3> QED BY <1>4, <1>5, <2>1, <2>4, <3>1, <3>2
    <2> QED BY <2>2, <2>3, <2>4 DEF Under
  <1>9. ASSUME NEW f \in Fields, PathOf(f) \in DOMAIN cfg => cfg[PathOf(f)] # Object,
               NEW p \in DOMAIN x, AtOrUnder(p, PathOf(f)),
               \* the document has another value there
               PathOf(f) \in DOMAIN cfg =>
                 PathOf(f) \in DOMAIN base /\ base[PathOf(f)] = cfg[PathOf(f)]
        PROVE  FALSE
    <2> DEFINE q == PathOf(f)
    <2>0. q \in Path /\ q \in KnownPaths
      BY <1>6
    <2> HIDE DEF q
    <2>1. PICK e \in DOMAIN d : /\ AtOrUnder(e, p) /\ d[e] # Object
                                /\ d[e] = Null => e \notin KnownPaths /\ ~InFreeForm(e)
      BY <1>3
    <2>2. AtOrUnder(e, q)
      BY <1>9, <2>1, AtOrUnderTrans DEF q
    <2>3. CASE e = q
      <3>1. e \in DOMAIN cfg
        BY <1>4, <2>0, <2>1, <2>3
      <3> QED BY <1>4, <1>9, <2>1, <2>3, <3>1 DEF q
    <2>4. CASE Under(e, q)
      <3>1. e \notin DOMAIN cfg
        BY <1>9, <2>0, <2>4 DEF Tree, q
      <3>2. e \in DOMAIN base
        BY <1>4, <3>1
      <3>3. q \in DOMAIN base
        BY <1>2, <2>0, <2>4, <3>2 DEF Tree
      <3> QED BY <1>4, <1>9, <2>4, <3>1, <3>3 DEF IsObject, q
    <2> QED BY <2>2, <2>3, <2>4 DEF Under
  <1>10. \A p \in DOMAIN x, f \in {"scenario", "max", "cross", "grass", "hive", "mods"} :
           ~AtOrUnder(p, PathOf(f))
    BY <1>2, <1>3, <1>9, FieldsAre DEF Mirrored
  <1>11. ASSUME PathOf("password") \in DOMAIN x PROVE x[PathOf("password")] = ""
    <2> DEFINE q == PathOf("password")
    <2>1. q \in KnownPaths
      BY <1>6, FieldsAre
    <2>2. x[q] # Null
      BY <1>3, <1>11, <2>1
    <2>3. q \in DOMAIN cfg /\ x[q] = cfg[q]
      BY <1>3, <1>11, <2>2
    <2>4. q \in DOMAIN base /\ base[q] = cfg[q] => FALSE
      BY <1>2, <1>3, <1>11, <2>3
    <2> QED BY <1>2, <2>3, <2>4
  <1>12. PathOf("navs") \in DOMAIN x => x[PathOf("navs")] # Null
    BY <1>3, <1>6, FieldsAre
  <1>13. Harmless(x)
    BY <1>7, <1>8, <1>10, <1>11 DEF Harmless
  <1> QED BY <1>1, <1>3, <1>12, <1>13 DEF Made

\* And all custom keys of the document are in them.
LEMMA ExtrasKeepCustomKeys ==
  ASSUME NEW s, NEW cfg, Tree(cfg)
  PROVE  Keeps(Reconcile(s, cfg).extras, CustomKeys(cfg))
  <1> DEFINE r == Reconcile(s, cfg)
             base == Config(Clean(r))
             x == PatchOf(base, cfg)
  <1>1. IsSpec(r) /\ x = r.extras
    BY ReconcileIs DEF PatchOf
  <1> HIDE DEF r
  <1>2. Tree(base) /\ IsHeader(Clean(r).header)
    BY <1>1, CleanIs, SpecParts
  <1>3. \A p \in DOMAIN base : p \in KnownPaths \/ InFreeForm(p)
    BY <1>2, ConfigIsKnown
  <1> HIDE DEF base
  <1>4. \A p \in DOMAIN cfg :
              /\ p \notin DOMAIN base \/ base[p] # cfg[p]
              /\ cfg[p] \notin {Null, Object} /\ ~AtOrUnder(p, PathOf("mods"))
              => p \in DOMAIN x /\ x[p] = cfg[p]
    BY <1>2, PatchIs
  <1>5. PathOf("mods") \in NowModelled
    BY DEF NowModelled
  <1> HIDE DEF x
  <1>6. Keeps(x, CustomKeys(cfg))
    BY <1>3, <1>4, <1>5, CustomKeysAre DEF Keeps
  <1> QED BY <1>1, <1>6 DEF r

\* What is applied is rendered: the property AppliedIsRendered, of a page and a document.
Applied(s, cfg) ==
  LET made == Render(s) IN
  /\ Holds(made, Only(cfg, {p \in DOMAIN cfg :
                              cfg[p] \notin {Null, Object} /\ p # PathOf("mods")}))
  /\ SameMods(ModsOf(made), ModsOf(cfg))
  /\ DOMAIN made \ DOMAIN cfg \subseteq KnownPaths

\* With the extras, what is rendered is the document again.
LEMMA ReconcileApplies ==
  ASSUME NEW s, NEW cfg, Tree(cfg), Accepted(cfg)
  PROVE  Applied(Reconcile(s, cfg), cfg)
  <1> DEFINE r == Reconcile(s, cfg)
             t == Clean(r)
             base == Config(t)
             x == PatchOf(base, cfg)
             made == Render(r)
             mods == PathOf("mods")
  <1>1. IsSpec(r) /\ x = r.extras /\ CleanMods(r.field["mods"]) = CleanMods(ModsOf(cfg))
    BY ReconcileIs DEF PatchOf, ModsOf
  <1>2. /\ Tree(base)
        /\ \A p \in DOMAIN base : Under(p, Header) => p \in DOMAIN cfg
    BY AppliedFields
  <1>3. Made(x) /\ \A f \in Plain : PathOf(f) \in DOMAIN cfg => cfg[PathOf(f)] \notin {Null, Object}
    BY <1>1, ExtrasAreMade, FieldsValid DEF Accepted
  <1> HIDE DEF r
  <1>4. /\ t.extras = x /\ IsHeader(t.header) /\ t.field["mods"] = CleanMods(r.field["mods"])
        /\ Tree(x)
    BY <1>1, CleanIs, SpecParts, CleanFieldsAre
  <1>5. made = Merge(base, x)
    BY <1>4 DEF Render, ToConfig
  <1> HIDE DEF t
  <1>6. \A p \in DOMAIN base : p \in KnownPaths \/ InFreeForm(p)
    BY <1>4, ConfigIsKnown
  <1>7. "mods" \in Fields /\ "mods" \in Plain /\ mods \in Path
    BY FieldsAre, FieldPath DEF Plain
  <1>8. mods \in DOMAIN base /\ base[mods] = t.field["mods"]
    BY <1>4, WrittenAre, ConfigHas
  <1> HIDE DEF base, made
  <1>9. /\ \A p \in DOMAIN x : ~AtOrUnder(p, mods)
        /\ \A p \in DOMAIN x \cap DOMAIN cfg :
              /\ x[p] = cfg[p]
              /\ p \in DOMAIN base /\ base[p] = cfg[p] => cfg[p] = Object
        /\ \A p \in DOMAIN x \ DOMAIN cfg : x[p] = Null /\ p \in DOMAIN base
        /\ \A p \in DOMAIN x : x[p] = Null => p \notin KnownPaths /\ ~InFreeForm(p)
        /\ \A p \in DOMAIN cfg :
              /\ p \notin DOMAIN base \/ base[p] # cfg[p]
              /\ cfg[p] \notin {Null, Object} /\ ~AtOrUnder(p, mods)
              => p \in DOMAIN x /\ x[p] = cfg[p]
    BY <1>2, PatchIs
  <1> HIDE DEF x, mods
  <1>10. \A p \in DOMAIN x : p \in DOMAIN cfg
    BY <1>6, <1>9
  <1>11. DOMAIN x \subseteq Path /\ DOMAIN cfg \subseteq Path
    BY <1>4 DEF Tree
  <1>12. ASSUME NEW p \in DOMAIN cfg, cfg[p] \notin {Null, Object}, p # mods
         PROVE  p \in DOMAIN made /\ made[p] = cfg[p]
    <2>1. ~AtOrUnder(p, mods)
      <3>1. cfg[mods] # Object \/ mods \notin DOMAIN cfg
        BY <1>3, <1>7 DEF mods
      <3> QED BY <1>7, <1>12, <3>1 DEF Tree, Under
    <2>2. CASE p \notin DOMAIN base \/ base[p] # cfg[p]
      <3>1. p \in DOMAIN x /\ x[p] = cfg[p]
        BY <1>9, <1>12, <2>1, <2>2
      <3> QED BY <1>5, <1>12, <3>1, MergeSets
    <2>3. CASE p \in DOMAIN base /\ base[p] = cfg[p]
      <3>1. p \notin DOMAIN x
        BY <1>9, <1>12, <2>3
      <3>2. \A q \in DOMAIN x : AtOrUnder(p, q) => x[q] = Object
        <4> SUFFICES ASSUME NEW q \in DOMAIN x, AtOrUnder(p, q) PROVE x[q] = Object
          OBVIOUS
        <4>1. Under(p, q) /\ q \in Path
          BY <1>11, <3>1 DEF Under
        <4>2. q \in DOMAIN cfg /\ cfg[q] = Object
          BY <1>12, <4>1 DEF Tree
        <4> QED BY <1>9, <4>2
      <3>3. p \in DOMAIN Merge(base, x) /\ Merge(base, x)[p] = base[p]
        BY <2>3, <3>1, <3>2, MergeKeeps
      <3> QED BY <1>5, <2>3, <3>3
    <2> QED BY <2>2, <2>3
  <1>13. SameMods(ModsOf(made), ModsOf(cfg))
    <2>1. ASSUME NEW q \in DOMAIN x, AtOrUnder(mods, q) PROVE x[q] = Object
      <3>1. Under(mods, q)
        BY <1>9, <2>1, AtOrUnderSelf DEF Under
      <3>2. q = Game
        BY <1>7, <1>11, <2>1, <3>1, AboveField, FieldsAre DEF mods
      <3> QED BY <1>3, <3>2 DEF Made, Harmless
    <2>2. mods \notin DOMAIN x
      BY <1>9, AtOrUnderSelf
    <2>3. mods \in DOMAIN Merge(base, x) /\ Merge(base, x)[mods] = base[mods]
      BY <1>8, <2>1, <2>2, MergeKeeps
    <2>4. ModsOf(made) = CleanMods(r.field["mods"])
      BY <1>4, <1>5, <1>7, <1>8, <2>3, ModsRead, PlainIsRead DEF mods
    <2> QED BY <1>1, <2>4, CleanTwice DEF SameMods
  <1>14. ASSUME NEW p \in DOMAIN made, p \notin DOMAIN cfg PROVE p \in KnownPaths
    <2>1. p \in DOMAIN base
      BY <1>5, <1>10, <1>14, MergeIsFrom
    <2> QED BY <1>2, <1>6, <1>14, <2>1 DEF InFreeForm
  <1>15. Holds(made, Only(cfg, {p \in DOMAIN cfg : cfg[p] \notin {Null, Object} /\ p # mods}))
    BY <1>12 DEF Holds, Only
  <1> QED BY <1>13, <1>14, <1>15 DEF Applied, made, mods, r


-----------------------------------------------------------------------------
(* Opening a row.                                                          *)

\* Opening takes out what has become fields, and objects only if that was in them.
LEMMA DropNowModelledIs ==
  ASSUME NEW extras, Tree(extras)
  PROVE  LET x == DropNowModelled(extras) IN
         /\ Tree(x)
         /\ \A p \in DOMAIN x :
              /\ p \in DOMAIN extras /\ x[p] = extras[p]
              /\ \A q \in NowModelled : ~AtOrUnder(p, q)
         /\ \A p \in DOMAIN extras :
              /\ \A q \in NowModelled : ~AtOrUnder(p, q)
              /\ extras[p] # Object \/ \A q \in NowModelled : ~Under(q, p)
              => p \in DOMAIN x
         /\ NothingEmpty(extras) => NothingEmpty(x)
  <1> DEFINE a == Header
             b == PathOf("mods")
             c == PathOf("blacklist")
             d == PathOf("navs")
             x1 == DropPath(extras, a)
             x2 == DropPath(x1, b)
             x3 == DropPath(x2, c)
             x4 == DropPath(x3, d)
  <1>1. a \in Path /\ b \in Path /\ c \in Path /\ d \in Path
    BY FieldPath, FieldsAre, BlockPaths DEF AllBlocks
  <1>2. NowModelled = {a, b, c, d} /\ x4 = DropNowModelled(extras)
    BY DEF NowModelled, DropNowModelled
  <1> HIDE DEF a, b, c, d
  <1>3. /\ Tree(x1)
        /\ NothingEmpty(extras) => NothingEmpty(x1)
        /\ DOMAIN x1 \subseteq DOMAIN extras
        /\ \A p \in DOMAIN x1 : x1[p] = extras[p] /\ ~AtOrUnder(p, a)
        /\ \A p \in DOMAIN extras :
             ~AtOrUnder(p, a) /\ (extras[p] # Object \/ ~Under(a, p)) => p \in DOMAIN x1
    BY <1>1, DropPathIsTree, DropPathPart, DropPathEmptiesNothing
  <1> HIDE DEF x1
  <1>4. /\ Tree(x2)
        /\ NothingEmpty(x1) => NothingEmpty(x2)
        /\ DOMAIN x2 \subseteq DOMAIN x1
        /\ \A p \in DOMAIN x2 : x2[p] = x1[p] /\ ~AtOrUnder(p, b)
        /\ \A p \in DOMAIN x1 :
             ~AtOrUnder(p, b) /\ (x1[p] # Object \/ ~Under(b, p)) => p \in DOMAIN x2
    BY <1>1, <1>3, DropPathIsTree, DropPathPart, DropPathEmptiesNothing
  <1> HIDE DEF x2
  <1>5. /\ Tree(x3)
        /\ NothingEmpty(x2) => NothingEmpty(x3)
        /\ DOMAIN x3 \subseteq DOMAIN x2
        /\ \A p \in DOMAIN x3 : x3[p] = x2[p] /\ ~AtOrUnder(p, c)
        /\ \A p \in DOMAIN x2 :
             ~AtOrUnder(p, c) /\ (x2[p] # Object \/ ~Under(c, p)) => p \in DOMAIN x3
    BY <1>1, <1>4, DropPathIsTree, DropPathPart, DropPathEmptiesNothing
  <1> HIDE DEF x3
  <1>6. /\ Tree(x4)
        /\ NothingEmpty(x3) => NothingEmpty(x4)
        /\ DOMAIN x4 \subseteq DOMAIN x3
        /\ \A p \in DOMAIN x4 : x4[p] = x3[p] /\ ~AtOrUnder(p, d)
        /\ \A p \in DOMAIN x3 :
             ~AtOrUnder(p, d) /\ (x3[p] # Object \/ ~Under(d, p)) => p \in DOMAIN x4
    BY <1>1, <1>5, DropPathIsTree, DropPathPart, DropPathEmptiesNothing
  <1> HIDE DEF x4
  <1>7. ASSUME NEW p \in DOMAIN x4
        PROVE  /\ p \in DOMAIN extras /\ x4[p] = extras[p]
               /\ \A q \in {a, b, c, d} : ~AtOrUnder(p, q)
    <2>1. p \in DOMAIN x3 /\ p \in DOMAIN x2 /\ p \in DOMAIN x1 /\ p \in DOMAIN extras
      BY <1>3, <1>4, <1>5, <1>6
    <2> QED BY <1>3, <1>4, <1>5, <1>6, <2>1
  <1>8. ASSUME NEW p \in DOMAIN extras, \A q \in {a, b, c, d} : ~AtOrUnder(p, q),
               extras[p] # Object \/ \A q \in {a, b, c, d} : ~Under(q, p)
        PROVE  p \in DOMAIN x4
    <2>1. p \in DOMAIN x1 /\ x1[p] = extras[p]
      BY <1>3, <1>8
    <2>2. p \in DOMAIN x2 /\ x2[p] = extras[p]
      BY <1>4, <1>8, <2>1
    <2>3. p \in DOMAIN x3 /\ x3[p] = extras[p]
      BY <1>5, <1>8, <2>2
    <2> QED BY <1>6, <1>8, <2>3
  <1>9. NothingEmpty(extras) => NothingEmpty(x4)
    BY <1>3, <1>4, <1>5, <1>6
  <1> QED BY <1>2, <1>6, <1>7, <1>8, <1>9

\* The block of RCON goes with a list of names that was in it.
LEMMA RconStays ==
  ASSUME NEW extras, Tree(extras), NothingEmpty(extras), Rcon \in DOMAIN extras,
         extras[Rcon] = Object, Rcon \notin DOMAIN DropNowModelled(extras)
  PROVE  PathOf("blacklist") \in DOMAIN extras
  <1> DEFINE x == DropNowModelled(extras)
             l == PathOf("blacklist")
  <1>0. l \in Path /\ Rcon \in Path /\ l \in NowModelled /\ Rcon \in AllBlocks
    BY FieldPath, FieldsAre, BlockPaths DEF AllBlocks, NowModelled
  <1>1. \A p : Under(l, p) /\ p \in Path => p = Rcon
    BY AboveField, FieldsAre
  <1>2. ASSUME NEW m \in NowModelled, AtOrUnder(m, Rcon) PROVE m = l
    <2>1. CASE m = Header
      <3>1. Under(Header, Rcon)
        BY <1>2, <2>1, BlocksDiffer DEF Under
      <3>2. Rcon \in {Game, Props}
        BY <3>1, <1>0, AboveBlock DEF AllBlocks
      <3> QED BY <3>2, BlocksDiffer
    <2>2. CASE m \in {PathOf("mods"), PathOf("navs")}
      <3>1. Under(m, Rcon)
        BY <1>0, <1>2, <2>2, FieldIsNoBlock, FieldsAre DEF Under
      <3>2. Rcon \in {Game, Operating}
        BY <1>0, <2>2, <3>1, AboveField, FieldsAre
      <3> QED BY <3>2, BlocksDiffer
    <2> QED BY <2>1, <2>2 DEF NowModelled
  <1>3. PICK q \in DOMAIN extras : Under(q, Rcon)
    BY DEF NothingEmpty
  <1>4. q \in Path /\ \A m \in NowModelled : m \in Path
    BY FieldPath, FieldsAre, BlockPaths DEF Tree, NowModelled, AllBlocks
  <1>5. /\ Tree(x)
        /\ \A p \in DOMAIN extras :
              /\ \A r \in NowModelled : ~AtOrUnder(p, r)
              /\ extras[p] # Object \/ \A r \in NowModelled : ~Under(r, p)
              => p \in DOMAIN x
    BY DropNowModelledIs
  <1> HIDE DEF x, l
  <1>6. q \notin DOMAIN x
    BY <1>0, <1>3, <1>5 DEF Tree, x
  <1>7. PICK m \in NowModelled : AtOrUnder(q, m) \/ Under(m, q)
    BY <1>5, <1>6
  <1>8. CASE AtOrUnder(q, m)
    <2>1. AtOrUnder(m, Rcon)
      <3>1. AtOrUnder(m, Rcon) \/ AtOrUnder(Rcon, m)
        BY <1>0, <1>3, <1>4, <1>8, Comparable DEF Under
      <3>2. ASSUME Under(Rcon, m) PROVE FALSE
        BY <1>0, <1>4, <3>2, AboveBlock
      <3> QED BY <3>1, <3>2, AtOrUnderSelf DEF Under
    <2>2. AtOrUnder(q, l)
      BY <1>2, <1>8, <2>1
    <2> QED BY <1>0, <2>2 DEF Tree, Under, l
  <1>9. CASE Under(m, q)
    <2>1. m = l
      BY <1>2, <1>3, <1>9, AtOrUnderTrans DEF Under
    <2>2. q = Rcon
      BY <1>1, <1>4, <1>9, <2>1
    <2> QED BY <1>3, <2>2 DEF Under
  <1> QED BY <1>7, <1>8, <1>9

LEMMA HarmlessPart ==
  ASSUME NEW e, NEW x, Harmless(e), \A p \in DOMAIN x : p \in DOMAIN e /\ x[p] = e[p]
  PROVE  Harmless(x)
  BY DEF Harmless

\* What is left of the extras of a row is as the wizard makes them, and keeps the keys.
LEMMA OpenedIsMade ==
  ASSUME NEW extras, Tree(extras), NothingEmpty(extras), Harmless(NowCustom(extras))
  PROVE  Made(DropNowModelled(extras))
  <1> DEFINE x == DropNowModelled(extras)
  <1>1. /\ Tree(x) /\ NothingEmpty(x)
        /\ \A p \in DOMAIN x :
              /\ p \in DOMAIN extras /\ x[p] = extras[p]
              /\ \A q \in NowModelled : ~AtOrUnder(p, q)
    BY DropNowModelledIs
  <1> HIDE DEF x
  <1>2. \A p \in DOMAIN x : p \in DOMAIN NowCustom(extras) /\ x[p] = NowCustom(extras)[p]
    BY <1>1 DEF NowCustom, Only
  <1>3. Harmless(x)
    BY <1>2, HarmlessPart
  <1>4. PathOf("navs") \notin DOMAIN x
    BY <1>1, AtOrUnderSelf DEF NowModelled
  <1> QED BY <1>1, <1>3, <1>4 DEF Made, x

LEMMA OpenedKeeps ==
  ASSUME NEW extras, Tree(extras), NEW keys, Keeps(extras, keys)
  PROVE  Keeps(DropNowModelled(extras), keys)
  <1> DEFINE x == DropNowModelled(extras)
  <1>1. /\ \A p \in DOMAIN x : x[p] = extras[p]
        /\ \A p \in DOMAIN extras :
              (\A q \in NowModelled : ~AtOrUnder(p, q)) /\ extras[p] # Object => p \in DOMAIN x
    BY DropNowModelledIs
  <1> HIDE DEF x
  <1>2. Keeps(x, keys)
    BY <1>1 DEF Keeps
  <1> QED BY <1>2 DEF x

\* Opening a row gives a spec.
LEMMA OpenedIs ==
  ASSUME NEW r, NEW mods, Tree(r.config), Tree(r.extras)
  PROVE  LET open == Opened(r, mods)
             read == SpecFrom(r.config, FALSE) IN
         /\ IsSpec(open)
         /\ open.field = [read.field EXCEPT !["mods"] = mods]
         /\ open.header = read.header /\ open.on = read.on
         /\ open.graph = r.graph /\ open.label = r.label
         /\ open.extras = DropNowModelled(r.extras)
  <1> DEFINE open == Opened(r, mods)
             read == SpecFrom(r.config, FALSE)
             field == [read.field EXCEPT !["mods"] = mods]
             x == DropNowModelled(r.extras)
  <1>1. open = [field |-> field, header |-> read.header, on |-> read.on,
                graph |-> r.graph, label |-> r.label, extras |-> x]
    BY DEF Opened
  <1>2. /\ read.field = [f \in Fields |-> read.field[f]]
        /\ read.header = Inside(r.config, Header) /\ read.on \subseteq Switches
    BY ReadIs
  <1> HIDE DEF read, open
  <1>3. /\ field = [f \in Fields |-> field[f]] /\ field["mods"] = mods
        /\ \A f \in Fields : f # "mods" => field[f] = read.field[f]
    BY <1>2, FieldsAre
  <1>4. Tree(x) /\ IsHeader(read.header)
    BY <1>2, DropNowModelledIs, InsideIsHeader
  <1> HIDE DEF field, x
  <1>5. /\ open.field = field /\ open.header = read.header /\ open.on = read.on
        /\ open.graph = r.graph /\ open.label = r.label /\ open.extras = x
    BY <1>1
  <1>6. IsSpec(open)
    <2>1. open = [field |-> open.field, header |-> open.header, on |-> open.on,
                  graph |-> open.graph, label |-> open.label, extras |-> open.extras]
      BY <1>1, <1>5
    <2> QED BY <1>2, <1>3, <1>4, <1>5, <2>1, DocIsTree DEF IsSpec
  <1> QED BY <1>5, <1>6 DEF open, read, x, field

ModsOut(r) ==
  IF ~r.listed THEN ModsOf(r.config)
  ELSE IF r.mods = "m1" /\ ModsOf(r.config) = "m1!" THEN "m1!" ELSE r.mods

LEMMA OutIs == \A r : Out(r) = Opened(r, ModsOut(r))
  BY DEF Out, ModsOut, ModsOf


-----------------------------------------------------------------------------
(* A row and the spec it was rendered from.                                *)

\* Extras that leave the blocks, the fields that are mirrored and a password alone.
Tame(extras) ==
  /\ \A b \in {Game, Props, Persistence, Operating, Rcon} \cap DOMAIN extras : extras[b] = Object
  /\ \A p \in DOMAIN extras, f \in Mirrored : ~AtOrUnder(p, PathOf(f))
  /\ PathOf("password") \in DOMAIN extras => extras[PathOf("password")] = ""

\* Where what has become fields lies beside blocks and mirrored fields.
LEMMA NowModelledApart ==
  /\ \A b \in {Game, Props, Persistence, Operating, Rcon}, m \in NowModelled : ~AtOrUnder(b, m)
  /\ \A f \in Mirrored \cup {"password"}, m \in NowModelled :
       ~AtOrUnder(PathOf(f), m) /\ ~AtOrUnder(m, PathOf(f))
  <1>1. ASSUME NEW b \in {Game, Props, Persistence, Operating, Rcon}, NEW f \in Fields,
               AtOrUnder(b, PathOf(f))
        PROVE  FALSE
    <2>1. b \in AllBlocks /\ PathOf(f) \in Path /\ PathOf(f) \notin AllBlocks
      BY FieldPath, FieldIsNoBlock DEF AllBlocks
    <2>2. Under(b, PathOf(f))
      BY <1>1, <2>1 DEF Under
    <2>3. PathOf(f) \in {Game, Props}
      BY <1>1, <2>1, <2>2, AboveBlock
    <2> QED BY <2>1, <2>3 DEF AllBlocks
  <1>2. ASSUME NEW b \in {Game, Props, Persistence, Operating, Rcon} PROVE ~AtOrUnder(b, Header)
    BY HeaderApart, BlocksDiffer DEF Under, AllBlocks
  <1>3. /\ Mirrored \cup {"password"} \subseteq Fields
        /\ {"mods", "blacklist", "navs"} \subseteq Fields
        /\ \A f \in Mirrored \cup {"password"} : f \notin {"mods", "blacklist", "navs"}
    BY FieldsAre DEF Mirrored
  <1>4. \A f \in Mirrored \cup {"password"} :
          ~AtOrUnder(PathOf(f), Header) /\ ~AtOrUnder(Header, PathOf(f))
    BY <1>3, HeaderApart
  <1>5. \A f \in Mirrored \cup {"password"}, g \in {"mods", "blacklist", "navs"} :
          ~AtOrUnder(PathOf(f), PathOf(g)) /\ ~AtOrUnder(PathOf(g), PathOf(f))
    BY <1>3, FieldsApart
  <1> QED BY <1>1, <1>2, <1>3, <1>4, <1>5 DEF NowModelled

LEMMA IsTame ==
  ASSUME NEW extras, Tree(extras), Harmless(NowCustom(extras))
  PROVE  Tame(extras)
  <1> DEFINE n == NowCustom(extras)
  <1>1. /\ \A p \in DOMAIN n : p \in DOMAIN extras /\ n[p] = extras[p]
        /\ \A p \in DOMAIN extras : (\A q \in NowModelled : ~AtOrUnder(p, q)) => p \in DOMAIN n
    BY DEF NowCustom, Only
  <1> HIDE DEF n
  <1>2. Harmless(n)
    BY DEF n
  <1>3. \A b \in {Game, Props, Persistence, Operating, Rcon} \cap DOMAIN extras :
          extras[b] = Object
    BY <1>1, <1>2, NowModelledApart DEF Harmless
  <1>4. ASSUME NEW p \in DOMAIN extras, NEW f \in Mirrored, AtOrUnder(p, PathOf(f)) PROVE FALSE
    <2>1. f \in Fields
      BY FieldsAre DEF Mirrored
    <2>2. p \in Path /\ PathOf(f) \in Path /\ \A m \in NowModelled : m \in Path
      <3>1. p \in Path /\ PathOf(f) \in Path
        BY <2>1, FieldPath DEF Tree
      <3>2. \A m \in NowModelled : m \in Path
        BY FieldPath, FieldsAre, BlockPaths DEF NowModelled, AllBlocks
      <3> QED BY <3>1, <3>2
    <2>3. \A m \in NowModelled : ~AtOrUnder(p, m)
      BY <1>4, <2>2, Comparable, NowModelledApart
    <2>4. p \in DOMAIN n
      BY <1>1, <2>3
    <2> QED BY <1>2, <1>4, <2>4 DEF Harmless, Mirrored
  <1>5. ASSUME PathOf("password") \in DOMAIN extras PROVE extras[PathOf("password")] = ""
    <2>1. PathOf("password") \in DOMAIN n
      BY <1>1, <1>5, NowModelledApart
    <2> QED BY <1>1, <1>2, <2>1 DEF Harmless
  <1> QED BY <1>3, <1>4, <1>5 DEF Tame

LEMMA HarmlessNowCustom ==
  ASSUME NEW extras, Harmless(extras) PROVE Harmless(NowCustom(extras))
  BY HarmlessPart DEF NowCustom, Only

\* What the extras say nothing of is as to_config has it.
LEMMA ConfigStays ==
  ASSUME NEW s, NEW p \in DOMAIN Config(s), p \notin DOMAIN s.extras,
         \A q \in DOMAIN s.extras : Under(p, q) => s.extras[q] = Object
  PROVE  p \in DOMAIN ToConfig(s) /\ ToConfig(s)[p] = Config(s)[p]
  <1>1. \A q \in DOMAIN s.extras : AtOrUnder(p, q) => s.extras[q] = Object
    BY DEF Under
  <1> QED BY <1>1, MergeKeeps DEF ToConfig

LEMMA BlocksStay ==
  ASSUME NEW s, IsSpec(s), Tame(s.extras),
         NEW b \in Blocks(s) \cap {Game, Props, Persistence, Operating, Rcon}
  PROVE  b \in DOMAIN ToConfig(s) /\ ToConfig(s)[b] = Object
  <1>1. b \in DOMAIN Config(s) /\ Config(s)[b] = Object
    BY ConfigHas DEF IsSpec
  <1>2. CASE b \in DOMAIN s.extras
    <2>1. s.extras[b] = Object /\ Object # Null
      BY <1>2 DEF Tame, Object, Null
    <2> QED BY <1>2, <2>1, MergeSets DEF ToConfig
  <1>3. CASE b \notin DOMAIN s.extras
    <2>1. \A q \in DOMAIN s.extras : q \in Path
      BY SpecParts DEF Tree
    <2>2. ASSUME NEW q \in DOMAIN s.extras, Under(b, q) PROVE s.extras[q] = Object
      <3>1. q \in {Game, Props, Persistence}
        BY <2>1, <2>2, AboveBlock DEF AllBlocks
      <3> QED BY <3>1 DEF Tame
    <2> QED BY <1>1, <1>3, <2>2, ConfigStays
  <1> QED BY <1>2, <1>3

LEMMA FieldsStay ==
  ASSUME NEW s, IsSpec(s), Tame(s.extras),
         NEW f \in Written(s), PathOf(f) \notin DOMAIN s.extras
  PROVE  PathOf(f) \in DOMAIN ToConfig(s) /\ ToConfig(s)[PathOf(f)] = s.field[f]
  <1>1. PathOf(f) \in DOMAIN Config(s) /\ Config(s)[PathOf(f)] = s.field[f]
    BY ConfigHas DEF IsSpec
  <1>2. ASSUME NEW q \in DOMAIN s.extras, Under(PathOf(f), q) PROVE s.extras[q] = Object
    <2>1. q \in Path /\ f \in Fields
      BY SpecParts, WrittenAre DEF Tree
    <2>2. q \in {Game, Props, Persistence, Operating, Rcon}
      BY <1>2, <2>1, AboveField
    <2> QED BY <2>2 DEF Tame
  <1> QED BY <1>1, <1>2, ConfigStays

\* What the extras do not touch of the header stays.
LEMMA HeaderStays ==
  ASSUME NEW s, IsSpec(s), Harmless(s.extras)
  PROVE  /\ Inside(ToConfig(s), Header) = s.header
         /\ Header \in DOMAIN ToConfig(s) =>
              IsObject(ToConfig(s), Header) /\ Inside(ToConfig(s), Header) # Empty
  <1> DEFINE cfg == ToConfig(s)
  <1>0. /\ IsHeader(s.header) /\ Tree(s.extras) /\ Tree(cfg)
        /\ \A p \in DOMAIN s.extras : p \in Path /\ ~AtOrUnder(p, Header)
    BY SpecParts DEF Tree, Harmless
  <1>1. ASSUME NEW p \in DOMAIN s.header PROVE p \in DOMAIN cfg /\ cfg[p] = s.header[p]
    <2>1. p \in DOMAIN Config(s) /\ Config(s)[p] = s.header[p]
      BY <1>0, ConfigHas
    <2>2. p \in Path /\ Under(p, Header) /\ Header \in Path
      BY <1>0, HeaderIs, BlockPaths DEF AllBlocks
    <2>3. p \notin DOMAIN s.extras
      BY <1>0, <2>2 DEF Under
    <2>4. ASSUME NEW q \in DOMAIN s.extras, Under(p, q) PROVE s.extras[q] = Object
      <3>1. Under(Header, q)
        BY <1>0, <2>2, <2>4, Comparable, AtOrUnderSelf DEF Under
      <3>2. q \in {Game, Props}
        BY <1>0, <3>1, AboveBlock DEF AllBlocks
      <3> QED BY <3>2 DEF Harmless
    <2> QED BY <2>1, <2>3, <2>4, ConfigStays
  <1>2. ASSUME NEW p \in DOMAIN cfg, AtOrUnder(p, Header)
        PROVE  p \in DOMAIN Config(s) /\ cfg[p] = Config(s)[p]
    BY <1>0, <1>2, MergeIsFrom DEF ToConfig
  <1>3. ASSUME NEW p \in DOMAIN cfg, Under(p, Header) PROVE p \in DOMAIN s.header
    <2>1. p \in DOMAIN Config(s)
      BY <1>2, <1>3 DEF Under
    <2>2. p \notin Blocks(s)
      BY <1>3, BlocksAre, HeaderApart
    <2>3. p \notin Fixed(s)
      BY <1>3, BlocksAre, HeaderApart DEF Under
    <2>4. ~\E f \in Written(s) : p = PathOf(f)
      BY <1>3, WrittenAre, HeaderApart DEF Under
    <2> QED BY <1>0, <2>1, <2>2, <2>3, <2>4, ConfigHas
  <1>4. \A p \in DOMAIN s.header : Under(p, Header)
    BY <1>0, HeaderIs
  <1>5. s.header = [p \in DOMAIN s.header |-> s.header[p]]
    BY <1>0, HeaderIs
  <1> HIDE DEF cfg
  <1>6. Inside(cfg, Header) = s.header
    <2>1. DOMAIN Inside(cfg, Header) = DOMAIN s.header
      BY <1>1, <1>3, <1>4, InsideIs
    <2>2. \A p \in DOMAIN s.header : Inside(cfg, Header)[p] = s.header[p]
      BY <1>1, <1>4, InsideIs
    <2>3. Inside(cfg, Header) = [p \in DOMAIN Inside(cfg, Header) |-> Inside(cfg, Header)[p]]
      BY InsideIs
    <2> QED BY <1>5, <2>1, <2>2, <2>3
  <1>7. ASSUME Header \in DOMAIN cfg PROVE IsObject(cfg, Header) /\ s.header # Empty
    <2>1. Header \in DOMAIN Config(s) /\ cfg[Header] = Config(s)[Header]
      BY <1>2, <1>7, AtOrUnderSelf
    <2>2. Header \notin Fixed(s) /\ Header \notin DOMAIN s.header
      BY <1>4, BlocksAre, HeaderApart, AtOrUnderSelf DEF Under
    <2>3. ~\E f \in Written(s) : Header = PathOf(f)
      BY WrittenAre, HeaderApart, AtOrUnderSelf
    <2>4. Header \in Blocks(s)
      BY <1>0, <2>1, <2>2, <2>3, ConfigHas
    <2> QED BY <1>0, <1>7, <2>1, <2>4, ConfigHas, BlocksAre DEF IsObject
  <1> QED BY <1>6, <1>7 DEF cfg

\* Nor are the mods in them.
LEMMA ModsStay ==
  ASSUME NEW s, IsSpec(s), Harmless(s.extras)
  PROVE  /\ PathOf("mods") \in DOMAIN ToConfig(s)
         /\ ToConfig(s)[PathOf("mods")] = s.field["mods"]
         /\ ModsOf(ToConfig(s)) = s.field["mods"]
  <1>1. PathOf("mods") \notin DOMAIN s.extras
    BY AtOrUnderSelf DEF Harmless
  <1>2. Tame(s.extras)
    BY SpecParts, HarmlessNowCustom, IsTame
  <1>3. "mods" \in Written(s) /\ "mods" \in Plain
    BY WrittenAre DEF Plain
  <1>4. /\ PathOf("mods") \in DOMAIN ToConfig(s)
        /\ ToConfig(s)[PathOf("mods")] = s.field["mods"]
    BY <1>1, <1>2, <1>3, FieldsStay
  <1> QED BY <1>3, <1>4, ModsRead, PlainIsRead

\* The custom keys of what is rendered are in the extras.
LEMMA RenderedKeeps ==
  ASSUME NEW s, IsSpec(s)
  PROVE  Keeps(s.extras, CustomKeys(ToConfig(s)))
  <1> DEFINE cfg == ToConfig(s)
             keys == CustomKeys(cfg)
  <1>1. \A p \in DOMAIN Config(s) : p \in KnownPaths \/ InFreeForm(p)
    BY ConfigIsKnown DEF IsSpec
  <1>2. \A p \in DOMAIN keys :
           /\ p \in DOMAIN cfg /\ keys[p] = cfg[p] /\ cfg[p] \notin {Null, Object}
           /\ p \notin KnownPaths /\ ~InFreeForm(p)
           /\ \A q \in NowModelled : ~AtOrUnder(p, q)
    BY CustomKeysAre
  <1>3. \A p \in DOMAIN cfg :
          p \notin DOMAIN Config(s) => p \in DOMAIN s.extras /\ cfg[p] = s.extras[p]
    BY MergeIsFrom DEF ToConfig
  <1> HIDE DEF keys, cfg
  <1>4. Keeps(s.extras, keys)
    BY <1>1, <1>2, <1>3 DEF Keeps
  <1> QED BY <1>4 DEF keys, cfg


-----------------------------------------------------------------------------
(* The steps.                                                              *)

LEMMA AppliedIs == AppliedIsRendered <=> (typed # NoPage => Applied(page, typed))
  BY DEF AppliedIsRendered, Applied

LEMMA NothingKept == \A extras : Keeps(extras, Empty)
  BY EmptyHeader DEF Keeps

LEMMA NothingMade == Made(Empty)
  BY EmptyHeader DEF Made, NothingEmpty, Harmless

\* A row gives back a page.
LEMMA RowOpens ==
  ASSUME NEW s, RowFrom(s)
  PROVE  IsSpec(Out(row)) /\ Made(Out(row).extras) /\ Keeps(Out(row).extras, rowOwn)
  <1>1. /\ IsSpec(s) /\ row.config = ToConfig(s) /\ row.extras = s.extras
        /\ NothingEmpty(s.extras) /\ Harmless(NowCustom(s.extras)) /\ Keeps(s.extras, rowOwn)
    BY DEF RowFrom, Settled
  <1>2. Tree(row.config) /\ Tree(row.extras)
    BY <1>1, SpecParts
  <1>3. IsSpec(Out(row)) /\ Out(row).extras = DropNowModelled(row.extras)
    BY <1>2, OutIs, OpenedIs
  <1>4. Made(DropNowModelled(row.extras)) /\ Keeps(DropNowModelled(row.extras), rowOwn)
    BY <1>1, <1>2, OpenedIsMade, OpenedKeeps
  <1> QED BY <1>3, <1>4

LEMMA CleanIsSettled ==
  ASSUME NEW s, IsSpec(s), Valid(s)
  PROVE  Settled(Clean(s)) /\ Valid(Clean(s))
  <1>1. IsSpec(Clean(s)) /\ Clean(s).field = CleanFields(s.field)
    BY CleanIs
  <1>2. Clean(Clean(s)) = Clean(s)
    BY CleanSpecTwice
  <1>3. \A f \in Fields : CleanFields(s.field)[f] \notin {Null, Object}
    BY CleanFieldsTyped DEF Valid, WellTyped
  <1>4. WellTyped(Clean(s))
    BY <1>1, <1>3 DEF WellTyped
  <1>5. Valid(Clean(s))
    <2>1. \A f \in {"scenario", "max", "grass"} : Clean(s).field[f] = s.field[f]
      BY <1>1, CleanFieldsAre
    <2> QED BY <1>4, <2>1 DEF Valid
  <1> QED BY <1>1, <1>2, <1>4, <1>5 DEF Settled

\* What a save stores of page p is rendered from Clean(p).
LEMMA SavedIs ==
  ASSUME NEW p, IsSpec(p), Made(p.extras), Valid(p), NEW keys, Keeps(p.extras, keys),
         row' = Saved(p), rowOwn' = keys, saved' = {Clean(p)}
  PROVE  RowInv'
  <1> DEFINE t == Clean(p)
  <1>1. /\ IsSpec(t) /\ t.extras = p.extras /\ t.graph = p.graph /\ t.label = p.label
        /\ t.field["mods"] = CleanMods(p.field["mods"])
    BY CleanIs, CleanFieldsAre
  <1>2. Settled(t) /\ Valid(t)
    BY CleanIsSettled
  <1>3. /\ row'.config = ToConfig(t) /\ row'.extras = t.extras /\ row'.graph = t.graph
        /\ row'.label = t.label /\ row'.listed /\ row'.mods = t.field["mods"]
    BY <1>1 DEF Saved, Render
  <1>4. saved' = {t}
    OBVIOUS
  <1> HIDE DEF t
  <1>5. Made(t.extras) /\ Keeps(t.extras, rowOwn')
    BY <1>1
  <1>6. Harmless(t.extras) /\ NothingEmpty(t.extras)
    BY <1>5 DEF Made
  <1>7. Harmless(NowCustom(t.extras))
    BY <1>6, HarmlessNowCustom
  <1>8. Header \in DOMAIN row'.config =>
          IsObject(row'.config, Header) /\ Inside(row'.config, Header) # Empty
    BY <1>1, <1>3, <1>6, HeaderStays
  <1>9. /\ PathOf("mods") \in DOMAIN row'.config /\ ModsOf(row'.config) = t.field["mods"]
        /\ ModsOf(row'.config) = row'.mods
    BY <1>1, <1>3, <1>6, ModsStay
  <1>10. CleanMods(ModsOf(row'.config)) = ModsOf(row'.config)
    BY <1>1, <1>9, CleanTwice
  <1>11. RowFrom(t)'
    BY <1>2, <1>3, <1>4, <1>5, <1>6, <1>7, <1>8, <1>9, <1>10 DEF RowFrom
  <1> QED BY <1>4, <1>11 DEF RowInv

LEMMA StoresRow ==
  ASSUME NEW p, IsSpec(p), Made(p.extras), NEW keys, Keeps(p.extras, keys), Stores(p, keys)
  PROVE  RowInv'
  BY SavedIs DEF Stores

LEMMA RowStays ==
  ASSUME RowInv, UNCHANGED <<row, rowOwn, saved>>
  PROVE  RowInv'
  BY DEF RowInv, RowFrom

\* The invariant, action by action.
LEMMA EditingInitIInv == EditingInit => IInv
  <1> SUFFICES ASSUME EditingInit PROVE IInv
    OBVIOUS
  <1>1. PageInv /\ AppliedIsRendered
    BY DEF EditingInit, PageInv, Closed, AppliedIsRendered
  <1>2. PICK o \in Old : row = RowOf(o)
    BY DEF EditingInit
  <1> DEFINE s == o.spec
  <1>3. /\ IsSpec(s) /\ Clean(s) = s /\ WellTyped(s)
        /\ NothingEmpty(s.extras) /\ Harmless(NowCustom(s.extras)) /\ ~Revived(s)
        /\ Header \in DOMAIN ToConfig(s) =>
             IsObject(ToConfig(s), Header) /\ Inside(ToConfig(s), Header) # Empty
        /\ PathOf("mods") \in DOMAIN ToConfig(s)
        /\ CleanMods(ModsOf(ToConfig(s))) = ModsOf(ToConfig(s))
        /\ o.listed => ModsOf(ToConfig(s)) = o.mods
                         \/ <<o.mods, ModsOf(ToConfig(s))>> = <<"m1", "m1!">>
    BY OldAssumption DEF IsOld
  <1>4. /\ row.config = ToConfig(s) /\ row.extras = s.extras /\ row.graph = s.graph
        /\ row.label = s.label /\ row.mods = o.mods /\ row.listed = o.listed
    BY <1>2 DEF RowOf
  <1>5. rowOwn = CustomKeys(ToConfig(s)) /\ saved = {}
    BY <1>4 DEF EditingInit
  <1>6. Keeps(s.extras, rowOwn)
    BY <1>3, <1>5, RenderedKeeps
  <1>7. s \in {q.spec : q \in Old}
    OBVIOUS
  <1> HIDE DEF s
  <1>8. RowFrom(s)
    BY <1>3, <1>4, <1>5, <1>6 DEF RowFrom, Settled
  <1>9. RowInv
    BY <1>7, <1>8 DEF RowInv
  <1> QED BY <1>1, <1>9 DEF IInv

LEMMA OpenIInv == ASSUME IInv, OpenTemplate PROVE IInv'
  <1>1. RowInv /\ page' = Out(row) /\ own' = rowOwn /\ typed' = NoPage
        /\ UNCHANGED <<row, rowOwn, saved>>
    BY DEF IInv, OpenTemplate
  <1>2. PICK s : RowFrom(s)
    BY <1>1 DEF RowInv
  <1>3. PageInv'
    BY <1>1, <1>2, RowOpens DEF PageInv
  <1> QED BY <1>1, <1>3, RowStays DEF IInv, AppliedIsRendered

LEMMA NewIInv == ASSUME IInv, NewTemplate PROVE IInv'
  <1>1. RowInv /\ page' = Defaults /\ own' = Empty /\ typed' = NoPage
        /\ UNCHANGED <<row, rowOwn, saved>>
    BY DEF IInv, NewTemplate
  <1>2. IsSpec(Defaults) /\ Defaults.extras = Empty
    <2> DEFINE field == [Absent EXCEPT !["scenario"] = "sc", !["mods"] = "m1"]
    <2>1. DOMAIN field = Fields
      BY DEF Absent, Fields, Home
    <2>2. field = [f \in DOMAIN field |-> field[f]]
      OBVIOUS
    <2>3. Defaults = [field |-> field, header |-> Empty, on |-> {}, graph |-> {"m1"},
                      label |-> "name", extras |-> Empty]
      BY DEF Defaults
    <2> HIDE DEF field
    <2>4. /\ Defaults.field = field /\ Defaults.header = Empty /\ Defaults.on = {}
          /\ Defaults.graph = {"m1"} /\ Defaults.label = "name" /\ Defaults.extras = Empty
      BY <2>3
    <2> QED BY <2>1, <2>2, <2>3, <2>4, EmptyHeader, DocIsTree DEF IsSpec
  <1>3. PageInv'
    BY <1>1, <1>2, NothingKept, NothingMade DEF PageInv
  <1> QED BY <1>1, <1>3, RowStays DEF IInv, AppliedIsRendered

\* The form changes no extras.
LEMMA WithIsSpec ==
  ASSUME NEW s, IsSpec(s)
  PROVE  /\ \A f \in Fields : \A value :
              IsSpec(WithField(s, f, value)) /\ WithField(s, f, value).extras = s.extras
         /\ \A switch \in Switches : \A on :
              IsSpec(WithSwitch(s, switch, on)) /\ WithSwitch(s, switch, on).extras = s.extras
         /\ \A h : IsHeader(h) =>
              IsSpec(WithHeader(s, h)) /\ WithHeader(s, h).extras = s.extras
         /\ \A cfg : Tree(cfg) =>
              IsSpec(WithFile(s, cfg)) /\ WithFile(s, cfg).extras = s.extras
  <1>1. /\ s = [field |-> s.field, header |-> s.header, on |-> s.on, graph |-> s.graph,
                label |-> s.label, extras |-> s.extras]
        /\ s.field = [f \in Fields |-> s.field[f]]
        /\ s.on \subseteq Switches /\ IsHeader(s.header) /\ IsDoc(s.extras)
    BY DEF IsSpec
  <1>2. ASSUME NEW field, field = [f \in Fields |-> field[f]], NEW header, IsHeader(header),
               NEW on, on \subseteq Switches, NEW graph, NEW label, NEW t,
               t = [field |-> field, header |-> header, on |-> on, graph |-> graph,
                    label |-> label, extras |-> s.extras]
        PROVE  IsSpec(t) /\ t.extras = s.extras
    <2>1. /\ t.field = field /\ t.header = header /\ t.on = on /\ t.graph = graph
          /\ t.label = label /\ t.extras = s.extras
      BY <1>2
    <2>2. t = [field |-> t.field, header |-> t.header, on |-> t.on, graph |-> t.graph,
               label |-> t.label, extras |-> t.extras]
      BY <1>2, <2>1
    <2> QED BY <1>1, <1>2, <2>1, <2>2 DEF IsSpec
  <1>3. ASSUME NEW f \in Fields, NEW value
        PROVE  IsSpec(WithField(s, f, value)) /\ WithField(s, f, value).extras = s.extras
    <2> DEFINE field == [s.field EXCEPT ![f] = value]
               graph == IF f = "mods" THEN ModIds(value) ELSE s.graph
    <2>1. field = [g \in Fields |-> field[g]]
      BY <1>1
    <2>2. WithField(s, f, value) = [s EXCEPT !.field = field, !.graph = graph]
      BY DEF WithField
    <2> HIDE DEF field, graph
    <2>3. WithField(s, f, value)
            = [field |-> field, header |-> s.header, on |-> s.on, graph |-> graph,
               label |-> s.label, extras |-> s.extras]
      BY <1>1, <2>2
    <2> QED BY <1>1, <1>2, <2>1, <2>3
  <1>4. ASSUME NEW switch \in Switches, NEW on
        PROVE  IsSpec(WithSwitch(s, switch, on)) /\ WithSwitch(s, switch, on).extras = s.extras
    <2> DEFINE new == IF on THEN s.on \cup {switch} ELSE s.on \ {switch}
    <2>1. new \subseteq Switches
      BY <1>1
    <2>2. WithSwitch(s, switch, on) = [s EXCEPT !.on = new]
      BY DEF WithSwitch
    <2> HIDE DEF new
    <2>3. WithSwitch(s, switch, on)
            = [field |-> s.field, header |-> s.header, on |-> new, graph |-> s.graph,
               label |-> s.label, extras |-> s.extras]
      BY <1>1, <2>2
    <2> QED BY <1>1, <1>2, <2>1, <2>3
  <1>5. ASSUME NEW h, IsHeader(h)
        PROVE  IsSpec(WithHeader(s, h)) /\ WithHeader(s, h).extras = s.extras
    <2>1. WithHeader(s, h)
            = [field |-> s.field, header |-> h, on |-> s.on, graph |-> s.graph,
               label |-> s.label, extras |-> s.extras]
      BY <1>1 DEF WithHeader
    <2> QED BY <1>1, <1>2, <1>5, <2>1
  <1>6. ASSUME NEW cfg, Tree(cfg)
        PROVE  IsSpec(WithFile(s, cfg)) /\ WithFile(s, cfg).extras = s.extras
    <2> DEFINE read == SpecFrom(cfg, FALSE)
               label == ""
               graph == {}
    <2>1. /\ read.field = [f \in Fields |-> read.field[f]]
          /\ IsHeader(read.header) /\ read.on \subseteq Switches
      BY <1>6, ReadIs, InsideIsHeader
    <2>2. WithFile(s, cfg) = [s EXCEPT !.field = read.field, !.header = read.header,
                                       !.on = read.on, !.label = label, !.graph = graph]
      BY DEF WithFile
    <2> HIDE DEF read, label, graph
    <2>3. WithFile(s, cfg)
            = [field |-> read.field, header |-> read.header, on |-> read.on, graph |-> graph,
               label |-> label, extras |-> s.extras]
      BY <1>1, <2>2
    <2> QED BY <1>2, <2>1, <2>3
  <1> QED BY <1>3, <1>4, <1>5, <1>6

LEMMA ChangeIInv == ASSUME IInv, ChangeField PROVE IInv'
  <1>1. /\ ~Closed /\ RowInv /\ typed' = NoPage /\ UNCHANGED <<row, own, rowOwn, saved>>
    BY DEF IInv, ChangeField
  <1>2. IsSpec(page) /\ Made(page.extras) /\ Keeps(page.extras, own)
    BY <1>1 DEF IInv, PageInv
  <1>3. PICK e \in FormEdits :
          \/ e.field \in Fields /\ page' = WithField(page, e.field, e.value)
          \/ e.field \in Switches /\ page' = WithSwitch(page, e.field, e.value)
          \/ e.field = "header" /\ page' = WithHeader(page, e.value)
    BY DEF ChangeField
  <1>4. e.field = "header" => IsHeader(e.value)
    BY EditsAssumption
  <1>5. IsSpec(page') /\ page'.extras = page.extras
    BY <1>2, <1>3, <1>4, WithIsSpec
  <1>6. PageInv'
    BY <1>1, <1>2, <1>5 DEF PageInv
  <1> QED BY <1>1, <1>6, RowStays DEF IInv, AppliedIsRendered

LEMMA ImportIInv == ASSUME IInv, ImportFile PROVE IInv'
  <1>1. /\ ~Closed /\ RowInv /\ typed' = NoPage /\ UNCHANGED <<row, own, rowOwn, saved>>
    BY DEF IInv, ImportFile
  <1>2. IsSpec(page) /\ Made(page.extras) /\ Keeps(page.extras, own)
    BY <1>1 DEF IInv, PageInv
  <1>3. PICK cfg \in Files : page' = WithFile(page, cfg)
    BY DEF ImportFile
  <1>4. Tree(cfg)
    BY EditsAssumption, DocIsTree
  <1>5. IsSpec(page') /\ page'.extras = page.extras
    BY <1>2, <1>3, <1>4, WithIsSpec
  <1>6. PageInv'
    BY <1>1, <1>2, <1>5 DEF PageInv
  <1> QED BY <1>1, <1>6, RowStays DEF IInv, AppliedIsRendered

LEMMA ApplyIInv == ASSUME IInv, ApplyRaw PROVE IInv'
  <1>1. ~Closed /\ RowInv
    BY DEF IInv, ApplyRaw
  <1>2. IsSpec(page) /\ Made(page.extras) /\ Keeps(page.extras, own)
    BY <1>1 DEF IInv, PageInv
  <1>3. PICK e \in RawEdits :
          LET cfg == HandEdited(Render(page), e) IN
          IF Accepted(cfg)
          THEN /\ page' = Reconcile(page, cfg)
               /\ typed' = cfg /\ own' = CustomKeys(cfg)
               /\ \/ Stores(page', own')
                  \/ UNCHANGED <<row, rowOwn, saved>>
          ELSE typed' = NoPage /\ UNCHANGED <<row, page, own, rowOwn, saved>>
    BY DEF ApplyRaw
  <1> DEFINE cfg == HandEdited(Render(page), e)
  <1>4. Tree(cfg)
    BY <1>2, SpecParts, HandEditedIsTree, EditsAssumption
  <1> HIDE DEF cfg
  <1>5. CASE Accepted(cfg)
    <2>1. /\ page' = Reconcile(page, cfg) /\ typed' = cfg /\ own' = CustomKeys(cfg)
          /\ Stores(page', own') \/ UNCHANGED <<row, rowOwn, saved>>
      BY <1>3, <1>5 DEF cfg
    <2>2. IsSpec(page') /\ Made(page'.extras) /\ Keeps(page'.extras, own')
      BY <1>4, <1>5, <2>1, ReconcileIs, ExtrasAreMade, ExtrasKeepCustomKeys
    <2>3. Applied(page', typed')
      BY <1>4, <1>5, <2>1, ReconcileApplies
    <2>4. RowInv'
      BY <1>1, <2>1, <2>2, StoresRow, RowStays
    <2>5. AppliedIsRendered'
      BY <2>3 DEF AppliedIsRendered, Applied
    <2> QED BY <2>2, <2>4, <2>5 DEF IInv, PageInv
  <1>6. CASE ~Accepted(cfg)
    <2>1. typed' = NoPage /\ UNCHANGED <<row, page, own, rowOwn, saved>>
      BY <1>3, <1>6 DEF cfg
    <2>2. PageInv'
      BY <1>2, <2>1 DEF PageInv
    <2> QED BY <1>1, <2>1, <2>2, RowStays DEF IInv, AppliedIsRendered
  <1> QED BY <1>5, <1>6

LEMMA SaveIInv == ASSUME IInv, SaveTemplate PROVE IInv'
  <1>1. ~Closed /\ Stores(page, own) /\ typed' = NoPage /\ UNCHANGED <<page, own>>
    BY DEF SaveTemplate
  <1>2. IsSpec(page) /\ Made(page.extras) /\ Keeps(page.extras, own)
    BY <1>1 DEF IInv, PageInv
  <1>3. RowInv'
    BY <1>1, <1>2, StoresRow
  <1>4. PageInv'
    BY <1>1, <1>2 DEF PageInv
  <1> QED BY <1>1, <1>3, <1>4 DEF IInv, AppliedIsRendered

THEOREM EditingInvariant == EditingSpec => []IInv
  <1>1. IInv /\ [EditingNext]_editing => IInv'
    <2> SUFFICES ASSUME IInv, [EditingNext]_editing PROVE IInv'
      OBVIOUS
    <2>1. CASE UNCHANGED editing
      <3>1. /\ typed' = typed /\ page' = page
            /\ UNCHANGED <<row, own, rowOwn, saved>>
        BY <2>1 DEF editing
      <3>2. PageInv' /\ AppliedIsRendered'
        BY <3>1 DEF IInv, PageInv, Closed, AppliedIsRendered
      <3> QED BY <3>1, <3>2, RowStays DEF IInv
    <2> QED BY <2>1, OpenIInv, NewIInv, ChangeIInv, ImportIInv, ApplyIInv, SaveIInv
            DEF EditingNext
  <1> QED BY <1>1, EditingInitIInv, PTL DEF EditingSpec


-----------------------------------------------------------------------------
(* The properties.                                                         *)

\* Custom keys, once written by hand, are in config.json and in what the page renders.
THEOREM CustomKeysAreKept == EditingSpec => []CustomKeysSurvive
  <1>1. ASSUME NEW s, NEW keys, Keeps(s.extras, keys) PROVE Holds(ToConfig(s), keys)
    BY <1>1, MergeSets DEF Keeps, Holds, ToConfig
  <1>2. ASSUME IInv PROVE CustomKeysSurvive
    <2>1. PICK s : RowFrom(s)
      BY <1>2 DEF IInv, RowInv
    <2>2. Holds(row.config, rowOwn)
      BY <1>1, <2>1 DEF RowFrom
    <2>3. ASSUME ~Closed PROVE Holds(Render(page), own)
      <3>1. IsSpec(page) /\ Keeps(page.extras, own)
        BY <1>2, <2>3 DEF IInv, PageInv
      <3>2. Keeps(Clean(page).extras, own)
        BY <3>1, CleanIs
      <3> QED BY <1>1, <3>2 DEF Render
    <2> QED BY <2>2, <2>3 DEF CustomKeysSurvive
  <1> QED BY <1>2, EditingInvariant, PTL

\* A document that was applied is what the page renders, for any document and any page.
THEOREM WhatIsAppliedIsRendered == EditingSpec => []AppliedIsRendered
  <1>1. IInv => AppliedIsRendered
    BY DEF IInv
  <1> QED BY <1>1, EditingInvariant, PTL

\* A clean field is read as it was written.
LEMMA ValueOfClean ==
  ASSUME NEW s, Settled(s), NEW f \in Fields
  PROVE  Value(f, s.field[f]) = s.field[f]
  <1>1. s.field[f] \notin {Null, Object} /\ s.field = CleanFields(s.field)
    BY CleanIs DEF Settled, WellTyped
  <1>2. f = "players" => CleanPlayers(s.field[f]) = s.field[f]
    BY <1>1, CleanFieldsAre
  <1> QED BY <1>1, <1>2 DEF Value

\* What the page reads out of the row, field by field.
LEMMA RowReads ==
  ASSUME NEW s, RowFrom(s)
  PROVE  LET open == Out(row) IN
         /\ IsSpec(s) /\ Tame(s.extras) /\ Tree(s.extras) /\ Tree(row.config)
         /\ IsSpec(open) /\ open.extras = DropNowModelled(s.extras)
         /\ open.header = Inside(row.config, Header)
         /\ open.graph = s.graph /\ open.label = s.label
         /\ "persists" \in open.on <=> Persistence \in DOMAIN row.config
         /\ "nav" \in open.on <=> PathOf("navs") \in DOMAIN row.config
         /\ open.field["mods"] = ModsOf(row.config)
         /\ \A f \in Fields \ {"grass", "mods"} : open.field[f] = ReadOut(row.config, f)
         /\ ReadOut(row.config, "grass") # "10" =>
              open.field["grass"] = ReadOut(row.config, "grass")
  <1>1. /\ IsSpec(s) /\ row.config = ToConfig(s) /\ row.extras = s.extras
        /\ Harmless(NowCustom(s.extras)) /\ row.graph = s.graph /\ row.label = s.label
        /\ row.listed => \/ ModsOf(row.config) = row.mods
                         \/ row.mods = "m1" /\ ModsOf(row.config) = "m1!"
    BY DEF RowFrom, Settled
  <1>2. Tree(row.config) /\ Tree(row.extras) /\ Tame(s.extras)
    BY <1>1, SpecParts, IsTame
  <1> DEFINE open == Out(row)
             read == SpecFrom(row.config, FALSE)
  <1>3. /\ IsSpec(open) /\ open.field["mods"] = ModsOut(row)
        /\ \A f \in Fields : f # "mods" => open.field[f] = read.field[f]
        /\ open.header = read.header /\ open.on = read.on
        /\ open.graph = row.graph /\ open.label = row.label
        /\ open.extras = DropNowModelled(row.extras)
    <2> DEFINE mods == ModsOut(row)
    <2>1. open = Opened(row, mods)
      BY OutIs
    <2> HIDE DEF mods, open
    <2>2. /\ IsSpec(open) /\ open.field = [read.field EXCEPT !["mods"] = mods]
          /\ open.graph = row.graph /\ open.label = row.label
          /\ open.extras = DropNowModelled(row.extras)
      BY <1>2, <2>1, OpenedIs
    <2>3. read.field = [f \in Fields |-> read.field[f]]
      BY ReadIs
    <2>5. open.field["mods"] = mods /\ \A f \in Fields : f # "mods" => open.field[f] = read.field[f]
      <3> HIDE DEF read
      <3> QED BY <2>2, <2>3, FieldsAre
    <2>4. open.header = read.header /\ open.on = read.on
      BY <1>2, <2>1, OpenedIs
    <2> QED BY <2>2, <2>4, <2>5 DEF mods
  <1>4. /\ \A f \in Fields : f # "grass" => read.field[f] = ReadOut(row.config, f)
        /\ ReadOut(row.config, "grass") # "10" =>
             read.field["grass"] = ReadOut(row.config, "grass")
        /\ read.header = Inside(row.config, Header)
        /\ "persists" \in read.on <=> Persistence \in DOMAIN row.config
        /\ "nav" \in read.on <=> PathOf("navs") \in DOMAIN row.config
    BY ReadIs
  <1>5. ModsOut(row) = ModsOf(row.config)
    <2>1. "m1" # "m1!"
      OBVIOUS
    <2> QED BY <1>1, <2>1 DEF ModsOut
  <1> HIDE DEF open, read
  <1>6. \A f \in Fields \ {"grass", "mods"} : open.field[f] = ReadOut(row.config, f)
    BY <1>3, <1>4
  <1>7. ReadOut(row.config, "grass") # "10" =>
          open.field["grass"] = ReadOut(row.config, "grass")
    BY <1>3, <1>4, FieldsAre
  <1>8. /\ open.header = Inside(row.config, Header)
        /\ open.graph = s.graph /\ open.label = s.label
        /\ "persists" \in open.on <=> Persistence \in DOMAIN row.config
        /\ "nav" \in open.on <=> PathOf("navs") \in DOMAIN row.config
        /\ open.field["mods"] = ModsOf(row.config)
        /\ open.extras = DropNowModelled(s.extras)
    BY <1>1, <1>3, <1>4, <1>5
  <1> QED BY <1>1, <1>2, <1>3, <1>6, <1>7, <1>8 DEF open

\* Persistence is in config.json if it is on, or in the extras.
LEMMA PersistenceIs ==
  ASSUME NEW s, IsSpec(s), Tame(s.extras)
  PROVE  Persistence \in DOMAIN ToConfig(s)
           <=> "persists" \in s.on \/ Persistence \in DOMAIN s.extras
  <1>1. ASSUME "persists" \in s.on PROVE Persistence \in DOMAIN ToConfig(s)
    BY <1>1, BlocksAre, BlocksStay
  <1>2. ASSUME Persistence \in DOMAIN s.extras PROVE Persistence \in DOMAIN ToConfig(s)
    <2>1. s.extras[Persistence] = Object /\ Object # Null
      BY <1>2 DEF Tame, Object, Null
    <2> QED BY <1>2, <2>1, MergeSets DEF ToConfig
  <1>3. ASSUME Persistence \in DOMAIN ToConfig(s), Persistence \notin DOMAIN s.extras
        PROVE  "persists" \in s.on
    <2>1. Persistence \in DOMAIN Config(s)
      BY <1>3, MergeIsFrom DEF ToConfig
    <2>2. Persistence \notin Fixed(s)
      BY BlocksAre, BlocksDiffer DEF AllBlocks
    <2>3. ~\E f \in Written(s) : Persistence = PathOf(f)
      BY WrittenAre, FieldIsNoBlock DEF AllBlocks
    <2>4. Persistence \notin DOMAIN s.header
      BY SpecParts, HeaderIs, HeaderApart DEF AllBlocks
    <2> QED BY <2>1, <2>2, <2>3, <2>4, ConfigHas, BlocksAre DEF IsSpec
  <1> QED BY <1>1, <1>2, <1>3

\* Field by field: extras at or above it override it, else it is in config.json and
\* is read as it was written.
LEMMA SavedOpens ==
  ASSUME RowInv
  PROVE  WhatIsSavedOpens
  <1> SUFFICES ASSUME NEW s \in saved
               PROVE  LET open == Out(row) IN
                      /\ \A f \in Written(s) :
                           Overridden(s, PathOf(f)) \/ open.field[f] = s.field[f]
                      /\ "persists" \in open.on
                           <=> "persists" \in s.on \/ Overridden(s, Persistence)
                      /\ "nav" \in open.on <=> "nav" \in s.on \/ Overridden(s, PathOf("navs"))
                      /\ open.header = s.header /\ open.graph = s.graph /\ open.label = s.label
    BY DEF WhatIsSavedOpens
  <1>1. RowFrom(s)
    BY DEF RowInv, RowFrom
  <1>2. /\ Settled(s) /\ Valid(s) /\ Made(s.extras) /\ row.config = ToConfig(s)
    BY <1>1 DEF RowFrom
  <1> DEFINE open == Out(row)
             cfg == row.config
  <1>3. /\ IsSpec(s) /\ Tame(s.extras) /\ Tree(s.extras)
        /\ open.header = Inside(cfg, Header)
        /\ open.graph = s.graph /\ open.label = s.label
        /\ "persists" \in open.on <=> Persistence \in DOMAIN cfg
        /\ "nav" \in open.on <=> PathOf("navs") \in DOMAIN cfg
        /\ open.field["mods"] = ModsOf(cfg)
        /\ \A f \in Fields \ {"grass", "mods"} : open.field[f] = ReadOut(cfg, f)
        /\ ReadOut(cfg, "grass") # "10" => open.field["grass"] = ReadOut(cfg, "grass")
    BY <1>1, RowReads
  <1> HIDE DEF open
  <1>4. /\ NothingEmpty(s.extras) /\ Harmless(s.extras)
        /\ PathOf("navs") \in DOMAIN s.extras => s.extras[PathOf("navs")] # Null
    BY <1>2 DEF Made
  <1>5. ASSUME NEW f \in Written(s), ~Overridden(s, PathOf(f)) PROVE open.field[f] = s.field[f]
    <2>0. f \in Fields
      BY WrittenAre
    <2>1. CASE f = "mods"
      BY <1>2, <1>3, <1>4, <2>1, ModsStay
    <2>2. CASE f # "mods"
      <3>1. PathOf(f) # PathOf("mods")
        BY <2>0, <2>2, FieldsDiffer, FieldsAre
      <3>2. PathOf(f) \notin DOMAIN s.extras
        BY <1>5, <3>1, AtOrUnderSelf DEF Overridden
      <3>3. PathOf(f) \in DOMAIN cfg /\ cfg[PathOf(f)] = s.field[f]
        BY <1>2, <1>3, <3>2, FieldsStay
      <3>4. ReadOut(cfg, f) = s.field[f]
        BY <1>2, <2>0, <3>3, ValueOfClean DEF ReadOut
      <3>5. f = "grass" => s.field[f] # "10"
        BY <1>2 DEF Valid
      <3> QED BY <1>3, <2>0, <2>2, <3>4, <3>5
    <2> QED BY <2>1, <2>2
  <1>6. "persists" \in open.on <=> "persists" \in s.on \/ Overridden(s, Persistence)
    <2>1. Overridden(s, Persistence) <=> Persistence \in DOMAIN s.extras
      <3>1. Persistence # PathOf("mods") /\ Persistence \in Path
        BY FieldIsNoBlock, FieldsAre, BlockPaths DEF AllBlocks
      <3>2. \A p \in DOMAIN s.extras : Under(p, Persistence) => Persistence \in DOMAIN s.extras
        BY <1>3, <3>1 DEF Tree
      <3> QED BY <3>1, <3>2, AtOrUnderSelf DEF Overridden, Under
    <2> QED BY <1>2, <1>3, <2>1, PersistenceIs
  <1>7. "nav" \in open.on <=> "nav" \in s.on \/ Overridden(s, PathOf("navs"))
    <2> DEFINE n == PathOf("navs")
    <2>0. n # PathOf("mods") /\ n \in Path /\ "navs" \in Fields
      BY FieldsDiffer, FieldPath, FieldsAre
    <2>1. ("nav" \in s.on <=> "navs" \in Written(s)) /\ Written(s) \subseteq Fields
      BY WrittenAre
    <2>2. Overridden(s, n) <=> n \in DOMAIN s.extras
      <3> HIDE DEF n
      <3>1. \A p \in DOMAIN s.extras : Under(p, n) => n \in DOMAIN s.extras
        BY <1>3, <2>0 DEF Tree
      <3> QED BY <2>0, <3>1, AtOrUnderSelf DEF Overridden, Under
    <2>3. ASSUME n \in DOMAIN s.extras PROVE n \in DOMAIN cfg
      BY <1>2, <1>4, <2>3, MergeSets DEF ToConfig
    <2>4. ASSUME "navs" \in Written(s), n \notin DOMAIN s.extras PROVE n \in DOMAIN cfg
      BY <1>2, <1>3, <2>4, FieldsStay
    <2>5. ASSUME n \in DOMAIN cfg, n \notin DOMAIN s.extras PROVE "navs" \in Written(s)
      <3>1. n \in DOMAIN Config(s)
        BY <1>2, <2>5, MergeIsFrom DEF ToConfig
      <3>2. n \notin Blocks(s) /\ n \notin Fixed(s)
        BY <2>0, FieldIsNoBlock, BlocksAre
      <3>3. n \notin DOMAIN s.header
        BY <1>3, <2>0, SpecParts, HeaderIs, HeaderApart DEF Under
      <3>4. \E f \in Written(s) : n = PathOf(f)
        BY <1>3, <3>1, <3>2, <3>3, SpecParts, ConfigHas
      <3> QED BY <2>0, <2>1, <3>4, FieldsDiffer
    <2> QED BY <1>3, <2>1, <2>2, <2>3, <2>4, <2>5
  <1>8. open.header = s.header
    BY <1>2, <1>3, <1>4, HeaderStays
  <1> QED BY <1>3, <1>5, <1>6, <1>7, <1>8 DEF open

\* Opening a row that was saved gives back what was saved.
THEOREM SavedIsOpened == EditingSpec => []WhatIsSavedOpens
  <1>1. IInv => WhatIsSavedOpens
    BY SavedOpens DEF IInv
  <1> QED BY <1>1, EditingInvariant, PTL


-----------------------------------------------------------------------------
(* Opening changes nothing.                                                *)

\* What is saved if a row is opened and saved as it is; s is what the row came from.
Reopened == Clean(Out(row))
Unchanged(s) == RowFrom(s) /\ ~Revived(s) /\ Valid(SpecFrom(row.config, TRUE))
Unmodelled(p) == \A m \in NowModelled : ~AtOrUnder(p, m)

\* A field that is in config.json without extras is one that is written.
LEMMA FieldInConfig ==
  ASSUME NEW s, IsHeader(s.header), NEW f \in Fields, PathOf(f) \in DOMAIN Config(s)
  PROVE  f \in Written(s)
  <1>1. PathOf(f) \notin Blocks(s) /\ PathOf(f) \notin Fixed(s)
    BY FieldIsNoBlock, BlocksAre
  <1>2. PathOf(f) \notin DOMAIN s.header
    BY HeaderIs, HeaderApart DEF Under
  <1>3. PICK g \in Written(s) : PathOf(f) = PathOf(g)
    BY <1>1, <1>2, ConfigHas
  <1> QED BY <1>3, WrittenAre, FieldsDiffer

\* The page rendered once more.
LEMMA ReopenedIs ==
  ASSUME NEW s, Unchanged(s)
  PROVE  /\ IsSpec(s) /\ Settled(s) /\ Tame(s.extras) /\ Tree(s.extras) /\ Tree(row.config)
         /\ row.config = ToConfig(s)
         /\ IsSpec(Reopened) /\ Reopened.field = CleanFields(Out(row).field)
         /\ Reopened.extras = DropNowModelled(s.extras)
         /\ Reopened.header = Inside(row.config, Header)
         /\ Render(Out(row)) = ToConfig(Reopened) /\ Made(Reopened.extras)
         /\ Tree(Reopened.extras) /\ Tree(ToConfig(Reopened))
         /\ "persists" \in Reopened.on <=> "persists" \in s.on
         /\ \A f \in Fields \ {"mods"} : Out(row).field[f] = ReadOut(row.config, f)
         /\ Out(row).field["mods"] = ModsOf(row.config)
  <1> DEFINE open == Out(row)
  <1>1. /\ Settled(s) /\ row.config = ToConfig(s) /\ NothingEmpty(s.extras)
        /\ Harmless(NowCustom(s.extras)) /\ ~Revived(s) /\ RowFrom(s)
    BY DEF Unchanged, RowFrom
  <1>2. /\ IsSpec(s) /\ Tame(s.extras) /\ Tree(s.extras) /\ Tree(row.config)
        /\ IsSpec(open) /\ open.extras = DropNowModelled(s.extras)
        /\ open.header = Inside(row.config, Header)
        /\ "persists" \in open.on <=> Persistence \in DOMAIN row.config
        /\ open.field["mods"] = ModsOf(row.config)
        /\ \A f \in Fields \ {"grass", "mods"} : open.field[f] = ReadOut(row.config, f)
        /\ ReadOut(row.config, "grass") # "10" =>
             open.field["grass"] = ReadOut(row.config, "grass")
    BY <1>1, RowReads
  <1>3. ReadOut(row.config, "grass") # "10"
    BY FieldsValid DEF Unchanged
  <1> HIDE DEF open
  <1>4. \A f \in Fields \ {"mods"} : open.field[f] = ReadOut(row.config, f)
    BY <1>2, <1>3
  <1>5. "persists" \in open.on <=> "persists" \in s.on
    BY <1>1, <1>2, PersistenceIs DEF Revived
  <1>6. Made(open.extras)
    BY <1>1, <1>2, OpenedIsMade
  <1> DEFINE t == Clean(open)
  <1>7. /\ IsSpec(t) /\ t.field = CleanFields(open.field) /\ t.header = open.header
        /\ t.on = open.on /\ t.extras = open.extras /\ Render(open) = ToConfig(t)
    BY <1>2, CleanIs DEF Render
  <1> HIDE DEF t
  <1>8. Tree(t.extras) /\ Tree(ToConfig(t))
    BY <1>7, SpecParts
  <1>9. t = Reopened
    BY DEF t, open, Reopened
  <1>10. /\ IsSpec(t) /\ t.field = CleanFields(open.field)
         /\ t.extras = DropNowModelled(s.extras) /\ t.header = Inside(row.config, Header)
         /\ Render(open) = ToConfig(t) /\ Made(t.extras)
         /\ "persists" \in t.on <=> "persists" \in s.on
    BY <1>2, <1>5, <1>6, <1>7
  <1> QED BY <1>1, <1>2, <1>4, <1>8, <1>9, <1>10 DEF open

\* A field that is in config.json as it was written is written so once more.
LEMMA ReopenedField ==
  ASSUME NEW s, Unchanged(s), NEW f \in Fields \ {"mods", "navs", "blacklist", "plats"},
         f \in Written(s), PathOf(f) \notin DOMAIN s.extras
  PROVE  Reopened.field[f] = s.field[f]
  <1> DEFINE cfg == row.config
  <1>1. /\ IsSpec(s) /\ Settled(s) /\ Tame(s.extras) /\ cfg = ToConfig(s)
        /\ Reopened.field = CleanFields(Out(row).field)
        /\ Out(row).field[f] = ReadOut(cfg, f)
    BY ReopenedIs
  <1>2. PathOf(f) \in DOMAIN cfg /\ cfg[PathOf(f)] = s.field[f]
    BY <1>1, FieldsStay
  <1>3. Out(row).field[f] = s.field[f]
    BY <1>1, <1>2, ValueOfClean DEF ReadOut
  <1>4. f \in {"scenario", "max", "cross", "grass", "hive", "password", "clients"} \/ f = "players"
    BY FieldsAre
  <1>5. f = "players" => CleanPlayers(s.field[f]) = s.field[f]
    BY <1>1, CleanIs, CleanFieldsAre DEF Settled
  <1> QED BY <1>1, <1>3, <1>4, <1>5, CleanFieldsAre

LEMMA ReopenedCross ==
  ASSUME NEW s, Unchanged(s)
  PROVE  Out(row).field["cross"] = s.field["cross"]
  <1>1. PathOf("cross") \notin DOMAIN s.extras
    BY ReopenedIs, AtOrUnderSelf DEF Tame, Mirrored
  <1>2. "cross" \in Written(s) /\ "cross" \in Fields
    BY WrittenAre, FieldsAre
  <1>3. Reopened.field["cross"] = s.field["cross"]
    BY <1>1, <1>2, ReopenedField
  <1> QED BY <1>3, ReopenedIs, CleanFieldsAre

LEMMA ReopenedPlats ==
  ASSUME NEW s, Unchanged(s), PathOf("plats") \notin DOMAIN s.extras
  PROVE  Reopened.field["plats"] = s.field["plats"]
  <1> DEFINE open == Out(row)
  <1>1. /\ IsSpec(s) /\ Settled(s) /\ Tame(s.extras) /\ row.config = ToConfig(s)
        /\ Reopened.field = CleanFields(open.field)
    BY ReopenedIs
  <1>2. "plats" \in Fields /\ "plats" \in Fields \ {"mods"} /\ "plats" \in Written(s)
    BY FieldsAre, WrittenAre
  <1>3. PathOf("plats") \in DOMAIN row.config /\ row.config[PathOf("plats")] = s.field["plats"]
    BY <1>1, <1>2, FieldsStay
  <1>4. open.field["plats"] = s.field["plats"]
    BY <1>1, <1>2, <1>3, ReopenedIs, ValueOfClean DEF ReadOut
  <1>5. open.field["cross"] = s.field["cross"]
    BY ReopenedCross
  <1>6. s.field["plats"] = IF s.field["cross"] = "on" THEN "all"
                           ELSE IF s.field["plats"] = "all" THEN "pc" ELSE s.field["plats"]
    BY <1>1, CleanIs, CleanFieldsAre DEF Settled
  <1>7. Reopened.field["plats"] = IF open.field["cross"] = "on" THEN "all"
                                  ELSE IF open.field["plats"] = "all" THEN "pc"
                                       ELSE open.field["plats"]
    BY <1>1, CleanFieldsAre
  <1> HIDE DEF open
  <1> QED BY <1>4, <1>5, <1>6, <1>7

\* The password decides on a block: one of the extras is empty, and as good as none.
LEMMA ReopenedPassword ==
  ASSUME NEW s, Unchanged(s)
  PROVE  Reopened.field["password"] = s.field["password"]
  <1> DEFINE p == PathOf("password")
             cfg == row.config
  <1>0. "password" \in Fields \ {"mods", "navs", "blacklist", "plats"}
    BY FieldsAre
  <1>1. /\ IsSpec(s) /\ Tame(s.extras) /\ cfg = ToConfig(s) /\ ~Revived(s) /\ IsHeader(s.header)
        /\ Reopened.field = CleanFields(Out(row).field)
        /\ Out(row).field["password"] = ReadOut(cfg, "password")
    BY <1>0, ReopenedIs, SpecParts DEF Unchanged
  <1>2. Reopened.field["password"] = ReadOut(cfg, "password")
    BY <1>1, CleanFieldsAre
  <1>3. CASE s.field["password"] # ""
    <2>1. p \notin DOMAIN s.extras
      BY <1>1, <1>3 DEF Revived
    <2>2. "password" \in Written(s)
      BY <1>3, WrittenAre
    <2> QED BY <1>0, <2>1, <2>2, ReopenedField
  <1>4. CASE s.field["password"] = ""
    <2>1. p \notin DOMAIN Config(s)
      BY <1>0, <1>1, <1>4, FieldInConfig, WrittenAre
    <2>2. p \in DOMAIN cfg => p \in DOMAIN s.extras /\ cfg[p] = s.extras[p]
      BY <1>1, <2>1, MergeIsFrom DEF ToConfig
    <2>3. p \in DOMAIN cfg => cfg[p] = ""
      BY <1>1, <2>2 DEF Tame
    <2>4. ReadOut(cfg, "password") = ""
      <3>1. Absent["password"] = ""
        BY DEF Absent
      <3>2. "password" \in Plain
        BY DEF Plain
      <3> QED BY <2>3, <3>1, <3>2, PlainIsRead DEF ReadOut
    <2> QED BY <1>2, <1>4, <2>4
  <1> QED BY <1>3, <1>4

\* What has no entry in the extras is written again, or again is not.
LEMMA ReopenedWritten ==
  ASSUME NEW s, Unchanged(s), NEW f \in Fields \ {"mods", "navs", "blacklist"},
         PathOf(f) \notin DOMAIN s.extras
  PROVE  /\ f \in Written(Reopened) <=> f \in Written(s)
         /\ f \in Written(s) => Reopened.field[f] = s.field[f]
  <1> DEFINE t == Reopened
             cfg == row.config
  <1>1. /\ IsSpec(s) /\ IsHeader(s.header) /\ cfg = ToConfig(s)
        /\ "persists" \in t.on <=> "persists" \in s.on
        /\ t.field = CleanFields(Out(row).field)
        /\ \A g \in Fields \ {"mods"} : Out(row).field[g] = ReadOut(cfg, g)
    BY ReopenedIs, SpecParts
  <1>2. t.field["password"] = s.field["password"]
    BY ReopenedPassword
  <1>3. ASSUME f \in Written(s) PROVE t.field[f] = s.field[f]
    <2>1. CASE f = "plats"
      BY <2>1, ReopenedPlats
    <2>2. CASE f # "plats"
      BY <1>3, <2>2, ReopenedField
    <2> QED BY <2>1, <2>2
  <1>4. f = "players" => (f \in Written(t) <=> f \in Written(s))
    <2>1. CASE "players" \in Written(s) /\ f = "players"
      BY <1>3, <2>1, WrittenAre
    <2>2. CASE "players" \notin Written(s) /\ f = "players"
      <3>1. PathOf(f) \notin DOMAIN Config(s)
        BY <1>1, <2>2, FieldInConfig
      <3>2. PathOf(f) \notin DOMAIN cfg
        BY <1>1, <3>1, MergeIsFrom DEF ToConfig
      <3>3. Absent["players"] = "none"
        BY DEF Absent
      <3>4. Out(row).field["players"] = "none"
        BY <1>1, <2>2, <3>2, <3>3 DEF ReadOut
      <3>5. t.field["players"] = "none"
        BY <1>1, <3>4, CleanFieldsAre DEF CleanPlayers
      <3> QED BY <2>2, <3>5, WrittenAre
    <2> QED BY <2>1, <2>2
  <1> HIDE DEF t
  <1>5. f \in {"scenario", "max", "cross", "plats", "grass"} =>
          f \in Written(t) /\ f \in Written(s)
    BY WrittenAre
  <1>6. f \in {"password", "clients"} => (f \in Written(t) <=> f \in Written(s))
    BY <1>2, WrittenAre
  <1>7. f = "hive" => (f \in Written(t) <=> f \in Written(s))
    BY <1>1, WrittenAre
  <1> QED BY <1>3, <1>4, <1>5, <1>6, <1>7, FieldsAre DEF t

\* The same blocks are written.
LEMMA ReopenedBlocks ==
  ASSUME NEW s, Unchanged(s)
  PROVE  /\ \A b \in AllBlocks : b # Header => (b \in Blocks(Reopened) <=> b \in Blocks(s))
         /\ Fixed(Reopened) = Fixed(s)
  <1> DEFINE t == Reopened
  <1>1. t.field["password"] = s.field["password"]
    BY ReopenedPassword
  <1>2. "persists" \in t.on <=> "persists" \in s.on
    BY ReopenedIs
  <1> HIDE DEF t
  <1>3. Fixed(t) = Fixed(s)
    BY <1>1 DEF Fixed
  <1>4. ASSUME NEW b \in AllBlocks, b # Header PROVE b \in Blocks(t) <=> b \in Blocks(s)
    <2>1. CASE b \in {Game, Props, Operating}
      BY <2>1, BlocksAre
    <2>2. CASE b \in {Persistence, Databases}
      BY <2>2, <1>2, BlocksAre
    <2>3. CASE b = Rcon
      BY <2>3, <1>1, BlocksAre
    <2> QED BY <1>4, <2>1, <2>2, <2>3 DEF AllBlocks
  <1> QED BY <1>3, <1>4 DEF t

\* No leaf of the extras above a key is dropped with what the wizard has a field for now.
LEMMA LeavesAbove ==
  ASSUME NEW s, Unchanged(s), NEW p, Unmodelled(p)
  PROVE  (\A q \in DOMAIN Reopened.extras : AtOrUnder(p, q) => Reopened.extras[q] = Object)
           <=> (\A q \in DOMAIN s.extras : AtOrUnder(p, q) => s.extras[q] = Object)
  <1> DEFINE x == Reopened.extras
  <1>1. Tree(s.extras) /\ x = DropNowModelled(s.extras)
    BY ReopenedIs
  <1> HIDE DEF x
  <1>2. /\ \A q \in DOMAIN x : q \in DOMAIN s.extras /\ x[q] = s.extras[q]
        /\ \A q \in DOMAIN s.extras : Unmodelled(q) /\ s.extras[q] # Object => q \in DOMAIN x
    BY <1>1, DropNowModelledIs DEF Unmodelled
  <1>3. \A q : AtOrUnder(p, q) => Unmodelled(q)
    BY AtOrUnderTrans DEF Unmodelled
  <1> QED BY <1>2, <1>3 DEF x

\* What is rendered without the extras, but for keys they stand for, is the same.
LEMMA ReopenedConfig ==
  ASSUME NEW s, Unchanged(s), NEW p, Unmodelled(p), p \notin DOMAIN s.extras
  PROVE  /\ p \in DOMAIN Config(Reopened) <=> p \in DOMAIN Config(s)
         /\ p \in DOMAIN Config(s) => Config(Reopened)[p] = Config(s)[p]
  <1> DEFINE t == Reopened
  <1>1. IsHeader(s.header) /\ IsHeader(t.header)
    BY ReopenedIs, SpecParts
  <1>2. p # Header /\ p \notin DOMAIN s.header /\ p \notin DOMAIN t.header
    BY <1>1, HeaderIs, AtOrUnderSelf DEF Unmodelled, NowModelled, Under
  <1>3. p \in Blocks(t) <=> p \in Blocks(s)
    BY <1>2, ReopenedBlocks, BlocksAre
  <1>4. p \in Fixed(t) <=> p \in Fixed(s)
    BY ReopenedBlocks
  <1>5. ASSUME NEW f \in Fields, p = PathOf(f)
        PROVE  /\ f \in Written(t) <=> f \in Written(s)
               /\ f \in Written(s) => t.field[f] = s.field[f]
    <2>1. f \notin {"mods", "navs", "blacklist"}
      BY <1>5, AtOrUnderSelf DEF Unmodelled, NowModelled
    <2> QED BY <1>5, <2>1, ReopenedWritten
  <1> HIDE DEF t
  <1>6. CASE p \in Blocks(s)
    BY <1>1, <1>3, <1>6, ConfigHas DEF t
  <1>7. CASE p \in Fixed(s)
    BY <1>1, <1>4, <1>7, ConfigHas DEF t
  <1>8. CASE \E f \in Fields : p = PathOf(f)
    <2>1. PICK f \in Fields : p = PathOf(f)
      BY <1>8
    <2>2. f \in Written(t) <=> f \in Written(s)
      BY <1>5, <2>1
    <2>3. p \in DOMAIN Config(t) <=> f \in Written(t)
      BY <1>1, <2>1, FieldInConfig, ConfigHas
    <2>4. p \in DOMAIN Config(s) <=> f \in Written(s)
      BY <1>1, <2>1, FieldInConfig, ConfigHas
    <2>5. f \in Written(s) => Config(t)[p] = Config(s)[p]
      BY <1>1, <1>5, <2>1, <2>2, ConfigHas
    <2> QED BY <2>2, <2>3, <2>4, <2>5 DEF t
  <1>9. CASE p \notin Blocks(s) /\ p \notin Fixed(s) /\ ~\E f \in Fields : p = PathOf(f)
    <2>1. p \notin DOMAIN Config(s)
      BY <1>1, <1>2, <1>9, ConfigHas, WrittenAre
    <2>2. p \notin DOMAIN Config(t)
      BY <1>1, <1>2, <1>3, <1>4, <1>9, ConfigHas, WrittenAre
    <2> QED BY <2>1, <2>2 DEF t
  <1> QED BY <1>6, <1>7, <1>8, <1>9

\* Two documents agree on a key.  They do on one the extras say nothing of ...
SameAt(a, b, p) == (p \in DOMAIN a <=> p \in DOMAIN b) /\ (p \in DOMAIN a => a[p] = b[p])

LEMMA ReopenedKept ==
  ASSUME NEW s, Unchanged(s), NEW p, Unmodelled(p), p \notin DOMAIN s.extras
  PROVE  SameAt(ToConfig(Reopened), row.config, p)
  <1> DEFINE t == Reopened
             Clear(x) == \A q \in DOMAIN x : AtOrUnder(p, q) => x[q] = Object
  <1>1. row.config = ToConfig(s) /\ p \notin DOMAIN t.extras
    BY ReopenedIs, DropNowModelledIs
  <1>2. Clear(t.extras) <=> Clear(s.extras)
    BY LeavesAbove
  <1>3. /\ p \in DOMAIN ToConfig(s) <=> p \in DOMAIN Config(s) /\ Clear(s.extras)
        /\ p \in DOMAIN ToConfig(s) => ToConfig(s)[p] = Config(s)[p]
    BY MergeIsFrom, MergeKeeps DEF ToConfig
  <1>4. /\ p \in DOMAIN ToConfig(t) <=> p \in DOMAIN Config(t) /\ Clear(t.extras)
        /\ p \in DOMAIN ToConfig(t) => ToConfig(t)[p] = Config(t)[p]
    BY <1>1, MergeIsFrom, MergeKeeps DEF ToConfig
  <1>5. /\ p \in DOMAIN Config(t) <=> p \in DOMAIN Config(s)
        /\ p \in DOMAIN Config(s) => Config(t)[p] = Config(s)[p]
    BY ReopenedConfig
  <1> HIDE DEF t, Clear
  <1> QED BY <1>1, <1>2, <1>3, <1>4, <1>5 DEF SameAt, t

\* ... on the mods, which have been cleaned ...
LEMMA ReopenedMods ==
  ASSUME NEW s, Unchanged(s), NEW p, AtOrUnder(p, PathOf("mods"))
  PROVE  SameAt(ToConfig(Reopened), row.config, p)
  <1> DEFINE t == Reopened
             made == ToConfig(t)
             cfg == row.config
             m == PathOf("mods")
  <1>1. /\ IsSpec(t) /\ Harmless(t.extras) /\ Tree(made) /\ Tree(cfg)
        /\ t.field = CleanFields(Out(row).field) /\ Out(row).field["mods"] = ModsOf(cfg)
    BY ReopenedIs DEF Made
  <1>2. m \in DOMAIN cfg /\ CleanMods(ModsOf(cfg)) = ModsOf(cfg)
    BY DEF Unchanged, RowFrom
  <1>3. "mods" \in Plain /\ "mods" \in Fields
    BY FieldsAre DEF Plain
  <1>4. ModsOf(cfg) = cfg[m] /\ cfg[m] # Object
    BY <1>2, <1>3, ModsRead, PlainIsRead, FieldsValid DEF Unchanged
  <1>5. t.field["mods"] = cfg[m]
    BY <1>1, <1>2, <1>4, CleanFieldsAre
  <1>6. m \in DOMAIN made /\ made[m] = cfg[m]
    BY <1>1, <1>5, ModsStay
  <1>7. m \in Path
    BY <1>3, FieldPath
  <1> HIDE DEF t, made, cfg, m
  <1>8. CASE p = m
    BY <1>2, <1>6, <1>8 DEF SameAt, t, made, cfg
  <1>9. CASE p # m
    <2>1. Under(p, m)
      BY <1>9 DEF Under, m
    <2>2. p \notin DOMAIN cfg
      BY <1>1, <1>4, <1>7, <2>1 DEF Tree
    <2>3. p \notin DOMAIN made
      BY <1>1, <1>4, <1>6, <1>7, <2>1 DEF Tree
    <2> QED BY <2>2, <2>3 DEF SameAt, t, made, cfg
  <1> QED BY <1>8, <1>9

\* ... on the header, which is left out when it is empty ...
LEMMA HeaderHas ==
  ASSUME NEW cfg, Tree(cfg), Inside(cfg, Header) # Empty
  PROVE  Header \in DOMAIN cfg
  <1>1. Header \in Path
    BY BlockPaths DEF AllBlocks
  <1>2. \E p \in DOMAIN Inside(cfg, Header) : TRUE
    <2>1. SUFFICES ASSUME DOMAIN Inside(cfg, Header) = {} PROVE FALSE
      OBVIOUS
    <2>2. Inside(cfg, Header) = [p \in {} |-> Inside(cfg, Header)[p]]
      BY <2>1, InsideIs
    <2>3. [p \in {} |-> Inside(cfg, Header)[p]] = [p \in {} |-> Null]
      OBVIOUS
    <2> QED BY <2>2, <2>3 DEF Empty
  <1> QED BY <1>1, <1>2, InsideIs DEF Tree

LEMMA ReopenedHeader ==
  ASSUME NEW s, Unchanged(s), NEW p, AtOrUnder(p, Header)
  PROVE  SameAt(ToConfig(Reopened), row.config, p)
  <1> DEFINE made == ToConfig(Reopened)
             cfg == row.config
  <1>1. /\ IsSpec(Reopened) /\ Harmless(Reopened.extras) /\ Tree(made) /\ Tree(cfg)
        /\ Reopened.header = Inside(cfg, Header)
    BY ReopenedIs DEF Made
  <1>2. /\ Inside(made, Header) = Inside(cfg, Header)
        /\ Header \in DOMAIN made => IsObject(made, Header) /\ Inside(made, Header) # Empty
    BY <1>1, HeaderStays
  <1>3. Header \in DOMAIN cfg => IsObject(cfg, Header) /\ Inside(cfg, Header) # Empty
    BY DEF Unchanged, RowFrom
  <1> HIDE DEF made, cfg
  <1>4. CASE p = Header
    <2>1. Header \in DOMAIN made <=> Header \in DOMAIN cfg
      BY <1>1, <1>2, <1>3, HeaderHas
    <2> QED BY <1>2, <1>3, <1>4, <2>1 DEF SameAt, IsObject, made, cfg
  <1>5. CASE p # Header
    <2>1. Under(p, Header)
      BY <1>5 DEF Under
    <2> QED BY <1>2, <2>1, InsideIs DEF SameAt, made, cfg
  <1> QED BY <1>4, <1>5

LEMMA ObjectsAre ==
  ASSUME NEW s, IsHeader(s.header), \A f \in Fields : s.field[f] # Object,
         NEW q, q \notin DOMAIN s.header
  PROVE  IsObject(Config(s), q) <=> q \in Blocks(s)
  <1>1. CASE q \in Blocks(s)
    BY <1>1, ConfigHas DEF IsObject
  <1>2. ASSUME q \in DOMAIN Config(s), q \notin Blocks(s) PROVE Config(s)[q] # Object
    <2>1. CASE q \in Fixed(s)
      BY <2>1, ConfigHas DEF Object
    <2>2. CASE \E f \in Written(s) : q = PathOf(f)
      <3>1. PICK f \in Written(s) : q = PathOf(f)
        BY <2>2
      <3>2. Config(s)[PathOf(f)] = s.field[f] /\ f \in Fields
        BY ConfigHas, WrittenAre
      <3> QED BY <3>1, <3>2
    <2> QED BY <1>2, <2>1, <2>2, ConfigHas
  <1> QED BY <1>1, <1>2 DEF IsObject

\* Where the extras have objects, the two are objects alike without them.
LEMMA ReopenedObjects ==
  ASSUME NEW s, Unchanged(s), NEW q, Unmodelled(q)
  PROVE  IsObject(Config(Reopened), q) <=> IsObject(Config(s), q)
  <1> DEFINE t == Reopened
             open == Out(row)
  <1>1. /\ IsHeader(s.header) /\ IsHeader(t.header) /\ Settled(s)
        /\ t.field = CleanFields(open.field)
        /\ \A f \in Fields \ {"mods"} : open.field[f] = ReadOut(row.config, f)
        /\ open.field["mods"] = ModsOf(row.config)
    BY ReopenedIs, SpecParts
  <1>2. q # Header /\ q \notin DOMAIN s.header /\ q \notin DOMAIN t.header
    BY <1>1, HeaderIs, AtOrUnderSelf DEF Unmodelled, NowModelled, Under
  <1>3. \A f \in Fields : s.field[f] # Object
    BY <1>1 DEF Settled, WellTyped
  <1>4. \A f \in Fields : t.field[f] # Object
    <2>1. \A f \in Fields : ReadOut(row.config, f) \notin {Null, Object}
      BY FieldsValid DEF Unchanged
    <2>2. \A f \in Fields : open.field[f] \notin {Null, Object}
      BY <1>1, <2>1, ModsRead
    <2> HIDE DEF open
    <2>3. \A f \in Fields : CleanFields(open.field)[f] \notin {Null, Object}
      BY <2>2, CleanFieldsTyped
    <2> QED BY <1>1, <2>3
  <1>5. q \in Blocks(t) <=> q \in Blocks(s)
    BY <1>2, ReopenedBlocks, BlocksAre
  <1> HIDE DEF t, open
  <1>7. IsObject(Config(s), q) <=> q \in Blocks(s)
    BY <1>1, <1>2, <1>3, ObjectsAre
  <1>8. IsObject(Config(t), q) <=> q \in Blocks(t)
    BY <1>1, <1>2, <1>4, ObjectsAre
  <1> QED BY <1>5, <1>7, <1>8 DEF t

\* ... on a key of the extras, deleted in both or in neither ...
LEMMA ReopenedExtra ==
  ASSUME NEW s, Unchanged(s), NEW p \in DOMAIN Reopened.extras
  PROVE  SameAt(ToConfig(Reopened), row.config, p)
  <1> DEFINE t == Reopened
             x == t.extras
             e == s.extras
  <1>1. /\ row.config = ToConfig(s) /\ Tree(e) /\ Tree(x) /\ x = DropNowModelled(e)
    BY ReopenedIs
  <1>2. \A q \in DOMAIN x : q \in DOMAIN e /\ x[q] = e[q] /\ Unmodelled(q)
    BY <1>1, DropNowModelledIs DEF Unmodelled
  <1> HIDE DEF t, x, e
  <1>3. p \in DOMAIN x /\ p \in DOMAIN e /\ x[p] = e[p] /\ p \in Path
    BY <1>1, <1>2 DEF Tree, t, x
  <1>4. ToConfig(t) = Merge(Config(t), x) /\ row.config = Merge(Config(s), e)
    BY <1>1 DEF ToConfig, x, e
  <1>5. CASE x[p] # Null
    BY <1>3, <1>4, <1>5, MergeSets DEF SameAt, t
  <1>6. CASE x[p] = Null
    <2>1. ASSUME NEW q \in DOMAIN e, Under(p, q) PROVE q \in DOMAIN x
      BY <1>1, <1>3, <2>1 DEF Tree
    <2>2. \A q \in DOMAIN x : IsObject(Config(t), q) <=> IsObject(Config(s), q)
      BY <1>2, ReopenedObjects DEF t
    <2>3. (\E q \in DOMAIN x : Under(p, q) /\ ~IsObject(Config(t), q))
            <=> (\E q \in DOMAIN e : Under(p, q) /\ ~IsObject(Config(s), q))
      BY <1>2, <2>1, <2>2
    <2>4. p \in DOMAIN Merge(Config(t), x) <=> p \in DOMAIN Merge(Config(s), e)
      BY <1>3, <1>6, <2>3, MergeNull
    <2>5. p \in DOMAIN Merge(Config(t), x) =>
            Merge(Config(t), x)[p] = Merge(Config(s), e)[p]
      BY <1>3, <2>4, MergeIsFrom
    <2> QED BY <1>4, <2>4, <2>5 DEF SameAt, t
  <1> QED BY <1>5, <1>6

\* ... and on a block that goes with all the extras had in it: it is written anyhow.
LEMMA ReopenedDropped ==
  ASSUME NEW s, Unchanged(s), NEW p \in DOMAIN s.extras, Unmodelled(p),
         p \notin DOMAIN Reopened.extras
  PROVE  SameAt(ToConfig(Reopened), row.config, p)
  <1> DEFINE t == Reopened
             x == t.extras
             e == s.extras
  <1>1. /\ row.config = ToConfig(s) /\ Tree(e) /\ Tree(x) /\ x = DropNowModelled(e)
        /\ IsSpec(t) /\ Harmless(x) /\ NothingEmpty(e)
    BY ReopenedIs DEF Made, Unchanged, RowFrom
  <1>2. Tame(x)
    BY <1>1, IsTame, HarmlessNowCustom
  <1>3. p \in Path /\ Object # Null
    BY <1>1 DEF Tree, Object, Null
  <1>4. e[p] = Object /\ \E m \in NowModelled : Under(m, p)
    BY <1>1, DropNowModelledIs DEF Unmodelled
  <1>5. p \in {Game, Props, Operating, Rcon}
    <2>1. PICK m \in NowModelled : Under(m, p)
      BY <1>4
    <2>2. CASE m = Header
      BY <1>3, <2>1, <2>2, AboveBlock DEF AllBlocks
    <2>3. CASE m \in {PathOf("mods"), PathOf("navs"), PathOf("blacklist")}
      BY <1>3, <2>1, <2>3, AboveField, FieldsAre
    <2> QED BY <2>1, <2>2, <2>3 DEF NowModelled
  <1>6. p \in DOMAIN row.config /\ row.config[p] = Object
    BY <1>1, <1>3, <1>4, MergeSets DEF ToConfig
  <1>7. p \in Blocks(t)
    <2>1. CASE p \in {Game, Props, Operating}
      BY <2>1, BlocksAre
    <2>2. CASE p = Rcon
      <3>1. PathOf("blacklist") \in DOMAIN e
        BY <1>1, <1>4, <2>2, RconStays
      <3>2. s.field["password"] # ""
        BY <3>1 DEF Unchanged, Revived
      <3>3. t.field["password"] # ""
        BY <3>2, ReopenedPassword
      <3> QED BY <2>2, <3>3, BlocksAre
    <2> QED BY <1>5, <2>1, <2>2
  <1> HIDE DEF t
  <1>8. p \in DOMAIN ToConfig(t) /\ ToConfig(t)[p] = Object
    BY <1>1, <1>2, <1>5, <1>7, BlocksStay
  <1> QED BY <1>6, <1>8 DEF SameAt, t

\* So what is rendered is what the row has, but for the lists of names.
LEMMA ReopenedSame ==
  ASSUME NEW s, Unchanged(s), NEW p, \A f \in NameLists : ~AtOrUnder(p, PathOf(f))
  PROVE  SameAt(ToConfig(Reopened), row.config, p)
  <1>1. CASE Unmodelled(p) /\ p \notin DOMAIN s.extras
    BY <1>1, ReopenedKept
  <1>2. CASE Unmodelled(p) /\ p \in DOMAIN s.extras
    BY <1>2, ReopenedExtra, ReopenedDropped
  <1>3. CASE ~Unmodelled(p)
    <2>1. AtOrUnder(p, Header) \/ AtOrUnder(p, PathOf("mods"))
      BY <1>3 DEF Unmodelled, NowModelled, NameLists
    <2> QED BY <2>1, ReopenedMods, ReopenedHeader
  <1> QED BY <1>1, <1>2, <1>3

LEMMA UnlistedSame ==
  ASSUME NEW a, NEW b,
         \A p : (\A f \in NameLists : ~AtOrUnder(p, PathOf(f))) => SameAt(a, b, p)
  PROVE  Unlisted(a) = Unlisted(b)
  <1> DEFINE Free(p) == \A f \in NameLists : ~AtOrUnder(p, PathOf(f))
             in == {p \in DOMAIN a : Free(p)}
  <1>1. in = {p \in DOMAIN b : Free(p)}
    BY DEF SameAt
  <1>2. \A p \in in : a[p] = b[p]
    BY DEF SameAt
  <1>3. Unlisted(a) = Only(a, in) /\ Unlisted(b) = Only(b, in)
    BY <1>1 DEF Unlisted
  <1> HIDE DEF in
  <1> QED BY <1>2, <1>3 DEF Only

LEMMA NothingChanges == ASSUME RowInv PROVE OpeningChangesNothing
  <1>1. SUFFICES ASSUME \A s \in saved : ~Revived(s), Valid(SpecFrom(row.config, TRUE))
                 PROVE  Unlisted(Render(Out(row))) = Unlisted(row.config)
    BY DEF OpeningChangesNothing
  <1>2. PICK s \in saved \cup {o.spec : o \in Old} : RowFrom(s)
    BY DEF RowInv
  <1>3. ~Revived(s)
    BY <1>1, <1>2 DEF RowFrom
  <1>4. Unchanged(s)
    BY <1>1, <1>2, <1>3 DEF Unchanged
  <1>5. Render(Out(row)) = ToConfig(Reopened)
    BY <1>4, ReopenedIs
  <1> QED BY <1>4, <1>5, ReopenedSame, UnlistedSame

\* Opening a template and saving it as it is sends the server the config.json it has,
\* aside from lists of names, so no restart is asked for: _out, update_template.
THEOREM OpeningIsQuiet == EditingSpec => []OpeningChangesNothing
  <1>1. IInv => OpeningChangesNothing
    BY NothingChanges DEF IInv
  <1> QED BY <1>1, EditingInvariant, PTL
=============================================================================
