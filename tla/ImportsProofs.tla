--------------------------- MODULE ImportsProofs ---------------------------
(* Theorems about Imports for any contents and shelves, whatever is done    *)
(* to them before and after a preview.                                      *)
EXTENDS Imports, FiniteSetTheorems, SequenceTheorems, WellFoundedInduction, TLAPS

-----------------------------------------------------------------------------
(* Sequences, tables and rows.                                             *)

LEMMA SeqFacts ==
  ASSUME NEW s, IsSeq(s)
  PROVE  Len(s) \in Nat /\ DOMAIN s = 1..Len(s) /\ s = [i \in 1..Len(s) |-> s[i]]
  BY LenProperties DEF IsSeq

LEMMA IsOfItems ==
  ASSUME NEW n \in Nat, NEW s, DOMAIN s = 1..n, s = [i \in 1..n |-> s[i]]
  PROVE  IsSeq(s) /\ Len(s) = n
  <1>1. s \in [1..n -> ToSet(s)]
    BY DEF ToSet
  <1>2. s \in Seq(ToSet(s))
    BY <1>1
  <1>3. Len(s) \in Nat /\ DOMAIN s = 1..Len(s)
    BY <1>2, LenProperties
  <1>4. Len(s) = n
    BY <1>3
  <1> QED
    BY <1>2, <1>4 DEF IsSeq

LEMMA NoVersions == IsSeq(<<>>)
  BY DEF IsSeq

LEMMA OneVersion == \A x : IsSeq(<<x>>) /\ <<x>> # <<>>
  BY DEF IsSeq, ToSet

LEMMA OneMore ==
  ASSUME NEW s, IsSeq(s), NEW x
  PROVE  IsSeq(Append(s, x)) /\ Append(s, x) # <<>>
  <1> DEFINE T == ToSet(s) \cup {x}
             t == Append(s, x)
  <1>1. s \in Seq(T)
    <2>1. ToSet(s) \subseteq T
      OBVIOUS
    <2> HIDE DEF T
    <2> QED
      BY <2>1 DEF IsSeq
  <1>2. /\ t \in Seq(T) /\ Len(t) = Len(s) + 1 /\ Len(t) \in Nat
        /\ DOMAIN t = 1..Len(t) /\ t = [i \in 1..Len(t) |-> t[i]]
    <2>1. t \in Seq(T) /\ Len(t) = Len(s) + 1 /\ Len(s) \in Nat
      <3> HIDE DEF T
      <3>1. x \in T
        BY DEF T
      <3> QED
        BY <1>1, <3>1, AppendProperties, LenProperties
    <2> HIDE DEF T, t
    <2> QED
      BY <2>1, LenProperties
  <1>3. t # <<>>
    BY <1>1, <1>2, LenProperties
  <1>4. IsSeq(t)
    <2> HIDE DEF t
    <2> QED
      BY <1>2, IsOfItems
  <1> QED
    BY <1>3, <1>4

LEMMA RowType ==
  ASSUME NEW stage \in Stages, NEW content, NEW versions, IsSeq(versions),
         NEW origin \in Origins \cup {None}, NEW category
  PROVE  /\ IsRow(Row(stage, content, versions, origin, category))
         /\ LET r == Row(stage, content, versions, origin, category) IN
            /\ r.stage = stage /\ r.content = content /\ r.versions = versions
            /\ r.basedOn = origin /\ r.category = category
  BY DEF Row, IsRow, IsLike, Columns

LEMMA RowFacts ==
  ASSUME NEW r, IsRow(r)
  PROVE  /\ r.stage \in Stages /\ IsSeq(r.versions) /\ r.basedOn \in Origins \cup {None}
         /\ r = Row(r.stage, r.content, r.versions, r.basedOn, r.category)
  BY DEF IsRow, IsLike, Columns, Row

LEMMA EntryType ==
  ASSUME NEW name \in Names, NEW r, IsRow(r)
  PROVE  /\ IsEntry(Entry(name, r))
         /\ LET e == Entry(name, r) IN
            /\ e.name = name /\ e.stage = r.stage /\ e.content = r.content
            /\ e.versions = r.versions /\ e.basedOn = r.basedOn /\ e.category = r.category
  BY DEF Entry, IsRow, IsEntry, IsLike, Columns

LEMMA EntryFacts ==
  ASSUME NEW e, IsEntry(e)
  PROVE  /\ e.name \in Names /\ e.stage \in Stages /\ IsSeq(e.versions)
         /\ e.basedOn \in Origins \cup {None}
         /\ e = [name |-> e.name, stage |-> e.stage, content |-> e.content,
                 versions |-> e.versions, basedOn |-> e.basedOn, category |-> e.category]
  BY DEF IsEntry, IsLike, Columns

LEMMA WithFacts ==
  ASSUME NEW table, NEW name, NEW row
  PROVE  /\ DOMAIN With(table, name, row) = DOMAIN table \cup {name}
         /\ With(table, name, row)[name] = row
         /\ \A n \in DOMAIN table : n # name => With(table, name, row)[n] = table[n]
  BY DEF With

LEMMA WithType ==
  ASSUME NEW table, IsTable(table), NEW name \in Names, NEW row, IsRow(row)
  PROVE  IsTable(With(table, name, row))
  <1> DEFINE t == With(table, name, row)
  <1>1. DOMAIN t = DOMAIN table \cup {name} /\ t = [n \in DOMAIN t |-> t[n]]
    BY DEF With
  <1>2. \A n \in DOMAIN t : IsRow(t[n])
    <2> SUFFICES ASSUME NEW n \in DOMAIN t PROVE IsRow(t[n])
      OBVIOUS
    <2>1. t[n] = IF n = name THEN row ELSE table[n]
      BY <1>1 DEF With
    <2>2. n # name => n \in DOMAIN table
      BY <1>1
    <2> HIDE DEF t
    <2> QED
      BY <2>1, <2>2 DEF IsTable
  <1>3. IsFiniteSet(DOMAIN t) /\ DOMAIN t \subseteq Names
    BY <1>1, FS_AddElement DEF IsTable
  <1> QED
    BY <1>1, <1>2, <1>3 DEF IsTable

-----------------------------------------------------------------------------
(* Counting: the least of a set, induction up to a number, a name not taken. *)

LEMMA HasLeast ==
  ASSUME NEW S, S \subseteq Nat, S # {}
  PROVE  \E x \in S : \A y \in S : x <= y
  <1> DEFINE R == {ss \in Nat \X Nat : ss[1] < ss[2]}
  <1>1. IsWellFoundedOn(R, Nat)
    BY NatLessThanWellFounded DEF OpToRel
  <1>2. \E x \in S : \A y \in S : <<y, x>> \notin R
    <2> HIDE DEF R
    <2> QED
      BY <1>1, WFMin
  <1>3. ASSUME NEW x \in S, NEW y \in S, <<y, x>> \notin R
        PROVE  x <= y
    BY <1>3
  <1> HIDE DEF R
  <1> QED
    BY <1>2, <1>3

LEMMA UpTo ==
  ASSUME NEW n \in Nat, NEW S, 0 \in S, \A i \in 1..n : i - 1 \in S => i \in S
  PROVE  \A i \in 0..n : i \in S
  <1> DEFINE bad == {i \in 0..n : i \notin S}
  <1> SUFFICES ASSUME bad # {} PROVE FALSE
    OBVIOUS
  <1>1. PICK x \in bad : \A y \in bad : x <= y
    <2>1. bad \subseteq Nat
      OBVIOUS
    <2> HIDE DEF bad
    <2> QED
      BY <2>1, HasLeast
  <1>2. x \in 1..n /\ x - 1 \in 0..n /\ ~(x <= x - 1)
    BY <1>1
  <1>3. x - 1 \in S
    BY <1>1, <1>2
  <1> QED
    BY <1>1, <1>2, <1>3

\* Of one more name than there are taken, one is not, and there is a first.
LEMMA OneIsFree ==
  ASSUME NEW taken, IsFiniteSet(taken), NEW f,
         f = [i \in 1..(Cardinality(taken) + 1) |-> f[i]],
         \A i, j \in 1..(Cardinality(taken) + 1) : f[i] = f[j] => i = j
  PROVE  \E i \in 1..(Cardinality(taken) + 1) :
           f[i] \notin taken /\ \A j \in 1..(i - 1) : f[j] \in taken
  <1> DEFINE N == Cardinality(taken) + 1
             free == {i \in 1..N : f[i] \notin taken}
  <1>1. Cardinality(taken) \in Nat /\ N \in Nat
    BY FS_CardinalityType
  <1>2. free # {}
    <2> SUFFICES ASSUME free = {} PROVE FALSE
      OBVIOUS
    <2>1. f \in [1..N -> taken]
      OBVIOUS
    <2>2. IsFiniteSet(1..N) /\ Cardinality(1..N) = N
      <3> HIDE DEF N
      <3>1. 1 \in Int /\ N \in Int /\ (~(1 > N) \/ N = 0)
        BY <1>1
      <3>2. N # 0
        BY <1>1 DEF N
      <3>3. IsFiniteSet(1..N) /\ Cardinality(1..N) = N - 1 + 1
        BY <3>1, <3>2, FS_Interval
      <3> QED
        BY <1>1, <3>3
    <2>3. Cardinality(taken) < Cardinality(1..N)
      BY <1>1, <2>2
    <2>4. \E x, y \in 1..N : x # y /\ f[x] = f[y]
      <3> DEFINE D == 1..N
      <3>1. IsFiniteSet(D) /\ Cardinality(taken) < Cardinality(D) /\ f \in [D -> taken]
        BY <2>1, <2>2, <2>3
      <3> HIDE DEF D
      <3>2. \E x, y \in D : x # y /\ f[x] = f[y]
        <4> SUFFICES ASSUME ~\E x, y \in D : x # y /\ f[x] = f[y] PROVE FALSE
          OBVIOUS
        <4>1. f \in Injection(D, taken)
          BY <3>1 DEF Injection, IsInjective
        <4>2. Cardinality(D) <= Cardinality(taken)
          BY <4>1, FS_Injection
        <4>3. Cardinality(D) \in Nat
          BY <3>1, FS_CardinalityType
        <4> QED
          BY <1>1, <3>1, <4>2, <4>3
      <3> QED
        BY <3>2 DEF D
    <2> QED
      BY <2>4
  <1>3. PICK x \in free : \A y \in free : x <= y
    <2>1. free \subseteq Nat
      OBVIOUS
    <2> HIDE DEF free
    <2> QED
      BY <1>2, <2>1, HasLeast
  <1>4. \A j \in 1..(x - 1) : j \in 1..N /\ ~(x <= j)
    BY <1>1
  <1> QED
    BY <1>3, <1>4

\* FreeName gives a name that is not taken, made of the one it is asked for.
LEMMA FreeNameIsFree ==
  ASSUME NEW taken, IsFiniteSet(taken), NEW name \in Names
  PROVE  /\ FreeName(taken, name) \notin taken /\ FreeName(taken, name) \in Names
         /\ Front(FreeName(taken, name)) = name
  <1> DEFINE N == Cardinality(taken) + 1
             f == [i \in 1..N |-> Append(name, i)]
             Free(n) == /\ Append(name, n) \notin taken
                        /\ \A m \in 1..(n - 1) : Append(name, m) \in taken
  <1>1. N \in Nat /\ Cardinality(taken) \in Nat
    BY FS_CardinalityType
  <1>2. \A i \in 1..N : /\ Append(name, i) \in Names /\ Len(Append(name, i)) = Len(name) + 1
                        /\ Append(name, i)[Len(name) + 1] = i
    BY <1>1, AppendProperties DEF Names
  <1>3. \A i, j \in 1..N : f[i] = f[j] => i = j
    BY <1>2
  <1>4. \E i \in 1..N : f[i] \notin taken /\ \A j \in 1..(i - 1) : f[j] \in taken
    <2>1. f = [i \in 1..N |-> f[i]]
      OBVIOUS
    <2> HIDE DEF f
    <2> QED
      BY <1>3, <2>1, OneIsFree
  <1>5. \E n \in 1..N : Free(n)
    <2>1. PICK i \in 1..N : f[i] \notin taken /\ \A j \in 1..(i - 1) : f[j] \in taken
      BY <1>4
    <2>2. \A j \in 1..(i - 1) : j \in 1..N
      BY <1>1
    <2> QED
      BY <2>1, <2>2
  <1> DEFINE c == CHOOSE n \in 1..N : Free(n)
  <1>6. c \in 1..N /\ Free(c)
    <2> HIDE DEF Free, N
    <2> QED
      BY <1>5
  <1>7. FreeName(taken, name) = Append(name, c)
    BY DEF FreeName
  <1>8. Front(Append(name, c)) = name
    <2> HIDE DEF c
    <2>1. c \in Nat
      BY <1>1, <1>6
    <2>2. name \in Seq(Nat)
      BY DEF Names
    <2> QED
      BY <2>1, <2>2 DEF Front
  <1> HIDE DEF c
  <1> QED
    BY <1>1, <1>2, <1>6, <1>7, <1>8

-----------------------------------------------------------------------------
(* The import as a walk over the entries of the file.                      *)

Start(k) == [rows |-> rows[k], made |-> {}, end |-> "done"]

\* g is what a walk over the first m entries does.
Walks(k, m, g) ==
  g = [i \in 0..m |-> IF i = 0 THEN Start(k) ELSE Carried(k, rows[k], g[i - 1], page.file[k][i])]

LEMMA WalkExists ==
  ASSUME NEW k, NEW n \in Nat
  PROVE  \E g : Walks(k, n, g)
  <1> DEFINE S == {m \in 0..n : \E g : Walks(k, m, g)}
  <1>1. 0 \in S
    <2>1. Walks(k, 0, [i \in 0..0 |-> Start(k)])
      BY DEF Walks
    <2> QED
      BY <2>1
  <1>2. ASSUME NEW m \in 1..n, m - 1 \in S PROVE m \in S
    <2>1. PICK g : Walks(k, m - 1, g)
      BY <1>2
    <2> DEFINE h == [i \in 0..m |-> IF i = m THEN Carried(k, rows[k], g[m - 1], page.file[k][m])
                                            ELSE g[i]]
    <2>2. ASSUME NEW i \in 0..m
          PROVE  h[i] = IF i = 0 THEN Start(k) ELSE Carried(k, rows[k], h[i - 1], page.file[k][i])
      <3>1. CASE i = m
        <4>1. h[i - 1] = g[m - 1] /\ i # 0
          BY <3>1
        <4> QED
          BY <3>1, <4>1
      <3>2. CASE i # m /\ i = 0
        <4>1. h[i] = g[i] /\ i \in 0..(m - 1)
          BY <3>2
        <4> QED
          BY <2>1, <3>2, <4>1 DEF Walks
      <3>3. CASE i # m /\ i # 0
        <4>1. /\ h[i] = g[i] /\ h[i - 1] = g[i - 1]
              /\ i \in 0..(m - 1) /\ i - 1 \in 0..(m - 1)
          BY <3>3
        <4> HIDE DEF h
        <4> QED
          BY <2>1, <3>3, <4>1 DEF Walks
      <3> QED
        BY <3>1, <3>2, <3>3
    <2>3. h = [i \in 0..m |-> h[i]]
      OBVIOUS
    <2> HIDE DEF h
    <2>4. Walks(k, m, h)
      BY <2>2, <2>3 DEF Walks
    <2> QED
      BY <2>4
  <1>3. \A i \in 0..n : i \in S
    <2> HIDE DEF S
    <2> QED
      BY <1>1, <1>2, UpTo
  <1> QED
    BY <1>3

LEMMA ProgressWalks ==
  ASSUME NEW k, Len(page.file[k]) \in Nat
  PROVE  /\ Progress(k)[0] = Start(k)
         /\ \A i \in 1..Len(page.file[k]) :
              Progress(k)[i] = Carried(k, rows[k], Progress(k)[i - 1], page.file[k][i])
  <1> DEFINE n == Len(page.file[k])
  <1>1. Progress(k) = CHOOSE g : Walks(k, n, g)
    BY DEF Progress, Walks, Start
  <1>2. \E g : Walks(k, n, g)
    BY WalkExists
  <1>3. Walks(k, n, Progress(k))
    BY <1>1, <1>2
  <1> HIDE DEF n
  <1>4. n \in Nat
    BY DEF n
  <1> QED
    BY <1>3, <1>4 DEF Walks, n

\* What the entry is made of, and what is decided of it.
EntryAt(k, i) == page.file[k][i]

LEMMA FileFacts ==
  ASSUME TypeOK, NEW k \in Kinds
  PROVE  /\ IsTable(rows[k])
         /\ Len(page.file[k]) \in Nat /\ DOMAIN page.file[k] = 1..Len(page.file[k])
         /\ ToSet(page.file[k]) = {EntryAt(k, i) : i \in 1..Len(page.file[k])}
         /\ \A i \in 1..Len(page.file[k]) :
              IsEntry(EntryAt(k, i)) /\ Decision(k, EntryAt(k, i)) \in Actions
         /\ \A i, j \in 1..Len(page.file[k]) :
              EntryAt(k, i).name = EntryAt(k, j).name => i = j
  <1>1. IsTable(rows[k])
    BY DEF TypeOK, IsShelf
  <1>2. /\ IsSeq(page.file[k])
        /\ \A i \in DOMAIN page.file[k] : IsEntry(page.file[k][i])
        /\ \A i, j \in DOMAIN page.file[k] : page.file[k][i].name = page.file[k][j].name => i = j
    BY DEF TypeOK, IsPage, IsFile
  <1>3. Len(page.file[k]) \in Nat /\ DOMAIN page.file[k] = 1..Len(page.file[k])
    BY <1>2, SeqFacts
  <1>4. \A e : Decision(k, e) \in Actions
    <2>1. page.decisions[k] \in [DOMAIN page.decisions[k] -> Actions]
      BY DEF TypeOK, IsPage
    <2>2. "skip" \in Actions
      BY DEF Actions
    <2> QED
      BY <2>1, <2>2 DEF Decision
  <1> QED
    BY <1>1, <1>2, <1>3, <1>4 DEF EntryAt, ToSet

\* What the import may do with the next entry.
LEMMA CarriedCases ==
  ASSUME NEW k, NEW d, d = [rows |-> d.rows, made |-> d.made, end |-> d.end],
         NEW e, Decision(k, e) \in Actions, DOMAIN rows[k] \subseteq DOMAIN d.rows
  PROVE  LET after == Carried(k, rows[k], d, e)
             free == FreeName(DOMAIN d.rows, e.name)
         IN \/ after = d /\ (Decision(k, e) = "skip" \/ d.end # "done")
            \/ /\ d.end = "done" /\ after.end \in {"refused", "failed"}
               /\ after = [rows |-> d.rows, made |-> d.made, end |-> after.end]
            \/ /\ d.end = "done" /\ e.name \notin DOMAIN rows[k] /\ e.name \notin DOMAIN d.rows
               /\ after = [rows |-> With(d.rows, e.name, Restored(e)), made |-> d.made \cup {e},
                           end |-> "done"]
            \/ /\ d.end = "done" /\ e.name \in DOMAIN rows[k] /\ Decision(k, e) = "overwrite"
               /\ after = [rows |-> With(d.rows, e.name, Overwritten(rows[k][e.name], e)),
                           made |-> d.made, end |-> "done"]
            \/ /\ d.end = "done" /\ e.name \in DOMAIN rows[k] /\ Decision(k, e) = "copy"
               /\ after = [rows |-> With(d.rows, free, CopyOf(e.name, rows[k][e.name], e)),
                           made |-> d.made, end |-> "done"]
  <1> DEFINE found == e.name \in DOMAIN rows[k]
             decided == Decision(k, e)
             after == Carried(k, rows[k], d, e)
  <1>1. CASE d.end # "done" \/ decided = "skip"
    <2>1. after = d
      BY <1>1 DEF Carried
    <2> QED
      BY <1>1, <2>1
  <1>2. CASE d.end = "done" /\ decided = "create" /\ found
    <2>1. after = [d EXCEPT !.end = "refused"]
      <3>1. e.name \in DOMAIN d.rows
        BY <1>2
      <3> QED
        BY <1>2, <3>1 DEF Carried
    <2>2. after = [rows |-> d.rows, made |-> d.made, end |-> "refused"]
      BY <2>1
    <2> QED
      BY <1>2, <2>2
  <1>3. CASE d.end = "done" /\ decided # "skip" /\ ~found /\ e.name \in DOMAIN d.rows
    <2>1. after = [d EXCEPT !.end = "failed"]
      BY <1>3 DEF Carried, Actions
    <2>2. after = [rows |-> d.rows, made |-> d.made, end |-> "failed"]
      BY <2>1
    <2> QED
      BY <1>3, <2>2
  <1>4. CASE d.end = "done" /\ decided # "skip" /\ ~found /\ e.name \notin DOMAIN d.rows
    <2>1. after = [d EXCEPT !.rows = With(@, e.name, Restored(e)), !.made = @ \cup {e}]
      BY <1>4 DEF Carried, Actions
    <2>2. after = [rows |-> With(d.rows, e.name, Restored(e)), made |-> d.made \cup {e},
                   end |-> "done"]
      BY <1>4, <2>1
    <2> QED
      BY <1>4, <2>2
  <1>5. CASE d.end = "done" /\ decided = "overwrite" /\ found
    <2>1. after = [d EXCEPT !.rows = With(@, e.name, Overwritten(rows[k][e.name], e))]
      BY <1>5 DEF Carried
    <2>2. after = [rows |-> With(d.rows, e.name, Overwritten(rows[k][e.name], e)),
                   made |-> d.made, end |-> "done"]
      BY <1>5, <2>1
    <2> QED
      BY <1>5, <2>2
  <1>6. CASE d.end = "done" /\ decided = "copy" /\ found
    <2>1. after = [d EXCEPT !.rows =
                     With(@, FreeName(DOMAIN d.rows, e.name), CopyOf(e.name, rows[k][e.name], e))]
      BY <1>6 DEF Carried
    <2>2. after = [rows |-> With(d.rows, FreeName(DOMAIN d.rows, e.name),
                                 CopyOf(e.name, rows[k][e.name], e)),
                   made |-> d.made, end |-> "done"]
      BY <1>6, <2>1
    <2> QED
      BY <1>6, <2>2
  <1> QED
    BY <1>1, <1>2, <1>3, <1>4, <1>5, <1>6 DEF Actions

LEMMA RestoredFacts ==
  ASSUME NEW e, IsEntry(e)
  PROVE  /\ IsRow(Restored(e)) /\ Restored(e).content = e.content
         /\ Restored(e).stage = e.stage /\ Restored(e).category = e.category
         /\ Restored(e).basedOn = None
         /\ IsProd(Restored(e)) <=> Restored(e).versions # <<>>
         /\ IsProd(e) /\ e.versions # <<>> => Restored(e).versions = e.versions
         /\ ~IsProd(e) => Restored(e).versions = <<>>
  <1> DEFINE versions == IF e.stage # "prod" THEN <<>>
                         ELSE IF e.versions = <<>> THEN <<e.content>> ELSE e.versions
  <1>1. Restored(e) = Row(e.stage, e.content, versions, None, e.category)
    BY DEF Restored
  <1>2. e.stage \in Stages /\ IsSeq(e.versions)
    BY EntryFacts
  <1>3. IsSeq(versions) /\ (e.stage = "prod" <=> versions # <<>>)
    BY <1>2, NoVersions, OneVersion
  <1>4. /\ IsProd(e) /\ e.versions # <<>> => versions = e.versions
        /\ ~IsProd(e) => versions = <<>>
    BY DEF IsProd
  <1> HIDE DEF versions
  <1>5. /\ IsRow(Restored(e)) /\ Restored(e).content = e.content /\ Restored(e).stage = e.stage
        /\ Restored(e).basedOn = None /\ Restored(e).versions = versions
        /\ Restored(e).category = e.category
    BY <1>1, <1>2, <1>3, RowType
  <1> QED
    BY <1>3, <1>4, <1>5 DEF IsProd

LEMMA RowWithStage ==
  ASSUME NEW stage, NEW content, NEW versions, NEW origin, NEW category, NEW x
  PROVE  [Row(stage, content, versions, origin, category) EXCEPT !.stage = x]
           = Row(x, content, versions, origin, category)
  BY DEF Row

LEMMA RowWithVersions ==
  ASSUME NEW stage, NEW content, NEW versions, NEW origin, NEW category, NEW x
  PROVE  [Row(stage, content, versions, origin, category) EXCEPT !.versions = x]
           = Row(stage, content, x, origin, category)
  BY DEF Row

LEMMA RowWithOrigin ==
  ASSUME NEW stage, NEW content, NEW versions, NEW origin, NEW category, NEW x
  PROVE  [Row(stage, content, versions, origin, category) EXCEPT !.basedOn = x]
           = Row(stage, content, versions, x, category)
  BY DEF Row

LEMMA RowWithContent ==
  ASSUME NEW stage, NEW content, NEW versions, NEW origin, NEW category, NEW c
  PROVE  [Row(stage, content, versions, origin, category) EXCEPT !.content = c]
           = Row(stage, c, versions, origin, category)
  BY DEF Row

LEMMA RowWithCategory ==
  ASSUME NEW stage, NEW content, NEW versions, NEW origin, NEW category, NEW c
  PROVE  [Row(stage, content, versions, origin, category) EXCEPT !.category = c]
           = Row(stage, content, versions, origin, c)
  BY DEF Row

LEMMA OverwrittenFacts ==
  ASSUME NEW r, IsRow(r), NEW e
  PROVE  LET o == Overwritten(r, e) IN
         /\ IsRow(o) /\ o.content = e.content
         /\ o.stage = r.stage /\ o.versions = r.versions /\ o.basedOn = r.basedOn
  <1> DEFINE category == IF e.category = None THEN r.category ELSE e.category
  <1>1. /\ r = Row(r.stage, r.content, r.versions, r.basedOn, r.category)
        /\ r.stage \in Stages /\ IsSeq(r.versions) /\ r.basedOn \in Origins \cup {None}
    BY RowFacts
  <1>2. Overwritten(r, e) = Row(r.stage, e.content, r.versions, r.basedOn, category)
    <2>1. Overwritten(r, e) = [r EXCEPT !.content = e.content, !.category = category]
      BY DEF Overwritten
    <2> HIDE DEF category
    <2> DEFINE q == [r EXCEPT !.content = e.content]
    <2>2. [r EXCEPT !.content = e.content, !.category = category] = [q EXCEPT !.category = category]
      OBVIOUS
    <2>3. q = Row(r.stage, e.content, r.versions, r.basedOn, r.category)
      BY <1>1, RowWithContent
    <2> HIDE DEF q
    <2>4. [q EXCEPT !.category = category]
            = Row(r.stage, e.content, r.versions, r.basedOn, category)
      BY <2>3, RowWithCategory
    <2> QED
      BY <2>1, <2>2, <2>4
  <1> HIDE DEF category
  <1> QED
    BY <1>1, <1>2, RowType

LEMMA BasedOnType ==
  ASSUME NEW name \in Names, NEW r, IsRow(r)
  PROVE  /\ BasedOnFor(name, r) \in Origins \cup {None}
         /\ IsProd(r) => BasedOnFor(name, r).name = name
         /\ ~IsProd(r) => BasedOnFor(name, r) = r.basedOn
  <1>1. Len(r.versions) \in Nat /\ r.basedOn \in Origins \cup {None}
    BY RowFacts, SeqFacts
  <1> QED
    BY <1>1 DEF BasedOnFor, Origin, Origins

LEMMA CopyOfFacts ==
  ASSUME NEW name \in Names, NEW r, IsRow(r), NEW e
  PROVE  LET c == CopyOf(name, r, e) IN
         /\ IsRow(c) /\ c.content = e.content
         /\ c.stage = "test" /\ c.versions = <<>> /\ c.basedOn = BasedOnFor(name, r)
  <1>1. "test" \in Stages /\ IsSeq(<<>>)
    BY NoVersions DEF Stages
  <1> QED
    BY <1>1, BasedOnType, RowType DEF CopyOf

-----------------------------------------------------------------------------
(* What is true after i entries of the file.                               *)

Shaped(k, d) ==
  /\ d = [rows |-> d.rows, made |-> d.made, end |-> d.end]
  /\ d.end \in {"done", "refused", "failed"}
  /\ IsTable(d.rows) /\ DOMAIN rows[k] \subseteq DOMAIN d.rows

\* What was made has new names.
MadeNew(k, i, d) ==
  \A e \in d.made : /\ e.name \in DOMAIN d.rows \ DOMAIN rows[k]
                    /\ \E j \in 1..i : e = EntryAt(k, j)

\* What was there is there, as it was or as it was to be overwritten.
Kept(k, i, d) ==
  \A n \in DOMAIN rows[k] :
    \/ d.rows[n] = rows[k][n]
    \/ \E j \in 1..i : LET e == EntryAt(k, j) IN
         e.name = n /\ Decision(k, e) = "overwrite" /\ d.rows[n] = Overwritten(rows[k][n], e)

\* What is new is sound, and a copy stems from a Prod row that was there.
NewOnes(k, d) ==
  \A n \in DOMAIN d.rows \ DOMAIN rows[k] :
    LET r == d.rows[n] IN
    /\ IsProd(r) <=> r.versions # <<>>
    /\ r.basedOn # None => /\ r.basedOn.name \in DOMAIN rows[k]
                           /\ IsProd(rows[k][r.basedOn.name])

BroughtAs(k, d, e, n) ==
  /\ n \in DOMAIN d.rows /\ d.rows[n].content = e.content
  /\ n = e.name \/ (n \notin DOMAIN rows[k] /\ Front(n) = e.name)

Brought(k, i, d) ==
  d.end = "done" =>
    \A j \in 1..i : Decision(k, EntryAt(k, j)) # "skip" => \E n : BroughtAs(k, d, EntryAt(k, j), n)

Walked(k, i, d) ==
  Shaped(k, d) /\ MadeNew(k, i, d) /\ Kept(k, i, d) /\ NewOnes(k, d) /\ Brought(k, i, d)

\* A row under a new name.
LEMMA WalkedNew ==
  ASSUME NEW k, NEW i \in Nat, NEW d, Walked(k, i - 1, d), i > 0, d.end = "done",
         NEW n \in Names, n \notin DOMAIN d.rows, NEW r, IsRow(r),
         r.content = EntryAt(k, i).content,
         n = EntryAt(k, i).name \/ Front(n) = EntryAt(k, i).name,
         IsProd(r) <=> r.versions # <<>>,
         r.basedOn # None => r.basedOn.name \in DOMAIN rows[k] /\ IsProd(rows[k][r.basedOn.name]),
         NEW made, made = d.made \/ (made = d.made \cup {EntryAt(k, i)} /\ n = EntryAt(k, i).name)
  PROVE  Walked(k, i, [rows |-> With(d.rows, n, r), made |-> made, end |-> "done"])
  <1> DEFINE t == With(d.rows, n, r)
             a == [rows |-> t, made |-> made, end |-> "done"]
  <1>1. /\ DOMAIN t = DOMAIN d.rows \cup {n} /\ t[n] = r
        /\ \A m \in DOMAIN d.rows : t[m] = d.rows[m]
    BY DEF With
  <1>2. IsTable(t) /\ n \notin DOMAIN rows[k] /\ DOMAIN rows[k] \subseteq DOMAIN d.rows
    BY WithType DEF Walked, Shaped
  <1> HIDE DEF t
  <1>3. a.rows = t /\ a.made = made /\ a.end = "done" /\ a = [rows |-> t, made |-> made, end |-> "done"]
    OBVIOUS
  <1> HIDE DEF a
  <1>4. Shaped(k, a)
    BY <1>1, <1>2, <1>3 DEF Shaped
  <1>5. MadeNew(k, i, a)
    BY <1>1, <1>2, <1>3 DEF Walked, MadeNew
  <1>6. Kept(k, i, a)
    BY <1>1, <1>2, <1>3 DEF Walked, Kept
  <1>7. NewOnes(k, a)
    BY <1>1, <1>2, <1>3 DEF Walked, NewOnes
  <1>8. Brought(k, i, a)
    <2> SUFFICES ASSUME NEW j \in 1..i, Decision(k, EntryAt(k, j)) # "skip"
                 PROVE  \E m : BroughtAs(k, a, EntryAt(k, j), m)
      BY DEF Brought
    <2>1. CASE j = i
      <3>1. BroughtAs(k, a, EntryAt(k, j), n)
        BY <1>1, <1>2, <1>3, <2>1 DEF BroughtAs
      <3> QED
        BY <3>1
    <2>2. CASE j # i
      <3>1. j \in 1..(i - 1)
        BY <2>2
      <3>2. PICK m : BroughtAs(k, d, EntryAt(k, j), m)
        BY <3>1 DEF Walked, Brought
      <3>3. BroughtAs(k, a, EntryAt(k, j), m)
        BY <1>1, <1>2, <1>3, <3>2 DEF BroughtAs
      <3> QED
        BY <3>3
    <2> QED
      BY <2>1, <2>2
  <1>9. Walked(k, i, a)
    BY <1>4, <1>5, <1>6, <1>7, <1>8 DEF Walked
  <1> QED
    BY <1>9 DEF a, t

\* A row overwritten.
LEMMA WalkedOver ==
  ASSUME TypeOK, NEW k \in Kinds, NEW i \in 1..Len(page.file[k]), NEW d, Walked(k, i - 1, d),
         d.end = "done", EntryAt(k, i).name \in DOMAIN rows[k],
         Decision(k, EntryAt(k, i)) = "overwrite"
  PROVE  LET e == EntryAt(k, i) IN
         Walked(k, i, [rows |-> With(d.rows, e.name, Overwritten(rows[k][e.name], e)),
                       made |-> d.made, end |-> "done"])
  <1> DEFINE e == EntryAt(k, i)
             n == e.name
             o == Overwritten(rows[k][n], e)
             t == With(d.rows, n, o)
             a == [rows |-> t, made |-> d.made, end |-> "done"]
  <1>0. /\ Len(page.file[k]) \in Nat /\ i \in Nat
        /\ \A j \in 1..Len(page.file[k]) : EntryAt(k, j).name = n => i = j
    BY FileFacts
  <1>1. IsRow(o) /\ o.content = e.content
    <2>1. IsRow(rows[k][n])
      BY FileFacts DEF IsTable
    <2> QED
      BY <2>1, OverwrittenFacts
  <1>2. n \in Names /\ n \in DOMAIN rows[k]
    BY FileFacts, EntryFacts
  <1> HIDE DEF o
  <1>3. DOMAIN rows[k] \subseteq DOMAIN d.rows
    BY DEF Walked, Shaped
  <1>4. /\ DOMAIN t = DOMAIN d.rows /\ t[n] = o
        /\ \A m \in DOMAIN d.rows : m # n => t[m] = d.rows[m]
    BY <1>2, <1>3 DEF With
  <1>5. IsTable(t)
    BY <1>1, <1>2, WithType DEF Walked, Shaped
  <1> HIDE DEF t
  <1>6. a.rows = t /\ a.made = d.made /\ a.end = "done" /\ a = [rows |-> t, made |-> d.made, end |-> "done"]
    OBVIOUS
  <1> HIDE DEF a
  <1>7. Shaped(k, a)
    BY <1>3, <1>4, <1>5, <1>6 DEF Shaped
  <1>8. MadeNew(k, i, a)
    BY <1>0, <1>4, <1>6 DEF Walked, MadeNew
  <1>9. Kept(k, i, a)
    <2> SUFFICES ASSUME NEW m \in DOMAIN rows[k]
                 PROVE  \/ a.rows[m] = rows[k][m]
                        \/ \E j \in 1..i : LET f == EntryAt(k, j) IN
                             /\ f.name = m /\ Decision(k, f) = "overwrite"
                             /\ a.rows[m] = Overwritten(rows[k][m], f)
      BY DEF Kept
    <2>1. CASE m = n
      <3>1. i \in 1..i
        BY <1>0
      <3> QED
        BY <1>4, <1>6, <2>1, <3>1 DEF o
    <2>2. CASE m # n
      <3>1. a.rows[m] = d.rows[m]
        BY <1>3, <1>4, <1>6, <2>2
      <3>2. 1..(i - 1) \subseteq 1..i
        BY <1>0
      <3> QED
        BY <3>1, <3>2 DEF Walked, Kept
    <2> QED
      BY <2>1, <2>2
  <1>10. NewOnes(k, a)
    BY <1>2, <1>4, <1>6 DEF Walked, NewOnes
  <1>11. Brought(k, i, a)
    <2> SUFFICES ASSUME NEW j \in 1..i, Decision(k, EntryAt(k, j)) # "skip"
                 PROVE  \E m : BroughtAs(k, a, EntryAt(k, j), m)
      BY DEF Brought
    <2>1. CASE j = i
      <3>1. BroughtAs(k, a, EntryAt(k, j), n)
        BY <1>1, <1>2, <1>3, <1>4, <1>6, <2>1 DEF BroughtAs
      <3> QED
        BY <3>1
    <2>2. CASE j # i
      <3>1. j \in 1..(i - 1) /\ j \in 1..Len(page.file[k])
        BY <1>0, <2>2
      <3>2. PICK m : BroughtAs(k, d, EntryAt(k, j), m)
        BY <3>1 DEF Walked, Brought
      <3>3. m # n
        BY <1>0, <1>2, <2>2, <3>1, <3>2 DEF BroughtAs
      <3>4. BroughtAs(k, a, EntryAt(k, j), m)
        BY <1>4, <1>6, <3>2, <3>3 DEF BroughtAs
      <3> QED
        BY <3>4
    <2> QED
      BY <2>1, <2>2
  <1>12. Walked(k, i, a)
    BY <1>7, <1>8, <1>9, <1>10, <1>11 DEF Walked
  <1> QED
    BY <1>12 DEF a, t, o

\* The walk goes on as it was, or ends.
LEMMA WalkedStill ==
  ASSUME NEW k, NEW i \in Nat, i > 0, NEW d, Walked(k, i - 1, d),
         NEW a, a = [rows |-> d.rows, made |-> d.made, end |-> a.end],
         a.end \in {"done", "refused", "failed"},
         a.end = "done" => d.end = "done" /\ Decision(k, EntryAt(k, i)) = "skip"
  PROVE  Walked(k, i, a)
  <1>1. a.rows = d.rows /\ a.made = d.made
    OBVIOUS
  <1>2. 1..(i - 1) \subseteq 1..i /\ \A j \in 1..i : j # i => j \in 1..(i - 1)
    OBVIOUS
  <1>3. Shaped(k, a)
    BY <1>1 DEF Walked, Shaped
  <1>4. MadeNew(k, i, a) /\ Kept(k, i, a) /\ NewOnes(k, a)
    BY <1>1, <1>2 DEF Walked, MadeNew, Kept, NewOnes
  <1>5. Brought(k, i, a)
    <2> SUFFICES ASSUME a.end = "done", NEW j \in 1..i, Decision(k, EntryAt(k, j)) # "skip"
                 PROVE  \E m : BroughtAs(k, a, EntryAt(k, j), m)
      BY DEF Brought
    <2>1. j \in 1..(i - 1)
      BY <1>2
    <2>2. PICK m : BroughtAs(k, d, EntryAt(k, j), m)
      BY <2>1 DEF Walked, Brought
    <2>3. BroughtAs(k, a, EntryAt(k, j), m)
      BY <1>1, <2>2 DEF BroughtAs
    <2> QED
      BY <2>3
  <1> QED
    BY <1>3, <1>4, <1>5 DEF Walked

\* One entry after another.
LEMMA WalkedOn ==
  ASSUME TypeOK, NEW k \in Kinds, IsLinked(rows[k]), NEW i \in 1..Len(page.file[k]), NEW d,
         Walked(k, i - 1, d)
  PROVE  Walked(k, i, Carried(k, rows[k], d, EntryAt(k, i)))
  <1> DEFINE e == EntryAt(k, i)
             n == e.name
             free == FreeName(DOMAIN d.rows, n)
             after == Carried(k, rows[k], d, e)
  <1>1. /\ i \in Nat /\ i > 0 /\ IsTable(rows[k]) /\ IsEntry(e) /\ Decision(k, e) \in Actions
    BY FileFacts
  <1>2. n \in Names
    BY <1>1, EntryFacts
  <1>3. /\ d = [rows |-> d.rows, made |-> d.made, end |-> d.end] /\ IsTable(d.rows)
        /\ d.end \in {"done", "refused", "failed"} /\ DOMAIN rows[k] \subseteq DOMAIN d.rows
    BY DEF Walked, Shaped
  <1> SUFFICES Walked(k, i, after)
    OBVIOUS
  <1> HIDE DEF e, after
  <1>4. CASE after = d /\ (Decision(k, e) = "skip" \/ d.end # "done")
    BY <1>1, <1>3, <1>4, WalkedStill DEF e
  <1>5. CASE /\ d.end = "done" /\ after.end \in {"refused", "failed"}
             /\ after = [rows |-> d.rows, made |-> d.made, end |-> after.end]
    BY <1>1, <1>5, WalkedStill
  <1>6. CASE /\ d.end = "done" /\ n \notin DOMAIN rows[k] /\ n \notin DOMAIN d.rows
             /\ after = [rows |-> With(d.rows, n, Restored(e)), made |-> d.made \cup {e},
                         end |-> "done"]
    <2> DEFINE r == Restored(e)
               made == d.made \cup {e}
    <2>1. /\ IsRow(r) /\ r.content = e.content /\ r.basedOn = None
          /\ IsProd(r) <=> r.versions # <<>>
      BY <1>1, RestoredFacts
    <2> HIDE DEF r, made
    <2>2. made = d.made \cup {EntryAt(k, i)} /\ n = EntryAt(k, i).name
      BY DEF made, e
    <2>3. r.content = EntryAt(k, i).content
      BY <2>1 DEF e
    <2>4. Walked(k, i, [rows |-> With(d.rows, n, r), made |-> made, end |-> "done"])
      <3> HIDE DEF n
      <3> QED
        BY <1>1, <1>2, <1>6, <2>1, <2>2, <2>3, WalkedNew
    <2> QED
      BY <1>6, <2>4 DEF r, made
  <1>7. CASE /\ d.end = "done" /\ n \in DOMAIN rows[k] /\ Decision(k, e) = "overwrite"
             /\ after = [rows |-> With(d.rows, n, Overwritten(rows[k][n], e)),
                         made |-> d.made, end |-> "done"]
    BY <1>7, WalkedOver DEF e
  <1>8. CASE /\ d.end = "done" /\ n \in DOMAIN rows[k] /\ Decision(k, e) = "copy"
             /\ after = [rows |-> With(d.rows, free, CopyOf(n, rows[k][n], e)),
                         made |-> d.made, end |-> "done"]
    <2> DEFINE r == CopyOf(n, rows[k][n], e)
               made == d.made
    <2>1. IsRow(rows[k][n])
      BY <1>1, <1>8 DEF IsTable
    <2>2. /\ IsRow(r) /\ r.content = e.content /\ r.stage = "test" /\ r.versions = <<>>
          /\ r.basedOn = BasedOnFor(n, rows[k][n])
      BY <1>2, <2>1, CopyOfFacts
    <2>3. IsProd(r) <=> r.versions # <<>>
      BY <2>2 DEF IsProd
    <2>4. r.basedOn # None => r.basedOn.name \in DOMAIN rows[k] /\ IsProd(rows[k][r.basedOn.name])
      <3>1. CASE IsProd(rows[k][n])
        BY <1>2, <1>8, <2>1, <2>2, <3>1, BasedOnType
      <3>2. CASE ~IsProd(rows[k][n])
        BY <1>2, <1>8, <2>1, <2>2, <3>2, BasedOnType DEF IsLinked
      <3> QED
        BY <3>1, <3>2
    <2>5. free \notin DOMAIN d.rows /\ free \in Names /\ Front(free) = n
      BY <1>2, <1>3, FreeNameIsFree DEF IsTable
    <2> HIDE DEF r, free
    <2>6. r.content = EntryAt(k, i).content /\ Front(free) = EntryAt(k, i).name
      BY <2>2, <2>5 DEF e
    <2>7. Walked(k, i, [rows |-> With(d.rows, free, r), made |-> made, end |-> "done"])
      BY <1>1, <1>8, <2>2, <2>3, <2>4, <2>5, <2>6, WalkedNew
    <2> QED
      BY <1>8, <2>7 DEF r, free
  <1> QED
    <2>1. \/ after = d /\ (Decision(k, e) = "skip" \/ d.end # "done")
          \/ /\ d.end = "done" /\ after.end \in {"refused", "failed"}
             /\ after = [rows |-> d.rows, made |-> d.made, end |-> after.end]
          \/ /\ d.end = "done" /\ n \notin DOMAIN rows[k] /\ n \notin DOMAIN d.rows
             /\ after = [rows |-> With(d.rows, n, Restored(e)), made |-> d.made \cup {e},
                         end |-> "done"]
          \/ /\ d.end = "done" /\ n \in DOMAIN rows[k] /\ Decision(k, e) = "overwrite"
             /\ after = [rows |-> With(d.rows, n, Overwritten(rows[k][n], e)),
                         made |-> d.made, end |-> "done"]
          \/ /\ d.end = "done" /\ n \in DOMAIN rows[k] /\ Decision(k, e) = "copy"
             /\ after = [rows |-> With(d.rows, free, CopyOf(n, rows[k][n], e)),
                         made |-> d.made, end |-> "done"]
      BY <1>1, <1>3, CarriedCases DEF after
    <2> QED
      BY <1>4, <1>5, <1>6, <1>7, <1>8, <2>1

LEMMA WalkedAtFirst ==
  ASSUME TypeOK, NEW k \in Kinds
  PROVE  Walked(k, 0, Start(k))
  <1>1. IsTable(rows[k])
    BY FileFacts
  <1>2. Start(k).rows = rows[k] /\ Start(k).made = {} /\ Start(k).end = "done"
    BY DEF Start
  <1>3. Shaped(k, Start(k))
    BY <1>1 DEF Shaped, Start
  <1> QED
    BY <1>2, <1>3 DEF Walked, MadeNew, Kept, NewOnes, Brought

LEMMA WalkedToTheEnd ==
  ASSUME TypeOK, NEW k \in Kinds, IsLinked(rows[k])
  PROVE  Walked(k, Len(page.file[k]), Carry(k))
  <1> DEFINE n == Len(page.file[k])
             S == {i \in 0..n : Walked(k, i, Progress(k)[i])}
  <1>1. n \in Nat
    BY FileFacts
  <1>2. 0 \in S
    BY <1>1, ProgressWalks, WalkedAtFirst
  <1>3. ASSUME NEW i \in 1..n, i - 1 \in S PROVE i \in S
    <2>1. Walked(k, i - 1, Progress(k)[i - 1])
      BY <1>3
    <2>2. Walked(k, i, Carried(k, rows[k], Progress(k)[i - 1], EntryAt(k, i)))
      BY <2>1, WalkedOn
    <2>3. Progress(k)[i] = Carried(k, rows[k], Progress(k)[i - 1], EntryAt(k, i))
      BY <1>1, ProgressWalks DEF EntryAt
    <2> QED
      BY <1>1, <2>2, <2>3
  <1>4. \A i \in 0..n : i \in S
    <2> HIDE DEF S, n
    <2> QED
      BY <1>1, <1>2, <1>3, UpTo
  <1> QED
    BY <1>1, <1>4 DEF Carry

-----------------------------------------------------------------------------
(* The origins of what was made.                                           *)

LEMMA RebasedFacts ==
  ASSUME NEW r, IsRow(r), NEW o \in Origins \cup {None}
  PROVE  LET q == [r EXCEPT !.basedOn = o] IN
         /\ IsRow(q) /\ q.basedOn = o /\ q.content = r.content /\ q.stage = r.stage
         /\ q.versions = r.versions /\ q.category = r.category
         /\ q = Row(r.stage, r.content, r.versions, o, r.category)
  <1>1. /\ r = Row(r.stage, r.content, r.versions, r.basedOn, r.category)
        /\ r.stage \in Stages /\ IsSeq(r.versions)
    BY RowFacts
  <1>2. [r EXCEPT !.basedOn = o] = Row(r.stage, r.content, r.versions, o, r.category)
    BY <1>1, RowWithOrigin
  <1> QED
    BY <1>1, <1>2, RowType

\* An origin that is there, as _link_based_on asks for it.
Found(table, o) == o # None /\ o.name \in DOMAIN table /\ IsProd(table[o.name])

LEMMA LinkedRow ==
  ASSUME TypeOK, NEW k \in Kinds, NEW d, Walked(k, Len(page.file[k]), d), NEW n \in DOMAIN d.rows
  PROVE  LET t == Linked(rows[k], d) IN
         /\ DOMAIN t = DOMAIN d.rows
         /\ \/ t[n] = d.rows[n]
            \/ \E e \in d.made : /\ IsEntry(e) /\ e.name = n /\ Found(d.rows, e.basedOn)
                                 /\ t[n] = [d.rows[n] EXCEPT !.basedOn = e.basedOn]
         /\ \A e \in d.made : e.name = n /\ Found(d.rows, e.basedOn) =>
              t[n] = [d.rows[n] EXCEPT !.basedOn = e.basedOn]
  <1> DEFINE t == Linked(rows[k], d)
             x == CHOOSE e \in d.made : e.name = n
  <1>1. DOMAIN t = DOMAIN d.rows
    BY DEF Linked
  <1>2. \A e \in d.made : IsEntry(e)
    BY FileFacts DEF Walked, MadeNew
  <1>3. \A e, f \in d.made : e.name = f.name => e = f
    <2> SUFFICES ASSUME NEW e \in d.made, NEW f \in d.made, e.name = f.name PROVE e = f
      OBVIOUS
    <2>1. PICK i \in 1..Len(page.file[k]) : e = EntryAt(k, i)
      BY DEF Walked, MadeNew
    <2>2. PICK j \in 1..Len(page.file[k]) : f = EntryAt(k, j)
      BY DEF Walked, MadeNew
    <2> QED
      BY <2>1, <2>2, FileFacts
  <1>4. t[n] = IF \E e \in d.made : e.name = n /\ Found(d.rows, e.basedOn)
               THEN [d.rows[n] EXCEPT !.basedOn = x.basedOn] ELSE d.rows[n]
    BY DEF Linked, Found
  <1>5. \A e \in d.made : e.name = n => x = e
    BY <1>3
  <1> HIDE DEF t, x
  <1>6. \A e \in d.made : e.name = n /\ Found(d.rows, e.basedOn) =>
           t[n] = [d.rows[n] EXCEPT !.basedOn = e.basedOn]
    BY <1>4, <1>5
  <1>7. \/ t[n] = d.rows[n]
        \/ \E e \in d.made : /\ IsEntry(e) /\ e.name = n /\ Found(d.rows, e.basedOn)
                             /\ t[n] = [d.rows[n] EXCEPT !.basedOn = e.basedOn]
    BY <1>2, <1>4, <1>5
  <1> QED
    BY <1>1, <1>6, <1>7 DEF t

\* The rows as they are committed.
LEMMA LinkedFacts ==
  ASSUME TypeOK, NEW k \in Kinds, IsLinked(rows[k]), NEW d, Walked(k, Len(page.file[k]), d)
  PROVE  LET t == Linked(rows[k], d) IN
         /\ IsTable(t) /\ IsLinked(t) /\ DOMAIN t = DOMAIN d.rows
         /\ \A n \in DOMAIN t : t[n].content = d.rows[n].content
         /\ \A n \in DOMAIN rows[k] : n \in DOMAIN t /\ t[n] = d.rows[n]
  <1> DEFINE t == Linked(rows[k], d)
  <1>0. /\ IsTable(d.rows) /\ DOMAIN rows[k] \subseteq DOMAIN d.rows
        /\ \A e \in d.made : e.name \in DOMAIN d.rows \ DOMAIN rows[k]
    BY DEF Walked, Shaped, MadeNew
  <1>1. DOMAIN t = DOMAIN d.rows /\ t = [n \in DOMAIN t |-> t[n]]
    BY DEF Linked
  <1>2. ASSUME NEW n \in DOMAIN d.rows
        PROVE  \/ t[n] = d.rows[n]
               \/ \E e \in d.made : /\ IsEntry(e) /\ e.name = n /\ Found(d.rows, e.basedOn)
                                    /\ t[n] = [d.rows[n] EXCEPT !.basedOn = e.basedOn]
    BY LinkedRow
  <1> HIDE DEF t
  <1>3. ASSUME NEW n \in DOMAIN d.rows
        PROVE  /\ IsRow(t[n]) /\ t[n].content = d.rows[n].content /\ t[n].stage = d.rows[n].stage
               /\ t[n].versions = d.rows[n].versions
               /\ t[n].basedOn = d.rows[n].basedOn \/ Found(d.rows, t[n].basedOn)
               /\ n \in DOMAIN rows[k] => t[n] = d.rows[n]
    <2>1. IsRow(d.rows[n])
      BY <1>0 DEF IsTable
    <2>2. CASE t[n] = d.rows[n]
      BY <2>1, <2>2
    <2>3. ASSUME NEW e \in d.made, IsEntry(e), e.name = n, Found(d.rows, e.basedOn),
                 t[n] = [d.rows[n] EXCEPT !.basedOn = e.basedOn]
          PROVE  /\ IsRow(t[n]) /\ t[n].content = d.rows[n].content /\ t[n].stage = d.rows[n].stage
                 /\ t[n].versions = d.rows[n].versions
                 /\ Found(d.rows, t[n].basedOn) /\ n \notin DOMAIN rows[k]
      <3>1. e.basedOn \in Origins \cup {None} /\ n \notin DOMAIN rows[k]
        BY <1>0, <2>3, EntryFacts
      <3>2. /\ IsRow(t[n]) /\ t[n].basedOn = e.basedOn /\ t[n].content = d.rows[n].content
            /\ t[n].stage = d.rows[n].stage /\ t[n].versions = d.rows[n].versions
        BY <2>1, <2>3, <3>1, RebasedFacts
      <3> QED
        BY <2>3, <3>1, <3>2
    <2> QED
      BY <1>2, <2>2, <2>3
  <1>4. IsTable(t)
    BY <1>0, <1>1, <1>3 DEF IsTable
  <1>5. ASSUME NEW n \in DOMAIN d.rows PROVE IsProd(t[n]) <=> IsProd(d.rows[n])
    BY <1>3 DEF IsProd
  <1>6. ASSUME NEW n \in DOMAIN rows[k]
        PROVE  /\ n \in DOMAIN d.rows /\ d.rows[n].stage = rows[k][n].stage
               /\ d.rows[n].versions = rows[k][n].versions /\ d.rows[n].basedOn = rows[k][n].basedOn
    <2>1. IsRow(rows[k][n])
      BY FileFacts DEF IsTable
    <2>2. CASE d.rows[n] = rows[k][n]
      BY <1>0, <2>2
    <2>3. CASE \E e : d.rows[n] = Overwritten(rows[k][n], e)
      BY <1>0, <2>1, <2>3, OverwrittenFacts
    <2> QED
      BY <2>2, <2>3 DEF Walked, Kept
  <1>7. ASSUME NEW n \in DOMAIN d.rows
        PROVE  /\ IsProd(d.rows[n]) <=> d.rows[n].versions # <<>>
               /\ d.rows[n].basedOn # None => Found(d.rows, d.rows[n].basedOn)
    <2>1. CASE n \in DOMAIN rows[k]
      BY <1>6, <2>1 DEF IsLinked, IsProd, Found
    <2>2. CASE n \notin DOMAIN rows[k]
      BY <1>6, <2>2 DEF Walked, NewOnes, IsProd, Found
    <2> QED
      BY <2>1, <2>2
  <1>8. IsLinked(t)
    <2> SUFFICES ASSUME NEW n \in DOMAIN d.rows
                 PROVE  /\ IsProd(t[n]) <=> t[n].versions # <<>>
                        /\ t[n].basedOn # None => /\ t[n].basedOn.name \in DOMAIN t
                                                  /\ IsProd(t[t[n].basedOn.name])
      BY <1>1 DEF IsLinked
    <2>1. IsProd(t[n]) <=> t[n].versions # <<>>
      BY <1>3, <1>5, <1>7
    <2>2. t[n].basedOn # None => Found(d.rows, t[n].basedOn)
      BY <1>3, <1>7
    <2> QED
      BY <1>1, <1>5, <2>1, <2>2 DEF Found
  <1> QED
    BY <1>0, <1>1, <1>3, <1>4, <1>8 DEF t

-----------------------------------------------------------------------------
(* The names of a table, in their order.                                   *)

LEMMA BeforeMeans ==
  ASSUME NEW m \in Names, NEW n \in Names
  PROVE  /\ Len(m) \in Nat /\ Len(n) \in Nat
         /\ \A i \in 1..Len(m) : m[i] \in Nat
         /\ Before(m, n) <=>
              \/ Len(m) < Len(n) /\ \A j \in 1..Len(m) : m[j] = n[j]
              \/ \E i \in 1..Len(m) : /\ i <= Len(n) /\ m[i] < n[i]
                                      /\ \A j \in 1..(i - 1) : m[j] = n[j]
  <1>1. /\ Len(m) \in Nat /\ DOMAIN m = 1..Len(m) /\ \A i \in 1..Len(m) : m[i] \in Nat
        /\ Len(n) \in Nat /\ DOMAIN n = 1..Len(n) /\ \A i \in 1..Len(n) : n[i] \in Nat
    BY LenProperties, ElementOfSeq DEF Names
  <1>2. ASSUME Len(m) < Len(n)
        PROVE  SubSeq(n, 1, Len(m)) = m <=> \A j \in 1..Len(m) : m[j] = n[j]
    <2> DEFINE p == SubSeq(n, 1, Len(m))
    <2>1. /\ Len(p) = Len(m) /\ \A j \in 1..Len(m) : p[j] = n[j]
          /\ p \in Seq(Nat)
      <3>1. n \in Seq(Nat) /\ 1 \in 1..(Len(n) + 1) /\ Len(m) \in 0..Len(n)
        BY <1>1, <1>2 DEF Names
      <3> QED
        BY <1>1, <3>1, SubSeqProperties
    <2>2. m \in Seq(Nat)
      BY DEF Names
    <2> HIDE DEF p
    <2> QED
      BY <2>1, <2>2, SeqEqual
  <1>3. DOMAIN m \cap DOMAIN n = {i \in 1..Len(m) : i <= Len(n)}
    BY <1>1
  <1> QED
    BY <1>1, <1>2, <1>3 DEF Before

LEMMA BeforeIsStrict ==
  ASSUME NEW m \in Names, NEW n \in Names, Before(m, n)
  PROVE  m # n
  BY BeforeMeans

LEMMA BeforeIsTotal ==
  ASSUME NEW m \in Names, NEW n \in Names, m # n
  PROVE  Before(m, n) \/ Before(n, m)
  <1> DEFINE apart == {i \in 1..Len(m) : i <= Len(n) /\ m[i] # n[i]}
  <1>1. /\ Len(m) \in Nat /\ Len(n) \in Nat
        /\ \A i \in 1..Len(m) : m[i] \in Nat
        /\ \A i \in 1..Len(n) : n[i] \in Nat
    BY BeforeMeans
  <1>2. CASE apart = {}
    <2>1. \A j \in 1..Len(m) : j <= Len(n) => m[j] = n[j]
      BY <1>2
    <2>2. CASE Len(m) = Len(n)
      <3>1. \A j \in 1..Len(m) : m[j] = n[j]
        BY <1>1, <2>1, <2>2
      <3>2. m \in Seq(Nat) /\ n \in Seq(Nat)
        BY DEF Names
      <3>3. m = n
        BY <2>2, <3>1, <3>2, SeqEqual
      <3> QED
        BY <3>3
    <2>3. CASE Len(m) < Len(n)
      <3>1. \A j \in 1..Len(m) : m[j] = n[j]
        BY <1>1, <2>1, <2>3
      <3> QED
        BY <2>3, <3>1, BeforeMeans
    <2>4. CASE Len(n) < Len(m)
      <3>1. \A j \in 1..Len(n) : n[j] = m[j]
        BY <1>1, <2>1, <2>4
      <3> QED
        BY <2>4, <3>1, BeforeMeans
    <2> QED
      BY <1>1, <2>2, <2>3, <2>4
  <1>3. CASE apart # {}
    <2>1. apart \subseteq Nat
      OBVIOUS
    <2>2. PICK i \in apart : \A j \in apart : i <= j
      <3> HIDE DEF apart
      <3> QED
        BY <1>3, <2>1, HasLeast
    <2>3. i \in 1..Len(m) /\ i <= Len(n) /\ i \in 1..Len(n) /\ i <= Len(m) /\ m[i] # n[i]
      BY <1>1, <2>2
    <2>4. ASSUME NEW j \in 1..(i - 1) PROVE m[j] = n[j] /\ n[j] = m[j]
      <3>1. j \in 1..Len(m) /\ j <= Len(n) /\ ~(i <= j)
        BY <1>1, <2>3
      <3> QED
        BY <2>2, <3>1
    <2>5. m[i] \in Nat /\ n[i] \in Nat
      BY <1>1, <2>3
    <2>6. CASE m[i] < n[i]
      BY <2>3, <2>4, <2>6, BeforeMeans
    <2>7. CASE n[i] < m[i]
      BY <2>3, <2>4, <2>7, BeforeMeans
    <2> QED
      BY <2>3, <2>5, <2>6, <2>7
  <1> QED
    BY <1>2, <1>3

LEMMA BeforeIsTransitive ==
  ASSUME NEW l \in Names, NEW m \in Names, NEW n \in Names, Before(l, m), Before(m, n)
  PROVE  Before(l, n)
  <1> DEFINE Shorter(a, b) == Len(a) < Len(b) /\ \A j \in 1..Len(a) : a[j] = b[j]
             Less(i, a, b) == /\ i \in 1..Len(a) /\ i <= Len(b) /\ a[i] < b[i]
                              /\ \A j \in 1..(i - 1) : a[j] = b[j]
  <1>1. /\ Len(l) \in Nat /\ Len(m) \in Nat /\ Len(n) \in Nat
        /\ \A i \in 1..Len(l) : l[i] \in Nat
        /\ \A i \in 1..Len(m) : m[i] \in Nat
        /\ \A i \in 1..Len(n) : n[i] \in Nat
    BY BeforeMeans
  <1>2. Shorter(l, m) \/ \E i \in 1..Len(l) : Less(i, l, m)
    BY BeforeMeans
  <1>3. Shorter(m, n) \/ \E i \in 1..Len(m) : Less(i, m, n)
    BY BeforeMeans
  <1>4. Shorter(l, n) \/ (\E i \in 1..Len(l) : Less(i, l, n)) => Before(l, n)
    BY BeforeMeans
  <1>5. CASE Shorter(l, m) /\ Shorter(m, n)
    <2>1. Shorter(l, n)
      BY <1>1, <1>5
    <2> QED
      BY <1>4, <2>1
  <1>6. ASSUME Shorter(l, m), NEW i \in 1..Len(m), Less(i, m, n) PROVE Before(l, n)
    <2>1. CASE i <= Len(l)
      <3>1. i \in 1..Len(l) /\ Less(i, l, n)
        BY <1>1, <1>6, <2>1
      <3> QED
        BY <1>4, <3>1
    <2>2. CASE ~(i <= Len(l))
      <3>1. Shorter(l, n)
        BY <1>1, <1>6, <2>2
      <3> QED
        BY <1>4, <3>1
    <2> QED
      BY <2>1, <2>2
  <1>7. ASSUME Shorter(m, n), NEW i \in 1..Len(l), Less(i, l, m) PROVE Before(l, n)
    <2>1. Less(i, l, n)
      BY <1>1, <1>7
    <2> QED
      BY <1>4, <2>1
  <1>8. ASSUME NEW i \in 1..Len(l), Less(i, l, m), NEW h \in 1..Len(m), Less(h, m, n)
        PROVE  Before(l, n)
    <2>1. CASE i <= h
      <3>1. Less(i, l, n)
        <4>1. i <= Len(n) /\ l[i] \in Nat /\ m[i] \in Nat /\ n[i] \in Nat
          BY <1>1, <1>8, <2>1
        <4>2. m[i] <= n[i]
          <5>1. i = h \/ i \in 1..(h - 1)
            BY <1>1, <2>1
          <5> QED
            BY <1>8, <4>1, <5>1
        <4>3. l[i] < m[i]
          BY <1>8
        <4>4. l[i] < n[i]
          BY <4>1, <4>2, <4>3
        <4>5. \A j \in 1..(i - 1) : l[j] = n[j]
          <5>1. \A j \in 1..(i - 1) : j \in 1..(h - 1)
            BY <1>1, <2>1
          <5> QED
            BY <1>8, <5>1
        <4> QED
          BY <4>1, <4>4, <4>5
      <3> QED
        BY <1>4, <3>1
    <2>2. CASE ~(i <= h)
      <3>1. h \in 1..Len(l) /\ Less(h, l, n)
        <4>1. h \in 1..(i - 1) /\ h \in 1..Len(l)
          BY <1>1, <2>2
        <4>2. l[h] < n[h]
          BY <1>8, <4>1
        <4>3. \A j \in 1..(h - 1) : l[j] = n[j]
          <5>1. \A j \in 1..(h - 1) : j \in 1..(i - 1)
            BY <1>1, <4>1
          <5> QED
            BY <1>8, <5>1
        <4> QED
          BY <1>8, <4>1, <4>2, <4>3
      <3> QED
        BY <1>4, <3>1
    <2> QED
      BY <2>1, <2>2
  <1> QED
    BY <1>2, <1>3, <1>5, <1>6, <1>7, <1>8

Rank(names, n) == Cardinality({m \in names : Before(m, n)})

LEMMA RankGrows ==
  ASSUME NEW names, IsFiniteSet(names), names \subseteq Names,
         NEW m \in names, NEW n \in names, Before(m, n)
  PROVE  Rank(names, m) \in Nat /\ Rank(names, n) \in Nat /\ Rank(names, m) < Rank(names, n)
  <1> DEFINE under == {l \in names : Before(l, m)}
             below == {l \in names : Before(l, n)}
  <1>1. IsFiniteSet(below) /\ under \in SUBSET below
    <2>1. IsFiniteSet(below)
      BY FS_Subset
    <2>2. under \subseteq below
      BY BeforeIsTransitive
    <2> QED
      BY <2>1, <2>2
  <1>2. m \in below /\ m \notin under
    BY BeforeIsStrict
  <1>3. Rank(names, m) = Cardinality(under) /\ Rank(names, n) = Cardinality(below)
    BY DEF Rank
  <1> HIDE DEF under, below
  <1>4. /\ IsFiniteSet(under) /\ Cardinality(under) <= Cardinality(below)
        /\ Cardinality(below) = Cardinality(under) => below = under
    BY <1>1, FS_Subset
  <1>5. Cardinality(under) \in Nat /\ Cardinality(below) \in Nat
    BY <1>1, <1>4, FS_CardinalityType
  <1>6. Cardinality(below) # Cardinality(under)
    BY <1>2, <1>4
  <1> QED
    BY <1>3, <1>4, <1>5, <1>6

LEMMA RankBelow ==
  ASSUME NEW names, IsFiniteSet(names), names \subseteq Names, NEW n \in names
  PROVE  Rank(names, n) \in 0..(Cardinality(names) - 1) /\ Cardinality(names) \in Nat
  <1> DEFINE below == {l \in names : Before(l, n)}
  <1>1. below \in SUBSET names /\ n \notin below
    BY BeforeIsStrict
  <1>2. Rank(names, n) = Cardinality(below)
    BY DEF Rank
  <1> HIDE DEF below
  <1>3. /\ IsFiniteSet(below) /\ Cardinality(below) <= Cardinality(names)
        /\ Cardinality(names) = Cardinality(below) => names = below
    BY <1>1, FS_Subset
  <1>4. Cardinality(below) \in Nat /\ Cardinality(names) \in Nat
    BY <1>3, FS_CardinalityType
  <1>5. Cardinality(names) # Cardinality(below)
    BY <1>1, <1>3
  <1> QED
    BY <1>2, <1>3, <1>4, <1>5

LEMMA RankTells ==
  ASSUME NEW names, IsFiniteSet(names), names \subseteq Names,
         NEW m \in names, NEW n \in names, Rank(names, m) = Rank(names, n)
  PROVE  m = n
  <1> SUFFICES ASSUME m # n PROVE FALSE
    OBVIOUS
  <1>1. Before(m, n) \/ Before(n, m)
    BY BeforeIsTotal
  <1> QED
    BY <1>1, RankGrows

\* ByName has every name, once.
LEMMA ByNameFacts ==
  ASSUME NEW names, IsFiniteSet(names), names \subseteq Names
  PROVE  LET s == ByName(names) IN
         /\ Cardinality(names) \in Nat
         /\ DOMAIN s = 1..Cardinality(names) /\ s = [i \in 1..Cardinality(names) |-> s[i]]
         /\ \A i \in 1..Cardinality(names) : s[i] \in names
         /\ \A i, j \in 1..Cardinality(names) : s[i] = s[j] => i = j
         /\ \A n \in names : \E i \in 1..Cardinality(names) : s[i] = n
  <1> DEFINE N == Cardinality(names)
             T == 0..(N - 1)
             s == ByName(names)
             f == [n \in names |-> Rank(names, n)]
  <1>1. N \in Nat
    BY FS_CardinalityType
  <1>2. f \in [names -> T]
    BY RankBelow
  <1>3. \A m, n \in names : f[m] = f[n] => m = n
    BY RankTells
  <1>4. IsFiniteSet(T) /\ Cardinality(T) = N
    <2> HIDE DEF N
    <2>1. 0 \in Int /\ N - 1 \in Int
      BY <1>1
    <2>2. IsFiniteSet(T) /\ Cardinality(T) = IF 0 > N - 1 THEN 0 ELSE (N - 1) - 0 + 1
      BY <2>1, FS_Interval
    <2> QED
      BY <1>1, <2>2
  <1>5. \A x \in T : \E n \in names : f[n] = x
    <2> HIDE DEF f, T, N
    <2>1. f \in Injection(names, T)
      BY <1>2, <1>3 DEF Injection, IsInjective
    <2>2. f \in Surjection(names, T)
      BY <1>4, <2>1, FS_Injection DEF N
    <2> QED
      BY <2>2 DEF Surjection
  <1>6. DOMAIN s = 1..N /\ s = [i \in 1..N |-> s[i]]
    <2> DEFINE At(i) == CHOOSE n \in names : Cardinality({m \in names : Before(m, n)}) = i - 1
    <2>1. s = [i \in 1..N |-> At(i)]
      BY DEF ByName
    <2> HIDE DEF At, N, s
    <2> QED
      BY <2>1
  <1>7. ASSUME NEW i \in 1..N
        PROVE  s[i] \in names /\ Rank(names, s[i]) = i - 1
    <2>1. s[i] = CHOOSE n \in names : Rank(names, n) = i - 1
      BY DEF ByName, Rank
    <2>2. i - 1 \in T
      BY <1>1
    <2>3. \E n \in names : Rank(names, n) = i - 1
      BY <1>5, <2>2
    <2> QED
      BY <2>1, <2>3
  <1> HIDE DEF s
  <1>8. \A i, j \in 1..N : s[i] = s[j] => i = j
    <2> SUFFICES ASSUME NEW i \in 1..N, NEW j \in 1..N, s[i] = s[j] PROVE i = j
      OBVIOUS
    <2>1. i - 1 = j - 1
      BY <1>7
    <2> QED
      BY <1>1, <2>1
  <1>9. ASSUME NEW n \in names PROVE \E i \in 1..N : s[i] = n
    <2> DEFINE i == Rank(names, n) + 1
    <2>1. i \in 1..N /\ i - 1 = Rank(names, n)
      BY <1>1, RankBelow
    <2>2. s[i] \in names /\ Rank(names, s[i]) = Rank(names, n)
      BY <1>7, <2>1
    <2>3. s[i] = n
      BY <2>2, RankTells
    <2> QED
      BY <2>1, <2>3
  <1> QED
    BY <1>1, <1>6, <1>7, <1>8, <1>9 DEF s

\* The file has an entry for every row, and one only.
LEMMA BuiltFacts ==
  ASSUME NEW here, IsShelf(here)
  PROVE  /\ IsFile(Built(here))
         /\ \A k \in Kinds :
              /\ \A i \in DOMAIN Built(here)[k] : LET e == Built(here)[k][i] IN
                   e.name \in DOMAIN here[k] /\ e = Entry(e.name, here[k][e.name])
              /\ \A n \in DOMAIN here[k] : \E i \in DOMAIN Built(here)[k] :
                   Built(here)[k][i].name = n
  <1> DEFINE b == Built(here)
  <1>1. b = [k \in Kinds |-> b[k]]
    BY DEF Built
  <1>2. ASSUME NEW k \in Kinds
        PROVE  /\ IsSeq(b[k])
               /\ \A i \in DOMAIN b[k] : /\ IsEntry(b[k][i]) /\ b[k][i].name \in DOMAIN here[k]
                                         /\ b[k][i] = Entry(b[k][i].name, here[k][b[k][i].name])
               /\ \A i, j \in DOMAIN b[k] : b[k][i].name = b[k][j].name => i = j
               /\ \A n \in DOMAIN here[k] : \E i \in DOMAIN b[k] : b[k][i].name = n
    <2> DEFINE names == DOMAIN here[k]
               N == Cardinality(names)
               s == ByName(names)
    <2>1. IsFiniteSet(names) /\ names \subseteq Names /\ \A n \in names : IsRow(here[k][n])
      BY DEF IsShelf, IsTable
    <2> HIDE DEF names
    <2>2. /\ N \in Nat /\ DOMAIN s = 1..N /\ \A i \in 1..N : s[i] \in names
          /\ \A i, j \in 1..N : s[i] = s[j] => i = j
          /\ \A n \in names : \E i \in 1..N : s[i] = n
      BY <2>1, ByNameFacts
    <2>3. b[k] = [i \in DOMAIN s |-> Entry(s[i], here[k][s[i]])]
      BY DEF Built, names
    <2> HIDE DEF N, s, b
    <2>4. /\ DOMAIN b[k] = 1..N /\ b[k] = [i \in 1..N |-> b[k][i]]
          /\ \A i \in 1..N : b[k][i] = Entry(s[i], here[k][s[i]])
      BY <2>2, <2>3
    <2>5. ASSUME NEW i \in 1..N
          PROVE  /\ IsEntry(b[k][i]) /\ b[k][i].name = s[i]
                 /\ b[k][i] = Entry(s[i], here[k][s[i]])
      <3>1. s[i] \in Names /\ IsRow(here[k][s[i]])
        BY <2>1, <2>2
      <3> QED
        BY <2>4, <3>1, EntryType
    <2>6. IsSeq(b[k])
      BY <2>2, <2>4, IsOfItems
    <2>7. \A i \in DOMAIN b[k] : /\ IsEntry(b[k][i]) /\ b[k][i].name \in DOMAIN here[k]
                                 /\ b[k][i] = Entry(b[k][i].name, here[k][b[k][i].name])
      BY <2>2, <2>4, <2>5 DEF names
    <2>8. \A i, j \in DOMAIN b[k] : b[k][i].name = b[k][j].name => i = j
      BY <2>2, <2>4, <2>5
    <2>9. \A n \in DOMAIN here[k] : \E i \in DOMAIN b[k] : b[k][i].name = n
      BY <2>2, <2>4, <2>5 DEF names
    <2> QED
      BY <2>6, <2>7, <2>8, <2>9
  <1> HIDE DEF b
  <1>3. IsFile(b)
    BY <1>1, <1>2 DEF IsFile
  <1> QED
    BY <1>2, <1>3 DEF b

-----------------------------------------------------------------------------
(* What is always true.                                                    *)

Sound(here) == \A k \in Kinds : IsLinked(here[k])

IInv == TypeOK /\ Sound(rows) /\ (shelf # None => Sound(shelf))

\* An import writes nothing, or all that the walks through both kinds come to.
LEMMA ImportFacts ==
  ASSUME IInv, Import
  PROVE  \/ rows' = rows /\ answer' \in {"refused", "failed"} /\ page' = page
         \/ /\ ~Refused /\ answer' = "done" /\ page' = NoPage
            /\ rows' = [k \in Kinds |-> rows'[k]]
            /\ \A k \in Kinds : /\ Walked(k, Len(page.file[k]), Carry(k))
                                /\ Carry(k).end = "done"
                                /\ rows'[k] = Linked(rows[k], Carry(k))
  <1> DEFINE done == [k \in Kinds |-> Carry(k)]
  <1>1. CASE Refused
    <2>1. rows' = rows /\ page' = page /\ answer' = "refused"
      BY <1>1 DEF Import
    <2> QED
      BY <2>1
  <1>2. CASE ~Refused
    <2>1. /\ answer' = End(done) /\ rows' = Commits(done)
          /\ page' = IF End(done) = "done" THEN NoPage ELSE page
      BY <1>2 DEF Import
    <2>2. \A k \in Kinds : done[k] = Carry(k)
      OBVIOUS
    <2> HIDE DEF done
    <2>3. \A k \in Kinds : Walked(k, Len(page.file[k]), Carry(k))
      BY WalkedToTheEnd DEF IInv, Sound
    <2>4. \A k \in Kinds : Carry(k).end \in {"done", "refused", "failed"}
      BY <2>3 DEF Walked, Shaped
    <2>5. End(done) \in {"done", "refused", "failed"}
      BY <2>2, <2>4 DEF End, Kinds
    <2>6. CASE End(done) = "done"
      <3>1. \A k \in Kinds : Carry(k).end = "done"
        BY <2>2, <2>6 DEF End, Kinds
      <3>2. rows' = [k \in Kinds |-> Linked(rows[k], done[k])]
        BY <2>1, <2>6 DEF Commits
      <3> QED
        BY <1>2, <2>1, <2>2, <2>3, <2>6, <3>1, <3>2
    <2>7. CASE End(done) # "done"
      BY <2>1, <2>5, <2>7 DEF Commits
    <2> QED
      BY <2>6, <2>7
  <1> QED
    BY <1>1, <1>2

\* A refused or failed import leaves every row as it was; a done one has brought
\* in every entry the user decided on, under its name or a copy's.
LEMMA ImportIsAllOrNothing ==
  ASSUME IInv, Import
  PROVE  IF answer' # "done" THEN rows' = rows
         ELSE \A k \in Kinds : \A entry \in ToSet(page.file[k]) :
                Decision(k, entry) # "skip" =>
                  \E n \in DOMAIN rows'[k] :
                    /\ n = entry.name \/ Front(n) = entry.name
                    /\ rows'[k][n].content = entry.content
  <1>1. CASE answer' # "done"
    BY <1>1, ImportFacts
  <1>2. CASE answer' = "done"
    <2> SUFFICES ASSUME NEW k \in Kinds, NEW entry \in ToSet(page.file[k]),
                        Decision(k, entry) # "skip"
                 PROVE  \E n \in DOMAIN rows'[k] :
                          /\ n = entry.name \/ Front(n) = entry.name
                          /\ rows'[k][n].content = entry.content
      BY <1>2
    <2> DEFINE d == Carry(k)
               t == Linked(rows[k], d)
    <2>1. Walked(k, Len(page.file[k]), d) /\ d.end = "done" /\ rows'[k] = t
      BY <1>2, ImportFacts
    <2>2. DOMAIN t = DOMAIN d.rows /\ \A n \in DOMAIN t : t[n].content = d.rows[n].content
      <3> HIDE DEF d
      <3> QED
        BY <2>1, LinkedFacts DEF IInv, Sound
    <2>3. PICK j \in 1..Len(page.file[k]) : entry = EntryAt(k, j)
      <3>1. TypeOK
        BY DEF IInv
      <3>2. ToSet(page.file[k]) = {EntryAt(k, i) : i \in 1..Len(page.file[k])}
        BY <3>1, FileFacts
      <3> QED
        BY <3>2
    <2> HIDE DEF d, t
    <2>4. PICK n : BroughtAs(k, d, EntryAt(k, j), n)
      BY <2>1, <2>3 DEF Walked, Brought
    <2> QED
      BY <2>1, <2>2, <2>3, <2>4 DEF BroughtAs
  <1> QED
    BY <1>1, <1>2

\* A row that was here is there, and as it was unless it was to be overwritten
\* and may be.
LEMMA ImportLeavesUnasked ==
  ASSUME IInv, Import, NEW k \in Kinds, NEW n \in DOMAIN rows[k]
  PROVE  /\ n \in DOMAIN rows'[k]
         /\ rows'[k][n] # rows[k][n] =>
              /\ n \in DOMAIN page.decisions[k] /\ page.decisions[k][n] = "overwrite"
              /\ ~IsProd(rows[k][n]) /\ ~(k = "template" /\ n \in open)
  <1>1. CASE rows' = rows
    BY <1>1
  <1>2. CASE rows' # rows
    <2> DEFINE d == Carry(k)
               t == Linked(rows[k], d)
    <2>1. Walked(k, Len(page.file[k]), d) /\ rows'[k] = t /\ ~Refused
      BY <1>2, ImportFacts
    <2>2. n \in DOMAIN t /\ t[n] = d.rows[n]
      <3> HIDE DEF d
      <3> QED
        BY <2>1, LinkedFacts DEF IInv, Sound
    <2> HIDE DEF d, t
    <2>3. CASE d.rows[n] = rows[k][n]
      BY <2>1, <2>2, <2>3
    <2>4. ASSUME NEW j \in 1..Len(page.file[k]), EntryAt(k, j).name = n,
                 Decision(k, EntryAt(k, j)) = "overwrite"
          PROVE  /\ n \in DOMAIN page.decisions[k] /\ page.decisions[k][n] = "overwrite"
                 /\ ~IsProd(rows[k][n]) /\ ~(k = "template" /\ n \in open)
      <3>1. n \in DOMAIN page.decisions[k] /\ page.decisions[k][n] = "overwrite"
        BY <2>4 DEF Decision
      <3>2. EntryAt(k, j) \in ToSet(page.file[k])
        <4>1. TypeOK
          BY DEF IInv
        <4>2. ToSet(page.file[k]) = {EntryAt(k, i) : i \in 1..Len(page.file[k])}
          BY <4>1, FileFacts
        <4> QED
          BY <4>2
      <3>3. MayOverwrite(k, n)
        BY <2>1, <2>4, <3>2 DEF Refused
      <3> QED
        BY <3>1, <3>3 DEF MayOverwrite
    <2> QED
      BY <2>1, <2>2, <2>3, <2>4 DEF Walked, Kept
  <1> QED
    BY <1>1, <1>2

-----------------------------------------------------------------------------
(* The steps that change one row.                                          *)

LEMMA TypeFacts ==
  ASSUME IInv, NEW k \in Kinds
  PROVE  /\ IsTable(rows[k]) /\ IsLinked(rows[k]) /\ IsFiniteSet(DOMAIN rows[k])
         /\ DOMAIN rows[k] \subseteq Names
         /\ \A n \in DOMAIN rows[k] :
              /\ IsRow(rows[k][n]) /\ rows[k][n].stage \in Stages
              /\ IsSeq(rows[k][n].versions) /\ rows[k][n].basedOn \in Origins \cup {None}
              /\ rows[k][n] = Row(rows[k][n].stage, rows[k][n].content, rows[k][n].versions,
                                  rows[k][n].basedOn, rows[k][n].category)
              /\ IsProd(rows[k][n]) <=> rows[k][n].versions # <<>>
              /\ rows[k][n].basedOn # None =>
                   /\ rows[k][n].basedOn.name \in DOMAIN rows[k]
                   /\ IsProd(rows[k][rows[k][n].basedOn.name])
  <1>1. IsTable(rows[k]) /\ IsLinked(rows[k])
    BY DEF IInv, TypeOK, IsShelf, Sound
  <1> QED
    BY <1>1, RowFacts DEF IsTable, IsLinked

LEMMA SpendType ==
  ASSUME budget \in [BoundedEvents -> Nat], NEW event \in BoundedEvents, Spend(event)
  PROVE  budget' \in [BoundedEvents -> Nat]
  <1>1. budget[event] \in Nat /\ budget[event] > 0
    BY DEF Spend
  <1>2. budget[event] - 1 \in Nat
    BY <1>1
  <1>3. budget' = [budget EXCEPT ![event] = budget[event] - 1]
    BY DEF Spend
  <1> QED
    BY <1>2, <1>3

LEMMA ChangedKeeps ==
  ASSUME IInv, NEW k \in Kinds, NEW table, IsTable(table), IsLinked(table), Changed(k, table),
         open' \subseteq Names
  PROVE  IInv'
  <1>1. /\ rows' = [rows EXCEPT ![k] = table] /\ budget' \in [BoundedEvents -> Nat]
        /\ file' = file /\ page' = page /\ shelf' = shelf /\ answer' = answer
    BY SpendType DEF Changed, IInv, TypeOK, BoundedEvents
  <1>2. rows = [l \in Kinds |-> rows[l]] /\ \A l \in Kinds : IsTable(rows[l]) /\ IsLinked(rows[l])
    BY DEF IInv, TypeOK, IsShelf, Sound
  <1>3. rows' = [l \in Kinds |-> rows'[l]] /\ \A l \in Kinds : rows'[l] = IF l = k THEN table ELSE rows[l]
    BY <1>1, <1>2
  <1>4. IsShelf(rows') /\ Sound(rows')
    BY <1>2, <1>3 DEF IsShelf, Sound
  <1> QED
    BY <1>1, <1>4 DEF IInv, TypeOK

LEMMA LinkedWith ==
  ASSUME NEW table, IsLinked(table), NEW n, NEW q,
         IsProd(q) <=> q.versions # <<>>,
         q.basedOn # None => q.basedOn.name \in DOMAIN table /\ IsProd(table[q.basedOn.name]),
         n \in DOMAIN table /\ IsProd(table[n]) => IsProd(q)
  PROVE  IsLinked(With(table, n, q))
  <1> DEFINE t == With(table, n, q)
  <1>1. /\ DOMAIN t = DOMAIN table \cup {n} /\ t[n] = q
        /\ \A m \in DOMAIN table : m # n => t[m] = table[m]
    BY DEF With
  <1> HIDE DEF t
  <1>2. ASSUME NEW o, o \in DOMAIN table, IsProd(table[o]) PROVE o \in DOMAIN t /\ IsProd(t[o])
    BY <1>1, <1>2
  <1> SUFFICES ASSUME NEW m \in DOMAIN t
               PROVE  /\ IsProd(t[m]) <=> t[m].versions # <<>>
                      /\ t[m].basedOn # None => /\ t[m].basedOn.name \in DOMAIN t
                                                /\ IsProd(t[t[m].basedOn.name])
    BY DEF IsLinked, t
  <1>3. CASE m = n
    BY <1>1, <1>2, <1>3
  <1>4. CASE m # n
    BY <1>1, <1>2, <1>4 DEF IsLinked
  <1> QED
    BY <1>3, <1>4

\* A row changed or added.
LEMMA RowChanged ==
  ASSUME IInv, NEW k \in Kinds, NEW n \in Names, NEW stage \in Stages, NEW content,
         NEW versions, IsSeq(versions), NEW origin \in Origins \cup {None}, NEW category,
         Changed(k, With(rows[k], n, Row(stage, content, versions, origin, category))),
         open' \subseteq Names,
         stage = "prod" <=> versions # <<>>,
         origin # None => origin.name \in DOMAIN rows[k] /\ IsProd(rows[k][origin.name]),
         n \in DOMAIN rows[k] /\ IsProd(rows[k][n]) => stage = "prod"
  PROVE  IInv'
  <1> DEFINE q == Row(stage, content, versions, origin, category)
             t == With(rows[k], n, q)
  <1>1. IsRow(q) /\ q.stage = stage /\ q.versions = versions /\ q.basedOn = origin
    BY RowType
  <1> HIDE DEF q
  <1>2. IsTable(t)
    BY <1>1, TypeFacts, WithType
  <1>3. IsLinked(t)
    <2>1. /\ IsProd(q) <=> q.versions # <<>>
          /\ q.basedOn # None => q.basedOn.name \in DOMAIN rows[k] /\ IsProd(rows[k][q.basedOn.name])
          /\ n \in DOMAIN rows[k] /\ IsProd(rows[k][n]) => IsProd(q)
      BY <1>1 DEF IsProd
    <2> QED
      BY <2>1, TypeFacts, LinkedWith
  <1>4. Changed(k, t)
    BY DEF q
  <1> HIDE DEF t
  <1> QED
    BY <1>2, <1>3, <1>4, ChangedKeeps

LEMMA ExceptIsWith ==
  ASSUME NEW table, table = [m \in DOMAIN table |-> table[m]], NEW n \in DOMAIN table, NEW q
  PROVE  [table EXCEPT ![n] = q] = With(table, n, q)
  BY DEF With

LEMMA EditStep ==
  ASSUME IInv, NEW k \in Kinds, NEW n, Edit(k, n)
  PROVE  IInv'
  <1> DEFINE r == rows[k][n]
  <1>1. PICK c : Changed(k, [rows[k] EXCEPT ![n].content = c])
    BY DEF Edit
  <1>2. n \in DOMAIN rows[k] /\ open' = open
    BY DEF Edit
  <1>3. [r EXCEPT !.content = c] = Row(r.stage, c, r.versions, r.basedOn, r.category)
    <2>1. r = Row(r.stage, r.content, r.versions, r.basedOn, r.category)
      BY <1>2, TypeFacts
    <2> HIDE DEF r
    <2> QED
      BY <2>1, RowWithContent
  <1>4. [rows[k] EXCEPT ![n].content = c] = With(rows[k], n, [r EXCEPT !.content = c])
    <2>1. rows[k] = [m \in DOMAIN rows[k] |-> rows[k][m]]
      BY TypeFacts DEF IsTable
    <2>2. [rows[k] EXCEPT ![n].content = c] = [rows[k] EXCEPT ![n] = [r EXCEPT !.content = c]]
      OBVIOUS
    <2> QED
      BY <1>2, <2>1, <2>2, ExceptIsWith
  <1>5. /\ n \in Names /\ r.stage \in Stages /\ IsSeq(r.versions)
        /\ r.basedOn \in Origins \cup {None} /\ open' \subseteq Names
        /\ r.stage = "prod" <=> r.versions # <<>>
        /\ r.basedOn # None => r.basedOn.name \in DOMAIN rows[k] /\ IsProd(rows[k][r.basedOn.name])
        /\ IsProd(rows[k][n]) => r.stage = "prod"
    BY <1>2, TypeFacts DEF IInv, TypeOK, IsProd
  <1>6. Changed(k, With(rows[k], n, Row(r.stage, c, r.versions, r.basedOn, r.category)))
    BY <1>1, <1>3, <1>4
  <1> HIDE DEF r
  <1> QED
    BY <1>5, <1>6, RowChanged

LEMMA PromoteStep ==
  ASSUME IInv, NEW k \in Kinds, NEW n, Promote(k, n)
  PROVE  IInv'
  <1> DEFINE r == rows[k][n]
  <1>1. n \in DOMAIN rows[k] /\ n \in Names
    BY TypeFacts DEF Promote
  <1>2. open' \subseteq Names
    BY DEF Promote, IInv, TypeOK
  <1>3. /\ r.stage \in Stages /\ IsSeq(r.versions) /\ r.basedOn \in Origins \cup {None}
        /\ r.stage = "prod" <=> r.versions # <<>>
        /\ r.basedOn # None => r.basedOn.name \in DOMAIN rows[k] /\ IsProd(rows[k][r.basedOn.name])
        /\ IsProd(rows[k][n]) => r.stage = "prod"
        /\ r = Row(r.stage, r.content, r.versions, r.basedOn, r.category)
        /\ rows[k] = [m \in DOMAIN rows[k] |-> rows[k][m]]
    BY <1>1, TypeFacts DEF IsProd, IsTable
  <1>4. CASE r.stage = "test" /\ Changed(k, [rows[k] EXCEPT ![n].stage = "dev"])
    <2>2. [rows[k] EXCEPT ![n].stage = "dev"] = [rows[k] EXCEPT ![n] = [r EXCEPT !.stage = "dev"]]
      OBVIOUS
    <2> DEFINE content == r.content
               versions == r.versions
               origin == r.basedOn
               category == r.category
    <2>3. [r EXCEPT !.stage = "dev"] = Row("dev", content, versions, origin, category)
      <3> HIDE DEF r
      <3> QED
        BY <1>3, RowWithStage
    <2> HIDE DEF content, versions, origin, category
    <2>4. Changed(k, With(rows[k], n, Row("dev", content, versions, origin, category)))
      BY <1>1, <1>3, <1>4, <2>2, <2>3, ExceptIsWith
    <2>5. "dev" \in Stages
      BY DEF Stages
    <2>6. /\ IsSeq(versions) /\ origin \in Origins \cup {None} /\ versions = <<>>
          /\ origin # None => origin.name \in DOMAIN rows[k] /\ IsProd(rows[k][origin.name])
          /\ ~IsProd(rows[k][n])
      BY <1>3, <1>4 DEF versions, origin, IsProd
    <2> HIDE DEF r
    <2> QED
      BY <1>1, <1>2, <2>4, <2>5, <2>6, RowChanged
  <1>5. CASE /\ r.stage = "dev"
             /\ Changed(k, [rows[k] EXCEPT ![n].stage = "prod", ![n].basedOn = None,
                                           ![n].versions = <<rows[k][n].content>>])
    <2> DEFINE content == r.content
               category == r.category
               versions == <<content>>
               q == Row("prod", content, versions, None, category)
               t == [rows[k] EXCEPT ![n].stage = "prod", ![n].basedOn = None,
                                    ![n].versions = <<rows[k][n].content>>]
    <2>1. t[n] = q
      <3> DEFINE t1 == [rows[k] EXCEPT ![n].stage = "prod"]
                 t2 == [t1 EXCEPT ![n].basedOn = None]
                 t3 == [t2 EXCEPT ![n].versions = versions]
      <3>1. t = t3
        OBVIOUS
      <3>2. /\ n \in DOMAIN t1 /\ t1[n] = [r EXCEPT !.stage = "prod"]
        BY <1>1, <1>3
      <3>3. t1[n] = Row("prod", content, r.versions, r.basedOn, category)
        <4> HIDE DEF r, t1
        <4> QED
          BY <1>3, <3>2, RowWithStage
      <3> HIDE DEF t1, versions, content, category
      <3>4. n \in DOMAIN t2 /\ t2[n] = [t1[n] EXCEPT !.basedOn = None]
        BY <3>2
      <3>5. t2[n] = Row("prod", content, r.versions, None, category)
        <4> HIDE DEF r, t2
        <4> QED
          BY <3>3, <3>4, RowWithOrigin
      <3> HIDE DEF t2
      <3>6. t3[n] = [t2[n] EXCEPT !.versions = versions]
        BY <3>4
      <3>7. t3[n] = Row("prod", content, versions, None, category)
        <4> HIDE DEF r, t3
        <4> QED
          BY <3>5, <3>6, RowWithVersions
      <3> QED
        BY <3>1, <3>7
    <2>2. t = With(rows[k], n, q)
      <3>1. DOMAIN t = DOMAIN rows[k] /\ t = [m \in DOMAIN rows[k] |-> t[m]]
        BY <1>3
      <3>2. \A m \in DOMAIN rows[k] : m # n => t[m] = rows[k][m]
        BY <1>1, <1>3
      <3> HIDE DEF t, q
      <3> QED
        BY <1>1, <2>1, <3>1, <3>2 DEF With
    <2>3. "prod" \in Stages /\ IsSeq(versions) /\ versions # <<>>
      BY OneVersion DEF Stages
    <2>4. Changed(k, With(rows[k], n, Row("prod", content, versions, None, category)))
      BY <1>5, <2>2
    <2> HIDE DEF content, versions, category, r
    <2> QED
      BY <1>1, <1>2, <2>3, <2>4, RowChanged
  <1> QED
    BY <1>4, <1>5 DEF Promote

LEMMA PromoteIntoStep ==
  ASSUME IInv, NEW k \in Kinds, NEW n, NEW target, PromoteInto(k, n, target)
  PROVE  IInv'
  <1> DEFINE table == rows[k]
             content == table[n].content
             q == [table[target] EXCEPT !.content = content, !.versions = Append(@, content)]
             t == [m \in DOMAIN table \ {n} |-> IF m = target THEN q ELSE table[m]]
  <1>1. /\ n \in DOMAIN table /\ target \in DOMAIN table /\ table[n].stage = "dev"
        /\ IsProd(table[target]) /\ Changed(k, t)
    BY DEF PromoteInto
  <1>2. open' \subseteq Names
    BY DEF PromoteInto, IInv, TypeOK
  <1>3. /\ table[target].stage = "prod" /\ IsSeq(table[target].versions)
        /\ table[target].basedOn \in Origins \cup {None}
        /\ "prod" \in Stages
        /\ table[target] = Row("prod", table[target].content, table[target].versions,
                               table[target].basedOn, table[target].category)
    BY <1>1, TypeFacts DEF IsProd, Stages
  <1>4. /\ IsRow(q) /\ q.stage = "prod" /\ q.versions # <<>> /\ q.basedOn = table[target].basedOn
    <2> DEFINE v == Append(table[target].versions, content)
    <2>1. q = Row("prod", content, v, table[target].basedOn, table[target].category)
      <3> DEFINE p == [table[target] EXCEPT !.content = content]
      <3>1. q = [p EXCEPT !.versions = v]
        OBVIOUS
      <3>2. p = Row("prod", content, table[target].versions, table[target].basedOn,
                    table[target].category)
        <4> HIDE DEF content, table
        <4> QED
          BY <1>3, RowWithContent
      <3> HIDE DEF p, v, q, content, table
      <3> QED
        BY <3>1, <3>2, RowWithVersions
    <2>2. IsSeq(v) /\ v # <<>>
      BY <1>3, OneMore
    <2> HIDE DEF q, v, content, table
    <2> QED
      BY <1>3, <2>1, <2>2, RowType
  <1>5. DOMAIN t = DOMAIN table \ {n} /\ t = [m \in DOMAIN t |-> t[m]]
    OBVIOUS
  <1>6. \A m \in DOMAIN t : t[m] = IF m = target THEN q ELSE table[m]
    OBVIOUS
  <1> HIDE DEF q, t
  <1>7. n # target
    BY <1>1, <1>3
  <1>8. IsTable(t)
    <2>1. IsFiniteSet(DOMAIN t)
      BY <1>5, TypeFacts, FS_RemoveElement
    <2> QED
      BY <1>4, <1>5, <1>6, <2>1, TypeFacts DEF IsTable
  <1>9. ASSUME NEW o \in DOMAIN table, IsProd(table[o]) PROVE o \in DOMAIN t /\ IsProd(t[o])
    BY <1>1, <1>4, <1>5, <1>6, <1>9 DEF IsProd
  <1>10. IsLinked(t)
    <2> SUFFICES ASSUME NEW m \in DOMAIN t
                 PROVE  /\ IsProd(t[m]) <=> t[m].versions # <<>>
                        /\ t[m].basedOn # None => /\ t[m].basedOn.name \in DOMAIN t
                                                  /\ IsProd(t[t[m].basedOn.name])
      BY DEF IsLinked
    <2>1. t[m].basedOn = table[m].basedOn
      BY <1>4, <1>6
    <2>2. IsProd(t[m]) <=> t[m].versions # <<>>
      BY <1>4, <1>5, <1>6, TypeFacts DEF IsProd
    <2>3. t[m].basedOn # None => /\ t[m].basedOn.name \in DOMAIN table
                                 /\ IsProd(table[t[m].basedOn.name])
      BY <1>5, <2>1, TypeFacts
    <2> QED
      BY <1>9, <2>2, <2>3
  <1> QED
    BY <1>1, <1>2, <1>8, <1>10, ChangedKeeps

LEMMA CreateStep ==
  ASSUME IInv, NEW k \in Kinds, Create(k)
  PROVE  IInv'
  <1>1. PICK c : Changed(k, With(rows[k], NewName, Row("test", c, <<>>, None, None)))
    BY DEF Create
  <1>2. NewName \in Names /\ NewName \notin DOMAIN rows[k] /\ open' \subseteq Names
    BY ImportsAssumption DEF Create, IInv, TypeOK
  <1>3. "test" \in Stages /\ IsSeq(<<>>)
    BY NoVersions DEF Stages
  <1> QED
    BY <1>1, <1>2, <1>3, RowChanged

LEMMA CopyNameIsFree ==
  ASSUME IInv, NEW k \in Kinds, NEW n \in DOMAIN rows[k]
  PROVE  CopyName(k, n) \in Names /\ CopyName(k, n) \notin DOMAIN rows[k]
  <1> DEFINE taken == DOMAIN rows[k]
             N == Cardinality(taken) + 1
             origin == BasedOnFor(n, rows[k][n])
             stem == IF origin # None /\ origin.name \in taken /\ IsProd(rows[k][origin.name])
                     THEN origin.name ELSE n
             f == [i \in 1..N |-> stem \o <<0, i>>]
             Free(i) == /\ stem \o <<0, i>> \notin taken
                        /\ \A j \in 1..(i - 1) : stem \o <<0, j>> \in taken
             c == CHOOSE i \in 1..N : Free(i)
  <1>1. CopyName(k, n) = stem \o <<0, c>>
    BY DEF CopyName
  <1>2. IsFiniteSet(taken) /\ taken \subseteq Names /\ n \in taken
    BY TypeFacts
  <1>3. Cardinality(taken) \in Nat /\ N \in Nat
    BY <1>2, FS_CardinalityType
  <1>4. stem \in Names
    <2> HIDE DEF origin
    <2> QED
      BY <1>2
  <1> HIDE DEF stem, taken
  <1>5. ASSUME NEW i \in Nat
        PROVE  /\ stem \o <<0, i>> \in Names /\ (stem \o <<0, i>>)[Len(stem) + 2] = i
    <2>1. stem \in Seq(Nat) /\ <<0, i>> \in Seq(Nat) /\ Len(<<0, i>>) = 2 /\ <<0, i>>[2] = i
      BY <1>4 DEF Names
    <2>2. Len(stem) \in Nat
      BY <2>1, LenProperties
    <2>3. /\ stem \o <<0, i>> \in Seq(Nat)
          /\ \A j \in 1..(Len(stem) + 2) : (stem \o <<0, i>>)[j] =
               IF j <= Len(stem) THEN stem[j] ELSE <<0, i>>[j - Len(stem)]
      BY <2>1, ConcatProperties
    <2>4. Len(stem) + 2 \in 1..(Len(stem) + 2) /\ ~(Len(stem) + 2 <= Len(stem))
          /\ Len(stem) + 2 - Len(stem) = 2
      BY <2>2
    <2> QED
      BY <2>1, <2>3, <2>4 DEF Names
  <1>6. \A i, j \in 1..N : f[i] = f[j] => i = j
    BY <1>3, <1>5
  <1>7. \E i \in 1..N : f[i] \notin taken /\ \A j \in 1..(i - 1) : f[j] \in taken
    <2>1. f = [i \in 1..N |-> f[i]]
      OBVIOUS
    <2> HIDE DEF f
    <2> QED
      BY <1>2, <1>6, <2>1, OneIsFree
  <1>8. \E i \in 1..N : Free(i)
    <2>1. PICK i \in 1..N : f[i] \notin taken /\ \A j \in 1..(i - 1) : f[j] \in taken
      BY <1>7
    <2>2. \A j \in 1..(i - 1) : j \in 1..N
      BY <1>3
    <2> QED
      BY <2>1, <2>2
  <1>9. c \in 1..N /\ Free(c)
    <2> HIDE DEF Free, N
    <2> QED
      BY <1>8
  <1> HIDE DEF c
  <1>10. CopyName(k, n) \in Names /\ CopyName(k, n) \notin taken
    BY <1>1, <1>3, <1>5, <1>9
  <1> QED
    BY <1>10 DEF taken

LEMMA CopyStep ==
  ASSUME IInv, NEW k \in Kinds, NEW n, Copy(k, n)
  PROVE  IInv'
  <1> DEFINE row == rows[k][n]
             Sources == IF IsProd(row) THEN {Origin(n, v) : v \in DOMAIN row.versions}
                                       ELSE {row.basedOn}
             Made(c, origin) ==
               Changed(k, With(rows[k], CopyName(k, n), Row("test", c, <<>>, origin, row.category)))
  <1>1. n \in DOMAIN rows[k] /\ open' = open
    BY DEF Copy
  <1>2. \E c : \E origin \in Sources : Made(c, origin)
    <2>1. PICK c \in {row.content} \cup ToSet(row.versions) :
            \E origin \in IF IsProd(row)
                         THEN {Origin(n, v) : v \in {v \in DOMAIN row.versions : row.versions[v] = c}}
                         ELSE {row.basedOn} : Made(c, origin)
      BY DEF Copy
    <2> HIDE DEF Made
    <2> QED
      BY <2>1
  <1>3. PICK c, origin : origin \in Sources /\ Made(c, origin)
    <2> HIDE DEF Made, Sources
    <2> QED
      BY <1>2
  <1>4. CopyName(k, n) \in Names /\ CopyName(k, n) \notin DOMAIN rows[k]
    BY <1>1, CopyNameIsFree
  <1>5. /\ origin \in Origins \cup {None}
        /\ origin # None => origin.name \in DOMAIN rows[k] /\ IsProd(rows[k][origin.name])
    <2>1. CASE IsProd(row)
      <3>1. IsSeq(row.versions) /\ n \in Names
        BY <1>1, TypeFacts
      <3>2. DOMAIN row.versions \subseteq Nat
        BY <3>1, SeqFacts
      <3>3. PICK v \in DOMAIN row.versions : origin = Origin(n, v)
        BY <1>3, <2>1
      <3>4. origin \in Origins /\ origin.name = n
        BY <3>1, <3>2, <3>3 DEF Origin, Origins
      <3> QED
        BY <1>1, <2>1, <3>4
    <2>2. CASE ~IsProd(row)
      <3>1. origin = row.basedOn
        BY <1>3, <2>2
      <3> QED
        BY <1>1, <3>1, TypeFacts
    <2> QED
      BY <2>1, <2>2
  <1>6. "test" \in Stages /\ IsSeq(<<>>) /\ open' \subseteq Names
    BY <1>1, NoVersions DEF Stages, IInv, TypeOK
  <1> HIDE DEF row, Sources
  <1> QED
    BY <1>3, <1>4, <1>5, <1>6, RowChanged

LEMMA MakeListStep ==
  ASSUME IInv, NEW n, MakeList(n)
  PROVE  IInv'
  <1> DEFINE taken == DOMAIN rows["list"]
             Named(i) == <<0>> \o n \o [j \in 1..i |-> 0]
             names == {Named(i) : i \in 0..Cardinality(taken)}
             free == CHOOSE name \in names : name \notin taken
  <1>1. PICK list : Changed("list", With(rows["list"], free, Row("test", list, <<>>, None, None)))
    BY DEF MakeList
  <1>2. "list" \in Kinds /\ "template" \in Kinds
    BY DEF Kinds
  <1>3. n \in Names /\ IsFiniteSet(taken)
    BY <1>2, TypeFacts DEF MakeList
  <1>4. Cardinality(taken) \in Nat
    BY <1>3, FS_CardinalityType
  <1>5. ASSUME NEW i \in Nat PROVE Named(i) \in Names /\ Len(Named(i)) = 1 + Len(n) + i /\ Len(n) \in Nat
    <2> DEFINE zeros == [j \in 1..i |-> 0]
               start == <<0>> \o n
    <2>1. n \in Seq(Nat) /\ <<0>> \in Seq(Nat) /\ Len(<<0>>) = 1 /\ zeros \in Seq(Nat)
      BY <1>3 DEF Names
    <2>2. Len(zeros) = i
      BY <2>1
    <2> HIDE DEF zeros
    <2>3. start \in Seq(Nat) /\ Len(start) = 1 + Len(n)
      BY <2>1, ConcatProperties
    <2> HIDE DEF start
    <2>4. start \o zeros \in Seq(Nat) /\ Len(start \o zeros) = 1 + Len(n) + i
      <3>1. /\ start \o zeros \in Seq(Nat)
            /\ Len(start \o zeros) = Len(start) + Len(zeros)
        BY <2>1, <2>3, ConcatProperties
      <3> QED
        BY <2>2, <2>3, <3>1
    <2>5. Len(n) \in Nat
      BY <2>1, LenProperties
    <2> QED
      BY <2>4, <2>5 DEF Names, start, zeros
  <1> HIDE DEF Named
  <1>6. \E name \in names : name \notin taken
    <2> DEFINE N == Cardinality(taken) + 1
               f == [i \in 1..N |-> Named(i - 1)]
    <2>1. \A i \in 1..N : i - 1 \in Nat /\ i - 1 \in 0..Cardinality(taken)
      BY <1>4
    <2>2. \A i, j \in 1..N : f[i] = f[j] => i = j
      <3> SUFFICES ASSUME NEW i \in 1..N, NEW j \in 1..N, f[i] = f[j] PROVE i = j
        OBVIOUS
      <3>1. 1 + Len(n) + (i - 1) = 1 + Len(n) + (j - 1) /\ Len(n) \in Nat
        BY <1>5, <2>1
      <3> QED
        BY <1>4, <3>1
    <2>3. f = [i \in 1..N |-> f[i]] /\ \A i \in 1..N : f[i] \in names
      BY <2>1
    <2> HIDE DEF f, names, taken
    <2> QED
      BY <1>3, <2>2, <2>3, OneIsFree
  <1>7. free \notin taken /\ free \in names
    <2> HIDE DEF names, taken
    <2> QED
      BY <1>6
  <1>8. free \in Names
    <2> HIDE DEF free
    <2> QED
      BY <1>4, <1>5, <1>7
  <1>9. "test" \in Stages /\ IsSeq(<<>>) /\ open' \subseteq Names
    BY NoVersions DEF Stages, MakeList, IInv, TypeOK
  <1> HIDE DEF free
  <1> QED
    BY <1>1, <1>2, <1>7, <1>8, <1>9, RowChanged

LEMMA RenameStep ==
  ASSUME IInv, NEW k \in Kinds, NEW n, Rename(k, n)
  PROVE  IInv'
  <1> DEFINE table == rows[k]
             named(m) == IF m = NewName THEN n ELSE m
             t == [m \in (DOMAIN table \ {n}) \cup {NewName} |-> table[named(m)]]
  <1>1. n \in DOMAIN table /\ ~IsProd(table[n]) /\ NewName \notin DOMAIN table /\ Changed(k, t)
    BY DEF Rename
  <1>2. NewName \in Names
    BY ImportsAssumption
  <1>3. open' \subseteq Names
    BY <1>2 DEF Rename, IInv, TypeOK
  <1>4. DOMAIN t = (DOMAIN table \ {n}) \cup {NewName} /\ t = [m \in DOMAIN t |-> t[m]]
    OBVIOUS
  <1>5. t[NewName] = table[n] /\ \A m \in DOMAIN table \ {n} : t[m] = table[m]
    BY <1>1
  <1> HIDE DEF t
  <1>6. IsTable(t)
    <2>1. IsFiniteSet(DOMAIN t) /\ DOMAIN t \subseteq Names
      <3>1. IsFiniteSet(DOMAIN table) /\ DOMAIN table \subseteq Names
        BY TypeFacts
      <3>2. IsFiniteSet(DOMAIN table \ {n})
        BY <3>1, FS_RemoveElement
      <3>3. IsFiniteSet((DOMAIN table \ {n}) \cup {NewName})
        BY <3>2, FS_AddElement
      <3> QED
        BY <1>2, <1>4, <3>1, <3>3
    <2>2. \A m \in DOMAIN t : IsRow(t[m])
      BY <1>1, <1>4, <1>5, TypeFacts
    <2> QED
      BY <1>4, <2>1, <2>2 DEF IsTable
  <1>7. ASSUME NEW m \in DOMAIN t
        PROVE  \E l \in DOMAIN table : t[m] = table[l]
    BY <1>1, <1>4, <1>5
  <1>8. IsLinked(t)
    <2> SUFFICES ASSUME NEW m \in DOMAIN t
                 PROVE  /\ IsProd(t[m]) <=> t[m].versions # <<>>
                        /\ t[m].basedOn # None => /\ t[m].basedOn.name \in DOMAIN t
                                                  /\ IsProd(t[t[m].basedOn.name])
      BY DEF IsLinked
    <2>1. PICK l \in DOMAIN table : t[m] = table[l]
      BY <1>7
    <2>2. /\ IsProd(table[l]) <=> table[l].versions # <<>>
          /\ table[l].basedOn # None => /\ table[l].basedOn.name \in DOMAIN table
                                        /\ IsProd(table[table[l].basedOn.name])
      BY TypeFacts
    <2> QED
      BY <1>1, <1>4, <1>5, <2>1, <2>2
  <1> QED
    BY <1>1, <1>3, <1>6, <1>8, ChangedKeeps

LEMMA DeleteStep ==
  ASSUME IInv, NEW k \in Kinds, NEW n, Delete(k, n)
  PROVE  IInv'
  <1> DEFINE table == rows[k]
             t == [m \in DOMAIN table \ {n} |->
                     IF Refers(table[m], n) THEN [table[m] EXCEPT !.basedOn = None] ELSE table[m]]
  <1>1. n \in DOMAIN table /\ Changed(k, t)
    BY DEF Delete
  <1>2. open' \subseteq Names
    BY DEF Delete, IInv, TypeOK
  <1>3. DOMAIN t = DOMAIN table \ {n} /\ t = [m \in DOMAIN t |-> t[m]]
    OBVIOUS
  <1>4. ASSUME NEW m \in DOMAIN t
        PROVE  /\ IsRow(t[m]) /\ t[m].stage = table[m].stage /\ t[m].versions = table[m].versions
               /\ t[m].basedOn # None => t[m].basedOn = table[m].basedOn /\ t[m].basedOn.name # n
    <2>1. IsRow(table[m])
      BY <1>3, TypeFacts
    <2>2. CASE Refers(table[m], n)
      <3>1. t[m] = [table[m] EXCEPT !.basedOn = None]
        BY <2>2
      <3>2. IsRow(t[m]) /\ t[m].stage = table[m].stage /\ t[m].versions = table[m].versions
            /\ t[m].basedOn = None
        <4> HIDE DEF t, table
        <4> QED
          BY <2>1, <3>1, RebasedFacts
      <3> QED
        BY <3>2
    <2>3. CASE ~Refers(table[m], n)
      <3>1. t[m] = table[m]
        BY <2>3
      <3> QED
        BY <2>1, <2>3, <3>1 DEF Refers
    <2> QED
      BY <2>2, <2>3
  <1> HIDE DEF t
  <1>5. IsTable(t)
    <2>1. IsFiniteSet(DOMAIN t)
      BY <1>3, TypeFacts, FS_RemoveElement
    <2> QED
      BY <1>3, <1>4, <2>1, TypeFacts DEF IsTable
  <1>6. IsLinked(t)
    <2> SUFFICES ASSUME NEW m \in DOMAIN t
                 PROVE  /\ IsProd(t[m]) <=> t[m].versions # <<>>
                        /\ t[m].basedOn # None => /\ t[m].basedOn.name \in DOMAIN t
                                                  /\ IsProd(t[t[m].basedOn.name])
      BY DEF IsLinked
    <2>1. /\ IsProd(table[m]) <=> table[m].versions # <<>>
          /\ table[m].basedOn # None => /\ table[m].basedOn.name \in DOMAIN table
                                        /\ IsProd(table[table[m].basedOn.name])
      BY <1>3, TypeFacts
    <2> HIDE DEF table
    <2> QED
      BY <1>3, <1>4, <2>1 DEF IsProd
  <1> QED
    BY <1>1, <1>2, <1>5, <1>6, ChangedKeeps

LEMMA ElsewhereStep ==
  ASSUME IInv, NEW n, OpenElsewhere(n) \/ CloseElsewhere(n)
  PROVE  IInv'
  <1>1. /\ rows' = rows /\ file' = file /\ page' = page /\ shelf' = shelf /\ answer' = answer
        /\ budget' \in [BoundedEvents -> Nat]
    BY SpendType DEF OpenElsewhere, CloseElsewhere, IInv, TypeOK, BoundedEvents
  <1>2. open' \subseteq Names
    <2>1. DOMAIN rows["template"] \subseteq Names
      BY TypeFacts DEF Kinds
    <2> QED
      BY <2>1 DEF OpenElsewhere, CloseElsewhere, IInv, TypeOK
  <1> QED
    BY <1>1, <1>2 DEF IInv, TypeOK

LEMMA EmptyFacts == IsShelf(Empty) /\ Sound(Empty) /\ IsPage(NoPage) /\ IsFile(NoFile)
  <1>1. IsTable(EmptyTable) /\ IsLinked(EmptyTable)
    BY FS_EmptySet DEF EmptyTable, IsTable, IsLinked
  <1>2. Empty = [k \in Kinds |-> Empty[k]] /\ \A k \in Kinds : Empty[k] = EmptyTable
    BY DEF Empty
  <1>3. IsFile(NoFile)
    BY NoVersions DEF IsFile, NoFile
  <1>4. IsPage(NoPage)
    <2>1. \A k \in Kinds : EmptyTable \in [DOMAIN EmptyTable -> Actions]
      BY DEF EmptyTable
    <2> QED
      BY <1>2, <1>3, <2>1 DEF IsPage, NoPage
  <1> QED
    BY <1>1, <1>2, <1>3, <1>4 DEF IsShelf, Sound

LEMMA NewManagerStep ==
  ASSUME IInv, NewManager
  PROVE  IInv'
  <1>1. /\ rows' = Empty /\ open' = {} /\ page' = NoPage /\ answer' = "none"
        /\ file' = file /\ shelf' = shelf /\ budget' \in [BoundedEvents -> Nat]
    BY SpendType DEF NewManager, IInv, TypeOK, BoundedEvents
  <1> QED
    BY <1>1, EmptyFacts DEF IInv, TypeOK, Answers

-----------------------------------------------------------------------------
(* The steps of the file and of the page.                                  *)

LEMMA ExportStep ==
  ASSUME IInv, Export
  PROVE  IInv'
  <1>1. /\ rows' = rows /\ open' = open /\ page' = page /\ shelf' = rows /\ answer' = answer
        /\ file' = Built(rows) /\ budget' \in [BoundedEvents -> Nat]
    BY SpendType DEF Export, IInv, TypeOK, BoundedEvents
  <1>2. IsFile(Built(rows))
    BY BuiltFacts DEF IInv, TypeOK
  <1> QED
    BY <1>1, <1>2 DEF IInv, TypeOK

\* An entry with other columns than its name.
LEMMA EntryWith ==
  ASSUME NEW e, IsEntry(e), NEW q, DOMAIN q = DOMAIN e, q = [c \in DOMAIN e |-> q[c]],
         q.name = e.name, q.stage \in Stages, IsSeq(q.versions), q.basedOn \in Origins \cup {None}
  PROVE  IsEntry(q)
  BY DEF IsEntry, IsLike

LEMMA RewritesStep ==
  ASSUME IInv, NEW entries, Rewrites(entries), entries = [k \in Kinds |-> entries[k]],
         \A k \in Kinds :
           /\ DOMAIN entries[k] = DOMAIN file[k]
           /\ entries[k] = [i \in DOMAIN file[k] |-> entries[k][i]]
           /\ \A i \in DOMAIN file[k] : IsEntry(entries[k][i]) /\ entries[k][i].name = file[k][i].name
  PROVE  IInv'
  <1>1. /\ rows' = rows /\ open' = open /\ page' = page /\ shelf' = None /\ answer' = answer
        /\ file' = entries /\ budget' \in [BoundedEvents -> Nat]
    BY SpendType DEF Rewrites, IInv, TypeOK, BoundedEvents
  <1>2. IsFile(file)
    BY DEF IInv, TypeOK
  <1>3. ASSUME NEW k \in Kinds
        PROVE  /\ IsSeq(entries[k])
               /\ \A i, j \in DOMAIN entries[k] : entries[k][i].name = entries[k][j].name => i = j
    <2>1. IsSeq(file[k])
      BY <1>2 DEF IsFile
    <2>2. Len(file[k]) \in Nat /\ DOMAIN file[k] = 1..Len(file[k])
      BY <2>1, SeqFacts
    <2>3. IsSeq(entries[k])
      BY <2>2, IsOfItems
    <2> QED
      BY <1>2, <2>3 DEF IsFile
  <1>4. IsFile(entries)
    BY <1>3 DEF IsFile
  <1> QED
    BY <1>1, <1>4 DEF IInv, TypeOK

LEMMA FileBeforeStagesStep ==
  ASSUME IInv, FileBeforeStages
  PROVE  IInv'
  <1> DEFINE q(e) == [e EXCEPT !.stage = "dev", !.versions = <<>>, !.basedOn = None,
                               !.category = None]
             entries == [k \in Kinds |-> [i \in DOMAIN file[k] |-> q(file[k][i])]]
  <1>1. Rewrites(entries)
    BY DEF FileBeforeStages
  <1>2. ASSUME NEW e, IsEntry(e) PROVE IsEntry(q(e)) /\ q(e).name = e.name
    <2>1. {"name", "stage", "versions", "basedOn", "category"} \subseteq DOMAIN e
      BY <1>2 DEF IsEntry, IsLike, Columns
    <2>2. /\ DOMAIN q(e) = DOMAIN e /\ q(e) = [c \in DOMAIN e |-> q(e)[c]]
      OBVIOUS
    <2>3. q(e).name = e.name /\ q(e).stage = "dev" /\ q(e).versions = <<>> /\ q(e).basedOn = None
      BY <2>1
    <2>4. "dev" \in Stages /\ IsSeq(<<>>)
      BY NoVersions DEF Stages
    <2> HIDE DEF q
    <2> QED
      BY <1>2, <2>2, <2>3, <2>4, EntryWith
  <1> HIDE DEF q
  <1>3. \A k \in Kinds : \A i \in DOMAIN file[k] : IsEntry(file[k][i])
    BY DEF IInv, TypeOK, IsFile
  <1>4. \A k \in Kinds :
          /\ DOMAIN entries[k] = DOMAIN file[k]
          /\ entries[k] = [i \in DOMAIN file[k] |-> entries[k][i]]
          /\ \A i \in DOMAIN file[k] : IsEntry(entries[k][i]) /\ entries[k][i].name = file[k][i].name
    BY <1>2, <1>3
  <1>5. entries = [k \in Kinds |-> entries[k]]
    OBVIOUS
  <1> HIDE DEF entries
  <1> QED
    BY <1>1, <1>4, <1>5, RewritesStep

LEMMA FileByHandStep ==
  ASSUME IInv, FileByHand
  PROVE  IInv'
  <1> DEFINE q(e) == [e EXCEPT !.versions = <<>>]
             entries == [k \in Kinds |-> [i \in DOMAIN file[k] |-> q(file[k][i])]]
  <1>1. Rewrites(entries)
    BY DEF FileByHand
  <1>2. ASSUME NEW e, IsEntry(e) PROVE IsEntry(q(e)) /\ q(e).name = e.name
    <2>1. {"name", "stage", "versions", "basedOn"} \subseteq DOMAIN e
      BY <1>2 DEF IsEntry, IsLike, Columns
    <2>2. /\ DOMAIN q(e) = DOMAIN e /\ q(e) = [c \in DOMAIN e |-> q(e)[c]]
      OBVIOUS
    <2>3. q(e).name = e.name /\ q(e).stage = e.stage /\ q(e).versions = <<>>
          /\ q(e).basedOn = e.basedOn
      BY <2>1
    <2>4. IsSeq(<<>>) /\ e.stage \in Stages /\ e.basedOn \in Origins \cup {None}
      BY <1>2, NoVersions, EntryFacts
    <2> HIDE DEF q
    <2> QED
      BY <1>2, <2>2, <2>3, <2>4, EntryWith
  <1> HIDE DEF q
  <1>3. \A k \in Kinds : \A i \in DOMAIN file[k] : IsEntry(file[k][i])
    BY DEF IInv, TypeOK, IsFile
  <1>4. \A k \in Kinds :
          /\ DOMAIN entries[k] = DOMAIN file[k]
          /\ entries[k] = [i \in DOMAIN file[k] |-> entries[k][i]]
          /\ \A i \in DOMAIN file[k] : IsEntry(entries[k][i]) /\ entries[k][i].name = file[k][i].name
    BY <1>2, <1>3
  <1>5. entries = [k \in Kinds |-> entries[k]]
    OBVIOUS
  <1> HIDE DEF entries
  <1> QED
    BY <1>1, <1>4, <1>5, RewritesStep

LEMMA SuggestedType == \A item : Suggested(item) \in Actions
  BY DEF Suggested, Actions

LEMMA ChooseStep ==
  ASSUME IInv, Choose
  PROVE  IInv'
  <1> DEFINE items == [k \in Kinds |-> [n \in NamesIn(file[k]) |->
                                          Item(k, rows[k], EntryNamed(file[k], n))]]
             decisions == [k \in Kinds |-> [n \in DOMAIN items[k] |-> Suggested(items[k][n])]]
             new == [at |-> "preview", file |-> file, items |-> items, decisions |-> decisions]
  <1>1. /\ rows' = rows /\ open' = open /\ page' = new /\ shelf' = shelf /\ answer' = "none"
        /\ file' = file /\ budget' \in [BoundedEvents -> Nat]
    BY SpendType DEF Choose, IInv, TypeOK, BoundedEvents
  <1>2. /\ decisions = [k \in Kinds |-> decisions[k]]
        /\ \A k \in Kinds : decisions[k] \in [DOMAIN decisions[k] -> Actions]
    <2> HIDE DEF items
    <2> QED
      BY SuggestedType
  <1> HIDE DEF items, decisions
  <1>3. IsPage(new)
    BY <1>2 DEF IsPage, IInv, TypeOK
  <1> HIDE DEF new
  <1> QED
    BY <1>1, <1>3 DEF IInv, TypeOK, Answers

\* Other decisions on the same page.
LEMMA DecidedKeeps ==
  ASSUME IInv, NEW decisions, decisions = [k \in Kinds |-> decisions[k]],
         \A k \in Kinds : decisions[k] \in [DOMAIN decisions[k] -> Actions],
         page' = [page EXCEPT !.decisions = decisions],
         UNCHANGED <<rows, open, file, shelf, answer, budget>>
  PROVE  IInv'
  <1>1. IsPage(page)
    BY DEF IInv, TypeOK
  <1>2. page' = [at |-> page.at, file |-> page.file, items |-> page.items, decisions |-> decisions]
    BY <1>1 DEF IsPage
  <1>3. IsPage(page')
    BY <1>1, <1>2 DEF IsPage
  <1> QED
    BY <1>3 DEF IInv, TypeOK

LEMMA DecideStep ==
  ASSUME IInv, NEW k \in Kinds, NEW n \in DOMAIN page.decisions[k], Decide(k, n)
  PROVE  IInv'
  <1> DEFINE had == page.decisions
  <1>1. PICK action \in Options(page.items[k][n]) : page' = [page EXCEPT !.decisions[k][n] = action]
    BY DEF Decide
  <1>2. action \in Actions
    <2>1. \A item : Options(item) \subseteq Actions
      BY DEF Options, Actions
    <2> QED
      BY <1>1, <2>1
  <1> DEFINE decisions == [had EXCEPT ![k] = [had[k] EXCEPT ![n] = action]]
  <1>3. had = [l \in Kinds |-> had[l]] /\ \A l \in Kinds : had[l] \in [DOMAIN had[l] -> Actions]
    BY DEF IInv, TypeOK, IsPage
  <1>4. page' = [page EXCEPT !.decisions = decisions]
    BY <1>1
  <1> HIDE DEF had
  <1>5. /\ decisions = [l \in Kinds |-> decisions[l]]
        /\ \A l \in Kinds : decisions[l] \in [DOMAIN decisions[l] -> Actions]
    BY <1>2, <1>3
  <1> HIDE DEF decisions
  <1> QED
    BY <1>4, <1>5, DecidedKeeps DEF Decide

LEMMA DecideForAllStep ==
  ASSUME IInv, DecideForAll
  PROVE  IInv'
  <1> DEFINE Restore(item) == IF item.status = "differs" /\ item.stage # "prod"
                              THEN "overwrite" ELSE Suggested(item)
             decisions == [k \in Kinds |-> [n \in DOMAIN page.items[k] |-> Restore(page.items[k][n])]]
  <1>1. page' = [page EXCEPT !.decisions = decisions]
    BY DEF DecideForAll
  <1>2. \A item : Restore(item) \in Actions
    BY SuggestedType DEF Actions
  <1> HIDE DEF Restore
  <1>3. /\ decisions = [k \in Kinds |-> decisions[k]]
        /\ \A k \in Kinds : decisions[k] \in [DOMAIN decisions[k] -> Actions]
    BY <1>2
  <1> HIDE DEF decisions
  <1> QED
    BY <1>1, <1>3, DecidedKeeps DEF DecideForAll

LEMMA ImportStep ==
  ASSUME IInv, Import
  PROVE  IInv'
  <1>1. open' = open /\ file' = file /\ shelf' = shelf /\ budget' = budget
    BY DEF Import
  <1>2. CASE rows' = rows /\ answer' \in {"refused", "failed"} /\ page' = page
    BY <1>1, <1>2 DEF IInv, TypeOK, Answers
  <1>3. CASE /\ answer' = "done" /\ page' = NoPage /\ rows' = [k \in Kinds |-> rows'[k]]
             /\ \A k \in Kinds : /\ Walked(k, Len(page.file[k]), Carry(k))
                                 /\ rows'[k] = Linked(rows[k], Carry(k))
    <2>1. ASSUME NEW k \in Kinds PROVE IsTable(rows'[k]) /\ IsLinked(rows'[k])
      <3> DEFINE d == Carry(k)
      <3>1. Walked(k, Len(page.file[k]), d) /\ rows'[k] = Linked(rows[k], d)
        BY <1>3
      <3> HIDE DEF d
      <3> QED
        BY <3>1, LinkedFacts DEF IInv, Sound
    <2>2. IsShelf(rows') /\ Sound(rows')
      BY <1>3, <2>1 DEF IsShelf, Sound
    <2> QED
      BY <1>1, <1>3, <2>2, EmptyFacts DEF IInv, TypeOK, Answers
  <1> QED
    BY <1>2, <1>3, ImportFacts

LEMMA Initially == Init => IInv
  BY ImportsAssumption, EmptyFacts DEF Init, IInv, TypeOK, Sound, Answers

LEMMA Inductive ==
  ASSUME IInv, [Next]_vars
  PROVE  IInv'
  <1>1. CASE Export \/ FileBeforeStages \/ FileByHand \/ Choose \/ DecideForAll \/ Import
    BY <1>1, ExportStep, FileBeforeStagesStep, FileByHandStep, ChooseStep, DecideForAllStep,
       ImportStep
  <1>2. CASE \E k \in Kinds : \E n \in DOMAIN page.decisions[k] : Decide(k, n)
    BY <1>2, DecideStep
  <1>3. ASSUME NEW k \in Kinds, NEW n \in DOMAIN rows[k],
               \/ Edit(k, n) \/ Promote(k, n) \/ Rename(k, n) \/ Delete(k, n) \/ Copy(k, n)
               \/ \E target \in DOMAIN rows[k] : PromoteInto(k, n, target)
        PROVE  IInv'
    BY <1>3, EditStep, PromoteStep, RenameStep, DeleteStep, CopyStep, PromoteIntoStep
  <1>4. CASE \E k \in Kinds : Create(k)
    BY <1>4, CreateStep
  <1>5. CASE \E n \in DOMAIN rows["template"] : MakeList(n) \/ OpenElsewhere(n) \/ CloseElsewhere(n)
    BY <1>5, MakeListStep, ElsewhereStep
  <1>6. CASE NewManager
    BY <1>6, NewManagerStep
  <1>7. CASE UNCHANGED vars
    BY <1>7 DEF vars, IInv, TypeOK
  <1> QED
    BY <1>1, <1>2, <1>3, <1>4, <1>5, <1>6, <1>7 DEF Next

LEMMA Always == Spec => []IInv
  <1>1. IInv /\ [Next]_vars => IInv'
    BY Inductive
  <1> QED
    BY Initially, <1>1, PTL DEF Spec

-----------------------------------------------------------------------------
(* A restore onto an empty manager.                                        *)

\* Every entry so far is there as a row of its own, as _restore_stage makes it.
RestoredTo(k, i, d) ==
  /\ d = [rows |-> d.rows, made |-> d.made, end |-> "done"]
  /\ d.made = {EntryAt(k, j) : j \in 1..i}
  /\ DOMAIN d.rows = {EntryAt(k, j).name : j \in 1..i}
  /\ \A j \in 1..i : d.rows[EntryAt(k, j).name] = Restored(EntryAt(k, j))

LEMMA RestoredOn ==
  ASSUME TypeOK, NEW k \in Kinds, DOMAIN rows[k] = {},
         NEW i \in 1..Len(page.file[k]), Decision(k, EntryAt(k, i)) = "create",
         NEW d, RestoredTo(k, i - 1, d)
  PROVE  RestoredTo(k, i, Carried(k, rows[k], d, EntryAt(k, i)))
  <1> DEFINE e == EntryAt(k, i)
             n == e.name
             after == Carried(k, rows[k], d, e)
             t == With(d.rows, n, Restored(e))
             made == d.made \cup {e}
  <1>1. /\ Len(page.file[k]) \in Nat /\ i \in Nat
        /\ \A j \in 1..Len(page.file[k]) : EntryAt(k, j).name = n => i = j
    BY FileFacts
  <1>2. \A j \in 1..(i - 1) : j \in 1..Len(page.file[k]) /\ j # i
    BY <1>1
  <1>3. n \notin DOMAIN d.rows
    BY <1>1, <1>2 DEF RestoredTo
  <1>4. after = [d EXCEPT !.rows = With(@, n, Restored(e)), !.made = @ \cup {e}]
    BY <1>3 DEF Carried, RestoredTo
  <1>5. after = [rows |-> t, made |-> made, end |-> "done"]
    <2>1. d = [rows |-> d.rows, made |-> d.made, end |-> d.end] /\ d.end = "done"
      BY DEF RestoredTo
    <2> HIDE DEF after
    <2>2. after = [rows |-> With(d.rows, n, Restored(e)), made |-> d.made \cup {e}, end |-> "done"]
      BY <1>4, <2>1
    <2> QED
      BY <2>2
  <1>6. 1..i = 1..(i - 1) \cup {i}
    BY <1>1
  <1>7. /\ DOMAIN t = DOMAIN d.rows \cup {n} /\ t[n] = Restored(e)
        /\ \A m \in DOMAIN d.rows : t[m] = d.rows[m]
    BY <1>3 DEF With
  <1> HIDE DEF t, after
  <1>8. after.rows = t /\ after.made = made
        /\ after = [rows |-> after.rows, made |-> after.made, end |-> "done"]
    BY <1>5
  <1>9. made = {EntryAt(k, j) : j \in 1..i}
    BY <1>6 DEF RestoredTo
  <1>10. DOMAIN t = {EntryAt(k, j).name : j \in 1..i}
    BY <1>6, <1>7 DEF RestoredTo
  <1>11. ASSUME NEW j \in 1..i PROVE t[EntryAt(k, j).name] = Restored(EntryAt(k, j))
    <2>1. CASE j = i
      BY <1>7, <2>1
    <2>2. CASE j # i
      <3>1. j \in 1..(i - 1)
        BY <1>6, <2>2
      <3> QED
        BY <1>7, <3>1 DEF RestoredTo
    <2> QED
      BY <2>1, <2>2
  <1>12. RestoredTo(k, i, after)
    BY <1>8, <1>9, <1>10, <1>11 DEF RestoredTo
  <1> QED
    BY <1>12 DEF after

LEMMA RestoredToTheEnd ==
  ASSUME TypeOK, NEW k \in Kinds, DOMAIN rows[k] = {}, rows[k] = EmptyTable,
         \A entry \in ToSet(page.file[k]) : Decision(k, entry) = "create"
  PROVE  RestoredTo(k, Len(page.file[k]), Carry(k))
  <1> DEFINE n == Len(page.file[k])
             S == {i \in 0..n : RestoredTo(k, i, Progress(k)[i])}
  <1>1. n \in Nat
    BY FileFacts
  <1>2. 0 \in S
    <2>1. RestoredTo(k, 0, Start(k))
      BY DEF RestoredTo, Start
    <2> QED
      BY <1>1, <2>1, ProgressWalks
  <1>3. ASSUME NEW i \in 1..n, i - 1 \in S PROVE i \in S
    <2>1. RestoredTo(k, i - 1, Progress(k)[i - 1])
      BY <1>3
    <2>2. Decision(k, EntryAt(k, i)) = "create"
      <3>1. ToSet(page.file[k]) = {EntryAt(k, j) : j \in 1..Len(page.file[k])}
        BY FileFacts
      <3> QED
        BY <3>1
    <2>3. RestoredTo(k, i, Carried(k, rows[k], Progress(k)[i - 1], EntryAt(k, i)))
      BY <2>1, <2>2, RestoredOn
    <2>4. Progress(k)[i] = Carried(k, rows[k], Progress(k)[i - 1], EntryAt(k, i))
      BY <1>1, ProgressWalks DEF EntryAt
    <2> QED
      BY <1>1, <2>3, <2>4
  <1>4. \A i \in 0..n : i \in S
    <2> HIDE DEF S, n
    <2> QED
      BY <1>1, <1>2, <1>3, UpTo
  <1> QED
    BY <1>1, <1>4 DEF Carry

LEMMA RestoreGivesBack ==
  ASSUME IInv, Import, answer' = "done", rows = Empty, shelf # None, page.file = Built(shelf),
         \A k \in Kinds : \A entry \in ToSet(page.file[k]) : Decision(k, entry) = "create"
  PROVE  rows' = shelf
  <1>1. IsShelf(shelf) /\ Sound(shelf)
    BY DEF IInv, TypeOK
  <1>2. ASSUME NEW k \in Kinds PROVE rows'[k] = shelf[k]
    <2> DEFINE d == Carry(k)
               t == Linked(rows[k], d)
               N == Len(page.file[k])
    <2>1. TypeOK /\ rows[k] = EmptyTable /\ DOMAIN rows[k] = {}
      BY DEF IInv, Empty, EmptyTable
    <2>2. Walked(k, N, d) /\ rows'[k] = t
      BY ImportFacts
    <2>3. RestoredTo(k, N, d)
      BY <2>1, RestoredToTheEnd
    <2>4. DOMAIN t = DOMAIN d.rows /\ t = [n \in DOMAIN t |-> t[n]]
      BY DEF Linked
    <2>5. /\ \A i \in 1..N : /\ EntryAt(k, i).name \in DOMAIN shelf[k]
                             /\ EntryAt(k, i) = Entry(EntryAt(k, i).name, shelf[k][EntryAt(k, i).name])
          /\ \A n \in DOMAIN shelf[k] : \E i \in 1..N : EntryAt(k, i).name = n
      <3>1. DOMAIN page.file[k] = 1..N
        BY <2>1, FileFacts
      <3> QED
        BY <1>1, <3>1, BuiltFacts DEF EntryAt
    <2> HIDE DEF d, t, N
    <2>6. DOMAIN d.rows = DOMAIN shelf[k]
      BY <2>3, <2>5 DEF RestoredTo
    <2>7. /\ IsTable(shelf[k]) /\ IsLinked(shelf[k])
          /\ shelf[k] = [n \in DOMAIN shelf[k] |-> shelf[k][n]]
          /\ \A n \in DOMAIN shelf[k] : IsRow(shelf[k][n]) /\ n \in Names
      BY <1>1 DEF IsShelf, Sound, IsTable
    <2>8. ASSUME NEW n \in DOMAIN shelf[k]
          PROVE  LET e == Entry(n, shelf[k][n]) IN
                 /\ e \in d.made /\ d.rows[n] = Restored(e) /\ IsEntry(e) /\ e.name = n
                 /\ e.stage = shelf[k][n].stage /\ e.content = shelf[k][n].content
                 /\ e.versions = shelf[k][n].versions /\ e.basedOn = shelf[k][n].basedOn
                 /\ e.category = shelf[k][n].category
      <3>1. PICK i \in 1..N : EntryAt(k, i).name = n
        BY <2>5
      <3>2. EntryAt(k, i) = Entry(n, shelf[k][n])
        BY <2>5, <3>1
      <3>3. EntryAt(k, i) \in d.made /\ d.rows[n] = Restored(EntryAt(k, i))
        BY <2>3, <3>1 DEF RestoredTo
      <3> QED
        BY <2>7, <3>2, <3>3, EntryType
    <2>9. ASSUME NEW n \in DOMAIN shelf[k]
          PROVE  /\ d.rows[n] = Row(shelf[k][n].stage, shelf[k][n].content, shelf[k][n].versions,
                                    None, shelf[k][n].category)
                 /\ IsRow(d.rows[n]) /\ IsProd(d.rows[n]) <=> IsProd(shelf[k][n])
      <3> DEFINE e == Entry(n, shelf[k][n])
      <3>1. /\ d.rows[n] = Restored(e) /\ IsEntry(e) /\ e.stage = shelf[k][n].stage
            /\ e.content = shelf[k][n].content /\ e.versions = shelf[k][n].versions
            /\ e.category = shelf[k][n].category
        BY <2>8
      <3>2. IsProd(shelf[k][n]) <=> shelf[k][n].versions # <<>>
        BY <2>7 DEF IsLinked
      <3> HIDE DEF e
      <3>3. IsProd(e) <=> e.versions # <<>>
        BY <3>1, <3>2 DEF IsProd
      <3>4. IsRow(Restored(e)) /\ Restored(e).stage = e.stage
        BY <3>1, RestoredFacts
      <3>5. Restored(e) = Row(e.stage, e.content, e.versions, None, e.category)
        BY <3>3 DEF Restored, IsProd
      <3> QED
        BY <3>1, <3>4, <3>5 DEF IsProd
    <2>10. ASSUME NEW n \in DOMAIN shelf[k] PROVE t[n] = shelf[k][n]
      <3> DEFINE row == shelf[k][n]
                 e == Entry(n, row)
      <3>1. /\ IsRow(row) /\ row = Row(row.stage, row.content, row.versions, row.basedOn, row.category)
            /\ row.basedOn \in Origins \cup {None}
        BY <2>7, RowFacts
      <3>2. e \in d.made /\ e.name = n /\ e.basedOn = row.basedOn
        BY <2>8
      <3>3. n \in DOMAIN d.rows
        BY <2>6
      <3>4. /\ \/ t[n] = d.rows[n]
               \/ \E f \in d.made : /\ f.name = n /\ Found(d.rows, f.basedOn)
            /\ \A f \in d.made : f.name = n /\ Found(d.rows, f.basedOn) =>
                 t[n] = [d.rows[n] EXCEPT !.basedOn = f.basedOn]
        <4>1. TypeOK /\ Walked(k, Len(page.file[k]), d)
          BY <2>1, <2>2 DEF N
        <4>2. LET u == Linked(rows[k], d) IN
              /\ DOMAIN u = DOMAIN d.rows
              /\ \/ u[n] = d.rows[n]
                 \/ \E f \in d.made : /\ IsEntry(f) /\ f.name = n /\ Found(d.rows, f.basedOn)
                                      /\ u[n] = [d.rows[n] EXCEPT !.basedOn = f.basedOn]
              /\ \A f \in d.made : f.name = n /\ Found(d.rows, f.basedOn) =>
                   u[n] = [d.rows[n] EXCEPT !.basedOn = f.basedOn]
          BY <3>3, <4>1, LinkedRow
        <4>3. t = Linked(rows[k], d)
          BY DEF t
        <4> HIDE DEF row, e
        <4> QED
          BY <4>2, <4>3
      <3>5. CASE row.basedOn = None
        <4>1. ASSUME NEW f \in d.made, f.name = n PROVE f = e
          BY <2>3, <2>5, <4>1 DEF RestoredTo
        <4>2. t[n] = d.rows[n]
          BY <3>2, <3>4, <3>5, <4>1 DEF Found
        <4> QED
          BY <2>9, <3>1, <3>5, <4>2
      <3>6. CASE row.basedOn # None
        <4>1. row.basedOn.name \in DOMAIN shelf[k] /\ IsProd(shelf[k][row.basedOn.name])
          BY <2>7, <3>6 DEF IsLinked
        <4>2. Found(d.rows, e.basedOn)
          BY <2>6, <2>9, <3>2, <3>6, <4>1 DEF Found
        <4>3. t[n] = [d.rows[n] EXCEPT !.basedOn = row.basedOn]
          BY <3>2, <3>4, <4>2
        <4>4. d.rows[n] = Row(row.stage, row.content, row.versions, None, row.category)
          BY <2>9
        <4> HIDE DEF row
        <4>5. [d.rows[n] EXCEPT !.basedOn = row.basedOn]
                = Row(row.stage, row.content, row.versions, row.basedOn, row.category)
          BY <4>4, RowWithOrigin
        <4> QED
          BY <3>1, <4>3, <4>5 DEF row
      <3> QED
        BY <3>5, <3>6
    <2>11. t = shelf[k]
      BY <2>4, <2>6, <2>7, <2>10
    <2> QED
      BY <2>2, <2>11
  <1>3. rows' = [k \in Kinds |-> rows'[k]] /\ shelf = [k \in Kinds |-> shelf[k]]
    BY <1>1, ImportFacts DEF IsShelf
  <1> QED
    BY <1>2, <1>3

-----------------------------------------------------------------------------
(* The theorems.                                                           *)

\* The tables, the file and the page stay what the code makes of them; only a Prod
\* row has versions, and a row stems from a Prod row that is there.
THEOREM TypeCorrect == Spec => [](TypeOK /\ Sound(rows))
  <1>1. IInv => TypeOK /\ Sound(rows)
    BY DEF IInv
  <1> QED
    BY <1>1, Always, PTL

\* "All of them or none" (services/backup.py): a refused or failed import leaves every
\* row as it was, a done one has brought in every entry the user decided on.
THEOREM AllOrNothingHolds == Spec => AllOrNothing
  <1>1. IInv /\ [Next]_vars =>
          [Import => IF answer' # "done" THEN rows' = rows
                     ELSE \A k \in Kinds : \A entry \in ToSet(page.file[k]) :
                            Decision(k, entry) # "skip" =>
                              \E n \in DOMAIN rows'[k] :
                                /\ n = entry.name \/ Front(n) = entry.name
                                /\ rows'[k][n].content = entry.content]_vars
    BY ImportIsAllOrNothing
  <1> QED
    BY <1>1, Always, PTL DEF Spec, AllOrNothing

\* "an import must never write something nobody asked for": a row that was here stays as
\* it was unless its name was to be overwritten, and never one in Prod or open elsewhere.
THEOREM UnaskedHolds == Spec => UnaskedStays
  <1>1. IInv /\ [Next]_vars =>
          [Import => \A k \in Kinds : \A n \in DOMAIN rows[k] :
             /\ n \in DOMAIN rows'[k]
             /\ rows'[k][n] # rows[k][n] =>
                  /\ n \in DOMAIN page.decisions[k] /\ page.decisions[k][n] = "overwrite"
                  /\ ~IsProd(rows[k][n]) /\ ~(k = "template" /\ n \in open)]_vars
    BY ImportLeavesUnasked
  <1> QED
    BY <1>1, Always, PTL DEF Spec, UnaskedStays

\* A restore onto an empty manager gives back the shelf that was exported, each row with
\* its stage, versions, origin and category, in whatever order the file names them.
THEOREM RestoreHolds == Spec => RestoreIsWhole
  <1>1. IInv /\ [Next]_vars =>
          [/\ Import /\ answer' = "done" /\ rows = Empty
           /\ shelf # None /\ page.file = Built(shelf)
           /\ \A k \in Kinds : \A entry \in ToSet(page.file[k]) : Decision(k, entry) = "create"
           => rows' = shelf]_vars
    BY RestoreGivesBack
  <1> QED
    BY <1>1, Always, PTL DEF Spec, RestoreIsWhole
=============================================================================
