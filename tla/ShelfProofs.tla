---------------------------- MODULE ShelfProofs ----------------------------
(* Theorems about Shelf for any number of threads, templates and backups,  *)
(* every KEEP and every bound.                                              *)
EXTENDS Shelf, FiniteSetTheorems, WellFoundedInduction, TLAPS

USE ShelfAssumption DEF ShelfAssumption, IsRunning

-----------------------------------------------------------------------------
(* Types.                                                                  *)

LEMMA IdleType == Idle \in Thread /\ Empty \in World /\ NoArchive \in Archive /\ NoSidecar \in Sidecar
  BY DEF Idle, Thread, Labels, Backing, Restoring, Empty, World, NoArchive, Archive, NoSidecar,
     Sidecar, None

LEMMA SpendType ==
  ASSUME NEW event \in BoundedEvents, TypeOK, Spend(event)
  PROVE  budget' \in [BoundedEvents -> Nat]
  BY DEF Spend, TypeOK

LEMMA KindsOfLimits == {"requests", "saves", "events"} \subseteq BoundedEvents
  BY DEF BoundedEvents

\* What every step may rely on.
LEMMA Typed ==
  ASSUME TypeOK
  PROVE  /\ thr \in [Admins -> Thread] /\ archive \in [Ids -> Archive]
         /\ sidecar \in [Ids -> Sidecar] /\ last \in Ids /\ last \in Nat
         /\ world \in World /\ runs \in Keys
         /\ \A t \in Admins :
              /\ thr[t].id \in Ids \cup {None} /\ thr[t].archive \in Ids \cup {None}
              /\ thr[t].pc \in Labels /\ thr[t].to \in Keys \cup {NoKey}
              /\ thr[t].label \in Keys \cup {NoKey}
              /\ thr[t].running \in BOOLEAN /\ thr[t].upload \in BOOLEAN
              /\ thr[t].first \in BOOLEAN /\ thr[t].force \in BOOLEAN
              /\ thr[t].then \in {"idle", "switch.check", "swap", "clear.check"}
              /\ thr[t].victims \subseteq Ids
         /\ \A b \in Ids : archive[b] \in Archive /\ sidecar[b] \in Sidecar
  BY DEF TypeOK, Thread, Ids, None

LEMMA EndsType ==
  ASSUME NEW t \in Admins, TypeOK, Ends(t)
  PROVE  thr' \in [Admins -> Thread]
  BY IdleType DEF Ends, Does, TypeOK

LEMMA GotoType ==
  ASSUME NEW t \in Admins, NEW pc \in Labels, TypeOK, Goto(t, pc)
  PROVE  thr' \in [Admins -> Thread]
  <1>1. \A r \in Thread : [r EXCEPT !.pc = pc] \in Thread
    BY DEF Thread
  <1>2. [thr[t] EXCEPT !.pc = pc] \in Thread
    BY <1>1 DEF TypeOK
  <1> QED
    BY <1>2 DEF Goto, TypeOK

LEMMA DoesType ==
  ASSUME NEW t \in Admins, NEW r \in Thread, TypeOK, Does(t, r)
  PROVE  thr' \in [Admins -> Thread]
  BY DEF Does, TypeOK

-----------------------------------------------------------------------------
(* The oldest and the newest of a set of backups.                          *)

LEMMA HasLeast ==
  ASSUME NEW S, S \subseteq Nat, S # {}
  PROVE  \E x \in S : \A y \in S : x <= y
  <1> DEFINE R == {ss \in Nat \X Nat : ss[1] < ss[2]}
  <1>1. IsWellFoundedOn(R, Nat)
    BY NatLessThanWellFounded DEF OpToRel
  <1>2. \E x \in S : \A y \in S : <<y, x>> \notin R
    <2> HIDE DEF R
    <2> QED
      BY <1>1, WFMin
  <1>3. ASSUME NEW x \in S, NEW y \in S, <<y, x>> \notin R
        PROVE  x <= y
    BY <1>3
  <1> HIDE DEF R
  <1> QED
    BY <1>2, <1>3

LEMMA HasMax ==
  ASSUME NEW S, S \subseteq Ids, S # {}
  PROVE  Max(S) \in S /\ \A y \in S : Max(S) >= y
  <1> DEFINE B == {MaxId - y : y \in S}
  <1>1. B \subseteq Nat /\ B # {}
    <2>1. ASSUME NEW y \in S PROVE MaxId - y \in Nat
      <3>1. y \in 1..MaxId
        BY DEF Ids
      <3> QED
        BY <3>1
    <2> QED
      BY <2>1
  <1> HIDE DEF B
  <1>2. PICK x \in B : \A y \in B : x <= y
    BY <1>1, HasLeast
  <1> USE DEF B
  <1>3. PICK m \in S : x = MaxId - m
    BY <1>2
  <1>4. ASSUME NEW y \in S PROVE m >= y
    <2>1. MaxId - m <= MaxId - y /\ m \in Int /\ y \in Int
      BY <1>2, <1>3 DEF Ids
    <2> QED
      BY <2>1
  <1> QED
    BY <1>4 DEF Max

-----------------------------------------------------------------------------
(* What a step does to the thread that takes it.                           *)

OthersKept(t) == \A u \in Admins \ {t} : thr'[u] = thr[u]

\* Everything that a thread carries through a backup.
Carries(t) ==
  /\ thr'[t].id = thr[t].id /\ thr'[t].upload = thr[t].upload
  /\ thr'[t].archive = thr[t].archive /\ thr'[t].to = thr[t].to
  /\ thr'[t].first = thr[t].first /\ thr'[t].force = thr[t].force
  /\ thr'[t].then = thr[t].then

LEMMA EndsAt ==
  ASSUME NEW t \in Admins, TypeOK, Ends(t)
  PROVE  OthersKept(t) /\ thr'[t] = Idle
  BY DEF Ends, Does, TypeOK, OthersKept

LEMMA GotoAt ==
  ASSUME NEW t \in Admins, NEW pc, TypeOK, Goto(t, pc)
  PROVE  /\ OthersKept(t) /\ Carries(t) /\ thr'[t].pc = pc
         /\ thr'[t].running = thr[t].running /\ thr'[t].victims = thr[t].victims
         /\ thr'[t].label = thr[t].label
  <1>1. \A r \in Thread : LET s == [r EXCEPT !.pc = pc] IN
          /\ s.pc = pc /\ s.id = r.id /\ s.upload = r.upload /\ s.archive = r.archive /\ s.to = r.to
          /\ s.first = r.first /\ s.force = r.force /\ s.then = r.then /\ s.running = r.running
          /\ s.victims = r.victims /\ s.label = r.label
    BY DEF Thread
  <1>2. thr[t] \in Thread /\ thr'[t] = [thr[t] EXCEPT !.pc = pc] /\ OthersKept(t)
    BY DEF Goto, TypeOK, OthersKept
  <1> QED
    BY <1>1, <1>2 DEF Carries

\* A request begins from an idle thread.
LEMMA AskAt ==
  ASSUME NEW t \in Admins, TypeOK, NEW r, thr' = [thr EXCEPT ![t] = r]
  PROVE  OthersKept(t) /\ thr'[t] = r /\ (r \in Thread => thr' \in [Admins -> Thread])
  BY DEF OthersKept, TypeOK

LEMMA ContextAt ==
  ASSUME NEW t \in Admins, TypeOK,
         thr' = [thr EXCEPT ![t].pc = "look", ![t].label = runs]
  PROVE  /\ thr' \in [Admins -> Thread] /\ OthersKept(t)
         /\ Carries(t) /\ thr'[t].pc = "look" /\ thr'[t].label = runs
         /\ thr'[t].running = thr[t].running /\ thr'[t].victims = thr[t].victims
  <1> DEFINE s == [[thr[t] EXCEPT !.pc = "look"] EXCEPT !.label = runs]
  <1>1. thr[t] \in Thread /\ thr' = [thr EXCEPT ![t] = s]
    BY Typed DEF Does
  <1>2. /\ s \in Thread
        /\ s.pc = "look" /\ s.id = thr[t].id /\ s.label = runs
        /\ s.running = thr[t].running /\ s.upload = thr[t].upload
        /\ s.victims = thr[t].victims /\ s.archive = thr[t].archive /\ s.to = thr[t].to
        /\ s.first = thr[t].first /\ s.force = thr[t].force /\ s.then = thr[t].then
    BY <1>1, Typed DEF Thread, Labels, Backing
  <1> HIDE DEF s
  <1>3. /\ thr' \in [Admins -> Thread] /\ OthersKept(t) /\ thr'[t] = s
    BY <1>1, <1>2, AskAt
  <1> QED
    BY <1>2, <1>3 DEF Carries

LEMMA LookAt ==
  ASSUME NEW t \in Admins, TypeOK, NEW x \in BOOLEAN,
         thr' = [thr EXCEPT ![t].pc = "mint", ![t].running = x]
  PROVE  /\ thr' \in [Admins -> Thread] /\ OthersKept(t)
         /\ Carries(t) /\ thr'[t].pc = "mint" /\ thr'[t].label = thr[t].label
         /\ thr'[t].running = x /\ thr'[t].victims = thr[t].victims
  <1> DEFINE s == [[thr[t] EXCEPT !.pc = "mint"] EXCEPT !.running = x]
  <1>1. thr[t] \in Thread /\ thr' = [thr EXCEPT ![t] = s]
    BY Typed DEF Does
  <1>2. /\ s \in Thread
        /\ s.pc = "mint" /\ s.id = thr[t].id /\ s.label = thr[t].label /\ s.running = x
        /\ s.upload = thr[t].upload /\ s.victims = thr[t].victims
        /\ s.archive = thr[t].archive /\ s.to = thr[t].to /\ s.first = thr[t].first
        /\ s.force = thr[t].force /\ s.then = thr[t].then
    BY <1>1, Typed DEF Thread, Labels, Backing
  <1> HIDE DEF s
  <1>3. /\ thr' \in [Admins -> Thread] /\ OthersKept(t) /\ thr'[t] = s
    BY <1>1, <1>2, AskAt
  <1> QED
    BY <1>2, <1>3 DEF Carries

\* A backup has seen the server as it is, or as down when Docker did not answer.
LEMMA LookDoes ==
  ASSUME NEW t \in Admins, TypeOK, Look(t)
  PROVE  \/ Ends(t) /\ UNCHANGED blind
         \/ /\ thr' \in [Admins -> Thread] /\ OthersKept(t)
            /\ Carries(t) /\ thr'[t].pc = "mint"
            /\ \/ thr'[t].running = IsRunning /\ blind' = blind \ {t}
               \/ blind' = blind \cup {t}
  <1>1. IsRunning \in BOOLEAN /\ FALSE \in BOOLEAN
    BY DEF IsRunning
  <1>2. ASSUME thr' = [thr EXCEPT ![t].pc = "mint", ![t].running = IsRunning]
        PROVE  /\ thr' \in [Admins -> Thread] /\ OthersKept(t)
               /\ Carries(t) /\ thr'[t].pc = "mint" /\ thr'[t].running = IsRunning
    <2> DEFINE x == IsRunning
    <2> HIDE DEF x
    <2>1. x \in BOOLEAN /\ thr' = [thr EXCEPT ![t].pc = "mint", ![t].running = x]
      BY <1>1, <1>2 DEF x
    <2>2. /\ thr' \in [Admins -> Thread] /\ OthersKept(t)
          /\ Carries(t) /\ thr'[t].pc = "mint" /\ thr'[t].running = x
      BY <2>1, LookAt
    <2> QED
      BY <2>2 DEF x
  <1>3. ASSUME thr' = [thr EXCEPT ![t].pc = "mint", ![t].running = FALSE]
        PROVE  /\ thr' \in [Admins -> Thread] /\ OthersKept(t)
               /\ Carries(t) /\ thr'[t].pc = "mint"
    BY <1>1, <1>3, LookAt
  <1> QED
    BY <1>2, <1>3 DEF Look, LookupRaises, SeenAsIs

LEMMA MintAt ==
  ASSUME NEW t \in Admins, TypeOK, NEW pc \in {"adopt", "open"}, NEW b \in Ids,
         thr' = [thr EXCEPT ![t].pc = pc, ![t].id = b]
  PROVE  /\ thr' \in [Admins -> Thread] /\ OthersKept(t)
         /\ thr'[t].pc = pc /\ thr'[t].id = b /\ thr'[t].label = thr[t].label
         /\ thr'[t].running = thr[t].running /\ thr'[t].upload = thr[t].upload
         /\ thr'[t].victims = thr[t].victims /\ thr'[t].archive = thr[t].archive
         /\ thr'[t].to = thr[t].to /\ thr'[t].first = thr[t].first
         /\ thr'[t].force = thr[t].force /\ thr'[t].then = thr[t].then
  <1> DEFINE s == [[thr[t] EXCEPT !.pc = pc] EXCEPT !.id = b]
  <1>1. thr[t] \in Thread /\ thr' = [thr EXCEPT ![t] = s]
    BY Typed DEF Does
  <1>2. /\ s \in Thread
        /\ s.pc = pc /\ s.id = b /\ s.label = thr[t].label
        /\ s.running = thr[t].running /\ s.upload = thr[t].upload
        /\ s.victims = thr[t].victims /\ s.archive = thr[t].archive /\ s.to = thr[t].to
        /\ s.first = thr[t].first /\ s.force = thr[t].force /\ s.then = thr[t].then
    BY <1>1, Typed DEF Thread, Labels, Backing
  <1> HIDE DEF s
  <1>3. /\ thr' \in [Admins -> Thread] /\ OthersKept(t) /\ thr'[t] = s
    BY <1>1, <1>2, AskAt
  <1> QED
    BY <1>2, <1>3

LEMMA SidecarAt ==
  ASSUME NEW t \in Admins, TypeOK,
         Does(t, [thr[t] EXCEPT !.pc = "prune", !.label = NoKey, !.running = FALSE])
  PROVE  /\ thr' \in [Admins -> Thread] /\ OthersKept(t)
         /\ Carries(t) /\ thr'[t].pc = "prune" /\ thr'[t].label = NoKey
         /\ thr'[t].running = FALSE /\ thr'[t].victims = thr[t].victims
  <1> DEFINE s == [thr[t] EXCEPT !.pc = "prune", !.label = NoKey, !.running = FALSE]
  <1>1. thr[t] \in Thread /\ thr' = [thr EXCEPT ![t] = s]
    BY Typed DEF Does
  <1>2. /\ s \in Thread
        /\ s.pc = "prune" /\ s.id = thr[t].id /\ s.label = NoKey /\ s.running = FALSE
        /\ s.upload = thr[t].upload /\ s.victims = thr[t].victims
        /\ s.archive = thr[t].archive /\ s.to = thr[t].to /\ s.first = thr[t].first
        /\ s.force = thr[t].force /\ s.then = thr[t].then
    BY <1>1, Typed DEF Thread, Labels, Backing
  <1> HIDE DEF s
  <1>3. /\ thr' \in [Admins -> Thread] /\ OthersKept(t) /\ thr'[t] = s
    BY <1>1, <1>2, AskAt
  <1> QED
    BY <1>2, <1>3 DEF Carries

LEMMA PruneAt ==
  ASSUME NEW t \in Admins, TypeOK, NEW V \in SUBSET Ids,
         thr' = [thr EXCEPT ![t].pc = "drop", ![t].victims = V]
  PROVE  /\ thr' \in [Admins -> Thread] /\ OthersKept(t)
         /\ Carries(t) /\ thr'[t].pc = "drop" /\ thr'[t].label = thr[t].label
         /\ thr'[t].running = thr[t].running /\ thr'[t].victims = V
  <1> DEFINE s == [[thr[t] EXCEPT !.pc = "drop"] EXCEPT !.victims = V]
  <1>1. thr[t] \in Thread /\ thr' = [thr EXCEPT ![t] = s]
    BY Typed DEF Does
  <1>2. /\ s \in Thread
        /\ s.pc = "drop" /\ s.id = thr[t].id /\ s.label = thr[t].label
        /\ s.running = thr[t].running /\ s.upload = thr[t].upload /\ s.victims = V
        /\ s.archive = thr[t].archive /\ s.to = thr[t].to /\ s.first = thr[t].first
        /\ s.force = thr[t].force /\ s.then = thr[t].then
    BY <1>1, Typed DEF Thread, Labels, Backing
  <1> HIDE DEF s
  <1>3. /\ thr' \in [Admins -> Thread] /\ OthersKept(t) /\ thr'[t] = s
    BY <1>1, <1>2, AskAt
  <1> QED
    BY <1>2, <1>3 DEF Carries

LEMMA DropAt ==
  ASSUME NEW t \in Admins, TypeOK, NEW b,
         thr' = [thr EXCEPT ![t].victims = @ \ {b}]
  PROVE  /\ thr' \in [Admins -> Thread] /\ OthersKept(t)
         /\ Carries(t) /\ thr'[t].pc = thr[t].pc /\ thr'[t].label = thr[t].label
         /\ thr'[t].running = thr[t].running /\ thr'[t].victims = thr[t].victims \ {b}
  <1> DEFINE s == [thr[t] EXCEPT !.victims = thr[t].victims \ {b}]
  <1>1. thr[t] \in Thread /\ thr' = [thr EXCEPT ![t] = s]
    BY Typed DEF Does
  <1>2. /\ s \in Thread
        /\ s.pc = thr[t].pc /\ s.id = thr[t].id /\ s.label = thr[t].label
        /\ s.running = thr[t].running /\ s.upload = thr[t].upload
        /\ s.victims = thr[t].victims \ {b} /\ s.archive = thr[t].archive
        /\ s.to = thr[t].to /\ s.first = thr[t].first /\ s.force = thr[t].force
        /\ s.then = thr[t].then
    BY <1>1, Typed DEF Thread, Labels, Backing
  <1> HIDE DEF s
  <1>3. /\ thr' \in [Admins -> Thread] /\ OthersKept(t) /\ thr'[t] = s
    BY <1>1, <1>2, AskAt
  <1> QED
    BY <1>2, <1>3 DEF Carries

LEMMA AdoptAt ==
  ASSUME NEW t \in Admins, TypeOK, NEW k \in Keys \cup {NoKey},
         thr' = [thr EXCEPT ![t].pc = "copy", ![t].label = k]
  PROVE  /\ thr' \in [Admins -> Thread] /\ OthersKept(t)
         /\ Carries(t) /\ thr'[t].pc = "copy" /\ thr'[t].label = k
         /\ thr'[t].running = thr[t].running /\ thr'[t].victims = thr[t].victims
  <1> DEFINE s == [[thr[t] EXCEPT !.pc = "copy"] EXCEPT !.label = k]
  <1>1. thr[t] \in Thread /\ thr' = [thr EXCEPT ![t] = s]
    BY Typed DEF Does
  <1>2. /\ s \in Thread
        /\ s.pc = "copy" /\ s.id = thr[t].id /\ s.label = k
        /\ s.running = thr[t].running /\ s.upload = thr[t].upload
        /\ s.victims = thr[t].victims /\ s.archive = thr[t].archive /\ s.to = thr[t].to
        /\ s.first = thr[t].first /\ s.force = thr[t].force /\ s.then = thr[t].then
    BY <1>1, Typed DEF Thread, Labels, Backing
  <1> HIDE DEF s
  <1>3. /\ thr' \in [Admins -> Thread] /\ OthersKept(t) /\ thr'[t] = s
    BY <1>1, <1>2, AskAt
  <1> QED
    BY <1>2, <1>3 DEF Carries

\* Where the request of a restore takes its thread.
Judges(t, to, first, force) ==
  LET misfit == Misfit(thr[t].archive, Target(to))
      next == IF to \in {NoKey, runs} THEN "swap" ELSE "switch.check"
  IN /\ misfit => force
     /\ thr'[t].to = IF next = "swap" THEN NoKey ELSE to
     /\ thr'[t].first = (first \/ misfit) /\ thr'[t].force = misfit /\ thr'[t].then = next
     /\ thr'[t].pc = IF (first \/ misfit) /\ world # Empty THEN "context" ELSE next
     /\ thr'[t].id = thr[t].id /\ thr'[t].upload = thr[t].upload
     /\ thr'[t].archive = thr[t].archive /\ thr'[t].label = thr[t].label
     /\ thr'[t].running = thr[t].running /\ thr'[t].victims = thr[t].victims

LEMMA JudgeDoes ==
  ASSUME NEW t \in Admins, TypeOK, RestoreJudge(t)
  PROVE  /\ thr' \in [Admins -> Thread] /\ OthersKept(t)
         /\ \/ thr'[t] = Idle
            \/ \E to \in Keys \cup {NoKey}, first, force \in BOOLEAN : Judges(t, to, first, force)
  <1>1. PICK to \in Keys \cup {NoKey}, first \in BOOLEAN, force \in BOOLEAN :
       LET misfit == Misfit(thr[t].archive, Target(to))
           next == IF to \in {NoKey, runs} THEN "swap" ELSE "switch.check"
       IN IF misfit /\ ~force THEN Ends(t)
          ELSE Does(t, [thr[t] EXCEPT
                 !.to = IF next = "swap" THEN NoKey ELSE to,
                 !.first = Copies(first, misfit), !.force = misfit, !.then = next,
                 !.pc = IF Copies(first, misfit) /\ world # Empty THEN "context" ELSE next])
    BY DEF RestoreJudge
  <1> DEFINE misfit == Misfit(thr[t].archive, Target(to))
             next == IF to \in {NoKey, runs} THEN "swap" ELSE "switch.check"
             k == IF next = "swap" THEN NoKey ELSE to
             copies == Copies(first, misfit)
             pc == IF copies /\ world # Empty THEN "context" ELSE next
  <1>2. CASE Ends(t)
    BY <1>2, EndsAt, EndsType
  <1>3. CASE (misfit => force) /\ Does(t, [thr[t] EXCEPT !.to = k, !.first = copies,
                                              !.force = misfit, !.then = next, !.pc = pc])
    <2>1. /\ k \in Keys \cup {NoKey} /\ copies \in BOOLEAN /\ misfit \in BOOLEAN
          /\ next \in {"swap", "switch.check"} /\ pc \in {"context", "swap", "switch.check"}
          /\ copies = (first \/ misfit)
      BY DEF Copies, Misfit
    <2> HIDE DEF misfit, next, k, copies, pc
    <2>2. /\ thr' \in [Admins -> Thread] /\ OthersKept(t)
          /\ thr'[t].pc = pc /\ thr'[t].to = k /\ thr'[t].first = copies
          /\ thr'[t].force = misfit /\ thr'[t].then = next
          /\ thr'[t].id = thr[t].id /\ thr'[t].upload = thr[t].upload
          /\ thr'[t].archive = thr[t].archive /\ thr'[t].label = thr[t].label
          /\ thr'[t].running = thr[t].running /\ thr'[t].victims = thr[t].victims
      <3> DEFINE s == [thr[t] EXCEPT !.to = k, !.first = copies, !.force = misfit,
                                     !.then = next, !.pc = pc]
      <3>1. thr[t] \in Thread /\ thr' = [thr EXCEPT ![t] = s]
        BY <1>3, Typed DEF Does
      <3>2. pc \in Labels /\ next \in {"idle", "switch.check", "swap", "clear.check"}
        BY <2>1 DEF Labels, Restoring
      <3>3. /\ s \in Thread
            /\ s.pc = pc /\ s.id = thr[t].id /\ s.label = thr[t].label
            /\ s.running = thr[t].running /\ s.upload = thr[t].upload
            /\ s.victims = thr[t].victims /\ s.archive = thr[t].archive /\ s.to = k
            /\ s.first = copies /\ s.force = misfit /\ s.then = next
        BY <2>1, <3>1, <3>2 DEF Thread
      <3> HIDE DEF s
      <3>4. thr' \in [Admins -> Thread] /\ OthersKept(t) /\ thr'[t] = s
        BY <3>1, <3>3, AskAt
      <3> QED
        BY <3>3, <3>4
    <2>3. Judges(t, to, first, force)
      BY <1>3, <2>1, <2>2 DEF Judges, misfit, next, k, pc
    <2> QED
      BY <2>2, <2>3
  <1> QED
    BY <1>1, <1>2, <1>3

-----------------------------------------------------------------------------
(* The type invariant.                                                     *)

\* What a restore needs to be one, and a switch.
Aimed(t) ==
  /\ thr[t].pc \in {"restore.check", "restore.judge", "swap", "unpack"} \/ thr[t].then = "swap"
       => thr[t].archive # None
  /\ thr[t].pc \in {"switch.check", "switch.write"} \/ thr[t].then = "switch.check"
       => thr[t].to # NoKey
AllAimed == \A t \in Admins : Aimed(t)

LEMMA PlayingType ==
  ASSUME world \in World
  PROVE  /\ Down \in Container /\ Down.status = "down"
         /\ \A k \in Keys \cup {NoKey} :
              /\ Playing(k) \in Container
              /\ Playing(k).plays = k /\ Playing(k).n = world.n
  BY DEF Container, Down, Playing, World

LEMMA InitType == Init => TypeOK
  <1> SUFFICES ASSUME Init PROVE TypeOK
    OBVIOUS
  <1>1. world \in World /\ runs \in Keys
    BY DEF Init, World
  <1>0. server \in Container
    BY <1>1, PlayingType DEF Init
  <1>2. archive \in [Ids -> Archive]
    <2>1. ASSUME NEW b \in Ids
          PROVE  [file |-> "whole", torn |-> FALSE, world |-> [world EXCEPT !.n = b]] \in Archive
      <3>1. [world EXCEPT !.n = b] \in World
        BY <1>1 DEF World, Ids
      <3> QED
        BY <3>1 DEF Archive
    <2> QED
      BY <2>1, IdleType DEF Init
  <1>3. sidecar \in [Ids -> Sidecar]
    BY IdleType DEF Init, Sidecar
  <1>4. thr \in [Admins -> Thread] /\ last \in Ids
    BY IdleType DEF Init, Ids
  <1>5. budget \in [BoundedEvents -> Nat]
    BY DEF Init
  <1>6. /\ lost \subseteq Ids /\ twice \subseteq Ids /\ moved \subseteq Admins
        /\ overrun \subseteq Admins /\ blind \subseteq Admins /\ aborted \in BOOLEAN
    BY DEF Init
  <1> QED
    BY <1>0, <1>1, <1>2, <1>3, <1>4, <1>5, <1>6 DEF TypeOK

\* A step that leaves the budget alone, or spends from it.
LEMMA BudgetType ==
  ASSUME TypeOK, UNCHANGED budget \/ Spend("events") \/ Spend("requests") \/ Spend("saves")
  PROVE  budget' \in [BoundedEvents -> Nat]
  BY SpendType, KindsOfLimits DEF TypeOK

LEMMA DisturbsType ==
  ASSUME NEW T, TypeOK, T \subseteq Admins, Disturbs(T)
  PROVE  overrun' \subseteq Admins /\ blind' \subseteq Admins
  BY DEF Disturbs, TypeOK, Restorers, Writers

LEMMA RemovedType ==
  ASSUME NEW b, TypeOK, Removed(b)
  PROVE  archive' \in [Ids -> Archive] /\ sidecar' \in [Ids -> Sidecar]
  BY IdleType DEF Removed, TypeOK

\* A step that leaves all files alone, and marks no archives.
LEMMA QuietType ==
  ASSUME TypeOK, UNCHANGED <<runs, files, lost, twice>>,
         world' \in World, server' \in Container,
         thr' \in [Admins -> Thread], moved' \subseteq Admins, overrun' \subseteq Admins,
         blind' \subseteq Admins, aborted' \in BOOLEAN, budget' \in [BoundedEvents -> Nat]
  PROVE  TypeOK'
  BY DEF TypeOK, files

LEMMA ServerType ==
  ASSUME TypeOK, Server
  PROVE  TypeOK'
  <1>1. CASE ServerStarts
    <2>1. /\ budget' \in [BoundedEvents -> Nat]
          /\ overrun' \subseteq Admins /\ blind' \subseteq Admins
      BY <1>1, BudgetType, DisturbsType DEF ServerStarts
    <2>2. server' \in Container
      BY <1>1, PlayingType DEF ServerStarts, TypeOK
    <2> QED
      BY <1>1, <2>1, <2>2 DEF ServerStarts, TypeOK, files
  <1>2. CASE ServerEnds
    <2>1. budget' \in [BoundedEvents -> Nat]
      BY <1>2, BudgetType DEF ServerEnds
    <2>2. server' \in Container
      <3>1. server \in Container /\ Down \in Container
        BY PlayingType DEF TypeOK
      <3>2. [server EXCEPT !.status = "restarting"] \in Container
        BY <3>1 DEF Container
      <3> QED
        BY <1>2, <3>1, <3>2 DEF ServerEnds
    <2> QED
      BY <1>2, <2>1, <2>2 DEF ServerEnds, TypeOK, files, history
  <1>3. CASE DockerRestarts
    <2>1. overrun' \subseteq Admins /\ blind' \subseteq Admins
      BY <1>3, DisturbsType DEF DockerRestarts
    <2>2. server' \in Container
      <3>1. server.plays \in Keys \cup {NoKey}
        BY DEF TypeOK, Container
      <3> QED
        BY <1>3, <3>1, PlayingType DEF DockerRestarts, TypeOK
    <2> QED
      BY <1>3, <2>1, <2>2 DEF DockerRestarts, TypeOK, files
  <1>4. CASE ServerSaves
    <2> DEFINE next == MaxId + 1 + budget["saves"]
    <2>1. budget' \in [BoundedEvents -> Nat] /\ next \in Nat
      BY <1>4, BudgetType, KindsOfLimits DEF ServerSaves, TypeOK
    <2>2. /\ world' = [by |-> server.plays, n |-> next, kind |-> SavedAs]
          /\ server' = [server EXCEPT !.n = next]
      BY <1>4 DEF ServerSaves
    <2> HIDE DEF next
    <2>3. world' \in World /\ server' \in Container
      <3>1. server \in Container /\ world \in World
        BY DEF TypeOK
      <3>2. [server EXCEPT !.n = next] \in Container /\ server.plays \in Keys \cup {NoKey}
        BY <2>1, <3>1 DEF Container
      <3>3. SavedAs \in {"whole", "mixed", "part"}
        BY <3>1 DEF SavedAs, World
      <3> QED
        BY <2>1, <2>2, <3>2, <3>3 DEF World
    <2> QED
      BY <1>4, <2>1, <2>3 DEF ServerSaves, TypeOK, files, history
  <1>5. CASE TemplateEdited
    <2>1. budget' \in [BoundedEvents -> Nat] /\ moved' \subseteq Admins
      BY <1>5, BudgetType DEF TemplateEdited, TypeOK, Restorers
    <2> QED
      BY <1>5, <2>1 DEF TemplateEdited, TypeOK, files
  <1> QED
    BY <1>1, <1>2, <1>3, <1>4, <1>5 DEF Server

\* What the requests begin with.
Request(r) ==
  /\ r \in Thread
  /\ r.pc \in {"context", "mint", "restore.check", "switch.check", "clear.check"}
  /\ r.id = None /\ r.label = NoKey /\ r.running = FALSE /\ r.victims = {}
  /\ r.first = FALSE /\ r.force = FALSE /\ r.then # "swap"
  /\ r.pc = "restore.check" => r.archive # None
  /\ r.archive # None => r.pc = "restore.check"
  /\ r.upload <=> r.pc = "mint"
  /\ r.pc = "switch.check" \/ r.then = "switch.check" => r.to # NoKey

LEMMA Requests ==
  /\ Request([Idle EXCEPT !.pc = "context"])
  /\ Request([Idle EXCEPT !.pc = "mint", !.upload = TRUE])
  /\ \A b \in Ids : Request([Idle EXCEPT !.pc = "restore.check", !.archive = b])
  /\ \A k \in Keys, first \in BOOLEAN :
       Request([Idle EXCEPT !.pc = IF first THEN "context" ELSE "switch.check",
                            !.to = k, !.then = "switch.check"])
  /\ \A first \in BOOLEAN :
       Request([Idle EXCEPT !.pc = IF first THEN "context" ELSE "clear.check",
                            !.then = "clear.check"])
  <1>1. Request([Idle EXCEPT !.pc = "context"])
    BY DEF Request, Idle, Thread, Labels, Backing, Restoring, Ids, None
  <1>2. Request([Idle EXCEPT !.pc = "mint", !.upload = TRUE])
    BY DEF Request, Idle, Thread, Labels, Backing, Restoring, Ids, None
  <1>3. ASSUME NEW b \in Ids
        PROVE  Request([Idle EXCEPT !.pc = "restore.check", !.archive = b])
    <2>1. b # None /\ None \in Ids \cup {None}
      BY DEF Ids, None
    <2> QED
      BY <2>1 DEF Request, Idle, Thread, Labels
  <1>4. ASSUME NEW k \in Keys, NEW pc \in {"context", "switch.check"}
        PROVE  Request([Idle EXCEPT !.pc = pc, !.to = k, !.then = "switch.check"])
    BY DEF Request, Idle, Thread, Labels, Backing, Restoring, Ids, None
  <1>5. ASSUME NEW pc \in {"context", "clear.check"}
        PROVE  Request([Idle EXCEPT !.pc = pc, !.then = "clear.check"])
    BY DEF Request, Idle, Thread, Labels, Backing, Restoring, Ids, None
  <1> QED
    BY <1>1, <1>2, <1>3, <1>4, <1>5

\* Every request but a deletion makes its thread busy and does nothing else.
Asks(t) == AskBackup(t) \/ AskUpload(t) \/ AskSwitch(t) \/ AskClear(t)
             \/ \E b \in Ids : AskRestore(t, b)

LEMMA AsksAt ==
  ASSUME NEW t \in Admins, TypeOK, Asks(t)
  PROVE  /\ thr' \in [Admins -> Thread] /\ OthersKept(t) /\ Request(thr'[t]) /\ At(t, "idle")
         /\ UNCHANGED <<world, runs, server, files, history>> /\ Spend("requests")
  <1>1. \E r : Request(r) /\ Does(t, r)
    BY Requests DEF Asks, AskBackup, AskUpload, AskSwitch, AskClear, AskRestore
  <1>2. PICK r : Request(r) /\ Does(t, r)
    BY <1>1
  <1>3. thr' \in [Admins -> Thread] /\ OthersKept(t) /\ thr'[t] = r
    BY <1>2, AskAt DEF Does, Request
  <1>4. At(t, "idle") /\ UNCHANGED <<world, runs, server, files, history>> /\ Spend("requests")
    BY DEF Asks, AskBackup, AskUpload, AskSwitch, AskClear, AskRestore
  <1> QED
    BY <1>2, <1>3, <1>4

LEMMA AskType ==
  ASSUME NEW t \in Admins, TypeOK, Ask(t)
  PROVE  TypeOK'
  <1>1. CASE Asks(t)
    <2>1. thr' \in [Admins -> Thread] /\ budget' \in [BoundedEvents -> Nat]
      BY <1>1, AsksAt, BudgetType
    <2>2. UNCHANGED <<world, runs, server, files, history>>
      BY <1>1, AsksAt
    <2> QED
      BY <2>1, <2>2 DEF TypeOK, files, history
  <1>2. ASSUME NEW b \in Ids, DeleteBackup(t, b) PROVE TypeOK'
    <2>1. archive' \in [Ids -> Archive] /\ sidecar' \in [Ids -> Sidecar] /\ lost' \subseteq Ids
      BY <1>2, RemovedType DEF DeleteBackup, TypeOK
    <2>2. budget' \in [BoundedEvents -> Nat]
      BY <1>2, BudgetType DEF DeleteBackup
    <2> QED
      BY <1>2, <2>1, <2>2 DEF DeleteBackup, TypeOK
  <1> QED
    BY <1>1, <1>2 DEF Ask, Asks

LEMMA FileTypes ==
  ASSUME TypeOK
  PROVE  /\ [file |-> "writing", world |-> world, torn |-> FALSE] \in Archive
         /\ \A by \in Keys : [file |-> "writing", torn |-> FALSE,
              world |-> [by |-> by, n |-> MaxId + 1, kind |-> "whole"]] \in Archive
         /\ \A k \in Keys \cup {NoKey}, r \in BOOLEAN :
              [there |-> TRUE, label |-> k, running |-> r] \in Sidecar
  <1>1. [file |-> "writing", world |-> world, torn |-> FALSE] \in Archive
    BY DEF TypeOK, Archive
  <1>2. ASSUME NEW by \in Keys
        PROVE  [file |-> "writing", torn |-> FALSE,
                world |-> [by |-> by, n |-> MaxId + 1, kind |-> "whole"]] \in Archive
    BY DEF Archive, World
  <1>3. \A k \in Keys \cup {NoKey}, r \in BOOLEAN :
          [there |-> TRUE, label |-> k, running |-> r] \in Sidecar
    BY DEF Sidecar
  <1> QED
    BY <1>1, <1>2, <1>3

\* An archive becomes whole.
LEMMA WholeType ==
  ASSUME NEW a \in Archive, NEW x \in BOOLEAN
  PROVE  LET w == [a EXCEPT !.file = "whole"]
             s == [w EXCEPT !.torn = x]
         IN /\ w \in Archive /\ w.file = "whole" /\ w.world = a.world /\ w.torn = a.torn
            /\ s \in Archive /\ s.file = "whole" /\ s.world = a.world /\ s.torn = x
  BY DEF Archive

\* What a step leaves alone of the shelf but for one archive.
OtherArchivesKept(b) == \A c \in Ids \ {b} : archive'[c] = archive[c]

LEMMA WriteBeginsFiles ==
  ASSUME NEW t \in Admins, TypeOK, WriteBegins(t)
  PROVE  LET b == thr[t].id
             a == [file |-> "writing", world |-> world, torn |-> FALSE]
         IN /\ archive' \in [Ids -> Archive] /\ OtherArchivesKept(b)
            /\ b \in Ids => archive'[b] = a
  BY FileTypes DEF WriteBegins, OtherArchivesKept, TypeOK

LEMMA WriteEndsFiles ==
  ASSUME NEW t \in Admins, TypeOK, WriteEnds(t)
  PROVE  LET b == thr[t].id IN
         /\ archive' \in [Ids -> Archive] /\ OtherArchivesKept(b)
         /\ \/ /\ Goto(t, "sidecar") /\ UNCHANGED budget
               /\ archive[b].file = "none" => archive' = archive
               /\ archive[b].file # "none" /\ b \in Ids =>
                    /\ archive'[b].file = "whole" /\ archive'[b].world = archive[b].world
                    /\ archive'[b].torn = (archive[b].torn \/ archive[b].world # world)
            \/ /\ Ends(t) /\ Spend("events")
               /\ b \in Ids => archive'[b] = NoArchive
  <1> DEFINE b == thr[t].id
             x == archive[b].torn \/ archive[b].world # world
             w == [archive EXCEPT ![b].file = "whole"]
             s == [[archive[b] EXCEPT !.file = "whole"] EXCEPT !.torn = x]
  <1>0. archive \in [Ids -> Archive] /\ x \in BOOLEAN
    BY IdleType DEF TypeOK
  <1>1. CASE Goto(t, "sidecar") /\ UNCHANGED budget /\ archive[b].file = "none"
               /\ archive' = archive
    BY <1>0, <1>1 DEF OtherArchivesKept
  <1>2. CASE Goto(t, "sidecar") /\ UNCHANGED budget /\ archive[b].file # "none"
               /\ archive' = [archive EXCEPT ![b].file = "whole",
                                             ![b].torn = @ \/ archive[b].world # world]
    <2>1. CASE b \in Ids
      <3>1. archive[b] \in Archive /\ x \in BOOLEAN
        BY <1>0, <2>1
      <3>2. w[b] = [archive[b] EXCEPT !.file = "whole"] /\ w[b].torn = archive[b].torn
        BY <1>0, <2>1, <3>1 DEF Archive
      <3>3. archive' = [w EXCEPT ![b] = [w[b] EXCEPT !.torn = x]]
        BY <1>2, <3>2
      <3>4. archive' = [archive EXCEPT ![b] = s]
        BY <1>0, <2>1, <3>2, <3>3
      <3> HIDE DEF x
      <3>5. s \in Archive /\ s.file = "whole" /\ s.world = archive[b].world /\ s.torn = x
        BY <3>1 DEF Archive
      <3> HIDE DEF s
      <3>6. archive' \in [Ids -> Archive] /\ OtherArchivesKept(b) /\ archive'[b] = s
        BY <1>0, <3>4, <3>5, <2>1 DEF OtherArchivesKept
      <3> QED
        BY <1>2, <3>5, <3>6 DEF x
    <2>2. CASE b \notin Ids
      <3>1. archive' = archive
        BY <1>0, <1>2, <2>2
      <3> QED
        BY <1>0, <1>2, <2>2, <3>1 DEF OtherArchivesKept
    <2> QED
      BY <2>1, <2>2
  <1>3. CASE Ends(t) /\ Spend("events") /\ archive' = [archive EXCEPT ![b] = NoArchive]
    BY <1>0, <1>3, IdleType DEF OtherArchivesKept
  <1> QED
    BY <1>1, <1>2, <1>3 DEF WriteEnds

LEMMA AdoptFiles ==
  ASSUME NEW t \in Admins, TypeOK, Adopt(t)
  PROVE  LET b == thr[t].id IN
         /\ archive' \in [Ids -> Archive] /\ OtherArchivesKept(b)
         /\ b \in Ids => archive'[b].file = "writing"
         /\ \E label \in Keys \cup {NoKey} :
              thr' = [thr EXCEPT ![t].pc = "copy", ![t].label = label]
  <1>1. PICK by \in Keys, label \in Keys \cup {NoKey} :
          /\ archive' = [archive EXCEPT ![thr[t].id] =
               [file |-> "writing", torn |-> FALSE,
                world |-> [by |-> by, n |-> MaxId + 1, kind |-> "whole"]]]
          /\ thr' = [thr EXCEPT ![t].pc = "copy", ![t].label = label]
    BY DEF Adopt, CarriedOver
  <1> DEFINE a == [file |-> "writing", torn |-> FALSE,
                   world |-> [by |-> by, n |-> MaxId + 1, kind |-> "whole"]]
  <1>2. a \in Archive /\ a.file = "writing"
    BY FileTypes
  <1>3. archive' = [archive EXCEPT ![thr[t].id] = a] /\ archive \in [Ids -> Archive]
    BY <1>1 DEF TypeOK
  <1> HIDE DEF a
  <1> QED
    BY <1>1, <1>2, <1>3 DEF OtherArchivesKept

LEMMA AdoptEndsFiles ==
  ASSUME NEW t \in Admins, TypeOK, AdoptEnds(t)
  PROVE  LET b == thr[t].id IN
         /\ archive' \in [Ids -> Archive] /\ OtherArchivesKept(b)
         /\ \/ /\ Goto(t, "sidecar") /\ UNCHANGED <<budget, aborted>>
               /\ archive[b].file = "none" => archive' = archive
               /\ archive[b].file # "none" /\ b \in Ids =>
                    /\ archive'[b].file = "whole" /\ archive'[b].world = archive[b].world
                    /\ archive'[b].torn = archive[b].torn
            \/ Ends(t) /\ Spend("events") /\ aborted' = TRUE /\ archive' = archive
  <1> DEFINE b == thr[t].id
             s == [archive[b] EXCEPT !.file = "whole"]
  <1>0. archive \in [Ids -> Archive] /\ TRUE \in BOOLEAN
    BY DEF TypeOK
  <1>1. CASE archive' = archive /\ Goto(t, "sidecar") /\ UNCHANGED <<budget, aborted>>
               /\ archive[b].file = "none"
    BY <1>0, <1>1 DEF OtherArchivesKept
  <1>2. CASE Ends(t) /\ Spend("events") /\ aborted' = TRUE /\ archive' = archive
    BY <1>0, <1>2 DEF OtherArchivesKept
  <1>3. CASE Goto(t, "sidecar") /\ UNCHANGED <<budget, aborted>> /\ archive[b].file # "none"
               /\ archive' = [archive EXCEPT ![b] = s]
    <2>1. b \in Ids => s \in Archive /\ s.file = "whole" /\ s.world = archive[b].world
                         /\ s.torn = archive[b].torn
      BY <1>0, WholeType
    <2> HIDE DEF s
    <2> QED
      BY <1>0, <1>3, <2>1 DEF OtherArchivesKept
  <1> QED
    BY <1>1, <1>2, <1>3 DEF AdoptEnds

LEMMA SidecarType ==
  ASSUME NEW t \in Admins, TypeOK, WriteSidecar(t)
  PROVE  /\ sidecar' \in [Ids -> Sidecar]
         /\ \A c \in Ids \ {thr[t].id} : sidecar'[c] = sidecar[c]
  <1> DEFINE s == [there |-> TRUE, label |-> thr[t].label, running |-> thr[t].running]
  <1>1. s \in Sidecar /\ sidecar \in [Ids -> Sidecar]
        /\ sidecar' = [sidecar EXCEPT ![thr[t].id] = s]
    BY FileTypes, Typed DEF WriteSidecar
  <1> HIDE DEF s
  <1> QED
    BY <1>1

LEMMA BackupType ==
  ASSUME NEW t \in Admins, TypeOK, AllAimed, Backup(t)
  PROVE  TypeOK'
  <1>1. CASE Context(t)
    <2>1. thr' \in [Admins -> Thread]
      BY <1>1, ContextAt DEF Context
    <2> QED
      BY <1>1, <2>1 DEF Context, TypeOK, files, history
  <1>2. CASE Look(t)
    <2>1. thr' \in [Admins -> Thread]
      BY <1>2, LookDoes, EndsType
    <2>2. blind' \subseteq Admins /\ budget' \in [BoundedEvents -> Nat]
      BY <1>2, BudgetType DEF Look, LookupRaises, Unseen, TypeOK
    <2> QED
      BY <1>2, <2>1, <2>2 DEF Look, TypeOK, files
  <1>3. CASE Mint(t)
    <2>1. last' \in Ids /\ twice' \subseteq Ids
      <3>1. CASE last + 1 \in Ids /\ last' = last + 1 /\ UNCHANGED twice
        BY <3>1 DEF TypeOK
      <3>2. ASSUME NEW u \in Others(t), thr[u].pc \in {"open", "adopt"} /\ thr[u].id = last,
                   archive[last].file = "none", twice' = twice \cup {last}, UNCHANGED last
            PROVE  last' \in Ids /\ twice' \subseteq Ids
        <4>1. last \in Ids
          BY DEF TypeOK
        <4> QED
          BY <3>2, <4>1 DEF TypeOK
      <3> QED
        BY <1>3, <3>1, <3>2 DEF Mint
    <2>2. thr' \in [Admins -> Thread]
      BY <1>3, <2>1, MintAt DEF Mint
    <2> QED
      BY <1>3, <2>1, <2>2 DEF Mint, TypeOK
  <1>4. CASE WriteBegins(t)
    <2>1. thr' \in [Admins -> Thread] /\ archive' \in [Ids -> Archive]
      BY <1>4, WriteBeginsFiles, GotoType DEF WriteBegins, Labels, Backing
    <2> QED
      BY <1>4, <2>1 DEF WriteBegins, TypeOK, history
  <1>5. CASE WriteEnds(t)
    <2>1. thr' \in [Admins -> Thread] /\ archive' \in [Ids -> Archive]
          /\ budget' \in [BoundedEvents -> Nat]
      BY <1>5, WriteEndsFiles, GotoType, EndsType, BudgetType DEF Labels, Backing
    <2> QED
      BY <1>5, <2>1 DEF WriteEnds, TypeOK, history
  <1>6. CASE Adopt(t)
    <2>1. thr' \in [Admins -> Thread] /\ archive' \in [Ids -> Archive]
      BY <1>6, AdoptFiles, AdoptAt
    <2> QED
      BY <1>6, <2>1 DEF Adopt, TypeOK, history
  <1>7. CASE AdoptEnds(t)
    <2>1. thr' \in [Admins -> Thread] /\ archive' \in [Ids -> Archive]
          /\ budget' \in [BoundedEvents -> Nat] /\ aborted' \in BOOLEAN
      BY <1>7, AdoptEndsFiles, GotoType, EndsType, BudgetType DEF Labels, Backing, TypeOK
    <2> QED
      BY <1>7, <2>1 DEF AdoptEnds, TypeOK
  <1>8. CASE WriteSidecar(t)
    <2>1. thr' \in [Admins -> Thread] /\ sidecar' \in [Ids -> Sidecar]
      BY <1>8, SidecarType, SidecarAt, EndsType DEF WriteSidecar
    <2> QED
      BY <1>8, <2>1 DEF WriteSidecar, TypeOK, history
  <1>9. CASE Prune(t)
    <2>1. Victims(t) \in SUBSET Ids
      BY DEF Victims, Beyond, Listed
    <2>2. thr' \in [Admins -> Thread]
      BY <1>9, <2>1, PruneAt DEF Prune
    <2> QED
      BY <1>9, <2>2 DEF Prune, TypeOK, files
  <1>10. CASE Drop(t)
    <2>1. archive' \in [Ids -> Archive] /\ sidecar' \in [Ids -> Sidecar]
      BY <1>10, RemovedType DEF Drop, TypeOK
    <2>2. thr' \in [Admins -> Thread]
      BY <1>10, DropAt, EndsType DEF Drop
    <2>3. Max(thr[t].victims) \in Ids
      BY <1>10, HasMax, Typed DEF Drop
    <2>4. aborted' \in BOOLEAN /\ lost' \subseteq Ids
      BY <1>10, <2>3 DEF Drop, TypeOK
    <2> QED
      BY <1>10, <2>1, <2>2, <2>4 DEF Drop, TypeOK
  <1>11. CASE BackupDone(t)
    <2>1. thr[t].then \in Labels
      BY Typed DEF Labels, Restoring
    <2>2. thr' \in [Admins -> Thread]
      BY <1>11, <2>1, EndsType, GotoType DEF BackupDone
    <2> QED
      BY <1>11, <2>2 DEF BackupDone, TypeOK, files, history
  <1> QED
    BY <1>1, <1>2, <1>3, <1>4, <1>5, <1>6, <1>7, <1>8, <1>9, <1>10, <1>11 DEF Backup

LEMMA StoppedForType ==
  ASSUME NEW t \in Admins, NEW pc \in Labels, TypeOK, StoppedFor(t, pc)
  PROVE  thr' \in [Admins -> Thread] /\ budget' \in [BoundedEvents -> Nat]
  BY EndsType, GotoType, BudgetType DEF StoppedFor, LookupRaises, Unseen

LEMMA RestoreType ==
  ASSUME NEW t \in Admins, TypeOK, AllAimed, Restore(t) \/ ClearCheck(t) \/ Clear(t)
  PROVE  TypeOK'
  <1>1. CASE RestoreCheck(t)
    <2>1. thr' \in [Admins -> Thread]
      BY <1>1, EndsType, GotoType DEF RestoreCheck, LookupRaises, Labels, Restoring
    <2>2. /\ overrun' \subseteq Admins /\ moved' \subseteq Admins
          /\ budget' \in [BoundedEvents -> Nat]
      BY <1>1, BudgetType DEF RestoreCheck, LookupRaises, Unseen, TypeOK
    <2> QED
      BY <1>1, <2>1, <2>2 DEF RestoreCheck, TypeOK, files
  <1>2. CASE RestoreJudge(t)
    <2>1. thr' \in [Admins -> Thread]
      BY <1>2, JudgeDoes
    <2> QED
      BY <1>2, <2>1 DEF RestoreJudge, TypeOK, files, history
  <1>3. CASE SwitchCheck(t)
    <2>1. thr' \in [Admins -> Thread] /\ budget' \in [BoundedEvents -> Nat]
      BY <1>3, StoppedForType DEF SwitchCheck, Labels, Restoring
    <2> QED
      BY <1>3, <2>1 DEF SwitchCheck, TypeOK, files, history
  <1>4. CASE SwitchWrite(t)
    <2>1. thr' \in [Admins -> Thread]
      BY <1>4, GotoType DEF SwitchWrite, Labels, Restoring
    <2>2. moved' \subseteq Admins
      BY <1>4 DEF SwitchWrite, TypeOK, Restorers, Others
    <2>3. runs' \in Keys
      BY <1>4, Typed DEF SwitchWrite, AllAimed, Aimed, At
    <2> QED
      BY <1>4, <2>1, <2>2, <2>3 DEF SwitchWrite, TypeOK, files
  <1>5. CASE SwitchRemove(t)
    <2>1. thr' \in [Admins -> Thread] /\ budget' \in [BoundedEvents -> Nat]
      BY <1>5, EndsType, GotoType, BudgetType DEF SwitchRemove, LookupRaises, Labels, Restoring
    <2>2. server' \in Container
      BY <1>5, PlayingType DEF SwitchRemove, TypeOK
    <2> QED
      BY <1>5, <2>1, <2>2 DEF SwitchRemove, TypeOK, files, history
  <1>6. CASE Swap(t)
    <2>1. thr' \in [Admins -> Thread] /\ budget' \in [BoundedEvents -> Nat]
      BY <1>6, EndsType, GotoType, BudgetType DEF Swap, Labels, Restoring
    <2>2. overrun' \subseteq Admins /\ blind' \subseteq Admins
      BY <1>6, DisturbsType DEF Swap, TypeOK, Others
    <2>3. world' \in World
      BY <1>6, IdleType DEF Swap, TypeOK
    <2> QED
      BY <1>6, <2>1, <2>2, <2>3 DEF Swap, TypeOK, files
  <1>7. CASE Unpack(t)
    <2>1. thr' \in [Admins -> Thread] /\ budget' \in [BoundedEvents -> Nat]
      BY <1>7, EndsType, BudgetType DEF Unpack
    <2>2. overrun' \subseteq Admins /\ blind' \subseteq Admins
      BY <1>7, DisturbsType DEF Unpack, TypeOK, Others
    <2>3. world' \in World
      <3>1. thr[t].archive \in Ids
        BY <1>7, Typed DEF Unpack, AllAimed, Aimed, At
      <3>2. \A a \in Archive : /\ a.world \in World /\ [a.world EXCEPT !.kind = "part"] \in World
                               /\ [by |-> a.world.by, n |-> a.world.n, kind |-> "mixed"] \in World
        BY DEF Archive, World
      <3>3. archive[thr[t].archive] \in Archive
        BY <3>1, Typed
      <3> QED
        BY <1>7, <3>2, <3>3 DEF Unpack, Unpacked, TypeOK
    <2> QED
      BY <1>7, <2>1, <2>2, <2>3 DEF Unpack, TypeOK, files
  <1>8. CASE ClearCheck(t)
    <2>1. thr' \in [Admins -> Thread] /\ budget' \in [BoundedEvents -> Nat]
      BY <1>8, StoppedForType DEF ClearCheck, Labels
    <2> QED
      BY <1>8, <2>1 DEF ClearCheck, TypeOK, files, history
  <1>9. CASE Clear(t)
    <2>1. thr' \in [Admins -> Thread] /\ budget' \in [BoundedEvents -> Nat]
      BY <1>9, EndsType, BudgetType DEF Clear
    <2>2. overrun' \subseteq Admins /\ blind' \subseteq Admins
      BY <1>9, DisturbsType DEF Clear, TypeOK, Others
    <2>3. world' \in World
      BY <1>9, IdleType DEF Clear, TypeOK
    <2> QED
      BY <1>9, <2>1, <2>2, <2>3 DEF Clear, TypeOK, files
  <1> QED
    BY <1>1, <1>2, <1>3, <1>4, <1>5, <1>6, <1>7, <1>8, <1>9 DEF Restore

\* Threads that end with the manager do so idle.
LEMMA RestartAt ==
  ASSUME TypeOK, ManagerRestarts
  PROVE  /\ thr' \in [Admins -> Thread]
         /\ \A u \in Admins : (thr'[u] = thr[u] /\ At(u, "unpack")) \/ thr'[u] = Idle
  BY IdleType DEF ManagerRestarts, TypeOK, At

\* Restores stay restores, switches stay switches.
LEMMA AimedKept ==
  ASSUME TypeOK, AllAimed, Next
  PROVE  AllAimed'
  <1>0. Idle.pc = "idle" /\ Idle.then = "idle"
    BY DEF Idle
  <1>1. CASE UNCHANGED thr
    BY <1>1 DEF AllAimed, Aimed
  <1>2. CASE ManagerRestarts
    BY <1>0, <1>2, RestartAt DEF AllAimed, Aimed
  <1>3. ASSUME NEW t \in Admins, OthersKept(t), Aimed(t)'
        PROVE  AllAimed'
    BY <1>3 DEF AllAimed, Aimed, OthersKept
  <1>4. ASSUME NEW t \in Admins, Ends(t)
        PROVE  AllAimed'
    <2>1. OthersKept(t) /\ thr'[t] = Idle
      BY <1>4, EndsAt
    <2> QED
      BY <1>0, <1>3, <2>1 DEF Aimed
  <1>5. ASSUME NEW t \in Admins, NEW pc, Goto(t, pc),
               pc \in {"restore.judge", "swap", "unpack"} => thr[t].archive # None,
               pc \in {"switch.check", "switch.write"} => thr[t].to # NoKey,
               pc # "restore.check"
        PROVE  AllAimed'
    <2>1. OthersKept(t) /\ Carries(t) /\ thr'[t].pc = pc
      BY <1>5, GotoAt
    <2>2. Aimed(t)
      BY DEF AllAimed
    <2> QED
      BY <1>3, <1>5, <2>1, <2>2 DEF Aimed, Carries
  <1>6. ASSUME NEW t \in Admins, Asks(t) PROVE AllAimed'
    <2>1. OthersKept(t) /\ Request(thr'[t])
      BY <1>6, AsksAt
    <2> QED
      BY <1>3, <2>1 DEF Request, Aimed
  <1>7. ASSUME NEW t \in Admins, Backup(t) PROVE AllAimed'
    <2>0. Aimed(t)
      BY DEF AllAimed
    <2>1. ASSUME OthersKept(t), Carries(t), thr'[t].pc \in Backing PROVE AllAimed'
      BY <2>0, <2>1, <1>3 DEF Aimed, Carries, Backing
    <2>2. CASE Context(t)
      BY <2>1, <2>2, ContextAt DEF Context, Backing
    <2>3. CASE Look(t)
      BY <1>4, <2>1, <2>3, LookDoes DEF Backing
    <2>4. CASE Mint(t)
      <3>1. last' \in Ids
        BY <2>4 DEF Mint, TypeOK
      <3>2. /\ OthersKept(t) /\ thr'[t].pc \in {"adopt", "open"}
            /\ thr'[t].archive = thr[t].archive /\ thr'[t].to = thr[t].to
            /\ thr'[t].then = thr[t].then
        BY <2>4, <3>1, MintAt DEF Mint
      <3> QED
        BY <2>0, <3>2, <1>3 DEF Aimed
    <2>5. CASE WriteBegins(t)
      BY <1>5, <2>5 DEF WriteBegins
    <2>6. CASE WriteEnds(t)
      BY <1>4, <1>5, <2>6 DEF WriteEnds
    <2>7. CASE Adopt(t)
      BY <2>1, <2>7, AdoptFiles, AdoptAt DEF Backing
    <2>8. CASE AdoptEnds(t)
      BY <1>4, <1>5, <2>8 DEF AdoptEnds
    <2>9. CASE WriteSidecar(t)
      BY <1>4, <2>1, <2>9, SidecarAt DEF WriteSidecar, Backing
    <2>10. CASE Prune(t)
      <3>1. Victims(t) \in SUBSET Ids
        BY DEF Victims, Beyond, Listed
      <3> QED
        BY <2>1, <2>10, <3>1, PruneAt DEF Prune, Backing
    <2>11. CASE Drop(t)
      BY <1>4, <2>1, <2>11, DropAt DEF Drop, At, Backing
    <2>12. CASE BackupDone(t)
      <3>1. thr[t].then \in {"idle", "switch.check", "swap", "clear.check"}
        BY Typed
      <3> QED
        BY <1>4, <1>5, <2>0, <2>12, <3>1 DEF BackupDone, Aimed
    <2> QED
      BY <1>7, <2>2, <2>3, <2>4, <2>5, <2>6, <2>7, <2>8, <2>9, <2>10, <2>11, <2>12 DEF Backup
  <1>8. ASSUME NEW t \in Admins, Restore(t) \/ ClearCheck(t) \/ Clear(t) PROVE AllAimed'
    <2>0. Aimed(t)
      BY DEF AllAimed
    <2>1. CASE RestoreCheck(t)
      BY <1>4, <1>5, <2>0, <2>1 DEF RestoreCheck, LookupRaises, Aimed, At
    <2>2. CASE RestoreJudge(t)
      <3>1. /\ OthersKept(t)
            /\ thr'[t] = Idle \/ \E to \in Keys \cup {NoKey}, first, force \in BOOLEAN :
                                   Judges(t, to, first, force)
        BY <2>2, JudgeDoes
      <3>2. CASE thr'[t] = Idle
        BY <1>0, <1>3, <3>1, <3>2 DEF Aimed
      <3>3. ASSUME NEW to \in Keys \cup {NoKey}, NEW first \in BOOLEAN, NEW force \in BOOLEAN,
                   Judges(t, to, first, force)
            PROVE  Aimed(t)'
        BY <2>0, <2>2, <3>3 DEF Judges, Aimed, RestoreJudge, At
      <3> QED
        BY <1>3, <3>1, <3>2, <3>3
    <2>3. CASE SwitchCheck(t)
      BY <1>4, <1>5, <2>0, <2>3 DEF SwitchCheck, StoppedFor, LookupRaises, Aimed, At
    <2>4. CASE SwitchWrite(t)
      BY <1>5, <2>4 DEF SwitchWrite
    <2>5. CASE SwitchRemove(t)
      BY <1>4, <1>5, <2>5 DEF SwitchRemove, LookupRaises
    <2>6. CASE Swap(t)
      BY <1>4, <1>5, <2>0, <2>6 DEF Swap, Aimed, At
    <2>7. CASE Unpack(t)
      BY <1>4, <2>7 DEF Unpack
    <2>8. CASE ClearCheck(t)
      BY <1>4, <1>5, <2>8 DEF ClearCheck, StoppedFor, LookupRaises
    <2>9. CASE Clear(t)
      BY <1>4, <2>9 DEF Clear
    <2> QED
      BY <1>8, <2>1, <2>2, <2>3, <2>4, <2>5, <2>6, <2>7, <2>8, <2>9 DEF Restore
  <1>9. Server \/ Sweep \/ (\E t \in Admins, b \in Ids : DeleteBackup(t, b)) => UNCHANGED thr
    BY DEF Server, ServerStarts, ServerEnds, DockerRestarts, ServerSaves, TemplateEdited,
       Sweep, DeleteBackup
  <1> QED
    BY <1>1, <1>2, <1>6, <1>7, <1>8, <1>9 DEF Next, Ask, Asks

LEMMA StepType ==
  ASSUME TypeOK, AllAimed, [Next]_vars
  PROVE  TypeOK' /\ AllAimed'
  <1>1. CASE UNCHANGED vars
    BY <1>1 DEF vars, files, TypeOK, AllAimed, Aimed
  <1>2. CASE Sweep
    <2>1. sidecar' \in [Ids -> Sidecar]
      BY <1>2, IdleType, Typed DEF Sweep
    <2> QED
      BY <1>2, <2>1, AimedKept DEF Next, Sweep, TypeOK, history
  <1>3. CASE ManagerRestarts
    <2>1. budget' \in [BoundedEvents -> Nat] /\ aborted' \in BOOLEAN
      BY <1>3, BudgetType DEF ManagerRestarts, TypeOK
    <2>2. thr' \in [Admins -> Thread]
      BY <1>3, RestartAt
    <2>3. TypeOK'
      BY <1>3, <2>1, <2>2 DEF ManagerRestarts, TypeOK, files
    <2> QED
      BY <1>3, <2>3, AimedKept DEF Next
  <1>4. CASE Server
    BY <1>4, ServerType, AimedKept DEF Next
  <1>5. ASSUME NEW t \in Admins, Ask(t) \/ Backup(t) \/ Restore(t) \/ ClearCheck(t) \/ Clear(t)
        PROVE  TypeOK' /\ AllAimed'
    BY <1>5, AskType, BackupType, RestoreType, AimedKept DEF Next
  <1> QED
    BY <1>1, <1>2, <1>3, <1>4, <1>5 DEF Next

LEMMA TypeInv == Spec => [](TypeOK /\ AllAimed)
  <1>1. Init => TypeOK /\ AllAimed
    BY InitType DEF Init, AllAimed, Aimed, Idle
  <1>2. TypeOK /\ AllAimed /\ [Next]_vars => (TypeOK /\ AllAimed)'
    BY StepType
  <1> QED
    BY <1>1, <1>2, PTL DEF Spec

\* Every variable keeps its type.
THEOREM TypeCorrect == Spec => []TypeOK
  BY TypeInv, PTL

-----------------------------------------------------------------------------
(* The inductive invariant: what holds of an archive, of a thread, and of   *)
(* two threads.                                                             *)

\* Steps of a thread whose archive has no sidecar yet.
Unnamed == {"open", "write", "adopt", "copy", "sidecar"}

\* Restores that have looked at their archive, and those that have judged it;
\* backups that have looked at the server.
Restores(t) == thr[t].archive # None /\ thr[t].pc \notin {"idle", "restore.check"}
Judged(t) == Restores(t) /\ thr[t].pc # "restore.judge"
Writes(t) == thr[t].pc \in {"mint", "open", "write"}

\* An archive gets its name when it is whole: one that has a label is, or is gone.
Archived(b) ==
  /\ archive[b].file # "none" \/ sidecar[b].label # NoKey => b <= last
  /\ archive[b].file = "none" => archive[b] = NoArchive
  /\ b \notin twice /\ sidecar[b].label # NoKey => archive[b].file # "writing"

Numbered(t) ==
  /\ thr[t].id <= last
  /\ thr[t].pc \in Unnamed \cup {"prune", "drop"} => thr[t].id # None
  /\ Restores(t) => thr[t].archive <= last

\* What a step tells of a thread's other fields.
Agrees(t) ==
  /\ thr[t].pc \in {"open", "write"} => ~thr[t].upload
  /\ thr[t].pc \in {"adopt", "copy"} => thr[t].upload
  /\ thr[t].upload => thr[t].archive = None
  /\ thr[t].pc = "drop" => thr[t].archive \notin thr[t].victims
  /\ Judged(t) /\ thr[t].force => thr[t].first

Unlabelled(t) ==
  thr[t].id \notin twice =>
    /\ thr[t].pc \in {"open", "adopt"} => archive[thr[t].id].file = "none"
    /\ thr[t].pc \in Unnamed => sidecar[thr[t].id].label = NoKey
    /\ thr[t].pc = "sidecar" => archive[thr[t].id].file # "writing"

\* Nobody writes to the world of a backup or a restore that is not marked.
Alone(t) ==
  /\ t \notin overrun => (Restores(t) => ~IsRunning)
  /\ t \notin overrun => (thr[t].pc = "unpack" => world = Empty)
  /\ t \notin blind => (Writes(t) /\ ~thr[t].upload /\ ~thr[t].running => ~IsRunning)

Marked(t) ==
  t \notin blind /\ thr[t].id \notin twice /\ ~thr[t].upload /\ ~thr[t].running =>
    LET a == archive[thr[t].id] IN
    /\ thr[t].pc = "write" => a.file = "none" \/ (a.world = world /\ ~a.torn)
    /\ thr[t].pc = "sidecar" => ~a.torn

\* What the archive was judged against is what the server will run.
SwitchesFirst(t) ==
  \/ thr[t].pc \in {"switch.check", "switch.write"}
  \/ thr[t].pc \in Backing \cup {"context"} /\ thr[t].then = "switch.check"
Fits(t) ==
  Judged(t) /\ ~thr[t].force /\ thr[t].archive \notin twice =>
    LET label == sidecar[thr[t].archive].label IN
    \/ archive[thr[t].archive].file = "none"
    \/ SwitchesFirst(t) /\ label # NoKey /\ label = thr[t].to
    \/ ~SwitchesFirst(t) /\ (t \in moved \/ label = runs)

\* The archive of a restore is there until somebody drops it.
HasArchive(t) ==
  thr[t].archive \notin lost \cup twice =>
    LET b == thr[t].archive IN
    /\ thr[t].pc = "restore.judge" =>
         archive[b].file # "none" \/ sidecar[b].label = NoKey
    /\ Judged(t) /\ ~thr[t].force => archive[b].file = "whole" /\ sidecar[b].label # NoKey

\* So is its copy of the world it is about to replace.
Copied(t, file) == archive[thr[t].id].file = file /\ archive[thr[t].id].world = world
HasCopy(t) ==
  t \notin overrun /\ Judged(t) /\ thr[t].first /\ thr[t].id \notin lost \cup twice =>
    /\ thr[t].pc = "write" => Copied(t, "writing")
    /\ thr[t].pc \in {"sidecar", "prune", "drop"} => Copied(t, "whole")
    /\ thr[t].pc \in {"switch.check", "switch.write", "switch.remove", "swap"} =>
         world = Empty \/ (thr[t].id # None /\ Copied(t, "whole"))

Good(t) ==
  /\ Numbered(t) /\ Agrees(t) /\ Unlabelled(t) /\ Alone(t) /\ Marked(t)
  /\ Fits(t) /\ HasArchive(t) /\ HasCopy(t)

\* Two threads have the same id only when they took it in the same second, and
\* the archive of a restore is none that is still to be minted or written.
Apart(t, u) ==
  /\ t # u /\ thr[t].id = thr[u].id => thr[t].id \in twice \cup {None}
  /\ Restores(t) /\ thr[u].pc \in {"open", "adopt"} /\ thr[u].id = thr[t].archive
       => thr[t].archive \in twice
  /\ thr[t].pc = "restore.judge" /\ thr[t].archive \notin lost \cup twice
       /\ archive[thr[t].archive].file = "none" /\ thr[u].id = thr[t].archive
       => thr[u].pc \notin Unnamed

Inv ==
  /\ \A b \in Ids : Archived(b)
  /\ \A t \in Admins : Good(t)
  /\ \A t, u \in Admins : Apart(t, u)

-----------------------------------------------------------------------------
(* What a step leaves of the invariant for the threads that do not take it. *)

\* The records of history only grow for u, and whoever comes near u's world is
\* recorded.
Watched(u) ==
  /\ last <= last' /\ lost \subseteq lost' /\ twice \subseteq twice'
  /\ (u \in overrun => u \in overrun') /\ (u \in blind => u \in blind')
  /\ (u \in moved => u \in moved')
  /\ \/ IsRunning' => IsRunning
     \/ (Restores(u) => u \in overrun') /\ (Writes(u) => u \in blind')
  /\ \/ world' = world \/ IsRunning
     \/ (Restores(u) => u \in overrun') /\ (Writes(u) => u \in blind')
  /\ runs' = runs \/ (Restores(u) => u \in moved')

\* The archive u writes is left alone, dropped, or shared.
IdKept(u) ==
  LET b == thr[u].id IN
  b \in Ids =>
    \/ archive'[b] = archive[b] /\ sidecar'[b].label \in {sidecar[b].label, NoKey}
    \/ b \in twice'
    \/ b \in lost' /\ archive'[b] = NoArchive /\ sidecar'[b].label = NoKey

\* So is the one it restores, or it is one that has no name yet.
ArchiveKept(u) ==
  LET b == thr[u].archive IN
  Restores(u) =>
    \/ archive'[b] = archive[b] /\ sidecar'[b] = sidecar[b]
    \/ /\ archive'[b] = archive[b] /\ archive[b].file = "none"
       /\ sidecar'[b].label = NoKey \/ Judged(u)
    \/ b \in twice'
    \/ b \in lost' /\ archive'[b].file = "none"
    \/ /\ sidecar[b].label = NoKey
       /\ archive[b].file = "none" => archive'[b].file = "none"
       /\ thr[u].pc = "restore.judge" /\ b \notin lost => archive[b].file # "none"
       /\ archive'[b].file # "none" \/ sidecar'[b].label = NoKey

LEMMA GoodKept ==
  ASSUME TypeOK, NEW u \in Admins, Aimed(u), Good(u), thr'[u] = thr[u],
         TypeOK', Watched(u), IdKept(u), ArchiveKept(u)
  PROVE  Good(u)'
  <1>0. /\ thr[u].id \in Ids \cup {None} /\ thr[u].archive \in Ids \cup {None} /\ None \notin Ids
        /\ last \in Nat /\ last' \in Nat /\ Ids \subseteq Nat /\ None \in Nat
        /\ NoKey \notin Keys /\ runs \in Keys /\ runs' \in Keys
        /\ NoArchive.file = "none" /\ NoArchive.torn = FALSE
    BY Typed DEF TypeOK, Ids, None, NoArchive
  <1>1. Numbered(u)' /\ Agrees(u)'
    <2>1. Numbered(u)'
      <3>1. thr[u].id \in Nat /\ thr[u].archive \in Nat /\ last <= last'
        BY <1>0 DEF Watched
      <3>2. /\ thr[u].id <= last => thr[u].id <= last'
            /\ thr[u].archive <= last => thr[u].archive <= last'
        BY <1>0, <3>1
      <3> QED
        BY <3>2 DEF Good, Numbered, Restores
    <2>2. Agrees(u)'
      BY DEF Good, Agrees, Restores, Judged
    <2> QED
      BY <2>1, <2>2
  <1>2. Unlabelled(u)'
    BY <1>0 DEF Good, Unlabelled, Numbered, Watched, IdKept, Unnamed
  <1>3. Alone(u)'
    BY <1>0 DEF Good, Alone, Watched, Restores, Writes, Aimed
  <1>4. Marked(u)'
    BY <1>0 DEF Good, Marked, Alone, Watched, Writes, IdKept, Numbered, Unnamed
  <1>5. Fits(u)'
    <2> DEFINE b == thr[u].archive
    <2>0. /\ Judged(u)' = Judged(u) /\ SwitchesFirst(u)' = SwitchesFirst(u)
          /\ Judged(u) => Restores(u)
      BY DEF Judged, Restores, SwitchesFirst
    <2>1. SUFFICES ASSUME Judged(u), ~thr[u].force, b \notin twice', archive'[b].file # "none"
                   PROVE  \/ /\ SwitchesFirst(u) /\ sidecar'[b].label # NoKey
                             /\ sidecar'[b].label = thr[u].to
                          \/ ~SwitchesFirst(u) /\ (u \in moved' \/ sidecar'[b].label = runs')
      BY <2>0 DEF Fits
    <2>2. b \notin twice /\ (runs' = runs \/ u \in moved') /\ (u \in moved => u \in moved')
      BY <2>0, <2>1 DEF Watched
    <2>3. \/ archive[b].file = "none"
          \/ SwitchesFirst(u) /\ sidecar[b].label # NoKey /\ sidecar[b].label = thr[u].to
          \/ ~SwitchesFirst(u) /\ (u \in moved \/ sidecar[b].label = runs)
      BY <2>1, <2>2 DEF Good, Fits
    <2>4. \/ archive'[b] = archive[b] /\ sidecar'[b] = sidecar[b]
          \/ sidecar[b].label = NoKey /\ archive[b].file # "none"
      BY <2>0, <2>1 DEF ArchiveKept
    <2> HIDE DEF b
    <2> QED
      BY <1>0, <2>1, <2>2, <2>3, <2>4
  <1>6. HasArchive(u)'
    BY <1>0 DEF Good, HasArchive, Watched, ArchiveKept, Judged, Aimed, Restores
  <1>7. HasCopy(u)'
    <2> DEFINE b == thr[u].id
    <2>0. Judged(u)' = Judged(u) /\ (Judged(u) => Restores(u))
      BY DEF Judged, Restores
    <2>1. CASE u \in overrun' \/ ~Judged(u) \/ ~thr[u].first \/ b \in lost' \cup twice'
      BY <2>0, <2>1 DEF HasCopy
    <2>2. CASE u \notin overrun' /\ Judged(u) /\ thr[u].first /\ b \notin lost' \cup twice'
      <3>1. world' = world /\ HasCopy(u) /\ u \notin overrun /\ b \notin lost \cup twice
        BY <2>0, <2>2 DEF Watched, Good, Alone
      <3>2. b \in Ids => archive'[b] = archive[b]
        BY <2>2 DEF IdKept
      <3>3. thr[u].pc \in {"write", "sidecar", "prune", "drop"} => b \in Ids
        BY <1>0 DEF Good, Numbered, Unnamed
      <3> QED
        BY <1>0, <2>0, <2>2, <3>1, <3>2, <3>3 DEF HasCopy, Copied
    <2> QED
      BY <2>1, <2>2
  <1> QED
    BY <1>1, <1>2, <1>3, <1>4, <1>5, <1>6, <1>7 DEF Good

\* A step that neither mints an id nor looks at the archive to restore.
Mints(t) == thr'[t].pc \in {"open", "adopt"}
KeepsIds(t) ==
  /\ OthersKept(t) /\ lost \subseteq lost' /\ twice \subseteq twice'
  /\ thr'[t].id \in {thr[t].id, None} /\ ~Mints(t)
  /\ thr'[t].pc \in Unnamed => thr[t].pc \in Unnamed /\ thr'[t].id = thr[t].id
  /\ Restores(t)' => Restores(t) /\ thr'[t].archive = thr[t].archive
  /\ thr'[t].pc # "restore.judge"

\* An archive that goes, and is no loss to who restores it, has no writer left.
RestoredUnwritten(t) ==
  \A v \in Admins \ {t} : thr[v].pc = "restore.judge" =>
    LET b == thr[v].archive IN
    b \notin lost' \cup twice' /\ archive[b].file # "none" /\ archive'[b].file = "none" =>
      /\ thr'[t].pc \notin Unnamed
      /\ \A w \in Admins \ {t} : thr[w].id # b

LEMMA ApartKept ==
  ASSUME TypeOK, AllAimed, Inv, NEW t \in Admins, KeepsIds(t), RestoredUnwritten(t)
  PROVE  \A v, w \in Admins : Apart(v, w)'
  <1>1. ASSUME NEW v \in Admins, NEW w \in Admins, v # w, thr'[v].id = thr'[w].id
        PROVE  thr'[v].id \in twice' \cup {None}
    <2>1. Apart(v, w)
      BY DEF Inv
    <2> QED
      BY <1>1, <2>1 DEF Apart, KeepsIds, OthersKept
  <1>2. ASSUME NEW v \in Admins, NEW w \in Admins, Restores(v)', thr'[w].pc \in {"open", "adopt"},
               thr'[w].id = thr'[v].archive
        PROVE  thr'[v].archive \in twice'
    <2>1. Apart(v, w) /\ w # t
      BY <1>2 DEF Inv, KeepsIds, Mints
    <2>2. Restores(v) /\ thr'[v].archive = thr[v].archive /\ thr'[w] = thr[w]
      BY <1>2, <2>1 DEF KeepsIds, OthersKept, Restores
    <2> QED
      BY <1>2, <2>1, <2>2 DEF Apart, KeepsIds
  <1>3. ASSUME NEW v \in Admins, NEW w \in Admins, thr'[v].pc = "restore.judge",
               thr'[v].archive \notin lost' \cup twice',
               archive'[thr'[v].archive].file = "none", thr'[w].id = thr'[v].archive,
               thr'[w].pc \in Unnamed
        PROVE  FALSE
    <2>1. v # t /\ thr'[v] = thr[v] /\ thr[v].archive # None
      BY <1>3 DEF KeepsIds, OthersKept, AllAimed, Aimed
    <2>2. thr[w].id = thr[v].archive /\ thr[w].pc \in Unnamed
      BY <1>3, <2>1 DEF KeepsIds, OthersKept
    <2>3. Apart(v, w)
      BY DEF Inv
    <2>4. CASE archive[thr[v].archive].file = "none"
      BY <1>3, <2>1, <2>2, <2>3, <2>4 DEF Apart, KeepsIds
    <2>5. CASE archive[thr[v].archive].file # "none"
      BY <1>3, <2>1, <2>2, <2>5 DEF RestoredUnwritten
    <2> QED
      BY <2>4, <2>5
  <1> QED
    BY <1>1, <1>2, <1>3 DEF Apart

\* A step that leaves the files and the world alone, and writes nothing next.
Quiet(t) ==
  /\ KeepsIds(t) /\ thr'[t].pc \notin Unnamed
  /\ UNCHANGED <<world, runs, archive, sidecar, last, lost, twice>>
  /\ IsRunning' => IsRunning
  /\ overrun' \ {t} = overrun \ {t} /\ blind' \ {t} = blind \ {t} /\ moved' \ {t} = moved \ {t}

LEMMA QuietKeeps ==
  ASSUME TypeOK, AllAimed, Inv, TypeOK', NEW t \in Admins, Quiet(t), Good(t)'
  PROVE  Inv'
  <1>1. ASSUME NEW b \in Ids PROVE Archived(b)'
    BY DEF Inv, Archived, Quiet
  <1>2. ASSUME NEW u \in Admins, u # t PROVE Good(u)'
    <2>1. Good(u) /\ Aimed(u) /\ thr'[u] = thr[u]
      BY <1>2 DEF Inv, AllAimed, Quiet, KeepsIds, OthersKept
    <2>2. last <= last'
      BY Typed DEF Quiet
    <2>3. Watched(u)
      BY <1>2, <2>2 DEF Watched, Quiet
    <2>4. IdKept(u) /\ ArchiveKept(u)
      BY DEF IdKept, ArchiveKept, Quiet
    <2> QED
      BY <2>1, <2>3, <2>4, GoodKept
  <1>3. \A v, w \in Admins : Apart(v, w)'
    BY ApartKept DEF Quiet, RestoredUnwritten
  <1> QED
    BY <1>1, <1>2, <1>3 DEF Inv

-----------------------------------------------------------------------------
(* Steps that touch no file.                                               *)

LEMMA IdleFields ==
  /\ Idle.pc = "idle" /\ Idle.id = None /\ Idle.archive = None /\ Idle.upload = FALSE
  /\ Idle.running = FALSE /\ Idle.first = FALSE /\ Idle.force = FALSE /\ Idle.then = "idle"
  BY DEF Idle

\* A thread that has done, or has just been asked, has no duties.
LEMMA FreshGood ==
  ASSUME TypeOK', NEW t \in Admins, thr'[t] = Idle \/ Request(thr'[t])
  PROVE  Good(t)'
  <1>1. /\ thr'[t].id = None /\ ~Restores(t)' /\ thr'[t].pc \notin Unnamed \cup {"prune", "drop"}
        /\ (Writes(t) => thr[t].upload)' /\ thr'[t].pc \notin {"restore.judge", "unpack"}
        /\ (thr[t].upload => thr[t].archive = None)'
    BY IdleFields DEF Request, Restores, Unnamed, Writes
  <1>2. None <= last'
    BY DEF TypeOK, None, Ids
  <1>3. Numbered(t)' /\ Agrees(t)' /\ Unlabelled(t)' /\ Alone(t)' /\ Marked(t)'
    BY <1>1, <1>2 DEF Numbered, Agrees, Unlabelled, Alone, Marked, Judged, Unnamed
  <1>4. Fits(t)' /\ HasArchive(t)' /\ HasCopy(t)'
    BY <1>1 DEF Fits, HasArchive, HasCopy, Judged
  <1> QED
    BY <1>3, <1>4 DEF Good

LEMMA FreshKeepsIds ==
  ASSUME TypeOK', NEW t \in Admins, thr'[t] = Idle \/ Request(thr'[t]), OthersKept(t),
         lost \subseteq lost', twice \subseteq twice'
  PROVE  KeepsIds(t) /\ thr'[t].pc \notin Unnamed
  BY IdleFields DEF KeepsIds, Mints, Request, Restores, Unnamed

\* What a thread that goes on without a file, a look at the server or a verdict
\* on its archive still knows.
Onward(t) ==
  /\ Carries(t)
  /\ (Restores(t)' => Restores(t)) /\ (Judged(t)' => Judged(t))
  /\ (Judged(t) => (SwitchesFirst(t) <=> SwitchesFirst(t)'))
  /\ (t \in overrun => t \in overrun') /\ (t \in moved => t \in moved')
  /\ thr'[t].pc \notin Unnamed /\ thr'[t].pc \notin {"unpack", "restore.judge"}
  /\ thr'[t].pc = "mint" => t \in blind' \/ thr'[t].running \/ ~IsRunning'
  /\ thr'[t].pc \in {"prune", "drop"} =>
       thr[t].pc \in {"prune", "drop"} /\ thr'[t].archive \notin thr'[t].victims
  /\ thr'[t].pc \in {"switch.check", "switch.write", "switch.remove", "swap"} =>
       thr[t].pc \in {"drop", "switch.check", "switch.write", "switch.remove"}

LEMMA OnwardGood ==
  ASSUME TypeOK, NEW t \in Admins, Good(t), Quiet(t), Onward(t)
  PROVE  Good(t)'
  <1>1. Numbered(t)' /\ Agrees(t)'
    BY DEF Good, Numbered, Agrees, Quiet, Onward, Carries, Unnamed
  <1>2. Unlabelled(t)' /\ Marked(t)'
    BY DEF Unlabelled, Marked, Onward, Unnamed
  <1>3. Alone(t)'
    BY DEF Good, Alone, Quiet, Onward, Carries, Writes, Unnamed
  <1>4. Fits(t)'
    BY DEF Good, Fits, Quiet, Onward, Carries
  <1>5. HasArchive(t)'
    BY DEF Good, HasArchive, Quiet, Onward, Carries
  <1>6. HasCopy(t)'
    BY DEF Good, HasCopy, Copied, Numbered, Quiet, Onward, Carries, Unnamed
  <1> QED
    BY <1>1, <1>2, <1>3, <1>4, <1>5, <1>6 DEF Good

\* A step that goes onward, or ends, and changes nothing that others see.
Private(t) ==
  /\ OthersKept(t)
  /\ UNCHANGED <<world, runs, archive, sidecar, last, lost, twice>>
  /\ IsRunning' => IsRunning
  /\ overrun' \ {t} = overrun \ {t} /\ blind' \ {t} = blind \ {t} /\ moved' \ {t} = moved \ {t}

LEMMA PrivateKeeps ==
  ASSUME TypeOK, AllAimed, Inv, TypeOK', NEW t \in Admins, Private(t),
         thr'[t] = Idle \/ Request(thr'[t]) \/ Onward(t)
  PROVE  Inv'
  <1>1. CASE thr'[t] = Idle \/ Request(thr'[t])
    <2>1. KeepsIds(t) /\ thr'[t].pc \notin Unnamed
      BY <1>1, FreshKeepsIds DEF Private
    <2>2. Quiet(t)
      BY <2>1 DEF Quiet, Private
    <2> QED
      BY <1>1, <2>2, FreshGood, QuietKeeps
  <1>2. CASE Onward(t)
    <2>1. KeepsIds(t)
      BY <1>2 DEF Onward, Carries, KeepsIds, Mints, Unnamed, Private
    <2>2. Quiet(t)
      BY <1>2, <2>1 DEF Quiet, Private, Onward
    <2> QED
      BY <1>2, <2>2, OnwardGood, QuietKeeps DEF Inv
  <1> QED
    BY <1>1, <1>2

LEMMA AsksKeeps ==
  ASSUME TypeOK, AllAimed, Inv, TypeOK', NEW t \in Admins, Asks(t)
  PROVE  Inv'
  <1>1. Private(t) /\ Request(thr'[t])
    BY AsksAt DEF Private, files, history
  <1> QED
    BY <1>1, PrivateKeeps

LEMMA ContextKeeps ==
  ASSUME TypeOK, AllAimed, Inv, TypeOK', NEW t \in Admins, Context(t)
  PROVE  Inv'
  <1>1. Private(t)
    BY ContextAt DEF Context, Private, files, history
  <1>2. Onward(t)
    BY ContextAt DEF Context, At, Onward, Carries, Restores, Judged, SwitchesFirst, Backing,
       Unnamed, history
  <1> QED
    BY <1>1, <1>2, PrivateKeeps

LEMMA LookKeeps ==
  ASSUME TypeOK, AllAimed, Inv, TypeOK', NEW t \in Admins, Look(t)
  PROVE  Inv'
  <1>1. \/ OthersKept(t) /\ thr'[t] = Idle /\ blind' = blind
        \/ /\ OthersKept(t) /\ Carries(t) /\ thr'[t].pc = "mint"
           /\ \/ thr'[t].running = IsRunning /\ blind' = blind \ {t}
              \/ blind' = blind \cup {t}
    BY EndsAt, LookDoes
  <1>2. Private(t)
    BY <1>1 DEF Look, Private, files
  <1>3. CASE thr'[t] = Idle
    BY <1>2, <1>3, PrivateKeeps
  <1>4. CASE /\ OthersKept(t) /\ Carries(t) /\ thr'[t].pc = "mint"
             /\ \/ thr'[t].running = IsRunning /\ blind' = blind \ {t}
                \/ blind' = blind \cup {t}
    <2>1. Onward(t)
      BY <1>4 DEF Look, At, Onward, Carries, Restores, Judged, SwitchesFirst, Backing, Unnamed
    <2> QED
      BY <1>2, <2>1, PrivateKeeps
  <1> QED
    BY <1>1, <1>3, <1>4

LEMMA PruneKeeps ==
  ASSUME TypeOK, AllAimed, Inv, TypeOK', NEW t \in Admins, Prune(t)
  PROVE  Inv'
  <1>0. Victims(t) \in SUBSET Ids /\ thr[t].archive \notin Victims(t)
    BY DEF Victims, Beyond, Listed
  <1>1. OthersKept(t) /\ Carries(t) /\ thr'[t].pc = "drop" /\ thr'[t].victims = Victims(t)
    BY <1>0, PruneAt DEF Prune
  <1>2. Private(t)
    BY <1>1 DEF Prune, Private, files
  <1>3. Onward(t)
    BY <1>0, <1>1 DEF Prune, At, Onward, Carries, Restores, Judged, SwitchesFirst, Backing, Unnamed
  <1> QED
    BY <1>2, <1>3, PrivateKeeps

LEMMA BackupDoneKeeps ==
  ASSUME TypeOK, AllAimed, Inv, TypeOK', NEW t \in Admins, BackupDone(t)
  PROVE  Inv'
  <1>0. thr[t].then \in {"idle", "switch.check", "swap", "clear.check"}
    BY Typed
  <1>1. OthersKept(t) /\ (thr'[t] = Idle \/ (Carries(t) /\ thr'[t].pc = thr[t].then))
    BY EndsAt, GotoAt DEF BackupDone
  <1>2. Private(t)
    BY <1>1 DEF BackupDone, Private, files, history
  <1>3. ASSUME Carries(t), thr'[t].pc = thr[t].then, thr[t].then # "idle" PROVE Onward(t)
    BY <1>0, <1>3 DEF BackupDone, At, Onward, Carries, Restores, Judged, SwitchesFirst, Backing,
       Unnamed, history
  <1>4. ASSUME thr[t].then = "idle" PROVE thr'[t] = Idle
    BY <1>4, EndsAt DEF BackupDone
  <1> QED
    BY <1>1, <1>2, <1>3, <1>4, PrivateKeeps

LEMMA JudgeKeeps ==
  ASSUME TypeOK, AllAimed, Inv, TypeOK', NEW t \in Admins, RestoreJudge(t)
  PROVE  Inv'
  <1>1. /\ OthersKept(t)
        /\ \/ thr'[t] = Idle
           \/ \E to \in Keys \cup {NoKey}, first, force \in BOOLEAN : Judges(t, to, first, force)
    BY JudgeDoes
  <1>2. Private(t)
    BY <1>1 DEF RestoreJudge, Private, files, history
  <1>3. CASE thr'[t] = Idle
    BY <1>2, <1>3, PrivateKeeps
  <1>4. ASSUME NEW to \in Keys \cup {NoKey}, NEW first \in BOOLEAN, NEW force \in BOOLEAN,
               Judges(t, to, first, force)
        PROVE  Inv'
    <2> DEFINE b == thr[t].archive
    <2>0. /\ thr[t].pc = "restore.judge" /\ Good(t) /\ Aimed(t) /\ b \in Ids /\ Archived(b)
          /\ runs \in Keys
      BY Typed DEF RestoreJudge, At, Inv, AllAimed, Aimed
    <2>1. /\ thr'[t].pc \in {"context", "swap", "switch.check"}
          /\ thr'[t].id = thr[t].id /\ thr'[t].archive = b /\ thr'[t].upload = thr[t].upload
          /\ thr'[t].then \in {"swap", "switch.check"}
          /\ thr'[t].pc # "context" => thr'[t].pc = thr'[t].then
          /\ thr'[t].force => thr'[t].first
          /\ thr'[t].first /\ world # Empty => thr'[t].pc = "context"
          /\ thr'[t].pc \notin Unnamed
      BY <1>4 DEF Judges, Unnamed
    <2>2. Restores(t) /\ Restores(t)'
      BY <2>0, <2>1 DEF Restores, Aimed
    <2>3. Quiet(t)
      BY <1>2, <2>1, <2>2 DEF Quiet, Private, KeepsIds, Mints, Unnamed
    <2>4. Numbered(t)' /\ Agrees(t)' /\ Unlabelled(t)' /\ Marked(t)'
      BY <2>0, <2>1, <2>2, <2>3 DEF Good, Numbered, Agrees, Unlabelled, Marked, Quiet, Judged,
         Unnamed
    <2>5. UNCHANGED <<overrun, moved, blind, server, sidecar, archive, runs, lost, twice, world>>
      BY DEF RestoreJudge, history, files
    <2>6. Alone(t)'
      BY <2>0, <2>1, <2>2, <2>5 DEF Good, Alone, Writes
    <2>7. ~thr'[t].force => /\ sidecar[b].label # NoKey
                            /\ IF thr'[t].then = "switch.check" THEN sidecar[b].label = thr'[t].to
                                                                ELSE sidecar[b].label = runs
      BY <1>4, <2>0 DEF Judges, Misfit, Target
    <2>8. SwitchesFirst(t)' <=> thr'[t].then = "switch.check"
      BY <2>1 DEF SwitchesFirst, Backing
    <2>9. Fits(t)'
      BY <2>1, <2>5, <2>7, <2>8 DEF Fits
    <2>10. HasArchive(t)'
      <3>1. thr[t].archive \notin twice /\ sidecar[b].label # NoKey => archive[b].file # "writing"
        BY <2>0 DEF Archived
      <3>2. archive[b].file \in {"none", "writing", "whole"}
        BY <2>0, Typed DEF Archive
      <3> QED
        BY <2>0, <2>1, <2>5, <2>7, <3>1, <3>2 DEF Good, HasArchive
    <2>11. HasCopy(t)'
      BY <2>1, <2>5 DEF HasCopy
    <2>12. Good(t)'
      BY <2>4, <2>6, <2>9, <2>10, <2>11 DEF Good
    <2> QED
      BY <2>3, <2>12, QuietKeeps
  <1> QED
    BY <1>1, <1>3, <1>4

LEMMA ChecksKeep ==
  ASSUME TypeOK, AllAimed, Inv, TypeOK', NEW t \in Admins,
         SwitchCheck(t) \/ ClearCheck(t) \/ SwitchRemove(t)
  PROVE  Inv'
  <1>1. /\ OthersKept(t)
        /\ \/ thr'[t] = Idle
           \/ /\ Carries(t)
              /\ \/ thr[t].pc = "switch.check" /\ thr'[t].pc = "switch.write"
                 \/ thr[t].pc = "clear.check" /\ thr'[t].pc = "clear"
                 \/ thr[t].pc = "switch.remove" /\ thr'[t].pc = "swap"
    BY EndsAt, GotoAt DEF SwitchCheck, ClearCheck, SwitchRemove, StoppedFor, LookupRaises, At
  <1>2. Private(t) /\ UNCHANGED history
    BY <1>1 DEF SwitchCheck, ClearCheck, SwitchRemove, Private, Down, files, history
  <1>3. ASSUME Carries(t),
               \/ thr[t].pc = "switch.check" /\ thr'[t].pc = "switch.write"
               \/ thr[t].pc = "clear.check" /\ thr'[t].pc = "clear"
               \/ thr[t].pc = "switch.remove" /\ thr'[t].pc = "swap"
        PROVE  Onward(t)
    BY <1>2, <1>3 DEF Onward, Carries, Restores, Judged, SwitchesFirst, Backing, Unnamed, history
  <1> QED
    BY <1>1, <1>2, <1>3, PrivateKeeps

\* The archive of a restore that begins is there, and nobody is still to write it.
LEMMA RestoreCheckKeeps ==
  ASSUME TypeOK, AllAimed, Inv, TypeOK', NEW t \in Admins, RestoreCheck(t)
  PROVE  Inv'
  <1> DEFINE b == thr[t].archive
  <1>0. thr[t].pc = "restore.check" /\ Good(t) /\ b \in Ids /\ Archived(b) /\ b # None
    BY Typed DEF RestoreCheck, At, Inv, AllAimed, Aimed
  <1>1. UNCHANGED <<world, runs, server, archive, sidecar, last, lost, twice, blind>>
    BY DEF RestoreCheck, files
  <1>2. CASE Ends(t) /\ UNCHANGED <<overrun, moved>>
    <2>1. Private(t) /\ thr'[t] = Idle
      BY <1>1, <1>2, EndsAt DEF Private
    <2> QED
      BY <2>1, PrivateKeeps
  <1>3. CASE /\ archive[b].file # "none" /\ Goto(t, "restore.judge")
             /\ \/ ~IsRunning /\ overrun' = overrun \ {t}
                \/ overrun' = overrun \cup {t}
             /\ moved' = moved \ {t}
    <2>1. OthersKept(t) /\ Carries(t) /\ thr'[t].pc = "restore.judge"
      BY <1>3, GotoAt
    <2>2. Good(t)'
      <3>1. /\ thr'[t].id = thr[t].id /\ thr'[t].archive = b /\ ~Judged(t)' /\ b <= last
            /\ thr'[t].upload = thr[t].upload
        BY <1>0, <1>3, <2>1 DEF Carries, Judged, Archived
      <3>2. Numbered(t)' /\ Agrees(t)' /\ Unlabelled(t)' /\ Marked(t)'
        BY <1>0, <1>1, <2>1, <3>1 DEF Good, Numbered, Agrees, Unlabelled, Marked, Unnamed
      <3>3. Alone(t)' /\ Fits(t)' /\ HasArchive(t)' /\ HasCopy(t)'
        BY <1>1, <1>3, <2>1, <3>1 DEF Alone, Fits, HasArchive, HasCopy, Writes
      <3> QED
        BY <3>2, <3>3 DEF Good
    <2>3. ASSUME NEW u \in Admins, u # t PROVE Good(u)'
      <3>1. Good(u) /\ Aimed(u) /\ thr'[u] = thr[u] /\ last <= last'
        BY <1>1, <2>1, <2>3, Typed DEF Inv, AllAimed, OthersKept
      <3>2. Watched(u) /\ IdKept(u) /\ ArchiveKept(u)
        BY <1>1, <1>3, <2>3, <3>1 DEF Watched, IdKept, ArchiveKept
      <3> QED
        BY <3>1, <3>2, GoodKept
    <2>4. ASSUME NEW v \in Admins, NEW w \in Admins PROVE Apart(v, w)'
      <3>1. Apart(v, w)
        BY DEF Inv
      <3>2. thr'[v].id = thr[v].id /\ thr'[w].id = thr[w].id /\ thr'[v].archive = thr[v].archive
        BY <2>1 DEF OthersKept, Carries
      <3>3. w # t => thr'[w].pc = thr[w].pc
        BY <2>1 DEF OthersKept
      <3>4. thr'[t].pc \notin Unnamed
        BY <2>1 DEF Unnamed
      <3>5. ASSUME v = t, Restores(t)', thr'[w].pc \in {"open", "adopt"}, thr'[w].id = b
            PROVE  b \in twice
        <4>1. Unlabelled(w) /\ thr[w].pc \in {"open", "adopt"} /\ thr[w].id = b
          BY <3>2, <3>3, <3>4, <3>5 DEF Inv, Good, Unnamed
        <4> QED
          BY <1>3, <4>1 DEF Unlabelled
      <3>6. CASE v = t
        BY <1>1, <1>3, <3>1, <3>2, <3>5, <3>6 DEF Apart
      <3>7. CASE v # t
        <4>1. thr'[v] = thr[v]
          BY <2>1, <3>7 DEF OthersKept
        <4> QED
          BY <1>1, <3>1, <3>2, <3>3, <3>4, <4>1 DEF Apart, Restores, Unnamed
      <3> QED
        BY <3>6, <3>7
    <2>5. \A c \in Ids : Archived(c)'
      BY <1>1 DEF Inv, Archived
    <2> QED
      BY <2>1, <2>2, <2>3, <2>4, <2>5 DEF Inv
  <1> QED
    BY <1>2, <1>3 DEF RestoreCheck, Refused, LookupRaises

\* Steps that leave the files alone, and change the world or the server's
\* template: whoever relies on either is recorded.
LEMMA SeenKeeps ==
  ASSUME TypeOK, AllAimed, Inv, TypeOK', NEW t \in Admins, OthersKept(t), KeepsIds(t), Good(t)',
         UNCHANGED <<archive, sidecar, last, lost, twice>>,
         \A u \in Admins \ {t} : Watched(u)
  PROVE  Inv'
  <1>1. ASSUME NEW u \in Admins, u # t PROVE Good(u)'
    <2>1. Good(u) /\ Aimed(u) /\ thr'[u] = thr[u] /\ Watched(u)
      BY <1>1 DEF Inv, AllAimed, OthersKept
    <2>2. IdKept(u) /\ ArchiveKept(u)
      BY DEF IdKept, ArchiveKept
    <2> QED
      BY <2>1, <2>2, GoodKept
  <1>2. \A v, w \in Admins : Apart(v, w)'
    BY ApartKept DEF RestoredUnwritten
  <1>3. \A b \in Ids : Archived(b)'
    BY DEF Inv, Archived
  <1> QED
    BY <1>1, <1>2, <1>3 DEF Inv

LEMMA SwitchWriteKeeps ==
  ASSUME TypeOK, AllAimed, Inv, TypeOK', NEW t \in Admins, SwitchWrite(t)
  PROVE  Inv'
  <1>0. /\ OthersKept(t) /\ Carries(t) /\ thr[t].pc = "switch.write" /\ thr'[t].pc = "switch.remove"
        /\ Good(t) /\ runs' = thr[t].to
    BY GotoAt DEF SwitchWrite, Inv, At
  <1>1. UNCHANGED <<world, server, archive, sidecar, last, lost, twice, overrun, blind>>
    BY DEF SwitchWrite, files
  <1>2. KeepsIds(t)
    BY <1>0, <1>1 DEF KeepsIds, Mints, Unnamed, Restores, Carries
  <1>3. ASSUME NEW u \in Admins \ {t} PROVE Watched(u)
    <2>1. last <= last' /\ (u \in moved => u \in moved')
      BY <1>1, Typed DEF SwitchWrite
    <2>2. runs' = runs \/ (Restores(u) => u \in moved')
      BY DEF SwitchWrite, Restorers, Others, Restores
    <2> QED
      BY <1>1, <2>1, <2>2 DEF Watched
  <1>4. Good(t)'
    <2>1. /\ Judged(t)' <=> Judged(t)
          /\ SwitchesFirst(t) /\ ~SwitchesFirst(t)'
          /\ Restores(t)' <=> Restores(t)
      BY <1>0 DEF Judged, Restores, SwitchesFirst, Carries, Backing
    <2>2. Numbered(t)' /\ Agrees(t)' /\ Unlabelled(t)' /\ Alone(t)' /\ Marked(t)'
      BY <1>0, <1>1, <2>1 DEF Good, Numbered, Agrees, Unlabelled, Alone, Marked, Carries, Unnamed,
         Writes
    <2>3. Fits(t)'
      BY <1>0, <1>1, <2>1 DEF Good, Fits, Carries
    <2>4. HasArchive(t)' /\ HasCopy(t)'
      BY <1>0, <1>1, <2>1 DEF Good, HasArchive, HasCopy, Copied, Carries
    <2> QED
      BY <2>2, <2>3, <2>4 DEF Good
  <1> QED
    BY <1>0, <1>1, <1>2, <1>3, <1>4, SeenKeeps

LEMMA DisturbsWatched ==
  ASSUME TypeOK, NEW t \in Admins, NEW u \in Admins \ {t},
         (UNCHANGED <<world, overrun, blind>> \/ Disturbs(Others(t))),
         UNCHANGED <<runs, server, last, lost, twice, moved>>
  PROVE  Watched(u)
  <1>1. last <= last'
    BY Typed
  <1> QED
    BY <1>1 DEF Watched, Disturbs, Restorers, Writers, Others, Restores, Writes

LEMMA WorldKeeps ==
  ASSUME TypeOK, AllAimed, Inv, TypeOK', NEW t \in Admins, Swap(t) \/ Unpack(t) \/ Clear(t)
  PROVE  Inv'
  <1>1. UNCHANGED <<archive, sidecar, last, lost, twice, runs, server, moved>>
    BY DEF Swap, Unpack, Clear, files
  <1>2. UNCHANGED <<world, overrun, blind>> \/ Disturbs(Others(t))
    BY DEF Swap, Unpack, Clear
  <1>3. \A u \in Admins \ {t} : Watched(u)
    BY <1>1, <1>2, DisturbsWatched
  <1>4. CASE thr'[t] = Idle /\ OthersKept(t)
    BY <1>1, <1>3, <1>4, FreshGood, FreshKeepsIds, SeenKeeps
  <1>5. CASE Swap(t) /\ world' = Empty /\ Goto(t, "unpack") /\ Disturbs(Others(t))
    <2>1. /\ OthersKept(t) /\ Carries(t) /\ thr'[t].pc = "unpack" /\ thr[t].pc = "swap"
          /\ Good(t)
      BY <1>5, GotoAt DEF Swap, At, Inv
    <2>2. KeepsIds(t)
      BY <1>1, <2>1 DEF KeepsIds, Mints, Unnamed, Restores, Carries
    <2>3. (t \in overrun => t \in overrun')
      BY <1>5 DEF Disturbs
    <2>4. Good(t)'
      <3>1. /\ Judged(t)' <=> Judged(t)
            /\ ~SwitchesFirst(t) /\ ~SwitchesFirst(t)'
            /\ Restores(t)' <=> Restores(t)
        BY <2>1 DEF Judged, Restores, SwitchesFirst, Carries, Backing
      <3>2. Numbered(t)' /\ Agrees(t)' /\ Unlabelled(t)' /\ Alone(t)' /\ Marked(t)'
        BY <1>1, <1>5, <2>1, <2>3, <3>1 DEF Good, Numbered, Agrees, Unlabelled, Alone, Marked,
           Carries, Unnamed, Writes
      <3>3. Fits(t)' /\ HasArchive(t)' /\ HasCopy(t)'
        BY <1>1, <2>1, <3>1 DEF Good, Fits, HasArchive, HasCopy, Carries
      <3> QED
        BY <3>2, <3>3 DEF Good
    <2> QED
      BY <1>1, <1>3, <2>1, <2>2, <2>4, SeenKeeps
  <1> QED
    BY <1>4, <1>5, EndsAt DEF Swap, Unpack, Clear

-----------------------------------------------------------------------------
(* Steps of a thread on the archive it writes.                             *)

Builds(t) ==
  LET b == thr[t].id IN
  /\ thr[t].pc \in Unnamed /\ KeepsIds(t)
  /\ OtherArchivesKept(b) /\ \A c \in Ids \ {b} : sidecar'[c] = sidecar[c]
  /\ UNCHANGED <<world, runs, server, last, lost, twice, moved, overrun, blind>>
  /\ archive[b].file = "none" /\ archive'[b].file # "none" => thr[t].pc \in {"open", "adopt"}
  /\ archive[b].file # "none" /\ archive'[b].file = "none" => thr'[t].pc \notin Unnamed
  /\ \/ archive'[b].file # "none" \/ sidecar'[b].label = NoKey
     \/ archive'[b] = archive[b] \/ b \in twice

\* Its archive is the one of no restore, unless shared or not yet named.
LEMMA BuildsArchive ==
  ASSUME TypeOK, AllAimed, Inv, NEW t \in Admins, Builds(t), NEW u \in Admins
  PROVE  ArchiveKept(u)
  <1> DEFINE b == thr[t].id
  <1>0. b \notin twice => sidecar[b].label = NoKey
    BY DEF Inv, Good, Unlabelled, Builds
  <1>1. Apart(u, t)
    BY DEF Inv
  <1>2. CASE thr[u].archive # b
    <2>1. Restores(u) => thr[u].archive \in Ids \ {b}
      BY <1>2, Typed DEF Restores
    <2> QED
      BY <2>1 DEF ArchiveKept, Builds, OtherArchivesKept
  <1>3. CASE thr[u].archive = b /\ b \in twice
    BY <1>3 DEF ArchiveKept, Builds
  <1>4. ASSUME thr[u].archive = b, b \notin twice, Restores(u)
        PROVE  ArchiveKept(u)
    <2>1. thr[t].pc \notin {"open", "adopt"}
      BY <1>1, <1>4 DEF Apart
    <2>2. archive[b].file = "none" => archive'[b].file = "none"
      BY <2>1 DEF Builds
    <2>3. thr[u].pc = "restore.judge" /\ b \notin lost => archive[b].file # "none"
      BY <1>1, <1>4 DEF Apart, Builds
    <2>4. CASE archive'[b].file # "none" \/ sidecar'[b].label = NoKey
      BY <1>0, <1>4, <2>2, <2>3, <2>4 DEF ArchiveKept
    <2>5. CASE archive'[b].file = "none" /\ archive'[b] = archive[b]
      BY <1>4, <2>3, <2>5 DEF ArchiveKept, Judged, Builds
    <2> QED
      BY <1>4, <2>4, <2>5 DEF Builds
  <1> QED
    BY <1>2, <1>3, <1>4 DEF ArchiveKept

\* What t knows of the archive it restores, while it writes its own.
LEMMA BuildsFits ==
  ASSUME TypeOK, AllAimed, Inv, NEW t \in Admins, Builds(t), Carries(t),
         thr'[t].pc \in Backing
  PROVE  /\ Fits(t)' /\ HasArchive(t)'
         /\ Judged(t)' <=> Judged(t)
         /\ Restores(t)' <=> Restores(t)
  <1> DEFINE b == thr[t].archive
  <1>0. ArchiveKept(t) /\ Fits(t) /\ HasArchive(t) /\ NoKey \notin Keys /\ runs \in Keys
    BY BuildsArchive, Typed DEF Inv, Good
  <1>1. /\ Judged(t)' <=> Judged(t)
        /\ SwitchesFirst(t)' <=> SwitchesFirst(t)
        /\ Restores(t)' <=> Restores(t)
        /\ Judged(t) => Restores(t)
        /\ thr'[t].pc # "restore.judge"
    BY DEF Builds, Unnamed, Judged, Restores, SwitchesFirst, Carries, Backing
  <1>2. UNCHANGED <<runs, lost, twice, moved>> /\ thr'[t].archive = b /\ thr'[t].to = thr[t].to
        /\ thr'[t].force = thr[t].force
    BY DEF Builds, Carries
  <1>3. Fits(t)'
    BY <1>0, <1>1, <1>2 DEF Fits, ArchiveKept
  <1>4. HasArchive(t)'
    BY <1>0, <1>1, <1>2 DEF HasArchive, ArchiveKept
  <1> QED
    BY <1>1, <1>3, <1>4

LEMMA BuildsKeeps ==
  ASSUME TypeOK, AllAimed, Inv, TypeOK', NEW t \in Admins, Builds(t), Good(t)',
         NEW b \in Ids, b = thr[t].id, Archived(b)'
  PROVE  Inv'
  <1>0. b \in Ids /\ Good(t) /\ (b \notin twice => sidecar[b].label = NoKey)
    BY Typed DEF Inv, Good, Numbered, Unlabelled, Builds
  <1>1. ASSUME NEW u \in Admins, u # t PROVE Good(u)'
    <2>1. Good(u) /\ Aimed(u) /\ thr'[u] = thr[u]
      BY <1>1 DEF Inv, AllAimed, Builds, KeepsIds, OthersKept
    <2>2. Watched(u)
      BY Typed DEF Watched, Builds
    <2>3. Apart(t, u) /\ Apart(u, t)
      BY DEF Inv
    <2>4. IdKept(u)
      <3>1. CASE thr[u].id = b
        BY <1>0, <1>1, <2>3, <3>1 DEF Apart, IdKept, Builds, None, Ids
      <3>2. CASE thr[u].id # b
        BY <3>2 DEF IdKept, Builds, OtherArchivesKept
      <3> QED
        BY <3>1, <3>2
    <2>5. ArchiveKept(u)
      BY BuildsArchive
    <2> QED
      BY <2>1, <2>2, <2>4, <2>5, GoodKept
  <1>2. ASSUME NEW c \in Ids, c # b PROVE Archived(c)'
    BY <1>2 DEF Inv, Archived, Builds, OtherArchivesKept
  <1>3. RestoredUnwritten(t)
    <2>1. ASSUME NEW v \in Admins \ {t}, thr[v].pc = "restore.judge",
                 thr[v].archive \notin lost' \cup twice', archive[thr[v].archive].file # "none",
                 archive'[thr[v].archive].file = "none"
          PROVE  /\ thr'[t].pc \notin Unnamed
                 /\ \A w \in Admins \ {t} : thr[w].id # thr[v].archive
      <3>1. thr[v].archive \in Ids
        BY <2>1, Typed DEF AllAimed, Aimed
      <3>2. thr[v].archive = b
        BY <2>1, <3>1 DEF Builds, OtherArchivesKept
      <3>3. ASSUME NEW w \in Admins \ {t}, thr[w].id = b PROVE FALSE
        <4>1. Apart(t, w) /\ b # None /\ b \notin twice
          BY <1>0, <2>1, <3>2 DEF Inv, Builds, Ids, None
        <4> QED
          BY <3>3, <4>1 DEF Apart
      <3> QED
        BY <2>1, <3>2, <3>3 DEF Builds
    <2> QED
      BY <2>1 DEF RestoredUnwritten
  <1>4. \A v, w \in Admins : Apart(v, w)'
    BY <1>3, ApartKept DEF Builds
  <1> QED
    BY <1>1, <1>2, <1>4 DEF Inv, Builds, KeepsIds, OthersKept

LEMMA WriteBeginsKeeps ==
  ASSUME TypeOK, AllAimed, Inv, TypeOK', NEW t \in Admins, WriteBegins(t)
  PROVE  Inv'
  <1> DEFINE a == [file |-> "writing", world |-> world, torn |-> FALSE]
  <1>0. PICK b \in Ids : b = thr[t].id /\ Good(t) /\ thr[t].pc = "open"
    BY Typed DEF WriteBegins, At, Inv, Good, Numbered, Unnamed
  <1>1. OthersKept(t) /\ Carries(t) /\ thr'[t].pc = "write" /\ thr'[t].running = thr[t].running
    BY GotoAt DEF WriteBegins
  <1>2. OtherArchivesKept(b) /\ archive'[b] = a /\ sidecar' = sidecar
    BY <1>0, WriteBeginsFiles DEF WriteBegins
  <1>3. a.file = "writing" /\ a.world = world /\ a.torn = FALSE
    OBVIOUS
  <1>4. UNCHANGED <<world, runs, server, last, lost, twice, moved, overrun, blind>>
    BY DEF WriteBegins, history
  <1> HIDE DEF a
  <1>5. KeepsIds(t)
    BY <1>0, <1>1, <1>4 DEF KeepsIds, Mints, Unnamed, Restores, Carries
  <1>6. Builds(t)
    BY <1>0, <1>1, <1>2, <1>3, <1>4, <1>5 DEF Builds, Unnamed
  <1>7. Archived(b)'
    BY <1>0, <1>2, <1>3, <1>4 DEF Archived, Good, Numbered, Unlabelled, Unnamed
  <1>8. Good(t)'
    <2>1. Fits(t)' /\ HasArchive(t)' /\ (Judged(t)' <=> Judged(t)) /\ (Restores(t)' <=> Restores(t))
      BY <1>1, <1>6, BuildsFits DEF Backing
    <2>2. Numbered(t)' /\ Agrees(t)' /\ Unlabelled(t)'
      BY <1>0, <1>1, <1>2, <1>4, <2>1 DEF Good, Numbered, Agrees, Unlabelled, Carries, Unnamed
    <2>3. Alone(t)' /\ Marked(t)'
      BY <1>0, <1>1, <1>2, <1>3, <1>4, <2>1 DEF Good, Alone, Marked, Carries, Writes
    <2>4. HasCopy(t)'
      BY <1>0, <1>1, <1>2, <1>3, <1>4 DEF HasCopy, Copied, Carries
    <2> QED
      BY <2>1, <2>2, <2>3, <2>4 DEF Good
  <1> QED
    BY <1>0, <1>6, <1>7, <1>8, BuildsKeeps

\* A thread that fails, or ends, after it wrote: the rest is as BuildsKeeps says.
LEMMA BuildsEnds ==
  ASSUME TypeOK, AllAimed, Inv, TypeOK', NEW t \in Admins, NEW b \in Ids, b = thr[t].id,
         thr[t].pc \in Unnamed, OthersKept(t), thr'[t] = Idle, OtherArchivesKept(b),
         \A c \in Ids \ {b} : sidecar'[c] = sidecar[c],
         UNCHANGED <<world, runs, server, last, lost, twice, moved, overrun, blind>>,
         archive[b].file = "none" => archive'[b].file = "none",
         \/ archive'[b].file # "none" \/ sidecar'[b].label = NoKey
         \/ archive'[b] = archive[b] \/ b \in twice,
         Archived(b)'
  PROVE  Inv'
  <1>1. KeepsIds(t) /\ thr'[t].pc \notin Unnamed /\ Good(t)'
    BY FreshKeepsIds, FreshGood
  <1>2. Builds(t)
    BY <1>1 DEF Builds
  <1> QED
    BY <1>1, <1>2, BuildsKeeps

LEMMA WriteEndsKeeps ==
  ASSUME TypeOK, AllAimed, Inv, TypeOK', NEW t \in Admins, WriteEnds(t)
  PROVE  Inv'
  <1>0. PICK b \in Ids : b = thr[t].id /\ Good(t) /\ thr[t].pc = "write" /\ Archived(b)
    BY Typed DEF WriteEnds, At, Inv, Good, Numbered, Unnamed
  <1>1. UNCHANGED <<world, runs, server, sidecar, last, lost, twice, moved, overrun, blind>>
    BY DEF WriteEnds, history
  <1>2. OtherArchivesKept(b)
    BY <1>0, WriteEndsFiles
  <1>3. NoArchive.file = "none" /\ NoArchive.torn = FALSE
    BY DEF NoArchive
  <1>4. CASE Ends(t) /\ archive'[b] = NoArchive
    <2>1. OthersKept(t) /\ thr'[t] = Idle
      BY <1>4, EndsAt
    <2>2. sidecar'[b].label = NoKey \/ b \in twice
      BY <1>0, <1>1 DEF Good, Unlabelled, Unnamed
    <2>3. Archived(b)'
      BY <1>0, <1>1, <1>3, <1>4, <2>2 DEF Archived, Good, Numbered
    <2> QED
      BY <1>0, <1>1, <1>2, <1>3, <1>4, <2>1, <2>2, <2>3, BuildsEnds DEF Unnamed
  <1>5. CASE /\ Goto(t, "sidecar")
             /\ archive[b].file = "none" => archive' = archive
             /\ archive[b].file # "none" =>
                  /\ archive'[b].file = "whole" /\ archive'[b].world = archive[b].world
                  /\ archive'[b].torn = (archive[b].torn \/ archive[b].world # world)
    <2>1. OthersKept(t) /\ Carries(t) /\ thr'[t].pc = "sidecar" /\ thr'[t].running = thr[t].running
      BY <1>5, GotoAt
    <2>2. KeepsIds(t)
      BY <1>0, <1>1, <2>1 DEF KeepsIds, Mints, Unnamed, Restores, Carries
    <2>3. Builds(t)
      BY <1>0, <1>1, <1>2, <1>5, <2>1, <2>2 DEF Builds, Unnamed
    <2>4. Archived(b)'
      BY <1>0, <1>1, <1>3, <1>5 DEF Archived, Good, Numbered
    <2>5. Fits(t)' /\ HasArchive(t)' /\ (Judged(t)' <=> Judged(t)) /\ (Restores(t)' <=> Restores(t))
      BY <2>1, <2>3, BuildsFits DEF Backing
    <2>6. Numbered(t)' /\ Agrees(t)' /\ Unlabelled(t)'
      BY <1>0, <1>1, <1>5, <2>1, <2>5 DEF Good, Numbered, Agrees, Unlabelled, Carries, Unnamed
    <2>7. Alone(t)' /\ Marked(t)'
      BY <1>0, <1>1, <1>3, <1>5, <2>1, <2>5 DEF Good, Alone, Marked, Carries, Writes, Archived
    <2>8. HasCopy(t)'
      BY <1>0, <1>1, <1>5, <2>1, <2>5 DEF Good, HasCopy, Copied, Carries
    <2>9. Good(t)'
      BY <2>5, <2>6, <2>7, <2>8 DEF Good
    <2> QED
      BY <1>0, <2>3, <2>4, <2>9, BuildsKeeps
  <1> QED
    BY <1>0, <1>4, <1>5, WriteEndsFiles

LEMMA AdoptKeeps ==
  ASSUME TypeOK, AllAimed, Inv, TypeOK', NEW t \in Admins, Adopt(t)
  PROVE  Inv'
  <1>0. PICK b \in Ids : b = thr[t].id /\ Good(t) /\ thr[t].pc = "adopt"
    BY Typed DEF Adopt, At, Inv, Good, Numbered, Unnamed
  <1>1. UNCHANGED <<world, runs, server, sidecar, last, lost, twice, moved, overrun, blind>>
    BY DEF Adopt, history
  <1>2. OtherArchivesKept(b) /\ archive'[b].file = "writing"
    BY <1>0, AdoptFiles
  <1>3. OthersKept(t) /\ Carries(t) /\ thr'[t].pc = "copy"
    BY AdoptFiles, AdoptAt
  <1>4. KeepsIds(t)
    BY <1>0, <1>1, <1>3 DEF KeepsIds, Mints, Unnamed, Restores, Carries
  <1>5. Builds(t)
    BY <1>0, <1>1, <1>2, <1>3, <1>4 DEF Builds, Unnamed
  <1>6. Archived(b)'
    BY <1>0, <1>1, <1>2 DEF Archived, Good, Numbered, Unlabelled, Unnamed
  <1>7. Fits(t)' /\ HasArchive(t)' /\ (Judged(t)' <=> Judged(t)) /\ (Restores(t)' <=> Restores(t))
    BY <1>3, <1>5, BuildsFits DEF Backing
  <1>8. Numbered(t)' /\ Agrees(t)' /\ Unlabelled(t)'
    BY <1>0, <1>1, <1>3, <1>7 DEF Good, Numbered, Agrees, Unlabelled, Carries, Unnamed
  <1>9. Alone(t)' /\ Marked(t)' /\ HasCopy(t)'
    BY <1>0, <1>1, <1>3, <1>7 DEF Good, Alone, Marked, HasCopy, Carries, Writes
  <1>10. Good(t)'
    BY <1>7, <1>8, <1>9 DEF Good
  <1> QED
    BY <1>0, <1>5, <1>6, <1>10, BuildsKeeps

LEMMA AdoptEndsKeeps ==
  ASSUME TypeOK, AllAimed, Inv, TypeOK', NEW t \in Admins, AdoptEnds(t)
  PROVE  Inv'
  <1>0. PICK b \in Ids : b = thr[t].id /\ Good(t) /\ thr[t].pc = "copy" /\ Archived(b)
    BY Typed DEF AdoptEnds, At, Inv, Good, Numbered, Unnamed
  <1>1. UNCHANGED <<world, runs, server, sidecar, last, lost, twice, moved, overrun, blind>>
    BY DEF AdoptEnds
  <1>2. OtherArchivesKept(b)
    BY <1>0, AdoptEndsFiles
  <1>3. CASE Ends(t) /\ archive' = archive
    <2>1. OthersKept(t) /\ thr'[t] = Idle
      BY <1>3, EndsAt
    <2>2. Archived(b)'
      BY <1>0, <1>1, <1>3 DEF Archived
    <2> QED
      BY <1>0, <1>1, <1>2, <1>3, <2>1, <2>2, BuildsEnds DEF Unnamed
  <1>4. CASE /\ Goto(t, "sidecar")
             /\ archive[b].file = "none" => archive' = archive
             /\ archive[b].file # "none" =>
                  /\ archive'[b].file = "whole" /\ archive'[b].world = archive[b].world
                  /\ archive'[b].torn = archive[b].torn
    <2>1. OthersKept(t) /\ Carries(t) /\ thr'[t].pc = "sidecar"
      BY <1>4, GotoAt
    <2>2. KeepsIds(t)
      BY <1>0, <1>1, <2>1 DEF KeepsIds, Mints, Unnamed, Restores, Carries
    <2>3. Builds(t)
      BY <1>0, <1>1, <1>2, <1>4, <2>1, <2>2 DEF Builds, Unnamed
    <2>4. Archived(b)'
      BY <1>0, <1>1, <1>4 DEF Archived, Good, Numbered
    <2>5. Fits(t)' /\ HasArchive(t)' /\ (Judged(t)' <=> Judged(t)) /\ (Restores(t)' <=> Restores(t))
      BY <2>1, <2>3, BuildsFits DEF Backing
    <2>6. Numbered(t)' /\ Agrees(t)' /\ Unlabelled(t)'
      BY <1>0, <1>1, <1>4, <2>1, <2>5 DEF Good, Numbered, Agrees, Unlabelled, Carries, Unnamed
    <2>7. Alone(t)' /\ Marked(t)'
      BY <1>0, <1>1, <2>1, <2>5 DEF Good, Agrees, Alone, Marked, Carries, Writes
    <2>8. HasCopy(t)'
      BY <1>0, <2>1, <2>5 DEF Good, Agrees, HasCopy, Carries, Judged, Restores
    <2>9. Good(t)'
      BY <2>5, <2>6, <2>7, <2>8 DEF Good
    <2> QED
      BY <1>0, <2>3, <2>4, <2>9, BuildsKeeps
  <1> QED
    BY <1>0, <1>3, <1>4, AdoptEndsFiles

LEMMA WriteSidecarKeeps ==
  ASSUME TypeOK, AllAimed, Inv, TypeOK', NEW t \in Admins, WriteSidecar(t)
  PROVE  Inv'
  <1>0. PICK b \in Ids : b = thr[t].id /\ Good(t) /\ thr[t].pc = "sidecar" /\ Archived(b)
    BY Typed DEF WriteSidecar, At, Inv, Good, Numbered, Unnamed
  <1>1. UNCHANGED <<world, runs, server, archive, last, lost, twice, moved, overrun, blind>>
    BY DEF WriteSidecar, history
  <1>2. OtherArchivesKept(b) /\ \A c \in Ids \ {b} : sidecar'[c] = sidecar[c]
    BY <1>0, <1>1, SidecarType DEF OtherArchivesKept
  <1>3. Archived(b)'
    BY <1>0, <1>1 DEF Archived, Good, Numbered, Unlabelled, Unnamed
  <1>4. CASE archive[b].file = "none"
    <2>1. OthersKept(t) /\ thr'[t] = Idle
      BY <1>0, <1>4, EndsAt DEF WriteSidecar
    <2> QED
      BY <1>0, <1>1, <1>2, <1>3, <2>1, BuildsEnds DEF Unnamed
  <1>5. CASE archive[b].file # "none"
    <2>1. OthersKept(t) /\ Carries(t) /\ thr'[t].pc = "prune"
      BY <1>0, <1>5, SidecarAt DEF WriteSidecar
    <2>2. KeepsIds(t)
      BY <1>0, <1>1, <2>1 DEF KeepsIds, Mints, Unnamed, Restores, Carries
    <2>3. Builds(t)
      BY <1>0, <1>1, <1>2, <1>5, <2>1, <2>2 DEF Builds, Unnamed
    <2>5. Fits(t)' /\ HasArchive(t)' /\ (Judged(t)' <=> Judged(t)) /\ (Restores(t)' <=> Restores(t))
      BY <2>1, <2>3, BuildsFits DEF Backing
    <2>6. Numbered(t)' /\ Agrees(t)' /\ Unlabelled(t)'
      BY <1>0, <1>1, <2>1, <2>5 DEF Good, Numbered, Agrees, Unlabelled, Carries, Unnamed
    <2>7. Alone(t)' /\ Marked(t)'
      BY <1>0, <1>1, <2>1, <2>5 DEF Good, Alone, Marked, Carries, Writes
    <2>8. HasCopy(t)'
      BY <1>0, <1>1, <2>1, <2>5 DEF Good, HasCopy, Copied, Carries
    <2>9. Good(t)'
      BY <2>5, <2>6, <2>7, <2>8 DEF Good
    <2> QED
      BY <1>0, <1>3, <2>3, <2>9, BuildsKeeps
  <1> QED
    BY <1>4, <1>5

LEMMA IdsAreNat ==
  ASSUME TypeOK, NEW t \in Admins
  PROVE  thr[t].id \in Nat /\ thr[t].archive \in Nat
  <1>1. thr[t].id \in Ids \cup {None} /\ thr[t].archive \in Ids \cup {None}
    BY Typed
  <1>2. Ids \cup {None} \subseteq Nat
    BY DEF Ids, None
  <1> QED
    BY <1>1, <1>2

\* The new id is newer than any, or marked as taken twice.
LEMMA MintKeeps ==
  ASSUME TypeOK, AllAimed, Inv, TypeOK', NEW t \in Admins, Mint(t)
  PROVE  Inv'
  <1>0. /\ Good(t) /\ thr[t].pc = "mint" /\ last \in Nat /\ last' \in Ids /\ last' \in Nat
        /\ None \notin Ids /\ Ids \subseteq Nat
    BY Typed DEF Mint, At, Inv, TypeOK, Ids, None
  <1>1. /\ OthersKept(t) /\ thr'[t].id = last'
        /\ thr'[t].pc = IF thr[t].upload THEN "adopt" ELSE "open"
        /\ thr'[t].running = thr[t].running /\ thr'[t].upload = thr[t].upload
        /\ thr'[t].archive = thr[t].archive /\ thr'[t].to = thr[t].to
        /\ thr'[t].first = thr[t].first /\ thr'[t].force = thr[t].force
        /\ thr'[t].then = thr[t].then
    <2>1. PICK pc \in {"adopt", "open"} : pc = IF thr[t].upload THEN "adopt" ELSE "open"
      OBVIOUS
    <2>2. thr' = [thr EXCEPT ![t].pc = pc, ![t].id = last']
      BY <2>1 DEF Mint
    <2>3. /\ OthersKept(t) /\ thr'[t].id = last' /\ thr'[t].pc = pc
          /\ thr'[t].running = thr[t].running /\ thr'[t].upload = thr[t].upload
          /\ thr'[t].archive = thr[t].archive /\ thr'[t].to = thr[t].to
          /\ thr'[t].first = thr[t].first /\ thr'[t].force = thr[t].force
          /\ thr'[t].then = thr[t].then
      BY <1>0, <2>2, MintAt
    <2> QED
      BY <2>1, <2>3
  <1>2. UNCHANGED <<world, runs, server, archive, sidecar, lost, moved, overrun, blind>>
    BY DEF Mint
  <1>3. \/ last' = last + 1 /\ twice' = twice
        \/ last' = last /\ twice' = twice \cup {last}
    BY DEF Mint
  <1>4. last <= last' /\ twice \subseteq twice' /\ \A n \in Nat : n <= last => n <= last'
    BY <1>0, <1>3
  <1>5. \A n \in Nat : n <= last /\ n = last' => n \in twice'
    BY <1>0, <1>3
  <1>6. Good(t)'
    <2>1. /\ Judged(t)' <=> Judged(t)
          /\ SwitchesFirst(t)' <=> SwitchesFirst(t)
          /\ Restores(t)' <=> Restores(t)
          /\ thr'[t].pc \in {"adopt", "open"}
      BY <1>0, <1>1 DEF Judged, Restores, SwitchesFirst, Backing
    <2>2. Numbered(t)'
      <3>1. thr[t].archive \in Nat
        BY IdsAreNat
      <3> QED
        BY <1>0, <1>1, <1>4, <2>1, <3>1 DEF Good, Numbered
    <2>3. Agrees(t)' /\ Marked(t)' /\ HasCopy(t)'
      BY <1>0, <1>1, <2>1 DEF Good, Agrees, Marked, HasCopy
    <2>4. Unlabelled(t)'
      <3>1. ASSUME last' \notin twice'
            PROVE  archive[last'].file = "none" /\ sidecar[last'].label = NoKey
        <4>1. Archived(last') /\ ~(last' <= last)
          BY <1>0, <1>3, <3>1 DEF Inv
        <4> QED
          BY <4>1 DEF Archived
      <3> QED
        BY <1>1, <1>2, <2>1, <3>1 DEF Unlabelled
    <2>5. Alone(t)'
      BY <1>0, <1>1, <1>2, <2>1 DEF Good, Alone, Writes
    <2>6. Fits(t)' /\ HasArchive(t)'
      BY <1>0, <1>1, <1>2, <1>4, <2>1 DEF Good, Fits, HasArchive
    <2> QED
      BY <2>2, <2>3, <2>4, <2>5, <2>6 DEF Good
  <1>7. ASSUME NEW u \in Admins, u # t PROVE Good(u)'
    <2>1. Good(u) /\ Aimed(u) /\ thr'[u] = thr[u]
      BY <1>1, <1>7 DEF Inv, AllAimed, OthersKept
    <2>2. Watched(u) /\ IdKept(u) /\ ArchiveKept(u)
      BY <1>2, <1>4 DEF Watched, IdKept, ArchiveKept
    <2> QED
      BY <2>1, <2>2, GoodKept
  <1>8. ASSUME NEW v \in Admins, NEW w \in Admins PROVE Apart(v, w)'
    <2>0. Apart(v, w) /\ Good(v) /\ Good(w) /\ Aimed(v)
      BY DEF Inv, AllAimed
    <2>1. /\ thr[v].id <= last /\ thr[w].id <= last /\ thr[v].id \in Nat /\ thr[w].id \in Nat
          /\ thr[v].archive \in Nat /\ (Restores(v) => thr[v].archive <= last)
          /\ thr[v].pc = "restore.judge" => Restores(v)
      BY <2>0, IdsAreNat DEF Good, Numbered, Aimed, Restores
    <2>2. /\ thr'[v].archive = thr[v].archive /\ (Restores(v)' <=> Restores(v))
          /\ v # t => thr'[v] = thr[v]
          /\ w # t => thr'[w] = thr[w]
          /\ thr'[t].pc # "restore.judge"
      BY <1>0, <1>1 DEF OthersKept, Restores
    <2>3. v # w /\ thr'[v].id = thr'[w].id => thr'[v].id \in twice' \cup {None}
      BY <1>1, <1>4, <1>5, <2>0, <2>1, <2>2 DEF Apart
    <2>4. Restores(v)' /\ thr'[w].pc \in {"open", "adopt"} /\ thr'[w].id = thr'[v].archive
            => thr'[v].archive \in twice'
      BY <1>1, <1>4, <1>5, <2>0, <2>1, <2>2 DEF Apart
    <2>5. thr'[v].pc = "restore.judge" /\ thr'[v].archive \notin lost' \cup twice'
            /\ archive'[thr'[v].archive].file = "none" /\ thr'[w].id = thr'[v].archive
            => thr'[w].pc \notin Unnamed
      BY <1>1, <1>2, <1>4, <1>5, <2>0, <2>1, <2>2 DEF Apart
    <2> QED
      BY <2>3, <2>4, <2>5 DEF Apart
  <1>9. ASSUME NEW c \in Ids PROVE Archived(c)'
    <2>1. Archived(c) /\ c \in Nat
      BY <1>0 DEF Inv
    <2> QED
      BY <1>2, <1>4, <2>1 DEF Archived
  <1> QED
    BY <1>6, <1>7, <1>8, <1>9, <1>1 DEF Inv

-----------------------------------------------------------------------------
(* Steps that drop archives and sidecars, and those of nobody's thread.    *)

LEMMA RemovedAt ==
  ASSUME TypeOK, NEW b \in Ids, Removed(b)
  PROVE  /\ archive'[b] = NoArchive /\ sidecar'[b] = NoSidecar
         /\ OtherArchivesKept(b) /\ \A c \in Ids \ {b} : sidecar'[c] = sidecar[c]
         /\ NoArchive.file = "none" /\ NoSidecar.label = NoKey
  BY DEF TypeOK, Removed, OtherArchivesKept, NoArchive, NoSidecar

LEMMA RemovalKeeps ==
  ASSUME TypeOK, AllAimed, Inv, TypeOK', NEW t \in Admins, NEW b \in Ids, Removed(b),
         lost' = (IF ReliedOn(t, b) THEN lost \cup {b} ELSE lost),
         UNCHANGED <<world, runs, server, last, twice, moved, overrun, blind>>,
         KeepsIds(t), Good(t)'
  PROVE  Inv'
  <1>1. ASSUME NEW u \in Admins, u # t PROVE Good(u)'
    <2>1. Good(u) /\ Aimed(u) /\ thr'[u] = thr[u]
      BY <1>1 DEF Inv, AllAimed, KeepsIds, OthersKept
    <2>2. Watched(u)
      BY Typed DEF Watched
    <2>3. b \in {thr[u].archive, thr[u].id} => b \in lost'
      BY <1>1 DEF ReliedOn, Others
    <2>4. IdKept(u)
      BY <2>3, RemovedAt DEF IdKept, OtherArchivesKept
    <2>5. ArchiveKept(u)
      <3>1. Restores(u) => thr[u].archive \in Ids
        BY Typed DEF Restores
      <3> QED
        BY <2>3, <3>1, RemovedAt DEF ArchiveKept, OtherArchivesKept
    <2> QED
      BY <2>1, <2>2, <2>4, <2>5, GoodKept
  <1>2. RestoredUnwritten(t)
    <2>1. ASSUME NEW v \in Admins \ {t}, thr[v].pc = "restore.judge",
                 thr[v].archive \notin lost' \cup twice', archive[thr[v].archive].file # "none",
                 archive'[thr[v].archive].file = "none"
          PROVE  FALSE
      <3>1. thr[v].archive \in Ids /\ thr[v].archive # b
        BY <2>1, Typed DEF AllAimed, Aimed, ReliedOn, Others
      <3> QED
        BY <2>1, <3>1, RemovedAt DEF OtherArchivesKept
    <2> QED
      BY <2>1 DEF RestoredUnwritten
  <1>3. \A v, w \in Admins : Apart(v, w)'
    BY <1>2, ApartKept
  <1>4. ASSUME NEW c \in Ids PROVE Archived(c)'
    BY RemovedAt DEF Inv, Archived, OtherArchivesKept
  <1> QED
    BY <1>1, <1>3, <1>4 DEF Inv

LEMMA DeleteKeeps ==
  ASSUME TypeOK, AllAimed, Inv, TypeOK', NEW t \in Admins, NEW b \in Ids, DeleteBackup(t, b)
  PROVE  Inv'
  <1>1. /\ thr[t].pc = "idle" /\ thr' = thr /\ Removed(b)
        /\ lost' = IF ReliedOn(t, b) THEN lost \cup {b} ELSE lost
        /\ UNCHANGED <<world, runs, server, last, twice, moved, overrun, blind>>
    BY DEF DeleteBackup, At
  <1>2. KeepsIds(t)
    BY <1>1 DEF KeepsIds, OthersKept, Mints, Unnamed, Restores
  <1>3. Good(t)'
    <2>1. Good(t) /\ Aimed(t) /\ thr'[t] = thr[t]
      BY <1>1 DEF Inv, AllAimed
    <2>2. Watched(t) /\ ArchiveKept(t)
      BY <1>1, Typed DEF Watched, ArchiveKept, Restores
    <2>3. IdKept(t)
      BY <1>1, RemovedAt DEF IdKept, OtherArchivesKept, ReliedOn
    <2> QED
      BY <2>1, <2>2, <2>3, GoodKept
  <1> QED
    BY <1>1, <1>2, <1>3, RemovalKeeps

LEMMA DropKeeps ==
  ASSUME TypeOK, AllAimed, Inv, TypeOK', NEW t \in Admins, Drop(t)
  PROVE  Inv'
  <1>0. PICK b \in Ids : b = Max(thr[t].victims) /\ b \in thr[t].victims
    BY HasMax, Typed DEF Drop
  <1>1. Good(t) /\ thr[t].pc = "drop" /\ thr[t].archive # b
    BY <1>0 DEF Drop, At, Inv, Good, Agrees
  <1>2. UNCHANGED <<world, runs, server, last, twice, moved, overrun, blind>>
    BY DEF Drop
  <1>3. CASE Ends(t) /\ UNCHANGED <<archive, sidecar, lost>>
    <2>1. Private(t) /\ thr'[t] = Idle
      BY <1>2, <1>3, EndsAt DEF Private
    <2> QED
      BY <2>1, PrivateKeeps
  <1>4. CASE /\ Removed(b) /\ thr' = [thr EXCEPT ![t].victims = @ \ {b}]
             /\ lost' = IF ReliedOn(t, b) THEN lost \cup {b} ELSE lost
    <2>1. /\ OthersKept(t) /\ Carries(t) /\ thr'[t].pc = "drop"
          /\ thr'[t].victims = thr[t].victims \ {b} /\ thr'[t].running = thr[t].running
      BY <1>1, <1>4, DropAt
    <2>2. lost \subseteq lost' /\ (thr[t].id = b => b \in lost')
      BY <1>4 DEF ReliedOn
    <2>3. KeepsIds(t)
      BY <1>1, <1>2, <2>1, <2>2 DEF KeepsIds, Mints, Unnamed, Restores, Carries
    <2>4. /\ Judged(t)' <=> Judged(t)
          /\ SwitchesFirst(t)' <=> SwitchesFirst(t)
          /\ Restores(t)' <=> Restores(t)
          /\ Judged(t) => Restores(t)
      BY <1>1, <2>1 DEF Judged, Restores, SwitchesFirst, Carries
    <2>5. Numbered(t)' /\ Agrees(t)' /\ Unlabelled(t)' /\ Alone(t)' /\ Marked(t)'
      BY <1>1, <1>2, <2>1, <2>4 DEF Good, Numbered, Agrees, Unlabelled, Alone, Marked, Carries,
         Unnamed, Writes
    <2>6. Restores(t) => /\ archive'[thr[t].archive] = archive[thr[t].archive]
                         /\ sidecar'[thr[t].archive] = sidecar[thr[t].archive]
      BY <1>1, <1>4, RemovedAt, Typed DEF Restores, OtherArchivesKept
    <2>7. Fits(t)'
      BY <1>1, <1>2, <2>1, <2>4, <2>6 DEF Good, Fits, Carries
    <2>8. HasArchive(t)'
      BY <1>1, <1>2, <2>1, <2>2, <2>4, <2>6 DEF Good, HasArchive, Carries
    <2>9. HasCopy(t)'
      <3>1. thr[t].id \in Ids
        BY <1>1, Typed DEF Good, Numbered
      <3>2. thr[t].id # b => archive'[thr[t].id] = archive[thr[t].id]
        BY <1>4, <3>1, RemovedAt DEF OtherArchivesKept
      <3> QED
        BY <1>1, <1>2, <2>1, <2>2, <2>4, <3>2 DEF Good, HasCopy, Copied, Carries
    <2>10. Good(t)'
      BY <2>5, <2>7, <2>8, <2>9 DEF Good
    <2> QED
      BY <1>2, <1>4, <2>3, <2>10, RemovalKeeps
  <1> QED
    BY <1>0, <1>3, <1>4 DEF Drop

\* The server, and the sweep of sidecars whose archive is gone.
LEMMA StillKeeps ==
  ASSUME TypeOK, AllAimed, Inv, TypeOK', UNCHANGED <<thr, archive, last, lost, twice>>,
         \A u \in Admins : Watched(u),
         \A c \in Ids : \/ sidecar'[c] = sidecar[c]
                        \/ archive[c].file = "none" /\ sidecar'[c].label = NoKey
  PROVE  Inv'
  <1>1. ASSUME NEW u \in Admins PROVE Good(u)'
    <2>1. Good(u) /\ Aimed(u) /\ thr'[u] = thr[u] /\ Watched(u)
      BY DEF Inv, AllAimed
    <2>2. IdKept(u)
      BY DEF IdKept
    <2>3. ArchiveKept(u)
      <3>1. Restores(u) => thr[u].archive \in Ids
        BY Typed DEF Restores
      <3> QED
        BY <3>1 DEF ArchiveKept
    <2> QED
      BY <2>1, <2>2, <2>3, GoodKept
  <1>2. ASSUME NEW v \in Admins, NEW w \in Admins PROVE Apart(v, w)'
    BY DEF Inv, Apart, Restores
  <1>3. ASSUME NEW c \in Ids PROVE Archived(c)'
    BY DEF Inv, Archived
  <1> QED
    BY <1>1, <1>2, <1>3 DEF Inv

LEMMA ServerKeeps ==
  ASSUME TypeOK, AllAimed, Inv, TypeOK', Server
  PROVE  Inv'
  <1>1. UNCHANGED <<thr, archive, sidecar, last, lost, twice>>
    BY DEF Server, ServerStarts, ServerEnds, DockerRestarts, ServerSaves, TemplateEdited, files,
       history
  <1>2. ASSUME NEW u \in Admins PROVE Watched(u)
    <2>1. last <= last'
      BY <1>1, Typed
    <2>2. CASE ServerStarts \/ DockerRestarts
      BY <1>1, <2>1, <2>2 DEF Watched, ServerStarts, DockerRestarts, Disturbs, Restorers, Writers,
         Restores, Writes, files
    <2>3. CASE ServerEnds
      <3>1. \/ IsRunning
            \/ server' = Down /\ Down.status = "down"
        BY <2>3, PlayingType DEF ServerEnds, TypeOK
      <3>2. IsRunning' => IsRunning
        BY <3>1
      <3>3. UNCHANGED <<world, runs, thr, lost, twice, moved, overrun, blind, aborted>>
        BY <2>3 DEF ServerEnds, history
      <3> QED
        BY <1>1, <2>1, <3>2, <3>3 DEF Watched
    <2>4. CASE ServerSaves
      BY <1>1, <2>1, <2>4 DEF Watched, ServerSaves, history, files
    <2>5. CASE TemplateEdited
      BY <1>1, <2>1, <2>5 DEF Watched, TemplateEdited, Restorers, Restores, files
    <2> QED
      BY <2>2, <2>3, <2>4, <2>5 DEF Server
  <1> QED
    BY <1>1, <1>2, StillKeeps

LEMMA SweepKeeps ==
  ASSUME TypeOK, AllAimed, Inv, TypeOK', Sweep
  PROVE  Inv'
  <1>1. UNCHANGED <<world, runs, server, thr, archive, last, history>>
    BY DEF Sweep
  <1>2. \A u \in Admins : Watched(u)
    BY <1>1, Typed DEF Watched, history
  <1>3. \A c \in Ids : \/ sidecar'[c] = sidecar[c]
                       \/ archive[c].file = "none" /\ sidecar'[c].label = NoKey
    BY DEF Sweep, NoSidecar
  <1> QED
    BY <1>1, <1>2, <1>3, StillKeeps DEF history

LEMMA RestartKeeps ==
  ASSUME TypeOK, AllAimed, Inv, TypeOK', ManagerRestarts
  PROVE  Inv'
  <1>1. UNCHANGED <<world, runs, server, archive, sidecar, last, lost, twice, moved, overrun, blind>>
    BY DEF ManagerRestarts, files
  <1>2. ASSUME NEW u \in Admins PROVE Good(u)'
    <2>1. CASE thr'[u] = Idle
      BY <2>1, FreshGood
    <2>2. CASE thr'[u] = thr[u]
      <3>1. Good(u) /\ Aimed(u)
        BY DEF Inv, AllAimed
      <3>2. Watched(u) /\ IdKept(u) /\ ArchiveKept(u)
        BY <1>1, Typed DEF Watched, IdKept, ArchiveKept
      <3> QED
        BY <2>2, <3>1, <3>2, GoodKept
    <2> QED
      BY <2>1, <2>2, RestartAt
  <1>3. ASSUME NEW v \in Admins, NEW w \in Admins PROVE Apart(v, w)'
    <2>1. Apart(v, w) /\ Aimed(v)
      BY DEF Inv, AllAimed
    <2>2. thr'[v] \in {thr[v], Idle} /\ thr'[w] \in {thr[w], Idle}
      BY RestartAt
    <2>3. v # w /\ thr'[v].id = thr'[w].id => thr'[v].id \in twice' \cup {None}
      BY <1>1, <2>1, <2>2, IdleFields DEF Apart
    <2>4. Restores(v)' /\ thr'[w].pc \in {"open", "adopt"} /\ thr'[w].id = thr'[v].archive
            => thr'[v].archive \in twice'
      BY <1>1, <2>1, <2>2, IdleFields DEF Apart, Restores
    <2>5. thr'[v].pc = "restore.judge" /\ thr'[v].archive \notin lost' \cup twice'
            /\ archive'[thr'[v].archive].file = "none" /\ thr'[w].id = thr'[v].archive
            => thr'[w].pc \notin Unnamed
      BY <1>1, <2>1, <2>2, IdleFields DEF Apart, Unnamed
    <2> QED
      BY <2>3, <2>4, <2>5 DEF Apart
  <1>4. ASSUME NEW c \in Ids PROVE Archived(c)'
    BY <1>1 DEF Inv, Archived
  <1> QED
    BY <1>2, <1>3, <1>4 DEF Inv

LEMMA InitInv == Init => Inv
  <1> SUFFICES ASSUME Init PROVE Inv
    OBVIOUS
  <1>1. ASSUME NEW t \in Admins PROVE thr[t] = Idle
    BY DEF Init
  <1>2. ASSUME NEW t \in Admins PROVE Good(t)
    <2>1. /\ thr[t].id = None /\ ~Restores(t) /\ thr[t].pc = "idle" /\ ~thr[t].upload
          /\ ~Judged(t) /\ None <= last
      BY <1>1, IdleFields DEF Restores, Judged, Init, None
    <2>2. Numbered(t) /\ Agrees(t) /\ Unlabelled(t) /\ Alone(t) /\ Marked(t)
      BY <2>1 DEF Numbered, Agrees, Unlabelled, Alone, Marked, Unnamed, Writes
    <2>3. Fits(t) /\ HasArchive(t) /\ HasCopy(t)
      BY <2>1 DEF Fits, HasArchive, HasCopy
    <2> QED
      BY <2>2, <2>3 DEF Good
  <1>3. ASSUME NEW t \in Admins, NEW u \in Admins PROVE Apart(t, u)
    BY <1>1, IdleFields DEF Apart, Restores
  <1>4. ASSUME NEW b \in Ids PROVE Archived(b)
    <2>1. CASE b > Keep
      <3>1. archive[b] = NoArchive /\ sidecar[b] = NoSidecar
        BY <2>1 DEF Init
      <3> QED
        BY <3>1 DEF Archived, NoArchive, NoSidecar
    <2>2. CASE ~(b > Keep)
      <3>1. archive[b].file = "whole" /\ b <= last
        BY <2>2 DEF Init, Ids
      <3> QED
        BY <3>1 DEF Archived
    <2> QED
      BY <2>1, <2>2
  <1> QED
    BY <1>2, <1>3, <1>4 DEF Inv

LEMMA StepInv ==
  ASSUME TypeOK, AllAimed, Inv, [Next]_vars, TypeOK'
  PROVE  Inv'
  <1>1. CASE UNCHANGED vars
    <2>1. UNCHANGED <<world, runs, server, archive, sidecar, last, thr, lost, twice, moved,
                      overrun, blind>>
      BY <1>1 DEF vars
    <2>2. \A u \in Admins : Watched(u)
      BY <2>1, Typed DEF Watched
    <2> QED
      BY <2>1, <2>2, StillKeeps
  <1>2. CASE Server
    BY <1>2, ServerKeeps
  <1>3. CASE Sweep
    BY <1>3, SweepKeeps
  <1>4. CASE ManagerRestarts
    BY <1>4, RestartKeeps
  <1>5. ASSUME NEW t \in Admins, Ask(t) PROVE Inv'
    BY <1>5, AsksKeeps, DeleteKeeps DEF Ask, Asks
  <1>6. ASSUME NEW t \in Admins, Backup(t) PROVE Inv'
    BY <1>6, ContextKeeps, LookKeeps, MintKeeps, WriteBeginsKeeps, WriteEndsKeeps, AdoptKeeps,
       AdoptEndsKeeps, WriteSidecarKeeps, PruneKeeps, DropKeeps, BackupDoneKeeps DEF Backup
  <1>7. ASSUME NEW t \in Admins, Restore(t) \/ ClearCheck(t) \/ Clear(t) PROVE Inv'
    BY <1>7, RestoreCheckKeeps, JudgeKeeps, ChecksKeep, SwitchWriteKeeps, WorldKeeps DEF Restore
  <1> QED
    BY <1>1, <1>2, <1>3, <1>4, <1>5, <1>6, <1>7 DEF Next

LEMMA InvHolds == Spec => [](TypeOK /\ AllAimed /\ Inv)
  <1>1. Init => Inv
    BY InitInv
  <1>2. TypeOK /\ AllAimed /\ Inv /\ [Next]_vars /\ TypeOK' => Inv'
    BY StepInv
  <1> QED
    BY <1>1, <1>2, TypeInv, PTL DEF Spec

-----------------------------------------------------------------------------
(* What follows.                                                           *)

\* A backup taken while the world changed says that the server was running.
THEOREM TornBackupsHold == Spec => []TornBackupsSaySo
  <1>1. TypeOK /\ AllAimed /\ Inv => TornBackupsSaySo
    BY Typed DEF Inv, Good, Marked, TornBackupsSaySo, At
  <1> QED
    BY <1>1, InvHolds, PTL

\* What a restore replaces is on the shelf first, whole.
THEOREM ReplacedWorldHolds == Spec => ReplacedWorldIsKept
  <1>1. ASSUME TypeOK, AllAimed, Inv, NEW t \in Admins \ overrun,
               At(t, "swap"), thr'[t].pc = "unpack", thr[t].first \/ thr[t].force, world # Empty,
               thr[t].id \notin lost \cup twice
        PROVE  \E b \in Ids : archive[b].file = "whole" /\ archive[b].world = world
    <2>1. Judged(t) /\ Good(t)
      BY <1>1 DEF Judged, Restores, AllAimed, Aimed, At, Inv
    <2>2. thr[t].first
      BY <1>1, <2>1 DEF Good, Agrees
    <2>3. thr[t].id # None /\ Copied(t, "whole")
      BY <1>1, <2>1, <2>2 DEF Good, HasCopy, At
    <2> QED
      BY <2>3, Typed, <1>1 DEF Copied
  <1>2. TypeOK /\ AllAimed /\ Inv /\ [Next]_vars
          => [\A t \in Admins \ overrun :
               At(t, "swap") /\ thr'[t].pc = "unpack" /\ (thr[t].first \/ thr[t].force)
                 /\ world # Empty /\ thr[t].id \notin lost \cup twice
               => \E b \in Ids : archive[b].file = "whole" /\ archive[b].world = world]_vars
    BY <1>1
  <1> QED
    BY <1>2, InvHolds, PTL DEF Spec, ReplacedWorldIsKept

\* The world is removed only for an archive that is there, whole.
THEOREM RestoreHasItsArchiveHolds == Spec => RestoreHasItsArchive
  <1>1. ASSUME TypeOK, AllAimed, Inv, NEW t \in Admins,
               At(t, "swap"), thr'[t].pc = "unpack", ~thr[t].force,
               thr[t].archive \notin lost \cup twice
        PROVE  archive[thr[t].archive].file = "whole"
    <2>1. Judged(t) /\ Good(t)
      BY <1>1 DEF Judged, Restores, AllAimed, Aimed, At, Inv
    <2> QED
      BY <1>1, <2>1 DEF Good, HasArchive
  <1>2. TypeOK /\ AllAimed /\ Inv /\ [Next]_vars
          => [\A t \in Admins :
               At(t, "swap") /\ thr'[t].pc = "unpack" /\ ~thr[t].force
                 /\ thr[t].archive \notin lost \cup twice
               => archive[thr[t].archive].file = "whole"]_vars
    BY <1>1
  <1> QED
    BY <1>2, InvHolds, PTL DEF Spec, RestoreHasItsArchive

\* A restore that was not forced puts back a world of what the server then runs.
THEOREM UnforcedRestoresHold == Spec => UnforcedRestoresFit
  <1>1. ASSUME TypeOK, AllAimed, Inv, NEW t \in Admins \ moved,
               At(t, "unpack"), ~thr[t].force, archive[thr[t].archive].file = "whole",
               thr[t].archive \notin twice
        PROVE  sidecar[thr[t].archive].label = runs
    <2>1. Judged(t) /\ Good(t) /\ ~SwitchesFirst(t)
      BY <1>1 DEF Judged, Restores, AllAimed, Aimed, At, Inv, SwitchesFirst, Backing
    <2> QED
      BY <1>1, <2>1 DEF Good, Fits
  <1>2. TypeOK /\ AllAimed /\ Inv /\ [Next]_vars
          => [\A t \in Admins \ moved :
               At(t, "unpack") /\ world' # world /\ ~thr[t].force
                 /\ archive[thr[t].archive].file = "whole" /\ thr[t].archive \notin twice
               => sidecar[thr[t].archive].label = runs]_vars
    BY <1>1
  <1> QED
    BY <1>2, InvHolds, PTL DEF Spec, UnforcedRestoresFit

\* A server that runs was made for a template, and its world is the save it has
\* in memory: one of its template that is not was put there by a restore that
\* nobody could tell it was up.
Reads ==
  /\ server # Down => server.plays \in Keys
  /\ IsRunning /\ world.by = server.plays /\ world.n # server.n /\ world.kind # "mixed"
       => overrun # {}

LEMMA ReadsKept ==
  ASSUME TypeOK, Reads, server' \in {server, Down}, overrun \subseteq overrun',
         \/ world' = world \/ overrun # {}
         \/ IsRunning' => world' = Empty
  PROVE  Reads'
  <1>1. Down.status = "down" /\ Empty.by = NoKey /\ NoKey \notin Keys
    BY DEF Down, Empty
  <1> QED
    BY <1>1 DEF Reads

LEMMA ServerReads ==
  ASSUME TypeOK, Reads, Server
  PROVE  Reads'
  <1>0. /\ Down.status = "down" /\ runs \in Keys
        /\ \A k \in Keys : Playing(k).plays = k /\ Playing(k).n = world.n
    BY PlayingType DEF TypeOK
  <1>1. CASE ServerStarts
    <2>1. server' = Playing(runs) /\ world' = world
      BY <1>1 DEF ServerStarts
    <2> QED
      BY <1>0, <2>1 DEF Reads
  <1>2. CASE ServerEnds
    <2>1. /\ server \in Container /\ world' = world /\ overrun' = overrun
          /\ \/ server' = Down
             \/ IsRunning /\ server' = [server EXCEPT !.status = "restarting"]
      BY <1>2 DEF ServerEnds, TypeOK, history
    <2>2. CASE server' = Down
      BY <2>1, <2>2, ReadsKept
    <2>3. CASE IsRunning /\ server' = [server EXCEPT !.status = "restarting"]
      <3>1. server'.status = "restarting" /\ server'.plays = server.plays
        BY <2>1, <2>3 DEF Container
      <3> QED
        BY <1>0, <2>3, <3>1 DEF Reads
    <2> QED
      BY <2>1, <2>2, <2>3
  <1>3. CASE DockerRestarts
    <2>1. /\ server' = Playing(server.plays) /\ world' = world /\ server # Down
      BY <1>0, <1>3 DEF DockerRestarts
    <2>2. server.plays \in Keys
      BY <2>1 DEF Reads
    <2> QED
      BY <1>0, <2>1, <2>2 DEF Reads
  <1>4. CASE ServerSaves
    <2> DEFINE next == MaxId + 1 + budget["saves"]
    <2>1. /\ world' = [by |-> server.plays, n |-> next, kind |-> SavedAs] /\ IsRunning
          /\ server' = [server EXCEPT !.n = next] /\ server \in Container
      BY <1>4 DEF ServerSaves, TypeOK
    <2> HIDE DEF next
    <2>2. world'.n = next /\ server'.n = next /\ server'.plays = server.plays
      BY <2>1 DEF Container
    <2> QED
      BY <1>0, <2>1, <2>2 DEF Reads
  <1>5. CASE TemplateEdited
    BY <1>5, ReadsKept DEF TemplateEdited
  <1> QED
    BY <1>1, <1>2, <1>3, <1>4, <1>5 DEF Server

\* A restore that puts a world there under a server that runs is recorded.
LEMMA StepReads ==
  ASSUME TypeOK, AllAimed, Inv, Reads, [Next]_vars
  PROVE  Reads'
  <1>1. CASE UNCHANGED vars \/ Sweep \/ ManagerRestarts
    BY <1>1, ReadsKept DEF vars, Sweep, ManagerRestarts, history
  <1>2. CASE Server
    BY <1>2, ServerReads
  <1>3. ASSUME NEW t \in Admins, Ask(t) PROVE Reads'
    BY <1>3, ReadsKept DEF Ask, AskBackup, AskUpload, AskSwitch, AskClear, DeleteBackup,
       AskRestore, history
  <1>4. ASSUME NEW t \in Admins, Backup(t) PROVE Reads'
    <2>1. UNCHANGED <<world, server, overrun>>
      BY <1>4 DEF Backup, Context, Look, Mint, WriteBegins, WriteEnds, Adopt, AdoptEnds,
         WriteSidecar, Prune, Drop, BackupDone, history
    <2> QED
      BY <2>1, ReadsKept
  <1>5. ASSUME NEW t \in Admins, RestoreCheck(t) PROVE Reads'
    <2>1. UNCHANGED <<world, server>> /\ (~IsRunning \/ overrun \subseteq overrun')
      BY <1>5 DEF RestoreCheck, Refused
    <2>2. CASE ~IsRunning
      BY <2>1, <2>2 DEF Reads
    <2> QED
      BY <2>1, <2>2, ReadsKept
  <1>6. ASSUME NEW t \in Admins,
               \/ RestoreJudge(t) \/ SwitchCheck(t) \/ SwitchWrite(t) \/ SwitchRemove(t)
               \/ ClearCheck(t)
        PROVE  Reads'
    <2>1. server' \in {server, Down} /\ UNCHANGED <<world, overrun>>
      BY <1>6 DEF RestoreJudge, SwitchCheck, SwitchWrite, SwitchRemove, ClearCheck, history
    <2> QED
      BY <2>1, ReadsKept
  <1>7. ASSUME NEW t \in Admins, Swap(t) \/ Clear(t) PROVE Reads'
    <2>1. /\ UNCHANGED server /\ overrun \subseteq overrun'
          /\ world' = Empty \/ UNCHANGED world
      BY <1>7 DEF Swap, Clear, Disturbs
    <2> QED
      BY <2>1, ReadsKept
  <1>8. ASSUME NEW t \in Admins, Unpack(t) PROVE Reads'
    <2>1. UNCHANGED server /\ overrun \subseteq overrun'
      BY <1>8 DEF Unpack, Disturbs
    <2>2. t \in overrun \/ ~IsRunning
      BY <1>8 DEF Unpack, At, Inv, Good, Alone, Restores, AllAimed, Aimed
    <2> QED
      BY <2>1, <2>2, ReadsKept
  <1> QED
    BY <1>1, <1>2, <1>3, <1>4, <1>5, <1>6, <1>7, <1>8 DEF Next, Restore

LEMMA ReadsHolds == Spec => []Reads
  <1>1. Init => Reads
    <2> SUFFICES ASSUME Init PROVE Reads
      OBVIOUS
    <2>1. TypeOK /\ server \in {Down, Playing(runs)}
      BY InitType DEF Init
    <2> QED
      BY <2>1, PlayingType DEF Reads, TypeOK
  <1>2. TypeOK /\ AllAimed /\ Inv /\ Reads /\ [Next]_vars => Reads'
    BY StepReads
  <1> QED
    BY <1>1, <1>2, InvHolds, PTL DEF Spec

\* No restore that nobody came across mixes two worlds, and no server saves its
\* own over one that such a restore put there.
THEOREM NoMixHolds == Spec => NoMixedWorld
  <1>1. ASSUME TypeOK, AllAimed, Inv, NEW t \in Admins \ overrun, Unpack(t), world'.kind = "mixed"
        PROVE  world' \in {world, archive[thr[t].archive].world}
    <2> DEFINE a == archive[thr[t].archive]
    <2>1. world = Empty /\ thr[t].archive \in Ids
      BY <1>1, Typed DEF Unpack, At, Inv, Good, Alone, AllAimed, Aimed
    <2>2. CASE world' = Unpacked(a)
      BY <2>1, <2>2 DEF Unpacked
    <2>3. CASE world' = [a.world EXCEPT !.kind = "part"]
      <3>1. a.world \in World
        BY <1>1, <2>1, Typed DEF Archive
      <3>2. [a.world EXCEPT !.kind = "part"].kind = "part"
        BY <3>1 DEF World
      <3> QED
        BY <1>1, <2>3, <3>2
    <2>4. CASE world' = world
      BY <2>4
    <2> QED
      BY <1>1, <2>2, <2>3, <2>4 DEF Unpack
  <1>2. ASSUME Reads, ServerSaves, world'.kind = "mixed"
        PROVE  world.kind = "mixed" \/ overrun # {}
    <2>1. SavedAs = "mixed" /\ IsRunning
      BY <1>2 DEF ServerSaves
    <2>2. \/ world.by = server.plays /\ world.n = server.n /\ world.kind = "mixed"
          \/ world.by = server.plays /\ world.n # server.n
      BY <2>1 DEF SavedAs
    <2> QED
      BY <1>2, <2>1, <2>2 DEF Reads
  <1>3. TypeOK /\ AllAimed /\ Inv /\ Reads /\ [Next]_vars
          => [/\ \A t \in Admins \ overrun :
                   Unpack(t) /\ world'.kind = "mixed"
                     => world' \in {world, archive[thr[t].archive].world}
              /\ ServerSaves /\ world'.kind = "mixed"
                   => world.kind = "mixed" \/ overrun # {}]_vars
    BY <1>1, <1>2
  <1> QED
    BY <1>3, InvHolds, ReadsHolds, PTL DEF Spec, NoMixedWorld

-----------------------------------------------------------------------------
(* How long the shelf gets.  While somebody is at work, what counts is what *)
(* has been through a prune, or will have been once the one at work is done *)
(* with it.                                                                 *)

Unpruned == {"write", "copy", "sidecar", "prune"}

\* Those on the shelf that no thread is about to prune after.
Pruned == {b \in Listed : \A u \in Admins : thr[u].pc \in Unpruned => thr[u].id # b}
Few(S) == Cardinality(S) <= Keep + 1
Drops(t) == At(t, "drop") /\ Few(Pruned \ thr[t].victims)
ShelfFits == ~aborted => Few(Pruned) \/ \E t \in Admins : Drops(t)

LEMMA BackupsAreFinite ==
  ASSUME NEW S, S \subseteq Ids
  PROVE  IsFiniteSet(S) /\ Cardinality(S) \in Nat
  <1>1. 1 \in Int /\ MaxId \in Int
    OBVIOUS
  <1>2. IsFiniteSet(Ids)
    BY <1>1, FS_Interval DEF Ids
  <1>3. IsFiniteSet(S)
    BY <1>2, FS_Subset
  <1> QED
    BY <1>3, FS_CardinalityType

LEMMA FewerIsFew ==
  ASSUME NEW S, NEW T, S \subseteq T, T \subseteq Ids, Few(T)
  PROVE  Few(S)
  <1>1. IsFiniteSet(T)
    BY BackupsAreFinite
  <1>2. IsFiniteSet(S) /\ Cardinality(S) <= Cardinality(T)
    BY <1>1, FS_Subset
  <1>3. Cardinality(S) \in Nat /\ Cardinality(T) \in Nat
    BY <1>1, <1>2, FS_CardinalityType
  <1> QED
    BY <1>2, <1>3 DEF Few

LEMMA FitsKept ==
  ASSUME ShelfFits, Pruned' \subseteq Pruned, ~aborted' => ~aborted,
         \A u \in Admins : At(u, "drop") => thr'[u].pc = "drop" /\ thr'[u].victims = thr[u].victims
  PROVE  ShelfFits'
  <1> SUFFICES ASSUME ~aborted' PROVE Few(Pruned)' \/ \E u \in Admins : Drops(u)'
    BY DEF ShelfFits
  <1>0. Pruned \subseteq Ids
    BY DEF Pruned, Listed
  <1>1. CASE Few(Pruned)
    <2>1. Few(Pruned')
      BY <1>0, <1>1, FewerIsFew
    <2> QED
      BY <2>1 DEF Few
  <1>2. ASSUME NEW u \in Admins, Drops(u) PROVE Drops(u)'
    <2>1. thr'[u].pc = "drop" /\ thr'[u].victims = thr[u].victims
      BY <1>2 DEF Drops
    <2>2. Pruned' \ thr'[u].victims \subseteq Pruned \ thr[u].victims
      BY <2>1
    <2>3. Few(Pruned \ thr[u].victims)
      BY <1>2 DEF Drops
    <2>4. Few(Pruned' \ thr'[u].victims)
      BY <1>0, <2>2, <2>3, FewerIsFew
    <2> QED
      BY <2>1, <2>4 DEF Drops, At, Few
  <1> QED
    BY <1>1, <1>2 DEF ShelfFits

\* A step of one thread that adds nothing to the shelf but what it is to prune after.
LEMMA ThreadFits ==
  ASSUME NEW t \in Admins, ShelfFits, OthersKept(t), thr[t].pc # "drop", ~aborted' => ~aborted,
         \A b \in Listed' \ Listed : thr'[t].pc \in Unpruned /\ thr'[t].id = b,
         thr[t].pc \in Unpruned
           => \/ thr'[t].pc \in Unpruned /\ thr'[t].id = thr[t].id
              \/ thr[t].id \notin Listed'
  PROVE  ShelfFits'
  <1>1. Pruned' \subseteq Pruned
    <2> SUFFICES ASSUME NEW b \in Pruned' PROVE b \in Pruned
      OBVIOUS
    <2>1. b \in Listed' /\ \A u \in Admins : thr'[u].pc \in Unpruned => thr'[u].id # b
      BY DEF Pruned
    <2>2. b \in Listed
      BY <2>1
    <2>3. ASSUME NEW u \in Admins, thr[u].pc \in Unpruned PROVE thr[u].id # b
      BY <2>1, <2>3 DEF OthersKept
    <2> QED
      BY <2>2, <2>3 DEF Pruned
  <1>2. \A u \in Admins : At(u, "drop") => thr'[u].pc = "drop" /\ thr'[u].victims = thr[u].victims
    BY DEF OthersKept, At
  <1> QED
    BY <1>1, <1>2, FitsKept

LEMMA IdleThreadFits ==
  ASSUME NEW t \in Admins, ShelfFits, OthersKept(t), UNCHANGED <<archive, aborted>>,
         thr[t].pc \notin Unpruned \cup {"drop"}
  PROVE  ShelfFits'
  <1>1. Listed' = Listed
    BY DEF Listed
  <1> QED
    BY <1>1, ThreadFits

\* A step that leaves the threads alone.
LEMMA RowsFit ==
  ASSUME ShelfFits, UNCHANGED <<thr, aborted>>, \A b \in Ids : archive[b].file = "none" => archive'[b].file = "none"
  PROVE  ShelfFits'
  <1>1. Pruned' \subseteq Pruned
    BY DEF Pruned, Listed
  <1> QED
    BY <1>1, FitsKept DEF At

LEMMA WriteFits ==
  ASSUME NEW t \in Admins, TypeOK, ShelfFits,
         WriteBegins(t) \/ WriteEnds(t) \/ Adopt(t) \/ WriteSidecar(t)
  PROVE  ShelfFits'
  <1>0. UNCHANGED aborted
    BY DEF WriteBegins, WriteEnds, Adopt, WriteSidecar, history
  <1>1. CASE WriteBegins(t)
    <2>1. OthersKept(t) /\ thr'[t].pc = "write" /\ thr'[t].id = thr[t].id /\ thr[t].pc = "open"
      BY <1>1, GotoAt DEF WriteBegins, Carries, At
    <2>2. \A b \in Ids : b # thr[t].id => archive'[b] = archive[b]
      BY <1>1, Typed DEF WriteBegins
    <2> QED
      BY <1>0, <2>1, <2>2, ThreadFits DEF Listed, Unpruned
  <1>2. CASE Adopt(t)
    <2>1. OthersKept(t) /\ thr'[t].pc = "copy" /\ thr'[t].id = thr[t].id /\ thr[t].pc = "adopt"
      <3>1. PICK k \in Keys \cup {NoKey} : thr' = [thr EXCEPT ![t].pc = "copy", ![t].label = k]
        BY <1>2 DEF Adopt, CarriedOver
      <3> QED
        BY <1>2, <3>1, AdoptAt DEF Adopt, Carries, At
    <2>2. \A b \in Ids : b # thr[t].id => archive'[b] = archive[b]
      BY <1>2, Typed DEF Adopt
    <2> QED
      BY <1>0, <2>1, <2>2, ThreadFits DEF Listed, Unpruned
  <1>3. CASE WriteEnds(t)
    <2>1. OthersKept(t) /\ thr[t].pc = "write"
      BY <1>3, GotoAt, EndsAt DEF WriteEnds, At
    <2>2. Listed' \subseteq Listed
      <3>1. \A b \in Ids : b # thr[t].id => archive'[b] = archive[b]
        BY <1>3, Typed DEF WriteEnds
      <3>2. archive[thr[t].id].file = "none" /\ thr[t].id \in Ids
              => archive'[thr[t].id].file = "none"
        BY <1>3, Typed DEF WriteEnds, NoArchive
      <3> QED
        BY <3>1, <3>2 DEF Listed
    <2>3. \/ thr'[t].pc = "sidecar" /\ thr'[t].id = thr[t].id
          \/ thr[t].id \notin Listed'
      <3>1. CASE Goto(t, "sidecar")
        BY <3>1, GotoAt DEF Carries
      <3>2. CASE archive' = [archive EXCEPT ![thr[t].id] = NoArchive]
        BY <3>2, Typed DEF Listed, NoArchive
      <3> QED
        BY <1>3, <3>1, <3>2 DEF WriteEnds
    <2> QED
      BY <1>0, <2>1, <2>2, <2>3, ThreadFits DEF Unpruned
  <1>4. CASE WriteSidecar(t)
    <2>1. Listed' = Listed /\ thr[t].pc = "sidecar"
      BY <1>4 DEF WriteSidecar, Listed, At
    <2>2. CASE archive[thr[t].id].file = "none" /\ Ends(t)
      <3>1. thr[t].id \notin Listed'
        BY <2>1, <2>2 DEF Listed
      <3> QED
        BY <1>0, <2>1, <2>2, <3>1, EndsAt, ThreadFits
    <2>3. CASE Does(t, [thr[t] EXCEPT !.pc = "prune", !.label = NoKey, !.running = FALSE])
      <3>1. OthersKept(t) /\ thr'[t].pc = "prune" /\ thr'[t].id = thr[t].id
        BY <2>3, SidecarAt DEF Carries
      <3> QED
        BY <1>0, <2>1, <3>1, ThreadFits DEF Unpruned
    <2> QED
      BY <1>4, <2>2, <2>3 DEF WriteSidecar
  <1> QED
    BY <1>1, <1>2, <1>3, <1>4

LEMMA AdoptEndsFits ==
  ASSUME NEW t \in Admins, TypeOK, ShelfFits, AdoptEnds(t)
  PROVE  ShelfFits'
  <1>1. CASE Goto(t, "sidecar") /\ UNCHANGED aborted
             /\ archive' = IF archive[thr[t].id].file = "none" THEN archive
                           ELSE [archive EXCEPT ![thr[t].id].file = "whole"]
    <2>1. OthersKept(t) /\ thr'[t].pc = "sidecar" /\ thr'[t].id = thr[t].id /\ thr[t].pc = "copy"
      BY <1>1, GotoAt DEF AdoptEnds, Carries, At
    <2>2. Listed' \subseteq Listed
      BY <1>1, Typed DEF Listed
    <2> QED
      BY <1>1, <2>1, <2>2, ThreadFits DEF Unpruned
  <1>2. CASE aborted' = TRUE
    BY <1>2 DEF ShelfFits
  <1> QED
    BY <1>1, <1>2 DEF AdoptEnds

-----------------------------------------------------------------------------
(* The prune itself.                                                       *)

\* What it leaves behind: the newest KEEP.
LEMMA PruneLeavesKeep == Cardinality(Listed \ Beyond) <= Keep
  <1> DEFINE S == Listed \ Beyond
  <1>1. S \subseteq Ids /\ IsFiniteSet(S) /\ IsFiniteSet(Listed)
    <2>1. S \subseteq Ids /\ Listed \subseteq Ids
      BY DEF Listed
    <2> QED
      BY <2>1, BackupsAreFinite
  <1>2. CASE S = {}
    BY <1>2, FS_EmptySet
  <1>3. CASE S # {}
    <2>1. S \subseteq Nat
      BY <1>1 DEF Ids
    <2>2. PICK m \in S : \A y \in S : m <= y
      BY <1>3, <2>1, HasLeast
    <2> DEFINE newer == {c \in Listed : c > m}
    <2>3. Cardinality(newer) < Keep
      <3>1. m \in Listed /\ ~(Cardinality(newer) >= Keep)
        BY <2>2 DEF Beyond
      <3>2. Cardinality(newer) \in Nat
        BY <1>1, FS_Subset, FS_CardinalityType
      <3> QED
        BY <3>1, <3>2
    <2>4. S \ {m} \subseteq newer
      BY <2>1, <2>2
    <2>5. IsFiniteSet(newer) /\ Cardinality(S \ {m}) <= Cardinality(newer)
      BY <1>1, <2>4, FS_Subset
    <2>6. Cardinality(S \ {m}) = Cardinality(S) - 1
      BY <1>1, <2>2, FS_RemoveElement
    <2>7. Cardinality(S) \in Nat /\ Cardinality(newer) \in Nat
      BY <1>1, <2>5, FS_CardinalityType
    <2> QED
      BY <2>3, <2>5, <2>6, <2>7
  <1> QED
    BY <1>2, <1>3

LEMMA PruneFits ==
  ASSUME NEW t \in Admins, TypeOK, Prune(t)
  PROVE  ShelfFits'
  <1>1. Victims(t) \in SUBSET Ids
    BY DEF Victims, Beyond, Listed
  <1>2. thr'[t].pc = "drop" /\ thr'[t].victims = Victims(t)
    BY <1>1, PruneAt DEF Prune
  <1>3. Pruned' \ thr'[t].victims \subseteq (Listed \ Beyond) \cup {thr[t].archive}
    BY <1>2 DEF Pruned, Listed, Prune, files, Victims
  <1>4. IsFiniteSet(Listed \ Beyond)
    <2>1. Listed \ Beyond \subseteq Ids
      BY DEF Listed
    <2> QED
      BY <2>1, BackupsAreFinite
  <1>5. Cardinality((Listed \ Beyond) \cup {thr[t].archive}) <= Keep + 1
    <2> DEFINE S == Listed \ Beyond
               a == thr[t].archive
    <2>1. Cardinality(S) \in Nat /\ Cardinality(S) <= Keep
      BY <1>4, FS_CardinalityType, PruneLeavesKeep
    <2> HIDE DEF S
    <2>2. Cardinality(S \cup {a}) = IF a \in S THEN Cardinality(S) ELSE Cardinality(S) + 1
      BY <1>4, FS_AddElement DEF S
    <2>3. Cardinality(S \cup {a}) <= Keep + 1
      BY <2>1, <2>2
    <2> QED
      BY <2>3 DEF S
  <1>6. Cardinality(Pruned' \ thr'[t].victims) <= Keep + 1
    <2> DEFINE A == Pruned' \ thr'[t].victims
               B == (Listed \ Beyond) \cup {thr[t].archive}
    <2>1. IsFiniteSet(B)
      BY <1>4, FS_AddElement
    <2>2. IsFiniteSet(A) /\ Cardinality(A) <= Cardinality(B)
      BY <1>3, <2>1, FS_Subset
    <2>3. Cardinality(A) \in Nat /\ Cardinality(B) \in Nat
      BY <2>1, <2>2, FS_CardinalityType
    <2> QED
      BY <1>5, <2>2, <2>3
  <1>7. Drops(t)'
    BY <1>2, <1>6 DEF Drops, At, Few
  <1> QED
    BY <1>7 DEF ShelfFits

LEMMA DropFits ==
  ASSUME NEW t \in Admins, TypeOK, ShelfFits, Drop(t)
  PROVE  ShelfFits'
  <1> DEFINE v == Max(thr[t].victims)
  <1>1. CASE aborted' = TRUE
    BY <1>1 DEF ShelfFits
  <1>2. CASE /\ Removed(v) /\ UNCHANGED aborted
             /\ thr' = [thr EXCEPT ![t].victims = @ \ {v}]
    <2>0. PICK b : b = v
      OBVIOUS
    <2>1. /\ OthersKept(t) /\ Carries(t) /\ thr'[t].pc = thr[t].pc
          /\ thr'[t].victims = thr[t].victims \ {b}
      BY <1>2, <2>0, DropAt
    <2>2. \A u \in Admins : thr'[u].pc = thr[u].pc /\ thr'[u].id = thr[u].id
                            /\ thr[u].victims \ {b} \subseteq thr'[u].victims
      BY <2>1 DEF OthersKept, Carries
    <2>3. Pruned' \subseteq Pruned \ {b}
      <3>1. Listed' \subseteq Listed \ {b}
        BY <1>2, <2>0, Typed DEF Removed, Listed, NoArchive
      <3> QED
        BY <2>2, <3>1 DEF Pruned
    <2>4. Pruned \subseteq Ids
      BY DEF Pruned, Listed
    <2> SUFFICES ASSUME ~aborted' PROVE Few(Pruned)' \/ \E u \in Admins : Drops(u)'
      BY DEF ShelfFits
    <2>5. CASE Few(Pruned)
      <3>1. Few(Pruned')
        BY <2>3, <2>4, <2>5, FewerIsFew
      <3> QED
        BY <3>1 DEF Few
    <2>6. ASSUME NEW u \in Admins, Drops(u) PROVE Drops(u)'
      <3>1. Pruned' \ thr'[u].victims \subseteq Pruned \ thr[u].victims
        BY <2>2, <2>3
      <3>2. Few(Pruned \ thr[u].victims)
        BY <2>6 DEF Drops
      <3>3. Few(Pruned' \ thr'[u].victims)
        BY <2>4, <3>1, <3>2, FewerIsFew
      <3> QED
        BY <2>2, <2>6, <3>3 DEF Drops, At, Few
    <2> QED
      BY <1>2, <2>5, <2>6 DEF ShelfFits
  <1> QED
    BY <1>1, <1>2 DEF Drop

LEMMA BackupDoneFits ==
  ASSUME NEW t \in Admins, TypeOK, ShelfFits, BackupDone(t)
  PROVE  ShelfFits'
  <1>1. /\ OthersKept(t) /\ thr'[t].pc \notin Unpruned
        /\ thr[t].pc = "drop" /\ thr[t].victims = {}
    BY Typed, EndsAt, GotoAt DEF BackupDone, At, Unpruned, Idle
  <1>2. UNCHANGED <<archive, aborted>>
    BY DEF BackupDone, files, history
  <1>3. Pruned' = Pruned
    BY <1>1, <1>2 DEF Pruned, Listed, OthersKept, Unpruned
  <1> SUFFICES ASSUME ~aborted' PROVE Few(Pruned)' \/ \E u \in Admins : Drops(u)'
    BY DEF ShelfFits
  <1>4. CASE Few(Pruned) \/ Drops(t)
    <2>1. Pruned \ {} = Pruned
      OBVIOUS
    <2>2. Few(Pruned)
      BY <1>1, <1>4, <2>1 DEF Drops
    <2> QED
      BY <1>3, <2>2 DEF Few
  <1>5. ASSUME NEW u \in Admins \ {t}, Drops(u) PROVE Drops(u)'
    BY <1>1, <1>3, <1>5 DEF Drops, At, Few, OthersKept
  <1> QED
    BY <1>2, <1>4, <1>5 DEF ShelfFits

-----------------------------------------------------------------------------

LEMMA BackupFits ==
  ASSUME NEW t \in Admins, TypeOK, ShelfFits, Backup(t)
  PROVE  ShelfFits'
  <1>1. CASE Context(t)
    BY <1>1, ContextAt, IdleThreadFits DEF Context, At, Unpruned, files, history
  <1>2. CASE Look(t)
    <2>1. OthersKept(t)
      BY <1>2, LookDoes, EndsAt
    <2> QED
      BY <1>2, <2>1, IdleThreadFits DEF Look, At, Unpruned, files, history
  <1>3. CASE Mint(t)
    <2>1. OthersKept(t)
      BY <1>3 DEF Mint, OthersKept, TypeOK
    <2> QED
      BY <1>3, <2>1, IdleThreadFits DEF Mint, At, Unpruned
  <1>4. CASE WriteBegins(t) \/ WriteEnds(t) \/ Adopt(t) \/ WriteSidecar(t)
    BY <1>4, WriteFits
  <1>5. CASE AdoptEnds(t) \/ Prune(t) \/ Drop(t) \/ BackupDone(t)
    BY <1>5, AdoptEndsFits, PruneFits, DropFits, BackupDoneFits
  <1> QED
    BY <1>1, <1>2, <1>3, <1>4, <1>5 DEF Backup

LEMMA RestoreFits ==
  ASSUME NEW t \in Admins, TypeOK, ShelfFits, Restore(t) \/ ClearCheck(t) \/ Clear(t)
  PROVE  ShelfFits'
  <1>1. UNCHANGED <<archive, aborted>>
    BY DEF Restore, ClearCheck, Clear, RestoreCheck, RestoreJudge, SwitchCheck, SwitchWrite,
       SwitchRemove, Swap, Unpack, files, history
  <1>2. thr[t].pc \notin Unpruned \cup {"drop"}
    BY DEF Restore, ClearCheck, Clear, RestoreCheck, RestoreJudge, SwitchCheck, SwitchWrite,
       SwitchRemove, Swap, Unpack, Unpruned, At
  <1>3. OthersKept(t)
    <2>1. CASE RestoreJudge(t)
      BY <2>1, JudgeDoes
    <2>2. CASE Ends(t) \/ \E pc \in Labels : Goto(t, pc)
      BY <2>2, EndsAt, GotoAt
    <2> QED
      BY <2>1, <2>2 DEF Restore, ClearCheck, Clear, RestoreCheck, SwitchCheck, SwitchWrite,
         SwitchRemove, Swap, Unpack, StoppedFor, LookupRaises, Labels, Restoring
  <1> QED
    BY <1>1, <1>2, <1>3, IdleThreadFits

LEMMA AskFits ==
  ASSUME NEW t \in Admins, TypeOK, ShelfFits, Ask(t)
  PROVE  ShelfFits'
  <1>1. CASE Asks(t)
    BY <1>1, AsksAt, IdleThreadFits DEF At, Unpruned, files, history
  <1>2. ASSUME NEW b \in Ids, DeleteBackup(t, b) PROVE ShelfFits'
    <2>1. \A c \in Ids : archive[c].file = "none" => archive'[c].file = "none"
      BY <1>2, Typed DEF DeleteBackup, Removed, NoArchive
    <2> QED
      BY <1>2, <2>1, RowsFit DEF DeleteBackup
  <1> QED
    BY <1>1, <1>2 DEF Ask, Asks

LEMMA OthersFit ==
  ASSUME TypeOK, ShelfFits, Server \/ Sweep \/ ManagerRestarts \/ UNCHANGED vars
  PROVE  ShelfFits'
  <1>1. CASE ManagerRestarts
    <2> SUFFICES ASSUME ~aborted' PROVE Few(Pruned)'
      BY DEF ShelfFits
    <2>1. ~aborted /\ \A u \in Admins : thr[u].pc \notin Backing
      BY <1>1, Typed DEF ManagerRestarts
    <2>2. Pruned = Listed /\ ~\E u \in Admins : Drops(u)
      BY <2>1 DEF Pruned, Unpruned, Backing, Drops, At
    <2>3. Pruned' \subseteq Listed
      BY <1>1 DEF Pruned, Listed, ManagerRestarts, files
    <2>4. Few(Pruned')
      BY <2>1, <2>2, <2>3, FewerIsFew DEF ShelfFits, Listed
    <2> QED
      BY <2>4 DEF Few
  <1>2. CASE Server \/ Sweep \/ UNCHANGED vars
    BY <1>2, RowsFit DEF Server, ServerStarts, ServerEnds, DockerRestarts, ServerSaves,
       TemplateEdited, Sweep, vars, files, history
  <1> QED
    BY <1>1, <1>2

LEMMA InitFits == Init => ShelfFits
  <1> SUFFICES ASSUME Init PROVE Few(Pruned)
    BY DEF ShelfFits
  <1>1. Pruned \subseteq 1..Keep
    BY DEF Init, Pruned, Listed, NoArchive, Ids
  <1>2. Few(1..Keep)
    BY FS_Interval DEF Few
  <1>3. 1..Keep \subseteq Ids
    BY DEF Ids
  <1> QED
    BY <1>1, <1>2, <1>3, FewerIsFew

\* With nobody at work the shelf holds KEEP archives and the one a restore
\* protected, unless a prune or an upload was cut short.
THEOREM ShelfBoundHolds == Spec => []ShelfIsBounded
  <1>1. Init => ShelfFits
    BY InitFits
  <1>2. TypeOK /\ AllAimed /\ ShelfFits /\ [Next]_vars => ShelfFits'
    BY OthersFit, AskFits, BackupFits, RestoreFits DEF Next
  <1>3. TypeOK /\ ShelfFits => ShelfIsBounded
    <2> SUFFICES ASSUME TypeOK, ShelfFits, \A t \in Admins : At(t, "idle"), ~aborted
                 PROVE  Few(Listed)
      BY DEF ShelfIsBounded, Few
    <2>1. Pruned = Listed /\ ~\E t \in Admins : Drops(t)
      BY DEF Pruned, Unpruned, Drops, At
    <2> QED
      BY <2>1 DEF ShelfFits
  <1> QED
    BY <1>1, <1>2, <1>3, TypeInv, PTL DEF Spec
=============================================================================
