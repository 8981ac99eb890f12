--------------------------- MODULE StreamsProofs ---------------------------
(* Theorems about Streams for any number of pages, jobs, log lines and     *)
(* faults: what a page shows of the job its socket follows.                *)
EXTENDS Streams, FiniteSetTheorems, SequenceTheorems, TLAPS

USE BoundsAssumption

-----------------------------------------------------------------------------
(* The log lines among the messages of a socket.                           *)

LineMsgs(s) == {k \in DOMAIN s : s[k].kind = "line"}

LEMMA LineMsgsFinite ==
  ASSUME NEW s \in Seq(Msg)
  PROVE  /\ IsFiniteSet(LineMsgs(s))
         /\ LinesIn(s) = Cardinality(LineMsgs(s)) /\ LinesIn(s) \in Nat
  <1>1. DOMAIN s = 1..Len(s) /\ Len(s) \in Nat
    BY LenProperties
  <1>2. IsFiniteSet(1..Len(s))
    BY <1>1, FS_Interval
  <1>3. LineMsgs(s) \in SUBSET (1..Len(s))
    BY <1>1 DEF LineMsgs
  <1>4. IsFiniteSet(LineMsgs(s))
    BY <1>2, <1>3, FS_Subset
  <1>5. LinesIn(s) = Cardinality(LineMsgs(s))
    BY DEF LinesIn, LineMsgs
  <1> QED
    BY <1>4, <1>5, FS_CardinalityType

LEMMA NoLines == LinesIn(<<>>) = 0
  <1>1. {k \in DOMAIN <<>> : <<>>[k].kind = "line"} = {}
    OBVIOUS
  <1> QED
    BY <1>1, FS_EmptySet DEF LinesIn

LEMMA AppendLines ==
  ASSUME NEW s \in Seq(Msg), NEW m \in Msg
  PROVE  LinesIn(Append(s, m)) = IF m.kind = "line" THEN LinesIn(s) + 1 ELSE LinesIn(s)
  <1> DEFINE n == Len(s) + 1
             a == Append(s, m)
  <1>1. /\ Len(s) \in Nat /\ DOMAIN s = 1..Len(s)
        /\ a \in Seq(Msg) /\ DOMAIN a = 1..n
        /\ \A k \in 1..Len(s) : a[k] = s[k]
        /\ a[n] = m
    BY LenProperties, AppendProperties
  <1> HIDE DEF a
  <1>2. n \notin LineMsgs(s)
    BY <1>1 DEF LineMsgs
  <1>3. LineMsgs(a) = IF m.kind = "line" THEN LineMsgs(s) \cup {n} ELSE LineMsgs(s)
    <2>1. 1..n = (1..Len(s)) \cup {n}
      BY <1>1
    <2>2. \A k \in 1..Len(s) : a[k].kind = "line" <=> s[k].kind = "line"
      BY <1>1
    <2> QED
      BY <1>1, <2>1, <2>2 DEF LineMsgs
  <1>4. /\ IsFiniteSet(LineMsgs(s)) /\ LinesIn(s) = Cardinality(LineMsgs(s))
        /\ LinesIn(a) = Cardinality(LineMsgs(a))
    BY <1>1, LineMsgsFinite
  <1>5. IsFiniteSet(LineMsgs(s)) => Cardinality(LineMsgs(s) \cup {n}) = Cardinality(LineMsgs(s)) + 1
    BY <1>2, FS_AddElement
  <1> QED
    <2>1. CASE m.kind = "line"
      <3>1. LinesIn(a) = LinesIn(s) + 1
        BY <1>3, <1>4, <1>5, <2>1
      <3> QED
        BY <2>1, <3>1 DEF a
    <2>2. CASE m.kind # "line"
      <3>1. LinesIn(a) = LinesIn(s)
        BY <1>3, <1>4, <2>2
      <3> QED
        BY <2>2, <3>1 DEF a
    <2> QED
      BY <2>1, <2>2

\* Without its first message, the others are one place earlier.
LEMMA TailLines ==
  ASSUME NEW s \in Seq(Msg), s # <<>>
  PROVE  LinesIn(s) = IF Head(s).kind = "line" THEN LinesIn(Tail(s)) + 1 ELSE LinesIn(Tail(s))
  <1> DEFINE t == Tail(s)
             moved == {k \in LineMsgs(s) : k > 1}
             f == [k \in LineMsgs(t) |-> k + 1]
  <1>1. /\ Len(s) \in Nat /\ DOMAIN s = 1..Len(s) /\ Len(s) > 0
        /\ t \in Seq(Msg) /\ Len(t) = Len(s) - 1 /\ DOMAIN t = 1..(Len(s) - 1)
    BY LenProperties, EmptySeq, HeadTailProperties
  <1>2. \A k \in 1..(Len(s) - 1) : t[k] = s[k + 1]
    BY <1>1
  <1>3. Head(s) = s[1]
    BY <1>1
  <1> HIDE DEF t
  <1>4. f \in Bijection(LineMsgs(t), moved)
    <2>1. ASSUME NEW k \in LineMsgs(t) PROVE k + 1 \in moved /\ k \in Int
      BY <1>1, <1>2 DEF LineMsgs
    <2>2. ASSUME NEW k \in moved PROVE k - 1 \in LineMsgs(t) /\ k - 1 + 1 = k
      <3>1. k \in 1..Len(s) /\ k > 1 /\ s[k].kind = "line"
        BY <1>1 DEF LineMsgs
      <3>2. k - 1 \in 1..(Len(s) - 1) /\ k - 1 + 1 = k
        BY <1>1, <3>1
      <3>3. t[k - 1] = s[k]
        BY <1>2, <3>2
      <3> QED
        BY <1>1, <3>1, <3>2, <3>3 DEF LineMsgs
    <2>3. f \in [LineMsgs(t) -> moved]
      BY <2>1
    <2>4. \A k, l \in LineMsgs(t) : f[k] = f[l] => k = l
      BY <2>1
    <2>5. \A k \in moved : \E l \in LineMsgs(t) : f[l] = k
      BY <2>2
    <2> HIDE DEF f, moved
    <2>6. f \in Injection(LineMsgs(t), moved)
      BY <2>3, <2>4 DEF Injection, IsInjective
    <2>7. f \in Surjection(LineMsgs(t), moved)
      BY <2>3, <2>5 DEF Surjection
    <2> QED
      BY <2>6, <2>7 DEF Bijection
  <1>5. /\ IsFiniteSet(LineMsgs(s)) /\ LinesIn(s) = Cardinality(LineMsgs(s))
        /\ IsFiniteSet(LineMsgs(t)) /\ LinesIn(t) = Cardinality(LineMsgs(t))
    BY <1>1, LineMsgsFinite
  <1>6. IsFiniteSet(moved) /\ Cardinality(moved) = LinesIn(t)
    <2>1. ExistsBijection(LineMsgs(t), moved)
      BY <1>4 DEF ExistsBijection
    <2> HIDE DEF moved
    <2> QED
      BY <1>5, <2>1, FS_Bijection
  <1>7. LineMsgs(s) = IF s[1].kind = "line" THEN moved \cup {1} ELSE moved
    <2>1. LineMsgs(s) \subseteq 1..Len(s) /\ 1 \in 1..Len(s)
      BY <1>1 DEF LineMsgs
    <2>2. \A k \in 1..Len(s) : k > 1 \/ k = 1
      BY <1>1
    <2>3. 1 \in LineMsgs(s) <=> s[1].kind = "line"
      BY <1>1, <2>1 DEF LineMsgs
    <2> QED
      BY <2>1, <2>2, <2>3
  <1>8. 1 \notin moved
    OBVIOUS
  <1> HIDE DEF moved
  <1> QED
    BY <1>3, <1>5, <1>6, <1>7, <1>8, FS_AddElement DEF t

-----------------------------------------------------------------------------
(* What makes the properties inductive.  A job does not go back, and what is *)
(* known of it anywhere is its status or that it was running.               *)

Known(n) == n # NoPull => n \in Pulls /\ pull[n].status # "none"

GoOn == \A n \in Pulls : /\ pull[n].status # "none" => pull'[n].status # "none"
                         /\ pull[n].status \in Ended => pull'[n].status = pull[n].status

\* A reply under way to a refresh.
Asked(p) ==
  page[p].refresh = "reply" /\ page[p].seen # NoPull =>
    /\ Known(page[p].seen)
    /\ page[p].seenStatus \in {"running", pull[page[p].seen].status}

\* The endpoint has sent the snapshot of job JobOf(p).
Live(p) == handler[p].pc \in {"sent", "subscribed"}
JobOf(p) == handler[p].job

\* The two ends of a socket.
Plugged(p) ==
  /\ page[p].open \/ handler[p].pc = "none"
  /\ handler[p].pc = "none" => handler[p] = NoHandler
  /\ handler[p].pc \in {"none", "accepted"} => chan[p] = <<>>
  /\ Live(p) => JobOf(p) # NoPull
  /\ Known(JobOf(p))

\* What the endpoint captured before it sent the snapshot.
Taken(p) ==
  handler[p].pc = "accepted" /\ JobOf(p) # NoPull =>
    /\ handler[p].snap \in {"running", pull[JobOf(p)].status}
    /\ p \notin late => handler[p].snap = pull[JobOf(p)].status

\* The snapshot comes first, and the end of the job last.
Ordered(p) ==
  \A k \in DOMAIN chan[p] :
    /\ chan[p][k].kind = "snapshot" => k = 1
    /\ chan[p][k].kind = "line" => chan[p][k].status = "running"
    /\ chan[p][k].status \in {"running", pull[JobOf(p)].status}

\* The last message, or the page when it has read them all, has the job's status.
\* In between the page may still show it running.
UpToDate(p) ==
  Live(p) /\ p \notin late \cup overtaken =>
    /\ chan[p] # <<>> => chan[p][Len(chan[p])].status = pull[JobOf(p)].status
    /\ page[p].job = JobOf(p) /\ chan[p] = <<>> => page[p].status = pull[JobOf(p)].status
    /\ page[p].job = JobOf(p) /\ chan[p] # <<>> /\ Head(chan[p]).kind # "snapshot" =>
         page[p].status \in {"running", pull[JobOf(p)].status}

\* A page never has more lines than its job, and all of them unless it missed or
\* dropped some.
Counted(p) ==
  Live(p) => /\ LinesDue(p) <= pull[JobOf(p)].lines
             /\ p \notin late \cup cleared => LinesDue(p) = pull[JobOf(p)].lines

Socket(p) == Plugged(p) /\ Taken(p) /\ Ordered(p) /\ UpToDate(p) /\ Counted(p)

Inv == Known(current) /\ \A p \in Pages : Asked(p) /\ Socket(p)

-----------------------------------------------------------------------------
(* Types.                                                                  *)

LEMMA BlankType == Blank \in Page /\ NoHandler \in Handler /\ NoPull \notin Pulls
  BY DEF Blank, Page, NoHandler, Handler, NoPull, Pulls, Status, LogPane, BoundsAssumption

LEMMA PageOf ==
  ASSUME TypeOK, NEW p \in Pages
  PROVE  /\ page[p] \in Page /\ handler[p] \in Handler /\ chan[p] \in Seq(Msg)
         /\ page[p].mounted \in BOOLEAN /\ page[p].open \in BOOLEAN
         /\ page[p].job \in Pulls \cup {NoPull} /\ page[p].status \in Status
         /\ page[p].lines \in 0..MaxLines
         /\ page[p].refresh \in {"none", "due", "reply", "loaded"}
         /\ page[p].seen \in Pulls \cup {NoPull} /\ page[p].seenStatus \in Status
         /\ page[p].pulled \in Pulls \cup {NoPull}
         /\ JobOf(p) \in Pulls \cup {NoPull} /\ handler[p].snap \in Status
         /\ handler[p].pc \in {"none", "accepted", "sent", "subscribed"}
  BY DEF TypeOK, Page, Handler, LogPane, JobOf

LEMMA PullOf ==
  ASSUME TypeOK, NEW n \in Pulls
  PROVE  /\ pull[n] \in [status: Status, lines: 0..MaxLines]
         /\ pull[n].status \in Status /\ pull[n].lines \in 0..MaxLines
         /\ pull[n].status \in {"none", "running"} \cup Ended
  BY DEF TypeOK, Status, Ended

LEMMA StatusOfType ==
  ASSUME TypeOK, NEW n \in Pulls \cup {NoPull}
  PROVE  StatusOf(n) \in Status /\ (n # NoPull => StatusOf(n) = pull[n].status)
  BY PullOf DEF StatusOf, Status

\* A page is one of its changes.
LEMMA PageChanges ==
  ASSUME TypeOK, NEW p \in Pages, NEW pg \in Page, page' = [page EXCEPT ![p] = pg]
  PROVE  /\ page' \in [Pages -> Page] /\ page'[p] = pg
         /\ \A q \in Pages : q # p => page'[q] = page[q]
  BY DEF TypeOK

LEMMA HandlerChanges ==
  ASSUME TypeOK, NEW p \in Pages, NEW h \in Handler, handler' = [handler EXCEPT ![p] = h]
  PROVE  /\ handler' \in [Pages -> Handler] /\ handler'[p] = h
         /\ \A q \in Pages : q # p => handler'[q] = handler[q]
  BY DEF TypeOK

LEMMA ChanChanges ==
  ASSUME TypeOK, NEW p \in Pages, NEW c \in Seq(Msg), chan' = [chan EXCEPT ![p] = c]
  PROVE  /\ chan' \in [Pages -> Seq(Msg)] /\ chan'[p] = c
         /\ \A q \in Pages : q # p => chan'[q] = chan[q]
  BY DEF TypeOK

LEMMA ClosedType ==
  ASSUME TypeOK, NEW p \in Pages
  PROVE  /\ Closed(p) \in Page /\ IfOpenClosed(p) \in Page
         /\ ~Closed(p).open /\ ~IfOpenClosed(p).open
         /\ Closed(p).refresh = "reply" => page[p].refresh = "reply"
         /\ IfOpenClosed(p).refresh = "reply" => page[p].refresh = "reply"
         /\ Closed(p).seen = page[p].seen /\ Closed(p).seenStatus = page[p].seenStatus
         /\ IfOpenClosed(p).seen = page[p].seen
         /\ IfOpenClosed(p).seenStatus = page[p].seenStatus
  <1>1. page[p] \in Page /\ page[p].open \in BOOLEAN
    BY PageOf
  <1>2. /\ Closed(p) \in Page /\ ~Closed(p).open
        /\ Closed(p).refresh = "reply" => page[p].refresh = "reply"
        /\ Closed(p).seen = page[p].seen /\ Closed(p).seenStatus = page[p].seenStatus
    BY <1>1 DEF Closed, Page
  <1> QED
    BY <1>1, <1>2 DEF IfOpenClosed

LEMMA ConnectedType ==
  ASSUME NEW pg \in Page, NEW wanted \in BOOLEAN
  PROVE  /\ Connected(pg, wanted) \in Page
         /\ pg.open => Connected(pg, wanted).open
         /\ wanted => Connected(pg, wanted).open
         /\ Connected(pg, wanted).job = pg.job /\ Connected(pg, wanted).status = pg.status
         /\ Connected(pg, wanted).lines = pg.lines /\ Connected(pg, wanted).refresh = pg.refresh
         /\ Connected(pg, wanted).seen = pg.seen
         /\ Connected(pg, wanted).seenStatus = pg.seenStatus
  BY DEF Connected, Page

LEMMA InitType == Init => TypeOK
  <1>1. <<>> \in Seq(Msg)
    BY EmptySeq
  <1> QED
    BY <1>1, BlankType DEF Init, TypeOK, Status, NoPull, BoundsAssumption

-----------------------------------------------------------------------------
(* What a step leaves alone.                                               *)

LEMMA KnownStays ==
  ASSUME NEW n, GoOn, Known(n)
  PROVE  Known(n)'
  BY DEF GoOn, Known

LEMMA AskedStays ==
  ASSUME TypeOK, NEW p \in Pages, Asked(p), GoOn,
         page'[p].refresh = "reply" => page[p].refresh = "reply",
         page'[p].seen = page[p].seen, page'[p].seenStatus = page[p].seenStatus
  PROVE  Asked(p)'
  <1> SUFFICES ASSUME page'[p].refresh = "reply", page'[p].seen # NoPull
               PROVE  /\ page'[p].seen \in Pulls /\ pull'[page'[p].seen].status # "none"
                      /\ page'[p].seenStatus \in {"running", pull'[page'[p].seen].status}
    BY DEF Asked, Known
  <1> DEFINE n == page[p].seen
  <1>1. /\ n \in Pulls /\ pull[n].status # "none"
        /\ page[p].seenStatus \in {"running", pull[n].status}
    BY DEF Asked, Known
  <1>2. pull[n].status \in {"running"} \cup Ended
    BY <1>1, PullOf
  <1>3. pull'[n].status # "none" /\ (pull[n].status \in Ended => pull'[n].status = pull[n].status)
    BY <1>1 DEF GoOn
  <1> QED
    BY <1>1, <1>2, <1>3

SameHistory(p) == /\ p \in late' <=> p \in late
                  /\ p \in overtaken' <=> p \in overtaken
                  /\ p \in cleared' <=> p \in cleared

LEMMA SocketStays ==
  ASSUME TypeOK, NEW p \in Pages, Socket(p), SameHistory(p),
         handler'[p] = handler[p], chan'[p] = chan[p], page[p].open => page'[p].open,
         page'[p].job = page[p].job, page'[p].status = page[p].status,
         page'[p].lines = page[p].lines,
         JobOf(p) # NoPull => pull'[JobOf(p)] = pull[JobOf(p)]
  PROVE  Socket(p)'
  <1> DEFINE j == JobOf(p)
  <1>1. /\ Live(p)' <=> Live(p)
        /\ JobOf(p)' = j
        /\ LinesDue(p)' = LinesDue(p)
    BY DEF Live, JobOf, LinesDue
  <1>2. Plugged(p)'
    BY <1>1 DEF Socket, Plugged, Known, JobOf
  <1>3. Taken(p)'
    BY <1>1 DEF Socket, Taken, SameHistory, JobOf
  <1>4. Ordered(p)'
    <2>1. chan[p] # <<>> => j # NoPull
      BY PageOf DEF Socket, Plugged, Live
    <2>2. ASSUME NEW k \in DOMAIN chan[p]
          PROVE  /\ chan'[p][k].kind = "snapshot" => k = 1
                 /\ chan'[p][k].kind = "line" => chan'[p][k].status = "running"
                 /\ chan'[p][k].status \in {"running", pull'[j].status}
      <3>1. chan[p] # <<>>
        OBVIOUS
      <3> QED
        BY <2>1, <3>1 DEF Socket, Ordered, JobOf
    <2> QED
      BY <1>1, <2>2 DEF Ordered
  <1>5. Live(p) => pull'[j] = pull[j]
    BY DEF Socket, Plugged
  <1>6. UpToDate(p)'
    BY <1>1, <1>5 DEF Socket, UpToDate, SameHistory
  <1>7. Counted(p)'
    BY <1>1, <1>5 DEF Socket, Counted, SameHistory
  <1> QED
    BY <1>2, <1>3, <1>4, <1>6, <1>7 DEF Socket

LEMMA SocketGone ==
  ASSUME NEW p \in Pages, handler'[p] = NoHandler, chan'[p] = <<>>
  PROVE  Socket(p)'
  <1>1. handler'[p].pc = "none" /\ handler'[p].job = NoPull /\ DOMAIN chan'[p] = {}
    BY DEF NoHandler
  <1> QED
    BY <1>1 DEF Socket, Plugged, Taken, Ordered, UpToDate, Counted, Live, Known, JobOf

LEMMA NoSocket ==
  ASSUME NEW p \in Pages, Plugged(p), ~page[p].open
  PROVE  handler[p] = NoHandler /\ chan[p] = <<>>
  BY DEF Plugged, NoHandler

LEMMA SameJobs == pull' = pull => GoOn
  BY DEF GoOn

\* A step that changes neither job, endpoint nor socket.
LEMMA PageStep ==
  ASSUME TypeOK, Inv, NEW p \in Pages, NEW pg \in Page,
         page' = [page EXCEPT ![p] = pg], UNCHANGED <<pull, current, handler, chan>>,
         faults' \in 0..MaxFaults,
         late' \subseteq Pages, overtaken' \subseteq Pages, cleared' \subseteq Pages,
         \A q \in Pages : q # p => SameHistory(q),
         Asked(p)', Socket(p)'
  PROVE  TypeOK' /\ Inv'
  <1>1. /\ page' \in [Pages -> Page] /\ page'[p] = pg
        /\ \A q \in Pages : q # p => page'[q] = page[q]
    BY PageChanges
  <1>2. TypeOK'
    BY <1>1 DEF TypeOK
  <1>3. ASSUME NEW q \in Pages, q # p PROVE Asked(q)' /\ Socket(q)'
    <2>1. Asked(q) /\ Socket(q) /\ SameHistory(q) /\ page'[q] = page[q] /\ GoOn
      BY <1>1, <1>3, SameJobs DEF Inv
    <2>2. Asked(q)'
      BY <2>1, AskedStays
    <2>3. Socket(q)'
      BY <2>1, SocketStays
    <2> QED
      BY <2>2, <2>3
  <1>4. Known(current)'
    BY DEF Inv, Known
  <1> QED
    BY <1>2, <1>3, <1>4 DEF Inv

-----------------------------------------------------------------------------
(* The page.                                                               *)

LEMMA MountKeeps ==
  ASSUME TypeOK, Inv, NEW p \in Pages, Mount(p)
  PROVE  TypeOK' /\ Inv'
  <1> DEFINE pg == [Blank EXCEPT !.mounted = TRUE, !.refresh = "due"]
  <1>1. pg \in Page /\ pg.refresh = "due"
    BY BlankType DEF Blank, Page
  <1>2. /\ page' = [page EXCEPT ![p] = pg] /\ ~page[p].open
        /\ UNCHANGED <<pull, current, handler, chan, faults, late, overtaken, cleared>>
    BY DEF Mount, history
  <1> HIDE DEF pg
  <1>3. page'[p] = pg
    BY <1>1, <1>2, PageChanges
  <1>4. Asked(p)'
    BY <1>1, <1>3 DEF Asked
  <1>5. Socket(p)'
    <2>1. handler'[p] = NoHandler /\ chan'[p] = <<>>
      BY <1>2, NoSocket DEF Inv, Socket
    <2> QED
      BY <2>1, SocketGone
  <1> QED
    BY <1>1, <1>2, <1>4, <1>5, PageStep DEF SameHistory, TypeOK

LEMMA RefreshKeeps ==
  ASSUME TypeOK, Inv, NEW p \in Pages, Refresh(p)
  PROVE  TypeOK' /\ Inv'
  <1> DEFINE pg == [page[p] EXCEPT !.refresh = "due"]
  <1>1. /\ pg \in Page /\ pg.refresh = "due" /\ pg.open = page[p].open /\ pg.job = page[p].job
        /\ pg.status = page[p].status /\ pg.lines = page[p].lines
    BY PageOf DEF Page
  <1>2. /\ page' = [page EXCEPT ![p] = pg]
        /\ UNCHANGED <<pull, current, handler, chan, faults, late, overtaken, cleared>>
    BY DEF Refresh, history
  <1> HIDE DEF pg
  <1>3. page'[p] = pg
    BY <1>1, <1>2, PageChanges
  <1>4. Asked(p)'
    BY <1>1, <1>3 DEF Asked
  <1>5. Socket(p)'
    BY <1>1, <1>2, <1>3, SocketStays DEF Inv, SameHistory
  <1> QED
    BY <1>1, <1>2, <1>4, <1>5, PageStep DEF SameHistory, TypeOK

LEMMA RefreshServeKeeps ==
  ASSUME TypeOK, Inv, NEW p \in Pages, RefreshServe(p)
  PROVE  TypeOK' /\ Inv'
  <1>1. UNCHANGED <<pull, current, handler, chan, late, overtaken, cleared>>
    BY DEF RefreshServe, history
  <1>2. CASE /\ page' = [page EXCEPT ![p].refresh = "reply", ![p].seen = current,
                                    ![p].seenStatus = StatusOf(current)]
             /\ UNCHANGED faults
    <2> DEFINE pg == [page[p] EXCEPT !.refresh = "reply", !.seen = current,
                                     !.seenStatus = StatusOf(current)]
    <2>1. StatusOf(current) \in Status /\ current \in Pulls \cup {NoPull}
          /\ (current # NoPull => StatusOf(current) = pull[current].status)
      BY StatusOfType DEF TypeOK
    <2>2. /\ pg \in Page /\ pg.seen = current /\ pg.seenStatus = StatusOf(current)
          /\ pg.open = page[p].open /\ pg.job = page[p].job
          /\ pg.status = page[p].status /\ pg.lines = page[p].lines
      BY <2>1, PageOf DEF Page
    <2>3. page' = [page EXCEPT ![p] = pg]
      BY <1>2, PageOf DEF TypeOK
    <2> HIDE DEF pg
    <2>4. page'[p] = pg
      BY <2>2, <2>3, PageChanges
    <2>5. Asked(p)'
      BY <1>1, <2>1, <2>2, <2>4 DEF Asked, Inv, Known
    <2>6. Socket(p)'
      BY <1>1, <2>2, <2>4, SocketStays DEF Inv, SameHistory
    <2>7. faults' \in 0..MaxFaults /\ late' \subseteq Pages /\ overtaken' \subseteq Pages
          /\ cleared' \subseteq Pages
      BY <1>1, <1>2 DEF TypeOK
    <2> QED
      BY <1>1, <2>2, <2>3, <2>5, <2>6, <2>7, PageStep DEF SameHistory
  <1>3. CASE /\ faults < MaxFaults /\ faults' = faults + 1
             /\ page' = [page EXCEPT ![p].refresh = "none"]
    <2> DEFINE pg == [page[p] EXCEPT !.refresh = "none"]
    <2>2. /\ pg \in Page /\ pg.refresh = "none"
          /\ pg.open = page[p].open /\ pg.job = page[p].job
          /\ pg.status = page[p].status /\ pg.lines = page[p].lines
      BY PageOf DEF Page
    <2>3. page' = [page EXCEPT ![p] = pg]
      BY <1>3, PageOf DEF TypeOK
    <2> HIDE DEF pg
    <2>4. page'[p] = pg
      BY <2>2, <2>3, PageChanges
    <2>5. Asked(p)'
      BY <2>2, <2>4 DEF Asked
    <2>6. Socket(p)'
      BY <1>1, <2>2, <2>4, SocketStays DEF Inv, SameHistory
    <2>7. faults' \in 0..MaxFaults
      BY <1>3 DEF TypeOK
    <2>8. late' \subseteq Pages /\ overtaken' \subseteq Pages /\ cleared' \subseteq Pages
      BY <1>1 DEF TypeOK
    <2> QED
      BY <1>1, <2>2, <2>3, <2>5, <2>6, <2>7, <2>8, PageStep DEF SameHistory
  <1> QED
    BY <1>2, <1>3 DEF RefreshServe

\* What makes a socket out of date, when its endpoint and messages stay: a status
\* of its job other than the page would have come to.
LEMMA SocketRetold ==
  ASSUME TypeOK, NEW p \in Pages, Socket(p), p \in late' <=> p \in late,
         p \notin overtaken' => p \notin overtaken,
         UNCHANGED <<pull, handler, chan>>, page[p].open => page'[p].open,
         page'[p].lines = page[p].lines \/ page'[p].lines = 0,
         p \notin cleared' => p \notin cleared /\ page'[p].lines = page[p].lines,
         Live(p) /\ p \notin overtaken' /\ page'[p].job = JobOf(p) =>
           /\ page'[p].status \in {"running", pull[JobOf(p)].status}
           /\ chan[p] = <<>> => page'[p].status = pull[JobOf(p)].status
  PROVE  Socket(p)'
  <1> DEFINE j == JobOf(p)
  <1>1. (Live(p)' <=> Live(p)) /\ JobOf(p)' = j /\ (p \in late' <=> p \in late)
    BY DEF Live, JobOf, SameHistory
  <1>2. Plugged(p)' /\ Taken(p)' /\ Ordered(p)'
    BY <1>1 DEF Socket, Plugged, Taken, Ordered, Known, JobOf
  <1>3. UpToDate(p)'
    BY <1>1 DEF Socket, UpToDate
  <1>4. Counted(p)'
    <2> SUFFICES ASSUME Live(p)
                 PROVE  /\ LinesDue(p)' <= pull[j].lines
                        /\ p \notin late' \cup cleared' => LinesDue(p)' = pull[j].lines
      BY <1>1 DEF Counted
    <2>1. /\ LinesDue(p) <= pull[j].lines
          /\ p \notin late \cup cleared => LinesDue(p) = pull[j].lines
      BY DEF Socket, Counted
    <2>2. page'[p].lines = page[p].lines => LinesDue(p)' = LinesDue(p)
      BY DEF LinesDue
    <2>3. CASE page'[p].lines = page[p].lines
      BY <1>1, <2>1, <2>2, <2>3
    <2>4. CASE page'[p].lines = 0 /\ p \in cleared'
      <3>1. page[p].lines \in Nat /\ LinesIn(chan[p]) \in Nat
        BY PageOf, LineMsgsFinite DEF BoundsAssumption
      <3>2. j \in Pulls
        BY PageOf DEF Socket, Plugged
      <3>3. pull[j].lines \in Nat
        BY <3>2, PullOf DEF BoundsAssumption
      <3>4. CASE chan[p] # <<>> /\ Head(chan[p]).kind = "snapshot"
        <4>1. LinesDue(p)' = LinesDue(p)
          BY <3>4 DEF LinesDue
        <4> QED
          BY <2>1, <2>4, <4>1
      <3>5. CASE ~(chan[p] # <<>> /\ Head(chan[p]).kind = "snapshot")
        <4>1. LinesDue(p) = page[p].lines + LinesIn(chan[p])
          BY <3>5 DEF LinesDue
        <4>2. LinesDue(p)' = 0 + LinesIn(chan[p])
          BY <2>4, <3>5 DEF LinesDue
        <4>3. LinesDue(p)' <= pull[j].lines
          BY <2>1, <3>1, <3>3, <4>1, <4>2
        <4> QED
          BY <2>4, <4>3
      <3> QED
        BY <3>4, <3>5
    <2> QED
      BY <2>3, <2>4
  <1> QED
    BY <1>2, <1>3, <1>4 DEF Socket

\* A reply that is not out of date tells what the page would have come to.
LEMMA RefreshReceiveKeeps ==
  ASSUME TypeOK, Inv, NEW p \in Pages, RefreshReceive(p)
  PROVE  TypeOK' /\ Inv'
  <1> DEFINE n == page[p].seen
             j == JobOf(p)
             pg == [page[p] EXCEPT !.refresh = "loaded", !.job = n, !.status = page[p].seenStatus]
  <1>1. /\ UNCHANGED <<pull, current, handler, chan, faults, late, cleared>>
        /\ page[p].refresh = "reply"
        /\ overtaken' = IF n # current \/ (Told(p, n) /\ page[p].seenStatus = "running")
                        THEN overtaken \cup {p} ELSE overtaken
    BY DEF RefreshReceive
  <1>2. /\ pg \in Page /\ pg.refresh = "loaded" /\ pg.job = n /\ pg.status = page[p].seenStatus
        /\ pg.open = page[p].open /\ pg.lines = page[p].lines
    BY PageOf DEF Page
  <1>3. page' = [page EXCEPT ![p] = pg]
    BY PageOf DEF RefreshReceive, TypeOK
  <1>4. page'[p] = pg
    BY <1>2, <1>3, PageChanges
  <1>5. Asked(p)'
    BY <1>2, <1>4 DEF Asked
  <1>6. /\ p \notin overtaken' => p \notin overtaken
        /\ overtaken' \subseteq Pages
        /\ \A q \in Pages : q # p => (q \in overtaken' <=> q \in overtaken)
    BY <1>1 DEF TypeOK
  <1>7. Socket(p)'
    <2>1. ASSUME Live(p), p \notin overtaken', n = j
          PROVE  /\ page[p].seenStatus \in {"running", pull[j].status}
                 /\ chan[p] = <<>> => page[p].seenStatus = pull[j].status
      <3>1. /\ n # NoPull /\ n \in Pulls /\ pull[n].status # "none"
            /\ page[p].seenStatus \in {"running", pull[n].status}
        BY <1>1, <2>1 DEF Inv, Asked, Known, Socket, Plugged
      <3>2. ASSUME chan[p] = <<>>, page[p].seenStatus = "running"
            PROVE  pull[n].status = "running"
        <4>1. ~Told(p, n)
          BY <1>1, <2>1, <3>2
        <4>2. StatusOf(n) \notin Ended
          BY <2>1, <3>2, <4>1 DEF Told, Live, JobOf
        <4>3. pull[n].status \notin Ended
          BY <3>1, <4>2 DEF StatusOf
        <4> QED
          BY <3>1, <4>3, PullOf
      <3> QED
        BY <2>1, <3>1, <3>2
    <2>2. Socket(p) /\ (p \in late' <=> p \in late)
      BY <1>1 DEF Inv
    <2> HIDE DEF pg
    <2> QED
      BY <1>1, <1>2, <1>4, <1>6, <2>1, <2>2, SocketRetold
  <1>8. /\ faults' \in 0..MaxFaults /\ late' \subseteq Pages /\ cleared' \subseteq Pages
        /\ \A q \in Pages : q # p => SameHistory(q)
    BY <1>1, <1>6 DEF TypeOK, SameHistory
  <1> HIDE DEF pg
  <1> QED
    BY <1>1, <1>2, <1>3, <1>5, <1>6, <1>7, <1>8, PageStep

LEMMA RefreshConnectKeeps ==
  ASSUME TypeOK, Inv, NEW p \in Pages, RefreshConnect(p)
  PROVE  TypeOK' /\ Inv'
  <1> DEFINE follows == page[p].status = "running"
             c == Connected(page[p], follows)
             pg == [c EXCEPT !.refresh = "none"]
             fresh == IF follows THEN FreshSocket(p) ELSE {}
  <1>1. /\ UNCHANGED <<pull, current, handler, chan, faults>>
        /\ page' = [page EXCEPT ![p] = pg]
        /\ late' = late \ fresh /\ overtaken' = overtaken \ fresh /\ cleared' = cleared \ fresh
    BY DEF RefreshConnect, Forgive
  <1>2. /\ pg \in Page /\ pg.refresh = "none" /\ (page[p].open => pg.open)
        /\ pg.job = page[p].job /\ pg.status = page[p].status /\ pg.lines = page[p].lines
    <2>1. page[p] \in Page /\ follows \in BOOLEAN
      BY PageOf
    <2>2. /\ c \in Page /\ (page[p].open => c.open)
          /\ c.job = page[p].job /\ c.status = page[p].status /\ c.lines = page[p].lines
      <3> HIDE DEF follows
      <3> QED
        BY <2>1, ConnectedType
    <2> HIDE DEF c
    <2> QED
      BY <2>2 DEF Page
  <1>3. fresh \subseteq {p} /\ (page[p].open => fresh = {})
    BY DEF FreshSocket
  <1> HIDE DEF pg, fresh
  <1>4. page'[p] = pg
    BY <1>1, <1>2, PageChanges
  <1>5. Asked(p)'
    BY <1>2, <1>4 DEF Asked
  <1>6. Socket(p)'
    <2>1. Socket(p)
      BY DEF Inv
    <2>2. CASE page[p].open
      <3>1. SameHistory(p)
        BY <1>1, <1>3, <2>2 DEF SameHistory
      <3> QED
        BY <1>1, <1>2, <1>4, <2>1, <2>2, <3>1, SocketStays
    <2>3. CASE ~page[p].open
      <3>1. handler'[p] = NoHandler /\ chan'[p] = <<>>
        BY <1>1, <2>1, <2>3, NoSocket DEF Socket
      <3> QED
        BY <3>1, SocketGone
    <2> QED
      BY <2>2, <2>3
  <1>7. /\ faults' \in 0..MaxFaults /\ late' \subseteq Pages /\ overtaken' \subseteq Pages
        /\ cleared' \subseteq Pages /\ \A q \in Pages : q # p => SameHistory(q)
    BY <1>1, <1>3 DEF TypeOK, SameHistory
  <1> QED
    BY <1>1, <1>2, <1>5, <1>6, <1>7, PageStep

LEMMA PullReceiveKeeps ==
  ASSUME TypeOK, Inv, NEW p \in Pages, PullReceive(p)
  PROVE  TypeOK' /\ Inv'
  <1> DEFINE n == page[p].pulled
             c == Connected(page[p], TRUE)
             pg == [c EXCEPT !.pulled = NoPull, !.job = n, !.status = "running", !.lines = 0]
  <1>1. /\ UNCHANGED <<pull, current, handler, chan, faults>>
        /\ page' = [page EXCEPT ![p] = pg]
        /\ n # NoPull
    BY DEF PullReceive
  <1>2. /\ pg \in Page /\ pg.open /\ pg.job = n /\ pg.status = "running" /\ pg.lines = 0
        /\ pg.refresh = page[p].refresh /\ pg.seen = page[p].seen
        /\ pg.seenStatus = page[p].seenStatus
    <2>1. page[p] \in Page /\ TRUE \in BOOLEAN /\ n \in Pulls \cup {NoPull}
      BY PageOf
    <2>2. /\ c \in Page /\ c.open /\ c.refresh = page[p].refresh
          /\ c.seen = page[p].seen /\ c.seenStatus = page[p].seenStatus
      BY <2>1, ConnectedType
    <2>3. "running" \in Status /\ 0 \in 0..LogPane /\ NoPull \in Pulls \cup {NoPull}
      BY DEF Status, LogPane, BoundsAssumption
    <2> HIDE DEF c
    <2> QED
      BY <2>1, <2>2, <2>3 DEF Page
  <1>3. /\ page[p].open => /\ overtaken' = IF Told(p, n) THEN overtaken \cup {p} ELSE overtaken
                           /\ cleared' = cleared \cup {p}
                           /\ late' = late
        /\ ~page[p].open => /\ late' = late \ {p} /\ overtaken' = overtaken \ {p}
                            /\ cleared' = cleared \ {p}
    BY DEF PullReceive, Forgive
  <1> HIDE DEF pg
  <1>4. page'[p] = pg
    BY <1>1, <1>2, PageChanges
  <1>5. Asked(p)'
    BY <1>1, <1>2, <1>4, AskedStays, SameJobs DEF Inv
  <1>6. Socket(p)'
    <2>1. Socket(p)
      BY DEF Inv
    <2>2. CASE page[p].open
      <3>1. ASSUME Live(p), p \notin overtaken', n = JobOf(p), chan[p] = <<>>
            PROVE  pull[n].status = "running"
        <4>1. ~Told(p, n)
          BY <1>3, <2>2, <3>1
        <4>2. StatusOf(n) \notin Ended
          BY <3>1, <4>1 DEF Told, Live, JobOf
        <4>3. n \in Pulls /\ pull[n].status # "none"
          BY <1>1, <2>1, <3>1 DEF Socket, Plugged, Known
        <4>4. pull[n].status \notin Ended
          BY <1>1, <4>2 DEF StatusOf
        <4> QED
          BY <4>3, <4>4, PullOf
      <3>2. /\ p \in late' <=> p \in late
            /\ p \notin overtaken' => p \notin overtaken
            /\ p \in cleared'
        BY <1>3, <2>2
      <3> QED
        BY <1>1, <1>2, <1>4, <2>1, <2>2, <3>1, <3>2, SocketRetold
    <2>3. CASE ~page[p].open
      <3>1. handler'[p] = NoHandler /\ chan'[p] = <<>>
        BY <1>1, <2>1, <2>3, NoSocket DEF Socket
      <3> QED
        BY <3>1, SocketGone
    <2> QED
      BY <2>2, <2>3
  <1>7. /\ faults' \in 0..MaxFaults /\ late' \subseteq Pages /\ overtaken' \subseteq Pages
        /\ cleared' \subseteq Pages /\ \A q \in Pages : q # p => SameHistory(q)
    BY <1>1, <1>3 DEF TypeOK, SameHistory
  <1> QED
    BY <1>1, <1>2, <1>5, <1>6, <1>7, PageStep

-----------------------------------------------------------------------------
(* A job begins, goes on and ends.                                         *)

\* A job begins that nobody knew of.
LEMMA StartOne ==
  ASSUME TypeOK, NEW n \in Pulls, Start(n)
  PROVE  /\ pull' \in [Pulls -> [status: Status, lines: 0..MaxLines]] /\ GoOn
         /\ current' = n /\ n # NoPull /\ pull'[n].status = "running"
         /\ \A m \in Pulls : pull[m].status # "none" => pull'[m] = pull[m]
  <1>1. /\ pull' = [pull EXCEPT ![n].status = "running"] /\ current' = n
        /\ pull[n].status = "none"
    BY DEF Start
  <1>2. pull \in [Pulls -> [status: Status, lines: 0..MaxLines]] /\ "running" \in Status
    BY DEF TypeOK, Status
  <1>3. /\ pull' \in [Pulls -> [status: Status, lines: 0..MaxLines]]
        /\ pull'[n].status = "running" /\ \A m \in Pulls : m # n => pull'[m] = pull[m]
    BY <1>1, <1>2
  <1>4. GoOn
    BY <1>1, <1>3 DEF GoOn, Ended
  <1> QED
    BY <1>1, <1>3, <1>4, BlankType

LEMMA StartKeeps ==
  ASSUME TypeOK, Inv, NEW n \in Pulls, Start(n), UNCHANGED <<handler, chan, faults, history>>,
         page' \in [Pages -> Page],
         \A p \in Pages : \E m \in Pulls \cup {NoPull} : page'[p] = [page[p] EXCEPT !.pulled = m]
  PROVE  TypeOK' /\ Inv'
  <1>1. /\ pull' \in [Pulls -> [status: Status, lines: 0..MaxLines]] /\ GoOn
        /\ current' = n /\ n # NoPull /\ pull'[n].status = "running"
        /\ \A m \in Pulls : pull[m].status # "none" => pull'[m] = pull[m]
    BY StartOne
  <1>2. TypeOK'
    BY <1>1 DEF TypeOK, history
  <1>3. Known(current)'
    BY <1>1 DEF Known
  <1>4. ASSUME NEW p \in Pages PROVE Asked(p)' /\ Socket(p)'
    <2>1. Asked(p) /\ Socket(p) /\ SameHistory(p)
      BY DEF Inv, SameHistory, history
    <2>2. /\ page'[p].refresh = page[p].refresh /\ page'[p].seen = page[p].seen
          /\ page'[p].seenStatus = page[p].seenStatus /\ page'[p].open = page[p].open
          /\ page'[p].job = page[p].job /\ page'[p].status = page[p].status
          /\ page'[p].lines = page[p].lines
      BY PageOf DEF Page
    <2>3. JobOf(p) # NoPull => pull'[JobOf(p)] = pull[JobOf(p)]
      BY <1>1, <2>1 DEF Socket, Plugged, Known
    <2>4. Asked(p)'
      BY <1>1, <2>1, <2>2, AskedStays
    <2>5. Socket(p)'
      BY <2>1, <2>2, <2>3, SocketStays
    <2> QED
      BY <2>4, <2>5
  <1> QED
    BY <1>2, <1>3, <1>4 DEF Inv

LEMMA PullKeeps ==
  ASSUME TypeOK, Inv, NEW p \in Pages, Pull(p)
  PROVE  TypeOK' /\ Inv'
  <1>1. PICK n \in Pulls : Start(n) /\ page' = [page EXCEPT ![p].pulled = n]
    BY DEF Pull
  <1>2. page' \in [Pages -> Page]
    <2> DEFINE pg == [page[p] EXCEPT !.pulled = n]
    <2>1. pg \in Page
      BY PageOf DEF Page
    <2>2. page' = [page EXCEPT ![p] = pg]
      BY <1>1 DEF TypeOK
    <2> HIDE DEF pg
    <2> QED
      BY <2>1, <2>2, PageChanges
  <1>3. ASSUME NEW q \in Pages
        PROVE  \E m \in Pulls \cup {NoPull} : page'[q] = [page[q] EXCEPT !.pulled = m]
    <2>1. page[q] \in Page /\ page[q].pulled \in Pulls \cup {NoPull}
      BY PageOf
    <2>2. [page[q] EXCEPT !.pulled = page[q].pulled] = page[q]
      BY <2>1 DEF Page
    <2>3. CASE q = p
      <3>1. page'[q] = [page[q] EXCEPT !.pulled = n]
        BY <1>1, <2>3 DEF TypeOK
      <3> QED
        BY <3>1
    <2>4. CASE q # p
      <3>1. page'[q] = page[q]
        BY <1>1, <2>4 DEF TypeOK
      <3> QED
        BY <2>1, <2>2, <3>1
    <2> QED
      BY <2>3, <2>4
  <1>4. UNCHANGED <<handler, chan, faults, history>>
    BY DEF Pull
  <1> QED
    BY <1>1, <1>2, <1>3, <1>4, StartKeeps

LEMMA PullElsewhereKeeps ==
  ASSUME TypeOK, Inv, PullElsewhere
  PROVE  TypeOK' /\ Inv'
  <1>1. PICK n \in Pulls : Start(n)
    BY DEF PullElsewhere
  <1>2. UNCHANGED <<page, handler, chan, faults, history>>
    BY DEF PullElsewhere
  <1>3. ASSUME NEW q \in Pages
        PROVE  \E m \in Pulls \cup {NoPull} : page'[q] = [page[q] EXCEPT !.pulled = m]
    <2>1. page[q] \in Page /\ page[q].pulled \in Pulls \cup {NoPull}
      BY PageOf
    <2>2. [page[q] EXCEPT !.pulled = page[q].pulled] = page[q]
      BY <2>1 DEF Page
    <2> QED
      BY <1>2, <2>1, <2>2
  <1>4. page' \in [Pages -> Page]
    BY <1>2 DEF TypeOK
  <1> QED
    BY <1>1, <1>2, <1>3, <1>4, StartKeeps

LEMMA AppendOne ==
  ASSUME NEW c \in Seq(Msg), NEW m \in Msg
  PROVE  /\ Append(c, m) \in Seq(Msg) /\ Append(c, m) # <<>>
         /\ Len(c) \in Nat /\ DOMAIN c = 1..Len(c)
         /\ Len(Append(c, m)) = Len(c) + 1 /\ DOMAIN Append(c, m) = 1..(Len(c) + 1)
         /\ \A k \in 1..Len(c) : Append(c, m)[k] = c[k]
         /\ Append(c, m)[Len(c) + 1] = m
         /\ c = <<>> => Head(Append(c, m)) = m
         /\ c # <<>> => /\ Head(Append(c, m)) = Head(c)
                        /\ Tail(Append(c, m)) = Append(Tail(c), m)
  <1> DEFINE a == Append(c, m)
  <1>1. /\ a \in Seq(Msg) /\ Len(c) \in Nat /\ DOMAIN c = 1..Len(c)
        /\ Len(a) = Len(c) + 1 /\ DOMAIN a = 1..(Len(c) + 1)
        /\ \A k \in 1..Len(c) : a[k] = c[k]
        /\ a[Len(c) + 1] = m
    BY LenProperties, AppendProperties
  <1>2. a # <<>> /\ (c = <<>> => Len(c) = 0) /\ (c # <<>> => Len(c) > 0)
    BY <1>1, EmptySeq
  <1>3. Head(a) = a[1] /\ (c # <<>> => Head(c) = c[1])
    BY <1>1, <1>2
  <1>4. ASSUME c # <<>> PROVE Tail(a) = Append(Tail(c), m)
    <2> DEFINE t == Tail(c)
               u == Append(t, m)
    <2>1. t \in Seq(Msg) /\ Len(t) = Len(c) - 1 /\ \A k \in 1..Len(t) : t[k] = c[k + 1]
      BY <1>4, HeadTailProperties
    <2>2. u \in Seq(Msg) /\ Len(u) = Len(c) /\ (\A k \in 1..Len(t) : u[k] = t[k]) /\ u[Len(c)] = m
      BY <1>1, <2>1, AppendProperties
    <2>3. /\ Tail(a) \in Seq(Msg) /\ Len(Tail(a)) = Len(c)
          /\ \A k \in 1..Len(c) : Tail(a)[k] = a[k + 1]
      BY <1>1, <1>2, HeadTailProperties
    <2> HIDE DEF t, u, a
    <2>4. ASSUME NEW k \in 1..Len(c) PROVE Tail(a)[k] = u[k]
      <3>1. CASE k = Len(c)
        BY <1>1, <2>2, <2>3, <3>1
      <3>2. CASE k # Len(c)
        <4>1. k \in 1..Len(t) /\ k + 1 \in 1..Len(c)
          <5>1. Len(c) \in Nat /\ Len(t) = Len(c) - 1
            BY <1>1, <2>1
          <5> QED
            BY <3>2, <5>1
        <4> QED
          BY <1>1, <2>1, <2>2, <2>3, <4>1
      <3> QED
        BY <3>1, <3>2
    <2>5. Tail(a) = u
      BY <2>2, <2>3, <2>4, SeqEqual
    <2> QED
      BY <2>5 DEF a, t, u
  <1>5. /\ c = <<>> => Head(a) = m
        /\ c # <<>> => Head(a) = Head(c)
    <2>1. CASE c = <<>>
      BY <1>1, <1>2, <1>3, <2>1
    <2>2. CASE c # <<>>
      <3>1. 1 \in 1..Len(c)
        BY <1>1, <1>2, <2>2
      <3> QED
        BY <1>1, <1>3, <2>2, <3>1
    <2> QED
      BY <2>1, <2>2
  <1> QED
    BY <1>1, <1>2, <1>4, <1>5

LEMMA LinesDueType ==
  ASSUME TypeOK, NEW p \in Pages
  PROVE  LinesDue(p) \in Nat
  <1>1. chan[p] \in Seq(Msg) /\ page[p].lines \in Nat
    BY PageOf DEF BoundsAssumption
  <1>2. CASE chan[p] # <<>> /\ Head(chan[p]).kind = "snapshot"
    <2>1. Head(chan[p]) \in Msg /\ Tail(chan[p]) \in Seq(Msg)
      BY <1>1, <1>2, HeadTailProperties
    <2>2. Head(chan[p]).lines \in Nat
      BY <2>1 DEF Msg, BoundsAssumption
    <2>3. LinesIn(Tail(chan[p])) \in Nat
      BY <2>1, LineMsgsFinite
    <2>4. LinesDue(p) = Head(chan[p]).lines + LinesIn(Tail(chan[p]))
      BY <1>2 DEF LinesDue
    <2> QED
      BY <2>2, <2>3, <2>4
  <1>3. CASE ~(chan[p] # <<>> /\ Head(chan[p]).kind = "snapshot")
    BY <1>1, <1>3, LineMsgsFinite DEF LinesDue
  <1> QED
    BY <1>2, <1>3

\* A socket that subscribed hears of what its running job does.
LEMMA SocketHears ==
  ASSUME TypeOK, NEW p \in Pages, Socket(p), SameHistory(p),
         NEW n \in Pulls, JobOf(p) = n, handler[p].pc = "subscribed", NEW m \in Msg,
         pull[n].status = "running", m.kind \in {"line", "status"}, m.status = pull'[n].status,
         m.kind = "line" => m.status = "running", pull'[n].status # "none",
         pull'[n].lines = IF m.kind = "line" THEN pull[n].lines + 1 ELSE pull[n].lines,
         chan'[p] = Append(chan[p], m), handler'[p] = handler[p], page'[p] = page[p]
  PROVE  Socket(p)'
  <1> DEFINE c == chan[p]
             a == Append(c, m)
  <1>1. /\ c \in Seq(Msg) /\ page[p].lines \in Nat /\ n # NoPull
        /\ handler'[p].pc = "subscribed" /\ JobOf(p)' = n /\ Live(p) /\ Live(p)'
    BY PageOf, BlankType DEF JobOf, Live, BoundsAssumption
  <1>2. /\ a \in Seq(Msg) /\ a # <<>>
        /\ Len(c) \in Nat /\ DOMAIN c = 1..Len(c)
        /\ Len(a) = Len(c) + 1 /\ DOMAIN a = 1..(Len(c) + 1)
        /\ \A k \in 1..Len(c) : a[k] = c[k]
        /\ a[Len(c) + 1] = m
        /\ c = <<>> => Head(a) = m
        /\ c # <<>> => Head(a) = Head(c) /\ Tail(a) = Append(Tail(c), m)
    BY <1>1, AppendOne
  <1>3. LinesIn(a) = IF m.kind = "line" THEN LinesIn(c) + 1 ELSE LinesIn(c)
    BY <1>1, AppendLines
  <1>4. chan'[p] = a
    OBVIOUS
  <1> HIDE DEF a
  <1>5. Plugged(p)' /\ Taken(p)'
    BY <1>1, <1>4 DEF Socket, Plugged, Taken, Known, JobOf, Live
  <1>6. Ordered(p)'
    <2>1. ASSUME NEW k \in DOMAIN a
          PROVE  /\ a[k].kind = "snapshot" => k = 1
                 /\ a[k].kind = "line" => a[k].status = "running"
                 /\ a[k].status \in {"running", pull'[n].status}
      <3>1. CASE k = Len(c) + 1
        BY <1>2, <3>1
      <3>2. CASE k \in 1..Len(c)
        <4>1. a[k] = c[k] /\ k \in DOMAIN c
          BY <1>2, <3>2
        <4> QED
          BY <4>1 DEF Socket, Ordered
      <3> QED
        BY <1>2, <3>1, <3>2
    <2> QED
      BY <1>1, <1>4, <2>1 DEF Ordered
  <1>7. UpToDate(p)'
    <2> SUFFICES ASSUME p \notin late \cup overtaken
                 PROVE  /\ a[Len(a)].status = pull'[n].status
                        /\ page[p].job = n /\ Head(a).kind # "snapshot" =>
                             page[p].status \in {"running", pull'[n].status}
      BY <1>1, <1>2, <1>4 DEF UpToDate, SameHistory
    <2>1. a[Len(a)].status = pull'[n].status
      BY <1>2
    <2>2. CASE c = <<>>
      BY <1>1, <2>1, <2>2 DEF Socket, UpToDate
    <2>3. CASE c # <<>>
      BY <1>1, <1>2, <2>1, <2>3 DEF Socket, UpToDate
    <2> QED
      BY <2>2, <2>3
  <1>8. Counted(p)'
    <2>1. /\ LinesDue(p) <= pull[n].lines
          /\ p \notin late \cup cleared => LinesDue(p) = pull[n].lines
      BY <1>1 DEF Socket, Counted
    <2>2. /\ LinesDue(p)' = IF m.kind = "line" THEN LinesDue(p) + 1 ELSE LinesDue(p)
          /\ LinesDue(p) \in Nat
      <3>1. CASE c # <<>> /\ Head(c).kind = "snapshot"
        <4>1. Tail(c) \in Seq(Msg) /\ Head(c) \in Msg
          BY <1>1, <3>1, HeadTailProperties
        <4>2. /\ LinesIn(Tail(a)) = IF m.kind = "line" THEN LinesIn(Tail(c)) + 1
                                                       ELSE LinesIn(Tail(c))
              /\ LinesIn(Tail(c)) \in Nat
          BY <1>2, <3>1, <4>1, AppendLines, LineMsgsFinite
        <4>3. Head(c).lines \in Nat
          BY <4>1 DEF Msg, BoundsAssumption
        <4>4. LinesDue(p) = Head(c).lines + LinesIn(Tail(c))
          BY <3>1 DEF LinesDue
        <4>5. LinesDue(p)' = Head(c).lines + LinesIn(Tail(a))
          BY <1>2, <1>4, <3>1 DEF LinesDue
        <4> QED
          BY <4>2, <4>3, <4>4, <4>5
      <3>2. CASE ~(c # <<>> /\ Head(c).kind = "snapshot")
        <4>1. Head(a).kind # "snapshot"
          BY <1>2, <3>2
        <4>2. LinesDue(p) = page[p].lines + LinesIn(c)
          BY <3>2 DEF LinesDue
        <4>3. LinesDue(p)' = page[p].lines + LinesIn(a)
          BY <1>4, <4>1 DEF LinesDue
        <4>4. LinesIn(c) \in Nat
          BY <1>1, LineMsgsFinite
        <4> QED
          BY <1>1, <1>3, <4>2, <4>3, <4>4
      <3> QED
        BY <3>1, <3>2
    <2>3. pull[n].lines \in Nat
      BY PullOf DEF BoundsAssumption
    <2>4. LinesDue(p)' <= pull'[n].lines
      BY <2>1, <2>2, <2>3
    <2>5. p \notin late' \cup cleared' => LinesDue(p)' = pull'[n].lines
      BY <2>1, <2>2, <2>3 DEF SameHistory
    <2> QED
      BY <1>1, <2>4, <2>5 DEF Counted
  <1> QED
    BY <1>5, <1>6, <1>7, <1>8 DEF Socket

\* One that has not is behind, or takes what happened into its snapshot.
LEMMA SocketMisses ==
  ASSUME TypeOK, NEW p \in Pages, Socket(p), NEW n \in Pulls, JobOf(p) = n,
         handler[p].pc \in {"accepted", "sent"}, UNCHANGED <<page[p], handler[p], chan[p]>>,
         pull[n].status = "running", pull'[n].status # "none",
         pull'[n].lines \in Nat, pull[n].lines <= pull'[n].lines,
         \/ p \in late'
         \/ handler[p].pc = "accepted" /\ pull'[n].status = "running" /\ p \notin late
  PROVE  Socket(p)'
  <1>1. JobOf(p)' = n /\ (Live(p)' <=> Live(p)) /\ LinesDue(p)' = LinesDue(p) /\ n # NoPull
    BY BlankType DEF JobOf, Live, LinesDue
  <1>2. Plugged(p)' /\ Taken(p)'
    BY <1>1 DEF Socket, Plugged, Taken, Known, JobOf, Live
  <1>3. Ordered(p)'
    BY <1>1 DEF Socket, Ordered
  <1>4. UpToDate(p)'
    BY <1>1 DEF UpToDate, Live
  <1>5. Counted(p)'
    <2> SUFFICES ASSUME Live(p) PROVE LinesDue(p) <= pull'[n].lines /\ p \in late'
      BY <1>1 DEF Counted
    <2>1. LinesDue(p) <= pull[n].lines
      BY DEF Socket, Counted
    <2>2. LinesDue(p) \in Nat
      BY LinesDueType
    <2>3. pull[n].lines \in Nat
      BY PullOf DEF BoundsAssumption
    <2>4. p \in late'
      BY DEF Live
    <2> QED
      BY <2>1, <2>2, <2>3, <2>4
  <1> QED
    BY <1>2, <1>3, <1>4, <1>5 DEF Socket

LEMMA JobGoesOn ==
  ASSUME TypeOK, Inv, NEW n \in Pulls, NEW m \in Msg,
         NEW r \in [status: Status, lines: 0..MaxLines],
         pull[n].status = "running", pull' = [pull EXCEPT ![n] = r], Broadcast(n, m),
         UNCHANGED <<current, page, handler, faults, overtaken, cleared>>,
         m.kind \in {"line", "status"}, m.status = r.status, r.status # "none",
         m.kind = "line" => r.status = "running",
         r.lines = IF m.kind = "line" THEN pull[n].lines + 1 ELSE pull[n].lines,
         late' = late \cup (IF m.kind = "line" THEN LogTaken(n) ELSE TooEarly(n))
  PROVE  TypeOK' /\ Inv'
  <1>1. /\ pull' \in [Pulls -> [status: Status, lines: 0..MaxLines]] /\ pull'[n] = r
        /\ \A k \in Pulls : k # n => pull'[k] = pull[k]
    BY DEF TypeOK
  <1>2. GoOn
    BY <1>1 DEF GoOn, Ended
  <1>3. /\ chan' \in [Pages -> Seq(Msg)]
        /\ \A q \in Pages : chan'[q] = IF q \in Subscribers(n) THEN Append(chan[q], m) ELSE chan[q]
    <2>1. \A q \in Pages : chan[q] \in Seq(Msg) /\ Append(chan[q], m) \in Seq(Msg)
      BY PageOf, AppendOne
    <2> QED
      BY <2>1 DEF Broadcast
  <1>4. TypeOK'
    BY <1>1, <1>3 DEF TypeOK, LogTaken, TooEarly
  <1>5. Known(current)'
    BY <1>2, KnownStays DEF Inv, Known, GoOn
  <1>6. ASSUME NEW q \in Pages PROVE Asked(q)' /\ Socket(q)'
    <2>1. Asked(q) /\ Socket(q) /\ page'[q] = page[q] /\ handler'[q] = handler[q]
      BY DEF Inv
    <2>2. Asked(q)'
      BY <1>2, <2>1, AskedStays
    <2>3. JobOf(q) \in Pulls \cup {NoPull} /\ handler[q].pc \in {"none", "accepted", "sent", "subscribed"}
      BY PageOf
    <2>4. CASE JobOf(q) # n
      <3>1. chan'[q] = chan[q] /\ SameHistory(q)
        BY <1>3, <2>4 DEF Subscribers, LogTaken, TooEarly, SameHistory, JobOf
      <3>2. JobOf(q) # NoPull => pull'[JobOf(q)] = pull[JobOf(q)]
        BY <1>1, <2>3, <2>4
      <3> QED
        BY <2>1, <2>2, <3>1, <3>2, SocketStays
    <2>5. CASE JobOf(q) = n /\ handler[q].pc = "subscribed"
      <3>1. chan'[q] = Append(chan[q], m) /\ SameHistory(q)
        BY <1>3, <2>5 DEF Subscribers, LogTaken, TooEarly, SameHistory, JobOf
      <3>2. Socket(q)'
        BY <1>1, <2>1, <2>5, <3>1, SocketHears
      <3> QED
        BY <2>2, <3>2
    <2>6. CASE JobOf(q) = n /\ handler[q].pc \in {"accepted", "sent"}
      <3>1. chan'[q] = chan[q]
        BY <1>3, <2>6 DEF Subscribers
      <3>2. \/ q \in late'
            \/ handler[q].pc = "accepted" /\ pull'[n].status = "running" /\ q \notin late
        BY <1>1, <2>6 DEF LogTaken, TooEarly, JobOf
      <3>3. pull'[n].lines \in Nat /\ pull[n].lines <= pull'[n].lines /\ pull'[n].status # "none"
        BY <1>1, PullOf DEF BoundsAssumption
      <3>4. Socket(q)'
        BY <2>1, <2>6, <3>1, <3>2, <3>3, SocketMisses
      <3> QED
        BY <2>2, <3>4
    <2>7. CASE JobOf(q) = n /\ handler[q].pc = "none"
      BY <2>1, <2>7, BlankType DEF Socket, Plugged, NoHandler, JobOf
    <2> QED
      BY <2>3, <2>4, <2>5, <2>6, <2>7
  <1> QED
    BY <1>4, <1>5, <1>6 DEF Inv

LEMMA EmitLineKeeps ==
  ASSUME TypeOK, Inv, NEW n \in Pulls, EmitLine(n)
  PROVE  TypeOK' /\ Inv'
  <1> DEFINE m == [kind |-> "line", job |-> n, status |-> "running", lines |-> 1]
             r == [pull[n] EXCEPT !.lines = @ + 1]
  <1>1. pull[n] \in [status: Status, lines: 0..MaxLines] /\ pull[n].status = "running"
        /\ pull[n].lines < MaxLines /\ pull[n].lines \in 0..MaxLines /\ MaxLines \in Nat
    BY PullOf DEF EmitLine, BoundsAssumption
  <1>2. m \in Msg /\ m.kind = "line" /\ m.status = "running"
    BY <1>1 DEF Msg, Status
  <1>3. /\ r \in [status: Status, lines: 0..MaxLines] /\ r.status = "running"
        /\ r.lines = pull[n].lines + 1
    BY <1>1
  <1>4. /\ pull' = [pull EXCEPT ![n] = r] /\ Broadcast(n, m) /\ late' = late \cup LogTaken(n)
        /\ UNCHANGED <<current, page, handler, faults, overtaken, cleared>>
    BY DEF EmitLine, TypeOK
  <1> HIDE DEF m, r
  <1> QED
    BY <1>1, <1>2, <1>3, <1>4, JobGoesOn

LEMMA FinishKeeps ==
  ASSUME TypeOK, Inv, NEW n \in Pulls, Finish(n)
  PROVE  TypeOK' /\ Inv'
  <1>1. PICK st \in Ended :
          /\ pull' = [pull EXCEPT ![n].status = st]
          /\ Broadcast(n, [kind |-> "status", job |-> n, status |-> st, lines |-> 0])
    BY DEF Finish
  <1> DEFINE m == [kind |-> "status", job |-> n, status |-> st, lines |-> 0]
             r == [pull[n] EXCEPT !.status = st]
  <1>2. pull[n] \in [status: Status, lines: 0..MaxLines] /\ pull[n].status = "running"
    BY PullOf DEF Finish
  <1>3. m \in Msg /\ m.kind = "status" /\ m.status = st
    BY DEF Msg, Status, Ended, BoundsAssumption
  <1>4. /\ r \in [status: Status, lines: 0..MaxLines] /\ r.status = st /\ st # "none"
        /\ r.lines = pull[n].lines
    BY <1>2 DEF Status, Ended
  <1>5. /\ pull' = [pull EXCEPT ![n] = r] /\ Broadcast(n, m) /\ late' = late \cup TooEarly(n)
        /\ UNCHANGED <<current, page, handler, faults, overtaken, cleared>>
    BY <1>1 DEF Finish, TypeOK
  <1> HIDE DEF m, r
  <1> QED
    BY <1>2, <1>3, <1>4, <1>5, JobGoesOn

-----------------------------------------------------------------------------
(* The endpoint, and what a page reads.                                    *)

\* A step at one socket.
LEMMA SocketStep ==
  ASSUME TypeOK, Inv, NEW p \in Pages, UNCHANGED <<pull, current, history>>,
         \A q \in Pages : q # p => /\ page'[q] = page[q] /\ handler'[q] = handler[q]
                                   /\ chan'[q] = chan[q],
         page'[p].refresh = "reply" => page[p].refresh = "reply",
         page'[p].seen = page[p].seen, page'[p].seenStatus = page[p].seenStatus,
         Socket(p)'
  PROVE  Inv'
  <1>1. GoOn
    BY SameJobs
  <1>2. Known(current)'
    BY DEF Inv, Known
  <1>3. Asked(p)'
    BY <1>1, AskedStays DEF Inv
  <1>4. ASSUME NEW q \in Pages, q # p PROVE Asked(q)' /\ Socket(q)'
    <2>1. Asked(q) /\ Socket(q) /\ SameHistory(q)
      BY DEF Inv, SameHistory, history
    <2>2. Asked(q)'
      BY <1>1, <1>4, <2>1, AskedStays
    <2>3. Socket(q)'
      BY <1>4, <2>1, SocketStays
    <2> QED
      BY <2>2, <2>3
  <1> QED
    BY <1>2, <1>3, <1>4 DEF Inv

LEMMA AcceptKeeps ==
  ASSUME TypeOK, Inv, NEW p \in Pages, Accept(p)
  PROVE  TypeOK' /\ Inv'
  <1> DEFINE h == [pc |-> "accepted", job |-> current, snap |-> StatusOf(current)]
  <1>1. /\ page[p].open /\ handler[p].pc = "none"
        /\ handler' = [handler EXCEPT ![p] = h]
        /\ UNCHANGED <<pull, current, page, chan, faults, history>>
    BY DEF Accept
  <1>2. /\ current \in Pulls \cup {NoPull} /\ StatusOf(current) \in Status
        /\ current # NoPull => StatusOf(current) = pull[current].status
    BY StatusOfType DEF TypeOK
  <1>3. h \in Handler /\ h.pc = "accepted" /\ h.job = current /\ h.snap = StatusOf(current)
    BY <1>2 DEF Handler
  <1> HIDE DEF h
  <1>4. /\ handler' \in [Pages -> Handler] /\ handler'[p] = h
        /\ \A q \in Pages : q # p => handler'[q] = handler[q]
    BY <1>1, <1>3, HandlerChanges
  <1>5. TypeOK'
    BY <1>1, <1>4 DEF TypeOK, history
  <1>6. chan'[p] = <<>> /\ DOMAIN chan'[p] = {}
    <2>1. chan[p] = <<>>
      BY <1>1 DEF Inv, Socket, Plugged
    <2> QED
      BY <1>1, <2>1
  <1>7. Known(current)
    BY DEF Inv
  <1>8. Plugged(p)'
    BY <1>1, <1>3, <1>4, <1>6, <1>7 DEF Plugged, Known, Live, JobOf
  <1>9. Taken(p)'
    BY <1>1, <1>2, <1>3, <1>4 DEF Taken, JobOf
  <1>10. Ordered(p)' /\ UpToDate(p)' /\ Counted(p)'
    BY <1>3, <1>4, <1>6 DEF Ordered, UpToDate, Counted, Live
  <1>11. Socket(p)'
    BY <1>8, <1>9, <1>10 DEF Socket
  <1>12. Inv'
    BY <1>1, <1>4, <1>11, SocketStep
  <1> QED
    BY <1>5, <1>12

LEMMA SubscribeKeeps ==
  ASSUME TypeOK, Inv, NEW p \in Pages, Subscribe(p)
  PROVE  TypeOK' /\ Inv'
  <1> DEFINE h == [handler[p] EXCEPT !.pc = "subscribed"]
  <1>1. /\ handler[p].pc = "sent"
        /\ handler' = [handler EXCEPT ![p] = h]
        /\ UNCHANGED <<pull, current, page, chan, faults, history>>
    BY DEF Subscribe, TypeOK
  <1>2. h \in Handler /\ h.pc = "subscribed" /\ h.job = JobOf(p)
    BY PageOf DEF Handler, JobOf
  <1> HIDE DEF h
  <1>3. /\ handler' \in [Pages -> Handler] /\ handler'[p] = h
        /\ \A q \in Pages : q # p => handler'[q] = handler[q]
    BY <1>1, <1>2, HandlerChanges
  <1>4. TypeOK'
    BY <1>1, <1>3 DEF TypeOK, history
  <1>5. Live(p) /\ Live(p)' /\ JobOf(p)' = JobOf(p) /\ LinesDue(p)' = LinesDue(p)
    BY <1>1, <1>2, <1>3 DEF Live, JobOf, LinesDue
  <1>6. Socket(p)
    BY DEF Inv
  <1>7. Plugged(p)' /\ Taken(p)'
    BY <1>1, <1>2, <1>3, <1>5, <1>6 DEF Socket, Plugged, Taken, Known
  <1>8. Ordered(p)'
    BY <1>1, <1>5, <1>6 DEF Socket, Ordered
  <1>9. UpToDate(p)' /\ Counted(p)'
    BY <1>1, <1>5, <1>6 DEF Socket, UpToDate, Counted, history
  <1>10. Socket(p)'
    BY <1>7, <1>8, <1>9 DEF Socket
  <1>11. Inv'
    BY <1>1, <1>3, <1>10, SocketStep
  <1> QED
    BY <1>4, <1>11

\* The first message, with all the lines so far.
LEMMA SendFirstKeeps ==
  ASSUME TypeOK, Inv, NEW p \in Pages, SendFirst(p)
  PROVE  TypeOK' /\ Inv'
  <1> DEFINE n == JobOf(p)
  <1>1. /\ handler[p].pc = "accepted" /\ UNCHANGED <<pull, current, faults, history>>
        /\ Socket(p) /\ chan[p] = <<>>
    BY DEF SendFirst, Inv, Socket, Plugged
  <1>2. CASE n = NoPull
    <2> DEFINE c == Closed(p)
               pg == [c EXCEPT !.job = NoPull, !.status = "none", !.lines = 0]
    <2>1. /\ page' = [page EXCEPT ![p] = pg] /\ handler' = [handler EXCEPT ![p] = NoHandler]
          /\ chan' = chan
      BY <1>2 DEF SendFirst, JobOf
    <2>2. /\ pg \in Page /\ (pg.refresh = "reply" => page[p].refresh = "reply")
          /\ pg.seen = page[p].seen /\ pg.seenStatus = page[p].seenStatus
      <3>1. /\ c \in Page /\ (c.refresh = "reply" => page[p].refresh = "reply")
            /\ c.seen = page[p].seen /\ c.seenStatus = page[p].seenStatus
        BY ClosedType
      <3>2. 0 \in 0..LogPane /\ "none" \in Status /\ NoPull \in Pulls \cup {NoPull}
        BY DEF LogPane, Status, BoundsAssumption
      <3> HIDE DEF c
      <3> QED
        BY <3>1, <3>2 DEF Page
    <2> HIDE DEF pg
    <2>3. /\ page' \in [Pages -> Page] /\ page'[p] = pg
          /\ \A q \in Pages : q # p => page'[q] = page[q]
      BY <2>1, <2>2, PageChanges
    <2>4. /\ handler' \in [Pages -> Handler] /\ handler'[p] = NoHandler
          /\ \A q \in Pages : q # p => handler'[q] = handler[q]
      BY <2>1, BlankType, HandlerChanges
    <2>5. TypeOK'
      BY <1>1, <2>1, <2>3, <2>4 DEF TypeOK, history
    <2>6. Socket(p)'
      BY <1>1, <2>1, <2>4, SocketGone
    <2>7. Inv'
      BY <1>1, <2>1, <2>2, <2>3, <2>4, <2>6, SocketStep
    <2> QED
      BY <2>5, <2>7
  <1>3. CASE n # NoPull
    <2> DEFINE m == Snapshot(p)
               h == [handler[p] EXCEPT !.pc = "sent"]
               c == Append(chan[p], m)
    <2>1. /\ handler' = [handler EXCEPT ![p] = h] /\ chan' = [chan EXCEPT ![p] = c]
          /\ page' = page
      BY <1>3 DEF SendFirst, JobOf, TypeOK
    <2>2. h \in Handler /\ h.pc = "sent" /\ h.job = n
      BY PageOf DEF Handler, JobOf
    <2>3. n \in Pulls /\ pull[n].lines \in 0..MaxLines /\ pull[n].lines \in Nat
      BY <1>3, PageOf, PullOf DEF BoundsAssumption
    <2>4. /\ m \in Msg /\ m.kind = "snapshot" /\ m.status = handler[p].snap
          /\ m.lines = pull[n].lines
      BY <2>3, PageOf DEF Snapshot, Msg, JobOf
    <2> HIDE DEF m, h
    <2>5. /\ c \in Seq(Msg) /\ c # <<>> /\ Len(c) = 1 /\ DOMAIN c = 1..1
          /\ c[1] = m /\ Head(c) = m /\ Tail(c) = <<>>
      <3>1. <<>> \in Seq(Msg) /\ Len(<<>>) = 0
        BY EmptySeq
      <3>2. /\ c \in Seq(Msg) /\ c # <<>> /\ Len(c) = 1 /\ DOMAIN c = 1..1
            /\ c[1] = m /\ Head(c) = m
        BY <1>1, <2>4, <3>1, AppendOne
      <3>3. Tail(c) \in Seq(Msg) /\ Len(Tail(c)) = 0
        BY <3>2, HeadTailProperties
      <3>4. Tail(c) = <<>>
        BY <3>3, EmptySeq
      <3> QED
        BY <3>2, <3>4
    <2> HIDE DEF c
    <2>6. /\ handler' \in [Pages -> Handler] /\ handler'[p] = h
          /\ \A q \in Pages : q # p => handler'[q] = handler[q]
      BY <2>1, <2>2, HandlerChanges
    <2>7. /\ chan' \in [Pages -> Seq(Msg)] /\ chan'[p] = c
          /\ \A q \in Pages : q # p => chan'[q] = chan[q]
      BY <2>1, <2>5, ChanChanges
    <2>8. TypeOK'
      BY <1>1, <2>1, <2>6, <2>7 DEF TypeOK, history
    <2>9. /\ handler[p].snap \in {"running", pull[n].status}
          /\ p \notin late => handler[p].snap = pull[n].status
      BY <1>1, <1>3 DEF Socket, Taken
    <2>10. Live(p)' /\ JobOf(p)' = n
      BY <2>2, <2>6 DEF Live, JobOf
    <2>11. Plugged(p)' /\ Taken(p)'
      BY <1>1, <1>3, <2>1, <2>2, <2>6, <2>10 DEF Socket, Plugged, Taken, Known
    <2>12. Ordered(p)'
      <3>1. \A k \in DOMAIN c : k = 1 /\ c[k] = m
        BY <2>5
      <3> QED
        BY <1>1, <2>4, <2>7, <2>9, <2>10, <3>1 DEF Ordered
    <2>13. UpToDate(p)'
      BY <1>1, <2>4, <2>5, <2>7, <2>9, <2>10 DEF UpToDate, history
    <2>14. Counted(p)'
      <3>1. LinesDue(p)' = pull[n].lines + LinesIn(<<>>)
        BY <2>4, <2>5, <2>7 DEF LinesDue
      <3>2. LinesDue(p)' = pull[n].lines
        BY <2>3, <3>1, NoLines
      <3> QED
        BY <1>1, <2>3, <2>10, <3>2 DEF Counted
    <2>15. Socket(p)'
      BY <2>11, <2>12, <2>13, <2>14 DEF Socket
    <2>16. Inv'
      BY <1>1, <2>1, <2>6, <2>7, <2>15, SocketStep
    <2> QED
      BY <2>8, <2>16
  <1> QED
    BY <1>2, <1>3

LEMMA DeliverKeeps ==
  ASSUME TypeOK, Inv, NEW p \in Pages, Deliver(p)
  PROVE  TypeOK' /\ Inv'
  <1> DEFINE c == chan[p]
             m == Head(c)
             t == Tail(c)
             j == JobOf(p)
             pg == Shown(page[p], m)
  <1>1. /\ c # <<>> /\ page' = [page EXCEPT ![p] = pg] /\ chan' = [chan EXCEPT ![p] = t]
        /\ UNCHANGED <<pull, current, handler, faults, history>>
    BY DEF Deliver, TypeOK
  <1>2. /\ c \in Seq(Msg) /\ Len(c) \in Nat /\ Len(c) > 0 /\ DOMAIN c = 1..Len(c)
        /\ m \in Msg /\ m = c[1] /\ t \in Seq(Msg) /\ Len(t) = Len(c) - 1
        /\ DOMAIN t = 1..(Len(c) - 1)
        /\ \A k \in 1..(Len(c) - 1) : t[k] = c[k + 1]
    <2>1. c \in Seq(Msg)
      BY PageOf
    <2>2. Len(c) \in Nat /\ Len(c) > 0 /\ DOMAIN c = 1..Len(c)
      BY <1>1, <2>1, EmptySeq, LenProperties
    <2>3. m \in Msg /\ t \in Seq(Msg) /\ Len(t) = Len(c) - 1
      BY <1>1, <2>1, HeadTailProperties
    <2>4. DOMAIN t = 1..(Len(c) - 1)
      BY <2>3, LenProperties
    <2> QED
      BY <1>1, <2>1, <2>2, <2>3, <2>4
  <1>3. LinesIn(c) = IF m.kind = "line" THEN LinesIn(t) + 1 ELSE LinesIn(t)
    BY <1>1, <1>2, TailLines
  <1>4. /\ m.kind \in {"snapshot", "status", "line"} /\ m.job \in Pulls \cup {NoPull}
        /\ m.status \in Status /\ m.lines \in 0..MaxLines /\ LinesIn(t) \in Nat
    BY <1>2, LineMsgsFinite DEF Msg
  <1>5. /\ Socket(p) /\ Live(p) /\ j \in Pulls
        /\ pull[j].lines \in 0..MaxLines
    <2>1. Socket(p)
      BY DEF Inv
    <2>2. Live(p)
      BY <1>1, <2>1, PageOf DEF Socket, Plugged, Live
    <2>3. j \in Pulls
      BY <2>1, <2>2, PageOf DEF Socket, Plugged
    <2> QED
      BY <2>1, <2>2, <2>3, PullOf
  <1>6. /\ \A k \in DOMAIN c : c[k].kind = "snapshot" => k = 1
        /\ m.kind = "line" => m.status = "running"
        /\ m.status \in {"running", pull[j].status}
    <2>1. 1 \in DOMAIN c
      BY <1>2
    <2> QED
      BY <1>2, <1>5, <2>1 DEF Socket, Ordered
  <1> HIDE DEF m, t
  <1>7. t # <<>> => Head(t).kind # "snapshot"
    <2> SUFFICES ASSUME t # <<>> PROVE Head(t).kind # "snapshot"
      OBVIOUS
    <2>1. Len(t) \in Nat /\ Len(t) > 0 /\ Head(t) = t[1]
      BY <1>2, EmptySeq
    <2>2. 1 \in 1..(Len(c) - 1) /\ 1 + 1 \in DOMAIN c
      BY <1>2, <2>1
    <2>3. Head(t) = c[1 + 1]
      BY <1>2, <2>1, <2>2
    <2> QED
      BY <1>6, <2>2, <2>3
  <1>8. m.kind = "snapshot" => LinesDue(p) = m.lines + LinesIn(t)
    BY <1>1 DEF LinesDue, m, t
  <1>9. m.kind # "snapshot" => LinesDue(p) = page[p].lines + LinesIn(c)
    BY DEF LinesDue, m
  <1>10. /\ LinesDue(p) <= pull[j].lines
         /\ p \notin late \cup cleared => LinesDue(p) = pull[j].lines
    BY <1>5 DEF Socket, Counted
  <1>11. page[p] \in Page /\ page[p].lines \in 0..MaxLines /\ MaxLines \in Nat
    BY PageOf DEF BoundsAssumption
  <1>12. m.kind = "line" => page[p].lines + 1 \in 0..MaxLines
    BY <1>3, <1>4, <1>5, <1>9, <1>10, <1>11
  <1>13. /\ m.kind = "snapshot" => /\ pg = [page[p] EXCEPT !.job = m.job, !.status = m.status,
                                                           !.lines = m.lines]
         /\ m.kind = "status" => pg = [page[p] EXCEPT !.job = m.job, !.status = m.status]
         /\ m.kind = "line" => pg = [page[p] EXCEPT !.lines = page[p].lines + 1]
    BY DEF Shown
  <1> HIDE DEF pg
  <1>14. /\ pg \in Page /\ pg.open = page[p].open /\ pg.refresh = page[p].refresh
         /\ pg.seen = page[p].seen /\ pg.seenStatus = page[p].seenStatus
         /\ m.kind = "snapshot" => pg.status = m.status /\ pg.lines = m.lines
         /\ m.kind = "status" => pg.status = m.status /\ pg.lines = page[p].lines
         /\ m.kind = "line" => /\ pg.status = page[p].status /\ pg.job = page[p].job
                               /\ pg.lines = page[p].lines + 1
    <2>1. CASE m.kind = "snapshot"
      BY <1>4, <1>11, <1>13, <2>1 DEF Page, LogPane
    <2>2. CASE m.kind = "status"
      BY <1>4, <1>11, <1>13, <2>2 DEF Page
    <2>3. CASE m.kind = "line"
      BY <1>11, <1>12, <1>13, <2>3 DEF Page, LogPane
    <2> QED
      BY <1>4, <2>1, <2>2, <2>3
  <1>15. /\ page' \in [Pages -> Page] /\ page'[p] = pg
         /\ \A q \in Pages : q # p => page'[q] = page[q]
    BY <1>1, <1>14, PageChanges
  <1>16. /\ chan' \in [Pages -> Seq(Msg)] /\ chan'[p] = t
         /\ \A q \in Pages : q # p => chan'[q] = chan[q]
    BY <1>1, <1>2, ChanChanges
  <1>17. TypeOK'
    BY <1>1, <1>15, <1>16 DEF TypeOK, history
  <1>18. Live(p)' /\ JobOf(p)' = j
    BY <1>1, <1>5 DEF Live, JobOf
  <1>19. Plugged(p)' /\ Taken(p)'
    BY <1>1, <1>5, <1>14, <1>15, <1>18 DEF Socket, Plugged, Taken, Known, Live
  <1>20. Ordered(p)'
    <2>1. ASSUME NEW k \in DOMAIN t
          PROVE  /\ t[k].kind = "snapshot" => k = 1
                 /\ t[k].kind = "line" => t[k].status = "running"
                 /\ t[k].status \in {"running", pull[j].status}
      <3>1. k + 1 \in DOMAIN c /\ k + 1 # 1 /\ t[k] = c[k + 1]
        BY <1>2
      <3>2. /\ c[k + 1].kind = "snapshot" => k + 1 = 1
            /\ c[k + 1].kind = "line" => c[k + 1].status = "running"
            /\ c[k + 1].status \in {"running", pull[j].status}
        BY <1>5, <3>1 DEF Socket, Ordered
      <3> QED
        BY <3>1, <3>2
    <2> QED
      BY <1>1, <1>16, <1>18, <2>1 DEF Ordered
  <1>21. UpToDate(p)'
    <2> SUFFICES ASSUME p \notin late \cup overtaken
                 PROVE  /\ t # <<>> => t[Len(t)].status = pull[j].status
                        /\ pg.job = j /\ t = <<>> => pg.status = pull[j].status
                        /\ pg.job = j /\ t # <<>> => pg.status \in {"running", pull[j].status}
      BY <1>1, <1>15, <1>16, <1>18 DEF UpToDate, history
    <2>1. /\ c[Len(c)].status = pull[j].status
          /\ page[p].job = j /\ m.kind # "snapshot" => page[p].status \in {"running", pull[j].status}
      BY <1>1, <1>5 DEF Socket, UpToDate, m
    <2>2. ASSUME t # <<>> PROVE t[Len(t)].status = pull[j].status
      <3>1. Len(t) \in Nat /\ Len(t) > 0
        BY <1>2, <2>2, EmptySeq
      <3>2. Len(t) \in 1..(Len(c) - 1) /\ Len(t) + 1 = Len(c)
        BY <1>2, <3>1
      <3> QED
        BY <1>2, <2>1, <3>2
    <2>3. ASSUME t = <<>> PROVE m.status = pull[j].status
      <3>1. Len(t) = 0
        BY <2>3
      <3>2. Len(c) = 1
        BY <1>2, <3>1
      <3> QED
        BY <1>2, <2>1, <3>2
    <2> QED
      BY <1>4, <1>6, <1>14, <2>1, <2>2, <2>3
  <1>22. Counted(p)'
    <2>1. LinesDue(p)' = pg.lines + LinesIn(t)
      BY <1>7, <1>15, <1>16 DEF LinesDue
    <2>2. LinesDue(p)' = LinesDue(p)
      <3>1. CASE m.kind = "snapshot"
        BY <1>8, <1>14, <2>1, <3>1
      <3>2. CASE m.kind = "status"
        BY <1>3, <1>9, <1>14, <2>1, <3>2
      <3>3. CASE m.kind = "line"
        <4>1. page[p].lines \in Int /\ LinesIn(t) \in Int
          BY <1>4, <1>11
        <4>2. LinesDue(p)' = page[p].lines + 1 + LinesIn(t)
          BY <1>14, <2>1, <3>3
        <4>3. LinesDue(p) = page[p].lines + (LinesIn(t) + 1)
          BY <1>3, <1>9, <3>3
        <4> QED
          BY <4>1, <4>2, <4>3
      <3> QED
        BY <1>4, <3>1, <3>2, <3>3
    <2> QED
      BY <1>1, <1>10, <1>18, <2>2 DEF Counted, history
  <1>23. Socket(p)'
    BY <1>19, <1>20, <1>21, <1>22 DEF Socket
  <1>24. Inv'
    BY <1>1, <1>14, <1>15, <1>16, <1>23, SocketStep
  <1> QED
    BY <1>17, <1>24

-----------------------------------------------------------------------------
(* Ends of sockets.                                                        *)

\* A page that loses its socket, or never had one.
LEMMA GoneKeeps ==
  ASSUME TypeOK, Inv, NEW p \in Pages, NEW pg \in Page, faults' \in 0..MaxFaults,
         page' = [page EXCEPT ![p] = pg], pg.refresh = "reply" => page[p].refresh = "reply",
         pg.seen = page[p].seen, pg.seenStatus = page[p].seenStatus,
         handler' = [handler EXCEPT ![p] = NoHandler], chan' = [chan EXCEPT ![p] = <<>>],
         UNCHANGED <<pull, current, history>>
  PROVE  TypeOK' /\ Inv'
  <1>1. /\ page' \in [Pages -> Page] /\ page'[p] = pg
        /\ \A q \in Pages : q # p => page'[q] = page[q]
    BY PageChanges
  <1>2. /\ handler' \in [Pages -> Handler] /\ handler'[p] = NoHandler
        /\ \A q \in Pages : q # p => handler'[q] = handler[q]
    BY BlankType, HandlerChanges
  <1>3. /\ chan' \in [Pages -> Seq(Msg)] /\ chan'[p] = <<>>
        /\ \A q \in Pages : q # p => chan'[q] = chan[q]
    <2>1. <<>> \in Seq(Msg)
      BY EmptySeq
    <2> QED
      BY <2>1, ChanChanges
  <1>4. TypeOK'
    BY <1>1, <1>2, <1>3 DEF TypeOK, history
  <1>5. Socket(p)'
    BY <1>2, <1>3, SocketGone
  <1>6. Inv'
    BY <1>1, <1>2, <1>3, <1>5, SocketStep
  <1> QED
    BY <1>4, <1>6

LEMMA LeaveKeeps ==
  ASSUME TypeOK, Inv, NEW p \in Pages, Leave(p)
  PROVE  TypeOK' /\ Inv'
  <1> DEFINE c == IfOpenClosed(p)
             pg == [c EXCEPT !.mounted = FALSE]
  <1>1. /\ page' = [page EXCEPT ![p] = pg] /\ handler' = [handler EXCEPT ![p] = NoHandler]
        /\ chan' = [chan EXCEPT ![p] = <<>>] /\ UNCHANGED <<pull, current, faults, history>>
    BY DEF Leave
  <1>2. /\ pg \in Page /\ (pg.refresh = "reply" => page[p].refresh = "reply")
        /\ pg.seen = page[p].seen /\ pg.seenStatus = page[p].seenStatus
    <2>1. /\ c \in Page /\ (c.refresh = "reply" => page[p].refresh = "reply")
          /\ c.seen = page[p].seen /\ c.seenStatus = page[p].seenStatus
      BY ClosedType
    <2> HIDE DEF c
    <2> QED
      BY <2>1 DEF Page
  <1>3. faults' \in 0..MaxFaults
    BY <1>1 DEF TypeOK
  <1> HIDE DEF pg
  <1> QED
    BY <1>1, <1>2, <1>3, GoneKeeps

LEMMA DisconnectKeeps ==
  ASSUME TypeOK, Inv, NEW p \in Pages, Disconnect(p)
  PROVE  TypeOK' /\ Inv'
  <1> DEFINE pg == Closed(p)
  <1>1. /\ page' = [page EXCEPT ![p] = pg] /\ handler' = [handler EXCEPT ![p] = NoHandler]
        /\ chan' = [chan EXCEPT ![p] = <<>>] /\ UNCHANGED <<pull, current, history>>
        /\ faults < MaxFaults /\ faults' = faults + 1
    BY DEF Disconnect
  <1>2. /\ pg \in Page /\ (pg.refresh = "reply" => page[p].refresh = "reply")
        /\ pg.seen = page[p].seen /\ pg.seenStatus = page[p].seenStatus
    BY ClosedType
  <1>3. faults' \in 0..MaxFaults
    BY <1>1 DEF TypeOK, BoundsAssumption
  <1> HIDE DEF pg
  <1> QED
    BY <1>1, <1>2, <1>3, GoneKeeps

LEMMA RestartKeeps ==
  ASSUME TypeOK, Inv, Restart
  PROVE  TypeOK' /\ Inv'
  <1>1. /\ faults < MaxFaults /\ faults' = faults + 1 /\ current' = NoPull
        /\ pull' = [n \in Pulls |-> IF pull[n].status = "running"
                                    THEN [pull[n] EXCEPT !.status = "error"] ELSE pull[n]]
        /\ page' = [p \in Pages |-> IfOpenClosed(p)]
        /\ handler' = [p \in Pages |-> NoHandler] /\ chan' = [p \in Pages |-> <<>>]
        /\ UNCHANGED history
    BY DEF Restart
  <1>2. pull' \in [Pulls -> [status: Status, lines: 0..MaxLines]] /\ GoOn
    <2>1. ASSUME NEW n \in Pulls
          PROVE  /\ pull'[n] \in [status: Status, lines: 0..MaxLines]
                 /\ pull[n].status # "none" => pull'[n].status # "none"
                 /\ pull[n].status \in Ended => pull'[n].status = pull[n].status
      <3>1. pull[n] \in [status: Status, lines: 0..MaxLines]
        BY PullOf
      <3>2. pull'[n] = IF pull[n].status = "running"
                       THEN [pull[n] EXCEPT !.status = "error"] ELSE pull[n]
        BY <1>1
      <3> QED
        BY <3>1, <3>2 DEF Status, Ended
    <2>2. GoOn
      BY <2>1 DEF GoOn
    <2> QED
      BY <1>1, <2>1, <2>2
  <1>3. faults' \in 0..MaxFaults
    BY <1>1 DEF TypeOK, BoundsAssumption
  <1>4. /\ page' \in [Pages -> Page] /\ handler' \in [Pages -> Handler]
        /\ chan' \in [Pages -> Seq(Msg)]
    BY <1>1, ClosedType, BlankType, EmptySeq
  <1>5. TypeOK'
    BY <1>1, <1>2, <1>3, <1>4 DEF TypeOK, history
  <1>6. Known(current)'
    BY <1>1 DEF Known
  <1>7. ASSUME NEW p \in Pages PROVE Asked(p)' /\ Socket(p)'
    <2>1. page'[p] = IfOpenClosed(p) /\ handler'[p] = NoHandler /\ chan'[p] = <<>>
      BY <1>1
    <2>2. Asked(p)'
      BY <1>2, <2>1, ClosedType, AskedStays DEF Inv
    <2>3. Socket(p)'
      BY <2>1, SocketGone
    <2> QED
      BY <2>2, <2>3
  <1> QED
    BY <1>5, <1>6, <1>7 DEF Inv

-----------------------------------------------------------------------------
(* The theorems.                                                           *)

LEMMA InitInv == Init => Inv
  <1> SUFFICES ASSUME Init PROVE Inv
    OBVIOUS
  <1>1. Known(current)
    BY DEF Init, Known
  <1>2. ASSUME NEW p \in Pages PROVE Asked(p) /\ Socket(p)
    <2>1. page[p] = Blank /\ handler[p] = NoHandler /\ chan[p] = <<>>
      BY DEF Init
    <2>2. handler[p].pc = "none" /\ handler[p].job = NoPull /\ DOMAIN chan[p] = {}
      BY <2>1 DEF NoHandler
    <2>3. Asked(p)
      BY <2>1 DEF Asked, Blank
    <2>4. Socket(p)
      BY <2>1, <2>2 DEF Socket, Plugged, Taken, Ordered, UpToDate, Counted, Live, Known, JobOf
    <2> QED
      BY <2>3, <2>4
  <1> QED
    BY <1>1, <1>2 DEF Inv

LEMMA NextInv == TypeOK /\ Inv /\ [Next]_vars => (TypeOK /\ Inv)'
  <1> SUFFICES ASSUME TypeOK, Inv, [Next]_vars PROVE TypeOK' /\ Inv'
    OBVIOUS
  <1>1. CASE JobStep
    BY <1>1, EmitLineKeeps, FinishKeeps DEF JobStep
  <1>2. CASE PullElsewhere
    BY <1>2, PullElsewhereKeeps
  <1>3. ASSUME NEW p \in Pages, Endpoint(p) PROVE TypeOK' /\ Inv'
    BY <1>3, AcceptKeeps, SendFirstKeeps, SubscribeKeeps DEF Endpoint
  <1>4. ASSUME NEW p \in Pages, Browser(p) PROVE TypeOK' /\ Inv'
    BY <1>4, RefreshServeKeeps, RefreshReceiveKeeps, RefreshConnectKeeps, PullReceiveKeeps,
       DeliverKeeps DEF Browser
  <1>5. ASSUME NEW p \in Pages, User(p) PROVE TypeOK' /\ Inv'
    BY <1>5, MountKeeps, RefreshKeeps, PullKeeps, LeaveKeeps DEF User
  <1>6. ASSUME NEW p \in Pages, Disconnect(p) PROVE TypeOK' /\ Inv'
    BY <1>6, DisconnectKeeps
  <1>7. CASE Restart
    BY <1>7, RestartKeeps
  <1>8. CASE UNCHANGED vars
    <2>1. UNCHANGED <<pull, current, page, handler, chan, faults, late, overtaken, cleared>>
      BY <1>8 DEF vars, history
    <2>2. TypeOK'
      BY <2>1 DEF TypeOK
    <2>3. ASSUME NEW p \in Pages PROVE Asked(p)' /\ Socket(p)'
      <3>1. Asked(p) /\ Socket(p) /\ SameHistory(p) /\ GoOn
        BY <2>1, SameJobs DEF Inv, SameHistory
      <3> QED
        BY <2>1, <3>1, AskedStays, SocketStays
    <2>4. Known(current)'
      BY <2>1 DEF Inv, Known
    <2> QED
      BY <2>2, <2>3, <2>4 DEF Inv
  <1> QED
    BY <1>1, <1>2, <1>3, <1>4, <1>5, <1>6, <1>7, <1>8 DEF Next

\* Whatever pages, jobs, lost sockets and restarts do, pages, endpoints and what
\* is between them are well-typed: no page ever shows more lines than a job has.
THEOREM TypeCorrect == Spec => []TypeOK
  <1>1. Init => TypeOK /\ Inv
    BY InitType, InitInv
  <1> QED
    BY <1>1, NextInv, PTL DEF Spec

\* A settled page shows the status of the job its socket follows, unless the job
\* went on between snapshot and subscription or a reply overtook the socket.
THEOREM FollowsHolds == Spec => []FollowsItsJob
  <1>1. Init => TypeOK /\ Inv
    BY InitType, InitInv
  <1>2. Inv => FollowsItsJob
    <2> SUFFICES ASSUME Inv, NEW p \in Pages, Settled(p), page[p].job = handler[p].job,
                        p \notin late \cup overtaken
                 PROVE  page[p].status = pull[handler[p].job].status
      BY DEF FollowsItsJob
    <2>1. Live(p) /\ chan[p] = <<>> /\ page[p].job = JobOf(p)
      BY DEF Settled, Live, JobOf
    <2> QED
      BY <2>1 DEF Inv, Socket, UpToDate, JobOf
  <1> QED
    BY <1>1, <1>2, NextInv, PTL DEF Spec

\* Of the log of the job its socket follows, a page misses no line and shows none
\* twice, unless the job went on in between or the page emptied its log.
THEOREM LogHolds == Spec => []LogIsWhole
  <1>1. Init => TypeOK /\ Inv
    BY InitType, InitInv
  <1>2. Inv => LogIsWhole
    <2> SUFFICES ASSUME Inv, NEW p \in Pages, handler[p].pc = "subscribed",
                        p \notin late \cup cleared
                 PROVE  LinesDue(p) = pull[handler[p].job].lines
      BY DEF LogIsWhole
    <2>1. Live(p) /\ Counted(p)
      BY DEF Inv, Socket, Live
    <2> QED
      BY <2>1 DEF Counted, JobOf
  <1> QED
    BY <1>1, <1>2, NextInv, PTL DEF Spec
=============================================================================
