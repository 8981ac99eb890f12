------------------------------ MODULE Streams ------------------------------
(* Long downloads and the pages that follow them.  The manager keeps the    *)
(* latest job of an image (services/image_service.py) and fans its events   *)
(* out to the sockets subscribed to it (services/jobs.py); a page asks for  *)
(* the state once, then follows it over one socket (frontend/src/jobs.js,   *)
(* Downloads.vue, Setup.vue).  Percentages are left out: what a page shows  *)
(* is which job it knows, the status it believes and the log lines it has.  *)
EXTENDS Integers, Sequences, FiniteSets

CONSTANTS Pages,       \* open tabs, one component instance each
          MaxPulls,    \* jobs started in a behaviour
          MaxLines,    \* log lines a job emits
          MaxFaults    \* lost sockets, failed requests and manager restarts

ASSUME BoundsAssumption ==
  /\ MaxPulls \in Nat \ {0} /\ MaxLines \in Nat /\ MaxFaults \in Nat

Pulls == 1..MaxPulls
NoPull == 0

Status == {"none", "running", "success", "error"}
Ended == {"success", "error"}

\* pushLine keeps 500 lines: here all of a job, never more than one emits.
LogPane == MaxLines

\* What a socket carries: the snapshot, then status changes and log lines.
Msg == [kind: {"snapshot", "status", "line"}, job: Pulls \cup {NoPull},
        status: Status, lines: 0..MaxLines]

\* A page: what it shows, whether it holds a socket, and its two requests.
Page == [mounted: BOOLEAN, job: Pulls \cup {NoPull}, status: Status,
         lines: 0..LogPane, open: BOOLEAN,
         refresh: {"none", "due", "reply", "loaded"},
         seen: Pulls \cup {NoPull}, seenStatus: Status,
         pulled: Pulls \cup {NoPull}]

Blank == [mounted |-> FALSE, job |-> NoPull, status |-> "none", lines |-> 0,
          open |-> FALSE, refresh |-> "none", seen |-> NoPull,
          seenStatus |-> "none", pulled |-> NoPull]

\* The endpoint's side of a page's socket: stream_job and what it captured.
Handler == [pc: {"none", "accepted", "sent", "subscribed"},
            job: Pulls \cup {NoPull}, snap: Status]
NoHandler == [pc |-> "none", job |-> NoPull, snap |-> "none"]

VARIABLES
  pull,       \* the jobs: [status, lines], kept alive by who subscribed to them
  current,    \* ImageService.job: the latest one of this process
  page, handler,
  chan,       \* from the endpoint to the page, in order
  faults,     \* faults spent
  late,       \* history: pages whose job went on between snapshot and subscribe
  overtaken,  \* history: pages a reply told older news than their socket
  cleared     \* history: pages that emptied the log of the socket they hold

history == <<late, overtaken, cleared>>
vars == <<pull, current, page, handler, chan, faults, history>>

StatusOf(n) == IF n = NoPull THEN "none" ELSE pull[n].status

TypeOK ==
  /\ pull \in [Pulls -> [status: Status, lines: 0..MaxLines]]
  /\ current \in Pulls \cup {NoPull}
  /\ page \in [Pages -> Page]
  /\ handler \in [Pages -> Handler]
  /\ chan \in [Pages -> Seq(Msg)]
  /\ faults \in 0..MaxFaults
  /\ late \subseteq Pages /\ overtaken \subseteq Pages /\ cleared \subseteq Pages

Init ==
  /\ pull = [n \in Pulls |-> [status |-> "none", lines |-> 0]]
  /\ current = NoPull
  /\ page = [p \in Pages |-> Blank]
  /\ handler = [p \in Pages |-> NoHandler]
  /\ chan = [p \in Pages |-> <<>>]
  /\ faults = 0
  /\ late = {} /\ overtaken = {} /\ cleared = {}

-----------------------------------------------------------------------------
(* The job: one pull at a time, its lines and its end broadcast.           *)

\* Pages whose queue is among the job's subscribers.
Subscribers(n) == {p \in Pages : handler[p].pc = "subscribed" /\ handler[p].job = n}

\* Mutant: only log lines are fanned out.
BroadcastLines(n, m) ==
  chan' = [p \in Pages |-> IF p \in Subscribers(n) /\ m.kind = "line"
                           THEN Append(chan[p], m) ELSE chan[p]]

Broadcast(n, m) ==
  chan' = [p \in Pages |-> IF p \in Subscribers(n) THEN Append(chan[p], m) ELSE chan[p]]

\* Sockets that will not hear of this: their snapshot is taken already.
TooEarly(n) == {p \in Pages : handler[p].job = n /\ handler[p].pc \in {"accepted", "sent"}}
LogTaken(n) == {p \in Pages : handler[p].job = n /\ handler[p].pc = "sent"}

EmitLine(n) ==
  /\ pull[n].status = "running" /\ pull[n].lines < MaxLines
  /\ pull' = [pull EXCEPT ![n].lines = @ + 1]
  /\ Broadcast(n, [kind |-> "line", job |-> n, status |-> "running", lines |-> 1])
  /\ late' = late \cup LogTaken(n)
  /\ UNCHANGED <<current, page, handler, faults, overtaken, cleared>>

Finish(n) ==
  /\ pull[n].status = "running"
  /\ \E st \in Ended :
       /\ pull' = [pull EXCEPT ![n].status = st]
       /\ Broadcast(n, [kind |-> "status", job |-> n, status |-> st, lines |-> 0])
  /\ late' = late \cup TooEarly(n)
  /\ UNCHANGED <<current, page, handler, faults, overtaken, cleared>>

-----------------------------------------------------------------------------
(* The endpoint: accept, compose the snapshot, send it, then subscribe.    *)

\* job.snapshot() is taken before the Docker query that goes with it.
Accept(p) ==
  /\ page[p].open /\ handler[p].pc = "none"
  /\ handler' = [handler EXCEPT ![p] = [pc |-> "accepted", job |-> current,
                                        snap |-> StatusOf(current)]]
  /\ UNCHANGED <<pull, current, page, chan, faults, history>>

\* The page's onclose: the socket is gone and its status is asked again.
Closed(p) == [page[p] EXCEPT !.open = FALSE,
                             !.refresh = IF @ = "none" THEN "due" ELSE @]

\* Mutant: a snapshot without the log, as if nobody joined late.
SnapshotWithoutLog(p) ==
  [kind |-> "snapshot", job |-> handler[p].job, status |-> handler[p].snap, lines |-> 0]

\* The log is read after that query.
Snapshot(p) ==
  [kind |-> "snapshot", job |-> handler[p].job, status |-> handler[p].snap,
   lines |-> pull[handler[p].job].lines]

IfOpenClosed(p) == IF page[p].open THEN Closed(p) ELSE page[p]

\* Without a job the socket is closed again.
SendFirst(p) ==
  LET n == handler[p].job IN
  /\ handler[p].pc = "accepted"
  /\ IF n = NoPull
       THEN /\ page' = [page EXCEPT ![p] = [Closed(p) EXCEPT !.job = NoPull,
                                                  !.status = "none",
                                                  !.lines = 0]]
            /\ handler' = [handler EXCEPT ![p] = NoHandler]
            /\ UNCHANGED chan
       ELSE /\ handler' = [handler EXCEPT ![p].pc = "sent"]
            /\ chan' = [chan EXCEPT ![p] = Append(@, Snapshot(p))]
            /\ UNCHANGED page
  /\ UNCHANGED <<pull, current, faults, history>>

Subscribe(p) ==
  /\ handler[p].pc = "sent"
  /\ handler' = [handler EXCEPT ![p].pc = "subscribed"]
  /\ UNCHANGED <<pull, current, page, chan, faults, history>>

-----------------------------------------------------------------------------
(* The page.                                                               *)

\* connect(): one socket however often it is asked, whatever job it follows.
Connected(pg, wanted) == [pg EXCEPT !.open = @ \/ wanted]
FreshSocket(p) == IF page[p].open THEN {} ELSE {p}

\* A new socket begins with a new snapshot.
Forgive(P) == /\ late' = late \ P /\ overtaken' = overtaken \ P /\ cleared' = cleared \ P

\* onMounted(refresh) of a page that is opened ...
Mount(p) ==
  /\ ~page[p].mounted /\ ~page[p].open
  /\ page[p].refresh = "none" /\ page[p].pulled = NoPull
  /\ page' = [page EXCEPT ![p] = [Blank EXCEPT !.mounted = TRUE, !.refresh = "due"]]
  /\ UNCHANGED <<pull, current, handler, chan, faults, history>>

\* ... or a refresh after files were removed.
Refresh(p) ==
  /\ page[p].mounted /\ page[p].refresh = "none"
  /\ page' = [page EXCEPT ![p].refresh = "due"]
  /\ UNCHANGED <<pull, current, handler, chan, faults, history>>

RefreshServe(p) ==
  /\ page[p].refresh = "due"
  /\ \/ /\ page' = [page EXCEPT ![p].refresh = "reply", ![p].seen = current,
                                ![p].seenStatus = StatusOf(current)]
        /\ UNCHANGED faults
     \/ /\ faults < MaxFaults /\ faults' = faults + 1
        /\ page' = [page EXCEPT ![p].refresh = "none"]
  /\ UNCHANGED <<pull, current, handler, chan, history>>

\* The socket told the end of job n before this reply says it is running.
Told(p, n) ==
  /\ handler[p].job = n /\ handler[p].pc \in {"sent", "subscribed"}
  /\ StatusOf(n) \in Ended
  /\ \A k \in DOMAIN chan[p] : chan[p][k].status \notin Ended

RefreshReceive(p) ==
  LET n == page[p].seen IN
  /\ page[p].refresh = "reply"
  /\ page' = [page EXCEPT ![p].refresh = "loaded", ![p].job = n,
                          ![p].status = page[p].seenStatus]
  /\ overtaken' = IF n # current \/ (Told(p, n) /\ page[p].seenStatus = "running")
                  THEN overtaken \cup {p} ELSE overtaken
  /\ UNCHANGED <<pull, current, handler, chan, faults, late, cleared>>

\* After the update settings have been loaded too: follow a running job.
RefreshConnect(p) ==
  LET follows == page[p].status = "running" IN
  /\ page[p].refresh = "loaded"
  /\ page' = [page EXCEPT ![p] = [Connected(page[p], follows) EXCEPT !.refresh = "none"]]
  /\ Forgive(IF follows THEN FreshSocket(p) ELSE {})
  /\ UNCHANGED <<pull, current, handler, chan, faults>>

\* ImageService.start: 409 while a pull is running.
Start(n) ==
  /\ StatusOf(current) # "running"
  /\ pull[n].status = "none" /\ \A k \in 1..(n - 1) : pull[k].status # "none"
  /\ pull' = [pull EXCEPT ![n].status = "running"]
  /\ current' = n

\* The button, disabled while the page shows a running job.
Pull(p) ==
  /\ page[p].mounted /\ page[p].pulled = NoPull
  /\ page[p].status # "running"
  /\ \E n \in Pulls : Start(n) /\ page' = [page EXCEPT ![p].pulled = n]
  /\ UNCHANGED <<handler, chan, faults, history>>

\* A tab that is not among Pages presses it.
PullElsewhere ==
  /\ \E n \in Pulls : Start(n)
  /\ UNCHANGED <<page, handler, chan, faults, history>>

PullReceive(p) ==
  LET n == page[p].pulled IN
  /\ n # NoPull
  /\ page' = [page EXCEPT ![p] = [Connected(page[p], TRUE) EXCEPT !.pulled = NoPull, !.job = n,
                                    !.status = "running", !.lines = 0]]
  /\ IF page[p].open
       THEN /\ overtaken' = IF Told(p, n) THEN overtaken \cup {p} ELSE overtaken
            /\ cleared' = cleared \cup {p}
            /\ UNCHANGED late
       ELSE Forgive({p})
  /\ UNCHANGED <<pull, current, handler, chan, faults>>

\* Mutant: a status event names the job but leaves the status alone.
ShownRunning(pg, m) ==
  CASE m.kind = "snapshot" -> [pg EXCEPT !.job = m.job, !.status = m.status, !.lines = m.lines]
    [] m.kind = "status"   -> [pg EXCEPT !.job = m.job]
    [] m.kind = "line"     -> [pg EXCEPT !.lines = @ + 1]

\* ws.onmessage
Shown(pg, m) ==
  CASE m.kind = "snapshot" -> [pg EXCEPT !.job = m.job, !.status = m.status, !.lines = m.lines]
    [] m.kind = "status"   -> [pg EXCEPT !.job = m.job, !.status = m.status]
    [] m.kind = "line"     -> [pg EXCEPT !.lines = @ + 1]

Deliver(p) ==
  /\ chan[p] # <<>>
  /\ page' = [page EXCEPT ![p] = Shown(page[p], Head(chan[p]))]
  /\ chan' = [chan EXCEPT ![p] = Tail(@)]
  /\ UNCHANGED <<pull, current, handler, faults, history>>

-----------------------------------------------------------------------------
(* Ends of sockets.                                                        *)

\* onUnmounted closes the socket; its onclose asks for the status again.
Leave(p) ==
  /\ page[p].mounted
  /\ page' = [page EXCEPT ![p] = [IfOpenClosed(p) EXCEPT !.mounted = FALSE]]
  /\ handler' = [handler EXCEPT ![p] = NoHandler]
  /\ chan' = [chan EXCEPT ![p] = <<>>]
  /\ UNCHANGED <<pull, current, faults, history>>

Disconnect(p) ==
  /\ page[p].open
  /\ faults < MaxFaults /\ faults' = faults + 1
  /\ page' = [page EXCEPT ![p] = Closed(p)]
  /\ handler' = [handler EXCEPT ![p] = NoHandler]
  /\ chan' = [chan EXCEPT ![p] = <<>>]
  /\ UNCHANGED <<pull, current, history>>

\* A restarted manager knows of no job, and every socket is lost.
Restart ==
  /\ faults < MaxFaults /\ faults' = faults + 1
  /\ pull' = [n \in Pulls |-> IF pull[n].status = "running"
                              THEN [pull[n] EXCEPT !.status = "error"] ELSE pull[n]]
  /\ current' = NoPull
  /\ page' = [p \in Pages |-> IfOpenClosed(p)]
  /\ handler' = [p \in Pages |-> NoHandler]
  /\ chan' = [p \in Pages |-> <<>>]
  /\ UNCHANGED history

-----------------------------------------------------------------------------
JobStep == \E n \in Pulls : EmitLine(n) \/ Finish(n)
Endpoint(p) == Accept(p) \/ SendFirst(p) \/ Subscribe(p)
Browser(p) ==
  RefreshServe(p) \/ RefreshReceive(p) \/ RefreshConnect(p) \/ PullReceive(p) \/ Deliver(p)
User(p) == Mount(p) \/ Refresh(p) \/ Pull(p) \/ Leave(p)

Next ==
  \/ JobStep \/ PullElsewhere
  \/ \E p \in Pages : Endpoint(p) \/ Browser(p) \/ User(p) \/ Disconnect(p)
  \/ Restart

\* Docker ends every pull, with an image or an error; the event loop and the
\* browser go on with whatever they have begun.
Fairness ==
  /\ \A n \in Pulls : WF_vars(Finish(n))
  /\ \A p \in Pages :
       /\ WF_vars(Endpoint(p)) /\ WF_vars(Deliver(p)) /\ WF_vars(PullReceive(p))
       /\ WF_vars(RefreshServe(p)) /\ WF_vars(RefreshReceive(p) \/ RefreshConnect(p))

Spec == Init /\ [][Next]_vars /\ Fairness

-----------------------------------------------------------------------------
(* Properties.                                                             *)

\* The page has its socket, has read all it sent, and waits for no reply.
Settled(p) ==
  /\ page[p].open /\ handler[p].pc = "subscribed" /\ chan[p] = <<>>
  /\ page[p].refresh = "none" /\ page[p].pulled = NoPull

\* What a settled page shows of the job its socket follows is that job's status
\* (stream_job, jobs.js), unless the job went on between its snapshot and its
\* subscription, or a reply overtook what the socket had said already.
FollowsItsJob ==
  \A p \in Pages :
    Settled(p) /\ page[p].job = handler[p].job /\ p \notin late \cup overtaken
      => page[p].status = pull[handler[p].job].status

\* Log lines still under way to the page, and those it will have then.
LinesIn(s) == Cardinality({k \in DOMAIN s : s[k].kind = "line"})
LinesDue(p) ==
  IF chan[p] # <<>> /\ Head(chan[p]).kind = "snapshot"
  THEN Head(chan[p]).lines + LinesIn(Tail(chan[p]))
  ELSE page[p].lines + LinesIn(chan[p])

\* Nothing of a job's log is lost or shown twice: the snapshot's ring buffer and
\* the lines after it add up (emit_log, "for late joiners"), unless the job went
\* on in between or the page started another job over the same socket.
LogIsWhole ==
  \A p \in Pages :
    handler[p].pc = "subscribed" /\ p \notin late \cup cleared
      => LinesDue(p) = pull[handler[p].job].lines

\* A page that follows a running job learns its end, or loses its socket.
FollowersLearnTheEnd ==
  \A p \in Pages, n \in Pulls :
    (handler[p].pc = "subscribed" /\ handler[p].job = n /\ pull[n].status = "running")
      ~> (handler[p].job # n \/ (page[p].job = n /\ page[p].status \in Ended))
=============================================================================
