------------------------------- MODULE Access -------------------------------
(* The login of the manager (auth.py): the throttle in front of it, the    *)
(* password in effect, and the sessions it hands out, which are signed      *)
(* cookies of which the manager keeps nothing but the salt that signs them. *)
(* Handlers run on the event loop and look at passwords in threads, so what *)
(* they looked at may be old when they go on.  A host admin resets the      *)
(* password from another process (manage.py).                               *)
EXTENDS Windows

CONSTANTS Browsers,      \* the admins' browsers, each with its own address
          Strangers,     \* addresses whose attempts all fail
          ProxyAddrs,    \* addresses the trusted proxy may come back on
          Passwords, Env,  \* Env: the password of .env
          None,            \* no password, no address, no session
          Window, MaxAttempts, LockoutSteps, Memory, MaxTracked,
          LookupAge,       \* _PROXY_LOOKUP_SECONDS
          Ttl,             \* SESSION_TTL_HOURS
          MaxTime, Limits

\* Sixty seconds, ten attempts, lockouts of 60, 300, 900 and 3600 seconds.
ASSUME ThrottleAssumption ==
  /\ MaxAttempts \in Nat \ {0} /\ MaxTracked \in Nat \ {0} /\ Window \in Nat
  /\ LockoutSteps \in Seq(Nat) /\ LockoutSteps # <<>>
  /\ \A i \in DOMAIN LockoutSteps : LockoutSteps[i] >= Window
  /\ Memory \in Nat /\ Memory >= Window

ASSUME AccessAssumption ==
  /\ LookupAge \in Nat /\ Ttl \in Nat /\ MaxTime \in Nat
  /\ Env \in Passwords \cup {None} /\ None \notin Passwords \cup ProxyAddrs
  /\ Browsers \cap Strangers = {} /\ (Browsers \cup Strangers) \cap ProxyAddrs = {}
  /\ Passwords # {} /\ Limits \in [{"requests", "knocks", "faults"} -> Nat]

Clients == Browsers \cup Strangers \cup ProxyAddrs
Times == 0..MaxTime

\* _AttemptRecord
AttemptRecord == [window: Seq(Times), strikes: Nat, locked_until: Nat, last_seen: Times]

\* A token says which salt signed it and when; by is the password that opened it.
Token == [salt: Nat, issued: Times, by: Passwords]

\* A request under way: the address it came from, the password typed, the one to
\* come, and what a thread said of the first.
Call == [pc: {"idle", "login.known", "login.match", "login.reply",
              "change.match", "change.reply", "change.set", "rotate", "write"},
         peer: Clients, typed: Passwords, new: Passwords \cup {None}, ok: BOOLEAN]

VARIABLES
  now,
  attempts,   \* _attempts: a record of each client tracked
  proxy,      \* the proxy's address, and since when it has it
  lookup,     \* _proxy_lookup: the address it had when looked up last
  stored,     \* AppSetting "admin_password"
  salt,       \* the file session_salt; 0: none, or none of it written yet
  made,       \* salts made so far
  cookie,     \* each browser's session
  call,
  reset,      \* manage.py reset-password: the step it is at
  through,    \* history: when the attempts of a client got through, Window back
  late,       \* history: browsers let in on a password replaced meanwhile
  broken,     \* history: a process ended between a new password and its salt
  budget

vars == <<now, attempts, proxy, lookup, stored, salt, made, cookie, call, reset,
          through, late, broken, budget>>
table == <<attempts, lookup, through>>
account == <<stored, salt, made, cookie, late, broken>>

SomePassword == CHOOSE p \in Passwords : TRUE
Idle(b) == [pc |-> "idle", peer |-> b, typed |-> SomePassword, new |-> None, ok |-> FALSE]

TypeOK ==
  /\ now \in Times
  /\ DOMAIN attempts \subseteq Clients
  /\ \A c \in DOMAIN attempts :
       /\ attempts[c] \in AttemptRecord
       /\ Len(attempts[c].window) <= MaxAttempts
  /\ proxy \in [addr: ProxyAddrs \cup {None}, since: Times]
  /\ lookup \in [at: Times, found: ProxyAddrs \cup {None}, known: BOOLEAN]
  /\ stored \in Passwords \cup {None}
  /\ made \in Nat /\ salt \in 0..made
  /\ cookie \in [Browsers -> Token \cup {None}]
  /\ call \in [Browsers -> Call]
  /\ reset \in {"idle", "rotate", "write"}
  /\ late \subseteq Browsers /\ broken \in BOOLEAN
  /\ budget \in [DOMAIN Limits -> Nat]

Init ==
  /\ now = 0
  /\ attempts = [c \in {} |-> 0] /\ through = [c \in Clients |-> <<>>]
  /\ proxy \in [addr: ProxyAddrs, since: {0}]
  /\ lookup = [at |-> 0, found |-> None, known |-> FALSE]
  /\ stored = None /\ salt = 0 /\ made = 0
  /\ cookie = [b \in Browsers |-> None]
  /\ call = [b \in Browsers |-> Idle(b)] /\ reset = "idle"
  /\ late = {} /\ broken = FALSE
  /\ budget = Limits

Spend(k) == budget[k] > 0 /\ budget' = [budget EXCEPT ![k] = @ - 1]

At(b, pc) == call[b].pc = pc
Goto(b, pc) == call' = [call EXCEPT ![b].pc = pc]
Ends(b) == call' = [call EXCEPT ![b] = Idle(b)]

\* The event loop writes the salt in one go: nothing else of it runs meanwhile.
LoopFree == \A b \in Browsers : ~At(b, "write")

\* password_matches compares with the one set in the GUI, else with .env's.
Effective == IF stored # None THEN stored ELSE Env

\* session_username
Valid(token) == token # None /\ token.salt = salt /\ now - token.issued <= Ttl


-----------------------------------------------------------------------------
(* Who a request is from (client_ip).                                      *)

\* Mutant: a lookup is kept for ever.
LookedOnce ==
  IF lookup.known THEN lookup ELSE [at |-> now, found |-> proxy.addr, known |-> TRUE]

\* _resolve_proxy: a lookup is used for LookupAge, one that failed as well.
Looked ==
  IF lookup.known /\ now - lookup.at < LookupAge THEN lookup
  ELSE [at |-> now, found |-> proxy.addr, known |-> TRUE]

\* What the request of browser b, passed on by peer, is attributed to.
ClientIp(b, peer) == IF peer = Looked.found THEN b ELSE peer

Peers(b) == {b} \cup ({proxy.addr} \ {None})


-----------------------------------------------------------------------------
(* The throttle.                                                           *)

Fresh == [window |-> <<>>, strikes |-> 0, locked_until |-> 0, last_seen |-> now]

\* Mutant: clients that are locked out are dropped as well.
UnlockedAll(S) == S

Unlocked(S) == {c \in S : attempts[c].locked_until <= now}

\* _evict_stale_attempts leaves these.
Kept == {c \in DOMAIN attempts :
           attempts[c].locked_until > now \/ now - attempts[c].last_seen <= Memory}

\* _evict_oldest, for a client the table does not hold: what it may drop.
Oldest(ip) ==
  LET free == Unlocked(Kept)
      oldest == {c \in free : \A d \in free : attempts[c].last_seen <= attempts[d].last_seen}
  IN  IF ip \in Kept \/ Cardinality(Kept) < MaxTracked \/ free = {}
      THEN {{}} ELSE {{c} : c \in oldest}

LockoutStep(strikes) ==
  LockoutSteps[IF strikes < Len(LockoutSteps) THEN strikes ELSE Len(LockoutSteps)]

Recent(window) == Since(window, now - Window)

AtLimit(window) == Len(window) >= MaxAttempts

\* The client's record after an attempt, and whether it gets through.
Charged(before) ==
  LET recent == Recent(before.window)
      seen == [before EXCEPT !.last_seen = now]
      strikes == before.strikes + 1
  IN  IF before.locked_until > now
      THEN [record |-> seen, passed |-> FALSE]
      ELSE IF AtLimit(recent)
      THEN [record |-> [seen EXCEPT !.strikes = strikes, !.window = <<>>,
                                    !.locked_until = now + LockoutStep(strikes)],
            passed |-> FALSE]
      ELSE [record |-> [seen EXCEPT !.window = Append(recent, now)], passed |-> TRUE]

\* _throttle(request), of a client that is ip to it.
Throttled(ip) ==
  Charged(IF ip \in Kept THEN attempts[ip] ELSE Fresh)

Charge(ip) ==
  /\ lookup' = Looked
  /\ \E gone \in Oldest(ip) :
       LET left == (Kept \ gone) \cup {ip} IN
       /\ attempts' = [c \in left |-> IF c = ip THEN Throttled(ip).record ELSE attempts[c]]
       /\ through' = [c \in Clients |->
            (IF c \in gone THEN <<>> ELSE through[c])
              \o (IF c = ip /\ Throttled(ip).passed THEN <<now>> ELSE <<>>)]

\* note_login_success: asks anew who the client is.
NoteSuccess(b) ==
  LET ip == ClientIp(b, call[b].peer) IN
  /\ lookup' = Looked
  /\ attempts' = [c \in DOMAIN attempts \ {ip} |-> attempts[c]]
  /\ through' = [through EXCEPT ![ip] = <<>>]


-----------------------------------------------------------------------------
(* Requests.                                                               *)

\* An attempt with a wrong name or password, or of somebody without an account:
\* past the throttle it changes nothing.
Knock(c) ==
  /\ LoopFree /\ Spend("knocks")
  /\ Charge(c)
  /\ UNCHANGED <<now, proxy, account, call, reset>>

\* login: throttled first, or answered with 429.
AskLogin(b) ==
  /\ LoopFree /\ At(b, "idle") /\ Spend("requests")
  /\ \E peer \in Peers(b), typed \in Passwords :
       LET ip == ClientIp(b, peer) IN
       /\ Charge(ip)
       /\ IF Throttled(ip).passed
          THEN call' = [call EXCEPT ![b] =
                          [Idle(b) EXCEPT !.pc = "login.known", !.peer = peer, !.typed = typed]]
          ELSE UNCHANGED call
  /\ UNCHANGED <<now, proxy, account, reset>>

\* Refused with 503 when no password is configured, in .env or in the GUI.
LoginKnown(b) ==
  /\ LoopFree /\ At(b, "login.known")
  /\ IF Effective = None THEN Ends(b) ELSE Goto(b, "login.match")
  /\ UNCHANGED <<now, proxy, table, account, reset, budget>>

\* password_matches, in a thread: the handler hears of it later.
Match(b) ==
  /\ At(b, "login.match") \/ At(b, "change.match")
  /\ call' = [call EXCEPT ![b].ok = (call[b].typed = Effective),
                         ![b].pc = IF @ = "login.match" THEN "login.reply" ELSE "change.reply"]
  /\ UNCHANGED <<now, proxy, table, account, reset, budget>>

\* _issue_session, to a browser that proved to know password by.
Issue(b, by, signed) ==
  /\ cookie' = [cookie EXCEPT ![b] = [salt |-> signed, issued |-> now, by |-> by]]
  /\ late' = IF by = Effective THEN late \ {b} ELSE late \cup {b}

LoginReply(b) ==
  /\ LoopFree /\ At(b, "login.reply") /\ Ends(b)
  /\ IF call[b].ok
     THEN NoteSuccess(b) /\ Issue(b, call[b].typed, salt)
     ELSE UNCHANGED <<table, cookie, late>>
  /\ UNCHANGED <<now, proxy, stored, salt, made, broken, reset, budget>>

\* change_password: with a session, throttled like a login.
AskChange(b) ==
  /\ LoopFree /\ At(b, "idle") /\ Valid(cookie[b]) /\ Spend("requests")
  /\ \E peer \in Peers(b), typed, new \in Passwords :
       LET ip == ClientIp(b, peer) IN
       /\ Charge(ip)
       /\ IF Throttled(ip).passed
          THEN call' = [call EXCEPT ![b] = [pc |-> "change.match", peer |-> peer,
                                           typed |-> typed, new |-> new, ok |-> FALSE]]
          ELSE UNCHANGED call
  /\ UNCHANGED <<now, proxy, account, reset>>

\* A wrong current password and a new one that is no other (or too short) end it.
ChangeReply(b) ==
  /\ LoopFree /\ At(b, "change.reply")
  /\ IF call[b].ok /\ call[b].new # call[b].typed
     THEN NoteSuccess(b) /\ Goto(b, "change.set")
     ELSE Ends(b) /\ UNCHANGED table
  /\ UNCHANGED <<now, proxy, account, reset, budget>>

\* Mutant: the salt stays.
ChangeSetOnly(b) ==
  /\ At(b, "change.set") /\ Ends(b)
  /\ stored' = call[b].new
  /\ cookie' = [cookie EXCEPT ![b] = [salt |-> salt, issued |-> now, by |-> call[b].new]]
  /\ UNCHANGED <<now, proxy, table, salt, made, late, broken, reset, budget>>

\* set_gui_password, in a thread.
ChangeSet(b) ==
  /\ At(b, "change.set") /\ Goto(b, "rotate")
  /\ stored' = call[b].new
  /\ UNCHANGED <<now, proxy, table, salt, made, cookie, late, broken, reset, budget>>

\* logout and logout_all: the second ends everybody's session.
Logout(b) ==
  /\ LoopFree /\ At(b, "idle") /\ cookie[b] # None
  /\ cookie' = [cookie EXCEPT ![b] = None]
  /\ UNCHANGED <<now, proxy, table, stored, salt, made, late, broken, call, reset, budget>>

LogoutAll(b) ==
  /\ LoopFree /\ At(b, "idle") /\ Valid(cookie[b]) /\ Spend("requests")
  /\ Goto(b, "rotate")
  /\ UNCHANGED <<now, proxy, table, account, reset>>

\* rotate_session_salt: the file is emptied, then written.
RotateEmpty(b) ==
  /\ LoopFree /\ At(b, "rotate") /\ Goto(b, "write")
  /\ salt' = 0
  /\ UNCHANGED <<now, proxy, table, stored, made, cookie, late, broken, reset, budget>>

\* Then a browser that changed the password gets a session signed with it, and
\* one that asked to log out everybody has none.
RotateWrite(b) ==
  /\ At(b, "write") /\ Ends(b)
  /\ salt' = made + 1 /\ made' = made + 1 /\ broken' = FALSE
  /\ IF call[b].new # None
     THEN Issue(b, call[b].new, made + 1)
     ELSE cookie' = [cookie EXCEPT ![b] = None] /\ UNCHANGED late
  /\ UNCHANGED <<now, proxy, table, stored, reset, budget>>


-----------------------------------------------------------------------------
(* The host's console, the proxy, the clock and the manager itself.        *)

\* manage.py reset-password: nothing to do unless one was set.
Reset ==
  /\ reset = "idle" /\ stored # None /\ Spend("requests")
  /\ stored' = None /\ reset' = "rotate"
  /\ UNCHANGED <<now, proxy, table, salt, made, cookie, late, broken, call>>

ResetEmpty ==
  /\ reset = "rotate" /\ reset' = "write" /\ salt' = 0
  /\ UNCHANGED <<now, proxy, table, stored, made, cookie, late, broken, call, budget>>

ResetWrite ==
  /\ reset = "write" /\ reset' = "idle"
  /\ salt' = made + 1 /\ made' = made + 1 /\ broken' = FALSE
  /\ UNCHANGED <<now, proxy, table, stored, cookie, late, call, budget>>

ResetEnds ==
  /\ reset # "idle" /\ Spend("faults")
  /\ reset' = "idle" /\ broken' = TRUE
  /\ UNCHANGED <<now, proxy, table, stored, salt, made, cookie, late, call>>

ProxyMoves ==
  /\ Spend("faults")
  /\ \E addr \in (ProxyAddrs \cup {None}) \ {proxy.addr} :
       proxy' = [addr |-> addr, since |-> now]
  /\ UNCHANGED <<now, table, account, call, reset>>

Tick ==
  /\ now < MaxTime /\ now' = now + 1
  /\ through' = [c \in Clients |-> Since(through[c], now' - Window)]
  /\ UNCHANGED <<attempts, proxy, lookup, account, call, reset, budget>>

ManagerRestarts ==
  /\ Spend("faults")
  /\ attempts' = [c \in {} |-> 0] /\ through' = [c \in Clients |-> <<>>]
  /\ lookup' = [lookup EXCEPT !.known = FALSE]
  /\ call' = [b \in Browsers |-> Idle(b)]
  /\ broken' = (broken \/ \E b \in Browsers : At(b, "rotate") \/ At(b, "write"))
  /\ UNCHANGED <<now, proxy, stored, salt, made, cookie, late, reset>>

Handle(b) ==
  \/ AskLogin(b) \/ LoginKnown(b) \/ Match(b) \/ LoginReply(b)
  \/ AskChange(b) \/ ChangeReply(b) \/ ChangeSet(b)
  \/ Logout(b) \/ LogoutAll(b) \/ RotateEmpty(b) \/ RotateWrite(b)

Next ==
  \/ \E b \in Browsers : Handle(b)
  \/ \E c \in Strangers : Knock(c)
  \/ Reset \/ ResetEmpty \/ ResetWrite \/ ResetEnds
  \/ ProxyMoves \/ Tick \/ ManagerRestarts

Spec == Init /\ [][Next]_vars


-----------------------------------------------------------------------------
(* Properties.                                                             *)

\* The table of attempts with its windows and evictions keeps what the throttle
\* promises: the limit on attempts, lockouts that grow step by step and are lifted
\* by nothing but time and the right password ("dropping it would hand back a clean
\* slate", _evict_stale_attempts), and a bounded table.
Standing == [c \in DOMAIN attempts |->
               [strikes |-> attempts[c].strikes, until |-> attempts[c].locked_until,
                seen |-> attempts[c].last_seen]]
Promised == INSTANCE Throttle WITH standing <- Standing
ThrottleHolds == Promised!Spec

\* A change of the password or its reset "logs out every other session, so whoever
\* had the old password is out" (change_password): once its salt is written, the
\* sessions that count are signed with the newest one and were opened with the
\* password in effect; not those let in on a password replaced while it was being
\* looked at, nor after a process ended between the new password and its salt.
Rotating == reset # "idle" \/ \E b \in Browsers : At(b, "rotate") \/ At(b, "write")
OldPasswordIsOut ==
  ~Rotating /\ ~broken =>
    \A b \in Browsers : Valid(cookie[b]) =>
      cookie[b].salt = made /\ (cookie[b].by = Effective \/ b \in late)

\* A proxy that comes back on another address is known again after LookupAge: no
\* browser's attempt is charged to the proxy itself for longer ("a recreated proxy
\* container may come back on another address", _resolve_proxy).
Charges(c) ==
  c \in DOMAIN attempts' /\ (c \notin DOMAIN attempts \/ attempts'[c] # attempts[c])
ProxyIsFoundAgain ==
  [][\A p \in ProxyAddrs : Charges(p) => now - proxy.since < LookupAge]_vars
=============================================================================
