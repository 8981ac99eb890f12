---------------------------- MODULE AccessProofs ----------------------------
(* Theorems about Access for any browsers, strangers, proxies and          *)
(* passwords, every limit of the throttle and every length of its time, and *)
(* that its table of attempts keeps what Throttle promises, for any clients *)
(* and every limit and length of the window, the lockouts and the memory.   *)
EXTENDS Access, FiniteSetTheorems, SequenceTheorems, WellFoundedInduction, TLAPS

-----------------------------------------------------------------------------
(* What is left of a client's times once the old ones are gone.            *)

LEMMA HasLeast ==
  ASSUME NEW S, S \subseteq Nat, S # {}
  PROVE  \E x \in S : \A y \in S : x <= y
  <1> DEFINE R == {ss \in Nat \X Nat : ss[1] < ss[2]}
  <1>1. IsWellFoundedOn(R, Nat)
    BY NatLessThanWellFounded DEF OpToRel
  <1>2. \E x \in S : \A y \in S : <<y, x>> \notin R
    <2> HIDE DEF R
    <2> QED
      BY <1>1, WFMin
  <1>3. ASSUME NEW x \in S, NEW y \in S, <<y, x>> \notin R
        PROVE  x <= y
    BY <1>3
  <1> HIDE DEF R
  <1> QED
    BY <1>2, <1>3

\* r is s without its first k times, which are older than oldest.
Popped(s, oldest, r, k) ==
  /\ Len(r) = Len(s) - k
  /\ \A i \in 1..Len(r) : r[i] = s[i + k]
  /\ \A i \in 1..k : s[i] < oldest
  /\ k < Len(s) => s[k + 1] >= oldest

LEMMA SinceIs ==
  ASSUME NEW T \in SUBSET Nat, NEW s \in Seq(T), NEW oldest \in Int
  PROVE  /\ Since(s, oldest) \in Seq(T)
         /\ \E k \in 0..Len(s) : Popped(s, oldest, Since(s, oldest), k)
  <1> DEFINE recent == {i \in DOMAIN s : s[i] >= oldest}
  <1>0. DOMAIN s = 1..Len(s) /\ Len(s) \in Nat /\ \A i \in 1..Len(s) : s[i] \in T /\ s[i] \in Nat
    BY LenProperties, ElementOfSeq
  <1>1. CASE recent = {}
    <2>1. Since(s, oldest) = <<>>
      BY <1>1 DEF Since
    <2>2. \A i \in 1..Len(s) : s[i] < oldest
      BY <1>0, <1>1
    <2>3. Since(s, oldest) \in Seq(T) /\ Len(Since(s, oldest)) = 0 /\ Len(s) \in 0..Len(s)
      BY <1>0, <2>1, EmptySeq
    <2> HIDE DEF recent
    <2>4. Popped(s, oldest, Since(s, oldest), Len(s))
      BY <1>0, <2>2, <2>3 DEF Popped
    <2> QED
      BY <2>3, <2>4
  <1>2. CASE recent # {}
    <2>0. recent \subseteq Nat
      BY <1>0
    <2>1. PICK m \in recent : \A y \in recent : m <= y
      <3> HIDE DEF recent
      <3> QED
        BY <2>0, <1>2, HasLeast
    <2>2. Min(recent) = m
      <3>1. Min(recent) \in recent /\ \A y \in recent : Min(recent) <= y
        BY <2>1 DEF Min
      <3>2. Min(recent) <= m /\ m <= Min(recent)
        BY <2>1, <3>1
      <3> QED
        BY <1>0, <2>1, <3>1, <3>2
    <2>3. Since(s, oldest) = SubSeq(s, m, Len(s))
      BY <1>2, <2>2 DEF Since
    <2>4. m \in 1..Len(s) /\ s[m] >= oldest
      BY <1>0, <2>1
    <2>5. /\ SubSeq(s, m, Len(s)) \in Seq(T)
          /\ Len(SubSeq(s, m, Len(s))) = Len(s) - m + 1
          /\ \A i \in 1..(Len(s) - m + 1) : SubSeq(s, m, Len(s))[i] = s[m + i - 1]
      BY <1>0, <2>4, SubSeqProperties
    <2>6. \A i \in 1..(m - 1) : s[i] < oldest
      <3> SUFFICES ASSUME NEW i \in 1..(m - 1), s[i] >= oldest PROVE FALSE
        BY <1>0, <2>4
      <3>1. i \in recent /\ ~(m <= i)
        BY <1>0, <2>4
      <3> QED
        BY <2>1, <3>1
    <2> DEFINE r == Since(s, oldest)
               k == m - 1
    <2>7. k \in 0..Len(s) /\ Len(r) = Len(s) - k
      BY <1>0, <2>3, <2>4, <2>5
    <2>8. \A i \in 1..Len(r) : r[i] = s[i + k]
      <3> SUFFICES ASSUME NEW i \in 1..Len(r) PROVE r[i] = s[i + k]
        OBVIOUS
      <3>1. i \in 1..(Len(s) - m + 1) /\ m + i - 1 = i + k
        BY <1>0, <2>4, <2>7
      <3> QED
        BY <2>3, <2>5, <3>1
    <2>9. k < Len(s) => s[k + 1] >= oldest
      BY <1>0, <2>4
    <2>10. r \in Seq(T)
      BY <2>3, <2>5
    <2> HIDE DEF r, k
    <2>11. Popped(s, oldest, r, k)
      BY <2>6, <2>7, <2>8, <2>9 DEF Popped, k
    <2> QED
      BY <2>7, <2>10, <2>11 DEF r
  <1> QED
    BY <1>1, <1>2

-----------------------------------------------------------------------------
(* Types.                                                                  *)

USE ThrottleAssumption, AccessAssumption DEF ThrottleAssumption, AccessAssumption

LEMMA IdleType == \A b \in Browsers : Idle(b) \in Call /\ SomePassword \in Passwords
  BY DEF Idle, Call, SomePassword, Clients

LEMMA SpendType ==
  ASSUME NEW k \in {"requests", "knocks", "faults"}, TypeOK, Spend(k)
  PROVE  budget' \in [DOMAIN Limits -> Nat]
  BY DEF Spend, TypeOK

LEMMA Typed ==
  ASSUME TypeOK
  PROVE  /\ now \in Nat /\ now \in Times
         /\ \A c \in DOMAIN attempts :
              /\ c \in Clients
              /\ attempts[c].window \in Seq(Times) /\ attempts[c].strikes \in Nat
              /\ attempts[c].locked_until \in Nat /\ attempts[c].last_seen \in Nat
              /\ attempts[c].last_seen \in Times
         /\ proxy.addr \in ProxyAddrs \cup {None} /\ proxy.since \in Nat
         /\ lookup.at \in Nat /\ lookup.found \in ProxyAddrs \cup {None}
         /\ made \in Nat /\ salt \in Nat
         /\ \A b \in Browsers :
              /\ call[b].peer \in Clients /\ call[b].typed \in Passwords
              /\ call[b].new \in Passwords \cup {None}
              /\ cookie[b] # None => cookie[b] \in Token /\ cookie[b].salt \in Nat
  <1>1. Times \subseteq Nat
    BY DEF Times
  <1>2. now \in Nat /\ now \in Times
    BY <1>1 DEF TypeOK
  <1>3. ASSUME NEW c \in DOMAIN attempts
        PROVE  /\ c \in Clients
               /\ attempts[c].window \in Seq(Times) /\ attempts[c].strikes \in Nat
               /\ attempts[c].locked_until \in Nat /\ attempts[c].last_seen \in Nat
               /\ attempts[c].last_seen \in Times
    <2>1. attempts[c] \in AttemptRecord /\ c \in Clients
      BY DEF TypeOK
    <2> QED
      BY <1>1, <2>1 DEF AttemptRecord
  <1>4. /\ proxy.addr \in ProxyAddrs \cup {None} /\ proxy.since \in Nat
        /\ lookup.at \in Nat /\ lookup.found \in ProxyAddrs \cup {None}
    BY <1>1 DEF TypeOK
  <1>5. made \in Nat /\ salt \in Nat
    BY DEF TypeOK
  <1>6. ASSUME NEW b \in Browsers
        PROVE  /\ call[b].peer \in Clients /\ call[b].typed \in Passwords
               /\ call[b].new \in Passwords \cup {None}
               /\ cookie[b] # None => cookie[b] \in Token /\ cookie[b].salt \in Nat
    <2>1. call[b] \in Call /\ cookie[b] \in Token \cup {None}
      BY DEF TypeOK
    <2> QED
      BY <2>1 DEF Call, Token
  <1> QED
    BY <1>2, <1>3, <1>4, <1>5, <1>6

LEMMA LookedType ==
  ASSUME TypeOK
  PROVE  Looked \in [at: Times, found: ProxyAddrs \cup {None}, known: BOOLEAN]
  BY Typed DEF Looked, TypeOK

\* A peer, and whoever it speaks for, is a client.
LEMMA PeerType ==
  ASSUME TypeOK, NEW b \in Browsers
  PROVE  /\ \A peer \in Peers(b) : peer \in Clients
         /\ \A peer \in Clients : ClientIp(b, peer) \in Clients
  BY Typed DEF Peers, ClientIp, Clients

\* The record an attempt leaves.
LEMMA ChargedType ==
  ASSUME TypeOK, NEW before \in AttemptRecord, Len(before.window) <= MaxAttempts
  PROVE  /\ Charged(before).record \in AttemptRecord
         /\ Len(Charged(before).record.window) <= MaxAttempts
         /\ Charged(before).passed \in BOOLEAN
  <1> DEFINE recent == Recent(before.window)
             strikes == before.strikes + 1
             seen == [before EXCEPT !.last_seen = now]
  <1>1. Times \subseteq Nat /\ now \in Times /\ now \in Nat /\ Window \in Nat
    BY Typed DEF Times
  <1>2. recent \in Seq(Times) /\ Len(recent) \in Nat
    <2>1. before.window \in Seq(Times) /\ now - Window \in Int
      BY <1>1 DEF AttemptRecord
    <2> QED
      BY <1>1, <2>1, SinceIs, LenProperties DEF Recent
  <1>3. /\ strikes \in Nat /\ now + LockoutStep(strikes) \in Nat
        /\ before.window \in Seq(Times)
    <2>1. strikes \in Nat \ {0}
      BY DEF AttemptRecord
    <2>2. Len(LockoutSteps) \in Nat \ {0} /\ DOMAIN LockoutSteps = 1..Len(LockoutSteps)
          /\ \A i \in 1..Len(LockoutSteps) : LockoutSteps[i] \in Nat
      BY LenProperties, ElementOfSeq, EmptySeq
    <2>3. LockoutStep(strikes) \in Nat
      BY <2>1, <2>2 DEF LockoutStep
    <2> QED
      BY <1>1, <2>1, <2>3 DEF AttemptRecord
  <1>4. Append(recent, now) \in Seq(Times) /\ Len(Append(recent, now)) = Len(recent) + 1
    BY <1>1, <1>2, AppendProperties
  <1>5. <<>> \in Seq(Times) /\ Len(<<>>) = 0
    BY EmptySeq
  <1> HIDE DEF recent, strikes
  <1>6. CASE before.locked_until > now
    BY <1>1, <1>6 DEF Charged, AttemptRecord
  <1>7. CASE ~(before.locked_until > now) /\ AtLimit(recent)
    <2> DEFINE r == [before EXCEPT !.last_seen = now, !.strikes = strikes, !.window = <<>>,
                                   !.locked_until = now + LockoutStep(strikes)]
    <2>1. r \in AttemptRecord /\ r.window = <<>>
      BY <1>1, <1>3, <1>5 DEF AttemptRecord
    <2>2. Charged(before) = [record |-> r, passed |-> FALSE]
      BY <1>7 DEF Charged, recent, strikes, AttemptRecord
    <2> HIDE DEF r
    <2> QED
      BY <1>5, <2>1, <2>2
  <1>8. CASE ~(before.locked_until > now) /\ ~AtLimit(recent)
    <2> DEFINE r == [before EXCEPT !.last_seen = now, !.window = Append(recent, now)]
    <2>1. r \in AttemptRecord /\ r.window = Append(recent, now)
      BY <1>1, <1>4 DEF AttemptRecord
    <2>2. Charged(before) = [record |-> r, passed |-> TRUE]
      BY <1>8 DEF Charged, recent, AttemptRecord
    <2> HIDE DEF r
    <2>3. Len(r.window) <= MaxAttempts
      BY <1>2, <1>4, <1>8, <2>1 DEF AtLimit
    <2> QED
      BY <2>1, <2>2, <2>3
  <1> QED
    BY <1>6, <1>7, <1>8

\* The parts of the type invariant.
TableTyped ==
  /\ DOMAIN attempts \subseteq Clients
  /\ \A c \in DOMAIN attempts :
       attempts[c] \in AttemptRecord /\ Len(attempts[c].window) <= MaxAttempts
  /\ lookup \in [at: Times, found: ProxyAddrs \cup {None}, known: BOOLEAN]
AccountTyped ==
  /\ stored \in Passwords \cup {None} /\ made \in Nat /\ salt \in 0..made
  /\ cookie \in [Browsers -> Token \cup {None}]
  /\ late \subseteq Browsers /\ broken \in BOOLEAN
RestTyped ==
  /\ now \in Times /\ proxy \in [addr: ProxyAddrs \cup {None}, since: Times]
  /\ call \in [Browsers -> Call] /\ reset \in {"idle", "rotate", "write"}
  /\ budget \in [DOMAIN Limits -> Nat]

LEMMA TypeParts ==
  /\ TypeOK <=> TableTyped /\ AccountTyped /\ RestTyped
  /\ TableTyped' /\ AccountTyped' /\ RestTyped' => TypeOK'
  BY DEF TypeOK, TableTyped, AccountTyped, RestTyped

LEMMA FreshType ==
  ASSUME TypeOK
  PROVE  Fresh \in AttemptRecord /\ Len(Fresh.window) <= MaxAttempts /\ Fresh.window = <<>>
  <1>1. now \in Times /\ <<>> \in Seq(Times) /\ Len(<<>>) = 0
    BY Typed, EmptySeq
  <1> QED
    BY <1>1 DEF Fresh, AttemptRecord

LEMMA ThrottledType ==
  ASSUME TypeOK, NEW ip \in Clients
  PROVE  /\ Throttled(ip).record \in AttemptRecord
         /\ Len(Throttled(ip).record.window) <= MaxAttempts
         /\ Throttled(ip).passed \in BOOLEAN
  <1> DEFINE before == IF ip \in Kept THEN attempts[ip] ELSE Fresh
  <1>1. before \in AttemptRecord /\ Len(before.window) <= MaxAttempts
    BY FreshType DEF TypeOK, Kept
  <1> HIDE DEF before
  <1>2. /\ Charged(before).record \in AttemptRecord
        /\ Len(Charged(before).record.window) <= MaxAttempts
        /\ Charged(before).passed \in BOOLEAN
    BY <1>1, ChargedType
  <1> QED
    BY <1>2 DEF Throttled, before

LEMMA ChargeType ==
  ASSUME TypeOK, NEW ip \in Clients, Charge(ip)
  PROVE  TableTyped'
  <1>1. PICK gone \in Oldest(ip) :
          attempts' = [c \in (Kept \ gone) \cup {ip} |->
                         IF c = ip THEN Throttled(ip).record ELSE attempts[c]]
    BY DEF Charge
  <1>2. ASSUME NEW c \in DOMAIN attempts'
        PROVE  attempts'[c] \in AttemptRecord /\ Len(attempts'[c].window) <= MaxAttempts
    BY <1>1, <1>2, ThrottledType DEF Kept, TypeOK
  <1>3. DOMAIN attempts' \subseteq Clients
    BY <1>1 DEF Kept, TypeOK
  <1> QED
    BY <1>2, <1>3, LookedType DEF Charge, TableTyped

LEMMA NoteSuccessType ==
  ASSUME TypeOK, NEW b, NoteSuccess(b)
  PROVE  TableTyped'
  BY LookedType DEF NoteSuccess, TableTyped, TypeOK

\* What an attempt makes of its call.
LEMMA CallType ==
  ASSUME TypeOK, NEW b \in Browsers, NEW peer \in Peers(b), NEW typed \in Passwords,
         NEW new \in Passwords
  PROVE  /\ [Idle(b) EXCEPT !.pc = "login.known", !.peer = peer, !.typed = typed] \in Call
         /\ [pc |-> "change.match", peer |-> peer, typed |-> typed, new |-> new, ok |-> FALSE]
              \in Call
  <1>1. peer \in Clients
    BY PeerType
  <1> QED
    BY <1>1, IdleType DEF Call, Idle

LEMMA AskType ==
  ASSUME TypeOK, NEW b \in Browsers, AskLogin(b) \/ AskChange(b)
  PROVE  TypeOK'
  <1>1. \E peer \in Peers(b) : Charge(ClientIp(b, peer))
    BY DEF AskLogin, AskChange
  <1>2. TableTyped'
    BY <1>1, PeerType, ChargeType
  <1>3. call' \in [Browsers -> Call]
    <2>1. call' = call \/ \E r \in Call : call' = [call EXCEPT ![b] = r]
      BY CallType DEF AskLogin, AskChange
    <2> QED
      BY <2>1 DEF TypeOK
  <1>4. budget' \in [DOMAIN Limits -> Nat]
    BY SpendType DEF AskLogin, AskChange
  <1> QED
    BY <1>2, <1>3, <1>4, TypeParts DEF AskLogin, AskChange, account, AccountTyped, RestTyped

LEMMA GotoType ==
  ASSUME TypeOK, NEW b \in Browsers
  PROVE  /\ Ends(b) => call' \in [Browsers -> Call]
         /\ \A pc \in {"login.match", "change.set", "rotate", "write"} :
              Goto(b, pc) => call' \in [Browsers -> Call]
  <1>1. Ends(b) => call' \in [Browsers -> Call]
    BY IdleType DEF Ends, TypeOK
  <1>2. ASSUME NEW pc \in {"login.match", "change.set", "rotate", "write"}, Goto(b, pc)
        PROVE  call' \in [Browsers -> Call]
    <2>1. call[b] \in Call /\ call' = [call EXCEPT ![b] = [call[b] EXCEPT !.pc = pc]]
      BY <1>2 DEF Goto, TypeOK
    <2>2. [call[b] EXCEPT !.pc = pc] \in Call
      BY <2>1 DEF Call
    <2> QED
      BY <2>1, <2>2 DEF TypeOK
  <1> QED
    BY <1>1, <1>2

\* A thread that looked at the password comes back.
LEMMA MatchAt ==
  ASSUME TypeOK, NEW b \in Browsers, Match(b)
  PROVE  /\ call' \in [Browsers -> Call]
         /\ \A c \in Browsers : At(c, "rotate")' = At(c, "rotate") /\ At(c, "write")' = At(c, "write")
  <1> DEFINE pc == IF call[b].pc = "login.match" THEN "login.reply" ELSE "change.reply"
             r == [call[b] EXCEPT !.ok = (call[b].typed = Effective), !.pc = pc]
  <1>1. call[b] \in Call /\ call' = [call EXCEPT ![b] = r]
    BY DEF Match, TypeOK
  <1>2. r \in Call /\ r.pc = pc
    BY <1>1 DEF Call
  <1> HIDE DEF r
  <1>3. call' \in [Browsers -> Call] /\ call'[b] = r /\ \A c \in Browsers \ {b} : call'[c] = call[c]
    BY <1>1, <1>2 DEF TypeOK
  <1> QED
    BY <1>2, <1>3 DEF At, Match

LEMMA IssueType ==
  ASSUME TypeOK, NEW b \in Browsers, NEW by \in Passwords, NEW signed \in Nat, Issue(b, by, signed)
  PROVE  cookie' \in [Browsers -> Token \cup {None}] /\ late' \subseteq Browsers
  BY DEF Issue, TypeOK, Token

LEMMA HandleType ==
  ASSUME TypeOK, NEW b \in Browsers, Handle(b)
  PROVE  TypeOK'
  <1> USE TypeParts
  <1>1. CASE AskLogin(b) \/ AskChange(b)
    BY <1>1, AskType
  <1>2. CASE LoginKnown(b)
    BY <1>2, GotoType DEF LoginKnown, table, account, TableTyped, AccountTyped, RestTyped
  <1>3. CASE Match(b)
    <2>1. call' \in [Browsers -> Call]
      BY <1>3, MatchAt
    <2> QED
      BY <1>3, <2>1 DEF Match, table, account, TableTyped, AccountTyped, RestTyped
  <1>4. CASE LoginReply(b)
    <2>1. call' \in [Browsers -> Call]
      BY <1>4, GotoType DEF LoginReply
    <2>2. TableTyped' /\ AccountTyped'
      <3>1. CASE NoteSuccess(b) /\ Issue(b, call[b].typed, salt)
        BY <1>4, <3>1, NoteSuccessType, IssueType, Typed DEF LoginReply, AccountTyped
      <3>2. CASE UNCHANGED <<table, cookie, late>>
        BY <1>4, <3>2 DEF LoginReply, table, TableTyped, AccountTyped
      <3> QED
        BY <1>4, <3>1, <3>2 DEF LoginReply
    <2> QED
      BY <1>4, <2>1, <2>2 DEF LoginReply, RestTyped
  <1>5. CASE ChangeReply(b)
    <2>1. call' \in [Browsers -> Call]
      BY <1>5, GotoType DEF ChangeReply
    <2>2. TableTyped'
      BY <1>5, NoteSuccessType DEF ChangeReply, table, TableTyped
    <2> QED
      BY <1>5, <2>1, <2>2 DEF ChangeReply, account, AccountTyped, RestTyped
  <1>6. CASE ChangeSet(b)
    <2>1. call' \in [Browsers -> Call] /\ stored' \in Passwords \cup {None}
      BY <1>6, GotoType, Typed DEF ChangeSet
    <2> QED
      BY <1>6, <2>1 DEF ChangeSet, table, TableTyped, AccountTyped, RestTyped
  <1>7. CASE Logout(b)
    BY <1>7 DEF Logout, table, TableTyped, AccountTyped, RestTyped
  <1>8. CASE LogoutAll(b)
    BY <1>8, GotoType, SpendType DEF LogoutAll, table, account, TableTyped, AccountTyped, RestTyped
  <1>9. CASE RotateEmpty(b)
    BY <1>9, GotoType DEF RotateEmpty, table, TableTyped, AccountTyped, RestTyped
  <1>10. CASE RotateWrite(b)
    <2>1. cookie' \in [Browsers -> Token \cup {None}] /\ late' \subseteq Browsers
      <3>1. made + 1 \in Nat /\ call[b].new \in Passwords \cup {None}
        BY Typed
      <3>2. CASE call[b].new # None
        <4>1. Issue(b, call[b].new, made + 1) /\ call[b].new \in Passwords
          BY <1>10, <3>1, <3>2 DEF RotateWrite
        <4> QED
          BY <3>1, <4>1, IssueType
      <3>3. CASE call[b].new = None
        <4>1. cookie' = [cookie EXCEPT ![b] = None] /\ late' = late
          BY <1>10, <3>3 DEF RotateWrite
        <4> QED
          BY <4>1 DEF AccountTyped
      <3> QED
        BY <3>2, <3>3
    <2>2. made' \in Nat /\ salt' \in 0..made' /\ broken' \in BOOLEAN
      <3>1. made \in Nat
        BY Typed
      <3>2. made' = made + 1 /\ salt' = made + 1
        BY <1>10 DEF RotateWrite
      <3>3. made' \in Nat /\ salt' \in 0..made'
        BY <3>1, <3>2
      <3>4. broken' \in BOOLEAN
        BY <1>10 DEF RotateWrite
      <3> QED
        BY <3>3, <3>4
    <2> QED
      BY <1>10, <2>1, <2>2, GotoType DEF RotateWrite, table, TableTyped, AccountTyped, RestTyped
  <1> QED
    BY <1>1, <1>2, <1>3, <1>4, <1>5, <1>6, <1>7, <1>8, <1>9, <1>10 DEF Handle

LEMMA WorldType ==
  ASSUME TypeOK,
         \/ \E c \in Strangers : Knock(c)
         \/ Reset \/ ResetEmpty \/ ResetWrite \/ ResetEnds
         \/ ProxyMoves \/ Tick \/ ManagerRestarts
  PROVE  TypeOK'
  <1> USE TypeParts
  <1>1. ASSUME NEW c \in Strangers, Knock(c) PROVE TypeOK'
    <2>1. c \in Clients
      BY DEF Clients
    <2> QED
      BY <1>1, <2>1, ChargeType, SpendType DEF Knock, account, AccountTyped, RestTyped
  <1>2. CASE Reset \/ ResetEnds
    <2>1. budget' \in [DOMAIN Limits -> Nat]
      BY <1>2, SpendType DEF Reset, ResetEnds
    <2> QED
      BY <1>2, <2>1 DEF Reset, ResetEnds, table, TableTyped, AccountTyped, RestTyped
  <1>3. CASE ResetEmpty
    BY <1>3 DEF ResetEmpty, table, TableTyped, AccountTyped, RestTyped
  <1>4. CASE ResetWrite
    <2>1. made' \in Nat /\ salt' \in 0..made' /\ broken' \in BOOLEAN
      <3>1. made \in Nat
        BY Typed
      <3>2. made' = made + 1 /\ salt' = made + 1
        BY <1>4 DEF ResetWrite
      <3>3. made' \in Nat /\ salt' \in 0..made'
        BY <3>1, <3>2
      <3>4. broken' \in BOOLEAN
        BY <1>4 DEF ResetWrite
      <3> QED
        BY <3>3, <3>4
    <2> QED
      BY <1>4, <2>1 DEF ResetWrite, table, TableTyped, AccountTyped, RestTyped
  <1>5. CASE ProxyMoves
    <2>1. budget' \in [DOMAIN Limits -> Nat]
      BY <1>5, SpendType DEF ProxyMoves
    <2> QED
      BY <1>5, <2>1 DEF ProxyMoves, table, account, TableTyped, AccountTyped, RestTyped
  <1>6. CASE Tick
    <2>1. now' \in Times
      BY <1>6 DEF Tick, Times, TypeOK
    <2> QED
      BY <1>6, <2>1 DEF Tick, account, TableTyped, AccountTyped, RestTyped
  <1>7. CASE ManagerRestarts
    <2>1. budget' \in [DOMAIN Limits -> Nat]
      BY <1>7, SpendType DEF ManagerRestarts
    <2>2. call' \in [Browsers -> Call] /\ broken' \in BOOLEAN
      BY <1>7, IdleType DEF ManagerRestarts, TypeOK
    <2>3. TableTyped'
      BY <1>7 DEF ManagerRestarts, TableTyped
    <2> QED
      BY <1>7, <2>1, <2>2, <2>3 DEF ManagerRestarts, AccountTyped, RestTyped
  <1> QED
    BY <1>1, <1>2, <1>3, <1>4, <1>5, <1>6, <1>7

LEMMA InitType == Init => TypeOK
  <1> SUFFICES ASSUME Init PROVE TypeOK
    OBVIOUS
  <1>1. TableTyped
    BY DEF Init, TableTyped, Times
  <1>2. AccountTyped
    <2>1. made \in Nat /\ salt \in 0..made
      BY DEF Init
    <2> QED
      BY <2>1 DEF Init, AccountTyped
  <1>3. RestTyped
    BY IdleType DEF Init, RestTyped, Times
  <1> QED
    BY <1>1, <1>2, <1>3, TypeParts

LEMMA StepType == TypeOK /\ [Next]_vars => TypeOK'
  <1> SUFFICES ASSUME TypeOK, [Next]_vars PROVE TypeOK'
    OBVIOUS
  <1>1. CASE UNCHANGED vars
    BY <1>1, TypeParts DEF vars, TableTyped, AccountTyped, RestTyped
  <1> QED
    BY <1>1, HandleType, WorldType DEF Next

\* Windows never hold more than MaxAttempts, salts are made in order, and every
\* call comes from a client.
THEOREM TypeCorrect == Spec => []TypeOK
  BY InitType, StepType, PTL DEF Spec

-----------------------------------------------------------------------------
(* Passwords and sessions.                                                 *)

\* Between salts a process is about to write one, or ended before it could.
Salted == salt # made => broken \/ reset = "write" \/ \E b \in Browsers : At(b, "write")

\* Nobody has a session of a salt to come, and whoever has one of the newest
\* knew the password in effect, or its salt is about to be replaced.
Signed(b) == cookie[b] # None =>
  /\ cookie[b].salt <= made
  /\ cookie[b].salt = made => cookie[b].by = Effective \/ b \in late \/ broken \/ Rotating

Sessions == Salted /\ \A b \in Browsers : Signed(b)

\* A step that leaves the account alone, and ends nobody's rotation.
LEMMA SessionsKept ==
  ASSUME Sessions, UNCHANGED <<stored, salt, made, reset>>, broken => broken',
         \A b \in Browsers : /\ At(b, "rotate") => At(b, "rotate")' \/ broken'
                             /\ At(b, "write") => At(b, "write")' \/ broken',
         \A b \in Browsers : cookie'[b] = None \/ (cookie'[b] = cookie[b] /\ (b \in late => b \in late'))
  PROVE  Sessions'
  <1>1. Salted'
    BY DEF Sessions, Salted
  <1>2. ASSUME NEW b \in Browsers PROVE Signed(b)'
    <2>1. Effective' = Effective
      BY DEF Effective
    <2>2. Rotating => Rotating' \/ broken'
      BY DEF Rotating
    <2>3. Signed(b)
      BY DEF Sessions
    <2> QED
      BY <2>1, <2>2, <2>3 DEF Signed
  <1> QED
    BY <1>1, <1>2 DEF Sessions

LEMMA GotoAt ==
  ASSUME TypeOK, NEW b \in Browsers
  PROVE  /\ Ends(b) => /\ call'[b] = Idle(b) /\ \A c \in Browsers \ {b} : call'[c] = call[c]
         /\ \A pc : Goto(b, pc) => call'[b].pc = pc /\ \A c \in Browsers \ {b} : call'[c] = call[c]
  <1>1. ASSUME NEW pc, Goto(b, pc)
        PROVE  call'[b].pc = pc /\ \A c \in Browsers \ {b} : call'[c] = call[c]
    <2>1. call[b] \in Call /\ call'[b] = [call[b] EXCEPT !.pc = pc]
          /\ \A c \in Browsers \ {b} : call'[c] = call[c]
      BY <1>1 DEF Goto, TypeOK
    <2>2. [call[b] EXCEPT !.pc = pc].pc = pc
      BY <2>1 DEF Call
    <2> QED
      BY <2>1, <2>2
  <1> QED
    BY <1>1 DEF Ends, TypeOK

\* Its newest session is of somebody who knew the password, or it is late.
LEMMA IssueAt ==
  ASSUME TypeOK, NEW b \in Browsers, NEW by, NEW signed, Issue(b, by, signed)
  PROVE  /\ \A c \in Browsers \ {b} : cookie'[c] = cookie[c] /\ (c \in late <=> c \in late')
         /\ cookie'[b].salt = signed /\ cookie'[b].by = by
         /\ by = Effective \/ b \in late'
  BY DEF Issue, TypeOK

\* Every session is of an older salt than the one that is written.
LEMMA WriteKeeps ==
  ASSUME TypeOK, Sessions, made' = made + 1, salt' = made + 1,
         \A b \in Browsers : \/ cookie'[b] = None \/ cookie'[b] = cookie[b]
                             \/ /\ cookie'[b].salt = made + 1
                                /\ cookie'[b].by = Effective' \/ b \in late'
  PROVE  Sessions'
  <1>1. Salted'
    BY DEF Salted
  <1>2. ASSUME NEW b \in Browsers PROVE Signed(b)'
    <2>1. made \in Nat /\ (cookie[b] # None => cookie[b].salt \in Nat)
      BY Typed
    <2>2. Signed(b)
      BY DEF Sessions
    <2>3. CASE cookie'[b] = None
      BY <2>3 DEF Signed
    <2>4. CASE cookie'[b] = cookie[b] /\ cookie[b] # None
      <3>1. cookie'[b].salt <= made' /\ cookie'[b].salt # made'
        BY <2>1, <2>2, <2>4 DEF Signed
      <3> QED
        BY <3>1 DEF Signed
    <2>5. CASE cookie'[b].salt = made + 1 /\ (cookie'[b].by = Effective' \/ b \in late')
      <3>1. cookie'[b].salt <= made'
        BY <2>1, <2>5
      <3> QED
        BY <2>5, <3>1 DEF Signed
    <2> QED
      BY <2>3, <2>4, <2>5
  <1> QED
    BY <1>1, <1>2 DEF Sessions

LEMMA HandleKeeps ==
  ASSUME TypeOK, Sessions, NEW b \in Browsers, Handle(b)
  PROVE  Sessions'
  <1>1. CASE AskLogin(b) \/ AskChange(b)
    <2>1. UNCHANGED account /\ UNCHANGED reset /\ At(b, "idle")
      BY <1>1 DEF AskLogin, AskChange
    <2>2. \A c \in Browsers \ {b} : call'[c] = call[c]
      <3>1. call' = call \/ \E r : call' = [call EXCEPT ![b] = r]
        BY <1>1 DEF AskLogin, AskChange
      <3> QED
        BY <3>1 DEF TypeOK
    <2> QED
      BY <2>1, <2>2, SessionsKept DEF account, At
  <1>2. CASE LoginKnown(b) \/ ChangeReply(b)
    <2>1. UNCHANGED account /\ UNCHANGED reset /\ call[b].pc \in {"login.known", "change.reply"}
      BY <1>2 DEF LoginKnown, ChangeReply, At
    <2>2. \A c \in Browsers \ {b} : call'[c] = call[c]
      BY <1>2, GotoAt DEF LoginKnown, ChangeReply
    <2> QED
      BY <2>1, <2>2, SessionsKept DEF account, At
  <1>3. CASE Match(b)
    BY <1>3, MatchAt, SessionsKept DEF Match, account
  <1>4. CASE LoginReply(b)
    <2>1. UNCHANGED <<stored, salt, made, reset, broken>>
      BY <1>4 DEF LoginReply
    <2>2. call'[b] = Idle(b) /\ call[b].pc = "login.reply" /\ \A c \in Browsers \ {b} : call'[c] = call[c]
      BY <1>4, GotoAt DEF LoginReply, At
    <2>3. CASE UNCHANGED <<cookie, late>>
      BY <2>1, <2>2, <2>3, SessionsKept DEF At
    <2>4. CASE Issue(b, call[b].typed, salt)
      <3>1. /\ \A c \in Browsers \ {b} : cookie'[c] = cookie[c] /\ (c \in late <=> c \in late')
            /\ cookie'[b].salt = salt /\ cookie'[b].by = call[b].typed
            /\ call[b].typed = Effective \/ b \in late'
        BY <2>4, IssueAt
      <3>2. Effective' = Effective /\ (Rotating => Rotating')
        BY <2>1, <2>2 DEF Effective, Rotating, At
      <3>3. Salted'
        BY <2>1, <2>2 DEF Sessions, Salted, At
      <3>4. ASSUME NEW c \in Browsers \ {b} PROVE Signed(c)'
        BY <2>1, <3>1, <3>2, <3>4 DEF Sessions, Signed
      <3>5. salt <= made
        BY DEF TypeOK
      <3>6. Signed(b)'
        BY <2>1, <3>1, <3>2, <3>5 DEF Signed
      <3> QED
        BY <3>3, <3>4, <3>6 DEF Sessions
    <2> QED
      BY <1>4, <2>3, <2>4 DEF LoginReply
  <1>5. CASE ChangeSet(b)
    <2>1. /\ UNCHANGED <<salt, made, cookie, late, broken, reset>>
          /\ At(b, "rotate")' /\ call[b].pc = "change.set" /\ \A c \in Browsers \ {b} : call'[c] = call[c]
      BY <1>5, GotoAt DEF ChangeSet, At
    <2>2. Rotating'
      BY <2>1 DEF Rotating
    <2>3. Salted'
      BY <2>1 DEF Sessions, Salted, At
    <2>4. ASSUME NEW c \in Browsers PROVE Signed(c)'
      BY <2>1, <2>2 DEF Sessions, Signed
    <2> QED
      BY <2>3, <2>4 DEF Sessions
  <1>6. CASE Logout(b)
    <2>1. /\ UNCHANGED <<stored, salt, made, late, broken, call, reset>>
          /\ \A c \in Browsers : cookie'[c] \in {cookie[c], None}
      BY <1>6 DEF Logout, TypeOK
    <2> QED
      BY <2>1, SessionsKept DEF At
  <1>7. CASE LogoutAll(b)
    <2>1. UNCHANGED account /\ UNCHANGED reset /\ call[b].pc = "idle" /\ \A c \in Browsers \ {b} : call'[c] = call[c]
      BY <1>7, GotoAt DEF LogoutAll, At
    <2> QED
      BY <2>1, SessionsKept DEF account, At
  <1>8. CASE RotateEmpty(b)
    <2>1. /\ UNCHANGED <<stored, made, cookie, late, broken, reset>>
          /\ At(b, "write")' /\ \A c \in Browsers \ {b} : call'[c] = call[c]
      BY <1>8, GotoAt DEF RotateEmpty, At
    <2>2. Rotating'
      BY <2>1 DEF Rotating
    <2>3. Salted'
      BY <2>1 DEF Salted
    <2>4. ASSUME NEW c \in Browsers PROVE Signed(c)'
      BY <2>1, <2>2 DEF Sessions, Signed
    <2> QED
      BY <2>3, <2>4 DEF Sessions
  <1>9. CASE RotateWrite(b)
    <2>1. made' = made + 1 /\ salt' = made + 1 /\ Effective' = Effective
      BY <1>9 DEF RotateWrite, Effective
    <2>2. \A c \in Browsers : \/ cookie'[c] = None \/ cookie'[c] = cookie[c]
                              \/ /\ cookie'[c].salt = made + 1
                                 /\ cookie'[c].by = Effective' \/ c \in late'
      <3>1. CASE Issue(b, call[b].new, made + 1)
        BY <2>1, <3>1, IssueAt
      <3>2. CASE cookie' = [cookie EXCEPT ![b] = None]
        BY <3>2 DEF TypeOK
      <3> QED
        BY <1>9, <3>1, <3>2 DEF RotateWrite
    <2> QED
      BY <2>1, <2>2, WriteKeeps
  <1> QED
    BY <1>1, <1>2, <1>3, <1>4, <1>5, <1>6, <1>7, <1>8, <1>9 DEF Handle

LEMMA WorldKeeps ==
  ASSUME TypeOK, Sessions,
         \/ \E c \in Strangers : Knock(c)
         \/ Reset \/ ResetEmpty \/ ResetWrite \/ ResetEnds
         \/ ProxyMoves \/ Tick \/ ManagerRestarts \/ UNCHANGED vars
  PROVE  Sessions'
  <1>1. CASE (\E c \in Strangers : Knock(c)) \/ ProxyMoves \/ Tick \/ UNCHANGED vars
    BY <1>1, SessionsKept DEF Knock, ProxyMoves, Tick, vars, account, At
  <1>2. CASE Reset \/ ResetEmpty
    <2>1. UNCHANGED <<made, cookie, late, broken, call>> /\ Rotating'
      BY <1>2 DEF Reset, ResetEmpty, Rotating
    <2>2. Salted'
      BY <1>2, <2>1 DEF Reset, ResetEmpty, Sessions, Salted, At
    <2>3. ASSUME NEW b \in Browsers PROVE Signed(b)'
      BY <2>1 DEF Sessions, Signed
    <2> QED
      BY <2>2, <2>3 DEF Sessions
  <1>3. CASE ResetWrite
    BY <1>3, WriteKeeps DEF ResetWrite
  <1>4. CASE ResetEnds
    <2>1. UNCHANGED <<made, cookie, late>> /\ broken'
      BY <1>4 DEF ResetEnds
    <2> QED
      BY <2>1 DEF Sessions, Salted, Signed
  <1>5. CASE ManagerRestarts
    BY <1>5, SessionsKept DEF ManagerRestarts, At
  <1> QED
    BY <1>1, <1>2, <1>3, <1>4, <1>5

LEMMA SessionsHold == Spec => [](TypeOK /\ Sessions)
  <1>1. Init => Sessions
    BY DEF Init, Sessions, Salted, Signed
  <1>2. TypeOK /\ Sessions /\ [Next]_vars => Sessions'
    BY HandleKeeps, WorldKeeps DEF Next
  <1> QED
    BY <1>1, <1>2, TypeCorrect, PTL DEF Spec

\* However requests, resets and ends of the manager interleave: once the salt of
\* a new password is written, nobody is in on an old one but those named late.
THEOREM OldPasswordHolds == Spec => []OldPasswordIsOut
  <1>1. Sessions => OldPasswordIsOut
    <2> SUFFICES ASSUME Sessions, ~Rotating, ~broken, NEW b \in Browsers, Valid(cookie[b])
                 PROVE  cookie[b].salt = made /\ (cookie[b].by = Effective \/ b \in late)
      BY DEF OldPasswordIsOut
    <2>1. salt = made
      BY DEF Sessions, Salted, Rotating
    <2> QED
      BY <2>1 DEF Sessions, Signed, Valid
  <1> QED
    BY <1>1, SessionsHold, PTL

-----------------------------------------------------------------------------
(* The proxy.                                                              *)

\* What was looked up is what was found then.
LookedUp ==
  /\ lookup.at <= now
  /\ lookup.known => lookup.at <= proxy.since \/ lookup.found = proxy.addr

LEMMA LookedFits ==
  ASSUME TypeOK, LookedUp, lookup' = Looked, UNCHANGED <<now, proxy>>
  PROVE  LookedUp'
  <1>1. now \in Nat
    BY Typed
  <1>2. CASE lookup' = lookup
    BY <1>2 DEF LookedUp
  <1>3. CASE lookup' = [at |-> now, found |-> proxy.addr, known |-> TRUE]
    BY <1>1, <1>3 DEF LookedUp
  <1> QED
    BY <1>2, <1>3 DEF Looked

LEMMA StepLooked == TypeOK /\ LookedUp /\ [Next]_vars => LookedUp'
  <1> SUFFICES ASSUME TypeOK, LookedUp, [Next]_vars PROVE LookedUp'
    OBVIOUS
  <1>1. CASE lookup' = Looked /\ UNCHANGED <<now, proxy>>
    BY <1>1, LookedFits
  <1>2. CASE UNCHANGED <<lookup, now, proxy>>
    BY <1>2 DEF LookedUp
  <1>3. CASE ProxyMoves
    <2>1. lookup' = lookup /\ now' = now /\ proxy'.since = now
      BY <1>3 DEF ProxyMoves, table
    <2> QED
      BY <2>1 DEF LookedUp
  <1>4. CASE Tick
    <2>1. lookup' = lookup /\ proxy' = proxy /\ now' = now + 1 /\ now \in Nat /\ lookup.at \in Nat
      BY <1>4, Typed DEF Tick
    <2> QED
      BY <2>1 DEF LookedUp
  <1>5. CASE ManagerRestarts
    <2>1. proxy' = proxy /\ now' = now /\ lookup' = [lookup EXCEPT !.known = FALSE]
      BY <1>5 DEF ManagerRestarts
    <2>2. lookup'.at = lookup.at /\ lookup'.known = FALSE
      BY <2>1 DEF TypeOK
    <2> QED
      BY <2>1, <2>2 DEF LookedUp
  <1> QED
    BY <1>1, <1>2, <1>3, <1>4, <1>5 DEF Next, Handle, vars, table, Charge, NoteSuccess, Knock,
       AskLogin, LoginKnown, Match, LoginReply, AskChange, ChangeReply, ChangeSet, Logout,
       LogoutAll, RotateEmpty, RotateWrite, Reset, ResetEmpty, ResetWrite, ResetEnds

\* An attempt is put down to nobody but the one it is from.
LEMMA ChargesOne ==
  ASSUME NEW ip, NEW c, Charge(ip), Charges(c)
  PROVE  c = ip
  BY DEF Charge, Charges, Kept

LEMMA ProxyIsNoClient ==
  ASSUME TypeOK, LookedUp, NEW b \in Browsers, NEW peer \in Peers(b), ClientIp(b, peer) \in ProxyAddrs
  PROVE  now - proxy.since < LookupAge
  <1>1. b \notin ProxyAddrs /\ now \in Nat /\ proxy.since \in Nat /\ lookup.at \in Nat
    BY Typed
  <1>2. peer = proxy.addr /\ peer # Looked.found
    BY <1>1 DEF ClientIp, Peers
  <1>3. lookup.known /\ now - lookup.at < LookupAge /\ Looked = lookup
    BY <1>2 DEF Looked
  <1> QED
    BY <1>1, <1>2, <1>3 DEF LookedUp

\* Whatever the length of a lookup's age: only until it is over may the requests
\* of a moved proxy be put down to the proxy.
THEOREM ProxyHolds == Spec => ProxyIsFoundAgain
  <1>1. Init => LookedUp
    BY DEF Init, LookedUp
  <1>2. TypeOK /\ LookedUp /\ [Next]_vars
          => [\A p \in ProxyAddrs : Charges(p) => now - proxy.since < LookupAge]_vars
    <2> SUFFICES ASSUME TypeOK, LookedUp, Next, NEW p \in ProxyAddrs, Charges(p)
                 PROVE  now - proxy.since < LookupAge
      OBVIOUS
    <2>1. ASSUME NEW ip, Charge(ip) PROVE ip = p
      BY <2>1, ChargesOne
    <2>2. ASSUME NEW b \in Browsers, AskLogin(b) \/ AskChange(b)
          PROVE  now - proxy.since < LookupAge
      <3>1. PICK peer \in Peers(b) : Charge(ClientIp(b, peer))
        BY <2>2 DEF AskLogin, AskChange
      <3>2. ClientIp(b, peer) = p
        BY <2>1, <3>1
      <3> QED
        BY <3>1, <3>2, ProxyIsNoClient
    <2>3. ASSUME NEW c \in Strangers, Knock(c) PROVE FALSE
      <3>1. c = p
        BY <2>1, <2>3 DEF Knock
      <3> QED
        BY <3>1
    <2>4. ASSUME NEW b, NoteSuccess(b) PROVE FALSE
      BY <2>4 DEF NoteSuccess, Charges
    <2>5. CASE UNCHANGED attempts \/ ManagerRestarts
      BY <2>5 DEF Charges, ManagerRestarts
    <2> QED
      BY <2>2, <2>3, <2>4, <2>5 DEF Next, Handle, table, LoginKnown, Match, LoginReply,
         ChangeReply, ChangeSet, Logout, LogoutAll, RotateEmpty, RotateWrite, Reset, ResetEmpty,
         ResetWrite, ResetEnds, ProxyMoves, Tick
  <1> QED
    BY <1>1, <1>2, StepLooked, TypeCorrect, PTL DEF Spec, ProxyIsFoundAgain


HIDE DEF ThrottleAssumption, AccessAssumption

-----------------------------------------------------------------------------
(* A window next to all the attempts that got through: it is what is left of *)
(* them since the last lockout.                                             *)

\* Times in order, of attempts made between two others.
Spans(th, from, to) ==
  /\ th \in Seq(Nat)
  /\ \A i, j \in 1..Len(th) : i <= j => th[i] <= th[j]
  /\ \A i \in 1..Len(th) : from <= th[i] /\ th[i] <= to

\* Window w without its first k times, too old, is th without its first gap ones,
\* which a lockout has answered.
Fits(w, th, k, gap, oldest, lifted) ==
  /\ Len(w) - k = Len(th) - gap
  /\ \A i \in 1..(Len(th) - gap) : w[k + i] = th[gap + i]
  /\ \A i \in 1..k : w[i] < oldest
  /\ \A i \in 1..gap : th[i] <= lifted
Matches(w, th, oldest, lifted) ==
  \E k \in 0..Len(w), gap \in 0..Len(th) : Fits(w, th, k, gap, oldest, lifted)

LEMMA SeqFacts ==
  ASSUME NEW s \in Seq(Nat)
  PROVE  Len(s) \in Nat /\ DOMAIN s = 1..Len(s) /\ \A i \in 1..Len(s) : s[i] \in Nat
  BY LenProperties, ElementOfSeq

LEMMA SpansLater ==
  ASSUME NEW th, NEW from \in Int, NEW to \in Nat, NEW t \in Nat, to <= t, Spans(th, from, to)
  PROVE  Spans(th, from, t) /\ th \in Seq(Nat) /\ \A i \in 1..Len(th) : th[i] \in Nat
  <1>1. th \in Seq(Nat) /\ \A i \in 1..Len(th) : th[i] \in Nat
    BY SeqFacts DEF Spans
  <1>2. ASSUME NEW i \in 1..Len(th) PROVE from <= th[i] /\ th[i] <= t
    BY <1>1 DEF Spans
  <1> QED
    BY <1>1, <1>2 DEF Spans

LEMMA EmptySpans ==
  ASSUME NEW from, NEW to
  PROVE  Spans(<<>>, from, to) /\ <<>> \in Seq(Nat) /\ Len(<<>>) = 0
  <1>1. <<>> \in Seq(Nat) /\ Len(<<>>) = 0 /\ 1..0 = {}
    BY EmptySeq
  <1> QED
    BY <1>1 DEF Spans

\* What is recent in the window is the last part of what got through.
LEMMA RecentFits ==
  ASSUME NEW w \in Seq(Nat), NEW th, NEW oldest \in Int, NEW lifted \in Int, NEW to \in Nat,
         NEW k \in 0..Len(w), NEW gap \in 0..Len(th),
         Fits(w, th, k, gap, oldest, lifted), Spans(th, oldest, to)
  PROVE  /\ Since(w, oldest) \in Seq(Nat)
         /\ Len(Since(w, oldest)) = Len(th) - gap
         /\ \A i \in 1..(Len(th) - gap) : Since(w, oldest)[i] = th[gap + i]
  <1> DEFINE r == Since(w, oldest)
  <1>0. /\ Len(w) \in Nat /\ Len(th) \in Nat
        /\ \A i \in 1..Len(w) : w[i] \in Nat
        /\ \A i \in 1..Len(th) : th[i] \in Nat
    BY SeqFacts DEF Spans
  <1>1. r \in Seq(Nat) /\ \E d \in 0..Len(w) : Popped(w, oldest, r, d)
    BY SinceIs
  <1> HIDE DEF r
  <1>2. PICK d \in 0..Len(w) : Popped(w, oldest, r, d)
    BY <1>1
  <1>3. d = k
    <2>1. CASE d < k
      <3>1. d + 1 \in 1..k /\ d < Len(w)
        BY <1>0, <2>1
      <3>2. w[d + 1] >= oldest
        BY <1>2, <3>1 DEF Popped
      <3>3. w[d + 1] < oldest
        BY <3>1 DEF Fits
      <3>4. d + 1 \in 1..Len(w)
        BY <1>0, <3>1
      <3>5. w[d + 1] \in Nat
        BY <1>0, <3>4
      <3> QED
        BY <3>2, <3>3, <3>5
    <2>2. CASE d > k
      <3> DEFINE i == d - k
      <3>1. i \in 1..(Len(th) - gap) /\ k + i = d /\ d \in 1..d
        BY <1>0, <2>2 DEF Fits
      <3>2. w[k + i] = th[gap + i] /\ w[d] < oldest
        BY <1>2, <3>1 DEF Fits, Popped
      <3>3. gap + i \in 1..Len(th)
        BY <1>0, <3>1
      <3>4. oldest <= th[gap + i]
        BY <3>3 DEF Spans
      <3>5. w[d] = th[gap + i] /\ w[d] \in Nat
        BY <1>0, <3>1, <3>2, <3>3
      <3> QED
        BY <3>2, <3>4, <3>5
    <2> QED
      BY <1>0, <2>1, <2>2
  <1>4. Len(r) = Len(th) - gap
    BY <1>0, <1>2, <1>3 DEF Popped, Fits
  <1>5. ASSUME NEW i \in 1..(Len(th) - gap) PROVE r[i] = th[gap + i]
    <2>1. r[i] = w[i + k] /\ w[k + i] = th[gap + i]
      BY <1>2, <1>3, <1>4 DEF Popped, Fits
    <2>2. i + k = k + i
      BY <1>0
    <2> QED
      BY <2>1, <2>2
  <1> QED
    BY <1>1, <1>4, <1>5 DEF r

LEMMA RecentCounts ==
  ASSUME NEW w \in Seq(Nat), NEW th, NEW oldest \in Int, NEW lifted \in Int, NEW to \in Nat,
         Matches(w, th, oldest, lifted), Spans(th, oldest, to)
  PROVE  \E gap \in 0..Len(th) : /\ Len(Since(w, oldest)) = Len(th) - gap
                                 /\ \A i \in 1..gap : th[i] <= lifted
  <1>1. PICK k \in 0..Len(w), gap \in 0..Len(th) : Fits(w, th, k, gap, oldest, lifted)
    BY DEF Matches
  <1>2. Len(Since(w, oldest)) = Len(th) - gap
    BY <1>1, RecentFits
  <1>3. \A i \in 1..gap : th[i] <= lifted
    BY <1>1 DEF Fits
  <1> QED
    BY <1>2, <1>3

\* An attempt that gets through.
LEMMA PassMatches ==
  ASSUME NEW w \in Seq(Nat), NEW th, NEW oldest \in Int, NEW lifted \in Int, NEW to \in Nat,
         NEW t \in Nat, oldest <= t, to <= t,
         Matches(w, th, oldest, lifted), Spans(th, oldest, to)
  PROVE  /\ Matches(Append(Since(w, oldest), t), Append(th, t), oldest, lifted)
         /\ Spans(Append(th, t), oldest, t)
  <1> DEFINE r == Since(w, oldest)
             rt == Append(r, t)
             tht == Append(th, t)
  <1>1. PICK k \in 0..Len(w), gap \in 0..Len(th) : Fits(w, th, k, gap, oldest, lifted)
    BY DEF Matches
  <1>2. /\ r \in Seq(Nat) /\ Len(r) = Len(th) - gap
        /\ \A i \in 1..(Len(th) - gap) : r[i] = th[gap + i]
    BY <1>1, RecentFits, SMTT(60)
  <1>3. /\ Len(th) \in Nat /\ th \in Seq(Nat) /\ \A i \in 1..Len(th) : th[i] \in Nat
    BY SeqFacts DEF Spans
  <1> HIDE DEF r
  <1>4. /\ rt \in Seq(Nat) /\ Len(rt) = Len(r) + 1 /\ rt[Len(r) + 1] = t
        /\ \A i \in 1..Len(r) : rt[i] = r[i]
    BY <1>2, AppendProperties
  <1>5. /\ tht \in Seq(Nat) /\ Len(tht) = Len(th) + 1 /\ tht[Len(th) + 1] = t
        /\ \A i \in 1..Len(th) : tht[i] = th[i]
    BY <1>3, AppendProperties
  <1> HIDE DEF rt, tht
  <1>6. Fits(rt, tht, 0, gap, oldest, lifted)
    <2>1. Len(rt) - 0 = Len(tht) - gap
      BY <1>2, <1>3, <1>4, <1>5
    <2>2. ASSUME NEW i \in 1..(Len(tht) - gap) PROVE rt[0 + i] = tht[gap + i]
      <3>1. CASE i = Len(th) - gap + 1
        <4>1. 0 + i = Len(r) + 1 /\ gap + i = Len(th) + 1
          BY <1>2, <1>3, <3>1
        <4> QED
          BY <1>4, <1>5, <4>1
      <3>2. CASE i # Len(th) - gap + 1
        <4>0. Len(tht) = Len(th) + 1 /\ Len(th) \in Nat
          BY <1>3, <1>5
        <4>1. i \in 1..(Len(th) - gap) /\ gap + i \in 1..Len(th) /\ 0 + i = i
          BY <4>0, <1>1, <3>2
        <4> QED
          BY <1>2, <1>4, <1>5, <4>1
      <3> QED
        BY <3>1, <3>2
    <2>3. ASSUME NEW i \in 1..gap PROVE tht[i] <= lifted
      <3>1. i \in 1..Len(th)
        BY <1>3
      <3>2. tht[i] = th[i]
        BY <1>5, <3>1
      <3> QED
        BY <1>1, <3>2 DEF Fits
    <2> QED
      BY <2>1, <2>2, <2>3 DEF Fits
  <1>7. Spans(tht, oldest, t)
    <2>1. ASSUME NEW i \in 1..Len(tht) PROVE oldest <= tht[i] /\ tht[i] <= t /\ tht[i] \in Nat
      <3>1. CASE i = Len(th) + 1
        BY <1>5, <3>1
      <3>2. CASE i # Len(th) + 1
        <4>1. i \in 1..Len(th)
          BY <1>3, <1>5, <3>2
        <4>2. tht[i] = th[i] /\ th[i] \in Nat /\ oldest <= th[i] /\ th[i] <= to
          BY <1>3, <1>5, <4>1 DEF Spans
        <4> QED
          BY <4>2
      <3> QED
        BY <3>1, <3>2
    <2>2. ASSUME NEW i \in 1..Len(tht), NEW j \in 1..Len(tht), i <= j PROVE tht[i] <= tht[j]
      <3>1. CASE j = Len(th) + 1
        BY <1>5, <2>1, <3>1
      <3>2. CASE j # Len(th) + 1
        <4>0. Len(tht) = Len(th) + 1 /\ Len(th) \in Nat
          BY <1>3, <1>5
        <4>1. i \in Nat /\ j \in Nat /\ 1 <= i /\ i <= j /\ j <= Len(th)
          BY <4>0, <2>2, <3>2
        <4>2. i \in 1..Len(th) /\ j \in 1..Len(th)
          BY <4>0, <4>1
        <4> QED
          BY <1>5, <2>2, <4>2 DEF Spans
      <3> QED
        BY <3>1, <3>2
    <2> QED
      BY <1>5, <2>1, <2>2 DEF Spans
  <1>8. 0 \in 0..Len(rt) /\ gap \in 0..Len(tht)
    BY <1>2, <1>3, <1>4, <1>5
  <1> QED
    BY <1>6, <1>7, <1>8 DEF Matches, r, rt, tht

\* One that locks its client out, or a client that knocks for the first time.
LEMMA EmptyMatches ==
  ASSUME NEW th, NEW oldest \in Int, NEW lifted \in Int, th \in Seq(Nat),
         \A i \in 1..Len(th) : th[i] <= lifted
  PROVE  Matches(<<>>, th, oldest, lifted)
  <1>1. Len(th) \in Nat /\ Len(<<>>) = 0
    BY SeqFacts, EmptySeq
  <1>2. Fits(<<>>, th, 0, Len(th), oldest, lifted)
    BY <1>1 DEF Fits
  <1>3. 0 \in 0..Len(<<>>) /\ Len(th) \in 0..Len(th)
    BY <1>1
  <1> QED
    BY <1>2, <1>3 DEF Matches

\* Time goes on.
LEMMA TickMatches ==
  ASSUME NEW w \in Seq(Nat), NEW th, NEW oldest \in Int, NEW lifted \in Int, NEW to \in Nat,
         Matches(w, th, oldest, lifted), Spans(th, oldest, to)
  PROVE  /\ Matches(w, Since(th, oldest + 1), oldest + 1, lifted)
         /\ Spans(Since(th, oldest + 1), oldest + 1, to)
  <1> DEFINE r == Since(th, oldest + 1)
  <1>0. /\ Len(w) \in Nat /\ Len(th) \in Nat /\ th \in Seq(Nat)
        /\ \A i \in 1..Len(w) : w[i] \in Nat
        /\ \A i \in 1..Len(th) : th[i] \in Nat
    BY SeqFacts DEF Spans
  <1>1. r \in Seq(Nat) /\ \E d \in 0..Len(th) : Popped(th, oldest + 1, r, d)
    <2>1. oldest + 1 \in Int /\ Nat \in SUBSET Nat
      OBVIOUS
    <2> QED
      BY <1>0, <2>1, SinceIs
  <1> HIDE DEF r
  <1>2. PICK d \in 0..Len(th) : Popped(th, oldest + 1, r, d)
    BY <1>1
  <1>3. /\ Len(r) = Len(th) - d /\ \A i \in 1..Len(r) : r[i] = th[i + d]
        /\ \A i \in 1..d : th[i] < oldest + 1
        /\ d < Len(th) => th[d + 1] >= oldest + 1
    BY <1>2 DEF Popped
  <1>4. PICK k \in 0..Len(w), gap \in 0..Len(th) : Fits(w, th, k, gap, oldest, lifted)
    BY DEF Matches
  <1>5. Spans(r, oldest + 1, to)
    <2>1. ASSUME NEW i \in 1..Len(r) PROVE i + d \in 1..Len(th) /\ r[i] = th[i + d]
      BY <1>0, <1>3
    <2>2. ASSUME NEW i \in 1..Len(r) PROVE oldest + 1 <= r[i] /\ r[i] <= to
      <3>1. d + 1 \in 1..Len(th) /\ i + d \in 1..Len(th) /\ d + 1 <= i + d /\ d < Len(th)
        BY <1>0, <1>3
      <3>2. th[d + 1] <= th[i + d] /\ th[i + d] <= to
        BY <3>1 DEF Spans
      <3>3. th[d + 1] \in Nat /\ th[i + d] \in Nat /\ th[d + 1] >= oldest + 1
        BY <1>0, <1>3, <3>1
      <3>4. oldest + 1 <= th[i + d]
        <4>1. oldest + 1 \in Int
          OBVIOUS
        <4> QED
          BY <3>2, <3>3, <4>1
      <3>5. r[i] = th[i + d]
        BY <2>1
      <3> QED
        BY <3>2, <3>4, <3>5
    <2>3. ASSUME NEW i \in 1..Len(r), NEW j \in 1..Len(r), i <= j PROVE r[i] <= r[j]
      <3>1. i + d <= j + d
        BY <1>0, <1>3, <2>3
      <3>2. th[i + d] <= th[j + d]
        BY <2>1, <3>1 DEF Spans
      <3> QED
        BY <2>1, <3>2
    <2> QED
      BY <1>1, <2>2, <2>3 DEF Spans
  <1>6. CASE d <= gap
    <2> DEFINE g == gap - d
    <2>1. g \in 0..Len(r) /\ Len(r) - g = Len(th) - gap
      BY <1>0, <1>3, <1>6
    <2>2. ASSUME NEW i \in 1..(Len(r) - g) PROVE w[k + i] = r[g + i]
      <3>1. g + i \in 1..Len(r) /\ (g + i) + d = gap + i /\ i \in 1..(Len(th) - gap)
        BY <1>0, <1>3, <2>1
      <3> QED
        BY <1>3, <1>4, <3>1 DEF Fits
    <2>3. ASSUME NEW i \in 1..k PROVE w[i] < oldest + 1
      <3>0. i \in 1..Len(w)
        BY <1>0
      <3>1. w[i] < oldest
        BY <1>4 DEF Fits
      <3>2. w[i] \in Nat
        BY <1>0, <3>0
      <3> QED
        BY <3>1, <3>2
    <2>4. ASSUME NEW i \in 1..g PROVE r[i] <= lifted
      <3>1. i \in 1..Len(r) /\ i + d \in 1..gap
        BY <1>0, <1>3, <1>6, <2>1
      <3> QED
        BY <1>3, <1>4, <3>1 DEF Fits
    <2>5. Len(w) - k = Len(r) - g
      BY <1>4, <2>1 DEF Fits
    <2> HIDE DEF g
    <2>6. Fits(w, r, k, g, oldest + 1, lifted)
      BY <2>2, <2>3, <2>4, <2>5 DEF Fits
    <2>7. Matches(w, r, oldest + 1, lifted)
      BY <2>1, <2>6 DEF Matches
    <2> QED
      BY <1>5, <2>7 DEF r
  <1>7. CASE d > gap
    <2> DEFINE n == k + (d - gap)
    <2>1. n \in 0..Len(w) /\ 0 \in 0..Len(r) /\ Len(w) - n = Len(r) - 0
      BY <1>0, <1>3, <1>4, <1>7 DEF Fits
    <2>2. ASSUME NEW i \in 1..(Len(r) - 0) PROVE w[n + i] = r[0 + i]
      <3> DEFINE j == (d - gap) + i
      <3>1. j \in 1..(Len(th) - gap) /\ k + j = n + i /\ gap + j = i + d /\ 0 + i = i /\ i \in 1..Len(r)
        BY <1>0, <1>3, <1>7
      <3>2. w[k + j] = th[gap + j]
        BY <1>4, <3>1 DEF Fits
      <3> QED
        BY <1>3, <3>1, <3>2
    <2>3. ASSUME NEW i \in 1..n PROVE w[i] < oldest + 1
      <3>1. CASE i <= k
        <4>1. i \in 1..k /\ i \in 1..Len(w)
          BY <1>0, <3>1
        <4>2. w[i] < oldest
          BY <1>4, <4>1 DEF Fits
        <4>3. w[i] \in Nat
          BY <1>0, <4>1
        <4> QED
          BY <4>2, <4>3
      <3>2. CASE i > k
        <4> DEFINE j == i - k
        <4>1. j \in 1..(Len(th) - gap) /\ k + j = i /\ gap + j \in 1..d
          BY <1>0, <1>7, <3>2
        <4>2. w[k + j] = th[gap + j]
          BY <1>4, <4>1 DEF Fits
        <4> QED
          BY <1>3, <4>1, <4>2
      <3> QED
        BY <1>0, <3>1, <3>2
    <2> HIDE DEF n
    <2>4. Fits(w, r, n, 0, oldest + 1, lifted)
      BY <2>1, <2>2, <2>3 DEF Fits
    <2>5. Matches(w, r, oldest + 1, lifted)
      BY <2>1, <2>4 DEF Matches
    <2> QED
      BY <1>5, <2>5 DEF r
  <1> QED
    BY <1>0, <1>6, <1>7

USE ThrottleAssumption DEF ThrottleAssumption

-----------------------------------------------------------------------------
(* The throttle.                                                           *)

\* A client that is tracked has a window that fits what got through of it, and
\* nothing got through lately of one that is not.
Windowed(c) ==
  IF c \in DOMAIN attempts
  THEN /\ attempts[c].last_seen <= now
       /\ Spans(through[c], now - Window, attempts[c].last_seen)
       /\ Matches(attempts[c].window, through[c], now - Window, attempts[c].locked_until - Window)
  ELSE through[c] = <<>>
Tabled ==
  /\ IsFiniteSet(DOMAIN attempts) /\ through \in [Clients -> Seq(Nat)]
  /\ \A c \in Clients : Windowed(c)

\* Of a client that is no longer remembered nothing got through lately.
LEMMA LapsedIsClean ==
  ASSUME TypeOK, Tabled, NEW c \in Clients \ Kept
  PROVE  through[c] = <<>>
  <1>1. CASE c \in DOMAIN attempts
    <2>1. /\ attempts[c].last_seen \in Nat /\ now \in Nat
          /\ ~(now - attempts[c].last_seen <= Memory)
          /\ Spans(through[c], now - Window, attempts[c].last_seen)
      BY <1>1, Typed DEF Kept, Tabled, Windowed
    <2>2. through[c] \in Seq(Nat)
      BY <2>1 DEF Spans
    <2>3. CASE Len(through[c]) = 0
      BY <2>2, <2>3, EmptySeq
    <2>4. CASE Len(through[c]) # 0
      <3>1. 1 \in 1..Len(through[c]) /\ through[c][1] \in Nat
        BY <2>2, <2>4, SeqFacts
      <3>2. now - Window <= through[c][1] /\ through[c][1] <= attempts[c].last_seen
        BY <2>1, <3>1 DEF Spans
      <3> QED
        BY <2>1, <3>1, <3>2
    <2> QED
      BY <2>3, <2>4
  <1>2. CASE c \notin DOMAIN attempts
    BY <1>2 DEF Tabled, Windowed
  <1> QED
    BY <1>1, <1>2

\* What an attempt does to the table and to what got through, beside the record
\* it leaves.
Tables(ip, gone) ==
  /\ gone \subseteq Unlocked(Kept)
  /\ gone # {} => ip \notin Kept /\ Cardinality(Kept) >= MaxTracked /\ \E c : gone = {c}
  /\ gone = {} => ip \in Kept \/ Cardinality(Kept) < MaxTracked \/ Unlocked(Kept) = {}
  /\ DOMAIN attempts' = (Kept \ gone) \cup {ip}
  /\ \A c \in (Kept \ gone) \ {ip} : attempts'[c] = attempts[c]
  /\ attempts'[ip] = Throttled(ip).record
  /\ through' = [c \in Clients |->
       (IF c \in gone THEN <<>> ELSE through[c])
         \o (IF c = ip /\ Throttled(ip).passed THEN <<now>> ELSE <<>>)]

LEMMA ChargeTables ==
  ASSUME TypeOK, Tabled, NEW ip \in Clients, Charge(ip)
  PROVE  \E gone : Tables(ip, gone)
  <1>1. PICK gone \in Oldest(ip) :
       /\ attempts' = [c \in (Kept \ gone) \cup {ip} |->
                         IF c = ip THEN Throttled(ip).record ELSE attempts[c]]
       /\ through' = [c \in Clients |->
            (IF c \in gone THEN <<>> ELSE through[c])
              \o (IF c = ip /\ Throttled(ip).passed THEN <<now>> ELSE <<>>)]
    BY DEF Charge
  <1>2. IsFiniteSet(Kept) /\ Cardinality(Kept) \in Nat
    <2>1. Kept \subseteq DOMAIN attempts
      BY DEF Kept
    <2> QED
      BY <2>1, FS_Subset, FS_CardinalityType DEF Tabled
  <1>3. /\ gone \subseteq Unlocked(Kept)
        /\ gone # {} => ip \notin Kept /\ Cardinality(Kept) >= MaxTracked /\ \E c : gone = {c}
    <2>1. CASE gone = {}
      BY <2>1
    <2>2. CASE gone # {}
      <3>1. ~(ip \in Kept) /\ ~(Cardinality(Kept) < MaxTracked)
        BY <1>1, <2>2 DEF Oldest
      <3>2. PICK c \in Unlocked(Kept) : gone = {c}
        BY <1>1, <2>2 DEF Oldest
      <3>3. Cardinality(Kept) >= MaxTracked
        BY <1>2, <3>1
      <3> QED
        BY <3>1, <3>2, <3>3
    <2> QED
      BY <2>1, <2>2
  <1>4. gone = {} => ip \in Kept \/ Cardinality(Kept) < MaxTracked \/ Unlocked(Kept) = {}
    BY <1>1 DEF Oldest
  <1>5. Tables(ip, gone)
    BY <1>1, <1>3, <1>4 DEF Tables
  <1> QED
    BY <1>5

\* A refused attempt only says when it was made.
Refuses(ip) ==
  LET r == Throttled(ip).record IN
  /\ ip \in Kept /\ attempts[ip].locked_until > now /\ ~Throttled(ip).passed
  /\ r.strikes = attempts[ip].strikes /\ r.window = attempts[ip].window
  /\ r.locked_until = attempts[ip].locked_until /\ r.last_seen = now
\* One too many in a window.
Locks(ip) ==
  LET r == Throttled(ip).record IN
  /\ ip \in Kept /\ ~(attempts[ip].locked_until > now) /\ ~Throttled(ip).passed
  /\ Len(Recent(attempts[ip].window)) >= MaxAttempts
  /\ r.strikes = attempts[ip].strikes + 1 /\ r.window = <<>>
  /\ r.locked_until = now + LockoutStep(attempts[ip].strikes + 1) /\ r.last_seen = now
Passes(ip) ==
  LET r == Throttled(ip).record IN
  /\ ip \in Kept /\ ~(attempts[ip].locked_until > now) /\ Throttled(ip).passed
  /\ Len(Recent(attempts[ip].window)) < MaxAttempts
  /\ r.strikes = attempts[ip].strikes /\ r.window = Append(Recent(attempts[ip].window), now)
  /\ r.locked_until = attempts[ip].locked_until /\ r.last_seen = now
\* The first of a client.
Enters(ip) ==
  LET r == Throttled(ip).record IN
  /\ ip \notin Kept /\ Throttled(ip).passed
  /\ r.strikes = 0 /\ r.window = Append(<<>>, now) /\ r.locked_until = 0 /\ r.last_seen = now

LEMMA ChargedIs ==
  ASSUME TypeOK, NEW before \in AttemptRecord
  PROVE  LET r == Charged(before).record  passed == Charged(before).passed IN
         \/ /\ before.locked_until > now /\ ~passed
            /\ r.strikes = before.strikes /\ r.window = before.window
            /\ r.locked_until = before.locked_until /\ r.last_seen = now
         \/ /\ ~(before.locked_until > now) /\ AtLimit(Recent(before.window)) /\ ~passed
            /\ r.strikes = before.strikes + 1 /\ r.window = <<>>
            /\ r.locked_until = now + LockoutStep(before.strikes + 1) /\ r.last_seen = now
         \/ /\ ~(before.locked_until > now) /\ ~AtLimit(Recent(before.window)) /\ passed
            /\ r.strikes = before.strikes /\ r.window = Append(Recent(before.window), now)
            /\ r.locked_until = before.locked_until /\ r.last_seen = now
  <1> DEFINE strikes == before.strikes + 1
             until == now + LockoutStep(strikes)
             kept == Append(Recent(before.window), now)
             a == [before EXCEPT !.last_seen = now]
             b == [a EXCEPT !.strikes = strikes, !.window = <<>>, !.locked_until = until]
             c == [a EXCEPT !.window = kept]
  <1>1. /\ a.last_seen = now /\ a.strikes = before.strikes
        /\ a.window = before.window /\ a.locked_until = before.locked_until
    BY DEF AttemptRecord
  <1>2. \A x, y : LET s == [a EXCEPT !.strikes = x, !.window = <<>>, !.locked_until = y] IN
          s.strikes = x /\ s.window = <<>> /\ s.locked_until = y /\ s.last_seen = now
    BY DEF AttemptRecord
  <1>3. \A w : LET s == [a EXCEPT !.window = w] IN
          /\ s.window = w /\ s.last_seen = now /\ s.strikes = before.strikes
          /\ s.locked_until = before.locked_until
    BY DEF AttemptRecord
  <1>4. Charged(before) = IF before.locked_until > now THEN [record |-> a, passed |-> FALSE]
                          ELSE IF AtLimit(Recent(before.window)) THEN [record |-> b, passed |-> FALSE]
                          ELSE [record |-> c, passed |-> TRUE]
    BY DEF Charged
  <1>5. b.strikes = strikes /\ b.window = <<>> /\ b.locked_until = until /\ b.last_seen = now
    BY <1>2
  <1>6. /\ c.window = kept /\ c.last_seen = now /\ c.strikes = before.strikes
        /\ c.locked_until = before.locked_until
    BY <1>3
  <1> HIDE DEF a, b, c
  <1> QED
    BY <1>1, <1>4, <1>5, <1>6

LEMMA ThrottledIs ==
  ASSUME TypeOK, NEW ip \in Clients
  PROVE  Refuses(ip) \/ Locks(ip) \/ Passes(ip) \/ Enters(ip)
  <1>1. CASE ip \in Kept
    <2>1. attempts[ip] \in AttemptRecord /\ Throttled(ip) = Charged(attempts[ip])
      BY <1>1 DEF Kept, TypeOK, Throttled
    <2>2. Len(Recent(attempts[ip].window)) \in Nat
      <3>1. now \in Nat /\ attempts[ip].window \in Seq(Times) /\ Times \in SUBSET Nat
            /\ now - Window \in Int
        BY <1>1, Typed DEF Kept, Times
      <3>2. Recent(attempts[ip].window) \in Seq(Times)
        BY <3>1, SinceIs DEF Recent
      <3> QED
        BY <3>2, LenProperties
    <2>3. AtLimit(Recent(attempts[ip].window)) <=> ~(Len(Recent(attempts[ip].window)) < MaxAttempts)
      BY <2>2 DEF AtLimit
    <2> DEFINE a == attempts[ip]
               w == Recent(a.window)
               r == Throttled(ip).record
               passed == Throttled(ip).passed
    <2>4. \/ /\ a.locked_until > now /\ ~passed
             /\ r.strikes = a.strikes /\ r.window = a.window
             /\ r.locked_until = a.locked_until /\ r.last_seen = now
          \/ /\ ~(a.locked_until > now) /\ AtLimit(w) /\ ~passed
             /\ r.strikes = a.strikes + 1 /\ r.window = <<>>
             /\ r.locked_until = now + LockoutStep(a.strikes + 1) /\ r.last_seen = now
          \/ /\ ~(a.locked_until > now) /\ ~AtLimit(w) /\ passed
             /\ r.strikes = a.strikes /\ r.window = Append(w, now)
             /\ r.locked_until = a.locked_until /\ r.last_seen = now
      BY <2>1, ChargedIs
    <2>5. AtLimit(w) => Len(w) >= MaxAttempts
      BY DEF AtLimit
    <2> QED
      BY <1>1, <2>3, <2>4, <2>5 DEF Refuses, Locks, Passes
  <1>2. CASE ip \notin Kept
    <2>1. Fresh \in AttemptRecord /\ Throttled(ip) = Charged(Fresh) /\ now \in Nat
      BY <1>2, FreshType, Typed DEF Throttled
    <2>2. Fresh.window = <<>> /\ Fresh.strikes = 0 /\ Fresh.locked_until = 0
      BY DEF Fresh
    <2>3. Recent(<<>>) = <<>> /\ ~AtLimit(<<>>)
      <3>1. <<>> \in Seq(Nat) /\ Len(<<>>) = 0 /\ now - Window \in Int /\ Nat \in SUBSET Nat
        BY <2>1, EmptySeq
      <3>2. Since(<<>>, now - Window) \in Seq(Nat)
            /\ \E k \in 0..Len(<<>>) : Popped(<<>>, now - Window, Since(<<>>, now - Window), k)
        BY <3>1, SinceIs
      <3>3. Len(Since(<<>>, now - Window)) = 0
        BY <3>1, <3>2 DEF Popped
      <3>4. Since(<<>>, now - Window) = <<>>
        BY <3>2, <3>3, EmptySeq
      <3> QED
        BY <3>1, <3>4 DEF Recent, AtLimit
    <2> QED
      BY <1>2, <2>1, <2>2, <2>3, ChargedIs DEF Enters
  <1> QED
    BY <1>1, <1>2

\* The steps of a lockout are as long as a window at least.
LEMMA LockoutIsLong ==
  ASSUME NEW strikes \in Nat \ {0}
  PROVE  LockoutStep(strikes) \in Nat /\ LockoutStep(strikes) >= Window
  <1>1. /\ Len(LockoutSteps) \in Nat \ {0} /\ DOMAIN LockoutSteps = 1..Len(LockoutSteps)
        /\ \A i \in 1..Len(LockoutSteps) : LockoutSteps[i] \in Nat
    BY LenProperties, ElementOfSeq, EmptySeq
  <1>2. PICK i \in 1..Len(LockoutSteps) : LockoutStep(strikes) = LockoutSteps[i]
    BY <1>1 DEF LockoutStep
  <1> QED
    BY <1>1, <1>2

\* What the attempts of ip have left of what got through of it, or of others.
LEMMA ThroughAfter ==
  ASSUME TypeOK, Tabled, NEW ip \in Clients, NEW gone, Tables(ip, gone)
  PROVE  /\ through' \in [Clients -> Seq(Nat)]
         /\ \A c \in Clients : through'[c] =
              IF c \in gone THEN <<>>
              ELSE IF c = ip /\ Throttled(ip).passed THEN Append(through[c], now) ELSE through[c]
  <1>0. now \in Nat /\ <<>> \in Seq(Nat) /\ <<now>> \in Seq(Nat) /\ ip \notin gone
    <2>1. ip \notin gone
      BY DEF Tables, Unlocked
    <2> QED
      BY <2>1, Typed, EmptySeq
  <1>1. ASSUME NEW c \in Clients
        PROVE  /\ through'[c] \in Seq(Nat)
               /\ through'[c] =
                    IF c \in gone THEN <<>>
                    ELSE IF c = ip /\ Throttled(ip).passed THEN Append(through[c], now) ELSE through[c]
    <2>1. through[c] \in Seq(Nat)
      BY DEF Tabled
    <2>2. /\ through[c] \o <<>> = through[c] /\ <<>> \o <<>> = <<>>
          /\ through[c] \o <<now>> = Append(through[c], now)
          /\ Append(through[c], now) \in Seq(Nat)
      BY <1>0, <2>1, ConcatEmptySeq, AppendIsConcat, AppendProperties
    <2>3. through'[c] = (IF c \in gone THEN <<>> ELSE through[c])
                          \o (IF c = ip /\ Throttled(ip).passed THEN <<now>> ELSE <<>>)
      BY DEF Tables
    <2>4. CASE c \in gone
      BY <1>0, <2>2, <2>3, <2>4
    <2>5. CASE c \notin gone /\ c = ip /\ Throttled(ip).passed
      BY <2>2, <2>3, <2>5
    <2>6. CASE c \notin gone /\ ~(c = ip /\ Throttled(ip).passed)
      BY <2>1, <2>2, <2>3, <2>6
    <2> QED
      BY <2>4, <2>5, <2>6
  <1>2. through' = [c \in Clients |-> through'[c]]
    BY DEF Tables
  <1> QED
    BY <1>1, <1>2

LEMMA ChargeKeeps ==
  ASSUME TypeOK, TypeOK', Tabled, NEW ip \in Clients, Charge(ip), UNCHANGED now
  PROVE  Tabled'
  <1>1. PICK gone : Tables(ip, gone)
    BY ChargeTables
  <1>2. /\ through' \in [Clients -> Seq(Nat)]
        /\ \A c \in Clients : through'[c] =
             IF c \in gone THEN <<>>
             ELSE IF c = ip /\ Throttled(ip).passed THEN Append(through[c], now) ELSE through[c]
    BY <1>1, ThroughAfter
  <1>3. DOMAIN attempts' = (Kept \ gone) \cup {ip} /\ gone \subseteq Kept /\ Kept \subseteq DOMAIN attempts
        /\ (ip \in Kept => ip \notin gone)
    BY <1>1 DEF Tables, Unlocked, Kept
  <1>4. IsFiniteSet(DOMAIN attempts')
    <2>1. IsFiniteSet(DOMAIN attempts) /\ Kept \ gone \subseteq DOMAIN attempts
      BY <1>3 DEF Tabled
    <2>2. IsFiniteSet(Kept \ gone)
      BY <2>1, FS_Subset
    <2> QED
      BY <1>3, <2>2, FS_AddElement
  <1>5. ASSUME NEW c \in Clients, c \notin DOMAIN attempts' PROVE through'[c] = <<>>
    <2>1. CASE c \in gone
      BY <1>2, <2>1
    <2>2. CASE c \notin gone
      <3>1. c \in Clients \ Kept /\ c # ip
        BY <1>3, <1>5, <2>2
      <3> QED
        BY <1>2, <2>2, <3>1, LapsedIsClean
    <2> QED
      BY <2>1, <2>2
  <1>6. ASSUME NEW c \in Clients \ {ip}, c \in DOMAIN attempts' PROVE Windowed(c)'
    <2>1. c \in (Kept \ gone) \ {ip} /\ c \in DOMAIN attempts
      BY <1>3, <1>6
    <2>2. attempts'[c] = attempts[c] /\ through'[c] = through[c]
      BY <1>1, <1>2, <2>1 DEF Tables
    <2>3. Windowed(c)
      BY DEF Tabled
    <2> QED
      BY <1>6, <2>1, <2>2, <2>3 DEF Windowed
  <1>7. Windowed(ip)'
    <2> DEFINE w == attempts[ip].window
               th == through[ip]
               lifted == attempts[ip].locked_until - Window
               oldest == now - Window
               to == attempts[ip].last_seen
               a == attempts'[ip]
    <2>0. /\ ip \in DOMAIN attempts' /\ a = Throttled(ip).record /\ ip \notin gone
          /\ now \in Nat /\ oldest \in Int /\ oldest <= now
      BY <1>1, <1>3, Typed DEF Tables, Unlocked
    <2>1. ASSUME ip \in Kept
          PROVE  /\ w \in Seq(Nat) /\ lifted \in Int /\ to \in Nat /\ to <= now
                 /\ Spans(th, oldest, to) /\ Matches(w, th, oldest, lifted)
                 /\ attempts[ip].strikes \in Nat
      <3>1. ip \in DOMAIN attempts /\ Windowed(ip)
        BY <2>1 DEF Kept, Tabled
      <3>2. w \in Seq(Times) /\ Times \subseteq Nat /\ attempts[ip].locked_until \in Nat
            /\ attempts[ip].strikes \in Nat /\ to \in Nat
        BY <3>1, Typed DEF Times
      <3>3. w \in Seq(Nat)
        BY <3>2, SeqMonotonic
      <3> QED
        BY <3>1, <3>2, <3>3 DEF Windowed
    <2>2. ASSUME NEW th2, NEW w2, NEW lifted2, through'[ip] = th2, a.window = w2,
                 a.last_seen = now, a.locked_until - Window = lifted2,
                 Spans(th2, oldest, now), Matches(w2, th2, oldest, lifted2)
          PROVE  Windowed(ip)'
      BY <2>0, <2>2 DEF Windowed
    <2>3. CASE Refuses(ip)
      <3>1. Spans(th, oldest, now)
        BY <2>0, <2>1, <2>3, SpansLater DEF Refuses
      <3>2. through'[ip] = th /\ a.window = w /\ a.last_seen = now /\ a.locked_until - Window = lifted
        BY <1>2, <2>0, <2>3 DEF Refuses
      <3> QED
        BY <2>1, <2>2, <2>3, <3>1, <3>2 DEF Refuses
    <2>4. CASE Locks(ip)
      <3> DEFINE until == now + LockoutStep(attempts[ip].strikes + 1)
      <3>1. until \in Nat /\ until >= now + Window
        <4>1. attempts[ip].strikes + 1 \in Nat \ {0}
          BY <2>1, <2>4 DEF Locks
        <4>2. PICK step \in Nat : step = LockoutStep(attempts[ip].strikes + 1) /\ step >= Window
          BY <4>1, LockoutIsLong
        <4>3. until = now + step
          BY <4>2
        <4> QED
          BY <2>0, <4>2, <4>3
      <3>2. Spans(th, oldest, now) /\ th \in Seq(Nat)
        BY <2>0, <2>1, <2>4, SpansLater DEF Locks
      <3>3. through'[ip] = th /\ a.window = <<>> /\ a.last_seen = now /\ a.locked_until = until
        BY <1>2, <2>0, <2>4 DEF Locks
      <3> HIDE DEF until
      <3>4. \A i \in 1..Len(th) : th[i] <= until - Window
        <4> SUFFICES ASSUME NEW i \in 1..Len(th) PROVE th[i] <= until - Window
          OBVIOUS
        <4>1. th[i] <= now /\ th[i] \in Nat
          BY <3>2, SeqFacts DEF Spans
        <4> QED
          BY <2>0, <3>1, <4>1
      <3>5. until - Window \in Int
        BY <3>1
      <3>6. Matches(<<>>, th, oldest, until - Window)
        BY <2>0, <3>2, <3>4, <3>5, EmptyMatches
      <3> QED
        BY <2>2, <3>2, <3>3, <3>6
    <2>5. CASE Passes(ip)
      <3>1. through'[ip] = Append(th, now) /\ a.window = Append(Since(w, oldest), now)
            /\ a.last_seen = now /\ a.locked_until - Window = lifted
        BY <1>2, <2>0, <2>5 DEF Passes, Recent
      <3>2. /\ w \in Seq(Nat) /\ lifted \in Int /\ to \in Nat /\ to <= now
            /\ Spans(th, oldest, to) /\ Matches(w, th, oldest, lifted)
        BY <2>1, <2>5 DEF Passes
      <3> HIDE DEF w, th, lifted, oldest, to
      <3>3. /\ Matches(Append(Since(w, oldest), now), Append(th, now), oldest, lifted)
            /\ Spans(Append(th, now), oldest, now)
        BY <2>0, <3>2, PassMatches
      <3> QED
        BY <2>2, <3>1, <3>3
    <2>6. CASE Enters(ip)
      <3>1. th = <<>>
        BY <2>6, LapsedIsClean DEF Enters
      <3>2. through'[ip] = Append(<<>>, now) /\ a.window = Append(<<>>, now)
            /\ a.last_seen = now /\ a.locked_until - Window = 0 - Window
        BY <1>2, <2>0, <2>6, <3>1 DEF Enters
      <3>3. <<>> \in Seq(Nat) /\ Len(<<>>) = 0 /\ 0 - Window \in Int /\ 0 \in Nat /\ 0 <= now
        BY <2>0, EmptySeq
      <3>4. Spans(<<>>, oldest, 0) /\ Matches(<<>>, <<>>, oldest, 0 - Window)
        <4>1. \A i \in 1..Len(<<>>) : <<>>[i] <= 0 - Window
          BY <3>3
        <4> QED
          BY <2>0, <3>3, <4>1, EmptySpans, EmptyMatches
      <3>5. Since(<<>>, oldest) = <<>>
        <4>1. Since(<<>>, oldest) \in Seq(Nat)
              /\ \E k \in 0..Len(<<>>) : Popped(<<>>, oldest, Since(<<>>, oldest), k)
          <5>1. Nat \in SUBSET Nat
            OBVIOUS
          <5> QED
            BY <2>0, <3>3, <5>1, SinceIs
        <4>2. Len(Since(<<>>, oldest)) = 0
          BY <3>3, <4>1 DEF Popped
        <4> QED
          BY <4>1, <4>2, EmptySeq
      <3> HIDE DEF oldest
      <3>6. /\ Matches(Append(Since(<<>>, oldest), now), Append(<<>>, now), oldest, 0 - Window)
            /\ Spans(Append(<<>>, now), oldest, now)
        BY <2>0, <3>3, <3>4, PassMatches
      <3> QED
        BY <2>2, <3>2, <3>5, <3>6
    <2> QED
      BY <2>3, <2>4, <2>5, <2>6, ThrottledIs
  <1>8. ASSUME NEW c \in Clients PROVE Windowed(c)'
    BY <1>5, <1>6, <1>7 DEF Windowed
  <1> QED
    BY <1>2, <1>4, <1>8 DEF Tabled

\* TickMatches, of a time one later.
LEMMA LaterMatches ==
  ASSUME NEW w \in Seq(Nat), NEW th, NEW oldest \in Int, NEW lifted \in Int, NEW to \in Nat,
         NEW later \in Int, later = oldest + 1,
         Matches(w, th, oldest, lifted), Spans(th, oldest, to)
  PROVE  /\ Matches(w, Since(th, later), later, lifted)
         /\ Spans(Since(th, later), later, to)
         /\ Since(th, later) \in Seq(Nat)
  BY TickMatches DEF Spans

LEMMA SinceEmpty ==
  ASSUME NEW oldest \in Int
  PROVE  Since(<<>>, oldest) = <<>>
  <1>1. Nat \in SUBSET Nat /\ <<>> \in Seq(Nat) /\ Len(<<>>) = 0
    BY EmptySeq
  <1>2. Since(<<>>, oldest) \in Seq(Nat)
        /\ \E k \in 0..Len(<<>>) : Popped(<<>>, oldest, Since(<<>>, oldest), k)
    BY <1>1, SinceIs
  <1>3. Len(Since(<<>>, oldest)) = 0
    BY <1>1, <1>2 DEF Popped
  <1> QED
    BY <1>2, <1>3, EmptySeq

LEMMA TickKeeps ==
  ASSUME TypeOK, Tabled, Tick
  PROVE  Tabled'
  <1>1. /\ now \in Nat /\ now' = now + 1 /\ now - Window \in Int /\ now' - Window \in Int
        /\ now' - Window = (now - Window) + 1 /\ attempts' = attempts
        /\ through' = [c \in Clients |-> Since(through[c], now' - Window)]
    <2>1. /\ now \in Nat /\ now' = now + 1 /\ attempts' = attempts
          /\ through' = [c \in Clients |-> Since(through[c], now' - Window)]
      BY Typed DEF Tick
    <2>2. now - Window \in Int /\ now' - Window \in Int /\ now' - Window = (now - Window) + 1
      BY <2>1
    <2> QED
      BY <2>1, <2>2
  <1>2. ASSUME NEW c \in Clients
        PROVE  Windowed(c)' /\ through'[c] \in Seq(Nat)
    <2>1. through'[c] = Since(through[c], now' - Window)
      BY <1>1
    <2>2. CASE c \in DOMAIN attempts
      <3> DEFINE w == attempts[c].window
                 lifted == attempts[c].locked_until - Window
                 to == attempts[c].last_seen
                 oldest == now - Window
                 later == now' - Window
      <3>1. w \in Seq(Times) /\ Times \subseteq Nat /\ attempts[c].locked_until \in Nat
            /\ to \in Nat
        BY <2>2, Typed DEF Times
      <3>2. w \in Seq(Nat) /\ lifted \in Int
        <4>1. w \in Seq(Nat)
          BY <3>1, SeqMonotonic
        <4>2. lifted \in Int
          BY <3>1
        <4> QED
          BY <4>1, <4>2
      <3>3. to <= now /\ Matches(w, through[c], oldest, lifted) /\ Spans(through[c], oldest, to)
        BY <2>2 DEF Tabled, Windowed
      <3>4. to <= now'
        BY <1>1, <3>1, <3>3
      <3>5. oldest \in Int /\ later \in Int /\ later = oldest + 1
        BY <1>1
      <3>6. attempts'[c] = attempts[c] /\ c \in DOMAIN attempts'
        BY <1>1, <2>2
      <3> HIDE DEF w, lifted, to, oldest, later
      <3>7. /\ Matches(w, Since(through[c], later), later, lifted)
            /\ Spans(Since(through[c], later), later, to)
            /\ Since(through[c], later) \in Seq(Nat)
        BY <3>1, <3>2, <3>3, <3>5, LaterMatches
      <3> QED
        BY <2>1, <3>4, <3>6, <3>7 DEF Windowed, w, lifted, to, later
    <2>3. CASE c \notin DOMAIN attempts
      <3>1. through[c] = <<>> /\ c \notin DOMAIN attempts'
        BY <1>1, <2>3 DEF Tabled, Windowed
      <3>2. Since(<<>>, now' - Window) = <<>> /\ <<>> \in Seq(Nat)
        BY <1>1, SinceEmpty, EmptySeq
      <3> QED
        BY <2>1, <3>1, <3>2 DEF Windowed
    <2> QED
      BY <2>2, <2>3
  <1>3. IsFiniteSet(DOMAIN attempts')
    BY <1>1 DEF Tabled
  <1>4. through' = [c \in Clients |-> through'[c]]
    BY <1>1
  <1> QED
    BY <1>2, <1>3, <1>4 DEF Tabled

LEMMA NoteKeeps ==
  ASSUME TypeOK, Tabled, NEW b \in Browsers, NoteSuccess(b), UNCHANGED now
  PROVE  Tabled'
  <1>1. PICK ip \in Clients :
          /\ attempts' = [c \in DOMAIN attempts \ {ip} |-> attempts[c]]
          /\ through' = [through EXCEPT ![ip] = <<>>]
    <2>1. call[b].peer \in Clients
      BY DEF TypeOK, Call
    <2>2. ClientIp(b, call[b].peer) \in Clients
      BY <2>1, PeerType
    <2> QED
      BY <2>2 DEF NoteSuccess
  <1>2. through \in [Clients -> Seq(Nat)] /\ <<>> \in Seq(Nat)
    BY EmptySeq DEF Tabled
  <1>3. through' \in [Clients -> Seq(Nat)]
    BY <1>1, <1>2
  <1>4. IsFiniteSet(DOMAIN attempts')
    <2>1. IsFiniteSet(DOMAIN attempts) /\ DOMAIN attempts' \subseteq DOMAIN attempts
      BY <1>1 DEF Tabled
    <2> QED
      BY <2>1, FS_Subset
  <1>5. ASSUME NEW c \in Clients PROVE Windowed(c)'
    <2>1. CASE c = ip
      BY <1>1, <1>2, <2>1 DEF Windowed
    <2>2. CASE c # ip
      <3>1. through'[c] = through[c] /\ (c \in DOMAIN attempts' <=> c \in DOMAIN attempts)
        BY <1>1, <1>2, <2>2
      <3>2. c \in DOMAIN attempts => attempts'[c] = attempts[c]
        BY <1>1, <2>2
      <3>3. Windowed(c)
        BY DEF Tabled
      <3> QED
        BY <3>1, <3>2, <3>3 DEF Windowed
    <2> QED
      BY <2>1, <2>2
  <1> QED
    BY <1>3, <1>4, <1>5 DEF Tabled

\* With nobody in the table.
LEMMA EmptyTabled ==
  /\ Init => Tabled
  /\ ManagerRestarts => Tabled'
  <1>1. <<>> \in Seq(Nat) /\ IsFiniteSet({})
    BY EmptySeq, FS_EmptySet
  <1>2. ASSUME Init PROVE Tabled
    <2>1. DOMAIN attempts = {} /\ through = [c \in Clients |-> <<>>]
      BY <1>2 DEF Init
    <2> QED
      BY <1>1, <2>1 DEF Tabled, Windowed
  <1>3. ASSUME ManagerRestarts PROVE Tabled'
    <2>1. DOMAIN attempts' = {} /\ through' = [c \in Clients |-> <<>>]
      BY <1>3 DEF ManagerRestarts
    <2> QED
      BY <1>1, <2>1 DEF Tabled, Windowed
  <1> QED
    BY <1>2, <1>3

LEMMA AskOf ==
  ASSUME TypeOK, NEW b \in Browsers, AskLogin(b) \/ AskChange(b)
  PROVE  UNCHANGED now /\ \E ip \in Clients : Charge(ip)
  <1>1. PICK peer \in Peers(b) : Charge(ClientIp(b, peer))
    BY DEF AskLogin, AskChange
  <1>2. ClientIp(b, peer) \in Clients
    BY PeerType
  <1> QED
    BY <1>1, <1>2 DEF AskLogin, AskChange

\* What a step is to the throttle.
LEMMA StepIs ==
  ASSUME TypeOK, Next
  PROVE  \/ UNCHANGED now /\ \E ip \in Clients : Charge(ip)
         \/ UNCHANGED now /\ \E b \in Browsers : NoteSuccess(b)
         \/ Tick
         \/ ManagerRestarts
         \/ UNCHANGED <<now, attempts, through>>
  <1>1. ASSUME NEW c \in Strangers, Knock(c)
        PROVE  UNCHANGED now /\ \E ip \in Clients : Charge(ip)
    BY <1>1 DEF Knock, Clients
  <1>2. ASSUME NEW b \in Browsers, LoginReply(b) \/ ChangeReply(b)
        PROVE  \/ UNCHANGED now /\ NoteSuccess(b)
               \/ UNCHANGED <<now, attempts, through>>
    BY <1>2 DEF LoginReply, ChangeReply, table
  <1> QED
    BY <1>1, <1>2, AskOf DEF Next, Handle, table, LoginKnown, Match, ChangeSet, Logout,
       LogoutAll, RotateEmpty, RotateWrite, Reset, ResetEmpty, ResetWrite, ResetEnds, ProxyMoves

LEMMA StepTabled == TypeOK /\ TypeOK' /\ Tabled /\ [Next]_vars => Tabled'
  <1> SUFFICES ASSUME TypeOK, TypeOK', Tabled, [Next]_vars PROVE Tabled'
    OBVIOUS
  <1>1. CASE UNCHANGED <<now, attempts, through>>
    BY <1>1 DEF Tabled, Windowed
  <1>2. CASE ~UNCHANGED <<now, attempts, through>>
    <2>1. Next
      BY <1>2 DEF vars
    <2> QED
      BY <1>2, <2>1, StepIs, ChargeKeeps, NoteKeeps, TickKeeps, EmptyTabled
  <1> QED
    BY <1>1, <1>2

LEMMA TabledHolds == Spec => [](TypeOK /\ Tabled)
  <1>1. Init => TypeOK /\ Tabled
    BY InitType, EmptyTabled
  <1>2. TypeOK /\ Tabled /\ [Next]_vars => TypeOK' /\ Tabled'
    BY StepType, StepTabled
  <1> QED
    BY <1>1, <1>2, PTL DEF Spec

-----------------------------------------------------------------------------
(* The table's steps are steps of Throttle.                                 *)

LEMMA StandingIs ==
  /\ DOMAIN Standing = DOMAIN attempts /\ DOMAIN Standing' = DOMAIN attempts'
  /\ \A c \in DOMAIN attempts : Standing[c] =
       [strikes |-> attempts[c].strikes, until |-> attempts[c].locked_until,
        seen |-> attempts[c].last_seen]
  /\ \A c \in DOMAIN attempts' : Standing'[c] =
       [strikes |-> attempts'[c].strikes, until |-> attempts'[c].locked_until,
        seen |-> attempts'[c].last_seen]
  BY DEF Standing

LEMMA PromisedIs ==
  ASSUME TypeOK
  PROVE  /\ Promised!Known = DOMAIN attempts
         /\ \A c : Promised!Locked(c) <=> c \in DOMAIN attempts /\ attempts[c].locked_until > now
         /\ Promised!Lapsed = DOMAIN attempts \ Kept
         /\ \A strikes : Promised!Penalty(strikes) = LockoutStep(strikes)
  <1>1. Promised!Known = DOMAIN attempts
    BY StandingIs DEF Promised!Known
  <1>2. ASSUME NEW c
        PROVE  Promised!Locked(c) <=> c \in DOMAIN attempts /\ attempts[c].locked_until > now
    BY <1>1, StandingIs DEF Promised!Locked
  <1>3. ASSUME NEW c \in DOMAIN attempts
        PROVE  now - Standing[c].seen > Memory <=> ~(now - attempts[c].last_seen <= Memory)
    <2>1. Standing[c].seen = attempts[c].last_seen
      BY StandingIs
    <2>2. attempts[c].last_seen \in Nat /\ now \in Nat
      BY Typed
    <2> QED
      BY <2>1, <2>2
  <1>4. Promised!Lapsed = DOMAIN attempts \ Kept
    BY <1>1, <1>2, <1>3 DEF Promised!Lapsed, Kept
  <1> QED
    BY <1>1, <1>2, <1>4 DEF Promised!Penalty, LockoutStep

LEMMA FreePromised ==
  /\ Init => Promised!Init
  /\ ManagerRestarts => Promised!Restart
  /\ UNCHANGED <<now, attempts, through>> => UNCHANGED Promised!vars
  <1>1. ASSUME DOMAIN attempts = {} PROVE Standing = [c \in {} |-> 0]
    BY <1>1 DEF Standing
  <1>2. ASSUME DOMAIN attempts' = {} PROVE Standing' = [c \in {} |-> 0]
    BY <1>2 DEF Standing
  <1>3. Init => DOMAIN attempts = {}
    BY DEF Init
  <1>4. ManagerRestarts => DOMAIN attempts' = {}
    BY DEF ManagerRestarts
  <1>5. Init => Promised!Init
    BY <1>1, <1>3 DEF Init, Promised!Init
  <1>6. ManagerRestarts => Promised!Restart
    BY <1>2, <1>4 DEF ManagerRestarts, Promised!Restart
  <1>7. UNCHANGED <<now, attempts, through>> => UNCHANGED Promised!vars
    BY DEF Promised!vars, Standing
  <1> QED
    BY <1>5, <1>6, <1>7

\* Throttle's operators on times and sets are those of Access.
LEMMA SameOperators ==
  /\ \A S : Promised!Cardinality(S) = Cardinality(S)
  /\ \A times, oldest : Promised!Since(times, oldest) = Since(times, oldest)
  <1>1. ASSUME NEW S PROVE Promised!Cardinality(S) = Cardinality(S)
    BY DEF Cardinality, Promised!Cardinality
  <1>2. ASSUME NEW times, NEW oldest
        PROVE  Promised!Since(times, oldest) = Since(times, oldest)
    BY DEF Since, Promised!Since, Min, Promised!Min
  <1> QED
    BY <1>1, <1>2

LEMMA TickPromised == Tick => Promised!Tick
  <1>1. Tick => Standing' = Standing
    BY DEF Tick, Standing
  <1>2. Tick => through' = [c \in Clients |-> Promised!Since(through[c], now' - Window)]
    BY SameOperators DEF Tick
  <1> QED
    BY <1>1, <1>2 DEF Tick, Promised!Tick

LEMMA NotePromised ==
  ASSUME TypeOK, NEW b \in Browsers, NoteSuccess(b), UNCHANGED now
  PROVE  \E c \in Clients : Promised!Forgive(c)
  <1>1. PICK ip \in Clients :
          /\ attempts' = [c \in DOMAIN attempts \ {ip} |-> attempts[c]]
          /\ through' = [through EXCEPT ![ip] = <<>>]
    <2>1. call[b].peer \in Clients
      BY DEF TypeOK, Call
    <2>2. ClientIp(b, call[b].peer) \in Clients
      BY <2>1, PeerType
    <2> QED
      BY <2>2 DEF NoteSuccess
  <1>2. DOMAIN attempts' = DOMAIN attempts \ {ip}
        /\ \A c \in DOMAIN attempts \ {ip} : attempts'[c] = attempts[c]
    BY <1>1
  <1>3. \A c \in DOMAIN attempts \ {ip} : Standing'[c] = Standing[c]
    BY <1>2, StandingIs
  <1>4. Standing' = [c \in DOMAIN attempts' |-> Standing'[c]]
    BY DEF Standing
  <1>5. Standing' = [c \in DOMAIN attempts \ {ip} |-> Standing[c]]
    BY <1>2, <1>3, <1>4
  <1>6. Promised!Forgive(ip)
    BY <1>1, <1>5, PromisedIs DEF Promised!Forgive
  <1> QED
    BY <1>6

\* Whom Throttle forgets in an attempt: those not heard of, and one more.
Forgotten(gone) == (DOMAIN attempts \ Kept) \cup gone

LEMMA ForgottenIs ==
  ASSUME TypeOK, Tabled, NEW ip \in Clients, NEW gone, Tables(ip, gone)
  PROVE  /\ Forgotten(gone) \in SUBSET Promised!Known
         /\ Promised!Known \ Forgotten(gone) = Kept \ gone
         /\ Promised!MayForget(Forgotten(gone), ip)
         /\ Kept \subseteq DOMAIN attempts /\ gone \subseteq Kept
         /\ IsFiniteSet(Kept) /\ Cardinality(Kept) \in Nat
  <1>1. /\ Promised!Known = DOMAIN attempts /\ Promised!Lapsed = DOMAIN attempts \ Kept
        /\ \A c : Promised!Locked(c) <=> c \in DOMAIN attempts /\ attempts[c].locked_until > now
    BY PromisedIs
  <1>2. Kept \subseteq DOMAIN attempts /\ gone \subseteq Kept /\ IsFiniteSet(DOMAIN attempts)
    BY DEF Kept, Tables, Unlocked, Tabled
  <1>3. IsFiniteSet(Kept) /\ Cardinality(Kept) \in Nat
    BY <1>2, FS_Subset, FS_CardinalityType
  <1>4. ASSUME NEW d \in Forgotten(gone) PROVE ~Promised!Locked(d)
    <2>1. CASE d \in DOMAIN attempts \ Kept
      BY <1>1, <2>1 DEF Kept
    <2>2. CASE d \in gone
      <3>1. attempts[d].locked_until <= now /\ d \in DOMAIN attempts
        BY <1>2, <2>2 DEF Tables, Unlocked
      <3>2. attempts[d].locked_until \in Nat /\ now \in Nat
        BY <3>1, Typed
      <3>3. ~(attempts[d].locked_until > now)
        BY <3>1, <3>2
      <3> QED
        BY <1>1, <3>3
    <2> QED
      BY <2>1, <2>2 DEF Forgotten
  <1>5. Promised!MayForget(Forgotten(gone), ip)
    <2>1. CASE gone = {}
      BY <1>1, <1>4, <2>1 DEF Promised!MayForget, Forgotten
    <2>2. CASE gone # {}
      <3>1. PICK c : gone = {c} /\ ip \notin Kept /\ Cardinality(Kept) >= MaxTracked
        BY <2>2 DEF Tables
      <3>2. Promised!Known \ Promised!Lapsed = Kept /\ Forgotten(gone) \ Promised!Lapsed = {c}
        BY <1>1, <1>2, <3>1 DEF Forgotten
      <3>3. Cardinality({c}) = 1
        BY FS_Singleton
      <3>4. Cardinality(Promised!Known \ Promised!Lapsed) >= MaxTracked
            /\ Cardinality(Forgotten(gone) \ Promised!Lapsed) = 1
            /\ ip \notin Promised!Known \ Promised!Lapsed
        BY <3>1, <3>2, <3>3
      <3>5. \A d \in Forgotten(gone) : ~Promised!Locked(d)
        BY <1>4
      <3> QED
        BY <3>4, <3>5, SameOperators DEF Promised!MayForget
    <2> QED
      BY <2>1, <2>2
  <1> QED
    BY <1>1, <1>2, <1>3, <1>5 DEF Forgotten

\* The table is no larger than MaxTracked, unless it was or nobody may be dropped.
LEMMA TableFits ==
  ASSUME TypeOK, Tabled, NEW ip \in Clients, NEW gone, Tables(ip, gone),
         Cardinality(DOMAIN Standing') > MaxTracked
  PROVE  \/ Cardinality(DOMAIN Standing') <= Cardinality(Promised!Known)
         \/ \A d \in Promised!Known \ Forgotten(gone) : Promised!Locked(d)
  <1>1. /\ Promised!Known = DOMAIN attempts /\ Promised!Known \ Forgotten(gone) = Kept \ gone
        /\ \A c : Promised!Locked(c) <=> c \in DOMAIN attempts /\ attempts[c].locked_until > now
        /\ Kept \subseteq DOMAIN attempts /\ gone \subseteq Kept
        /\ IsFiniteSet(Kept) /\ Cardinality(Kept) \in Nat
    BY PromisedIs, ForgottenIs
  <1>2. DOMAIN Standing' = (Kept \ gone) \cup {ip}
    BY StandingIs DEF Tables
  <1>3. /\ IsFiniteSet(DOMAIN attempts)
        /\ Cardinality(Kept) <= Cardinality(DOMAIN attempts) /\ Cardinality(DOMAIN attempts) \in Nat
    BY <1>1, FS_Subset, FS_CardinalityType DEF Tabled
  <1>4. CASE gone # {}
    <2>1. PICK c : gone = {c} /\ ip \notin Kept
      BY <1>4 DEF Tables
    <2>2. c \in Kept /\ Kept \ gone = Kept \ {c} /\ ip \notin Kept \ {c}
      BY <1>1, <2>1
    <2>3. IsFiniteSet(Kept \ {c}) /\ Cardinality(Kept \ {c}) = Cardinality(Kept) - 1
      BY <1>1, <2>2, FS_RemoveElement
    <2>4. Cardinality((Kept \ {c}) \cup {ip}) = Cardinality(Kept \ {c}) + 1
      BY <2>2, <2>3, FS_AddElement
    <2>5. Cardinality((Kept \ {c}) \cup {ip}) = Cardinality(Kept)
      BY <1>1, <2>3, <2>4
    <2>6. DOMAIN Standing' = (Kept \ {c}) \cup {ip}
      BY <1>2, <2>2
    <2>7. Cardinality(DOMAIN Standing') = Cardinality(Kept)
      BY <2>5, <2>6
    <2> QED
      BY <1>1, <1>3, <2>7
  <1>5. CASE gone = {} /\ ip \in Kept
    <2>1. DOMAIN Standing' = Kept
      BY <1>2, <1>5
    <2> QED
      BY <1>1, <1>3, <2>1
  <1>6. CASE gone = {} /\ ip \notin Kept /\ Cardinality(Kept) < MaxTracked
    <2>1. DOMAIN Standing' = Kept \cup {ip}
      BY <1>2, <1>6
    <2>2. Cardinality(Kept \cup {ip}) = Cardinality(Kept) + 1
      BY <1>1, <1>6, FS_AddElement
    <2>3. Cardinality(DOMAIN Standing') <= MaxTracked
      BY <1>1, <1>6, <2>1, <2>2
    <2>4. FALSE
      BY <1>1, <2>1, <2>2, <2>3
    <2> QED
      BY <2>4
  <1>7. CASE gone = {} /\ Unlocked(Kept) = {}
    <2>1. ASSUME NEW d \in Kept PROVE attempts[d].locked_until > now
      <3>1. attempts[d].locked_until \in Nat /\ now \in Nat
        BY <1>1, Typed
      <3>2. ~(attempts[d].locked_until <= now)
        BY <1>7 DEF Unlocked
      <3> QED
        BY <3>1, <3>2
    <2> QED
      BY <1>1, <1>7, <2>1
  <1> QED
    BY <1>4, <1>5, <1>6, <1>7 DEF Tables

\* The window of a client holds what got through of it in the last Window, but
\* for what its last lockout answered.
LEMMA RecentIs ==
  ASSUME TypeOK, Tabled, NEW ip \in DOMAIN attempts
  PROVE  \E gap \in 0..Len(through[ip]) :
           /\ Len(Recent(attempts[ip].window)) = Len(through[ip]) - gap
           /\ \A i \in 1..gap : through[ip][i] <= attempts[ip].locked_until - Window
  <1> DEFINE th == through[ip]
             w == attempts[ip].window
             lifted == attempts[ip].locked_until - Window
             oldest == now - Window
             to == attempts[ip].last_seen
  <1>1. w \in Seq(Times) /\ Times \subseteq Nat /\ attempts[ip].locked_until \in Nat
        /\ to \in Nat /\ now \in Nat
    BY Typed DEF Times
  <1>2. lifted \in Int /\ oldest \in Int
    BY <1>1
  <1>3. w \in Seq(Nat)
    BY <1>1, SeqMonotonic
  <1>4. ip \in Clients
    BY DEF TypeOK
  <1>5. Matches(w, th, oldest, lifted) /\ Spans(th, oldest, to)
    BY <1>4 DEF Tabled, Windowed
  <1>6. Since(w, oldest) = Recent(w)
    BY DEF Recent
  <1> HIDE DEF w, lifted, oldest, th, to
  <1>7. PICK gap \in 0..Len(th) : /\ Len(Since(w, oldest)) = Len(th) - gap
                                 /\ \A i \in 1..gap : th[i] <= lifted
    BY <1>1, <1>2, <1>3, <1>5, RecentCounts
  <1> QED
    BY <1>6, <1>7 DEF th, lifted, w

\* Of a client that gets through fewer than MaxAttempts did: a lockout outlives
\* the attempts it answers.
LEMMA FewPassed ==
  ASSUME TypeOK, Tabled, NEW ip \in Clients, Passes(ip)
  PROVE  Cardinality({i \in DOMAIN through[ip] : now - through[ip][i] < Window}) < MaxAttempts
  <1> DEFINE th == through[ip]
             lately == {i \in DOMAIN th : now - th[i] < Window}
  <1>1. ip \in DOMAIN attempts /\ Len(Recent(attempts[ip].window)) < MaxAttempts
        /\ ~(attempts[ip].locked_until > now)
    BY DEF Passes, Kept
  <1>2. PICK gap \in 0..Len(th) :
           /\ Len(Recent(attempts[ip].window)) = Len(th) - gap
           /\ \A i \in 1..gap : th[i] <= attempts[ip].locked_until - Window
    BY <1>1, RecentIs
  <1>3. attempts[ip].locked_until \in Nat /\ now \in Nat
    BY <1>1, Typed
  <1>4. attempts[ip].locked_until - Window <= now - Window
    BY <1>1, <1>3
  <1>5. th \in Seq(Nat)
    BY DEF Tabled
  <1>6. DOMAIN th = 1..Len(th) /\ Len(th) \in Nat /\ gap \in Nat /\ gap <= Len(th)
        /\ \A i \in 1..Len(th) : th[i] \in Nat
    BY <1>2, <1>5, SeqFacts
  <1>7. ASSUME NEW i \in lately PROVE i \in (gap + 1)..Len(th)
    <2>1. i \in 1..Len(th) /\ now - th[i] < Window /\ th[i] \in Nat
      BY <1>6
    <2>2. CASE i <= gap
      <3>1. i \in 1..gap
        BY <1>6, <2>1, <2>2
      <3>2. th[i] <= attempts[ip].locked_until - Window
        BY <1>2, <3>1
      <3>3. th[i] <= now - Window
        BY <1>3, <1>4, <2>1, <3>2
      <3> QED
        BY <1>3, <2>1, <3>3
    <2>3. CASE ~(i <= gap)
      BY <1>6, <2>1, <2>3
    <2> QED
      BY <2>2, <2>3
  <1>8. /\ IsFiniteSet((gap + 1)..Len(th))
        /\ Cardinality((gap + 1)..Len(th)) = IF gap + 1 > Len(th) THEN 0 ELSE Len(th) - gap
    <2>1. gap + 1 \in Int /\ Len(th) \in Int /\ (Len(th) - (gap + 1)) + 1 = Len(th) - gap
      BY <1>6
    <2> QED
      BY <2>1, FS_Interval
  <1>9. /\ lately \subseteq (gap + 1)..Len(th)
        /\ Cardinality(lately) <= Cardinality((gap + 1)..Len(th))
        /\ Cardinality(lately) \in Nat
    <2>1. lately \subseteq (gap + 1)..Len(th)
      BY <1>7
    <2> HIDE DEF lately
    <2>2. IsFiniteSet(lately) /\ Cardinality(lately) <= Cardinality((gap + 1)..Len(th))
      BY <1>8, <2>1, FS_Subset
    <2> QED
      BY <2>1, <2>2, FS_CardinalityType
  <1> HIDE DEF lately
  <1>10. Cardinality(lately) <= Len(th) - gap
    BY <1>6, <1>8, <1>9
  <1>11. Cardinality(lately) < MaxAttempts
    BY <1>1, <1>2, <1>6, <1>9, <1>10
  <1> QED
    BY <1>11 DEF lately, th

\* And of one that is locked out, no fewer.
LEMMA ManyPassed ==
  ASSUME TypeOK, Tabled, NEW ip \in Clients, Locks(ip)
  PROVE  Len(through[ip]) >= MaxAttempts
  <1>1. ip \in DOMAIN attempts /\ Len(Recent(attempts[ip].window)) >= MaxAttempts
    BY DEF Locks, Kept
  <1>2. PICK gap \in 0..Len(through[ip]) :
           Len(Recent(attempts[ip].window)) = Len(through[ip]) - gap
    BY <1>1, RecentIs
  <1>3. through[ip] \in Seq(Nat)
    BY DEF Tabled
  <1>4. Len(through[ip]) \in Nat /\ gap \in Nat
    BY <1>2, <1>3, SeqFacts
  <1> QED
    BY <1>1, <1>2, <1>4

\* What an attempt leaves of all the attempts that got through, as Throttle says it.
LEMMA ThroughPromised ==
  ASSUME TypeOK, Tabled, NEW ip \in Clients, NEW gone, Tables(ip, gone)
  PROVE  through' = [d \in Clients |->
           (IF d \in Forgotten(gone) THEN <<>> ELSE through[d])
             \o (IF d = ip /\ Throttled(ip).passed THEN <<now>> ELSE <<>>)]
  <1>1. ASSUME NEW d \in Clients
        PROVE  (IF d \in gone THEN <<>> ELSE through[d])
                 = (IF d \in Forgotten(gone) THEN <<>> ELSE through[d])
    <2>1. CASE d \in Kept
      BY <2>1 DEF Forgotten
    <2>2. CASE d \notin Kept
      <3>1. through[d] = <<>>
        BY <2>2, LapsedIsClean
      <3> QED
        BY <3>1
    <2> QED
      BY <2>1, <2>2
  <1> QED
    BY <1>1 DEF Tables

LEMMA ThroughRefused ==
  ASSUME TypeOK, Tabled, NEW ip \in Clients, NEW gone, Tables(ip, gone), ~Throttled(ip).passed
  PROVE  through' = [d \in Clients |-> IF d \in Forgotten(gone) THEN <<>> ELSE through[d]]
  <1>1. ASSUME NEW d \in Clients
        PROVE  through'[d] = IF d \in Forgotten(gone) THEN <<>> ELSE through[d]
    <2>1. through'[d] = (IF d \in Forgotten(gone) THEN <<>> ELSE through[d]) \o <<>>
      <3>1. through' = [c \in Clients |->
              (IF c \in Forgotten(gone) THEN <<>> ELSE through[c])
                \o (IF c = ip /\ Throttled(ip).passed THEN <<now>> ELSE <<>>)]
        BY ThroughPromised
      <3>2. through'[d] = (IF d \in Forgotten(gone) THEN <<>> ELSE through[d])
              \o (IF d = ip /\ Throttled(ip).passed THEN <<now>> ELSE <<>>)
        BY <3>1
      <3>3. (IF d = ip /\ Throttled(ip).passed THEN <<now>> ELSE <<>>) = <<>>
        OBVIOUS
      <3> QED
        BY <3>2, <3>3
    <2>2. <<>> \in Seq(Nat) /\ through[d] \in Seq(Nat)
      BY EmptySeq DEF Tabled
    <2>3. (IF d \in Forgotten(gone) THEN <<>> ELSE through[d]) \in Seq(Nat)
      BY <2>2
    <2> QED
      BY <2>1, <2>3, ConcatEmptySeq
  <1>2. through' = [d \in Clients |-> through'[d]]
    BY DEF Tables
  <1> QED
    BY <1>1, <1>2

LEMMA ChargePromised ==
  ASSUME TypeOK, Tabled, NEW ip \in Clients, Charge(ip), UNCHANGED now
  PROVE  Promised!Attempt(ip)
  <1>1. PICK gone : Tables(ip, gone)
    BY ChargeTables
  <1> DEFINE all == Forgotten(gone)
             before == IF ip \in Promised!Known \ all THEN Standing[ip]
                       ELSE [strikes |-> 0, until |-> 0, seen |-> now]
             r == Throttled(ip).record
             after == Standing'[ip]
  <1>2. /\ all \in SUBSET Promised!Known /\ Promised!Known \ all = Kept \ gone
        /\ Promised!MayForget(all, ip) /\ Kept \subseteq DOMAIN attempts /\ gone \subseteq Kept
    BY <1>1, ForgottenIs
  <1>3. DOMAIN Standing' = (Promised!Known \ all) \cup {ip}
    BY <1>1, <1>2, StandingIs DEF Tables
  <1>4. \A d \in (Promised!Known \ all) \ {ip} : Standing'[d] = Standing[d]
    <2> SUFFICES ASSUME NEW d \in (Kept \ gone) \ {ip} PROVE Standing'[d] = Standing[d]
      BY <1>2
    <2>1. attempts'[d] = attempts[d] /\ d \in DOMAIN attempts' /\ d \in DOMAIN attempts
      BY <1>1, <1>2 DEF Tables
    <2> QED
      BY <2>1, StandingIs
  <1>5. Cardinality(DOMAIN Standing') > MaxTracked
          => \/ Cardinality(DOMAIN Standing') <= Cardinality(Promised!Known)
             \/ \A d \in Promised!Known \ all : Promised!Locked(d)
    BY <1>1, TableFits
  <1>6. ip \in Promised!Known \ all <=> ip \in Kept
    BY <1>1, <1>2 DEF Tables
  <1>7. ip \in Kept => /\ ip \in DOMAIN attempts /\ ip \notin all /\ before = Standing[ip]
                       /\ Standing[ip] = [strikes |-> attempts[ip].strikes,
                            until |-> attempts[ip].locked_until, seen |-> attempts[ip].last_seen]
    BY <1>2, <1>6, StandingIs
  <1>8. after = [strikes |-> r.strikes, until |-> r.locked_until, seen |-> r.last_seen]
    BY <1>1, StandingIs DEF Tables
  <1>9. Promised!Locked(ip) <=> ip \in DOMAIN attempts /\ attempts[ip].locked_until > now
    BY PromisedIs
  <1> HIDE DEF all, before, r, after
  <1> DEFINE Done == \/ ~Promised!Locked(ip) /\ Promised!Pass(ip, all, before)
                     \/ ~Promised!Locked(ip) /\ Promised!Lock(ip, all, before)
                     \/ Promised!Refuse(ip, all)
  <1>10. ASSUME Refuses(ip) PROVE Done
    <2>1. ip \in Kept /\ Promised!Locked(ip)
      BY <1>7, <1>9, <1>10 DEF Refuses
    <2>2. through' = [d \in Clients |-> IF d \in all THEN <<>> ELSE through[d]]
      BY <1>1, <1>10, ThroughRefused DEF Refuses, all
    <2>3. after = [Standing[ip] EXCEPT !.seen = now]
      BY <1>7, <1>8, <1>10, <2>1 DEF Refuses, r
    <2>4. Promised!Refuse(ip, all)
      BY <2>1, <2>2, <2>3 DEF Promised!Refuse, after
    <2> QED
      BY <2>4
  <1>11. ASSUME Locks(ip) PROVE Done
    <2>1. ip \in Kept /\ ~Promised!Locked(ip)
      BY <1>7, <1>9, <1>11 DEF Locks
    <2>2. through' = [d \in Clients |-> IF d \in all THEN <<>> ELSE through[d]]
      BY <1>1, <1>11, ThroughRefused DEF Locks, all
    <2>3. Len(through[ip]) >= MaxAttempts
      BY <1>11, ManyPassed
    <2>4. before.strikes = attempts[ip].strikes
      BY <1>7, <2>1
    <2>5. after = [strikes |-> before.strikes + 1, seen |-> now,
                   until |-> now + Promised!Penalty(before.strikes + 1)]
      <3>1. Promised!Penalty(before.strikes + 1) = LockoutStep(attempts[ip].strikes + 1)
        BY <2>4, PromisedIs
      <3> QED
        BY <1>8, <1>11, <2>4, <3>1 DEF Locks, r
    <2>6. Promised!Lock(ip, all, before)
      BY <1>7, <2>1, <2>2, <2>3, <2>5 DEF Promised!Lock, after
    <2> QED
      BY <2>1, <2>6
  <1>12. ASSUME Passes(ip) \/ Enters(ip) PROVE Done
    <2>1. through' = [d \in Clients |->
             (IF d \in all THEN <<>> ELSE through[d]) \o (IF d = ip THEN <<now>> ELSE <<>>)]
      <3>1. Throttled(ip).passed
        BY <1>12 DEF Passes, Enters
      <3> DEFINE Was(d) == IF d \in Forgotten(gone) THEN <<>> ELSE through[d]
                 More(d) == IF d = ip /\ Throttled(ip).passed THEN <<now>> ELSE <<>>
                 Own(d) == IF d = ip THEN <<now>> ELSE <<>>
      <3>2. through' = [d \in Clients |-> Was(d) \o More(d)]
        BY <1>1, ThroughPromised
      <3>3. \A d : More(d) = Own(d)
        BY <3>1
      <3> HIDE DEF Was, More, Own
      <3>4. through' = [d \in Clients |-> Was(d) \o Own(d)]
        BY <3>2, <3>3
      <3> QED
        BY <3>4 DEF Was, Own, all
    <2>2. ~Promised!Locked(ip)
      BY <1>7, <1>9, <1>12 DEF Passes, Enters, Kept
    <2>3. after = [before EXCEPT !.seen = now]
      <3>1. CASE Passes(ip)
        <4>1. before = [strikes |-> attempts[ip].strikes, until |-> attempts[ip].locked_until,
                        seen |-> attempts[ip].last_seen]
          BY <1>7, <3>1 DEF Passes
        <4>2. after = [strikes |-> attempts[ip].strikes, until |-> attempts[ip].locked_until,
                       seen |-> now]
          BY <1>8, <3>1 DEF Passes, r
        <4> QED
          BY <4>1, <4>2
      <3>2. CASE Enters(ip)
        <4>1. before = [strikes |-> 0, until |-> 0, seen |-> now]
          BY <1>6, <3>2 DEF Enters, before
        <4>2. after = [strikes |-> 0, until |-> 0, seen |-> now]
          BY <1>8, <3>2 DEF Enters, r
        <4> QED
          BY <4>1, <4>2
      <3> QED
        BY <1>12, <3>1, <3>2
    <2>4. \/ ip \in all
          \/ Promised!Cardinality({i \in DOMAIN through[ip] : now - through[ip][i] < Window})
               < MaxAttempts
      <3>1. CASE Passes(ip)
        BY <3>1, FewPassed, SameOperators
      <3>2. CASE Enters(ip) /\ ip \in DOMAIN attempts
        BY <3>2 DEF Enters, all, Forgotten
      <3>3. CASE Enters(ip) /\ ip \notin DOMAIN attempts
        <4>1. through[ip] = <<>>
          BY <3>3 DEF Tabled, Windowed
        <4>2. DOMAIN through[ip] = {}
          BY <4>1
        <4>3. {i \in DOMAIN through[ip] : now - through[ip][i] < Window} = {}
          BY <4>2
        <4>4. Cardinality({}) = 0 /\ 0 < MaxAttempts
          BY FS_EmptySet
        <4> QED
          BY <4>3, <4>4, SameOperators
      <3> QED
        BY <1>12, <3>1, <3>2, <3>3
    <2>5. Promised!Pass(ip, all, before)
      BY <2>1, <2>3, <2>4 DEF Promised!Pass, after
    <2> QED
      BY <2>2, <2>5
  <1>13. Done
    <2> HIDE DEF Done
    <2> QED
      BY <1>10, <1>11, <1>12, ThrottledIs
  <1> QED
    BY <1>2, <1>3, <1>4, <1>5, <1>13, SameOperators DEF Promised!Attempt, before

LEMMA StepPromised ==
  ASSUME TypeOK, Tabled, [Next]_vars
  PROVE  [Promised!Next]_Promised!vars
  <1>1. CASE UNCHANGED <<now, attempts, through>>
    BY <1>1, FreePromised
  <1>2. CASE ~UNCHANGED <<now, attempts, through>>
    <2>1. Next
      BY <1>2 DEF vars
    <2> QED
      BY <1>2, <2>1, StepIs, ChargePromised, NotePromised, TickPromised, FreePromised
         DEF Promised!Next
  <1> QED
    BY <1>1, <1>2

\* The table of attempts, its windows and what it drops of both keep what Throttle
\* promises: whatever the limits, nobody gets through more often than they allow,
\* a lockout is as long as its strikes say, and ends with its time, the right
\* password or the manager.
THEOREM ThrottleImplemented == Spec => ThrottleHolds
  <1>1. Init => Promised!Init
    BY FreePromised
  <1>2. TypeOK /\ Tabled /\ [Next]_vars => [Promised!Next]_Promised!vars
    BY StepPromised
  <1> QED
    BY <1>1, <1>2, TabledHolds, PTL DEF Spec, ThrottleHolds, Promised!Spec
=============================================================================
