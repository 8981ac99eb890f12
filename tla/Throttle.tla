------------------------------ MODULE Throttle ------------------------------
(* What the login throttle of auth.py promises its clients, whatever the   *)
(* table it keeps: how many attempts get through in a window, when and for *)
(* how long a client is locked out, and what may lift a lockout.  Access   *)
(* implements it.                                                           *)
EXTENDS Windows

CONSTANTS Clients, Window, MaxAttempts, LockoutSteps, Memory, MaxTracked

VARIABLES now,
          standing,  \* of each client remembered: strikes, lockout, last attempt
          through    \* when each client's attempts got through, Window back

vars == <<now, standing, through>>

Known == DOMAIN standing
Locked(c) == c \in Known /\ standing[c].until > now
Strikes(c) == IF c \in Known THEN standing[c].strikes ELSE 0

Penalty(strikes) ==
  LockoutSteps[IF strikes < Len(LockoutSteps) THEN strikes ELSE Len(LockoutSteps)]

Init ==
  /\ now = 0
  /\ standing = [c \in {} |-> 0]
  /\ through = [c \in Clients |-> <<>>]

\* A client not heard of for longer than Memory is forgotten, and one more when
\* there are too many; never one that is locked out.
Lapsed == {c \in Known : ~Locked(c) /\ now - standing[c].seen > Memory}
MayForget(gone, c) ==
  /\ \A d \in gone : ~Locked(d)
  /\ \/ gone \subseteq Lapsed
     \/ /\ c \notin Known \ Lapsed /\ Cardinality(Known \ Lapsed) >= MaxTracked
        /\ Cardinality(gone \ Lapsed) = 1

\* An attempt of c that is let through: fewer than MaxAttempts were in Window.
Pass(c, gone, before) ==
  /\ \/ c \in gone
     \/ Cardinality({i \in DOMAIN through[c] : now - through[c][i] < Window})
          < MaxAttempts
  /\ through' = [d \in Clients |->
                   (IF d \in gone THEN <<>> ELSE through[d])
                     \o (IF d = c THEN <<now>> ELSE <<>>)]
  /\ standing'[c] = [before EXCEPT !.seen = now]

\* One that locks it out: one step longer than its last, and only after
\* MaxAttempts got through.
Lock(c, gone, before) ==
  /\ c \notin gone /\ Len(through[c]) >= MaxAttempts
  /\ through' = [d \in Clients |-> IF d \in gone THEN <<>> ELSE through[d]]
  /\ standing'[c] = [strikes |-> before.strikes + 1, seen |-> now,
                     until |-> now + Penalty(before.strikes + 1)]

\* One of a client that is locked out.
Refuse(c, gone) ==
  /\ Locked(c)
  /\ through' = [d \in Clients |-> IF d \in gone THEN <<>> ELSE through[d]]
  /\ standing'[c] = [standing[c] EXCEPT !.seen = now]

\* The table grows past MaxTracked only when there is nobody it may forget.
Attempt(c) ==
  \E gone \in SUBSET Known :
    /\ MayForget(gone, c) /\ UNCHANGED now
    /\ DOMAIN standing' = (Known \ gone) \cup {c}
    /\ \A d \in (Known \ gone) \ {c} : standing'[d] = standing[d]
    /\ Cardinality(DOMAIN standing') > MaxTracked
         => \/ Cardinality(DOMAIN standing') <= Cardinality(Known)
            \/ \A d \in Known \ gone : Locked(d)
    /\ LET before == IF c \in Known \ gone THEN standing[c]
                     ELSE [strikes |-> 0, until |-> 0, seen |-> now]
       IN  \/ ~Locked(c) /\ Pass(c, gone, before)
           \/ ~Locked(c) /\ Lock(c, gone, before)
           \/ Refuse(c, gone)

\* The right password, and nothing else, clears a client's standing.
Forgive(c) ==
  /\ standing' = [d \in Known \ {c} |-> standing[d]]
  /\ through' = [through EXCEPT ![c] = <<>>]
  /\ UNCHANGED now

Tick ==
  /\ now' = now + 1
  /\ through' = [c \in Clients |-> Since(through[c], now' - Window)]
  /\ UNCHANGED standing

\* All of it is in memory.
Restart ==
  /\ standing' = [c \in {} |-> 0]
  /\ through' = [c \in Clients |-> <<>>]
  /\ UNCHANGED now

Next == (\E c \in Clients : Attempt(c) \/ Forgive(c)) \/ Tick \/ Restart

Spec == Init /\ [][Next]_vars
=============================================================================
