----------------------------- MODULE MCAccess -----------------------------
(* Access for TLC, twice: one browser and strangers at the throttle, with  *)
(* limits small enough for the last lockout step, the end of a strike's    *)
(* memory and a full table; and two browsers at the password.               *)
EXTENDS Access, TLC

CONSTANTS b1, b2, s1, p1, p2, env, gui, none

TwoSteps == <<1, 2>>
OneBrowser == {b1}
TwoBrowsers == {b1, b2}
OneStranger == {s1}
TwoAddrs == {p1, p2}
OneAddr == {p1}
OnePassword == {env}
TwoPasswords == {env, gui}

ThrottleLimits == [requests |-> 3, knocks |-> 9, faults |-> 1]
SessionLimits == [requests |-> 4, knocks |-> 0, faults |-> 1]
=============================================================================
