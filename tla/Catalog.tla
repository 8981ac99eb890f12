------------------------------ MODULE Catalog -------------------------------
(* What the releases promise whoever reads a version back later            *)
(* (services/stages.py): a template's versions are a row of contents that  *)
(* only grows at its end.  A version is never changed and never taken out; *)
(* all of them go together, with the template.                             *)
EXTENDS Naturals, Sequences

CONSTANTS
  Ids,       \* template ids
  Contents   \* what a version may hold

VARIABLE released   \* for each id the contents of its versions, v1 first

Init == released = [i \in Ids |-> <<>>]

\* Promoting a Dev template: its content is the next version.
Release(i) == \E c \in Contents : released' = [released EXCEPT ![i] = Append(@, c)]

\* An import puts a Prod template where none is, with all its versions.
Restore(i) ==
  /\ released[i] = <<>>
  /\ \E first, last \in Contents : released' = [released EXCEPT ![i] = <<first, last>>]

\* Deleting the template.
Drop(i) == released' = [released EXCEPT ![i] = <<>>]

\* Most steps of those who keep the versions change none.
Next == /\ released' # released
        /\ \E i \in Ids : Release(i) \/ Restore(i) \/ Drop(i)

Spec == Init /\ [][Next]_released
=============================================================================
