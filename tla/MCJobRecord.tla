------------------------------- MODULE MCJobRecord -------------------------------
(* JobRecord with two contacts, two users and few roles. *)
EXTENDS JobRecord, TLC

CONSTANTS c1, c2, u1, u2, s1, s2, r1, r2

\* A primary recruiter who also sells, and primary sales.
MCGiven == {{"S", "R", "PR"}, {"S", "PS"}}

Symmetry ==
  Permutations(HasContact) \cup Permutations(Contacts) \cup Permutations(Statuses)

\* One role: for the run about the contacts.
MCRecruiter == {{"R"}}

=============================================================================
