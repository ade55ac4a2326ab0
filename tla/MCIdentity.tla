----------------------------- MODULE MCIdentity -----------------------------
(* Identity for TLC. *)
EXTENDS Identity, TLC

CONSTANTS h1, h2,       \* handlers
          ann, bob, cyd \* emails

Symmetry == Permutations(Requests) \cup Permutations(Emails)

\* Bound: the rows, the failures and twice the ticks of a behaviour, together.
MaxTogether == 5

Bounded ==
    Len(accounts) + Len(invites) + Len(attempts) + Cardinality(sessions)
        + faults + 2 * (clock - 1) <= MaxTogether
=============================================================================
