------------------------------ MODULE MCCurate ------------------------------
(* Instances of Curate for TLC: the captures, what they yield and who made *)
(* them.  The .cfg files pick one of each and set the limits.              *)
EXTENDS Curate, TLC

CONSTANTS s1, s2, s3, p1, repo, attested, c1, c2, c3, k1, k2, w1, w2

OnePrincipal == {p1}
TwoScopes == {repo, attested}

SameSource == [c \in Captures |-> p1]
SameScope == [c \in Captures |-> repo]

\* Every capture says the same thing, once.
AlwaysSame == [c \in Captures |-> {<<s1>>}]

\* One source repeats itself, so three claims say the same thing.
Echo == [c \in Captures |-> IF c = c1 THEN {<<s1, s1>>} ELSE {<<s1>>}]

Pairs == [c \in Captures |-> {<<s1, s2>>}]

Distinct == [c \in Captures |-> CASE c = c1 -> {<<s1>>} [] c = c2 -> {<<s2>>}
                                   [] OTHER -> {<<s3>>}]

Ranked == [s \in Statements |-> IF s = s1 THEN 5 ELSE 9]

(* Every capture is already enqueued: the workers face the full queue. *)
BackloggedInit ==
    /\ claims = [i \in {} |-> NULL]
    /\ captured = Captures
    /\ queue = {NominateJob(c) : c \in Captures}
    /\ worker = [w \in Workers |-> Idle]
    /\ client = [c \in Clients |-> NoClient]
    /\ ledger = {} /\ clock = 0 /\ faults = 0

BackloggedSpec == BackloggedInit /\ [][Next]_vars
FairBackloggedSpec == BackloggedSpec /\ Fairness

WorkerSymmetry == Permutations(Workers)
=============================================================================
