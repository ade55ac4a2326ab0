----------------------------- MODULE ClaimLife ------------------------------
(***************************************************************************)
(* What the claim store promises about one claim's life, whatever the      *)
(* workers do: a claim is asserted once, at an instant it keeps; it stops  *)
(* being believed once; nothing is deleted and nothing comes back.  It     *)
(* stops either with nothing in its place, or folded onto a claim of the   *)
(* same statement that has been asserted and precedes it, and then it      *)
(* keeps that successor for good.                                          *)
(***************************************************************************)
EXTENDS Integers

CONSTANTS Ids, Statements, NULL

VARIABLES asserted,  \* what was asserted: id -> statement and instant
          believed,  \* identifiers still believed
          successor  \* id -> the claim it was folded onto

lifeVars == <<asserted, believed, successor>>

Precedes(a, b) ==
    \/ asserted[a].at < asserted[b].at
    \/ asserted[a].at = asserted[b].at /\ a < b

LifeInit ==
    /\ asserted = [i \in {} |-> NULL]
    /\ believed = {}
    /\ successor = [i \in {} |-> NULL]

Assert(i) ==
    /\ i \notin DOMAIN asserted
    /\ DOMAIN asserted' = DOMAIN asserted \cup {i}
    /\ asserted'[i] \in [statement : Statements, at : Nat]
    /\ \A j \in DOMAIN asserted : asserted'[j] = asserted[j]
    /\ believed' = believed \cup {i}
    /\ UNCHANGED successor

FoldOnto(i, j) ==
    /\ i \in believed
    /\ j \in DOMAIN asserted
    /\ asserted[j].statement = asserted[i].statement
    /\ Precedes(j, i)
    /\ believed' = believed \ {i}
    /\ successor' = [k \in DOMAIN successor \cup {i} |->
                        IF k = i THEN j ELSE successor[k]]
    /\ UNCHANGED asserted

StopBelieving(S) ==
    /\ S \subseteq believed
    /\ believed' = believed \ S
    /\ UNCHANGED <<asserted, successor>>

LifeNext ==
    \/ \E i \in Ids : Assert(i)
    \/ \E i, j \in Ids : FoldOnto(i, j)
    \/ \E S \in SUBSET Ids : StopBelieving(S)

LifeSpec == LifeInit /\ [][LifeNext]_lifeVars
=============================================================================
