------------------------------- MODULE Limit -------------------------------
(***************************************************************************)
(* The usage-limit decisions of internal/limit: pure functions from a      *)
(* counter and the resolved policy to a decision.  The counters come from  *)
(* the store (see ClaimStore and Curate); nothing here reads state.        *)
(*                                                                         *)
(* A non-positive ceiling disables its control, exactly as in the source.  *)
(* CRED_PRUNE_AGGRESSIVENESS is a float; here it is a percentage, so 0.5   *)
(* is 50.                                                                  *)
(***************************************************************************)
EXTENDS Integers

\* Remaining headroom of a disabled control.
Unlimited == -1

\* Mutant: one operation too many is allowed.
AtMostLate(inWindow, ceiling) ==
    IF ceiling <= 0 \/ ceiling - inWindow >= 0
    THEN [allowed |-> TRUE, remaining |-> ceiling - inWindow]
    ELSE [allowed |-> FALSE, remaining |-> 0]

\* The shared "count strictly below ceiling" decision.  At the ceiling the
\* next operation is denied; one below, it is allowed with 1 remaining.
AtMost(inWindow, ceiling) ==
    IF ceiling <= 0 THEN [allowed |-> TRUE, remaining |-> Unlimited]
    ELSE IF ceiling - inWindow <= 0 THEN [allowed |-> FALSE, remaining |-> 0]
    ELSE [allowed |-> TRUE, remaining |-> ceiling - inWindow]

Contribution(accepted, quota) == AtMost(accepted, quota)

RecallRate(recalls, rate) == AtMost(recalls, rate)

\* Only failures are counted: who logs in correctly never meets this ceiling.
LoginAttempts(failed, maxAttempts) == AtMost(failed, maxAttempts)

\* The package limit a caller gets, whatever it asked for.
PackageCap(asked, maxClaims) ==
    IF maxClaims > 0 /\ asked > maxClaims THEN maxClaims ELSE asked

\* Either the call ceiling or the token ceiling binds; the call ceiling is the
\* one whose headroom is reported.
Cost(calls, tokens, maxCalls, maxTokens) ==
    IF AtMost(calls, maxCalls).allowed /\ maxTokens > 0 /\ tokens >= maxTokens
    THEN [allowed |-> FALSE, remaining |-> 0]
    ELSE AtMost(calls, maxCalls)

\* An event is in the window iff it is strictly later than the window's start.
WindowStart(now, window) == now - window
InWindow(at, now, window) == at > WindowStart(now, window)

\* math.Ceil of over * aggressiveness.
Headroom(over, percent) == (over * percent + 99) \div 100

\* Mutant: the headroom is cut and the overage is not.
PruneTargetShort(live, ceiling, percent) ==
    LET over == live - ceiling
    IN  IF ceiling <= 0 \/ over <= 0 THEN 0 ELSE Headroom(over, percent)

\* How many of a scope's live claims a prune pass expires.
PruneTarget(live, ceiling, percent) ==
    LET over == live - ceiling
        cut  == over + Headroom(over, percent)
    IN  IF ceiling <= 0 \/ over <= 0 THEN 0
        ELSE IF cut > live THEN live ELSE cut
=============================================================================
