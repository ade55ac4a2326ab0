------------------------------ MODULE Identity ------------------------------
(***************************************************************************)
(* Accounts, sessions and invites of the console (internal/api over        *)
(* internal/store/pg): concurrent requests, each a sequence of statements  *)
(* that commit by themselves.  An account and an invite are known by their *)
(* place in the order they were inserted; a token is its invite or its     *)
(* session, for nobody else holds it.  Passwords are right or wrong.       *)
(***************************************************************************)
EXTENDS Integers, FiniteSets, Sequences, Limit

CONSTANTS Requests,         \* handlers at work at one time
          Emails,
          InviteLifetime, SessionLifetime,
          MaxLoginAttempts, LoginWindow,
          MaxAccounts, MaxInvites, MaxSessions, MaxLogged,  \* bounds: rows
          MaxFaults,        \* bound: statements that fail, handlers that die
          MaxClock          \* bound: the last instant a clock shows

ASSUME IdentityAssumption ==
    /\ IsFiniteSet(Requests)
    /\ InviteLifetime \in Nat \ {0} /\ SessionLifetime \in Nat \ {0}
    /\ MaxLoginAttempts \in Int /\ LoginWindow \in Nat
    /\ MaxAccounts \in Nat /\ MaxInvites \in Nat /\ MaxSessions \in Nat /\ MaxLogged \in Nat
    /\ MaxFaults \in Nat /\ MaxClock \in Nat

VARIABLES accounts,  \* user_credentials, in the order they were created
          invites,   \* in the order they were created
          sessions,  \* [account, expiresAt]
          attempts,  \* the failed rows of login_attempts; no query reads the others
          request,   \* per handler: where it is and what it holds
          clock, faults

store == <<accounts, invites, sessions, attempts>>
vars == <<store, request, clock, faults>>

Nobody == 0  \* no account, or no invite

\* invite remembers which invitation an account redeemed.
Account == [email : Emails, role : {"admin", "member"}, invitedBy : Nat, invite : Nat]

\* usedAt and revokedAt are 0 until then, so instants start at 1.
Invite == [email : Emails, role : {"admin", "member"}, invitedBy : Nat,
           expiresAt : Nat, usedAt : Nat, revokedAt : Nat]

Quiet == [pc |-> "idle", now |-> 0, email |-> "", invite |-> Nobody, account |-> Nobody]

At(r, pc) == request[r].pc = pc
Become(r, state) == request' = [request EXCEPT ![r] = state]
Respond(r) == Become(r, Quiet)

Instants == {t \in {clock, clock + 1} : t <= MaxClock}
ReadClock(t) == t \in Instants /\ clock' = t

HasAccount(e) == \E a \in DOMAIN accounts : accounts[a].email = e

-----------------------------------------------------------------------------
(* Registration *)

UserCount == Len(accounts)

\* Registration is open until there is an account.
BeginRegister(r) ==
    /\ At(r, "idle") /\ UserCount = 0
    /\ \E e \in Emails : Become(r, [Quiet EXCEPT !.pc = "create", !.email = e])
    /\ UNCHANGED <<store, clock, faults>>

Created(account) ==
    /\ Len(accounts) < MaxAccounts
    /\ accounts' = Append(accounts, account)

\* Mutant: the index keeps one account per email and nothing more.
BootstrapByEmail(e) == ~HasAccount(e)

\* user_credentials_one_bootstrap and the unique email.
BootstrapFree(e) ==
    ~HasAccount(e) /\ \A a \in DOMAIN accounts : accounts[a].invitedBy # Nobody

\* The first account is an administrator whatever was asked; who loses the race
\* finds registration closed.
CreateUser(r) ==
    /\ At(r, "create")
    /\ LET e == request[r].email
       IN  IF BootstrapFree(e)
           THEN /\ Created([email |-> e, role |-> "admin", invitedBy |-> Nobody,
                            invite |-> Nobody])
                /\ Become(r, [Quiet EXCEPT !.pc = "session", !.account = Len(accounts) + 1])
           ELSE Respond(r) /\ UNCHANGED accounts
    /\ UNCHANGED <<invites, sessions, attempts, clock, faults>>

BeginRedeem(r) ==
    /\ At(r, "idle")
    /\ \E now \in Instants, k \in DOMAIN invites, e \in Emails :
          /\ ReadClock(now)
          /\ Become(r, [Quiet EXCEPT !.pc = "claim", !.now = now, !.email = e, !.invite = k])
    /\ UNCHANGED <<store, faults>>

\* Mutant: a revoked invite is only hidden from the list.
RedeemableUnrevoked(k, e, now) ==
    invites[k].email = e /\ invites[k].usedAt = 0 /\ invites[k].expiresAt > now



\* Mutant: an invite is redeemed until it expires.
RedeemableAgain(k, e, now) ==
    invites[k].email = e /\ invites[k].revokedAt = 0 /\ invites[k].expiresAt > now

\* What the team page lists as still redeemable.
PendingInvites(now) ==
    {k \in DOMAIN invites : /\ invites[k].usedAt = 0 /\ invites[k].revokedAt = 0
                            /\ invites[k].expiresAt > now}

\* The WHERE clause that claims an invite: pending, and for this email.
Redeemable(k, e, now) ==
    invites[k].email = e /\ k \in PendingInvites(now)

\* Mutant: the invite is marked before its email is looked at.
ClaimInviteFirst(r) ==
    /\ At(r, "claim")
    /\ LET k == request[r].invite
       IN  IF Redeemable(k, invites[k].email, request[r].now)
           THEN /\ invites' = [invites EXCEPT ![k].usedAt = request[r].now]
                /\ Become(r, IF invites[k].email = request[r].email
                             THEN [request[r] EXCEPT !.pc = "createInvited"] ELSE Quiet)
           ELSE Respond(r) /\ UNCHANGED invites
    /\ UNCHANGED <<accounts, sessions, attempts, clock, faults>>

\* One UPDATE: of several redemptions one finds the row.
ClaimInvite(r) ==
    /\ At(r, "claim")
    /\ LET k == request[r].invite
       IN  IF Redeemable(k, request[r].email, request[r].now)
           THEN /\ invites' = [invites EXCEPT ![k].usedAt = request[r].now]
                /\ Become(r, [request[r] EXCEPT !.pc = "createInvited"])
           ELSE Respond(r) /\ UNCHANGED invites
    /\ UNCHANGED <<accounts, sessions, attempts, clock, faults>>

\* Mutant: the handler answers that the email is taken and goes on.
CreateInvitedUserGoesOn(r) ==
    /\ At(r, "createInvited")
    /\ LET k == request[r].invite
       IN  IF ~HasAccount(request[r].email)
           THEN Created([email |-> request[r].email, role |-> invites[k].role,
                         invitedBy |-> invites[k].invitedBy, invite |-> k])
           ELSE UNCHANGED accounts
    /\ Become(r, [Quiet EXCEPT !.pc = "session", !.account = Len(accounts) + 1])
    /\ UNCHANGED <<invites, sessions, attempts, clock, faults>>

\* A transaction of its own: an email that is taken leaves the invite used.
CreateInvitedUser(r) ==
    /\ At(r, "createInvited")
    /\ LET k == request[r].invite
       IN  IF ~HasAccount(request[r].email)
           THEN /\ Created([email |-> request[r].email, role |-> invites[k].role,
                            invitedBy |-> invites[k].invitedBy, invite |-> k])
                /\ Become(r, [Quiet EXCEPT !.pc = "session", !.account = Len(accounts) + 1])
           ELSE Respond(r) /\ UNCHANGED accounts
    /\ UNCHANGED <<invites, sessions, attempts, clock, faults>>

-----------------------------------------------------------------------------
(* Sessions *)

CreateSession(a, expiresAt) ==
    /\ Cardinality(sessions) < MaxSessions
    /\ sessions' = sessions \cup {[account |-> a, expiresAt |-> expiresAt]}

\* The accounts that hold a session that has not expired.
SessionPrincipal(now) == {s.account : s \in {x \in sessions : x.expiresAt > now}}

DeleteSession(s) == sessions' = sessions \ {s}

\* The rest of register and of login.
StartSession(r) ==
    /\ At(r, "session")
    /\ \E now \in Instants :
          /\ ReadClock(now)
          /\ CreateSession(request[r].account, now + SessionLifetime)
    /\ Respond(r)
    /\ UNCHANGED <<accounts, invites, attempts, faults>>

BeginLogin(r) ==
    /\ At(r, "idle")
    /\ \E now \in Instants, e \in Emails :
          ReadClock(now) /\ Become(r, [Quiet EXCEPT !.pc = "count", !.now = now, !.email = e])
    /\ UNCHANGED <<store, faults>>

FailedLoginsInWindow(e, since) ==
    Cardinality({k \in DOMAIN attempts :
        attempts[k].email = e /\ attempts[k].at > since})

\* Before the slow comparison, and without holding a place for its outcome.
CheckAttempts(r) ==
    /\ At(r, "count")
    /\ LET failed == FailedLoginsInWindow(request[r].email,
                         WindowStart(request[r].now, LoginWindow))
       IN  IF LoginAttempts(failed, MaxLoginAttempts).allowed
           THEN Become(r, [request[r] EXCEPT !.pc = "compare"]) ELSE Respond(r)
    /\ UNCHANGED <<store, clock, faults>>

\* The account with this email, if there is one.
CredentialsByEmail(e) == {a \in DOMAIN accounts : accounts[a].email = e}

\* The comparison with the stored hash; an unknown email compares as wrong.
Compare(r) ==
    /\ At(r, "compare")
    /\ \/ Become(r, [request[r] EXCEPT !.pc = "record"])
       \/ \E a \in CredentialsByEmail(request[r].email) :
             Become(r, [request[r] EXCEPT !.pc = "record", !.account = a])
    /\ UNCHANGED <<store, clock, faults>>

LogAttempt(e, at) ==
    /\ Len(attempts) < MaxLogged
    /\ attempts' = Append(attempts, [email |-> e, at |-> at])

\* Recorded under the instant the login began; no session without the record.
RecordLoginAttempt(r) ==
    /\ At(r, "record")
    /\ IF request[r].account = Nobody
       THEN LogAttempt(request[r].email, request[r].now) /\ Respond(r)
       ELSE /\ Become(r, [Quiet EXCEPT !.pc = "session", !.account = request[r].account])
            /\ UNCHANGED attempts
    /\ UNCHANGED <<accounts, invites, sessions, clock, faults>>

Logout(r) ==
    /\ At(r, "idle")
    /\ \E s \in sessions : DeleteSession(s)
    /\ UNCHANGED <<accounts, invites, attempts, request, clock, faults>>

-----------------------------------------------------------------------------
(* The team pages *)

\* A principal without an account has no role.
RoleForPrincipal(a) == IF a \in DOMAIN accounts THEN accounts[a].role ELSE "none"

\* authenticate and requireAdmin: a session that has not expired, or the
\* principal a caller without one acts as, by header or configuration.
Acting(a, now) ==
    /\ a \in SessionPrincipal(now) \cup DOMAIN accounts
    /\ RoleForPrincipal(a) = "admin"

BeginAdmin(r, pc) ==
    /\ At(r, "idle")
    /\ \E now \in Instants, a \in DOMAIN accounts :
          /\ ReadClock(now) /\ Acting(a, now)
          /\ Become(r, [Quiet EXCEPT !.pc = pc, !.account = a])
    /\ UNCHANGED <<store, faults>>

InsertInvite(e, role, by, expiresAt) ==
    /\ Len(invites) < MaxInvites
    /\ invites' = Append(invites, [email |-> e, role |-> role, invitedBy |-> by,
           expiresAt |-> expiresAt, usedAt |-> 0, revokedAt |-> 0])

CreateInvite(r) ==
    /\ At(r, "invite")
    /\ \E now \in Instants, e \in Emails, role \in {"admin", "member"} :
          /\ ReadClock(now)
          /\ InsertInvite(e, role, request[r].account, now + InviteLifetime)
    /\ Respond(r)
    /\ UNCHANGED <<accounts, sessions, attempts, faults>>

MarkRevoked(k, now) == invites' = [invites EXCEPT ![k].revokedAt = now]

\* By identifier, whatever became of the invite; an unknown one is no error.
RevokeInvite(r) ==
    /\ At(r, "revoke")
    /\ \E now \in Instants :
          /\ ReadClock(now)
          /\ \/ UNCHANGED invites
             \/ \E k \in DOMAIN invites : MarkRevoked(k, now)
    /\ Respond(r)
    /\ UNCHANGED <<accounts, sessions, attempts, faults>>

\* A statement fails or the process dies: what was committed stays.
RequestFails(r) ==
    /\ ~At(r, "idle")
    /\ faults < MaxFaults /\ faults' = faults + 1
    /\ Respond(r)
    /\ UNCHANGED <<store, clock>>

-----------------------------------------------------------------------------
Init ==
    /\ accounts = <<>> /\ invites = <<>> /\ sessions = {} /\ attempts = <<>>
    /\ request = [r \in Requests |-> Quiet]
    /\ clock = 1 /\ faults = 0

\* A request that waits for a row beyond the bounds is left to wait.
Full ==
    /\ \/ Len(accounts) = MaxAccounts \/ Len(invites) = MaxInvites
       \/ Cardinality(sessions) = MaxSessions \/ Len(attempts) = MaxLogged
    /\ UNCHANGED vars

Next ==
    \/ \E r \in Requests :
          \/ BeginRegister(r) \/ CreateUser(r)
          \/ BeginRedeem(r) \/ ClaimInvite(r) \/ CreateInvitedUser(r)
          \/ StartSession(r) \/ Logout(r)
          \/ BeginLogin(r) \/ CheckAttempts(r) \/ Compare(r) \/ RecordLoginAttempt(r)
          \/ BeginAdmin(r, "invite") \/ CreateInvite(r)
          \/ BeginAdmin(r, "revoke") \/ RevokeInvite(r)
          \/ RequestFails(r)
    \/ Full

Spec == Init /\ [][Next]_vars

-----------------------------------------------------------------------------
TypeOK ==
    /\ accounts \in Seq(Account) /\ invites \in Seq(Invite)
    /\ \A s \in sessions : s.account \in DOMAIN accounts /\ s.expiresAt \in Nat
    /\ \A k \in DOMAIN attempts : attempts[k].email \in Emails /\ attempts[k].at \in 1..clock
    /\ \A r \in Requests : /\ request[r].account \in 0..Len(accounts)
                           /\ request[r].invite \in 0..Len(invites)
    /\ clock \in Nat /\ faults \in Nat

\* Whoever can read the console was let in: the first account is the one
\* administrator nobody invited, and every other was invited by an administrator
\* before it and has its invite's role, however registrations race.
OneFounder ==
    \A a \in DOMAIN accounts :
        LET by == accounts[a].invitedBy
        IN  IF a = 1 THEN by = Nobody /\ accounts[a].role = "admin"
            ELSE by \in 1..(a - 1) /\ accounts[by].role = "admin"

\* An invite is worth one account, its own: of the requests with one token one
\* at most gets past the claim, also before it has its account, and a token that
\* is sent with another email or has expired gets nothing.
InviteRedeemedOnce ==
    /\ \A a \in 2..Len(accounts) :
          LET k == accounts[a].invite
          IN  /\ k \in DOMAIN invites
              /\ invites[k].usedAt # 0 /\ invites[k].usedAt < invites[k].expiresAt
              /\ accounts[a].email = invites[k].email /\ accounts[a].role = invites[k].role
              /\ \A b \in (2..Len(accounts)) \ {a} : accounts[b].invite # k
    /\ \A r \in Requests : At(r, "createInvited") =>
          LET k == request[r].invite
          IN  /\ \A a \in 2..Len(accounts) : accounts[a].invite # k
              /\ \A q \in Requests \ {r} : ~(At(q, "createInvited") /\ request[q].invite = k)

\* The invites that are spent although who was invited has no account and no
\* request is about to create it.
SpentInVain ==
    {k \in DOMAIN invites :
        /\ invites[k].usedAt # 0 /\ ~HasAccount(invites[k].email)
        /\ \A r \in Requests : ~(At(r, "createInvited") /\ request[r].invite = k)}

\* An invite that is spent bought an account, is about to, or was in vain because
\* the email had one or because a request failed between its two transactions,
\* and each such failure costs one invite.
SpentInviteIsAccountedFor == Cardinality(SpentInVain) <= faults

\* What is revoked before it is redeemed is never redeemed, also by a request
\* that was already under way.
RevocationHolds ==
    [][\A k \in DOMAIN invites :
          (invites[k].revokedAt # 0 /\ invites[k].usedAt = 0) => invites'[k].usedAt = 0]_vars

\* The comparison is slow and happens between the count and the record, so
\* concurrent logins overshoot the ceiling together, by no more than the one
\* attempt each has in hand.
LoginOvershootBounded ==
    \A e \in Emails :
        FailedLoginsInWindow(e, WindowStart(clock, LoginWindow))
            <= MaxLoginAttempts - 1 + Cardinality(Requests)
=============================================================================
