--------------------------- MODULE IdentityProofs ---------------------------
(* Theorems about accounts, sessions and invites, for any number of requests *)
(* at work, any emails, and without the bounds of the runs.                  *)
EXTENDS Identity, Counting, SequenceTheorems

-----------------------------------------------------------------------------
(* The inductive invariant *)

Pcs == {"idle", "create", "claim", "createInvited", "session",
        "count", "compare", "record", "invite", "revoke"}

RequestState == [pc : Pcs, now : Nat, email : Emails \cup {""}, invite : Nat, account : Nat]

\* What a request holds, by where it is, beside so many accounts and invites.
Fits(x, accountCount, inviteCount, t) ==
    /\ x \in RequestState
    /\ x.now <= t /\ x.account <= accountCount /\ x.invite <= inviteCount
    /\ x.pc \in {"create", "claim", "createInvited", "count", "compare", "record"}
           => x.email \in Emails
    /\ x.pc \in {"claim", "createInvited", "count", "compare", "record"} => x.now # 0
    /\ x.pc \in {"claim", "createInvited"} => x.invite # Nobody
    /\ x.pc \in {"session", "invite", "revoke"} => x.account # Nobody

RequestsTyped ==
    /\ request \in [Requests -> RequestState]
    /\ \A r \in Requests : Fits(request[r], Len(accounts), Len(invites), clock)

SessionsTyped == \A s \in sessions : s.account \in DOMAIN accounts /\ s.expiresAt \in Nat

AttemptsTyped ==
    /\ attempts \in Seq([email : Emails, at : Nat])
    /\ \A k \in DOMAIN attempts : attempts[k].at \in 1..clock

Typed ==
    /\ accounts \in Seq(Account) /\ invites \in Seq(Invite)
    /\ SessionsTyped /\ AttemptsTyped /\ RequestsTyped
    /\ clock \in Nat \ {0} /\ faults \in Nat

\* An invite was written by an administrator, and by nobody else: what an
\* account founded on it inherits.
AdminsInvite ==
    /\ \A k \in DOMAIN invites :
          /\ invites[k].invitedBy \in DOMAIN accounts
          /\ accounts[invites[k].invitedBy].role = "admin"
    /\ \A r \in Requests : At(r, "invite") =>
          /\ request[r].account \in DOMAIN accounts
          /\ accounts[request[r].account].role = "admin"

\* Between its two transactions a redemption owns its invite: it is spent, no
\* account has it and no other request holds it.
RedemptionOwns ==
    \A r \in Requests : At(r, "createInvited") =>
        LET k == request[r].invite
        IN  /\ k \in DOMAIN invites
            /\ invites[k].usedAt # 0 /\ invites[k].usedAt < invites[k].expiresAt
            /\ invites[k].email = request[r].email
            /\ \A a \in 2..Len(accounts) : accounts[a].invite # k
            /\ \A q \in Requests \ {r} : At(q, "createInvited") => request[q].invite # k

\* Every account but the founder's redeemed an invite of its own.
AccountsRedeem ==
    \A a \in 2..Len(accounts) :
        LET k == accounts[a].invite
        IN  /\ k \in DOMAIN invites
            /\ invites[k].usedAt # 0 /\ invites[k].usedAt < invites[k].expiresAt
            /\ accounts[a].email = invites[k].email /\ accounts[a].role = invites[k].role
            /\ \A b \in (2..Len(accounts)) \ {a} : accounts[b].invite # k

\* Of the spent invites at most those of K were in vain.
SpentBut(K) ==
    \A k \in DOMAIN invites : invites[k].usedAt # 0 =>
        \/ HasAccount(invites[k].email)
        \/ \E r \in Requests : At(r, "createInvited") /\ request[r].invite = k
        \/ k \in K

\* Inductive together with Typed; what a step adds to the invites spent in vain
\* is counted beside it.
Owned == AdminsInvite /\ OneFounder /\ RedemptionOwns /\ AccountsRedeem

-----------------------------------------------------------------------------
(* Types *)

LEMMA InstantsLater ==
  ASSUME Typed, NEW t \in Nat, ReadClock(t)
  PROVE  t \in Nat \ {0} /\ t >= clock /\ clock' = t
  BY DEF Typed, ReadClock, Instants

LEMMA ClockReads ==
  ASSUME Typed, NEW t \in Instants
  PROVE  t \in Nat \ {0} /\ t >= clock
  BY DEF Typed, Instants

LEMMA QuietTyped ==
  /\ Quiet \in RequestState
  /\ Quiet.pc = "idle" /\ Quiet.now = 0 /\ Quiet.invite = 0 /\ Quiet.account = 0
  BY DEF Quiet, RequestState, Pcs, Nobody

LEMMA QuietFits ==
  ASSUME NEW m \in Nat, NEW n \in Nat, NEW t \in Nat
  PROVE  Fits(Quiet, m, n, t)
  BY QuietTyped DEF Fits

\* About to start a session for one of m accounts, or to act as it.
LEMMA AccountFits ==
  ASSUME NEW m \in Nat, NEW n \in Nat, NEW t \in Nat, NEW a \in 1..m,
         NEW pc \in {"session", "invite", "revoke"}
  PROVE  Fits([Quiet EXCEPT !.pc = pc, !.account = a], m, n, t)
<1> DEFINE x == [Quiet EXCEPT !.pc = pc, !.account = a]
<1>a. a \in Nat /\ a # 0 /\ a <= m
  OBVIOUS
<1>1. x \in RequestState
  BY <1>a, QuietTyped DEF RequestState, Pcs
<1>2. x.pc = pc /\ x.account = a /\ x.now = 0 /\ x.invite = 0
  BY QuietTyped DEF RequestState
<1> HIDE DEF x
<1>3. Fits(x, m, n, t)
  BY <1>a, <1>1, <1>2 DEF Fits, Nobody
<1> QED
  BY <1>3 DEF x

\* One request moves, the tables and the clock only grow.
LEMMA BecomeTyped ==
  ASSUME RequestsTyped, accounts \in Seq(Account), invites \in Seq(Invite), clock \in Nat,
         NEW r \in Requests, NEW x, Become(r, x),
         accounts' \in Seq(Account), Len(accounts) <= Len(accounts'),
         invites' \in Seq(Invite), Len(invites) <= Len(invites'),
         clock' \in Nat, clock <= clock',
         Fits(x, Len(accounts'), Len(invites'), clock')
  PROVE  RequestsTyped'
<1>1. x \in RequestState
  BY DEF Fits
<1>2. request' = [request EXCEPT ![r] = x]
  BY DEF Become
<1>3. request' \in [Requests -> RequestState]
  BY <1>1, <1>2 DEF RequestsTyped
<1>4. ASSUME NEW q \in Requests
      PROVE  Fits(request'[q], Len(accounts'), Len(invites'), clock')
  <2>1. CASE q = r
    <3>1. request'[q] = x
      BY <1>2, <2>1 DEF RequestsTyped
    <3> QED
      BY <3>1
  <2>2. CASE q # r
    <3>1. request'[q] = request[q] /\ request[q] \in RequestState
      BY <1>2, <2>2 DEF RequestsTyped
    <3> DEFINE m == Len(accounts)
               n == Len(invites)
               m2 == Len(accounts')
               n2 == Len(invites')
               y == request[q]
    <3>2. Fits(y, m, n, clock)
      BY DEF RequestsTyped
    <3>3. m \in Nat /\ n \in Nat /\ m2 \in Nat /\ n2 \in Nat /\ m <= m2 /\ n <= n2
      BY LenProperties
    <3>4. request'[q] = y
      BY <3>1
    <3> HIDE DEF m, n, m2, n2, y
    <3>5. Fits(y, m2, n2, clock')
      <4>1. y.now \in Nat /\ y.account \in Nat /\ y.invite \in Nat
        BY <3>2 DEF Fits, RequestState
      <4>2. y.now <= clock' /\ y.account <= m2 /\ y.invite <= n2
        BY <3>2, <3>3, <4>1 DEF Fits
      <4> QED
        BY <3>2, <4>2 DEF Fits
    <3> QED
      BY <3>4, <3>5 DEF m2, n2
  <2> QED
    BY <2>1, <2>2
<1> QED
  BY <1>3, <1>4 DEF RequestsTyped

\* The tables as they are, a request that moves, a clock that may have moved.
LEMMA RequestMoves ==
  ASSUME Typed, NEW r \in Requests, NEW x, Become(r, x),
         UNCHANGED store, clock' \in Nat \ {0}, clock <= clock', faults' \in Nat,
         Fits(x, Len(accounts), Len(invites), clock')
  PROVE  Typed'
<1>1. RequestsTyped'
  BY BecomeTyped DEF Typed, store
<1> QED
  BY <1>1 DEF Typed, SessionsTyped, AttemptsTyped, store

\* Where the tables grow, or the place where a request is in them.
LEMMA Registering ==
  ASSUME Typed, NEW r \in Requests, CreateUser(r)
  PROVE  Typed'
<1> DEFINE e == request[r].email
           account == [email |-> e, role |-> "admin", invitedBy |-> Nobody, invite |-> Nobody]
<1>1. e \in Emails /\ account \in Account
  BY DEF Typed, RequestsTyped, Fits, CreateUser, At, Account, Nobody
<1>2. CASE BootstrapFree(e)
  <2> DEFINE x == [Quiet EXCEPT !.pc = "session", !.account = Len(accounts) + 1]
  <2>1. accounts' = Append(accounts, account) /\ Become(r, x)
    BY <1>2 DEF CreateUser, Created
  <2>2. /\ accounts' \in Seq(Account) /\ Len(accounts') = Len(accounts) + 1
        /\ Len(accounts) \in Nat /\ Len(invites) \in Nat
        /\ DOMAIN accounts \subseteq DOMAIN accounts'
    BY <1>1, <2>1, AppendProperties, LenProperties DEF Typed
  <2>3. Fits(x, Len(accounts'), Len(invites), clock)
    <3>1. Len(accounts) + 1 \in 1..Len(accounts') /\ Len(accounts') \in Nat /\ clock \in Nat
      BY <2>2 DEF Typed
    <3> QED
      BY <2>2, <3>1, AccountFits
  <2>4. RequestsTyped'
    BY <2>1, <2>2, <2>3, BecomeTyped DEF Typed, CreateUser
  <2> QED
    BY <2>2, <2>4 DEF Typed, SessionsTyped, AttemptsTyped, CreateUser
<1>3. CASE ~BootstrapFree(e)
  <2>1. UNCHANGED <<store, clock, faults>> /\ Become(r, Quiet)
    BY <1>3 DEF CreateUser, Respond, store
  <2> QED
    BY <2>1, RequestMoves, QuietFits, LenProperties DEF Typed
<1> QED
  BY <1>2, <1>3

LEMMA Redeeming ==
  ASSUME Typed, NEW r \in Requests, CreateInvitedUser(r)
  PROVE  Typed'
<1> DEFINE k == request[r].invite
           account == [email |-> request[r].email, role |-> invites[k].role,
                       invitedBy |-> invites[k].invitedBy, invite |-> k]
<1>1. k \in DOMAIN invites /\ request[r].email \in Emails
  <2>1. Fits(request[r], Len(accounts), Len(invites), clock) /\ Len(invites) \in Nat
    BY LenProperties DEF Typed, RequestsTyped
  <2>2. k \in Nat /\ k # 0 /\ k <= Len(invites) /\ request[r].email \in Emails
    BY <2>1 DEF Fits, RequestState, CreateInvitedUser, At, Nobody
  <2> QED
    BY <2>1, <2>2, LenProperties DEF Typed
<1>2. account \in Account
  <2>1. invites[k] \in Invite /\ k \in Nat
    BY <1>1, LenProperties DEF Typed
  <2> QED
    BY <1>1, <2>1 DEF Account, Invite
<1>3. CASE ~HasAccount(request[r].email)
  <2> DEFINE x == [Quiet EXCEPT !.pc = "session", !.account = Len(accounts) + 1]
  <2>1. accounts' = Append(accounts, account) /\ Become(r, x)
    BY <1>3 DEF CreateInvitedUser, Created
  <2>2. /\ accounts' \in Seq(Account) /\ Len(accounts') = Len(accounts) + 1
        /\ Len(accounts) \in Nat /\ Len(invites) \in Nat
        /\ DOMAIN accounts \subseteq DOMAIN accounts'
    BY <1>2, <2>1, AppendProperties, LenProperties DEF Typed
  <2>3. Fits(x, Len(accounts'), Len(invites), clock)
    <3>1. Len(accounts) + 1 \in 1..Len(accounts') /\ Len(accounts') \in Nat /\ clock \in Nat
      BY <2>2 DEF Typed
    <3> QED
      BY <2>2, <3>1, AccountFits
  <2>4. RequestsTyped'
    BY <2>1, <2>2, <2>3, BecomeTyped DEF Typed, CreateInvitedUser
  <2> QED
    BY <2>2, <2>4 DEF Typed, SessionsTyped, AttemptsTyped, CreateInvitedUser
<1>4. CASE HasAccount(request[r].email)
  <2>1. UNCHANGED <<store, clock, faults>> /\ Become(r, Quiet)
    BY <1>4 DEF CreateInvitedUser, Respond, store
  <2> QED
    BY <2>1, RequestMoves, QuietFits, LenProperties DEF Typed
<1> QED
  BY <1>3, <1>4

LEMMA Claiming ==
  ASSUME Typed, NEW r \in Requests, ClaimInvite(r)
  PROVE  Typed'
<1> DEFINE k == request[r].invite
           x == [request[r] EXCEPT !.pc = "createInvited"]
<1>1. Fits(request[r], Len(accounts), Len(invites), clock)
  BY DEF Typed, RequestsTyped
<1>2. /\ Len(accounts) \in Nat /\ Len(invites) \in Nat
      /\ clock \in Nat /\ request[r].now \in Nat
  BY <1>1, LenProperties DEF Typed, Fits, RequestState
<1>3. CASE Redeemable(k, request[r].email, request[r].now)
  <2>1. invites' = [invites EXCEPT ![k].usedAt = request[r].now] /\ Become(r, x)
    BY <1>3 DEF ClaimInvite
  <2>2. invites' \in Seq(Invite) /\ Len(invites') = Len(invites)
    <3>1. k \in DOMAIN invites
      BY <1>3 DEF Redeemable, PendingInvites
    <3>2. [invites[k] EXCEPT !.usedAt = request[r].now] \in Invite
      <4>1. invites[k] \in Invite
        BY <3>1, LenProperties DEF Typed
      <4> QED
        BY <1>2, <4>1 DEF Invite
    <3> QED
      BY <2>1, <3>1, <3>2, ExceptSeq, LenProperties DEF Typed
  <2>3. Fits(x, Len(accounts), Len(invites'), clock)
    BY <1>1, <1>2, <2>2 DEF Fits, RequestState, Pcs, ClaimInvite, At
  <2>4. RequestsTyped'
    BY <1>2, <2>1, <2>2, <2>3, BecomeTyped DEF Typed, ClaimInvite
  <2> QED
    BY <2>2, <2>4 DEF Typed, SessionsTyped, AttemptsTyped, ClaimInvite
<1>4. CASE ~Redeemable(k, request[r].email, request[r].now)
  <2>1. UNCHANGED <<store, clock, faults>> /\ Become(r, Quiet)
    BY <1>4 DEF ClaimInvite, Respond, store
  <2> QED
    BY <1>2, <2>1, RequestMoves, QuietFits DEF Typed
<1> QED
  BY <1>3, <1>4

LEMMA Inviting ==
  ASSUME Typed, NEW r \in Requests, CreateInvite(r)
  PROVE  Typed'
<1>1. PICK now \in Instants, e \in Emails, role \in {"admin", "member"} :
          /\ ReadClock(now)
          /\ InsertInvite(e, role, request[r].account, now + InviteLifetime)
  BY DEF CreateInvite
<1>2. now \in Nat \ {0} /\ clock <= now /\ clock' = now /\ now + InviteLifetime \in Nat
  BY <1>1, ClockReads, IdentityAssumption DEF ReadClock
<1> DEFINE invite == [email |-> e, role |-> role, invitedBy |-> request[r].account,
                      expiresAt |-> now + InviteLifetime, usedAt |-> 0, revokedAt |-> 0]
<1>3. invite \in Invite
  <2>1. request[r].account \in Nat
    BY DEF Typed, RequestsTyped, RequestState
  <2> QED
    BY <1>2, <2>1 DEF Invite
<1>4. invites' = Append(invites, invite) /\ Become(r, Quiet)
  BY <1>1 DEF InsertInvite, CreateInvite, Respond
<1>5. /\ invites' \in Seq(Invite) /\ Len(invites') = Len(invites) + 1
      /\ Len(accounts) \in Nat /\ Len(invites) \in Nat
  BY <1>3, <1>4, AppendProperties, LenProperties DEF Typed
<1>6. RequestsTyped'
  <2>1. Fits(Quiet, Len(accounts), Len(invites'), clock')
    BY <1>2, <1>5, QuietFits
  <2> QED
    BY <1>2, <1>4, <1>5, <2>1, BecomeTyped DEF Typed, CreateInvite
<1>7. AttemptsTyped'
  BY <1>2 DEF Typed, AttemptsTyped, CreateInvite
<1> QED
  BY <1>2, <1>5, <1>6, <1>7 DEF Typed, SessionsTyped, CreateInvite

LEMMA Revoking ==
  ASSUME Typed, NEW r \in Requests, RevokeInvite(r)
  PROVE  Typed' /\ Len(invites') = Len(invites)
<1>1. PICK now \in Instants :
          /\ ReadClock(now)
          /\ \/ UNCHANGED invites
             \/ \E k \in DOMAIN invites : MarkRevoked(k, now)
  BY DEF RevokeInvite
<1>2. now \in Nat \ {0} /\ clock <= now /\ clock' = now
  BY <1>1, ClockReads DEF ReadClock
<1>3. Len(accounts) \in Nat /\ Len(invites) \in Nat
  BY LenProperties DEF Typed
<1>4. invites' \in Seq(Invite) /\ Len(invites') = Len(invites)
  <2>1. CASE UNCHANGED invites
    BY <2>1 DEF Typed
  <2>2. ASSUME NEW k \in DOMAIN invites, MarkRevoked(k, now)
        PROVE  invites' \in Seq(Invite) /\ Len(invites') = Len(invites)
    <3>1. invites[k] \in Invite /\ k \in 1..Len(invites)
      BY LenProperties DEF Typed
    <3>2. [invites[k] EXCEPT !.revokedAt = now] \in Invite
      BY <1>2, <3>1 DEF Invite
    <3> QED
      BY <2>2, <3>1, <3>2, ExceptSeq DEF Typed, MarkRevoked
  <2> QED
    BY <1>1, <2>1, <2>2
<1>5. RequestsTyped'
  <2>1. Fits(Quiet, Len(accounts), Len(invites'), clock')
    BY <1>2, <1>3, <1>4, QuietFits
  <2> QED
    BY <1>2, <1>3, <1>4, <2>1, BecomeTyped DEF Typed, RevokeInvite, Respond
<1>6. AttemptsTyped'
  BY <1>2 DEF Typed, AttemptsTyped, RevokeInvite
<1> QED
  BY <1>2, <1>4, <1>5, <1>6 DEF Typed, SessionsTyped, RevokeInvite

LEMMA Starting ==
  ASSUME Typed, NEW r \in Requests, StartSession(r)
  PROVE  Typed'
<1>1. PICK now \in Instants :
          ReadClock(now) /\ CreateSession(request[r].account, now + SessionLifetime)
  BY DEF StartSession
<1>2. /\ now \in Nat \ {0} /\ clock <= now /\ clock' = now
      /\ now + SessionLifetime \in Nat
  BY <1>1, ClockReads, IdentityAssumption DEF ReadClock
<1>3. Len(accounts) \in Nat /\ Len(invites) \in Nat /\ DOMAIN accounts = 1..Len(accounts)
  BY LenProperties DEF Typed
<1>4. request[r].account \in DOMAIN accounts
  <2>1. Fits(request[r], Len(accounts), Len(invites), clock) /\ request[r].pc = "session"
    BY DEF Typed, RequestsTyped, StartSession, At
  <2>2. request[r].account \in Nat /\ request[r].account # 0
        /\ request[r].account <= Len(accounts)
    BY <2>1 DEF Fits, RequestState, Nobody
  <2> QED
    BY <1>3, <2>2
<1>5. SessionsTyped'
  BY <1>1, <1>2, <1>4 DEF Typed, SessionsTyped, CreateSession, StartSession
<1>6. RequestsTyped'
  <2>1. Fits(Quiet, Len(accounts), Len(invites), clock')
    BY <1>2, <1>3, QuietFits
  <2> QED
    BY <1>2, <1>3, <2>1, BecomeTyped DEF Typed, StartSession, Respond
<1>7. AttemptsTyped'
  BY <1>2 DEF Typed, AttemptsTyped, StartSession
<1> QED
  BY <1>2, <1>5, <1>6, <1>7 DEF Typed, StartSession

LEMMA Recording ==
  ASSUME Typed, NEW r \in Requests, RecordLoginAttempt(r)
  PROVE  Typed'
<1>1. /\ Fits(request[r], Len(accounts), Len(invites), clock)
      /\ request[r] \in RequestState /\ request[r].pc = "record"
      /\ Len(accounts) \in Nat /\ Len(invites) \in Nat /\ clock \in Nat
  BY LenProperties DEF Typed, RequestsTyped, RecordLoginAttempt, At
<1>2. /\ request[r].email \in Emails
      /\ request[r].now \in 1..clock
  <2>1. request[r].now \in Nat
    BY <1>1 DEF RequestState
  <2>2. request[r].email \in Emails /\ request[r].now # 0 /\ request[r].now <= clock
    BY <1>1 DEF Fits
  <2> QED
    BY <1>1, <2>1, <2>2
<1>3. CASE request[r].account = Nobody
  <2>1. /\ attempts' = Append(attempts, [email |-> request[r].email, at |-> request[r].now])
        /\ Become(r, Quiet) /\ UNCHANGED <<accounts, invites, sessions, clock, faults>>
    BY <1>3 DEF RecordLoginAttempt, LogAttempt, Respond
  <2>2. AttemptsTyped'
    <3>1. [email |-> request[r].email, at |-> request[r].now] \in [email : Emails, at : Nat]
      BY <1>1, <1>2
    <3>2. /\ attempts \in Seq([email : Emails, at : Nat])
          /\ \A k \in DOMAIN attempts : attempts[k].at \in 1..clock
      BY DEF Typed, AttemptsTyped
    <3>3. /\ attempts' \in Seq([email : Emails, at : Nat])
          /\ Len(attempts') = Len(attempts) + 1
          /\ \A k \in 1..Len(attempts) : attempts'[k] = attempts[k]
          /\ attempts'[Len(attempts) + 1].at = request[r].now
          /\ DOMAIN attempts = 1..Len(attempts) /\ DOMAIN attempts' = 1..Len(attempts')
          /\ Len(attempts) \in Nat
      BY <2>1, <3>1, <3>2, AppendProperties, LenProperties
    <3>4. ASSUME NEW k \in DOMAIN attempts' PROVE attempts'[k].at \in 1..clock'
      <4>1. CASE k = Len(attempts) + 1
        BY <1>2, <2>1, <3>3, <4>1
      <4>2. CASE k # Len(attempts) + 1
        <5>1. k \in 1..Len(attempts)
          BY <3>3, <4>2
        <5> QED
          BY <2>1, <3>2, <3>3, <5>1
      <4> QED
        BY <4>1, <4>2
    <3> QED
      BY <3>3, <3>4 DEF AttemptsTyped
  <2>3. RequestsTyped'
    <3>1. Fits(Quiet, Len(accounts), Len(invites), clock)
      BY <1>1, QuietFits
    <3> QED
      BY <1>1, <2>1, <3>1, BecomeTyped DEF Typed
  <2> QED
    BY <2>1, <2>2, <2>3 DEF Typed, SessionsTyped
<1>4. CASE request[r].account # Nobody
  <2> DEFINE x == [Quiet EXCEPT !.pc = "session", !.account = request[r].account]
  <2>1. Become(r, x) /\ UNCHANGED <<store, clock, faults>>
    BY <1>4 DEF RecordLoginAttempt, store
  <2>2. request[r].account \in 1..Len(accounts)
    <3>1. request[r].account \in Nat
      BY <1>1 DEF RequestState
    <3>2. request[r].account # 0 /\ request[r].account <= Len(accounts)
      BY <1>1, <1>4 DEF Fits, Nobody
    <3> QED
      BY <1>1, <3>1, <3>2
  <2>3. Fits(x, Len(accounts), Len(invites), clock)
    BY <1>1, <2>2, AccountFits
  <2> QED
    BY <1>1, <2>1, <2>3, RequestMoves DEF Typed
<1> QED
  BY <1>3, <1>4

\* The operations that look at the tables and leave them as they are, the
\* beginning of a redemption among them.
LEMMA Beginning ==
  ASSUME Typed, NEW r \in Requests,
         \/ BeginRegister(r) \/ BeginRedeem(r) \/ BeginLogin(r)
         \/ BeginAdmin(r, "invite") \/ BeginAdmin(r, "revoke")
  PROVE  Typed' /\ UNCHANGED <<store, faults>>
<1>1. /\ Len(accounts) \in Nat /\ Len(invites) \in Nat /\ clock \in Nat \ {0}
      /\ DOMAIN accounts = 1..Len(accounts) /\ DOMAIN invites = 1..Len(invites)
  BY LenProperties DEF Typed
<1>2. ASSUME BeginRegister(r) PROVE Typed' /\ UNCHANGED <<store, faults>>
  <2>1. PICK e \in Emails : Become(r, [Quiet EXCEPT !.pc = "create", !.email = e])
    BY <1>2 DEF BeginRegister
  <2> DEFINE x == [Quiet EXCEPT !.pc = "create", !.email = e]
  <2>2. x \in RequestState
    BY QuietTyped DEF RequestState, Pcs
  <2>3. x.pc = "create" /\ x.email = e /\ x.now = 0 /\ x.invite = 0 /\ x.account = 0
    BY QuietTyped DEF RequestState
  <2> HIDE DEF x
  <2>4. Fits(x, Len(accounts), Len(invites), clock)
    BY <1>1, <2>2, <2>3 DEF Fits
  <2>5. Become(r, x) /\ UNCHANGED <<store, clock, faults>>
    BY <1>2, <2>1 DEF BeginRegister, x
  <2> QED
    BY <1>1, <2>4, <2>5, RequestMoves DEF Typed
<1>3. ASSUME BeginRedeem(r) PROVE Typed' /\ UNCHANGED <<store, faults>>
  <2>1. PICK now \in Instants, k \in DOMAIN invites, e \in Emails :
          /\ ReadClock(now)
          /\ Become(r, [Quiet EXCEPT !.pc = "claim", !.now = now, !.email = e, !.invite = k])
    BY <1>3 DEF BeginRedeem
  <2> DEFINE x == [Quiet EXCEPT !.pc = "claim", !.now = now, !.email = e, !.invite = k]
  <2>a. /\ now \in Nat \ {0} /\ clock <= now /\ clock' = now
        /\ k \in Nat /\ k # 0 /\ k <= Len(invites)
    BY <1>1, <2>1, ClockReads DEF ReadClock
  <2>2. x \in RequestState
    BY <2>a, QuietTyped DEF RequestState, Pcs
  <2>3. x.pc = "claim" /\ x.email = e /\ x.now = now /\ x.invite = k /\ x.account = 0
    BY QuietTyped DEF RequestState
  <2>b. Become(r, x) /\ UNCHANGED <<store, faults>>
    BY <1>3, <2>1 DEF BeginRedeem
  <2> HIDE DEF x
  <2>4. Fits(x, Len(accounts), Len(invites), clock')
    BY <1>1, <2>a, <2>2, <2>3 DEF Fits, Nobody
  <2> QED
    BY <1>1, <2>a, <2>b, <2>4, RequestMoves DEF Typed
<1>4. ASSUME BeginLogin(r) PROVE Typed' /\ UNCHANGED <<store, faults>>
  <2>1. PICK now \in Instants, e \in Emails :
          ReadClock(now) /\ Become(r, [Quiet EXCEPT !.pc = "count", !.now = now, !.email = e])
    BY <1>4 DEF BeginLogin
  <2> DEFINE x == [Quiet EXCEPT !.pc = "count", !.now = now, !.email = e]
  <2>a. now \in Nat \ {0} /\ clock <= now /\ clock' = now
    BY <2>1, ClockReads DEF ReadClock
  <2>2. x \in RequestState
    BY <2>a, QuietTyped DEF RequestState, Pcs
  <2>3. x.pc = "count" /\ x.email = e /\ x.now = now /\ x.invite = 0 /\ x.account = 0
    BY QuietTyped DEF RequestState
  <2>b. Become(r, x) /\ UNCHANGED <<store, faults>>
    BY <1>4, <2>1 DEF BeginLogin
  <2> HIDE DEF x
  <2>4. Fits(x, Len(accounts), Len(invites), clock')
    BY <1>1, <2>a, <2>2, <2>3 DEF Fits
  <2> QED
    BY <1>1, <2>a, <2>b, <2>4, RequestMoves DEF Typed
<1>5. ASSUME NEW pc \in {"invite", "revoke"}, BeginAdmin(r, pc)
      PROVE  Typed' /\ UNCHANGED <<store, faults>>
  <2>1. PICK now \in Instants, a \in DOMAIN accounts :
          ReadClock(now) /\ Become(r, [Quiet EXCEPT !.pc = pc, !.account = a])
    BY <1>5 DEF BeginAdmin
  <2> DEFINE x == [Quiet EXCEPT !.pc = pc, !.account = a]
  <2>a. now \in Nat \ {0} /\ clock <= now /\ clock' = now
    BY <2>1, ClockReads DEF ReadClock
  <2>b. Become(r, x) /\ UNCHANGED <<store, faults>>
    BY <1>5, <2>1 DEF BeginAdmin
  <2>2. Fits(x, Len(accounts), Len(invites), clock')
    BY <1>1, <2>a, AccountFits
  <2> QED
    BY <1>1, <2>a, <2>b, <2>2, RequestMoves DEF Typed
<1> QED
  BY <1>2, <1>3, <1>4, <1>5

LEMMA Answering ==
  ASSUME Typed, NEW r \in Requests,
         CheckAttempts(r) \/ Compare(r) \/ RequestFails(r)
  PROVE  Typed' /\ UNCHANGED <<store, clock>>
<1>1. /\ Len(accounts) \in Nat /\ Len(invites) \in Nat /\ clock \in Nat \ {0}
      /\ Fits(request[r], Len(accounts), Len(invites), clock)
      /\ request[r] \in RequestState
  BY LenProperties DEF Typed, RequestsTyped
<1>2. ASSUME Become(r, Quiet), UNCHANGED <<store, clock>>, faults' \in Nat
      PROVE  Typed' /\ UNCHANGED <<store, clock>>
  BY <1>1, <1>2, RequestMoves, QuietFits
<1>3. CASE RequestFails(r)
  BY <1>2, <1>3 DEF RequestFails, Respond, Typed
<1>4. CASE CheckAttempts(r)
  <2> DEFINE x == [request[r] EXCEPT !.pc = "compare"]
  <2>1. UNCHANGED <<store, clock, faults>> /\ (Become(r, x) \/ Become(r, Quiet))
    BY <1>4 DEF CheckAttempts, Respond
  <2>2. Fits(x, Len(accounts), Len(invites), clock)
    BY <1>1, <1>4 DEF Fits, RequestState, Pcs, CheckAttempts, At
  <2> QED
    BY <1>1, <1>2, <2>1, <2>2, RequestMoves DEF Typed
<1>5. CASE Compare(r)
  <2> DEFINE x(a) == [request[r] EXCEPT !.pc = "record", !.account = a]
             y == [request[r] EXCEPT !.pc = "record"]
  <2>1. /\ UNCHANGED <<store, clock, faults>>
        /\ Become(r, y) \/ \E a \in DOMAIN accounts : Become(r, x(a))
    BY <1>5 DEF Compare, CredentialsByEmail
  <2>2. Fits(y, Len(accounts), Len(invites), clock)
    BY <1>1, <1>5 DEF Fits, RequestState, Pcs, Compare, At
  <2>3. ASSUME NEW a \in DOMAIN accounts
        PROVE  Fits(x(a), Len(accounts), Len(invites), clock)
    <3>1. a \in Nat /\ a <= Len(accounts)
      BY <1>1, LenProperties DEF Typed
    <3> QED
      BY <1>1, <1>5, <3>1 DEF Fits, RequestState, Pcs, Compare, At
  <2>4. clock' \in Nat \ {0} /\ clock <= clock' /\ faults' \in Nat /\ UNCHANGED store
    <3>1. clock' = clock /\ faults' = faults /\ UNCHANGED store
      BY <1>5 DEF Compare
    <3>2. clock \in Nat \ {0} /\ faults \in Nat
      BY DEF Typed
    <3> QED
      BY <3>1, <3>2
  <2>5. CASE Become(r, y)
    BY <2>1, <2>2, <2>4, <2>5, RequestMoves
  <2>6. ASSUME NEW a \in DOMAIN accounts, Become(r, x(a))
        PROVE  Typed' /\ UNCHANGED <<store, clock>>
    <3> DEFINE z == x(a)
    <3>1. Become(r, z) /\ Fits(z, Len(accounts), Len(invites), clock')
      BY <2>1, <2>3, <2>6
    <3> HIDE DEF z
    <3> QED
      BY <2>1, <2>4, <3>1, RequestMoves
  <2> QED
    BY <2>1, <2>5, <2>6
<1> QED
  BY <1>3, <1>4, <1>5

LEMMA LoggingOut ==
  ASSUME Typed, NEW r \in Requests, Logout(r)
  PROVE  Typed'
  BY DEF Typed, SessionsTyped, AttemptsTyped, RequestsTyped, Logout, DeleteSession

LEMMA TypedInit == Init => Typed
<1> SUFFICES ASSUME Init PROVE Typed
  OBVIOUS
<1>1. /\ accounts \in Seq(Account) /\ invites \in Seq(Invite)
      /\ attempts \in Seq([email : Emails, at : Nat])
      /\ Len(accounts) = 0 /\ Len(invites) = 0 /\ DOMAIN attempts = {}
  BY EmptySeq DEF Init
<1>2. RequestsTyped
  <2>1. request = [r \in Requests |-> Quiet] /\ clock = 1
    BY DEF Init
  <2> QED
    BY <1>1, <2>1, QuietTyped, QuietFits DEF RequestsTyped
<1> QED
  BY <1>1, <1>2 DEF Init, Typed, SessionsTyped, AttemptsTyped

LEMMA TypedNext == Typed /\ [Next]_vars => Typed'
<1> SUFFICES ASSUME Typed, [Next]_vars PROVE Typed'
  OBVIOUS
<1>1. CASE UNCHANGED vars
  BY <1>1 DEF Typed, SessionsTyped, AttemptsTyped, RequestsTyped, vars, store
<1>2. CASE Full
  BY <1>1, <1>2 DEF Full
<1> QED
  BY <1>1, <1>2, Registering, Redeeming, Claiming, Inviting, Revoking, Starting, Recording,
     Beginning, Answering, LoggingOut DEF Next

LEMMA AlwaysTyped == Spec => []Typed
<1> QED
  BY TypedInit, TypedNext, PTL DEF Spec

\* The tables and the requests hold what they should, whatever fails and
\* whoever races (internal/api/auth.go, team.go and their store).
THEOREM TypeCorrect == Spec => []TypeOK
<1>1. Typed => TypeOK
  <2> SUFFICES ASSUME Typed PROVE TypeOK
    OBVIOUS
  <2>1. Len(accounts) \in Nat /\ Len(invites) \in Nat
    BY LenProperties DEF Typed
  <2>2. ASSUME NEW k \in DOMAIN attempts
        PROVE  attempts[k].email \in Emails /\ attempts[k].at \in 1..clock
    <3>1. attempts[k] \in [email : Emails, at : Nat]
      BY ElementOfSeq, LenProperties DEF Typed, AttemptsTyped
    <3> QED
      BY <3>1 DEF Typed, AttemptsTyped
  <2>3. ASSUME NEW r \in Requests
        PROVE  request[r].account \in 0..Len(accounts) /\ request[r].invite \in 0..Len(invites)
    <3>1. /\ request[r].account \in Nat /\ request[r].account <= Len(accounts)
          /\ request[r].invite \in Nat /\ request[r].invite <= Len(invites)
      BY DEF Typed, RequestsTyped, Fits, RequestState
    <3> QED
      BY <2>1, <3>1
  <2> QED
    BY <2>2, <2>3 DEF Typed, TypeOK, SessionsTyped
<1> QED
  BY <1>1, AlwaysTyped, PTL

-----------------------------------------------------------------------------
(* What a step does to the tables and to who holds an invite *)

\* The operations that write neither an account nor an invite and do not begin
\* to write one.
Elsewhere(r) ==
    \/ BeginRegister(r) \/ BeginRedeem(r) \/ StartSession(r) \/ Logout(r)
    \/ BeginLogin(r) \/ CheckAttempts(r) \/ Compare(r) \/ RecordLoginAttempt(r)
    \/ BeginAdmin(r, "revoke")

LEMMA Moved ==
  ASSUME Typed, NEW r \in Requests, NEW x, Become(r, x)
  PROVE  /\ request'[r] = x
         /\ \A q \in Requests \ {r} : request'[q] = request[q]
  BY DEF Typed, RequestsTyped, Become

\* Where an operation elsewhere takes the request that does it.
LEMMA ElsewhereGoes ==
  ASSUME Typed, NEW r \in Requests, Elsewhere(r)
  PROVE  /\ UNCHANGED <<accounts, invites, faults>>
         /\ \A q \in Requests \ {r} : request'[q] = request[q]
         /\ request[r].pc # "createInvited"
         /\ request'[r].pc \notin {"createInvited", "invite"}
<1>1. CASE BeginRegister(r)
  <2>1. PICK e \in Emails : Become(r, [Quiet EXCEPT !.pc = "create", !.email = e])
    BY <1>1 DEF BeginRegister
  <2> DEFINE x == [Quiet EXCEPT !.pc = "create", !.email = e]
  <2>2. Become(r, x)
    BY <2>1
  <2>3. x.pc = "create"
    BY QuietTyped DEF RequestState
  <2> HIDE DEF x
  <2>4. request'[r].pc = "create" /\ \A q \in Requests \ {r} : request'[q] = request[q]
    BY <2>2, <2>3, Moved
  <2> QED
    BY <1>1, <2>4 DEF BeginRegister, store, At
<1>2. CASE BeginRedeem(r)
  <2>1. PICK now \in Instants, k \in DOMAIN invites, e \in Emails :
          Become(r, [Quiet EXCEPT !.pc = "claim", !.now = now, !.email = e, !.invite = k])
    BY <1>2 DEF BeginRedeem
  <2> DEFINE x == [Quiet EXCEPT !.pc = "claim", !.now = now, !.email = e, !.invite = k]
  <2>2. Become(r, x)
    BY <2>1
  <2>3. x.pc = "claim"
    BY QuietTyped DEF RequestState
  <2> HIDE DEF x
  <2>4. request'[r].pc = "claim" /\ \A q \in Requests \ {r} : request'[q] = request[q]
    BY <2>2, <2>3, Moved
  <2> QED
    BY <1>2, <2>4 DEF BeginRedeem, store, At
<1>3. CASE StartSession(r)
  BY <1>3, Moved, QuietTyped DEF StartSession, Respond, At
<1>4. CASE Logout(r)
  BY <1>4 DEF Logout, At
<1>5. CASE BeginLogin(r)
  <2>1. PICK now \in Instants, e \in Emails :
          Become(r, [Quiet EXCEPT !.pc = "count", !.now = now, !.email = e])
    BY <1>5 DEF BeginLogin
  <2> DEFINE x == [Quiet EXCEPT !.pc = "count", !.now = now, !.email = e]
  <2>2. Become(r, x)
    BY <2>1
  <2>3. x.pc = "count"
    BY QuietTyped DEF RequestState
  <2> HIDE DEF x
  <2>4. request'[r].pc = "count" /\ \A q \in Requests \ {r} : request'[q] = request[q]
    BY <2>2, <2>3, Moved
  <2> QED
    BY <1>5, <2>4 DEF BeginLogin, store, At
<1>6. CASE CheckAttempts(r)
  <2> DEFINE x == [request[r] EXCEPT !.pc = "compare"]
  <2>1. Become(r, x) \/ Become(r, Quiet)
    BY <1>6 DEF CheckAttempts, Respond
  <2>2. x.pc = "compare" /\ Quiet.pc = "idle" /\ request[r].pc = "count"
    BY <1>6, QuietTyped DEF Typed, RequestsTyped, RequestState, CheckAttempts, At
  <2> HIDE DEF x
  <2>3. /\ request'[r].pc \in {"compare", "idle"}
        /\ \A q \in Requests \ {r} : request'[q] = request[q]
    BY <2>1, <2>2, Moved
  <2> QED
    BY <1>6, <2>2, <2>3 DEF CheckAttempts, store
<1>7. CASE Compare(r)
  <2>1. PICK a \in DOMAIN accounts \cup {request[r].account} :
          Become(r, [request[r] EXCEPT !.pc = "record", !.account = a])
    <3>1. CASE Become(r, [request[r] EXCEPT !.pc = "record"])
      <4>1. [request[r] EXCEPT !.pc = "record"]
               = [request[r] EXCEPT !.pc = "record", !.account = request[r].account]
        BY DEF Typed, RequestsTyped, RequestState
      <4> QED
        BY <3>1, <4>1
    <3>2. CASE \E a \in DOMAIN accounts :
                  Become(r, [request[r] EXCEPT !.pc = "record", !.account = a])
      BY <3>2
    <3> QED
      BY <1>7, <3>1, <3>2 DEF Compare, CredentialsByEmail
  <2> DEFINE x == [request[r] EXCEPT !.pc = "record", !.account = a]
  <2>2. Become(r, x)
    BY <2>1
  <2>3. x.pc = "record" /\ request[r].pc = "compare"
    BY <1>7 DEF Typed, RequestsTyped, RequestState, Compare, At
  <2> HIDE DEF x
  <2>4. request'[r].pc = "record" /\ \A q \in Requests \ {r} : request'[q] = request[q]
    BY <2>2, <2>3, Moved
  <2> QED
    BY <1>7, <2>3, <2>4 DEF Compare, store
<1>8. CASE RecordLoginAttempt(r)
  <2> DEFINE x == [Quiet EXCEPT !.pc = "session", !.account = request[r].account]
  <2>1. Become(r, Quiet) \/ Become(r, x)
    BY <1>8 DEF RecordLoginAttempt, Respond
  <2>2. x.pc = "session" /\ Quiet.pc = "idle" /\ request[r].pc = "record"
    BY <1>8, QuietTyped DEF RequestState, RecordLoginAttempt, At
  <2> HIDE DEF x
  <2>3. /\ request'[r].pc \in {"session", "idle"}
        /\ \A q \in Requests \ {r} : request'[q] = request[q]
    BY <2>1, <2>2, Moved
  <2> QED
    BY <1>8, <2>2, <2>3 DEF RecordLoginAttempt
<1>9. CASE BeginAdmin(r, "revoke")
  <2>1. PICK now \in Instants, a \in DOMAIN accounts :
          Become(r, [Quiet EXCEPT !.pc = "revoke", !.account = a])
    BY <1>9 DEF BeginAdmin
  <2> DEFINE x == [Quiet EXCEPT !.pc = "revoke", !.account = a]
  <2>2. Become(r, x)
    BY <2>1
  <2>3. x.pc = "revoke"
    BY QuietTyped DEF RequestState
  <2> HIDE DEF x
  <2>4. request'[r].pc = "revoke" /\ \A q \in Requests \ {r} : request'[q] = request[q]
    BY <2>2, <2>3, Moved
  <2> QED
    BY <1>9, <2>4 DEF BeginAdmin, store, At
<1> QED
  BY <1>1, <1>2, <1>3, <1>4, <1>5, <1>6, <1>7, <1>8, <1>9 DEF Elsewhere

\* The steps that write: what they leave of each table, and who they leave
\* holding an invite.
LEMMA Grown ==
  ASSUME NEW S, NEW s \in Seq(S), NEW t, NEW e \in S, t = Append(s, e)
  PROVE  /\ Len(s) \in Nat /\ DOMAIN s = 1..Len(s)
         /\ Len(t) = Len(s) + 1 /\ DOMAIN t = 1..(Len(s) + 1)
         /\ \A k \in 1..Len(s) : t[k] = s[k]
         /\ t[Len(s) + 1] = e
  BY AppendProperties, LenProperties

LEMMA CreateUserGoes ==
  ASSUME Typed, OneFounder, NEW r \in Requests, CreateUser(r)
  PROVE  /\ UNCHANGED <<invites, faults>>
         /\ \A q \in Requests \ {r} : request'[q] = request[q]
         /\ request[r].pc # "createInvited"
         /\ request'[r].pc \notin {"createInvited", "invite"}
         /\ \/ UNCHANGED accounts
            \/ /\ DOMAIN accounts = {} /\ DOMAIN accounts' = {1} /\ Len(accounts') = 1
               /\ accounts'[1].invitedBy = Nobody /\ accounts'[1].role = "admin"
<1> DEFINE e == request[r].email
           account == [email |-> e, role |-> "admin", invitedBy |-> Nobody, invite |-> Nobody]
           x == [Quiet EXCEPT !.pc = "session", !.account = Len(accounts) + 1]
<1>1. Become(r, x) \/ Become(r, Quiet)
  BY DEF CreateUser, Respond
<1>2. x.pc = "session" /\ Quiet.pc = "idle" /\ request[r].pc = "create"
  BY QuietTyped DEF RequestState, CreateUser, At
<1>3. ASSUME BootstrapFree(e)
      PROVE  /\ DOMAIN accounts = {} /\ DOMAIN accounts' = {1} /\ Len(accounts') = 1
             /\ accounts'[1].invitedBy = Nobody /\ accounts'[1].role = "admin"
  <2>1. account \in Account /\ accounts' = Append(accounts, account)
    BY <1>3 DEF Typed, RequestsTyped, Fits, CreateUser, Created, At, Account, Nobody
  <2>2. /\ Len(accounts) \in Nat /\ DOMAIN accounts = 1..Len(accounts)
        /\ Len(accounts') = Len(accounts) + 1 /\ DOMAIN accounts' = 1..(Len(accounts) + 1)
        /\ accounts'[Len(accounts) + 1] = account
    BY <2>1, Grown DEF Typed
  <2>3. Len(accounts) = 0
    <3>1. 1 \notin DOMAIN accounts
      BY <1>3 DEF BootstrapFree, OneFounder
    <3> QED
      BY <2>2, <3>1
  <2> QED
    BY <2>2, <2>3
<1> HIDE DEF x
<1> QED
  BY <1>1, <1>2, <1>3, Moved DEF CreateUser, Respond

LEMMA CreateInvitedUserGoes ==
  ASSUME Typed, NEW r \in Requests, CreateInvitedUser(r)
  PROVE  /\ UNCHANGED <<invites, faults>>
         /\ \A q \in Requests \ {r} : request'[q] = request[q]
         /\ request[r].pc = "createInvited" /\ request[r].invite \in DOMAIN invites
         /\ request'[r].pc \notin {"createInvited", "invite"}
         /\ Len(accounts) \in Nat /\ DOMAIN accounts = 1..Len(accounts)
         /\ \/ HasAccount(request[r].email) /\ UNCHANGED accounts
            \/ /\ Len(accounts') = Len(accounts) + 1
               /\ DOMAIN accounts' = 1..(Len(accounts) + 1)
               /\ \A a \in 1..Len(accounts) : accounts'[a] = accounts[a]
               /\ LET new == accounts'[Len(accounts) + 1]
                      k   == request[r].invite
                  IN  /\ new.email = request[r].email /\ new.invite = k
                      /\ new.role = invites[k].role
                      /\ new.invitedBy = invites[k].invitedBy
<1> DEFINE k == request[r].invite
           account == [email |-> request[r].email, role |-> invites[k].role,
                       invitedBy |-> invites[k].invitedBy, invite |-> k]
           x == [Quiet EXCEPT !.pc = "session", !.account = Len(accounts) + 1]
<1>1. Become(r, x) \/ Become(r, Quiet)
  BY DEF CreateInvitedUser, Respond
<1>2. x.pc = "session" /\ Quiet.pc = "idle" /\ request[r].pc = "createInvited"
  BY QuietTyped DEF RequestState, CreateInvitedUser, At
<1>3. Len(accounts) \in Nat /\ DOMAIN accounts = 1..Len(accounts)
  BY LenProperties DEF Typed
<1>4. k \in DOMAIN invites /\ request[r].email \in Emails
  <2>1. Fits(request[r], Len(accounts), Len(invites), clock)
        /\ Len(invites) \in Nat /\ DOMAIN invites = 1..Len(invites)
    BY LenProperties DEF Typed, RequestsTyped
  <2>2. k \in Nat /\ k # 0 /\ k <= Len(invites) /\ request[r].email \in Emails
    BY <1>2, <2>1 DEF Fits, RequestState, Nobody
  <2> QED
    BY <2>1, <2>2
<1>5. account \in Account
  <2>1. invites[k] \in Invite /\ k \in Nat
    BY <1>4, LenProperties DEF Typed
  <2> QED
    BY <1>4, <2>1 DEF Account, Invite
<1>6. ASSUME ~HasAccount(request[r].email)
      PROVE  /\ Len(accounts') = Len(accounts) + 1
             /\ DOMAIN accounts' = 1..(Len(accounts) + 1)
             /\ \A a \in 1..Len(accounts) : accounts'[a] = accounts[a]
             /\ accounts'[Len(accounts) + 1] = account
  <2>1. accounts' = Append(accounts, account)
    BY <1>6 DEF CreateInvitedUser, Created
  <2> QED
    BY <1>5, <2>1, Grown DEF Typed
<1>7. /\ account.email = request[r].email /\ account.invite = k
      /\ account.role = invites[k].role /\ account.invitedBy = invites[k].invitedBy
  OBVIOUS
<1> HIDE DEF x, account
<1>8. /\ \A q \in Requests \ {r} : request'[q] = request[q]
      /\ request'[r].pc \notin {"createInvited", "invite"}
  BY <1>1, <1>2, Moved
<1> QED
  BY <1>2, <1>3, <1>4, <1>6, <1>7, <1>8 DEF CreateInvitedUser

LEMMA ClaimInviteGoes ==
  ASSUME Typed, NEW r \in Requests, ClaimInvite(r)
  PROVE  /\ UNCHANGED <<accounts, faults>>
         /\ \A q \in Requests \ {r} : request'[q] = request[q]
         /\ request[r].pc = "claim"
         /\ \/ UNCHANGED invites /\ request'[r].pc = "idle"
            \/ LET k == request[r].invite
               IN  /\ Redeemable(k, request[r].email, request[r].now)
                   /\ request'[r].pc = "createInvited" /\ request'[r].invite = k
                   /\ request'[r].email = request[r].email
                   /\ request[r].now \in Nat \ {0}
                   /\ invites' = [invites EXCEPT ![k].usedAt = request[r].now]
<1> DEFINE k == request[r].invite
           x == [request[r] EXCEPT !.pc = "createInvited"]
<1>1. /\ x.pc = "createInvited" /\ x.invite = k /\ x.email = request[r].email
      /\ Quiet.pc = "idle" /\ request[r].pc = "claim" /\ request[r].now \in Nat \ {0}
  BY QuietTyped DEF Typed, RequestsTyped, RequestState, Fits, ClaimInvite, At
<1>2. CASE Redeemable(k, request[r].email, request[r].now)
  <2>1. /\ Become(r, x) /\ invites' = [invites EXCEPT ![k].usedAt = request[r].now]
        /\ UNCHANGED <<accounts, faults>>
    BY <1>2 DEF ClaimInvite
  <2> HIDE DEF x
  <2> QED
    BY <1>1, <1>2, <2>1, Moved
<1>3. CASE ~Redeemable(k, request[r].email, request[r].now)
  <2>1. Become(r, Quiet) /\ UNCHANGED <<invites, accounts, faults>>
    BY <1>3 DEF ClaimInvite, Respond
  <2> QED
    BY <1>1, <2>1, Moved
<1> QED
  BY <1>2, <1>3

LEMMA CreateInviteGoes ==
  ASSUME Typed, NEW r \in Requests, CreateInvite(r)
  PROVE  /\ UNCHANGED <<accounts, faults>>
         /\ \A q \in Requests \ {r} : request'[q] = request[q]
         /\ request[r].pc = "invite" /\ request'[r].pc = "idle"
         /\ Len(invites) \in Nat /\ DOMAIN invites = 1..Len(invites)
         /\ DOMAIN invites' = 1..(Len(invites) + 1)
         /\ \A k \in 1..Len(invites) : invites'[k] = invites[k]
         /\ invites'[Len(invites) + 1].usedAt = 0
         /\ invites'[Len(invites) + 1].invitedBy = request[r].account
<1>1. PICK now \in Instants, e \in Emails, role \in {"admin", "member"} :
          InsertInvite(e, role, request[r].account, now + InviteLifetime)
  BY DEF CreateInvite
<1>2. now + InviteLifetime \in Nat
  BY ClockReads, IdentityAssumption
<1> DEFINE invite == [email |-> e, role |-> role, invitedBy |-> request[r].account,
                      expiresAt |-> now + InviteLifetime, usedAt |-> 0, revokedAt |-> 0]
<1>3. invite \in Invite
  <2>1. request[r].account \in Nat
    BY DEF Typed, RequestsTyped, RequestState
  <2> QED
    BY <1>2, <2>1 DEF Invite
<1>4. /\ Len(invites) \in Nat /\ DOMAIN invites = 1..Len(invites)
      /\ DOMAIN invites' = 1..(Len(invites) + 1)
      /\ \A k \in 1..Len(invites) : invites'[k] = invites[k]
      /\ invites'[Len(invites) + 1] = invite
  <2>1. invites' = Append(invites, invite)
    BY <1>1 DEF InsertInvite
  <2> QED
    BY <1>3, <2>1, Grown DEF Typed
<1>5. /\ request'[r].pc = "idle" /\ request[r].pc = "invite"
      /\ \A q \in Requests \ {r} : request'[q] = request[q]
  BY Moved, QuietTyped DEF CreateInvite, Respond, At
<1>6. invite.usedAt = 0 /\ invite.invitedBy = request[r].account
  OBVIOUS
<1> HIDE DEF invite
<1> QED
  BY <1>4, <1>5, <1>6 DEF CreateInvite

LEMMA RevokeInviteGoes ==
  ASSUME Typed, NEW r \in Requests, RevokeInvite(r)
  PROVE  /\ UNCHANGED <<accounts, faults>>
         /\ \A q \in Requests \ {r} : request'[q] = request[q]
         /\ request[r].pc = "revoke" /\ request'[r].pc = "idle"
         /\ DOMAIN invites' = DOMAIN invites
         /\ \A k \in DOMAIN invites :
               /\ invites'[k].email = invites[k].email /\ invites'[k].role = invites[k].role
               /\ invites'[k].invitedBy = invites[k].invitedBy
               /\ invites'[k].usedAt = invites[k].usedAt
               /\ invites'[k].expiresAt = invites[k].expiresAt
<1>1. PICK now \in Instants :
          UNCHANGED invites \/ \E k \in DOMAIN invites : MarkRevoked(k, now)
  BY DEF RevokeInvite
<1>2. invites \in [1..Len(invites) -> Invite] /\ DOMAIN invites = 1..Len(invites)
  BY LenProperties DEF Typed
<1>3. /\ DOMAIN invites' = DOMAIN invites
      /\ \A k \in DOMAIN invites :
            invites'[k] \in {invites[k], [invites[k] EXCEPT !.revokedAt = now]}
  BY <1>1, <1>2 DEF MarkRevoked
<1>4. ASSUME NEW k \in DOMAIN invites
      PROVE  /\ invites'[k].email = invites[k].email /\ invites'[k].role = invites[k].role
             /\ invites'[k].invitedBy = invites[k].invitedBy
             /\ invites'[k].usedAt = invites[k].usedAt
             /\ invites'[k].expiresAt = invites[k].expiresAt
  <2>1. invites[k] \in Invite
    BY <1>2
  <2> QED
    BY <1>3, <2>1 DEF Invite
<1>5. /\ request'[r].pc = "idle" /\ request[r].pc = "revoke"
      /\ \A q \in Requests \ {r} : request'[q] = request[q]
  BY Moved, QuietTyped DEF RevokeInvite, Respond, At
<1> QED
  BY <1>3, <1>4, <1>5 DEF RevokeInvite

LEMMA RequestFailsGoes ==
  ASSUME Typed, NEW r \in Requests, RequestFails(r)
  PROVE  /\ UNCHANGED <<accounts, invites>> /\ faults' = faults + 1
         /\ \A q \in Requests \ {r} : request'[q] = request[q]
         /\ request'[r].pc = "idle"
<1>1. faults' = faults + 1
  BY DEF Typed, RequestFails
<1>2. request'[r].pc = "idle" /\ \A q \in Requests \ {r} : request'[q] = request[q]
  BY Moved, QuietTyped DEF RequestFails, Respond
<1> QED
  BY <1>1, <1>2 DEF RequestFails, store

LEMMA BeginInviteGoes ==
  ASSUME Typed, NEW r \in Requests, BeginAdmin(r, "invite")
  PROVE  /\ UNCHANGED <<accounts, invites, faults>>
         /\ \A q \in Requests \ {r} : request'[q] = request[q]
         /\ request[r].pc = "idle" /\ request'[r].pc = "invite"
         /\ request'[r].account \in DOMAIN accounts
         /\ accounts[request'[r].account].role = "admin"
<1>1. PICK now \in Instants, a \in DOMAIN accounts :
          Acting(a, now) /\ Become(r, [Quiet EXCEPT !.pc = "invite", !.account = a])
  BY DEF BeginAdmin
<1>2. accounts[a].role = "admin"
  BY <1>1 DEF Acting, RoleForPrincipal
<1> DEFINE x == [Quiet EXCEPT !.pc = "invite", !.account = a]
<1>3. x.pc = "invite" /\ x.account = a
  BY QuietTyped DEF RequestState
<1>4. Become(r, x)
  BY <1>1
<1> HIDE DEF x
<1>5. /\ request'[r].pc = "invite" /\ request'[r].account = a
      /\ \A q \in Requests \ {r} : request'[q] = request[q]
  BY <1>3, <1>4, Moved
<1> QED
  BY <1>2, <1>5 DEF BeginAdmin, At, store

-----------------------------------------------------------------------------
(* The parts of the invariant, a lemma for each kind of step *)

\* A request that goes on without touching an account or an invite, and is not
\* halfway through a redemption before or after.
LEMMA ElsewhereOwned ==
  ASSUME Typed, Owned, NEW r \in Requests, Elsewhere(r),
         NEW CONSTANT K, SpentBut(K)
  PROVE  Owned' /\ SpentBut(K)'
<1>1. /\ UNCHANGED <<accounts, invites, faults>>
      /\ \A q \in Requests \ {r} : request'[q] = request[q]
      /\ request[r].pc # "createInvited"
      /\ request'[r].pc \notin {"createInvited", "invite"}
  BY ElsewhereGoes
<1>2. AdminsInvite'
  BY <1>1 DEF Owned, AdminsInvite, At
<1>3. OneFounder' /\ AccountsRedeem'
  BY <1>1 DEF Owned, OneFounder, AccountsRedeem
<1>4. RedemptionOwns'
  BY <1>1 DEF Owned, RedemptionOwns, At
<1>5. SpentBut(K)'
  BY <1>1 DEF SpentBut, HasAccount, At
<1> QED
  BY <1>2, <1>3, <1>4, <1>5 DEF Owned

LEMMA RequestFailsOwned ==
  ASSUME Typed, Owned, NEW r \in Requests, RequestFails(r),
         NEW CONSTANT K, SpentBut(K)
  PROVE  /\ Owned' /\ faults' = faults + 1
         /\ \A j : j = request[r].invite => SpentBut(K \cup {j})'
<1>1. /\ UNCHANGED <<accounts, invites>> /\ faults' = faults + 1
      /\ \A q \in Requests \ {r} : request'[q] = request[q]
      /\ request'[r].pc = "idle"
  BY RequestFailsGoes
<1>2. AdminsInvite'
  BY <1>1 DEF Owned, AdminsInvite, At
<1>3. OneFounder' /\ AccountsRedeem'
  BY <1>1 DEF Owned, OneFounder, AccountsRedeem
<1>4. RedemptionOwns'
  BY <1>1 DEF Owned, RedemptionOwns, At
<1>5. ASSUME NEW CONSTANT j, j = request[r].invite PROVE SpentBut(K \cup {j})'
  <2> SUFFICES ASSUME NEW k \in DOMAIN invites, invites[k].usedAt # 0
               PROVE  (\/ HasAccount(invites[k].email)
                       \/ \E q \in Requests : At(q, "createInvited") /\ request[q].invite = k
                       \/ k \in K \cup {j})'
    BY <1>1 DEF SpentBut
  <2>1. CASE \E q \in Requests : At(q, "createInvited") /\ request[q].invite = k
    BY <1>1, <1>5, <2>1 DEF At
  <2>2. CASE HasAccount(invites[k].email) \/ k \in K
    BY <1>1, <2>2 DEF HasAccount
  <2> QED
    BY <2>1, <2>2 DEF SpentBut
<1> QED
  BY <1>1, <1>2, <1>3, <1>4, <1>5 DEF Owned

LEMMA BeginInviteOwned ==
  ASSUME Typed, Owned, NEW r \in Requests, BeginAdmin(r, "invite"),
         NEW CONSTANT K, SpentBut(K)
  PROVE  Owned' /\ SpentBut(K)'
<1>1. /\ UNCHANGED <<accounts, invites, faults>>
      /\ \A q \in Requests \ {r} : request'[q] = request[q]
      /\ request[r].pc = "idle" /\ request'[r].pc = "invite"
      /\ request'[r].account \in DOMAIN accounts
      /\ accounts[request'[r].account].role = "admin"
  BY BeginInviteGoes
<1>2. AdminsInvite'
  BY <1>1 DEF Owned, AdminsInvite, At
<1>3. OneFounder' /\ AccountsRedeem'
  BY <1>1 DEF Owned, OneFounder, AccountsRedeem
<1>4. RedemptionOwns'
  BY <1>1 DEF Owned, RedemptionOwns, At
<1>5. SpentBut(K)'
  BY <1>1 DEF SpentBut, HasAccount, At
<1> QED
  BY <1>2, <1>3, <1>4, <1>5 DEF Owned

\* The first account: no other account is there to conflict with it, and no
\* invite, for an invite names the account that wrote it.
LEMMA CreateUserOwned ==
  ASSUME Typed, Owned, NEW r \in Requests, CreateUser(r),
         NEW CONSTANT K, SpentBut(K)
  PROVE  Owned' /\ SpentBut(K)'
<1>1. /\ UNCHANGED <<invites, faults>>
      /\ \A q \in Requests \ {r} : request'[q] = request[q]
      /\ request[r].pc # "createInvited"
      /\ request'[r].pc \notin {"createInvited", "invite"}
      /\ \/ UNCHANGED accounts
         \/ /\ DOMAIN accounts = {} /\ DOMAIN accounts' = {1} /\ Len(accounts') = 1
            /\ accounts'[1].invitedBy = Nobody /\ accounts'[1].role = "admin"
  BY CreateUserGoes DEF Owned
<1>2. CASE UNCHANGED accounts
  <2>1. AdminsInvite'
    BY <1>1, <1>2 DEF Owned, AdminsInvite, At
  <2>2. OneFounder' /\ AccountsRedeem'
    BY <1>1, <1>2 DEF Owned, OneFounder, AccountsRedeem
  <2>3. RedemptionOwns'
    BY <1>1, <1>2 DEF Owned, RedemptionOwns, At
  <2>4. SpentBut(K)'
    BY <1>1, <1>2 DEF SpentBut, HasAccount, At
  <2> QED
    BY <2>1, <2>2, <2>3, <2>4 DEF Owned
<1>3. CASE DOMAIN accounts = {} /\ DOMAIN accounts' = {1} /\ Len(accounts') = 1
           /\ accounts'[1].invitedBy = Nobody /\ accounts'[1].role = "admin"
  <2>1. DOMAIN invites = {}
    BY <1>3 DEF Owned, AdminsInvite
  <2>2. AdminsInvite'
    BY <1>1, <1>3, <2>1 DEF Owned, AdminsInvite, At
  <2>3. OneFounder'
    BY <1>3 DEF OneFounder
  <2>4. AccountsRedeem'
    BY <1>3 DEF AccountsRedeem
  <2>5. RedemptionOwns'
    BY <1>1, <1>3, <2>1 DEF Owned, RedemptionOwns, At
  <2>6. SpentBut(K)'
    BY <1>1, <2>1 DEF SpentBut
  <2> QED
    BY <2>2, <2>3, <2>4, <2>5, <2>6 DEF Owned
<1> QED
  BY <1>1, <1>2, <1>3

\* Of the requests with one invite, the one that finds it redeemable owns it:
\* none owned it before, and no account had it.
LEMMA ClaimInviteOwned ==
  ASSUME Typed, Owned, NEW r \in Requests, ClaimInvite(r),
         NEW CONSTANT K, SpentBut(K)
  PROVE  Owned' /\ SpentBut(K)'
<1> DEFINE k == request[r].invite
<1>1. /\ UNCHANGED <<accounts, faults>>
      /\ \A q \in Requests \ {r} : request'[q] = request[q]
      /\ request[r].pc = "claim"
      /\ \/ UNCHANGED invites /\ request'[r].pc = "idle"
         \/ /\ Redeemable(k, request[r].email, request[r].now)
            /\ request'[r].pc = "createInvited" /\ request'[r].invite = k
            /\ request'[r].email = request[r].email
            /\ request[r].now \in Nat \ {0}
            /\ invites' = [invites EXCEPT ![k].usedAt = request[r].now]
  BY ClaimInviteGoes
<1>2. CASE UNCHANGED invites /\ request'[r].pc = "idle"
  <2>1. AdminsInvite'
    BY <1>1, <1>2 DEF Owned, AdminsInvite, At
  <2>2. OneFounder' /\ AccountsRedeem'
    BY <1>1, <1>2 DEF Owned, OneFounder, AccountsRedeem
  <2>3. RedemptionOwns'
    BY <1>1, <1>2 DEF Owned, RedemptionOwns, At
  <2>4. SpentBut(K)'
    BY <1>1, <1>2 DEF SpentBut, HasAccount, At
  <2> QED
    BY <2>1, <2>2, <2>3, <2>4 DEF Owned
<1>3. CASE /\ Redeemable(k, request[r].email, request[r].now)
           /\ request'[r].pc = "createInvited" /\ request'[r].invite = k
           /\ request'[r].email = request[r].email
           /\ request[r].now \in Nat \ {0}
           /\ invites' = [invites EXCEPT ![k].usedAt = request[r].now]
  <2>1. /\ k \in DOMAIN invites /\ invites[k].email = request[r].email
        /\ invites[k].usedAt = 0 /\ request[r].now < invites[k].expiresAt
    <3>1. invites[k].expiresAt > request[r].now /\ k \in DOMAIN invites
          /\ invites[k].email = request[r].email /\ invites[k].usedAt = 0
      BY <1>3 DEF Redeemable, PendingInvites
    <3>2. invites[k] \in Invite
      BY <3>1, LenProperties DEF Typed
    <3> QED
      BY <1>3, <3>1, <3>2 DEF Invite
  <2>2. /\ DOMAIN invites' = DOMAIN invites
        /\ \A j \in DOMAIN invites :
              /\ invites'[j].email = invites[j].email /\ invites'[j].role = invites[j].role
              /\ invites'[j].invitedBy = invites[j].invitedBy
              /\ invites'[j].expiresAt = invites[j].expiresAt
              /\ j # k => invites'[j].usedAt = invites[j].usedAt
        /\ invites'[k].usedAt = request[r].now
    <3>1. invites \in [1..Len(invites) -> Invite]
      BY LenProperties DEF Typed
    <3> QED
      BY <1>3, <2>1, <3>1 DEF Invite
  <2>3. AdminsInvite'
    BY <1>1, <1>3, <2>2 DEF Owned, AdminsInvite, At
  <2>4. OneFounder'
    BY <1>1 DEF Owned, OneFounder
  <2>5. \A a \in 2..Len(accounts) : accounts[a].invite # k
    BY <2>1 DEF Owned, AccountsRedeem
  <2>6. \A q \in Requests : At(q, "createInvited") => request[q].invite # k
    BY <2>1 DEF Owned, RedemptionOwns
  <2>7. AccountsRedeem'
    BY <1>1, <2>2, <2>5 DEF Owned, AccountsRedeem
  <2>8. RedemptionOwns'
    <3> SUFFICES ASSUME NEW q \in Requests, At(q, "createInvited")'
                 PROVE  LET j == request'[q].invite
                        IN  /\ j \in DOMAIN invites'
                            /\ invites'[j].usedAt # 0
                            /\ invites'[j].usedAt < invites'[j].expiresAt
                            /\ invites'[j].email = request'[q].email
                            /\ \A a \in 2..Len(accounts') : accounts'[a].invite # j
                            /\ \A p \in Requests \ {q} :
                                  At(p, "createInvited")' => request'[p].invite # j
      BY DEF RedemptionOwns
    <3>1. CASE q = r
      BY <1>1, <1>3, <2>1, <2>2, <2>5, <2>6, <3>1 DEF At
    <3>2. CASE q # r
      <4>1. At(q, "createInvited") /\ request'[q] = request[q] /\ request[q].invite # k
        BY <1>1, <2>6, <3>2 DEF At
      <4> QED
        BY <1>1, <1>3, <2>2, <4>1 DEF Owned, RedemptionOwns, At
    <3> QED
      BY <3>1, <3>2
  <2>9. SpentBut(K)'
    <3> SUFFICES ASSUME NEW j \in DOMAIN invites', invites'[j].usedAt # 0
                 PROVE  (\/ HasAccount(invites[j].email)
                         \/ \E q \in Requests : At(q, "createInvited") /\ request[q].invite = j
                         \/ j \in K)'
      BY DEF SpentBut
    <3>1. CASE j = k
      BY <1>3, <3>1 DEF At
    <3>2. CASE j # k
      <4>1. j \in DOMAIN invites /\ invites[j].usedAt # 0 /\ invites'[j].email = invites[j].email
        BY <2>2, <3>2
      <4>2. CASE HasAccount(invites[j].email)
        BY <1>1, <4>1, <4>2 DEF HasAccount
      <4>3. CASE \E q \in Requests : At(q, "createInvited") /\ request[q].invite = j
        BY <1>1, <4>3 DEF At
      <4>4. CASE j \in K
        BY <1>1, <4>4
      <4> QED
        BY <4>1, <4>2, <4>3, <4>4 DEF SpentBut
    <3> QED
      BY <3>1, <3>2
  <2> QED
    BY <2>3, <2>4, <2>7, <2>8, <2>9 DEF Owned
<1> QED
  BY <1>1, <1>2, <1>3

\* The account of an invite: its inviter was there before it, an administrator;
\* nobody else has or holds the invite.
LEMMA CreateInvitedUserOwned ==
  ASSUME Typed, Owned, NEW r \in Requests, CreateInvitedUser(r),
         NEW CONSTANT K, SpentBut(K)
  PROVE  Owned' /\ SpentBut(K)'
<1> DEFINE k == request[r].invite
           n == Len(accounts)
<1>1. /\ UNCHANGED <<invites, faults>>
      /\ \A q \in Requests \ {r} : request'[q] = request[q]
      /\ request[r].pc = "createInvited" /\ k \in DOMAIN invites
      /\ request'[r].pc \notin {"createInvited", "invite"}
      /\ n \in Nat /\ DOMAIN accounts = 1..n
      /\ \/ HasAccount(request[r].email) /\ UNCHANGED accounts
         \/ /\ Len(accounts') = n + 1 /\ DOMAIN accounts' = 1..(n + 1)
            /\ \A a \in 1..n : accounts'[a] = accounts[a]
            /\ accounts'[n + 1].email = request[r].email /\ accounts'[n + 1].invite = k
            /\ accounts'[n + 1].role = invites[k].role
            /\ accounts'[n + 1].invitedBy = invites[k].invitedBy
  BY CreateInvitedUserGoes
<1>2. /\ invites[k].usedAt # 0 /\ invites[k].usedAt < invites[k].expiresAt
      /\ invites[k].email = request[r].email
      /\ \A a \in 2..n : accounts[a].invite # k
      /\ \A q \in Requests \ {r} : At(q, "createInvited") => request[q].invite # k
  BY <1>1 DEF Owned, RedemptionOwns, At
<1>3. ASSUME \E a \in DOMAIN accounts' : accounts'[a].email = request[r].email,
             \A a \in DOMAIN accounts : a \in DOMAIN accounts' /\ accounts'[a] = accounts[a]
      PROVE  SpentBut(K)'
  <2> SUFFICES ASSUME NEW j \in DOMAIN invites, invites[j].usedAt # 0
               PROVE  (\/ HasAccount(invites[j].email)
                       \/ \E q \in Requests : At(q, "createInvited") /\ request[q].invite = j
                       \/ j \in K)'
    BY <1>1 DEF SpentBut
  <2>1. CASE j = k
    BY <1>1, <1>2, <1>3, <2>1 DEF HasAccount
  <2>2. CASE j # k
    <3>1. CASE HasAccount(invites[j].email)
      BY <1>1, <1>3, <3>1 DEF HasAccount
    <3>2. CASE \E q \in Requests : At(q, "createInvited") /\ request[q].invite = j
      BY <1>1, <2>2, <3>2 DEF At
    <3>3. CASE j \in K
      BY <1>1, <3>3
    <3> QED
      BY <3>1, <3>2, <3>3 DEF SpentBut
  <2> QED
    BY <2>1, <2>2
<1>4. CASE HasAccount(request[r].email) /\ UNCHANGED accounts
  <2>1. AdminsInvite'
    BY <1>1, <1>4 DEF Owned, AdminsInvite, At
  <2>2. OneFounder' /\ AccountsRedeem'
    BY <1>1, <1>4 DEF Owned, OneFounder, AccountsRedeem
  <2>3. RedemptionOwns'
    BY <1>1, <1>4 DEF Owned, RedemptionOwns, At
  <2>4. SpentBut(K)'
    BY <1>3, <1>4 DEF HasAccount
  <2> QED
    BY <2>1, <2>2, <2>3, <2>4 DEF Owned
<1>5. CASE /\ Len(accounts') = n + 1 /\ DOMAIN accounts' = 1..(n + 1)
           /\ \A a \in 1..n : accounts'[a] = accounts[a]
           /\ accounts'[n + 1].email = request[r].email /\ accounts'[n + 1].invite = k
           /\ accounts'[n + 1].role = invites[k].role
           /\ accounts'[n + 1].invitedBy = invites[k].invitedBy
  <2>1. /\ invites[k].invitedBy \in 1..n
        /\ accounts[invites[k].invitedBy].role = "admin"
    BY <1>1 DEF Owned, AdminsInvite
  <2>2. AdminsInvite'
    <3>1. ASSUME NEW j \in DOMAIN invites
          PROVE  /\ invites[j].invitedBy \in DOMAIN accounts'
                 /\ accounts'[invites[j].invitedBy].role = "admin"
      BY <1>1, <1>5 DEF Owned, AdminsInvite
    <3>2. ASSUME NEW q \in Requests, request'[q].pc = "invite"
          PROVE  /\ request'[q].account \in DOMAIN accounts'
                 /\ accounts'[request'[q].account].role = "admin"
      <4>1. At(q, "invite") /\ request'[q] = request[q]
        BY <1>1, <3>2 DEF At
      <4> QED
        BY <1>1, <1>5, <4>1 DEF Owned, AdminsInvite
    <3> QED
      BY <1>1, <3>1, <3>2 DEF AdminsInvite, At
  <2>3. OneFounder'
    <3> SUFFICES ASSUME NEW a \in 1..(n + 1)
                 PROVE  LET by == accounts'[a].invitedBy
                        IN  IF a = 1 THEN by = Nobody /\ accounts'[a].role = "admin"
                            ELSE by \in 1..(a - 1) /\ accounts'[by].role = "admin"
      BY <1>5 DEF OneFounder
    <3>1. CASE a = n + 1
      <4>1. n # 0 /\ a # 1
        BY <1>1, <2>1, <3>1
      <4> QED
        BY <1>1, <1>5, <2>1, <3>1, <4>1
    <3>2. CASE a # n + 1
      <4>1. a \in 1..n
        BY <1>1, <3>2
      <4>2. a # 1 => accounts[a].invitedBy \in 1..n
        BY <1>1, <4>1 DEF Owned, OneFounder
      <4> QED
        BY <1>1, <1>5, <4>1, <4>2 DEF Owned, OneFounder
    <3> QED
      BY <3>1, <3>2
  <2>4. AccountsRedeem'
    <3> SUFFICES ASSUME NEW a \in 2..(n + 1)
                 PROVE  LET j == accounts'[a].invite
                        IN  /\ j \in DOMAIN invites
                            /\ invites[j].usedAt # 0
                            /\ invites[j].usedAt < invites[j].expiresAt
                            /\ accounts'[a].email = invites[j].email
                            /\ accounts'[a].role = invites[j].role
                            /\ \A b \in (2..(n + 1)) \ {a} : accounts'[b].invite # j
      BY <1>1, <1>5 DEF AccountsRedeem
    <3>1. CASE a = n + 1
      <4>1. ASSUME NEW b \in (2..(n + 1)) \ {a} PROVE accounts'[b].invite # k
        <5>1. b \in 2..n /\ b \in 1..n
          BY <1>1, <3>1
        <5> QED
          BY <1>2, <1>5, <5>1
      <4> QED
        BY <1>1, <1>2, <1>5, <3>1, <4>1
    <3>2. CASE a # n + 1
      <4>1. a \in 2..n /\ a \in 1..n /\ accounts'[a] = accounts[a] /\ accounts[a].invite # k
        BY <1>1, <1>2, <1>5, <3>2
      <4>2. ASSUME NEW b \in (2..(n + 1)) \ {a} PROVE accounts'[b].invite # accounts[a].invite
        <5>1. CASE b = n + 1
          BY <1>5, <4>1, <5>1
        <5>2. CASE b # n + 1
          <6>1. b \in (2..n) \ {a} /\ b \in 1..n
            BY <1>1, <5>2
          <6> QED
            BY <1>5, <4>1, <6>1 DEF Owned, AccountsRedeem
        <5> QED
          BY <5>1, <5>2
      <4> QED
        BY <4>1, <4>2 DEF Owned, AccountsRedeem
    <3> QED
      BY <3>1, <3>2
  <2>5. RedemptionOwns'
    <3> SUFFICES ASSUME NEW q \in Requests, At(q, "createInvited")'
                 PROVE  LET j == request'[q].invite
                        IN  /\ j \in DOMAIN invites
                            /\ invites[j].usedAt # 0
                            /\ invites[j].usedAt < invites[j].expiresAt
                            /\ invites[j].email = request'[q].email
                            /\ \A a \in 2..(n + 1) : accounts'[a].invite # j
                            /\ \A p \in Requests \ {q} :
                                  At(p, "createInvited")' => request'[p].invite # j
      BY <1>1, <1>5 DEF RedemptionOwns
    <3>1. q # r /\ At(q, "createInvited") /\ request'[q] = request[q]
      BY <1>1 DEF At
    <3>2. request[q].invite # k
      BY <1>2, <3>1
    <3>3. ASSUME NEW a \in 2..(n + 1) PROVE accounts'[a].invite # request[q].invite
      <4>1. CASE a = n + 1
        BY <1>5, <3>2, <4>1
      <4>2. CASE a # n + 1
        <5>1. a \in 2..n /\ a \in 1..n
          BY <1>1, <4>2
        <5> QED
          BY <1>5, <3>1, <5>1 DEF Owned, RedemptionOwns
      <4> QED
        BY <4>1, <4>2
    <3>4. ASSUME NEW p \in Requests \ {q}, At(p, "createInvited")'
          PROVE  request'[p].invite # request[q].invite
      <4>1. At(p, "createInvited") /\ request'[p] = request[p]
        BY <1>1, <3>4 DEF At
      <4> QED
        BY <3>1, <4>1 DEF Owned, RedemptionOwns
    <3> QED
      BY <3>1, <3>3, <3>4 DEF Owned, RedemptionOwns
  <2>6. SpentBut(K)'
    <3>1. n + 1 \in DOMAIN accounts' /\ accounts'[n + 1].email = request[r].email
      BY <1>1, <1>5
    <3>2. \A a \in DOMAIN accounts : a \in DOMAIN accounts' /\ accounts'[a] = accounts[a]
      BY <1>1, <1>5
    <3> QED
      BY <1>3, <3>1, <3>2
  <2> QED
    BY <2>2, <2>3, <2>4, <2>5, <2>6 DEF Owned
<1> QED
  BY <1>1, <1>4, <1>5

\* A new invite is unused and its inviter is an administrator.
LEMMA CreateInviteOwned ==
  ASSUME Typed, Owned, NEW r \in Requests, CreateInvite(r),
         NEW CONSTANT K, SpentBut(K)
  PROVE  Owned' /\ SpentBut(K)'
<1> DEFINE n == Len(invites)
<1>1. /\ UNCHANGED <<accounts, faults>>
      /\ \A q \in Requests \ {r} : request'[q] = request[q]
      /\ request[r].pc = "invite" /\ request'[r].pc = "idle"
      /\ n \in Nat /\ DOMAIN invites = 1..n /\ DOMAIN invites' = 1..(n + 1)
      /\ \A k \in 1..n : invites'[k] = invites[k]
      /\ invites'[n + 1].usedAt = 0
      /\ invites'[n + 1].invitedBy = request[r].account
  BY CreateInviteGoes
<1>2. \A k \in DOMAIN invites : k \in DOMAIN invites' /\ invites'[k] = invites[k]
  BY <1>1
<1>3. \A k \in DOMAIN invites' : k \in DOMAIN invites \/ k = n + 1
  BY <1>1
<1>4. AdminsInvite'
  BY <1>1, <1>2, <1>3 DEF Owned, AdminsInvite, At
<1>5. OneFounder'
  BY <1>1 DEF Owned, OneFounder
<1>6. AccountsRedeem'
  BY <1>1, <1>2 DEF Owned, AccountsRedeem
<1>7. RedemptionOwns'
  BY <1>1, <1>2 DEF Owned, RedemptionOwns, At
<1>8. SpentBut(K)'
  <2> SUFFICES ASSUME NEW j \in DOMAIN invites', invites'[j].usedAt # 0
               PROVE  (\/ HasAccount(invites[j].email)
                       \/ \E q \in Requests : At(q, "createInvited") /\ request[q].invite = j
                       \/ j \in K)'
    BY DEF SpentBut
  <2>1. j \in DOMAIN invites /\ invites'[j] = invites[j]
    BY <1>1, <1>2, <1>3
  <2> QED
    BY <1>1, <2>1 DEF SpentBut, HasAccount, At
<1> QED
  BY <1>4, <1>5, <1>6, <1>7, <1>8 DEF Owned

LEMMA RevokeInviteOwned ==
  ASSUME Typed, Owned, NEW r \in Requests, RevokeInvite(r),
         NEW CONSTANT K, SpentBut(K)
  PROVE  Owned' /\ SpentBut(K)'
<1>1. /\ UNCHANGED <<accounts, faults>>
      /\ \A q \in Requests \ {r} : request'[q] = request[q]
      /\ request[r].pc = "revoke" /\ request'[r].pc = "idle"
      /\ DOMAIN invites' = DOMAIN invites
      /\ \A k \in DOMAIN invites :
            /\ invites'[k].email = invites[k].email /\ invites'[k].role = invites[k].role
            /\ invites'[k].invitedBy = invites[k].invitedBy
            /\ invites'[k].usedAt = invites[k].usedAt
            /\ invites'[k].expiresAt = invites[k].expiresAt
  BY RevokeInviteGoes
<1>2. AdminsInvite'
  BY <1>1 DEF Owned, AdminsInvite, At
<1>3. OneFounder'
  BY <1>1 DEF Owned, OneFounder
<1>4. AccountsRedeem'
  BY <1>1 DEF Owned, AccountsRedeem
<1>5. RedemptionOwns'
  BY <1>1 DEF Owned, RedemptionOwns, At
<1>6. SpentBut(K)'
  BY <1>1 DEF SpentBut, HasAccount, At
<1> QED
  BY <1>2, <1>3, <1>4, <1>5, <1>6 DEF Owned

LEMMA OwnedInit == Init => Owned
<1> SUFFICES ASSUME Init PROVE Owned
  OBVIOUS
<1>1. Len(accounts) = 0 /\ DOMAIN accounts = {} /\ DOMAIN invites = {}
  BY DEF Init
<1>2. \A r \in Requests : request[r].pc = "idle"
  BY QuietTyped DEF Init
<1> QED
  BY <1>1, <1>2 DEF Owned, AdminsInvite, OneFounder, RedemptionOwns, AccountsRedeem, At

\* Only a failure adds an invite to those spent in vain, the one it was about.
Losing(K) ==
    \/ SpentBut(K)' /\ faults' = faults
    \/ \E j : SpentBut(K \cup {j})' /\ faults' = faults + 1

LEMMA StepOwned ==
  ASSUME Typed, Owned, [Next]_vars, NEW CONSTANT K, SpentBut(K)
  PROVE  Owned' /\ Losing(K)
<1>1. CASE UNCHANGED vars
  <2>1. Owned'
    BY <1>1 DEF Owned, AdminsInvite, OneFounder, RedemptionOwns, AccountsRedeem, At, vars, store
  <2>2. SpentBut(K)' /\ faults' = faults
    BY <1>1 DEF SpentBut, HasAccount, At, vars, store
  <2> QED
    BY <2>1, <2>2 DEF Losing
<1>2. CASE Full
  BY <1>1, <1>2 DEF Full
<1>3. ASSUME NEW r \in Requests, Elsewhere(r) PROVE Owned' /\ Losing(K)
  BY <1>3, ElsewhereOwned, ElsewhereGoes DEF Losing
<1>4. ASSUME NEW r \in Requests, RequestFails(r) PROVE Owned' /\ Losing(K)
  BY <1>4, RequestFailsOwned DEF Losing
<1>5. ASSUME NEW r \in Requests, BeginAdmin(r, "invite") PROVE Owned' /\ Losing(K)
  BY <1>5, BeginInviteOwned, BeginInviteGoes DEF Losing
<1>6. ASSUME NEW r \in Requests, CreateUser(r) PROVE Owned' /\ Losing(K)
  <2>1. faults' = faults
    BY <1>6 DEF CreateUser
  <2> QED
    BY <1>6, <2>1, CreateUserOwned DEF Losing
<1>7. ASSUME NEW r \in Requests, ClaimInvite(r) PROVE Owned' /\ Losing(K)
  <2>1. faults' = faults
    BY <1>7 DEF ClaimInvite
  <2> QED
    BY <1>7, <2>1, ClaimInviteOwned DEF Losing
<1>8. ASSUME NEW r \in Requests, CreateInvitedUser(r) PROVE Owned' /\ Losing(K)
  <2>1. faults' = faults
    BY <1>8 DEF CreateInvitedUser
  <2> QED
    BY <1>8, <2>1, CreateInvitedUserOwned DEF Losing
<1>9. ASSUME NEW r \in Requests, CreateInvite(r) PROVE Owned' /\ Losing(K)
  <2>1. faults' = faults
    BY <1>9 DEF CreateInvite
  <2> QED
    BY <1>9, <2>1, CreateInviteOwned DEF Losing
<1>10. ASSUME NEW r \in Requests, RevokeInvite(r) PROVE Owned' /\ Losing(K)
  <2>1. faults' = faults
    BY <1>10 DEF RevokeInvite
  <2> QED
    BY <1>10, <2>1, RevokeInviteOwned DEF Losing
<1> QED
  BY <1>1, <1>2, <1>3, <1>4, <1>5, <1>6, <1>7, <1>8, <1>9, <1>10 DEF Next, Elsewhere

\* Whatever was spent in vain, the accounts stay as they should be.
LEMMA OwnedNext == Typed /\ Owned /\ [Next]_vars => Owned'
<1> SUFFICES ASSUME Typed, Owned, [Next]_vars PROVE Owned'
  OBVIOUS
<1>1. SpentBut(Nat)
  BY LenProperties DEF SpentBut, Typed
<1> QED
  BY <1>1, StepOwned

LEMMA AlwaysOwned == Spec => []Owned
<1> QED
  BY OwnedInit, OwnedNext, AlwaysTyped, PTL DEF Spec

LEMMA InVainFinite ==
  ASSUME Typed
  PROVE  IsFiniteSet(SpentInVain)
<1>1. DOMAIN invites = 1..Len(invites) /\ Len(invites) \in Nat
  BY LenProperties DEF Typed
<1>2. IsFiniteSet(DOMAIN invites)
  BY <1>1, FS_Interval
<1> QED
  BY <1>2, FS_Subset DEF SpentInVain

LEMMA SpendingInit == Init => SpentInviteIsAccountedFor
<1> SUFFICES ASSUME Init PROVE SpentInviteIsAccountedFor
  OBVIOUS
<1>1. SpentInVain = {} /\ faults = 0
  BY DEF Init, SpentInVain
<1> QED
  BY <1>1, FS_EmptySet DEF SpentInviteIsAccountedFor

LEMMA SpendingNext ==
  Typed /\ Typed' /\ Owned /\ SpentInviteIsAccountedFor /\ [Next]_vars
      => SpentInviteIsAccountedFor'
<1> SUFFICES ASSUME Typed, Typed', Owned, SpentInviteIsAccountedFor, [Next]_vars
             PROVE  SpentInviteIsAccountedFor'
  OBVIOUS
<1>1. PICK K : K = SpentInVain
  OBVIOUS
<1>2. IsFiniteSet(K) /\ Cardinality(K) \in Nat /\ Cardinality(K) <= faults /\ faults \in Nat
  BY <1>1, InVainFinite, FS_CardinalityType DEF SpentInviteIsAccountedFor, Typed
<1>3. SpentBut(K)
  BY <1>1 DEF SpentInVain, SpentBut
<1>4. Losing(K)
  BY <1>3, StepOwned
<1>5. CASE SpentBut(K)' /\ faults' = faults
  <2>1. SpentInVain' \subseteq K
    BY <1>5 DEF SpentInVain, SpentBut
  <2>2. Cardinality(SpentInVain') \in Nat /\ Cardinality(SpentInVain') <= Cardinality(K)
    BY <1>2, <2>1, FS_Subset, FS_CardinalityType
  <2> QED
    BY <1>2, <1>5, <2>2 DEF SpentInviteIsAccountedFor
<1>6. CASE \E j : SpentBut(K \cup {j})' /\ faults' = faults + 1
  <2>1. PICK j : SpentBut(K \cup {j})' /\ faults' = faults + 1
    BY <1>6
  <2>2. SpentInVain' \subseteq K \cup {j}
    BY <2>1 DEF SpentInVain, SpentBut
  <2>3. /\ IsFiniteSet(K \cup {j}) /\ Cardinality(K \cup {j}) \in Nat
        /\ Cardinality(K \cup {j}) <= Cardinality(K) + 1
    BY <1>2, FS_AddElement, FS_CardinalityType
  <2>4. Cardinality(SpentInVain') \in Nat /\ Cardinality(SpentInVain') <= Cardinality(K \cup {j})
    BY <2>2, <2>3, FS_Subset, FS_CardinalityType
  <2> QED
    BY <1>2, <2>1, <2>3, <2>4 DEF SpentInviteIsAccountedFor
<1> QED
  BY <1>4, <1>5, <1>6 DEF Losing

-----------------------------------------------------------------------------
(* Logins: what is recorded and what is in hand *)

\* The failures of an email that still count, and the requests that were let
\* through and have not recorded their outcome.
Spent(e) ==
    {k \in DOMAIN attempts : /\ attempts[k].email = e
                             /\ attempts[k].at > WindowStart(clock, LoginWindow)}

InHand(e) ==
    {r \in Requests : request[r].pc \in {"compare", "record"} /\ request[r].email = e}

Allowance(e) ==
    Cardinality(Spent(e)) + Cardinality(InHand(e))
        <= MaxLoginAttempts - 1 + Cardinality(Requests)

Allowances == \A e \in Emails : Allowance(e)

LEMMA LoginsFinite ==
  ASSUME Typed, NEW e
  PROVE  /\ IsFiniteSet(Spent(e)) /\ IsFiniteSet(InHand(e)) /\ IsFiniteSet(Requests)
         /\ Cardinality(Spent(e)) \in Nat /\ Cardinality(InHand(e)) \in Nat
         /\ Cardinality(InHand(e)) <= Cardinality(Requests)
         /\ Cardinality(Requests) \in Nat
<1>1. Len(attempts) \in Nat /\ DOMAIN attempts = 1..Len(attempts)
  BY LenProperties DEF Typed, AttemptsTyped
<1>2. IsFiniteSet(DOMAIN attempts)
  BY <1>1, FS_Interval
<1>3. Spent(e) \subseteq DOMAIN attempts /\ InHand(e) \subseteq Requests
  BY DEF Spent, InHand
<1>4. IsFiniteSet(Requests)
  BY IdentityAssumption
<1>5. /\ IsFiniteSet(Spent(e)) /\ IsFiniteSet(InHand(e))
      /\ Cardinality(InHand(e)) <= Cardinality(Requests)
  BY <1>2, <1>3, <1>4, FS_Subset
<1> QED
  BY <1>4, <1>5, FS_CardinalityType

\* Nothing recorded, nobody let through: what counted may stop counting.
LEMMA NobodyLetThrough ==
  ASSUME Typed, Typed', Allowances, UNCHANGED attempts, clock <= clock',
         NEW r \in Requests,
         \A q \in Requests \ {r} : request'[q] = request[q],
         request'[r].pc \in {"compare", "record"} =>
            request[r].pc \in {"compare", "record"} /\ request'[r].email = request[r].email
  PROVE  Allowances'
<1> SUFFICES ASSUME NEW e \in Emails PROVE Allowance(e)'
  BY DEF Allowances
<1>a. \A q \in Requests : request'[q].pc \in {"compare", "record"} =>
          request[q].pc \in {"compare", "record"} /\ request'[q].email = request[q].email
  OBVIOUS
<1>1. Spent(e)' \subseteq Spent(e)
  <2>1. clock \in Int /\ clock' \in Int /\ LoginWindow \in Int
    BY IdentityAssumption DEF Typed
  <2>2. \A k \in DOMAIN attempts : attempts[k].at \in Int
    BY DEF Typed, AttemptsTyped
  <2> QED
    BY <2>1, <2>2 DEF Spent, WindowStart
<1>2. InHand(e)' \subseteq InHand(e)
  <2> SUFFICES ASSUME NEW q \in Requests,
                      request'[q].pc \in {"compare", "record"}, request'[q].email = e
               PROVE  request[q].pc \in {"compare", "record"} /\ request[q].email = e
    BY DEF InHand
  <2> QED
    BY <1>a
<1>3. IsFiniteSet(Spent(e)) /\ IsFiniteSet(InHand(e))
  BY LoginsFinite
<1>4. /\ Cardinality(Spent(e)') + Cardinality(InHand(e)')
            <= Cardinality(Spent(e)) + Cardinality(InHand(e))
      /\ Cardinality(Spent(e)') \in Nat /\ Cardinality(InHand(e)') \in Nat
      /\ Cardinality(Spent(e)) \in Nat /\ Cardinality(InHand(e)) \in Nat
  BY <1>1, <1>2, <1>3, NeitherGrows
<1>5. Cardinality(Requests) \in Nat /\ MaxLoginAttempts \in Int
  BY LoginsFinite, IdentityAssumption
<1> QED
  BY <1>4, <1>5 DEF Allowances, Allowance

\* The operations away from the middle of a login.
NotInLogin(r) ==
    \/ BeginRegister(r) \/ CreateUser(r)
    \/ BeginRedeem(r) \/ ClaimInvite(r) \/ CreateInvitedUser(r)
    \/ StartSession(r) \/ Logout(r) \/ BeginLogin(r)
    \/ BeginAdmin(r, "invite") \/ CreateInvite(r)
    \/ BeginAdmin(r, "revoke") \/ RevokeInvite(r)
    \/ RequestFails(r)

LEMMA NotInLoginGoes ==
  ASSUME Typed, NEW r \in Requests, NotInLogin(r)
  PROVE  /\ UNCHANGED attempts /\ clock <= clock'
         /\ \A q \in Requests \ {r} : request'[q] = request[q]
         /\ request'[r].pc \in {"compare", "record"} => request'[r] = request[r]
<1>1. UNCHANGED attempts
  BY DEF NotInLogin, BeginRegister, CreateUser, BeginRedeem, ClaimInvite, CreateInvitedUser,
     StartSession, Logout, BeginLogin, BeginAdmin, CreateInvite, RevokeInvite, RequestFails,
     store
<1>2. clock <= clock'
  <2>1. clock' = clock \/ \E t \in Instants : ReadClock(t)
    BY DEF NotInLogin, BeginRegister, CreateUser, BeginRedeem, ClaimInvite, CreateInvitedUser,
       StartSession, Logout, BeginLogin, BeginAdmin, CreateInvite, RevokeInvite, RequestFails
  <2>2. clock \in Int
    BY DEF Typed
  <2>3. ASSUME NEW t \in Instants, ReadClock(t) PROVE clock <= clock'
    BY <2>2, <2>3 DEF ReadClock, Instants
  <2> QED
    BY <2>1, <2>2, <2>3
<1>3. \/ UNCHANGED request
      \/ \E x : Become(r, x) /\ x.pc \notin {"compare", "record"}
  <2>1. CASE Logout(r)
    BY <2>1 DEF Logout
  <2>2. CASE \/ StartSession(r) \/ CreateInvite(r) \/ RevokeInvite(r) \/ RequestFails(r)
    BY <2>2, QuietTyped DEF StartSession, CreateInvite, RevokeInvite, RequestFails, Respond
  <2>3. CASE BeginRegister(r)
    <3>1. PICK e \in Emails : Become(r, [Quiet EXCEPT !.pc = "create", !.email = e])
      BY <2>3 DEF BeginRegister
    <3>2. [Quiet EXCEPT !.pc = "create", !.email = e].pc = "create"
      BY DEF Quiet
    <3> QED
      BY <3>1, <3>2
  <2>4. CASE CreateUser(r) \/ CreateInvitedUser(r)
    <3> DEFINE x == [Quiet EXCEPT !.pc = "session", !.account = Len(accounts) + 1]
    <3>1. Become(r, x) \/ Become(r, Quiet)
      BY <2>4 DEF CreateUser, CreateInvitedUser, Respond
    <3>2. x.pc = "session"
      BY DEF Quiet
    <3> QED
      BY <3>1, <3>2, QuietTyped
  <2>5. CASE BeginRedeem(r)
    <3>1. PICK now \in Instants, k \in DOMAIN invites, e \in Emails :
            Become(r, [Quiet EXCEPT !.pc = "claim", !.now = now, !.email = e, !.invite = k])
      BY <2>5 DEF BeginRedeem
    <3>2. [Quiet EXCEPT !.pc = "claim", !.now = now, !.email = e, !.invite = k].pc = "claim"
      BY DEF Quiet
    <3> QED
      BY <3>1, <3>2
  <2>6. CASE ClaimInvite(r)
    <3> DEFINE x == [request[r] EXCEPT !.pc = "createInvited"]
    <3>1. Become(r, x) \/ Become(r, Quiet)
      BY <2>6 DEF ClaimInvite, Respond
    <3>2. x.pc = "createInvited"
      BY DEF Typed, RequestsTyped, RequestState
    <3> QED
      BY <3>1, <3>2, QuietTyped
  <2>7. CASE BeginLogin(r)
    <3>1. PICK now \in Instants, e \in Emails :
            Become(r, [Quiet EXCEPT !.pc = "count", !.now = now, !.email = e])
      BY <2>7 DEF BeginLogin
    <3>2. [Quiet EXCEPT !.pc = "count", !.now = now, !.email = e].pc = "count"
      BY DEF Quiet
    <3> QED
      BY <3>1, <3>2
  <2>8. ASSUME NEW pc \in {"invite", "revoke"}, BeginAdmin(r, pc)
        PROVE  \E x : Become(r, x) /\ x.pc \notin {"compare", "record"}
    <3>1. PICK a \in DOMAIN accounts : Become(r, [Quiet EXCEPT !.pc = pc, !.account = a])
      BY <2>8 DEF BeginAdmin
    <3>2. [Quiet EXCEPT !.pc = pc, !.account = a].pc = pc
      BY DEF Quiet
    <3> QED
      BY <3>1, <3>2
  <2> QED
    BY <2>1, <2>2, <2>3, <2>4, <2>5, <2>6, <2>7, <2>8 DEF NotInLogin
<1>4. CASE UNCHANGED request
  BY <1>1, <1>2, <1>4
<1>5. ASSUME NEW x, Become(r, x), x.pc \notin {"compare", "record"}
      PROVE  /\ \A q \in Requests \ {r} : request'[q] = request[q]
             /\ request'[r].pc \notin {"compare", "record"}
  BY <1>5, Moved
<1> QED
  BY <1>1, <1>2, <1>3, <1>4, <1>5

\* Let through: what it counted, at the instant it began, is at least what
\* counts now, and below the ceiling; in hand there is no more than everybody.
LEMMA CheckAttemptsAllows ==
  ASSUME MaxLoginAttempts > 0, Typed, Typed', Allowances, NEW r \in Requests, CheckAttempts(r)
  PROVE  Allowances'
<1> DEFINE x == [request[r] EXCEPT !.pc = "compare"]
           start == WindowStart(request[r].now, LoginWindow)
           failed == FailedLoginsInWindow(request[r].email, start)
<1>0. /\ request[r] \in RequestState /\ request[r].pc = "count"
      /\ request[r].now \in Nat /\ request[r].now <= clock
      /\ clock \in Nat /\ LoginWindow \in Nat /\ MaxLoginAttempts \in Int
  BY IdentityAssumption DEF Typed, RequestsTyped, Fits, RequestState, CheckAttempts, At
<1>1. UNCHANGED <<attempts, clock>>
  BY DEF CheckAttempts, store
<1>2. CASE ~LoginAttempts(failed, MaxLoginAttempts).allowed
  <2>1. Become(r, Quiet)
    BY <1>2 DEF CheckAttempts, Respond
  <2>2. request'[r].pc = "idle" /\ \A q \in Requests \ {r} : request'[q] = request[q]
    BY <2>1, Moved, QuietTyped
  <2>3. clock <= clock'
    BY <1>0, <1>1
  <2> QED
    BY <1>1, <2>2, <2>3, NobodyLetThrough
<1>3. CASE LoginAttempts(failed, MaxLoginAttempts).allowed
  <2>1. Become(r, x)
    BY <1>3 DEF CheckAttempts
  <2>2. x.pc = "compare" /\ x.email = request[r].email
    BY <1>0 DEF RequestState
  <2> HIDE DEF x
  <2>3. request'[r] = x /\ \A q \in Requests \ {r} : request'[q] = request[q]
    BY <2>1, Moved
  <2> DEFINE counted == {k \in DOMAIN attempts :
                            attempts[k].email = request[r].email /\ attempts[k].at > start}
  <2>4. IsFiniteSet(counted) /\ Cardinality(counted) \in Nat
    <3>1. Len(attempts) \in Nat /\ DOMAIN attempts = 1..Len(attempts)
      BY LenProperties DEF Typed, AttemptsTyped
    <3>2. IsFiniteSet(DOMAIN attempts)
      BY <3>1, FS_Interval
    <3>3. counted \subseteq DOMAIN attempts
      OBVIOUS
    <3>4. IsFiniteSet(counted)
      BY <3>2, <3>3, FS_Subset
    <3> QED
      BY <3>4, FS_CardinalityType
  <2>5. failed = Cardinality(counted)
    BY DEF FailedLoginsInWindow
  <2> HIDE DEF counted
  <2>6. Cardinality(counted) <= MaxLoginAttempts - 1
    BY <1>0, <1>3, <2>4, <2>5 DEF LoginAttempts, AtMost
  <2> SUFFICES ASSUME NEW e \in Emails PROVE Allowance(e)'
    BY DEF Allowances
  <2>7. CASE e = request[r].email
    <3>1. Spent(e)' \subseteq counted
      <4>1. \A k \in DOMAIN attempts : attempts[k].at \in Int
        BY DEF Typed, AttemptsTyped
      <4> QED
        BY <1>0, <1>1, <2>7, <4>1 DEF Spent, WindowStart, counted
    <3>2. Cardinality(Spent(e)') <= Cardinality(counted)
      BY <2>4, <3>1, FS_Subset
    <3>3. /\ Cardinality(Spent(e)') \in Nat /\ Cardinality(InHand(e)') \in Nat
          /\ Cardinality(InHand(e)') <= Cardinality(Requests)
          /\ Cardinality(Requests) \in Nat
      <4>1. IsFiniteSet(Spent(e)') /\ IsFiniteSet(Requests)
        BY <2>4, <3>1, FS_Subset, IdentityAssumption
      <4>2. InHand(e)' \subseteq Requests
        BY DEF InHand
      <4>3. IsFiniteSet(InHand(e)') /\ Cardinality(InHand(e)') <= Cardinality(Requests)
        BY <4>1, <4>2, FS_Subset
      <4> QED
        BY <4>1, <4>3, FS_CardinalityType
    <3> QED
      BY <1>0, <2>4, <2>6, <3>2, <3>3 DEF Allowance
  <2>8. CASE e # request[r].email
    <3>1. Spent(e)' = Spent(e)
      BY <1>1 DEF Spent
    <3>2. InHand(e)' = InHand(e)
      BY <1>0, <2>2, <2>3, <2>8 DEF InHand
    <3> QED
      BY <3>1, <3>2 DEF Allowances, Allowance
  <2> QED
    BY <2>7, <2>8
<1> QED
  BY <1>2, <1>3

LEMMA CompareAllows ==
  ASSUME Typed, Typed', Allowances, NEW r \in Requests, Compare(r)
  PROVE  Allowances'
<1>1. PICK a \in DOMAIN accounts \cup {request[r].account} :
        Become(r, [request[r] EXCEPT !.pc = "record", !.account = a])
  <2>1. CASE Become(r, [request[r] EXCEPT !.pc = "record"])
    <3>1. [request[r] EXCEPT !.pc = "record"]
             = [request[r] EXCEPT !.pc = "record", !.account = request[r].account]
      BY DEF Typed, RequestsTyped, RequestState
    <3> QED
      BY <2>1, <3>1
  <2>2. CASE \E a \in DOMAIN accounts :
                Become(r, [request[r] EXCEPT !.pc = "record", !.account = a])
    BY <2>2
  <2> QED
    BY <2>1, <2>2 DEF Compare, CredentialsByEmail
<1> DEFINE x == [request[r] EXCEPT !.pc = "record", !.account = a]
<1>2. x.pc = "record" /\ x.email = request[r].email /\ request[r].pc = "compare"
  BY DEF Typed, RequestsTyped, RequestState, Compare, At
<1>3. Become(r, x)
  BY <1>1
<1> HIDE DEF x
<1>4. request'[r] = x /\ \A q \in Requests \ {r} : request'[q] = request[q]
  BY <1>3, Moved
<1>5. attempts' = attempts /\ clock' = clock
  BY DEF Compare, store
<1>6. clock <= clock'
  BY <1>5 DEF Typed
<1> QED
  BY <1>2, <1>4, <1>5, <1>6, NobodyLetThrough

\* A failure goes from the hand to the record; a success only leaves the hand.
LEMMA RecordAllows ==
  ASSUME Typed, Typed', Allowances, NEW r \in Requests, RecordLoginAttempt(r)
  PROVE  Allowances'
<1>0. request[r] \in RequestState /\ request[r].pc = "record" /\ clock \in Nat /\ clock' = clock
  BY DEF Typed, RequestsTyped, RecordLoginAttempt, At
<1>1. CASE request[r].account # Nobody
  <2> DEFINE x == [Quiet EXCEPT !.pc = "session", !.account = request[r].account]
  <2>1. Become(r, x) /\ UNCHANGED attempts
    BY <1>1 DEF RecordLoginAttempt
  <2>2. x.pc = "session"
    BY DEF Quiet
  <2> HIDE DEF x
  <2>3. request'[r].pc = "session" /\ \A q \in Requests \ {r} : request'[q] = request[q]
    BY <2>1, <2>2, Moved
  <2>4. clock <= clock'
    BY <1>0
  <2> QED
    BY <2>1, <2>3, <2>4, NobodyLetThrough
<1>2. CASE request[r].account = Nobody
  <2> DEFINE row == [email |-> request[r].email, at |-> request[r].now]
             n == Len(attempts)
  <2>1. attempts' = Append(attempts, row) /\ Become(r, Quiet)
    BY <1>2 DEF RecordLoginAttempt, LogAttempt, Respond
  <2>2. row \in [email : Emails, at : Nat]
    BY DEF Typed, RequestsTyped, Fits, RequestState, RecordLoginAttempt, At
  <2>3. /\ n \in Nat /\ DOMAIN attempts = 1..n /\ DOMAIN attempts' = 1..(n + 1)
        /\ \A k \in 1..n : attempts'[k] = attempts[k]
        /\ attempts'[n + 1] = row
    <3>1. attempts \in Seq([email : Emails, at : Nat])
      BY DEF Typed, AttemptsTyped
    <3> QED
      BY <2>1, <2>2, <3>1, AppendProperties, LenProperties
  <2>4. request'[r].pc = "idle" /\ \A q \in Requests \ {r} : request'[q] = request[q]
    BY <2>1, Moved, QuietTyped
  <2> SUFFICES ASSUME NEW e \in Emails PROVE Allowance(e)'
    BY DEF Allowances
  <2>5. IsFiniteSet(Spent(e)) /\ IsFiniteSet(InHand(e))
        /\ Cardinality(Spent(e)) \in Nat /\ Cardinality(InHand(e)) \in Nat
        /\ Cardinality(Requests) \in Nat /\ MaxLoginAttempts \in Int
    BY LoginsFinite, IdentityAssumption
  <2>6. InHand(e)' \subseteq InHand(e) \ {r}
    BY <2>4 DEF InHand
  <2>7. CASE e = request[r].email
    <3>1. r \in InHand(e)
      BY <1>0, <2>7 DEF InHand
    <3>2. Spent(e)' \subseteq Spent(e) \cup {n + 1}
      BY <1>0, <2>3 DEF Spent
    <3>3. /\ Cardinality(Spent(e)') \in Nat /\ Cardinality(InHand(e)') \in Nat
          /\ Cardinality(Spent(e)') + Cardinality(InHand(e)')
                <= Cardinality(Spent(e)) + Cardinality(InHand(e))
      <4>1. OneMore(Spent(e), Spent(e)')
        BY <3>2 DEF OneMore
      <4>2. OneFewer(InHand(e), InHand(e)')
        BY <2>6, <3>1 DEF OneFewer
      <4> QED
        BY <2>5, <4>1, <4>2, OneMovesOver
    <3> QED
      BY <2>5, <3>3 DEF Allowances, Allowance
  <2>8. CASE e # request[r].email
    <3>1. Spent(e)' \subseteq Spent(e)
      <4> SUFFICES ASSUME NEW k \in 1..(n + 1), attempts'[k].email = e,
                          attempts'[k].at > WindowStart(clock, LoginWindow)
                   PROVE  k \in Spent(e)
        BY <1>0, <2>3 DEF Spent
      <4>1. k # n + 1
        BY <2>3, <2>8
      <4>2. k \in 1..n
        BY <2>3, <4>1
      <4> QED
        BY <2>3, <4>2 DEF Spent
    <3>2. InHand(e)' \subseteq InHand(e)
      BY <2>6
    <3>3. /\ Cardinality(Spent(e)') \in Nat /\ Cardinality(InHand(e)') \in Nat
          /\ Cardinality(Spent(e)') + Cardinality(InHand(e)')
                <= Cardinality(Spent(e)) + Cardinality(InHand(e))
      BY <2>5, <3>1, <3>2, NeitherGrows
    <3> QED
      BY <2>5, <3>3 DEF Allowances, Allowance
  <2> QED
    BY <2>7, <2>8
<1> QED
  BY <1>1, <1>2

LEMMA AllowancesInit ==
  ASSUME MaxLoginAttempts > 0
  PROVE  Init => Allowances
<1> SUFFICES ASSUME Init, NEW e \in Emails PROVE Allowance(e)
  BY DEF Allowances
<1>1. Spent(e) = {} /\ InHand(e) = {}
  BY QuietTyped DEF Init, Spent, InHand
<1>2. Cardinality({}) = 0 /\ Cardinality(Requests) \in Nat /\ MaxLoginAttempts \in Int
  BY FS_EmptySet, FS_CardinalityType, IdentityAssumption
<1> QED
  BY <1>1, <1>2 DEF Allowance

LEMMA AllowancesNext ==
  ASSUME MaxLoginAttempts > 0, Typed, Typed', Allowances, [Next]_vars
  PROVE  Allowances'
<1>1. CASE UNCHANGED vars
  BY <1>1 DEF Allowances, Allowance, Spent, InHand, vars, store
<1>2. CASE Full
  BY <1>1, <1>2 DEF Full
<1>3. ASSUME NEW r \in Requests, NotInLogin(r) PROVE Allowances'
  BY <1>3, NotInLoginGoes, NobodyLetThrough
<1> QED
  BY <1>1, <1>2, <1>3, CheckAttemptsAllows, CompareAllows, RecordAllows DEF Next, NotInLogin

-----------------------------------------------------------------------------
(* The theorems *)

\* However registrations race, one account was let in by nobody, and every other
\* by an administrator that was there before it (internal/api/auth.go handleRegister,
\* the partial unique index of user_credentials).
THEOREM FounderIsAlone == Spec => []OneFounder
<1>1. Owned => OneFounder
  BY DEF Owned
<1> QED
  BY <1>1, AlwaysOwned, PTL

\* However redemptions race, of those with one token at most one gets past the
\* claim, and its account has the invite's email and role and was created from an
\* invite that had not expired (internal/store/pg/invites.go ClaimInvite).
THEOREM RedeemedOnce == Spec => []InviteRedeemedOnce
<1>1. Owned => InviteRedeemedOnce
  BY DEF Owned, AccountsRedeem, RedemptionOwns, InviteRedeemedOnce
<1> QED
  BY <1>1, AlwaysOwned, PTL

\* An invite is spent in vain only when its email was taken or a request failed
\* between the two transactions of a redemption, and no failure costs more than
\* one invite (internal/api/auth.go handleRegister).
THEOREM SpendingAccountedFor == Spec => []SpentInviteIsAccountedFor
<1> QED
  BY SpendingInit, SpendingNext, AlwaysTyped, AlwaysOwned, PTL DEF Spec

\* A redemption reads the invite again when it claims it, so one revoked while
\* the request was under way stays unspent (internal/store/pg/invites.go).
THEOREM RevokedStaysUnspent == Spec => RevocationHolds
<1> DEFINE Unspent(k) == invites[k].revokedAt # 0 /\ invites[k].usedAt = 0
<1>1. ASSUME Typed, Owned, [Next]_vars, NEW k \in DOMAIN invites, Unspent(k)
      PROVE  invites'[k].usedAt = 0
  <2>1. CASE UNCHANGED invites
    BY <1>1, <2>1
  <2>2. ASSUME NEW r \in Requests, Elsewhere(r) \/ BeginAdmin(r, "invite") \/ RequestFails(r)
                                   \/ CreateUser(r) \/ CreateInvitedUser(r)
        PROVE  UNCHANGED invites
    BY <1>1, <2>2, ElsewhereGoes, BeginInviteGoes, RequestFailsGoes, CreateUserGoes,
       CreateInvitedUserGoes DEF Owned
  <2>3. ASSUME NEW r \in Requests, ClaimInvite(r)
        PROVE  invites'[k].usedAt = 0
    <3> DEFINE j == request[r].invite
    <3>1. \/ UNCHANGED invites
          \/ /\ Redeemable(j, request[r].email, request[r].now)
             /\ invites' = [invites EXCEPT ![j].usedAt = request[r].now]
      BY <1>1, <2>3, ClaimInviteGoes
    <3>2. CASE /\ Redeemable(j, request[r].email, request[r].now)
               /\ invites' = [invites EXCEPT ![j].usedAt = request[r].now]
      <4>1. invites[j].revokedAt = 0
        BY <3>2 DEF Redeemable, PendingInvites
      <4>2. k # j
        BY <1>1, <4>1
      <4> QED
        BY <1>1, <3>2, <4>2
    <3> QED
      BY <2>1, <3>1, <3>2
  <2>4. ASSUME NEW r \in Requests, CreateInvite(r)
        PROVE  invites'[k].usedAt = 0
    <3>1. k \in 1..Len(invites) /\ \A j \in 1..Len(invites) : invites'[j] = invites[j]
      BY <1>1, <2>4, CreateInviteGoes
    <3> QED
      BY <1>1, <3>1
  <2>5. ASSUME NEW r \in Requests, RevokeInvite(r)
        PROVE  invites'[k].usedAt = 0
    BY <1>1, <2>5, RevokeInviteGoes
  <2>6. CASE UNCHANGED vars \/ Full
    BY <2>1, <2>6 DEF Full, vars, store
  <2> QED
    BY <1>1, <2>1, <2>2, <2>3, <2>4, <2>5, <2>6 DEF Next, Elsewhere
<1>2. Typed /\ Owned /\ [Next]_vars => [\A k \in DOMAIN invites : Unspent(k) => invites'[k].usedAt = 0]_vars
  BY <1>1
<1> QED
  BY <1>2, AlwaysTyped, AlwaysOwned, PTL DEF Spec, RevocationHolds

\* Logins that compare at the same time pass the ceiling together, by no more
\* than the one attempt each has in hand (internal/api/auth.go handleLogin counts
\* before the slow comparison and records after it).  A ceiling that is not
\* positive disables the control.
THEOREM LoginsOvershootLittle ==
  ASSUME MaxLoginAttempts > 0
  PROVE  Spec => []LoginOvershootBounded
<1>1. Typed /\ Allowances => LoginOvershootBounded
  <2> SUFFICES ASSUME Typed, Allowances, NEW e \in Emails
               PROVE  FailedLoginsInWindow(e, WindowStart(clock, LoginWindow))
                         <= MaxLoginAttempts - 1 + Cardinality(Requests)
    BY DEF LoginOvershootBounded
  <2>1. FailedLoginsInWindow(e, WindowStart(clock, LoginWindow)) = Cardinality(Spent(e))
    BY DEF FailedLoginsInWindow, Spent
  <2>2. /\ Cardinality(Spent(e)) \in Nat /\ Cardinality(InHand(e)) \in Nat
        /\ Cardinality(Requests) \in Nat /\ MaxLoginAttempts \in Int
    BY LoginsFinite, IdentityAssumption
  <2> QED
    BY <2>1, <2>2 DEF Allowances, Allowance
<1>2. Init => Allowances
  BY AllowancesInit
<1>3. Typed /\ Typed' /\ Allowances /\ [Next]_vars => Allowances'
  BY AllowancesNext
<1> QED
  BY <1>1, <1>2, <1>3, AlwaysTyped, PTL DEF Spec
=============================================================================
