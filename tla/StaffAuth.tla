------------------------------- MODULE StaffAuth -------------------------------
(***************************************************************************)
(* Staff accounts (apps/api/src/modules/auth/routes.ts, users/routes.ts,   *)
(* plugins/auth.ts): an administrator invites, the invitee makes an        *)
(* account of the invitation, logs in with password and code, and acts     *)
(* within the roles the invitation granted.                                *)
(*                                                                         *)
(* Users and invitations are read without a lock and written later, by     *)
(* what was read; one e-mail address is one account only because of the    *)
(* unique index of users.                                                  *)
(***************************************************************************)
EXTENDS Integers, FiniteSets

CONSTANTS
  Account, Invitation, StaffSession,  \* ids of rows
  FirstAdmin,        \* the seeded account of a platform administrator
  Email,
  Institution,
  Offers,            \* the sets of grants that invitations may carry
  StaffRequest,      \* requests in flight
  MAX_FAILED_LOGINS

Role == {"platform_admin", "operator", "approver", "lifecycle_admin", "auditor"}

\* institutionId is null in a global grant.
Global == "GLOBAL"
Grant == [role : Role, institution : Institution \cup {Global}]

ASSUME StaffAssumption ==
  /\ FirstAdmin \in Account
  /\ Email # {}
  /\ "SEED" \notin Invitation
  /\ Offers \subseteq SUBSET Grant
  /\ Global \notin Institution
  /\ MAX_FAILED_LOGINS \in Nat \ {0}

VARIABLES
  accounts,       \* users and user_roles
  invitations,
  staffSessions,  \* sessions
  staffRequests   \* where each request is, and what it has read

staffVars == <<accounts, invitations, staffSessions, staffRequests>>

NoEntry == [state |-> "ABSENT"]

\* failedLoginCount counts no further than matters.  lock: lockedUntil is null,
\* in the future or in the past.
AccountRow ==
  [state : {"ACTIVE"}, email : Email, grants : SUBSET Grant,
   invitation : Invitation \cup {"SEED"},
   failedLoginCount : 0 .. MAX_FAILED_LOGINS, lock : {"NONE", "RUNNING", "OVER"}]

InvitationRow ==
  [state : {"OPEN", "EXPIRED", "ACCEPTED"}, email : Email, roles : Offers]

\* A session that is over, revoked or expired, is as good as gone: its id stands
\* for the next one.
StaffSessionRow == [state : {"LIVE"}, account : Account]

StaffIdle == [at |-> "IDLE"]
StaffInFlight ==
  [at : {"PASSWORD_OK", "PASSWORD_BAD"}, account : Account,
   failed : 0 .. MAX_FAILED_LOGINS]
    \cup [at : {"ACCEPTING", "CREATING"}, invitation : Invitation]
    \cup [at : {"SIGNED_IN"}, session : StaffSession, account : Account]
    \cup [at : {"ACTING"}, account : Account, role : Role, institution : Institution]

\* An account is locked, now or until lately, just when its count is full, however
\* the writes of logins that read them earlier fall.
StaffTypeOK ==
  /\ accounts \in [Account -> AccountRow \cup {NoEntry}]
  /\ invitations \in [Invitation -> InvitationRow \cup {NoEntry}]
  /\ staffSessions \in [StaffSession -> StaffSessionRow \cup {NoEntry}]
  /\ staffRequests \in [StaffRequest -> StaffInFlight \cup {StaffIdle}]
  /\ \A a \in Account : accounts[a] # NoEntry =>
       (accounts[a].lock # "NONE" <=> accounts[a].failedLoginCount = MAX_FAILED_LOGINS)

SeedRow ==
  [state |-> "ACTIVE", email |-> CHOOSE e \in Email : TRUE,
   grants |-> {[role |-> "platform_admin", institution |-> Global]},
   invitation |-> "SEED", failedLoginCount |-> 0, lock |-> "NONE"]

StaffInit ==
  /\ accounts = [a \in Account |-> IF a = FirstAdmin THEN SeedRow ELSE NoEntry]
  /\ invitations = [i \in Invitation |-> NoEntry]
  /\ staffSessions = [s \in StaffSession |-> NoEntry]
  /\ staffRequests = [q \in StaffRequest |-> StaffIdle]

StaffReaches(q, point) == staffRequests' = [staffRequests EXCEPT ![q] = point]
StaffEnds(q) == StaffReaches(q, StaffIdle)
StaffAt(q, at) == staffRequests[q].at = at
Exists(a) == accounts[a] # NoEntry

-------------------------------------------------------------------------------
(* The clock, and a request that fails: its transaction rolls back.        *)

LockPasses(a) ==
  /\ Exists(a) /\ accounts[a].lock = "RUNNING"
  /\ accounts' = [accounts EXCEPT ![a].lock = "OVER"]
  /\ UNCHANGED <<invitations, staffSessions, staffRequests>>

InvitationExpires(i) ==
  /\ invitations[i].state = "OPEN"
  /\ invitations' = [invitations EXCEPT ![i].state = "EXPIRED"]
  /\ UNCHANGED <<accounts, staffSessions, staffRequests>>

SessionExpires(s) ==
  /\ staffSessions[s].state = "LIVE"
  /\ staffSessions' = [staffSessions EXCEPT ![s] = NoEntry]
  /\ UNCHANGED <<accounts, invitations, staffRequests>>

StaffFail(q) ==
  /\ ~StaffAt(q, "IDLE")
  /\ StaffEnds(q)
  /\ UNCHANGED <<accounts, invitations, staffSessions>>

-------------------------------------------------------------------------------
(* Login and logout.                                                       *)

\* The user row is read, the lock looked at, the password compared.  (A missing
\* or wrong TOTP code ends a request and counts nothing: StaffFail.)
ReadUser(q, a) ==
  /\ StaffAt(q, "IDLE")
  /\ Exists(a) /\ accounts[a].lock # "RUNNING"
  /\ \E at \in {"PASSWORD_OK", "PASSWORD_BAD"} :
       StaffReaches(q, [at |-> at, account |-> a,
                        failed |-> accounts[a].failedLoginCount])
  /\ UNCHANGED <<accounts, invitations, staffSessions>>

\* Mutant: a failure does not lift the lock that another one has set.
CountFailure_LockStays(q) ==
  LET r == staffRequests[q]
      failed == IF r.failed < MAX_FAILED_LOGINS THEN r.failed + 1 ELSE r.failed IN
  /\ StaffAt(q, "PASSWORD_BAD")
  /\ accounts' = [accounts EXCEPT
       ![r.account].failedLoginCount = failed,
       ![r.account].lock = IF failed >= MAX_FAILED_LOGINS THEN "RUNNING" ELSE @]
  /\ StaffEnds(q)
  /\ UNCHANGED <<invitations, staffSessions>>

\* One more than was read; and locked, or not, by that.
CountFailure(q) ==
  LET r == staffRequests[q]
      failed == IF r.failed < MAX_FAILED_LOGINS THEN r.failed + 1 ELSE r.failed IN
  /\ StaffAt(q, "PASSWORD_BAD")
  /\ accounts' = [accounts EXCEPT
       ![r.account].failedLoginCount = failed,
       ![r.account].lock = IF failed >= MAX_FAILED_LOGINS THEN "RUNNING" ELSE "NONE"]
  /\ StaffEnds(q)
  /\ UNCHANGED <<invitations, staffSessions>>

OpenStaffSession(q, s) ==
  LET a == staffRequests[q].account IN
  /\ StaffAt(q, "PASSWORD_OK")
  /\ staffSessions[s] = NoEntry
  /\ \A p \in StaffRequest : StaffAt(p, "SIGNED_IN") => staffRequests[p].session # s
  /\ accounts' = [accounts EXCEPT ![a].failedLoginCount = 0, ![a].lock = "NONE"]
  /\ staffSessions' = [staffSessions EXCEPT ![s] = [state |-> "LIVE", account |-> a]]
  /\ StaffEnds(q)
  /\ UNCHANGED invitations

\* The preHandler hook and requireUser: a session in force of an ACTIVE user.
SignIn(q, s) ==
  /\ StaffAt(q, "IDLE")
  /\ staffSessions[s].state = "LIVE"
  /\ accounts[staffSessions[s].account].state = "ACTIVE"
  /\ StaffReaches(q, [at |-> "SIGNED_IN", session |-> s,
                      account |-> staffSessions[s].account])
  /\ UNCHANGED <<accounts, invitations, staffSessions>>

StaffLogout(q) ==
  LET s == staffRequests[q].session IN
  /\ StaffAt(q, "SIGNED_IN")
  /\ staffSessions' = [staffSessions EXCEPT ![s] = NoEntry]
  /\ StaffEnds(q)
  /\ UNCHANGED <<accounts, invitations>>

-------------------------------------------------------------------------------
(* Rights.                                                                 *)

HasRole(a, role) == \E g \in accounts[a].grants : g.role = role

\* Mutant: the scope is not looked at.
CanActOnInstitution_AnyScope(a, role, n) == HasRole(a, role)

CanActOnInstitution(a, role, n) ==
  \E g \in accounts[a].grants : g.role = role /\ g.institution \in {Global, n}

\* A handler that begins with requireInstitutionScope.
Act(q) ==
  LET a == staffRequests[q].account IN
  /\ StaffAt(q, "SIGNED_IN")
  /\ \E role \in Role, n \in Institution :
       /\ CanActOnInstitution(a, role, n)
       /\ StaffReaches(q, [at |-> "ACTING", account |-> a, role |-> role,
                           institution |-> n])
  /\ UNCHANGED <<accounts, invitations, staffSessions>>

-------------------------------------------------------------------------------
(* Invitations.                                                            *)

\* The row is kept whether or not its e-mail can be sent; the token reaches the
\* invitee by one way or the other.
Invite(q, i, e, offer) ==
  /\ StaffAt(q, "SIGNED_IN")
  /\ HasRole(staffRequests[q].account, "platform_admin")
  /\ invitations[i] = NoEntry
  /\ invitations' = [invitations EXCEPT ![i] =
       [state |-> "OPEN", email |-> e, roles |-> offer]]
  /\ StaffEnds(q)
  /\ UNCHANGED <<accounts, staffSessions>>

ReadInvitation(q, i) ==
  /\ StaffAt(q, "IDLE")
  /\ invitations[i].state = "OPEN"
  /\ StaffReaches(q, [at |-> "ACCEPTING", invitation |-> i])
  /\ UNCHANGED <<accounts, invitations, staffSessions>>

Taken(e) == \E a \in Account : Exists(a) /\ accounts[a].email = e

\* In the transaction, first: is there such a user?
LookUpAccount(q) ==
  LET i == staffRequests[q].invitation IN
  /\ StaffAt(q, "ACCEPTING")
  /\ ~Taken(invitations[i].email)
  /\ StaffReaches(q, [at |-> "CREATING", invitation |-> i])
  /\ UNCHANGED <<accounts, invitations, staffSessions>>

\* Mutant: no unique index; what was looked up is relied on.
CreateAccount_NoIndex(q, a) ==
  LET i == staffRequests[q].invitation IN
  /\ StaffAt(q, "CREATING")
  /\ ~Exists(a)
  /\ accounts' = [accounts EXCEPT ![a] =
       [state |-> "ACTIVE", email |-> invitations[i].email,
        grants |-> invitations[i].roles, invitation |-> i,
        failedLoginCount |-> 0, lock |-> "NONE"]]
  /\ invitations' = [invitations EXCEPT ![i].state = "ACCEPTED"]
  /\ StaffEnds(q)
  /\ UNCHANGED staffSessions

\* Then user, roles and acceptedAt; the index refuses a second user of the
\* address, and the transaction with it.
CreateAccount(q, a) ==
  LET i == staffRequests[q].invitation IN
  /\ StaffAt(q, "CREATING")
  /\ ~Exists(a)
  /\ ~Taken(invitations[i].email)
  /\ accounts' = [accounts EXCEPT ![a] =
       [state |-> "ACTIVE", email |-> invitations[i].email,
        grants |-> invitations[i].roles, invitation |-> i,
        failedLoginCount |-> 0, lock |-> "NONE"]]
  /\ invitations' = [invitations EXCEPT ![i].state = "ACCEPTED"]
  /\ StaffEnds(q)
  /\ UNCHANGED staffSessions

-------------------------------------------------------------------------------
StaffStep(q) ==
  \/ \E a \in Account : ReadUser(q, a) \/ CreateAccount(q, a)
  \/ \E s \in StaffSession : OpenStaffSession(q, s) \/ SignIn(q, s)
  \/ \E i \in Invitation :
       ReadInvitation(q, i) \/ \E e \in Email, offer \in Offers : Invite(q, i, e, offer)
  \/ CountFailure(q) \/ StaffLogout(q) \/ Act(q) \/ LookUpAccount(q) \/ StaffFail(q)

StaffNext ==
  \/ \E a \in Account : LockPasses(a)
  \/ \E i \in Invitation : InvitationExpires(i)
  \/ \E s \in StaffSession : SessionExpires(s)
  \/ \E q \in StaffRequest : StaffStep(q)

StaffSpec == StaffInit /\ [][StaffNext]_staffVars
-------------------------------------------------------------------------------
(* Properties.                                                             *)

\* An address is one account, and every accepted invitation made just one, no
\* matter how many acceptances of it, or of others for the same address, are in
\* flight.
OneAccountPerEmail ==
  /\ \A a, b \in Account :
       Exists(a) /\ Exists(b) /\ accounts[a].email = accounts[b].email => a = b
  /\ \A i \in Invitation : invitations[i].state = "ACCEPTED" =>
       Cardinality({a \in Account : Exists(a) /\ accounts[a].invitation = i}) = 1

\* Nobody but the first administrator acts with more than what the invitation
\* behind the account granted: its role, for its institution or for all.
RightsComeFromInvitation ==
  \A q \in StaffRequest : StaffAt(q, "ACTING") =>
    LET r == staffRequests[q] IN
    r.account = FirstAdmin \/
      \E i \in Invitation :
        /\ accounts[r.account].invitation = i
        /\ invitations[i].state = "ACCEPTED"
        /\ \/ [role |-> r.role, institution |-> r.institution] \in invitations[i].roles
           \/ [role |-> r.role, institution |-> Global] \in invitations[i].roles
===============================================================================
