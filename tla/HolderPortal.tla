------------------------------ MODULE HolderPortal ------------------------------
(***************************************************************************)
(* The holder portal (apps/api/src/modules/holder/routes.ts, plugins/      *)
(* holder-auth.ts): a holder logs in with a one-time code, looks at the    *)
(* diplomas issued to them and shares them by links that anybody can open. *)
(*                                                                         *)
(* What a handler reads before its transaction it reads without a lock, so *)
(* a request is at most three steps: the session check, the reads, and the *)
(* transaction, which decides by what was read.  Requests interleave, rows *)
(* expire, the workflow moves the diplomas on, and a request can die       *)
(* between two of its steps.                                               *)
(***************************************************************************)
EXTENDS CredentialStatus, Integers, FiniteSets

CONSTANTS
  Diploma, Holder,
  Contactable,       \* the holders with an email address on file
  Owner,             \* holderId of each diploma
  Challenge, HolderSession, Share,   \* ids of the rows of the portal
  Request,           \* requests in flight
  OTP_MAX_ATTEMPTS,
  MaxViews           \* bound: a share counts no further

ASSUME PortalAssumption ==
  /\ Contactable \subseteq Holder
  /\ Owner \in [Diploma -> Holder]
  /\ OTP_MAX_ATTEMPTS \in Nat \ {0}
  /\ MaxViews \in Nat

VARIABLES
  diplomas,       \* lifecycleStatus of each diploma
  challenges,     \* otp_challenges
  mailed,         \* the challenges whose code has arrived
  holderSessions, \* holder_sessions
  shares,         \* share_links
  expired,        \* the rows whose expiresAt has passed
  requests        \* where each request is, and what it has read

portalVars == <<diplomas, challenges, mailed, holderSessions, shares, expired,
                requests>>

\* "ABSENT" is an id without a row, "SPENT" a challenge with consumedAt, a
\* session or a share with revokedAt.
NoRow == [state |-> "ABSENT"]
State == {"LIVE", "SPENT"}

ChallengeRow == [state : State, holder : Holder, attempts : 0 .. OTP_MAX_ATTEMPTS]

SessionRow == [state : State, holder : Holder, code : Challenge]

ShareRow ==
  [state : State, holder : Holder, diploma : Diploma, accessCount : 0 .. MaxViews]

\* of: the row the request is about.
NoRequest == [at |-> "IDLE"]
InFlight ==
  [at : {"OTP_RIGHT", "OTP_WRONG"}, of : Challenge, attempts : 0 .. OTP_MAX_ATTEMPTS]
    \cup [at : {"AUTHENTICATED"}, of : HolderSession, holder : Holder]
    \cup [at : {"VIEWED", "SHARING"}, of : Diploma, holder : Holder]
    \cup [at : {"RESOLVING"}, of : Share]

PortalTypeOK ==
  /\ diplomas \in [Diploma -> CredentialLifecycle]
  /\ challenges \in [Challenge -> ChallengeRow \cup {NoRow}]
  /\ mailed \subseteq Challenge
  /\ holderSessions \in [HolderSession -> SessionRow \cup {NoRow}]
  /\ shares \in [Share -> ShareRow \cup {NoRow}]
  /\ expired \subseteq Challenge \cup HolderSession \cup Share
  /\ requests \in [Request -> InFlight \cup {NoRequest}]

PortalInit ==
  /\ diplomas = [d \in Diploma |-> "APPROVED"]
  /\ challenges = [c \in Challenge |-> NoRow]
  /\ mailed = {}
  /\ holderSessions = [s \in HolderSession |-> NoRow]
  /\ shares = [x \in Share |-> NoRow]
  /\ expired = {}
  /\ requests = [q \in Request |-> NoRequest]

Free(q) == requests[q].at = "IDLE"
Reaches(q, point) == requests' = [requests EXCEPT ![q] = point]
Ends(q) == Reaches(q, NoRequest)
Live(table, id) == table[id].state = "LIVE" /\ id \notin expired

-------------------------------------------------------------------------------
(* The surroundings: the workflow, the clock, a request that fails.        *)

MoveOn(d) ==
  /\ \E s \in CredentialLifecycle :
       /\ CanTransition(diplomas[d], s)
       /\ diplomas' = [diplomas EXCEPT ![d] = s]
  /\ UNCHANGED <<challenges, mailed, holderSessions, shares, expired, requests>>

Rows == {c \in Challenge : challenges[c] # NoRow}
          \cup {s \in HolderSession : holderSessions[s] # NoRow}
          \cup {x \in Share : shares[x] # NoRow}

Expire(id) ==
  /\ id \in Rows \ expired
  /\ expired' = expired \cup {id}
  /\ UNCHANGED <<diplomas, challenges, mailed, holderSessions, shares, requests>>

Fail(q) ==
  /\ ~Free(q)
  /\ Ends(q)
  /\ UNCHANGED <<diplomas, challenges, mailed, holderSessions, shares, expired>>

-------------------------------------------------------------------------------
(* Login.                                                                  *)

\* A holder without a contact, or nobody: the same answer, and no row.
RequestOtp(h, c) ==
  /\ h \in Contactable
  /\ challenges[c] = NoRow
  /\ challenges' = [challenges EXCEPT ![c] =
       [state |-> "LIVE", holder |-> h, attempts |-> 0]]
  /\ UNCHANGED <<diplomas, mailed, holderSessions, shares, expired, requests>>

\* After the commit; the mail may as well never come.
OtpDelivery(c) ==
  /\ challenges[c] # NoRow
  /\ mailed' = mailed \cup {c}
  /\ UNCHANGED <<diplomas, challenges, holderSessions, shares, expired, requests>>

\* The challenge is read and the code compared; only who got the mail enters
\* the right one.
ReadChallenge(q, c) ==
  /\ Free(q)
  /\ Live(challenges, c)
  /\ challenges[c].attempts < OTP_MAX_ATTEMPTS
  /\ \E at \in {"OTP_RIGHT", "OTP_WRONG"} :
       /\ at = "OTP_RIGHT" => c \in mailed
       /\ Reaches(q, [at |-> at, of |-> c, attempts |-> challenges[c].attempts])
  /\ UNCHANGED <<diplomas, challenges, mailed, holderSessions, shares, expired>>

\* Mutant: the row is written back as it was read.
RejectCode_WholeRow(q) ==
  LET r == requests[q] IN
  /\ r.at = "OTP_WRONG"
  /\ challenges' = [challenges EXCEPT ![r.of].state = "LIVE",
                                      ![r.of].attempts = r.attempts + 1]
  /\ Ends(q)
  /\ UNCHANGED <<diplomas, mailed, holderSessions, shares, expired>>

\* The count is the one read, plus one.
RejectCode(q) ==
  LET r == requests[q] IN
  /\ r.at = "OTP_WRONG"
  /\ challenges' = [challenges EXCEPT ![r.of].attempts = r.attempts + 1]
  /\ Ends(q)
  /\ UNCHANGED <<diplomas, mailed, holderSessions, shares, expired>>

\* Mutant: the code is not consumed.
OpenSession_Reusable(q, s) ==
  LET r == requests[q] IN
  /\ r.at = "OTP_RIGHT"
  /\ holderSessions[s] = NoRow
  /\ holderSessions' = [holderSessions EXCEPT ![s] =
       [state |-> "LIVE", holder |-> challenges[r.of].holder, code |-> r.of]]
  /\ Ends(q)
  /\ UNCHANGED <<diplomas, challenges, mailed, shares, expired>>

\* consumedAt is set whether or not it was by now.
OpenSession(q, s) ==
  LET r == requests[q] IN
  /\ r.at = "OTP_RIGHT"
  /\ holderSessions[s] = NoRow
  /\ challenges' = [challenges EXCEPT ![r.of].state = "SPENT"]
  /\ holderSessions' = [holderSessions EXCEPT ![s] =
       [state |-> "LIVE", holder |-> challenges[r.of].holder, code |-> r.of]]
  /\ Ends(q)
  /\ UNCHANGED <<diplomas, mailed, shares, expired>>

\* The preHandler hook and requireHolder.
Authenticate(q, s) ==
  /\ Free(q)
  /\ Live(holderSessions, s)
  /\ Reaches(q, [at |-> "AUTHENTICATED", of |-> s, holder |-> holderSessions[s].holder])
  /\ UNCHANGED <<diplomas, challenges, mailed, holderSessions, shares, expired>>

Logout(q) ==
  /\ requests[q].at = "AUTHENTICATED"
  /\ holderSessions' = [holderSessions EXCEPT ![requests[q].of].state = "SPENT"]
  /\ Ends(q)
  /\ UNCHANGED <<diplomas, challenges, mailed, shares, expired>>

-------------------------------------------------------------------------------
(* Diplomas.                                                               *)

HOLDER_VISIBLE_STATUSES == {"ISSUED", "REVOKED", "REVOCATION_PENDING", "SUPERSEDED"}

\* GET /holder/credentials
HolderCredentials(h) ==
  {d \in Diploma : Owner[d] = h /\ diplomas[d] \in HOLDER_VISIBLE_STATUSES}

\* The list, and the page of one of them: its row, then those of its shares.
ViewCredential(q) ==
  /\ requests[q].at = "AUTHENTICATED"
  /\ \E d \in HolderCredentials(requests[q].holder) :
       Reaches(q, [at |-> "VIEWED", of |-> d, holder |-> requests[q].holder])
  /\ UNCHANGED <<diplomas, challenges, mailed, holderSessions, shares, expired>>

-------------------------------------------------------------------------------
(* Shares.                                                                 *)

CheckShareable(q) ==
  /\ requests[q].at = "AUTHENTICATED"
  /\ \E d \in Diploma :
       /\ Owner[d] = requests[q].holder
       /\ diplomas[d] = "ISSUED"
       /\ Reaches(q, [at |-> "SHARING", of |-> d, holder |-> requests[q].holder])
  /\ UNCHANGED <<diplomas, challenges, mailed, holderSessions, shares, expired>>

CreateShare(q, x) ==
  LET r == requests[q] IN
  /\ r.at = "SHARING"
  /\ shares[x] = NoRow
  /\ shares' = [shares EXCEPT ![x] =
       [state |-> "LIVE", holder |-> r.holder, diploma |-> r.of, accessCount |-> 0]]
  /\ Ends(q)
  /\ UNCHANGED <<diplomas, challenges, mailed, holderSessions, expired>>

\* GET /holder/shares
HolderShares(h) == {x \in Share : shares[x] # NoRow /\ shares[x].holder = h}

\* Locked, and idempotent.
RevokeShare(q, x) ==
  /\ requests[q].at = "AUTHENTICATED"
  /\ x \in HolderShares(requests[q].holder)
  /\ shares' = [shares EXCEPT ![x].state = "SPENT"]
  /\ Ends(q)
  /\ UNCHANGED <<diplomas, challenges, mailed, holderSessions, expired>>

ShareStatusOf(x) ==
  CASE shares[x].state = "SPENT" -> "REVOKED"
    [] shares[x].state = "LIVE" /\ x \in expired -> "EXPIRED"
    [] shares[x].state = "LIVE" /\ x \notin expired -> "ACTIVE"

\* GET /share/:token, by anybody: of a link that is not active, only that.
ReadShare(q, x) ==
  /\ Free(q)
  /\ shares[x] # NoRow
  /\ ShareStatusOf(x) = "ACTIVE"
  /\ Reaches(q, [at |-> "RESOLVING", of |-> x])
  /\ UNCHANGED <<diplomas, challenges, mailed, holderSessions, shares, expired>>

\* The database increments; then the certificate ID is told.
CountView(q) ==
  LET x == requests[q].of IN
  /\ requests[q].at = "RESOLVING"
  /\ shares' = [shares EXCEPT ![x].accessCount = IF @ < MaxViews THEN @ + 1 ELSE @]
  /\ Ends(q)
  /\ UNCHANGED <<diplomas, challenges, mailed, holderSessions, expired>>

-------------------------------------------------------------------------------
PortalRequest(q) ==
  \/ \E c \in Challenge : ReadChallenge(q, c)
  \/ RejectCode(q)
  \/ \E s \in HolderSession : OpenSession(q, s) \/ Authenticate(q, s)
  \/ Logout(q) \/ ViewCredential(q) \/ CheckShareable(q)
  \/ \E x \in Share : CreateShare(q, x) \/ RevokeShare(q, x) \/ ReadShare(q, x)
  \/ CountView(q) \/ Fail(q)

PortalNext ==
  \/ \E d \in Diploma : MoveOn(d)
  \/ \E id \in Rows : Expire(id)
  \/ \E c \in Challenge : OtpDelivery(c) \/ \E h \in Holder : RequestOtp(h, c)
  \/ \E q \in Request : PortalRequest(q)

PortalSpec == PortalInit /\ [][PortalNext]_portalVars
-------------------------------------------------------------------------------
(* Properties.                                                             *)

\* A session is its holder's: it was opened with a code that was mailed to the
\* contact of that holder, and that code is consumed, whatever verifications of
\* other codes, or failed ones of the same code, went on at the same time.
SessionsAreEarned ==
  \A s \in HolderSession : holderSessions[s] # NoRow =>
    LET c == holderSessions[s].code IN
    /\ c \in mailed
    /\ challenges[c].state = "SPENT"
    /\ challenges[c].holder = holderSessions[s].holder

\* A consumed code, a closed session and a revoked share are so for good: no
\* handler that read them earlier writes them back to life.
SpentForGood ==
  [][/\ \A c \in Challenge : challenges[c].state = "SPENT" => challenges'[c].state = "SPENT"
     /\ \A s \in HolderSession :
          holderSessions[s].state = "SPENT" => holderSessions'[s].state = "SPENT"
     /\ \A x \in Share : shares[x].state = "SPENT" => shares'[x].state = "SPENT"]_portalVars

\* What a holder is shown, is about to share or has shared is a diploma of theirs
\* that was issued, although the status was read before the share was inserted
\* and the workflow moves on in between ("issued history, never internal
\* drafts", holder/routes.ts:77).
OwnIssuedOnly ==
  LET Shown(d, h) == Owner[d] = h /\ diplomas[d] \in HOLDER_VISIBLE_STATUSES IN
  /\ \A q \in Request : requests[q].at \in {"VIEWED", "SHARING"} =>
       Shown(requests[q].of, requests[q].holder)
  /\ \A x \in Share : shares[x] # NoRow => Shown(shares[x].diploma, shares[x].holder)

\* Nobody but a holder whose contact was asked sees a diploma, and sees and shares
\* no other than his or her own issued ones.
HoldersSeeTheirOwn == SessionsAreEarned /\ OwnIssuedOnly
===============================================================================
