----------------------------- MODULE AccountsProofs -----------------------------
(***************************************************************************)
(* Theorems about who is let in: StaffAuth, for any sets of ids, addresses,*)
(* institutions and offers and any limit of failures, and HolderPortal,    *)
(* for any sets of diplomas, holders, rows and requests in flight.         *)
(*                                                                         *)
(* The staff's properties rest on one fact, AccountsAreInvited: an account *)
(* is the seeded one or is what its invitation says, which is ACCEPTED     *)
(* from then on.  Two acceptances of one invitation are two of one         *)
(* address, and the index refuses the second.                              *)
(*                                                                         *)
(* The portal's rest on RequestsAreBacked: what a request has read was in  *)
(* the tables.  What may have changed since is proved not to matter,       *)
(* because rows keep their holder and SPENT stays SPENT (PortalRowsStay).  *)
(***************************************************************************)
EXTENDS StaffAuth, HolderPortal, FiniteSetTheorems, TLAPS

-------------------------------------------------------------------------------
(* The staff.                                                                *)

Pending(q) == StaffAt(q, "ACCEPTING") \/ StaffAt(q, "CREATING")
OfAccount(q) ==
  \/ StaffAt(q, "PASSWORD_OK") \/ StaffAt(q, "PASSWORD_BAD")
  \/ StaffAt(q, "SIGNED_IN") \/ StaffAt(q, "ACTING")

\* What sessions and requests name is there.
NothingDangles ==
  /\ \A s \in StaffSession : staffSessions[s] # NoEntry => Exists(staffSessions[s].account)
  /\ \A q \in StaffRequest :
       /\ Pending(q) => invitations[staffRequests[q].invitation] # NoEntry
       /\ OfAccount(q) => Exists(staffRequests[q].account)

\* Account a came of invitation i.
CameOf(a, i) ==
  /\ accounts[a].invitation = i
  /\ invitations[i].state = "ACCEPTED"
  /\ accounts[a].email = invitations[i].email
  /\ accounts[a].grants = invitations[i].roles

AccountsAreInvited ==
  /\ \A a \in Account : Exists(a) =>
       \/ a = FirstAdmin /\ accounts[a].invitation = "SEED"
       \/ \E i \in Invitation : CameOf(a, i)
  /\ \A i \in Invitation : invitations[i].state = "ACCEPTED" =>
       \E a \in Account : Exists(a) /\ CameOf(a, i)
  /\ \A a, b \in Account :
       Exists(a) /\ Exists(b) /\ accounts[a].email = accounts[b].email => a = b

\* Who acts was allowed to, and rights do not change.
ActsAreAllowed ==
  \A q \in StaffRequest : StaffAt(q, "ACTING") =>
    LET r == staffRequests[q] IN CanActOnInstitution(r.account, r.role, r.institution)

StaffInv == StaffTypeOK /\ NothingDangles /\ AccountsAreInvited /\ ActsAreAllowed

-------------------------------------------------------------------------------
(* Types.                                                                  *)

LEMMA SeedIsRow == SeedRow \in AccountRow
BY StaffAssumption DEF SeedRow, AccountRow, Grant, Role

\* What a request is tells which fields it has.
LEMMA StaffRequestFields ==
  ASSUME StaffTypeOK, NEW q \in StaffRequest
  PROVE  /\ Pending(q) => staffRequests[q].invitation \in Invitation
         /\ OfAccount(q) => staffRequests[q].account \in Account
         /\ StaffAt(q, "PASSWORD_BAD") => staffRequests[q].failed \in 0 .. MAX_FAILED_LOGINS
         /\ StaffAt(q, "SIGNED_IN") => staffRequests[q].session \in StaffSession
BY DEF StaffTypeOK, StaffInFlight, StaffIdle, Pending, OfAccount, StaffAt

LEMMA StaffTypeStep ==
  ASSUME StaffTypeOK, NothingDangles, StaffNext PROVE StaffTypeOK'
<1> USE StaffAssumption DEF StaffTypeOK, NoEntry, StaffEnds, StaffReaches, Exists
<1>1. ASSUME NEW a \in Account, LockPasses(a) PROVE StaffTypeOK'
  BY <1>1 DEF LockPasses, AccountRow
<1>2. ASSUME NEW i \in Invitation, InvitationExpires(i) PROVE StaffTypeOK'
  BY <1>2 DEF InvitationExpires, InvitationRow
<1>3. ASSUME NEW s \in StaffSession, SessionExpires(s) PROVE StaffTypeOK'
  BY <1>3 DEF SessionExpires
<1>4. ASSUME NEW q \in StaffRequest, StaffFail(q) PROVE StaffTypeOK'
  BY <1>4 DEF StaffFail
<1>5. ASSUME NEW q \in StaffRequest, NEW a \in Account, ReadUser(q, a) PROVE StaffTypeOK'
  BY <1>5 DEF ReadUser, AccountRow, StaffInFlight
<1>6. ASSUME NEW q \in StaffRequest, NEW a \in Account, CreateAccount(q, a)
      PROVE  StaffTypeOK'
  BY <1>6, StaffRequestFields
     DEF CreateAccount, AccountRow, InvitationRow, NothingDangles, Pending, StaffAt
<1>7. ASSUME NEW q \in StaffRequest, NEW s \in StaffSession, OpenStaffSession(q, s)
      PROVE  StaffTypeOK'
  BY <1>7, StaffRequestFields
     DEF OpenStaffSession, AccountRow, StaffSessionRow, OfAccount, StaffAt, NothingDangles
<1>8. ASSUME NEW q \in StaffRequest, NEW s \in StaffSession, SignIn(q, s)
      PROVE  StaffTypeOK'
  BY <1>8 DEF SignIn, StaffSessionRow, StaffInFlight
<1>9. ASSUME NEW q \in StaffRequest, NEW i \in Invitation, ReadInvitation(q, i)
      PROVE  StaffTypeOK'
  BY <1>9 DEF ReadInvitation, StaffInFlight
<1>10. ASSUME NEW q \in StaffRequest, NEW i \in Invitation, NEW e \in Email,
              NEW offer \in Offers, Invite(q, i, e, offer)
       PROVE  StaffTypeOK'
  BY <1>10 DEF Invite, InvitationRow
<1>11. ASSUME NEW q \in StaffRequest, CountFailure(q) PROVE StaffTypeOK'
  <2> DEFINE r == staffRequests[q]
             failed == IF r.failed < MAX_FAILED_LOGINS THEN r.failed + 1 ELSE r.failed
             row == [accounts[r.account] EXCEPT
                       !.failedLoginCount = failed,
                       !.lock = IF failed >= MAX_FAILED_LOGINS THEN "RUNNING" ELSE "NONE"]
  <2>1. /\ r.account \in Account
        /\ r.failed \in 0 .. MAX_FAILED_LOGINS
        /\ accounts[r.account] \in AccountRow
    BY <1>11, StaffRequestFields DEF CountFailure, OfAccount, StaffAt, NothingDangles
  <2>2. /\ failed \in 0 .. MAX_FAILED_LOGINS
        /\ failed >= MAX_FAILED_LOGINS <=> failed = MAX_FAILED_LOGINS
    BY <2>1
  <2>3. /\ row \in AccountRow
        /\ row.lock # "NONE" <=> row.failedLoginCount = MAX_FAILED_LOGINS
    BY <2>1, <2>2 DEF AccountRow
  <2>4. accounts' = [accounts EXCEPT ![r.account] = row]
    BY <1>11, <2>1 DEF CountFailure, AccountRow
  <2> HIDE DEF row
  <2> QED
    BY <1>11, <2>1, <2>3, <2>4 DEF CountFailure
<1>12. ASSUME NEW q \in StaffRequest, StaffLogout(q) PROVE StaffTypeOK'
  BY <1>12, StaffRequestFields DEF StaffLogout
<1>13. ASSUME NEW q \in StaffRequest, Act(q) PROVE StaffTypeOK'
  BY <1>13, StaffRequestFields DEF Act, StaffInFlight, OfAccount
<1>14. ASSUME NEW q \in StaffRequest, LookUpAccount(q) PROVE StaffTypeOK'
  BY <1>14, StaffRequestFields DEF LookUpAccount, StaffInFlight, Pending
<1> QED
  BY <1>1, <1>2, <1>3, <1>4, <1>5, <1>6, <1>7, <1>8, <1>9, <1>10, <1>11, <1>12, <1>13,
     <1>14 DEF StaffNext, StaffStep

-------------------------------------------------------------------------------
(* What does not change.                                                   *)

\* But for CreateAccount, no step makes, ends or changes an account or accepts an
\* invitation.
SameAccounts ==
  \A a \in Account :
    /\ Exists(a)' <=> Exists(a)
    /\ Exists(a) => /\ accounts'[a].email = accounts[a].email
                    /\ accounts'[a].grants = accounts[a].grants
                    /\ accounts'[a].invitation = accounts[a].invitation

SameInvitations ==
  \A i \in Invitation :
    /\ invitations[i] # NoEntry =>
         /\ invitations'[i] # NoEntry
         /\ invitations'[i].email = invitations[i].email
         /\ invitations'[i].roles = invitations[i].roles
    /\ invitations'[i].state = "ACCEPTED" <=> invitations[i].state = "ACCEPTED"

LEMMA Unchanging ==
  ASSUME StaffTypeOK, NothingDangles, StaffNext,
         \A q \in StaffRequest, a \in Account : ~CreateAccount(q, a)
  PROVE  SameAccounts /\ SameInvitations
<1> USE DEF StaffTypeOK, NoEntry, Exists, SameAccounts, SameInvitations
<1>1. ASSUME UNCHANGED accounts PROVE SameAccounts
  BY <1>1
<1>2. ASSUME UNCHANGED invitations PROVE SameInvitations
  BY <1>2
<1>3. ASSUME NEW a \in Account, LockPasses(a) PROVE SameAccounts
  BY <1>3 DEF LockPasses, AccountRow
<1>4. ASSUME NEW q \in StaffRequest, CountFailure(q) PROVE SameAccounts
  BY <1>4, StaffRequestFields DEF CountFailure, OfAccount, StaffAt, NothingDangles, AccountRow
<1>5. ASSUME NEW q \in StaffRequest, NEW s \in StaffSession, OpenStaffSession(q, s)
      PROVE  SameAccounts
  BY <1>5, StaffRequestFields DEF OpenStaffSession, OfAccount, StaffAt, NothingDangles, AccountRow
<1>6. ASSUME NEW i \in Invitation, InvitationExpires(i) PROVE SameInvitations
  BY <1>6 DEF InvitationExpires, InvitationRow
<1>7. ASSUME NEW q \in StaffRequest, NEW i \in Invitation, NEW e \in Email,
             NEW offer \in Offers, Invite(q, i, e, offer)
      PROVE  SameInvitations
  BY <1>7 DEF Invite, InvitationRow
<1> HIDE DEF StaffTypeOK, NoEntry, Exists, SameAccounts, SameInvitations
<1> QED
  BY <1>1, <1>2, <1>3, <1>4, <1>5, <1>6, <1>7
     DEF StaffNext, StaffStep, LockPasses, InvitationExpires, SessionExpires, StaffFail,
         ReadUser, OpenStaffSession, SignIn, ReadInvitation, Invite, CountFailure,
         StaffLogout, Act, LookUpAccount

-------------------------------------------------------------------------------
(* Invitations and accounts.                                               *)

\* The account that CreateAccount adds, and the invitation it accepts.
LEMMA Created ==
  ASSUME StaffTypeOK, NothingDangles, NEW q \in StaffRequest, NEW a \in Account,
         CreateAccount(q, a), NEW i, i = staffRequests[q].invitation
  PROVE  /\ i \in Invitation /\ invitations[i] # NoEntry
         /\ ~Exists(a) /\ accounts'[a] # NoEntry /\ CameOf(a, i)'
         /\ ~Taken(invitations[i].email)
         /\ \A b \in Account \ {a} : accounts'[b] = accounts[b]
         /\ \A j \in Invitation \ {i} : invitations'[j] = invitations[j]
         /\ invitations'[i].email = invitations[i].email
<1>1. i \in Invitation /\ invitations[i] \in InvitationRow /\ invitations[i] # NoEntry
  BY StaffRequestFields DEF CreateAccount, Pending, NothingDangles, StaffTypeOK
<1>2. invitations' = [invitations EXCEPT ![i].state = "ACCEPTED"]
  BY DEF CreateAccount
<1>3. /\ invitations'[i].state = "ACCEPTED"
      /\ invitations'[i].email = invitations[i].email
      /\ invitations'[i].roles = invitations[i].roles
      /\ \A j \in Invitation \ {i} : invitations'[j] = invitations[j]
  BY <1>1, <1>2 DEF StaffTypeOK, InvitationRow
<1>4. /\ ~Exists(a) /\ ~Taken(invitations[i].email)
      /\ accounts'[a].state = "ACTIVE"
      /\ accounts'[a].email = invitations[i].email
      /\ accounts'[a].grants = invitations[i].roles
      /\ accounts'[a].invitation = i
      /\ \A b \in Account \ {a} : accounts'[b] = accounts[b]
  BY DEF CreateAccount, StaffTypeOK
<1> QED
  BY <1>1, <1>3, <1>4 DEF CameOf, NoEntry

LEMMA InvitedStep ==
  ASSUME StaffTypeOK, NothingDangles, AccountsAreInvited, StaffNext
  PROVE  AccountsAreInvited'
<1>1. CASE \A q \in StaffRequest, a \in Account : ~CreateAccount(q, a)
  <2>1. SameAccounts /\ SameInvitations
    BY <1>1, Unchanging
  <2>2. \A i \in Invitation : invitations[i].state = "ACCEPTED" => invitations[i] # NoEntry
    BY DEF NoEntry
  <2> QED
    BY <2>1, <2>2 DEF SameAccounts, SameInvitations, AccountsAreInvited, CameOf
<1>2. ASSUME NEW q \in StaffRequest, NEW a \in Account, CreateAccount(q, a)
      PROVE  AccountsAreInvited'
  <2>0. PICK i : i = staffRequests[q].invitation
    OBVIOUS
  <2>1. /\ i \in Invitation /\ invitations[i] # NoEntry
        /\ ~Exists(a) /\ accounts'[a] # NoEntry /\ CameOf(a, i)'
        /\ ~Taken(invitations[i].email)
        /\ \A b \in Account \ {a} : accounts'[b] = accounts[b]
        /\ \A j \in Invitation \ {i} : invitations'[j] = invitations[j]
        /\ invitations'[i].email = invitations[i].email
    BY <1>2, <2>0, Created
  <2>2. \A b \in Account : Exists(b) =>
          accounts[b].email # invitations[i].email /\ b # a /\ accounts'[b] = accounts[b]
    BY <2>1 DEF Taken
  <2>3. \A b \in Account, j \in Invitation :
          Exists(b) /\ CameOf(b, j) => j # i /\ invitations'[j] = invitations[j]
    BY <2>1, <2>2 DEF CameOf
  <2>4. ASSUME NEW b \in Account, Exists(b)'
        PROVE  b = a \/ Exists(b)
    BY <2>1, <2>4 DEF Exists
  <2>5. ASSUME NEW b \in Account, Exists(b)'
        PROVE  \/ b = FirstAdmin /\ accounts'[b].invitation = "SEED"
               \/ \E j \in Invitation : CameOf(b, j)'
    BY <2>1, <2>2, <2>3, <2>4, <2>5 DEF AccountsAreInvited, CameOf
  <2>6. ASSUME NEW j \in Invitation, invitations'[j].state = "ACCEPTED"
        PROVE  \E b \in Account : Exists(b)' /\ CameOf(b, j)'
    <3>1. CASE j = i
      BY <2>1, <3>1 DEF Exists
    <3>2. CASE j # i
      <4>1. PICK b \in Account : Exists(b) /\ CameOf(b, j)
        BY <2>1, <2>6, <3>2 DEF AccountsAreInvited
      <4> QED
        BY <2>2, <2>3, <4>1 DEF Exists, CameOf
    <3> QED
      BY <3>1, <3>2
  <2>7. ASSUME NEW b \in Account, NEW c \in Account, Exists(b)', Exists(c)',
               accounts'[b].email = accounts'[c].email
        PROVE  b = c
    BY <2>1, <2>2, <2>4, <2>7 DEF AccountsAreInvited, CameOf
  <2> QED
    BY <2>5, <2>6, <2>7 DEF AccountsAreInvited
<1> QED
  BY <1>1, <1>2

-------------------------------------------------------------------------------
(* Requests and rights.                                                    *)

\* Accounts that are there stay, with what they were granted.
LEMMA AccountsStay ==
  ASSUME StaffTypeOK, NothingDangles, StaffNext
  PROVE  \A a \in Account :
           Exists(a) => accounts'[a] # NoEntry /\ accounts'[a].grants = accounts[a].grants
<1>1. CASE \A q \in StaffRequest, a \in Account : ~CreateAccount(q, a)
  BY <1>1, Unchanging DEF SameAccounts, Exists
<1>2. ASSUME NEW q \in StaffRequest, NEW a \in Account, CreateAccount(q, a)
      PROVE  \A b \in Account : Exists(b) => accounts'[b] = accounts[b]
  BY <1>2, Created
<1> QED
  BY <1>1, <1>2 DEF Exists

LEMMA InvitationsStay ==
  ASSUME StaffTypeOK, NothingDangles, StaffNext
  PROVE  \A i \in Invitation : invitations[i] # NoEntry => invitations'[i] # NoEntry
<1>1. CASE \A q \in StaffRequest, a \in Account : ~CreateAccount(q, a)
  BY <1>1, Unchanging DEF SameInvitations
<1>2. ASSUME NEW q \in StaffRequest, NEW a \in Account, CreateAccount(q, a)
      PROVE  \A i \in Invitation : invitations[i] # NoEntry => invitations'[i] # NoEntry
  BY <1>2 DEF CreateAccount, StaffTypeOK, InvitationRow, NoEntry
<1> QED
  BY <1>1, <1>2

\* A step leaves the other requests alone; its own ends, or goes on with what
\* there is.
LEMMA OneStaffRequest ==
  ASSUME StaffTypeOK, NothingDangles, StaffNext
  PROVE  \A q \in StaffRequest :
           \/ staffRequests'[q] = staffRequests[q]
           \/ staffRequests'[q] = StaffIdle
           \/ /\ staffRequests'[q].at \in {"ACCEPTING", "CREATING"}
              /\ staffRequests'[q].invitation \in Invitation
              /\ invitations[staffRequests'[q].invitation] # NoEntry
           \/ /\ staffRequests'[q].at \in {"PASSWORD_OK", "PASSWORD_BAD", "SIGNED_IN"}
              /\ staffRequests'[q].account \in Account
              /\ Exists(staffRequests'[q].account)
           \/ LET r == staffRequests'[q] IN
              /\ r.at = "ACTING"
              /\ r.account \in Account /\ Exists(r.account)
              /\ CanActOnInstitution(r.account, r.role, r.institution)
<1> DEFINE Follows(old, new) ==
       \/ new = old
       \/ new = StaffIdle
       \/ /\ new.at \in {"ACCEPTING", "CREATING"}
          /\ new.invitation \in Invitation
          /\ invitations[new.invitation] # NoEntry
       \/ /\ new.at \in {"PASSWORD_OK", "PASSWORD_BAD", "SIGNED_IN"}
          /\ new.account \in Account
          /\ Exists(new.account)
       \/ /\ new.at = "ACTING"
          /\ new.account \in Account /\ Exists(new.account)
          /\ CanActOnInstitution(new.account, new.role, new.institution)
<1>2. ASSUME NEW q \in StaffRequest, NEW point, StaffReaches(q, point),
             Follows(staffRequests[q], point)
      PROVE  \A p \in StaffRequest : Follows(staffRequests[p], staffRequests'[p])
  BY <1>2 DEF StaffReaches, StaffTypeOK
<1>3. ASSUME NEW q \in StaffRequest, StaffEnds(q)
      PROVE  \A p \in StaffRequest : Follows(staffRequests[p], staffRequests'[p])
  BY <1>2, <1>3 DEF StaffEnds
<1>4. ASSUME NEW q \in StaffRequest, NEW a \in Account, ReadUser(q, a)
      PROVE  \A p \in StaffRequest : Follows(staffRequests[p], staffRequests'[p])
  BY <1>2, <1>4 DEF ReadUser
<1>5. ASSUME NEW q \in StaffRequest, NEW s \in StaffSession, SignIn(q, s)
      PROVE  \A p \in StaffRequest : Follows(staffRequests[p], staffRequests'[p])
  <2>1. /\ staffSessions[s] # NoEntry
        /\ staffSessions[s].account \in Account
        /\ Exists(staffSessions[s].account)
    BY <1>5 DEF SignIn, StaffTypeOK, StaffSessionRow, NoEntry, NothingDangles
  <2> QED
    BY <1>2, <1>5, <2>1 DEF SignIn
<1>6. ASSUME NEW q \in StaffRequest, NEW i \in Invitation, ReadInvitation(q, i)
      PROVE  \A p \in StaffRequest : Follows(staffRequests[p], staffRequests'[p])
  <2>1. invitations[i] # NoEntry
    BY <1>6 DEF ReadInvitation, NoEntry
  <2> QED
    BY <1>2, <1>6, <2>1 DEF ReadInvitation
<1>7. ASSUME NEW q \in StaffRequest, LookUpAccount(q)
      PROVE  \A p \in StaffRequest : Follows(staffRequests[p], staffRequests'[p])
  <2>1. /\ staffRequests[q].invitation \in Invitation
        /\ invitations[staffRequests[q].invitation] # NoEntry
    BY <1>7, StaffRequestFields DEF LookUpAccount, Pending, NothingDangles
  <2> QED
    BY <1>2, <1>7, <2>1 DEF LookUpAccount
<1>8. ASSUME NEW q \in StaffRequest, Act(q)
      PROVE  \A p \in StaffRequest : Follows(staffRequests[p], staffRequests'[p])
  <2>1. staffRequests[q].account \in Account /\ Exists(staffRequests[q].account)
    BY <1>8, StaffRequestFields DEF Act, OfAccount, NothingDangles
  <2> QED
    BY <1>2, <1>8, <2>1 DEF Act
<1> HIDE DEF Follows
<1>9. \A p \in StaffRequest : Follows(staffRequests[p], staffRequests'[p])
  <2>1. CASE UNCHANGED staffRequests
    BY <2>1 DEF Follows
  <2> QED
    BY <2>1, <1>3, <1>4, <1>5, <1>6, <1>7, <1>8
       DEF StaffNext, StaffStep, LockPasses, InvitationExpires, SessionExpires, StaffFail,
           OpenStaffSession, Invite, CountFailure, StaffLogout, CreateAccount
<1> QED
  BY <1>9 DEF Follows

LEMMA DanglesStep ==
  ASSUME StaffTypeOK, NothingDangles, StaffNext PROVE NothingDangles'
<1>1. ASSUME NEW s \in StaffSession, staffSessions'[s] # NoEntry
      PROVE  accounts'[staffSessions'[s].account] # NoEntry
  <2>1. CASE staffSessions'[s] = staffSessions[s]
    BY <1>1, <2>1, AccountsStay
       DEF NothingDangles, StaffTypeOK, StaffSessionRow, NoEntry
  <2>2. CASE \E q \in StaffRequest, t \in StaffSession : OpenStaffSession(q, t)
    <3>1. PICK q \in StaffRequest, t \in StaffSession : OpenStaffSession(q, t)
      BY <2>2
    <3>2. staffRequests[q].account \in Account /\ Exists(staffRequests[q].account)
      BY <3>1, StaffRequestFields DEF OpenStaffSession, OfAccount, NothingDangles
    <3>3. s # t => staffSessions'[s] = staffSessions[s]
      BY <3>1 DEF OpenStaffSession, StaffTypeOK
    <3>4. s = t => staffSessions'[s].account = staffRequests[q].account
      BY <3>1 DEF OpenStaffSession, StaffTypeOK
    <3> QED
      BY <2>1, <3>2, <3>3, <3>4, AccountsStay
  <2>3. CASE ~\E q \in StaffRequest, t \in StaffSession : OpenStaffSession(q, t)
    <3>1. staffSessions'[s] = staffSessions[s] \/ staffSessions'[s] = NoEntry
      BY <2>3, StaffRequestFields
         DEF StaffNext, StaffStep, LockPasses, InvitationExpires, SessionExpires, StaffFail,
             ReadUser, SignIn, ReadInvitation, Invite, CountFailure, StaffLogout, Act,
             LookUpAccount, CreateAccount, StaffTypeOK
    <3> QED
      BY <1>1, <2>1, <3>1
  <2> QED
    BY <2>2, <2>3
<1>2. ASSUME NEW q \in StaffRequest
      PROVE  /\ staffRequests'[q].at \in {"ACCEPTING", "CREATING"} =>
                  invitations'[staffRequests'[q].invitation] # NoEntry
             /\ staffRequests'[q].at \in {"PASSWORD_OK", "PASSWORD_BAD", "SIGNED_IN", "ACTING"} =>
                  accounts'[staffRequests'[q].account] # NoEntry
  <2>1. CASE staffRequests'[q] = staffRequests[q]
    BY <2>1, StaffRequestFields, AccountsStay, InvitationsStay
       DEF NothingDangles, Pending, OfAccount, StaffAt
  <2>2. CASE staffRequests'[q] # staffRequests[q]
    BY <2>2, OneStaffRequest, AccountsStay, InvitationsStay DEF StaffIdle
  <2> QED
    BY <2>1, <2>2
<1> QED
  BY <1>1, <1>2 DEF NothingDangles, Pending, OfAccount, StaffAt, Exists

LEMMA ActsStep ==
  ASSUME StaffTypeOK, NothingDangles, ActsAreAllowed, StaffNext PROVE ActsAreAllowed'
<1> SUFFICES ASSUME NEW q \in StaffRequest, staffRequests'[q].at = "ACTING"
             PROVE  LET r == staffRequests'[q] IN
                    \E g \in accounts'[r.account].grants :
                      g.role = r.role /\ g.institution \in {Global, r.institution}
  BY DEF ActsAreAllowed, StaffAt, CanActOnInstitution
<1>1. LET r == staffRequests'[q] IN
      /\ r.account \in Account /\ Exists(r.account)
      /\ CanActOnInstitution(r.account, r.role, r.institution)
  <2>1. CASE staffRequests'[q] = staffRequests[q]
    BY <2>1, StaffRequestFields DEF ActsAreAllowed, NothingDangles, OfAccount, StaffAt
  <2>2. CASE staffRequests'[q] # staffRequests[q]
    BY <2>2, OneStaffRequest DEF StaffIdle
  <2> QED
    BY <2>1, <2>2
<1> QED
  BY <1>1, AccountsStay DEF CanActOnInstitution

-------------------------------------------------------------------------------
(* Theorems.                                                               *)

LEMMA InitStaffInv == StaffInit => StaffInv
<1> SUFFICES ASSUME StaffInit PROVE StaffInv
  OBVIOUS
<1>1. StaffTypeOK
  BY SeedIsRow, StaffAssumption DEF StaffInit, StaffTypeOK, SeedRow, NoEntry
<1>2. NothingDangles /\ ActsAreAllowed
  BY DEF StaffInit, NothingDangles, ActsAreAllowed, Pending, OfAccount, StaffAt, StaffIdle
<1>3. \A a \in Account : Exists(a) => a = FirstAdmin /\ accounts[a].invitation = "SEED"
  BY DEF StaffInit, Exists, SeedRow
<1>4. \A i \in Invitation : invitations[i].state # "ACCEPTED"
  BY DEF StaffInit, NoEntry
<1>5. AccountsAreInvited
  BY <1>3, <1>4 DEF AccountsAreInvited
<1> QED
  BY <1>1, <1>2, <1>5 DEF StaffInv

LEMMA StepStaffInv == StaffInv /\ [StaffNext]_staffVars => StaffInv'
<1> SUFFICES ASSUME StaffInv, [StaffNext]_staffVars PROVE StaffInv'
  OBVIOUS
<1>1. CASE UNCHANGED staffVars
  BY <1>1 DEF staffVars, StaffInv, StaffTypeOK, NothingDangles, AccountsAreInvited,
              ActsAreAllowed, CanActOnInstitution, CameOf, Exists, Pending, OfAccount, StaffAt
<1>2. CASE StaffNext
  BY <1>2, StaffTypeStep, DanglesStep, InvitedStep, ActsStep DEF StaffInv
<1> QED
  BY <1>1, <1>2

\* The types, the lock that agrees with the count, and where accounts come from.
THEOREM StaffInvariance == StaffSpec => []StaffInv
BY InitStaffInv, StepStaffInv, PTL DEF StaffSpec

\* One account per address and one per accepted invitation, for any number of
\* invitations and acceptances in flight.
THEOREM AccountsAreUnique == StaffSpec => []OneAccountPerEmail
<1>1. StaffInv => OneAccountPerEmail
  <2> SUFFICES ASSUME StaffInv PROVE OneAccountPerEmail
    OBVIOUS
  <2>1. ASSUME NEW i \in Invitation, invitations[i].state = "ACCEPTED"
        PROVE  Cardinality({a \in Account : Exists(a) /\ accounts[a].invitation = i}) = 1
    <3>1. PICK a \in Account : Exists(a) /\ CameOf(a, i)
      BY <2>1 DEF StaffInv, AccountsAreInvited
    <3>2. ASSUME NEW b \in Account, Exists(b), accounts[b].invitation = i
          PROVE  b = a
      BY <3>1, <3>2, StaffAssumption DEF StaffInv, AccountsAreInvited, CameOf
    <3>3. {b \in Account : Exists(b) /\ accounts[b].invitation = i} = {a}
      BY <3>1, <3>2 DEF CameOf
    <3> QED
      BY <3>3, FS_Singleton
  <2> QED
    BY <2>1 DEF StaffInv, AccountsAreInvited, OneAccountPerEmail
<1> QED
  BY <1>1, StaffInvariance, PTL

\* Whoever acts, does so by the roles that the invitation behind the account
\* granted, for its institution or for all, or is the seeded administrator.
THEOREM RightsAreGranted == StaffSpec => []RightsComeFromInvitation
<1>1. StaffInv => RightsComeFromInvitation
  <2> SUFFICES ASSUME StaffInv, NEW q \in StaffRequest, StaffAt(q, "ACTING"),
                      staffRequests[q].account # FirstAdmin
               PROVE  LET r == staffRequests[q] IN
                      \E i \in Invitation :
                        /\ accounts[r.account].invitation = i
                        /\ invitations[i].state = "ACCEPTED"
                        /\ \/ [role |-> r.role, institution |-> r.institution]
                                \in invitations[i].roles
                           \/ [role |-> r.role, institution |-> Global]
                                \in invitations[i].roles
    BY DEF RightsComeFromInvitation
  <2> DEFINE r == staffRequests[q]
  <2>1. r.account \in Account /\ Exists(r.account)
    BY StaffRequestFields DEF StaffInv, NothingDangles, OfAccount
  <2>2. PICK i \in Invitation : CameOf(r.account, i)
    BY <2>1 DEF StaffInv, AccountsAreInvited
  <2>3. PICK g \in accounts[r.account].grants :
          g.role = r.role /\ g.institution \in {Global, r.institution}
    BY DEF StaffInv, ActsAreAllowed, CanActOnInstitution
  <2>4. g \in Grant
    BY <2>1, <2>3 DEF StaffInv, StaffTypeOK, AccountRow, Exists
  <2>5. \/ g = [role |-> r.role, institution |-> r.institution]
        \/ g = [role |-> r.role, institution |-> Global]
    BY <2>3, <2>4 DEF Grant
  <2> QED
    BY <2>2, <2>3, <2>5 DEF CameOf
<1> QED
  BY <1>1, StaffInvariance, PTL

-------------------------------------------------------------------------------
(* The holder portal.                                                        *)

\* What a request has read was in the tables, a right code in a mail.
RequestsAreBacked ==
  \A q \in Request :
    /\ requests[q].at \in {"OTP_RIGHT", "OTP_WRONG"} =>
         challenges[requests[q].of] # NoRow /\ requests[q].attempts < OTP_MAX_ATTEMPTS
    /\ requests[q].at = "OTP_RIGHT" => requests[q].of \in mailed
    /\ requests[q].at = "AUTHENTICATED" => holderSessions[requests[q].of] # NoRow
    /\ requests[q].at = "RESOLVING" => shares[requests[q].of] # NoRow

PortalInv == PortalTypeOK /\ RequestsAreBacked /\ HoldersSeeTheirOwn

LEMMA PortalRows ==
  ASSUME PortalTypeOK
  PROVE  /\ \A c \in Challenge : challenges[c] # NoRow => challenges[c] \in ChallengeRow
         /\ \A s \in HolderSession : holderSessions[s] # NoRow => holderSessions[s] \in SessionRow
         /\ \A x \in Share : shares[x] # NoRow => shares[x] \in ShareRow
         /\ NoRow \notin ChallengeRow \cup SessionRow \cup ShareRow
         /\ NoRow.state = "ABSENT"
BY DEF PortalTypeOK, NoRow, ChallengeRow, SessionRow, ShareRow, State

LEMMA PortalRequests ==
  ASSUME PortalTypeOK, NEW q \in Request
  PROVE  /\ requests[q].at \in {"OTP_RIGHT", "OTP_WRONG"} =>
              requests[q].of \in Challenge /\ requests[q].attempts \in 0 .. OTP_MAX_ATTEMPTS
         /\ requests[q].at = "AUTHENTICATED" =>
              requests[q].of \in HolderSession /\ requests[q].holder \in Holder
         /\ requests[q].at \in {"VIEWED", "SHARING"} =>
              requests[q].of \in Diploma /\ requests[q].holder \in Holder
         /\ requests[q].at = "RESOLVING" => requests[q].of \in Share
         /\ NoRequest.at = "IDLE"
BY DEF PortalTypeOK, InFlight, NoRequest

\* A row keeps what it is about, and what is spent or visible stays so.
PortalRowsStay ==
  /\ \A c \in Challenge : challenges[c] # NoRow =>
       /\ challenges'[c] # NoRow
       /\ challenges'[c].holder = challenges[c].holder
       /\ challenges[c].state = "SPENT" => challenges'[c].state = "SPENT"
  /\ \A s \in HolderSession : holderSessions[s] # NoRow =>
       /\ holderSessions'[s] # NoRow
       /\ holderSessions'[s].holder = holderSessions[s].holder
       /\ holderSessions'[s].code = holderSessions[s].code
       /\ holderSessions[s].state = "SPENT" => holderSessions'[s].state = "SPENT"
  /\ \A x \in Share : shares[x] # NoRow =>
       /\ shares'[x] # NoRow
       /\ shares'[x].holder = shares[x].holder
       /\ shares'[x].diploma = shares[x].diploma
       /\ shares[x].state = "SPENT" => shares'[x].state = "SPENT"
  /\ mailed \subseteq mailed'
  /\ \A d \in Diploma : diplomas[d] \in HOLDER_VISIBLE_STATUSES =>
       diplomas'[d] \in HOLDER_VISIBLE_STATUSES

LEMMA ChallengeUpdates ==
  ASSUME PortalTypeOK, NEW c \in Challenge, challenges[c] # NoRow
  PROVE  /\ \A n \in 0 .. OTP_MAX_ATTEMPTS :
              [challenges EXCEPT ![c].attempts = n] \in [Challenge -> ChallengeRow \cup {NoRow}]
         /\ [challenges EXCEPT ![c].state = "SPENT"]
              \in [Challenge -> ChallengeRow \cup {NoRow}]
BY PortalRows DEF PortalTypeOK, ChallengeRow, State

LEMMA PortalTypeStep ==
  ASSUME PortalInv, [PortalNext]_portalVars PROVE PortalTypeOK'
<1> USE DEF PortalInv
<1>1. CASE UNCHANGED portalVars
  BY <1>1 DEF portalVars, PortalTypeOK
<1>2. ASSUME NEW d \in Diploma, MoveOn(d) PROVE PortalTypeOK'
  BY <1>2 DEF MoveOn, PortalTypeOK
<1>3. ASSUME NEW id \in Rows, Expire(id) PROVE PortalTypeOK'
  BY <1>3 DEF Expire, Rows, PortalTypeOK
<1>4. ASSUME NEW c \in Challenge, OtpDelivery(c) \/ \E h \in Holder : RequestOtp(h, c)
      PROVE  PortalTypeOK'
  <2>1. \A h \in Holder : [state |-> "LIVE", holder |-> h, attempts |-> 0] \in ChallengeRow
    BY PortalAssumption DEF ChallengeRow, State
  <2> QED
    BY <1>4, <2>1 DEF OtpDelivery, RequestOtp, PortalTypeOK
<1>5. ASSUME NEW q \in Request, NEW point \in InFlight \cup {NoRequest}, Reaches(q, point),
             UNCHANGED <<diplomas, challenges, mailed, holderSessions, shares, expired>>
      PROVE  PortalTypeOK'
  BY <1>5 DEF Reaches, PortalTypeOK
<1>6. ASSUME NEW q \in Request, PortalRequest(q) PROVE PortalTypeOK'
  <2>1. ASSUME NEW c \in Challenge, ReadChallenge(q, c) PROVE PortalTypeOK'
    <3>1. challenges[c] \in ChallengeRow
      BY <2>1, PortalRows DEF ReadChallenge, Live
    <3>2. \A at \in {"OTP_RIGHT", "OTP_WRONG"} :
            [at |-> at, of |-> c, attempts |-> challenges[c].attempts] \in InFlight
      BY <3>1 DEF InFlight, ChallengeRow
    <3> QED
      BY <1>5, <2>1, <3>2 DEF ReadChallenge
  <2>2. CASE RejectCode(q)
    <3> DEFINE r == requests[q]
    <3>1. /\ r.of \in Challenge /\ challenges[r.of] # NoRow
          /\ r.attempts + 1 \in 0 .. OTP_MAX_ATTEMPTS
      BY <2>2, PortalRequests, PortalAssumption DEF RejectCode, RequestsAreBacked
    <3>2. challenges' \in [Challenge -> ChallengeRow \cup {NoRow}]
      BY <2>2, <3>1, ChallengeUpdates DEF RejectCode
    <3> QED
      BY <2>2, <3>2 DEF RejectCode, Ends, Reaches, PortalTypeOK
  <2>3. ASSUME NEW s \in HolderSession, OpenSession(q, s) PROVE PortalTypeOK'
    <3> DEFINE r == requests[q]
    <3>1. r.of \in Challenge /\ challenges[r.of] # NoRow
      BY <2>3, PortalRequests DEF OpenSession, RequestsAreBacked
    <3>2. challenges' \in [Challenge -> ChallengeRow \cup {NoRow}]
      BY <2>3, <3>1, ChallengeUpdates DEF OpenSession
    <3>3. [state |-> "LIVE", holder |-> challenges[r.of].holder, code |-> r.of] \in SessionRow
      BY <3>1, PortalRows DEF SessionRow, ChallengeRow, State
    <3>4. holderSessions' \in [HolderSession -> SessionRow \cup {NoRow}]
      BY <2>3, <3>3 DEF OpenSession, PortalTypeOK
    <3> QED
      BY <2>3, <3>2, <3>4 DEF OpenSession, Ends, Reaches, PortalTypeOK
  <2>4. ASSUME NEW s \in HolderSession, Authenticate(q, s) PROVE PortalTypeOK'
    <3>1. holderSessions[s] \in SessionRow
      BY <2>4, PortalRows DEF Authenticate, Live
    <3>2. [at |-> "AUTHENTICATED", of |-> s, holder |-> holderSessions[s].holder] \in InFlight
      BY <3>1 DEF InFlight, SessionRow
    <3> QED
      BY <1>5, <2>4, <3>2 DEF Authenticate
  <2>5. CASE Logout(q)
    <3>1. requests[q].of \in HolderSession /\ holderSessions[requests[q].of] # NoRow
      BY <2>5, PortalRequests DEF Logout, RequestsAreBacked
    <3>2. holderSessions' \in [HolderSession -> SessionRow \cup {NoRow}]
      BY <2>5, <3>1, PortalRows DEF Logout, SessionRow, State, PortalTypeOK
    <3> QED
      BY <2>5, <3>2 DEF Logout, Ends, Reaches, PortalTypeOK
  <2>6. CASE ViewCredential(q) \/ CheckShareable(q)
    <3>1. PICK d \in Diploma, at \in {"VIEWED", "SHARING"} :
            Reaches(q, [at |-> at, of |-> d, holder |-> requests[q].holder])
      BY <2>6 DEF ViewCredential, CheckShareable, HolderCredentials
    <3>2. requests[q].holder \in Holder
      BY <2>6, PortalRequests DEF ViewCredential, CheckShareable
    <3>3. [at |-> at, of |-> d, holder |-> requests[q].holder] \in InFlight
      BY <3>2 DEF InFlight
    <3> QED
      BY <1>5, <2>6, <3>1, <3>3 DEF ViewCredential, CheckShareable
  <2>7. ASSUME NEW x \in Share, CreateShare(q, x) PROVE PortalTypeOK'
    <3> DEFINE r == requests[q]
    <3>1. [state |-> "LIVE", holder |-> r.holder, diploma |-> r.of, accessCount |-> 0] \in ShareRow
      BY <2>7, PortalRequests, PortalAssumption DEF CreateShare, ShareRow, State
    <3>2. shares' \in [Share -> ShareRow \cup {NoRow}]
      BY <2>7, <3>1 DEF CreateShare, PortalTypeOK
    <3> QED
      BY <2>7, <3>2 DEF CreateShare, Ends, Reaches, PortalTypeOK
  <2>8. ASSUME NEW x \in Share, RevokeShare(q, x) PROVE PortalTypeOK'
    <3>1. shares[x] # NoRow
      BY <2>8 DEF RevokeShare, HolderShares
    <3>2. shares' \in [Share -> ShareRow \cup {NoRow}]
      BY <2>8, <3>1, PortalRows DEF RevokeShare, ShareRow, State, PortalTypeOK
    <3> QED
      BY <2>8, <3>2 DEF RevokeShare, Ends, Reaches, PortalTypeOK
  <2>9. ASSUME NEW x \in Share, ReadShare(q, x) PROVE PortalTypeOK'
    <3>1. [at |-> "RESOLVING", of |-> x] \in InFlight
      BY DEF InFlight
    <3> QED
      BY <1>5, <2>9, <3>1 DEF ReadShare
  <2>10. CASE CountView(q)
    <3> DEFINE x == requests[q].of
               old == shares[x].accessCount
               count == IF old < MaxViews THEN old + 1 ELSE old
    <3>1. x \in Share /\ shares[x] # NoRow
      BY <2>10, PortalRequests DEF CountView, RequestsAreBacked
    <3>2. old \in 0 .. MaxViews
      BY <3>1, PortalRows DEF ShareRow
    <3>3. count \in 0 .. MaxViews
      BY <3>2, PortalAssumption
    <3>4. shares' = [shares EXCEPT ![x].accessCount = count]
      BY <2>10 DEF CountView
    <3> HIDE DEF count
    <3>5. shares' \in [Share -> ShareRow \cup {NoRow}]
      BY <3>1, <3>3, <3>4, PortalRows DEF ShareRow, PortalTypeOK
    <3> QED
      BY <2>10, <3>5 DEF CountView, Ends, Reaches, PortalTypeOK
  <2>11. CASE Fail(q)
    BY <1>5, <2>11 DEF Fail, Ends
  <2> QED
    BY <1>6, <2>1, <2>2, <2>3, <2>4, <2>5, <2>6, <2>7, <2>8, <2>9, <2>10, <2>11 DEF PortalRequest
<1> QED
  BY <1>1, <1>2, <1>3, <1>4, <1>6 DEF PortalNext

\* Whatever a handler writes, it writes on what is there.
LEMMA PortalRowsStayStep ==
  ASSUME PortalInv, [PortalNext]_portalVars PROVE PortalRowsStay
<1> USE DEF PortalInv
<1>1. CASE UNCHANGED portalVars
  BY <1>1 DEF portalVars, PortalRowsStay
<1>2. ASSUME NEW d \in Diploma, MoveOn(d) PROVE PortalRowsStay
  <2>1. PICK s \in CredentialLifecycle :
          CanTransition(diplomas[d], s) /\ diplomas' = [diplomas EXCEPT ![d] = s]
    BY <1>2 DEF MoveOn
  <2>2. diplomas[d] \in HOLDER_VISIBLE_STATUSES => s \in HOLDER_VISIBLE_STATUSES
    BY <2>1 DEF HOLDER_VISIBLE_STATUSES, CanTransition, LIFECYCLE_TRANSITIONS
  <2> QED
    BY <1>2, <2>1, <2>2 DEF MoveOn, PortalRowsStay, PortalTypeOK
<1>3. ASSUME UNCHANGED <<diplomas, challenges, mailed, holderSessions, shares>>
      PROVE  PortalRowsStay
  BY <1>3 DEF PortalRowsStay
<1>4. ASSUME NEW c \in Challenge, OtpDelivery(c) \/ \E h \in Holder : RequestOtp(h, c)
      PROVE  PortalRowsStay
  BY <1>4 DEF OtpDelivery, RequestOtp, PortalRowsStay, PortalTypeOK
<1>5. ASSUME NEW q \in Request, PortalRequest(q) PROVE PortalRowsStay
  <2>1. ASSUME NEW c \in Challenge, challenges[c] # NoRow, NEW n,
               \/ challenges' = [challenges EXCEPT ![c].attempts = n]
               \/ challenges' = [challenges EXCEPT ![c].state = "SPENT"]
        PROVE  \A b \in Challenge : challenges[b] # NoRow =>
                 /\ challenges'[b] # NoRow
                 /\ challenges'[b].holder = challenges[b].holder
                 /\ challenges[b].state = "SPENT" => challenges'[b].state = "SPENT"
    <3>1. challenges[c] \in ChallengeRow /\ challenges \in [Challenge -> ChallengeRow \cup {NoRow}]
      BY <2>1, PortalRows DEF PortalTypeOK
    <3>2. challenges'[c].holder = challenges[c].holder
          /\ challenges'[c].state \in {challenges[c].state, "SPENT"}
      BY <2>1, <3>1 DEF ChallengeRow
    <3>3. challenges'[c] # NoRow
      BY <3>1, <3>2, PortalRows DEF ChallengeRow, State
    <3>4. \A b \in Challenge \ {c} : challenges'[b] = challenges[b]
      BY <2>1, <3>1
    <3> QED
      BY <3>2, <3>3, <3>4
  <2>2. CASE RejectCode(q)
    BY <2>1, <2>2, PortalRequests DEF RejectCode, RequestsAreBacked, PortalRowsStay
  <2>3. ASSUME NEW s \in HolderSession, OpenSession(q, s) PROVE PortalRowsStay
    <3>1. \A b \in Challenge : challenges[b] # NoRow =>
                 /\ challenges'[b] # NoRow
                 /\ challenges'[b].holder = challenges[b].holder
                 /\ challenges[b].state = "SPENT" => challenges'[b].state = "SPENT"
      BY <2>1, <2>3, PortalRequests DEF OpenSession, RequestsAreBacked
    <3>2. \A t \in HolderSession : holderSessions[t] # NoRow =>
            holderSessions'[t] = holderSessions[t]
      BY <2>3 DEF OpenSession, PortalTypeOK
    <3> QED
      BY <2>3, <3>1, <3>2 DEF OpenSession, PortalRowsStay
  <2>4. CASE Logout(q)
    <3> DEFINE s == requests[q].of
    <3>1. s \in HolderSession /\ holderSessions[s] # NoRow /\ holderSessions[s] \in SessionRow
      BY <2>4, PortalRequests, PortalRows DEF Logout, RequestsAreBacked
    <3>2. holderSessions'[s] = [holderSessions[s] EXCEPT !.state = "SPENT"]
      BY <2>4, <3>1 DEF Logout, PortalTypeOK
    <3>3. /\ holderSessions'[s].holder = holderSessions[s].holder
          /\ holderSessions'[s].code = holderSessions[s].code
          /\ holderSessions'[s].state = "SPENT"
      BY <3>1, <3>2 DEF SessionRow
    <3>4. \A t \in HolderSession \ {s} : holderSessions'[t] = holderSessions[t]
      BY <2>4 DEF Logout, PortalTypeOK
    <3>5. holderSessions'[s] # NoRow
      BY <3>3, PortalRows
    <3> QED
      BY <2>4, <3>3, <3>4, <3>5 DEF Logout, PortalRowsStay
  <2>5. ASSUME NEW x \in Share, CreateShare(q, x) PROVE PortalRowsStay
    BY <2>5 DEF CreateShare, PortalRowsStay, PortalTypeOK
  <2>6. ASSUME NEW x \in Share, shares[x] # NoRow, NEW n,
               \/ shares' = [shares EXCEPT ![x].accessCount = n]
               \/ shares' = [shares EXCEPT ![x].state = "SPENT"],
               UNCHANGED <<diplomas, challenges, mailed, holderSessions>>
        PROVE  PortalRowsStay
    <3>1. shares[x] \in ShareRow
      BY <2>6, PortalRows
    <3>2. /\ shares'[x].holder = shares[x].holder
          /\ shares'[x].diploma = shares[x].diploma
          /\ shares'[x].state \in {shares[x].state, "SPENT"}
      BY <2>6, <3>1 DEF ShareRow, PortalTypeOK
    <3>3. shares'[x] # NoRow
      BY <3>1, <3>2, PortalRows DEF ShareRow, State
    <3>4. \A y \in Share \ {x} : shares'[y] = shares[y]
      BY <2>6 DEF PortalTypeOK
    <3> QED
      BY <2>6, <3>2, <3>3, <3>4 DEF PortalRowsStay
  <2>7. ASSUME NEW x \in Share, RevokeShare(q, x) PROVE PortalRowsStay
    BY <2>6, <2>7 DEF RevokeShare, HolderShares
  <2>8. CASE CountView(q)
    <3>1. requests[q].of \in Share /\ shares[requests[q].of] # NoRow
      BY <2>8, PortalRequests DEF CountView, RequestsAreBacked
    <3> QED
      BY <2>6, <2>8, <3>1 DEF CountView
  <2> QED
    BY <1>3, <1>5, <2>2, <2>3, <2>4, <2>5, <2>7, <2>8
       DEF PortalRequest, ReadChallenge, Authenticate, ViewCredential, CheckShareable,
           ReadShare, Fail
<1> QED
  BY <1>1, <1>2, <1>3, <1>4, <1>5 DEF PortalNext, Expire

\* The rows of a request's reads stay; what it reads now is there now.
LEMMA PortalBackedStep ==
  ASSUME PortalInv, PortalTypeOK', PortalRowsStay, [PortalNext]_portalVars
  PROVE  RequestsAreBacked'
<1> USE DEF PortalInv
<1> DEFINE Backed(q) ==
      /\ requests[q].at \in {"OTP_RIGHT", "OTP_WRONG"} =>
           challenges[requests[q].of] # NoRow /\ requests[q].attempts < OTP_MAX_ATTEMPTS
      /\ requests[q].at = "OTP_RIGHT" => requests[q].of \in mailed
      /\ requests[q].at = "AUTHENTICATED" => holderSessions[requests[q].of] # NoRow
      /\ requests[q].at = "RESOLVING" => shares[requests[q].of] # NoRow
<1>1. ASSUME NEW q \in Request, requests'[q] = requests[q] PROVE Backed(q)'
  BY <1>1, PortalRequests DEF RequestsAreBacked, PortalRowsStay
<1>2. ASSUME NEW q \in Request, requests'[q] = NoRequest PROVE Backed(q)'
  BY <1>2, PortalRequests
<1>3. ASSUME NEW q \in Request, PortalRequest(q) PROVE Backed(q)'
  <2>1. ASSUME NEW c \in Challenge, ReadChallenge(q, c) PROVE Backed(q)'
    BY <2>1, PortalRows DEF ReadChallenge, Reaches, Live, PortalTypeOK
  <2>2. ASSUME NEW s \in HolderSession, Authenticate(q, s) PROVE Backed(q)'
    BY <2>2, PortalRows DEF Authenticate, Reaches, Live, PortalTypeOK
  <2>3. CASE ViewCredential(q) \/ CheckShareable(q)
    <3>1. requests'[q].at \in {"VIEWED", "SHARING"}
      BY <2>3 DEF ViewCredential, CheckShareable, Reaches, PortalTypeOK
    <3> QED
      BY <3>1
  <2>4. ASSUME NEW x \in Share, ReadShare(q, x) PROVE Backed(q)'
    BY <2>4 DEF ReadShare, Reaches, PortalTypeOK
  <2>5. CASE \/ RejectCode(q) \/ Logout(q) \/ CountView(q) \/ Fail(q)
             \/ \E s \in HolderSession : OpenSession(q, s)
             \/ \E x \in Share : CreateShare(q, x) \/ RevokeShare(q, x)
    <3>1. requests'[q] = NoRequest
      BY <2>5 DEF RejectCode, Logout, CountView, Fail, OpenSession, CreateShare, RevokeShare,
                  Ends, Reaches, PortalTypeOK
    <3> QED
      BY <1>2, <3>1
  <2> QED
    BY <1>3, <2>1, <2>2, <2>3, <2>4, <2>5 DEF PortalRequest
<1>4. ASSUME NEW q \in Request, PortalRequest(q), NEW p \in Request \ {q}
      PROVE  requests'[p] = requests[p]
  BY <1>4 DEF PortalRequest, ReadChallenge, RejectCode, OpenSession, Authenticate, Logout,
              ViewCredential, CheckShareable, CreateShare, RevokeShare, ReadShare, CountView,
              Fail, Ends, Reaches, PortalTypeOK
<1>5. CASE UNCHANGED requests
  BY <1>1, <1>5 DEF RequestsAreBacked
<1>6. ASSUME NEW q \in Request, PortalRequest(q) PROVE RequestsAreBacked'
  BY <1>1, <1>3, <1>4, <1>6 DEF RequestsAreBacked
<1> QED
  BY <1>5, <1>6 DEF PortalNext, portalVars, MoveOn, Expire, OtpDelivery, RequestOtp

\* A session is opened with a code that was mailed, and consumes it.
LEMMA PortalEarnedStep ==
  ASSUME PortalInv, PortalRowsStay, [PortalNext]_portalVars
  PROVE  SessionsAreEarned'
<1> USE DEF PortalInv, HoldersSeeTheirOwn
<1> SUFFICES ASSUME NEW s \in HolderSession, holderSessions'[s] # NoRow
             PROVE  LET c == holderSessions'[s].code IN
                    /\ c \in mailed'
                    /\ challenges'[c].state = "SPENT"
                    /\ challenges'[c].holder = holderSessions'[s].holder
  BY DEF SessionsAreEarned
<1>1. CASE holderSessions[s] # NoRow
  <2> DEFINE c == holderSessions[s].code
  <2>1. c \in Challenge /\ c \in mailed /\ challenges[c].state = "SPENT"
        /\ challenges[c].holder = holderSessions[s].holder
    BY <1>1, PortalRows DEF SessionsAreEarned, SessionRow
  <2>2. challenges[c] # NoRow
    BY <2>1, PortalRows
  <2> QED
    BY <1>1, <2>1, <2>2 DEF PortalRowsStay
<1>2. CASE holderSessions[s] = NoRow
  <2>1. PICK q \in Request : OpenSession(q, s)
    <3>1. holderSessions'[s] # holderSessions[s]
      BY <1>2
    <3> QED
      BY <1>2, <3>1, PortalRequests
         DEF PortalNext, portalVars, MoveOn, Expire, OtpDelivery, RequestOtp, PortalRequest,
             ReadChallenge, RejectCode, OpenSession, Authenticate, Logout, ViewCredential,
             CheckShareable, CreateShare, RevokeShare, ReadShare, CountView, Fail,
             PortalTypeOK, RequestsAreBacked
  <2> DEFINE c == requests[q].of
  <2>2. c \in Challenge /\ challenges[c] # NoRow /\ c \in mailed
    BY <2>1, PortalRequests DEF OpenSession, RequestsAreBacked
  <2>3. holderSessions'[s] = [state |-> "LIVE", holder |-> challenges[c].holder, code |-> c]
    BY <2>1 DEF OpenSession, PortalTypeOK
  <2>4. challenges'[c] = [challenges[c] EXCEPT !.state = "SPENT"] /\ mailed' = mailed
    BY <2>1, <2>2 DEF OpenSession, PortalTypeOK
  <2>5. challenges'[c].state = "SPENT" /\ challenges'[c].holder = challenges[c].holder
    BY <2>2, <2>4, PortalRows DEF ChallengeRow
  <2> HIDE DEF c
  <2>6. holderSessions'[s].code = c /\ holderSessions'[s].holder = challenges[c].holder
    BY <2>3
  <2> QED
    BY <2>2, <2>4, <2>5, <2>6
<1> QED
  BY <1>1, <1>2

\* A visible status is left only for a visible one.
LEMMA PortalOwnStep ==
  ASSUME PortalInv, PortalRowsStay, [PortalNext]_portalVars
  PROVE  OwnIssuedOnly'
<1> USE DEF PortalInv, HoldersSeeTheirOwn
<1>1. ASSUME NEW q \in Request, requests'[q].at \in {"VIEWED", "SHARING"}
      PROVE  /\ Owner[requests'[q].of] = requests'[q].holder
             /\ diplomas'[requests'[q].of] \in HOLDER_VISIBLE_STATUSES
  <2>1. CASE requests'[q] = requests[q]
    BY <1>1, <2>1, PortalRequests DEF OwnIssuedOnly, PortalRowsStay
  <2>2. CASE requests'[q] # requests[q]
    <3>1. ViewCredential(q) \/ CheckShareable(q)
      <4>1. PICK p \in Request : PortalRequest(p)
        BY <2>2 DEF PortalNext, portalVars, MoveOn, Expire, OtpDelivery, RequestOtp
      <4>2. p = q
        BY <2>2, <4>1
           DEF PortalRequest, ReadChallenge, RejectCode, OpenSession, Authenticate, Logout,
               ViewCredential, CheckShareable, CreateShare, RevokeShare, ReadShare,
               CountView, Fail, Ends, Reaches, PortalTypeOK
      <4> QED
        BY <1>1, <4>1, <4>2
           DEF PortalRequest, ReadChallenge, RejectCode, OpenSession, Authenticate, Logout,
               CreateShare, RevokeShare, ReadShare, CountView, Fail, Ends, Reaches,
               NoRequest, PortalTypeOK
    <3>2. PICK d \in Diploma, at \in {"VIEWED", "SHARING"} :
            /\ requests'[q] = [at |-> at, of |-> d, holder |-> requests[q].holder]
            /\ Owner[d] = requests[q].holder
            /\ diplomas[d] \in HOLDER_VISIBLE_STATUSES
            /\ diplomas' = diplomas
      BY <3>1 DEF ViewCredential, CheckShareable, HolderCredentials, HOLDER_VISIBLE_STATUSES,
                  Reaches, PortalTypeOK
    <3> QED
      BY <3>2
  <2> QED
    BY <2>1, <2>2
<1>2. ASSUME NEW x \in Share, shares'[x] # NoRow
      PROVE  /\ Owner[shares'[x].diploma] = shares'[x].holder
             /\ diplomas'[shares'[x].diploma] \in HOLDER_VISIBLE_STATUSES
  <2>1. CASE shares[x] # NoRow
    <3>1. shares[x].diploma \in Diploma
      BY <2>1, PortalRows DEF ShareRow
    <3> QED
      BY <2>1, <3>1 DEF OwnIssuedOnly, PortalRowsStay
  <2>2. CASE shares[x] = NoRow
    <3>1. PICK q \in Request : CreateShare(q, x)
      BY <1>2, <2>2, PortalRequests
         DEF PortalNext, portalVars, MoveOn, Expire, OtpDelivery, RequestOtp, PortalRequest,
             ReadChallenge, RejectCode, OpenSession, Authenticate, Logout, ViewCredential,
             CheckShareable, CreateShare, RevokeShare, HolderShares, ReadShare, CountView,
             Fail, PortalTypeOK, RequestsAreBacked
    <3>2. shares'[x].diploma = requests[q].of /\ shares'[x].holder = requests[q].holder
          /\ diplomas' = diplomas
      BY <3>1 DEF CreateShare, PortalTypeOK
    <3> QED
      BY <3>1, <3>2 DEF CreateShare, OwnIssuedOnly
  <2> QED
    BY <2>1, <2>2
<1> QED
  BY <1>1, <1>2 DEF OwnIssuedOnly

LEMMA InitPortalInv == PortalInit => PortalInv
<1> SUFFICES ASSUME PortalInit PROVE PortalInv
  OBVIOUS
<1>1. PortalTypeOK
  BY DEF PortalInit, PortalTypeOK, CredentialLifecycle
<1>2. \A q \in Request : requests[q].at = "IDLE"
  BY DEF PortalInit, NoRequest
<1>3. /\ \A s \in HolderSession : holderSessions[s] = NoRow
      /\ \A x \in Share : shares[x] = NoRow
  BY DEF PortalInit
<1> QED
  BY <1>1, <1>2, <1>3
     DEF PortalInv, RequestsAreBacked, HoldersSeeTheirOwn, SessionsAreEarned, OwnIssuedOnly

LEMMA StepPortalInv == PortalInv /\ [PortalNext]_portalVars => PortalInv'
BY PortalTypeStep, PortalRowsStayStep, PortalBackedStep, PortalEarnedStep, PortalOwnStep
   DEF PortalInv, HoldersSeeTheirOwn

\* The inductive invariant of the portal.
THEOREM PortalInvariance == PortalSpec => []PortalInv
BY InitPortalInv, StepPortalInv, PTL DEF PortalSpec

\* The portal's tables and the requests in flight are well typed.
THEOREM PortalIsTyped == PortalSpec => []PortalTypeOK
<1>1. PortalInv => PortalTypeOK
  BY DEF PortalInv
<1> QED
  BY <1>1, PortalInvariance, PTL

\* Nobody sees or shares a diploma but its holder, by a session that a mailed code
\* opened, for any number of holders, codes and requests at once.
THEOREM DiplomasAreTheirHolders == PortalSpec => []HoldersSeeTheirOwn
<1>1. PortalInv => HoldersSeeTheirOwn
  BY DEF PortalInv
<1> QED
  BY <1>1, PortalInvariance, PTL

\* No step brings a consumed code, a closed session or a revoked share back to life.
THEOREM SpentStaysSpent == PortalSpec => SpentForGood
<1> DEFINE Kept ==
      /\ \A c \in Challenge : challenges[c].state = "SPENT" => challenges'[c].state = "SPENT"
      /\ \A s \in HolderSession :
           holderSessions[s].state = "SPENT" => holderSessions'[s].state = "SPENT"
      /\ \A x \in Share : shares[x].state = "SPENT" => shares'[x].state = "SPENT"
<1>1. PortalInv /\ [PortalNext]_portalVars => [Kept]_portalVars
  <2> SUFFICES ASSUME PortalInv, [PortalNext]_portalVars PROVE Kept
    OBVIOUS
  <2>1. /\ \A c \in Challenge : challenges[c].state = "SPENT" => challenges[c] # NoRow
        /\ \A s \in HolderSession : holderSessions[s].state = "SPENT" => holderSessions[s] # NoRow
        /\ \A x \in Share : shares[x].state = "SPENT" => shares[x] # NoRow
    BY PortalRows DEF PortalInv
  <2> QED
    BY <2>1, PortalRowsStayStep DEF PortalRowsStay
<1> QED
  BY <1>1, PortalInvariance, PTL DEF PortalSpec, SpentForGood
===============================================================================
