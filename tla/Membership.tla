------------------------------ MODULE Membership ------------------------------
(***************************************************************************)
(* Who belongs to which organization, and with which role: signup, the     *)
(* invitations, and the two handlers of the members page that change or    *)
(* remove a user.  Every handler is cut at its awaits, so that any two     *)
(* requests interleave; a call to the database may fail (or the producer   *)
(* may stop), which ends the handler there.                                *)
(*                                                                         *)
(* The caller's organization and role come from its JWT, which is not      *)
(* compared with the user document: a token keeps the role it was issued   *)
(* with.  MongoDB never reuses an id, and has unique indexes on            *)
(* users.email and on the hash of the invitation token, which stands here  *)
(* for the invitation's id.                                                *)
(*                                                                         *)
(* Left out: names, passwords, mails, the audit log (its failures are      *)
(* swallowed), and the user limit checked before POST /api/invitations,    *)
(* which is in module Subscription.                                        *)
(***************************************************************************)
EXTENDS Naturals, FiniteSets

CONSTANTS
    User,         \* ids of user documents
    Email,
    Org,
    Invitation,   \* ids (and tokens) of invitations
    Role,         \* a subset of admin, developer and viewer
    Founders,     \* the users there are at the start
    MaxMemberRequests,  \* bound: requests served
    MaxHandlerFailures   \* bound: handlers that end in the middle

ASSUME MembershipAssumption ==
    /\ "admin" \in Role /\ "none" \notin Role
    /\ IsFiniteSet(User)
    /\ MaxMemberRequests \in Nat /\ MaxHandlerFailures \in Nat

\* A user document; its id is the _id of MongoDB.
UserDoc == [id : User, email : Email, org : Org, role : Role]
InvitationDoc == [id : Invitation, org : Org, email : Email, role : Role,
                  status : {"pending", "accepted", "expired"}]
\* What signToken puts in a token and authMiddleware hands to the handlers.
Token == [user : User, org : Org, role : Role]

ASSUME FoundersAssumption ==
    /\ Founders \subseteq UserDoc
    /\ \A u, v \in Founders : u.id = v.id \/ u.email = v.email => u = v
    \* whoever opened an organization by signing up is its admin
    /\ \A u \in Founders : \E v \in Founders : v.org = u.org /\ v.role = "admin"

VARIABLES
    users,        \* the users collection
    invitations,  \* the invitations collection
    orgs,         \* the organizations there are
    tokens,       \* tokens that have been issued
    removals,     \* PATCH .../role and DELETE /api/users/:id in progress
    invites,      \* POST /api/invitations in progress
    joins,        \* accepts and signups by invitation in progress
    foundings,    \* signups that create an organization, in progress
    usedUsers, usedInvitations,   \* ids handed out so far
    lapsed,       \* invitations whose expiresAt has passed
    requests, failures,
    excused,      \* history: organizations that may have lost their last admin
    joined,       \* history: how many times an invitation let a user in
    contested     \* history: invitations two handlers decided about at once

tables == <<users, invitations, orgs, tokens>>
flights == <<removals, invites, joins, foundings>>
ids == <<usedUsers, usedInvitations, lapsed>>
history == <<excused, joined, contested>>
membershipVars == <<users, invitations, orgs, tokens, removals, invites, joins, foundings,
          usedUsers, usedInvitations, lapsed, requests, failures,
          excused, joined, contested>>

\* to is the new role, "none" for a deletion; serial: history, no user of the
\* organization was written since the handler read its first document.
Removal == [req : Nat, org : Org, target : User, to : Role \cup {"none"},
            at : {"count", "write"}, serial : BOOLEAN]
Invite == [req : Nat, org : Org, email : Email, role : Role, at : {"users", "pending", "insert"}]
\* invite is the document the handler read; user is the id of the caller, or of
\* the account that is being created.
Join == [req : Nat, kind : {"accept", "signup"}, user : User, email : Email,
         invite : InvitationDoc, at : {"user", "write", "mark"}]
Founding == [req : Nat, email : Email, user : User, org : Org, at : {"org", "user"}]

MembershipTypeOK ==
    /\ users \subseteq UserDoc
    /\ \A u, v \in users : u.id = v.id \/ u.email = v.email => u = v
    /\ invitations \subseteq InvitationDoc
    /\ \A i, j \in invitations : i.id = j.id => i = j
    /\ orgs \subseteq Org
    /\ tokens \subseteq Token
    /\ removals \subseteq Removal
    /\ invites \subseteq Invite
    /\ joins \subseteq Join
    /\ foundings \subseteq Founding
    /\ usedUsers \subseteq User /\ usedInvitations \subseteq Invitation
    /\ \A u \in users : u.id \in usedUsers
    /\ \A i \in invitations : i.id \in usedInvitations
    /\ lapsed \subseteq usedInvitations
    /\ requests \in 0..MaxMemberRequests /\ failures \in 0..MaxHandlerFailures
    /\ excused \subseteq Org
    /\ joined \in [Invitation -> Nat]
    /\ contested \subseteq Invitation

----------------------------------------------------------------------------
Members(o) == {u \in users : u.org = o}
Admins(o) == {u \in Members(o) : u.role = "admin"}
WithEmail(e) == {u \in users : u.email = e}
ById(id) == {u \in users : u.id = id}
\* Mutant of Pending: an invitation that has been accepted is found as well.
PendingOrAccepted(id) == {i \in invitations : i.id = id /\ i.status # "expired"}

\* The query of signup, accept and validate: status pending, whatever expiresAt.
Pending(id) == {i \in invitations : i.id = id /\ i.status = "pending"}

TokenOf(u) == [user |-> u.id, org |-> u.org, role |-> u.role]

\* updateOne by _id: no match, no change.
Updated(docs, id, f(_)) == {IF d.id = id THEN f(d) ELSE d : d \in docs}
Marked(id, s) == Updated(invitations, id, LAMBDA i : [i EXCEPT !.status = s])

MembershipInit ==
    /\ users = Founders
    /\ invitations = {}
    /\ orgs = {u.org : u \in Founders}
    /\ tokens = {TokenOf(u) : u \in Founders}
    /\ removals = {} /\ invites = {} /\ joins = {} /\ foundings = {}
    /\ usedUsers = {u.id : u \in Founders} /\ usedInvitations = {} /\ lapsed = {}
    /\ requests = 0 /\ failures = 0
    /\ excused = {} /\ contested = {}
    /\ joined = [i \in Invitation |-> 0]

Request == requests < MaxMemberRequests /\ requests' = requests + 1

\* A user of organization o is written: removals under way there have read an
\* older state.
Disturb(flight, os) ==
    {IF f.org \in os THEN [f EXCEPT !.serial = FALSE] ELSE f : f \in flight}

\* Other handlers that hold invitation id when its document or its user is written.
Contest(id, self) ==
    contested' = IF \E j \in joins \ self : j.invite.id = id THEN contested \cup {id}
                                                             ELSE contested

----------------------------------------------------------------------------
(***************************************************************************)
(* PATCH /api/users/:id/role and DELETE /api/users/:id, by a token of an   *)
(* admin, for another user of the token's organization.                    *)
(***************************************************************************)
\* The target is read; only removing an admin goes on to count them.
ReadTarget(to) ==
    \E t \in tokens, u \in users :
        /\ t.role = "admin" /\ u.id # t.user /\ u.org = t.org
        /\ removals' = removals \cup
             {[req |-> requests, org |-> t.org, target |-> u.id, to |-> to, serial |-> TRUE,
               at |-> IF u.role = "admin" /\ to # "admin" THEN "count" ELSE "write"]}
        /\ Request
        /\ UNCHANGED <<tables, invites, joins, foundings, ids, failures, history>>

ChangeRole == \E to \in Role : ReadTarget(to)
RemoveUser == ReadTarget("none")

\* Mutant of CountAdmins: the last admin does not count as last.
CountAdminsFromZero ==
    \E f \in removals :
        /\ f.at = "count"
        /\ removals' = (removals \ {f}) \cup
             (IF Cardinality(Admins(f.org)) < 1 THEN {} ELSE {[f EXCEPT !.at = "write"]})
        /\ UNCHANGED <<tables, invites, joins, foundings, ids, requests, failures, history>>

\* With at most one admin left the answer is 403.
CountAdmins ==
    \E f \in removals :
        /\ f.at = "count"
        /\ removals' = (removals \ {f}) \cup
             (IF Cardinality(Admins(f.org)) <= 1 THEN {} ELSE {[f EXCEPT !.at = "write"]})
        /\ UNCHANGED <<tables, invites, joins, foundings, ids, requests, failures, history>>

Assigned(f) == Updated(users, f.target, LAMBDA u : [u EXCEPT !.role = f.to])
Deleted(f) == users \ ById(f.target)

\* The write is by _id alone: whatever the document has become meanwhile.
WriteRemoval ==
    \E f \in removals :
        /\ f.at = "write"
        /\ users' = IF f.to = "none" THEN Deleted(f) ELSE Assigned(f)
        /\ removals' = Disturb(removals \ {f}, {u.org : u \in ById(f.target)})
        /\ excused' = IF f.serial THEN excused
                      ELSE excused \cup {u.org : u \in ById(f.target)}
        /\ UNCHANGED <<invitations, orgs, tokens, invites, joins, foundings, ids,
                       requests, failures, joined, contested>>

----------------------------------------------------------------------------
(***************************************************************************)
(* Invitations.                                                            *)
(***************************************************************************)
\* POST /api/invitations.  The organization is found: none is ever deleted.
StartInvite ==
    \E t \in tokens, e \in Email, r \in Role :
        /\ t.role = "admin"
        /\ invites' = invites \cup
             {[req |-> requests, org |-> t.org, email |-> e, role |-> r, at |-> "users"]}
        /\ Request
        /\ UNCHANGED <<tables, removals, joins, foundings, ids, failures, history>>

InviteStep(f, next) == invites' = (invites \ {f}) \cup next

\* 409 if the address belongs to a member.
CheckMember ==
    \E f \in invites :
        /\ f.at = "users"
        /\ InviteStep(f, IF \E u \in Members(f.org) : u.email = f.email THEN {}
                         ELSE {[f EXCEPT !.at = "pending"]})
        /\ UNCHANGED <<tables, removals, joins, foundings, ids, requests, failures, history>>

\* 409 if a pending invitation that has not lapsed exists.
CheckPending ==
    \E f \in invites :
        /\ f.at = "pending"
        /\ InviteStep(f, IF \E i \in invitations : /\ i.email = f.email /\ i.org = f.org
                                                   /\ i.status = "pending" /\ i.id \notin lapsed
                         THEN {} ELSE {[f EXCEPT !.at = "insert"]})
        /\ UNCHANGED <<tables, removals, joins, foundings, ids, requests, failures, history>>

InsertInvitation ==
    \E f \in invites, id \in Invitation \ usedInvitations :
        /\ f.at = "insert"
        /\ invitations' = invitations \cup
             {[id |-> id, org |-> f.org, email |-> f.email, role |-> f.role, status |-> "pending"]}
        /\ usedInvitations' = usedInvitations \cup {id}
        /\ InviteStep(f, {})
        /\ UNCHANGED <<users, orgs, tokens, removals, joins, foundings, usedUsers, lapsed,
                       requests, failures, history>>

\* DELETE /api/invitations/:id, whatever the status of the invitation.
Revoke ==
    \E t \in tokens, i \in invitations :
        /\ t.role = "admin" /\ i.org = t.org
        /\ invitations' = invitations \ {i}
        /\ Contest(i.id, {})
        /\ Request
        /\ UNCHANGED <<users, orgs, tokens, flights, ids, failures, excused, joined>>

\* Seven days pass.
Lapse ==
    \E i \in invitations :
        /\ i.status = "pending" /\ i.id \notin lapsed
        /\ lapsed' = lapsed \cup {i.id}
        /\ UNCHANGED <<tables, flights, usedUsers, usedInvitations, requests, failures, history>>

\* GET /api/invitations/validate/:token finds a pending invitation that lapsed.
ExpireOnValidate ==
    \E i \in invitations :
        /\ i.status = "pending" /\ i.id \in lapsed
        /\ invitations' = Marked(i.id, "expired")
        /\ Contest(i.id, {})
        /\ Request
        /\ UNCHANGED <<users, orgs, tokens, flights, ids, failures, excused, joined>>

\* The first read of accept and of a signup by invitation.  A lapsed invitation
\* is marked expired, and the request is refused.
FindInvitation(kind, user, email, i) ==
    /\ i \in Pending(i.id)
    /\ IF i.id \in lapsed
       THEN /\ invitations' = Marked(i.id, "expired")
            /\ Contest(i.id, {})
            /\ UNCHANGED joins
       ELSE /\ joins' = joins \cup
                 {[req |-> requests, kind |-> kind, user |-> user, email |-> email, invite |-> i,
                   at |-> IF kind = "accept" THEN "user" ELSE "write"]}
            /\ UNCHANGED <<invitations, contested>>
    /\ Request
    /\ UNCHANGED <<users, orgs, tokens, removals, invites, foundings, lapsed, usedInvitations,
                   failures, excused, joined>>

\* POST /api/invitations/accept by any logged-in user; the address is compared
\* with that of the caller's document one read later.
Accept ==
    \E t \in tokens, i \in invitations :
        /\ FindInvitation("accept", t.user, i.email, i)
        /\ UNCHANGED usedUsers

\* 403 if the caller's account is gone or has another address.
CheckEmail ==
    \E f \in joins :
        /\ f.kind = "accept" /\ f.at = "user"
        /\ joins' = (joins \ {f}) \cup
             (IF \E u \in ById(f.user) : u.email = f.invite.email
              THEN {[f EXCEPT !.at = "write"]} ELSE {})
        /\ UNCHANGED <<tables, removals, invites, foundings, ids, requests, failures, history>>

Admit(f) ==
    /\ joined' = IF f.kind = "accept" /\ ById(f.user) = {} THEN joined
                 ELSE [joined EXCEPT ![f.invite.id] = @ + 1]
    /\ Contest(f.invite.id, {f})
    /\ joins' = (joins \ {f}) \cup {[f EXCEPT !.at = "mark"]}

\* The user moves to the organization of the invitation, whatever organization it
\* is in and whatever it is there.
MoveUser ==
    \E f \in joins :
        /\ f.kind = "accept" /\ f.at = "write"
        /\ users' = Updated(users, f.user,
                            LAMBDA u : [u EXCEPT !.org = f.invite.org, !.role = f.invite.role])
        /\ removals' = Disturb(removals, {u.org : u \in ById(f.user)} \cup {f.invite.org})
        /\ excused' = excused \cup {u.org : u \in {v \in ById(f.user) : v.role = "admin"}}
        /\ Admit(f)
        /\ UNCHANGED <<invitations, orgs, tokens, invites, foundings, ids, requests, failures>>

\* POST /api/auth/signup with an invitation token; the address is not registered.
SignupInvited ==
    \E i \in invitations, id \in User \ usedUsers :
        /\ WithEmail(i.email) = {}
        /\ usedUsers' = usedUsers \cup {id}
        /\ FindInvitation("signup", id, i.email, i)

\* Mutant of Refused: there is no unique index.
NeverRefused(e) == FALSE

\* The unique index on users.email refuses a second account: 500.
Refused(e) == WithEmail(e) # {}

CreateInvited ==
    \E f \in joins :
        /\ f.kind = "signup" /\ f.at = "write"
        /\ IF Refused(f.email)
           THEN /\ joins' = joins \ {f}
                /\ UNCHANGED <<users, removals, joined, contested>>
           ELSE LET u == [id |-> f.user, email |-> f.email,
                          org |-> f.invite.org, role |-> f.invite.role]
                IN  /\ users' = users \cup {u}
                    /\ removals' = Disturb(removals, {u.org})
                    /\ Admit(f)
        /\ UNCHANGED <<invitations, orgs, tokens, invites, foundings, ids, requests, failures, excused>>

\* Mutant of MarkAccepted: the invitation stays pending.
LeavePending ==
    \E f \in joins :
        /\ f.at = "mark"
        /\ joins' = joins \ {f}
        /\ tokens' = IF f.kind = "accept" THEN tokens
                     ELSE tokens \cup {[user |-> f.user, org |-> f.invite.org,
                                        role |-> f.invite.role]}
        /\ UNCHANGED <<users, invitations, orgs, removals, invites, foundings, ids, requests,
                       failures, history>>

\* The invitation is marked by _id, whatever its status has become; a new account
\* gets its token afterwards.
MarkAccepted ==
    \E f \in joins :
        /\ f.at = "mark"
        /\ invitations' = Marked(f.invite.id, "accepted")
        /\ joins' = joins \ {f}
        /\ Contest(f.invite.id, {f})
        /\ tokens' = IF f.kind = "accept" THEN tokens
                     ELSE tokens \cup {[user |-> f.user, org |-> f.invite.org,
                                        role |-> f.invite.role]}
        /\ UNCHANGED <<users, orgs, removals, invites, foundings, ids, requests, failures,
                       excused, joined>>

----------------------------------------------------------------------------
(***************************************************************************)
(* Signup without an invitation, and login.                                *)
(***************************************************************************)
Found ==
    \E e \in Email, id \in User \ usedUsers, o \in Org \ (orgs \cup {f.org : f \in foundings}) :
        /\ WithEmail(e) = {}
        /\ foundings' = foundings \cup
             {[req |-> requests, email |-> e, user |-> id, org |-> o, at |-> "org"]}
        /\ usedUsers' = usedUsers \cup {id}
        /\ Request
        /\ UNCHANGED <<tables, removals, invites, joins, usedInvitations, lapsed, failures, history>>

InsertOrg ==
    \E f \in foundings :
        /\ f.at = "org"
        /\ orgs' = orgs \cup {f.org}
        /\ foundings' = (foundings \ {f}) \cup {[f EXCEPT !.at = "user"]}
        /\ UNCHANGED <<users, invitations, tokens, removals, invites, joins, ids, requests,
                       failures, history>>

\* If the address was registered meanwhile, the organization stays without users.
InsertFounder ==
    \E f \in foundings :
        LET u == [id |-> f.user, email |-> f.email, org |-> f.org, role |-> "admin"]
        IN  /\ f.at = "user"
            /\ foundings' = foundings \ {f}
            /\ IF Refused(f.email)
               THEN excused' = excused \cup {f.org} /\ UNCHANGED <<users, tokens>>
               ELSE /\ users' = users \cup {u} /\ tokens' = tokens \cup {TokenOf(u)}
                    /\ UNCHANGED excused
            /\ UNCHANGED <<invitations, orgs, removals, invites, joins, ids, requests, failures,
                           joined, contested>>

\* POST /api/auth/login issues a token with the role the user has now.
Login ==
    \E u \in users :
        /\ TokenOf(u) \notin tokens
        /\ tokens' = tokens \cup {TokenOf(u)}
        /\ Request
        /\ UNCHANGED <<users, invitations, orgs, flights, ids, failures, history>>

----------------------------------------------------------------------------
\* A call throws, or the producer stops: the handler ends where it is.
HandlerFails ==
    /\ failures < MaxHandlerFailures /\ failures' = failures + 1
    /\ \/ \E f \in removals :
            removals' = removals \ {f} /\ UNCHANGED <<invites, joins, foundings, history>>
       \/ \E f \in invites :
            invites' = invites \ {f} /\ UNCHANGED <<removals, joins, foundings, history>>
       \/ \E f \in joins :
            /\ joins' = joins \ {f}
            /\ contested' = IF f.at = "mark" THEN contested \cup {f.invite.id} ELSE contested
            /\ UNCHANGED <<removals, invites, foundings, excused, joined>>
       \/ \E f \in foundings :
            /\ foundings' = foundings \ {f}
            /\ excused' = excused \cup {f.org}
            /\ UNCHANGED <<removals, invites, joins, joined, contested>>
    /\ UNCHANGED <<tables, ids, requests>>

MembershipNext ==
    \/ ChangeRole \/ RemoveUser \/ CountAdmins \/ WriteRemoval
    \/ StartInvite \/ CheckMember \/ CheckPending \/ InsertInvitation
    \/ Revoke \/ Lapse \/ ExpireOnValidate
    \/ Accept \/ CheckEmail \/ MoveUser \/ SignupInvited \/ CreateInvited \/ MarkAccepted
    \/ Found \/ InsertOrg \/ InsertFounder \/ Login
    \/ HandlerFails

MembershipSpec == MembershipInit /\ [][MembershipNext]_membershipVars

----------------------------------------------------------------------------
\* The members page promises that the last admin cannot be demoted or deleted
\* (users.ts).  An organization whose signup is complete keeps an admin, unless
\* two handlers that change its members overlapped, its admin accepted another
\* invitation, or its signup failed halfway.
AdminKept == \A o \in orgs :
    Admins(o) # {} \/ o \in excused \/ \E f \in foundings : f.org = o

\* An invitation lets in one user once, unless two handlers held it at the same
\* time or the one that let the user in failed before marking it.
InvitationAdmitsOnce == \A i \in Invitation : joined[i] <= 1 \/ i \in contested

\* Whoever is let in by an invitation is let in while it is pending: revoking or
\* expiring it shuts the door on everybody but the handlers that had read it.
AdmittedWhilePending ==
    [][\A i \in Invitation : joined'[i] # joined[i] =>
            i \in contested \/ \E d \in invitations : d.id = i /\ d.status = "pending"]_membershipVars

=============================================================================
