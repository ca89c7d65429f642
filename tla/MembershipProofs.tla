-------------------------- MODULE MembershipProofs --------------------------
(***************************************************************************)
(* Proofs about Membership, for any users, addresses, organizations,       *)
(* invitations, requests and failures.                                     *)
(*                                                                         *)
(* The three properties are about handlers that read, wait and write.      *)
(* Housed and Fresh say that the ids a handler holds stay what they were   *)
(* when it took them: no other request has one, and their organization is  *)
(* still open.  Serial carries AdminKept: what a handler of the members    *)
(* page on its own has read of its target, and of the other admins, still  *)
(* holds when it writes.  Admissions carries the other two: an invitation  *)
(* that let someone in is no longer pending, or the handler that will mark *)
(* it is the only one that holds it.                                       *)
(***************************************************************************)
EXTENDS Membership, FiniteSetTheorems, TLAPS

\* Organizations whose signup is complete, or was given up.
Opened == orgs \ {f.org : f \in foundings}

\* Whatever names an organization names one that is open.
Housed ==
    /\ \A u \in users : u.org \in Opened
    /\ \A i \in invitations : i.org \in Opened
    /\ \A t \in tokens : t.org \in Opened
    /\ \A f \in removals : f.org \in Opened
    /\ \A f \in invites : f.org \in Opened
    /\ \A j \in joins : j.invite.org \in Opened

\* An accepted invitation is written into the user's document.
MovesTo(id, o, r) ==
    users' = {IF u.id = id THEN [u EXCEPT !.org = o, !.role = r] ELSE u : u \in users}

Signing == {j \in joins : j.kind = "signup" /\ j.at = "write"}

\* An id that was given to a signup is that signup's alone.
Fresh ==
    /\ \A j \in Signing :
          /\ j.user \in usedUsers /\ ById(j.user) = {}
          /\ \A k \in Signing : k.user = j.user => k = j
    /\ \A f \in foundings :
          /\ f.user \in usedUsers /\ ById(f.user) = {}
          /\ \A g \in foundings : g.user = f.user \/ g.org = f.org => g = f
          /\ \A j \in Signing : f.user # j.user
          /\ f.at = "user" => f.org \in orgs

\* What a handler on its own has seen of its target is still true.
SafeRemoval(f) ==
    \E u \in users :
        /\ u.id = f.target /\ u.org = f.org
        /\ f.at = "count" => u.role = "admin"
        /\ f.at = "write" /\ u.role = "admin" /\ f.to # "admin" =>
              \E v \in Admins(f.org) : v # u

Serial == \A f \in removals : f.serial => SafeRemoval(f)

Holders(i) == {j \in joins : j.invite.id = i}

\* An invitation that has let someone in is held by that handler till it is marked.
UsedUp(i) ==
    \/ \E j \in Holders(i) : j.at = "mark"
    \/ Holders(i) = {} /\ Pending(i) = {}

Admissions ==
    /\ \A j \in joins : j.invite.id \in usedInvitations
    /\ \A i \in Invitation : joined[i] # 0 => i \in usedInvitations
    /\ \A i \in Invitation \ contested :
          /\ joined[i] <= 1
          /\ joined[i] = 1 => UsedUp(i)
          /\ \A j \in Holders(i) : j.at # "mark" => Pending(i) # {}

MembershipInv ==
    MembershipTypeOK /\ Housed /\ Fresh /\ Serial /\ AdminKept /\ Admissions

----------------------------------------------------------------------------
\* The building blocks of the handlers.
LEMMA Marking ==
    ASSUME MembershipTypeOK, NEW id, NEW s \in {"accepted", "expired"}
    PROVE  /\ Marked(id, s) \subseteq InvitationDoc
           /\ \A i \in Marked(id, s) :
                  i.id \in usedInvitations /\ i.org \in {j.org : j \in invitations}
           /\ \A i, j \in Marked(id, s) : i.id = j.id => i = j
           /\ \A i \in Marked(id, s) : i.id = id => i.status = s
           /\ \A i \in invitations : i.id # id => i \in Marked(id, s)
           /\ \A i \in Marked(id, s) : i.id # id => i \in invitations
<1> DEFINE g(d) == [d EXCEPT !.status = s]
<1>1. Marked(id, s) = {IF d.id = id THEN g(d) ELSE d : d \in invitations}
  BY DEF Marked, Updated
<1>2. \A d \in invitations : /\ d \in InvitationDoc /\ g(d) \in InvitationDoc
                             /\ g(d).id = d.id
                             /\ g(d).org = d.org
                             /\ g(d).status = s
                             /\ d.id \in usedInvitations
  BY DEF MembershipTypeOK, InvitationDoc
<1> HIDE DEF g
<1>3. \A i, j \in invitations : i.id = j.id => i = j
  BY DEF MembershipTypeOK
<1>4. \A i \in Marked(id, s) : \E d \in invitations :
          i = IF d.id = id THEN g(d) ELSE d
  BY <1>1
<1>5. \A d \in invitations : (IF d.id = id THEN g(d) ELSE d) \in Marked(id, s)
  BY <1>1
<1>6. \A i, j \in Marked(id, s) : i.id = j.id => i = j
  BY <1>2, <1>3, <1>4
<1>7. \A i \in Marked(id, s) : /\ i \in InvitationDoc /\ i.id \in usedInvitations
                               /\ i.org \in {j.org : j \in invitations}
                               /\ i.id = id => i.status = s
                               /\ i.id # id => i \in invitations
  BY <1>2, <1>4
<1> QED BY <1>5, <1>6, <1>7

LEMMA Disturbing ==
    ASSUME NEW S \in SUBSET Removal, NEW os
    PROVE  /\ Disturb(S, os) \subseteq Removal
           /\ \A f \in Disturb(S, os) : \E g \in S :
                 /\ f.org = g.org /\ f.target = g.target /\ f.to = g.to /\ f.at = g.at
                 /\ f.serial => f = g /\ g.org \notin os
<1>1. \A g \in S : /\ [g EXCEPT !.serial = FALSE] \in Removal
                   /\ [g EXCEPT !.serial = FALSE].org = g.org
                   /\ [g EXCEPT !.serial = FALSE].target = g.target
                   /\ [g EXCEPT !.serial = FALSE].to = g.to
                   /\ [g EXCEPT !.serial = FALSE].at = g.at
                   /\ [g EXCEPT !.serial = FALSE].serial = FALSE
  BY DEF Removal
<1> QED BY <1>1 DEF Disturb

LEMMA Admitting ==
    ASSUME MembershipTypeOK, NEW f \in joins, Admit(f)
    PROVE  /\ joined' \in [Invitation -> Nat] /\ contested' \subseteq Invitation
           /\ joins' = (joins \ {f}) \cup {[f EXCEPT !.at = "mark"]}
           /\ [f EXCEPT !.at = "mark"] \in Join
           /\ [f EXCEPT !.at = "mark"].invite = f.invite
           /\ [f EXCEPT !.at = "mark"].user = f.user
           /\ [f EXCEPT !.at = "mark"].at = "mark"
           /\ contested \subseteq contested'
           /\ \A i \in Invitation :
                joined'[i] = joined[i] \/ (i = f.invite.id /\ joined'[i] = joined[i] + 1)
<1> USE DEF MembershipTypeOK, Admit, Join, InvitationDoc
<1>1. f.invite.id \in Invitation
  OBVIOUS
<1>2. contested' \subseteq Invitation /\ contested \subseteq contested'
  BY <1>1 DEF Contest
<1>3. /\ joined' \in [Invitation -> Nat]
      /\ \A i \in Invitation :
           joined'[i] = joined[i] \/ (i = f.invite.id /\ joined'[i] = joined[i] + 1)
  BY <1>1
<1> QED BY <1>2, <1>3

\* Changing the documents of one user.
LEMMA Moving ==
    ASSUME MembershipTypeOK, NEW id, NEW o \in Org, NEW r \in Role,
           MovesTo(id, o, r)
    PROVE  /\ users' \subseteq UserDoc
           /\ \A u, v \in users' : u.id = v.id \/ u.email = v.email => u = v
           /\ \A u \in users' : u.id # id => u \in users
           /\ \A u \in users' : u.id = id =>
                 /\ u.org = o /\ u.role = r
                 /\ \E v \in users : v.id = id /\ v.email = u.email
           /\ \A u \in users : u.id # id => u \in users'
<1> DEFINE g(d) == [d EXCEPT !.org = o, !.role = r]
<1>1. users' = {IF d.id = id THEN g(d) ELSE d : d \in users}
  BY DEF MovesTo
<1>2. \A d \in users : /\ d \in UserDoc /\ g(d) \in UserDoc
                       /\ g(d).id = d.id
                       /\ g(d).email = d.email
                       /\ g(d).org = o
                       /\ g(d).role = r
  BY DEF MembershipTypeOK, UserDoc
<1> HIDE DEF g
<1>3. \A u, v \in users : u.id = v.id \/ u.email = v.email => u = v
  BY DEF MembershipTypeOK
<1>4. \A u \in users' : \E d \in users :
          u = IF d.id = id THEN g(d) ELSE d
  BY <1>1
<1>5. \A d \in users : (IF d.id = id THEN g(d) ELSE d) \in users'
  BY <1>1
<1>6. \A u, v \in users' : u.id = v.id \/ u.email = v.email => u = v
  <2> SUFFICES ASSUME NEW u \in users', NEW v \in users', u.id = v.id \/ u.email = v.email
               PROVE  u = v
    OBVIOUS
  <2>1. PICK d \in users : u = IF d.id = id THEN g(d) ELSE d
    BY <1>4
  <2>2. PICK e \in users : v = IF e.id = id THEN g(e) ELSE e
    BY <1>4
  <2>3. u.id = d.id /\ u.email = d.email /\ v.id = e.id /\ v.email = e.email
    BY <1>2, <2>1, <2>2
  <2> QED BY <1>3, <2>1, <2>2, <2>3
<1>7. \A u \in users' :
         /\ u \in UserDoc
         /\ u.id # id => u \in users
         /\ u.id = id => /\ u.org = o /\ u.role = r
                         /\ \E v \in users : v.id = id /\ v.email = u.email
  BY ONLY <1>2, <1>4
<1>8. \A u \in users : u.id # id => u \in users'
  BY <1>5
<1> QED BY <1>6, <1>7, <1>8

LEMMA Assigning ==
    ASSUME MembershipTypeOK, NEW f \in Removal, f.to \in Role
    PROVE  /\ Assigned(f) \subseteq UserDoc
           /\ \A u, v \in Assigned(f) : u.id = v.id \/ u.email = v.email => u = v
           /\ \A u \in Assigned(f) : u.id # f.target => u \in users
           /\ \A u \in Assigned(f) : u.id = f.target =>
                 /\ u.role = f.to
                 /\ \E v \in users : v.id = u.id /\ v.email = u.email /\ v.org = u.org
           /\ \A u \in users : u.id # f.target => u \in Assigned(f)
           /\ \A u \in users : u.id = f.target => \E v \in Assigned(f) :
                 v.id = u.id /\ v.org = u.org /\ v.role = f.to
<1> DEFINE g(d) == [d EXCEPT !.role = f.to]
<1>1. Assigned(f) = {IF d.id = f.target THEN g(d) ELSE d : d \in users}
  BY DEF Assigned, Updated
<1>2. \A d \in users : /\ d \in UserDoc /\ g(d) \in UserDoc
                       /\ g(d).id = d.id
                       /\ g(d).email = d.email
                       /\ g(d).org = d.org
                       /\ g(d).role = f.to
  BY DEF MembershipTypeOK, UserDoc
<1> HIDE DEF g
<1>3. \A u, v \in users : u.id = v.id \/ u.email = v.email => u = v
  BY DEF MembershipTypeOK
<1>4. \A u \in Assigned(f) : \E d \in users :
          u = IF d.id = f.target THEN g(d) ELSE d
  BY <1>1
<1>5. \A d \in users : (IF d.id = f.target THEN g(d) ELSE d) \in Assigned(f)
  BY <1>1
<1>6. \A u, v \in Assigned(f) : u.id = v.id \/ u.email = v.email => u = v
  <2> SUFFICES ASSUME NEW u \in Assigned(f), NEW v \in Assigned(f), u.id = v.id \/ u.email = v.email
               PROVE  u = v
    OBVIOUS
  <2>1. PICK d \in users : u = IF d.id = f.target THEN g(d) ELSE d
    BY <1>4
  <2>2. PICK e \in users : v = IF e.id = f.target THEN g(e) ELSE e
    BY <1>4
  <2>3. u.id = d.id /\ u.email = d.email /\ v.id = e.id /\ v.email = e.email
    BY <1>2, <2>1, <2>2
  <2> QED BY <1>3, <2>1, <2>2, <2>3
<1>7. \A u \in Assigned(f) : /\ u \in UserDoc
                             /\ u.id # f.target => u \in users
                             /\ u.id = f.target => /\ u.role = f.to
                                             /\ \E v \in users : /\ v.id = u.id /\ v.email = u.email
                                                                 /\ v.org = u.org
  BY <1>2, <1>4
<1>8. \A u \in users : u.id # f.target => u \in Assigned(f)
  BY <1>5
<1>9. \A u \in users : u.id = f.target => \E v \in Assigned(f) :
          v.id = u.id /\ v.org = u.org /\ v.role = f.to
  BY <1>2, <1>5
<1> QED BY <1>6, <1>7, <1>8, <1>9

LEMMA Accepting ==
    ASSUME MembershipTypeOK, NEW f \in joins, MovesTo(f.user, f.invite.org, f.invite.role)
    PROVE  /\ users' \subseteq UserDoc
           /\ \A u, v \in users' : u.id = v.id \/ u.email = v.email => u = v
           /\ \A u \in users' : u.id # f.user => u \in users
           /\ \A u \in users' : u.id = f.user =>
                 /\ u.org = f.invite.org /\ u.role = f.invite.role
                 /\ \E v \in users : v.id = u.id
           /\ \A u \in users : u.id # f.user => u \in users'
<1>1. f.invite.org \in Org /\ f.invite.role \in Role
  BY DEF MembershipTypeOK, Join, InvitationDoc
<1>2. /\ users' \subseteq UserDoc
      /\ \A u, v \in users' : u.id = v.id \/ u.email = v.email => u = v
      /\ \A u \in users' : u.id # f.user => u \in users
      /\ \A u \in users' : u.id = f.user =>
            /\ u.org = f.invite.org /\ u.role = f.invite.role
            /\ \E v \in users : v.id = f.user /\ v.email = u.email
      /\ \A u \in users : u.id # f.user => u \in users'
  BY <1>1, Moving
<1> QED BY <1>2

LEMMA ReadingTarget ==
    ASSUME MembershipTypeOK, NEW to \in Role \cup {"none"}, ReadTarget(to)
    PROVE  \E u \in users, f \in Removal :
              /\ removals' = removals \cup {f}
              /\ f.target = u.id /\ f.org = u.org /\ f.to = to
              /\ f.at = IF u.role = "admin" /\ to # "admin" THEN "count" ELSE "write"
              /\ \E t \in tokens : t.org = f.org
<1>1. PICK t \in tokens, u \in users :
         /\ u.org = t.org
         /\ removals' = removals \cup
             {[req |-> requests, org |-> t.org, target |-> u.id, to |-> to, serial |-> TRUE,
               at |-> IF u.role = "admin" /\ to # "admin" THEN "count" ELSE "write"]}
  BY DEF ReadTarget
<1> DEFINE f == [req |-> requests, org |-> t.org, target |-> u.id, to |-> to, serial |-> TRUE,
                 at |-> IF u.role = "admin" /\ to # "admin" THEN "count" ELSE "write"]
<1>2. t.org \in Org /\ u.id \in User /\ requests \in Nat
  BY MembershipAssumption DEF MembershipTypeOK, Token, UserDoc
<1>3. /\ f \in Removal /\ f.target = u.id /\ f.org = t.org /\ f.to = to
      /\ f.at = IF u.role = "admin" /\ to # "admin" THEN "count" ELSE "write"
  BY <1>2 DEF Removal
<1>4. removals' = removals \cup {f}
  BY <1>1
<1> HIDE DEF f
<1> QED BY <1>1, <1>3, <1>4

\* A request that finds an invitation either marks it or holds it.
LEMMA Finding ==
    ASSUME MembershipTypeOK, NEW kind \in {"accept", "signup"}, NEW user \in User,
           NEW email \in Email, NEW i \in invitations, FindInvitation(kind, user, email, i)
    PROVE  /\ i.status = "pending"
           /\ \/ /\ i.id \in lapsed /\ joins' = joins
                 /\ invitations' = Marked(i.id, "expired") /\ Contest(i.id, {})
              \/ /\ UNCHANGED <<invitations, contested>>
                 /\ \E j \in Join : /\ joins' = joins \cup {j} /\ j.kind = kind /\ j.user = user
                                    /\ j.invite = i
                                    /\ j.at = IF kind = "accept" THEN "user" ELSE "write"
           /\ requests' = requests + 1 /\ requests < MaxMemberRequests
           /\ UNCHANGED <<users, orgs, tokens, removals, invites, foundings, lapsed,
                          usedInvitations, failures, excused, joined>>
<1>1. i.status = "pending"
  BY DEF FindInvitation, Pending
<1>2. CASE i.id \in lapsed
  BY <1>1, <1>2 DEF FindInvitation, Request
<1>3. CASE i.id \notin lapsed
  <2> DEFINE j == [req |-> requests, kind |-> kind, user |-> user, email |-> email, invite |-> i,
                   at |-> IF kind = "accept" THEN "user" ELSE "write"]
  <2>1. j \in Join /\ j.kind = kind /\ j.user = user /\ j.invite = i
        /\ j.at = IF kind = "accept" THEN "user" ELSE "write"
    BY MembershipAssumption DEF MembershipTypeOK, Join
  <2>2. joins' = joins \cup {j} /\ UNCHANGED <<invitations, contested>>
    BY <1>3 DEF FindInvitation
  <2> HIDE DEF j
  <2> QED BY <1>1, <2>1, <2>2 DEF FindInvitation, Request
<1> QED BY <1>2, <1>3

LEMMA TypeKept ==
    ASSUME MembershipTypeOK, Fresh, [MembershipNext]_membershipVars
    PROVE  MembershipTypeOK'
<1> USE MembershipAssumption DEF MembershipTypeOK, tables, flights, ids, history, Request
<1>1. ASSUME NEW to \in Role \cup {"none"}, ReadTarget(to)
      PROVE  MembershipTypeOK'
  <2>1. removals' \subseteq Removal
    BY <1>1, ReadingTarget
  <2> QED BY <1>1, <2>1 DEF ReadTarget
<1>2. CASE CountAdmins
  <2>1. removals' \subseteq Removal
    BY <1>2 DEF CountAdmins, Removal
  <2> QED BY <1>2, <2>1 DEF CountAdmins
<1>3. CASE WriteRemoval
  <2>1. PICK f \in removals :
           /\ users' = IF f.to = "none" THEN Deleted(f) ELSE Assigned(f)
           /\ removals' = Disturb(removals \ {f}, {u.org : u \in ById(f.target)})
           /\ excused' \subseteq excused \cup {u.org : u \in ById(f.target)}
    BY <1>3 DEF WriteRemoval
  <2>2. f \in Removal /\ (f.to # "none" => f.to \in Role)
    BY DEF Removal
  <2>3. removals' \subseteq Removal
    BY <2>1, Disturbing
  <2>4. excused' \subseteq Org
    BY <2>1 DEF ById, UserDoc
  <2>5. CASE f.to = "none"
    <3>1. users' \subseteq users
      BY <2>1, <2>5 DEF Deleted
    <3> QED BY <1>3, <2>3, <2>4, <3>1 DEF WriteRemoval
  <2>6. CASE f.to # "none"
    <3>1. /\ users' \subseteq UserDoc
          /\ \A u, v \in users' : u.id = v.id \/ u.email = v.email => u = v
          /\ \A u \in users' : u.id \in usedUsers
      BY <2>1, <2>2, <2>6, Assigning
    <3> QED BY <1>3, <2>3, <2>4, <3>1 DEF WriteRemoval
  <2> QED BY <2>5, <2>6
<1>4. CASE StartInvite
  <2>1. PICK t \in tokens, e \in Email, r \in Role :
           invites' = invites \cup
             {[req |-> requests, org |-> t.org, email |-> e, role |-> r, at |-> "users"]}
    BY <1>4 DEF StartInvite
  <2>2. t.org \in Org
    BY DEF Token
  <2>3. invites' \subseteq Invite
    BY <2>1, <2>2 DEF Invite
  <2> QED BY <1>4, <2>3 DEF StartInvite
<1>5. CASE CheckMember
  <2>1. invites' \subseteq Invite
    BY <1>5 DEF CheckMember, InviteStep, Invite
  <2> QED BY <1>5, <2>1 DEF CheckMember
<1>6. CASE CheckPending
  <2>1. invites' \subseteq Invite
    BY <1>6 DEF CheckPending, InviteStep, Invite
  <2> QED BY <1>6, <2>1 DEF CheckPending
<1>7. CASE InsertInvitation
  <2>1. PICK f \in invites, id \in Invitation \ usedInvitations :
           /\ invitations' = invitations \cup {[id |-> id, org |-> f.org, email |-> f.email,
                                                role |-> f.role, status |-> "pending"]}
           /\ usedInvitations' = usedInvitations \cup {id}
           /\ InviteStep(f, {})
    BY <1>7 DEF InsertInvitation
  <2> DEFINE new == [id |-> id, org |-> f.org, email |-> f.email,
                     role |-> f.role, status |-> "pending"]
  <2>2. new \in InvitationDoc /\ new.id = id
    BY DEF Invite, InvitationDoc
  <2> HIDE DEF new
  <2>3. invitations' = invitations \cup {new}
    BY <2>1 DEF new
  <2>4. /\ invitations' \subseteq InvitationDoc
        /\ \A i, j \in invitations' : i.id = j.id => i = j
        /\ \A i \in invitations' : i.id \in usedInvitations'
    BY <2>1, <2>2, <2>3
  <2> QED BY <1>7, <2>1, <2>4 DEF InsertInvitation, InviteStep
<1>8. CASE Revoke
  <2>1. contested' \subseteq Invitation
    BY <1>8 DEF Revoke, Contest, InvitationDoc
  <2> QED BY <1>8, <2>1 DEF Revoke
<1>9. CASE Lapse
  BY <1>9 DEF Lapse
<1>10. ASSUME NEW i \in invitations, invitations' = Marked(i.id, "expired"), Contest(i.id, {})
       PROVE  /\ invitations' \subseteq InvitationDoc
              /\ \A a, b \in invitations' : a.id = b.id => a = b
              /\ \A a \in invitations' : a.id \in usedInvitations
              /\ contested' \subseteq Invitation
  <2>1. contested' \subseteq Invitation
    BY <1>10 DEF Contest, InvitationDoc
  <2> QED BY <1>10, <2>1, Marking
<1>11. CASE ExpireOnValidate
  BY <1>10, <1>11 DEF ExpireOnValidate
<1>12. ASSUME NEW kind \in {"accept", "signup"}, NEW user \in User,
              NEW email \in Email, NEW i \in invitations, FindInvitation(kind, user, email, i),
              usedUsers \subseteq usedUsers', usedUsers' \subseteq User
       PROVE  MembershipTypeOK'
  <2>1. joins' \subseteq Join
    BY <1>12, Finding
  <2>2. \/ invitations' = Marked(i.id, "expired") /\ Contest(i.id, {})
        \/ UNCHANGED <<invitations, contested>>
    BY <1>12, Finding
  <2>4. /\ invitations' \subseteq InvitationDoc
        /\ \A a, b \in invitations' : a.id = b.id => a = b
        /\ \A a \in invitations' : a.id \in usedInvitations
        /\ contested' \subseteq Invitation
    BY <1>10, <2>2
  <2>3. /\ requests' \in 0..MaxMemberRequests
        /\ UNCHANGED <<users, orgs, tokens, removals, invites, foundings, lapsed,
                       usedInvitations, failures, excused, joined>>
    BY <1>12, Finding
  <2> QED BY <1>12, <2>1, <2>3, <2>4
<1>13. CASE Accept
  <2>1. PICK t \in tokens, i \in invitations : FindInvitation("accept", t.user, i.email, i)
    BY <1>13 DEF Accept
  <2>2. t.user \in User /\ i.email \in Email
    BY DEF Token, InvitationDoc
  <2> QED BY <1>12, <1>13, <2>1, <2>2 DEF Accept
<1>14. CASE SignupInvited
  <2>1. PICK i \in invitations, id \in User \ usedUsers :
            usedUsers' = usedUsers \cup {id} /\ FindInvitation("signup", id, i.email, i)
    BY <1>14 DEF SignupInvited
  <2>2. i.email \in Email
    BY DEF InvitationDoc
  <2> QED BY <1>12, <2>1, <2>2
<1>15. CASE CheckEmail
  <2>1. joins' \subseteq Join
    BY <1>15 DEF CheckEmail, Join
  <2> QED BY <1>15, <2>1 DEF CheckEmail
<1>16. CASE MoveUser
  <2>1. PICK f \in joins :
           /\ MovesTo(f.user, f.invite.org, f.invite.role)
           /\ removals' = Disturb(removals, {u.org : u \in ById(f.user)} \cup {f.invite.org})
           /\ excused' = excused \cup {u.org : u \in {v \in ById(f.user) : v.role = "admin"}}
           /\ Admit(f)
    BY <1>16 DEF MoveUser, MovesTo, Updated
  <2>3. /\ users' \subseteq UserDoc
        /\ \A u, v \in users' : u.id = v.id \/ u.email = v.email => u = v
        /\ \A u \in users' : u.id # f.user => u \in users
        /\ \A u \in users' : u.id = f.user => \E v \in users : v.id = u.id
    BY <2>1, Accepting
  <2>4. \A u \in users' : u.id \in usedUsers
    BY <2>3
  <2>5. removals' \subseteq Removal
    <3>1. \E os : removals' = Disturb(removals, os)
      BY <2>1
    <3> QED BY <3>1, Disturbing
  <2>6. excused' \subseteq Org
    <3>1. ById(f.user) \subseteq UserDoc
      BY DEF ById
    <3> QED BY <2>1, <3>1 DEF UserDoc
  <2>7. joins' \subseteq Join /\ joined' \in [Invitation -> Nat] /\ contested' \subseteq Invitation
    <3> DEFINE g == [f EXCEPT !.at = "mark"]
    <3>1. /\ joins' = (joins \ {f}) \cup {g} /\ g \in Join
          /\ joined' \in [Invitation -> Nat] /\ contested' \subseteq Invitation
      BY <2>1, Admitting
    <3> HIDE DEF g
    <3> QED BY <3>1
  <2> QED BY <1>16, <2>3, <2>4, <2>5, <2>6, <2>7 DEF MoveUser
<1>17. CASE CreateInvited
  <2>1. PICK f \in joins :
           /\ f.kind = "signup" /\ f.at = "write"
           /\ IF Refused(f.email)
              THEN /\ joins' = joins \ {f}
                   /\ UNCHANGED <<users, removals, joined, contested>>
              ELSE /\ users' = users \cup {[id |-> f.user, email |-> f.email,
                                            org |-> f.invite.org, role |-> f.invite.role]}
                   /\ removals' = Disturb(removals, {f.invite.org})
                   /\ Admit(f)
    BY <1>17 DEF CreateInvited
  <2>2. CASE Refused(f.email)
    BY <1>17, <2>1, <2>2 DEF CreateInvited
  <2>3. CASE ~Refused(f.email)
    <3> DEFINE u == [id |-> f.user, email |-> f.email,
                     org |-> f.invite.org, role |-> f.invite.role]
    <3>1. u \in UserDoc /\ u.id = f.user /\ u.email = f.email
      BY DEF Join, InvitationDoc, UserDoc
    <3>2. users' = users \cup {u}
      BY <2>1, <2>3
    <3> HIDE DEF u
    <3>3. f \in Signing
      BY <2>1 DEF Signing
    <3>4. u.id \in usedUsers /\ \A v \in users : v.id # u.id /\ v.email # u.email
      BY <2>3, <3>1, <3>3 DEF Refused, WithEmail, ById, Fresh
    <3>5. /\ users' \subseteq UserDoc
          /\ \A v, w \in users' : v.id = w.id \/ v.email = w.email => v = w
          /\ \A v \in users' : v.id \in usedUsers
      BY <3>1, <3>2, <3>4
    <3>6. removals' \subseteq Removal
      BY <2>1, <2>3, Disturbing
    <3>7. /\ joins' \subseteq Join
          /\ joined' \in [Invitation -> Nat] /\ contested' \subseteq Invitation
      BY <2>1, <2>3, Admitting
    <3> QED BY <1>17, <3>5, <3>6, <3>7 DEF CreateInvited
  <2> QED BY <2>2, <2>3
<1>18. CASE MarkAccepted
  <2>1. PICK f \in joins :
           /\ invitations' = Marked(f.invite.id, "accepted")
           /\ joins' = joins \ {f}
           /\ Contest(f.invite.id, {f})
           /\ tokens' \subseteq tokens \cup {[user |-> f.user, org |-> f.invite.org,
                                              role |-> f.invite.role]}
    BY <1>18 DEF MarkAccepted
  <2>2. f.user \in User /\ f.invite.id \in Invitation /\ f.invite.org \in Org
        /\ f.invite.role \in Role
    BY DEF Join, InvitationDoc
  <2>3. tokens' \subseteq Token
    BY <2>1, <2>2 DEF Token
  <2>4. contested' \subseteq Invitation
    BY <2>1, <2>2 DEF Contest
  <2>5. /\ invitations' \subseteq InvitationDoc
        /\ \A a, b \in invitations' : a.id = b.id => a = b
        /\ \A a \in invitations' : a.id \in usedInvitations
    BY <2>1, Marking
  <2> QED BY <1>18, <2>1, <2>3, <2>4, <2>5 DEF MarkAccepted
<1>19. CASE Found
  <2>1. foundings' \subseteq Founding
    BY <1>19 DEF Found, Founding
  <2> QED BY <1>19, <2>1 DEF Found
<1>20. CASE InsertOrg
  <2>1. foundings' \subseteq Founding /\ orgs' \subseteq Org
    BY <1>20 DEF InsertOrg, Founding
  <2> QED BY <1>20, <2>1 DEF InsertOrg
<1>21. CASE InsertFounder
  <2>1. PICK f \in foundings :
           /\ foundings' = foundings \ {f}
           /\ IF Refused(f.email)
              THEN excused' = excused \cup {f.org} /\ UNCHANGED <<users, tokens>>
              ELSE /\ users' = users \cup {[id |-> f.user, email |-> f.email, org |-> f.org,
                                            role |-> "admin"]}
                   /\ tokens' = tokens \cup {TokenOf([id |-> f.user, email |-> f.email,
                                                      org |-> f.org, role |-> "admin"])}
                   /\ UNCHANGED excused
    BY <1>21 DEF InsertFounder
  <2>2. f.org \in Org /\ f.user \in User /\ f.email \in Email
    BY DEF Founding
  <2>3. CASE Refused(f.email)
    BY <1>21, <2>1, <2>2, <2>3 DEF InsertFounder
  <2>4. CASE ~Refused(f.email)
    <3> DEFINE u == [id |-> f.user, email |-> f.email, org |-> f.org, role |-> "admin"]
    <3>1. u \in UserDoc /\ u.id = f.user /\ u.email = f.email /\ TokenOf(u) \in Token
      BY <2>2 DEF UserDoc, TokenOf, Token
    <3>2. users' = users \cup {u} /\ tokens' = tokens \cup {TokenOf(u)} /\ excused' = excused
      BY <2>1, <2>4
    <3> HIDE DEF u
    <3>3. u.id \in usedUsers /\ \A v \in users : v.id # u.id /\ v.email # u.email
      BY <2>4, <3>1 DEF Refused, WithEmail, ById, Fresh
    <3>4. /\ users' \subseteq UserDoc
          /\ \A v, w \in users' : v.id = w.id \/ v.email = w.email => v = w
          /\ \A v \in users' : v.id \in usedUsers
          /\ tokens' \subseteq Token
      BY <3>1, <3>2, <3>3
    <3> QED BY <1>21, <2>1, <3>2, <3>4 DEF InsertFounder
  <2> QED BY <2>3, <2>4
<1>22. CASE Login
  <2>1. tokens' \subseteq Token
    BY <1>22 DEF Login, TokenOf, Token, UserDoc
  <2> QED BY <1>22, <2>1 DEF Login
<1>23. CASE HandlerFails
  <2>1. /\ removals' \subseteq removals /\ invites' \subseteq invites
        /\ joins' \subseteq joins /\ foundings' \subseteq foundings /\ joined' = joined
    BY <1>23 DEF HandlerFails
  <2>2. excused' \subseteq Org /\ contested' \subseteq Invitation
    BY <1>23 DEF HandlerFails, Founding, Join, InvitationDoc
  <2>3. failures' \in 0..MaxHandlerFailures
    BY <1>23 DEF HandlerFails
  <2> QED BY <1>23, <2>1, <2>2, <2>3 DEF HandlerFails
<1>24. CASE UNCHANGED membershipVars
  BY <1>24 DEF membershipVars
<1> QED BY <1>1, <1>2, <1>3, <1>4, <1>5, <1>6, <1>7, <1>8, <1>9, <1>11, <1>13, <1>14, <1>15,
           <1>16, <1>17, <1>18, <1>19, <1>20, <1>21, <1>22, <1>23, <1>24
        DEF MembershipNext, ChangeRole, RemoveUser

\* Organizations stay open.
LEMMA OpenedStays ==
    ASSUME [MembershipNext]_membershipVars
    PROVE  Opened \subseteq Opened'
<1>1. CASE UNCHANGED <<orgs, foundings>>
  BY <1>1 DEF Opened
<1>2. CASE Found
  <2>1. PICK e \in Email, id \in User, o \in Org \ (orgs \cup {f.org : f \in foundings}) :
           /\ orgs' = orgs
           /\ foundings' = foundings \cup
                {[req |-> requests, email |-> e, user |-> id, org |-> o, at |-> "org"]}
    BY <1>2 DEF Found, tables
  <2> QED BY <2>1 DEF Opened
<1>3. CASE InsertOrg
  <2>1. PICK f \in foundings : /\ orgs' = orgs \cup {f.org}
                               /\ foundings' = (foundings \ {f}) \cup {[f EXCEPT !.at = "user"]}
    BY <1>3 DEF InsertOrg
  <2>2. [f EXCEPT !.at = "user"].org = f.org
    OBVIOUS
  <2> QED BY <2>1, <2>2 DEF Opened
<1>4. CASE InsertFounder
  BY <1>4 DEF InsertFounder, Opened
<1>5. CASE HandlerFails
  <2>1. foundings' \subseteq foundings /\ orgs' = orgs
    BY <1>5 DEF HandlerFails, tables
  <2> QED BY <2>1 DEF Opened
<1> QED BY <1>1, <1>2, <1>3, <1>4, <1>5
        DEF MembershipNext, membershipVars, tables, flights, ids, history, ChangeRole, RemoveUser,
            ReadTarget, CountAdmins, WriteRemoval, StartInvite, CheckMember, CheckPending,
            InsertInvitation, Revoke, Lapse, ExpireOnValidate, Accept, SignupInvited,
            FindInvitation, CheckEmail, MoveUser, CreateInvited, MarkAccepted, Login

LEMMA HousedKept ==
    ASSUME MembershipTypeOK, Fresh, Housed, [MembershipNext]_membershipVars
    PROVE  Housed'
<1> USE DEF tables, flights, ids, history
<1>0. Opened \subseteq Opened'
  BY OpenedStays
<1>1. CASE UNCHANGED <<users, invitations, tokens, removals, invites, joins>>
  BY <1>0, <1>1 DEF Housed
<1>2. ASSUME NEW to \in Role \cup {"none"}, ReadTarget(to)
      PROVE  Housed'
  <2>1. PICK f : removals' = removals \cup {f} /\ \E t \in tokens : t.org = f.org
    BY <1>2, ReadingTarget
  <2>2. UNCHANGED <<users, invitations, tokens, invites, joins>>
    BY <1>2 DEF ReadTarget
  <2> QED BY <1>0, <2>1, <2>2 DEF Housed
<1>3. CASE CountAdmins
  <2>1. \A f \in removals' : \E g \in removals : f.org = g.org
    BY <1>3 DEF CountAdmins, MembershipTypeOK, Removal
  <2> QED BY <1>0, <1>3, <2>1 DEF CountAdmins, Housed
<1>4. CASE WriteRemoval
  <2>1. PICK f \in removals :
           /\ users' = IF f.to = "none" THEN Deleted(f) ELSE Assigned(f)
           /\ removals' = Disturb(removals \ {f}, {u.org : u \in ById(f.target)})
           /\ UNCHANGED <<invitations, tokens, invites, joins>>
    BY <1>4 DEF WriteRemoval
  <2>2. f \in Removal /\ (f.to # "none" => f.to \in Role) /\ removals \ {f} \in SUBSET Removal
    BY DEF Removal, MembershipTypeOK
  <2>3. \A g \in removals' : \E h \in removals : g.org = h.org
    <3> DEFINE S == removals \ {f}
               os == {u.org : u \in ById(f.target)}
    <3>1. \A g \in Disturb(S, os) : \E h \in S : g.org = h.org
      BY <2>2, Disturbing
    <3> QED BY <2>1, <3>1
  <2>4. CASE f.to = "none"
    BY <1>0, <2>1, <2>3, <2>4 DEF Housed, Deleted
  <2>5. CASE f.to # "none"
    <3>1. \A u \in users' : \E v \in users : v.org = u.org
      BY <2>1, <2>2, <2>5, Assigning
    <3> QED BY <1>0, <2>1, <2>3, <3>1 DEF Housed
  <2> QED BY <2>4, <2>5
<1>5. CASE StartInvite
  <2>1. \A f \in invites' : f \in invites \/ \E t \in tokens : f.org = t.org
    BY <1>5 DEF StartInvite
  <2> QED BY <1>0, <1>5, <2>1 DEF StartInvite, Housed
<1>6. CASE CheckMember \/ CheckPending
  <2>1. \A f \in invites' : \E g \in invites : f.org = g.org
    BY <1>6 DEF CheckMember, CheckPending, InviteStep, MembershipTypeOK, Invite
  <2> QED BY <1>0, <1>6, <2>1 DEF CheckMember, CheckPending, Housed
<1>7. CASE InsertInvitation
  <2>1. PICK f \in invites : \A i \in invitations' : i \in invitations \/ i.org = f.org
    BY <1>7 DEF InsertInvitation
  <2>2. invites' \subseteq invites
    BY <1>7 DEF InsertInvitation, InviteStep
  <2> QED BY <1>0, <1>7, <2>1, <2>2 DEF InsertInvitation, Housed
<1>8. CASE Revoke
  BY <1>0, <1>8 DEF Revoke, Housed
<1>9. CASE ExpireOnValidate
  <2>1. PICK i \in invitations : invitations' = Marked(i.id, "expired")
    BY <1>9 DEF ExpireOnValidate
  <2>2. \A a \in invitations' : \E b \in invitations : a.org = b.org
    BY <2>1, Marking
  <2> QED BY <1>0, <1>9, <2>2 DEF ExpireOnValidate, Housed
<1>10. ASSUME NEW kind \in {"accept", "signup"}, NEW user \in User,
              NEW email \in Email, NEW i \in invitations, FindInvitation(kind, user, email, i)
       PROVE  Housed'
  <2>1. \A a \in invitations' : \E b \in invitations : a.org = b.org
    BY <1>10, Finding, Marking
  <2>2. \A j \in joins' : j \in joins \/ j.invite = i
    BY <1>10, Finding
  <2>3. UNCHANGED <<users, tokens, removals, invites>>
    BY <1>10, Finding
  <2> QED BY <1>0, <2>1, <2>2, <2>3 DEF Housed
<1>11. CASE Accept
  <2>1. PICK t \in tokens, i \in invitations : FindInvitation("accept", t.user, i.email, i)
    BY <1>11 DEF Accept
  <2>2. t.user \in User /\ i.email \in Email
    BY DEF MembershipTypeOK, Token, InvitationDoc
  <2> QED BY <1>10, <2>1, <2>2
<1>12. CASE SignupInvited
  <2>1. PICK i \in invitations, id \in User \ usedUsers : FindInvitation("signup", id, i.email, i)
    BY <1>12 DEF SignupInvited
  <2>2. i.email \in Email
    BY DEF MembershipTypeOK, InvitationDoc
  <2> QED BY <1>10, <2>1, <2>2
<1>13. CASE CheckEmail
  <2>1. \A j \in joins' : \E k \in joins : j.invite = k.invite
    BY <1>13 DEF CheckEmail, MembershipTypeOK, Join
  <2> QED BY <1>0, <1>13, <2>1 DEF CheckEmail, Housed
<1>14. ASSUME NEW f \in joins, Admit(f)
       PROVE  \A j \in joins' : \E k \in joins : j.invite = k.invite
  BY <1>14, Admitting
<1>15. CASE MoveUser
  <2>1. PICK f \in joins :
           /\ MovesTo(f.user, f.invite.org, f.invite.role)
           /\ removals' = Disturb(removals, {u.org : u \in ById(f.user)} \cup {f.invite.org})
           /\ Admit(f)
           /\ UNCHANGED <<invitations, tokens, invites>>
    BY <1>15 DEF MoveUser, MovesTo, Updated
  <2>2. \A u \in users' : u \in users \/ u.org = f.invite.org
    BY <2>1, Accepting
  <2>3. \A g \in removals' : \E h \in removals : g.org = h.org
    <3>1. PICK os : removals' = Disturb(removals, os)
      BY <2>1
    <3> QED BY <3>1, Disturbing DEF MembershipTypeOK
  <2> QED BY <1>0, <1>14, <2>1, <2>2, <2>3 DEF Housed
<1>16. CASE CreateInvited
  <2>1. PICK f \in joins :
           /\ UNCHANGED <<invitations, tokens, invites>>
           /\ \/ joins' = joins \ {f} /\ UNCHANGED <<users, removals>>
              \/ /\ \A u \in users' : u \in users \/ u.org = f.invite.org
                 /\ removals' = Disturb(removals, {f.invite.org})
                 /\ Admit(f)
    BY <1>16 DEF CreateInvited
  <2>2. \A g \in removals' : \E h \in removals : g.org = h.org
    BY <2>1, Disturbing DEF MembershipTypeOK
  <2>3. \A u \in users' : u \in users \/ u.org = f.invite.org
    BY <2>1
  <2>4. \A j \in joins' : \E k \in joins : j.invite = k.invite
    BY <1>14, <2>1
  <2> QED BY <1>0, <2>1, <2>2, <2>3, <2>4 DEF Housed
<1>17. CASE MarkAccepted
  <2>1. PICK f \in joins :
           /\ invitations' = Marked(f.invite.id, "accepted")
           /\ joins' = joins \ {f}
           /\ \A t \in tokens' : t \in tokens \/ t.org = f.invite.org
           /\ UNCHANGED <<users, removals, invites>>
    BY <1>17 DEF MarkAccepted
  <2>2. \A a \in invitations' : \E b \in invitations : a.org = b.org
    BY <2>1, Marking
  <2> QED BY <1>0, <2>1, <2>2 DEF Housed
<1>18. CASE InsertFounder
  <2>1. PICK f \in foundings :
           /\ f.at = "user" /\ foundings' = foundings \ {f} /\ orgs' = orgs
           /\ \A u \in users' : u \in users \/ u.org = f.org
           /\ \A t \in tokens' : t \in tokens \/ t.org = f.org
           /\ UNCHANGED <<invitations, removals, invites, joins>>
    BY <1>18 DEF InsertFounder, TokenOf
  <2>2. f.org \in Opened'
    BY <2>1 DEF Fresh, Opened
  <2> QED BY <1>0, <2>1, <2>2 DEF Housed
<1>19. CASE Login
  <2>1. \A t \in tokens' : t \in tokens \/ \E u \in users : t.org = u.org
    BY <1>19 DEF Login, TokenOf
  <2> QED BY <1>0, <1>19, <2>1 DEF Login, Housed
<1>20. CASE HandlerFails
  <2>1. /\ removals' \subseteq removals /\ invites' \subseteq invites /\ joins' \subseteq joins
        /\ UNCHANGED <<users, invitations, tokens>>
    BY <1>20 DEF HandlerFails
  <2> QED BY <1>0, <2>1 DEF Housed
<1> QED BY <1>1, <1>2, <1>3, <1>4, <1>5, <1>6, <1>7, <1>8, <1>9, <1>11, <1>12, <1>13, <1>15,
           <1>16, <1>17, <1>18, <1>19, <1>20
        DEF MembershipNext, membershipVars, ChangeRole, RemoveUser, Lapse, Found, InsertOrg

\* Ids that a signup took are given to nobody else.
LEMMA FreshKept ==
    ASSUME MembershipTypeOK, Fresh, [MembershipNext]_membershipVars
    PROVE  Fresh'
<1> USE DEF tables, flights, ids, history
\* Nobody is created, and every signup in progress was in progress before.
<1>0. ASSUME \A u \in users' : \E v \in users : v.id = u.id,
             Signing' \subseteq Signing, foundings' \subseteq foundings,
             usedUsers \subseteq usedUsers', orgs \subseteq orgs'
      PROVE  Fresh'
  BY <1>0 DEF Fresh, ById
<1>1. CASE UNCHANGED <<users, joins, foundings, usedUsers, orgs>>
  BY <1>0, <1>1 DEF Signing
<1>2. CASE WriteRemoval
  <2>1. PICK f \in removals :
           /\ users' = IF f.to = "none" THEN Deleted(f) ELSE Assigned(f)
           /\ UNCHANGED <<joins, foundings, usedUsers, orgs>>
    BY <1>2 DEF WriteRemoval
  <2>2. f \in Removal /\ (f.to # "none" => f.to \in Role)
    BY DEF MembershipTypeOK, Removal
  <2>3. \A u \in users' : \E v \in users : v.id = u.id
    BY <2>1, <2>2, Assigning DEF Deleted
  <2> QED BY <1>0, <2>1, <2>3 DEF Signing
<1>3. CASE Accept
  <2>1. PICK t \in tokens, i \in invitations : FindInvitation("accept", t.user, i.email, i)
    BY <1>3 DEF Accept
  <2>2. t.user \in User /\ i.email \in Email
    BY DEF MembershipTypeOK, Token, InvitationDoc
  <2>3. UNCHANGED <<users, foundings, orgs, usedUsers>>
    BY <1>3, <2>1, <2>2, Finding DEF Accept
  <2>4. \A j \in joins' : j \in joins \/ j.kind = "accept"
    BY <2>1, <2>2, Finding
  <2> QED BY <1>0, <2>3, <2>4 DEF Signing
<1>4. CASE SignupInvited
  <2>1. PICK i \in invitations, id \in User \ usedUsers :
            usedUsers' = usedUsers \cup {id} /\ FindInvitation("signup", id, i.email, i)
    BY <1>4 DEF SignupInvited
  <2>2. i.email \in Email
    BY DEF MembershipTypeOK, InvitationDoc
  <2>3. UNCHANGED <<users, foundings, orgs>>
    BY <2>1, <2>2, Finding
  <2>4. PICK k : Signing' \subseteq Signing \cup {k} /\ k.user = id
    <3>1. \/ joins' = joins
          \/ \E k \in Join : joins' = joins \cup {k} /\ k.user = id
      BY <2>1, <2>2, Finding
    <3>2. CASE joins' = joins
      <4>1. [user |-> id].user = id
        OBVIOUS
      <4> QED BY <3>2, <4>1 DEF Signing
    <3> QED BY <3>1, <3>2 DEF Signing
  <2>5. \A u \in users : u.id # id
    BY <2>1 DEF MembershipTypeOK
  <2>6. \A j \in Signing : j.user # id
    BY <2>1 DEF Fresh
  <2>7. \A f \in foundings : f.user # id
    BY <2>1 DEF Fresh
  <2> QED BY <2>1, <2>3, <2>4, <2>5, <2>6, <2>7 DEF Fresh, ById
<1>5. CASE CheckEmail
  <2>1. Signing' \subseteq Signing
    BY <1>5 DEF CheckEmail, Signing, MembershipTypeOK, Join
  <2> QED BY <1>0, <1>5, <2>1 DEF CheckEmail
<1>6. ASSUME NEW f \in joins, Admit(f)
      PROVE  Signing' = Signing \ {f}
  BY <1>6, Admitting DEF Signing
<1>7. CASE MoveUser
  <2>1. PICK f \in joins : /\ MovesTo(f.user, f.invite.org, f.invite.role)
                           /\ Admit(f)
                           /\ UNCHANGED <<foundings, orgs, usedUsers>>
    BY <1>7 DEF MoveUser, MovesTo, Updated
  <2>2. \A u \in users' : \E v \in users : v.id = u.id
    BY <2>1, Accepting
  <2> QED BY <1>0, <1>6, <2>1, <2>2
<1>8. CASE CreateInvited
  <2>1. PICK f \in joins :
           /\ f.kind = "signup" /\ f.at = "write"
           /\ UNCHANGED <<foundings, orgs, usedUsers>>
           /\ \/ joins' = joins \ {f} /\ UNCHANGED users
              \/ /\ users' = users \cup {[id |-> f.user, email |-> f.email,
                                          org |-> f.invite.org, role |-> f.invite.role]}
                 /\ Admit(f)
    BY <1>8 DEF CreateInvited
  <2>2. f \in Signing /\ Signing' \subseteq Signing \ {f}
    BY <1>6, <2>1 DEF Signing
  <2>3. \A u \in users' : u \in users \/ u.id = f.user
    BY <2>1
  <2> QED BY <2>1, <2>2, <2>3 DEF Fresh, ById
<1>9. CASE MarkAccepted
  <2>1. Signing' \subseteq Signing
    BY <1>9 DEF MarkAccepted, Signing
  <2> QED BY <1>0, <1>9, <2>1 DEF MarkAccepted
<1>10. CASE Found
  <2>1. PICK e \in Email, id \in User \ usedUsers,
             o \in Org \ (orgs \cup {f.org : f \in foundings}) :
           /\ foundings' = foundings \cup
                {[req |-> requests, email |-> e, user |-> id, org |-> o, at |-> "org"]}
           /\ usedUsers' = usedUsers \cup {id}
           /\ UNCHANGED <<users, joins, orgs>>
    BY <1>10 DEF Found
  <2> DEFINE g == [req |-> requests, email |-> e, user |-> id, org |-> o, at |-> "org"]
  <2>2. foundings' = foundings \cup {g} /\ g.user = id /\ g.at = "org" /\ g.org = o
    BY <2>1
  <2> HIDE DEF g
  <2>3. \A f \in foundings : f.org # o
    OBVIOUS
  <2>4. \A u \in users : u.id # id
    BY DEF MembershipTypeOK
  <2> QED BY <2>1, <2>2, <2>3, <2>4 DEF Fresh, ById, Signing
<1>11. CASE InsertOrg
  <2>1. PICK f \in foundings :
           /\ foundings' = (foundings \ {f}) \cup {[f EXCEPT !.at = "user"]}
           /\ orgs' = orgs \cup {f.org}
           /\ UNCHANGED <<users, joins, usedUsers>>
    BY <1>11 DEF InsertOrg
  <2>2. [f EXCEPT !.at = "user"].org = f.org /\ [f EXCEPT !.at = "user"].user = f.user
    BY DEF MembershipTypeOK, Founding
  <2> DEFINE g == [f EXCEPT !.at = "user"]
  <2>3. foundings' = (foundings \ {f}) \cup {g} /\ g.org = f.org /\ g.user = f.user
    BY <2>1, <2>2
  <2> HIDE DEF g
  <2> QED BY <2>1, <2>3 DEF Fresh, ById, Signing
<1>12. CASE InsertFounder
  <2>1. PICK f \in foundings :
           /\ foundings' = foundings \ {f}
           /\ \A u \in users' : u \in users \/ u.id = f.user
           /\ UNCHANGED <<joins, orgs, usedUsers>>
    BY <1>12 DEF InsertFounder
  <2> QED BY <2>1 DEF Fresh, ById, Signing
<1>13. CASE HandlerFails
  <2>1. /\ joins' \subseteq joins /\ foundings' \subseteq foundings
        /\ UNCHANGED <<users, orgs, usedUsers>>
    BY <1>13 DEF HandlerFails
  <2> QED BY <1>0, <2>1 DEF Signing
<1> QED BY <1>1, <1>2, <1>3, <1>4, <1>5, <1>7, <1>8, <1>9, <1>10, <1>11, <1>12, <1>13
        DEF MembershipNext, membershipVars, ChangeRole, RemoveUser, ReadTarget, CountAdmins,
            StartInvite, CheckMember, CheckPending, InsertInvitation, Revoke, Lapse,
            ExpireOnValidate, Login

\* Who is not the only admin leaves another one behind.
LEMMA AnotherAdmin ==
    ASSUME MembershipTypeOK, NEW o, NEW u \in Admins(o), ~(Cardinality(Admins(o)) <= 1)
    PROVE  \E v \in Admins(o) : v # u
<1> DEFINE id == [v \in Admins(o) |-> v.id]
<1>1. Admins(o) \subseteq users
  BY DEF Admins, Members
<1>2. id \in Injection(Admins(o), User)
  BY <1>1 DEF MembershipTypeOK, UserDoc, Injection, IsInjective
<1>3. IsFiniteSet(Admins(o))
  BY <1>2, FS_Injection, MembershipAssumption
<1>4. Cardinality(Admins(o)) # 1 /\ Cardinality(Admins(o)) # 0
  BY <1>3, FS_CardinalityType
<1>5. Admins(o) # {u}
  BY <1>4, FS_Singleton
<1> QED BY <1>5

\* A handler that ran alone so far is not affected by steps in other organizations.
LEMMA SerialStays ==
    ASSUME Serial,
           \A f \in removals' : f.serial =>
              f \in removals /\ \A u \in users : u.org = f.org => u \in users'
    PROVE  Serial'
<1> SUFFICES ASSUME NEW f \in removals', f.serial PROVE SafeRemoval(f)'
  BY DEF Serial
<1>1. SafeRemoval(f) /\ \A u \in users : u.org = f.org => u \in users'
  BY DEF Serial
<1>2. Admins(f.org) \subseteq Admins(f.org)'
  BY <1>1 DEF Admins, Members
<1> QED BY <1>1, <1>2 DEF SafeRemoval

LEMMA SerialKept ==
    ASSUME MembershipTypeOK, Serial, [MembershipNext]_membershipVars
    PROVE  Serial'
<1> USE DEF tables, flights, ids, history
<1>1. CASE UNCHANGED <<users, removals>>
  BY <1>1, SerialStays
<1>2. ASSUME NEW to \in Role \cup {"none"}, ReadTarget(to)
      PROVE  Serial'
  <2>1. PICK u \in users, f \in Removal :
              /\ removals' = removals \cup {f}
              /\ f.target = u.id /\ f.org = u.org /\ f.to = to
              /\ f.at = IF u.role = "admin" /\ to # "admin" THEN "count" ELSE "write"
    BY <1>2, ReadingTarget
  <2>2. users' = users
    BY <1>2 DEF ReadTarget
  <2>3. SafeRemoval(f)'
    BY <2>1, <2>2 DEF SafeRemoval
  <2>4. \A g \in removals : SafeRemoval(g) => SafeRemoval(g)'
    BY <2>2 DEF SafeRemoval, Admins, Members
  <2> QED BY <2>1, <2>3, <2>4 DEF Serial
<1>3. CASE CountAdmins
  <2>1. PICK f \in removals :
           /\ f.at = "count"
           /\ removals' = (removals \ {f}) \cup
                (IF Cardinality(Admins(f.org)) <= 1 THEN {} ELSE {[f EXCEPT !.at = "write"]})
           /\ users' = users
    BY <1>3 DEF CountAdmins
  <2>2. \A g \in removals : SafeRemoval(g) => SafeRemoval(g)'
    BY <2>1 DEF SafeRemoval, Admins, Members
  <2>3. CASE Cardinality(Admins(f.org)) <= 1
    BY <2>1, <2>2, <2>3 DEF Serial
  <2>4. CASE ~(Cardinality(Admins(f.org)) <= 1)
    <3> DEFINE g == [f EXCEPT !.at = "write"]
    <3>1. /\ g.org = f.org /\ g.target = f.target /\ g.to = f.to /\ g.serial = f.serial
          /\ g.at = "write"
      BY DEF MembershipTypeOK, Removal
    <3>2. removals' = (removals \ {f}) \cup {g}
      BY <2>1, <2>4
    <3> HIDE DEF g
    <3>3. ASSUME f.serial PROVE SafeRemoval(g)
      <4>1. PICK u \in users : u.id = f.target /\ u.org = f.org /\ u.role = "admin"
        BY <2>1, <3>3 DEF Serial, SafeRemoval
      <4>2. \E v \in Admins(f.org) : v # u
        BY <2>4, <4>1, AnotherAdmin DEF Admins, Members
      <4> QED BY <3>1, <4>1, <4>2 DEF SafeRemoval
    <3>4. SafeRemoval(g) => SafeRemoval(g)'
      BY <2>1 DEF SafeRemoval, Admins, Members
    <3> QED BY <2>2, <3>1, <3>2, <3>3, <3>4 DEF Serial
  <2> QED BY <2>3, <2>4
<1>4. CASE WriteRemoval
  <2>1. PICK f \in removals :
           /\ users' = IF f.to = "none" THEN Deleted(f) ELSE Assigned(f)
           /\ removals' = Disturb(removals \ {f}, {u.org : u \in ById(f.target)})
    BY <1>4 DEF WriteRemoval
  <2>2. f \in Removal /\ (f.to # "none" => f.to \in Role) /\ removals \ {f} \in SUBSET Removal
    BY DEF Removal, MembershipTypeOK
  <2>3. \A u \in users : u.id # f.target => u \in users'
    BY <2>1, <2>2, Assigning DEF Deleted, ById
  <2>4. \A g \in removals' :
            g.serial => g \in removals /\ g.org \notin {u.org : u \in ById(f.target)}
    BY <2>1, <2>2, Disturbing
  <2>5. \A g \in removals' : g.serial =>
           g \in removals /\ \A u \in users : u.org = g.org => u \in users'
    BY <2>3, <2>4 DEF ById
  <2> QED BY <2>5, SerialStays
<1>5. CASE MoveUser
  <2>1. PICK f \in joins :
           /\ MovesTo(f.user, f.invite.org, f.invite.role)
           /\ removals' = Disturb(removals, {u.org : u \in ById(f.user)} \cup {f.invite.org})
    BY <1>5 DEF MoveUser, MovesTo, Updated
  <2>2. \A u \in users : u.id # f.user => u \in users'
    BY <2>1, Accepting
  <2>3. removals \in SUBSET Removal
    BY DEF MembershipTypeOK
  <2>4. \A g \in removals' : g.serial => g \in removals /\ g.org \notin {u.org : u \in ById(f.user)}
    BY <2>1, <2>3, Disturbing
  <2>5. \A g \in removals' : g.serial =>
           g \in removals /\ \A u \in users : u.org = g.org => u \in users'
    BY <2>2, <2>4 DEF ById
  <2> QED BY <2>5, SerialStays
<1>6. CASE CreateInvited
  <2>1. /\ users \subseteq users'
        /\ removals' = removals \/ \E os : removals' = Disturb(removals, os)
    BY <1>6 DEF CreateInvited
  <2>2. \A g \in removals' : g.serial => g \in removals
    BY <2>1, Disturbing DEF MembershipTypeOK
  <2> QED BY <2>1, <2>2, SerialStays
<1>7. CASE InsertFounder
  <2>1. users \subseteq users' /\ removals' = removals
    BY <1>7 DEF InsertFounder
  <2> QED BY <2>1, SerialStays
<1>8. CASE HandlerFails
  <2>1. users' = users /\ removals' \subseteq removals
    BY <1>8 DEF HandlerFails
  <2> QED BY <2>1, SerialStays
<1> QED BY <1>1, <1>2, <1>3, <1>4, <1>5, <1>6, <1>7, <1>8
        DEF MembershipNext, membershipVars, ChangeRole, RemoveUser, StartInvite, CheckMember,
            CheckPending, InsertInvitation, Revoke, Lapse, ExpireOnValidate, Accept,
            SignupInvited, FindInvitation, CheckEmail, MarkAccepted, Found, InsertOrg, Login

\* No step takes the last admin of an organization that has no excuse for it.
LEMMA AdminKeptKept ==
    ASSUME MembershipTypeOK, Serial, AdminKept, [MembershipNext]_membershipVars
    PROVE  AdminKept'
<1> USE DEF tables, flights, ids, history
<1>0. ASSUME NEW o, o \in orgs, Admins(o) # {} => Admins(o)' # {} \/ o \in excused',
             excused \subseteq excused',
             \A f \in foundings : f.org = o => o \in excused' \/ \E g \in foundings' : g.org = o
      PROVE  Admins(o)' # {} \/ o \in excused' \/ \E f \in foundings' : f.org = o
  BY <1>0 DEF AdminKept
<1>1. CASE UNCHANGED <<users, orgs, excused, foundings>>
  BY <1>1 DEF AdminKept, Admins, Members
<1>2. CASE WriteRemoval
  <2>1. PICK f \in removals :
           /\ f.at = "write"
           /\ users' = IF f.to = "none" THEN Deleted(f) ELSE Assigned(f)
           /\ excused' = IF f.serial THEN excused
                         ELSE excused \cup {u.org : u \in ById(f.target)}
           /\ UNCHANGED <<orgs, foundings>>
    BY <1>2 DEF WriteRemoval
  <2>2. f \in Removal /\ (f.to # "none" => f.to \in Role)
    BY DEF Removal, MembershipTypeOK
  <2>3. /\ \A u \in users : u.id # f.target => u \in users'
        /\ f.to # "none" => \A u \in users : u.id = f.target => \E v \in users' :
                               v.id = u.id /\ v.org = u.org /\ v.role = f.to
    BY <2>1, <2>2, Assigning DEF Deleted, ById
  <2>4. ASSUME NEW o, Admins(o) # {}
        PROVE  Admins(o)' # {} \/ o \in excused'
    <3>1. PICK a \in users : a.org = o /\ a.role = "admin"
      BY <2>4 DEF Admins, Members
    <3>2. CASE a.id # f.target
      BY <2>3, <3>1, <3>2 DEF Admins, Members
    <3>3. CASE a.id = f.target /\ ~f.serial
      BY <2>1, <3>1, <3>3 DEF ById
    <3>4. CASE a.id = f.target /\ f.serial /\ f.to = "admin"
      BY <2>3, <3>1, <3>4 DEF Admins, Members
    <3>5. CASE a.id = f.target /\ f.serial /\ f.to # "admin"
      <4>1. PICK u \in users :
               /\ u.id = f.target /\ u.org = f.org
               /\ u.role = "admin" => \E v \in Admins(f.org) : v # u
        BY <2>1, <3>5 DEF Serial, SafeRemoval
      <4>2. u = a
        BY <3>5, <4>1 DEF MembershipTypeOK
      <4>3. PICK v \in users : v # a /\ v.org = o /\ v.role = "admin"
        BY <3>1, <4>1, <4>2 DEF Admins, Members
      <4>4. v.id # f.target
        BY <3>5, <4>3 DEF MembershipTypeOK
      <4> QED BY <2>3, <4>3, <4>4 DEF Admins, Members
    <3> QED BY <3>2, <3>3, <3>4, <3>5
  <2> QED BY <1>0, <2>1, <2>4 DEF AdminKept
<1>3. CASE MoveUser
  <2>1. PICK f \in joins :
           /\ MovesTo(f.user, f.invite.org, f.invite.role)
           /\ excused' = excused \cup {u.org : u \in {v \in ById(f.user) : v.role = "admin"}}
           /\ UNCHANGED <<orgs, foundings>>
    BY <1>3 DEF MoveUser, MovesTo, Updated
  <2>2. \A u \in users : u.id # f.user => u \in users'
    BY <2>1, Accepting
  <2>3. ASSUME NEW o, Admins(o) # {}
        PROVE  Admins(o)' # {} \/ o \in excused'
    BY <2>1, <2>2, <2>3 DEF Admins, Members, ById
  <2> QED BY <1>0, <2>1, <2>3 DEF AdminKept
<1>4. CASE CreateInvited
  <2>1. users \subseteq users' /\ UNCHANGED <<orgs, foundings, excused>>
    BY <1>4 DEF CreateInvited
  <2>2. \A o : Admins(o) \subseteq Admins(o)'
    BY <2>1 DEF Admins, Members
  <2> QED BY <2>1, <2>2 DEF AdminKept
<1>5. CASE Found
  <2>1. foundings \subseteq foundings' /\ UNCHANGED <<users, orgs, excused>>
    BY <1>5 DEF Found
  <2> QED BY <2>1 DEF AdminKept, Admins, Members
<1>6. CASE InsertOrg
  <2>1. PICK f \in foundings :
           /\ foundings' = (foundings \ {f}) \cup {[f EXCEPT !.at = "user"]}
           /\ orgs' = orgs \cup {f.org}
           /\ UNCHANGED <<users, excused>>
    BY <1>6 DEF InsertOrg
  <2>2. [f EXCEPT !.at = "user"].org = f.org
    BY DEF MembershipTypeOK, Founding
  <2>3. \A o : (o = f.org \/ \E g \in foundings : g.org = o) => \E g \in foundings' : g.org = o
    BY <2>1, <2>2
  <2> QED BY <2>1, <2>3 DEF AdminKept, Admins, Members
<1>7. CASE InsertFounder
  <2>1. PICK f \in foundings :
           /\ foundings' = foundings \ {f} /\ orgs' = orgs
           /\ \/ excused' = excused \cup {f.org} /\ UNCHANGED users
              \/ /\ users' = users \cup {[id |-> f.user, email |-> f.email, org |-> f.org,
                                          role |-> "admin"]}
                 /\ UNCHANGED excused
    BY <1>7 DEF InsertFounder
  <2>2. f.org \in excused' \/ Admins(f.org)' # {}
    <3> DEFINE u == [id |-> f.user, email |-> f.email, org |-> f.org, role |-> "admin"]
    <3>1. u.org = f.org /\ u.role = "admin"
      OBVIOUS
    <3>2. f.org \in excused' \/ u \in users'
      BY <2>1
    <3> HIDE DEF u
    <3> QED BY <3>1, <3>2 DEF Admins, Members
  <2>3. \A o : Admins(o) \subseteq Admins(o)'
    BY <2>1 DEF Admins, Members
  <2> QED BY <2>1, <2>2, <2>3 DEF AdminKept
<1>8. CASE HandlerFails
  <2>1. /\ UNCHANGED <<users, orgs>> /\ excused \subseteq excused'
        /\ \A f \in foundings : f \in foundings' \/ f.org \in excused'
    BY <1>8 DEF HandlerFails
  <2>2. \A o : Admins(o)' = Admins(o)
    BY <2>1 DEF Admins, Members
  <2> QED BY <2>1, <2>2 DEF AdminKept
<1> QED BY <1>1, <1>2, <1>3, <1>4, <1>5, <1>6, <1>7, <1>8
        DEF MembershipNext, membershipVars, ChangeRole, RemoveUser, ReadTarget, CountAdmins,
            StartInvite, CheckMember, CheckPending, InsertInvitation, Revoke, Lapse,
            ExpireOnValidate, Accept, SignupInvited, FindInvitation, CheckEmail, MarkAccepted, Login

\* What a contest leaves out: nobody else holds the invitation.
LEMMA Uncontested ==
    ASSUME NEW id, NEW S, Contest(id, S)
    PROVE  /\ contested \subseteq contested'
           /\ id \notin contested' => \A j \in joins : j.invite.id = id => j \in S
  BY DEF Contest

\* Steps that admit nobody and mark nothing.
LEMMA AdmissionsStay ==
    ASSUME Admissions, contested \subseteq contested', joined' = joined,
           usedInvitations \subseteq usedInvitations',
           \A j \in joins' : j.invite.id \in usedInvitations,
           \A i \in Invitation \ contested' :
              /\ Pending(i) = {} /\ Holders(i) = {} => Pending(i)' = {} \/ joined[i] = 0
              /\ Pending(i) = {} => Holders(i)' \subseteq Holders(i)
              /\ (\E j \in Holders(i) : j.at = "mark") => \E j \in Holders(i)' : j.at = "mark"
              /\ \A j \in Holders(i)' : j.at # "mark" => Pending(i)' # {}
    PROVE  Admissions'
<1>1. \A j \in joins' : j.invite.id \in usedInvitations'
  OBVIOUS
<1>2. \A i \in Invitation : joined'[i] # 0 => i \in usedInvitations'
  BY DEF Admissions
<1>3. ASSUME NEW i \in Invitation \ contested'
      PROVE  /\ joined'[i] <= 1
             /\ joined'[i] = 1 => UsedUp(i)'
             /\ \A j \in Holders(i)' : j.at # "mark" => Pending(i)' # {}
  BY <1>3 DEF Admissions, UsedUp
<1> QED BY <1>1, <1>2, <1>3 DEF Admissions

\* An invitation that is marked is not pending, and the others are as they were.
LEMMA MarkedPending ==
    ASSUME MembershipTypeOK, NEW id, NEW s \in {"accepted", "expired"},
           invitations' = Marked(id, s)
    PROVE  /\ Pending(id)' = {}
           /\ \A i : i # id => Pending(i)' = Pending(i)
  BY Marking DEF Pending

LEMMA Admitted ==
    ASSUME MembershipTypeOK, Admissions, NEW f \in joins, f.at = "write", Admit(f),
           UNCHANGED <<invitations, usedInvitations>>
    PROVE  /\ Admissions'
           /\ \A i \in Invitation : joined'[i] # joined[i] =>
                 i \in contested \/ Pending(i) # {}
<1>0. /\ joins' = (joins \ {f}) \cup {[f EXCEPT !.at = "mark"]}
      /\ [f EXCEPT !.at = "mark"].invite = f.invite
      /\ [f EXCEPT !.at = "mark"].at = "mark"
      /\ contested \subseteq contested'
      /\ \A i \in Invitation :
           joined'[i] = joined[i] \/ (i = f.invite.id /\ joined'[i] = joined[i] + 1)
  BY Admitting
<1> DEFINE g == [f EXCEPT !.at = "mark"]
           id == f.invite.id
<1>1. joins' = (joins \ {f}) \cup {g} /\ g.invite = f.invite /\ g.at = "mark"
  BY <1>0
<1> HIDE DEF g
<1>2. id \in Invitation /\ f \in Holders(id)
  BY DEF MembershipTypeOK, Join, InvitationDoc, Holders
<1>3. id \notin contested' => Holders(id) = {f}
  BY <1>2, Uncontested DEF Admit, Holders
<1>4. \A i \in Invitation : Pending(i)' = Pending(i)
  BY DEF Pending
<1>5. \A i \in Invitation : i # id => Holders(i)' = Holders(i)
  BY <1>1 DEF Holders
<1>6. g \in Holders(id)'
  BY <1>1 DEF Holders
<1>7. id \notin contested => Pending(id) # {}
  BY <1>2 DEF Admissions
<1>8. \A j \in joins' : j.invite.id \in usedInvitations'
  BY <1>1 DEF Admissions
<1>9. \A i \in Invitation : joined'[i] # 0 => i \in usedInvitations'
  BY <1>0, <1>1, <1>8 DEF Admissions
<1>10. ASSUME NEW i \in Invitation \ contested'
       PROVE  /\ joined'[i] <= 1
              /\ joined'[i] = 1 => UsedUp(i)'
              /\ \A j \in Holders(i)' : j.at # "mark" => Pending(i)' # {}
  <2>1. CASE i = id
    <3>1. Holders(id) = {f} /\ ~UsedUp(id) /\ Pending(id) # {}
      BY <1>0, <1>3, <1>7, <2>1 DEF UsedUp
    <3>2. joined[id] = 0
      BY <1>0, <1>2, <2>1, <3>1 DEF Admissions, MembershipTypeOK
    <3>3. joined'[id] <= 1
      BY <1>0, <1>2, <3>2
    <3> QED BY <1>1, <1>4, <1>6, <2>1, <3>1, <3>3 DEF UsedUp
  <2>2. CASE i # id
    <3>1. joined'[i] = joined[i] /\ i \notin contested
      BY <1>0, <2>2
    <3> QED BY <1>4, <1>5, <2>2, <3>1 DEF Admissions, UsedUp
  <2> QED BY <2>1, <2>2
<1> QED BY <1>0, <1>7, <1>8, <1>9, <1>10 DEF Admissions

LEMMA AdmissionsKept ==
    ASSUME MembershipTypeOK, Admissions, [MembershipNext]_membershipVars
    PROVE  /\ Admissions'
           /\ \A i \in Invitation : joined'[i] # joined[i] =>
                 i \in contested \/ Pending(i) # {}
<1> USE DEF tables, flights, ids, history
<1>1. CASE UNCHANGED <<invitations, joins, usedInvitations, joined, contested>>
  <2>1. \A i : Pending(i)' = Pending(i) /\ Holders(i)' = Holders(i)
    BY <1>1 DEF Pending, Holders
  <2> QED BY <1>1, <2>1 DEF Admissions, UsedUp
<1>2. CASE InsertInvitation
  <2>1. PICK f \in invites, id \in Invitation \ usedInvitations :
           /\ invitations' = invitations \cup {[id |-> id, org |-> f.org, email |-> f.email,
                                                role |-> f.role, status |-> "pending"]}
           /\ usedInvitations' = usedInvitations \cup {id}
           /\ UNCHANGED <<joins, joined, contested>>
    BY <1>2 DEF InsertInvitation
  <2>2. \A i : Holders(i)' = Holders(i)
    BY <2>1 DEF Holders
  <2>3. \A i : i # id => Pending(i)' = Pending(i)
    BY <2>1 DEF Pending
  <2>4. joined[id] = 0 /\ Holders(id) = {}
    BY DEF Admissions, Holders
  <2>5. Admissions'
    BY <2>1, <2>2, <2>3, <2>4, AdmissionsStay DEF Admissions
  <2> QED BY <2>1, <2>5
<1>3. CASE Revoke
  <2>1. PICK i \in invitations : /\ invitations' = invitations \ {i}
                                 /\ Contest(i.id, {})
                                 /\ UNCHANGED <<joins, usedInvitations, joined>>
    BY <1>3 DEF Revoke
  <2>2. \A k : Holders(k)' = Holders(k)
    BY <2>1 DEF Holders
  <2>3. \A k : k # i.id => Pending(k)' = Pending(k)
    BY <2>1 DEF Pending
  <2>4. Pending(i.id)' \subseteq Pending(i.id)
    BY <2>1 DEF Pending
  <2>5. contested \subseteq contested' /\ (i.id \notin contested' => Holders(i.id) = {})
    BY <2>1, Uncontested DEF Holders
  <2>6. Admissions'
    BY <2>1, <2>2, <2>3, <2>4, <2>5, AdmissionsStay DEF Admissions
  <2> QED BY <2>1, <2>6
<1>4. ASSUME NEW i \in invitations, invitations' = Marked(i.id, "expired"), Contest(i.id, {}),
             UNCHANGED <<joins, usedInvitations, joined>>
      PROVE  Admissions'
  <2>1. \A k : Holders(k)' = Holders(k)
    BY <1>4 DEF Holders
  <2>2. /\ Pending(i.id)' = {}
        /\ \A k : k # i.id => Pending(k)' = Pending(k)
    BY <1>4, MarkedPending
  <2>3. contested \subseteq contested' /\ (i.id \notin contested' => Holders(i.id) = {})
    BY <1>4, Uncontested DEF Holders
  <2> QED BY <1>4, <2>1, <2>2, <2>3, AdmissionsStay DEF Admissions
<1>5. CASE ExpireOnValidate
  <2>1. Admissions' /\ joined' = joined
    BY <1>4, <1>5 DEF ExpireOnValidate
  <2> QED BY <2>1
<1>6. ASSUME NEW kind \in {"accept", "signup"}, NEW user \in User,
             NEW email \in Email, NEW i \in invitations, FindInvitation(kind, user, email, i)
      PROVE  Admissions' /\ joined' = joined
  <2>1. UNCHANGED <<usedInvitations, joined>>
    BY <1>6, Finding
  <2>2. CASE joins' = joins /\ invitations' = Marked(i.id, "expired") /\ Contest(i.id, {})
    BY <1>4, <2>1, <2>2
  <2>3. CASE /\ UNCHANGED <<invitations, contested>>
             /\ \E j \in Join : joins' = joins \cup {j} /\ j.invite = i
    <3>1. PICK j : joins' = joins \cup {j} /\ j.invite = i
      BY <2>3
    <3>2. i \in Pending(i.id) /\ i.id \in usedInvitations
      BY <1>6, Finding DEF Pending, MembershipTypeOK
    <3>3. \A k : Pending(k)' = Pending(k)
      BY <2>3 DEF Pending
    <3>4. \A k : Holders(k)' = IF k = i.id THEN Holders(k) \cup {j} ELSE Holders(k)
      BY <3>1 DEF Holders
    <3>5. \A k \in joins' : k.invite.id \in usedInvitations
      BY <3>1, <3>2 DEF Admissions
    <3> QED BY <2>1, <2>3, <3>2, <3>3, <3>4, <3>5, AdmissionsStay DEF Admissions
  <2> QED BY <1>6, <2>2, <2>3, Finding
<1>7. CASE Accept
  <2>1. PICK t \in tokens, i \in invitations : FindInvitation("accept", t.user, i.email, i)
    BY <1>7 DEF Accept
  <2>2. t.user \in User /\ i.email \in Email
    BY DEF MembershipTypeOK, Token, InvitationDoc
  <2>3. Admissions' /\ joined' = joined
    BY <1>6, <2>1, <2>2
  <2> QED BY <2>3
<1>8. CASE SignupInvited
  <2>1. PICK i \in invitations, id \in User \ usedUsers : FindInvitation("signup", id, i.email, i)
    BY <1>8 DEF SignupInvited
  <2>2. i.email \in Email
    BY DEF MembershipTypeOK, InvitationDoc
  <2>3. Admissions' /\ joined' = joined
    BY <1>6, <2>1, <2>2
  <2> QED BY <2>3
<1>9. CASE CheckEmail
  <2>1. PICK f \in joins : /\ f.at = "user"
                           /\ \/ joins' = joins \ {f}
                              \/ joins' = (joins \ {f}) \cup {[f EXCEPT !.at = "write"]}
                           /\ UNCHANGED <<invitations, usedInvitations, joined, contested>>
    BY <1>9 DEF CheckEmail
  <2> DEFINE g == [f EXCEPT !.at = "write"]
  <2>2. g.invite = f.invite /\ g.at = "write"
    BY DEF MembershipTypeOK, Join
  <2>3. joins' = joins \ {f} \/ joins' = (joins \ {f}) \cup {g}
    BY <2>1
  <2> HIDE DEF g
  <2>4. \A k : Pending(k)' = Pending(k)
    BY <2>1 DEF Pending
  <2>5. \A k : \A j \in Holders(k)' : j \in Holders(k) \/ (j = g /\ f \in Holders(k))
    BY <2>2, <2>3 DEF Holders
  <2>6. \A k : \A j \in Holders(k) : j.at = "mark" => j \in Holders(k)'
    BY <2>1, <2>3 DEF Holders
  <2>7. \A j \in joins' : j.invite.id \in usedInvitations
    BY <2>2, <2>3 DEF Admissions
  <2>8. ASSUME NEW i \in Invitation \ contested
        PROVE  /\ Pending(i) = {} => Holders(i)' \subseteq Holders(i)
               /\ \A j \in Holders(i)' : j.at # "mark" => Pending(i)' # {}
    <3>1. \A j \in Holders(i) : j.at # "mark" => Pending(i) # {}
      BY DEF Admissions
    <3>2. f \in Holders(i) => Pending(i) # {}
      BY <2>1, <3>1
    <3> QED BY <2>4, <2>5, <3>1, <3>2
  <2>9. Admissions'
    BY <2>1, <2>4, <2>6, <2>7, <2>8, AdmissionsStay
  <2> QED BY <2>1, <2>9
<1>10. CASE MoveUser
  <2>1. PICK f \in joins : f.at = "write" /\ Admit(f) /\ UNCHANGED <<invitations, usedInvitations>>
    BY <1>10 DEF MoveUser
  <2> QED BY <2>1, Admitted
<1>11. ASSUME NEW f \in joins, f.at # "mark", joins' = joins \ {f},
              UNCHANGED <<invitations, usedInvitations, joined, contested>>
       PROVE  Admissions'
  <2>1. \A k : Pending(k)' = Pending(k) /\ Holders(k)' = Holders(k) \ {f}
    BY <1>11 DEF Pending, Holders
  <2>2. \A j \in joins' : j.invite.id \in usedInvitations
    BY <1>11 DEF Admissions
  <2> QED BY <1>11, <2>1, <2>2, AdmissionsStay DEF Admissions
<1>12. CASE CreateInvited
  <2>1. PICK f \in joins :
           /\ f.at = "write"
           /\ \/ joins' = joins \ {f} /\ UNCHANGED <<joined, contested>>
              \/ Admit(f)
           /\ UNCHANGED <<invitations, usedInvitations>>
    BY <1>12 DEF CreateInvited
  <2> QED BY <1>11, <2>1, Admitted
<1>13. CASE MarkAccepted
  <2>1. PICK f \in joins :
           /\ f.at = "mark"
           /\ invitations' = Marked(f.invite.id, "accepted")
           /\ joins' = joins \ {f}
           /\ Contest(f.invite.id, {f})
           /\ UNCHANGED <<usedInvitations, joined>>
    BY <1>13 DEF MarkAccepted
  <2> DEFINE id == f.invite.id
  <2>2. Pending(id)' = {} /\ \A k : k # id => Pending(k)' = Pending(k)
    BY <2>1, MarkedPending
  <2>3. \A k : k # id => Holders(k)' = Holders(k)
    BY <2>1 DEF Holders
  <2>4. contested \subseteq contested' /\ (id \notin contested' => Holders(id)' = {})
    BY <2>1, Uncontested DEF Holders
  <2>5. ASSUME NEW i \in Invitation \ contested'
        PROVE  /\ joined'[i] <= 1
               /\ joined'[i] = 1 => UsedUp(i)'
               /\ \A j \in Holders(i)' : j.at # "mark" => Pending(i)' # {}
    BY <2>1, <2>2, <2>3, <2>4, <2>5 DEF Admissions, UsedUp
  <2> QED BY <2>1, <2>5 DEF Admissions
<1>14. CASE HandlerFails
  <2>1. \/ UNCHANGED <<joins, contested>>
        \/ \E f \in joins : /\ joins' = joins \ {f}
                            /\ contested' = IF f.at = "mark" THEN contested \cup {f.invite.id}
                                            ELSE contested
    BY <1>14 DEF HandlerFails
  <2>2. UNCHANGED <<invitations, usedInvitations, joined>>
    BY <1>14 DEF HandlerFails
  <2>3. CASE UNCHANGED <<joins, contested>>
    BY <1>1, <2>2, <2>3
  <2>4. ASSUME NEW f \in joins, f.at = "mark", joins' = joins \ {f},
               contested' = contested \cup {f.invite.id}
        PROVE  Admissions'
    <3>1. \A k : Pending(k)' = Pending(k) /\ Holders(k)' \subseteq Holders(k)
      BY <2>2, <2>4 DEF Pending, Holders
    <3>2. \A k : k # f.invite.id => Holders(k)' = Holders(k)
      BY <2>4 DEF Holders
    <3>3. \A j \in joins' : j.invite.id \in usedInvitations
      BY <2>4 DEF Admissions
    <3> QED BY <2>2, <2>4, <3>1, <3>2, <3>3, AdmissionsStay DEF Admissions
  <2> QED BY <1>11, <2>1, <2>2, <2>3, <2>4
<1> QED BY <1>1, <1>2, <1>3, <1>5, <1>7, <1>8, <1>9, <1>10, <1>12, <1>13, <1>14
        DEF MembershipNext, membershipVars, ChangeRole, RemoveUser, ReadTarget, CountAdmins,
            WriteRemoval, StartInvite, CheckMember, CheckPending, Lapse, Found, InsertOrg,
            InsertFounder, Login

LEMMA MembershipStarts == MembershipInit => MembershipInv
<1> SUFFICES ASSUME MembershipInit PROVE MembershipInv
  OBVIOUS
<1> USE MembershipAssumption, FoundersAssumption DEF MembershipInit
<1>1. MembershipTypeOK
  BY DEF MembershipTypeOK, TokenOf, Token, UserDoc
<1>2. Housed
  BY DEF Housed, Opened, TokenOf
<1>3. Fresh /\ Serial
  BY DEF Fresh, Signing, Serial
<1>4. AdminKept
  BY DEF AdminKept, Admins, Members
<1>5. Admissions
  BY DEF Admissions, Holders
<1> QED BY <1>1, <1>2, <1>3, <1>4, <1>5 DEF MembershipInv

LEMMA MembershipKept ==
    ASSUME MembershipInv, [MembershipNext]_membershipVars
    PROVE  MembershipInv'
  BY TypeKept, HousedKept, FreshKept, SerialKept, AdminKeptKept, AdmissionsKept DEF MembershipInv

\* The invariant holds in every reachable state.
THEOREM MembershipInvariant == MembershipSpec => []MembershipInv
<1> QED BY MembershipStarts, MembershipKept, PTL DEF MembershipSpec

\* Members, invitations and tokens keep their types, and ids and addresses stay unique,
\* although every handler reads before it writes.
THEOREM MembershipTyped == MembershipSpec => []MembershipTypeOK
<1>1. MembershipInv => MembershipTypeOK
  BY DEF MembershipInv
<1> QED BY MembershipInvariant, <1>1, PTL

\* An open organization keeps an admin (users.ts), however the requests that demote,
\* delete and move its members interleave, but for the named exceptions.
THEOREM AnAdminRemains == MembershipSpec => []AdminKept
<1>1. MembershipInv => AdminKept
  BY DEF MembershipInv
<1> QED BY MembershipInvariant, <1>1, PTL

\* An invitation admits one user once (invitations.ts, auth.ts), unless two handlers
\* held it together or one failed before it marked it.
THEOREM OneAdmission == MembershipSpec => []InvitationAdmitsOnce
<1>1. MembershipInv => InvitationAdmitsOnce
  BY DEF MembershipInv, Admissions, InvitationAdmitsOnce
<1> QED BY MembershipInvariant, <1>1, PTL

\* Whoever is admitted is admitted while the invitation is pending, or two handlers
\* held it.
THEOREM AdmissionsWhilePending == MembershipSpec => AdmittedWhilePending
<1>1. MembershipInv /\ [MembershipNext]_membershipVars =>
        [\A i \in Invitation : joined'[i] # joined[i] =>
            i \in contested \/ \E d \in invitations : d.id = i /\ d.status = "pending"
        ]_membershipVars
  BY AdmissionsKept DEF MembershipInv, Pending
<1> QED BY MembershipInvariant, <1>1, PTL DEF MembershipSpec, AdmittedWhilePending

=============================================================================
