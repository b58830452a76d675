---------------------------- MODULE AccessProofs ----------------------------
(***************************************************************************)
(* Proofs about who may do what.                                           *)
(*                                                                         *)
(* Membership, for every number of users, requests and invitations.        *)
(* AuthSession, the revocation of session tokens, for any number of pairs  *)
(* and of concurrent requests and for all lifetimes.                       *)
(***************************************************************************)
EXTENDS Membership, AuthSession, SequenceTheorems, TLAPS

---------------------------------------------------------------------------
(* Membership                                                              *)

Status == {"pending", "accepted", "revoked", "expired"}
Sent == [status : Status, email : User, role : InvitedRole]
Managing == [kind : {"manage"}, user : User, row : 1 .. MaxRow, role : Manager]
Creating == [kind : {"create"}, email : User]
Mailing == [kind : {"mail"}, invite : Invite]
Accepting == [kind : {"accept"}, user : User, invite : Invite]

\* A request that creates an invitation holds the household row, so its
\* addressee has not joined since the check; an accepting request works on an
\* invitation to its own user.
RequestInv ==
    \A r \in Request :
        /\ req[r].kind = "create" => role[req[r].email] = "none"
        /\ req[r].kind = "mail" => invite[req[r].invite] \in Sent
        /\ req[r].kind = "accept" => /\ invite[req[r].invite] \in Sent
                                     /\ invite[req[r].invite].email = req[r].user

\* The inductive invariant.
IInv == TypeOK /\ RequestInv /\ PendingOnlyForOutsiders /\ SoleOwner

---------------------------------------------------------------------------
\* The kind of a request tells which record it is.
LEMMA RequestShapes ==
    ASSUME TypeOK, NEW r \in Request
    PROVE  /\ req[r].kind = "manage" => req[r] \in Managing
           /\ req[r].kind = "create" => req[r] \in Creating
           /\ req[r].kind = "mail" => req[r] \in Mailing
           /\ req[r].kind = "accept" => req[r] \in Accepting
           /\ Idle.kind = "idle"
  <1>1. req[r] \in {Idle} \cup Managing \cup Creating \cup Mailing \cup Accepting
    BY DEF TypeOK, Managing, Creating, Mailing, Accepting
  <1>2. Idle.kind = "idle"
    BY DEF Idle
  <1> QED
    BY <1>1, <1>2 DEF Managing, Creating, Mailing, Accepting

\* An invitation is unused or has been sent.
LEMMA InviteShapes ==
    ASSUME TypeOK, NEW i \in Invite
    PROVE  /\ invite[i] = Blank \/ invite[i] \in Sent
           /\ Blank.status = "unused"
           /\ invite[i].status \in Status => invite[i] \in Sent
           /\ invite[i] \in Sent => /\ invite[i].status \in Status
                                    /\ invite[i].email \in User
                                    /\ invite[i].role \in InvitedRole
                                    /\ \A s \in Status : [invite[i] EXCEPT !.status = s] \in Sent
  <1>1. invite[i] \in {Blank} \cup Sent
    BY DEF TypeOK, Sent, Status
  <1>2. Blank.status = "unused"
    BY DEF Blank
  <1>3. invite[i] \in Sent => /\ invite[i].status \in Status
                              /\ invite[i].email \in User
                              /\ invite[i].role \in InvitedRole
                              /\ \A s \in Status : [invite[i] EXCEPT !.status = s] \in Sent
    BY DEF Sent
  <1> QED
    BY <1>1, <1>2, <1>3 DEF Status

\* TypeOK with its sets named.
LEMMA TypeNamed ==
    TypeOK <=> /\ role \in [User -> Role \cup {"none"}]
               /\ row \in [User -> 1 .. MaxRow]
               /\ invite \in [Invite -> {Blank} \cup Sent]
               /\ lapsed \subseteq Invite
               /\ req \in [Request -> {Idle} \cup Managing \cup Creating \cup Mailing \cup Accepting]
               /\ stale \in BOOLEAN
  BY DEF TypeOK, Sent, Status, Managing, Creating, Mailing, Accepting

\* The initial states satisfy the inductive invariant.
LEMMA InitIInv == Init => IInv
  <1> SUFFICES ASSUME Init PROVE IInv
    OBVIOUS
  <1> PICK founder \in User :
         role = [u \in User |-> IF u = founder THEN "owner" ELSE "none"]
    BY DEF Init
  <1>1. TypeOK
    <2>1. role \in [User -> Role \cup {"none"}] /\ row \in [User -> 1 .. MaxRow]
      BY MaxRowAssumption DEF Init, Role
    <2>2. /\ invite \in [Invite -> {Blank} \cup Sent]
          /\ req \in [Request -> {Idle} \cup Managing \cup Creating \cup Mailing \cup Accepting]
      BY DEF Init
    <2>3. lapsed \subseteq Invite /\ stale \in BOOLEAN
      BY DEF Init
    <2> QED
      BY <2>1, <2>2, <2>3, TypeNamed
  <1>2. RequestInv
    BY DEF Init, RequestInv, Idle
  <1>3. PendingOnlyForOutsiders
    BY DEF Init, PendingOnlyForOutsiders, Pending, Blank
  <1>4. SoleOwner
    BY DEF Init, SoleOwner, Owners
  <1> QED
    BY <1>1, <1>2, <1>3, <1>4 DEF IInv

\* What the two handlers that change or delete member rows do to them: nobody
\* becomes a member, and an undisturbed hand-over leaves one owner.
LEMMA ManageStep ==
    ASSUME IInv, NEW r \in Request, NEW t \in User,
           (\E next \in Role : PatchMemberRole(r, t, next)) \/ RemoveMember(r, t)
    PROVE  /\ role' \in [User -> Role \cup {"none"}]
           /\ \A u \in User : role[u] = "none" => role'[u] = "none"
           /\ SoleOwner'
  <1> DEFINE a == req[r].user
  <1> USE DEF IInv
  <1>1. role \in [User -> Role \cup {"none"}] /\ req[r] \in Managing
    BY RequestShapes, TypeNamed DEF PatchMemberRole, RemoveMember
  <1>2. a \in User /\ req[r].role \in Manager
    BY <1>1 DEF Managing
  <1>3. role[t] # "none" /\ role[a] # "none"
    BY DEF PatchMemberRole, RemoveMember, ActorPresent
  <1>4. stale' = (stale \/ ActorStale(r))
    BY DEF PatchMemberRole, RemoveMember
  <1>5. ASSUME ~ stale' PROVE /\ \A u \in User : Seen(r, u) = role[u]
                              /\ \E o \in User : \A u \in User : role[u] = "owner" <=> u = o
    <2>1. ~ stale /\ role[a] = req[r].role
      BY <1>4, <1>5 DEF ActorStale
    <2>2. \E o \in User : Owners = {o}
      BY <2>1 DEF SoleOwner
    <2> QED
      BY <2>1, <2>2 DEF Seen, Owners
  <1>6. ASSUME NEW next \in Role, PatchMemberRole(r, t, next)
        PROVE  /\ role' \in [User -> Role \cup {"none"}]
               /\ \A u \in User : role[u] = "none" => role'[u] = "none"
               /\ SoleOwner'
    <2> DEFINE promotes == next = "owner" /\ Seen(r, t) # "owner" /\ a # t
    <2>1. /\ role' = [u \in User |->
                      IF u = t /\ Seen(r, t) # next THEN next
                      ELSE IF u = a /\ promotes THEN "co_owner"
                      ELSE role[u]]
          /\ (Seen(r, t) = "owner" \/ next = "owner") => req[r].role = "owner"
          /\ (Seen(r, t) = "owner" /\ next # "owner") => OtherOwner(r, t)
      BY <1>6 DEF PatchMemberRole
    <2>2. role' \in [User -> Role \cup {"none"}]
      BY <1>1, <2>1 DEF Role
    <2>3. \A u \in User : role[u] = "none" => role'[u] = "none"
      BY <1>2, <1>3, <2>1
    <2>4. ASSUME ~ stale' PROVE \E o \in User : Owners' = {o}
      <3>1. PICK o \in User : \A u \in User : role[u] = "owner" <=> u = o
        BY <1>5, <2>4
      <3>2. \A u \in User : Seen(r, u) = role[u]
        BY <1>5, <2>4
      <3>3. req[r].role = role[a]
        BY <1>2, <3>2 DEF Seen
      <3>4. ~ (role[t] = "owner" /\ next # "owner")
        BY <2>1, <3>1, <3>2 DEF OtherOwner
      <3>5. CASE next # "owner"
        <4>1. \A u \in User : role'[u] = "owner" <=> u = o
          BY <2>1, <3>1, <3>2, <3>4, <3>5
        <4> QED
          BY <4>1 DEF Owners
      <3>6. CASE next = "owner"
        <4>1. role[a] = "owner" /\ a = o
          BY <1>2, <2>1, <3>1, <3>3, <3>6
        <4>2. \A u \in User : role'[u] = "owner" <=> u = t
          BY <2>1, <3>1, <3>2, <3>6, <4>1
        <4> QED
          BY <4>2 DEF Owners
      <3> QED
        BY <3>5, <3>6
    <2> QED
      BY <2>2, <2>3, <2>4 DEF SoleOwner
  <1>7. ASSUME RemoveMember(r, t)
        PROVE  /\ role' \in [User -> Role \cup {"none"}]
               /\ \A u \in User : role[u] = "none" => role'[u] = "none"
               /\ SoleOwner'
    <2>1. /\ role' = [role EXCEPT ![t] = "none"]
          /\ Seen(r, t) = "owner" => OtherOwner(r, t)
      BY <1>7 DEF RemoveMember
    <2>2. /\ role' \in [User -> Role \cup {"none"}]
          /\ \A u \in User : role[u] = "none" => role'[u] = "none"
      BY <1>1, <2>1
    <2>3. ASSUME ~ stale' PROVE \E o \in User : Owners' = {o}
      <3>1. PICK o \in User : \A u \in User : role[u] = "owner" <=> u = o
        BY <1>5, <2>3
      <3>2. role[t] # "owner"
        BY <1>5, <2>1, <2>3, <3>1 DEF OtherOwner
      <3>3. \A u \in User : role'[u] = "owner" <=> u = o
        BY <1>1, <2>1, <3>1, <3>2
      <3> QED
        BY <3>3 DEF Owners
    <2> QED
      BY <2>2, <2>3 DEF SoleOwner
  <1> QED
    BY <1>6, <1>7

\* A step that leaves the rows and the requests that matter alone preserves
\* the parts of the invariant about them.
LEMMA SameMembers ==
    ASSUME IInv, UNCHANGED role, stale' = stale PROVE SoleOwner'
  BY DEF IInv, SoleOwner, Owners

\* Every step preserves the types.
LEMMA TypeStep == IInv /\ [Next]_vars => TypeOK'
  <1> SUFFICES ASSUME IInv, [Next]_vars PROVE TypeOK'
    OBVIOUS
  <1> DEFINE Req == {Idle} \cup Managing \cup Creating \cup Mailing \cup Accepting
  <1>0. /\ role \in [User -> Role \cup {"none"}]
        /\ row \in [User -> 1 .. MaxRow]
        /\ invite \in [Invite -> {Blank} \cup Sent]
        /\ lapsed \subseteq Invite
        /\ req \in [Request -> Req]
        /\ stale \in BOOLEAN
    BY TypeNamed DEF IInv
  <1> SUFFICES /\ role' \in [User -> Role \cup {"none"}]
               /\ row' \in [User -> 1 .. MaxRow]
               /\ invite' \in [Invite -> {Blank} \cup Sent]
               /\ lapsed' \subseteq Invite
               /\ req' \in [Request -> Req]
               /\ stale' \in BOOLEAN
    BY DEF TypeOK, Sent, Status, Managing, Creating, Mailing, Accepting
  <1>i. ASSUME NEW i \in Invite, NEW s \in Status, invite[i] \in Sent
        PROVE  [invite EXCEPT ![i].status = s] \in [Invite -> {Blank} \cup Sent]
    BY <1>0, <1>i, InviteShapes DEF IInv
  <1>1. ASSUME NEW r \in Request, NEW u \in User, Authorize(r, u)
        PROVE  req' \in [Request -> Req] /\ UNCHANGED <<role, row, invite, lapsed, stale>>
    <2>1. [kind |-> "manage", user |-> u, row |-> row[u], role |-> role[u]] \in Managing
      BY <1>0, <1>1 DEF Authorize, Managing
    <2> QED
      BY <1>0, <1>1, <2>1 DEF Authorize
  <1>2. ASSUME NEW r \in Request, NEW t \in User,
               (\E next \in Role : PatchMemberRole(r, t, next)) \/ RemoveMember(r, t)
        PROVE  /\ role' \in [User -> Role \cup {"none"}] /\ req' \in [Request -> Req]
               /\ stale' \in BOOLEAN /\ UNCHANGED <<row, invite, lapsed>>
    <2>1. role' \in [User -> Role \cup {"none"}]
      BY <1>2, ManageStep
    <2>2. stale' = (stale \/ ActorStale(r))
      BY <1>2 DEF PatchMemberRole, RemoveMember
    <2> QED
      BY <1>0, <1>2, <2>1, <2>2 DEF PatchMemberRole, RemoveMember, End, ActorStale
  <1>3. ASSUME NEW r \in Request, NEW v \in User, CheckInvite(r, v)
        PROVE  req' \in [Request -> Req] /\ UNCHANGED <<role, row, invite, lapsed, stale>>
    <2>1. [kind |-> "create", email |-> v] \in Creating
      BY DEF Creating
    <2> QED
      BY <1>0, <1>3, <2>1 DEF CheckInvite
  <1>4. ASSUME NEW r \in Request, NEW i \in Invite, NEW rl \in InvitedRole, CreateInvite(r, i, rl)
        PROVE  /\ invite' \in [Invite -> {Blank} \cup Sent] /\ req' \in [Request -> Req]
               /\ UNCHANGED <<role, row, lapsed, stale>>
    <2>1. req[r] \in Creating
      BY <1>4, RequestShapes DEF IInv, CreateInvite
    <2>2. [status |-> "pending", email |-> req[r].email, role |-> rl] \in Sent
      BY <2>1 DEF Creating, Sent, Status
    <2>3. \A j \in Invite : invite[j].status = "pending" =>
             [invite[j] EXCEPT !.status = "revoked"] \in Sent
      BY InviteShapes DEF IInv, Status
    <2>4. [kind |-> "mail", invite |-> i] \in Mailing
      BY DEF Mailing
    <2> QED
      BY <1>0, <1>4, <2>2, <2>3, <2>4 DEF CreateInvite
  <1>5. ASSUME NEW r \in Request, MailFails(r)
        PROVE  /\ invite' \in [Invite -> {Blank} \cup Sent] /\ req' \in [Request -> Req]
               /\ UNCHANGED <<role, row, lapsed, stale>>
    <2> DEFINE i == req[r].invite
               s == IF invite[i].status = "pending" THEN "revoked" ELSE invite[i].status
    <2>1. i \in Invite /\ invite[i] \in Sent
      BY <1>5, RequestShapes DEF IInv, MailFails, Mailing, RequestInv
    <2>2. s \in Status
      BY <2>1, InviteShapes DEF IInv, Status
    <2>3. invite' = [invite EXCEPT ![i].status = s]
      BY <1>0, <1>5, <2>1 DEF MailFails
    <2> QED
      BY <1>0, <1>5, <1>i, <2>1, <2>2, <2>3 DEF MailFails, End
  <1>6. ASSUME NEW r \in Request, NEW i \in Invite, RevokeInvite(r, i) \/ AcceptExpired(r, i)
        PROVE  /\ invite' \in [Invite -> {Blank} \cup Sent] /\ req' \in [Request -> Req]
               /\ UNCHANGED <<role, row, lapsed, stale>>
    <2>1. invite[i] \in Sent
      BY <1>6, InviteShapes DEF IInv, RevokeInvite, AcceptExpired, Status
    <2>2. "revoked" \in Status /\ "expired" \in Status
      BY DEF Status
    <2> QED
      BY <1>0, <1>6, <1>i, <2>1, <2>2 DEF RevokeInvite, AcceptExpired, End
  <1>7. ASSUME NEW r \in Request, NEW i \in Invite, AcceptLoad(r, i)
        PROVE  req' \in [Request -> Req] /\ UNCHANGED <<role, row, invite, lapsed, stale>>
    <2>1. invite[i] \in Sent
      BY <1>7, InviteShapes DEF IInv, AcceptLoad, Status
    <2>2. [kind |-> "accept", user |-> invite[i].email, invite |-> i] \in Accepting
      BY <2>1 DEF Sent, Accepting
    <2> QED
      BY <1>0, <1>7, <2>2 DEF AcceptLoad
  <1>8. ASSUME NEW r \in Request, Abandon(r)
        PROVE  req' \in [Request -> Req] /\ UNCHANGED <<role, row, invite, lapsed, stale>>
    BY <1>0, <1>8 DEF Abandon, End
  <1>9. ASSUME NEW r \in Request, AcceptJoin(r)
        PROVE  /\ role' \in [User -> Role \cup {"none"}] /\ row' \in [User -> 1 .. MaxRow]
               /\ invite' \in [Invite -> {Blank} \cup Sent] /\ req' \in [Request -> Req]
               /\ UNCHANGED <<lapsed, stale>>
    <2> DEFINE i == req[r].invite
    <2>1. i \in Invite /\ invite[i] \in Sent /\ req[r].user \in User
      BY <1>9, RequestShapes DEF IInv, AcceptJoin, Accepting, RequestInv
    <2>2. invite[i].role \in Role
      BY <2>1 DEF Sent, InvitedRole
    <2>3. "accepted" \in Status
      BY DEF Status
    <2>4. row' \in [User -> 1 .. MaxRow]
      BY <1>0, <1>9, <2>1, MaxRowAssumption DEF AcceptJoin
    <2> QED
      BY <1>0, <1>9, <1>i, <2>1, <2>2, <2>3, <2>4 DEF AcceptJoin, End
  <1>10. ASSUME NEW i \in Invite, Lapse(i)
         PROVE  lapsed' \subseteq Invite /\ UNCHANGED <<role, row, invite, req, stale>>
    BY <1>0, <1>10 DEF Lapse
  <1>11. CASE UNCHANGED vars
    BY <1>0, <1>11 DEF vars
  <1> HIDE DEF Req
  <1> QED
    BY <1>0, <1>1, <1>2, <1>3, <1>4, <1>5, <1>6, <1>7, <1>8, <1>9, <1>10, <1>11 DEF Next

\* What any step does to invitations: unused ones may become pending, pending
\* ones may be settled, nothing else changes, and addresses and roles stay.
LEMMA InviteStep ==
    ASSUME IInv, [Next]_vars, NEW i \in Invite
    PROVE  /\ invite[i] \in Sent => /\ invite'[i] \in Sent
                                    /\ invite'[i].email = invite[i].email
                                    /\ invite'[i].role = invite[i].role
           /\ invite[i].status \in Status \ {"pending"} => invite'[i] = invite[i]
  <1>1. TypeOK /\ invite \in [Invite -> {Blank} \cup Sent]
    BY TypeNamed DEF IInv
  <1>2. ASSUME NEW s \in Status, invite[i] \in Sent, invite'[i] = [invite[i] EXCEPT !.status = s],
               invite[i].status = "pending"
        PROVE  /\ invite'[i] \in Sent
               /\ invite'[i].email = invite[i].email /\ invite'[i].role = invite[i].role
    BY <1>2 DEF Sent
  <1>3. ASSUME NEW r \in Request, NEW j \in Invite, NEW rl \in InvitedRole, CreateInvite(r, j, rl)
        PROVE  \/ invite'[i] = invite[i]
               \/ invite[i] = Blank
               \/ invite[i].status = "pending" /\ invite'[i] = [invite[i] EXCEPT !.status = "revoked"]
    BY <1>1, <1>3 DEF CreateInvite
  <1>4. ASSUME NEW r \in Request,
               \/ MailFails(r) \/ AcceptJoin(r)
               \/ \E j \in Invite : RevokeInvite(r, j) \/ AcceptExpired(r, j)
        PROVE  \/ invite'[i] = invite[i]
               \/ \E s \in Status : /\ invite[i].status = "pending"
                                    /\ invite'[i] = [invite[i] EXCEPT !.status = s]
    <2>1. CASE MailFails(r)
      <3>1. req[r].invite \in Invite /\ invite[req[r].invite] \in Sent
        BY <1>1, <2>1, RequestShapes DEF MailFails, Mailing, IInv, RequestInv
      <3>2. CASE invite[req[r].invite].status = "pending"
        <4>1. invite' = [invite EXCEPT ![req[r].invite].status = "revoked"]
          BY <2>1, <3>1, <3>2, <1>1 DEF MailFails
        <4> QED
          BY <1>1, <3>1, <3>2, <4>1 DEF Status
      <3>3. CASE invite[req[r].invite].status # "pending"
        <4>1. invite' = [invite EXCEPT ![req[r].invite].status = invite[req[r].invite].status]
          BY <2>1, <3>1, <3>3, <1>1 DEF MailFails
        <4>2. [invite[req[r].invite] EXCEPT !.status = invite[req[r].invite].status]
                 = invite[req[r].invite]
          BY <3>1 DEF Sent
        <4> QED
          BY <1>1, <3>1, <4>1, <4>2
      <3> QED
        BY <3>2, <3>3
    <2>2. CASE AcceptJoin(r)
      <3>1. req[r].invite \in Invite
        BY <1>1, <2>2, RequestShapes DEF AcceptJoin, Accepting
      <3> QED
        BY <1>1, <2>2, <3>1 DEF AcceptJoin, Status
    <2>3. ASSUME NEW j \in Invite, RevokeInvite(r, j) \/ AcceptExpired(r, j)
          PROVE  \/ invite'[i] = invite[i]
                 \/ \E s \in Status : /\ invite[i].status = "pending"
                                      /\ invite'[i] = [invite[i] EXCEPT !.status = s]
      BY <1>1, <2>3 DEF RevokeInvite, AcceptExpired, Status
    <2> QED
      BY <1>4, <2>1, <2>2, <2>3
  <1>5. \/ invite'[i] = invite[i]
        \/ invite[i] = Blank
        \/ \E s \in Status : /\ invite[i].status = "pending"
                             /\ invite'[i] = [invite[i] EXCEPT !.status = s]
    <2>1. CASE UNCHANGED invite
      BY <2>1
    <2>2. "revoked" \in Status
      BY DEF Status
    <2> QED
      BY <1>3, <1>4, <2>1, <2>2
         DEF Next, vars, Authorize, RemoveMember, PatchMemberRole, CheckInvite, Abandon,
             AcceptLoad, Lapse
  <1>6. Blank.status = "unused" /\ Blank \notin Sent
    BY DEF Blank, Sent, Status
  <1> QED
    BY <1>1, <1>2, <1>5, <1>6, InviteShapes DEF Status

\* Only an acceptance makes somebody a member, and no invitation is being
\* created at that moment.
LEMMA JoinStep ==
    ASSUME IInv, [Next]_vars, NEW u \in User, role[u] = "none", role'[u] # "none"
    PROVE  \E r \in Request : AcceptJoin(r) /\ req[r].user = u
  <1>1. role \in [User -> Role \cup {"none"}]
    BY TypeNamed DEF IInv
  <1>2. ~ UNCHANGED role
    OBVIOUS
  <1>3. ASSUME NEW r \in Request, NEW t \in User,
               (\E next \in Role : PatchMemberRole(r, t, next)) \/ RemoveMember(r, t)
        PROVE  FALSE
    BY <1>3, ManageStep
  <1>4. \E r \in Request : AcceptJoin(r)
    BY <1>2, <1>3
       DEF Next, vars, Authorize, CheckInvite, CreateInvite, RevokeInvite, AcceptExpired,
           AcceptLoad, Abandon, MailFails, Lapse
  <1> QED
    BY <1>1, <1>4 DEF AcceptJoin

\* How a request moves: it is left alone, ends, or takes one of four steps.
LEMMA RequestMoves ==
    ASSUME IInv, [Next]_vars, NEW r \in Request
    PROVE  \/ req'[r] = req[r]
           \/ req'[r] = Idle
           \/ \E u \in User : Authorize(r, u) \/ CheckInvite(r, u)
           \/ \E i \in Invite, rl \in InvitedRole : CreateInvite(r, i, rl)
           \/ \E i \in Invite : AcceptLoad(r, i)
  <1>1. req \in [Request -> {Idle} \cup Managing \cup Creating \cup Mailing \cup Accepting]
    BY TypeNamed DEF IInv
  <1>2. ASSUME NEW q \in Request, End(q) PROVE req'[r] = req[r] \/ req'[r] = Idle
    BY <1>1, <1>2 DEF End
  <1>3. ASSUME NEW q \in Request, NEW u \in User, Authorize(q, u) \/ CheckInvite(q, u), q # r
        PROVE  req'[r] = req[r]
    BY <1>1, <1>3 DEF Authorize, CheckInvite
  <1>4. ASSUME NEW q \in Request, NEW i \in Invite, AcceptLoad(q, i), q # r
        PROVE  req'[r] = req[r]
    BY <1>1, <1>4 DEF AcceptLoad
  <1>5. ASSUME NEW q \in Request, NEW i \in Invite, NEW rl \in InvitedRole, CreateInvite(q, i, rl), q # r
        PROVE  req'[r] = req[r]
    BY <1>1, <1>5 DEF CreateInvite
  <1>6. ASSUME NEW q \in Request,
               \/ \E u \in User : RemoveMember(q, u)
               \/ \E u \in User, next \in Role : PatchMemberRole(q, u, next)
               \/ \E i \in Invite : RevokeInvite(q, i)
               \/ Abandon(q) \/ MailFails(q) \/ AcceptJoin(q)
        PROVE  End(q)
    BY <1>6 DEF RemoveMember, PatchMemberRole, RevokeInvite, Abandon, MailFails, AcceptJoin
  <1>7. ASSUME NEW q \in Request, NEW i \in Invite, AcceptExpired(q, i) PROVE req' = req
    BY <1>7 DEF AcceptExpired
  <1>8. ASSUME NEW i \in Invite, Lapse(i) PROVE req' = req
    BY <1>8 DEF Lapse
  <1>9. CASE UNCHANGED vars
    BY <1>9 DEF vars
  <1> QED
    BY <1>2, <1>3, <1>4, <1>5, <1>6, <1>7, <1>8, <1>9 DEF Next

\* Every step keeps the requests' loaded state justified.
LEMMA RequestStep == IInv /\ [Next]_vars => RequestInv'
  <1> SUFFICES ASSUME IInv, [Next]_vars, NEW r \in Request
               PROVE  /\ req'[r].kind = "create" => role'[req'[r].email] = "none"
                      /\ req'[r].kind = "mail" => invite'[req'[r].invite] \in Sent
                      /\ req'[r].kind = "accept" =>
                            /\ invite'[req'[r].invite] \in Sent
                            /\ invite'[req'[r].invite].email = req'[r].user
    BY DEF RequestInv
  <1>1. TypeOK /\ req \in [Request -> {Idle} \cup Managing \cup Creating \cup Mailing \cup Accepting]
    BY TypeNamed DEF IInv
  <1>2. CASE req'[r] = req[r]
    <2>1. ASSUME req[r].kind = "create" PROVE role'[req[r].email] = "none"
      <3>1. req[r].email \in User /\ role[req[r].email] = "none" /\ HouseholdLocked
        BY <1>1, <2>1, RequestShapes DEF IInv, RequestInv, Creating, HouseholdLocked
      <3> QED
        BY <3>1, JoinStep DEF AcceptJoin
    <2>2. ASSUME req[r].kind = "mail" \/ req[r].kind = "accept"
          PROVE  req[r].invite \in Invite /\ invite[req[r].invite] \in Sent
      BY <1>1, <2>2, RequestShapes DEF IInv, RequestInv, Mailing, Accepting
    <2>3. ASSUME req[r].kind = "mail" \/ req[r].kind = "accept"
          PROVE  /\ invite'[req[r].invite] \in Sent
                 /\ invite'[req[r].invite].email = invite[req[r].invite].email
      BY <2>2, <2>3, InviteStep
    <2> QED
      BY <1>2, <2>1, <2>3 DEF IInv, RequestInv
  <1>3. CASE req'[r] # req[r]
    <2>1. ASSUME req'[r].kind = "create" PROVE role'[req'[r].email] = "none"
      <3>1. ASSUME NEW v \in User, CheckInvite(r, v) PROVE role'[req'[r].email] = "none"
        BY <1>1, <3>1 DEF CheckInvite
      <3>2. \E v \in User : CheckInvite(r, v)
        BY <1>1, <1>3, <2>1, RequestMoves
           DEF Authorize, CheckInvite, CreateInvite, AcceptLoad, Idle
      <3> QED
        BY <3>1, <3>2
    <2>2. ASSUME req'[r].kind = "mail" PROVE invite'[req'[r].invite] \in Sent
      <3>1. ASSUME NEW i \in Invite, NEW rl \in InvitedRole, CreateInvite(r, i, rl)
            PROVE  invite'[req'[r].invite] \in Sent
        <4>1. req[r] \in Creating
          BY <1>1, <3>1, RequestShapes DEF CreateInvite
        <4>2. req'[r].invite = i
          BY <1>1, <3>1 DEF CreateInvite
        <4>3. invite'[i] = [status |-> "pending", email |-> req[r].email, role |-> rl]
          BY <3>1 DEF CreateInvite
        <4> QED
          BY <4>1, <4>2, <4>3 DEF Creating, Sent, Status
      <3>2. \E i \in Invite, rl \in InvitedRole : CreateInvite(r, i, rl)
        BY <1>1, <1>3, <2>2, RequestMoves
           DEF Authorize, CheckInvite, CreateInvite, AcceptLoad, Idle
      <3> QED
        BY <3>1, <3>2
    <2>3. ASSUME req'[r].kind = "accept"
          PROVE  /\ invite'[req'[r].invite] \in Sent
                 /\ invite'[req'[r].invite].email = req'[r].user
      <3>1. ASSUME NEW i \in Invite, AcceptLoad(r, i)
            PROVE  /\ invite'[req'[r].invite] \in Sent
                   /\ invite'[req'[r].invite].email = req'[r].user
        <4>1. invite[i] \in Sent
          BY <1>1, <3>1, InviteShapes DEF AcceptLoad, Status
        <4> QED
          BY <1>1, <3>1, <4>1 DEF AcceptLoad
      <3>2. \E i \in Invite : AcceptLoad(r, i)
        BY <1>1, <1>3, <2>3, RequestMoves
           DEF Authorize, CheckInvite, CreateInvite, AcceptLoad, Idle
      <3> QED
        BY <3>1, <3>2
    <2> QED
      BY <2>1, <2>2, <2>3
  <1> QED
    BY <1>2, <1>3

\* An invitation is pending because it was, or because it is created now.
LEMMA PendingMoves ==
    ASSUME IInv, [Next]_vars, NEW i \in Invite, invite'[i].status = "pending"
    PROVE  \/ invite[i].status = "pending"
           \/ \E r \in Request, rl \in InvitedRole : CreateInvite(r, i, rl)
  <1>1. TypeOK /\ invite \in [Invite -> {Blank} \cup Sent]
    BY TypeNamed DEF IInv
  <1>2. CASE invite[i] \in Sent
    BY <1>1, <1>2, InviteStep, InviteShapes DEF Status
  <1>3. CASE invite[i] = Blank
    <2>1. Blank.status = "unused" /\ Blank \notin Sent /\ invite'[i] # invite[i]
      BY <1>3 DEF Blank, Sent, Status
    <2>2. ASSUME NEW r \in Request,
                 \/ MailFails(r) \/ AcceptJoin(r)
                 \/ \E j \in Invite : RevokeInvite(r, j) \/ AcceptExpired(r, j)
          PROVE  FALSE
      <3>1. CASE MailFails(r)
        <4>1. req[r].invite \in Invite /\ invite[req[r].invite] \in Sent
          BY <1>1, <3>1, RequestShapes DEF MailFails, Mailing, IInv, RequestInv
        <4> QED
          BY <1>1, <1>3, <2>1, <3>1, <4>1 DEF MailFails
      <3>2. CASE AcceptJoin(r)
        <4>1. req[r].invite \in Invite /\ invite[req[r].invite] \in Sent
          BY <1>1, <3>2, RequestShapes DEF AcceptJoin, Accepting, IInv, RequestInv
        <4> QED
          BY <1>1, <1>3, <2>1, <3>2, <4>1 DEF AcceptJoin
      <3>3. ASSUME NEW j \in Invite, RevokeInvite(r, j) \/ AcceptExpired(r, j) PROVE FALSE
        BY <1>1, <1>3, <2>1, <3>3 DEF RevokeInvite, AcceptExpired
      <3> QED
        BY <2>2, <3>1, <3>2, <3>3
    <2>3. ASSUME NEW r \in Request, NEW j \in Invite, NEW rl \in InvitedRole,
                 CreateInvite(r, j, rl), j # i
          PROVE  FALSE
      BY <1>1, <1>3, <2>1, <2>3 DEF CreateInvite
    <2>4. ~ UNCHANGED invite
      BY <2>1
    <2> QED
      BY <2>2, <2>3, <2>4
         DEF Next, vars, Authorize, RemoveMember, PatchMemberRole, CheckInvite, Abandon,
             AcceptLoad, Lapse
  <1> QED
    BY <1>1, <1>2, <1>3

\* Every step keeps the pending invitations for outsiders and one per address.
LEMMA PendingStep == IInv /\ [Next]_vars => PendingOnlyForOutsiders'
  <1> SUFFICES ASSUME IInv, [Next]_vars PROVE PendingOnlyForOutsiders'
    OBVIOUS
  <1>1. TypeOK /\ invite \in [Invite -> {Blank} \cup Sent]
               /\ role \in [User -> Role \cup {"none"}]
    BY TypeNamed DEF IInv
  <1>2. ASSUME NEW r \in Request, NEW k \in Invite, NEW rl \in InvitedRole, CreateInvite(r, k, rl)
        PROVE  PendingOnlyForOutsiders'
    <2>1. req[r] \in Creating /\ req[r].email \in User /\ role[req[r].email] = "none"
      BY <1>1, <1>2, RequestShapes DEF CreateInvite, Creating, IInv, RequestInv
    <2>2. /\ invite'[k] = [status |-> "pending", email |-> req[r].email, role |-> rl]
          /\ role' = role
      BY <1>2 DEF CreateInvite
    <2>3. ASSUME NEW j \in Invite, j # k, invite'[j].status = "pending"
          PROVE  /\ invite[j].status = "pending" /\ invite'[j] = invite[j]
                 /\ invite[j].email # req[r].email
      <3>1. invite'[j] = IF invite[j].status = "pending" /\ invite[j].email = req[r].email
                         THEN [invite[j] EXCEPT !.status = "revoked"] ELSE invite[j]
        BY <1>2, <2>3 DEF CreateInvite
      <3>2. invite[j].status = "pending" => [invite[j] EXCEPT !.status = "revoked"].status = "revoked"
        BY <1>1, InviteShapes DEF Status, Sent
      <3> QED
        BY <2>3, <3>1, <3>2
    <2> QED
      BY <2>1, <2>2, <2>3 DEF PendingOnlyForOutsiders, Pending, IInv
  <1>3. CASE ~ \E r \in Request, k \in Invite, rl \in InvitedRole : CreateInvite(r, k, rl)
    <2>1. ASSUME NEW i \in Invite, invite'[i].status = "pending"
          PROVE  /\ invite[i].status = "pending" /\ invite[i] \in Sent
                 /\ invite'[i].email = invite[i].email
      BY <1>1, <1>3, <2>1, PendingMoves, InviteStep, InviteShapes DEF Status
    <2>2. ASSUME NEW i \in Invite, invite'[i].status = "pending"
          PROVE  role'[invite'[i].email] = "none"
      <3>1. /\ invite[i].status = "pending" /\ invite'[i].email = invite[i].email
            /\ invite[i].email \in User /\ role[invite[i].email] = "none"
        BY <2>1, <2>2 DEF IInv, PendingOnlyForOutsiders, Pending, Sent
      <3>2. ASSUME role'[invite[i].email] # "none" PROVE FALSE
        <4>1. PICK r \in Request : AcceptJoin(r) /\ req[r].user = invite[i].email
          BY <3>1, <3>2, JoinStep
        <4>2. /\ req[r].invite \in Invite /\ invite[req[r].invite] \in Sent
              /\ invite[req[r].invite].email = req[r].user
          BY <1>1, <4>1, RequestShapes DEF AcceptJoin, Accepting, IInv, RequestInv
        <4>3. invite[req[r].invite].status = "pending" /\ invite'[req[r].invite].status = "accepted"
          BY <1>1, <4>1, <4>2 DEF AcceptJoin, Sent
        <4>4. req[r].invite = i
          BY <3>1, <4>1, <4>2, <4>3 DEF IInv, PendingOnlyForOutsiders, Pending
        <4> QED
          BY <2>2, <4>3, <4>4
      <3> QED
        BY <3>1, <3>2
    <2> QED
      BY <2>1, <2>2 DEF PendingOnlyForOutsiders, Pending, IInv
  <1> QED
    BY <1>2, <1>3

\* Every step keeps the one owner, unless it writes from a stale copy.
LEMMA OwnerStep == IInv /\ [Next]_vars => SoleOwner'
  <1> SUFFICES ASSUME IInv, [Next]_vars PROVE SoleOwner'
    OBVIOUS
  <1>1. TypeOK /\ role \in [User -> Role \cup {"none"}]
    BY TypeNamed DEF IInv
  <1>2. ASSUME NEW r \in Request, AcceptJoin(r) PROVE SoleOwner'
    <2> DEFINE u == req[r].user
    <2>1. u \in User /\ req[r].invite \in Invite /\ invite[req[r].invite] \in Sent
      BY <1>1, <1>2, RequestShapes DEF AcceptJoin, Accepting, IInv, RequestInv
    <2>2. invite[req[r].invite].role # "owner"
      BY <2>1 DEF Sent, InvitedRole
    <2>3. /\ role[u] = "none" /\ role' = [role EXCEPT ![u] = invite[req[r].invite].role]
          /\ stale' = stale
      BY <1>2 DEF AcceptJoin
    <2>4. Owners' = Owners
      BY <1>1, <2>1, <2>2, <2>3 DEF Owners
    <2> QED
      BY <2>3, <2>4 DEF SoleOwner, IInv
  <1>3. ASSUME NEW r \in Request, NEW t \in User,
               (\E next \in Role : PatchMemberRole(r, t, next)) \/ RemoveMember(r, t)
        PROVE  SoleOwner'
    BY <1>3, ManageStep
  <1>4. CASE UNCHANGED <<role, stale>>
    BY <1>4, SameMembers
  <1> QED
    BY <1>2, <1>3, <1>4
       DEF Next, vars, Authorize, CheckInvite, CreateInvite, RevokeInvite, AcceptExpired,
           AcceptLoad, Abandon, MailFails, Lapse

---------------------------------------------------------------------------
\* IInv is an invariant of the specification.
THEOREM Invariance == Spec => []IInv
  <1>1. Init => IInv
    BY InitIInv
  <1>2. IInv /\ [Next]_vars => IInv'
    BY TypeStep, RequestStep, PendingStep, OwnerStep DEF IInv
  <1> QED
    BY <1>1, <1>2, PTL DEF Spec

\* Unless a request writes from a stale copy, the household has one owner.
THEOREM OneOwner == Spec => []SoleOwner
  <1>1. IInv => SoleOwner
    BY DEF IInv
  <1> QED
    BY <1>1, Invariance, PTL

\* Invitations are pending for outsiders only, one per address.
THEOREM OutsidersOnly == Spec => []PendingOnlyForOutsiders
  <1>1. IInv => PendingOnlyForOutsiders
    BY DEF IInv
  <1> QED
    BY <1>1, Invariance, PTL

\* A settled invitation never changes again.
THEOREM Settled == Spec => SettledIsFinal
  <1>1. IInv /\ [Next]_vars =>
          [\A i \in Invite :
             invite[i].status \in {"accepted", "revoked", "expired"} => invite'[i] = invite[i]]_vars
    BY InviteStep DEF Status
  <1> QED
    BY <1>1, Invariance, PTL DEF Spec, SettledIsFinal

\* Members join only by accepting a pending invitation to their address, with
\* the role it offers.
THEOREM JoinByInvite == Spec => JoinsOnlyByInvite
  <1>1. ASSUME IInv, [Next]_vars, NEW u \in User, role[u] = "none", role'[u] # "none"
        PROVE  \E i \in Invite :
                  /\ invite[i].status = "pending" /\ invite[i].email = u
                  /\ invite'[i].status = "accepted" /\ role'[u] = invite[i].role
    <2>1. PICK r \in Request : AcceptJoin(r) /\ req[r].user = u
      BY <1>1, JoinStep
    <2>2. /\ req[r].invite \in Invite /\ invite[req[r].invite] \in Sent
          /\ invite[req[r].invite].email = u
      BY <1>1, <2>1, RequestShapes DEF AcceptJoin, Accepting, IInv, RequestInv
    <2>3. invite \in [Invite -> {Blank} \cup Sent] /\ role \in [User -> Role \cup {"none"}]
      BY <1>1, TypeNamed DEF IInv
    <2>4. /\ invite[req[r].invite].status = "pending"
          /\ invite'[req[r].invite].status = "accepted"
          /\ role'[u] = invite[req[r].invite].role
      BY <2>1, <2>2, <2>3 DEF AcceptJoin, Sent
    <2> QED
      BY <2>2, <2>4
  <1>2. IInv /\ [Next]_vars =>
          [\A u \in User :
             (role[u] = "none" /\ role'[u] # "none") =>
                \E i \in Invite :
                   /\ invite[i].status = "pending" /\ invite[i].email = u
                   /\ invite'[i].status = "accepted" /\ role'[u] = invite[i].role]_vars
    BY <1>1
  <1> QED
    BY <1>2, Invariance, PTL DEF Spec, JoinsOnlyByInvite

---------------------------------------------------------------------------
(* AuthSession                                                             *)

Call == [op : {"none", "login", "refresh", "logout"}, pair : Pairs \cup {NoPair},
         pc : {"idle", "start", "once", "commit", "check", "read", "answer"},
         todo : Seq(Jwt), held : SUBSET Jwt,
         answer : {"none", "set", "clear", "keep", "error"}, next : Pairs \cup {NoPair}]

\* The type invariant of AuthSession.
SessionTypeOK ==
    /\ now \in Nat
    /\ Minted \subseteq Pairs
    /\ born \in [Minted -> Nat]
    /\ parent \in [Minted -> Minted \cup {NoPair}]
    /\ rows \subseteq Jwt
    /\ jar \in Minted \cup {NoPair}
    /\ call \in [Requests -> Call]
    /\ ended \subseteq Jwt
    /\ lost \subseteq Pairs \cup {NoPair}

\* A token no request can use any more, until its expiry has passed and after.
Dead(t) == t \in rows \/ Expired(t)

\* Rows are written for tokens that were ended, the two of a pair end
\* together, and a pair whose refresh token was exchanged has ended.
TokenInv ==
    /\ rows \subseteq ended
    /\ \A p \in Pairs : A(p) \in ended <=> R(p) \in ended
    /\ \A p \in Pairs : R(p) \in ended => p \in Minted
    /\ \A p \in Minted : parent[p] # NoPair => R(parent[p]) \in ended

\* A token the request has inserted, is about to insert, or need not insert.
Handled(q, t) == t \in call[q].held \/ Dead(t)

\* What holds of a request c in flight on behalf of its pair.
CallInv(q) ==
    LET c == call[q]
        a == A(c.pair)
        r == R(c.pair)
    IN  /\ c.pair \in Minted \cup {NoPair} /\ c.next \in Minted \cup {NoPair}
        /\ c.answer = "set" => c.next \in Minted
        /\ c.held \subseteq {a, r}
        /\ c.pc # "answer" => c.answer = "none"
        /\ c.pc \in {"idle", "start", "check", "answer"} => c.held = {} /\ c.todo = <<>>
        /\ c.pc \in {"start", "once", "commit", "check", "read"} =>
              c.pair \in Minted /\ c.op \in {"refresh", "logout"}
        /\ c.pc = "once" =>
              /\ c.op = "refresh"
              /\ \/ c.todo = <<r>> /\ c.held = {}
                 \/ c.todo = <<>> /\ r \in c.held
        /\ c.pc = "commit" /\ c.op = "refresh" =>
              /\ r \in c.held
              /\ \/ c.todo = <<a>>
                 \/ c.todo = <<>> /\ Handled(q, a)
        /\ c.pc = "read" =>
              /\ c.op = "logout" /\ c.held = {}
              /\ \/ c.todo = <<a>>
                 \/ c.todo = <<>> /\ Dead(a)
        /\ c.pc = "commit" /\ c.op = "logout" =>
              \/ c.todo = <<a, r>>
              \/ c.todo = <<a>> /\ Handled(q, r)
              \/ c.todo = <<r>> /\ Handled(q, a)
              \/ c.todo = <<>> /\ Handled(q, a) /\ Handled(q, r)

\* A row that is inserted and not committed is in no other transaction and
\* not in the table.
HeldInv ==
    \A q \in Requests : \A t \in call[q].held :
        t \notin rows /\ \A o \in Requests \ {q} : t \notin call[o].held

\* A new pair on its way to the browser is known to nobody else.
FreshInv ==
    \A q \in Requests : call[q].answer = "set" =>
        /\ jar # call[q].next
        /\ R(call[q].next) \notin rows
        /\ \A o \in Requests : call[o].pair # call[q].next
        /\ \A o \in Requests \ {q} : call[o].answer = "set" => call[o].next # call[q].next

\* The inductive invariant.
SessionIInv ==
    /\ SessionTypeOK
    /\ TokenInv
    /\ \A q \in Requests : CallInv(q)
    /\ HeldInv
    /\ FreshInv
    /\ EndedStaysEnded
    /\ RefreshedOnce
    /\ JarIsLive
    /\ \A p \in Minted : born[p] <= now

-----------------------------------------------------------------------------
\* The tokens of a pair: every token is one of them, and they tell pair and
\* kind apart.
LEMMA TokenFacts ==
    /\ \A p \in Pairs : A(p) \in Jwt /\ R(p) \in Jwt
    /\ \A p : A(p)[2] = p /\ R(p)[2] = p
    /\ \A p, x : A(p) # R(x)
    /\ \A p, x : A(p) = A(x) => p = x
    /\ \A p, x : R(p) = R(x) => p = x
    /\ \A t \in Jwt : t[2] \in Pairs /\ (t = A(t[2]) \/ t = R(t[2]))
  BY DEF A, R, Jwt

\* The short sequences of rows a request has still to insert.
LEMMA TodoFacts ==
    /\ \A x : <<x>> # <<>> /\ Head(<<x>>) = x /\ Tail(<<x>>) = <<>>
    /\ \A x, y : <<x, y>> # <<>> /\ Head(<<x, y>>) = x /\ Tail(<<x, y>>) = <<y>>
    /\ \A x \in Jwt : <<x>> \in Seq(Jwt) /\ <<>> \o <<x>> = <<x>> /\ <<x>> \o <<>> = <<x>>
    /\ \A x, y \in Jwt : <<x, y>> \in Seq(Jwt) /\ <<x>> \o <<y>> = <<x, y>>
    /\ <<>> \in Seq(Jwt) /\ <<>> \o <<>> = <<>>
  <1>1. \A x : <<x>> # <<>> /\ Head(<<x>>) = x /\ Tail(<<x>>) = <<>>
    OBVIOUS
  <1>2. \A x, y : <<x, y>> # <<>> /\ Head(<<x, y>>) = x /\ Tail(<<x, y>>) = <<y>>
    OBVIOUS
  <1>3. \A x \in Jwt : <<x>> \in Seq(Jwt) /\ <<>> \o <<x>> = <<x>> /\ <<x>> \o <<>> = <<x>>
    OBVIOUS
  <1>4. ASSUME NEW x \in Jwt, NEW y \in Jwt
        PROVE  <<x, y>> \in Seq(Jwt) /\ <<x>> \o <<y>> = <<x, y>>
    <2>1. <<x, y>> \in Seq(Jwt) /\ Len(<<x, y>>) = 2
      OBVIOUS
    <2>2. <<x>> \o <<y>> \in Seq(Jwt) /\ Len(<<x>> \o <<y>>) = 2
      OBVIOUS
    <2>3. (<<x>> \o <<y>>)[1] = x /\ (<<x>> \o <<y>>)[2] = y
      OBVIOUS
    <2>4. \A i \in 1 .. Len(<<x>> \o <<y>>) : (<<x>> \o <<y>>)[i] = <<x, y>>[i]
      <3>1. ASSUME NEW i \in 1 .. 2 PROVE (<<x>> \o <<y>>)[i] = <<x, y>>[i]
        <4>1. i = 1 \/ i = 2
          OBVIOUS
        <4>2. <<x, y>>[1] = x /\ <<x, y>>[2] = y
          OBVIOUS
        <4> QED
          BY <2>3, <4>1, <4>2
      <3> QED
        BY <2>2, <3>1
    <2> QED
      BY <2>1, <2>2, <2>4, SeqEqual
  <1>5. <<>> \in Seq(Jwt) /\ <<>> \o <<>> = <<>>
    OBVIOUS
  <1> QED
    BY <1>1, <1>2, <1>3, <1>4, <1>5

\* Expiry of the two tokens of a minted pair.
LEMMA ExpFacts ==
    ASSUME SessionTypeOK
    PROVE  /\ \A t \in Jwt : t[2] \in Minted => Exp(t) \in Nat
           /\ \A p \in Minted : Exp(A(p)) = born[p] + AccessTtl /\ Exp(R(p)) = born[p] + RefreshTtl
  BY SessionAssumption DEF SessionTypeOK, Exp, A, R, Jwt

\* The initial state satisfies the inductive invariant.
LEMMA InitSessionIInv == SessionInit => SessionIInv
  <1> SUFFICES ASSUME SessionInit PROVE SessionIInv
    OBVIOUS
  <1>1. Minted = {} /\ DOMAIN parent = {}
    BY DEF SessionInit, Minted
  <1>2. NoCall \in Call
    BY TodoFacts DEF NoCall, Call
  <1>3. SessionTypeOK
    BY <1>1, <1>2 DEF SessionInit, SessionTypeOK, Minted
  <1>4. TokenInv
    BY <1>1 DEF SessionInit, TokenInv
  <1>5. \A q \in Requests : CallInv(q)
    BY DEF SessionInit, CallInv, NoCall
  <1>6. HeldInv /\ FreshInv
    BY DEF SessionInit, HeldInv, FreshInv, NoCall
  <1>7. EndedStaysEnded /\ RefreshedOnce /\ JarIsLive /\ \A p \in Minted : born[p] <= now
    BY <1>1 DEF SessionInit, EndedStaysEnded, RefreshedOnce, JarIsLive
  <1> QED
    BY <1>3, <1>4, <1>5, <1>6, <1>7 DEF SessionIInv

-----------------------------------------------------------------------------
\* A dead token stays dead: its row is dropped no sooner than it expires.
LEMMA DeadStays ==
    ASSUME SessionTypeOK, NEW t \in Jwt, t[2] \in Minted, Dead(t),
           now' \in Nat, now <= now', t[2] \in Minted', born'[t[2]] = born[t[2]],
           t \in rows => t \in rows' \/ Expired(t)
    PROVE  Dead(t)'
  <1>1. Exp(t)' = Exp(t)
    BY DEF Exp
  <1>2. Exp(t) \in Nat /\ now \in Nat
    BY ExpFacts DEF SessionTypeOK
  <1> QED
    BY <1>1, <1>2 DEF Dead, Expired

\* The requests a step does not touch stay as they are.
LEMMA CallKept ==
    ASSUME SessionTypeOK, NEW q \in Requests, CallInv(q), call'[q] = call[q],
           Minted \subseteq Minted',
           \A t \in Jwt : t[2] \in Minted /\ Dead(t) => Dead(t)'
    PROVE  CallInv(q)'
  <1> DEFINE c == call[q]
             a == A(c.pair)
             r == R(c.pair)
  <1>1. c.pair \in Minted => /\ Handled(q, a) => Handled(q, a)'
                             /\ Handled(q, r) => Handled(q, r)'
                             /\ Dead(a) => Dead(a)'
    BY TokenFacts DEF Handled, SessionTypeOK
  <1>2. c.pair \in Minted' \cup {NoPair} /\ c.next \in Minted' \cup {NoPair}
    BY DEF CallInv
  <1>3. c.answer = "set" => c.next \in Minted'
    BY DEF CallInv
  <1>4. c.pc \in {"start", "once", "commit", "check", "read"} => c.pair \in Minted
    BY DEF CallInv
  <1> QED
    BY <1>1, <1>2, <1>3, <1>4 DEF CallInv

\* A step of request q that changes no table, no cookie and no clock: it keeps
\* the invariant if q's own part holds again, if it inserts nothing that is in
\* the table or inserted by another request, and if it neither brings a new
\* pair on its way nor takes an answer off it.
LEMMA LocalStep ==
    ASSUME SessionIInv, NEW q \in Requests, NEW c \in Call,
           call' = [call EXCEPT ![q] = c],
           UNCHANGED <<now, born, parent, rows, jar, lost>>,
           ended' = ended,
           CallInv(q)',
           \A t \in c.held \ call[q].held : t \notin rows /\ ~ HeldByOther(q, t),
           c.pair = call[q].pair \/ c.pair = jar,
           c.answer # "set",
           call[q].answer \notin {"set", "clear"}
    PROVE  SessionIInv'
  <1> USE DEF SessionIInv
  <1>1. /\ call'[q] = c /\ \A o \in Requests \ {q} : call'[o] = call[o]
        /\ Minted' = Minted
    BY DEF SessionTypeOK, Minted
  <1>2. SessionTypeOK'
    BY <1>1 DEF SessionTypeOK, Minted
  <1>3. \A t : Dead(t)' <=> Dead(t)
    BY DEF Dead, Expired, Exp
  <1>4. TokenInv'
    BY <1>1 DEF TokenInv
  <1>5. ASSUME NEW o \in Requests PROVE CallInv(o)'
    BY <1>1, <1>3, <1>5, CallKept
  <1>6. HeldInv'
    <2> SUFFICES ASSUME NEW o \in Requests, NEW t \in call'[o].held
                 PROVE  t \notin rows /\ \A x \in Requests \ {o} : t \notin call'[x].held
      BY DEF HeldInv
    <2>1. CASE o = q
      BY <1>1, <2>1 DEF HeldInv, HeldByOther
    <2>2. CASE o # q
      BY <1>1, <2>2 DEF HeldInv, HeldByOther
    <2> QED
      BY <2>1, <2>2
  <1>7. FreshInv'
    <2> SUFFICES ASSUME NEW o \in Requests, call'[o].answer = "set"
                 PROVE  /\ jar # call'[o].next
                        /\ R(call'[o].next) \notin rows
                        /\ \A x \in Requests : call'[x].pair # call'[o].next
                        /\ \A x \in Requests \ {o} : call'[x].answer = "set" => call'[x].next # call'[o].next
      BY DEF FreshInv
    <2>1. o # q /\ call'[o] = call[o]
      BY <1>1
    <2> QED
      BY <1>1, <2>1 DEF FreshInv
  <1>8. EndedStaysEnded'
    BY <1>3 DEF EndedStaysEnded, Dead
  <1>9. RefreshedOnce' /\ \A p \in Minted' : born'[p] <= now'
    BY <1>1 DEF RefreshedOnce, Exp
  <1>10. JarIsLive'
    <2>1. CASE jar # NoPair /\ R(jar) \in rows /\ ~ Expired(R(jar)) /\ jar \notin lost
      <3>1. PICK o \in Requests : call[o].pair = jar /\ call[o].answer \in {"set", "clear"}
        BY <2>1 DEF JarIsLive
      <3>2. o # q
        BY <3>1
      <3> QED
        BY <1>1, <3>1, <3>2 DEF JarIsLive
    <2>2. CASE ~ (jar # NoPair /\ R(jar) \in rows /\ ~ Expired(R(jar)) /\ jar \notin lost)
      BY <2>2 DEF JarIsLive, Expired, Exp
    <2> QED
      BY <2>1, <2>2
  <1> QED
    BY <1>2, <1>4, <1>5, <1>6, <1>7, <1>8, <1>9, <1>10

\* The answer a request goes on to, and that nothing is left of its inserts.
LEMMA AnswerFacts ==
    ASSUME SessionTypeOK, NEW q \in Requests,
           NEW a \in {"none", "set", "clear", "keep", "error"}
    PROVE  /\ Answer(q, a) \in Call
           /\ Answer(q, a).op = call[q].op /\ Answer(q, a).pair = call[q].pair
           /\ Answer(q, a).pc = "answer" /\ Answer(q, a).answer = a
           /\ Answer(q, a).next = call[q].next
           /\ Answer(q, a).todo = <<>> /\ Answer(q, a).held = {}
  <1>1. call[q] \in Call
    BY DEF SessionTypeOK
  <1> QED
    BY <1>1, TodoFacts DEF Answer, Call

\* A token that _upsert_revoked_token skips is dead.
LEMMA MissingFacts ==
    ASSUME SessionTypeOK, NEW t \in Jwt, t[2] \in Minted
    PROVE  /\ Missing(t) = <<t>> \/ (Missing(t) = <<>> /\ Dead(t))
           /\ Missing(t) \in Seq(Jwt)
  <1>1. Exp(t) \in Nat /\ now \in Nat /\ Leeway \in Nat
    BY ExpFacts, SessionAssumption DEF SessionTypeOK
  <1>2. CASE Decodes(t) /\ t \notin rows
    BY <1>2, TodoFacts DEF Missing
  <1>3. CASE ~ (Decodes(t) /\ t \notin rows)
    BY <1>1, <1>3, TodoFacts DEF Missing, Decodes, Dead, Expired
  <1> QED
    BY <1>2, <1>3

\* Steps of a request before its commit.
LEMMA CallStep ==
    ASSUME SessionIInv, NEW q \in Requests,
           \/ Send(q) \/ RefreshDecode(q) \/ RefreshAccess(q) \/ RefreshReplayed(q)
           \/ LogoutAccess(q) \/ LogoutRefresh(q) \/ Insert(q) \/ Duplicate(q) \/ Victim(q)
    PROVE  SessionIInv'
  <1> USE DEF SessionIInv
  <1>t. /\ call \in [Requests -> Call] /\ call[q] \in Call /\ CallInv(q)
        /\ Minted \subseteq Pairs /\ jar \in Minted \cup {NoPair}
    BY DEF SessionTypeOK
  <1>n. /\ NoCall \in Call /\ NoCall.answer = "none" /\ NoCall.held = {} /\ NoCall.todo = <<>>
        /\ NoCall.next = NoPair
    BY TodoFacts DEF NoCall, Call
  <1>k. call[q].pair \in Minted => /\ A(call[q].pair) \in Jwt /\ R(call[q].pair) \in Jwt
                                   /\ A(call[q].pair)[2] \in Minted /\ R(call[q].pair)[2] \in Minted
    BY <1>t, TokenFacts
  <1>u. UNCHANGED <<now, born, rows>> => Minted' = Minted /\ \A t : Dead(t)' <=> Dead(t)
    BY DEF Minted, Dead, Expired, Exp
  <1>1. CASE Send(q)
    <2>1. PICK op \in {"refresh", "logout"} :
            call' = [call EXCEPT ![q] = [NoCall EXCEPT !.op = op, !.pair = jar, !.pc = "start"]]
      BY <1>1 DEF Send
    <2> DEFINE c == [NoCall EXCEPT !.op = op, !.pair = jar, !.pc = "start"]
    <2>2. /\ c \in Call /\ c.op = op /\ c.pair = jar /\ c.pc = "start" /\ c.todo = <<>>
          /\ c.held = {} /\ c.answer = "none" /\ c.next = NoPair
      BY <1>t, <1>n DEF NoCall, Call
    <2>3. call' = [call EXCEPT ![q] = c]
      BY <2>1
    <2> HIDE DEF c
    <2>4. call'[q] = c
      BY <1>t, <2>3
    <2>5. CallInv(q)'
      BY <1>1, <1>t, <1>u, <2>2, <2>4 DEF CallInv, Send
    <2> QED
      BY <1>1, <1>n, <2>2, <2>3, <2>5, LocalStep DEF Send
  <1>2. CASE RefreshDecode(q)
    <2>1. CASE Decodes(R(call[q].pair))
      <3> DEFINE c == [call[q] EXCEPT !.pc = "once", !.todo = <<R(call[q].pair)>>]
      <3>1. call' = [call EXCEPT ![q] = c] /\ call[q].pair \in Minted
        BY <1>2, <1>t, <2>1 DEF RefreshDecode, CallInv
      <3>2. /\ c \in Call /\ c.op = "refresh" /\ c.pair = call[q].pair /\ c.pc = "once"
            /\ c.todo = <<R(call[q].pair)>>
            /\ c.held = call[q].held /\ c.answer = call[q].answer /\ c.next = call[q].next
        BY <1>2, <1>t, <1>k, <3>1, TodoFacts DEF Call, RefreshDecode
      <3> HIDE DEF c
      <3>3. call'[q] = c
        BY <1>t, <3>1
      <3>4. CallInv(q)'
        BY <1>2, <1>t, <1>u, <3>1, <3>2, <3>3 DEF CallInv, RefreshDecode
      <3> QED
        BY <1>2, <1>t, <3>1, <3>2, <3>4, LocalStep DEF RefreshDecode, CallInv
    <2>2. CASE ~ Decodes(R(call[q].pair))
      <3>1. call' = [call EXCEPT ![q] = Answer(q, "clear")]
        BY <1>2, <2>2 DEF RefreshDecode
      <3>2. call'[q] = Answer(q, "clear")
        BY <1>t, <3>1
      <3>3. CallInv(q)'
        BY <1>2, <1>t, <1>u, <3>2, AnswerFacts DEF CallInv, RefreshDecode
      <3> QED
        BY <1>2, <1>t, <3>1, <3>3, AnswerFacts, LocalStep DEF RefreshDecode, CallInv
    <2> QED
      BY <2>1, <2>2
  <1>3. CASE RefreshAccess(q) \/ LogoutAccess(q)
    <2> DEFINE a == A(call[q].pair)
               c == [call[q] EXCEPT !.pc = IF call[q].op = "refresh" THEN "commit" ELSE "read",
                                    !.todo = Missing(a)]
    <2>1. call' = [call EXCEPT ![q] = c] /\ call[q].pair \in Minted
      BY <1>3, <1>t DEF RefreshAccess, LogoutAccess, CallInv
    <2>2. Missing(a) \in Seq(Jwt) /\ (Missing(a) = <<a>> \/ (Missing(a) = <<>> /\ Dead(a)))
      BY <1>k, <2>1, MissingFacts
    <2>3. /\ c \in Call /\ c.op = call[q].op /\ c.pair = call[q].pair
          /\ c.pc = IF call[q].op = "refresh" THEN "commit" ELSE "read"
          /\ c.todo = Missing(a)
          /\ c.held = call[q].held /\ c.answer = call[q].answer /\ c.next = call[q].next
      BY <1>t, <2>2 DEF Call
    <2> HIDE DEF c
    <2>4. call'[q] = c
      BY <1>t, <2>1
    <2>5. CallInv(q)'
      <3>1. CASE RefreshAccess(q)
        BY <1>t, <1>u, <2>1, <2>2, <2>3, <2>4, <3>1 DEF CallInv, Handled, RefreshAccess
      <3>2. CASE LogoutAccess(q)
        BY <1>t, <1>u, <2>1, <2>2, <2>3, <2>4, <3>2 DEF CallInv, Handled, LogoutAccess
      <3> QED
        BY <1>3, <3>1, <3>2
    <2> QED
      BY <1>3, <1>t, <2>1, <2>3, <2>5, LocalStep DEF RefreshAccess, LogoutAccess, CallInv
  <1>4. CASE RefreshReplayed(q)
    <2>1. PICK a \in {"keep", "clear"} : call' = [call EXCEPT ![q] = Answer(q, a)]
      BY <1>4 DEF RefreshReplayed
    <2>2. call'[q] = Answer(q, a)
      BY <1>t, <2>1
    <2>3. CallInv(q)'
      BY <1>4, <1>t, <1>u, <2>2, AnswerFacts DEF CallInv, RefreshReplayed
    <2> QED
      BY <1>4, <1>t, <2>1, <2>3, AnswerFacts, LocalStep DEF RefreshReplayed, CallInv
  <1>5. CASE LogoutRefresh(q)
    <2> DEFINE a == A(call[q].pair)
               r == R(call[q].pair)
               c == [call[q] EXCEPT !.pc = "commit", !.todo = call[q].todo \o Missing(r)]
    <2>1. call' = [call EXCEPT ![q] = c] /\ call[q].pair \in Minted
      BY <1>5, <1>t DEF LogoutRefresh, CallInv
    <2>2. Missing(r) \in Seq(Jwt) /\ (Missing(r) = <<r>> \/ (Missing(r) = <<>> /\ Dead(r)))
      BY <1>k, <2>1, MissingFacts
    <2>3. \/ call[q].todo = <<a>>
          \/ call[q].todo = <<>> /\ Dead(a)
      BY <1>5, <1>t DEF LogoutRefresh, CallInv
    <2>4. \/ c.todo = <<a, r>>
          \/ c.todo = <<a>> /\ Dead(r)
          \/ c.todo = <<r>> /\ Dead(a)
          \/ c.todo = <<>> /\ Dead(a) /\ Dead(r)
      <3>1. c.todo = call[q].todo \o Missing(r)
        BY <1>t DEF Call
      <3> QED
        BY <1>k, <2>1, <2>2, <2>3, <3>1, TodoFacts
    <2>5. call[q].todo \o Missing(r) \in Seq(Jwt)
      BY <1>t, <2>2 DEF Call
    <2>6. /\ c \in Call /\ c.op = call[q].op /\ c.pair = call[q].pair /\ c.pc = "commit"
          /\ c.held = call[q].held /\ c.answer = call[q].answer /\ c.next = call[q].next
      BY <1>t, <2>5 DEF Call
    <2> HIDE DEF c
    <2>7. call'[q] = c
      BY <1>t, <2>1
    <2>8. CallInv(q)'
      BY <1>5, <1>t, <1>u, <2>1, <2>4, <2>6, <2>7 DEF CallInv, Handled, LogoutRefresh
    <2> QED
      BY <1>5, <1>t, <2>1, <2>6, <2>8, LocalStep DEF LogoutRefresh, CallInv
  <1>6. CASE Insert(q)
    <2> DEFINE h == Head(call[q].todo)
               c == [call[q] EXCEPT !.held = @ \cup {h}, !.todo = Tail(@)]
    <2>1. call' = [call EXCEPT ![q] = c]
      BY <1>6, <1>t DEF Insert
    <2>2. call[q].pair \in Minted /\ call[q].pc \in {"once", "commit"} /\ call[q].todo # <<>>
      BY <1>6, <1>t DEF Insert, Flushing, CallInv
    <2>3. h \notin rows /\ ~ HeldByOther(q, h)
      BY <1>6 DEF Insert, Blocked
    <2>4. h \in Jwt /\ Tail(call[q].todo) \in Seq(Jwt)
      BY <1>t, <2>2 DEF Call
    <2>5. /\ c \in Call /\ c.op = call[q].op /\ c.pair = call[q].pair /\ c.pc = call[q].pc
          /\ c.held = call[q].held \cup {h} /\ c.todo = Tail(call[q].todo)
          /\ c.answer = call[q].answer /\ c.next = call[q].next
      BY <1>t, <2>4 DEF Call
    <2> HIDE DEF c
    <2>6. call'[q] = c
      BY <1>t, <2>1
    <2>7. CallInv(q)'
      <3> DEFINE a == A(call[q].pair)
                 r == R(call[q].pair)
      <3>1. \A t : Handled(q, t)' <=> t = h \/ Handled(q, t)
        BY <1>6, <1>u, <2>5, <2>6 DEF Handled, Insert
      <3>0. /\ Head(<<a>>) = a /\ Tail(<<a>>) = <<>>
            /\ Head(<<r>>) = r /\ Tail(<<r>>) = <<>>
            /\ Head(<<a, r>>) = a /\ Tail(<<a, r>>) = <<r>>
        BY TodoFacts
      <3> HIDE DEF a, r
      <3>c. LET d == call[q]
            IN  /\ d.pc = "once" => d.op = "refresh" /\ (d.todo = <<r>> \/ d.todo = <<>>)
                /\ d.pc = "commit" /\ d.op = "refresh" =>
                      r \in d.held /\ (d.todo = <<a>> \/ d.todo = <<>>)
                /\ d.pc = "commit" /\ d.op = "logout" =>
                      \/ d.todo = <<a, r>> \/ d.todo = <<>>
                      \/ d.todo = <<a>> /\ Handled(q, r)
                      \/ d.todo = <<r>> /\ Handled(q, a)
        BY <1>t DEF CallInv, a, r
      <3>2. call[q].pc = "once" => h = r /\ c.todo = <<>> /\ call[q].op = "refresh"
        BY <2>2, <2>5, <3>0, <3>c
      <3>3. call[q].pc = "commit" /\ call[q].op = "refresh" =>
              h = a /\ c.todo = <<>> /\ r \in call[q].held
        BY <2>2, <2>5, <3>0, <3>c
      <3>4. call[q].pc = "commit" /\ call[q].op = "logout" =>
              \/ h = a /\ c.todo = <<r>>
              \/ h = a /\ c.todo = <<>> /\ Handled(q, r)
              \/ h = r /\ c.todo = <<>> /\ Handled(q, a)
        BY <2>2, <2>5, <3>0, <3>c
      <3>5. h \in {a, r} /\ call[q].op \in {"refresh", "logout"}
        BY <1>t, <2>2, <3>2, <3>3, <3>4 DEF CallInv
      <3>6. Minted' = Minted
        BY <1>6, <1>u DEF Insert
      <3>7. /\ call[q].pair \in Minted \cup {NoPair} /\ call[q].next \in Minted \cup {NoPair}
            /\ call[q].answer = "none" /\ call[q].held \subseteq {a, r}
        BY <1>t, <2>2 DEF CallInv, a, r
      <3> HIDE DEF h
      <3> QED
        BY <2>2, <2>5, <2>6, <3>1, <3>2, <3>3, <3>4, <3>5, <3>6, <3>7 DEF CallInv, a, r
    <2>8. \A t \in c.held \ call[q].held : t \notin rows /\ ~ HeldByOther(q, t)
      BY <2>3, <2>5
    <2>9. call[q].answer = "none"
      BY <1>t, <2>2 DEF CallInv
    <2>10. UNCHANGED <<now, born, parent, rows, jar, lost>> /\ ended' = ended
      BY <1>6 DEF Insert
    <2> QED
      BY <2>1, <2>5, <2>7, <2>8, <2>9, <2>10, LocalStep
  <1>7. CASE Duplicate(q)
    <2>1. call[q].pc \in {"once", "commit"} /\ call[q].pair \in Minted /\ call[q].todo # <<>>
      BY <1>7, <1>t DEF Duplicate, Flushing, CallInv
    <2>2. CASE call[q].op = "refresh"
      <3> DEFINE c == [call[q] EXCEPT !.pc = "check", !.todo = <<>>, !.held = {}]
      <3>1. call' = [call EXCEPT ![q] = c] /\ ended' = ended
        BY <1>7, <1>t, <2>2 DEF Duplicate
      <3>2. /\ c \in Call /\ c.op = "refresh" /\ c.pair = call[q].pair /\ c.pc = "check"
            /\ c.todo = <<>> /\ c.held = {} /\ c.answer = call[q].answer /\ c.next = call[q].next
        BY <1>t, <2>2, TodoFacts DEF Call
      <3> HIDE DEF c
      <3>3. call'[q] = c
        BY <1>t, <3>1
      <3>4. CallInv(q)'
        BY <1>7, <1>t, <1>u, <2>1, <2>2, <3>2, <3>3 DEF CallInv, Duplicate
      <3> QED
        BY <1>7, <1>t, <2>1, <3>1, <3>2, <3>4, LocalStep DEF Duplicate, CallInv
    <2>3. CASE call[q].op # "refresh"
      <3>1. call' = [call EXCEPT ![q] = Answer(q, "clear")]
        BY <1>7, <2>3 DEF Duplicate
      <3>2. call'[q] = Answer(q, "clear")
        BY <1>t, <3>1
      <3>3. Head(call[q].todo) \in {A(call[q].pair), R(call[q].pair)}
        BY <1>7, <1>t, <2>1, <2>3, TodoFacts DEF CallInv, Duplicate
      <3>4. ended' = ended
        BY <1>7, <1>t, <2>1, <2>3, <3>3 DEF Duplicate, TokenInv
      <3>5. CallInv(q)'
        BY <1>7, <1>t, <1>u, <2>1, <3>2, AnswerFacts DEF CallInv, Duplicate
      <3> QED
        BY <1>7, <1>t, <2>1, <3>1, <3>4, <3>5, AnswerFacts, LocalStep DEF Duplicate, CallInv
    <2> QED
      BY <2>2, <2>3
  <1>8. CASE Victim(q)
    <2>1. call[q].pc \in {"once", "commit"}
      BY <1>8 DEF Victim, Blocked, Flushing
    <2>2. call' = [call EXCEPT ![q] = Answer(q, "error")]
      BY <1>8 DEF Victim
    <2>3. call'[q] = Answer(q, "error")
      BY <1>t, <2>2
    <2>4. CallInv(q)'
      BY <1>8, <1>t, <1>u, <2>1, <2>3, AnswerFacts DEF CallInv, Victim
    <2> QED
      BY <1>8, <1>t, <2>1, <2>2, <2>4, AnswerFacts, LocalStep DEF Victim, CallInv
  <1> QED
    BY <1>1, <1>2, <1>3, <1>4, <1>5, <1>6, <1>7, <1>8

\* Time passes, or rows of expired tokens are dropped.
LEMMA TableStep ==
    ASSUME SessionIInv, UNCHANGED <<born, parent, jar, call, ended, lost>>,
           now' \in Nat, now <= now', rows' \subseteq rows,
           \A t \in rows : t \in rows' \/ Expired(t)
    PROVE  SessionIInv'
  <1> USE DEF SessionIInv
  <1>1. Minted' = Minted /\ SessionTypeOK'
    BY DEF Minted, SessionTypeOK
  <1>2. ASSUME NEW t \in Jwt, t[2] \in Minted, Dead(t) PROVE Dead(t)'
    BY <1>1, <1>2, DeadStays
  <1>3. \A t \in ended : t \in Jwt /\ t[2] \in Minted
    BY TokenFacts DEF SessionTypeOK, TokenInv
  <1>4. TokenInv'
    BY <1>1 DEF TokenInv
  <1>5. ASSUME NEW q \in Requests PROVE CallInv(q)'
    BY <1>1, <1>2, <1>5, CallKept
  <1>6. HeldInv' /\ FreshInv'
    BY DEF HeldInv, FreshInv
  <1>7. EndedStaysEnded'
    BY <1>2, <1>3 DEF EndedStaysEnded, Dead
  <1>8. RefreshedOnce'
    BY <1>1 DEF RefreshedOnce, Exp
  <1>9. JarIsLive'
    <2>1. jar # NoPair => (Expired(R(jar)) => Expired(R(jar))')
      <3>1. jar # NoPair => Exp(R(jar)) \in Nat
        BY ExpFacts, TokenFacts DEF SessionTypeOK
      <3> QED
        BY <3>1 DEF Expired, Exp, SessionTypeOK
    <2> QED
      BY <2>1 DEF JarIsLive
  <1>10. \A p \in Minted' : born'[p] <= now'
    BY <1>1 DEF SessionTypeOK
  <1> QED
    BY <1>1, <1>4, <1>5, <1>6, <1>7, <1>8, <1>9, <1>10

\* A minted pair is new, and nothing else about the pairs changes.
LEMMA MintFacts ==
    ASSUME SessionTypeOK, NEW p \in Pairs, NEW from \in Minted \cup {NoPair}, Mint(p, from)
    PROVE  /\ p \notin Minted /\ Minted' = Minted \cup {p} /\ Minted' \subseteq Pairs
           /\ born' \in [Minted' -> Nat] /\ parent' \in [Minted' -> Minted' \cup {NoPair}]
           /\ born'[p] = now /\ parent'[p] = from
           /\ \A x \in Minted : born'[x] = born[x] /\ parent'[x] = parent[x]
  BY DEF Mint, Minted, SessionTypeOK

\* The browser takes an answer, or the answer is lost.
LEMMA AnswerStep ==
    ASSUME SessionIInv, NEW q \in Requests, Deliver(q) \/ Lose(q)
    PROVE  SessionIInv'
  <1> USE DEF SessionIInv
  <1>t. /\ call \in [Requests -> Call] /\ call[q] \in Call /\ CallInv(q)
        /\ Minted \subseteq Pairs /\ jar \in Minted \cup {NoPair} /\ NoPair \notin Minted
    BY SessionAssumption DEF SessionTypeOK
  <1>n. /\ NoCall \in Call /\ NoCall.answer = "none" /\ NoCall.held = {} /\ NoCall.todo = <<>>
        /\ NoCall.next = NoPair /\ NoCall.pair = NoPair /\ NoCall.pc = "idle"
    BY TodoFacts DEF NoCall, Call
  <1>1. /\ UNCHANGED <<now, born, parent, rows, ended>>
        /\ call' = [call EXCEPT ![q] = NoCall] /\ call[q].pc = "answer"
    BY DEF Deliver, Lose
  <1>2. call'[q] = NoCall /\ (\A o \in Requests \ {q} : call'[o] = call[o]) /\ Minted' = Minted
    BY <1>1, <1>t DEF Minted
  <1>3. \/ jar' = jar /\ (call[q].answer \in {"set", "clear"} => call[q].pair \in lost') /\ lost \subseteq lost'
        \/ jar' = NoPair /\ lost' = lost
        \/ jar' = call[q].next /\ call[q].answer = "set" /\ lost' = lost
    BY DEF Deliver, Lose
  <1>4. SessionTypeOK'
    <2>1. jar' \in Minted \cup {NoPair}
      BY <1>t, <1>3 DEF CallInv
    <2>2. lost' \subseteq Pairs \cup {NoPair}
      BY <1>t DEF Deliver, Lose, SessionTypeOK, Call
    <2> QED
      BY <1>1, <1>2, <1>n, <2>1, <2>2 DEF SessionTypeOK, Minted
  <1>5. \A t : Dead(t)' <=> Dead(t)
    BY <1>1 DEF Dead, Expired, Exp
  <1>6. TokenInv'
    BY <1>1, <1>2 DEF TokenInv
  <1>7. ASSUME NEW o \in Requests PROVE CallInv(o)'
    <2>1. CASE o = q
      BY <1>2, <1>n, <2>1 DEF CallInv
    <2>2. CASE o # q
      BY <1>2, <1>5, <2>2, CallKept
    <2> QED
      BY <2>1, <2>2
  <1>8. HeldInv'
    BY <1>1, <1>2, <1>n DEF HeldInv
  <1>9. FreshInv'
    <2> SUFFICES ASSUME NEW o \in Requests, call'[o].answer = "set"
                 PROVE  /\ jar' # call'[o].next
                        /\ R(call'[o].next) \notin rows'
                        /\ \A x \in Requests : call'[x].pair # call'[o].next
                        /\ \A x \in Requests \ {o} : call'[x].answer = "set" => call'[x].next # call'[o].next
      BY DEF FreshInv
    <2>1. o # q /\ call'[o] = call[o]
      BY <1>2, <1>n
    <2>2. call[o].next \in Minted
      BY <2>1 DEF CallInv
    <2>3. jar' # call[o].next
      BY <1>3, <1>t, <2>1, <2>2 DEF FreshInv
    <2> QED
      BY <1>1, <1>2, <1>n, <1>t, <2>1, <2>2, <2>3 DEF FreshInv
  <1>10. EndedStaysEnded'
    BY <1>1, <1>5 DEF EndedStaysEnded, Dead
  <1>11. RefreshedOnce' /\ \A p \in Minted' : born'[p] <= now'
    BY <1>1, <1>2 DEF RefreshedOnce, Exp
  <1>12. JarIsLive'
    <2>1. CASE jar' = NoPair
      BY <2>1 DEF JarIsLive
    <2>2. CASE jar' = call[q].next /\ call[q].answer = "set"
      BY <1>1, <2>2 DEF JarIsLive, FreshInv
    <2>3. CASE jar' = jar /\ lost \subseteq lost'
               /\ (call[q].answer \in {"set", "clear"} => call[q].pair \in lost')
      <3>1. CASE jar # NoPair /\ R(jar) \in rows /\ ~ Expired(R(jar)) /\ jar \notin lost'
        <4>1. PICK o \in Requests : call[o].pair = jar /\ call[o].answer \in {"set", "clear"}
          BY <2>3, <3>1 DEF JarIsLive
        <4>2. o # q
          BY <2>3, <3>1, <4>1
        <4> QED
          BY <1>2, <2>3, <4>1, <4>2 DEF JarIsLive
      <3>2. CASE ~ (jar # NoPair /\ R(jar) \in rows /\ ~ Expired(R(jar)) /\ jar \notin lost')
        BY <1>1, <2>3, <3>2 DEF JarIsLive, Expired, Exp
      <3> QED
        BY <3>1, <3>2
    <2> QED
      BY <1>3, <2>1, <2>2, <2>3
  <1> QED
    BY <1>4, <1>6, <1>7, <1>8, <1>9, <1>10, <1>11, <1>12

\* A request commits what it inserted, ends its pair's tokens and answers: a
\* login ends none and hands out a pair, a refresh does both, a logout hands
\* out none.
LEMMA CommitStep ==
    ASSUME SessionIInv, NEW q \in Requests, NEW c \in Call,
           call' = [call EXCEPT ![q] = c],
           c.pc = "answer", c.todo = <<>>, c.held = {}, c.pair = call[q].pair,
           call[q].answer = "none", call[q].pc # "answer",
           UNCHANGED <<now, jar, lost>>,
           rows' = rows \cup call[q].held,
           ended' = IF c.pair = NoPair THEN ended ELSE ended \cup {A(c.pair), R(c.pair)},
           c.pair # NoPair => Handled(q, A(c.pair)) /\ Handled(q, R(c.pair)),
           \/ c.answer = "clear" /\ c.next = call[q].next /\ UNCHANGED <<born, parent>>
           \/ /\ c.answer = "set" /\ c.next \in Pairs /\ Mint(c.next, c.pair)
              /\ c.pair # NoPair => R(c.pair) \in call[q].held
    PROVE  SessionIInv'
  <1> USE DEF SessionIInv
  <1> DEFINE x == c.pair
             p == c.next
  <1>t. /\ call \in [Requests -> Call] /\ call[q] \in Call /\ CallInv(q)
        /\ Minted \subseteq Pairs /\ jar \in Minted \cup {NoPair} /\ NoPair \notin Minted
        /\ x \in Minted \cup {NoPair} /\ NoPair \notin Pairs
    BY SessionAssumption DEF SessionTypeOK, CallInv
  <1>1. call'[q] = c /\ \A o \in Requests \ {q} : call'[o] = call[o]
    BY <1>t
  <1>2. /\ Minted \subseteq Minted' /\ Minted' \subseteq Pairs
        /\ born' \in [Minted' -> Nat] /\ parent' \in [Minted' -> Minted' \cup {NoPair}]
        /\ \A m \in Minted : born'[m] = born[m] /\ parent'[m] = parent[m]
    <2>1. CASE UNCHANGED <<born, parent>>
      BY <1>t, <2>1 DEF Minted, SessionTypeOK
    <2>2. CASE Mint(c.next, c.pair) /\ c.next \in Pairs
      BY <1>t, <2>2, MintFacts
    <2> QED
      BY <2>1, <2>2
  <1>3. ASSUME NEW m \in Minted', m \notin Minted
        PROVE  /\ c.answer = "set" /\ m = p /\ born'[m] = now /\ parent'[m] = x
               /\ x # NoPair => R(x) \in call[q].held
    <2>1. CASE UNCHANGED <<born, parent>>
      BY <1>3, <2>1 DEF Minted
    <2>2. CASE ~ UNCHANGED <<born, parent>>
      <3>1. c.next \in Pairs /\ Mint(c.next, c.pair) /\ c.answer = "set"
        BY <2>2
      <3> QED
        BY <1>3, <1>t, <3>1, MintFacts
    <2> QED
      BY <2>1, <2>2
  <1>4. c.answer = "set" => p \in Minted' /\ p \notin Minted
    BY <1>t, MintFacts
  <1>5. call[q].held \subseteq Jwt /\ call[q].held \subseteq {A(x), R(x)}
    BY <1>t DEF Call, CallInv
  <1>6. SessionTypeOK'
    <2>1. ended' \subseteq Jwt
      BY <1>t, TokenFacts DEF SessionTypeOK
    <2>2. rows' \subseteq Jwt
      BY <1>5 DEF SessionTypeOK
    <2>3. call' \in [Requests -> Call]
      BY <1>t
    <2>4. now' \in Nat /\ jar' \in Minted' \cup {NoPair} /\ lost' \subseteq Pairs \cup {NoPair}
      BY <1>2, <1>t DEF SessionTypeOK
    <2> QED
      BY <1>2, <2>1, <2>2, <2>3, <2>4 DEF SessionTypeOK
  <1>7. ASSUME NEW t \in Jwt, t[2] \in Minted PROVE Exp(t)' = Exp(t) /\ Expired(t)' = Expired(t)
    BY <1>2, <1>7 DEF Exp, Expired
  <1>8. ASSUME NEW t \in Jwt, t[2] \in Minted, Dead(t) PROVE Dead(t)'
    BY <1>7, <1>8 DEF Dead
  <1>9. x # NoPair => /\ A(x) \in Jwt /\ R(x) \in Jwt /\ A(x)[2] \in Minted /\ R(x)[2] \in Minted
                      /\ Dead(A(x))' /\ Dead(R(x))'
    BY <1>t, <1>7, TokenFacts DEF Handled, Dead
  <1>10. \A t \in ended : t \in Jwt /\ t[2] \in Minted /\ Dead(t)
    BY TokenFacts DEF SessionTypeOK, TokenInv, EndedStaysEnded, Dead
  <1>11. TokenInv'
    <2>1. x = NoPair => call[q].held = {}
      <3>1. x = NoPair => call[q].pc = "idle"
        BY <1>t DEF CallInv, Call
      <3> QED
        BY <1>t, <3>1 DEF CallInv
    <2>2. rows' \subseteq ended'
      BY <1>5, <2>1 DEF TokenInv
    <2>3. \A m \in Pairs : A(m) \in ended' <=> R(m) \in ended'
      BY TokenFacts DEF TokenInv
    <2>4. \A m \in Pairs : R(m) \in ended' => m \in Minted'
      BY <1>2, <1>t, TokenFacts DEF TokenInv
    <2>5. ASSUME NEW m \in Minted', parent'[m] # NoPair PROVE R(parent'[m]) \in ended'
      <3>1. CASE m \in Minted
        BY <1>2, <2>5, <3>1 DEF TokenInv
      <3>2. CASE m \notin Minted
        BY <1>3, <2>5, <3>2
      <3> QED
        BY <3>1, <3>2
    <2> QED
      BY <2>2, <2>3, <2>4, <2>5 DEF TokenInv
  <1>12. ASSUME NEW o \in Requests PROVE CallInv(o)'
    <2>1. CASE o = q
      <3>1. c.next \in Minted' \cup {NoPair}
        BY <1>2, <1>4, <1>t DEF CallInv
      <3> QED
        BY <1>1, <1>2, <1>4, <1>t, <2>1, <3>1 DEF CallInv
    <2>2. CASE o # q
      BY <1>1, <1>2, <1>8, <2>2, CallKept
    <2> QED
      BY <2>1, <2>2
  <1>13. HeldInv'
    BY <1>1 DEF HeldInv
  <1>14. FreshInv'
    <2> SUFFICES ASSUME NEW o \in Requests, call'[o].answer = "set"
                 PROVE  /\ jar' # call'[o].next
                        /\ R(call'[o].next) \notin rows'
                        /\ \A y \in Requests : call'[y].pair # call'[o].next
                        /\ \A y \in Requests \ {o} : call'[y].answer = "set" => call'[y].next # call'[o].next
      BY DEF FreshInv
    <2>1. \A y \in Requests : call[y].pair \in Minted \cup {NoPair}
      BY DEF CallInv
    <2>2. \A y \in Requests : call[y].answer = "set" => call[y].next \in Minted
      BY DEF CallInv
    <2>3. \A y \in Requests : call'[y].pair = call[y].pair
      BY <1>1
    <2>4. \A m \in Pairs : R(m) \in call[q].held => m = x
      BY <1>5, TokenFacts
    <2>5. CASE o = q
      <3>1. p \in Pairs /\ p \notin Minted /\ p # NoPair /\ call'[o].next = p
        BY <1>1, <1>2, <1>4, <1>t, <2>5
      <3>2. R(p) \notin ended /\ R(p) \notin call[q].held
        BY <1>t, <2>4, <3>1 DEF TokenInv
      <3>3. R(p) \notin rows'
        BY <3>2 DEF TokenInv
      <3> QED
        BY <1>1, <1>t, <2>1, <2>2, <2>3, <2>5, <3>1, <3>3
    <2>6. CASE o # q
      <3>1. call'[o] = call[o] /\ call[o].next \in Minted
        BY <1>1, <2>2, <2>6
      <3>2. call[o].next # x /\ call[o].next \in Pairs
        BY <1>t, <2>6, <3>1 DEF FreshInv
      <3>3. R(call[o].next) \notin rows'
        BY <2>4, <3>1, <3>2 DEF FreshInv
      <3> QED
        BY <1>1, <1>4, <1>t, <2>2, <2>3, <2>6, <3>1, <3>3 DEF FreshInv
    <2> QED
      BY <2>5, <2>6
  <1>15. EndedStaysEnded'
    <2> SUFFICES ASSUME NEW t \in ended' PROVE Dead(t)'
      BY DEF EndedStaysEnded, Dead
    <2> QED
      BY <1>8, <1>9, <1>10
  <1>16. RefreshedOnce'
    <2> SUFFICES ASSUME NEW m \in Minted', NEW n \in Minted', m # n, NEW y,
                        parent'[m] = y, parent'[n] = y, y # NoPair
                 PROVE  Exp(R(y))' <= born'[m] \/ Exp(R(y))' <= born'[n]
      BY DEF RefreshedOnce
    <2>1. CASE m \in Minted /\ n \in Minted
      <3>1. y \in Minted /\ parent[m] = y /\ parent[n] = y
        BY <1>2, <2>1 DEF SessionTypeOK
      <3>2. Exp(R(y))' = Exp(R(y))
        BY <1>7, <1>t, <3>1, TokenFacts
      <3> QED
        BY <1>2, <2>1, <3>1, <3>2 DEF RefreshedOnce
    <2>2. ASSUME NEW k \in Minted, NEW l \in Minted', l \notin Minted, parent'[k] = x, x # NoPair
          PROVE  Exp(R(x))' <= born'[l]
      <3>1. R(x) \in ended /\ R(x) \in call[q].held
        BY <1>2, <1>3, <2>2 DEF TokenInv
      <3>2. Expired(R(x))
        BY <1>10, <3>1 DEF Dead, HeldInv
      <3> QED
        BY <1>3, <1>7, <1>9, <2>2, <3>2 DEF Expired
    <2> QED
      BY <1>2, <1>3, <2>1, <2>2
  <1>17. JarIsLive'
    <2> SUFFICES ASSUME jar # NoPair, R(jar) \in rows', ~ Expired(R(jar))', jar \notin lost
                 PROVE  \E o \in Requests : call'[o].pair = jar /\ call'[o].answer \in {"set", "clear"}
      BY DEF JarIsLive
    <2>1. CASE jar = x
      BY <1>1, <2>1
    <2>2. CASE jar # x
      <3>1. R(jar) \in rows
        BY <1>5, <2>2, TokenFacts
      <3>2. ~ Expired(R(jar))
        BY <1>7, <1>t, TokenFacts
      <3>3. PICK o \in Requests : call[o].pair = jar /\ call[o].answer \in {"set", "clear"}
        BY <3>1, <3>2 DEF JarIsLive
      <3> QED
        BY <1>1, <3>3
    <2> QED
      BY <2>1, <2>2
  <1>18. \A m \in Minted' : born'[m] <= now'
    BY <1>2, <1>3 DEF SessionTypeOK
  <1> QED
    BY <1>6, <1>11, <1>12, <1>13, <1>14, <1>15, <1>16, <1>17, <1>18

\* Every step preserves the inductive invariant.
LEMMA NextSessionIInv == SessionIInv /\ [SessionNext]_sessionVars => SessionIInv'
  <1> SUFFICES ASSUME SessionIInv, [SessionNext]_sessionVars PROVE SessionIInv'
    OBVIOUS
  <1>t. /\ SessionTypeOK /\ now \in Nat
        /\ \A q \in Requests : call[q] \in Call /\ CallInv(q)
    BY DEF SessionIInv, SessionTypeOK
  <1>1. ASSUME NEW q \in Requests,
               \/ Send(q) \/ RefreshDecode(q) \/ RefreshAccess(q) \/ RefreshReplayed(q)
               \/ LogoutAccess(q) \/ LogoutRefresh(q) \/ Insert(q) \/ Duplicate(q) \/ Victim(q)
        PROVE  SessionIInv'
    BY <1>1, CallStep
  <1>2. ASSUME NEW q \in Requests, Deliver(q) \/ Lose(q) PROVE SessionIInv'
    BY <1>2, AnswerStep
  <1>3. ASSUME NEW q \in Requests, Login(q) PROVE SessionIInv'
    <2>1. PICK p \in Pairs :
            /\ Mint(p, NoPair)
            /\ call' = [call EXCEPT ![q] = [NoCall EXCEPT !.op = "login", !.pc = "answer",
                                                      !.answer = "set", !.next = p]]
      BY <1>3 DEF Login
    <2> DEFINE c == [NoCall EXCEPT !.op = "login", !.pc = "answer", !.answer = "set", !.next = p]
    <2>2. /\ c \in Call /\ c.pc = "answer" /\ c.todo = <<>> /\ c.held = {} /\ c.pair = NoPair
          /\ c.answer = "set" /\ c.next = p
      BY TodoFacts DEF NoCall, Call
    <2>3. call[q].pair = NoPair /\ call[q].answer = "none" /\ call[q].pc = "idle" /\ call[q].held = {}
      BY <1>3 DEF Login, NoCall
    <2>4. call' = [call EXCEPT ![q] = c]
      BY <2>1
    <2> HIDE DEF c
    <2>5. UNCHANGED <<now, jar, lost>> /\ rows' = rows \cup call[q].held /\ ended' = ended
      BY <1>3, <2>3 DEF Login
    <2> QED
      BY <2>1, <2>2, <2>3, <2>4, <2>5, CommitStep
  <1>4. ASSUME NEW q \in Requests, RefreshCommit(q) PROVE SessionIInv'
    <2>1. PICK p \in Pairs :
            /\ Mint(p, call[q].pair)
            /\ call' = [call EXCEPT ![q] = [Answer(q, "set") EXCEPT !.next = p]]
      BY <1>4 DEF RefreshCommit
    <2> DEFINE c == [Answer(q, "set") EXCEPT !.next = p]
    <2>2. /\ c \in Call /\ c.pc = "answer" /\ c.todo = <<>> /\ c.held = {} /\ c.pair = call[q].pair
          /\ c.answer = "set" /\ c.next = p
      BY <1>t, AnswerFacts DEF Call
    <2>3. call' = [call EXCEPT ![q] = c]
      BY <2>1
    <2> HIDE DEF c
    <2>4. /\ call[q].pair \in Minted /\ call[q].pair # NoPair
          /\ call[q].answer = "none" /\ call[q].pc = "commit"
          /\ R(call[q].pair) \in call[q].held /\ Handled(q, A(call[q].pair))
      BY <1>4, <1>t, TodoFacts, SessionAssumption DEF RefreshCommit, CallInv, SessionTypeOK
    <2>5. Handled(q, R(call[q].pair))
      BY <2>4 DEF Handled
    <2>6. /\ UNCHANGED <<now, jar, lost>> /\ rows' = rows \cup call[q].held
          /\ ended' = ended \cup {A(call[q].pair), R(call[q].pair)}
      BY <1>4 DEF RefreshCommit
    <2> QED
      BY <2>1, <2>2, <2>3, <2>4, <2>5, <2>6, CommitStep
  <1>5. ASSUME NEW q \in Requests, LogoutCommit(q) PROVE SessionIInv'
    <2> DEFINE c == Answer(q, "clear")
    <2>1. /\ c \in Call /\ c.pc = "answer" /\ c.todo = <<>> /\ c.held = {} /\ c.pair = call[q].pair
          /\ c.answer = "clear" /\ c.next = call[q].next
      BY <1>t, AnswerFacts
    <2>2. call' = [call EXCEPT ![q] = c]
      BY <1>5 DEF LogoutCommit
    <2> HIDE DEF c
    <2>3. /\ call[q].pair \in Minted /\ call[q].pair # NoPair
          /\ call[q].answer = "none" /\ call[q].pc = "commit"
          /\ Handled(q, R(call[q].pair)) /\ Handled(q, A(call[q].pair))
      BY <1>5, <1>t, TodoFacts, SessionAssumption DEF LogoutCommit, CallInv, SessionTypeOK
    <2>4. /\ UNCHANGED <<now, jar, lost, born, parent>> /\ rows' = rows \cup call[q].held
          /\ ended' = ended \cup {A(call[q].pair), R(call[q].pair)}
      BY <1>5 DEF LogoutCommit
    <2> QED
      BY <2>1, <2>2, <2>3, <2>4, CommitStep
  <1>6. ASSUME NEW t \in Jwt, Authenticate(t) PROVE SessionIInv'
    BY <1>6, <1>t, TableStep DEF Authenticate
  <1>7. CASE CleanUp
    BY <1>7, <1>t, TableStep DEF CleanUp
  <1>8. CASE Tick
    BY <1>8, <1>t, TableStep DEF Tick
  <1>9. CASE UNCHANGED sessionVars
    BY <1>9, <1>t, TableStep DEF sessionVars
  <1> QED
    BY <1>1, <1>2, <1>3, <1>4, <1>5, <1>6, <1>7, <1>8, <1>9 DEF SessionNext

-----------------------------------------------------------------------------
\* The inductive invariant holds in every reachable state.
THEOREM SessionInductive == SessionSpec => []SessionIInv
  BY InitSessionIInv, NextSessionIInv, PTL DEF SessionSpec

\* Type correctness: the state login, refresh and logout keep is well formed,
\* and every pair they refer to has been minted.
THEOREM SessionTypeCorrect == SessionSpec => []SessionTypeOK
  <1>1. SessionIInv => SessionTypeOK
    BY DEF SessionIInv
  <1> QED
    BY <1>1, SessionInductive, PTL

\* What a logout or a refresh ended stays revoked until it expires, whatever
\* races, rollbacks and row clean-ups follow.
THEOREM EndedTokensStayEnded == SessionSpec => []EndedStaysEnded
  <1>1. SessionIInv => EndedStaysEnded
    BY DEF SessionIInv
  <1> QED
    BY <1>1, SessionInductive, PTL

\* A refresh token is exchanged at most once before it expires, by however many
\* requests it is presented.
THEOREM RefreshTokensAreExchangedOnce == SessionSpec => []RefreshedOnce
  <1>1. SessionIInv => RefreshedOnce
    BY DEF SessionIInv
  <1> QED
    BY <1>1, SessionInductive, PTL

\* The browser is never left with a revoked refresh token, unless an answer
\* was lost or is still on its way.
THEOREM BrowserKeepsALiveToken == SessionSpec => []JarIsLive
  <1>1. SessionIInv => JarIsLive
    BY DEF SessionIInv
  <1> QED
    BY <1>1, SessionInductive, PTL
===========================================================================
