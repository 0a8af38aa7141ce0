------------------------- MODULE OrganizationProofs -------------------------
(***************************************************************************)
(* Theorems about seats and invitations: the state stays well formed, the  *)
(* guard of the last owner, and the single use of a link.                  *)
(***************************************************************************)
EXTENDS Organizations, FiniteSetTheorems, TLAPS

USE DEF history

-----------------------------------------------------------------------------
(***************************************************************************)
(* What a step does to the requests.                                       *)
(***************************************************************************)
OthersStay(t) == \A s \in Requests \ {t} : req'[s] = req[s]

LEMMA BeginDoes ==
  ASSUME TypeOK, NEW t \in Requests, NEW r, Begin(t, r)
  PROVE  req[t] = Idle /\ req'[t] = r /\ OthersStay(t) /\ req' = [req EXCEPT ![t] = r]
  BY DEF Begin, OthersStay, TypeOK, RequestTypeOK

LEMMA EndDoes ==
  ASSUME TypeOK, NEW t \in Requests, End(t)
  PROVE  req'[t] = Idle /\ OthersStay(t) /\ req' = [req EXCEPT ![t] = Idle]
  BY DEF End, OthersStay, TypeOK, RequestTypeOK

LEMMA RoleNames ==
  /\ Roles = {"owner", "admin", "manager", "viewer"}
  /\ NoSeat \in Seats /\ OwnerSeat \in Seats /\ NoSeat # OwnerSeat
  BY DEF Roles, Permissions, NoSeat, OwnerSeat, Seats

LEMMA IdleFields ==
  /\ Idle.op = "none" /\ Idle.phase = "idle" /\ Idle.org = None /\ Idle.user = None
  /\ Idle.inv = None /\ Idle.role = Same /\ Idle.status = Same /\ Idle.seat = NoSeat
  /\ Idle.account = "none" /\ Idle.gone = FALSE /\ Idle.seen = "absent"
  /\ Idle.want = {} /\ Idle.held = {}
  BY DEF Idle

LEMMA IdleTyped == Idle \in Loaded /\ WellFormed(Idle)
<1>1. Idle \in Loaded
  BY RoleNames DEF Idle, Loaded, Ops, Accounts, InvitationStatuses, Same
<1>2. WellFormed(Idle)
  BY IdleFields DEF WellFormed, MemberOps, LinkOps
<1>. QED
  BY <1>1, <1>2

\* What a member request may set.
RolesSet == RolesInUse \cup {Same}
StatusesSet == {"active", "disabled", Same}

\* What a member request starts with.
LEMMA ManageDoes ==
  ASSUME TypeOK, NEW t \in Requests, NEW c \in Users, NEW o \in Orgs, NEW u \in Users,
         NEW op \in MemberOps, NEW role \in RolesSet,
         NEW status \in StatusesSet,
         ManageMember(t, c, o, u, op, role, status)
  PROVE  /\ UNCHANGED <<account, seat, inv, history>> /\ OthersStay(t)
         /\ req'[t].op = op /\ req'[t].org = o /\ req'[t].user = u
         /\ req'[t].role = role /\ req'[t].status = status
         /\ req'[t].seat = seat[o][u] /\ req'[t].account = account[u]
         /\ req'[t].phase = IF UnseatsOwner(seat[o][u], op, role, status)
                            THEN "guard" ELSE "ready"
         /\ req'[t].held = {} /\ req'[t].want = {}
         /\ req'[t] \in Loaded /\ req'[t].seat # NoSeat
<1>. DEFINE p == IF UnseatsOwner(seat[o][u], op, role, status) THEN "guard" ELSE "ready"
            r == [Idle EXCEPT !.op = op, !.org = o, !.user = u, !.role = role,
                              !.status = status, !.seat = seat[o][u],
                              !.account = account[u], !.phase = p]
<1>1. p \in {"guard", "ready"}
  OBVIOUS
<1>2. req'[t] = r /\ OthersStay(t) /\ req' = [req EXCEPT ![t] = r]
  BY BeginDoes DEF ManageMember
<1>3. seat[o][u] \in Seats /\ account[u] \in Accounts /\ role \in Roles \cup {Same}
      /\ op \in Ops
  BY OrganizationAssumption DEF TypeOK, Ops, RolesSet
<1>4. /\ r.op = op /\ r.org = o /\ r.user = u /\ r.role = role /\ r.status = status
      /\ r.seat = seat[o][u] /\ r.account = account[u] /\ r.phase = p
      /\ r.held = {} /\ r.want = {}
  <2>. HIDE DEF p
  <2>. QED
    BY DEF Idle
<1>5. r \in Loaded
  <2>. HIDE DEF p
  <2>. QED
    BY <1>1, <1>3, IdleTyped DEF Loaded, StatusesSet
<1>. QED
  BY <1>2, <1>4, <1>5 DEF ManageMember, TypeOK, RequestTypeOK
LEMMA HealDoes ==
  ASSUME TypeOK, NEW t \in Requests, NEW o \in Orgs, Heal(t, o)
  PROVE  /\ UNCHANGED <<account, seat, inv, history>> /\ OthersStay(t)
         /\ req'[t].op = "heal" /\ req'[t].org \in Orgs /\ req'[t].user \in Users
         /\ req'[t].phase = "ready" /\ req'[t].held = {}
         /\ req' \in [Requests -> Loaded]
<1>. DEFINE r == [Idle EXCEPT !.op = "heal", !.phase = "ready", !.org = o,
                              !.user = Founder[o]]
<1>1. req'[t] = r /\ OthersStay(t) /\ req' = [req EXCEPT ![t] = r]
  BY BeginDoes DEF Heal
<1>2. Founder[o] \in Users
  BY OrganizationAssumption
<1>3. /\ r.op = "heal" /\ r.phase = "ready" /\ r.org = o /\ r.user = Founder[o]
      /\ r.held = {} /\ r \in Loaded
  BY <1>2, IdleTyped DEF Idle, Loaded, Ops
<1>. QED
  BY <1>1, <1>2, <1>3 DEF Heal, TypeOK, RequestTypeOK

LEMMA InviteDoes ==
  ASSUME TypeOK, NEW t \in Requests, NEW c \in Users, NEW o \in Orgs, NEW u \in Users,
         NEW role \in RolesInUse, Invite(t, c, o, u, role)
  PROVE  /\ UNCHANGED <<account, seat, inv, history>> /\ OthersStay(t)
         /\ req'[t].op = "create" /\ req'[t].org = o /\ req'[t].user = u
         /\ req'[t].role \in Roles /\ req'[t].phase = "ready" /\ req'[t].held = {}
         /\ \/ req'[t].inv = None
            \/ req'[t].inv \in Invitations /\ inv[req'[t].inv].status = "pending"
         /\ req' \in [Requests -> Loaded]
<1>1. PICK old \in (IF Pending(o, u) = {} THEN {None} ELSE Pending(o, u)) :
         Begin(t, [Idle EXCEPT !.op = "create", !.phase = "ready", !.org = o,
                               !.user = u, !.role = role, !.inv = old])
  BY DEF Invite
<1>. DEFINE r == [Idle EXCEPT !.op = "create", !.phase = "ready", !.org = o,
                              !.user = u, !.role = role, !.inv = old]
<1>2. req'[t] = r /\ OthersStay(t) /\ req' = [req EXCEPT ![t] = r]
  BY <1>1, BeginDoes
<1>3. /\ role \in Roles
      /\ old = None \/ (old \in Invitations /\ inv[old].status = "pending")
  BY OrganizationAssumption DEF Pending
<1>4. /\ r.op = "create" /\ r.phase = "ready" /\ r.org = o /\ r.user = u
      /\ r.role = role /\ r.inv = old /\ r.held = {}
  BY DEF Idle
<1>5. r \in Loaded
  BY <1>3, IdleTyped DEF Loaded, Ops
<1>. QED
  BY <1>2, <1>3, <1>4, <1>5 DEF Invite, TypeOK, RequestTypeOK

LEMMA HandleDoes ==
  ASSUME TypeOK, NEW t \in Requests, NEW c \in Users, NEW i \in Invitations,
         NEW op \in {"revoke", "resend"}, HandleInvitation(t, c, i, op)
  PROVE  /\ UNCHANGED <<account, seat, inv, history>> /\ OthersStay(t)
         /\ req'[t].op = op /\ req'[t].inv = i /\ req'[t].phase = "ready"
         /\ req'[t].held = {} /\ inv[i].status # "absent"
         /\ req' \in [Requests -> Loaded]
<1>. DEFINE r == [Idle EXCEPT !.op = op, !.phase = "ready", !.inv = i,
                              !.seen = inv[i].status]
<1>1. req'[t] = r /\ OthersStay(t) /\ req' = [req EXCEPT ![t] = r]
  BY BeginDoes DEF HandleInvitation
<1>2. inv[i].status \in InvitationStatuses /\ op \in Ops
  BY DEF TypeOK, InvitationTypeOK, Rows, Ops, LinkOps
<1>3. /\ r.op = op /\ r.phase = "ready" /\ r.inv = i /\ r.held = {} /\ r \in Loaded
  BY <1>2, IdleTyped DEF Idle, Loaded
<1>. QED
  BY <1>1, <1>3 DEF HandleInvitation, TypeOK, RequestTypeOK

LEMMA LockInvitationDoes ==
  ASSUME TypeOK, NEW t \in Requests, NEW i \in Invitations, LockInvitation(t, i)
  PROVE  /\ UNCHANGED <<account, seat, inv, history>> /\ OthersStay(t)
         /\ InvitationFree(t, i) /\ inv[i].status = "pending"
         /\ req'[t].op = "accept" /\ req'[t].inv = i /\ req'[t].phase = "ready"
         /\ req'[t].org \in Orgs /\ req'[t].user \in Users
         /\ req'[t].seat = seat[req'[t].org][req'[t].user]
         /\ req'[t].held = {}
         /\ req' \in [Requests -> Loaded]
<1>. DEFINE o == inv[i].org
            u == inv[i].user
            r == [Idle EXCEPT !.op = "accept", !.phase = "ready", !.inv = i, !.org = o,
                              !.user = u, !.seat = seat[o][u], !.account = account[u]]
<1>1. req'[t] = r /\ OthersStay(t) /\ req' = [req EXCEPT ![t] = r]
  BY BeginDoes DEF LockInvitation
<1>2. o \in Orgs /\ u \in Users /\ seat[o][u] \in Seats /\ account[u] \in Accounts
  BY DEF LockInvitation, TypeOK, InvitationTypeOK
<1>3. /\ r.op = "accept" /\ r.phase = "ready" /\ r.inv = i /\ r.org = o /\ r.user = u
      /\ r.seat = seat[o][u] /\ r.held = {} /\ r \in Loaded
  <2>. HIDE DEF o, u
  <2>. QED
    BY <1>2, IdleTyped DEF Idle, Loaded, Ops, LinkOps
<1>. QED
  BY <1>1, <1>2, <1>3 DEF LockInvitation, TypeOK, RequestTypeOK

\* The requests that only load rows.
Loads(t) ==
    \/ \E c, u \in Users, o \in Orgs :
          \/ \E role \in RolesInUse \cup {Same}, status \in {"active", "disabled", Same} :
                UpdateMember(t, c, o, u, role, status)
          \/ RemoveMember(t, c, o, u)
    \/ \E o \in Orgs : Heal(t, o)
    \/ \E c, u \in Users, o \in Orgs, role \in RolesInUse : Invite(t, c, o, u, role)
    \/ \E c \in Users, i \in Invitations, op \in {"revoke", "resend"} :
          HandleInvitation(t, c, i, op)
    \/ \E i \in Invitations : LockInvitation(t, i)

\* What such a request holds of the rows it loaded.
LEMMA LoadsDo ==
  ASSUME TypeOK, NEW t \in Requests, Loads(t)
  PROVE  /\ UNCHANGED <<account, seat, inv, history>> /\ OthersStay(t)
         /\ req' \in [Requests -> Loaded] /\ WellFormed(req[t])'
         /\ req'[t].held = {}
         /\ req'[t].op \in MemberOps =>
               /\ Unseats(req'[t]) => req'[t].phase = "guard"
               /\ req'[t].org \in Orgs /\ req'[t].user \in Users
               /\ req'[t].seat = seat[req'[t].org][req'[t].user]
         /\ req'[t].op = "accept" =>
               /\ req'[t].seat = seat[req'[t].org][req'[t].user]
               /\ InvitationFree(t, req'[t].inv) /\ inv[req'[t].inv].status = "pending"
<1>1. ASSUME NEW c \in Users, NEW o \in Orgs, NEW u \in Users, NEW op \in MemberOps,
             NEW role \in RolesSet,
             NEW status \in StatusesSet,
             ManageMember(t, c, o, u, op, role, status)
      PROVE  /\ UNCHANGED <<account, seat, inv, history>> /\ OthersStay(t)
             /\ req' \in [Requests -> Loaded] /\ WellFormed(req[t])'
             /\ req'[t].held = {}
             /\ Unseats(req'[t]) => req'[t].phase = "guard"
             /\ req'[t].org \in Orgs /\ req'[t].user \in Users
             /\ req'[t].seat = seat[req'[t].org][req'[t].user]
             /\ req'[t].op # "accept"
  <2>1. /\ UNCHANGED <<account, seat, inv, history>> /\ OthersStay(t)
        /\ req'[t].op = op /\ req'[t].org = o /\ req'[t].user = u
        /\ req'[t].role = role /\ req'[t].status = status
        /\ req'[t].seat = seat[o][u]
        /\ req'[t].phase = IF UnseatsOwner(seat[o][u], op, role, status)
                           THEN "guard" ELSE "ready"
        /\ req'[t].held = {} /\ req'[t].want = {} /\ req'[t] \in Loaded
    BY <1>1, ManageDoes
  <2>6. seat[o][u] # NoSeat
    BY <1>1 DEF ManageMember
  <2>2. Unseats(req'[t]) => req'[t].phase = "guard"
    BY <2>1 DEF Unseats
  <2>3. WellFormed(req[t])'
    BY <2>1, <2>6 DEF WellFormed, MemberOps, LinkOps
  <2>4. req'[t].op # "accept"
    BY <2>1 DEF MemberOps
  <2>5. req' \in [Requests -> Loaded]
    BY <1>1, <2>1, BeginDoes DEF ManageMember, TypeOK, RequestTypeOK
  <2>. QED
    BY <2>1, <2>2, <2>3, <2>4, <2>5
<1>2. CASE \E c, u \in Users, o \in Orgs :
          \/ \E role \in RolesInUse \cup {Same}, status \in {"active", "disabled", Same} :
                UpdateMember(t, c, o, u, role, status)
          \/ RemoveMember(t, c, o, u)
  BY <1>1, <1>2 DEF UpdateMember, RemoveMember, MemberOps, RolesSet, StatusesSet
<1>3. CASE \E o \in Orgs : Heal(t, o)
  BY <1>3, HealDoes DEF WellFormed, MemberOps, LinkOps
<1>4. CASE \E c, u \in Users, o \in Orgs, role \in RolesInUse : Invite(t, c, o, u, role)
  <2>1. PICK c, u \in Users, o \in Orgs, role \in RolesInUse : Invite(t, c, o, u, role)
    BY <1>4
  <2>2. inv' = inv
    BY <2>1, InviteDoes
  <2>. QED
    BY <2>1, <2>2, InviteDoes DEF WellFormed, MemberOps, LinkOps
<1>5. CASE \E c \in Users, i \in Invitations, op \in {"revoke", "resend"} :
              HandleInvitation(t, c, i, op)
  BY <1>5, HandleDoes DEF WellFormed, MemberOps, LinkOps
<1>6. CASE \E i \in Invitations : LockInvitation(t, i)
  BY <1>6, LockInvitationDoes DEF WellFormed, MemberOps, LinkOps
<1>. QED
  BY <1>2, <1>3, <1>4, <1>5, <1>6 DEF Loads

-----------------------------------------------------------------------------
(***************************************************************************)
(* What a commit writes.                                                   *)
(***************************************************************************)
OtherSeats(o, u) ==
    /\ seat' \in [Orgs -> [Users -> Seats]]
    /\ \A p \in Orgs, v \in Users : p # o \/ v # u => seat'[p][v] = seat[p][v]
OtherAccounts(u) ==
    /\ account' \in [Users -> Accounts]
    /\ \A v \in Users \ {u} : account'[v] = account[v]
\* No invitation that exists ceases to, or changes hands.
InvitationsStay ==
    /\ InvitationTypeOK'
    /\ \A i \in Invitations : inv[i].status # "absent" =>
          /\ inv'[i].status # "absent"
          /\ inv'[i].org = inv[i].org /\ inv'[i].user = inv[i].user
          /\ inv[i].token <= inv'[i].token

LEMMA RequestFields ==
  ASSUME TypeOK, NEW t \in Requests
  PROVE  /\ req[t] \in Loaded /\ WellFormed(req[t])
         /\ req[t].seat \in Seats /\ req[t].account \in Accounts
         /\ req[t].role \in Roles \cup {Same}
         /\ req[t].status \in {"active", "disabled", Same}
         /\ req[t].gone \in BOOLEAN /\ req[t].op \in Ops
  BY DEF TypeOK, RequestTypeOK, Loaded

LEMMA InvitationFields ==
  ASSUME TypeOK, NEW i \in Invitations
  PROVE  /\ inv[i] \in Rows /\ inv[i].status \in InvitationStatuses
         /\ inv[i].token \in 0 .. MaxTokens /\ inv[i].token \in Nat
         /\ inv[i].role \in Roles /\ inv[i].expired \in BOOLEAN
         /\ MaxTokens \in Nat \ {0}
         /\ inv[i].status # "absent" => inv[i].org \in Orgs /\ inv[i].user \in Users
  BY OrganizationAssumption DEF TypeOK, InvitationTypeOK, Rows

LEMMA SeatWritten ==
  ASSUME TypeOK, NEW o \in Orgs, NEW u \in Users, NEW s \in Seats,
         seat' = [seat EXCEPT ![o][u] = s]
  PROVE  OtherSeats(o, u) /\ seat'[o][u] = s
  BY DEF TypeOK, OtherSeats

LEMMA AccountWritten ==
  ASSUME TypeOK, NEW u \in Users, NEW a \in Accounts,
         account' = [account EXCEPT ![u] = a]
  PROVE  OtherAccounts(u) /\ account'[u] = a
  BY DEF TypeOK, OtherAccounts

LEMMA InvitationWritten ==
  ASSUME TypeOK, NEW i \in Invitations, NEW r \in Rows, inv' = [inv EXCEPT ![i] = r],
         inv[i].status # "absent" =>
            /\ r.status # "absent" /\ r.org = inv[i].org /\ r.user = inv[i].user
            /\ inv[i].token <= r.token,
         r.status # "absent" => r.org \in Orgs /\ r.user \in Users
  PROVE  /\ InvitationsStay /\ inv'[i] = r
         /\ \A k \in Invitations \ {i} : inv'[k] = inv[k]
<1>1. /\ inv' \in [Invitations -> Rows] /\ inv'[i] = r
      /\ \A k \in Invitations \ {i} : inv'[k] = inv[k]
  BY DEF TypeOK, InvitationTypeOK
<1>2. \A k \in Invitations : inv[k].token \in Nat
  BY InvitationFields
<1>. QED
  BY <1>1, <1>2 DEF InvitationsStay, TypeOK, InvitationTypeOK

LEMMA InvitationsRest ==
  ASSUME TypeOK, UNCHANGED inv
  PROVE  InvitationsStay
<1>1. \A k \in Invitations : inv[k].token \in Nat
  BY InvitationFields
<1>. QED
  BY <1>1 DEF InvitationsStay, TypeOK, InvitationTypeOK

\* The columns an update assigns.
NewRole(r) == IF r.role = Same THEN r.seat.role ELSE r.role
NewStatus(r) == IF r.status = Same THEN r.seat.status
                ELSE IF r.status = "active" THEN "active" ELSE "deactivated"
NewAccount(r) == IF r.status = Same THEN r.account ELSE r.status
Disabled(o, u) == {p \in Orgs \ {o} : u \in Owners(p) /\ account'[u] # "active"}

LEMMA CommitUpdateDoes ==
  ASSUME TypeOK, DeletionSeen, NEW t \in Requests, CommitUpdate(t)
  PROVE  LET r == req[t]
             o == r.org
             u == r.user IN
         /\ r.op = "update" /\ r.phase = "ready" /\ SeatFree(t, o, u)
         /\ o \in Orgs /\ u \in Users
         /\ \/ Fail(t)
            \/ /\ OtherSeats(o, u) /\ OtherAccounts(u) /\ End(t)
               /\ r.gone => seat'[o][u] = seat[o][u]
                            /\ NewStatus(r) = r.seat.status
               /\ ~r.gone =>
                     /\ seat'[o][u].role = Emit(NewRole(r), r.seat.role, seat[o][u].role)
                     /\ seat'[o][u].status =
                           Emit(NewStatus(r), r.seat.status, seat[o][u].status)
                     /\ seat'[o][u] # NoSeat
               /\ account'[u] = Emit(NewAccount(r), r.account, account[u])
               /\ crossed' = crossed \cup Disabled(o, u)
               /\ stale' = Staleness(t)
               /\ UNCHANGED <<inv, rerolled, miscounted, used, reused>>
<1>. DEFINE r == req[t]
            o == r.org
            u == r.user
            x == Emit(NewRole(r), r.seat.role, seat[o][u].role)
            y == Emit(NewStatus(r), r.seat.status, seat[o][u].status)
            s == IF r.gone THEN seat[o][u] ELSE [role |-> x, status |-> y]
            a == Emit(NewAccount(r), r.account, account[u])
<1>1. /\ r.op = "update" /\ r.phase = "ready" /\ SeatFree(t, o, u)
      /\ o \in Orgs /\ u \in Users
  BY RequestFields DEF CommitUpdate, Ready, WellFormed, MemberOps
<1>2. /\ seat[o][u] \in Seats /\ account[u] \in Accounts
      /\ r.seat \in Seats /\ r.account \in Accounts /\ r.role \in Roles \cup {Same}
      /\ r.status \in {"active", "disabled", Same}
  BY <1>1, RequestFields DEF TypeOK
<1>3. Same \notin Roles /\ Same \notin {"active", "disabled"}
  BY RoleNames DEF Same
<1>4. /\ r.seat.role \in Roles /\ r.seat.status \in {"none", "active", "deactivated"}
      /\ seat[o][u].role \in Roles /\ seat[o][u].status \in {"none", "active", "deactivated"}
      /\ seat[o][u] # NoSeat => seat[o][u].status \in {"active", "deactivated"}
      /\ r.seat # NoSeat => r.seat.status \in {"active", "deactivated"}
  BY <1>2, RoleNames DEF Seats, NoSeat
<1>5. NewRole(r) \in Roles /\ NewAccount(r) \in Accounts
  BY <1>2, <1>3, <1>4 DEF NewRole, NewAccount, Accounts
<1>6. r.seat # NoSeat /\ (seat[o][u] = NoSeat => r.gone)
  BY <1>1, RequestFields DEF WellFormed, DeletionSeen, MemberOps
<1>7. NewStatus(r) \in {"active", "deactivated"} /\ a \in Accounts
  BY <1>2, <1>4, <1>5, <1>6 DEF NewStatus, Emit
<1>8. ~r.gone => x \in Roles /\ y \in {"active", "deactivated"}
  BY <1>4, <1>5, <1>6, <1>7 DEF Emit
<1>9. s \in Seats
  <2>1. CASE r.gone
    BY <1>2, <2>1
  <2>2. CASE ~r.gone
    <3>. HIDE DEF x, y
    <3>. QED
      BY <1>8, <2>2 DEF Seats
  <2>. QED
    BY <2>1, <2>2, <1>2 DEF Loaded
<1>10. CASE Fail(t)
  BY <1>1, <1>10
<1>11. CASE ~Fail(t)
  <2>1. /\ r.gone => NewRole(r) = r.seat.role /\ NewStatus(r) = r.seat.status
        /\ seat' = [seat EXCEPT ![o][u] = s]
        /\ account' = [account EXCEPT ![u] = a]
        /\ crossed' = crossed \cup Disabled(o, u)
        /\ stale' = Staleness(t)
        /\ End(t)
        /\ UNCHANGED <<inv, rerolled, miscounted, used, reused>>
    <3>. DEFINE role == IF r.role = Same THEN r.seat.role ELSE r.role
                status == CASE r.status = Same       -> r.seat.status
                            [] r.status = "active"   -> "active"
                            [] r.status = "disabled" -> "deactivated"
    <3>1. role = NewRole(r) /\ status = NewStatus(r)
      <4>1. CASE r.status = Same
        BY <1>3, <4>1 DEF NewRole, NewStatus
      <4>2. CASE r.status = "active"
        BY <1>3, <4>2 DEF NewRole, NewStatus, Same
      <4>3. CASE r.status = "disabled"
        BY <1>3, <4>3 DEF NewRole, NewStatus, Same
      <4>. QED
        BY <1>2, <4>1, <4>2, <4>3
    <3>2. /\ ~(r.gone /\ <<role, status>> # <<r.seat.role, r.seat.status>>)
          /\ seat' = [seat EXCEPT ![o][u] =
                  IF r.gone THEN @
                  ELSE [role   |-> Emit(role, r.seat.role, @.role),
                        status |-> Emit(status, r.seat.status, @.status)]]
          /\ account' = [account EXCEPT ![u] = Emit(NewAccount(r), r.account, @)]
          /\ crossed' = crossed \cup Disabled(o, u)
          /\ stale' = Staleness(t)
          /\ End(t)
          /\ UNCHANGED <<inv, rerolled, miscounted, used, reused>>
      BY <1>11 DEF CommitUpdate, NewAccount, Disabled
    <3>. HIDE DEF role, status
    <3>3. seat' = [seat EXCEPT ![o][u] = s] /\ account' = [account EXCEPT ![u] = a]
      BY <3>1, <3>2
    <3>4. r.gone => NewRole(r) = r.seat.role /\ NewStatus(r) = r.seat.status
      BY <3>1, <3>2
    <3>. QED
      BY <3>2, <3>3, <3>4
  <2>2. OtherSeats(o, u) /\ seat'[o][u] = s
    <3>. HIDE DEF s, o, u
    <3>. QED
      BY <1>1, <1>9, <2>1, SeatWritten
  <2>3. OtherAccounts(u) /\ account'[u] = a
    BY <1>1, <1>7, <2>1, AccountWritten
  <2>4. ~r.gone => /\ seat'[o][u].role = x /\ seat'[o][u].status = y
                   /\ seat'[o][u] # NoSeat
    <3>. HIDE DEF x, y
    <3>. QED
      BY <1>8, <2>2 DEF NoSeat
  <2>. QED
    BY <1>1, <2>1, <2>2, <2>3, <2>4
<1>. QED
  BY <1>10, <1>11

\* Another request goes on with what it loaded; a removal tells it at most that
\* a row is gone.
KeepsOn(s) ==
    /\ req'[s] \in Loaded
    /\ req'[s].op = req[s].op /\ req'[s].phase = req[s].phase
    /\ req'[s].org = req[s].org /\ req'[s].user = req[s].user
    /\ req'[s].inv = req[s].inv /\ req'[s].role = req[s].role
    /\ req'[s].status = req[s].status /\ req'[s].seat = req[s].seat
    /\ req'[s].held = req[s].held
    /\ req[s].gone => req'[s].gone
OthersKeepOn(t) == \A s \in Requests \ {t} : KeepsOn(s)

LEMMA StayIsKeepOn ==
  ASSUME TypeOK, NEW t \in Requests, OthersStay(t)
  PROVE  OthersKeepOn(t)
  BY RequestFields DEF OthersStay, OthersKeepOn, KeepsOn

LEMMA CommitRemoveDoes ==
  ASSUME TypeOK, NEW t \in Requests, CommitRemove(t)
  PROVE  LET r == req[t]
             o == r.org
             u == r.user IN
         /\ r.op = "remove" /\ r.phase = "ready" /\ SeatFree(t, o, u)
         /\ o \in Orgs /\ u \in Users
         /\ \/ Fail(t)
            \/ /\ OtherSeats(o, u) /\ seat'[o][u] = NoSeat
               /\ req' \in [Requests -> Loaded] /\ req'[t] = Idle /\ OthersKeepOn(t)
               /\ \A s \in Requests \ {t} :
                     /\ req'[s].want \in {req[s].want, req[s].want \ {u}}
                     /\ req[s].org # o => req'[s].want = req[s].want
                     /\ req[s].org = o /\ req[s].user = u /\ req[s].seat # NoSeat
                           => req'[s].gone
               /\ stale' = Staleness(t)
               /\ UNCHANGED <<account, inv, crossed, rerolled, miscounted, used, reused>>
<1>. DEFINE r == req[t]
            o == r.org
            u == r.user
            Loses(q) == [q EXCEPT !.want = @ \ {u},
                                  !.gone = @ \/ (q.user = u /\ q.seat # NoSeat)]
<1>1. /\ r.op = "remove" /\ r.phase = "ready" /\ SeatFree(t, o, u)
      /\ o \in Orgs /\ u \in Users
  BY RequestFields DEF CommitRemove, Ready, WellFormed, MemberOps
<1>2. CASE Fail(t)
  BY <1>1, <1>2
<1>3. CASE ~Fail(t)
  <2>1. /\ seat' = [seat EXCEPT ![o][u] = NoSeat]
        /\ req' = [other \in Requests |->
                     IF other = t THEN Idle
                     ELSE IF req[other].org = o THEN Loses(req[other])
                     ELSE req[other]]
        /\ stale' = Staleness(t)
        /\ UNCHANGED <<account, inv, crossed, rerolled, miscounted, used, reused>>
    BY <1>3 DEF CommitRemove
  <2>2. OtherSeats(o, u) /\ seat'[o][u] = NoSeat
    BY <1>1, <2>1, SeatWritten, RoleNames
  <2>3. ASSUME NEW q \in Loaded
        PROVE  /\ Loses(q) \in Loaded
               /\ Loses(q).op = q.op /\ Loses(q).phase = q.phase /\ Loses(q).org = q.org
               /\ Loses(q).user = q.user /\ Loses(q).inv = q.inv /\ Loses(q).role = q.role
               /\ Loses(q).status = q.status /\ Loses(q).seat = q.seat
               /\ Loses(q).held = q.held /\ Loses(q).want = q.want \ {u}
               /\ Loses(q).gone <=> q.gone \/ (q.user = u /\ q.seat # NoSeat)
    <3>. DEFINE g == q.gone \/ (q.user = u /\ q.seat # NoSeat)
    <3>1. g \in BOOLEAN
      BY <2>3 DEF Loaded
    <3>2. Loses(q) = [q EXCEPT !.want = @ \ {u}, !.gone = g]
      OBVIOUS
    <3>. HIDE DEF g, Loses
    <3>3. Loses(q) \in Loaded
      BY <2>3, <3>1, <3>2 DEF Loaded
    <3>4. /\ Loses(q).op = q.op /\ Loses(q).phase = q.phase /\ Loses(q).org = q.org
          /\ Loses(q).user = q.user /\ Loses(q).inv = q.inv /\ Loses(q).role = q.role
          /\ Loses(q).status = q.status /\ Loses(q).seat = q.seat
          /\ Loses(q).held = q.held /\ Loses(q).want = q.want \ {u}
          /\ Loses(q).gone = g
      BY <2>3, <3>1, <3>2 DEF Loaded
    <3>. QED
      BY <3>3, <3>4 DEF g
  <2>. HIDE DEF Loses
  <2>4. req'[t] = Idle
    BY <2>1
  <2>5. ASSUME NEW s \in Requests \ {t}
        PROVE  /\ req[s] \in Loaded
               /\ \/ req[s].org = o /\ req'[s] = Loses(req[s])
                  \/ req[s].org # o /\ req'[s] = req[s]
    <3>1. s \in Requests /\ s # t /\ req[s] \in Loaded
      BY RequestFields
    <3>2. req'[s] = IF req[s].org = o THEN Loses(req[s]) ELSE req[s]
      BY <2>1, <3>1
    <3>3. CASE req[s].org = o
      BY <3>1, <3>2, <3>3
    <3>4. CASE req[s].org # o
      BY <3>1, <3>2, <3>4
    <3>. QED
      BY <3>3, <3>4
  <2>6. ASSUME NEW s \in Requests \ {t}
        PROVE  /\ KeepsOn(s)
               /\ req'[s].want \in {req[s].want, req[s].want \ {u}}
               /\ req[s].org # o => req'[s].want = req[s].want
               /\ req[s].org = o /\ req[s].user = u /\ req[s].seat # NoSeat
                     => req'[s].gone
    <3>1. CASE req[s].org = o /\ req'[s] = Loses(req[s])
      BY <2>3, <2>5, <3>1 DEF KeepsOn
    <3>2. CASE req[s].org # o /\ req'[s] = req[s]
      BY <2>5, <3>2 DEF KeepsOn
    <3>. QED
      BY <2>5, <3>1, <3>2
  <2>7. req' \in [Requests -> Loaded]
    <3>1. \A s \in Requests : req'[s] \in Loaded
      BY <2>4, <2>6, IdleTyped DEF KeepsOn
    <3>2. req' = [s \in Requests |-> req'[s]]
      BY <2>1
    <3>. QED
      BY <3>1, <3>2
  <2>. QED
    BY <1>1, <2>1, <2>2, <2>4, <2>6, <2>7 DEF OthersKeepOn
<1>. QED
  BY <1>2, <1>3

LEMMA CommitHealDoes ==
  ASSUME TypeOK, NEW t \in Requests, CommitHeal(t)
  PROVE  LET o == req[t].org
             u == req[t].user IN
         /\ req[t].op = "heal" /\ o \in Orgs /\ u \in Users
         /\ \/ Fail(t)
            \/ /\ OtherSeats(o, u) /\ End(t)
               /\ seat[o][u] = NoSeat /\ seat'[o][u] = OwnerSeat
               /\ UNCHANGED <<account, inv, history>>
<1>. DEFINE o == req[t].org
            u == req[t].user
<1>1. req[t].op = "heal" /\ o \in Orgs /\ u \in Users
  BY RequestFields DEF CommitHeal, Ready, WellFormed
<1>2. CASE seat[o][u] # NoSeat
  BY <1>1, <1>2 DEF CommitHeal
<1>3. CASE seat[o][u] = NoSeat
  <2>1. OtherSeats(o, u) /\ seat'[o][u] = OwnerSeat
    BY <1>1, <1>3, SeatWritten, RoleNames DEF CommitHeal
  <2>. QED
    BY <1>1, <1>3, <2>1 DEF CommitHeal
<1>. QED
  BY <1>2, <1>3

LEMMA CommitAcceptDoes ==
  ASSUME TypeOK, DeletionSeen, NEW t \in Requests, CommitAccept(t)
  PROVE  LET i == req[t].inv
             o == req[t].org
             u == req[t].user
             token == <<i, inv[i].token>> IN
         /\ req[t].op = "accept" /\ SeatFree(t, o, u)
         /\ i \in Invitations /\ inv[i].status # "absent" /\ o \in Orgs /\ u \in Users
         /\ \/ Fail(t)
            \/ /\ OtherSeats(o, u) /\ OtherAccounts(u) /\ End(t)
               /\ seat'[o][u].role \in {inv[i].role, seat[o][u].role}
               /\ seat[o][u].status = "active" => seat'[o][u].status = "active"
               /\ seat'[o][u] # NoSeat
               /\ account'[u] = IF account[u] = "none" THEN "active" ELSE account[u]
               /\ InvitationsStay /\ \A k \in Invitations \ {i} : inv'[k] = inv[k]
               /\ inv'[i].status = "accepted" /\ inv'[i].token = inv[i].token
               /\ rerolled' = IF u \in Owners(o) /\ inv[i].role # "owner"
                              THEN rerolled \cup {o} ELSE rerolled
               /\ used' = used \cup {token}
               /\ reused' = IF token \in used THEN reused \cup {token} ELSE reused
               /\ UNCHANGED <<stale, crossed, miscounted>>
<1>. DEFINE i == req[t].inv
            o == req[t].org
            u == req[t].user
            token == <<i, inv[i].token>>
<1>1. /\ req[t].op = "accept" /\ SeatFree(t, o, u)
      /\ i \in Invitations /\ inv[i].status # "absent" /\ o \in Orgs /\ u \in Users
  BY RequestFields DEF CommitAccept, Ready, WellFormed, LinkOps
<1>2. CASE Fail(t)
  BY <1>1, <1>2
<1>3. CASE ~Fail(t)
  <2>1. PICK loaded \in {req[t].seat, seat[o][u]} :
          /\ ~(loaded = NoSeat /\ seat[o][u] # NoSeat)
          /\ ~(loaded # NoSeat /\ loaded # seat[o][u] /\ req[t].gone)
          /\ account' = [account EXCEPT ![u] = IF @ = "none" THEN "active" ELSE @]
          /\ seat' = [seat EXCEPT ![o][u] =
                [role   |-> Emit(inv[i].role, IF loaded = NoSeat THEN None ELSE loaded.role,
                                 @.role),
                 status |-> Emit("active", loaded.status, @.status)]]
          /\ inv' = [inv EXCEPT ![i].status = "accepted"]
          /\ rerolled' = IF u \in Owners(o) /\ inv[i].role # "owner"
                         THEN rerolled \cup {o} ELSE rerolled
          /\ used' = used \cup {token}
          /\ reused' = IF token \in used THEN reused \cup {token} ELSE reused
          /\ End(t)
          /\ UNCHANGED <<stale, crossed, miscounted>>
    BY <1>3 DEF CommitAccept
  <2>. DEFINE x == Emit(inv[i].role, IF loaded = NoSeat THEN None ELSE loaded.role,
                        seat[o][u].role)
              y == Emit("active", loaded.status, seat[o][u].status)
              s == [role |-> x, status |-> y]
              a == IF account[u] = "none" THEN "active" ELSE account[u]
              row == [inv[i] EXCEPT !.status = "accepted"]
  <2>2. /\ seat[o][u] \in Seats /\ account[u] \in Accounts /\ inv[i].role \in Roles
        /\ inv[i] \in Rows
    BY <1>1, InvitationFields DEF TypeOK
  <2>3. x \in {inv[i].role, seat[o][u].role} /\ x \in Roles
    BY <2>2, RoleNames DEF Emit, Seats, NoSeat
  <2>4. /\ y \in {"active", "deactivated"}
        /\ seat[o][u].status = "active" => y = "active"
    <3>1. CASE seat[o][u] = NoSeat
      <4>1. loaded = NoSeat
        BY <1>1, <2>1, <3>1 DEF DeletionSeen
      <4>. QED
        BY <3>1, <4>1 DEF Emit, NoSeat
    <3>2. CASE seat[o][u] # NoSeat
      BY <2>2, <3>2 DEF Emit, Seats
    <3>. QED
      BY <3>1, <3>2
  <2>. HIDE DEF x, y
  <2>5. s \in Seats /\ s.role = x /\ s.status = y /\ s # NoSeat
    BY <2>3, <2>4 DEF Seats, NoSeat
  <2>6. seat' = [seat EXCEPT ![o][u] = s]
    BY <2>1 DEF x, y
  <2>7. OtherSeats(o, u) /\ seat'[o][u] = s
    <3>. HIDE DEF s, o, u
    <3>. QED
      BY <1>1, <2>5, <2>6, SeatWritten
  <2>8. OtherAccounts(u) /\ account'[u] = a
    <3>1. a \in Accounts /\ account' = [account EXCEPT ![u] = a]
      BY <2>1, <2>2 DEF Accounts
    <3>. HIDE DEF a, u
    <3>. QED
      BY <1>1, <3>1, AccountWritten
  <2>9. row \in Rows /\ row.status = "accepted" /\ row.org = inv[i].org
        /\ row.user = inv[i].user /\ row.token = inv[i].token
    BY <2>2 DEF Rows, InvitationStatuses
  <2>10. /\ InvitationsStay /\ inv'[i] = row
         /\ \A k \in Invitations \ {i} : inv'[k] = inv[k]
    <3>1. inv' = [inv EXCEPT ![i] = row]
      BY <2>1
    <3>2. /\ inv[i].token <= row.token
          /\ row.org \in Orgs /\ row.user \in Users
      BY <1>1, <2>9, InvitationFields
    <3>. HIDE DEF row, i
    <3>. QED
      BY <1>1, <2>9, <3>1, <3>2, InvitationWritten
  <2>. QED
    BY <1>1, <2>1, <2>3, <2>4, <2>5, <2>7, <2>8, <2>9, <2>10
<1>. QED
  BY <1>2, <1>3

LEMMA CommitCreateDoes ==
  ASSUME TypeOK, NEW t \in Requests, CommitCreate(t)
  PROVE  LET old == req[t].inv IN
         /\ req[t].op = "create"
         /\ old # None => old \in Invitations /\ inv[old].status # "absent"
                          /\ InvitationFree(t, old)
         /\ \/ Fail(t)
            \/ /\ End(t) /\ InvitationsStay /\ UNCHANGED <<account, seat, history>>
               /\ \E i \in Invitations :
                     /\ inv[i].status = "absent" /\ ~Clashes(inv', i)
                     /\ inv'[i].token = 1
                     /\ \A k \in Invitations \ {i} :
                           \/ inv'[k] = inv[k]
                           \/ /\ k = old /\ old # None /\ inv'[k].status = "revoked"
                              /\ inv'[k].token = inv[k].token
<1>. DEFINE old == req[t].inv
            revoked == IF old = None THEN inv ELSE [inv EXCEPT ![old].status = "revoked"]
<1>1. /\ req[t].op = "create" /\ req[t].org \in Orgs /\ req[t].user \in Users
      /\ req[t].role \in Roles
      /\ old # None => old \in Invitations /\ inv[old].status # "absent"
                       /\ InvitationFree(t, old)
  BY RequestFields DEF CommitCreate, Ready, WellFormed
<1>2. CASE Fail(t)
  BY <1>1, <1>2
<1>3. CASE ~Fail(t)
  <2>1. PICK i \in Invitations :
          /\ inv[i].status = "absent" /\ End(t) /\ UNCHANGED <<account, seat, history>>
          /\ inv' = [revoked EXCEPT ![i] =
                       [status |-> "pending", org |-> req[t].org, user |-> req[t].user,
                        role |-> req[t].role, token |-> 1, expired |-> FALSE]]
          /\ ~Clashes(inv', i)
    BY <1>3 DEF CommitCreate
  <2>. DEFINE row == [status |-> "pending", org |-> req[t].org, user |-> req[t].user,
                      role |-> req[t].role, token |-> 1, expired |-> FALSE]
  <2>2. row \in Rows /\ row.status = "pending" /\ row.token = 1
        /\ row.org = req[t].org /\ row.user = req[t].user
    BY <1>1, OrganizationAssumption DEF Rows, InvitationStatuses
  <2>3. ASSUME NEW k \in Invitations
        PROVE  /\ revoked[k] \in Rows
               /\ revoked[k].org = inv[k].org /\ revoked[k].user = inv[k].user
               /\ revoked[k].token = inv[k].token
               /\ \/ revoked[k] = inv[k]
                  \/ k = old /\ old # None /\ revoked[k].status = "revoked"
    <3>1. inv \in [Invitations -> Rows]
      BY DEF TypeOK, InvitationTypeOK
    <3>2. CASE old = None
      BY <3>1, <3>2
    <3>3. CASE old # None /\ k # old
      BY <1>1, <3>1, <3>3
    <3>4. CASE old # None /\ k = old
      <4>1. revoked[k] = [inv[k] EXCEPT !.status = "revoked"]
        BY <1>1, <3>1, <3>4
      <4>. QED
        BY <3>1, <3>4, <4>1 DEF Rows, InvitationStatuses
    <3>. QED
      BY <3>2, <3>3, <3>4
  <2>4. /\ DOMAIN revoked = Invitations
        /\ revoked = [k \in Invitations |-> revoked[k]]
    BY DEF TypeOK, InvitationTypeOK
  <2>. HIDE DEF row, revoked
  <2>5. /\ inv' \in [Invitations -> Rows] /\ inv'[i] = row
        /\ \A k \in Invitations \ {i} : inv'[k] = revoked[k]
    <3>1. inv' = [revoked EXCEPT ![i] = row]
      BY <2>1 DEF row
    <3>. QED
      BY <2>2, <2>3, <2>4, <3>1
  <2>6. \A k \in Invitations : inv[k].token \in Nat
    BY InvitationFields
  <2>7. \A k \in Invitations : inv'[k].status # "absent" =>
            inv'[k].org \in Orgs /\ inv'[k].user \in Users
    <3>1. ASSUME NEW k \in Invitations, k # i, inv'[k].status # "absent"
          PROVE  inv[k].status # "absent" /\ inv'[k].org = inv[k].org
                 /\ inv'[k].user = inv[k].user
      BY <1>1, <2>3, <2>5, <3>1
    <3>. QED
      BY <1>1, <2>2, <2>5, <3>1, InvitationFields
  <2>8. InvitationsStay
    <3>1. ASSUME NEW k \in Invitations, inv[k].status # "absent"
          PROVE  /\ inv'[k].status # "absent"
                 /\ inv'[k].org = inv[k].org /\ inv'[k].user = inv[k].user
                 /\ inv[k].token <= inv'[k].token
      <4>1. k # i /\ inv'[k] = revoked[k]
        BY <2>1, <2>5, <3>1
      <4>. QED
        BY <2>3, <2>6, <3>1, <4>1
    <3>. QED
      BY <2>5, <2>7, <3>1 DEF InvitationsStay, InvitationTypeOK
  <2>. QED
    BY <1>1, <2>1, <2>2, <2>3, <2>5, <2>8
<1>. QED
  BY <1>2, <1>3

LEMMA CommitRevokeDoes ==
  ASSUME TypeOK, NEW t \in Requests, CommitRevoke(t)
  PROVE  LET i == req[t].inv IN
         /\ req[t].op = "revoke" /\ i \in Invitations /\ InvitationFree(t, i)
         /\ End(t) /\ InvitationsStay /\ UNCHANGED <<account, seat, history>>
         /\ inv'[i].status = "revoked" /\ inv'[i].token = inv[i].token
         /\ \A k \in Invitations \ {i} : inv'[k] = inv[k]
<1>. DEFINE i == req[t].inv
            row == [inv[i] EXCEPT !.status = "revoked"]
<1>1. /\ req[t].op = "revoke" /\ i \in Invitations /\ inv[i].status # "absent"
      /\ InvitationFree(t, i) /\ End(t) /\ UNCHANGED <<account, seat, history>>
      /\ inv' = [inv EXCEPT ![i] = row]
  BY RequestFields DEF CommitRevoke, Ready, WellFormed, LinkOps
<1>2. /\ row \in Rows /\ row.status = "revoked" /\ row.org = inv[i].org
      /\ row.user = inv[i].user /\ row.token = inv[i].token
      /\ row.org \in Orgs /\ row.user \in Users /\ inv[i].token <= row.token
  BY <1>1, InvitationFields DEF Rows, InvitationStatuses
<1>. HIDE DEF row, i
<1>3. /\ InvitationsStay /\ inv'[i] = row
      /\ \A k \in Invitations \ {i} : inv'[k] = inv[k]
  BY <1>1, <1>2, InvitationWritten
<1>. QED
  BY <1>1, <1>2, <1>3 DEF i

LEMMA CommitResendDoes ==
  ASSUME TypeOK, NEW t \in Requests, CommitResend(t)
  PROVE  LET i == req[t].inv IN
         /\ req[t].op = "resend" /\ i \in Invitations /\ InvitationFree(t, i)
         /\ \/ Fail(t)
            \/ /\ End(t) /\ InvitationsStay /\ UNCHANGED <<account, seat, history>>
               /\ ~Clashes(inv', i)
               /\ inv'[i].token = inv[i].token + 1
               /\ inv'[i].status \in {inv[i].status, "pending"}
               /\ \A k \in Invitations \ {i} : inv'[k] = inv[k]
<1>. DEFINE i == req[t].inv
            x == Emit("pending", req[t].seen, inv[i].status)
            row == [inv[i] EXCEPT !.status = x, !.token = inv[i].token + 1,
                                  !.expired = FALSE]
            new == [inv EXCEPT ![i].status = Emit("pending", req[t].seen, @),
                               ![i].token = FreshToken(i), ![i].expired = FALSE]
<1>1. /\ req[t].op = "resend" /\ i \in Invitations /\ inv[i].status # "absent"
      /\ InvitationFree(t, i)
  BY RequestFields DEF CommitResend, Ready, WellFormed, LinkOps
<1>2. CASE Fail(t)
  BY <1>1, <1>2
<1>3. CASE ~Fail(t)
  <2>1. /\ ~Clashes(new, i) /\ new[i].token <= MaxTokens /\ inv' = new
        /\ End(t) /\ UNCHANGED <<account, seat, history>>
    BY <1>3 DEF CommitResend
  <2>2. new = [inv EXCEPT ![i] = row]
    BY <1>1 DEF FreshToken, TypeOK, InvitationTypeOK
  <2>3. x \in {inv[i].status, "pending"}
    BY DEF Emit
  <2>. HIDE DEF x
  <2>4. /\ row.status = x /\ row.org = inv[i].org
        /\ row.user = inv[i].user /\ row.token = inv[i].token + 1
        /\ row.org \in Orgs /\ row.user \in Users /\ inv[i].token <= row.token
        /\ inv[i] \in Rows /\ inv[i].status \in InvitationStatuses
    BY <1>1, InvitationFields DEF Rows
  <2>5. new[i] = row
    BY <1>1, <2>2 DEF TypeOK, InvitationTypeOK
  <2>6. row \in Rows
    <3>1. row.token \in 0 .. MaxTokens
      <4>1. inv[i].token \in Nat /\ MaxTokens \in Nat
        BY <1>1, InvitationFields
      <4>2. row.token <= MaxTokens
        BY <2>1, <2>5
      <4>. QED
        BY <2>4, <4>1, <4>2
    <3>2. x \in InvitationStatuses
      BY <2>3, <2>4 DEF InvitationStatuses
    <3>. QED
      BY <2>4, <3>1, <3>2 DEF Rows
  <2>7. inv' = [inv EXCEPT ![i] = row] /\ ~Clashes(inv', i)
    BY <2>1, <2>2
  <2>8. x # "absent"
    BY <1>1, <2>3
  <2>. HIDE DEF row, i, new
  <2>9. /\ InvitationsStay /\ inv'[i] = row
        /\ \A k \in Invitations \ {i} : inv'[k] = inv[k]
    BY <1>1, <2>4, <2>6, <2>7, <2>8, InvitationWritten
  <2>. QED
    BY <1>1, <2>1, <2>3, <2>4, <2>7, <2>9 DEF i
<1>. QED
  BY <1>2, <1>3

\* The two statements of _owner_count.
LEMMA CountOwnersDoes ==
  ASSUME TypeOK, NEW t \in Requests, CountOwners(t)
  PROVE  /\ UNCHANGED <<account, seat, inv, history>> /\ OthersStay(t)
         /\ req' \in [Requests -> Loaded]
         /\ req[t].phase = "guard" /\ req'[t].phase = "lock"
         /\ req'[t].op = req[t].op /\ req'[t].org = req[t].org
         /\ req'[t].user = req[t].user /\ req'[t].seat = req[t].seat
         /\ req'[t].gone = req[t].gone
         /\ req'[t].inv = req[t].inv /\ req'[t].role = req[t].role
         /\ req'[t].held = req[t].held /\ WellFormed(req[t])'
<1>. DEFINE r == [req[t] EXCEPT !.phase = "lock", !.want = Owners(req[t].org)]
<1>1. req[t].phase = "guard" /\ req[t] \in Loaded /\ WellFormed(req[t])
  BY RequestFields DEF CountOwners
<1>2. Owners(req[t].org) \in SUBSET Users
  BY DEF Owners, OwnersIn
<1>3. /\ r \in Loaded /\ r.phase = "lock" /\ r.op = req[t].op /\ r.org = req[t].org
      /\ r.user = req[t].user /\ r.seat = req[t].seat /\ r.gone = req[t].gone
      /\ r.inv = req[t].inv /\ r.role = req[t].role /\ r.held = req[t].held
  <2>. DEFINE q == req[t]
              o == Owners(req[t].org)
  <2>. HIDE DEF q, o
  <2>1. [q EXCEPT !.phase = "lock", !.want = o] \in Loaded
    BY <1>1, <1>2 DEF Loaded, q, o
  <2>. QED
    BY <1>1, <2>1 DEF Loaded, q, o
<1>4. /\ req' = [req EXCEPT ![t] = r] /\ UNCHANGED <<account, seat, inv, history>>
  BY DEF CountOwners, TypeOK, RequestTypeOK
<1>. HIDE DEF r
<1>5. req'[t] = r /\ OthersStay(t) /\ req' \in [Requests -> Loaded]
  BY <1>3, <1>4 DEF OthersStay, TypeOK, RequestTypeOK
<1>6. WellFormed(req[t])'
  <2>1. inv' = inv /\ r.held = {}
    BY <1>1, <1>3, <1>4 DEF WellFormed
  <2>. QED
    BY <1>1, <1>3, <1>5, <2>1 DEF WellFormed
<1>. QED
  BY <1>1, <1>3, <1>4, <1>5, <1>6

LEMMA LockOwnersDoes ==
  ASSUME TypeOK, NEW t \in Requests, LockOwners(t)
  PROVE  LET owners == {u \in req[t].want : seat[req[t].org][u] = OwnerSeat} IN
         /\ req[t].phase = "lock"
         /\ \/ Fail(t)
            \/ /\ UNCHANGED <<account, seat, inv, stale, crossed, rerolled, used, reused>>
               /\ OthersStay(t) /\ req' \in [Requests -> Loaded]
               /\ req'[t].phase = "ready" /\ req'[t].held = req[t].want
               /\ req'[t].op = req[t].op /\ req'[t].org = req[t].org
               /\ req'[t].user = req[t].user /\ req'[t].seat = req[t].seat
               /\ req'[t].role = req[t].role /\ req'[t].status = req[t].status
               /\ req'[t].gone = req[t].gone /\ req'[t].inv = req[t].inv
               /\ WellFormed(req[t])'
               /\ Cardinality(owners) > 1
               /\ miscounted' = IF \E u \in owners : account[u] # "active"
                                THEN miscounted \cup {req[t].org} ELSE miscounted
<1>. DEFINE owners == {u \in req[t].want : seat[req[t].org][u] = OwnerSeat}
            r == [req[t] EXCEPT !.phase = "ready", !.held = req[t].want]
<1>1. req[t].phase = "lock" /\ req[t] \in Loaded /\ WellFormed(req[t])
  BY RequestFields DEF LockOwners
<1>2. CASE Fail(t)
  BY <1>1, <1>2
<1>3. CASE ~Fail(t)
  <2>1. /\ Cardinality(owners) > 1
        /\ req' = [req EXCEPT ![t].phase = "ready", ![t].held = req[t].want]
        /\ miscounted' = IF \E u \in owners : account[u] # "active"
                         THEN miscounted \cup {req[t].org} ELSE miscounted
        /\ UNCHANGED <<account, seat, inv, stale, crossed, rerolled, used, reused>>
    BY <1>3 DEF LockOwners, StillOwnerSeat
  <2>2. /\ r \in Loaded /\ r.phase = "ready" /\ r.op = req[t].op /\ r.org = req[t].org
        /\ r.user = req[t].user /\ r.seat = req[t].seat /\ r.gone = req[t].gone
        /\ r.inv = req[t].inv /\ r.role = req[t].role /\ r.status = req[t].status
        /\ r.held = req[t].want /\ r.want = req[t].want
    <3>. DEFINE q == req[t]
    <3>. HIDE DEF q
    <3>1. [q EXCEPT !.phase = "ready", !.held = q.want] \in Loaded
      BY <1>1 DEF Loaded, q
    <3>. QED
      BY <1>1, <3>1 DEF Loaded, q
  <2>3. req' = [req EXCEPT ![t] = r]
    BY <2>1 DEF TypeOK, RequestTypeOK
  <2>. HIDE DEF r, owners
  <2>4. req'[t] = r /\ OthersStay(t) /\ req' \in [Requests -> Loaded]
    BY <2>2, <2>3 DEF OthersStay, TypeOK, RequestTypeOK
  <2>5. WellFormed(req[t])'
    <3>1. inv' = inv
      BY <2>1
    <3>. QED
      BY <1>1, <2>2, <2>4, <3>1 DEF WellFormed
  <2>. QED
    BY <1>1, <2>1, <2>2, <2>4, <2>5 DEF owners
<1>. QED
  BY <1>2, <1>3

LEMMA ExpireDoes ==
  ASSUME TypeOK, NEW i \in Invitations, Expire(i)
  PROVE  /\ UNCHANGED <<account, seat, req, history>> /\ InvitationsStay
         /\ \A k \in Invitations : inv'[k].status = inv[k].status
                                   /\ inv'[k].token = inv[k].token
<1>. DEFINE row == [inv[i] EXCEPT !.expired = TRUE]
<1>1. inv' = [inv EXCEPT ![i] = row] /\ UNCHANGED <<account, seat, req, history>>
  BY DEF Expire, TypeOK, InvitationTypeOK
<1>2. /\ row \in Rows /\ row.status = inv[i].status /\ row.org = inv[i].org
      /\ row.user = inv[i].user /\ row.token = inv[i].token
      /\ inv[i].token <= row.token
      /\ row.status # "absent" => row.org \in Orgs /\ row.user \in Users
  <2>1. inv[i] \in Rows /\ inv[i].token \in Nat
    BY InvitationFields
  <2>2. /\ row \in Rows /\ row.status = inv[i].status /\ row.org = inv[i].org
        /\ row.user = inv[i].user /\ row.token = inv[i].token
    BY <2>1 DEF Rows
  <2>. HIDE DEF row
  <2>. QED
    BY <2>1, <2>2, InvitationFields
<1>. HIDE DEF row
<1>3. InvitationsStay /\ inv'[i] = row /\ \A k \in Invitations \ {i} : inv'[k] = inv[k]
  BY <1>1, <1>2, InvitationWritten
<1>. QED
  BY <1>1, <1>2, <1>3

-----------------------------------------------------------------------------
(***************************************************************************)
(* The state stays well formed.                                            *)
(***************************************************************************)

\* A seat that is taken is not lost, except by the removal of its holder.
SeatsStay ==
    /\ seat' \in [Orgs -> [Users -> Seats]]
    /\ \A o \in Orgs, u \in Users : seat[o][u] # NoSeat => seat'[o][u] # NoSeat
HistoriesTyped ==
    /\ stale \cup crossed \cup rerolled \cup miscounted \subseteq Orgs
    /\ used \subseteq Invitations \X (0 .. MaxTokens) /\ reused \subseteq used

\* A request that goes on stays well formed, whatever became of its invitation.
LEMMA RequestKept ==
  ASSUME TypeOK, InvitationsStay, NEW s \in Requests, KeepsOn(s),
         req'[s].held \subseteq req'[s].want
  PROVE  WellFormed(req[s])'
<1>1. WellFormed(req[s])
  BY RequestFields
<1>2. \A i \in Invitations : inv[i].status # "absent" => inv'[i].status # "absent"
  BY DEF InvitationsStay
<1>. QED
  BY <1>1, <1>2 DEF WellFormed, KeepsOn

LEMMA StateTyped ==
  ASSUME TypeOK, InvitationsStay, NEW t \in Requests,
         req' \in [Requests -> Loaded], WellFormed(req[t])', OthersStay(t),
         account' \in [Users -> Accounts], seat' \in [Orgs -> [Users -> Seats]],
         HistoriesTyped'
  PROVE  TypeOK'
<1>1. ASSUME NEW s \in Requests, s # t PROVE WellFormed(req[s])'
  <2>1. KeepsOn(s) /\ req'[s] = req[s]
    BY <1>1, StayIsKeepOn DEF OthersKeepOn, OthersStay
  <2>2. req'[s].held \subseteq req'[s].want
    BY <2>1, RequestFields DEF WellFormed
  <2>. QED
    BY <2>1, <2>2, RequestKept
<1>. QED
  BY <1>1 DEF TypeOK, RequestTypeOK, HistoriesTyped, InvitationsStay

LEMMA EndTyped ==
  ASSUME TypeOK, InvitationsStay, NEW t \in Requests, End(t),
         account' \in [Users -> Accounts], seat' \in [Orgs -> [Users -> Seats]],
         HistoriesTyped'
  PROVE  TypeOK'
<1>1. req'[t] = Idle /\ OthersStay(t) /\ req' = [req EXCEPT ![t] = Idle]
  BY EndDoes
<1>2. req' \in [Requests -> Loaded]
  BY <1>1, IdleTyped DEF TypeOK, RequestTypeOK
<1>3. WellFormed(req[t])'
  BY <1>1, IdleFields DEF WellFormed, MemberOps, LinkOps
<1>. QED
  BY <1>1, <1>2, <1>3, StateTyped

\* A loaded row that disappears is a row whose deletion is seen.
LEMMA DeletionKept ==
  ASSUME TypeOK, DeletionSeen, NEW s \in Requests, KeepsOn(s), SeatsStay
  PROVE  req'[s].op \in MemberOps \cup {"accept"} /\ req'[s].seat # NoSeat
           /\ seat'[req'[s].org][req'[s].user] = NoSeat => req'[s].gone
<1>1. req[s].op \in MemberOps \cup {"accept"} => req[s].org \in Orgs /\ req[s].user \in Users
  BY RequestFields DEF WellFormed
<1>. QED
  BY <1>1 DEF DeletionSeen, KeepsOn, SeatsStay

LEMMA DeletionKeptByEnd ==
  ASSUME TypeOK, DeletionSeen, NEW t \in Requests, End(t), SeatsStay
  PROVE  DeletionSeen'
<1>1. req'[t] = Idle /\ OthersKeepOn(t)
  BY EndDoes, StayIsKeepOn
<1>. QED
  BY <1>1, DeletionKept, IdleFields DEF DeletionSeen, OthersKeepOn, MemberOps

LEMMA FailTyped ==
  ASSUME TypeOK, DeletionSeen, NEW t \in Requests, Fail(t)
  PROVE  TypeOK' /\ DeletionSeen'
<1>1. End(t) /\ UNCHANGED <<account, seat, inv, history>>
  BY DEF Fail
<1>2. /\ account' \in [Users -> Accounts] /\ seat' \in [Orgs -> [Users -> Seats]]
      /\ HistoriesTyped' /\ SeatsStay
  BY <1>1 DEF TypeOK, HistoriesTyped, SeatsStay
<1>. QED
  BY <1>1, <1>2, InvitationsRest, EndTyped, DeletionKeptByEnd

\* A commit that ends its request and keeps every seat taken.
LEMMA EndKeeps ==
  ASSUME TypeOK, DeletionSeen, NEW t \in Requests, End(t), InvitationsStay,
         account' \in [Users -> Accounts], SeatsStay, HistoriesTyped'
  PROVE  TypeOK' /\ DeletionSeen'
  BY EndTyped, DeletionKeptByEnd DEF SeatsStay

LEMMA StaleTyped ==
  ASSUME TypeOK, NEW t \in Requests, stale' = Staleness(t), req[t].org \in Orgs
  PROVE  stale' \subseteq Orgs /\ stale \subseteq stale'
  BY DEF Staleness, TypeOK

LEMMA TypeStep ==
  ASSUME TypeOK, DeletionSeen, [Next]_vars
  PROVE  TypeOK' /\ DeletionSeen'
<1>. DEFINE Goal == TypeOK' /\ DeletionSeen'
<1>0. HistoriesTyped /\ account \in [Users -> Accounts] /\ seat \in [Orgs -> [Users -> Seats]]
  BY DEF TypeOK, HistoriesTyped
<1>1. CASE UNCHANGED vars
  BY <1>1 DEF vars, TypeOK, InvitationTypeOK, RequestTypeOK, WellFormed, DeletionSeen
<1>2. ASSUME NEW t \in Requests, Loads(t) PROVE Goal
  <2>1. /\ UNCHANGED <<account, seat, inv, history>> /\ OthersStay(t)
        /\ req' \in [Requests -> Loaded] /\ WellFormed(req[t])'
        /\ req'[t].op \in MemberOps \cup {"accept"} =>
              req'[t].seat = seat[req'[t].org][req'[t].user]
    BY <1>2, LoadsDo
  <2>2. HistoriesTyped' /\ InvitationsStay /\ SeatsStay
    BY <1>0, <2>1, InvitationsRest DEF HistoriesTyped, SeatsStay
  <2>3. TypeOK'
    BY <1>0, <2>1, <2>2, StateTyped
  <2>4. \A s \in Requests \ {t} : KeepsOn(s)
    BY <2>1, StayIsKeepOn DEF OthersKeepOn
  <2>5. DeletionSeen'
    BY <2>1, <2>2, <2>4, DeletionKept DEF DeletionSeen
  <2>. QED
    BY <2>3, <2>5
<1>3. ASSUME NEW t \in Requests, CountOwners(t) PROVE Goal
  <2>1. /\ UNCHANGED <<account, seat, inv, history>> /\ OthersStay(t)
        /\ req' \in [Requests -> Loaded] /\ WellFormed(req[t])'
        /\ req'[t].op = req[t].op /\ req'[t].org = req[t].org
        /\ req'[t].user = req[t].user /\ req'[t].seat = req[t].seat
        /\ req'[t].gone = req[t].gone
    BY <1>3, CountOwnersDoes
  <2>2. HistoriesTyped' /\ InvitationsStay /\ SeatsStay
    BY <1>0, <2>1, InvitationsRest DEF HistoriesTyped, SeatsStay
  <2>3. TypeOK'
    BY <1>0, <2>1, <2>2, StateTyped
  <2>4. \A s \in Requests \ {t} : KeepsOn(s)
    BY <2>1, StayIsKeepOn DEF OthersKeepOn
  <2>5. DeletionSeen'
    BY <2>1, <2>2, <2>4, DeletionKept DEF DeletionSeen
  <2>. QED
    BY <2>3, <2>5
<1>4. ASSUME NEW t \in Requests, LockOwners(t), ~Fail(t) PROVE Goal
  <2>1. /\ UNCHANGED <<account, seat, inv, stale, crossed, rerolled, used, reused>>
        /\ OthersStay(t)
        /\ req' \in [Requests -> Loaded] /\ WellFormed(req[t])'
        /\ req'[t].op = req[t].op /\ req'[t].org = req[t].org
        /\ req'[t].user = req[t].user /\ req'[t].seat = req[t].seat
        /\ req'[t].gone = req[t].gone /\ req[t].phase = "lock"
        /\ miscounted' \in {miscounted, miscounted \cup {req[t].org}}
    BY <1>4, LockOwnersDoes
  <2>2. req[t].org \in Orgs
    BY <2>1, RequestFields DEF WellFormed, MemberOps
  <2>3. HistoriesTyped' /\ InvitationsStay /\ SeatsStay
    BY <1>0, <2>1, <2>2, InvitationsRest DEF HistoriesTyped, SeatsStay
  <2>4. TypeOK'
    BY <1>0, <2>1, <2>3, StateTyped
  <2>5. \A s \in Requests \ {t} : KeepsOn(s)
    BY <2>1, StayIsKeepOn DEF OthersKeepOn
  <2>6. DeletionSeen'
    BY <2>1, <2>3, <2>5, DeletionKept DEF DeletionSeen
  <2>. QED
    BY <2>4, <2>6
<1>5. ASSUME NEW t \in Requests, Fail(t) PROVE Goal
  BY <1>5, FailTyped
<1>6. ASSUME NEW t \in Requests, CommitUpdate(t), ~Fail(t) PROVE Goal
  <2>. DEFINE o == req[t].org
              u == req[t].user
  <2>1. /\ o \in Orgs /\ u \in Users
        /\ OtherSeats(o, u) /\ OtherAccounts(u) /\ End(t)
        /\ seat'[o][u] = seat[o][u] \/ seat'[o][u] # NoSeat
        /\ crossed' = crossed \cup Disabled(o, u)
        /\ stale' = Staleness(t)
        /\ UNCHANGED <<inv, rerolled, miscounted, used, reused>>
    BY <1>6, CommitUpdateDoes
  <2>2. SeatsStay /\ account' \in [Users -> Accounts] /\ InvitationsStay
    BY <2>1, InvitationsRest DEF OtherSeats, OtherAccounts, SeatsStay
  <2>3. HistoriesTyped'
    BY <1>0, <2>1, StaleTyped DEF HistoriesTyped, Disabled
  <2>. QED
    BY <2>1, <2>2, <2>3, EndKeeps
<1>7. ASSUME NEW t \in Requests, CommitRemove(t), ~Fail(t) PROVE Goal
  <2>. DEFINE o == req[t].org
              u == req[t].user
  <2>1. /\ o \in Orgs /\ u \in Users /\ SeatFree(t, o, u)
        /\ OtherSeats(o, u) /\ seat'[o][u] = NoSeat
        /\ req' \in [Requests -> Loaded] /\ req'[t] = Idle /\ OthersKeepOn(t)
        /\ \A s \in Requests \ {t} :
              /\ req'[s].want \in {req[s].want, req[s].want \ {u}}
              /\ req[s].org # o => req'[s].want = req[s].want
              /\ req[s].org = o /\ req[s].user = u /\ req[s].seat # NoSeat
                    => req'[s].gone
        /\ stale' = Staleness(t)
        /\ UNCHANGED <<account, inv, crossed, rerolled, miscounted, used, reused>>
    BY <1>7, CommitRemoveDoes
  <2>2. HistoriesTyped' /\ InvitationsStay
    BY <1>0, <2>1, StaleTyped, InvitationsRest DEF HistoriesTyped
  <2>3. ASSUME NEW s \in Requests, s # t PROVE WellFormed(req[s])'
    <3>1. KeepsOn(s) /\ req[s].held \subseteq req[s].want
      BY <2>1, <2>3, RequestFields DEF OthersKeepOn, WellFormed
    <3>2. req[s].org = o => u \notin req[s].held
      BY <2>1, <2>3 DEF SeatFree
    <3>3. req'[s].held = req[s].held /\ req'[s].held \subseteq req'[s].want
      BY <2>1, <2>3, <3>1, <3>2 DEF KeepsOn
    <3>. QED
      BY <2>2, <3>1, <3>3, RequestKept
  <2>4. WellFormed(req[t])'
    BY <2>1, IdleFields DEF WellFormed, MemberOps, LinkOps
  <2>5. TypeOK'
    BY <1>0, <2>1, <2>2, <2>3, <2>4
    DEF TypeOK, RequestTypeOK, HistoriesTyped, InvitationsStay, OtherSeats
  <2>6. ASSUME NEW s \in Requests, s # t,
               req'[s].op \in MemberOps \cup {"accept"}, req'[s].seat # NoSeat,
               seat'[req'[s].org][req'[s].user] = NoSeat
        PROVE  req'[s].gone
    <3>1. KeepsOn(s)
      BY <2>1, <2>6 DEF OthersKeepOn
    <3>2. req[s].org \in Orgs /\ req[s].user \in Users
      BY <2>6, <3>1, RequestFields DEF WellFormed, KeepsOn
    <3>3. CASE req[s].org = o /\ req[s].user = u
      BY <2>1, <2>6, <3>1, <3>3 DEF KeepsOn
    <3>4. CASE req[s].org # o \/ req[s].user # u
      BY <2>1, <2>6, <3>1, <3>2, <3>4 DEF KeepsOn, DeletionSeen, OtherSeats
    <3>. QED
      BY <3>3, <3>4
  <2>7. DeletionSeen'
    BY <2>1, <2>6, IdleFields DEF DeletionSeen, MemberOps
  <2>. QED
    BY <2>5, <2>7
<1>8. ASSUME NEW t \in Requests, CommitHeal(t), ~Fail(t) PROVE Goal
  <2>1. /\ OtherSeats(req[t].org, req[t].user) /\ End(t)
        /\ req[t].org \in Orgs /\ req[t].user \in Users
        /\ seat'[req[t].org][req[t].user] = OwnerSeat
        /\ UNCHANGED <<account, inv, history>>
    BY <1>8, CommitHealDoes
  <2>2. SeatsStay /\ HistoriesTyped' /\ InvitationsStay
    BY <1>0, <2>1, InvitationsRest, RoleNames DEF OtherSeats, SeatsStay, HistoriesTyped
  <2>. QED
    BY <1>0, <2>1, <2>2, EndKeeps
<1>9. ASSUME NEW t \in Requests, CommitCreate(t) \/ CommitRevoke(t) \/ CommitResend(t),
             ~Fail(t)
      PROVE  Goal
  <2>1. End(t) /\ InvitationsStay /\ UNCHANGED <<account, seat, history>>
    BY <1>9, CommitCreateDoes, CommitRevokeDoes, CommitResendDoes
  <2>2. SeatsStay /\ HistoriesTyped'
    BY <1>0, <2>1 DEF SeatsStay, HistoriesTyped
  <2>. QED
    BY <1>0, <2>1, <2>2, EndKeeps
<1>10. ASSUME NEW t \in Requests, CommitAccept(t), ~Fail(t) PROVE Goal
  <2>. DEFINE i == req[t].inv
              o == req[t].org
              u == req[t].user
              token == <<i, inv[i].token>>
  <2>1. /\ i \in Invitations /\ o \in Orgs /\ u \in Users
        /\ OtherSeats(o, u) /\ OtherAccounts(u) /\ End(t)
        /\ seat'[o][u] # NoSeat /\ InvitationsStay
        /\ rerolled' \in {rerolled, rerolled \cup {o}}
        /\ used' = used \cup {token}
        /\ reused' \in {reused, reused \cup {token}}
        /\ UNCHANGED <<stale, crossed, miscounted>>
    BY <1>10, CommitAcceptDoes
  <2>2. SeatsStay
    BY <2>1 DEF OtherSeats, SeatsStay
  <2>3. HistoriesTyped'
    <3>1. token \in Invitations \X (0 .. MaxTokens)
      BY <2>1, InvitationFields
    <3>. HIDE DEF token
    <3>. QED
      BY <1>0, <2>1, <3>1 DEF HistoriesTyped
  <2>. QED
    BY <2>1, <2>2, <2>3, EndKeeps DEF OtherAccounts
<1>11. ASSUME NEW i \in Invitations, Expire(i) PROVE Goal
  <2>1. UNCHANGED <<account, seat, req, history>> /\ InvitationsStay
    BY <1>11, ExpireDoes
  <2>2. \A s \in Requests : KeepsOn(s)
    BY <2>1, RequestFields DEF KeepsOn
  <2>3. \A s \in Requests : WellFormed(req[s])'
    BY <2>1, <2>2, RequestFields, RequestKept DEF WellFormed
  <2>4. TypeOK'
    BY <1>0, <2>1, <2>3 DEF TypeOK, RequestTypeOK, HistoriesTyped, InvitationsStay
  <2>5. DeletionSeen'
    BY <2>1 DEF DeletionSeen
  <2>. QED
    BY <2>4, <2>5
<1>. HIDE DEF Goal
<1>12. ASSUME NEW t \in Requests, MemberStep(t) PROVE Goal
  BY <1>12, <1>2, <1>3, <1>4, <1>5, <1>6, <1>7, <1>8 DEF MemberStep, Loads
<1>13. ASSUME NEW t \in Requests, InvitationStep(t) PROVE Goal
  BY <1>13, <1>2, <1>5, <1>9, <1>10 DEF InvitationStep, Loads
<1>14. ASSUME NEW t \in Requests, Abort(t) PROVE Goal
  BY <1>14, <1>5 DEF Abort
<1>. QED
  BY <1>1, <1>11, <1>12, <1>13, <1>14 DEF Next, Goal

\* Initially every organization has its founder, and nobody asks for anything.
LEMMA TypeInit == Init => TypeOK /\ DeletionSeen
<1>. SUFFICES ASSUME Init PROVE TypeOK /\ DeletionSeen
  OBVIOUS
<1>1. account \in [Users -> Accounts] /\ seat \in [Orgs -> [Users -> Seats]]
  BY RoleNames DEF Init, Accounts
<1>2. InvitationTypeOK
  BY OrganizationAssumption, RoleNames
  DEF Init, InvitationTypeOK, NoInvitation, Rows, InvitationStatuses
<1>3. RequestTypeOK
  BY IdleTyped DEF Init, RequestTypeOK
<1>4. DeletionSeen
  BY IdleFields DEF Init, DeletionSeen, MemberOps
<1>. QED
  BY <1>1, <1>2, <1>3, <1>4 DEF Init, TypeOK

THEOREM TypeCorrect == Spec => [](TypeOK /\ DeletionSeen)
<1>1. TypeOK /\ DeletionSeen /\ [Next]_vars => TypeOK' /\ DeletionSeen'
  BY TypeStep
<1>. QED
  BY <1>1, TypeInit, PTL DEF Spec

-----------------------------------------------------------------------------
(***************************************************************************)
(* Every organization keeps an owner.                                      *)
(***************************************************************************)
OwnersNext(p) == OwnersIn(seat', account', p)
\* An owner stays, or the organization is excused.
Stays(p, v) == v \in Owners(p) /\ p \notin Excused' => v \in OwnersNext(p)

\* Whom a request has locked goes on to be an owner beside the one it unseats.
LEMMA AnotherStays ==
  ASSUME TypeOK, AnotherHeld, Excused \subseteq Excused', NEW s \in Requests, KeepsOn(s),
         req[s].org \in Orgs => \A v \in req[s].held : Stays(req[s].org, v)
  PROVE  req'[s].phase = "ready" /\ Unseats(req'[s]) /\ req'[s].org \notin Excused' =>
            \E v \in req'[s].held \ {req'[s].user} : v \in OwnersNext(req'[s].org)
<1>1. Unseats(req'[s]) <=> Unseats(req[s])
  BY DEF KeepsOn, Unseats
<1>. SUFFICES ASSUME req[s].phase = "ready", Unseats(req[s]), req[s].org \notin Excused'
              PROVE  \E v \in req[s].held \ {req[s].user} : v \in OwnersNext(req[s].org)
  BY <1>1 DEF KeepsOn
<1>2. PICK v \in req[s].held \ {req[s].user} : v \in Owners(req[s].org)
  BY DEF AnotherHeld
<1>3. req[s].org \in Orgs
  BY RequestFields DEF WellFormed, Unseats
<1>. QED
  BY <1>2, <1>3 DEF Stays

LEMMA OwnersStay ==
  ASSUME OwnersGuarded, Excused \subseteq Excused',
         \A p \in Orgs, v \in Users : Stays(p, v)
  PROVE  OwnersGuarded'
<1>1. ASSUME NEW p \in Orgs, p \notin Excused' PROVE OwnersNext(p) # {}
  <2>1. PICK v \in Owners(p) : TRUE
    BY <1>1 DEF OwnersGuarded
  <2>. QED
    BY <1>1, <2>1 DEF Stays, Owners, OwnersIn
<1>. QED
  BY <1>1 DEF OwnersGuarded, OwnersNext, Owners

\* Seats and accounts of owners only change in the four commits.
LEMMA OwnersRest ==
  ASSUME UNCHANGED <<account, seat>>
  PROVE  \A p, v : Stays(p, v)
  BY DEF Stays, OwnersNext, Owners

LEMMA IdleUnseatsNobody == ~Unseats(Idle)
  BY IdleFields DEF Unseats, MemberOps

\* A request that ends, or goes on with what it loaded, holds whom it held.
LEMMA AnotherHeldKept ==
  ASSUME TypeOK, AnotherHeld, Excused \subseteq Excused', NEW t \in Requests,
         req'[t] = Idle, OthersKeepOn(t),
         \A s \in Requests \ {t} :
            req[s].org \in Orgs => \A v \in req[s].held : Stays(req[s].org, v)
  PROVE  AnotherHeld'
<1>1. \A s \in Requests \ {t} :
         req'[s].phase = "ready" /\ Unseats(req'[s]) /\ req'[s].org \notin Excused' =>
            \E v \in req'[s].held \ {req'[s].user} : v \in OwnersNext(req'[s].org)
  BY AnotherStays DEF OthersKeepOn
<1>2. ~Unseats(req'[t])
  BY IdleUnseatsNobody
<1>. QED
  BY <1>1, <1>2 DEF AnotherHeld, OwnersNext, Owners, Unseats

\* A commit that unseats nobody.
LEMMA OwnersKeptByEnd ==
  ASSUME TypeOK, AnotherHeld, OwnersGuarded, NEW t \in Requests, End(t),
         Excused \subseteq Excused', \A p \in Orgs, v \in Users : Stays(p, v)
  PROVE  AnotherHeld' /\ OwnersGuarded'
<1>1. req'[t] = Idle /\ OthersKeepOn(t)
  BY EndDoes, StayIsKeepOn
<1>2. ASSUME NEW s \in Requests \ {t}, req[s].org \in Orgs, NEW v \in req[s].held
      PROVE  Stays(req[s].org, v)
  BY <1>2, RequestFields DEF Loaded
<1>. QED
  BY <1>1, <1>2, AnotherHeldKept, OwnersStay

\* A step of a request that goes on and writes no seat and no account.
LEMMA OwnersKeptByStep ==
  ASSUME TypeOK, AnotherHeld, OwnersGuarded, NEW t \in Requests, OthersKeepOn(t),
         UNCHANGED <<account, seat>>, Excused \subseteq Excused',
         req'[t].phase = "ready" /\ Unseats(req'[t]) /\ req'[t].org \notin Excused' =>
            \E v \in req'[t].held \ {req'[t].user} : v \in OwnersNext(req'[t].org)
  PROVE  AnotherHeld' /\ OwnersGuarded'
<1>1. \A p, v : Stays(p, v)
  BY OwnersRest
<1>2. \A s \in Requests \ {t} :
         req'[s].phase = "ready" /\ Unseats(req'[s]) /\ req'[s].org \notin Excused' =>
            \E v \in req'[s].held \ {req'[s].user} : v \in OwnersNext(req'[s].org)
  BY <1>1, AnotherStays DEF OthersKeepOn
<1>3. AnotherHeld'
  BY <1>2 DEF AnotherHeld, OwnersNext, Owners, Unseats
<1>. QED
  BY <1>1, <1>3, OwnersStay

\* Two counted owners are somebody besides the one to unseat.
LEMMA SomebodyElse ==
  ASSUME NEW S, IsFiniteSet(S), Cardinality(S) > 1, NEW u
  PROVE  \E v \in S : v # u
<1>1. SUFFICES ASSUME S \subseteq {u} PROVE FALSE
  OBVIOUS
<1>2. CASE S = {}
  BY <1>2, FS_EmptySet
<1>3. CASE S = {u}
  BY <1>3, FS_Singleton
<1>. QED
  BY <1>1, <1>2, <1>3

\* Whoever unseats an owner leaves the one it has locked: nobody else locks the
\* seat it writes.
LEMMA UnseatKeepsOwners ==
  ASSUME TypeOK, AnotherHeld, OwnersGuarded, Excused \subseteq Excused',
         NEW t \in Requests, req[t].phase = "ready",
         req'[t] = Idle, OthersKeepOn(t),
         NEW o \in Orgs, NEW u \in Users, o = req[t].org, u = req[t].user,
         SeatFree(t, o, u),
         \A p \in Orgs, v \in Users : p # o \/ v # u => Stays(p, v),
         u \in Owners(o) \ OwnersNext(o) /\ o \notin Excused' => Unseats(req[t])
  PROVE  AnotherHeld' /\ OwnersGuarded'
<1>1. ASSUME NEW s \in Requests \ {t}, req[s].org \in Orgs, NEW v \in req[s].held
      PROVE  Stays(req[s].org, v)
  <2>1. v \in Users
    BY <1>1, RequestFields DEF Loaded
  <2>2. req[s].org # o \/ v # u
    BY <1>1 DEF SeatFree
  <2>. QED
    BY <1>1, <2>1, <2>2
<1>2. AnotherHeld'
  BY <1>1, AnotherHeldKept
<1>3. ASSUME NEW p \in Orgs, p \notin Excused', NEW v \in Users, v \in Owners(p),
             p # o \/ v # u
      PROVE  v \in OwnersNext(p)
  BY <1>3 DEF Stays
<1>4. ASSUME o \notin Excused', u \in Owners(o) PROVE OwnersNext(o) # {}
  <2>1. CASE u \in OwnersNext(o)
    BY <2>1
  <2>2. CASE u \notin OwnersNext(o)
    <3>1. PICK v \in req[t].held \ {u} : v \in Owners(o)
      BY <1>4, <2>2 DEF AnotherHeld
    <3>. QED
      BY <1>3, <1>4, <3>1 DEF Owners, OwnersIn
  <2>. QED
    BY <2>1, <2>2
<1>5. ASSUME NEW p \in Orgs, p \notin Excused' PROVE OwnersNext(p) # {}
  <2>1. PICK v \in Owners(p) : v \in Users
    BY <1>5 DEF OwnersGuarded, Owners, OwnersIn
  <2>. QED
    BY <1>3, <1>4, <1>5, <2>1
<1>6. OwnersGuarded'
  BY <1>5 DEF OwnersGuarded, OwnersNext, Owners
<1>. QED
  BY <1>2, <1>6

\* The update of a member: an owner is lost to one who held the lock of another,
\* or the organization is excused.
LEMMA UpdateKeepsOwners ==
  ASSUME TypeOK, DeletionSeen, AnotherHeld, OwnersGuarded,
         NEW t \in Requests, CommitUpdate(t), ~Fail(t)
  PROVE  AnotherHeld' /\ OwnersGuarded'
<1>. DEFINE r == req[t]
            o == req[t].org
            u == req[t].user
<1>1. /\ r.op = "update" /\ r.phase = "ready" /\ SeatFree(t, o, u)
      /\ o \in Orgs /\ u \in Users
      /\ OtherSeats(o, u) /\ OtherAccounts(u) /\ End(t)
      /\ r.gone => seat'[o][u] = seat[o][u]
      /\ ~r.gone =>
            /\ seat'[o][u].role = Emit(NewRole(r), r.seat.role, seat[o][u].role)
            /\ seat'[o][u].status = Emit(NewStatus(r), r.seat.status, seat[o][u].status)
      /\ account'[u] = Emit(NewAccount(r), r.account, account[u])
      /\ crossed' = crossed \cup Disabled(o, u)
      /\ stale' = Staleness(t)
      /\ UNCHANGED <<inv, rerolled, miscounted, used, reused>>
  BY CommitUpdateDoes
<1>2. Excused \subseteq Excused'
  BY <1>1, StaleTyped DEF Excused
<1>3. ASSUME NEW p \in Orgs, NEW v \in Users, p # o \/ v # u PROVE Stays(p, v)
  <2>1. seat'[p][v] = seat[p][v]
    BY <1>1, <1>3 DEF OtherSeats
  <2>2. CASE v # u
    BY <1>1, <2>1, <2>2 DEF OtherAccounts, Stays, OwnersNext, Owners, OwnersIn
  <2>3. CASE v = u /\ p # o
    BY <1>1, <1>3, <2>1, <2>3 DEF Disabled, Excused, Stays, OwnersNext, Owners, OwnersIn
  <2>. QED
    BY <1>3, <2>2, <2>3
<1>4. ASSUME u \in Owners(o) \ OwnersNext(o), o \notin Excused' PROVE Unseats(r)
  <2>1. r.seat = OwnerSeat
    BY <1>1, <1>4 DEF Staleness, Excused, OwnersNext
  <2>2. seat[o][u] = OwnerSeat /\ account[u] = "active"
    BY <1>4 DEF Owners, OwnersIn
  <2>3. SUFFICES ASSUME ~Unseats(r) PROVE FALSE
    OBVIOUS
  <2>4. r.role \in {Same, "owner"} /\ r.status # "disabled"
    BY <1>1, <2>1, <2>3 DEF Unseats, UnseatsOwner, MemberOps, OwnerSeat
  <2>5. NewRole(r) = "owner" /\ NewStatus(r) = "active"
    BY <2>1, <2>4, RequestFields DEF NewRole, NewStatus, OwnerSeat
  <2>6. seat'[o][u].role = "owner" /\ seat'[o][u].status = "active"
    BY <1>1, <2>1, <2>2, <2>5, RequestFields DEF Emit, OwnerSeat
  <2>7. account'[u] = "active"
    BY <1>1, <2>2, <2>4, RequestFields DEF Emit, NewAccount
  <2>8. seat'[o][u] = OwnerSeat
    BY <1>1, <2>6 DEF OtherSeats, Seats, NoSeat, OwnerSeat
  <2>. QED
    BY <1>1, <1>4, <2>7, <2>8 DEF OwnersNext, OwnersIn
<1>5. req'[t] = Idle /\ OthersKeepOn(t)
  BY <1>1, EndDoes, StayIsKeepOn
<1>. QED
  BY <1>1, <1>2, <1>3, <1>4, <1>5, UnseatKeepsOwners

LEMMA RemoveKeepsOwners ==
  ASSUME TypeOK, DeletionSeen, AnotherHeld, OwnersGuarded,
         NEW t \in Requests, CommitRemove(t), ~Fail(t)
  PROVE  AnotherHeld' /\ OwnersGuarded'
<1>. DEFINE r == req[t]
            o == req[t].org
            u == req[t].user
<1>1. /\ r.op = "remove" /\ r.phase = "ready" /\ SeatFree(t, o, u)
      /\ o \in Orgs /\ u \in Users
      /\ OtherSeats(o, u) /\ req'[t] = Idle /\ OthersKeepOn(t)
      /\ stale' = Staleness(t)
      /\ UNCHANGED <<account, inv, crossed, rerolled, miscounted, used, reused>>
  BY CommitRemoveDoes
<1>2. Excused \subseteq Excused'
  BY <1>1, StaleTyped DEF Excused
<1>3. ASSUME NEW p \in Orgs, NEW v \in Users, p # o \/ v # u PROVE Stays(p, v)
  BY <1>1, <1>3 DEF OtherSeats, Stays, OwnersNext, Owners, OwnersIn
<1>4. ASSUME u \in Owners(o) \ OwnersNext(o), o \notin Excused' PROVE Unseats(r)
  <2>1. r.seat = OwnerSeat
    BY <1>1, <1>4 DEF Staleness, Excused, OwnersNext
  <2>. QED
    BY <1>1, <2>1 DEF Unseats, UnseatsOwner, MemberOps, OwnerSeat
<1>. QED
  BY <1>1, <1>2, <1>3, <1>4, UnseatKeepsOwners

\* An acceptance takes a role from an owner only by lowering it.
LEMMA AcceptKeepsOwners ==
  ASSUME TypeOK, DeletionSeen, AnotherHeld, OwnersGuarded,
         NEW t \in Requests, CommitAccept(t), ~Fail(t)
  PROVE  AnotherHeld' /\ OwnersGuarded'
<1>. DEFINE i == req[t].inv
            o == req[t].org
            u == req[t].user
<1>1. /\ o \in Orgs /\ u \in Users
      /\ OtherSeats(o, u) /\ OtherAccounts(u) /\ End(t)
      /\ seat'[o][u].role \in {inv[i].role, seat[o][u].role}
      /\ seat[o][u].status = "active" => seat'[o][u].status = "active"
      /\ account'[u] = IF account[u] = "none" THEN "active" ELSE account[u]
      /\ rerolled' = IF u \in Owners(o) /\ inv[i].role # "owner"
                     THEN rerolled \cup {o} ELSE rerolled
      /\ UNCHANGED <<stale, crossed, miscounted>>
  BY CommitAcceptDoes
<1>2. Excused \subseteq Excused'
  BY <1>1 DEF Excused
<1>3. ASSUME NEW p \in Orgs, NEW v \in Users PROVE Stays(p, v)
  <2>1. CASE p # o \/ v # u
    BY <1>1, <2>1 DEF OtherSeats, OtherAccounts, Stays, OwnersNext, Owners, OwnersIn
  <2>2. CASE p = o /\ v = u
    <3>1. SUFFICES ASSUME u \in Owners(o), o \notin Excused'
                   PROVE  u \in OwnersNext(o)
      BY <2>2 DEF Stays
    <3>2. inv[i].role = "owner" /\ seat[o][u] = OwnerSeat /\ account[u] = "active"
      BY <1>1, <3>1 DEF Excused, Owners, OwnersIn
    <3>3. seat'[o][u].role = "owner" /\ seat'[o][u].status = "active"
      BY <1>1, <3>2 DEF OwnerSeat
    <3>4. seat'[o][u] = OwnerSeat
      BY <1>1, <3>3 DEF OtherSeats, Seats, NoSeat, OwnerSeat
    <3>. QED
      BY <1>1, <3>2, <3>4 DEF OwnersNext, OwnersIn
  <2>. QED
    BY <2>1, <2>2
<1>. QED
  BY <1>1, <1>2, <1>3, OwnersKeptByEnd

LEMMA HealKeepsOwners ==
  ASSUME TypeOK, AnotherHeld, OwnersGuarded, NEW t \in Requests, CommitHeal(t), ~Fail(t)
  PROVE  AnotherHeld' /\ OwnersGuarded'
<1>. DEFINE o == req[t].org
            u == req[t].user
<1>1. /\ o \in Orgs /\ u \in Users /\ OtherSeats(o, u) /\ End(t)
      /\ seat[o][u] = NoSeat /\ UNCHANGED <<account, inv, history>>
  BY CommitHealDoes
<1>2. ASSUME NEW p \in Orgs, NEW v \in Users PROVE Stays(p, v)
  <2>1. NoSeat # OwnerSeat
    BY DEF NoSeat, OwnerSeat
  <2>. QED
    BY <1>1, <2>1 DEF OtherSeats, Stays, OwnersNext, Owners, OwnersIn
<1>3. Excused \subseteq Excused'
  BY <1>1 DEF Excused
<1>. QED
  BY <1>1, <1>2, <1>3, OwnersKeptByEnd
\* The lock of _owner_count: two owners are counted, so another one is held.
LEMMA LockHoldsAnother ==
  ASSUME TypeOK, AnotherHeld, OwnersGuarded, NEW t \in Requests, LockOwners(t), ~Fail(t),
         IsFiniteSet(Users)
  PROVE  AnotherHeld' /\ OwnersGuarded'
<1>. DEFINE o == req[t].org
            u == req[t].user
            owners == {v \in req[t].want : seat[o][v] = OwnerSeat}
<1>1. /\ UNCHANGED <<account, seat, inv, stale, crossed, rerolled, used, reused>>
      /\ OthersStay(t) /\ req'[t].held = req[t].want
      /\ req'[t].org = o /\ req'[t].user = u /\ Cardinality(owners) > 1
      /\ miscounted' = IF \E v \in owners : account[v] # "active"
                       THEN miscounted \cup {o} ELSE miscounted
  BY LockOwnersDoes
<1>2. IsFiniteSet(owners)
  <2>1. owners \subseteq Users
    BY RequestFields DEF Loaded
  <2>. QED
    BY <2>1, FS_Subset
<1>3. Excused \subseteq Excused'
  BY <1>1 DEF Excused
<1>4. ASSUME o \notin Excused'
      PROVE  \E v \in req'[t].held \ {req'[t].user} : v \in OwnersNext(o)
  <2>1. PICK v \in owners : v # u
    <3>. HIDE DEF owners
    <3>. QED
      BY <1>1, <1>2, SomebodyElse
  <2>2. account[v] = "active"
    BY <1>1, <1>4, <2>1 DEF Excused
  <2>3. v \in Users
    BY <2>1, RequestFields DEF Loaded
  <2>. QED
    BY <1>1, <2>1, <2>2, <2>3 DEF OwnersNext, OwnersIn
<1>5. OthersKeepOn(t)
  BY <1>1, StayIsKeepOn
<1>. QED
  BY <1>1, <1>3, <1>4, <1>5, OwnersKeptByStep

LEMMA OwnersStep ==
  ASSUME TypeOK, OwnersInv, [Next]_vars, IsFiniteSet(Users)
  PROVE  AnotherHeld' /\ OwnersGuarded'
<1>. DEFINE Goal == AnotherHeld' /\ OwnersGuarded'
<1>0. DeletionSeen /\ AnotherHeld /\ OwnersGuarded
  BY DEF OwnersInv
<1>1. CASE UNCHANGED vars
  BY <1>0, <1>1 DEF vars, history, AnotherHeld, OwnersGuarded, Owners, Excused, Unseats
<1>2. ASSUME NEW t \in Requests, Loads(t) PROVE Goal
  <2>1. /\ UNCHANGED <<account, seat, inv, history>> /\ OthersStay(t)
        /\ req'[t].op \in MemberOps => (Unseats(req'[t]) => req'[t].phase = "guard")
    BY <1>2, LoadsDo
  <2>2. ~(req'[t].phase = "ready" /\ Unseats(req'[t]))
    BY <2>1 DEF Unseats
  <2>3. Excused \subseteq Excused' /\ OthersKeepOn(t)
    BY <2>1, StayIsKeepOn DEF Excused
  <2>. QED
    BY <1>0, <2>1, <2>2, <2>3, OwnersKeptByStep
<1>3. ASSUME NEW t \in Requests, CountOwners(t) PROVE Goal
  <2>1. /\ UNCHANGED <<account, seat, inv, history>> /\ OthersStay(t)
        /\ req'[t].phase = "lock"
    BY <1>3, CountOwnersDoes
  <2>2. Excused \subseteq Excused' /\ OthersKeepOn(t)
    BY <2>1, StayIsKeepOn DEF Excused
  <2>. QED
    BY <1>0, <2>1, <2>2, OwnersKeptByStep
<1>4. ASSUME NEW t \in Requests, LockOwners(t), ~Fail(t) PROVE Goal
  BY <1>0, <1>4, LockHoldsAnother
<1>5. ASSUME NEW t \in Requests, End(t), UNCHANGED <<account, seat, history>> PROVE Goal
  <2>1. Excused \subseteq Excused'
    BY <1>5 DEF Excused
  <2>. QED
    BY <1>0, <1>5, <2>1, OwnersRest, OwnersKeptByEnd
<1>6. ASSUME NEW t \in Requests, Fail(t) PROVE Goal
  BY <1>5, <1>6 DEF Fail
<1>7. ASSUME NEW t \in Requests, CommitUpdate(t), ~Fail(t) PROVE Goal
  BY <1>0, <1>7, UpdateKeepsOwners
<1>8. ASSUME NEW t \in Requests, CommitRemove(t), ~Fail(t) PROVE Goal
  BY <1>0, <1>8, RemoveKeepsOwners
<1>9. ASSUME NEW t \in Requests, CommitHeal(t), ~Fail(t) PROVE Goal
  BY <1>0, <1>9, HealKeepsOwners
<1>10. ASSUME NEW t \in Requests, CommitCreate(t) \/ CommitRevoke(t) \/ CommitResend(t),
              ~Fail(t)
       PROVE  Goal
  <2>1. End(t) /\ UNCHANGED <<account, seat, history>>
    BY <1>10, CommitCreateDoes, CommitRevokeDoes, CommitResendDoes
  <2>. QED
    BY <1>5, <2>1
<1>11. ASSUME NEW t \in Requests, CommitAccept(t), ~Fail(t) PROVE Goal
  BY <1>0, <1>11, AcceptKeepsOwners
<1>12. ASSUME NEW i \in Invitations, Expire(i) PROVE Goal
  <2>1. UNCHANGED <<account, seat, req, history>>
    BY <1>12, ExpireDoes
  <2>. QED
    BY <1>0, <2>1 DEF AnotherHeld, OwnersGuarded, Owners, Excused, Unseats
<1>. HIDE DEF Goal
<1>13. ASSUME NEW t \in Requests, MemberStep(t) PROVE Goal
  BY <1>13, <1>2, <1>3, <1>4, <1>6, <1>7, <1>8, <1>9 DEF MemberStep, Loads
<1>14. ASSUME NEW t \in Requests, InvitationStep(t) PROVE Goal
  BY <1>14, <1>2, <1>6, <1>10, <1>11 DEF InvitationStep, Loads
<1>15. ASSUME NEW t \in Requests, Abort(t) PROVE Goal
  BY <1>15, <1>6 DEF Abort
<1>. QED
  BY <1>1, <1>12, <1>13, <1>14, <1>15 DEF Next, Goal

LEMMA OwnersInit == Init => OwnersInv
<1>. SUFFICES ASSUME Init PROVE OwnersInv
  OBVIOUS
<1>1. DeletionSeen
  BY TypeInit
<1>2. AnotherHeld
  BY IdleUnseatsNobody DEF Init, AnotherHeld, Unseats
<1>3. \A o \in Orgs : Founder[o] \in Owners(o)
  BY OrganizationAssumption DEF Init, Owners, OwnersIn
<1>. QED
  BY <1>1, <1>2, <1>3 DEF OwnersInv, OwnersGuarded

\* Every organization keeps an active owner, for any number of organizations,
\* people and requests, unless one of the four things Excused names takes it:
\* the guard of _owner_count (admin_routes.py) closes every other race. People
\* are finitely many: a set of them is counted.
THEOREM EveryOrgIsOwned ==
  ASSUME IsFiniteSet(Users)
  PROVE  Spec => []SeatsSound
<1>1. TypeOK /\ OwnersInv /\ [Next]_vars => (TypeOK /\ OwnersInv)'
  BY TypeStep, OwnersStep DEF OwnersInv
<1>2. Init => TypeOK /\ OwnersInv
  BY TypeInit, OwnersInit
<1>3. TypeOK /\ OwnersInv => SeatsSound
  BY DEF SeatsSound, OwnersInv
<1>. QED
  BY <1>1, <1>2, <1>3, PTL DEF Spec

-----------------------------------------------------------------------------
(***************************************************************************)
(* A link works once.                                                      *)
(***************************************************************************)

\* A request that ends takes no acceptance's invitation with it.
LEMMA AcceptsKept ==
  ASSUME AcceptsPending, AcceptsAlone, NEW t \in Requests,
         req'[t] = Idle, OthersKeepOn(t),
         \A s \in Requests \ {t} : req[s].op = "accept" =>
            inv'[req[s].inv].status = inv[req[s].inv].status
  PROVE  AcceptsPending' /\ AcceptsAlone'
<1>1. \A s \in Requests : req'[s].op = "accept" =>
         s # t /\ req[s].op = "accept" /\ req'[s].inv = req[s].inv
  BY IdleFields DEF OthersKeepOn, KeepsOn
<1>2. AcceptsPending'
  BY <1>1 DEF AcceptsPending
<1>3. AcceptsAlone'
  BY <1>1 DEF AcceptsAlone
<1>. QED
  BY <1>2, <1>3

\* The same when a request only changes its own row, which none accepts.
LEMMA AcceptsUndisturbed ==
  ASSUME TypeOK, AcceptsPending, AcceptsAlone, NEW t \in Requests, End(t),
         \A k \in Invitations :
            \/ inv'[k].status = inv[k].status
            \/ inv[k].status = "absent"
            \/ InvitationFree(t, k)
  PROVE  AcceptsPending' /\ AcceptsAlone'
<1>1. req'[t] = Idle /\ OthersKeepOn(t)
  BY EndDoes, StayIsKeepOn
<1>2. ASSUME NEW s \in Requests \ {t}, req[s].op = "accept"
      PROVE  inv'[req[s].inv].status = inv[req[s].inv].status
  <2>1. req[s].inv \in Invitations /\ inv[req[s].inv].status = "pending"
    BY <1>2, RequestFields DEF WellFormed, LinkOps, AcceptsPending
  <2>2. ~InvitationFree(t, req[s].inv)
    BY <1>2 DEF InvitationFree
  <2>. QED
    BY <2>1, <2>2
<1>. QED
  BY <1>1, <1>2, AcceptsKept

\* No invitation becomes pending: none can clash.
LEMMA PendingKept ==
  ASSUME TypeOK, PendingAlone, InvitationsStay,
         \A k \in Invitations : inv'[k].status = "pending" => inv[k].status = "pending"
  PROVE  PendingAlone'
  BY DEF PendingAlone, Pending, InvitationsStay

\* One that does is checked against the others by the unique index.
LEMMA PendingChecked ==
  ASSUME TypeOK, PendingAlone, InvitationsStay, NEW i \in Invitations, ~Clashes(inv', i),
         \A k \in Invitations \ {i} :
            inv'[k].status = "pending" => inv[k].status = "pending"
  PROVE  PendingAlone'
<1>1. ASSUME NEW o \in Orgs, NEW u \in Users,
             NEW j \in Invitations, NEW k \in Invitations, j # k,
             inv'[j].status = "pending", inv'[j].org = o, inv'[j].user = u,
             inv'[k].status = "pending", inv'[k].org = o, inv'[k].user = u
      PROVE  FALSE
  <2>1. CASE j = i \/ k = i
    BY <1>1, <2>1 DEF Clashes
  <2>2. CASE j # i /\ k # i
    BY <1>1, <2>2 DEF PendingAlone, Pending, InvitationsStay
  <2>. QED
    BY <2>1, <2>2
<1>. QED
  BY <1>1 DEF PendingAlone, Pending

\* A token that is spent stays so, or is superseded.
LEMMA SpentKept ==
  ASSUME TypeOK, UsedIsSpent, InvitationsStay, UNCHANGED used,
         \A k \in Invitations : inv[k].status # "absent" /\ inv'[k].token = inv[k].token =>
            inv'[k].status \in {inv[k].status, "accepted", "revoked"}
  PROVE  UsedIsSpent'
<1>1. ASSUME NEW k \in Invitations, NEW n \in 0 .. MaxTokens, <<k, n>> \in used
      PROVE  /\ inv'[k].status # "absent" /\ n <= inv'[k].token
             /\ n = inv'[k].token => inv'[k].status \in {"accepted", "revoked"}
  <2>1. /\ inv[k].status # "absent" /\ n <= inv[k].token
        /\ n = inv[k].token => inv[k].status \in {"accepted", "revoked"}
    BY <1>1 DEF UsedIsSpent
  <2>2. /\ inv[k].token \in 0 .. MaxTokens /\ inv'[k].token \in 0 .. MaxTokens
        /\ inv[k].token <= inv'[k].token /\ inv'[k].status # "absent"
    BY <2>1, InvitationFields DEF InvitationsStay, InvitationTypeOK, Rows
  <2>3. n <= inv'[k].token
    BY <2>1, <2>2
  <2>4. n = inv'[k].token => inv'[k].token = inv[k].token
    BY <2>1, <2>2
  <2>. QED
    BY <1>1, <2>1, <2>2, <2>3, <2>4
<1>. QED
  BY <1>1 DEF UsedIsSpent

\* An acceptance spends a token that nobody used before.
LEMMA AcceptKeepsLinks ==
  ASSUME TypeOK, DeletionSeen, LinksInv, NEW t \in Requests, CommitAccept(t), ~Fail(t)
  PROVE  LinksInv'
<1>. DEFINE i == req[t].inv
            token == <<i, inv[i].token>>
<1>1. /\ req[t].op = "accept" /\ i \in Invitations /\ End(t)
      /\ InvitationsStay /\ \A k \in Invitations \ {i} : inv'[k] = inv[k]
      /\ inv'[i].status = "accepted" /\ inv'[i].token = inv[i].token
      /\ used' = used \cup {token}
      /\ reused' = IF token \in used THEN reused \cup {token} ELSE reused
  BY CommitAcceptDoes
<1>2. inv[i].status = "pending" /\ inv[i].token \in 0 .. MaxTokens
  BY <1>1, InvitationFields DEF LinksInv, AcceptsPending
<1>3. AcceptsPending' /\ AcceptsAlone'
  <2>1. req'[t] = Idle /\ OthersKeepOn(t)
    BY <1>1, EndDoes, StayIsKeepOn
  <2>2. ASSUME NEW s \in Requests \ {t}, req[s].op = "accept"
        PROVE  inv'[req[s].inv].status = inv[req[s].inv].status
    <3>1. req[s].inv # i
      BY <1>1, <2>2 DEF LinksInv, AcceptsAlone
    <3>2. req[s].inv \in Invitations
      BY <2>2, RequestFields DEF WellFormed, LinkOps
    <3>. QED
      BY <1>1, <3>1, <3>2
  <2>. QED
    BY <2>1, <2>2, AcceptsKept DEF LinksInv
<1>4. PendingAlone'
  BY <1>1, PendingKept DEF LinksInv
<1>5. TokenUsedOnce'
  BY <1>1, <1>2 DEF LinksInv, TokenUsedOnce, UsedIsSpent
<1>6. UsedIsSpent'
  <2>1. ASSUME NEW k \in Invitations, NEW n \in 0 .. MaxTokens, <<k, n>> \in used'
        PROVE  /\ inv'[k].status # "absent" /\ n <= inv'[k].token
               /\ n = inv'[k].token => inv'[k].status \in {"accepted", "revoked"}
    <3>1. CASE k # i
      <4>1. <<k, n>> \in used
        BY <1>1, <2>1, <3>1
      <4>. QED
        BY <1>1, <3>1, <4>1 DEF LinksInv, UsedIsSpent
    <3>2. CASE k = i /\ n = inv[i].token
      BY <1>1, <1>2, <3>2
    <3>3. CASE k = i /\ n # inv[i].token
      <4>1. <<i, n>> \in used
        BY <1>1, <2>1, <3>3
      <4>. QED
        BY <1>1, <3>3, <4>1 DEF LinksInv, UsedIsSpent
    <3>. QED
      BY <3>1, <3>2, <3>3
  <2>. QED
    BY <2>1 DEF UsedIsSpent
<1>. QED
  BY <1>3, <1>4, <1>5, <1>6 DEF LinksInv

\* A replaced invitation is revoked, and the index admits the new one.
LEMMA CreateKeepsLinks ==
  ASSUME TypeOK, LinksInv, NEW t \in Requests, CommitCreate(t), ~Fail(t)
  PROVE  LinksInv'
<1>. DEFINE old == req[t].inv
<1>1. /\ old # None => old \in Invitations /\ inv[old].status # "absent"
                       /\ InvitationFree(t, old)
      /\ End(t) /\ InvitationsStay /\ UNCHANGED <<account, seat, history>>
  BY CommitCreateDoes
<1>2. PICK i \in Invitations :
         /\ inv[i].status = "absent" /\ ~Clashes(inv', i)
         /\ \A k \in Invitations \ {i} :
               \/ inv'[k] = inv[k]
               \/ /\ k = old /\ old # None /\ inv'[k].status = "revoked"
                  /\ inv'[k].token = inv[k].token
  BY CommitCreateDoes
<1>3. ASSUME NEW k \in Invitations, k # i
      PROVE  \/ inv'[k].status = inv[k].status
             \/ inv'[k].status = "revoked" /\ (InvitationFree(t, k) \/ inv[k].status = "absent")
  <2>1. CASE inv'[k] = inv[k]
    BY <2>1
  <2>2. CASE k = old /\ old # None /\ inv'[k].status = "revoked"
    BY <1>1, <2>2
  <2>. QED
    BY <1>2, <1>3, <2>1, <2>2
<1>4. AcceptsPending' /\ AcceptsAlone'
  BY <1>1, <1>2, <1>3, AcceptsUndisturbed DEF LinksInv
<1>5. PendingAlone'
  BY <1>1, <1>2, <1>3, PendingChecked DEF LinksInv
<1>6. UsedIsSpent' /\ TokenUsedOnce'
  BY <1>1, <1>2, <1>3, SpentKept DEF LinksInv, TokenUsedOnce
<1>. QED
  BY <1>4, <1>5, <1>6 DEF LinksInv

LEMMA RevokeKeepsLinks ==
  ASSUME TypeOK, LinksInv, NEW t \in Requests, CommitRevoke(t)
  PROVE  LinksInv'
<1>. DEFINE i == req[t].inv
<1>1. /\ i \in Invitations /\ InvitationFree(t, i)
      /\ End(t) /\ InvitationsStay /\ UNCHANGED <<account, seat, history>>
      /\ inv'[i].status = "revoked" /\ \A k \in Invitations \ {i} : inv'[k] = inv[k]
  BY CommitRevokeDoes
<1>2. AcceptsPending' /\ AcceptsAlone'
  BY <1>1, AcceptsUndisturbed DEF LinksInv
<1>3. PendingAlone'
  BY <1>1, PendingKept DEF LinksInv
<1>4. UsedIsSpent' /\ TokenUsedOnce'
  BY <1>1, SpentKept DEF LinksInv, TokenUsedOnce
<1>. QED
  BY <1>2, <1>3, <1>4 DEF LinksInv

\* A resent invitation has a token of its own, and the index admits it.
LEMMA ResendKeepsLinks ==
  ASSUME TypeOK, LinksInv, NEW t \in Requests, CommitResend(t), ~Fail(t)
  PROVE  LinksInv'
<1>. DEFINE i == req[t].inv
<1>1. /\ i \in Invitations /\ InvitationFree(t, i)
      /\ End(t) /\ InvitationsStay /\ UNCHANGED <<account, seat, history>>
      /\ ~Clashes(inv', i) /\ inv'[i].token = inv[i].token + 1
      /\ inv[i].token \in Nat
      /\ \A k \in Invitations \ {i} : inv'[k] = inv[k]
  BY CommitResendDoes, InvitationFields
<1>2. AcceptsPending' /\ AcceptsAlone'
  BY <1>1, AcceptsUndisturbed DEF LinksInv
<1>3. PendingAlone'
  BY <1>1, PendingChecked DEF LinksInv
<1>4. inv'[i].token # inv[i].token
  BY <1>1
<1>5. UsedIsSpent' /\ TokenUsedOnce'
  BY <1>1, <1>4, SpentKept DEF LinksInv, TokenUsedOnce
<1>. QED
  BY <1>2, <1>3, <1>5 DEF LinksInv

\* A request that only loads accepts an invitation that is pending, and that
\* nobody else accepts.
LEMMA LoadsKeepLinks ==
  ASSUME TypeOK, LinksInv, NEW t \in Requests, OthersKeepOn(t),
         UNCHANGED <<inv, history>>,
         req'[t].op = "accept" =>
            InvitationFree(t, req'[t].inv) /\ inv[req'[t].inv].status = "pending"
  PROVE  LinksInv'
<1>1. AcceptsPending'
  BY DEF LinksInv, AcceptsPending, OthersKeepOn, KeepsOn
<1>2. ASSUME NEW s \in Requests, NEW q \in Requests, s # q,
             req'[s].op = "accept", req'[q].op = "accept", req'[s].inv = req'[q].inv
      PROVE  FALSE
  <2>1. CASE s # t /\ q # t
    BY <1>2, <2>1 DEF LinksInv, AcceptsAlone, OthersKeepOn, KeepsOn
  <2>2. CASE s = t \/ q = t
    BY <1>2, <2>2 DEF OthersKeepOn, KeepsOn, InvitationFree
  <2>. QED
    BY <2>1, <2>2
<1>3. AcceptsAlone'
  BY <1>2 DEF AcceptsAlone
<1>4. PendingAlone' /\ UsedIsSpent' /\ TokenUsedOnce'
  BY DEF LinksInv, PendingAlone, Pending, UsedIsSpent, TokenUsedOnce
<1>. QED
  BY <1>1, <1>3, <1>4 DEF LinksInv

\* A request that ends, whatever it did to seats and accounts.
LEMMA EndKeepsLinks ==
  ASSUME TypeOK, LinksInv, NEW t \in Requests, req'[t] = Idle, OthersKeepOn(t),
         UNCHANGED <<inv, used, reused>>
  PROVE  LinksInv'
<1>1. AcceptsPending' /\ AcceptsAlone'
  BY AcceptsKept DEF LinksInv
<1>2. PendingAlone' /\ UsedIsSpent' /\ TokenUsedOnce'
  BY DEF LinksInv, PendingAlone, Pending, UsedIsSpent, TokenUsedOnce
<1>. QED
  BY <1>1, <1>2 DEF LinksInv

LEMMA LinksStep ==
  ASSUME TypeOK, DeletionSeen, LinksInv, [Next]_vars
  PROVE  LinksInv'
<1>1. CASE UNCHANGED vars
  BY <1>1 DEF vars, LinksInv, AcceptsPending, AcceptsAlone, PendingAlone, Pending,
              UsedIsSpent, TokenUsedOnce
<1>2. ASSUME NEW t \in Requests, Loads(t) PROVE LinksInv'
  <2>1. /\ UNCHANGED <<account, seat, inv, history>> /\ OthersStay(t)
        /\ req'[t].op = "accept" =>
               /\ InvitationFree(t, req'[t].inv) /\ inv[req'[t].inv].status = "pending"
    BY <1>2, LoadsDo
  <2>. QED
    BY <2>1, StayIsKeepOn, LoadsKeepLinks
<1>3. ASSUME NEW t \in Requests, CountOwners(t) PROVE LinksInv'
  <2>1. /\ UNCHANGED <<account, seat, inv, history>> /\ OthersStay(t)
        /\ req[t].phase = "guard" /\ req'[t].op = req[t].op
    BY <1>3, CountOwnersDoes
  <2>2. req'[t].op # "accept"
    BY <2>1, RequestFields DEF WellFormed, MemberOps
  <2>. QED
    BY <2>1, <2>2, StayIsKeepOn, LoadsKeepLinks
<1>4. ASSUME NEW t \in Requests, LockOwners(t), ~Fail(t) PROVE LinksInv'
  <2>1. /\ UNCHANGED <<account, seat, inv, stale, crossed, rerolled, used, reused>>
        /\ OthersStay(t) /\ req[t].phase = "lock" /\ req'[t].op = req[t].op
        /\ req'[t].inv = req[t].inv
    BY <1>4, LockOwnersDoes
  <2>2. req'[t].op # "accept"
    BY <2>1, RequestFields DEF WellFormed, MemberOps
  <2>3. OthersKeepOn(t)
    BY <2>1, StayIsKeepOn
  <2>4. AcceptsPending' /\ AcceptsAlone'
    BY <2>1, <2>2, <2>3 DEF LinksInv, AcceptsPending, AcceptsAlone, OthersKeepOn, KeepsOn
  <2>5. PendingAlone' /\ UsedIsSpent' /\ TokenUsedOnce'
    BY <2>1 DEF LinksInv, PendingAlone, Pending, UsedIsSpent, TokenUsedOnce
  <2>. QED
    BY <2>4, <2>5 DEF LinksInv
<1>5. ASSUME NEW t \in Requests, End(t), UNCHANGED <<inv, used, reused>> PROVE LinksInv'
  BY <1>5, EndDoes, StayIsKeepOn, EndKeepsLinks
<1>6. ASSUME NEW t \in Requests, Fail(t) PROVE LinksInv'
  BY <1>5, <1>6 DEF Fail
<1>7. ASSUME NEW t \in Requests, CommitUpdate(t), ~Fail(t) PROVE LinksInv'
  BY <1>5, <1>7, CommitUpdateDoes
<1>8. ASSUME NEW t \in Requests, CommitRemove(t), ~Fail(t) PROVE LinksInv'
  <2>1. req'[t] = Idle /\ OthersKeepOn(t) /\ UNCHANGED <<inv, used, reused>>
    BY <1>8, CommitRemoveDoes
  <2>. QED
    BY <2>1, EndKeepsLinks
<1>9. ASSUME NEW t \in Requests, CommitHeal(t), ~Fail(t) PROVE LinksInv'
  BY <1>5, <1>9, CommitHealDoes
<1>10. ASSUME NEW t \in Requests, CommitCreate(t), ~Fail(t) PROVE LinksInv'
  BY <1>10, CreateKeepsLinks
<1>11. ASSUME NEW t \in Requests, CommitRevoke(t) PROVE LinksInv'
  BY <1>11, RevokeKeepsLinks
<1>12. ASSUME NEW t \in Requests, CommitResend(t), ~Fail(t) PROVE LinksInv'
  BY <1>12, ResendKeepsLinks
<1>13. ASSUME NEW t \in Requests, CommitAccept(t), ~Fail(t) PROVE LinksInv'
  BY <1>13, AcceptKeepsLinks
<1>14. ASSUME NEW i \in Invitations, Expire(i) PROVE LinksInv'
  <2>1. /\ UNCHANGED <<account, seat, req, history>> /\ InvitationsStay
        /\ \A k \in Invitations : inv'[k].status = inv[k].status
                                   /\ inv'[k].token = inv[k].token
    BY <1>14, ExpireDoes
  <2>2. PendingAlone' /\ UsedIsSpent' /\ TokenUsedOnce'
    BY <2>1, PendingKept, SpentKept DEF LinksInv, TokenUsedOnce
  <2>3. \A s \in Requests : req[s].op = "accept" => req[s].inv \in Invitations
    BY RequestFields DEF WellFormed, LinkOps
  <2>4. AcceptsPending' /\ AcceptsAlone'
    BY <2>1, <2>3 DEF LinksInv, AcceptsPending, AcceptsAlone
  <2>. QED
    BY <2>2, <2>4 DEF LinksInv
<1>15. ASSUME NEW t \in Requests, MemberStep(t) PROVE LinksInv'
  BY <1>15, <1>2, <1>3, <1>4, <1>6, <1>7, <1>8, <1>9 DEF MemberStep, Loads
<1>16. ASSUME NEW t \in Requests, InvitationStep(t) PROVE LinksInv'
  BY <1>16, <1>2, <1>6, <1>10, <1>11, <1>12, <1>13 DEF InvitationStep, Loads
<1>17. ASSUME NEW t \in Requests, Abort(t) PROVE LinksInv'
  BY <1>17, <1>6 DEF Abort
<1>. QED
  BY <1>1, <1>14, <1>15, <1>16, <1>17 DEF Next

\* An invitation becomes accepted when it was pending, and never otherwise.
LEMMA OnlyPendingAccepted ==
  ASSUME TypeOK, DeletionSeen, AcceptsPending, [Next]_vars,
         NEW i \in Invitations, inv[i].status = "revoked"
  PROVE  inv'[i].status # "accepted"
<1>. DEFINE Goal == inv'[i].status # "accepted"
<1>1. CASE UNCHANGED inv
  BY <1>1
<1>2. ASSUME NEW t \in Requests, Loads(t) PROVE Goal
  BY <1>1, <1>2, LoadsDo
<1>3. ASSUME NEW t \in Requests, Fail(t) PROVE Goal
  BY <1>1, <1>3 DEF Fail
<1>4. ASSUME NEW t \in Requests, CountOwners(t) \/ LockOwners(t) PROVE Goal
  BY <1>1, <1>3, <1>4, CountOwnersDoes, LockOwnersDoes
<1>5. ASSUME NEW t \in Requests, CommitUpdate(t) PROVE Goal
  BY <1>1, <1>3, <1>5, CommitUpdateDoes
<1>6. ASSUME NEW t \in Requests, CommitRemove(t) PROVE Goal
  BY <1>1, <1>3, <1>6, CommitRemoveDoes
<1>7. ASSUME NEW t \in Requests, CommitHeal(t) PROVE Goal
  BY <1>1, <1>3, <1>7, CommitHealDoes
<1>8. ASSUME NEW t \in Requests, CommitCreate(t) PROVE Goal
  BY <1>3, <1>8, CommitCreateDoes
<1>9. ASSUME NEW t \in Requests, CommitRevoke(t) PROVE Goal
  BY <1>9, CommitRevokeDoes
<1>10. ASSUME NEW t \in Requests, CommitResend(t) PROVE Goal
  BY <1>3, <1>10, CommitResendDoes
<1>11. ASSUME NEW t \in Requests, CommitAccept(t) PROVE Goal
  <2>1. CASE Fail(t)
    BY <1>3, <2>1
  <2>2. CASE ~Fail(t)
    <3>1. req[t].op = "accept" /\ \A k \in Invitations \ {req[t].inv} : inv'[k] = inv[k]
      BY <1>11, <2>2, CommitAcceptDoes
    <3>2. i # req[t].inv
      BY <3>1 DEF AcceptsPending
    <3>. QED
      BY <3>1, <3>2
  <2>. QED
    BY <2>1, <2>2
<1>12. ASSUME NEW k \in Invitations, Expire(k) PROVE Goal
  BY <1>12, ExpireDoes
<1>. HIDE DEF Goal
<1>13. ASSUME NEW t \in Requests, MemberStep(t) PROVE Goal
  BY <1>13, <1>2, <1>4, <1>5, <1>6, <1>7 DEF MemberStep, Loads
<1>14. ASSUME NEW t \in Requests, InvitationStep(t) PROVE Goal
  BY <1>14, <1>2, <1>8, <1>9, <1>10, <1>11 DEF InvitationStep, Loads
<1>15. CASE Next
  BY <1>3, <1>12, <1>13, <1>14, <1>15 DEF Next, Abort, Goal
<1>16. CASE UNCHANGED vars
  BY <1>1, <1>16 DEF vars
<1>. QED
  BY <1>15, <1>16

LEMMA LinksInit == Init => LinksInv
  BY IdleFields
  DEF Init, NoInvitation, LinksInv, AcceptsPending, AcceptsAlone, UsedIsSpent, PendingAlone,
      Pending, TokenUsedOnce

LEMMA LinksInvariant == Spec => [](TypeOK /\ DeletionSeen /\ LinksInv)
<1>1. TypeOK /\ DeletionSeen /\ LinksInv /\ [Next]_vars
         => (TypeOK /\ DeletionSeen /\ LinksInv)'
  BY TypeStep, LinksStep
<1>. QED
  BY <1>1, TypeInit, LinksInit, PTL DEF Spec

\* A token seats somebody once, and an address has one working link, however
\* invitations, resends, revocations and acceptances race (invitations.py).
THEOREM LinksWorkOnceEverywhere == Spec => []LinksWorkOnce
<1>1. LinksInv => LinksWorkOnce
  <2>1. SUFFICES ASSUME LinksInv PROVE OneWorkingLink
    BY DEF LinksInv, LinksWorkOnce
  <2>2. ASSUME NEW o \in Orgs, NEW u \in Users PROVE Cardinality(Pending(o, u)) <= 1
    <3>1. CASE Pending(o, u) = {}
      BY <3>1, FS_EmptySet
    <3>2. CASE Pending(o, u) # {}
      <4>1. PICK i \in Pending(o, u) : TRUE
        BY <3>2
      <4>2. Pending(o, u) = {i}
        BY <2>1, <4>1 DEF LinksInv, PendingAlone
      <4>. QED
        BY <4>2, FS_Singleton
    <3>. QED
      BY <3>1, <3>2
  <2>. QED
    BY <2>2 DEF OneWorkingLink
<1>. QED
  BY <1>1, LinksInvariant, PTL

\* Nobody is seated by an invitation revoked before: the acceptance holds the
\* row's lock from its check to its commit.
THEOREM RevokedIsFinal == Spec => RevokedSeatsNobody
<1>1. TypeOK /\ DeletionSeen /\ LinksInv /\ [Next]_vars =>
        [\A i \in Invitations : inv[i].status = "revoked" => inv'[i].status # "accepted"]_vars
  BY OnlyPendingAccepted DEF LinksInv
<1>. QED
  BY <1>1, LinksInvariant, PTL DEF Spec, RevokedSeatsNobody

=============================================================================
