--------------------------- MODULE Organizations ---------------------------
(***************************************************************************)
(* Who belongs to which organization: seats, the guard of the last owner,  *)
(* account status, and the invitations through which seats are taken.      *)
(*                                                                         *)
(* A request loads rows, checks them and writes them at its commit, each   *)
(* in a step of its own, while other requests do the same. The ORM writes  *)
(* a column only if the new value differs from the one it loaded (Emit).   *)
(* Two statements take row locks: the count of the owners, and the lookup  *)
(* of an invitation that is being accepted; a write waits for both.        *)
(***************************************************************************)
EXTENDS Integers, FiniteSets

CONSTANTS
    Orgs,         \* organizations
    Users,        \* people, each with one email address
    Invitations,  \* bound: the invitations ever created
    Expiring,     \* bound: the invitations whose time may run out
    Requests,     \* API requests in flight
    RolesInUse,   \* the roles administrators hand out
    Founder,      \* who signed up each organization
    Personal,     \* the organizations that are somebody's personal one
    MaxTokens,    \* bound: the tokens minted for one invitation
    None

\* services/permissions.py, as far as this module asks for permissions.
Permissions == [owner   |-> {"invite", "role_change", "remove", "billing"},
                admin   |-> {"invite", "role_change", "remove"},
                manager |-> {"invite"},
                viewer  |-> {}]
Roles == DOMAIN Permissions

\* assignable_by: you cannot grant what you do not hold.
Grantable(role) == {r \in Roles : Permissions[r] \subseteq Permissions[role]}

ASSUME OrganizationAssumption ==
    /\ Founder \in [Orgs -> Users]
    /\ Personal \subseteq Orgs
    /\ \A o, p \in Personal : Founder[o] = Founder[p] => o = p
    /\ RolesInUse \subseteq Roles
    /\ MaxTokens \in Nat \ {0}

NoSeat == [role |-> "viewer", status |-> "none"]
OwnerSeat == [role |-> "owner", status |-> "active"]
Seats == [role : Roles, status : {"active", "deactivated"}] \cup {NoSeat}
Accounts == {"none", "active", "disabled"}
Same == "same"        \* a field the request does not set

VARIABLES
    account,   \* users.status; "none" before the account exists
    seat,      \* memberships
    inv,       \* invitations
    req        \* requests in flight

\* History.
VARIABLES
    stale,     \* organizations in which a request unseated an owner whom it
               \* had loaded as something else
    crossed,   \* organizations one of whose owners another one disabled
    rerolled,  \* organizations one of whose owners accepted a lesser role
    miscounted, \* organizations in which a request counted an owner whose
               \* account was disabled since it was read
    used,      \* tokens that granted a seat
    reused     \* tokens that granted one twice

history == <<stale, crossed, rerolled, miscounted, used, reused>>
vars == <<account, seat, inv, req, history>>

NoInvitation == [status |-> "absent", org |-> None, user |-> None,
                 role |-> "viewer", token |-> 0, expired |-> FALSE]
Idle == [op |-> "none", phase |-> "idle", org |-> None, user |-> None, inv |-> None,
         role |-> Same, status |-> Same, seat |-> NoSeat, account |-> "none",
         gone |-> FALSE, seen |-> "absent", want |-> {}, held |-> {}]

Active(o, u) == seat[o][u].status = "active"
OwnersIn(seats, accounts, o) ==
    {u \in Users : seats[o][u] = OwnerSeat /\ accounts[u] = "active"}
Owners(o) == OwnersIn(seat, account, o)
May(c, o, permission) ==
    account[c] = "active" /\ Active(o, c) /\ permission \in Permissions[seat[o][c].role]

\* Locks of other requests on a seat, and on an invitation being accepted.
SeatFree(t, o, u) ==
    \A other \in Requests \ {t} : req[other].org = o => u \notin req[other].held
\* Variant: the lookup takes no lock.
InvitationFreeUnlocked(t, i) == TRUE
InvitationFree(t, i) ==
    \A other \in Requests \ {t} : req[other].op = "accept" => req[other].inv # i

Emit(new, loaded, stored) == IF new = loaded THEN stored ELSE new

InvitationStatuses == {"absent", "pending", "accepted", "revoked"}
MemberOps == {"update", "remove"}
LinkOps == {"revoke", "resend", "accept"}
Ops == {"none", "heal", "create"} \cup MemberOps \cup LinkOps

Rows == [status : InvitationStatuses, org : Orgs \cup {None}, user : Users \cup {None},
         role : Roles, token : 0 .. MaxTokens, expired : BOOLEAN]
Loaded == [op : Ops, phase : {"idle", "guard", "lock", "ready"},
           org : Orgs \cup {None}, user : Users \cup {None},
           inv : Invitations \cup {None}, role : Roles \cup {Same},
           status : {"active", "disabled", Same}, seat : Seats, account : Accounts,
           gone : BOOLEAN, seen : InvitationStatuses,
           want : SUBSET Users, held : SUBSET Users]

\* An invitation that exists is to somebody, from some organization.
InvitationTypeOK ==
    /\ inv \in [Invitations -> Rows]
    /\ \A i \in Invitations :
          inv[i].status # "absent" => inv[i].org \in Orgs /\ inv[i].user \in Users

\* A request knows what it is about; only a row that exists was loaded.
WellFormed(r) ==
    /\ r.held \subseteq r.want
    /\ r.phase # "ready" => r.held = {}
    /\ r.phase \in {"guard", "lock"} => r.op \in MemberOps
    /\ r.op \in MemberOps \cup {"heal", "create", "accept"} =>
          r.org \in Orgs /\ r.user \in Users
    /\ r.op \in MemberOps => r.seat # NoSeat
    /\ r.op = "create" => r.role \in Roles
    /\ r.op \in LinkOps => r.inv \in Invitations /\ inv[r.inv].status # "absent"
    /\ r.op = "create" /\ r.inv # None =>
          r.inv \in Invitations /\ inv[r.inv].status # "absent"
RequestTypeOK ==
    /\ req \in [Requests -> Loaded]
    /\ \A t \in Requests : WellFormed(req[t])

TypeOK ==
    /\ account \in [Users -> Accounts]
    /\ seat \in [Orgs -> [Users -> Seats]]
    /\ InvitationTypeOK
    /\ RequestTypeOK
    /\ stale \cup crossed \cup rerolled \cup miscounted \subseteq Orgs
    /\ used \subseteq Invitations \X (0 .. MaxTokens) /\ reused \subseteq used

\* Every organization has been signed up by its founder.
Init ==
    /\ account = [u \in Users |-> IF u \in {Founder[o] : o \in Orgs} THEN "active" ELSE "none"]
    /\ seat = [o \in Orgs |-> [u \in Users |->
                  IF u = Founder[o] THEN OwnerSeat ELSE NoSeat]]
    /\ inv = [i \in Invitations |-> NoInvitation]
    /\ req = [t \in Requests |-> Idle]
    /\ stale = {} /\ crossed = {} /\ rerolled = {} /\ miscounted = {}
    /\ used = {} /\ reused = {}

Begin(t, r) == req[t] = Idle /\ req' = [req EXCEPT ![t] = r]
End(t) == req' = [req EXCEPT ![t] = Idle]
\* Refused, or rolled back: nothing is written.
Fail(t) == End(t) /\ UNCHANGED <<account, seat, inv, history>>

-----------------------------------------------------------------------------
(***************************************************************************)
(* Members: PATCH and DELETE /admin/members/{user_id}.                     *)
(***************************************************************************)

\* What needs another owner to stay: a demotion, a disablement or a removal.
\* A disablement looks at the role the same request has just given.
UnseatsOwner(loaded, op, role, status) ==
    \/ loaded.role = "owner" /\ (op = "remove" \/ role \notin {Same, "owner"})
    \/ status = "disabled" /\ "owner" = (IF role = Same THEN loaded.role ELSE role)

\* The target is loaded; nobody acts on their own seat.
ManageMember(t, c, o, u, op, role, status) ==
    /\ May(c, o, IF op = "remove" THEN "remove" ELSE "role_change")
    /\ c # u
    /\ seat[o][u] # NoSeat
    /\ role \in (Grantable(seat[o][c].role) \cap RolesInUse) \cup {Same}
    /\ Begin(t, [Idle EXCEPT
                   !.op = op, !.org = o, !.user = u, !.role = role, !.status = status,
                   !.seat = seat[o][u], !.account = account[u],
                   !.phase = IF UnseatsOwner(seat[o][u], op, role, status)
                             THEN "guard" ELSE "ready"])
    /\ UNCHANGED <<account, seat, inv, history>>

UpdateMember(t, c, o, u, role, status) ==
    /\ <<role, status>> # <<Same, Same>>
    /\ ManageMember(t, c, o, u, "update", role, status)
RemoveMember(t, c, o, u) == ManageMember(t, c, o, u, "remove", Same, Same)

\* _owner_count: the owners in the snapshot of the SELECT ... FOR UPDATE.
CountOwners(t) ==
    /\ req[t].phase = "guard"
    /\ req' = [req EXCEPT ![t].phase = "lock", ![t].want = Owners(req[t].org)]
    /\ UNCHANGED <<account, seat, inv, history>>

\* Variant: the owners are counted as the snapshot showed them.
StillOwner(o, u) == TRUE
\* The seat of a locked row is read again; the account it is joined to is not.
StillOwnerSeat(o, u) == seat[o][u] = OwnerSeat

LockOwners(t) ==
    LET o == req[t].org
        owners == {u \in req[t].want : StillOwnerSeat(o, u)} IN
    /\ req[t].phase = "lock"
    /\ \A u \in req[t].want : SeatFree(t, o, u)
    /\ \/ /\ Cardinality(owners) <= 1
          /\ Fail(t)
       \/ /\ Cardinality(owners) > 1
          /\ req' = [req EXCEPT ![t].phase = "ready", ![t].held = req[t].want]
          /\ miscounted' = IF \E u \in owners : account[u] # "active"
                           THEN miscounted \cup {o} ELSE miscounted
          /\ UNCHANGED <<account, seat, inv, stale, crossed, rerolled, used, reused>>

Ready(t, op) == req[t].op = op /\ req[t].phase = "ready"

\* An owner is unseated by a request that did not load an active owner's seat:
\* it counted nobody, or it leaves the seat alone, so that who waits for the
\* seat's lock is not shown the change.
Staleness(t) ==
    LET o == req[t].org
        u == req[t].user IN
    IF /\ req[t].seat # OwnerSeat
       /\ u \in Owners(o) \ OwnersIn(seat', account', o)
    THEN stale \cup {o} ELSE stale

\* The role, the status of the account everywhere and of the seat here. If the
\* loaded row was deleted, an UPDATE of it matches nothing and fails.
CommitUpdate(t) ==
    LET o == req[t].org
        u == req[t].user
        loaded == req[t].seat
        role == IF req[t].role = Same THEN loaded.role ELSE req[t].role
        newAccount == IF req[t].status = Same THEN req[t].account ELSE req[t].status
        status == CASE req[t].status = Same       -> loaded.status
                    [] req[t].status = "active"   -> "active"
                    [] req[t].status = "disabled" -> "deactivated" IN
    /\ Ready(t, "update")
    /\ SeatFree(t, o, u)
    /\ IF req[t].gone /\ <<role, status>> # <<loaded.role, loaded.status>>
       THEN Fail(t)
       ELSE /\ seat' = [seat EXCEPT ![o][u] =
                  IF req[t].gone THEN @
                  ELSE [role   |-> Emit(role, loaded.role, @.role),
                        status |-> Emit(status, loaded.status, @.status)]]
            /\ account' = [account EXCEPT ![u] = Emit(newAccount, req[t].account, @)]
            /\ crossed' = crossed \cup
                  {p \in Orgs \ {o} : u \in Owners(p) /\ account'[u] # "active"}
            /\ End(t)
            /\ UNCHANGED <<inv, rerolled, miscounted, used, reused>>
            /\ stale' = Staleness(t)

\* The seat is deleted, the account is not; a DELETE of a deleted row is no
\* error. Whoever loaded the row, or waits for its lock, loses it.
CommitRemove(t) ==
    LET o == req[t].org
        u == req[t].user
        Loses(r) == [r EXCEPT !.want = @ \ {u}, !.gone = @ \/ (r.user = u /\ r.seat # NoSeat)] IN
    /\ Ready(t, "remove")
    /\ SeatFree(t, o, u)
    /\ IF req[t].gone THEN Fail(t)
       ELSE /\ seat' = [seat EXCEPT ![o][u] = NoSeat]
            /\ req' = [other \in Requests |->
                         IF other = t THEN Idle
                         ELSE IF req[other].org = o THEN Loses(req[other])
                         ELSE req[other]]
            /\ UNCHANGED <<account, inv, crossed, rerolled, miscounted, used, reused>>
            /\ stale' = Staleness(t)

\* resolve_org_context: the next request of somebody with no active seat gives
\* a founder whose seat is missing the owner's seat of their personal
\* organization. (Who founded none gets a new one, not among Orgs.)
Heal(t, o) ==
    LET u == Founder[o] IN
    /\ o \in Personal
    /\ account[u] = "active"
    /\ seat[o][u] = NoSeat
    /\ \A p \in Orgs : ~Active(p, u)
    /\ Begin(t, [Idle EXCEPT !.op = "heal", !.phase = "ready", !.org = o, !.user = u])
    /\ UNCHANGED <<account, seat, inv, history>>

CommitHeal(t) ==
    LET o == req[t].org
        u == req[t].user IN
    /\ Ready(t, "heal")
    /\ IF seat[o][u] # NoSeat THEN Fail(t)
       ELSE /\ seat' = [seat EXCEPT ![o][u] = OwnerSeat]
            /\ End(t)
            /\ UNCHANGED <<account, inv, history>>

-----------------------------------------------------------------------------
(***************************************************************************)
(* Invitations.                                                            *)
(***************************************************************************)
Pending(o, u) ==
    {i \in Invitations : inv[i].status = "pending" /\ inv[i].org = o /\ inv[i].user = u}

\* POST /admin/invitations: not for an active member; a pending invitation to
\* the same address will be replaced.
Invite(t, c, o, u, role) ==
    /\ May(c, o, "invite")
    /\ role \in Grantable(seat[o][c].role) \cap RolesInUse
    /\ ~Active(o, u)
    /\ \E old \in (IF Pending(o, u) = {} THEN {None} ELSE Pending(o, u)) :
          Begin(t, [Idle EXCEPT !.op = "create", !.phase = "ready", !.org = o,
                                !.user = u, !.role = role, !.inv = old])
    /\ UNCHANGED <<account, seat, inv, history>>

\* The partial unique index on (org_id, email) WHERE status = 'pending'.
Clashes(table, i) ==
    /\ table[i].status = "pending"
    /\ \E k \in Invitations \ {i} :
          /\ table[k].status = "pending"
          /\ table[k].org = table[i].org /\ table[k].user = table[i].user

\* The loaded invitation is revoked, whatever became of it, and a new one
\* inserted. A request beyond the bound on invitations is lost.
CommitCreate(t) ==
    LET old == req[t].inv
        revoked == IF old = None THEN inv ELSE [inv EXCEPT ![old].status = "revoked"] IN
    /\ Ready(t, "create")
    /\ old # None => InvitationFree(t, old)
    /\ \/ /\ \A i \in Invitations : inv[i].status # "absent"
          /\ Fail(t)
       \/ \E i \in Invitations :
             LET new == [revoked EXCEPT ![i] =
                           [status |-> "pending", org |-> req[t].org, user |-> req[t].user,
                            role |-> req[t].role, token |-> 1, expired |-> FALSE]] IN
             /\ inv[i].status = "absent"
             /\ \/ /\ Clashes(new, i) /\ Fail(t)
                \/ /\ ~Clashes(new, i)
                   /\ inv' = new
                   /\ End(t)
                   /\ UNCHANGED <<account, seat, history>>

\* DELETE and POST .../resend of /admin/invitations/{id}: the row is loaded.
\* An accepted invitation is refused, a revoked one is only resent.
HandleInvitation(t, c, i, op) ==
    /\ inv[i].status \in (IF op = "revoke" THEN {"pending"} ELSE {"pending", "revoked"})
    /\ May(c, inv[i].org, "invite")
    /\ Begin(t, [Idle EXCEPT !.op = op, !.phase = "ready", !.inv = i, !.seen = inv[i].status])
    /\ UNCHANGED <<account, seat, inv, history>>

CommitRevoke(t) ==
    /\ Ready(t, "revoke")
    /\ InvitationFree(t, req[t].inv)
    /\ inv' = [inv EXCEPT ![req[t].inv].status = "revoked"]
    /\ End(t)
    /\ UNCHANGED <<account, seat, history>>

\* Variant: the old token stays.
FreshTokenKept(i) == inv[i].token
\* A new token replaces the stored one.
FreshToken(i) == inv[i].token + 1

CommitResend(t) ==
    LET i == req[t].inv
        new == [inv EXCEPT ![i].status = Emit("pending", req[t].seen, @),
                           ![i].token = FreshToken(i), ![i].expired = FALSE] IN
    /\ Ready(t, "resend")
    /\ InvitationFree(t, i)
    /\ \/ /\ Clashes(new, i) \/ new[i].token > MaxTokens
          /\ Fail(t)
       \/ /\ ~Clashes(new, i) /\ new[i].token <= MaxTokens
          /\ inv' = new
          /\ End(t)
          /\ UNCHANGED <<account, seat, history>>

\* expires_at passes.
Expire(i) ==
    /\ i \in Expiring
    /\ inv[i].status = "pending"
    /\ inv' = [inv EXCEPT ![i].expired = TRUE]
    /\ UNCHANGED <<account, seat, req, history>>

\* POST /invitations/{token}/accept with the current token: the invitation is
\* locked and must be usable. The invitee is signed in, or has no account.
LockInvitation(t, i) ==
    LET o == inv[i].org
        u == inv[i].user IN
    /\ InvitationFree(t, i)
    /\ inv[i].status = "pending"
    /\ ~inv[i].expired
    /\ account[u] # "disabled"
    /\ Begin(t, [Idle EXCEPT !.op = "accept", !.phase = "ready", !.inv = i, !.org = o,
                             !.user = u, !.seat = seat[o][u], !.account = account[u]])
    /\ UNCHANGED <<account, seat, inv, history>>

\* redeem: the account, the seat and the invitation change together. The seat
\* was read at some time since. Either insert may meet a row that is already
\* there, the update one that is gone.
CommitAccept(t) ==
    LET i == req[t].inv
        o == req[t].org
        u == req[t].user
        token == <<i, inv[i].token>> IN
    /\ Ready(t, "accept")
    /\ SeatFree(t, o, u)
    /\ \E loaded \in {req[t].seat, seat[o][u]} :
       IF \/ req[t].account = "none" /\ account[u] # "none"
          \/ loaded = NoSeat /\ seat[o][u] # NoSeat
          \/ loaded # NoSeat /\ loaded # seat[o][u] /\ req[t].gone
       THEN Fail(t)
       ELSE /\ account' = [account EXCEPT ![u] = IF @ = "none" THEN "active" ELSE @]
            /\ seat' = [seat EXCEPT ![o][u] =
                  [role   |-> Emit(inv[i].role, IF loaded = NoSeat THEN None ELSE loaded.role,
                                   @.role),
                   status |-> Emit("active", loaded.status, @.status)]]
            /\ inv' = [inv EXCEPT ![i].status = "accepted"]
            /\ rerolled' = IF u \in Owners(o) /\ inv[i].role # "owner"
                           THEN rerolled \cup {o} ELSE rerolled
            /\ used' = used \cup {token}
            /\ reused' = IF token \in used THEN reused \cup {token} ELSE reused
            /\ End(t)
            /\ UNCHANGED <<stale, crossed, miscounted>>

\* The request's process or connection dies before its commit.
Abort(t) == req[t] # Idle /\ Fail(t)

-----------------------------------------------------------------------------
MemberStep(t) ==
    \/ \E c, u \in Users, o \in Orgs :
          \/ \E role \in RolesInUse \cup {Same}, status \in {"active", "disabled", Same} :
                UpdateMember(t, c, o, u, role, status)
          \/ RemoveMember(t, c, o, u)
    \/ \E o \in Orgs : Heal(t, o)
    \/ CommitHeal(t)
    \/ CountOwners(t) \/ LockOwners(t) \/ CommitUpdate(t) \/ CommitRemove(t)

InvitationStep(t) ==
    \/ \E c, u \in Users, o \in Orgs, role \in RolesInUse : Invite(t, c, o, u, role)
    \/ \E c \in Users, i \in Invitations, op \in {"revoke", "resend"} :
          HandleInvitation(t, c, i, op)
    \/ \E i \in Invitations : LockInvitation(t, i)
    \/ CommitCreate(t) \/ CommitRevoke(t) \/ CommitResend(t) \/ CommitAccept(t)

Next ==
    \/ \E t \in Requests : MemberStep(t) \/ InvitationStep(t) \/ Abort(t)
    \/ \E i \in Invitations : Expire(i)

Spec == Init /\ [][Next]_vars

-----------------------------------------------------------------------------
(***************************************************************************)
(* Properties.                                                             *)
(***************************************************************************)

\* An organization keeps an active owner through every race of demotions,
\* disablements and removals: the lock of _owner_count closes the race it was
\* written for (admin_routes.py). Only four things can take the last owner:
\* a request that loaded them before they were an active owner, a disablement
\* by another organization, a lesser role the owner accepts, and a request that
\* waited for the seat's lock and counted an owner disabled meanwhile, because
\* the account is not read again with the seat.
Excused == stale \cup crossed \cup rerolled \cup miscounted
OwnersGuarded == \A o \in Orgs \ Excused : Owners(o) # {}

\* A token grants one seat once, however its acceptance races with another,
\* with a revocation and with a resend (invitations.py find_by_token).
TokenUsedOnce == reused = {}

\* Nobody is seated by an invitation that was revoked before.
RevokedSeatsNobody ==
    [][\A i \in Invitations : inv[i].status = "revoked" => inv'[i].status # "accepted"]_vars

\* At most one invitation to an address works: replacing, resending and the
\* unique index agree, also when two administrators invite at once.
OneWorkingLink == \A o \in Orgs, u \in Users : Cardinality(Pending(o, u)) <= 1

\* The seats stay well formed, and every organization keeps an owner.
SeatsSound == TypeOK /\ OwnersGuarded

\* A link works once, and one at a time.
LinksWorkOnce == TokenUsedOnce /\ OneWorkingLink

-----------------------------------------------------------------------------
(***************************************************************************)
(* The inductive invariants behind them.                                   *)
(***************************************************************************)

\* A loaded seat that is missing now was deleted, and its loader knows.
DeletionSeen ==
    \A t \in Requests :
        /\ req[t].op \in MemberOps \cup {"accept"}
        /\ req[t].seat # NoSeat
        /\ seat[req[t].org][req[t].user] = NoSeat
        => req[t].gone

\* Whoever is about to unseat an owner it loaded holds the lock of another one.
Unseats(r) == r.op \in MemberOps /\ UnseatsOwner(r.seat, r.op, r.role, r.status)
AnotherHeld ==
    \A t \in Requests :
        req[t].phase = "ready" /\ Unseats(req[t]) /\ req[t].org \notin Excused =>
            \E v \in req[t].held \ {req[t].user} : v \in Owners(req[t].org)

OwnersInv == DeletionSeen /\ AnotherHeld /\ OwnersGuarded

\* An invitation being accepted is pending, and one request accepts it; a token
\* that granted a seat is spent, or superseded by a later one.
AcceptsPending ==
    \A t \in Requests : req[t].op = "accept" => inv[req[t].inv].status = "pending"
AcceptsAlone ==
    \A s, t \in Requests :
        req[s].op = "accept" /\ req[t].op = "accept" /\ req[s].inv = req[t].inv => s = t
UsedIsSpent ==
    \A i \in Invitations, n \in 0 .. MaxTokens : <<i, n>> \in used =>
        /\ inv[i].status # "absent"
        /\ n <= inv[i].token
        /\ n = inv[i].token => inv[i].status \in {"accepted", "revoked"}
PendingAlone == \A o \in Orgs, u \in Users : \A i, k \in Pending(o, u) : i = k

LinksInv == AcceptsPending /\ AcceptsAlone /\ UsedIsSpent /\ PendingAlone /\ TokenUsedOnce

=============================================================================
