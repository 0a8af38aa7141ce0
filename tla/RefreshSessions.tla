-------------------------- MODULE RefreshSessions --------------------------
(***************************************************************************)
(* The sign-ins of one user: families of refresh-token rows, rotated,      *)
(* signed out and revoked by concurrent requests.                          *)
(*                                                                         *)
(* The requests are transactions at READ COMMITTED, as the code runs them  *)
(* on PostgreSQL: a statement works on the rows that were committed when   *)
(* it began, waits for the row locks of other transactions one row at a    *)
(* time, and reads a row again once it has its lock. What a transaction    *)
(* writes is invisible until it commits, so its writes appear here in the  *)
(* action that commits them.                                               *)
(***************************************************************************)
EXTENDS Integers, Sequences, FiniteSets

CONSTANTS
    Families,       \* sign-ins (family_id): one per login on one device
    Requests,       \* API requests in flight
    MaxGenerations  \* bound: rows in one family

ASSUME SessionAssumption == MaxGenerations \in Nat \ {0}

\* A row is named by its family and its place in it: the order of insertion.
RowIds == Families \X (1 .. MaxGenerations)
Ranks == 1 .. MaxGenerations

\* `rank` is the position of the random uuid among those of the family: the
\* order ORDER BY id locks rows in.
AuthSessions == [consumed : BOOLEAN, revoked : BOOLEAN, rank : Ranks]

\* What a request is about: the token it presents, or the families it sweeps.
Phases == {"idle", "lock", "exchange", "revoke"}
Ops == {"none", "rotate", "logout", "sweep"}

VARIABLES
    rows,     \* auth_sessions, committed: per family a sequence of rows
    expired,  \* families past their expires_at
    op, token,
    phase,    \* the statement the transaction is in
    want,     \* the rows in that statement's snapshot it must lock
    held      \* the rows whose locks the transaction holds

requests == <<op, token, phase, want, held>>

\* History.
VARIABLES
    closed,     \* families whose logout, or whose reuse revocation, committed
    swept,      \* families a committed sweep found live rows of
    overtaken   \* families rotated while a sweep of them was waiting

history == <<closed, swept, overtaken>>
vars == <<rows, expired, requests, history>>

Row(r) == rows[r[1]][r[2]]
FamilyRows(f) == {f} \X DOMAIN rows[f]
LiveRows(f) == {r \in FamilyRows(f) : ~Row(r).revoked}
NoToken == <<>>
Free(r) == \A t \in Requests : r \notin held[t]

\* The family of a request that presents a token.
Family(t) == token[t][1]

\* Variant: only the presented row is locked.
PresentedOnly(r) == {r}
\* _lock_refresh_family: the rows it locks for the token of row r.
LockTargets(r) == FamilyRows(r[1])

TypeOK ==
    /\ rows \in [Families -> Seq(AuthSessions)]
    /\ \A f \in Families : Len(rows[f]) <= MaxGenerations
    /\ expired \in SUBSET Families
    /\ op \in [Requests -> Ops]
    /\ token \in [Requests -> RowIds \cup {NoToken}]
    /\ \A t \in Requests :
          op[t] \in {"rotate", "logout"} =>
              token[t] \in RowIds /\ token[t] \in FamilyRows(Family(t))
    /\ phase \in [Requests -> Phases]
    /\ want \in [Requests -> SUBSET RowIds]
    /\ held \in [Requests -> SUBSET RowIds]
    /\ closed \in SUBSET Families
    /\ swept \in SUBSET Families
    /\ overtaken \in SUBSET Families

Init ==
    /\ rows = [f \in Families |-> <<>>]
    /\ expired = {}
    /\ op = [t \in Requests |-> "none"]
    /\ token = [t \in Requests |-> NoToken]
    /\ phase = [t \in Requests |-> "idle"]
    /\ want = [t \in Requests |-> {}]
    /\ held = [t \in Requests |-> {}]
    /\ closed = {}
    /\ swept = {}
    /\ overtaken = {}

-----------------------------------------------------------------------------
\* start_refresh_session: a login commits the first row of a new family.
StartFamily(f) ==
    /\ rows[f] = <<>>
    /\ \E rank \in Ranks :
          rows' = [rows EXCEPT ![f] =
                      <<[consumed |-> FALSE, revoked |-> FALSE, rank |-> rank]>>]
    /\ UNCHANGED <<expired, requests, history>>

\* expires_at passes. It is the same for every row of a family.
Expire(f) ==
    /\ rows[f] # <<>>
    /\ expired' = expired \cup {f}
    /\ UNCHANGED <<rows, requests, history>>

\* Variant: an error leaves the transaction open.
EndAndHold(t) ==
    /\ op' = [op EXCEPT ![t] = "none"]
    /\ token' = [token EXCEPT ![t] = NoToken]
    /\ phase' = [phase EXCEPT ![t] = "idle"]
    /\ want' = [want EXCEPT ![t] = {}]
    /\ UNCHANGED held
\* The end of a transaction, by commit or rollback: its locks are released.
End(t) ==
    /\ op' = [op EXCEPT ![t] = "none"]
    /\ token' = [token EXCEPT ![t] = NoToken]
    /\ phase' = [phase EXCEPT ![t] = "idle"]
    /\ want' = [want EXCEPT ![t] = {}]
    /\ held' = [held EXCEPT ![t] = {}]

\* POST /auth/refresh and /auth/logout: a token that is not expired names a
\* row; _lock_refresh_family begins to lock the rows of its family.
PresentToken(t, kind, r) ==
    /\ phase[t] = "idle"
    /\ r[1] \notin expired
    /\ r \in FamilyRows(r[1])
    /\ op' = [op EXCEPT ![t] = kind]
    /\ token' = [token EXCEPT ![t] = r]
    /\ phase' = [phase EXCEPT ![t] = "lock"]
    /\ want' = [want EXCEPT ![t] = LockTargets(r)]
    /\ UNCHANGED <<rows, expired, held, history>>

\* Variant: only the tip is revoked.
BeginRevokeTip(t, scope) ==
    /\ phase' = [phase EXCEPT ![t] = "revoke"]
    /\ want' = [want EXCEPT ![t] =
                   {r \in UNION {LiveRows(f) : f \in scope} : ~Row(r).consumed}]
\* The UPDATE of _revoke_family and of the revocations without a token: the
\* rows that are not revoked at its start.
BeginRevoke(t, scope) ==
    /\ phase' = [phase EXCEPT ![t] = "revoke"]
    /\ want' = [want EXCEPT ![t] = UNION {LiveRows(f) : f \in scope}]

\* revoke_session_family_for_user, revoke_other_sessions_for_user and
\* revoke_all_sessions_for_user: no lock is taken before the UPDATE.
Sweep(t, scope) ==
    /\ phase[t] = "idle"
    /\ \E f \in scope : LiveRows(f) # {}
    /\ op' = [op EXCEPT ![t] = "sweep"]
    /\ BeginRevoke(t, scope)
    /\ UNCHANGED <<rows, expired, token, held, history>>

Scopes == {{f} : f \in Families}                 \* one session
          \cup {Families \ {f} : f \in Families} \* every other one
          \cup {Families}                        \* all of them

-----------------------------------------------------------------------------
Missing(t) == want[t] \ held[t]

\* Variant: no ORDER BY.
InAnyOrder(t) == Missing(t)
\* FOR UPDATE with ORDER BY id locks the missing row of the lowest rank.
InOrder(t) == {r \in Missing(t) : \A q \in Missing(t) : Row(r).rank <= Row(q).rank}

LockNext(t) ==
    /\ phase[t] = "lock"
    /\ \E r \in InOrder(t) :
          /\ Free(r)
          /\ held' = [held EXCEPT ![t] = @ \cup {r}]
    /\ UNCHANGED <<rows, expired, op, token, phase, want, history>>

\* UPDATE meets the rows in no particular order, and passes over one that was
\* revoked while it waited.
LockForRevoke(t) ==
    /\ phase[t] = "revoke"
    /\ \E r \in Missing(t) :
          /\ Free(r)
          /\ IF Row(r).revoked
             THEN want' = [want EXCEPT ![t] = @ \ {r}] /\ UNCHANGED held
             ELSE held' = [held EXCEPT ![t] = @ \cup {r}] /\ UNCHANGED want
    /\ UNCHANGED <<rows, expired, op, token, phase, history>>

Locked(t) == phase[t] = "lock" /\ Missing(t) = {}

\* rotate_refresh_session, once the family is locked. A family as long as the
\* model allows is refused another row.
Refuse(t) ==
    /\ Locked(t)
    /\ op[t] = "rotate"
    /\ \/ Row(token[t]).revoked
       \/ ~Row(token[t]).consumed /\ Len(rows[Family(t)]) = MaxGenerations
    /\ End(t)
    /\ UNCHANGED <<rows, expired, history>>

Accept(t) ==
    /\ Locked(t)
    /\ op[t] = "rotate"
    /\ ~Row(token[t]).revoked
    /\ ~Row(token[t]).consumed
    /\ Len(rows[Family(t)]) < MaxGenerations
    /\ phase' = [phase EXCEPT ![t] = "exchange"]
    /\ UNCHANGED <<rows, expired, op, token, want, held, history>>

\* Reuse of a consumed token, and every logout, revoke the family.
RevokeLocked(t) ==
    /\ Locked(t)
    /\ op[t] = "rotate" => ~Row(token[t]).revoked /\ Row(token[t]).consumed
    /\ BeginRevoke(t, {Family(t)})
    /\ UNCHANGED <<rows, expired, op, token, held, history>>

Sweeping(t, f) == op[t] = "sweep" /\ \E r \in want[t] : r[1] = f

\* Variant: the exchanged token is not consumed.
Rotated(family, g, rank) ==
    Append(family, [consumed |-> FALSE, revoked |-> FALSE, rank |-> rank])
\* The successor is inserted and the presented row consumed.
Exchanged(family, g, rank) ==
    Append([family EXCEPT ![g].consumed = TRUE],
           [consumed |-> FALSE, revoked |-> FALSE, rank |-> rank])

Exchange(t) ==
    LET f == Family(t) IN
    /\ phase[t] = "exchange"
    /\ \E rank \in Ranks \ {rows[f][g].rank : g \in DOMAIN rows[f]} :
          rows' = [rows EXCEPT ![f] = Exchanged(@, token[t][2], rank)]
    /\ overtaken' = IF \E u \in Requests : Sweeping(u, f)
                    THEN overtaken \cup {f} ELSE overtaken
    /\ End(t)
    /\ UNCHANGED <<expired, closed, swept>>

\* The revocation commits.
Revoke(t) ==
    /\ phase[t] = "revoke"
    /\ Missing(t) = {}
    /\ rows' = [f \in Families |->
                  [g \in DOMAIN rows[f] |->
                     [rows[f][g] EXCEPT !.revoked = @ \/ <<f, g>> \in want[t]]]]
    /\ IF op[t] = "sweep"
       THEN swept' = swept \cup {r[1] : r \in want[t]} /\ UNCHANGED closed
       ELSE closed' = closed \cup {Family(t)} /\ UNCHANGED swept
    /\ End(t)
    /\ UNCHANGED <<expired, overtaken>>

\* PostgreSQL's deadlock detector: requests that wait for each other.
WaitsFor(t, u) ==
    \/ phase[t] = "lock" /\ InOrder(t) \cap held[u] # {}
    \/ phase[t] = "revoke" /\ Missing(t) \cap held[u] # {}
Deadlocked(t) ==
    \E circle \in SUBSET Requests :
        /\ t \in circle
        /\ \A u \in circle : \E v \in circle \ {u} : WaitsFor(u, v)

DeadlockVictim(t) ==
    /\ Deadlocked(t)
    /\ End(t)
    /\ UNCHANGED <<rows, expired, history>>

\* The connection or the process is lost: the transaction is rolled back.
Abort(t) ==
    /\ phase[t] # "idle"
    /\ End(t)
    /\ UNCHANGED <<rows, expired, history>>

-----------------------------------------------------------------------------
Advance(t) ==
    \/ LockNext(t) \/ LockForRevoke(t) \/ Refuse(t) \/ Accept(t)
    \/ RevokeLocked(t) \/ Exchange(t) \/ Revoke(t) \/ DeadlockVictim(t)

Next ==
    \/ \E f \in Families : StartFamily(f) \/ Expire(f)
    \/ \E t \in Requests :
          \/ \E kind \in {"rotate", "logout"}, r \in RowIds : PresentToken(t, kind, r)
          \/ \E scope \in Scopes : Sweep(t, scope)
          \/ Advance(t)
          \/ Abort(t)

Spec == Init /\ [][Next]_vars

\* A row lock is granted to waiters in turn, and a request that has what it
\* needs goes on.
FairSpec == Spec /\ \A t \in Requests : SF_vars(Advance(t))

-----------------------------------------------------------------------------
(***************************************************************************)
(* Properties.                                                             *)
(***************************************************************************)

\* "The tip is the single row that has not been consumed by a rotation"
\* (auth_sessions.py list_active_sessions_for_user): however refreshes of one
\* device race, a token is exchanged once and a family has one newest row.
OneTip ==
    \A f \in Families : rows[f] # <<>> =>
        \E tip \in DOMAIN rows[f] :
            \A g \in DOMAIN rows[f] : ~rows[f][g].consumed <=> g = tip

\* Once a logout, or the revocation that follows reuse, has committed, the
\* family has no live row and gets none, whatever rotation was under way: the
\* lock on the family's rows lets no successor slip past the UPDATE.
ClosedStaysClosed == \A f \in closed : LiveRows(f) = {}

\* The revocations that do not lock the family first are complete as well,
\* unless a rotation committed its successor while they waited for a row.
SweptUnlessOvertaken == \A f \in swept \ overtaken : LiveRows(f) = {}

\* Two requests that are only locking a family never wait for each other: the
\* stable order of _lock_refresh_family keeps them apart.
StableOrder ==
    \A t, u \in Requests :
        phase[t] = "lock" /\ phase[u] = "lock" => ~(WaitsFor(t, u) /\ WaitsFor(u, t))

\* "The tip": the first row of the family, in order of creation, that is not
\* consumed.
Tip(f) == CHOOSE g \in DOMAIN rows[f] :
    /\ ~rows[f][g].consumed
    /\ \A h \in 1 .. g - 1 : rows[f][h].consumed

\* list_active_sessions_for_user: the families whose tip is neither revoked
\* nor expired.
Listed ==
    {f \in Families \ expired : rows[f] # <<>> /\ ~rows[f][Tip(f)].revoked}

\* "The list mirrors what could actually be used to obtain a new access
\* token" (list_active_sessions_for_user), also for a family of which a sweep
\* revoked some rows and not all: it is listed exactly if a refresh with one
\* of its tokens would now be accepted.
ListMirrorsUse ==
    \A f \in Families \ expired :
        f \in Listed <=> \E r \in LiveRows(f) : ~Row(r).consumed

\* Locks are taken in an order that cannot cross, and the list of devices tells
\* what the locks protect.
DevicesServed == StableOrder /\ ListMirrorsUse

\* Every request is answered, whatever it has to wait for.
RequestsEnd == \A t \in Requests : phase[t] # "idle" ~> phase[t] = "idle"

-----------------------------------------------------------------------------
(***************************************************************************)
(* The inductive invariant behind OneTip and the two revocation            *)
(* properties. Its heart: whoever locks a family locks its first row, so   *)
(* the holders of that row exclude each other, although they may know      *)
(* different sets of later rows.                                           *)
(***************************************************************************)
Root(f) == <<f, 1>>
Existing == UNION {FamilyRows(f) : f \in Families}

\* All rows but the last of a family were exchanged for the next.
Chain ==
    \A f \in Families : \A g \in DOMAIN rows[f] :
        rows[f][g].consumed <=> g < Len(rows[f])

LocksInv ==
    /\ \A t, u \in Requests : t # u => held[t] \cap held[u] = {}
    /\ \A t \in Requests : want[t] \subseteq Existing
    /\ \A t \in Requests : phase[t] # "idle" => op[t] # "none"
    /\ \A t \in Requests : phase[t] = "lock" =>
          op[t] # "sweep" /\ {Root(Family(t)), token[t]} \subseteq want[t]

\* The presented row stays as Accept found it.
ExchangeInv ==
    \A t \in Requests : phase[t] = "exchange" =>
        /\ op[t] = "rotate"
        /\ {Root(Family(t)), token[t]} \subseteq held[t]
        /\ ~Row(token[t]).consumed
        /\ ~Row(token[t]).revoked
        /\ Len(rows[Family(t)]) < MaxGenerations

\* A revocation misses no live row of its family, if it locked the family or
\* was not overtaken.
RevokeInv ==
    \A t \in Requests : phase[t] = "revoke" =>
        /\ op[t] # "sweep" =>
              Root(Family(t)) \in held[t] /\ LiveRows(Family(t)) \subseteq want[t]
        /\ op[t] = "sweep" => \A f \in Families :
              Sweeping(t, f) => f \in overtaken \/ LiveRows(f) \subseteq want[t]

EndedFamilies == \A f \in closed \cup swept : rows[f] # <<>>

SessionInv ==
    /\ TypeOK /\ Chain /\ LocksInv /\ ExchangeInv /\ RevokeInv /\ EndedFamilies
    /\ ClosedStaysClosed /\ SweptUnlessOvertaken

\* Ranks tell the rows of a family apart, and whoever locks a family holds rows
\* of it that rank no later than the ones still missing.
RanksDiffer ==
    \A f \in Families : \A g, h \in DOMAIN rows[f] :
        rows[f][g].rank = rows[f][h].rank => g = h
Ordered(t) ==
    /\ phase[t] = "idle" => held[t] = {}
    /\ phase[t] = "lock" =>
          /\ held[t] \subseteq want[t] /\ want[t] \subseteq FamilyRows(Family(t))
          /\ \A h \in held[t], m \in Missing(t) : Row(h).rank <= Row(m).rank
OrderInv == RanksDiffer /\ \A t \in Requests : Ordered(t)

=============================================================================
