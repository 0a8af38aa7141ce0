------------------------------ MODULE Accounts ------------------------------
(***************************************************************************)
(* Accounts and the ways into them: sign-up with a password, sign-in with  *)
(* a password or with an identity a provider vouches for, the linking of   *)
(* an identity to a password account, and the organization every account   *)
(* is provisioned with.                                                    *)
(*                                                                         *)
(* A password stands for the person who chose it and alone knows it, and a *)
(* subject for a provider's permanent id of a person.  Addresses change    *)
(* hands at a provider: a token carries any address, or none.              *)
(* Every request reads first and commits later, with nothing locked; the   *)
(* unique constraints are looked at when it commits.                       *)
(***************************************************************************)
EXTENDS Integers, FiniteSets, SequencesExt

CONSTANTS
    People,
    Emails,       \* normalized addresses
    Subjects,     \* ids a provider gives a person
    Owner,        \* the person behind a subject
    Bases,        \* slugified names organizations are called after
    Base,         \* the base of an address' local part
    Reserved,     \* RESERVED_SLUGS
    Legacy,       \* addresses of accounts older than organizations
    Clients,      \* API request threads
    MaxAccounts,  \* bound: accounts ever registered
    None

ASSUME AccountAssumption ==
    /\ Owner \in [Subjects -> People]
    /\ Base \in [Emails -> Bases]
    /\ Reserved \subseteq Bases /\ Legacy \subseteq Emails
    /\ IsFiniteSet(Clients) /\ IsFiniteSet(Legacy)
    /\ MaxAccounts \in Nat /\ Cardinality(Legacy) <= MaxAccounts
    /\ None \notin People \cup Emails \cup Subjects

Accounts == 1 .. MaxAccounts
Slugs == Bases \X (1 .. MaxAccounts + 2)

VARIABLES
    users,     \* the table `users`
    orgs,      \* slug of the organization an account was given
    sessions,  \* who holds a live refresh session of an account
    req        \* requests: what they ask for and what they have read

\* History.
VARIABLES
    founder,   \* who registered an account
    doubled,   \* accounts that requests are linking of which two met
    outpaced   \* accounts disabled while a request was signing in to them, or
               \* swept while a session of them was being inserted

accountHistory == <<founder, doubled, outpaced>>
accountVars == <<users, orgs, sessions, req, accountHistory>>

Users == [email : Emails, password : People \cup {None},
          subject : Subjects \cup {None}, active : BOOLEAN]
ASSUME NoneIsNoUser == None \notin Users \cup Slugs
Idle == [pc |-> "idle", person |-> None, email |-> None, subject |-> None,
         account |-> 0, slug |-> None, found |-> {}]

AccountTypes ==
    /\ users \in [Accounts -> Users \cup {None}]
    /\ orgs \in [Accounts -> Slugs \cup {None}]
    /\ sessions \in [Accounts -> SUBSET People]
    /\ req \in [Clients ->
          [pc : {"idle", "slug", "register", "identify", "link", "enter", "session",
                 "disable"},
           person : People \cup {None}, email : Emails \cup {None},
           subject : Subjects \cup {None}, account : 0 .. MaxAccounts,
           slug : Slugs \cup {None}, found : SUBSET People]]
    /\ founder \in [Accounts -> People \cup {None}]
    /\ doubled \subseteq Accounts
    /\ outpaced \subseteq Accounts

Registered == {u \in Accounts : users[u] # None}
ByEmail(e) == {u \in Registered : users[u].email = e}
BySubject(s) == {u \in Registered : users[u].subject = s}

\* Before the migration to organizations a few accounts exist without a home.
AccountInit ==
    /\ \E old \in SUBSET Legacy, chosen \in [Legacy -> People] :
          users = [u \in Accounts |->
             IF u <= Cardinality(old)
             THEN LET e == SetToSeq(old)[u] IN
                  [email |-> e, password |-> chosen[e], subject |-> None, active |-> TRUE]
             ELSE None]
    /\ founder = [u \in Accounts |-> IF users[u] = None THEN None ELSE users[u].password]
    /\ orgs = [u \in Accounts |-> None]
    /\ sessions = [u \in Accounts |-> {}]
    /\ req = [r \in Clients |-> Idle]
    /\ doubled = {} /\ outpaced = {}

-----------------------------------------------------------------------------
\* Organizations.

Taken == {orgs[u] : u \in Accounts} \ {None}

\* The first of base, base-2, base-3 that is neither taken nor reserved.
FirstFree(base, taken) ==
    LET used == taken \cup {<<b, 1>> : b \in Reserved} IN
    <<base, Min({n \in 1 .. MaxAccounts + 2 : <<base, n>> \notin used})>>

\* uq_organizations_slug.
SlugClashes(slug) == slug \in Taken

\* The migration, before there are company accounts: whoever has no
\* organization gets one, in order of registration and in one transaction; each
\* name is chosen when those before it are taken.
Backfill ==
    /\ \E u \in Registered : orgs[u] = None
    /\ \E homes \in [Accounts -> Slugs \cup {None}] :
          /\ \A u \in Accounts :
                homes[u] = IF u \in Registered /\ orgs[u] = None
                           THEN FirstFree(Base[users[u].email],
                                          Taken \cup {homes[v] : v \in 1 .. u - 1})
                           ELSE orgs[u]
          /\ orgs' = homes
    /\ UNCHANGED <<users, sessions, req, accountHistory>>

-----------------------------------------------------------------------------
\* Requests.

Leave(r) == req' = [req EXCEPT ![r] = Idle]

\* A request that has nothing to commit yet.
Reads(r) == UNCHANGED <<users, orgs, sessions, founder, outpaced>>

\* POST /signup: the address is free at first sight.
SignUp(r, p, e) ==
    /\ req[r].pc = "idle"
    /\ ByEmail(e) = {}
    /\ req' = [req EXCEPT ![r] = [Idle EXCEPT !.pc = "slug", !.person = p, !.email = e]]
    /\ Reads(r)
    /\ UNCHANGED doubled

\* generate_unique_org_slug: only committed names are seen. A person's
\* organization is called after the address, a company's as the request says.
ReadSlug(r, b) ==
    /\ req[r].pc = "slug"
    /\ req' = [req EXCEPT ![r].pc = "register", ![r].slug = FirstFree(b, Taken)]
    /\ Reads(r)
    /\ UNCHANGED doubled

\* Variant: an identity needs no constraint of its own, its address has one.
ClashesByEmail(u, e, s) == e # None /\ ByEmail(e) \ {u} # {}
\* users.email and uq_users_auth_provider_subject: u is the row written, e and s
\* what is written to it.
Clashes(u, e, s) ==
    \/ e # None /\ ByEmail(e) \ {u} # {}
    \/ s # None /\ BySubject(s) \ {u} # {}

\* create_user: account, organization, workspace and membership commit
\* together, or the first unique constraint rolls all of it back.
Register(r) ==
    LET u == Cardinality(Registered) + 1
        s == req[r].subject IN
    /\ req[r].pc = "register"
    /\ \/ /\ Clashes(u, req[r].email, s) \/ SlugClashes(req[r].slug)
          /\ Leave(r)
          /\ UNCHANGED <<users, orgs, founder>>
       \/ /\ ~(Clashes(u, req[r].email, s) \/ SlugClashes(req[r].slug))
          /\ u \in Accounts
          /\ users' = [users EXCEPT ![u] =
                [email |-> req[r].email, password |-> IF s = None THEN req[r].person ELSE None,
                 subject |-> s, active |-> TRUE]]
          /\ orgs' = [orgs EXCEPT ![u] = req[r].slug]
          /\ founder' = [founder EXCEPT ![u] = req[r].person]
          /\ req' = [req EXCEPT ![r] = IF s = None THEN Idle
                       ELSE [Idle EXCEPT !.pc = "session", !.person = req[r].person,
                                         !.account = u]]
    /\ UNCHANGED <<sessions, doubled, outpaced>>

\* POST /login, up to its first commit: address, password, then the status.
LogIn(r, p, e) ==
    /\ req[r].pc = "idle"
    /\ \E u \in ByEmail(e) :
          /\ users[u].password = p
          /\ users[u].active
          /\ req' = [req EXCEPT ![r] = [Idle EXCEPT !.pc = "session", !.person = p, !.account = u]]
    /\ Reads(r)
    /\ UNCHANGED doubled

\* POST /oauth with a token of the provider that is still good.
PresentIdentity(r, s, e) ==
    /\ req[r].pc = "idle"
    /\ req' = [req EXCEPT ![r] = [Idle EXCEPT !.pc = "identify", !.person = Owner[s],
                                    !.subject = s, !.email = e]]
    /\ Reads(r)
    /\ UNCHANGED doubled

\* By subject first, by address second.
Found(r) == IF BySubject(req[r].subject) # {} THEN BySubject(req[r].subject)
                                              ELSE ByEmail(req[r].email)

\* Variant: a verified address is proof enough.
MayLinkByEmail(u, p) == users[u].subject = None
\* Variant: the password is asked for, what is linked already is not looked at.
MayLinkAgain(u, p) == users[u].password = p
\* Nobody but the holder of the account's password may attach an identity, and
\* only where there is none.
MayLink(u, p) == users[u].subject = None /\ users[u].password = p

\* The new address, if it is one and nobody here has it.
Followed(r, u) ==
    IF users[u].email # req[r].email /\ ByEmail(req[r].email) = {} THEN req[r].email
                                                                   ELSE None

Linking(r, u) == req[r].pc = "link" /\ req[r].account = u
\* Two links have met until the last of them is through.
Parted(r) == {u \in doubled : \E q \in Clients \ {r} : Linking(q, u)}

Identify(r) ==
    LET s == req[r].subject IN
    /\ req[r].pc = "identify"
    /\ \/ /\ Found(r) = {}
          /\ req[r].email # None
          /\ req' = [req EXCEPT ![r].pc = "slug"]
          /\ UNCHANGED doubled
       \/ \E u \in Found(r) :
             /\ users[u].active
             /\ \/ /\ users[u].subject = s
                   /\ req' = [req EXCEPT ![r].pc = "enter", ![r].account = u,
                                         ![r].email = Followed(r, u)]
                   /\ UNCHANGED doubled
                \/ /\ BySubject(s) = {}
                   /\ MayLink(u, req[r].person)
                   /\ req' = [req EXCEPT ![r].pc = "link", ![r].account = u,
                                         ![r].email = Followed(r, u)]
                   /\ doubled' = IF \E q \in Clients : Linking(q, u) THEN doubled \cup {u}
                                                                      ELSE doubled
    /\ Reads(r)

\* What was decided is written, whatever the row has become: the identity if
\* it is linked, the address if it was to follow.
Enter(r) ==
    LET u == req[r].account
        e == req[r].email
        s == IF req[r].pc = "link" THEN req[r].subject ELSE None IN
    /\ req[r].pc \in {"link", "enter"}
    /\ \/ /\ Clashes(u, e, s)
          /\ Leave(r)
          /\ UNCHANGED users
       \/ /\ ~Clashes(u, e, s)
          /\ users' = [users EXCEPT ![u].email = IF e = None THEN @ ELSE e,
                                    ![u].subject = IF s = None THEN @ ELSE s]
          /\ req' = [req EXCEPT ![r] = [Idle EXCEPT !.pc = "session",
                                          !.person = req[r].person, !.account = u]]
    /\ doubled' = Parted(r)
    /\ UNCHANGED <<orgs, sessions, founder, outpaced>>

\* A disablement of u has taken its snapshot of the live sessions.
Disabling(q, u) == req[q].pc = "disable" /\ req[q].account = u
Outpaced(u) == IF \E q \in Clients : Disabling(q, u) THEN outpaced \cup {u} ELSE outpaced

\* A session of p inserted now is in no snapshot taken before.
Unseen(requests, u, p) ==
    [q \in Clients |-> IF Disabling(q, u) THEN [requests[q] EXCEPT !.found = @ \ {p}]
                                          ELSE requests[q]]

\* start_refresh_session, in a transaction of its own.
StartSession(r) ==
    LET u == req[r].account IN
    /\ req[r].pc = "session"
    /\ sessions' = [sessions EXCEPT ![u] = @ \cup {req[r].person}]
    /\ req' = Unseen([req EXCEPT ![r] = Idle], u, req[r].person)
    /\ outpaced' = Outpaced(u)
    /\ UNCHANGED <<users, orgs, founder, doubled>>

\* rotate_refresh_session: one live session of p gives way to its successor,
\* whatever has become of the account.
Renew(u, p) ==
    /\ p \in sessions[u]
    /\ req' = Unseen(req, u, p)
    /\ outpaced' = Outpaced(u)
    /\ UNCHANGED <<users, orgs, sessions, founder, doubled>>

\* The connection or the process is lost: nothing of it was committed, and an
\* account that stays active needs no excuse.
Drop(r) ==
    /\ req[r].pc # "idle"
    /\ Leave(r)
    /\ doubled' = Parted(r)
    /\ outpaced' = {u \in outpaced : \/ ~users[u].active
                                     \/ \E q \in Clients \ {r} : Disabling(q, u)}
    /\ UNCHANGED <<users, orgs, sessions, founder>>

-----------------------------------------------------------------------------
\* What others do to an account.

\* PATCH of a member: disabled, up to the UPDATE of the live sessions, which sees
\* those of its snapshot and waits for the rotations that hold one of them.
BeginDisable(r, u) ==
    /\ req[r].pc = "idle"
    /\ u \in Registered /\ users[u].active
    /\ req' = [req EXCEPT ![r] = [Idle EXCEPT !.pc = "disable", !.account = u,
                                              !.found = sessions[u]]]
    /\ Reads(r)
    /\ UNCHANGED doubled

\* revoke_all_sessions_for_user: `found` are those who hold no session but what the
\* snapshot shows.
SessionsRevoked(r) == [sessions EXCEPT ![req[r].account] = @ \ req[r].found]

SigningIn(r, u) == req[r].pc \in {"link", "enter", "session"} /\ req[r].account = u

\* Status and revocation commit together.
Disable(r) ==
    LET u == req[r].account IN
    /\ req[r].pc = "disable"
    /\ users' = [users EXCEPT ![u].active = FALSE]
    /\ sessions' = SessionsRevoked(r)
    /\ outpaced' = IF \E q \in Clients : SigningIn(q, u) THEN outpaced \cup {u} ELSE outpaced
    /\ Leave(r)
    /\ UNCHANGED <<orgs, founder, doubled>>

\* PATCH of a member: active again.
Enable(u) ==
    /\ u \in Registered /\ ~users[u].active
    /\ users' = [users EXCEPT ![u].active = TRUE]
    /\ outpaced' = outpaced \ {v \in {u} : \A q \in Clients : ~Disabling(q, v)}
    /\ UNCHANGED <<orgs, sessions, req, founder, doubled>>

AccountNext ==
    \/ \E r \in Clients :
          \/ \E p \in People, e \in Emails : SignUp(r, p, e) \/ LogIn(r, p, e)
          \/ \E b \in Bases : ReadSlug(r, b)
          \/ \E s \in Subjects, e \in Emails \cup {None} : PresentIdentity(r, s, e)
          \/ Register(r) \/ Identify(r) \/ Enter(r) \/ StartSession(r)
          \/ Drop(r)
          \/ Disable(r) \/ \E u \in Accounts : BeginDisable(r, u)
    \/ \E u \in Accounts : Enable(u) \/ \E p \in People : Renew(u, p)
    \/ Backfill

AccountSpec == AccountInit /\ [][AccountNext]_accountVars

-----------------------------------------------------------------------------
\* An address, an identity and an organization's name are one account's each,
\* whatever registers, links and moves at once.
RegisteredOnce ==
    /\ AccountTypes
    /\ \A u, v \in Registered : u # v =>
          /\ users[u].email # users[v].email
          /\ users[u].subject # None => users[u].subject # users[v].subject
    /\ \A u, v \in Registered :
          orgs[u] # None /\ orgs[u] = orgs[v] => u = v

\* An account is entered by the person who registered it and by nobody else,
\* though its address may pass to others at the provider and a provider
\* vouches for whoever has it then; and once it is disabled nobody holds a
\* session of it ("revoke every live refresh session this user holds"), except by
\* a sign-in under way or a session inserted while the revocation was waiting.
OwnersEnter ==
    /\ \A u \in Accounts : sessions[u] \subseteq {founder[u]}
    /\ \A u \in Registered : ~users[u].active /\ sessions[u] # {} => u \in outpaced

\* The identity of an account is never replaced by another one, unless two
\* were being linked to it at once.
IdentityStays ==
    [][\A u \in Registered :
          users[u].subject # None =>
              users'[u].subject = users[u].subject \/ u \in doubled]_accountVars

-----------------------------------------------------------------------------
(***************************************************************************)
(* The inductive invariants behind them: what a request holds was true of  *)
(* the rows when it looked, and what could have changed since is excused.  *)
(***************************************************************************)

\* Accounts are registered in order and stay; whoever did knows the password,
\* and is the one every identity linked since stands for.
FoundersInv ==
    /\ \E n \in 0 .. MaxAccounts : Registered = 1 .. n
    /\ \A u \in Accounts : founder[u] # None <=> u \in Registered
    /\ \A u \in Registered :
          /\ users[u].password \in {None, founder[u]}
          /\ users[u].subject # None => Owner[users[u].subject] = founder[u]

\* A request enters an account for the person who registered it.
EntrantsInv ==
    \A r \in Clients :
        LET q == req[r] IN
        /\ q.pc \in {"slug", "register"} => q.person # None /\ q.email # None
        /\ q.pc = "register" => q.slug # None
        /\ q.pc \in {"identify", "link"} => q.subject # None
        /\ q.pc \in {"slug", "register", "identify", "link"} /\ q.subject # None =>
              q.person = Owner[q.subject]
        /\ q.pc \in {"link", "enter", "session"} =>
              /\ q.account \in Registered
              /\ q.person = founder[q.account]
              /\ users[q.account].active \/ q.account \in outpaced
        /\ q.pc = "disable" =>
              /\ q.account \in Registered
              /\ sessions[q.account] \subseteq q.found \/ q.account \in outpaced

\* Whoever links finds no identity there, or has met another who links.
LinksInv ==
    \A u \in Accounts, r \in Clients :
        Linking(r, u) =>
            /\ users[u].subject = None \/ u \in doubled
            /\ \A q \in Clients : Linking(q, u) => q = r \/ u \in doubled
=============================================================================
