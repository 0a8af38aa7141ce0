---------------------------- MODULE SignInProofs ----------------------------
(***************************************************************************)
(* Proofs about who signs in and what a sign-in keeps.                     *)
(*                                                                         *)
(* Accounts: an address, an identity and a name are one account's each,    *)
(* only the person who registered an account enters it, and its identity   *)
(* is not replaced, for any numbers of people, accounts, addresses and     *)
(* requests.                                                               *)
(*                                                                         *)
(* Sign-ins, for any numbers of families, requests and generations:        *)
(* SessionInv is inductive, and with it a family has one tip and a         *)
(* revocation that locks its family is complete for good.  OrderInv adds   *)
(* in which order locks are taken: no two rotations or logouts ever wait   *)
(* for each other, and the list of devices is what could be refreshed.     *)
(***************************************************************************)
EXTENDS Accounts, RefreshSessions, FiniteSetTheorems, WellFoundedInduction, TLAPS

LEMMA Constants ==
  /\ Owner \in [Subjects -> People] /\ Base \in [Emails -> Bases]
  /\ Reserved \subseteq Bases /\ Legacy \subseteq Emails
  /\ IsFiniteSet(Clients) /\ IsFiniteSet(Legacy)
  /\ MaxAccounts \in Nat /\ Cardinality(Legacy) <= MaxAccounts
  /\ None \notin People /\ None \notin Emails /\ None \notin Subjects
  /\ None \notin Users /\ None \notin Slugs
  BY AccountAssumption, NoneIsNoUser

-----------------------------------------------------------------------------
(***************************************************************************)
(* Names.                                                                  *)
(***************************************************************************)
Below == {pair \in Nat \X Nat : pair[1] < pair[2]}

LEMMA BelowIsWellFounded == IsWellFoundedOn(Below, Nat)
  BY NatLessThanWellFounded DEF OpToRel, Below

LEMMA LeastNumber ==
  ASSUME NEW T, T \subseteq Nat, T # {}
  PROVE  Min(T) \in T
<1>1. PICK x \in T : \A y \in T : ~ (<<y, x>> \in Below)
  BY BelowIsWellFounded, WFMin
<1>2. \A y \in T : ~(y < x)
  BY <1>1 DEF Below
<1>3. \A y \in T : x <= y
  BY <1>1, <1>2
<1>. QED
  BY <1>3 DEF Min

\* There are more numbers to append than accounts that could have a name.
LEMMA FirstFreeName ==
  ASSUME NEW b \in Bases, NEW o, NEW taken, taken \subseteq {o[v] : v \in Accounts}
  PROVE  FirstFree(b, taken) \in Slugs /\ FirstFree(b, taken) \notin taken
<1>. DEFINE used == taken \cup {<<c, 1>> : c \in Reserved}
            numbers == {n \in 1 .. MaxAccounts + 2 : <<b, n>> \notin used}
            more == 2 .. MaxAccounts + 2
            holder == [n \in more |-> CHOOSE v \in Accounts : o[v] = <<b, n>>]
<1>1. numbers # {}
  <2>1. SUFFICES ASSUME numbers = {} PROVE FALSE
    OBVIOUS
  <2>2. ASSUME NEW n \in more
        PROVE  holder[n] \in Accounts /\ o[holder[n]] = <<b, n>>
    <3>1. n \in 1 .. MaxAccounts + 2 /\ n # 1
      BY <2>2, Constants
    <3>2. <<b, n>> \in used
      BY <2>1, <3>1
    <3>3. <<b, n>> \in taken
      BY <3>1, <3>2
    <3>4. \E v \in Accounts : o[v] = <<b, n>>
      BY <3>3
    <3>. QED
      BY <3>4
  <2>3. holder \in [more -> Accounts]
    BY <2>2
  <2>4. /\ IsFiniteSet(more) /\ Cardinality(more) = MaxAccounts + 1
        /\ IsFiniteSet(Accounts) /\ Cardinality(Accounts) = MaxAccounts
    <3>1. /\ IsFiniteSet(more)
          /\ Cardinality(more) = IF 2 > MaxAccounts + 2 THEN 0 ELSE MaxAccounts + 2 - 2 + 1
      BY Constants, FS_Interval
    <3>4. Cardinality(more) = MaxAccounts + 1
      <4>. HIDE DEF more
      <4>. QED
        BY <3>1, Constants
    <3>2. /\ IsFiniteSet(Accounts)
          /\ Cardinality(Accounts) = IF 1 > MaxAccounts THEN 0 ELSE MaxAccounts - 1 + 1
      BY Constants, FS_Interval DEF Accounts
    <3>3. Cardinality(Accounts) = MaxAccounts
      BY <3>2, Constants
    <3>. QED
      BY <3>1, <3>2, <3>3, <3>4
  <2>5. Cardinality(Accounts) < Cardinality(more)
    BY <2>4, Constants
  <2>6. PICK m, n \in more : m # n /\ holder[m] = holder[n]
    <3>. HIDE DEF holder, more
    <3>. QED
      BY <2>3, <2>4, <2>5, FS_PigeonHole
  <2>7. <<b, m>> = <<b, n>>
    BY <2>2, <2>6
  <2>. QED
    BY <2>6, <2>7
<1>2. numbers \subseteq Nat
  BY Constants
<1>3. Min(numbers) \in numbers
  BY <1>1, <1>2, LeastNumber
<1>4. FirstFree(b, taken) = <<b, Min(numbers)>>
  BY DEF FirstFree
<1>5. Min(numbers) \in 1 .. MaxAccounts + 2 /\ <<b, Min(numbers)>> \notin used
  BY <1>3
<1>. QED
  BY <1>4, <1>5 DEF Slugs

LEMMA SequencesOfSets ==
  ASSUME NEW S, IsFiniteSet(S)
  PROVE  /\ SetToSeq(S) \in [1 .. Cardinality(S) -> S]
         /\ \A a, b \in 1 .. Cardinality(S) : SetToSeq(S)[a] = SetToSeq(S)[b] => a = b
<1>1. PICK n \in Nat : ExistsBijection(1 .. n, S)
  BY FS_NatBijection
<1>2. Cardinality(S) = n
  BY <1>1, FS_CountingElements
<1>3. \E f \in [1 .. Cardinality(S) -> S] : IsInjective(f)
  BY <1>1, <1>2 DEF ExistsBijection, Bijection, Injection, IsInjective
<1>4. SetToSeq(S) \in [1 .. Cardinality(S) -> S] /\ IsInjective(SetToSeq(S))
  BY <1>3 DEF SetToSeq
<1>. QED
  BY <1>4 DEF IsInjective
-----------------------------------------------------------------------------
(***************************************************************************)
(* What a step does to the requests and to the rows.                       *)
(***************************************************************************)
Asking == [pc : {"idle", "slug", "register", "identify", "link", "enter", "session",
                 "disable"},
           person : People \cup {None}, email : Emails \cup {None},
           subject : Subjects \cup {None}, account : 0 .. MaxAccounts,
           slug : Slugs \cup {None}, found : SUBSET People]

OthersStay(r) ==
    /\ req' \in [Clients -> Asking]
    /\ \A q \in Clients \ {r} : req'[q] = req[q]

LEMMA RequestTyped ==
  ASSUME AccountTypes, NEW r \in Clients
  PROVE  req[r] \in Asking /\ req \in [Clients -> Asking]
  BY DEF AccountTypes, Asking

LEMMA RequestSet ==
  ASSUME AccountTypes, NEW r \in Clients, NEW x \in Asking, req' = [req EXCEPT ![r] = x]
  PROVE  OthersStay(r) /\ req'[r] = x
  BY RequestTyped DEF OthersStay

LEMMA IdleFields ==
  /\ Idle \in Asking /\ Idle.pc = "idle" /\ Idle.person = None /\ Idle.email = None
  /\ Idle.subject = None /\ Idle.account = 0 /\ Idle.slug = None /\ Idle.found = {}
  BY Constants DEF Idle, Asking

LEMMA EndEnds ==
  ASSUME AccountTypes, NEW r \in Clients, Leave(r)
  PROVE  OthersStay(r) /\ req'[r] = Idle
  BY IdleFields, RequestSet DEF Leave

OtherUsers(u) ==
    /\ users' \in [Accounts -> Users \cup {None}]
    /\ \A v \in Accounts \ {u} : users'[v] = users[v]

LEMMA UserSet ==
  ASSUME AccountTypes, NEW u \in Accounts, NEW x \in Users, users' = [users EXCEPT ![u] = x]
  PROVE  OtherUsers(u) /\ users'[u] = x
  BY DEF AccountTypes, OtherUsers

LEMMA RowTyped ==
  ASSUME AccountTypes, NEW u \in Registered
  PROVE  u \in Accounts /\ users[u] \in Users /\ users[u] # None
  BY DEF AccountTypes, Registered

\* The next account is free.
LEMMA NextAccount ==
  ASSUME AccountTypes, FoundersInv, NEW u \in Accounts, u = Cardinality(Registered) + 1
  PROVE  /\ u \notin Registered /\ users[u] = None
         /\ \E n \in 0 .. MaxAccounts : Registered \cup {u} = 1 .. n
<1>1. PICK n \in 0 .. MaxAccounts : Registered = 1 .. n
  BY DEF FoundersInv
<1>2. n \in Nat /\ MaxAccounts \in Nat
  BY <1>1, Constants
<1>3. Cardinality(Registered) = n
  <2>1. Cardinality(1 .. n) = IF 1 > n THEN 0 ELSE n - 1 + 1
    BY <1>2, FS_Interval
  <2>. QED
    BY <1>1, <1>2, <2>1
<1>4. u = n + 1 /\ n + 1 \in 0 .. MaxAccounts
  BY <1>2, <1>3 DEF Accounts
<1>5. Registered \cup {u} = 1 .. n + 1
  BY <1>1, <1>2, <1>4
<1>. QED
  BY <1>1, <1>2, <1>4, <1>5 DEF Registered

\* Committed names are the names of accounts.
LEMMA NewNames ==
  ASSUME AccountTypes, NEW b \in Bases
  PROVE  FirstFree(b, Taken) \in Slugs /\ FirstFree(b, Taken) \notin Taken
<1>1. Taken \subseteq {orgs[v] : v \in Accounts}
  BY DEF Taken
<1>. QED
  BY <1>1, FirstFreeName

-----------------------------------------------------------------------------
(***************************************************************************)
(* Steps that commit nothing: requests ask, read and decide.               *)
(***************************************************************************)
Entrant(r) ==
    LET q == req[r] IN
    /\ q.pc \in {"slug", "register"} => q.person # None /\ q.email # None
    /\ q.pc = "register" => q.slug # None
    /\ q.pc \in {"identify", "link"} => q.subject # None
    /\ q.pc \in {"slug", "register", "identify", "link"} /\ q.subject # None =>
          q.person = Owner[q.subject]
    /\ q.pc \in {"link", "enter", "session"} =>
          /\ q.account \in Registered
          /\ q.person = founder[q.account]
          /\ users[q.account].active \/ q.account \in outpaced
    /\ q.pc = "disable" =>
          /\ q.account \in Registered
          /\ sessions[q.account] \subseteq q.found \/ q.account \in outpaced

LEMMA EntrantsAre == EntrantsInv <=> \A r \in Clients : Entrant(r)
  BY DEF EntrantsInv, Entrant

\* A request that is lost takes excuses with it that nobody needs.
Forgets(r) ==
    /\ UNCHANGED <<users, orgs, sessions, founder>>
    /\ outpaced' \subseteq outpaced
    /\ \A u \in outpaced \ outpaced' :
          users[u].active /\ \A q \in Clients \ {r} : ~Disabling(q, u)

\* A request that decided something: only one that links may have met another.
Decides(r) ==
    /\ Reads(r) \/ Forgets(r)
    /\ OthersStay(r) /\ doubled' \subseteq Accounts
    /\ Entrant(r)'
    /\ \/ req'[r].pc # "link" /\ doubled' \in {doubled, Parted(r)}
       \/ /\ req'[r].pc = "link" /\ req[r].pc # "link"
          /\ users[req'[r].account].subject = None
          /\ doubled \subseteq doubled'
          /\ (\E q \in Clients : Linking(q, req'[r].account)) => req'[r].account \in doubled'

LEMMA SignUpDecides ==
  ASSUME AccountTypes, NEW r \in Clients, NEW p \in People, NEW e \in Emails, SignUp(r, p, e)
  PROVE  Decides(r)
<1>. DEFINE x == [Idle EXCEPT !.pc = "slug", !.person = p, !.email = e]
<1>1. x \in Asking /\ x.pc = "slug" /\ x.person = p /\ x.email = e /\ x.subject = None
  BY IdleFields DEF Asking
<1>2. req' = [req EXCEPT ![r] = x] /\ Reads(r) /\ doubled' = doubled
  BY DEF SignUp
<1>. HIDE DEF x
<1>3. OthersStay(r) /\ req'[r] = x
  BY <1>1, <1>2, RequestSet
<1>. QED
  BY <1>1, <1>2, <1>3, Constants DEF Decides, Entrant, AccountTypes

LEMMA ReadSlugDecides ==
  ASSUME AccountTypes, EntrantsInv, NEW r \in Clients, NEW b \in Bases, ReadSlug(r, b)
  PROVE  Decides(r)
<1>. DEFINE q == req[r]
            n == FirstFree(b, Taken)
            x == [q EXCEPT !.pc = "register", !.slug = n]
<1>1. /\ q \in Asking /\ q.pc = "slug" /\ req' = [req EXCEPT ![r] = x] /\ Reads(r)
      /\ doubled' = doubled /\ n \in Slugs
  BY RequestTyped, NewNames DEF ReadSlug
<1>. HIDE DEF q, n
<1>2. /\ x \in Asking /\ x.pc = "register" /\ x.slug = n /\ x.person = q.person
      /\ x.email = q.email /\ x.subject = q.subject /\ x.account = q.account
  BY <1>1 DEF Asking
<1>. HIDE DEF x
<1>3. OthersStay(r) /\ req'[r] = x
  BY <1>1, <1>2, RequestSet
<1>4. /\ q.person # None /\ q.email # None
      /\ q.subject # None => q.person = Owner[q.subject]
  BY <1>1 DEF EntrantsInv, q
<1>5. Entrant(r)'
  BY <1>1, <1>2, <1>3, <1>4, Constants DEF Entrant
<1>. QED
  BY <1>1, <1>2, <1>3, <1>5 DEF Decides, AccountTypes

LEMMA LogInDecides ==
  ASSUME AccountTypes, FoundersInv, NEW r \in Clients, NEW p \in People, NEW e \in Emails,
         LogIn(r, p, e)
  PROVE  Decides(r)
<1>1. PICK u \in ByEmail(e) :
         /\ users[u].password = p /\ users[u].active
         /\ req' = [req EXCEPT ![r] = [Idle EXCEPT !.pc = "session", !.person = p, !.account = u]]
  BY DEF LogIn
<1>. DEFINE x == [Idle EXCEPT !.pc = "session", !.person = p, !.account = u]
<1>2. u \in Registered /\ u \in Accounts /\ u \in 0 .. MaxAccounts
  BY Constants DEF ByEmail, Registered, Accounts
<1>3. x \in Asking /\ x.pc = "session" /\ x.person = p /\ x.account = u
  BY <1>2, IdleFields DEF Asking
<1>4. req' = [req EXCEPT ![r] = x] /\ Reads(r) /\ doubled' = doubled
  BY <1>1 DEF LogIn
<1>. HIDE DEF x
<1>5. OthersStay(r) /\ req'[r] = x
  BY <1>3, <1>4, RequestSet
<1>6. p = founder[u]
  BY <1>1, <1>2, Constants DEF FoundersInv
<1>7. Entrant(r)'
  BY <1>1, <1>2, <1>3, <1>4, <1>5, <1>6 DEF Entrant, Reads, Registered
<1>. QED
  BY <1>3, <1>4, <1>5, <1>7 DEF Decides, AccountTypes

LEMMA PresentDecides ==
  ASSUME AccountTypes, NEW r \in Clients, NEW s \in Subjects, NEW e \in Emails \cup {None},
         PresentIdentity(r, s, e)
  PROVE  Decides(r)
<1>. DEFINE x == [Idle EXCEPT !.pc = "identify", !.person = Owner[s], !.subject = s, !.email = e]
<1>1. /\ x \in Asking /\ x.pc = "identify" /\ x.person = Owner[s] /\ x.subject = s
      /\ s # None
  BY IdleFields, Constants DEF Asking
<1>2. req' = [req EXCEPT ![r] = x] /\ Reads(r) /\ doubled' = doubled
  BY DEF PresentIdentity
<1>. HIDE DEF x
<1>3. OthersStay(r) /\ req'[r] = x
  BY <1>1, <1>2, RequestSet
<1>. QED
  BY <1>1, <1>2, <1>3 DEF Decides, Entrant, AccountTypes

LEMMA DropDecides ==
  ASSUME AccountTypes, NEW r \in Clients, Drop(r)
  PROVE  Decides(r)
<1>1. OthersStay(r) /\ req'[r] = Idle /\ Forgets(r) /\ doubled' = Parted(r)
  BY EndEnds DEF Drop, Forgets
<1>. QED
  BY <1>1, IdleFields DEF Decides, Entrant, Parted, AccountTypes

LEMMA BeginDisableDecides ==
  ASSUME AccountTypes, NEW r \in Clients, NEW u \in Accounts, BeginDisable(r, u)
  PROVE  Decides(r)
<1>. DEFINE x == [Idle EXCEPT !.pc = "disable", !.account = u, !.found = sessions[u]]
<1>1. u \in 0 .. MaxAccounts /\ sessions[u] \in SUBSET People
  BY Constants DEF Accounts, AccountTypes
<1>2. x \in Asking /\ x.pc = "disable" /\ x.account = u /\ x.found = sessions[u]
  BY <1>1, IdleFields DEF Asking
<1>3. req' = [req EXCEPT ![r] = x] /\ Reads(r) /\ doubled' = doubled /\ u \in Registered
  BY DEF BeginDisable
<1>. HIDE DEF x
<1>4. OthersStay(r) /\ req'[r] = x
  BY <1>2, <1>3, RequestSet
<1>5. Entrant(r)'
  BY <1>2, <1>3, <1>4 DEF Entrant, Reads, Registered
<1>. QED
  BY <1>2, <1>3, <1>4, <1>5 DEF Decides, AccountTypes

\* By the identity, or by the password where there is none: it is the founder.
LEMMA IdentifyDecides ==
  ASSUME AccountTypes, FoundersInv, EntrantsInv, NEW r \in Clients, Identify(r)
  PROVE  Decides(r)
<1>. DEFINE q == req[r]
            s == q.subject
<1>1. /\ q \in Asking /\ q.pc = "identify" /\ s # None /\ q.person = Owner[s] /\ Reads(r)
      /\ s \in Subjects /\ q.person \in People
  <2>1. q \in Asking /\ q.pc = "identify" /\ Reads(r)
    BY RequestTyped DEF Identify
  <2>2. s # None /\ q.person = Owner[s]
    BY <2>1 DEF EntrantsInv
  <2>. QED
    BY <2>1, <2>2, Constants DEF Asking
<1>2. CASE req' = [req EXCEPT ![r].pc = "slug"] /\ UNCHANGED doubled /\ q.email # None
  <2>. DEFINE x == [q EXCEPT !.pc = "slug"]
  <2>1. req' = [req EXCEPT ![r] = x]
    BY <1>2
  <2>. HIDE DEF q
  <2>2. /\ x \in Asking /\ x.pc = "slug" /\ x.person = q.person /\ x.email = q.email
        /\ x.subject = q.subject
    BY <1>1 DEF Asking
  <2>. HIDE DEF x
  <2>3. OthersStay(r) /\ req'[r] = x
    BY <2>1, <2>2, RequestSet
  <2>. QED
    BY <1>1, <1>2, <2>2, <2>3, Constants DEF Decides, Entrant, AccountTypes
<1>3. ASSUME NEW u \in Found(r), users[u].active, NEW pc \in {"enter", "link"},
             req' = [req EXCEPT ![r].pc = pc, ![r].account = u, ![r].email = Followed(r, u)],
             pc = "enter" => users[u].subject = s,
             pc = "link" => users[u].password = q.person
      PROVE  OthersStay(r) /\ req'[r].pc = pc /\ req'[r].account = u /\ Entrant(r)'
  <2>. DEFINE e == Followed(r, u)
              x == [q EXCEPT !.pc = pc, !.account = u, !.email = e]
  <2>1. u \in Registered /\ u \in Accounts /\ u \in 0 .. MaxAccounts
    BY <1>3, Constants DEF Found, BySubject, ByEmail, Registered, Accounts
  <2>2. e \in Emails \cup {None}
    BY <1>1 DEF Followed, Asking
  <2>3. req' = [req EXCEPT ![r] = x]
    BY <1>3
  <2>4. q.person = founder[u]
    BY <1>1, <1>3, <2>1, Constants DEF FoundersInv
  <2>. HIDE DEF q, e
  <2>5. /\ x \in Asking /\ x.pc = pc /\ x.person = q.person /\ x.subject = s
        /\ x.account = u
    BY <1>1, <1>3, <2>1, <2>2 DEF Asking
  <2>. HIDE DEF x
  <2>6. OthersStay(r) /\ req'[r] = x
    BY <2>3, <2>5, RequestSet
  <2>7. Entrant(r)'
    BY <1>1, <1>3, <2>1, <2>4, <2>5, <2>6 DEF Entrant, Reads, Registered
  <2>. QED
    BY <2>5, <2>6, <2>7
<1>4. ASSUME NEW u \in Found(r), users[u].active, users[u].subject = s, UNCHANGED doubled,
             req' = [req EXCEPT ![r].pc = "enter", ![r].account = u, ![r].email = Followed(r, u)]
      PROVE  Decides(r)
  <2>1. OthersStay(r) /\ req'[r].pc = "enter" /\ Entrant(r)'
    BY <1>3, <1>4
  <2>. QED
    BY <1>1, <1>4, <2>1 DEF Decides, AccountTypes
<1>5. ASSUME NEW u \in Found(r), users[u].active, MayLink(u, q.person),
             doubled' = IF \E k \in Clients : Linking(k, u) THEN doubled \cup {u} ELSE doubled,
             req' = [req EXCEPT ![r].pc = "link", ![r].account = u, ![r].email = Followed(r, u)]
      PROVE  Decides(r)
  <2>1. /\ OthersStay(r) /\ req'[r].pc = "link" /\ Entrant(r)' /\ req'[r].account = u
        /\ users[u].subject = None
    BY <1>3, <1>5 DEF MayLink
  <2>2. u \in Accounts
    BY <1>5 DEF Found, BySubject, ByEmail, Registered
  <2>3. /\ doubled' \subseteq Accounts /\ doubled \subseteq doubled'
        /\ (\E k \in Clients : Linking(k, u)) => u \in doubled'
    BY <1>5, <2>2 DEF AccountTypes
  <2>. QED
    BY <1>1, <2>1, <2>3 DEF Decides
<1>6. \/ req' = [req EXCEPT ![r].pc = "slug"] /\ UNCHANGED doubled /\ q.email # None
      \/ \E u \in Found(r) :
            /\ users[u].active
            /\ \/ /\ users[u].subject = s
                  /\ req' = [req EXCEPT ![r].pc = "enter", ![r].account = u,
                                        ![r].email = Followed(r, u)]
                  /\ UNCHANGED doubled
               \/ /\ MayLink(u, q.person)
                  /\ req' = [req EXCEPT ![r].pc = "link", ![r].account = u,
                                        ![r].email = Followed(r, u)]
                  /\ doubled' = IF \E k \in Clients : Linking(k, u) THEN doubled \cup {u}
                                                                     ELSE doubled
  BY DEF Identify
<1>. HIDE DEF q, s
<1>. QED
  BY <1>2, <1>4, <1>5, <1>6

-----------------------------------------------------------------------------
(***************************************************************************)
(* Steps that commit.                                                      *)
(***************************************************************************)
Unique ==
    /\ \A u, v \in Registered : u # v =>
          /\ users[u].email # users[v].email
          /\ users[u].subject # None => users[u].subject # users[v].subject
    /\ \A u, v \in Registered :
          orgs[u] # None /\ orgs[u] = orgs[v] => u = v

\* A failed commit is the end of the request.
LEMMA RegisterDoes ==
  ASSUME AccountTypes, FoundersInv, EntrantsInv, NEW r \in Clients, Register(r),
         ~UNCHANGED <<users, orgs, founder>>
  PROVE  \E u \in Accounts \ Registered :
            /\ users[u] = None /\ \E n \in 0 .. MaxAccounts : Registered \cup {u} = 1 .. n
            /\ OtherUsers(u) /\ users'[u] \in Users /\ users'[u].active
            /\ users'[u].email = req[r].email /\ users'[u].subject = req[r].subject
            /\ users'[u].password \in {None, req[r].person}
            /\ ByEmail(req[r].email) = {}
            /\ req[r].subject # None => BySubject(req[r].subject) = {}
            /\ req[r].slug \in Slugs \ Taken
            /\ req[r].person \in People
            /\ req[r].subject # None => req[r].person = Owner[req[r].subject]
            /\ orgs' = [orgs EXCEPT ![u] = req[r].slug]
            /\ founder' = [founder EXCEPT ![u] = req[r].person]
            /\ OthersStay(r)
            /\ \/ req'[r].pc = "idle"
               \/ req'[r].pc = "session" /\ req'[r].account = u
                  /\ req'[r].person = req[r].person
<1>. DEFINE u == Cardinality(Registered) + 1
            q == req[r]
            s == q.subject
            pw == IF s = None THEN q.person ELSE None
            x == [email |-> q.email, password |-> pw, subject |-> s, active |-> TRUE]
            i == [Idle EXCEPT !.pc = "session", !.person = q.person, !.account = u]
            y == IF s = None THEN Idle ELSE i
<1>1. /\ q.pc = "register" /\ u \in Accounts
      /\ ~Clashes(u, q.email, s) /\ ~SlugClashes(q.slug)
      /\ users' = [users EXCEPT ![u] = x]
      /\ orgs' = [orgs EXCEPT ![u] = q.slug]
      /\ founder' = [founder EXCEPT ![u] = q.person]
      /\ req' = [req EXCEPT ![r] = y]
  BY DEF Register
<1>2. /\ u \notin Registered /\ users[u] = None
      /\ \E n \in 0 .. MaxAccounts : Registered \cup {u} = 1 .. n
  BY <1>1, NextAccount
<1>3. /\ q \in Asking /\ q.person # None /\ q.email # None /\ q.slug # None
      /\ s # None => q.person = Owner[s]
  BY <1>1, RequestTyped DEF EntrantsInv
<1>4. /\ q.person \in People /\ q.email \in Emails /\ q.slug \in Slugs
      /\ s \in Subjects \cup {None}
  BY <1>3 DEF Asking
<1>5. /\ ByEmail(q.email) = {} /\ (s # None => BySubject(s) = {}) /\ q.slug \notin Taken
  BY <1>1, <1>2, <1>3 DEF Clashes, SlugClashes, ByEmail, BySubject
<1>6. u \in 0 .. MaxAccounts
  BY <1>1, Constants DEF Accounts
<1>. HIDE DEF u, q, s
<1>7. pw \in {None, q.person} /\ pw \in People \cup {None}
  BY <1>4
<1>. HIDE DEF pw
<1>8. /\ x \in Users /\ x.email = q.email /\ x.subject = s /\ x.active
      /\ x.password \in {None, q.person}
  BY <1>4, <1>7 DEF Users
<1>9. /\ i \in Asking /\ i.pc = "session" /\ i.person = q.person /\ i.account = u
  BY <1>4, <1>6, IdleFields DEF Asking
<1>. HIDE DEF x, i
<1>10. OtherUsers(u) /\ users'[u] = x
  BY <1>1, <1>8, UserSet
<1>11. /\ y \in Asking
       /\ y.pc = "idle" \/ (y.pc = "session" /\ y.account = u /\ y.person = q.person)
  BY <1>9, IdleFields
<1>. HIDE DEF y
<1>12. OthersStay(r) /\ req'[r] = y
  BY <1>1, <1>11, RequestSet
<1>. QED
  BY <1>1, <1>2, <1>3, <1>4, <1>5, <1>8, <1>10, <1>11, <1>12 DEF q, s

LEMMA RegisterFails ==
  ASSUME AccountTypes, NEW r \in Clients, Register(r), UNCHANGED <<users, orgs, founder>>,
         FoundersInv, EntrantsInv
  PROVE  Decides(r)
<1>1. CASE Leave(r)
  BY <1>1, EndEnds, IdleFields DEF Decides, Register, Entrant, Reads, AccountTypes
<1>2. CASE ~Leave(r)
  <2>. DEFINE u == Cardinality(Registered) + 1
              v == [email |-> req[r].email,
                    password |-> IF req[r].subject = None THEN req[r].person ELSE None,
                    subject |-> req[r].subject, active |-> TRUE]
  <2>1. u \in Accounts /\ users' = [users EXCEPT ![u] = v]
    BY <1>2 DEF Register
  <2>2. users[u] = None
    BY <2>1, NextAccount
  <2>. HIDE DEF u
  <2>3. users'[u] = v
    BY <2>1 DEF AccountTypes
  <2>4. v # None
    <3>1. req[r].email # None /\ req[r] \in Asking
      BY <1>2, RequestTyped DEF EntrantsInv, Register
    <3>2. v \in Users
      BY <3>1 DEF Users, Asking
    <3>. QED
      BY <3>2, Constants
  <2>. QED
    BY <2>2, <2>3, <2>4
<1>. QED
  BY <1>1, <1>2
LEMMA EnterDoes ==
  ASSUME AccountTypes, EntrantsInv, NEW r \in Clients, Enter(r), ~Decides(r)
  PROVE  LET u == req[r].account IN
         /\ u \in Registered /\ u \in Accounts
         /\ OtherUsers(u) /\ users'[u] \in Users
         /\ users'[u].password = users[u].password /\ users'[u].active = users[u].active
         /\ \/ users'[u].email = users[u].email
            \/ ByEmail(users'[u].email) \subseteq {u}
         /\ \/ users'[u].subject = users[u].subject
            \/ /\ Linking(r, u) /\ users'[u].subject = req[r].subject
               /\ BySubject(req[r].subject) \subseteq {u}
               /\ Owner[req[r].subject] = founder[u]
         /\ OthersStay(r) /\ req'[r].pc = "session" /\ req'[r].account = u
         /\ req'[r].person = req[r].person
         /\ doubled' = Parted(r) /\ UNCHANGED <<orgs, sessions, founder, outpaced>>
<1>. DEFINE q == req[r]
            u == q.account
            o == users[u]
            e == q.email
            s == IF q.pc = "link" THEN q.subject ELSE None
            ne == IF e = None THEN o.email ELSE e
            ns == IF s = None THEN o.subject ELSE s
            x == [o EXCEPT !.email = ne, !.subject = ns]
            i == [Idle EXCEPT !.pc = "session", !.person = q.person, !.account = u]
<1>1. /\ q.pc \in {"link", "enter"} /\ q \in Asking /\ doubled' = Parted(r)
      /\ UNCHANGED <<orgs, sessions, founder, outpaced>>
  BY RequestTyped DEF Enter
<1>2. /\ u \in Registered /\ q.person = founder[u]
      /\ q.pc = "link" => q.subject # None /\ q.person = Owner[q.subject]
  BY <1>1 DEF EntrantsInv
<1>3. /\ ~Clashes(u, e, s)
      /\ users' = [users EXCEPT ![u].email = IF e = None THEN @ ELSE e,
                                ![u].subject = IF s = None THEN @ ELSE s]
      /\ req' = [req EXCEPT ![r] = i]
  <2>1. CASE Leave(r) /\ UNCHANGED users
    <3>1. OthersStay(r) /\ req'[r] = Idle /\ Reads(r)
      BY <1>1, <2>1, EndEnds DEF Reads
    <3>2. doubled' \subseteq Accounts
      BY <1>1 DEF Parted, AccountTypes
    <3>. QED
      BY <1>1, <3>1, <3>2, IdleFields DEF Decides, Entrant
  <2>. QED
    BY <2>1 DEF Enter
<1>4. u \in Accounts /\ o \in Users
  BY <1>2, RowTyped
<1>5. users' = [users EXCEPT ![u] = x]
  BY <1>3, <1>4 DEF AccountTypes
<1>6. /\ u \in 0 .. MaxAccounts /\ q.person \in People \cup {None}
      /\ q.subject \in Subjects \cup {None} /\ q.email \in Emails \cup {None}
  BY <1>1, <1>4 DEF Asking
<1>7. i \in Asking /\ i.pc = "session" /\ i.person = q.person /\ i.account = u
  BY <1>6, IdleFields DEF Asking
<1>8. /\ ne \in Emails /\ ns \in Subjects \cup {None}
      /\ ne = o.email \/ (e # None /\ ne = e)
      /\ ns = o.subject \/ (s # None /\ ns = s)
  <2>1. o.email \in Emails /\ o.subject \in Subjects \cup {None}
    BY <1>4 DEF Users
  <2>2. e \in Emails \cup {None} /\ s \in Subjects \cup {None}
    BY <1>6
  <2>. HIDE DEF o, e, s
  <2>. QED
    BY <2>1, <2>2
<1>9. s # None => q.pc = "link" /\ s = q.subject
  OBVIOUS
<1>. HIDE DEF q, u, o, e, s, ne, ns, i
<1>10. /\ x \in Users /\ x.email = ne /\ x.subject = ns /\ x.password = o.password
       /\ x.active = o.active
  BY <1>4, <1>8 DEF Users
<1>. HIDE DEF x
<1>11. OtherUsers(u) /\ users'[u] = x
  BY <1>4, <1>5, <1>10, UserSet
<1>12. OthersStay(r) /\ req'[r] = i
  BY <1>3, <1>7, RequestSet
<1>13. \/ users'[u].email = users[u].email
       \/ ByEmail(users'[u].email) \subseteq {u}
  BY <1>3, <1>8, <1>10, <1>11 DEF Clashes, o
<1>14. \/ users'[u].subject = users[u].subject
       \/ /\ Linking(r, u) /\ users'[u].subject = q.subject
          /\ BySubject(q.subject) \subseteq {u} /\ Owner[q.subject] = founder[u]
  BY <1>2, <1>3, <1>8, <1>9, <1>10, <1>11 DEF Clashes, o, Linking, q, u
<1>. QED
  BY <1>1, <1>2, <1>4, <1>7, <1>10, <1>11, <1>12, <1>13, <1>14 DEF q, u, o

\* A session is inserted: those who are disabling its account did not see it.
Inserts(u) ==
    /\ UNCHANGED <<users, orgs, founder, doubled>> /\ outpaced' = Outpaced(u)
    /\ sessions' \in [Accounts -> SUBSET People]
    /\ \A v \in Accounts :
          \/ sessions'[v] = sessions[v]
          \/ /\ v = u /\ (users[u].active \/ u \in outpaced)
             /\ sessions'[v] \subseteq sessions[v] \cup {founder[v]}
    /\ req' \in [Clients -> Asking]
    /\ \A q \in Clients :
          \/ req'[q] = Idle
          \/ ~Disabling(q, u) /\ req'[q] = req[q]
          \/ Disabling(q, u) /\ req'[q].pc = "disable" /\ req'[q].account = u

LEMMA UnseenDoes ==
  ASSUME NEW asking \in [Clients -> Asking], NEW u, NEW p, NEW q \in Clients
  PROVE  /\ Unseen(asking, u, p)[q] \in Asking
         /\ ~Disabling(q, u) => Unseen(asking, u, p)[q] = asking[q]
         /\ Disabling(q, u) => /\ Unseen(asking, u, p)[q].pc = asking[q].pc
                               /\ Unseen(asking, u, p)[q].account = asking[q].account
<1>. DEFINE x == asking[q]
            y == [x EXCEPT !.found = x.found \ {p}]
<1>1. Unseen(asking, u, p)[q] = IF Disabling(q, u) THEN y ELSE x
  BY DEF Unseen
<1>2. x \in Asking
  OBVIOUS
<1>. HIDE DEF x
<1>3. y \in Asking /\ y.pc = x.pc /\ y.account = x.account
  BY <1>2 DEF Asking
<1>. QED
  BY <1>1, <1>2, <1>3 DEF x

LEMMA StartDoes ==
  ASSUME AccountTypes, FoundersInv, EntrantsInv, NEW r \in Clients, StartSession(r)
  PROVE  req[r].account \in Accounts /\ Inserts(req[r].account)
<1>. DEFINE u == req[r].account
            p == req[r].person
            others == [req EXCEPT ![r] = Idle]
<1>1. /\ req[r].pc = "session" /\ req' = Unseen(others, u, p)
      /\ UNCHANGED <<users, orgs, founder, doubled>> /\ outpaced' = Outpaced(u)
      /\ sessions' = [sessions EXCEPT ![u] = @ \cup {p}]
  BY DEF StartSession
<1>2. /\ u \in Registered /\ p = founder[u] /\ (users[u].active \/ u \in outpaced)
  BY <1>1 DEF EntrantsInv
<1>3. u \in Accounts /\ p \in People
  BY <1>2, RowTyped, RequestTyped DEF Asking, FoundersInv
<1>4. sessions'[u] = sessions[u] \cup {p} /\ \A v \in Accounts \ {u} : sessions'[v] = sessions[v]
  BY <1>1, <1>3 DEF AccountTypes
<1>5. others \in [Clients -> Asking] /\ others[r] = Idle
      /\ \A q \in Clients \ {r} : others[q] = req[q]
  BY RequestTyped, IdleFields
<1>6. ~Disabling(r, u)
  BY <1>1 DEF Disabling
<1>7. ASSUME NEW q \in Clients
      PROVE  /\ req'[q] \in Asking
             /\ \/ req'[q] = Idle
                \/ ~Disabling(q, u) /\ req'[q] = req[q]
                \/ Disabling(q, u) /\ req'[q].pc = "disable" /\ req'[q].account = u
  <2>. HIDE DEF u, p, others
  <2>. QED
    BY <1>1, <1>5, <1>6, UnseenDoes DEF Disabling
<1>8. req' \in [Clients -> Asking]
  BY <1>1, <1>7 DEF Unseen
<1>9. sessions' \in [Accounts -> SUBSET People]
  BY <1>1, <1>3 DEF AccountTypes
<1>. HIDE DEF u, p
<1>. QED
  BY <1>1, <1>2, <1>3, <1>4, <1>7, <1>8, <1>9 DEF Inserts, u

LEMMA RenewDoes ==
  ASSUME AccountTypes, NEW u \in Accounts, NEW p, Renew(u, p)
  PROVE  Inserts(u)
<1>1. /\ req' = Unseen(req, u, p) /\ req \in [Clients -> Asking]
      /\ UNCHANGED <<users, orgs, sessions, founder, doubled>> /\ outpaced' = Outpaced(u)
  BY DEF Renew, AccountTypes, Asking
<1>2. ASSUME NEW q \in Clients
      PROVE  /\ req'[q] \in Asking
             /\ \/ ~Disabling(q, u) /\ req'[q] = req[q]
                \/ Disabling(q, u) /\ req'[q].pc = "disable" /\ req'[q].account = u
  BY <1>1, UnseenDoes DEF Disabling
<1>3. req' \in [Clients -> Asking]
  BY <1>1, <1>2 DEF Unseen
<1>. QED
  BY <1>1, <1>2, <1>3 DEF Inserts, AccountTypes
-----------------------------------------------------------------------------
(***************************************************************************)
(* Every step preserves the invariants.                                    *)
(***************************************************************************)
Sound == AccountTypes /\ FoundersInv /\ EntrantsInv /\ LinksInv /\ Unique /\ OwnersEnter

LEMMA DecidesSound ==
  ASSUME Sound, NEW r \in Clients, Decides(r)
  PROVE  Sound'
<1>1. /\ AccountTypes /\ OthersStay(r) /\ doubled' \subseteq Accounts /\ Entrant(r)'
      /\ UNCHANGED <<users, orgs, sessions, founder>> /\ outpaced' \subseteq outpaced
      /\ \A u \in outpaced \ outpaced' :
            users[u].active /\ \A q \in Clients \ {r} : ~Disabling(q, u)
  BY DEF Sound, Decides, Reads, Forgets
<1>2. AccountTypes'
  BY <1>1 DEF AccountTypes, OthersStay, Asking
<1>3. FoundersInv' /\ Unique' /\ Registered' = Registered
  BY <1>1 DEF Sound, FoundersInv, Unique, Registered
<1>8. OwnersEnter'
  BY <1>1, <1>3 DEF Sound, OwnersEnter
<1>4. EntrantsInv'
  <2>1. ASSUME NEW q \in Clients \ {r} PROVE Entrant(q)'
    <3>1. Entrant(q) /\ req'[q] = req[q]
      BY <1>1, EntrantsAre DEF Sound, OthersStay
    <3>2. /\ users[req[q].account].active \/ req[q].account \in outpaced =>
             users[req[q].account].active \/ req[q].account \in outpaced'
          /\ req[q].pc = "disable" /\ req[q].account \in outpaced =>
                req[q].account \in outpaced'
      BY <1>1 DEF Disabling
    <3>. QED
      BY <1>1, <1>3, <3>1, <3>2 DEF Entrant
  <2>2. \A q \in Clients : Entrant(q)'
    BY <1>1, <2>1
  <2>. QED
    BY <2>2 DEF EntrantsInv, Entrant
<1>5. LinksInv'
  <2>1. \A u \in Accounts, q \in Clients :
           Linking(q, u) => /\ users[u].subject = None \/ u \in doubled
                            /\ \A k \in Clients : Linking(k, u) => k = q \/ u \in doubled
    BY DEF Sound, LinksInv
  <2>2. \A q \in Clients \ {r}, u \in Accounts : Linking(q, u)' <=> Linking(q, u)
    BY <1>1 DEF OthersStay, Linking
  <2>3. users' = users
    BY <1>1
  <2>4. CASE req'[r].pc # "link" /\ doubled' \in {doubled, Parted(r)}
    <3>1. \A u \in Accounts : ~Linking(r, u)'
      BY <2>4 DEF Linking
    <3>2. ASSUME NEW q \in Clients, NEW u \in Accounts, Linking(q, u)', u \in doubled
          PROVE  u \in doubled'
      BY <2>2, <2>4, <3>1, <3>2 DEF Parted
    <3>3. ASSUME NEW u \in Accounts, NEW q \in Clients, Linking(q, u)'
          PROVE  /\ users'[u].subject = None \/ u \in doubled'
                 /\ \A k \in Clients : Linking(k, u)' => k = q \/ u \in doubled'
      BY <2>1, <2>2, <2>3, <3>1, <3>2, <3>3
    <3>. QED
      BY <3>3 DEF LinksInv
  <2>5. CASE /\ req'[r].pc = "link" /\ req[r].pc # "link"
             /\ users[req'[r].account].subject = None
             /\ doubled \subseteq doubled'
             /\ (\E q \in Clients : Linking(q, req'[r].account)) => req'[r].account \in doubled'
    <3>1. \A u \in Accounts : ~Linking(r, u) /\ (Linking(r, u)' <=> u = req'[r].account)
      BY <2>5 DEF Linking
    <3>3. ASSUME NEW u \in Accounts, NEW q \in Clients, Linking(q, u)'
          PROVE  /\ users'[u].subject = None \/ u \in doubled'
                 /\ \A k \in Clients : Linking(k, u)' => k = q \/ u \in doubled'
      <4>1. CASE u = req'[r].account
        BY <2>2, <2>3, <2>5, <3>1, <3>3, <4>1
      <4>2. CASE u # req'[r].account
        BY <2>1, <2>2, <2>3, <2>5, <3>1, <3>3, <4>2
      <4>. QED
        BY <4>1, <4>2
    <3>. QED
      BY <3>3 DEF LinksInv
  <2>. QED
    BY <2>4, <2>5 DEF Decides
<1>. QED
  BY <1>2, <1>3, <1>4, <1>5, <1>8 DEF Sound

LEMMA RegisterSound ==
  ASSUME Sound, NEW r \in Clients, Register(r)
  PROVE  Sound'
<1>. SUFFICES ASSUME ~UNCHANGED <<users, orgs, founder>> PROVE Sound'
  BY RegisterFails, DecidesSound DEF Sound
<1>1. PICK u \in Accounts \ Registered :
         /\ users[u] = None /\ \E n \in 0 .. MaxAccounts : Registered \cup {u} = 1 .. n
         /\ OtherUsers(u) /\ users'[u] \in Users /\ users'[u].active
         /\ users'[u].email = req[r].email /\ users'[u].subject = req[r].subject
         /\ users'[u].password \in {None, req[r].person}
         /\ ByEmail(req[r].email) = {}
         /\ req[r].subject # None => BySubject(req[r].subject) = {}
         /\ req[r].slug \in Slugs \ Taken
         /\ req[r].person \in People
         /\ req[r].subject # None => req[r].person = Owner[req[r].subject]
         /\ orgs' = [orgs EXCEPT ![u] = req[r].slug]
         /\ founder' = [founder EXCEPT ![u] = req[r].person]
         /\ OthersStay(r)
         /\ \/ req'[r].pc = "idle"
            \/ req'[r].pc = "session" /\ req'[r].account = u
               /\ req'[r].person = req[r].person
  BY RegisterDoes DEF Sound
<1>2. UNCHANGED <<sessions, doubled, outpaced>> /\ AccountTypes
  BY DEF Register, Sound
<1>3. /\ founder' \in [Accounts -> People \cup {None}] /\ founder'[u] = req[r].person
      /\ \A v \in Accounts \ {u} : founder'[v] = founder[v]
      /\ orgs' \in [Accounts -> Slugs \cup {None}] /\ orgs'[u] = req[r].slug
      /\ \A v \in Accounts \ {u} : orgs'[v] = orgs[v]
  BY <1>1, <1>2 DEF AccountTypes
<1>4. AccountTypes'
  BY <1>1, <1>2, <1>3 DEF AccountTypes, OtherUsers, OthersStay, Asking
<1>5. /\ Registered' = Registered \cup {u} /\ Registered \subseteq Accounts
      /\ \A v \in Registered : users'[v] = users[v]
  BY <1>1, Constants DEF Registered, OtherUsers
<1>6. FoundersInv'
  <2>1. \E n \in 0 .. MaxAccounts : Registered' = 1 .. n
    BY <1>1, <1>5
  <2>2. \A v \in Accounts : founder'[v] # None <=> v \in Registered'
    BY <1>1, <1>3, <1>5, Constants DEF Sound, FoundersInv
  <2>3. \A v \in Registered' :
           /\ users'[v].password \in {None, founder'[v]}
           /\ users'[v].subject # None => Owner[users'[v].subject] = founder'[v]
    BY <1>1, <1>3, <1>5 DEF Sound, FoundersInv
  <2>. QED
    BY <2>1, <2>2, <2>3 DEF FoundersInv
<1>7. EntrantsInv'
  <2>1. Entrant(r)'
    BY <1>1, <1>3, <1>5 DEF Entrant
  <2>2. ASSUME NEW q \in Clients \ {r} PROVE Entrant(q)'
    <3>1. Entrant(q) /\ req'[q] = req[q]
      BY <1>1, EntrantsAre DEF Sound, OthersStay
    <3>2. ASSUME req[q].account \in Registered
          PROVE  /\ req[q].account \in Registered'
                 /\ users'[req[q].account] = users[req[q].account]
                 /\ founder'[req[q].account] = founder[req[q].account]
      BY <1>1, <1>3, <1>5, <3>2
    <3>. QED
      BY <1>2, <3>1, <3>2 DEF Entrant
  <2>3. \A q \in Clients : Entrant(q)'
    BY <2>1, <2>2
  <2>. QED
    BY <2>3 DEF EntrantsInv, Entrant
<1>8. LinksInv'
  <2>1. ASSUME NEW q \in Clients, NEW v \in Accounts, Linking(q, v)'
        PROVE  q # r /\ Linking(q, v) /\ users'[v] = users[v]
    <3>1. q # r /\ Linking(q, v)
      BY <1>1, <2>1 DEF Linking, OthersStay
    <3>2. v \in Registered
      BY <3>1 DEF Linking, Sound, EntrantsInv
    <3>. QED
      BY <1>5, <3>1, <3>2
  <2>. QED
    BY <1>2, <2>1 DEF Sound, LinksInv
<1>9. Unique'
  <2>1. \A v \in Registered : users[v].email # req[r].email
    BY <1>1 DEF ByEmail
  <2>2. req[r].subject # None => \A v \in Registered : users[v].subject # req[r].subject
    BY <1>1 DEF BySubject
  <2>3. \A v \in Registered : orgs[v] # req[r].slug
    BY <1>1, <1>5, Constants DEF Taken
  <2>4. \A v, w \in Registered' : v # w =>
           /\ users'[v].email # users'[w].email
           /\ users'[v].subject # None => users'[v].subject # users'[w].subject
    BY <1>1, <1>5, <2>1, <2>2 DEF Sound, Unique
  <2>5. \A v, w \in Registered' : orgs'[v] # None /\ orgs'[v] = orgs'[w] => v = w
    BY <1>1, <1>3, <1>5, <2>3 DEF Sound, Unique
  <2>. QED
    BY <2>4, <2>5 DEF Unique
<1>10. OwnersEnter'
  <2>1. founder[u] = None /\ sessions[u] = {}
    <3>1. founder[u] = None
      BY <1>1 DEF Sound, FoundersInv
    <3>2. sessions[u] \subseteq {None} /\ sessions[u] \subseteq People
      BY <1>2, <3>1 DEF Sound, OwnersEnter, AccountTypes
    <3>. QED
      BY <3>1, <3>2, Constants
  <2>. QED
    BY <1>1, <1>2, <1>3, <1>5, <2>1 DEF Sound, OwnersEnter
<1>. QED
  BY <1>4, <1>6, <1>7, <1>8, <1>9, <1>10 DEF Sound

LEMMA EnterSound ==
  ASSUME Sound, NEW r \in Clients, Enter(r)
  PROVE  Sound'
<1>. SUFFICES ASSUME ~Decides(r) PROVE Sound'
  BY DecidesSound
<1>. DEFINE u == req[r].account
<1>1. /\ u \in Registered /\ u \in Accounts
      /\ OtherUsers(u) /\ users'[u] \in Users
      /\ users'[u].password = users[u].password /\ users'[u].active = users[u].active
      /\ \/ users'[u].email = users[u].email
         \/ ByEmail(users'[u].email) \subseteq {u}
      /\ \/ users'[u].subject = users[u].subject
         \/ /\ Linking(r, u) /\ users'[u].subject = req[r].subject
            /\ BySubject(req[r].subject) \subseteq {u}
            /\ Owner[req[r].subject] = founder[u]
      /\ OthersStay(r) /\ req'[r].pc = "session" /\ req'[r].account = u
      /\ req'[r].person = req[r].person
      /\ doubled' = Parted(r) /\ UNCHANGED <<orgs, sessions, founder, outpaced>>
  BY EnterDoes DEF Sound
<1>2. AccountTypes /\ req[r].pc \in {"link", "enter"}
  BY DEF Enter, Sound
<1>3. AccountTypes'
  BY <1>1, <1>2 DEF AccountTypes, OtherUsers, OthersStay, Asking, Parted
<1>4. /\ Registered' = Registered /\ Registered \subseteq Accounts
      /\ \A v \in Registered \ {u} : users'[v] = users[v]
  BY <1>1, Constants DEF Registered, OtherUsers
<1>. HIDE DEF u
<1>5. FoundersInv'
  <2>1. \A v \in Registered :
           /\ users'[v].password = users[v].password
           /\ \/ users'[v].subject = users[v].subject
              \/ Owner[users'[v].subject] = founder[v]
    BY <1>1, <1>4
  <2>2. \A v \in Registered :
           /\ users'[v].password \in {None, founder'[v]}
           /\ users'[v].subject # None => Owner[users'[v].subject] = founder'[v]
    BY <1>1, <2>1 DEF Sound, FoundersInv
  <2>. QED
    BY <1>1, <1>4, <2>2 DEF Sound, FoundersInv
<1>6. EntrantsInv'
  <2>1. Entrant(r)'
    <3>1. /\ req[r].person = founder[u] /\ (users[u].active \/ u \in outpaced)
      BY <1>2 DEF Sound, EntrantsInv, u
    <3>. QED
      BY <1>1, <1>4, <3>1 DEF Entrant
  <2>2. ASSUME NEW q \in Clients \ {r} PROVE Entrant(q)'
    <3>1. Entrant(q) /\ req'[q] = req[q]
      BY <1>1, EntrantsAre DEF Sound, OthersStay
    <3>2. ASSUME req[q].account \in Registered
          PROVE  users'[req[q].account].active = users[req[q].account].active
      BY <1>1, <1>4, <3>2
    <3>. QED
      BY <1>1, <1>4, <3>1, <3>2 DEF Entrant
  <2>3. \A q \in Clients : Entrant(q)'
    BY <2>1, <2>2
  <2>. QED
    BY <2>3 DEF EntrantsInv, Entrant
<1>7. LinksInv'
  <2>1. ASSUME NEW q \in Clients, NEW v \in Accounts, Linking(q, v)'
        PROVE  /\ q # r /\ Linking(q, v)
               /\ v \in doubled => v \in doubled'
               /\ users'[v].subject = None \/ v \in doubled'
    <3>1. q # r /\ Linking(q, v)
      BY <1>1, <2>1 DEF Linking, OthersStay
    <3>2. v \in doubled => v \in doubled'
      BY <1>1, <3>1 DEF Parted
    <3>3. v \in Registered
      BY <3>1 DEF Linking, Sound, EntrantsInv
    <3>4. users[v].subject = None \/ v \in doubled
      BY <3>1 DEF Sound, LinksInv
    <3>5. CASE users'[v].subject = users[v].subject
      BY <3>1, <3>2, <3>4, <3>5
    <3>6. CASE users'[v].subject # users[v].subject
      <4>1. v = u /\ Linking(r, u)
        BY <1>1, <1>4, <3>3, <3>6
      <4>2. v \in doubled
        BY <3>1, <4>1 DEF Sound, LinksInv
      <4>. QED
        BY <3>1, <3>2, <4>2
    <3>. QED
      BY <3>5, <3>6
  <2>2. \A v \in Accounts, q, k \in Clients :
           Linking(q, v)' /\ Linking(k, v)' => k = q \/ v \in doubled'
    BY <2>1 DEF Sound, LinksInv
  <2>. QED
    BY <2>1, <2>2 DEF LinksInv
<1>8. Unique'
  <2>1. \A v \in Registered \ {u} : users[v].email # users'[u].email
    BY <1>1 DEF ByEmail, Sound, Unique
  <2>2. \A v \in Registered \ {u} :
           users'[u].subject # None => users[v].subject # users'[u].subject
    BY <1>1 DEF BySubject, Sound, Unique
  <2>3. \A v, w \in Registered : v # w =>
           /\ users'[v].email # users'[w].email
           /\ users'[v].subject # None => users'[v].subject # users'[w].subject
    BY <1>4, <2>1, <2>2 DEF Sound, Unique
  <2>. QED
    BY <1>1, <1>4, <2>3 DEF Sound, Unique
<1>9. OwnersEnter'
  BY <1>1, <1>4 DEF Sound, OwnersEnter
<1>. QED
  BY <1>3, <1>5, <1>6, <1>7, <1>8, <1>9 DEF Sound

LEMMA InsertsSound ==
  ASSUME Sound, NEW u \in Accounts, Inserts(u)
  PROVE  Sound'
<1>1. /\ UNCHANGED <<users, orgs, founder, doubled>>
      /\ outpaced' = Outpaced(u) /\ outpaced \subseteq outpaced' /\ outpaced' \subseteq Accounts
      /\ sessions' \in [Accounts -> SUBSET People] /\ req' \in [Clients -> Asking]
  BY DEF Inserts, Outpaced, Sound, AccountTypes
<1>2. AccountTypes'
  BY <1>1 DEF Sound, AccountTypes, Asking
<1>3. FoundersInv' /\ Unique' /\ Registered' = Registered /\ Registered \subseteq Accounts
  BY <1>1 DEF Sound, FoundersInv, Unique, Registered
<1>4. ASSUME NEW q \in Clients
      PROVE  \/ req'[q] = Idle
             \/ ~Disabling(q, u) /\ req'[q] = req[q]
             \/ /\ Disabling(q, u) /\ req'[q].pc = "disable" /\ req'[q].account = u
                /\ u \in outpaced'
  BY <1>1 DEF Inserts, Outpaced
<1>5. OwnersEnter'
  <2>1. /\ \A v \in Accounts : sessions[v] \subseteq {founder[v]}
        /\ \A v \in Registered : ~users[v].active /\ sessions[v] # {} => v \in outpaced
    BY DEF Sound, OwnersEnter
  <2>2. \A v \in Accounts :
           \/ sessions'[v] = sessions[v]
           \/ /\ users[v].active \/ v \in outpaced
              /\ sessions'[v] \subseteq sessions[v] \cup {founder[v]}
    BY DEF Inserts
  <2>3. \A v \in Accounts : sessions'[v] \subseteq {founder'[v]}
    BY <1>1, <2>1, <2>2
  <2>4. \A v \in Registered : ~users'[v].active /\ sessions'[v] # {} => v \in outpaced'
    BY <1>1, <1>3, <2>1, <2>2
  <2>. QED
    BY <1>3, <2>3, <2>4 DEF OwnersEnter
<1>6. EntrantsInv'
  <2>1. ASSUME NEW q \in Clients PROVE Entrant(q)'
    <3>1. Entrant(q)
      BY EntrantsAre DEF Sound
    <3>2. CASE req'[q] = Idle
      BY <3>2, IdleFields DEF Entrant
    <3>3. CASE ~Disabling(q, u) /\ req'[q] = req[q]
      <4>1. req[q].pc = "disable" /\ req[q].account \in Registered =>
               sessions'[req[q].account] = sessions[req[q].account]
        BY <1>3, <3>3 DEF Inserts, Disabling
      <4>. QED
        BY <1>1, <1>3, <3>1, <3>3, <4>1 DEF Entrant
    <3>4. CASE Disabling(q, u) /\ req'[q].pc = "disable" /\ req'[q].account = u
               /\ u \in outpaced'
      BY <1>3, <3>1, <3>4 DEF Entrant, Disabling
    <3>. QED
      BY <1>4, <3>2, <3>3, <3>4
  <2>. QED
    BY <2>1 DEF EntrantsInv, Entrant
<1>7. LinksInv'
  <2>1. \A q \in Clients, v \in Accounts : Linking(q, v)' => Linking(q, v)
    BY <1>4, IdleFields DEF Linking
  <2>. QED
    BY <1>1, <2>1 DEF Sound, LinksInv
<1>. QED
  BY <1>2, <1>3, <1>5, <1>6, <1>7 DEF Sound

\* What a disablement did not see is excused already.
LEMMA DisableDoes ==
  ASSUME Sound, NEW r \in Clients, Disable(r)
  PROVE  LET u == req[r].account IN
         /\ u \in Registered /\ UNCHANGED <<orgs, founder, doubled>> /\ OthersStay(r) /\ req'[r] = Idle
         /\ users' = [users EXCEPT ![u].active = FALSE]
         /\ outpaced \subseteq outpaced' /\ outpaced' \subseteq Accounts
         /\ \A q \in Clients : SigningIn(q, u) => u \in outpaced'
         /\ sessions' \in [Accounts -> SUBSET People]
         /\ \A v \in Accounts : sessions'[v] \subseteq sessions[v]
         /\ sessions'[u] = {} \/ u \in outpaced
<1>. DEFINE u == req[r].account
<1>1. /\ u \in Registered /\ (sessions[u] \subseteq req[r].found \/ u \in outpaced)
      /\ AccountTypes
  BY DEF Disable, Sound, EntrantsInv
<1>2. u \in Accounts
  BY <1>1 DEF Registered
<1>3. /\ OthersStay(r) /\ req'[r] = Idle
  BY <1>1, EndEnds DEF Disable
<1>4. /\ outpaced \subseteq outpaced' /\ outpaced' \subseteq Accounts
      /\ \A q \in Clients : SigningIn(q, u) => u \in outpaced'
  BY <1>1, <1>2 DEF Disable, AccountTypes
<1>5. sessions' = [sessions EXCEPT ![u] = @ \ req[r].found]
  BY DEF Disable, SessionsRevoked
<1>6. /\ sessions' \in [Accounts -> SUBSET People]
      /\ \A v \in Accounts : sessions'[v] \subseteq sessions[v]
      /\ sessions'[u] = {} \/ u \in outpaced
  BY <1>1, <1>2, <1>5 DEF AccountTypes
<1>. QED
  BY <1>1, <1>3, <1>4, <1>6 DEF Disable

LEMMA ToggleSound ==
  ASSUME Sound, NEW u \in Accounts,
         Enable(u) \/ \E r \in Clients : Disable(r) /\ req[r].account = u
  PROVE  Sound'
<1>. DEFINE o == users[u]
            off == \E r \in Clients : Disable(r) /\ req[r].account = u
            d == [o EXCEPT !.active = FALSE]
            a == [o EXCEPT !.active = TRUE]
<1>1. /\ u \in Registered /\ AccountTypes /\ UNCHANGED <<orgs, founder, doubled>>
      /\ req' \in [Clients -> Asking] /\ \A q \in Clients : req'[q] = req[q] \/ req'[q] = Idle
      /\ off => users' = [users EXCEPT ![u].active = FALSE]
      /\ Enable(u) => users' = [users EXCEPT ![u].active = TRUE]
      /\ outpaced' \subseteq Accounts /\ outpaced \ {u} \subseteq outpaced'
      /\ off => /\ outpaced \subseteq outpaced'
                /\ \A q \in Clients : SigningIn(q, u) => u \in outpaced'
      /\ Enable(u) /\ u \in outpaced => \A q \in Clients : Disabling(q, u) => u \in outpaced'
      /\ sessions' \in [Accounts -> SUBSET People]
      /\ \A v \in Accounts : sessions'[v] \subseteq sessions[v]
      /\ off => sessions'[u] = {} \/ u \in outpaced
  <2>1. CASE off
    <3>1. PICK r \in Clients : Disable(r) /\ req[r].account = u
      BY <2>1
    <3>2. /\ u \in Registered /\ UNCHANGED <<orgs, founder, doubled>>
          /\ OthersStay(r) /\ req'[r] = Idle
          /\ users' = [users EXCEPT ![u].active = FALSE]
          /\ outpaced \subseteq outpaced' /\ outpaced' \subseteq Accounts
          /\ \A q \in Clients : SigningIn(q, u) => u \in outpaced'
          /\ sessions' \in [Accounts -> SUBSET People]
          /\ \A v \in Accounts : sessions'[v] \subseteq sessions[v]
          /\ sessions'[u] = {} \/ u \in outpaced
      BY <3>1, DisableDoes
    <3>3. Enable(u) => users' = [users EXCEPT ![u].active = TRUE]
      BY DEF Enable
    <3>4. AccountTypes
      BY DEF Sound
    <3>. HIDE DEF off
    <3>. QED
      BY <2>1, <3>2, <3>3, <3>4 DEF OthersStay
  <2>2. CASE Enable(u) /\ ~off
    <3>1. /\ u \in Registered /\ UNCHANGED <<orgs, sessions, req, founder, doubled>>
          /\ users' = [users EXCEPT ![u].active = TRUE]
          /\ outpaced' = outpaced \ {v \in {u} : \A q \in Clients : ~Disabling(q, v)}
          /\ AccountTypes
      BY <2>2 DEF Enable, Sound
    <3>2. req \in [Clients -> Asking] /\ outpaced \subseteq Accounts
          /\ sessions \in [Accounts -> SUBSET People]
      BY <3>1 DEF AccountTypes, Asking
    <3>. HIDE DEF off
    <3>. QED
      BY <2>2, <3>1, <3>2
  <2>. QED
    BY <2>1, <2>2
<1>0. off \/ Enable(u)
  OBVIOUS
<1>. HIDE DEF off
<1>2. /\ o \in Users
      /\ off => users' = [users EXCEPT ![u] = d]
      /\ Enable(u) => users' = [users EXCEPT ![u] = a]
  BY <1>1, RowTyped DEF AccountTypes
<1>. HIDE DEF o
<1>3. /\ d \in Users /\ d.email = o.email /\ d.subject = o.subject
      /\ d.password = o.password /\ ~d.active
      /\ a \in Users /\ a.email = o.email /\ a.subject = o.subject
      /\ a.password = o.password /\ a.active
  BY <1>2 DEF Users
<1>. HIDE DEF d, a
<1>4. /\ OtherUsers(u) /\ users'[u] \in Users
      /\ users'[u].email = users[u].email /\ users'[u].subject = users[u].subject
      /\ users'[u].password = users[u].password
      /\ off => ~users'[u].active
      /\ Enable(u) => users'[u].active
  BY <1>0, <1>1, <1>2, <1>3, UserSet DEF o
<1>5. /\ Registered' = Registered /\ Registered \subseteq Accounts
      /\ \A v \in Registered \ {u} : users'[v] = users[v]
  BY <1>1, <1>4, Constants DEF Registered, OtherUsers
<1>8. AccountTypes'
  BY <1>1, <1>4 DEF AccountTypes, OtherUsers, Asking
<1>9. /\ \A v \in Registered : /\ users'[v].email = users[v].email
                               /\ users'[v].subject = users[v].subject
                               /\ users'[v].password = users[v].password
  BY <1>4, <1>5
<1>10. FoundersInv' /\ Unique'
  BY <1>1, <1>5, <1>9 DEF Sound, FoundersInv, Unique
<1>11. OwnersEnter'
  <2>1. \A v \in Accounts : sessions'[v] \subseteq {founder'[v]}
    BY <1>1 DEF Sound, OwnersEnter
  <2>2. ASSUME NEW v \in Registered, ~users'[v].active, sessions'[v] # {}
        PROVE  v \in outpaced'
    <3>1. CASE v = u
      BY <1>0, <1>1, <1>4, <2>2, <3>1
    <3>2. CASE v # u
      <4>1. ~users[v].active /\ sessions[v] # {}
        BY <1>1, <1>5, <2>2, <3>2
      <4>. QED
        BY <1>1, <3>2, <4>1 DEF Sound, OwnersEnter
    <3>. QED
      BY <3>1, <3>2
  <2>. QED
    BY <1>5, <2>1, <2>2 DEF OwnersEnter
<1>12. EntrantsInv'
  <2>1. ASSUME NEW q \in Clients PROVE Entrant(q)'
    <3>1. Entrant(q)
      BY EntrantsAre DEF Sound
    <3>2. CASE req'[q] = Idle
      BY <3>2, IdleFields DEF Entrant
    <3>3. CASE req'[q] = req[q]
      <4>1. ASSUME req[q].account \in Registered, req[q].pc \in {"link", "enter", "session"},
                   users[req[q].account].active \/ req[q].account \in outpaced
            PROVE  users'[req[q].account].active \/ req[q].account \in outpaced'
        BY <1>0, <1>1, <1>4, <1>5, <4>1 DEF SigningIn
      <4>2. ASSUME req[q].account \in Registered, req[q].pc = "disable",
                   sessions[req[q].account] \subseteq req[q].found \/ req[q].account \in outpaced
            PROVE  sessions'[req[q].account] \subseteq req[q].found \/ req[q].account \in outpaced'
        <5>1. sessions'[req[q].account] \subseteq sessions[req[q].account]
          BY <1>1, <1>5, <4>2
        <5>2. req[q].account \in outpaced => req[q].account \in outpaced'
          BY <1>0, <1>1, <4>2 DEF Disabling
        <5>. QED
          BY <4>2, <5>1, <5>2
      <4>. QED
        BY <1>1, <1>5, <3>1, <3>3, <4>1, <4>2 DEF Entrant
    <3>. QED
      BY <1>1, <3>2, <3>3
  <2>. QED
    BY <2>1 DEF EntrantsInv, Entrant
<1>13. LinksInv'
  <2>1. ASSUME NEW q \in Clients, NEW v \in Accounts, Linking(q, v)
        PROVE  users'[v].subject = users[v].subject
    <3>1. v \in Registered
      BY <2>1 DEF Linking, Sound, EntrantsInv
    <3>. QED
      BY <1>9, <3>1
  <2>2. \A q \in Clients, v \in Accounts : Linking(q, v)' => Linking(q, v)
    BY <1>1, IdleFields DEF Linking
  <2>. QED
    BY <1>1, <2>1, <2>2 DEF Sound, LinksInv
<1>. QED
  BY <1>8, <1>10, <1>11, <1>12, <1>13 DEF Sound

\* Whoever is named later is named otherwise.
LEMMA BackfillSound ==
  ASSUME Sound, Backfill
  PROVE  Sound'
<1>1. PICK homes \in [Accounts -> Slugs \cup {None}] :
         /\ \A u \in Accounts :
               homes[u] = IF u \in Registered /\ orgs[u] = None
                          THEN FirstFree(Base[users[u].email],
                                         Taken \cup {homes[v] : v \in 1 .. u - 1})
                          ELSE orgs[u]
         /\ orgs' = homes
  BY DEF Backfill
<1>2. UNCHANGED <<users, sessions, req, founder, doubled, outpaced>> /\ AccountTypes
  BY DEF Backfill, accountHistory, Sound
<1>3. Registered' = Registered /\ Registered \subseteq Accounts
  BY <1>2 DEF Registered
<1>4. ASSUME NEW u \in Registered, orgs[u] = None
      PROVE  homes[u] \notin Taken /\ \A v \in 1 .. u - 1 : homes[u] # homes[v]
  <2>. DEFINE b == Base[users[u].email]
              taken == Taken \cup {homes[v] : v \in 1 .. u - 1}
  <2>1. homes[u] = FirstFree(b, taken)
    BY <1>1, <1>3, <1>4
  <2>2. b \in Bases
    <3>1. users[u].email \in Emails
      BY <1>2, <1>4, RowTyped DEF Users
    <3>. QED
      BY <3>1, Constants
  <2>3. taken \subseteq {homes[v] : v \in Accounts}
    <3>1. \A v \in 1 .. u - 1 : v \in Accounts
      BY <1>3, <1>4, Constants DEF Accounts
    <3>2. \A v \in Accounts : orgs[v] # None => homes[v] = orgs[v]
      BY <1>1
    <3>. QED
      BY <3>1, <3>2 DEF Taken
  <2>. HIDE DEF b, taken
  <2>4. homes[u] \notin taken
    BY <2>1, <2>2, <2>3, FirstFreeName
  <2>. QED
    BY <2>4 DEF taken
<1>5. ASSUME NEW u \in Registered, NEW v \in Registered, homes[u] # None, u < v
      PROVE  homes[u] # homes[v]
  <2>1. CASE orgs[v] = None
    <3>1. u \in 1 .. v - 1
      BY <1>3, <1>5, Constants DEF Accounts
    <3>. QED
      BY <1>4, <2>1, <3>1
  <2>2. CASE orgs[v] # None /\ orgs[u] = None
    BY <1>1, <1>3, <1>4, <2>2 DEF Taken
  <2>3. CASE orgs[v] # None /\ orgs[u] # None
    <3>1. homes[u] = orgs[u] /\ homes[v] = orgs[v]
      BY <1>1, <1>3, <2>3
    <3>2. u # v
      BY <1>3, <1>5, Constants DEF Accounts
    <3>. QED
      BY <2>3, <3>1, <3>2 DEF Sound, Unique
  <2>. QED
    BY <2>1, <2>2, <2>3
<1>6. ASSUME NEW u \in Registered, NEW v \in Registered, homes[u] # None, homes[u] = homes[v]
      PROVE  u = v
  <2>1. u \in Int /\ v \in Int
    BY <1>3, Constants DEF Accounts
  <2>2. ~(u < v) /\ ~(v < u)
    BY <1>5, <1>6
  <2>. QED
    BY <2>1, <2>2
<1>7. Unique'
  BY <1>1, <1>2, <1>3, <1>6 DEF Sound, Unique
<1>8. AccountTypes' /\ FoundersInv' /\ OwnersEnter'
  BY <1>1, <1>2, <1>3 DEF Sound, AccountTypes, FoundersInv, OwnersEnter
<1>9. EntrantsInv' /\ LinksInv'
  BY <1>2, <1>3 DEF Sound, EntrantsInv, LinksInv, Linking
<1>. QED
  BY <1>7, <1>8, <1>9 DEF Sound
LEMMA SoundStep ==
  ASSUME Sound, [AccountNext]_accountVars
  PROVE  Sound'
<1>1. ASSUME NEW r \in Clients,
             \/ \E p \in People, e \in Emails : SignUp(r, p, e) \/ LogIn(r, p, e)
             \/ \E b \in Bases : ReadSlug(r, b)
             \/ \E s \in Subjects, e \in Emails \cup {None} : PresentIdentity(r, s, e)
             \/ Identify(r) \/ Drop(r) \/ \E u \in Accounts : BeginDisable(r, u)
      PROVE  Sound'
  <2>1. Decides(r)
    BY <1>1, SignUpDecides, LogInDecides, ReadSlugDecides, PresentDecides, IdentifyDecides,
       DropDecides, BeginDisableDecides DEF Sound
  <2>. QED
    BY <2>1, DecidesSound
<1>2. CASE UNCHANGED accountVars
  BY <1>2 DEF accountVars, accountHistory, Sound, AccountTypes, FoundersInv, EntrantsInv, LinksInv, Linking, Unique,
              OwnersEnter, Registered
<1>3. ASSUME NEW r \in Clients, StartSession(r) PROVE Sound'
  BY <1>3, StartDoes, InsertsSound DEF Sound
<1>4. ASSUME NEW u \in Accounts, NEW p, Renew(u, p) PROVE Sound'
  BY <1>4, RenewDoes, InsertsSound DEF Sound
<1>5. ASSUME NEW r \in Clients, Disable(r) PROVE Sound'
  <2>1. req[r].account \in Accounts
    BY <1>5, DisableDoes DEF Registered
  <2>. QED
    BY <1>5, <2>1, ToggleSound
<1>. QED
  BY <1>1, <1>2, <1>3, <1>4, <1>5, RegisterSound, EnterSound, ToggleSound, BackfillSound
     DEF AccountNext

LEMMA SoundInit == AccountInit => Sound
<1>. SUFFICES ASSUME AccountInit PROVE Sound
  OBVIOUS
<1>1. PICK old \in SUBSET Legacy, chosen \in [Legacy -> People] :
         users = [u \in Accounts |->
             IF u <= Cardinality(old)
             THEN LET e == SetToSeq(old)[u] IN
                  [email |-> e, password |-> chosen[e], subject |-> None, active |-> TRUE]
             ELSE None]
  BY DEF AccountInit
<1>. DEFINE n == Cardinality(old)
            seq == SetToSeq(old)
            row(u) == [email |-> seq[u], password |-> chosen[seq[u]], subject |-> None,
                       active |-> TRUE]
<1>2. /\ n \in Nat /\ n <= MaxAccounts /\ MaxAccounts \in Nat
      /\ seq \in [1 .. n -> old]
      /\ \A u, v \in 1 .. n : seq[u] = seq[v] => u = v
  <2>1. /\ IsFiniteSet(old) /\ n \in Nat /\ n <= Cardinality(Legacy)
        /\ Cardinality(Legacy) \in Nat
    BY Constants, FS_Subset, FS_CardinalityType
  <2>2. n <= MaxAccounts
    <3>. HIDE DEF n
    <3>. QED
      BY <2>1, Constants
  <2>. QED
    BY <2>1, <2>2, Constants, SequencesOfSets
<1>. HIDE DEF n, seq
<1>3. ASSUME NEW u \in 1 .. n
      PROVE  /\ u \in Accounts /\ users[u] = row(u) /\ row(u) \in Users /\ row(u) # None
             /\ row(u).email = seq[u] /\ row(u).password = chosen[seq[u]]
             /\ row(u).subject = None /\ row(u).active
  <2>1. u \in Accounts /\ u <= n
    BY <1>2 DEF Accounts
  <2>2. users[u] = row(u)
    BY <1>1, <2>1 DEF n, seq
  <2>3. seq[u] \in Emails /\ chosen[seq[u]] \in People
    BY <1>2, Constants
  <2>4. row(u) \in Users
    BY <2>3 DEF Users
  <2>. QED
    BY <2>1, <2>2, <2>4, Constants
<1>4. ASSUME NEW u \in Accounts, u \notin 1 .. n PROVE users[u] = None
  <2>1. ~(u <= n)
    BY <1>2, <1>4 DEF Accounts
  <2>. QED
    BY <1>1, <2>1 DEF n
<1>. HIDE DEF row
<1>5. Registered = 1 .. n /\ n \in 0 .. MaxAccounts
  BY <1>2, <1>3, <1>4 DEF Registered
<1>6. /\ founder = [u \in Accounts |-> IF users[u] = None THEN None ELSE users[u].password]
      /\ orgs = [u \in Accounts |-> None] /\ sessions = [u \in Accounts |-> {}]
      /\ req = [r \in Clients |-> Idle] /\ doubled = {} /\ outpaced = {}
  BY DEF AccountInit
<1>7. /\ \A u \in Registered : founder[u] = chosen[seq[u]] /\ chosen[seq[u]] \in People
      /\ \A u \in Accounts \ Registered : founder[u] = None
  <2>1. \A u \in 1 .. n : seq[u] \in Legacy
    BY <1>2
  <2>. QED
    BY <1>3, <1>4, <1>5, <1>6, <2>1
<1>8. AccountTypes
  <2>1. users \in [Accounts -> Users \cup {None}]
    <3>1. \A u \in Accounts : users[u] \in Users \cup {None}
      BY <1>3, <1>4
    <3>2. \E f : users = [u \in Accounts |-> f[u]]
      <4>1. users = [u \in Accounts |-> users[u]]
        BY <1>1
      <4>. QED
        BY <4>1
    <3>. QED
      BY <3>1, <3>2
  <2>2. founder \in [Accounts -> People \cup {None}]
    BY <1>6, <1>7, <1>5
  <2>3. req \in [Clients -> Asking]
    BY <1>6, IdleFields
  <2>. QED
    BY <1>6, <2>1, <2>2, <2>3 DEF AccountTypes, Asking
<1>9. FoundersInv
  <2>1. \A u \in Accounts : founder[u] # None <=> u \in Registered
    BY <1>7, Constants
  <2>2. \A u \in Registered : users[u].password = founder[u] /\ users[u].subject = None
    BY <1>3, <1>5, <1>7
  <2>. QED
    BY <1>5, <2>1, <2>2 DEF FoundersInv
<1>10. EntrantsInv /\ LinksInv
  BY <1>6, IdleFields DEF EntrantsInv, LinksInv, Linking
<1>11. Unique
  <2>1. \A u, v \in Registered : u # v =>
           users[u].email # users[v].email /\ users[u].subject = None
    BY <1>2, <1>3, <1>5
  <2>2. \A u \in Registered : orgs[u] = None
    BY <1>6 DEF Registered
  <2>. QED
    BY <2>1, <2>2 DEF Unique
<1>12. OwnersEnter
  BY <1>6 DEF OwnersEnter, Registered
<1>. QED
  BY <1>8, <1>9, <1>10, <1>11, <1>12 DEF Sound

LEMMA SoundHolds == AccountSpec => []Sound
  BY SoundInit, SoundStep, PTL DEF AccountSpec

-----------------------------------------------------------------------------
\* Whatever signs up, links and moves between a read and a commit, the three
\* unique constraints and the numbering of names keep an address, an identity
\* and a name with one account (create_user,
\* authenticate_with_identity, backfill_orgs), for
\* any number of accounts and requests.
THEOREM EverythingIsOneAccounts == AccountSpec => []RegisteredOnce
<1>1. Sound => RegisteredOnce
  BY DEF Sound, Unique, RegisteredOnce
<1>. QED
  BY <1>1, SoundHolds, PTL

\* Nobody but the person who registered an account ever holds a session of it,
\* though addresses pass from one to another at the provider, and none remains
\* once it is disabled but that of a sign-in under way or one that was inserted
\* while the revocation waited (auth.py, auth_routes.py, auth_sessions.py).
THEOREM OnlyOwnersEnter == AccountSpec => []OwnersEnter
<1>1. Sound => OwnersEnter
  BY DEF Sound
<1>. QED
  BY <1>1, SoundHolds, PTL

LEMMA IdentityStep ==
  ASSUME Sound, [AccountNext]_accountVars, NEW u \in Registered, users[u].subject # None
  PROVE  users'[u].subject = users[u].subject \/ u \in doubled
<1>1. ASSUME NEW r \in Clients, Decides(r) PROVE users' = users
  BY <1>1 DEF Decides, Reads, Forgets
<1>2. ASSUME NEW r \in Clients, Register(r) PROVE users'[u] = users[u]
  <2>1. CASE UNCHANGED <<users, orgs, founder>>
    BY <2>1
  <2>2. CASE ~UNCHANGED <<users, orgs, founder>>
    <3>1. \E v \in Accounts \ Registered : OtherUsers(v)
      BY <1>2, <2>2, RegisterDoes DEF Sound
    <3>. QED
      BY <3>1 DEF OtherUsers, Registered
  <2>. QED
    BY <2>1, <2>2
<1>3. ASSUME NEW r \in Clients, Enter(r)
      PROVE  users'[u].subject = users[u].subject \/ u \in doubled
  <2>1. CASE Decides(r)
    BY <1>1, <2>1
  <2>2. CASE ~Decides(r)
    <3>1. /\ OtherUsers(req[r].account)
          /\ \/ users'[req[r].account].subject = users[req[r].account].subject
             \/ Linking(r, req[r].account)
      BY <1>3, <2>2, EnterDoes DEF Sound
    <3>2. Linking(r, u) => u \in doubled
      BY DEF Sound, LinksInv, Registered
    <3>. QED
      BY <3>1, <3>2 DEF OtherUsers, Registered
  <2>. QED
    BY <2>1, <2>2
<1>4. ASSUME NEW v \in Accounts, NEW on \in BOOLEAN, users' = [users EXCEPT ![v].active = on]
      PROVE  users'[u].subject = users[u].subject
  <2>1. users \in [Accounts -> Users \cup {None}] /\ u \in Accounts /\ users[u] \in Users
    BY RowTyped DEF Sound, AccountTypes
  <2>2. CASE v = u
    <3>. DEFINE o == users[u]
                a == [o EXCEPT !.active = on]
    <3>1. users'[u] = a
      BY <1>4, <2>1, <2>2
    <3>2. a.subject = o.subject
      BY <2>1 DEF Users
    <3>. QED
      BY <3>1, <3>2
  <2>3. CASE v # u
    BY <1>4, <2>1, <2>3
  <2>. QED
    BY <2>2, <2>3
<1>8. ASSUME NEW v \in Accounts, Enable(v) PROVE users'[u].subject = users[u].subject
  BY <1>4, <1>8 DEF Enable
<1>9. ASSUME NEW r \in Clients, Disable(r) PROVE users'[u].subject = users[u].subject
  <2>1. req[r].account \in Accounts /\ users' = [users EXCEPT ![req[r].account].active = FALSE]
    BY <1>9, DisableDoes DEF Registered
  <2>. QED
    BY <1>4, <2>1
<1>5. CASE Backfill \/ UNCHANGED accountVars
  BY <1>5 DEF Backfill, accountVars
<1>6. ASSUME NEW r \in Clients, StartSession(r) PROVE users' = users
  BY <1>6 DEF StartSession
<1>10. ASSUME NEW v \in Accounts, NEW p, Renew(v, p) PROVE users' = users
  BY <1>10 DEF Renew
<1>7. ASSUME NEW r \in Clients,
             \/ \E p \in People, e \in Emails : SignUp(r, p, e) \/ LogIn(r, p, e)
             \/ \E b \in Bases : ReadSlug(r, b)
             \/ \E s \in Subjects, e \in Emails \cup {None} : PresentIdentity(r, s, e)
             \/ Identify(r) \/ Drop(r) \/ \E v \in Accounts : BeginDisable(r, v)
      PROVE  users' = users
  BY <1>7 DEF SignUp, LogIn, ReadSlug, PresentIdentity, Identify, Drop, BeginDisable, Reads
<1>. QED
  BY <1>2, <1>3, <1>5, <1>6, <1>7, <1>8, <1>9, <1>10 DEF AccountNext

\* No step of any request, however many overlap, replaces the identity of an
\* account, unless two were being linked to it at once (authenticate_with_identity).
THEOREM IdentitiesStay == AccountSpec => IdentityStays
<1>1. Sound /\ [AccountNext]_accountVars =>
         [\A u \in Registered :
             users[u].subject # None =>
                 users'[u].subject = users[u].subject \/ u \in doubled]_accountVars
  BY IdentityStep
<1>. QED
  BY <1>1, SoundHolds, PTL DEF AccountSpec, IdentityStays

-----------------------------------------------------------------------------
(***************************************************************************)
(* The sign-ins.                                                           *)
(***************************************************************************)

\* What TypeOK says of one family's sequence of rows.
LEMMA FamilySequence ==
    ASSUME TypeOK, NEW f \in Families
    PROVE  /\ rows[f] \in Seq(AuthSessions)
           /\ Len(rows[f]) \in Nat
           /\ Len(rows[f]) <= MaxGenerations
           /\ DOMAIN rows[f] = 1 .. Len(rows[f])
           /\ \A g \in 1 .. Len(rows[f]) : rows[f][g] \in AuthSessions
    BY DEF TypeOK

\* The row ids of a family are the pairs of the family and a position in it.
LEMMA FamilyRowIds ==
    ASSUME TypeOK, NEW f \in Families
    PROVE  /\ FamilyRows(f) \subseteq RowIds
           /\ \A r \in FamilyRows(f) :
                 r[1] = f /\ r[2] \in 1 .. Len(rows[f]) /\ Root(f) \in FamilyRows(f)
    BY FamilySequence, SessionAssumption DEF FamilyRows, RowIds, Root

\* What a step that writes no row and no history leaves as it was.
Ground ==
    /\ Chain /\ EndedFamilies /\ ClosedStaysClosed /\ SweptUnlessOvertaken
LEMMA GroundKept ==
    ASSUME Ground, UNCHANGED <<rows, history>>
    PROVE  Ground'
    BY DEF Ground, Chain, EndedFamilies, ClosedStaysClosed, SweptUnlessOvertaken,
           LiveRows, FamilyRows, Row, history

LEMMA InitInvariant == Init => SessionInv
<1> SUFFICES ASSUME Init PROVE SessionInv
    OBVIOUS
<1>1. TypeOK
    BY SessionAssumption DEF Init, TypeOK, Ops, Phases, NoToken
<1>2. Chain /\ EndedFamilies /\ ClosedStaysClosed /\ SweptUnlessOvertaken
    BY DEF Init, Chain, EndedFamilies, ClosedStaysClosed, SweptUnlessOvertaken
<1>3. LocksInv /\ ExchangeInv /\ RevokeInv
    BY DEF Init, LocksInv, ExchangeInv, RevokeInv
<1> QED
    BY <1>1, <1>2, <1>3 DEF SessionInv

\* A request that ends, by refusal, rollback or loss, only gives its locks
\* back.
LEMMA EndStep ==
    ASSUME SessionInv, NEW t \in Requests, End(t), UNCHANGED <<rows, expired, history>>
    PROVE  SessionInv'
<1> USE DEF End, SessionInv, history
<1>1. TypeOK'
    BY DEF TypeOK, Ops, Phases, NoToken, Family, FamilyRows
<1>2. Ground'
    BY GroundKept DEF Ground
<1>3. LocksInv'
    BY DEF TypeOK, LocksInv, Existing, FamilyRows, Family
<1>4. ExchangeInv'
    BY DEF TypeOK, ExchangeInv, Row, Family
<1>5. RevokeInv'
    BY DEF TypeOK, RevokeInv, Row, Family, LiveRows, FamilyRows, Sweeping
<1> QED
    BY <1>1, <1>2, <1>3, <1>4, <1>5 DEF Ground

\* Expiry and stuttering disturb nothing.
LEMMA QuietStep ==
    ASSUME SessionInv, expired' \in SUBSET Families, UNCHANGED <<rows, requests, history>>
    PROVE  SessionInv'
<1> USE DEF SessionInv, history, requests
<1>1. TypeOK'
    BY DEF TypeOK, Family, FamilyRows
<1>2. Ground'
    BY GroundKept DEF Ground
<1>3. LocksInv' /\ ExchangeInv' /\ RevokeInv'
    BY DEF LocksInv, ExchangeInv, RevokeInv, Existing, FamilyRows, Family, Row,
           LiveRows, Sweeping
<1> QED
    BY <1>1, <1>2, <1>3 DEF Ground

LEMMA PresentTokenStep ==
    ASSUME SessionInv, NEW t \in Requests, NEW kind \in {"rotate", "logout"},
           NEW r \in RowIds, PresentToken(t, kind, r)
    PROVE  SessionInv'
<1> USE DEF PresentToken, SessionInv, history, LockTargets
<1>1. /\ r[1] \in Families
      /\ r \in FamilyRows(r[1]) /\ Root(r[1]) \in FamilyRows(r[1])
      /\ FamilyRows(r[1]) \subseteq RowIds
      /\ FamilyRows(r[1]) \subseteq Existing
    BY FamilyRowIds DEF RowIds, Existing
<1>2. TypeOK'
    BY <1>1 DEF TypeOK, Ops, Phases, Family, FamilyRows
<1>3. Ground'
    BY GroundKept DEF Ground
<1>4. LocksInv'
  <2>1. \A u \in Requests : want'[u] \subseteq Existing'
      BY <1>1 DEF TypeOK, LocksInv, Existing, FamilyRows
  <2>2. \A u \in Requests : phase'[u] # "idle" => op'[u] # "none"
      BY DEF TypeOK, LocksInv
  <2>3. \A u \in Requests : phase'[u] = "lock" =>
            op'[u] # "sweep" /\ {Root(Family(u)'), token'[u]} \subseteq want'[u]
      BY <1>1 DEF TypeOK, LocksInv, Family
  <2> QED
      BY <2>1, <2>2, <2>3 DEF LocksInv, Root, Family
<1>5. ExchangeInv'
    BY DEF TypeOK, ExchangeInv, Row, Family
<1>6. RevokeInv'
    BY DEF TypeOK, RevokeInv, Row, Family, LiveRows, FamilyRows, Sweeping
<1> QED
    BY <1>2, <1>3, <1>4, <1>5, <1>6 DEF Ground

LEMMA SweepStep ==
    ASSUME SessionInv, NEW t \in Requests, NEW scope \in SUBSET Families, Sweep(t, scope)
    PROVE  SessionInv'
<1> USE DEF Sweep, BeginRevoke, SessionInv, history
<1>1. /\ \A f \in Families : LiveRows(f) \subseteq FamilyRows(f)
      /\ \A f \in Families : FamilyRows(f) \subseteq RowIds
      /\ \A f \in Families : \A r \in FamilyRows(f) : r[1] = f
    BY FamilyRowIds DEF LiveRows
<1>2. want'[t] \subseteq RowIds /\ want'[t] \subseteq Existing
    BY <1>1 DEF TypeOK, Existing
<1>3. TypeOK'
    BY <1>2 DEF TypeOK, Ops, Phases, Family, FamilyRows
<1>4. Ground'
    BY GroundKept DEF Ground
<1>5. LocksInv'
    BY <1>2 DEF TypeOK, LocksInv, Existing, FamilyRows, Family
<1>6. ExchangeInv'
    BY DEF TypeOK, ExchangeInv, Row, Family
<1>7. RevokeInv'
  <2>1. \A f \in Families : Sweeping(t, f)' => LiveRows(f) \subseteq want'[t]
      BY <1>1 DEF TypeOK, Sweeping
  <2> QED
      BY <2>1 DEF TypeOK, RevokeInv, Row, Family, LiveRows, FamilyRows, Sweeping
<1> QED
    BY <1>3, <1>4, <1>5, <1>6, <1>7 DEF Ground

\* A lock is taken on a row nobody holds.
LEMMA LockNextStep ==
    ASSUME SessionInv, NEW t \in Requests, LockNext(t)
    PROVE  SessionInv'
<1> USE DEF SessionInv, history
<1>1. PICK r \in InOrder(t) : Free(r) /\ held' = [held EXCEPT ![t] = @ \cup {r}]
    BY DEF LockNext
<1>2. r \in want[t] /\ r \in RowIds /\ phase[t] = "lock"
    BY DEF LockNext, InOrder, Missing, TypeOK
<1>3. UNCHANGED <<rows, expired, op, token, phase, want, history>>
    BY DEF LockNext
<1> USE <1>1, <1>2, <1>3
<1>4. TypeOK'
    BY DEF TypeOK, Family, FamilyRows
<1>5. Ground'
    BY GroundKept DEF Ground
<1>6. LocksInv'
    BY DEF TypeOK, LocksInv, Existing, FamilyRows, Family, Free, Root
<1>7. ExchangeInv'
    BY DEF TypeOK, ExchangeInv, Row, Family
<1>8. RevokeInv'
    BY DEF TypeOK, RevokeInv, Row, Family, LiveRows, FamilyRows, Sweeping
<1> QED
    BY <1>4, <1>5, <1>6, <1>7, <1>8 DEF Ground

LEMMA LockForRevokeStep ==
    ASSUME SessionInv, NEW t \in Requests, LockForRevoke(t)
    PROVE  SessionInv'
<1> USE DEF SessionInv, history
<1>1. PICK r \in Missing(t) :
        /\ Free(r)
        /\ IF Row(r).revoked
           THEN want' = [want EXCEPT ![t] = @ \ {r}] /\ UNCHANGED held
           ELSE held' = [held EXCEPT ![t] = @ \cup {r}] /\ UNCHANGED want
    BY DEF LockForRevoke
<1>2. r \in want[t] /\ r \in RowIds /\ phase[t] = "revoke"
    BY DEF LockForRevoke, Missing, TypeOK
<1>3. UNCHANGED <<rows, expired, op, token, phase, history>>
    BY DEF LockForRevoke
<1>4. TypeOK'
  <2>1. want' \in [Requests -> SUBSET RowIds] /\ held' \in [Requests -> SUBSET RowIds]
    <3>1. CASE Row(r).revoked
        BY <1>1, <1>2, <3>1 DEF TypeOK
    <3>2. CASE ~Row(r).revoked
        BY <1>1, <1>2, <3>2 DEF TypeOK
    <3> QED
        BY <3>1, <3>2
  <2> QED
      BY <1>3, <2>1 DEF TypeOK, Family, FamilyRows
<1>5. Ground'
    BY <1>3, GroundKept DEF Ground
<1>6. /\ \A u \in Requests : u # t => want'[u] = want[u] /\ held'[u] = held[u]
      /\ want'[t] \subseteq want[t]
      /\ held[t] \subseteq held'[t]
      /\ \A f \in Families : LiveRows(f) \subseteq want[t] => LiveRows(f) \subseteq want'[t]
    BY <1>1, <1>2 DEF TypeOK, LiveRows
<1>7. \A u, v \in Requests : u # v => held'[u] \cap held'[v] = {}
    BY <1>1, <1>2 DEF TypeOK, LocksInv, Free
<1>8. LocksInv'
    BY <1>2, <1>3, <1>6, <1>7 DEF LocksInv, Existing, FamilyRows, Family, Root
<1>9. ExchangeInv'
    BY <1>2, <1>3, <1>6 DEF ExchangeInv, Row, Family, Root
<1>10. RevokeInv'
  <2>1. \A u \in Requests, f \in Families : Sweeping(u, f)' => Sweeping(u, f)
      BY <1>3, <1>6 DEF Sweeping
  <2>2. \A f \in Families : LiveRows(f)' = LiveRows(f)
      BY <1>3 DEF LiveRows, FamilyRows, Row
  <2>3. ASSUME NEW u \in Requests, phase'[u] = "revoke"
        PROVE  /\ op'[u] # "sweep" => /\ Root(Family(u)') \in held'[u]
                                      /\ LiveRows(Family(u))' \subseteq want'[u]
               /\ op'[u] = "sweep" => \A f \in Families : Sweeping(u, f)' =>
                     f \in overtaken' \/ LiveRows(f)' \subseteq want'[u]
    <3>1. CASE op[u] = "sweep"
        BY <1>3, <1>6, <2>1, <2>2, <2>3, <3>1 DEF RevokeInv
    <3>2. CASE op[u] # "sweep"
      <4>1. token[u] \in RowIds /\ Family(u)' = Family(u) /\ Family(u) \in Families
          BY <1>3, <2>3, <3>2 DEF TypeOK, LocksInv, Ops, RowIds, Family
      <4>2. LiveRows(Family(u))' = LiveRows(Family(u))
          BY <1>3 DEF LiveRows, FamilyRows, Row, Family
      <4> QED
          BY <1>3, <1>6, <2>3, <3>2, <4>1, <4>2 DEF RevokeInv
    <3> QED
        BY <3>1, <3>2
  <2> QED
      BY <2>3 DEF RevokeInv, Root
<1> QED
    BY <1>4, <1>5, <1>8, <1>9, <1>10 DEF Ground

\* An accepted rotation holds the root and the row it found fit.
LEMMA AcceptStep ==
    ASSUME SessionInv, NEW t \in Requests, Accept(t)
    PROVE  SessionInv'
<1> USE DEF Accept, Locked, Missing, SessionInv, history
<1>1. TypeOK'
    BY DEF TypeOK, Phases, Family, FamilyRows
<1>2. Ground'
    BY GroundKept DEF Ground
<1>3. {Root(Family(t)), token[t]} \subseteq held[t]
    BY DEF LocksInv
<1>4. LocksInv'
    BY DEF TypeOK, LocksInv, Existing, FamilyRows, Family, Root
<1>5. ExchangeInv'
    BY <1>3 DEF TypeOK, ExchangeInv, Row, Family, Root
<1>6. RevokeInv'
    BY DEF TypeOK, RevokeInv, Row, Family, LiveRows, FamilyRows, Sweeping, Root
<1> QED
    BY <1>1, <1>2, <1>4, <1>5, <1>6 DEF Ground

LEMMA RevokeLockedStep ==
    ASSUME SessionInv, NEW t \in Requests, RevokeLocked(t)
    PROVE  SessionInv'
<1> USE DEF RevokeLocked, BeginRevoke, Locked, Missing, SessionInv, history
<1>1. Root(Family(t)) \in held[t] /\ op[t] \in {"rotate", "logout"}
    BY DEF LocksInv, TypeOK, Ops
<1>2. Family(t) \in Families
    BY <1>1 DEF TypeOK, RowIds, Family
<1>3. /\ want'[t] = LiveRows(Family(t))
      /\ LiveRows(Family(t)) \subseteq FamilyRows(Family(t))
      /\ FamilyRows(Family(t)) \subseteq RowIds
      /\ FamilyRows(Family(t)) \subseteq Existing
    BY <1>2, FamilyRowIds DEF TypeOK, LiveRows, Existing
<1>4. TypeOK'
    BY <1>3 DEF TypeOK, Phases, Family, FamilyRows
<1>5. Ground'
    BY GroundKept DEF Ground
<1>6. LocksInv'
    BY <1>1, <1>3 DEF TypeOK, LocksInv, Existing, FamilyRows, Family, Root
<1>7. ExchangeInv'
    BY DEF TypeOK, ExchangeInv, Row, Family, Root
<1>8. RevokeInv'
    BY <1>1, <1>3 DEF TypeOK, RevokeInv, Row, Family, LiveRows, FamilyRows, Sweeping, Root
<1> QED
    BY <1>4, <1>5, <1>6, <1>7, <1>8 DEF Ground

\* A new family disturbs nobody: no request and no history speaks of it.
LEMMA StartFamilyStep ==
    ASSUME SessionInv, NEW f \in Families, StartFamily(f)
    PROVE  SessionInv'
<1> USE DEF SessionInv, history, requests
<1>1. PICK rank \in Ranks :
        rows' = [rows EXCEPT ![f] =
                    <<[consumed |-> FALSE, revoked |-> FALSE, rank |-> rank]>>]
    BY DEF StartFamily
<1>2. rows[f] = <<>> /\ UNCHANGED <<expired, requests, history>>
    BY DEF StartFamily
<1>3. /\ rows'[f] \in Seq(AuthSessions) /\ Len(rows'[f]) = 1
      /\ ~rows'[f][1].consumed
      /\ \A g \in Families : g # f => rows'[g] = rows[g]
    BY <1>1 DEF TypeOK, AuthSessions
<1>4. FamilyRows(f) = {} /\ LiveRows(f) = {}
    BY <1>2 DEF FamilyRows, LiveRows
<1>5. f \notin closed \cup swept
    BY <1>2 DEF EndedFamilies
<1>6. \A g \in Families : g # f =>
          FamilyRows(g)' = FamilyRows(g) /\ LiveRows(g)' = LiveRows(g)
    BY <1>3 DEF FamilyRows, LiveRows, Row
<1>7. \A u \in Requests : op[u] \in {"rotate", "logout"} =>
          /\ token[u] \in RowIds /\ Family(u) \in Families /\ Family(u) # f
          /\ token[u] = <<Family(u), token[u][2]>>
    BY <1>4 DEF TypeOK, RowIds, Family
<1>8. \A r \in RowIds : r[1] # f => Row(r)' = Row(r)
    BY <1>3 DEF RowIds, Row
<1>9. TypeOK'
  <2>1. rows' \in [Families -> Seq(AuthSessions)]
      BY <1>1, <1>3 DEF TypeOK
  <2>2. \A g \in Families : Len(rows'[g]) <= MaxGenerations
    <3>1. Len(rows'[f]) <= MaxGenerations
        BY <1>3, SessionAssumption
    <3>2. \A g \in Families : g # f => Len(rows'[g]) <= MaxGenerations
        BY <1>3 DEF TypeOK
    <3> QED
        BY <3>1, <3>2
  <2>3. \A u \in Requests : op'[u] \in {"rotate", "logout"} =>
            token'[u] \in RowIds /\ token'[u] \in FamilyRows(Family(u))'
      BY <1>2, <1>6, <1>7 DEF TypeOK, FamilyRows, Family
  <2> QED
      BY <1>2, <2>1, <2>2, <2>3 DEF TypeOK, FamilyRows, Family
<1>10. Chain'
  <2>1. ASSUME NEW g \in Families, NEW i \in DOMAIN rows'[g], g # f
        PROVE  rows'[g][i].consumed <=> i < Len(rows'[g])
      BY <1>3, <2>1 DEF Chain
  <2>2. ASSUME NEW i \in DOMAIN rows'[f]
        PROVE  rows'[f][i].consumed <=> i < Len(rows'[f])
      BY <1>3, <2>2
  <2> QED
      BY <2>1, <2>2 DEF Chain
<1>11. EndedFamilies'
    BY <1>2, <1>3, <1>5 DEF EndedFamilies, TypeOK
<1>12. ClosedStaysClosed' /\ SweptUnlessOvertaken'
    BY <1>2, <1>5, <1>6 DEF ClosedStaysClosed, SweptUnlessOvertaken, TypeOK,
                           LiveRows, FamilyRows, Row
<1>13. LocksInv'
  <2>1. Existing \subseteq Existing'
      BY <1>4, <1>6 DEF Existing, FamilyRows
  <2> QED
      BY <1>2, <2>1 DEF LocksInv, Family, Root, TypeOK, Existing
<1>14. ExchangeInv'
  <2> SUFFICES ASSUME NEW u \in Requests, phase[u] = "exchange"
               PROVE  /\ op[u] = "rotate"
                      /\ {Root(Family(u)), token[u]} \subseteq held[u]
                      /\ ~Row(token[u])'.consumed
                      /\ ~Row(token[u])'.revoked
                      /\ Len(rows'[Family(u)]) < MaxGenerations
      BY <1>2 DEF ExchangeInv, Family, Root, Row
  <2>1. op[u] = "rotate"
      BY DEF ExchangeInv
  <2>2. Row(token[u])' = Row(token[u]) /\ rows'[Family(u)] = rows[Family(u)]
      BY <1>2, <1>3, <1>7, <1>8, <2>1 DEF Family, Row
  <2> QED
      BY <2>1, <2>2 DEF ExchangeInv
<1>15. RevokeInv'
  <2>1. \A r \in Existing : r[1] # f
      BY <1>4, FamilyRowIds DEF Existing
  <2>2. \A u \in Requests : ~Sweeping(u, f)
      BY <2>1 DEF LocksInv, Sweeping
  <2>3. ASSUME NEW u \in Requests, phase[u] = "revoke", op[u] # "sweep"
        PROVE  LiveRows(Family(u))' = LiveRows(Family(u))
    <3>1. Family(u) \in Families /\ Family(u) # f
        BY <1>7, <2>3 DEF TypeOK, Ops, LocksInv
    <3> QED
        BY <1>2, <1>3, <3>1 DEF LiveRows, FamilyRows, Row, Family
  <2>4. ASSUME NEW u \in Requests, phase[u] = "revoke", op[u] = "sweep",
               NEW g \in Families, Sweeping(u, g)
        PROVE  g \in overtaken \/ LiveRows(g)' \subseteq want[u]
      BY <1>6, <2>2, <2>4 DEF RevokeInv
  <2> QED
      BY <1>2, <2>3, <2>4 DEF RevokeInv, Root, Family, Sweeping
<1> QED
    BY <1>9, <1>10, <1>11, <1>12, <1>13, <1>14, <1>15

\* While a rotation exchanges its token, nobody else holds the root of its
\* family, so nobody else rotates it and no locking revocation is under way.
LEMMA ExchangeStep ==
    ASSUME SessionInv, NEW t \in Requests, Exchange(t)
    PROVE  SessionInv'
<1> USE DEF SessionInv, history
<1> DEFINE f == Family(t)
           g == token[t][2]
<1>1. /\ phase[t] = "exchange"
      /\ op[t] = "rotate"
      /\ {Root(f), token[t]} \subseteq held[t]
      /\ ~Row(token[t]).consumed
      /\ ~Row(token[t]).revoked
      /\ Len(rows[f]) < MaxGenerations
    BY DEF Exchange, ExchangeInv
<1>2. /\ f \in Families /\ token[t] \in FamilyRows(f) /\ token[t] = <<f, g>>
      /\ g \in 1 .. Len(rows[f]) /\ Root(f) \in FamilyRows(f)
    BY <1>1, FamilyRowIds DEF TypeOK, RowIds, Family
<1>3. PICK rank \in Ranks : rows' = [rows EXCEPT ![f] = Exchanged(@, g, rank)]
    BY DEF Exchange
<1>4. /\ overtaken' = IF \E u \in Requests : Sweeping(u, f)
                      THEN overtaken \cup {f} ELSE overtaken
      /\ End(t)
      /\ UNCHANGED <<expired, closed, swept>>
    BY DEF Exchange
<1>5. /\ rows[f] \in Seq(AuthSessions) /\ Len(rows[f]) \in Nat
      /\ DOMAIN rows[f] = 1 .. Len(rows[f])
      /\ \A i \in 1 .. Len(rows[f]) : rows[f][i] \in AuthSessions
    BY <1>2, FamilySequence
<1>6. g = Len(rows[f])
    BY <1>1, <1>2, <1>5 DEF Chain, Row
<1> DEFINE spent == [rows[f] EXCEPT ![g].consumed = TRUE]
           fresh == [consumed |-> FALSE, revoked |-> FALSE, rank |-> rank]
<1>7. rows'[f] = Append(spent, fresh)
    BY <1>2, <1>3 DEF Exchanged, TypeOK
<1>8. /\ spent \in Seq(AuthSessions) /\ Len(spent) = Len(rows[f])
      /\ DOMAIN spent = 1 .. Len(rows[f])
      /\ spent[g].consumed /\ spent[g].revoked = rows[f][g].revoked
      /\ \A i \in 1 .. Len(rows[f]) : i # g => spent[i] = rows[f][i]
  <2> DEFINE used == [rows[f][g] EXCEPT !.consumed = TRUE]
  <2>1. used \in AuthSessions /\ used.consumed /\ used.revoked = rows[f][g].revoked
      BY <1>2, <1>5 DEF AuthSessions
  <2>2. spent = [rows[f] EXCEPT ![g] = used]
      OBVIOUS
  <2> HIDE DEF spent, used
  <2> QED
      BY <1>2, <1>5, <2>1, <2>2
<1>9. fresh \in AuthSessions
    BY DEF AuthSessions
<1> HIDE DEF spent, fresh
<1>10. /\ rows'[f] \in Seq(AuthSessions) /\ Len(rows'[f]) = Len(rows[f]) + 1
       /\ DOMAIN rows'[f] = 1 .. Len(rows[f]) + 1
       /\ \A i \in 1 .. Len(rows[f]) : rows'[f][i] = spent[i]
       /\ rows'[f][Len(rows[f]) + 1] = fresh
    BY <1>5, <1>7, <1>8, <1>9
<1>11. \A h \in Families : h # f => rows'[h] = rows[h]
    BY <1>2, <1>3 DEF TypeOK
<1>12. \A u \in Requests : u # t => Root(f) \notin held[u] /\ token[t] \notin held[u]
    BY <1>1 DEF LocksInv
<1>13. /\ \A u \in Requests : u # t =>
              /\ op'[u] = op[u] /\ token'[u] = token[u] /\ phase'[u] = phase[u]
              /\ want'[u] = want[u] /\ held'[u] = held[u]
       /\ op'[t] = "none" /\ token'[t] = NoToken /\ phase'[t] = "idle"
       /\ want'[t] = {} /\ held'[t] = {}
    BY <1>4 DEF End, TypeOK
<1> HIDE DEF f, g
<1>14. /\ \A h \in Families : FamilyRows(h) \subseteq FamilyRows(h)'
       /\ \A h \in Families : h # f => LiveRows(h)' = LiveRows(h)
    BY <1>5, <1>10, <1>11 DEF FamilyRows, LiveRows, Row
<1>15. token[t] \in LiveRows(f)
    BY <1>1, <1>2 DEF LiveRows
<1>16. f \notin closed
    BY <1>15 DEF ClosedStaysClosed
<1>17. f \notin swept \ overtaken
    BY <1>15 DEF SweptUnlessOvertaken
<1>18. overtaken \subseteq overtaken' /\ overtaken' \subseteq Families
    BY <1>2, <1>4 DEF TypeOK
<1>19. TypeOK'
  <2>1. rows' \in [Families -> Seq(AuthSessions)]
      BY <1>3, <1>10, <1>11 DEF TypeOK
  <2>2. \A h \in Families : Len(rows'[h]) <= MaxGenerations
    <3>1. Len(rows'[f]) <= MaxGenerations
        BY <1>1, <1>5, <1>10, SessionAssumption DEF f
    <3> QED
        BY <1>11, <3>1 DEF TypeOK
  <2>3. \A u \in Requests : op'[u] \in {"rotate", "logout"} =>
            token'[u] \in RowIds /\ token'[u] \in FamilyRows(Family(u))'
    <3> SUFFICES ASSUME NEW u \in Requests, op'[u] \in {"rotate", "logout"}
                 PROVE  token'[u] \in RowIds /\ token'[u] \in FamilyRows(Family(u))'
        OBVIOUS
    <3>1. u # t
        BY <1>13
    <3>2. Family(u)' = Family(u) /\ Family(u) \in Families /\ token[u] \in RowIds
        BY <1>13, <3>1 DEF TypeOK, Family, RowIds
    <3>3. token[u] \in FamilyRows(Family(u))
        BY <1>13, <3>1 DEF TypeOK
    <3> QED
        BY <1>13, <1>14, <3>1, <3>2, <3>3 DEF FamilyRows
  <2>4. /\ op' \in [Requests -> Ops] /\ token' \in [Requests -> RowIds \cup {NoToken}]
        /\ phase' \in [Requests -> Phases]
        /\ want' \in [Requests -> SUBSET RowIds] /\ held' \in [Requests -> SUBSET RowIds]
      BY <1>4 DEF End, TypeOK, Ops, Phases
  <2> QED
      BY <1>4, <1>18, <2>1, <2>2, <2>3, <2>4 DEF TypeOK, FamilyRows, Family
<1>20. Chain'
  <2>1. ASSUME NEW h \in Families, NEW i \in DOMAIN rows'[h], h # f
        PROVE  rows'[h][i].consumed <=> i < Len(rows'[h])
      BY <1>11, <2>1 DEF Chain
  <2>2. ASSUME NEW i \in DOMAIN rows'[f]
        PROVE  rows'[f][i].consumed <=> i < Len(rows'[f])
    <3>1. CASE i = Len(rows[f]) + 1
        BY <1>5, <1>10, <3>1 DEF fresh
    <3>2. CASE i = g
        BY <1>5, <1>6, <1>8, <1>10, <3>2 DEF f, g
    <3>3. CASE i \in 1 .. Len(rows[f]) /\ i # g
      <4>1. rows'[f][i] = rows[f][i] /\ f \in Families
          BY <1>2, <1>8, <1>10, <3>3 DEF f, g
      <4> QED
          BY <1>5, <1>6, <1>10, <3>3, <4>1 DEF Chain, f, g
    <3> QED
        BY <1>5, <1>10, <2>2, <3>1, <3>2, <3>3 DEF f
  <2> QED
      BY <2>1, <2>2 DEF Chain
<1>21. EndedFamilies'
    BY <1>4, <1>5, <1>10, <1>11 DEF EndedFamilies, TypeOK, f
<1>22. ClosedStaysClosed' /\ SweptUnlessOvertaken'
  <2>1. \A h \in closed : LiveRows(h)' = {}
      BY <1>14, <1>16 DEF ClosedStaysClosed, TypeOK
  <2>2. \A h \in swept \ overtaken' : LiveRows(h)' = {}
      BY <1>14, <1>17, <1>18 DEF SweptUnlessOvertaken, TypeOK
  <2> QED
      BY <1>4, <2>1, <2>2 DEF ClosedStaysClosed, SweptUnlessOvertaken, LiveRows, FamilyRows, Row
<1>23. LocksInv'
  <2>1. Existing \subseteq Existing'
      BY <1>14 DEF Existing, FamilyRows
  <2> QED
      BY <1>13, <2>1 DEF LocksInv, Family, Root, Existing
<1>24. ASSUME NEW u \in Requests, u # t, op[u] \in {"rotate", "logout"},
              Root(Family(u)) \in held[u]
       PROVE  /\ Family(u) \in Families /\ Family(u) # f
              /\ token[u] = <<Family(u), token[u][2]>>
              /\ LiveRows(Family(u))' = LiveRows(Family(u))
              /\ Row(token[u])' = Row(token[u])
              /\ rows'[Family(u)] = rows[Family(u)]
  <2>1. /\ Family(u) \in Families /\ Family(u) # f
        /\ token[u] = <<Family(u), token[u][2]>>
    <3>1. token[u] \in RowIds
        BY <1>24 DEF TypeOK
    <3>2. Family(u) \in Families /\ token[u] = <<Family(u), token[u][2]>>
        BY <3>1 DEF RowIds, Family
    <3>3. Family(u) # f
        BY <1>12, <1>24
    <3> QED
        BY <3>2, <3>3
  <2>2. rows'[Family(u)] = rows[Family(u)] /\ Family(u)' = Family(u)
      BY <1>11, <1>13, <1>24, <2>1 DEF Family
  <2> QED
      BY <1>13, <1>24, <2>1, <2>2 DEF LiveRows, FamilyRows, Row, Family
<1>25. ExchangeInv'
  <2> SUFFICES ASSUME NEW u \in Requests, phase'[u] = "exchange"
               PROVE  /\ op[u] = "rotate"
                      /\ {Root(Family(u)), token[u]} \subseteq held[u]
                      /\ ~Row(token[u])'.consumed
                      /\ ~Row(token[u])'.revoked
                      /\ Len(rows'[Family(u)]) < MaxGenerations
                      /\ u # t
      BY <1>13 DEF ExchangeInv, Family, Root, Row
  <2>1. u # t /\ phase[u] = "exchange"
      BY <1>13
  <2>2. op[u] = "rotate" /\ {Root(Family(u)), token[u]} \subseteq held[u]
      BY <2>1 DEF ExchangeInv
  <2> QED
      BY <1>24, <2>1, <2>2 DEF ExchangeInv
<1>26. RevokeInv'
  <2> SUFFICES ASSUME NEW u \in Requests, u # t, phase[u] = "revoke"
               PROVE  /\ op[u] # "sweep" => /\ Root(Family(u)) \in held[u]
                                            /\ LiveRows(Family(u))' \subseteq want[u]
                      /\ op[u] = "sweep" => \A h \in Families : Sweeping(u, h) =>
                            h \in overtaken' \/ LiveRows(h)' \subseteq want[u]
      BY <1>13 DEF RevokeInv, Family, Root, Sweeping, LiveRows, FamilyRows, Row
  <2>1. CASE op[u] # "sweep"
    <3>1. op[u] \in {"rotate", "logout"} /\ Root(Family(u)) \in held[u]
        BY <2>1 DEF TypeOK, LocksInv, RevokeInv, Ops
    <3> QED
        BY <1>24, <2>1, <3>1 DEF RevokeInv
  <2>2. CASE op[u] = "sweep"
    <3>1. Sweeping(u, f) => f \in overtaken'
        BY <1>4 DEF f
    <3> QED
        BY <1>14, <1>18, <2>2, <3>1 DEF RevokeInv
  <2> QED
      BY <2>1, <2>2
<1> QED
    BY <1>19, <1>20, <1>21, <1>22, <1>23, <1>25, <1>26

\* A revocation takes rows its transaction holds: no row another request is
\* exchanging.
LEMMA RevokeStep ==
    ASSUME SessionInv, NEW t \in Requests, Revoke(t)
    PROVE  SessionInv'
<1> USE DEF SessionInv, history
<1>1. /\ phase[t] = "revoke" /\ want[t] \subseteq held[t]
      /\ End(t) /\ UNCHANGED <<expired, overtaken>>
    BY DEF Revoke, Missing
<1>2. /\ DOMAIN rows' = Families
      /\ \A f \in Families :
            /\ DOMAIN rows'[f] = DOMAIN rows[f]
            /\ \A g \in DOMAIN rows[f] :
                  rows'[f][g] = [rows[f][g] EXCEPT !.revoked = @ \/ <<f, g>> \in want[t]]
    BY DEF Revoke
<1>3. \A f \in Families :
          /\ rows[f] \in Seq(AuthSessions) /\ Len(rows[f]) \in Nat
          /\ Len(rows[f]) <= MaxGenerations
          /\ DOMAIN rows[f] = 1 .. Len(rows[f])
          /\ \A g \in 1 .. Len(rows[f]) : rows[f][g] \in AuthSessions
    BY FamilySequence
<1>4. \A f \in Families : \A g \in DOMAIN rows[f] :
          /\ rows'[f][g] \in AuthSessions
          /\ rows'[f][g].consumed = rows[f][g].consumed
          /\ <<f, g>> \in want[t] => rows'[f][g].revoked
          /\ <<f, g>> \notin want[t] => rows'[f][g].revoked = rows[f][g].revoked
  <2> SUFFICES ASSUME NEW f \in Families, NEW g \in DOMAIN rows[f]
               PROVE  /\ rows'[f][g] \in AuthSessions
                      /\ rows'[f][g].consumed = rows[f][g].consumed
                      /\ <<f, g>> \in want[t] => rows'[f][g].revoked
                      /\ <<f, g>> \notin want[t] => rows'[f][g].revoked = rows[f][g].revoked
      OBVIOUS
  <2> DEFINE old == rows[f][g]
             new == [old EXCEPT !.revoked = @ \/ <<f, g>> \in want[t]]
  <2>1. rows'[f][g] = new
      BY <1>2
  <2>2. old \in AuthSessions
      BY <1>3
  <2> HIDE DEF old
  <2>3. new.consumed = old.consumed /\ new.rank = old.rank
        /\ new = [consumed |-> old.consumed, revoked |-> new.revoked, rank |-> old.rank]
      BY <2>2 DEF AuthSessions
  <2>4. CASE <<f, g>> \in want[t]
    <3>1. new.revoked = TRUE
        BY <2>2, <2>4 DEF AuthSessions
    <3> QED
        BY <2>1, <2>2, <2>3, <2>4, <3>1 DEF AuthSessions, old
  <2>5. CASE <<f, g>> \notin want[t]
    <3>1. new.revoked = old.revoked
        BY <2>2, <2>5 DEF AuthSessions
    <3> QED
        BY <2>1, <2>2, <2>3, <2>5, <3>1 DEF AuthSessions, old
  <2> QED
      BY <2>4, <2>5
<1>5. \A f \in Families : rows'[f] \in Seq(AuthSessions) /\ Len(rows'[f]) = Len(rows[f])
  <2> SUFFICES ASSUME NEW f \in Families
               PROVE  rows'[f] \in Seq(AuthSessions) /\ Len(rows'[f]) = Len(rows[f])
      OBVIOUS
  <2>1. rows'[f] = [g \in 1 .. Len(rows[f]) |-> rows'[f][g]]
      BY <1>3 DEF Revoke
  <2>2. \A g \in 1 .. Len(rows[f]) : rows'[f][g] \in AuthSessions
      BY <1>3, <1>4
  <2> QED
      BY <1>3, <2>1, <2>2
<1>6. \A f \in Families : FamilyRows(f)' = FamilyRows(f) /\ LiveRows(f)' = LiveRows(f) \ want[t]
  <2> SUFFICES ASSUME NEW f \in Families
               PROVE  FamilyRows(f)' = FamilyRows(f) /\ LiveRows(f)' = LiveRows(f) \ want[t]
      OBVIOUS
  <2>1. FamilyRows(f)' = FamilyRows(f)
      BY <1>2 DEF FamilyRows
  <2>2. \A r \in FamilyRows(f) :
            r = <<f, r[2]>> /\ (~Row(r)'.revoked <=> ~Row(r).revoked /\ r \notin want[t])
      BY <1>3, <1>4 DEF FamilyRows, Row, AuthSessions
  <2> QED
      BY <2>1, <2>2 DEF LiveRows
<1>7. /\ \A u \in Requests : u # t =>
             /\ op'[u] = op[u] /\ token'[u] = token[u] /\ phase'[u] = phase[u]
             /\ want'[u] = want[u] /\ held'[u] = held[u]
      /\ op'[t] = "none" /\ token'[t] = NoToken /\ phase'[t] = "idle"
      /\ want'[t] = {} /\ held'[t] = {}
    BY <1>1 DEF End, TypeOK
<1>8. \A u \in Requests : op[u] \in {"rotate", "logout"} =>
          /\ Family(u) \in Families /\ token[u] \in FamilyRows(Family(u))
          /\ token[u] = <<Family(u), token[u][2]>>
          /\ token[u][2] \in DOMAIN rows[Family(u)]
    BY <1>3 DEF TypeOK, RowIds, Family, FamilyRows
<1>9. TypeOK'
  <2>1. rows' \in [Families -> Seq(AuthSessions)]
      BY <1>5 DEF Revoke
  <2>2. \A u \in Requests : op'[u] \in {"rotate", "logout"} =>
            token'[u] \in RowIds /\ token'[u] \in FamilyRows(Family(u))'
    <3> SUFFICES ASSUME NEW u \in Requests, op'[u] \in {"rotate", "logout"}
                 PROVE  token'[u] \in RowIds /\ token'[u] \in FamilyRows(Family(u))'
        OBVIOUS
    <3>1. u # t /\ op[u] \in {"rotate", "logout"} /\ token'[u] = token[u]
        BY <1>7
    <3> QED
        BY <1>2, <1>8, <3>1 DEF TypeOK, FamilyRows, Family
  <2>3. /\ op' \in [Requests -> Ops] /\ token' \in [Requests -> RowIds \cup {NoToken}]
        /\ phase' \in [Requests -> Phases]
        /\ want' \in [Requests -> SUBSET RowIds] /\ held' \in [Requests -> SUBSET RowIds]
      BY <1>1 DEF End, TypeOK, Ops, Phases
  <2>4. closed' \subseteq Families /\ swept' \subseteq Families
    <3>1. CASE op[t] = "sweep"
      <4>1. \A r \in want[t] : r[1] \in Families
          BY DEF TypeOK, RowIds
      <4> QED
          BY <3>1, <4>1 DEF Revoke, TypeOK
    <3>2. CASE op[t] # "sweep"
      <4>1. Family(t) \in Families
          BY <1>1, <1>8, <3>2 DEF TypeOK, Ops, LocksInv
      <4> QED
          BY <3>2, <4>1 DEF Revoke, TypeOK
    <3> QED
        BY <3>1, <3>2
  <2> QED
      BY <1>1, <1>3, <1>5, <2>1, <2>2, <2>3, <2>4 DEF TypeOK, FamilyRows, Family
<1>10. Chain'
  <2> SUFFICES ASSUME NEW f \in Families, NEW g \in DOMAIN rows'[f]
               PROVE  rows'[f][g].consumed <=> g < Len(rows'[f])
      BY DEF Chain
  <2>1. g \in DOMAIN rows[f] /\ Len(rows'[f]) = Len(rows[f])
      BY <1>2, <1>5
  <2>2. rows'[f][g].consumed = rows[f][g].consumed
      BY <1>4, <2>1
  <2>3. rows[f][g].consumed <=> g < Len(rows[f])
      BY <2>1 DEF Chain
  <2> QED
      BY <2>1, <2>2, <2>3
<1>11. LocksInv'
  <2>1. Existing' = Existing
      BY <1>2 DEF Existing, FamilyRows
  <2> QED
      BY <1>7, <2>1 DEF LocksInv, Family, Root, Existing
<1>12. ExchangeInv'
  <2> SUFFICES ASSUME NEW u \in Requests, u # t, phase[u] = "exchange"
               PROVE  /\ op[u] = "rotate"
                      /\ {Root(Family(u)), token[u]} \subseteq held[u]
                      /\ ~Row(token[u])'.consumed
                      /\ ~Row(token[u])'.revoked
                      /\ Len(rows'[Family(u)]) < MaxGenerations
      BY <1>7 DEF ExchangeInv, Family, Root, Row
  <2>1. /\ op[u] = "rotate" /\ {Root(Family(u)), token[u]} \subseteq held[u]
        /\ ~Row(token[u]).consumed /\ ~Row(token[u]).revoked
        /\ Len(rows[Family(u)]) < MaxGenerations
      BY DEF ExchangeInv
  <2>2. token[u] \notin want[t]
      BY <1>1, <2>1 DEF LocksInv
  <2>3. /\ Family(u) \in Families /\ token[u] = <<Family(u), token[u][2]>>
        /\ token[u][2] \in DOMAIN rows[Family(u)]
      BY <1>8, <2>1
  <2>4. Row(token[u])' = rows'[Family(u)][token[u][2]]
        /\ Row(token[u]) = rows[Family(u)][token[u][2]]
      BY <1>7, <2>3 DEF Row, Family
  <2> QED
      BY <1>4, <1>5, <2>1, <2>2, <2>3, <2>4
<1>13. RevokeInv'
  <2> SUFFICES ASSUME NEW u \in Requests, u # t, phase[u] = "revoke"
               PROVE  /\ op[u] # "sweep" => /\ Root(Family(u)) \in held[u]
                                            /\ LiveRows(Family(u))' \subseteq want[u]
                      /\ op[u] = "sweep" => \A f \in Families : Sweeping(u, f) =>
                            f \in overtaken \/ LiveRows(f)' \subseteq want[u]
      BY <1>1, <1>7 DEF RevokeInv, Family, Root, Sweeping, LiveRows, FamilyRows, Row
  <2>1. CASE op[u] # "sweep"
    <3>1. op[u] \in {"rotate", "logout"} /\ Root(Family(u)) \in held[u]
          /\ LiveRows(Family(u)) \subseteq want[u]
        BY <2>1 DEF TypeOK, LocksInv, RevokeInv, Ops
    <3>2. Family(u) \in Families /\ Family(u)' = Family(u)
        BY <1>7, <1>8, <3>1 DEF Family
    <3> QED
        BY <1>2, <1>6, <2>1, <3>1, <3>2 DEF LiveRows, FamilyRows, Row
  <2>2. CASE op[u] = "sweep"
      BY <1>6, <2>2 DEF RevokeInv
  <2> QED
      BY <2>1, <2>2
<1>14. EndedFamilies' /\ ClosedStaysClosed' /\ SweptUnlessOvertaken'
  <2>1. CASE op[t] = "sweep"
    <3>1. closed' = closed /\ swept' = swept \cup {r[1] : r \in want[t]}
        BY <2>1 DEF Revoke
    <3>2. \A r \in want[t] : r[1] \in Families /\ r \in FamilyRows(r[1]) /\ Sweeping(t, r[1])
        BY <2>1, FamilyRowIds DEF LocksInv, Existing, Sweeping
    <3>3. \A f \in Families : rows[f] # <<>> => rows'[f] # <<>>
        BY <1>3, <1>5
    <3>4. \A r \in want[t] : rows[r[1]] # <<>>
        BY <3>2 DEF FamilyRows
    <3>5. \A f \in swept' \ overtaken : LiveRows(f)' = {}
      <4>1. ASSUME NEW f \in swept \ overtaken PROVE LiveRows(f)' = {}
          BY <1>6, <4>1 DEF SweptUnlessOvertaken, TypeOK
      <4>2. ASSUME NEW r \in want[t], r[1] \notin overtaken PROVE LiveRows(r[1]) \subseteq want[t]
          BY <1>1, <2>1, <3>2, <4>2 DEF RevokeInv
      <4>3. ASSUME NEW f \in Families, LiveRows(f) \subseteq want[t] PROVE LiveRows(f)' = {}
          BY <1>6, <4>3
      <4>4. ASSUME NEW f \in swept' \ overtaken, f \notin swept PROVE LiveRows(f)' = {}
        <5>1. PICK r \in want[t] : f = r[1]
            BY <3>1, <4>4
        <5>2. f \in Families /\ LiveRows(r[1]) \subseteq want[t]
            BY <3>2, <4>2, <4>4, <5>1
        <5> QED
            BY <4>3, <5>1, <5>2
      <4> QED
          BY <4>1, <4>4
    <3>6. \A f \in closed' : LiveRows(f)' = {}
        BY <1>6, <3>1 DEF ClosedStaysClosed, TypeOK
    <3>7. \A f \in closed' \cup swept' : rows'[f] # <<>>
        BY <3>1, <3>2, <3>3, <3>4 DEF EndedFamilies, TypeOK
    <3> QED
        BY <1>1, <3>5, <3>6, <3>7 DEF EndedFamilies, ClosedStaysClosed,
           SweptUnlessOvertaken, LiveRows, FamilyRows, Row
  <2>2. CASE op[t] # "sweep"
    <3>1. closed' = closed \cup {Family(t)} /\ swept' = swept
        BY <2>2 DEF Revoke
    <3>2. Family(t) \in Families /\ token[t] \in FamilyRows(Family(t))
          /\ LiveRows(Family(t)) \subseteq want[t]
        BY <1>1, <1>8, <2>2 DEF TypeOK, Ops, LocksInv, RevokeInv
    <3>3. \A f \in Families : rows[f] # <<>> => rows'[f] # <<>>
        BY <1>3, <1>5
    <3>4. rows[Family(t)] # <<>>
        BY <3>2 DEF FamilyRows
    <3>5. \A f \in swept' \ overtaken : LiveRows(f)' = {}
        BY <1>6, <3>1 DEF SweptUnlessOvertaken, TypeOK
    <3>6. \A f \in closed' : LiveRows(f)' = {}
        BY <1>6, <3>1, <3>2 DEF ClosedStaysClosed, TypeOK
    <3>7. \A f \in closed' \cup swept' : rows'[f] # <<>>
        BY <3>1, <3>2, <3>3, <3>4 DEF EndedFamilies, TypeOK
    <3> QED
        BY <1>1, <3>5, <3>6, <3>7 DEF EndedFamilies, ClosedStaysClosed,
           SweptUnlessOvertaken, LiveRows, FamilyRows, Row
  <2> QED
      BY <2>1, <2>2
<1> QED
    BY <1>9, <1>10, <1>11, <1>12, <1>13, <1>14

LEMMA NextStep == SessionInv /\ [Next]_vars => SessionInv'
<1> SUFFICES ASSUME SessionInv, [Next]_vars PROVE SessionInv'
    OBVIOUS
<1>1. ASSUME NEW f \in Families, StartFamily(f) PROVE SessionInv'
    BY <1>1, StartFamilyStep
<1>2. ASSUME NEW f \in Families, Expire(f) PROVE SessionInv'
    BY <1>2, QuietStep DEF Expire, SessionInv, TypeOK
<1>3. ASSUME NEW t \in Requests, NEW kind \in {"rotate", "logout"}, NEW r \in RowIds,
             PresentToken(t, kind, r)
      PROVE  SessionInv'
    BY <1>3, PresentTokenStep
<1>4. ASSUME NEW t \in Requests, NEW scope \in Scopes, Sweep(t, scope) PROVE SessionInv'
  <2>1. scope \in SUBSET Families
      BY DEF Scopes
  <2> QED
      BY <1>4, <2>1, SweepStep
<1>5. ASSUME NEW t \in Requests, Advance(t) PROVE SessionInv'
  <2>1. CASE Refuse(t)
      BY <2>1, EndStep DEF Refuse
  <2>2. CASE DeadlockVictim(t)
      BY <2>2, EndStep DEF DeadlockVictim
  <2>3. CASE LockNext(t) \/ LockForRevoke(t) \/ Accept(t)
      BY <2>3, LockNextStep, LockForRevokeStep, AcceptStep
  <2>4. CASE RevokeLocked(t) \/ Exchange(t) \/ Revoke(t)
      BY <2>4, RevokeLockedStep, ExchangeStep, RevokeStep
  <2> QED
      BY <1>5, <2>1, <2>2, <2>3, <2>4 DEF Advance
<1>6. ASSUME NEW t \in Requests, Abort(t) PROVE SessionInv'
    BY <1>6, EndStep DEF Abort
<1>7. CASE UNCHANGED vars
    BY <1>7, QuietStep DEF vars, SessionInv, TypeOK
<1> QED
    BY <1>1, <1>2, <1>3, <1>4, <1>5, <1>6, <1>7 DEF Next

THEOREM SessionInvariant == Spec => []SessionInv
<1>1. Init => SessionInv
    BY InitInvariant
<1>2. SessionInv /\ [Next]_vars => SessionInv'
    BY NextStep
<1> QED
    BY <1>1, <1>2, PTL DEF Spec

\* A token is exchanged at most once: however many refreshes of one device
\* race (services/auth_sessions.py rotate_refresh_session), exactly one row of
\* the family is not consumed, and it is the newest.
THEOREM RotationKeepsOneTip == Spec => []OneTip
<1>1. SessionInv => OneTip
  <2> SUFFICES ASSUME SessionInv, NEW f \in Families, rows[f] # <<>>
               PROVE  \E tip \in DOMAIN rows[f] :
                         \A g \in DOMAIN rows[f] : ~rows[f][g].consumed <=> g = tip
      BY DEF OneTip
  <2>1. /\ rows[f] \in Seq(AuthSessions) /\ Len(rows[f]) \in Nat
        /\ DOMAIN rows[f] = 1 .. Len(rows[f])
      BY FamilySequence DEF SessionInv
  <2>2. Len(rows[f]) \in DOMAIN rows[f]
      BY <2>1
  <2>3. \A g \in DOMAIN rows[f] : ~rows[f][g].consumed <=> g = Len(rows[f])
      BY <2>1 DEF SessionInv, Chain
  <2> QED
      BY <2>2, <2>3
<1> QED
    BY <1>1, SessionInvariant, PTL

\* A committed logout or reuse revocation leaves the family without a live
\* row for ever, for any number of requests and of rotations under way
\* (services/auth_sessions.py revoke_refresh_session_family).
THEOREM LockedRevocationIsComplete == Spec => []ClosedStaysClosed
<1>1. SessionInv => ClosedStaysClosed
    BY DEF SessionInv
<1> QED
    BY <1>1, SessionInvariant, PTL

\* The revocations that take no lock first are complete for every family no
\* rotation of which committed while they waited (services/auth_sessions.py
\* revoke_other_sessions_for_user and its siblings).
THEOREM SweepIsCompleteUnlessOvertaken == Spec => []SweptUnlessOvertaken
<1>1. SessionInv => SweptUnlessOvertaken
    BY DEF SessionInv
<1> QED
    BY <1>1, SessionInvariant, PTL

-----------------------------------------------------------------------------
(***************************************************************************)
(* The order of the locks, and the list of devices.                        *)
(***************************************************************************)

\* A request whose rows keep their ranks keeps its order, when it did nothing.
LEMMA WaitersOrdered ==
    ASSUME SessionInv, OrderInv, NEW u \in Requests,
           op'[u] = op[u], token'[u] = token[u], phase'[u] = phase[u],
           want'[u] = want[u], held'[u] = held[u],
           \A f \in Families : FamilyRows(f) \subseteq FamilyRows(f)',
           \A r \in Existing : Row(r)'.rank = Row(r).rank
    PROVE  Ordered(u)'
<1>1. Ordered(u) /\ want[u] \subseteq Existing
    BY DEF OrderInv, SessionInv, LocksInv
<1>2. CASE phase[u] # "lock"
    BY <1>1, <1>2 DEF Ordered
<1>3. CASE phase[u] = "lock"
  <2>1. Family(u)' = Family(u) /\ Family(u) \in Families
    <3>1. op[u] \in {"rotate", "logout"}
        BY <1>3 DEF SessionInv, TypeOK, LocksInv, Ops
    <3> QED
        BY <3>1 DEF SessionInv, TypeOK, RowIds, Family
  <2>2. held[u] \subseteq want[u] /\ want[u] \subseteq FamilyRows(Family(u))
        /\ \A h \in held[u], m \in Missing(u) : Row(h).rank <= Row(m).rank
      BY <1>1, <1>3 DEF Ordered
  <2>3. Missing(u)' = Missing(u)
      BY DEF Missing
  <2>4. want[u] \subseteq FamilyRows(Family(u))'
      BY <2>1, <2>2 DEF FamilyRows
  <2>5. \A h \in held[u], m \in Missing(u) : Row(h)'.rank <= Row(m)'.rank
    <3>1. \A r \in held[u] \cup Missing(u) : r \in Existing
        BY <1>1, <2>2 DEF Missing
    <3> QED
        BY <2>2, <3>1
  <2>6. held'[u] \subseteq want'[u] /\ want'[u] \subseteq FamilyRows(Family(u))'
      BY <2>2, <2>4
  <2>7. \A h \in held'[u], m \in Missing(u)' : Row(h)'.rank <= Row(m)'.rank
      BY <2>3, <2>5
  <2> QED
      BY <1>3, <2>6, <2>7 DEF Ordered
<1> QED
    BY <1>2, <1>3

\* A step that writes no row.
LEMMA ReadersOrdered ==
    ASSUME SessionInv, OrderInv, rows' = rows
    PROVE  /\ RanksDiffer'
           /\ \A f \in Families : FamilyRows(f) \subseteq FamilyRows(f)'
           /\ \A r \in Existing : Row(r)'.rank = Row(r).rank
BY DEF OrderInv, RanksDiffer, FamilyRows, Row

\* A request that is left without a lock statement, and without locks when idle.
LEMMA Unlocking ==
    ASSUME NEW t \in Requests, phase'[t] # "lock", phase'[t] = "idle" => held'[t] = {}
    PROVE  Ordered(t)'
BY DEF Ordered

\* The successor's rank is one the family has not got.
LEMMA ExchangeKeepsRanks ==
    ASSUME SessionInv, OrderInv, NEW t \in Requests, Exchange(t)
    PROVE  /\ RanksDiffer'
           /\ \A h \in Families : FamilyRows(h) \subseteq FamilyRows(h)'
           /\ \A r \in Existing : Row(r)'.rank = Row(r).rank
<1> DEFINE f == Family(t)
           g == token[t][2]
           n == Len(rows[f])
<1>1. phase[t] = "exchange" /\ TypeOK /\ RanksDiffer
    BY DEF Exchange, SessionInv, OrderInv
<1>2. f \in Families /\ g \in 1 .. n
  <2>1. op[t] = "rotate"
      BY <1>1 DEF SessionInv, ExchangeInv
  <2> QED
      BY <1>1, <2>1, FamilyRowIds DEF TypeOK, RowIds, Family
<1>3. PICK rank \in Ranks \ {rows[f][i].rank : i \in DOMAIN rows[f]} :
          rows' = [rows EXCEPT ![f] = Exchanged(@, g, rank)]
    BY DEF Exchange
<1>4. /\ rows[f] \in Seq(AuthSessions) /\ n \in Nat /\ DOMAIN rows[f] = 1 .. n
      /\ \A i \in 1 .. n : rows[f][i] \in AuthSessions
    BY <1>1, <1>2, FamilySequence
<1> DEFINE spent == [rows[f] EXCEPT ![g].consumed = TRUE]
           fresh == [consumed |-> FALSE, revoked |-> FALSE, rank |-> rank]
<1>5. rows'[f] = Append(spent, fresh) /\ \A h \in Families \ {f} : rows'[h] = rows[h]
    BY <1>1, <1>2, <1>3 DEF Exchanged, TypeOK
<1>6. /\ spent \in Seq(AuthSessions) /\ Len(spent) = n
      /\ \A i \in 1 .. n : spent[i].rank = rows[f][i].rank
  <2> DEFINE used == [rows[f][g] EXCEPT !.consumed = TRUE]
  <2>1. used \in AuthSessions /\ used.rank = rows[f][g].rank
      BY <1>2, <1>4 DEF AuthSessions
  <2>2. spent = [rows[f] EXCEPT ![g] = used]
      OBVIOUS
  <2> HIDE DEF spent, used
  <2>3. spent \in Seq(AuthSessions) /\ Len(spent) = n
        /\ \A i \in 1 .. n : spent[i] = IF i = g THEN used ELSE rows[f][i]
      BY <1>2, <1>4, <2>1, <2>2
  <2> QED
      BY <2>1, <2>3
<1>7. fresh \in AuthSessions /\ fresh.rank = rank
    BY DEF AuthSessions
<1> HIDE DEF spent, fresh
<1>8. /\ DOMAIN rows'[f] = 1 .. n + 1
      /\ \A i \in 1 .. n : rows'[f][i] = spent[i]
      /\ rows'[f][n + 1] = fresh
    BY <1>4, <1>5, <1>6, <1>7
<1> HIDE DEF f, g, n
<1>9. /\ \A i \in 1 .. n : rows'[f][i].rank = rows[f][i].rank
      /\ rows'[f][n + 1].rank = rank
      /\ \A i \in 1 .. n : rows[f][i].rank # rank
    BY <1>3, <1>4, <1>6, <1>7, <1>8
<1>10. \A i, j \in 1 .. n + 1 : rows'[f][i].rank = rows'[f][j].rank => i = j
  <2>1. \A i, j \in 1 .. n : rows[f][i].rank = rows[f][j].rank => i = j
      BY <1>1, <1>2, <1>4 DEF RanksDiffer
  <2>2. \A i \in 1 .. n + 1 : i \in 1 .. n \/ i = n + 1
      BY <1>4
  <2> QED
      BY <1>9, <2>1, <2>2
<1>11. RanksDiffer'
    BY <1>1, <1>5, <1>8, <1>10 DEF RanksDiffer
<1>12. 1 .. n \subseteq 1 .. n + 1
    BY <1>4
<1>13. \A h \in Families : FamilyRows(h) \subseteq FamilyRows(h)'
    BY <1>4, <1>5, <1>8, <1>12 DEF FamilyRows
<1>14. \A r \in Existing : Row(r)'.rank = Row(r).rank
  <2> SUFFICES ASSUME NEW h \in Families, NEW r \in FamilyRows(h) PROVE Row(r)'.rank = Row(r).rank
      BY DEF Existing
  <2>1. r[1] = h /\ r[2] \in DOMAIN rows[h]
      BY DEF FamilyRows
  <2>2. CASE h # f
      BY <1>5, <2>1, <2>2 DEF Row
  <2>3. CASE h = f
      BY <1>4, <1>9, <2>1, <2>3 DEF Row
  <2> QED
      BY <2>2, <2>3
<1> QED
    BY <1>11, <1>13, <1>14

\* A revocation writes no rank.
LEMMA RevokeKeepsRanks ==
    ASSUME SessionInv, OrderInv, NEW t \in Requests, Revoke(t)
    PROVE  /\ RanksDiffer'
           /\ \A h \in Families : FamilyRows(h) \subseteq FamilyRows(h)'
           /\ \A r \in Existing : Row(r)'.rank = Row(r).rank
<1>1. TypeOK /\ RanksDiffer
    BY DEF SessionInv, OrderInv
<1>2. \A f \in Families :
          /\ DOMAIN rows'[f] = DOMAIN rows[f]
          /\ \A g \in DOMAIN rows[f] :
                rows'[f][g] = [rows[f][g] EXCEPT !.revoked = @ \/ <<f, g>> \in want[t]]
    BY DEF Revoke
<1>3. \A f \in Families : \A g \in DOMAIN rows[f] : rows[f][g] \in AuthSessions
    BY <1>1, FamilySequence
<1>4. \A f \in Families : \A g \in DOMAIN rows[f] : rows'[f][g].rank = rows[f][g].rank
  <2> SUFFICES ASSUME NEW f \in Families, NEW g \in DOMAIN rows[f]
               PROVE  rows'[f][g].rank = rows[f][g].rank
      OBVIOUS
  <2> DEFINE old == rows[f][g]
             new == [old EXCEPT !.revoked = @ \/ <<f, g>> \in want[t]]
  <2>1. rows'[f][g] = new /\ old \in AuthSessions
      BY <1>1, <1>2, <1>3, FamilySequence
  <2> HIDE DEF old
  <2>2. new.rank = old.rank
      BY <2>1 DEF AuthSessions
  <2> QED
      BY <2>1, <2>2 DEF old
<1>5. RanksDiffer' /\ \A h \in Families : FamilyRows(h) \subseteq FamilyRows(h)'
    BY <1>1, <1>2, <1>4 DEF RanksDiffer, FamilyRows
<1>6. \A h \in Families : \A r \in FamilyRows(h) : Row(r)'.rank = Row(r).rank
    BY <1>4 DEF FamilyRows, Row
<1> QED
    BY <1>5, <1>6 DEF Existing

\* A new family has one row.
LEMMA StartKeepsRanks ==
    ASSUME SessionInv, OrderInv, NEW f \in Families, StartFamily(f)
    PROVE  /\ RanksDiffer'
           /\ \A h \in Families : FamilyRows(h) \subseteq FamilyRows(h)'
           /\ \A r \in Existing : Row(r)'.rank = Row(r).rank
<1>1. TypeOK /\ RanksDiffer
    BY DEF SessionInv, OrderInv
<1>2. PICK rank \in Ranks :
          rows' = [rows EXCEPT ![f] = <<[consumed |-> FALSE, revoked |-> FALSE, rank |-> rank]>>]
    BY DEF StartFamily
<1>3. DOMAIN rows'[f] = {1} /\ rows[f] = <<>> /\ \A h \in Families \ {f} : rows'[h] = rows[h]
    BY <1>1, <1>2 DEF TypeOK, StartFamily
<1>4. RanksDiffer' /\ \A h \in Families : FamilyRows(h) \subseteq FamilyRows(h)'
    BY <1>1, <1>3 DEF RanksDiffer, FamilyRows
<1>5. \A h \in Families : \A r \in FamilyRows(h) : Row(r)'.rank = Row(r).rank
    BY <1>3 DEF FamilyRows, Row
<1> QED
    BY <1>4, <1>5 DEF Existing

LEMMA OrderStep ==
    ASSUME SessionInv, OrderInv, [Next]_vars
    PROVE  OrderInv'
<1>1. TypeOK
    BY DEF SessionInv
<1>2. ASSUME NEW t \in Requests, rows' = rows, Ordered(t)',
             \A u \in Requests \ {t} : /\ op'[u] = op[u] /\ token'[u] = token[u] /\ phase'[u] = phase[u]
                                       /\ want'[u] = want[u] /\ held'[u] = held[u]
      PROVE  OrderInv'
  <2>1. \A u \in Requests \ {t} : Ordered(u)'
      BY <1>2, ReadersOrdered, WaitersOrdered
  <2> QED
      BY <1>2, <2>1, ReadersOrdered DEF OrderInv
<1>3. ASSUME NEW t \in Requests, End(t)
      PROVE  /\ Ordered(t)'
             /\ \A u \in Requests \ {t} : /\ op'[u] = op[u] /\ token'[u] = token[u] /\ phase'[u] = phase[u]
                                          /\ want'[u] = want[u] /\ held'[u] = held[u]
    BY <1>1, <1>3, Unlocking DEF End, TypeOK
<1>4. ASSUME NEW t \in Requests, NEW kind \in {"rotate", "logout"}, NEW r \in RowIds,
             PresentToken(t, kind, r)
      PROVE  OrderInv'
  <2>1. /\ phase[t] = "idle" /\ rows' = rows /\ phase'[t] = "lock" /\ token'[t] = r
        /\ want'[t] = FamilyRows(r[1]) /\ held' = held
        /\ \A u \in Requests \ {t} : /\ op'[u] = op[u] /\ token'[u] = token[u] /\ phase'[u] = phase[u]
                                     /\ want'[u] = want[u] /\ held'[u] = held[u]
      BY <1>1, <1>4 DEF PresentToken, LockTargets, TypeOK
  <2>2. held'[t] = {}
      BY <2>1 DEF OrderInv, Ordered
  <2>3. Family(t)' = r[1] /\ FamilyRows(r[1])' = FamilyRows(r[1])
      BY <2>1 DEF Family, FamilyRows
  <2>4. want'[t] \subseteq FamilyRows(Family(t))'
      BY <2>1, <2>3 DEF FamilyRows
  <2>5. Ordered(t)'
      BY <2>1, <2>2, <2>4 DEF Ordered
  <2> QED
      BY <1>2, <2>1, <2>5
<1>5. ASSUME NEW t \in Requests, LockNext(t)
      PROVE  OrderInv'
  <2>1. PICK r \in InOrder(t) : Free(r) /\ held' = [held EXCEPT ![t] = @ \cup {r}]
      BY <1>5 DEF LockNext
  <2>2. phase[t] = "lock" /\ UNCHANGED <<rows, op, token, phase, want>>
      BY <1>5 DEF LockNext
  <2>3. /\ held'[t] = held[t] \cup {r}
        /\ \A u \in Requests \ {t} : held'[u] = held[u]
      BY <1>1, <2>1 DEF TypeOK
  <2>4. /\ held[t] \subseteq want[t] /\ want[t] \subseteq FamilyRows(Family(t))
        /\ \A h \in held[t], m \in Missing(t) : Row(h).rank <= Row(m).rank
      BY <2>2 DEF OrderInv, Ordered
  <2>5. r \in Missing(t) /\ \A m \in Missing(t) : Row(r).rank <= Row(m).rank
      BY <2>1 DEF InOrder
  <2>6. Missing(t)' \subseteq Missing(t) /\ r \in want[t]
      BY <2>2, <2>3, <2>5 DEF Missing
  <2>7. /\ held'[t] \subseteq want'[t] /\ want'[t] \subseteq FamilyRows(Family(t))'
        /\ \A h \in held'[t], m \in Missing(t)' : Row(h)'.rank <= Row(m)'.rank
    <3>1. \A h : Row(h)' = Row(h)
        BY <2>2 DEF Row
    <3>2. FamilyRows(Family(t))' = FamilyRows(Family(t))
        BY <2>2 DEF FamilyRows, Family
    <3> QED
        BY <2>2, <2>3, <2>4, <2>5, <2>6, <3>1, <3>2
  <2>8. Ordered(t)'
      BY <2>2, <2>7 DEF Ordered
  <2> QED
      BY <1>2, <2>2, <2>3, <2>8
<1>6. ASSUME NEW t \in Requests, LockForRevoke(t)
      PROVE  OrderInv'
  <2>1. phase[t] = "revoke" /\ UNCHANGED <<rows, op, token, phase>>
      BY <1>6 DEF LockForRevoke
  <2>2. PICK r \in Missing(t) :
          \/ want' = [want EXCEPT ![t] = @ \ {r}] /\ UNCHANGED held
          \/ held' = [held EXCEPT ![t] = @ \cup {r}] /\ UNCHANGED want
      BY <1>6 DEF LockForRevoke
  <2>3. \A u \in Requests \ {t} : want'[u] = want[u] /\ held'[u] = held[u]
      BY <1>1, <2>2 DEF TypeOK
  <2>4. Ordered(t)'
      BY <2>1, Unlocking
  <2> QED
      BY <1>2, <2>1, <2>3, <2>4
<1>7. ASSUME NEW t \in Requests, NEW scope \in Scopes, Sweep(t, scope)
      PROVE  OrderInv'
  <2>1. /\ rows' = rows /\ phase'[t] = "revoke"
        /\ \A u \in Requests \ {t} : /\ op'[u] = op[u] /\ token'[u] = token[u] /\ phase'[u] = phase[u]
                                     /\ want'[u] = want[u] /\ held'[u] = held[u]
      BY <1>1, <1>7 DEF Sweep, BeginRevoke, TypeOK
  <2> QED
      BY <1>2, <2>1, Unlocking
<1>8. ASSUME NEW t \in Requests, Accept(t) \/ RevokeLocked(t)
      PROVE  OrderInv'
  <2>1. /\ rows' = rows /\ phase'[t] \in {"exchange", "revoke"}
        /\ \A u \in Requests \ {t} : /\ op'[u] = op[u] /\ token'[u] = token[u] /\ phase'[u] = phase[u]
                                     /\ want'[u] = want[u] /\ held'[u] = held[u]
      BY <1>1, <1>8 DEF Accept, RevokeLocked, BeginRevoke, TypeOK
  <2> QED
      BY <1>2, <2>1, Unlocking
<1>9. ASSUME NEW t \in Requests, Refuse(t) \/ DeadlockVictim(t) \/ Abort(t)
      PROVE  OrderInv'
  <2>1. rows' = rows /\ End(t)
      BY <1>9 DEF Refuse, DeadlockVictim, Abort
  <2> QED
      BY <1>2, <1>3, <2>1
<1>10. ASSUME NEW t \in Requests, Exchange(t) PROVE OrderInv'
  <2>1. /\ End(t) /\ RanksDiffer'
        /\ \A f \in Families : FamilyRows(f) \subseteq FamilyRows(f)'
        /\ \A r \in Existing : Row(r)'.rank = Row(r).rank
      BY <1>10, ExchangeKeepsRanks DEF Exchange
  <2>2. \A u \in Requests \ {t} : Ordered(u)'
      BY <1>3, <2>1, WaitersOrdered
  <2> QED
      BY <1>3, <2>1, <2>2 DEF OrderInv
<1>11. ASSUME NEW t \in Requests, Revoke(t) PROVE OrderInv'
  <2>1. /\ End(t) /\ RanksDiffer'
        /\ \A f \in Families : FamilyRows(f) \subseteq FamilyRows(f)'
        /\ \A r \in Existing : Row(r)'.rank = Row(r).rank
      BY <1>11, RevokeKeepsRanks DEF Revoke
  <2>2. \A u \in Requests \ {t} : Ordered(u)'
      BY <1>3, <2>1, WaitersOrdered
  <2> QED
      BY <1>3, <2>1, <2>2 DEF OrderInv
<1>12. ASSUME NEW f \in Families, StartFamily(f) PROVE OrderInv'
  <2>1. /\ UNCHANGED requests /\ RanksDiffer'
        /\ \A h \in Families : FamilyRows(h) \subseteq FamilyRows(h)'
        /\ \A r \in Existing : Row(r)'.rank = Row(r).rank
      BY <1>12, StartKeepsRanks DEF StartFamily
  <2>2. \A u \in Requests : Ordered(u)'
      BY <2>1, WaitersOrdered DEF requests
  <2> QED
      BY <2>1, <2>2 DEF OrderInv
<1>13. CASE UNCHANGED <<rows, requests>>
  <2>1. \A u \in Requests : Ordered(u)'
      BY <1>13, ReadersOrdered, WaitersOrdered DEF requests
  <2> QED
      BY <1>13, <2>1, ReadersOrdered DEF OrderInv
<1>14. ASSUME NEW f \in Families, Expire(f) PROVE UNCHANGED <<rows, requests>>
    BY <1>14 DEF Expire
<1>15. CASE Next
    BY <1>4, <1>5, <1>6, <1>7, <1>8, <1>9, <1>10, <1>11, <1>12, <1>13, <1>14, <1>15 DEF Next, Advance
<1> QED
    BY <1>13, <1>15 DEF vars

LEMMA OrderInvariant == Spec => []OrderInv
<1>1. Init => OrderInv
    BY DEF Init, OrderInv, RanksDiffer, Ordered
<1>2. SessionInv /\ OrderInv /\ [Next]_vars => OrderInv'
    BY OrderStep
<1> QED
    BY <1>1, <1>2, SessionInvariant, PTL DEF Spec

\* The row each of two lockers waits for would have to rank before the other.
LEMMA LocksDoNotCross ==
    ASSUME SessionInv, OrderInv
    PROVE  StableOrder
<1> SUFFICES ASSUME NEW t \in Requests, NEW u \in Requests,
                    phase[t] = "lock", phase[u] = "lock", WaitsFor(t, u), WaitsFor(u, t)
             PROVE  FALSE
    BY DEF StableOrder
<1>1. /\ TypeOK /\ Chain /\ RanksDiffer /\ Ordered(t) /\ Ordered(u)
      /\ want[t] \subseteq Existing /\ want[u] \subseteq Existing
    BY DEF SessionInv, OrderInv, LocksInv
<1>2. PICK r \in InOrder(t) : r \in held[u]
    BY DEF WaitsFor
<1>3. PICK q \in InOrder(u) : q \in held[t]
    BY DEF WaitsFor
<1>4. r \in want[t] /\ r \notin held[t] /\ q \in want[u] /\ q \notin held[u]
    BY <1>2, <1>3 DEF InOrder, Missing
<1>5. /\ want[t] \subseteq FamilyRows(Family(t)) /\ q \in want[t]
      /\ want[u] \subseteq FamilyRows(Family(u)) /\ r \in want[u]
    BY <1>1, <1>2, <1>3 DEF Ordered
<1>6. Row(q).rank <= Row(r).rank /\ Row(r).rank <= Row(q).rank
    BY <1>1, <1>2, <1>3, <1>4 DEF Ordered, Missing
<1> DEFINE f == Family(t)
<1>7. /\ r = <<f, r[2]>> /\ q = <<f, q[2]>>
      /\ r[2] \in DOMAIN rows[f] /\ q[2] \in DOMAIN rows[f]
    BY <1>4, <1>5 DEF FamilyRows
<1>8. f \in Families
  <2>1. op[t] \in {"rotate", "logout"}
      BY <1>1 DEF SessionInv, TypeOK, LocksInv, Ops
  <2> QED
      BY <1>1, <2>1 DEF TypeOK, RowIds, Family
<1>9. rows[f][r[2]] \in AuthSessions /\ rows[f][q[2]] \in AuthSessions
    BY <1>1, <1>7, <1>8, FamilySequence
<1>10. rows[f][r[2]].rank \in Int /\ rows[f][q[2]].rank \in Int
    BY <1>9, SessionAssumption DEF AuthSessions, Ranks
<1>11. rows[f][r[2]].rank = rows[f][q[2]].rank
  <2>1. Row(r) = rows[f][r[2]] /\ Row(q) = rows[f][q[2]]
      BY <1>7 DEF Row
  <2> QED
      BY <1>6, <1>10, <2>1
<1>12. r[2] = q[2]
    BY <1>1, <1>7, <1>8, <1>11 DEF RanksDiffer
<1> QED
    BY <1>3, <1>4, <1>7, <1>12

\* The one row of a family that is not consumed is its tip.
LEMMA TipIsTheLast ==
    ASSUME SessionInv, NEW f \in Families, rows[f] # <<>>
    PROVE  /\ Len(rows[f]) \in DOMAIN rows[f]
           /\ Tip(f) = Len(rows[f])
           /\ \A g \in DOMAIN rows[f] : ~rows[f][g].consumed <=> g = Len(rows[f])
<1>1. /\ rows[f] \in Seq(AuthSessions) /\ Len(rows[f]) \in Nat
      /\ DOMAIN rows[f] = 1 .. Len(rows[f])
    BY FamilySequence DEF SessionInv
<1>2. Len(rows[f]) \in DOMAIN rows[f]
    BY <1>1
<1>3. \A g \in DOMAIN rows[f] : ~rows[f][g].consumed <=> g = Len(rows[f])
    BY <1>1 DEF SessionInv, Chain
<1>4. \A h \in 1 .. Len(rows[f]) - 1 : rows[f][h].consumed
  <2>1. \A h \in 1 .. Len(rows[f]) - 1 : h \in DOMAIN rows[f] /\ h # Len(rows[f])
      BY <1>1
  <2> QED
      BY <1>3, <2>1
<1>5. Tip(f) = Len(rows[f])
  <2> DEFINE P(g) == ~rows[f][g].consumed /\ \A h \in 1 .. g - 1 : rows[f][h].consumed
  <2>1. P(Len(rows[f]))
      BY <1>2, <1>3, <1>4
  <2>2. \A g \in DOMAIN rows[f] : P(g) => g = Len(rows[f])
      BY <1>3
  <2>3. Tip(f) = CHOOSE g \in DOMAIN rows[f] : P(g)
      BY DEF Tip
  <2> HIDE DEF P
  <2> QED
      BY <1>2, <2>1, <2>2, <2>3
<1> QED
    BY <1>2, <1>3, <1>5

\* The list of devices offers what a refresh would accept.
LEMMA ListIsHonest ==
    ASSUME SessionInv
    PROVE  ListMirrorsUse
<1> SUFFICES ASSUME NEW f \in Families \ expired
             PROVE  f \in Listed <=> \E r \in LiveRows(f) : ~Row(r).consumed
    BY DEF ListMirrorsUse
<1>1. CASE rows[f] = <<>>
  <2>1. DOMAIN rows[f] = {}
      BY <1>1
  <2> QED
      BY <1>1, <2>1 DEF Listed, LiveRows, FamilyRows
<1>2. CASE rows[f] # <<>>
  <2>1. /\ Len(rows[f]) \in DOMAIN rows[f]
        /\ Tip(f) = Len(rows[f])
        /\ \A g \in DOMAIN rows[f] : ~rows[f][g].consumed <=> g = Len(rows[f])
      BY <1>2, TipIsTheLast
  <2>2. f \in Listed <=> ~rows[f][Len(rows[f])].revoked
      BY <1>2, <2>1 DEF Listed
  <2>3. ASSUME ~rows[f][Len(rows[f])].revoked
        PROVE  \E r \in LiveRows(f) : ~Row(r).consumed
    <3>1. <<f, Len(rows[f])>> \in LiveRows(f)
        BY <2>1, <2>3 DEF LiveRows, FamilyRows, Row
    <3> QED
        BY <2>1, <3>1 DEF Row
  <2>4. ASSUME NEW r \in LiveRows(f), ~Row(r).consumed
        PROVE  ~rows[f][Len(rows[f])].revoked
    <3>1. r[1] = f /\ r[2] \in DOMAIN rows[f] /\ ~Row(r).revoked /\ Row(r) = rows[f][r[2]]
        BY DEF LiveRows, FamilyRows, Row
    <3> QED
        BY <2>1, <2>4, <3>1
  <2> QED
      BY <2>2, <2>3, <2>4
<1> QED
    BY <1>1, <1>2

\* Two requests that lock a family never wait for each other, and a device is
\* listed exactly if it could still be refreshed (services/auth_sessions.py
\* _lock_refresh_family and list_active_sessions_for_user).
THEOREM DevicesAreServed == Spec => []DevicesServed
<1>1. SessionInv /\ OrderInv => DevicesServed
    BY LocksDoNotCross, ListIsHonest DEF DevicesServed
<1> QED
    BY <1>1, SessionInvariant, OrderInvariant, PTL
=============================================================================
