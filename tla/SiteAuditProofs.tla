-------------------------- MODULE SiteAuditProofs --------------------------
(***************************************************************************)
(* Proofs about the tracked projects and their crawls, for any members,    *)
(* domains, requests, workers and URLs: AuditInv is inductive, and with it *)
(* a domain is tracked once, a project is crawled by one worker at a time, *)
(* and an ended audit stays as it ended, lapsed claims apart.  CrawlInv    *)
(* adds what a worker remembers of its crawl, and with it the counters and *)
(* the health of a finished audit are those of its rows.                   *)
(***************************************************************************)
EXTENDS SiteAudits, FiniteSetTheorems, TLAPS

ProjectRows == [user : Users, domain : Domains]

\* The part of TypeOK the rest needs: the rows of the customer, what a request
\* to create one asks for, and the fields of audits and workers written below.
ShapeInv ==
    /\ projects \in [ProjectIds -> ProjectRows \cup {None}]
    /\ mirrors \in [ProjectIds -> Domains \cup {None}]
    /\ tracked \in 0 .. MaxProjects
    /\ queued \in 0 .. MaxAudits
    /\ DOMAIN req = Requests
    /\ \A r \in Requests :
          req[r].pc = "create" => req[r].user \in Users /\ req[r].domain \in Domains
    /\ DOMAIN audits = AuditIds
    /\ \A a \in Existing : {"project", "status", "fresh"} \subseteq DOMAIN audits[a]
    /\ DOMAIN worker = Workers
    /\ \A w \in Workers :
          /\ {"pc", "audit"} \subseteq DOMAIN worker[w]
          /\ worker[w].pc # "idle" => worker[w].audit \in AuditIds

\* A mirror is the domain of its project, and no two projects share one.
ProjectsInv ==
    /\ \A p \in Tracked : p <= tracked /\ mirrors[p] = projects[p].domain
    /\ \A p \in ProjectIds \ Tracked : mirrors[p] = None
    /\ \A p, q \in Tracked : p # q => projects[p].domain # projects[q].domain

\* A project has at most one audit that waits or runs.
QueueInv ==
    /\ \A a \in Existing : a <= queued /\ audits[a].project \in Tracked
    /\ \A a, b \in Existing :
          /\ audits[a].status \in ActiveStatuses /\ audits[b].status \in ActiveStatuses
          /\ audits[a].project = audits[b].project
          => a = b

\* A worker holds a live claim on its audit, alone, until the claim lapses.
ClaimsInv ==
    /\ \A w \in Workers : worker[w].pc # "idle" => worker[w].audit <= queued
    /\ \A w \in Workers : \A a \in Existing \ lapsed :
          Crawling(w, a) =>
              /\ audits[a].status = "running" /\ audits[a].fresh
              /\ \A v \in Workers : Crawling(v, a) => v = w

AuditInv == ShapeInv /\ ProjectsInv /\ QueueInv /\ ClaimsInv

LEMMA Bounds == MaxProjects \in Nat /\ MaxAudits \in Nat
                /\ None \notin Domains /\ None \notin ProjectRows
    BY AuditAssumption DEF ProjectRows

LEMMA InitInvariant == Init => AuditInv
    BY Bounds DEF Init, AuditInv, ShapeInv, ProjectsInv, QueueInv, ClaimsInv, Tracked, Existing,
                  Crawling, NoRequest, Off

-----------------------------------------------------------------------------
\* The parts that a step which leaves their variables alone keeps.

LEMMA ProjectsKept ==
    ASSUME ProjectsInv, UNCHANGED <<projects, mirrors, tracked>>
    PROVE  ProjectsInv' /\ Tracked' = Tracked
    BY DEF ProjectsInv, Tracked

\* What a worker, the clock or nobody writes of an audit: not its project, and
\* no status that makes an ended audit active.
Rewritten(a) ==
    /\ DOMAIN audits' = DOMAIN audits
    /\ \A b \in AuditIds \ {a} : audits'[b] = audits[b]
    /\ audits'[a] # None =>
          /\ audits[a] # None
          /\ {"project", "status", "fresh"} \subseteq DOMAIN audits'[a]
          /\ audits'[a].project = audits[a].project
          /\ audits'[a].status \in ActiveStatuses => audits[a].status \in ActiveStatuses

LEMMA QueueKept ==
    ASSUME QueueInv, NEW a \in AuditIds, Rewritten(a), UNCHANGED <<projects, queued>>
    PROVE  QueueInv'
    BY DEF QueueInv, Rewritten, Existing, Tracked

\* A worker that goes on, or lets go of its audit.
Stepped(w) ==
    /\ DOMAIN worker' = DOMAIN worker
    /\ \A v \in Workers \ {w} : worker'[v] = worker[v]
    /\ {"pc", "audit"} \subseteq DOMAIN worker'[w]
    /\ worker'[w].pc # "idle" => worker[w].pc # "idle" /\ worker'[w].audit = worker[w].audit

\* A worker writes its own audit: alive the audit stays claimed, and only a worker
\* that lets go of it may end it.
LEMMA WorkStep ==
    ASSUME AuditInv, NEW w \in Workers, worker[w].pc # "idle", Stepped(w),
           Rewritten(worker[w].audit),
           UNCHANGED <<projects, mirrors, req, history>>,
           worker'[w].pc # "idle" /\ audits'[worker[w].audit] # None =>
                 /\ audits'[worker[w].audit].status = audits[worker[w].audit].status
                 /\ audits'[worker[w].audit].fresh = (audits[worker[w].audit].status = "running")
    PROVE  AuditInv'
<1> DEFINE a == worker[w].audit
<1> USE DEF AuditInv, history
<1>0. a \in AuditIds
    BY DEF ShapeInv
<1>1. ShapeInv'
    BY <1>0 DEF ShapeInv, Stepped, Rewritten, Existing
<1>2. ProjectsInv'
    BY ProjectsKept
<1>3. QueueInv'
    BY <1>0, QueueKept
<1>4. ClaimsInv'
  <2>1. ASSUME NEW v \in Workers, worker'[v].pc # "idle"
        PROVE  worker'[v].audit <= queued'
    BY <2>1 DEF Stepped, ClaimsInv
  <2>2. ASSUME NEW v \in Workers, NEW b \in Existing' \ lapsed', Crawling(v, b)'
        PROVE  Crawling(v, b) /\ b \in Existing \ lapsed
    BY <1>0, <2>2 DEF Stepped, Rewritten, Crawling, Existing
  <2>3. ASSUME NEW v \in Workers, NEW b \in Existing' \ lapsed', Crawling(v, b)'
        PROVE  /\ audits'[b].status = "running" /\ audits'[b].fresh
               /\ \A u \in Workers : Crawling(u, b)' => u = v
    <3>1. audits[b].status = "running" /\ audits[b].fresh
          /\ \A u \in Workers : Crawling(u, b) => u = v
        BY <2>2, <2>3 DEF ClaimsInv
    <3>2. \A u \in Workers : Crawling(u, b)' => u = v
        BY <2>2, <2>3, <3>1
    <3>3. CASE b # a
        BY <2>2, <3>1, <3>2, <3>3, <1>0 DEF Rewritten, Existing
    <3>4. CASE b = a
      <4>1. v = w
        BY <3>1, <3>4 DEF Crawling
      <4> QED
        BY <2>3, <3>1, <3>2, <3>4, <4>1 DEF Crawling, Existing
    <3> QED
        BY <3>3, <3>4
  <2> QED
    BY <2>1, <2>3 DEF ClaimsInv
<1> QED
    BY <1>1, <1>2, <1>3, <1>4

-----------------------------------------------------------------------------
\* Requests.

\* A request that is remembered or forgotten, and nothing else.
LEMMA RequestStep ==
    ASSUME AuditInv, NEW r \in Requests, UNCHANGED <<dbVars, worker, history>>,
           \/ End(r)
           \/ \E u \in Users, d \in Domains : CreateProject(r, u, d)
           \/ \E p \in ProjectIds : RequestAudit(r, p)
    PROVE  AuditInv'
<1> USE DEF AuditInv, dbVars, history
<1>1. ShapeInv'
  <2>1. CASE End(r)
    BY <2>1 DEF ShapeInv, End, NoRequest, Existing
  <2>2. ASSUME NEW u \in Users, NEW d \in Domains, CreateProject(r, u, d)
        PROVE  ShapeInv'
    BY <2>2 DEF ShapeInv, CreateProject, NoRequest, Existing
  <2>3. ASSUME NEW p \in ProjectIds, RequestAudit(r, p)
        PROVE  ShapeInv'
    <3>1. [NoRequest EXCEPT !.pc = "queue", !.project = p].pc # "create"
      BY DEF NoRequest
    <3>2. \A q \in Requests : req'[q].pc = "create" => req'[q] = req[q]
      BY <2>3, <3>1 DEF RequestAudit, ShapeInv
    <3>3. DOMAIN req' = Requests
      BY <2>3 DEF RequestAudit, ShapeInv
    <3> QED
      BY <3>2, <3>3 DEF ShapeInv, Existing
  <2> QED
    BY <2>1, <2>2, <2>3
<1>2. ProjectsInv' /\ QueueInv' /\ ClaimsInv'
    BY DEF ProjectsInv, QueueInv, ClaimsInv, Tracked, Existing, Crawling
<1> QED
    BY <1>1, <1>2

\* One more audit, of a tracked project that has none active.
LEMMA QueuedStep ==
    ASSUME QueueInv, ShapeInv, ClaimsInv, NEW p \in ProjectIds, p \in Tracked', ActiveOf(p) = {},
           Tracked \subseteq Tracked', queued < MaxAudits,
           audits' = [audits EXCEPT ![queued + 1] = Queued(p)], queued' = queued + 1,
           UNCHANGED <<worker, lapsed>>
    PROVE  /\ QueueInv' /\ ClaimsInv'
           /\ DOMAIN audits' = AuditIds
           /\ \A a \in Existing' : {"project", "status", "fresh"} \subseteq DOMAIN audits'[a]
           /\ queued' \in 0 .. MaxAudits
<1>1. /\ queued \in Nat /\ queued + 1 \in AuditIds /\ DOMAIN audits = AuditIds
      /\ queued' \in 0 .. MaxAudits
    BY Bounds DEF ShapeInv, AuditIds
<1>2. /\ audits'[queued + 1] = Queued(p) /\ DOMAIN audits' = AuditIds
      /\ \A a \in AuditIds \ {queued + 1} : audits'[a] = audits[a]
    BY <1>1
<1>3. queued + 1 \notin Existing
    BY <1>1 DEF QueueInv, Existing, AuditIds
<1>4. Existing' \subseteq Existing \cup {queued + 1}
    BY <1>2 DEF Existing
<1>5. \A a \in Existing : a <= queued /\ a # queued + 1 /\ audits'[a] = audits[a]
    BY <1>1, <1>2, <1>3 DEF QueueInv, Existing
<1>6. Queued(p).project = p /\ {"project", "status", "fresh"} \subseteq DOMAIN Queued(p)
    BY DEF Queued
<1>7. \A a \in Existing : audits[a].status \in ActiveStatuses => audits[a].project # p
    BY DEF ActiveOf
<1>8. QueueInv'
  <2>1. ASSUME NEW a \in Existing' PROVE a <= queued' /\ audits'[a].project \in Tracked'
    BY <1>1, <1>2, <1>4, <1>5, <1>6, <2>1 DEF QueueInv, AuditIds, Existing
  <2>2. ASSUME NEW a \in Existing', NEW b \in Existing',
               audits'[a].status \in ActiveStatuses, audits'[b].status \in ActiveStatuses,
               audits'[a].project = audits'[b].project
        PROVE  a = b
    BY <1>2, <1>4, <1>5, <1>6, <1>7, <2>2 DEF QueueInv
  <2> QED
    BY <2>1, <2>2 DEF QueueInv
<1>9. ClaimsInv'
  <2>1. \A w \in Workers : ~Crawling(w, queued + 1)
    BY <1>1 DEF ClaimsInv, ShapeInv, Crawling, AuditIds
  <2> QED
    BY <1>1, <1>4, <1>5, <2>1 DEF ClaimsInv, Crawling, ShapeInv, AuditIds
<1> QED
    BY <1>1, <1>2, <1>4, <1>5, <1>6, <1>8, <1>9 DEF ShapeInv

LEMMA CommitAuditStep ==
    ASSUME AuditInv, NEW r \in Requests, CommitAudit(r)
    PROVE  AuditInv'
<1> DEFINE p == req[r].project
<1>1. CASE UNCHANGED <<audits, queued>>
    BY <1>1, RequestStep DEF CommitAudit, dbVars, history
<1>2. CASE MayQueue(p) /\ queued < MaxAudits /\ audits' = [audits EXCEPT ![queued + 1] = Queued(p)]
           /\ queued' = queued + 1
  <2>1. ProjectsInv' /\ Tracked' = Tracked
    BY ProjectsKept DEF AuditInv, CommitAudit
  <2>2. /\ QueueInv' /\ ClaimsInv' /\ DOMAIN audits' = AuditIds
        /\ \A a \in Existing' : {"project", "status", "fresh"} \subseteq DOMAIN audits'[a]
        /\ queued' \in 0 .. MaxAudits
    BY <1>2, <2>1, QueuedStep DEF AuditInv, CommitAudit, MayQueue, Tracked
  <2>3. ShapeInv'
    BY <2>2 DEF AuditInv, ShapeInv, CommitAudit, End, NoRequest
  <2> QED
    BY <2>1, <2>2, <2>3 DEF AuditInv
<1> QED
    BY <1>1, <1>2 DEF CommitAudit

\* A project nobody of the organization tracks yet.
LEMMA TrackedStep ==
    ASSUME ShapeInv, ProjectsInv, QueueInv, NEW r \in Requests, req[r].pc = "create", ~Taken(r),
           tracked < MaxProjects,
           projects' = [projects EXCEPT ![tracked + 1] =
                           [user |-> req[r].user, domain |-> req[r].domain]],
           mirrors' = [mirrors EXCEPT ![tracked + 1] = req[r].domain],
           tracked' = tracked + 1
    PROVE  /\ ProjectsInv' /\ tracked + 1 \in ProjectIds
           /\ Tracked' = Tracked \cup {tracked + 1} /\ ActiveOf(tracked + 1) = {}
           /\ projects' \in [ProjectIds -> ProjectRows \cup {None}]
           /\ mirrors' \in [ProjectIds -> Domains \cup {None}]
           /\ tracked' \in 0 .. MaxProjects
<1> DEFINE n == tracked + 1
           row == [user |-> req[r].user, domain |-> req[r].domain]
<1>1. n \in ProjectIds /\ tracked \in Nat /\ tracked' \in 0 .. MaxProjects
    BY Bounds DEF ShapeInv, ProjectIds
<1>2. row \in ProjectRows /\ row # None /\ row.domain = req[r].domain
      /\ req[r].domain \in Domains /\ req[r].domain # None
    BY Bounds DEF ShapeInv, ProjectRows
<1>3. /\ projects' \in [ProjectIds -> ProjectRows \cup {None}]
      /\ mirrors' \in [ProjectIds -> Domains \cup {None}]
    BY <1>1, <1>2 DEF ShapeInv
<1>4. /\ projects'[n] = row /\ mirrors'[n] = req[r].domain
      /\ \A p \in ProjectIds \ {n} : projects'[p] = projects[p] /\ mirrors'[p] = mirrors[p]
    BY <1>1 DEF ShapeInv
<1>5. n \notin Tracked
    BY <1>1 DEF ProjectsInv, Tracked, ProjectIds
<1>6. Tracked' = Tracked \cup {n}
    BY <1>1, <1>2, <1>4, <1>5 DEF Tracked
<1>7. ActiveOf(n) = {}
    BY <1>5 DEF ActiveOf, QueueInv
<1>8. \A p \in Tracked : p \in ProjectIds \ {n} /\ projects[p].domain # req[r].domain
    BY <1>5 DEF ProjectsInv, Taken, Tracked
<1>9. ProjectsInv'
  <2>1. \A p \in Tracked' : p <= tracked' /\ mirrors'[p] = projects'[p].domain
    BY <1>1, <1>2, <1>4, <1>6, <1>8 DEF ProjectsInv, ProjectIds
  <2>2. \A p \in ProjectIds \ Tracked' : mirrors'[p] = None
    BY <1>4, <1>6 DEF ProjectsInv
  <2>3. \A p, q \in Tracked' : p # q => projects'[p].domain # projects'[q].domain
    BY <1>2, <1>4, <1>6, <1>8 DEF ProjectsInv
  <2> QED
    BY <2>1, <2>2, <2>3 DEF ProjectsInv
<1> QED
    BY <1>1, <1>3, <1>6, <1>7, <1>9

LEMMA CommitCreateStep ==
    ASSUME AuditInv, NEW r \in Requests, CommitCreate(r)
    PROVE  AuditInv'
<1>1. CASE UNCHANGED <<projects, mirrors, audits, tracked, queued>>
    BY <1>1, RequestStep DEF CommitCreate, dbVars, history
<1>2. CASE /\ ~Taken(r) /\ tracked < MaxProjects
           /\ projects' = [projects EXCEPT ![tracked + 1] =
                              [user |-> req[r].user, domain |-> req[r].domain]]
           /\ mirrors' = [mirrors EXCEPT ![tracked + 1] = req[r].domain]
           /\ tracked' = tracked + 1
           /\ \/ UNCHANGED <<audits, queued>>
              \/ /\ queued < MaxAudits
                 /\ audits' = [audits EXCEPT ![queued + 1] = Queued(tracked + 1)]
                 /\ queued' = queued + 1
  <2>1. /\ ProjectsInv' /\ tracked + 1 \in ProjectIds
        /\ Tracked' = Tracked \cup {tracked + 1} /\ ActiveOf(tracked + 1) = {}
        /\ projects' \in [ProjectIds -> ProjectRows \cup {None}]
        /\ mirrors' \in [ProjectIds -> Domains \cup {None}]
        /\ tracked' \in 0 .. MaxProjects
    BY <1>2, TrackedStep DEF AuditInv, CommitCreate
  <2>2. UNCHANGED <<worker, lapsed>> /\ End(r)
    BY DEF CommitCreate
  <2>3. /\ QueueInv' /\ ClaimsInv' /\ DOMAIN audits' = AuditIds
        /\ \A a \in Existing' : {"project", "status", "fresh"} \subseteq DOMAIN audits'[a]
        /\ queued' \in 0 .. MaxAudits
    <3>1. CASE UNCHANGED <<audits, queued>>
      BY <2>1, <2>2, <3>1 DEF AuditInv, ShapeInv, QueueInv, ClaimsInv, Existing, Crawling
    <3>2. CASE ~UNCHANGED <<audits, queued>>
      BY <1>2, <2>1, <2>2, <3>2, QueuedStep DEF AuditInv
    <3> QED
      BY <3>1, <3>2
  <2>4. ShapeInv'
    BY <2>1, <2>2, <2>3 DEF AuditInv, ShapeInv, End, NoRequest
  <2> QED
    BY <2>1, <2>3, <2>4 DEF AuditInv
<1> QED
    BY <1>1, <1>2 DEF CommitCreate

\* A project goes with its mirror and its audits.
LEMMA DeleteStep ==
    ASSUME AuditInv, NEW p \in ProjectIds, DeleteProject(p)
    PROVE  AuditInv'
<1> USE DEF AuditInv
<1>1. /\ projects'[p] = None /\ mirrors'[p] = None
      /\ \A q \in ProjectIds \ {p} : projects'[q] = projects[q] /\ mirrors'[q] = mirrors[q]
    BY DEF DeleteProject, MirrorRemoved, ShapeInv
<1>2. Tracked' = Tracked \ {p}
    BY <1>1 DEF Tracked
<1>3. /\ Existing' = {a \in Existing : audits[a].project # p}
      /\ \A a \in Existing' : audits'[a] = audits[a]
    BY DEF DeleteProject, Existing
<1>4. Existing' \ lapsed' \subseteq Existing \ lapsed
    BY <1>3 DEF DeleteProject, Existing
<1>5. ShapeInv'
    BY <1>3 DEF ShapeInv, DeleteProject, MirrorRemoved
<1>6. ProjectsInv'
    BY <1>1, <1>2 DEF ProjectsInv, DeleteProject, Tracked
<1>7. QueueInv'
    BY <1>2, <1>3 DEF QueueInv, DeleteProject
<1>8. ClaimsInv'
  <2>1. UNCHANGED <<worker, queued>>
    BY DEF DeleteProject
  <2>2. \A b \in Existing' \ lapsed' : b \in Existing \ lapsed /\ audits'[b] = audits[b]
    BY <1>3, <1>4
  <2> QED
    BY <2>1, <2>2 DEF ClaimsInv, Crawling
<1> QED
    BY <1>5, <1>6, <1>7, <1>8

-----------------------------------------------------------------------------
\* Workers and the clock.

\* An audit that waits, or whose claim ran out, is in no worker's hands unless it
\* lapsed in them: claiming it makes the one holder of it.
LEMMA ClaimStep ==
    ASSUME AuditInv, NEW w \in Workers, Claim(w)
    PROVE  AuditInv'
<1> USE DEF AuditInv
<1>1. PICK a \in AuditIds :
          /\ Claimable(a)
          /\ \/ /\ audits' = [audits EXCEPT ![a].attempts = @ + 1, ![a].status = "failed"]
                /\ UNCHANGED worker
             \/ /\ audits' = [audits EXCEPT ![a].attempts = @ + 1, ![a].status = "running",
                                            ![a].fresh = TRUE]
                /\ worker' = [worker EXCEPT ![w] = [Off EXCEPT
                                 !.pc = "start", !.audit = a, !.copy = audits[a].totals]]
    BY DEF Claim
<1>2. UNCHANGED <<projects, mirrors, req, history>> /\ UNCHANGED <<tracked, queued, lapsed>>
    BY DEF Claim, history
<1>3. a \in Existing /\ a <= queued /\ audits[a].status \in ActiveStatuses
    BY <1>1 DEF Claimable, ActiveStatuses, QueueInv
<1>4. a \notin lapsed => \A v \in Workers : ~Crawling(v, a)
    BY <1>1, <1>3 DEF Claimable, ClaimsInv
<1>5. /\ DOMAIN audits' = AuditIds
      /\ \A b \in AuditIds \ {a} : audits'[b] = audits[b]
      /\ {"project", "status", "fresh"} \subseteq DOMAIN audits'[a]
      /\ audits'[a].project = audits[a].project
    BY <1>1, <1>3 DEF ShapeInv
<1>6. Existing' \subseteq Existing
    BY <1>3, <1>5 DEF Existing
<1>7. QueueInv'
    BY <1>2, <1>3, <1>5, QueueKept DEF Rewritten, ShapeInv, Existing
<1>8. ProjectsInv'
    BY <1>2, ProjectsKept
<1>9. CASE UNCHANGED worker
  <2>1. ShapeInv'
    BY <1>2, <1>5, <1>6, <1>9 DEF ShapeInv, Existing
  <2>2. ClaimsInv'
    BY <1>2, <1>4, <1>5, <1>6, <1>9 DEF ClaimsInv, Crawling, Existing
  <2> QED
    BY <1>7, <1>8, <2>1, <2>2
<1>10. CASE worker' = [worker EXCEPT ![w] = [Off EXCEPT
                          !.pc = "start", !.audit = a, !.copy = audits[a].totals]]
            /\ audits' = [audits EXCEPT ![a].attempts = @ + 1, ![a].status = "running",
                                       ![a].fresh = TRUE]
  <2>1. /\ DOMAIN worker' = Workers /\ {"pc", "audit"} \subseteq DOMAIN worker'[w]
        /\ worker'[w].audit = a
        /\ \A v \in Workers \ {w} : worker'[v] = worker[v]
    BY <1>10 DEF ShapeInv, Off
  <2>2. audits'[a].status = "running" /\ audits'[a].fresh
    BY <1>3, <1>10 DEF ShapeInv
  <2>3. ShapeInv'
    BY <1>2, <1>5, <1>6, <2>1 DEF ShapeInv, Existing
  <2>4. ClaimsInv'
    <3>1. \A v \in Workers : worker'[v].pc # "idle" => worker'[v].audit <= queued'
      BY <1>2, <1>3, <2>1 DEF ClaimsInv
    <3>2. ASSUME NEW v \in Workers, NEW b \in Existing' \ lapsed', Crawling(v, b)'
          PROVE  /\ audits'[b].status = "running" /\ audits'[b].fresh
                 /\ \A u \in Workers : Crawling(u, b)' => u = v
      <4>1. CASE b = a
        BY <1>2, <1>4, <2>1, <2>2, <3>2, <4>1 DEF Crawling
      <4>2. CASE b # a
        BY <1>2, <1>5, <1>6, <2>1, <3>2, <4>2 DEF ClaimsInv, Crawling, Existing
      <4> QED
        BY <4>1, <4>2
    <3> QED
      BY <3>1, <3>2 DEF ClaimsInv
  <2> QED
    BY <1>7, <1>8, <2>3, <2>4
<1> QED
    BY <1>1, <1>9, <1>10

\* The ends of an attempt: an exception, whether the audit is still there or not,
\* and the death of the process.
LEMMA FailStep ==
    ASSUME AuditInv, NEW w \in Workers, worker[w].pc # "idle", FailAudit(w) \/ Crash(w),
           UNCHANGED <<projects, mirrors, req, history>>
    PROVE  AuditInv'
<1> DEFINE a == worker[w].audit
<1>1. a \in AuditIds
    BY DEF AuditInv, ShapeInv
<1>2. worker' = [worker EXCEPT ![w] = Off]
    BY DEF FailAudit, Crash
<1>3. worker'[w].pc = "idle" /\ Stepped(w)
    BY <1>2 DEF Off, Stepped, AuditInv, ShapeInv
<1>4. CASE audits' = audits
  <2>1. Rewritten(a)
    BY <1>1, <1>4 DEF Rewritten, AuditInv, ShapeInv, Existing
  <2> QED
    BY <1>3, <2>1, WorkStep
<1>5. CASE a \in Existing /\ audits' = [audits EXCEPT ![a].status = "failed", ![a].fresh = FALSE]
  <2>1. /\ audits'[a].project = audits[a].project /\ audits'[a].status = "failed"
        /\ {"project", "status", "fresh"} \subseteq DOMAIN audits'[a]
        /\ DOMAIN audits' = DOMAIN audits
        /\ \A b \in AuditIds \ {a} : audits'[b] = audits[b]
    BY <1>1, <1>5 DEF AuditInv, ShapeInv
  <2>2. Rewritten(a)
    BY <1>5, <2>1 DEF Rewritten, Existing, ActiveStatuses
  <2> QED
    BY <1>3, <2>2, WorkStep
<1> QED
    BY <1>4, <1>5 DEF FailAudit, Crash, dbVars

LEMMA StartStep ==
    ASSUME AuditInv, NEW w \in Workers, StartCrawl(w)
    PROVE  AuditInv'
<1> DEFINE a == worker[w].audit
<1>1. worker[w].pc # "idle" /\ a \in AuditIds /\ a \in Existing
    BY DEF StartCrawl, AuditInv, ShapeInv
<1>2. Stepped(w)
    BY <1>1 DEF StartCrawl, Stepped, AuditInv, ShapeInv
<1>3. /\ audits'[a].project = audits[a].project /\ audits'[a].status = audits[a].status
      /\ audits'[a].fresh = (audits[a].status = "running")
      /\ {"project", "status", "fresh"} \subseteq DOMAIN audits'[a]
      /\ DOMAIN audits' = DOMAIN audits
      /\ \A b \in AuditIds \ {a} : audits'[b] = audits[b]
    BY <1>1 DEF StartCrawl, Heartbeat, AuditInv, ShapeInv
<1>4. Rewritten(a)
    BY <1>1, <1>3 DEF Rewritten, Existing
<1> QED
    BY <1>1, <1>2, <1>3, <1>4, WorkStep DEF StartCrawl

LEMMA PageStep ==
    ASSUME AuditInv, NEW w \in Workers, NEW u \in Urls, NEW f \in Finals, CrawlPage(w, u, f)
    PROVE  AuditInv'
<1> DEFINE a == worker[w].audit
           row == RowOf[u][f]
           copy == worker[w].copy
<1>1. worker[w].pc # "idle" /\ a \in AuditIds
      /\ UNCHANGED <<projects, mirrors, req, history>>
    BY DEF CrawlPage, AuditInv, ShapeInv
<1>2. CASE FailAudit(w)
    BY <1>1, <1>2, FailStep
<1>3. CASE /\ a \in Existing
           /\ worker' = [worker EXCEPT ![w].todo = @ \ {u}]
           /\ audits' = [audits EXCEPT ![a].fresh = Heartbeat(a)]
  <2>1. Stepped(w)
    BY <1>1, <1>3 DEF Stepped, AuditInv, ShapeInv
  <2>2. /\ audits'[a].project = audits[a].project /\ audits'[a].status = audits[a].status
        /\ audits'[a].fresh = (audits[a].status = "running")
        /\ {"project", "status", "fresh"} \subseteq DOMAIN audits'[a]
        /\ DOMAIN audits' = DOMAIN audits
        /\ \A b \in AuditIds \ {a} : audits'[b] = audits[b]
    BY <1>1, <1>3 DEF Heartbeat, AuditInv, ShapeInv
  <2>3. Rewritten(a)
    BY <1>3, <2>2 DEF Rewritten, Existing
  <2> QED
    BY <1>1, <2>1, <2>2, <2>3, WorkStep
<1>4. CASE /\ a \in Existing
           /\ worker' = [worker EXCEPT ![w].todo = @ \ {u}, ![w].seen = @ \cup {f},
                            ![w].copy = Counted(copy, row), ![w].scores = Scored(@, row)]
           /\ audits' = [audits EXCEPT ![a].fresh = Heartbeat(a),
                            ![a].pages = @ \cup {[final |-> f, page |-> row]},
                            ![a].totals = Written(@, copy, Counted(copy, row))]
  <2>1. Stepped(w)
    BY <1>1, <1>4 DEF Stepped, AuditInv, ShapeInv
  <2>2. /\ audits'[a].project = audits[a].project /\ audits'[a].status = audits[a].status
        /\ audits'[a].fresh = (audits[a].status = "running")
        /\ {"project", "status", "fresh"} \subseteq DOMAIN audits'[a]
        /\ DOMAIN audits' = DOMAIN audits
        /\ \A b \in AuditIds \ {a} : audits'[b] = audits[b]
    BY <1>1, <1>4 DEF Heartbeat, AuditInv, ShapeInv
  <2>3. Rewritten(a)
    BY <1>4, <2>2 DEF Rewritten, Existing
  <2> QED
    BY <1>1, <2>1, <2>2, <2>3, WorkStep
<1> QED
    BY <1>2, <1>3, <1>4 DEF CrawlPage

LEMMA FinishStep ==
    ASSUME AuditInv, NEW w \in Workers, Finish(w)
    PROVE  AuditInv'
<1> DEFINE a == worker[w].audit
<1>1. worker[w].pc # "idle" /\ a \in AuditIds
      /\ UNCHANGED <<projects, mirrors, req, history>>
    BY DEF Finish, AuditInv, ShapeInv
<1>2. CASE a \notin Existing
    BY <1>1, <1>2, FailStep DEF Finish
<1>3. CASE a \in Existing
  <2>1. worker'[w].pc = "idle" /\ Stepped(w)
    BY <1>3 DEF Finish, Stepped, Off, AuditInv, ShapeInv
  <2>2. /\ audits'[a].project = audits[a].project /\ audits'[a].status = "done"
        /\ {"project", "status", "fresh"} \subseteq DOMAIN audits'[a]
        /\ DOMAIN audits' = DOMAIN audits
        /\ \A b \in AuditIds \ {a} : audits'[b] = audits[b]
    BY <1>1, <1>3 DEF Finish, AuditInv, ShapeInv
  <2>3. Rewritten(a)
    BY <1>3, <2>2 DEF Rewritten, Existing, ActiveStatuses
  <2> QED
    BY <1>1, <2>1, <2>3, WorkStep
<1> QED
    BY <1>2, <1>3

\* A claim that runs out under a live worker is remembered as lapsed.
LEMMA LapseStep ==
    ASSUME AuditInv, NEW a \in AuditIds, Lapse(a)
    PROVE  AuditInv'
<1> USE DEF AuditInv
<1>1. /\ a \in Existing /\ UNCHANGED <<projects, mirrors, req, worker, tracked, queued>>
      /\ lapsed \subseteq lapsed'
      /\ a \notin lapsed' => \A w \in Workers : ~Crawling(w, a)
    BY DEF Lapse
<1>2. /\ audits'[a].project = audits[a].project /\ audits'[a].status = audits[a].status
      /\ {"project", "status", "fresh"} \subseteq DOMAIN audits'[a]
      /\ DOMAIN audits' = DOMAIN audits
      /\ \A b \in AuditIds \ {a} : audits'[b] = audits[b]
    BY <1>1 DEF Lapse, ShapeInv
<1>3. ShapeInv'
    BY <1>1, <1>2 DEF ShapeInv, Existing
<1>4. ProjectsInv'
    BY <1>1, ProjectsKept
<1>5. QueueInv'
    BY <1>1, <1>2, QueueKept DEF Rewritten, Existing
<1>6. ClaimsInv'
    BY <1>1, <1>2 DEF ClaimsInv, Crawling, Existing
<1> QED
    BY <1>3, <1>4, <1>5, <1>6

-----------------------------------------------------------------------------
LEMMA NextInvariant == AuditInv /\ [Next]_vars => AuditInv'
<1> SUFFICES ASSUME AuditInv, [Next]_vars PROVE AuditInv'
    OBVIOUS
<1>1. CASE UNCHANGED vars
    BY <1>1 DEF vars, dbVars, history, AuditInv, ShapeInv, ProjectsInv, QueueInv, ClaimsInv,
                Tracked, Existing, Crawling
<1>2. ASSUME NEW r \in Requests,
             \/ \E u \in Users, d \in Domains : CreateProject(r, u, d)
             \/ \E p \in ProjectIds : RequestAudit(r, p)
      PROVE  AuditInv'
    BY <1>2, RequestStep DEF CreateProject, RequestAudit
<1>3. ASSUME NEW r \in Requests, CommitCreate(r) \/ CommitAudit(r) PROVE AuditInv'
    BY <1>3, CommitCreateStep, CommitAuditStep
<1>4. ASSUME NEW p \in ProjectIds, DeleteProject(p) PROVE AuditInv'
    BY <1>4, DeleteStep
<1>5. ASSUME NEW w \in Workers, Claim(w) PROVE AuditInv'
    BY <1>5, ClaimStep
<1>6. ASSUME NEW w \in Workers, Work(w) PROVE AuditInv'
    BY <1>6, StartStep, PageStep, FinishStep, FailStep DEF Work, CrawlFails
<1>7. ASSUME NEW w \in Workers, Crash(w) PROVE AuditInv'
    BY <1>7, FailStep DEF Crash, dbVars
<1>8. ASSUME NEW a \in AuditIds, Lapse(a) PROVE AuditInv'
    BY <1>8, LapseStep
<1> QED
    BY <1>1, <1>2, <1>3, <1>4, <1>5, <1>6, <1>7, <1>8 DEF Next

LEMMA Invariance == Spec => []AuditInv
    BY InitInvariant, NextInvariant, PTL DEF Spec

\* create_project and delete_project: however many members add the same domain at
\* once, the organization tracks it once, and what is deleted can be added again.
THEOREM DomainsTrackedOnce == Spec => []DomainTrackedOnce
<1>1. AuditInv => DomainTrackedOnce
    BY DEF AuditInv, ProjectsInv, DomainTrackedOnce
<1> QED
    BY <1>1, Invariance, PTL

\* claim_next_site_audit with uq_site_audits_one_active_per_project: two workers
\* crawl a project at once only after a claim ran out under one of them.
THEOREM ClaimsExclusive == Spec => []CrawledByOne
<1>1. AuditInv => CrawledByOne
  <2> SUFFICES ASSUME AuditInv, NEW v \in Workers, NEW w \in Workers,
                      NEW a \in Existing, NEW b \in Existing,
                      v # w, Crawling(v, a), Crawling(w, b),
                      audits[a].project = audits[b].project,
                      a \notin lapsed, b \notin lapsed
               PROVE  FALSE
    BY DEF CrawledByOne
  <2>1. a = b
    BY DEF AuditInv, QueueInv, ClaimsInv, ActiveStatuses
  <2> QED
    BY <2>1 DEF AuditInv, ClaimsInv
<1> QED
    BY <1>1, Invariance, PTL

\* What a worker writes at the end of an attempt is final unless its claim ran
\* out before: nobody claims an ended audit, and no second worker still holds it.
THEOREM OutcomesKept == Spec => OutcomeKept
<1>1. AuditInv /\ [Next]_vars =>
         [\A a \in Existing \ lapsed :
             audits[a].status \in {"done", "failed"} =>
                 audits'[a] = audits[a] \/ audits'[a] = None]_vars
  <2> SUFFICES ASSUME AuditInv, Next, NEW a \in Existing \ lapsed,
                      audits[a].status \in {"done", "failed"}
               PROVE  audits'[a] = audits[a] \/ audits'[a] = None
    OBVIOUS
  <2>1. /\ a \in AuditIds /\ a <= queued /\ audits[a].status \notin ActiveStatuses
        /\ \A w \in Workers : ~Crawling(w, a)
    BY DEF AuditInv, QueueInv, ClaimsInv, Existing, ActiveStatuses
  <2>2. ASSUME NEW r \in Requests, CommitCreate(r) \/ CommitAudit(r)
        PROVE  audits'[a] = audits[a]
    <3>1. a # queued + 1
      BY <2>1, Bounds DEF AuditInv, ShapeInv, AuditIds
    <3>2. \A p : audits' = [audits EXCEPT ![queued + 1] = Queued(p)] => audits'[a] = audits[a]
      BY <2>1, <3>1 DEF AuditInv, ShapeInv
    <3> QED
      BY <2>2, <3>2 DEF CommitCreate, CommitAudit
  <2>3. ASSUME NEW r \in Requests,
               \/ \E u \in Users, d \in Domains : CreateProject(r, u, d)
               \/ \E p \in ProjectIds : RequestAudit(r, p)
        PROVE  audits'[a] = audits[a]
    BY <2>3 DEF CreateProject, RequestAudit, dbVars
  <2>4. ASSUME NEW p \in ProjectIds, DeleteProject(p)
        PROVE  audits'[a] = audits[a] \/ audits'[a] = None
    BY <2>1, <2>4 DEF DeleteProject
  <2>5. ASSUME NEW w \in Workers, Claim(w)
        PROVE  audits'[a] = audits[a]
    <3>1. PICK b \in AuditIds :
             /\ Claimable(b)
             /\ \/ audits' = [audits EXCEPT ![b].attempts = @ + 1, ![b].status = "failed"]
                \/ audits' = [audits EXCEPT ![b].attempts = @ + 1, ![b].status = "running",
                                           ![b].fresh = TRUE]
      BY <2>5 DEF Claim
    <3>2. a # b
      BY <2>1, <3>1 DEF Claimable, ActiveStatuses
    <3> QED
      BY <2>1, <3>1, <3>2 DEF AuditInv, ShapeInv
  <2>6. ASSUME NEW w \in Workers, Work(w)
        PROVE  audits'[a] = audits[a]
    <3>1. worker[w].pc # "idle"
      BY <2>6 DEF Work, StartCrawl, CrawlPage, Finish, CrawlFails
    <3>2. worker[w].audit # a
      BY <2>1, <3>1 DEF Crawling
    <3>3. FailAudit(w) => audits'[a] = audits[a]
      BY <2>1, <3>2 DEF FailAudit, AuditInv, ShapeInv
    <3>4. StartCrawl(w) \/ Finish(w) \/ CrawlFails(w) => audits'[a] = audits[a]
      BY <2>1, <3>2, <3>3 DEF StartCrawl, Finish, CrawlFails, AuditInv, ShapeInv
    <3>5. ASSUME NEW u \in Urls, NEW f \in Finals, CrawlPage(w, u, f)
          PROVE  audits'[a] = audits[a]
      BY <2>1, <3>2, <3>3, <3>5 DEF CrawlPage, AuditInv, ShapeInv
    <3> QED
      BY <2>6, <3>4, <3>5 DEF Work
  <2>7. ASSUME NEW w \in Workers, Crash(w)
        PROVE  audits'[a] = audits[a]
    BY <2>7 DEF Crash, dbVars
  <2>8. ASSUME NEW b \in AuditIds, Lapse(b)
        PROVE  audits'[a] = audits[a]
    <3>1. a # b
      BY <2>1, <2>8 DEF Lapse, ActiveStatuses
    <3> QED
      BY <2>1, <2>8, <3>1 DEF Lapse, AuditInv, ShapeInv
  <2> QED
    BY <2>2, <2>3, <2>4, <2>5, <2>6, <2>7, <2>8 DEF Next
<1> QED
    BY <1>1, Invariance, PTL DEF Spec, OutcomeKept
-----------------------------------------------------------------------------
(***************************************************************************)
(* What a finished crawl reports. First the arithmetic of PageRules.       *)
(***************************************************************************)

Below == {pair \in Nat \X Nat : pair[1] < pair[2]}

LEMMA LeastNumber ==
    ASSUME NEW N, N \subseteq Nat, N # {}
    PROVE  \E n \in N : \A m \in N : n <= m
<1>1. IsWellFoundedOn(Below, Nat)
    BY NatLessThanWellFounded DEF OpToRel, Below
<1>2. PICK n \in N : \A m \in N : <<m, n>> \notin Below
    BY <1>1, WFMin
<1>3. \A m \in N : n <= m
  <2> SUFFICES ASSUME NEW m \in N, m < n PROVE FALSE
      BY <1>2
  <2>1. <<m, n>> \in Nat \X Nat /\ <<m, n>>[1] < <<m, n>>[2]
      OBVIOUS
  <2>2. <<m, n>> \in Below
      BY <2>1 DEF Below
  <2> QED
      BY <1>2, <2>2
<1> QED
    BY <1>3

\* The worst and the best of some scores.
LEMMA Extremes ==
    ASSUME NEW found, found \subseteq 0 .. 100, found # {}
    PROVE  /\ Min(found) \in 0 .. 100 /\ \A h \in found : Min(found) <= h
           /\ Max(found) \in 0 .. 100 /\ \A h \in found : h <= Max(found)
<1>1. PICK n \in found : \A m \in found : n <= m
  <2>1. found \subseteq Nat
      OBVIOUS
  <2> QED
      BY <2>1, LeastNumber
<1>2. Min(found) \in found /\ \A h \in found : Min(found) <= h
    BY <1>1 DEF Min
<1> DEFINE gaps == {100 - h : h \in found}
<1>3. PICK d \in gaps : \A e \in gaps : d <= e
  <2>1. gaps \subseteq Nat /\ gaps # {}
      OBVIOUS
  <2> HIDE DEF gaps
  <2> QED
      BY <2>1, LeastNumber
<1>4. PICK x \in found : d = 100 - x
    OBVIOUS
<1>5. \A h \in found : x >= h
  <2> SUFFICES ASSUME NEW h \in found PROVE x >= h
      OBVIOUS
  <2>1. d <= 100 - h
      BY <1>3
  <2> QED
      BY <1>4, <2>1
<1>6. Max(found) \in found /\ \A h \in found : Max(found) >= h
    BY <1>5 DEF Max
<1>7. \A h \in found : h \in Int
    OBVIOUS
<1> QED
    BY <1>2, <1>6, <1>7

\* A multiple of something larger is larger.
LEMMA Multiples ==
    ASSUME NEW n \in Nat, NEW a \in Nat, NEW b \in Nat, a <= b
    PROVE  a * n \in Nat /\ b * n \in Nat /\ a * n <= b * n
<1>1. PICK d \in Nat : b = a + d
  <2>1. b - a \in Nat /\ b = a + (b - a)
      OBVIOUS
  <2> QED
      BY <2>1
<1>2. a * n \in Nat /\ d * n \in Nat
    OBVIOUS
<1>3. b * n = a * n + d * n
    BY <1>1
<1> QED
    BY <1>2, <1>3

\* A rounded average lies between bounds of what was averaged.
LEMMA RoundedWithin ==
    ASSUME NEW sum \in Nat, NEW number \in Nat, number # 0, NEW lo \in Nat, NEW hi \in Nat,
           lo * number <= sum, sum <= hi * number
    PROVE  Rounded(sum, number) \in lo .. hi
<1> DEFINE b == sum \div number
           r == sum % number
<1>1. b \in Nat /\ r \in 0 .. number - 1 /\ sum = b * number + r
    OBVIOUS
<1> HIDE DEF b, r
<1>2. b * number \in Nat /\ (b + 1) * number = b * number + number
    BY <1>1
<1>3. lo <= b
  <2>1. ASSUME b + 1 <= lo PROVE FALSE
    <3>1. (b + 1) * number <= lo * number
        BY <1>1, <2>1, Multiples
    <3>2. lo * number \in Nat
        OBVIOUS
    <3> QED
        BY <1>1, <1>2, <3>1, <3>2
  <2> QED
      BY <1>1, <2>1
<1>4. b <= hi
  <2>1. ASSUME hi + 1 <= b PROVE FALSE
    <3>1. (hi + 1) * number <= b * number
        BY <1>1, <2>1, Multiples
    <3>2. hi * number \in Nat /\ (hi + 1) * number = hi * number + number
        OBVIOUS
    <3> QED
        BY <1>1, <1>2, <3>1, <3>2
  <2> QED
      BY <1>1, <2>1
<1>5. b = hi => r = 0
    BY <1>1, <1>2
<1>6. Rounded(sum, number) \in {b, b + 1} /\ (Rounded(sum, number) = b + 1 => 2 * r >= number)
    BY <1>1 DEF Rounded, b, r
<1>7. Rounded(sum, number) = b + 1 => b + 1 <= hi
    BY <1>1, <1>4, <1>5, <1>6
<1> QED
    BY <1>1, <1>3, <1>4, <1>6, <1>7

LEMMA CodesFinite ==
    IsFiniteSet(ErrorCodes) /\ IsFiniteSet(WarningCodes) /\ IsFiniteSet(NoticeCodes)
<1>1. \A S, x : IsFiniteSet(S) => IsFiniteSet(S \cup {x})
    BY FS_AddElement
<1>2. IsFiniteSet({})
    BY FS_EmptySet
<1>3. /\ ErrorCodes = ((((({} \cup {"http_status_error"}) \cup {"missing_title"}) \cup {"missing_h1"})
                          \cup {"duplicate_hreflang"}) \cup {"crawl_failed"})
      /\ WarningCodes = (((((({} \cup {"http_redirect"}) \cup {"title_too_long"}) \cup {"multiple_h1"})
                            \cup {"missing_meta_description"}) \cup {"missing_html_lang"})
                         \cup {"missing_image_alt"})
      /\ NoticeCodes = ((({} \cup {"url_redirected"}) \cup {"empty_anchor_text"}) \cup {"blocked_by_robots"})
    BY DEF ErrorCodes, WarningCodes, NoticeCodes
<1>4. IsFiniteSet(ErrorCodes)
    BY <1>1, <1>2, <1>3
<1>5. IsFiniteSet(WarningCodes)
    BY <1>1, <1>2, <1>3
<1> QED
    BY <1>1, <1>2, <1>3, <1>4, <1>5

LEMMA SeveritiesCount ==
    ASSUME NEW issues
    PROVE  /\ Severities(issues).errors \in Nat
           /\ Severities(issues).warnings \in Nat
           /\ Severities(issues).notices \in Nat
<1>1. \A codes : IsFiniteSet(codes) => Cardinality(issues \cap codes) \in Nat
    BY FS_Intersection, FS_CardinalityType
<1> QED
    BY <1>1, CodesFinite DEF Severities

LEMMA HealthRange ==
    ASSUME NEW row
    PROVE  PageHealth(row) \in 0 .. 100
<1> DEFINE e == Severities(row.issues).errors
           w == Severities(row.issues).warnings
           left == 100 - 15 * e - 5 * w
<1>1. e \in Nat /\ w \in Nat
    BY SeveritiesCount
<1>2. left \in Int /\ left <= 100
  <2> HIDE DEF e, w
  <2> QED
      BY <1>1
<1>3. Max({0, left}) \in 0 .. 100
  <2> HIDE DEF left
  <2>1. \E x \in {0, left} : \A y \in {0, left} : x >= y
      BY <1>2
  <2>2. Max({0, left}) \in {0, left} /\ \A y \in {0, left} : Max({0, left}) >= y
      BY <2>1 DEF Max
  <2> QED
      BY <1>2, <2>2
<1> QED
    BY <1>3 DEF PageHealth

\* What one more row adds.
LEMMA FoundGrows ==
    ASSUME NEW rows, IsFiniteSet(rows), NEW r, r \notin rows, NEW codes, IsFiniteSet(codes)
    PROVE  Cardinality(Findable(rows \cup {r}, codes)) =
               Cardinality(Findable(rows, codes)) + Cardinality(r.page.issues \cap codes)
<1> DEFINE old == Findable(rows, codes)
           mine == r.page.issues \cap codes
           new == {r} \X mine
<1>1. IsFiniteSet(old) /\ Cardinality(old) \in Nat
  <2>1. IsFiniteSet(rows \X codes)
      BY FS_Product
  <2>2. old \in SUBSET (rows \X codes)
      BY DEF Findable
  <2> HIDE DEF old
  <2> QED
      BY <2>1, <2>2, FS_Subset, FS_CardinalityType
<1>2. IsFiniteSet(mine) /\ Cardinality(mine) \in Nat
    BY FS_Intersection, FS_CardinalityType
<1>3. IsFiniteSet(new) /\ Cardinality(new) = Cardinality(mine)
  <2>1. IsFiniteSet({r}) /\ Cardinality({r}) = 1
      BY FS_Singleton
  <2> HIDE DEF mine
  <2>2. IsFiniteSet(new) /\ Cardinality(new) = 1 * Cardinality(mine)
      BY <1>2, <2>1, FS_Product
  <2> QED
      BY <1>2, <2>2
<1>4. Findable(rows \cup {r}, codes) = old \cup new /\ old \cap new = {}
  <2>1. \A f \in (rows \cup {r}) \X codes :
            f \in Findable(rows \cup {r}, codes) <=> f \in old \/ f \in new
      BY DEF Findable
  <2>2. /\ Findable(rows \cup {r}, codes) \subseteq (rows \cup {r}) \X codes
        /\ old \subseteq (rows \cup {r}) \X codes /\ new \subseteq (rows \cup {r}) \X codes
      BY DEF Findable
  <2>3. \A f \in old : f[1] \in rows
      BY DEF Findable
  <2>4. \A f \in new : f[1] = r
      OBVIOUS
  <2>5. Findable(rows \cup {r}, codes) = old \cup new
    <3> HIDE DEF old, new
    <3> QED
        BY <2>1, <2>2
  <2> QED
      BY <2>3, <2>4, <2>5
<1> HIDE DEF old, new, mine
<1>5. Cardinality(old \cup new) = Cardinality(old) + Cardinality(new)
  <2>1. Cardinality(old \cup new) = Cardinality(old) + Cardinality(new) - Cardinality(old \cap new)
      BY <1>1, <1>3, FS_Union
  <2>2. Cardinality(old \cap new) = 0
      BY <1>4, FS_EmptySet
  <2> QED
      BY <1>1, <1>2, <1>3, <2>1, <2>2
<1> QED
    BY <1>3, <1>4, <1>5 DEF old, mine

LEMMA TallyGrows ==
    ASSUME NEW rows, IsFiniteSet(rows), NEW r, r \notin rows
    PROVE  Tally(rows \cup {r}) = Counted(Tally(rows), r.page)
<1>1. Cardinality(rows \cup {r}) = Cardinality(rows) + 1
    BY FS_AddElement
<1>2. \A codes : IsFiniteSet(codes) =>
          Cardinality(Findable(rows \cup {r}, codes)) =
              Cardinality(Findable(rows, codes)) + Cardinality(r.page.issues \cap codes)
    BY FoundGrows
<1> QED
    BY <1>1, <1>2, CodesFinite DEF Tally, Counted, Severities

LEMMA NothingTallied == Tally({}) = Nothing
<1>1. \A codes : Findable({}, codes) = {}
    BY DEF Findable
<1> QED
    BY <1>1, FS_EmptySet DEF Tally, Nothing

Scores == [sum : Nat, number : Nat]

LEMMA AveragesGrow ==
    ASSUME NEW scores \in Scores, NEW rows, NEW r, Averages(scores, ScoresOf(rows))
    PROVE  Averages(Scored(scores, r.page), ScoresOf(rows \cup {r}))
<1> DEFINE h == PageHealth(r.page)
           found == ScoresOf(rows)
<1>1. CASE ~Scorable(r.page)
  <2>1. ScoresOf(rows \cup {r}) = found
      BY <1>1 DEF ScoresOf
  <2> QED
      BY <1>1, <2>1 DEF Scored
<1>2. CASE Scorable(r.page)
  <2>1. ScoresOf(rows \cup {r}) = found \cup {h}
      BY <1>2 DEF ScoresOf
  <2>2. h \in 0 .. 100
      BY HealthRange
  <2> DEFINE next == Scored(scores, r.page)
  <2>3. /\ next.sum = scores.sum + h /\ next.number = scores.number + 1
        /\ scores.sum \in Nat /\ scores.number \in Nat
      BY <1>2 DEF Scored, Scores
  <2> HIDE DEF h, found, next
  <2>4. next.number # 0 /\ found \cup {h} # {}
      BY <2>3
  <2>5. ASSUME NEW m \in 0 .. 100, \A x \in found \cup {h} : m <= x
        PROVE  m * next.number <= next.sum
    <3>1. m * scores.number <= scores.sum /\ m <= h
        BY <2>5 DEF Averages, found
    <3>2. m * scores.number \in Nat /\ m * (scores.number + 1) = m * scores.number + m
        BY <2>3
    <3> QED
        BY <2>2, <2>3, <3>1, <3>2
  <2>6. ASSUME NEW m \in 0 .. 100, \A x \in found \cup {h} : x <= m
        PROVE  next.sum <= m * next.number
    <3>1. scores.sum <= m * scores.number /\ h <= m
        BY <2>6 DEF Averages, found
    <3>2. m * scores.number \in Nat /\ m * (scores.number + 1) = m * scores.number + m
        BY <2>3
    <3> QED
        BY <2>2, <2>3, <3>1, <3>2
  <2>7. Averages(next, found \cup {h})
      BY <2>4, <2>5, <2>6 DEF Averages
  <2> QED
      BY <2>1, <2>7 DEF next
<1> QED
    BY <1>1, <1>2

\* The health that is stored, of scores that average what the rows are worth.
LEMMA HealthBetween ==
    ASSUME NEW scores \in Scores, NEW rows, Averages(scores, ScoresOf(rows))
    PROVE  LET health == AuditHealth(scores.sum, scores.number, None)
               found == ScoresOf(rows)
           IN  IF found = {} THEN health = None ELSE health \in Min(found) .. Max(found)
<1> DEFINE found == ScoresOf(rows)
<1>1. scores.sum \in Nat /\ scores.number \in Nat
    BY DEF Scores
<1>2. CASE found = {}
    BY <1>2 DEF Averages, AuditHealth
<1>3. CASE found # {}
  <2>1. found \subseteq 0 .. 100
      BY HealthRange DEF ScoresOf
  <2>2. scores.number # 0
      BY <1>3 DEF Averages
  <2>3. /\ Min(found) \in 0 .. 100 /\ \A h \in found : Min(found) <= h
        /\ Max(found) \in 0 .. 100 /\ \A h \in found : h <= Max(found)
      BY <1>3, <2>1, Extremes
  <2>4. Min(found) * scores.number <= scores.sum /\ scores.sum <= Max(found) * scores.number
      BY <2>3 DEF Averages
  <2>5. Rounded(scores.sum, scores.number) \in Min(found) .. Max(found)
    <3> HIDE DEF found
    <3>1. Min(found) \in Nat /\ Max(found) \in Nat
        BY <2>3
    <3> QED
        BY <1>1, <2>2, <2>4, <3>1, RoundedWithin
  <2> QED
      BY <1>3, <2>2, <2>5 DEF AuditHealth
<1> QED
    BY <1>2, <1>3

-----------------------------------------------------------------------------
\* Types of what the workers write.

LEMMA RowsWritten ==
    ASSUME NEW u \in Urls, NEW f \in Finals
    PROVE  [final |-> f, page |-> RowOf[u][f]] \in Rows
    BY DEF Rows

LEMMA TotalsCounted ==
    ASSUME NEW totals \in Totals, NEW row
    PROVE  Counted(totals, row) \in Totals
    BY SeveritiesCount DEF Totals, Counted

LEMMA TotalsWritten ==
    ASSUME NEW row \in Totals, NEW copy \in Totals, NEW new \in Totals
    PROVE  /\ Written(row, copy, new) \in Totals
           /\ row = copy => Written(row, copy, new) = new
<1>1. /\ DOMAIN row = {"pages", "errors", "warnings", "notices"}
      /\ DOMAIN new = {"pages", "errors", "warnings", "notices"}
      /\ \A c \in {"pages", "errors", "warnings", "notices"} : row[c] \in Nat /\ new[c] \in Nat
    BY DEF Totals
<1> DEFINE written == Written(row, copy, new)
<1>2. /\ DOMAIN written = {"pages", "errors", "warnings", "notices"}
      /\ \A c \in {"pages", "errors", "warnings", "notices"} : written[c] \in Nat
    BY <1>1 DEF Written
<1>3. written = [c \in {"pages", "errors", "warnings", "notices"} |-> written[c]]
    BY <1>1 DEF Written
<1>4. written \in Totals
  <2> HIDE DEF written
  <2>1. written = [pages |-> written.pages, errors |-> written.errors,
                   warnings |-> written.warnings, notices |-> written.notices]
      BY <1>3
  <2> QED
      BY <1>2, <2>1 DEF Totals
<1>5. ASSUME row = copy PROVE written = new
  <2>1. \A c \in {"pages", "errors", "warnings", "notices"} : written[c] = new[c]
      BY <1>1, <1>5 DEF Written
  <2>2. new = [c \in {"pages", "errors", "warnings", "notices"} |-> new[c]]
      BY DEF Totals
  <2> HIDE DEF written
  <2> QED
      BY <1>3, <2>1, <2>2
<1> QED
    BY <1>4, <1>5

LEMMA ScoresCounted ==
    ASSUME NEW scores \in Scores, NEW row, scores.sum <= 100 * scores.number
    PROVE  Scored(scores, row) \in Scores /\ Scored(scores, row).sum <= 100 * Scored(scores, row).number
<1>1. PageHealth(row) \in 0 .. 100
    BY HealthRange
<1> DEFINE h == PageHealth(row)
<1> HIDE DEF h
<1>2. h \in 0 .. 100
    BY <1>1 DEF h
<1>3. CASE Scorable(row)
  <2>1. Scored(scores, row) = [sum |-> scores.sum + h, number |-> scores.number + 1]
      BY <1>3 DEF Scored, h
  <2> QED
      BY <1>2, <2>1 DEF Scores
<1>4. CASE ~Scorable(row)
    BY <1>4 DEF Scored
<1> QED
    BY <1>3, <1>4

LEMMA HealthTyped ==
    ASSUME NEW scores \in Scores, scores.sum <= 100 * scores.number
    PROVE  AuditHealth(scores.sum, scores.number, None) \in (0 .. 100) \cup {None}
<1>1. scores.sum \in Nat /\ scores.number \in Nat
    BY DEF Scores
<1>2. CASE scores.number # 0
  <2>1. 0 * scores.number <= scores.sum /\ 0 \in Nat /\ 100 \in Nat
      BY <1>1
  <2> DEFINE sum == scores.sum
             number == scores.number
  <2>2. /\ sum \in Nat /\ number \in Nat /\ number # 0
        /\ 0 * number <= sum /\ sum <= 100 * number
      BY <1>1, <1>2, <2>1
  <2>3. Rounded(sum, number) \in 0 .. 100
    <3> HIDE DEF sum, number
    <3> QED
        BY <2>1, <2>2, RoundedWithin
  <2> QED
      BY <1>2, <2>3 DEF AuditHealth
<1>3. CASE scores.number = 0
    BY <1>3 DEF AuditHealth
<1> QED
    BY <1>2, <1>3

WorkerStates ==
    [pc : {"idle", "start", "crawl"}, audit : AuditIds \cup {None},
     todo : SUBSET Urls, seen : SUBSET Finals, copy : Totals, scores : [sum : Nat, number : Nat]]

LEMMA NothingTyped ==
    /\ Nothing \in Totals /\ NoScores \in Scores /\ Off \in WorkerStates
    /\ \A p \in ProjectIds : Queued(p) \in Audits
<1>1. Nothing \in Totals /\ NoScores \in Scores
    BY DEF Nothing, NoScores, Totals, Scores
<1>2. Off \in WorkerStates
    BY <1>1 DEF Off, WorkerStates, Scores
<1>3. 0 \in 0 .. MAX_ATTEMPTS + 1
    BY AuditAssumption
<1>4. \A p \in ProjectIds : Queued(p) \in Audits
    BY <1>1, <1>3 DEF Queued, Audits, ActiveStatuses
<1> QED
    BY <1>1, <1>2, <1>4

\* A step of one worker and one audit keeps the types.
LEMMA TypesKept ==
    ASSUME TypeOK, NEW a \in AuditIds, NEW w \in Workers,
           UNCHANGED <<projects, mirrors, req, tracked, queued>>, lapsed' \subseteq AuditIds,
           \/ audits' = audits
           \/ \E new \in Audits : audits' = [audits EXCEPT ![a] = new],
           \/ worker' = worker
           \/ \E new \in WorkerStates : worker' = [worker EXCEPT ![w] = new]
    PROVE  TypeOK'
<1>1. audits' \in [AuditIds -> Audits \cup {None}]
    BY DEF TypeOK
<1>2. worker' \in [Workers -> WorkerStates]
    BY DEF TypeOK, WorkerStates
<1> QED
    BY <1>1, <1>2 DEF TypeOK, WorkerStates

-----------------------------------------------------------------------------
\* What a worker remembers, and what it does to others.

Told == DoneIsComplete /\ WorkersRemember /\ ScoresBounded /\ AttemptsBounded

\* A worker writes its own audit, and no other worker crawls that one unless its
\* claim ran out.
LEMMA ToldStep ==
    ASSUME AuditInv, Told, NEW w \in Workers, worker[w].pc # "idle", Stepped(w),
           NEW a \in AuditIds, a = worker[w].audit, Rewritten(a), lapsed' = lapsed,
           worker'[w].scores.sum <= 100 * worker'[w].scores.number,
           a \in Existing' /\ audits'[a].status \in ActiveStatuses =>
               audits'[a].attempts <= MAX_ATTEMPTS,
           a \in Existing' \ lapsed =>
               /\ worker'[w].pc # "idle" => Remembers(worker'[w], audits'[a])
               /\ audits'[a].status = "done" => Complete(audits'[a])
    PROVE  Told'
<1> USE DEF Told
<1>2. /\ Existing' \subseteq Existing
      /\ \A b \in AuditIds \ {a} : audits'[b] = audits[b]
      /\ \A v \in Workers \ {w} : worker'[v] = worker[v]
    BY DEF Rewritten, Existing, Stepped
<1>3. ScoresBounded'
    BY <1>2 DEF ScoresBounded
<1>4. AttemptsBounded'
    BY <1>2 DEF AttemptsBounded, Existing
<1>5. DoneIsComplete'
    BY <1>2 DEF DoneIsComplete, Existing
<1>6. WorkersRemember'
  <2> SUFFICES ASSUME NEW v \in Workers, NEW b \in Existing' \ lapsed, Crawling(v, b)'
               PROVE  Remembers(worker'[v], audits'[b])
      BY DEF WorkersRemember
  <2>1. CASE v = w
    <3>1. worker'[w].pc # "idle" /\ b = a
        BY <2>1 DEF Crawling, Stepped
    <3>2. Remembers(worker'[w], audits'[a])
        BY <3>1
    <3> QED
        BY <2>1, <3>1, <3>2 DEF Remembers
  <2>2. CASE v # w
    <3>1. worker'[v] = worker[v] /\ Crawling(v, b) /\ b \in Existing \ lapsed
        BY <1>2, <2>2 DEF Crawling
    <3>2. b # a
        BY <2>2, <3>1 DEF AuditInv, ClaimsInv, Crawling
    <3>3. b \in AuditIds /\ audits'[b] = audits[b] /\ Remembers(worker[v], audits[b])
        BY <1>2, <3>1, <3>2 DEF WorkersRemember, Existing
    <3> QED
        BY <3>1, <3>3
  <2> QED
      BY <2>1, <2>2
<1> QED
    BY <1>3, <1>4, <1>5, <1>6

\* What else is written, of audits no worker crawls or whose claim ran out, tells
\* nothing new.
LEMMA ToldKept ==
    ASSUME Told, ScoresBounded', AttemptsBounded',
           \A a \in Existing' \ lapsed' :
               /\ audits'[a].status = "done" => a \in Existing \ lapsed /\ audits'[a] = audits[a]
               /\ \A w \in Workers : Crawling(w, a)' =>
                     /\ a \in Existing \ lapsed /\ audits'[a] = audits[a] /\ Crawling(w, a)
                     /\ worker'[w] = worker[w]
    PROVE  Told'
<1> USE DEF Told
<1>1. DoneIsComplete'
    BY DEF DoneIsComplete
<1>2. WorkersRemember'
  <2> SUFFICES ASSUME NEW w \in Workers, NEW a \in Existing' \ lapsed', Crawling(w, a)'
               PROVE  Remembers(worker'[w], audits'[a])
      BY DEF WorkersRemember
  <2>1. /\ a \in Existing \ lapsed /\ audits'[a] = audits[a] /\ Crawling(w, a)
        /\ worker'[w] = worker[w]
      OBVIOUS
  <2>2. a \in AuditIds /\ Remembers(worker[w], audits[a])
      BY <2>1 DEF WorkersRemember, Existing
  <2> QED
      BY <2>1, <2>2
<1> QED
    BY <1>1, <1>2

-----------------------------------------------------------------------------
\* Requests, deletions and the clock.

LEMMA AskingTold ==
    ASSUME AuditInv, CrawlInv, NEW r \in Requests, UNCHANGED <<dbVars, worker, history>>,
           \/ End(r)
           \/ \E u \in Users, d \in Domains : CreateProject(r, u, d)
           \/ \E p \in ProjectIds : RequestAudit(r, p)
    PROVE  CrawlInv'
<1> USE DEF CrawlInv, dbVars, history
<1> DEFINE Asks == [pc : {"idle", "create", "queue"}, user : Users \cup {None},
                    domain : Domains \cup {None}, project : ProjectIds \cup {None}]
<1>1. \E new \in Asks : req' = [req EXCEPT ![r] = new]
  <2>1. NoRequest \in Asks
      BY DEF NoRequest
  <2>2. \A u \in Users, d \in Domains :
            [NoRequest EXCEPT !.pc = "create", !.user = u, !.domain = d] \in Asks
      BY DEF NoRequest
  <2>3. \A p \in ProjectIds : [NoRequest EXCEPT !.pc = "queue", !.project = p] \in Asks
      BY DEF NoRequest
  <2> HIDE DEF Asks
  <2>4. ASSUME NEW u \in Users, NEW d \in Domains, CreateProject(r, u, d)
        PROVE  \E new \in Asks : req' = [req EXCEPT ![r] = new]
      BY <2>2, <2>4, Zenon DEF CreateProject
  <2>5. ASSUME NEW p \in ProjectIds, RequestAudit(r, p)
        PROVE  \E new \in Asks : req' = [req EXCEPT ![r] = new]
      BY <2>3, <2>5, Zenon DEF RequestAudit
  <2> QED
      BY <2>1, <2>4, <2>5 DEF End
<1>2. TypeOK'
    BY <1>1 DEF TypeOK
<1>3. Told'
    BY DEF Told, DoneIsComplete, WorkersRemember, ScoresBounded, AttemptsBounded, Existing,
           Crawling, Remembers
<1> QED
    BY <1>2, <1>3 DEF Told

\* One more audit, or none.
LEMMA QueuedTold ==
    ASSUME AuditInv, CrawlInv, UNCHANGED <<worker, lapsed>>, NEW p \in ProjectIds,
           \/ UNCHANGED <<audits, queued>>
           \/ queued < MaxAudits /\ audits' = [audits EXCEPT ![queued + 1] = Queued(p)]
              /\ queued' = queued + 1
    PROVE  /\ Told' /\ audits' \in [AuditIds -> Audits \cup {None}]
           /\ queued' \in 0 .. MaxAudits
<1>1. CASE UNCHANGED <<audits, queued>>
    BY <1>1 DEF CrawlInv, Told, TypeOK, DoneIsComplete, WorkersRemember, ScoresBounded,
                AttemptsBounded, Existing, Crawling, Remembers
<1>2. ASSUME NEW n, n = queued + 1, queued < MaxAudits,
             audits' = [audits EXCEPT ![n] = Queued(p)], queued' = n
      PROVE  /\ Told' /\ audits' \in [AuditIds -> Audits \cup {None}]
             /\ queued' \in 0 .. MaxAudits
  <2>1. n \in AuditIds /\ queued' \in 0 .. MaxAudits /\ queued \in Nat
      BY <1>2, Bounds DEF CrawlInv, TypeOK, AuditIds
  <2>2. /\ audits' \in [AuditIds -> Audits \cup {None}]
        /\ audits'[n] = Queued(p) /\ \A a \in AuditIds \ {n} : audits'[a] = audits[a]
      BY <1>2, <2>1, NothingTyped DEF CrawlInv, TypeOK
  <2>3. \A w \in Workers : ~Crawling(w, n)'
      BY <1>2, <2>1 DEF AuditInv, ClaimsInv, ShapeInv, Crawling, AuditIds
  <2>4. Queued(p).status = "queued" /\ Queued(p).attempts = 0
      BY DEF Queued
  <2>5. Existing' \subseteq Existing \cup {n}
      BY <2>2 DEF Existing
  <2>6. ScoresBounded'
      BY DEF CrawlInv, ScoresBounded
  <2>7. AttemptsBounded'
      BY <2>2, <2>4, <2>5, AuditAssumption DEF CrawlInv, AttemptsBounded, Existing
  <2>8. ASSUME NEW a \in Existing' \ lapsed'
        PROVE  /\ audits'[a].status = "done" => a \in Existing \ lapsed /\ audits'[a] = audits[a]
               /\ \A w \in Workers : Crawling(w, a)' =>
                     /\ a \in Existing \ lapsed /\ audits'[a] = audits[a] /\ Crawling(w, a)
                     /\ worker'[w] = worker[w]
    <3>1. CASE a = n
        BY <2>2, <2>3, <2>4, <3>1
    <3>2. CASE a # n
        BY <2>2, <2>5, <3>2 DEF Crawling, Existing
    <3> QED
        BY <3>1, <3>2
  <2> QED
      BY <2>1, <2>2, <2>6, <2>7, <2>8, ToldKept DEF CrawlInv, Told
<1> QED
    BY <1>1, <1>2

LEMMA CommitTold ==
    ASSUME AuditInv, AuditInv', CrawlInv, NEW r \in Requests, CommitCreate(r) \/ CommitAudit(r)
    PROVE  CrawlInv'
<1>1. 1 \in ProjectIds
    BY AuditAssumption DEF ProjectIds
<1>2. \E p \in ProjectIds :
          \/ UNCHANGED <<audits, queued>>
          \/ queued < MaxAudits /\ audits' = [audits EXCEPT ![queued + 1] = Queued(p)]
             /\ queued' = queued + 1
  <2>1. CASE CommitCreate(r)
    <3>1. tracked < MaxProjects => tracked + 1 \in ProjectIds
        BY Bounds DEF CrawlInv, TypeOK, ProjectIds
    <3> QED
        BY <1>1, <2>1, <3>1 DEF CommitCreate
  <2>2. CASE CommitAudit(r)
      BY <1>1, <2>2 DEF CommitAudit, MayQueue, Tracked
  <2> QED
      BY <2>1, <2>2
<1>3. UNCHANGED <<worker, lapsed>> /\ req' = [req EXCEPT ![r] = NoRequest]
    BY DEF CommitCreate, CommitAudit, End
<1>4. Told' /\ audits' \in [AuditIds -> Audits \cup {None}]
    BY <1>2, <1>3, QueuedTold
<1>5. NoRequest \in [pc : {"idle", "create", "queue"}, user : Users \cup {None},
                     domain : Domains \cup {None}, project : ProjectIds \cup {None}]
    BY DEF NoRequest
<1>6. TypeOK'
    BY <1>3, <1>4, <1>5 DEF CrawlInv, TypeOK, AuditInv, ShapeInv, ProjectRows
<1> QED
    BY <1>4, <1>6 DEF CrawlInv, Told

LEMMA DeleteTold ==
    ASSUME AuditInv', CrawlInv, NEW p \in ProjectIds, DeleteProject(p)
    PROVE  CrawlInv'
<1>1. /\ UNCHANGED <<req, worker, tracked, queued>>
      /\ audits' = [a \in AuditIds |->
                      IF audits[a] # None /\ audits[a].project = p THEN None ELSE audits[a]]
      /\ lapsed' = {a \in lapsed : audits'[a] # None}
    BY DEF DeleteProject
<1>2. \A a \in Existing' : a \in Existing /\ audits'[a] = audits[a] /\ (a \notin lapsed' => a \notin lapsed)
    BY <1>1 DEF Existing
<1>3. ScoresBounded' /\ AttemptsBounded'
    BY <1>1, <1>2 DEF CrawlInv, ScoresBounded, AttemptsBounded
<1>4. Told'
  <2>1. \A w \in Workers, a \in AuditIds : Crawling(w, a)' => Crawling(w, a) /\ worker'[w] = worker[w]
      BY <1>1 DEF Crawling
  <2>2. Existing' \subseteq AuditIds
      BY DEF Existing
  <2> QED
      BY <1>2, <1>3, <2>1, <2>2, ToldKept DEF CrawlInv, Told
<1>5. TypeOK'
    BY <1>1 DEF CrawlInv, TypeOK, AuditInv, ShapeInv, ProjectRows
<1> QED
    BY <1>4, <1>5 DEF CrawlInv, Told

LEMMA LapseTold ==
    ASSUME AuditInv, CrawlInv, NEW a \in AuditIds, Lapse(a)
    PROVE  CrawlInv'
<1>1. /\ a \in Existing /\ audits[a].status = "running"
      /\ UNCHANGED <<projects, mirrors, req, worker, tracked, queued>>
      /\ lapsed \subseteq lapsed' /\ lapsed' \subseteq lapsed \cup {a}
      /\ a \notin lapsed' => \A w \in Workers : ~Crawling(w, a)
    BY DEF Lapse
<1> DEFINE new == [audits[a] EXCEPT !.fresh = FALSE]
<1>2. audits' = [audits EXCEPT ![a] = new]
    BY DEF Lapse
<1>3. audits[a] \in Audits
    BY <1>1 DEF CrawlInv, TypeOK, Existing
<1>4. new \in Audits /\ new.status = "running" /\ new.attempts = audits[a].attempts
    BY <1>1, <1>3 DEF Audits
<1> HIDE DEF new
<1>5. /\ audits'[a] = new /\ \A b \in AuditIds \ {a} : audits'[b] = audits[b]
      /\ Existing' \subseteq Existing
    BY <1>1, <1>2 DEF CrawlInv, TypeOK, Existing
<1>6. TypeOK'
  <2>1. lapsed' \subseteq AuditIds
      BY <1>1 DEF CrawlInv, TypeOK
  <2> QED
      BY <1>1, <1>2, <1>4, <2>1 DEF CrawlInv, TypeOK
<1>7. ScoresBounded' /\ AttemptsBounded'
  <2>1. audits[a].attempts <= MAX_ATTEMPTS
      BY <1>1 DEF CrawlInv, AttemptsBounded, ActiveStatuses
  <2> QED
      BY <1>1, <1>4, <1>5, <2>1 DEF CrawlInv, ScoresBounded, AttemptsBounded, Existing
<1>8. \A b \in Existing' \ lapsed' :
          /\ audits'[b].status = "done" => b \in Existing \ lapsed /\ audits'[b] = audits[b]
          /\ \A w \in Workers : Crawling(w, b)' =>
                /\ b \in Existing \ lapsed /\ audits'[b] = audits[b] /\ Crawling(w, b)
                /\ worker'[w] = worker[w]
  <2> SUFFICES ASSUME NEW b \in Existing' \ lapsed'
               PROVE  /\ audits'[b].status = "done" => b \in Existing \ lapsed /\ audits'[b] = audits[b]
                      /\ \A w \in Workers : Crawling(w, b)' =>
                            /\ b \in Existing \ lapsed /\ audits'[b] = audits[b] /\ Crawling(w, b)
                            /\ worker'[w] = worker[w]
      OBVIOUS
  <2>1. b \in Existing \ lapsed /\ b \in AuditIds
      BY <1>1, <1>5 DEF Existing
  <2>2. \A w \in Workers : Crawling(w, b)' => Crawling(w, b)
      BY <1>1 DEF Crawling
  <2>3. CASE b = a
      BY <1>1, <1>4, <1>5, <2>2, <2>3
  <2>4. CASE b # a
      BY <1>1, <1>5, <2>1, <2>2, <2>4
  <2> QED
      BY <2>3, <2>4
<1> QED
    BY <1>6, <1>7, <1>8, ToldKept DEF CrawlInv, Told

-----------------------------------------------------------------------------
\* The workers.

LEMMA ClaimTold ==
    ASSUME AuditInv, CrawlInv, NEW w \in Workers, Claim(w)
    PROVE  CrawlInv'
<1> USE DEF CrawlInv
<1>1. PICK a \in AuditIds :
          /\ Claimable(a)
          /\ \/ /\ audits' = [audits EXCEPT ![a].attempts = @ + 1, ![a].status = "failed"]
                /\ UNCHANGED worker
             \/ /\ ~Spent(a)
                /\ audits' = [audits EXCEPT ![a].attempts = @ + 1, ![a].status = "running",
                                            ![a].fresh = TRUE]
                /\ worker' = [worker EXCEPT ![w] = [Off EXCEPT
                                 !.pc = "start", !.audit = a, !.copy = audits[a].totals]]
    BY Zenon DEF Claim
<1>2. /\ UNCHANGED <<projects, mirrors, req, tracked, queued>> /\ lapsed' = lapsed
      /\ lapsed' \subseteq AuditIds /\ worker[w].pc = "idle"
    BY DEF Claim, history, TypeOK
<1>3. /\ a \in Existing /\ audits[a].status \in ActiveStatuses
      /\ a \notin lapsed => \A v \in Workers : ~Crawling(v, a)
    BY <1>1 DEF Claimable, ActiveStatuses, AuditInv, ClaimsInv
<1>4. /\ audits[a] \in Audits /\ audits[a].attempts \in Nat /\ audits[a].attempts <= MAX_ATTEMPTS
      /\ MAX_ATTEMPTS \in Nat
  <2>1. audits[a] \in Audits
      BY <1>3 DEF TypeOK, Existing
  <2>2. audits[a].attempts \in 0 .. MAX_ATTEMPTS + 1
      BY <2>1 DEF Audits
  <2> QED
      BY <1>3, <2>1, <2>2, AuditAssumption DEF AttemptsBounded
<1> DEFINE spent == [audits[a] EXCEPT !.attempts = @ + 1, !.status = "failed"]
           claimed == [audits[a] EXCEPT !.attempts = @ + 1, !.status = "running", !.fresh = TRUE]
           state == [Off EXCEPT !.pc = "start", !.audit = a, !.copy = audits[a].totals]
<1>5. /\ spent \in Audits /\ spent.status = "failed"
      /\ claimed \in Audits /\ claimed.status = "running" /\ claimed.totals = audits[a].totals
      /\ claimed.attempts = audits[a].attempts + 1
  <2>1. audits[a].attempts + 1 \in 0 .. MAX_ATTEMPTS + 1
      BY <1>4
  <2> QED
      BY <1>4, <2>1 DEF Audits, ActiveStatuses
<1>6. /\ state \in WorkerStates /\ state.pc = "start" /\ state.audit = a
      /\ state.copy = audits[a].totals /\ state.seen = {} /\ state.scores = NoScores
  <2>1. audits[a].totals \in Totals
      BY <1>4 DEF Audits
  <2> QED
      BY <2>1, NothingTyped DEF Off, WorkerStates
<1>7. \/ audits' = [audits EXCEPT ![a] = spent] /\ worker' = worker
      \/ ~Spent(a) /\ audits' = [audits EXCEPT ![a] = claimed] /\ worker' = [worker EXCEPT ![w] = state]
    BY <1>1
<1> HIDE DEF spent, claimed, state
<1>8. TypeOK'
    BY <1>2, <1>5, <1>6, <1>7, TypesKept
<1>9. \A b \in AuditIds \ {a} : audits'[b] = audits[b]
    BY <1>7 DEF TypeOK
<1>10. Existing' \subseteq Existing
    BY <1>3, <1>9 DEF Existing
<1>11. CASE audits' = [audits EXCEPT ![a] = spent] /\ worker' = worker
  <2>1. audits'[a] = spent
      BY <1>11 DEF TypeOK
  <2>2. ScoresBounded' /\ AttemptsBounded'
      BY <1>5, <1>9, <1>10, <1>11, <2>1 DEF ScoresBounded, AttemptsBounded, ActiveStatuses, Existing
  <2>3. \A v \in Workers, b \in AuditIds : Crawling(v, b)' => Crawling(v, b)
      BY <1>11 DEF Crawling
  <2>4. Existing' \subseteq AuditIds
      BY DEF Existing
  <2>5. Told'
      BY <1>2, <1>3, <1>5, <1>9, <1>10, <1>11, <2>1, <2>2, <2>3, <2>4, ToldKept DEF Told
  <2> QED
      BY <1>8, <2>5 DEF Told
<1>12. CASE ~Spent(a) /\ audits' = [audits EXCEPT ![a] = claimed] /\ worker' = [worker EXCEPT ![w] = state]
  <2>1. /\ audits'[a] = claimed /\ worker'[w] = state
        /\ \A v \in Workers \ {w} : worker'[v] = worker[v]
      BY <1>12 DEF TypeOK
  <2>2. claimed.attempts \in 1 .. MAX_ATTEMPTS
      BY <1>4, <1>5, <1>12 DEF Spent
  <2>3. ScoresBounded'
      BY <1>6, <2>1 DEF ScoresBounded, NoScores
  <2>4. AttemptsBounded'
      BY <1>9, <1>10, <2>1, <2>2 DEF AttemptsBounded, Existing
  <2>5. DoneIsComplete'
      BY <1>2, <1>5, <1>9, <1>10, <2>1 DEF DoneIsComplete, Existing
  <2>6. WorkersRemember'
    <3> SUFFICES ASSUME NEW v \in Workers, NEW b \in Existing' \ lapsed, Crawling(v, b)'
                 PROVE  Remembers(worker'[v], audits'[b])
        BY <1>2 DEF WorkersRemember
    <3>1. CASE v = w
      <4>1. b = a
          BY <1>6, <2>1, <3>1 DEF Crawling
      <4> QED
          BY <1>5, <1>6, <2>1, <2>2, <3>1, <4>1 DEF Remembers
    <3>2. CASE v # w
      <4>1. worker'[v] = worker[v] /\ Crawling(v, b) /\ b \in Existing \ lapsed
          BY <1>10, <2>1, <3>2 DEF Crawling
      <4>2. b \in AuditIds /\ audits'[b] = audits[b] /\ Remembers(worker[v], audits[b])
          BY <1>3, <1>9, <4>1 DEF WorkersRemember, Existing
      <4> QED
          BY <4>1, <4>2
    <3> QED
        BY <3>1, <3>2
  <2> QED
      BY <1>8, <2>3, <2>4, <2>5, <2>6
<1> QED
    BY <1>7, <1>11, <1>12

\* Where a worker is, and what is written of its audit and by it.
LEMMA Holding ==
    ASSUME AuditInv, CrawlInv, NEW w \in Workers, worker[w].pc # "idle"
    PROVE  /\ worker[w].audit \in AuditIds /\ worker[w] \in WorkerStates
           /\ worker[w].audit \in Existing => audits[worker[w].audit] \in Audits
           /\ worker[w].audit \in Existing \ lapsed => Remembers(worker[w], audits[worker[w].audit])
<1>1. worker[w].audit \in AuditIds /\ worker[w] \in WorkerStates
    BY DEF AuditInv, ShapeInv, CrawlInv, TypeOK, WorkerStates
<1>2. worker[w].audit \in Existing => audits[worker[w].audit] \in Audits
    BY DEF CrawlInv, TypeOK, Existing
<1>3. worker[w].audit \in Existing \ lapsed => Remembers(worker[w], audits[worker[w].audit])
    BY DEF CrawlInv, WorkersRemember, Crawling
<1> QED
    BY <1>1, <1>2, <1>3

\* A worker takes a step to `state` and writes `new` over its audit.
LEMMA WorkTold ==
    ASSUME AuditInv, CrawlInv, NEW w \in Workers, worker[w].pc # "idle",
           NEW a \in AuditIds, a = worker[w].audit, a \in Existing,
           NEW state \in WorkerStates, worker' = [worker EXCEPT ![w] = state],
           state.pc # "idle" => state.audit = a,
           state.scores.sum <= 100 * state.scores.number,
           NEW new \in Audits, audits' = [audits EXCEPT ![a] = new],
           new.project = audits[a].project, new.attempts = audits[a].attempts,
           new.status \in ActiveStatuses => new.status = audits[a].status,
           UNCHANGED <<projects, mirrors, req, history>>,
           a \notin lapsed =>
               /\ state.pc # "idle" => Remembers(state, new)
               /\ new.status = "done" => Complete(new)
    PROVE  CrawlInv'
<1>1. /\ audits'[a] = new /\ \A b \in AuditIds \ {a} : audits'[b] = audits[b]
      /\ DOMAIN audits' = DOMAIN audits
      /\ worker'[w] = state /\ \A v \in Workers \ {w} : worker'[v] = worker[v]
      /\ DOMAIN worker' = DOMAIN worker
    BY DEF CrawlInv, TypeOK
<1>2. TypeOK'
  <2>1. lapsed' \subseteq AuditIds
      BY DEF CrawlInv, TypeOK, history
  <2> QED
      BY <2>1, TypesKept DEF CrawlInv, history
<1>3. Stepped(w)
    BY <1>1 DEF Stepped, WorkerStates
<1>4. Rewritten(a)
  <2>1. {"project", "status", "fresh"} \subseteq DOMAIN new
      BY DEF Audits
  <2> QED
      BY <1>1, <2>1 DEF Rewritten, Existing
<1>5. Told'
  <2>1. Told /\ lapsed' = lapsed
      BY DEF CrawlInv, Told, history
  <2>2. new.status \in ActiveStatuses => new.attempts <= MAX_ATTEMPTS
      BY DEF CrawlInv, AttemptsBounded
  <2>3. worker'[w].scores.sum <= 100 * worker'[w].scores.number
      BY <1>1
  <2>4. worker'[w].pc = state.pc /\ audits'[a].status = new.status /\ audits'[a].attempts = new.attempts
      BY <1>1
  <2>5. a \in Existing' \ lapsed =>
            /\ worker'[w].pc # "idle" => Remembers(worker'[w], audits'[a])
            /\ audits'[a].status = "done" => Complete(audits'[a])
      BY <1>1, <2>4
  <2> QED
      BY <1>3, <1>4, <2>1, <2>2, <2>3, <2>4, <2>5, ToldStep
<1> QED
    BY <1>2, <1>5 DEF CrawlInv, Told

\* A worker lets go of its audit: it failed it, or died.
LEMMA FailTold ==
    ASSUME AuditInv, CrawlInv, NEW w \in Workers, worker[w].pc # "idle", FailAudit(w) \/ Crash(w),
           UNCHANGED <<projects, mirrors, req, history>>
    PROVE  CrawlInv'
<1>0. PICK a \in AuditIds : a = worker[w].audit
    BY Holding
<1>1. a \in Existing => audits[a] \in Audits
    BY <1>0, Holding
<1>2. worker' = [worker EXCEPT ![w] = Off] /\ Off \in WorkerStates
    BY NothingTyped DEF FailAudit, Crash
<1>3. Off.pc = "idle" /\ Off.scores.sum <= 100 * Off.scores.number
    BY DEF Off, NoScores
<1>4. CASE a \in Existing /\ audits' = [audits EXCEPT ![a].status = "failed", ![a].fresh = FALSE]
  <2> DEFINE new == [audits[a] EXCEPT !.status = "failed", !.fresh = FALSE]
  <2>1. /\ new \in Audits /\ new.project = audits[a].project /\ new.attempts = audits[a].attempts
        /\ new.status = "failed" /\ "failed" \notin ActiveStatuses
      BY <1>1, <1>4 DEF Audits, ActiveStatuses
  <2>2. audits' = [audits EXCEPT ![a] = new]
      BY <1>4
  <2> HIDE DEF new
  <2>3. /\ Off.pc # "idle" => Off.audit = a
        /\ new.status \in ActiveStatuses => new.status = audits[a].status
        /\ a \notin lapsed =>
              /\ Off.pc # "idle" => Remembers(Off, new)
              /\ new.status = "done" => Complete(new)
        /\ a \in Existing
      BY <1>3, <1>4, <2>1
  <2> QED
      BY <1>0, <1>2, <1>3, <2>1, <2>2, <2>3, WorkTold
<1>5. CASE audits' = audits
  <2>1. worker'[w] = Off /\ \A v \in Workers \ {w} : worker'[v] = worker[v]
      BY <1>2 DEF CrawlInv, TypeOK
  <2>2. \A v \in Workers, b \in AuditIds :
            Crawling(v, b)' => Crawling(v, b) /\ worker'[v] = worker[v]
      BY <1>3, <2>1 DEF Crawling
  <2>3. ScoresBounded' /\ AttemptsBounded'
      BY <1>3, <1>5, <2>1 DEF CrawlInv, ScoresBounded, AttemptsBounded, Existing
  <2>4. Existing' = Existing /\ Existing \subseteq AuditIds /\ lapsed' = lapsed
      BY <1>5 DEF Existing, history
  <2>5. Told'
      BY <1>5, <2>2, <2>3, <2>4, ToldKept DEF CrawlInv, Told
  <2>6. TypeOK'
    <3>1. lapsed' \subseteq AuditIds
        BY DEF CrawlInv, TypeOK, history
    <3> QED
        BY <1>1, <1>2, <1>5, <3>1, TypesKept DEF CrawlInv, history
  <2> QED
      BY <2>5, <2>6 DEF CrawlInv, Told
<1> QED
    BY <1>0, <1>4, <1>5 DEF FailAudit, Crash, dbVars

\* The clean page set: what the worker remembers of it is nothing.
LEMMA StartTold ==
    ASSUME AuditInv, CrawlInv, NEW w \in Workers, StartCrawl(w)
    PROVE  CrawlInv'
<1>1. PICK a \in AuditIds : a = worker[w].audit
    BY Holding DEF StartCrawl
<1>2. /\ worker[w].pc = "start" /\ a \in Existing
      /\ UNCHANGED <<projects, mirrors, req, history>>
      /\ audits' = [audits EXCEPT ![a].pages = {}, ![a].fresh = Heartbeat(a),
                       ![a].totals = Written(@, worker[w].copy, Nothing)]
      /\ worker' = [worker EXCEPT ![w].pc = "crawl", ![w].todo = Urls, ![w].copy = Nothing]
    BY <1>1 DEF StartCrawl
<1>3. /\ worker[w] \in WorkerStates /\ audits[a] \in Audits
      /\ a \notin lapsed => Remembers(worker[w], audits[a])
    BY <1>1, <1>2, Holding
<1> DEFINE totals == Written(audits[a].totals, worker[w].copy, Nothing)
           fresh == Heartbeat(a)
           new == [audits[a] EXCEPT !.pages = {}, !.fresh = fresh, !.totals = totals]
           state == [worker[w] EXCEPT !.pc = "crawl", !.todo = Urls, !.copy = Nothing]
<1>4. /\ totals \in Totals /\ fresh \in BOOLEAN
      /\ audits[a].totals = worker[w].copy => totals = Nothing
  <2>1. audits[a].totals \in Totals /\ worker[w].copy \in Totals
      BY <1>3 DEF Audits, WorkerStates
  <2> QED
      BY <2>1, NothingTyped, TotalsWritten DEF Heartbeat
<1>5. audits' = [audits EXCEPT ![a] = new] /\ worker' = [worker EXCEPT ![w] = state]
    BY <1>2
<1> HIDE DEF totals, fresh
<1>6. /\ new \in Audits /\ new.project = audits[a].project /\ new.attempts = audits[a].attempts
      /\ new.status = audits[a].status /\ new.pages = {} /\ new.totals = totals
    BY <1>3, <1>4 DEF Audits
<1>7. /\ state \in WorkerStates /\ state.pc = "crawl" /\ state.audit = a /\ state.copy = Nothing
      /\ state.seen = worker[w].seen /\ state.scores = worker[w].scores
    BY <1>1, <1>3, NothingTyped DEF WorkerStates
<1> HIDE DEF new, state
<1>8. state.scores.sum <= 100 * state.scores.number
    BY <1>7 DEF CrawlInv, ScoresBounded
<1>9. worker'[w] = state /\ audits'[a] = new
    BY <1>5 DEF CrawlInv, TypeOK
<1>10. ASSUME a \notin lapsed PROVE new.status # "done" /\ Remembers(state, new)
  <2>1. /\ audits[a].attempts \in 1 .. MAX_ATTEMPTS /\ worker[w].copy = audits[a].totals
        /\ worker[w].seen = {} /\ worker[w].scores = NoScores
      BY <1>2, <1>3, <1>10 DEF Remembers
  <2>2. new.status # "done"
      BY <1>1, <1>2, <1>6, <1>10 DEF AuditInv, ClaimsInv, Crawling
  <2>3. /\ IsFiniteSet({}) /\ OnePerFinal({}) /\ Tally({}) = Nothing
        /\ ScoresOf({}) = {} /\ {r.final : r \in {}} = {}
      BY FS_EmptySet, NothingTallied DEF OnePerFinal, ScoresOf
  <2>4. Averages(NoScores, {})
      BY DEF Averages, NoScores
  <2> QED
      BY <1>4, <1>6, <1>7, <1>9, <2>1, <2>2, <2>3, <2>4 DEF Remembers
<1>11. /\ worker[w].pc # "idle" /\ a \in Existing /\ (state.pc # "idle" => state.audit = a)
       /\ UNCHANGED <<projects, mirrors, req, history>>
       /\ new.status \in ActiveStatuses => new.status = audits[a].status
       /\ a \notin lapsed =>
             /\ state.pc # "idle" => Remembers(state, new)
             /\ new.status = "done" => Complete(new)
    BY <1>2, <1>6, <1>7, <1>10
<1> QED
    BY <1>1, <1>5, <1>6, <1>7, <1>8, <1>11, WorkTold

\* One more page: a row for a URL that has none yet, counted on both sides.
LEMMA NewRowRemembered ==
    ASSUME NEW own \in WorkerStates, own.pc = "crawl", NEW audit, Remembers(own, audit),
           NEW f, NEW row, \A other \in audit.pages : other.final # f,
           NEW state, state.pc = "crawl", state.seen = own.seen \cup {f},
           state.copy = Counted(own.copy, row), state.scores = Scored(own.scores, row),
           NEW new, new.attempts = audit.attempts, new.totals = Counted(own.copy, row),
           new.pages = audit.pages \cup {[final |-> f, page |-> row]}
    PROVE  Remembers(state, new)
<1>1. PICK entry : entry = [final |-> f, page |-> row]
    OBVIOUS
<1>2. entry.final = f /\ entry.page = row /\ new.pages = audit.pages \cup {entry}
    BY <1>1
<1> DEFINE old == audit.pages
           pages == old \cup {entry}
<1>3. /\ audit.attempts \in 1 .. MAX_ATTEMPTS
      /\ IsFiniteSet(old) /\ own.seen = {r.final : r \in old} /\ OnePerFinal(old)
      /\ own.copy = Tally(old) /\ Averages(own.scores, ScoresOf(old))
    BY DEF Remembers
<1>4. entry \notin old
    BY <1>2
<1>5. own.scores \in Scores
    BY DEF WorkerStates, Scores
<1>6. {r.final : r \in pages} = {r.final : r \in old} \cup {f}
    BY <1>2
<1>7. OnePerFinal(pages)
    BY <1>2, <1>3 DEF OnePerFinal
<1> HIDE DEF old
<1>8. IsFiniteSet(pages)
    BY <1>3, FS_AddElement
<1>9. Tally(pages) = Counted(own.copy, row)
    BY <1>2, <1>3, <1>4, TallyGrows
<1>10. Averages(Scored(own.scores, row), ScoresOf(pages))
  <2>1. Averages(Scored(own.scores, entry.page), ScoresOf(old \cup {entry}))
      BY <1>3, <1>5, AveragesGrow
  <2> QED
      BY <1>2, <2>1
<1>11. new.pages = pages
    BY <1>2 DEF old
<1> HIDE DEF pages
<1> QED
    BY <1>3, <1>6, <1>7, <1>8, <1>9, <1>10, <1>11 DEF Remembers

LEMMA PageTold ==
    ASSUME AuditInv, CrawlInv, NEW w \in Workers, NEW u \in Urls, NEW f \in Finals,
           CrawlPage(w, u, f)
    PROVE  CrawlInv'
<1>1. worker[w].pc = "crawl" /\ UNCHANGED <<projects, mirrors, req, history>>
    BY DEF CrawlPage
<1>2. PICK a \in AuditIds : a = worker[w].audit
    BY <1>1, Holding
<1>3. CASE FailAudit(w)
    BY <1>1, <1>3, FailTold
<1>4. CASE /\ a \in Existing
           /\ worker' = [worker EXCEPT ![w].todo = @ \ {u}]
           /\ audits' = [audits EXCEPT ![a].fresh = Heartbeat(a)]
  <2>1. /\ worker[w] \in WorkerStates /\ audits[a] \in Audits
        /\ a \notin lapsed => Remembers(worker[w], audits[a])
      BY <1>1, <1>2, <1>4, Holding
  <2> DEFINE new == [audits[a] EXCEPT !.fresh = Heartbeat(a)]
             state == [worker[w] EXCEPT !.todo = @ \ {u}]
  <2>2. audits' = [audits EXCEPT ![a] = new] /\ worker' = [worker EXCEPT ![w] = state]
      BY <1>4
  <2>3. /\ new \in Audits /\ new.project = audits[a].project /\ new.attempts = audits[a].attempts
        /\ new.status = audits[a].status /\ new.pages = audits[a].pages
        /\ new.totals = audits[a].totals
    <3>1. Heartbeat(a) \in BOOLEAN
        BY DEF Heartbeat
    <3> QED
        BY <2>1, <3>1 DEF Audits
  <2>4. /\ state \in WorkerStates /\ state.pc = "crawl" /\ state.audit = a
        /\ state.copy = worker[w].copy /\ state.seen = worker[w].seen
        /\ state.scores = worker[w].scores
      BY <1>1, <1>2, <2>1 DEF WorkerStates
  <2> HIDE DEF new, state
  <2>5. ASSUME a \notin lapsed PROVE new.status # "done" /\ Remembers(state, new)
    <3>1. new.status # "done"
        BY <1>1, <1>2, <1>4, <2>3, <2>5 DEF AuditInv, ClaimsInv, Crawling
    <3> QED
        BY <1>1, <2>1, <2>3, <2>4, <2>5, <3>1 DEF Remembers
  <2>6. /\ worker[w].pc # "idle" /\ a \in Existing /\ (state.pc # "idle" => state.audit = a)
        /\ new.status \in ActiveStatuses => new.status = audits[a].status
        /\ a \notin lapsed =>
              /\ state.pc # "idle" => Remembers(state, new)
              /\ new.status = "done" => Complete(new)
        /\ state.scores.sum <= 100 * state.scores.number
      BY <1>1, <1>4, <2>3, <2>4, <2>5 DEF CrawlInv, ScoresBounded
  <2> QED
      BY <1>1, <1>2, <2>2, <2>3, <2>4, <2>6, WorkTold
<1>5. CASE /\ a \in Existing /\ ~Repeated(w, f) /\ \A other \in audits[a].pages : other.final # f
           /\ worker' = [worker EXCEPT ![w].todo = @ \ {u}, ![w].seen = @ \cup {f},
                            ![w].copy = Counted(worker[w].copy, RowOf[u][f]),
                            ![w].scores = Scored(@, RowOf[u][f])]
           /\ audits' = [audits EXCEPT ![a].fresh = Heartbeat(a),
                            ![a].pages = @ \cup {[final |-> f, page |-> RowOf[u][f]]},
                            ![a].totals = Written(@, worker[w].copy,
                                                  Counted(worker[w].copy, RowOf[u][f]))]
  <2>1. /\ worker[w] \in WorkerStates /\ audits[a] \in Audits
        /\ a \notin lapsed => Remembers(worker[w], audits[a])
      BY <1>1, <1>2, <1>5, Holding
  <2> DEFINE row == RowOf[u][f]
             copy == Counted(worker[w].copy, row)
             scores == Scored(worker[w].scores, row)
             totals == Written(audits[a].totals, worker[w].copy, copy)
             fresh == Heartbeat(a)
             pages == audits[a].pages \cup {[final |-> f, page |-> row]}
             new == [audits[a] EXCEPT !.fresh = fresh, !.pages = pages, !.totals = totals]
             state == [worker[w] EXCEPT !.todo = @ \ {u}, !.seen = @ \cup {f},
                                        !.copy = copy, !.scores = scores]
  <2>2. audits' = [audits EXCEPT ![a] = new] /\ worker' = [worker EXCEPT ![w] = state]
      BY <1>5
  <2>3. a \in Existing /\ \A other \in audits[a].pages : other.final # f
      BY <1>5
  <2>4. /\ copy \in Totals /\ totals \in Totals /\ fresh \in BOOLEAN
        /\ audits[a].totals = worker[w].copy => totals = copy
    <3>1. audits[a].totals \in Totals /\ worker[w].copy \in Totals
        BY <2>1 DEF Audits, WorkerStates
    <3>2. copy \in Totals
        BY <3>1, TotalsCounted
    <3> HIDE DEF copy
    <3> QED
        BY <3>1, <3>2, TotalsWritten DEF Heartbeat
  <2>5. scores \in Scores /\ scores.sum <= 100 * scores.number
    <3>1. worker[w].scores \in Scores
        BY <2>1 DEF WorkerStates, Scores
    <3>2. worker[w].scores.sum <= 100 * worker[w].scores.number
        BY DEF CrawlInv, ScoresBounded
    <3> HIDE DEF row
    <3> QED
        BY <3>1, <3>2, ScoresCounted
  <2>6. pages \subseteq Rows
    <3>1. [final |-> f, page |-> row] \in Rows
        BY RowsWritten
    <3> HIDE DEF row
    <3> QED
        BY <2>1, <3>1 DEF Audits
  <2> HIDE DEF row, copy, scores, totals, fresh, pages
  <2>7. /\ new \in Audits /\ new.project = audits[a].project /\ new.attempts = audits[a].attempts
        /\ new.status = audits[a].status /\ new.pages = pages /\ new.totals = totals
      BY <2>1, <2>4, <2>6 DEF Audits
  <2>8. /\ state \in WorkerStates /\ state.pc = "crawl" /\ state.audit = a /\ state.copy = copy
        /\ state.seen = worker[w].seen \cup {f} /\ state.scores = scores
      BY <1>1, <1>2, <2>1, <2>4, <2>5 DEF WorkerStates, Scores
  <2> HIDE DEF new, state
  <2>9. ASSUME a \notin lapsed PROVE new.status # "done" /\ Remembers(state, new)
    <3>1. new.status # "done"
        BY <1>1, <1>2, <2>3, <2>7, <2>9 DEF AuditInv, ClaimsInv, Crawling
    <3>2. audits[a].totals = worker[w].copy
        BY <2>1, <2>9 DEF Remembers
    <3>3. /\ state.copy = Counted(worker[w].copy, row) /\ state.scores = Scored(worker[w].scores, row)
          /\ new.totals = Counted(worker[w].copy, row)
          /\ new.pages = audits[a].pages \cup {[final |-> f, page |-> row]}
        BY <2>4, <2>7, <2>8, <3>2 DEF copy, scores, pages
    <3> QED
        <4> DEFINE own == worker[w]
                   audit == audits[a]
        <4>1. /\ own \in WorkerStates /\ own.pc = "crawl" /\ Remembers(own, audit)
              /\ \A other \in audit.pages : other.final # f
              /\ state.pc = "crawl" /\ state.seen = own.seen \cup {f}
            BY <1>1, <2>1, <2>3, <2>8, <2>9
        <4>2. /\ state.copy = Counted(own.copy, row) /\ state.scores = Scored(own.scores, row)
              /\ new.attempts = audit.attempts /\ new.totals = Counted(own.copy, row)
              /\ new.pages = audit.pages \cup {[final |-> f, page |-> row]}
            BY <2>7, <3>3
        <4> HIDE DEF own, audit
        <4>3. Remembers(state, new)
            BY <4>1, <4>2, NewRowRemembered
        <4> QED
            BY <3>1, <4>3
  <2>10. /\ worker[w].pc # "idle" /\ (state.pc # "idle" => state.audit = a)
         /\ new.status \in ActiveStatuses => new.status = audits[a].status
         /\ a \notin lapsed =>
               /\ state.pc # "idle" => Remembers(state, new)
               /\ new.status = "done" => Complete(new)
         /\ state.scores.sum <= 100 * state.scores.number
      BY <1>1, <2>5, <2>7, <2>8, <2>9
  <2> QED
      BY <1>1, <1>2, <2>2, <2>3, <2>7, <2>8, <2>10, WorkTold
<1> QED
    BY <1>2, <1>3, <1>4, <1>5, Zenon DEF CrawlPage

\* The result is what the worker remembers, and that is what its rows tell.
LEMMA FinishTold ==
    ASSUME AuditInv, CrawlInv, NEW w \in Workers, Finish(w)
    PROVE  CrawlInv'
<1>1. /\ worker[w].pc = "crawl" /\ UNCHANGED <<projects, mirrors, req, history>>
    BY DEF Finish
<1>2. PICK a \in AuditIds : a = worker[w].audit
    BY <1>1, Holding
<1>3. CASE a \notin Existing
    BY <1>1, <1>2, <1>3, FailTold DEF Finish
<1>4. CASE a \in Existing
  <2> DEFINE health == AuditHealth(worker[w].scores.sum, worker[w].scores.number, None)
             new == [audits[a] EXCEPT !.status = "done", !.fresh = FALSE, !.health = health]
  <2>1. audits' = [audits EXCEPT ![a] = new] /\ worker' = [worker EXCEPT ![w] = Off]
      BY <1>2, <1>4 DEF Finish
  <2>2. /\ worker[w] \in WorkerStates /\ audits[a] \in Audits
        /\ a \notin lapsed => Remembers(worker[w], audits[a])
      BY <1>1, <1>2, <1>4, Holding
  <2>3. worker[w].scores \in Scores /\ health \in (0 .. 100) \cup {None}
    <3>1. worker[w].scores \in Scores
        BY <2>2 DEF WorkerStates, Scores
    <3>2. worker[w].scores.sum <= 100 * worker[w].scores.number
        BY DEF CrawlInv, ScoresBounded
    <3> QED
        BY <3>1, <3>2, HealthTyped
  <2> HIDE DEF health
  <2>4. /\ new \in Audits /\ new.project = audits[a].project /\ new.attempts = audits[a].attempts
        /\ new.status = "done" /\ new.pages = audits[a].pages /\ new.totals = audits[a].totals
        /\ new.health = health
      BY <2>2, <2>3 DEF Audits
  <2> HIDE DEF new
  <2>5. ASSUME a \notin lapsed PROVE Complete(new)
    <3>1. /\ audits[a].attempts \in 1 .. MAX_ATTEMPTS /\ OnePerFinal(audits[a].pages)
          /\ audits[a].totals = Tally(audits[a].pages)
          /\ Averages(worker[w].scores, ScoresOf(audits[a].pages))
        BY <1>1, <2>2, <2>5 DEF Remembers
    <3>2. IF ScoresOf(audits[a].pages) = {} THEN health = None
          ELSE health \in Min(ScoresOf(audits[a].pages)) .. Max(ScoresOf(audits[a].pages))
        BY <2>3, <3>1, HealthBetween DEF health
    <3> QED
        BY <2>4, <3>1, <3>2 DEF Complete
  <2>6. /\ Off \in WorkerStates /\ Off.pc = "idle" /\ Off.scores.sum <= 100 * Off.scores.number
      BY NothingTyped DEF Off, NoScores
  <2>7. /\ worker[w].pc # "idle" /\ a \in Existing /\ (Off.pc # "idle" => Off.audit = a)
        /\ new.status \in ActiveStatuses => new.status = audits[a].status
        /\ a \notin lapsed =>
              /\ Off.pc # "idle" => Remembers(Off, new)
              /\ new.status = "done" => Complete(new)
      BY <1>1, <1>4, <2>4, <2>5, <2>6 DEF ActiveStatuses
  <2> QED
      BY <1>1, <1>2, <2>1, <2>4, <2>6, <2>7, WorkTold
<1> QED
    BY <1>3, <1>4

-----------------------------------------------------------------------------
LEMMA InitTold == Init => CrawlInv
<1> SUFFICES ASSUME Init PROVE CrawlInv
    OBVIOUS
<1>1. Existing = {} /\ \A w \in Workers : worker[w] = Off
    BY DEF Init, Existing
<1>2. TypeOK
  <2>1. worker \in [Workers -> WorkerStates]
      BY NothingTyped DEF Init
  <2> QED
      BY <2>1, AuditAssumption DEF Init, TypeOK, NoRequest, WorkerStates
<1>3. DoneIsComplete /\ WorkersRemember /\ AttemptsBounded
    BY <1>1 DEF DoneIsComplete, WorkersRemember, AttemptsBounded
<1>4. ScoresBounded
    BY <1>1 DEF ScoresBounded, Off, NoScores
<1> QED
    BY <1>2, <1>3, <1>4 DEF CrawlInv

LEMMA NextTold == AuditInv /\ CrawlInv /\ [Next]_vars => CrawlInv'
<1> SUFFICES ASSUME AuditInv, CrawlInv, [Next]_vars PROVE CrawlInv'
    OBVIOUS
<1>0. AuditInv'
    BY NextInvariant
<1>1. CASE UNCHANGED vars
    BY <1>1 DEF vars, dbVars, history, CrawlInv, TypeOK, DoneIsComplete, WorkersRemember,
                ScoresBounded, AttemptsBounded, Existing, Crawling
<1>2. ASSUME NEW r \in Requests,
             \/ \E u \in Users, d \in Domains : CreateProject(r, u, d)
             \/ \E p \in ProjectIds : RequestAudit(r, p)
      PROVE  CrawlInv'
  <2>1. UNCHANGED <<dbVars, worker, history>>
      BY <1>2, Zenon DEF CreateProject, RequestAudit
  <2> QED
      BY <1>2, <2>1, AskingTold
<1>3. ASSUME NEW r \in Requests, CommitCreate(r) \/ CommitAudit(r) PROVE CrawlInv'
    BY <1>0, <1>3, CommitTold
<1>4. ASSUME NEW p \in ProjectIds, DeleteProject(p) PROVE CrawlInv'
    BY <1>0, <1>4, DeleteTold
<1>5. ASSUME NEW w \in Workers, Claim(w) PROVE CrawlInv'
    BY <1>5, ClaimTold
<1>6. ASSUME NEW w \in Workers, Work(w) PROVE CrawlInv'
    BY <1>6, StartTold, PageTold, FinishTold, FailTold DEF Work, CrawlFails
<1>7. ASSUME NEW w \in Workers, Crash(w) PROVE CrawlInv'
    BY <1>7, FailTold DEF Crash, dbVars
<1>8. ASSUME NEW a \in AuditIds, Lapse(a) PROVE CrawlInv'
    BY <1>8, LapseTold
<1> QED
    BY <1>1, <1>2, <1>3, <1>4, <1>5, <1>6, <1>7, <1>8 DEF Next

LEMMA CrawlInvariant == Spec => []CrawlInv
    BY InitTold, NextTold, Invariance, PTL DEF Spec

\* run_site_audit and process_claimed_audit: for any crawlers, URLs and pages, a
\* project is crawled by one worker at a time, and a finished audit no claim ran
\* out on is one whole crawl: a row for each final URL, counters that are the
\* findings of its rows, a health between its worst and its best page.
THEOREM CrawlsAreSound == Spec => []CrawlsSound
<1>1. CrawlInv => TypeOK /\ DoneIsComplete
    BY DEF CrawlInv
<1>2. TypeOK /\ DoneIsComplete /\ CrawledByOne => CrawlsSound
    BY DEF CrawlsSound
<1> QED
    BY <1>1, <1>2, CrawlInvariant, ClaimsExclusive, PTL

=============================================================================
