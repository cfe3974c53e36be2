------------------------- MODULE LabIdentityProofs --------------------------
(***************************************************************************)
(* Proofs about LabIdentity, for any number of users, labs, invites,       *)
(* tokens and overlapping requests.  The inductive invariant says what a   *)
(* request that is under way may still rely on when it commits.  A removal *)
(* that has been checked holds the lock of an admin other than its target, *)
(* a request locks the row it is going to change, and two requests never   *)
(* hold the same lock: so the admin that was found is still there when the *)
(* removal commits.  A revocation that has locked its invite finds it      *)
(* unused, and the tokens that an issuing request has read exist, so the   *)
(* token it inserts is none of them.                                       *)
(***************************************************************************)
EXTENDS LabIdentity, TLAPS

RowJobs == Removals \cup {"promote", "reactivate"}

IsAdmin(u, l) == u \in User /\ users[u].lab = l /\ users[u].active /\ users[u].role = "lab_admin"

\* What a request of this kind has in hand.
Subject(p, j) ==
    /\ p = "check" => j.kind \in Removals
    /\ p = "write" => j.kind \in RowJobs
    /\ p = "lock" => j.kind = "revoke"
    /\ j.kind \in RowJobs => j.who \in User /\ users[j.who].lab = j.lab /\ j.lab # None
    /\ j.kind \in {"issue", "setup", "register"} => j.who \in User
    /\ j.kind = "setup" => j.lab \in Slug
    /\ j.kind \in {"revoke", "register"} => j.invite \in Invite

\* A checked removal has locked an admin that will remain.
Keeper(j) == j.checked => \E a \in j.locked : a # j.who /\ IsAdmin(a, j.lab)

\* The row that is about to change is locked.
OwnLock(p, j) == p = "commit" /\ j.kind \in RowJobs /\ Changes(j) => j.who \in j.locked

\* An invite that is about to be revoked was not used.
StillUnused(p, j) == p = "commit" /\ j.kind = "revoke" => invites[j.invite].usedBy = None

\* The tokens that it has read exist.
PriorExist(j) ==
    /\ \A s \in j.prior : tokens[s].state # "absent"
    /\ j.kind = "activate" => j.token \in Token /\ tokens[j.token].state # "absent"

ReqOK(p, j) == Subject(p, j) /\ Keeper(j) /\ OwnLock(p, j) /\ StillUnused(p, j) /\ PriorExist(j)

Requests == \A w \in Request : ReqOK(pc[w], job[w])

\* Two transactions never hold the lock of the same row.
LocksDisjoint == \A v, w \in Request : v # w => job[v].locked \cap job[w].locked = {}

TokensNamed == \A t \in Token : tokens[t].state # "absent" => tokens[t].user \in User

Remains == AdminRemains /\ InviteStatusTells

IdentityInv == TypeOK /\ TokensNamed /\ Requests /\ LocksDisjoint /\ Remains

IdleJob == [kind |-> "none", lab |-> None, who |-> None, seen |-> NoRow, checked |-> FALSE,
            locked |-> {}, invite |-> None, token |-> None, purpose |-> "activation", prior |-> {},
            beside |-> FALSE]

-----------------------------------------------------------------------------
(* Jobs *)

\* What the transaction ends with.
LEMMA IdleFacts ==
    /\ NewJob("none", None, None) = IdleJob
    /\ IdleJob \in Job
    /\ ReqOK("done", IdleJob)
<1>1. NewJob("none", None, None) = IdleJob
  BY IdentityAssumption DEF NewJob, IdleJob
<1>2. IdleJob \in Job
  BY DEF IdleJob, Job, Kind, NoRow, Row, Role
<1>3. ReqOK("done", IdleJob)
  BY DEF ReqOK, Subject, Keeper, OwnLock, StillUnused, PriorExist, IdleJob, RowJobs, Removals
<1> QED BY <1>1, <1>2, <1>3

\* A user's row, or the empty one.
LEMMA SeenType ==
    ASSUME TypeOK, NEW u
    PROVE  (IF u \in User THEN users[u] ELSE NoRow) \in Row
BY DEF TypeOK, NoRow, Row, Role

-----------------------------------------------------------------------------
(* Steps of one request *)

\* A request moves on and writes nothing; what it has locked was free.
LEMMA MoveStep ==
    ASSUME IdentityInv, NEW w \in Request, NEW j \in Job, NEW p \in {"check", "write", "lock", "commit"},
           pc' = [pc EXCEPT ![w] = p], job' = [job EXCEPT ![w] = j], UNCHANGED tables,
           ReqOK(p, j), \A v \in Request \ {w} : job[v].locked \cap j.locked = {}
    PROVE  IdentityInv'
<1> USE DEF IdentityInv, tables
<1>1. TypeOK'
  BY DEF TypeOK
<1>2. TokensNamed' /\ Remains'
  BY DEF TokensNamed, Remains, AdminRemains, InviteStatusTells, AdminsIn
<1>3. /\ job'[w] = j /\ pc'[w] = p
      /\ \A v \in Request \ {w} : job'[v] = job[v] /\ pc'[v] = pc[v]
  BY DEF TypeOK
<1>4. ASSUME NEW v \in Request PROVE ReqOK(pc[v], job[v])'
  <2>1. ReqOK(pc'[v], job'[v])
    BY <1>3 DEF Requests
  <2>2. users' = users /\ invites' = invites /\ tokens' = tokens
    OBVIOUS
  <2> QED BY <2>1, <2>2 DEF ReqOK, Subject, Keeper, OwnLock, StillUnused, PriorExist, IsAdmin, Changes
<1>5. Requests'
  BY <1>4 DEF Requests
<1>6. LocksDisjoint'
  BY <1>3 DEF LocksDisjoint
<1> QED BY <1>1, <1>2, <1>5, <1>6

\* A request arrives with nothing checked and nothing locked.
LEMMA ArriveStep ==
    ASSUME IdentityInv, NEW w \in Request, NEW j \in Job, NEW p \in {"check", "write", "lock", "commit"},
           Arrive(w, j, p),
           j.checked = FALSE, j.locked = {}, Subject(p, j), PriorExist(j),
           p = "commit" => j.kind \notin RowJobs \cup {"revoke"}
    PROVE  IdentityInv'
<1>1. ReqOK(p, j)
  BY DEF ReqOK, Keeper, OwnLock, StillUnused
<1> QED BY <1>1, MoveStep DEF Arrive

\* What the others rely on when the tables change: a user stays in the lab, a
\* row that is locked by another request stays the row of an admin, a token
\* stays, and an invite that another request is revoking stays unused.
LEMMA OthersKeep ==
    ASSUME IdentityInv, NEW v \in Request, pc'[v] = pc[v], job'[v] = job[v],
           \A u \in User : users[u].lab # None => users'[u].lab = users[u].lab,
           \A a \in job[v].locked, l \in Slug \cup {None} : IsAdmin(a, l) => IsAdmin(a, l)',
           \A s \in Token : tokens[s].state # "absent" => tokens'[s].state # "absent",
           StillUnused(pc[v], job[v]) => StillUnused(pc[v], job[v])'
    PROVE  ReqOK(pc[v], job[v])'
<1>1. ReqOK(pc[v], job[v]) /\ job[v] \in Job
  BY DEF IdentityInv, Requests, TypeOK
<1>2. Subject(pc[v], job[v])'
  BY <1>1 DEF ReqOK, Subject
<1>3. Keeper(job[v])'
  BY <1>1 DEF ReqOK, Keeper, Job
<1>4. OwnLock(pc[v], job[v])'
  BY <1>1 DEF ReqOK, OwnLock, Changes
<1>5. StillUnused(pc[v], job[v])'
  BY <1>1 DEF ReqOK
<1>6. PriorExist(job[v])'
  BY <1>1 DEF ReqOK, PriorExist, Job
<1> QED BY <1>2, <1>3, <1>4, <1>5, <1>6 DEF ReqOK

\* A request ends: what is left to show is about the tables and the others.
LEMMA EndStep ==
    ASSUME IdentityInv, NEW w \in Request, End(w),
           labs' \subseteq Slug, users' \in [User -> Row], invites' \in [Invite -> InviteRow],
           tokens' \in [Token -> TokenRow], stale' \subseteq User,
           TokensNamed', Remains',
           \A v \in Request \ {w} :
               pc'[v] = pc[v] /\ job'[v] = job[v] => ReqOK(pc[v], job[v])'
    PROVE  IdentityInv'
<1>1. /\ job' = [job EXCEPT ![w] = IdleJob] /\ pc' = [pc EXCEPT ![w] = "done"]
  BY IdleFacts DEF End
<1>2. job \in [Request -> Job] /\ pc \in [Request -> {"new", "check", "write", "lock", "commit", "done"}]
  BY DEF IdentityInv, TypeOK
<1>3. TypeOK'
  BY <1>1, <1>2, IdleFacts DEF TypeOK
<1>4. /\ job'[w] = IdleJob /\ pc'[w] = "done"
      /\ \A v \in Request \ {w} : job'[v] = job[v] /\ pc'[v] = pc[v]
  BY <1>1, <1>2
<1>5. ReqOK(pc[w], job[w])'
  BY <1>4 DEF ReqOK, Subject, Keeper, OwnLock, StillUnused, PriorExist, IdleJob, RowJobs, Removals
<1>6. Requests'
  BY <1>4, <1>5 DEF Requests
<1>7. LocksDisjoint'
  BY <1>4 DEF LocksDisjoint, IdentityInv, IdleJob
<1> QED BY <1>3, <1>6, <1>7 DEF IdentityInv

\* The same when nothing was written.
LEMMA EndUnchanged ==
    ASSUME IdentityInv, NEW w \in Request, End(w), UNCHANGED tables
    PROVE  IdentityInv'
<1> USE DEF tables
<1>1. TokensNamed' /\ Remains'
  BY DEF IdentityInv, TokensNamed, Remains, AdminRemains, InviteStatusTells, AdminsIn
<1>2. ASSUME NEW v \in Request \ {w}, pc'[v] = pc[v] /\ job'[v] = job[v] PROVE ReqOK(pc[v], job[v])'
  BY <1>2, OthersKeep DEF IsAdmin, StillUnused
<1> QED BY <1>1, <1>2, EndStep DEF IdentityInv, TypeOK

\* Every request that arrives has in hand what its kind needs.
LEMMA BeginStep ==
    ASSUME IdentityInv, NEW w \in Request, Begin(w)
    PROVE  IdentityInv'
<1> USE DEF IdentityInv
<1>t. /\ users \in [User -> Row] /\ invites \in [Invite -> InviteRow]
      /\ tokens \in [Token -> TokenRow]
  BY DEF TypeOK
<1>k. /\ "issue" \in Kind /\ "activate" \in Kind /\ "register" \in Kind
      /\ "revoke" \in Kind /\ "setup" \in Kind
  BY DEF Kind
<1>l. \A u \in User : users[u].lab \in Slug \cup {None}
  BY <1>t DEF Row
<1>1. ASSUME NEW a \in User, NEW u \in User, NEW k \in RowJobs, NEW p \in {"check", "write"},
             RequireAdmin(a), SameLab(a, u), p = "check" => k \in Removals,
             Arrive(w, NewJob(k, users[a].lab, u), p)
      PROVE  IdentityInv'
  <2> DEFINE j == NewJob(k, users[a].lab, u)
  <2>1. k \in Kind
    BY DEF RowJobs, Kind, Removals
  <2>2. /\ j \in Job /\ j.kind = k /\ j.lab = users[a].lab /\ j.who = u
        /\ j.checked = FALSE /\ j.locked = {} /\ j.prior = {}
    BY <2>1, <1>l, SeenType DEF NewJob, Job
  <2> HIDE DEF j
  <2>3. Subject(p, j) /\ PriorExist(j)
    BY <1>1, <2>2 DEF Subject, PriorExist, RequireAdmin, SameLab, RowJobs, Removals
  <2>4. Arrive(w, j, p)
    BY <1>1 DEF j
  <2> QED BY <2>2, <2>3, <2>4, <1>1, ArriveStep
<1>2. ASSUME NEW a \in User, NEW u \in User, NEW r \in Role, ChangeRole(w, a, u, r) PROVE IdentityInv'
  <2> DEFINE k == IF r = "user" THEN "demote" ELSE "promote"
             p == IF users[u].role = "lab_admin" /\ r = "user" THEN "check" ELSE "write"
  <2>1. k \in RowJobs /\ p \in {"check", "write"} /\ (p = "check" => k \in Removals)
    BY DEF RowJobs, Removals
  <2>2. RequireAdmin(a) /\ SameLab(a, u) /\ Arrive(w, NewJob(k, users[a].lab, u), p)
    BY <1>2 DEF ChangeRole
  <2> QED BY <2>1, <2>2, <1>1
<1>3. ASSUME NEW a \in User, NEW u \in User, DisableUser(w, a, u) PROVE IdentityInv'
  <2> DEFINE p == IF users[u].active /\ users[u].role = "lab_admin" THEN "check" ELSE "write"
  <2>1. "disable" \in RowJobs /\ "disable" \in Removals /\ p \in {"check", "write"}
    BY DEF RowJobs, Removals
  <2>2. RequireAdmin(a) /\ SameLab(a, u) /\ Arrive(w, NewJob("disable", users[a].lab, u), p)
    BY <1>3 DEF DisableUser
  <2> QED BY <2>1, <2>2, <1>1
<1>4. ASSUME NEW a \in User, NEW u \in User, ReactivateUser(w, a, u) PROVE IdentityInv'
  <2>1. "reactivate" \in RowJobs
    BY DEF RowJobs
  <2> QED BY <2>1, <1>4, <1>1 DEF ReactivateUser
<1>5. ASSUME NEW a \in User, NEW u \in User, NEW q \in {"activation", "password_reset"},
             IssueSetupToken(w, a, u, q)
      PROVE  IdentityInv'
  <2> DEFINE n == NewJob("issue", users[a].lab, u)
             b == \E v \in Request : Issuing(v, u)
             j == [n EXCEPT !.purpose = q, !.prior = UnusedTokens(u), !.beside = b]
  <2>1. n \in Job /\ n.kind = "issue" /\ n.who = u /\ n.checked = FALSE /\ n.locked = {}
    BY <1>k, <1>l, SeenType DEF NewJob, Job
  <2>2. UnusedTokens(u) \subseteq Token /\ \A s \in UnusedTokens(u) : tokens[s].state # "absent"
    BY DEF UnusedTokens
  <2>3. Arrive(w, j, "commit")
    BY <1>5 DEF IssueSetupToken
  <2> HIDE DEF n, b
  <2>b. b \in BOOLEAN
    BY DEF b
  <2>4. /\ j \in Job /\ j.kind = "issue" /\ j.who = u /\ j.checked = FALSE /\ j.locked = {}
        /\ j.prior = UnusedTokens(u)
    BY <2>1, <2>2, <2>b DEF Job
  <2> HIDE DEF j
  <2>5. Subject("commit", j) /\ PriorExist(j)
    BY <2>2, <2>4 DEF Subject, PriorExist, RowJobs, Removals
  <2>6. j.kind \notin RowJobs \cup {"revoke"}
    BY <2>4 DEF RowJobs, Removals
  <2> QED BY <2>3, <2>4, <2>5, <2>6, ArriveStep
<1>6. ASSUME NEW t \in Token, Activate(w, t) PROVE IdentityInv'
  <2> DEFINE u == tokens[t].user
             n == NewJob("activate", users[u].lab, u)
             j == [n EXCEPT !.token = t]
  <2>1. u \in User
    BY <1>6 DEF TokensNamed, Activate
  <2>2. n \in Job /\ n.kind = "activate" /\ n.checked = FALSE /\ n.locked = {} /\ n.prior = {}
    <3> HIDE DEF u
    <3> QED BY <2>1, <1>k, <1>l, SeenType DEF NewJob, Job
  <2>3. Arrive(w, j, "commit")
    BY <1>6 DEF Activate
  <2> HIDE DEF n
  <2>4. /\ j \in Job /\ j.kind = "activate" /\ j.checked = FALSE /\ j.locked = {} /\ j.prior = {}
        /\ j.token = t
    BY <2>2 DEF Job
  <2> HIDE DEF j
  <2>5. Subject("commit", j) /\ PriorExist(j) /\ j.kind \notin RowJobs \cup {"revoke"}
    BY <1>6, <2>4 DEF Activate, Subject, PriorExist, RowJobs, Removals
  <2> QED BY <2>3, <2>4, <2>5, ArriveStep
<1>7. ASSUME NEW i \in Invite, NEW u \in User, Register(w, i, u) PROVE IdentityInv'
  <2> DEFINE n == NewJob("register", invites[i].lab, u)
             j == [n EXCEPT !.invite = i, !.seen.role = invites[i].role]
  <2>1. invites[i].lab \in Slug \cup {None} /\ invites[i].role \in Role
    BY <1>t DEF InviteRow
  <2>2. /\ n \in Job /\ n.kind = "register" /\ n.who = u /\ n.checked = FALSE
        /\ n.locked = {} /\ n.prior = {}
    BY <2>1, <1>k, SeenType DEF NewJob, Job
  <2>3. Arrive(w, j, "commit")
    BY <1>7 DEF Register
  <2> HIDE DEF n
  <2>4. [n.seen EXCEPT !.role = invites[i].role] \in Row
    BY <2>1, <2>2 DEF Job, Row
  <2>5. /\ j \in Job /\ j.kind = "register" /\ j.who = u /\ j.invite = i /\ j.checked = FALSE
        /\ j.locked = {} /\ j.prior = {}
    BY <2>2, <2>4 DEF Job
  <2> HIDE DEF j
  <2>6. Subject("commit", j) /\ PriorExist(j) /\ j.kind \notin RowJobs \cup {"revoke"}
    BY <2>5 DEF Subject, PriorExist, RowJobs, Removals
  <2> QED BY <2>3, <2>5, <2>6, ArriveStep
<1>8. ASSUME NEW i \in Invite, NEW a \in User, RevokeInvite(w, a, i) PROVE IdentityInv'
  <2> DEFINE n == NewJob("revoke", users[a].lab, None)
             j == [n EXCEPT !.invite = i]
  <2>1. n \in Job /\ n.kind = "revoke" /\ n.checked = FALSE /\ n.locked = {} /\ n.prior = {}
    BY <1>k, <1>l, SeenType DEF NewJob, Job
  <2>2. Arrive(w, j, "lock")
    BY <1>8 DEF RevokeInvite
  <2> HIDE DEF n
  <2>3. /\ j \in Job /\ j.kind = "revoke" /\ j.invite = i /\ j.checked = FALSE
        /\ j.locked = {} /\ j.prior = {}
    BY <2>1 DEF Job
  <2> HIDE DEF j
  <2>4. Subject("lock", j) /\ PriorExist(j)
    BY <2>3 DEF Subject, PriorExist, RowJobs, Removals
  <2> QED BY <2>2, <2>3, <2>4, ArriveStep
<1>9. ASSUME NEW l \in Slug, NEW u \in User, Setup(w, l, u) PROVE IdentityInv'
  <2> DEFINE j == NewJob("setup", l, u)
  <2>1. /\ j \in Job /\ j.kind = "setup" /\ j.lab = l /\ j.who = u /\ j.checked = FALSE
        /\ j.locked = {} /\ j.prior = {}
    BY <1>k, SeenType DEF NewJob, Job
  <2>2. Arrive(w, j, "commit")
    BY <1>9 DEF Setup
  <2> HIDE DEF j
  <2>3. Subject("commit", j) /\ PriorExist(j) /\ j.kind \notin RowJobs \cup {"revoke"}
    BY <2>1 DEF Subject, PriorExist, RowJobs, Removals
  <2> QED BY <2>1, <2>2, <2>3, ArriveStep
<1> QED BY <1>2, <1>3, <1>4, <1>5, <1>6, <1>7, <1>8, <1>9 DEF Begin, PasswordReset, ResendInvite

\* The check for another admin, and the lock on the row that changes.
LEMMA LockStep ==
    ASSUME IdentityInv, NEW w \in Request, EnsureAdminRemains(w) \/ FlushUser(w) \/ LockInvite(w)
    PROVE  IdentityInv'
<1>0. job[w] \in Job /\ job \in [Request -> Job] /\ ReqOK(pc[w], job[w])
  BY DEF IdentityInv, TypeOK, Requests
<1>1. CASE EnsureAdminRemains(w)
  <2> DEFINE admins == AdminsIn(users, job[w].lab)
             j == [job[w] EXCEPT !.checked = TRUE, !.locked = admins]
  <2>1. CASE admins \ {job[w].who} = {}
    BY <1>1, <2>1, EndUnchanged DEF EnsureAdminRemains
  <2>2. CASE admins \ {job[w].who} # {}
    <3>1. /\ pc' = [pc EXCEPT ![w] = "write"] /\ UNCHANGED tables
          /\ job' = [job EXCEPT ![w] = j]
      BY <1>1, <2>2 DEF EnsureAdminRemains
    <3>2. admins \subseteq User
      BY DEF AdminsIn
    <3>3. /\ j \in Job /\ j.kind = job[w].kind /\ j.lab = job[w].lab /\ j.who = job[w].who
          /\ j.token = job[w].token
          /\ j.invite = job[w].invite /\ j.prior = job[w].prior /\ j.locked = admins
      BY <1>0, <3>2 DEF Job
    <3>4. \A v \in Request \ {w} : job[v].locked \cap admins = {}
      BY <1>1 DEF EnsureAdminRemains, Free
    <3>5. job[w].kind \in Removals /\ Removals \subseteq RowJobs
      BY <1>0, <1>1 DEF EnsureAdminRemains, ReqOK, Subject, RowJobs
    <3>6. \E a \in admins : a # job[w].who /\ IsAdmin(a, job[w].lab)
      BY <2>2 DEF AdminsIn, IsAdmin
    <3> HIDE DEF admins, j
    <3>7. ReqOK("write", j)
      <4>1. Subject("write", j) /\ PriorExist(j)
        BY <1>0, <3>3, <3>5 DEF ReqOK, Subject, PriorExist
      <4>2. Keeper(j) /\ OwnLock("write", j) /\ StillUnused("write", j)
        BY <3>3, <3>6 DEF Keeper, OwnLock, StillUnused
      <4> QED BY <4>1, <4>2 DEF ReqOK
    <3> QED BY <3>1, <3>3, <3>4, <3>7, MoveStep
  <2> QED BY <2>1, <2>2
<1>2. CASE FlushUser(w)
  <2> DEFINE j == [job[w] EXCEPT !.locked = IF Changes(job[w]) THEN @ \cup {job[w].who} ELSE @]
  <2>1. /\ pc' = [pc EXCEPT ![w] = "commit"] /\ UNCHANGED tables
        /\ job' = [job EXCEPT ![w] = j]
    BY <1>2 DEF FlushUser
  <2>2. job[w].kind \in RowJobs /\ job[w].who \in User /\ job[w].kind # "revoke"
    BY <1>0, <1>2 DEF FlushUser, ReqOK, Subject, RowJobs, Removals
  <2>3. /\ j \in Job /\ j.kind = job[w].kind /\ j.lab = job[w].lab /\ j.who = job[w].who
        /\ j.token = job[w].token
        /\ j.invite = job[w].invite /\ j.prior = job[w].prior /\ j.checked = job[w].checked
        /\ j.seen = job[w].seen
        /\ j.locked = IF Changes(job[w]) THEN job[w].locked \cup {job[w].who} ELSE job[w].locked
    BY <1>0, <2>2 DEF Job
  <2>4. \A v \in Request \ {w} : job[v].locked \cap j.locked = {}
    BY <1>2, <2>3 DEF FlushUser, Free, IdentityInv, LocksDisjoint
  <2> HIDE DEF j
  <2>5. Changes(j) = Changes(job[w])
    BY <2>3 DEF Changes
  <2>6. ReqOK("commit", j)
    <3>1. Subject("commit", j) /\ PriorExist(j)
      BY <1>0, <2>3 DEF ReqOK, Subject, PriorExist
    <3>2. Keeper(j)
      BY <1>0, <2>3 DEF ReqOK, Keeper
    <3>3. OwnLock("commit", j) /\ StillUnused("commit", j)
      BY <2>2, <2>3, <2>5 DEF OwnLock, StillUnused
    <3> QED BY <3>1, <3>2, <3>3 DEF ReqOK
  <2> QED BY <2>1, <2>3, <2>4, <2>6, MoveStep
<1>3. CASE LockInvite(w)
  <2>1. CASE invites[job[w].invite].state = "open"
    <3>1. /\ pc' = [pc EXCEPT ![w] = "commit"] /\ UNCHANGED tables
          /\ job' = [job EXCEPT ![w] = job[w]]
      BY <1>0, <1>3, <2>1 DEF LockInvite
    <3>2. job[w].kind = "revoke" /\ job[w].invite \in Invite
      BY <1>0, <1>3 DEF LockInvite, ReqOK, Subject
    <3>3. invites[job[w].invite].usedBy = None
      BY <2>1, <3>2 DEF IdentityInv, Remains, InviteStatusTells
    <3>4. ReqOK("commit", job[w])
      <4>1. Subject("commit", job[w])
        BY <1>0 DEF ReqOK, Subject
      <4>2. OwnLock("commit", job[w]) /\ StillUnused("commit", job[w])
        BY <3>2, <3>3 DEF OwnLock, StillUnused, RowJobs, Removals
      <4> QED BY <1>0, <4>1, <4>2 DEF ReqOK
    <3>5. \A v \in Request \ {w} : job[v].locked \cap job[w].locked = {}
      BY DEF IdentityInv, LocksDisjoint
    <3> QED BY <1>0, <3>1, <3>4, <3>5, MoveStep
  <2>2. CASE invites[job[w].invite].state # "open"
    BY <1>3, <2>2, EndUnchanged DEF LockInvite
  <2> QED BY <2>1, <2>2
<1> QED BY <1>1, <1>2, <1>3

-----------------------------------------------------------------------------
(* Commits *)

\* An UPDATE of one column leaves the lab and the invite of the row alone.
LEMMA UpdatedFacts ==
    ASSUME NEW row \in Row, NEW k
    PROVE  /\ Updated(row, k) \in Row
           /\ Updated(row, k).lab = row.lab /\ Updated(row, k).via = row.via
           /\ k \in {"promote", "reactivate"} /\ row.active /\ row.role = "lab_admin" =>
                  Updated(row, k).active /\ Updated(row, k).role = "lab_admin"
BY DEF Updated, Row, Role

\* CommitUser: the admin whose lock a checked removal holds is still there.
LEMMA CommitUserStep ==
    ASSUME IdentityInv, NEW w \in Request, CommitUser(w)
    PROVE  IdentityInv'
<1> DEFINE j == job[w]
<1>0. /\ j \in Job /\ users \in [User -> Row] /\ ReqOK("commit", j) /\ End(w)
      /\ j.kind \in RowJobs /\ labs \subseteq Slug /\ stale \subseteq User
  BY DEF IdentityInv, TypeOK, Requests, CommitUser, RowJobs
<1>1. CASE ~Changes(j)
  BY <1>0, <1>1, EndUnchanged DEF CommitUser, tables
<1>2. CASE Changes(j)
  <2>1. /\ j.who \in User /\ users[j.who].lab = j.lab /\ j.lab # None /\ j.who \in j.locked /\ Keeper(j)
    BY <1>0, <1>2 DEF ReqOK, Subject, OwnLock
  <2>2. /\ users' = [users EXCEPT ![j.who] = Updated(users[j.who], j.kind)]
        /\ stale' = IF j.kind \in Removals /\ ~j.checked /\ users[j.who].role = "lab_admin"
                    THEN stale \cup {j.who} ELSE stale
        /\ UNCHANGED <<labs, invites, tokens>>
    BY <1>2 DEF CommitUser
  <2> HIDE DEF j
  <2>3. users[j.who] \in Row
    BY <1>0, <2>1
  <2>4. /\ users' \in [User -> Row]
        /\ users'[j.who] = Updated(users[j.who], j.kind)
        /\ \A u \in User \ {j.who} : users'[u] = users[u]
    BY <1>0, <2>1, <2>2, <2>3, UpdatedFacts
  <2>5. \A u \in User : users'[u].lab = users[u].lab /\ users'[u].via = users[u].via
    BY <2>1, <2>3, <2>4, UpdatedFacts
  <2>6. \A u \in User \ {j.who}, l \in Slug \cup {None} : IsAdmin(u, l) => IsAdmin(u, l)'
    BY <2>4 DEF IsAdmin
  <2>7. AdminRemains'
    <3> SUFFICES ASSUME NEW l \in labs
                 PROVE  (\E a \in User : IsAdmin(a, l)') \/ \E u \in stale' : users'[u].lab = l
      BY <2>2 DEF AdminRemains, AdminsIn, IsAdmin
    <3>1. stale \subseteq stale' /\ l \in Slug
      BY <1>0, <2>2
    <3>2. (\E a \in User : IsAdmin(a, l)) \/ \E u \in stale : users[u].lab = l
      BY DEF IdentityInv, Remains, AdminRemains, AdminsIn, IsAdmin
    <3>3. CASE \E u \in stale : users[u].lab = l
      BY <1>0, <2>5, <3>1, <3>3
    <3>4. ASSUME NEW a \in User, IsAdmin(a, l), a # j.who
          PROVE  (\E b \in User : IsAdmin(b, l)') \/ \E u \in stale' : users'[u].lab = l
      BY <2>6, <3>1, <3>4
    <3>5. CASE IsAdmin(j.who, l)
      <4>1. l = j.lab /\ users[j.who].active /\ users[j.who].role = "lab_admin"
        BY <2>1, <3>5 DEF IsAdmin
      <4>2. CASE j.kind \notin Removals
        <5>1. j.kind \in {"promote", "reactivate"}
          BY <1>0, <4>2 DEF RowJobs
        <5>2. PICK b \in User : b = j.who
          BY <2>1
        <5>3. IsAdmin(b, l)'
          BY <2>1, <2>3, <2>4, <2>5, <4>1, <5>1, <5>2, UpdatedFacts DEF IsAdmin
        <5> QED BY <5>3
      <4>3. CASE j.kind \in Removals /\ j.checked
        BY <2>1, <3>4, <4>1, <4>3 DEF Keeper, IsAdmin
      <4>4. CASE j.kind \in Removals /\ ~j.checked
        BY <2>1, <2>2, <2>5, <4>1, <4>4
      <4> QED BY <1>0, <4>2, <4>3, <4>4 DEF Job
    <3> QED BY <3>2, <3>3, <3>4, <3>5
  <2>8. TokensNamed' /\ InviteStatusTells'
    <3>1. TokensNamed'
      BY <2>2 DEF IdentityInv, TokensNamed
    <3>2. \A i \in Invite : invites[i].usedBy \in User \cup {None}
      BY DEF IdentityInv, TypeOK, InviteRow
    <3>3. InviteStatusTells'
      BY <2>2, <2>5, <3>2 DEF IdentityInv, Remains, InviteStatusTells
    <3> QED BY <3>1, <3>3
  <2>9. ASSUME NEW v \in Request \ {w}, pc'[v] = pc[v] /\ job'[v] = job[v] PROVE ReqOK(pc[v], job[v])'
    <3>1. j.who \notin job[v].locked
      BY <2>1 DEF IdentityInv, LocksDisjoint, j
    <3>2. \A a \in job[v].locked, l \in Slug \cup {None} : IsAdmin(a, l) => IsAdmin(a, l)'
      BY <2>6, <3>1 DEF IsAdmin
    <3>3. StillUnused(pc[v], job[v]) => StillUnused(pc[v], job[v])'
      BY <2>2, <2>9 DEF StillUnused
    <3> QED BY <2>2, <2>5, <2>9, <3>2, <3>3, OthersKeep
  <2>10. stale' \subseteq User
    BY <1>0, <2>1, <2>2
  <2>11. Remains'
    BY <2>7, <2>8 DEF Remains
  <2> QED BY <1>0, <2>2, <2>4, <2>8, <2>9, <2>10, <2>11, EndStep DEF IdentityInv, TypeOK
<1> QED BY <1>1, <1>2

\* A row is inserted where there was none, by a registration or by the setup.
LEMMA InsertKeeps ==
    ASSUME IdentityInv, NEW u \in User, users[u] = NoRow, NEW row \in Row,
           users' = [users EXCEPT ![u] = row]
    PROVE  /\ users' \in [User -> Row] /\ users'[u] = row
           /\ \A x \in User \ {u} : users'[x] = users[x]
           /\ \A x \in User : users[x].lab # None => users'[x].lab = users[x].lab
           /\ \A x, l : IsAdmin(x, l) => IsAdmin(x, l)'
<1>1. users \in [User -> Row]
  BY DEF IdentityInv, TypeOK
<1>2. users' \in [User -> Row] /\ users'[u] = row /\ \A x \in User \ {u} : users'[x] = users[x]
  BY <1>1
<1>3. users[u].lab = None /\ ~users[u].active
  BY DEF NoRow
<1>4. \A x \in User : users[x].lab # None => users'[x].lab = users[x].lab
  BY <1>2, <1>3
<1>5. ASSUME NEW x, NEW l, IsAdmin(x, l) PROVE IsAdmin(x, l)'
  BY <1>2, <1>3, <1>5 DEF IsAdmin
<1> QED BY <1>2, <1>4, <1>5

\* When users stay in their labs and admins stay admins, labs keep theirs.
LEMMA AdminsStay ==
    ASSUME IdentityInv, labs' = labs, stale' = stale,
           \A x \in User : users[x].lab # None => users'[x].lab = users[x].lab,
           \A x, l : IsAdmin(x, l) => IsAdmin(x, l)'
    PROVE  AdminRemains'
<1> SUFFICES ASSUME NEW l \in labs
             PROVE  (\E a \in User : IsAdmin(a, l)') \/ \E u \in stale' : users'[u].lab = l
  BY DEF AdminRemains, AdminsIn, IsAdmin
<1>1. l # None /\ stale \subseteq User
  BY IdentityAssumption DEF IdentityInv, TypeOK
<1>2. (\E a \in User : IsAdmin(a, l)) \/ \E u \in stale : users[u].lab = l
  BY DEF IdentityInv, Remains, AdminRemains, AdminsIn, IsAdmin
<1> QED BY <1>1, <1>2

\* CommitSetup: the new lab has its admin.
LEMMA CommitSetupStep ==
    ASSUME IdentityInv, NEW w \in Request, CommitSetup(w)
    PROVE  IdentityInv'
<1> DEFINE j == job[w]
           row == [lab |-> j.lab, role |-> "lab_admin", active |-> TRUE, password |-> TRUE, via |-> None]
<1>0. j.who \in User /\ j.lab \in Slug /\ End(w) /\ UNCHANGED <<invites, tokens, stale>>
  BY DEF IdentityInv, Requests, ReqOK, Subject, CommitSetup
<1>1. CASE j.lab \notin labs /\ users[j.who] = NoRow
  <2>1. labs' = labs \cup {j.lab} /\ users' = [users EXCEPT ![j.who] = row]
    BY <1>1 DEF CommitSetup
  <2>2. row \in Row
    BY <1>0 DEF Row, Role
  <2>u. PICK u \in User : u = j.who
    BY <1>0
  <2>l. PICK k \in Slug : k = j.lab
    BY <1>0
  <2>3. row.lab = k /\ row.active /\ row.role = "lab_admin" /\ row.via = None
    BY <2>l
  <2> HIDE DEF j, row
  <2>4. /\ users' \in [User -> Row] /\ users'[u] = row
        /\ \A x \in User \ {u} : users'[x] = users[x]
        /\ \A x \in User : users[x].lab # None => users'[x].lab = users[x].lab
        /\ \A x, l : IsAdmin(x, l) => IsAdmin(x, l)'
    BY <1>1, <2>1, <2>2, <2>u, InsertKeeps
  <2>5. AdminRemains'
    <3> SUFFICES ASSUME NEW l \in labs'
                 PROVE  (\E a \in User : IsAdmin(a, l)') \/ \E x \in stale' : users'[x].lab = l
      BY DEF AdminRemains, AdminsIn, IsAdmin
    <3>1. CASE l = k
      BY <2>3, <2>4, <3>1 DEF IsAdmin
    <3>2. CASE l \in labs
      <4>1. l # None /\ stale \subseteq User
        BY <3>2, IdentityAssumption DEF IdentityInv, TypeOK
      <4>2. (\E a \in User : IsAdmin(a, l)) \/ \E x \in stale : users[x].lab = l
        BY <3>2 DEF IdentityInv, Remains, AdminRemains, AdminsIn, IsAdmin
      <4> QED BY <1>0, <2>4, <4>1, <4>2
    <3> QED BY <2>1, <2>l, <3>1, <3>2
  <2>6. InviteStatusTells'
    <3>1. users[u].via = None
      BY <1>1, <2>u DEF NoRow
    <3>2. \A x \in User : users'[x].via = users[x].via
      BY <2>3, <2>4, <3>1
    <3>3. \A i \in Invite : invites[i].usedBy \in User \cup {None}
      BY DEF IdentityInv, TypeOK, InviteRow
    <3> QED BY <1>0, <3>2, <3>3 DEF IdentityInv, Remains, InviteStatusTells
  <2>7. TokensNamed'
    BY <1>0 DEF IdentityInv, TokensNamed
  <2>8. ASSUME NEW v \in Request \ {w}, pc'[v] = pc[v] /\ job'[v] = job[v] PROVE ReqOK(pc[v], job[v])'
    <3>1. StillUnused(pc[v], job[v]) => StillUnused(pc[v], job[v])'
      BY <1>0, <2>8 DEF StillUnused
    <3> QED BY <1>0, <2>4, <2>8, <3>1, OthersKeep
  <2>9. labs' \subseteq Slug
    BY <1>0, <2>1 DEF IdentityInv, TypeOK
  <2> QED BY <1>0, <2>4, <2>5, <2>6, <2>7, <2>8, <2>9, EndStep DEF IdentityInv, TypeOK, Remains
<1>2. CASE ~(j.lab \notin labs /\ users[j.who] = NoRow)
  BY <1>0, <1>2, EndUnchanged DEF CommitSetup, tables
<1> QED BY <1>1, <1>2

\* CommitRegister: the invite is nobody else's to revoke, and the row is new.
LEMMA CommitRegisterStep ==
    ASSUME IdentityInv, NEW w \in Request, CommitRegister(w)
    PROVE  IdentityInv'
<1> DEFINE j == job[w]
           row == [lab |-> j.lab, role |-> j.seen.role, active |-> TRUE, password |-> TRUE,
                   via |-> j.invite]
<1>0. /\ j \in Job /\ j.who \in User /\ j.invite \in Invite /\ InviteFree(j.invite)
      /\ End(w) /\ UNCHANGED <<labs, tokens, stale>>
  BY DEF IdentityInv, TypeOK, Requests, ReqOK, Subject, CommitRegister
<1>1. CASE users[j.who] = NoRow
  <2>1. /\ users' = [users EXCEPT ![j.who] = row]
        /\ invites' = [invites EXCEPT ![j.invite].state = "closed", ![j.invite].usedBy = j.who]
    BY <1>1 DEF CommitRegister
  <2>2. row \in Row
    BY <1>0 DEF Job, Row
  <2>u. PICK u \in User : u = j.who
    BY <1>0
  <2>i. PICK n \in Invite : n = j.invite
    BY <1>0
  <2>3. row.via = n
    BY <2>i
  <2> HIDE DEF j, row
  <2>4. /\ users' \in [User -> Row] /\ users'[u] = row
        /\ \A x \in User \ {u} : users'[x] = users[x]
        /\ \A x \in User : users[x].lab # None => users'[x].lab = users[x].lab
        /\ \A x, l : IsAdmin(x, l) => IsAdmin(x, l)'
    BY <1>1, <2>1, <2>2, <2>u, InsertKeeps
  <2>5. AdminRemains'
    BY <1>0, <2>4, AdminsStay
  <2>6. invites \in [Invite -> InviteRow]
    BY DEF IdentityInv, TypeOK
  <2>7. /\ invites' \in [Invite -> InviteRow]
        /\ invites'[n].state = "closed" /\ invites'[n].usedBy = u
        /\ \A i \in Invite \ {n} : invites'[i] = invites[i]
    BY <2>1, <2>6, <2>u, <2>i DEF InviteRow
  <2>8. InviteStatusTells'
    <3>1. users[u].via = None /\ None \notin User /\ None \notin Invite
      BY <1>1, <2>u, IdentityAssumption DEF NoRow
    <3>2. \A i \in Invite : invites[i].usedBy \in User \cup {None}
      BY <2>6 DEF InviteRow
    <3>3. ASSUME NEW i \in Invite, i # n
          PROVE  /\ invites'[i].usedBy # None =>
                        invites'[i].state = "closed" /\ users'[invites'[i].usedBy].via = i
                 /\ invites'[i].usedBy = None => \A x \in User : users'[x].via # i
      <4>1. invites'[i] = invites[i]
        BY <2>7, <3>3
      <4>2. invites[i].usedBy # u
        BY <3>1, <3>3 DEF IdentityInv, Remains, InviteStatusTells
      <4> QED BY <2>3, <2>4, <3>2, <3>3, <4>1, <4>2 DEF IdentityInv, Remains, InviteStatusTells
    <3>4. /\ invites'[n].usedBy # None /\ invites'[n].state = "closed"
          /\ users'[invites'[n].usedBy].via = n
      BY <2>3, <2>4, <2>7, <3>1
    <3> QED BY <3>3, <3>4 DEF InviteStatusTells
  <2>9. TokensNamed'
    BY <1>0 DEF IdentityInv, TokensNamed
  <2>10. ASSUME NEW v \in Request \ {w}, pc'[v] = pc[v] /\ job'[v] = job[v] PROVE ReqOK(pc[v], job[v])'
    <3>1. Subject(pc[v], job[v])
      BY DEF IdentityInv, Requests, ReqOK
    <3>2. pc[v] = "commit" /\ job[v].kind = "revoke" => job[v].invite \in Invite \ {n}
      BY <1>0, <2>i, <3>1 DEF InviteFree, Subject
    <3>3. StillUnused(pc[v], job[v]) => StillUnused(pc[v], job[v])'
      BY <2>7, <2>10, <3>2 DEF StillUnused
    <3> QED BY <1>0, <2>4, <2>10, <3>3, OthersKeep
  <2> QED BY <1>0, <2>4, <2>5, <2>7, <2>8, <2>9, <2>10, EndStep DEF IdentityInv, TypeOK, Remains
<1>2. CASE users[j.who] # NoRow
  BY <1>0, <1>2, EndUnchanged DEF CommitRegister, tables
<1> QED BY <1>1, <1>2

\* CommitRevoke: no registration got in between.
LEMMA CommitRevokeStep ==
    ASSUME IdentityInv, NEW w \in Request, CommitRevoke(w)
    PROVE  IdentityInv'
<1>0. /\ job[w].invite \in Invite /\ invites[job[w].invite].usedBy = None
      /\ invites \in [Invite -> InviteRow] /\ End(w) /\ UNCHANGED <<labs, users, tokens, stale>>
  BY DEF IdentityInv, TypeOK, Requests, ReqOK, Subject, StillUnused, CommitRevoke
<1>1. PICK n \in Invite : n = job[w].invite
  BY <1>0
<1>2. invites' = [invites EXCEPT ![n].state = "closed", ![n].usedBy = None]
  BY <1>1 DEF CommitRevoke
<1>3. /\ invites' \in [Invite -> InviteRow]
      /\ invites'[n].state = "closed"
      /\ \A i \in Invite : invites'[i].usedBy = invites[i].usedBy
      /\ \A i \in Invite \ {n} : invites'[i] = invites[i]
  BY <1>0, <1>1, <1>2 DEF InviteRow
<1>4. InviteStatusTells'
  BY <1>0, <1>1, <1>3 DEF IdentityInv, Remains, InviteStatusTells
<1>5. TokensNamed' /\ AdminRemains'
  BY <1>0 DEF IdentityInv, Remains, TokensNamed, AdminRemains, AdminsIn
<1>6. ASSUME NEW v \in Request \ {w}, pc'[v] = pc[v] /\ job'[v] = job[v] PROVE ReqOK(pc[v], job[v])'
  <2>1. Subject(pc[v], job[v])
    BY DEF IdentityInv, Requests, ReqOK
  <2>2. StillUnused(pc[v], job[v]) => StillUnused(pc[v], job[v])'
    BY <1>3, <1>6, <2>1 DEF StillUnused, Subject
  <2> QED BY <1>0, <1>6, <2>2, OthersKeep DEF IsAdmin
<1> QED BY <1>0, <1>3, <1>4, <1>5, <1>6, EndStep DEF IdentityInv, TypeOK, Remains

\* CommitIssue: the new token is none of those that were read.
LEMMA CommitIssueStep ==
    ASSUME IdentityInv, NEW w \in Request, NEW t \in Token, CommitIssue(w, t)
    PROVE  IdentityInv'
<1> DEFINE j == job[w]
           new == [state |-> "live", user |-> j.who, purpose |-> j.purpose, beside |-> j.beside]
<1>0. /\ j \in Job /\ j.who \in User /\ \A s \in j.prior : tokens[s].state # "absent"
      /\ tokens \in [Token -> TokenRow] /\ tokens[t].state = "absent"
      /\ End(w) /\ UNCHANGED <<labs, users, invites, stale>>
      /\ tokens' = [s \in Token |-> IF s = t THEN new
                                    ELSE IF s \in j.prior THEN [tokens[s] EXCEPT !.state = "used"]
                                    ELSE tokens[s]]
  BY DEF IdentityInv, TypeOK, Requests, ReqOK, Subject, PriorExist, CommitIssue
<1>1. new \in TokenRow /\ new.user = j.who /\ new.state = "live"
  BY <1>0 DEF Job, TokenRow
<1>2. \A s \in Token : [tokens[s] EXCEPT !.state = "used"] \in TokenRow
  BY <1>0 DEF TokenRow
<1>3. j.prior \subseteq Token /\ t \notin j.prior
  BY <1>0 DEF Job
<1> HIDE DEF j, new
<1>4. tokens' \in [Token -> TokenRow]
  BY <1>0, <1>1, <1>2
<1>5. /\ tokens'[t] = new
      /\ \A s \in Token \ {t} :
            /\ tokens'[s].user = tokens[s].user
            /\ tokens'[s].state = IF s \in j.prior THEN "used" ELSE tokens[s].state
  BY <1>0 DEF TokenRow
<1>6. TokensNamed'
  BY <1>0, <1>1, <1>5 DEF IdentityInv, TokensNamed
<1>7. InviteStatusTells' /\ AdminRemains'
  BY <1>0 DEF IdentityInv, Remains, InviteStatusTells, AdminRemains, AdminsIn
<1>8. \A s \in Token : tokens[s].state # "absent" => tokens'[s].state # "absent"
  BY <1>0, <1>5
<1>9. ASSUME NEW v \in Request \ {w}, pc'[v] = pc[v] /\ job'[v] = job[v] PROVE ReqOK(pc[v], job[v])'
  <2>1. StillUnused(pc[v], job[v]) => StillUnused(pc[v], job[v])'
    BY <1>0, <1>9 DEF StillUnused
  <2> QED BY <1>0, <1>8, <1>9, <2>1, OthersKeep DEF IsAdmin
<1> QED BY <1>0, <1>4, <1>6, <1>7, <1>9, EndStep DEF IdentityInv, TypeOK, Remains

\* CommitActivate: a password is set and a token used up.
LEMMA CommitActivateStep ==
    ASSUME IdentityInv, NEW w \in Request, CommitActivate(w)
    PROVE  IdentityInv'
<1>t. job[w].token \in Token /\ tokens[job[w].token].state # "absent"
  BY DEF IdentityInv, Requests, ReqOK, PriorExist, CommitActivate
<1>0. /\ users \in [User -> Row] /\ tokens \in [Token -> TokenRow]
      /\ users' = [users EXCEPT ![job[w].who].password = TRUE]
      /\ tokens' = [tokens EXCEPT ![job[w].token].state = "used"]
      /\ End(w) /\ UNCHANGED <<labs, invites, stale>>
  BY DEF IdentityInv, TypeOK, CommitActivate
<1>1. /\ users' \in [User -> Row]
      /\ \A u \in User : /\ users'[u].lab = users[u].lab /\ users'[u].via = users[u].via
                         /\ users'[u].active = users[u].active /\ users'[u].role = users[u].role
  BY <1>0 DEF Row
<1>2. /\ tokens' \in [Token -> TokenRow]
      /\ \A s \in Token : /\ tokens'[s].user = tokens[s].user
                          /\ tokens'[s].state = IF s = job[w].token THEN "used" ELSE tokens[s].state
  BY <1>0, <1>t DEF TokenRow
<1>3. \A x, l : IsAdmin(x, l) => IsAdmin(x, l)'
  BY <1>1 DEF IsAdmin
<1>4. AdminRemains'
  BY <1>0, <1>1, <1>3, AdminsStay
<1>5. InviteStatusTells'
  <2>1. \A i \in Invite : invites[i].usedBy \in User \cup {None}
    BY DEF IdentityInv, TypeOK, InviteRow
  <2> QED BY <1>0, <1>1, <2>1 DEF IdentityInv, Remains, InviteStatusTells
<1>6. TokensNamed'
  BY <1>0, <1>2, <1>t DEF IdentityInv, TokensNamed
<1>7. ASSUME NEW v \in Request \ {w}, pc'[v] = pc[v] /\ job'[v] = job[v] PROVE ReqOK(pc[v], job[v])'
  <2>1. StillUnused(pc[v], job[v]) => StillUnused(pc[v], job[v])'
    BY <1>0, <1>7 DEF StillUnused
  <2>2. \A s \in Token : tokens[s].state # "absent" => tokens'[s].state # "absent"
    BY <1>2
  <2> QED BY <1>1, <1>3, <1>7, <2>1, <2>2, OthersKeep
<1> QED BY <1>0, <1>1, <1>2, <1>4, <1>5, <1>6, <1>7, EndStep DEF IdentityInv, TypeOK, Remains

-----------------------------------------------------------------------------
(* Invites that are issued and things that expire *)

\* A step of no request, which leaves the users alone.
LEMMA TableStep ==
    ASSUME IdentityInv, UNCHANGED <<labs, users, pc, job, stale>>,
           invites' \in [Invite -> InviteRow], tokens' \in [Token -> TokenRow],
           \A i \in Invite : /\ invites'[i].usedBy = invites[i].usedBy
                             /\ invites[i].state = "closed" => invites'[i].state = "closed",
           \A s \in Token : /\ tokens'[s].user = tokens[s].user
                            /\ tokens[s].state = "used" => tokens'[s].state = "used"
                            /\ tokens[s].state = "absent" <=> tokens'[s].state = "absent"
    PROVE  IdentityInv'
<1>1. TypeOK'
  BY DEF IdentityInv, TypeOK
<1>2. TokensNamed'
  BY DEF IdentityInv, TokensNamed
<1>3. AdminRemains' /\ InviteStatusTells'
  BY DEF IdentityInv, Remains, AdminRemains, InviteStatusTells, AdminsIn
<1>4. ASSUME NEW v \in Request PROVE ReqOK(pc[v], job[v])'
  <2>1. Subject(pc[v], job[v])
    BY DEF IdentityInv, Requests, ReqOK
  <2>2. StillUnused(pc[v], job[v]) => StillUnused(pc[v], job[v])'
    BY <2>1 DEF StillUnused, Subject
  <2> QED BY <2>2, OthersKeep DEF IsAdmin
<1>5. Requests' /\ LocksDisjoint'
  BY <1>4 DEF IdentityInv, Requests, LocksDisjoint
<1> QED BY <1>1, <1>2, <1>3, <1>5 DEF IdentityInv, Remains

\* IssueInvite: the row was not there before.
LEMMA IssueInviteStep ==
    ASSUME IdentityInv, NEW a \in User, NEW n \in Invite, NEW r \in Role, IssueInvite(a, n, r)
    PROVE  IdentityInv'
<1> DEFINE new == [state |-> "open", role |-> r, lab |-> users[a].lab, usedBy |-> None]
<1>1. invites \in [Invite -> InviteRow] /\ tokens \in [Token -> TokenRow] /\ users[a] \in Row
  BY DEF IdentityInv, TypeOK
<1>2. new \in InviteRow /\ new.usedBy = None
  BY <1>1 DEF Row, InviteRow
<1>3. invites[n].state = "absent" /\ invites[n].usedBy = None
  BY DEF IdentityInv, Remains, InviteStatusTells, IssueInvite
<1>4. invites' = [invites EXCEPT ![n] = new] /\ UNCHANGED <<labs, users, tokens, pc, job, stale>>
  BY DEF IssueInvite
<1> HIDE DEF new
<1>5. /\ invites' \in [Invite -> InviteRow]
      /\ \A i \in Invite : /\ invites'[i].usedBy = invites[i].usedBy
                           /\ invites[i].state = "closed" => invites'[i].state = "closed"
  BY <1>1, <1>2, <1>3, <1>4
<1> QED BY <1>1, <1>4, <1>5, TableStep

\* Expire: only what was live or open.
LEMMA ExpireStep ==
    ASSUME IdentityInv, Expire
    PROVE  IdentityInv'
<1>0. /\ invites \in [Invite -> InviteRow] /\ tokens \in [Token -> TokenRow]
      /\ UNCHANGED <<labs, users, pc, job, stale>>
  BY DEF IdentityInv, TypeOK, Expire
<1>1. ASSUME NEW t \in Token, tokens[t].state = "live", UNCHANGED invites,
             tokens' = [tokens EXCEPT ![t].state = "expired"]
      PROVE  IdentityInv'
  <2>1. /\ tokens' \in [Token -> TokenRow]
        /\ \A s \in Token : /\ tokens'[s].user = tokens[s].user
                            /\ tokens[s].state = "used" => tokens'[s].state = "used"
                            /\ tokens[s].state = "absent" <=> tokens'[s].state = "absent"
    BY <1>0, <1>1 DEF TokenRow
  <2> QED BY <1>0, <1>1, <2>1, TableStep
<1>2. ASSUME NEW n \in Invite, invites[n].state = "open", UNCHANGED tokens,
             invites' = [invites EXCEPT ![n].state = "expired"]
      PROVE  IdentityInv'
  <2>1. /\ invites' \in [Invite -> InviteRow]
        /\ \A i \in Invite : /\ invites'[i].usedBy = invites[i].usedBy
                             /\ invites[i].state = "closed" => invites'[i].state = "closed"
    BY <1>0, <1>2 DEF InviteRow
  <2> QED BY <1>0, <1>2, <2>1, TableStep
<1> QED BY <1>1, <1>2 DEF Expire

-----------------------------------------------------------------------------
(* Links that work: what IdentityInv leaves open about the tokens.  An       *)
(* issue that was alone when it arrived has read every link that works, but  *)
(* for those that were themselves asked for beside another issue.            *)

Issues(w) == pc[w] = "commit" /\ job[w].kind = "issue"

\* The later of two issues for one user knows that it is not alone.
IssuesApart ==
    \A v, w \in Request :
        v # w /\ Issues(v) /\ Issues(w) /\ job[v].who = job[w].who => job[v].beside \/ job[w].beside

Works(s, u) == tokens[s].state = "live" /\ tokens[s].user = u /\ ~tokens[s].beside

PriorSeen ==
    \A w \in Request : Issues(w) /\ ~job[w].beside => \A s \in Token : Works(s, job[w].who) => s \in job[w].prior

TokenInv == SingleLiveToken /\ IssuesApart /\ PriorSeen

\* No issue begins, and no token starts to work.
LEMMA NoIssueStep ==
    ASSUME TokenInv,
           \A w \in Request : Issues(w)' => Issues(w) /\ job'[w] = job[w],
           \A s \in Token : tokens'[s].state = "live" =>
               /\ tokens[s].state = "live"
               /\ tokens'[s].user = tokens[s].user /\ tokens'[s].beside = tokens[s].beside
    PROVE  TokenInv'
<1>1. SingleLiveToken'
  BY DEF TokenInv, SingleLiveToken
<1>2. IssuesApart'
  BY DEF TokenInv, IssuesApart
<1>3. ASSUME NEW w \in Request, Issues(w)', ~job'[w].beside, NEW s \in Token, Works(s, job[w].who)'
      PROVE  s \in job'[w].prior
  <2>1. Issues(w) /\ job'[w] = job[w]
    BY <1>3
  <2>2. Works(s, job[w].who)
    BY <1>3, <2>1 DEF Works
  <2> QED BY <1>3, <2>1, <2>2 DEF TokenInv, PriorSeen
<1>4. PriorSeen'
  BY <1>3 DEF PriorSeen
<1> QED BY <1>1, <1>2, <1>4 DEF TokenInv

\* A request arrives that is not an issue, takes a lock or ends.
LEMMA OtherMoveStep ==
    ASSUME TokenInv, TypeOK, NEW w \in Request, NEW j, NEW p,
           pc' = [pc EXCEPT ![w] = p], job' = [job EXCEPT ![w] = j],
           ~(p = "commit" /\ j.kind = "issue"),
           \A s \in Token : tokens'[s].state = "live" =>
               /\ tokens[s].state = "live"
               /\ tokens'[s].user = tokens[s].user /\ tokens'[s].beside = tokens[s].beside
    PROVE  TokenInv'
<1>1. ASSUME NEW v \in Request, Issues(v)' PROVE Issues(v) /\ job'[v] = job[v]
  BY <1>1 DEF Issues, TypeOK
<1> QED BY <1>1, NoIssueStep

LEMMA EndsStep ==
    ASSUME TokenInv, TypeOK, NEW w \in Request, End(w),
           \A s \in Token : tokens'[s].state = "live" =>
               /\ tokens[s].state = "live"
               /\ tokens'[s].user = tokens[s].user /\ tokens'[s].beside = tokens[s].beside
    PROVE  TokenInv'
BY OtherMoveStep DEF End

\* issue_setup_token begins: all unused tokens are read.
LEMMA IssueBeginStep ==
    ASSUME TokenInv, TypeOK, NEW w \in Request, NEW a \in User, NEW u \in User, NEW q,
           IssueSetupToken(w, a, u, q)
    PROVE  TokenInv'
<1> DEFINE alone == ~\E v \in Request : Issuing(v, u)
           n == NewJob("issue", users[a].lab, u)
           j == [n EXCEPT !.purpose = q, !.prior = UnusedTokens(u), !.beside = ~alone]
<1>1. n.kind = "issue" /\ n.who = u
  BY DEF NewJob
<1>2. /\ pc[w] = "new" /\ pc' = [pc EXCEPT ![w] = "commit"] /\ job' = [job EXCEPT ![w] = j]
      /\ tokens' = tokens
  BY DEF IssueSetupToken, Arrive, tables
<1>3. j.kind = "issue" /\ j.who = u /\ j.prior = UnusedTokens(u) /\ j.beside = ~alone
  BY <1>1 DEF NewJob
<1>4. \A v \in Request : v # w /\ Issues(v) /\ job[v].who = u => ~alone
  BY DEF Issues, Issuing
<1> HIDE DEF j, n, alone
<1>5. /\ job'[w] = j /\ Issues(w)'
      /\ \A v \in Request \ {w} : job'[v] = job[v] /\ (Issues(v)' <=> Issues(v))
  BY <1>2, <1>3 DEF TypeOK, Issues
<1>6. IssuesApart'
  <2>1. ASSUME NEW v \in Request, NEW x \in Request, v # x, Issues(v)', Issues(x)', job'[v].who = job'[x].who
        PROVE  job'[v].beside \/ job'[x].beside
    <3>1. CASE v = w
      BY <1>3, <1>4, <1>5, <2>1, <3>1
    <3>2. CASE x = w
      BY <1>3, <1>4, <1>5, <2>1, <3>2
    <3>3. CASE v # w /\ x # w
      BY <1>5, <2>1, <3>3 DEF TokenInv, IssuesApart
    <3> QED BY <3>1, <3>2, <3>3
  <2> QED BY <2>1 DEF IssuesApart
<1>7. PriorSeen'
  <2>1. ASSUME NEW v \in Request, Issues(v)', ~job'[v].beside, NEW s \in Token, Works(s, job[v].who)'
        PROVE  s \in job'[v].prior
    <3>1. CASE v = w
      BY <1>2, <1>3, <1>5, <2>1, <3>1 DEF Works, UnusedTokens
    <3>2. CASE v # w
      BY <1>2, <1>5, <2>1, <3>2 DEF TokenInv, PriorSeen, Works
    <3> QED BY <3>1, <3>2
  <2> QED BY <2>1 DEF PriorSeen
<1>8. SingleLiveToken'
  BY <1>2 DEF TokenInv, SingleLiveToken
<1> QED BY <1>6, <1>7, <1>8 DEF TokenInv

\* issue_setup_token ends.  If it was alone, every other link that works now
\* was asked for beside another issue; and if another issue that was alone is
\* still open, this one was not.
LEMMA IssueEndStep ==
    ASSUME TokenInv, TypeOK, NEW w \in Request, NEW t \in Token, CommitIssue(w, t)
    PROVE  TokenInv'
<1>0. PICK j \in Job : j = job[w]
  BY DEF TypeOK
<1> DEFINE new == [state |-> "live", user |-> j.who, purpose |-> j.purpose, beside |-> j.beside]
<1>1. /\ Issues(w) /\ End(w) /\ tokens \in [Token -> TokenRow]
      /\ tokens' = [s \in Token |-> IF s = t THEN new
                                    ELSE IF s \in j.prior THEN [tokens[s] EXCEPT !.state = "used"]
                                    ELSE tokens[s]]
  BY <1>0 DEF CommitIssue, TypeOK, Issues
<1>2. new.user = j.who /\ new.state = "live" /\ new.beside = j.beside
  OBVIOUS
<1> HIDE DEF new
<1>3. /\ tokens'[t] = new
      /\ \A s \in Token \ {t} : tokens'[s].state = "live" => s \notin j.prior /\ tokens'[s] = tokens[s]
  BY <1>1 DEF TokenRow
<1>4. \A v \in Request : Issues(v)' => v # w /\ Issues(v) /\ job'[v] = job[v]
  BY <1>1 DEF End, Issues, TypeOK
<1>5. SingleLiveToken'
  <2>1. \A s \in Token \ {t} : tokens'[s].state = "live" /\ tokens'[s].user = j.who /\ ~tokens'[s].beside => j.beside
    BY <1>0, <1>1, <1>3 DEF TokenInv, PriorSeen, Works
  <2>2. ASSUME NEW r \in Token, NEW s \in Token, r # s, tokens'[r].user = tokens'[s].user,
               tokens'[r].state = "live", tokens'[s].state = "live"
        PROVE  tokens'[r].beside \/ tokens'[s].beside
    <3>1. CASE r = t
      BY <1>2, <1>3, <2>1, <2>2, <3>1
    <3>2. CASE s = t
      BY <1>2, <1>3, <2>1, <2>2, <3>2
    <3>3. CASE r # t /\ s # t
      BY <1>3, <2>2, <3>3 DEF TokenInv, SingleLiveToken
    <3> QED BY <3>1, <3>2, <3>3
  <2> QED BY <2>2 DEF SingleLiveToken
<1>6. IssuesApart'
  BY <1>4 DEF TokenInv, IssuesApart
<1>7. PriorSeen'
  <2>1. ASSUME NEW v \in Request, Issues(v)', ~job'[v].beside, NEW s \in Token, Works(s, job[v].who)'
        PROVE  s \in job'[v].prior
    <3>1. v # w /\ Issues(v) /\ job'[v] = job[v]
      BY <1>4, <2>1
    <3>2. s # t
      <4>1. j.who = job[v].who => j.beside
        BY <1>0, <1>1, <2>1, <3>1 DEF TokenInv, IssuesApart
      <4> QED BY <1>2, <1>3, <2>1, <3>1, <4>1 DEF Works
    <3>3. Works(s, job[v].who)
      BY <1>3, <2>1, <3>1, <3>2 DEF Works
    <3> QED BY <2>1, <3>1, <3>3 DEF TokenInv, PriorSeen
  <2> QED BY <2>1 DEF PriorSeen
<1> QED BY <1>5, <1>6, <1>7 DEF TokenInv

\* The other requests that arrive.
LEMMA TokenBeginStep ==
    ASSUME TokenInv, TypeOK, NEW w \in Request, Begin(w)
    PROVE  TokenInv'
<1>1. ASSUME NEW j, NEW p, Arrive(w, j, p), p # "commit" \/ j.kind # "issue" PROVE TokenInv'
  BY <1>1, OtherMoveStep DEF Arrive, tables
<1>2. ASSUME NEW a \in User, NEW u \in User, NEW r \in Role, ChangeRole(w, a, u, r) PROVE TokenInv'
  BY <1>1, <1>2 DEF ChangeRole
<1>3. ASSUME NEW a \in User, NEW u \in User, DisableUser(w, a, u) PROVE TokenInv'
  BY <1>1, <1>3 DEF DisableUser
<1>4. ASSUME NEW a \in User, NEW u \in User, ReactivateUser(w, a, u) PROVE TokenInv'
  BY <1>1, <1>4 DEF ReactivateUser
<1>5. ASSUME NEW a \in User, NEW u \in User, PasswordReset(w, a, u) \/ ResendInvite(w, a, u) PROVE TokenInv'
  BY <1>5, IssueBeginStep DEF PasswordReset, ResendInvite
<1>6. ASSUME NEW t \in Token, Activate(w, t) PROVE TokenInv'
  <2> DEFINE j == [NewJob("activate", users[tokens[t].user].lab, tokens[t].user) EXCEPT !.token = t]
  <2>1. j.kind = "activate"
    BY DEF NewJob
  <2> QED BY <1>1, <1>6, <2>1 DEF Activate
<1>7. ASSUME NEW i \in Invite, NEW u \in User, Register(w, i, u) PROVE TokenInv'
  <2> DEFINE j == [NewJob("register", invites[i].lab, u) EXCEPT !.invite = i, !.seen.role = invites[i].role]
  <2>1. j.kind = "register"
    BY DEF NewJob
  <2> QED BY <1>1, <1>7, <2>1 DEF Register
<1>8. ASSUME NEW i \in Invite, NEW a \in User, RevokeInvite(w, a, i) PROVE TokenInv'
  BY <1>1, <1>8 DEF RevokeInvite
<1>9. ASSUME NEW l \in Slug, NEW u \in User, Setup(w, l, u) PROVE TokenInv'
  <2>1. NewJob("setup", l, u).kind = "setup"
    BY DEF NewJob
  <2> QED BY <1>1, <1>9, <2>1 DEF Setup
<1> QED BY <1>2, <1>3, <1>4, <1>5, <1>6, <1>7, <1>8, <1>9 DEF Begin

\* The locks and the other commits.
LEMMA TokenProceedStep ==
    ASSUME TokenInv, IdentityInv, NEW w \in Request, Proceed(w)
    PROVE  TokenInv'
<1>0. TypeOK /\ Subject(pc[w], job[w])
  BY DEF IdentityInv, Requests, ReqOK
<1>1. CASE EnsureAdminRemains(w)
  <2>1. CASE End(w)
    BY <1>0, <1>1, <2>1, EndsStep DEF EnsureAdminRemains, tables
  <2>2. CASE ~End(w)
    BY <1>0, <1>1, <2>2, OtherMoveStep DEF EnsureAdminRemains, tables
  <2> QED BY <2>1, <2>2
<1>2. CASE FlushUser(w)
  <2> DEFINE j == [job[w] EXCEPT !.locked = IF Changes(job[w]) THEN @ \cup {job[w].who} ELSE @]
  <2>1. job[w] \in Job /\ job[w].kind # "issue"
    BY <1>0, <1>2 DEF FlushUser, Subject, RowJobs, Removals, TypeOK
  <2>2. j.kind = job[w].kind
    BY <2>1 DEF Job
  <2>3. pc' = [pc EXCEPT ![w] = "commit"] /\ job' = [job EXCEPT ![w] = j] /\ tokens' = tokens
    BY <1>0, <1>2 DEF FlushUser, tables, TypeOK
  <2> HIDE DEF j
  <2> QED BY <1>0, <2>1, <2>2, <2>3, OtherMoveStep
<1>3. CASE LockInvite(w)
  <2>1. CASE End(w)
    BY <1>0, <1>3, <2>1, EndsStep DEF LockInvite, tables
  <2>2. CASE ~End(w)
    <3>1. job' = [job EXCEPT ![w] = job[w]] /\ pc' = [pc EXCEPT ![w] = "commit"] /\ tokens' = tokens
      BY <1>0, <1>3, <2>2 DEF LockInvite, tables, TypeOK
    <3>2. job[w].kind = "revoke"
      BY <1>0, <1>3 DEF LockInvite, Subject
    <3> QED BY <1>0, <3>1, <3>2, OtherMoveStep
  <2> QED BY <2>1, <2>2
<1>4. CASE CommitUser(w) \/ CommitRegister(w) \/ CommitRevoke(w) \/ CommitSetup(w)
  <2>1. End(w) /\ tokens' = tokens
    BY <1>4 DEF CommitUser, CommitRegister, CommitRevoke, CommitSetup
  <2> QED BY <1>0, <2>1, EndsStep
<1>5. ASSUME NEW t \in Token, CommitIssue(w, t) PROVE TokenInv'
  BY <1>0, <1>5, IssueEndStep
<1>6. CASE CommitActivate(w)
  <2>1. End(w) /\ tokens' = [tokens EXCEPT ![job[w].token].state = "used"] /\ tokens \in [Token -> TokenRow]
    BY <1>0, <1>6 DEF CommitActivate, TypeOK
  <2>2. \A s \in Token : tokens'[s].state = "live" => tokens'[s] = tokens[s]
    BY <2>1 DEF TokenRow
  <2> QED BY <1>0, <2>1, <2>2, EndsStep
<1> QED BY <1>1, <1>2, <1>3, <1>4, <1>5, <1>6 DEF Proceed

-----------------------------------------------------------------------------
(* Results *)

\* The initial states satisfy the inductive invariant.
LEMMA IdentityInit == Init => IdentityInv
<1> SUFFICES ASSUME Init PROVE IdentityInv
  OBVIOUS
<1>1. job = [w \in Request |-> IdleJob] /\ pc = [w \in Request |-> "new"]
  BY IdleFacts DEF Init
<1>2. NoRow \in Row /\ NoRow.lab = None /\ NoRow.via = None
  BY DEF NoRow, Row, Role
<1>3. users \in [User -> Row] /\ labs = Labs(users) /\ \A u \in User : users[u].via = None
  <2>1. CASE users = Founders /\ labs = Labs(Founders)
    BY <2>1, IdentityAssumption
  <2>2. CASE users = [u \in User |-> NoRow] /\ labs = {}
    BY <1>2, <2>2 DEF Labs
  <2> QED BY <2>1, <2>2 DEF Init
<1>4. labs \subseteq Slug
  BY <1>3 DEF Labs, Row
<1>5. TypeOK
  BY <1>1, <1>3, <1>4, IdleFacts DEF Init, TypeOK, InviteRow, TokenRow, Role
<1>6. TokensNamed
  BY DEF Init, TokensNamed
<1>7. InviteStatusTells
  BY <1>3, IdentityAssumption DEF Init, InviteStatusTells
<1>8. AdminRemains
  BY IdentityAssumption DEF Init, AdminRemains
<1>9. Requests
  BY <1>1 DEF Requests, ReqOK, Subject, Keeper, OwnLock, StillUnused, PriorExist, IdleJob, RowJobs, Removals
<1>10. LocksDisjoint
  BY <1>1 DEF LocksDisjoint, IdleJob
<1> QED BY <1>5, <1>6, <1>7, <1>8, <1>9, <1>10 DEF IdentityInv, Remains

\* Every step keeps the inductive invariant.
LEMMA IdentityStep == IdentityInv /\ [Next]_vars => IdentityInv'
<1> SUFFICES ASSUME IdentityInv, [Next]_vars PROVE IdentityInv'
  OBVIOUS
<1>1. ASSUME NEW w \in Request, Begin(w) PROVE IdentityInv'
  BY <1>1, BeginStep
<1>2. ASSUME NEW w \in Request, Proceed(w) PROVE IdentityInv'
  BY <1>2, LockStep, CommitUserStep, CommitIssueStep, CommitActivateStep, CommitRegisterStep,
     CommitRevokeStep, CommitSetupStep DEF Proceed
<1>3. ASSUME NEW w \in Request, Fail(w) PROVE IdentityInv'
  BY <1>3, EndUnchanged DEF Fail
<1>4. ASSUME NEW a \in User, NEW i \in Invite, NEW r \in Role, IssueInvite(a, i, r) PROVE IdentityInv'
  BY <1>4, IssueInviteStep
<1>5. CASE Expire
  BY <1>5, ExpireStep
<1>6. CASE UNCHANGED vars
  <2>1. UNCHANGED <<labs, users, pc, job, stale>> /\ invites' = invites /\ tokens' = tokens
    BY <1>6 DEF vars
  <2> QED BY <2>1, TableStep DEF IdentityInv, TypeOK
<1> QED BY <1>1, <1>2, <1>3, <1>4, <1>5, <1>6 DEF Next

\* Requests that overlap in any way keep the tables and the jobs well-formed.
THEOREM IdentityTypes == Spec => []TypeOK
<1>1. IdentityInv => TypeOK
  BY DEF IdentityInv
<1> QED BY <1>1, IdentityInit, IdentityStep, PTL DEF Spec

\* _ensure_at_least_one_active_admin: however many demotions and disablings
\* overlap, every lab keeps an active lab_admin, unless a removal skipped the
\* check on the strength of a snapshot that no longer held.
THEOREM AnAdminRemains == Spec => []AdminRemains
<1>1. IdentityInv => AdminRemains
  BY DEF IdentityInv, Remains
<1> QED BY <1>1, IdentityInit, IdentityStep, PTL DEF Spec

\* Every step keeps what is known about the links.
LEMMA TokenStep == IdentityInv /\ TokenInv /\ [Next]_vars => TokenInv'
<1> SUFFICES ASSUME IdentityInv, TokenInv, [Next]_vars PROVE TokenInv'
  OBVIOUS
<1>0. TypeOK
  BY DEF IdentityInv
<1>1. ASSUME NEW w \in Request, Begin(w) PROVE TokenInv'
  BY <1>0, <1>1, TokenBeginStep
<1>2. ASSUME NEW w \in Request, Proceed(w) PROVE TokenInv'
  BY <1>2, TokenProceedStep
<1>3. ASSUME NEW w \in Request, Fail(w) PROVE TokenInv'
  BY <1>0, <1>3, EndsStep DEF Fail, tables
<1>4. CASE UNCHANGED <<pc, job, tokens>>
  BY <1>4, NoIssueStep DEF Issues
<1>5. ASSUME NEW a \in User, NEW i \in Invite, NEW r \in Role, IssueInvite(a, i, r) PROVE TokenInv'
  BY <1>4, <1>5 DEF IssueInvite
<1>6. CASE Expire
  <2>1. UNCHANGED <<pc, job>> /\ tokens \in [Token -> TokenRow]
    BY <1>0, <1>6 DEF Expire, TypeOK
  <2>2. \A s \in Token : tokens'[s].state = "live" => tokens'[s] = tokens[s]
    BY <1>6, <2>1 DEF Expire, TokenRow
  <2> QED BY <2>1, <2>2, NoIssueStep DEF Issues
<1>7. CASE UNCHANGED vars
  BY <1>4, <1>7 DEF vars
<1> QED BY <1>1, <1>2, <1>3, <1>5, <1>6, <1>7 DEF Next

\* issue_setup_token, "single live token per user at a time": of two links of
\* a user that both work, one was asked for while another issue for that user
\* was under way.
THEOREM LinksAreSingle == Spec => []SingleLiveToken
<1>1. Init => TokenInv
  BY DEF Init, TokenInv, SingleLiveToken, IssuesApart, PriorSeen, Issues
<1>2. TokenInv => SingleLiveToken
  BY DEF TokenInv
<1> QED BY <1>1, <1>2, IdentityInit, IdentityStep, TokenStep, PTL DEF Spec

\* _invite_status tells the truth although registrations and revocations of an
\* invite overlap.
THEOREM InviteStatusIsTrue == Spec => []InviteStatusTells
<1>1. IdentityInv => InviteStatusTells
  BY DEF IdentityInv, Remains
<1> QED BY <1>1, IdentityInit, IdentityStep, PTL DEF Spec
=============================================================================
