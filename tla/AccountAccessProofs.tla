------------------------ MODULE AccountAccessProofs ------------------------
(***************************************************************************)
(* Proofs about AccountAccess, for every set of users, keys, accounts and  *)
(* requests.  Each result rests on what a request that waits for the agent *)
(* still owns: its frame on the wire, its challenge, or the lock on its    *)
(* link request.                                                           *)
(***************************************************************************)
EXTENDS AccountAccess, SequenceTheorems, TLAPS

\* Frame m is the push that request state j is about.
Asks(m, j) == m.op = "push" /\ j.kind \in Pushes /\ j.acct = m.acct /\ j.key = m.key

\* A frame that somebody waits for asks for what that request is about, and it
\* is the only one of that request.
FrameInv ==
    /\ \A i \in DOMAIN wire : wire[i].from # NoOne =>
        /\ pc[wire[i].from] = "wait"
        /\ job[wire[i].from].kind \in {"verify", "upgrade"} => wire[i].op = "verify"
        /\ job[wire[i].from].kind \in Pushes \/ wire[i].op = "push" => Asks(wire[i], job[wire[i].from])
    /\ \A i, j \in DOMAIN wire : wire[i].from = wire[j].from /\ wire[i].from # NoOne => i = j

\* Somebody accounts for key k in the file of account a.
Tracked(a, k) ==
    \/ entry[a][k] # "none"
    \/ <<a, k>> \in stray
    \/ \E w \in Request : Pushing(w, a, k)

\* The keys in the files and the keys on their way there are accounted for.
PushInv ==
    /\ \A a \in Account, k \in Key : k \in host[a] => Tracked(a, k)
    /\ \A i \in DOMAIN wire : wire[i].op = "push" => Tracked(wire[i].acct, wire[i].key)

\* The request has spent a challenge and not yet turned it into a link.
Claiming(w) == job[w].kind \in {"verify", "upgrade"}

\* A challenge is live, or in the hands of one request, or the proof of one link.
ChalInv ==
    /\ \A w \in Request : Claiming(w) =>
        /\ job[w].chal \in DOMAIN chals /\ job[w].chal \notin live
        /\ chals[job[w].chal] = [user |-> job[w].user, acct |-> job[w].acct]
        /\ pc[w] = "ok" => job[w].chal \in signed
        /\ pc[w] \in {"wait", "ok", "failed"}
    /\ \A v, w \in Request : Claiming(v) /\ Claiming(w) /\ job[v].chal = job[w].chal => v = w
    /\ \A i \in DOMAIN links : links[i].source = "ssh_challenge" =>
        /\ links[i].chal \notin live
        /\ \A w \in Request : Claiming(w) => job[w].chal # links[i].chal

\* Who has locked a link request knows its status, and holds the lock alone.
LockInv ==
    /\ \A w \in Request : job[w].kind \in {"approve", "retry"} => job[w].row \in DOMAIN reqs
    /\ \A w \in Request : job[w].kind = "approve" /\ Holds(w, job[w].row)
                            => reqs[job[w].row].status = "pending"
    /\ \A v, w \in Request : Holds(v, job[v].row) /\ Holds(w, job[v].row) => v = w

AccessInv == TypeOK /\ FrameInv /\ PushInv /\ ChalInv /\ LinkIsProven /\ LockInv

-----------------------------------------------------------------------------
(* Sequences and records *)

\* What Append does to a sequence.
LEMMA AppendFacts ==
    ASSUME NEW S, NEW q \in Seq(S), NEW m \in S
    PROVE  /\ Append(q, m) \in Seq(S)
           /\ Len(Append(q, m)) = Len(q) + 1
           /\ DOMAIN Append(q, m) = DOMAIN q \cup {Len(q) + 1}
           /\ \A i \in DOMAIN q : Append(q, m)[i] = q[i]
           /\ Append(q, m)[Len(q) + 1] = m
OBVIOUS

\* What Tail does to a sequence that is not empty.
LEMMA TailFacts ==
    ASSUME NEW S, NEW q \in Seq(S), q # <<>>
    PROVE  /\ Head(q) \in S /\ Head(q) = q[1] /\ 1 \in DOMAIN q
           /\ Tail(q) \in Seq(S)
           /\ \A i \in DOMAIN Tail(q) : i + 1 \in DOMAIN q /\ i + 1 # 1 /\ Tail(q)[i] = q[i + 1]
OBVIOUS

\* A function on the domain of a sequence is a sequence.
LEMMA MapFacts ==
    ASSUME NEW S, NEW T, NEW q \in Seq(S), NEW f(_), \A i \in DOMAIN q : f(i) \in T
    PROVE  [i \in DOMAIN q |-> f(i)] \in Seq(T)
OBVIOUS

\* A link request keeps its shape when its status is set.
LEMMA StatusFacts ==
    ASSUME NEW q \in Seq(ReqRow), NEW r \in DOMAIN q,
           NEW s \in {"pending", "approved", "denied", "withdrawn"}
    PROVE  /\ [q EXCEPT ![r].status = s] \in Seq(ReqRow)
           /\ DOMAIN [q EXCEPT ![r].status = s] = DOMAIN q
           /\ [q EXCEPT ![r].status = s][r].status = s
           /\ \A i \in DOMAIN q \ {r} : [q EXCEPT ![r].status = s][i] = q[i]
<1>1. q[r] \in ReqRow
  OBVIOUS
<1>2. [q[r] EXCEPT !.status = s] \in ReqRow
  BY <1>1 DEF ReqRow
<1> QED BY <1>1, <1>2 DEF ReqRow

\* Links that are deactivated stay what they are otherwise.
LEMMA SomeDeactivated ==
    ASSUME NEW q \in Seq(Link), NEW L, NEW d,
           d = [i \in DOMAIN q |-> IF i \in L THEN [q[i] EXCEPT !.active = FALSE] ELSE q[i]]
    PROVE  /\ d \in Seq(Link)
           /\ DOMAIN d = DOMAIN q
           /\ \A i \in DOMAIN q : /\ d[i].user = q[i].user /\ d[i].acct = q[i].acct
                                  /\ d[i].source = q[i].source /\ d[i].chal = q[i].chal
<1> DEFINE f(i) == IF i \in L THEN [q[i] EXCEPT !.active = FALSE] ELSE q[i]
<1>1. \A i \in DOMAIN q : q[i] \in Link
  OBVIOUS
<1>2. \A i \in DOMAIN q :
        /\ f(i) \in Link
        /\ f(i).user = q[i].user /\ f(i).acct = q[i].acct
        /\ f(i).source = q[i].source /\ f(i).chal = q[i].chal
  BY <1>1 DEF Link
<1>3. d = [i \in DOMAIN q |-> f(i)]
  OBVIOUS
<1> HIDE DEF f
<1>4. [i \in DOMAIN q |-> f(i)] \in Seq(Link)
  BY <1>2, MapFacts
<1> QED BY <1>2, <1>3, <1>4

\* The same for one link.
LEMMA Deactivated ==
    ASSUME NEW q \in Seq(Link), NEW l \in DOMAIN q
    PROVE  /\ [q EXCEPT ![l].active = FALSE] \in Seq(Link)
           /\ DOMAIN [q EXCEPT ![l].active = FALSE] = DOMAIN q
           /\ \A i \in DOMAIN q :
                /\ [q EXCEPT ![l].active = FALSE][i].user = q[i].user
                /\ [q EXCEPT ![l].active = FALSE][i].acct = q[i].acct
                /\ [q EXCEPT ![l].active = FALSE][i].source = q[i].source
                /\ [q EXCEPT ![l].active = FALSE][i].chal = q[i].chal
<1>1. q[l] \in Link
  OBVIOUS
<1>2. /\ [q[l] EXCEPT !.active = FALSE] \in Link
      /\ [q[l] EXCEPT !.active = FALSE].user = q[l].user
      /\ [q[l] EXCEPT !.active = FALSE].acct = q[l].acct
      /\ [q[l] EXCEPT !.active = FALSE].source = q[l].source
      /\ [q[l] EXCEPT !.active = FALSE].chal = q[l].chal
  BY <1>1 DEF Link
<1> QED BY <1>1, <1>2 DEF Link

\* An inventory row is inserted or updated.
LEMMA EntryType ==
    ASSUME NEW e \in [Account -> [Key -> Entry]], NEW a \in Account, NEW k \in Key, NEW x \in Entry
    PROVE  /\ [e EXCEPT ![a][k] = x] \in [Account -> [Key -> Entry]]
           /\ [e EXCEPT ![a][k] = x][a][k] = x
           /\ \A b \in Account, j \in Key : <<b, j>> # <<a, k>> =>
                [e EXCEPT ![a][k] = x][b][j] = e[b][j]
OBVIOUS

\* A request that starts with nothing in hand.
LEMMA NewJobType ==
    ASSUME NEW kind \in Claims \cup Revokes \cup {"create", "none"}, NEW u \in User, NEW a \in Account
    PROVE  NewJob(kind, u, a) \in Job
BY DEF NewJob, Job, Claims, Revokes, Pushes, Entry

\* The end of a request.
LEMMA EndType ==
    ASSUME TypeOK, NEW w \in Request, End(w)
    PROVE  /\ pc' \in [Request -> {"new", "begun", "work", "wait", "ok", "failed", "done"}]
           /\ job' \in [Request -> Job]
           /\ pc'[w] = "done" /\ job'[w].kind = "none"
           /\ \A v \in Request \ {w} : pc'[v] = pc[v] /\ job'[v] = job[v]
<1>1. job[w].user \in User /\ job[w].acct \in Account
  BY DEF TypeOK, Job
<1>2. NewJob("none", job[w].user, job[w].acct) \in Job
  BY <1>1, NewJobType
<1>3. NewJob("none", job[w].user, job[w].acct).kind = "none"
  BY DEF NewJob
<1> QED BY <1>2, <1>3 DEF End, TypeOK

\* A call of the agent.
LEMMA CallType ==
    ASSUME TypeOK, NEW w \in Request, NEW op \in {"push", "revoke", "verify", "pam"},
           NEW a \in Account, NEW k \in Key \cup {0}, op = "push" => k \in Key, Call(w, op, a, k)
    PROVE  /\ wire' \in Seq(Message)
           /\ pc' \in [Request -> {"new", "begun", "work", "wait", "ok", "failed", "done"}]
           /\ pc'[w] = "wait"
           /\ \A v \in Request \ {w} : pc'[v] = pc[v]
           /\ wire' = Append(wire, [from |-> w, op |-> op, acct |-> a, key |-> k])
           /\ [from |-> w, op |-> op, acct |-> a, key |-> k] \in Message
<1>1. [from |-> w, op |-> op, acct |-> a, key |-> k] \in Message
  BY DEF Message
<1>2. wire' \in Seq(Message)
  BY <1>1, AppendFacts DEF Call, TypeOK
<1> QED BY <1>1, <1>2 DEF Call, TypeOK

\* The frames of a caller that is gone.
LEMMA AbandonedFacts ==
    ASSUME TypeOK, NEW w \in Request
    PROVE  /\ Abandoned(w) \in Seq(Message)
           /\ DOMAIN Abandoned(w) = DOMAIN wire
           /\ \A i \in DOMAIN wire :
                /\ Abandoned(w)[i].from = (IF wire[i].from = w THEN NoOne ELSE wire[i].from)
                /\ Abandoned(w)[i].op = wire[i].op
                /\ Abandoned(w)[i].acct = wire[i].acct
                /\ Abandoned(w)[i].key = wire[i].key
<1> DEFINE f(i) == IF wire[i].from = w THEN [wire[i] EXCEPT !.from = NoOne] ELSE wire[i]
<1>1. \A i \in DOMAIN wire : wire[i] \in Message
  BY DEF TypeOK
<1>2. \A i \in DOMAIN wire :
        /\ f(i) \in Message
        /\ f(i).from = (IF wire[i].from = w THEN NoOne ELSE wire[i].from)
        /\ f(i).op = wire[i].op /\ f(i).acct = wire[i].acct /\ f(i).key = wire[i].key
  BY <1>1 DEF Message
<1>3. Abandoned(w) = [i \in DOMAIN wire |-> f(i)]
  BY DEF Abandoned
<1> HIDE DEF f
<1>4. wire \in Seq(Message)
  BY DEF TypeOK
<1>5. Abandoned(w) \in Seq(Message)
  BY <1>2, <1>3, <1>4, MapFacts
<1> QED BY <1>2, <1>3, <1>5

-----------------------------------------------------------------------------
(* Types *)

\* The initial state is well typed.
LEMMA TypeInit == Init => TypeOK
<1> SUFFICES ASSUME Init PROVE TypeOK
  OBVIOUS
<1> USE AccessAssumption
<1>1. reqs \in Seq(ReqRow)
  <2>1. [user : User, acct : Account, status : {"pending"}] \subseteq ReqRow
    BY DEF ReqRow
  <2>2. Backlog \in Seq(ReqRow)
    BY <2>1, SeqMonotonic, Zenon
  <2>3. reqs = <<>> \/ reqs = Backlog
    BY DEF Init
  <2>4. <<>> \in Seq(ReqRow)
    OBVIOUS
  <2> QED BY <2>2, <2>3, <2>4, Zenon
<1>2. job \in [Request -> Job]
  <2>1. \A u \in User, a \in Account : NewJob("none", u, a) \in Job
    BY NewJobType
  <2> QED BY <2>1 DEF Init
<1>3. /\ links \in Seq(Link) /\ chals \in Seq(Challenge) /\ live \subseteq DOMAIN chals
      /\ wire \in Seq(Message)
  BY DEF Init
<1>4. /\ active \in [User -> BOOLEAN]
      /\ account \in [Account -> {"absent", "active", "deleted"}]
      /\ key \in [Key -> {"absent", "active", "removed"}]
      /\ entry \in [Account -> [Key -> Entry]]
      /\ host \in [Account -> SUBSET Key]
      /\ pc \in [Request -> {"new", "begun", "work", "wait", "ok", "failed", "done"}]
      /\ signed \subseteq Nat
      /\ stray \subseteq Account \X Key
  BY DEF Init, Entry
<1> QED BY <1>1, <1>2, <1>3, <1>4 DEF TypeOK

\* The types of what the link-request handlers change.
LEMMA LinkRequestTypes ==
    ASSUME TypeOK, LockInv, NEW w \in Request, LinkRequests(w)
    PROVE  TypeOK'
<1> USE AccessAssumption
<1>1. ASSUME NEW u \in User, NEW a \in Account, CreateRequest(w, u, a) PROVE TypeOK'
  <2>1. NewJob("create", u, a) \in Job
    BY NewJobType
  <2> QED BY <1>1, <2>1 DEF CreateRequest, Begin, TypeOK, tables
<1>2. ASSUME NEW kind \in {"approve", "retry"}, NEW r \in DOMAIN reqs, NEW k \in Key,
             Decide(w, kind, r, k)
      PROVE  TypeOK'
  <2>1. reqs[r] \in ReqRow /\ r \in Nat
    BY DEF TypeOK
  <2>2. reqs[r].user \in User /\ reqs[r].acct \in Account
    BY <2>1 DEF ReqRow
  <2>3. entry[reqs[r].acct][k] \in Entry
    BY <2>2 DEF TypeOK
  <2>4. [NewJob(kind, reqs[r].user, reqs[r].acct) EXCEPT
            !.row = r, !.key = k, !.had = entry[reqs[r].acct][k]] \in Job
    BY <2>1, <2>2, <2>3 DEF NewJob, Job, Pushes
  <2> QED BY <1>2, <2>4 DEF Decide, Begin, TypeOK, tables
<1>3. ASSUME InsertRequest(w) PROVE TypeOK'
  <2>1. [user |-> job[w].user, acct |-> job[w].acct, status |-> "pending"] \in ReqRow
    BY DEF TypeOK, Job, ReqRow
  <2>2. reqs' \in Seq(ReqRow)
    BY <1>3, <2>1, AppendFacts DEF InsertRequest, TypeOK
  <2> QED BY <1>3, <2>2, EndType DEF InsertRequest, TypeOK
<1>4. ASSUME LockRequest(w) PROVE TypeOK'
  <2>1. /\ job[w].acct \in Account /\ job[w].key \in Key
    BY <1>4 DEF LockRequest, TypeOK, Job, Pushes
  <2>2. CASE Call(w, "push", job[w].acct, job[w].key) /\ UNCHANGED job
    BY <1>4, <2>1, <2>2, CallType DEF LockRequest, TypeOK, tables
  <2>3. CASE End(w) /\ UNCHANGED wire
    BY <1>4, <2>3, EndType DEF LockRequest, TypeOK, tables
  <2> QED BY <1>4, <2>2, <2>3 DEF LockRequest
<1>5. ASSUME ApproveDone(w) PROVE TypeOK'
  <2>1. job[w].acct \in Account /\ job[w].key \in Key
    BY <1>5 DEF ApproveDone, TypeOK, Job, Pushes
  <2>2. reqs' \in Seq(ReqRow)
    <3>1. job[w].row \in DOMAIN reqs
      BY <1>5 DEF ApproveDone, LockInv
    <3>2. [reqs EXCEPT ![job[w].row].status = "approved"] \in Seq(ReqRow)
      BY <3>1, StatusFacts DEF TypeOK
    <3>3. reqs' = reqs \/ reqs' = [reqs EXCEPT ![job[w].row].status = "approved"]
      BY <1>5 DEF ApproveDone
    <3> QED BY <3>2, <3>3 DEF TypeOK
  <2>3. entry' \in [Account -> [Key -> Entry]]
    <3>1. \/ entry' = entry
          \/ entry' = [entry EXCEPT ![job[w].acct][job[w].key] = "active"]
      BY <1>5 DEF ApproveDone
    <3>2. "active" \in Entry
      BY DEF Entry
    <3>3. [entry EXCEPT ![job[w].acct][job[w].key] = "active"] \in [Account -> [Key -> Entry]]
      BY <2>1, <3>2, EntryType DEF TypeOK
    <3> QED BY <3>1, <3>3 DEF TypeOK
  <2> QED BY <1>5, <2>2, <2>3, EndType DEF ApproveDone, TypeOK
<1>6. ASSUME RetryDone(w) PROVE TypeOK'
  <2>1. job[w].acct \in Account /\ job[w].key \in Key
    BY <1>6 DEF RetryDone, TypeOK, Job, Pushes
  <2>2. entry' \in [Account -> [Key -> Entry]]
    <3>1. \/ entry' = entry
          \/ entry' = [entry EXCEPT ![job[w].acct][job[w].key] = "active"]
      BY <1>6 DEF RetryDone
    <3>2. "active" \in Entry
      BY DEF Entry
    <3>3. [entry EXCEPT ![job[w].acct][job[w].key] = "active"] \in [Account -> [Key -> Entry]]
      BY <2>1, <3>2, EntryType DEF TypeOK
    <3> QED BY <3>1, <3>3 DEF TypeOK
  <2> QED BY <1>6, <2>2, EndType DEF RetryDone, TypeOK
<1> QED BY <1>1, <1>2, <1>3, <1>4, <1>5, <1>6 DEF LinkRequests

\* The types of what the claims change.
LEMMA ClaimTypes ==
    ASSUME TypeOK, NEW w \in Request, ClaimsOf(w)
    PROVE  TypeOK'
<1> USE AccessAssumption
<1>1. ASSUME NEW u \in User, NEW c \in live, NEW k \in Key, NEW i \in 0..Len(links),
             Verify(w, u, c, k, i)
      PROVE  TypeOK'
  <2>0. chals[c] \in Challenge /\ c \in Nat /\ i \in Nat
    BY DEF TypeOK
  <2>1. /\ chals[c].acct \in Account /\ c \in Nat /\ i \in Nat
    BY <2>0 DEF Challenge
  <2>2. [NewJob("verify", u, chals[c].acct) EXCEPT !.key = k, !.chal = c, !.row = i] \in Job
    BY <2>1 DEF NewJob, Job, Claims, Pushes, Entry
  <2>3. job' \in [Request -> Job] /\ live' \subseteq DOMAIN chals'
    BY <1>1, <2>2 DEF Verify, Consume, TypeOK
  <2>4. Call(w, "verify", chals[c].acct, k)
    BY <1>1 DEF Verify
  <2> QED BY <1>1, <2>1, <2>3, <2>4, CallType DEF Verify, TypeOK, tables
<1>2. ASSUME NEW l \in DOMAIN links, NEW c \in live, NEW k \in Key, NEW i \in 0..Len(links),
             Upgrade(w, l, c, k, i)
      PROVE  TypeOK'
  <2>1. links[l] \in Link /\ c \in Nat /\ i \in Nat
    BY DEF TypeOK
  <2>2. links[l].user \in User /\ links[l].acct \in Account
    BY <2>1 DEF Link
  <2>3. [NewJob("upgrade", links[l].user, links[l].acct) EXCEPT
            !.key = k, !.chal = c, !.row = i] \in Job
    BY <2>1, <2>2 DEF NewJob, Job, Claims, Pushes, Entry
  <2>4. job' \in [Request -> Job] /\ live' \subseteq DOMAIN chals'
    BY <1>2, <2>3 DEF Upgrade, Consume, TypeOK
  <2>5. Call(w, "verify", links[l].acct, k)
    BY <1>2 DEF Upgrade
  <2> QED BY <1>2, <2>2, <2>4, <2>5, CallType DEF Upgrade, TypeOK, tables
<1>3. ASSUME NEW u \in User, NEW a \in Account, NEW i \in 0..Len(links), TryPassword(w, u, a, i)
      PROVE  TypeOK'
  <2>1. i \in Nat
    BY DEF TypeOK
  <2>2. [NewJob("pam", u, a) EXCEPT !.row = i] \in Job
    BY <2>1 DEF NewJob, Job, Claims, Pushes, Entry
  <2>3. job' \in [Request -> Job] /\ Call(w, "pam", a, 0)
    BY <1>3, <2>2 DEF TryPassword, TypeOK
  <2> QED BY <1>3, <2>3, CallType DEF TryPassword, TypeOK, tables
<1>4. ASSUME NEW u \in User, NEW a \in Account, NEW i \in 0..Len(links), Declare(w, u, a, i)
      PROVE  TypeOK'
  <2>1. i \in Nat
    BY DEF TypeOK
  <2>2. [NewJob("declare", u, a) EXCEPT !.row = i] \in Job
    BY <2>1 DEF NewJob, Job, Claims, Pushes, Entry
  <2> QED BY <1>4, <2>2 DEF Declare, Begin, TypeOK, tables
<1>5. NewLink(w) \in Link
  BY DEF NewLink, LinkSource, Link, Source, TypeOK, Job
<1>6. ASSUME Establish(w) PROVE TypeOK'
  <2>1. links' \in Seq(Link)
    <3>1. links' = links \/ links' = Append(links, NewLink(w))
      BY <1>6 DEF Establish
    <3>2. links \in Seq(Link)
      BY DEF TypeOK
    <3>3. Append(links, NewLink(w)) \in Seq(Link)
      BY <1>5, <3>2, AppendFacts
    <3> QED BY <3>1, <3>2, <3>3
  <2> QED BY <1>6, <2>1, EndType DEF Establish, TypeOK
<1>7. ASSUME UpgradeDone(w) PROVE TypeOK'
  <2>1. links' \in Seq(Link)
    <3>1. \/ links' = links
          \/ /\ job[w].row \in DOMAIN links
             /\ links' = Append([links EXCEPT ![job[w].row].active = FALSE], NewLink(w))
      BY <1>7 DEF UpgradeDone
    <3>2. job[w].row \in DOMAIN links => [links EXCEPT ![job[w].row].active = FALSE] \in Seq(Link)
      BY Deactivated DEF TypeOK
    <3>3. job[w].row \in DOMAIN links =>
            Append([links EXCEPT ![job[w].row].active = FALSE], NewLink(w)) \in Seq(Link)
      BY <1>5, <3>2, AppendFacts
    <3> QED BY <3>1, <3>3 DEF TypeOK
  <2> QED BY <1>7, <2>1, EndType DEF UpgradeDone, TypeOK
<1>8. ASSUME ClaimRefused(w) PROVE TypeOK'
  BY <1>8, EndType DEF ClaimRefused, TypeOK, tables
<1> QED BY <1>1, <1>2, <1>3, <1>4, <1>6, <1>7, <1>8 DEF ClaimsOf

\* The types of what the revocations change.
LEMMA RevocationTypes ==
    ASSUME TypeOK, NEW w \in Request, Revocations(w)
    PROVE  TypeOK'
<1> USE AccessAssumption
<1>1. ASSUME NEW kind \in Revokes, NEW u \in User, NEW a \in Account,
             NEW ls \in SUBSET Nat, NEW ps \in SUBSET (Account \X Key)
      PROVE  Revocation(kind, u, a, ls, ps) \in Job
  BY <1>1 DEF Revocation, NewJob, Job, Revokes, Claims, Pushes, Entry
<1>2. ASSUME NEW l \in DOMAIN links, NEW b \in BOOLEAN, Revoke(w, l, b) PROVE TypeOK'
  <2>1. links[l] \in Link /\ l \in Nat
    BY DEF TypeOK
  <2>2. links[l].user \in User /\ links[l].acct \in Account
    BY <2>1 DEF Link
  <2>3. (IF b THEN KeysPushedFor(links[l].user, links[l].acct) ELSE {}) \in SUBSET (Account \X Key)
    BY <2>2 DEF KeysPushedFor
  <2>4. {l} \in SUBSET Nat /\ "revoke" \in Revokes
    BY <2>1 DEF Revokes
  <2>5. Revocation("revoke", links[l].user, links[l].acct, {l},
            IF b THEN KeysPushedFor(links[l].user, links[l].acct) ELSE {}) \in Job
    BY <1>1, <2>2, <2>3, <2>4
  <2> QED BY <1>2, <2>5 DEF Revoke, TypeOK, tables
<1>3. ASSUME NEW u \in User, NEW a \in Account, DisableUser(w, u, a) PROVE TypeOK'
  <2> DEFINE ls == {i \in DOMAIN links : links[i].user = u /\ links[i].active}
  <2> DEFINE ps == UNION {KeysPushedFor(u, links[i].acct) : i \in ls}
  <2>1. ls \in SUBSET Nat
    BY DEF TypeOK
  <2>2. \A i \in ls : KeysPushedFor(u, links[i].acct) \subseteq Account \X Key
    <3>0. \A i \in ls : links[i] \in Link
      BY DEF TypeOK
    <3>1. \A i \in ls : links[i].acct \in Account
      BY <3>0 DEF Link
    <3> QED BY <3>1 DEF KeysPushedFor
  <2>3. ps \in SUBSET (Account \X Key)
    <3> SUFFICES ASSUME NEW x \in ps PROVE x \in Account \X Key
      OBVIOUS
    <3>1. PICK i \in ls : x \in KeysPushedFor(u, links[i].acct)
      OBVIOUS
    <3> QED BY <2>2, <3>1
  <2>4. \A kind \in Revokes : Cascade(kind, u, a) = Revocation(kind, u, a, ls, ps)
    BY DEF Cascade
  <2> HIDE DEF ls, ps
  <2>5. Cascade(IF active[u] THEN "disable" ELSE "revoke", u, a) \in Job
    BY <1>1, <2>1, <2>3, <2>4 DEF Revokes
  <2> QED BY <1>3, <2>5 DEF DisableUser, TypeOK, tables
<1>4. ASSUME NEW l \in job[w].left, RevokeLink(w, l) PROVE TypeOK'
  <2>1. l \in Nat
    BY DEF TypeOK, Job
  <2>2. [job[w] EXCEPT !.left = @ \ {l}, !.locked = @ \cup {l}] \in Job
    <3>1. job[w] \in Job
      BY DEF TypeOK
    <3> QED BY <2>1, <3>1 DEF Job
  <2>3. job' = [job EXCEPT ![w] = [job[w] EXCEPT !.left = @ \ {l}, !.locked = @ \cup {l}]]
    BY <1>4 DEF RevokeLink, TypeOK
  <2> QED BY <1>4, <2>2, <2>3 DEF RevokeLink, TypeOK, tables
<1>5. ASSUME NEW p \in job[w].todo, RevokeKey(w, p) PROVE TypeOK'
  <2>1. p \in Account \X Key
    BY DEF TypeOK, Job
  <2>2. [job[w] EXCEPT !.todo = @ \ {p}] \in Job
    <3>1. job[w] \in Job
      BY DEF TypeOK
    <3> QED BY <3>1 DEF Job
  <2>3. job' = [job EXCEPT ![w] = [job[w] EXCEPT !.todo = @ \ {p}]]
    BY <1>5 DEF RevokeKey, TypeOK
  <2>4. Call(w, "revoke", p[1], p[2]) /\ p[1] \in Account /\ p[2] \in Key \cup {0}
    BY <1>5, <2>1 DEF RevokeKey
  <2>5. job' \in [Request -> Job]
    BY <2>2, <2>3 DEF TypeOK
  <2> QED BY <1>5, <2>4, <2>5, CallType DEF RevokeKey, TypeOK, tables
<1>6. ASSUME LockUser(w) \/ RevokeNext(w) PROVE TypeOK'
  BY <1>6 DEF LockUser, RevokeNext, TypeOK, tables
<1>7. ASSUME RevokeDone(w) PROVE TypeOK'
  <2>1. links' \in Seq(Link)
    <3>1. links' = [i \in DOMAIN links |->
                        IF i \in job[w].locked THEN [links[i] EXCEPT !.active = FALSE] ELSE links[i]]
      BY <1>7 DEF RevokeDone
    <3>2. links \in Seq(Link)
      BY DEF TypeOK
    <3>3. [i \in DOMAIN links |->
              IF i \in job[w].locked THEN [links[i] EXCEPT !.active = FALSE] ELSE links[i]] \in Seq(Link)
      BY ONLY <3>2, SomeDeactivated
    <3> QED BY ONLY <3>1, <3>3
  <2>2. entry' \in [Account -> [Key -> Entry]]
    BY <1>7 DEF RevokeDone, TypeOK, Entry
  <2>3. active' \in [User -> BOOLEAN]
    BY <1>7 DEF RevokeDone, TypeOK, Job
  <2> QED BY <1>7, <2>1, <2>2, <2>3, EndType DEF RevokeDone, TypeOK
<1> QED BY <1>2, <1>3, <1>4, <1>5, <1>6, <1>7 DEF Revocations

\* The types of what onboarding and repeated pushes change.
LEMMA OnboardingTypes ==
    ASSUME TypeOK, NEW w \in Request, Onboarding(w)
    PROVE  TypeOK'
<1> USE AccessAssumption
<1>1. ASSUME NEW a \in Account, NEW k \in Key, Onboard(w, a, k) PROVE TypeOK'
  <2>1. [NewJob("onboard", Owner[k], a) EXCEPT !.key = k] \in Job
    BY DEF NewJob, Job, Pushes, Entry
  <2> QED BY <1>1, <2>1 DEF Onboard, Begin, TypeOK, tables
<1>2. ASSUME NEW a \in Account, NEW k \in Key, Repush(w, a, k) PROVE TypeOK'
  <2>1. [NewJob("repush", Owner[k], a) EXCEPT !.key = k, !.had = "inactive"] \in Job
    BY DEF NewJob, Job, Pushes, Entry
  <2>2. job' \in [Request -> Job] /\ Call(w, "push", a, k)
    BY <1>2, <2>1 DEF Repush, TypeOK
  <2> QED BY <1>2, <2>2, CallType DEF Repush, TypeOK, tables
<1>3. ASSUME OnboardPush(w) PROVE TypeOK'
  <2>1. job[w].acct \in Account /\ job[w].key \in Key
    BY <1>3 DEF OnboardPush, TypeOK, Job, Pushes
  <2>2. Call(w, "push", job[w].acct, job[w].key)
    BY <1>3 DEF OnboardPush
  <2> QED BY <1>3, <2>1, <2>2, CallType DEF OnboardPush, TypeOK, tables
<1>4. ASSUME OnboardDone(w) PROVE TypeOK'
  <2>1. job[w].acct \in Account /\ job[w].key \in Key /\ job[w].user \in User
    BY <1>4 DEF OnboardDone, TypeOK, Job, Pushes
  <2>2. entry' \in [Account -> [Key -> Entry]]
    <3>1. (IF pc[w] = "ok" THEN "active" ELSE "inactive") \in Entry
      BY DEF Entry
    <3>2. entry \in [Account -> [Key -> Entry]]
      BY DEF TypeOK
    <3>3. entry' = [entry EXCEPT ![job[w].acct][job[w].key] =
                        IF pc[w] = "ok" THEN "active" ELSE "inactive"]
      BY <1>4 DEF OnboardDone
    <3> QED BY <2>1, <3>1, <3>2, <3>3, EntryType
  <2>3. links' \in Seq(Link)
    <3>1. [user |-> job[w].user, acct |-> job[w].acct, source |-> "admin_declared",
           chal |-> 0, active |-> TRUE] \in Link
      BY <2>1 DEF Link, Source
    <3>2. links \in Seq(Link)
      BY DEF TypeOK
    <3> QED BY <1>4, <3>1, <3>2, AppendFacts DEF OnboardDone
  <2>4. account' \in [Account -> {"absent", "active", "deleted"}]
    BY <1>4 DEF OnboardDone, TypeOK
  <2> QED BY <1>4, <2>2, <2>3, <2>4, EndType DEF OnboardDone, TypeOK
<1> QED BY <1>1, <1>2, <1>3, <1>4 DEF Onboarding

\* What the agent does, and giving up on it.
LEMMA AgentTypes ==
    ASSUME TypeOK, Serve \/ Lose \/ \E w \in Request : Timeout(w) \/ RollBack(w)
    PROVE  TypeOK'
<1> USE AccessAssumption
<1>1. ASSUME Serve PROVE TypeOK'
  <2> DEFINE m == Head(wire)
  <2>1. wire \in Seq(Message) /\ wire # <<>>
    BY <1>1 DEF Serve, TypeOK
  <2>2. m \in Message /\ wire' \in Seq(Message)
    BY <1>1, <2>1, TailFacts DEF Serve
  <2> HIDE DEF m
  <2>3. m.acct \in Account /\ (m.op = "push" => m.key \in Key) /\ m.from \in Request \cup {NoOne}
    BY <2>2 DEF Message
  <2>4. Rewritten(m) \subseteq Key
    BY <2>3 DEF Rewritten, TypeOK
  <2>5. host' = [host EXCEPT ![m.acct] = Rewritten(m)]
    BY <1>1 DEF Serve, m
  <2>6. host' \in [Account -> SUBSET Key]
    BY <2>3, <2>4, <2>5 DEF TypeOK
  <2>7. \/ pc' = pc
        \/ \E x \in {"ok", "failed"} : pc' = [pc EXCEPT ![m.from] = x]
    BY <1>1 DEF Serve, m
  <2>8. pc' \in [Request -> {"new", "begun", "work", "wait", "ok", "failed", "done"}]
    BY <2>7 DEF TypeOK
  <2>9. signed' \subseteq signed \cup {job[m.from].chal} /\ (m.from = NoOne => signed' = signed)
    BY <1>1 DEF Serve, m
  <2>10. signed' \subseteq Nat
    BY <2>3, <2>9 DEF TypeOK, Job
  <2>11. stray' \subseteq stray
    BY <1>1 DEF Serve, m
  <2> QED BY <1>1, <2>2, <2>6, <2>8, <2>10, <2>11 DEF Serve, TypeOK, tables
<1>2. ASSUME Lose PROVE TypeOK'
  <2>1. wire' \in Seq(Message)
    BY <1>2, TailFacts DEF Lose, TypeOK
  <2> QED BY <1>2, <2>1 DEF Lose, TypeOK, tables
<1>3. ASSUME NEW w \in Request PROVE Astray(w) \subseteq Account \X Key
  BY DEF Astray, TypeOK, Job
<1>4. ASSUME NEW w \in Request, Timeout(w) PROVE TypeOK'
  BY <1>3, <1>4, AbandonedFacts DEF Timeout, TypeOK, tables
<1>5. ASSUME NEW w \in Request, RollBack(w) PROVE TypeOK'
  BY <1>3, <1>5, AbandonedFacts, EndType DEF RollBack, TypeOK, tables
<1> QED BY <1>1, <1>2, <1>4, <1>5

\* The steps that concern one row or one challenge.
LEMMA RowTypes ==
    ASSUME TypeOK,
           \/ \E r \in DOMAIN reqs, s \in {"denied", "withdrawn"} : Resolve(r, s)
           \/ \E u \in User, a \in Account, k \in Key : Mint(u, a, k)
           \/ \E c \in live : Expire(c)
           \/ \E u \in User : Reactivate(u)
           \/ \E a \in Account : CreateAccount(a) \/ DeleteAccount(a)
           \/ \E k \in Key : AddKey(k) \/ RemoveKey(k)
    PROVE  TypeOK'
<1>1. ASSUME NEW r \in DOMAIN reqs, NEW s \in {"denied", "withdrawn"}, Resolve(r, s) PROVE TypeOK'
  <2>1. reqs' \in Seq(ReqRow)
    BY <1>1, StatusFacts DEF Resolve, TypeOK
  <2> QED BY <1>1, <2>1 DEF Resolve, TypeOK
<1>2. ASSUME NEW u \in User, NEW a \in Account, NEW k \in Key, Mint(u, a, k) PROVE TypeOK'
  <2>1. [user |-> u, acct |-> a] \in Challenge /\ chals \in Seq(Challenge)
    BY DEF Challenge, TypeOK
  <2>2. chals' \in Seq(Challenge) /\ DOMAIN chals' = DOMAIN chals \cup {Len(chals) + 1}
    BY <1>2, <2>1, AppendFacts DEF Mint
  <2> QED BY <1>2, <2>2 DEF Mint, TypeOK, tables
<1>3. ASSUME NEW c \in live, Expire(c) PROVE TypeOK'
  BY <1>3 DEF Expire, TypeOK, tables
<1>4. ASSUME NEW u \in User, Reactivate(u) PROVE TypeOK'
  BY <1>4 DEF Reactivate, TypeOK
<1>5. ASSUME NEW a \in Account, CreateAccount(a) \/ DeleteAccount(a) PROVE TypeOK'
  <2>1. CASE CreateAccount(a)
    BY <2>1 DEF CreateAccount, TypeOK
  <2>2. CASE DeleteAccount(a)
    BY <2>2 DEF DeleteAccount, TypeOK
  <2> QED BY <1>5, <2>1, <2>2
<1>6. ASSUME NEW k \in Key, AddKey(k) \/ RemoveKey(k) PROVE TypeOK'
  <2>1. CASE AddKey(k)
    BY <2>1 DEF AddKey, TypeOK
  <2>2. CASE RemoveKey(k)
    BY <2>2 DEF RemoveKey, TypeOK
  <2> QED BY <1>6, <2>1, <2>2
<1> QED BY <1>1, <1>2, <1>3, <1>4, <1>5, <1>6

\* Every step keeps the types, given that a decision's row exists.
LEMMA TypeStep ==
    ASSUME TypeOK, LockInv, [Next]_vars
    PROVE  TypeOK'
<1>1. CASE \E w \in Request : LinkRequests(w)
  BY <1>1, LinkRequestTypes
<1>2. CASE \E w \in Request : ClaimsOf(w)
  BY <1>2, ClaimTypes
<1>3. CASE \E w \in Request : Revocations(w)
  BY <1>3, RevocationTypes
<1>4. CASE \E w \in Request : Onboarding(w)
  BY <1>4, OnboardingTypes
<1>5. CASE Serve \/ Lose \/ \E w \in Request : Timeout(w) \/ RollBack(w)
  BY <1>5, AgentTypes
<1>6. CASE UNCHANGED vars
  BY <1>6 DEF vars, TypeOK
<1> QED BY <1>1, <1>2, <1>3, <1>4, <1>5, <1>6, RowTypes DEF Next

-----------------------------------------------------------------------------
(* What one request does to the others *)

\* Only request w moves.
Alone(w) == \A v \in Request \ {w} : pc'[v] = pc[v] /\ job'[v] = job[v]

\* No request moves.
Still == pc' = pc /\ job' = job

\* Request w, which is not waiting, moves without calling the agent.
Local(w) == Alone(w) /\ pc[w] # "wait" /\ wire' = wire

\* Request w asks the agent, for something its new state is about.
Sends(w) ==
    /\ Alone(w) /\ pc[w] # "wait" /\ pc'[w] = "wait"
    /\ \E m \in Message :
        /\ wire' = Append(wire, m)
        /\ m.from = w
        /\ job'[w].kind \in {"verify", "upgrade"} => m.op = "verify"
        /\ job'[w].kind \in Pushes \/ m.op = "push" => Asks(m, job'[w])

\* Every step of a request is one of these.
LEMMA RequestMoves ==
    ASSUME TypeOK, NEW w \in Request,
           LinkRequests(w) \/ ClaimsOf(w) \/ Revocations(w) \/ Onboarding(w)
    PROVE  Local(w) \/ Sends(w)
<1> USE AccessAssumption
<1>1. ASSUME NEW j, Begin(w, j), wire' = wire PROVE Local(w)
  BY <1>1 DEF Begin, Local, Alone, TypeOK
<1>2. ASSUME End(w), wire' = wire, pc[w] # "wait" PROVE Local(w)
  BY <1>2 DEF End, Local, Alone, TypeOK
<1>3. ASSUME NEW op \in {"push", "revoke", "verify", "pam"}, NEW a \in Account, NEW k \in Key \cup {0},
             op = "push" => k \in Key, Call(w, op, a, k), pc[w] # "wait",
             \A v \in Request \ {w} : job'[v] = job[v],
             job'[w].kind \in {"verify", "upgrade"} => op = "verify",
             job'[w].kind \in Pushes \/ op = "push" =>
                op = "push" /\ job'[w].kind \in Pushes /\ job'[w].acct = a /\ job'[w].key = k
      PROVE  Sends(w)
  <2> DEFINE m == [from |-> w, op |-> op, acct |-> a, key |-> k]
  <2>1. /\ pc'[w] = "wait" /\ \A v \in Request \ {w} : pc'[v] = pc[v]
        /\ wire' = Append(wire, m) /\ m \in Message
    BY <1>3, CallType
  <2>2. m.from = w /\ m.op = op /\ m.acct = a /\ m.key = k
    OBVIOUS
  <2> HIDE DEF m
  <2> QED BY <1>3, <2>1, <2>2 DEF Sends, Alone, Asks
<1>4. CASE LinkRequests(w)
  <2>1. CASE \E u \in User, a \in Account : CreateRequest(w, u, a)
    BY <1>1, <2>1 DEF CreateRequest
  <2>2. CASE \E kind \in {"approve", "retry"}, r \in DOMAIN reqs, k \in Key : Decide(w, kind, r, k)
    BY <1>1, <2>2 DEF Decide
  <2>3. CASE InsertRequest(w)
    BY <1>2, <2>3 DEF InsertRequest
  <2>4. CASE LockRequest(w)
    <3>1. /\ job[w].acct \in Account /\ job[w].key \in Key /\ pc[w] # "wait"
          /\ job[w].kind \in {"approve", "retry"}
      BY <2>4 DEF LockRequest, TypeOK, Job, Pushes
    <3>2. CASE Call(w, "push", job[w].acct, job[w].key) /\ UNCHANGED job
      BY <1>3, <3>1, <3>2 DEF Pushes
    <3>3. CASE End(w) /\ UNCHANGED wire
      BY <1>2, <3>1, <3>3
    <3> QED BY <2>4, <3>2, <3>3 DEF LockRequest
  <2>5. CASE ApproveDone(w)
    BY <1>2, <2>5 DEF ApproveDone
  <2>6. CASE RetryDone(w)
    BY <1>2, <2>6 DEF RetryDone
  <2> QED BY <1>4, <2>1, <2>2, <2>3, <2>4, <2>5, <2>6 DEF LinkRequests
<1>5. CASE ClaimsOf(w)
  <2>1. ASSUME NEW u \in User, NEW c \in live, NEW k \in Key, NEW i \in 0..Len(links),
               Verify(w, u, c, k, i)
        PROVE  Sends(w)
    <3>1. chals[c] \in Challenge
      BY DEF TypeOK
    <3>2. chals[c].acct \in Account
      BY <3>1 DEF Challenge
    <3>3. /\ \A v \in Request \ {w} : job'[v] = job[v]
          /\ job'[w].kind = "verify"
          /\ pc[w] # "wait" /\ Call(w, "verify", chals[c].acct, k)
      BY <2>1 DEF Verify, TypeOK, NewJob
    <3> QED BY <1>3, <3>2, <3>3 DEF Pushes
  <2>2. ASSUME NEW l \in DOMAIN links, NEW c \in live, NEW k \in Key, NEW i \in 0..Len(links),
               Upgrade(w, l, c, k, i)
        PROVE  Sends(w)
    <3>1. links[l] \in Link
      BY DEF TypeOK
    <3>2. links[l].acct \in Account
      BY <3>1 DEF Link
    <3>3. /\ \A v \in Request \ {w} : job'[v] = job[v]
          /\ job'[w].kind = "upgrade"
          /\ pc[w] # "wait" /\ Call(w, "verify", links[l].acct, k)
      BY <2>2 DEF Upgrade, TypeOK, NewJob
    <3> QED BY <1>3, <3>2, <3>3 DEF Pushes
  <2>3. ASSUME NEW u \in User, NEW a \in Account, NEW i \in 0..Len(links), TryPassword(w, u, a, i)
        PROVE  Sends(w)
    <3>1. /\ \A v \in Request \ {w} : job'[v] = job[v]
          /\ job'[w].kind = "pam"
          /\ pc[w] # "wait" /\ Call(w, "pam", a, 0)
      BY <2>3 DEF TryPassword, TypeOK, NewJob
    <3> QED BY <1>3, <3>1 DEF Pushes
  <2>4. CASE \E u \in User, a \in Account, i \in 0..Len(links) : Declare(w, u, a, i)
    BY <1>1, <2>4 DEF Declare
  <2>5. CASE Establish(w)
    BY <1>2, <2>5 DEF Establish
  <2>6. CASE UpgradeDone(w)
    BY <1>2, <2>6 DEF UpgradeDone
  <2>7. CASE ClaimRefused(w)
    BY <1>2, <2>7 DEF ClaimRefused
  <2> QED BY <1>5, <2>1, <2>2, <2>3, <2>4, <2>5, <2>6, <2>7 DEF ClaimsOf
<1>6. CASE Revocations(w)
  <2>1. CASE \E l \in DOMAIN links, b \in BOOLEAN : Revoke(w, l, b)
    BY <2>1 DEF Revoke, Local, Alone, TypeOK
  <2>2. CASE \E u \in User, a \in Account : DisableUser(w, u, a)
    BY <2>2 DEF DisableUser, Local, Alone, TypeOK
  <2>3. CASE \E l \in job[w].left : RevokeLink(w, l)
    BY <2>3 DEF RevokeLink, Local, Alone, TypeOK
  <2>4. ASSUME NEW p \in job[w].todo, RevokeKey(w, p) PROVE Sends(w)
    <3>1. p \in Account \X Key /\ pc[w] # "wait" /\ Call(w, "revoke", p[1], p[2])
      BY <2>4 DEF RevokeKey, TypeOK, Job
    <3>2. /\ \A v \in Request \ {w} : job'[v] = job[v]
          /\ job'[w].kind = job[w].kind
      BY <2>4 DEF RevokeKey, TypeOK, Job
    <3>3. job[w].kind \notin {"verify", "upgrade"} \cup Pushes
      BY <2>4 DEF RevokeKey, Revokes, Pushes
    <3> QED BY <1>3, <3>1, <3>2, <3>3
  <2>5. CASE LockUser(w)
    BY <2>5 DEF LockUser, Local, Alone, TypeOK
  <2>6. CASE RevokeNext(w)
    BY <2>6 DEF RevokeNext, Local, Alone, TypeOK
  <2>7. CASE RevokeDone(w)
    BY <1>2, <2>7 DEF RevokeDone
  <2> QED BY <1>6, <2>1, <2>2, <2>3, <2>4, <2>5, <2>6, <2>7 DEF Revocations
<1>7. CASE Onboarding(w)
  <2>1. CASE \E a \in Account, k \in Key : Onboard(w, a, k)
    BY <1>1, <2>1 DEF Onboard
  <2>2. ASSUME NEW a \in Account, NEW k \in Key, Repush(w, a, k) PROVE Sends(w)
    <3>1. /\ \A v \in Request \ {w} : job'[v] = job[v]
          /\ job'[w].kind \in Pushes \ {"verify", "upgrade"}
          /\ job'[w].acct = a /\ job'[w].key = k
          /\ pc[w] # "wait" /\ Call(w, "push", a, k)
      BY <2>2 DEF Repush, TypeOK, NewJob, Pushes
    <3> QED BY <1>3, <3>1
  <2>3. CASE OnboardPush(w)
    <3>1. /\ job[w].acct \in Account /\ job[w].key \in Key /\ pc[w] # "wait"
          /\ job[w].kind = "onboard" /\ job' = job
          /\ Call(w, "push", job[w].acct, job[w].key)
      BY <2>3 DEF OnboardPush, TypeOK, Job, Pushes
    <3> QED BY <1>3, <3>1 DEF Pushes
  <2>4. CASE OnboardDone(w)
    BY <1>2, <2>4 DEF OnboardDone
  <2> QED BY <1>7, <2>1, <2>2, <2>3, <2>4 DEF Onboarding
<1> QED BY <1>4, <1>5, <1>6, <1>7

\* The steps of the tables and of the challenges move no request and no frame.
LEMMA RowMoves ==
    ASSUME \/ \E r \in DOMAIN reqs, s \in {"denied", "withdrawn"} : Resolve(r, s)
           \/ \E u \in User, a \in Account, k \in Key : Mint(u, a, k)
           \/ \E c \in live : Expire(c)
           \/ \E u \in User : Reactivate(u)
           \/ \E a \in Account : CreateAccount(a) \/ DeleteAccount(a)
           \/ \E k \in Key : AddKey(k) \/ RemoveKey(k)
           \/ UNCHANGED vars
    PROVE  Still /\ wire' = wire /\ host' = host /\ entry' = entry /\ stray' = stray /\ signed' = signed
<1> DEFINE Idle == Still /\ wire' = wire /\ host' = host /\ entry' = entry /\ stray' = stray /\ signed' = signed
<1>1. ASSUME NEW r \in DOMAIN reqs, NEW s \in {"denied", "withdrawn"}, Resolve(r, s) PROVE Idle
  BY <1>1 DEF Resolve, Still
<1>2. ASSUME NEW u \in User, NEW a \in Account, NEW k \in Key, Mint(u, a, k) PROVE Idle
  BY <1>2 DEF Mint, tables, Still
<1>3. ASSUME NEW c \in live, Expire(c) PROVE Idle
  BY <1>3 DEF Expire, tables, Still
<1>4. ASSUME NEW u \in User, Reactivate(u) PROVE Idle
  BY <1>4 DEF Reactivate, Still
<1>5. ASSUME NEW a \in Account, CreateAccount(a) \/ DeleteAccount(a) PROVE Idle
  BY <1>5 DEF CreateAccount, DeleteAccount, Still
<1>6. ASSUME NEW k \in Key, AddKey(k) \/ RemoveKey(k) PROVE Idle
  BY <1>6 DEF AddKey, RemoveKey, Still
<1>7. CASE UNCHANGED vars
  BY <1>7 DEF vars, Still
<1> QED BY <1>1, <1>2, <1>3, <1>4, <1>5, <1>6, <1>7

-----------------------------------------------------------------------------
(* Frames *)

\* A request that moves on its own disturbs no frame.
LEMMA LocalKeepsFrames ==
    ASSUME TypeOK, FrameInv, NEW w \in Request, Local(w)
    PROVE  FrameInv'
<1>1. \A i \in DOMAIN wire : wire[i] \in Message
  BY DEF TypeOK
<1>2. \A i \in DOMAIN wire : wire[i].from # NoOne => wire[i].from \in Request \ {w}
  BY <1>1 DEF FrameInv, Local, Message
<1> QED BY <1>2 DEF FrameInv, Local, Alone

\* A new frame is the only one of its sender.
LEMMA SendsKeepsFrames ==
    ASSUME TypeOK, FrameInv, NEW w \in Request, Sends(w)
    PROVE  FrameInv'
<1>1. PICK m \in Message :
        /\ wire' = Append(wire, m) /\ m.from = w
        /\ job'[w].kind \in {"verify", "upgrade"} => m.op = "verify"
        /\ job'[w].kind \in Pushes \/ m.op = "push" => Asks(m, job'[w])
  BY DEF Sends
<1>2. \A i \in DOMAIN wire : wire[i] \in Message
  BY DEF TypeOK
<1>3. \A i \in DOMAIN wire : wire[i].from # w /\ (wire[i].from # NoOne => wire[i].from \in Request \ {w})
  BY <1>2, AccessAssumption DEF FrameInv, Sends, Message
<1>4. /\ DOMAIN wire' = DOMAIN wire \cup {Len(wire) + 1}
      /\ \A i \in DOMAIN wire : wire'[i] = wire[i]
      /\ wire'[Len(wire) + 1] = m
  BY <1>1, AppendFacts DEF TypeOK
<1>5. ASSUME NEW i \in DOMAIN wire', wire'[i].from # NoOne
      PROVE  /\ pc'[wire'[i].from] = "wait"
             /\ job'[wire'[i].from].kind \in {"verify", "upgrade"} => wire'[i].op = "verify"
             /\ job'[wire'[i].from].kind \in Pushes \/ wire'[i].op = "push"
                    => Asks(wire'[i], job'[wire'[i].from])
  <2>1. CASE i \in DOMAIN wire
    BY <1>3, <1>4, <1>5, <2>1 DEF FrameInv, Sends, Alone
  <2>2. CASE i = Len(wire) + 1
    BY <1>1, <1>4, <2>2 DEF Sends
  <2> QED BY <1>4, <1>5, <2>1, <2>2
<1>6. ASSUME NEW i \in DOMAIN wire', NEW j \in DOMAIN wire',
             wire'[i].from = wire'[j].from, wire'[i].from # NoOne
      PROVE  i = j
  BY <1>1, <1>3, <1>4, <1>6 DEF FrameInv
<1> QED BY <1>5, <1>6 DEF FrameInv

\* A frame is served or lost: nobody waits for two.
LEMMA AgentKeepsFrames ==
    ASSUME TypeOK, FrameInv, Serve \/ Lose
    PROVE  FrameInv'
<1> DEFINE m == Head(wire)
<1>1. /\ m = wire[1] /\ 1 \in DOMAIN wire /\ job' = job
      /\ \A i \in DOMAIN wire' : i + 1 \in DOMAIN wire /\ i + 1 # 1 /\ wire'[i] = wire[i + 1]
      /\ DOMAIN wire' \subseteq Nat
  <2>1. wire \in Seq(Message) /\ wire # <<>>
    BY DEF Serve, Lose, TypeOK
  <2>2. wire' = Tail(wire) /\ job' = job
    BY DEF Serve, Lose
  <2>3. DOMAIN wire' \subseteq Nat
    BY <2>1, <2>2
  <2> QED BY <2>1, <2>2, <2>3, TailFacts
<1>2. \A v \in Request : pc'[v] # pc[v] => v = m.from /\ m.from # NoOne
  <2>1. CASE Lose
    BY <2>1 DEF Lose
  <2>2. CASE Serve
    <3>1. \E ok \in BOOLEAN : pc' = IF m.from = NoOne THEN pc
                     ELSE [pc EXCEPT ![m.from] = IF ok THEN "ok" ELSE "failed"]
      BY <2>2 DEF Serve
    <3> HIDE DEF m
    <3> QED BY <3>1 DEF TypeOK
  <2> QED BY <2>1, <2>2
<1>3. \A i \in DOMAIN wire : wire[i] \in Message
  BY DEF TypeOK
<1> HIDE DEF m
<1>4. \A i \in DOMAIN wire' : wire'[i].from # NoOne =>
        wire'[i].from \in Request /\ pc'[wire'[i].from] = pc[wire'[i].from]
  BY <1>1, <1>2, <1>3 DEF FrameInv, Message
<1>5. ASSUME NEW i \in DOMAIN wire', NEW j \in DOMAIN wire',
             wire'[i].from = wire'[j].from, wire'[i].from # NoOne
      PROVE  i = j
  <2>1. i + 1 = j + 1
    BY <1>1, <1>5 DEF FrameInv
  <2> QED BY <1>1, <2>1
<1>6. \A i \in DOMAIN wire' : wire'[i].from # NoOne =>
        /\ pc'[wire'[i].from] = "wait"
        /\ job'[wire'[i].from].kind \in {"verify", "upgrade"} => wire'[i].op = "verify"
        /\ job'[wire'[i].from].kind \in Pushes \/ wire'[i].op = "push"
              => Asks(wire'[i], job'[wire'[i].from])
  BY <1>1, <1>4 DEF FrameInv
<1> QED BY <1>5, <1>6 DEF FrameInv

\* A request that gives up leaves no frame in its name.
LEMMA LeavingKeepsFrames ==
    ASSUME TypeOK, FrameInv, NEW w \in Request, Timeout(w) \/ RollBack(w)
    PROVE  FrameInv'
<1>1. wire' = Abandoned(w) /\ Alone(w)
  <2>1. CASE Timeout(w)
    BY <2>1 DEF Timeout, Alone, TypeOK
  <2>2. CASE RollBack(w)
    BY <2>2, EndType DEF RollBack, Alone
  <2> QED BY <2>1, <2>2
<1>2. \A i \in DOMAIN wire : wire[i] \in Message
  BY DEF TypeOK
<1>3. /\ DOMAIN wire' = DOMAIN wire
      /\ \A i \in DOMAIN wire :
            /\ wire'[i].from # NoOne => wire'[i].from \in Request \ {w} /\ wire'[i].from = wire[i].from
            /\ wire'[i].op = wire[i].op /\ wire'[i].acct = wire[i].acct /\ wire'[i].key = wire[i].key
  <2>1. \A i \in DOMAIN wire : wire[i].from # NoOne => wire[i].from \in Request
    BY <1>2 DEF Message
  <2> QED BY <1>1, <2>1, AbandonedFacts
<1>4. \A i \in DOMAIN wire' : wire'[i].from # NoOne =>
        /\ pc'[wire'[i].from] = "wait"
        /\ job'[wire'[i].from].kind \in {"verify", "upgrade"} => wire'[i].op = "verify"
        /\ job'[wire'[i].from].kind \in Pushes \/ wire'[i].op = "push"
              => Asks(wire'[i], job'[wire'[i].from])
  BY <1>1, <1>3 DEF FrameInv, Alone, Asks
<1>5. \A i, j \in DOMAIN wire' : wire'[i].from = wire'[j].from /\ wire'[i].from # NoOne => i = j
  BY <1>3 DEF FrameInv
<1> QED BY <1>4, <1>5 DEF FrameInv

\* Every step keeps the frames in order.
LEMMA FrameStep ==
    ASSUME TypeOK, FrameInv, [Next]_vars
    PROVE  FrameInv'
<1>1. CASE \E w \in Request : LinkRequests(w) \/ ClaimsOf(w) \/ Revocations(w) \/ Onboarding(w)
  BY <1>1, RequestMoves, LocalKeepsFrames, SendsKeepsFrames
<1>2. CASE Serve \/ Lose
  BY <1>2, AgentKeepsFrames
<1>3. CASE \E w \in Request : Timeout(w) \/ RollBack(w)
  BY <1>3, LeavingKeepsFrames
<1>4. CASE Still /\ wire' = wire
  BY <1>4 DEF Still, FrameInv
<1> QED BY <1>1, <1>2, <1>3, <1>4, RowMoves DEF Next

-----------------------------------------------------------------------------
(* Keys in the files *)

\* An inventory row never disappears.
RowsStay == \A a \in Account, k \in Key : entry[a][k] # "none" => entry'[a][k] # "none"

\* A request whose push was acknowledged leaves a row behind when it moves on.
Records(w) == pc[w] = "ok" /\ job[w].kind \in Pushes => entry'[job[w].acct][job[w].key] # "none"

\* A row that is set is there, and no other one has gone.
LEMMA RowSet ==
    ASSUME NEW e \in [Account -> [Key -> Entry]], NEW a \in Account, NEW k \in Key,
           NEW x \in Entry \ {"none"}
    PROVE  /\ [e EXCEPT ![a][k] = x][a][k] # "none"
           /\ \A b \in Account, j \in Key : e[b][j] # "none" => [e EXCEPT ![a][k] = x][b][j] # "none"
OBVIOUS

\* What the requests do to the inventory, and what they leave to the agent.
LEMMA RequestLedger ==
    ASSUME TypeOK, NEW w \in Request,
           LinkRequests(w) \/ ClaimsOf(w) \/ Revocations(w) \/ Onboarding(w)
    PROVE  host' = host /\ stray' = stray /\ RowsStay /\ Records(w)
<1> USE AccessAssumption
<1> DEFINE Quiet == host' = host /\ stray' = stray /\ entry' = entry
           NotPushed == pc[w] # "ok" \/ job[w].kind \notin Pushes
           Ledger == host' = host /\ stray' = stray /\ RowsStay /\ Records(w)
<1>0. ASSUME Quiet, NotPushed PROVE Ledger
  BY <1>0 DEF RowsStay, Records
<1>1. CASE LinkRequests(w)
  <2>1. CASE \E u \in User, a \in Account : CreateRequest(w, u, a)
    BY <1>0, <2>1 DEF CreateRequest, Begin, tables
  <2>2. CASE \E kind \in {"approve", "retry"}, r \in DOMAIN reqs, k \in Key : Decide(w, kind, r, k)
    BY <1>0, <2>2 DEF Decide, Begin, tables
  <2>3. CASE InsertRequest(w)
    BY <1>0, <2>3 DEF InsertRequest
  <2>4. CASE LockRequest(w)
    BY <1>0, <2>4 DEF LockRequest, tables
  <2>5. CASE ApproveDone(w)
    <3>1. job[w].acct \in Account /\ job[w].key \in Key /\ "active" \in Entry
      BY <2>5 DEF ApproveDone, TypeOK, Job, Pushes, Entry
    <3>2. /\ \/ entry' = entry /\ (pc[w] = "ok" => entry[job[w].acct][job[w].key] # "none")
             \/ entry' = [entry EXCEPT ![job[w].acct][job[w].key] = "active"]
          /\ host' = host /\ stray' = stray
      BY <2>5 DEF ApproveDone
    <3>3. entry \in [Account -> [Key -> Entry]]
      BY DEF TypeOK
    <3>4. CASE entry' = entry /\ (pc[w] = "ok" => entry[job[w].acct][job[w].key] # "none")
      BY <3>2, <3>4 DEF RowsStay, Records
    <3>5. CASE entry' = [entry EXCEPT ![job[w].acct][job[w].key] = "active"]
      BY <3>1, <3>2, <3>3, <3>5, RowSet DEF RowsStay, Records
    <3> QED BY <3>2, <3>4, <3>5
  <2>6. CASE RetryDone(w)
    <3>1. job[w].acct \in Account /\ job[w].key \in Key /\ "active" \in Entry
      BY <2>6 DEF RetryDone, TypeOK, Job, Pushes, Entry
    <3>2. /\ \/ entry' = entry /\ (pc[w] = "ok" => entry[job[w].acct][job[w].key] # "none")
             \/ entry' = [entry EXCEPT ![job[w].acct][job[w].key] = "active"]
          /\ host' = host /\ stray' = stray
      BY <2>6 DEF RetryDone
    <3>3. entry \in [Account -> [Key -> Entry]]
      BY DEF TypeOK
    <3>4. CASE entry' = entry /\ (pc[w] = "ok" => entry[job[w].acct][job[w].key] # "none")
      BY <3>2, <3>4 DEF RowsStay, Records
    <3>5. CASE entry' = [entry EXCEPT ![job[w].acct][job[w].key] = "active"]
      BY <3>1, <3>2, <3>3, <3>5, RowSet DEF RowsStay, Records
    <3> QED BY <3>2, <3>4, <3>5
  <2> QED BY <1>1, <2>1, <2>2, <2>3, <2>4, <2>5, <2>6 DEF LinkRequests
<1>2. CASE ClaimsOf(w)
  <2>1. CASE \E u \in User, c \in live, k \in Key, i \in 0..Len(links) : Verify(w, u, c, k, i)
    BY <1>0, <2>1 DEF Verify, tables
  <2>2. CASE \E l \in DOMAIN links, c \in live, k \in Key, i \in 0..Len(links) : Upgrade(w, l, c, k, i)
    BY <1>0, <2>2 DEF Upgrade, tables
  <2>3. CASE \E u \in User, a \in Account, i \in 0..Len(links) : TryPassword(w, u, a, i)
    BY <1>0, <2>3 DEF TryPassword, tables
  <2>4. CASE \E u \in User, a \in Account, i \in 0..Len(links) : Declare(w, u, a, i)
    BY <1>0, <2>4 DEF Declare, Begin, tables
  <2>5. CASE Establish(w)
    BY <1>0, <2>5 DEF Establish, Pushes
  <2>6. CASE UpgradeDone(w)
    BY <1>0, <2>6 DEF UpgradeDone, Pushes
  <2>7. CASE ClaimRefused(w)
    BY <1>0, <2>7 DEF ClaimRefused, tables
  <2> QED BY <1>2, <2>1, <2>2, <2>3, <2>4, <2>5, <2>6, <2>7 DEF ClaimsOf
<1>3. CASE Revocations(w)
  <2>1. CASE \E l \in DOMAIN links, b \in BOOLEAN : Revoke(w, l, b)
    BY <1>0, <2>1 DEF Revoke, tables
  <2>2. CASE \E u \in User, a \in Account : DisableUser(w, u, a)
    BY <1>0, <2>2 DEF DisableUser, tables
  <2>3. CASE \E l \in job[w].left : RevokeLink(w, l)
    BY <1>0, <2>3 DEF RevokeLink, tables
  <2>4. CASE \E p \in job[w].todo : RevokeKey(w, p)
    BY <1>0, <2>4 DEF RevokeKey, tables
  <2>5. CASE LockUser(w)
    BY <1>0, <2>5 DEF LockUser, tables
  <2>6. CASE RevokeNext(w)
    BY <1>0, <2>6 DEF RevokeNext, tables, Revokes, Pushes
  <2>7. CASE RevokeDone(w)
    BY <2>7 DEF RevokeDone, RowsStay, Records, TypeOK
  <2> QED BY <1>3, <2>1, <2>2, <2>3, <2>4, <2>5, <2>6, <2>7 DEF Revocations
<1>4. CASE Onboarding(w)
  <2>1. CASE \E a \in Account, k \in Key : Onboard(w, a, k)
    BY <1>0, <2>1 DEF Onboard, Begin, tables
  <2>2. CASE \E a \in Account, k \in Key : Repush(w, a, k)
    BY <1>0, <2>2 DEF Repush, tables
  <2>3. CASE OnboardPush(w)
    BY <1>0, <2>3 DEF OnboardPush, tables
  <2>4. CASE OnboardDone(w)
    <3>1. job[w].acct \in Account /\ job[w].key \in Key
      BY <2>4 DEF OnboardDone, TypeOK, Job, Pushes
    <3> DEFINE x == IF pc[w] = "ok" THEN "active" ELSE "inactive"
    <3>2. /\ entry' = [entry EXCEPT ![job[w].acct][job[w].key] = x]
          /\ host' = host /\ stray' = stray
      BY <2>4 DEF OnboardDone
    <3>3. entry \in [Account -> [Key -> Entry]] /\ x \in Entry \ {"none"}
      BY DEF TypeOK, Entry
    <3> HIDE DEF x
    <3> QED BY <3>1, <3>2, <3>3, RowSet DEF RowsStay, Records
  <2> QED BY <1>4, <2>1, <2>2, <2>3, <2>4 DEF Onboarding
<1> QED BY <1>1, <1>2, <1>3, <1>4

\* A key that is accounted for stays so while requests move.
LEMMA RequestKeepsTrack ==
    ASSUME TypeOK, NEW w \in Request, Alone(w), pc[w] # "wait",
           stray' = stray, RowsStay, Records(w),
           NEW a \in Account, NEW k \in Key, Tracked(a, k)
    PROVE  Tracked(a, k)'
<1>1. CASE entry[a][k] # "none"
  BY <1>1 DEF RowsStay, Tracked
<1>2. CASE <<a, k>> \in stray
  BY <1>2 DEF Tracked
<1>3. CASE \E v \in Request : Pushing(v, a, k)
  <2>1. PICK v \in Request : Pushing(v, a, k)
    BY <1>3
  <2>2. CASE v = w
    BY <2>1, <2>2 DEF Pushing, Records, Tracked
  <2>3. CASE v # w
    BY <2>1, <2>3 DEF Pushing, Alone, Tracked
  <2> QED BY <2>2, <2>3
<1> QED BY <1>1, <1>2, <1>3 DEF Tracked

\* Requests keep account of the keys, the ones they send to the agent included.
LEMMA RequestKeepsPushes ==
    ASSUME TypeOK, PushInv, NEW w \in Request,
           LinkRequests(w) \/ ClaimsOf(w) \/ Revocations(w) \/ Onboarding(w)
    PROVE  PushInv'
<1>1. /\ host' = host /\ stray' = stray /\ RowsStay /\ Records(w)
  BY RequestLedger
<1>2. Local(w) \/ Sends(w)
  BY RequestMoves
<1>3. \A a \in Account, k \in Key : Tracked(a, k) => Tracked(a, k)'
  BY <1>1, <1>2, RequestKeepsTrack DEF Local, Sends
<1>4. \A i \in DOMAIN wire : wire[i].op = "push" => wire[i].acct \in Account /\ wire[i].key \in Key
  <2>1. \A i \in DOMAIN wire : wire[i] \in Message
    BY DEF TypeOK
  <2> QED BY <2>1 DEF Message
<1>5. \A a \in Account, k \in Key : k \in host'[a] => Tracked(a, k)'
  BY <1>1, <1>3 DEF PushInv
<1>6. ASSUME NEW i \in DOMAIN wire', wire'[i].op = "push"
      PROVE  Tracked(wire[i].acct, wire[i].key)'
  <2>1. CASE i \in DOMAIN wire /\ wire'[i] = wire[i]
    <3>1. Tracked(wire[i].acct, wire[i].key)
      BY <1>6, <2>1 DEF PushInv
    <3>2. wire[i].acct \in Account /\ wire[i].key \in Key
      BY <1>4, <1>6, <2>1
    <3>3. PICK a \in Account, k \in Key : a = wire[i].acct /\ k = wire[i].key
      BY <3>2
    <3>4. Tracked(a, k)'
      BY <1>3, <3>1, <3>3
    <3>5. wire'[i].acct = a /\ wire'[i].key = k
      BY <2>1, <3>3
    <3> QED BY <3>4, <3>5 DEF Tracked, Pushing
  <2>2. CASE Sends(w) /\ ~(i \in DOMAIN wire /\ wire'[i] = wire[i])
    <3>1. PICK m \in Message :
            /\ wire' = Append(wire, m)
            /\ job'[w].kind \in Pushes \/ m.op = "push" => Asks(m, job'[w])
      BY <2>2 DEF Sends
    <3>2. wire'[i] = m
      BY <1>6, <2>2, <3>1, AppendFacts DEF TypeOK
    <3>3. Pushing(w, wire[i].acct, wire[i].key)'
      BY <1>6, <2>2, <3>1, <3>2 DEF Asks, Pushing, Sends
    <3> QED BY <3>3 DEF Tracked
  <2>3. CASE Local(w)
    BY <1>6, <2>1, <2>3 DEF Local
  <2> QED BY <1>2, <2>1, <2>2, <2>3
<1> QED BY <1>5, <1>6 DEF PushInv

\* What the agent does to the files is accounted for.
LEMMA AgentKeepsPushes ==
    ASSUME TypeOK, FrameInv, PushInv, Serve
    PROVE  PushInv'
<1> DEFINE m == Head(wire)
<1>1. wire \in Seq(Message) /\ wire # <<>> /\ wire' = Tail(wire)
  BY DEF Serve, TypeOK
<1>2. /\ m = wire[1] /\ 1 \in DOMAIN wire /\ m \in Message
      /\ \A i \in DOMAIN wire' : i + 1 \in DOMAIN wire /\ wire'[i] = wire[i + 1]
  BY <1>1, TailFacts
<1>3. PICK ok \in BOOLEAN :
        /\ m.op \in {"push", "revoke"} => ok
        /\ host' = [host EXCEPT ![m.acct] = Rewritten(m)]
        /\ pc' = IF m.from = NoOne THEN pc
                 ELSE [pc EXCEPT ![m.from] = IF ok THEN "ok" ELSE "failed"]
        /\ stray' = IF m.from # NoOne /\ m.op = "push" THEN stray \ {<<m.acct, m.key>>} ELSE stray
  BY DEF Serve
<1>4. job' = job /\ entry' = entry
  BY DEF Serve, tables
<1> HIDE DEF m
<1>5. /\ m.acct \in Account /\ m.from \in Request \cup {NoOne}
      /\ m.op = "push" => m.key \in Key
  BY <1>2 DEF Message
<1>6. m.from # NoOne => /\ pc[m.from] = "wait"
                        /\ job[m.from].kind \in Pushes \/ m.op = "push" => Asks(m, job[m.from])
  BY <1>2 DEF FrameInv
<1>7. m.op = "push" => Tracked(m.acct, m.key)
  BY <1>2 DEF PushInv
<1>8. ASSUME NEW v \in Request, NEW a, NEW k, Pushing(v, a, k) PROVE Pushing(v, a, k)'
  <2>1. pc'[v] \in {"wait", "ok"}
    <3>1. CASE v # m.from \/ m.from = NoOne
      BY <1>3, <1>8, <3>1 DEF Pushing, TypeOK
    <3>2. CASE v = m.from /\ m.from # NoOne
      BY <1>3, <1>6, <1>8, <3>2 DEF Pushing, Asks, TypeOK
    <3> QED BY <3>1, <3>2
  <2> QED BY <1>4, <1>8, <2>1 DEF Pushing
<1>9. ASSUME NEW a \in Account, NEW k \in Key, Tracked(a, k) PROVE Tracked(a, k)'
  <2>1. CASE entry[a][k] # "none"
    BY <1>4, <2>1 DEF Tracked
  <2>2. CASE \E v \in Request : Pushing(v, a, k)
    BY <1>8, <2>2 DEF Tracked
  <2>3. CASE <<a, k>> \in stray /\ <<a, k>> \in stray'
    BY <2>3 DEF Tracked
  <2>4. CASE <<a, k>> \in stray /\ <<a, k>> \notin stray'
    <3>1. m.from # NoOne /\ m.op = "push" /\ a = m.acct /\ k = m.key
      BY <1>3, <2>4
    <3>2. m.from \in Request /\ Pushing(m.from, a, k)
      BY <1>5, <1>6, <3>1 DEF Pushing, Asks
    <3> QED BY <1>8, <3>2 DEF Tracked
  <2> QED BY <1>9, <2>1, <2>2, <2>3, <2>4 DEF Tracked
<1>10. ASSUME NEW a \in Account, NEW k \in Key, k \in host'[a] PROVE Tracked(a, k)'
  <2>1. k \in host[a] \/ (m.op = "push" /\ a = m.acct /\ k = m.key)
    BY <1>3, <1>5, <1>10 DEF Rewritten, TypeOK
  <2>2. Tracked(a, k)
    BY <1>7, <2>1 DEF PushInv
  <2> QED BY <1>9, <2>2
<1>11. ASSUME NEW i \in DOMAIN wire', wire'[i].op = "push" PROVE Tracked(wire[i].acct, wire[i].key)'
  <2>1. i + 1 \in DOMAIN wire /\ wire'[i] = wire[i + 1] /\ wire[i + 1] \in Message
    BY <1>1, <1>2
  <2>2. wire[i + 1].acct \in Account /\ wire[i + 1].key \in Key
    BY <1>11, <2>1 DEF Message
  <2>3. PICK a \in Account, k \in Key : a = wire[i + 1].acct /\ k = wire[i + 1].key
    BY <2>2
  <2>4. Tracked(a, k)
    BY <1>11, <2>1, <2>3 DEF PushInv
  <2>5. Tracked(a, k)' /\ wire'[i].acct = a /\ wire'[i].key = k
    BY <1>9, <2>1, <2>3, <2>4
  <2> QED BY <2>5 DEF Tracked, Pushing
<1> QED BY <1>10, <1>11 DEF PushInv

\* A push that is cut short goes astray, and is accounted for by that.
LEMMA LeavingKeepsPushes ==
    ASSUME TypeOK, PushInv, NEW w \in Request, Timeout(w) \/ RollBack(w)
    PROVE  PushInv'
<1>1. /\ wire' = Abandoned(w) /\ Alone(w) /\ host' = host /\ entry' = entry
      /\ stray \subseteq stray'
  <2>1. CASE Timeout(w)
    BY <2>1 DEF Timeout, Alone, TypeOK, Astray, tables
  <2>2. CASE RollBack(w)
    BY <2>2, EndType DEF RollBack, Alone, Astray, tables
  <2> QED BY <2>1, <2>2
<1>2. \A a, k : Pushing(w, a, k) => <<a, k>> \in stray'
  BY DEF Timeout, RollBack, Pushing, Astray
<1>3. ASSUME NEW a, NEW k, Tracked(a, k) PROVE Tracked(a, k)'
  <2>1. CASE entry[a][k] # "none" \/ <<a, k>> \in stray \/ Pushing(w, a, k)
    BY <1>1, <1>2, <2>1 DEF Tracked
  <2>2. CASE \E v \in Request \ {w} : Pushing(v, a, k)
    BY <1>1, <2>2 DEF Tracked, Pushing, Alone
  <2> QED BY <1>3, <2>1, <2>2 DEF Tracked
<1>4. /\ DOMAIN wire' = DOMAIN wire
      /\ \A i \in DOMAIN wire :
            wire'[i].op = wire[i].op /\ wire'[i].acct = wire[i].acct /\ wire'[i].key = wire[i].key
  BY <1>1, AbandonedFacts
<1>5. ASSUME NEW i \in DOMAIN wire', wire'[i].op = "push" PROVE Tracked(wire[i].acct, wire[i].key)'
  <2>1. PICK a, k : a = wire[i].acct /\ k = wire[i].key
    OBVIOUS
  <2>2. Tracked(a, k)
    BY <1>4, <1>5, <2>1 DEF PushInv
  <2>3. Tracked(a, k)' /\ wire'[i].acct = a /\ wire'[i].key = k
    BY <1>3, <1>4, <1>5, <2>1, <2>2
  <2> QED BY <2>3 DEF Tracked, Pushing
<1>6. \A a \in Account, k \in Key : k \in host'[a] => Tracked(a, k)'
  BY <1>1, <1>3 DEF PushInv
<1> QED BY <1>5, <1>6 DEF PushInv

\* Every step keeps the keys accounted for.
LEMMA PushStep ==
    ASSUME TypeOK, FrameInv, PushInv, [Next]_vars
    PROVE  PushInv'
<1>1. CASE \E w \in Request : LinkRequests(w) \/ ClaimsOf(w) \/ Revocations(w) \/ Onboarding(w)
  BY <1>1, RequestKeepsPushes
<1>2. CASE Serve
  BY <1>2, AgentKeepsPushes
<1>3. CASE \E w \in Request : Timeout(w) \/ RollBack(w)
  BY <1>3, LeavingKeepsPushes
<1>4. CASE Lose
  <2>1. wire \in Seq(Message) /\ wire # <<>> /\ wire' = Tail(wire)
    BY <1>4 DEF Lose, TypeOK
  <2>2. \A i \in DOMAIN wire' : i + 1 \in DOMAIN wire /\ wire'[i] = wire[i + 1]
    BY <2>1, TailFacts
  <2>3. host' = host /\ entry' = entry /\ stray' = stray /\ pc' = pc /\ job' = job
    BY <1>4 DEF Lose, tables
  <2> QED BY <2>2, <2>3 DEF PushInv, Tracked, Pushing
<1>5. CASE Still /\ wire' = wire /\ host' = host /\ entry' = entry /\ stray' = stray
  BY <1>5 DEF Still, PushInv, Tracked, Pushing
<1> QED BY <1>1, <1>2, <1>3, <1>4, <1>5, RowMoves DEF Next

-----------------------------------------------------------------------------
(* Locks on link requests *)

\* No link request changes.
ReqsStay == DOMAIN reqs \subseteq DOMAIN reqs' /\ \A r \in DOMAIN reqs : reqs'[r] = reqs[r]

\* Request w holds no lock after the step.
Unlocked(w) ==
    job'[w].kind \in {"approve", "retry"} =>
        job'[w].row \in DOMAIN reqs /\ pc'[w] \notin {"wait", "ok", "failed"}

\* Every step of a request leaves the link requests alone and holds no lock
\* afterwards, but for the two that take the lock and use it.
LEMMA RequestLocks ==
    ASSUME TypeOK, NEW w \in Request,
           LinkRequests(w) \/ ClaimsOf(w) \/ Revocations(w) \/ Onboarding(w)
    PROVE  (ReqsStay /\ Unlocked(w)) \/ LockRequest(w) \/ ApproveDone(w)
<1> DEFINE Quiet == ReqsStay /\ Unlocked(w)
<1>1. ASSUME End(w), reqs' = reqs PROVE Quiet
  BY <1>1, EndType DEF ReqsStay, Unlocked
<1>2. ASSUME reqs' = reqs, job'[w].kind \notin {"approve", "retry"} PROVE Quiet
  BY <1>2 DEF ReqsStay, Unlocked
<1>3. CASE LinkRequests(w)
  <2>1. ASSUME NEW u \in User, NEW a \in Account, CreateRequest(w, u, a) PROVE Quiet
    BY <1>2, <2>1 DEF CreateRequest, Begin, tables, NewJob, TypeOK
  <2>2. ASSUME NEW kind \in {"approve", "retry"}, NEW r \in DOMAIN reqs, NEW k \in Key,
               Decide(w, kind, r, k)
        PROVE Quiet
    <3>1. reqs' = reqs /\ pc'[w] = "begun" /\ job'[w].row = r
      BY <2>2 DEF Decide, Begin, tables, NewJob, TypeOK
    <3> QED BY <3>1 DEF ReqsStay, Unlocked
  <2>3. ASSUME InsertRequest(w) PROVE Quiet
    <3> DEFINE n == [user |-> job[w].user, acct |-> job[w].acct, status |-> "pending"]
    <3>1. n \in ReqRow /\ reqs \in Seq(ReqRow)
      BY DEF TypeOK, Job, ReqRow
    <3>2. reqs' = Append(reqs, n)
      BY <2>3 DEF InsertRequest
    <3> HIDE DEF n
    <3>3. ReqsStay
      BY <3>1, <3>2, AppendFacts DEF ReqsStay
    <3>4. Unlocked(w)
      BY <2>3, EndType DEF InsertRequest, Unlocked
    <3> QED BY <3>3, <3>4
  <2>4. ASSUME RetryDone(w) PROVE Quiet
    BY <1>1, <2>4 DEF RetryDone
  <2> QED BY <1>3, <2>1, <2>2, <2>3, <2>4 DEF LinkRequests
<1>4. CASE ClaimsOf(w)
  <2>1. ASSUME NEW u \in User, NEW c \in live, NEW k \in Key, NEW i \in 0..Len(links),
               Verify(w, u, c, k, i)
        PROVE Quiet
    BY <1>2, <2>1 DEF Verify, tables, NewJob, TypeOK
  <2>2. ASSUME NEW l \in DOMAIN links, NEW c \in live, NEW k \in Key, NEW i \in 0..Len(links),
               Upgrade(w, l, c, k, i)
        PROVE Quiet
    BY <1>2, <2>2 DEF Upgrade, tables, NewJob, TypeOK
  <2>3. ASSUME NEW u \in User, NEW a \in Account, NEW i \in 0..Len(links), TryPassword(w, u, a, i)
        PROVE Quiet
    BY <1>2, <2>3 DEF TryPassword, tables, NewJob, TypeOK
  <2>4. ASSUME NEW u \in User, NEW a \in Account, NEW i \in 0..Len(links), Declare(w, u, a, i)
        PROVE Quiet
    BY <1>2, <2>4 DEF Declare, Begin, tables, NewJob, TypeOK
  <2>5. ASSUME Establish(w) PROVE Quiet
    BY <1>1, <2>5 DEF Establish
  <2>6. ASSUME UpgradeDone(w) PROVE Quiet
    BY <1>1, <2>6 DEF UpgradeDone
  <2>7. ASSUME ClaimRefused(w) PROVE Quiet
    BY <1>1, <2>7 DEF ClaimRefused, tables
  <2> QED BY <1>4, <2>1, <2>2, <2>3, <2>4, <2>5, <2>6, <2>7 DEF ClaimsOf
<1>5. CASE Revocations(w)
  <2>1. ASSUME NEW l \in DOMAIN links, NEW b \in BOOLEAN, Revoke(w, l, b) PROVE Quiet
    BY <1>2, <2>1 DEF Revoke, Revocation, tables, NewJob, TypeOK
  <2>2. ASSUME NEW u \in User, NEW a \in Account, DisableUser(w, u, a) PROVE Quiet
    BY <1>2, <2>2 DEF DisableUser, Cascade, Revocation, tables, NewJob, TypeOK
  <2>3. ASSUME NEW l \in job[w].left, RevokeLink(w, l) PROVE Quiet
    <3>1. job'[w].kind = job[w].kind /\ reqs' = reqs
      BY <2>3 DEF RevokeLink, tables, TypeOK, Job
    <3> QED BY <1>2, <2>3, <3>1 DEF RevokeLink, Revokes
  <2>4. ASSUME NEW p \in job[w].todo, RevokeKey(w, p) PROVE Quiet
    <3>1. job'[w].kind = job[w].kind /\ reqs' = reqs
      BY <2>4 DEF RevokeKey, tables, TypeOK, Job
    <3> QED BY <1>2, <2>4, <3>1 DEF RevokeKey, Revokes
  <2>5. ASSUME LockUser(w) PROVE Quiet
    BY <1>2, <2>5 DEF LockUser, tables
  <2>6. ASSUME RevokeNext(w) PROVE Quiet
    BY <1>2, <2>6 DEF RevokeNext, tables, Revokes
  <2>7. ASSUME RevokeDone(w) PROVE Quiet
    BY <1>1, <2>7 DEF RevokeDone
  <2> QED BY <1>5, <2>1, <2>2, <2>3, <2>4, <2>5, <2>6, <2>7 DEF Revocations
<1>6. CASE Onboarding(w)
  <2>1. ASSUME NEW a \in Account, NEW k \in Key, Onboard(w, a, k) PROVE Quiet
    BY <1>2, <2>1 DEF Onboard, Begin, tables, NewJob, TypeOK
  <2>2. ASSUME NEW a \in Account, NEW k \in Key, Repush(w, a, k) PROVE Quiet
    BY <1>2, <2>2 DEF Repush, tables, NewJob, TypeOK
  <2>3. ASSUME OnboardPush(w) PROVE Quiet
    BY <1>2, <2>3 DEF OnboardPush, tables
  <2>4. ASSUME OnboardDone(w) PROVE Quiet
    BY <1>1, <2>4 DEF OnboardDone
  <2> QED BY <1>6, <2>1, <2>2, <2>3, <2>4 DEF Onboarding
<1> QED BY <1>3, <1>4, <1>5, <1>6

\* The lock is taken by one request at a time, and an approval keeps it until
\* its decision is written.
LEMMA LockStep ==
    ASSUME TypeOK, FrameInv, LockInv, [Next]_vars
    PROVE  LockInv'
<1>1. ASSUME NEW w \in Request, Alone(w), ReqsStay, Unlocked(w) PROVE LockInv'
  BY <1>1 DEF LockInv, Alone, ReqsStay, Unlocked, Holds
<1>2. ASSUME job' = job, reqs' = reqs,
             \A v \in Request : pc'[v] = pc[v] \/ (pc[v] = "wait" /\ pc'[v] \in {"ok", "failed"})
      PROVE  LockInv'
  BY <1>2 DEF LockInv, Holds
<1>3. ASSUME NEW w \in Request, LockRequest(w) PROVE LockInv'
  <2>1. CASE Call(w, "push", job[w].acct, job[w].key) /\ UNCHANGED job
    <3>1. /\ job' = job /\ reqs' = reqs
          /\ pc' = [pc EXCEPT ![w] = "wait"]
          /\ \A v \in Request : ~Holds(v, job[w].row)
          /\ job[w].kind = "approve" => reqs[job[w].row].status = "pending"
      <4>1. job' = job /\ reqs' = reqs /\ pc' = [pc EXCEPT ![w] = "wait"]
        BY <1>3, <2>1 DEF LockRequest, Call, tables
      <4>2. \A v \in Request : ~Holds(v, job[w].row)
        BY <1>3 DEF LockRequest, RequestFree
      <4>3. ASSUME job[w].kind = "approve" PROVE reqs[job[w].row].status = "pending"
        <5>1. ~End(w)
          BY <1>3, <2>1, EndType DEF LockRequest, Call, TypeOK
        <5> QED BY <1>3, <4>3, <5>1 DEF LockRequest
      <4> QED BY <4>1, <4>2, <4>3
    <3> QED BY <3>1 DEF LockInv, Holds, TypeOK
  <2>2. CASE End(w) /\ UNCHANGED wire
    BY <1>1, <1>3, <2>2, EndType DEF LockRequest, tables, Alone, ReqsStay, Unlocked
  <2> QED BY <1>3, <2>1, <2>2 DEF LockRequest
<1>4. ASSUME NEW w \in Request, ApproveDone(w) PROVE LockInv'
  <2>1. Alone(w) /\ Unlocked(w)
    BY <1>4, EndType DEF ApproveDone, Alone, Unlocked
  <2>2. CASE reqs' = reqs
    BY <1>1, <2>1, <2>2 DEF ReqsStay
  <2>3. CASE reqs' = [reqs EXCEPT ![job[w].row].status = "approved"]
    <3>1. job[w].row \in DOMAIN reqs /\ Holds(w, job[w].row)
      BY <1>4 DEF ApproveDone, LockInv, Holds
    <3>2. /\ DOMAIN reqs' = DOMAIN reqs
          /\ \A r \in DOMAIN reqs \ {job[w].row} : reqs'[r] = reqs[r]
      BY <2>3, <3>1, StatusFacts DEF TypeOK
    <3>3. \A v \in Request \ {w} : ~Holds(v, job[w].row)
      BY <3>1 DEF LockInv
    <3> QED BY <2>1, <3>2, <3>3 DEF LockInv, Alone, Unlocked, Holds
  <2> QED BY <1>4, <2>2, <2>3 DEF ApproveDone
<1>5. CASE \E w \in Request : LinkRequests(w) \/ ClaimsOf(w) \/ Revocations(w) \/ Onboarding(w)
  BY <1>1, <1>3, <1>4, <1>5, RequestMoves, RequestLocks DEF Local, Sends
<1>6. CASE Lose
  BY <1>2, <1>6 DEF Lose, tables
<1>7. CASE Serve
  <2> DEFINE m == Head(wire)
  <2>1. wire \in Seq(Message) /\ wire # <<>> /\ job' = job /\ reqs' = reqs
    BY <1>7 DEF Serve, TypeOK, tables
  <2>2. m = wire[1] /\ 1 \in DOMAIN wire
    BY <2>1, TailFacts
  <2>3. PICK ok \in BOOLEAN : pc' = IF m.from = NoOne THEN pc
                     ELSE [pc EXCEPT ![m.from] = IF ok THEN "ok" ELSE "failed"]
    BY <1>7 DEF Serve
  <2> HIDE DEF m
  <2>4. m.from # NoOne => pc[m.from] = "wait"
    BY <2>2 DEF FrameInv
  <2> QED BY <1>2, <2>1, <2>3, <2>4 DEF TypeOK
<1>8. ASSUME NEW w \in Request, Timeout(w) PROVE LockInv'
  BY <1>2, <1>8 DEF Timeout, tables, TypeOK
<1>9. ASSUME NEW w \in Request, RollBack(w) PROVE LockInv'
  BY <1>1, <1>9, EndType DEF RollBack, tables, Alone, ReqsStay, Unlocked
<1>10. ASSUME NEW r \in DOMAIN reqs, NEW s \in {"denied", "withdrawn"}, Resolve(r, s) PROVE LockInv'
  <2>1. /\ pc' = pc /\ job' = job
        /\ \A v \in Request : ~Holds(v, r)
        /\ reqs' = [reqs EXCEPT ![r].status = s]
    BY <1>10 DEF Resolve, RequestFree
  <2>2. DOMAIN reqs' = DOMAIN reqs /\ \A i \in DOMAIN reqs \ {r} : reqs'[i] = reqs[i]
    BY <2>1, StatusFacts DEF TypeOK
  <2> QED BY <2>1, <2>2 DEF LockInv, Holds
<1>11. CASE \/ \E u \in User, a \in Account, k \in Key : Mint(u, a, k)
            \/ \E c \in live : Expire(c)
            \/ \E u \in User : Reactivate(u)
            \/ \E a \in Account : CreateAccount(a) \/ DeleteAccount(a)
            \/ \E k \in Key : AddKey(k) \/ RemoveKey(k)
            \/ UNCHANGED vars
  <2>1. pc' = pc /\ job' = job
    BY <1>11, RowMoves DEF Still
  <2>2. reqs' = reqs
    BY <1>11 DEF Mint, Expire, Reactivate, CreateAccount, DeleteAccount, AddKey, RemoveKey, vars, tables
  <2> QED BY <1>2, <2>1, <2>2
<1> QED BY <1>5, <1>6, <1>7, <1>8, <1>9, <1>10, <1>11 DEF Next

\* A step never touches a link request that is decided.
LEMMA DecisionStep ==
    ASSUME TypeOK, LockInv, [Next]_vars
    PROVE  \A r \in DOMAIN reqs : reqs[r].status # "pending" => reqs'[r] = reqs[r]
<1>1. ASSUME NEW w \in Request, ApproveDone(w)
      PROVE  \A r \in DOMAIN reqs : reqs[r].status # "pending" => reqs'[r] = reqs[r]
  <2>1. job[w].row \in DOMAIN reqs /\ reqs[job[w].row].status = "pending"
    BY <1>1 DEF ApproveDone, LockInv, Holds
  <2>2. CASE reqs' = [reqs EXCEPT ![job[w].row].status = "approved"]
    BY <2>1, <2>2, StatusFacts DEF TypeOK
  <2> QED BY <1>1, <2>2 DEF ApproveDone
<1>2. CASE \E w \in Request : LinkRequests(w) \/ ClaimsOf(w) \/ Revocations(w) \/ Onboarding(w)
  BY <1>1, <1>2, RequestLocks DEF LockRequest, tables, ReqsStay
<1>3. CASE Serve \/ Lose \/ \E w \in Request : Timeout(w) \/ RollBack(w)
  BY <1>3 DEF Serve, Lose, Timeout, RollBack, tables
<1>4. ASSUME NEW r \in DOMAIN reqs, NEW s \in {"denied", "withdrawn"}, Resolve(r, s)
      PROVE  \A i \in DOMAIN reqs : reqs[i].status # "pending" => reqs'[i] = reqs[i]
  <2>1. reqs[r].status = "pending" /\ reqs' = [reqs EXCEPT ![r].status = s]
    BY <1>4 DEF Resolve
  <2> QED BY <2>1, StatusFacts DEF TypeOK
<1>5. CASE \/ \E u \in User, a \in Account, k \in Key : Mint(u, a, k)
           \/ \E c \in live : Expire(c)
           \/ \E u \in User : Reactivate(u)
           \/ \E a \in Account : CreateAccount(a) \/ DeleteAccount(a)
           \/ \E k \in Key : AddKey(k) \/ RemoveKey(k)
           \/ UNCHANGED vars
  BY <1>5 DEF Mint, Expire, Reactivate, CreateAccount, DeleteAccount, AddKey, RemoveKey, vars, tables
<1> QED BY <1>2, <1>3, <1>4, <1>5 DEF Next

-----------------------------------------------------------------------------
(* Challenges *)

\* The links stay what they are, but for being active; new ones are not verified.
LinksStay ==
    /\ \A i \in DOMAIN links :
        /\ i \in DOMAIN links'
        /\ links'[i].source = links[i].source /\ links'[i].chal = links[i].chal
        /\ links'[i].user = links[i].user /\ links'[i].acct = links[i].acct
    /\ \A i \in DOMAIN links' \ DOMAIN links : links'[i].source # "ssh_challenge"

\* Request w is no claim after the step, and no challenge moves.
NoClaim(w) == Alone(w) /\ LinksStay /\ ~Claiming(w)' /\ UNCHANGED <<chals, live, signed>>

\* Request w spends a challenge of its user.
Spends(w) ==
    /\ Alone(w) /\ links' = links /\ UNCHANGED <<chals, signed>>
    /\ pc'[w] = "wait" /\ Claiming(w)'
    /\ \E c \in live : /\ live' = live \ {c} /\ job'[w].chal = c
                       /\ chals[c] = [user |-> job'[w].user, acct |-> job'[w].acct]

\* Request w turns its challenge, whose signature was accepted, into a link.
Proves(w) ==
    /\ Alone(w) /\ Claiming(w) /\ pc[w] = "ok" /\ ~Claiming(w)' /\ UNCHANGED <<chals, live, signed>>
    /\ \E n : /\ n \notin DOMAIN links /\ DOMAIN links' = DOMAIN links \cup {n}
              /\ \A i \in DOMAIN links :
                    /\ links'[i].source = links[i].source /\ links'[i].chal = links[i].chal
                    /\ links'[i].user = links[i].user /\ links'[i].acct = links[i].acct
              /\ links'[n].chal = job[w].chal /\ links'[n].source = "ssh_challenge"
              /\ links'[n].user = job[w].user /\ links'[n].acct = job[w].acct

\* Requests that claim nothing disturb neither challenges nor proofs.
LEMMA NoClaimKeeps ==
    ASSUME ChalInv, LinkIsProven, NEW w \in Request, NoClaim(w)
    PROVE  ChalInv' /\ LinkIsProven'
<1>1. \A v \in Request : Claiming(v)' => v # w /\ Claiming(v) /\ job'[v] = job[v] /\ pc'[v] = pc[v]
  BY DEF NoClaim, Alone, Claiming
<1>2. \A i \in DOMAIN links' : links'[i].source = "ssh_challenge" =>
        /\ i \in DOMAIN links /\ links[i].source = "ssh_challenge" /\ links'[i].chal = links[i].chal
        /\ links'[i].user = links[i].user /\ links'[i].acct = links[i].acct
  BY DEF NoClaim, LinksStay
<1>3. chals' = chals /\ live' = live /\ signed' = signed
  BY DEF NoClaim
<1>4. ChalInv'
  BY <1>1, <1>2, <1>3 DEF ChalInv
<1>5. LinkIsProven'
  BY <1>2, <1>3 DEF LinkIsProven
<1> QED BY <1>4, <1>5

\* A challenge that is spent belongs to the request that spent it alone.
LEMMA SpendsKeeps ==
    ASSUME ChalInv, LinkIsProven, TypeOK, NEW w \in Request, Spends(w)
    PROVE  ChalInv' /\ LinkIsProven'
<1>1. PICK c \in live : /\ live' = live \ {c} /\ job'[w].chal = c
                        /\ chals[c] = [user |-> job'[w].user, acct |-> job'[w].acct]
  BY DEF Spends
<1>2. \A v \in Request \ {w} : job'[v] = job[v] /\ pc'[v] = pc[v] /\ (Claiming(v)' <=> Claiming(v))
  BY DEF Spends, Alone, Claiming
<1>3. links' = links /\ chals' = chals /\ signed' = signed /\ pc'[w] = "wait" /\ c \in DOMAIN chals
  BY DEF Spends, TypeOK
<1>4. \A v \in Request \ {w} : Claiming(v) => job[v].chal # c
  BY DEF ChalInv
<1>5. ASSUME NEW v \in Request, Claiming(v)'
      PROVE  /\ job'[v].chal \in DOMAIN chals' /\ job'[v].chal \notin live'
             /\ chals'[job'[v].chal] = [user |-> job'[v].user, acct |-> job'[v].acct]
             /\ pc'[v] = "ok" => job'[v].chal \in signed'
             /\ pc'[v] \in {"wait", "ok", "failed"}
  <2>1. CASE v = w
    BY <1>1, <1>3, <2>1
  <2>2. CASE v # w
    BY <1>1, <1>2, <1>3, <1>5, <2>2 DEF ChalInv
  <2> QED BY <2>1, <2>2
<1>6. \A u, v \in Request : Claiming(u)' /\ Claiming(v)' /\ job'[u].chal = job'[v].chal => u = v
  BY <1>1, <1>2, <1>4 DEF ChalInv
<1>7. \A i \in DOMAIN links' : links'[i].source = "ssh_challenge" =>
        /\ links'[i].chal \notin live'
        /\ \A v \in Request : Claiming(v)' => job'[v].chal # links'[i].chal
  BY <1>1, <1>2, <1>3 DEF ChalInv
<1>8. ChalInv'
  BY <1>5, <1>6, <1>7 DEF ChalInv
<1>9. LinkIsProven'
  BY <1>3 DEF LinkIsProven
<1> QED BY <1>8, <1>9

\* A link takes its challenge over from the request that claims it.
LEMMA ProvesKeeps ==
    ASSUME ChalInv, LinkIsProven, NEW w \in Request, Proves(w)
    PROVE  ChalInv' /\ LinkIsProven'
<1>1. PICK n : /\ n \notin DOMAIN links /\ DOMAIN links' = DOMAIN links \cup {n}
               /\ \A i \in DOMAIN links :
                    /\ links'[i].source = links[i].source /\ links'[i].chal = links[i].chal
                    /\ links'[i].user = links[i].user /\ links'[i].acct = links[i].acct
               /\ links'[n].chal = job[w].chal /\ links'[n].source = "ssh_challenge"
               /\ links'[n].user = job[w].user /\ links'[n].acct = job[w].acct
  BY DEF Proves
<1>2. \A v \in Request : Claiming(v)' => v # w /\ Claiming(v) /\ job'[v] = job[v] /\ pc'[v] = pc[v]
  BY DEF Proves, Alone, Claiming
<1>3. chals' = chals /\ live' = live /\ signed' = signed
  BY DEF Proves
<1>4. /\ job[w].chal \in DOMAIN chals \cap signed /\ job[w].chal \notin live
      /\ chals[job[w].chal] = [user |-> job[w].user, acct |-> job[w].acct]
      /\ \A v \in Request \ {w} : Claiming(v) => job[v].chal # job[w].chal
      /\ \A i \in DOMAIN links : links[i].source = "ssh_challenge" => links[i].chal # job[w].chal
  BY DEF Proves, ChalInv
<1>5. ChalInv'
  <2>1. \A v \in Request : Claiming(v)' =>
            /\ job'[v].chal \in DOMAIN chals' /\ job'[v].chal \notin live'
            /\ chals'[job'[v].chal] = [user |-> job'[v].user, acct |-> job'[v].acct]
            /\ pc'[v] = "ok" => job'[v].chal \in signed'
            /\ pc'[v] \in {"wait", "ok", "failed"}
    BY <1>2, <1>3 DEF ChalInv
  <2>2. \A u, v \in Request : Claiming(u)' /\ Claiming(v)' /\ job'[u].chal = job'[v].chal => u = v
    BY <1>2 DEF ChalInv
  <2>3. ASSUME NEW i \in DOMAIN links', links'[i].source = "ssh_challenge"
        PROVE  /\ links'[i].chal \notin live'
               /\ \A v \in Request : Claiming(v)' => job'[v].chal # links'[i].chal
    <3>1. CASE i = n
      BY <1>1, <1>2, <1>3, <1>4, <3>1
    <3>2. CASE i \in DOMAIN links
      BY <1>1, <1>2, <1>3, <2>3, <3>2 DEF ChalInv
    <3> QED BY <1>1, <2>3, <3>1, <3>2
  <2> QED BY <2>1, <2>2, <2>3 DEF ChalInv
<1>6. LinkIsProven'
  <2> SUFFICES ASSUME NEW i \in DOMAIN links', links'[i].source = "ssh_challenge"
               PROVE  /\ links'[i].chal \in signed' \cap DOMAIN chals'
                      /\ chals'[links'[i].chal] = [user |-> links'[i].user, acct |-> links'[i].acct]
                      /\ \A j \in DOMAIN links' \ {i} :
                            links'[j].source = "ssh_challenge" => links'[j].chal # links'[i].chal
    BY DEF LinkIsProven
  <2>1. CASE i = n
    BY <1>1, <1>3, <1>4, <2>1
  <2>2. CASE i \in DOMAIN links
    BY <1>1, <1>3, <1>4, <2>2 DEF LinkIsProven
  <2> QED BY <1>1, <2>1, <2>2
<1> QED BY <1>5, <1>6

\* Every step of a request is one of these three.
LEMMA RequestClaims ==
    ASSUME TypeOK, NEW w \in Request, Alone(w),
           LinkRequests(w) \/ ClaimsOf(w) \/ Revocations(w) \/ Onboarding(w)
    PROVE  NoClaim(w) \/ Spends(w) \/ Proves(w)
<1> USE AccessAssumption
<1> DEFINE Same == UNCHANGED <<chals, live, signed>>
<1>1. ASSUME links' = links, Same, job'[w].kind \notin {"verify", "upgrade"} PROVE NoClaim(w)
  BY <1>1 DEF NoClaim, LinksStay, Claiming
<1>2. ASSUME links' = links, Same, End(w) PROVE NoClaim(w)
  BY <1>1, <1>2, EndType
<1>3. links \in Seq(Link)
  BY DEF TypeOK
<1>4. ASSUME NEW x \in Link, x.source # "ssh_challenge", links' = Append(links, x), Same, End(w)
      PROVE  NoClaim(w)
  <2>1. LinksStay
    BY <1>3, <1>4, AppendFacts DEF LinksStay
  <2> QED BY <1>4, <2>1, EndType DEF NoClaim, Claiming
<1>5. NewLink(w) \in Link
  BY DEF TypeOK, Job, NewLink, LinkSource, Source, Link
<1>6. ASSUME NEW q \in Seq(Link), DOMAIN q = DOMAIN links,
             \A i \in DOMAIN links : /\ q[i].source = links[i].source /\ q[i].chal = links[i].chal
                                     /\ q[i].user = links[i].user /\ q[i].acct = links[i].acct,
             links' = Append(q, NewLink(w)), Same, End(w), pc[w] = "ok", Claiming(w)
      PROVE  Proves(w)
  <2>1. /\ NewLink(w).chal = job[w].chal /\ NewLink(w).source = "ssh_challenge"
        /\ NewLink(w).user = job[w].user /\ NewLink(w).acct = job[w].acct
    BY <1>6 DEF NewLink, LinkSource, Claiming
  <2>2. /\ DOMAIN links' = DOMAIN links \cup {Len(q) + 1} /\ Len(q) + 1 \notin DOMAIN links
        /\ \A i \in DOMAIN links : links'[i] = q[i]
        /\ links'[Len(q) + 1] = NewLink(w)
    BY <1>5, <1>6, AppendFacts
  <2>3. ~Claiming(w)'
    BY <1>6, EndType DEF Claiming
  <2> QED BY <1>6, <2>1, <2>2, <2>3 DEF Proves
<1>7. CASE LinkRequests(w)
  <2>1. ASSUME NEW u \in User, NEW a \in Account, CreateRequest(w, u, a) PROVE NoClaim(w)
    BY <1>1, <2>1 DEF CreateRequest, Begin, tables, NewJob, TypeOK
  <2>2. ASSUME NEW kind \in {"approve", "retry"}, NEW r \in DOMAIN reqs, NEW k \in Key,
               Decide(w, kind, r, k)
        PROVE NoClaim(w)
    BY <1>1, <2>2 DEF Decide, Begin, tables, NewJob, TypeOK
  <2>3. ASSUME InsertRequest(w) PROVE NoClaim(w)
    BY <1>2, <2>3 DEF InsertRequest
  <2>4. ASSUME LockRequest(w) PROVE NoClaim(w)
    <3>1. links' = links /\ Same /\ job[w].kind \in {"approve", "retry"} /\ (job' = job \/ End(w))
      BY <2>4 DEF LockRequest, tables
    <3> QED BY <1>1, <1>2, <3>1
  <2>5. ASSUME ApproveDone(w) PROVE NoClaim(w)
    BY <1>2, <2>5 DEF ApproveDone
  <2>6. ASSUME RetryDone(w) PROVE NoClaim(w)
    BY <1>2, <2>6 DEF RetryDone
  <2> QED BY <1>7, <2>1, <2>2, <2>3, <2>4, <2>5, <2>6 DEF LinkRequests
<1>8. CASE ClaimsOf(w)
  <2>1. ASSUME NEW u \in User, NEW c \in live, NEW k \in Key, NEW i \in 0..Len(links),
               Verify(w, u, c, k, i)
        PROVE Spends(w)
    <3>1. chals[c] \in Challenge /\ chals[c].user = u
      BY <2>1 DEF TypeOK, Verify, Consume
    <3>2. chals[c] = [user |-> u, acct |-> chals[c].acct]
      BY <3>1 DEF Challenge
    <3>3. /\ links' = links /\ UNCHANGED <<chals, signed>> /\ live' = live \ {c} /\ pc'[w] = "wait"
          /\ job'[w].kind = "verify" /\ job'[w].chal = c
          /\ job'[w].user = u /\ job'[w].acct = chals[c].acct
      BY <2>1 DEF Verify, Consume, Call, tables, NewJob, TypeOK
    <3> QED BY <3>2, <3>3 DEF Spends, Claiming
  <2>2. ASSUME NEW l \in DOMAIN links, NEW c \in live, NEW k \in Key, NEW i \in 0..Len(links),
               Upgrade(w, l, c, k, i)
        PROVE Spends(w)
    <3>1. chals[c] \in Challenge /\ chals[c].user = links[l].user /\ chals[c].acct = links[l].acct
      BY <2>2 DEF TypeOK, Upgrade, Consume
    <3>2. chals[c] = [user |-> links[l].user, acct |-> links[l].acct]
      BY <3>1 DEF Challenge
    <3>3. /\ links' = links /\ UNCHANGED <<chals, signed>> /\ live' = live \ {c} /\ pc'[w] = "wait"
          /\ job'[w].kind = "upgrade" /\ job'[w].chal = c
          /\ job'[w].user = links[l].user /\ job'[w].acct = links[l].acct
      BY <2>2 DEF Upgrade, Consume, Call, tables, NewJob, TypeOK
    <3> QED BY <3>2, <3>3 DEF Spends, Claiming
  <2>3. ASSUME NEW u \in User, NEW a \in Account, NEW i \in 0..Len(links), TryPassword(w, u, a, i)
        PROVE NoClaim(w)
    BY <1>1, <2>3 DEF TryPassword, tables, NewJob, TypeOK
  <2>4. ASSUME NEW u \in User, NEW a \in Account, NEW i \in 0..Len(links), Declare(w, u, a, i)
        PROVE NoClaim(w)
    BY <1>1, <2>4 DEF Declare, Begin, tables, NewJob, TypeOK
  <2>5. ASSUME Establish(w) PROVE NoClaim(w) \/ Proves(w)
    <3>1. Same /\ End(w) /\ (links' = links \/ links' = Append(links, NewLink(w)))
      BY <2>5 DEF Establish
    <3>2. CASE job[w].kind = "verify" /\ links' # links
      <4>1. pc[w] = "ok" /\ Claiming(w)
        BY <2>5, <3>2 DEF Establish, Claiming
      <4> QED BY <1>3, <1>6, <3>1, <3>2, <4>1
    <3>3. CASE job[w].kind # "verify" /\ links' # links
      <4>1. NewLink(w).source # "ssh_challenge"
        BY <2>5, <3>3 DEF Establish, NewLink, LinkSource
      <4> QED BY <1>4, <1>5, <3>1, <3>3, <4>1
    <3> QED BY <1>2, <3>1, <3>2, <3>3
  <2>6. ASSUME UpgradeDone(w) PROVE NoClaim(w) \/ Proves(w)
    <3>1. Same /\ End(w) /\ pc[w] = "ok" /\ Claiming(w)
      BY <2>6 DEF UpgradeDone, Claiming
    <3>2. CASE links' = links
      BY <1>2, <3>1, <3>2
    <3>3. CASE links' # links
      <4> DEFINE q == [links EXCEPT ![job[w].row].active = FALSE]
      <4>1. job[w].row \in DOMAIN links /\ links' = Append(q, NewLink(w))
        BY <2>6, <3>3 DEF UpgradeDone
      <4>2. /\ q \in Seq(Link) /\ DOMAIN q = DOMAIN links
            /\ \A i \in DOMAIN links :
                /\ q[i].source = links[i].source /\ q[i].chal = links[i].chal
                /\ q[i].user = links[i].user /\ q[i].acct = links[i].acct
        BY <1>3, <4>1, Deactivated
      <4> HIDE DEF q
      <4> QED BY <1>6, <3>1, <4>1, <4>2
    <3> QED BY <3>2, <3>3
  <2>7. ASSUME ClaimRefused(w) PROVE NoClaim(w)
    BY <1>2, <2>7 DEF ClaimRefused, tables
  <2> QED BY <1>8, <2>1, <2>2, <2>3, <2>4, <2>5, <2>6, <2>7 DEF ClaimsOf
<1>9. CASE Revocations(w)
  <2>1. ASSUME NEW l \in DOMAIN links, NEW b \in BOOLEAN, Revoke(w, l, b) PROVE NoClaim(w)
    BY <1>1, <2>1 DEF Revoke, Revocation, tables, NewJob, TypeOK
  <2>2. ASSUME NEW u \in User, NEW a \in Account, DisableUser(w, u, a) PROVE NoClaim(w)
    BY <1>1, <2>2 DEF DisableUser, Cascade, Revocation, tables, NewJob, TypeOK
  <2>3. ASSUME NEW l \in job[w].left, RevokeLink(w, l) PROVE NoClaim(w)
    <3>1. job'[w].kind = job[w].kind /\ links' = links /\ Same
      BY <2>3 DEF RevokeLink, tables, TypeOK, Job
    <3> QED BY <1>1, <2>3, <3>1 DEF RevokeLink, Revokes
  <2>4. ASSUME NEW p \in job[w].todo, RevokeKey(w, p) PROVE NoClaim(w)
    <3>1. job'[w].kind = job[w].kind /\ links' = links /\ Same
      BY <2>4 DEF RevokeKey, tables, TypeOK, Job
    <3> QED BY <1>1, <2>4, <3>1 DEF RevokeKey, Revokes
  <2>5. ASSUME LockUser(w) PROVE NoClaim(w)
    BY <1>1, <2>5 DEF LockUser, tables
  <2>6. ASSUME RevokeNext(w) PROVE NoClaim(w)
    BY <1>1, <2>6 DEF RevokeNext, tables, Revokes
  <2>7. ASSUME RevokeDone(w) PROVE NoClaim(w)
    <3>1. /\ Same /\ End(w)
          /\ links' = [i \in DOMAIN links |->
                        IF i \in job[w].locked THEN [links[i] EXCEPT !.active = FALSE] ELSE links[i]]
      BY <2>7 DEF RevokeDone
    <3>2. LinksStay
      BY <1>3, <3>1, SomeDeactivated DEF LinksStay
    <3> QED BY <3>1, <3>2, EndType DEF NoClaim, Claiming
  <2> QED BY <1>9, <2>1, <2>2, <2>3, <2>4, <2>5, <2>6, <2>7 DEF Revocations
<1>10. CASE Onboarding(w)
  <2>1. ASSUME NEW a \in Account, NEW k \in Key, Onboard(w, a, k) PROVE NoClaim(w)
    BY <1>1, <2>1 DEF Onboard, Begin, tables, NewJob, TypeOK
  <2>2. ASSUME NEW a \in Account, NEW k \in Key, Repush(w, a, k) PROVE NoClaim(w)
    BY <1>1, <2>2 DEF Repush, tables, NewJob, TypeOK
  <2>3. ASSUME OnboardPush(w) PROVE NoClaim(w)
    BY <1>1, <2>3 DEF OnboardPush, tables
  <2>4. ASSUME OnboardDone(w) PROVE NoClaim(w)
    <3> DEFINE x == [user |-> job[w].user, acct |-> job[w].acct,
                     source |-> "admin_declared", chal |-> 0, active |-> TRUE]
    <3>1. x \in Link /\ x.source # "ssh_challenge"
      BY DEF TypeOK, Job, Link, Source
    <3>2. links' = Append(links, x) /\ Same /\ End(w)
      BY <2>4 DEF OnboardDone
    <3> HIDE DEF x
    <3> QED BY <1>4, <3>1, <3>2
  <2> QED BY <1>10, <2>1, <2>2, <2>3, <2>4 DEF Onboarding
<1> QED BY <1>7, <1>8, <1>9, <1>10

\* Every step leaves each challenge with one owner and each verified link proven.
LEMMA ChalStep ==
    ASSUME TypeOK, FrameInv, ChalInv, LinkIsProven, [Next]_vars
    PROVE  ChalInv' /\ LinkIsProven'
<1>1. CASE \E w \in Request : LinkRequests(w) \/ ClaimsOf(w) \/ Revocations(w) \/ Onboarding(w)
  BY <1>1, RequestMoves, RequestClaims, NoClaimKeeps, SpendsKeeps, ProvesKeeps DEF Local, Sends
<1>2. ASSUME job' = job, links' = links, chals' = chals, live' \subseteq live, signed \subseteq signed',
             \A v \in Request : pc'[v] = pc[v] \/ (/\ pc[v] = "wait" /\ pc'[v] \in {"ok", "failed"}
                                                   /\ Claiming(v) /\ pc'[v] = "ok" => job[v].chal \in signed')
      PROVE  ChalInv' /\ LinkIsProven'
  <2>1. \A v \in Request : Claiming(v)' <=> Claiming(v)
    BY <1>2 DEF Claiming
  <2>2. ChalInv'
    BY <1>2, <2>1 DEF ChalInv
  <2>3. LinkIsProven'
    BY <1>2 DEF LinkIsProven
  <2> QED BY <2>2, <2>3
<1>3. CASE Lose
  BY <1>2, <1>3 DEF Lose, tables
<1>4. CASE Serve
  <2> DEFINE m == Head(wire)
  <2>1. /\ wire \in Seq(Message) /\ wire # <<>>
        /\ job' = job /\ links' = links /\ chals' = chals /\ live' = live
    BY <1>4 DEF Serve, TypeOK, tables
  <2>2. m = wire[1] /\ 1 \in DOMAIN wire
    BY <2>1, TailFacts
  <2>3. PICK ok \in BOOLEAN :
            /\ pc' = IF m.from = NoOne THEN pc
                     ELSE [pc EXCEPT ![m.from] = IF ok THEN "ok" ELSE "failed"]
            /\ signed' = IF m.from # NoOne /\ m.op = "verify" /\ ok
                         THEN signed \cup {job[m.from].chal} ELSE signed
    BY <1>4 DEF Serve
  <2> HIDE DEF m
  <2>4. m.from # NoOne => /\ pc[m.from] = "wait"
                          /\ job[m.from].kind \in {"verify", "upgrade"} => m.op = "verify"
    BY <2>2 DEF FrameInv
  <2>5. \A v \in Request : pc'[v] = pc[v] \/ (/\ pc[v] = "wait" /\ pc'[v] \in {"ok", "failed"}
                                              /\ Claiming(v) /\ pc'[v] = "ok" => job[v].chal \in signed')
    BY <2>3, <2>4 DEF TypeOK, Claiming
  <2>6. signed \subseteq signed'
    BY <2>3
  <2> QED BY <1>2, <2>1, <2>5, <2>6
<1>5. ASSUME NEW w \in Request, Timeout(w) PROVE ChalInv' /\ LinkIsProven'
  BY <1>2, <1>5 DEF Timeout, tables, TypeOK
<1>6. ASSUME NEW w \in Request, RollBack(w) PROVE ChalInv' /\ LinkIsProven'
  <2>1. NoClaim(w)
    BY <1>6, EndType DEF RollBack, tables, NoClaim, Alone, LinksStay, Claiming
  <2> QED BY <2>1, NoClaimKeeps
<1>7. ASSUME NEW u \in User, NEW a \in Account, NEW k \in Key, Mint(u, a, k)
      PROVE  ChalInv' /\ LinkIsProven'
  <2> DEFINE x == [user |-> u, acct |-> a]
  <2>1. x \in Challenge /\ chals \in Seq(Challenge)
    BY DEF Challenge, TypeOK
  <2>2. /\ chals' = Append(chals, x) /\ live' = live \cup {Len(chals) + 1}
        /\ job' = job /\ pc' = pc /\ links' = links /\ signed' = signed
    BY <1>7 DEF Mint, tables
  <2> HIDE DEF x
  <2>3. /\ DOMAIN chals' = DOMAIN chals \cup {Len(chals) + 1} /\ Len(chals) + 1 \notin DOMAIN chals
        /\ \A c \in DOMAIN chals : chals'[c] = chals[c]
    BY <2>1, <2>2, AppendFacts
  <2>4. \A v \in Request : Claiming(v)' <=> Claiming(v)
    BY <2>2 DEF Claiming
  <2>5. LinkIsProven'
    BY <2>2, <2>3 DEF LinkIsProven
  <2>6. \A i \in DOMAIN links : links[i].source = "ssh_challenge" => links[i].chal \in DOMAIN chals
    BY DEF LinkIsProven
  <2>7. ChalInv'
    BY <2>2, <2>3, <2>4, <2>6 DEF ChalInv
  <2> QED BY <2>5, <2>7
<1>8. ASSUME NEW c \in live, Expire(c) PROVE ChalInv' /\ LinkIsProven'
  BY <1>2, <1>8 DEF Expire, tables
<1>9. CASE \/ \E r \in DOMAIN reqs, s \in {"denied", "withdrawn"} : Resolve(r, s)
           \/ \E u \in User : Reactivate(u)
           \/ \E a \in Account : CreateAccount(a) \/ DeleteAccount(a)
           \/ \E k \in Key : AddKey(k) \/ RemoveKey(k)
           \/ UNCHANGED vars
  <2>1. pc' = pc /\ job' = job /\ signed' = signed
    BY <1>9, RowMoves DEF Still
  <2>2. links' = links /\ chals' = chals /\ live' = live
    BY <1>9 DEF Resolve, Reactivate, CreateAccount, DeleteAccount, AddKey, RemoveKey, vars
  <2> QED BY <1>2, <2>1, <2>2
<1> QED BY <1>1, <1>3, <1>4, <1>5, <1>6, <1>7, <1>8, <1>9 DEF Next

-----------------------------------------------------------------------------
(* The invariant and what follows from it *)

\* The invariant holds at the start: nobody has asked for anything, and every key
\* in a file was put there by hand.
LEMMA AccessInit == Init => AccessInv
<1> SUFFICES ASSUME Init PROVE AccessInv
  OBVIOUS
<1>1. TypeOK
  BY TypeInit
<1>2. \A w \in Request : pc[w] = "new" /\ job[w].kind = "none"
  BY DEF Init, NewJob
<1>3. FrameInv
  BY DEF Init, FrameInv
<1>4. PushInv
  BY DEF Init, PushInv, Tracked
<1>5. ChalInv /\ LinkIsProven
  BY <1>2 DEF Init, ChalInv, LinkIsProven, Claiming
<1>6. LockInv
  BY <1>2 DEF LockInv, Holds
<1> QED BY <1>1, <1>3, <1>4, <1>5, <1>6 DEF AccessInv

\* Every step keeps it.
LEMMA AccessStep == AccessInv /\ [Next]_vars => AccessInv'
<1> SUFFICES ASSUME AccessInv, [Next]_vars PROVE AccessInv'
  OBVIOUS
<1> QED BY TypeStep, FrameStep, PushStep, ChalStep, LockStep DEF AccessInv

\* In every reachable state, tables, frames and requests keep their shape and the
\* parts of the invariant hold, however the requests overlap and fail.
THEOREM AccessInvariant == Spec => []AccessInv
<1> QED BY AccessInit, AccessStep, PTL DEF Spec

\* The tables, the frames and the requests keep their types.
THEOREM AccessTypes == Spec => []TypeOK
<1>1. AccessInv => TypeOK
  BY DEF AccessInv
<1> QED BY <1>1, AccessInvariant, PTL

\* A link established by a signature rests on a challenge of its own, of the same
\* user and account, that the agent accepted: verify_challenge and
\* upgrade_via_challenge never turn one challenge into two links.
THEOREM LinksAreProven == Spec => []LinkIsProven
<1>1. AccessInv => LinkIsProven
  BY DEF AccessInv
<1> QED BY <1>1, AccessInvariant, PTL

\* A key in an authorized_keys file has its inventory row, or its push is under
\* way or was cut short: approvals, retries and onboarding lose no key otherwise.
THEOREM PushedKeysAreTracked == Spec => []PushedIsTracked
<1>1. AccessInv => PushedIsTracked
  BY DEF AccessInv, PushInv, Tracked, PushedIsTracked
<1> QED BY <1>1, AccessInvariant, PTL

\* Nothing overwrites a decision on a link request: approve_request keeps the
\* row's lock while it waits for the agent, deny and withdraw ask for it.
THEOREM DecisionsAreFinal == Spec => DecisionIsFinal
<1>1. AccessInv /\ [Next]_vars =>
        [\A r \in DOMAIN reqs : reqs[r].status # "pending" => reqs'[r] = reqs[r]]_vars
  BY DecisionStep DEF AccessInv
<1> QED BY <1>1, AccessInvariant, PTL DEF Spec, DecisionIsFinal
=============================================================================
