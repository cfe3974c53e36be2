--------------------------- MODULE AccountAccess ---------------------------
(***************************************************************************)
(* Who may use which Linux account: physical accounts, SSH keys, account   *)
(* links, link requests, SSH challenges, and the authorized_keys files the *)
(* agent edits on behalf of the platform (account_link_service,            *)
(* account_link_request_service, physical_account_service, ssh_challenge,  *)
(* ssh_key_service, user_service.disable_user and their routes).           *)
(*                                                                         *)
(* Each member of Request is one HTTP request.  Its transaction reads a    *)
(* snapshot that its first query fixes: what it will find there is worked  *)
(* out when it arrives.  Then it may wait for row locks and for the agent, *)
(* and its writes become visible when it commits.                          *)
(*                                                                         *)
(* Abstractions.  One agent.  Roles, lab membership, audit rows and        *)
(* notifications are left out: they refuse before any change or are only   *)
(* read by people.  A Linux name is registered once.  Server-admin grants  *)
(* are not part of this module.                                            *)
(***************************************************************************)
EXTENDS Naturals, Sequences

CONSTANTS
    User,       \* platform users
    Account,    \* physical_account rows, by id
    Key,        \* ssh_public_key rows, by id
    Owner,      \* the user each key belongs to
    Backlog,    \* link requests that may be pending at the start
    Request,    \* HTTP requests that run a transaction of several steps
    NoOne,      \* no request
    MaxLinks, MaxRequests, MaxChallenges   \* bounds on rows and nonces

ASSUME AccessAssumption ==
    /\ Key \subseteq Nat \ {0}
    /\ Owner \in [Key -> User]
    /\ Backlog \in Seq([user : User, acct : Account, status : {"pending"}])
    /\ NoOne \notin Request
    /\ MaxLinks \in Nat /\ MaxRequests \in Nat /\ MaxChallenges \in Nat

VARIABLES
    active,   \* user.is_active
    account,  \* the physical accounts: absent, active or deleted
    key,      \* the SSH keys: absent, active or removed
    links,    \* account_link, by id
    reqs,     \* account_link_request, by id
    entry,    \* authorized_key_entry, unique by account and key
    chals,    \* the context of each challenge minted so far
    live,     \* the challenges that Redis still holds
    host,     \* the keys in each account's authorized_keys file
    wire,     \* requests on their way to the agent
    pc, job,  \* where each HTTP request is, and what it has read
    signed,   \* history: the challenges whose signature the agent accepted
    stray     \* history: keys put into a file by hand or by a push that was cut
              \* short, until a push of the same key is acknowledged

vars == <<active, account, key, links, reqs, entry, chals, live, host, wire, pc, job, signed, stray>>
tables == <<active, account, key, links, reqs, entry>>

Source == {"ssh_challenge", "password_pam", "admin_declared"}
Link == [user : User, acct : Account, source : Source, chal : Nat, active : BOOLEAN]
ReqRow == [user : User, acct : Account, status : {"pending", "approved", "denied", "withdrawn"}]
Entry == {"none", "active", "inactive"}
Challenge == [user : User, acct : Account]

Claims == {"verify", "upgrade", "pam", "declare"}
Pushes == {"approve", "retry", "repush", "onboard"}
Revokes == {"revoke", "disable"}

\* What a request has in hand.  row: the link or link request it is about; had:
\* the inventory row as the snapshot shows it; left, todo, keys: the links and
\* the keys a revocation still has to deal with, and all its keys.
Job == {j \in [kind : Claims \cup Pushes \cup Revokes \cup {"create", "none"},
                user : User, acct : Account, key : Key \cup {0}, row : Nat, chal : Nat,
                had : Entry, locked : SUBSET Nat, left : SUBSET Nat,
                todo : SUBSET (Account \X Key), keys : SUBSET (Account \X Key)] :
            j.kind \in Pushes => j.key \in Key}

Message == {m \in [from : Request \cup {NoOne}, op : {"push", "revoke", "verify", "pam"},
                   acct : Account, key : Key \cup {0}] :
                m.op = "push" => m.key \in Key}

NewJob(kind, u, a) ==
    [kind |-> kind, user |-> u, acct |-> a, key |-> 0, row |-> 0, chal |-> 0, had |-> "none",
     locked |-> {}, left |-> {}, todo |-> {}, keys |-> {}]

-----------------------------------------------------------------------------
(* Queries *)

\* _existing_active_link: the rows it may return (one, by uq_link_user_pa_active).
ActiveLinks(u, a) == {i \in DOMAIN links : links[i].user = u /\ links[i].acct = a /\ links[i].active}

\* The id of that row as the snapshot shows it, 0 if there is none.
IsExisting(i, u, a) == IF ActiveLinks(u, a) = {} THEN i = 0 ELSE i \in ActiveLinks(u, a)

\* _latest_active_key_for_user.
IsLatestKey(k, u) ==
    /\ key[k] = "active" /\ Owner[k] = u
    /\ \A j \in Key : key[j] = "active" /\ Owner[j] = u => j <= k

\* The inventory rows that revoke_link looks up for a link.
KeysPushedFor(u, a) == {p \in {a} \X {k \in Key : Owner[k] = u} : entry[p[1]][p[2]] = "active"}

\* A link request is locked from the moment approve or retry has read it.
Holds(w, r) == job[w].kind \in {"approve", "retry"} /\ job[w].row = r /\ pc[w] \in {"wait", "ok", "failed"}
RequestFree(r) == \A w \in Request : ~Holds(w, r)

\* An account_link row is locked by the transaction that has updated it.
LinkFree(i) == \A w \in Request : i \notin job[w].locked

\* An insert waits for a transaction that is about to deactivate the same pair.
PairFree(u, a) == \A i \in ActiveLinks(u, a) : LinkFree(i)

\* disable_user has updated the user's row: an insert that refers to it waits.
UserLocked(u) == \E w \in Request : job[w].kind = "disable" /\ job[w].user = u
                                    /\ pc[w] \in {"work", "wait", "ok", "failed"}

-----------------------------------------------------------------------------
(* Requests and the agent *)

Begin(w, j) ==
    /\ pc[w] = "new"
    /\ pc' = [pc EXCEPT ![w] = "begun"]
    /\ job' = [job EXCEPT ![w] = j]

End(w) ==
    /\ pc' = [pc EXCEPT ![w] = "done"]
    /\ job' = [job EXCEPT ![w] = NewJob("none", @.user, @.acct)]

\* agent_rpc.request_response: the request is sent and its answer awaited.
Call(w, op, a, k) ==
    /\ wire' = Append(wire, [from |-> w, op |-> op, acct |-> a, key |-> k])
    /\ pc' = [pc EXCEPT ![w] = "wait"]

\* The caller is no longer there: its frames stay on their way.
Abandoned(w) == [i \in DOMAIN wire |-> IF wire[i].from = w THEN [wire[i] EXCEPT !.from = NoOne] ELSE wire[i]]

\* authorized_keys.push and revoke: the file after the request.
Rewritten(m) ==
    CASE m.op = "push"   -> host[m.acct] \cup {m.key}
      [] m.op = "revoke" -> host[m.acct] \ {m.key}
      [] OTHER           -> host[m.acct]

\* The agent serves its next request; an answer nobody waits for is ignored.
\* A signature is accepted if its key is in the account's file; PAM decides
\* about passwords.
Serve ==
    /\ wire # <<>>
    /\ LET m == Head(wire) IN
        \E ok \in BOOLEAN :
            /\ m.op = "verify" => ok = (m.key \in host[m.acct])
            /\ m.op \in {"push", "revoke"} => ok
            /\ host' = [host EXCEPT ![m.acct] = Rewritten(m)]
            /\ pc' = IF m.from = NoOne THEN pc
                     ELSE [pc EXCEPT ![m.from] = IF ok THEN "ok" ELSE "failed"]
            /\ signed' = IF m.from # NoOne /\ m.op = "verify" /\ ok
                         THEN signed \cup {job[m.from].chal} ELSE signed
            /\ stray' = IF m.from # NoOne /\ m.op = "push" THEN stray \ {<<m.acct, m.key>>} ELSE stray
    /\ wire' = Tail(wire)
    /\ UNCHANGED <<tables, chals, live, job>>

\* The agent raises (capability off, no such user, command failed) or the
\* connection drops the frame: no answer.
Lose ==
    /\ wire # <<>>
    /\ wire' = Tail(wire)
    /\ UNCHANGED <<tables, chals, live, host, pc, job, signed, stray>>

\* A push that ends without a record of what came of it.
Astray(w) == IF job[w].kind \in Pushes THEN stray \cup {<<job[w].acct, job[w].key>>} ELSE stray

\* Offline or out of time: the request goes on without an answer.
Timeout(w) ==
    /\ pc[w] = "wait"
    /\ pc' = [pc EXCEPT ![w] = "failed"]
    /\ wire' = Abandoned(w)
    /\ stray' = Astray(w)
    /\ UNCHANGED <<tables, chals, live, host, job, signed>>

\* The transaction dies (lock wait, deadlock, lost database, backend crash) and
\* is rolled back; what the agent has done stays done.
RollBack(w) ==
    /\ pc[w] \in {"begun", "work", "wait", "ok", "failed"}
    /\ End(w)
    /\ wire' = Abandoned(w)
    /\ stray' = IF pc[w] \in {"wait", "ok", "failed"} THEN Astray(w) ELSE stray
    /\ UNCHANGED <<tables, chals, live, host, signed>>

-----------------------------------------------------------------------------
(* Link requests: account_link_request_service *)

\* create_request: refused for an account that is not active, an existing link
\* or a pending request, as the snapshot shows them.
CreateRequest(w, u, a) ==
    /\ active[u] /\ account[a] = "active"
    /\ ActiveLinks(u, a) = {}
    /\ \A r \in DOMAIN reqs : ~(reqs[r].user = u /\ reqs[r].acct = a /\ reqs[r].status = "pending")
    /\ Begin(w, NewJob("create", u, a))
    /\ UNCHANGED <<tables, chals, live, host, wire, signed, stray>>

InsertRequest(w) ==
    /\ pc[w] = "begun" /\ job[w].kind = "create"
    /\ ~UserLocked(job[w].user)
    /\ Len(reqs) < MaxRequests
    /\ reqs' = Append(reqs, [user |-> job[w].user, acct |-> job[w].acct, status |-> "pending"])
    /\ End(w)
    /\ UNCHANGED <<active, account, key, links, entry, chals, live, host, wire, signed, stray>>

\* approve_request and retry_push_for_request up to the lock: the requester's
\* key and its inventory row come from the snapshot.
Decide(w, kind, r, k) ==
    /\ r \in DOMAIN reqs
    /\ IsLatestKey(k, reqs[r].user)
    /\ Begin(w, [NewJob(kind, reqs[r].user, reqs[r].acct) EXCEPT
                    !.row = r, !.key = k, !.had = entry[reqs[r].acct][k]])
    /\ UNCHANGED <<tables, chals, live, host, wire, signed, stray>>

\* The lock is granted; the status is read under it.  A request in the wrong
\* state is refused; a retry whose key is recorded as installed has nothing to
\* do; otherwise the key is pushed.
LockRequest(w) ==
    /\ pc[w] = "begun" /\ job[w].kind \in {"approve", "retry"}
    /\ RequestFree(job[w].row)
    /\ IF /\ reqs[job[w].row].status = (IF job[w].kind = "approve" THEN "pending" ELSE "approved")
          /\ job[w].kind = "retry" => job[w].had # "active"
       THEN Call(w, "push", job[w].acct, job[w].key) /\ UNCHANGED job
       ELSE End(w) /\ UNCHANGED wire
    /\ UNCHANGED <<tables, chals, live, host, signed, stray>>

\* The inventory row is inserted unless there is one (uq_ake_pa_key), whatever
\* its state: then the statement fails and the transaction is rolled back.
ApproveDone(w) ==
    /\ pc[w] \in {"ok", "failed"} /\ job[w].kind = "approve"
    /\ pc[w] = "ok" => ~UserLocked(job[w].user)
    /\ IF pc[w] = "ok" /\ entry[job[w].acct][job[w].key] # "none"
       THEN UNCHANGED <<reqs, entry>>
       ELSE /\ reqs' = [reqs EXCEPT ![job[w].row].status = "approved"]
            /\ entry' = IF pc[w] = "ok" THEN [entry EXCEPT ![job[w].acct][job[w].key] = "active"]
                        ELSE entry
    /\ End(w)
    /\ UNCHANGED <<active, account, key, links, chals, live, host, wire, signed, stray>>

\* Slip: a retry trusts that there is an inventory row.
RetryWithoutInsert(w) ==
    /\ pc[w] \in {"ok", "failed"} /\ job[w].kind \in {"retry", "repush"}
    /\ entry' = IF pc[w] = "ok" /\ job[w].had # "none"
                THEN [entry EXCEPT ![job[w].acct][job[w].key] = "active"] ELSE entry
    /\ End(w)
    /\ UNCHANGED <<active, account, key, links, reqs, chals, live, host, wire, signed, stray>>

\* The two retries: the row the snapshot has is updated, a missing one is
\* inserted, and the insert fails if there is one by now.
RetryDone(w) ==
    /\ pc[w] \in {"ok", "failed"} /\ job[w].kind \in {"retry", "repush"}
    /\ pc[w] = "ok" /\ job[w].had = "none" => ~UserLocked(job[w].user)
    /\ entry' = IF pc[w] = "ok" /\ (job[w].had = "none" => entry[job[w].acct][job[w].key] = "none")
                THEN [entry EXCEPT ![job[w].acct][job[w].key] = "active"] ELSE entry
    /\ End(w)
    /\ UNCHANGED <<active, account, key, links, reqs, chals, live, host, wire, signed, stray>>

\* Slip: withdraw reads the row without locking it.
ResolveUnlocked(r, status) ==
    /\ r \in DOMAIN reqs
    /\ status = "withdrawn" => active[reqs[r].user]
    /\ reqs[r].status = "pending"
    /\ reqs' = [reqs EXCEPT ![r].status = status]
    /\ UNCHANGED <<active, account, key, links, entry, chals, live, host, wire, pc, job, signed, stray>>

\* deny_request and withdraw_request: under the row's lock.
Resolve(r, status) ==
    /\ r \in DOMAIN reqs
    /\ status = "withdrawn" => active[reqs[r].user]
    /\ RequestFree(r)
    /\ reqs[r].status = "pending"
    /\ reqs' = [reqs EXCEPT ![r].status = status]
    /\ UNCHANGED <<active, account, key, links, entry, chals, live, host, wire, pc, job, signed, stray>>

-----------------------------------------------------------------------------
(* Challenges and claims: ssh_challenge, api/v1/account_links.py *)

\* create_challenge: the account is active and the key is one of the user's.
Mint(u, a, k) ==
    /\ Len(chals) < MaxChallenges
    /\ active[u] /\ account[a] = "active" /\ key[k] = "active" /\ Owner[k] = u
    /\ chals' = Append(chals, [user |-> u, acct |-> a])
    /\ live' = live \cup {Len(chals) + 1}
    /\ UNCHANGED <<tables, host, wire, pc, job, signed, stray>>

\* The TTL passes, or somebody else's request spends the challenge in vain.
Expire(c) ==
    /\ c \in live
    /\ live' = live \ {c}
    /\ UNCHANGED <<tables, chals, host, wire, pc, job, signed, stray>>

\* Slip: GET without DEL.
PeekChallenge(c, u) ==
    /\ c \in live /\ chals[c].user = u
    /\ UNCHANGED live

\* consume: GETDEL; only the user who minted it gets on.
Consume(c, u) ==
    /\ c \in live /\ chals[c].user = u
    /\ live' = live \ {c}

\* verify_challenge: the signature (by some key of the user) goes to the agent.
Verify(w, u, c, k, i) ==
    /\ active[u] /\ Owner[k] = u
    /\ pc[w] = "new"
    /\ Consume(c, u)
    /\ IsExisting(i, u, chals[c].acct)
    /\ job' = [job EXCEPT ![w] = [NewJob("verify", u, chals[c].acct) EXCEPT
                                    !.key = k, !.chal = c, !.row = i]]
    /\ Call(w, "verify", chals[c].acct, k)
    /\ UNCHANGED <<tables, chals, host, signed, stray>>

\* upgrade_via_challenge for the declared link l; a challenge for another account
\* is spent all the same (Expire).
Upgrade(w, l, c, k, i) ==
    /\ l \in DOMAIN links
    /\ LET u == links[l].user  a == links[l].acct IN
        /\ active[u] /\ Owner[k] = u
        /\ links[l].source = "admin_declared"
        /\ pc[w] = "new"
        /\ Consume(c, u)
        /\ chals[c].acct = a
        /\ IsExisting(i, u, a)
        /\ job' = [job EXCEPT ![w] = [NewJob("upgrade", u, a) EXCEPT !.key = k, !.chal = c, !.row = i]]
        /\ Call(w, "verify", a, k)
    /\ UNCHANGED <<tables, chals, host, signed, stray>>

\* try_password.
TryPassword(w, u, a, i) ==
    /\ active[u] /\ account[a] = "active"
    /\ pc[w] = "new"
    /\ IsExisting(i, u, a)
    /\ job' = [job EXCEPT ![w] = [NewJob("pam", u, a) EXCEPT !.row = i]]
    /\ Call(w, "pam", a, 0)
    /\ UNCHANGED <<tables, chals, live, host, signed, stray>>

\* declare_owner.
Declare(w, u, a, i) ==
    /\ account[a] # "absent"
    /\ IsExisting(i, u, a)
    /\ Begin(w, [NewJob("declare", u, a) EXCEPT !.row = i])
    /\ UNCHANGED <<tables, chals, live, host, wire, signed, stray>>

LinkSource(kind) ==
    CASE kind = "pam" -> "password_pam" [] kind = "declare" -> "admin_declared" [] OTHER -> "ssh_challenge"

NewLink(w) == [user |-> job[w].user, acct |-> job[w].acct, source |-> LinkSource(job[w].kind),
               chal |-> job[w].chal, active |-> TRUE]

\* establish_via_ssh_challenge, establish_via_pam, admin_declare_link: refused if
\* the snapshot has a link; the insert fails if there is one by now.
Establish(w) ==
    /\ job[w].kind \in {"verify", "pam", "declare"}
    /\ pc[w] = (IF job[w].kind = "declare" THEN "begun" ELSE "ok")
    /\ PairFree(job[w].user, job[w].acct) /\ ~UserLocked(job[w].user)
    /\ IF job[w].row = 0 /\ ActiveLinks(job[w].user, job[w].acct) = {}
       THEN Len(links) < MaxLinks /\ links' = Append(links, NewLink(w))
       ELSE UNCHANGED links
    /\ End(w)
    /\ UNCHANGED <<active, account, key, reqs, entry, chals, live, host, wire, signed, stray>>

\* upgrade_admin_declared_to_ssh: the link the snapshot has is deactivated and a
\* verified one inserted, which fails if another one is active by now.
UpgradeDone(w) ==
    /\ pc[w] = "ok" /\ job[w].kind = "upgrade"
    /\ job[w].row # 0 => LinkFree(job[w].row)
    /\ PairFree(job[w].user, job[w].acct) /\ ~UserLocked(job[w].user)
    /\ IF /\ job[w].row \in DOMAIN links
          /\ links[job[w].row].source = "admin_declared"
          /\ ActiveLinks(job[w].user, job[w].acct) \subseteq {job[w].row}
       THEN /\ Len(links) < MaxLinks
            /\ links' = Append([links EXCEPT ![job[w].row].active = FALSE], NewLink(w))
       ELSE UNCHANGED links
    /\ End(w)
    /\ UNCHANGED <<active, account, key, reqs, entry, chals, live, host, wire, signed, stray>>

\* A signature or a password that was not accepted.
ClaimRefused(w) ==
    /\ pc[w] = "failed" /\ job[w].kind \in Claims
    /\ End(w)
    /\ UNCHANGED <<tables, chals, live, host, wire, signed, stray>>

-----------------------------------------------------------------------------
(* Revocation: account_link_service.revoke_link, user_service.disable_user *)

\* The request as it stands after its reads: the links and the keys to deal with.
Revocation(kind, u, a, ls, ps) ==
    [NewJob(kind, u, a) EXCEPT !.left = ls, !.todo = ps, !.keys = ps]

\* POST /account-links/{id}/revoke, with or without the keys.
Revoke(w, l, withKeys) ==
    /\ l \in DOMAIN links /\ links[l].active
    /\ pc[w] = "new"
    /\ LET u == links[l].user  a == links[l].acct IN
        job' = [job EXCEPT ![w] =
                    Revocation("revoke", u, a, {l}, IF withKeys THEN KeysPushedFor(u, a) ELSE {})]
    /\ pc' = [pc EXCEPT ![w] = "work"]
    /\ UNCHANGED <<tables, chals, live, host, wire, signed, stray>>

\* _cascade_revoke_access: every active link and the keys pushed for it.
Cascade(kind, u, a) ==
    LET ls == {i \in DOMAIN links : links[i].user = u /\ links[i].active} IN
    Revocation(kind, u, a, ls, UNION {KeysPushedFor(u, links[i].acct) : i \in ls})

\* disable_user: the user's row is updated first, so a second one waits there.
\* One that finds the user disabled has nothing to update, only the cascade.
DisableUser(w, u, a) ==
    /\ pc[w] = "new"
    /\ pc' = [pc EXCEPT ![w] = IF active[u] THEN "begun" ELSE "work"]
    /\ job' = [job EXCEPT ![w] = Cascade(IF active[u] THEN "disable" ELSE "revoke", u, a)]
    /\ UNCHANGED <<tables, chals, live, host, wire, signed, stray>>

LockUser(w) ==
    /\ pc[w] = "begun" /\ job[w].kind = "disable"
    /\ ~UserLocked(job[w].user)
    /\ pc' = [pc EXCEPT ![w] = "work"]
    /\ UNCHANGED <<tables, chals, live, host, wire, job, signed, stray>>

\* The next key of the link at hand.
NextKeys(w) == {p \in job[w].todo : \E i \in job[w].locked : links[i].acct = p[1]}

\* The next link is updated, once the keys of the last one are dealt with.
RevokeLink(w, l) ==
    /\ pc[w] = "work" /\ job[w].kind \in Revokes
    /\ l \in job[w].left
    /\ NextKeys(w) = {}
    /\ LinkFree(l)
    /\ job' = [job EXCEPT ![w].left = @ \ {l}, ![w].locked = @ \cup {l}]
    /\ UNCHANGED <<tables, chals, live, host, wire, pc, signed, stray>>

RevokeKey(w, p) ==
    /\ pc[w] = "work" /\ job[w].kind \in Revokes
    /\ p \in NextKeys(w)
    /\ job' = [job EXCEPT ![w].todo = @ \ {p}]
    /\ Call(w, "revoke", p[1], p[2])
    /\ UNCHANGED <<tables, chals, live, host, signed, stray>>

\* Answer or not, the inventory row will be marked as removed.
RevokeNext(w) ==
    /\ pc[w] \in {"ok", "failed"} /\ job[w].kind \in Revokes
    /\ pc' = [pc EXCEPT ![w] = "work"]
    /\ UNCHANGED <<tables, chals, live, host, wire, job, signed, stray>>

RevokeDone(w) ==
    /\ pc[w] = "work" /\ job[w].kind \in Revokes
    /\ job[w].left = {} /\ NextKeys(w) = {}
    /\ links' = [i \in DOMAIN links |->
                    IF i \in job[w].locked THEN [links[i] EXCEPT !.active = FALSE] ELSE links[i]]
    /\ entry' = [a \in Account |-> [k \in Key |->
                    IF <<a, k>> \in job[w].keys THEN "inactive" ELSE entry[a][k]]]
    /\ active' = IF job[w].kind = "disable" THEN [active EXCEPT ![job[w].user] = FALSE] ELSE active
    /\ End(w)
    /\ UNCHANGED <<account, key, reqs, chals, live, host, wire, signed, stray>>

\* reactivate_user.
Reactivate(u) ==
    /\ ~active[u] /\ ~UserLocked(u)
    /\ active' = [active EXCEPT ![u] = TRUE]
    /\ UNCHANGED <<account, key, links, reqs, entry, chals, live, host, wire, pc, job, signed, stray>>

-----------------------------------------------------------------------------
(* Accounts and keys: physical_account_service, ssh_key_service *)

\* create and sync_discovered.
CreateAccount(a) ==
    /\ account[a] = "absent"
    /\ \A w \in Request : ~(job[w].kind = "onboard" /\ job[w].acct = a /\ pc[w] \in {"wait", "ok", "failed"})
    /\ account' = [account EXCEPT ![a] = "active"]
    /\ UNCHANGED <<active, key, links, reqs, entry, chals, live, host, wire, pc, job, signed, stray>>

\* Slip: a state the table's check constraint does not know.
DeleteMisspelt(a) ==
    /\ account[a] = "active"
    /\ account' = [account EXCEPT ![a] = "gone"]
    /\ UNCHANGED <<active, key, links, reqs, entry, chals, live, host, wire, pc, job, signed, stray>>

\* delete: links and inventory stay as they are.
DeleteAccount(a) ==
    /\ account[a] = "active"
    /\ account' = [account EXCEPT ![a] = "deleted"]
    /\ UNCHANGED <<active, key, links, reqs, entry, chals, live, host, wire, pc, job, signed, stray>>

AddKey(k) ==
    /\ key[k] = "absent" /\ active[Owner[k]]
    /\ key' = [key EXCEPT ![k] = "active"]
    /\ UNCHANGED <<active, account, links, reqs, entry, chals, live, host, wire, pc, job, signed, stray>>

RemoveKey(k) ==
    /\ key[k] = "active" /\ active[Owner[k]]
    /\ key' = [key EXCEPT ![k] = "removed"]
    /\ UNCHANGED <<active, account, links, reqs, entry, chals, live, host, wire, pc, job, signed, stray>>

\* onboard_user up to useradd, whose outcome does not matter here.
Onboard(w, a, k) ==
    /\ key[k] = "active" /\ account[a] = "absent"
    /\ Begin(w, [NewJob("onboard", Owner[k], a) EXCEPT !.key = k])
    /\ UNCHANGED <<tables, chals, live, host, wire, signed, stray>>

\* The account is inserted (uq_pa_server_user_active), then the key is pushed.
OnboardPush(w) ==
    /\ pc[w] = "begun" /\ job[w].kind = "onboard"
    /\ account[job[w].acct] = "absent"
    /\ \A v \in Request : ~(job[v].kind = "onboard" /\ job[v].acct = job[w].acct
                            /\ pc[v] \in {"wait", "ok", "failed"})
    /\ Call(w, "push", job[w].acct, job[w].key)
    /\ UNCHANGED <<tables, chals, live, host, job, signed, stray>>

\* Inventory row and declared link, whatever came of the push.
OnboardDone(w) ==
    /\ pc[w] \in {"ok", "failed"} /\ job[w].kind = "onboard"
    /\ ~UserLocked(job[w].user)
    /\ Len(links) < MaxLinks
    /\ account' = [account EXCEPT ![job[w].acct] = "active"]
    /\ entry' = [entry EXCEPT ![job[w].acct][job[w].key] =
                    IF pc[w] = "ok" THEN "active" ELSE "inactive"]
    /\ links' = Append(links, [user |-> job[w].user, acct |-> job[w].acct,
                               source |-> "admin_declared", chal |-> 0, active |-> TRUE])
    /\ End(w)
    /\ UNCHANGED <<active, key, reqs, chals, live, host, wire, signed, stray>>

\* retry_authorized_key_push of a row that is not active.
Repush(w, a, k) ==
    /\ entry[a][k] = "inactive" /\ key[k] = "active"
    /\ pc[w] = "new"
    /\ job' = [job EXCEPT ![w] = [NewJob("repush", Owner[k], a) EXCEPT !.key = k, !.had = "inactive"]]
    /\ Call(w, "push", a, k)
    /\ UNCHANGED <<tables, chals, live, host, signed, stray>>

-----------------------------------------------------------------------------
Init ==
    /\ active = [u \in User |-> TRUE]
    /\ account \in [Account -> {"absent", "active"}]
    /\ key = [k \in Key |-> "absent"]
    /\ links = <<>>
    /\ reqs \in {<<>>, Backlog}
    /\ \A r \in DOMAIN reqs : account[reqs[r].acct] = "active"
    /\ entry = [a \in Account |-> [k \in Key |-> "none"]]
    /\ chals = <<>> /\ live = {}
    /\ host \in [Account -> SUBSET Key]
    /\ wire = <<>>
    /\ pc = [w \in Request |-> "new"]
    /\ job \in [Request -> {NewJob("none", u, a) : u \in User, a \in Account}]
    /\ \A v, w \in Request : job[v] = job[w]
    /\ signed = {}
    /\ stray = {p \in Account \X Key : p[2] \in host[p[1]]}

LinkRequests(w) ==
    \/ \E u \in User, a \in Account : CreateRequest(w, u, a)
    \/ \E kind \in {"approve", "retry"}, r \in DOMAIN reqs, k \in Key : Decide(w, kind, r, k)
    \/ InsertRequest(w) \/ LockRequest(w) \/ ApproveDone(w) \/ RetryDone(w)

ClaimsOf(w) ==
    \/ \E u \in User, c \in live, k \in Key, i \in 0..Len(links) : Verify(w, u, c, k, i)
    \/ \E l \in DOMAIN links, c \in live, k \in Key, i \in 0..Len(links) : Upgrade(w, l, c, k, i)
    \/ \E u \in User, a \in Account, i \in 0..Len(links) : TryPassword(w, u, a, i) \/ Declare(w, u, a, i)
    \/ Establish(w) \/ UpgradeDone(w) \/ ClaimRefused(w)

Revocations(w) ==
    \/ \E l \in DOMAIN links, b \in BOOLEAN : Revoke(w, l, b)
    \/ \E u \in User, a \in Account : DisableUser(w, u, a)
    \/ \E l \in job[w].left : RevokeLink(w, l)
    \/ \E p \in job[w].todo : RevokeKey(w, p)
    \/ LockUser(w) \/ RevokeNext(w) \/ RevokeDone(w)

Onboarding(w) ==
    \/ \E a \in Account, k \in Key : Onboard(w, a, k) \/ Repush(w, a, k)
    \/ OnboardPush(w) \/ OnboardDone(w)

Next ==
    \/ \E w \in Request : \/ LinkRequests(w) \/ ClaimsOf(w) \/ Revocations(w) \/ Onboarding(w)
                          \/ Timeout(w) \/ RollBack(w)
    \/ \E r \in DOMAIN reqs, s \in {"denied", "withdrawn"} : Resolve(r, s)
    \/ \E u \in User, a \in Account, k \in Key : Mint(u, a, k)
    \/ \E c \in live : Expire(c)
    \/ \E u \in User : Reactivate(u)
    \/ \E a \in Account : CreateAccount(a) \/ DeleteAccount(a)
    \/ \E k \in Key : AddKey(k) \/ RemoveKey(k)
    \/ Serve \/ Lose

Spec == Init /\ [][Next]_vars

-----------------------------------------------------------------------------
(* Properties *)

\* Rows carry the values their check constraints allow, requests and frames
\* keep their shape.
TypeOK ==
    /\ active \in [User -> BOOLEAN]
    /\ account \in [Account -> {"absent", "active", "deleted"}]
    /\ key \in [Key -> {"absent", "active", "removed"}]
    /\ links \in Seq(Link) /\ reqs \in Seq(ReqRow)
    /\ entry \in [Account -> [Key -> Entry]]
    /\ chals \in Seq(Challenge) /\ live \subseteq DOMAIN chals
    /\ host \in [Account -> SUBSET Key]
    /\ wire \in Seq(Message)
    /\ pc \in [Request -> {"new", "begun", "work", "wait", "ok", "failed", "done"}]
    /\ job \in [Request -> Job]
    /\ signed \subseteq Nat
    /\ stray \subseteq Account \X Key

\* A link that claims a challenge rests on one that the same user minted for the
\* same account, whose signature the agent accepted, and that no other link
\* uses: however verify and upgrade requests for one challenge overlap.
LinkIsProven ==
    \A i \in DOMAIN links : links[i].source = "ssh_challenge" =>
        LET c == links[i].chal IN
        /\ c \in signed \cap DOMAIN chals
        /\ chals[c] = [user |-> links[i].user, acct |-> links[i].acct]
        /\ \A j \in DOMAIN links \ {i} : links[j].source = "ssh_challenge" => links[j].chal # c

\* A decision on a link request is final: an approval that waited for the agent
\* never overwrites a denial or a withdrawal that came in between.
DecisionIsFinal ==
    [][\A r \in DOMAIN reqs : reqs[r].status # "pending" => reqs'[r] = reqs[r]]_vars

\* Request w is in the middle of pushing key k to account a.
Pushing(w, a, k) == job[w].kind \in Pushes /\ job[w].acct = a /\ job[w].key = k
                    /\ pc[w] \in {"wait", "ok"}

\* A key the platform has put into an authorized_keys file has its row in the
\* inventory, unless its last push was cut short: whatever pushes, retries and
\* revocations of one key overlap, and whichever of them is rolled back.
PushedIsTracked ==
    \A a \in Account, k \in Key : k \in host[a] =>
        \/ entry[a][k] # "none"
        \/ <<a, k>> \in stray
        \/ \E w \in Request : Pushing(w, a, k)

=============================================================================
