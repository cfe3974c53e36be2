---------------------------- MODULE LabIdentity ----------------------------
(***************************************************************************)
(* Who belongs to the lab and who runs it: first-run setup, registration   *)
(* invites, setup tokens (activation and password reset links), roles and  *)
(* the rule that one active lab_admin must remain (setup_service,          *)
(* auth_service, user_service and their routes).                           *)
(*                                                                         *)
(* Each member of Request is one HTTP request in a transaction of its own. *)
(* The first query (get_current_user, or the look-up of the token) fixes   *)
(* the snapshot, so what the request will find is worked out when it       *)
(* arrives; FOR UPDATE reads see what is committed and wait for row locks. *)
(* An UPDATE writes the columns whose new value differs from the one that  *)
(* was read, whatever the row holds by then.                               *)
(*                                                                         *)
(* Abstractions.  A password is set or NULL.  Names, e-mails and SSH keys  *)
(* given at registration are left out: a refusal because of them, like a   *)
(* deadlock or a lost database, is Fail.  What disable_user revokes is     *)
(* AccountAccess.  Audit rows are left out, and with them the shared lock  *)
(* that their foreign keys take on the actor's row.                        *)
(***************************************************************************)
EXTENDS Naturals, FiniteSets

CONSTANTS
    User,      \* user rows, by (lab, username)
    Slug,      \* lab slugs
    Invite,    \* registration_invite rows, by id
    Token,     \* setup_token rows, by id
    Request,   \* HTTP requests
    None,      \* NULL
    Founders   \* the user table of a lab that is already running

Role == {"user", "lab_admin"}
Row == [lab : Slug \cup {None}, role : Role, active : BOOLEAN, password : BOOLEAN,
        via : Invite \cup {None}]
NoRow == [lab |-> None, role |-> "user", active |-> FALSE, password |-> FALSE, via |-> None]

Labs(table) == {table[u].lab : u \in User} \ {None}
AdminsIn(table, l) == {u \in User : table[u].lab = l /\ table[u].active /\ table[u].role = "lab_admin"}

ASSUME IdentityAssumption ==
    /\ None \notin User \cup Slug \cup Invite \cup Token
    /\ Founders \in [User -> Row]
    /\ \A u \in User : Founders[u].via = None
    /\ \A l \in Labs(Founders) : AdminsIn(Founders, l) # {}

VARIABLES
    labs,     \* the slugs of the lab table
    users,    \* the user table
    invites,  \* the registration_invite table
    tokens,   \* the setup_token table
    pc, job,  \* where each request is, and what it has in hand
    stale     \* history: users disabled without the last-admin check although
              \* they were admins by then

vars == <<labs, users, invites, tokens, pc, job, stale>>
tables == <<labs, users, invites, tokens, stale>>

\* used_at and used_by_user_id: a revoked invite is closed and used by nobody.
InviteRow == [state : {"absent", "open", "expired", "closed"}, role : Role, lab : Slug \cup {None},
              usedBy : User \cup {None}]
\* beside: history, the token was asked for while another issue for the same
\* user was in flight.
TokenRow == [state : {"absent", "live", "expired", "used"}, user : User \cup {None},
             purpose : {"activation", "password_reset"}, beside : BOOLEAN]

Removals == {"demote", "disable"}
Kind == Removals \cup {"promote", "reactivate", "issue", "activate", "register", "revoke", "setup", "none"}

\* seen: the target's row as the snapshot shows it; locked: the user rows the
\* transaction has locked; prior: the unused tokens it has read; beside: as in
\* TokenRow.
Job == [kind : Kind, lab : Slug \cup {None}, who : User \cup {None}, seen : Row, checked : BOOLEAN,
        locked : SUBSET User, invite : Invite \cup {None}, token : Token \cup {None},
        purpose : {"activation", "password_reset"}, prior : SUBSET Token,
        beside : BOOLEAN]

NewJob(kind, l, u) ==
    [kind |-> kind, lab |-> l, who |-> u, seen |-> IF u \in User THEN users[u] ELSE NoRow,
     checked |-> FALSE, locked |-> {}, invite |-> None, token |-> None,
     purpose |-> "activation", prior |-> {}, beside |-> FALSE]

-----------------------------------------------------------------------------
(* Queries and locks *)

\* get_current_user and require_role("lab_admin"): the caller's row decides,
\* not the role in the access token.
RequireAdmin(a) == users[a].lab # None /\ users[a].active /\ users[a].role = "lab_admin"

\* get_user: the target exists in the caller's lab.
SameLab(a, u) == users[u].lab = users[a].lab

UnusedTokens(u) == {t \in Token : tokens[t].user = u /\ tokens[t].state \in {"live", "expired"}}

\* No other transaction holds a lock on any of these user rows.
Free(w, rows) == \A v \in Request \ {w} : job[v].locked \cap rows = {}

\* No revocation is about to close this invite.
InviteFree(i) == \A v \in Request : ~(pc[v] = "commit" /\ job[v].kind = "revoke" /\ job[v].invite = i)

-----------------------------------------------------------------------------
(* Requests *)

Arrive(w, j, next) ==
    /\ pc[w] = "new"
    /\ pc' = [pc EXCEPT ![w] = next]
    /\ job' = [job EXCEPT ![w] = j]
    /\ UNCHANGED tables

End(w) ==
    /\ pc' = [pc EXCEPT ![w] = "done"]
    /\ job' = [job EXCEPT ![w] = NewJob("none", None, None)]

\* change_role: nobody changes their own role; taking lab_admin away from a
\* user who has it, as far as the snapshot knows, needs the check.
ChangeRole(w, a, u, r) ==
    /\ RequireAdmin(a) /\ a # u /\ SameLab(a, u)
    /\ Arrive(w, NewJob(IF r = "user" THEN "demote" ELSE "promote", users[a].lab, u),
              IF users[u].role = "lab_admin" /\ r = "user" THEN "check" ELSE "write")

\* disable_user: the same for an active admin.
DisableUser(w, a, u) ==
    /\ RequireAdmin(a) /\ a # u /\ SameLab(a, u)
    /\ Arrive(w, NewJob("disable", users[a].lab, u),
              IF users[u].active /\ users[u].role = "lab_admin" THEN "check" ELSE "write")

\* reactivate_user: nothing to do for an active user.
ReactivateUser(w, a, u) ==
    /\ RequireAdmin(a) /\ SameLab(a, u)
    /\ ~users[u].active
    /\ Arrive(w, NewJob("reactivate", users[a].lab, u), "write")

\* Mutation: the plain COUNT that the comment in the code warns of.
CountAdmins(w) ==
    /\ pc[w] = "check"
    /\ IF AdminsIn(users, job[w].lab) \ {job[w].who} = {}
       THEN End(w)
       ELSE /\ job' = [job EXCEPT ![w].checked = TRUE]
            /\ pc' = [pc EXCEPT ![w] = "write"]
    /\ UNCHANGED tables

\* _ensure_at_least_one_active_admin: lock the active admins of the lab, as
\* they are committed, and refuse if the target is the only one.
EnsureAdminRemains(w) ==
    LET admins == AdminsIn(users, job[w].lab)
    IN  /\ pc[w] = "check"
        /\ Free(w, admins)
        /\ IF admins \ {job[w].who} = {}
           THEN End(w)
           ELSE /\ job' = [job EXCEPT ![w].checked = TRUE, ![w].locked = admins]
                /\ pc' = [pc EXCEPT ![w] = "write"]
        /\ UNCHANGED tables

\* Does the flush emit an UPDATE of the target's row?
Changes(j) ==
    CASE j.kind = "demote"     -> j.seen.role = "lab_admin"
      [] j.kind = "promote"    -> j.seen.role = "user"
      [] j.kind = "disable"    -> j.seen.active
      [] j.kind = "reactivate" -> ~j.seen.active
      [] OTHER -> FALSE

\* session.flush: the UPDATE waits for the row and keeps it locked.  A disable
\* then waits for agents (_cascade_revoke_access) before it commits.
FlushUser(w) ==
    LET j == job[w]
    IN  /\ pc[w] = "write"
        /\ Changes(j) => Free(w, {j.who})
        /\ job' = [job EXCEPT ![w].locked = IF Changes(j) THEN @ \cup {j.who} ELSE @]
        /\ pc' = [pc EXCEPT ![w] = "commit"]
        /\ UNCHANGED tables

\* The row once the column that changed is written.
Updated(row, kind) ==
    CASE kind = "demote"     -> [row EXCEPT !.role = "user"]
      [] kind = "promote"    -> [row EXCEPT !.role = "lab_admin"]
      [] kind = "disable"    -> [row EXCEPT !.active = FALSE]
      [] kind = "reactivate" -> [row EXCEPT !.active = TRUE]
      [] OTHER -> row

CommitUser(w) ==
    LET j == job[w]
    IN  /\ pc[w] = "commit" /\ j.kind \in Removals \cup {"promote", "reactivate"}
        /\ users' = IF Changes(j) THEN [users EXCEPT ![j.who] = Updated(@, j.kind)] ELSE users
        /\ stale' = IF Changes(j) /\ j.kind \in Removals /\ ~j.checked /\ users[j.who].role = "lab_admin"
                    THEN stale \cup {j.who} ELSE stale
        /\ End(w)
        /\ UNCHANGED <<labs, invites, tokens>>

-----------------------------------------------------------------------------
(* Setup tokens *)

\* A request that has read the unused tokens of u and not committed yet.
Issuing(w, u) == pc[w] = "commit" /\ job[w].kind = "issue" /\ job[w].who = u

\* The unused tokens of the user are read, to be invalidated.
IssueSetupToken(w, a, u, purpose) ==
    /\ RequireAdmin(a) /\ SameLab(a, u)
    /\ Arrive(w, [NewJob("issue", users[a].lab, u) EXCEPT !.purpose = purpose, !.prior = UnusedTokens(u),
                                                         !.beside = \E v \in Request : Issuing(v, u)],
              "commit")

\* issue_password_reset, for a user who has a password, and resend_invite, for
\* one who has none.
PasswordReset(w, a, u) == users[u].password /\ IssueSetupToken(w, a, u, "password_reset")
ResendInvite(w, a, u) == ~users[u].password /\ IssueSetupToken(w, a, u, "activation")

\* Mutation: the earlier tokens are not invalidated.
IssueOnly(w, t) ==
    LET j == job[w]
    IN  /\ pc[w] = "commit" /\ j.kind = "issue"
        /\ tokens[t].state = "absent"
        /\ tokens' = [tokens EXCEPT ![t] = [state |-> "live", user |-> j.who, purpose |-> j.purpose,
                                            beside |-> j.beside]]
        /\ End(w)
        /\ UNCHANGED <<labs, users, invites, stale>>

\* issue_setup_token: the unused tokens that were read get used_at, a new one
\* is inserted.
CommitIssue(w, t) ==
    LET j == job[w]
    IN  /\ pc[w] = "commit" /\ j.kind = "issue"
        /\ tokens[t].state = "absent"
        /\ tokens' = [s \in Token |->
                          IF s = t THEN [state |-> "live", user |-> j.who, purpose |-> j.purpose, beside |-> j.beside]
                          ELSE IF s \in j.prior THEN [tokens[s] EXCEPT !.state = "used"]
                          ELSE tokens[s]]
        /\ End(w)
        /\ UNCHANGED <<labs, users, invites, stale>>

\* activate with a setup token: lookup_active_token reads it without a lock.
Activate(w, t) ==
    /\ tokens[t].state = "live"
    /\ tokens[t].purpose = "activation" => ~users[tokens[t].user].password
    /\ Arrive(w, [NewJob("activate", users[tokens[t].user].lab, tokens[t].user) EXCEPT !.token = t], "commit")

CommitActivate(w) ==
    LET j == job[w]
    IN  /\ pc[w] = "commit" /\ j.kind = "activate"
        /\ Free(w, {j.who})
        /\ users' = [users EXCEPT ![j.who].password = TRUE]
        /\ tokens' = [tokens EXCEPT ![j.token].state = "used"]
        /\ End(w)
        /\ UNCHANGED <<labs, invites, stale>>

-----------------------------------------------------------------------------
(* Registration invites *)

\* issue_registration_invite, from either of the two routes.
IssueInvite(a, i, r) ==
    /\ RequireAdmin(a)
    /\ invites[i].state = "absent"
    /\ invites' = [invites EXCEPT ![i] = [state |-> "open", role |-> r, lab |-> users[a].lab, usedBy |-> None]]
    /\ UNCHANGED <<labs, users, tokens, pc, job, stale>>

\* activate with an invite: lookup_active_registration_invite does not lock it,
\* and the name must be new to the lab.
Register(w, i, u) ==
    /\ invites[i].state = "open"
    /\ users[u] = NoRow
    /\ Arrive(w, [NewJob("register", invites[i].lab, u) EXCEPT !.invite = i, !.seen.role = invites[i].role],
              "commit")

\* _complete_registration_invite: the unique name decides, then the invite is
\* stamped.
CommitRegister(w) ==
    LET j == job[w]
    IN  /\ pc[w] = "commit" /\ j.kind = "register"
        /\ InviteFree(j.invite)
        /\ IF users[j.who] = NoRow
           THEN /\ users' = [users EXCEPT ![j.who] = [lab |-> j.lab, role |-> j.seen.role, active |-> TRUE,
                                                      password |-> TRUE, via |-> j.invite]]
                /\ invites' = [invites EXCEPT ![j.invite].state = "closed", ![j.invite].usedBy = j.who]
           ELSE UNCHANGED <<users, invites>>
        /\ End(w)
        /\ UNCHANGED <<labs, tokens, stale>>

\* revoke_registration_invite: FOR UPDATE, so it sees the invite as committed.
RevokeInvite(w, a, i) ==
    /\ RequireAdmin(a)
    /\ users[a].lab = invites[i].lab
    /\ Arrive(w, [NewJob("revoke", users[a].lab, None) EXCEPT !.invite = i], "lock")

\* Mutation: the status is not read again under the lock.
LockUnread(w) ==
    /\ pc[w] = "lock"
    /\ InviteFree(job[w].invite)
    /\ pc' = [pc EXCEPT ![w] = "commit"]
    /\ UNCHANGED job
    /\ UNCHANGED tables

LockInvite(w) ==
    /\ pc[w] = "lock"
    /\ InviteFree(job[w].invite)
    /\ IF invites[job[w].invite].state = "open"
       THEN pc' = [pc EXCEPT ![w] = "commit"] /\ UNCHANGED job
       ELSE End(w)
    /\ UNCHANGED tables

\* Mutation: the revocation stamps a status the column does not have.
RevokeMisspelt(w) ==
    /\ pc[w] = "commit" /\ job[w].kind = "revoke"
    /\ invites' = [invites EXCEPT ![job[w].invite].state = "revoked"]
    /\ End(w)
    /\ UNCHANGED <<labs, users, tokens, stale>>

CommitRevoke(w) ==
    LET j == job[w]
    IN  /\ pc[w] = "commit" /\ j.kind = "revoke"
        /\ invites' = [invites EXCEPT ![j.invite].state = "closed", ![j.invite].usedBy = None]
        /\ End(w)
        /\ UNCHANGED <<labs, users, tokens, stale>>

-----------------------------------------------------------------------------
(* First-run setup, time and failures *)

\* initialize: is_initialized counts the labs of the snapshot.
Setup(w, l, u) ==
    /\ labs = {}
    /\ users[u] = NoRow
    /\ Arrive(w, NewJob("setup", l, u), "commit")

\* The slug is unique; the lab and its admin are one transaction.
CommitSetup(w) ==
    LET j == job[w]
    IN  /\ pc[w] = "commit" /\ j.kind = "setup"
        /\ IF j.lab \notin labs /\ users[j.who] = NoRow
           THEN /\ labs' = labs \cup {j.lab}
                /\ users' = [users EXCEPT ![j.who] = [lab |-> j.lab, role |-> "lab_admin", active |-> TRUE,
                                                      password |-> TRUE, via |-> None]]
           ELSE UNCHANGED <<labs, users>>
        /\ End(w)
        /\ UNCHANGED <<invites, tokens, stale>>

Expire ==
    /\ \/ \E t \in Token : /\ tokens[t].state = "live"
                           /\ tokens' = [tokens EXCEPT ![t].state = "expired"]
                           /\ UNCHANGED invites
       \/ \E i \in Invite : /\ invites[i].state = "open"
                            /\ invites' = [invites EXCEPT ![i].state = "expired"]
                            /\ UNCHANGED tokens
    /\ UNCHANGED <<labs, users, pc, job, stale>>

\* get_session rolls back: a refusal, a deadlock victim, a lost connection.
Fail(w) ==
    /\ pc[w] \notin {"new", "done"}
    /\ End(w)
    /\ UNCHANGED tables

-----------------------------------------------------------------------------
Init ==
    /\ \/ users = Founders /\ labs = Labs(Founders)
       \/ users = [u \in User |-> NoRow] /\ labs = {}
    /\ invites = [i \in Invite |-> [state |-> "absent", role |-> "user", lab |-> None, usedBy |-> None]]
    /\ tokens = [t \in Token |-> [state |-> "absent", user |-> None, purpose |-> "activation", beside |-> FALSE]]
    /\ pc = [w \in Request |-> "new"]
    /\ job = [w \in Request |-> NewJob("none", None, None)]
    /\ stale = {}

Begin(w) ==
    \/ \E a, u \in User :
           \/ \E r \in Role : ChangeRole(w, a, u, r)
           \/ DisableUser(w, a, u)
           \/ ReactivateUser(w, a, u)
           \/ PasswordReset(w, a, u) \/ ResendInvite(w, a, u)
    \/ \E t \in Token : Activate(w, t)
    \/ \E i \in Invite, u \in User : Register(w, i, u) \/ RevokeInvite(w, u, i)
    \/ \E l \in Slug, u \in User : Setup(w, l, u)

Proceed(w) ==
    \/ EnsureAdminRemains(w) \/ FlushUser(w) \/ CommitUser(w)
    \/ \E t \in Token : CommitIssue(w, t)
    \/ CommitActivate(w) \/ CommitRegister(w)
    \/ LockInvite(w) \/ CommitRevoke(w) \/ CommitSetup(w)

Next ==
    \/ \E w \in Request : Begin(w) \/ Proceed(w) \/ Fail(w)
    \/ \E a \in User, i \in Invite, r \in Role : IssueInvite(a, i, r)
    \/ Expire

Spec == Init /\ [][Next]_vars

-----------------------------------------------------------------------------
(* Properties *)

\* The columns and the state of the requests keep their types.
TypeOK ==
    /\ labs \subseteq Slug
    /\ users \in [User -> Row]
    /\ invites \in [Invite -> InviteRow]
    /\ tokens \in [Token -> TokenRow]
    /\ pc \in [Request -> {"new", "check", "write", "lock", "commit", "done"}]
    /\ job \in [Request -> Job]
    /\ stale \subseteq User

\* _ensure_at_least_one_active_admin does what it is for: demotions and
\* disablings that overlap never leave a lab without an active lab_admin.  The
\* one way around it is a removal that skipped the check because its snapshot
\* showed the target as somebody it need not check.
AdminRemains == \A l \in labs : AdminsIn(users, l) # {} \/ \E u \in stale : users[u].lab = l

\* issue_setup_token: "single live token per user at a time", through resets,
\* activations, expiry and requests that fail.  Nothing in the code keeps two
\* issues apart, so the exception is a token that was asked for while another
\* issue for the user was in flight: neither of the two kills the other's.
SingleLiveToken ==
    \A s, t \in Token :
        /\ s # t /\ tokens[s].user = tokens[t].user
        /\ tokens[s].state = "live" /\ tokens[t].state = "live"
        => tokens[s].beside \/ tokens[t].beside

\* _invite_status: "used" names a user who registered through this invite, and
\* an invite that is open, expired or revoked let nobody in, although
\* registrations and revocations of it overlap.
InviteStatusTells ==
    \A i \in Invite :
        /\ invites[i].usedBy # None => invites[i].state = "closed" /\ users[invites[i].usedBy].via = i
        /\ invites[i].usedBy = None => \A u \in User : users[u].via # i
=============================================================================
