------------------------------ MODULE Accounts ------------------------------
(***************************************************************************)
(* Accounts, roles, passwords, tokens and recovery codes: UserService.cpp, *)
(* the handlers of AuthController.cpp and AdminController.cpp that call    *)
(* it, the verification of JwtMiddleware.cpp and the rotation of the       *)
(* signing secret (ConfigService.cpp).                                     *)
(*                                                                         *)
(* One SQLite connection is shared and a statement or a transaction keeps  *)
(* its lock to its destructor, so each call into UserService is one step.  *)
(* A handler that makes several calls, or that relies on what the          *)
(* middleware read before it, is several steps (request).  An account is   *)
(* a row of users; ids are never reused.  An access token is its claims    *)
(* and the key it was signed with: password hash, auth_version and secret. *)
(* A recovery code can be had at any time, so whether one exists is not    *)
(* kept.  Quotas and the files of a deleted account are not here.          *)
(***************************************************************************)
EXTENDS Naturals, FiniteSets

CONSTANTS
  Users,          \* ids of accounts
  Sessions,       \* sessions: a refresh token and those that replace it
  Requests,       \* handlers running concurrently
  Modes,          \* registration modes in use
  MaxChanges,     \* bound on changes of signing keys
  MaxTokens,      \* bound on outstanding access tokens
  None

ASSUME ConstantsAssumption ==
  /\ Modes \subseteq {"open", "approval", "closed"}
  /\ MaxChanges \in Nat /\ MaxTokens \in Nat
  /\ None \notin Users

VARIABLES
  status, role, recovery,   \* users.status, role, password_reset_required
  hash, version,            \* users.password_hash and auth_version
  refresh,                  \* each session's row of refresh_tokens, while it is
                            \* neither revoked nor expired
  access,                   \* access and synchronisation tokens handed out
  heir,                     \* account_deletions: user_id to recipient_user_id
  request,                  \* where each handler is
  secret, saved,            \* jwt_secret in memory and in the saved configuration
  revocations,              \* how often the sessions of an account were revoked
  changes                   \* changes of signing keys so far

accountVars == <<status, role, recovery>>
tokenVars == <<refresh, access>>
secretVars == <<secret, saved>>
vars == <<accountVars, hash, version, tokenVars, heir, request,
          secretVars, revocations, changes>>

Roles == {"user", "admin", "superuser"}
Statuses == {"none", "pending", "active", "blocked", "deleting", "gone"}
RefreshTokens == [user : Users, since : Nat]
AccessTokens ==
  [user : Users, kind : {"session", "sync"}, hash : Nat, version : Nat,
   secret : Nat, since : Nat]
Idle == [pc |-> "idle", user |-> None]
RequestStates == [pc : {"login", "claims", "revoke"}, user : Users] \cup {Idle}

TypeOK ==
  /\ status \in [Users -> Statuses]
  /\ role \in [Users -> Roles]
  /\ recovery \in [Users -> BOOLEAN]
  /\ hash \in [Users -> Nat] /\ version \in [Users -> Nat]
  /\ refresh \in [Sessions -> RefreshTokens \cup {None}]
  /\ access \subseteq AccessTokens
  /\ heir \in [Users -> Users \cup {None}]
  /\ request \in [Requests -> RequestStates]
  /\ secret \in Nat /\ saved \in Nat
  /\ revocations \in [Users -> Nat]
  /\ changes \in Nat

Present(u) == status[u] \notin {"none", "gone"}

\* What tokenSigningKey, authenticate's callers and every role check ask for.
Usable(u) == status[u] = "active" /\ ~recovery[u]

UsableAdmin(u) == Usable(u) /\ role[u] \in {"admin", "superuser"}

\* Variant: an administrator in recovery counts as one that is left.
IgnoresRecovery(u) ==
  UsableAdmin(u) /\ \A v \in Users \ {u} :
    ~(status[v] = "active" /\ role[v] \in {"admin", "superuser"})

IsLastActiveAdmin(u) ==
  UsableAdmin(u) /\ \A v \in Users \ {u} : ~UsableAdmin(v)

Budget == changes < MaxChanges

Counted == changes' = changes + 1

Room == Cardinality(access) < MaxTokens

\* The token makeAccessToken or makeSyncToken would sign now.
Signed(u, kind) ==
  [user |-> u, kind |-> kind, hash |-> hash[u], version |-> version[u],
   secret |-> secret, since |-> revocations[u]]

\* verifyAccessToken: the account is usable and the signature still matches.
Honoured(t) ==
  /\ Usable(t.user)
  /\ <<t.hash, t.version, t.secret>> = <<hash[t.user], version[t.user], secret>>

\* A fresh database, or one from before administration, whose accounts have
\* legacy hashes; the migrations make its earliest account the superuser.
Init ==
  /\ \/ /\ status = [u \in Users |-> "none"]
        /\ role = [u \in Users |-> "user"]
     \/ \E first \in Users : \E others \in SUBSET (Users \ {first}) :
          /\ status = [u \in Users |->
               IF u \in others \cup {first} THEN "active" ELSE "none"]
          /\ role \in [Users -> Roles]
          /\ \A u \in Users :
               role[u] \in IF u = first THEN {"superuser"}
                           ELSE IF u \in others THEN {"admin", "user"}
                           ELSE {"user"}
  /\ recovery = [u \in Users |-> FALSE]
  /\ hash = [u \in Users |-> 0] /\ version = [u \in Users |-> 0]
  /\ refresh = [s \in Sessions |-> None] /\ access = {}
  /\ heir = [u \in Users |-> None]
  /\ request = [r \in Requests |-> Idle]
  /\ secret = 0 /\ saved = 0
  /\ revocations = [u \in Users |-> 0] /\ changes = 0

-----------------------------------------------------------------------------
(* What revokes sessions.                                                   *)

\* revokeAllRefreshTokens
WithoutTokensOf(us) ==
  [s \in Sessions |->
     IF refresh[s] # None /\ refresh[s].user \in us THEN None ELSE refresh[s]]

\* Variant: only the refresh tokens are revoked.
RevokeRefreshOnly(us) ==
  /\ version' = version
  /\ refresh' = WithoutTokensOf(us)
  /\ revocations' =
       [u \in Users |-> IF u \in us THEN revocations[u] + 1 ELSE revocations[u]]
  /\ Counted

\* The sessions of the accounts us are revoked: their refresh tokens, and by
\* the new auth_version every access and synchronisation token.
Revoke(us) ==
  /\ version' = [u \in Users |-> IF u \in us THEN version[u] + 1 ELSE version[u]]
  /\ refresh' = WithoutTokensOf(us)
  /\ revocations' =
       [u \in Users |-> IF u \in us THEN revocations[u] + 1 ELSE revocations[u]]
  /\ Counted

-----------------------------------------------------------------------------
(* Registration, sign-in and tokens.                                        *)

Enter(r, pc, u) ==
  /\ request[r] = Idle
  /\ request' = [request EXCEPT ![r] = [pc |-> pc, user |-> u]]

\* Variant: the handler is cleared in part.
LeaveHalf(r) == request' = [request EXCEPT ![r].user = None]

Leave(r) == request' = [request EXCEPT ![r] = Idle]

\* registerUser; an active account goes on to issueTokens, as at sign-in.
Register(r, u, mode) ==
  LET first == \A v \in Users : ~Present(v) IN
  /\ status[u] = "none"
  /\ first \/ mode # "closed"
  /\ status' = [status EXCEPT
       ![u] = IF first \/ mode = "open" THEN "active" ELSE "pending"]
  /\ role' = [role EXCEPT ![u] = IF first THEN "superuser" ELSE "user"]
  /\ hash' = [hash EXCEPT ![u] = 1]
  /\ IF status'[u] = "active" THEN Enter(r, "login", u) ELSE UNCHANGED request
  /\ UNCHANGED <<recovery, version, tokenVars, heir, secretVars,
                 revocations, changes>>

\* login up to issueTokens: authenticate finds the password right, replaces a
\* legacy hash, and the handler checks the status it read.
Authenticate(r, u) ==
  /\ Present(u)
  /\ IF Usable(u) THEN Enter(r, "login", u) ELSE UNCHANGED request
  /\ hash' = [hash EXCEPT ![u] = IF hash[u] = 0 THEN 1 ELSE hash[u]]
  /\ UNCHANGED <<accountVars, version, tokenVars, heir, secretVars,
                 revocations, changes>>

\* issueTokens; it throws when the account stopped being usable meanwhile.
IssueTokens(r, s) ==
  LET u == request[r].user IN
  /\ request[r].pc = "login" /\ Leave(r)
  /\ IF Usable(u)
       THEN /\ refresh[s] = None /\ Room
            /\ refresh' = [refresh EXCEPT
                 ![s] = [user |-> u, since |-> revocations[u]]]
            /\ access' = access \cup {Signed(u, "session")}
       ELSE UNCHANGED tokenVars
  /\ UNCHANGED <<accountVars, hash, version, heir, secretVars,
                 revocations, changes>>

\* refreshAccessToken: the session goes on with a new refresh token.
Refresh(s) ==
  /\ refresh[s] # None /\ Usable(refresh[s].user) /\ Room
  /\ LET u == refresh[s].user IN
     /\ refresh' = [refresh EXCEPT ![s].since = revocations[u]]
     /\ access' = access \cup {Signed(u, "session")}
  /\ UNCHANGED <<accountVars, hash, version, heir, request, secretVars,
                 revocations, changes>>

\* logout, or expires_at has passed.
EndSession(s) ==
  /\ refresh[s] # None
  /\ refresh' = [refresh EXCEPT ![s] = None]
  /\ UNCHANGED <<accountVars, hash, version, access, heir, request,
                 secretVars, revocations, changes>>

ExpireAccess(t) ==
  /\ access' = access \ {t}
  /\ UNCHANGED <<accountVars, hash, version, refresh, heir, request,
                 secretVars, revocations, changes>>

\* JwtMiddleware lets a session's request through; its handler runs later.
Verify(r, t) ==
  /\ Honoured(t) /\ t.kind = "session"
  /\ Enter(r, "claims", t.user)
  /\ UNCHANGED <<accountVars, hash, version, tokenVars, heir, secretVars,
                 revocations, changes>>

\* getSyncToken; makeSyncToken throws when the account is no longer usable.
SyncToken(r) ==
  LET u == request[r].user IN
  /\ request[r].pc = "claims" /\ Leave(r)
  /\ IF Usable(u)
       THEN Room /\ access' = access \cup {Signed(u, "sync")}
       ELSE UNCHANGED access
  /\ UNCHANGED <<accountVars, hash, version, refresh, heir, secretVars,
                 revocations, changes>>

\* changePassword: the account may be blocked by now, or gone.  The process
\* may end between its two statements (cut).
ChangePassword(r, cut) ==
  LET u == request[r].user IN
  /\ request[r].pc = "claims" /\ Budget
  /\ IF cut THEN request' = [q \in Requests |-> Idle] ELSE Leave(r)
  /\ hash' = [hash EXCEPT ![u] = IF Present(u) THEN hash[u] + 1 ELSE hash[u]]
  /\ IF cut \/ ~Present(u)
       THEN UNCHANGED <<refresh, revocations>>
       ELSE /\ refresh' = WithoutTokensOf({u})
            /\ revocations' = [revocations EXCEPT ![u] = @ + 1]
  /\ Counted
  /\ IF cut THEN secret' = saved ELSE UNCHANGED secret
  /\ UNCHANGED <<accountVars, version, access, heir, saved>>

-----------------------------------------------------------------------------
(* Administration.  Each call reads its actor again in its transaction.     *)

\* updateUser with a role or a status, or both; a quota is not modelled.
MayUpdate(actor, u, newRole, newStatus) ==
  /\ UsableAdmin(actor)
  /\ status[u] \in {"active", "blocked"}
  /\ role[u] = "superuser" => actor = u
  /\ newRole # role[u] =>
       /\ role[u] # "superuser" /\ newRole \in {"admin", "user"}
       /\ role[u] = "admin" => role[actor] = "superuser"
  /\ newStatus \in {"active", "blocked"}
  /\ newStatus = "blocked" => actor # u /\ newRole # "superuser"
  /\ newRole \notin {"admin", "superuser"} \/ newStatus # "active"
       => ~IsLastActiveAdmin(u)

\* A patch that leaves the account blocked revokes its sessions again.
UpdateUser(actor, u, newRole, newStatus) ==
  /\ MayUpdate(actor, u, newRole, newStatus)
  /\ role' = [role EXCEPT ![u] = newRole]
  /\ status' = [status EXCEPT ![u] = newStatus]
  /\ IF newStatus = "blocked"
       THEN Budget /\ Revoke({u})
       ELSE UNCHANGED <<version, refresh, revocations, changes>>
  /\ UNCHANGED <<recovery, hash, access, heir, request, secretVars>>

Approve(actor, u) ==
  /\ UsableAdmin(actor) /\ status[u] = "pending"
  /\ status' = [status EXCEPT ![u] = "active"]
  /\ UNCHANGED <<role, recovery, hash, version, tokenVars, heir, request,
                 secretVars, revocations, changes>>

Reject(actor, u) ==
  /\ UsableAdmin(actor) /\ status[u] = "pending"
  /\ status' = [status EXCEPT ![u] = "gone"]
  /\ hash' = [hash EXCEPT ![u] = 0] /\ version' = [version EXCEPT ![u] = 0]
  /\ UNCHANGED <<role, recovery, tokenVars, heir, request,
                 secretVars, revocations, changes>>

\* adminResetPassword
AdminReset(actor, u) ==
  /\ UsableAdmin(actor) /\ Budget
  /\ status[u] \in {"active", "blocked"}
  /\ role[u] = "superuser" => actor = u
  /\ role[u] = "admin" => role[actor] = "superuser"
  /\ ~IsLastActiveAdmin(u)
  /\ recovery' = [recovery EXCEPT ![u] = TRUE]
  /\ Revoke({u})
  /\ UNCHANGED <<status, role, hash, access, heir, request, secretVars>>

\* userAction("revoke-sessions"): requireAdmin, then revokeSessions.
StartRevoke(r, actor, u) ==
  /\ UsableAdmin(actor) /\ Present(u)
  /\ Enter(r, "revoke", u)
  /\ UNCHANGED <<accountVars, hash, version, tokenVars, heir, secretVars,
                 revocations, changes>>

FinishRevoke(r) ==
  /\ request[r].pc = "revoke" /\ Leave(r)
  /\ IF Present(request[r].user)
       THEN Budget /\ Revoke({request[r].user})
       ELSE UNCHANGED <<version, refresh, revocations, changes>>
  /\ UNCHANGED <<accountVars, hash, access, heir, secretVars>>

-----------------------------------------------------------------------------
(* Recovery codes.                                                          *)

\* verifyPasswordReset with the right which requestPasswordReset makes
\* for anybody at any time: a new password, and every session is revoked.  A
\* blocked account stays blocked.
Recover(u) ==
  /\ status[u] \in {"active", "blocked"} /\ Budget
  /\ hash' = [hash EXCEPT ![u] = @ + 1]
  /\ recovery' = [recovery EXCEPT ![u] = FALSE]
  /\ Revoke({u})
  /\ UNCHANGED <<status, role, access, heir, request, secretVars>>

-----------------------------------------------------------------------------
(* Deletion of an account; what happens to its files is AccountDeletion.    *)

\* Variant: superusers are deleted like others.
MayDeleteSuperuser(actor, u) ==
  /\ UsableAdmin(actor) /\ actor # u
  /\ status[u] \in {"active", "blocked"}
  /\ role[u] = "admin" => role[actor] = "superuser"
  /\ ~IsLastActiveAdmin(u)
  /\ \A v \in Users : heir[v] # u

\* Variant: a recipient of files may be deleted.
MayDeleteHeir(actor, u) ==
  /\ UsableAdmin(actor) /\ actor # u
  /\ status[u] \in {"active", "blocked"}
  /\ role[u] # "superuser"
  /\ role[u] = "admin" => role[actor] = "superuser"
  /\ ~IsLastActiveAdmin(u)

MayDelete(actor, u) ==
  /\ UsableAdmin(actor) /\ actor # u
  /\ status[u] \in {"active", "blocked"}
  /\ role[u] # "superuser"
  /\ role[u] = "admin" => role[actor] = "superuser"
  /\ ~IsLastActiveAdmin(u)
  /\ \A v \in Users : heir[v] # u

\* deleteUser up to its commit.
StartDeletion(actor, u) ==
  /\ MayDelete(actor, u) /\ Budget
  /\ heir' = [heir EXCEPT ![u] = actor]
  /\ status' = [status EXCEPT ![u] = "deleting"]
  /\ Revoke({u})
  /\ UNCHANGED <<role, recovery, hash, access, request, secretVars>>

\* deleteAccount: an administrator that was usable when it was picked stands
\* in for the actor.  An account in deletion goes straight to finishDeletion.
DeleteOwnAccount(r, recipient) ==
  LET u == request[r].user IN
  /\ request[r].pc = "claims" /\ Leave(r)
  /\ MayDelete(recipient, u) /\ Budget
  /\ heir' = [heir EXCEPT ![u] = recipient]
  /\ status' = [status EXCEPT ![u] = "deleting"]
  /\ Revoke({u})
  /\ UNCHANGED <<role, recovery, hash, access, secretVars>>

\* The end of finishDeletion, called by a handler, by a retry or at start-up:
\* the row goes, and by ON DELETE CASCADE the tokens.
FinishDeletion(u) ==
  /\ heir[u] # None
  /\ heir' = [heir EXCEPT ![u] = None]
  /\ status' = [status EXCEPT ![u] = "gone"]
  /\ role' = [role EXCEPT ![u] = "user"]
  /\ recovery' = [recovery EXCEPT ![u] = FALSE]
  /\ hash' = [hash EXCEPT ![u] = 0] /\ version' = [version EXCEPT ![u] = 0]
  /\ refresh' = WithoutTokensOf({u})
  /\ UNCHANGED <<access, request, secretVars, revocations, changes>>

-----------------------------------------------------------------------------
(* The signing secret.                                                      *)

\* rotateSigningSecret up to persist(), under configMutex: no handler that
\* took it is half-way.  persist() may fail before or after it replaced the
\* file; the memory keeps the old secret then.
RotateSecret(actor, persisted, failed) ==
  /\ UsableAdmin(actor) /\ role[actor] = "superuser" /\ Budget
  /\ \A r \in Requests : request[r].pc \in {"idle", "claims"}
  /\ Revoke({u \in Users : Present(u)})
  /\ failed \/ persisted
  /\ saved' = IF persisted THEN changes + 1 ELSE saved
  /\ secret' = IF failed THEN secret ELSE changes + 1
  /\ UNCHANGED <<accountVars, hash, access, heir, request>>

\* The process ends and starts again with the saved configuration.
Restart ==
  /\ request' = [r \in Requests |-> Idle]
  /\ secret' = saved
  /\ UNCHANGED <<accountVars, hash, version, tokenVars, heir, saved,
                 revocations, changes>>

Next ==
  \/ \E r \in Requests, u \in Users, mode \in Modes : Register(r, u, mode)
  \/ \E r \in Requests, u \in Users : Authenticate(r, u)
  \/ \E r \in Requests, s \in Sessions : IssueTokens(r, s)
  \/ \E s \in Sessions : Refresh(s)
  \/ \E s \in Sessions : EndSession(s)
  \/ \E t \in access : ExpireAccess(t)
  \/ \E r \in Requests, t \in access : Verify(r, t)
  \/ \E r \in Requests : SyncToken(r)
  \/ \E r \in Requests, cut \in BOOLEAN : ChangePassword(r, cut)
  \/ \E actor, u \in Users, newRole \in Roles, newStatus \in {"active", "blocked"} :
       UpdateUser(actor, u, newRole, newStatus)
  \/ \E actor, u \in Users : Approve(actor, u)
  \/ \E actor, u \in Users : Reject(actor, u)
  \/ \E actor, u \in Users : AdminReset(actor, u)
  \/ \E r \in Requests, actor, u \in Users : StartRevoke(r, actor, u)
  \/ \E r \in Requests : FinishRevoke(r)
  \/ \E u \in Users : Recover(u)
  \/ \E actor, u \in Users : StartDeletion(actor, u)
  \/ \E r \in Requests, recipient \in Users : DeleteOwnAccount(r, recipient)
  \/ \E u \in Users : FinishDeletion(u)
  \/ \E actor \in Users, persisted, failed \in BOOLEAN :
       RotateSecret(actor, persisted, failed)
  \/ Restart

Spec == Init /\ [][Next]_vars

-----------------------------------------------------------------------------
(* Properties.                                                              *)

(* Once somebody registered, some administrator can sign in: no sequence of *)
(* blocking, demotion, recovery and deletion, whoever asks, leaves none     *)
(* (isLastActiveAdmin and the checks around its four uses).                 *)
AdminRemains ==
  (\E u \in Users : status[u] # "none") => \E u \in Users : UsableAdmin(u)

(* There is one superuser from the first registration on, and it is never   *)
(* pending, blocked or in deletion (registerUser, updateUser, deleteUser).  *)
SuperuserStands ==
  LET supers == {u \in Users : Present(u) /\ role[u] = "superuser"} IN
  /\ \A u, v \in supers : u = v
  /\ \A u \in supers : status[u] = "active"
  /\ (\E u \in Users : Present(u)) => supers # {}

(* Revoked sessions stay revoked: a token handed out before a block, a      *)
(* recovery, a new password, a revocation, a deletion or a rotation of the  *)
(* signing secret, even one that failed half-way, is honoured never again,  *)
(* whatever is undone, restarted or repeated later.                         *)
RevokedStaysOut ==
  /\ \A t \in access : Honoured(t) => t.since = revocations[t.user]
  /\ \A s \in Sessions : refresh[s] # None =>
       refresh[s].since = revocations[refresh[s].user]

(* An account is in deletion exactly while its job stands, and the recipient *)
(* of its files is an account that is there to stay until then (the check    *)
(* transfer_in_progress of deleteUser).                                      *)
DeletionHasHeir ==
  \A u \in Users :
    /\ status[u] = "deleting" <=> heir[u] # None
    /\ heir[u] # None => status[heir[u]] \in {"active", "blocked"}
=============================================================================
