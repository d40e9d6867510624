--------------------------- MODULE AccountsProofs ---------------------------
(***************************************************************************)
(* The invariants of Accounts, for any accounts, sessions, handlers and    *)
(* bounds.                                                                 *)
(***************************************************************************)
EXTENDS Accounts, TLAPS

(* Only an account that was active can be in recovery. *)
FreshAccounts ==
  \A u \in Users : status[u] \in {"none", "pending", "gone"} => ~recovery[u]

(* Nobody holds tokens of an account that was never registered, and a       *)
(* token's key is not ahead of its account's.                               *)
TokensFollow ==
  \A t \in access :
    /\ status[t.user] # "none"
    /\ status[t.user] # "gone" =>
         /\ t.hash <= hash[t.user] /\ t.version <= version[t.user]
         /\ t.version = version[t.user] /\ t.hash = hash[t.user] =>
              t.since = revocations[t.user]

RefreshFollows ==
  \A s \in Sessions : refresh[s] # None =>
    refresh[s].since = revocations[refresh[s].user]

(* A sign-in that is half-way belongs to an account that was registered. *)
LoginsAreKnown ==
  \A r \in Requests : request[r] # Idle => status[request[r].user] # "none"

AccountInv == AdminRemains /\ SuperuserStands /\ DeletionHasHeir /\ FreshAccounts

TokenInv == TokensFollow /\ RefreshFollows /\ LoginsAreKnown

-----------------------------------------------------------------------------
(* Types.                                                                   *)

LEMMA RequestTypes ==
  ASSUME TypeOK, NEW r \in Requests
  PROVE  /\ request[r].pc \in {"login", "claims", "revoke"} =>
              request[r] # Idle /\ request[r].user \in Users
         /\ request[r] # Idle => request[r].user \in Users
         /\ request[r] \in RequestStates
<1>1. request[r] \in RequestStates  BY DEF TypeOK
<1>2. CASE request[r] = Idle  BY <1>2, <1>1 DEF Idle
<1>3. CASE request[r] # Idle  BY <1>3, <1>1 DEF RequestStates, Idle
<1> QED  BY <1>2, <1>3

LEMMA EnterTypes ==
  ASSUME TypeOK, NEW r \in Requests, NEW u \in Users,
         NEW pc \in {"login", "claims", "revoke"}, Enter(r, pc, u)
  PROVE  request' \in [Requests -> RequestStates]
  BY DEF TypeOK, Enter, RequestStates

LEMMA LeaveTypes ==
  ASSUME TypeOK, NEW r \in Requests, Leave(r)
  PROVE  request' \in [Requests -> RequestStates]
  BY DEF TypeOK, Leave, RequestStates

LEMMA RevokeTypes ==
  ASSUME TypeOK, NEW us \in SUBSET Users, Revoke(us)
  PROVE  /\ version' \in [Users -> Nat] /\ revocations' \in [Users -> Nat]
         /\ refresh' \in [Sessions -> RefreshTokens \cup {None}]
         /\ changes' \in Nat
  BY DEF TypeOK, Revoke, WithoutTokensOf, Counted

LEMMA WithoutTypes ==
  ASSUME TypeOK, NEW us
  PROVE  WithoutTokensOf(us) \in [Sessions -> RefreshTokens \cup {None}]
  BY DEF TypeOK, WithoutTokensOf

LEMMA SignedType ==
  ASSUME TypeOK, NEW u \in Users, NEW kind \in {"session", "sync"}
  PROVE  /\ Signed(u, kind) \in AccessTokens
         /\ [user |-> u, since |-> revocations[u]] \in RefreshTokens
         /\ Signed(u, kind).user = u /\ Signed(u, kind).since = revocations[u]
         /\ Signed(u, kind).hash = hash[u] /\ Signed(u, kind).version = version[u]
  BY DEF TypeOK, Signed, AccessTokens, RefreshTokens

(* A refresh token is not None: it is a record whose user is an account. *)
LEMMA RefreshTypes ==
  ASSUME TypeOK, NEW s \in Sessions, refresh[s] # None
  PROVE  refresh[s] \in RefreshTokens /\ refresh[s].user \in Users
  BY DEF TypeOK, RefreshTokens

LEMMA TypesPreserved ==
  ASSUME TypeOK, [Next]_vars
  PROVE  TypeOK'
<1> USE DEF accountVars, tokenVars, secretVars
<1>1. ASSUME NEW r \in Requests, NEW u \in Users, NEW mode \in Modes,
             Register(r, u, mode)
      PROVE  TypeOK'
  <2>1. request' \in [Requests -> RequestStates]
    BY <1>1, EnterTypes, LeaveTypes DEF Register, TypeOK
  <2> QED  BY <1>1, <2>1 DEF Register, TypeOK, Statuses, Roles
<1>2. ASSUME NEW r \in Requests, NEW u \in Users, Authenticate(r, u)
      PROVE  TypeOK'
  <2>1. request' \in [Requests -> RequestStates]
    BY <1>2, EnterTypes DEF Authenticate, TypeOK
  <2> QED  BY <1>2, <2>1 DEF Authenticate, TypeOK
<1>3. ASSUME NEW r \in Requests, NEW s \in Sessions, IssueTokens(r, s)
      PROVE  TypeOK'
  <2>1. request' \in [Requests -> RequestStates]
    BY <1>3, LeaveTypes DEF IssueTokens
  <2>2. request[r].user \in Users
    BY <1>3, RequestTypes DEF IssueTokens
  <2>3. /\ refresh' \in [Sessions -> RefreshTokens \cup {None}]
        /\ access' \subseteq AccessTokens
    BY <1>3, <2>2, SignedType DEF IssueTokens, TypeOK
  <2> QED  BY <1>3, <2>1, <2>3 DEF IssueTokens, TypeOK
<1>4. ASSUME NEW s \in Sessions, Refresh(s)  PROVE TypeOK'
  <2>1. refresh[s] \in RefreshTokens /\ refresh[s].user \in Users
    BY <1>4, RefreshTypes DEF Refresh
  <2>2. refresh' \in [Sessions -> RefreshTokens \cup {None}]
    BY <1>4, <2>1 DEF Refresh, TypeOK, RefreshTokens
  <2>3. access' \subseteq AccessTokens
    BY <1>4, <2>1, SignedType DEF Refresh, TypeOK
  <2> QED  BY <1>4, <2>2, <2>3 DEF Refresh, TypeOK
<1>5. ASSUME NEW s \in Sessions, EndSession(s)  PROVE TypeOK'
  BY <1>5 DEF EndSession, TypeOK
<1>6. ASSUME NEW t \in access, ExpireAccess(t)  PROVE TypeOK'
  BY <1>6 DEF ExpireAccess, TypeOK
<1>7. ASSUME NEW r \in Requests, NEW t \in access, Verify(r, t)  PROVE TypeOK'
  <2>1. t.user \in Users  BY DEF TypeOK, AccessTokens
  <2>2. request' \in [Requests -> RequestStates]
    BY <1>7, <2>1, EnterTypes DEF Verify
  <2> QED  BY <1>7, <2>2 DEF Verify, TypeOK
<1>8. ASSUME NEW r \in Requests, SyncToken(r)  PROVE TypeOK'
  <2>1. request' \in [Requests -> RequestStates]
    BY <1>8, LeaveTypes DEF SyncToken
  <2>2. request[r].user \in Users  BY <1>8, RequestTypes DEF SyncToken
  <2>3. access' \subseteq AccessTokens
    BY <1>8, <2>2, SignedType DEF SyncToken, TypeOK
  <2> QED  BY <1>8, <2>1, <2>3 DEF SyncToken, TypeOK
<1>9. ASSUME NEW r \in Requests, NEW cut \in BOOLEAN, ChangePassword(r, cut)
      PROVE  TypeOK'
  <2>1. request' \in [Requests -> RequestStates]
    BY <1>9, LeaveTypes DEF ChangePassword, RequestStates
  <2>2. request[r].user \in Users  BY <1>9, RequestTypes DEF ChangePassword
  <2>3. refresh' \in [Sessions -> RefreshTokens \cup {None}]
    BY <1>9, WithoutTypes DEF ChangePassword, TypeOK
  <2>4. hash' \in [Users -> Nat] /\ revocations' \in [Users -> Nat]
    BY <1>9, <2>2 DEF ChangePassword, TypeOK
  <2>5. changes' \in Nat /\ secret' \in Nat
    BY <1>9 DEF ChangePassword, TypeOK, Counted
  <2> QED  BY <1>9, <2>1, <2>3, <2>4, <2>5 DEF ChangePassword, TypeOK
<1>10. ASSUME NEW actor \in Users, NEW u \in Users, NEW newRole \in Roles,
              NEW newStatus \in {"active", "blocked"},
              UpdateUser(actor, u, newRole, newStatus)
       PROVE  TypeOK'
  <2>1. /\ version' \in [Users -> Nat] /\ revocations' \in [Users -> Nat]
        /\ refresh' \in [Sessions -> RefreshTokens \cup {None}]
        /\ changes' \in Nat
    BY <1>10, RevokeTypes DEF UpdateUser, TypeOK
  <2> QED  BY <1>10, <2>1 DEF UpdateUser, TypeOK, Statuses
<1>11. ASSUME NEW actor \in Users, NEW u \in Users, Approve(actor, u)
       PROVE  TypeOK'
  BY <1>11 DEF Approve, TypeOK, Statuses
<1>12. ASSUME NEW actor \in Users, NEW u \in Users, Reject(actor, u)
       PROVE  TypeOK'
  BY <1>12 DEF Reject, TypeOK, Statuses
<1>13. ASSUME NEW actor \in Users, NEW u \in Users, AdminReset(actor, u)
       PROVE  TypeOK'
  <2>1. /\ version' \in [Users -> Nat] /\ revocations' \in [Users -> Nat]
        /\ refresh' \in [Sessions -> RefreshTokens \cup {None}]
        /\ changes' \in Nat
    BY <1>13, RevokeTypes DEF AdminReset
  <2> QED  BY <1>13, <2>1 DEF AdminReset, TypeOK
<1>14. ASSUME NEW r \in Requests, NEW actor \in Users, NEW u \in Users,
              StartRevoke(r, actor, u)
       PROVE  TypeOK'
  <2>1. request' \in [Requests -> RequestStates]
    BY <1>14, EnterTypes DEF StartRevoke
  <2> QED  BY <1>14, <2>1 DEF StartRevoke, TypeOK
<1>15. ASSUME NEW r \in Requests, FinishRevoke(r)  PROVE TypeOK'
  <2>1. request' \in [Requests -> RequestStates]
    BY <1>15, LeaveTypes DEF FinishRevoke
  <2>2. request[r].user \in Users  BY <1>15, RequestTypes DEF FinishRevoke
  <2>3. /\ version' \in [Users -> Nat] /\ revocations' \in [Users -> Nat]
        /\ refresh' \in [Sessions -> RefreshTokens \cup {None}]
        /\ changes' \in Nat
    BY <1>15, <2>2, RevokeTypes DEF FinishRevoke, TypeOK
  <2> QED  BY <1>15, <2>1, <2>3 DEF FinishRevoke, TypeOK
<1>16. ASSUME NEW u \in Users, Recover(u)  PROVE TypeOK'
  <2>1. /\ version' \in [Users -> Nat] /\ revocations' \in [Users -> Nat]
        /\ refresh' \in [Sessions -> RefreshTokens \cup {None}]
        /\ changes' \in Nat
    BY <1>16, RevokeTypes DEF Recover
  <2>2. recovery' \in [Users -> BOOLEAN]  BY <1>16 DEF Recover, TypeOK
  <2>3. hash' \in [Users -> Nat]  BY <1>16 DEF Recover, TypeOK
  <2> QED  BY <1>16, <2>1, <2>2, <2>3 DEF Recover, TypeOK
<1>17. ASSUME NEW actor \in Users, NEW u \in Users, StartDeletion(actor, u)
       PROVE  TypeOK'
  <2>1. /\ version' \in [Users -> Nat] /\ revocations' \in [Users -> Nat]
        /\ refresh' \in [Sessions -> RefreshTokens \cup {None}]
        /\ changes' \in Nat
    BY <1>17, RevokeTypes DEF StartDeletion
  <2> QED  BY <1>17, <2>1 DEF StartDeletion, TypeOK, Statuses
<1>18. ASSUME NEW r \in Requests, NEW recipient \in Users,
              DeleteOwnAccount(r, recipient)
       PROVE  TypeOK'
  <2>1. request' \in [Requests -> RequestStates]
    BY <1>18, LeaveTypes DEF DeleteOwnAccount
  <2>2. request[r].user \in Users  BY <1>18, RequestTypes DEF DeleteOwnAccount
  <2>3. /\ version' \in [Users -> Nat] /\ revocations' \in [Users -> Nat]
        /\ refresh' \in [Sessions -> RefreshTokens \cup {None}]
        /\ changes' \in Nat
    BY <1>18, <2>2, RevokeTypes DEF DeleteOwnAccount
  <2>4. status' \in [Users -> Statuses] /\ heir' \in [Users -> Users \cup {None}]
    BY <1>18, <2>2 DEF DeleteOwnAccount, TypeOK, Statuses
  <2> QED  BY <1>18, <2>1, <2>3, <2>4 DEF DeleteOwnAccount, TypeOK
<1>19. ASSUME NEW u \in Users, FinishDeletion(u)  PROVE TypeOK'
  <2>1. refresh' \in [Sessions -> RefreshTokens \cup {None}]
    BY <1>19, WithoutTypes DEF FinishDeletion
  <2> QED  BY <1>19, <2>1 DEF FinishDeletion, TypeOK, Statuses, Roles
<1>20. ASSUME NEW actor \in Users, NEW persisted \in BOOLEAN,
              NEW failed \in BOOLEAN, RotateSecret(actor, persisted, failed)
       PROVE  TypeOK'
  <2>1. /\ version' \in [Users -> Nat] /\ revocations' \in [Users -> Nat]
        /\ refresh' \in [Sessions -> RefreshTokens \cup {None}]
        /\ changes' \in Nat
    BY <1>20, RevokeTypes DEF RotateSecret
  <2> QED  BY <1>20, <2>1 DEF RotateSecret, TypeOK
<1>21. ASSUME Restart  PROVE TypeOK'
  BY <1>21 DEF Restart, TypeOK, RequestStates
<1>22. ASSUME UNCHANGED vars  PROVE TypeOK'
  BY <1>22 DEF vars, TypeOK
<1> QED
  BY <1>1, <1>2, <1>3, <1>4, <1>5, <1>6, <1>7, <1>8, <1>9, <1>10, <1>11, <1>12,
     <1>13, <1>14, <1>15, <1>16, <1>17, <1>18, <1>19, <1>20, <1>21, <1>22
  DEF Next

-----------------------------------------------------------------------------
(* Accounts.                                                                *)

(* A step that leaves every account and every job alone.                    *)
LEMMA AccountsUntouched ==
  ASSUME TypeOK, AccountInv, UNCHANGED <<status, role, recovery, heir>>
  PROVE  AccountInv'
  BY DEF AccountInv, AdminRemains, SuperuserStands, DeletionHasHeir,
         FreshAccounts, UsableAdmin, Usable, Present

(* An account that is neither the last administrator nor the superuser      *)
(* leaves without taking either along.                                      *)
LEMMA AccountLeaves ==
  ASSUME TypeOK, AccountInv, NEW u \in Users,
         role[u] # "superuser", ~IsLastActiveAdmin(u),
         \A v \in Users \ {u} : /\ status'[v] = status[v] /\ role'[v] = role[v]
                                /\ recovery'[v] = recovery[v],
         \E v \in Users \ {u} : Present(v),
         ~Present(u)' \/ role'[u] # "superuser"
  PROVE  AdminRemains' /\ SuperuserStands'
<1>1. PICK w \in Users : UsableAdmin(w) /\ w # u
  <2>1. PICK v \in Users \ {u} : Present(v)  OBVIOUS
  <2>2. PICK w \in Users : UsableAdmin(w)
    BY <2>1 DEF AccountInv, AdminRemains, Present
  <2> QED  BY <2>2 DEF IsLastActiveAdmin
<1>2. AdminRemains'
  BY <1>1 DEF AdminRemains, UsableAdmin, Usable
<1>3. \A v \in Users : (Present(v) /\ role[v] = "superuser")' <=>
        Present(v) /\ role[v] = "superuser"
  BY DEF Present
<1>4. \A v \in Users : Present(v) /\ role[v] = "superuser" =>
        v # u /\ status'[v] = status[v]
  OBVIOUS
<1>5. \E v \in Users : Present(v) /\ role[v] = "superuser"
  BY <1>1 DEF AccountInv, SuperuserStands
<1> QED  BY <1>2, <1>3, <1>4, <1>5 DEF AccountInv, SuperuserStands

(* The start of a deletion, by an administrator or by the owner. *)
LEMMA DeletionStarts ==
  ASSUME TypeOK, AccountInv, NEW actor \in Users, NEW u \in Users,
         MayDelete(actor, u),
         heir' = [heir EXCEPT ![u] = actor],
         status' = [status EXCEPT ![u] = "deleting"],
         UNCHANGED <<role, recovery>>
  PROVE  AccountInv'
<1>1. \A v \in Users \ {u} : status'[v] = status[v]  BY DEF TypeOK
<1>2. status'[u] = "deleting"  BY DEF TypeOK
<1>3. Present(actor) /\ actor \in Users \ {u} /\ status[actor] = "active"
  BY DEF MayDelete, UsableAdmin, Usable, Present
<1>4. role[u] # "superuser" /\ ~IsLastActiveAdmin(u)  BY DEF MayDelete
<1>5. AdminRemains' /\ SuperuserStands'
  BY <1>1, <1>3, <1>4, AccountLeaves
<1>6. FreshAccounts'  BY <1>1, <1>2 DEF AccountInv, FreshAccounts
<1>7. DeletionHasHeir'
  <2>1. /\ heir'[u] = actor
        /\ \A v \in Users \ {u} : heir'[v] = heir[v] /\ heir[v] # u
    BY DEF TypeOK, MayDelete
  <2>2. actor # None  BY ConstantsAssumption
  <2>3. \A v \in Users : heir[v] # None => heir[v] \in Users  BY DEF TypeOK
  <2> QED
    BY <1>1, <1>2, <1>3, <2>1, <2>2, <2>3 DEF AccountInv, DeletionHasHeir
<1> QED  BY <1>5, <1>6, <1>7 DEF AccountInv

(* A change of status that begins and ends outside deletion. *)
LEMMA JobsUntouched ==
  ASSUME TypeOK, DeletionHasHeir, UNCHANGED heir, NEW u \in Users,
         \A v \in Users \ {u} : status'[v] = status[v],
         status[u] # "deleting", status'[u] # "deleting",
         status[u] \in {"active", "blocked"} => status'[u] \in {"active", "blocked"}
  PROVE  DeletionHasHeir'
<1>1. \A v \in Users : heir[v] # None => heir[v] \in Users  BY DEF TypeOK
<1>2. \A v \in Users : status'[v] = "deleting" <=> status[v] = "deleting"
  OBVIOUS
<1>3. \A v \in Users : status[v] \in {"active", "blocked"} =>
        status'[v] \in {"active", "blocked"}
  OBVIOUS
<1> QED  BY <1>1, <1>2, <1>3 DEF DeletionHasHeir

LEMMA AccountsPreserved ==
  ASSUME TypeOK, AccountInv, [Next]_vars
  PROVE  AccountInv'
<1> USE DEF accountVars, tokenVars, secretVars
<1>1. ASSUME NEW r \in Requests, NEW u \in Users, NEW mode \in Modes,
             Register(r, u, mode)
      PROVE  AccountInv'
  <2> DEFINE first == \A v \in Users : ~Present(v)
  <2>1. /\ status[u] = "none" /\ UNCHANGED <<recovery, heir>>
        /\ status'[u] \in {"active", "pending"}
        /\ first => status'[u] = "active"
        /\ role'[u] = IF first THEN "superuser" ELSE "user"
        /\ \A v \in Users \ {u} : status'[v] = status[v] /\ role'[v] = role[v]
    BY <1>1 DEF Register, TypeOK
  <2>2. ~recovery[u]  BY <2>1 DEF AccountInv, FreshAccounts
  <2>3. AdminRemains'
    <3>1. CASE first
      <4>1. UsableAdmin(u)'  BY <3>1, <2>1, <2>2 DEF UsableAdmin, Usable
      <4> QED  BY <4>1 DEF AdminRemains
    <3>2. CASE ~first
      <4>1. PICK w \in Users : UsableAdmin(w)
        BY <3>2 DEF AccountInv, AdminRemains, Present
      <4>2. w # u  BY <4>1, <2>1 DEF UsableAdmin, Usable
      <4>3. UsableAdmin(w)'  BY <4>1, <4>2, <2>1 DEF UsableAdmin, Usable
      <4> QED  BY <4>3 DEF AdminRemains
    <3> QED  BY <3>1, <3>2
  <2>4. SuperuserStands'
    <3>1. CASE first
      <4>1. \A v \in Users : Present(v)' => v = u
        BY <3>1, <2>1 DEF Present
      <4>2. Present(u)' /\ role'[u] = "superuser" /\ status'[u] = "active"
        BY <3>1, <2>1 DEF Present
      <4> QED  BY <4>1, <4>2 DEF SuperuserStands
    <3>2. CASE ~first
      <4>1. \A v \in Users : (Present(v) /\ role[v] = "superuser")' <=>
              Present(v) /\ role[v] = "superuser"
        BY <3>2, <2>1 DEF Present
      <4>2. \A v \in Users : Present(v) => status'[v] = status[v]
        BY <2>1 DEF Present
      <4>3. \E v \in Users : Present(v) /\ role[v] = "superuser"
        BY <3>2 DEF AccountInv, SuperuserStands
      <4> QED  BY <4>1, <4>2, <4>3 DEF AccountInv, SuperuserStands
    <3> QED  BY <3>1, <3>2
  <2>5. DeletionHasHeir'
    BY <2>1, JobsUntouched DEF AccountInv
  <2>6. FreshAccounts'  BY <2>1 DEF AccountInv, FreshAccounts
  <2> QED  BY <2>3, <2>4, <2>5, <2>6 DEF AccountInv
<1>2. ASSUME NEW r \in Requests, NEW u \in Users, Authenticate(r, u)
      PROVE  AccountInv'
  BY <1>2, AccountsUntouched DEF Authenticate
<1>3. ASSUME NEW r \in Requests, NEW s \in Sessions, IssueTokens(r, s)
      PROVE  AccountInv'
  BY <1>3, AccountsUntouched DEF IssueTokens
<1>4. ASSUME NEW s \in Sessions, Refresh(s)  PROVE AccountInv'
  BY <1>4, AccountsUntouched DEF Refresh
<1>5. ASSUME NEW s \in Sessions, EndSession(s)  PROVE AccountInv'
  BY <1>5, AccountsUntouched DEF EndSession
<1>6. ASSUME NEW t \in access, ExpireAccess(t)  PROVE AccountInv'
  BY <1>6, AccountsUntouched DEF ExpireAccess
<1>7. ASSUME NEW r \in Requests, NEW t \in access, Verify(r, t)
      PROVE  AccountInv'
  BY <1>7, AccountsUntouched DEF Verify
<1>8. ASSUME NEW r \in Requests, SyncToken(r)  PROVE AccountInv'
  BY <1>8, AccountsUntouched DEF SyncToken
<1>9. ASSUME NEW r \in Requests, NEW cut \in BOOLEAN, ChangePassword(r, cut)
      PROVE  AccountInv'
  BY <1>9, AccountsUntouched DEF ChangePassword
<1>10. ASSUME NEW actor \in Users, NEW u \in Users, NEW newRole \in Roles,
              NEW newStatus \in {"active", "blocked"},
              UpdateUser(actor, u, newRole, newStatus)
       PROVE  AccountInv'
  <2>1. /\ MayUpdate(actor, u, newRole, newStatus) /\ UNCHANGED <<recovery, heir>>
        /\ status'[u] = newStatus /\ role'[u] = newRole
        /\ \A v \in Users \ {u} : status'[v] = status[v] /\ role'[v] = role[v]
    BY <1>10 DEF UpdateUser, TypeOK
  <2>2. /\ status[u] \in {"active", "blocked"} /\ newStatus \in {"active", "blocked"}
        /\ role[u] = "superuser" <=> newRole = "superuser"
        /\ newRole = "superuser" => newStatus = "active"
    BY <2>1 DEF MayUpdate, Roles
  <2>3. AdminRemains'
    <3>1. PICK w \in Users : UsableAdmin(w)
      BY <2>1 DEF MayUpdate
    <3>2. CASE w # u
      <4>1. UsableAdmin(w)'  BY <3>1, <3>2, <2>1 DEF UsableAdmin, Usable
      <4> QED  BY <4>1 DEF AdminRemains
    <3>3. CASE w = u /\ newRole \in {"admin", "superuser"} /\ newStatus = "active"
      <4>1. UsableAdmin(u)'  BY <3>1, <3>3, <2>1 DEF UsableAdmin, Usable
      <4> QED  BY <4>1 DEF AdminRemains
    <3>4. CASE w = u /\ ~(newRole \in {"admin", "superuser"} /\ newStatus = "active")
      <4>1. PICK x \in Users \ {u} : UsableAdmin(x)
        BY <3>1, <3>4, <2>1 DEF MayUpdate, IsLastActiveAdmin
      <4>2. UsableAdmin(x)'  BY <4>1, <2>1 DEF UsableAdmin, Usable
      <4> QED  BY <4>2 DEF AdminRemains
    <3> QED  BY <3>2, <3>3, <3>4
  <2>4. SuperuserStands'
    <3>1. \A v \in Users : (Present(v) /\ role[v] = "superuser")' <=>
            Present(v) /\ role[v] = "superuser"
      BY <2>1, <2>2 DEF Present
    <3>2. \A v \in Users : Present(v) /\ role[v] = "superuser" =>
            status'[v] = "active"
      BY <2>1, <2>2 DEF AccountInv, SuperuserStands
    <3>3. \E v \in Users : Present(v) /\ role[v] = "superuser"
      BY <2>2 DEF AccountInv, SuperuserStands, Present
    <3> QED  BY <3>1, <3>2, <3>3 DEF AccountInv, SuperuserStands
  <2>5. DeletionHasHeir'
    BY <2>1, <2>2, JobsUntouched DEF AccountInv
  <2>6. FreshAccounts'  BY <2>1, <2>2 DEF AccountInv, FreshAccounts
  <2> QED  BY <2>3, <2>4, <2>5, <2>6 DEF AccountInv
<1>11. ASSUME NEW actor \in Users, NEW u \in Users, Approve(actor, u)
       PROVE  AccountInv'
  <2>1. /\ status[u] = "pending" /\ status'[u] = "active"
        /\ UNCHANGED <<role, recovery, heir>> /\ UsableAdmin(actor)
        /\ \A v \in Users \ {u} : status'[v] = status[v]
    BY <1>11 DEF Approve, TypeOK
  <2>2. UsableAdmin(actor)'  BY <2>1 DEF UsableAdmin, Usable
  <2>3. \A v \in Users : Present(v)' <=> Present(v)  BY <2>1 DEF Present
  <2>4. SuperuserStands'
    BY <2>1, <2>3 DEF AccountInv, SuperuserStands
  <2>5. DeletionHasHeir'  BY <2>1, JobsUntouched DEF AccountInv
  <2>6. FreshAccounts'  BY <2>1 DEF AccountInv, FreshAccounts
  <2> QED  BY <2>2, <2>4, <2>5, <2>6 DEF AccountInv, AdminRemains
<1>12. ASSUME NEW actor \in Users, NEW u \in Users, Reject(actor, u)
       PROVE  AccountInv'
  <2>1. /\ status[u] = "pending" /\ status'[u] = "gone"
        /\ UNCHANGED <<role, recovery, heir>> /\ UsableAdmin(actor)
        /\ \A v \in Users \ {u} : status'[v] = status[v]
    BY <1>12 DEF Reject, TypeOK
  <2>2. role[u] # "superuser"
    BY <2>1 DEF AccountInv, SuperuserStands, Present
  <2>3. actor # u /\ Present(actor) /\ ~IsLastActiveAdmin(u)
    BY <2>1 DEF UsableAdmin, Usable, Present, IsLastActiveAdmin
  <2>4. AdminRemains' /\ SuperuserStands'
    BY <2>1, <2>2, <2>3, AccountLeaves
  <2>5. DeletionHasHeir'
    BY <2>1, JobsUntouched DEF AccountInv
  <2>6. FreshAccounts'  BY <2>1 DEF AccountInv, FreshAccounts
  <2> QED  BY <2>4, <2>5, <2>6 DEF AccountInv
<1>13. ASSUME NEW actor \in Users, NEW u \in Users, AdminReset(actor, u)
       PROVE  AccountInv'
  <2>1. /\ status[u] \in {"active", "blocked"} /\ ~IsLastActiveAdmin(u)
        /\ UNCHANGED <<status, role, heir>> /\ UsableAdmin(actor)
        /\ \A v \in Users \ {u} : recovery'[v] = recovery[v]
    BY <1>13 DEF AdminReset, TypeOK
  <2>2. PICK w \in Users \ {u} : UsableAdmin(w)
    BY <2>1 DEF IsLastActiveAdmin
  <2>3. UsableAdmin(w)'  BY <2>1, <2>2 DEF UsableAdmin, Usable
  <2>4. AdminRemains'  BY <2>3 DEF AdminRemains
  <2>5. SuperuserStands' /\ DeletionHasHeir'
    BY <2>1 DEF AccountInv, SuperuserStands, DeletionHasHeir, Present
  <2>6. FreshAccounts'  BY <2>1 DEF AccountInv, FreshAccounts
  <2> QED  BY <2>4, <2>5, <2>6 DEF AccountInv
<1>14. ASSUME NEW r \in Requests, NEW actor \in Users, NEW u \in Users,
              StartRevoke(r, actor, u)
       PROVE  AccountInv'
  BY <1>14, AccountsUntouched DEF StartRevoke
<1>15. ASSUME NEW r \in Requests, FinishRevoke(r)  PROVE AccountInv'
  BY <1>15, AccountsUntouched DEF FinishRevoke
<1>16. ASSUME NEW u \in Users, Recover(u)  PROVE AccountInv'
  <2>1. /\ status[u] \in {"active", "blocked"} /\ ~recovery'[u]
        /\ UNCHANGED <<status, role, heir>>
        /\ \A v \in Users \ {u} : recovery'[v] = recovery[v]
    BY <1>16 DEF Recover, TypeOK
  <2>2. PICK w \in Users : UsableAdmin(w)
    BY <2>1 DEF AccountInv, AdminRemains
  <2>3. UsableAdmin(w)'  BY <2>1, <2>2 DEF UsableAdmin, Usable
  <2>4. AdminRemains'  BY <2>3 DEF AdminRemains
  <2>5. SuperuserStands' /\ DeletionHasHeir'
    BY <2>1 DEF AccountInv, SuperuserStands, DeletionHasHeir, Present
  <2>6. FreshAccounts'  BY <2>1 DEF AccountInv, FreshAccounts
  <2> QED  BY <2>4, <2>5, <2>6 DEF AccountInv
<1>17. ASSUME NEW actor \in Users, NEW u \in Users, StartDeletion(actor, u)
       PROVE  AccountInv'
  BY <1>17, DeletionStarts DEF StartDeletion
<1>18. ASSUME NEW r \in Requests, NEW recipient \in Users,
              DeleteOwnAccount(r, recipient)
       PROVE  AccountInv'
  <2>1. request[r].user \in Users
    BY <1>18, RequestTypes DEF DeleteOwnAccount
  <2> QED  BY <1>18, <2>1, DeletionStarts DEF DeleteOwnAccount
<1>19. ASSUME NEW u \in Users, FinishDeletion(u)  PROVE AccountInv'
  <2>1. /\ heir[u] # None /\ heir'[u] = None
        /\ status'[u] = "gone" /\ ~recovery'[u]
        /\ \A v \in Users \ {u} :
             /\ status'[v] = status[v] /\ role'[v] = role[v]
             /\ recovery'[v] = recovery[v] /\ heir'[v] = heir[v]
    BY <1>19 DEF FinishDeletion, TypeOK
  <2>2. /\ status[u] = "deleting" /\ heir[u] \in Users
        /\ status[heir[u]] \in {"active", "blocked"}
    BY <2>1 DEF AccountInv, DeletionHasHeir, TypeOK
  <2>3. role[u] # "superuser" /\ ~IsLastActiveAdmin(u)
    BY <2>2 DEF AccountInv, SuperuserStands, Present, IsLastActiveAdmin,
       UsableAdmin, Usable
  <2>4. heir[u] \in Users \ {u} /\ Present(heir[u]) /\ ~Present(u)'
    BY <2>1, <2>2 DEF Present
  <2>5. AdminRemains' /\ SuperuserStands'
    BY <2>1, <2>3, <2>4, AccountLeaves
  <2>6. DeletionHasHeir'
    <3>1. \A v \in Users : heir[v] # None => heir[v] \in Users /\ heir[v] # u
      BY <2>2 DEF AccountInv, DeletionHasHeir, TypeOK
    <3> QED  BY <2>1, <3>1 DEF AccountInv, DeletionHasHeir
  <2>7. FreshAccounts'  BY <2>1 DEF AccountInv, FreshAccounts
  <2> QED  BY <2>5, <2>6, <2>7 DEF AccountInv
<1>20. ASSUME NEW actor \in Users, NEW persisted \in BOOLEAN,
              NEW failed \in BOOLEAN, RotateSecret(actor, persisted, failed)
       PROVE  AccountInv'
  BY <1>20, AccountsUntouched DEF RotateSecret
<1>21. ASSUME Restart  PROVE AccountInv'
  BY <1>21, AccountsUntouched DEF Restart
<1>22. ASSUME UNCHANGED vars  PROVE AccountInv'
  BY <1>22, AccountsUntouched DEF vars
<1> QED
  BY <1>1, <1>2, <1>3, <1>4, <1>5, <1>6, <1>7, <1>8, <1>9, <1>10, <1>11, <1>12,
     <1>13, <1>14, <1>15, <1>16, <1>17, <1>18, <1>19, <1>20, <1>21, <1>22
  DEF Next

-----------------------------------------------------------------------------
(* Tokens.                                                                  *)

(* A step that revokes the sessions of us, and may change their passwords,  *)
(* leaves the other accounts' keys alone and hands out no token.            *)
LEMMA RevokedTokensFollow ==
  ASSUME TypeOK, TypeOK', TokenInv, NEW us \in SUBSET Users, Revoke(us),
         UNCHANGED access,
         \A v \in Users : hash'[v] = hash[v] \/ (hash'[v] = hash[v] + 1 /\ v \in us),
         \A v \in Users : /\ status'[v] = "none" => status[v] = "none"
                          /\ status[v] = "gone" => status'[v] = "gone"
  PROVE  TokensFollow' /\ RefreshFollows'
<1>1. \A v \in us : /\ version'[v] = version[v] + 1
                    /\ revocations'[v] = revocations[v] + 1
  BY DEF Revoke
<1>2. \A v \in Users \ us : /\ version'[v] = version[v]
                            /\ revocations'[v] = revocations[v]
                            /\ hash'[v] = hash[v]
  BY DEF Revoke
<1>3. ASSUME NEW t \in access
      PROVE  /\ status'[t.user] # "none"
             /\ status'[t.user] # "gone" =>
                  /\ t.hash <= hash'[t.user] /\ t.version <= version'[t.user]
                  /\ t.version = version'[t.user] /\ t.hash = hash'[t.user] =>
                       t.since = revocations'[t.user]
  <2>1. /\ t.user \in Users /\ t.hash \in Nat /\ t.version \in Nat
    BY DEF TypeOK, AccessTokens
  <2>2. /\ hash[t.user] \in Nat /\ version[t.user] \in Nat
        /\ hash'[t.user] \in Nat /\ version'[t.user] \in Nat
    BY <2>1 DEF TypeOK
  <2>3. /\ status'[t.user] # "none"
        /\ status[t.user] = "gone" => status'[t.user] = "gone"
    <3>1. status[t.user] # "none"  BY DEF TokenInv, TokensFollow
    <3> QED  BY <3>1, <2>1
  <2>4. CASE status[t.user] # "gone"
    <3>1. /\ t.hash <= hash[t.user] /\ t.version <= version[t.user]
          /\ t.version = version[t.user] /\ t.hash = hash[t.user] =>
               t.since = revocations[t.user]
      BY <2>4 DEF TokenInv, TokensFollow
    <3>2. hash'[t.user] = hash[t.user] \/ hash'[t.user] = hash[t.user] + 1
      BY <2>1
    <3>3. CASE t.user \in us
      BY <3>1, <3>2, <3>3, <2>1, <2>2, <2>3, <1>1
    <3>4. CASE t.user \notin us
      BY <3>1, <3>4, <2>1, <2>2, <2>3, <1>2
    <3> QED  BY <3>3, <3>4
  <2>5. CASE status[t.user] = "gone"
    BY <2>5, <2>1, <2>3
  <2> QED  BY <2>4, <2>5
<1>4. TokensFollow'  BY <1>3 DEF TokensFollow
<1>5. RefreshFollows'
  <2>1. \A s \in Sessions : refresh'[s] # None =>
          refresh'[s] = refresh[s] /\ refresh[s] # None /\ refresh[s].user \notin us
    BY DEF Revoke, WithoutTokensOf
  <2>2. \A s \in Sessions : refresh[s] # None => refresh[s].user \in Users
    BY RefreshTypes
  <2> QED  BY <2>1, <2>2, <1>2 DEF TokenInv, RefreshFollows
<1> QED  BY <1>4, <1>5

(* A step that changes no key and hands out no token. *)
LEMMA KeysUntouched ==
  ASSUME TypeOK, TokenInv, UNCHANGED <<hash, version, revocations>>,
         access' \subseteq access,
         \A s \in Sessions : refresh'[s] # None => refresh'[s] = refresh[s],
         \A v \in Users : /\ status'[v] = "none" => status[v] = "none"
                          /\ status[v] = "gone" => status'[v] = "gone"
  PROVE  TokensFollow' /\ RefreshFollows'
<1>1. \A t \in access' : t \in access /\ t.user \in Users
  BY DEF TypeOK, AccessTokens
<1>2. ASSUME NEW t \in access'
      PROVE  /\ status'[t.user] # "none"
             /\ status'[t.user] # "gone" =>
                  /\ t.hash <= hash'[t.user] /\ t.version <= version'[t.user]
                  /\ t.version = version'[t.user] /\ t.hash = hash'[t.user] =>
                       t.since = revocations'[t.user]
  <2>1. t \in access /\ t.user \in Users  BY <1>1
  <2>2. status[t.user] # "none"  BY <2>1 DEF TokenInv, TokensFollow
  <2>3. /\ status'[t.user] # "none"
        /\ status'[t.user] # "gone" => status[t.user] # "gone"
    BY <2>1, <2>2
  <2>4. status[t.user] # "gone" =>
          /\ t.hash <= hash[t.user] /\ t.version <= version[t.user]
          /\ t.version = version[t.user] /\ t.hash = hash[t.user] =>
               t.since = revocations[t.user]
    BY <2>1 DEF TokenInv, TokensFollow
  <2> QED  BY <2>3, <2>4
<1>3. TokensFollow'  BY <1>2 DEF TokensFollow
<1> QED  BY <1>3 DEF TokenInv, RefreshFollows

(* A token signed with the key of the moment. *)
LEMMA SignedTokensFollow ==
  ASSUME TypeOK, TokenInv, UNCHANGED <<status, hash, version, revocations>>,
         NEW u \in Users, NEW kind \in {"session", "sync"}, status[u] # "none",
         access' = access \cup {Signed(u, kind)}
  PROVE  TokensFollow'
<1>1. ASSUME NEW t \in access
      PROVE  /\ status'[t.user] # "none"
             /\ status'[t.user] # "gone" =>
                  /\ t.hash <= hash'[t.user] /\ t.version <= version'[t.user]
                  /\ t.version = version'[t.user] /\ t.hash = hash'[t.user] =>
                       t.since = revocations'[t.user]
  BY DEF TokenInv, TokensFollow
<1>2. /\ hash[u] \in Nat /\ version[u] \in Nat  BY DEF TypeOK
<1>3. /\ Signed(u, kind).user = u /\ Signed(u, kind).since = revocations[u]
      /\ Signed(u, kind).hash = hash[u] /\ Signed(u, kind).version = version[u]
  BY SignedType
<1> QED  BY <1>1, <1>2, <1>3 DEF TokensFollow

(* Requests that are half-way stay those of registered accounts. *)
LEMMA LoginsStayKnown ==
  ASSUME TypeOK, LoginsAreKnown,
         \A v \in Users : status'[v] = "none" => status[v] = "none",
         \A r \in Requests :
           \/ request'[r] = request[r]
           \/ request'[r] = Idle
           \/ \E u \in Users : request'[r].user = u /\ status'[u] # "none"
  PROVE  LoginsAreKnown'
<1>1. \A r \in Requests : request[r] # Idle => request[r].user \in Users
  BY RequestTypes
<1> QED  BY <1>1 DEF LoginsAreKnown

LEMMA EnterKnown ==
  ASSUME TypeOK, NEW r \in Requests, NEW u \in Users, NEW pc, Enter(r, pc, u)
  PROVE  /\ request'[r].user = u
         /\ \A q \in Requests \ {r} : request'[q] = request[q]
  BY DEF TypeOK, Enter

LEMMA LeaveKnown ==
  ASSUME TypeOK, NEW r \in Requests, Leave(r)
  PROVE  \A q \in Requests : request'[q] = request[q] \/ request'[q] = Idle
  BY DEF TypeOK, Leave

LEMMA TokensPreserved ==
  ASSUME TypeOK, TypeOK', DeletionHasHeir, TokenInv, [Next]_vars
  PROVE  TokenInv'
<1> USE DEF accountVars, tokenVars, secretVars
<1>1. ASSUME NEW r \in Requests, NEW u \in Users, NEW mode \in Modes,
             Register(r, u, mode)
      PROVE  TokenInv'
  <2>1. /\ status[u] = "none" /\ status'[u] \in {"active", "pending"}
        /\ \A v \in Users \ {u} : status'[v] = status[v] /\ hash'[v] = hash[v]
        /\ UNCHANGED <<version, revocations, access, refresh>>
    BY <1>1 DEF Register, TypeOK
  <2>2. \A t \in access : t.user \in Users \ {u}
    BY <2>1 DEF TypeOK, AccessTokens, TokenInv, TokensFollow
  <2>3. TokensFollow'  BY <2>1, <2>2 DEF TokenInv, TokensFollow
  <2>4. RefreshFollows'  BY <2>1 DEF TokenInv, RefreshFollows
  <2>5. LoginsAreKnown'
    BY <1>1, <2>1, EnterKnown, LoginsStayKnown DEF Register, TokenInv
  <2> QED  BY <2>3, <2>4, <2>5 DEF TokenInv
<1>2. ASSUME NEW r \in Requests, NEW u \in Users, Authenticate(r, u)
      PROVE  TokenInv'
  <2>1. /\ status[u] \notin {"none", "gone"} /\ UNCHANGED <<status, version, revocations, access, refresh>>
        /\ hash'[u] >= hash[u] /\ hash[u] \in Nat /\ hash'[u] \in Nat
        /\ hash'[u] = hash[u] \/ hash'[u] > hash[u]
        /\ \A v \in Users \ {u} : hash'[v] = hash[v]
    BY <1>2 DEF Authenticate, TypeOK, Present
  <2>2. \A t \in access : t.user \in Users /\ t.hash \in Nat
    BY DEF TypeOK, AccessTokens
  <2>3. TokensFollow'  BY <2>1, <2>2 DEF TokenInv, TokensFollow
  <2>4. RefreshFollows'  BY <2>1 DEF TokenInv, RefreshFollows
  <2>5. LoginsAreKnown'
    BY <1>2, <2>1, EnterKnown, LoginsStayKnown DEF Authenticate, TokenInv
  <2> QED  BY <2>3, <2>4, <2>5 DEF TokenInv
<1>3. ASSUME NEW r \in Requests, NEW s \in Sessions, IssueTokens(r, s)
      PROVE  TokenInv'
  <2> DEFINE u == request[r].user
  <2>1. u \in Users  BY <1>3, RequestTypes DEF IssueTokens
  <2>2. LoginsAreKnown'
    BY <1>3, LeaveKnown, LoginsStayKnown DEF IssueTokens, TokenInv
  <2>3. CASE Usable(u)
    <3>1. TokensFollow'
      BY <1>3, <2>1, <2>3, SignedTokensFollow DEF IssueTokens, Usable
    <3>2. RefreshFollows'
      BY <1>3, <2>1, <2>3 DEF IssueTokens, TokenInv, RefreshFollows, TypeOK
    <3> QED  BY <3>1, <3>2, <2>2 DEF TokenInv
  <2>4. CASE ~Usable(u)
    BY <1>3, <2>2, <2>4, KeysUntouched DEF IssueTokens, TokenInv
  <2> QED  BY <2>3, <2>4
<1>4. ASSUME NEW s \in Sessions, Refresh(s)  PROVE TokenInv'
  <2>1. refresh[s].user \in Users /\ refresh[s] \in RefreshTokens
    BY <1>4, RefreshTypes DEF Refresh
  <2>2. TokensFollow'
    BY <1>4, <2>1, SignedTokensFollow DEF Refresh, Usable
  <2>3. RefreshFollows'
    BY <1>4, <2>1 DEF Refresh, TokenInv, RefreshFollows, TypeOK, RefreshTokens
  <2>4. LoginsAreKnown'
    BY <1>4, LoginsStayKnown DEF Refresh, TokenInv
  <2> QED  BY <2>2, <2>3, <2>4 DEF TokenInv
<1>5. ASSUME NEW s \in Sessions, EndSession(s)  PROVE TokenInv'
  <2>1. \A q \in Sessions : refresh'[q] # None => refresh'[q] = refresh[q]
    BY <1>5 DEF EndSession, TypeOK
  <2> QED  BY <1>5, <2>1, KeysUntouched, LoginsStayKnown DEF EndSession, TokenInv
<1>6. ASSUME NEW t \in access, ExpireAccess(t)  PROVE TokenInv'
  BY <1>6, KeysUntouched, LoginsStayKnown DEF ExpireAccess, TokenInv
<1>7. ASSUME NEW r \in Requests, NEW t \in access, Verify(r, t)
      PROVE  TokenInv'
  <2>1. t.user \in Users /\ status[t.user] # "none"
    BY DEF TypeOK, AccessTokens, TokenInv, TokensFollow
  <2>2. LoginsAreKnown'
    BY <1>7, <2>1, EnterKnown, LoginsStayKnown DEF Verify, TokenInv
  <2> QED  BY <1>7, <2>2, KeysUntouched DEF Verify, TokenInv
<1>8. ASSUME NEW r \in Requests, SyncToken(r)  PROVE TokenInv'
  <2> DEFINE u == request[r].user
  <2>1. u \in Users  BY <1>8, RequestTypes DEF SyncToken
  <2>2. LoginsAreKnown'
    BY <1>8, LeaveKnown, LoginsStayKnown DEF SyncToken, TokenInv
  <2>3. CASE Usable(u)
    <3>1. TokensFollow'
      BY <1>8, <2>1, <2>3, SignedTokensFollow DEF SyncToken, Usable
    <3>2. RefreshFollows'
      BY <1>8 DEF SyncToken, TokenInv, RefreshFollows
    <3> QED  BY <3>1, <3>2, <2>2 DEF TokenInv
  <2>4. CASE ~Usable(u)
    BY <1>8, <2>2, <2>4, KeysUntouched DEF SyncToken, TokenInv
  <2> QED  BY <2>3, <2>4
<1>9. ASSUME NEW r \in Requests, NEW cut \in BOOLEAN, ChangePassword(r, cut)
      PROVE  TokenInv'
  <2> DEFINE u == request[r].user
  <2>1. u \in Users  BY <1>9, RequestTypes DEF ChangePassword
  <2>2. LoginsAreKnown'
    <3>1. \A q \in Requests : request'[q] = request[q] \/ request'[q] = Idle
      BY <1>9, LeaveKnown DEF ChangePassword
    <3> QED  BY <1>9, <3>1, LoginsStayKnown DEF ChangePassword, TokenInv
  <2>3. CASE ~Present(u)
    <3>1. UNCHANGED <<status, hash, version, revocations, access, refresh>>
      BY <1>9, <2>1, <2>3 DEF ChangePassword, TypeOK
    <3> QED  BY <3>1, <2>2, KeysUntouched DEF TokenInv
  <2>4. CASE Present(u)
    <3>1. /\ hash'[u] = hash[u] + 1 /\ hash[u] \in Nat
          /\ UNCHANGED <<status, version, access>>
          /\ \A v \in Users \ {u} :
               hash'[v] = hash[v] /\ revocations'[v] = revocations[v]
      BY <1>9, <2>1, <2>4 DEF ChangePassword, TypeOK
    <3>2. \A t \in access : t.user \in Users /\ t.hash \in Nat
      BY DEF TypeOK, AccessTokens
    <3>3. TokensFollow'
      BY <2>1, <2>4, <3>1, <3>2 DEF TokenInv, TokensFollow, Present
    <3>4. RefreshFollows'
      <4>1. CASE cut
        BY <1>9, <4>1 DEF ChangePassword, TokenInv, RefreshFollows
      <4>2. CASE ~cut
        <5>1. \A s \in Sessions : refresh'[s] # None =>
                /\ refresh'[s] = refresh[s] /\ refresh[s] # None
                /\ refresh[s].user # u
          BY <1>9, <2>4, <4>2 DEF ChangePassword, WithoutTokensOf
        <5>2. \A s \in Sessions : refresh[s] # None => refresh[s].user \in Users
          BY RefreshTypes
        <5> QED  BY <3>1, <5>1, <5>2 DEF TokenInv, RefreshFollows
      <4> QED  BY <4>1, <4>2
    <3> QED  BY <2>2, <3>3, <3>4 DEF TokenInv
  <2> QED  BY <2>3, <2>4
<1>10. ASSUME NEW actor \in Users, NEW u \in Users, NEW newRole \in Roles,
              NEW newStatus \in {"active", "blocked"},
              UpdateUser(actor, u, newRole, newStatus)
       PROVE  TokenInv'
  <2>1. /\ \A v \in Users : /\ status'[v] = "none" => status[v] = "none"
                            /\ status[v] = "gone" => status'[v] = "gone"
        /\ UNCHANGED <<hash, access, request>>
    BY <1>10 DEF UpdateUser, MayUpdate, TypeOK
  <2>2. CASE newStatus = "blocked"
    <3>1. Revoke({u}) /\ {u} \in SUBSET Users  BY <1>10, <2>2 DEF UpdateUser
    <3>2. TokensFollow' /\ RefreshFollows'
      BY <2>1, <3>1, RevokedTokensFollow
    <3> QED  BY <2>1, <3>2, LoginsStayKnown DEF TokenInv
  <2>3. CASE newStatus # "blocked"
    BY <1>10, <2>1, <2>3, KeysUntouched, LoginsStayKnown
    DEF UpdateUser, TokenInv
  <2> QED  BY <2>2, <2>3
<1>11. ASSUME NEW actor \in Users, NEW u \in Users, Approve(actor, u)
       PROVE  TokenInv'
  <2>1. \A v \in Users : /\ status'[v] = "none" => status[v] = "none"
                         /\ status[v] = "gone" => status'[v] = "gone"
    BY <1>11 DEF Approve, TypeOK
  <2> QED  BY <1>11, <2>1, KeysUntouched, LoginsStayKnown DEF Approve, TokenInv
<1>12. ASSUME NEW actor \in Users, NEW u \in Users, Reject(actor, u)
       PROVE  TokenInv'
  <2>1. /\ status[u] = "pending" /\ status'[u] = "gone"
        /\ \A v \in Users \ {u} :
             /\ status'[v] = status[v] /\ hash'[v] = hash[v]
             /\ version'[v] = version[v]
        /\ UNCHANGED <<revocations, access, refresh, request>>
    BY <1>12 DEF Reject, TypeOK
  <2>2. \A t \in access : t.user \in Users  BY DEF TypeOK, AccessTokens
  <2>3. TokensFollow'  BY <2>1, <2>2 DEF TokenInv, TokensFollow
  <2>4. RefreshFollows'  BY <2>1 DEF TokenInv, RefreshFollows
  <2>5. LoginsAreKnown'  BY <2>1, LoginsStayKnown DEF TokenInv
  <2> QED  BY <2>3, <2>4, <2>5 DEF TokenInv
<1>13. ASSUME NEW actor \in Users, NEW u \in Users, AdminReset(actor, u)
       PROVE  TokenInv'
  <2>1. /\ Revoke({u}) /\ {u} \in SUBSET Users
        /\ UNCHANGED <<status, hash, access, request>>
    BY <1>13 DEF AdminReset
  <2>2. TokensFollow' /\ RefreshFollows'  BY <2>1, RevokedTokensFollow
  <2> QED  BY <2>1, <2>2, LoginsStayKnown DEF TokenInv
<1>14. ASSUME NEW r \in Requests, NEW actor \in Users, NEW u \in Users,
              StartRevoke(r, actor, u)
       PROVE  TokenInv'
  <2>1. status[u] # "none"  BY <1>14 DEF StartRevoke, Present
  <2>2. LoginsAreKnown'
    BY <1>14, <2>1, EnterKnown, LoginsStayKnown DEF StartRevoke, TokenInv
  <2> QED  BY <1>14, <2>2, KeysUntouched DEF StartRevoke, TokenInv
<1>15. ASSUME NEW r \in Requests, FinishRevoke(r)  PROVE TokenInv'
  <2>1. request[r].user \in Users  BY <1>15, RequestTypes DEF FinishRevoke
  <2>2. LoginsAreKnown'
    BY <1>15, LeaveKnown, LoginsStayKnown DEF FinishRevoke, TokenInv
  <2>3. CASE Present(request[r].user)
    <3>1. /\ Revoke({request[r].user}) /\ {request[r].user} \in SUBSET Users
          /\ UNCHANGED <<status, hash, access>>
      BY <1>15, <2>1, <2>3 DEF FinishRevoke
    <3>2. TokensFollow' /\ RefreshFollows'  BY <3>1, RevokedTokensFollow
    <3> QED  BY <2>2, <3>2 DEF TokenInv
  <2>4. CASE ~Present(request[r].user)
    BY <1>15, <2>2, <2>4, KeysUntouched DEF FinishRevoke, TokenInv
  <2> QED  BY <2>3, <2>4
<1>16. ASSUME NEW u \in Users, Recover(u)  PROVE TokenInv'
  <2>1. \A v \in Users : hash'[v] = hash[v] \/ (hash'[v] = hash[v] + 1 /\ v \in {u})
    BY <1>16 DEF Recover, TypeOK
  <2>2. /\ Revoke({u}) /\ {u} \in SUBSET Users
        /\ UNCHANGED <<status, access, request>>
    BY <1>16 DEF Recover
  <2>3. TokensFollow' /\ RefreshFollows'  BY <2>1, <2>2, RevokedTokensFollow
  <2> QED  BY <2>2, <2>3, LoginsStayKnown DEF TokenInv
<1>17. ASSUME NEW actor \in Users, NEW u \in Users, StartDeletion(actor, u)
       PROVE  TokenInv'
  <2>1. \A v \in Users : /\ status'[v] = "none" => status[v] = "none"
                         /\ status[v] = "gone" => status'[v] = "gone"
    BY <1>17 DEF StartDeletion, MayDelete, TypeOK
  <2>2. /\ Revoke({u}) /\ {u} \in SUBSET Users
        /\ UNCHANGED <<hash, access, request>>
    BY <1>17 DEF StartDeletion
  <2>3. TokensFollow' /\ RefreshFollows'  BY <2>1, <2>2, RevokedTokensFollow
  <2> QED  BY <2>1, <2>2, <2>3, LoginsStayKnown DEF TokenInv
<1>18. ASSUME NEW r \in Requests, NEW recipient \in Users,
              DeleteOwnAccount(r, recipient)
       PROVE  TokenInv'
  <2>1. request[r].user \in Users
    BY <1>18, RequestTypes DEF DeleteOwnAccount
  <2>2. \A v \in Users : /\ status'[v] = "none" => status[v] = "none"
                         /\ status[v] = "gone" => status'[v] = "gone"
    BY <1>18, <2>1 DEF DeleteOwnAccount, MayDelete, TypeOK
  <2>3. LoginsAreKnown'
    BY <1>18, <2>2, LeaveKnown, LoginsStayKnown DEF DeleteOwnAccount, TokenInv
  <2>4. /\ Revoke({request[r].user}) /\ {request[r].user} \in SUBSET Users
        /\ UNCHANGED <<hash, access>>
    BY <1>18, <2>1 DEF DeleteOwnAccount
  <2>5. TokensFollow' /\ RefreshFollows'  BY <2>2, <2>4, RevokedTokensFollow
  <2> QED  BY <2>3, <2>5 DEF TokenInv
<1>19. ASSUME NEW u \in Users, FinishDeletion(u)  PROVE TokenInv'
  <2>1. /\ status'[u] = "gone" /\ heir[u] # None
        /\ \A v \in Users \ {u} :
             /\ status'[v] = status[v] /\ hash'[v] = hash[v]
             /\ version'[v] = version[v]
        /\ UNCHANGED <<revocations, access, request>>
    BY <1>19 DEF FinishDeletion, TypeOK
  <2>2. \A t \in access : t.user \in Users  BY DEF TypeOK, AccessTokens
  <2>3. TokensFollow'  BY <2>1, <2>2 DEF TokenInv, TokensFollow
  <2>4. \A s \in Sessions : refresh'[s] # None => refresh'[s] = refresh[s]
    BY <1>19 DEF FinishDeletion, WithoutTokensOf
  <2>5. RefreshFollows'  BY <2>1, <2>4 DEF TokenInv, RefreshFollows
  <2>6. LoginsAreKnown'
    BY <2>1, LoginsStayKnown DEF TokenInv
  <2> QED  BY <2>3, <2>5, <2>6 DEF TokenInv
<1>20. ASSUME NEW actor \in Users, NEW persisted \in BOOLEAN,
              NEW failed \in BOOLEAN, RotateSecret(actor, persisted, failed)
       PROVE  TokenInv'
  <2> DEFINE us == {u \in Users : Present(u)}
  <2>1. /\ Revoke(us) /\ us \in SUBSET Users
        /\ UNCHANGED <<status, hash, access, request>>
    BY <1>20 DEF RotateSecret
  <2> HIDE DEF us
  <2>2. TokensFollow' /\ RefreshFollows'  BY <2>1, RevokedTokensFollow
  <2> QED  BY <2>1, <2>2, LoginsStayKnown DEF TokenInv
<1>21. ASSUME Restart  PROVE TokenInv'
  <2>1. \A r \in Requests : request'[r] = Idle  BY <1>21 DEF Restart
  <2> QED  BY <1>21, <2>1, KeysUntouched, LoginsStayKnown DEF Restart, TokenInv
<1>22. ASSUME UNCHANGED vars  PROVE TokenInv'
  BY <1>22, KeysUntouched, LoginsStayKnown DEF vars, TokenInv
<1> QED
  BY <1>1, <1>2, <1>3, <1>4, <1>5, <1>6, <1>7, <1>8, <1>9, <1>10, <1>11, <1>12,
     <1>13, <1>14, <1>15, <1>16, <1>17, <1>18, <1>19, <1>20, <1>21, <1>22
  DEF Next

-----------------------------------------------------------------------------
(* The theorems.                                                            *)

IInv == TypeOK /\ AccountInv /\ TokenInv

LEMMA InitHolds == Init => IInv
<1> SUFFICES ASSUME Init PROVE IInv  OBVIOUS
<1>1. /\ status \in [Users -> Statuses] /\ role \in [Users -> Roles]
      /\ recovery \in [Users -> BOOLEAN]
  BY DEF Init, Statuses, Roles
<1>2. TypeOK  BY <1>1 DEF Init, TypeOK, RequestStates
<1>3. \A u \in Users : status[u] \in {"none", "active"} /\ ~recovery[u]
  BY DEF Init
<1>4. AdminRemains /\ SuperuserStands
  <2>1. CASE \A u \in Users : status[u] = "none"
    BY <2>1 DEF AdminRemains, SuperuserStands, Present
  <2>2. CASE \E first \in Users : \E others \in SUBSET (Users \ {first}) :
          /\ status = [u \in Users |->
               IF u \in others \cup {first} THEN "active" ELSE "none"]
          /\ \A u \in Users :
               role[u] \in IF u = first THEN {"superuser"}
                           ELSE IF u \in others THEN {"admin", "user"}
                           ELSE {"user"}
    <3>1. PICK first \in Users : \E others \in SUBSET (Users \ {first}) :
          /\ status = [u \in Users |->
               IF u \in others \cup {first} THEN "active" ELSE "none"]
          /\ \A u \in Users :
               role[u] \in IF u = first THEN {"superuser"}
                           ELSE IF u \in others THEN {"admin", "user"}
                           ELSE {"user"}
      BY <2>2
    <3>2. status[first] = "active" /\ role[first] = "superuser"
      BY <3>1
    <3>3. \A u \in Users : role[u] = "superuser" => u = first
      BY <3>1
    <3> QED
      BY <1>3, <3>2, <3>3 DEF AdminRemains, SuperuserStands, UsableAdmin, Usable,
         Present
  <2> QED  BY <2>1, <2>2 DEF Init
<1>5. DeletionHasHeir /\ FreshAccounts
  BY <1>3 DEF Init, DeletionHasHeir, FreshAccounts
<1>6. TokenInv
  BY DEF Init, TokenInv, TokensFollow, RefreshFollows, LoginsAreKnown
<1> QED  BY <1>2, <1>4, <1>5, <1>6 DEF IInv, AccountInv

LEMMA StepHolds == IInv /\ [Next]_vars => IInv'
  BY TypesPreserved, AccountsPreserved, TokensPreserved DEF IInv, AccountInv

LEMMA Invariance == Spec => []IInv
  BY InitHolds, StepHolds, PTL DEF Spec

(* Every reachable state is well typed. *)
THEOREM AccountTypes == Spec => []TypeOK
<1>1. IInv => TypeOK  BY DEF IInv
<1> QED  BY <1>1, Invariance, PTL

(* Once somebody registered, an administrator can sign in, for any number   *)
(* of accounts and handlers.                                                *)
THEOREM AnAdministratorRemains == Spec => []AdminRemains
<1>1. IInv => AdminRemains  BY DEF IInv, AccountInv
<1> QED  BY <1>1, Invariance, PTL

(* There is one superuser, who is never blocked or deleted. *)
THEOREM TheSuperuserStands == Spec => []SuperuserStands
<1>1. IInv => SuperuserStands  BY DEF IInv, AccountInv
<1> QED  BY <1>1, Invariance, PTL

(* An account in deletion has a job, whose recipient stays. *)
THEOREM DeletionsHaveHeirs == Spec => []DeletionHasHeir
<1>1. IInv => DeletionHasHeir  BY DEF IInv, AccountInv
<1> QED  BY <1>1, Invariance, PTL

(* No token handed out before a revocation is honoured after it, with any   *)
(* number of revocations, failed rotations of the secret and restarts.      *)
THEOREM RevokedSessionsStayOut == Spec => []RevokedStaysOut
<1>1. IInv => RevokedStaysOut
  <2> SUFFICES ASSUME IInv PROVE RevokedStaysOut  OBVIOUS
  <2>1. ASSUME NEW t \in access, Honoured(t)
        PROVE  t.since = revocations[t.user]
    <3>1. t.version = version[t.user] /\ t.hash = hash[t.user]
      BY <2>1 DEF Honoured
    <3>2. status[t.user] # "gone"  BY <2>1 DEF Honoured, Usable
    <3> QED  BY <3>1, <3>2 DEF IInv, TokenInv, TokensFollow
  <2> QED  BY <2>1 DEF RevokedStaysOut, IInv, TokenInv, RefreshFollows
<1> QED  BY <1>1, Invariance, PTL
=============================================================================
