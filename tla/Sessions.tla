------------------------------ MODULE Sessions ------------------------------
(***************************************************************************)
(* How the clients keep a session alive: a request that is answered 401    *)
(* refreshes the tokens and is sent once more.  The tabs of the web client *)
(* (client.js, auth.js, files.js) refresh once for all waiting requests,   *)
(* keep the tokens in their stores and in localStorage and tell each other *)
(* over a broadcast channel; uploads by XMLHttpRequest refresh on their    *)
(* own.  The app (authenticated_http_client.dart, auth_service.dart) has   *)
(* one secret store and every request refreshes on its own.  The server    *)
(* (UserService.cpp) exchanges a refresh token once.                       *)
(*                                                                         *)
(* An access token and the refresh token it was issued with are one        *)
(* number; 0 is no token.  All clients are of one account.                 *)
(***************************************************************************)
EXTENDS Naturals, Sequences

CONSTANTS
  Tabs,           \* tabs of one browser
  Apps,           \* installations of the app
  Requests,       \* what the user asks for, each once
  None,           \* no request under way
  MaxTokens,      \* bound: tokens issued
  MaxFaults       \* bound: sign-outs, lost answers, reloads, revocations

ASSUME ConstantsAssumption ==
  /\ Tabs \cap Apps = {}
  /\ MaxTokens \in Nat /\ MaxFaults \in Nat

Clients == Tabs \cup Apps
Tokens == 1..MaxTokens
Browser == "browser"

(* Who refreshes the tokens for a request: its tab, or an upload or app      *)
(* request alone.                                                            *)
Alone == "alone"
Lanes(c) == IF c \in Tabs THEN {c, Alone} ELSE {Alone}

ASSUME NamesAssumption ==
  /\ Browser \notin Clients /\ Alone \notin Clients

(* Tabs share a session, each app has its own.                              *)
Session(c) == IF c \in Tabs THEN Browser ELSE c
SessionIds == {Session(c) : c \in Clients}

Steps == {"sent", "waiting", "flight", "rotated"}
RequestStates ==
  [home : Clients, lane : Tabs \cup {Alone}, at : Steps,
   token : 0..MaxTokens, retried : BOOLEAN]

ASSUME NoneAssumption == None \notin RequestStates

VARIABLES
  issued,         \* tokens handed out so far
  live,           \* refresh tokens not revoked
  expired,        \* access tokens up to this one are not accepted any more
  held,           \* the token of each tab's stores or app's secret store
  stored,         \* the token in localStorage
  inbox,          \* broadcasts to each tab: a token, or 0 for AUTH_LOGOUT
  isRefreshing,   \* isRefreshing of each tab
  todo,           \* requests not made yet
  req,            \* each request: who sent it, where it is, the token it
                  \* carries, presents or was answered with, whether it was
                  \* sent again
  presented,      \* history: who presented each refresh token
  contested,      \* history: sessions in which two presented the same one
  denied,         \* history: sessions in which a request ended with 401
  faults, struck  \* history: what struck from outside, and which sessions

serverVars == <<issued, live, expired>>
clientVars == <<held, stored, inbox, isRefreshing>>
historyVars == <<presented, contested, denied, faults, struck>>
vars == <<serverVars, clientVars, todo, req, historyVars>>

At(r, step) == req[r] # None /\ req[r].at = step

(* failedQueue of a tab.                                                    *)
Waiting(c) == {r \in Requests : At(r, "waiting") /\ req[r].home = c}

TypeOK ==
  /\ issued \in 0..MaxTokens
  /\ live \subseteq 1..issued /\ expired \in 0..issued
  /\ held \in [Clients -> 0..MaxTokens]
  /\ stored \in 0..MaxTokens
  /\ inbox \in [Tabs -> Seq(0..MaxTokens)]
  /\ isRefreshing \in [Tabs -> BOOLEAN]
  /\ todo \subseteq Requests
  /\ req \in [Requests -> RequestStates \cup {None}]
  /\ presented \in [Tokens -> SUBSET (Tabs \cup {Alone})]
  /\ contested \subseteq SessionIds
  /\ denied \subseteq SessionIds
  /\ faults \in 0..MaxFaults /\ struck \subseteq SessionIds

Init ==
  /\ issued = 0 /\ live = {} /\ expired = 0
  /\ held = [c \in Clients |-> 0] /\ stored = 0
  /\ inbox = [c \in Tabs |-> <<>>]
  /\ isRefreshing = [c \in Tabs |-> FALSE]
  /\ todo = Requests /\ req = [r \in Requests |-> None]
  /\ presented = [n \in Tokens |-> {}]
  /\ contested = {} /\ denied = {}
  /\ faults = 0 /\ struck = {}

Strike(S) ==
  /\ faults < MaxFaults /\ faults' = faults + 1
  /\ struck' = struck \cup S

-----------------------------------------------------------------------------
(* Requests and the stores of a tab.                                         *)

Move(r, step) == req' = [req EXCEPT ![r].at = step]

End(R) == req' = [r \in Requests |-> IF r \in R THEN None ELSE req[r]]

(* The 401 is handed to the caller.                                          *)
Deny(R) ==
  /\ End(R)
  /\ denied' = denied \cup {Session(req[r].home) : r \in R}

(* The requests are sent once more, with the new token.                      *)
SendAgain(R, n) ==
  req' = [r \in Requests |->
            IF r \in R
              THEN [req[r] EXCEPT !.at = "sent", !.token = n, !.retried = TRUE]
              ELSE req[r]]

Broadcast(c, n) ==
  [d \in Tabs |-> IF d = c THEN inbox[d] ELSE Append(inbox[d], n)]

(* setSession: a store writes localStorage only when its value changes.      *)
SetSession(c, n) ==
  /\ held' = [held EXCEPT ![c] = n]
  /\ stored' = IF held[c] = n THEN stored ELSE n

\* Variant: resetClientAuthState forgets failedQueue.
ClearSessionOnly(c, R) ==
  /\ held' = [held EXCEPT ![c] = 0]
  /\ stored' = 0
  /\ isRefreshing' = [isRefreshing EXCEPT ![c] = FALSE]
  /\ Deny(R)

(* clearSession and its resetClientAuthState: the waiting requests are       *)
(* rejected, and R with them.                                                *)
ClearSession(c, R) ==
  /\ held' = [held EXCEPT ![c] = 0]
  /\ stored' = 0
  /\ isRefreshing' = [isRefreshing EXCEPT ![c] = FALSE]
  /\ Deny(R \cup Waiting(c))

-----------------------------------------------------------------------------
(* The server.                                                               *)

\* Variant: a token is handed out twice.
IssueUncounted(n) ==
  issued < MaxTokens /\ n = issued + 1 /\ UNCHANGED <<issued, expired>>

Issue(n) ==
  /\ issued < MaxTokens /\ n = issued + 1
  /\ issued' = n
  /\ UNCHANGED expired

(* refreshAccessToken: the presented token is replaced by a new one.         *)
Rotate(r) ==
  /\ At(r, "flight") /\ req[r].token \in live
  /\ \E n \in Tokens :
       /\ Issue(n)
       /\ live' = (live \ {req[r].token}) \cup {n}
       /\ req' = [req EXCEPT ![r] = [@ EXCEPT !.at = "rotated", !.token = n]]
  /\ UNCHANGED <<todo, clientVars, historyVars>>

(* Access tokens expire in the order in which they were issued; one outlives *)
(* the retry that it was fetched for.                                        *)
Expire ==
  /\ expired < issued
  /\ \A r \in Requests :
       ~( /\ At(r, "rotated") \/ (At(r, "sent") /\ req[r].retried)
          /\ req[r].token = expired + 1 )
  /\ expired' = expired + 1
  /\ UNCHANGED <<todo, issued, live, clientVars, req, historyVars>>

(* A new password, a block, a revocation: every token of the account ends.   *)
RevokeAll ==
  /\ Strike(SessionIds)
  /\ live' = {} /\ expired' = issued
  /\ UNCHANGED <<todo, issued, clientVars, req, presented, contested, denied>>

-----------------------------------------------------------------------------
(* The clients.                                                              *)

(* New tokens enter the stores of a client.                                  *)
Adopt(c, n) ==
  IF c \in Tabs
    THEN SetSession(c, n) /\ inbox' = Broadcast(c, n)
    ELSE held' = [held EXCEPT ![c] = n] /\ UNCHANGED <<stored, inbox>>

SignIn(c) ==
  /\ held[c] = 0
  /\ \E n \in Tokens :
       /\ Issue(n)
       /\ live' = live \cup {n}
       /\ Adopt(c, n)
  /\ UNCHANGED <<todo, isRefreshing, req, historyVars>>

(* A request of a signed-in client; the others fail before they are sent or  *)
(* are answered 401 at once.                                                 *)
Send(r, c) ==
  /\ r \in todo /\ held[c] # 0
  /\ todo' = todo \ {r}
  /\ \E l \in Lanes(c) :
       req' = [req EXCEPT ![r] = [home |-> c, lane |-> l, at |-> "sent",
                                  token |-> held[c], retried |-> FALSE]]
  /\ UNCHANGED <<serverVars, clientVars, historyVars>>

(* The answer to the request, or none: fetch throws.                         *)
Answered(r) ==
  /\ At(r, "sent") /\ req[r].token > expired
  /\ End({r})
  /\ UNCHANGED <<serverVars, clientVars, todo, historyVars>>

RequestLost(r) ==
  /\ At(r, "sent")
  /\ End({r})
  /\ UNCHANGED <<serverVars, clientVars, todo, historyVars>>

(* A first 401 is not the end of it.  An access token that has expired stays *)
(* so: when the server found out and when the client hears of it is one step *)
Rejected(r) == At(r, "sent") /\ req[r].token <= expired /\ ~req[r].retried

RejectedAgain(r) ==
  /\ At(r, "sent") /\ req[r].token <= expired /\ req[r].retried
  /\ Deny({r})
  /\ UNCHANGED <<serverVars, clientVars, todo, presented, contested, faults, struck>>

\* Variant: isRefreshing is not looked at.
NobodyRefreshes(r) == FALSE

(* isRefreshing: an apiFetch of this tab is refreshing already.              *)
OthersRefresh(r) == req[r].lane # Alone /\ isRefreshing[req[r].lane]

Wait(r) ==
  /\ Rejected(r) /\ OthersRefresh(r)
  /\ Move(r, "waiting")
  /\ UNCHANGED <<serverVars, todo, clientVars, historyVars>>

Refresh(r) ==
  LET n == held[req[r].home] IN
  /\ Rejected(r) /\ ~OthersRefresh(r)
  /\ n # 0
  /\ isRefreshing' = [c \in Tabs |-> c = req[r].lane \/ isRefreshing[c]]
  /\ req' = [req EXCEPT ![r] = [@ EXCEPT !.at = "flight", !.token = n]]
  /\ presented' = [presented EXCEPT ![n] = @ \cup {req[r].lane}]
  /\ contested' = IF \A l \in presented[n] : l = req[r].lane /\ l # Alone
                    THEN contested
                    ELSE contested \cup {Session(req[r].home)}
  /\ UNCHANGED <<serverVars, todo, held, stored, inbox, denied, faults, struck>>

(* Without a refresh token, or when it is refused or no answer comes, a tab  *)
(* ends its session and tells the others; the app keeps what it has and      *)
(* hands the 401 on.                                                         *)
GiveUp(r) ==
  LET c == req[r].home IN
  /\ IF c \in Tabs
       THEN ClearSession(c, {r}) /\ inbox' = Broadcast(c, 0)
       ELSE Deny({r}) /\ UNCHANGED clientVars
  /\ UNCHANGED <<serverVars, todo, presented, contested>>

NoRefreshToken(r) ==
  /\ Rejected(r) /\ ~OthersRefresh(r)
  /\ held[req[r].home] = 0
  /\ GiveUp(r)
  /\ UNCHANGED <<faults, struck>>

RefreshRefused(r) ==
  /\ At(r, "flight") /\ req[r].token \notin live
  /\ GiveUp(r)
  /\ UNCHANGED <<faults, struck>>

RefreshLost(r) ==
  /\ At(r, "flight") \/ At(r, "rotated")
  /\ Strike({Session(req[r].home)})
  /\ GiveUp(r)

(* processQueue(null, n): the requests that are sent again.                  *)
Resolved(r) == {r} \cup Waiting(req[r].lane)

(* The new tokens arrive, perhaps after the tab has ended its session.       *)
Refreshed(r) ==
  /\ At(r, "rotated")
  /\ Adopt(req[r].home, req[r].token)
  /\ isRefreshing' = [c \in Tabs |-> c # req[r].lane /\ isRefreshing[c]]
  /\ SendAgain(Resolved(r), req[r].token)
  /\ UNCHANGED <<serverVars, todo, historyVars>>

(* The user signs out: clearSession of a tab, logout of the app.             *)
SignOut(c) ==
  /\ held[c] # 0
  /\ Strike({Session(c)})
  /\ IF c \in Tabs
       THEN ClearSession(c, {}) /\ inbox' = Broadcast(c, 0)
       ELSE /\ held' = [held EXCEPT ![c] = 0]
            /\ UNCHANGED <<stored, inbox, isRefreshing, req, denied>>
  /\ UNCHANGED <<serverVars, todo, presented, contested>>

(* A broadcast arrives; it is not sent on.                                   *)
Deliver(c) ==
  /\ inbox[c] # <<>>
  /\ inbox' = [inbox EXCEPT ![c] = Tail(@)]
  /\ LET n == Head(inbox[c]) IN
       IF n = 0 THEN ClearSession(c, {})
                ELSE SetSession(c, n) /\ UNCHANGED <<isRefreshing, req, denied>>
  /\ UNCHANGED <<serverVars, todo, presented, contested, faults, struck>>

(* A tab is reloaded, or closed and opened: what it did is gone, its stores  *)
(* start from localStorage.  A refresh under way has reached the server or   *)
(* never will.                                                               *)
Reload(c) ==
  /\ Strike({Browser})
  /\ held' = [held EXCEPT ![c] = stored]
  /\ inbox' = [inbox EXCEPT ![c] = <<>>]
  /\ isRefreshing' = [isRefreshing EXCEPT ![c] = FALSE]
  /\ End({r \in Requests : req[r] # None /\ req[r].home = c})
  /\ UNCHANGED <<serverVars, todo, stored, presented, contested, denied>>

Next ==
  \/ Expire \/ RevokeAll
  \/ \E c \in Clients : SignIn(c) \/ SignOut(c)
  \/ \E c \in Tabs : Deliver(c) \/ Reload(c)
  \/ \E r \in Requests :
       \/ \E c \in Clients : Send(r, c)
       \/ Answered(r) \/ RequestLost(r) \/ RejectedAgain(r)
       \/ Wait(r) \/ Refresh(r) \/ NoRefreshToken(r)
       \/ Rotate(r) \/ Refreshed(r) \/ RefreshRefused(r) \/ RefreshLost(r)

Spec == Init /\ [][Next]_vars

-----------------------------------------------------------------------------
(* Properties.                                                               *)

(* A user is sent to the sign-in form only for a cause: a sign-out, a        *)
(* revocation, a lost answer or a reload in that session, or two that        *)
(* presented one refresh token, of whom the second is refused.  The apiFetch *)
(* calls of one tab never do that to each other.                             *)
DeniedForCause ==
  denied \subseteq struck \cup contested

(* failedQueue is emptied: while somebody waits in a tab, that tab says it   *)
(* is refreshing and one of its requests is on its way to the server.        *)
WaitersHaveAFlight ==
  \A c \in Tabs :
    Waiting(c) # {} =>
      /\ isRefreshing[c]
      /\ \E r \in Requests :
           /\ At(r, "flight") \/ At(r, "rotated")
           /\ req[r].lane = c

=============================================================================
