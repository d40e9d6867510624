--------------------------- MODULE SessionsProofs ---------------------------
(***************************************************************************)
(* Theorems about Sessions, for any tabs, installations and requests.      *)
(***************************************************************************)
EXTENDS Sessions, SequenceTheorems, TLAPS

Busy(r) == At(r, "flight") \/ At(r, "rotated")

-----------------------------------------------------------------------------
(* Types.                                                                   *)

LEMMA EndKeepsTypes ==
  ASSUME TypeOK, NEW R, End(R)
  PROVE  req' \in [Requests -> RequestStates \cup {None}]
BY DEF TypeOK, End

LEMMA DenyKeepsTypes ==
  ASSUME TypeOK, NEW R \in SUBSET Requests, \A r \in R : req[r] # None,
         Deny(R)
  PROVE  /\ req' \in [Requests -> RequestStates \cup {None}]
         /\ denied' \subseteq SessionIds
<1>1. \A r \in R : req[r].home \in Clients
  BY DEF TypeOK, RequestStates
<1> QED  BY <1>1, EndKeepsTypes DEF Deny, SessionIds, TypeOK

LEMMA WaitingAreRequests ==
  ASSUME NEW c PROVE Waiting(c) \subseteq Requests /\ \A r \in Waiting(c) : req[r] # None
BY DEF Waiting, At

LEMMA BroadcastTypes ==
  ASSUME TypeOK, NEW c, NEW n \in 0..MaxTokens
  PROVE  Broadcast(c, n) \in [Tabs -> Seq(0..MaxTokens)]
<1>1. ASSUME NEW d \in Tabs PROVE Append(inbox[d], n) \in Seq(0..MaxTokens)
  <2>1. inbox[d] \in Seq(0..MaxTokens)  BY DEF TypeOK
  <2> QED  BY <2>1
<1> QED  BY <1>1 DEF TypeOK, Broadcast

LEMMA ClearKeepsTypes ==
  ASSUME TypeOK, NEW c \in Tabs, NEW R \in SUBSET Requests,
         \A r \in R : req[r] # None, ClearSession(c, R)
  PROVE  /\ held' \in [Clients -> 0..MaxTokens] /\ stored' \in 0..MaxTokens
         /\ isRefreshing' \in [Tabs -> BOOLEAN]
         /\ req' \in [Requests -> RequestStates \cup {None}]
         /\ denied' \subseteq SessionIds
<1>1. Deny(R \cup Waiting(c))  BY DEF ClearSession
<1>2. /\ req' \in [Requests -> RequestStates \cup {None}]
      /\ denied' \subseteq SessionIds
  BY <1>1, DenyKeepsTypes, WaitingAreRequests
<1>3. 0 \in 0..MaxTokens  BY ConstantsAssumption
<1>4. held' \in [Clients -> 0..MaxTokens] /\ stored' \in 0..MaxTokens
  BY <1>3 DEF ClearSession, TypeOK
<1>5. isRefreshing' \in [Tabs -> BOOLEAN]
  BY DEF ClearSession, TypeOK
<1> QED  BY <1>2, <1>4, <1>5

LEMMA AdoptKeepsTypes ==
  ASSUME TypeOK, NEW c \in Clients, NEW n \in 0..MaxTokens, Adopt(c, n)
  PROVE  /\ held' \in [Clients -> 0..MaxTokens] /\ stored' \in 0..MaxTokens
         /\ inbox' \in [Tabs -> Seq(0..MaxTokens)]
<1>1. held' \in [Clients -> 0..MaxTokens] /\ stored' \in 0..MaxTokens
  BY DEF Adopt, SetSession, TypeOK
<1>2. inbox' \in [Tabs -> Seq(0..MaxTokens)]
  BY BroadcastTypes DEF Adopt, TypeOK
<1> QED  BY <1>1, <1>2

LEMMA GiveUpKeepsTypes ==
  ASSUME TypeOK, NEW r \in Requests, req[r] # None, GiveUp(r)
  PROVE  /\ held' \in [Clients -> 0..MaxTokens] /\ stored' \in 0..MaxTokens
         /\ inbox' \in [Tabs -> Seq(0..MaxTokens)]
         /\ isRefreshing' \in [Tabs -> BOOLEAN]
         /\ req' \in [Requests -> RequestStates \cup {None}]
         /\ denied' \subseteq SessionIds
         /\ UNCHANGED <<issued, live, expired, todo, presented, contested>>
<1>1. CASE req[r].home \in Tabs
  <2>1. ClearSession(req[r].home, {r}) /\ inbox' = Broadcast(req[r].home, 0)
    BY <1>1 DEF GiveUp
  <2> QED
    BY <1>1, <2>1, ClearKeepsTypes, BroadcastTypes, ConstantsAssumption
    DEF GiveUp, serverVars
<1>2. CASE req[r].home \notin Tabs
  BY <1>2, DenyKeepsTypes DEF GiveUp, TypeOK, serverVars, clientVars
<1> QED  BY <1>1, <1>2

LEMMA TypeInit == Init => TypeOK
BY ConstantsAssumption DEF Init, TypeOK, Tokens, SessionIds

LEMMA TypeStep == TypeOK /\ [Next]_vars => TypeOK'
<1> SUFFICES ASSUME TypeOK, [Next]_vars PROVE TypeOK'  OBVIOUS
<1> USE ConstantsAssumption, NoneAssumption
<1>1. CASE Expire
  BY <1>1 DEF Expire, TypeOK, clientVars, historyVars
<1>2. CASE RevokeAll
  BY <1>2 DEF RevokeAll, Strike, TypeOK, clientVars
<1>3. ASSUME NEW c \in Clients, SignIn(c) PROVE TypeOK'
  <2>1. PICK n \in Tokens : Issue(n) /\ live' = live \cup {n} /\ Adopt(c, n)
    BY <1>3 DEF SignIn
  <2>2. n \in 0..MaxTokens  BY DEF Tokens
  <2>3. /\ held' \in [Clients -> 0..MaxTokens] /\ stored' \in 0..MaxTokens
        /\ inbox' \in [Tabs -> Seq(0..MaxTokens)]
    BY <2>1, <2>2, AdoptKeepsTypes
  <2>4. issued' \in 0..MaxTokens /\ live' \subseteq 1..issued' /\ expired' \in 0..issued'
    BY <2>1 DEF Issue, TypeOK
  <2> QED  BY <1>3, <2>3, <2>4 DEF SignIn, TypeOK, historyVars
<1>4. ASSUME NEW c \in Clients, SignOut(c) PROVE TypeOK'
  <2>1. faults' \in 0..MaxFaults /\ struck' \subseteq SessionIds
    BY <1>4 DEF SignOut, Strike, TypeOK, SessionIds
  <2>2. CASE c \in Tabs
    <3>1. ClearSession(c, {}) /\ inbox' = Broadcast(c, 0)
      BY <1>4, <2>2 DEF SignOut
    <3>2. /\ held' \in [Clients -> 0..MaxTokens] /\ stored' \in 0..MaxTokens
          /\ isRefreshing' \in [Tabs -> BOOLEAN]
          /\ req' \in [Requests -> RequestStates \cup {None}]
          /\ denied' \subseteq SessionIds
      BY <2>2, <3>1, ClearKeepsTypes
    <3>3. inbox' \in [Tabs -> Seq(0..MaxTokens)]
      BY <3>1, BroadcastTypes
    <3> QED  BY <1>4, <2>1, <3>2, <3>3 DEF SignOut, TypeOK, serverVars
  <2>3. CASE c \notin Tabs
    <3>1. held' \in [Clients -> 0..MaxTokens]  BY <1>4, <2>3 DEF SignOut, TypeOK
    <3> QED  BY <1>4, <2>1, <2>3, <3>1 DEF SignOut, TypeOK, serverVars
  <2> QED  BY <2>2, <2>3
<1>5. ASSUME NEW c \in Tabs, Deliver(c) PROVE TypeOK'
  <2>1. Head(inbox[c]) \in 0..MaxTokens /\ Tail(inbox[c]) \in Seq(0..MaxTokens)
    BY <1>5 DEF Deliver, TypeOK
  <2>2. inbox' \in [Tabs -> Seq(0..MaxTokens)]
    BY <1>5, <2>1 DEF Deliver, TypeOK
  <2>3. CASE Head(inbox[c]) = 0
    <3>1. ClearSession(c, {})  BY <1>5, <2>3 DEF Deliver
    <3> QED  BY <1>5, <2>2, <3>1, ClearKeepsTypes DEF Deliver, TypeOK, serverVars
  <2>4. CASE Head(inbox[c]) # 0
    BY <1>5, <2>1, <2>2, <2>4 DEF Deliver, SetSession, TypeOK, serverVars
  <2> QED  BY <2>3, <2>4
<1>6. ASSUME NEW c \in Tabs, Reload(c) PROVE TypeOK'
  <2>1. Browser \in SessionIds  BY <1>6 DEF SessionIds, Session, Clients
  <2>2. faults' \in 0..MaxFaults /\ struck' \subseteq SessionIds
    BY <1>6, <2>1 DEF Reload, Strike, TypeOK
  <2>3. req' \in [Requests -> RequestStates \cup {None}]
    BY <1>6, EndKeepsTypes DEF Reload
  <2>4. /\ held' \in [Clients -> 0..MaxTokens]
        /\ inbox' \in [Tabs -> Seq(0..MaxTokens)]
        /\ isRefreshing' \in [Tabs -> BOOLEAN]
    <3>1. << >> \in Seq(0..MaxTokens)  OBVIOUS
    <3> QED  BY <1>6, <3>1 DEF Reload, TypeOK
  <2> QED  BY <1>6, <2>2, <2>3, <2>4 DEF Reload, TypeOK, serverVars
<1>7. ASSUME NEW r \in Requests, NEW c \in Clients, Send(r, c) PROVE TypeOK'
  <2>1. PICK l \in Lanes(c) :
          req' = [req EXCEPT ![r] = [home |-> c, lane |-> l, at |-> "sent",
                                     token |-> held[c], retried |-> FALSE]]
    BY <1>7 DEF Send
  <2>2. l \in Tabs \cup {Alone}  BY DEF Lanes
  <2>3. [home |-> c, lane |-> l, at |-> "sent", token |-> held[c],
         retried |-> FALSE] \in RequestStates
    BY <2>2 DEF RequestStates, Steps, TypeOK
  <2> QED
    BY <1>7, <2>1, <2>3 DEF Send, TypeOK, serverVars, clientVars, historyVars
<1>8. ASSUME NEW r \in Requests, Answered(r) \/ RequestLost(r) PROVE TypeOK'
  BY <1>8, EndKeepsTypes
  DEF Answered, RequestLost, TypeOK, serverVars, clientVars, historyVars
<1>9. ASSUME NEW r \in Requests, RejectedAgain(r) PROVE TypeOK'
  BY <1>9, DenyKeepsTypes DEF RejectedAgain, At, TypeOK, serverVars, clientVars
<1>10. ASSUME NEW r \in Requests, Wait(r) PROVE TypeOK'
  <2>1. req' \in [Requests -> RequestStates \cup {None}]
    BY <1>10 DEF Wait, Rejected, At, Move, TypeOK, RequestStates, Steps
  <2> QED
    BY <1>10, <2>1 DEF Wait, TypeOK, serverVars, clientVars, historyVars
<1>11. ASSUME NEW r \in Requests, Refresh(r) PROVE TypeOK'
  <2> DEFINE n == held[req[r].home]
  <2>1. req[r] \in RequestStates  BY <1>11 DEF Refresh, Rejected, At, TypeOK
  <2>2. req[r].home \in Clients /\ req[r].lane \in Tabs \cup {Alone} /\ n \in Tokens
    BY <1>11, <2>1 DEF Refresh, TypeOK, RequestStates, Tokens
  <2>3. req' \in [Requests -> RequestStates \cup {None}]
    BY <1>11, <2>1, <2>2 DEF Refresh, TypeOK, RequestStates, Steps, Tokens
  <2>4. presented' \in [Tokens -> SUBSET (Tabs \cup {Alone})]
    BY <1>11, <2>2 DEF Refresh, TypeOK
  <2>5. contested' \subseteq SessionIds
    BY <1>11, <2>2 DEF Refresh, TypeOK, SessionIds
  <2> QED  BY <1>11, <2>3, <2>4, <2>5 DEF Refresh, TypeOK, serverVars
<1>12. ASSUME NEW r \in Requests, NoRefreshToken(r) \/ RefreshRefused(r) PROVE TypeOK'
  <2>1. req[r] # None /\ GiveUp(r) /\ UNCHANGED <<faults, struck>>
    BY <1>12 DEF NoRefreshToken, RefreshRefused, Rejected, At
  <2> QED  BY <2>1, GiveUpKeepsTypes DEF TypeOK
<1>13. ASSUME NEW r \in Requests, RefreshLost(r) PROVE TypeOK'
  <2>1. req[r] # None /\ GiveUp(r)
    BY <1>13 DEF RefreshLost, At
  <2>2. faults' \in 0..MaxFaults /\ struck' \subseteq SessionIds
    BY <1>13, <2>1 DEF RefreshLost, Strike, TypeOK, SessionIds, RequestStates
  <2> QED  BY <2>1, <2>2, GiveUpKeepsTypes DEF TypeOK
<1>14. ASSUME NEW r \in Requests, Rotate(r) PROVE TypeOK'
  <2>1. PICK n \in Tokens :
          /\ Issue(n) /\ live' = (live \ {req[r].token}) \cup {n}
          /\ req' = [req EXCEPT ![r] = [@ EXCEPT !.at = "rotated", !.token = n]]
    BY <1>14 DEF Rotate
  <2>2. req[r] \in RequestStates  BY <1>14 DEF Rotate, At, TypeOK
  <2>3. req' \in [Requests -> RequestStates \cup {None}]
    <3>0. n \in 0..MaxTokens  BY DEF Tokens
    <3>1. [req[r] EXCEPT !.at = "rotated", !.token = n] \in RequestStates
      BY <2>2, <3>0 DEF RequestStates, Steps
    <3>2. req' = [req EXCEPT ![r] = [req[r] EXCEPT !.at = "rotated", !.token = n]]
      BY ONLY <2>1
    <3>3. req \in [Requests -> RequestStates \cup {None}]  BY DEF TypeOK
    <3> QED  BY ONLY <3>1, <3>2, <3>3
  <2>4. issued' \in 0..MaxTokens /\ live' \subseteq 1..issued' /\ expired' \in 0..issued'
    BY <2>1 DEF Issue, TypeOK
  <2> QED  BY <1>14, <2>3, <2>4 DEF Rotate, TypeOK, clientVars, historyVars
<1>15. ASSUME NEW r \in Requests, Refreshed(r) PROVE TypeOK'
  <2>1. req[r] \in RequestStates  BY <1>15 DEF Refreshed, At, TypeOK
  <2>2. req[r].home \in Clients /\ req[r].token \in 0..MaxTokens
    BY <2>1 DEF RequestStates
  <2>3. /\ held' \in [Clients -> 0..MaxTokens] /\ stored' \in 0..MaxTokens
        /\ inbox' \in [Tabs -> Seq(0..MaxTokens)]
    BY <1>15, <2>2, AdoptKeepsTypes DEF Refreshed
  <2>4. \A q \in Resolved(r) : q \in Requests /\ req[q] \in RequestStates
    BY <1>15, <2>1 DEF Resolved, Waiting, At, TypeOK
  <2>5. req' \in [Requests -> RequestStates \cup {None}]
    BY <1>15, <2>2, <2>4 DEF Refreshed, SendAgain, TypeOK, RequestStates, Steps
  <2> QED  BY <1>15, <2>3, <2>5 DEF Refreshed, TypeOK, serverVars, historyVars
<1>16. CASE UNCHANGED vars
  BY <1>16 DEF vars, serverVars, clientVars, historyVars, TypeOK
<1> QED
  BY <1>1, <1>2, <1>3, <1>4, <1>5, <1>6, <1>7, <1>8, <1>9, <1>10, <1>11, <1>12,
     <1>13, <1>14, <1>15, <1>16 DEF Next

(* TypeOK, for any tabs, installations, requests and bounds.                *)
THEOREM SessionTypes == Spec => []TypeOK
BY TypeInit, TypeStep, PTL DEF Spec

-----------------------------------------------------------------------------
(* Nobody waits in vain.                                                    *)

LanesStand ==
  \A r \in Requests : req[r] # None =>
    /\ r \notin todo
    /\ req[r].lane \in Lanes(req[r].home)
    /\ At(r, "waiting") => req[r].lane \in Tabs

Flies(c) == \E r \in Requests : Busy(r) /\ req[r].lane = c

RefreshersFly == \A c \in Tabs : isRefreshing[c] => Flies(c)

WaitersWait ==
  \A r \in Requests : At(r, "waiting") => isRefreshing[req[r].lane]

QueueInv == TypeOK /\ LanesStand /\ RefreshersFly /\ WaitersWait

LEMMA LaneOfTab ==
  ASSUME TypeOK, LanesStand, NEW r \in Requests, req[r] # None,
         req[r].lane \in Tabs
  PROVE  req[r].home = req[r].lane
BY NamesAssumption DEF LanesStand, Lanes, Clients

(* A request that is moved on is still a request.                            *)
LEMMA MovedRequests ==
  ASSUME NEW x \in RequestStates, NEW s \in Steps, NEW n \in 0..MaxTokens
  PROVE  /\ [x EXCEPT !.at = s, !.token = n] \in RequestStates
         /\ [x EXCEPT !.at = s, !.token = n] # None
<1>1. [x EXCEPT !.at = s, !.token = n] \in RequestStates  BY DEF RequestStates
<1> QED  BY <1>1, NoneAssumption

LEMMA QueueInvImplies == QueueInv => WaitersHaveAFlight
<1> SUFFICES ASSUME QueueInv, NEW c \in Tabs, NEW r \in Waiting(c)
             PROVE  isRefreshing[c] /\ Flies(c)
  BY DEF WaitersHaveAFlight, Flies, Busy
<1>1. r \in Requests /\ At(r, "waiting") /\ req[r].home = c /\ req[r] # None
  BY DEF Waiting, At
<1>2. req[r].lane = c
  BY <1>1, LaneOfTab DEF QueueInv, LanesStand
<1> QED  BY <1>1, <1>2 DEF QueueInv, WaitersWait, RefreshersFly

(* A tab that ends its session has nobody waiting any more; the flights of   *)
(* the other tabs go on.                                                     *)
LEMMA ClearKeepsQueues ==
  ASSUME QueueInv, NEW c \in Tabs, NEW R \in SUBSET Requests,
         \A r \in R : req[r] # None /\ req[r].home = c, ClearSession(c, R),
         todo' = todo
  PROVE  LanesStand' /\ RefreshersFly' /\ WaitersWait'
<1>1. End(R \cup Waiting(c))  BY DEF ClearSession, Deny
<1>2. \A r \in Requests : req'[r] # None =>
         req'[r] = req[r] /\ r \notin R /\ r \notin Waiting(c)
  BY <1>1 DEF End
<1>3. LanesStand'
  BY <1>2 DEF QueueInv, LanesStand, At
<1>4. isRefreshing' = [isRefreshing EXCEPT ![c] = FALSE]  BY DEF ClearSession
<1>5. RefreshersFly'
  <2> SUFFICES ASSUME NEW d \in Tabs, isRefreshing'[d] PROVE Flies(d)'
    BY DEF RefreshersFly
  <2>1. d # c /\ isRefreshing[d]  BY <1>4 DEF QueueInv, TypeOK
  <2>2. PICK q \in Requests : Busy(q) /\ req[q].lane = d
    BY <2>1 DEF QueueInv, RefreshersFly, Flies
  <2>3. req[q] # None /\ req[q].home = d
    BY <2>2, LaneOfTab DEF QueueInv, Busy, At
  <2>4. q \notin R \cup Waiting(c)  BY <2>1, <2>3 DEF Waiting
  <2>5. req'[q] = req[q]  BY <1>1, <2>4 DEF End
  <2> QED  BY <2>2, <2>5 DEF Flies, Busy, At
<1>6. WaitersWait'
  <2> SUFFICES ASSUME NEW q \in Requests, At(q, "waiting")'
               PROVE  isRefreshing'[req'[q].lane]
    BY DEF WaitersWait
  <2>1. req'[q] = req[q] /\ At(q, "waiting") /\ req[q].home # c /\ req[q] # None
    BY <1>2 DEF At, Waiting
  <2>2. req[q].lane \in Tabs /\ req[q].lane # c
    BY <2>1, LaneOfTab DEF QueueInv, LanesStand
  <2> QED  BY <1>4, <2>1, <2>2 DEF QueueInv, WaitersWait, TypeOK
<1> QED  BY <1>3, <1>5, <1>6

LEMMA GiveUpKeepsQueues ==
  ASSUME QueueInv, NEW r \in Requests, req[r] # None,
         Busy(r) \/ req[r].at = "sent", GiveUp(r)
  PROVE  LanesStand' /\ RefreshersFly' /\ WaitersWait'
<1>1. CASE req[r].home \in Tabs
  BY <1>1, ClearKeepsQueues DEF GiveUp
<1>2. CASE req[r].home \notin Tabs
  <2>1. End({r}) /\ isRefreshing' = isRefreshing /\ todo' = todo
    BY <1>2 DEF GiveUp, Deny, clientVars
  <2>2. req[r].lane \notin Tabs
    BY <1>2, LaneOfTab DEF QueueInv
  <2>3. \A q \in Requests : req'[q] = IF q = r THEN None ELSE req[q]
    BY <2>1 DEF End
  <2>4. LanesStand'  BY <2>1, <2>3 DEF QueueInv, LanesStand, At
  <2>5. WaitersWait'  BY <2>1, <2>3 DEF QueueInv, WaitersWait, At
  <2>6. RefreshersFly'
    <3> SUFFICES ASSUME NEW d \in Tabs, isRefreshing[d] PROVE Flies(d)'
      BY <2>1 DEF RefreshersFly
    <3>1. PICK q \in Requests : Busy(q) /\ req[q].lane = d
      BY DEF QueueInv, RefreshersFly, Flies
    <3>2. q # r  BY <2>2, <3>1
    <3> QED  BY <2>3, <3>1, <3>2 DEF Flies, Busy, At
  <2> QED  BY <2>4, <2>5, <2>6
<1> QED  BY <1>1, <1>2

(* Requests that are not on their way to the server end, and no tab stops    *)
(* refreshing.                                                               *)
LEMMA EndKeepsQueues ==
  ASSUME QueueInv, NEW r \in Requests, At(r, "sent"), End({r}),
         isRefreshing' = isRefreshing, todo' = todo
  PROVE  LanesStand' /\ RefreshersFly' /\ WaitersWait'
<1>1. \A q \in Requests : req'[q] = IF q = r THEN None ELSE req[q]
  BY DEF End
<1>2. LanesStand'  BY <1>1 DEF QueueInv, LanesStand, At
<1>3. WaitersWait'  BY <1>1 DEF QueueInv, WaitersWait, At
<1>4. RefreshersFly'
  BY <1>1 DEF QueueInv, RefreshersFly, Flies, Busy, At
<1> QED  BY <1>2, <1>3, <1>4

LEMMA QueueStep == QueueInv /\ [Next]_vars => QueueInv'
<1> SUFFICES ASSUME QueueInv, [Next]_vars
             PROVE  LanesStand' /\ RefreshersFly' /\ WaitersWait'
  BY TypeStep DEF QueueInv
<1>1. CASE UNCHANGED <<todo, req, isRefreshing>>
  BY <1>1 DEF QueueInv, LanesStand, RefreshersFly, WaitersWait, Flies, Busy, At
<1>2. CASE Expire \/ RevokeAll \/ (\E c \in Clients : SignIn(c)) \/ UNCHANGED vars
  BY <1>1, <1>2 DEF Expire, RevokeAll, SignIn, vars, clientVars
<1>3. ASSUME NEW c \in Clients, SignOut(c)
      PROVE  LanesStand' /\ RefreshersFly' /\ WaitersWait'
  BY <1>1, <1>3, ClearKeepsQueues DEF SignOut
<1>4. ASSUME NEW c \in Tabs, Deliver(c)
      PROVE  LanesStand' /\ RefreshersFly' /\ WaitersWait'
  BY <1>1, <1>4, ClearKeepsQueues DEF Deliver
<1>5. ASSUME NEW c \in Tabs, Reload(c)
      PROVE  LanesStand' /\ RefreshersFly' /\ WaitersWait'
  <2>1. \A q \in Requests :
          req'[q] = IF req[q] # None /\ req[q].home = c THEN None ELSE req[q]
    BY <1>5 DEF Reload, End
  <2>2. isRefreshing' = [isRefreshing EXCEPT ![c] = FALSE]  BY <1>5 DEF Reload
  <2>3. LanesStand'  BY <1>5, <2>1 DEF Reload, QueueInv, LanesStand, At
  <2>4. WaitersWait'
    <3> SUFFICES ASSUME NEW q \in Requests, At(q, "waiting")'
                 PROVE  isRefreshing'[req'[q].lane]
      BY DEF WaitersWait
    <3>1. req'[q] = req[q] /\ At(q, "waiting") /\ req[q].home # c /\ req[q] # None
      BY <2>1 DEF At
    <3>2. req[q].lane \in Tabs /\ req[q].lane # c
      BY <3>1, LaneOfTab DEF QueueInv, LanesStand
    <3> QED  BY <2>2, <3>1, <3>2 DEF QueueInv, WaitersWait, TypeOK
  <2>5. RefreshersFly'
    <3> SUFFICES ASSUME NEW d \in Tabs, isRefreshing'[d] PROVE Flies(d)'
      BY DEF RefreshersFly
    <3>1. d # c /\ isRefreshing[d]  BY <2>2 DEF QueueInv, TypeOK
    <3>2. PICK q \in Requests : Busy(q) /\ req[q].lane = d
      BY <3>1 DEF QueueInv, RefreshersFly, Flies
    <3>3. req[q].home = d
      BY <3>2, LaneOfTab DEF QueueInv, Busy, At
    <3>4. req'[q] = req[q]  BY <2>1, <3>1, <3>3
    <3> QED  BY <3>2, <3>4 DEF Flies, Busy, At
  <2> QED  BY <2>3, <2>4, <2>5
<1>6. ASSUME NEW r \in Requests, NEW c \in Clients, Send(r, c)
      PROVE  LanesStand' /\ RefreshersFly' /\ WaitersWait'
  <2>1. PICK l \in Lanes(c) :
          req' = [req EXCEPT ![r] = [home |-> c, lane |-> l, at |-> "sent",
                                     token |-> held[c], retried |-> FALSE]]
    BY <1>6 DEF Send
  <2>2. isRefreshing' = isRefreshing /\ todo' = todo \ {r} /\ req[r] = None
    BY <1>6 DEF Send, clientVars, QueueInv, LanesStand
  <2>3. /\ req'[r] = [home |-> c, lane |-> l, at |-> "sent",
                      token |-> held[c], retried |-> FALSE]
        /\ \A q \in Requests \ {r} : req'[q] = req[q]
    BY <2>1 DEF QueueInv, TypeOK
  <2>4. LanesStand'  BY <2>2, <2>3 DEF QueueInv, LanesStand, At
  <2>5. WaitersWait'  BY <2>2, <2>3 DEF QueueInv, WaitersWait, At
  <2>6. RefreshersFly'
    BY <2>2, <2>3 DEF QueueInv, RefreshersFly, Flies, Busy, At
  <2> QED  BY <2>4, <2>5, <2>6
<1>7. ASSUME NEW r \in Requests, Answered(r) \/ RequestLost(r) \/ RejectedAgain(r)
      PROVE  LanesStand' /\ RefreshersFly' /\ WaitersWait'
  BY <1>7, EndKeepsQueues
  DEF Answered, RequestLost, RejectedAgain, Deny, clientVars
<1>8. ASSUME NEW r \in Requests, Wait(r)
      PROVE  LanesStand' /\ RefreshersFly' /\ WaitersWait'
  <2>1. /\ isRefreshing' = isRefreshing /\ todo' = todo
        /\ At(r, "sent") /\ req[r].lane # Alone /\ isRefreshing[req[r].lane]
        /\ req' = [req EXCEPT ![r].at = "waiting"]
    BY <1>8 DEF Wait, Rejected, OthersRefresh, Move, clientVars
  <2>2. req[r] \in RequestStates /\ req[r] # None
    BY <2>1 DEF QueueInv, TypeOK, At
  <2>3. /\ req'[r] = [req[r] EXCEPT !.at = "waiting"]
        /\ \A q \in Requests \ {r} : req'[q] = req[q]
    BY <2>1 DEF QueueInv, TypeOK
  <2>4. req'[r].lane = req[r].lane /\ req'[r].home = req[r].home
        /\ req'[r].at = "waiting"
    BY <2>2, <2>3 DEF RequestStates
  <2>5. req[r].lane \in Tabs  BY <2>1, <2>2 DEF RequestStates
  <2>6. LanesStand'
    BY <2>1, <2>2, <2>3, <2>4, <2>5 DEF QueueInv, LanesStand, At
  <2>7. WaitersWait'
    BY <2>1, <2>3, <2>4 DEF QueueInv, WaitersWait, At
  <2>8. RefreshersFly'
    BY <2>1, <2>3 DEF QueueInv, RefreshersFly, Flies, Busy, At
  <2> QED  BY <2>6, <2>7, <2>8
<1>9. ASSUME NEW r \in Requests, Refresh(r)
      PROVE  LanesStand' /\ RefreshersFly' /\ WaitersWait'
  <2>1. /\ isRefreshing' = [c \in Tabs |-> c = req[r].lane \/ isRefreshing[c]]
        /\ todo' = todo /\ At(r, "sent")
        /\ req' = [req EXCEPT ![r] = [req[r] EXCEPT !.at = "flight",
                                       !.token = held[req[r].home]]]
    BY <1>9 DEF Refresh, Rejected
  <2>2. req[r] \in RequestStates /\ req[r] # None
    BY <2>1 DEF QueueInv, TypeOK, At
  <2>3. /\ req'[r] = [req[r] EXCEPT !.at = "flight", !.token = held[req[r].home]]
        /\ \A q \in Requests \ {r} : req'[q] = req[q]
    BY <2>1 DEF QueueInv, TypeOK
  <2>4. req'[r].lane = req[r].lane /\ req'[r].home = req[r].home
        /\ req'[r].at = "flight" /\ req'[r] # None
    <3>1. req'[r].lane = req[r].lane /\ req'[r].home = req[r].home
          /\ req'[r].at = "flight"
      BY <2>2, <2>3 DEF RequestStates
    <3>2. req'[r] # None
      <4>1. held[req[r].home] \in 0..MaxTokens
        BY <2>2 DEF QueueInv, TypeOK, RequestStates
      <4> QED  BY <2>2, <2>3, <4>1, MovedRequests DEF Steps
    <3> QED  BY <3>1, <3>2
  <2>5. LanesStand'
    BY <2>1, <2>2, <2>3, <2>4 DEF QueueInv, LanesStand, At
  <2>6. WaitersWait'
    <3> SUFFICES ASSUME NEW q \in Requests, At(q, "waiting")'
                 PROVE  isRefreshing'[req'[q].lane]
      BY DEF WaitersWait
    <3>1. q # r /\ req'[q] = req[q] /\ At(q, "waiting") /\ req[q] # None
      BY <2>3, <2>4 DEF At
    <3>2. req[q].lane \in Tabs  BY <3>1 DEF QueueInv, LanesStand
    <3> QED  BY <2>1, <3>1, <3>2 DEF QueueInv, WaitersWait
  <2>7. RefreshersFly'
    <3> SUFFICES ASSUME NEW d \in Tabs, isRefreshing'[d] PROVE Flies(d)'
      BY DEF RefreshersFly
    <3>1. CASE d = req[r].lane
      BY <2>4, <3>1 DEF Flies, Busy, At
    <3>2. CASE d # req[r].lane
      <4>1. PICK q \in Requests : Busy(q) /\ req[q].lane = d
        BY <2>1, <3>2 DEF QueueInv, RefreshersFly, Flies
      <4> QED  BY <2>1, <2>3, <3>2, <4>1 DEF Flies, Busy, At
    <3> QED  BY <3>1, <3>2
  <2> QED  BY <2>5, <2>6, <2>7
<1>10. ASSUME NEW r \in Requests,
             NoRefreshToken(r) \/ RefreshRefused(r) \/ RefreshLost(r)
       PROVE  LanesStand' /\ RefreshersFly' /\ WaitersWait'
  <2>1. req[r] # None /\ (Busy(r) \/ req[r].at = "sent") /\ GiveUp(r)
    BY <1>10
    DEF NoRefreshToken, RefreshRefused, RefreshLost, Rejected, Busy, At
  <2> QED  BY <2>1, GiveUpKeepsQueues
<1>11. ASSUME NEW r \in Requests, Rotate(r)
       PROVE  LanesStand' /\ RefreshersFly' /\ WaitersWait'
  <2>1. PICK n \in Tokens :
          req' = [req EXCEPT ![r] = [req[r] EXCEPT !.at = "rotated", !.token = n]]
    BY <1>11 DEF Rotate
  <2>2. isRefreshing' = isRefreshing /\ todo' = todo /\ At(r, "flight")
    BY <1>11 DEF Rotate, clientVars
  <2>3. req[r] \in RequestStates /\ req[r] # None
    BY <2>2 DEF QueueInv, TypeOK, At
  <2>4. /\ req'[r] = [req[r] EXCEPT !.at = "rotated", !.token = n]
        /\ \A q \in Requests \ {r} : req'[q] = req[q]
    BY <2>1 DEF QueueInv, TypeOK
  <2>5. req'[r].lane = req[r].lane /\ req'[r].home = req[r].home
        /\ req'[r].at = "rotated"
    BY <2>3, <2>4 DEF RequestStates
  <2>6. req'[r] # None
    <3>1. n \in 0..MaxTokens  BY ConstantsAssumption DEF Tokens
    <3> QED  BY <2>3, <2>4, <3>1, MovedRequests DEF Steps
  <2>7. LanesStand'
    BY <2>2, <2>3, <2>4, <2>5 DEF QueueInv, LanesStand, At
  <2>8. WaitersWait'
    BY <2>2, <2>4, <2>5 DEF QueueInv, WaitersWait, At
  <2>9. RefreshersFly'
    <3> SUFFICES ASSUME NEW d \in Tabs, isRefreshing[d] PROVE Flies(d)'
      BY <2>2 DEF RefreshersFly
    <3>1. PICK q \in Requests : Busy(q) /\ req[q].lane = d
      BY DEF QueueInv, RefreshersFly, Flies
    <3>2. req'[q] # None /\ req'[q].lane = d /\ req'[q].at \in {"flight", "rotated"}
      BY <2>4, <2>5, <2>6, <3>1 DEF Busy, At
    <3> QED  BY <3>2 DEF Flies, Busy, At
  <2> QED  BY <2>7, <2>8, <2>9
<1>12. ASSUME NEW r \in Requests, Refreshed(r)
       PROVE  LanesStand' /\ RefreshersFly' /\ WaitersWait'
  <2>1. /\ At(r, "rotated") /\ todo' = todo
        /\ isRefreshing' = [c \in Tabs |-> c # req[r].lane /\ isRefreshing[c]]
        /\ SendAgain(Resolved(r), req[r].token)
    BY <1>12 DEF Refreshed
  <2>2. \A q \in Requests : q \notin Resolved(r) => req'[q] = req[q]
    BY <2>1 DEF SendAgain
  <2>3. \A q \in Resolved(r) : q \in Requests /\ req[q] \in RequestStates
                                /\ req[q] # None
    BY <2>1 DEF Resolved, Waiting, At, QueueInv, TypeOK
  <2>4. \A q \in Resolved(r) :
          /\ req'[q].lane = req[q].lane /\ req'[q].home = req[q].home
          /\ req'[q].at = "sent"
    BY <2>1, <2>3 DEF SendAgain, RequestStates
  <2>5. LanesStand'
    BY <2>1, <2>2, <2>3, <2>4 DEF QueueInv, LanesStand, At
  <2>6. WaitersWait'
    <3> SUFFICES ASSUME NEW q \in Requests, At(q, "waiting")'
                 PROVE  isRefreshing'[req'[q].lane]
      BY DEF WaitersWait
    <3>1. q \notin Resolved(r) /\ req'[q] = req[q]
      BY <2>2, <2>4 DEF At
    <3>2. At(q, "waiting") /\ req[q] # None /\ req[q].lane \in Tabs
      BY <3>1 DEF At, QueueInv, LanesStand
    <3>3. req[q].lane # req[r].lane
      BY <3>1, <3>2, LaneOfTab DEF Resolved, Waiting, QueueInv
    <3> QED  BY <2>1, <3>1, <3>2, <3>3 DEF QueueInv, WaitersWait
  <2>7. RefreshersFly'
    <3> SUFFICES ASSUME NEW d \in Tabs, isRefreshing'[d] PROVE Flies(d)'
      BY DEF RefreshersFly
    <3>1. d # req[r].lane /\ isRefreshing[d]  BY <2>1
    <3>2. PICK q \in Requests : Busy(q) /\ req[q].lane = d
      BY <3>1 DEF QueueInv, RefreshersFly, Flies
    <3>3. q \notin Resolved(r)
      BY <3>1, <3>2 DEF Resolved, Waiting, Busy, At
    <3> QED  BY <2>2, <3>2, <3>3 DEF Flies, Busy, At
  <2> QED  BY <2>5, <2>6, <2>7
<1> QED
  BY <1>2, <1>3, <1>4, <1>5, <1>6, <1>7, <1>8, <1>9, <1>10, <1>11, <1>12 DEF Next

LEMMA QueueInit == Init => QueueInv
BY TypeInit
DEF Init, QueueInv, LanesStand, RefreshersFly, WaitersWait, At

(* Whoever waits for a refresh in a tab has one on its way, for any number   *)
(* of tabs, requests and faults.                                             *)
THEOREM WaitersAreServed == Spec => []WaitersHaveAFlight
<1>1. Spec => []QueueInv
  BY QueueInit, QueueStep, PTL DEF Spec
<1> QED  BY <1>1, QueueInvImplies, PTL

-----------------------------------------------------------------------------
(***************************************************************************)
(* Nobody is sent to the sign-in form without a cause.                     *)
(*                                                                         *)
(* A session is calm while nothing has struck it and no refresh token was  *)
(* contested in it.  In a calm session every refresh on its way carries a  *)
(* live token of its own (FlightsStand), a client whose token is used up   *)
(* is refreshing with it or would contest it (HeldStand), a broadcast      *)
(* never brings the end of a session (MailStands), and what is sent again  *)
(* carries a token that has not expired (RetriesStand): so nothing is      *)
(* refused.  One lemma per action shows that this is kept: by IdleRequests *)
(* when only requests change, by EndsIn when the session is calm no more,  *)
(* by ActsFor otherwise.                                                   *)
(***************************************************************************)

(* Nothing has struck this session and nobody contested a token in it.      *)
Calm(s) == s \notin struck \cup contested

Of(r, s) == req[r] # None /\ Session(req[r].home) = s

InMail(n, c) == \E i \in 1..Len(inbox[c]) : inbox[c][i] = n

(* A client or a refresh of session s can present token n, now or later.     *)
Belongs(n, s) ==
  \/ \E c \in Clients : Session(c) = s /\ held[c] = n
  \/ \E c \in Tabs : Session(c) = s /\ (stored = n \/ InMail(n, c))
  \/ \E r \in Requests : Busy(r) /\ Of(r, s) /\ req[r].token = n

TokensBelong ==
  \A n \in Tokens, s, t \in SessionIds : Belongs(n, s) /\ Belongs(n, t) => s = t

TokensIssued ==
  \A n \in Tokens :
    (\E s \in SessionIds : Belongs(n, s)) \/ presented[n] # {} => n <= issued

FlightsPresent ==
  \A r \in Requests :
    /\ Busy(r) => req[r].token \in Tokens
    /\ At(r, "flight") => req[r].lane \in presented[req[r].token]

(* In session s only the answer that carries n knows it.                    *)
Private(n, s) ==
  \A c \in Clients : Session(c) = s =>
    held[c] # n /\ (c \in Tabs => ~InMail(n, c))

(* Refreshes of s will succeed, each with a token and a lane of its own.     *)
FlightsStand(s) ==
  \A r \in Requests : Busy(r) /\ Of(r, s) =>
    /\ req[r].token \in live
    /\ At(r, "rotated") =>
         presented[req[r].token] = {} /\ Private(req[r].token, s)
    /\ req[r].lane \in Tabs => isRefreshing[req[r].lane]
    /\ \A q \in Requests \ {r} : Busy(q) /\ Of(q, s) =>
         /\ req[q].token # req[r].token
         /\ req[r].lane \in Tabs => req[q].lane # req[r].lane

(* A client that holds a token which is used up either is refreshing with it *)
(* or somebody else presented it.                                            *)
HeldStand(s) ==
  \A c \in Clients :
    /\ Session(c) = s /\ held[c] # 0 /\ held[c] \notin live
    /\ presented[held[c]] \subseteq {c}
    => c \in Tabs /\ c \in presented[held[c]] /\ isRefreshing[c]

(* A broadcast brings a tab a token that is new to it.                       *)
MailStands(s) ==
  \A c \in Tabs : Session(c) = s =>
    \A i \in 1..Len(inbox[c]) :
      /\ inbox[c][i] # 0 /\ inbox[c][i] # held[c]
      /\ c \notin presented[inbox[c][i]]
      /\ inbox[c][i] \in live \/ presented[inbox[c][i]] # {}
      /\ \A j \in 1..Len(inbox[c]) : j # i => inbox[c][j] # inbox[c][i]

RetriesStand(s) ==
  \A r \in Requests : Of(r, s) =>
    /\ held[req[r].home] # 0
    /\ At(r, "rotated") \/ (At(r, "sent") /\ req[r].retried)
         => req[r].token > expired

Local(s) == FlightsStand(s) /\ HeldStand(s) /\ MailStands(s) /\ RetriesStand(s)

CalmSessionsStand == \A s \in SessionIds : Calm(s) => Local(s)

KnownInv == QueueInv /\ TokensBelong /\ TokensIssued /\ FlightsPresent

Kept ==
  /\ TokensBelong /\ TokensIssued /\ FlightsPresent
  /\ CalmSessionsStand /\ DeniedForCause

(* The inductive invariant.                                                 *)
IInv == QueueInv /\ Kept

LEMMA SessionsOfClients ==
  /\ \A c \in Clients : Session(c) \in SessionIds
  /\ \A c \in Tabs : Session(c) = Browser
  /\ \A c \in Clients : c \notin Tabs => Session(c) = c /\ c # Browser
  /\ \A c, d \in Clients : Session(c) = Session(d) => (c \in Tabs <=> d \in Tabs)
  /\ \A c, d \in Clients : Session(c) = Session(d) /\ c \notin Tabs => c = d
  /\ Tabs \subseteq Clients /\ Alone \notin Tabs /\ 0 \notin Tokens
BY NamesAssumption DEF SessionIds, Session, Clients, Tokens

LEMMA HomesOfRequests ==
  ASSUME TypeOK, NEW r \in Requests, req[r] # None
  PROVE  /\ req[r] \in RequestStates /\ req[r].home \in Clients
         /\ req[r].lane \in Tabs \cup {Alone} /\ req[r].token \in 0..MaxTokens
BY DEF TypeOK, RequestStates

LEMMA MailAppended ==
  ASSUME NEW q \in Seq(0..MaxTokens), NEW m \in 0..MaxTokens
  PROVE  /\ Len(Append(q, m)) = Len(q) + 1 /\ Len(q) \in Nat
         /\ Append(q, m)[Len(q) + 1] = m
         /\ \A i \in 1..Len(q) : Append(q, m)[i] = q[i]
         /\ \A i \in 1..Len(Append(q, m)) : i \in 1..Len(q) \/ i = Len(q) + 1
<1>1. /\ Len(Append(q, m)) = Len(q) + 1 /\ Len(q) \in Nat
      /\ Append(q, m)[Len(q) + 1] = m
      /\ \A i \in 1..Len(q) : Append(q, m)[i] = q[i]
  BY AppendProperties, LenProperties
<1> QED  BY <1>1

LEMMA MailTaken ==
  ASSUME NEW q \in Seq(0..MaxTokens), q # << >>
  PROVE  /\ Head(q) = q[1] /\ 1 \in 1..Len(q) /\ Head(q) \in 0..MaxTokens
         /\ \A i \in 1..Len(Tail(q)) :
              i + 1 \in 1..Len(q) /\ i + 1 # 1 /\ Tail(q)[i] = q[i + 1]
<1>1. /\ Head(q) \in 0..MaxTokens /\ Len(Tail(q)) = Len(q) - 1
      /\ \A i \in 1..Len(Tail(q)) : Tail(q)[i] = q[i + 1]
  BY HeadTailProperties
<1>2. Len(q) \in Nat /\ Len(q) # 0
  BY LenProperties, EmptySeq
<1>3. Head(q) = q[1]  OBVIOUS
<1> QED  BY <1>1, <1>2, <1>3

(* A step that leaves session s alone.                                      *)
Apart(s) ==
  /\ \A c \in Clients : Session(c) = s => held'[c] = held[c]
  /\ \A c \in Tabs : Session(c) = s =>
       /\ stored' = stored /\ inbox'[c] = inbox[c]
       /\ isRefreshing'[c] = isRefreshing[c]
  /\ \A r \in Requests : Of(r, s) \/ Of(r, s)' => req'[r] = req[r]

LEMMA ApartBelongs ==
  ASSUME NEW s, Apart(s), NEW n PROVE Belongs(n, s)' <=> Belongs(n, s)
BY DEF Apart, Belongs, InMail, Of, Busy, At

LEMMA ApartLocal ==
  ASSUME KnownInv, NEW s \in SessionIds, Apart(s), expired' = expired, Local(s),
         \A n \in Tokens : Belongs(n, s) =>
           (n \in live' <=> n \in live) /\ presented'[n] = presented[n]
  PROVE  Local(s)'
<1>0. TypeOK  BY DEF KnownInv, QueueInv
<1>1. \A r \in Requests : Of(r, s)' => req'[r] = req[r] /\ Of(r, s)
  BY DEF Apart, Of
<1>2. \A c \in Clients : Session(c) = s /\ held[c] # 0 =>
        held[c] \in Tokens /\ Belongs(held[c], s)
  <2>1. \A c \in Clients : held[c] \in 0..MaxTokens  BY <1>0 DEF TypeOK
  <2> QED  BY <2>1, ConstantsAssumption DEF Belongs, Tokens
<1>3. \A c \in Tabs : \A i \in 1..Len(inbox[c]) : Session(c) = s /\ inbox[c][i] # 0 =>
        inbox[c][i] \in Tokens /\ Belongs(inbox[c][i], s)
  <2> SUFFICES ASSUME NEW c \in Tabs, NEW i \in 1..Len(inbox[c]),
                      Session(c) = s, inbox[c][i] # 0
               PROVE  inbox[c][i] \in Tokens /\ Belongs(inbox[c][i], s)
    OBVIOUS
  <2>1. inbox[c] \in Seq(0..MaxTokens)  BY <1>0 DEF TypeOK
  <2>2. inbox[c][i] \in 0..MaxTokens  BY <2>1, ElementOfSeq
  <2> QED  BY <2>2, ConstantsAssumption DEF Tokens, Belongs, InMail
<1>4. \A r \in Requests : Busy(r) /\ Of(r, s) =>
        req[r].token \in Tokens /\ Belongs(req[r].token, s)
  BY DEF KnownInv, FlightsPresent, Belongs
<1>5. FlightsStand(s)'
  <2>1. \A r \in Requests : (Busy(r) /\ Of(r, s))' =>
          Busy(r) /\ Of(r, s) /\ req'[r] = req[r] /\ (At(r, "rotated")' => At(r, "rotated"))
    BY <1>1 DEF Busy, At
  <2>2. \A n : Private(n, s) => Private(n, s)'
    BY DEF Private, Apart, InMail
  <2>3. \A c \in Tabs : isRefreshing[c] /\ Session(c) = s => isRefreshing'[c]
    BY DEF Apart
  <2>4. \A r \in Requests : Of(r, s) /\ req[r].lane \in Tabs => Session(req[r].lane) = s
    BY LaneOfTab DEF KnownInv, QueueInv, Of
  <2> QED  BY <1>4, <2>1, <2>2, <2>3, <2>4 DEF Local, FlightsStand
<1>6. HeldStand(s)'
  BY <1>2 DEF Local, HeldStand, Apart
<1>7. MailStands(s)'
  BY <1>3, SessionsOfClients DEF Local, MailStands, Apart
<1>8. RetriesStand(s)'
  BY <1>1, <1>0, HomesOfRequests DEF Local, RetriesStand, Apart, Of, At
<1> QED  BY <1>5, <1>6, <1>7, <1>8 DEF Local

(* What a step on behalf of session s has to show.                          *)
LEMMA ActsFor ==
  ASSUME IInv, NEW s \in SessionIds,
         \A t \in SessionIds \ {s} : Apart(t),
         expired' = expired, issued' \in Nat, issued <= issued',
         struck \subseteq struck', contested \subseteq contested',
         \A n \in Tokens : Belongs(n, s)' => Belongs(n, s) \/ (issued < n /\ n <= issued'),
         \A n \in Tokens :
           \/ (n \in live' <=> n \in live) /\ presented'[n] = presented[n]
           \/ Belongs(n, s) \/ issued < n,
         \A n \in Tokens : presented'[n] # {} => presented[n] # {} \/ Belongs(n, s),
         denied' \subseteq denied \cup {s},
         Calm(s)' => Local(s)' /\ denied' = denied,
         FlightsPresent'
  PROVE  Kept'
<1>a. KnownInv /\ CalmSessionsStand  BY DEF IInv, Kept, KnownInv
<1>0. issued \in Nat /\ \A n \in Tokens : n \in Nat
  BY <1>a, ConstantsAssumption DEF KnownInv, QueueInv, TypeOK, Tokens
<1>1. \A n \in Tokens, t \in SessionIds : Belongs(n, t) => n <= issued
  BY <1>a DEF KnownInv, TokensIssued
<1>2. \A n \in Tokens, t \in SessionIds \ {s} : Belongs(n, t)' => Belongs(n, t)
  BY ApartBelongs
<1>3. TokensBelong'
  <2> SUFFICES ASSUME NEW n \in Tokens, NEW t \in SessionIds, NEW u \in SessionIds,
                      Belongs(n, t)', Belongs(n, u)', t # u
               PROVE  FALSE
    BY DEF TokensBelong
  <2>1. CASE t # s /\ u # s
    BY <1>a, <1>2, <2>1 DEF KnownInv, TokensBelong
  <2>2. CASE t = s
    BY <1>a, <1>0, <1>1, <1>2, <2>2 DEF KnownInv, TokensBelong
  <2>3. CASE u = s
    BY <1>a, <1>0, <1>1, <1>2, <2>3 DEF KnownInv, TokensBelong
  <2> QED  BY <2>1, <2>2, <2>3
<1>4. TokensIssued'
  <2> SUFFICES ASSUME NEW n \in Tokens,
                      (\E t \in SessionIds : Belongs(n, t)') \/ presented'[n] # {}
               PROVE  n <= issued'
    BY DEF TokensIssued
  <2>1. CASE presented'[n] # {}
    BY <1>a, <1>0, <1>1, <2>1 DEF KnownInv, TokensIssued
  <2>2. ASSUME NEW t \in SessionIds, Belongs(n, t)' PROVE n <= issued'
    BY <1>a, <1>0, <1>1, <1>2, <2>2
  <2> QED  BY <2>1, <2>2
<1>5. CalmSessionsStand'
  <2> SUFFICES ASSUME NEW t \in SessionIds, Calm(t)' PROVE Local(t)'
    BY DEF CalmSessionsStand
  <2>1. CASE t = s  BY <2>1
  <2>2. CASE t # s
    <3>1. Local(t)  BY <1>a DEF Calm, CalmSessionsStand
    <3>2. \A n \in Tokens : Belongs(n, t) => ~Belongs(n, s) /\ ~(issued < n)
      BY <1>a, <1>0, <1>1, <2>2 DEF KnownInv, TokensBelong
    <3> QED  BY <2>2, <1>a, <3>1, <3>2, ApartLocal
  <2> QED  BY <2>1, <2>2
<1>6. DeniedForCause'
  BY DEF DeniedForCause, IInv, Kept, Calm
<1> QED  BY <1>3, <1>4, <1>5, <1>6 DEF Kept

(* What the clients know has been issued.                                   *)
LEMMA TokensKnown ==
  ASSUME IInv
  PROVE  /\ TypeOK /\ issued \in 0..MaxTokens /\ expired \in 0..issued
         /\ \A c \in Clients : held[c] \in 0..issued
         /\ \A c \in Tabs : inbox[c] \in Seq(0..MaxTokens)
                /\ \A i \in 1..Len(inbox[c]) : inbox[c][i] \in 0..issued
         /\ \A r \in Requests : Busy(r) => req[r].token \in 1..issued
         /\ \A n \in Tokens : issued < n => presented[n] = {}
<1>0. TypeOK  BY DEF IInv, QueueInv
<1>1. \A c \in Clients : held[c] \in 0..MaxTokens /\ Session(c) \in SessionIds
  BY <1>0, SessionsOfClients DEF TypeOK
<1>2. issued \in 0..MaxTokens /\ expired \in 0..issued  BY <1>0 DEF TypeOK
<1>3. \A n \in Tokens, s \in SessionIds : Belongs(n, s) => n <= issued
  BY DEF IInv, Kept, TokensIssued
<1>4. \A c \in Clients : held[c] \in 0..issued
  BY <1>1, <1>2, <1>3 DEF Belongs, Tokens
<1>5. ASSUME NEW c \in Tabs
      PROVE  /\ inbox[c] \in Seq(0..MaxTokens)
             /\ \A i \in 1..Len(inbox[c]) : inbox[c][i] \in 0..issued
  <2>1. inbox[c] \in Seq(0..MaxTokens)  BY <1>0 DEF TypeOK
  <2>2. \A i \in 1..Len(inbox[c]) : inbox[c][i] \in 0..MaxTokens
    BY <2>1, ElementOfSeq
  <2>3. Session(c) \in SessionIds  BY SessionsOfClients
  <2>4. \A i \in 1..Len(inbox[c]) : Belongs(inbox[c][i], Session(c))
    BY DEF Belongs, InMail
  <2> QED  BY <1>2, <1>3, <2>1, <2>2, <2>3, <2>4 DEF Tokens
<1>6. ASSUME NEW r \in Requests, Busy(r) PROVE req[r].token \in 1..issued
  <2>1. req[r] # None  BY <1>6 DEF Busy, At
  <2>2. Session(req[r].home) \in SessionIds
    BY <1>0, <2>1, HomesOfRequests, SessionsOfClients
  <2>3. Belongs(req[r].token, Session(req[r].home))
    BY <1>6, <2>1 DEF Belongs, Of
  <2>4. req[r].token \in Tokens  BY <1>6 DEF IInv, Kept, FlightsPresent
  <2> QED  BY <1>2, <1>3, <2>2, <2>3, <2>4 DEF Tokens
<1>7. \A n \in Tokens : issued < n => presented[n] = {}
  BY <1>2 DEF IInv, Kept, TokensIssued, Tokens
<1> QED  BY <1>0, <1>2, <1>4, <1>5, <1>6, <1>7

LEMMA FlightsKept ==
  ASSUME IInv, presented' = presented,
         \A r \in Requests : Busy(r)' => req'[r] = req[r]
  PROVE  FlightsPresent'
BY DEF IInv, Kept, FlightsPresent, Busy, At

(* Requests start, wait or end and nothing else changes.                    *)
LEMMA IdleRequests ==
  ASSUME IInv, UNCHANGED <<serverVars, clientVars, historyVars>>,
         \A r \in Requests : Busy(r) \/ Busy(r)' => req'[r] = req[r],
         \A r \in Requests : req'[r] # None =>
           \/ req'[r] = req[r]
           \/ /\ ~At(r, "rotated")' /\ ~(At(r, "sent")' /\ req'[r].retried)
              /\ \/ held[req'[r].home] # 0
                 \/ req[r] # None /\ req'[r].home = req[r].home
  PROVE  Kept'
<1> USE DEF serverVars, clientVars, historyVars
<1>1. \A n, s : Belongs(n, s)' <=> Belongs(n, s)
  BY DEF Belongs, InMail, Of, Busy, At
<1>2. TokensBelong' /\ TokensIssued' /\ DeniedForCause'
  BY <1>1 DEF IInv, Kept, TokensBelong, TokensIssued, DeniedForCause
<1>3. FlightsPresent'  BY FlightsKept
<1>4. ASSUME NEW s \in SessionIds, Calm(s)' PROVE Local(s)'
  <2>1. Local(s)  BY <1>4 DEF IInv, Kept, CalmSessionsStand, Calm
  <2>2. FlightsStand(s)'
    <3>1. \A r \in Requests : (Busy(r) /\ Of(r, s))' =>
            /\ Busy(r) /\ Of(r, s) /\ req'[r] = req[r]
            /\ At(r, "rotated")' => At(r, "rotated")
      BY DEF Busy, At, Of
    <3>2. \A n : Private(n, s) => Private(n, s)'
      BY DEF Private, InMail
    <3> QED  BY <2>1, <3>1, <3>2 DEF Local, FlightsStand
  <2>3. HeldStand(s)' /\ MailStands(s)'
    BY <2>1 DEF Local, HeldStand, MailStands
  <2>4. RetriesStand(s)'
    BY <2>1 DEF Local, RetriesStand, Of, At
  <2> QED  BY <2>2, <2>3, <2>4 DEF Local
<1> QED  BY <1>2, <1>3, <1>4 DEF Kept, CalmSessionsStand

LEMMA SendActs ==
  ASSUME IInv, NEW r \in Requests, NEW c \in Clients, Send(r, c)
  PROVE  Kept'
<1>1. PICK l \in Lanes(c) :
        req' = [req EXCEPT ![r] = [home |-> c, lane |-> l, at |-> "sent",
                                   token |-> held[c], retried |-> FALSE]]
  BY DEF Send
<1>2. held[c] # 0 /\ req[r] = None
      /\ UNCHANGED <<serverVars, clientVars, historyVars>>
  BY DEF Send, IInv, QueueInv, LanesStand
<1>3. /\ req'[r] = [home |-> c, lane |-> l, at |-> "sent",
                    token |-> held[c], retried |-> FALSE]
      /\ \A q \in Requests \ {r} : req'[q] = req[q]
  BY <1>1 DEF IInv, QueueInv, TypeOK
<1>4. req'[r].at = "sent" /\ req'[r].home = c /\ ~req'[r].retried
  BY <1>3
<1>5. \A q \in Requests : Busy(q) \/ Busy(q)' => req'[q] = req[q]
  BY <1>2, <1>3, <1>4 DEF Busy, At
<1>6. \A q \in Requests : req'[q] # None =>
        \/ req'[q] = req[q]
        \/ /\ ~At(q, "rotated")' /\ ~(At(q, "sent")' /\ req'[q].retried)
           /\ held[req'[q].home] # 0
  BY <1>2, <1>3, <1>4 DEF At
<1> QED  BY <1>2, <1>5, <1>6, IdleRequests

LEMMA EndActs ==
  ASSUME IInv, NEW r \in Requests, Answered(r) \/ RequestLost(r)
  PROVE  Kept'
<1>1. /\ At(r, "sent") /\ UNCHANGED <<serverVars, clientVars, historyVars>>
      /\ \A q \in Requests : req'[q] = IF q = r THEN None ELSE req[q]
  BY DEF Answered, RequestLost, End
<1>2. \A q \in Requests : Busy(q) \/ Busy(q)' => req'[q] = req[q]
  BY <1>1 DEF Busy, At
<1> QED  BY <1>1, <1>2, IdleRequests

LEMMA WaitActs ==
  ASSUME IInv, NEW r \in Requests, Wait(r) PROVE Kept'
<1>1. /\ At(r, "sent") /\ UNCHANGED <<serverVars, clientVars, historyVars>>
      /\ req' = [req EXCEPT ![r].at = "waiting"]
  BY DEF Wait, Rejected, Move
<1>2. req[r] # None /\ req[r] \in RequestStates
  BY <1>1 DEF At, IInv, QueueInv, TypeOK
<1>3. /\ req'[r] = [req[r] EXCEPT !.at = "waiting"]
      /\ \A q \in Requests \ {r} : req'[q] = req[q]
  BY <1>1 DEF IInv, QueueInv, TypeOK
<1>4. req'[r].at = "waiting" /\ req'[r].home = req[r].home
  BY <1>2, <1>3 DEF RequestStates
<1>5. \A q \in Requests : Busy(q) \/ Busy(q)' => req'[q] = req[q]
  BY <1>1, <1>3, <1>4 DEF Busy, At
<1>6. \A q \in Requests : req'[q] # None =>
        \/ req'[q] = req[q]
        \/ /\ ~At(q, "rotated")' /\ ~(At(q, "sent")' /\ req'[q].retried)
           /\ req[q] # None /\ req'[q].home = req[q].home
  BY <1>2, <1>3, <1>4 DEF At
<1> QED  BY <1>1, <1>5, <1>6, IdleRequests

(* Something of session s ends, and s is calm no more.                      *)
LEMMA EndsIn ==
  ASSUME IInv, NEW s \in SessionIds,
         UNCHANGED <<issued, live, expired, presented, contested>>,
         struck \subseteq struck', denied' \subseteq denied \cup {s},
         \A t \in SessionIds \ {s} : Apart(t),
         \A n \in Tokens : Belongs(n, s)' => Belongs(n, s),
         \A r \in Requests : req'[r] # None => req'[r] = req[r],
         ~Calm(s)'
  PROVE  Kept'
<1>1. FlightsPresent'  BY FlightsKept DEF Busy, At
<1>2. issued' \in Nat /\ issued <= issued' /\ expired' = expired
  BY TokensKnown
<1>3. struck \subseteq struck' /\ contested \subseteq contested'
  OBVIOUS
<1>4. \A n \in Tokens :
        /\ Belongs(n, s)' => Belongs(n, s) \/ (issued < n /\ n <= issued')
        /\ \/ (n \in live' <=> n \in live) /\ presented'[n] = presented[n]
           \/ Belongs(n, s) \/ issued < n
        /\ presented'[n] # {} => presented[n] # {} \/ Belongs(n, s)
  OBVIOUS
<1> QED  BY <1>1, <1>2, <1>3, <1>4, ActsFor

LEMMA BroadcastMail ==
  ASSUME IInv, NEW c, NEW n \in 0..MaxTokens, inbox' = Broadcast(c, n)
  PROVE  \A d \in Tabs :
           /\ d = c => inbox'[d] = inbox[d]
           /\ d # c => inbox'[d] = Append(inbox[d], n)
           /\ \A m : InMail(m, d)' => InMail(m, d) \/ m = n
<1> SUFFICES ASSUME NEW d \in Tabs
             PROVE  /\ d = c => inbox'[d] = inbox[d]
                    /\ d # c => inbox'[d] = Append(inbox[d], n)
                    /\ \A m : InMail(m, d)' => InMail(m, d) \/ m = n
  OBVIOUS
<1>1. /\ d = c => inbox'[d] = inbox[d]
      /\ d # c => inbox'[d] = Append(inbox[d], n)
  BY DEF Broadcast
<1>2. inbox[d] \in Seq(0..MaxTokens)  BY TokensKnown
<1>3. ASSUME NEW m, InMail(m, d)' PROVE InMail(m, d) \/ m = n
  <2>1. CASE d = c  BY <1>1, <1>3, <2>1 DEF InMail
  <2>2. CASE d # c
    <3>1. PICK i \in 1..Len(inbox'[d]) : inbox'[d][i] = m  BY <1>3 DEF InMail
    <3>2. \/ i \in 1..Len(inbox[d]) /\ inbox'[d][i] = inbox[d][i]
          \/ inbox'[d][i] = n
      BY <1>1, <1>2, <2>2, <3>1, MailAppended
    <3> QED  BY <3>1, <3>2 DEF InMail
  <2> QED  BY <2>1, <2>2
<1> QED  BY <1>1, <1>3

LEMMA DeliveredMail ==
  ASSUME IInv, NEW c \in Tabs, inbox[c] # << >>,
         inbox' = [inbox EXCEPT ![c] = Tail(inbox[c])]
  PROVE  /\ \A d \in Tabs \ {c} : inbox'[d] = inbox[d]
         /\ inbox'[c] = Tail(inbox[c])
         /\ 1 \in 1..Len(inbox[c]) /\ Head(inbox[c]) = inbox[c][1]
         /\ Head(inbox[c]) \in 0..MaxTokens
         /\ \A i \in 1..Len(inbox'[c]) :
              i + 1 \in 1..Len(inbox[c]) /\ i + 1 # 1 /\ inbox'[c][i] = inbox[c][i + 1]
         /\ \A d \in Tabs : \A m : InMail(m, d)' => InMail(m, d)
<1>1. inbox[c] \in Seq(0..MaxTokens) /\ inbox \in [Tabs -> Seq(0..MaxTokens)]
  BY TokensKnown DEF TypeOK
<1>2. inbox'[c] = Tail(inbox[c]) /\ \A d \in Tabs \ {c} : inbox'[d] = inbox[d]
  BY <1>1
<1>3. /\ 1 \in 1..Len(inbox[c]) /\ Head(inbox[c]) = inbox[c][1]
      /\ Head(inbox[c]) \in 0..MaxTokens
      /\ \A i \in 1..Len(inbox'[c]) :
           i + 1 \in 1..Len(inbox[c]) /\ i + 1 # 1 /\ inbox'[c][i] = inbox[c][i + 1]
  BY <1>1, <1>2, MailTaken
<1>4. \A d \in Tabs : \A m : InMail(m, d)' => InMail(m, d)
  BY <1>2, <1>3 DEF InMail
<1> QED  BY <1>2, <1>3, <1>4

LEMMA ClearActs ==
  ASSUME IInv, NEW c \in Tabs, NEW R \in SUBSET Requests,
         \A r \in R : req[r] # None /\ req[r].home = c, ClearSession(c, R),
         \A d \in Tabs : \A n \in Tokens : InMail(n, d)' => InMail(n, d),
         UNCHANGED <<issued, live, expired, presented, contested>>,
         struck \subseteq struck', ~Calm(Browser)'
  PROVE  Kept'
<1>1. c \in Clients /\ Session(c) = Browser /\ Browser \in SessionIds
  BY SessionsOfClients
<1>2. \A q \in R \cup Waiting(c) :
        req[q] # None /\ req[q].home = c /\ Session(req[q].home) = Browser
  BY <1>1 DEF Waiting, At
<1>3. \A q \in Requests :
        req'[q] = IF q \in R \cup Waiting(c) THEN None ELSE req[q]
  BY DEF ClearSession, Deny, End
<1>4. denied' \subseteq denied \cup {Browser}
  BY <1>2 DEF ClearSession, Deny
<1>5. /\ \A d \in Clients : held'[d] = IF d = c THEN 0 ELSE held[d]
      /\ stored' = 0
  BY TokensKnown DEF ClearSession, TypeOK
<1>6. ASSUME NEW t \in SessionIds \ {Browser} PROVE Apart(t)
  BY <1>1, <1>2, <1>3, <1>5, SessionsOfClients DEF Apart, Of
<1>7. ASSUME NEW n \in Tokens, Belongs(n, Browser)' PROVE Belongs(n, Browser)
  <2>1. n # 0  BY SessionsOfClients
  <2>2. \A q \in Requests : (Busy(q) /\ Of(q, Browser))' =>
          Busy(q) /\ Of(q, Browser) /\ req'[q] = req[q]
    BY <1>3 DEF Busy, At, Of
  <2> QED  BY <1>5, <1>7, <2>1, <2>2 DEF Belongs
<1>8. \A q \in Requests : req'[q] # None => req'[q] = req[q]  BY <1>3
<1> QED  BY <1>1, <1>4, <1>6, <1>7, <1>8, EndsIn

LEMMA DenyActs ==
  ASSUME IInv, NEW r \in Requests, NEW s \in SessionIds, Of(r, s), Deny({r}),
         UNCHANGED <<issued, live, expired, presented, contested, clientVars>>,
         struck \subseteq struck', ~Calm(s)'
  PROVE  Kept'
<1>1. \A q \in Requests : req'[q] = IF q = r THEN None ELSE req[q]
  BY DEF Deny, End
<1>2. denied' \subseteq denied \cup {s}  BY DEF Deny, Of
<1>3. \A t \in SessionIds \ {s} : Apart(t)
  BY <1>1 DEF Apart, Of, clientVars
<1>4. \A q \in Requests : (Busy(q) /\ Of(q, s))' =>
        Busy(q) /\ Of(q, s) /\ req'[q] = req[q]
  BY <1>1 DEF Busy, At, Of
<1>5. \A n : Belongs(n, s)' => Belongs(n, s)
  BY <1>4 DEF Belongs, InMail, clientVars
<1>6. \A q \in Requests : req'[q] # None => req'[q] = req[q]  BY <1>1
<1> QED  BY <1>2, <1>3, <1>5, <1>6, EndsIn

LEMMA GiveUpActs ==
  ASSUME IInv, NEW r \in Requests, NEW s \in SessionIds, Of(r, s), GiveUp(r),
         struck \subseteq struck', ~Calm(s)'
  PROVE  Kept'
<1>1. UNCHANGED <<issued, live, expired, presented, contested>>
  BY DEF GiveUp, serverVars
<1>2. CASE req[r].home \in Tabs
  <2>1. ClearSession(req[r].home, {r}) /\ inbox' = Broadcast(req[r].home, 0)
    BY <1>2 DEF GiveUp
  <2>2. 0 \in 0..MaxTokens  BY ConstantsAssumption
  <2>3. \A d \in Tabs : \A n \in Tokens : InMail(n, d)' => InMail(n, d)
    BY <2>1, <2>2, BroadcastMail, SessionsOfClients
  <2>4. s = Browser /\ req[r] # None  BY <1>2, SessionsOfClients DEF Of
  <2>5. ~Calm(Browser)'  BY <2>4
  <2> QED  BY <1>1, <1>2, <2>1, <2>3, <2>4, <2>5, ClearActs
<1>3. CASE req[r].home \notin Tabs
  BY <1>1, <1>3, DenyActs DEF GiveUp
<1> QED  BY <1>2, <1>3

(* A request is made in one session.                                         *)
LEMMA SessionOfRequest ==
  ASSUME IInv, NEW r \in Requests, req[r] # None
  PROVE  \E s \in SessionIds : Of(r, s) /\ s = Session(req[r].home)
BY TokensKnown, HomesOfRequests, SessionsOfClients DEF Of

(* In a calm session the requests stand.                                     *)
LEMMA CalmRequests ==
  ASSUME IInv, NEW r \in Requests, NEW s \in SessionIds, Of(r, s), Calm(s)
  PROVE  /\ held[req[r].home] # 0
         /\ At(r, "rotated") \/ (At(r, "sent") /\ req[r].retried)
              => req[r].token > expired
         /\ Busy(r) => req[r].token \in live
<1>1. Local(s)  BY DEF IInv, Kept, CalmSessionsStand
<1> QED  BY <1>1 DEF Local, RetriesStand, FlightsStand

LEMMA RejectedAgainActs ==
  ASSUME IInv, NEW r \in Requests, RejectedAgain(r) PROVE Kept'
<1>1. /\ req[r] # None /\ Deny({r}) /\ At(r, "sent") /\ req[r].retried
      /\ req[r].token <= expired
      /\ UNCHANGED <<issued, live, expired, presented, contested, clientVars, struck>>
  BY DEF RejectedAgain, At, serverVars
<1>2. req[r].token \in Nat /\ expired \in Nat
  BY <1>1, TokensKnown, HomesOfRequests
<1>3. PICK s \in SessionIds : Of(r, s)  BY <1>1, SessionOfRequest
<1>4. ~Calm(s)  BY <1>1, <1>2, <1>3, CalmRequests
<1>5. ~Calm(s)'  BY <1>1, <1>4 DEF Calm
<1> QED  BY <1>1, <1>3, <1>5, DenyActs

LEMMA RefusedActs ==
  ASSUME IInv, NEW r \in Requests, NoRefreshToken(r) \/ RefreshRefused(r)
  PROVE  Kept'
<1>1. /\ req[r] # None /\ GiveUp(r) /\ UNCHANGED <<contested, struck>>
      /\ held[req[r].home] = 0 \/ (Busy(r) /\ req[r].token \notin live)
  BY DEF NoRefreshToken, RefreshRefused, Rejected, At, Busy, GiveUp
<1>2. PICK s \in SessionIds : Of(r, s)  BY <1>1, SessionOfRequest
<1>3. ~Calm(s)  BY <1>1, <1>2, CalmRequests
<1>4. ~Calm(s)'  BY <1>1, <1>3 DEF Calm
<1> QED  BY <1>1, <1>2, <1>4, GiveUpActs

LEMMA RefreshLostActs ==
  ASSUME IInv, NEW r \in Requests, RefreshLost(r) PROVE Kept'
<1>1. req[r] # None /\ GiveUp(r) /\ struck' = struck \cup {Session(req[r].home)}
  BY DEF RefreshLost, Strike, At
<1>2. PICK s \in SessionIds : Of(r, s) /\ s = Session(req[r].home)
  BY <1>1, SessionOfRequest
<1>3. ~Calm(s)'  BY <1>1, <1>2 DEF Calm
<1> QED  BY <1>1, <1>2, <1>3, GiveUpActs

LEMMA SignOutActs ==
  ASSUME IInv, NEW c \in Clients, SignOut(c) PROVE Kept'
<1>1. /\ UNCHANGED <<issued, live, expired, presented, contested>>
      /\ struck' = struck \cup {Session(c)}
  BY DEF SignOut, Strike, serverVars
<1>2. CASE c \in Tabs
  <2>1. ClearSession(c, {}) /\ inbox' = Broadcast(c, 0)
    BY <1>2 DEF SignOut
  <2>2. 0 \in 0..MaxTokens  BY ConstantsAssumption
  <2>3. \A d \in Tabs : \A n \in Tokens : InMail(n, d)' => InMail(n, d)
    BY <2>1, <2>2, BroadcastMail, SessionsOfClients
  <2>4. ~Calm(Browser)'  BY <1>1, <1>2, SessionsOfClients DEF Calm
  <2> QED  BY <1>1, <1>2, <2>1, <2>3, <2>4, ClearActs
<1>3. CASE c \notin Tabs
  <2>1. /\ held' = [held EXCEPT ![c] = 0]
        /\ UNCHANGED <<stored, inbox, isRefreshing, req, denied>>
    BY <1>3 DEF SignOut
  <2>2. \A d \in Clients : held'[d] = IF d = c THEN 0 ELSE held[d]
    BY <2>1, TokensKnown DEF TypeOK
  <2>3. Session(c) \in SessionIds  BY SessionsOfClients
  <2>4. \A t \in SessionIds \ {Session(c)} : Apart(t)
    BY <2>1, <2>2 DEF Apart
  <2>5. \A n \in Tokens : Belongs(n, Session(c))' => Belongs(n, Session(c))
    BY <2>1, <2>2, SessionsOfClients DEF Belongs, InMail, Of, Busy, At
  <2>6. ~Calm(Session(c))'  BY <1>1 DEF Calm
  <2> QED  BY <1>1, <2>1, <2>3, <2>4, <2>5, <2>6, EndsIn
<1> QED  BY <1>2, <1>3

LEMMA ReloadActs ==
  ASSUME IInv, NEW c \in Tabs, Reload(c) PROVE Kept'
<1>1. /\ UNCHANGED <<issued, live, expired, presented, contested, stored, denied>>
      /\ struck' = struck \cup {Browser}
  BY DEF Reload, Strike, serverVars
<1>2. c \in Clients /\ Session(c) = Browser /\ Browser \in SessionIds
  BY SessionsOfClients
<1>3. /\ \A d \in Clients : held'[d] = IF d = c THEN stored ELSE held[d]
      /\ \A d \in Tabs : inbox'[d] = IF d = c THEN << >> ELSE inbox[d]
  BY TokensKnown DEF Reload, TypeOK
<1>4. \A q \in Requests :
        req'[q] = IF req[q] # None /\ req[q].home = c THEN None ELSE req[q]
  BY DEF Reload, End
<1>5. ASSUME NEW t \in SessionIds \ {Browser} PROVE Apart(t)
  BY <1>1, <1>2, <1>3, <1>4, SessionsOfClients DEF Apart, Of
<1>6. ASSUME NEW n \in Tokens, Belongs(n, Browser)' PROVE Belongs(n, Browser)
  <2>1. \A d \in Tabs : InMail(n, d)' => InMail(n, d)
    <3>1. Len(<< >>) = 0  OBVIOUS
    <3> QED  BY <1>3, <3>1 DEF InMail
  <2>2. \A q \in Requests : (Busy(q) /\ Of(q, Browser))' =>
          Busy(q) /\ Of(q, Browser) /\ req'[q] = req[q]
    BY <1>4 DEF Busy, At, Of
  <2> QED  BY <1>1, <1>2, <1>3, <1>6, <2>1, <2>2 DEF Belongs
<1>7. \A q \in Requests : req'[q] # None => req'[q] = req[q]  BY <1>4
<1>8. ~Calm(Browser)'  BY <1>1 DEF Calm
<1> QED  BY <1>1, <1>2, <1>5, <1>6, <1>7, <1>8, EndsIn

LEMMA RevokeAllActs ==
  ASSUME IInv, RevokeAll PROVE Kept'
<1>1. /\ struck' = struck \cup SessionIds
      /\ UNCHANGED <<issued, clientVars, req, presented, contested, denied>>
  BY DEF RevokeAll, Strike
<1>2. \A n, s : Belongs(n, s)' <=> Belongs(n, s)
  BY <1>1 DEF Belongs, InMail, Of, Busy, At, clientVars
<1>3. TokensBelong' /\ TokensIssued' /\ DeniedForCause'
  BY <1>1, <1>2 DEF IInv, Kept, TokensBelong, TokensIssued, DeniedForCause
<1>4. FlightsPresent'  BY <1>1, FlightsKept
<1>5. CalmSessionsStand'  BY <1>1 DEF CalmSessionsStand, Calm
<1> QED  BY <1>3, <1>4, <1>5 DEF Kept

(* No token for which a request waits expires.                               *)
LEMMA ExpireActs ==
  ASSUME IInv, Expire PROVE Kept'
<1>1. /\ UNCHANGED <<issued, live, clientVars, req, historyVars>>
      /\ expired' = expired + 1 /\ expired \in Nat
      /\ \A r \in Requests :
           At(r, "rotated") \/ (At(r, "sent") /\ req[r].retried)
             => req[r].token # expired + 1
  BY TokensKnown DEF Expire
<1>2. \A n, s : Belongs(n, s)' <=> Belongs(n, s)
  BY <1>1 DEF Belongs, InMail, Of, Busy, At, clientVars
<1>3. TokensBelong' /\ TokensIssued' /\ DeniedForCause'
  BY <1>1, <1>2
  DEF IInv, Kept, TokensBelong, TokensIssued, DeniedForCause, historyVars
<1>4. FlightsPresent'  BY <1>1, FlightsKept DEF historyVars
<1>5. ASSUME NEW s \in SessionIds, Calm(s)' PROVE Local(s)'
  <2>1. Local(s)
    BY <1>1, <1>5 DEF IInv, Kept, CalmSessionsStand, Calm, historyVars
  <2>2. FlightsStand(s)' /\ HeldStand(s)' /\ MailStands(s)'
    BY <1>1, <2>1
    DEF Local, FlightsStand, HeldStand, MailStands, Private, InMail, Of, Busy, At,
        clientVars, historyVars
  <2>3. RetriesStand(s)'
    <3> SUFFICES ASSUME NEW r \in Requests, Of(r, s)
                 PROVE  /\ held[req[r].home] # 0
                        /\ At(r, "rotated") \/ (At(r, "sent") /\ req[r].retried)
                             => req[r].token > expired + 1
      BY <1>1 DEF RetriesStand, Of, At, clientVars
    <3>1. req[r].token \in Nat
      BY TokensKnown, HomesOfRequests DEF Of
    <3> QED  BY <1>1, <2>1, <3>1 DEF Local, RetriesStand
  <2> QED  BY <2>2, <2>3 DEF Local
<1> QED  BY <1>3, <1>4, <1>5 DEF Kept, CalmSessionsStand

-----------------------------------------------------------------------------
(* What the steps of a calm session leave.                                  *)

LEMMA AdoptedStores ==
  ASSUME IInv, NEW c \in Clients, NEW n \in Tokens, Adopt(c, n)
  PROVE  /\ \A d \in Clients : held'[d] = IF d = c THEN n ELSE held[d]
         /\ stored' = stored \/ (c \in Tabs /\ stored' = n)
         /\ c \notin Tabs => inbox' = inbox
         /\ c \in Tabs => inbox'[c] = inbox[c]
         /\ c \in Tabs => \A d \in Tabs \ {c} : inbox'[d] = Append(inbox[d], n)
         /\ \A d \in Tabs : \A m : InMail(m, d)' => InMail(m, d) \/ (c \in Tabs /\ m = n)
<1>1. n \in 0..MaxTokens  BY DEF Tokens
<1>2. \A d \in Clients : held'[d] = IF d = c THEN n ELSE held[d]
  BY TokensKnown DEF Adopt, SetSession, TypeOK
<1>3. CASE c \in Tabs
  <2>1. inbox' = Broadcast(c, n) /\ (stored' = stored \/ stored' = n)
    BY <1>3 DEF Adopt, SetSession
  <2> QED  BY <1>1, <1>2, <1>3, <2>1, BroadcastMail
<1>4. CASE c \notin Tabs
  <2>1. stored' = stored /\ inbox' = inbox  BY <1>4 DEF Adopt
  <2> QED  BY <1>2, <1>4, <2>1 DEF InMail
<1> QED  BY <1>3, <1>4

LEMMA AdoptApart ==
  ASSUME IInv, NEW c \in Clients, NEW n \in Tokens, Adopt(c, n),
         \A d \in Tabs \ {c} : isRefreshing'[d] = isRefreshing[d],
         NEW t \in SessionIds \ {Session(c)},
         \A r \in Requests : Of(r, t) \/ Of(r, t)' => req'[r] = req[r]
  PROVE  Apart(t)
<1>1. \A d \in Clients : Session(d) = t => held'[d] = held[d]
  BY AdoptedStores
<1>2. ASSUME NEW d \in Tabs, Session(d) = t
      PROVE  stored' = stored /\ inbox'[d] = inbox[d] /\ isRefreshing'[d] = isRefreshing[d]
  <2>1. c \notin Tabs  BY <1>2, SessionsOfClients
  <2> QED  BY <2>1, AdoptedStores
<1> QED  BY <1>1, <1>2 DEF Apart

(* A token that is new to the session enters a store and the mail.           *)
LEMMA AdoptStands ==
  ASSUME IInv, NEW c \in Clients, NEW n \in Tokens, Adopt(c, n),
         Local(Session(c)), Private(n, Session(c)), presented[n] = {},
         presented' = presented, live' = live \cup {n},
         \A d \in Tabs \ {c} : isRefreshing'[d] = isRefreshing[d]
  PROVE  /\ HeldStand(Session(c))' /\ MailStands(Session(c))'
         /\ \A m : Private(m, Session(c)) /\ m # n => Private(m, Session(c))'
<1> DEFINE s == Session(c)
<1>1. s \in SessionIds /\ n # 0  BY SessionsOfClients
<1>2. HeldStand(s)'
  BY AdoptedStores, SessionsOfClients DEF Local, HeldStand
<1>3. ASSUME NEW m, Private(m, s), m # n PROVE Private(m, s)'
  BY <1>3, AdoptedStores DEF Private
<1>4. MailStands(s)'
  <2> SUFFICES ASSUME NEW d \in Tabs, Session(d) = s, NEW i \in 1..Len(inbox'[d])
               PROVE
      /\ inbox'[d][i] # 0 /\ inbox'[d][i] # held'[d]
      /\ d \notin presented[inbox'[d][i]]
      /\ inbox'[d][i] \in live' \/ presented[inbox'[d][i]] # {}
      /\ \A j \in 1..Len(inbox'[d]) : j # i => inbox'[d][j] # inbox'[d][i]
    BY DEF MailStands
  <2>0. d \in Clients /\ c \in Tabs  BY SessionsOfClients
  <2>1. MailStands(s)  BY DEF Local
  <2>2. held[d] # n /\ \A j \in 1..Len(inbox[d]) : inbox[d][j] # n
    BY <2>0 DEF Private, InMail
  <2>3. CASE d = c
    BY <2>0, <2>1, <2>2, <2>3, AdoptedStores DEF MailStands
  <2>4. CASE d # c
    <3>1. inbox'[d] = Append(inbox[d], n) /\ held'[d] = held[d]
      BY <2>0, <2>4, AdoptedStores
    <3>2. inbox[d] \in Seq(0..MaxTokens) /\ n \in 0..MaxTokens
      BY TokensKnown DEF Tokens
    <3>3. /\ Len(inbox[d]) \in Nat /\ Len(inbox'[d]) = Len(inbox[d]) + 1
          /\ inbox'[d][Len(inbox[d]) + 1] = n
          /\ \A j \in 1..Len(inbox[d]) : inbox'[d][j] = inbox[d][j]
          /\ \A j \in 1..Len(inbox'[d]) : j \in 1..Len(inbox[d]) \/ j = Len(inbox[d]) + 1
      BY <3>1, <3>2, MailAppended
    <3>4. \A j \in 1..Len(inbox'[d]) :
            \/ j \in 1..Len(inbox[d]) /\ inbox'[d][j] = inbox[d][j]
            \/ j = Len(inbox[d]) + 1 /\ inbox'[d][j] = n
      BY <3>3
    <3>5. CASE i \in 1..Len(inbox[d])
      <4>1. inbox'[d][i] = inbox[d][i] /\ inbox[d][i] # n  BY <2>2, <3>3, <3>5
      <4>2. \A j \in 1..Len(inbox'[d]) : j # i => inbox'[d][j] # inbox'[d][i]
        BY <2>1, <3>4, <3>5, <4>1 DEF MailStands
      <4> QED  BY <2>1, <3>1, <3>5, <4>1, <4>2 DEF MailStands
    <3>6. CASE i = Len(inbox[d]) + 1
      <4>1. inbox'[d][i] = n  BY <3>3, <3>6
      <4>2. \A j \in 1..Len(inbox'[d]) : j # i => inbox'[d][j] # n
        BY <2>2, <3>4, <3>6
      <4> QED  BY <1>1, <2>2, <3>1, <4>1, <4>2
    <3> QED  BY <3>4, <3>5, <3>6
  <2> QED  BY <2>3, <2>4
<1> QED  BY <1>2, <1>3, <1>4

(* A token not yet issued is new to everybody.                               *)
LEMMA UnissuedIsNew ==
  ASSUME IInv, NEW n \in Tokens, n = issued + 1
  PROVE  /\ presented[n] = {} /\ n # 0 /\ issued < n
         /\ \A s : Private(n, s)
         /\ \A r \in Requests : Busy(r) => req[r].token # n
<1>1. issued \in Nat /\ issued < n /\ presented[n] = {} /\ n # 0
  BY TokensKnown, SessionsOfClients
<1>a. n \notin 0..issued  BY <1>1
<1>2. \A c \in Clients : held[c] # n  BY <1>a, TokensKnown
<1>3. \A c \in Tabs : ~InMail(n, c)  BY <1>a, TokensKnown DEF InMail
<1>4. \A r \in Requests : Busy(r) => req[r].token # n  BY <1>1, TokensKnown
<1> QED  BY <1>1, <1>2, <1>3, <1>4 DEF Private

LEMMA SignInActs ==
  ASSUME IInv, NEW c \in Clients, SignIn(c) PROVE Kept'
<1>1. PICK n \in Tokens : Issue(n) /\ live' = live \cup {n} /\ Adopt(c, n)
  BY DEF SignIn
<1>2. /\ n = issued + 1 /\ issued' = n /\ expired' = expired
      /\ UNCHANGED <<isRefreshing, req, historyVars>>
  BY <1>1 DEF Issue, SignIn
<1>3. /\ presented[n] = {} /\ issued < n /\ \A t : Private(n, t)
      /\ \A r \in Requests : Busy(r) => req[r].token # n
  BY <1>2, UnissuedIsNew
<1>4. PICK s \in SessionIds : s = Session(c)  BY SessionsOfClients
<1>5. \A t \in SessionIds \ {s} : Apart(t)
  BY <1>1, <1>2, <1>4, AdoptApart DEF Of
<1>6. \A m \in Tokens : Belongs(m, s)' => Belongs(m, s) \/ m = n
  BY <1>1, <1>2, AdoptedStores DEF Belongs, Of, Busy, At
<1>7. ASSUME Calm(s)' PROVE Local(s)'
  <2>1. Local(s)
    BY <1>2, <1>7 DEF IInv, Kept, CalmSessionsStand, Calm, historyVars
  <2>2. /\ HeldStand(s)' /\ MailStands(s)'
        /\ \A m : Private(m, s) /\ m # n => Private(m, s)'
    BY <1>1, <1>2, <1>3, <1>4, <2>1, AdoptStands DEF historyVars
  <2>3. FlightsStand(s)'
    <3>1. \A r \in Requests : (Busy(r) /\ Of(r, s))' <=> (Busy(r) /\ Of(r, s))
      BY <1>2 DEF Busy, At, Of
    <3>2. \A r \in Requests : At(r, "rotated")' <=> At(r, "rotated")
      BY <1>2 DEF At
    <3> QED
      BY <1>1, <1>2, <1>3, <2>1, <2>2, <3>1, <3>2
      DEF Local, FlightsStand, historyVars
  <2>4. RetriesStand(s)'
    <3>1. \A d \in Clients : held[d] # 0 => held'[d] # 0
      BY <1>1, AdoptedStores, SessionsOfClients
    <3>2. \A r \in Requests : Of(r, s) => req[r].home \in Clients
      BY TokensKnown, HomesOfRequests DEF Of
    <3> QED
      BY <1>2, <2>1, <3>1, <3>2 DEF Local, RetriesStand, Of, At
  <2> QED  BY <2>2, <2>3, <2>4 DEF Local
<1>8. FlightsPresent'  BY <1>2, FlightsKept DEF historyVars
<1>9. issued' \in Nat /\ issued <= issued'
  BY <1>2, TokensKnown
<1>10. /\ struck' = struck /\ contested' = contested /\ denied' = denied
       /\ presented' = presented
  BY <1>2 DEF historyVars
<1>11. \A m \in Tokens :
         /\ Belongs(m, s)' => Belongs(m, s) \/ (issued < m /\ m <= issued')
         /\ (m \in live' <=> m \in live) \/ issued < m
  BY <1>1, <1>2, <1>3, <1>6, <1>9
<1> QED
  BY <1>2, <1>5, <1>7, <1>8, <1>9, <1>10, <1>11, ActsFor

(* Who presents a token that nobody contests presents a live one, and alone. *)
LEMMA RefreshActs ==
  ASSUME IInv, NEW r \in Requests, Refresh(r) PROVE Kept'
<1> DEFINE c == req[r].home  l == req[r].lane  n == held[c]
<1>1. /\ At(r, "sent") /\ n # 0 /\ ~OthersRefresh(r) /\ req[r] # None
      /\ isRefreshing' = [d \in Tabs |-> d = l \/ isRefreshing[d]]
      /\ req' = [req EXCEPT ![r] = [req[r] EXCEPT !.at = "flight", !.token = n]]
      /\ presented' = [presented EXCEPT ![n] = @ \cup {l}]
      /\ contested' = IF \A k \in presented[n] : k = l /\ k # Alone
                        THEN contested ELSE contested \cup {Session(c)}
      /\ UNCHANGED <<issued, live, expired, held, stored, inbox, denied, struck>>
  BY DEF Refresh, Rejected, At, serverVars
<1>2. /\ req[r] \in RequestStates /\ c \in Clients /\ l \in Tabs \cup {Alone}
      /\ n \in Tokens /\ n \in 0..MaxTokens
  <2>1. req[r] \in RequestStates /\ c \in Clients /\ l \in Tabs \cup {Alone}
    BY <1>1, TokensKnown, HomesOfRequests
  <2>2. n \in 0..MaxTokens  BY <2>1, TokensKnown DEF TypeOK
  <2> QED  BY <1>1, <2>1, <2>2, ConstantsAssumption DEF Tokens
<1>3. PICK s \in SessionIds : Of(r, s) /\ s = Session(c)
  BY <1>1, SessionOfRequest
<1>4. /\ req'[r] = [req[r] EXCEPT !.at = "flight", !.token = n]
      /\ \A q \in Requests \ {r} : req'[q] = req[q]
  BY <1>1, TokensKnown DEF TypeOK
<1>5. /\ req'[r] # None /\ req'[r].home = c /\ req'[r].lane = l
      /\ req'[r].at = "flight" /\ req'[r].token = n
  <2>1. req'[r].home = c /\ req'[r].lane = l /\ req'[r].at = "flight"
        /\ req'[r].token = n
    BY <1>2, <1>4 DEF RequestStates
  <2> HIDE DEF n
  <2>2. req'[r] # None  BY <1>2, <1>4, MovedRequests DEF Steps
  <2> QED  BY <2>1, <2>2
<1>6. /\ presented'[n] = presented[n] \cup {l}
      /\ \A m \in Tokens \ {n} : presented'[m] = presented[m]
  BY <1>1, <1>2, TokensKnown DEF TypeOK
<1>7. l \in Tabs => l = c
  BY <1>1, LaneOfTab DEF IInv, QueueInv
<1>8. Belongs(n, s)  BY <1>2, <1>3 DEF Belongs
<1> HIDE DEF c, l, n
<1>9. \A t \in SessionIds \ {s} : Apart(t)
  <2> SUFFICES ASSUME NEW t \in SessionIds \ {s} PROVE Apart(t)  OBVIOUS
  <2>1. \A q \in Requests : Of(q, t) \/ Of(q, t)' => req'[q] = req[q]
    BY <1>3, <1>4, <1>5 DEF Of, c
  <2>2. ASSUME NEW d \in Tabs, Session(d) = t PROVE isRefreshing'[d] = isRefreshing[d]
    <3>1. isRefreshing[d] \in BOOLEAN  BY TokensKnown DEF TypeOK
    <3>2. d # l  BY <1>3, <1>7, <2>2
    <3> QED  BY <1>1, <3>1, <3>2
  <2> QED  BY <1>1, <2>1, <2>2 DEF Apart
<1>10. \A m \in Tokens : Belongs(m, s)' => Belongs(m, s)
  <2>1. \A q \in Requests : (Busy(q) /\ Of(q, s))' =>
          q = r \/ (Busy(q) /\ Of(q, s) /\ req'[q] = req[q])
    BY <1>4 DEF Busy, At, Of
  <2> QED  BY <1>1, <1>5, <1>8, <2>1 DEF Belongs, InMail
<1>11. FlightsPresent'
  <2>1. \A q \in Requests : Busy(q)' => q = r \/ (Busy(q) /\ req'[q] = req[q])
    BY <1>4 DEF Busy, At
  <2>2. \A q \in Requests : At(q, "flight")' => q = r \/ At(q, "flight")
    BY <1>4 DEF At
  <2> QED  BY <1>2, <1>5, <1>6, <2>1, <2>2 DEF IInv, Kept, FlightsPresent, Busy
<1>12. ASSUME Calm(s)' PROVE Local(s)'
  <2>1. /\ Local(s) /\ \A k \in presented[n] : k = l /\ k # Alone
    <3>1. contested' = contested /\ \A k \in presented[n] : k = l /\ k # Alone
      BY <1>1, <1>3, <1>12 DEF Calm
    <3> QED  BY <1>1, <1>12, <3>1 DEF IInv, Kept, CalmSessionsStand, Calm
  <2>2. l \in Tabs => ~isRefreshing[l]
    BY <1>1, SessionsOfClients DEF OthersRefresh, l
  <2>3. presented[n] \subseteq Tabs \cup {Alone}
    BY <1>2, TokensKnown DEF TypeOK
  <2>4. n \in live
    <3> SUFFICES ASSUME n \notin live PROVE FALSE  OBVIOUS
    <3>1. presented[n] \subseteq {c}  BY <1>7, <2>1, <2>3
    <3>2. c \in Tabs /\ c \in presented[n] /\ isRefreshing[c]
      BY <1>1, <1>2, <1>3, <2>1, <3>1 DEF Local, HeldStand, n
    <3> QED  BY <1>7, <2>1, <2>2, <3>2
  <2>5. ASSUME NEW q \in Requests, Busy(q), Of(q, s)
        PROVE  req[q].token # n /\ (l \in Tabs => req[q].lane # l)
    <3>1. l \in Tabs => req[q].lane # l
      BY <2>1, <2>2, <2>5 DEF Local, FlightsStand
    <3>2. CASE At(q, "flight")
      <4>1. req[q].lane \in presented[req[q].token]
        BY <3>2 DEF IInv, Kept, FlightsPresent
      <4> QED  BY <2>1, <2>3, <3>1, <4>1
    <3>3. CASE At(q, "rotated")
      BY <1>2, <1>3, <2>1, <2>5, <3>1, <3>3 DEF Local, FlightsStand, Private, n
    <3> QED  BY <2>5, <3>1, <3>2, <3>3 DEF Busy
  <2>6. FlightsStand(s)'
    <3>1. \A q \in Requests : (Busy(q) /\ Of(q, s))' =>
            \/ q = r
            \/ /\ q # r /\ Busy(q) /\ Of(q, s) /\ req'[q] = req[q]
               /\ At(q, "rotated")' => At(q, "rotated")
      BY <1>4 DEF Busy, At, Of
    <3>2. ~At(r, "rotated")'  BY <1>5 DEF At
    <3>3. \A m : Private(m, s) => Private(m, s)'
      BY <1>1 DEF Private, InMail
    <3>4. ~Busy(r)  BY <1>1 DEF Busy, At
    <3>5. /\ l \in Tabs => isRefreshing'[l]
          /\ \A d \in Tabs : isRefreshing[d] => isRefreshing'[d]
      BY <1>1
    <3>6. \A q \in Requests : Busy(q) => req[q].token \in Tokens
      BY DEF IInv, Kept, FlightsPresent
    <3>7. ASSUME NEW q \in Requests, q # r, Busy(q), Of(q, s), req'[q] = req[q]
          PROVE  /\ req'[q].token \in live'
                 /\ At(q, "rotated") => presented'[req[q].token] = {}
                                        /\ Private(req[q].token, s)
                 /\ req'[q].lane \in Tabs => isRefreshing'[req'[q].lane]
                 /\ req'[q].token # n /\ (l \in Tabs => req'[q].lane # l)
      BY <1>1, <1>6, <2>1, <2>5, <3>5, <3>6, <3>7 DEF Local, FlightsStand
    <3>8. \A q, p \in Requests :
            Busy(q) /\ Of(q, s) /\ Busy(p) /\ Of(p, s) /\ p # q =>
              /\ req[p].token # req[q].token
              /\ req[q].lane \in Tabs => req[p].lane # req[q].lane
      BY <2>1 DEF Local, FlightsStand
    <3> SUFFICES ASSUME NEW q \in Requests, (Busy(q) /\ Of(q, s))'
                 PROVE
        /\ req'[q].token \in live'
        /\ At(q, "rotated")' => presented'[req'[q].token] = {} /\ Private(req[q].token, s)'
        /\ req'[q].lane \in Tabs => isRefreshing'[req'[q].lane]
        /\ \A p \in Requests \ {q} : (Busy(p) /\ Of(p, s))' =>
             /\ req'[p].token # req'[q].token
             /\ req'[q].lane \in Tabs => req'[p].lane # req'[q].lane
      BY DEF FlightsStand
    <3>9. CASE q = r
      BY <1>1, <1>5, <2>4, <3>1, <3>2, <3>5, <3>7, <3>9
    <3>10. CASE q # r
      <4>1. /\ Busy(q) /\ Of(q, s) /\ req'[q] = req[q]
            /\ At(q, "rotated")' => At(q, "rotated")
        BY <3>1, <3>10
      <4>2. At(q, "rotated") => Private(req[q].token, s)'
        BY <3>3, <3>7, <3>10, <4>1
      <4>3. \A p \in Requests \ {q} : (Busy(p) /\ Of(p, s))' =>
             /\ req'[p].token # req'[q].token
             /\ req'[q].lane \in Tabs => req'[p].lane # req'[q].lane
        BY <1>5, <3>1, <3>7, <3>8, <3>10, <4>1
      <4> QED  BY <3>7, <3>10, <4>1, <4>2, <4>3
    <3> QED  BY <3>9, <3>10
  <2>7. HeldStand(s)'
    <3>1. \A d \in Clients : held[d] # 0 => held[d] \in Tokens
      BY TokensKnown, ConstantsAssumption DEF TypeOK, Tokens
    <3> QED
      BY <1>1, <1>6, <2>1, <2>4, <3>1 DEF Local, HeldStand
  <2>8. MailStands(s)'
    <3> SUFFICES ASSUME NEW d \in Tabs, Session(d) = s, NEW i \in 1..Len(inbox[d])
                 PROVE
        /\ inbox[d][i] # 0 /\ inbox[d][i] # held[d]
        /\ d \notin presented'[inbox[d][i]]
        /\ inbox[d][i] \in live \/ presented'[inbox[d][i]] # {}
        /\ \A j \in 1..Len(inbox[d]) : j # i => inbox[d][j] # inbox[d][i]
      BY <1>1 DEF MailStands
    <3>1. /\ inbox[d][i] # 0 /\ inbox[d][i] # held[d]
          /\ d \notin presented[inbox[d][i]]
          /\ inbox[d][i] \in live \/ presented[inbox[d][i]] # {}
          /\ \A j \in 1..Len(inbox[d]) : j # i => inbox[d][j] # inbox[d][i]
      BY <2>1 DEF Local, MailStands
    <3>2. inbox[d][i] \in Tokens
      BY <3>1, TokensKnown, ConstantsAssumption DEF Tokens
    <3>3. inbox[d][i] = n => d # l
      BY <1>7, <3>1 DEF n
    <3> QED  BY <1>6, <3>1, <3>2, <3>3
  <2>9. RetriesStand(s)'
    <3>1. \A q \in Requests : Of(q, s)' =>
            q = r \/ (Of(q, s) /\ req'[q] = req[q])
      BY <1>4 DEF Of
    <3>2. \A q \in Requests \ {r} :
            /\ At(q, "rotated")' => At(q, "rotated")
            /\ At(q, "sent")' => At(q, "sent")
      BY <1>4 DEF At
    <3>3. ~At(r, "rotated")' /\ ~At(r, "sent")'  BY <1>5 DEF At
    <3> QED
      BY <1>1, <1>5, <2>1, <3>1, <3>2, <3>3 DEF Local, RetriesStand, n
  <2> QED  BY <2>6, <2>7, <2>8, <2>9 DEF Local
<1>13. /\ struck' = struck /\ contested \subseteq contested' /\ denied' = denied
       /\ live' = live /\ expired' = expired /\ issued' = issued /\ issued \in Nat
  BY <1>1, TokensKnown
<1>14. \A m \in Tokens :
         /\ presented'[m] = presented[m] \/ Belongs(m, s)
         /\ presented'[m] # {} => presented[m] # {} \/ Belongs(m, s)
  BY <1>6, <1>8
<1> QED  BY <1>9, <1>10, <1>11, <1>12, <1>13, <1>14, ActsFor

(* The server exchanges the presented token for one that nobody knows.       *)
LEMMA RotateActs ==
  ASSUME IInv, NEW r \in Requests, Rotate(r) PROVE Kept'
<1> DEFINE o == req[r].token  l == req[r].lane
<1>1. PICK n \in Tokens :
        /\ Issue(n) /\ live' = (live \ {o}) \cup {n}
        /\ req' = [req EXCEPT ![r] = [req[r] EXCEPT !.at = "rotated", !.token = n]]
  BY DEF Rotate
<1>2. /\ At(r, "flight") /\ o \in live /\ req[r] # None
      /\ n = issued + 1 /\ issued' = n /\ expired' = expired
      /\ UNCHANGED <<held, stored, inbox, isRefreshing, presented, contested,
                     denied, struck>>
  BY <1>1 DEF Rotate, Issue, At, clientVars, historyVars
<1>3. /\ presented[n] = {} /\ n # 0 /\ issued < n /\ \A t : Private(n, t)
      /\ \A q \in Requests : Busy(q) => req[q].token # n
  BY <1>2, UnissuedIsNew
<1>4. req[r] \in RequestStates /\ l \in Tabs \cup {Alone} /\ n \in 0..MaxTokens
  BY <1>2, TokensKnown, HomesOfRequests DEF Tokens
<1>5. PICK s \in SessionIds : Of(r, s)
  BY <1>2, SessionOfRequest
<1>6. /\ req'[r] = [req[r] EXCEPT !.at = "rotated", !.token = n]
      /\ \A q \in Requests \ {r} : req'[q] = req[q]
  BY <1>1, TokensKnown DEF TypeOK
<1>7. /\ req'[r] # None /\ req'[r].home = req[r].home /\ req'[r].lane = l
      /\ req'[r].at = "rotated" /\ req'[r].token = n
  <2>1. req'[r].home = req[r].home /\ req'[r].lane = l /\ req'[r].at = "rotated"
        /\ req'[r].token = n
    BY <1>4, <1>6 DEF RequestStates
  <2>2. req'[r] # None  BY <1>4, <1>6, MovedRequests DEF Steps
  <2> QED  BY <2>1, <2>2
<1>8. Busy(r) /\ Belongs(o, s) /\ l \in presented[o] /\ o \in Tokens
  BY <1>2, <1>5 DEF Busy, Belongs, IInv, Kept, FlightsPresent
<1> HIDE DEF o, l
<1>9. \A t \in SessionIds \ {s} : Apart(t)
  BY <1>2, <1>5, <1>6, <1>7 DEF Apart, Of
<1>10. \A m \in Tokens : Belongs(m, s)' => Belongs(m, s) \/ m = n
  <2>1. \A q \in Requests : (Busy(q) /\ Of(q, s))' =>
          q = r \/ (Busy(q) /\ Of(q, s) /\ req'[q] = req[q])
    BY <1>6 DEF Busy, At, Of
  <2> QED  BY <1>2, <1>7, <2>1 DEF Belongs, InMail
<1>11. FlightsPresent'
  <2>1. \A q \in Requests : Busy(q)' => q = r \/ (Busy(q) /\ req'[q] = req[q])
    BY <1>6 DEF Busy, At
  <2>2. \A q \in Requests : At(q, "flight")' => q # r /\ At(q, "flight")
    BY <1>6, <1>7 DEF At
  <2> QED  BY <1>2, <1>7, <2>1, <2>2 DEF IInv, Kept, FlightsPresent, Busy
<1>12. ASSUME Calm(s)' PROVE Local(s)'
  <2>1. Local(s)
    BY <1>2, <1>12 DEF IInv, Kept, CalmSessionsStand, Calm
  <2>2. FlightsStand(s)'
    <3>1. \A q \in Requests : (Busy(q) /\ Of(q, s))' =>
            \/ q = r
            \/ /\ q # r /\ Busy(q) /\ Of(q, s) /\ req'[q] = req[q]
               /\ At(q, "rotated")' => At(q, "rotated")
      BY <1>6 DEF Busy, At, Of
    <3>2. \A m : Private(m, s) => Private(m, s)'
      BY <1>2 DEF Private, InMail
    <3>3. \A q, p \in Requests :
            Busy(q) /\ Of(q, s) /\ Busy(p) /\ Of(p, s) /\ p # q =>
              /\ req[p].token # req[q].token
              /\ req[q].lane \in Tabs => req[p].lane # req[q].lane
      BY <2>1 DEF Local, FlightsStand
    <3>4. ASSUME NEW q \in Requests, q # r, Busy(q), Of(q, s), req'[q] = req[q]
          PROVE  /\ req'[q].token \in live'
                 /\ At(q, "rotated") => presented[req[q].token] = {}
                                        /\ Private(req[q].token, s)
                 /\ req'[q].lane \in Tabs => isRefreshing[req'[q].lane]
                 /\ req'[q].token # n
                 /\ l \in Tabs => req'[q].lane # l
                 /\ req'[q].lane \in Tabs => l # req'[q].lane
      BY <1>1, <1>3, <1>5, <1>8, <2>1, <3>3, <3>4
      DEF Local, FlightsStand, o, l
    <3>5. l \in Tabs => isRefreshing[l]
      BY <1>5, <1>8, <2>1 DEF Local, FlightsStand, l
    <3> SUFFICES ASSUME NEW q \in Requests, (Busy(q) /\ Of(q, s))'
                 PROVE
        /\ req'[q].token \in live'
        /\ At(q, "rotated")' => presented'[req'[q].token] = {} /\ Private(req[q].token, s)'
        /\ req'[q].lane \in Tabs => isRefreshing'[req'[q].lane]
        /\ \A p \in Requests \ {q} : (Busy(p) /\ Of(p, s))' =>
             /\ req'[p].token # req'[q].token
             /\ req'[q].lane \in Tabs => req'[p].lane # req'[q].lane
      BY DEF FlightsStand
    <3>6. CASE q = r
      <4>1. Private(req[q].token, s)'
        <5>1. Private(n, s)'  BY <1>3, <3>2
        <5> QED  BY <1>7, <3>6, <5>1
      <4>2. \A p \in Requests \ {q} : (Busy(p) /\ Of(p, s))' =>
             /\ req'[p].token # req'[q].token
             /\ req'[q].lane \in Tabs => req'[p].lane # req'[q].lane
        BY <1>7, <3>1, <3>4, <3>6
      <4> QED  BY <1>1, <1>2, <1>3, <1>7, <3>5, <3>6, <4>1, <4>2
    <3>7. CASE q # r
      <4>1. /\ Busy(q) /\ Of(q, s) /\ req'[q] = req[q]
            /\ At(q, "rotated")' => At(q, "rotated")
        BY <3>1, <3>7
      <4>2. At(q, "rotated") => Private(req[q].token, s)'
        BY <3>2, <3>4, <3>7, <4>1
      <4>3. \A p \in Requests \ {q} : (Busy(p) /\ Of(p, s))' =>
             /\ req'[p].token # req'[q].token
             /\ req'[q].lane \in Tabs => req'[p].lane # req'[q].lane
        BY <1>7, <3>1, <3>3, <3>4, <3>7, <4>1
      <4> QED  BY <1>2, <3>4, <3>7, <4>1, <4>2, <4>3
    <3> QED  BY <3>6, <3>7
  <2>3. HeldStand(s)'
    <3> SUFFICES ASSUME NEW d \in Clients, Session(d) = s, held[d] # 0,
                        held[d] \notin live', presented[held[d]] \subseteq {d}
                 PROVE  d \in Tabs /\ d \in presented[held[d]] /\ isRefreshing[d]
      BY <1>2 DEF HeldStand
    <3>1. CASE held[d] # o
      BY <1>1, <2>1, <3>1 DEF Local, HeldStand
    <3>2. CASE held[d] = o
      <4>1. l = d /\ d # Alone  BY <1>8, <3>2, NamesAssumption
      <4>2. d \in Tabs  BY <1>4, <4>1
      <4>3. isRefreshing[l]
        BY <1>5, <1>8, <2>1, <4>1, <4>2 DEF Local, FlightsStand, l
      <4> QED  BY <1>8, <3>2, <4>1, <4>2, <4>3
    <3> QED  BY <3>1, <3>2
  <2>4. MailStands(s)'
    BY <1>1, <1>2, <1>8, <2>1 DEF Local, MailStands
  <2>5. RetriesStand(s)'
    <3>1. \A q \in Requests : Of(q, s)' =>
            q = r \/ (Of(q, s) /\ req'[q] = req[q])
      BY <1>6 DEF Of
    <3>2. \A q \in Requests \ {r} :
            /\ At(q, "rotated")' => At(q, "rotated")
            /\ At(q, "sent")' => At(q, "sent")
      BY <1>6 DEF At
    <3>3. n > expired /\ held[req[r].home] # 0
      <4>1. expired \in 0..issued /\ issued \in Nat  BY TokensKnown
      <4>2. held[req[r].home] # 0  BY <1>5, <2>1 DEF Local, RetriesStand
      <4> QED  BY <1>2, <4>1, <4>2
    <3> QED
      BY <1>2, <1>7, <2>1, <3>1, <3>2, <3>3 DEF Local, RetriesStand
  <2> QED  BY <2>2, <2>3, <2>4, <2>5 DEF Local
<1>13. issued' \in Nat /\ issued <= issued' /\ issued \in Nat
  BY <1>2, TokensKnown
<1>14. \A m \in Tokens :
         /\ Belongs(m, s)' => Belongs(m, s) \/ (issued < m /\ m <= issued')
         /\ (m \in live' <=> m \in live) \/ Belongs(m, s) \/ issued < m
  BY <1>1, <1>2, <1>3, <1>8, <1>10, <1>13
<1> QED  BY <1>2, <1>9, <1>11, <1>12, <1>13, <1>14, ActsFor

(* The answer brings the session a token that only it knew.                  *)
LEMMA RefreshedActs ==
  ASSUME IInv, NEW r \in Requests, Refreshed(r) PROVE Kept'
<1> DEFINE c == req[r].home  l == req[r].lane  n == req[r].token
<1>1. /\ At(r, "rotated") /\ req[r] # None /\ Busy(r)
      /\ Adopt(c, n) /\ SendAgain(Resolved(r), n)
      /\ isRefreshing' = [d \in Tabs |-> d # l /\ isRefreshing[d]]
      /\ UNCHANGED <<issued, live, expired, historyVars>>
  BY DEF Refreshed, At, Busy, serverVars
<1>2. /\ c \in Clients /\ l \in Tabs \cup {Alone} /\ n \in Tokens
      /\ l \in Tabs => l = c
  <2>1. c \in Clients /\ l \in Tabs \cup {Alone}
    BY <1>1, TokensKnown, HomesOfRequests
  <2>2. n \in Tokens  BY <1>1 DEF IInv, Kept, FlightsPresent
  <2> QED  BY <1>1, <2>1, <2>2, LaneOfTab DEF IInv, QueueInv
<1>3. PICK s \in SessionIds : Of(r, s) /\ s = Session(c)
  BY <1>1, SessionOfRequest
<1>4. /\ \A q \in Requests \ Resolved(r) : req'[q] = req[q]
      /\ r \in Resolved(r) /\ Resolved(r) \subseteq Requests
  BY <1>1 DEF SendAgain, Resolved, Waiting
<1>5. ASSUME NEW q \in Resolved(r)
      PROVE  /\ req[q] # None /\ req[q].home = c /\ (q = r \/ At(q, "waiting"))
             /\ req'[q].home = c /\ req'[q].at = "sent" /\ req'[q].token = n
             /\ req'[q].retried
  <2>1. req[q] # None /\ (q = r \/ At(q, "waiting"))
    BY <1>1, <1>5 DEF Resolved, Waiting, At
  <2>2. req[q].home = c
    <3>1. CASE q = r  BY <3>1
    <3>2. CASE q # r
      <4>1. req[q].home = l  BY <1>5, <3>2 DEF Resolved, Waiting
      <4>2. req[q].home \in Clients  BY <1>4, <1>5, <2>1, TokensKnown, HomesOfRequests
      <4>3. l \in Tabs  BY <1>2, <4>1, <4>2, NamesAssumption
      <4> QED  BY <1>2, <4>1, <4>3
    <3> QED  BY <3>1, <3>2
  <2>3. req[q] \in RequestStates
    BY <1>4, <1>5, <2>1, TokensKnown, HomesOfRequests
  <2>4. req'[q] = [req[q] EXCEPT !.at = "sent", !.token = n, !.retried = TRUE]
    BY <1>1, <1>4, <1>5 DEF SendAgain
  <2> QED  BY <2>1, <2>2, <2>3, <2>4 DEF RequestStates
<1>6. Belongs(n, s)  BY <1>1, <1>3 DEF Belongs
<1>7. \A d \in Tabs \ {c} : isRefreshing'[d] = isRefreshing[d]
  <2> SUFFICES ASSUME NEW d \in Tabs \ {c} PROVE isRefreshing'[d] = isRefreshing[d]
    OBVIOUS
  <2>1. d # l /\ isRefreshing[d] \in BOOLEAN  BY <1>2, TokensKnown DEF TypeOK
  <2> QED  BY <1>1, <2>1
<1> HIDE DEF c, l, n
<1>8. \A t \in SessionIds \ {s} : Apart(t)
  <2> SUFFICES ASSUME NEW t \in SessionIds \ {s} PROVE Apart(t)  OBVIOUS
  <2>1. \A q \in Requests : Of(q, t) \/ Of(q, t)' => req'[q] = req[q]
    BY <1>3, <1>4, <1>5 DEF Of
  <2> QED  BY <1>1, <1>2, <1>3, <1>7, <2>1, AdoptApart DEF c, n
<1>9. \A q \in Requests : Busy(q)' =>
        Busy(q) /\ req'[q] = req[q] /\ q # r /\ (At(q, "rotated")' => At(q, "rotated"))
  BY <1>4, <1>5 DEF Busy, At
<1>10. \A m \in Tokens : Belongs(m, s)' => Belongs(m, s)
  <2>1. \A q \in Requests : (Busy(q) /\ Of(q, s))' =>
          Busy(q) /\ Of(q, s) /\ req'[q] = req[q]
    BY <1>9 DEF Of
  <2>2. /\ \A d \in Clients : held'[d] = held[d] \/ held'[d] = n
        /\ stored' = stored \/ stored' = n
        /\ \A d \in Tabs : \A m : InMail(m, d)' => InMail(m, d) \/ m = n
    BY <1>1, <1>2, AdoptedStores DEF c, n
  <2> QED  BY <1>6, <2>1, <2>2 DEF Belongs
<1>11. FlightsPresent'  BY <1>1, <1>9, FlightsKept DEF historyVars
<1>12. ASSUME Calm(s)' PROVE Local(s)'
  <2>1. Local(s)
    BY <1>1, <1>12 DEF IInv, Kept, CalmSessionsStand, Calm, historyVars
  <2>2. n \in live /\ presented[n] = {} /\ Private(n, s) /\ n > expired
    BY <1>1, <1>3, <2>1 DEF Local, FlightsStand, RetriesStand, n
  <2>3. /\ HeldStand(s)' /\ MailStands(s)'
        /\ \A m : Private(m, s) /\ m # n => Private(m, s)'
    <3>1. presented' = presented /\ live' = live \cup {n}
      BY <1>1, <2>2 DEF historyVars
    <3> QED
      BY <1>1, <1>2, <1>3, <1>7, <2>1, <2>2, <3>1, AdoptStands DEF c, n
  <2>4. FlightsStand(s)'
    <3>1. \A q \in Requests : (Busy(q) /\ Of(q, s))' =>
            /\ q # r /\ Busy(q) /\ Of(q, s) /\ req'[q] = req[q]
            /\ At(q, "rotated")' => At(q, "rotated")
      BY <1>9 DEF Of
    <3>2. ASSUME NEW q \in Requests, q # r, Busy(q), Of(q, s)
          PROVE  /\ req[q].token # n
                 /\ req[q].lane \in Tabs => isRefreshing'[req[q].lane]
      <4>1. /\ req[q].token # req[r].token
            /\ req[q].lane \in Tabs => req[r].lane # req[q].lane
            /\ req[q].lane \in Tabs => isRefreshing[req[q].lane]
        BY <1>1, <1>3, <2>1, <3>2 DEF Local, FlightsStand
      <4> QED  BY <1>1, <4>1 DEF l, n
    <3>3. \A q \in Requests :
            q # r /\ Busy(q) /\ Of(q, s) /\ At(q, "rotated") => Private(req[q].token, s)
      BY <2>1 DEF Local, FlightsStand
    <3>4. \A q \in Requests : (Busy(q) /\ Of(q, s) /\ At(q, "rotated"))' =>
            Private(req[q].token, s)'
      <4> SUFFICES ASSUME NEW q \in Requests, (Busy(q) /\ Of(q, s) /\ At(q, "rotated"))'
                   PROVE  Private(req[q].token, s)'
        OBVIOUS
      <4>1. PICK m : m = req[q].token  OBVIOUS
      <4>2. Private(m, s)'  BY <2>3, <3>1, <3>2, <3>3, <4>1
      <4>3. m = req'[q].token  BY <3>1, <4>1
      <4> QED  BY <4>2, <4>3
    <3> QED
      BY <1>1, <2>1, <3>1, <3>2, <3>4 DEF Local, FlightsStand, historyVars
  <2>5. RetriesStand(s)'
    <3>1. \A d \in Clients : held[d] # 0 => held'[d] # 0
      BY <1>1, <1>2, AdoptedStores, SessionsOfClients DEF c, n
    <3>2. held'[c] # 0
      BY <1>1, <1>2, AdoptedStores, SessionsOfClients DEF c, n
    <3> SUFFICES ASSUME NEW q \in Requests, Of(q, s)'
                 PROVE  /\ held'[req'[q].home] # 0
                        /\ (At(q, "rotated") \/ (At(q, "sent") /\ req[q].retried))'
                             => req'[q].token > expired
      BY <1>1 DEF RetriesStand
    <3>3. CASE q \in Resolved(r)
      BY <1>5, <2>2, <3>2, <3>3
    <3>4. CASE q \notin Resolved(r)
      <4>1. req'[q] = req[q] /\ Of(q, s)  BY <1>4, <3>4 DEF Of
      <4>2. req[q].home \in Clients  BY <4>1, TokensKnown, HomesOfRequests DEF Of
      <4> QED  BY <2>1, <3>1, <4>1, <4>2 DEF Local, RetriesStand, At
    <3> QED  BY <3>3, <3>4
  <2> QED  BY <2>3, <2>4, <2>5 DEF Local
<1>13. /\ struck' = struck /\ contested' = contested /\ denied' = denied
       /\ presented' = presented /\ live' = live /\ expired' = expired
       /\ issued' = issued /\ issued \in Nat
  BY <1>1, TokensKnown DEF historyVars
<1> QED  BY <1>8, <1>10, <1>11, <1>12, <1>13, ActsFor

(* A broadcast that brings a token.                                          *)
LEMMA DeliverTokenActs ==
  ASSUME IInv, NEW c \in Tabs, Deliver(c), Head(inbox[c]) # 0 PROVE Kept'
<1> DEFINE n == Head(inbox[c])
<1>1. /\ inbox[c] # << >> /\ inbox' = [inbox EXCEPT ![c] = Tail(inbox[c])]
      /\ held' = [held EXCEPT ![c] = n] /\ (stored' = stored \/ stored' = n)
      /\ UNCHANGED <<isRefreshing, req, denied, serverVars, presented, contested, struck>>
  BY DEF Deliver, SetSession
<1>2. /\ \A d \in Tabs \ {c} : inbox'[d] = inbox[d]
      /\ 1 \in 1..Len(inbox[c]) /\ n = inbox[c][1] /\ n \in 0..MaxTokens
      /\ \A i \in 1..Len(inbox'[c]) :
           i + 1 \in 1..Len(inbox[c]) /\ i + 1 # 1 /\ inbox'[c][i] = inbox[c][i + 1]
      /\ \A d \in Tabs : \A m : InMail(m, d)' => InMail(m, d)
  BY <1>1, DeliveredMail
<1>3. /\ c \in Clients /\ Session(c) = Browser /\ Browser \in SessionIds
      /\ \A d \in Tabs : Session(d) = Browser
  BY SessionsOfClients
<1>4. InMail(n, c) /\ Belongs(n, Browser)
  BY <1>2, <1>3 DEF InMail, Belongs
<1>5. \A d \in Clients : held'[d] = IF d = c THEN n ELSE held[d]
  BY <1>1, <1>3, TokensKnown DEF TypeOK
<1> HIDE DEF n
<1>6. ASSUME NEW t \in SessionIds \ {Browser} PROVE Apart(t)
  BY <1>1, <1>3, <1>5 DEF Apart
<1>7. \A m \in Tokens : Belongs(m, Browser)' => Belongs(m, Browser)
  <2>1. \A q \in Requests : \A m : (Busy(q) /\ Of(q, Browser))' /\ req'[q].token = m =>
          Busy(q) /\ Of(q, Browser) /\ req[q].token = m
    BY <1>1 DEF Busy, At, Of
  <2> QED  BY <1>1, <1>2, <1>4, <1>5, <2>1 DEF Belongs
<1>8. FlightsPresent'  BY <1>1, FlightsKept
<1>9. ASSUME Calm(Browser)' PROVE Local(Browser)'
  <2>1. Local(Browser)
    BY <1>1, <1>3, <1>9 DEF IInv, Kept, CalmSessionsStand, Calm
  <2>2. /\ n # 0 /\ c \notin presented[n] /\ (n \in live \/ presented[n] # {})
        /\ \A j \in 1..Len(inbox[c]) : j # 1 => inbox[c][j] # n
    BY <1>2, <1>3, <2>1 DEF Local, MailStands
  <2>3. FlightsStand(Browser)'
    <3>1. \A m : Private(m, Browser) => Private(m, Browser)'
      <4> SUFFICES ASSUME NEW m, Private(m, Browser) PROVE Private(m, Browser)'
        OBVIOUS
      <4>1. m # n  BY <1>3, <1>4 DEF Private
      <4> QED  BY <1>2, <1>5, <4>1 DEF Private
    <3>2. \A q \in Requests : (Busy(q) /\ Of(q, Browser))' => Busy(q) /\ Of(q, Browser)
      BY <1>1 DEF Busy, At, Of
    <3>3. \A q \in Requests : At(q, "rotated")' => At(q, "rotated")
      BY <1>1 DEF At
    <3>4. live' = live /\ req' = req /\ isRefreshing' = isRefreshing
          /\ presented' = presented
      BY <1>1 DEF serverVars
    <3> QED  BY <2>1, <3>1, <3>2, <3>3, <3>4 DEF Local, FlightsStand
  <2>4. HeldStand(Browser)'
    BY <1>1, <1>3, <1>5, <2>1, <2>2 DEF Local, HeldStand, serverVars
  <2>5. MailStands(Browser)'
    <3> SUFFICES ASSUME NEW d \in Tabs, NEW i \in 1..Len(inbox'[d])
                 PROVE
      /\ inbox'[d][i] # 0 /\ inbox'[d][i] # held'[d]
      /\ d \notin presented[inbox'[d][i]]
      /\ inbox'[d][i] \in live \/ presented[inbox'[d][i]] # {}
      /\ \A j \in 1..Len(inbox'[d]) : j # i => inbox'[d][j] # inbox'[d][i]
      BY <1>1 DEF MailStands, serverVars
    <3>0. d \in Clients /\ Session(d) = Browser  BY SessionsOfClients
    <3>1. CASE d # c
      BY <1>2, <1>5, <2>1, <3>0, <3>1 DEF Local, MailStands
    <3>2. CASE d = c
      <4>1. /\ i + 1 \in 1..Len(inbox[c]) /\ inbox'[c][i] = inbox[c][i + 1]
            /\ inbox[c][i + 1] # n /\ held'[c] = n
        BY <1>2, <1>3, <1>5, <2>2, <3>2
      <4>2. \A j \in 1..Len(inbox'[c]) : j # i =>
              j + 1 \in 1..Len(inbox[c]) /\ j + 1 # i + 1
              /\ inbox'[c][j] = inbox[c][j + 1]
        <5> SUFFICES ASSUME NEW j \in 1..Len(inbox'[c]), j # i
                     PROVE  j + 1 \in 1..Len(inbox[c]) /\ j + 1 # i + 1
                            /\ inbox'[c][j] = inbox[c][j + 1]
          OBVIOUS
        <5>1. j \in Int /\ i \in Int  BY <3>2
        <5> QED  BY <1>2, <5>1
      <4>3. \A k \in 1..Len(inbox[c]) :
              /\ inbox[c][k] # 0 /\ c \notin presented[inbox[c][k]]
              /\ inbox[c][k] \in live \/ presented[inbox[c][k]] # {}
              /\ \A j \in 1..Len(inbox[c]) : j # k => inbox[c][j] # inbox[c][k]
        BY <1>3, <2>1 DEF Local, MailStands
      <4> QED  BY <3>2, <4>1, <4>2, <4>3
    <3> QED  BY <3>1, <3>2
  <2>6. RetriesStand(Browser)'
    <3>1. \A q \in Requests : Of(q, Browser)' => Of(q, Browser) /\ req[q].home \in Clients
      BY <1>1, TokensKnown, HomesOfRequests DEF Of
    <3>2. \A d \in Clients : held[d] # 0 => held'[d] # 0
      BY <1>5, <2>2
    <3> QED
      BY <1>1, <2>1, <3>1, <3>2 DEF Local, RetriesStand, At, serverVars
  <2> QED  BY <2>3, <2>4, <2>5, <2>6 DEF Local
<1>10. live' = live /\ expired' = expired /\ issued' = issued /\ issued \in Nat
  BY <1>1, TokensKnown DEF serverVars
<1> QED  BY <1>1, <1>3, <1>6, <1>7, <1>8, <1>9, <1>10, ActsFor

(* A broadcast that ends the session was sent by a session that had ended.   *)
LEMMA DeliverActs ==
  ASSUME IInv, NEW c \in Tabs, Deliver(c) PROVE Kept'
<1>1. CASE Head(inbox[c]) # 0  BY <1>1, DeliverTokenActs
<1>2. CASE Head(inbox[c]) = 0
  <2>1. /\ inbox[c] # << >> /\ inbox' = [inbox EXCEPT ![c] = Tail(inbox[c])]
        /\ ClearSession(c, {})
        /\ UNCHANGED <<issued, live, expired, presented, contested, struck>>
    BY <1>2 DEF Deliver, serverVars
  <2>2. /\ 1 \in 1..Len(inbox[c]) /\ inbox[c][1] = 0
        /\ \A d \in Tabs : \A m : InMail(m, d)' => InMail(m, d)
    BY <1>2, <2>1, DeliveredMail
  <2>3. Session(c) = Browser /\ Browser \in SessionIds
    BY SessionsOfClients
  <2>4. ~Calm(Browser)
    BY <2>2, <2>3 DEF IInv, Kept, CalmSessionsStand, Local, MailStands
  <2>5. ~Calm(Browser)'  BY <2>1, <2>4 DEF Calm
  <2> QED  BY <2>1, <2>2, <2>5, ClearActs
<1> QED  BY <1>1, <1>2

LEMMA KeptInit == Init => Kept
<1> SUFFICES ASSUME Init PROVE Kept  OBVIOUS
<1>1. \A r \in Requests : req[r] = None /\ ~Busy(r)  BY DEF Init, Busy, At
<1>2. \A n \in Tokens : n # 0 /\ presented[n] = {}
  BY SessionsOfClients DEF Init
<1>3. /\ \A c \in Clients : held[c] = 0
      /\ stored = 0 /\ \A c \in Tabs : inbox[c] = << >> /\ Len(inbox[c]) = 0
  BY DEF Init
<1>4. \A n \in Tokens : \A s : ~Belongs(n, s)
  BY <1>1, <1>2, <1>3 DEF Belongs, InMail
<1>5. TokensBelong /\ TokensIssued /\ FlightsPresent /\ DeniedForCause
  BY <1>1, <1>2, <1>4
  DEF Init, TokensBelong, TokensIssued, FlightsPresent, DeniedForCause, At
<1>6. ASSUME NEW s \in SessionIds PROVE Local(s)
  BY <1>1, <1>3
  DEF Local, FlightsStand, HeldStand, MailStands, RetriesStand, Of
<1> QED  BY <1>5, <1>6 DEF Kept, CalmSessionsStand

LEMMA KeptStep == IInv /\ [Next]_vars => IInv'
<1> SUFFICES ASSUME IInv, [Next]_vars PROVE Kept'
  BY QueueStep DEF IInv
<1>1. CASE UNCHANGED vars
  <2>1. /\ UNCHANGED <<serverVars, clientVars, historyVars>>
        /\ \A r \in Requests : req'[r] = req[r]
    BY <1>1 DEF vars
  <2> QED  BY <2>1, IdleRequests
<1> QED
  BY <1>1, ExpireActs, RevokeAllActs, SignInActs, SignOutActs, DeliverActs,
     ReloadActs, SendActs, EndActs, RejectedAgainActs, WaitActs, RefreshActs,
     RefusedActs, RotateActs, RefreshedActs, RefreshLostActs
  DEF Next

(* DeniedForCause, for any tabs, installations, requests and faults: nobody  *)
(* is sent to the sign-in form without a cause.                              *)
THEOREM NobodyIsDeniedWithoutCause == Spec => []DeniedForCause
<1>1. Init => IInv  BY QueueInit, KeptInit DEF IInv
<1>2. Spec => []IInv  BY <1>1, KeptStep, PTL DEF Spec
<1>3. IInv => DeniedForCause  BY DEF IInv, Kept
<1> QED  BY <1>2, <1>3, PTL

=============================================================================
