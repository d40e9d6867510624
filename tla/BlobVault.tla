----------------------------- MODULE BlobVault -----------------------------
(***************************************************************************)
(* What encryption rotation promises to the users of the object store:     *)
(* the store may close for maintenance or because the server is down, but  *)
(* no stored object is gained, lost or made unreadable while it is closed, *)
(* and its key is never exchanged under a reader.                          *)
(***************************************************************************)
EXTENDS Naturals

CONSTANTS Objects, Keys, InitKey, Readers, None

VARIABLES
  mode,      \* "open" or "closed"
  objects,   \* the objects a user can fetch once the store is open
  reading,   \* the object each reader is fetching
  key        \* the key in use

vars == <<mode, objects, reading, key>>

Init ==
  /\ mode = "open" /\ objects = {} /\ key = InitKey
  /\ reading = [r \in Readers |-> None]

Put(o) ==
  /\ mode = "open" /\ objects' = objects \cup {o}
  /\ UNCHANGED <<mode, reading, key>>

Drop(o) ==
  /\ mode = "open" /\ objects' = objects \ {o}
  /\ UNCHANGED <<mode, reading, key>>

BeginRead(r) ==
  /\ mode = "open" /\ reading[r] = None
  /\ \E o \in objects : reading' = [reading EXCEPT ![r] = o]
  /\ UNCHANGED <<mode, objects, key>>

EndRead(r) ==
  /\ reading' = [reading EXCEPT ![r] = None]
  /\ UNCHANGED <<mode, objects, key>>

Close ==
  /\ mode = "open" /\ mode' = "closed"
  /\ UNCHANGED <<objects, reading, key>>

\* The server goes down, and its readers with it.
Fail ==
  /\ mode' = "closed" /\ reading' = [r \in Readers |-> None]
  /\ UNCHANGED <<objects, key>>

Rekey ==
  /\ mode = "closed" /\ reading = [r \in Readers |-> None]
  /\ key' \in Keys
  /\ UNCHANGED <<mode, objects, reading>>

Reopen ==
  /\ mode = "closed" /\ mode' = "open"
  /\ UNCHANGED <<objects, reading, key>>

Next ==
  \/ \E o \in Objects : Put(o) \/ Drop(o)
  \/ \E r \in Readers : BeginRead(r) \/ EndRead(r)
  \/ Close \/ Fail \/ Rekey \/ Reopen

Spec == Init /\ [][Next]_vars
=============================================================================
