-------------------------- MODULE ResumableUpload --------------------------
(***************************************************************************)
(* Chunked uploads of one user's private files: the clients that ask how   *)
(* many bytes the server has and send chunks from there, with retries; the *)
(* requests that arrive late, after their client gave up; the handler that *)
(* checks the offset, reserves quota, appends, publishes the completed     *)
(* file and releases; and what changes the quota in between.               *)
(*                                                                         *)
(* A local file is a version, of a size; a byte is its version and its     *)
(* position.  The handler holds storageMutex from the first check to the   *)
(* release, so one request is handled at a time; its steps are the points  *)
(* where an error or the end of the process leaves something behind.       *)
(***************************************************************************)
EXTENDS Integers, Sequences, FiniteSets, Totals

CONSTANTS
  Paths,        \* paths in the user's private scope
  Versions,     \* local files
  SizeOf,       \* the size of each
  ChunkLen,     \* the chunk size of the clients
  Sessions,     \* clients that upload
  Tries,        \* attempts per chunk: 3 in lib/main.dart, 1 in the others
  Limits,       \* quotas the administrator gives, 0 for none
  MaxLate,      \* bound on late requests at a time
  MaxFaults,    \* bound on failed writes, lost connections, cancellations
  MaxCuts,      \* bound on ends of the process
  MaxTrash,     \* bound on the bytes in the trash
  None          \* no file, no reservation, no request

ASSUME SizesAssumption ==
  /\ IsFiniteSet(Paths)
  /\ SizeOf \in [Versions -> Nat \ {0}]
  /\ ChunkLen \in Nat \ {0} /\ Tries \in Nat \ {0}
  /\ Limits \subseteq Nat /\ Limits # {}
  /\ {MaxLate, MaxFaults, MaxCuts, MaxTrash} \subseteq Nat

Bytes == [ver : Versions, pos : Nat \ {0}]

Requests == [session : Sessions, path : Paths, ver : Versions,
             offset : Nat, len : Nat \ {0}, live : BOOLEAN]

Calls == [req : Requests, step : {"write", "publish", "clean", "release"}]

ASSUME NoneAssumption == None \notin Seq(Bytes) \cup Nat \cup Calls

Phases == {"idle", "query", "send", "wait", "ok", "failed"}

SessionStates ==
  [phase : Phases, path : Paths, ver : Versions, offset : Nat, tries : Nat,
   reply : {"none", "ok", "error"}, published : BOOLEAN]

VARIABLES
  part,         \* .tmp_uploads/<key>: the bytes received for each path
  stored,       \* the live files
  trashed,      \* bytes charged for the trash
  reserved,     \* upload_reservations that have not expired
  limit,        \* quota_bytes
  call,         \* the request being handled
  wire,         \* requests on their way, late ones included
  session,      \* the clients
  faults, cuts  \* faults so far

serverVars == <<part, stored, reserved, call>>
userVars == <<trashed, limit>>
vars == <<serverVars, userVars, wire, session, faults, cuts>>

TypeOK ==
  /\ part \in [Paths -> Seq(Bytes) \cup {None}]
  /\ stored \in [Paths -> Seq(Bytes) \cup {None}]
  /\ trashed \in Nat /\ limit \in Nat
  /\ reserved \in [Paths -> Nat \cup {None}]
  /\ call \in Calls \cup {None}
  /\ wire \subseteq Requests
  /\ session \in [Sessions -> SessionStates]
  /\ faults \in 0 .. MaxFaults /\ cuts \in 0 .. MaxCuts

Init ==
  /\ part = [p \in Paths |-> None] /\ stored = [p \in Paths |-> None]
  /\ trashed = 0 /\ limit \in Limits
  /\ reserved = [p \in Paths |-> None]
  /\ call = None /\ wire = {}
  /\ session \in [Sessions ->
       [phase : {"idle"}, path : Paths, ver : Versions, offset : {0},
        tries : {0}, reply : {"none"}, published : {FALSE}]]
  /\ faults = 0 /\ cuts = 0

Size(f) == IF f = None THEN 0 ELSE Len(f)
Chunk(v, offset, len) == [i \in 1 .. len |-> [ver |-> v, pos |-> offset + i]]
Smaller(a, b) == IF a < b THEN a ELSE b

-----------------------------------------------------------------------------
(* Quota: usage() and reserve().                                            *)

Used == Total([p \in Paths |-> Size(stored[p])], Paths) + trashed

ReservedElsewhere(p) ==
  Total(reserved, {q \in Paths \ {p} : reserved[q] # None})

\* Variant: a smaller file is reserved with a negative number.
GrowthSigned(p, total) == total - Size(stored[p])

\* std::max(0, size - oldSize)
Growth(p, total) ==
  IF total > Size(stored[p]) THEN total - Size(stored[p]) ELSE 0

\* Variant: the reservations of other paths are not counted.
RefusedAlone(p, total) ==
  /\ Growth(p, total) > 0 /\ limit > 0
  /\ Used + Growth(p, total) > limit

Refused(p, total) ==
  /\ Growth(p, total) > 0 /\ limit > 0
  /\ Used + ReservedElsewhere(p) + Growth(p, total) > limit

-----------------------------------------------------------------------------
(* Clients.                                                                 *)

\* The user starts an upload, or starts again after a failure.
Begin(s, p, v) ==
  /\ session[s].phase \in {"idle", "ok", "failed"}
  /\ session' = [session EXCEPT ![s] =
       [phase |-> "query", path |-> p, ver |-> v, offset |-> 0, tries |-> 0,
        reply |-> "none", published |-> FALSE]]
  /\ UNCHANGED <<serverVars, userVars, wire, faults, cuts>>

\* Variant: all the bytes are there, nothing is left to send.
ResumeAtEnd(received, total) == IF received <= total THEN received ELSE 0

\* Where to go on from, when the server has that many bytes.
ResumeOffset(received, total) == IF received < total THEN received ELSE 0

\* GET upload-status, under the lock of the path; a failed query counts as 0.
Query(s) ==
  /\ session[s].phase = "query"
  /\ call # None => call.req.path # session[s].path
  /\ \E received \in {0, Size(part[session[s].path])} :
       session' = [session EXCEPT ![s].phase = "send",
         ![s].offset = ResumeOffset(received, SizeOf[session[s].ver])]
  /\ UNCHANGED <<serverVars, userVars, wire, faults, cuts>>

\* Variant: attempts are not counted.
SendChunkUncounted(s) ==
  LET left == SizeOf[session[s].ver] - session[s].offset IN
  /\ session[s].phase = "send" /\ session[s].offset < SizeOf[session[s].ver]
  /\ wire' = wire \cup
       {[session |-> s, path |-> session[s].path, ver |-> session[s].ver,
         offset |-> session[s].offset, len |-> Smaller(ChunkLen, left),
         live |-> TRUE]}
  /\ session' = [session EXCEPT ![s].phase = "wait"]
  /\ UNCHANGED <<serverVars, userVars, faults, cuts>>

SendChunk(s) ==
  LET left == SizeOf[session[s].ver] - session[s].offset IN
  /\ session[s].phase = "send" /\ session[s].offset < SizeOf[session[s].ver]
  /\ wire' = wire \cup
       {[session |-> s, path |-> session[s].path, ver |-> session[s].ver,
         offset |-> session[s].offset, len |-> Smaller(ChunkLen, left),
         live |-> TRUE]}
  /\ session' = [session EXCEPT ![s].phase = "wait", ![s].tries = @ + 1]
  /\ UNCHANGED <<serverVars, userVars, faults, cuts>>

Finish(s) ==
  /\ session[s].phase = "send" /\ session[s].offset >= SizeOf[session[s].ver]
  /\ session' = [session EXCEPT ![s].phase = "ok"]
  /\ UNCHANGED <<serverVars, userVars, wire, faults, cuts>>

ReceiveOk(s) ==
  LET left == SizeOf[session[s].ver] - session[s].offset IN
  /\ session[s].phase = "wait" /\ session[s].reply = "ok"
  /\ session' = [session EXCEPT ![s].phase = "send", ![s].reply = "none",
       ![s].tries = 0, ![s].offset = @ + Smaller(ChunkLen, left)]
  /\ UNCHANGED <<serverVars, userVars, wire, faults, cuts>>

\* The next attempt sends the same chunk again.
AfterFailure(s) == IF session[s].tries < Tries THEN "send" ELSE "failed"

ReceiveError(s) ==
  /\ session[s].phase = "wait" /\ session[s].reply = "error"
  /\ session' = [session EXCEPT ![s].phase = AfterFailure(s), ![s].reply = "none"]
  /\ UNCHANGED <<serverVars, userVars, wire, faults, cuts>>

Late(r) == [r EXCEPT !.live = FALSE]
Mine(s, r) == r.live /\ r.session = s
LateRequests == {r \in wire : ~r.live}
Underway(s) ==
  \/ \E r \in wire : Mine(s, r)
  \/ call # None /\ Mine(s, call.req) /\ call.step # "release"

\* The connection breaks: the request is on its way still, or handled.
LoseConnection(s) ==
  /\ session[s].phase = "wait" /\ session[s].reply = "none" /\ Underway(s)
  /\ faults < MaxFaults /\ Cardinality(LateRequests) < MaxLate
  /\ faults' = faults + 1
  /\ wire' = {IF Mine(s, r) THEN Late(r) ELSE r : r \in wire}
  /\ call' = IF call # None /\ Mine(s, call.req)
               THEN [call EXCEPT !.req = Late(@)] ELSE call
  /\ session' = [session EXCEPT ![s].phase = AfterFailure(s)]
  /\ UNCHANGED <<part, stored, reserved, userVars, cuts>>

\* The server is gone with the request.
NoticeCut(s) ==
  /\ session[s].phase = "wait" /\ session[s].reply = "none" /\ ~Underway(s)
  /\ session' = [session EXCEPT ![s].phase = AfterFailure(s)]
  /\ UNCHANGED <<serverVars, userVars, wire, faults, cuts>>

Cancel(s) ==
  /\ session[s].phase = "send" /\ faults < MaxFaults
  /\ faults' = faults + 1
  /\ session' = [session EXCEPT ![s].phase = "failed"]
  /\ UNCHANGED <<serverVars, userVars, wire, cuts>>

\* A late request that never arrives.
Vanish(r) ==
  /\ r \in LateRequests
  /\ wire' = wire \ {r}
  /\ UNCHANGED <<serverVars, userVars, session, faults, cuts>>

-----------------------------------------------------------------------------
(* uploadFile(), the branch with an offset.                                 *)

Answered(r, code) ==
  IF r.live THEN [session EXCEPT ![r.session].reply = code] ELSE session

\* Variant: a chunk is appended at whatever offset.
WrongOffsetNever(r) == FALSE

\* Variant: offset 0 does not start again.
WrongOffsetAtZero(r) == Size(part[r.path]) # r.offset

WrongOffset(r) == r.offset # 0 /\ Size(part[r.path]) # r.offset

\* 409 before anything is reserved, or 413 with the earlier reservation kept.
Reject(r) ==
  /\ call = None /\ r \in wire
  /\ WrongOffset(r) \/ Refused(r.path, SizeOf[r.ver])
  /\ wire' = wire \ {r}
  /\ session' = Answered(r, "error")
  /\ UNCHANGED <<serverVars, userVars, faults, cuts>>

\* UploadQuota quota(...)
Accept(r) ==
  /\ call = None /\ r \in wire
  /\ ~WrongOffset(r) /\ ~Refused(r.path, SizeOf[r.ver])
  /\ wire' = wire \ {r}
  /\ reserved' = [reserved EXCEPT ![r.path] = Growth(r.path, SizeOf[r.ver])]
  /\ call' = [req |-> r, step |-> "write"]
  /\ UNCHANGED <<part, stored, userVars, session, faults, cuts>>

At(step) == call # None /\ call.step = step

\* trunc at offset 0, app elsewhere
Written(r, n) ==
  (IF r.offset = 0 \/ part[r.path] = None THEN <<>> ELSE part[r.path])
    \o Chunk(r.ver, r.offset, n)

\* An incomplete upload keeps its reservation.
Write ==
  LET r == call.req
      bytes == Written(r, r.len) IN
  /\ At("write")
  /\ part' = [part EXCEPT ![r.path] = bytes]
  /\ IF Len(bytes) = SizeOf[r.ver]
       THEN call' = [call EXCEPT !.step = "publish"] /\ UNCHANGED session
       ELSE call' = None /\ session' = Answered(r, "ok")
  /\ UNCHANGED <<stored, reserved, userVars, wire, faults, cuts>>

\* Encrypt into data/, rename, upsert the row.
Publish ==
  LET r == call.req IN
  /\ At("publish")
  /\ stored' = [stored EXCEPT ![r.path] = part[r.path]]
  /\ session' = IF r.live THEN [session EXCEPT ![r.session].published = TRUE]
                          ELSE session
  /\ call' = [call EXCEPT !.step = "clean"]
  /\ UNCHANGED <<part, reserved, userVars, wire, faults, cuts>>

Clean ==
  /\ At("clean")
  /\ part' = [part EXCEPT ![call.req.path] = None]
  /\ session' = Answered(call.req, "ok")
  /\ call' = [call EXCEPT !.step = "release"]
  /\ UNCHANGED <<stored, reserved, userVars, wire, faults, cuts>>

\* ~UploadQuota()
Release ==
  /\ At("release")
  /\ reserved' = [reserved EXCEPT ![call.req.path] = None]
  /\ call' = None
  /\ UNCHANGED <<part, stored, userVars, wire, session, faults, cuts>>

\* What a write that fails, or is cut, may leave.
Partial(r) == {part[r.path]} \cup {Written(r, n) : n \in 0 .. r.len}

\* Variant: the reservation outlives the failure.
FailAndKeep ==
  LET r == call.req IN
  /\ At("write") \/ At("publish")
  /\ faults < MaxFaults /\ faults' = faults + 1
  /\ \E left \in IF At("write") THEN Partial(r) ELSE {part[r.path]} :
       part' = [part EXCEPT ![r.path] = left]
  /\ session' = Answered(r, "error")
  /\ call' = None
  /\ UNCHANGED <<stored, reserved, userVars, wire, cuts>>

\* The chunk cannot be written, or the file not be encrypted.
Fail ==
  LET r == call.req IN
  /\ At("write") \/ At("publish")
  /\ faults < MaxFaults /\ faults' = faults + 1
  /\ \E left \in IF At("write") THEN Partial(r) ELSE {part[r.path]} :
       part' = [part EXCEPT ![r.path] = left]
  /\ reserved' = [reserved EXCEPT ![r.path] = None]
  /\ session' = Answered(r, "error")
  /\ call' = None
  /\ UNCHANGED <<stored, userVars, wire, cuts>>

\* The process ends, and its connections with it.
Cut ==
  /\ cuts < MaxCuts /\ cuts' = cuts + 1
  /\ call # None \/ wire # {}
  /\ IF At("write")
       THEN \E left \in Partial(call.req) :
              part' = [part EXCEPT ![call.req.path] = left]
       ELSE UNCHANGED part
  /\ call' = None /\ wire' = {}
  /\ UNCHANGED <<stored, reserved, userVars, session, faults>>

Handle == Write \/ Publish \/ Clean \/ Release

-----------------------------------------------------------------------------
(* What else changes files and quota, under storageMutex or configMutex.    *)

\* uploadFile() without an offset.
UploadWhole(p, v) ==
  /\ call = None /\ ~Refused(p, SizeOf[v])
  /\ stored' = [stored EXCEPT ![p] = Chunk(v, 0, SizeOf[v])]
  /\ reserved' = [reserved EXCEPT ![p] = None]
  /\ UNCHANGED <<part, userVars, call, wire, session, faults, cuts>>

MoveToTrash(p) ==
  /\ call = None /\ stored[p] # None
  /\ trashed + Size(stored[p]) <= MaxTrash
  /\ trashed' = trashed + Size(stored[p])
  /\ stored' = [stored EXCEPT ![p] = None]
  /\ UNCHANGED <<part, reserved, limit, call, wire, session, faults, cuts>>

EmptyTrash ==
  /\ call = None /\ trashed > 0 /\ trashed' = 0
  /\ UNCHANGED <<serverVars, limit, wire, session, faults, cuts>>

SetLimit ==
  /\ call = None /\ limit' \in Limits \ {limit}
  /\ UNCHANGED <<serverVars, trashed, wire, session, faults, cuts>>

\* 86400 seconds after the last chunk.
Expire(p) ==
  /\ call = None /\ reserved[p] # None
  /\ reserved' = [reserved EXCEPT ![p] = None]
  /\ UNCHANGED <<part, stored, userVars, call, wire, session, faults, cuts>>

Client(s) ==
  \/ Query(s) \/ SendChunk(s) \/ Finish(s) \/ ReceiveOk(s) \/ ReceiveError(s)
  \/ NoticeCut(s)

Next ==
  \/ \E s \in Sessions :
       \/ \E p \in Paths, v \in Versions : Begin(s, p, v)
       \/ Client(s) \/ LoseConnection(s) \/ Cancel(s)
  \/ \E r \in wire : Accept(r) \/ Reject(r) \/ Vanish(r)
  \/ Handle \/ Fail \/ Cut
  \/ \E p \in Paths :
       \/ \E v \in Versions : UploadWhole(p, v)
       \/ MoveToTrash(p) \/ Expire(p)
  \/ EmptyTrash \/ SetLimit

Spec == Init /\ [][Next]_vars

(* Clients and handlers run, and a request that waits for storageMutex gets *)
(* it when it is free.  A user whose upload failed starts again.            *)
Fairness ==
  /\ \A s \in Sessions :
       /\ WF_vars(Client(s))
       /\ WF_vars(\E r \in wire : Mine(s, r) /\ (Accept(r) \/ Reject(r)))
       /\ WF_vars(session[s].phase = "failed"
                   /\ \E p \in Paths, v \in Versions : Begin(s, p, v))
  /\ WF_vars(Handle)

FairSpec == Spec /\ Fairness

-----------------------------------------------------------------------------
(* Properties                                                               *)

InPlace(f) == f # None => \A i \in 1 .. Len(f) : f[i].pos = i

(* "Upload offset does not match stored bytes": whatever is lost, repeated  *)
(* or late, every byte is where its file has it, and a published file is as *)
(* long as the file its last byte comes from.                               *)
BytesInPlace ==
  \A p \in Paths :
    /\ InPlace(part[p]) /\ InPlace(stored[p])
    /\ stored[p] # None =>
         stored[p] # <<>> /\ Len(stored[p]) = SizeOf[stored[p][Len(stored[p])].ver]

(* "Parallel writes reserve capacity before publication": a file that makes *)
(* the user's files grow leaves the quota room for all other reservations.  *)
QuotaHolds ==
  [][Used' > Used /\ limit > 0 =>
       Used' + Total(reserved, {q \in Paths : /\ reserved[q] # None
                                              /\ stored'[q] = stored[q]})
         <= limit]_vars

(* A reservation outlives its request only for bytes that wait to be        *)
(* resumed, unless the process ended in between.                            *)
ReservationIsResumable ==
  cuts = 0 =>
    \A p \in Paths :
      reserved[p] # None =>
        part[p] # None \/ (call # None /\ call.req.path = p)

(* A client that is done has had its file published.                        *)
OkMeansPublished ==
  \A s \in Sessions : session[s].phase = "ok" => session[s].published

(* Every upload comes to an end.                                            *)
UploadEnds ==
  \A s \in Sessions :
    session[s].phase = "query" ~> session[s].phase \in {"ok", "failed"}

(* Whatever failures leave behind, a user who tries again is served.        *)
PublishedAtLast ==
  \A s \in Sessions : session[s].phase = "failed" ~> session[s].phase = "ok"
=============================================================================
