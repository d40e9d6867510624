------------------------ MODULE AccountDeletionProofs ------------------------
(***************************************************************************)
(* What deletions keep and remove, and the room they need, for any         *)
(* accounts, files, layouts and bounds.                                    *)
(***************************************************************************)
EXTENDS AccountDeletion, TotalsProofs, FiniteSetTheorems, SequenceTheorems,
        TLAPS

JobOK(j) ==
  /\ j = [recipient |-> j.recipient, ids |-> j.ids, hashes |-> j.hashes,
          room |-> j.room, phase |-> j.phase]
  /\ j.recipient \in Users /\ j.ids \in SUBSET Ids
  /\ j.hashes \in SUBSET Contents /\ j.phase \in {"copying", "cleanup"}

Types ==
  /\ hashed \in BOOLEAN
  /\ status \in [Users -> {"active", "deleting", "gone"}]
  /\ rows \in [Ids -> Rows \cup {None}]
  /\ trash \in [Users -> [Contents -> Nat]]
  /\ blobs \in SUBSET Contents /\ files \in SUBSET Files
  /\ job = [u \in Users |-> job[u]]
  /\ run \in Runs \cup {None}
  /\ server \in {"down", "starting", "up"} /\ resume \in SUBSET Users

(* An account is in deletion exactly while it has a job, whose recipient is *)
(* not in deletion itself.                                                  *)
JobsStand ==
  \A u \in Users :
    /\ status[u] # "deleting" => job[u] = None
    /\ status[u] = "deleting" =>
         JobOK(job[u]) /\ status[job[u].recipient] = "active"

(* An attempt is where the phase of its job says, and is the only one. *)
RunStands ==
  /\ run # None =>
       /\ status[run.user] = "deleting" /\ run.user \notin resume
       /\ run.pc = "copy" <=> job[run.user].phase = "copying"
       /\ server # "down"
  /\ server # "starting" => resume = {}
  /\ \A u \in resume : status[u] = "deleting"

RowsStand ==
  /\ RowsUnique
  /\ \A id \in Ids : IsRow(id) =>
       /\ rows[id].owner = Shared => ~rows[id].deleted
       /\ rows[id].owner # Shared => rows[id].uploader = rows[id].owner
       /\ hashed => ~rows[id].path.staged

FilesStand ==
  /\ hashed => files = {}
  /\ \A f, g \in files : f.owner = g.owner /\ f.path = g.path => f = g

(* Until the transfer the manifest names exactly what has to be transferred, *)
(* and after it nothing of that is left with the account.                    *)
ManifestStands ==
  \A u \in Users : status[u] = "deleting" =>
    /\ job[u].phase = "copying" =>
         /\ \A id \in job[u].ids : Live(id) /\ rows[id].owner \in {u, Shared}
         /\ \A id \in Ids :
              \/ Live(id) /\ rows[id].owner = u /\ rows[id].shared
              \/ IsRow(id) /\ rows[id].owner = Shared /\ rows[id].uploader = u
              => id \in job[u].ids
    /\ job[u].phase = "cleanup" =>
         \A id \in Ids : IsRow(id) =>
           /\ rows[id].uploader = u => rows[id].owner = u
           /\ Live(id) /\ rows[id].owner = u => ~rows[id].shared

(* What an attempt has before it is to be copied, and the rest is copied. *)
CopiesStand ==
  run # None /\ run.pc = "copy" =>
    /\ run.todo \subseteq job[run.user].ids
    /\ \A id \in run.todo : ~hashed /\ rows[id].owner = run.user
    /\ ~hashed =>
         \A id \in job[run.user].ids \ run.todo :
           rows[id].owner = run.user /\ ~rows[id].path.staged =>
             Copy(run.user, id) \in files

(* What an attempt has removed does not come back before it ends. *)
CleanedUp ==
  run # None =>
    /\ run.pc \in {"rows", "blobs"} => \A f \in files : f.owner # run.user
    /\ run.pc = "blobs" =>
         /\ \A id \in Ids : IsRow(id) => rows[id].owner # run.user
         /\ \A c \in Contents : trash[run.user][c] = 0

IInv ==
  /\ Types /\ JobsStand /\ RunStands /\ RowsStand /\ FilesStand
  /\ ManifestStands /\ CopiesStand /\ CleanedUp
  /\ ContentKept /\ NothingRemains

-----------------------------------------------------------------------------
(* Types.                                                                   *)

LEMMA PathTypes ==
  /\ \A n \in Names : Plain(n) \in Paths /\ ~Plain(n).staged
  /\ \A u \in Users, p \in Paths :
       /\ Under(u, p) \in Paths /\ Under(u, p).staged = p.staged
       /\ Staged(p) \in Paths /\ Staged(p).staged
<1>1. \A u \in Users, s \in Seq(Users) : <<u>> \o s \in Seq(Users)  OBVIOUS
<1>2. \A n \in Names : Plain(n) \in Paths /\ ~Plain(n).staged
  BY DEF Paths, Plain
<1>3. ASSUME NEW u \in Users, NEW p \in Paths
      PROVE  /\ Under(u, p) \in Paths /\ Under(u, p).staged = p.staged
             /\ Staged(p) \in Paths /\ Staged(p).staged
  BY <1>1 DEF Paths, Under, Staged
<1> QED  BY <1>2, <1>3

LEMMA RunTypes ==
  ASSUME Types, run # None
  PROVE  /\ run.user \in Users /\ run.pc \in {"copy", "files", "rows", "blobs"}
         /\ run.pc # "blobs" => run.todo \in SUBSET Ids
         /\ run.pc = "blobs" => run.todo \in SUBSET Contents
         /\ run = [user |-> run.user, pc |-> run.pc, todo |-> run.todo]
  BY DEF Types, Runs

LEMMA RowTypes ==
  ASSUME Types, NEW id \in Ids, IsRow(id)
  PROVE  /\ rows[id] \in Rows
         /\ rows[id].owner \in Owners /\ rows[id].uploader \in Users
         /\ rows[id].path \in Paths /\ rows[id].content \in Contents
         /\ rows[id].shared \in BOOLEAN /\ rows[id].deleted \in BOOLEAN
  BY DEF Types, Rows, IsRow

LEMMA AttemptTypes ==
  ASSUME NEW u \in Users, NEW j, j.ids \in SUBSET Ids
  PROVE  Attempt(u, j) \in Runs
  BY DEF Attempt, Runs

LEMMA UploadTypes ==
  ASSUME Types, NEW u \in Users, NEW owner \in Owners, NEW n \in Names,
         NEW c \in Contents, NEW id \in Ids, Upload(u, owner, n, c, id)
  PROVE  Types'
<1> DEFINE row == [owner |-> owner, uploader |-> u, path |-> Plain(n), content |-> c,
                   shared |-> IsRow(id) /\ rows[id].shared, deleted |-> FALSE]
<1>1. row \in Rows
  <2>1. (IsRow(id) /\ rows[id].shared) \in BOOLEAN  BY RowTypes
  <2> QED  BY <2>1, PathTypes DEF Rows
<1>2. rows' \in [Ids -> Rows \cup {None}]
  <2>1. rows' = [rows EXCEPT ![id] = row]  BY DEF Upload
  <2> HIDE DEF row
  <2> QED  BY <1>1, <2>1 DEF Types
<1>3. files' \in SUBSET Files
  BY PathTypes DEF Types, Upload, WrittenFile, Files
<1> QED  BY <1>2, <1>3 DEF Types, Upload

LEMMA HandlerTypes ==
  ASSUME Types, NEW u \in Users, NEW id \in Ids
  PROVE  /\ \A flag \in BOOLEAN : SetShared(u, id, flag) => Types'
         /\ Discard(u, id) => Types'
<1>1. ASSUME NEW flag \in BOOLEAN, SetShared(u, id, flag) PROVE Types'
  <2>1. [rows[id] EXCEPT !.shared = flag] \in Rows
    BY <1>1, RowTypes DEF SetShared, Live, Rows
  <2>2. rows' = [rows EXCEPT ![id] = [rows[id] EXCEPT !.shared = flag]]
    BY <1>1 DEF SetShared
  <2> QED  BY <1>1, <2>1, <2>2 DEF Types, SetShared
<1>2. ASSUME Discard(u, id) PROVE Types'
  <2>1. [rows[id] EXCEPT !.deleted = TRUE] \in Rows
    BY <1>2, RowTypes DEF Discard, Live, Rows
  <2>2. rows' = [rows EXCEPT ![id] = [rows[id] EXCEPT !.deleted = TRUE]]
    BY <1>2 DEF Discard
  <2>3. trash' \in [Users -> [Contents -> Nat]]
    BY <1>2, RowTypes DEF Types, Discard, Live
  <2> QED  BY <1>2, <2>1, <2>2, <2>3 DEF Types, Discard
<1> QED  BY <1>1, <1>2

LEMMA ReindexTypes ==
  ASSUME Types, NEW u \in Users, Reindex(u)
  PROVE  Types'
<1> DEFINE found == {f \in files : f.owner = u}
           new == {f \in found : ~\E id \in Ids :
                     Live(id) /\ rows[id].owner = u /\ rows[id].path = f.path}
           lost == {id \in Ids : /\ Live(id) /\ rows[id].owner = u
                                 /\ \A f \in found : f.path # rows[id].path}
           row(id, f) == [owner |-> u, uploader |-> u, path |-> f.path,
                          content |-> f.content,
                          shared |-> IsRow(id) /\ rows[id].shared, deleted |-> FALSE]
<1>1. PICK place \in [new -> Ids] :
        rows' = [id \in Ids |->
            IF \E f \in new : place[f] = id
            THEN LET f == CHOOSE f \in new : place[f] = id IN row(id, f)
            ELSE IF id \in lost THEN None ELSE rows[id]]
  BY DEF Reindex
<1>2. ASSUME NEW id \in Ids, NEW f \in new PROVE row(id, f) \in Rows
  <2>1. (IsRow(id) /\ rows[id].shared) \in BOOLEAN  BY RowTypes
  <2>2. f.path \in Paths /\ f.content \in Contents  BY DEF Types, Files
  <2> QED  BY <2>1, <2>2 DEF Rows, Owners
<1>3. ASSUME NEW id \in Ids PROVE rows'[id] \in Rows \cup {None}
  <2> HIDE DEF row, lost
  <2>1. CASE \E f \in new : place[f] = id
    <3>1. (CHOOSE f \in new : place[f] = id) \in new  BY <2>1
    <3> HIDE DEF new
    <3> QED  BY <2>1, <3>1, <1>1, <1>2
  <2>2. CASE ~\E f \in new : place[f] = id
    <3> HIDE DEF new
    <3> QED  BY <2>2, <1>1 DEF Types
  <2> QED  BY <2>1, <2>2
<1>4. rows' \in [Ids -> Rows \cup {None}]
  <2> HIDE DEF row, lost, new
  <2> QED  BY <1>1, <1>3
<1> QED  BY <1>4 DEF Reindex, Types

LEMMA JobTypes ==
  ASSUME Types, JobsStand, NEW u \in Users, status[u] = "deleting"
  PROVE  /\ JobOK(job[u]) /\ Heir(u) \in Users /\ Heir(u) # u
         /\ status[Heir(u)] = "active"
  BY DEF Types, JobsStand, JobOK, Heir

LEMMA StartTypes ==
  ASSUME Types, JobsStand, NEW a \in Users, NEW u \in Users
  PROVE  /\ StartDeletion(a, u) => Types'
         /\ Retry(a, u) => Types'
<1>1. ASSUME StartDeletion(a, u) PROVE Types'
  <2> DEFINE j == [recipient |-> a, ids |-> Manifest(u), hashes |-> HashesOf(u),
                   room |-> TransferBytes(u), phase |-> "copying"]
  <2>1. j.ids \in SUBSET Ids  BY DEF Manifest
  <2>2. run' = Attempt(u, j) /\ job' = [job EXCEPT ![u] = j]
    BY <1>1 DEF StartDeletion
  <2> HIDE DEF j
  <2>3. run' \in Runs  BY <2>1, <2>2, AttemptTypes
  <2>4. job' = [v \in Users |-> job'[v]]  BY <2>2 DEF Types
  <2> QED  BY <1>1, <2>3, <2>4 DEF StartDeletion, Types
<1>2. ASSUME Retry(a, u) PROVE Types'
  <2>1. run' = Attempt(u, job[u])  BY <1>2 DEF Retry
  <2>2. job[u].ids \in SUBSET Ids  BY <1>2 DEF Retry, JobsStand, JobOK
  <2>3. run' \in Runs  BY <2>1, <2>2, AttemptTypes
  <2> QED  BY <1>2, <2>3 DEF Retry, Types
<1> QED  BY <1>1, <1>2

LEMMA CopyTypes ==
  ASSUME Types, JobsStand, NEW u \in Users, NEW id \in Ids, IsRow(id),
         status[u] = "deleting"
  PROVE  /\ Copy(u, id) \in Files /\ Unfinished(u, id) \in Files
         /\ Copy(u, id).owner = Heir(u) /\ Unfinished(u, id).owner = Heir(u)
         /\ Copy(u, id).path = Under(u, rows[id].path)
         /\ Unfinished(u, id).path = Staged(Under(u, rows[id].path))
         /\ Copy(u, id).path.staged = rows[id].path.staged
         /\ Unfinished(u, id).path.staged
<1>1. Heir(u) \in Owners  BY JobTypes DEF Owners
<1>2. rows[id].path \in Paths /\ rows[id].content \in Contents  BY RowTypes
<1> QED  BY <1>1, <1>2, PathTypes DEF Copy, Unfinished, Files

(* What a step of the copy loop is about. *)
LEMMA CopyFacts ==
  ASSUME Types, JobsStand, RunStands, ManifestStands, CopiesStand,
         NEW u \in Users, Doing(u, "copy")
  PROVE  /\ run # None /\ run.user = u /\ run.pc = "copy" /\ u \notin resume
         /\ status[u] = "deleting" /\ JobOK(job[u]) /\ job[u].phase = "copying"
         /\ Heir(u) \in Users /\ Heir(u) # u /\ status[Heir(u)] = "active"
         /\ \A id \in run.todo :
              /\ id \in Ids /\ IsRow(id) /\ rows[id].owner = u /\ ~hashed
              /\ Copy(u, id) \in Files /\ Unfinished(u, id) \in Files
              /\ Copy(u, id).owner = Heir(u) /\ Unfinished(u, id).owner = Heir(u)
              /\ Unfinished(u, id).path.staged
<1>1. /\ run # None /\ run.user = u /\ run.pc = "copy" /\ u \notin resume
      /\ status[u] = "deleting" /\ JobOK(job[u]) /\ job[u].phase = "copying"
  BY DEF Doing, RunStands, JobsStand
<1>2. \A id \in run.todo :
        id \in Ids /\ IsRow(id) /\ rows[id].owner = u /\ ~hashed
  BY <1>1, RunTypes DEF CopiesStand, ManifestStands, Live, JobOK
<1> QED  BY <1>1, <1>2, CopyTypes, JobTypes

(* What a step after the transfer is about. *)
LEMMA CleanFacts ==
  ASSUME Types, JobsStand, RunStands,
         NEW u \in Users, NEW pc \in {"files", "rows", "blobs"}, Doing(u, pc)
  PROVE  /\ run # None /\ run.user = u /\ run.pc = pc /\ u \notin resume
         /\ status[u] = "deleting" /\ JobOK(job[u]) /\ job[u].phase = "cleanup"
  BY DEF Doing, RunStands, JobsStand, JobOK

LEMMA LoopTypes ==
  ASSUME Types, JobsStand, RunStands, ManifestStands, CopiesStand,
         NEW u \in Users, NEW id \in Ids,
         \/ StageCopy(u, id) \/ PlaceCopy(u, id)
         \/ MissSource(u, id) \/ AcceptCopy(u, id)
  PROVE  Types'
<1>1. Doing(u, "copy") /\ id \in run.todo
  BY DEF StageCopy, PlaceCopy, MissSource, AcceptCopy
<1>2. /\ Copy(u, id) \in Files /\ Unfinished(u, id) \in Files
      /\ run # None /\ run.pc = "copy"
  BY <1>1, CopyFacts
<1>3. [run EXCEPT !.todo = @ \ {id}] \in Runs
  BY <1>2, RunTypes DEF Runs
<1>4. ASSUME StageCopy(u, id) PROVE Types'
  <2> DEFINE f == Unfinished(u, id)
  <2>1. /\ files' = WrittenFile(f.owner, f.path, f.content)
        /\ f = [owner |-> f.owner, path |-> f.path, content |-> f.content]
    BY <1>2, <1>4 DEF StageCopy, Files
  <2> HIDE DEF f
  <2>2. files' \in SUBSET Files
    BY <1>2, <2>1 DEF WrittenFile, Types, f
  <2> QED  BY <1>4, <2>2 DEF StageCopy, Types
<1>5. ASSUME PlaceCopy(u, id) PROVE Types'
  BY <1>5, <1>2, <1>3 DEF PlaceCopy, Types
<1>6. ASSUME MissSource(u, id) \/ AcceptCopy(u, id) PROVE Types'
  BY <1>6, <1>3 DEF MissSource, AcceptCopy, Types
<1> QED  BY <1>4, <1>5, <1>6

LEMMA TransferTypes ==
  ASSUME Types, JobsStand, RunStands, ManifestStands, CopiesStand,
         NEW u \in Users, Transfer(u)
  PROVE  Types'
<1>1. /\ run # None /\ run.user = u /\ run.pc = "copy"
      /\ status[u] = "deleting" /\ JobOK(job[u]) /\ job[u].phase = "copying"
      /\ Heir(u) \in Users
  BY CopyFacts DEF Transfer
<1>2. ASSUME NEW id \in job[u].ids PROVE Transferred(id, u) \in Rows
  <2>1. id \in Ids /\ IsRow(id)  BY <1>1 DEF JobOK, ManifestStands, Live
  <2> QED  BY <1>1, <2>1, RowTypes, PathTypes DEF Transferred, Rows, Owners
<1>3. [run EXCEPT !.pc = "files"] \in Runs
  BY <1>1, RunTypes DEF Runs
<1>4. rows' \in [Ids -> Rows \cup {None}]
  BY <1>1, <1>2 DEF Transfer, Types
<1>5. job' = [v \in Users |-> job'[v]]
  BY DEF Transfer, Types
<1> QED  BY <1>3, <1>4, <1>5 DEF Transfer, Types

LEMMA CleanTypes ==
  ASSUME Types, JobsStand, RunStands, NEW u \in Users
  PROVE  /\ RemoveFiles(u) => Types'
         /\ RemoveRows(u) => Types'
         /\ \A c \in Contents : RemoveBlob(u, c) => Types'
         /\ Finish(u) => Types'
<1>1. ASSUME RemoveFiles(u) PROVE Types'
  <2>1. run # None /\ run.pc = "files"  BY <1>1, CleanFacts DEF RemoveFiles
  <2>2. [run EXCEPT !.pc = "rows"] \in Runs  BY <2>1, RunTypes DEF Runs
  <2> QED  BY <1>1, <2>2 DEF RemoveFiles, Types
<1>2. ASSUME RemoveRows(u) PROVE Types'
  <2>1. JobOK(job[u])  BY <1>2, CleanFacts DEF RemoveRows
  <2>2. run' \in Runs  BY <1>2, <2>1 DEF RemoveRows, Runs, JobOK
  <2>3. trash' \in [Users -> [Contents -> Nat]]  BY <1>2 DEF RemoveRows, Types
  <2>4. rows' \in [Ids -> Rows \cup {None}]  BY <1>2 DEF RemoveRows, Types
  <2> QED  BY <1>2, <2>2, <2>3, <2>4 DEF RemoveRows, Types
<1>3. ASSUME NEW c \in Contents, RemoveBlob(u, c) PROVE Types'
  <2>1. run # None /\ run.pc = "blobs"  BY <1>3, CleanFacts DEF RemoveBlob
  <2>2. [run EXCEPT !.todo = @ \ {c}] \in Runs  BY <2>1, RunTypes DEF Runs
  <2> QED  BY <1>3, <2>2 DEF RemoveBlob, Types
<1>4. ASSUME Finish(u) PROVE Types'
  <2>1. job' = [v \in Users |-> job'[v]]  BY <1>4 DEF Finish, Types
  <2> QED  BY <1>4, <2>1 DEF Finish, Types
<1> QED  BY <1>1, <1>2, <1>3, <1>4

LEMMA ServerTypes ==
  ASSUME Types, JobsStand, RunStands
  PROVE  /\ Fail \/ Crash \/ Serve => Types'
         /\ \A rotating \in BOOLEAN : StartUp(rotating) => Types'
         /\ \A u \in Users : Resume(u) => Types'
<1>1. Fail \/ Crash \/ Serve => Types'
  BY DEF Fail, Crash, Serve, Types
<1>2. ASSUME NEW rotating \in BOOLEAN, StartUp(rotating) PROVE Types'
  BY <1>2 DEF StartUp, Types
<1>3. ASSUME NEW u \in Users, Resume(u) PROVE Types'
  <2>1. job[u].ids \in SUBSET Ids
    BY <1>3 DEF Resume, RunStands, JobsStand, JobOK
  <2>2. run' \in Runs  BY <1>3, <2>1, AttemptTypes DEF Resume
  <2> QED  BY <1>3, <2>2 DEF Resume, Types
<1> QED  BY <1>1, <1>2, <1>3

-----------------------------------------------------------------------------
(* The handlers of others.                                                  *)

LEMMA PlaceIsUnique ==
  ASSUME RowsUnique, NEW id \in Ids, NEW owner, NEW path, PlaceOf(id, owner, path)
  PROVE  /\ \A i \in Ids :
              IsRow(i) /\ rows[i].owner = owner /\ rows[i].path = path => i = id
         /\ IsRow(id) => rows[id].owner = owner /\ rows[id].path = path
  BY DEF RowsUnique, PlaceOf

(* No attempt is under way while a handler has the lock. *)
LEMMA HandlersLeaveJobs ==
  ASSUME JobsStand, RunStands, run = None,
         UNCHANGED <<status, job, run, server, resume>>
  PROVE  JobsStand' /\ RunStands' /\ CopiesStand' /\ CleanedUp'
  BY DEF JobsStand, RunStands, CopiesStand, CleanedUp, JobOK

LEMMA UploadKeeps ==
  ASSUME IInv, NEW u \in Users, NEW owner \in Owners, NEW n \in Names,
         NEW c \in Contents, NEW id \in Ids, Upload(u, owner, n, c, id)
  PROVE  IInv'
<1> DEFINE path == Plain(n)
           row == [owner |-> owner, uploader |-> u, path |-> path, content |-> c,
                   shared |-> IsRow(id) /\ rows[id].shared, deleted |-> FALSE]
           file == [owner |-> owner, path |-> path, content |-> c]
<1>1. /\ run = None /\ status[u] = "active"
      /\ owner = u \/ owner = Shared
      /\ PlaceOf(id, owner, path)
      /\ blobs' = IF hashed THEN blobs \cup {c} ELSE blobs
      /\ files' = IF hashed THEN files ELSE WrittenFile(owner, path, c)
      /\ UNCHANGED <<hashed, status, trash, job, run, server, resume>>
  BY DEF Upload, Handler, Authorised
<1>2. /\ rows'[id] = row
      /\ \A i \in Ids \ {id} : rows'[i] = rows[i]
  BY DEF Upload, IInv, Types
<1>3. row \in Rows /\ row # None /\ ~path.staged
  <2>1. (IsRow(id) /\ rows[id].shared) \in BOOLEAN  BY RowTypes DEF IInv
  <2>2. path \in Paths /\ ~path.staged  BY PathTypes
  <2>3. row \in Rows  BY <2>1, <2>2 DEF Rows
  <2> HIDE DEF row, path
  <2> QED  BY <2>2, <2>3, NoneAssumption
<1>4. /\ \A i \in Ids :
              IsRow(i) /\ rows[i].owner = owner /\ rows[i].path = path => i = id
      /\ IsRow(id) => rows[id].owner = owner /\ rows[id].path = path
  BY <1>1, PlaceIsUnique DEF IInv, RowsStand
<1>5. /\ row.owner = owner /\ row.uploader = u /\ row.path = path
      /\ row.content = c /\ row.shared = (IsRow(id) /\ rows[id].shared)
      /\ row.deleted = FALSE
  OBVIOUS
<1>6. owner # Shared => owner = u  BY <1>1
<1>7. Shared \notin Users  BY ConstantsAssumption
<1> HIDE DEF row, path
<1>8. Types'  BY UploadTypes DEF IInv
<1>9. JobsStand' /\ RunStands' /\ CopiesStand' /\ CleanedUp'
  BY <1>1, HandlersLeaveJobs DEF IInv
<1>10. RowsStand'
  <2>1. RowsUnique'
    BY <1>2, <1>3, <1>4, <1>5 DEF IInv, RowsStand, RowsUnique, IsRow
  <2>2. ASSUME NEW i \in Ids, IsRow(i)'
        PROVE  (/\ rows[i].owner = Shared => ~rows[i].deleted
                /\ rows[i].owner # Shared => rows[i].uploader = rows[i].owner
                /\ hashed => ~rows[i].path.staged)'
    BY <2>2, <1>1, <1>2, <1>3, <1>5, <1>6 DEF IInv, RowsStand, IsRow
  <2> QED  BY <2>1, <2>2 DEF RowsStand
<1>11. FilesStand'
  BY <1>1 DEF IInv, FilesStand, WrittenFile
<1>12. ManifestStands'
  <2> SUFFICES ASSUME NEW v \in Users, status[v] = "deleting"
               PROVE  (/\ job[v].phase = "copying" =>
                           /\ \A i \in job[v].ids : Live(i) /\ rows[i].owner \in {v, Shared}
                           /\ \A i \in Ids :
                                \/ Live(i) /\ rows[i].owner = v /\ rows[i].shared
                                \/ IsRow(i) /\ rows[i].owner = Shared /\ rows[i].uploader = v
                                => i \in job[v].ids
                       /\ job[v].phase = "cleanup" =>
                           \A i \in Ids : IsRow(i) =>
                             /\ rows[i].uploader = v => rows[i].owner = v
                             /\ Live(i) /\ rows[i].owner = v => ~rows[i].shared)'
    BY <1>1 DEF ManifestStands
  <2>1. u # v /\ owner # v  BY <1>1, <1>7
  <2>2. \A i \in job[v].ids : i \in Ids  BY DEF IInv, JobsStand, JobOK
  <2>3. CASE job[v].phase = "copying"
    <3>1. \A i \in job[v].ids : i = id => owner = Shared
      BY <1>4, <2>1, <2>3 DEF IInv, ManifestStands, Live
    <3> QED
      BY <1>1, <1>2, <1>3, <1>5, <2>1, <2>2, <2>3, <3>1
         DEF IInv, ManifestStands, Live, IsRow
  <2>4. CASE job[v].phase = "cleanup"
    BY <1>1, <1>2, <1>3, <1>5, <2>1, <2>4 DEF IInv, ManifestStands, Live, IsRow
  <2> QED  BY <2>3, <2>4, <1>1
<1>13. ContentKept'
  <2>1. ASSUME NEW i \in Ids, Live(i)', (~rows[i].path.staged)'
        PROVE  (Readable(i) \/ \E v \in Users : rows[i].owner = v /\ Dissolving(v))'
    <3>1. CASE i = id
      BY <3>1, <1>1, <1>2, <1>5 DEF Readable, WrittenFile
    <3>2. CASE i # id
      <4>1. rows'[i] = rows[i] /\ Live(i) /\ ~rows[i].path.staged
        BY <3>2, <2>1, <1>2 DEF Live, IsRow
      <4>2. Readable(i) \/ \E v \in Users : rows[i].owner = v /\ Dissolving(v)
        BY <4>1 DEF IInv, ContentKept
      <4>3. rows[i].owner # owner \/ rows[i].path # path
        BY <3>2, <4>1, <1>4 DEF Live
      <4> QED
        BY <4>1, <4>2, <4>3, <1>1 DEF Readable, Dissolving, WrittenFile
    <3> QED  BY <3>1, <3>2
  <2>2. \A v \in Users, d \in Contents : hashed /\ trash'[v][d] > 0 => d \in blobs'
    BY <1>1 DEF IInv, ContentKept
  <2> QED  BY <2>1, <2>2, <1>1 DEF ContentKept
<1>14. NothingRemains'
  <2>1. ASSUME NEW v \in Users, status[v] = "gone" PROVE u # v /\ owner # v
    BY <2>1, <1>1, <1>7
  <2> QED
    BY <2>1, <1>1, <1>2, <1>5 DEF IInv, NothingRemains, WrittenFile, IsRow
<1> QED  BY <1>8, <1>9, <1>10, <1>11, <1>12, <1>13, <1>14 DEF IInv

(* Sharing and discarding change one row of an account that is active. *)
LEMMA OwnRowKeeps ==
  ASSUME IInv, NEW u \in Users, NEW id \in Ids, run = None, status[u] = "active",
         Live(id), rows[id].owner = u,
         UNCHANGED <<hashed, status, blobs, job, run, server, resume>>,
         IsRow(id)',
         rows'[id].owner = u, rows'[id].uploader = rows[id].uploader,
         rows'[id].path = rows[id].path, rows'[id].content = rows[id].content,
         \A i \in Ids \ {id} : rows'[i] = rows[i],
         files' \subseteq files, Types'
  PROVE  /\ JobsStand' /\ RunStands' /\ RowsStand' /\ FilesStand'
         /\ ManifestStands' /\ CopiesStand' /\ CleanedUp'
<1>1. JobsStand' /\ RunStands' /\ CopiesStand' /\ CleanedUp'
  BY HandlersLeaveJobs DEF IInv
<1>2. u # Shared  BY ConstantsAssumption
<1>3. RowsStand'
  <2>1. RowsUnique'  BY DEF IInv, RowsStand, RowsUnique, IsRow, Live
  <2>2. ASSUME NEW i \in Ids, IsRow(i)'
        PROVE  (/\ rows[i].owner = Shared => ~rows[i].deleted
                /\ rows[i].owner # Shared => rows[i].uploader = rows[i].owner
                /\ hashed => ~rows[i].path.staged)'
    BY <2>2, <1>2 DEF IInv, RowsStand, IsRow, Live
  <2> QED  BY <2>1, <2>2 DEF RowsStand
<1>4. FilesStand'  BY DEF IInv, FilesStand
<1>5. ManifestStands'
  <2> SUFFICES ASSUME NEW v \in Users, status[v] = "deleting"
               PROVE  (/\ job[v].phase = "copying" =>
                           /\ \A i \in job[v].ids : Live(i) /\ rows[i].owner \in {v, Shared}
                           /\ \A i \in Ids :
                                \/ Live(i) /\ rows[i].owner = v /\ rows[i].shared
                                \/ IsRow(i) /\ rows[i].owner = Shared /\ rows[i].uploader = v
                                => i \in job[v].ids
                       /\ job[v].phase = "cleanup" =>
                           \A i \in Ids : IsRow(i) =>
                             /\ rows[i].uploader = v => rows[i].owner = v
                             /\ Live(i) /\ rows[i].owner = v => ~rows[i].shared)'
    BY DEF ManifestStands
  <2>1. u # v  OBVIOUS
  <2>2. \A i \in job[v].ids : i \in Ids  BY DEF IInv, JobsStand, JobOK
  <2>3. CASE job[v].phase = "copying"
    <3>1. id \notin job[v].ids  BY <2>1, <2>3, <1>2 DEF IInv, ManifestStands
    <3> QED  BY <1>2, <2>1, <2>2, <2>3, <3>1 DEF IInv, ManifestStands, Live, IsRow
  <2>4. CASE job[v].phase = "cleanup"
    BY <2>1, <2>4 DEF IInv, ManifestStands, Live, IsRow
  <2> QED  BY <2>3, <2>4
<1> QED  BY <1>1, <1>3, <1>4, <1>5

LEMMA SetSharedKeeps ==
  ASSUME IInv, NEW u \in Users, NEW id \in Ids, NEW flag \in BOOLEAN,
         SetShared(u, id, flag)
  PROVE  IInv'
<1>1. /\ run = None /\ status[u] = "active" /\ Live(id) /\ rows[id].owner = u
      /\ rows' = [rows EXCEPT ![id].shared = flag]
      /\ UNCHANGED <<hashed, status, trash, blobs, files, job, run, server, resume>>
  BY DEF SetShared, Handler, Authorised
<1>2. Types'  BY HandlerTypes DEF IInv
<1>3. rows[id] \in Rows  BY <1>1, RowTypes DEF IInv, Live
<1>4. /\ rows'[id].owner = u /\ rows'[id].uploader = rows[id].uploader
      /\ rows'[id].path = rows[id].path /\ rows'[id].content = rows[id].content
      /\ rows'[id].deleted = rows[id].deleted /\ rows'[id] \in Rows
  BY <1>1, <1>3 DEF IInv, Types, Rows
<1>5. \A i \in Ids \ {id} : rows'[i] = rows[i]  BY <1>1 DEF IInv, Types
<1>6. IsRow(id)'  BY <1>4, NoneAssumption DEF IsRow
<1>7. /\ JobsStand' /\ RunStands' /\ RowsStand' /\ FilesStand'
      /\ ManifestStands' /\ CopiesStand' /\ CleanedUp'
  BY <1>1, <1>2, <1>4, <1>5, <1>6, OwnRowKeeps
<1>8. ContentKept'
  BY <1>1, <1>4, <1>5 DEF IInv, ContentKept, Readable, Dissolving, Live, IsRow
<1>9. NothingRemains'
  BY <1>1, <1>4, <1>5 DEF IInv, NothingRemains, Live, IsRow
<1> QED  BY <1>2, <1>7, <1>8, <1>9 DEF IInv

LEMMA DiscardKeeps ==
  ASSUME IInv, NEW u \in Users, NEW id \in Ids, Discard(u, id)
  PROVE  IInv'
<1>1. /\ run = None /\ status[u] = "active" /\ Live(id) /\ rows[id].owner = u
      /\ rows' = [rows EXCEPT ![id].deleted = TRUE]
      /\ trash' = [trash EXCEPT ![u][rows[id].content] = @ + 1]
      /\ files' = {f \in files : f.owner # u \/ f.path # rows[id].path}
      /\ UNCHANGED <<hashed, status, blobs, job, run, server, resume>>
  BY DEF Discard, Handler, Authorised
<1>2. Types'  BY HandlerTypes DEF IInv
<1>3. rows[id] \in Rows /\ rows[id].content \in Contents
  BY <1>1, RowTypes DEF IInv, Live
<1>4. /\ rows'[id].owner = u /\ rows'[id].uploader = rows[id].uploader
      /\ rows'[id].path = rows[id].path /\ rows'[id].content = rows[id].content
      /\ rows'[id].deleted /\ rows'[id] \in Rows
  BY <1>1, <1>3 DEF IInv, Types, Rows
<1>5. \A i \in Ids \ {id} : rows'[i] = rows[i]  BY <1>1 DEF IInv, Types
<1>6. IsRow(id)'  BY <1>4, NoneAssumption DEF IsRow
<1>7. /\ JobsStand' /\ RunStands' /\ RowsStand' /\ FilesStand'
      /\ ManifestStands' /\ CopiesStand' /\ CleanedUp'
  BY <1>1, <1>2, <1>4, <1>5, <1>6, OwnRowKeeps
<1>8. \A v \in Users, c \in Contents :
        v # u \/ c # rows[id].content => trash'[v][c] = trash[v][c]
  BY <1>1, <1>3 DEF IInv, Types
<1>9. ContentKept'
  <2>1. ASSUME NEW i \in Ids, Live(i)', (~rows[i].path.staged)'
        PROVE  (Readable(i) \/ \E v \in Users : rows[i].owner = v /\ Dissolving(v))'
    <3>1. i # id  BY <2>1, <1>4 DEF Live
    <3>2. rows'[i] = rows[i] /\ Live(i) /\ ~rows[i].path.staged
      BY <3>1, <2>1, <1>5 DEF Live, IsRow
    <3>3. Readable(i) \/ \E v \in Users : rows[i].owner = v /\ Dissolving(v)
      BY <3>2 DEF IInv, ContentKept
    <3>4. rows[i].owner # u \/ rows[i].path # rows[id].path
      BY <3>1, <3>2, <1>1 DEF IInv, RowsStand, RowsUnique, Live
    <3> QED  BY <3>2, <3>3, <3>4, <1>1 DEF Readable, Dissolving
  <2>2. hashed /\ ~rows[id].path.staged => rows[id].content \in blobs
    BY <1>1 DEF IInv, ContentKept, Readable, Dissolving
  <2>3. hashed => ~rows[id].path.staged
    BY <1>1 DEF IInv, RowsStand, Live
  <2>4. \A v \in Users, c \in Contents : hashed /\ trash'[v][c] > 0 => c \in blobs'
    BY <2>2, <2>3, <1>1, <1>8 DEF IInv, ContentKept
  <2> QED  BY <2>1, <2>4, <1>1 DEF ContentKept
<1>10. NothingRemains'
  <2>1. ASSUME NEW v \in Users, status[v] = "gone" PROVE u # v
    BY <2>1, <1>1
  <2> QED
    BY <2>1, <1>1, <1>4, <1>5, <1>8 DEF IInv, NothingRemains, Live, IsRow
<1> QED  BY <1>2, <1>7, <1>9, <1>10 DEF IInv

(* Indexing the directory of u gives each unlisted file one row, takes the *)
(* rows without a file, and leaves the others.                             *)
LEMMA ReindexFacts ==
  ASSUME IInv, NEW u \in Users, Reindex(u)
  PROVE  /\ run = None /\ status[u] = "active" /\ ~hashed
         /\ UNCHANGED <<hashed, status, trash, blobs, files, job, run, server, resume>>
         /\ \E place \in [files -> Ids] : \A id \in Ids :
              \/ rows'[id] = rows[id]
              \/ /\ rows'[id] = None /\ Live(id) /\ rows[id].owner = u
                 /\ \A f \in files : f.owner = u => f.path # rows[id].path
              \/ \E f \in files :
                   /\ f.owner = u /\ place[f] = id /\ PlaceOf(id, u, f.path)
                   /\ ~(Live(id) /\ rows[id].owner = u /\ rows[id].path = f.path)
                   /\ rows'[id].owner = u /\ rows'[id].uploader = u
                   /\ rows'[id].path = f.path /\ rows'[id].content = f.content
                   /\ rows'[id].deleted = FALSE /\ rows'[id] # None
<1> DEFINE found == {f \in files : f.owner = u}
           new == {f \in found : ~\E id \in Ids :
                     Live(id) /\ rows[id].owner = u /\ rows[id].path = f.path}
           lost == {id \in Ids : /\ Live(id) /\ rows[id].owner = u
                                 /\ \A f \in found : f.path # rows[id].path}
           row(id, f) == [owner |-> u, uploader |-> u, path |-> f.path,
                          content |-> f.content,
                          shared |-> IsRow(id) /\ rows[id].shared, deleted |-> FALSE]
<1>1. PICK place \in [new -> Ids] :
        /\ \A f \in new : PlaceOf(place[f], u, f.path)
        /\ rows' = [id \in Ids |->
            IF \E f \in new : place[f] = id
            THEN LET f == CHOOSE f \in new : place[f] = id IN row(id, f)
            ELSE IF id \in lost THEN None ELSE rows[id]]
  BY DEF Reindex
<1>2. ASSUME NEW id \in Ids, NEW f \in new
      PROVE  /\ row(id, f) # None
             /\ row(id, f).owner = u /\ row(id, f).uploader = u
             /\ row(id, f).path = f.path /\ row(id, f).content = f.content
             /\ row(id, f).deleted = FALSE
  <2>1. (IsRow(id) /\ rows[id].shared) \in BOOLEAN  BY RowTypes DEF IInv
  <2>2. f.path \in Paths /\ f.content \in Contents  BY DEF IInv, Types, Files
  <2>3. row(id, f) \in Rows  BY <2>1, <2>2 DEF Rows, Owners
  <2>4. row(id, f) # None
    <3> HIDE DEF row
    <3> QED  BY <2>3, NoneAssumption
  <2> QED  BY <2>4
<1> DEFINE where == [f \in files |-> IF f \in new THEN place[f]
                                     ELSE CHOOSE i \in Ids : TRUE]
<1>3. new \subseteq files  OBVIOUS
<1>4. ASSUME NEW id \in Ids
      PROVE  \/ rows'[id] = rows[id]
             \/ rows'[id] = None /\ id \in lost
             \/ \E f \in new :
                  /\ place[f] = id
                  /\ rows'[id].owner = u /\ rows'[id].uploader = u
                  /\ rows'[id].path = f.path /\ rows'[id].content = f.content
                  /\ rows'[id].deleted = FALSE /\ rows'[id] # None
  <2> HIDE DEF new, lost, row
  <2>1. CASE \E f \in new : place[f] = id
    <3> DEFINE g == CHOOSE f \in new : place[f] = id
    <3>1. g \in new /\ place[g] = id  BY <2>1
    <3>2. rows'[id] = row(id, g)  BY <2>1, <1>1
    <3> HIDE DEF g
    <3> QED  BY <3>1, <3>2, <1>2
  <2>2. CASE ~\E f \in new : place[f] = id
    BY <2>2, <1>1
  <2> QED  BY <2>1, <2>2
<1>5. ASSUME NEW id \in Ids
      PROVE  \/ rows'[id] = rows[id]
             \/ /\ rows'[id] = None /\ Live(id) /\ rows[id].owner = u
                /\ \A f \in files : f.owner = u => f.path # rows[id].path
             \/ \E f \in files :
                  /\ f.owner = u /\ where[f] = id /\ PlaceOf(id, u, f.path)
                  /\ ~(Live(id) /\ rows[id].owner = u /\ rows[id].path = f.path)
                  /\ rows'[id].owner = u /\ rows'[id].uploader = u
                  /\ rows'[id].path = f.path /\ rows'[id].content = f.content
                  /\ rows'[id].deleted = FALSE /\ rows'[id] # None
  <2>1. CASE rows'[id] = rows[id]  BY <2>1
  <2>2. CASE rows'[id] = None /\ id \in lost  BY <2>2
  <2>3. ASSUME NEW f \in new, place[f] = id,
               rows'[id].owner = u, rows'[id].uploader = u,
               rows'[id].path = f.path, rows'[id].content = f.content,
               rows'[id].deleted = FALSE, rows'[id] # None
        PROVE  \E g \in files :
                  /\ g.owner = u /\ where[g] = id /\ PlaceOf(id, u, g.path)
                  /\ ~(Live(id) /\ rows[id].owner = u /\ rows[id].path = g.path)
                  /\ rows'[id].owner = u /\ rows'[id].uploader = u
                  /\ rows'[id].path = g.path /\ rows'[id].content = g.content
                  /\ rows'[id].deleted = FALSE /\ rows'[id] # None
    <3>1. f \in files /\ f.owner = u /\ where[f] = id  BY <2>3
    <3>2. PlaceOf(id, u, f.path)  BY <2>3, <1>1
    <3>3. ~(Live(id) /\ rows[id].owner = u /\ rows[id].path = f.path)  BY <2>3
    <3> HIDE DEF where
    <3> QED  BY <2>3, <3>1, <3>2, <3>3
  <2> HIDE DEF new, lost, where
  <2> QED  BY <2>1, <2>2, <2>3, <1>4
<1>6. CASE Ids = {}  BY <1>6 DEF Reindex, Handler, Authorised
<1>7. CASE Ids # {}
  <2>1. where \in [files -> Ids]
    <3>1. (CHOOSE i \in Ids : TRUE) \in Ids  BY <1>7
    <3> HIDE DEF new
    <3> QED  BY <3>1, <1>3
  <2>2. /\ run = None /\ status[u] = "active" /\ ~hashed
        /\ UNCHANGED <<hashed, status, trash, blobs, files, job, run, server, resume>>
    BY DEF Reindex, Handler, Authorised
  <2> HIDE DEF where
  <2> QED  BY <2>1, <2>2, <1>5
<1> QED  BY <1>6, <1>7

LEMMA ReindexKeeps ==
  ASSUME IInv, NEW u \in Users, Reindex(u)
  PROVE  IInv'
<1> DEFINE Left(id) == rows'[id] = rows[id]
           Lost(id) ==
             /\ rows'[id] = None /\ Live(id) /\ rows[id].owner = u
             /\ \A f \in files : f.owner = u => f.path # rows[id].path
           Listed(id, f) ==
             /\ f.owner = u /\ PlaceOf(id, u, f.path)
             /\ rows'[id].owner = u /\ rows'[id].uploader = u
             /\ rows'[id].path = f.path /\ rows'[id].content = f.content
             /\ rows'[id].deleted = FALSE /\ rows'[id] # None
<1>1. /\ run = None /\ status[u] = "active" /\ ~hashed
      /\ UNCHANGED <<hashed, status, trash, blobs, files, job, run, server, resume>>
  BY ReindexFacts
<1>2. PICK place \in [files -> Ids] : \A id \in Ids :
        Left(id) \/ Lost(id) \/ \E f \in files : place[f] = id /\ Listed(id, f)
  <2>1. PICK place \in [files -> Ids] : \A id \in Ids :
              \/ rows'[id] = rows[id]
              \/ /\ rows'[id] = None /\ Live(id) /\ rows[id].owner = u
                 /\ \A f \in files : f.owner = u => f.path # rows[id].path
              \/ \E f \in files :
                   /\ f.owner = u /\ place[f] = id /\ PlaceOf(id, u, f.path)
                   /\ ~(Live(id) /\ rows[id].owner = u /\ rows[id].path = f.path)
                   /\ rows'[id].owner = u /\ rows'[id].uploader = u
                   /\ rows'[id].path = f.path /\ rows'[id].content = f.content
                   /\ rows'[id].deleted = FALSE /\ rows'[id] # None
    BY ReindexFacts
  <2> QED  BY <2>1
<1>3. ASSUME NEW id \in Ids, NEW f \in files, Listed(id, f)
      PROVE  /\ \A i \in Ids : IsRow(i) /\ rows[i].owner = u /\ rows[i].path = f.path
                                 => i = id
             /\ IsRow(id) => rows[id].owner = u
  BY <1>3, PlaceIsUnique DEF IInv, RowsStand
<1>4. u # Shared  BY ConstantsAssumption
<1>5. Types'  BY ReindexTypes DEF IInv
<1>6. JobsStand' /\ RunStands' /\ CopiesStand' /\ CleanedUp'
  BY <1>1, HandlersLeaveJobs DEF IInv
<1>7. FilesStand'  BY <1>1 DEF IInv, FilesStand
<1>8. RowsStand'
  <2>1. RowsUnique'
    <3> SUFFICES ASSUME NEW i \in Ids, NEW j \in Ids, IsRow(i)', IsRow(j)',
                        rows'[i].owner = rows'[j].owner,
                        rows'[i].path = rows'[j].path
                 PROVE  i = j
      BY DEF RowsUnique
    <3>1. /\ Left(i) \/ \E f \in files : place[f] = i /\ Listed(i, f)
          /\ Left(j) \/ \E f \in files : place[f] = j /\ Listed(j, f)
      BY <1>2 DEF IsRow
    <3>2. CASE Left(i) /\ Left(j)
      BY <3>2 DEF IInv, RowsStand, RowsUnique, IsRow
    <3>3. ASSUME NEW f \in files, Listed(i, f), Left(j) PROVE i = j
      BY <3>3, <1>3 DEF IsRow
    <3>4. ASSUME NEW f \in files, Listed(j, f), Left(i) PROVE i = j
      <4>1. IsRow(i) /\ rows[i].owner = u /\ rows[i].path = f.path
        BY <3>4 DEF IsRow
      <4> HIDE DEF Left, Listed
      <4> QED  BY <3>4, <4>1, <1>3
    <3>5. ASSUME NEW f \in files, Listed(i, f), place[f] = i,
                 NEW g \in files, Listed(j, g), place[g] = j
          PROVE  i = j
      BY <3>5 DEF IInv, FilesStand
    <3> HIDE DEF Left, Listed
    <3> QED  BY <3>1, <3>2, <3>3, <3>4, <3>5
  <2>2. ASSUME NEW i \in Ids, IsRow(i)'
        PROVE  (/\ rows[i].owner = Shared => ~rows[i].deleted
                /\ rows[i].owner # Shared => rows[i].uploader = rows[i].owner
                /\ hashed => ~rows[i].path.staged)'
    <3>1. CASE Left(i)
      BY <3>1, <2>2, <1>1 DEF IInv, RowsStand, IsRow
    <3>2. ASSUME NEW f \in files, Listed(i, f)
          PROVE  /\ rows'[i].owner = u /\ rows'[i].uploader = u
                 /\ rows'[i].deleted = FALSE
      BY <3>2
    <3>3. CASE Left(i) \/ \E f \in files : place[f] = i /\ Listed(i, f)
      <4> HIDE DEF Left, Listed
      <4> QED  BY <3>1, <3>2, <3>3, <1>1, <1>4
    <3> QED  BY <3>3, <2>2, <1>2 DEF IsRow
  <2> QED  BY <2>1, <2>2 DEF RowsStand
<1>9. ManifestStands'
  <2> SUFFICES ASSUME NEW v \in Users, status[v] = "deleting"
               PROVE  (/\ job[v].phase = "copying" =>
                           /\ \A i \in job[v].ids : Live(i) /\ rows[i].owner \in {v, Shared}
                           /\ \A i \in Ids :
                                \/ Live(i) /\ rows[i].owner = v /\ rows[i].shared
                                \/ IsRow(i) /\ rows[i].owner = Shared /\ rows[i].uploader = v
                                => i \in job[v].ids
                       /\ job[v].phase = "cleanup" =>
                           \A i \in Ids : IsRow(i) =>
                             /\ rows[i].uploader = v => rows[i].owner = v
                             /\ Live(i) /\ rows[i].owner = v => ~rows[i].shared)'
    BY <1>1 DEF ManifestStands
  <2>1. u # v  BY <1>1
  <2>2. \A i \in job[v].ids : i \in Ids  BY DEF IInv, JobsStand, JobOK
  <2>3. ASSUME NEW i \in Ids, IsRow(i), rows[i].owner # u PROVE Left(i)
    <3>1. ~Lost(i)  BY <2>3
    <3> HIDE DEF Left, Lost, Listed
    <3> QED  BY <2>3, <3>1, <1>2, <1>3
  <2>4. \A i \in Ids : IsRow(i)' => Left(i) \/ (rows'[i].owner = u /\ rows'[i].uploader = u)
    BY <1>2 DEF IsRow
  <2> HIDE DEF Listed, Lost
  <2>5. CASE job[v].phase = "copying"
    <3>1. \A i \in job[v].ids : IsRow(i) /\ rows[i].owner # u
      BY <1>4, <2>1, <2>5 DEF IInv, ManifestStands, Live
    <3> QED
      BY <1>1, <1>4, <2>1, <2>2, <2>3, <2>4, <2>5, <3>1
         DEF IInv, ManifestStands, Live, IsRow
  <2>6. CASE job[v].phase = "cleanup"
    BY <1>1, <2>1, <2>3, <2>4, <2>6 DEF IInv, ManifestStands, Live, IsRow
  <2> QED  BY <2>5, <2>6, <1>1
<1>10. ContentKept'
  <2>1. ASSUME NEW i \in Ids, Live(i)', (~rows[i].path.staged)'
        PROVE  (Readable(i) \/ \E v \in Users : rows[i].owner = v /\ Dissolving(v))'
    <3>1. CASE Left(i)
      BY <3>1, <2>1, <1>1 DEF IInv, ContentKept, Readable, Dissolving, Live, IsRow
    <3>2. ASSUME NEW f \in files, Listed(i, f) PROVE Readable(i)'
      <4>1. f = [owner |-> f.owner, path |-> f.path, content |-> f.content]
        BY DEF IInv, Types, Files
      <4> QED  BY <3>2, <4>1, <1>1 DEF Readable
    <3> QED  BY <3>1, <3>2, <2>1, <1>2 DEF Live, IsRow
  <2> QED  BY <2>1, <1>1 DEF IInv, ContentKept
<1>11. NothingRemains'
  <2>1. \A i \in Ids : IsRow(i)' => Left(i) \/ (rows'[i].owner = u /\ rows'[i].uploader = u)
    BY <1>2 DEF IsRow
  <2> SUFFICES ASSUME NEW v \in Users, status[v] = "gone"
               PROVE  /\ \A i \in Ids : IsRow(i)' =>
                           rows'[i].owner # v /\ rows'[i].uploader # v
                      /\ \A c \in Contents : trash[v][c] = 0
                      /\ \A f \in files : f.owner # v
                      /\ job[v] = None
    BY <1>1 DEF NothingRemains, IsRow
  <2>2. u # v  BY <1>1
  <2> HIDE DEF Listed, Lost
  <2> QED  BY <2>1, <2>2 DEF IInv, NothingRemains, IsRow
<1> QED  BY <1>5, <1>6, <1>7, <1>8, <1>9, <1>10, <1>11 DEF IInv

-----------------------------------------------------------------------------
(* The beginning of an attempt.                                             *)

LEMMA AttemptFacts ==
  ASSUME NEW u \in Users, NEW j, JobOK(j)
  PROVE  /\ Attempt(u, j).user = u /\ Attempt(u, j).pc \in {"copy", "files"}
         /\ Attempt(u, j).pc = "copy" <=> j.phase = "copying"
         /\ Attempt(u, j).pc = "copy" =>
              Attempt(u, j).todo = {id \in j.ids : ~hashed /\ rows[id].owner = u}
  BY DEF Attempt, JobOK

LEMMA AttemptKeeps ==
  ASSUME IInv, NEW u \in Users, JobOK(job'[u]), status'[u] = "deleting",
         run' = Attempt(u, job'[u]), u \notin resume', server' # "down",
         UNCHANGED <<hashed, rows>>
  PROVE  /\ run'.user = u
         /\ run'.pc = "copy" <=> job'[u].phase = "copying"
         /\ CopiesStand' /\ CleanedUp'
<1>1. /\ run'.user = u /\ run'.pc \in {"copy", "files"}
      /\ run'.pc = "copy" <=> job'[u].phase = "copying"
      /\ run'.pc = "copy" =>
           run'.todo = {id \in job'[u].ids : ~hashed /\ rows[id].owner = u}
  BY AttemptFacts
<1>2. CopiesStand'
  <2> SUFFICES ASSUME run'.pc = "copy"
               PROVE  /\ run'.todo \subseteq job'[u].ids
                      /\ \A id \in run'.todo : ~hashed' /\ rows'[id].owner = u
                      /\ ~hashed' => \A id \in job'[u].ids \ run'.todo :
                           ~(rows'[id].owner = u)
    BY <1>1 DEF CopiesStand
  <2> QED  BY <1>1
<1>3. CleanedUp'  BY <1>1 DEF CleanedUp
<1> QED  BY <1>1, <1>2, <1>3

LEMMA StartDeletionKeeps ==
  ASSUME IInv, NEW a \in Users, NEW u \in Users, StartDeletion(a, u)
  PROVE  IInv'
<1> DEFINE j == [recipient |-> a, ids |-> Manifest(u), hashes |-> HashesOf(u),
                 room |-> TransferBytes(u), phase |-> "copying"]
<1>1. /\ run = None /\ status[a] = "active" /\ a # u /\ status[u] = "active"
      /\ \A v \in Users : status[v] = "deleting" => job[v].recipient # u
      /\ job' = [job EXCEPT ![u] = j]
      /\ status' = [status EXCEPT ![u] = "deleting"]
      /\ run' = Attempt(u, j) /\ server = "up"
      /\ UNCHANGED <<hashed, rows, trash, blobs, files, server, resume>>
  BY DEF StartDeletion, Handler, Authorised
<1>2. JobOK(j) /\ j.recipient = a /\ j.phase = "copying" /\ j.ids = Manifest(u)
  BY DEF JobOK, Manifest, HashesOf
<1> HIDE DEF j
<1>3. /\ job'[u] = j /\ status'[u] = "deleting"
      /\ \A v \in Users \ {u} : job'[v] = job[v] /\ status'[v] = status[v]
  BY <1>1 DEF IInv, Types
<1>4. Types'  BY StartTypes DEF IInv
<1>5. resume = {}  BY <1>1 DEF IInv, RunStands
<1>6. JobsStand'
  <2>1. ASSUME NEW v \in Users, v # u, status[v] = "deleting"
        PROVE  JobOK(job'[v]) /\ status'[job'[v].recipient] = "active"
    BY <2>1, <1>1, <1>3 DEF IInv, JobsStand, JobOK
  <2>2. ASSUME NEW v \in Users, v # u, status[v] # "deleting" PROVE job'[v] = None
    BY <2>2, <1>3 DEF IInv, JobsStand
  <2>3. status'[j.recipient] = "active"  BY <1>1, <1>2, <1>3
  <2>4. ASSUME NEW v \in Users
        PROVE  /\ status'[v] # "deleting" => job'[v] = None
               /\ status'[v] = "deleting" =>
                    JobOK(job'[v]) /\ status'[job'[v].recipient] = "active"
    BY <2>1, <2>2, <2>3, <1>2, <1>3
  <2> QED  BY <2>4 DEF JobsStand, JobOK
<1>7. /\ run'.user = u
      /\ run'.pc = "copy" <=> job'[u].phase = "copying"
      /\ CopiesStand' /\ CleanedUp'
  <2>1. JobOK(job'[u]) /\ run' = Attempt(u, job'[u])  BY <1>1, <1>2, <1>3
  <2>2. u \notin resume' /\ server' # "down"  BY <1>1, <1>5
  <2> QED  BY <2>1, <2>2, <1>1, <1>3, AttemptKeeps
<1>8. RunStands'  BY <1>1, <1>3, <1>5, <1>7 DEF RunStands
<1>9. RowsStand' /\ FilesStand'
  BY <1>1 DEF IInv, RowsStand, FilesStand, RowsUnique, IsRow
<1>10. ManifestStands'
  <2>1. ASSUME NEW v \in Users, v # u, status[v] = "deleting"
        PROVE  /\ job'[v] = job[v] /\ status'[v] = status[v]
    BY <2>1, <1>3
  <2>2. ASSUME NEW id \in Ids, rows[id].owner = Shared, IsRow(id) PROVE Live(id)
    BY <2>2 DEF IInv, RowsStand, Live
  <2>3. /\ \A id \in j.ids : Live(id) /\ rows[id].owner \in {u, Shared}
        /\ \A id \in Ids :
             \/ Live(id) /\ rows[id].owner = u /\ rows[id].shared
             \/ IsRow(id) /\ rows[id].owner = Shared /\ rows[id].uploader = u
             => id \in j.ids
    BY <1>2, <2>2 DEF Manifest
  <2> SUFFICES ASSUME NEW v \in Users, status'[v] = "deleting"
               PROVE  /\ job'[v].phase = "copying" =>
                           /\ \A id \in job'[v].ids :
                                Live(id) /\ rows[id].owner \in {v, Shared}
                           /\ \A id \in Ids :
                                \/ Live(id) /\ rows[id].owner = v /\ rows[id].shared
                                \/ IsRow(id) /\ rows[id].owner = Shared
                                     /\ rows[id].uploader = v
                                => id \in job'[v].ids
                      /\ job'[v].phase = "cleanup" =>
                           \A id \in Ids : IsRow(id) =>
                             /\ rows[id].uploader = v => rows[id].owner = v
                             /\ Live(id) /\ rows[id].owner = v => ~rows[id].shared
    BY <1>1 DEF ManifestStands, Live, IsRow
  <2>4. CASE v = u  BY <2>3, <2>4, <1>2, <1>3
  <2>5. CASE v # u  BY <2>1, <2>5, <1>3 DEF IInv, ManifestStands
  <2> QED  BY <2>4, <2>5
<1>11. ContentKept'
  <2>1. ASSUME NEW v \in Users, Dissolving(v) PROVE Dissolving(v)'
    BY <2>1, <1>1, <1>3 DEF Dissolving
  <2> QED  BY <2>1, <1>1 DEF IInv, ContentKept, Readable, Live, IsRow
<1>12. NothingRemains'
  BY <1>1, <1>3 DEF IInv, NothingRemains, IsRow
<1> QED  BY <1>4, <1>6, <1>7, <1>8, <1>9, <1>10, <1>11, <1>12 DEF IInv

(* A retry, and the resumption at start-up. *)
LEMMA AgainKeeps ==
  ASSUME IInv, NEW u \in Users, Resume(u) \/ \E a \in Users : Retry(a, u)
  PROVE  IInv'
<1>1. /\ status[u] = "deleting" /\ server # "down" /\ run' = Attempt(u, job[u])
      /\ UNCHANGED <<hashed, status, rows, trash, blobs, files, job, server>>
      /\ u \notin resume' /\ resume' \subseteq resume
  <2>1. CASE Resume(u)  BY <2>1 DEF Resume, IInv, RunStands
  <2>2. CASE \E a \in Users : Retry(a, u)
    BY <2>2 DEF Retry, Handler, IInv, RunStands
  <2> QED  BY <2>1, <2>2
<1>2. Types'  BY StartTypes, ServerTypes DEF IInv
<1>3. JobsStand'  BY <1>1 DEF IInv, JobsStand, JobOK
<1>4. /\ run'.user = u
      /\ run'.pc = "copy" <=> job'[u].phase = "copying"
      /\ CopiesStand' /\ CleanedUp'
  BY <1>1, AttemptKeeps DEF IInv, JobsStand
<1>5. RunStands'
  BY <1>1, <1>4 DEF IInv, RunStands
<1>6. RowsStand' /\ FilesStand'
  BY <1>1 DEF IInv, RowsStand, FilesStand, RowsUnique, IsRow
<1>7. ManifestStands'  BY <1>1 DEF IInv, ManifestStands, Live, IsRow
<1>8. ContentKept' /\ NothingRemains'
  BY <1>1 DEF IInv, ContentKept, NothingRemains, Readable, Dissolving, Live, IsRow
<1> QED  BY <1>2, <1>3, <1>4, <1>5, <1>6, <1>7, <1>8 DEF IInv

-----------------------------------------------------------------------------
(* The copies.                                                              *)

(* The copy loop loses no file but staged ones, and adds to the recipient's. *)
LEMMA LoopKeeps ==
  ASSUME IInv, NEW u \in Users, Doing(u, "copy"),
         UNCHANGED <<hashed, status, rows, trash, blobs, job, server, resume>>,
         Types', FilesStand', CopiesStand',
         run' = None \/ (run'.user = u /\ run'.pc = "copy"),
         \A f \in files : ~f.path.staged => f \in files',
         \A f \in files' : f \in files \/ f.owner = Heir(u)
  PROVE  IInv'
<1>1. /\ run # None /\ run.user = u /\ run.pc = "copy" /\ u \notin resume
      /\ status[u] = "deleting" /\ job[u].phase = "copying"
      /\ Heir(u) \in Users /\ status[Heir(u)] = "active"
  BY CopyFacts DEF IInv
<1>2. JobsStand'  BY DEF IInv, JobsStand, JobOK
<1>3. RunStands'  BY <1>1 DEF IInv, RunStands
<1>4. RowsStand'  BY DEF IInv, RowsStand, RowsUnique, IsRow
<1>5. ManifestStands'  BY DEF IInv, ManifestStands, Live, IsRow
<1>6. CleanedUp'  BY DEF CleanedUp
<1>7. ContentKept'
  <2>1. ASSUME NEW id \in Ids, Live(id), ~rows[id].path.staged
        PROVE  (Readable(id) \/ \E v \in Users : rows[id].owner = v /\ Dissolving(v))'
    BY <2>1 DEF IInv, ContentKept, Readable, Dissolving
  <2> QED  BY <2>1 DEF IInv, ContentKept, Live, IsRow
<1>8. NothingRemains'  BY <1>1 DEF IInv, NothingRemains, IsRow
<1> QED  BY <1>2, <1>3, <1>4, <1>5, <1>6, <1>7, <1>8 DEF IInv

LEMMA CopyLoopKeeps ==
  ASSUME IInv, NEW u \in Users, NEW id \in Ids,
         \/ StageCopy(u, id) \/ PlaceCopy(u, id)
         \/ MissSource(u, id) \/ AcceptCopy(u, id)
  PROVE  IInv'
<1>1. /\ Doing(u, "copy") /\ id \in run.todo
      /\ UNCHANGED <<hashed, status, rows, trash, blobs, job, server, resume>>
  BY DEF StageCopy, PlaceCopy, MissSource, AcceptCopy
<1>2. /\ run # None /\ run.user = u /\ run.pc = "copy" /\ ~hashed
      /\ status[u] = "deleting" /\ JobOK(job[u])
      /\ Unfinished(u, id).owner = Heir(u) /\ Unfinished(u, id).path.staged
      /\ Copy(u, id).owner = Heir(u) /\ Copy(u, id) \in Files
      /\ Unfinished(u, id) \in Files
  BY <1>1, CopyFacts DEF IInv
<1>3. Types'  BY LoopTypes DEF IInv
<1>4. \A i : Copy(u, i)' = Copy(u, i)  BY <1>1 DEF Copy, Heir
<1>5. ASSUME NEW i \in job[u].ids, i \notin run.todo, rows[i].owner = u,
             ~rows[i].path.staged
      PROVE  Copy(u, i) \in files /\ ~Copy(u, i).path.staged
  <2>1. i \in Ids /\ IsRow(i)
    BY <1>2, CopyFacts, <1>1 DEF IInv, ManifestStands, JobOK, Live
  <2> QED  BY <2>1, <1>2, <1>5, CopyTypes DEF IInv, CopiesStand
<1>6. ASSUME run'.user = u, run'.pc = "copy",
             \/ run' = run
             \/ run'.todo = run.todo \ {id} /\ Copy(u, id) \in files',
             \A f \in files : ~f.path.staged => f \in files'
      PROVE  CopiesStand'
  <2>1. /\ run.todo \subseteq job[u].ids
        /\ \A i \in run.todo : ~hashed /\ rows[i].owner = u
    BY <1>2 DEF IInv, CopiesStand
  <2>2. \A i \in job[u].ids \ run'.todo :
          rows[i].owner = u /\ ~rows[i].path.staged => Copy(u, i) \in files'
    BY <1>5, <1>6
  <2> QED  BY <2>1, <2>2, <1>1, <1>4, <1>6 DEF CopiesStand
<1>7. CASE StageCopy(u, id)
  <2> DEFINE f == Unfinished(u, id)
  <2>1. /\ files' = WrittenFile(f.owner, f.path, f.content) /\ run' = run
        /\ f = [owner |-> f.owner, path |-> f.path, content |-> f.content]
    BY <1>2, <1>7 DEF StageCopy, Files
  <2> HIDE DEF f
  <2>2. f.owner = Heir(u) /\ f.path.staged  BY <1>2 DEF f
  <2>3. /\ \A g \in files : ~g.path.staged => g \in files'
        /\ \A g \in files' : g \in files \/ g = f
    BY <2>1, <2>2 DEF WrittenFile
  <2>4. FilesStand'
    BY <2>1, <1>1, <1>2 DEF IInv, FilesStand, WrittenFile
  <2>5. CopiesStand'  BY <2>1, <2>3, <1>2, <1>6
  <2> QED  BY <2>1, <2>2, <2>3, <2>4, <2>5, <1>1, <1>2, <1>3, LoopKeeps
<1>8. CASE PlaceCopy(u, id)
  <2>1. /\ files' = (files \ {Unfinished(u, id)}) \cup {Copy(u, id)}
        /\ run' = [run EXCEPT !.todo = @ \ {id}]
        /\ ~Exists(Heir(u), Copy(u, id).path)
    BY <1>8 DEF PlaceCopy
  <2>2. run'.user = u /\ run'.pc = "copy" /\ run'.todo = run.todo \ {id}
    BY <2>1, <1>2, RunTypes DEF IInv
  <2>3. /\ \A g \in files : ~g.path.staged => g \in files'
        /\ \A g \in files' : g \in files \/ g = Copy(u, id)
    BY <2>1, <1>2
  <2>4. FilesStand'
    BY <2>1, <1>1, <1>2 DEF IInv, FilesStand, Exists
  <2>5. CopiesStand'  BY <2>1, <2>2, <2>3, <1>6
  <2> QED  BY <2>2, <2>3, <2>4, <2>5, <1>1, <1>2, <1>3, LoopKeeps
<1>9. CASE MissSource(u, id)
  <2>1. run' = None /\ files' = files  BY <1>9 DEF MissSource
  <2>2. FilesStand'  BY <2>1, <1>1 DEF IInv, FilesStand
  <2>3. CopiesStand'  BY <2>1 DEF CopiesStand
  <2> QED  BY <2>1, <2>2, <2>3, <1>1, <1>3, LoopKeeps
<1>10. CASE AcceptCopy(u, id)
  <2>1. /\ files' = files
        /\ run' = IF Copy(u, id) \in files THEN [run EXCEPT !.todo = @ \ {id}] ELSE None
    BY <1>10 DEF AcceptCopy
  <2>2. FilesStand'  BY <2>1, <1>1 DEF IInv, FilesStand
  <2>3. CASE run' = None
    <3>1. CopiesStand'  BY <2>3 DEF CopiesStand
    <3> QED  BY <3>1, <2>1, <2>2, <2>3, <1>1, <1>3, LoopKeeps
  <2>4. CASE run' # None
    <3>1. /\ run'.user = u /\ run'.pc = "copy" /\ run'.todo = run.todo \ {id}
          /\ Copy(u, id) \in files'
      BY <2>1, <2>4, <1>2, RunTypes DEF IInv
    <3>2. CopiesStand'  BY <3>1, <2>1, <1>6
    <3> QED  BY <3>1, <3>2, <2>1, <2>2, <1>1, <1>3, LoopKeeps
  <2> QED  BY <2>3, <2>4
<1> QED  BY <1>7, <1>8, <1>9, <1>10

-----------------------------------------------------------------------------
(* The transfer.                                                            *)

LEMMA UnderIsInjective ==
  ASSUME NEW u \in Users, NEW p \in Paths, NEW q \in Paths, Under(u, p) = Under(u, q)
  PROVE  p = q
<1>1. /\ p.under \in Seq(Users) /\ q.under \in Seq(Users) /\ <<u>> \in Seq(Users)
      /\ p = [under |-> p.under, name |-> p.name, staged |-> p.staged]
      /\ q = [under |-> q.under, name |-> q.name, staged |-> q.staged]
  BY DEF Paths
<1>2. /\ <<u>> \o p.under = <<u>> \o q.under
      /\ p.name = q.name /\ p.staged = q.staged
  <2>1. /\ Under(u, p).under = <<u>> \o p.under /\ Under(u, q).under = <<u>> \o q.under
        /\ Under(u, p).name = p.name /\ Under(u, q).name = q.name
        /\ Under(u, p).staged = p.staged /\ Under(u, q).staged = q.staged
    BY DEF Under, Paths
  <2> QED  BY <2>1
<1>3. p.under = q.under
  BY <1>1, <1>2, ConcatSimplifications
<1> QED  BY <1>1, <1>2, <1>3

(* Stopping an attempt, and what start-up does before it resumes, leave all *)
(* that is stored alone.                                                    *)
LEMMA StopKeeps ==
  ASSUME IInv, UNCHANGED <<hashed, status, rows, trash, blobs, files, job>>,
         run' = None, Types', RunStands'
  PROVE  IInv'
<1>1. JobsStand'  BY DEF IInv, JobsStand, JobOK
<1>2. RowsStand' /\ FilesStand'
  BY DEF IInv, RowsStand, FilesStand, RowsUnique, IsRow
<1>3. ManifestStands'  BY DEF IInv, ManifestStands, Live, IsRow
<1>4. CopiesStand' /\ CleanedUp'  BY DEF CopiesStand, CleanedUp
<1>5. ContentKept' /\ NothingRemains'
  BY DEF IInv, ContentKept, NothingRemains, Readable, Dissolving, Live, IsRow
<1> QED  BY <1>1, <1>2, <1>3, <1>4, <1>5 DEF IInv

(* What the transaction writes. *)
LEMMA TransferFacts ==
  ASSUME IInv, NEW u \in Users, Doing(u, "copy"), NEW id \in job[u].ids
  PROVE  /\ id \in Ids /\ Live(id) /\ rows[id].owner \in {u, Shared}
         /\ Transferred(id, u) \in Rows /\ Transferred(id, u) # None
         /\ Transferred(id, u).uploader = Heir(u)
         /\ Transferred(id, u).content = rows[id].content
         /\ Transferred(id, u).deleted = rows[id].deleted
         /\ rows[id].owner = Shared =>
              /\ Transferred(id, u).owner = Shared
              /\ Transferred(id, u).path = rows[id].path
         /\ rows[id].owner = u =>
              /\ Transferred(id, u).owner = Heir(u)
              /\ Transferred(id, u).path = Under(u, rows[id].path)
         /\ Transferred(id, u).path.staged = rows[id].path.staged
<1>1. /\ status[u] = "deleting" /\ JobOK(job[u]) /\ job[u].phase = "copying"
      /\ Heir(u) \in Users
  BY CopyFacts DEF IInv
<1>2. id \in Ids /\ Live(id) /\ rows[id].owner \in {u, Shared}
  BY <1>1 DEF IInv, ManifestStands, JobOK
<1>3. /\ rows[id] \in Rows /\ rows[id].path \in Paths
  BY <1>2, RowTypes DEF IInv, Live
<1>4. Under(u, rows[id].path) \in Paths
      /\ Under(u, rows[id].path).staged = rows[id].path.staged
  BY <1>3, PathTypes
<1>5. u # Shared  BY ConstantsAssumption
<1>6. CASE rows[id].owner = Shared
  <2> DEFINE row == [rows[id] EXCEPT !.uploader = Heir(u)]
  <2>1. Transferred(id, u) = row  BY <1>6 DEF Transferred
  <2>2. /\ row \in Rows /\ row.uploader = Heir(u) /\ row.content = rows[id].content
        /\ row.deleted = rows[id].deleted /\ row.owner = Shared
        /\ row.path = rows[id].path
    BY <1>1, <1>3, <1>6 DEF Rows
  <2> HIDE DEF row
  <2> QED  BY <2>1, <2>2, <1>2, <1>5, <1>6, NoneAssumption
<1>7. CASE rows[id].owner = u
  <2> DEFINE row == [rows[id] EXCEPT !.owner = Heir(u), !.uploader = Heir(u),
                                     !.path = Under(u, @)]
  <2>1. Transferred(id, u) = row  BY <1>5, <1>7 DEF Transferred
  <2>2. /\ row \in Rows /\ row.uploader = Heir(u) /\ row.content = rows[id].content
        /\ row.deleted = rows[id].deleted /\ row.owner = Heir(u)
        /\ row.path = Under(u, rows[id].path)
    BY <1>1, <1>3, <1>4 DEF Rows, Owners
  <2> HIDE DEF row
  <2> QED  BY <2>1, <2>2, <1>2, <1>4, <1>5, <1>7, NoneAssumption
<1> QED  BY <1>2, <1>6, <1>7

LEMMA TransferKeeps ==
  ASSUME IInv, NEW u \in Users, Transfer(u)
  PROVE  IInv'
<1>1. /\ Doing(u, "copy") /\ run.todo = {}
      /\ UNCHANGED <<hashed, status, trash, blobs, files, server, resume>>
  BY DEF Transfer
<1>2. /\ run # None /\ run.user = u /\ run.pc = "copy" /\ u \notin resume
      /\ status[u] = "deleting" /\ JobOK(job[u]) /\ job[u].phase = "copying"
      /\ Heir(u) \in Users /\ Heir(u) # u /\ status[Heir(u)] = "active"
  BY <1>1, CopyFacts DEF IInv
<1>3. Types'  BY TransferTypes DEF IInv
<1>4. CASE Conflict(u)
  <2>1. run' = None /\ UNCHANGED <<rows, job>>  BY <1>4 DEF Transfer
  <2>2. RunStands'  BY <2>1, <1>1 DEF IInv, RunStands
  <2> QED  BY <2>1, <2>2, <1>1, <1>3, StopKeeps
<1>5. CASE ~Conflict(u)
  <2>1. /\ rows' = [id \in Ids |-> IF id \in job[u].ids THEN Transferred(id, u)
                                   ELSE rows[id]]
        /\ job' = [job EXCEPT ![u].phase = "cleanup"]
        /\ run' = [run EXCEPT !.pc = "files"]
    BY <1>5 DEF Transfer
  <2>2. /\ \A id \in Ids : id \in job[u].ids => rows'[id] = Transferred(id, u)
        /\ \A id \in Ids : id \notin job[u].ids => rows'[id] = rows[id]
    BY <2>1
  <2>3. /\ job'[u].recipient = Heir(u) /\ job'[u].ids = job[u].ids
        /\ job'[u].phase = "cleanup" /\ JobOK(job'[u])
        /\ \A v \in Users \ {u} : job'[v] = job[v]
    <3> DEFINE j == [job[u] EXCEPT !.phase = "cleanup"]
    <3>1. /\ j.recipient = Heir(u) /\ j.ids = job[u].ids /\ j.phase = "cleanup"
          /\ JobOK(j)
      BY <1>2 DEF JobOK, Heir
    <3>2. job'[u] = j /\ \A v \in Users \ {u} : job'[v] = job[v]
      BY <2>1 DEF IInv, Types
    <3> HIDE DEF j
    <3> QED  BY <3>1, <3>2
  <2>4. run'.user = u /\ run'.pc = "files"  BY <2>1, <1>2, RunTypes DEF IInv
  <2>5. Shared \notin Users  BY ConstantsAssumption
  <2>6. ASSUME NEW id \in Ids, IsRow(id)'
        PROVE  \/ id \notin job[u].ids /\ IsRow(id) /\ rows'[id] = rows[id]
               \/ /\ id \in job[u].ids /\ Live(id)
                  /\ rows'[id].uploader = Heir(u)
                  /\ rows'[id].content = rows[id].content
                  /\ rows'[id].deleted = rows[id].deleted
                  /\ rows'[id].path.staged = rows[id].path.staged
                  /\ \/ /\ rows[id].owner = Shared /\ rows'[id].owner = Shared
                        /\ rows'[id].path = rows[id].path
                     \/ /\ rows[id].owner = u /\ rows'[id].owner = Heir(u)
                        /\ rows'[id].path = Under(u, rows[id].path)
    <3>1. CASE id \in job[u].ids
      <4>1. rows'[id] = Transferred(id, u)  BY <3>1, <2>2
      <4> QED  BY <3>1, <4>1, <1>1, TransferFacts
    <3>2. CASE id \notin job[u].ids
      BY <3>2, <2>2, <2>6 DEF IsRow
    <3> QED  BY <3>1, <3>2
  <2>7. JobsStand'
    <3>1. ASSUME NEW v \in Users
          PROVE  /\ status[v] # "deleting" => job'[v] = None
                 /\ status[v] = "deleting" =>
                      JobOK(job'[v]) /\ status[job'[v].recipient] = "active"
      BY <2>3, <1>2 DEF IInv, JobsStand
    <3> QED  BY <3>1, <1>1 DEF JobsStand, JobOK
  <2>8. RunStands'  BY <1>1, <1>2, <2>3, <2>4 DEF IInv, RunStands
  <2>9. FilesStand'  BY <1>1 DEF IInv, FilesStand
  <2>10. CopiesStand' /\ CleanedUp'  BY <2>4 DEF CopiesStand, CleanedUp
  <2>11. RowsStand'
    <3>1. ASSUME NEW i \in Ids, NEW k \in Ids, IsRow(i)', IsRow(k)',
                 rows'[i].owner = rows'[k].owner, rows'[i].path = rows'[k].path,
                 i \in job[u].ids, k \notin job[u].ids
          PROVE  FALSE
      <4>1. IsRow(k) /\ rows'[k] = rows[k]  BY <3>1, <2>6
      <4>2. /\ rows[k].owner = Transferred(i, u).owner
            /\ rows[k].path = Transferred(i, u).path
        BY <3>1, <4>1, <2>2
      <4> QED  BY <3>1, <4>1, <4>2, <1>5 DEF Conflict
    <3>2. ASSUME NEW i \in Ids, NEW k \in Ids, IsRow(i)', IsRow(k)',
                 rows'[i].owner = rows'[k].owner, rows'[i].path = rows'[k].path,
                 i \in job[u].ids, k \in job[u].ids
          PROVE  i = k
      <4>1. Heir(u) # Shared  BY <1>2, <2>5
      <4>2. /\ IsRow(i) /\ IsRow(k) /\ rows[i].owner = rows[k].owner
            /\ \/ rows[i].path = rows[k].path
               \/ Under(u, rows[i].path) = Under(u, rows[k].path)
        BY <3>2, <4>1, <2>5, <2>6 DEF Live
      <4>3. rows[i].path \in Paths /\ rows[k].path \in Paths
        BY <4>2, RowTypes DEF IInv
      <4> QED  BY <4>2, <4>3, UnderIsInjective DEF IInv, RowsStand, RowsUnique
    <3>3. ASSUME NEW i \in Ids, NEW k \in Ids, IsRow(i)', IsRow(k)',
                 rows'[i].owner = rows'[k].owner, rows'[i].path = rows'[k].path,
                 i \notin job[u].ids, k \notin job[u].ids
          PROVE  i = k
      BY <3>3, <2>6 DEF IInv, RowsStand, RowsUnique
    <3>4. RowsUnique'  BY <3>1, <3>2, <3>3 DEF RowsUnique
    <3>5. ASSUME NEW i \in Ids, IsRow(i)'
          PROVE  (/\ rows[i].owner = Shared => ~rows[i].deleted
                  /\ rows[i].owner # Shared => rows[i].uploader = rows[i].owner
                  /\ hashed => ~rows[i].path.staged)'
      BY <3>5, <1>1, <2>5, <2>6 DEF IInv, RowsStand, Live
    <3> QED  BY <3>4, <3>5 DEF RowsStand
  <2>12. ManifestStands'
    <3>1. \A v \in Users : status[v] = "deleting" =>
            /\ job[v].ids \subseteq Ids
            /\ v # Heir(u) /\ v # Shared
      BY <1>2, <2>5 DEF IInv, JobsStand, JobOK
    <3>2. ASSUME NEW v \in Users, v # u, status[v] = "deleting",
                 job[v].phase = "copying"
          PROVE  /\ \A i \in job[v].ids :
                      Live(i)' /\ rows'[i].owner \in {v, Shared}
                 /\ \A i \in Ids :
                      \/ Live(i)' /\ rows'[i].owner = v /\ rows'[i].shared
                      \/ IsRow(i)' /\ rows'[i].owner = Shared /\ rows'[i].uploader = v
                      => i \in job[v].ids
      <4>1. ASSUME NEW i \in job[v].ids
            PROVE  Live(i)' /\ rows'[i].owner \in {v, Shared}
        <5>1. i \in Ids /\ Live(i) /\ rows[i].owner \in {v, Shared}
          BY <3>1, <3>2 DEF IInv, ManifestStands
        <5>2. CASE i \in job[u].ids
          <6>1. rows'[i] = Transferred(i, u)  BY <5>1, <5>2, <2>2
          <6>2. rows[i].owner = Shared  BY <5>1, <5>2, <3>2, <1>1, TransferFacts
          <6> QED  BY <6>1, <6>2, <5>1, <5>2, <1>1, TransferFacts DEF Live, IsRow
        <5>3. CASE i \notin job[u].ids
          BY <5>1, <5>3, <2>2 DEF Live, IsRow
        <5> QED  BY <5>2, <5>3
      <4>2. ASSUME NEW i \in Ids,
                   \/ Live(i)' /\ rows'[i].owner = v /\ rows'[i].shared
                   \/ IsRow(i)' /\ rows'[i].owner = Shared /\ rows'[i].uploader = v
            PROVE  i \in job[v].ids
        <5>1. IsRow(i)'  BY <4>2 DEF Live
        <5>2. i \notin job[u].ids  BY <5>1, <4>2, <3>1, <3>2, <2>6
        <5>3. IsRow(i) /\ rows'[i] = rows[i]  BY <5>1, <5>2, <2>6
        <5> QED  BY <4>2, <5>3, <3>2 DEF IInv, ManifestStands, Live
      <4> QED  BY <4>1, <4>2
    <3>3. ASSUME NEW v \in Users, v # u, status[v] = "deleting",
                 job[v].phase = "cleanup", NEW i \in Ids, IsRow(i)'
          PROVE  /\ rows'[i].uploader = v => rows'[i].owner = v
                 /\ Live(i)' /\ rows'[i].owner = v => ~rows'[i].shared
      <4>1. CASE i \in job[u].ids  BY <4>1, <3>1, <3>3, <2>6
      <4>2. CASE i \notin job[u].ids
        <5>1. IsRow(i) /\ rows'[i] = rows[i]  BY <4>2, <3>3, <2>6
        <5> QED  BY <5>1, <3>3 DEF IInv, ManifestStands, Live
      <4> QED  BY <4>1, <4>2
    <3>4. ASSUME NEW i \in Ids, IsRow(i)'
          PROVE  /\ rows'[i].uploader = u => rows'[i].owner = u
                 /\ Live(i)' /\ rows'[i].owner = u => ~rows'[i].shared
      <4>1. CASE i \in job[u].ids  BY <4>1, <3>4, <1>2, <2>5, <2>6
      <4>2. CASE i \notin job[u].ids
        <5>1. IsRow(i) /\ rows'[i] = rows[i]  BY <4>2, <3>4, <2>6
        <5>2. /\ Live(i) => ~(rows[i].owner = u /\ rows[i].shared)
              /\ ~(rows[i].owner = Shared /\ rows[i].uploader = u)
          BY <5>1, <4>2, <1>2 DEF IInv, ManifestStands
        <5>3. rows[i].owner # Shared => rows[i].uploader = rows[i].owner
          BY <5>1 DEF IInv, RowsStand
        <5> QED  BY <5>1, <5>2, <5>3 DEF Live
      <4> QED  BY <4>1, <4>2
    <3>5. ASSUME NEW v \in Users, status[v] = "deleting"
          PROVE  /\ job'[v].phase = "copying" =>
                      /\ \A i \in job'[v].ids :
                           Live(i)' /\ rows'[i].owner \in {v, Shared}
                      /\ \A i \in Ids :
                           \/ Live(i)' /\ rows'[i].owner = v /\ rows'[i].shared
                           \/ IsRow(i)' /\ rows'[i].owner = Shared /\ rows'[i].uploader = v
                           => i \in job'[v].ids
                 /\ job'[v].phase = "cleanup" => \A i \in Ids : IsRow(i)' =>
                      /\ rows'[i].uploader = v => rows'[i].owner = v
                      /\ Live(i)' /\ rows'[i].owner = v => ~rows'[i].shared
      <4>1. CASE v = u  BY <4>1, <2>3, <3>4
      <4>2. CASE v # u
        <5>1. job'[v] = job[v]  BY <4>2, <2>3
        <5> QED  BY <5>1, <4>2, <3>5, <3>2, <3>3
      <4> QED  BY <4>1, <4>2
    <3> QED  BY <3>5, <1>1 DEF ManifestStands
  <2>13. ContentKept'
    <3>1. ASSUME NEW v \in Users, Dissolving(v) PROVE Dissolving(v)'
      BY <3>1, <1>1, <1>2, <2>3 DEF Dissolving
    <3>2. ASSUME NEW i \in Ids, Live(i)', (~rows[i].path.staged)'
          PROVE  (Readable(i) \/ \E v \in Users : rows[i].owner = v /\ Dissolving(v))'
      <4>1. IsRow(i)'  BY <3>2 DEF Live
      <4>2. Live(i) /\ ~rows[i].path.staged /\ rows'[i].content = rows[i].content
        BY <3>2, <4>1, <2>6 DEF Live
      <4>3. Readable(i) \/ \E v \in Users : rows[i].owner = v /\ Dissolving(v)
        BY <4>2 DEF IInv, ContentKept
      <4>4. CASE i \notin job[u].ids
        <5>1. rows'[i] = rows[i]  BY <4>4, <2>2
        <5> QED  BY <5>1, <4>3, <3>1, <1>1 DEF Readable
      <4>5. CASE i \in job[u].ids
        <5>1. rows[i].owner \in {u, Shared}  BY <4>5, <1>1, TransferFacts
        <5>2. Readable(i)  BY <5>1, <4>3, <1>2, <2>5 DEF Dissolving
        <5>3. CASE hashed  BY <5>2, <5>3, <4>2, <1>1 DEF Readable
        <5>4. CASE ~hashed /\ rows[i].owner = Shared
          <6>1. rows'[i].owner = Shared /\ rows'[i].path = rows[i].path
            BY <5>4, <4>1, <4>5, <1>2, <2>5, <2>6
          <6> QED  BY <6>1, <5>2, <5>4, <4>2, <1>1 DEF Readable
        <5>5. CASE ~hashed /\ rows[i].owner = u
          <6>1. Copy(u, i) \in files
            BY <5>5, <4>2, <4>5, <1>1, <1>2 DEF IInv, CopiesStand
          <6>2. /\ rows'[i].owner = Heir(u)
                /\ rows'[i].path = Under(u, rows[i].path)
            BY <5>5, <4>1, <4>5, <2>5, <2>6
          <6> QED  BY <6>1, <6>2, <5>5, <4>2, <1>1 DEF Copy, Readable
        <5> QED  BY <5>1, <5>3, <5>4, <5>5
      <4> QED  BY <4>4, <4>5
    <3>3. \A v \in Users, c \in Contents : hashed' /\ trash'[v][c] > 0 => c \in blobs'
      BY <1>1 DEF IInv, ContentKept
    <3> QED  BY <3>2, <3>3 DEF ContentKept
  <2>14. NothingRemains'
    <3> SUFFICES ASSUME NEW v \in Users, status[v] = "gone"
                 PROVE  /\ \A i \in Ids : IsRow(i)' =>
                             rows'[i].owner # v /\ rows'[i].uploader # v
                        /\ \A c \in Contents : trash[v][c] = 0
                        /\ \A f \in files : f.owner # v
                        /\ job'[v] = None
      BY <1>1 DEF NothingRemains, IsRow
    <3>1. v # u /\ v # Heir(u) /\ v # Shared  BY <1>2, <2>5
    <3>2. /\ \A i \in Ids : IsRow(i) => rows[i].owner # v /\ rows[i].uploader # v
          /\ \A c \in Contents : trash[v][c] = 0
          /\ \A f \in files : f.owner # v
          /\ job[v] = None
      BY DEF IInv, NothingRemains
    <3> QED  BY <3>1, <3>2, <2>3, <2>6
  <2> QED
    BY <1>3, <2>7, <2>8, <2>9, <2>10, <2>11, <2>12, <2>13, <2>14 DEF IInv
<1> QED  BY <1>4, <1>5

-----------------------------------------------------------------------------
(* The removal.                                                             *)

LEMMA RemoveFilesKeeps ==
  ASSUME IInv, NEW u \in Users, RemoveFiles(u)
  PROVE  IInv'
<1>1. /\ Doing(u, "files") /\ run' = [run EXCEPT !.pc = "rows"]
      /\ files' = {f \in files : f.owner # u}
      /\ UNCHANGED <<hashed, status, rows, trash, blobs, job, server, resume>>
  BY DEF RemoveFiles
<1>2. /\ run # None /\ run.user = u /\ u \notin resume
      /\ status[u] = "deleting" /\ job[u].phase = "cleanup"
  BY <1>1, CleanFacts DEF IInv
<1>3. run'.user = u /\ run'.pc = "rows"  BY <1>1, <1>2, RunTypes DEF IInv
<1>4. Types'  BY CleanTypes DEF IInv
<1>5. JobsStand'  BY <1>1 DEF IInv, JobsStand, JobOK
<1>6. RunStands'  BY <1>1, <1>2, <1>3 DEF IInv, RunStands
<1>7. RowsStand' /\ FilesStand'
  BY <1>1 DEF IInv, RowsStand, FilesStand, RowsUnique, IsRow
<1>8. ManifestStands'  BY <1>1 DEF IInv, ManifestStands, Live, IsRow
<1>9. CopiesStand' /\ CleanedUp'  BY <1>1, <1>3 DEF CopiesStand, CleanedUp
<1>10. ContentKept'
  <2>1. Dissolving(u)'  BY <1>1, <1>2 DEF Dissolving
  <2>2. ASSUME NEW id \in Ids, Live(id), ~rows[id].path.staged
        PROVE  (Readable(id) \/ \E v \in Users : rows[id].owner = v /\ Dissolving(v))'
    <3>1. CASE rows[id].owner = u  BY <2>1, <3>1, <1>1
    <3>2. CASE rows[id].owner # u
      BY <2>2, <3>2, <1>1 DEF IInv, ContentKept, Readable, Dissolving
    <3> QED  BY <3>1, <3>2
  <2> QED  BY <2>2, <1>1 DEF IInv, ContentKept, Live, IsRow
<1>11. NothingRemains'  BY <1>1 DEF IInv, NothingRemains, IsRow
<1> QED  BY <1>4, <1>5, <1>6, <1>7, <1>8, <1>9, <1>10, <1>11 DEF IInv

LEMMA RemoveRowsKeeps ==
  ASSUME IInv, NEW u \in Users, RemoveRows(u)
  PROVE  IInv'
<1>1. /\ Doing(u, "rows")
      /\ rows' = [id \in Ids |-> IF IsRow(id) /\ rows[id].owner = u THEN None
                                 ELSE rows[id]]
      /\ trash' = [trash EXCEPT ![u] = [c \in Contents |-> 0]]
      /\ run'.user = u /\ run'.pc = "blobs"
      /\ UNCHANGED <<hashed, status, blobs, files, job, server, resume>>
  BY DEF RemoveRows
<1>2. /\ run # None /\ run.user = u /\ run.pc = "rows" /\ u \notin resume
      /\ status[u] = "deleting" /\ job[u].phase = "cleanup"
  BY <1>1, CleanFacts DEF IInv
<1>3. \A id \in Ids :
        IsRow(id)' => IsRow(id) /\ rows'[id] = rows[id] /\ rows[id].owner # u
  BY <1>1 DEF IsRow
<1>4. \A id \in Ids : IsRow(id) /\ rows[id].owner # u => rows'[id] = rows[id]
  BY <1>1
<1>5. /\ \A c \in Contents : trash'[u][c] = 0
      /\ \A v \in Users \ {u} : trash'[v] = trash[v]
  BY <1>1 DEF IInv, Types
<1>6. Types'  BY CleanTypes DEF IInv
<1>7. JobsStand'  BY <1>1 DEF IInv, JobsStand, JobOK
<1>8. RunStands'  BY <1>1, <1>2 DEF IInv, RunStands
<1>9. RowsStand'
  <2>1. RowsUnique'  BY <1>3 DEF IInv, RowsStand, RowsUnique
  <2>2. ASSUME NEW i \in Ids, IsRow(i)'
        PROVE  (/\ rows[i].owner = Shared => ~rows[i].deleted
                /\ rows[i].owner # Shared => rows[i].uploader = rows[i].owner
                /\ hashed => ~rows[i].path.staged)'
    BY <2>2, <1>1, <1>3 DEF IInv, RowsStand
  <2> QED  BY <2>1, <2>2 DEF RowsStand
<1>10. FilesStand'  BY <1>1 DEF IInv, FilesStand
<1>11. ManifestStands'
  <2> SUFFICES ASSUME NEW v \in Users, status[v] = "deleting"
               PROVE  (/\ job[v].phase = "copying" =>
                           /\ \A i \in job[v].ids : Live(i) /\ rows[i].owner \in {v, Shared}
                           /\ \A i \in Ids :
                                \/ Live(i) /\ rows[i].owner = v /\ rows[i].shared
                                \/ IsRow(i) /\ rows[i].owner = Shared /\ rows[i].uploader = v
                                => i \in job[v].ids
                       /\ job[v].phase = "cleanup" =>
                           \A i \in Ids : IsRow(i) =>
                             /\ rows[i].uploader = v => rows[i].owner = v
                             /\ Live(i) /\ rows[i].owner = v => ~rows[i].shared)'
    BY <1>1 DEF ManifestStands
  <2>1. Shared # u  BY ConstantsAssumption
  <2>2. \A i \in job[v].ids : i \in Ids  BY DEF IInv, JobsStand, JobOK
  <2>3. CASE job[v].phase = "copying"
    <3>1. v # u  BY <2>3, <1>2
    <3>2. \A i \in job[v].ids : rows'[i] = rows[i] /\ Live(i)
                                  /\ rows[i].owner \in {v, Shared}
      BY <2>1, <2>2, <2>3, <3>1, <1>4 DEF IInv, ManifestStands, Live
    <3> QED  BY <2>3, <3>2, <1>1, <1>3 DEF IInv, ManifestStands, Live, IsRow
  <2>4. CASE job[v].phase = "cleanup"
    BY <2>4, <1>1, <1>3 DEF IInv, ManifestStands, Live
  <2> QED  BY <2>3, <2>4, <1>1
<1>12. CopiesStand'  BY <1>1 DEF CopiesStand
<1>13. CleanedUp'
  <2>1. \A f \in files : f.owner # u  BY <1>2 DEF IInv, CleanedUp
  <2> QED  BY <2>1, <1>1, <1>3, <1>5 DEF CleanedUp
<1>14. ContentKept'
  <2>1. ASSUME NEW id \in Ids, Live(id)', (~rows[id].path.staged)'
        PROVE  (Readable(id) \/ \E v \in Users : rows[id].owner = v /\ Dissolving(v))'
    <3>1. Live(id) /\ rows'[id] = rows[id]  BY <2>1, <1>3 DEF Live
    <3> QED  BY <2>1, <3>1, <1>1 DEF IInv, ContentKept, Readable, Dissolving
  <2>2. \A v \in Users, c \in Contents : hashed' /\ trash'[v][c] > 0 => c \in blobs'
    BY <1>1, <1>5 DEF IInv, ContentKept
  <2> QED  BY <2>1, <2>2 DEF ContentKept
<1>15. NothingRemains'
  BY <1>1, <1>2, <1>3, <1>5 DEF IInv, NothingRemains
<1> QED  BY <1>6, <1>7, <1>8, <1>9, <1>10, <1>11, <1>12, <1>13, <1>14, <1>15 DEF IInv

LEMMA RemoveBlobKeeps ==
  ASSUME IInv, NEW u \in Users, NEW c \in Contents, RemoveBlob(u, c)
  PROVE  IInv'
<1>1. /\ Doing(u, "blobs") /\ run' = [run EXCEPT !.todo = @ \ {c}]
      /\ blobs' = IF Named(c) THEN blobs ELSE blobs \ {c}
      /\ UNCHANGED <<hashed, status, rows, trash, files, job, server, resume>>
  BY DEF RemoveBlob
<1>2. /\ run # None /\ run.user = u /\ run.pc = "blobs" /\ u \notin resume
      /\ status[u] = "deleting" /\ job[u].phase = "cleanup"
  BY <1>1, CleanFacts DEF IInv
<1>3. run'.user = u /\ run'.pc = "blobs"  BY <1>1, <1>2, RunTypes DEF IInv
<1>4. Types'  BY CleanTypes DEF IInv
<1>5. JobsStand'  BY <1>1 DEF IInv, JobsStand, JobOK
<1>6. RunStands'  BY <1>1, <1>2, <1>3 DEF IInv, RunStands
<1>7. RowsStand' /\ FilesStand'
  BY <1>1 DEF IInv, RowsStand, FilesStand, RowsUnique, IsRow
<1>8. ManifestStands'  BY <1>1 DEF IInv, ManifestStands, Live, IsRow
<1>9. CopiesStand'  BY <1>3 DEF CopiesStand
<1>10. CleanedUp'
  BY <1>1, <1>2, <1>3 DEF IInv, CleanedUp, IsRow
<1>11. ContentKept'
  <2>1. ASSUME NEW id \in Ids, Live(id), ~rows[id].path.staged
        PROVE  (Readable(id) \/ \E v \in Users : rows[id].owner = v /\ Dissolving(v))'
    <3>1. rows[id].content \in blobs => rows[id].content \in blobs'
      BY <2>1, <1>1 DEF Named, Live
    <3> QED  BY <2>1, <3>1, <1>1 DEF IInv, ContentKept, Readable, Dissolving
  <2>2. \A v \in Users, d \in Contents : hashed /\ trash[v][d] > 0 => d \in blobs'
    BY <1>1 DEF IInv, ContentKept, Named
  <2> QED  BY <2>1, <2>2, <1>1 DEF ContentKept, Live, IsRow
<1>12. NothingRemains'  BY <1>1 DEF IInv, NothingRemains, IsRow
<1> QED  BY <1>4, <1>5, <1>6, <1>7, <1>8, <1>9, <1>10, <1>11, <1>12 DEF IInv

LEMMA FinishKeeps ==
  ASSUME IInv, NEW u \in Users, Finish(u)
  PROVE  IInv'
<1>1. /\ Doing(u, "blobs") /\ run' = None
      /\ job' = [job EXCEPT ![u] = None]
      /\ status' = [status EXCEPT ![u] = "gone"]
      /\ UNCHANGED <<hashed, rows, trash, blobs, files, server, resume>>
  BY DEF Finish
<1>2. /\ run # None /\ run.user = u /\ run.pc = "blobs" /\ u \notin resume
      /\ status[u] = "deleting" /\ job[u].phase = "cleanup"
  BY <1>1, CleanFacts DEF IInv
<1>3. /\ job'[u] = None /\ status'[u] = "gone"
      /\ \A v \in Users \ {u} : job'[v] = job[v] /\ status'[v] = status[v]
  BY <1>1 DEF IInv, Types
<1>4. Types'  BY CleanTypes DEF IInv
<1>5. JobsStand'
  <2>1. ASSUME NEW v \in Users
        PROVE  /\ status'[v] # "deleting" => job'[v] = None
               /\ status'[v] = "deleting" =>
                    JobOK(job'[v]) /\ status'[job'[v].recipient] = "active"
    <3>1. CASE v = u  BY <3>1, <1>3
    <3>2. CASE v # u /\ status[v] # "deleting"  BY <3>2, <1>3 DEF IInv, JobsStand
    <3>3. CASE v # u /\ status[v] = "deleting"
      <4>1. /\ JobOK(job[v]) /\ job[v].recipient \in Users
            /\ status[job[v].recipient] = "active"
        BY <3>3, JobTypes DEF IInv, Heir
      <4> QED  BY <3>3, <4>1, <1>2, <1>3
    <3> QED  BY <3>1, <3>2, <3>3
  <2> QED  BY <2>1 DEF JobsStand, JobOK
<1>6. RunStands'
  <2>1. \A v \in resume : v \in Users /\ v # u /\ status[v] = "deleting"
    BY <1>2 DEF IInv, RunStands, Types
  <2> QED  BY <2>1, <1>1, <1>3 DEF IInv, RunStands
<1>7. RowsStand' /\ FilesStand'
  BY <1>1 DEF IInv, RowsStand, FilesStand, RowsUnique, IsRow
<1>8. ManifestStands'
  <2>1. \A v \in Users : status'[v] = "deleting" =>
          v # u /\ status[v] = "deleting" /\ job'[v] = job[v]
    BY <1>3
  <2> QED  BY <2>1, <1>1 DEF IInv, ManifestStands, Live, IsRow
<1>9. CopiesStand' /\ CleanedUp'  BY <1>1 DEF CopiesStand, CleanedUp
<1>10. /\ \A id \in Ids : IsRow(id) => rows[id].owner # u /\ rows[id].uploader # u
       /\ \A c \in Contents : trash[u][c] = 0
       /\ \A f \in files : f.owner # u
  BY <1>2 DEF IInv, CleanedUp, ManifestStands
<1>11. ContentKept'
  <2>1. ASSUME NEW v \in Users, v # u, Dissolving(v) PROVE Dissolving(v)'
    BY <2>1, <1>3 DEF Dissolving
  <2>2. ASSUME NEW id \in Ids, Live(id), ~rows[id].path.staged
        PROVE  (Readable(id) \/ \E v \in Users : rows[id].owner = v /\ Dissolving(v))'
    <3>1. rows[id].owner # u  BY <2>2, <1>10 DEF Live
    <3>2. Readable(id) \/ \E v \in Users : rows[id].owner = v /\ Dissolving(v)
      BY <2>2 DEF IInv, ContentKept
    <3> QED  BY <3>1, <3>2, <2>1, <1>1 DEF Readable
  <2> QED  BY <2>2, <1>1 DEF IInv, ContentKept, Live, IsRow
<1>12. NothingRemains'
  BY <1>1, <1>3, <1>10 DEF IInv, NothingRemains, IsRow
<1> QED  BY <1>4, <1>5, <1>6, <1>7, <1>8, <1>9, <1>11, <1>12 DEF IInv

-----------------------------------------------------------------------------
(* Errors, starts, and the theorems.                                        *)

LEMMA ServerKeeps ==
  ASSUME IInv, Fail \/ Crash \/ Serve \/ \E rotating \in BOOLEAN : StartUp(rotating)
  PROVE  IInv'
<1>1. Types'  BY ServerTypes DEF IInv
<1>2. UNCHANGED <<hashed, status, rows, trash, blobs, files, job>>
  BY DEF Fail, Crash, Serve, StartUp
<1>3. run' = None
  BY DEF Fail, Crash, Serve, StartUp, IInv, RunStands
<1>4. RunStands'
  <2>1. CASE Fail  BY <2>1, <1>3 DEF Fail, IInv, RunStands
  <2>2. CASE Crash  BY <2>2 DEF Crash, RunStands
  <2>3. CASE Serve  BY <2>3 DEF Serve, RunStands
  <2>4. CASE \E rotating \in BOOLEAN : StartUp(rotating)
    <3>1. \A u \in Users : job[u] # None => status[u] = "deleting"
      BY DEF IInv, JobsStand
    <3>2. \A u \in resume' : status[u] = "deleting"  BY <2>4, <3>1 DEF StartUp
    <3> QED  BY <2>4, <3>2, <1>2, <1>3 DEF StartUp, RunStands
  <2> QED  BY <2>1, <2>2, <2>3, <2>4
<1> QED  BY <1>1, <1>2, <1>3, <1>4, StopKeeps

LEMMA InitIInv == ASSUME Init PROVE IInv
<1>1. Types  BY ConstantsAssumption DEF Init, Types
<1>2. JobsStand /\ RunStands /\ CopiesStand /\ CleanedUp /\ ManifestStands
  BY DEF Init, JobsStand, RunStands, CopiesStand, CleanedUp, ManifestStands
<1>3. RowsStand /\ FilesStand
  BY DEF Init, RowsStand, RowsUnique, FilesStand, IsRow
<1>4. ContentKept /\ NothingRemains
  BY DEF Init, ContentKept, NothingRemains, Live, IsRow
<1> QED  BY <1>1, <1>2, <1>3, <1>4 DEF IInv

LEMMA StepKeeps == ASSUME IInv, [Next]_vars PROVE IInv'
<1>1. ASSUME NEW u \in Users, NEW owner \in Owners, NEW n \in Names,
             NEW c \in Contents, NEW id \in Ids, Upload(u, owner, n, c, id)
      PROVE  IInv'
  BY <1>1, UploadKeeps
<1>2. ASSUME NEW u \in Users, NEW id \in Ids, NEW flag \in BOOLEAN,
             SetShared(u, id, flag)
      PROVE  IInv'
  BY <1>2, SetSharedKeeps
<1>3. ASSUME NEW u \in Users, NEW id \in Ids, Discard(u, id) PROVE IInv'
  BY <1>3, DiscardKeeps
<1>4. ASSUME NEW u \in Users, Reindex(u) PROVE IInv'
  BY <1>4, ReindexKeeps
<1>5. ASSUME NEW a \in Users, NEW u \in Users, StartDeletion(a, u) PROVE IInv'
  BY <1>5, StartDeletionKeeps
<1>6. ASSUME NEW u \in Users, Resume(u) \/ \E a \in Users : Retry(a, u) PROVE IInv'
  BY <1>6, AgainKeeps
<1>7. ASSUME NEW u \in Users, Step(u) PROVE IInv'
  <2>1. ASSUME NEW id \in Ids, \/ StageCopy(u, id) \/ PlaceCopy(u, id)
                               \/ MissSource(u, id) \/ AcceptCopy(u, id)
        PROVE  IInv'
    BY <2>1, CopyLoopKeeps
  <2>2. CASE Transfer(u)  BY <2>2, TransferKeeps
  <2>3. CASE RemoveFiles(u)  BY <2>3, RemoveFilesKeeps
  <2>4. CASE RemoveRows(u)  BY <2>4, RemoveRowsKeeps
  <2>5. ASSUME NEW c \in Contents, RemoveBlob(u, c) PROVE IInv'
    BY <2>5, RemoveBlobKeeps
  <2>6. CASE Finish(u)  BY <2>6, FinishKeeps
  <2> QED  BY <1>7, <2>1, <2>2, <2>3, <2>4, <2>5, <2>6 DEF Step
<1>8. CASE Fail \/ Crash \/ Serve \/ \E rotating \in BOOLEAN : StartUp(rotating)
  BY <1>8, ServerKeeps
<1>9. CASE UNCHANGED vars
  <2>1. UNCHANGED <<hashed, status, rows, trash, blobs, files, job, run, server, resume>>
    BY <1>9 DEF vars
  <2>2. Types' /\ RowsStand' /\ FilesStand'
    BY <2>1 DEF IInv, Types, RowsStand, FilesStand, RowsUnique, IsRow
  <2>3. JobsStand' /\ RunStands'
    BY <2>1 DEF IInv, JobsStand, RunStands, JobOK
  <2>4. ManifestStands' /\ CleanedUp'
    BY <2>1 DEF IInv, ManifestStands, CleanedUp, Live, IsRow
  <2>5. CopiesStand'
    BY <2>1 DEF IInv, CopiesStand, Copy, Heir
  <2>6. ContentKept' /\ NothingRemains'
    BY <2>1 DEF IInv, ContentKept, NothingRemains, Readable, Dissolving, Live, IsRow
  <2> QED  BY <2>2, <2>3, <2>4, <2>5, <2>6 DEF IInv
<1> QED
  BY <1>1, <1>2, <1>3, <1>4, <1>5, <1>6, <1>7, <1>8, <1>9 DEF Next

LEMMA SpecIInv == Spec => []IInv
<1>1. Init => IInv  BY InitIInv
<1>2. IInv /\ [Next]_vars => IInv'  BY StepKeeps
<1> QED  BY <1>1, <1>2, PTL DEF Spec

(* Whatever fails and whoever acts between two attempts, live rows keep     *)
(* their content, and so do the trash entries of others (finishDeletion and *)
(* the handlers under storageMutex).                                        *)
THEOREM DeletionsKeepContent == Spec => []ContentKept
<1>1. IInv => ContentKept  BY DEF IInv
<1> QED  BY <1>1, SpecIInv, PTL

(* An account that is gone leaves no row, no trash, no file and no job      *)
(* (finishDeletion, to the commit that removes the account).                *)
THEOREM GoneAccountsLeaveNothing == Spec => []NothingRemains
<1>1. IInv => NothingRemains  BY DEF IInv
<1> QED  BY <1>1, SpecIInv, PTL

SharedKept(id) ==
  Offered(id) => /\ rows'[id] # None
                 /\ rows'[id].content = rows[id].content
                      \/ status[rows'[id].uploader] = "active"

LEMMA SameRowKept ==
  ASSUME NEW id \in Ids, rows'[id] = rows[id]
  PROVE  SharedKept(id)
  BY DEF SharedKept, Offered, Live, IsRow

LEMMA HandlersKeepShared ==
  ASSUME IInv, NEW id \in Ids, NEW u \in Users
  PROVE  /\ \A owner \in Owners, n \in Names, c \in Contents, i \in Ids :
              Upload(u, owner, n, c, i) => SharedKept(id)
         /\ \A i \in Ids, flag \in BOOLEAN : SetShared(u, i, flag) => SharedKept(id)
         /\ \A i \in Ids : Discard(u, i) => SharedKept(id)
         /\ Reindex(u) => SharedKept(id)
<1>1. ASSUME NEW owner \in Owners, NEW n \in Names, NEW c \in Contents, NEW i \in Ids,
             Upload(u, owner, n, c, i)
      PROVE  SharedKept(id)
  <2> DEFINE row == [owner |-> owner, uploader |-> u, path |-> Plain(n),
                     content |-> c, shared |-> IsRow(i) /\ rows[i].shared,
                     deleted |-> FALSE]
  <2>1. rows' = [rows EXCEPT ![i] = row] /\ status[u] = "active"
    BY <1>1 DEF Upload, Handler, Authorised
  <2>2. row \in Rows
    <3>1. (IsRow(i) /\ rows[i].shared) \in BOOLEAN  BY RowTypes DEF IInv
    <3> QED  BY <3>1, PathTypes DEF Rows
  <2>3. row.uploader = u  OBVIOUS
  <2> HIDE DEF row
  <2>4. CASE id = i
    <3>1. rows'[id] = row  BY <2>1, <2>4 DEF IInv, Types
    <3> QED  BY <3>1, <2>1, <2>2, <2>3, NoneAssumption DEF SharedKept
  <2>5. CASE id # i
    <3>1. rows'[id] = rows[id]  BY <2>1, <2>5 DEF IInv, Types
    <3> QED  BY <3>1, SameRowKept
  <2> QED  BY <2>4, <2>5
<1>2. ASSUME NEW i \in Ids, Types', Live(i), rows'[i].content = rows[i].content,
             IsRow(i)', \A k \in Ids \ {i} : rows'[k] = rows[k]
      PROVE  SharedKept(id)
  <2>1. CASE id = i  BY <2>1, <1>2 DEF SharedKept, IsRow
  <2>2. CASE id # i  BY <2>2, <1>2, SameRowKept
  <2> QED  BY <2>1, <2>2
<1>3. ASSUME NEW i \in Ids, NEW flag \in BOOLEAN, SetShared(u, i, flag)
      PROVE  SharedKept(id)
  <2>1. Live(i) /\ rows' = [rows EXCEPT ![i].shared = flag]  BY <1>3 DEF SetShared
  <2>2. rows[i] \in Rows  BY <2>1, RowTypes DEF IInv, Live
  <2>3. rows'[i].content = rows[i].content /\ rows'[i] \in Rows
    BY <2>1, <2>2 DEF IInv, Types, Rows
  <2>4. IsRow(i)'  BY <2>3, NoneAssumption DEF IsRow
  <2>5. \A k \in Ids \ {i} : rows'[k] = rows[k]  BY <2>1 DEF IInv, Types
  <2>6. Types'  BY <1>3, HandlerTypes DEF IInv
  <2> QED  BY <2>1, <2>3, <2>4, <2>5, <2>6, <1>2
<1>4. ASSUME NEW i \in Ids, Discard(u, i) PROVE SharedKept(id)
  <2>1. Live(i) /\ rows' = [rows EXCEPT ![i].deleted = TRUE]  BY <1>4 DEF Discard
  <2>2. rows[i] \in Rows  BY <2>1, RowTypes DEF IInv, Live
  <2>3. rows'[i].content = rows[i].content /\ rows'[i] \in Rows
    BY <2>1, <2>2 DEF IInv, Types, Rows
  <2>4. IsRow(i)'  BY <2>3, NoneAssumption DEF IsRow
  <2>5. \A k \in Ids \ {i} : rows'[k] = rows[k]  BY <2>1 DEF IInv, Types
  <2>6. Types'  BY <1>4, HandlerTypes DEF IInv
  <2> QED  BY <2>1, <2>3, <2>4, <2>5, <2>6, <1>2
<1>5. ASSUME Reindex(u) PROVE SharedKept(id)
  <2>1. status[u] = "active" /\ ~hashed  BY <1>5, ReindexFacts
  <2>2. \/ rows'[id] = rows[id]
        \/ /\ rows'[id] = None /\ Live(id) /\ rows[id].owner = u
           /\ \A f \in files : f.owner = u => f.path # rows[id].path
        \/ rows'[id].uploader = u /\ rows'[id] # None
    BY <1>5, ReindexFacts
  <2>3. CASE rows'[id] = rows[id]  BY <2>3, SameRowKept
  <2>4. CASE /\ Live(id) /\ rows[id].owner = u
             /\ \A f \in files : f.owner = u => f.path # rows[id].path
    <3>1. ~Readable(id)
      <4> DEFINE f == [owner |-> rows[id].owner, path |-> rows[id].path,
                       content |-> rows[id].content]
      <4>1. f.owner = u /\ f.path = rows[id].path  BY <2>4
      <4>2. f \notin files  BY <4>1, <2>4
      <4> QED  BY <4>2, <2>1 DEF Readable
    <3>2. ~Dissolving(u)  BY <2>1 DEF Dissolving
    <3>3. rows[id].path.staged  BY <3>1, <3>2, <2>4 DEF IInv, ContentKept
    <3> QED  BY <3>3 DEF SharedKept, Offered
  <2>5. CASE rows'[id].uploader = u /\ rows'[id] # None
    BY <2>1, <2>5 DEF SharedKept
  <2> QED  BY <2>2, <2>3, <2>4, <2>5
<1> QED  BY <1>1, <1>3, <1>4, <1>5

LEMMA DeletionsKeepShared ==
  ASSUME IInv, NEW id \in Ids, NEW u \in Users
  PROVE  /\ Transfer(u) => SharedKept(id)
         /\ RemoveRows(u) => SharedKept(id)
<1>1. ASSUME Transfer(u) PROVE SharedKept(id)
  <2>1. Doing(u, "copy")  BY <1>1 DEF Transfer
  <2>2. \/ rows'[id] = rows[id]
        \/ id \in job[u].ids /\ rows'[id] = Transferred(id, u)
    BY <1>1 DEF Transfer
  <2>3. CASE rows'[id] = rows[id]  BY <2>3, SameRowKept
  <2>4. CASE id \in job[u].ids /\ rows'[id] = Transferred(id, u)
    BY <2>1, <2>4, TransferFacts DEF SharedKept
  <2> QED  BY <2>2, <2>3, <2>4
<1>2. ASSUME RemoveRows(u) PROVE SharedKept(id)
  <2>1. status[u] = "deleting" /\ job[u].phase = "cleanup"
    BY <1>2, CleanFacts DEF RemoveRows, IInv
  <2>2. CASE rows[id].owner = u
    <3>1. u # Shared  BY ConstantsAssumption
    <3>2. Live(id) => ~rows[id].shared
      BY <2>1, <2>2 DEF IInv, ManifestStands, Live
    <3> QED  BY <2>2, <3>1, <3>2 DEF SharedKept, Offered
  <2>3. CASE rows[id].owner # u
    <3>1. rows'[id] = rows[id]  BY <1>2, <2>3 DEF RemoveRows
    <3> QED  BY <3>1, SameRowKept
  <2> QED  BY <2>2, <2>3
<1> QED  BY <1>1, <1>2

(* A file others can see stays through the deletion of its owner, and only  *)
(* an account that is not in deletion writes over it (the manifest, the     *)
(* transaction, the removal of rows, and rebuildIndex between attempts).    *)
THEOREM SharedFilesSurvive == Spec => SharedSurvives
<1>1. ASSUME IInv, [Next]_vars, NEW id \in Ids PROVE SharedKept(id)
  <2>1. CASE UNCHANGED rows
    <3>1. rows'[id] = rows[id]  BY <2>1
    <3> QED  BY <3>1, SameRowKept
  <2>2. ASSUME NEW u \in Users, Step(u) PROVE SharedKept(id)
    <3>1. CASE Transfer(u) \/ RemoveRows(u)  BY <3>1, <1>1, DeletionsKeepShared
    <3>2. CASE ~(Transfer(u) \/ RemoveRows(u))
      <4>1. UNCHANGED rows
        BY <2>2, <3>2 DEF Step, StageCopy, PlaceCopy, MissSource, AcceptCopy,
                          RemoveFiles, RemoveBlob, Finish
      <4> QED  BY <4>1, <2>1
    <3> QED  BY <3>1, <3>2
  <2>3. ASSUME NEW u \in Users, NEW owner \in Owners, NEW n \in Names,
               NEW c \in Contents, NEW i \in Ids, Upload(u, owner, n, c, i)
        PROVE  SharedKept(id)
    BY <2>3, <1>1, HandlersKeepShared
  <2>4. ASSUME NEW u \in Users, NEW i \in Ids, NEW flag \in BOOLEAN,
               SetShared(u, i, flag) \/ Discard(u, i) \/ Reindex(u)
        PROVE  SharedKept(id)
    BY <2>4, <1>1, HandlersKeepShared
  <2>5. ASSUME NEW a \in Users, NEW u \in Users,
               StartDeletion(a, u) \/ Retry(a, u) \/ Resume(u)
        PROVE  SharedKept(id)
    <3>1. UNCHANGED rows  BY <2>5 DEF StartDeletion, Retry, Resume
    <3> QED  BY <3>1, <2>1
  <2>6. CASE Fail \/ Crash \/ Serve \/ \E rotating \in BOOLEAN : StartUp(rotating)
    <3>1. UNCHANGED rows  BY <2>6 DEF Fail, Crash, Serve, StartUp
    <3> QED  BY <3>1, <2>1
  <2>7. CASE UNCHANGED vars  BY <2>1, <2>7 DEF vars
  <2>8. CASE \E u \in Users : Reindex(u)  BY <2>8, <1>1, HandlersKeepShared
  <2>9. CASE \E u \in Users, i \in Ids : Discard(u, i)
    BY <2>9, <1>1, HandlersKeepShared
  <2> QED
    BY <1>1, <2>2, <2>3, <2>4, <2>5, <2>6, <2>7, <2>8, <2>9 DEF Next
<1>2. IInv /\ [Next]_vars =>
        [\A id \in Ids : Offered(id) =>
           /\ rows'[id] # None
           /\ rows'[id].content = rows[id].content
                \/ status[rows'[id].uploader] = "active"]_vars
  BY <1>1 DEF SharedKept
<1> QED  BY <1>2, SpecIInv, PTL DEF Spec, SharedSurvives

-----------------------------------------------------------------------------
(* Types and the recipient's room.                                          *)

(* What was reserved is what the manifest takes up, as long as nobody has   *)
(* uploaded over one of its entries.                                        *)
RoomStands ==
  \A u \in Users : status[u] = "deleting" =>
    /\ job[u].room \in Nat
    /\ job[u].phase = "copying" /\ (\A id \in job[u].ids : rows[id].uploader = u)
         => job[u].room = RowBytes(job[u].ids)

RInv == IInv /\ RoomStands /\ faults \in Nat

(* Rows take up a number of bytes. *)
LEMMA RowBytesType ==
  ASSUME Types, NEW S \in SUBSET Ids, \A id \in S : IsRow(id)
  PROVE  /\ IsFiniteSet(S) /\ RowBytes(S) \in Nat
         /\ \A id \in S : Size[rows[id].content] \in Nat
<1>1. IsFiniteSet(S)  BY ConstantsAssumption, FS_Subset
<1>2. \A id \in S : Size[rows[id].content] \in Nat
  BY RowTypes, ConstantsAssumption
<1> DEFINE g == [id \in S |-> Size[rows[id].content]]
<1>3. \A id \in S : g[id] \in Nat  BY <1>2
<1>4. Total(g, S) \in Nat
  <2> HIDE DEF g
  <2> QED  BY <1>1, <1>3, TotalType
<1> QED  BY <1>1, <1>2, <1>4 DEF RowBytes

(* A row keeps its content and uploader, or goes, or an account that is not *)
(* in deletion has written it.                                              *)
RowStays(id) ==
  \/ rows'[id] = rows[id]
  \/ rows'[id] = None
  \/ status[rows'[id].uploader] = "active"
  \/ /\ rows'[id].uploader = rows[id].uploader
     /\ rows'[id].content = rows[id].content

LEMMA HandledRowsStay ==
  ASSUME IInv, NEW id \in Ids, NEW u \in Users
  PROVE  /\ \A owner \in Owners, n \in Names, c \in Contents, i \in Ids :
              Upload(u, owner, n, c, i) => RowStays(id)
         /\ \A i \in Ids, flag \in BOOLEAN : SetShared(u, i, flag) => RowStays(id)
         /\ \A i \in Ids : Discard(u, i) => RowStays(id)
         /\ Reindex(u) => RowStays(id)
<1>1. ASSUME NEW owner \in Owners, NEW n \in Names, NEW c \in Contents, NEW i \in Ids,
             Upload(u, owner, n, c, i)
      PROVE  RowStays(id)
  <2> DEFINE row == [owner |-> owner, uploader |-> u, path |-> Plain(n),
                     content |-> c, shared |-> IsRow(i) /\ rows[i].shared,
                     deleted |-> FALSE]
  <2>1. rows' = [rows EXCEPT ![i] = row] /\ status[u] = "active"
    BY <1>1 DEF Upload, Handler, Authorised
  <2>2. row.uploader = u  OBVIOUS
  <2> HIDE DEF row
  <2>3. rows'[id] = row \/ rows'[id] = rows[id]  BY <2>1 DEF IInv, Types
  <2> QED  BY <2>1, <2>2, <2>3 DEF RowStays
<1>2. ASSUME NEW i \in Ids, NEW flag \in BOOLEAN, SetShared(u, i, flag)
      PROVE  RowStays(id)
  <2>1. Live(i) /\ rows' = [rows EXCEPT ![i].shared = flag]  BY <1>2 DEF SetShared
  <2>2. rows[i] \in Rows  BY <2>1, RowTypes DEF IInv, Live
  <2>3. /\ rows'[i].content = rows[i].content /\ rows'[i].uploader = rows[i].uploader
        /\ id # i => rows'[id] = rows[id]
    BY <2>1, <2>2 DEF IInv, Types, Rows
  <2> QED  BY <2>3 DEF RowStays
<1>3. ASSUME NEW i \in Ids, Discard(u, i) PROVE RowStays(id)
  <2>1. Live(i) /\ rows' = [rows EXCEPT ![i].deleted = TRUE]  BY <1>3 DEF Discard
  <2>2. rows[i] \in Rows  BY <2>1, RowTypes DEF IInv, Live
  <2>3. /\ rows'[i].content = rows[i].content /\ rows'[i].uploader = rows[i].uploader
        /\ id # i => rows'[id] = rows[id]
    BY <2>1, <2>2 DEF IInv, Types, Rows
  <2> QED  BY <2>3 DEF RowStays
<1>4. ASSUME Reindex(u) PROVE RowStays(id)
  <2>1. status[u] = "active"  BY <1>4, ReindexFacts
  <2>2. \/ rows'[id] = rows[id] \/ rows'[id] = None
        \/ rows'[id].uploader = u
    BY <1>4, ReindexFacts
  <2> QED  BY <2>1, <2>2 DEF RowStays
<1> QED  BY <1>1, <1>2, <1>3, <1>4

LEMMA RowsStay ==
  ASSUME IInv, [Next]_vars, NEW id \in Ids
  PROVE  RowStays(id)
<1>1. CASE UNCHANGED rows
  <2>1. rows'[id] = rows[id]  BY <1>1
  <2> QED  BY <2>1 DEF RowStays
<1>2. ASSUME NEW u \in Users, Transfer(u) PROVE RowStays(id)
  <2>1. Doing(u, "copy")  BY <1>2 DEF Transfer
  <2>2. status[Heir(u)] = "active"  BY <2>1, CopyFacts DEF IInv
  <2>3. \/ rows'[id] = rows[id]
        \/ id \in job[u].ids /\ rows'[id] = Transferred(id, u)
    BY <1>2 DEF Transfer
  <2>4. CASE rows'[id] = rows[id]  BY <2>4 DEF RowStays
  <2>5. CASE id \in job[u].ids /\ rows'[id] = Transferred(id, u)
    <3>1. rows'[id].uploader = Heir(u)  BY <2>1, <2>5, TransferFacts
    <3> QED  BY <3>1, <2>2 DEF RowStays
  <2> QED  BY <2>3, <2>4, <2>5
<1>3. ASSUME NEW u \in Users, RemoveRows(u) PROVE RowStays(id)
  <2>1. rows'[id] = None \/ rows'[id] = rows[id]  BY <1>3 DEF RemoveRows
  <2> QED  BY <2>1 DEF RowStays
<1>4. ASSUME NEW u \in Users, Step(u) PROVE RowStays(id)
  <2>1. CASE Transfer(u) \/ RemoveRows(u)  BY <2>1, <1>2, <1>3
  <2>2. CASE ~(Transfer(u) \/ RemoveRows(u))
    <3>1. UNCHANGED rows
      BY <1>4, <2>2 DEF Step, StageCopy, PlaceCopy, MissSource, AcceptCopy,
                        RemoveFiles, RemoveBlob, Finish
    <3> QED  BY <3>1, <1>1
  <2> QED  BY <2>1, <2>2
<1>5. ASSUME NEW u \in Users, NEW owner \in Owners, NEW n \in Names,
             NEW c \in Contents, NEW i \in Ids, Upload(u, owner, n, c, i)
      PROVE  RowStays(id)
  BY <1>5, HandledRowsStay
<1>6. ASSUME NEW u \in Users, NEW i \in Ids, NEW flag \in BOOLEAN,
             SetShared(u, i, flag)
      PROVE  RowStays(id)
  BY <1>6, HandledRowsStay
<1>7. ASSUME NEW u \in Users, NEW i \in Ids, Discard(u, i) PROVE RowStays(id)
  BY <1>7, HandledRowsStay
<1>8. ASSUME NEW u \in Users, Reindex(u) PROVE RowStays(id)
  BY <1>8, HandledRowsStay
<1>9. ASSUME NEW a \in Users, NEW u \in Users,
             StartDeletion(a, u) \/ Retry(a, u) \/ Resume(u)
      PROVE  RowStays(id)
  <2>1. UNCHANGED rows  BY <1>9 DEF StartDeletion, Retry, Resume
  <2> QED  BY <2>1, <1>1
<1>10. CASE Fail \/ Crash \/ Serve \/ \E rotating \in BOOLEAN : StartUp(rotating)
  <2>1. UNCHANGED rows  BY <1>10 DEF Fail, Crash, Serve, StartUp
  <2> QED  BY <2>1, <1>1
<1>11. CASE UNCHANGED vars  BY <1>1, <1>11 DEF vars
<1> QED
  BY <1>4, <1>5, <1>6, <1>7, <1>8, <1>9, <1>10, <1>11 DEF Next

(* How the job of an account changes. *)
JobStep(v) ==
  \/ job'[v] = job[v] /\ status'[v] = status[v]
  \/ \E a \in Users : StartDeletion(a, v)
  \/ /\ Transfer(v) /\ ~Conflict(v) /\ Doing(v, "copy")
     /\ job'[v] = [job[v] EXCEPT !.phase = "cleanup"]
  \/ job'[v] = None /\ status'[v] = "gone"

LEMMA JobSteps ==
  ASSUME IInv, [Next]_vars, NEW v \in Users
  PROVE  JobStep(v)
<1> USE DEF JobStep
<1>1. CASE UNCHANGED <<status, job>>
  BY <1>1
<1>2. ASSUME NEW u \in Users, Transfer(u) PROVE JobStep(v)
  <2>1. CASE Conflict(u)  BY <1>1, <1>2, <2>1 DEF Transfer
  <2>2. CASE ~Conflict(u)
    <3>1. /\ job' = [job EXCEPT ![u].phase = "cleanup"] /\ status' = status
          /\ Doing(u, "copy")
      BY <1>2, <2>2 DEF Transfer
    <3>2. CASE u = v  BY <1>2, <2>2, <3>1, <3>2 DEF IInv, Types
    <3>3. CASE u # v  BY <3>1, <3>3 DEF IInv, Types
    <3> QED  BY <3>2, <3>3
  <2> QED  BY <2>1, <2>2
<1>3. ASSUME NEW u \in Users, Finish(u) PROVE JobStep(v)
  <2>1. job' = [job EXCEPT ![u] = None] /\ status' = [status EXCEPT ![u] = "gone"]
    BY <1>3 DEF Finish
  <2>2. CASE u = v  BY <2>1, <2>2 DEF IInv, Types
  <2>3. CASE u # v  BY <2>1, <2>3 DEF IInv, Types
  <2> QED  BY <2>2, <2>3
<1>4. ASSUME NEW a \in Users, NEW u \in Users, StartDeletion(a, u) PROVE JobStep(v)
  <2>1. CASE u = v  BY <1>4, <2>1
  <2>2. CASE u # v
    <3>1. job'[v] = job[v] /\ status'[v] = status[v]
      BY <1>4, <2>2 DEF StartDeletion, IInv, Types
    <3> QED  BY <3>1
  <2> QED  BY <2>1, <2>2
<1> HIDE DEF JobStep
<1>5. ASSUME UNCHANGED <<status, job>> PROVE JobStep(v)
  BY <1>5, <1>1 DEF JobStep
<1>6. ASSUME NEW u \in Users, Step(u) PROVE JobStep(v)
  <2>1. CASE Transfer(u)  BY <2>1, <1>2
  <2>2. CASE Finish(u)  BY <2>2, <1>3
  <2>3. CASE ~Transfer(u) /\ ~Finish(u)
    <3>1. UNCHANGED <<status, job>>
      BY <1>6, <2>3 DEF Step, StageCopy, PlaceCopy, MissSource, AcceptCopy,
                        RemoveFiles, RemoveRows, RemoveBlob
    <3> QED  BY <3>1, <1>5
  <2> QED  BY <2>1, <2>2, <2>3
<1>7. ASSUME NEW u \in Users, NEW owner \in Owners, NEW n \in Names,
             NEW c \in Contents, NEW i \in Ids, Upload(u, owner, n, c, i)
      PROVE  JobStep(v)
  <2>1. UNCHANGED <<status, job>>  BY <1>7 DEF Upload
  <2> QED  BY <2>1, <1>5
<1>8. ASSUME NEW u \in Users, NEW i \in Ids, NEW flag \in BOOLEAN,
             SetShared(u, i, flag)
      PROVE  JobStep(v)
  <2>1. UNCHANGED <<status, job>>  BY <1>8 DEF SetShared
  <2> QED  BY <2>1, <1>5
<1>9. ASSUME NEW u \in Users, NEW i \in Ids, Discard(u, i) PROVE JobStep(v)
  <2>1. UNCHANGED <<status, job>>  BY <1>9 DEF Discard
  <2> QED  BY <2>1, <1>5
<1>10. ASSUME NEW u \in Users, Reindex(u) PROVE JobStep(v)
  <2>1. UNCHANGED <<status, job>>  BY <1>10 DEF Reindex
  <2> QED  BY <2>1, <1>5
<1>11. ASSUME NEW u \in Users, Resume(u) \/ \E a \in Users : Retry(a, u) PROVE JobStep(v)
  <2>1. UNCHANGED <<status, job>>  BY <1>11 DEF Retry, Resume
  <2> QED  BY <2>1, <1>5
<1>12. CASE Fail \/ Crash \/ Serve \/ \E rotating \in BOOLEAN : StartUp(rotating)
  <2>1. UNCHANGED <<status, job>>  BY <1>12 DEF Fail, Crash, Serve, StartUp
  <2> QED  BY <2>1, <1>5
<1>13. CASE UNCHANGED vars
  <2>1. UNCHANGED <<status, job>>  BY <1>13 DEF vars
  <2> QED  BY <2>1, <1>5
<1>14. CASE \/ \E u \in Users, i \in Ids, flag \in BOOLEAN : SetShared(u, i, flag)
            \/ \E u \in Users, i \in Ids : Discard(u, i)
  BY <1>8, <1>9, <1>14
<1>15. CASE \/ \E a, u \in Users : StartDeletion(a, u)
            \/ \E u \in Users : Resume(u) \/ \E a \in Users : Retry(a, u)
  BY <1>4, <1>11, <1>15
<1>16. CASE \E u \in Users, owner \in Owners, n \in Names, c \in Contents,
                i \in Ids : Upload(u, owner, n, c, i)
  BY <1>7, <1>16
<1>17. CASE \E u \in Users : Step(u) \/ Reindex(u)
  BY <1>6, <1>10, <1>17
<1> QED
  BY <1>12, <1>13, <1>14, <1>15, <1>16, <1>17 DEF Next

LEMMA StepKeepsRoom ==
  ASSUME IInv, IInv', RoomStands, [Next]_vars
  PROVE  RoomStands'
<1> SUFFICES ASSUME NEW v \in Users, status'[v] = "deleting"
             PROVE  /\ job'[v].room \in Nat
                    /\ job'[v].phase = "copying"
                         /\ (\A id \in job'[v].ids : rows'[id].uploader = v)
                         => job'[v].room = RowBytes(job[v].ids)'
  BY DEF RoomStands
<1>1. CASE job'[v] = job[v] /\ status'[v] = status[v]
  <2>1. JobOK(job[v]) /\ job[v].ids \in SUBSET Ids
    BY <1>1 DEF IInv, JobsStand, JobOK
  <2>2. ASSUME job[v].phase = "copying", \A id \in job[v].ids : rows'[id].uploader = v
        PROVE  job[v].room = RowBytes(job[v].ids)'
    <3> DEFINE S == job[v].ids
               g == [id \in S |-> Size[rows[id].content]]
               h == [id \in S |-> Size[rows'[id].content]]
    <3>1. \A id \in S : id \in Ids /\ IsRow(id)'
      BY <1>1, <2>1, <2>2 DEF IInv, ManifestStands, Live
    <3>2. ASSUME NEW id \in S
          PROVE  rows[id].uploader = v /\ rows'[id].content = rows[id].content
      <4>1. rows'[id] # None /\ status[rows'[id].uploader] # "active"
        BY <1>1, <2>2, <3>1 DEF IsRow
      <4>2. RowStays(id)  BY <3>1, RowsStay
      <4> QED  BY <2>2, <4>1, <4>2 DEF RowStays
    <3>3. job[v].room = RowBytes(S)
      BY <1>1, <2>2, <3>2 DEF RoomStands
    <3>4. \A id \in S : g[id] = h[id]  BY <3>2
    <3>5. Total(g, S) = Total(h, S)
      <4> HIDE DEF g, h, S
      <4> QED  BY <3>4, TotalSame
    <3>6. RowBytes(S) = Total(g, S)  BY DEF RowBytes
    <3>7. RowBytes(job[v].ids)' = Total(h, S)  BY <1>1 DEF RowBytes
    <3> QED  BY <1>1, <3>3, <3>5, <3>6, <3>7
  <2> QED  BY <1>1, <2>2 DEF RoomStands
<1>2. ASSUME NEW a \in Users, StartDeletion(a, v)
      PROVE  job'[v].room \in Nat /\ job'[v].room = RowBytes(job[v].ids)'
  <2>1. /\ job'[v].ids = Manifest(v) /\ job'[v].room = RowBytes(Manifest(v))
        /\ rows' = rows
    BY <1>2 DEF StartDeletion, TransferBytes, IInv, Types
  <2>2. Manifest(v) \in SUBSET Ids /\ \A id \in Manifest(v) : IsRow(id)
    BY DEF Manifest, Live
  <2>3. RowBytes(Manifest(v)) \in Nat  BY <2>2, RowBytesType DEF IInv
  <2>4. RowBytes(job[v].ids)' = RowBytes(Manifest(v))  BY <2>1 DEF RowBytes
  <2> QED  BY <2>1, <2>3, <2>4
<1>3. CASE /\ Doing(v, "copy")
           /\ job'[v] = [job[v] EXCEPT !.phase = "cleanup"]
  <2>1. status[v] = "deleting" /\ JobOK(job[v])  BY <1>3, CopyFacts DEF IInv
  <2>2. job'[v].room = job[v].room /\ job'[v].phase = "cleanup"
    BY <1>3, <2>1 DEF JobOK
  <2> QED  BY <2>1, <2>2 DEF RoomStands
<1> QED  BY <1>1, <1>2, <1>3, JobSteps DEF JobStep

LEMMA StepKeepsFaults ==
  ASSUME faults \in Nat, [Next]_vars
  PROVE  faults' \in Nat
<1>1. CASE Fail \/ Crash  BY <1>1 DEF Fail, Crash
<1>2. CASE UNCHANGED faults  BY <1>2
<1>3. ASSUME NEW u \in Users, Step(u) PROVE UNCHANGED faults
  BY <1>3 DEF Step, StageCopy, PlaceCopy, MissSource, AcceptCopy, Transfer,
              RemoveFiles, RemoveRows, RemoveBlob, Finish
<1>4. ASSUME NEW u \in Users, NEW owner \in Owners, NEW n \in Names,
             NEW c \in Contents, NEW i \in Ids, Upload(u, owner, n, c, i)
      PROVE  UNCHANGED faults
  BY <1>4 DEF Upload
<1>5. ASSUME NEW u \in Users, NEW i \in Ids, NEW flag \in BOOLEAN,
             SetShared(u, i, flag)
      PROVE  UNCHANGED faults
  BY <1>5 DEF SetShared
<1>6. ASSUME NEW u \in Users, NEW i \in Ids, Discard(u, i) PROVE UNCHANGED faults
  BY <1>6 DEF Discard
<1>7. ASSUME NEW u \in Users, Reindex(u) PROVE UNCHANGED faults
  BY <1>7 DEF Reindex
<1>8. ASSUME NEW a \in Users, NEW u \in Users,
             StartDeletion(a, u) \/ Retry(a, u) \/ Resume(u)
      PROVE  UNCHANGED faults
  BY <1>8 DEF StartDeletion, Retry, Resume
<1>9. CASE Serve \/ \E rotating \in BOOLEAN : StartUp(rotating)
  BY <1>9 DEF Serve, StartUp
<1>10. CASE UNCHANGED vars  BY <1>10 DEF vars
<1> QED
  BY <1>1, <1>2, <1>3, <1>4, <1>5, <1>6, <1>7, <1>8, <1>9, <1>10 DEF Next

LEMMA SpecRInv == Spec => []RInv
<1>1. Init => RInv
  BY InitIInv DEF RInv, RoomStands, Init
<1>2. RInv /\ [Next]_vars => RInv'
  BY StepKeeps, StepKeepsRoom, StepKeepsFaults DEF RInv
<1> QED  BY <1>1, <1>2, PTL DEF Spec

(* Rows, jobs, attempts and files have the shapes the handlers, the phases  *)
(* of finishDeletion and the UNIQUE constraint of file_index give them; the *)
(* room of a job is a number, and so is every sum it is taken from.         *)
THEOREM DeletionTypes == Spec => []TypeOK
<1>1. ASSUME RInv PROVE TypeOK
  <2>1. job \in [Users -> Jobs \cup {None}]
    <3>1. ASSUME NEW u \in Users PROVE job[u] \in Jobs \cup {None}
      <4>1. CASE status[u] # "deleting"  BY <1>1, <4>1 DEF RInv, IInv, JobsStand
      <4>2. CASE status[u] = "deleting"
        <5>1. JobOK(job[u])  BY <1>1, <4>2 DEF RInv, IInv, JobsStand
        <5>2. job[u].room \in Nat  BY <1>1, <4>2 DEF RInv, RoomStands
        <5> QED  BY <5>1, <5>2 DEF JobOK, Jobs
      <4> QED  BY <4>1, <4>2
    <3> QED  BY <3>1, <1>1 DEF RInv, IInv, Types
  <2> QED  BY <2>1, <1>1 DEF RInv, IInv, Types, RowsStand, TypeOK
<1> QED  BY <1>1, SpecRInv, PTL

(* The transaction charges the recipient with no more than the manifest.    *)
LEMMA TransferCharges ==
  ASSUME IInv, NEW u \in Users, NEW a \in Users,
         Transfer(u), ~Conflict(u), Doing(u, "copy")
  PROVE  Usage(a)' <= Usage(a) + RowBytes(job[u].ids)
<1> DEFINE ids == job[u].ids
           C == {id \in Ids : Charged(id, a)}
           D == {id \in Ids : Charged(id, a)'}
           g == [id \in Ids |-> Size[rows[id].content]]
           h == [id \in D |-> Size[rows'[id].content]]
           gC == [id \in C |-> Size[rows[id].content]]
           gI == [id \in ids |-> Size[rows[id].content]]
<1>1. /\ rows' = [id \in Ids |-> IF id \in ids THEN Transferred(id, u)
                                 ELSE rows[id]]
      /\ trash' = trash
  BY DEF Transfer
<1>2. \A id \in ids : id \in Ids /\ IsRow(id)
                       /\ Transferred(id, u).content = rows[id].content
  BY TransferFacts DEF Live
<1>3. D \subseteq C \cup ids
  <2> SUFFICES ASSUME NEW id \in Ids, Charged(id, a)', id \notin ids
               PROVE  Charged(id, a)
    OBVIOUS
  <2>1. rows'[id] = rows[id]  BY <1>1
  <2> QED  BY <2>1 DEF Charged, Live, IsRow
<1>4. \A id \in C \cup ids : id \in Ids /\ IsRow(id)
  BY <1>2 DEF Charged, Live
<1>5. \A id \in D : rows'[id].content = rows[id].content
  BY <1>1, <1>2
<1>6. /\ IsFiniteSet(C) /\ IsFiniteSet(ids) /\ IsFiniteSet(C \cup ids)
      /\ RowBytes(C) \in Nat /\ RowBytes(ids) \in Nat
      /\ \A id \in C \cup ids : Size[rows[id].content] \in Nat
  <2>1. C \cup ids \in SUBSET Ids /\ C \in SUBSET Ids /\ ids \in SUBSET Ids
    BY <1>4
  <2> HIDE DEF C, ids
  <2> QED  BY <1>4, <2>1, RowBytesType DEF IInv
<1>7. RowBytes({id \in Ids : Charged(id, a)})' = Total(h, D)
  BY DEF RowBytes
<1>8. RowBytes(C) = Total(gC, C) /\ RowBytes(ids) = Total(gI, ids)
  BY DEF RowBytes
<1>9. /\ \A id \in D : h[id] = g[id]
      /\ \A id \in C : gC[id] = g[id]
      /\ \A id \in ids : gI[id] = g[id]
      /\ \A id \in C \cup ids : g[id] \in Nat
  BY <1>4, <1>5, <1>6
<1>10. /\ Total(h, D) <= Total(g, C \cup ids)
       /\ Total(g, C \cup ids) <= Total(gC, C) + Total(gI, ids)
  <2> HIDE DEF C, D, ids, g, h, gC, gI
  <2>1. Total(h, D) = Total(g, D)  BY <1>9, TotalSame
  <2>2. Total(gC, C) = Total(g, C) /\ Total(gI, ids) = Total(g, ids)
    BY <1>9, TotalSame
  <2>3. \A id \in D : g[id] \in Nat /\ g[id] <= g[id]  BY <1>3, <1>9
  <2>4. Total(g, D) <= Total(g, C \cup ids)
    BY <1>3, <1>6, <1>9, <2>3, TotalMonotone
  <2>5. Total(g, C \cup ids) <= Total(g, C) + Total(g, ids)
    BY <1>6, <1>9, TotalUnion
  <2> QED  BY <2>1, <2>2, <2>4, <2>5
<1>11. Total(h, D) \in Nat /\ Total(g, C \cup ids) \in Nat
  <2>1. IsFiniteSet(D)  BY <1>3, <1>6, FS_Subset
  <2>2. \A id \in D : h[id] \in Nat  BY <1>3, <1>9
  <2> HIDE DEF C, D, ids, g, h
  <2> QED  BY <1>6, <1>9, <2>1, <2>2, TotalType
<1>12. TrashBytes(a)' = TrashBytes(a) /\ TrashBytes(a) \in Nat
  <2> DEFINE k == [c \in Contents |-> trash[a][c] * Size[c]]
  <2>1. TrashBytes(a)' = TrashBytes(a)  BY <1>1 DEF TrashBytes
  <2>2. \A c \in Contents : k[c] \in Nat
    <3> SUFFICES ASSUME NEW c \in Contents PROVE trash[a][c] * Size[c] \in Nat
      OBVIOUS
    <3>1. trash[a][c] \in Nat /\ Size[c] \in Nat
      BY ConstantsAssumption DEF IInv, Types
    <3>2. \A m, n \in Nat : m * n \in Nat  OBVIOUS
    <3> QED  BY <3>1, <3>2
  <2>3. TrashBytes(a) = Total(k, Contents)  BY DEF TrashBytes
  <2> HIDE DEF k
  <2>4. Total(k, Contents) \in Nat  BY <2>2, TotalType, ConstantsAssumption
  <2> QED  BY <2>1, <2>3, <2>4
<1>13. Usage(a)' = Total(h, D) + TrashBytes(a)
  BY <1>7, <1>12 DEF Usage
<1>14. Usage(a) = Total(gC, C) + TrashBytes(a)
  BY <1>8 DEF Usage
<1>15. Total(gC, C) \in Nat /\ Total(gI, ids) \in Nat
  BY <1>6, <1>8
<1>16. \A d, m, x, y, t \in Nat : d <= m /\ m <= x + y => d + t <= (x + t) + y
  OBVIOUS
<1> HIDE DEF C, D, ids, g, h, gC, gI
<1>17. Total(h, D) + TrashBytes(a)
         <= (Total(gC, C) + TrashBytes(a)) + Total(gI, ids)
  BY <1>10, <1>11, <1>12, <1>15, <1>16
<1>18. RowBytes(job[u].ids) = Total(gI, ids)  BY <1>8 DEF ids
<1> QED  BY <1>13, <1>14, <1>17, <1>18

(* What a user is charged with is a number.                                 *)
LEMMA UsageType ==
  ASSUME IInv, NEW a \in Users
  PROVE  LET C == {id \in Ids : Charged(id, a)} IN
         /\ IsFiniteSet(C)
         /\ \A id \in C : Size[rows[id].content] \in Nat
         /\ RowBytes(C) \in Nat /\ TrashBytes(a) \in Nat /\ Usage(a) \in Nat
<1> DEFINE C == {id \in Ids : Charged(id, a)}
           k == [c \in Contents |-> trash[a][c] * Size[c]]
<1>1. C \in SUBSET Ids /\ \A id \in C : IsRow(id)
  BY DEF Charged, Live
<1>2. /\ IsFiniteSet(C) /\ RowBytes(C) \in Nat
      /\ \A id \in C : Size[rows[id].content] \in Nat
  <2> HIDE DEF C
  <2> QED  BY <1>1, RowBytesType DEF IInv
<1>3. \A c \in Contents : k[c] \in Nat
  <2> SUFFICES ASSUME NEW c \in Contents PROVE trash[a][c] * Size[c] \in Nat
    OBVIOUS
  <2>1. trash[a][c] \in Nat /\ Size[c] \in Nat
    BY ConstantsAssumption DEF IInv, Types
  <2>2. \A m, n \in Nat : m * n \in Nat  OBVIOUS
  <2> QED  BY <2>1, <2>2
<1>4. TrashBytes(a) = Total(k, Contents)  BY DEF TrashBytes
<1>5. Total(k, Contents) \in Nat
  <2> HIDE DEF k
  <2> QED  BY <1>3, TotalType, ConstantsAssumption
<1> QED  BY <1>2, <1>4, <1>5 DEF Usage

(* What deletions have reserved with a user is a number.                    *)
LEMMA ReservedType ==
  ASSUME IInv, RoomStands, NEW a \in Users
  PROVE  /\ IsFiniteSet(Pending(a)) /\ Reserved(a) \in Nat
         /\ \A v \in Pending(a) :
              v \in Users /\ status[v] = "deleting" /\ job[v].room \in Nat
<1> DEFINE P == Pending(a)
           f == [v \in P |-> job[v].room]
<1>1. \A v \in P : v \in Users /\ status[v] = "deleting" /\ job[v].room \in Nat
  BY DEF Pending, IInv, JobsStand, RoomStands
<1>2. IsFiniteSet(P)
  <2>1. P \subseteq Users  BY <1>1
  <2> QED  BY <2>1, ConstantsAssumption, FS_Subset
<1>3. \A v \in P : f[v] \in Nat  BY <1>1
<1>4. Total(f, P) \in Nat
  <2> HIDE DEF f, P
  <2> QED  BY <1>2, <1>3, TotalType
<1> QED  BY <1>1, <1>2, <1>4 DEF Reserved

(* The same deletions with the same room reserve as much.                   *)
LEMMA ReservedSame ==
  ASSUME NEW a, Pending(a)' = Pending(a),
         \A v \in Pending(a) : job'[v].room = job[v].room
  PROVE  Reserved(a)' = Reserved(a)
<1> DEFINE P == Pending(a)
           f == [v \in P |-> job[v].room]
           g == [v \in P |-> job'[v].room]
<1>1. \A v \in P : f[v] = g[v]  OBVIOUS
<1>2. Total(f, P) = Total(g, P)
  <2> HIDE DEF f, g, P
  <2> QED  BY <1>1, TotalSame
<1> QED  BY <1>2 DEF Reserved

LEMMA ReservedUnchanged ==
  ASSUME NEW a, UNCHANGED job
  PROVE  Reserved(a)' = Reserved(a)
<1>1. Pending(a)' = Pending(a)  BY DEF Pending
<1> QED  BY <1>1, ReservedSame

(* Rows that were charged before, and no more trash, are charged no more.   *)
LEMMA ChargesShrink ==
  ASSUME IInv, IInv', NEW a \in Users,
         \A id \in Ids : Charged(id, a)' =>
           Charged(id, a) /\ rows'[id].content = rows[id].content,
         \A c \in Contents : trash'[a][c] <= trash[a][c]
  PROVE  Usage(a)' \in Nat /\ Usage(a)' <= Usage(a)
<1> DEFINE C == {id \in Ids : Charged(id, a)}
           D == {id \in Ids : Charged(id, a)'}
           g == [id \in C |-> Size[rows[id].content]]
           h == [id \in D |-> Size[rows'[id].content]]
           k == [c \in Contents |-> trash[a][c] * Size[c]]
           l == [c \in Contents |-> trash'[a][c] * Size[c]]
<1>1. IsFiniteSet(C) /\ \A id \in C : g[id] \in Nat
  BY UsageType
<1>2. D \subseteq C /\ \A id \in D : h[id] = g[id]
  OBVIOUS
<1>3. Total(h, D) \in Nat /\ Total(g, C) \in Nat /\ Total(h, D) <= Total(g, C)
  <2> HIDE DEF C, D, g, h
  <2>1. IsFiniteSet(D)  BY <1>1, <1>2, FS_Subset
  <2>2. \A id \in D : h[id] \in Nat /\ h[id] <= g[id]  BY <1>1, <1>2
  <2> QED  BY <1>1, <1>2, <2>1, <2>2, TotalType, TotalMonotone
<1>4. \A c \in Contents : k[c] \in Nat /\ l[c] \in Nat /\ l[c] <= k[c]
  <2> SUFFICES ASSUME NEW c \in Contents
               PROVE  /\ trash[a][c] * Size[c] \in Nat
                      /\ trash'[a][c] * Size[c] \in Nat
                      /\ trash'[a][c] * Size[c] <= trash[a][c] * Size[c]
    OBVIOUS
  <2>1. trash[a][c] \in Nat /\ trash'[a][c] \in Nat /\ Size[c] \in Nat
    BY ConstantsAssumption DEF IInv, Types
  <2>2. \A m, n, s \in Nat :
          m <= n => m * s \in Nat /\ n * s \in Nat /\ m * s <= n * s
    OBVIOUS
  <2> QED  BY <2>1, <2>2
<1>5. /\ Total(l, Contents) \in Nat /\ Total(k, Contents) \in Nat
      /\ Total(l, Contents) <= Total(k, Contents)
  <2> HIDE DEF k, l
  <2> QED  BY <1>4, TotalType, TotalMonotone, ConstantsAssumption
<1>6. Usage(a) = Total(g, C) + Total(k, Contents)
  BY DEF Usage, RowBytes, TrashBytes
<1>7. Usage(a)' = Total(h, D) + Total(l, Contents)
  BY DEF Usage, RowBytes, TrashBytes
<1>8. \A m, n, x, y \in Nat : m <= n /\ x <= y => m + x \in Nat /\ m + x <= n + y
  OBVIOUS
<1> QED
  <2> HIDE DEF C, D, g, h, k, l
  <2> QED  BY <1>3, <1>5, <1>6, <1>7, <1>8

(* One row may be charged anew, in place of what it was charged with.       *)
LEMMA RowCharged ==
  ASSUME IInv, IInv', NEW a \in Users, NEW i \in Ids,
         \A id \in Ids \ {i} : Charged(id, a)' =>
           Charged(id, a) /\ rows'[id].content = rows[id].content,
         NEW old, old = (IF Charged(i, a) THEN Size[rows[i].content] ELSE 0),
         NEW new, new = (IF Charged(i, a)' THEN Size[rows'[i].content] ELSE 0)
  PROVE  LET C == {id \in Ids : Charged(id, a)} IN
         /\ RowBytes(C) \in Nat /\ RowBytes(C)' \in Nat
         /\ old \in Nat /\ new \in Nat
         /\ RowBytes(C)' + old <= RowBytes(C) + new
<1> DEFINE C == {id \in Ids : Charged(id, a)}
           D == {id \in Ids : Charged(id, a)'}
           g == [id \in C |-> Size[rows[id].content]]
           h == [id \in D |-> Size[rows'[id].content]]
<1>1. IsFiniteSet(C) /\ \A id \in C : g[id] \in Nat
  BY UsageType
<1>2. \A id \in D : h[id] \in Nat
  <2>1. \A id \in D : rows'[id].content \in Contents
    BY DEF IInv, Types, Rows, Charged, Live, IsRow
  <2> QED  BY <2>1, ConstantsAssumption
<1>3. D \subseteq Ids /\ IsFiniteSet(D)
  BY ConstantsAssumption, FS_Subset
<1>4. /\ D \ {i} \subseteq C \ {i}
      /\ \A id \in D \ {i} : h[id] = g[id]
  OBVIOUS
<1>5. /\ i \in C => old = g[i]
      /\ i \notin C => old = 0
      /\ i \in D => new = h[i]
      /\ i \notin D => new = 0
  OBVIOUS
<1>6. /\ RowBytes(C) = Total(g, C)
      /\ RowBytes({id \in Ids : Charged(id, a)})' = Total(h, D)
  BY DEF RowBytes
<1> HIDE DEF C, D, g, h
<1>7. IsFiniteSet(C \ {i}) /\ IsFiniteSet(D \ {i})
  BY <1>1, <1>3, FS_RemoveElement
<1>8. /\ Total(g, C \ {i}) \in Nat /\ Total(h, D \ {i}) \in Nat
      /\ Total(g, C) \in Nat /\ Total(h, D) \in Nat
      /\ Total(h, D \ {i}) <= Total(g, C \ {i})
  <2>1. \A id \in D \ {i} : h[id] \in Nat /\ h[id] <= g[id]
    BY <1>1, <1>2, <1>4
  <2> QED  BY <1>1, <1>2, <1>3, <1>4, <1>7, <2>1, TotalType, TotalMonotone
<1>9. old \in Nat /\ Total(g, C) = Total(g, C \ {i}) + old
  <2>1. CASE i \in C  BY <1>1, <1>5, <2>1, TotalRemove
  <2>2. CASE i \notin C
    <3>1. C \ {i} = C  BY <2>2
    <3>2. Total(g, C \ {i}) = Total(g, C)  BY <3>1
    <3>3. old = 0 /\ Total(g, C) \in Nat  BY <1>5, <1>8, <2>2
    <3>4. \A m \in Nat : m = m + 0  OBVIOUS
    <3> QED  BY <3>2, <3>3, <3>4
  <2> QED  BY <2>1, <2>2
<1>10. new \in Nat /\ Total(h, D) = Total(h, D \ {i}) + new
  <2>1. CASE i \in D  BY <1>2, <1>3, <1>5, <2>1, TotalRemove
  <2>2. CASE i \notin D
    <3>1. D \ {i} = D  BY <2>2
    <3>2. Total(h, D \ {i}) = Total(h, D)  BY <3>1
    <3>3. new = 0 /\ Total(h, D) \in Nat  BY <1>5, <1>8, <2>2
    <3>4. \A m \in Nat : m = m + 0  OBVIOUS
    <3> QED  BY <3>2, <3>3, <3>4
  <2> QED  BY <2>1, <2>2
<1>11. \A m, n, o, w \in Nat : m <= n => (m + w) + o <= (n + o) + w
  OBVIOUS
<1>12. Total(h, D) + old <= Total(g, C) + new
  BY <1>8, <1>9, <1>10, <1>11
<1>13. RowBytes(C) = Total(g, C) /\ RowBytes(C)' = Total(h, D)
  BY <1>6 DEF C
<1> QED  BY <1>8, <1>9, <1>10, <1>12, <1>13 DEF C

KeepsRoom(a) ==
  Limit > 0 =>
    \/ Spent(a)' <= Limit \/ Spent(a)' <= Spent(a)
    \/ Indexed(a) \/ ReplacedArrives(a)

UsageIsNat == \A a \in Users : Usage(a) \in Nat

LEMMA UsageTyped == IInv => UsageIsNat
  BY UsageType DEF UsageIsNat

LEMMA UsageNext == IInv' => UsageIsNat'
  BY UsageTyped, PTL

(* Who is charged no more and has no more reserved keeps the room.          *)
LEMMA NoGrowth ==
  ASSUME IInv, IInv', RoomStands, NEW a \in Users,
         Usage(a)' <= Usage(a), Reserved(a)' = Reserved(a)
  PROVE  KeepsRoom(a)
<1>1. Usage(a) \in Nat /\ Usage(a)' \in Nat /\ Reserved(a) \in Nat
  BY UsageType, UsageNext, ReservedType DEF UsageIsNat
<1>2. \A m, n, r \in Nat : m <= n => m + r <= n + r  OBVIOUS
<1>3. Usage(a)' + Reserved(a)' <= Usage(a) + Reserved(a)  BY <1>1, <1>2
<1>4. Spent(a)' <= Spent(a)  BY <1>3 DEF Spent
<1> QED  BY <1>4 DEF KeepsRoom

LEMMA NoNewCharge ==
  ASSUME IInv, IInv', RoomStands, NEW a \in Users, UNCHANGED job,
         \A id \in Ids : Charged(id, a)' =>
           Charged(id, a) /\ rows'[id].content = rows[id].content,
         \A c \in Contents : trash'[a][c] <= trash[a][c]
  PROVE  KeepsRoom(a)
<1>1. Usage(a)' <= Usage(a)  BY ChargesShrink
<1>2. Reserved(a)' = Reserved(a)  BY ReservedUnchanged
<1> QED  BY <1>1, <1>2, NoGrowth

LEMMA TrashIsNat ==
  ASSUME IInv, NEW a \in Users, NEW c \in Contents
  PROVE  trash[a][c] \in Nat /\ trash[a][c] <= trash[a][c]
<1>1. trash[a][c] \in Nat  BY DEF IInv, Types
<1> QED  BY <1>1

(* Steps that leave rows, trash and jobs alone. *)
LEMMA IdleKeepsRoom ==
  ASSUME IInv, IInv', RoomStands, NEW a \in Users, UNCHANGED <<rows, trash, job>>
  PROVE  KeepsRoom(a)
<1>1. \A id \in Ids : Charged(id, a)' =>
        Charged(id, a) /\ rows'[id].content = rows[id].content
  BY DEF Charged, Live, IsRow
<1>2. \A c \in Contents : trash'[a][c] <= trash[a][c]  BY TrashIsNat
<1> QED  BY <1>1, <1>2, NoNewCharge

(* QuotaService::reserve leaves room for what deletions have reserved. *)
LEMMA UploadKeepsRoom ==
  ASSUME IInv, IInv', RoomStands, NEW a \in Users, NEW u \in Users,
         NEW owner \in Owners, NEW n \in Names, NEW c \in Contents,
         NEW i \in Ids, Upload(u, owner, n, c, i)
  PROVE  KeepsRoom(a)
<1> DEFINE row == [owner |-> owner, uploader |-> u, path |-> Plain(n),
                   content |-> c, shared |-> IsRow(i) /\ rows[i].shared,
                   deleted |-> FALSE]
<1>1. /\ rows' = [rows EXCEPT ![i] = row] /\ trash' = trash /\ job' = job
      /\ owner = u \/ owner = Shared
      /\ HasRoom(u, IF Charged(i, u) THEN Size[rows[i].content] ELSE 0, Size[c])
  BY DEF Upload
<1>2. rows'[i] = row /\ \A id \in Ids \ {i} : rows'[id] = rows[id]
  BY <1>1 DEF IInv, Types
<1>3. \A id \in Ids \ {i} : Charged(id, a)' =>
        Charged(id, a) /\ rows'[id].content = rows[id].content
  BY <1>2 DEF Charged, Live, IsRow
<1>4. rows'[i] # None /\ u # Shared
  <2>1. (IsRow(i) /\ rows[i].shared) \in BOOLEAN  BY RowTypes DEF IInv
  <2>2. row \in Rows  BY <2>1, PathTypes DEF Rows
  <2>3. row # None
    <3> HIDE DEF row
    <3> QED  BY <2>2, NoneAssumption
  <2> QED  BY <1>2, <2>3, ConstantsAssumption
<1>5. CASE a # u
  <2>1. ~Charged(i, a)'  BY <1>1, <1>2, <1>5 DEF Charged
  <2>2. \A d \in Contents : trash'[a][d] <= trash[a][d]
    BY <1>1, TrashIsNat
  <2> QED  BY <1>1, <1>3, <2>1, <2>2, NoNewCharge
<1>6. CASE a = u
  <2> DEFINE old == IF Charged(i, a) THEN Size[rows[i].content] ELSE 0
             new == IF Charged(i, a)' THEN Size[rows'[i].content] ELSE 0
             C == {id \in Ids : Charged(id, a)}
  <2>1. new = Size[c]
    BY <1>1, <1>2, <1>4, <1>6 DEF Charged, Live, IsRow
  <2>2. /\ RowBytes(C) \in Nat /\ RowBytes(C)' \in Nat
        /\ old \in Nat /\ new \in Nat
        /\ RowBytes(C)' + old <= RowBytes(C) + new
    BY <1>3, RowCharged
  <2>3. /\ Usage(a) = RowBytes(C) + TrashBytes(a)
        /\ Usage(a)' = RowBytes(C)' + TrashBytes(a)
        /\ TrashBytes(a) \in Nat
    BY <1>1, UsageType DEF Usage, TrashBytes
  <2>4. Reserved(a)' = Reserved(a) /\ Reserved(a) \in Nat
    BY <1>1, ReservedUnchanged, ReservedType
  <2>5. CASE new > old /\ Limit > 0
    <3>1. Usage(a) + Reserved(a) + (new - old) <= Limit
      BY <1>1, <1>6, <2>1, <2>5 DEF HasRoom, Spent
    <3>2. \A x, y, t, r, o, w \in Nat :
            /\ y + o <= x + w
            /\ x + t + r + (w - o) <= Limit
            => y + t + r <= Limit
      BY ConstantsAssumption
    <3>3. RowBytes(C)' + TrashBytes(a) + Reserved(a) <= Limit
      <4> HIDE DEF old, new, C
      <4> QED  BY <2>2, <2>3, <2>4, <3>1, <3>2
    <3>4. Spent(a)' <= Limit
      <4> HIDE DEF C
      <4> QED  BY <2>3, <2>4, <3>3 DEF Spent
    <3> QED  BY <3>4 DEF KeepsRoom
  <2>6. CASE ~(new > old)
    <3>1. \A x, y, t, o, w \in Nat : 
            y + o <= x + w /\ ~(w > o) => y + t <= x + t
      OBVIOUS
    <3>2. Usage(a)' <= Usage(a)
      <4> HIDE DEF old, new, C
      <4> QED  BY <2>2, <2>3, <2>6, <3>1
    <3> QED  BY <2>4, <3>2, NoGrowth
  <2>7. CASE ~(Limit > 0)  BY <2>7 DEF KeepsRoom
  <2> QED  BY <2>5, <2>6, <2>7
<1> QED  BY <1>5, <1>6

LEMMA SetSharedKeepsRoom ==
  ASSUME IInv, IInv', RoomStands, NEW a \in Users, NEW u \in Users,
         NEW i \in Ids, NEW flag \in BOOLEAN, SetShared(u, i, flag)
  PROVE  KeepsRoom(a)
<1>1. /\ rows' = [rows EXCEPT ![i] = [@ EXCEPT !.shared = flag]]
      /\ trash' = trash /\ job' = job /\ IsRow(i) /\ ~rows[i].deleted
  BY DEF SetShared, Live
<1>2. /\ rows'[i] = [rows[i] EXCEPT !.shared = flag] /\ rows[i] \in Rows
      /\ \A id \in Ids \ {i} : rows'[id] = rows[id]
  BY <1>1, RowTypes DEF IInv, Types
<1>3. /\ rows'[i].owner = rows[i].owner /\ rows'[i].uploader = rows[i].uploader
      /\ rows'[i].content = rows[i].content
  BY <1>2 DEF Rows
<1>4. \A id \in Ids : Charged(id, a)' =>
        Charged(id, a) /\ rows'[id].content = rows[id].content
  BY <1>1, <1>2, <1>3 DEF Charged, Live, IsRow
<1>5. \A c \in Contents : trash'[a][c] <= trash[a][c]
  BY <1>1, TrashIsNat
<1> QED  BY <1>1, <1>4, <1>5, NoNewCharge

(* What goes to the trash is charged there, and no longer as a row. *)
LEMMA DiscardKeepsRoom ==
  ASSUME IInv, IInv', RoomStands, NEW a \in Users, NEW u \in Users,
         NEW i \in Ids, Discard(u, i)
  PROVE  KeepsRoom(a)
<1> DEFINE c == rows[i].content
<1>1. /\ rows' = [rows EXCEPT ![i] = [@ EXCEPT !.deleted = TRUE]]
      /\ trash' = [trash EXCEPT ![u][c] = @ + 1]
      /\ job' = job /\ Live(i) /\ IsRow(i) /\ rows[i].owner = u
  BY DEF Discard, Live
<1>2. /\ rows'[i] = [rows[i] EXCEPT !.deleted = TRUE] /\ rows[i] \in Rows
      /\ c \in Contents
      /\ \A id \in Ids \ {i} : rows'[id] = rows[id]
  BY <1>1, RowTypes DEF IInv, Types
<1>3. rows'[i].deleted  BY <1>2 DEF Rows
<1>4. ~Charged(i, a)'  BY <1>3 DEF Charged, Live
<1>5. \A id \in Ids \ {i} : Charged(id, a)' =>
        Charged(id, a) /\ rows'[id].content = rows[id].content
  BY <1>2 DEF Charged, Live, IsRow
<1>6. CASE a # u
  <2>1. \A d \in Contents : trash'[a][d] = trash[a][d]
    BY <1>1, <1>6 DEF IInv, Types
  <2>2. \A d \in Contents : trash'[a][d] <= trash[a][d]
    BY <2>1, TrashIsNat
  <2> QED  BY <1>1, <1>4, <1>5, <2>2, NoNewCharge
<1>7. CASE a = u
  <2> DEFINE old == IF Charged(i, a) THEN Size[rows[i].content] ELSE 0
             new == IF Charged(i, a)' THEN Size[rows'[i].content] ELSE 0
             C == {id \in Ids : Charged(id, a)}
             k == [d \in Contents |-> trash[a][d] * Size[d]]
             l == [d \in Contents |-> trash'[a][d] * Size[d]]
             rest == Contents \ {c}
  <2>1. u # Shared  BY ConstantsAssumption
  <2>2. old = Size[c] /\ new = 0
    BY <1>1, <1>4, <1>7, <2>1 DEF Charged
  <2>3. /\ RowBytes(C) \in Nat /\ RowBytes(C)' \in Nat
        /\ old \in Nat /\ new \in Nat
        /\ RowBytes(C)' + old <= RowBytes(C) + new
    BY <1>5, RowCharged
  <2>4. RowBytes(C)' + Size[c] <= RowBytes(C) /\ Size[c] \in Nat
    <3>1. \A x, y, o, w \in Nat : y + o <= x + w /\ w = 0 => y + o <= x
      OBVIOUS
    <3> HIDE DEF C, old, new, c
    <3> QED  BY <2>2, <2>3, <3>1
  <2>5. ASSUME NEW d \in Contents
        PROVE  /\ trash[a][d] * Size[d] \in Nat
               /\ trash'[a][d] * Size[d] \in Nat
               /\ d # c => trash'[a][d] * Size[d] = trash[a][d] * Size[d]
               /\ d = c => trash'[a][d] * Size[d]
                             = trash[a][d] * Size[d] + Size[d]
    <3>1. /\ trash[a][d] \in Nat /\ trash'[a][d] \in Nat /\ Size[d] \in Nat
          /\ d # c => trash'[a][d] = trash[a][d]
          /\ d = c => trash'[a][d] = trash[a][d] + 1
      BY <1>1, <1>2, <1>7, ConstantsAssumption DEF IInv, Types
    <3>2. \A m, s \in Nat : m * s \in Nat /\ (m + 1) * s = m * s + s
      OBVIOUS
    <3> HIDE DEF c
    <3> QED  BY <3>1, <3>2
  <2>6. /\ \A d \in Contents : k[d] \in Nat /\ l[d] \in Nat
        /\ \A d \in rest : l[d] = k[d]
        /\ l[c] = k[c] + Size[c]
    BY <1>2, <2>5
  <2>7. TrashBytes(a) = Total(k, Contents) /\ TrashBytes(a)' = Total(l, Contents)
    BY DEF TrashBytes
  <2>8. /\ Total(k, Contents) \in Nat
        /\ Total(l, Contents) = Total(k, Contents) + Size[c]
    <3> HIDE DEF k, l, c
    <3>1. Total(l, rest) = Total(k, rest)
      <4> HIDE DEF rest
      <4> QED  BY <2>6, TotalSame
    <3>2. /\ Total(k, rest) \in Nat /\ Total(k, Contents) = Total(k, rest) + k[c]
          /\ Total(l, Contents) = Total(l, rest) + l[c]
      BY <1>2, <2>6, TotalRemove, ConstantsAssumption
    <3>3. \A x, y, s \in Nat : x + y \in Nat /\ x + (y + s) = (x + y) + s
      OBVIOUS
    <3>4. k[c] \in Nat /\ l[c] = k[c] + Size[c]  BY <1>2, <2>6
    <3>5. Total(k, rest) \in Nat /\ Total(l, Contents) = Total(k, rest) + l[c]
      BY <3>1, <3>2
    <3> HIDE DEF rest
    <3> QED  BY <2>4, <3>2, <3>3, <3>4, <3>5
  <2>9. Usage(a)' <= Usage(a)
    <3>1. \A x, y, t, s \in Nat : y + s <= x => y + (t + s) <= x + t
      OBVIOUS
    <3>2. /\ Usage(a) = RowBytes(C) + TrashBytes(a)
          /\ Usage(a)' = RowBytes(C)' + TrashBytes(a)'
      BY DEF Usage
    <3> HIDE DEF C, k, l, c
    <3> QED  BY <2>3, <2>4, <2>7, <2>8, <3>1, <3>2
  <2>10. Reserved(a)' = Reserved(a)  BY <1>1, ReservedUnchanged
  <2> QED  BY <2>9, <2>10, NoGrowth
<1> QED  BY <1>6, <1>7

(* A row for a file that was there already is charged without being asked   *)
(* for; otherwise an index only loses rows.                                 *)
LEMMA ReindexKeepsRoom ==
  ASSUME IInv, IInv', RoomStands, NEW a \in Users, NEW u \in Users, Reindex(u)
  PROVE  KeepsRoom(a)
<1>1. UNCHANGED <<trash, files, job>>  BY ReindexFacts
<1>2. ASSUME NEW id \in Ids, Charged(id, a)', ~Indexed(a)
      PROVE  Charged(id, a) /\ rows'[id].content = rows[id].content
  <2>1. CASE rows'[id] = rows[id]
    BY <1>2, <2>1 DEF Charged, Live, IsRow
  <2>2. CASE rows'[id] = None  BY <1>2, <2>2 DEF Charged, Live, IsRow
  <2>3. CASE rows'[id] # rows[id] /\ rows'[id] # None
    <3>1. PICK f \in files :
            /\ f.owner = u /\ PlaceOf(id, u, f.path)
            /\ ~(Live(id) /\ rows[id].owner = u /\ rows[id].path = f.path)
            /\ rows'[id].owner = u /\ rows'[id].path = f.path
            /\ rows'[id].content = f.content
      <4>1. PICK place \in [files -> Ids] : \A i \in Ids :
              \/ rows'[i] = rows[i]
              \/ /\ rows'[i] = None /\ Live(i) /\ rows[i].owner = u
                 /\ \A f \in files : f.owner = u => f.path # rows[i].path
              \/ \E f \in files :
                   /\ f.owner = u /\ place[f] = i /\ PlaceOf(i, u, f.path)
                   /\ ~(Live(i) /\ rows[i].owner = u /\ rows[i].path = f.path)
                   /\ rows'[i].owner = u /\ rows'[i].uploader = u
                   /\ rows'[i].path = f.path /\ rows'[i].content = f.content
                   /\ rows'[i].deleted = FALSE /\ rows'[i] # None
        BY ReindexFacts
      <4> QED  BY <2>3, <4>1
    <3>2. ~Live(id)  BY <3>1 DEF PlaceOf, Live
    <3>3. a = u
      <4>1. u # Shared  BY ConstantsAssumption
      <4> QED  BY <1>2, <3>1, <4>1 DEF Charged
    <3>4. f = [owner |-> f.owner, path |-> f.path, content |-> f.content]
      BY DEF IInv, Types, Files
    <3>5. Live(id)'  BY <1>2 DEF Charged
    <3>6. Indexed(a)  BY <3>1, <3>2, <3>3, <3>4, <3>5 DEF Indexed
    <3> QED  BY <1>2, <3>6
  <2> QED  BY <2>1, <2>2, <2>3
<1>3. \A c \in Contents : trash'[a][c] <= trash[a][c]
  BY <1>1, TrashIsNat
<1>4. CASE Indexed(a)  BY <1>4 DEF KeepsRoom
<1>5. CASE ~Indexed(a)
  BY <1>1, <1>2, <1>3, <1>5, NoNewCharge
<1> QED  BY <1>4, <1>5

(* What starts reserving room, or stops, changes the reserved by that room. *)
LEMMA ReservedGrows ==
  ASSUME IInv, RoomStands, NEW a \in Users, NEW u \in Users,
         u \notin Pending(a), Pending(a)' = Pending(a) \cup {u},
         job'[u].room \in Nat,
         \A v \in Pending(a) : job'[v].room = job[v].room
  PROVE  Reserved(a)' = Reserved(a) + job'[u].room
<1> DEFINE P == Pending(a)
           Q == P \cup {u}
           f == [v \in P |-> job[v].room]
           g == [v \in Q |-> job'[v].room]
<1>1. Q \ {u} = P /\ u \in Q  OBVIOUS
<1>2. IsFiniteSet(Q) /\ \A v \in Q : g[v] \in Nat
  <2>1. IsFiniteSet(P) /\ \A v \in P : job[v].room \in Nat  BY ReservedType
  <2>2. \A v \in Q : g[v] \in Nat  BY <2>1
  <2> HIDE DEF P, g
  <2> QED  BY <2>1, <2>2, FS_AddElement
<1>3. (\A v \in P : f[v] = g[v]) /\ g[u] = job'[u].room  OBVIOUS
<1>4. Reserved(a) = Total(f, P)  BY DEF Reserved
<1>5. Reserved(a)' = Total(g, Q)  BY DEF Reserved
<1> HIDE DEF P, Q, f, g
<1>6. Total(g, Q) = Total(g, P) + g[u]  BY <1>1, <1>2, TotalRemove
<1>7. Total(f, P) = Total(g, P)  BY <1>3, TotalSame
<1> QED  BY <1>3, <1>4, <1>5, <1>6, <1>7

LEMMA ReservedFalls ==
  ASSUME IInv, RoomStands, NEW a \in Users, NEW u \in Pending(a),
         Pending(a)' = Pending(a) \ {u},
         \A v \in Pending(a) \ {u} : job'[v].room = job[v].room
  PROVE  /\ Reserved(a)' \in Nat
         /\ Reserved(a) = Reserved(a)' + job[u].room
<1> DEFINE P == Pending(a)
           Q == P \ {u}
           f == [v \in P |-> job[v].room]
           g == [v \in Q |-> job'[v].room]
<1>1. IsFiniteSet(P) /\ \A v \in P : f[v] \in Nat  BY ReservedType
<1>2. (\A v \in Q : f[v] = g[v]) /\ f[u] = job[u].room  OBVIOUS
<1>3. Reserved(a) = Total(f, P)  BY DEF Reserved
<1>4. Reserved(a)' = Total(g, Q)  BY DEF Reserved
<1>5. u \in P  OBVIOUS
<1> HIDE DEF P, f, g
<1>6. Total(f, Q) \in Nat /\ Total(f, P) = Total(f, Q) + f[u]
  BY <1>1, <1>5, TotalRemove
<1> HIDE DEF Q
<1>7. Total(f, Q) = Total(g, Q)  BY <1>2, TotalSame
<1> QED  BY <1>2, <1>3, <1>4, <1>6, <1>7

LEMMA JobIsSome ==
  ASSUME IInv, RoomStands, NEW u \in Users, status[u] = "deleting"
  PROVE  job[u] # None
<1>1. JobOK(job[u]) /\ job[u].room \in Nat
  BY DEF IInv, JobsStand, RoomStands
<1>2. job[u] \in Jobs  BY <1>1 DEF JobOK, Jobs
<1> QED  BY <1>2, NoneAssumption

(* deleteUser finds room for the manifest, and reserves it. *)
LEMMA StartKeepsRoom ==
  ASSUME IInv, IInv', RoomStands, RoomStands', NEW a \in Users,
         NEW b \in Users, NEW u \in Users, StartDeletion(b, u)
  PROVE  KeepsRoom(a)
<1>1. /\ status[u] = "active" /\ UNCHANGED <<rows, trash>>
      /\ \A v \in Users \ {u} : job'[v] = job[v]
      /\ status'[u] = "deleting"
      /\ HasRoom(b, 0, job'[u].room)
      /\ job'[u].recipient = b /\ job'[u].phase = "copying"
  BY DEF StartDeletion, IInv, Types
<1>2. job[u] = None  BY <1>1 DEF IInv, JobsStand
<1>3. job'[u] # None /\ job'[u].room \in Nat
  <2>1. job'[u].room \in Nat  BY <1>1 DEF RoomStands
  <2>2. JobOK(job[u])'  BY <1>1 DEF IInv, JobsStand
  <2>3. job'[u] \in Jobs  BY <2>1, <2>2 DEF JobOK, Jobs
  <2> QED  BY <2>1, <2>3, NoneAssumption
<1>4. Usage(a)' = Usage(a)
  BY <1>1 DEF Usage, RowBytes, TrashBytes, Charged, Live, IsRow
<1>5. Usage(a) \in Nat /\ Reserved(a) \in Nat  BY UsageType, ReservedType
<1>6. CASE a # b
  <2>1. Pending(a)' = Pending(a) /\ \A v \in Pending(a) : job'[v].room = job[v].room
    BY <1>1, <1>2, <1>6 DEF Pending
  <2>2. Reserved(a)' = Reserved(a)  BY <2>1, ReservedSame
  <2>3. Usage(a)' <= Usage(a)  BY <1>4, <1>5
  <2> QED  BY <2>2, <2>3, NoGrowth
<1>7. CASE a = b
  <2>1. /\ u \notin Pending(a) /\ Pending(a)' = Pending(a) \cup {u}
        /\ \A v \in Pending(a) : job'[v].room = job[v].room
    BY <1>1, <1>2, <1>3, <1>7 DEF Pending
  <2>2. Reserved(a)' = Reserved(a) + job'[u].room
    BY <1>3, <2>1, ReservedGrows
  <2> DEFINE r == job'[u].room
  <2>3. Limit > 0 /\ r > 0 => Usage(a) + Reserved(a) + (r - 0) <= Limit
    BY <1>1, <1>7 DEF HasRoom, Spent
  <2>4. \A x, y, w \in Nat :
          /\ x + y + (w - 0) <= Limit => x + (y + w) <= Limit
          /\ ~(w > 0) => x + (y + w) <= x + y
    BY ConstantsAssumption
  <2>5. /\ Spent(a)' = Usage(a) + (Reserved(a) + r)
        /\ Spent(a) = Usage(a) + Reserved(a)
    BY <1>4, <2>2 DEF Spent
  <2>6. Limit > 0 => Spent(a)' <= Limit \/ Spent(a)' <= Spent(a)
    <3>1. r \in Nat  BY <1>3
    <3> HIDE DEF r
    <3> QED  BY <1>5, <2>3, <2>4, <2>5, <3>1
  <2> QED  BY <2>6 DEF KeepsRoom
<1> QED  BY <1>6, <1>7

(* What arrives is what room was reserved for, and no longer reserved. *)
LEMMA TransferKeepsRoom ==
  ASSUME IInv, IInv', RoomStands, NEW a \in Users, NEW u \in Users,
         Transfer(u), ~Conflict(u)
  PROVE  KeepsRoom(a)
<1>1. /\ Doing(u, "copy") /\ trash' = trash
      /\ rows' = [id \in Ids |-> IF id \in job[u].ids THEN Transferred(id, u)
                                 ELSE rows[id]]
      /\ job' = [job EXCEPT ![u].phase = "cleanup"]
  BY DEF Transfer
<1>2. /\ status[u] = "deleting" /\ JobOK(job[u]) /\ job[u].phase = "copying"
      /\ Heir(u) \in Users
  BY <1>1, CopyFacts DEF IInv
<1>3. /\ job'[u] = [job[u] EXCEPT !.phase = "cleanup"]
      /\ \A v \in Users \ {u} : job'[v] = job[v]
  BY <1>1 DEF IInv, Types
<1>4. job'[u].phase = "cleanup"  BY <1>2, <1>3 DEF JobOK
<1>5. CASE a # Heir(u)
  <2>1. ASSUME NEW id \in Ids, Charged(id, a)'
        PROVE  Charged(id, a) /\ rows'[id].content = rows[id].content
    <3>1. CASE id \in job[u].ids
      <4>1. rows'[id] = Transferred(id, u)  BY <1>1, <3>1
      <4> QED  BY <1>1, <1>5, <2>1, <3>1, <4>1, TransferFacts
               DEF Charged
    <3>2. CASE id \notin job[u].ids
      <4>1. rows'[id] = rows[id]  BY <1>1, <3>2
      <4> QED  BY <2>1, <4>1 DEF Charged, Live, IsRow
    <3> QED  BY <3>1, <3>2
  <2>2. \A c \in Contents : trash'[a][c] <= trash[a][c]
    BY <1>1, TrashIsNat
  <2>3. Usage(a)' <= Usage(a)  BY <2>1, <2>2, ChargesShrink
  <2>4. u \notin Pending(a)  BY <1>5 DEF Pending, Heir
  <2>5. Pending(a)' = Pending(a)  BY <1>3, <1>4, <2>4 DEF Pending
  <2>6. \A v \in Pending(a) : job'[v].room = job[v].room
    BY <1>3, <2>4 DEF Pending
  <2>7. Reserved(a)' = Reserved(a)  BY <2>5, <2>6, ReservedSame
  <2> QED  BY <2>3, <2>7, NoGrowth
<1>6. CASE a = Heir(u)
  <2>1. job[u] # None  BY <1>2, JobIsSome
  <2>2. u \in Pending(a)  BY <1>2, <1>6, <2>1 DEF Pending, Heir
  <2>3. /\ Pending(a)' = Pending(a) \ {u}
        /\ \A v \in Pending(a) \ {u} : job'[v].room = job[v].room
    BY <1>3, <1>4 DEF Pending
  <2>4. CASE \E id \in job[u].ids : rows[id].uploader # u
    <3>1. ReplacedArrives(a)  BY <2>2, <2>3, <2>4 DEF ReplacedArrives
    <3> QED  BY <3>1 DEF KeepsRoom
  <2>5. CASE \A id \in job[u].ids : rows[id].uploader = u
    <3>1. job[u].room = RowBytes(job[u].ids) /\ job[u].room \in Nat
      BY <1>2, <2>5 DEF RoomStands
    <3>2. Usage(a)' <= Usage(a) + job[u].room
      BY <1>1, <3>1, TransferCharges
    <3>3. Reserved(a)' \in Nat /\ Reserved(a) = Reserved(a)' + job[u].room
      BY <2>2, <2>3, ReservedFalls
    <3>4. Usage(a) \in Nat /\ Usage(a)' \in Nat
      BY UsageType, UsageNext DEF UsageIsNat
    <3>5. \A x, y, q, r \in Nat : y <= x + r => y + q <= x + (q + r)
      OBVIOUS
    <3>6. Spent(a)' <= Spent(a)
      BY <3>1, <3>2, <3>3, <3>4, <3>5 DEF Spent
    <3> QED  BY <3>6 DEF KeepsRoom
  <2> QED  BY <2>4, <2>5
<1> QED  BY <1>5, <1>6

(* The removal of rows and trash charges nobody. *)
LEMMA RemoveRowsKeepsRoom ==
  ASSUME IInv, IInv', RoomStands, NEW a \in Users, NEW u \in Users,
         RemoveRows(u)
  PROVE  KeepsRoom(a)
<1>1. /\ rows' = [id \in Ids |-> IF IsRow(id) /\ rows[id].owner = u THEN None
                                 ELSE rows[id]]
      /\ trash' = [trash EXCEPT ![u] = [c \in Contents |-> 0]]
      /\ job' = job
  BY DEF RemoveRows
<1>2. \A id \in Ids : Charged(id, a)' =>
        Charged(id, a) /\ rows'[id].content = rows[id].content
  BY <1>1 DEF Charged, Live, IsRow
<1>3. ASSUME NEW c \in Contents PROVE trash'[a][c] <= trash[a][c]
  <2>1. trash[a][c] \in Nat /\ (trash'[a][c] = 0 \/ trash'[a][c] = trash[a][c])
    BY <1>1 DEF IInv, Types
  <2> QED  BY <2>1
<1> QED  BY <1>1, <1>2, <1>3, NoNewCharge

(* A deletion that ends has no room reserved any more. *)
LEMMA FinishKeepsRoom ==
  ASSUME IInv, IInv', RoomStands, NEW a \in Users, NEW u \in Users, Finish(u)
  PROVE  KeepsRoom(a)
<1>1. /\ UNCHANGED <<rows, trash>> /\ Doing(u, "blobs")
      /\ job'[u] = None /\ \A v \in Users \ {u} : job'[v] = job[v]
  BY DEF Finish, IInv, Types
<1>2. job[u].phase = "cleanup"  BY <1>1, CleanFacts DEF IInv
<1>3. u \notin Pending(a)  BY <1>2 DEF Pending
<1>4. Pending(a)' = Pending(a)  BY <1>1, <1>3 DEF Pending
<1>5. \A v \in Pending(a) : job'[v].room = job[v].room
  BY <1>1, <1>3 DEF Pending
<1>6. Reserved(a)' = Reserved(a)  BY <1>4, <1>5, ReservedSame
<1>7. Usage(a)' = Usage(a)
  BY <1>1 DEF Usage, RowBytes, TrashBytes, Charged, Live, IsRow
<1>8. Usage(a)' <= Usage(a)
  <2>1. Usage(a) \in Nat  BY UsageType
  <2> QED  BY <1>7, <2>1
<1> QED  BY <1>6, <1>8, NoGrowth

LEMMA StepKeepsReserve ==
  ASSUME RInv, RInv', [Next]_vars, NEW a \in Users
  PROVE  KeepsRoom(a)
<1> USE DEF RInv
<1>1. CASE UNCHANGED <<rows, trash, job>>  BY <1>1, IdleKeepsRoom
<1>2. ASSUME NEW u \in Users, NEW owner \in Owners, NEW n \in Names,
             NEW c \in Contents, NEW id \in Ids, Upload(u, owner, n, c, id)
      PROVE  KeepsRoom(a)
  BY <1>2, UploadKeepsRoom
<1>3. ASSUME NEW u \in Users, NEW id \in Ids, NEW flag \in BOOLEAN,
             SetShared(u, id, flag)
      PROVE  KeepsRoom(a)
  BY <1>3, SetSharedKeepsRoom
<1>4. ASSUME NEW u \in Users, NEW id \in Ids, Discard(u, id)
      PROVE  KeepsRoom(a)
  BY <1>4, DiscardKeepsRoom
<1>5. ASSUME NEW u \in Users, Reindex(u) PROVE KeepsRoom(a)
  BY <1>5, ReindexKeepsRoom
<1>6. ASSUME NEW b \in Users, NEW u \in Users, StartDeletion(b, u)
      PROVE  KeepsRoom(a)
  BY <1>6, StartKeepsRoom
<1>7. ASSUME NEW b \in Users, NEW u \in Users, Retry(b, u) PROVE KeepsRoom(a)
  BY <1>1, <1>7 DEF Retry
<1>8. ASSUME NEW u \in Users, Step(u) PROVE KeepsRoom(a)
  <2>1. ASSUME NEW id \in Ids,
               \/ StageCopy(u, id) \/ PlaceCopy(u, id)
               \/ MissSource(u, id) \/ AcceptCopy(u, id)
        PROVE  KeepsRoom(a)
    BY <1>1, <2>1 DEF StageCopy, PlaceCopy, MissSource, AcceptCopy
  <2>2. CASE Transfer(u)
    <3>1. CASE Conflict(u)  BY <1>1, <2>2, <3>1 DEF Transfer
    <3>2. CASE ~Conflict(u)  BY <2>2, <3>2, TransferKeepsRoom
    <3> QED  BY <3>1, <3>2
  <2>3. CASE RemoveFiles(u)  BY <1>1, <2>3 DEF RemoveFiles
  <2>4. CASE RemoveRows(u)  BY <2>4, RemoveRowsKeepsRoom
  <2>5. ASSUME NEW c \in Contents, RemoveBlob(u, c) PROVE KeepsRoom(a)
    BY <1>1, <2>5 DEF RemoveBlob
  <2>6. CASE Finish(u)  BY <2>6, FinishKeepsRoom
  <2> QED  BY <1>8, <2>1, <2>2, <2>3, <2>4, <2>5, <2>6 DEF Step
<1>9. CASE Fail \/ Crash \/ Serve
  BY <1>1, <1>9 DEF Fail, Crash, Serve
<1>10. ASSUME NEW rotating \in BOOLEAN, StartUp(rotating) PROVE KeepsRoom(a)
  BY <1>1, <1>10 DEF StartUp
<1>11. ASSUME NEW u \in Users, Resume(u) PROVE KeepsRoom(a)
  BY <1>1, <1>11 DEF Resume
<1>12. CASE UNCHANGED vars  BY <1>1, <1>12 DEF vars
<1> QED
  BY <1>2, <1>3, <1>4, <1>5, <1>6, <1>7, <1>8, <1>9, <1>10, <1>11, <1>12
  DEF Next

(* The room reserved for what an administrator is to receive is taken by    *)
(* nobody else, whatever was uploaded, thrown away, failed or restarted: no *)
(* step takes what somebody is charged with and has reserved beyond the     *)
(* quota, but for a copy that is indexed or an entry of the shared storage  *)
(* that was replaced (QuotaService::reserve, deleteUser's reservation and   *)
(* its release in finishDeletion's transaction).                            *)
THEOREM RoomIsKept == Spec => ReservedRoomIsKept
<1>1. RInv /\ RInv' /\ [Next]_vars => [\A a \in Users : KeepsRoom(a)]_vars
  BY StepKeepsReserve
<1>2. RInv /\ RInv' /\ [Next]_vars =>
        [\A a \in Users :
           Limit > 0 =>
             \/ Spent(a)' <= Limit \/ Spent(a)' <= Spent(a)
             \/ Indexed(a) \/ ReplacedArrives(a)]_vars
  BY <1>1 DEF KeepsRoom
<1> QED  BY <1>2, SpecRInv, PTL DEF Spec, ReservedRoomIsKept

=============================================================================
