-------------------------- MODULE AccountDeletion --------------------------
(***************************************************************************)
(* What becomes of the files of a deleted account: deleteUser,             *)
(* finishDeletion and resumeDeletions of UserService.cpp, with the         *)
(* handlers that run between the attempts of an interrupted deletion.      *)
(*                                                                         *)
(* finishDeletion holds storageMutex, as every handler that changes files  *)
(* does, so they never overlap; but an error or the end of the process     *)
(* stops it between any two of its steps, and until it is tried again      *)
(* others go on.  Both layouts are here: blobs named by their hash         *)
(* (hash_files) and plain files in a directory per user.  Who may delete   *)
(* whom, blocking and tokens are in Accounts; restoring and emptying the   *)
(* trash, folders and moves are in FileStore.                              *)
(***************************************************************************)
EXTENDS Naturals, Sequences, FiniteSets, Totals

CONSTANTS
  Users,        \* accounts
  Admins,       \* those that are administrators, for good
  Shared,       \* owner 0: the shared storage of earlier versions
  Ids,          \* ids of rows of file_index
  Names,        \* paths files are uploaded to
  Contents,     \* contents, each with its hash
  Size,         \* bytes of each content
  Limit,        \* everybody's quota, 0 for none
  Layouts,      \* values of hash_files
  MaxTrash,     \* bound on the trash entries of one owner and content
  MaxFaults,    \* bound on errors and ends of the process
  None

ASSUME ConstantsAssumption ==
  /\ IsFiniteSet(Users) /\ IsFiniteSet(Ids) /\ IsFiniteSet(Contents)
  /\ Admins \subseteq Users /\ Shared \notin Users
  /\ Size \in [Contents -> Nat] /\ Limit \in Nat
  /\ Layouts \subseteq BOOLEAN
  /\ MaxTrash \in Nat /\ MaxFaults \in Nat

VARIABLES
  hashed,    \* hash_files
  status,    \* users.status, or "gone"
  rows,      \* file_index
  trash,     \* trash: how many entries of an owner hold a content
  blobs,     \* hashed: data/
  files,     \* direct: users/<id>/ and the shared directory
  job,       \* account_deletions and the reservation that goes with a row
  run,       \* the attempt of finishDeletion under way
  server, resume,  \* start-up and the jobs resumeDeletions still has before it
  faults

vars == <<hashed, status, rows, trash, blobs, files, job, run, server, resume,
          faults>>

\* Where a file is: the directories Transferred-<user>-... above it, and
\* whether it is a copy not yet renamed (.deletion-copy).
Paths == [under : Seq(Users), name : Names, staged : BOOLEAN]
Plain(n) == [under |-> <<>>, name |-> n, staged |-> FALSE]
Under(u, path) == [path EXCEPT !.under = <<u>> \o @]
Staged(path) == [path EXCEPT !.staged = TRUE]

Owners == Users \cup {Shared}
Rows == [owner : Owners, uploader : Users, path : Paths, content : Contents,
         shared : BOOLEAN, deleted : BOOLEAN]

Files == [owner : Owners, path : Paths, content : Contents]
Jobs == [recipient : Users, ids : SUBSET Ids, hashes : SUBSET Contents,
         room : Nat, phase : {"copying", "cleanup"}]
Runs == [user : Users, pc : {"copy", "files", "rows"}, todo : SUBSET Ids]
          \cup [user : Users, pc : {"blobs"}, todo : SUBSET Contents]
ASSUME NoneAssumption == None \notin Rows /\ None \notin Jobs

IsRow(id) == rows[id] # None
Live(id) == IsRow(id) /\ ~rows[id].deleted

\* The UNIQUE constraint of file_index, whose scope follows from the owner.
RowsUnique ==
  \A i, j \in Ids :
    /\ IsRow(i) /\ IsRow(j)
    /\ rows[i].owner = rows[j].owner /\ rows[i].path = rows[j].path
    => i = j

TypeOK ==
  /\ hashed \in BOOLEAN
  /\ status \in [Users -> {"active", "deleting", "gone"}]
  /\ rows \in [Ids -> Rows \cup {None}] /\ RowsUnique
  /\ trash \in [Users -> [Contents -> Nat]]
  /\ blobs \subseteq Contents /\ files \subseteq Files
  /\ job \in [Users -> Jobs \cup {None}]
  /\ run \in Runs \cup {None}
  /\ server \in {"down", "starting", "up"} /\ resume \subseteq Users
  /\ faults \in Nat

\* QuotaService::usage.
Charged(id, u) ==
  /\ Live(id)
  /\ u = IF rows[id].owner = Shared THEN rows[id].uploader ELSE rows[id].owner
RowBytes(S) == Total([id \in S |-> Size[rows[id].content]], S)
TrashBytes(u) == Total([c \in Contents |-> trash[u][c] * Size[c]], Contents)
Usage(u) == RowBytes({id \in Ids : Charged(id, u)}) + TrashBytes(u)

\* Deletions that have yet to transfer to u, and the room they reserved.
Pending(u) ==
  {v \in Users : /\ job[v] # None /\ job[v].recipient = u
                 /\ job[v].phase = "copying"}
Reserved(u) == Total([v \in Pending(u) |-> job[v].room], Pending(u))

\* What u is charged with, now and by the deletions it is the recipient of.
Spent(u) == Usage(u) + Reserved(u)

\* Variant: the room of deletions is not counted.
HasFreeRoom(u, old, new) ==
  new > old /\ Limit > 0 => Usage(u) + (new - old) <= Limit

\* QuotaService::reserve, and deleteUser for what it is to transfer.
HasRoom(u, old, new) ==
  new > old /\ Limit > 0 => Spent(u) + (new - old) <= Limit

\* Variant: trash is not asked.
NamedByRows(c) == \E id \in Ids : IsRow(id) /\ rows[id].content = c

Named(c) ==
  \/ \E id \in Ids : IsRow(id) /\ rows[id].content = c
  \/ \E u \in Users : trash[u][c] > 0

Init ==
  /\ hashed \in Layouts
  /\ status = [u \in Users |-> "active"]
  /\ rows = [id \in Ids |-> None]
  /\ trash = [u \in Users |-> [c \in Contents |-> 0]]
  /\ blobs = {} /\ files = {}
  /\ job = [u \in Users |-> None]
  /\ run = None /\ server = "up" /\ resume = {} /\ faults = 0

-----------------------------------------------------------------------------
(* The handlers of FileController, each under storageMutex.                 *)

\* Variant: the token is verified only before the lock.
AuthorisedBefore(u) == status[u] \in {"active", "deleting"}

\* getAuth once storageMutex is held: the token of an account in deletion is
\* refused, even if the middleware let the request pass before.
Authorised(u) == status[u] = "active"

Handler(u) == server = "up" /\ run = None /\ Authorised(u)

\* Rows a statement for this place writes: the row it has, or a new one.
PlaceOf(id, owner, path) ==
  IF \E i \in Ids : IsRow(i) /\ rows[i].owner = owner /\ rows[i].path = path
  THEN IsRow(id) /\ rows[id].owner = owner /\ rows[id].path = path
  ELSE ~IsRow(id)

WrittenFile(owner, path, content) ==
  {f \in files : f.owner # owner \/ f.path # path}
    \cup {[owner |-> owner, path |-> path, content |-> content]}

\* uploadFile: reserve, write, upsert.
Upload(u, owner, name, content, id) ==
  LET path == Plain(name)
      old == IF Charged(id, u) THEN Size[rows[id].content] ELSE 0
  IN
  /\ Handler(u)
  /\ owner = u \/ (owner = Shared /\ u \in Admins)
  /\ PlaceOf(id, owner, path)
  /\ HasRoom(u, old, Size[content])
  /\ rows' = [rows EXCEPT ![id] =
       [owner |-> owner, uploader |-> u, path |-> path, content |-> content,
        shared |-> IsRow(id) /\ rows[id].shared, deleted |-> FALSE]]
  /\ blobs' = IF hashed THEN blobs \cup {content} ELSE blobs
  /\ files' = IF hashed THEN files ELSE WrittenFile(owner, path, content)
  /\ UNCHANGED <<hashed, status, trash, job, run, server, resume, faults>>

\* setShared for one of the user's own files.
SetShared(u, id, flag) ==
  /\ Handler(u)
  /\ Live(id) /\ rows[id].owner = u /\ rows[id].shared # flag
  /\ rows' = [rows EXCEPT ![id].shared = flag]
  /\ UNCHANGED <<hashed, status, trash, blobs, files, job, run, server, resume,
                 faults>>

\* moveToTrash: the row is marked, an entry holds the content, and a plain
\* file moves out of the user's directory.
Discard(u, id) ==
  /\ Handler(u)
  /\ Live(id) /\ rows[id].owner = u
  /\ trash[u][rows[id].content] < MaxTrash
  /\ rows' = [rows EXCEPT ![id].deleted = TRUE]
  /\ trash' = [trash EXCEPT ![u][rows[id].content] = @ + 1]
  /\ files' = {f \in files : f.owner # u \/ f.path # rows[id].path}
  /\ UNCHANGED <<hashed, status, blobs, job, run, server, resume, faults>>

\* rebuildIndex of a user's directory, asked for or because a listing was
\* empty: one row per file found, none without a file.
Reindex(u) ==
  LET found == {f \in files : f.owner = u}
      new == {f \in found : ~\E id \in Ids :
                 Live(id) /\ rows[id].owner = u /\ rows[id].path = f.path}
      lost == {id \in Ids : /\ Live(id) /\ rows[id].owner = u
                            /\ \A f \in found : f.path # rows[id].path}
  IN
  /\ Handler(u) /\ ~hashed
  /\ new # {} \/ lost # {}
  /\ \E place \in [new -> Ids] :
       /\ \A f, g \in new : place[f] = place[g] => f = g
       /\ \A f \in new : PlaceOf(place[f], u, f.path)
       /\ rows' = [id \in Ids |->
            IF \E f \in new : place[f] = id
            THEN LET f == CHOOSE f \in new : place[f] = id IN
                 [owner |-> u, uploader |-> u, path |-> f.path,
                  content |-> f.content,
                  shared |-> IsRow(id) /\ rows[id].shared, deleted |-> FALSE]
            ELSE IF id \in lost THEN None ELSE rows[id]]
  /\ UNCHANGED <<hashed, status, trash, blobs, files, job, run, server, resume,
                 faults>>

-----------------------------------------------------------------------------
(* deleteUser.                                                              *)

\* finishDeletion reads the job and goes to where its phase says.
Attempt(u, j) ==
  IF j.phase = "copying"
  THEN [user |-> u, pc |-> "copy",
        todo |-> {id \in j.ids : ~hashed /\ rows[id].owner = u}]
  ELSE [user |-> u, pc |-> "files", todo |-> {}]

Manifest(u) ==
  {id \in Ids : /\ Live(id)
                /\ \/ rows[id].owner = u /\ rows[id].shared
                   \/ rows[id].owner = Shared /\ rows[id].uploader = u}
HashesOf(u) ==
  {c \in Contents :
     \/ \E id \in Ids : IsRow(id) /\ rows[id].owner = u /\ rows[id].content = c
     \/ trash[u][c] > 0}

TransferBytes(u) == RowBytes(Manifest(u))

\* Up to the commit: the manifest, the reservation and the job.
StartDeletion(a, u) ==
  LET j == [recipient |-> a, ids |-> Manifest(u), hashes |-> HashesOf(u),
            room |-> TransferBytes(u), phase |-> "copying"]
  IN
  /\ Handler(a) /\ a \in Admins /\ a # u
  /\ status[u] = "active"
  /\ \A v \in Users : status[v] = "deleting" => job[v].recipient # u
  /\ HasRoom(a, 0, j.room)
  /\ job' = [job EXCEPT ![u] = j]
  /\ status' = [status EXCEPT ![u] = "deleting"]
  /\ run' = Attempt(u, j)
  /\ UNCHANGED <<hashed, rows, trash, blobs, files, server, resume, faults>>

\* Variant: an account in deletion counts as unknown.
RetryRefused(a, u) == FALSE /\ UNCHANGED vars

\* deleteUser for an account already in deletion: finishDeletion again.
Retry(a, u) ==
  /\ Handler(a) /\ a \in Admins /\ a # u
  /\ status[u] = "deleting"
  /\ run' = Attempt(u, job[u])
  /\ UNCHANGED <<hashed, status, rows, trash, blobs, files, job, server, resume,
                 faults>>

-----------------------------------------------------------------------------
(* finishDeletion, one file, transaction or removal at a time.              *)

Doing(u, pc) == run # None /\ run.user = u /\ run.pc = pc
Heir(u) == job[u].recipient
Source(u, id) == [owner |-> u, path |-> rows[id].path, content |-> rows[id].content]
Copy(u, id) ==
  [owner |-> Heir(u), path |-> Under(u, rows[id].path), content |-> rows[id].content]
Unfinished(u, id) == [Copy(u, id) EXCEPT !.path = Staged(@)]
Exists(owner, path) == \E f \in files : f.owner = owner /\ f.path = path

\* copy_file to the staged name, over what an earlier attempt left there.
StageCopy(u, id) ==
  LET copy == Unfinished(u, id) IN
  /\ Doing(u, "copy") /\ id \in run.todo
  /\ Source(u, id) \in files
  /\ ~Exists(Heir(u), Copy(u, id).path) /\ copy \notin files
  /\ files' = WrittenFile(copy.owner, copy.path, copy.content)
  /\ UNCHANGED <<hashed, status, rows, trash, blobs, job, run, server, resume,
                 faults>>

\* durableReplace, verification and the syncs.
PlaceCopy(u, id) ==
  /\ Doing(u, "copy") /\ id \in run.todo
  /\ Source(u, id) \in files /\ Unfinished(u, id) \in files
  /\ ~Exists(Heir(u), Copy(u, id).path)
  /\ files' = (files \ {Unfinished(u, id)}) \cup {Copy(u, id)}
  /\ run' = [run EXCEPT !.todo = @ \ {id}]
  /\ UNCHANGED <<hashed, status, rows, trash, blobs, job, server, resume, faults>>

\* A row whose file is gone stops every attempt.
MissSource(u, id) ==
  /\ Doing(u, "copy") /\ id \in run.todo
  /\ Source(u, id) \notin files
  /\ run' = None
  /\ UNCHANGED <<hashed, status, rows, trash, blobs, files, job, server, resume,
                 faults>>

\* A copy that is there: kept if it is the file, an error if it is not.
AcceptCopy(u, id) ==
  /\ Doing(u, "copy") /\ id \in run.todo
  /\ Source(u, id) \in files /\ Exists(Heir(u), Copy(u, id).path)
  /\ run' = IF Copy(u, id) \in files THEN [run EXCEPT !.todo = @ \ {id}] ELSE None
  /\ UNCHANGED <<hashed, status, rows, trash, blobs, files, job, server, resume,
                 faults>>

Transferred(id, u) ==
  IF rows[id].owner = Shared THEN [rows[id] EXCEPT !.uploader = Heir(u)]
  ELSE [rows[id] EXCEPT !.owner = Heir(u), !.uploader = Heir(u),
                        !.path = Under(u, @)]

\* Variant: replaces nothing and notices nothing.
NoConflict(u) == FALSE

\* A row of the recipient is where a transferred one has to go.
Conflict(u) ==
  \E id \in job[u].ids, i \in Ids :
    /\ IsRow(i) /\ i # id
    /\ rows[i].owner = Transferred(id, u).owner
    /\ rows[i].path = Transferred(id, u).path

\* The transaction: all rows, the phase and the reservation, or an error.
Transfer(u) ==
  /\ Doing(u, "copy") /\ run.todo = {}
  /\ IF Conflict(u)
     THEN run' = None /\ UNCHANGED <<rows, job>>
     ELSE /\ rows' = [id \in Ids |-> IF id \in job[u].ids THEN Transferred(id, u)
                                     ELSE rows[id]]
          /\ job' = [job EXCEPT ![u].phase = "cleanup"]
          /\ run' = [run EXCEPT !.pc = "files"]
  /\ UNCHANGED <<hashed, status, trash, blobs, files, server, resume, faults>>

\* Variant: only the trash and the thumbnails go.
KeepFiles(u) ==
  /\ Doing(u, "files")
  /\ run' = [run EXCEPT !.pc = "rows"]
  /\ UNCHANGED <<hashed, status, rows, trash, blobs, files, job, server, resume,
                 faults>>

\* remove_all of the account's directories.
RemoveFiles(u) ==
  /\ Doing(u, "files")
  /\ files' = {f \in files : f.owner # u}
  /\ run' = [run EXCEPT !.pc = "rows"]
  /\ UNCHANGED <<hashed, status, rows, trash, blobs, job, server, resume, faults>>

RemoveRows(u) ==
  /\ Doing(u, "rows")
  /\ rows' = [id \in Ids |-> IF IsRow(id) /\ rows[id].owner = u THEN None
                             ELSE rows[id]]
  /\ trash' = [trash EXCEPT ![u] = [c \in Contents |-> 0]]
  /\ run' = [user |-> u, pc |-> "blobs",
             todo |-> IF hashed THEN job[u].hashes ELSE {}]
  /\ UNCHANGED <<hashed, status, blobs, files, job, server, resume, faults>>

RemoveBlob(u, c) ==
  /\ Doing(u, "blobs") /\ c \in run.todo
  /\ blobs' = IF Named(c) THEN blobs ELSE blobs \ {c}
  /\ run' = [run EXCEPT !.todo = @ \ {c}]
  /\ UNCHANGED <<hashed, status, rows, trash, files, job, server, resume, faults>>

\* The job and the account go in one transaction.
Finish(u) ==
  /\ Doing(u, "blobs") /\ run.todo = {}
  /\ job' = [job EXCEPT ![u] = None]
  /\ status' = [status EXCEPT ![u] = "gone"]
  /\ run' = None
  /\ UNCHANGED <<hashed, rows, trash, blobs, files, server, resume, faults>>

Step(u) ==
  \/ \E id \in Ids : \/ StageCopy(u, id) \/ PlaceCopy(u, id)
                     \/ MissSource(u, id) \/ AcceptCopy(u, id)
  \/ Transfer(u)
  \/ RemoveFiles(u)
  \/ RemoveRows(u)
  \/ \E c \in Contents : RemoveBlob(u, c)
  \/ Finish(u)

-----------------------------------------------------------------------------
(* Errors, ends of the process and starts.                                  *)

\* An exception of finishDeletion: the storage failed.
Fail ==
  /\ run # None /\ faults < MaxFaults
  /\ run' = None /\ faults' = faults + 1
  /\ UNCHANGED <<hashed, status, rows, trash, blobs, files, job, server, resume>>

Crash ==
  /\ server # "down" /\ faults < MaxFaults
  /\ server' = "down" /\ run' = None /\ resume' = {} /\ faults' = faults + 1
  /\ UNCHANGED <<hashed, status, rows, trash, blobs, files, job>>

\* main: a key rotation that is not over keeps the deletions from resuming.
StartUp(rotating) ==
  /\ server = "down"
  /\ server' = "starting"
  /\ resume' = IF rotating THEN {} ELSE {u \in Users : job[u] # None}
  /\ UNCHANGED <<hashed, status, rows, trash, blobs, files, job, run, faults>>

\* resumeDeletions: each job once, whatever becomes of the others.
Resume(u) ==
  /\ server = "starting" /\ run = None /\ u \in resume
  /\ resume' = resume \ {u}
  /\ run' = Attempt(u, job[u])
  /\ UNCHANGED <<hashed, status, rows, trash, blobs, files, job, server, faults>>

Serve ==
  /\ server = "starting" /\ run = None /\ resume = {}
  /\ server' = "up"
  /\ UNCHANGED <<hashed, status, rows, trash, blobs, files, job, run, resume,
                 faults>>

Next ==
  \/ \E u \in Users, owner \in Owners, n \in Names, c \in Contents, id \in Ids :
       Upload(u, owner, n, c, id)
  \/ \E u \in Users, id \in Ids, flag \in BOOLEAN : SetShared(u, id, flag)
  \/ \E u \in Users, id \in Ids : Discard(u, id)
  \/ \E u \in Users : Reindex(u)
  \/ \E a, u \in Users : StartDeletion(a, u)
  \/ \E a, u \in Users : Retry(a, u)
  \/ \E u \in Users : Step(u)
  \/ Fail
  \/ Crash
  \/ \E rotating \in BOOLEAN : StartUp(rotating)
  \/ \E u \in Users : Resume(u)
  \/ Serve

Progress ==
  \/ \E u \in Users : Step(u) \/ Resume(u)
  \/ \E rotating \in BOOLEAN : StartUp(rotating)
  \/ Serve

\* The process goes on and is started again (the parts of Progress exclude
\* each other); an administrator who is shown an account in deletion tries
\* again for as long as it is there, and gets the lock at last.
Fairness ==
  /\ WF_vars(Progress)
  /\ \A u \in Users : SF_vars(\E a \in Users : Retry(a, u))

Spec == Init /\ [][Next]_vars
FairSpec == Spec /\ Fairness

-----------------------------------------------------------------------------
(* Properties.                                                              *)

Readable(id) ==
  IF hashed THEN rows[id].content \in blobs
  ELSE [owner |-> rows[id].owner, path |-> rows[id].path,
        content |-> rows[id].content] \in files

\* The account's own files are being removed.
Dissolving(u) == status[u] = "deleting" /\ job[u].phase = "cleanup"

(* Through every attempt, failure and restart, a live row has its content:  *)
(* those of others, those transferred, and those still to be transferred;   *)
(* and what the trash of others holds keeps its blob (finishDeletion, the   *)
(* copy loop, the transaction and the removal of blobs).  A staged copy     *)
(* that was indexed by chance is not promised anything.                     *)
ContentKept ==
  /\ \A id \in Ids :
       Live(id) /\ ~rows[id].path.staged =>
         Readable(id) \/ \E u \in Users : rows[id].owner = u /\ Dissolving(u)
  /\ \A u \in Users, c \in Contents :
       hashed /\ trash[u][c] > 0 => c \in blobs

\* What others can see: shared files, and entries of the shared storage.
Offered(id) ==
  /\ Live(id) /\ ~rows[id].path.staged
  /\ rows[id].owner = Shared \/ rows[id].shared

(* A deletion takes no file others can see: it stays a row, and its content *)
(* changes only by an upload of an account that is not in deletion          *)
(* (the manifest of deleteUser, the phases of finishDeletion and getAuth).  *)
SharedSurvives ==
  [][\A id \in Ids : Offered(id) =>
       /\ rows'[id] # None
       /\ rows'[id].content = rows[id].content
            \/ status[rows'[id].uploader] = "active"]_vars

(* An account that is gone leaves nothing behind: no row, no trash, no file *)
(* of its own, nothing uploaded in its name, and no job (finishDeletion;    *)
(* getAuth for queued requests).                                            *)
NothingRemains ==
  \A u \in Users : status[u] = "gone" =>
    /\ \A id \in Ids : IsRow(id) => rows[id].owner # u /\ rows[id].uploader # u
    /\ \A c \in Contents : trash[u][c] = 0
    /\ \A f \in files : f.owner # u
    /\ job[u] = None

\* A file that was there already, a copy of a deletion that failed, became a
\* row of a: it is charged without being asked for.
Indexed(a) ==
  \E id \in Ids :
    /\ ~Live(id) /\ Live(id)' /\ rows'[id].owner = a
    /\ [owner |-> a, path |-> rows'[id].path, content |-> rows'[id].content]
         \in files

\* What a receives has an entry that somebody else replaced meanwhile.
ReplacedArrives(a) ==
  \E u \in Pending(a) :
    /\ u \notin Pending(a)'
    /\ \E id \in job[u].ids : rows[id].uploader # u

(* The room reserved for the files an administrator is to receive is taken  *)
(* by nobody else: what somebody is charged with, and what deletions have   *)
(* reserved with them, never together grow beyond the quota, by uploads of  *)
(* their own, a second deletion or the transfer itself, however often that  *)
(* was interrupted (deleteUser, the reservation without expiry, its release *)
(* in the transaction that transfers, and QuotaService::reserve).           *)
ReservedRoomIsKept ==
  [][\A a \in Users :
       Limit > 0 =>
         \/ Spent(a)' <= Limit \/ Spent(a)' <= Spent(a)
         \/ Indexed(a) \/ ReplacedArrives(a)]_vars

\* A file of the manifest cannot be copied or moved, now or later.
Obstructed(u) ==
  /\ job[u] # None /\ job[u].phase = "copying"
  /\ \/ Conflict(u)
     \/ \E id \in job[u].ids : ~Readable(id)

(* A deletion that failed, or was interrupted and skipped at the start      *)
(* because of a rotation, completes once it is tried again, unless an index *)
(* of a directory with copies in it stands in its way.                      *)
DeletionCompletes ==
  \A u \in Users :
    status[u] = "deleting" ~> (status[u] = "gone" \/ Obstructed(u))

=============================================================================
