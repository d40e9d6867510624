------------------------- MODULE EncryptionRotation -------------------------
(***************************************************************************)
(* The encryption-key rotation of the server                               *)
(* (server/src/services/EncryptionRotationService.cpp), the maintenance    *)
(* gate it closes (StorageActivity.hpp), the part of start-up that resumes *)
(* it (main.cpp, recover) and the storage requests it must keep out.       *)
(*                                                                         *)
(* A blob is storage_root/data/<sha256>; its staged replacement is         *)
(* <sha256>.rotate-new.  A ciphertext is abstracted to the key and the IV  *)
(* it was made with: equal pairs are equal files, so a digest comparison   *)
(* is an equality, and decryption succeeds exactly under the same key.     *)
(*                                                                         *)
(* Every file the rotation writes has two values: what processes see, and  *)
(* what a loss of power leaves (suffix Disk) until its directory is synced.*)
(* The SQLite rows are durable at commit.  What storage requests write is  *)
(* taken as durable at once: their own durability is not the subject here. *)
(***************************************************************************)
EXTENDS Naturals, FiniteSets

CONSTANTS
  Objects,        \* plaintext hashes: the names of blobs
  Keys,           \* encryption keys
  IVs,            \* initialisation vectors
  InitKey,        \* encryption_key of the configuration at first start
  Requests,       \* concurrent storage requests
  Faults,         \* which failures can happen
  MaxRotations,   \* bound on rotations started
  MaxFaults,      \* bound on failed steps
  MaxRestarts,    \* bound on ends of the process
  None            \* absent file, row, lease or environment variable

FaultKinds == {"io", "dirsync", "kill", "power", "environment"}

Jobs == 1 .. MaxRotations
NoJob == 0                      \* job_id ''
Ciphers == [key : Keys, iv : IVs]
KeyRecords == [job : Jobs, old : Keys, new : Keys]
Phases == {"idle", "enumerating", "rotating", "finalizing", "complete"}
Rows == [job : Jobs \cup {NoJob}, phase : Phases]
States == {"pending", "prepared", "done"}
JournalRows ==
  [state : States, old : Ciphers \cup {None}, new : Ciphers \cup {None}]
Leases ==
  [mode : {"handling"}]
    \cup [mode : {"stored", "removed"}, obj : Objects]
    \cup [mode : {"streaming"}, obj : Objects, key : Keys]

ASSUME ConstantsAssumption ==
  /\ InitKey \in Keys
  /\ IVs # {}
  /\ Faults \subseteq FaultKinds
  /\ MaxRotations \in Nat /\ MaxFaults \in Nat /\ MaxRestarts \in Nat

ASSUME NoneAssumption ==
  /\ None \notin Keys /\ None \notin Ciphers /\ None \notin KeyRecords
  /\ None \notin Rows /\ None \notin JournalRows /\ None \notin Leases

VARIABLES
  (* storage_root/data *)
  source, sourceDisk,     \* the blobs
  staged, stagedDisk,     \* their .rotate-new files
  (* encryption-rotation.keys.json and encryption_key of config.local.json *)
  keyFile, keyDisk,
  conf, confDisk,
  (* database *)
  row,                    \* encryption_rotation, its only row
  journal,                \* encryption_objects
  index,                  \* hashes file_index or trash refers to
  (* process *)
  up, stopping,
  env,                    \* CROWLEYS_ENCRYPTION_KEY
  memKey,                 \* config_.encryptionKey
  blocked,                \* StorageActivity::blocked_
  lease,                  \* StorageActivity leases, by request
  starter, startKey,      \* progress of a call of start(), and its newKey
  pc,                     \* the worker thread; running_ is pc # "idle"
  job,                    \* its copy of the key file
  todo, cur,              \* names still to process, and the one in process
  (* bounds *)
  rotations, faults, restarts

blobVars == <<source, sourceDisk, staged, stagedDisk>>
keyVars == <<keyFile, keyDisk>>
confVars == <<conf, confDisk>>
fileVars == <<blobVars, keyVars, confVars>>
dbVars == <<row, journal, index>>
jobVars == <<job, todo, cur>>
workerVars == <<pc, jobVars>>
processVars == <<up, stopping, env, memKey>>
gateVars == <<blocked, lease>>
startVars == <<starter, startKey>>
bounds == <<rotations, faults, restarts>>
vars == <<fileVars, dbVars, workerVars, processVars,
          gateVars, startVars, bounds>>

WorkerSteps ==
  {"idle", "drain", "keys", "check", "journal", "enumerate", "next", "stage",
   "flush", "record", "compare", "syncdir", "finish", "verify", "config",
   "confsync", "complete", "unlink", "unlinksync", "unblock", "exit"}

TypeOK ==
  /\ source \in [Objects -> Ciphers \cup {None}]
  /\ sourceDisk \in [Objects -> Ciphers \cup {None}]
  /\ staged \in [Objects -> Ciphers \cup {None}]
  /\ stagedDisk \in [Objects -> Ciphers \cup {None}]
  /\ keyFile \in KeyRecords \cup {None} /\ keyDisk \in KeyRecords \cup {None}
  /\ conf \in Keys /\ confDisk \in Keys
  /\ row \in Rows \cup {None}
  /\ journal \in [Objects -> JournalRows \cup {None}]
  /\ index \subseteq Objects
  /\ up \in BOOLEAN /\ stopping \in BOOLEAN
  /\ env \in Keys \cup {None} /\ memKey \in Keys
  /\ blocked \in BOOLEAN
  /\ lease \in [Requests -> Leases \cup {None}]
  /\ starter \in {"idle", "write", "sync", "journal", "launch"}
  /\ startKey \in IF starter = "idle" THEN {None} ELSE Keys
  /\ pc \in WorkerSteps
  /\ job \in KeyRecords \cup {None}
  /\ todo \subseteq Objects /\ cur \in Objects \cup {None}
  /\ rotations \in 0 .. MaxRotations
  /\ faults \in 0 .. MaxFaults
  /\ restarts \in 0 .. MaxRestarts

Init ==
  /\ source = [o \in Objects |-> None] /\ sourceDisk = source
  /\ staged = [o \in Objects |-> None] /\ stagedDisk = staged
  /\ keyFile = None /\ keyDisk = None
  /\ conf = InitKey /\ confDisk = InitKey
  /\ row = None /\ journal = [o \in Objects |-> None] /\ index = {}
  /\ up = TRUE /\ stopping = FALSE /\ env = None /\ memKey = InitKey
  /\ blocked = FALSE /\ lease = [r \in Requests |-> None]
  /\ starter = "idle" /\ startKey = None
  /\ pc = "idle" /\ job = None /\ todo = {} /\ cur = None
  /\ rotations = 0 /\ faults = 0 /\ restarts = 0

Present == {o \in Objects : source[o] # None}
Journalled == {o \in Objects : journal[o] # None}

-----------------------------------------------------------------------------
(* Storage requests.  A handler holds configMutex shared from before        *)
(* enter() to its return; a streamed download keeps only the lease and the  *)
(* key it opened the file with.  Handlers that change files also hold       *)
(* storageMutex.                                                            *)

Handling(r) == lease[r] # None /\ lease[r].mode # "streaming"
Mutating(r) == lease[r] # None /\ lease[r].mode \in {"stored", "removed"}

\* enter(): refused once the gate is closed.  start() and
\* finishEncryptionRotation() hold configMutex exclusively.
BeginRequest(r) ==
  /\ up /\ ~stopping /\ starter = "idle"
  /\ lease[r] = None /\ ~blocked
  /\ lease' = [lease EXCEPT ![r] = [mode |-> "handling"]]
  /\ UNCHANGED <<fileVars, dbVars, workerVars, processVars, blocked,
                 startVars, bounds>>

\* An upload encrypts into a private file and renames it over data/<hash>,
\* whether or not that blob already exists.
StoreBlob(r, o) ==
  /\ up /\ lease[r] = [mode |-> "handling"]
  /\ ~ \E other \in Requests : Mutating(other)
  /\ \E iv \in IVs :
       /\ source' = [source EXCEPT ![o] = [key |-> memKey, iv |-> iv]]
       /\ sourceDisk' = [sourceDisk EXCEPT ![o] = [key |-> memKey, iv |-> iv]]
  /\ lease' = [lease EXCEPT ![r] = [mode |-> "stored", obj |-> o]]
  /\ UNCHANGED <<staged, stagedDisk, keyVars, confVars, dbVars, workerVars,
                 processVars, blocked, startVars, bounds>>

\* ... and then writes the index row.
IndexBlob(r) ==
  /\ up /\ lease[r] # None /\ lease[r].mode = "stored"
  /\ index' = index \cup {lease[r].obj}
  /\ lease' = [lease EXCEPT ![r] = [mode |-> "handling"]]
  /\ UNCHANGED <<fileVars, row, journal, workerVars, processVars, blocked,
                 startVars, bounds>>

\* Deleting for good removes the last reference's blob first ...
RemoveBlob(r, o) ==
  /\ up /\ lease[r] = [mode |-> "handling"]
  /\ ~ \E other \in Requests : Mutating(other)
  /\ o \in index
  /\ source' = [source EXCEPT ![o] = None]
  /\ sourceDisk' = [sourceDisk EXCEPT ![o] = None]
  /\ lease' = [lease EXCEPT ![r] = [mode |-> "removed", obj |-> o]]
  /\ UNCHANGED <<staged, stagedDisk, keyVars, confVars, dbVars, workerVars,
                 processVars, blocked, startVars, bounds>>

\* ... and the rows afterwards.
UnindexBlob(r) ==
  /\ up /\ lease[r] # None /\ lease[r].mode = "removed"
  /\ index' = index \ {lease[r].obj}
  /\ lease' = [lease EXCEPT ![r] = [mode |-> "handling"]]
  /\ UNCHANGED <<fileVars, row, journal, workerVars, processVars, blocked,
                 startVars, bounds>>

\* A download returns its handler and goes on streaming under the lease.
OpenStream(r, o) ==
  /\ up /\ lease[r] = [mode |-> "handling"]
  /\ o \in index /\ source[o] # None
  /\ lease' = [lease EXCEPT ![r] =
                 [mode |-> "streaming", obj |-> o, key |-> memKey]]
  /\ UNCHANGED <<fileVars, dbVars, workerVars, processVars, blocked,
                 startVars, bounds>>

\* The last owner of the lease lets go of it: ~Lease().
FinishRequest(r) ==
  /\ up /\ lease[r] # None /\ ~Mutating(r)
  /\ lease' = [lease EXCEPT ![r] = None]
  /\ UNCHANGED <<fileVars, dbVars, workerVars, processVars, blocked,
                 startVars, bounds>>

-----------------------------------------------------------------------------
(* start(): under workerMutex and configMutex, exclusively.                 *)

\* Variant: a phase no reader of the row knows.
SetUnknownPhase(p) ==
  row' = [row EXCEPT !.phase = IF p = "finalizing" THEN "finalised" ELSE p]

SetPhase(p) == row' = [row EXCEPT !.phase = p]

JournalConflict(j) ==
  row # None /\ row.job # j.job /\ row.phase # "complete"

\* initializeJournal(): the row of this job is kept, a finished one replaced.
InitializeJournal(j) ==
  /\ ~JournalConflict(j)
  /\ IF row # None /\ row.job = j.job
       THEN UNCHANGED <<row, journal>>
       ELSE /\ row' = [job |-> j.job, phase |-> "enumerating"]
            /\ journal' = [o \in Objects |-> None]

Fault(kind) == kind \in Faults /\ faults < MaxFaults /\ faults' = faults + 1

StartGuard(k) ==
  /\ up /\ ~stopping /\ starter = "idle"
  /\ \A r \in Requests : ~Handling(r)
  /\ pc = "idle" /\ ~blocked /\ keyFile = None
  /\ env = None
  /\ k # memKey

StartRotation(k) ==
  /\ StartGuard(k)
  /\ rotations < MaxRotations
  /\ blocked' = TRUE
  /\ starter' = "write" /\ startKey' = k
  /\ UNCHANGED <<fileVars, dbVars, workerVars, processVars, lease, bounds>>

\* writePrivateAtomic(keyPath): the rename is visible before it is durable.
StartWritesKeys ==
  /\ up /\ starter = "write"
  /\ rotations' = rotations + 1
  /\ keyFile' = [job |-> rotations + 1, old |-> memKey, new |-> startKey]
  /\ starter' = "sync" /\ UNCHANGED startKey
  /\ UNCHANGED <<blobVars, keyDisk, confVars, dbVars, workerVars, processVars,
                 gateVars, faults, restarts>>

StartSyncsKeys ==
  /\ up /\ starter = "sync"
  /\ keyDisk' = keyFile
  /\ starter' = "journal" /\ UNCHANGED startKey
  /\ UNCHANGED <<blobVars, keyFile, confVars, dbVars, workerVars, processVars,
                 gateVars, bounds>>

StartInitializesJournal ==
  /\ up /\ starter = "journal"
  /\ InitializeJournal(keyFile)
  /\ starter' = "launch" /\ UNCHANGED startKey
  /\ UNCHANGED <<fileVars, index, workerVars, processVars, gateVars, bounds>>

StartLaunches ==
  /\ up /\ starter = "launch"
  /\ pc' = "drain"
  /\ starter' = "idle" /\ startKey' = None
  /\ UNCHANGED <<fileVars, dbVars, jobVars, processVars, gateVars, bounds>>

\* The catch of start(): the gate reopens only if no key file was left.
StartFails ==
  /\ up /\ starter # "idle"
  /\ \/ starter \in {"write", "journal"} /\ Fault("io")
     \/ starter = "sync" /\ Fault("dirsync")
     \/ starter = "journal" /\ JournalConflict(keyFile) /\ faults' = faults
  /\ blocked' = (keyFile # None)
  /\ starter' = "idle" /\ startKey' = None
  /\ UNCHANGED <<fileVars, dbVars, workerVars, processVars, lease, rotations,
                 restarts>>

\* resume(): a new worker for a rotation that paused.
Resume ==
  /\ up /\ ~stopping /\ starter = "idle"
  /\ pc = "idle" /\ blocked
  /\ pc' = "drain"
  /\ UNCHANGED <<fileVars, dbVars, jobVars, processVars, gateVars, startVars,
                 bounds>>

-----------------------------------------------------------------------------
(* run(), step by step; processObject() is "stage" to "finish".             *)

RunUnchanged == UNCHANGED <<index, processVars, lease, startVars, rotations,
                            restarts>>

WorkerAt(step) == up /\ pc = step

Goto(from, to) == WorkerAt(from) /\ pc' = to /\ RunUnchanged

Drain ==
  /\ WorkerAt("drain")
  /\ \/ (\A r \in Requests : lease[r] = None) /\ pc' = "keys"
     \/ (\E r \in Requests : lease[r] # None) /\ stopping /\ pc' = "idle"
  /\ RunUnchanged
  /\ UNCHANGED <<fileVars, row, journal, jobVars, blocked, faults>>

ReadKeys ==
  /\ Goto("keys", "check") /\ keyFile # None
  /\ job' = keyFile
  /\ UNCHANGED <<fileVars, row, journal, todo, cur, blocked, faults>>

CheckConfiguration ==
  /\ Goto("check", "journal") /\ memKey \in {job.old, job.new}
  /\ UNCHANGED <<fileVars, row, journal, jobVars, blocked, faults>>

EnsureJournal ==
  /\ Goto("journal", "enumerate") /\ InitializeJournal(job)
  /\ UNCHANGED <<fileVars, jobVars, blocked, faults>>

\* enumerate() is one transaction; a later run keeps its result.
Enumerate ==
  /\ Goto("enumerate", "next")
  /\ \/ /\ row.phase = "enumerating"
        /\ index \subseteq Present
        /\ journal' = [o \in Objects |->
             IF o \in Present
               THEN [state |-> "pending", old |-> None, new |-> None]
               ELSE None]
        /\ SetPhase("rotating")
     \/ row.phase # "enumerating" /\ UNCHANGED <<row, journal>>
  /\ todo' = {o \in Objects : journal'[o] # None}
  /\ UNCHANGED <<fileVars, job, cur, blocked, faults>>

NextObject ==
  /\ WorkerAt("next") /\ ~stopping /\ todo # {}
  /\ \E o \in todo :
       /\ cur' = o
       /\ pc' = IF journal[o].state = "pending" THEN "stage" ELSE "compare"
  /\ RunUnchanged
  /\ UNCHANGED <<fileVars, row, journal, job, todo, blocked, faults>>

\* A requested stop is honoured between two objects and before verification.
StopBetweenObjects ==
  /\ pc \in {"next", "verify"} /\ up /\ stopping
  /\ pc = "next" => todo # {}
  /\ pc' = "idle"
  /\ RunUnchanged
  /\ UNCHANGED <<fileVars, row, journal, jobVars, blocked, faults>>

\* reencryptFile() into a fresh .rotate-new, with a fresh IV.
Stage ==
  /\ Goto("stage", "flush")
  /\ source[cur] # None /\ source[cur].key = job.old
  /\ \E iv \in IVs :
       staged' = [staged EXCEPT ![cur] = [key |-> job.new, iv |-> iv]]
  /\ UNCHANGED <<source, sourceDisk, stagedDisk, keyVars, confVars, row,
                 journal, jobVars, blocked, faults>>

SyncData == sourceDisk' = source /\ stagedDisk' = staged

FlushStaged ==
  /\ Goto("flush", "record")
  /\ SyncData
  /\ UNCHANGED <<source, staged, keyVars, confVars, row, journal, jobVars,
                 blocked, faults>>

RecordPrepared ==
  /\ Goto("record", "compare")
  /\ journal' = [journal EXCEPT ![cur] =
       [state |-> "prepared", old |-> source[cur], new |-> staged[cur]]]
  /\ UNCHANGED <<fileVars, row, jobVars, blocked, faults>>

\* Variant: an object already replaced is not recognised.
NeverReplaced == FALSE

Replaced == source[cur] = journal[cur].new

Replaceable ==
  /\ source[cur] = journal[cur].old
  /\ staged[cur] # None /\ staged[cur] = journal[cur].new
  /\ staged[cur].key = job.new

\* The digests tell an object that was replaced before a crash from one that
\* was not; the second is replaced by rename.
Replace ==
  /\ WorkerAt("compare")
  /\ source[cur] # None
  /\ \/ /\ Replaced
        /\ pc' = "finish" /\ UNCHANGED <<source, staged>>
     \/ /\ ~Replaced /\ Replaceable
        /\ source' = [source EXCEPT ![cur] = staged[cur]]
        /\ staged' = [staged EXCEPT ![cur] = None]
        /\ pc' = "syncdir"
  /\ RunUnchanged
  /\ UNCHANGED <<sourceDisk, stagedDisk, keyVars, confVars, row, journal,
                 jobVars, blocked, faults>>

\* Variant: the renamed object is not synced.
SyncReplacedLater ==
  /\ Goto("syncdir", "finish")
  /\ UNCHANGED <<fileVars, row, journal, jobVars, blocked, faults>>

SyncReplaced ==
  /\ Goto("syncdir", "finish")
  /\ SyncData
  /\ UNCHANGED <<source, staged, keyVars, confVars, row, journal, jobVars,
                 blocked, faults>>

FinishObject ==
  /\ Goto("finish", "next")
  /\ journal' = [journal EXCEPT ![cur].state = "done"]
  /\ todo' = todo \ {cur}
  /\ UNCHANGED <<fileVars, row, job, cur, blocked, faults>>

BeginFinalizing ==
  /\ Goto("next", "verify") /\ todo = {}
  /\ SetPhase("finalizing")
  /\ UNCHANGED <<fileVars, journal, jobVars, blocked, faults>>

AllVerified ==
  \A o \in Journalled : source[o] # None /\ source[o].key = job.new

\* Variant: the keys are removed before the configuration is written.
VerifyThenUnlink ==
  /\ Goto("verify", "unlink") /\ ~stopping /\ AllVerified
  /\ UNCHANGED <<fileVars, row, journal, jobVars, blocked, faults>>

Verify ==
  /\ Goto("verify", "config") /\ ~stopping /\ AllVerified
  /\ UNCHANGED <<fileVars, row, journal, jobVars, blocked, faults>>

\* finishEncryptionRotation(): persist() renames the configuration ...
PersistConfiguration ==
  /\ Goto("config", "confsync")
  /\ \A r \in Requests : ~Handling(r)
  /\ env = None /\ memKey \in {job.old, job.new}
  /\ conf' = job.new
  /\ UNCHANGED <<blobVars, keyVars, confDisk, row, journal, jobVars, blocked,
                 faults>>

\* Variant: the configuration in memory keeps the old key.
AdoptKeyOnDiskOnly ==
  /\ WorkerAt("confsync")
  /\ confDisk' = conf
  /\ pc' = "complete"
  /\ UNCHANGED <<blobVars, keyVars, conf, dbVars, jobVars, processVars,
                 gateVars, startVars, bounds>>

\* ... syncs its directory, and only then is the key used.
AdoptKey ==
  /\ WorkerAt("confsync")
  /\ confDisk' = conf
  /\ memKey' = job.new
  /\ pc' = "complete"
  /\ UNCHANGED <<blobVars, keyVars, conf, dbVars, jobVars, up, stopping, env,
                 gateVars, startVars, bounds>>

MarkComplete ==
  /\ Goto("complete", "unlink")
  /\ SetPhase("complete")
  /\ UNCHANGED <<fileVars, journal, jobVars, blocked, faults>>

RemoveKeys ==
  /\ Goto("unlink", "unlinksync")
  /\ keyFile' = None
  /\ UNCHANGED <<blobVars, keyDisk, confVars, row, journal, jobVars, blocked,
                 faults>>

SyncRemovedKeys ==
  /\ Goto("unlinksync", "unblock")
  /\ keyDisk' = keyFile
  /\ UNCHANGED <<blobVars, keyFile, confVars, row, journal, jobVars, blocked,
                 faults>>

Reopen ==
  /\ Goto("unblock", "exit")
  /\ blocked' = FALSE
  /\ UNCHANGED <<fileVars, row, journal, jobVars, faults>>

\* running_ = false.
WorkerExits ==
  /\ Goto("exit", "idle")
  /\ UNCHANGED <<fileVars, row, journal, jobVars, blocked, faults>>

(* What makes a step throw, besides a failing disk.                         *)
Refused ==
  \/ pc = "keys" /\ keyFile = None
  \/ pc = "check" /\ memKey \notin {job.old, job.new}
  \/ pc = "journal" /\ JournalConflict(job)
  \/ pc = "enumerate" /\ row.phase = "enumerating" /\ ~(index \subseteq Present)
  \/ pc = "stage" /\ (source[cur] = None \/ source[cur].key # job.old)
  \/ pc = "compare" /\ (source[cur] = None \/ ~(Replaced \/ Replaceable))
  \/ pc = "verify" /\ ~stopping /\ ~AllVerified
  \/ pc = "config" /\ (env # None \/ memKey \notin {job.old, job.new})

\* Variant: every failure opens the gate.
PauseReopens ==
  /\ up
  /\ \/ Refused /\ faults' = faults
     \/ pc = "stage" /\ Fault("io")
  /\ row' = IF row = None THEN [job |-> NoJob, phase |-> "idle"] ELSE row
  /\ blocked' = FALSE
  /\ pc' = "exit"
  /\ UNCHANGED <<fileVars, journal, index, jobVars, processVars, lease,
                 startVars, rotations, restarts>>

\* The catch of run(): the error code is stored, in a new row if there was
\* none, and only a rotation whose keys are already gone reopens the gate.
Pause ==
  /\ up
  /\ \/ Refused /\ faults' = faults
     \/ /\ pc \in {"keys", "journal", "enumerate", "stage", "record", "compare",
                   "finish", "verify", "config", "complete", "unlink"}
        /\ Fault("io")
     \/ pc \in {"flush", "syncdir", "confsync", "unlinksync"} /\ Fault("dirsync")
  /\ row' = IF row = None THEN [job |-> NoJob, phase |-> "idle"] ELSE row
  /\ blocked' = (blocked /\ ~(row'.phase = "complete" /\ keyFile = None))
  /\ pc' = "exit"
  /\ UNCHANGED <<fileVars, journal, index, jobVars, processVars, lease,
                 startVars, rotations, restarts>>

Run ==
  \/ Drain \/ ReadKeys \/ CheckConfiguration \/ EnsureJournal \/ Enumerate
  \/ NextObject \/ StopBetweenObjects \/ Stage \/ FlushStaged
  \/ RecordPrepared \/ Replace \/ SyncReplaced \/ FinishObject
  \/ BeginFinalizing \/ Verify \/ PersistConfiguration \/ AdoptKey
  \/ MarkComplete \/ RemoveKeys \/ SyncRemovedKeys \/ Reopen
  \/ Pause \/ WorkerExits

-----------------------------------------------------------------------------
(* The process: shutdown, failure, start-up.                                *)

\* Everything the process held in memory is gone.
ForgetProcess ==
  /\ up' = FALSE /\ stopping' = FALSE /\ env' = None
  /\ blocked' = FALSE /\ lease' = [r \in Requests |-> None]
  /\ starter' = "idle" /\ startKey' = None
  /\ pc' = "idle" /\ job' = None /\ todo' = {} /\ cur' = None

\* The event loop has quit: no handler runs, streams may still hold a lease.
Shutdown ==
  /\ up /\ ~stopping /\ starter = "idle"
  /\ \A r \in Requests : ~Handling(r)
  /\ restarts < MaxRestarts
  /\ stopping' = TRUE
  /\ UNCHANGED <<fileVars, dbVars, workerVars, up, env, memKey, gateVars,
                 startVars, bounds>>

\* ~EncryptionRotationService() has joined the worker; main returns.
ExitProcess ==
  /\ up /\ stopping /\ pc = "idle" /\ restarts < MaxRestarts
  /\ restarts' = restarts + 1
  /\ ForgetProcess
  /\ UNCHANGED <<fileVars, dbVars, memKey, rotations, faults>>

\* The process dies; the kernel keeps what it had written.
Kill ==
  /\ "kill" \in Faults /\ up /\ restarts < MaxRestarts
  /\ restarts' = restarts + 1
  /\ ForgetProcess
  /\ UNCHANGED <<fileVars, dbVars, memKey, rotations, faults>>

\* The machine loses power: what was not synced survives or is undone, the
\* two names of an object together, since one rename changed both.
LosePower ==
  /\ "power" \in Faults /\ up /\ restarts < MaxRestarts
  /\ restarts' = restarts + 1
  /\ ForgetProcess
  /\ \E undone \in SUBSET Objects :
       /\ source' = [o \in Objects |->
            IF o \in undone THEN sourceDisk[o] ELSE source[o]]
       /\ staged' = [o \in Objects |->
            IF o \in undone THEN stagedDisk[o] ELSE staged[o]]
  /\ sourceDisk' = source' /\ stagedDisk' = staged'
  /\ keyFile' \in {keyFile, keyDisk} /\ keyDisk' = keyFile'
  /\ conf' \in {conf, confDisk} /\ confDisk' = conf'
  /\ UNCHANGED <<dbVars, memKey, rotations, faults>>

\* What recover() looks at.
Unfinished ==
  keyFile # None \/ (row # None /\ row.phase \notin {"idle", "complete"})

\* loadConfig() and recover().  An operator may set CROWLEYS_ENCRYPTION_KEY to
\* any key while a rotation is unfinished; at other times only the key in use
\* would be correct, and the variable is then left unset.
Boot ==
  /\ ~up
  /\ up' = TRUE
  /\ env' \in {None} \cup (IF "environment" \in Faults /\ keyFile # None
                             THEN Keys ELSE {})
  /\ memKey' = IF env' = None THEN conf ELSE env'
  /\ blocked' = Unfinished
  /\ pc' = IF Unfinished THEN "drain" ELSE "idle"
  /\ UNCHANGED <<fileVars, dbVars, stopping, lease, startVars, jobVars,
                 bounds>>

-----------------------------------------------------------------------------
Serve(r) ==
  \/ BeginRequest(r) \/ IndexBlob(r) \/ UnindexBlob(r) \/ FinishRequest(r)
  \/ \E o \in Objects : StoreBlob(r, o) \/ RemoveBlob(r, o) \/ OpenStream(r, o)

Start ==
  \/ \E k \in Keys : StartRotation(k)
  \/ StartWritesKeys \/ StartSyncsKeys \/ StartInitializesJournal
  \/ StartLaunches \/ StartFails

Next ==
  \/ \E r \in Requests : Serve(r)
  \/ Start
  \/ Resume
  \/ Run
  \/ Shutdown \/ ExitProcess \/ Kill \/ LosePower \/ Boot

Spec == Init /\ [][Next]_vars

(* The worker and a call of start() are threads of the server; handlers and *)
(* streams end; a stopped server is started again and, as the               *)
(* administration guide asks, a paused rotation is continued.               *)
Fairness ==
  /\ WF_vars(Run)
  /\ WF_vars(StartWritesKeys \/ StartSyncsKeys \/ StartInitializesJournal
               \/ StartLaunches \/ StartFails)
  /\ \A r \in Requests :
       WF_vars(IndexBlob(r) \/ UnindexBlob(r) \/ FinishRequest(r))
  /\ WF_vars(Resume)
  /\ WF_vars(ExitProcess)
  /\ WF_vars(Boot)

FairSpec == Spec /\ Fairness

-----------------------------------------------------------------------------
(* Properties                                                               *)

KeysOf(f) == IF f = None THEN {} ELSE {f.old, f.new}

(* Objects are replaced only behind a closed and drained gate: a worker     *)
(* past drain() sees no lease, not even that of a download still streaming. *)
WorkerAlone ==
  (up /\ pc \notin {"idle", "drain", "exit"})
    => blocked /\ \A r \in Requests : lease[r] = None

(* Whenever the gate is open, every referenced blob decrypts under the key  *)
(* the configuration holds in memory; so does every blob a response is      *)
(* still streaming, under the key the response captured.                    *)
ServedUnderCurrentKey ==
  up => \A o \in index :
    source[o] # None =>
      /\ ~blocked => source[o].key = memKey
      /\ \A r \in Requests :
           lease[r] # None /\ lease[r].mode = "streaming" /\ lease[r].obj = o
             => source[o].key = lease[r].key

(* At every moment the key of every referenced blob is in the configuration *)
(* file or in the key file: killing the server there loses nothing.         *)
Recoverable ==
  \A o \in index :
    source[o] # None => source[o].key \in {conf} \cup KeysOf(keyFile)

(* The same after a loss of power, whichever of the unsynced renames it     *)
(* undoes.                                                                  *)
SurvivesPowerLoss ==
  \A o \in index :
    \A c \in {source[o], sourceDisk[o]} \ {None} :
      \A k \in {conf, confDisk} :
        \A f \in {keyFile, keyDisk} : c.key \in {k} \cup KeysOf(f)

(* A journal row that belongs to no job yet is not finished either: every   *)
(* later initializeJournal() refuses it.                                    *)
OrphanRow == row # None /\ row.job = NoJob

Dangling == ~(index \subseteq Present)

(* Retrying never meets a state it refuses, whatever the crash or failure   *)
(* it resumes from, but for the three the administrator has to know of: a   *)
(* reference to a missing blob, a key forced by the environment, and the    *)
(* journal row of a run that failed before it had a journal.                *)
RefusesOnlyForCause ==
  (up /\ Refused) => Dangling \/ env # None \/ OrphanRow

(* Unless one of the causes above is met, a rotation that was begun is      *)
(* completed: its keys are gone and the gate is open.                       *)
RotationCompletes ==
  [](~Dangling /\ ~OrphanRow)
    => (Unfinished ~> (up /\ ~blocked /\ keyFile = None))

(* docs/administration.md:72: "On failure, repair the storage problem and   *)
(* use Continue; startup also resumes unfinished work."                     *)
ContinueCompletes == Unfinished ~> (up /\ ~blocked)

(* A server in maintenance, or down, keeps the promise of BlobVault.        *)
Vault ==
  INSTANCE BlobVault WITH
    Readers <- Requests,
    mode <- IF up /\ ~blocked THEN "open" ELSE "closed",
    objects <- {o \in index :
                  source[o] # None
                    /\ (up /\ ~blocked => source[o].key = memKey)},
    reading <- [r \in Requests |->
                  IF lease[r] # None /\ lease[r].mode = "streaming"
                    THEN lease[r].obj ELSE None],
    key <- memKey

KeepsVaultPromise == Vault!Spec
=============================================================================
