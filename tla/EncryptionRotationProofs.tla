--------------------- MODULE EncryptionRotationProofs ---------------------
(***************************************************************************)
(* Theorems of EncryptionRotation, for every value of its constants.       *)
(***************************************************************************)
EXTENDS EncryptionRotation, TLAPS

-----------------------------------------------------------------------------
(* The gate.  A thread past drain() owns the storage because the gate is    *)
(* closed whenever a worker or a call of start() is under way, because a    *)
(* closed gate admits nobody, and because start() closed it while no        *)
(* handler was running.                                                     *)

Gate ==
  /\ ~up => /\ pc = "idle" /\ starter = "idle"
            /\ \A r \in Requests : lease[r] = None
  /\ starter # "idle" => blocked /\ pc = "idle"
  /\ pc \notin {"idle", "exit"} => blocked
  /\ pc \notin {"idle", "drain", "exit"} =>
       \A r \in Requests : lease[r] = None
  /\ blocked => \A r \in Requests : ~Handling(r)

LEMMA InitGate == Init => Gate
BY DEF Init, Gate, Handling

LEMMA ServeGate ==
  ASSUME TypeOK, Gate, NEW r \in Requests, Serve(r)
  PROVE  Gate'
<1> USE DEF TypeOK, Gate, Handling, Leases,
            fileVars, blobVars, keyVars, confVars, dbVars, workerVars, jobVars,
            processVars, gateVars, startVars, bounds
<1>1. CASE BeginRequest(r)
  BY <1>1, NoneAssumption DEF BeginRequest
<1>2. CASE IndexBlob(r)
  BY <1>2, NoneAssumption DEF IndexBlob
<1>3. CASE UnindexBlob(r)
  BY <1>3, NoneAssumption DEF UnindexBlob
<1>4. CASE FinishRequest(r)
  BY <1>4 DEF FinishRequest
<1>5. ASSUME NEW o \in Objects, StoreBlob(r, o) PROVE Gate'
  BY <1>5, NoneAssumption DEF StoreBlob
<1>6. ASSUME NEW o \in Objects, RemoveBlob(r, o) PROVE Gate'
  BY <1>6, NoneAssumption DEF RemoveBlob
<1>7. ASSUME NEW o \in Objects, OpenStream(r, o) PROVE Gate'
  BY <1>7, NoneAssumption DEF OpenStream
<1> HIDE DEF TypeOK, Gate
<1> QED
  BY <1>1, <1>2, <1>3, <1>4, <1>5, <1>6, <1>7 DEF Serve

LEMMA StartGate ==
  ASSUME TypeOK, Gate, Start \/ Resume
  PROVE  Gate'
<1> USE DEF Gate, Handling,
            fileVars, blobVars, keyVars, confVars, dbVars, workerVars, jobVars,
            processVars, gateVars, startVars, bounds
<1>1. ASSUME NEW k \in Keys, StartRotation(k) PROVE Gate'
  BY <1>1 DEF StartRotation, StartGuard
<1>2. CASE StartWritesKeys
  BY <1>2 DEF StartWritesKeys
<1>3. CASE StartSyncsKeys
  BY <1>3 DEF StartSyncsKeys
<1>4. CASE StartInitializesJournal
  BY <1>4 DEF StartInitializesJournal
<1>5. CASE StartLaunches
  BY <1>5 DEF StartLaunches
<1>6. CASE StartFails
  BY <1>6 DEF StartFails
<1>7. CASE Resume
  BY <1>7 DEF Resume
<1> HIDE DEF TypeOK, Gate
<1> QED
  BY <1>1, <1>2, <1>3, <1>4, <1>5, <1>6, <1>7 DEF Start

(* Every step of run() but the last keeps the gate closed, and leaves the   *)
(* leases alone.                                                            *)
LEMMA RunGate ==
  ASSUME TypeOK, Gate, Run
  PROVE  Gate'
<1> USE DEF RunUnchanged, WorkerAt, Goto, processVars, gateVars, startVars
<1>1. lease' = lease /\ starter' = starter /\ up' = up
  BY DEF Run, Drain, ReadKeys, CheckConfiguration, EnsureJournal, Enumerate,
         NextObject, StopBetweenObjects, Stage, FlushStaged, RecordPrepared,
         Replace, SyncReplaced, FinishObject, BeginFinalizing, Verify,
         PersistConfiguration, AdoptKey, MarkComplete, RemoveKeys,
         SyncRemovedKeys, Reopen, Pause, Refused, WorkerExits
<1>2. up /\ pc # "idle"
  BY DEF Run, Drain, ReadKeys, CheckConfiguration, EnsureJournal, Enumerate,
         NextObject, StopBetweenObjects, Stage, FlushStaged, RecordPrepared,
         Replace, SyncReplaced, FinishObject, BeginFinalizing, Verify,
         PersistConfiguration, AdoptKey, MarkComplete, RemoveKeys,
         SyncRemovedKeys, Reopen, Pause, Refused, WorkerExits
<1>3. blocked' => blocked
  BY DEF Run, Drain, ReadKeys, CheckConfiguration, EnsureJournal, Enumerate,
         NextObject, StopBetweenObjects, Stage, FlushStaged, RecordPrepared,
         Replace, SyncReplaced, FinishObject, BeginFinalizing, Verify,
         PersistConfiguration, AdoptKey, MarkComplete, RemoveKeys,
         SyncRemovedKeys, Reopen, Pause, Refused, WorkerExits
<1>4. \/ pc' \in {"idle", "exit"}
      \/ blocked' = blocked /\ pc # "exit"
  BY DEF Run, Drain, ReadKeys, CheckConfiguration, EnsureJournal, Enumerate,
         NextObject, StopBetweenObjects, Stage, FlushStaged, RecordPrepared,
         Replace, SyncReplaced, FinishObject, BeginFinalizing, Verify,
         PersistConfiguration, AdoptKey, MarkComplete, RemoveKeys,
         SyncRemovedKeys, Reopen, Pause, Refused, WorkerExits
<1>5. \/ pc' \in {"idle", "exit"}
      \/ pc # "drain"
      \/ \A r \in Requests : lease[r] = None
  BY DEF Run, Drain, ReadKeys, CheckConfiguration, EnsureJournal, Enumerate,
         NextObject, StopBetweenObjects, Stage, FlushStaged, RecordPrepared,
         Replace, SyncReplaced, FinishObject, BeginFinalizing, Verify,
         PersistConfiguration, AdoptKey, MarkComplete, RemoveKeys,
         SyncRemovedKeys, Reopen, Pause, Refused, WorkerExits
<1> QED
  BY <1>1, <1>2, <1>3, <1>4, <1>5 DEF Gate, Handling

LEMMA ProcessGate ==
  ASSUME TypeOK, Gate, Shutdown \/ ExitProcess \/ Kill \/ LosePower \/ Boot
  PROVE  Gate'
<1> USE DEF Gate, Handling, workerVars, jobVars, gateVars, startVars
<1>1. CASE Shutdown
  BY <1>1 DEF Shutdown
<1>2. CASE ExitProcess \/ Kill \/ LosePower
  BY <1>2 DEF ExitProcess, Kill, LosePower, ForgetProcess
<1>3. CASE Boot
  BY <1>3 DEF Boot
<1> QED
  BY <1>1, <1>2, <1>3

-----------------------------------------------------------------------------
(* Type correctness.  A step reads the key file, its copy, the journal row  *)
(* or the current object only where an earlier step has set it.             *)

AfterKeys == WorkerSteps \ {"idle", "drain", "keys", "exit"}
AfterJournal == AfterKeys \ {"check", "journal"}
ObjectSteps == {"stage", "flush", "record", "compare", "syncdir", "finish"}

Local ==
  /\ starter = "write" => rotations < MaxRotations
  /\ starter \in {"sync", "journal", "launch"} => keyFile # None
  /\ pc \in AfterKeys => job # None
  /\ pc \in AfterJournal => row # None
  /\ pc \in ObjectSteps \cup {"next"} => todo \subseteq Journalled
  /\ pc \in ObjectSteps => cur \in Journalled

LEMMA InitType == Init => TypeOK /\ Local
<1> SUFFICES ASSUME Init PROVE TypeOK /\ Local
  OBVIOUS
<1>1. 0 \in 0 .. MaxRotations /\ 0 \in 0 .. MaxFaults /\ 0 \in 0 .. MaxRestarts
  BY ConstantsAssumption
<1> QED
  BY <1>1, ConstantsAssumption
  DEF Init, TypeOK, Local, WorkerSteps, AfterKeys, AfterJournal, ObjectSteps

LEMMA ServeType ==
  ASSUME TypeOK, Local, NEW r \in Requests, Serve(r)
  PROVE  TypeOK' /\ Local'
<1> USE DEF TypeOK, Local, Journalled,
            fileVars, blobVars, keyVars, confVars, dbVars, workerVars, jobVars,
            processVars, gateVars, startVars, bounds
<1>1. CASE BeginRequest(r)
  BY <1>1 DEF BeginRequest, Leases
<1>2. CASE IndexBlob(r)
  BY <1>2, NoneAssumption DEF IndexBlob, Leases
<1>3. CASE UnindexBlob(r)
  BY <1>3, NoneAssumption DEF UnindexBlob, Leases
<1>4. CASE FinishRequest(r)
  BY <1>4 DEF FinishRequest
<1>5. ASSUME NEW o \in Objects, StoreBlob(r, o) PROVE TypeOK' /\ Local'
  BY <1>5 DEF StoreBlob, Leases, Ciphers
<1>6. ASSUME NEW o \in Objects, RemoveBlob(r, o) PROVE TypeOK' /\ Local'
  BY <1>6 DEF RemoveBlob, Leases
<1>7. ASSUME NEW o \in Objects, OpenStream(r, o) PROVE TypeOK' /\ Local'
  BY <1>7 DEF OpenStream, Leases
<1> HIDE DEF TypeOK, Local
<1> QED
  BY <1>1, <1>2, <1>3, <1>4, <1>5, <1>6, <1>7 DEF Serve

LEMMA InitializeJournalType ==
  ASSUME TypeOK, NEW j \in KeyRecords, InitializeJournal(j)
  PROVE  /\ row' \in Rows /\ row'.job = j.job
         /\ journal' \in [Objects -> JournalRows \cup {None}]
BY DEF TypeOK, InitializeJournal, Rows, Phases, KeyRecords

LEMMA StartType ==
  ASSUME TypeOK, Gate, Local, Start \/ Resume
  PROVE  TypeOK' /\ Local'
<1> USE DEF TypeOK, Local, Gate, Journalled,
            AfterKeys, AfterJournal, ObjectSteps, WorkerSteps,
            fileVars, blobVars, keyVars, confVars, dbVars, workerVars, jobVars,
            processVars, gateVars, startVars, bounds
<1>1. ASSUME NEW k \in Keys, StartRotation(k) PROVE TypeOK' /\ Local'
  BY <1>1 DEF StartRotation
<1>2. CASE StartWritesKeys
  BY <1>2, ConstantsAssumption, NoneAssumption
  DEF StartWritesKeys, KeyRecords, Jobs
<1>3. CASE StartSyncsKeys
  BY <1>3 DEF StartSyncsKeys
<1>4. CASE StartInitializesJournal
  <2>1. keyFile \in KeyRecords
    BY <1>4 DEF StartInitializesJournal
  <2> QED
    BY <1>4, <2>1, InitializeJournalType DEF StartInitializesJournal
<1>5. CASE StartLaunches
  BY <1>5 DEF StartLaunches
<1>6. CASE StartFails
  BY <1>6, ConstantsAssumption DEF StartFails, Fault
<1>7. CASE Resume
  BY <1>7 DEF Resume
<1> HIDE DEF TypeOK, Local, Gate
<1> QED
  BY <1>1, <1>2, <1>3, <1>4, <1>5, <1>6, <1>7 DEF Start

LEMMA RunType ==
  ASSUME TypeOK, Gate, Local, Run
  PROVE  TypeOK' /\ Local'
<1> USE DEF TypeOK, Local, Gate, Journalled, WorkerAt, Goto, RunUnchanged,
            AfterKeys, AfterJournal, ObjectSteps, WorkerSteps,
            fileVars, jobVars, blobVars, keyVars, confVars, dbVars, processVars,
            gateVars, startVars, bounds
<1>1. CASE Drain
  BY <1>1 DEF Drain
<1>2. CASE ReadKeys
  BY <1>2 DEF ReadKeys
<1>3. CASE CheckConfiguration
  BY <1>3 DEF CheckConfiguration
<1>4. CASE EnsureJournal
  <2>1. job \in KeyRecords
    BY <1>4 DEF EnsureJournal
  <2> QED
    BY <1>4, <2>1, InitializeJournalType, NoneAssumption DEF EnsureJournal
<1>5. CASE Enumerate
  <2>1. [state |-> "pending", old |-> None, new |-> None] \in JournalRows
    BY DEF JournalRows, States
  <2>2. row \in Rows
    BY <1>5 DEF Enumerate
  <2>3. row' \in Rows /\ journal' \in [Objects -> JournalRows \cup {None}]
    BY <1>5, <2>1, <2>2 DEF Enumerate, SetPhase, Rows, Phases
  <2> QED
    BY <1>5, <2>3, NoneAssumption DEF Enumerate
<1>6. CASE NextObject
  BY <1>6 DEF NextObject
<1>7. CASE StopBetweenObjects
  BY <1>7 DEF StopBetweenObjects
<1>8. CASE Stage
  BY <1>8, NoneAssumption DEF Stage, Ciphers, KeyRecords
<1>9. CASE FlushStaged
  BY <1>9 DEF FlushStaged, SyncData
<1>10. CASE RecordPrepared
  <2>1. [state |-> "prepared", old |-> source[cur], new |-> staged[cur]]
          \in JournalRows
    BY <1>10 DEF RecordPrepared, JournalRows, States
  <2> QED
    BY <1>10, <2>1, NoneAssumption DEF RecordPrepared
<1>11. CASE Replace
  BY <1>11 DEF Replace, Replaceable
<1>12. CASE SyncReplaced
  BY <1>12 DEF SyncReplaced, SyncData
<1>13. CASE FinishObject
  <2>1. [journal[cur] EXCEPT !.state = "done"] \in JournalRows
    BY <1>13 DEF FinishObject, JournalRows, States
  <2> QED
    BY <1>13, <2>1, NoneAssumption DEF FinishObject
<1>14. CASE BeginFinalizing
  BY <1>14, NoneAssumption DEF BeginFinalizing, SetPhase, Rows, Phases
<1>15. CASE Verify
  BY <1>15 DEF Verify
<1>16. CASE PersistConfiguration
  BY <1>16 DEF PersistConfiguration, KeyRecords
<1>17. CASE AdoptKey
  BY <1>17 DEF AdoptKey, KeyRecords
<1>18. CASE MarkComplete
  BY <1>18, NoneAssumption DEF MarkComplete, SetPhase, Rows, Phases
<1>19. CASE RemoveKeys
  BY <1>19 DEF RemoveKeys
<1>20. CASE SyncRemovedKeys
  BY <1>20 DEF SyncRemovedKeys
<1>21. CASE Reopen
  BY <1>21 DEF Reopen
<1>22. CASE Pause
  <2>1. row' \in Rows
    BY <1>22 DEF Pause, Rows, Phases
  <2>2. faults' \in 0 .. MaxFaults
    BY <1>22, ConstantsAssumption DEF Pause, Fault
  <2> QED
    BY <1>22, <2>1, <2>2 DEF Pause
<1>23. CASE WorkerExits
  BY <1>23 DEF WorkerExits
<1> HIDE DEF TypeOK, Local, Gate
<1> QED
  BY <1>1, <1>2, <1>3, <1>4, <1>5, <1>6, <1>7, <1>8, <1>9, <1>10, <1>11, <1>12,
     <1>13, <1>14, <1>15, <1>16, <1>17, <1>18, <1>19, <1>20, <1>21, <1>22,
     <1>23 DEF Run

LEMMA ProcessType ==
  ASSUME TypeOK, Gate, Local,
         Shutdown \/ ExitProcess \/ Kill \/ LosePower \/ Boot
  PROVE  TypeOK' /\ Local'
<1> USE DEF TypeOK, Local, Journalled,
            AfterKeys, AfterJournal, ObjectSteps, WorkerSteps,
            fileVars, blobVars, keyVars, confVars, dbVars, workerVars, jobVars,
            gateVars, startVars, bounds
<1>1. CASE Shutdown
  BY <1>1 DEF Shutdown
<1>2. ASSUME ForgetProcess, restarts < MaxRestarts, restarts' = restarts + 1,
             UNCHANGED <<dbVars, memKey, rotations, faults>>,
             /\ source' \in [Objects -> Ciphers \cup {None}]
             /\ sourceDisk' \in [Objects -> Ciphers \cup {None}]
             /\ staged' \in [Objects -> Ciphers \cup {None}]
             /\ stagedDisk' \in [Objects -> Ciphers \cup {None}],
             /\ keyFile' \in KeyRecords \cup {None}
             /\ keyDisk' \in KeyRecords \cup {None}
             /\ conf' \in Keys /\ confDisk' \in Keys
      PROVE  TypeOK' /\ Local'
  <2>1. restarts' \in 0 .. MaxRestarts
    BY <1>2, ConstantsAssumption
  <2>2. lease' \in [Requests -> Leases \cup {None}]
    BY <1>2 DEF ForgetProcess
  <2> QED
    BY <1>2, <2>1, <2>2 DEF ForgetProcess
<1>3. CASE ExitProcess \/ Kill
  BY <1>2, <1>3 DEF ExitProcess, Kill
<1>4. CASE LosePower
  BY <1>2, <1>4 DEF LosePower
<1>5. CASE Boot
  <2>1. env' \in Keys \cup {None} /\ memKey' \in Keys
    BY <1>5 DEF Boot
  <2>2. starter' = "idle" /\ pc' \in {"idle", "drain"} /\ blocked' \in BOOLEAN
    BY <1>5 DEF Boot, Gate, Unfinished
  <2> QED
    BY <1>5, <2>1, <2>2 DEF Boot
<1> QED
  BY <1>1, <1>3, <1>4, <1>5

LEMMA StutterType ==
  ASSUME TypeOK, Gate, Local, UNCHANGED vars
  PROVE  TypeOK' /\ Gate' /\ Local'
BY DEF vars, fileVars, blobVars, keyVars, confVars, dbVars, workerVars, jobVars,
       processVars, gateVars, startVars, bounds, TypeOK, Gate, Local,
       Handling, Journalled

THEOREM TypeInvariant == Spec => [](TypeOK /\ Gate /\ Local)
<1>1. Init => TypeOK /\ Gate /\ Local
  BY InitType, InitGate
<1>2. TypeOK /\ Gate /\ Local /\ [Next]_vars => (TypeOK /\ Gate /\ Local)'
  <2> SUFFICES ASSUME TypeOK, Gate, Local, [Next]_vars
               PROVE  TypeOK' /\ Gate' /\ Local'
    OBVIOUS
  <2>1. CASE Next
    BY <2>1, ServeType, StartType, RunType, ProcessType,
       ServeGate, StartGate, RunGate, ProcessGate DEF Next
  <2>2. CASE UNCHANGED vars
    BY <2>2, StutterType
  <2> QED
    BY <2>1, <2>2
<1> QED
  BY <1>1, <1>2, PTL DEF Spec

(* Every variable keeps its type.                                           *)
THEOREM TypeCorrect == Spec => []TypeOK
BY TypeInvariant, PTL

(* A worker past drain() works behind a closed gate, with no lease left:    *)
(* not even a download that was streaming when the rotation began.          *)
THEOREM WorkerIsAlone == Spec => []WorkerAlone
<1>1. Gate => WorkerAlone
  BY DEF Gate, WorkerAlone
<1> QED
  BY <1>1, TypeInvariant, PTL

-----------------------------------------------------------------------------
(* No key is lost.  With the gate open there is no key file and one key;    *)
(* with a key file there are two, and before the worker removes the file it *)
(* has brought every blob, the configuration file and the configuration in  *)
(* memory to the new one.  A loss of power can undo the creation of the key *)
(* file, but only when a kill or a failed sync comes before it (Bearable).  *)

Holding == {"complete", "unlink"}
Adopting == {"confsync"} \cup Holding
Replacing == {"config"} \cup Adopting
BeforeRemoval == AfterKeys \ {"unlinksync", "unblock"}
InJournal == AfterJournal \ {"unlinksync", "unblock"}

OneKey ==
  keyFile = None =>
    /\ \A o \in Present : source[o].key = conf
    /\ up => memKey = conf /\ env = None
    /\ row # None => row.phase \in {"idle", "complete"}
    /\ up /\ blocked => starter = "write" \/ pc \in {"unlinksync", "unblock"}

TwoKeys ==
  keyFile # None =>
    /\ \A o \in Present : source[o].key \in {keyFile.old, keyFile.new}
    /\ conf \in {keyFile.old, keyFile.new}
    /\ up => blocked

JobJournal ==
  /\ keyFile # None => keyFile.job \leq rotations
  /\ row # None => row.job \leq rotations
  /\ keyFile # None /\ row # None /\ row.job = keyFile.job
       /\ row.phase # "enumerating" => Present \subseteq Journalled

WorkerKeys ==
  /\ starter = "write" => keyFile = None
  /\ pc \in BeforeRemoval => keyFile # None /\ job = keyFile
  /\ pc \in InJournal => row.job = job.job
  /\ pc \in InJournal \ {"enumerate"} => row.phase # "enumerating"
  /\ pc \in Replacing => \A o \in Present : source[o].key = job.new
  /\ pc \in Adopting => conf = job.new /\ env = None
  /\ pc \in Holding => memKey = job.new
  /\ pc \in {"unlinksync", "unblock"} => keyFile = None
  /\ pc \in {"unlink", "unlinksync", "unblock"} => row.phase = "complete"

Streams ==
  \A r \in Requests :
    lease[r] # None /\ lease[r].mode = "streaming" =>
      /\ lease[r].key = memKey
      /\ source[lease[r].obj] # None => source[lease[r].obj].key = memKey

KeyInvariant == OneKey /\ TwoKeys /\ JobJournal /\ WorkerKeys /\ Streams

(* Kills and failing syncs leave names on the disk that nobody syncs again  *)
(* before the rotation goes on.  With neither, a loss of power is harmless; *)
(* without losses of power, so is everything else.                          *)
Tolerated == "kill" \notin Faults /\ "dirsync" \notin Faults
Bearable == "power" \notin Faults \/ Tolerated

(* Every file is on the disk as processes see it, but between a rename or a *)
(* removal and the sync after it; and what the disk has then is as good.    *)
BlobsSynced ==
  /\ pc # "syncdir" => sourceDisk = source
  /\ pc = "syncdir" =>
       \A o \in Objects :
         \/ sourceDisk[o] = source[o]
         \/ /\ o = cur /\ source[o] # None /\ sourceDisk[o] # None
            /\ sourceDisk[o].key \in {job.old, job.new}

ConfigurationSynced ==
  /\ pc # "confsync" => confDisk = conf
  /\ pc = "confsync" => confDisk \in {job.old, job.new}

KeysSynced ==
  /\ starter # "sync" /\ pc # "unlinksync" => keyDisk = keyFile
  /\ starter = "sync" =>
       /\ keyDisk = None /\ memKey = conf
       /\ \A o \in Present : source[o].key = conf
       /\ row # None => row.phase \in {"idle", "complete"}
  /\ pc = "unlinksync" =>
       /\ keyDisk = job /\ job # None /\ conf = job.new
       /\ job.job \leq rotations /\ row.job = job.job
       /\ Present \subseteq Journalled

Synced ==
  /\ stopping => starter = "idle"
  /\ BlobsSynced /\ ConfigurationSynced /\ KeysSynced

LEMMA InitKeys == Init => KeyInvariant /\ Synced
BY NoneAssumption
DEF Init, Synced, BlobsSynced, ConfigurationSynced, KeysSynced, KeyInvariant,
    OneKey, TwoKeys, JobJournal, WorkerKeys, Streams,
    Present, AfterKeys, AfterJournal, BeforeRemoval, InJournal, Holding,
    Adopting, Replacing, WorkerSteps

(* Requests write only behind an open gate, where the one key is in memory. *)
LEMMA ServeKeys ==
  ASSUME TypeOK, Gate, KeyInvariant, NEW r \in Requests, Serve(r)
  PROVE  KeyInvariant'
<1> USE DEF KeyInvariant, OneKey, TwoKeys, JobJournal, WorkerKeys, Streams,
            Present, AfterKeys, AfterJournal, BeforeRemoval, InJournal,
            Holding, Adopting, Replacing, WorkerSteps,
            keyVars, confVars, dbVars, workerVars, jobVars, processVars,
            startVars,
            fileVars, blobVars, bounds
<1>0. ASSUME UNCHANGED <<source, keyFile, conf, row, journal, pc, job, up, env,
                         memKey, blocked, starter, rotations>>
      PROVE  OneKey' /\ TwoKeys' /\ JobJournal' /\ WorkerKeys'
  BY <1>0 DEF Journalled
<1>1. CASE BeginRequest(r)
  <2>1. Streams'
    BY <1>1 DEF BeginRequest, TypeOK
  <2> QED
    BY <1>0, <1>1, <2>1 DEF BeginRequest, gateVars
<1>2. CASE IndexBlob(r) \/ UnindexBlob(r)
  <2>1. Streams'
    BY <1>2 DEF IndexBlob, UnindexBlob, TypeOK
  <2> QED
    BY <1>0, <1>2, <2>1 DEF IndexBlob, UnindexBlob
<1>3. CASE FinishRequest(r)
  <2>1. Streams'
    BY <1>3 DEF FinishRequest, TypeOK
  <2> QED
    BY <1>0, <1>3, <2>1 DEF FinishRequest
<1>4. ASSUME Handling(r)
      PROVE  ~blocked
  BY <1>4 DEF Gate
<1>5. ASSUME NEW o \in Objects, StoreBlob(r, o) PROVE KeyInvariant'
  <2>1. ~blocked /\ up
    BY <1>4, <1>5, NoneAssumption DEF StoreBlob, Handling, Leases
  <2>2. keyFile = None /\ memKey = conf
    BY <2>1
  <2>3. \A p \in Objects : source'[p] # None =>
           source'[p].key = IF p = o THEN memKey ELSE source[p].key
    BY <1>5 DEF StoreBlob, TypeOK
  <2>4. \A p \in Objects \ {o} : source'[p] = source[p]
    BY <1>5 DEF StoreBlob, TypeOK
  <2>5. pc \in {"idle", "exit"}
    BY <2>1 DEF Gate
  <2>6. OneKey' /\ TwoKeys' /\ JobJournal' /\ WorkerKeys'
    BY <1>5, <2>1, <2>2, <2>3, <2>4, <2>5 DEF StoreBlob
  <2>7. Streams'
    BY <1>5, <2>3, <2>4 DEF StoreBlob, TypeOK, Leases
  <2> QED
    BY <2>6, <2>7
<1>6. ASSUME NEW o \in Objects, RemoveBlob(r, o) PROVE KeyInvariant'
  <2>1. \A p \in Objects : source'[p] # None => source'[p] = source[p]
    BY <1>6 DEF RemoveBlob, TypeOK
  <2>2. OneKey' /\ TwoKeys'
    BY <1>6, <2>1 DEF RemoveBlob
  <2>4. JobJournal' /\ WorkerKeys'
    BY <1>6, <2>1 DEF RemoveBlob, Journalled
  <2>3. Streams'
    BY <1>6, <2>1 DEF RemoveBlob, TypeOK, Leases
  <2> QED
    BY <2>2, <2>3, <2>4
<1>7. ASSUME NEW o \in Objects, OpenStream(r, o) PROVE KeyInvariant'
  <2>1. ~blocked /\ up
    BY <1>4, <1>7, NoneAssumption DEF OpenStream, Handling, Leases
  <2>2. source[o].key = memKey
    BY <1>7, <2>1 DEF OpenStream
  <2>3. Streams'
    BY <1>7, <2>2 DEF OpenStream, TypeOK, Leases
  <2> QED
    BY <1>0, <1>7, <2>3 DEF OpenStream
<1> HIDE DEF KeyInvariant
<1> QED
  BY <1>1, <1>2, <1>3, <1>5, <1>6, <1>7 DEF Serve

LEMMA JournalKeys ==
  ASSUME TypeOK, Local, JobJournal, NEW j \in KeyRecords, InitializeJournal(j),
         keyFile = j, UNCHANGED <<source, keyFile, rotations>>
  PROVE  /\ JobJournal'
         /\ row'.phase = "enumerating" \/ UNCHANGED row
         /\ row' # None => row'.job = j.job
<1>1. CASE row # None /\ row.job = j.job
  BY <1>1 DEF InitializeJournal, JobJournal, Present, Journalled
<1>2. CASE ~(row # None /\ row.job = j.job)
  <2>1. row' = [job |-> j.job, phase |-> "enumerating"]
    BY <1>2 DEF InitializeJournal
  <2> QED
    BY <2>1, NoneAssumption DEF JobJournal, TypeOK, KeyRecords
<1> QED
  BY <1>1, <1>2

LEMMA StartKeys ==
  ASSUME TypeOK, Gate, Local, KeyInvariant, Start \/ Resume
  PROVE  KeyInvariant'
<1> USE DEF KeyInvariant, OneKey, TwoKeys, WorkerKeys, Streams,
            Present, AfterKeys, AfterJournal, BeforeRemoval, InJournal,
            Holding, Adopting, Replacing, WorkerSteps,
            keyVars, confVars, dbVars, workerVars, jobVars, processVars,
            startVars,
            fileVars, blobVars, bounds, gateVars, Gate
<1>1. ASSUME NEW k \in Keys, StartRotation(k) PROVE KeyInvariant'
  BY <1>1 DEF StartRotation, StartGuard, JobJournal, Journalled
<1>2. CASE StartWritesKeys
  <2>1. keyFile' = [job |-> rotations + 1, old |-> memKey, new |-> startKey]
          /\ keyFile' \in KeyRecords /\ keyFile' # None
    BY <1>2, ConstantsAssumption, NoneAssumption
    DEF StartWritesKeys, TypeOK, Local, KeyRecords, Jobs
  <2>2. JobJournal'
    BY <1>2, <2>1, ConstantsAssumption
    DEF StartWritesKeys, JobJournal, TypeOK, Rows, Jobs, NoJob
  <2>3. OneKey' /\ TwoKeys'
    BY <1>2, <2>1 DEF StartWritesKeys
  <2>4. WorkerKeys' /\ Streams'
    BY <1>2, <2>1 DEF StartWritesKeys
  <2> QED
    BY <2>2, <2>3, <2>4
<1>3. CASE StartSyncsKeys
  BY <1>3 DEF StartSyncsKeys, JobJournal, Journalled, Local
<1>4. CASE StartInitializesJournal
  <2>1. keyFile \in KeyRecords
    BY <1>4 DEF StartInitializesJournal, TypeOK, Local
  <2>2. JobJournal'
    BY <1>4, <2>1, JournalKeys DEF StartInitializesJournal
  <2> QED
    BY <1>4, <2>1, <2>2 DEF StartInitializesJournal, Local
<1>5. CASE StartLaunches
  BY <1>5 DEF StartLaunches, JobJournal, Journalled, Local
<1>6. CASE StartFails
  BY <1>6 DEF StartFails, JobJournal, Journalled, Local, TypeOK
<1>7. CASE Resume
  BY <1>7 DEF Resume, JobJournal, Journalled
<1> HIDE DEF KeyInvariant
<1> QED
  BY <1>1, <1>2, <1>3, <1>4, <1>5, <1>6, <1>7 DEF Start

LEMMA RunKeys ==
  ASSUME TypeOK, Gate, Local, KeyInvariant, Run
  PROVE  KeyInvariant'
<1> USE DEF KeyInvariant, OneKey, TwoKeys, JobJournal, WorkerKeys, Streams,
            Present, AfterKeys, AfterJournal, BeforeRemoval, InJournal,
            Holding, Adopting, Replacing, WorkerSteps,
            keyVars, confVars, dbVars, processVars, startVars,
            fileVars, jobVars, blobVars, bounds, gateVars, WorkerAt, Goto,
            RunUnchanged
<1>0. pc \notin {"idle", "exit"} /\ up => blocked
  BY DEF Gate
<1>1. CASE Drain
  BY <1>0, <1>1 DEF Drain, Journalled
<1>2. CASE ReadKeys
  BY <1>2 DEF ReadKeys, Journalled
<1>3. CASE CheckConfiguration
  BY <1>3 DEF CheckConfiguration, Journalled
<1>4. CASE EnsureJournal
  <2>1. job \in KeyRecords /\ keyFile = job
    BY <1>4 DEF EnsureJournal, TypeOK, Local
  <2>2. JobJournal'
    BY <1>4, <2>1, JournalKeys DEF EnsureJournal
  <2>3. row' # None /\ row'.job = job.job
    BY <1>4, <2>1, InitializeJournalType, NoneAssumption DEF EnsureJournal
  <2> QED
    BY <1>4, <2>1, <2>2, <2>3 DEF EnsureJournal
<1>5. CASE Enumerate
  <2>1. row' # None /\ row'.job = row.job /\ row'.phase # "enumerating"
    BY <1>5, NoneAssumption DEF Enumerate, SetPhase, TypeOK, Rows, Phases, Local
  <2>2. row.phase = "enumerating" => Present \subseteq Journalled'
    BY <1>5, NoneAssumption DEF Enumerate, Journalled, JournalRows, States
  <2>3. row.phase # "enumerating" => Present \subseteq Journalled'
    BY <1>5 DEF Enumerate, Journalled, Local
  <2>4. JobJournal'
    BY <1>5, <2>1, <2>2, <2>3 DEF Enumerate, Local
  <2> QED
    BY <1>5, <2>1, <2>4 DEF Enumerate
<1>6. CASE NextObject
  BY <1>6 DEF NextObject, Journalled
<1>7. CASE StopBetweenObjects
  BY <1>7 DEF StopBetweenObjects, Journalled
<1>8. CASE Stage \/ FlushStaged
  BY <1>8 DEF Stage, FlushStaged, Journalled
<1>9. CASE RecordPrepared
  <2>1. Journalled' = Journalled
    BY <1>9, NoneAssumption
    DEF RecordPrepared, Journalled, TypeOK, Local, ObjectSteps, JournalRows,
        States
  <2> QED
    BY <1>9, <2>1 DEF RecordPrepared
<1>10. CASE Replace
  <2>1. keyFile = job /\ keyFile # None
    BY <1>10 DEF Replace
  <2>2. cur \in Objects /\ source[cur] # None
    BY <1>10 DEF Replace, Local, ObjectSteps, Journalled
  <2>3. \A o \in Objects :
          \/ source'[o] = source[o]
          \/ o = cur /\ source'[o] # None /\ source'[o].key = job.new
    BY <1>10, <2>2 DEF Replace, Replaceable, TypeOK
  <2>4. Present' = Present
    BY <2>2, <2>3
  <2>5. OneKey' /\ TwoKeys' /\ JobJournal'
    BY <1>10, <2>1, <2>3, <2>4 DEF Replace, Journalled
  <2>6. WorkerKeys'
    BY <1>10, <2>1 DEF Replace
  <2>7. Streams'
    BY <1>10 DEF Replace, Gate
  <2> QED
    BY <2>5, <2>6, <2>7
<1>11. CASE SyncReplaced
  BY <1>11 DEF SyncReplaced, Journalled
<1>12. CASE FinishObject
  <2>1. [journal[cur] EXCEPT !.state = "done"] \in JournalRows
    BY <1>12
    DEF FinishObject, TypeOK, Local, ObjectSteps, Journalled, JournalRows,
        States
  <2>2. Journalled' = Journalled
    BY <1>12, <2>1, NoneAssumption
    DEF FinishObject, Journalled, TypeOK, Local, ObjectSteps
  <2> QED
    BY <1>12, <2>2 DEF FinishObject
<1>13. CASE BeginFinalizing
  <2>1. row' # None /\ row'.job = row.job /\ row'.phase = "finalizing"
    BY <1>13, NoneAssumption
    DEF BeginFinalizing, SetPhase, TypeOK, Rows, Phases, Local, AfterJournal
  <2>2. keyFile # None
    BY <1>13 DEF BeginFinalizing
  <2> QED
    BY <1>13, <2>1, <2>2 DEF BeginFinalizing, Journalled, Local
<1>14. CASE Verify
  <2>1. Present \subseteq Journalled
    BY <1>14 DEF Verify, Local
  <2>2. \A o \in Present : source[o].key = job.new
    BY <1>14, <2>1 DEF Verify, AllVerified
  <2> QED
    BY <1>14, <2>2 DEF Verify, Journalled
<1>15. CASE PersistConfiguration
  BY <1>15 DEF PersistConfiguration, Journalled
<1>16. CASE AdoptKey
  <2>1. \A r \in Requests : lease[r] = None
    BY <1>16 DEF AdoptKey, Gate
  <2> QED
    BY <1>16, <2>1 DEF AdoptKey, Journalled
<1>17. CASE MarkComplete
  <2>1. row' # None /\ row'.job = row.job /\ row'.phase = "complete"
    BY <1>17, NoneAssumption
    DEF MarkComplete, SetPhase, TypeOK, Rows, Phases, Local, AfterJournal
  <2> QED
    BY <1>17, <2>1 DEF MarkComplete, Journalled, Local
<1>18. CASE RemoveKeys
  BY <1>18 DEF RemoveKeys, Journalled
<1>19. CASE SyncRemovedKeys
  BY <1>19 DEF SyncRemovedKeys, Journalled
<1>20. CASE Reopen
  BY <1>20 DEF Reopen, Journalled
<1>21. CASE Pause
  <2>1. \/ row' = row
        \/ row = None /\ row' = [job |-> NoJob, phase |-> "idle"]
    BY <1>21 DEF Pause
  <2>2. JobJournal'
    BY <1>21, <2>1, NoneAssumption
    DEF Pause, Journalled, TypeOK, KeyRecords, Jobs, NoJob
  <2>3. keyFile = None => pc = "unlinksync"
    BY <1>0, <1>21, <2>1 DEF Pause, Refused, Gate
  <2>4. OneKey' /\ TwoKeys'
    BY <1>21, <2>1, <2>3 DEF Pause, Local
  <2>5. WorkerKeys' /\ Streams'
    BY <1>21 DEF Pause, Gate
  <2> QED
    BY <2>2, <2>4, <2>5
<1>22. CASE WorkerExits
  BY <1>22 DEF WorkerExits, Journalled
<1> HIDE DEF KeyInvariant
<1> QED
  BY <1>1, <1>2, <1>3, <1>4, <1>5, <1>6, <1>7, <1>8, <1>9, <1>10, <1>11, <1>12,
     <1>13, <1>14, <1>15, <1>16, <1>17, <1>18, <1>19, <1>20, <1>21, <1>22
  DEF Run

LEMMA ProcessKeys ==
  ASSUME TypeOK, Gate, Local, KeyInvariant,
         Shutdown \/ ExitProcess \/ Kill \/ Boot
  PROVE  KeyInvariant'
<1> USE DEF KeyInvariant, OneKey, TwoKeys, JobJournal, WorkerKeys, Streams,
            Present, Journalled, AfterKeys, AfterJournal, BeforeRemoval,
            InJournal, Holding, Adopting, Replacing, WorkerSteps,
            keyVars, confVars, dbVars, workerVars, jobVars, startVars,
            fileVars, blobVars, bounds, gateVars
<1>1. CASE Shutdown
  BY <1>1 DEF Shutdown
<1>2. CASE ExitProcess \/ Kill
  BY <1>2 DEF ExitProcess, Kill, ForgetProcess
<1>3. CASE Boot
  <2>1. pc = "idle" /\ starter = "idle" /\ \A r \in Requests : lease[r] = None
    BY <1>3 DEF Boot, Gate
  <2>2. Unfinished <=> keyFile # None
    BY <1>3 DEF Unfinished
  <2> QED
    BY <1>3, <2>1, <2>2 DEF Boot
<1> HIDE DEF KeyInvariant
<1> QED
  BY <1>1, <1>2, <1>3

(* What a loss of power leaves.                                             *)
LEMMA PowerFacts ==
  ASSUME TypeOK, Synced, LosePower
  PROVE  /\ ~up' /\ ~stopping' /\ pc' = "idle" /\ starter' = "idle"
         /\ \A r \in Requests : lease'[r] = None
         /\ UNCHANGED <<row, journal, index, memKey, rotations>>
         /\ sourceDisk' = source' /\ stagedDisk' = staged'
         /\ keyDisk' = keyFile' /\ confDisk' = conf'
         /\ \A o \in Objects :
              \/ source'[o] = source[o] /\ staged'[o] = staged[o]
              \/ source'[o] = sourceDisk[o] /\ staged'[o] = stagedDisk[o]
         /\ pc # "syncdir" => source' = source
         /\ pc # "confsync" => conf' = conf
         /\ starter # "sync" /\ pc # "unlinksync" => keyFile' = keyFile
         /\ conf' \in {conf, confDisk} /\ keyFile' \in {keyFile, keyDisk}
         /\ Present' = Present
<1>1. \A o \in Objects :
        \/ source'[o] = source[o] /\ staged'[o] = staged[o]
        \/ source'[o] = sourceDisk[o] /\ staged'[o] = stagedDisk[o]
  BY DEF LosePower
<1>2. pc # "syncdir" => source' = source
  BY DEF LosePower, TypeOK, Synced, BlobsSynced
<1>3. Present' = Present
  BY <1>1 DEF Present, Synced, BlobsSynced
<1>4. /\ conf' \in {conf, confDisk} /\ keyFile' \in {keyFile, keyDisk}
      /\ pc # "confsync" => conf' = conf
      /\ starter # "sync" /\ pc # "unlinksync" => keyFile' = keyFile
  BY DEF LosePower, Synced, ConfigurationSynced, KeysSynced
<1> QED
  BY <1>1, <1>2, <1>3, <1>4 DEF LosePower, ForgetProcess, dbVars

LEMMA PowerKeys ==
  ASSUME TypeOK, Gate, Local, KeyInvariant, Synced, LosePower
  PROVE  KeyInvariant' /\ Synced'
<1>1. Synced'
  BY PowerFacts DEF Synced, BlobsSynced, ConfigurationSynced, KeysSynced
<1>2. Streams' /\ WorkerKeys'
  BY PowerFacts
  DEF Streams, WorkerKeys, AfterKeys, AfterJournal, BeforeRemoval, InJournal,
      Holding, Adopting, Replacing, WorkerSteps
<1>3. CASE starter = "sync"
  <2>1. pc = "idle"  BY <1>3 DEF Gate
  <2>2. /\ UNCHANGED <<source, conf, row, journal, rotations>> /\ ~up'
        /\ keyFile' = keyFile \/ keyFile' = None
    BY <1>3, <2>1, PowerFacts DEF Synced, KeysSynced
  <2>3. OneKey'
    BY <1>3, <2>2 DEF OneKey, Synced, KeysSynced, Present
  <2>4. TwoKeys' /\ JobJournal'
    BY <2>2 DEF KeyInvariant, TwoKeys, JobJournal, Present, Journalled
  <2> QED  BY <1>1, <1>2, <2>3, <2>4 DEF KeyInvariant
<1>4. CASE pc = "unlinksync"
  <2>1. starter # "sync"  BY <1>4 DEF Gate
  <2>2. /\ UNCHANGED <<source, conf, row, journal, rotations>> /\ ~up'
        /\ keyFile = None /\ (keyFile' = None \/ keyFile' = job)
        /\ job # None /\ conf = job.new /\ row.job = job.job
        /\ job.job \leq rotations /\ Present \subseteq Journalled
    BY <1>4, PowerFacts DEF Synced, KeysSynced, KeyInvariant, WorkerKeys
  <2>3. OneKey'
    BY <2>2 DEF KeyInvariant, OneKey, Present
  <2>4. TwoKeys'
    BY <2>2 DEF KeyInvariant, OneKey, TwoKeys, Present
  <2>5. JobJournal'
    BY <2>2 DEF KeyInvariant, JobJournal, Present, Journalled
  <2> QED  BY <1>1, <1>2, <2>3, <2>4, <2>5 DEF KeyInvariant
<1>5. CASE starter # "sync" /\ pc # "unlinksync"
  <2>1. /\ UNCHANGED <<keyFile, row, journal, rotations>> /\ ~up'
        /\ Present' = Present
    BY <1>5, PowerFacts
  <2>2. JobJournal'
    BY <2>1 DEF KeyInvariant, JobJournal, Journalled
  <2>3. CASE pc \notin {"syncdir", "confsync"}
    <3>1. UNCHANGED <<source, conf>>  BY <2>3, PowerFacts
    <3>2. OneKey' /\ TwoKeys'
      BY <2>1, <3>1 DEF KeyInvariant, OneKey, TwoKeys, Present
    <3> QED  BY <1>1, <1>2, <2>2, <3>2 DEF KeyInvariant
  <2>4. CASE pc \in {"syncdir", "confsync"}
    <3>1. keyFile # None /\ job = keyFile
      BY <2>4
      DEF KeyInvariant, WorkerKeys, BeforeRemoval, AfterKeys, WorkerSteps
    <3>2. conf' \in {keyFile.old, keyFile.new}
      BY <2>4, <3>1, PowerFacts
      DEF Synced, ConfigurationSynced, KeyInvariant, TwoKeys
    <3>3. \A o \in Present' : source'[o].key \in {keyFile.old, keyFile.new}
      BY <2>1, <2>4, <3>1, PowerFacts
      DEF Synced, BlobsSynced, KeyInvariant, TwoKeys, Present
    <3>4. OneKey' /\ TwoKeys'
      BY <2>1, <3>1, <3>2, <3>3 DEF OneKey, TwoKeys
    <3> QED  BY <1>1, <1>2, <2>2, <3>4 DEF KeyInvariant
  <2> QED  BY <2>3, <2>4
<1> QED  BY <1>3, <1>4, <1>5

LEMMA StutterKeys ==
  ASSUME KeyInvariant, UNCHANGED vars
  PROVE  KeyInvariant'
BY DEF vars, fileVars, blobVars, keyVars, confVars, dbVars, workerVars, jobVars,
       processVars, gateVars, startVars, bounds, KeyInvariant, OneKey,
       TwoKeys, JobJournal, WorkerKeys, Streams, Present, Journalled

(* Requests write blobs that are taken as durable, behind an open gate.     *)
LEMMA ServeSynced ==
  ASSUME TypeOK, Gate, Synced, NEW r \in Requests, Serve(r)
  PROVE  Synced'
<1> USE DEF fileVars, blobVars, keyVars, confVars, dbVars, workerVars, jobVars,
            processVars, startVars, bounds
<1>1. UNCHANGED <<conf, confDisk, keyFile, keyDisk, row, journal, pc, job, cur,
                  stopping, memKey, starter, rotations>>
  BY DEF Serve, BeginRequest, StoreBlob, IndexBlob, RemoveBlob, UnindexBlob,
         OpenStream, FinishRequest
<1>2. CASE UNCHANGED <<source, sourceDisk>>
  BY <1>1, <1>2
  DEF Synced, BlobsSynced, ConfigurationSynced, KeysSynced, Present, Journalled
<1>3. ASSUME NEW o \in Objects, StoreBlob(r, o) \/ RemoveBlob(r, o)
      PROVE  Synced'
  <2>1. Handling(r)
    BY <1>3, NoneAssumption DEF StoreBlob, RemoveBlob, Handling, Leases
  <2>2. starter = "idle" /\ pc \in {"idle", "exit"}
    BY <2>1 DEF Gate
  <2>3. sourceDisk = source
    BY <2>2 DEF Synced, BlobsSynced
  <2>4. sourceDisk' = source'
    BY <1>3, <2>3 DEF StoreBlob, RemoveBlob
  <2> QED
    BY <1>1, <2>2, <2>4
    DEF Synced, BlobsSynced, ConfigurationSynced, KeysSynced
<1>4. CASE \A o \in Objects : ~StoreBlob(r, o) /\ ~RemoveBlob(r, o)
  <2>1. UNCHANGED <<source, sourceDisk>>
    BY <1>4
    DEF Serve, BeginRequest, IndexBlob, UnindexBlob, OpenStream, FinishRequest
  <2> QED  BY <1>2, <2>1
<1> QED
  BY <1>3, <1>4

LEMMA StartSynced ==
  ASSUME TypeOK, Gate, KeyInvariant, Synced, Tolerated, Start \/ Resume
  PROVE  Synced'
<1> USE DEF fileVars, blobVars, keyVars, confVars, dbVars, workerVars, jobVars,
            processVars, startVars, bounds
<1>1. /\ UNCHANGED <<source, sourceDisk, conf, confDisk, stopping, memKey>>
      /\ pc = "idle" /\ pc' \in {"idle", "drain"}
  BY DEF Start, StartRotation, StartGuard, StartWritesKeys, StartSyncsKeys,
         StartInitializesJournal, StartLaunches, StartFails, Resume, Gate
<1>2. BlobsSynced' /\ ConfigurationSynced'
  BY <1>1 DEF Synced, BlobsSynced, ConfigurationSynced
<1>3. stopping' => starter' = "idle"
  BY <1>1
  DEF Start, StartRotation, StartGuard, StartWritesKeys, StartSyncsKeys,
      StartInitializesJournal, StartLaunches, StartFails, Resume, Synced
<1>4. CASE StartWritesKeys
  <2>1. keyFile = None /\ keyDisk = None /\ up /\ UNCHANGED <<row, keyDisk>>
    BY <1>1, <1>4
    DEF StartWritesKeys, KeyInvariant, WorkerKeys, Synced, KeysSynced
  <2>2. /\ memKey = conf /\ \A o \in Present : source[o].key = conf
        /\ row # None => row.phase \in {"idle", "complete"}
    BY <2>1 DEF KeyInvariant, OneKey
  <2>3. KeysSynced'
    BY <1>1, <1>4, <2>1, <2>2 DEF StartWritesKeys, KeysSynced, Present
  <2> QED  BY <1>2, <1>3, <2>3 DEF Synced
<1>5. CASE ~StartWritesKeys
  <2>1. starter' # "sync" /\ keyDisk' = keyFile'
    BY <1>1, <1>5
    DEF Start, StartRotation, StartGuard, StartSyncsKeys,
        StartInitializesJournal, StartLaunches, StartFails, Resume, Tolerated,
        Fault, Synced, KeysSynced
  <2> QED  BY <1>1, <1>2, <1>3, <2>1 DEF Synced, KeysSynced
<1> QED
  BY <1>4, <1>5

LEMMA RunSynced ==
  ASSUME TypeOK, Gate, Local, KeyInvariant, Synced, Tolerated, Run
  PROVE  Synced'
<1> USE DEF WorkerAt, Goto, RunUnchanged, fileVars, blobVars, keyVars, confVars,
            processVars, jobVars, startVars, dbVars, bounds
<1>1. /\ pc # "idle" /\ UNCHANGED <<starter, stopping>>
  BY DEF Run, Drain, ReadKeys, CheckConfiguration, EnsureJournal, Enumerate,
         NextObject, StopBetweenObjects, Stage, FlushStaged, RecordPrepared,
         Replace, SyncReplaced, FinishObject, BeginFinalizing, Verify,
         PersistConfiguration, AdoptKey, MarkComplete, RemoveKeys,
         SyncRemovedKeys, Reopen, Pause, Refused, WorkerExits
<1>2. starter = "idle" /\ starter' = "idle"
  BY <1>1 DEF Gate
<1>3. BlobsSynced'
  <2>1. CASE Replace
    <3>1. /\ keyFile # None /\ job = keyFile /\ cur \in Objects
          /\ sourceDisk = source /\ source[cur] # None
      BY <2>1
      DEF Replace, KeyInvariant, WorkerKeys, BeforeRemoval, AfterKeys,
          WorkerSteps, Local, ObjectSteps, Journalled, Synced, BlobsSynced
    <3>2. source[cur].key \in {job.old, job.new}
      BY <3>1 DEF KeyInvariant, TwoKeys, Present
    <3>3. \/ source' = source /\ pc' = "finish"
          \/ /\ source' = [source EXCEPT ![cur] = staged[cur]]
             /\ staged[cur] # None /\ pc' = "syncdir"
      BY <2>1 DEF Replace, Replaceable
    <3>4. UNCHANGED <<sourceDisk, job, cur>>
      BY <2>1 DEF Replace
    <3> QED  BY <3>1, <3>2, <3>3, <3>4 DEF BlobsSynced, TypeOK
  <2>2. CASE FlushStaged \/ SyncReplaced
    <3>1. sourceDisk' = source' /\ pc' # "syncdir"
      BY <2>2 DEF FlushStaged, SyncReplaced, SyncData
    <3> QED  BY <3>1 DEF BlobsSynced
  <2>3. CASE ~Replace /\ ~FlushStaged /\ ~SyncReplaced
    <3>1. /\ UNCHANGED <<source, sourceDisk>>
          /\ pc # "syncdir" /\ pc' # "syncdir"
      BY <2>3
      DEF Run, Drain, ReadKeys, CheckConfiguration, EnsureJournal, Enumerate,
          NextObject, StopBetweenObjects, Stage, RecordPrepared, FinishObject,
          BeginFinalizing, Verify, PersistConfiguration, AdoptKey,
          MarkComplete, RemoveKeys, SyncRemovedKeys, Reopen, Pause, Refused,
          WorkerExits, Tolerated, Fault
    <3> QED  BY <3>1 DEF Synced, BlobsSynced
  <2> QED  BY <2>1, <2>2, <2>3
<1>4. ConfigurationSynced'
  <2>1. CASE PersistConfiguration
    <3>1. keyFile # None /\ job = keyFile /\ confDisk = conf
      BY <2>1
      DEF PersistConfiguration, KeyInvariant, WorkerKeys, BeforeRemoval,
          AfterKeys, WorkerSteps, Synced, ConfigurationSynced
    <3>2. conf \in {job.old, job.new}
      BY <3>1 DEF KeyInvariant, TwoKeys
    <3>3. pc' = "confsync" /\ confDisk' = conf /\ job' = job
      BY <2>1, <3>1 DEF PersistConfiguration
    <3> QED  BY <3>2, <3>3 DEF ConfigurationSynced
  <2>2. CASE AdoptKey
    BY <2>2 DEF AdoptKey, ConfigurationSynced
  <2>3. CASE ~PersistConfiguration /\ ~AdoptKey
    <3>1. /\ UNCHANGED <<conf, confDisk>>
          /\ pc # "confsync" /\ pc' # "confsync"
      BY <2>3
      DEF Run, Drain, ReadKeys, CheckConfiguration, EnsureJournal, Enumerate,
          NextObject, StopBetweenObjects, Stage, FlushStaged, RecordPrepared,
          Replace, SyncReplaced, FinishObject, BeginFinalizing, Verify,
          MarkComplete, RemoveKeys, SyncRemovedKeys, Reopen, Pause, Refused,
          WorkerExits, Tolerated, Fault
    <3> QED  BY <3>1 DEF Synced, ConfigurationSynced
  <2> QED  BY <2>1, <2>2, <2>3
<1>5. KeysSynced'
  <2>1. CASE RemoveKeys
    <3>1. /\ keyFile # None /\ job = keyFile /\ conf = job.new
          /\ row.job = job.job /\ row.phase = "complete"
      BY <2>1
      DEF RemoveKeys, KeyInvariant, WorkerKeys, BeforeRemoval, InJournal,
          Adopting, Holding, AfterJournal, AfterKeys, WorkerSteps
    <3>2. row # None
      BY <2>1 DEF RemoveKeys, Local, AfterJournal, AfterKeys, WorkerSteps
    <3>3. keyFile.job \leq rotations /\ Present \subseteq Journalled
      BY <3>1, <3>2 DEF KeyInvariant, JobJournal
    <3>4. keyDisk = keyFile
      BY <1>2, <2>1 DEF RemoveKeys, Synced, KeysSynced
    <3>5. /\ pc' = "unlinksync"
          /\ UNCHANGED <<source, keyDisk, conf, row, journal, job, rotations>>
      BY <2>1 DEF RemoveKeys
    <3> QED
      BY <1>2, <3>1, <3>3, <3>4, <3>5 DEF KeysSynced, Present, Journalled
  <2>2. CASE SyncRemovedKeys
    BY <1>2, <2>2 DEF SyncRemovedKeys, KeysSynced
  <2>3. CASE ~RemoveKeys /\ ~SyncRemovedKeys
    <3>1. /\ UNCHANGED <<keyFile, keyDisk>>
          /\ pc # "unlinksync" /\ pc' # "unlinksync"
      BY <2>3
      DEF Run, Drain, ReadKeys, CheckConfiguration, EnsureJournal, Enumerate,
          NextObject, StopBetweenObjects, Stage, FlushStaged, RecordPrepared,
          Replace, SyncReplaced, FinishObject, BeginFinalizing, Verify,
          PersistConfiguration, AdoptKey, MarkComplete, Reopen, Pause, Refused,
          WorkerExits, Tolerated, Fault
    <3> QED  BY <1>2, <3>1 DEF Synced, KeysSynced
  <2> QED  BY <2>1, <2>2, <2>3
<1> QED
  BY <1>2, <1>3, <1>4, <1>5 DEF Synced

LEMMA ProcessSynced ==
  ASSUME TypeOK, Gate, Synced, Tolerated,
         Shutdown \/ ExitProcess \/ Kill \/ Boot
  PROVE  Synced'
<1> USE DEF fileVars, blobVars, keyVars, confVars, dbVars, workerVars, jobVars,
            startVars, bounds
<1>1. /\ UNCHANGED <<source, sourceDisk, conf, confDisk, keyFile, keyDisk>>
      /\ ~Kill
  BY DEF Shutdown, ExitProcess, Kill, Boot, Tolerated
<1>2. starter = "idle" /\ starter' = "idle"
  BY <1>1 DEF Shutdown, ExitProcess, Boot, ForgetProcess, Gate, Synced
<1>3. CASE ExitProcess \/ Boot
  <2>1. pc = "idle" /\ pc' \in {"idle", "drain"}
    BY <1>3 DEF ExitProcess, Boot, ForgetProcess, Gate
  <2> QED
    BY <1>1, <1>2, <2>1
    DEF Synced, BlobsSynced, ConfigurationSynced, KeysSynced
<1>4. CASE Shutdown
  BY <1>1, <1>2, <1>4
  DEF Shutdown, Synced, BlobsSynced, ConfigurationSynced, KeysSynced, Present,
      Journalled
<1> QED
  BY <1>1, <1>3, <1>4

LEMMA StutterSynced ==
  ASSUME Synced, UNCHANGED vars
  PROVE  Synced'
BY DEF vars, fileVars, blobVars, keyVars, confVars, dbVars, workerVars, jobVars,
       processVars, startVars, bounds, Synced, BlobsSynced,
       ConfigurationSynced, KeysSynced, Present, Journalled

LEMMA KeysInvariant ==
  ASSUME Bearable
  PROVE  Spec => [](KeyInvariant /\ (Tolerated => Synced))
<1>1. Init => KeyInvariant /\ (Tolerated => Synced)
  BY InitKeys
<1>2. /\ TypeOK /\ Gate /\ Local /\ KeyInvariant /\ (Tolerated => Synced)
      /\ [Next]_vars
      => KeyInvariant' /\ (Tolerated => Synced)'
  <2> SUFFICES ASSUME TypeOK, Gate, Local, KeyInvariant, Tolerated => Synced,
                      [Next]_vars
               PROVE  KeyInvariant' /\ (Tolerated => Synced')
    BY DEF Tolerated
  <2>1. CASE LosePower
    BY <2>1, PowerKeys DEF LosePower, Bearable
  <2>2. CASE Next /\ ~LosePower
    <3>1. KeyInvariant'
      BY <2>2, ServeKeys, StartKeys, RunKeys, ProcessKeys DEF Next
    <3>2. ASSUME Tolerated PROVE Synced'
      BY <2>2, <3>2, ServeSynced, StartSynced, RunSynced, ProcessSynced
      DEF Next
    <3> QED  BY <3>1, <3>2
  <2>3. CASE UNCHANGED vars
    BY <2>3, StutterKeys, StutterSynced
  <2> QED
    BY <2>1, <2>2, <2>3
<1> QED
  BY <1>1, <1>2, TypeInvariant, PTL DEF Spec

(* However the process is killed, restarted or made to fail, or loses       *)
(* power where nothing else kept it from syncing, the key of every          *)
(* referenced blob is in the configuration file or in the key file.         *)
THEOREM KeysAreRecoverable ==
  ASSUME Bearable
  PROVE  Spec => []Recoverable
<1>1. TypeOK /\ KeyInvariant => Recoverable
  BY DEF TypeOK, KeyInvariant, OneKey, TwoKeys, Present, Recoverable, KeysOf
<1> QED
  BY <1>1, TypeInvariant, KeysInvariant, PTL

(* What a loss of power leaves, whichever of the unsynced names it undoes,  *)
(* holds the key of every referenced blob, as long as no kill and no failed *)
(* sync came before it (the order of the syncs in start(), processObject(), *)
(* finishEncryptionRotation() and the removal of the key file).             *)
THEOREM PowerLossIsSurvived ==
  ASSUME Tolerated
  PROVE  Spec => []SurvivesPowerLoss
<1>1. Bearable
  BY DEF Bearable
<1>2. TypeOK /\ Gate /\ KeyInvariant /\ (Tolerated => Synced)
        => SurvivesPowerLoss
  <2> SUFFICES ASSUME TypeOK, Gate, KeyInvariant, Synced,
                      NEW o \in Objects, NEW c \in {source[o], sourceDisk[o]},
                      c # None,
                      NEW k \in {conf, confDisk}, NEW f \in {keyFile, keyDisk}
               PROVE  c.key \in {k} \cup KeysOf(f)
    BY DEF SurvivesPowerLoss, TypeOK
  <2>1. CASE starter = "sync" \/ pc = "unlinksync"
    <3>1. pc # "syncdir" /\ pc # "confsync"
      BY <2>1 DEF Gate
    <3>2. sourceDisk = source /\ confDisk = conf
      BY <3>1 DEF Synced, BlobsSynced, ConfigurationSynced
    <3>3. source[o].key = conf
      BY <2>1, <3>2
      DEF Synced, KeysSynced, KeyInvariant, WorkerKeys, OneKey, Present
    <3> QED  BY <3>2, <3>3
  <2>2. CASE starter # "sync" /\ pc # "unlinksync"
    <3>1. f = keyFile
      BY <2>2 DEF Synced, KeysSynced
    <3>2. CASE pc \notin {"syncdir", "confsync"}
      BY <3>1, <3>2
      DEF Synced, BlobsSynced, ConfigurationSynced, KeyInvariant, OneKey,
          TwoKeys, Present, KeysOf
    <3>3. CASE pc \in {"syncdir", "confsync"}
      <4>1. keyFile # None /\ job = keyFile
        BY <3>3
        DEF KeyInvariant, WorkerKeys, BeforeRemoval, AfterKeys, WorkerSteps
      <4>2. c.key \in {keyFile.old, keyFile.new}
        BY <4>1 DEF Synced, BlobsSynced, KeyInvariant, TwoKeys, Present
      <4> QED  BY <3>1, <4>1, <4>2 DEF KeysOf
    <3> QED  BY <3>2, <3>3
  <2> QED  BY <2>1, <2>2
<1> QED
  BY <1>1, <1>2, TypeInvariant, KeysInvariant, PTL

(* An open gate means one key everywhere, and a response that still streams *)
(* an object through the closing of the gate decrypts it to its end.        *)
THEOREM OpenGateServesOneKey ==
  ASSUME Bearable
  PROVE  Spec => []ServedUnderCurrentKey
<1>1. TypeOK /\ Gate /\ KeyInvariant => ServedUnderCurrentKey
  BY NoneAssumption
  DEF TypeOK, Gate, KeyInvariant, OneKey, TwoKeys, Streams, Present,
      ServedUnderCurrentKey
<1> QED
  BY <1>1, TypeInvariant, KeysInvariant, PTL

-----------------------------------------------------------------------------
(* The rotation keeps the promise of BlobVault.  What the users see closes  *)
(* with the gate or the process.  With KeyInvariant every referenced blob   *)
(* is readable whenever the store opens, so what can be fetched changes     *)
(* only by requests, behind an open gate.                                   *)

Mode == IF up /\ ~blocked THEN "open" ELSE "closed"

Readable ==
  {o \in index : source[o] # None /\ (up /\ ~blocked => source[o].key = memKey)}

Reading ==
  [r \in Requests |-> IF lease[r] # None /\ lease[r].mode = "streaming"
                        THEN lease[r].obj ELSE None]

(* The process that has ended had the key of the configuration file in use. *)
SameKey == keyFile = None => memKey = conf

LEMMA SameKeyInvariant ==
  ASSUME Bearable
  PROVE  Spec => []SameKey
<1>1. Init => SameKey
  BY DEF Init, SameKey
<1>2. /\ TypeOK /\ KeyInvariant /\ KeyInvariant' /\ (Tolerated => Synced)
      /\ Gate /\ SameKey /\ [Next]_vars
      => SameKey'
  <2> SUFFICES ASSUME TypeOK, KeyInvariant, KeyInvariant', Tolerated => Synced,
                      Gate, SameKey, [Next]_vars
               PROVE  SameKey'
    OBVIOUS
  <2>1. CASE up'
    BY <2>1 DEF KeyInvariant, OneKey, SameKey
  <2>2. CASE LosePower
    <3>1. Synced
      BY <2>2 DEF LosePower, Bearable
    <3>2. CASE starter = "sync"
      <4>1. conf' = conf /\ memKey' = memKey
        BY <2>2, <3>1, <3>2, PowerFacts DEF Gate
      <4> QED  BY <3>1, <3>2, <4>1 DEF Synced, KeysSynced, SameKey
    <3>3. CASE pc = "confsync"
      <4>1. keyFile # None /\ starter # "sync"
        BY <3>3
        DEF KeyInvariant, WorkerKeys, BeforeRemoval, AfterKeys, WorkerSteps,
            Gate
      <4>2. keyFile' = keyFile
        BY <2>2, <3>1, <3>3, <4>1, PowerFacts
      <4> QED  BY <4>1, <4>2 DEF SameKey
    <3>4. CASE starter # "sync" /\ pc # "confsync"
      <4>1. conf' = conf /\ memKey' = memKey
        BY <2>2, <3>1, <3>4, PowerFacts
      <4>2. keyFile' = None => keyFile = None
        BY <2>2, <3>1, <3>4, PowerFacts DEF KeyInvariant, WorkerKeys
      <4> QED  BY <4>1, <4>2 DEF SameKey
    <3> QED  BY <3>2, <3>3, <3>4
  <2>3. CASE ~up' /\ up /\ ~LosePower
    <3>1. UNCHANGED <<keyFile, conf, memKey>>
      BY <2>3
      DEF Next, Serve, BeginRequest, StoreBlob, IndexBlob, RemoveBlob,
          UnindexBlob, OpenStream, FinishRequest, Start, StartRotation,
          StartWritesKeys, StartSyncsKeys, StartInitializesJournal,
          StartLaunches, StartFails, Resume, Run, Drain, ReadKeys,
          CheckConfiguration, EnsureJournal, Enumerate, NextObject,
          StopBetweenObjects, Stage, FlushStaged, RecordPrepared, Replace,
          SyncReplaced, FinishObject, BeginFinalizing, Verify,
          PersistConfiguration, AdoptKey, MarkComplete, RemoveKeys,
          SyncRemovedKeys, Reopen, Pause, WorkerExits, Shutdown, ExitProcess,
          Kill, LosePower, Boot, Goto, WorkerAt, RunUnchanged, vars,
          processVars, fileVars, keyVars, confVars
    <3> QED  BY <3>1 DEF SameKey
  <2>4. CASE ~up' /\ ~up
    <3>1. UNCHANGED <<keyFile, conf, memKey>>
      BY <2>4
      DEF Next, Serve, BeginRequest, StoreBlob, IndexBlob, RemoveBlob,
          UnindexBlob, OpenStream, FinishRequest, Start, StartRotation,
          StartGuard,
          StartWritesKeys, StartSyncsKeys, StartInitializesJournal,
          StartLaunches, StartFails, Resume, Run, Drain, ReadKeys,
          CheckConfiguration, EnsureJournal, Enumerate, NextObject,
          StopBetweenObjects, Stage, FlushStaged, RecordPrepared, Replace,
          SyncReplaced, FinishObject, BeginFinalizing, Verify,
          PersistConfiguration, AdoptKey, MarkComplete, RemoveKeys,
          SyncRemovedKeys, Reopen, Pause, WorkerExits, Shutdown, ExitProcess,
          Kill, LosePower, Boot, Goto, WorkerAt, RunUnchanged, vars,
          processVars, fileVars, keyVars, confVars
    <3> QED  BY <3>1 DEF SameKey
  <2> QED  BY <2>1, <2>2, <2>3, <2>4
<1> QED
  BY <1>1, <1>2, KeysInvariant, TypeInvariant, PTL DEF Spec

VaultInv ==
  /\ TypeOK /\ Gate /\ Local /\ KeyInvariant /\ SameKey
  /\ Tolerated => Synced

(* What the store has to show is every referenced blob.                     *)
LEMMA ReadableBlobs ==
  /\ VaultInv => Readable = index \cap Present
  /\ VaultInv' => Readable' = index' \cap Present'
<1>1. VaultInv => Readable = index \cap Present
  <2> SUFFICES ASSUME VaultInv PROVE Readable = index \cap Present
    OBVIOUS
  <2>1. up /\ ~blocked => \A o \in Present : source[o].key = memKey
    BY DEF VaultInv, KeyInvariant, OneKey, TwoKeys
  <2>2. index \subseteq Objects  BY DEF VaultInv, TypeOK
  <2> QED  BY <2>1, <2>2 DEF Readable, Present
<1>2. (VaultInv => Readable = index \cap Present)'
  BY <1>1, PTL
<1> QED  BY <1>1, <1>2

LEMMA HandlingIsOpen ==
  ASSUME VaultInv, NEW r \in Requests, up, Handling(r)
  PROVE  Mode = "open" /\ ~blocked
BY DEF VaultInv, Gate, Mode

LEMMA VaultInit == Init => Vault!Init
BY NoneAssumption DEF Init, Vault!Init

(* What a step of the rotation has to do to be a step of BlobVault.         *)
LEMMA PutStep ==
  ASSUME NEW o \in Objects, Mode = "open", Readable' = Readable \cup {o},
         UNCHANGED <<Mode, Reading, memKey>>
  PROVE  Vault!Next
BY DEF Mode, Readable, Reading, Vault!Next, Vault!Put

LEMMA DropStep ==
  ASSUME NEW o \in Objects, Mode = "open", Readable' = Readable \ {o},
         UNCHANGED <<Mode, Reading, memKey>>
  PROVE  Vault!Next
BY DEF Mode, Readable, Reading, Vault!Next, Vault!Drop

LEMMA BeginReadStep ==
  ASSUME NEW r \in Requests, NEW o \in Readable,
         Mode = "open", Reading[r] = None,
         Reading' = [Reading EXCEPT ![r] = o],
         UNCHANGED <<Mode, Readable, memKey>>
  PROVE  Vault!Next
<1>1. Vault!BeginRead(r)
  BY DEF Mode, Readable, Reading, Vault!BeginRead
<1> QED  BY <1>1 DEF Vault!Next

LEMMA EndReadStep ==
  ASSUME NEW r \in Requests, Reading' = [Reading EXCEPT ![r] = None],
         UNCHANGED <<Mode, Readable, memKey>>
  PROVE  Vault!Next
<1>1. Vault!EndRead(r)
  BY DEF Mode, Readable, Reading, Vault!EndRead
<1> QED  BY <1>1 DEF Vault!Next

LEMMA CloseStep ==
  ASSUME Mode = "open", Mode' = "closed",
         UNCHANGED <<Readable, Reading, memKey>>
  PROVE  Vault!Next
BY DEF Mode, Readable, Reading, Vault!Next, Vault!Close

LEMMA FailStep ==
  ASSUME Mode' = "closed", \A r \in Requests : lease'[r] = None,
         UNCHANGED <<Readable, memKey>>
  PROVE  Vault!Next
BY DEF Mode, Readable, Reading, Vault!Next, Vault!Fail

LEMMA RekeyStep ==
  ASSUME Mode = "closed", \A r \in Requests : lease[r] = None,
         memKey' \in Keys, UNCHANGED <<Mode, Readable, Reading>>
  PROVE  Vault!Next
BY DEF Mode, Readable, Reading, Vault!Next, Vault!Rekey

LEMMA ReopenStep ==
  ASSUME Mode = "closed", Mode' = "open",
         UNCHANGED <<Readable, Reading, memKey>>
  PROVE  Vault!Next
BY DEF Mode, Readable, Reading, Vault!Next, Vault!Reopen

LEMMA QuietStep ==
  ASSUME UNCHANGED <<Mode, Readable, Reading, memKey>>
  PROVE  UNCHANGED Vault!vars
BY DEF Mode, Readable, Reading, Vault!vars

LEMMA UnseenStep ==
  ASSUME UNCHANGED <<source, index, up, blocked, memKey, lease>>
  PROVE  UNCHANGED Vault!vars
BY QuietStep DEF Mode, Readable, Reading

(* Requests: a handler changes what can be fetched by one object, a stream  *)
(* begins or ends.                                                          *)
LEMMA ServeVault ==
  ASSUME VaultInv, VaultInv', NEW r \in Requests, Serve(r)
  PROVE  Vault!Next \/ UNCHANGED Vault!vars
<1>1. /\ Readable = index \cap Present
      /\ Readable' = index' \cap Present'
  BY ReadableBlobs
<1>2. UNCHANGED <<up, blocked, memKey>> /\ up
  BY DEF Serve, BeginRequest, StoreBlob, IndexBlob, RemoveBlob, UnindexBlob,
         OpenStream, FinishRequest, processVars
<1>3. UNCHANGED <<Mode, memKey>>
  BY <1>2 DEF Mode
<1>4. /\ lease \in [Requests -> Leases \cup {None}]
      /\ source \in [Objects -> Ciphers \cup {None}]
  BY DEF VaultInv, TypeOK
<1>5. ASSUME Handling(r) PROVE Mode = "open" /\ Reading[r] = None
  BY <1>2, <1>5, HandlingIsOpen DEF Handling, Reading
<1>6. ASSUME NEW l \in Leases, Handling(r), lease' = [lease EXCEPT ![r] = l],
             l.mode # "streaming"
      PROVE  UNCHANGED Reading
  BY <1>4, <1>6 DEF Reading, Handling
<1>7. CASE BeginRequest(r)
  <2>1. UNCHANGED Reading
    BY <1>4, <1>7 DEF BeginRequest, Reading
  <2> QED
    BY <1>2, <1>3, <1>7, <2>1, QuietStep
    DEF BeginRequest, fileVars, blobVars, dbVars, Readable
<1>8. ASSUME NEW o \in Objects, StoreBlob(r, o)
      PROVE  Vault!Next \/ UNCHANGED Vault!vars
  <2>1. Handling(r) /\ [mode |-> "stored", obj |-> o] \in Leases
    BY <1>8, NoneAssumption DEF StoreBlob, Handling, Leases
  <2>2. UNCHANGED Reading
    BY <1>6, <1>8, <2>1 DEF StoreBlob
  <2>3. Present' = Present \cup {o} /\ index' = index
    BY <1>4, <1>8, NoneAssumption
    DEF StoreBlob, Present, dbVars, VaultInv, TypeOK, Ciphers
  <2>4. CASE o \in index
    BY <1>1, <1>3, <1>5, <2>1, <2>2, <2>3, <2>4, PutStep
  <2>5. CASE o \notin index
    BY <1>1, <1>3, <2>2, <2>3, <2>5, QuietStep
  <2> QED  BY <2>4, <2>5
<1>9. CASE IndexBlob(r)
  <2> DEFINE o == lease[r].obj
  <2>1. o \in Objects /\ Handling(r) /\ [mode |-> "handling"] \in Leases
    BY <1>4, <1>9 DEF IndexBlob, Handling, Leases
  <2>2. UNCHANGED Reading
    BY <1>6, <1>9, <2>1 DEF IndexBlob
  <2>3. Present' = Present /\ index' = index \cup {o}
    BY <1>9 DEF IndexBlob, Present, fileVars, blobVars
  <2> HIDE DEF o
  <2>4. CASE o \in Present
    BY <1>1, <1>3, <1>5, <2>1, <2>2, <2>3, <2>4, PutStep
  <2>5. CASE o \notin Present
    BY <1>1, <1>3, <2>2, <2>3, <2>5, QuietStep
  <2> QED  BY <2>4, <2>5
<1>10. ASSUME NEW o \in Objects, RemoveBlob(r, o)
       PROVE  Vault!Next
  <2>1. Handling(r) /\ [mode |-> "removed", obj |-> o] \in Leases
    BY <1>10, NoneAssumption DEF RemoveBlob, Handling, Leases
  <2>2. UNCHANGED Reading
    BY <1>6, <1>10, <2>1 DEF RemoveBlob
  <2>3. Present' = Present \ {o} /\ index' = index
    BY <1>4, <1>10 DEF RemoveBlob, Present, dbVars
  <2> QED
    BY <1>1, <1>3, <1>5, <2>1, <2>2, <2>3, DropStep
<1>11. CASE UnindexBlob(r)
  <2> DEFINE o == lease[r].obj
  <2>1. o \in Objects /\ Handling(r) /\ [mode |-> "handling"] \in Leases
    BY <1>4, <1>11 DEF UnindexBlob, Handling, Leases
  <2>2. UNCHANGED Reading
    BY <1>6, <1>11, <2>1 DEF UnindexBlob
  <2>3. Present' = Present /\ index' = index \ {o}
    BY <1>11 DEF UnindexBlob, Present, fileVars, blobVars
  <2> HIDE DEF o
  <2> QED
    BY <1>1, <1>3, <1>5, <2>1, <2>2, <2>3, DropStep
<1>12. ASSUME NEW o \in Objects, OpenStream(r, o)
       PROVE  Vault!Next
  <2>1. Handling(r) /\ o \in index \cap Present
    BY <1>12, NoneAssumption DEF OpenStream, Handling, Leases, Present
  <2> DEFINE l == [mode |-> "streaming", obj |-> o, key |-> memKey]
  <2>2. lease' = [lease EXCEPT ![r] = l] /\ l \in Leases
    BY <1>12 DEF OpenStream, Leases, VaultInv, TypeOK
  <2>3. l.mode = "streaming" /\ l.obj = o
    OBVIOUS
  <2> HIDE DEF l
  <2>4. Reading' = [Reading EXCEPT ![r] = o]
    BY <1>4, <2>2, <2>3, NoneAssumption DEF Reading
  <2>5. Readable' = Readable
    BY <1>2, <1>12 DEF OpenStream, Readable, fileVars, blobVars, dbVars
  <2> QED
    BY <1>1, <1>3, <1>5, <2>1, <2>4, <2>5, BeginReadStep
<1>13. CASE FinishRequest(r)
  <2>1. Reading' = [Reading EXCEPT ![r] = None]
    BY <1>4, <1>13 DEF FinishRequest, Reading
  <2>2. Readable' = Readable
    BY <1>2, <1>13 DEF FinishRequest, Readable, fileVars, blobVars, dbVars
  <2> QED
    BY <1>3, <2>1, <2>2, EndReadStep
<1> QED
  BY <1>7, <1>8, <1>9, <1>10, <1>11, <1>12, <1>13 DEF Serve

(* start(): the gate closes, and opens again only when start() failed       *)
(* before it had left a key file.                                           *)
LEMMA StartVault ==
  ASSUME VaultInv, VaultInv', Start \/ Resume
  PROVE  Vault!Next \/ UNCHANGED Vault!vars
<1>1. /\ Readable = index \cap Present
      /\ Readable' = index' \cap Present'
  BY ReadableBlobs
<1>2. UNCHANGED <<source, index, up, memKey, lease>> /\ up
  BY DEF Start, StartRotation, StartGuard, StartWritesKeys, StartSyncsKeys,
         StartInitializesJournal, StartLaunches, StartFails, Resume,
         fileVars, blobVars, dbVars, processVars, gateVars
<1>3. UNCHANGED <<Readable, Reading, memKey>>
  BY <1>1, <1>2 DEF Present, Reading
<1>4. CASE blocked' = blocked
  BY <1>2, <1>4, UnseenStep
<1>5. CASE ~blocked /\ blocked'
  BY <1>2, <1>3, <1>5, CloseStep DEF Mode
<1>6. CASE blocked /\ ~blocked'
  BY <1>2, <1>3, <1>6, ReopenStep DEF Mode
<1> QED
  BY <1>4, <1>5, <1>6 DEF VaultInv, TypeOK

(* The worker: behind the gate it exchanges the key, and it opens the gate. *)
LEMMA RunVault ==
  ASSUME VaultInv, VaultInv', Run
  PROVE  Vault!Next \/ UNCHANGED Vault!vars
<1> USE DEF RunUnchanged, WorkerAt, Goto, processVars, gateVars, dbVars,
            fileVars, blobVars
<1>1. /\ Readable = index \cap Present
      /\ Readable' = index' \cap Present'
  BY ReadableBlobs
<1>2. UNCHANGED <<index, up, lease>> /\ up
  BY DEF Run, Drain, ReadKeys, CheckConfiguration, EnsureJournal, Enumerate,
         NextObject, StopBetweenObjects, Stage, FlushStaged, RecordPrepared,
         Replace, SyncReplaced, FinishObject, BeginFinalizing, Verify,
         PersistConfiguration, AdoptKey, MarkComplete, RemoveKeys,
         SyncRemovedKeys, Reopen, Pause, Refused, WorkerExits
<1>3. Present' = Present
  <2>1. CASE Replace
    <3>1. cur \in Objects /\ source[cur] # None
      BY <2>1 DEF Replace, VaultInv, Local, ObjectSteps, Journalled
    <3>2. \A o \in Objects : source'[o] # None <=> source[o] # None
      BY <2>1, <3>1 DEF Replace, Replaceable, VaultInv, TypeOK
    <3> QED  BY <3>2 DEF Present
  <2>2. CASE ~Replace
    <3>1. UNCHANGED source
      BY <2>2
      DEF Run, Drain, ReadKeys, CheckConfiguration, EnsureJournal, Enumerate,
          NextObject, StopBetweenObjects, Stage, FlushStaged, RecordPrepared,
          SyncReplaced, FinishObject, BeginFinalizing, Verify,
          PersistConfiguration, AdoptKey, MarkComplete, RemoveKeys,
          SyncRemovedKeys, Reopen, Pause, Refused, WorkerExits
    <3> QED  BY <3>1 DEF Present
  <2> QED  BY <2>1, <2>2
<1>4. UNCHANGED <<Readable, Reading>>
  BY <1>1, <1>2, <1>3 DEF Reading
<1>5. CASE AdoptKey
  <2>1. pc = "confsync" /\ blocked /\ \A r \in Requests : lease[r] = None
    BY <1>2, <1>5 DEF AdoptKey, VaultInv, Gate
  <2>2. memKey' \in Keys /\ UNCHANGED blocked
    BY <1>5 DEF AdoptKey, VaultInv, TypeOK
  <2> QED
    BY <1>2, <1>4, <2>1, <2>2, RekeyStep DEF Mode
<1>6. CASE ~AdoptKey
  <2>1. UNCHANGED memKey
    BY <1>6
    DEF Run, Drain, ReadKeys, CheckConfiguration, EnsureJournal, Enumerate,
        NextObject, StopBetweenObjects, Stage, FlushStaged, RecordPrepared,
        Replace, SyncReplaced, FinishObject, BeginFinalizing, Verify,
        PersistConfiguration, MarkComplete, RemoveKeys,
        SyncRemovedKeys, Reopen, Pause, Refused, WorkerExits
  <2>2. blocked' => blocked
    BY <1>6
    DEF Run, Drain, ReadKeys, CheckConfiguration, EnsureJournal, Enumerate,
        NextObject, StopBetweenObjects, Stage, FlushStaged, RecordPrepared,
        Replace, SyncReplaced, FinishObject, BeginFinalizing, Verify,
        PersistConfiguration, MarkComplete, RemoveKeys,
        SyncRemovedKeys, Reopen, Pause, Refused, WorkerExits
  <2>3. CASE blocked' = blocked
    BY <1>2, <1>4, <2>1, <2>3, QuietStep DEF Mode
  <2>4. CASE blocked /\ ~blocked'
    BY <1>2, <1>4, <2>1, <2>4, ReopenStep DEF Mode
  <2> QED
    BY <2>2, <2>3, <2>4 DEF VaultInv, TypeOK
<1> QED
  BY <1>5, <1>6

(* The process: its end takes its readers with it; a start opens the store  *)
(* under the key of the configuration file, which is the key in use, or     *)
(* leaves it closed.                                                        *)
LEMMA ProcessVault ==
  ASSUME VaultInv, VaultInv', Bearable,
         Shutdown \/ ExitProcess \/ Kill \/ LosePower \/ Boot
  PROVE  Vault!Next \/ UNCHANGED Vault!vars
<1>1. /\ Readable = index \cap Present
      /\ Readable' = index' \cap Present'
  BY ReadableBlobs
<1>2. index' = index /\ Present' = Present
  <2>1. CASE LosePower
    <3>1. Synced  BY <2>1 DEF LosePower, Bearable, VaultInv
    <3> QED  BY <2>1, <3>1, PowerFacts DEF VaultInv
  <2>2. CASE ~LosePower
    BY <2>2
    DEF Shutdown, ExitProcess, Kill, Boot, fileVars, blobVars, dbVars, Present
  <2> QED  BY <2>1, <2>2
<1>3. UNCHANGED Readable
  BY <1>1, <1>2
<1>4. CASE Shutdown
  BY <1>2, <1>4, UnseenStep DEF Shutdown, gateVars, fileVars, blobVars
<1>5. CASE ExitProcess \/ Kill \/ LosePower
  <2>1. ~up' /\ memKey' = memKey /\ \A r \in Requests : lease'[r] = None
    BY <1>5 DEF ExitProcess, Kill, LosePower, ForgetProcess
  <2> QED
    BY <1>3, <2>1, FailStep DEF Mode
<1>6. CASE Boot
  <2>1. /\ ~up /\ up' /\ UNCHANGED <<lease, keyFile, conf>>
        /\ blocked' = Unfinished /\ memKey' \in Keys
        /\ \A r \in Requests : lease[r] = None
    BY <1>6 DEF Boot, fileVars, keyVars, confVars, VaultInv, Gate, TypeOK
  <2>2. UNCHANGED Reading
    BY <2>1 DEF Reading
  <2>3. CASE Unfinished
    BY <1>3, <2>1, <2>2, <2>3, RekeyStep DEF Mode
  <2>4. CASE ~Unfinished
    <3>1. keyFile = None
      BY <2>4 DEF Unfinished
    <3>2. memKey' = memKey
      BY <1>6, <3>1 DEF Boot, VaultInv, SameKey
    <3> QED
      BY <1>3, <2>1, <2>2, <2>4, <3>2, ReopenStep DEF Mode
  <2> QED  BY <2>3, <2>4
<1> QED
  BY <1>4, <1>5, <1>6

(* However the process is killed, restarted or made to fail, or loses       *)
(* power where nothing else kept it from syncing, users of the store see it *)
(* close and open again with the same objects in it: none is gained, lost   *)
(* or made unreadable by a rotation, and the key is exchanged only while    *)
(* nobody reads.                                                            *)
THEOREM RotationKeepsVaultPromise ==
  ASSUME Bearable
  PROVE  Spec => KeepsVaultPromise
<1>1. Init => Vault!Init
  BY VaultInit
<1>2. VaultInv /\ VaultInv' /\ [Next]_vars => [Vault!Next]_(Vault!vars)
  <2> SUFFICES ASSUME VaultInv, VaultInv', [Next]_vars
               PROVE  Vault!Next \/ UNCHANGED Vault!vars
    OBVIOUS
  <2>1. CASE Next
    BY <2>1, ServeVault, StartVault, RunVault, ProcessVault DEF Next
  <2>2. CASE UNCHANGED vars
    BY <2>2, UnseenStep
    DEF vars, fileVars, blobVars, dbVars, processVars, gateVars
  <2> QED  BY <2>1, <2>2
<1>3. Spec => []VaultInv
  <2>1. /\ TypeOK /\ Gate /\ Local /\ SameKey
        /\ KeyInvariant /\ (Tolerated => Synced)
        => VaultInv
    BY DEF VaultInv
  <2> QED
    BY <2>1, TypeInvariant, KeysInvariant, SameKeyInvariant, PTL
<1> QED
  BY <1>1, <1>2, <1>3, PTL DEF Spec, KeepsVaultPromise, Vault!Spec

-----------------------------------------------------------------------------
(* A retry finds what it needs.  At every moment the journal says of each   *)
(* object no more than is true of its file: pending means the old key,      *)
(* prepared one of the two digests, done the new one; and before the        *)
(* journal is filled nothing has been replaced.  It survives a kill at any  *)
(* step because each step changes either the file or the row, in an order   *)
(* that keeps it.                                                           *)

Filled == row # None /\ row.job = keyFile.job /\ row.phase # "enumerating"

Stands(o) ==
  /\ source[o] # None
  /\ journal[o].state = "pending" => source[o].key = keyFile.old
  /\ journal[o].state # "pending" =>
       journal[o].new # None /\ journal[o].new.key = keyFile.new
  /\ journal[o].state = "prepared" =>
       \/ source[o] = journal[o].new
       \/ source[o] = journal[o].old /\ staged[o] = journal[o].new
  /\ journal[o].state = "done" => source[o] = journal[o].new

ObjectsStand ==
  keyFile # None =>
    /\ Filled => \A o \in Journalled : Stands(o)
    /\ ~Filled => \A o \in Present : source[o].key = keyFile.old

RowStands ==
  /\ row # None /\ row.phase = "idle" => row.job = NoJob
  /\ keyFile # None /\ row # None /\ row.job # keyFile.job
       => row.phase = "complete" \/ row.job = NoJob

ConfigurationStands ==
  up /\ keyFile # None /\ env = None => memKey \in {keyFile.old, keyFile.new}

Progress ==
  /\ pc \in {"stage", "flush", "record"} => journal[cur].state = "pending"
  /\ pc \in {"flush", "record"} =>
       staged[cur] # None /\ staged[cur].key = job.new
  /\ pc \in {"compare", "syncdir", "finish"} => journal[cur].state # "pending"
  /\ pc \in {"syncdir", "finish"} => source[cur] = journal[cur].new
  /\ pc \in ObjectSteps \cup {"next"} =>
       \A o \in Journalled \ todo : journal[o].state = "done"
  /\ pc = "verify" => \A o \in Journalled : journal[o].state = "done"

RetryInvariant ==
  ObjectsStand /\ RowStands /\ ConfigurationStands /\ Progress

(* What a loss of power undoes, the journal has not yet passed over: of a   *)
(* prepared object both names are on the disk as they are seen, or both as  *)
(* they were before the rename; and when the key file is removed, all is    *)
(* done.                                                                    *)
JournalSynced ==
  /\ pc = "record" => stagedDisk[cur] = staged[cur]
  /\ pc = "syncdir" => journal[cur].state = "prepared"
  /\ \A o \in Journalled : journal[o].state = "prepared" =>
       IF pc = "syncdir" /\ o = cur
       THEN sourceDisk[o] = journal[o].old /\ stagedDisk[o] = journal[o].new
       ELSE stagedDisk[o] = staged[o]
  /\ pc \in Replacing =>
       \A o \in Journalled : journal[o].state = "done"
  /\ pc = "unlinksync" =>
       \A o \in Journalled :
         /\ journal[o].state = "done" /\ source[o] # None
         /\ source[o] = journal[o].new
         /\ journal[o].new # None /\ journal[o].new.key = job.new

LEMMA InitRetry == Init => RetryInvariant /\ JournalSynced
BY NoneAssumption
DEF Init, JournalSynced, Journalled, Replacing, Adopting, Holding,
    RetryInvariant, ObjectsStand, RowStands, ConfigurationStands,
    Progress, ObjectSteps

(* Requests change objects only behind an open gate, without a key file.    *)
LEMMA ServeRetry ==
  ASSUME TypeOK, Gate, KeyInvariant, RetryInvariant, NEW r \in Requests,
         Serve(r)
  PROVE  RetryInvariant'
<1> USE DEF fileVars, blobVars, keyVars, confVars, dbVars, workerVars, jobVars,
            processVars
<1>1. UNCHANGED <<keyFile, row, journal, pc, job, todo, cur, up, env, memKey>>
  BY DEF Serve, BeginRequest, StoreBlob, IndexBlob, RemoveBlob, UnindexBlob,
         OpenStream, FinishRequest
<1>2. CASE UNCHANGED <<source, staged>>
  BY <1>1, <1>2
  DEF RetryInvariant, ObjectsStand, Stands, Filled, RowStands, Present,
      ConfigurationStands, Progress, Journalled
<1>3. ASSUME NEW o \in Objects, StoreBlob(r, o) \/ RemoveBlob(r, o)
      PROVE  RetryInvariant'
  <2>1. up /\ Handling(r)
    BY <1>3, NoneAssumption DEF StoreBlob, RemoveBlob, Handling, Leases
  <2>2. ~blocked
    BY <2>1 DEF Gate
  <2>3. keyFile = None /\ pc \in {"idle", "exit"}
    BY <2>1, <2>2 DEF Gate, KeyInvariant, TwoKeys
  <2> QED
    BY <1>1, <2>3
    DEF RetryInvariant, ObjectsStand, RowStands, ConfigurationStands, Progress,
        ObjectSteps
<1>4. CASE \A o \in Objects : ~StoreBlob(r, o) /\ ~RemoveBlob(r, o)
  <2>1. UNCHANGED <<source, staged>>
    BY <1>4
    DEF Serve, BeginRequest, IndexBlob, UnindexBlob, OpenStream, FinishRequest
  <2> QED  BY <1>2, <2>1
<1> QED
  BY <1>3, <1>4

(* initializeJournal() gives the row to this job, unfilled, or keeps it.    *)
LEMMA JournalRetry ==
  ASSUME TypeOK, RetryInvariant, NEW j \in KeyRecords, InitializeJournal(j),
         keyFile = j, UNCHANGED <<source, staged, keyFile>>
  PROVE  ObjectsStand' /\ RowStands' /\ row'.job = keyFile.job
<1>0. keyFile # None
  BY NoneAssumption
<1>1. CASE row # None /\ row.job = j.job
  <2>1. UNCHANGED <<row, journal>>
    BY <1>1 DEF InitializeJournal
  <2> QED
    BY <1>1, <2>1
    DEF RetryInvariant, ObjectsStand, Stands, Filled, RowStands, Present,
        Journalled
<1>2. CASE ~(row # None /\ row.job = j.job)
  <2>1. row' = [job |-> j.job, phase |-> "enumerating"]
    BY <1>2 DEF InitializeJournal
  <2>2. ~Filled /\ ~Filled'
    BY <1>2, <2>1 DEF Filled
  <2>3. ObjectsStand'
    BY <1>0, <2>2 DEF RetryInvariant, ObjectsStand, Present
  <2> QED
    BY <2>1, <2>3 DEF RowStands
<1> QED
  BY <1>1, <1>2

LEMMA StartRetry ==
  ASSUME TypeOK, Gate, Local, KeyInvariant, RetryInvariant, Start \/ Resume
  PROVE  RetryInvariant'
<1> USE DEF fileVars, blobVars, keyVars, confVars, dbVars, workerVars, jobVars,
            processVars, gateVars, startVars, bounds
<1>1. ASSUME UNCHANGED <<source, staged, keyFile, row, journal, up, env,
                         memKey>>,
             pc' \in {"idle", "drain"}
      PROVE  RetryInvariant'
  BY <1>1
  DEF RetryInvariant, ObjectsStand, Stands, Filled, RowStands, Present,
      ConfigurationStands, Progress, Journalled, ObjectSteps
<1>2. ASSUME NEW k \in Keys, StartRotation(k) PROVE RetryInvariant'
  BY <1>1, <1>2 DEF StartRotation, StartGuard
<1>3. CASE StartWritesKeys
  <2>1. /\ keyFile' = [job |-> rotations + 1, old |-> memKey, new |-> startKey]
        /\ keyFile = None /\ up /\ pc = "idle"
    BY <1>3 DEF StartWritesKeys, KeyInvariant, WorkerKeys, Gate
  <2>2. UNCHANGED <<source, row, journal, env, memKey, pc, up>>
    BY <1>3 DEF StartWritesKeys
  <2>3. row # None =>
          row.job # keyFile'.job /\ row.phase \in {"idle", "complete"}
    BY <2>1, ConstantsAssumption
    DEF KeyInvariant, OneKey, JobJournal, TypeOK, Rows, Jobs, NoJob
  <2>4. \A o \in Present : source[o].key = memKey
    BY <2>1 DEF KeyInvariant, OneKey
  <2>5. ObjectsStand'
    BY <2>1, <2>2, <2>3, <2>4 DEF ObjectsStand, Filled, Present
  <2>6. RowStands'
    BY <2>2, <2>3 DEF RetryInvariant, RowStands
  <2> QED
    BY <2>1, <2>2, <2>5, <2>6
    DEF RetryInvariant, ConfigurationStands, Progress, ObjectSteps
<1>4. CASE StartInitializesJournal
  <2>1. keyFile \in KeyRecords
    BY <1>4 DEF StartInitializesJournal, TypeOK, Local
  <2>2. ObjectsStand' /\ RowStands'
    BY <1>4, <2>1, JournalRetry DEF StartInitializesJournal
  <2>3. pc' = "idle"
    BY <1>4 DEF StartInitializesJournal, Gate
  <2> QED
    BY <1>4, <2>2, <2>3
    DEF StartInitializesJournal, RetryInvariant, ConfigurationStands, Progress,
        ObjectSteps
<1>5. CASE StartSyncsKeys \/ StartFails
  BY <1>1, <1>5 DEF StartSyncsKeys, StartFails, Gate
<1>6. CASE StartLaunches \/ Resume
  BY <1>1, <1>6 DEF StartLaunches, Resume
<1> QED
  BY <1>2, <1>3, <1>4, <1>5, <1>6 DEF Start

(* Every step from reading the keys to their removal has the key file its   *)
(* job came from.                                                           *)
LEMMA WorkerHasKeys ==
  ASSUME TypeOK, Local, KeyInvariant, pc \in BeforeRemoval
  PROVE  /\ keyFile # None /\ job = keyFile /\ keyFile \in KeyRecords
         /\ pc \in InJournal =>
              row # None /\ row \in Rows /\ row.job = keyFile.job
         /\ pc \in InJournal \ {"enumerate"} => Filled
BY DEF TypeOK, Local, KeyInvariant, WorkerKeys, BeforeRemoval, InJournal,
       AfterJournal, AfterKeys, Filled

(* A step of the worker that leaves the files and the database alone, apart *)
(* from syncs.                                                              *)
LEMMA QuietRetry ==
  ASSUME RetryInvariant, Progress',
         UNCHANGED <<source, staged, keyFile, row, journal, up, env, memKey>>
  PROVE  RetryInvariant'
BY DEF RetryInvariant, ObjectsStand, Stands, Filled, RowStands, Present,
       ConfigurationStands, Journalled

LEMMA EnumerateRetry ==
  ASSUME TypeOK, Gate, Local, KeyInvariant, RetryInvariant, Enumerate
  PROVE  RetryInvariant'
<1>0. /\ pc = "enumerate" /\ pc' = "next" /\ keyFile # None
      /\ row # None /\ row \in Rows /\ row.job = keyFile.job
      /\ UNCHANGED <<source, staged, keyFile, up, env, memKey>>
  BY WorkerHasKeys
  DEF Enumerate, WorkerAt, Goto, RunUnchanged, BeforeRemoval, InJournal,
      AfterKeys, AfterJournal, WorkerSteps, fileVars, blobVars, keyVars,
      processVars
<1>1. Progress'
  BY <1>0 DEF Enumerate, Progress, Journalled, ObjectSteps
<1>2. CASE row.phase # "enumerating"
  BY <1>0, <1>1, <1>2, QuietRetry DEF Enumerate
<1>3. CASE row.phase = "enumerating"
  <2>1. /\ row' # None /\ row'.job = row.job /\ row'.phase = "rotating"
        /\ journal' = [o \in Objects |->
             IF o \in Present
               THEN [state |-> "pending", old |-> None, new |-> None]
               ELSE None]
    BY <1>0, <1>3, NoneAssumption DEF Enumerate, SetPhase, Rows, Phases
  <2>2. \A o \in Present : source[o].key = keyFile.old
    BY <1>0, <1>3 DEF RetryInvariant, ObjectsStand, Filled
  <2>3. \A o \in Journalled' :
          o \in Present /\ journal'[o].state = "pending"
    BY <2>1 DEF Journalled
  <2>4. ObjectsStand'
    BY <1>0, <2>1, <2>2, <2>3 DEF ObjectsStand, Filled, Stands, Present
  <2> QED
    BY <1>0, <1>1, <2>1, <2>4
    DEF RetryInvariant, RowStands, ConfigurationStands
<1> QED
  BY <1>2, <1>3

(* What processObject() does to one object and its row.                     *)
LEMMA ObjectRetry ==
  ASSUME TypeOK, Gate, Local, KeyInvariant, RetryInvariant,
         Stage \/ RecordPrepared \/ Replace \/ FinishObject
  PROVE  RetryInvariant'
<1> USE DEF WorkerAt, Goto, RunUnchanged, fileVars, blobVars, keyVars,
            processVars, jobVars
<1>0. /\ pc \in {"stage", "record", "compare", "finish"}
      /\ UNCHANGED <<row, keyFile, up, env, memKey, job, cur>>
  BY DEF Stage, RecordPrepared, Replace, FinishObject
<1>1. /\ keyFile # None /\ job = keyFile /\ keyFile \in KeyRecords /\ Filled
      /\ cur \in Objects /\ journal[cur] # None /\ journal[cur] \in JournalRows
      /\ source[cur] # None
  <2>1. cur \in Journalled
    BY <1>0 DEF Local, ObjectSteps
  <2>2. pc \in BeforeRemoval /\ pc \in InJournal \ {"enumerate"}
    BY <1>0
    DEF BeforeRemoval, InJournal, AfterJournal, AfterKeys, WorkerSteps
  <2> QED
    BY <2>1, <2>2, WorkerHasKeys
    DEF TypeOK, Journalled, RetryInvariant, ObjectsStand, Stands
<1>2. \A o \in Journalled : Stands(o)
  BY <1>1 DEF RetryInvariant, ObjectsStand
<1>3. Filled' /\ RowStands' /\ ConfigurationStands'
  BY <1>0, <1>1 DEF RetryInvariant, RowStands, ConfigurationStands, Filled
<1>4. ASSUME \A o \in Journalled' : Stands(o)', Progress'
      PROVE  RetryInvariant'
  BY <1>3, <1>4 DEF RetryInvariant, ObjectsStand
<1>5. CASE Stage
  <2>1. /\ journal[cur].state = "pending" /\ UNCHANGED <<source, journal, todo>>
        /\ pc' = "flush"
        /\ \E iv \in IVs :
             staged' = [staged EXCEPT ![cur] = [key |-> job.new, iv |-> iv]]
    BY <1>5 DEF Stage, RetryInvariant, Progress
  <2>2. /\ \A o \in Objects \ {cur} : staged'[o] = staged[o]
        /\ staged'[cur] \in Ciphers /\ staged'[cur].key = job.new
    BY <1>1, <2>1 DEF TypeOK, Ciphers, KeyRecords
  <2>3. \A o \in Journalled' : Stands(o)'
    BY <1>0, <1>2, <2>1, <2>2 DEF Stands, Journalled
  <2>4. Progress'
    BY <1>0, <1>5, <2>1, <2>2, NoneAssumption
    DEF Stage, RetryInvariant, Progress, ObjectSteps, Journalled
  <2> QED  BY <1>4, <2>3, <2>4
<1>6. CASE RecordPrepared
  <2>1. /\ journal[cur].state = "pending"
        /\ staged[cur] # None /\ staged[cur].key = job.new
        /\ UNCHANGED <<source, staged, todo>> /\ pc' = "compare"
    BY <1>6 DEF RecordPrepared, RetryInvariant, Progress
  <2>2. /\ \A o \in Objects \ {cur} : journal'[o] = journal[o]
        /\ journal'[cur] =
             [state |-> "prepared", old |-> source[cur], new |-> staged[cur]]
    BY <1>1, <1>6 DEF RecordPrepared, TypeOK
  <2>3. \A o \in Journalled' : Stands(o)'
    BY <1>0, <1>1, <1>2, <2>1, <2>2 DEF Stands, Journalled
  <2>4. cur \in todo
    BY <1>1, <1>6, <2>1
    DEF RecordPrepared, RetryInvariant, Progress, ObjectSteps, Journalled
  <2>5. Progress'
    BY <1>0, <1>6, <2>1, <2>2, <2>4
    DEF RecordPrepared, RetryInvariant, Progress, ObjectSteps, Journalled
  <2> QED  BY <1>4, <2>3, <2>5
<1>7. CASE Replace
  <2>1. journal[cur].state # "pending" /\ UNCHANGED <<journal, todo>>
    BY <1>7 DEF Replace, RetryInvariant, Progress
  <2>2. \A o \in Objects \ {cur} :
          source'[o] = source[o] /\ staged'[o] = staged[o]
    BY <1>7 DEF Replace, TypeOK
  <2>3. source'[cur] = journal[cur].new /\ source'[cur] # None
    BY <1>1, <1>7 DEF Replace, Replaced, Replaceable, TypeOK
  <2>4. \A o \in Journalled' : Stands(o)'
    BY <1>0, <1>1, <1>2, <2>1, <2>2, <2>3 DEF Stands, Journalled
  <2>5. pc' \in {"finish", "syncdir"} /\ pc = "compare"
    BY <1>7 DEF Replace
  <2>6. Progress'
    BY <1>0, <2>1, <2>3, <2>5
    DEF RetryInvariant, Progress, ObjectSteps, Journalled
  <2> QED  BY <1>4, <2>4, <2>6
<1>8. CASE FinishObject
  <2>1. /\ source[cur] = journal[cur].new /\ journal[cur].state # "pending"
        /\ UNCHANGED <<source, staged>> /\ todo' = todo \ {cur} /\ pc' = "next"
    BY <1>8 DEF FinishObject, RetryInvariant, Progress
  <2>2. /\ \A o \in Objects \ {cur} : journal'[o] = journal[o]
        /\ journal'[cur] = [journal[cur] EXCEPT !.state = "done"]
    BY <1>1, <1>8 DEF FinishObject, TypeOK
  <2>3. /\ journal'[cur].state = "done"
        /\ journal'[cur].new = journal[cur].new
    BY <1>1, <2>2 DEF JournalRows
  <2>4. ASSUME NEW o \in Journalled' PROVE Stands(o)'
    <3>1. CASE o = cur
      <4>1. journal[cur].new # None /\ journal[cur].new.key = keyFile.new
        BY <1>1, <1>2, <2>1 DEF Stands, Journalled
      <4> QED
        BY <1>0, <1>1, <2>1, <2>3, <3>1, <4>1 DEF Stands
    <3>2. CASE o # cur
      <4>1. journal'[o] = journal[o] /\ Stands(o)
        BY <1>2, <2>2, <2>4, <3>2 DEF Journalled
      <4> QED
        BY <1>0, <2>1, <4>1 DEF Stands
    <3> QED  BY <3>1, <3>2
  <2>5. Progress'
    BY <1>0, <1>1, <1>8, <2>1, <2>2, <2>3
    DEF FinishObject, RetryInvariant, Progress, ObjectSteps, Journalled
  <2> QED  BY <1>4, <2>4, <2>5
<1> QED
  BY <1>5, <1>6, <1>7, <1>8

LEMMA RunRetry ==
  ASSUME TypeOK, Gate, Local, KeyInvariant, RetryInvariant, Run
  PROVE  RetryInvariant'
<1> USE DEF WorkerAt, Goto, RunUnchanged, fileVars, blobVars, keyVars, confVars,
            processVars, jobVars, dbVars
<1>1. CASE Drain \/ ReadKeys \/ CheckConfiguration
  <2>1. Progress'
    BY <1>1
    DEF Drain, ReadKeys, CheckConfiguration, Progress, ObjectSteps
  <2> QED
    BY <1>1, <2>1, QuietRetry DEF Drain, ReadKeys, CheckConfiguration
<1>2. CASE EnsureJournal
  <2>1. /\ pc = "journal" /\ pc' = "enumerate"
        /\ keyFile = job /\ job \in KeyRecords
    BY <1>2, WorkerHasKeys
    DEF EnsureJournal, BeforeRemoval, AfterKeys, WorkerSteps
  <2>2. ObjectsStand' /\ RowStands'
    BY <1>2, <2>1, JournalRetry DEF EnsureJournal
  <2>3. ConfigurationStands' /\ Progress'
    BY <1>2, <2>1
    DEF EnsureJournal, RetryInvariant, ConfigurationStands, Progress,
        ObjectSteps
  <2> QED  BY <2>2, <2>3 DEF RetryInvariant
<1>3. CASE Enumerate
  BY <1>3, EnumerateRetry
<1>4. CASE NextObject
  <2>1. Progress'
    BY <1>4
    DEF NextObject, RetryInvariant, Progress, ObjectSteps, Journalled, Local
  <2> QED
    BY <1>4, <2>1, QuietRetry DEF NextObject
<1>5. CASE StopBetweenObjects \/ WorkerExits \/ Reopen
  <2>1. Progress'
    BY <1>5
    DEF StopBetweenObjects, WorkerExits, Reopen, Progress, ObjectSteps
  <2> QED
    BY <1>5, <2>1, QuietRetry DEF StopBetweenObjects, WorkerExits, Reopen
<1>6. CASE Stage \/ RecordPrepared \/ Replace \/ FinishObject
  BY <1>6, ObjectRetry
<1>7. CASE FlushStaged \/ SyncReplaced
  <2>1. Progress'
    BY <1>7
    DEF FlushStaged, SyncReplaced, RetryInvariant, Progress, ObjectSteps,
        Journalled
  <2> QED
    BY <1>7, <2>1, QuietRetry DEF FlushStaged, SyncReplaced
<1>8. CASE BeginFinalizing \/ MarkComplete
  <2>1. /\ keyFile # None /\ Filled /\ row \in Rows /\ row # None
        /\ UNCHANGED <<source, staged, journal, keyFile, up, env, memKey>>
    BY <1>8, WorkerHasKeys
    DEF BeginFinalizing, MarkComplete, BeforeRemoval, InJournal, AfterJournal,
        AfterKeys, WorkerSteps
  <2>2. /\ row' # None /\ row'.job = row.job
        /\ row'.phase \in {"finalizing", "complete"}
    BY <1>8, <2>1, NoneAssumption
    DEF BeginFinalizing, MarkComplete, SetPhase, Rows, Phases
  <2>3. ObjectsStand'
    BY <2>1, <2>2
    DEF RetryInvariant, ObjectsStand, Stands, Filled, Journalled
  <2>4. RowStands' /\ ConfigurationStands'
    BY <2>1, <2>2
    DEF RetryInvariant, RowStands, ConfigurationStands, Filled
  <2>5. Progress'
    BY <1>8
    DEF BeginFinalizing, MarkComplete, RetryInvariant, Progress, ObjectSteps,
        Journalled, Local
  <2> QED  BY <2>3, <2>4, <2>5 DEF RetryInvariant
<1>9. CASE Verify \/ PersistConfiguration
  <2>1. Progress'
    BY <1>9 DEF Verify, PersistConfiguration, Progress, ObjectSteps
  <2> QED
    BY <1>9, <2>1, QuietRetry DEF Verify, PersistConfiguration
<1>10. CASE AdoptKey
  <2>1. /\ job = keyFile /\ memKey' = job.new /\ pc' = "complete"
        /\ UNCHANGED <<source, staged, keyFile, row, journal, up, env>>
    BY <1>10, WorkerHasKeys
    DEF AdoptKey, BeforeRemoval, AfterKeys, WorkerSteps
  <2>2. ConfigurationStands' /\ Progress'
    BY <2>1 DEF ConfigurationStands, Progress, ObjectSteps
  <2> QED
    BY <2>1, <2>2
    DEF RetryInvariant, ObjectsStand, Stands, Filled, RowStands, Present,
        Journalled
<1>11. CASE RemoveKeys \/ SyncRemovedKeys
  <2>1. /\ keyFile' = None /\ pc' \in {"unlinksync", "unblock"}
        /\ UNCHANGED row
    BY <1>11
    DEF RemoveKeys, SyncRemovedKeys, KeyInvariant, WorkerKeys
  <2> QED
    BY <2>1
    DEF RetryInvariant, ObjectsStand, RowStands, ConfigurationStands, Progress,
        ObjectSteps
<1>12. CASE Pause
  <2>1. /\ pc' = "exit"
        /\ UNCHANGED <<source, staged, keyFile, journal, up, env, memKey>>
    BY <1>12 DEF Pause
  <2>2. \/ row' = row
        \/ row = None /\ row' = [job |-> NoJob, phase |-> "idle"]
    BY <1>12 DEF Pause
  <2>3. CASE row' = row
    BY <2>1, <2>3
    DEF RetryInvariant, ObjectsStand, Stands, Filled, RowStands, Present,
        ConfigurationStands, Progress, ObjectSteps, Journalled
  <2>4. CASE row = None /\ row' = [job |-> NoJob, phase |-> "idle"]
    <3>1. keyFile # None => keyFile.job # NoJob
      BY ConstantsAssumption DEF TypeOK, KeyRecords, Jobs, NoJob
    <3>2. keyFile # None => ~Filled /\ ~Filled'
      BY <2>1, <2>4, <3>1 DEF Filled
    <3>3. ObjectsStand'
      BY <2>1, <3>2 DEF RetryInvariant, ObjectsStand, Present
    <3> QED
      BY <2>1, <2>4, <3>3
      DEF RetryInvariant, RowStands, ConfigurationStands, Progress, ObjectSteps
  <2> QED  BY <2>2, <2>3, <2>4
<1> QED
  BY <1>1, <1>2, <1>3, <1>4, <1>5, <1>6, <1>7, <1>8, <1>9, <1>10, <1>11, <1>12
  DEF Run

LEMMA ProcessRetry ==
  ASSUME TypeOK, Gate, Local, KeyInvariant, RetryInvariant,
         Shutdown \/ ExitProcess \/ Kill \/ Boot
  PROVE  RetryInvariant'
<1> USE DEF fileVars, blobVars, keyVars, confVars, dbVars, workerVars, jobVars
<1>1. UNCHANGED <<source, staged, keyFile, conf, row, journal>>
  BY DEF Shutdown, ExitProcess, Kill, Boot
<1>2. ObjectsStand' /\ RowStands'
  BY <1>1
  DEF RetryInvariant, ObjectsStand, Stands, Filled, RowStands, Present,
      Journalled
<1>3. CASE Shutdown
  BY <1>1, <1>2, <1>3
  DEF Shutdown, RetryInvariant, ConfigurationStands, Progress, Journalled
<1>4. CASE ExitProcess \/ Kill
  <2>1. ~up' /\ pc' = "idle"
    BY <1>4 DEF ExitProcess, Kill, ForgetProcess
  <2> QED
    BY <1>2, <2>1
    DEF RetryInvariant, ConfigurationStands, Progress, ObjectSteps
<1>5. CASE Boot
  <2>1. pc' \in {"idle", "drain"} /\ (env' = None => memKey' = conf)
    BY <1>5 DEF Boot
  <2>2. keyFile # None => conf \in {keyFile.old, keyFile.new}
    BY DEF KeyInvariant, TwoKeys
  <2> QED
    BY <1>1, <1>2, <2>1, <2>2
    DEF RetryInvariant, ConfigurationStands, Progress, ObjectSteps
<1> QED
  BY <1>1, <1>3, <1>4, <1>5

LEMMA StutterRetry ==
  ASSUME RetryInvariant, UNCHANGED vars
  PROVE  RetryInvariant'
<1>1. UNCHANGED <<source, staged, keyFile, row, journal, up, env, memKey, pc,
                  job, todo, cur>>
  BY DEF vars, fileVars, blobVars, keyVars, dbVars, processVars, workerVars,
         jobVars
<1>2. Progress'
  BY <1>1 DEF RetryInvariant, Progress, Journalled
<1> QED
  BY <1>1, <1>2, QuietRetry

LEMMA ServeJournal ==
  ASSUME Gate, JournalSynced, NEW r \in Requests, Serve(r)
  PROVE  JournalSynced'
<1> USE DEF fileVars, blobVars, dbVars, workerVars, jobVars
<1>1. UNCHANGED <<staged, stagedDisk, journal, pc, job, cur>>
  BY DEF Serve, BeginRequest, StoreBlob, IndexBlob, RemoveBlob, UnindexBlob,
         OpenStream, FinishRequest
<1>2. CASE UNCHANGED <<source, sourceDisk>>
  BY <1>1, <1>2 DEF JournalSynced, Journalled
<1>3. ASSUME NEW o \in Objects, StoreBlob(r, o) \/ RemoveBlob(r, o)
      PROVE  JournalSynced'
  <2>1. Handling(r)
    BY <1>3, NoneAssumption DEF StoreBlob, RemoveBlob, Handling, Leases
  <2>2. pc \in {"idle", "exit"}
    BY <2>1 DEF Gate
  <2> QED
    BY <1>1, <2>2
    DEF JournalSynced, Journalled, Replacing, Adopting, Holding
<1>4. CASE \A o \in Objects : ~StoreBlob(r, o) /\ ~RemoveBlob(r, o)
  <2>1. UNCHANGED <<source, sourceDisk>>
    BY <1>4
    DEF Serve, BeginRequest, IndexBlob, UnindexBlob, OpenStream, FinishRequest
  <2> QED  BY <1>2, <2>1
<1> QED
  BY <1>3, <1>4

LEMMA StartJournal ==
  ASSUME Gate, JournalSynced, Start \/ Resume
  PROVE  JournalSynced'
<1> USE DEF fileVars, blobVars, dbVars, workerVars, jobVars
<1>1. /\ UNCHANGED <<staged, stagedDisk>>
      /\ pc = "idle" /\ pc' \in {"idle", "drain"}
      /\ \A o \in Journalled' : journal' = journal
  BY DEF Start, StartRotation, StartGuard, StartWritesKeys, StartSyncsKeys,
         StartInitializesJournal, InitializeJournal, StartLaunches, StartFails,
         Resume, Gate, Journalled
<1> QED
  BY <1>1 DEF JournalSynced, Journalled, Replacing, Adopting, Holding

LEMMA RunJournal ==
  ASSUME TypeOK, Gate, Local, KeyInvariant, Synced, RetryInvariant,
         JournalSynced, Tolerated, Run
  PROVE  JournalSynced'
<1> USE DEF WorkerAt, Goto, RunUnchanged, fileVars, blobVars, keyVars, jobVars,
            dbVars, Replacing, Adopting, Holding
<1>1. CASE EnsureJournal
  <2>1. /\ UNCHANGED <<staged, stagedDisk>>
        /\ pc = "journal" /\ pc' = "enumerate"
        /\ \A o \in Journalled' : journal' = journal
    BY <1>1 DEF EnsureJournal, InitializeJournal, Journalled
  <2> QED  BY <2>1 DEF JournalSynced, Journalled
<1>2. CASE Enumerate
  <2>1. /\ UNCHANGED <<staged, stagedDisk>>
        /\ pc = "enumerate" /\ pc' = "next"
        /\ \A o \in Journalled' :
             journal' = journal \/ journal'[o].state = "pending"
    BY <1>2 DEF Enumerate, Journalled
  <2> QED  BY <2>1 DEF JournalSynced, Journalled
<1>3. CASE Stage
  <2>1. /\ journal[cur].state = "pending" /\ pc = "stage" /\ pc' = "flush"
        /\ UNCHANGED <<stagedDisk, journal>>
        /\ \A o \in Objects \ {cur} : staged'[o] = staged[o]
    BY <1>3 DEF Stage, RetryInvariant, Progress, TypeOK
  <2> QED  BY <2>1 DEF JournalSynced, Journalled
<1>4. CASE FlushStaged \/ SyncReplaced
  <2>1. /\ stagedDisk' = staged' /\ pc' \in {"record", "finish"}
        /\ UNCHANGED journal
    BY <1>4 DEF FlushStaged, SyncReplaced, SyncData
  <2> QED  BY <2>1 DEF JournalSynced
<1>5. CASE RecordPrepared
  <2>1. /\ pc = "record" /\ pc' = "compare"
        /\ UNCHANGED <<staged, stagedDisk>>
        /\ \A o \in Objects \ {cur} : journal'[o] = journal[o]
    BY <1>5 DEF RecordPrepared, TypeOK
  <2>2. stagedDisk[cur] = staged[cur]
    BY <2>1 DEF JournalSynced
  <2> QED  BY <2>1, <2>2 DEF JournalSynced, Journalled
<1>6. CASE Replace
  <2>1. /\ pc = "compare" /\ UNCHANGED <<journal, cur, sourceDisk, stagedDisk>>
        /\ cur \in Journalled
    BY <1>6 DEF Replace, Local, ObjectSteps
  <2>2. CASE Replaced
    BY <1>6, <2>1, <2>2 DEF Replace, JournalSynced, Journalled
  <2>3. CASE ~Replaced
    <3>1. /\ source[cur] = journal[cur].old
          /\ staged[cur] = journal[cur].new
          /\ pc' = "syncdir"
          /\ \A o \in Objects \ {cur} : staged'[o] = staged[o]
      BY <1>6, <2>3 DEF Replace, Replaceable, TypeOK
    <3>2. journal[cur].state = "prepared"
      <4>1. Stands(cur)
        <5>1. keyFile # None /\ Filled
          BY <2>1, WorkerHasKeys
          DEF BeforeRemoval, InJournal, AfterJournal, AfterKeys, WorkerSteps
        <5> QED  BY <2>1, <5>1 DEF RetryInvariant, ObjectsStand
      <4>2. journal[cur].state \in {"prepared", "done"}
        BY <2>1
        DEF RetryInvariant, Progress, TypeOK, JournalRows, States, Journalled
      <4> QED  BY <2>3, <4>1, <4>2 DEF Stands, Replaced
    <3>3. sourceDisk[cur] = source[cur] /\ stagedDisk[cur] = staged[cur]
      BY <2>1, <3>2 DEF Synced, BlobsSynced, JournalSynced
    <3> QED  BY <2>1, <3>1, <3>2, <3>3 DEF JournalSynced, Journalled
  <2> QED  BY <2>2, <2>3
<1>7. CASE FinishObject
  <2>1. /\ pc = "finish" /\ pc' = "next"
        /\ UNCHANGED <<staged, stagedDisk>>
        /\ \A o \in Objects \ {cur} : journal'[o] = journal[o]
    BY <1>7 DEF FinishObject, TypeOK
  <2>2. cur \in Journalled /\ journal[cur] \in JournalRows
    BY <2>1 DEF Local, ObjectSteps, TypeOK, Journalled
  <2>3. journal'[cur].state = "done"
    BY <1>7, <2>2 DEF FinishObject, JournalRows, TypeOK, Journalled
  <2> QED  BY <2>1, <2>3 DEF JournalSynced, Journalled
<1>8. CASE Verify
  <2>1. /\ pc = "verify" /\ pc' = "config"
        /\ UNCHANGED <<staged, stagedDisk, journal>>
    BY <1>8 DEF Verify
  <2> QED  BY <2>1 DEF JournalSynced, Journalled, RetryInvariant, Progress
<1>9. CASE RemoveKeys
  <2>1. /\ pc = "unlink" /\ pc' = "unlinksync"
        /\ UNCHANGED <<source, staged, stagedDisk, journal, job>>
    BY <1>9 DEF RemoveKeys
  <2>2. keyFile # None /\ job = keyFile /\ Filled
    BY <2>1, WorkerHasKeys
    DEF BeforeRemoval, InJournal, AfterJournal, AfterKeys, WorkerSteps
  <2>3. \A o \in Journalled : Stands(o) /\ journal[o].state = "done"
    BY <2>1, <2>2 DEF RetryInvariant, ObjectsStand, JournalSynced
  <2> QED  BY <2>1, <2>2, <2>3 DEF JournalSynced, Journalled, Stands
<1>10. CASE \/ Drain \/ ReadKeys \/ CheckConfiguration \/ NextObject
            \/ StopBetweenObjects \/ BeginFinalizing \/ PersistConfiguration
            \/ AdoptKey \/ MarkComplete \/ SyncRemovedKeys \/ Reopen \/ Pause
            \/ WorkerExits
  <2>1. /\ UNCHANGED <<source, sourceDisk, staged, stagedDisk, journal>>
        /\ pc \notin {"syncdir", "flush"}
        /\ pc' \notin {"record", "syncdir", "config", "unlinksync"}
        /\ pc' \in Replacing => pc \in Replacing
    BY <1>10
    DEF Drain, ReadKeys, CheckConfiguration, NextObject, StopBetweenObjects,
        BeginFinalizing, PersistConfiguration, AdoptKey, MarkComplete,
        SyncRemovedKeys, Reopen, Pause, Refused, WorkerExits, Tolerated, Fault
  <2> QED  BY <2>1 DEF JournalSynced, Journalled
<1> QED
  BY <1>1, <1>2, <1>3, <1>4, <1>5, <1>6, <1>7, <1>8, <1>9, <1>10 DEF Run

LEMMA ProcessJournal ==
  ASSUME TypeOK, Gate, Synced, JournalSynced, Tolerated,
         Shutdown \/ ExitProcess \/ Kill \/ LosePower \/ Boot
  PROVE  JournalSynced'
<1> USE DEF fileVars, blobVars, dbVars, workerVars, jobVars, Replacing,
            Adopting, Holding
<1>1. CASE Shutdown
  BY <1>1 DEF Shutdown, JournalSynced, Journalled
<1>2. CASE ExitProcess \/ Boot
  <2>1. /\ pc = "idle" /\ pc' \in {"idle", "drain"}
        /\ UNCHANGED <<staged, stagedDisk, journal>>
    BY <1>2 DEF ExitProcess, Boot, ForgetProcess, Gate
  <2> QED  BY <2>1 DEF JournalSynced, Journalled
<1>3. CASE LosePower
  BY <1>3, PowerFacts DEF JournalSynced
<1> QED
  BY <1>1, <1>2, <1>3 DEF Kill, Tolerated

(* A loss of power leaves a rotation that can be tried again.               *)
LEMMA PowerRetry ==
  ASSUME TypeOK, Gate, Local, KeyInvariant, Synced, RetryInvariant,
         JournalSynced, LosePower
  PROVE  RetryInvariant'
<1>1. ConfigurationStands' /\ Progress'
  BY PowerFacts DEF ConfigurationStands, Progress, ObjectSteps
<1>2. CASE pc = "unlinksync" /\ keyFile' = job
  <2>1. /\ UNCHANGED <<source, row, journal>> /\ job # None
        /\ row # None /\ row.job = job.job /\ row.phase = "complete"
    BY <1>2, PowerFacts
    DEF Synced, KeysSynced, KeyInvariant, WorkerKeys, Local, AfterJournal,
        AfterKeys, WorkerSteps
  <2>2. Filled'
    BY <1>2, <2>1 DEF Filled
  <2>3. \A o \in Journalled' : Stands(o)'
    BY <1>2, <2>1 DEF JournalSynced, Journalled, Stands
  <2>4. RowStands'
    BY <1>2, <2>1 DEF RetryInvariant, RowStands
  <2> QED
    BY <1>1, <2>1, <2>2, <2>3, <2>4 DEF RetryInvariant, ObjectsStand
<1>3. CASE keyFile' = None
  BY <1>1, <1>3, PowerFacts DEF RetryInvariant, ObjectsStand, RowStands
<1>4. CASE keyFile' = keyFile /\ keyFile # None
  <2>1. RowStands'
    BY <1>4, PowerFacts DEF RetryInvariant, RowStands
  <2>2. CASE Filled
    <3>1. ASSUME NEW o \in Journalled, Stands(o) PROVE Stands(o)'
      <4>1. o \in Objects /\ journal' = journal /\ source'[o] # None
        BY <3>1, PowerFacts DEF Journalled, Stands, Synced, BlobsSynced
      <4>2. CASE pc = "syncdir" /\ o = cur
        <5>1. /\ journal[o].state = "prepared"
              /\ sourceDisk[o] = journal[o].old
              /\ stagedDisk[o] = journal[o].new
              /\ source[o] = journal[o].new
          BY <3>1, <4>2 DEF JournalSynced, RetryInvariant, Progress
        <5>2. \/ source'[o] = journal[o].new
              \/ source'[o] = journal[o].old /\ staged'[o] = journal[o].new
          BY <4>1, <5>1, PowerFacts
        <5> QED  BY <1>4, <3>1, <4>1, <5>1, <5>2 DEF Stands
      <4>3. CASE ~(pc = "syncdir" /\ o = cur)
        <5>1. sourceDisk[o] = source[o]
          BY <4>1, <4>3 DEF Synced, BlobsSynced
        <5>2. source'[o] = source[o]
          BY <4>1, <5>1, PowerFacts
        <5>3. journal[o].state = "prepared" => staged'[o] = staged[o]
          BY <3>1, <4>1, <4>3, PowerFacts DEF JournalSynced
        <5> QED  BY <1>4, <3>1, <4>1, <5>2, <5>3 DEF Stands
      <4> QED  BY <4>2, <4>3
    <3>2. Journalled' = Journalled /\ Filled'
      BY <1>4, <2>2, PowerFacts DEF Journalled, Filled
    <3>3. ObjectsStand'
      BY <1>4, <2>2, <3>1, <3>2 DEF RetryInvariant, ObjectsStand
    <3> QED  BY <1>1, <2>1, <3>3 DEF RetryInvariant
  <2>3. CASE ~Filled
    <3>1. pc # "syncdir"
      BY <2>3, WorkerHasKeys
      DEF BeforeRemoval, InJournal, AfterJournal, AfterKeys, WorkerSteps
    <3>2. source' = source /\ ~Filled'
      BY <1>4, <2>3, <3>1, PowerFacts DEF Filled
    <3>3. ObjectsStand'
      BY <1>4, <2>3, <3>2 DEF RetryInvariant, ObjectsStand, Present
    <3> QED  BY <1>1, <2>1, <3>3 DEF RetryInvariant
  <2> QED  BY <2>2, <2>3
<1> QED
  BY <1>2, <1>3, <1>4, PowerFacts
  DEF Synced, KeysSynced, KeyInvariant, WorkerKeys

LEMMA StutterJournal ==
  ASSUME JournalSynced, UNCHANGED vars
  PROVE  JournalSynced'
BY DEF vars, fileVars, blobVars, dbVars, workerVars, jobVars, JournalSynced,
       Journalled

LEMMA RetriesInvariant ==
  ASSUME Bearable
  PROVE  Spec => []RetryInvariant
<1> DEFINE Inv == RetryInvariant /\ (Tolerated => JournalSynced)
           Known == /\ TypeOK /\ Gate /\ Local
                    /\ KeyInvariant /\ (Tolerated => Synced)
<1>1. Init => Inv
  BY InitRetry
<1>2. Known /\ Inv /\ [Next]_vars => Inv'
  <2> SUFFICES ASSUME TypeOK, Gate, Local, KeyInvariant, Tolerated => Synced,
                      RetryInvariant, Tolerated => JournalSynced, [Next]_vars
               PROVE  RetryInvariant' /\ (Tolerated => JournalSynced')
    BY DEF Tolerated
  <2>1. RetryInvariant'
    <3>1. CASE LosePower
      BY <3>1, PowerRetry DEF LosePower, Bearable
    <3>2. CASE Next /\ ~LosePower
      BY <3>2, ServeRetry, StartRetry, RunRetry, ProcessRetry DEF Next
    <3>3. CASE UNCHANGED vars
      BY <3>3, StutterRetry
    <3> QED  BY <3>1, <3>2, <3>3
  <2>2. ASSUME Tolerated PROVE JournalSynced'
    <3>1. CASE Next
      BY <2>2, <3>1, ServeJournal, StartJournal, RunJournal, ProcessJournal
      DEF Next
    <3>2. CASE UNCHANGED vars
      BY <2>2, <3>2, StutterJournal
    <3> QED  BY <3>1, <3>2
  <2> QED
    BY <2>1, <2>2
<1>3. Spec => []Known
  BY TypeInvariant, KeysInvariant, PTL
<1>4. Inv => RetryInvariant
  OBVIOUS
<1> HIDE DEF Inv, Known
<1> QED
  BY <1>1, <1>2, <1>3, <1>4, PTL DEF Spec

(* Whatever kill, failed step or loss of power a run resumes from, it meets *)
(* no state it refuses but for a reference to a missing blob, a key forced  *)
(* by the environment or a journal row without a job; only a loss of power  *)
(* after a kill or a failed sync is another matter.                         *)
THEOREM RetriesAreNotRefused ==
  ASSUME Bearable
  PROVE  Spec => []RefusesOnlyForCause
<1>1. TypeOK /\ Gate /\ Local /\ KeyInvariant /\ RetryInvariant
        => RefusesOnlyForCause
  <2> SUFFICES ASSUME TypeOK, Gate, Local, KeyInvariant, RetryInvariant, up,
                      Refused, ~Dangling, env = None, ~OrphanRow
               PROVE  FALSE
    BY DEF RefusesOnlyForCause
  <2>1. pc # "keys" \/ keyFile # None
    BY DEF Gate, KeyInvariant, OneKey
  <2>2. CASE pc = "check" \/ pc = "config"
    <3>1. keyFile # None /\ job = keyFile
      BY <2>2, WorkerHasKeys DEF BeforeRemoval, AfterKeys, WorkerSteps
    <3> QED
      BY <2>2, <3>1 DEF Refused, RetryInvariant, ConfigurationStands
  <2>3. CASE pc = "journal"
    <3>1. keyFile # None /\ job = keyFile
      BY <2>3, WorkerHasKeys DEF BeforeRemoval, AfterKeys, WorkerSteps
    <3> QED
      BY <2>3, <3>1
      DEF Refused, JournalConflict, RetryInvariant, RowStands, OrphanRow
  <2>4. CASE pc = "enumerate"
    BY <2>4 DEF Refused, Dangling
  <2>5. CASE pc \in {"stage", "compare", "verify"}
    <3>1. keyFile # None /\ job = keyFile /\ Filled
      BY <2>5, WorkerHasKeys
      DEF BeforeRemoval, InJournal, AfterJournal, AfterKeys, WorkerSteps
    <3>2. \A o \in Journalled : Stands(o)
      BY <3>1 DEF RetryInvariant, ObjectsStand
    <3>3. CASE pc \in {"stage", "compare"}
      <4>1. cur \in Journalled /\ journal[cur] \in JournalRows
        BY <3>3 DEF Local, ObjectSteps, TypeOK, Journalled
      <4>2. Stands(cur)
        BY <3>2, <4>1
      <4>3. CASE pc = "stage"
        BY <3>1, <4>2, <4>3 DEF Refused, RetryInvariant, Progress, Stands
      <4>4. CASE pc = "compare"
        <5>1. journal[cur].state \in {"prepared", "done"}
          BY <4>1, <4>4
          DEF RetryInvariant, Progress, JournalRows, States
        <5>2. Replaced \/ Replaceable
          BY <3>1, <4>2, <5>1 DEF Stands, Replaced, Replaceable
        <5> QED
          BY <4>2, <4>4, <5>2 DEF Refused, Stands
      <4> QED  BY <3>3, <4>3, <4>4
    <3>4. CASE pc = "verify"
      <4>1. AllVerified
        BY <3>1, <3>2, <3>4 DEF AllVerified, RetryInvariant, Progress, Stands
      <4> QED
        BY <3>4, <4>1 DEF Refused
    <3> QED  BY <2>5, <3>3, <3>4
  <2> QED
    BY <2>1, <2>2, <2>3, <2>4, <2>5 DEF Refused
<1> QED
  BY <1>1, TypeInvariant, KeysInvariant, RetriesInvariant, PTL

=============================================================================
