----------------------------- MODULE FileStore -----------------------------
(***************************************************************************)
(* Hashed storage (hash_files = true): the rows of file_index, the rows of *)
(* trash and the blobs of storage_root/data, under the handlers of         *)
(* FileController, TrashService and FileIndexService that change them.     *)
(*                                                                         *)
(* Those handlers hold storageMutex from their first look at the database  *)
(* to their return, so one call is under way at a time; but every SQL      *)
(* statement commits by itself and every blob is a file of its own, so a   *)
(* call is a sequence of steps that an end of the process, or a statement  *)
(* that throws, may cut anywhere.                                          *)
(*                                                                         *)
(* A path is the sequence of its names.  A blob is known by its hash; the  *)
(* key it is encrypted with is the subject of EncryptionRotation.          *)
(***************************************************************************)
EXTENDS Naturals, Sequences, FiniteSets, SequencesExt, Totals

CONSTANTS
  Owners,         \* owner_user_id values, among them the shared scope's
  SharedOwner,    \* owner_user_id 0: the shared scope, which has no trash
  Paths,          \* rel_path values
  Hashes,         \* sha256 of the plaintexts that are uploaded
  SizeOf,         \* their size_bytes
  Candidates,     \* for a name that is taken: name (1), name (2), ...
  TrashSettings,  \* values that trash_retention_days # 0 takes in this system
  MaxCalls,       \* bound on calls
  MaxTrash,       \* bound on trash ids
  MaxCuts,        \* bound on calls cut short
  None            \* absent row, sha256 '' or no call

Ids == 1 .. MaxTrash

FileRows == [dir : {FALSE}, sha : Hashes, size : Nat, live : BOOLEAN]
DirRows == [dir : {TRUE}, sha : {None}, size : Nat, live : BOOLEAN]
Rows == FileRows \cup DirRows

Entries ==
  [owner : Owners, path : Paths, dir : {FALSE}, sha : Hashes, size : Nat]
    \cup [owner : Owners, path : Paths, dir : {TRUE}, sha : {None}, size : Nat]

Calls ==
  [op : {"upload"}, owner : Owners, path : Paths, sha : Hashes]
    \cup [op : {"trash"}, owner : Owners, path : Paths, dir : BOOLEAN]
    \cup [op : {"destroy"}, owner : Owners, path : Paths, dir : BOOLEAN,
          doomed : SUBSET Hashes, step : {"blobs", "mark", "rows"}]
    \cup [op : {"purge"}, id : Ids, doomed : SUBSET Hashes,
          step : {"blobs", "rows", "entry"}]
    \cup [op : {"restore"}, id : Ids, final : Paths,
          step : {"replace", "upsert", "children", "clean", "leave"}]

ASSUME PathsAssumption ==
  /\ IsFiniteSet(Paths) /\ IsFiniteSet(Owners)
  /\ \A p \in Paths : p \in Seq(UNION {Range(q) : q \in Paths}) /\ p # <<>>

ASSUME ConstantsAssumption ==
  /\ SharedOwner \in Owners
  /\ SizeOf \in [Hashes -> Nat]
  /\ TrashSettings # {} /\ TrashSettings \subseteq BOOLEAN
  /\ MaxCalls \in Nat /\ MaxTrash \in Nat /\ MaxCuts \in Nat

ASSUME NoneAssumption ==
  None \notin Rows /\ None \notin Entries /\ None \notin Calls
    /\ None \notin Hashes

VARIABLES
  index,      \* file_index, by owner and path
  data,       \* storage_root/data
  trash,      \* table trash, by id
  trashed,    \* its AUTOINCREMENT counter
  keepTrash,  \* trash_retention_days # 0
  call,       \* the holder of storageMutex
  calls, cuts \* bounds

vars == <<index, data, trash, trashed, keepTrash, call, calls, cuts>>
store == <<index, data, trash, trashed, keepTrash>>

TypeOK ==
  /\ index \in [Owners -> [Paths -> Rows \cup {None}]]
  /\ data \subseteq Hashes
  /\ trash \in [Ids -> Entries \cup {None}]
  /\ trashed \in 0 .. MaxTrash
  /\ keepTrash \in BOOLEAN
  /\ call \in Calls \cup {None}
  /\ calls \in 0 .. MaxCalls /\ cuts \in 0 .. MaxCuts

Init ==
  /\ index = [o \in Owners |-> [p \in Paths |-> None]]
  /\ data = {}
  /\ trash = [i \in Ids |-> None] /\ trashed = 0
  /\ keepTrash \in TrashSettings
  /\ call = None /\ calls = 0 /\ cuts = 0

-----------------------------------------------------------------------------
(* Queries                                                                  *)

\* rel_path = ? OR instr(rel_path, ? || '/') = 1
AtOrUnder(q) == {p \in Paths : IsPrefix(q, p)}
Under(q) == AtOrUnder(q) \ {q}

LiveAt(o, p) == index[o][p] # None /\ index[o][p].live
DeletedAt(o, p) == index[o][p] # None /\ ~index[o][p].live
LiveFile(o, p) == LiveAt(o, p) /\ ~index[o][p].dir
LiveDir(o, p) == LiveAt(o, p) /\ index[o][p].dir

\* SELECT COUNT(*) FROM file_index WHERE sha256 = ?
Naming(h) ==
  {ref \in Owners \X Paths :
     index[ref[1]][ref[2]] # None /\ index[ref[1]][ref[2]].sha = h}

SoleReference(h) == Cardinality(Naming(h)) <= 1

\* Hashes of the file rows at the places S of owner o that no other row names.
Doomed(o, S) ==
  {h \in Hashes :
     /\ \E p \in S :
          index[o][p] # None /\ ~index[o][p].dir /\ index[o][p].sha = h
     /\ SoleReference(h)}

Rebase(p, src, dest) == dest \o SubSeq(p, Len(src) + 1, Len(p))

-----------------------------------------------------------------------------
(* Statements                                                               *)

FileRow(h) == [dir |-> FALSE, sha |-> h, size |-> SizeOf[h], live |-> TRUE]
DirRow(n) == [dir |-> TRUE, sha |-> None, size |-> n, live |-> TRUE]

\* INSERT ... ON CONFLICT DO UPDATE SET ..., is_deleted = 0
Upsert(o, p, r) == index' = [index EXCEPT ![o][p] = r]

\* UPDATE file_index SET is_deleted = 1
MarkRows(o, S) ==
  index' = [index EXCEPT ![o] = [p \in Paths |->
              IF p \in S /\ @[p] # None THEN [@[p] EXCEPT !.live = FALSE]
              ELSE @[p]]]

DeleteRows(o, S) ==
  index' = [index EXCEPT ![o] = [p \in Paths |->
              IF p \in S THEN None ELSE @[p]]]

\* UPDATE file_index SET rel_path = dest || substr(rel_path, ...): the rows S,
\* at or under src, move below dest and are live there.  UNIQUE(owner_user_id,
\* scope, rel_path) refuses the whole statement if one place is taken.
Images(S, src, dest) == {Rebase(p, src, dest) : p \in S}
PlacesFree(o, S, src, dest) ==
  \A p \in Images(S, src, dest) : index[o][p] = None
Relocate(o, S, src, dest) ==
  index' = [index EXCEPT ![o] = [p \in Paths |->
              IF p \in Images(S, src, dest)
                THEN [@[Rebase(p, dest, src)] EXCEPT !.live = TRUE]
              ELSE IF p \in S THEN None
              ELSE @[p]]]

-----------------------------------------------------------------------------
(* Uploading, creating folders, moving                                      *)

BeginCall == call = None /\ calls < MaxCalls /\ calls' = calls + 1
At(op, step) == call # None /\ call.op = op /\ call.step = step
EndCall == call' = None
Goto(step) == call' = [call EXCEPT !.step = step]

\* The blob is renamed into place first.  QuotaService::reserve() refuses the
\* path of a live directory.
Upload(o, p, h) ==
  /\ BeginCall
  /\ ~LiveDir(o, p)
  /\ data' = data \cup {h}
  /\ call' = [op |-> "upload", owner |-> o, path |-> p, sha |-> h]
  /\ UNCHANGED <<index, trash, trashed, keepTrash, cuts>>

\* upsertFileExplicit(): the row may be new, live, or revived from the trash.
IndexUpload ==
  /\ call # None /\ call.op = "upload"
  /\ Upsert(call.owner, call.path, FileRow(call.sha))
  /\ EndCall
  /\ UNCHANGED <<data, trash, trashed, keepTrash, calls, cuts>>

\* Variant: the row keeps the hash of the file that was there.
CreateFolderKeepsHash(o, p) ==
  /\ BeginCall
  /\ Upsert(o, p, [DirRow(0) EXCEPT !.sha =
                     IF index[o][p] = None THEN None ELSE index[o][p].sha])
  /\ UNCHANGED <<data, trash, trashed, keepTrash, call, cuts>>

\* One upsert, which also turns a file of that path into a directory.
CreateFolder(o, p) ==
  /\ BeginCall
  /\ Upsert(o, p, DirRow(0))
  /\ UNCHANGED <<data, trash, trashed, keepTrash, call, cuts>>

\* One UPDATE of the live rows at and under src.
Move(o, src, dest) ==
  LET moved == {p \in AtOrUnder(src) : LiveAt(o, p)} IN
  /\ BeginCall
  /\ src # dest
  /\ moved # {}
  /\ \A p \in AtOrUnder(dest) : ~LiveAt(o, p)
  /\ Images(moved, src, dest) \subseteq Paths
  /\ PlacesFree(o, moved, src, dest)
  /\ Relocate(o, moved, src, dest)
  /\ UNCHANGED <<data, trash, trashed, keepTrash, call, cuts>>

-----------------------------------------------------------------------------
(* moveToTrash()                                                            *)

\* The row is looked up whether or not it is deleted already; a directory may
\* have no row of its own.
Found(o, p) == index[o][p] # None \/ \E q \in Under(p) : LiveAt(o, q)
IsDir(o, p) == index[o][p] = None \/ index[o][p].dir
ShaAt(o, p) == IF index[o][p] = None THEN None ELSE index[o][p].sha

\* A directory's size is the sum below it only while its row says 0.
SizeAt(o, p) ==
  LET size == IF index[o][p] = None THEN 0 ELSE index[o][p].size
      live == {q \in AtOrUnder(p) : LiveAt(o, q)}
  IN IF IsDir(o, p) /\ size = 0
       THEN Total([q \in live |-> index[o][q].size], live)
       ELSE size

Scope(p, dir) == IF dir THEN AtOrUnder(p) ELSE {p}

\* Variant: a failed INSERT into trash is not noticed.
TrashFileUnrecorded(o, p) ==
  /\ BeginCall
  /\ keepTrash
  /\ o # SharedOwner /\ Found(o, p)
  /\ trashed < MaxTrash
  /\ call' = [op |-> "trash", owner |-> o, path |-> p, dir |-> IsDir(o, p)]
  /\ UNCHANGED <<index, data, trash, trashed, keepTrash, cuts>>

\* With the trash enabled: INSERT INTO trash ...
TrashFile(o, p) ==
  /\ BeginCall
  /\ keepTrash
  /\ o # SharedOwner /\ Found(o, p)
  /\ trashed < MaxTrash
  /\ trashed' = trashed + 1
  /\ trash' = [trash EXCEPT ![trashed + 1] =
       [owner |-> o, path |-> p, dir |-> IsDir(o, p), sha |-> ShaAt(o, p),
        size |-> SizeAt(o, p)]]
  /\ call' = [op |-> "trash", owner |-> o, path |-> p, dir |-> IsDir(o, p)]
  /\ UNCHANGED <<index, data, keepTrash, cuts>>

\* ... then markDeleted() or markDeletedPrefix().
MarkTrashed ==
  /\ call # None /\ call.op = "trash"
  /\ MarkRows(call.owner, Scope(call.path, call.dir))
  /\ EndCall
  /\ UNCHANGED <<data, trash, trashed, keepTrash, calls, cuts>>

\* With the trash disabled, blobs that one row at most names are removed ...
DestroyFile(o, p) ==
  /\ BeginCall
  /\ ~keepTrash
  /\ o # SharedOwner /\ Found(o, p)
  /\ call' = [op |-> "destroy", owner |-> o, path |-> p, dir |-> IsDir(o, p),
              doomed |-> Doomed(o, Scope(p, IsDir(o, p))), step |-> "blobs"]
  /\ UNCHANGED <<store, cuts>>

\* ... then the rows are marked, and then deleted, those below a file included.
MarkDestroyed ==
  /\ At("destroy", "mark")
  /\ MarkRows(call.owner, Scope(call.path, call.dir))
  /\ Goto("rows")
  /\ UNCHANGED <<data, trash, trashed, keepTrash, calls, cuts>>

DropDestroyed ==
  /\ At("destroy", "rows")
  /\ DeleteRows(call.owner, AtOrUnder(call.path))
  /\ EndCall
  /\ UNCHANGED <<data, trash, trashed, keepTrash, calls, cuts>>

\* The loop over the blobs, for a destroying and for a purging call.
RemoveBlob ==
  /\ call # None /\ call.op \in {"destroy", "purge"} /\ call.step = "blobs"
  /\ IF call.doomed = {}
       THEN /\ Goto(IF call.op = "destroy" THEN "mark" ELSE "rows")
            /\ UNCHANGED data
       ELSE \E h \in call.doomed :
              /\ data' = data \ {h}
              /\ call' = [call EXCEPT !.doomed = @ \ {h}]
  /\ UNCHANGED <<index, trash, trashed, keepTrash, calls, cuts>>

-----------------------------------------------------------------------------
(* restoreFromTrash(), for one id                                           *)

\* Variant: the path itself is not looked at.
ConflictBelow(e, p) == \E q \in Scope(p, e.dir) \ {p} : LiveAt(e.owner, q)

Conflict(e, p) == \E q \in Scope(p, e.dir) : LiveAt(e.owner, q)

Alternatives(p) ==
  LET names == Candidates[Last(p)] IN
  [k \in DOMAIN names |-> Front(p) \o <<names[k]>>]

\* The first numbered name that is not in conflict.
FreeAlternative(e, p) ==
  LET alt == Alternatives(e.path) IN
  \E k \in DOMAIN alt :
    /\ p = alt[k] /\ p \in Paths /\ ~Conflict(e, p)
    /\ \A j \in 1 .. k - 1 : alt[j] \in Paths /\ Conflict(e, alt[j])

BeginRestore(i, overwrite) ==
  /\ BeginCall
  /\ trash[i] # None
  /\ LET e == trash[i]
         to(p, step) ==
           [op |-> "restore", id |-> i, final |-> p, step |-> step]
     IN \/ ~Conflict(e, e.path) /\ call' = to(e.path, "upsert")
        \/ Conflict(e, e.path) /\ overwrite /\ call' = to(e.path, "replace")
        \/ /\ Conflict(e, e.path) /\ ~overwrite
           /\ \E p \in Paths :
                /\ FreeAlternative(e, p)
                /\ call' = to(p, "upsert")
  /\ UNCHANGED <<store, cuts>>

ReplaceLive ==
  /\ At("restore", "replace")
  /\ LET e == trash[call.id] IN
       DeleteRows(e.owner, {p \in Scope(e.path, e.dir) : LiveAt(e.owner, p)})
  /\ Goto("upsert")
  /\ UNCHANGED <<data, trash, trashed, keepTrash, calls, cuts>>

AfterRow(e) == IF call.final # e.path THEN "clean" ELSE "leave"

RestoreRow ==
  /\ At("restore", "upsert")
  /\ LET e == trash[call.id] IN
       /\ Upsert(e.owner, call.final,
                 IF e.dir THEN DirRow(e.size) ELSE FileRow(e.sha))
       /\ Goto(IF e.dir THEN "children" ELSE AfterRow(e))
  /\ UNCHANGED <<data, trash, trashed, keepTrash, calls, cuts>>

\* What is deleted below the directory comes back with it.  Nobody looks at
\* the result of the renaming UPDATE.
RestoreChildren ==
  /\ At("restore", "children")
  /\ LET e == trash[call.id]
         below == {p \in Under(e.path) : DeletedAt(e.owner, p)}
         atOrBelow == {p \in AtOrUnder(e.path) : DeletedAt(e.owner, p)}
     IN /\ \/ /\ call.final = e.path
              /\ Relocate(e.owner, atOrBelow, e.path, e.path)
           \/ /\ call.final # e.path
              /\ Images(below, e.path, call.final) \subseteq Paths
              /\ IF PlacesFree(e.owner, below, e.path, call.final)
                   THEN Relocate(e.owner, below, e.path, call.final)
                   ELSE UNCHANGED index
        /\ Goto(AfterRow(e))
  /\ UNCHANGED <<data, trash, trashed, keepTrash, calls, cuts>>

CleanOriginal ==
  /\ At("restore", "clean")
  /\ LET e == trash[call.id] IN
       DeleteRows(e.owner, {p \in {e.path} : DeletedAt(e.owner, p)})
  /\ Goto("leave")
  /\ UNCHANGED <<data, trash, trashed, keepTrash, calls, cuts>>

LeaveTrash ==
  /\ At("restore", "leave") \/ At("purge", "entry")
  /\ trash' = [trash EXCEPT ![call.id] = None]
  /\ EndCall
  /\ UNCHANGED <<index, data, trashed, keepTrash, calls, cuts>>

-----------------------------------------------------------------------------
(* deletePermanently(), for one id: asked for by the user, by purgeTrash()  *)
(* or by the hourly cleanupExpiredTrash().                                  *)

DeletedRows(e) == {p \in AtOrUnder(e.path) : DeletedAt(e.owner, p)}

\* Variant: the rows it looks at need not be deleted.
BeginPurgeOfAnyRow(i) ==
  /\ BeginCall
  /\ trash[i] # None
  /\ call' = [op |-> "purge", id |-> i, step |-> "blobs",
              doomed |-> Doomed(trash[i].owner, AtOrUnder(trash[i].path))]
  /\ UNCHANGED <<store, cuts>>

BeginPurge(i) ==
  /\ BeginCall
  /\ trash[i] # None
  /\ call' = [op |-> "purge", id |-> i, step |-> "blobs",
              doomed |-> Doomed(trash[i].owner, DeletedRows(trash[i]))]
  /\ UNCHANGED <<store, cuts>>

ForgetRows ==
  /\ At("purge", "rows")
  /\ LET e == trash[call.id] IN DeleteRows(e.owner, DeletedRows(e))
  /\ Goto("entry")
  /\ UNCHANGED <<data, trash, trashed, keepTrash, calls, cuts>>

-----------------------------------------------------------------------------
\* ConfigService::save(), under configMutex, which every call holds shared.
SetRetention ==
  /\ call = None
  /\ keepTrash' \in TrashSettings \ {keepTrash}
  /\ UNCHANGED <<index, data, trash, trashed, call, calls, cuts>>

\* The process dies, or a statement throws out of the handler.
Cut ==
  /\ call # None /\ cuts < MaxCuts
  /\ cuts' = cuts + 1
  /\ EndCall
  /\ UNCHANGED <<store, calls>>

Restore ==
  \/ \E i \in Ids, overwrite \in BOOLEAN : BeginRestore(i, overwrite)
  \/ ReplaceLive \/ RestoreRow \/ RestoreChildren \/ CleanOriginal

Next ==
  \/ \E o \in Owners, p \in Paths :
       \/ \E h \in Hashes : Upload(o, p, h)
       \/ CreateFolder(o, p)
       \/ \E dest \in Paths : Move(o, p, dest)
       \/ TrashFile(o, p) \/ DestroyFile(o, p)
  \/ IndexUpload
  \/ MarkTrashed \/ MarkDestroyed \/ DropDestroyed
  \/ RemoveBlob
  \/ Restore
  \/ \E i \in Ids : BeginPurge(i)
  \/ ForgetRows
  \/ LeaveTrash
  \/ SetRetention
  \/ Cut

Spec == Init /\ [][Next]_vars

-----------------------------------------------------------------------------
(* Properties                                                               *)

(* The rows a deletion for good is about: below its path, and for the trash *)
(* only those that are deleted.                                             *)
Target ==
  IF call = None \/ call.op \notin {"destroy", "purge"} THEN {}
  ELSE IF call.op = "destroy"
    THEN {call.owner} \X Scope(call.path, call.dir)
    ELSE {trash[call.id].owner} \X DeletedRows(trash[call.id])

(* Deduplication shares one blob between rows of any number of users: a     *)
(* blob is removed only by a deletion that is about every row naming it.    *)
RowKeepsContent ==
  [][\A h \in data \ data' : Naming(h) \subseteq Target]_vars

(* Restoring without overwriting never changes a live row, whatever took    *)
(* the place of the deleted one meanwhile.                                  *)
RestoreKeepsLive ==
  [][call # None /\ call.op = "restore" /\ call.step # "replace" =>
       \A o \in Owners, p \in Paths :
         LiveAt(o, p) => index'[o][p] = index[o][p]]_vars

(* A live row becomes a deleted one only under a trash row it can be        *)
(* restored from, or in a deletion for good.                                *)
DeletionIsRecorded ==
  [][\A o \in Owners, p \in Paths :
       LiveAt(o, p) /\ DeletedAt(o, p)' =>
         \/ call.op = "destroy"
         \/ \E i \in Ids :
              /\ trash[i] # None /\ trash[i].owner = o
              /\ p \in Scope(trash[i].path, trash[i].dir)]_vars

(* server/README.md:207: trash_retention_days is the "Retention period in   *)
(* days for files in the trash before automated permanent deletion": until  *)
(* then the content of an entry is there.                                   *)
TrashKeepsContent ==
  \A i \in Ids :
    trash[i] # None /\ ~trash[i].dir /\ call = None => trash[i].sha \in data

=============================================================================
