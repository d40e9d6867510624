-------------------------- MODULE FileStoreProofs --------------------------
(***************************************************************************)
(* Theorems of FileStore, for any owners, paths and hashes, whatever call  *)
(* is cut short and whenever the retention setting changes: deletions keep *)
(* the blobs that other rows share, live rows are deleted on record only,  *)
(* and restoring changes no live row.                                      *)
(***************************************************************************)
EXTENDS FileStore, TotalsProofs, FiniteSetTheorems, SequenceTheorems, TLAPS

(* What a running call knows about the trash: the rows it can name exist    *)
(* and belong to an owner.                                                  *)
TrashShape ==
  /\ trash = [i \in Ids |-> trash[i]]
  /\ \A i \in Ids : trash[i] # None =>
       trash[i].owner \in Owners /\ trash[i].path \in Paths
         /\ trash[i].dir \in BOOLEAN

CallShape == call \in Calls \cup {None}

(* While a deletion removes blobs, the only row naming a doomed hash is one *)
(* the deletion is about; it stays so because the rows do not change until  *)
(* the last blob is gone.                                                   *)
DoomedOnlyInTarget ==
  call # None /\ call.op \in {"destroy", "purge"} /\ call.step = "blobs" =>
    \A h \in call.doomed : Naming(h) \subseteq Target

IInv == TrashShape /\ CallShape /\ DoomedOnlyInTarget

(* At most one row names a hash whose count is at most one.                 *)
LEMMA SoleReferenceIsUnique ==
  ASSUME NEW h, SoleReference(h), NEW a \in Naming(h), NEW b \in Naming(h)
  PROVE  a = b
<1>1. IsFiniteSet(Owners \X Paths)
  BY PathsAssumption, FS_Product
<1>2. IsFiniteSet(Naming(h))
  <2>1. Naming(h) \subseteq Owners \X Paths
    BY DEF Naming
  <2> QED BY <1>1, <2>1, FS_Subset
<1>3. Cardinality(Naming(h)) \in Nat /\ Cardinality(Naming(h)) # 0
  BY <1>2, FS_CardinalityType, FS_EmptySet
<1>4. Cardinality(Naming(h)) = 1
  BY <1>3 DEF SoleReference
<1>5. PICK x : Naming(h) = {x}
  BY <1>2, <1>4, FS_Singleton
<1> QED BY <1>5

(* Hence a hash doomed by a deletion at the places S is named from S only.  *)
LEMMA DoomedNamedInside ==
  ASSUME NEW o \in Owners, NEW S \in SUBSET Paths, NEW h \in Doomed(o, S)
  PROVE  Naming(h) \subseteq {o} \X S
<1>1. PICK p \in S : index[o][p] # None /\ index[o][p].sha = h
  BY DEF Doomed
<1>2. <<o, p>> \in Naming(h)
  BY <1>1 DEF Naming
<1>3. SoleReference(h)
  BY DEF Doomed
<1>4. SUFFICES ASSUME NEW b \in Naming(h) PROVE b = <<o, p>>
  OBVIOUS
<1> QED BY <1>2, <1>3, SoleReferenceIsUnique

LEMMA InitImpliesIInv == Init => IInv
  BY DEF Init, IInv, TrashShape, CallShape, DoomedOnlyInTarget

(* Every step keeps it.  Only the calls that begin a deletion make blobs    *)
(* doomed, and only RemoveBlob is enabled until those blobs are gone.       *)
LEMMA StepKeepsIInv == IInv /\ [Next]_vars => IInv'
<1> SUFFICES ASSUME IInv, [Next]_vars PROVE IInv'
  OBVIOUS
<1> USE NoneAssumption DEF IInv
<1>1. ASSUME NEW o \in Owners, NEW p \in Paths, NEW h \in Hashes,
             Upload(o, p, h)
      PROVE  IInv'
  BY <1>1 DEF Upload, BeginCall, TrashShape, CallShape, Calls,
              DoomedOnlyInTarget
<1>2. CASE IndexUpload
  BY <1>2 DEF IndexUpload, EndCall, TrashShape, CallShape, DoomedOnlyInTarget
<1>3. ASSUME NEW o \in Owners, NEW p \in Paths, CreateFolder(o, p)
      PROVE  IInv'
  BY <1>3 DEF CreateFolder, BeginCall, TrashShape, CallShape,
              DoomedOnlyInTarget
<1>4. ASSUME NEW o \in Owners, NEW p \in Paths, NEW dest \in Paths,
             Move(o, p, dest)
      PROVE  IInv'
  BY <1>4 DEF Move, BeginCall, TrashShape, CallShape, DoomedOnlyInTarget
<1>5. ASSUME NEW o \in Owners, NEW p \in Paths, TrashFile(o, p)
      PROVE  IInv'
  <2>1. IsDir(o, p) \in BOOLEAN
    BY DEF IsDir, CallShape
  <2>2. TrashShape'
    BY <1>5, <2>1 DEF TrashFile, TrashShape
  <2>3. CallShape'
    BY <1>5, <2>1 DEF TrashFile, CallShape, Calls
  <2>4. DoomedOnlyInTarget'
    BY <1>5 DEF TrashFile, DoomedOnlyInTarget
  <2> QED BY <2>2, <2>3, <2>4
<1>6. CASE MarkTrashed
  BY <1>6 DEF MarkTrashed, EndCall, TrashShape, CallShape, DoomedOnlyInTarget
<1>7. ASSUME NEW o \in Owners, NEW p \in Paths, DestroyFile(o, p)
      PROVE  IInv'
  <2>1. IsDir(o, p) \in BOOLEAN
    BY DEF IsDir
  <2>2. TrashShape'
    BY <1>7 DEF DestroyFile, store, TrashShape
  <2>3. call' \in Calls
    <3>1. Doomed(o, Scope(p, IsDir(o, p))) \in SUBSET Hashes
      BY DEF Doomed
    <3> QED BY <1>7, <2>1, <3>1 DEF DestroyFile, Calls
  <2>4. DoomedOnlyInTarget'
    <3>1. Scope(p, IsDir(o, p)) \in SUBSET Paths
      BY DEF Scope, AtOrUnder
    <3>2. \A h \in Doomed(o, Scope(p, IsDir(o, p))) :
            Naming(h) \subseteq {o} \X Scope(p, IsDir(o, p))
      BY <3>1, DoomedNamedInside
    <3>3. index' = index
      BY <1>7 DEF DestroyFile, store
    <3>4. \A h : Naming(h)' = Naming(h)
      BY <3>3 DEF Naming
    <3>5. Target' = {o} \X Scope(p, IsDir(o, p))
      <4>1. /\ call' # None /\ call'.op = "destroy"
            /\ call'.owner = o /\ call'.path = p /\ call'.dir = IsDir(o, p)
        BY <1>7, <2>3 DEF DestroyFile
      <4> QED BY <4>1 DEF Target
    <3>6. call'.doomed = Doomed(o, Scope(p, IsDir(o, p)))
      BY <1>7 DEF DestroyFile
    <3> QED BY <3>2, <3>4, <3>5, <3>6 DEF DoomedOnlyInTarget
  <2> QED BY <2>2, <2>3, <2>4 DEF CallShape
<1>8. CASE MarkDestroyed
  BY <1>8 DEF MarkDestroyed, At, Goto, TrashShape, CallShape, Calls,
              DoomedOnlyInTarget
<1>9. CASE DropDestroyed
  BY <1>9 DEF DropDestroyed, EndCall, TrashShape, CallShape,
              DoomedOnlyInTarget
<1>10. CASE RemoveBlob
  <2>1. TrashShape'
    BY <1>10 DEF RemoveBlob, TrashShape
  <2>2. CallShape'
    BY <1>10 DEF RemoveBlob, Goto, CallShape, Calls
  <2>3. DoomedOnlyInTarget'
    <3>1. CASE call.doomed = {}
      BY <1>10, <3>1 DEF RemoveBlob, Goto, CallShape, Calls, DoomedOnlyInTarget
    <3>2. CASE call.doomed # {}
      <4>1. PICK h \in call.doomed : call' = [call EXCEPT !.doomed = @ \ {h}]
        BY <1>10, <3>2 DEF RemoveBlob
      <4>2. call # None /\ call.op \in {"destroy", "purge"}
              /\ call.step = "blobs"
        BY <1>10 DEF RemoveBlob
      <4>3. call'.doomed \subseteq call.doomed
        BY <4>1, <4>2 DEF CallShape, Calls
      <4>4. index' = index /\ trash' = trash
        BY <1>10 DEF RemoveBlob
      <4>5. Target' = Target
        <5>1. call.op = "destroy" =>
                call'.op = "destroy" /\ call'.owner = call.owner
                  /\ call'.path = call.path /\ call'.dir = call.dir
          BY <4>1, <4>2 DEF CallShape, Calls
        <5>2. call.op = "purge" => call'.op = "purge" /\ call'.id = call.id
          BY <4>1, <4>2 DEF CallShape, Calls
        <5>3. call' # None
          BY <2>2, <4>1, <4>2 DEF CallShape, Calls
        <5> QED
          BY <4>2, <4>4, <5>1, <5>2, <5>3 DEF Target, DeletedRows, DeletedAt
      <4>6. \A g : Naming(g)' = Naming(g)
        BY <4>4 DEF Naming
      <4> QED BY <4>2, <4>3, <4>5, <4>6 DEF DoomedOnlyInTarget
    <3> QED BY <3>1, <3>2
  <2> QED BY <2>1, <2>2, <2>3
<1>11. ASSUME NEW i \in Ids, NEW overwrite \in BOOLEAN,
              BeginRestore(i, overwrite)
       PROVE  IInv'
  <2>1. trash[i].path \in Paths
    BY <1>11 DEF BeginRestore, TrashShape
  <2>2. TrashShape'
    BY <1>11 DEF BeginRestore, store, TrashShape
  <2>3. CallShape'
    BY <1>11, <2>1 DEF BeginRestore, CallShape, Calls
  <2>4. DoomedOnlyInTarget'
    BY <1>11 DEF BeginRestore, DoomedOnlyInTarget
  <2> QED BY <2>2, <2>3, <2>4
<1>12. CASE ReplaceLive
  BY <1>12 DEF ReplaceLive, At, Goto, TrashShape, CallShape, Calls,
               DoomedOnlyInTarget
<1>13. CASE RestoreRow
  BY <1>13 DEF RestoreRow, AfterRow, At, Goto, TrashShape, CallShape, Calls,
               DoomedOnlyInTarget
<1>14. CASE RestoreChildren
  BY <1>14 DEF RestoreChildren, AfterRow, At, Goto, TrashShape, CallShape,
               Calls, DoomedOnlyInTarget
<1>15. CASE CleanOriginal
  BY <1>15 DEF CleanOriginal, At, Goto, TrashShape, CallShape, Calls,
               DoomedOnlyInTarget
<1>16. CASE LeaveTrash
  BY <1>16 DEF LeaveTrash, EndCall, TrashShape, CallShape, DoomedOnlyInTarget
<1>17. ASSUME NEW i \in Ids, BeginPurge(i)
       PROVE  IInv'
  <2> DEFINE e == trash[i]
             S == DeletedRows(e)
  <2>1. e.owner \in Owners
    BY <1>17 DEF BeginPurge, TrashShape
  <2>2. TrashShape'
    BY <1>17 DEF BeginPurge, store, TrashShape
  <2>3. call' \in Calls
    <3>1. Doomed(e.owner, S) \in SUBSET Hashes
      BY DEF Doomed
    <3> QED BY <1>17, <3>1 DEF BeginPurge, Calls
  <2>4. DoomedOnlyInTarget'
    <3>1. S \in SUBSET Paths
      BY DEF DeletedRows, AtOrUnder
    <3>2. \A h \in Doomed(e.owner, S) : Naming(h) \subseteq {e.owner} \X S
      BY <2>1, <3>1, DoomedNamedInside
    <3>3. index' = index /\ trash' = trash
      BY <1>17 DEF BeginPurge, store
    <3>4. \A h : Naming(h)' = Naming(h)
      BY <3>3 DEF Naming
    <3>5. Target' = {e.owner} \X S
      <4>1. call' # None /\ call'.op = "purge" /\ call'.id = i
        BY <1>17, <2>3 DEF BeginPurge
      <4> QED BY <3>3, <4>1 DEF Target, DeletedRows, DeletedAt
    <3>6. call'.doomed = Doomed(e.owner, S)
      BY <1>17 DEF BeginPurge
    <3> QED BY <3>2, <3>4, <3>5, <3>6 DEF DoomedOnlyInTarget
  <2> QED BY <2>2, <2>3, <2>4 DEF CallShape
<1>18. CASE ForgetRows
  BY <1>18 DEF ForgetRows, At, Goto, TrashShape, CallShape, Calls,
               DoomedOnlyInTarget
<1>19. CASE SetRetention
  BY <1>19 DEF SetRetention, TrashShape, CallShape, DoomedOnlyInTarget
<1>20. CASE Cut
  BY <1>20 DEF Cut, EndCall, store, TrashShape, CallShape, DoomedOnlyInTarget
<1>21. CASE UNCHANGED vars
  <2>1. index' = index /\ trash' = trash /\ call' = call
    BY <1>21 DEF vars
  <2>2. Target' = Target
    BY <2>1 DEF Target, DeletedRows, DeletedAt
  <2>3. \A h : Naming(h)' = Naming(h)
    BY <2>1 DEF Naming
  <2> QED
    BY <2>1, <2>2, <2>3 DEF TrashShape, CallShape, DoomedOnlyInTarget
<1> QED
  BY <1>1, <1>2, <1>3, <1>4, <1>5, <1>6, <1>7, <1>8, <1>9, <1>10, <1>11,
     <1>12, <1>13, <1>14, <1>15, <1>16, <1>17, <1>18, <1>19, <1>20, <1>21
  DEF Next, Restore

(* A step that removes a blob is RemoveBlob on a doomed hash.               *)
LEMMA StepKeepsContent ==
  IInv /\ [Next]_vars => \A h \in data \ data' : Naming(h) \subseteq Target
<1> SUFFICES ASSUME IInv, [Next]_vars, NEW h \in data \ data'
             PROVE  Naming(h) \subseteq Target
  OBVIOUS
<1>1. RemoveBlob
  <2>1. data' # data
    OBVIOUS
  <2>2. Next
    BY <2>1 DEF vars
  <2>3. \A o \in Owners, p \in Paths, g \in Hashes : ~Upload(o, p, g)
    BY DEF Upload
  <2> QED
    BY <2>1, <2>2, <2>3
    DEF Next, Restore, IndexUpload, CreateFolder, Move, TrashFile, MarkTrashed,
        DestroyFile, MarkDestroyed, DropDestroyed, BeginRestore, ReplaceLive,
        RestoreRow, RestoreChildren, CleanOriginal, LeaveTrash, BeginPurge,
        ForgetRows, SetRetention, Cut, store
<1>2. h \in call.doomed
  BY <1>1 DEF RemoveBlob
<1> QED BY <1>1, <1>2 DEF RemoveBlob, IInv, DoomedOnlyInTarget

(* Deduplication: no deletion, purge or expiry removes a blob that a row    *)
(* outside it still names, for any owners, paths and hashes.                *)
THEOREM RowsKeepTheirContent == Spec => RowKeepsContent
<1>1. IInv /\ [Next]_vars => [\A h \in data \ data' :
                                Naming(h) \subseteq Target]_vars
  BY StepKeepsContent
<1> QED
  BY <1>1, InitImpliesIInv, StepKeepsIInv, PTL DEF Spec, RowKeepsContent

-----------------------------------------------------------------------------
(* Types.  A call can name an entry of the trash only while the entry is    *)
(* there: with EntryNamed the types are inductive.                          *)

EntryNamed ==
  call # None /\ call.op \in {"restore", "purge"} => trash[call.id] # None

Index == [Owners -> [Paths -> Rows \cup {None}]]

LEMMA UpsertTypes ==
  ASSUME index \in Index, NEW o \in Owners, NEW p \in Paths, NEW r \in Rows,
         Upsert(o, p, r)
  PROVE  index' \in Index
BY DEF Index, Upsert

LEMMA DeleteTypes ==
  ASSUME index \in Index, NEW o \in Owners, NEW S, DeleteRows(o, S)
  PROVE  index' \in Index
BY DEF Index, DeleteRows

LEMMA LiveFlagTypes ==
  ASSUME NEW r \in Rows, NEW b \in BOOLEAN
  PROVE  [r EXCEPT !.live = b] \in Rows
BY DEF Rows, FileRows, DirRows

LEMMA MarkTypes ==
  ASSUME index \in Index, NEW o \in Owners, NEW S, MarkRows(o, S)
  PROVE  index' \in Index
<1> DEFINE f == [p \in Paths |->
                  IF p \in S /\ index[o][p] # None
                    THEN [index[o][p] EXCEPT !.live = FALSE] ELSE index[o][p]]
<1>1. index' = [index EXCEPT ![o] = f]
  BY DEF MarkRows, Index
<1>2. ASSUME NEW p \in Paths PROVE f[p] \in Rows \cup {None}
  <2>1. index[o][p] \in Rows \cup {None}
    BY DEF Index
  <2> QED  BY <2>1, LiveFlagTypes
<1>3. f \in [Paths -> Rows \cup {None}]
  BY <1>2
<1> HIDE DEF f
<1> QED  BY <1>1, <1>3 DEF Index

(* Moving a subtree and moving it back leaves its paths alone.              *)
LEMMA RebaseInverts ==
  ASSUME NEW src \in Paths, NEW dest \in Paths, NEW q \in AtOrUnder(src)
  PROVE  /\ Rebase(Rebase(q, src, dest), dest, src) = q
         /\ Rebase(q, src, src) = q
<1> DEFINE Names == UNION {Range(p) : p \in Paths}
           tail == SubSeq(q, Len(src) + 1, Len(q))
           moved == dest \o tail
<1> HIDE DEF Names
<1>1. src \in Seq(Names) /\ dest \in Seq(Names) /\ q \in Seq(Names)
  BY PathsAssumption DEF AtOrUnder, Names
<1>2. /\ Len(src) \in Nat /\ Len(dest) \in Nat /\ Len(q) \in Nat
      /\ Len(src) <= Len(q)
      /\ SubSeq(src, 1, Len(src)) = SubSeq(q, 1, Len(src))
  BY <1>1, LenProperties DEF AtOrUnder, IsPrefix
<1>3. \A i \in 1 .. Len(src) : src[i] = q[i]
  <2> DEFINE n == Len(src)
  <2>1. \A i \in 1 .. n : src[i] \in Names /\ q[i] \in Names
    BY <1>1, <1>2, LenProperties
  <2>2. \A i \in 1 .. n - 1 + 1 : SubSeq(src, 1, n)[i] = src[1 + i - 1]
    BY <1>2, <2>1, SubSeqProperties
  <2>3. \A i \in 1 .. n - 1 + 1 : SubSeq(q, 1, n)[i] = q[1 + i - 1]
    BY <1>2, <2>1, SubSeqProperties
  <2> QED  BY <1>2, <2>2, <2>3
<1>4. /\ tail \in Seq(Names) /\ Len(tail) = Len(q) - Len(src)
      /\ \A i \in 1 .. Len(tail) : tail[i] = q[Len(src) + i]
  <2> DEFINE m == Len(src) + 1
             n == Len(q)
  <2>1. \A i \in m .. n : q[i] \in Names
    BY <1>1, <1>2, LenProperties
  <2>2. /\ tail \in Seq(Names)
        /\ Len(tail) = IF m <= n THEN n - m + 1 ELSE 0
        /\ \A i \in 1 .. n - m + 1 : tail[i] = q[m + i - 1]
    BY <1>2, <2>1, SubSeqProperties
  <2> QED  BY <1>2, <2>2
<1>5. src \o tail = q
  <2>1. /\ src \o tail \in Seq(Names) /\ Len(src \o tail) = Len(q)
        /\ \A i \in 1 .. Len(q) : (src \o tail)[i] =
             IF i <= Len(src) THEN src[i] ELSE tail[i - Len(src)]
    BY <1>1, <1>2, <1>4, ConcatProperties
  <2>2. \A i \in 1 .. Len(q) : (src \o tail)[i] = q[i]
    BY <1>2, <1>3, <1>4, <2>1
  <2> QED
    BY <1>1, <2>1, <2>2, SeqEqual
<1>6. SubSeq(moved, Len(dest) + 1, Len(moved)) = tail
  <2>1. /\ moved \in Seq(Names) /\ Len(moved) = Len(dest) + Len(tail)
        /\ \A i \in 1 .. Len(moved) : moved[i] =
             IF i <= Len(dest) THEN dest[i] ELSE tail[i - Len(dest)]
    BY <1>1, <1>2, <1>4, ConcatProperties
  <2> DEFINE rest == SubSeq(moved, Len(dest) + 1, Len(moved))
  <2>2. Len(tail) \in Nat /\ Len(moved) \in Nat
    BY <1>4, <2>1, LenProperties
  <2>3. /\ rest \in Seq(Names) /\ Len(rest) = Len(tail)
        /\ \A i \in 1 .. Len(rest) : rest[i] = moved[Len(dest) + i]
    <3> DEFINE m == Len(dest) + 1
               n == Len(moved)
    <3>1. \A i \in m .. n : moved[i] \in Names
      BY <1>2, <2>1, <2>2, LenProperties
    <3>2. /\ rest \in Seq(Names)
          /\ Len(rest) = IF m <= n THEN n - m + 1 ELSE 0
          /\ \A i \in 1 .. n - m + 1 : rest[i] = moved[m + i - 1]
      BY <1>2, <2>2, <3>1, SubSeqProperties
    <3> QED  BY <1>2, <2>1, <2>2, <3>2
  <2> HIDE DEF rest, moved, tail
  <2>4. ASSUME NEW i \in 1 .. Len(rest) PROVE rest[i] = tail[i]
    <3>1. /\ Len(dest) + i \in 1 .. Len(moved) /\ ~(Len(dest) + i <= Len(dest))
          /\ Len(dest) + i - Len(dest) = i
      BY <1>2, <2>1, <2>2, <2>3, <2>4
    <3>2. moved[Len(dest) + i] = tail[Len(dest) + i - Len(dest)]
      BY <2>1, <3>1
    <3> QED  BY <2>3, <3>1, <3>2
  <2>5. tail \in Seq(Names)
    BY <1>4
  <2>6. rest = tail
    BY <2>3, <2>4, <2>5, SeqEqual
  <2> QED
    BY <2>6 DEF rest
<1> QED
  BY <1>5, <1>6 DEF Rebase

LEMMA RelocateTypes ==
  ASSUME index \in Index, NEW o \in Owners, NEW src \in Paths,
         NEW dest \in Paths, NEW S \in SUBSET AtOrUnder(src),
         \A p \in S : index[o][p] # None, Relocate(o, S, src, dest)
  PROVE  index' \in Index
<1> DEFINE f == [p \in Paths |->
                  IF p \in Images(S, src, dest)
                    THEN [index[o][Rebase(p, dest, src)] EXCEPT !.live = TRUE]
                  ELSE IF p \in S THEN None
                  ELSE index[o][p]]
<1>1. index' = [index EXCEPT ![o] = f]
  BY DEF Relocate, Index
<1>2. ASSUME NEW p \in Paths PROVE f[p] \in Rows \cup {None}
  <2>1. CASE p \in Images(S, src, dest)
    <3>1. PICK q \in S : p = Rebase(q, src, dest)
      BY <2>1 DEF Images
    <3>2. q \in Paths /\ Rebase(p, dest, src) = q
      BY <3>1, RebaseInverts DEF AtOrUnder
    <3>3. index[o][q] \in Rows
      BY <3>1, <3>2 DEF Index
    <3> QED  BY <2>1, <3>2, <3>3, LiveFlagTypes
  <2>2. CASE p \notin Images(S, src, dest)
    BY <2>2 DEF Index
  <2> QED  BY <2>1, <2>2
<1>3. f \in [Paths -> Rows \cup {None}]
  BY <1>2
<1> HIDE DEF f
<1> QED  BY <1>1, <1>3 DEF Index

LEMMA RowTypes ==
  /\ \A h \in Hashes : FileRow(h) \in Rows
  /\ \A n \in Nat : DirRow(n) \in Rows
BY ConstantsAssumption DEF FileRow, DirRow, Rows, FileRows, DirRows

(* The entry of a path that is trashed: its size is a sum if it is that of  *)
(* a directory nobody has summed up yet.                                    *)
LEMMA EntryTypes ==
  ASSUME index \in Index, NEW o \in Owners, NEW p \in Paths
  PROVE  [owner |-> o, path |-> p, dir |-> IsDir(o, p), sha |-> ShaAt(o, p),
          size |-> SizeAt(o, p)] \in Entries
<1> USE NoneAssumption
<1>1. index[o][p] \in Rows \cup {None}
  BY DEF Index
<1>2. /\ IsDir(o, p) \in BOOLEAN
      /\ IF IsDir(o, p) THEN ShaAt(o, p) = None ELSE ShaAt(o, p) \in Hashes
  BY <1>1 DEF IsDir, ShaAt, Rows, FileRows, DirRows
<1>3. SizeAt(o, p) \in Nat
  <2> DEFINE live == {q \in AtOrUnder(p) : LiveAt(o, q)}
             size == [q \in live |-> index[o][q].size]
  <2>1. live \subseteq Paths
    BY DEF AtOrUnder
  <2>2. IsFiniteSet(live)
    <3> HIDE DEF live
    <3> QED  BY <2>1, PathsAssumption, FS_Subset
  <2>3. \A q \in live : size[q] \in Nat
    BY <2>1 DEF LiveAt, Index, Rows, FileRows, DirRows
  <2>4. Total(size, live) \in Nat
    <3> HIDE DEF live, size
    <3> QED  BY <2>2, <2>3, TotalType
  <2>5. index[o][p] # None => index[o][p].size \in Nat
    BY <1>1 DEF Rows, FileRows, DirRows
  <2> QED  BY <2>4, <2>5 DEF SizeAt
<1> QED  BY <1>2, <1>3 DEF Entries

LEMMA StepKeepsIndexTypes ==
  ASSUME TypeOK, EntryNamed, [Next]_vars
  PROVE  index' \in Index
<1> USE NoneAssumption
<1>0. index \in Index /\ CallShape
  BY DEF TypeOK, Index, CallShape
<1>1. CASE UNCHANGED index
  BY <1>0, <1>1
<1>2. ASSUME NEW o \in Owners, NEW p \in Paths, CreateFolder(o, p)
      PROVE  index' \in Index
  BY <1>0, <1>2, UpsertTypes, RowTypes DEF CreateFolder
<1>3. CASE IndexUpload
  <2>1. call.owner \in Owners /\ call.path \in Paths /\ call.sha \in Hashes
    BY <1>0, <1>3 DEF IndexUpload, CallShape, Calls
  <2> QED
    BY <1>0, <1>3, <2>1, UpsertTypes, RowTypes DEF IndexUpload
<1>4. ASSUME NEW o \in Owners, NEW p \in Paths, NEW dest \in Paths,
             Move(o, p, dest)
      PROVE  index' \in Index
  <2> DEFINE moved == {q \in AtOrUnder(p) : LiveAt(o, q)}
  <2>1. /\ moved \subseteq AtOrUnder(p) /\ \A q \in moved : index[o][q] # None
        /\ Relocate(o, moved, p, dest)
    BY <1>4 DEF Move, LiveAt
  <2> HIDE DEF moved
  <2> QED  BY <1>0, <2>1, RelocateTypes
<1>5. CASE DropDestroyed \/ MarkTrashed \/ MarkDestroyed
  <2>1. call.owner \in Owners
    BY <1>0, <1>5
    DEF DropDestroyed, MarkTrashed, MarkDestroyed, At, CallShape, Calls
  <2>2. CASE DropDestroyed
    BY <1>0, <2>1, <2>2, DeleteTypes DEF DropDestroyed
  <2>3. CASE MarkTrashed \/ MarkDestroyed
    BY <1>0, <2>1, <2>3, MarkTypes DEF MarkTrashed, MarkDestroyed
  <2> QED  BY <1>5, <2>2, <2>3
<1>6. CASE ReplaceLive \/ RestoreRow \/ RestoreChildren \/ CleanOriginal
             \/ ForgetRows
  <2> DEFINE e == trash[call.id]
  <2>1. call # None /\ call.op \in {"restore", "purge"} /\ call.id \in Ids
    BY <1>0, <1>6
    DEF ReplaceLive, RestoreRow, RestoreChildren, CleanOriginal, ForgetRows,
        At, CallShape, Calls
  <2>2. e \in Entries
    BY <2>1 DEF EntryNamed, TypeOK
  <2>3. e.owner \in Owners /\ e.path \in Paths
    BY <2>2 DEF Entries
  <2>4. CASE ReplaceLive
    BY <1>0, <2>3, <2>4, DeleteTypes DEF ReplaceLive
  <2>5. CASE CleanOriginal
    BY <1>0, <2>3, <2>5, DeleteTypes DEF CleanOriginal
  <2>6. CASE ForgetRows
    BY <1>0, <2>3, <2>6, DeleteTypes DEF ForgetRows
  <2>7. CASE RestoreRow
    <3>1. call.final \in Paths
      BY <1>0, <2>7 DEF RestoreRow, At, CallShape, Calls
    <3> DEFINE r == IF e.dir THEN DirRow(e.size) ELSE FileRow(e.sha)
    <3>2. Upsert(e.owner, call.final, r)
      BY <2>7 DEF RestoreRow
    <3>3. r \in Rows
      <4>1. e.size \in Nat /\ (e.dir \/ e.sha \in Hashes)
        BY <2>2 DEF Entries
      <4> HIDE DEF e
      <4> QED  BY <4>1, RowTypes
    <3> HIDE DEF r, e
    <3> QED  BY <1>0, <2>3, <3>1, <3>2, <3>3, UpsertTypes
  <2>8. CASE RestoreChildren
    <3>1. call.final \in Paths
      BY <1>0, <2>8 DEF RestoreChildren, At, CallShape, Calls
    <3> DEFINE below == {p \in Under(e.path) : DeletedAt(e.owner, p)}
               atOrBelow == {p \in AtOrUnder(e.path) : DeletedAt(e.owner, p)}
    <3>2. \/ Relocate(e.owner, atOrBelow, e.path, e.path)
          \/ Relocate(e.owner, below, e.path, call.final)
          \/ UNCHANGED index
      BY <2>8 DEF RestoreChildren
    <3>3. /\ below \subseteq AtOrUnder(e.path)
          /\ atOrBelow \subseteq AtOrUnder(e.path)
          /\ \A p \in below \cup atOrBelow : index[e.owner][p] # None
      BY DEF Under, DeletedAt
    <3> HIDE DEF below, atOrBelow, e
    <3>4. CASE Relocate(e.owner, atOrBelow, e.path, e.path)
      BY <1>0, <2>3, <3>3, <3>4, RelocateTypes
    <3>5. CASE Relocate(e.owner, below, e.path, call.final)
      BY <1>0, <2>3, <3>1, <3>3, <3>5, RelocateTypes
    <3> QED  BY <1>1, <3>2, <3>4, <3>5
  <2> QED
    BY <1>6, <2>4, <2>5, <2>6, <2>7, <2>8
<1>7. ASSUME NEW o \in Owners, NEW p \in Paths,
             \/ \E h \in Hashes : Upload(o, p, h)
             \/ TrashFile(o, p) \/ DestroyFile(o, p)
      PROVE  UNCHANGED index
  BY <1>7 DEF Upload, TrashFile, DestroyFile, store
<1>8. ASSUME NEW i \in Ids,
             \/ \E overwrite \in BOOLEAN : BeginRestore(i, overwrite)
             \/ BeginPurge(i)
      PROVE  UNCHANGED index
  BY <1>8 DEF BeginRestore, BeginPurge, store
<1>9. CASE RemoveBlob \/ LeaveTrash \/ SetRetention \/ Cut \/ UNCHANGED vars
  BY <1>1, <1>9 DEF RemoveBlob, LeaveTrash, SetRetention, Cut, store, vars
<1> QED
  BY <1>1, <1>2, <1>3, <1>4, <1>5, <1>6, <1>7, <1>8, <1>9
  DEF Next, Restore

LEMMA StepKeepsTypes ==
  ASSUME TypeOK, IInv, EntryNamed, [Next]_vars
  PROVE  TypeOK'
<1> USE NoneAssumption, ConstantsAssumption DEF TypeOK
<1>1. index' \in Index /\ CallShape'
  BY StepKeepsIndexTypes, StepKeepsIInv DEF IInv
<1>2. ASSUME UNCHANGED <<data, trash, trashed, keepTrash, calls, cuts>>
      PROVE  TypeOK'
  BY <1>1, <1>2 DEF Index, CallShape
<1>3. ASSUME UNCHANGED <<data, trash, trashed, keepTrash, cuts>>, BeginCall
      PROVE  TypeOK'
  BY <1>1, <1>3 DEF Index, CallShape, BeginCall
<1>4. ASSUME NEW o \in Owners, NEW p \in Paths,
             \/ CreateFolder(o, p)
             \/ \E dest \in Paths : Move(o, p, dest)
             \/ DestroyFile(o, p)
      PROVE  TypeOK'
  BY <1>3, <1>4 DEF CreateFolder, Move, DestroyFile, store
<1>5. ASSUME NEW i \in Ids,
             \/ \E overwrite \in BOOLEAN : BeginRestore(i, overwrite)
             \/ BeginPurge(i)
      PROVE  TypeOK'
  BY <1>3, <1>5 DEF BeginRestore, BeginPurge, store
<1>6. ASSUME NEW o \in Owners, NEW p \in Paths, NEW h \in Hashes,
             Upload(o, p, h)
      PROVE  TypeOK'
  BY <1>1, <1>6 DEF Upload, Index, CallShape, BeginCall
<1>7. ASSUME NEW o \in Owners, NEW p \in Paths, TrashFile(o, p)
      PROVE  TypeOK'
  <2> DEFINE e == [owner |-> o, path |-> p, dir |-> IsDir(o, p),
                   sha |-> ShaAt(o, p), size |-> SizeAt(o, p)]
  <2>1. e \in Entries
    BY EntryTypes DEF Index
  <2>2. /\ trash' = [trash EXCEPT ![trashed + 1] = e]
        /\ trashed' = trashed + 1 /\ trashed' \in 0 .. MaxTrash
        /\ UNCHANGED <<data, keepTrash, cuts>> /\ calls' \in 0 .. MaxCalls
    BY <1>7 DEF TrashFile, BeginCall
  <2> HIDE DEF e
  <2>3. trash' \in [Ids -> Entries \cup {None}]
    BY <2>1, <2>2
  <2> QED  BY <1>1, <2>2, <2>3 DEF Index, CallShape
<1>8. CASE IndexUpload \/ MarkTrashed \/ MarkDestroyed \/ DropDestroyed
             \/ ReplaceLive \/ RestoreRow \/ RestoreChildren \/ CleanOriginal
             \/ ForgetRows
  BY <1>2, <1>8
  DEF IndexUpload, MarkTrashed, MarkDestroyed, DropDestroyed, ReplaceLive,
      RestoreRow, RestoreChildren, CleanOriginal, ForgetRows
<1>9. CASE RemoveBlob
  BY <1>1, <1>9 DEF RemoveBlob, Index, CallShape
<1>10. CASE LeaveTrash
  BY <1>1, <1>10 DEF LeaveTrash, Index, CallShape
<1>11. CASE SetRetention
  BY <1>1, <1>11 DEF SetRetention, Index, CallShape
<1>12. CASE Cut
  BY <1>1, <1>12 DEF Cut, store, Index, CallShape
<1>13. CASE UNCHANGED vars
  BY <1>2, <1>13 DEF vars
<1> QED
  BY <1>4, <1>5, <1>6, <1>7, <1>8, <1>9, <1>10, <1>11, <1>12, <1>13
  DEF Next, Restore
-----------------------------------------------------------------------------
(* Live rows.  A row loses its live flag only in two statements, which a    *)
(* trash row or a deletion for good precedes; and a restore that does not   *)
(* overwrite writes where its search, or its deletion of what was live, has *)
(* left no live row.  Both facts outlive the step that established them     *)
(* because nothing else changes rows while the call lasts.                  *)

RowShape(r) ==
  r = [dir |-> r.dir, sha |-> r.sha, size |-> r.size, live |-> r.live]

IndexShape ==
  /\ index = [o \in Owners |-> [p \in Paths |-> index[o][p]]]
  /\ \A o \in Owners, p \in Paths :
       index[o][p] # None => RowShape(index[o][p])

EntryStands ==
  call # None /\ call.op = "trash" =>
    \E i \in Ids :
      /\ trash[i] # None /\ trash[i].owner = call.owner
      /\ trash[i].path = call.path /\ trash[i].dir = call.dir

RestoreStands ==
  call # None /\ call.op = "restore" =>
    /\ call.step = "replace" => call.final = trash[call.id].path
    /\ call.step = "upsert" => ~LiveAt(trash[call.id].owner, call.final)

LiveInv ==
  TypeOK /\ IInv /\ IndexShape /\ EntryStands /\ EntryNamed /\ RestoreStands

(* The renaming UPDATE keeps rows rows, and leaves none deleted.            *)
LEMMA RelocateRevives ==
  ASSUME IndexShape, NEW o \in Owners, NEW src \in Paths, NEW dest \in Paths,
         NEW S \in SUBSET AtOrUnder(src), \A p \in S : index[o][p] # None,
         Relocate(o, S, src, dest)
  PROVE  /\ IndexShape'
         /\ \A a \in Owners, p \in Paths :
              index'[a][p] # None =>
                index'[a][p].live \/ index'[a][p] = index[a][p]
<1>1. /\ \A a \in Owners \ {o} : index'[a] = index[a]
      /\ index'[o] = [p \in Paths |->
           IF p \in Images(S, src, dest)
             THEN [index[o][Rebase(p, dest, src)] EXCEPT !.live = TRUE]
           ELSE IF p \in S THEN None
           ELSE index[o][p]]
      /\ index' = [a \in Owners |-> index'[a]]
  BY DEF Relocate, IndexShape
<1>2. ASSUME NEW p \in Images(S, src, dest), p \in Paths
      PROVE  RowShape(index'[o][p]) /\ index'[o][p].live
  <2>1. PICK q \in S : p = Rebase(q, src, dest)
    BY <1>2 DEF Images
  <2>2. q \in Paths /\ Rebase(p, dest, src) = q
    BY <2>1, RebaseInverts DEF AtOrUnder
  <2>3. RowShape(index[o][q])
    BY <2>1, <2>2 DEF IndexShape
  <2>4. index'[o][p] = [index[o][q] EXCEPT !.live = TRUE]
    BY <1>1, <1>2, <2>2
  <2>5. index'[o][p] =
          [dir |-> index[o][q].dir, sha |-> index[o][q].sha,
           size |-> index[o][q].size, live |-> TRUE]
    BY <2>3, <2>4 DEF RowShape
  <2> QED  BY <2>5 DEF RowShape
<1>3. ASSUME NEW a \in Owners, NEW p \in Paths, index'[a][p] # None
      PROVE  /\ RowShape(index'[a][p])
             /\ index'[a][p].live \/ index'[a][p] = index[a][p]
  <2>1. CASE a = o /\ p \in Images(S, src, dest)
    BY <1>2, <2>1
  <2>2. CASE ~(a = o /\ p \in Images(S, src, dest))
    <3>1. index'[a][p] = index[a][p]
      BY <1>1, <1>3, <2>2
    <3> QED  BY <1>3, <3>1 DEF IndexShape
  <2> QED  BY <2>1, <2>2
<1>4. index' = [a \in Owners |-> [p \in Paths |-> index'[a][p]]]
  BY <1>1 DEF IndexShape
<1> QED
  BY <1>3, <1>4 DEF IndexShape

(* A row a statement writes is live.                                        *)
LEMMA UpsertIsLive ==
  ASSUME IndexShape, NEW o \in Owners, NEW p \in Paths, NEW r, RowShape(r),
         r.live, Upsert(o, p, r)
  PROVE  /\ IndexShape'
         /\ \A a \in Owners, q \in Paths :
              index'[a][q] # None =>
                index'[a][q].live \/ index'[a][q] = index[a][q]
BY DEF IndexShape, Upsert

LEMMA DeleteKeepsShape ==
  ASSUME IndexShape, NEW o \in Owners, NEW S, DeleteRows(o, S)
  PROVE  /\ IndexShape'
         /\ \A a \in Owners, q \in Paths :
              index'[a][q] # None => index'[a][q] = index[a][q]
BY DEF IndexShape, DeleteRows

LEMMA MarkKeepsShape ==
  ASSUME IndexShape, NEW o \in Owners, NEW S, MarkRows(o, S)
  PROVE  /\ IndexShape'
         /\ \A a \in Owners, q \in Paths :
              a # o \/ q \notin S => index'[a][q] = index[a][q]
<1>1. /\ \A a \in Owners \ {o} : index'[a] = index[a]
      /\ index'[o] = [p \in Paths |->
           IF p \in S /\ index[o][p] # None
             THEN [index[o][p] EXCEPT !.live = FALSE] ELSE index[o][p]]
      /\ index' = [a \in Owners |-> index'[a]]
  BY DEF MarkRows, IndexShape
<1>2. ASSUME NEW p \in Paths, index'[o][p] # None
      PROVE  RowShape(index'[o][p])
  <2>1. CASE p \in S /\ index[o][p] # None
    <3>1. RowShape(index[o][p])
      BY <2>1 DEF IndexShape
    <3>2. index'[o][p] = [index[o][p] EXCEPT !.live = FALSE]
      BY <1>1, <2>1
    <3>3. index'[o][p] =
            [dir |-> index[o][p].dir, sha |-> index[o][p].sha,
             size |-> index[o][p].size, live |-> FALSE]
      BY <3>1, <3>2 DEF RowShape
    <3> QED  BY <3>3 DEF RowShape
  <2>2. CASE ~(p \in S /\ index[o][p] # None)
    BY <1>1, <1>2, <2>2 DEF IndexShape
  <2> QED  BY <2>1, <2>2
<1>3. index' = [a \in Owners |-> [p \in Paths |-> index'[a][p]]]
  BY <1>1 DEF IndexShape
<1>4. \A a \in Owners, p \in Paths :
        index'[a][p] # None => RowShape(index'[a][p])
  BY <1>1, <1>2 DEF IndexShape
<1> QED
  BY <1>1, <1>3, <1>4 DEF IndexShape

LEMMA RowsHaveShape ==
  /\ \A h : RowShape(FileRow(h)) /\ FileRow(h).live
  /\ \A n : RowShape(DirRow(n)) /\ DirRow(n).live
BY DEF RowShape, FileRow, DirRow

(* Every statement but the two that mark rows keeps live rows live or       *)
(* removes them, and every one keeps rows rows.                             *)
Marks == MarkTrashed \/ MarkDestroyed

LEMMA StatementsKeepLive ==
  ASSUME IInv, IndexShape, EntryNamed, [Next]_vars
  PROVE  /\ IndexShape'
         /\ ~Marks => \A a \in Owners, p \in Paths :
              index'[a][p] # None =>
                index'[a][p].live \/ index'[a][p] = index[a][p]
<1> USE NoneAssumption
<1>1. CASE UNCHANGED index
  BY <1>1 DEF IndexShape
<1>2. ASSUME NEW o \in Owners, NEW p \in Paths, CreateFolder(o, p)
      PROVE  /\ IndexShape'
             /\ \A a \in Owners, q \in Paths :
                  index'[a][q] # None =>
                    index'[a][q].live \/ index'[a][q] = index[a][q]
  BY <1>2, UpsertIsLive, RowsHaveShape DEF CreateFolder
<1>3. CASE IndexUpload
  <2>1. call.owner \in Owners /\ call.path \in Paths
    BY <1>3 DEF IndexUpload, IInv, CallShape, Calls
  <2> QED
    BY <1>3, <2>1, UpsertIsLive, RowsHaveShape DEF IndexUpload
<1>4. ASSUME NEW o \in Owners, NEW p \in Paths, NEW dest \in Paths,
             Move(o, p, dest)
      PROVE  /\ IndexShape'
             /\ \A a \in Owners, q \in Paths :
                  index'[a][q] # None =>
                    index'[a][q].live \/ index'[a][q] = index[a][q]
  <2> DEFINE moved == {q \in AtOrUnder(p) : LiveAt(o, q)}
  <2>1. /\ moved \subseteq AtOrUnder(p) /\ \A q \in moved : index[o][q] # None
        /\ Relocate(o, moved, p, dest)
    BY <1>4 DEF Move, LiveAt
  <2> HIDE DEF moved
  <2> QED
    BY <2>1, RelocateRevives
<1>5. CASE DropDestroyed
  <2>1. call.owner \in Owners
    BY <1>5 DEF DropDestroyed, At, IInv, CallShape, Calls
  <2> QED
    BY <1>5, <2>1, DeleteKeepsShape DEF DropDestroyed
<1>6. CASE Marks
  <2>1. call.owner \in Owners
    BY <1>6 DEF Marks, MarkTrashed, MarkDestroyed, At, IInv, CallShape, Calls
  <2> QED
    BY <1>6, <2>1, MarkKeepsShape DEF Marks, MarkTrashed, MarkDestroyed
<1>7. CASE ReplaceLive \/ RestoreRow \/ RestoreChildren \/ CleanOriginal
             \/ ForgetRows
  <2> DEFINE e == trash[call.id]
  <2>1. call # None /\ call.op \in {"restore", "purge"} /\ call.id \in Ids
    BY <1>7
    DEF ReplaceLive, RestoreRow, RestoreChildren, CleanOriginal, ForgetRows,
        At, IInv, CallShape, Calls
  <2>2. e.owner \in Owners /\ e.path \in Paths
    BY <2>1 DEF EntryNamed, IInv, TrashShape
  <2>3. CASE ReplaceLive
    BY <2>2, <2>3, DeleteKeepsShape DEF ReplaceLive
  <2>4. CASE CleanOriginal
    BY <2>2, <2>4, DeleteKeepsShape DEF CleanOriginal
  <2>5. CASE ForgetRows
    BY <2>2, <2>5, DeleteKeepsShape DEF ForgetRows
  <2>6. CASE RestoreRow
    <3>1. call.final \in Paths
      BY <2>6 DEF RestoreRow, At, IInv, CallShape, Calls
    <3> DEFINE r == IF e.dir THEN DirRow(e.size) ELSE FileRow(e.sha)
    <3>2. Upsert(e.owner, call.final, r)
      BY <2>6 DEF RestoreRow
    <3>3. RowShape(r) /\ r.live
      BY RowsHaveShape
    <3> HIDE DEF r, e
    <3> QED
      BY <2>2, <3>1, <3>2, <3>3, UpsertIsLive
  <2>7. CASE RestoreChildren
    <3>1. call.final \in Paths
      BY <2>7 DEF RestoreChildren, At, IInv, CallShape, Calls
    <3> DEFINE below == {p \in Under(e.path) : DeletedAt(e.owner, p)}
               atOrBelow == {p \in AtOrUnder(e.path) : DeletedAt(e.owner, p)}
    <3>2. \/ Relocate(e.owner, atOrBelow, e.path, e.path)
          \/ Relocate(e.owner, below, e.path, call.final)
          \/ UNCHANGED index
      BY <2>7 DEF RestoreChildren
    <3>3. /\ below \subseteq AtOrUnder(e.path)
          /\ atOrBelow \subseteq AtOrUnder(e.path)
          /\ \A p \in below \cup atOrBelow : index[e.owner][p] # None
      BY DEF Under, DeletedAt
    <3> HIDE DEF below, atOrBelow, e
    <3>4. CASE Relocate(e.owner, atOrBelow, e.path, e.path)
      BY <2>2, <3>3, <3>4, RelocateRevives
    <3>5. CASE Relocate(e.owner, below, e.path, call.final)
      BY <2>2, <3>1, <3>3, <3>5, RelocateRevives
    <3> QED  BY <1>1, <3>2, <3>4, <3>5
  <2> QED
    BY <1>7, <2>3, <2>4, <2>5, <2>6, <2>7
<1>8. ASSUME NEW o \in Owners, NEW p \in Paths,
             \/ \E h \in Hashes : Upload(o, p, h)
             \/ TrashFile(o, p) \/ DestroyFile(o, p)
      PROVE  UNCHANGED index
  BY <1>8 DEF Upload, TrashFile, DestroyFile, store
<1>9. ASSUME NEW i \in Ids,
             \/ \E overwrite \in BOOLEAN : BeginRestore(i, overwrite)
             \/ BeginPurge(i)
      PROVE  UNCHANGED index
  BY <1>9 DEF BeginRestore, BeginPurge, store
<1>10. CASE RemoveBlob \/ LeaveTrash \/ SetRetention \/ Cut \/ UNCHANGED vars
  BY <1>1, <1>10 DEF RemoveBlob, LeaveTrash, SetRetention, Cut, store, vars
<1> QED
  BY <1>1, <1>2, <1>3, <1>4, <1>5, <1>6, <1>7, <1>8, <1>9, <1>10
  DEF Next, Restore, Marks

LEMMA InitImpliesLiveInv == Init => LiveInv
<1>1. Init => /\ TypeOK /\ IndexShape /\ EntryStands /\ EntryNamed
              /\ RestoreStands
  BY ConstantsAssumption
  DEF Init, TypeOK, IndexShape, EntryStands, EntryNamed, RestoreStands
<1> QED
  BY <1>1, InitImpliesIInv DEF LiveInv

(* The entry a call is about stays in the trash until the call ends.        *)
LEMMA StepKeepsEntries ==
  ASSUME LiveInv, [Next]_vars
  PROVE  EntryStands' /\ EntryNamed'
<1> USE NoneAssumption, ConstantsAssumption DEF LiveInv
<1>1. ASSUME UNCHANGED <<trash, trashed, call>>
      PROVE  EntryStands' /\ EntryNamed'
  BY <1>1 DEF EntryStands, EntryNamed
<1>2. ASSUME UNCHANGED <<trash, trashed>>,
             call' = None \/ call'.op \notin {"trash", "restore", "purge"}
      PROVE  EntryStands' /\ EntryNamed'
  BY <1>2 DEF EntryStands, EntryNamed
<1>3. ASSUME UNCHANGED <<trash, trashed>>,
             call # None, call'.op = call.op,
             call.op \in {"restore", "purge"} => call'.id = call.id,
             call.op # "trash"
      PROVE  EntryStands' /\ EntryNamed'
  BY <1>3 DEF EntryStands, EntryNamed
<1>4. CASE UNCHANGED vars
  BY <1>1, <1>4 DEF vars
<1>5. ASSUME NEW o \in Owners, NEW p \in Paths,
             \/ \E h \in Hashes : Upload(o, p, h)
             \/ CreateFolder(o, p)
             \/ \E dest \in Paths : Move(o, p, dest)
             \/ DestroyFile(o, p)
      PROVE  EntryStands' /\ EntryNamed'
  <2>1. UNCHANGED <<trash, trashed>>
    BY <1>5 DEF Upload, CreateFolder, Move, DestroyFile, store
  <2>2. CASE CreateFolder(o, p) \/ \E dest \in Paths : Move(o, p, dest)
    <3>1. UNCHANGED call
      BY <2>2 DEF CreateFolder, Move
    <3> QED  BY <1>1, <2>1, <3>1
  <2>3. CASE (\E h \in Hashes : Upload(o, p, h)) \/ DestroyFile(o, p)
    <3>1. call'.op \in {"upload", "destroy"}
      BY <2>3 DEF Upload, DestroyFile
    <3>2. call'.op \notin {"trash", "restore", "purge"}
      BY <3>1
    <3> QED  BY <1>2, <2>1, <3>2
  <2> QED  BY <1>5, <2>2, <2>3
<1>6. ASSUME NEW o \in Owners, NEW p \in Paths, TrashFile(o, p)
      PROVE  EntryStands' /\ EntryNamed'
  <2> DEFINE i == trashed + 1
             e == [owner |-> o, path |-> p, dir |-> IsDir(o, p),
                   sha |-> ShaAt(o, p), size |-> SizeAt(o, p)]
  <2>1. /\ i \in Ids /\ trashed' = i
        /\ trash' = [trash EXCEPT ![i] = e]
        /\ call' = [op |-> "trash", owner |-> o, path |-> p,
                    dir |-> IsDir(o, p)]
    BY <1>6 DEF TrashFile, TypeOK, Ids
  <2>2. trash'[i] = e
    BY <2>1 DEF IInv, TrashShape
  <2>3. /\ e # None /\ e.owner = o /\ e.path = p /\ e.dir = IsDir(o, p)
    BY EntryTypes DEF TypeOK, Index
  <2> HIDE DEF e, i
  <2> QED
    BY <2>1, <2>2, <2>3, <1>6 DEF EntryStands, EntryNamed, Ids, TrashFile
<1>7. ASSUME NEW i \in Ids,
             \/ \E overwrite \in BOOLEAN : BeginRestore(i, overwrite)
             \/ BeginPurge(i)
      PROVE  EntryStands' /\ EntryNamed'
  BY <1>7 DEF BeginRestore, BeginPurge, store, EntryStands, EntryNamed
<1>8. CASE IndexUpload \/ MarkTrashed \/ DropDestroyed \/ Cut
  BY <1>2, <1>8
  DEF IndexUpload, MarkTrashed, DropDestroyed, Cut, EndCall, store
<1>9. CASE MarkDestroyed \/ RemoveBlob \/ ReplaceLive \/ RestoreRow
             \/ RestoreChildren \/ CleanOriginal \/ ForgetRows
  BY <1>3, <1>9
  DEF MarkDestroyed, RemoveBlob, ReplaceLive, RestoreRow, RestoreChildren,
      CleanOriginal, ForgetRows, At, Goto, IInv, CallShape, Calls
<1>10. CASE LeaveTrash
  BY <1>10 DEF LeaveTrash, EndCall, EntryStands, EntryNamed
<1>11. CASE SetRetention
  BY <1>1, <1>11 DEF SetRetention
<1> QED
  BY <1>4, <1>5, <1>6, <1>7, <1>8, <1>9, <1>10, <1>11 DEF Next, Restore

(* A path has no conflict only if no live row is there.                     *)
LEMMA PathInScope ==
  ASSUME NEW p \in Paths, NEW dir \in BOOLEAN PROVE p \in Scope(p, dir)
BY PathsAssumption, LenProperties DEF Scope, AtOrUnder, IsPrefix

LEMMA StepKeepsRestores ==
  ASSUME LiveInv, [Next]_vars
  PROVE  RestoreStands'
<1> USE NoneAssumption DEF LiveInv
<1>1. ASSUME UNCHANGED <<trash, index, call>>
      PROVE  RestoreStands'
  BY <1>1 DEF RestoreStands, LiveAt
<1>2. ASSUME call' = None \/ call'.op # "restore"
                \/ call'.step \notin {"replace", "upsert"}
      PROVE  RestoreStands'
  BY <1>2 DEF RestoreStands
<1>3. ASSUME NEW i \in Ids, NEW overwrite \in BOOLEAN,
             BeginRestore(i, overwrite)
      PROVE  RestoreStands'
  <2> DEFINE e == trash[i]
  <2>1. /\ e.path \in Paths /\ e.dir \in BOOLEAN
        /\ UNCHANGED <<trash, index>>
    BY <1>3 DEF BeginRestore, store, IInv, TrashShape
  <2>2. \A p \in Paths : ~Conflict(e, p) => ~LiveAt(e.owner, p)
    BY <2>1, PathInScope DEF Conflict
  <2>3. \/ call' = [op |-> "restore", id |-> i, final |-> e.path,
                    step |-> "upsert"] /\ ~Conflict(e, e.path)
        \/ call' = [op |-> "restore", id |-> i, final |-> e.path,
                    step |-> "replace"]
        \/ \E p \in Paths :
             /\ call' = [op |-> "restore", id |-> i, final |-> p,
                         step |-> "upsert"]
             /\ ~Conflict(e, p)
    BY <1>3 DEF BeginRestore, FreeAlternative
  <2>4. \/ call'.id = i /\ call'.step = "replace" /\ call'.final = e.path
        \/ /\ call'.id = i /\ call'.step = "upsert"
           /\ ~LiveAt(e.owner, call'.final)
    BY <2>1, <2>2, <2>3
  <2> QED
    BY <2>1, <2>4 DEF RestoreStands, LiveAt
<1>4. CASE ReplaceLive
  <2> DEFINE e == trash[call.id]
  <2>1. /\ call # None /\ call.op = "restore" /\ call.step = "replace"
        /\ call.id \in Ids /\ call.final = e.path
        /\ e.owner \in Owners /\ e.path \in Paths /\ e.dir \in BOOLEAN
    BY <1>4
    DEF ReplaceLive, At, IInv, CallShape, TrashShape, Calls, EntryNamed,
        RestoreStands
  <2>2. /\ call'.id = call.id /\ call'.step = "upsert"
        /\ call'.final = call.final /\ trash' = trash
    BY <1>4, <2>1 DEF ReplaceLive, Goto, IInv, CallShape, Calls
  <2>3. e.path \in Scope(e.path, e.dir)
    BY <2>1, PathInScope
  <2>4. index'[e.owner][e.path] # None => ~index'[e.owner][e.path].live
    <3> DEFINE S == {p \in Scope(e.path, e.dir) : LiveAt(e.owner, p)}
    <3>1. DeleteRows(e.owner, S)
      BY <1>4 DEF ReplaceLive
    <3>2. e.path \in S \/ ~LiveAt(e.owner, e.path)
      BY <2>3
    <3> HIDE DEF S, e
    <3> QED
      BY <2>1, <3>1, <3>2 DEF DeleteRows, LiveAt, IndexShape
  <2> QED
    BY <2>1, <2>2, <2>4 DEF RestoreStands, LiveAt
<1>5. CASE RestoreRow \/ RestoreChildren \/ CleanOriginal
  <2>1. call'.step \in {"children", "clean", "leave"}
    BY <1>5
    DEF RestoreRow, RestoreChildren, CleanOriginal, AfterRow, At, Goto, IInv,
        CallShape, Calls
  <2> QED  BY <1>2, <2>1
<1>6. CASE RemoveBlob \/ MarkDestroyed \/ ForgetRows
  BY <1>2, <1>6
  DEF RemoveBlob, MarkDestroyed, ForgetRows, At, Goto, IInv, CallShape, Calls
<1>7. CASE IndexUpload \/ MarkTrashed \/ DropDestroyed \/ LeaveTrash \/ Cut
             \/ SetRetention
  BY <1>2, <1>7
  DEF IndexUpload, MarkTrashed, DropDestroyed, LeaveTrash, Cut, SetRetention,
      EndCall
<1>8. ASSUME NEW o \in Owners, NEW p \in Paths,
             \/ \E h \in Hashes : Upload(o, p, h)
             \/ CreateFolder(o, p)
             \/ \E dest \in Paths : Move(o, p, dest)
             \/ TrashFile(o, p) \/ DestroyFile(o, p)
      PROVE  RestoreStands'
  <2>1. CASE CreateFolder(o, p) \/ \E dest \in Paths : Move(o, p, dest)
    <3>1. call' = None
      BY <2>1 DEF CreateFolder, Move, BeginCall
    <3> QED  BY <1>2, <3>1
  <2>2. CASE \/ \E h \in Hashes : Upload(o, p, h)
             \/ TrashFile(o, p) \/ DestroyFile(o, p)
    <3>1. call'.op \in {"upload", "trash", "destroy"}
      BY <2>2 DEF Upload, TrashFile, DestroyFile
    <3> QED  BY <1>2, <3>1
  <2> QED  BY <1>8, <2>1, <2>2
<1>9. ASSUME NEW i \in Ids, BeginPurge(i)
      PROVE  RestoreStands'
  BY <1>2, <1>9 DEF BeginPurge
<1>10. CASE UNCHANGED vars
  BY <1>1, <1>10 DEF vars
<1> QED
  BY <1>3, <1>4, <1>5, <1>6, <1>7, <1>8, <1>9, <1>10 DEF Next, Restore

LEMMA LiveInvariant == Spec => []LiveInv
<1>1. LiveInv /\ [Next]_vars => LiveInv'
  BY StepKeepsTypes, StepKeepsIInv, StatementsKeepLive, StepKeepsEntries,
     StepKeepsRestores
  DEF LiveInv
<1> QED
  BY <1>1, InitImpliesLiveInv, PTL DEF Spec

(* Index, trash and call stay well formed through every call and cut: what  *)
(* is restored has a hash or is a directory, and the size recorded with a   *)
(* trashed directory is a number of bytes.                                  *)
THEOREM StoreTypes == Spec => []TypeOK
<1>1. LiveInv => TypeOK
  BY DEF LiveInv
<1> QED  BY <1>1, LiveInvariant, PTL

(* The statements that mark rows have the trash row, or the deletion for    *)
(* good, before them.                                                       *)
LEMMA StepRecordsDeletion ==
  ASSUME LiveInv, [Next]_vars, NEW o \in Owners, NEW p \in Paths,
         LiveAt(o, p), DeletedAt(o, p)'
  PROVE  \/ call.op = "destroy"
         \/ \E i \in Ids :
              /\ trash[i] # None /\ trash[i].owner = o
              /\ p \in Scope(trash[i].path, trash[i].dir)
<1>1. Marks
  BY StatementsKeepLive DEF LiveInv, LiveAt, DeletedAt
<1>2. CASE MarkDestroyed
  BY <1>2 DEF MarkDestroyed, At
<1>3. CASE MarkTrashed
  <2>1. call # None /\ call.op = "trash" /\ call.owner \in Owners
    BY <1>3 DEF MarkTrashed, LiveInv, IInv, CallShape, Calls
  <2>2. o = call.owner /\ p \in Scope(call.path, call.dir)
    <3>1. MarkRows(call.owner, Scope(call.path, call.dir))
      BY <1>3 DEF MarkTrashed
    <3> QED
      BY <2>1, <3>1, MarkKeepsShape DEF LiveInv, LiveAt, DeletedAt
  <2> QED
    BY <2>1, <2>2 DEF LiveInv, EntryStands
<1> QED
  BY <1>1, <1>2, <1>3 DEF Marks

(* No user loses a live row without a trace: it is deleted only by a        *)
(* deletion for good, or under a trash row it can be restored from, also    *)
(* when the call was cut short or repeated after others.                    *)
THEOREM DeletionsAreRecorded == Spec => DeletionIsRecorded
<1>1. LiveInv /\ [Next]_vars =>
        [\A o \in Owners, p \in Paths :
           LiveAt(o, p) /\ DeletedAt(o, p)' =>
             \/ call.op = "destroy"
             \/ \E i \in Ids :
                  /\ trash[i] # None /\ trash[i].owner = o
                  /\ p \in Scope(trash[i].path, trash[i].dir)]_vars
  BY StepRecordsDeletion
<1> QED
  BY <1>1, LiveInvariant, PTL DEF Spec, DeletionIsRecorded

(* Each of the three statements of a restore writes over deleted rows and   *)
(* free places only.                                                        *)
LEMMA StepKeepsLiveRows ==
  ASSUME LiveInv, [Next]_vars, call # None, call.op = "restore",
         call.step # "replace",
         NEW o \in Owners, NEW p \in Paths, LiveAt(o, p)
  PROVE  index'[o][p] = index[o][p]
<1> USE NoneAssumption DEF LiveInv
<1> DEFINE e == trash[call.id]
<1>1. /\ e.owner \in Owners /\ e.path \in Paths /\ call.id \in Ids
      /\ call.final \in Paths
  BY DEF IInv, CallShape, TrashShape, Calls, EntryNamed
<1>2. CASE RestoreRow
  <2>1. ~LiveAt(e.owner, call.final)
    BY <1>2 DEF RestoreRow, At, RestoreStands
  <2> QED
    BY <1>1, <1>2, <2>1 DEF RestoreRow, Upsert, IndexShape
<1>3. CASE RestoreChildren
  <2> DEFINE below == {q \in Under(e.path) : DeletedAt(e.owner, q)}
             atOrBelow == {q \in AtOrUnder(e.path) : DeletedAt(e.owner, q)}
  <2>1. CASE Relocate(e.owner, atOrBelow, e.path, e.path)
    <3>1. Images(atOrBelow, e.path, e.path) = atOrBelow
      BY <1>1, RebaseInverts DEF Images
    <3>2. ~(o = e.owner /\ p \in atOrBelow)
      BY DEF DeletedAt, LiveAt
    <3> HIDE DEF atOrBelow, e
    <3> QED
      BY <1>1, <2>1, <3>1, <3>2 DEF Relocate, IndexShape
  <2>2. CASE /\ Relocate(e.owner, below, e.path, call.final)
             /\ PlacesFree(e.owner, below, e.path, call.final)
    <3>1. ~(o = e.owner /\ p \in Images(below, e.path, call.final))
      BY <2>2 DEF PlacesFree, LiveAt
    <3>2. ~(o = e.owner /\ p \in below)
      BY DEF DeletedAt, LiveAt
    <3> HIDE DEF below, e
    <3> QED
      BY <1>1, <2>2, <3>1, <3>2 DEF Relocate, IndexShape
  <2> QED
    BY <1>3, <2>1, <2>2 DEF RestoreChildren
<1>4. CASE CleanOriginal
  <2>1. ~(o = e.owner /\ p \in {q \in {e.path} : DeletedAt(e.owner, q)})
    BY DEF DeletedAt, LiveAt
  <2> QED
    BY <1>1, <1>4, <2>1 DEF CleanOriginal, DeleteRows, IndexShape
<1>5. CASE ~(RestoreRow \/ RestoreChildren \/ CleanOriginal)
  <2>1. \A a \in Owners, q \in Paths :
          /\ \A h \in Hashes : ~Upload(a, q, h)
          /\ ~CreateFolder(a, q) /\ ~TrashFile(a, q) /\ ~DestroyFile(a, q)
          /\ \A dest \in Paths : ~Move(a, q, dest)
    BY DEF Upload, CreateFolder, Move, TrashFile, DestroyFile, BeginCall
  <2>2. \A i \in Ids :
          /\ \A overwrite \in BOOLEAN : ~BeginRestore(i, overwrite)
          /\ ~BeginPurge(i)
    BY DEF BeginRestore, BeginPurge, BeginCall
  <2>3. ~IndexUpload /\ ~MarkTrashed /\ ~MarkDestroyed /\ ~DropDestroyed
          /\ ~ReplaceLive /\ ~ForgetRows
    BY DEF IndexUpload, MarkTrashed, MarkDestroyed, DropDestroyed, ReplaceLive,
           ForgetRows, At
  <2>4. RemoveBlob \/ LeaveTrash \/ SetRetention \/ Cut \/ UNCHANGED vars
    BY <1>5, <2>1, <2>2, <2>3 DEF Next, Restore
  <2> QED
    BY <2>4 DEF RemoveBlob, LeaveTrash, SetRetention, Cut, store, vars
<1> QED
  BY <1>2, <1>3, <1>4, <1>5

(* Restoring without overwriting changes no live row, whatever took the     *)
(* place of the deleted one, and whichever numbered name is free.           *)
THEOREM RestoresKeepLiveRows == Spec => RestoreKeepsLive
<1>1. LiveInv /\ [Next]_vars =>
        [call # None /\ call.op = "restore" /\ call.step # "replace" =>
           \A o \in Owners, p \in Paths :
             LiveAt(o, p) => index'[o][p] = index[o][p]]_vars
  BY StepKeepsLiveRows
<1> QED
  BY <1>1, LiveInvariant, PTL DEF Spec, RestoreKeepsLive

=============================================================================
