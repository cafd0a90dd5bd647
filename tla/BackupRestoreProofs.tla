------------------------- MODULE BackupRestoreProofs -------------------------
(***************************************************************************)
(* Theorems of BackupRestore, for any members, changes, goroutines that    *)
(* back up, and numbers of files and restores:                             *)
(*   TypeCorrect      the types;                                           *)
(*   SequenceIsAhead  the audit accepts events after every restore;        *)
(*   RestoredIsKept   what is restored stays;                              *)
(*   NewestAreKept    pruning leaves the newest files.                     *)
(***************************************************************************)
EXTENDS BackupRestore, FiniteSetTheorems, TLAPS

-----------------------------------------------------------------------------
(* The largest of a set.                                                   *)

\* The sets of the numbers above those of S are ordered by inclusion, and a
\* smallest one is empty.
LEMMA MaxIsLargest ==
  ASSUME NEW S \in SUBSET Int, IsFiniteSet(S), S # {}
  PROVE  Max(S) \in S /\ \A t \in S : Max(S) >= t
<1> DEFINE Above(t) == {u \in S : u > t}
           R == StrictSubsetOrdering(S)
<1>1. \A t \in S : Above(t) \in FiniteSubsetsOf(S)
  BY FS_Subset DEF FiniteSubsetsOf
<1>2. \E A \in {Above(t) : t \in S} : \A B \in {Above(t) : t \in S} : <<B, A>> \notin R
  <2> DEFINE T == {Above(t) : t \in S}
  <2>1. T \subseteq FiniteSubsetsOf(S) /\ T # {}
    BY <1>1
  <2> HIDE DEF T, R
  <2>2. IsWellFoundedOn(R, FiniteSubsetsOf(S))
    BY FS_StrictSubsetOrderingWellFounded DEF R
  <2>3. \E A \in T : \A B \in T : ~(<<B, A>> \in R)
    BY <2>1, <2>2, WFMin
  <2> QED
    BY <2>3 DEF T
<1>3. PICK x \in S : \A t \in S : <<Above(t), Above(x)>> \notin R
  BY <1>2
<1>4. ASSUME NEW t \in S PROVE x >= t
  <2> SUFFICES ASSUME t > x PROVE FALSE
    OBVIOUS
  <2>1. \A u \in S : u \in Above(t) => u \in Above(x)
    OBVIOUS
  <2>2. t \in Above(x) /\ t \notin Above(t)
    OBVIOUS
  <2>3. Above(t) \subseteq Above(x) /\ Above(t) # Above(x)
    BY <2>1, <2>2
  <2>4. <<Above(t), Above(x)>> \in R
    BY <2>3 DEF StrictSubsetOrdering
  <2> QED
    BY <1>3, <2>4
<1> QED
  BY <1>4 DEF Max

LEMMA SetsAreFinite ==
  ASSUME NEW n \in Nat, NEW S \in SUBSET (1..n)
  PROVE  IsFiniteSet(S) /\ S \in SUBSET Int
<1>1. IsFiniteSet(1..n)
  BY FS_Interval
<1>2. IsFiniteSet(S)
  BY <1>1, FS_Subset
<1>3. 1..n \subseteq Int
  OBVIOUS
<1> QED
  BY <1>2, <1>3

LEMMA SequenceMoves ==
  ASSUME NEW ids \in SUBSET (1..MaxEvents)
  PROVE  /\ SequenceAfter(ids) \in 1..(MaxEvents + 1)
         /\ \A i \in ids : i < SequenceAfter(ids)
<1>1. CASE ids = {}
  BY <1>1, BoundsAssumption DEF SequenceAfter
<1>2. CASE ids # {}
  <2>1. MaxEvents \in Nat
    BY BoundsAssumption
  <2>2. IsFiniteSet(ids) /\ ids \in SUBSET Int
    BY <2>1, SetsAreFinite
  <2>3. Max(ids) \in ids /\ \A i \in ids : Max(ids) >= i
    BY <1>2, <2>2, MaxIsLargest
  <2>4. SequenceAfter(ids) = Max(ids) + 1
    BY <1>2 DEF SequenceAfter
  <2>5. PICK m \in 1..MaxEvents : m = Max(ids)
    BY <2>3
  <2>6. \A i \in ids : i < m + 1
    BY <2>1, <2>3, <2>5
  <2> QED
    BY <2>1, <2>4, <2>5, <2>6
<1> QED
  BY <1>1, <1>2

-----------------------------------------------------------------------------
(* Types.                                                                  *)

\* What is about to get its name has been written.
TimeInv == \A w \in Writers : pc[w] = "rename" => snap[w].time # 0

TypeInv == TypeOK /\ TimeInv

LEMMA NothingRead == NoSnap \in [time : 0..MaxBackups, content : Snapshots]
BY BoundsAssumption DEF NoSnap, Empty, Snapshots

LEMMA TypeInit == Init => TypeInv
<1> SUFFICES ASSUME Init
             PROVE  TypeOK /\ TimeInv
  BY DEF TypeInv
<1>1. /\ nextId \in 1..(MaxEvents + 1)
      /\ written \in 0..MaxBackups /\ restores \in 0..MaxRestores
  BY BoundsAssumption DEF Init
<1>2. snap \in [Writers -> [time : 0..MaxBackups, content : Snapshots]]
  BY NothingRead DEF Init
<1> QED
  BY <1>1, <1>2 DEF Init, TypeOK, TimeInv

LEMMA BackupType ==
  ASSUME TypeInv, NEW w \in Writers, Backup(w)
  PROVE  TypeInv'
<1> USE BoundsAssumption DEF TypeInv, TypeOK, TimeInv, Goto, dbVars, memberVars,
        dirVars, histVars
<1>1. CASE ReadConfig(w)
  BY <1>1 DEF ReadConfig, Snapshots
<1>2. CASE ReadAudit(w)
  BY <1>2 DEF ReadAudit, Snapshots
<1>3. CASE WriteTmp(w)
  BY <1>3 DEF WriteTmp
<1>4. CASE Rename(w)
  <2>1. snap[w] \in File
    BY <1>4 DEF Rename, File
  <2>2. snap[w].time \in 1..MaxBackups
    BY <2>1 DEF File
  <2> QED
    BY <1>4, <2>1, <2>2, NothingRead DEF Rename
<1>5. CASE BackupFails(w)
  BY <1>5, NothingRead DEF BackupFails
<1>6. CASE ListFiles(w)
  <2>1. {f.time : f \in files} \subseteq 1..MaxBackups
    BY DEF File
  <2>2. Surplus({f.time : f \in files}) \subseteq 1..MaxBackups
    BY <2>1 DEF Surplus
  <2> QED
    BY <1>6, <2>2 DEF ListFiles
<1>7. CASE RemoveOne(w)
  BY <1>7 DEF RemoveOne
<1>8. CASE PruneDone(w)
  BY <1>8 DEF PruneDone
<1> QED
  BY <1>1, <1>2, <1>3, <1>4, <1>5, <1>6, <1>7, <1>8 DEF Backup

LEMMA TypeStep == TypeInv /\ [Next]_vars => TypeInv'
<1> SUFFICES ASSUME TypeInv, [Next]_vars
             PROVE  TypeInv'
  OBVIOUS
<1> USE BoundsAssumption, HomeAssumption DEF TypeInv, TypeOK, TimeInv, dbVars,
        writerVars, dirVars, histVars
<1>1. ASSUME NEW m \in Members, NEW c \in Changes, Update(m, c)
      PROVE  TypeInv'
  BY <1>1 DEF Update
<1>2. ASSUME NEW m \in Members, Save(m) \/ SaveFails(m)
      PROVE  TypeInv'
  <2>1. CASE Save(m)
    BY <2>1 DEF Save, Idle
  <2>2. CASE SaveFails(m)
    BY <2>2 DEF SaveFails, Idle
  <2> QED
    BY <1>2, <2>1, <2>2
<1>3. ASSUME NEW m \in Members, Reload(m)
      PROVE  TypeInv'
  BY <1>3 DEF Reload, Loaded
<1>4. CASE AppendAudit
  BY <1>4 DEF AppendAudit, memberVars
<1>5. ASSUME NEW w \in Writers, Backup(w)
      PROVE  TypeInv'
  BY <1>5, BackupType
<1>6. ASSUME NEW f \in files, Delete(f)
      PROVE  TypeInv'
  BY <1>6 DEF Delete, memberVars
<1>7. ASSUME NEW f \in files, Restore(f)
      PROVE  TypeInv'
  <2>1. f.content.config \in SUBSET Changes /\ f.content.audit \in SUBSET (1..MaxEvents)
    BY DEF File, Snapshots
  <2> QED
    BY <1>7, <2>1, SequenceMoves DEF Restore, Behind
<1>8. CASE Crash
  BY <1>8, NothingRead DEF Crash
<1>9. CASE UNCHANGED vars
  BY <1>9 DEF vars, memberVars
<1> QED
  BY <1>1, <1>2, <1>3, <1>4, <1>5, <1>6, <1>7, <1>8, <1>9 DEF Next

\* The variables keep their types, however backups, restores and changes
\* interleave.
THEOREM TypeCorrect == Spec => []TypeOK
BY TypeInit, TypeStep, PTL DEF Spec, TypeInv

-----------------------------------------------------------------------------
(* The ids of the audit.                                                   *)

\* The sequence is ahead of every id in the table, after any restore of any
\* file (restoreAuditRow, AppendAudit).
THEOREM SequenceIsAhead == Spec => []AuditIdsFree
<1>1. Init => AuditIdsFree
  BY DEF Init, AuditIdsFree
<1>2. TypeInv /\ AuditIdsFree /\ [Next]_vars => AuditIdsFree'
  <2> SUFFICES ASSUME TypeInv, AuditIdsFree, [Next]_vars
               PROVE  AuditIdsFree'
    OBVIOUS
  <2> USE BoundsAssumption DEF AuditIdsFree
  <2>1. CASE AppendAudit
    <3>1. audit \subseteq Int /\ nextId \in Int
      BY DEF TypeInv, TypeOK
    <3> QED
      BY <2>1, <3>1 DEF AppendAudit
  <2>2. ASSUME NEW f \in files, Restore(f)
        PROVE  AuditIdsFree'
    <3>1. f.content.audit \in SUBSET (1..MaxEvents)
      BY DEF TypeInv, TypeOK, File, Snapshots
    <3> QED
      BY <2>2, <3>1, SequenceMoves DEF Restore
  <2>3. CASE UNCHANGED dbVars
    BY <2>3 DEF dbVars
  <2>4. ASSUME NEW m \in Members, Save(m)
        PROVE  AuditIdsFree'
    BY <2>4 DEF Save
  <2>5. CASE \/ \E m \in Members :
                  SaveFails(m) \/ Reload(m) \/ \E c \in Changes : Update(m, c)
             \/ \E w \in Writers : Backup(w)
             \/ \E f \in files : Delete(f)
             \/ Crash
             \/ UNCHANGED vars
    BY <2>3, <2>5 DEF Update, SaveFails, Reload, Backup, ReadConfig, ReadAudit,
       WriteTmp, Rename, BackupFails, ListFiles, RemoveOne, PruneDone, Delete, Crash, vars
  <2> QED
    BY <2>1, <2>2, <2>4, <2>5 DEF Next
<1> QED
  BY <1>1, <1>2, TypeInit, TypeStep, PTL DEF Spec
-----------------------------------------------------------------------------
(* What has been restored.                                                 *)

\* One request is under way, and then no reload; a member without a reload to
\* come has the row, the changes whose save failed and the one it is about to save.
RestoredInv ==
    ~hurried =>
      /\ config = expected
      /\ \A m \in Members : ~Idle(m) => stale = {}
      /\ \A m, k \in Members : ~Idle(m) /\ ~Idle(k) => m = k
      /\ \A m \in Members \ stale :
           mem[m] = config \cup unsent[m] \cup (IF Idle(m) THEN {} ELSE {request[m]})

LEMMA RestoredStep == TypeInv /\ RestoredInv /\ [Next]_vars => RestoredInv'
<1> SUFFICES ASSUME TypeInv, RestoredInv, [Next]_vars
             PROVE  RestoredInv'
  OBVIOUS
<1> USE NoChangeAssumption, HomeAssumption DEF TypeInv, TypeOK, RestoredInv, Idle
<1>1. ASSUME NEW m \in Members, NEW c \in Changes, Update(m, c)
      PROVE  RestoredInv'
  BY <1>1 DEF Update, AtRest, dbVars
<1>2. ASSUME NEW m \in Members, Save(m)
      PROVE  RestoredInv'
  BY <1>2 DEF Save
<1>3. ASSUME NEW m \in Members, Reload(m)
      PROVE  RestoredInv'
  BY <1>3 DEF Reload, Loaded, dbVars, histVars
<1>4. ASSUME NEW f \in files, Restore(f)
      PROVE  RestoredInv'
  BY <1>4 DEF Restore, Behind, AtRest
<1>5. CASE Crash
  BY <1>5 DEF Crash, dbVars, histVars
<1>6. CASE \/ AppendAudit
           \/ \E w \in Writers : Backup(w)
           \/ \E f \in files : Delete(f)
           \/ UNCHANGED vars
  <2>1. UNCHANGED <<config, memberVars, histVars>>
    BY <1>6 DEF AppendAudit, Backup, ReadConfig, ReadAudit, WriteTmp, Rename, BackupFails,
       ListFiles, RemoveOne, PruneDone, Delete, vars, dbVars
  <2> QED
    BY <2>1 DEF memberVars, histVars
<1>7. ASSUME NEW m \in Members, SaveFails(m)
      PROVE  RestoredInv'
  BY <1>7 DEF SaveFails, dbVars, histVars
<1> QED
  BY <1>1, <1>2, <1>3, <1>4, <1>5, <1>6, <1>7 DEF Next

\* While changes and restores are made one at a time, each when all members have
\* reloaded, the row is the restored configuration and what was committed since:
\* a change whose save failed comes with the next one of its member, or not at all
\* when that member reloads or restarts first (Restore, ReloadFromBytes, Save).
THEOREM RestoredIsKept == Spec => []RestoredStays
<1>1. Init => RestoredInv
  BY DEF Init, RestoredInv, Idle
<1>2. RestoredInv => RestoredStays
  BY DEF RestoredInv, RestoredStays
<1> QED
  BY <1>1, <1>2, TypeInit, TypeStep, RestoredStep, PTL DEF Spec

-----------------------------------------------------------------------------
(* The newest files.                                                       *)

Later(t) == {u \in landed : u > t}

\* A file that is gone, or about to be pruned, has Keep newer ones.
PruneInv ==
    ~deleted =>
      /\ \A f \in files : f.time \in landed
      /\ \A w \in Writers : \A t \in victims[w] : Cardinality(Later(t)) >= Keep
      /\ \A t \in landed : Named(t) # {} \/ Cardinality(Later(t)) >= Keep

\* The files that ever got their name only become more.
LEMMA LaterGrows ==
  ASSUME TypeInv, TypeInv', landed \subseteq landed', NEW t
  PROVE  /\ Cardinality(Later(t)) \in Nat /\ Cardinality(Later(t)') \in Nat
         /\ Cardinality(Later(t)) <= Cardinality(Later(t)')
<1>1. IsFiniteSet(landed') /\ IsFiniteSet(landed)
  BY SetsAreFinite, BoundsAssumption DEF TypeInv, TypeOK
<1>2. Later(t)' \subseteq landed' /\ Later(t) \subseteq Later(t)'
  BY DEF Later
<1>3. IsFiniteSet(Later(t)')
  BY <1>1, <1>2, FS_Subset
<1>4. IsFiniteSet(Later(t)) /\ Cardinality(Later(t)) <= Cardinality(Later(t)')
  BY <1>2, <1>3, FS_Subset
<1> QED
  BY <1>3, <1>4, FS_CardinalityType

\* What is listed as surplus has Keep newer files in the directory, which have
\* all got their names.
LEMMA SurplusIsOld ==
  ASSUME TypeInv, NEW times \in SUBSET landed, NEW t \in Surplus(times)
  PROVE  Cardinality(Later(t)) >= Keep
<1> DEFINE newer == {u \in times : u > t}
<1>1. IsFiniteSet(landed)
  BY SetsAreFinite, BoundsAssumption DEF TypeInv, TypeOK
<1>2. newer \subseteq Later(t) /\ Later(t) \subseteq landed
  BY DEF Later
<1>3. IsFiniteSet(Later(t))
  BY <1>1, <1>2, FS_Subset
<1>4. IsFiniteSet(newer) /\ Cardinality(newer) <= Cardinality(Later(t))
  BY <1>2, <1>3, FS_Subset
<1>5. Cardinality(newer) \in Nat /\ Cardinality(Later(t)) \in Nat
  BY <1>3, <1>4, FS_CardinalityType
<1>6. Cardinality(newer) >= Keep
  BY DEF Surplus
<1> QED
  BY <1>4, <1>5, <1>6, BoundsAssumption

LEMMA PruneStep == TypeInv /\ PruneInv /\ [Next]_vars => PruneInv'
<1> SUFFICES ASSUME TypeInv, PruneInv, [Next]_vars, ~deleted'
             PROVE  PruneInv'
  BY DEF PruneInv
<1>0. TypeInv'
  BY TypeStep
<1> USE DEF PruneInv
<1>1. ASSUME NEW w \in Writers, Rename(w)
      PROVE  PruneInv'
  <2>1. /\ files' = files \cup {snap[w]} /\ landed' = landed \cup {snap[w].time}
        /\ ~deleted /\ victims' = victims
    BY <1>1 DEF Rename
  <2>2. \A t : /\ Cardinality(Later(t)) \in Nat /\ Cardinality(Later(t)') \in Nat
               /\ Cardinality(Later(t)) <= Cardinality(Later(t)')
    BY <1>0, <2>1, LaterGrows
  <2>3. \A t \in landed' : Named(t)' # {} \/ Cardinality(Later(t)') >= Keep
    BY <2>1, <2>2, BoundsAssumption DEF Named
  <2>4. \A v \in Writers : \A t \in victims'[v] : Cardinality(Later(t)') >= Keep
    BY <2>1, <2>2, BoundsAssumption
  <2>5. \A f \in files' : f.time \in landed'
    BY <2>1
  <2> QED
    BY <2>3, <2>4, <2>5
<1>2. ASSUME NEW w \in Writers, ListFiles(w)
      PROVE  PruneInv'
  <2>1. /\ ~deleted /\ UNCHANGED <<files, landed>>
        /\ victims' = [victims EXCEPT ![w] = Surplus({f.time : f \in files})]
    BY <1>2 DEF ListFiles, dirVars
  <2>2. {f.time : f \in files} \in SUBSET landed
    BY <2>1
  <2>3. \A t \in Surplus({f.time : f \in files}) : Cardinality(Later(t)) >= Keep
    BY <2>2, SurplusIsOld
  <2>4. \A v \in Writers : \A t \in victims'[v] : Cardinality(Later(t)) >= Keep
    BY <2>1, <2>3 DEF TypeInv, TypeOK
  <2>5. \A t : Later(t)' = Later(t) /\ Named(t)' = Named(t)
    BY <2>1 DEF Later, Named
  <2> QED
    BY <2>1, <2>4, <2>5
<1>3. ASSUME NEW w \in Writers, RemoveOne(w)
      PROVE  PruneInv'
  <2> DEFINE old == Max(victims[w])
  <2>1. /\ ~deleted /\ landed' = landed /\ files' = files \ Named(old)
        /\ victims' = [victims EXCEPT ![w] = @ \ {old}] /\ victims[w] # {}
    BY <1>3 DEF RemoveOne
  <2>2. victims[w] \in SUBSET (1..MaxBackups)
    BY DEF TypeInv, TypeOK
  <2>3. old \in victims[w]
    BY <2>1, <2>2, MaxIsLargest, SetsAreFinite, BoundsAssumption
  <2> HIDE DEF old
  <2>4. \A t : Later(t)' = Later(t) /\ (t # old => Named(t)' = Named(t))
    BY <2>1 DEF Later, Named
  <2>5. Cardinality(Later(old)) >= Keep
    BY <2>1, <2>3
  <2>6. \A v \in Writers : victims'[v] \subseteq victims[v]
    BY <2>1 DEF TypeInv, TypeOK
  <2> QED
    BY <2>1, <2>4, <2>5, <2>6
<1>4. CASE Crash
  <2>1. UNCHANGED dirVars /\ \A v \in Writers : victims'[v] = {}
    BY <1>4 DEF Crash
  <2>2. \A t : Later(t)' = Later(t) /\ Named(t)' = Named(t)
    BY <2>1 DEF Later, Named, dirVars
  <2> QED
    BY <2>1, <2>2 DEF dirVars
<1>5. CASE UNCHANGED <<files, landed, deleted, victims>>
  <2>1. \A t : Later(t)' = Later(t) /\ Named(t)' = Named(t)
    BY <1>5 DEF Later, Named
  <2> QED
    BY <1>5, <2>1
<1>6. ASSUME NEW f \in files, Delete(f)
      PROVE  FALSE
  BY <1>6 DEF Delete
<1>7. CASE \/ \E m \in Members :
                \/ Save(m) \/ SaveFails(m) \/ Reload(m)
                \/ \E c \in Changes : Update(m, c)
           \/ AppendAudit
           \/ \E f \in files : Restore(f)
           \/ UNCHANGED vars
  BY <1>5, <1>7 DEF Save, SaveFails, Reload, Update, AppendAudit, Restore, vars, writerVars, dirVars
<1>8. ASSUME NEW w \in Writers,
             \/ ReadConfig(w) \/ ReadAudit(w) \/ WriteTmp(w) \/ BackupFails(w)
             \/ PruneDone(w)
      PROVE  PruneInv'
  BY <1>5, <1>8 DEF ReadConfig, ReadAudit, WriteTmp, BackupFails, PruneDone, dirVars
<1> QED
  BY <1>1, <1>2, <1>3, <1>4, <1>6, <1>7, <1>8 DEF Next, Backup

\* However many goroutines write and prune at once, and however late one of them
\* names its file, the Keep newest files that ever got their name are there, as
\* long as the administrator deletes none (WriteBackupFile, PruneBackupFiles).
THEOREM NewestAreKept == Spec => []NewestKept
<1>1. Init => PruneInv
  BY DEF Init, PruneInv
<1>2. TypeInv /\ PruneInv => NewestKept
  <2> SUFFICES ASSUME TypeInv, PruneInv, ~deleted, NEW t \in landed,
                      Cardinality(Later(t)) < Keep
               PROVE  Named(t) # {}
    BY DEF NewestKept, Later
  <2>1. IsFiniteSet(landed) /\ Later(t) \subseteq landed
    BY SetsAreFinite, BoundsAssumption DEF TypeInv, TypeOK, Later
  <2>2. Cardinality(Later(t)) \in Nat
    BY <2>1, FS_Subset, FS_CardinalityType
  <2> QED
    BY <2>2, BoundsAssumption DEF PruneInv
<1> QED
  BY <1>1, <1>2, TypeInit, TypeStep, PruneStep, PTL DEF Spec
=============================================================================
