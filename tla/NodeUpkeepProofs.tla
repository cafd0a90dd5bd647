-------------------------- MODULE NodeUpkeepProofs --------------------------
(***************************************************************************)
(* Theorems of AuditLog, Updater and NodeUpkeep.                           *)
(*   - The log alone: it implements AuditTrail, for any size and number of *)
(*     files, as long as each rotation gets a later stamp than the one     *)
(*     before it.  The invariant counts, for every rotated file, the       *)
(*     events of those that are newer.                                     *)
(*   - The updates alone, for any number of them from the panel and from   *)
(*     the command line: those which are not in each other's way leave a   *)
(*     whole executable and never an older one.                            *)
(*   - The node: the log and the updates keep in it what each keeps alone, *)
(*     and no script runs without its event.                               *)
(***************************************************************************)
EXTENDS NodeUpkeep, FiniteSetTheorems, TLAPS

-----------------------------------------------------------------------------
(* Arithmetic and cardinalities.                                           *)

LEMMA OneMoreFile ==
  ASSUME NEW n \in Nat
  PROVE  (n + 1) * PerFile = n * PerFile + PerFile
BY SizeAssumption

LEMMA MoreFiles ==
  ASSUME NEW m \in Nat, NEW n \in Nat, m <= n
  PROVE  m * PerFile <= n * PerFile
BY SizeAssumption

\* The files newer than another are finitely many.
LEMMA NewerIsFinite ==
  ASSUME IsFiniteSet(rotated), NEW r
  PROVE  IsFiniteSet(Newer(r)) /\ Cardinality(Newer(r)) \in Nat
<1>1. Newer(r) \subseteq rotated
  BY DEF Newer
<1> QED
  BY <1>1, FS_Subset, FS_CardinalityType

-----------------------------------------------------------------------------
(* Types.                                                                  *)

LEMMA TypeStep ==
  ASSUME TypeOK, [Next]_vars
  PROVE  TypeOK'
<1>1. CASE Log
  BY <1>1 DEF Log, TypeOK
<1>2. CASE LogDropped
  BY <1>2 DEF LogDropped, TypeOK
<1>3. ASSUME NEW s \in 1 .. MaxEvents, Rename(s)
      PROVE  TypeOK'
  <2> DEFINE others == {r \in rotated : r.stamp # s}
             moved == [stamp |-> s, lo |-> first, hi |-> last]
  <2>1. rotated' = others \cup {moved} /\ first' = last + 1
    BY <1>3 DEF Rename
  <2>2. IsFiniteSet(others)
    BY FS_Subset DEF TypeOK
  <2>3. IsFiniteSet(rotated')
    BY <2>1, <2>2, FS_AddElement
  <2>4. moved \in File
    BY BoundAssumption DEF File, TypeOK
  <2>5. rotated' \subseteq File
    BY <2>1, <2>4 DEF TypeOK
  <2> QED
    BY <1>3, <2>1, <2>3, <2>5 DEF Rename, TypeOK
<1>4. CASE RenameFails
  BY <1>4 DEF RenameFails, TypeOK
<1>5. CASE Prune
  <2>1. rotated' \subseteq rotated
    BY <1>5 DEF Prune
  <2>2. IsFiniteSet(rotated')
    BY <2>1, FS_Subset DEF TypeOK
  <2> QED
    BY <1>5, <2>1, <2>2 DEF Prune, TypeOK
<1>6. CASE Reopen \/ ReopenFails
  BY <1>6 DEF Reopen, ReopenFails, TypeOK
<1>7. CASE Write \/ WriteFails
  <2>1. last' \in Nat /\ rotated' = rotated
    BY <1>7 DEF Write, WriteFails, TypeOK
  <2>2. IsFiniteSet(rotated')
    BY <2>1 DEF TypeOK
  <2> QED
    BY <1>7, <2>1, <2>2 DEF Write, WriteFails, TypeOK
<1>8. CASE Stop \/ Start
  BY <1>8 DEF Stop, Start, TypeOK
<1>9. CASE UNCHANGED vars
  BY <1>9 DEF vars, TypeOK
<1> QED
  BY <1>1, <1>2, <1>3, <1>4, <1>5, <1>6, <1>7, <1>8, <1>9 DEF Next, LogSteps

LEMMA InitType ==
  ASSUME Init
  PROVE  TypeOK
<1>1. IsFiniteSet(rotated)
  BY FS_EmptySet DEF Init
<1> QED
  BY <1>1 DEF Init, TypeOK

\* The types hold in every state, whatever the disk and the clock do.
THEOREM TypeCorrect == Spec => []TypeOK
<1>1. Init => TypeOK
  BY InitType
<1>2. TypeOK /\ [Next]_vars => TypeOK'
  BY TypeStep
<1> QED
  BY <1>1, <1>2, PTL DEF Spec

-----------------------------------------------------------------------------
(* The age of a rotated file.                                              *)

\* The file in use starts after what has been rotated, is full when it is
\* rotated, and every rotated file is older than it by the events of the files
\* in between.
AgeInv ==
    /\ first <= last + 1
    /\ at = "rename" => Full
    /\ \A r \in rotated : r.hi + Cardinality(Newer(r)) * PerFile < first

\* A rotation puts one more file of at least PerFile events after each of the
\* others.
LEMMA RenameAges ==
  ASSUME TypeOK, AgeInv, ~ClockFaults, NEW s \in 1 .. MaxEvents, Rename(s)
  PROVE  /\ AgeInv'
         /\ \E moved \in File :
               /\ rotated' = rotated \cup {moved}
               /\ moved.lo = first /\ moved.hi = last
<1>1. \A r \in rotated : r.stamp \in Nat /\ r.hi \in Nat /\ r.stamp < s
  BY DEF Rename, NewStamp, TypeOK, File
<1>2. PICK moved \in File : moved = [stamp |-> s, lo |-> first, hi |-> last]
  <2>1. s \in Nat /\ first \in Nat /\ last \in Nat
    BY BoundAssumption DEF TypeOK
  <2>2. [stamp |-> s, lo |-> first, hi |-> last] \in File
    BY <2>1 DEF File
  <2> QED
    BY <2>2
<1>3. /\ rotated' = rotated \cup {moved}
      /\ first' = last + 1 /\ last' = last /\ at' = "prune"
  BY <1>1, <1>2 DEF Rename
<1>4. moved \notin rotated
  BY <1>1, <1>2
<1>5. first + PerFile <= first'
  BY <1>3, SizeAssumption DEF Rename, AgeInv, Full, TypeOK
<1>6. Newer(moved)' = {}
  <2>1. \A r \in rotated' : ~(r.stamp > moved.stamp)
    BY <1>1, <1>2, <1>3
  <2> QED
    BY <2>1 DEF Newer
<1>7. ASSUME NEW r \in rotated
      PROVE  r.hi + Cardinality(Newer(r)') * PerFile < first'
  <2>1. Newer(r)' = Newer(r) \cup {moved}
    BY <1>1, <1>3, <1>2 DEF Newer
  <2>2. moved \notin Newer(r)
    BY <1>4 DEF Newer
  <2>3. IsFiniteSet(Newer(r)) /\ Cardinality(Newer(r)) \in Nat
    BY NewerIsFinite DEF TypeOK
  <2>4. Cardinality(Newer(r)') = Cardinality(Newer(r)) + 1
    BY <2>1, <2>2, <2>3, FS_AddElement
  <2>5. (Cardinality(Newer(r)) + 1) * PerFile
          = Cardinality(Newer(r)) * PerFile + PerFile
    BY <2>3, OneMoreFile
  <2>6. r.hi + Cardinality(Newer(r)) * PerFile < first
    BY DEF AgeInv
  <2>7. Cardinality(Newer(r)) * PerFile \in Nat
    BY <2>3, SizeAssumption
  <2> DEFINE n == Cardinality(Newer(r)) * PerFile
  <2>8. Cardinality(Newer(r)') * PerFile = n + PerFile
    BY <2>4, <2>5
  <2> HIDE DEF n
  <2>9. r.hi + (n + PerFile) < first'
    BY <1>1, <1>3, <1>5, <2>6, <2>7, SizeAssumption DEF TypeOK, n
  <2> QED
    BY <2>8, <2>9
<1>8. moved.hi + Cardinality(Newer(moved)') * PerFile < first'
  <2>1. Cardinality(Newer(moved)') = 0
    BY <1>6, FS_EmptySet
  <2> QED
    BY <1>3, <1>2, <2>1, SizeAssumption DEF TypeOK
<1>9. (\A r \in rotated : r.hi + Cardinality(Newer(r)) * PerFile < first)'
  BY <1>3, <1>7, <1>8
<1>10. first' <= last' + 1 /\ at' # "rename"
  BY <1>3 DEF TypeOK
<1>11. AgeInv'
  BY <1>9, <1>10 DEF AgeInv
<1> QED
  BY <1>3, <1>2, <1>11

\* Removing files leaves fewer after each of the others.
LEMMA PruneAges ==
  ASSUME TypeOK, AgeInv, Prune
  PROVE  AgeInv'
<1>1. /\ rotated' \subseteq rotated
      /\ first' = first /\ last' = last /\ at' = "reopen"
  BY DEF Prune
<1>2. ASSUME NEW r \in rotated'
      PROVE  r.hi + Cardinality(Newer(r)') * PerFile < first'
  <2>1. Newer(r)' \subseteq Newer(r)
    BY <1>1 DEF Newer
  <2>2. IsFiniteSet(Newer(r)) /\ Cardinality(Newer(r)) \in Nat
    BY NewerIsFinite DEF TypeOK
  <2>3. /\ Cardinality(Newer(r)') \in Nat
        /\ Cardinality(Newer(r)') <= Cardinality(Newer(r))
    BY <2>1, <2>2, FS_Subset, FS_CardinalityType
  <2>4. Cardinality(Newer(r)') * PerFile <= Cardinality(Newer(r)) * PerFile
    BY <2>2, <2>3, MoreFiles
  <2>5. /\ Cardinality(Newer(r)') * PerFile \in Nat
        /\ Cardinality(Newer(r)) * PerFile \in Nat
    BY <2>2, <2>3, SizeAssumption
  <2>6. r.hi \in Nat /\ r.hi + Cardinality(Newer(r)) * PerFile < first
    BY <1>1 DEF AgeInv, TypeOK, File
  <2> DEFINE m == Cardinality(Newer(r)') * PerFile
             n == Cardinality(Newer(r)) * PerFile
  <2> HIDE DEF m, n
  <2>7. m \in Nat /\ n \in Nat /\ m <= n /\ r.hi + n < first
    BY <2>4, <2>5, <2>6 DEF m, n
  <2>8. r.hi + m < first
    BY <2>6, <2>7 DEF TypeOK
  <2> QED
    BY <1>1, <2>8 DEF m
<1> QED
  BY <1>1, <1>2 DEF AgeInv

LEMMA AgeStep ==
  ASSUME TypeOK, AgeInv, ~ClockFaults, [Next]_vars
  PROVE  AgeInv'
<1>1. CASE \E s \in 1 .. MaxEvents : Rename(s)
  BY <1>1, RenameAges
<1>2. CASE Prune
  BY <1>2, PruneAges
<1>3. ASSUME UNCHANGED <<first, rotated>>,
             last' = last \/ last' = last + 1,
             at' = "rename" => Full'
      PROVE  AgeInv'
  BY <1>3 DEF AgeInv, Newer, TypeOK
<1>4. CASE Log \/ LogDropped
  BY <1>3, <1>4 DEF Log, LogDropped, AgeInv, Full
<1>5. CASE RenameFails \/ Reopen \/ ReopenFails
  BY <1>3, <1>5 DEF RenameFails, Reopen, ReopenFails
<1>6. CASE Write \/ WriteFails
  BY <1>3, <1>6 DEF Write, WriteFails
<1>7. CASE Stop \/ Start
  BY <1>3, <1>7 DEF Stop, Start, AgeInv, Full
<1>8. CASE UNCHANGED vars
  BY <1>3, <1>8 DEF vars, AgeInv, Full
<1> QED
  BY <1>1, <1>2, <1>4, <1>5, <1>6, <1>7, <1>8 DEF Next, LogSteps

-----------------------------------------------------------------------------
(* The refinement.                                                         *)

\* A file may go only when Keep full ones are newer than it.
LEMMA ExcessIsOld ==
  ASSUME TypeOK, AgeInv, NEW r \in Excess
  PROVE  r.hi \in Nat /\ r.hi + Keep * PerFile <= last
<1>1. r \in rotated /\ Cardinality(Newer(r)) >= Keep
  BY DEF Excess
<1>2. Cardinality(Newer(r)) \in Nat
  BY NewerIsFinite DEF TypeOK
<1>3. Keep * PerFile <= Cardinality(Newer(r)) * PerFile
  BY <1>1, <1>2, MoreFiles, SizeAssumption
<1>4. Keep * PerFile \in Nat /\ Cardinality(Newer(r)) * PerFile \in Nat
  BY <1>2, SizeAssumption
<1>5. r.hi \in Nat /\ r.hi + Cardinality(Newer(r)) * PerFile < first
  BY <1>1 DEF AgeInv, TypeOK, File
<1> DEFINE m == Keep * PerFile
           n == Cardinality(Newer(r)) * PerFile
<1> HIDE DEF m, n
<1>6. m \in Nat /\ n \in Nat /\ m <= n /\ r.hi + n < first
  BY <1>3, <1>4, <1>5 DEF m, n
<1>7. r.hi + m <= last
  BY <1>5, <1>6 DEF AgeInv, TypeOK
<1> QED
  BY <1>5, <1>7 DEF m

\* Every step of the log is one of the trail or leaves it alone.
LEMMA TrailStep ==
  ASSUME TypeOK, AgeInv, ~ClockFaults, [Next]_vars
  PROVE  [Trail!Next]_<<last, Kept>>
<1>1. ASSUME NEW s \in 1 .. MaxEvents, Rename(s)
      PROVE  UNCHANGED <<last, Kept>>
  <2>1. PICK moved \in File : /\ rotated' = rotated \cup {moved}
                             /\ moved.lo = first /\ moved.hi = last
    BY <1>1, RenameAges
  <2>2. last' = last /\ first' = last + 1
    BY <1>1 DEF Rename
  <2>3. (first' .. last') = {}
    BY <2>2 DEF TypeOK
  <2>4. Events(moved) = first .. last
    BY <2>1 DEF Events
  <2>5. \A e : (\E r \in rotated' : e \in Events(r))
                  <=> e \in Events(moved) \/ \E r \in rotated : e \in Events(r)
    BY <2>1 DEF Events
  <2>6. \A e : e \in Kept <=> e \in first .. last
                                \/ \E r \in rotated : e \in Events(r)
    BY DEF Kept, Events
  <2>7. \A e : e \in Kept' <=> e \in first' .. last'
                                 \/ \E r \in rotated' : e \in Events(r)
    BY DEF Kept, Events
  <2>8. \A e : e \in Kept' <=> e \in Kept
    BY <2>3, <2>4, <2>5, <2>6, <2>7
  <2>9. Kept' = Kept
    BY <2>8
  <2> QED
    BY <2>2, <2>9
<1>2. ASSUME Prune
      PROVE  Trail!Forget
  <2>1. PICK gone \in SUBSET Excess : rotated' = rotated \ gone
    BY <1>2 DEF Prune
  <2>2. first' = first /\ last' = last
    BY <1>2 DEF Prune
  <2>3. Kept' \subseteq Kept
    BY <2>1, <2>2 DEF Kept, Events
  <2>4. ASSUME NEW e \in Kept \ Kept'
        PROVE  e + Keep * PerFile <= last
    <3>1. PICK r \in rotated : e \in Events(r) /\ r \notin rotated'
      BY <2>2, <2>4 DEF Kept, Events
    <3>2. r \in Excess
      BY <2>1, <3>1
    <3>3. r.hi \in Nat /\ r.lo \in Nat /\ r.hi + Keep * PerFile <= last
      BY <3>1, <3>2, ExcessIsOld DEF TypeOK, File
    <3>4. e \in Nat /\ e <= r.hi
      BY <3>1, <3>3 DEF Events
    <3>5. Keep * PerFile \in Nat
      BY SizeAssumption
    <3> DEFINE m == Keep * PerFile
    <3> HIDE DEF m
    <3>6. e + m <= last
      BY <3>3, <3>4, <3>5 DEF m, TypeOK
    <3> QED
      BY <3>6 DEF m
  <2> QED
    BY <2>2, <2>3, <2>4 DEF Trail!Forget
<1>3. ASSUME Write
      PROVE  Trail!Append
  <2>1. last' = last + 1 /\ first' = first /\ rotated' = rotated
    BY <1>3 DEF Write
  <2>2. (first' .. last') = (first .. last) \cup {last + 1}
    BY <2>1 DEF AgeInv, TypeOK
  <2> QED
    BY <2>1, <2>2 DEF Kept, Events, Trail!Append
<1>4. ASSUME UNCHANGED <<last, first, rotated>>
      PROVE  UNCHANGED <<last, Kept>>
  BY <1>4 DEF Kept, Events
<1>5. CASE Log \/ LogDropped \/ RenameFails
  BY <1>4, <1>5 DEF Log, LogDropped, RenameFails
<1>6. CASE Reopen \/ ReopenFails \/ WriteFails
  BY <1>4, <1>6 DEF Reopen, ReopenFails, WriteFails
<1>7. CASE Stop \/ Start
  BY <1>4, <1>7 DEF Stop, Start
<1>8. CASE UNCHANGED vars
  BY <1>4, <1>8 DEF vars
<1> QED
  BY <1>1, <1>2, <1>3, <1>5, <1>6, <1>7, <1>8 DEF Next, LogSteps, Trail!Next

\* The files keep what AuditTrail promises: an event that has been written is
\* not lost before Keep * PerFile newer ones are, whatever calls to the disk
\* fail and wherever the process ends (Log, rotateLocked, OpenAudit).
THEOREM TrailRefined ==
  ASSUME ~ClockFaults
  PROVE  Spec => TrailKept
<1>1. Init => TypeOK /\ AgeInv /\ Trail!Init
  <2>1. Init => TypeOK
    BY InitType
  <2>2. Init => AgeInv
    BY DEF Init, AgeInv
  <2>3. Init => Kept = {}
    BY DEF Init, Kept
  <2> QED
    BY <2>1, <2>2, <2>3 DEF Init, Trail!Init
<1>2. TypeOK /\ AgeInv /\ [Next]_vars => TypeOK' /\ AgeInv'
  BY TypeStep, AgeStep
<1>3. TypeOK /\ AgeInv /\ [Next]_vars => [Trail!Next]_<<last, Kept>>
  BY TrailStep
<1> QED
  BY <1>1, <1>2, <1>3, PTL DEF Spec, TrailKept, Trail!Spec

-----------------------------------------------------------------------------
\* What the constants have to be: the two kinds of updates are apart, and the
\* name that stands for no writer is none of them.
Distinct ==
    /\ Panels \cap Clis = {}
    /\ "none" \notin U!Updates
    /\ MaxRelease \in Nat \ {0}

-----------------------------------------------------------------------------
(* Types.                                                                  *)

FilesOK ==
    /\ file \in [U!Names -> 0 .. MaxRelease]
    /\ writer \in [U!Names -> U!Updates \cup {"none"}]

ControlOK ==
    /\ up \in BOOLEAN
    /\ version \in 1 .. MaxRelease
    /\ latest \in 1 .. MaxRelease
    /\ pc \in [U!Updates -> U!PanelPoints \cup U!CliPoints]
    /\ rel \in [U!Updates -> 0 .. MaxRelease]
    /\ script \in [Panels -> U!ScriptPoints]
    /\ starts \in Nat
    /\ crossed \in BOOLEAN

LEMMA TypeParts == U!TypeOK <=> FilesOK /\ ControlOK
BY DEF U!TypeOK, FilesOK, ControlOK

\* The operations on files keep the types.
LEMMA FileTypes ==
  ASSUME Distinct, FilesOK, NEW x \in U!Names, NEW y \in U!Names,
         U!Move(x, y) \/ U!MoveIfAny(x, y) \/ U!Remove(x) \/ UNCHANGED U!files
  PROVE  FilesOK'
<1>1. CASE U!Move(x, y)
  BY <1>1 DEF FilesOK, U!Move, Distinct
<1>2. CASE U!Remove(x)
  <2>1. file' = [file EXCEPT ![x] = 0] /\ 0 \in 0 .. MaxRelease
    BY <1>2 DEF U!Remove, FilesOK, Distinct
  <2> QED
    BY <1>2, <2>1 DEF FilesOK, U!Remove
<1>3. CASE UNCHANGED U!files
  BY <1>3 DEF FilesOK, U!files
<1> QED
  BY <1>1, <1>2, <1>3 DEF U!MoveIfAny

LEMMA CreateTypes ==
  ASSUME Distinct, FilesOK, ControlOK, NEW u \in U!Updates, U!Create(u)
  PROVE  FilesOK' /\ ControlOK'
<1>1. FilesOK'
  BY DEF U!Create, FilesOK, ControlOK, U!Names
<1>2. ControlOK'
  BY DEF U!Create, ControlOK, U!Goto, U!PanelPoints, U!process
<1> QED
  BY <1>1, <1>2

LEMMA DownloadTypes ==
  ASSUME Distinct, FilesOK, ControlOK, NEW u \in U!Updates,
         U!DownloadEnds(u) \/ U!DownloadFails(u)
  PROVE  FilesOK' /\ ControlOK'
<1>1. CASE U!DownloadEnds(u)
  <2> DEFINE left == [x \in U!Names |-> IF writer[x] = u THEN "none" ELSE writer[x]]
  <2>1. left \in [U!Names -> U!Updates \cup {"none"}]
    BY DEF FilesOK
  <2>2. /\ file' = [file EXCEPT !["update"] = file["part"], !["part"] = 0]
             \/ file' = file
        /\ writer' = [left EXCEPT !["update"] = left["part"], !["part"] = "none"]
             \/ writer' = left
    BY <1>1 DEF U!DownloadEnds
  <2> HIDE DEF left
  <2>3. FilesOK'
    BY <2>1, <2>2 DEF FilesOK, U!Names, Distinct
  <2>4. ControlOK'
    BY <1>1 DEF U!DownloadEnds, ControlOK, U!Goto, U!PanelPoints, U!CliPoints, U!process
  <2> QED
    BY <2>3, <2>4
<1>2. CASE U!DownloadFails(u)
  <2>1. FilesOK'
    BY <1>2, FileTypes DEF U!DownloadFails, U!Names
  <2>2. ControlOK'
    BY <1>2 DEF U!DownloadFails, ControlOK, U!Goto, U!PanelPoints, U!process
  <2> QED
    BY <2>1, <2>2
<1> QED
  BY <1>1, <1>2

LEMMA PanelTypes ==
  ASSUME Distinct, FilesOK, ControlOK, NEW p \in Panels,
         \/ U!Schedule(p) \/ U!ScheduleFails(p) \/ U!Logged(p) \/ U!RunScript(p)
         \/ U!ScriptFetches(p) \/ U!ScriptPlaces(p) \/ U!ScriptKilled(p)
  PROVE  FilesOK' /\ ControlOK'
<1>1. FilesOK'
  BY FileTypes DEF U!Schedule, U!ScheduleFails, U!Logged, U!RunScript, U!ScriptFetches,
                   U!ScriptPlaces, U!ScriptKilled, U!Names
<1>2. p \in U!Updates
  BY DEF U!Updates
<1>3. CASE U!Schedule(p) \/ U!ScheduleFails(p) \/ U!Logged(p) \/ U!RunScript(p)
  BY <1>1, <1>2, <1>3 DEF U!Schedule, U!ScheduleFails, U!Logged, U!RunScript, U!Goto,
     ControlOK, U!PanelPoints, U!ScriptPoints, U!process
<1>4. CASE U!ScriptFetches(p) \/ U!ScriptPlaces(p) \/ U!ScriptKilled(p)
  BY <1>1, <1>4 DEF U!ScriptFetches, U!ScriptPlaces, U!ScriptKilled, U!ScriptGoto,
     ControlOK, U!ScriptPoints, U!process
<1> QED
  BY <1>1, <1>3, <1>4

LEMMA CliTypes ==
  ASSUME Distinct, FilesOK, ControlOK, NEW c \in Clis,
         \/ U!Stat(c) \/ U!Clear(c) \/ U!Aside(c) \/ U!Place(c) \/ U!Revert(c)
         \/ U!Discard(c) \/ U!CliKilled(c)
  PROVE  FilesOK' /\ ControlOK'
<1>1. FilesOK'
  BY FileTypes DEF U!Stat, U!Clear, U!Aside, U!Place, U!Revert, U!Discard, U!CliKilled, U!Names
<1>2. c \in U!Updates
  BY DEF U!Updates
<1>3. ControlOK'
  BY <1>2 DEF U!Stat, U!Clear, U!Aside, U!Place, U!Revert, U!Discard, U!CliKilled, U!Goto,
     ControlOK, U!CliPoints, U!process
<1> QED
  BY <1>1, <1>3

LEMMA ProcessTypes ==
  ASSUME Distinct, FilesOK, ControlOK,
         U!Stop \/ U!Start \/ U!Publish \/ \E p \in Panels : U!ScriptStarts(p)
  PROVE  FilesOK' /\ ControlOK'
<1>1. FilesOK'
  BY DEF U!Stop, U!Start, U!Publish, U!ScriptStarts, FilesOK, U!files
<1>2. U!Whole("exe") => file["exe"] \in 1 .. MaxRelease
  BY DEF U!Whole, U!Exists, FilesOK, U!Names
<1>3. CASE U!Stop
  BY <1>1, <1>3 DEF U!Stop, ControlOK, U!PanelPoints, U!ScriptPoints
<1>4. CASE U!Start
  BY <1>1, <1>2, <1>4 DEF U!Start, U!Boot, ControlOK
<1>5. CASE U!Publish
  BY <1>1, <1>5 DEF U!Publish, ControlOK, U!process, Distinct
<1>6. ASSUME NEW p \in Panels, U!ScriptStarts(p)
      PROVE  FilesOK' /\ ControlOK'
  <2>1. /\ up' \in BOOLEAN
        /\ version' \in 1 .. MaxRelease
        /\ starts' \in Nat
    <3>1. CASE ~up /\ U!Whole("exe")
      BY <1>2, <1>6, <3>1 DEF U!ScriptStarts, U!Boot, ControlOK
    <3>2. CASE ~(~up /\ U!Whole("exe"))
      BY <1>6, <3>2 DEF U!ScriptStarts, ControlOK, U!process
    <3> QED
      BY <3>1, <3>2
  <2> QED
    BY <1>1, <1>6, <2>1 DEF U!ScriptStarts, U!ScriptGoto, ControlOK, U!ScriptPoints
<1> QED
  BY <1>1, <1>3, <1>4, <1>5, <1>6

LEMMA UpdateTypes ==
  ASSUME Distinct, U!TypeOK, [U!Next]_(U!vars)
  PROVE  U!TypeOK'
<1> SUFFICES ASSUME FilesOK, ControlOK
             PROVE  FilesOK' /\ ControlOK'
  BY TypeParts, PTL
<1>1. ASSUME NEW p \in Panels,
             U!PanelBegins(p) \/ U!PanelStep(p) \/ U!ScriptStep(p) \/ U!ScriptKilled(p)
      PROVE  FilesOK' /\ ControlOK'
  <2>1. p \in U!Updates
    BY DEF U!Updates
  <2> QED
    BY <1>1, <2>1, CreateTypes, DownloadTypes, PanelTypes, ProcessTypes
       DEF U!PanelBegins, U!PanelStep, U!ScriptStep
<1>2. ASSUME NEW c \in Clis, U!CliBegins(c) \/ U!CliStep(c) \/ U!CliKilled(c)
      PROVE  FilesOK' /\ ControlOK'
  <2>1. c \in U!Updates
    BY DEF U!Updates
  <2> QED
    BY <1>2, <2>1, CreateTypes, DownloadTypes, CliTypes DEF U!CliBegins, U!CliStep
<1>3. CASE U!Stop \/ U!Start \/ U!Publish
  BY <1>3, ProcessTypes
<1>4. CASE UNCHANGED U!vars
  BY <1>4 DEF U!vars, U!files, U!process, FilesOK, ControlOK
<1> QED
  BY <1>1, <1>2, <1>3, <1>4 DEF U!Next

-----------------------------------------------------------------------------
(* Updates that are not in each other's way.                               *)

\* One update at a time is at work, and none from the command line while a
\* script has still to move its download.
OneAtATime ==
    /\ \A u, v \in U!Updates : U!Busy(u) /\ U!Busy(v) => u = v
    /\ \A c \in Clis, p \in Panels : U!Busy(c) => ~U!Pending(p)

\* Only the file being downloaded is not whole.
Downloading ==
    /\ \A x \in U!Names : writer[x] # "none" => x = "part"
    /\ \A u \in U!Updates :
          pc[u] = "download" =>
              U!Exists("part") /\ file["part"] = rel[u] /\ writer["part"] = u

\* The executable is under its name but between the two renames of apply.
Placing ==
    /\ U!Whole(U!Copy)
    /\ \A c \in Clis :
         /\ pc[c] \in {"download", "stat", "clear", "aside"} => U!Exists("exe")
         /\ pc[c] \in {"place", "revert"} => ~U!Exists("exe")

\* No file is of a later release than the one being fetched.
Current ==
    /\ \A x \in U!Names : file[x] <= latest
    /\ \A u \in U!Updates : U!Busy(u) => \A x \in U!Names : file[x] <= rel[u]

\* What has been downloaded is not older than what is installed, or kept aside.
Offered == U!Exists("update") => \A x \in {"exe", "bak"} : file[x] <= file["update"]

\* What a script is going to move is not older than what is installed.
Fresh(x) == ~U!Exists(x) \/ file[x] >= U!Installed
Scripts ==
    \A p \in Panels :
        /\ \/ pc[p] \in {"schedule", "log", "answer"}
           \/ script[p] \in {"wait", "fetch"}
           => U!Exists("update") \/ Fresh("bak")
        /\ script[p] = "place" => Fresh("bak")

OrderInv ==
    OneAtATime /\ Downloading /\ Placing /\ Current /\ Offered /\ Scripts

\* What every step has to show.
Sound == OrderInv' /\ U!Installed' >= U!Installed

\* The invariant speaks of file, writer, pc, rel, script and latest; a step that
\* changes none of them keeps it.
LEMMA NothingMoves ==
  ASSUME Distinct, FilesOK, OrderInv,
         UNCHANGED <<file, writer, pc, rel, script, latest>>
  PROVE  Sound
BY DEF Sound, OrderInv, OneAtATime, U!Busy, U!Pending, Downloading, Placing, Current,
   Offered, Scripts, Fresh, U!Whole, U!Copy, U!Installed, U!Exists, FilesOK, U!Names

LEMMA CreateSound ==
  ASSUME Distinct, FilesOK, ControlOK, OrderInv, NEW u \in U!Updates,
         pc[u] = "idle", u \in Clis => U!Whole("exe"), U!Create(u), ~crossed'
  PROVE  Sound
<1>1. \A v \in U!Updates : ~U!Busy(v)
  BY DEF U!Create
<1>2. u \in Clis => \A p \in Panels : ~U!Pending(p)
  BY DEF U!Create
<1>3. /\ file' = [file EXCEPT !["part"] = latest]
      /\ writer' = [writer EXCEPT !["part"] = u]
      /\ pc' = [pc EXCEPT ![u] = "download"]
      /\ rel' = [rel EXCEPT ![u] = latest]
      /\ script' = script /\ latest' = latest
  BY DEF U!Create, U!Goto
<1>4. /\ file'["exe"] = file["exe"] /\ file'["bak"] = file["bak"]
      /\ file'["update"] = file["update"] /\ file'["part"] = latest
      /\ writer'["exe"] = writer["exe"] /\ writer'["bak"] = writer["bak"]
      /\ writer'["update"] = writer["update"] /\ writer'["part"] = u
  BY <1>3 DEF FilesOK, U!Names
<1>5. U!Installed' = U!Installed /\ U!Copy' = U!Copy /\ U!Installed \in Nat
  BY <1>4 DEF U!Installed, U!Copy, U!Exists, FilesOK, U!Names, Distinct
<1>6. \A v \in U!Updates : U!Busy(v)' <=> v = u
  BY <1>1, <1>3 DEF U!Busy, ControlOK
<1>7. OneAtATime'
  BY <1>2, <1>3, <1>6 DEF OneAtATime, U!Pending, U!Updates, Distinct
<1>8. Downloading'
  BY <1>1, <1>3, <1>4 DEF OrderInv, Downloading, U!Exists, U!Busy, ControlOK, U!Names,
     Distinct
<1>9. Placing'
  BY <1>1, <1>3, <1>4, <1>5 DEF OrderInv, Placing, U!Whole, U!Exists, U!Copy, U!Busy,
     ControlOK, U!Updates
<1>10. Current'
  BY <1>3, <1>4, <1>6 DEF OrderInv, Current, ControlOK, U!Names
<1>11. Offered'
  BY <1>4 DEF OrderInv, Offered, U!Exists
<1>12. Scripts'
  BY <1>1, <1>3, <1>4, <1>5 DEF OrderInv, Scripts, Fresh, U!Exists, U!Busy, ControlOK,
     U!Updates
<1> QED
  BY <1>5, <1>7, <1>8, <1>9, <1>10, <1>11, <1>12 DEF Sound, OrderInv

\* Who is at work is alone.
LEMMA Alone ==
  ASSUME ControlOK, OneAtATime, NEW u \in U!Updates, U!Busy(u)
  PROVE  /\ \A v \in U!Updates : v # u => pc[v] \in {"idle", "ended"}
         /\ u \in Clis => \A p \in Panels : ~U!Pending(p)
BY DEF OneAtATime, U!Busy

\* A step of u after which u may be busy or not, with nobody else concerned.
LEMMA StaysAlone ==
  ASSUME Distinct, ControlOK, OneAtATime, NEW u \in U!Updates, U!Busy(u),
         \A v \in U!Updates : v # u => pc'[v] = pc[v],
         \A p \in Panels : U!Pending(p)' => U!Pending(p) \/ p = u
  PROVE  OneAtATime'
<1>1. \A v \in U!Updates : U!Busy(v)' => v = u
  BY Alone DEF U!Busy
<1>2. u \in Clis => \A p \in Panels : ~U!Pending(p)'
  BY Alone DEF Distinct
<1> QED
  BY <1>1, <1>2 DEF OneAtATime, U!Updates

LEMMA DownloadSound ==
  ASSUME Distinct, FilesOK, ControlOK, OrderInv, NEW u \in U!Updates,
         U!DownloadEnds(u) \/ U!DownloadFails(u)
  PROVE  Sound
<1>1. pc[u] = "download" /\ script' = script /\ latest' = latest /\ rel' = rel
  BY DEF U!DownloadEnds, U!DownloadFails
<1>2. U!Busy(u)
  BY <1>1 DEF U!Busy
<1>3. \A v \in U!Updates : v # u => pc[v] \in {"idle", "ended"}
  BY <1>2, Alone DEF OrderInv
<1>4. /\ U!Exists("part") /\ file["part"] = rel[u] /\ writer["part"] = u
      /\ writer["exe"] = "none" /\ writer["bak"] = "none"
      /\ writer["update"] = "none"
  BY <1>1 DEF OrderInv, Downloading, FilesOK, U!Names
<1>5. \E point \in {"schedule", "stat", "ended"} :
         /\ pc' = [pc EXCEPT ![u] = point]
         /\ u \in Clis => point # "schedule"
         /\ u \in Panels => point # "stat"
  BY <1>4 DEF U!DownloadEnds, U!DownloadFails, U!Goto, U!Updates, Distinct
<1>6. /\ file'["exe"] = file["exe"] /\ file'["bak"] = file["bak"]
      /\ file'["part"] = 0
      /\ \A x \in U!Names : writer'[x] = "none"
  BY <1>4 DEF U!DownloadEnds, U!DownloadFails, U!Remove, FilesOK, U!Names
<1>7. \/ pc'[u] # "ended" /\ file'["update"] = rel[u]
      \/ pc'[u] = "ended" /\ file'["update"] = file["update"]
  <2>1. CASE U!DownloadEnds(u)
    BY <2>1, <1>2, <1>4 DEF U!DownloadEnds, U!Goto, FilesOK, ControlOK, U!Names
  <2>2. CASE U!DownloadFails(u)
    BY <2>2, <1>2 DEF U!DownloadFails, U!Remove, U!Goto, FilesOK, ControlOK, U!Names
  <2> QED
    BY <2>1, <2>2
<1>8. rel[u] # 0 /\ \A x \in U!Names : file[x] <= rel[u]
  BY <1>2, <1>4 DEF OrderInv, Current, U!Exists
<1>9. U!Installed' = U!Installed /\ U!Copy' = U!Copy /\ U!Installed \in Nat
  BY <1>6 DEF U!Installed, U!Copy, U!Exists, FilesOK, U!Names, Distinct
<1>10. OneAtATime'
  BY <1>1, <1>2, <1>5, StaysAlone DEF OrderInv, U!Pending, ControlOK
<1>11. Downloading'
  BY <1>3, <1>5, <1>6 DEF Downloading, ControlOK
<1>12. Placing'
  BY <1>1, <1>3, <1>5, <1>6, <1>9 DEF OrderInv, Placing, U!Whole, U!Exists, U!Copy,
     ControlOK, U!Updates, U!Names
<1>13. Current'
  <2>1. \A x \in U!Names : file'[x] <= rel[u] /\ file'[x] <= latest
    BY <1>6, <1>7, <1>8, <1>4 DEF OrderInv, Current, FilesOK, ControlOK, U!Names,
       Distinct
  <2>2. \A v \in U!Updates : U!Busy(v)' => v = u
    BY <1>3, <1>5 DEF U!Busy, ControlOK
  <2> QED
    BY <1>1, <2>1, <2>2 DEF Current
<1>14. Offered'
  BY <1>6, <1>7, <1>8 DEF OrderInv, Offered, U!Exists, U!Names
<1>15. Scripts'
  BY <1>1, <1>3, <1>5, <1>6, <1>7, <1>8, <1>9 DEF OrderInv, Scripts, Fresh, U!Exists,
     ControlOK, U!Updates
<1> QED
  BY <1>9, <1>10, <1>11, <1>12, <1>13, <1>14, <1>15 DEF Sound, OrderInv

LEMMA PanelSound ==
  ASSUME Distinct, FilesOK, ControlOK, OrderInv, NEW p \in Panels,
         U!Schedule(p) \/ U!ScheduleFails(p) \/ U!Logged(p) \/ U!RunScript(p),
         ~crossed'
  PROVE  Sound
<1>1. /\ p \in U!Updates /\ p \notin Clis
      /\ pc[p] \in {"schedule", "log", "answer"}
      /\ latest' = latest /\ rel' = rel
  BY DEF U!Schedule, U!ScheduleFails, U!Logged, U!RunScript, U!Updates, Distinct
<1>2. U!Busy(p)
  BY <1>1 DEF U!Busy
<1>3. \A v \in U!Updates : v # p => pc[v] \in {"idle", "ended"}
  BY <1>1, <1>2, Alone DEF OrderInv
<1>4. \E point \in {"log", "answer", "ended"} : pc' = [pc EXCEPT ![p] = point]
  BY DEF U!Schedule, U!ScheduleFails, U!Logged, U!RunScript, U!Goto
<1>5. OneAtATime'
  <2>1. \A q \in Panels : U!Pending(q)' => U!Pending(q) \/ q = p
    BY DEF U!Schedule, U!ScheduleFails, U!Logged, U!RunScript, U!Pending, ControlOK
  <2> QED
    BY <1>1, <1>2, <1>4, <2>1, StaysAlone DEF OrderInv, ControlOK
<1>6. CASE U!ScheduleFails(p)
  <2>1. /\ \A x \in U!Names : x # "update" => file'[x] = file[x]
        /\ file'["update"] = 0
        /\ \A x \in U!Names : writer'[x] = "none" \/ writer'[x] = writer[x]
    BY <1>6 DEF U!ScheduleFails, U!Remove, FilesOK, U!Names
  <2>2. script' = script /\ pc' = [pc EXCEPT ![p] = "ended"]
    BY <1>6 DEF U!ScheduleFails, U!Goto
  <2>3. \A q \in Panels : script[q] \in {"none", "done", "killed"}
    BY <1>6 DEF U!ScheduleFails, U!Pending
  <2>4. U!Installed' = U!Installed /\ U!Copy' = U!Copy /\ U!Installed \in Nat
    BY <2>1 DEF U!Installed, U!Copy, U!Exists, FilesOK, U!Names, Distinct
  <2>5. Downloading'
    BY <1>3, <2>1, <2>2 DEF OrderInv, Downloading, ControlOK
  <2>6. Placing'
    BY <1>3, <2>1, <2>2, <2>4 DEF OrderInv, Placing, U!Whole, U!Exists, U!Copy, ControlOK,
       U!Updates, U!Names
  <2>7. Current'
    <3>1. \A v \in U!Updates : U!Busy(v)' => U!Busy(v)
      BY <2>2 DEF U!Busy, ControlOK
    <3>2. \A x \in U!Names : file'[x] <= latest
      BY <2>1 DEF OrderInv, Current, ControlOK, Distinct
    <3>3. \A v \in U!Updates : U!Busy(v) => \A x \in U!Names : file'[x] <= rel[v]
      BY <2>1 DEF OrderInv, Current, ControlOK, Distinct
    <3> QED
      BY <1>1, <3>1, <3>2, <3>3 DEF Current
  <2>8. Offered'
    BY <2>1 DEF Offered, U!Exists
  <2>9. Scripts'
    BY <1>3, <2>2, <2>3 DEF Scripts, ControlOK, U!Updates
  <2> QED
    BY <1>5, <2>4, <2>5, <2>6, <2>7, <2>8, <2>9 DEF Sound, OrderInv
<1>7. CASE U!Schedule(p) \/ U!Logged(p) \/ U!RunScript(p)
  <2>1. file' = file /\ writer' = writer
    BY <1>7 DEF U!Schedule, U!Logged, U!RunScript, U!files
  <2>2. U!Installed' = U!Installed /\ U!Copy' = U!Copy /\ U!Installed \in Nat
    BY <2>1 DEF U!Installed, U!Copy, U!Exists, FilesOK, U!Names, Distinct
  <2>3. \A q \in Panels : script'[q] = script[q] \/ (q = p /\ script'[q] = "wait")
    BY <1>7 DEF U!Schedule, U!Logged, U!RunScript, ControlOK
  <2>4. Downloading' /\ Offered'
    BY <1>1, <1>4, <2>1 DEF OrderInv, Downloading, Offered, U!Exists, ControlOK
  <2>5. Placing'
    BY <1>1, <1>4, <2>1, <2>2 DEF OrderInv, Placing, U!Whole, U!Exists, U!Copy, ControlOK,
       U!Updates
  <2>6. Current'
    BY <1>1, <1>2, <1>4, <2>1 DEF OrderInv, Current, U!Busy, ControlOK
  <2>7. Scripts'
    BY <1>1, <1>4, <2>1, <2>2, <2>3 DEF OrderInv, Scripts, Fresh, U!Exists, ControlOK,
       U!Updates
  <2> QED
    BY <1>5, <2>2, <2>4, <2>5, <2>6, <2>7 DEF Sound, OrderInv
<1> QED
  BY <1>6, <1>7

LEMMA ScriptSound ==
  ASSUME Distinct, FilesOK, ControlOK, OrderInv, NEW p \in Panels,
         U!ScriptFetches(p) \/ U!ScriptPlaces(p)
  PROVE  Sound
<1>1. /\ pc' = pc /\ rel' = rel /\ latest' = latest
      /\ script[p] \in {"fetch", "place"}
      /\ \E point \in {"place", "start"} : script' = [script EXCEPT ![p] = point]
  BY DEF U!ScriptFetches, U!ScriptPlaces, U!ScriptGoto
<1>2. U!Pending(p)
  BY <1>1 DEF U!Pending
<1>3. \A c \in Clis : pc[c] \in {"idle", "ended"}
  BY <1>2 DEF OrderInv, OneAtATime, U!Busy
<1>4. OneAtATime'
  <2>1. \A q \in Panels : U!Pending(q)' => U!Pending(q)
    BY <1>1, <1>2 DEF U!Pending, ControlOK
  <2> QED
    BY <1>1, <2>1 DEF OrderInv, OneAtATime, U!Busy
<1>5. /\ writer["exe"] = "none" /\ writer["bak"] = "none"
      /\ writer["update"] = "none"
      /\ U!Whole(U!Copy) /\ Offered
  BY DEF OrderInv, Downloading, Placing, FilesOK, U!Names
<1>6. ASSUME /\ \/ file'["bak"] = 0 /\ file'["exe"] = file["bak"]
                                    /\ file'["update"] = file["update"]
                                    /\ Fresh("bak") /\ U!Exists("bak")
                \/ file'["update"] = 0 /\ file'["bak"] = file["update"]
                                       /\ file'["exe"] = file["exe"]
                                       /\ U!Exists("update")
                \/ /\ file' = file
                   /\ script'[p] = "place" => Fresh("bak")
             /\ file'["part"] = file["part"] /\ writer'["part"] = writer["part"]
             /\ writer'["exe"] = "none" /\ writer'["bak"] = "none"
             /\ writer'["update"] = "none"
      PROVE  Sound
  <2>1. U!Installed' >= U!Installed /\ U!Installed \in Nat /\ U!Installed' \in Nat
    BY <1>5, <1>6 DEF U!Installed, U!Copy, U!Exists, Offered, Fresh, FilesOK, U!Names, Distinct
  <2>2. Downloading'
    BY <1>1, <1>6 DEF OrderInv, Downloading, U!Exists, U!Names
  <2>3. Placing'
    BY <1>1, <1>3, <1>5, <1>6 DEF Placing, U!Whole, U!Copy, U!Exists
  <2>4. Current'
    BY <1>1, <1>6 DEF OrderInv, Current, U!Busy, U!Names, FilesOK, ControlOK, Distinct
  <2>5. Offered'
    BY <1>5, <1>6 DEF Offered, U!Exists, FilesOK, U!Names, Distinct
  <2>6. Scripts'
    <3>1. CASE file' = file /\ (script'[p] = "place" => Fresh("bak"))
      BY <1>1, <3>1 DEF OrderInv, Scripts, Fresh, U!Installed, U!Copy, U!Exists, ControlOK
    <3>2. CASE file'["bak"] = 0
      BY <3>2 DEF Scripts, Fresh, U!Exists
    <3>3. CASE /\ file'["bak"] = file["update"] /\ file'["exe"] = file["exe"]
               /\ U!Exists("update")
      <4>1. Fresh("bak")'
        BY <1>5, <3>3 DEF Fresh, Offered, U!Installed, U!Copy, U!Exists, FilesOK, U!Names,
           Distinct
      <4> QED
        BY <4>1 DEF Scripts
    <3> QED
      BY <1>6, <3>1, <3>2, <3>3
  <2> QED
    BY <1>4, <2>1, <2>2, <2>3, <2>4, <2>5, <2>6 DEF Sound, OrderInv
<1>7. CASE U!ScriptFetches(p)
  <2>1. CASE U!Exists("update")
    BY <1>5, <1>6, <1>7, <2>1 DEF U!ScriptFetches, U!MoveIfAny, U!Move, FilesOK, U!Names
  <2>2. CASE ~U!Exists("update")
    BY <1>5, <1>6, <1>7, <2>2 DEF U!ScriptFetches, U!MoveIfAny, U!files, OrderInv, Scripts
  <2> QED
    BY <2>1, <2>2
<1>8. CASE U!ScriptPlaces(p)
  <2>1. Fresh("bak")
    BY <1>8 DEF U!ScriptPlaces, OrderInv, Scripts
  <2>2. CASE U!Exists("bak")
    BY <1>5, <1>6, <1>8, <2>1, <2>2 DEF U!ScriptPlaces, U!MoveIfAny, U!Move, FilesOK, U!Names
  <2>3. CASE ~U!Exists("bak")
    BY <1>5, <1>6, <1>8, <2>1, <2>3 DEF U!ScriptPlaces, U!MoveIfAny, U!files
  <2> QED
    BY <2>2, <2>3
<1> QED
  BY <1>7, <1>8

\* A step of the command line concerns nobody else, so it is enough to look at
\* the files and at the point that is reached.
LEMMA CliMoves ==
  ASSUME Distinct, FilesOK, ControlOK, OrderInv, NEW c \in Clis, U!Busy(c),
         NEW point \in U!CliPoints \ {"idle", "download", "stat"},
         pc' = [pc EXCEPT ![c] = point],
         UNCHANGED <<rel, script, latest>>,
         \A x \in {"exe", "bak", "update"} : writer'[x] = "none",
         writer'["part"] = writer["part"],
         \A x \in U!Names : file'[x] = 0 \/ \E y \in U!Names : file'[x] = file[y],
         U!Whole(U!Copy)', U!Installed' >= U!Installed, Offered',
         point \in {"clear", "aside"} => U!Exists("exe")',
         point \in {"place", "revert"} => ~U!Exists("exe")'
  PROVE  Sound
<1>1. c \in U!Updates
  BY DEF U!Updates
<1>2. /\ \A v \in U!Updates : v # c => pc[v] \in {"idle", "ended"}
      /\ \A p \in Panels : ~U!Pending(p)
  BY <1>1, Alone DEF OrderInv
<1>3. /\ pc'[c] = point
      /\ \A v \in U!Updates : v # c => pc'[v] = pc[v]
  BY <1>1 DEF ControlOK
<1>4. OneAtATime'
  <2>1. \A p \in Panels : U!Pending(p)' => U!Pending(p) \/ p = c
    BY DEF U!Pending
  <2> QED
    BY <1>1, <1>3, <2>1, StaysAlone DEF OrderInv
<1>5. Downloading'
  BY <1>2, <1>3 DEF OrderInv, Downloading, U!Names, U!CliPoints
<1>6. Placing'
  <2>1. \A d \in Clis : d # c => pc'[d] \in {"idle", "ended"}
    BY <1>2, <1>3 DEF U!Updates
  <2> QED
    BY <1>3, <2>1 DEF Placing
<1>7. Current'
  <2>1. /\ \A x \in U!Names : file[x] <= latest
        /\ \A x \in U!Names : file[x] <= rel[c]
        /\ 0 <= latest /\ 0 <= rel[c]
    BY <1>1 DEF OrderInv, Current, ControlOK, Distinct
  <2>2. \A x \in U!Names : file'[x] <= latest /\ file'[x] <= rel[c]
    BY <2>1
  <2>3. \A v \in U!Updates : U!Busy(v)' => v = c
    BY <1>2, <1>3 DEF U!Busy
  <2> QED
    BY <2>2, <2>3 DEF Current
<1>8. Scripts'
  <2>1. \A p \in Panels : pc'[p] \in {"idle", "ended"}
    BY <1>2, <1>3 DEF U!Updates, Distinct
  <2>2. \A p \in Panels : script'[p] \in {"none", "done", "killed"}
    BY <1>2 DEF U!Pending
  <2> QED
    BY <2>1, <2>2 DEF Scripts
<1> QED
  BY <1>4, <1>5, <1>6, <1>7, <1>8 DEF Sound, OrderInv

LEMMA CliSound ==
  ASSUME Distinct, FilesOK, ControlOK, OrderInv, NEW c \in Clis,
         \/ U!Stat(c) \/ U!Clear(c) \/ U!Aside(c) \/ U!Place(c) \/ U!Revert(c)
         \/ U!Discard(c) \/ U!CliKilled(c)
  PROVE  Sound
<1>1. U!Busy(c) /\ UNCHANGED <<rel, script, latest>>
  BY DEF U!Busy, U!Stat, U!Clear, U!Aside, U!Place, U!Revert, U!Discard, U!CliKilled
<1>2. /\ writer["exe"] = "none" /\ writer["bak"] = "none"
      /\ writer["update"] = "none"
  BY DEF OrderInv, Downloading, FilesOK, U!Names
<1>3. U!Whole(U!Copy) /\ Offered
  BY DEF OrderInv, Placing
<1>4. /\ pc[c] \in {"download", "stat", "clear", "aside"} => U!Exists("exe")
      /\ pc[c] \in {"place", "revert"} => ~U!Exists("exe")
  BY DEF OrderInv, Placing
<1>5. \A x \in U!Names : file[x] \in Nat
  BY DEF FilesOK, Distinct
<1>6. ASSUME UNCHANGED U!files,
             NEW point \in U!CliPoints \ {"idle", "download", "stat"},
             pc' = [pc EXCEPT ![c] = point],
             point \in {"clear", "aside"} => U!Exists("exe"),
             point \in {"place", "revert"} => ~U!Exists("exe")
      PROVE  Sound
  <2>1. file' = file /\ writer' = writer
    BY <1>6 DEF U!files
  <2>2. /\ U!Whole(U!Copy)' /\ Offered' /\ U!Installed' >= U!Installed
        /\ U!Exists("exe")' <=> U!Exists("exe")
    BY <1>3, <1>5, <2>1 DEF U!Whole, U!Copy, Offered, U!Installed, U!Exists, U!Names
  <2> QED
    BY <1>1, <1>2, <1>6, <2>1, <2>2, CliMoves
<1>7. CASE U!Stat(c)
  BY <1>4, <1>6, <1>7 DEF U!Stat, U!Goto, U!CliPoints
<1>8. CASE U!CliKilled(c)
  BY <1>6, <1>8 DEF U!CliKilled, U!Goto, U!CliPoints
<1>9. CASE U!Clear(c)
  <2>1. U!Exists("exe")
    BY <1>4, <1>9 DEF U!Clear
  <2>2. /\ file'["bak"] = 0
        /\ file'["exe"] = file["exe"] /\ file'["update"] = file["update"]
        /\ file'["part"] = file["part"] /\ writer'["part"] = writer["part"]
        /\ writer'["exe"] = "none" /\ writer'["bak"] = "none"
        /\ writer'["update"] = "none"
    BY <1>2, <1>9 DEF U!Clear, U!Remove, FilesOK, U!Names
  <2>3. /\ U!Whole(U!Copy)' /\ Offered' /\ U!Installed' >= U!Installed /\ U!Exists("exe")'
    BY <1>3, <1>5, <2>1, <2>2 DEF U!Whole, U!Copy, Offered, U!Installed, U!Exists, U!Names
  <2> QED
    BY <1>1, <1>9, <2>2, <2>3, CliMoves DEF U!Clear, U!Goto, U!CliPoints, U!Names
<1>10. CASE U!Discard(c)
  <2>1. /\ file'["update"] = 0
        /\ file'["exe"] = file["exe"] /\ file'["bak"] = file["bak"]
        /\ file'["part"] = file["part"] /\ writer'["part"] = writer["part"]
        /\ writer'["exe"] = "none" /\ writer'["bak"] = "none"
        /\ writer'["update"] = "none"
    BY <1>2, <1>10 DEF U!Discard, U!Remove, FilesOK, U!Names
  <2>2. U!Whole(U!Copy)' /\ Offered' /\ U!Installed' >= U!Installed
    BY <1>3, <1>5, <2>1 DEF U!Whole, U!Copy, Offered, U!Installed, U!Exists, U!Names
  <2> QED
    BY <1>1, <1>10, <2>1, <2>2, CliMoves DEF U!Discard, U!Goto, U!CliPoints, U!Names
<1>11. CASE U!Aside(c)
  <2>1. CASE UNCHANGED U!files /\ U!Goto(c, "discard")
    BY <1>6, <2>1 DEF U!Goto, U!CliPoints
  <2>2. CASE U!Exists("exe") /\ U!Move("exe", "bak") /\ U!Goto(c, "place")
    <3>1. /\ file'["exe"] = 0 /\ file'["bak"] = file["exe"]
          /\ file'["update"] = file["update"]
          /\ file'["part"] = file["part"] /\ writer'["part"] = writer["part"]
          /\ writer'["exe"] = "none" /\ writer'["bak"] = "none"
          /\ writer'["update"] = "none"
      BY <1>2, <2>2 DEF U!Move, FilesOK, U!Names
    <3>2. /\ U!Whole(U!Copy)' /\ Offered' /\ U!Installed' >= U!Installed
          /\ ~U!Exists("exe")'
      BY <1>3, <1>5, <2>2, <3>1 DEF U!Whole, U!Copy, Offered, U!Installed, U!Exists, U!Names
    <3> QED
      BY <1>1, <2>2, <3>1, <3>2, CliMoves DEF U!Goto, U!CliPoints, U!Names
  <2> QED
    BY <1>11, <2>1, <2>2 DEF U!Aside
<1>12. CASE U!Place(c)
  <2>1. CASE UNCHANGED U!files /\ U!Goto(c, "revert")
    BY <1>4, <1>6, <1>12, <2>1 DEF U!Goto, U!CliPoints, U!Place
  <2>2. CASE U!Exists("update") /\ U!Move("update", "exe") /\ U!Goto(c, "ended")
    <3>1. /\ file'["exe"] = file["update"] /\ file'["bak"] = file["bak"]
          /\ file'["update"] = 0
          /\ file'["part"] = file["part"] /\ writer'["part"] = writer["part"]
          /\ writer'["exe"] = "none" /\ writer'["bak"] = "none"
          /\ writer'["update"] = "none"
      BY <1>2, <2>2 DEF U!Move, FilesOK, U!Names
    <3>2. U!Whole(U!Copy)' /\ Offered'
      BY <2>2, <3>1 DEF U!Whole, U!Copy, Offered, U!Exists
    <3>3. U!Installed' >= U!Installed
      BY <1>3, <1>4, <1>12, <2>2, <3>1 DEF U!Place, U!Copy, Offered, U!Installed, U!Exists
    <3> QED
      BY <1>1, <2>2, <3>1, <3>2, <3>3, CliMoves DEF U!Goto, U!CliPoints, U!Names
  <2> QED
    BY <1>12, <2>1, <2>2 DEF U!Place
<1>13. CASE U!Revert(c)
  <2>1. CASE UNCHANGED U!files
    BY <1>6, <1>13, <2>1 DEF U!Revert, U!Goto, U!CliPoints
  <2>2. CASE U!MoveIfAny("bak", "exe")
    <3>1. ~U!Exists("exe") /\ U!Exists("bak")
      BY <1>3, <1>4, <1>13 DEF U!Revert, U!Whole, U!Copy, U!Exists
    <3>2. /\ file'["exe"] = file["bak"] /\ file'["bak"] = 0
          /\ file'["update"] = file["update"]
          /\ file'["part"] = file["part"] /\ writer'["part"] = writer["part"]
          /\ writer'["exe"] = "none" /\ writer'["bak"] = "none"
          /\ writer'["update"] = "none"
      BY <1>2, <2>2, <3>1 DEF U!MoveIfAny, U!Move, FilesOK, U!Names
    <3>3. U!Whole(U!Copy)' /\ Offered' /\ U!Installed' >= U!Installed
      BY <1>3, <1>5, <3>1, <3>2 DEF U!Whole, U!Copy, Offered, U!Installed, U!Exists, U!Names
    <3> QED
      BY <1>1, <1>13, <3>2, <3>3, CliMoves DEF U!Revert, U!Goto, U!CliPoints, U!Names
  <2> QED
    BY <1>13, <2>1, <2>2 DEF U!Revert
<1> QED
  BY <1>7, <1>8, <1>9, <1>10, <1>11, <1>12, <1>13

LEMMA ProcessSound ==
  ASSUME Distinct, FilesOK, ControlOK, OrderInv,
         \/ U!Stop \/ U!Start \/ U!Publish
         \/ \E p \in Panels : U!ScriptStarts(p) \/ U!ScriptKilled(p)
  PROVE  Sound
<1>1. file' = file /\ writer' = writer /\ rel' = rel
  BY DEF U!Stop, U!Start, U!Publish, U!ScriptStarts, U!ScriptKilled, U!files
<1>2. U!Installed' = U!Installed /\ U!Copy' = U!Copy /\ U!Installed \in Nat
  BY <1>1 DEF U!Installed, U!Copy, U!Exists, FilesOK, U!Names, Distinct
<1>3. ASSUME /\ \A u \in U!Updates : pc'[u] = pc[u] \/ (u \in Panels /\ pc'[u] = "ended")
             /\ \A p \in Panels :
                  \/ script'[p] = script[p]
                  \/ U!Pending(p) /\ script'[p] \in {"done", "killed"}
                  \/ script[p] = "wait" /\ script'[p] = "fetch"
             /\ latest' >= latest /\ latest' \in Nat
      PROVE  Sound
  <2>1. /\ \A u \in U!Updates : U!Busy(u)' => U!Busy(u)
        /\ \A p \in Panels : U!Pending(p)' => U!Pending(p)
    <3>1. \A u \in U!Updates : U!Busy(u)' => U!Busy(u)
      BY <1>3 DEF U!Busy
    <3>2. \A p \in Panels : U!Pending(p)' => U!Pending(p)
      BY <1>3 DEF U!Pending
    <3> QED
      BY <3>1, <3>2
  <2>2. OneAtATime'
    BY <2>1 DEF OrderInv, OneAtATime, U!Updates
  <2>3. Downloading'
    BY <1>1, <1>3 DEF OrderInv, Downloading, U!Exists
  <2>4. Placing'
    BY <1>1, <1>2, <1>3 DEF OrderInv, Placing, U!Whole, U!Exists, U!Copy, U!Updates, Distinct
  <2>5. Current'
    <3>1. \A x \in U!Names : file[x] \in Nat
      BY DEF FilesOK, Distinct
    <3>2. \A x \in U!Names : file[x] <= latest'
      BY <1>3, <3>1 DEF OrderInv, Current, ControlOK, Distinct
    <3> QED
      BY <1>1, <2>1, <3>2 DEF OrderInv, Current
  <2>6. Offered'
    BY <1>1 DEF OrderInv, Offered, U!Exists
  <2>7. Scripts'
    BY <1>1, <1>2, <1>3 DEF OrderInv, Scripts, Fresh, U!Exists, U!Updates
  <2> QED
    BY <1>2, <2>2, <2>3, <2>4, <2>5, <2>6, <2>7 DEF Sound, OrderInv
<1>4. latest \in Nat
  BY DEF ControlOK, Distinct
<1>5. CASE U!Stop
  BY <1>3, <1>4, <1>5 DEF U!Stop, ControlOK
<1>6. CASE U!Start
  BY <1>3, <1>4, <1>6 DEF U!Start
<1>7. CASE U!Publish
  BY <1>3, <1>4, <1>7 DEF U!Publish
<1>8. ASSUME NEW p \in Panels, U!ScriptStarts(p) \/ U!ScriptKilled(p)
      PROVE  Sound
  <2>1. /\ U!Pending(p)
        /\ \E point \in {"done", "killed"} : script' = [script EXCEPT ![p] = point]
    BY <1>8 DEF U!ScriptStarts, U!ScriptKilled, U!ScriptGoto, U!Pending
  <2> QED
    BY <1>3, <1>4, <1>8, <2>1 DEF U!ScriptStarts, U!ScriptKilled, ControlOK
<1> QED
  BY <1>5, <1>6, <1>7, <1>8

\* Updates get in each other's way for good, and until then every step is sound.
LEMMA SoundStep ==
  ASSUME Distinct, U!TypeOK, ~crossed => OrderInv, [U!Next]_(U!vars), ~crossed'
  PROVE  ~crossed /\ Sound
<1> USE TypeParts
<1>1. ~crossed
  BY DEF U!vars, U!Next, U!PanelBegins, U!PanelStep, U!ScriptStep, U!CliBegins, U!CliStep, U!Create,
     U!DownloadEnds, U!DownloadFails, U!Schedule, U!ScheduleFails, U!Logged, U!RunScript,
     U!ScriptFetches, U!ScriptPlaces, U!ScriptStarts, U!ScriptKilled, U!Stat, U!Clear, U!Aside,
     U!Place, U!Revert, U!Discard, U!CliKilled, U!Stop, U!Start, U!Publish
<1>2. ASSUME NEW p \in Panels,
             U!PanelBegins(p) \/ U!PanelStep(p) \/ U!ScriptStep(p) \/ U!ScriptKilled(p)
      PROVE  Sound
  <2>1. p \in U!Updates /\ p \notin Clis
    BY DEF U!Updates, Distinct
  <2>2. CASE U!PanelBegins(p)
    BY <1>1, <2>1, <2>2, CreateSound DEF U!PanelBegins
  <2>3. CASE U!PanelStep(p)
    BY <1>1, <2>1, <2>3, DownloadSound, PanelSound DEF U!PanelStep
  <2>4. CASE U!ScriptStep(p) \/ U!ScriptKilled(p)
    BY <1>1, <2>4, ScriptSound, ProcessSound DEF U!ScriptStep
  <2> QED
    BY <1>2, <2>2, <2>3, <2>4
<1>3. ASSUME NEW c \in Clis, U!CliBegins(c) \/ U!CliStep(c) \/ U!CliKilled(c)
      PROVE  Sound
  <2>1. c \in U!Updates
    BY DEF U!Updates
  <2>2. CASE U!CliBegins(c)
    BY <1>1, <2>1, <2>2, CreateSound DEF U!CliBegins
  <2>3. CASE U!CliStep(c) \/ U!CliKilled(c)
    BY <1>1, <2>1, <2>3, DownloadSound, CliSound DEF U!CliStep
  <2> QED
    BY <1>3, <2>2, <2>3
<1>4. CASE U!Stop \/ U!Start \/ U!Publish
  BY <1>1, <1>4, ProcessSound
<1>5. CASE UNCHANGED U!vars
  BY <1>1, <1>5, NothingMoves DEF U!vars, U!files
<1> QED
  BY <1>1, <1>2, <1>3, <1>4, <1>5 DEF U!Next

-----------------------------------------------------------------------------
(* Theorems.                                                               *)

LEMMA InitUpdates == ASSUME Distinct, U!Init PROVE U!TypeOK /\ OrderInv
<1>1. U!TypeOK
  <2>1. 0 \in 0 .. MaxRelease /\ 1 \in 0 .. MaxRelease /\ 1 \in 1 .. MaxRelease
    BY DEF Distinct
  <2>2. FilesOK
    BY <2>1 DEF U!Init, FilesOK
  <2>3. ControlOK
    BY <2>1 DEF U!Init, ControlOK, U!PanelPoints, U!ScriptPoints
  <2> QED
    BY <2>2, <2>3, TypeParts
<1>2. OneAtATime /\ Downloading
  BY DEF U!Init, OneAtATime, Downloading, U!Busy, U!Pending, U!Names
<1>3. Placing /\ Current /\ Offered
  BY DEF U!Init, Placing, Current, Offered, U!Whole, U!Copy, U!Exists, U!Busy, U!Names, U!Updates,
     Distinct
<1>4. Scripts
  BY DEF U!Init, Scripts, Fresh, U!Exists, U!Names, U!Updates
<1> QED
  BY <1>1, <1>2, <1>3, <1>4 DEF OrderInv

LEMMA UpdatesInductive ==
  ASSUME Distinct
  PROVE  U!Init /\ [][U!Next]_(U!vars) => [](U!TypeOK /\ (~crossed => OrderInv))
<1>1. U!Init => U!TypeOK /\ (~crossed => OrderInv)
  BY InitUpdates
<1>2. /\ U!TypeOK /\ (~crossed => OrderInv)
      /\ [U!Next]_(U!vars)
      => (U!TypeOK /\ (~crossed => OrderInv))'
  BY UpdateTypes, SoundStep DEF Sound
<1> QED
  BY <1>1, <1>2, PTL

\* The variables keep their types.
THEOREM UpdaterTypes == ASSUME Distinct PROVE U!Spec => []U!TypeOK
BY UpdatesInductive, PTL DEF U!Spec

\* Updates that are not in each other's way (downloadAsset, apply and
\* scheduleRestart, with a failure or an end at any point) always leave a whole
\* executable under its name, or a whole copy while there is none.
THEOREM ExecutableSafe == ASSUME Distinct PROVE U!Spec => []U!ExecutableSurvives
<1>1. ~crossed /\ OrderInv => U!Whole(U!Copy)
  BY DEF OrderInv, Placing
<1>2. U!TypeOK /\ (~crossed => OrderInv) => U!ExecutableSurvives
  BY <1>1 DEF U!ExecutableSurvives
<1> QED
  BY <1>2, UpdatesInductive, PTL DEF U!Spec

\* None of their steps puts a release in place that is older than the one that is
\* installed, not even a script that waits while the panel downloads again.
THEOREM NeverDowngrades == ASSUME Distinct PROVE U!Spec => U!NeverOlder
<1>1. U!TypeOK /\ (~crossed => OrderInv) /\ [U!Next]_(U!vars)
      => [~crossed' => U!Installed' >= U!Installed]_(U!vars)
  BY SoundStep DEF Sound
<1> QED
  BY <1>1, UpdatesInductive, PTL DEF U!Spec, U!NeverOlder

-----------------------------------------------------------------------------
(* Every step of the node is one of the log and one of the updates.        *)

LEMMA LogPart == /\ UpkeepInit => Init
                 /\ [UpkeepNext]_allVars => [Next]_vars
<1>1. UpkeepInit => Init
  BY DEF UpkeepInit
<1>2. UpkeepNext => [Next]_vars
  BY DEF UpkeepNext, OtherLogs, PanelLogs, PanelLogDropped, LogGoesOn, LogReturns,
     NodeStops, NodeStarts, ScriptStarts, UpdateStep, ScriptMoves, ScriptStep, Next
<1>3. UNCHANGED allVars => UNCHANGED vars
  BY DEF allVars
<1> QED
  BY <1>1, <1>2, <1>3

LEMMA UpdatePart == [UpkeepNext]_allVars => [U!Next]_(U!vars)
<1>1. UpkeepNext => U!Next \/ UNCHANGED U!vars
  <2>1. (up' = up /\ UNCHANGED updaterVars) => UNCHANGED U!vars
    BY DEF updaterVars, U!vars, U!process, U!files
  <2>2. OtherLogs => UNCHANGED U!vars
    BY <2>1 DEF OtherLogs, Log, LogDropped
  <2>3. ASSUME NEW p \in Panels, PanelLogs(p) PROVE UNCHANGED U!vars
    BY <2>1, <2>3 DEF PanelLogs, Log
  <2>4. LogGoesOn => UNCHANGED U!vars
    BY <2>1 DEF LogGoesOn, LogSteps, Rename, RenameFails, Prune, Reopen, ReopenFails,
       Write, WriteFails
  <2>5. LogReturns => U!Next \/ UNCHANGED U!vars
    BY <2>1 DEF LogReturns, LogSteps, Rename, RenameFails, Prune, Reopen, ReopenFails,
       Write, WriteFails, U!Next, U!PanelStep
  <2> QED
    BY <2>2, <2>3, <2>4, <2>5 DEF UpkeepNext, PanelLogDropped, NodeStops, NodeStarts,
       ScriptStarts, UpdateStep, ScriptMoves, ScriptStep, U!Next, U!PanelStep, U!ScriptStep
<1>2. UNCHANGED allVars => UNCHANGED U!vars
  BY DEF allVars, vars, updaterVars, U!vars, U!process, U!files
<1> QED
  BY <1>1, <1>2

LEMMA UpdateSpec ==
  UpkeepSpec => U!Init /\ [][U!Next]_(U!vars)
<1>1. UpkeepInit => U!Init
  BY DEF UpkeepInit
<1>2. [UpkeepNext]_allVars => [U!Next]_(U!vars)
  BY UpdatePart
<1> QED
  BY <1>1, <1>2, PTL DEF UpkeepSpec

-----------------------------------------------------------------------------
(* What each keeps alone.                                                  *)

\* The rotations of the log keep their promise while updates stop and start the
\* process (Log, rotateLocked, OpenAudit).
THEOREM UpkeepKeepsTrail ==
  ASSUME ~ClockFaults
  PROVE  UpkeepSpec => TrailKept
<1>1. UpkeepInit => Init
  BY LogPart
<1>2. [UpkeepNext]_allVars => [Next]_vars
  BY LogPart
<1>3. UpkeepSpec => Spec
  BY <1>1, <1>2, PTL DEF UpkeepSpec, Spec
<1> QED
  BY <1>3, TrailRefined

\* In the node as well as alone, updates that are not in each other's way leave a
\* whole executable or its whole copy (downloadAsset, apply, scheduleRestart).
THEOREM UpkeepKeepsExecutable ==
  ASSUME Distinct
  PROVE  UpkeepSpec => []ExecutableSurvives
<1>1. U!TypeOK /\ (~crossed => OrderInv) => ExecutableSurvives
  BY DEF OrderInv, Placing, ExecutableSurvives, U!ExecutableSurvives,
     U!Whole, U!Copy, U!Exists
<1> QED
  BY <1>1, UpdateSpec, UpdatesInductive, PTL

\* Nor does any of their steps put an older release back.
THEOREM UpkeepNeverDowngrades ==
  ASSUME Distinct
  PROVE  UpkeepSpec => NeverOlder
<1> DEFINE Step == ~crossed' => (U!Installed)' >= U!Installed
<1>1. (U!TypeOK /\ (~crossed => OrderInv) /\ [U!Next]_(U!vars))
      => [Step]_(U!vars)
  BY SoundStep DEF Sound
<1>2. ([][Step]_(U!vars)) => NeverOlder
  BY PTL DEF NeverOlder, U!NeverOlder
<1> QED
  BY <1>1, <1>2, UpdateSpec, UpdatesInductive, PTL

-----------------------------------------------------------------------------
(* No script runs without its event.                                       *)

\* The log returns to who called it; an update has its event once it answers.
EntryInv ==
    /\ entry \in [Panels -> Nat]
    /\ at # "idle" /\ caller \in Panels => pc[caller] = "log"
    /\ \A p \in Panels :
         /\ pc[p] \in {"idle", "download", "schedule", "log"} =>
                entry[p] = 0 /\ script[p] = "none"
         /\ pc[p] = "answer" => Traced(p) /\ script[p] = "none"
         /\ script[p] # "none" => Traced(p)

LEMMA TracedStays ==
  ASSUME TypeOK, AgeInv, ~ClockFaults, [Next]_vars, NEW p \in Panels,
         entry[p] \in Nat, entry'[p] = entry[p], Traced(p)
  PROVE  Traced(p)'
<1> DEFINE kept == Keep * PerFile
<1>1. kept \in Nat
  BY SizeAssumption
<1>2. /\ last \in Nat /\ last' \in Nat
      /\ \/ last' = last /\ Kept' \subseteq Kept
                         /\ \A e \in Kept \ Kept' : e + kept <= last
         \/ last' = last + 1 /\ Kept' = Kept \cup {last + 1}
         \/ last' = last /\ Kept' = Kept
  BY TrailStep, TypeStep DEF Trail!Next, Trail!Append, Trail!Forget, TypeOK
<1>3. dropped => dropped'
  BY DEF Next, vars, Log, LogDropped, LogSteps, Rename, RenameFails, Prune, Reopen,
     ReopenFails, Write, WriteFails, Stop, Start
<1> HIDE DEF kept
<1>4. Traced(p) <=> \/ entry[p] > 0 /\ (entry[p] \in Kept \/ entry[p] + kept <= last)
                    \/ entry[p] = 0 /\ dropped
  BY DEF Traced, kept
<1>5. Traced(p)' <=> \/ entry'[p] > 0 /\ (entry'[p] \in Kept' \/ entry'[p] + kept <= last')
                     \/ entry'[p] = 0 /\ dropped'
  BY DEF Traced, kept
<1> QED
  BY <1>1, <1>2, <1>3, <1>4, <1>5

\* What the steps that write no event do to an update of the panel.
Quiet(p) ==
    \/ pc'[p] = pc[p] /\ (script[p] = "none" => script'[p] = "none")
    \/ /\ pc[p] \in {"idle", "download", "schedule"}
       /\ pc'[p] \in {"download", "schedule", "log"}
       /\ script'[p] = script[p]
    \/ /\ pc'[p] = "ended"
       /\ script'[p] # "none" => script[p] # "none" \/ pc[p] = "answer"

LEMMA QuietKeeps ==
  ASSUME TypeOK, AgeInv, ~ClockFaults, [Next]_vars, EntryInv, entry' = entry,
         \A p \in Panels : Quiet(p),
         at' # "idle" /\ caller' \in Panels => pc'[caller'] = "log"
  PROVE  EntryInv'
<1>1. ASSUME NEW p \in Panels, Traced(p)
      PROVE  Traced(p)'
  BY <1>1, TracedStays DEF EntryInv
<1>2. ASSUME NEW p \in Panels
      PROVE  /\ pc'[p] \in {"idle", "download", "schedule", "log"} =>
                    entry'[p] = 0 /\ script'[p] = "none"
             /\ pc'[p] = "answer" => Traced(p)' /\ script'[p] = "none"
             /\ script'[p] # "none" => Traced(p)'
  BY <1>1, <1>2 DEF EntryInv, Quiet
<1> QED
  BY <1>2 DEF EntryInv

\* The log has returned to the update c.
LEMMA ReturnKeeps ==
  ASSUME TypeOK, AgeInv, ~ClockFaults, [Next]_vars, EntryInv, NEW c \in Panels,
         U!Logged(c), U!TypeOK, at' = "idle",
         \A p \in Panels \ {c} : entry'[p] = entry[p],
         entry' \in [Panels -> Nat], Traced(c)'
  PROVE  EntryInv'
<1>1. /\ pc[c] = "log" /\ script' = script
      /\ pc' = [pc EXCEPT ![c] = "answer"]
  BY DEF U!Logged, U!Goto
<1>2. /\ pc'[c] = "answer"
      /\ \A p \in Panels \ {c} : pc'[p] = pc[p]
  BY <1>1 DEF U!TypeOK, U!Updates
<1>3. ASSUME NEW p \in Panels \ {c}, Traced(p)
      PROVE  Traced(p)'
  BY <1>3, TracedStays DEF EntryInv
<1>4. ASSUME NEW p \in Panels
      PROVE  /\ pc'[p] \in {"idle", "download", "schedule", "log"} =>
                    entry'[p] = 0 /\ script'[p] = "none"
             /\ pc'[p] = "answer" => Traced(p)' /\ script'[p] = "none"
             /\ script'[p] # "none" => Traced(p)'
  BY <1>1, <1>2, <1>3, <1>4 DEF EntryInv
<1> QED
  BY <1>4 DEF EntryInv

\* A step of the updates alone is quiet, and none of them moves on while the log
\* has its event.
LEMMA UpdateIsQuiet ==
  ASSUME Distinct, U!TypeOK, UpdateStep, NEW q \in Panels
  PROVE  Quiet(q) /\ (pc[q] = "log" => pc'[q] = "log")
<1>1. /\ pc \in [Panels \cup Clis -> U!PanelPoints \cup U!CliPoints]
      /\ script \in [Panels -> U!ScriptPoints]
  BY DEF U!TypeOK, U!Updates
<1>2. Panels \cap Clis = {}
  BY DEF Distinct
<1>3. ASSUME NEW p \in Panels, U!PanelBegins(p)
      PROVE  Quiet(q) /\ (pc[q] = "log" => pc'[q] = "log")
  BY <1>1, <1>3 DEF U!PanelBegins, U!Create, U!Goto, Quiet
<1>4. ASSUME NEW p \in Panels, U!DownloadEnds(p) \/ U!DownloadFails(p)
      PROVE  Quiet(q) /\ (pc[q] = "log" => pc'[q] = "log")
  <2>1. /\ pc[p] = "download" /\ script' = script
        /\ \E point \in {"schedule", "ended"} : pc' = [pc EXCEPT ![p] = point]
    BY <1>4 DEF U!DownloadEnds, U!DownloadFails, U!Goto
  <2> QED
    BY <1>1, <2>1 DEF Quiet
<1>5. ASSUME NEW p \in Panels,
             U!Schedule(p) \/ U!ScheduleFails(p) \/ U!RunScript(p) \/ U!ScriptKilled(p)
      PROVE  Quiet(q) /\ (pc[q] = "log" => pc'[q] = "log")
  BY <1>1, <1>5 DEF U!Schedule, U!ScheduleFails, U!RunScript, U!ScriptKilled, U!Goto,
     U!ScriptGoto, U!Pending, Quiet
<1>6. ASSUME NEW c \in Clis, U!CliBegins(c) \/ U!CliStep(c) \/ U!CliKilled(c)
      PROVE  Quiet(q) /\ (pc[q] = "log" => pc'[q] = "log")
  <2>1. script' = script /\ \E point : pc' = [pc EXCEPT ![c] = point]
    BY <1>6 DEF U!CliBegins, U!Create, U!CliStep, U!CliKilled, U!DownloadEnds,
       U!DownloadFails, U!Stat, U!Clear, U!Aside, U!Place, U!Revert, U!Discard, U!Goto
  <2> QED
    BY <1>1, <1>2, <2>1 DEF Quiet
<1>7. CASE U!Publish
  BY <1>7 DEF U!Publish, Quiet
<1> QED
  BY <1>3, <1>4, <1>5, <1>6, <1>7 DEF UpdateStep

LEMMA EntryStep ==
  ASSUME TypeOK, AgeInv, U!TypeOK, Distinct, ~ClockFaults, Others \notin Panels,
         EntryInv, [UpkeepNext]_allVars
  PROVE  EntryInv'
<1>1. [Next]_vars
  BY LogPart
<1>2. script \in [Panels -> U!ScriptPoints]
  BY DEF U!TypeOK
<1>3. CASE OtherLogs
  BY <1>1, <1>3, QuietKeeps DEF OtherLogs, updaterVars, Quiet
<1>4. ASSUME NEW p \in Panels, PanelLogs(p)
      PROVE  EntryInv'
  BY <1>1, <1>4, QuietKeeps DEF PanelLogs, updaterVars, Quiet
<1>5. ASSUME NEW p \in Panels, PanelLogDropped(p)
      PROVE  EntryInv'
  <2>1. entry' = entry /\ entry[p] = 0 /\ dropped' = TRUE /\ at' = "idle"
    BY <1>5 DEF PanelLogDropped, LogDropped, U!Logged, EntryInv
  <2>2. Traced(p)'
    BY <2>1 DEF Traced
  <2> QED
    BY <1>1, <1>5, <2>1, <2>2, ReturnKeeps DEF PanelLogDropped, EntryInv
<1>6. CASE LogGoesOn
  BY <1>1, <1>6, QuietKeeps DEF LogGoesOn, LogSteps, Rename, RenameFails, Prune, Reopen,
     ReopenFails, Write, WriteFails, updaterVars, Quiet, EntryInv
<1>7. CASE LogReturns /\ caller = Others
  BY <1>1, <1>7, QuietKeeps DEF LogReturns, updaterVars, Quiet
<1>8. ASSUME NEW c \in Panels, caller = c, LogReturns
      PROVE  EntryInv'
  <2>1. /\ U!Logged(c) /\ at' = "idle"
        /\ entry' = [entry EXCEPT ![c] = IF last' > last THEN last' ELSE 0]
    BY <1>8 DEF LogReturns
  <2>2. \/ last' = last + 1 /\ first' = first
        \/ last' = last /\ dropped' = TRUE
    BY <1>8 DEF LogReturns, LogSteps, Rename, RenameFails, Prune, Reopen, ReopenFails,
       Write, WriteFails
  <2>3. last \in Nat /\ first \in Nat /\ first <= last + 1
    BY DEF TypeOK, AgeInv
  <2>4. Traced(c)' /\ entry'[c] \in Nat
    <3>1. CASE last' = last + 1 /\ first' = first
      <4>1. entry'[c] = last + 1 /\ last + 1 \in Kept'
        BY <1>8, <2>1, <2>3, <3>1 DEF EntryInv, Kept
      <4> QED
        BY <2>3, <4>1 DEF Traced
    <3>2. CASE last' = last /\ dropped' = TRUE
      BY <1>8, <2>1, <2>3, <3>2 DEF EntryInv, Traced
    <3> QED
      BY <2>2, <3>1, <3>2
  <2>5. /\ entry' \in [Panels -> Nat]
        /\ \A p \in Panels \ {c} : entry'[p] = entry[p]
    BY <1>8, <2>1, <2>4 DEF EntryInv
  <2> QED
    BY <1>1, <1>8, <2>1, <2>4, <2>5, ReturnKeeps
<1>9. CASE NodeStops
  BY <1>1, <1>2, <1>9, QuietKeeps DEF NodeStops, Stop, U!Stop, U!Busy, Quiet, U!TypeOK,
     U!Updates, U!Updates
<1>10. CASE NodeStarts
  BY <1>1, <1>10, QuietKeeps DEF NodeStarts, Start, U!Start, Quiet, EntryInv
<1>11. ASSUME NEW p \in Panels, ScriptStep(p)
       PROVE  EntryInv'
  <2>1. /\ script[p] # "none" /\ pc' = pc
        /\ \E point : script' = [script EXCEPT ![p] = point]
    BY <1>11 DEF ScriptStep, ScriptMoves, ScriptStarts, U!ScriptStarts, U!ScriptFetches,
       U!ScriptPlaces, U!ScriptGoto
  <2>2. at' = at /\ caller' = caller /\ entry' = entry
    BY <1>11 DEF ScriptStep, ScriptMoves, ScriptStarts, Start, vars
  <2> QED
    BY <1>1, <1>2, <2>1, <2>2, QuietKeeps DEF Quiet, EntryInv
<1>12. CASE UpdateStep
  <2>1. at' = at /\ caller' = caller /\ entry' = entry
    BY <1>12 DEF UpdateStep, vars
  <2>2. \A p \in Panels : Quiet(p) /\ (pc[p] = "log" => pc'[p] = "log")
    BY <1>12, UpdateIsQuiet
  <2> QED
    BY <1>1, <2>1, <2>2, QuietKeeps DEF EntryInv
<1>13. CASE UNCHANGED allVars
  BY <1>1, <1>13, QuietKeeps DEF allVars, vars, updaterVars, Quiet, EntryInv
<1> QED
  BY <1>3, <1>4, <1>5, <1>6, <1>7, <1>8, <1>9, <1>10, <1>11, <1>12, <1>13
     DEF UpkeepNext, LogReturns

LEMMA InitEntry == ASSUME UpkeepInit PROVE EntryInv
BY DEF UpkeepInit, Init, U!Init, U!Updates, EntryInv

\* Whatever of the log fails and whenever the process ends, an update from the
\* panel never runs its script before its event is in the files, has been rotated
\* out by newer ones, or was dropped with the log's own failure (handleUpdateApply,
\* Log, rotateLocked).
THEOREM UpdatesAreTraced ==
  ASSUME Distinct, ~ClockFaults, Others \notin Panels
  PROVE  UpkeepSpec => []ScriptsAreLogged
<1> DEFINE Inv == TypeOK /\ AgeInv /\ U!TypeOK /\ EntryInv
<1>1. UpkeepInit => Inv
  <2>1. UpkeepInit => TypeOK
    BY LogPart, InitType
  <2>2. UpkeepInit => AgeInv
    BY LogPart DEF Init, AgeInv
  <2>3. UpkeepInit => U!TypeOK
    BY InitUpdates DEF UpkeepInit
  <2> QED
    BY <2>1, <2>2, <2>3, InitEntry
<1>2. Inv /\ [UpkeepNext]_allVars => Inv'
  <2> SUFFICES ASSUME Inv, [UpkeepNext]_allVars
               PROVE  Inv'
    OBVIOUS
  <2>1. TypeOK' /\ AgeInv'
    BY LogPart, TypeStep, AgeStep
  <2>2. U!TypeOK'
    BY UpdatePart, UpdateTypes
  <2>3. EntryInv'
    BY EntryStep
  <2> QED
    BY <2>1, <2>2, <2>3
<1>3. Inv => ScriptsAreLogged
  BY DEF EntryInv, ScriptsAreLogged
<1> QED
  BY <1>1, <1>2, <1>3, PTL DEF UpkeepSpec
=============================================================================
