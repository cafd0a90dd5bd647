------------------------- MODULE LoginLimiterProofs -------------------------
(***************************************************************************)
(* Theorems of LoginLimiter, for any number of nodes, keys and logins, and *)
(* any limits: the types, that the shared table never forgets, that it     *)
(* does not depend on the order in which the nodes save, and that no path  *)
(* an entry takes through it counts a failure twice or extends a lock. The *)
(* last two are inductive once stated of every copy of an entry, with the  *)
(* clock bounding the last failure.                                        *)
(***************************************************************************)
EXTENDS LoginLimiter, TLAPS

-----------------------------------------------------------------------------
(* The operators on entries.                                               *)

\* Newer orders the entries of a key: mergeLockStates keeps a maximum of the
\* two, so that merging again, or merging an older snapshot, changes nothing.
LEMMA MergeIsUpper ==
  ASSUME NEW s \in Entries, NEW t \in Entries, NEW k \in Keys
  PROVE  /\ Merged(s, t)[k] \in {s[k], t[k]}
         /\ ~Newer(s[k], Merged(s, t)[k])
         /\ ~Newer(t[k], Merged(s, t)[k])
BY DEF Merged, Newer, Entries, Entry

\* The order is total up to the time of the first failure, and transitive.
LEMMA NewerIsOrder ==
  ASSUME NEW e \in Entry, NEW f \in Entry, NEW g \in Entry
  PROVE  /\ Newer(e, f) => ~Newer(f, e)
         /\ Newer(e, f) /\ Newer(f, g) => Newer(e, g)
         /\ ~Newer(e, f) /\ ~Newer(f, e) => e.until = f.until /\ e.count = f.count
BY DEF Newer, Entry

\* Merging twice changes nothing: a repeated SaveLocks is harmless.
LEMMA MergeIsIdempotent ==
  ASSUME NEW s \in Entries, NEW t \in Entries
  PROVE  Merged(Merged(s, t), t) = Merged(s, t)
BY DEF Merged, Newer, Entries, Entry

\* Two tables hold the same locks: only the times of first failures may differ.
SameLocks(s, t) ==
    \A k \in Keys : s[k].until = t[k].until /\ s[k].count = t[k].count

\* The merge is the least table that is as new as both: nothing is locked longer
\* than one of the two says.
LEMMA MergeIsLeast ==
  ASSUME NEW s \in Entries, NEW t \in Entries, NEW u \in Entries, NEW k \in Keys,
         ~Newer(s[k], u[k]), ~Newer(t[k], u[k])
  PROVE  ~Newer(Merged(s, t)[k], u[k])
BY MergeIsUpper

\* It does not matter in which order the nodes' transactions are committed, nor how
\* often: two snapshots merged one after the other into the table leave the same
\* locks as the other way round, and one that comes again changes none
\* (mergeLockStates, SaveLocks).
THEOREM MergeOrderIsIrrelevant ==
  ASSUME NEW s \in Entries, NEW a \in Entries, NEW b \in Entries
  PROVE  /\ SameLocks(Merged(Merged(s, a), b), Merged(Merged(s, b), a))
         /\ SameLocks(Merged(Merged(Merged(s, a), b), a), Merged(Merged(s, a), b))
<1>1. ASSUME NEW k \in Keys
      PROVE  /\ Merged(s, a)[k] = IF Newer(s[k], a[k]) THEN s[k] ELSE a[k]
             /\ Merged(s, b)[k] = IF Newer(s[k], b[k]) THEN s[k] ELSE b[k]
             /\ Merged(Merged(s, a), b)[k] =
                  IF Newer(Merged(s, a)[k], b[k]) THEN Merged(s, a)[k] ELSE b[k]
             /\ Merged(Merged(s, b), a)[k] =
                  IF Newer(Merged(s, b)[k], a[k]) THEN Merged(s, b)[k] ELSE a[k]
             /\ Merged(Merged(Merged(s, a), b), a)[k] =
                  IF Newer(Merged(Merged(s, a), b)[k], a[k])
                  THEN Merged(Merged(s, a), b)[k] ELSE a[k]
  BY DEF Merged
<1>2. ASSUME NEW k \in Keys
      PROVE  s[k] \in Entry /\ a[k] \in Entry /\ b[k] \in Entry
  BY DEF Entries
<1> QED
  BY <1>1, <1>2 DEF SameLocks, Newer, Entry

\* The operators return maps of entries.
LEMMA OperatorTypes ==
  ASSUME NEW s \in Entries, NEW t \in Entries, now \in Nat
  PROVE  /\ Empty \in Entries
         /\ Live(s) \in Entries
         /\ Merged(s, t) \in Entries
         /\ Restored(s, t) \in Entries
         /\ \A k \in Keys : Failed(s[k]) \in Entry
<1>1. Empty \in Entries /\ Live(s) \in Entries
  BY DEF Empty, NoEntry, Live, Entries, Entry
<1>2. Merged(s, t) \in Entries
  BY DEF Merged, Entries
<1>3. Restored(s, t) \in Entries
  <2>1. Live(t) \in Entries
    BY DEF NoEntry, Live, Entries, Entry
  <2> QED
    BY <2>1 DEF Restored, Entries
<1>4. ASSUME NEW k \in Keys PROVE Failed(s[k]) \in Entry
  BY LimitsAssumption DEF Failed, Entries, Entry
<1> QED
  BY <1>1, <1>2, <1>3, <1>4

-----------------------------------------------------------------------------
(* Types.                                                                  *)

\* One entry of one node's limiter is replaced.
LEMMA SetEntryType ==
  ASSUME entries \in [Nodes -> Entries],
         NEW n \in Nodes, NEW k \in Keys, NEW v \in Entry
  PROVE  [entries EXCEPT ![n][k] = v] \in [Nodes -> Entries]
BY DEF Entries

\* Every step preserves the types.
LEMMA TypeStep ==
  ASSUME TypeOK, [Next]_vars
  PROVE  TypeOK'
<1> USE OperatorTypes
<1>1. ASSUME NEW a \in Logins, Login(a)
      PROVE  TypeOK'
  <2> DEFINE n == At[a]
  <2>1. /\ n \in Nodes
        /\ KeysOf[a][1] \in Keys /\ KeysOf[a][2] \in Keys
    BY LoginAssumption
  <2>2. \A k \in Keys :
          /\ entries[n][k] \in Entry
          /\ Failed(entries[n][k]) \in Entry
    BY <2>1, OperatorTypes DEF TypeOK, Entries
  <2>3. NoEntry \in Entry
    BY DEF NoEntry, Entry
  <2>4. ASSUME NEW k \in Keys, NEW next \in LoginPoints, Allowed(a, k, next)
        PROVE  TypeOK'
    <3>1. entries' \in [Nodes -> Entries]
      <4>1. CASE UNCHANGED entries
        BY <4>1 DEF TypeOK
      <4>2. CASE entries' = [entries EXCEPT ![n][k] =
                               IF Stale(entries[n][k]) THEN NoEntry
                               ELSE entries[n][k]]
        BY <2>1, <2>2, <2>3, <4>2, SetEntryType DEF TypeOK
      <4> QED
        BY <2>4, <4>1, <4>2 DEF Allowed
    <3>2. pc' \in [Logins -> LoginPoints]
      BY <2>4 DEF Allowed, Goto, TypeOK, LoginPoints
    <3>3. UNCHANGED <<now, syncVars, restarts, histVars>>
      BY <2>4 DEF Allowed
    <3> QED
      BY <3>1, <3>2, <3>3 DEF TypeOK, syncVars, histVars
  <2>5. ASSUME NEW k \in Keys, NEW next \in LoginPoints, Fail(a, k, next)
        PROVE  TypeOK'
    <3>1. entries' \in [Nodes -> Entries]
      BY <2>1, <2>2, <2>5, SetEntryType DEF TypeOK, Fail
    <3>2. pc' \in [Logins -> LoginPoints]
      BY <2>5 DEF Fail, Goto, TypeOK
    <3>3. fails' \in [Keys -> Nat] /\ lastFail' \in [Keys -> Nat]
      BY <2>5 DEF Fail, TypeOK
    <3>4. UNCHANGED <<now, syncVars, restarts>>
      BY <2>5 DEF Fail
    <3> QED
      BY <3>1, <3>2, <3>3, <3>4 DEF TypeOK, syncVars
  <2>6. ASSUME NEW k \in Keys, NEW next \in LoginPoints, Reset(a, k, next)
        PROVE  TypeOK'
    <3>1. entries' \in [Nodes -> Entries]
      BY <2>1, <2>3, <2>6, SetEntryType DEF TypeOK, Reset
    <3>2. pc' \in [Logins -> LoginPoints]
      BY <2>6 DEF Reset, Goto, TypeOK
    <3>3. UNCHANGED <<now, syncVars, restarts, histVars>>
      BY <2>6 DEF Reset
    <3> QED
      BY <3>1, <3>2, <3>3 DEF TypeOK, syncVars, histVars
  <2>7. CASE CheckIP(a)
    BY <2>1, <2>4, <2>7 DEF CheckIP, LoginPoints
  <2>8. CASE CheckUser(a)
    BY <2>1, <2>4, <2>8 DEF CheckUser, LoginPoints
  <2>9. CASE Verify(a)
    BY <2>9 DEF Verify, Goto, TypeOK, LoginPoints, syncVars, histVars
  <2>10. CASE FailIP(a)
    BY <2>1, <2>5, <2>10 DEF FailIP, LoginPoints
  <2>11. CASE FailUser(a)
    BY <2>1, <2>5, <2>11 DEF FailUser, LoginPoints
  <2>12. CASE ResetIP(a)
    BY <2>1, <2>6, <2>12 DEF ResetIP, LoginPoints
  <2>13. CASE ResetUser(a)
    BY <2>1, <2>6, <2>13 DEF ResetUser, LoginPoints
  <2> QED
    BY <1>1, <2>7, <2>8, <2>9, <2>10, <2>11, <2>12, <2>13 DEF Login
<1>2. ASSUME NEW n \in Nodes, Gc(n) \/ Sync(n) \/ Restart(n)
      PROVE  TypeOK'
  <2> USE DEF TypeOK, SyncPoints, LoginPoints, syncVars, histVars, Goto
  <2>1. CASE Gc(n)
    BY <2>1 DEF Gc
  <2>2. CASE Snapshot(n)
    BY <2>2 DEF Snapshot
  <2>3. CASE SaveLocks(n)
    BY <2>3 DEF SaveLocks
  <2>4. CASE SaveLocksFails(n)
    BY <2>4 DEF SaveLocksFails
  <2>5. CASE LoadLocks(n)
    BY <2>5 DEF LoadLocks
  <2>6. CASE LoadLocksFails(n)
    BY <2>6 DEF LoadLocksFails
  <2>7. CASE Restore(n)
    BY <2>7 DEF Restore
  <2>8. CASE Restart(n)
    <3>1. PICK found \in {Empty, table'} :
            entries' = [entries EXCEPT ![n] = Restored(Empty, found)]
      BY <2>8 DEF Restart
    <3>2. table' \in Entries
      <4>1. table \in Entries /\ Live(entries[n]) \in Entries /\ now \in Nat
        BY OperatorTypes
      <4>2. Merged(table, Live(entries[n])) \in Entries
        BY <4>1, OperatorTypes
      <4> QED
        BY <2>8, <4>1, <4>2 DEF Restart
    <3>3. entries' \in [Nodes -> Entries]
      BY <3>1, <3>2, OperatorTypes
    <3>4. pc' \in [Logins -> LoginPoints]
      BY <2>8 DEF Restart
    <3>5. copy' \in [Nodes -> Entries] /\ sync' \in [Nodes -> SyncPoints]
      BY <2>8, OperatorTypes DEF Restart
    <3>6. restarts' \in Nat /\ UNCHANGED <<now, histVars>>
      BY <2>8 DEF Restart
    <3> QED
      BY <3>2, <3>3, <3>4, <3>5, <3>6
  <2> HIDE DEF TypeOK, SyncPoints, LoginPoints, syncVars, histVars, Goto
  <2> QED
    BY <1>2, <2>1, <2>2, <2>3, <2>4, <2>5, <2>6, <2>7, <2>8 DEF Sync
<1>3. CASE Tick
  BY <1>3 DEF TypeOK, SyncPoints, LoginPoints, syncVars, histVars, Goto, Tick
<1>4. CASE UNCHANGED vars
  BY <1>4 DEF TypeOK, SyncPoints, LoginPoints, syncVars, histVars, Goto, vars
<1> QED
  BY <1>1, <1>2, <1>3, <1>4 DEF Next

\* Limiter, login handlers and limiterPersist keep the types of their state.
THEOREM TypeCorrect == Spec => []TypeOK
<1>1. Init => TypeOK
  BY DEF Init, TypeOK, LoginPoints, SyncPoints, Empty, NoEntry, Entries, Entry
<1> QED
  BY <1>1, TypeStep, PTL DEF Spec

-----------------------------------------------------------------------------
(* The shared table.                                                       *)

\* Only SaveLocks and an orderly stop write the table, and both merge: no step
\* makes a lock end earlier or lowers a count (mergeLockStates).
THEOREM TableNeverForgets == Spec => TableKeepsNewest
<1> DEFINE Keeps == \A k \in Keys :
                     /\ table'[k].until >= table[k].until
                     /\ table'[k].until = table[k].until
                          => table'[k].count >= table[k].count
<1>1. ASSUME TypeOK, [Next]_vars
      PROVE  Keeps
  <2>1. CASE UNCHANGED table
    BY <1>1, <2>1 DEF TypeOK, Entries, Entry
  <2>2. ASSUME NEW es \in Entries, table' = Merged(table, es)
        PROVE  Keeps
    <3>1. table \in Entries
      BY <1>1 DEF TypeOK
    <3>2. \A k \in Keys : table'[k] \in Entry /\ table[k] \in Entry
      BY <2>2, <3>1 DEF Merged, Entries
    <3>3. \A k \in Keys : ~Newer(table[k], table'[k])
      BY <2>2, <3>1, MergeIsUpper
    <3> QED
      BY <3>2, <3>3 DEF Newer, Entry
  <2>3. ASSUME NEW n \in Nodes, SaveLocks(n)
        PROVE  Keeps
    BY <1>1, <2>2, <2>3 DEF SaveLocks, TypeOK
  <2>4. ASSUME NEW n \in Nodes, Restart(n)
        PROVE  Keeps
    <3>1. Live(entries[n]) \in Entries
      BY <1>1, OperatorTypes DEF TypeOK
    <3> QED
      BY <2>1, <2>2, <2>4, <3>1 DEF Restart
  <2>5. ASSUME NEW a \in Logins, Login(a)
        PROVE  UNCHANGED table
    BY <2>5 DEF Login, CheckIP, CheckUser, Verify, FailIP, FailUser, ResetIP,
       ResetUser, Allowed, Fail, Reset, syncVars
  <2>6. ASSUME NEW n \in Nodes, Gc(n) \/ Sync(n)
        PROVE  UNCHANGED table \/ SaveLocks(n)
    BY <2>6 DEF Gc, Sync, Snapshot, SaveLocksFails, LoadLocks,
       LoadLocksFails, Restore, syncVars
  <2>7. CASE Tick \/ UNCHANGED vars
    BY <2>1, <2>7 DEF Tick, vars, syncVars
  <2> QED
    BY <1>1, <2>1, <2>3, <2>4, <2>5, <2>6, <2>7 DEF Next
<1>2. TypeOK /\ [Next]_vars => [Keeps]_vars
  BY <1>1
<1> QED
  BY <1>2, TypeCorrect, PTL DEF Spec, TableKeepsNewest

-----------------------------------------------------------------------------
(* What a copy of an entry may hold.                                       *)

\* The entries es count no failure that did not happen, and lock no key for
\* longer than its last failure justifies.
Bounded(es) ==
    \A k \in Keys :
      /\ es[k].count <= fails[k]
      /\ es[k].until > 0 => es[k].until <= lastFail[k] + Lockout

BoundedInv ==
    /\ \A k \in Keys : lastFail[k] <= now
    /\ \A n \in Nodes : Bounded(entries[n]) /\ Bounded(copy[n])
    /\ Bounded(table)

\* gc, the merge and Restore make no entries of their own.
LEMMA OperatorsBounded ==
  ASSUME TypeOK,
         NEW s \in Entries, NEW t \in Entries, Bounded(s), Bounded(t)
  PROVE  /\ Bounded(Empty)
         /\ Bounded(Live(s))
         /\ Bounded(Merged(s, t))
         /\ Bounded(Restored(s, t))
<1>1. Bounded(Empty)
  BY LimitsAssumption DEF Bounded, Empty, NoEntry, TypeOK
<1>2. Bounded(Live(s)) /\ Bounded(Live(t))
  BY LimitsAssumption DEF Bounded, Live, NoEntry, TypeOK
<1>3. Bounded(Merged(s, t))
  BY DEF Bounded, Merged
<1>4. Bounded(Restored(s, t))
  BY <1>2 DEF Bounded, Restored
<1> QED
  BY <1>1, <1>2, <1>3, <1>4

\* A failure raises the bounds, and the entry it makes respects the new ones.
LEMMA FailBounded ==
  ASSUME TypeOK, BoundedInv,
         NEW a \in Logins, NEW k \in Keys, NEW next, Fail(a, k, next)
  PROVE  BoundedInv'
<1> DEFINE n == At[a]
<1>1. n \in Nodes
  BY LoginAssumption
<1>2. /\ fails' = [fails EXCEPT ![k] = @ + 1]
      /\ lastFail' = [lastFail EXCEPT ![k] = now]
      /\ now' = now /\ copy' = copy /\ table' = table
      /\ entries' = [entries EXCEPT ![n][k] = Failed(@)]
  BY DEF Fail, syncVars
<1>3. /\ \A j \in Keys : fails[j] \in Nat /\ lastFail[j] \in Nat
      /\ now \in Nat
      /\ \A m \in Nodes, j \in Keys :
           entries[m][j] \in Entry /\ copy[m][j] \in Entry
      /\ \A j \in Keys : table[j] \in Entry
  BY DEF TypeOK, Entries
<1>4. \A j \in Keys : /\ fails'[j] \in Nat /\ fails[j] <= fails'[j]
                      /\ lastFail'[j] \in Nat /\ lastFail[j] <= lastFail'[j]
                      /\ lastFail'[j] <= now'
  BY <1>2, <1>3 DEF BoundedInv, TypeOK
<1>5. ASSUME NEW es, Bounded(es), \A j \in Keys : es[j] \in Entry
      PROVE  \A j \in Keys :
               /\ es[j].count <= fails'[j]
               /\ es[j].until > 0 => es[j].until <= lastFail'[j] + Lockout
  BY <1>3, <1>4, <1>5, LimitsAssumption DEF Bounded, Entry
<1>6. /\ Failed(entries[n][k]).count <= fails'[k]
      /\ Failed(entries[n][k]).until > 0
           => Failed(entries[n][k]).until <= lastFail'[k] + Lockout
  <2>1. fails'[k] = fails[k] + 1 /\ lastFail'[k] = now
    BY <1>2 DEF TypeOK
  <2>2. /\ entries[n][k].count <= fails[k]
        /\ entries[n][k].until > 0
             => entries[n][k].until <= lastFail[k] + Lockout
        /\ lastFail[k] <= now
    BY <1>1 DEF BoundedInv, Bounded
  <2>3. entries[n][k] \in Entry
    BY <1>1, <1>3
  <2> QED
    BY <1>3, <2>1, <2>2, <2>3, LimitsAssumption DEF Failed, Entry
<1>7. \A m \in Nodes, j \in Keys :
        entries'[m][j] = IF m = n /\ j = k THEN Failed(entries[n][k])
                         ELSE entries[m][j]
  BY <1>1, <1>2 DEF TypeOK, Entries
<1>8. ASSUME NEW m \in Nodes PROVE Bounded(entries[m])'
  <2>1. \A j \in Keys :
          /\ entries[m][j].count <= fails'[j]
          /\ entries[m][j].until > 0
               => entries[m][j].until <= lastFail'[j] + Lockout
    BY <1>3, <1>5 DEF BoundedInv
  <2> QED
    BY <1>6, <1>7, <2>1 DEF Bounded
<1>9. ASSUME NEW m \in Nodes PROVE Bounded(copy[m])'
  BY <1>2, <1>3, <1>5 DEF BoundedInv, Bounded
<1>10. Bounded(table)'
  BY <1>2, <1>3, <1>5 DEF BoundedInv, Bounded
<1> QED
  BY <1>4, <1>8, <1>9, <1>10 DEF BoundedInv

\* Every step preserves the bounds of every copy.
LEMMA BoundedStep ==
  ASSUME TypeOK, BoundedInv, [Next]_vars
  PROVE  BoundedInv'
<1>1. ASSUME UNCHANGED histVars, now' \in Nat, now <= now',
             \A n \in Nodes : Bounded(entries'[n]) /\ Bounded(copy'[n]),
             Bounded(table')
      PROVE  BoundedInv'
  <2>1. \A k \in Keys : lastFail'[k] <= now'
    BY <1>1 DEF BoundedInv, histVars, TypeOK
  <2> QED
    BY <1>1, <2>1 DEF BoundedInv, Bounded, histVars
<1>2. /\ table \in Entries
      /\ \A n \in Nodes : entries[n] \in Entries /\ copy[n] \in Entries
      /\ now \in Nat
  BY DEF TypeOK
<1>3. /\ Bounded(table) /\ Bounded(Empty)
      /\ \A n \in Nodes : Bounded(entries[n]) /\ Bounded(copy[n])
  BY <1>2, OperatorsBounded DEF BoundedInv
<1>4. ASSUME NEW a \in Logins, Login(a)
      PROVE  BoundedInv'
  <2>1. At[a] \in Nodes /\ KeysOf[a][1] \in Keys /\ KeysOf[a][2] \in Keys
    BY LoginAssumption
  <2>2. ASSUME NEW k \in Keys, NEW e \in {entries[At[a]][k], NoEntry},
               entries' = [entries EXCEPT ![At[a]][k] = e],
               UNCHANGED <<now, syncVars, histVars>>
        PROVE  BoundedInv'
    <3>1. \A m \in Nodes, j \in Keys :
            entries'[m][j] \in {entries[m][j], NoEntry}
      BY <1>2, <2>1, <2>2 DEF TypeOK, Entries
    <3>2. \A m \in Nodes : Bounded(entries'[m])
      BY <1>3, <3>1 DEF Bounded, Empty
    <3> QED
      BY <1>1, <1>2, <1>3, <2>2, <3>2 DEF syncVars
  <2>3. ASSUME UNCHANGED <<now, entries, syncVars, histVars>>
        PROVE  BoundedInv'
    BY <1>1, <1>2, <1>3, <2>3 DEF syncVars
  <2>4. ASSUME NEW k \in Keys, NEW next, Allowed(a, k, next)
        PROVE  BoundedInv'
    BY <2>2, <2>3, <2>4 DEF Allowed
  <2>5. ASSUME NEW k \in Keys, NEW next, Reset(a, k, next)
        PROVE  BoundedInv'
    BY <2>2, <2>5 DEF Reset
  <2>6. CASE CheckIP(a) \/ CheckUser(a)
    BY <2>1, <2>4, <2>6 DEF CheckIP, CheckUser
  <2>7. CASE Verify(a)
    BY <2>3, <2>7 DEF Verify
  <2>8. CASE FailIP(a) \/ FailUser(a)
    BY <2>1, <2>8, FailBounded DEF FailIP, FailUser
  <2>9. CASE ResetIP(a) \/ ResetUser(a)
    BY <2>1, <2>5, <2>9 DEF ResetIP, ResetUser
  <2> QED
    BY <1>4, <2>6, <2>7, <2>8, <2>9 DEF Login
<1>5. ASSUME NEW n \in Nodes, Gc(n) \/ Sync(n)
      PROVE  BoundedInv'
  <2>1. Bounded(Live(entries[n])) /\ Bounded(Merged(table, copy[n]))
        /\ Bounded(Restored(entries[n], copy[n]))
    BY <1>2, <1>3, OperatorsBounded
  <2>2. ASSUME NEW es, Bounded(es), entries' = [entries EXCEPT ![n] = es]
        PROVE  \A m \in Nodes : Bounded(entries'[m])
    BY <1>3, <2>2 DEF TypeOK
  <2>3. ASSUME NEW es, Bounded(es), copy' = [copy EXCEPT ![n] = es]
        PROVE  \A m \in Nodes : Bounded(copy'[m])
    BY <1>3, <2>3 DEF TypeOK
  <2>4. CASE Gc(n)
    BY <1>1, <1>2, <1>3, <2>1, <2>2, <2>4 DEF Gc, syncVars
  <2>5. CASE Snapshot(n)
    BY <1>1, <1>2, <1>3, <2>1, <2>3, <2>5 DEF Snapshot
  <2>6. CASE SaveLocks(n)
    BY <1>1, <1>2, <1>3, <2>1, <2>3, <2>6 DEF SaveLocks
  <2>7. CASE SaveLocksFails(n)
    BY <1>1, <1>2, <1>3, <2>3, <2>7 DEF SaveLocksFails
  <2>8. CASE LoadLocks(n)
    BY <1>1, <1>2, <1>3, <2>3, <2>8 DEF LoadLocks
  <2>9. CASE LoadLocksFails(n)
    BY <1>1, <1>2, <1>3, <2>9 DEF LoadLocksFails
  <2>10. CASE Restore(n)
    BY <1>1, <1>2, <1>3, <2>1, <2>2, <2>3, <2>10 DEF Restore
  <2> QED
    BY <1>5, <2>4, <2>5, <2>6, <2>7, <2>8, <2>9, <2>10 DEF Sync
<1>6. ASSUME NEW n \in Nodes, Restart(n)
      PROVE  BoundedInv'
  <2>1. Live(entries[n]) \in Entries /\ Bounded(Live(entries[n]))
    BY <1>2, <1>3, OperatorsBounded, OperatorTypes
  <2>2. table' \in Entries /\ Bounded(table')
    BY <1>2, <1>3, <1>6, <2>1, OperatorsBounded, OperatorTypes DEF Restart
  <2>3. PICK found \in {Empty, table'} :
          entries' = [entries EXCEPT ![n] = Restored(Empty, found)]
    BY <1>6 DEF Restart
  <2>4. Bounded(Restored(Empty, found))
    BY <1>2, <1>3, <2>2, <2>3, OperatorsBounded, OperatorTypes
  <2>5. \A m \in Nodes : Bounded(entries'[m])
    BY <1>3, <2>3, <2>4 DEF TypeOK
  <2>6. \A m \in Nodes : Bounded(copy'[m])
    BY <1>3, <1>6 DEF Restart, TypeOK
  <2> QED
    BY <1>1, <1>2, <1>6, <2>2, <2>5, <2>6 DEF Restart
<1>7. CASE Tick
  BY <1>1, <1>2, <1>3, <1>7 DEF Tick, syncVars
<1>8. CASE UNCHANGED vars
  BY <1>1, <1>2, <1>3, <1>8 DEF vars, syncVars
<1> QED
  BY <1>4, <1>5, <1>6, <1>7, <1>8 DEF Next

\* The two bounds hold of the initial, empty, limiters.
LEMMA BoundedInit == Init => TypeOK /\ BoundedInv
<1> SUFFICES ASSUME Init PROVE TypeOK /\ BoundedInv
  OBVIOUS
<1>1. TypeOK
  BY DEF Init, TypeOK, LoginPoints, SyncPoints, Empty, NoEntry, Entries,
     Entry
<1>2. Bounded(Empty)
  BY LimitsAssumption DEF Init, Bounded, Empty, NoEntry
<1> QED
  BY <1>1, <1>2 DEF Init, BoundedInv

\* No failed login is counted twice in any copy of an entry, whatever the
\* merges, restorations and restarts (Fail, Restore, mergeLockStates).
THEOREM NoDoubleCounting == Spec => []NoFailureCountedTwice
<1>1. TypeOK /\ BoundedInv /\ [Next]_vars => TypeOK' /\ BoundedInv'
  BY TypeStep, BoundedStep
<1>2. TypeOK /\ BoundedInv => NoFailureCountedTwice
  BY DEF BoundedInv, Bounded, NoFailureCountedTwice, Copies
<1> QED
  BY BoundedInit, <1>1, <1>2, PTL DEF Spec

\* No lock outlasts its key's last failure by more than the lockout.
THEOREM LocksAreBounded == Spec => []LockBounded
<1>1. TypeOK /\ BoundedInv /\ [Next]_vars => TypeOK' /\ BoundedInv'
  BY TypeStep, BoundedStep
<1>2. TypeOK /\ BoundedInv => LockBounded
  BY DEF BoundedInv, Bounded, LockBounded, Copies
<1> QED
  BY BoundedInit, <1>1, <1>2, PTL DEF Spec
=============================================================================
