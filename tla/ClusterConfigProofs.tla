------------------------ MODULE ClusterConfigProofs ------------------------
(***************************************************************************)
(* Theorems of ClusterConfig, for any number of nodes, changes, polls and  *)
(* faults:                                                                 *)
(*   TypeCorrect        the types;                                         *)
(*   FileTracking       the local file follows the memory;                 *)
(*   DegradedIsolation  what is changed at a node that started without the *)
(*                      cluster never reaches it;                          *)
(*   DetachedFileSafe   such a node's file never loses a change;           *)
(*   CalmSurvival       no change is lost unless another is under way;     *)
(*   CalmImplementsRegister  until then the row is an atomic register;     *)
(*   NoUncommittedReads what was not committed stays at its node;          *)
(*   AnsweredIsWritten  what a node that is alone answers is in its file;  *)
(*   OneFileWriter      the file has one writer at a time.                 *)
(*                                                                         *)
(* Each is an inductive invariant: conjunctions of the named parts below,  *)
(* with one lemma per part that takes the step's actions one at a time.    *)
(***************************************************************************)
EXTENDS ClusterConfig, TLAPS

-----------------------------------------------------------------------------
(* The parts of the inductive invariants.                                  *)

\* What the node's phase says of its backend, and that nothing runs at a node
\* that is not up, nor a reloading goroutine at one that is not a member.
PhaseInv ==
    /\ \A n \in Nodes :
         /\ phase[n] \in {"down", "starting"} => backend[n] # "open"
         /\ phase[n] \in {"attaching", "loaded"} => backend[n] = "open"
    /\ \A e \in Edits :
         ~Up(Home[e]) => buf[e] = {} /\ pc[e] \in {"idle", "done", "failed"}
    /\ \A l \in Loaders : ~Attached(l[1]) => rpc[l] = "idle"

\* A change not yet made is nowhere.
FreshInv ==
    \A e \in Edits :
      pc[e] = "idle" =>
        /\ e \notin published \cup degraded
        /\ \A n \in Nodes : e \notin mem[n] \cup file[n]
        /\ \A f \in Edits : e \notin buf[f]
        /\ \A l \in Loaders : e \notin rcfg[l]

\* The row holds published changes only.
RowInv == dbCfg \subseteq published

\* No change made at a detached node is where a member's Save could take it.
CleanInv ==
    /\ degraded \cap published = {}
    /\ \A n \in Nodes : Attached(n) => mem[n] \cap degraded = {}
    /\ \A e \in Edits : Attached(Home[e]) => buf[e] \cap degraded = {}
    /\ \A l \in Loaders : rcfg[l] \cap degraded = {}

\* One writer of the file at a time.
WriterInv ==
    /\ \A e, f \in Edits :
         pc[e] = "write" /\ pc[f] = "write" /\ Home[e] = Home[f] => e = f
    /\ \A k, l \in Loaders :
         rpc[k] = "write" /\ rpc[l] = "write" /\ k[1] = l[1] => k = l
    /\ \A e \in Edits, l \in Loaders :
         ~(pc[e] = "write" /\ rpc[l] = "write" /\ Home[e] = l[1])

\* A change in memory that no copy under saveMu has picked up yet.
CopyPending(n) ==
    \/ \E e \in Edits : Home[e] = n /\ pc[e] = "local"
    \/ \E l \in Loaders : l[1] = n /\ rpc[l] = "persist"

\* What is about to be written is the memory, unless another copy will follow.
CopyInv ==
    /\ \A e \in Edits :
         pc[e] = "write" /\ ~CopyPending(Home[e]) => buf[e] = mem[Home[e]]
    /\ \A l \in Loaders :
         rpc[l] = "write" /\ ~CopyPending(l[1]) => rcfg[l] = mem[l[1]]

\* The part of TypeOK that the file's invariants rest on.
LocalTypes ==
    /\ phase \in
         [Nodes -> {"down", "starting", "attaching", "loaded", "up"}]
    /\ backend \in [Nodes -> {"nil", "open", "closed"}]
    /\ mem \in [Nodes -> Config] /\ file \in [Nodes -> Config]
    /\ pc \in [Edits -> ReqPoints] /\ buf \in [Edits -> Config]
    /\ rpc \in [Loaders -> LoadPoints] /\ rcfg \in [Loaders -> Config]

\* At a node that is not attached the memory only grows: the file holds part of
\* it, and the copy about to be written lies between the two.
DetachedInv ==
    ~DiskFaults =>
      /\ \A n \in Nodes :
           /\ phase[n] # "down"
           /\ Up(n) => backend[n] # "open"
           => file[n] \subseteq mem[n]
      /\ \A e \in Edits :
           pc[e] = "write" /\ backend[Home[e]] # "open"
             => file[Home[e]] \subseteq buf[e] /\ buf[e] \subseteq mem[Home[e]]

\* The step formula of DetachedFileKeepsChanges.
DetachedNext ==
    ~DiskFaults =>
      \A n \in Nodes : backend[n] # "open" => file[n] \subseteq file'[n]

\* The request is not over.
Active(e) == pc[e] \notin {"idle", "done", "failed"}

\* Nothing is on its way to the memory of the member, and the poll finds nothing.
Undisturbed(n) ==
    /\ Attached(n) /\ notified[n] = 0 /\ lastVer[n] = dbVer
    /\ rpc[<<n, "watch">>] = "idle"
    /\ \/ rpc[<<n, "poll">>] = "idle"
       \/ rpc[<<n, "poll">>] = "compare" /\ rver[<<n, "poll">>] = dbVer

\* While every change is made at a member at rest, one request is under way; ...
OneRequest == \A e, f \in Edits : Active(e) /\ Active(f) => e = f

\* ... until it has committed its member holds the row and the change; ...
Steady ==
    \A e \in Edits :
      pc[e] \in {"local", "write", "push", "commit"} =>
        /\ Undisturbed(Home[e])
        /\ mem[Home[e]] = dbCfg \cup {e}
        /\ pc[e] = "commit" => buf[e] = mem[Home[e]]

\* ... and then the row has it.
Landed ==
    \A e \in Edits :
      pc[e] \in {"version", "get", "build", "done"} => e \in dbCfg

CalmInv == hurried = {} => OneRequest /\ Steady /\ Landed

\* The invariants the theorems are drawn from.
DegradedIInv == TypeOK /\ PhaseInv /\ FreshInv /\ RowInv /\ CleanInv
FileIInv ==
    TypeOK /\ PhaseInv /\ WriterInv /\ CopyInv /\ FileTracksMemory
DetachedIInv == TypeOK /\ PhaseInv /\ WriterInv /\ DetachedInv

-----------------------------------------------------------------------------
(* Types.                                                                  *)

\* What breaking LISTEN connections leaves of the channel variables.
LEMMA LoseListenType ==
  ASSUME TypeOK, NEW S \in SUBSET Nodes, LoseListen(S)
  PROVE  listening' \in [Nodes -> BOOLEAN] /\ notified' \in [Nodes -> Nat]
BY DEF TypeOK, LoseListen

\* Every step of the cluster preserves the types.
LEMMA TypeStep ==
  ASSUME TypeOK, [Next]_vars
  PROVE  TypeOK'
<1> USE HomeAssumption
<1>1. ASSUME NEW e \in Edits,
             Apply(e) \/ Request(e) \/ CommitLost(e)
      PROVE  TypeOK'
  <2> USE DEF TypeOK, Config, ReqPoints, LoadPoints, Goto, LoaderGoto,
        Loaders, Reloaders, dbVars, chanVars, startVars, storeVars, histVars,
        reqVars, loadVars, budgetVars
  <2>1. CASE Apply(e)
    BY <2>1 DEF Apply
  <2>2. CASE SaveCopy(e)
    BY <2>2 DEF SaveCopy
  <2>3. CASE SaveWrite(e)
    BY <2>3 DEF SaveWrite
  <2>4. CASE SaveWriteFails(e)
    BY <2>4 DEF SaveWriteFails
  <2>5. CASE PushCopy(e)
    BY <2>5 DEF PushCopy
  <2>6. CASE Commit(e)
    BY <2>6 DEF Commit, CommitRow
  <2>7. CASE CommitFails(e)
    BY <2>7 DEF CommitFails
  <2>8. CASE CommitLost(e)
    <3>1. LoseListen(Nodes)
      BY <2>8 DEF CommitLost
    <3>2. listening' \in [Nodes -> BOOLEAN] /\ notified' \in [Nodes -> Nat]
      BY <3>1, LoseListenType
    <3>3. /\ outages' \in Nat
          /\ dbCfg' \in Config /\ dbVer' \in Nat /\ published' \in Config
      BY <2>8 DEF CommitLost, CommitRow
    <3>6. dbUp' \in BOOLEAN
      BY <2>8 DEF CommitLost
    <3>4. /\ backendOK' \in [Nodes -> BOOLEAN]
          /\ pc' \in [Edits -> ReqPoints] /\ buf' \in [Edits -> Config]
      BY <2>8 DEF CommitLost
    <3>5. UNCHANGED <<startVars, mem, file, lastVer, engine, histVars,
                      loadVars, drops, crashes>>
      BY <2>8 DEF CommitLost
    <3> QED
      BY <3>2, <3>3, <3>4, <3>5, <3>6
  <2>9. CASE SaveVersion(e)
    BY <2>9 DEF SaveVersion, VersionRead
  <2>10. CASE RebuildGet(e)
    BY <2>10 DEF RebuildGet
  <2>11. CASE Rebuild(e)
    BY <2>11 DEF Rebuild
  <2> HIDE DEF TypeOK, Config, ReqPoints, LoadPoints, Goto, LoaderGoto,
        Loaders, Reloaders, dbVars, chanVars, startVars, storeVars, histVars,
        reqVars, loadVars, budgetVars
  <2> QED
    BY <1>1, <2>1, <2>2, <2>3, <2>4, <2>5, <2>6, <2>7, <2>8, <2>9, <2>10,
       <2>11 DEF Request
<1>2. ASSUME NEW l \in Loaders,
             Reload(l)
      PROVE  TypeOK'
  <2> USE DEF TypeOK, Config, ReqPoints, LoadPoints, Goto, LoaderGoto,
        Loaders, Reloaders, dbVars, chanVars, startVars, storeVars, histVars,
        reqVars, loadVars, budgetVars
  <2>1. CASE ReloadLoad(l)
    BY <2>1 DEF ReloadLoad
  <2>2. CASE ReloadLoadFails(l)
    BY <2>2 DEF ReloadLoadFails
  <2>3. CASE ReloadSwap(l)
    BY <2>3 DEF ReloadSwap
  <2>4. CASE ReloadCopy(l)
    BY <2>4 DEF ReloadCopy
  <2>5. CASE ReloadWrite(l)
    BY <2>5 DEF ReloadWrite
  <2>6. CASE ReloadWriteFails(l)
    BY <2>6 DEF ReloadWriteFails
  <2>7. CASE ReloadVersion(l)
    BY <2>7 DEF ReloadVersion, VersionRead
  <2>8. CASE ReloadNote(l)
    BY <2>8 DEF ReloadNote
  <2>9. CASE ReloadGet(l)
    BY <2>9 DEF ReloadGet
  <2>10. CASE ReloadBuild(l)
    BY <2>10 DEF ReloadBuild
  <2> HIDE DEF TypeOK, Config, ReqPoints, LoadPoints, Goto, LoaderGoto,
        Loaders, Reloaders, dbVars, chanVars, startVars, storeVars, histVars,
        reqVars, loadVars, budgetVars
  <2> QED
    BY <1>2, <2>1, <2>2, <2>3, <2>4, <2>5, <2>6, <2>7, <2>8, <2>9, <2>10 DEF
       Reload
<1>3. ASSUME NEW n \in Nodes,
             Notified(n) \/ Poll(n) \/ Listen(n) \/ ListenLost(n)
               \/ Crash(n) \/ Boot(n)
      PROVE  TypeOK'
  <2> USE DEF TypeOK, Config, ReqPoints, LoadPoints, Goto, LoaderGoto,
        Loaders, Reloaders, dbVars, chanVars, startVars, storeVars, histVars,
        reqVars, loadVars, budgetVars
  <2>1. CASE Notified(n)
    BY <2>1 DEF Notified
  <2>2. CASE PollVersion(n)
    BY <2>2 DEF PollVersion
  <2>3. CASE PollVersionFails(n)
    BY <2>3 DEF PollVersionFails
  <2>4. CASE PollCompare(n)
    BY <2>4 DEF PollCompare
  <2>5. CASE Listen(n)
    BY <2>5 DEF Listen
  <2>6. CASE ListenLost(n)
    BY LoseListenType, <2>6 DEF ListenLost
  <2>7. CASE Crash(n)
    BY LoseListenType, <2>7 DEF Crash
  <2>8. CASE Start(n)
    BY <2>8 DEF Start
  <2>9. CASE ConnectFails(n)
    BY <2>9 DEF ConnectFails, AttachFailed
  <2>10. CASE Connect(n)
    BY <2>10 DEF Connect
  <2>11. CASE AttachLoadFails(n)
    BY <2>11 DEF AttachLoadFails, AttachFailed
  <2>12. CASE AttachLoad(n)
    BY <2>12 DEF AttachLoad
  <2>13. CASE AttachSwap(n)
    <3>1. <<n, "watch">> \in Loaders /\ rcfg[<<n, "watch">>] \in SUBSET Edits
      OBVIOUS
    <3>2. tries' \in [Nodes -> Nat]
      <4>1. tries' = [tries EXCEPT ![n] = @ + 1] \/ tries' = tries
        BY <2>13 DEF AttachSwap, AttachFailed
      <4> QED
        BY <4>1
    <3>4. phase' \in
            [Nodes -> {"down", "starting", "attaching", "loaded", "up"}]
      <4>1. \E p \in {"starting", "up"} : phase' = [phase EXCEPT ![n] = p]
        BY <2>13 DEF AttachSwap, AttachFailed
      <4> QED
        BY <4>1
    <3>5. backend' \in [Nodes -> {"nil", "open", "closed"}]
      BY <2>13 DEF AttachSwap
    <3>3. file' \in [Nodes -> SUBSET Edits]
      BY <2>13, <3>1 DEF AttachSwap
    <3> QED
      BY <2>13, <3>1, <3>2, <3>3, <3>4, <3>5
      DEF AttachSwap, VersionRead
  <2> HIDE DEF TypeOK, Config, ReqPoints, LoadPoints, Goto, LoaderGoto,
        Loaders, Reloaders, dbVars, chanVars, startVars, storeVars, histVars,
        reqVars, loadVars, budgetVars
  <2> QED
    BY <1>3, <2>1, <2>2, <2>3, <2>4, <2>5, <2>6, <2>7, <2>8, <2>9, <2>10,
       <2>11, <2>12, <2>13 DEF Poll, Boot
<1>4. CASE DbDown
  <2> USE DEF TypeOK, Config, ReqPoints, LoadPoints, Goto, LoaderGoto,
        Loaders, Reloaders, dbVars, chanVars, startVars, storeVars, histVars,
        reqVars, loadVars, budgetVars
  <2>1. LoseListen(Nodes)
    BY <1>4 DEF DbDown
  <2>2. listening' \in [Nodes -> BOOLEAN] /\ notified' \in [Nodes -> Nat]
    BY <2>1, LoseListenType
  <2>3. outages' \in Nat
    BY <1>4 DEF DbDown
  <2>5. dbUp' \in BOOLEAN
    BY <1>4 DEF DbDown
  <2>4. UNCHANGED <<dbCfg, dbVer, published, startVars, storeVars, engine,
                    reqVars, loadVars, drops, crashes>>
    BY <1>4 DEF DbDown
  <2> QED
    BY <2>2, <2>3, <2>4, <2>5
<1>5. CASE DbBack
  BY <1>5 DEF TypeOK, Config, ReqPoints, LoadPoints, Goto, LoaderGoto,
     Loaders, Reloaders, dbVars, chanVars, startVars, storeVars, histVars,
     reqVars, loadVars, budgetVars, DbBack
<1>6. CASE UNCHANGED vars
  BY <1>6 DEF TypeOK, Config, ReqPoints, LoadPoints, Goto, LoaderGoto,
     Loaders, Reloaders, dbVars, chanVars, startVars, storeVars, histVars,
     reqVars, loadVars, budgetVars, vars
<1> QED
  BY <1>1, <1>2, <1>3, <1>4, <1>5, <1>6 DEF Next

\* Every variable of the cluster keeps its type: program points, versions and
\* configurations of Store, the reload closure and attachPostgres.
THEOREM TypeCorrect == Spec => []TypeOK
<1>1. Init => TypeOK
  BY HomeAssumption DEF Init, TypeOK, Config, ReqPoints, LoadPoints, Loaders,
     Reloaders
<1> QED
  BY <1>1, TypeStep, PTL DEF Spec

-----------------------------------------------------------------------------
(* What is changed at a node that started without the cluster.             *)

\* A backend is open at an attached node and while it attaches, and nothing
\* runs at a node that does not serve (attachPostgres comes first).
LEMMA PhaseStep ==
  ASSUME TypeOK, PhaseInv,
         [Next]_vars
  PROVE  PhaseInv'
<1> USE HomeAssumption
<1>1. ASSUME NEW e \in Edits,
             Apply(e) \/ Request(e) \/ CommitLost(e)
      PROVE  PhaseInv'
  <2> USE DEF TypeOK, Config, Loaders, Reloaders, Goto, LoaderGoto, Up,
        Attached, dbVars, chanVars, startVars, storeVars, histVars, reqVars,
        loadVars, budgetVars, PhaseInv
  <2>1. CASE Apply(e)
    BY <2>1 DEF Apply
  <2>2. CASE SaveCopy(e)
    BY <2>2 DEF SaveCopy
  <2>3. CASE SaveWrite(e)
    BY <2>3 DEF SaveWrite
  <2>4. CASE SaveWriteFails(e)
    BY <2>4 DEF SaveWriteFails
  <2>5. CASE PushCopy(e)
    BY <2>5 DEF PushCopy
  <2>6. CASE Commit(e)
    BY <2>6 DEF Commit, CommitRow
  <2>7. CASE CommitFails(e)
    BY <2>7 DEF CommitFails
  <2>8. CASE CommitLost(e)
    BY <2>8 DEF CommitLost, CommitRow
  <2>9. CASE SaveVersion(e)
    BY <2>9 DEF SaveVersion, VersionRead
  <2>10. CASE RebuildGet(e)
    BY <2>10 DEF RebuildGet
  <2>11. CASE Rebuild(e)
    BY <2>11 DEF Rebuild
  <2> HIDE DEF TypeOK, Config, Loaders, Reloaders, Goto, LoaderGoto, Up,
        Attached, dbVars, chanVars, startVars, storeVars, histVars, reqVars,
        loadVars, budgetVars, PhaseInv
  <2> QED
    BY <1>1, <2>1, <2>2, <2>3, <2>4, <2>5, <2>6, <2>7, <2>8, <2>9, <2>10,
       <2>11 DEF Request
<1>2. ASSUME NEW l \in Loaders,
             Reload(l)
      PROVE  PhaseInv'
  <2> USE DEF TypeOK, Config, Loaders, Reloaders, Goto, LoaderGoto, Up,
        Attached, dbVars, chanVars, startVars, storeVars, histVars, reqVars,
        loadVars, budgetVars, PhaseInv
  <2>1. CASE ReloadLoad(l)
    BY <2>1 DEF ReloadLoad
  <2>2. CASE ReloadLoadFails(l)
    BY <2>2 DEF ReloadLoadFails
  <2>3. CASE ReloadSwap(l)
    BY <2>3 DEF ReloadSwap
  <2>4. CASE ReloadCopy(l)
    BY <2>4 DEF ReloadCopy
  <2>5. CASE ReloadWrite(l)
    BY <2>5 DEF ReloadWrite
  <2>6. CASE ReloadWriteFails(l)
    BY <2>6 DEF ReloadWriteFails
  <2>7. CASE ReloadVersion(l)
    BY <2>7 DEF ReloadVersion, VersionRead
  <2>8. CASE ReloadNote(l)
    BY <2>8 DEF ReloadNote
  <2>9. CASE ReloadGet(l)
    BY <2>9 DEF ReloadGet
  <2>10. CASE ReloadBuild(l)
    BY <2>10 DEF ReloadBuild
  <2> HIDE DEF TypeOK, Config, Loaders, Reloaders, Goto, LoaderGoto, Up,
        Attached, dbVars, chanVars, startVars, storeVars, histVars, reqVars,
        loadVars, budgetVars, PhaseInv
  <2> QED
    BY <1>2, <2>1, <2>2, <2>3, <2>4, <2>5, <2>6, <2>7, <2>8, <2>9, <2>10 DEF
       Reload
<1>3. ASSUME NEW n \in Nodes,
             Notified(n) \/ Poll(n) \/ Listen(n) \/ ListenLost(n)
               \/ Crash(n) \/ Boot(n)
      PROVE  PhaseInv'
  <2> USE DEF TypeOK, Config, Loaders, Reloaders, Goto, LoaderGoto, Up,
        Attached, dbVars, chanVars, startVars, storeVars, histVars, reqVars,
        loadVars, budgetVars, PhaseInv
  <2>1. CASE Notified(n)
    BY <2>1 DEF Notified
  <2>2. CASE PollVersion(n)
    BY <2>2 DEF PollVersion
  <2>3. CASE PollVersionFails(n)
    BY <2>3 DEF PollVersionFails
  <2>4. CASE PollCompare(n)
    BY <2>4 DEF PollCompare
  <2>5. CASE Listen(n)
    BY <2>5 DEF Listen
  <2>6. CASE ListenLost(n)
    BY <2>6 DEF ListenLost
  <2>7. CASE Crash(n)
    BY <2>7 DEF Crash
  <2>8. CASE Start(n)
    BY <2>8 DEF Start
  <2>9. CASE ConnectFails(n)
    BY <2>9 DEF ConnectFails, AttachFailed
  <2>10. CASE Connect(n)
    BY <2>10 DEF Connect
  <2>11. CASE AttachLoadFails(n)
    BY <2>11 DEF AttachLoadFails, AttachFailed
  <2>12. CASE AttachLoad(n)
    BY <2>12 DEF AttachLoad
  <2>13. CASE AttachSwap(n)
    BY <2>13 DEF AttachSwap, AttachFailed, VersionRead
  <2> HIDE DEF TypeOK, Config, Loaders, Reloaders, Goto, LoaderGoto, Up,
        Attached, dbVars, chanVars, startVars, storeVars, histVars, reqVars,
        loadVars, budgetVars, PhaseInv
  <2> QED
    BY <1>3, <2>1, <2>2, <2>3, <2>4, <2>5, <2>6, <2>7, <2>8, <2>9, <2>10,
       <2>11, <2>12, <2>13 DEF Poll, Boot
<1>4. CASE DbDown
  BY <1>4 DEF TypeOK, Config, Loaders, Reloaders, Goto, LoaderGoto, Up,
     Attached, dbVars, chanVars, startVars, storeVars, histVars, reqVars,
     loadVars, budgetVars, PhaseInv, DbDown
<1>5. CASE DbBack
  BY <1>5 DEF TypeOK, Config, Loaders, Reloaders, Goto, LoaderGoto, Up,
     Attached, dbVars, chanVars, startVars, storeVars, histVars, reqVars,
     loadVars, budgetVars, PhaseInv, DbBack
<1>6. CASE UNCHANGED vars
  BY <1>6 DEF TypeOK, Config, Loaders, Reloaders, Goto, LoaderGoto, Up,
     Attached, dbVars, chanVars, startVars, storeVars, histVars, reqVars,
     loadVars, budgetVars, PhaseInv, vars
<1> QED
  BY <1>1, <1>2, <1>3, <1>4, <1>5, <1>6 DEF Next

\* No copy of a configuration holds a change before Store.Update makes it.
LEMMA FreshStep ==
  ASSUME TypeOK, PhaseInv, RowInv, FreshInv,
         [Next]_vars
  PROVE  FreshInv'
<1> USE HomeAssumption
<1>1. ASSUME NEW e \in Edits,
             Apply(e) \/ Request(e) \/ CommitLost(e)
      PROVE  FreshInv'
  <2> USE DEF TypeOK, Config, Loaders, Reloaders, Goto, LoaderGoto, Up,
        Attached, dbVars, chanVars, startVars, storeVars, histVars, reqVars,
        loadVars, budgetVars, FreshInv, RowInv
  <2>1. CASE Apply(e)
    BY <2>1 DEF Apply
  <2>2. CASE SaveCopy(e)
    BY <2>2 DEF SaveCopy
  <2>3. CASE SaveWrite(e)
    BY <2>3 DEF SaveWrite
  <2>4. CASE SaveWriteFails(e)
    BY <2>4 DEF SaveWriteFails
  <2>5. CASE PushCopy(e)
    BY <2>5 DEF PushCopy
  <2>6. CASE Commit(e)
    BY <2>6 DEF Commit, CommitRow
  <2>7. CASE CommitFails(e)
    BY <2>7 DEF CommitFails
  <2>8. CASE CommitLost(e)
    BY <2>8 DEF CommitLost, CommitRow
  <2>9. CASE SaveVersion(e)
    BY <2>9 DEF SaveVersion, VersionRead
  <2>10. CASE RebuildGet(e)
    BY <2>10 DEF RebuildGet
  <2>11. CASE Rebuild(e)
    BY <2>11 DEF Rebuild
  <2> HIDE DEF TypeOK, Config, Loaders, Reloaders, Goto, LoaderGoto, Up,
        Attached, dbVars, chanVars, startVars, storeVars, histVars, reqVars,
        loadVars, budgetVars, FreshInv, RowInv
  <2> QED
    BY <1>1, <2>1, <2>2, <2>3, <2>4, <2>5, <2>6, <2>7, <2>8, <2>9, <2>10,
       <2>11 DEF Request
<1>2. ASSUME NEW l \in Loaders,
             Reload(l)
      PROVE  FreshInv'
  <2> USE DEF TypeOK, Config, Loaders, Reloaders, Goto, LoaderGoto, Up,
        Attached, dbVars, chanVars, startVars, storeVars, histVars, reqVars,
        loadVars, budgetVars, FreshInv, RowInv
  <2>1. CASE ReloadLoad(l)
    BY <2>1 DEF ReloadLoad
  <2>2. CASE ReloadLoadFails(l)
    BY <2>2 DEF ReloadLoadFails
  <2>3. CASE ReloadSwap(l)
    BY <2>3 DEF ReloadSwap
  <2>4. CASE ReloadCopy(l)
    BY <2>4 DEF ReloadCopy
  <2>5. CASE ReloadWrite(l)
    BY <2>5 DEF ReloadWrite
  <2>6. CASE ReloadWriteFails(l)
    BY <2>6 DEF ReloadWriteFails
  <2>7. CASE ReloadVersion(l)
    BY <2>7 DEF ReloadVersion, VersionRead
  <2>8. CASE ReloadNote(l)
    BY <2>8 DEF ReloadNote
  <2>9. CASE ReloadGet(l)
    BY <2>9 DEF ReloadGet
  <2>10. CASE ReloadBuild(l)
    BY <2>10 DEF ReloadBuild
  <2> HIDE DEF TypeOK, Config, Loaders, Reloaders, Goto, LoaderGoto, Up,
        Attached, dbVars, chanVars, startVars, storeVars, histVars, reqVars,
        loadVars, budgetVars, FreshInv, RowInv
  <2> QED
    BY <1>2, <2>1, <2>2, <2>3, <2>4, <2>5, <2>6, <2>7, <2>8, <2>9, <2>10 DEF
       Reload
<1>3. ASSUME NEW n \in Nodes,
             Notified(n) \/ Poll(n) \/ Listen(n) \/ ListenLost(n)
               \/ Crash(n) \/ Boot(n)
      PROVE  FreshInv'
  <2> USE DEF TypeOK, Config, Loaders, Reloaders, Goto, LoaderGoto, Up,
        Attached, dbVars, chanVars, startVars, storeVars, histVars, reqVars,
        loadVars, budgetVars, FreshInv, RowInv
  <2>1. CASE Notified(n)
    BY <2>1 DEF Notified
  <2>2. CASE PollVersion(n)
    BY <2>2 DEF PollVersion
  <2>3. CASE PollVersionFails(n)
    BY <2>3 DEF PollVersionFails
  <2>4. CASE PollCompare(n)
    BY <2>4 DEF PollCompare
  <2>5. CASE Listen(n)
    BY <2>5 DEF Listen
  <2>6. CASE ListenLost(n)
    BY <2>6 DEF ListenLost
  <2>7. CASE Crash(n)
    BY <2>7 DEF Crash
  <2>8. CASE Start(n)
    BY <2>8 DEF Start
  <2>9. CASE ConnectFails(n)
    BY <2>9 DEF ConnectFails, AttachFailed
  <2>10. CASE Connect(n)
    BY <2>10 DEF Connect
  <2>11. CASE AttachLoadFails(n)
    BY <2>11 DEF AttachLoadFails, AttachFailed
  <2>12. CASE AttachLoad(n)
    BY <2>12 DEF AttachLoad
  <2>13. CASE AttachSwap(n)
    BY <2>13 DEF AttachSwap, AttachFailed, VersionRead
  <2> HIDE DEF TypeOK, Config, Loaders, Reloaders, Goto, LoaderGoto, Up,
        Attached, dbVars, chanVars, startVars, storeVars, histVars, reqVars,
        loadVars, budgetVars, FreshInv, RowInv
  <2> QED
    BY <1>3, <2>1, <2>2, <2>3, <2>4, <2>5, <2>6, <2>7, <2>8, <2>9, <2>10,
       <2>11, <2>12, <2>13 DEF Poll, Boot
<1>4. CASE DbDown
  BY <1>4 DEF TypeOK, Config, Loaders, Reloaders, Goto, LoaderGoto, Up,
     Attached, dbVars, chanVars, startVars, storeVars, histVars, reqVars,
     loadVars, budgetVars, FreshInv, RowInv, DbDown
<1>5. CASE DbBack
  BY <1>5 DEF TypeOK, Config, Loaders, Reloaders, Goto, LoaderGoto, Up,
     Attached, dbVars, chanVars, startVars, storeVars, histVars, reqVars,
     loadVars, budgetVars, FreshInv, RowInv, DbBack
<1>6. CASE UNCHANGED vars
  BY <1>6 DEF TypeOK, Config, Loaders, Reloaders, Goto, LoaderGoto, Up,
     Attached, dbVars, chanVars, startVars, storeVars, histVars, reqVars,
     loadVars, budgetVars, FreshInv, RowInv, vars
<1> QED
  BY <1>1, <1>2, <1>3, <1>4, <1>5, <1>6 DEF Next

\* PgBackend.Save is the only way into the row.
LEMMA RowStep ==
  ASSUME TypeOK, RowInv,
         [Next]_vars
  PROVE  RowInv'
<1> USE HomeAssumption
<1>1. ASSUME NEW e \in Edits,
             Apply(e) \/ Request(e) \/ CommitLost(e)
      PROVE  RowInv'
  <2> USE DEF TypeOK, Config, Loaders, Reloaders, Goto, LoaderGoto, Up,
        Attached, dbVars, chanVars, startVars, storeVars, histVars, reqVars,
        loadVars, budgetVars, RowInv
  <2>1. CASE Apply(e)
    BY <2>1 DEF Apply
  <2>2. CASE SaveCopy(e)
    BY <2>2 DEF SaveCopy
  <2>3. CASE SaveWrite(e)
    BY <2>3 DEF SaveWrite
  <2>4. CASE SaveWriteFails(e)
    BY <2>4 DEF SaveWriteFails
  <2>5. CASE PushCopy(e)
    BY <2>5 DEF PushCopy
  <2>6. CASE Commit(e)
    BY <2>6 DEF Commit, CommitRow
  <2>7. CASE CommitFails(e)
    BY <2>7 DEF CommitFails
  <2>8. CASE CommitLost(e)
    BY <2>8 DEF CommitLost, CommitRow
  <2>9. CASE SaveVersion(e)
    BY <2>9 DEF SaveVersion, VersionRead
  <2>10. CASE RebuildGet(e)
    BY <2>10 DEF RebuildGet
  <2>11. CASE Rebuild(e)
    BY <2>11 DEF Rebuild
  <2> HIDE DEF TypeOK, Config, Loaders, Reloaders, Goto, LoaderGoto, Up,
        Attached, dbVars, chanVars, startVars, storeVars, histVars, reqVars,
        loadVars, budgetVars, RowInv
  <2> QED
    BY <1>1, <2>1, <2>2, <2>3, <2>4, <2>5, <2>6, <2>7, <2>8, <2>9, <2>10,
       <2>11 DEF Request
<1>2. ASSUME NEW l \in Loaders,
             Reload(l)
      PROVE  RowInv'
  <2> USE DEF TypeOK, Config, Loaders, Reloaders, Goto, LoaderGoto, Up,
        Attached, dbVars, chanVars, startVars, storeVars, histVars, reqVars,
        loadVars, budgetVars, RowInv
  <2>1. CASE ReloadLoad(l)
    BY <2>1 DEF ReloadLoad
  <2>2. CASE ReloadLoadFails(l)
    BY <2>2 DEF ReloadLoadFails
  <2>3. CASE ReloadSwap(l)
    BY <2>3 DEF ReloadSwap
  <2>4. CASE ReloadCopy(l)
    BY <2>4 DEF ReloadCopy
  <2>5. CASE ReloadWrite(l)
    BY <2>5 DEF ReloadWrite
  <2>6. CASE ReloadWriteFails(l)
    BY <2>6 DEF ReloadWriteFails
  <2>7. CASE ReloadVersion(l)
    BY <2>7 DEF ReloadVersion, VersionRead
  <2>8. CASE ReloadNote(l)
    BY <2>8 DEF ReloadNote
  <2>9. CASE ReloadGet(l)
    BY <2>9 DEF ReloadGet
  <2>10. CASE ReloadBuild(l)
    BY <2>10 DEF ReloadBuild
  <2> HIDE DEF TypeOK, Config, Loaders, Reloaders, Goto, LoaderGoto, Up,
        Attached, dbVars, chanVars, startVars, storeVars, histVars, reqVars,
        loadVars, budgetVars, RowInv
  <2> QED
    BY <1>2, <2>1, <2>2, <2>3, <2>4, <2>5, <2>6, <2>7, <2>8, <2>9, <2>10 DEF
       Reload
<1>3. ASSUME NEW n \in Nodes,
             Notified(n) \/ Poll(n) \/ Listen(n) \/ ListenLost(n)
               \/ Crash(n) \/ Boot(n)
      PROVE  RowInv'
  <2> USE DEF TypeOK, Config, Loaders, Reloaders, Goto, LoaderGoto, Up,
        Attached, dbVars, chanVars, startVars, storeVars, histVars, reqVars,
        loadVars, budgetVars, RowInv
  <2>1. CASE Notified(n)
    BY <2>1 DEF Notified
  <2>2. CASE PollVersion(n)
    BY <2>2 DEF PollVersion
  <2>3. CASE PollVersionFails(n)
    BY <2>3 DEF PollVersionFails
  <2>4. CASE PollCompare(n)
    BY <2>4 DEF PollCompare
  <2>5. CASE Listen(n)
    BY <2>5 DEF Listen
  <2>6. CASE ListenLost(n)
    BY <2>6 DEF ListenLost
  <2>7. CASE Crash(n)
    BY <2>7 DEF Crash
  <2>8. CASE Start(n)
    BY <2>8 DEF Start
  <2>9. CASE ConnectFails(n)
    BY <2>9 DEF ConnectFails, AttachFailed
  <2>10. CASE Connect(n)
    BY <2>10 DEF Connect
  <2>11. CASE AttachLoadFails(n)
    BY <2>11 DEF AttachLoadFails, AttachFailed
  <2>12. CASE AttachLoad(n)
    BY <2>12 DEF AttachLoad
  <2>13. CASE AttachSwap(n)
    BY <2>13 DEF AttachSwap, AttachFailed, VersionRead
  <2> HIDE DEF TypeOK, Config, Loaders, Reloaders, Goto, LoaderGoto, Up,
        Attached, dbVars, chanVars, startVars, storeVars, histVars, reqVars,
        loadVars, budgetVars, RowInv
  <2> QED
    BY <1>3, <2>1, <2>2, <2>3, <2>4, <2>5, <2>6, <2>7, <2>8, <2>9, <2>10,
       <2>11, <2>12, <2>13 DEF Poll, Boot
<1>4. CASE DbDown
  BY <1>4 DEF TypeOK, Config, Loaders, Reloaders, Goto, LoaderGoto, Up,
     Attached, dbVars, chanVars, startVars, storeVars, histVars, reqVars,
     loadVars, budgetVars, RowInv, DbDown
<1>5. CASE DbBack
  BY <1>5 DEF TypeOK, Config, Loaders, Reloaders, Goto, LoaderGoto, Up,
     Attached, dbVars, chanVars, startVars, storeVars, histVars, reqVars,
     loadVars, budgetVars, RowInv, DbBack
<1>6. CASE UNCHANGED vars
  BY <1>6 DEF TypeOK, Config, Loaders, Reloaders, Goto, LoaderGoto, Up,
     Attached, dbVars, chanVars, startVars, storeVars, histVars, reqVars,
     loadVars, budgetVars, RowInv, vars
<1> QED
  BY <1>1, <1>2, <1>3, <1>4, <1>5, <1>6 DEF Next

\* No action carries a detached node's change to a member's memory or copies:
\* SetBackend replaces the memory, and a request begun detached ends detached.
LEMMA CleanStep ==
  ASSUME TypeOK, PhaseInv, FreshInv, RowInv, CleanInv,
         [Next]_vars
  PROVE  CleanInv'
<1> USE HomeAssumption
<1>1. ASSUME NEW e \in Edits,
             Apply(e) \/ Request(e) \/ CommitLost(e)
      PROVE  CleanInv'
  <2> USE DEF TypeOK, Config, Loaders, Reloaders, Goto, LoaderGoto, Up,
        Attached, dbVars, chanVars, startVars, storeVars, histVars, reqVars,
        loadVars, budgetVars, CleanInv, FreshInv, RowInv, PhaseInv
  <2>1. CASE Apply(e)
    BY <2>1 DEF Apply
  <2>2. CASE SaveCopy(e)
    BY <2>2 DEF SaveCopy
  <2>3. CASE SaveWrite(e)
    BY <2>3 DEF SaveWrite
  <2>4. CASE SaveWriteFails(e)
    BY <2>4 DEF SaveWriteFails
  <2>5. CASE PushCopy(e)
    BY <2>5 DEF PushCopy
  <2>6. CASE Commit(e)
    BY <2>6 DEF Commit, CommitRow
  <2>7. CASE CommitFails(e)
    BY <2>7 DEF CommitFails
  <2>8. CASE CommitLost(e)
    BY <2>8 DEF CommitLost, CommitRow
  <2>9. CASE SaveVersion(e)
    BY <2>9 DEF SaveVersion, VersionRead
  <2>10. CASE RebuildGet(e)
    BY <2>10 DEF RebuildGet
  <2>11. CASE Rebuild(e)
    BY <2>11 DEF Rebuild
  <2> HIDE DEF TypeOK, Config, Loaders, Reloaders, Goto, LoaderGoto, Up,
        Attached, dbVars, chanVars, startVars, storeVars, histVars, reqVars,
        loadVars, budgetVars, CleanInv, FreshInv, RowInv, PhaseInv
  <2> QED
    BY <1>1, <2>1, <2>2, <2>3, <2>4, <2>5, <2>6, <2>7, <2>8, <2>9, <2>10,
       <2>11 DEF Request
<1>2. ASSUME NEW l \in Loaders,
             Reload(l)
      PROVE  CleanInv'
  <2> USE DEF TypeOK, Config, Loaders, Reloaders, Goto, LoaderGoto, Up,
        Attached, dbVars, chanVars, startVars, storeVars, histVars, reqVars,
        loadVars, budgetVars, CleanInv, FreshInv, RowInv, PhaseInv
  <2>1. CASE ReloadLoad(l)
    BY <2>1 DEF ReloadLoad
  <2>2. CASE ReloadLoadFails(l)
    BY <2>2 DEF ReloadLoadFails
  <2>3. CASE ReloadSwap(l)
    BY <2>3 DEF ReloadSwap
  <2>4. CASE ReloadCopy(l)
    BY <2>4 DEF ReloadCopy
  <2>5. CASE ReloadWrite(l)
    BY <2>5 DEF ReloadWrite
  <2>6. CASE ReloadWriteFails(l)
    BY <2>6 DEF ReloadWriteFails
  <2>7. CASE ReloadVersion(l)
    BY <2>7 DEF ReloadVersion, VersionRead
  <2>8. CASE ReloadNote(l)
    BY <2>8 DEF ReloadNote
  <2>9. CASE ReloadGet(l)
    BY <2>9 DEF ReloadGet
  <2>10. CASE ReloadBuild(l)
    BY <2>10 DEF ReloadBuild
  <2> HIDE DEF TypeOK, Config, Loaders, Reloaders, Goto, LoaderGoto, Up,
        Attached, dbVars, chanVars, startVars, storeVars, histVars, reqVars,
        loadVars, budgetVars, CleanInv, FreshInv, RowInv, PhaseInv
  <2> QED
    BY <1>2, <2>1, <2>2, <2>3, <2>4, <2>5, <2>6, <2>7, <2>8, <2>9, <2>10 DEF
       Reload
<1>3. ASSUME NEW n \in Nodes,
             Notified(n) \/ Poll(n) \/ Listen(n) \/ ListenLost(n)
               \/ Crash(n) \/ Boot(n)
      PROVE  CleanInv'
  <2> USE DEF TypeOK, Config, Loaders, Reloaders, Goto, LoaderGoto, Up,
        Attached, dbVars, chanVars, startVars, storeVars, histVars, reqVars,
        loadVars, budgetVars, CleanInv, FreshInv, RowInv, PhaseInv
  <2>1. CASE Notified(n)
    BY <2>1 DEF Notified
  <2>2. CASE PollVersion(n)
    BY <2>2 DEF PollVersion
  <2>3. CASE PollVersionFails(n)
    BY <2>3 DEF PollVersionFails
  <2>4. CASE PollCompare(n)
    BY <2>4 DEF PollCompare
  <2>5. CASE Listen(n)
    BY <2>5 DEF Listen
  <2>6. CASE ListenLost(n)
    BY <2>6 DEF ListenLost
  <2>7. CASE Crash(n)
    BY <2>7 DEF Crash
  <2>8. CASE Start(n)
    BY <2>8 DEF Start
  <2>9. CASE ConnectFails(n)
    BY <2>9 DEF ConnectFails, AttachFailed
  <2>10. CASE Connect(n)
    BY <2>10 DEF Connect
  <2>11. CASE AttachLoadFails(n)
    BY <2>11 DEF AttachLoadFails, AttachFailed
  <2>12. CASE AttachLoad(n)
    BY <2>12 DEF AttachLoad
  <2>13. CASE AttachSwap(n)
    BY SMTT(30), <2>13 DEF AttachSwap, AttachFailed
  <2> HIDE DEF TypeOK, Config, Loaders, Reloaders, Goto, LoaderGoto, Up,
        Attached, dbVars, chanVars, startVars, storeVars, histVars, reqVars,
        loadVars, budgetVars, CleanInv, FreshInv, RowInv, PhaseInv
  <2> QED
    BY <1>3, <2>1, <2>2, <2>3, <2>4, <2>5, <2>6, <2>7, <2>8, <2>9, <2>10,
       <2>11, <2>12, <2>13 DEF Poll, Boot
<1>4. CASE DbDown
  BY <1>4 DEF TypeOK, Config, Loaders, Reloaders, Goto, LoaderGoto, Up,
     Attached, dbVars, chanVars, startVars, storeVars, histVars, reqVars,
     loadVars, budgetVars, CleanInv, FreshInv, RowInv, PhaseInv, DbDown
<1>5. CASE DbBack
  BY <1>5 DEF TypeOK, Config, Loaders, Reloaders, Goto, LoaderGoto, Up,
     Attached, dbVars, chanVars, startVars, storeVars, histVars, reqVars,
     loadVars, budgetVars, CleanInv, FreshInv, RowInv, PhaseInv, DbBack
<1>6. CASE UNCHANGED vars
  BY <1>6 DEF TypeOK, Config, Loaders, Reloaders, Goto, LoaderGoto, Up,
     Attached, dbVars, chanVars, startVars, storeVars, histVars, reqVars,
     loadVars, budgetVars, CleanInv, FreshInv, RowInv, PhaseInv, vars
<1> QED
  BY <1>1, <1>2, <1>3, <1>4, <1>5, <1>6 DEF Next

\* A change made at a node that started in degraded mode never reaches the
\* row, nor the memory of any attached node (SetBackend, Save, reload).
THEOREM DegradedIsolation == Spec => []DegradedStartIsolated
<1>1. Init => DegradedIInv
  BY HomeAssumption DEF Init, DegradedIInv, TypeOK, PhaseInv, FreshInv,
     RowInv, CleanInv, Up, Attached, Config, ReqPoints, LoadPoints, Loaders,
     Reloaders
<1>2. DegradedIInv /\ [Next]_vars => DegradedIInv'
  BY TypeStep, PhaseStep, FreshStep, RowStep, CleanStep DEF DegradedIInv
<1>3. DegradedIInv => DegradedStartIsolated
  BY DEF DegradedIInv, CleanInv, DegradedStartIsolated
<1> QED
  BY <1>1, <1>2, <1>3, PTL DEF Spec

-----------------------------------------------------------------------------
(* The local file.                                                         *)

\* saveMu lets one request or reload write the file at a time.
LEMMA WriterStep ==
  ASSUME TypeOK, PhaseInv, WriterInv,
         [Next]_vars
  PROVE  WriterInv'
<1> USE HomeAssumption
<1>1. ASSUME NEW e \in Edits,
             Apply(e) \/ Request(e) \/ CommitLost(e)
      PROVE  WriterInv'
  <2> USE DEF TypeOK, Config, Loaders, Reloaders, Goto, LoaderGoto, Up,
        Attached, dbVars, chanVars, startVars, storeVars, histVars, reqVars,
        loadVars, budgetVars, WriterInv, SaveMuFree, HoldsSaveMu,
        LoaderHoldsSaveMu
  <2>1. CASE Apply(e)
    BY <2>1 DEF Apply
  <2>2. CASE SaveCopy(e)
    BY <2>2 DEF SaveCopy
  <2>3. CASE SaveWrite(e)
    BY <2>3 DEF SaveWrite
  <2>4. CASE SaveWriteFails(e)
    BY <2>4 DEF SaveWriteFails
  <2>5. CASE PushCopy(e)
    BY <2>5 DEF PushCopy
  <2>6. CASE Commit(e)
    BY <2>6 DEF Commit, CommitRow
  <2>7. CASE CommitFails(e)
    BY <2>7 DEF CommitFails
  <2>8. CASE CommitLost(e)
    BY <2>8 DEF CommitLost, CommitRow
  <2>9. CASE SaveVersion(e)
    BY <2>9 DEF SaveVersion, VersionRead
  <2>10. CASE RebuildGet(e)
    BY <2>10 DEF RebuildGet
  <2>11. CASE Rebuild(e)
    BY <2>11 DEF Rebuild
  <2> HIDE DEF TypeOK, Config, Loaders, Reloaders, Goto, LoaderGoto, Up,
        Attached, dbVars, chanVars, startVars, storeVars, histVars, reqVars,
        loadVars, budgetVars, WriterInv, SaveMuFree, HoldsSaveMu,
        LoaderHoldsSaveMu
  <2> QED
    BY <1>1, <2>1, <2>2, <2>3, <2>4, <2>5, <2>6, <2>7, <2>8, <2>9, <2>10,
       <2>11 DEF Request
<1>2. ASSUME NEW l \in Loaders,
             Reload(l)
      PROVE  WriterInv'
  <2> USE DEF TypeOK, Config, Loaders, Reloaders, Goto, LoaderGoto, Up,
        Attached, dbVars, chanVars, startVars, storeVars, histVars, reqVars,
        loadVars, budgetVars, WriterInv, SaveMuFree, HoldsSaveMu,
        LoaderHoldsSaveMu
  <2>1. CASE ReloadLoad(l)
    BY <2>1 DEF ReloadLoad
  <2>2. CASE ReloadLoadFails(l)
    BY <2>2 DEF ReloadLoadFails
  <2>3. CASE ReloadSwap(l)
    BY <2>3 DEF ReloadSwap
  <2>4. CASE ReloadCopy(l)
    BY <2>4 DEF ReloadCopy
  <2>5. CASE ReloadWrite(l)
    BY <2>5 DEF ReloadWrite
  <2>6. CASE ReloadWriteFails(l)
    BY <2>6 DEF ReloadWriteFails
  <2>7. CASE ReloadVersion(l)
    BY <2>7 DEF ReloadVersion, VersionRead
  <2>8. CASE ReloadNote(l)
    BY <2>8 DEF ReloadNote
  <2>9. CASE ReloadGet(l)
    BY <2>9 DEF ReloadGet
  <2>10. CASE ReloadBuild(l)
    BY <2>10 DEF ReloadBuild
  <2> HIDE DEF TypeOK, Config, Loaders, Reloaders, Goto, LoaderGoto, Up,
        Attached, dbVars, chanVars, startVars, storeVars, histVars, reqVars,
        loadVars, budgetVars, WriterInv, SaveMuFree, HoldsSaveMu,
        LoaderHoldsSaveMu
  <2> QED
    BY <1>2, <2>1, <2>2, <2>3, <2>4, <2>5, <2>6, <2>7, <2>8, <2>9, <2>10 DEF
       Reload
<1>3. ASSUME NEW n \in Nodes,
             Notified(n) \/ Poll(n) \/ Listen(n) \/ ListenLost(n)
               \/ Crash(n) \/ Boot(n)
      PROVE  WriterInv'
  <2> USE DEF TypeOK, Config, Loaders, Reloaders, Goto, LoaderGoto, Up,
        Attached, dbVars, chanVars, startVars, storeVars, histVars, reqVars,
        loadVars, budgetVars, WriterInv, SaveMuFree, HoldsSaveMu,
        LoaderHoldsSaveMu
  <2>1. CASE Notified(n)
    BY <2>1 DEF Notified
  <2>2. CASE PollVersion(n)
    BY <2>2 DEF PollVersion
  <2>3. CASE PollVersionFails(n)
    BY <2>3 DEF PollVersionFails
  <2>4. CASE PollCompare(n)
    <3>1. /\ UNCHANGED <<pc, buf, mem, rcfg>>
          /\ \A k \in Loaders :
               /\ rpc'[k] = "write" <=> rpc[k] = "write"
               /\ rpc'[k] = "persist" <=> rpc[k] = "persist"
      BY <<n, "poll">> \in Loaders, <2>4 DEF PollCompare
    <3> QED
      BY <3>1
  <2>5. CASE Listen(n)
    BY <2>5 DEF Listen
  <2>6. CASE ListenLost(n)
    BY <2>6 DEF ListenLost
  <2>7. CASE Crash(n)
    BY <2>7 DEF Crash
  <2>8. CASE Start(n)
    BY <2>8 DEF Start
  <2>9. CASE ConnectFails(n)
    BY <2>9 DEF ConnectFails, AttachFailed
  <2>10. CASE Connect(n)
    BY <2>10 DEF Connect
  <2>11. CASE AttachLoadFails(n)
    BY <2>11 DEF AttachLoadFails, AttachFailed
  <2>12. CASE AttachLoad(n)
    BY <2>12 DEF AttachLoad
  <2>13. CASE AttachSwap(n)
    BY <2>13 DEF AttachSwap, AttachFailed, VersionRead
  <2> HIDE DEF TypeOK, Config, Loaders, Reloaders, Goto, LoaderGoto, Up,
        Attached, dbVars, chanVars, startVars, storeVars, histVars, reqVars,
        loadVars, budgetVars, WriterInv, SaveMuFree, HoldsSaveMu,
        LoaderHoldsSaveMu
  <2> QED
    BY <1>3, <2>1, <2>2, <2>3, <2>4, <2>5, <2>6, <2>7, <2>8, <2>9, <2>10,
       <2>11, <2>12, <2>13 DEF Poll, Boot
<1>4. CASE DbDown
  BY <1>4 DEF TypeOK, Config, Loaders, Reloaders, Goto, LoaderGoto, Up,
     Attached, dbVars, chanVars, startVars, storeVars, histVars, reqVars,
     loadVars, budgetVars, WriterInv, SaveMuFree, HoldsSaveMu,
     LoaderHoldsSaveMu, DbDown
<1>5. CASE DbBack
  BY <1>5 DEF TypeOK, Config, Loaders, Reloaders, Goto, LoaderGoto, Up,
     Attached, dbVars, chanVars, startVars, storeVars, histVars, reqVars,
     loadVars, budgetVars, WriterInv, SaveMuFree, HoldsSaveMu,
     LoaderHoldsSaveMu, DbBack
<1>6. CASE UNCHANGED vars
  BY <1>6 DEF TypeOK, Config, Loaders, Reloaders, Goto, LoaderGoto, Up,
     Attached, dbVars, chanVars, startVars, storeVars, histVars, reqVars,
     loadVars, budgetVars, WriterInv, SaveMuFree, HoldsSaveMu,
     LoaderHoldsSaveMu, vars
<1> QED
  BY <1>1, <1>2, <1>3, <1>4, <1>5, <1>6 DEF Next

\* A step that changes no memory, takes up no new copy and drops no pending
\* one keeps CopyInv.
LEMMA CopyFrame ==
  ASSUME CopyInv,
         UNCHANGED mem,
         \A e \in Edits :
           /\ pc'[e] = "write" => pc[e] = "write" /\ buf'[e] = buf[e]
           /\ pc[e] = "local" => pc'[e] = "local",
         \A l \in Loaders :
           /\ rpc'[l] = "write" => rpc[l] = "write" /\ rcfg'[l] = rcfg[l]
           /\ rpc[l] = "persist" => rpc'[l] = "persist"
  PROVE  CopyInv'
BY DEF CopyInv, CopyPending

\* A step that changes neither memory nor file, starts no node and ends no
\* pending write keeps FileTracksMemory.
LEMMA FileFrame ==
  ASSUME FileTracksMemory,
         UNCHANGED <<mem, file>>,
         \A n \in Nodes : phase'[n] # "down" => phase[n] # "down",
         \A e \in Edits :
           pc[e] \in {"local", "write"} => pc'[e] \in {"local", "write"},
         \A l \in Loaders :
           rpc[l] \in {"persist", "write"} => rpc'[l] \in {"persist", "write"}
  PROVE  FileTracksMemory'
BY DEF FileTracksMemory, WritePending

\* The copy about to be written is the memory, unless a later copy is due.
LEMMA CopyStep ==
  ASSUME LocalTypes, PhaseInv, WriterInv, CopyInv,
         [Next]_vars
  PROVE  CopyInv'
<1> USE HomeAssumption
<1>1. ASSUME NEW e \in Edits,
             Apply(e) \/ Request(e) \/ CommitLost(e)
      PROVE  CopyInv'
  <2> USE DEF LocalTypes, Config, Loaders, Reloaders, Goto, LoaderGoto, Up,
        Attached, dbVars, chanVars, startVars, storeVars, histVars, reqVars,
        loadVars, budgetVars
  <2>1. CASE Apply(e)
    BY <2>1 DEF Apply, CopyInv, CopyPending
  <2>2. CASE SaveCopy(e)
    BY <2>2 DEF SaveCopy, CopyInv, CopyPending, SaveMuFree, HoldsSaveMu,
       LoaderHoldsSaveMu
  <2>3. CASE SaveWrite(e)
    BY CopyFrame, <2>3 DEF SaveWrite
  <2>4. CASE SaveWriteFails(e)
    BY CopyFrame, <2>4 DEF SaveWriteFails
  <2>5. CASE PushCopy(e)
    BY CopyFrame, <2>5 DEF PushCopy
  <2>6. CASE Commit(e)
    BY CopyFrame, <2>6 DEF Commit, CommitRow
  <2>7. CASE CommitFails(e)
    BY CopyFrame, <2>7 DEF CommitFails
  <2>8. CASE CommitLost(e)
    BY CopyFrame, <2>8 DEF CommitLost, CommitRow
  <2>9. CASE SaveVersion(e)
    BY CopyFrame, <2>9 DEF SaveVersion, VersionRead
  <2>10. CASE RebuildGet(e)
    BY CopyFrame, <2>10 DEF RebuildGet
  <2>11. CASE Rebuild(e)
    BY CopyFrame, <2>11 DEF Rebuild
  <2> HIDE DEF LocalTypes, Config, Loaders, Reloaders, Goto, LoaderGoto, Up,
        Attached, dbVars, chanVars, startVars, storeVars, histVars, reqVars,
        loadVars, budgetVars
  <2> QED
    BY <1>1, <2>1, <2>2, <2>3, <2>4, <2>5, <2>6, <2>7, <2>8, <2>9, <2>10,
       <2>11 DEF Request
<1>2. ASSUME NEW l \in Loaders,
             Reload(l)
      PROVE  CopyInv'
  <2> USE DEF LocalTypes, Config, Loaders, Reloaders, Goto, LoaderGoto, Up,
        Attached, dbVars, chanVars, startVars, storeVars, histVars, reqVars,
        loadVars, budgetVars
  <2>1. CASE ReloadLoad(l)
    BY CopyFrame, <2>1 DEF ReloadLoad
  <2>2. CASE ReloadLoadFails(l)
    BY CopyFrame, <2>2 DEF ReloadLoadFails
  <2>3. CASE ReloadSwap(l)
    <3>1. /\ UNCHANGED <<pc, buf, rcfg>>
          /\ rpc' = [rpc EXCEPT ![l] = "persist"]
          /\ rpc[l] = "swap"
          /\ \A m \in Nodes : m # l[1] => mem'[m] = mem[m]
      BY <2>3 DEF ReloadSwap
    <3>2. CopyPending(l[1])'
      BY <3>1 DEF CopyPending
    <3>3. \A m \in Nodes : m # l[1] => (CopyPending(m)' <=> CopyPending(m))
      BY <3>1 DEF CopyPending
    <3> QED
      BY <3>1, <3>2, <3>3 DEF CopyInv
  <2>4. CASE ReloadCopy(l)
    <3>1. /\ \A e \in Edits : pc[e] = "write" => Home[e] # l[1]
          /\ \A k \in Loaders : rpc[k] = "write" => k[1] # l[1]
      BY <2>4 DEF ReloadCopy, SaveMuFree, HoldsSaveMu, LoaderHoldsSaveMu
    <3>2. UNCHANGED <<pc, buf, mem>>
      BY <2>4 DEF ReloadCopy
    <3>3. /\ rpc' = [rpc EXCEPT ![l] = "write"]
          /\ rcfg' = [rcfg EXCEPT ![l] = mem[l[1]]]
      BY <2>4 DEF ReloadCopy
    <3>4. \A m \in Nodes : m # l[1] => (CopyPending(m)' <=> CopyPending(m))
      BY <3>2, <3>3 DEF CopyPending
    <3> QED
      BY <3>1, <3>2, <3>3, <3>4 DEF CopyInv
  <2>5. CASE ReloadWrite(l)
    BY CopyFrame, <2>5 DEF ReloadWrite
  <2>6. CASE ReloadWriteFails(l)
    BY CopyFrame, <2>6 DEF ReloadWriteFails
  <2>7. CASE ReloadVersion(l)
    BY CopyFrame, <2>7 DEF ReloadVersion, VersionRead
  <2>8. CASE ReloadNote(l)
    BY CopyFrame, <2>8 DEF ReloadNote
  <2>9. CASE ReloadGet(l)
    BY CopyFrame, <2>9 DEF ReloadGet
  <2>10. CASE ReloadBuild(l)
    BY CopyFrame, <2>10 DEF ReloadBuild
  <2> HIDE DEF LocalTypes, Config, Loaders, Reloaders, Goto, LoaderGoto, Up,
        Attached, dbVars, chanVars, startVars, storeVars, histVars, reqVars,
        loadVars, budgetVars
  <2> QED
    BY <1>2, <2>1, <2>2, <2>3, <2>4, <2>5, <2>6, <2>7, <2>8, <2>9, <2>10 DEF
       Reload
<1>3. ASSUME NEW n \in Nodes,
             Notified(n) \/ Poll(n) \/ Listen(n) \/ ListenLost(n)
               \/ Crash(n) \/ Boot(n)
      PROVE  CopyInv'
  <2> USE DEF LocalTypes, Config, Loaders, Reloaders, Goto, LoaderGoto, Up,
        Attached, dbVars, chanVars, startVars, storeVars, histVars, reqVars,
        loadVars, budgetVars
  <2>1. CASE Notified(n)
    BY CopyFrame, <2>1 DEF Notified
  <2>2. CASE PollVersion(n)
    BY CopyFrame, <2>2 DEF PollVersion
  <2>3. CASE PollVersionFails(n)
    BY CopyFrame, <2>3 DEF PollVersionFails
  <2>4. CASE PollCompare(n)
    BY CopyFrame, <<n, "poll">> \in Loaders, <2>4 DEF PollCompare
  <2>5. CASE Listen(n)
    BY CopyFrame, <2>5 DEF Listen
  <2>6. CASE ListenLost(n)
    BY CopyFrame, <2>6 DEF ListenLost
  <2>7. CASE Crash(n)
    <3>1. \A m \in Nodes : m # n => mem'[m] = mem[m]
      BY <2>7 DEF Crash
    <3>2. \A f \in Edits :
            /\ pc'[f] \in {"local", "write"} => Home[f] # n
            /\ Home[f] # n => pc'[f] = pc[f] /\ buf'[f] = buf[f]
      BY <2>7 DEF Crash
    <3>3. \A k \in Loaders :
            /\ rpc'[k] \in {"persist", "write"} => k[1] # n
            /\ k[1] # n => rpc'[k] = rpc[k] /\ rcfg'[k] = rcfg[k]
      BY <2>7 DEF Crash
    <3>4. \A m \in Nodes : m # n => (CopyPending(m)' <=> CopyPending(m))
      BY SMTT(30), <3>2, <3>3 DEF CopyPending
    <3> QED
      BY <3>1, <3>2, <3>3, <3>4 DEF CopyInv
  <2>8. CASE Start(n)
    <3>1. /\ UNCHANGED <<pc, buf, rpc, rcfg>>
          /\ \A m \in Nodes : m # n => mem'[m] = mem[m]
      BY <2>8 DEF Start
    <3>2. /\ \A e \in Edits : pc[e] = "write" => Home[e] # n
          /\ \A k \in Loaders : rpc[k] = "write" => k[1] # n
      BY <2>8 DEF Start, PhaseInv
    <3> QED
      BY <3>1, <3>2 DEF CopyInv, CopyPending
  <2>9. CASE ConnectFails(n)
    BY CopyFrame, <2>9 DEF ConnectFails, AttachFailed
  <2>10. CASE Connect(n)
    BY CopyFrame, <2>10 DEF Connect
  <2>11. CASE AttachLoadFails(n)
    BY CopyFrame, <2>11 DEF AttachLoadFails, AttachFailed
  <2>12. CASE AttachLoad(n)
    BY CopyFrame, <2>12 DEF AttachLoad, PhaseInv
  <2>13. CASE AttachSwap(n)
    <3>1. /\ UNCHANGED <<pc, buf, rpc>>
          /\ \A m \in Nodes : m # n => mem'[m] = mem[m]
          /\ \A k \in Loaders : k[1] # n => rcfg'[k] = rcfg[k]
      BY <2>13 DEF AttachSwap
    <3>2. /\ \A e \in Edits : pc[e] = "write" => Home[e] # n
          /\ \A k \in Loaders : rpc[k] = "write" => k[1] # n
      BY <2>13 DEF AttachSwap, PhaseInv
    <3> QED
      BY <3>1, <3>2 DEF CopyInv, CopyPending
  <2> HIDE DEF LocalTypes, Config, Loaders, Reloaders, Goto, LoaderGoto, Up,
        Attached, dbVars, chanVars, startVars, storeVars, histVars, reqVars,
        loadVars, budgetVars
  <2> QED
    BY <1>3, <2>1, <2>2, <2>3, <2>4, <2>5, <2>6, <2>7, <2>8, <2>9, <2>10,
       <2>11, <2>12, <2>13 DEF Poll, Boot
<1>4. CASE DbDown
  BY CopyFrame, <1>4 DEF LocalTypes, Config, Loaders, Reloaders, Goto,
     LoaderGoto, Up, Attached, dbVars, chanVars, startVars, storeVars,
     histVars, reqVars, loadVars, budgetVars, DbDown
<1>5. CASE DbBack
  BY CopyFrame, <1>5 DEF LocalTypes, Config, Loaders, Reloaders, Goto,
     LoaderGoto, Up, Attached, dbVars, chanVars, startVars, storeVars,
     histVars, reqVars, loadVars, budgetVars, DbBack
<1>6. CASE UNCHANGED vars
  BY CopyFrame, <1>6 DEF LocalTypes, Config, Loaders, Reloaders, Goto,
     LoaderGoto, Up, Attached, dbVars, chanVars, startVars, storeVars,
     histVars, reqVars, loadVars, budgetVars, vars
<1> QED
  BY <1>1, <1>2, <1>3, <1>4, <1>5, <1>6 DEF Next

\* A write leaves the file equal to the memory, or another one follows.
LEMMA FileStep ==
  ASSUME LocalTypes, PhaseInv, WriterInv, CopyInv, FileTracksMemory,
         [Next]_vars
  PROVE  FileTracksMemory'
<1> USE HomeAssumption
<1>1. ASSUME NEW e \in Edits,
             Apply(e) \/ Request(e) \/ CommitLost(e)
      PROVE  FileTracksMemory'
  <2> USE DEF LocalTypes, Config, Loaders, Reloaders, Goto, LoaderGoto, Up,
        Attached, dbVars, chanVars, startVars, storeVars, histVars, reqVars,
        loadVars, budgetVars
  <2>1. CASE Apply(e)
    BY <2>1 DEF Apply, FileTracksMemory, WritePending, CopyInv, CopyPending
  <2>2. CASE SaveCopy(e)
    BY FileFrame, <2>2 DEF SaveCopy
  <2>3. CASE SaveWrite(e)
    BY <2>3 DEF SaveWrite, FileTracksMemory, WritePending, CopyInv,
       CopyPending
  <2>4. CASE SaveWriteFails(e)
    BY <2>4 DEF SaveWriteFails, FileTracksMemory, WritePending, CopyInv,
       CopyPending
  <2>5. CASE PushCopy(e)
    BY FileFrame, <2>5 DEF PushCopy
  <2>6. CASE Commit(e)
    BY FileFrame, <2>6 DEF Commit, CommitRow
  <2>7. CASE CommitFails(e)
    BY FileFrame, <2>7 DEF CommitFails
  <2>8. CASE CommitLost(e)
    BY FileFrame, <2>8 DEF CommitLost, CommitRow
  <2>9. CASE SaveVersion(e)
    BY FileFrame, <2>9 DEF SaveVersion, VersionRead
  <2>10. CASE RebuildGet(e)
    BY FileFrame, <2>10 DEF RebuildGet
  <2>11. CASE Rebuild(e)
    BY FileFrame, <2>11 DEF Rebuild
  <2> HIDE DEF LocalTypes, Config, Loaders, Reloaders, Goto, LoaderGoto, Up,
        Attached, dbVars, chanVars, startVars, storeVars, histVars, reqVars,
        loadVars, budgetVars
  <2> QED
    BY <1>1, <2>1, <2>2, <2>3, <2>4, <2>5, <2>6, <2>7, <2>8, <2>9, <2>10,
       <2>11 DEF Request
<1>2. ASSUME NEW l \in Loaders,
             Reload(l)
      PROVE  FileTracksMemory'
  <2> USE DEF LocalTypes, Config, Loaders, Reloaders, Goto, LoaderGoto, Up,
        Attached, dbVars, chanVars, startVars, storeVars, histVars, reqVars,
        loadVars, budgetVars
  <2>1. CASE ReloadLoad(l)
    BY FileFrame, <2>1 DEF ReloadLoad
  <2>2. CASE ReloadLoadFails(l)
    BY FileFrame, <2>2 DEF ReloadLoadFails
  <2>3. CASE ReloadSwap(l)
    BY <2>3 DEF ReloadSwap, FileTracksMemory, WritePending, CopyInv,
       CopyPending
  <2>4. CASE ReloadCopy(l)
    BY FileFrame, <2>4 DEF ReloadCopy
  <2>5. CASE ReloadWrite(l)
    BY <2>5 DEF ReloadWrite, FileTracksMemory, WritePending, CopyInv,
       CopyPending
  <2>6. CASE ReloadWriteFails(l)
    BY <2>6 DEF ReloadWriteFails, FileTracksMemory, WritePending, CopyInv,
       CopyPending
  <2>7. CASE ReloadVersion(l)
    BY FileFrame, <2>7 DEF ReloadVersion, VersionRead
  <2>8. CASE ReloadNote(l)
    BY FileFrame, <2>8 DEF ReloadNote
  <2>9. CASE ReloadGet(l)
    BY FileFrame, <2>9 DEF ReloadGet
  <2>10. CASE ReloadBuild(l)
    BY FileFrame, <2>10 DEF ReloadBuild
  <2> HIDE DEF LocalTypes, Config, Loaders, Reloaders, Goto, LoaderGoto, Up,
        Attached, dbVars, chanVars, startVars, storeVars, histVars, reqVars,
        loadVars, budgetVars
  <2> QED
    BY <1>2, <2>1, <2>2, <2>3, <2>4, <2>5, <2>6, <2>7, <2>8, <2>9, <2>10 DEF
       Reload
<1>3. ASSUME NEW n \in Nodes,
             Notified(n) \/ Poll(n) \/ Listen(n) \/ ListenLost(n)
               \/ Crash(n) \/ Boot(n)
      PROVE  FileTracksMemory'
  <2> USE DEF LocalTypes, Config, Loaders, Reloaders, Goto, LoaderGoto, Up,
        Attached, dbVars, chanVars, startVars, storeVars, histVars, reqVars,
        loadVars, budgetVars
  <2>1. CASE Notified(n)
    BY FileFrame, <2>1 DEF Notified
  <2>2. CASE PollVersion(n)
    BY FileFrame, <2>2 DEF PollVersion
  <2>3. CASE PollVersionFails(n)
    BY FileFrame, <2>3 DEF PollVersionFails
  <2>4. CASE PollCompare(n)
    BY FileFrame, <<n, "poll">> \in Loaders, <2>4 DEF PollCompare
  <2>5. CASE Listen(n)
    BY FileFrame, <2>5 DEF Listen
  <2>6. CASE ListenLost(n)
    BY FileFrame, <2>6 DEF ListenLost
  <2>7. CASE Crash(n)
    <3>1. /\ phase'[n] = "down"
          /\ UNCHANGED file
          /\ \A m \in Nodes : m # n => phase'[m] = phase[m] /\ mem'[m] = mem[m]
      BY <2>7 DEF Crash
    <3>2. \A f \in Edits : Home[f] # n => pc'[f] = pc[f]
      BY <2>7 DEF Crash
    <3>3. \A k \in Loaders : k[1] # n => rpc'[k] = rpc[k]
      BY <2>7 DEF Crash
    <3>4. \A m \in Nodes : m # n => (WritePending(m)' <=> WritePending(m))
      BY <3>2, <3>3 DEF WritePending
    <3> QED
      BY <3>1, <3>4 DEF FileTracksMemory
  <2>8. CASE Start(n)
    BY <2>8 DEF Start, FileTracksMemory, WritePending, CopyInv, CopyPending,
       PhaseInv
  <2>9. CASE ConnectFails(n)
    BY FileFrame, <2>9 DEF ConnectFails, AttachFailed
  <2>10. CASE Connect(n)
    BY FileFrame, <2>10 DEF Connect
  <2>11. CASE AttachLoadFails(n)
    BY FileFrame, <2>11 DEF AttachLoadFails, AttachFailed
  <2>12. CASE AttachLoad(n)
    BY FileFrame, <2>12 DEF AttachLoad
  <2>13. CASE AttachSwap(n)
    BY <2>13 DEF AttachSwap, AttachFailed, VersionRead, FileTracksMemory,
       WritePending, CopyInv, CopyPending, PhaseInv
  <2> HIDE DEF LocalTypes, Config, Loaders, Reloaders, Goto, LoaderGoto, Up,
        Attached, dbVars, chanVars, startVars, storeVars, histVars, reqVars,
        loadVars, budgetVars
  <2> QED
    BY <1>3, <2>1, <2>2, <2>3, <2>4, <2>5, <2>6, <2>7, <2>8, <2>9, <2>10,
       <2>11, <2>12, <2>13 DEF Poll, Boot
<1>4. CASE DbDown
  BY FileFrame, <1>4 DEF LocalTypes, Config, Loaders, Reloaders, Goto,
     LoaderGoto, Up, Attached, dbVars, chanVars, startVars, storeVars,
     histVars, reqVars, loadVars, budgetVars, DbDown
<1>5. CASE DbBack
  BY FileFrame, <1>5 DEF LocalTypes, Config, Loaders, Reloaders, Goto,
     LoaderGoto, Up, Attached, dbVars, chanVars, startVars, storeVars,
     histVars, reqVars, loadVars, budgetVars, DbBack
<1>6. CASE UNCHANGED vars
  BY FileFrame, <1>6 DEF LocalTypes, Config, Loaders, Reloaders, Goto,
     LoaderGoto, Up, Attached, dbVars, chanVars, startVars, storeVars,
     histVars, reqVars, loadVars, budgetVars, vars
<1> QED
  BY <1>1, <1>2, <1>3, <1>4, <1>5, <1>6 DEF Next

\* When no save or reload is about to write, a running node's config.json
\* holds its memory (Store.Save, ReloadFromBytes, SetBackend, config.Load).
THEOREM FileTracking == Spec => []FileTracksMemory
<1>1. Init => FileIInv
  BY HomeAssumption DEF Init, FileIInv, TypeOK, PhaseInv, WriterInv, CopyInv,
     FileTracksMemory, Up, Attached, Config, ReqPoints, LoadPoints, Loaders,
     Reloaders
<1>2. FileIInv /\ [Next]_vars => FileIInv'
  BY TypeStep, PhaseStep, WriterStep, CopyStep, FileStep DEF FileIInv,
     LocalTypes, TypeOK
<1>3. FileIInv => FileTracksMemory
  BY DEF FileIInv
<1> QED
  BY <1>1, <1>2, <1>3, PTL DEF Spec

-----------------------------------------------------------------------------
(* The file of a node that is not attached.                                *)

\* At a detached node Save is the only writer, and its copies only grow.
LEMMA DetachedStep ==
  ASSUME TypeOK, PhaseInv, WriterInv, DetachedInv,
         [Next]_vars
  PROVE  DetachedInv'
<1> USE HomeAssumption
<1>1. ASSUME NEW e \in Edits,
             Apply(e) \/ Request(e) \/ CommitLost(e)
      PROVE  DetachedInv'
  <2> USE DEF TypeOK, Config, Loaders, Reloaders, Goto, LoaderGoto, Up,
        Attached, dbVars, chanVars, startVars, storeVars, histVars, reqVars,
        loadVars, budgetVars, DetachedInv, WriterInv, PhaseInv, SaveMuFree,
        HoldsSaveMu
  <2>1. CASE Apply(e)
    BY <2>1 DEF Apply
  <2>2. CASE SaveCopy(e)
    <3>1. buf' = [buf EXCEPT ![e] = mem[Home[e]]]
      BY <2>2 DEF SaveCopy
    <3>2. \A f \in Edits : f # e => pc'[f] = pc[f] /\ buf'[f] = buf[f]
      BY <2>2 DEF SaveCopy
    <3>3. UNCHANGED <<phase, backend, mem, file>>
      BY <2>2 DEF SaveCopy
    <3>4. Up(Home[e])
      BY <2>2 DEF SaveCopy
    <3>5. ASSUME ~DiskFaults, backend[Home[e]] # "open"
          PROVE  file[Home[e]] \subseteq mem[Home[e]]
      BY <3>4, <3>5
    <3> QED
      BY <3>1, <3>2, <3>3, <3>5
  <2>3. CASE SaveWrite(e)
    BY <2>3 DEF SaveWrite
  <2>4. CASE SaveWriteFails(e)
    BY <2>4 DEF SaveWriteFails
  <2>5. CASE PushCopy(e)
    BY <2>5 DEF PushCopy
  <2>6. CASE Commit(e)
    BY <2>6 DEF Commit, CommitRow
  <2>7. CASE CommitFails(e)
    BY <2>7 DEF CommitFails
  <2>8. CASE CommitLost(e)
    BY <2>8 DEF CommitLost, CommitRow
  <2>9. CASE SaveVersion(e)
    BY <2>9 DEF SaveVersion, VersionRead
  <2>10. CASE RebuildGet(e)
    BY <2>10 DEF RebuildGet
  <2>11. CASE Rebuild(e)
    BY <2>11 DEF Rebuild
  <2> HIDE DEF TypeOK, Config, Loaders, Reloaders, Goto, LoaderGoto, Up,
        Attached, dbVars, chanVars, startVars, storeVars, histVars, reqVars,
        loadVars, budgetVars, DetachedInv, WriterInv, PhaseInv, SaveMuFree,
        HoldsSaveMu
  <2> QED
    BY <1>1, <2>1, <2>2, <2>3, <2>4, <2>5, <2>6, <2>7, <2>8, <2>9, <2>10,
       <2>11 DEF Request
<1>2. ASSUME NEW l \in Loaders,
             Reload(l)
      PROVE  DetachedInv'
  <2> USE DEF TypeOK, Config, Loaders, Reloaders, Goto, LoaderGoto, Up,
        Attached, dbVars, chanVars, startVars, storeVars, histVars, reqVars,
        loadVars, budgetVars, DetachedInv, WriterInv, PhaseInv, SaveMuFree,
        HoldsSaveMu
  <2>1. CASE ReloadLoad(l)
    BY <2>1 DEF ReloadLoad
  <2>2. CASE ReloadLoadFails(l)
    BY <2>2 DEF ReloadLoadFails
  <2>3. CASE ReloadSwap(l)
    BY <2>3 DEF ReloadSwap
  <2>4. CASE ReloadCopy(l)
    BY <2>4 DEF ReloadCopy
  <2>5. CASE ReloadWrite(l)
    BY <2>5 DEF ReloadWrite
  <2>6. CASE ReloadWriteFails(l)
    BY <2>6 DEF ReloadWriteFails
  <2>7. CASE ReloadVersion(l)
    BY <2>7 DEF ReloadVersion, VersionRead
  <2>8. CASE ReloadNote(l)
    BY <2>8 DEF ReloadNote
  <2>9. CASE ReloadGet(l)
    BY <2>9 DEF ReloadGet
  <2>10. CASE ReloadBuild(l)
    BY <2>10 DEF ReloadBuild
  <2> HIDE DEF TypeOK, Config, Loaders, Reloaders, Goto, LoaderGoto, Up,
        Attached, dbVars, chanVars, startVars, storeVars, histVars, reqVars,
        loadVars, budgetVars, DetachedInv, WriterInv, PhaseInv, SaveMuFree,
        HoldsSaveMu
  <2> QED
    BY <1>2, <2>1, <2>2, <2>3, <2>4, <2>5, <2>6, <2>7, <2>8, <2>9, <2>10 DEF
       Reload
<1>3. ASSUME NEW n \in Nodes,
             Notified(n) \/ Poll(n) \/ Listen(n) \/ ListenLost(n)
               \/ Crash(n) \/ Boot(n)
      PROVE  DetachedInv'
  <2> USE DEF TypeOK, Config, Loaders, Reloaders, Goto, LoaderGoto, Up,
        Attached, dbVars, chanVars, startVars, storeVars, histVars, reqVars,
        loadVars, budgetVars, DetachedInv, WriterInv, PhaseInv, SaveMuFree,
        HoldsSaveMu
  <2>1. CASE Notified(n)
    BY <2>1 DEF Notified
  <2>2. CASE PollVersion(n)
    BY <2>2 DEF PollVersion
  <2>3. CASE PollVersionFails(n)
    BY <2>3 DEF PollVersionFails
  <2>4. CASE PollCompare(n)
    BY <2>4 DEF PollCompare
  <2>5. CASE Listen(n)
    BY <2>5 DEF Listen
  <2>6. CASE ListenLost(n)
    BY <2>6 DEF ListenLost
  <2>7. CASE Crash(n)
    BY <2>7 DEF Crash
  <2>8. CASE Start(n)
    BY <2>8 DEF Start
  <2>9. CASE ConnectFails(n)
    BY <2>9 DEF ConnectFails, AttachFailed
  <2>10. CASE Connect(n)
    BY <2>10 DEF Connect
  <2>11. CASE AttachLoadFails(n)
    BY <2>11 DEF AttachLoadFails, AttachFailed
  <2>12. CASE AttachLoad(n)
    BY <2>12 DEF AttachLoad
  <2>13. CASE AttachSwap(n)
    BY <2>13 DEF AttachSwap, AttachFailed, VersionRead
  <2> HIDE DEF TypeOK, Config, Loaders, Reloaders, Goto, LoaderGoto, Up,
        Attached, dbVars, chanVars, startVars, storeVars, histVars, reqVars,
        loadVars, budgetVars, DetachedInv, WriterInv, PhaseInv, SaveMuFree,
        HoldsSaveMu
  <2> QED
    BY <1>3, <2>1, <2>2, <2>3, <2>4, <2>5, <2>6, <2>7, <2>8, <2>9, <2>10,
       <2>11, <2>12, <2>13 DEF Poll, Boot
<1>4. CASE DbDown
  BY <1>4 DEF TypeOK, Config, Loaders, Reloaders, Goto, LoaderGoto, Up,
     Attached, dbVars, chanVars, startVars, storeVars, histVars, reqVars,
     loadVars, budgetVars, DetachedInv, WriterInv, PhaseInv, SaveMuFree,
     HoldsSaveMu, DbDown
<1>5. CASE DbBack
  BY <1>5 DEF TypeOK, Config, Loaders, Reloaders, Goto, LoaderGoto, Up,
     Attached, dbVars, chanVars, startVars, storeVars, histVars, reqVars,
     loadVars, budgetVars, DetachedInv, WriterInv, PhaseInv, SaveMuFree,
     HoldsSaveMu, DbBack
<1>6. CASE UNCHANGED vars
  BY <1>6 DEF TypeOK, Config, Loaders, Reloaders, Goto, LoaderGoto, Up,
     Attached, dbVars, chanVars, startVars, storeVars, histVars, reqVars,
     loadVars, budgetVars, DetachedInv, WriterInv, PhaseInv, SaveMuFree,
     HoldsSaveMu, vars
<1> QED
  BY <1>1, <1>2, <1>3, <1>4, <1>5, <1>6 DEF Next

\* A step takes no change from a detached node's file.
LEMMA DetachedKeepsStep ==
  ASSUME TypeOK, PhaseInv, DetachedInv,
         [Next]_vars
  PROVE  DetachedNext
<1> USE HomeAssumption
<1>1. ASSUME NEW e \in Edits,
             Apply(e) \/ Request(e) \/ CommitLost(e)
      PROVE  DetachedNext
  <2> USE DEF TypeOK, Config, Loaders, Reloaders, Goto, LoaderGoto, Up,
        Attached, dbVars, chanVars, startVars, storeVars, histVars, reqVars,
        loadVars, budgetVars, DetachedInv, PhaseInv, DetachedNext
  <2>1. CASE Apply(e)
    BY <2>1 DEF Apply
  <2>2. CASE SaveCopy(e)
    BY <2>2 DEF SaveCopy
  <2>3. CASE SaveWrite(e)
    BY <2>3 DEF SaveWrite
  <2>4. CASE SaveWriteFails(e)
    BY <2>4 DEF SaveWriteFails
  <2>5. CASE PushCopy(e)
    BY <2>5 DEF PushCopy
  <2>6. CASE Commit(e)
    BY <2>6 DEF Commit, CommitRow
  <2>7. CASE CommitFails(e)
    BY <2>7 DEF CommitFails
  <2>8. CASE CommitLost(e)
    BY <2>8 DEF CommitLost, CommitRow
  <2>9. CASE SaveVersion(e)
    BY <2>9 DEF SaveVersion, VersionRead
  <2>10. CASE RebuildGet(e)
    BY <2>10 DEF RebuildGet
  <2>11. CASE Rebuild(e)
    BY <2>11 DEF Rebuild
  <2> HIDE DEF TypeOK, Config, Loaders, Reloaders, Goto, LoaderGoto, Up,
        Attached, dbVars, chanVars, startVars, storeVars, histVars, reqVars,
        loadVars, budgetVars, DetachedInv, PhaseInv, DetachedNext
  <2> QED
    BY <1>1, <2>1, <2>2, <2>3, <2>4, <2>5, <2>6, <2>7, <2>8, <2>9, <2>10,
       <2>11 DEF Request
<1>2. ASSUME NEW l \in Loaders,
             Reload(l)
      PROVE  DetachedNext
  <2> USE DEF TypeOK, Config, Loaders, Reloaders, Goto, LoaderGoto, Up,
        Attached, dbVars, chanVars, startVars, storeVars, histVars, reqVars,
        loadVars, budgetVars, DetachedInv, PhaseInv, DetachedNext
  <2>1. CASE ReloadLoad(l)
    BY <2>1 DEF ReloadLoad
  <2>2. CASE ReloadLoadFails(l)
    BY <2>2 DEF ReloadLoadFails
  <2>3. CASE ReloadSwap(l)
    BY <2>3 DEF ReloadSwap
  <2>4. CASE ReloadCopy(l)
    BY <2>4 DEF ReloadCopy
  <2>5. CASE ReloadWrite(l)
    BY <2>5 DEF ReloadWrite
  <2>6. CASE ReloadWriteFails(l)
    BY <2>6 DEF ReloadWriteFails
  <2>7. CASE ReloadVersion(l)
    BY <2>7 DEF ReloadVersion, VersionRead
  <2>8. CASE ReloadNote(l)
    BY <2>8 DEF ReloadNote
  <2>9. CASE ReloadGet(l)
    BY <2>9 DEF ReloadGet
  <2>10. CASE ReloadBuild(l)
    BY <2>10 DEF ReloadBuild
  <2> HIDE DEF TypeOK, Config, Loaders, Reloaders, Goto, LoaderGoto, Up,
        Attached, dbVars, chanVars, startVars, storeVars, histVars, reqVars,
        loadVars, budgetVars, DetachedInv, PhaseInv, DetachedNext
  <2> QED
    BY <1>2, <2>1, <2>2, <2>3, <2>4, <2>5, <2>6, <2>7, <2>8, <2>9, <2>10 DEF
       Reload
<1>3. ASSUME NEW n \in Nodes,
             Notified(n) \/ Poll(n) \/ Listen(n) \/ ListenLost(n)
               \/ Crash(n) \/ Boot(n)
      PROVE  DetachedNext
  <2> USE DEF TypeOK, Config, Loaders, Reloaders, Goto, LoaderGoto, Up,
        Attached, dbVars, chanVars, startVars, storeVars, histVars, reqVars,
        loadVars, budgetVars, DetachedInv, PhaseInv, DetachedNext
  <2>1. CASE Notified(n)
    BY <2>1 DEF Notified
  <2>2. CASE PollVersion(n)
    BY <2>2 DEF PollVersion
  <2>3. CASE PollVersionFails(n)
    BY <2>3 DEF PollVersionFails
  <2>4. CASE PollCompare(n)
    BY <2>4 DEF PollCompare
  <2>5. CASE Listen(n)
    BY <2>5 DEF Listen
  <2>6. CASE ListenLost(n)
    BY <2>6 DEF ListenLost
  <2>7. CASE Crash(n)
    BY <2>7 DEF Crash
  <2>8. CASE Start(n)
    BY <2>8 DEF Start
  <2>9. CASE ConnectFails(n)
    BY <2>9 DEF ConnectFails, AttachFailed
  <2>10. CASE Connect(n)
    BY <2>10 DEF Connect
  <2>11. CASE AttachLoadFails(n)
    BY <2>11 DEF AttachLoadFails, AttachFailed
  <2>12. CASE AttachLoad(n)
    BY <2>12 DEF AttachLoad
  <2>13. CASE AttachSwap(n)
    <3>1. backend[n] = "open"
      BY <2>13 DEF AttachSwap
    <3>2. \A m \in Nodes : m # n => file'[m] = file[m]
      BY <2>13 DEF AttachSwap
    <3> QED
      BY <3>1, <3>2
  <2> HIDE DEF TypeOK, Config, Loaders, Reloaders, Goto, LoaderGoto, Up,
        Attached, dbVars, chanVars, startVars, storeVars, histVars, reqVars,
        loadVars, budgetVars, DetachedInv, PhaseInv, DetachedNext
  <2> QED
    BY <1>3, <2>1, <2>2, <2>3, <2>4, <2>5, <2>6, <2>7, <2>8, <2>9, <2>10,
       <2>11, <2>12, <2>13 DEF Poll, Boot
<1>4. CASE DbDown
  BY <1>4 DEF TypeOK, Config, Loaders, Reloaders, Goto, LoaderGoto, Up,
     Attached, dbVars, chanVars, startVars, storeVars, histVars, reqVars,
     loadVars, budgetVars, DetachedInv, PhaseInv, DetachedNext, DbDown
<1>5. CASE DbBack
  BY <1>5 DEF TypeOK, Config, Loaders, Reloaders, Goto, LoaderGoto, Up,
     Attached, dbVars, chanVars, startVars, storeVars, histVars, reqVars,
     loadVars, budgetVars, DetachedInv, PhaseInv, DetachedNext, DbBack
<1>6. CASE UNCHANGED vars
  BY <1>6 DEF TypeOK, Config, Loaders, Reloaders, Goto, LoaderGoto, Up,
     Attached, dbVars, chanVars, startVars, storeVars, histVars, reqVars,
     loadVars, budgetVars, DetachedInv, PhaseInv, DetachedNext, vars
<1> QED
  BY <1>1, <1>2, <1>3, <1>4, <1>5, <1>6 DEF Next

\* The file of a node that is not attached never loses a change, crashes
\* included (Save's copy and write under saveMu, config.Load).
THEOREM DetachedFileSafe == Spec => DetachedFileKeepsChanges
<1>1. Init => DetachedIInv
  BY HomeAssumption DEF Init, DetachedIInv, TypeOK, PhaseInv, WriterInv,
     DetachedInv, Up, Attached, Config, ReqPoints, LoadPoints, Loaders,
     Reloaders
<1>2. DetachedIInv /\ [Next]_vars => DetachedIInv'
  BY TypeStep, PhaseStep, WriterStep, DetachedStep DEF DetachedIInv
<1>3. DetachedIInv /\ [Next]_vars => [DetachedNext]_vars
  BY DetachedKeepsStep DEF DetachedIInv
<1> QED
  BY <1>1, <1>2, <1>3, PTL DEF Spec, DetachedFileKeepsChanges, DetachedNext
-----------------------------------------------------------------------------
(* Changes made at a member at rest.                                       *)

\* Until it commits, a request's member keeps the row and its change: no other
\* panel saves, and neither a notification nor the poll makes it reload.
LEMMA CalmStep ==
  ASSUME TypeOK, CalmInv,
         [Next]_vars
  PROVE  CalmInv'
<1> USE HomeAssumption
<1>1. ASSUME NEW e \in Edits,
             Apply(e) \/ Request(e) \/ CommitLost(e)
      PROVE  CalmInv'
  <2> USE DEF TypeOK, Config, Loaders, Reloaders, Goto, LoaderGoto, Up,
        Attached, dbVars, chanVars, startVars, storeVars, histVars, reqVars,
        loadVars, budgetVars, CalmInv, OneRequest, Steady, Landed,
        Active, Undisturbed
  <2>1. CASE Apply(e)
    <3> SUFFICES ASSUME hurried' = {}
                 PROVE  OneRequest' /\ Steady' /\ Landed'
      OBVIOUS
    <3>1. hurried = {} /\ Calm(Home[e])
      BY <2>1 DEF Apply
    <3>2. \A f \in Edits : ~Active(f)
      BY <3>1 DEF Calm
    <3>3. \A f \in Edits \ {e} : pc'[f] = pc[f]
      BY <2>1 DEF Apply
    <3>4. OneRequest' /\ Landed'
      BY <2>1, <3>1, <3>2, <3>3 DEF Apply
    <3>5. <<Home[e], "watch">> \in Loaders /\ <<Home[e], "poll">> \in Loaders
      OBVIOUS
    <3>6. Undisturbed(Home[e])'
      BY <2>1, <3>1, <3>5 DEF Apply, Calm, Settled
    <3>7. mem'[Home[e]] = dbCfg' \cup {e} /\ pc'[e] = "local"
      BY <2>1, <3>1 DEF Apply, Calm
    <3> QED
      BY <3>2, <3>3, <3>4, <3>6, <3>7
  <2>2. CASE SaveCopy(e)
    BY <2>2 DEF SaveCopy
  <2>3. CASE SaveWrite(e)
    <3>1. hurried = {} => Attached(Home[e]) /\ pc' = [pc EXCEPT ![e] = "push"]
      BY <2>3 DEF SaveWrite
    <3> QED
      BY <2>3, <3>1 DEF SaveWrite
  <2>4. CASE SaveWriteFails(e)
    BY <2>4 DEF SaveWriteFails
  <2>5. CASE PushCopy(e)
    BY <2>5 DEF PushCopy
  <2>6. CASE Commit(e)
    <3> SUFFICES ASSUME hurried = {}
                 PROVE  OneRequest' /\ Steady' /\ Landed'
      BY <2>6 DEF Commit
    <3>1. \A f \in Edits \ {e} : pc'[f] = pc[f] /\ ~Active(f)
      BY <2>6 DEF Commit
    <3>2. dbCfg' = dbCfg \cup {e} /\ pc'[e] = "version"
      BY <2>6 DEF Commit, CommitRow
    <3> QED
      BY <3>1, <3>2
  <2>7. CASE CommitFails(e)
    BY <2>7 DEF CommitFails
  <2>8. CASE CommitLost(e)
    <3> SUFFICES ASSUME hurried = {}
                 PROVE  OneRequest' /\ Steady' /\ Landed'
      BY <2>8 DEF CommitLost
    <3>1. \A f \in Edits \ {e} : pc'[f] = pc[f] /\ ~Active(f)
      BY <2>8 DEF CommitLost
    <3>2. dbCfg' = dbCfg \cup {e} /\ pc'[e] = "failed"
      BY <2>8 DEF CommitLost, CommitRow
    <3> QED
      BY <3>1, <3>2
  <2>9. CASE SaveVersion(e)
    <3> SUFFICES ASSUME hurried = {}
                 PROVE  OneRequest' /\ Steady' /\ Landed'
      BY <2>9 DEF SaveVersion
    <3>1. \A f \in Edits \ {e} : pc'[f] = pc[f] /\ ~Active(f)
      BY <2>9 DEF SaveVersion
    <3>2. dbCfg' = dbCfg /\ pc[e] = "version" /\ pc'[e] = "get"
      BY <2>9 DEF SaveVersion
    <3> QED
      BY <3>1, <3>2
  <2>10. CASE RebuildGet(e)
    BY <2>10 DEF RebuildGet
  <2>11. CASE Rebuild(e)
    BY <2>11 DEF Rebuild
  <2> HIDE DEF TypeOK, Config, Loaders, Reloaders, Goto, LoaderGoto, Up,
        Attached, dbVars, chanVars, startVars, storeVars, histVars, reqVars,
        loadVars, budgetVars, CalmInv, OneRequest, Steady, Landed,
        Active, Undisturbed
  <2> QED
    BY <1>1, <2>1, <2>2, <2>3, <2>4, <2>5, <2>6, <2>7, <2>8, <2>9, <2>10,
       <2>11 DEF Request
<1>2. ASSUME NEW l \in Loaders,
             Reload(l)
      PROVE  CalmInv'
  <2> USE DEF TypeOK, Config, Loaders, Reloaders, Goto, LoaderGoto, Up,
        Attached, dbVars, chanVars, startVars, storeVars, histVars, reqVars,
        loadVars, budgetVars, CalmInv, OneRequest, Steady, Landed,
        Active, Undisturbed
  <2>1. CASE ReloadLoad(l)
    BY <2>1 DEF ReloadLoad
  <2>2. CASE ReloadLoadFails(l)
    BY <2>2 DEF ReloadLoadFails
  <2>3. CASE ReloadSwap(l)
    BY <2>3 DEF ReloadSwap
  <2>4. CASE ReloadCopy(l)
    BY <2>4 DEF ReloadCopy
  <2>5. CASE ReloadWrite(l)
    BY <2>5 DEF ReloadWrite
  <2>6. CASE ReloadWriteFails(l)
    BY <2>6 DEF ReloadWriteFails
  <2>7. CASE ReloadVersion(l)
    BY <2>7 DEF ReloadVersion, VersionRead
  <2>8. CASE ReloadNote(l)
    BY <2>8 DEF ReloadNote
  <2>9. CASE ReloadGet(l)
    BY <2>9 DEF ReloadGet
  <2>10. CASE ReloadBuild(l)
    BY <2>10 DEF ReloadBuild
  <2> HIDE DEF TypeOK, Config, Loaders, Reloaders, Goto, LoaderGoto, Up,
        Attached, dbVars, chanVars, startVars, storeVars, histVars, reqVars,
        loadVars, budgetVars, CalmInv, OneRequest, Steady, Landed,
        Active, Undisturbed
  <2> QED
    BY <1>2, <2>1, <2>2, <2>3, <2>4, <2>5, <2>6, <2>7, <2>8, <2>9, <2>10 DEF
       Reload
<1>3. ASSUME NEW n \in Nodes,
             Notified(n) \/ Poll(n) \/ Listen(n) \/ ListenLost(n)
               \/ Crash(n) \/ Boot(n)
      PROVE  CalmInv'
  <2> USE DEF TypeOK, Config, Loaders, Reloaders, Goto, LoaderGoto, Up,
        Attached, dbVars, chanVars, startVars, storeVars, histVars, reqVars,
        loadVars, budgetVars, CalmInv, OneRequest, Steady, Landed,
        Active, Undisturbed
  <2>1. CASE Notified(n)
    BY <2>1 DEF Notified
  <2>2. CASE PollVersion(n)
    BY <2>2 DEF PollVersion
  <2>3. CASE PollVersionFails(n)
    BY <2>3 DEF PollVersionFails
  <2>4. CASE PollCompare(n)
    <3>1. <<n, "poll">> \in Loaders
      OBVIOUS
    <3>2. \A l \in Loaders \ {<<n, "poll">>} : rpc'[l] = rpc[l] /\ rver'[l] = rver[l]
      BY <2>4, <3>1 DEF PollCompare
    <3>3. rver[<<n, "poll">>] = lastVer[n] => rpc'[<<n, "poll">>] = "idle"
      BY <2>4, <3>1 DEF PollCompare
    <3>4. /\ rpc[<<n, "poll">>] = "compare"
          /\ UNCHANGED <<dbVars, chanVars, startVars, mem, lastVer, reqVars>>
      BY <2>4 DEF PollCompare
    <3>5. ASSUME NEW m \in Nodes, Undisturbed(m)
          PROVE  Undisturbed(m)'
      BY <3>1, <3>2, <3>3, <3>4, <3>5
    <3> QED
      BY <3>4, <3>5
  <2>5. CASE Listen(n)
    BY <2>5 DEF Listen
  <2>6. CASE ListenLost(n)
    BY <2>6 DEF ListenLost, LoseListen
  <2>7. CASE Crash(n)
    BY <2>7 DEF Crash, LoseListen
  <2>8. CASE Start(n)
    BY <2>8 DEF Start
  <2>9. CASE ConnectFails(n)
    BY <2>9 DEF ConnectFails, AttachFailed
  <2>10. CASE Connect(n)
    BY <2>10 DEF Connect
  <2>11. CASE AttachLoadFails(n)
    BY <2>11 DEF AttachLoadFails, AttachFailed
  <2>12. CASE AttachLoad(n)
    BY <2>12 DEF AttachLoad
  <2>13. CASE AttachSwap(n)
    BY <2>13 DEF AttachSwap, AttachFailed, VersionRead
  <2> HIDE DEF TypeOK, Config, Loaders, Reloaders, Goto, LoaderGoto, Up,
        Attached, dbVars, chanVars, startVars, storeVars, histVars, reqVars,
        loadVars, budgetVars, CalmInv, OneRequest, Steady, Landed,
        Active, Undisturbed
  <2> QED
    BY <1>3, <2>1, <2>2, <2>3, <2>4, <2>5, <2>6, <2>7, <2>8, <2>9, <2>10,
       <2>11, <2>12, <2>13 DEF Poll, Boot
<1>4. CASE DbDown
  BY <1>4 DEF TypeOK, Config, Loaders, Reloaders, Goto, LoaderGoto, Up,
     Attached, dbVars, chanVars, startVars, storeVars, histVars, reqVars,
     loadVars, budgetVars, CalmInv, OneRequest, Steady, Landed,
        Active, Undisturbed, DbDown, LoseListen
<1>5. CASE DbBack
  BY <1>5 DEF TypeOK, Config, Loaders, Reloaders, Goto, LoaderGoto, Up,
     Attached, dbVars, chanVars, startVars, storeVars, histVars, reqVars,
     loadVars, budgetVars, CalmInv, OneRequest, Steady, Landed,
        Active, Undisturbed, DbBack
<1>6. CASE UNCHANGED vars
  BY <1>6 DEF TypeOK, Config, Loaders, Reloaders, Goto, LoaderGoto, Up,
     Attached, dbVars, chanVars, startVars, storeVars, histVars, reqVars,
     loadVars, budgetVars, CalmInv, OneRequest, Steady, Landed,
        Active, Undisturbed, vars
<1> QED
  BY <1>1, <1>2, <1>3, <1>4, <1>5, <1>6 DEF Next

\* While every change is made at a member that is at rest with the row, each that
\* is acknowledged is in the row and stays there, whatever the outages, lost
\* notifications, polls and restarts (Save against reload, SetBackend and the
\* other panels).
THEOREM CalmSurvival == Spec => []CalmChangesSurvive
<1>1. Init => TypeOK /\ CalmInv
  BY HomeAssumption DEF Init, TypeOK, CalmInv, OneRequest, Steady, Landed, Active, Config,
     ReqPoints, LoadPoints, Loaders, Reloaders
<1>2. TypeOK /\ CalmInv /\ [Next]_vars => TypeOK' /\ CalmInv'
  BY TypeStep, CalmStep
<1>3. CalmInv => CalmChangesSurvive
  BY DEF CalmInv, Landed, CalmChangesSurvive
<1> QED
  BY <1>1, <1>2, <1>3, PTL DEF Spec

-----------------------------------------------------------------------------
(* The row as a register that no writer overwrites.                        *)

Answered == {e \in Edits : pc[e] = "done"}
Register == INSTANCE ConfigRegister WITH row <- dbCfg, answered <- Answered

\* A step in the calm adds one change to the row, or acknowledges one that is
\* there, or is nothing to the register.
LEMMA RegisterStep ==
  ASSUME TypeOK, CalmInv, hurried = {},
         [Next]_vars
  PROVE  [Register!Next]_<<dbCfg, Answered>>
<1> USE HomeAssumption
<1> DEFINE Same == dbCfg' = dbCfg /\ Answered' = Answered
<1>1. ASSUME NEW e \in Edits,
             pc' = [pc EXCEPT ![e] = pc'[e]], pc[e] # "done", pc'[e] # "done"
      PROVE  Answered' = Answered
  BY <1>1 DEF TypeOK, Answered
<1>2. ASSUME NEW e \in Edits, pc' = [pc EXCEPT ![e] = pc'[e]],
             pc[e] = "commit", pc'[e] # "done", CommitRow(buf[e])
      PROVE  Register!Commit(e)
  <2>1. buf[e] = dbCfg \cup {e}
    BY <1>2 DEF CalmInv, Steady
  <2> QED
    BY <1>1, <1>2, <2>1 DEF CommitRow, Register!Commit
<1>3. ASSUME NEW e \in Edits, Apply(e) \/ Request(e) \/ CommitLost(e)
      PROVE  Register!Next \/ Same
  <2>1. CASE Commit(e)
    BY <1>2, <2>1 DEF Commit, Goto, TypeOK, Register!Next
  <2>2. CASE CommitLost(e)
    BY <1>2, <2>2 DEF CommitLost, Goto, TypeOK, Register!Next
  <2>3. CASE Rebuild(e)
    <3>1. e \in dbCfg
      BY <2>3 DEF Rebuild, CalmInv, Landed
    <3>2. Answered' = Answered \cup {e} /\ dbCfg' = dbCfg
      BY <2>3 DEF Rebuild, Goto, dbVars, TypeOK, Answered
    <3> QED
      BY <3>1, <3>2 DEF Register!Answer, Register!Next
  <2>4. CASE Apply(e) \/ SaveCopy(e) \/ SaveWrite(e) \/ SaveWriteFails(e)
             \/ PushCopy(e) \/ CommitFails(e) \/ SaveVersion(e) \/ RebuildGet(e)
    <3>1. /\ pc' = [pc EXCEPT ![e] = pc'[e]]
          /\ pc[e] # "done" /\ pc'[e] # "done"
          /\ dbCfg' = dbCfg
      BY <2>4 DEF Apply, SaveCopy, SaveWrite, SaveWriteFails, PushCopy,
         CommitFails, SaveVersion, RebuildGet, Goto, dbVars, TypeOK
    <3> QED
      BY <1>1, <3>1
  <2> QED
    BY <1>3, <2>1, <2>2, <2>3, <2>4 DEF Request
<1>4. ASSUME NEW l \in Loaders, Reload(l)
      PROVE  Same
  BY <1>4 DEF Reload, ReloadLoad, ReloadLoadFails, ReloadSwap, ReloadCopy,
     ReloadWrite, ReloadWriteFails, ReloadVersion, ReloadNote, ReloadGet,
     ReloadBuild, dbVars, reqVars, Answered
<1>5. ASSUME NEW n \in Nodes,
             \/ Notified(n) \/ Poll(n) \/ Listen(n) \/ ListenLost(n)
             \/ Crash(n) \/ Boot(n)
      PROVE  Same
  <2>1. CASE Crash(n)
    <3>1. \A e \in Edits : pc'[e] = "done" <=> pc[e] = "done"
      BY <2>1 DEF Crash
    <3> QED
      BY <2>1, <3>1 DEF Crash, dbVars, Answered
  <2>2. CASE Boot(n)
    BY <2>2 DEF Boot, Start, ConnectFails, Connect, AttachLoadFails,
       AttachLoad, AttachSwap, dbVars, reqVars, Answered
  <2>3. CASE Notified(n) \/ Poll(n) \/ Listen(n) \/ ListenLost(n)
    BY <2>3 DEF Notified, Poll, PollVersion, PollVersionFails, PollCompare,
       Listen, ListenLost, dbVars, reqVars, Answered
  <2> QED
    BY <1>5, <2>1, <2>2, <2>3
<1>6. CASE DbDown \/ DbBack
  BY <1>6 DEF DbDown, DbBack, reqVars, Answered
<1>7. CASE UNCHANGED vars
  BY <1>7 DEF vars, dbVars, reqVars, Answered
<1> QED
  BY <1>3, <1>4, <1>5, <1>6, <1>7 DEF Next

\* For as long as every change is made at a member at rest, the cluster is one
\* atomic register: each commit adds a change to all the earlier ones, and what
\* is acknowledged is there (Save, PgBackend.Save, the reloads, SetBackend).
THEOREM CalmImplementsRegister ==
  Spec => ([](hurried = {}) => Register!Spec)
<1>1. Init => TypeOK /\ CalmInv /\ Register!Init
  BY HomeAssumption DEF Init, TypeOK, CalmInv, OneRequest, Steady, Landed,
     Active, Config, ReqPoints, LoadPoints, Loaders, Reloaders, Register!Init,
     Answered
<1>2. TypeOK /\ CalmInv /\ [Next]_vars => TypeOK' /\ CalmInv'
  BY TypeStep, CalmStep
<1>3. TypeOK /\ CalmInv /\ hurried = {} /\ [Next]_vars
        => [Register!Next]_<<dbCfg, Answered>>
  BY RegisterStep
<1> QED
  BY <1>1, <1>2, <1>3, PTL DEF Spec, Register!Spec

-----------------------------------------------------------------------------
(* Changes that are not in the row, and files of nodes that are alone.     *)

\* A change that no commit has published is nowhere but at its own node.
OwnInv ==
    \A e \in Edits :
      e \notin published =>
        /\ \A n \in Nodes :
             n # Home[e] => e \notin mem[n] \cup file[n] \cup engine[n]
        /\ \A f \in Edits : Home[f] # Home[e] => e \notin buf[f]
        /\ \A l \in Loaders : l[1] # Home[e] => e \notin rcfg[l]

\* Nobody reads what was not committed: a change is in the memory, the file or
\* the routes of another node only if some commit has published it, whatever
\* copies, reloads, starts and failed commits cross.
UnpublishedStaysHome ==
    \A e \in Edits, n \in Nodes :
      e \in mem[n] \cup file[n] \cup engine[n] => Home[e] = n \/ e \in published

\* What leaves a node leaves it by the row.
LEMMA OwnStep ==
  ASSUME TypeOK, PhaseInv, RowInv, OwnInv,
         [Next]_vars
  PROVE  OwnInv'
<1> USE HomeAssumption
<1>1. ASSUME NEW e \in Edits,
             Apply(e) \/ Request(e) \/ CommitLost(e)
      PROVE  OwnInv'
  <2> USE DEF TypeOK, Config, Loaders, Reloaders, Goto, LoaderGoto, Up,
        Attached, dbVars, chanVars, startVars, storeVars, histVars, reqVars,
        loadVars, budgetVars, OwnInv, RowInv
  <2>1. CASE Apply(e)
    BY <2>1 DEF Apply
  <2>2. CASE SaveCopy(e)
    BY <2>2 DEF SaveCopy
  <2>3. CASE SaveWrite(e)
    BY <2>3 DEF SaveWrite
  <2>4. CASE SaveWriteFails(e)
    BY <2>4 DEF SaveWriteFails
  <2>5. CASE PushCopy(e)
    BY <2>5 DEF PushCopy
  <2>6. CASE Commit(e)
    BY <2>6 DEF Commit, CommitRow
  <2>7. CASE CommitFails(e)
    BY <2>7 DEF CommitFails
  <2>8. CASE CommitLost(e)
    BY <2>8 DEF CommitLost, CommitRow
  <2>9. CASE SaveVersion(e)
    BY <2>9 DEF SaveVersion, VersionRead
  <2>10. CASE RebuildGet(e)
    BY <2>10 DEF RebuildGet
  <2>11. CASE Rebuild(e)
    BY <2>11 DEF Rebuild
  <2> HIDE DEF TypeOK, Config, Loaders, Reloaders, Goto, LoaderGoto, Up,
        Attached, dbVars, chanVars, startVars, storeVars, histVars, reqVars,
        loadVars, budgetVars, OwnInv, RowInv
  <2> QED
    BY <1>1, <2>1, <2>2, <2>3, <2>4, <2>5, <2>6, <2>7, <2>8, <2>9, <2>10,
       <2>11 DEF Request
<1>2. ASSUME NEW l \in Loaders,
             Reload(l)
      PROVE  OwnInv'
  <2> USE DEF TypeOK, Config, Loaders, Reloaders, Goto, LoaderGoto, Up,
        Attached, dbVars, chanVars, startVars, storeVars, histVars, reqVars,
        loadVars, budgetVars, OwnInv, RowInv
  <2>1. CASE ReloadLoad(l)
    BY <2>1 DEF ReloadLoad
  <2>2. CASE ReloadLoadFails(l)
    BY <2>2 DEF ReloadLoadFails
  <2>3. CASE ReloadSwap(l)
    BY <2>3 DEF ReloadSwap
  <2>4. CASE ReloadCopy(l)
    BY <2>4 DEF ReloadCopy
  <2>5. CASE ReloadWrite(l)
    BY <2>5 DEF ReloadWrite
  <2>6. CASE ReloadWriteFails(l)
    BY <2>6 DEF ReloadWriteFails
  <2>7. CASE ReloadVersion(l)
    BY <2>7 DEF ReloadVersion, VersionRead
  <2>8. CASE ReloadNote(l)
    BY <2>8 DEF ReloadNote
  <2>9. CASE ReloadGet(l)
    BY <2>9 DEF ReloadGet
  <2>10. CASE ReloadBuild(l)
    BY <2>10 DEF ReloadBuild
  <2> HIDE DEF TypeOK, Config, Loaders, Reloaders, Goto, LoaderGoto, Up,
        Attached, dbVars, chanVars, startVars, storeVars, histVars, reqVars,
        loadVars, budgetVars, OwnInv, RowInv
  <2> QED
    BY <1>2, <2>1, <2>2, <2>3, <2>4, <2>5, <2>6, <2>7, <2>8, <2>9, <2>10 DEF
       Reload
<1>3. ASSUME NEW n \in Nodes,
             Notified(n) \/ Poll(n) \/ Listen(n) \/ ListenLost(n)
               \/ Crash(n) \/ Boot(n)
      PROVE  OwnInv'
  <2> USE DEF TypeOK, Config, Loaders, Reloaders, Goto, LoaderGoto, Up,
        Attached, dbVars, chanVars, startVars, storeVars, histVars, reqVars,
        loadVars, budgetVars, OwnInv, RowInv
  <2>1. CASE Notified(n)
    BY <2>1 DEF Notified
  <2>2. CASE PollVersion(n)
    BY <2>2 DEF PollVersion
  <2>3. CASE PollVersionFails(n)
    BY <2>3 DEF PollVersionFails
  <2>4. CASE PollCompare(n)
    BY <2>4 DEF PollCompare
  <2>5. CASE Listen(n)
    BY <2>5 DEF Listen
  <2>6. CASE ListenLost(n)
    BY <2>6 DEF ListenLost
  <2>7. CASE Crash(n)
    BY <2>7 DEF Crash
  <2>8. CASE Start(n)
    BY <2>8 DEF Start
  <2>9. CASE ConnectFails(n)
    BY <2>9 DEF ConnectFails, AttachFailed
  <2>10. CASE Connect(n)
    BY <2>10 DEF Connect
  <2>11. CASE AttachLoadFails(n)
    BY <2>11 DEF AttachLoadFails, AttachFailed
  <2>12. CASE AttachLoad(n)
    BY <2>12 DEF AttachLoad
  <2>13. CASE AttachSwap(n)
    BY <2>13 DEF AttachSwap, AttachFailed, VersionRead
  <2> HIDE DEF TypeOK, Config, Loaders, Reloaders, Goto, LoaderGoto, Up,
        Attached, dbVars, chanVars, startVars, storeVars, histVars, reqVars,
        loadVars, budgetVars, OwnInv, RowInv
  <2> QED
    BY <1>3, <2>1, <2>2, <2>3, <2>4, <2>5, <2>6, <2>7, <2>8, <2>9, <2>10,
       <2>11, <2>12, <2>13 DEF Poll, Boot
<1>4. CASE DbDown
  BY <1>4 DEF TypeOK, Config, Loaders, Reloaders, Goto, LoaderGoto, Up,
     Attached, dbVars, chanVars, startVars, storeVars, histVars, reqVars,
     loadVars, budgetVars, OwnInv, RowInv, DbDown
<1>5. CASE DbBack
  BY <1>5 DEF TypeOK, Config, Loaders, Reloaders, Goto, LoaderGoto, Up,
     Attached, dbVars, chanVars, startVars, storeVars, histVars, reqVars,
     loadVars, budgetVars, OwnInv, RowInv, DbBack
<1>6. CASE UNCHANGED vars
  BY <1>6 DEF TypeOK, Config, Loaders, Reloaders, Goto, LoaderGoto, Up,
     Attached, dbVars, chanVars, startVars, storeVars, histVars, reqVars,
     loadVars, budgetVars, OwnInv, RowInv, vars
<1> QED
  BY <1>1, <1>2, <1>3, <1>4, <1>5, <1>6 DEF Next


\* A change that was refused, or is yet to be committed, is not seen at another
\* node, in its routes least of all (Save, reload, SetBackend).
THEOREM NoUncommittedReads == Spec => []UnpublishedStaysHome
<1> DEFINE IInv == TypeOK /\ PhaseInv /\ RowInv /\ OwnInv
<1>1. Init => IInv
  BY HomeAssumption DEF Init, TypeOK, PhaseInv, RowInv, OwnInv, Up, Attached,
     Config, ReqPoints, LoadPoints, Loaders, Reloaders
<1>2. IInv /\ [Next]_vars => IInv'
  BY TypeStep, PhaseStep, RowStep, OwnStep
<1>3. IInv => UnpublishedStaysHome
  BY DEF OwnInv, UnpublishedStaysHome
<1> QED
  BY <1>1, <1>2, <1>3, PTL DEF Spec

-----------------------------------------------------------------------------
(* What a node that is alone has answered is in its file.                  *)

\* Save has written the file for the request.
Saved(e) == pc[e] \in {"push", "commit", "version", "get", "build"}

\* At a node that is not attached a change under way stays in memory, and once
\* written it is in the file and in whatever will be written next.
WrittenInv ==
    \A e \in Edits :
      backend[Home[e]] # "open" =>
        /\ Active(e) => e \in mem[Home[e]]
        /\ pc[e] = "write" => e \in buf[e]
        /\ Saved(e) =>
             /\ e \in file[Home[e]]
             /\ \A f \in Edits :
                  pc[f] = "write" /\ Home[f] = Home[e] => e \in buf[f]

\* A node that is not attached answers a change only when its file has it, with
\* other requests saving at the same time and writes that fail.
AnsweredIsInFile ==
    \A e \in Edits :
      backend[Home[e]] # "open" /\ pc[e] \in {"get", "build"}
        => e \in file[Home[e]]

\* saveMu orders the copies: who copies later has what was written before.
LEMMA WrittenStep ==
  ASSUME TypeOK, PhaseInv, WriterInv, WrittenInv,
         [Next]_vars
  PROVE  WrittenInv'
<1> USE HomeAssumption
<1>1. ASSUME NEW e \in Edits,
             Apply(e) \/ Request(e) \/ CommitLost(e)
      PROVE  WrittenInv'
  <2> USE DEF TypeOK, Config, Loaders, Reloaders, Goto, LoaderGoto, Up,
        Attached, dbVars, chanVars, startVars, storeVars, histVars, reqVars,
        loadVars, budgetVars, WrittenInv, WriterInv, PhaseInv, Active,
        Saved, SaveMuFree, HoldsSaveMu
  <2>1. CASE Apply(e)
    BY <2>1 DEF Apply
  <2>2. CASE SaveCopy(e)
    BY <2>2 DEF SaveCopy
  <2>3. CASE SaveWrite(e)
    BY <2>3 DEF SaveWrite
  <2>4. CASE SaveWriteFails(e)
    BY <2>4 DEF SaveWriteFails
  <2>5. CASE PushCopy(e)
    BY <2>5 DEF PushCopy
  <2>6. CASE Commit(e)
    BY <2>6 DEF Commit, CommitRow
  <2>7. CASE CommitFails(e)
    BY <2>7 DEF CommitFails
  <2>8. CASE CommitLost(e)
    BY <2>8 DEF CommitLost, CommitRow
  <2>9. CASE SaveVersion(e)
    BY <2>9 DEF SaveVersion, VersionRead
  <2>10. CASE RebuildGet(e)
    BY <2>10 DEF RebuildGet
  <2>11. CASE Rebuild(e)
    BY <2>11 DEF Rebuild
  <2> HIDE DEF TypeOK, Config, Loaders, Reloaders, Goto, LoaderGoto, Up,
        Attached, dbVars, chanVars, startVars, storeVars, histVars, reqVars,
        loadVars, budgetVars, WrittenInv, WriterInv, PhaseInv, Active,
        Saved, SaveMuFree, HoldsSaveMu
  <2> QED
    BY <1>1, <2>1, <2>2, <2>3, <2>4, <2>5, <2>6, <2>7, <2>8, <2>9, <2>10,
       <2>11 DEF Request
<1>2. ASSUME NEW l \in Loaders,
             Reload(l)
      PROVE  WrittenInv'
  <2> USE DEF TypeOK, Config, Loaders, Reloaders, Goto, LoaderGoto, Up,
        Attached, dbVars, chanVars, startVars, storeVars, histVars, reqVars,
        loadVars, budgetVars, WrittenInv, WriterInv, PhaseInv, Active,
        Saved, SaveMuFree, HoldsSaveMu
  <2>1. CASE ReloadLoad(l)
    BY <2>1 DEF ReloadLoad
  <2>2. CASE ReloadLoadFails(l)
    BY <2>2 DEF ReloadLoadFails
  <2>3. CASE ReloadSwap(l)
    BY <2>3 DEF ReloadSwap
  <2>4. CASE ReloadCopy(l)
    BY <2>4 DEF ReloadCopy
  <2>5. CASE ReloadWrite(l)
    BY <2>5 DEF ReloadWrite
  <2>6. CASE ReloadWriteFails(l)
    BY <2>6 DEF ReloadWriteFails
  <2>7. CASE ReloadVersion(l)
    BY <2>7 DEF ReloadVersion, VersionRead
  <2>8. CASE ReloadNote(l)
    BY <2>8 DEF ReloadNote
  <2>9. CASE ReloadGet(l)
    BY <2>9 DEF ReloadGet
  <2>10. CASE ReloadBuild(l)
    BY <2>10 DEF ReloadBuild
  <2> HIDE DEF TypeOK, Config, Loaders, Reloaders, Goto, LoaderGoto, Up,
        Attached, dbVars, chanVars, startVars, storeVars, histVars, reqVars,
        loadVars, budgetVars, WrittenInv, WriterInv, PhaseInv, Active,
        Saved, SaveMuFree, HoldsSaveMu
  <2> QED
    BY <1>2, <2>1, <2>2, <2>3, <2>4, <2>5, <2>6, <2>7, <2>8, <2>9, <2>10 DEF
       Reload
<1>3. ASSUME NEW n \in Nodes,
             Notified(n) \/ Poll(n) \/ Listen(n) \/ ListenLost(n)
               \/ Crash(n) \/ Boot(n)
      PROVE  WrittenInv'
  <2> USE DEF TypeOK, Config, Loaders, Reloaders, Goto, LoaderGoto, Up,
        Attached, dbVars, chanVars, startVars, storeVars, histVars, reqVars,
        loadVars, budgetVars, WrittenInv, WriterInv, PhaseInv, Active,
        Saved, SaveMuFree, HoldsSaveMu
  <2>1. CASE Notified(n)
    BY <2>1 DEF Notified
  <2>2. CASE PollVersion(n)
    BY <2>2 DEF PollVersion
  <2>3. CASE PollVersionFails(n)
    BY <2>3 DEF PollVersionFails
  <2>4. CASE PollCompare(n)
    BY <2>4 DEF PollCompare
  <2>5. CASE Listen(n)
    BY <2>5 DEF Listen
  <2>6. CASE ListenLost(n)
    BY <2>6 DEF ListenLost
  <2>7. CASE Crash(n)
    BY <2>7 DEF Crash
  <2>8. CASE Start(n)
    BY <2>8 DEF Start
  <2>9. CASE ConnectFails(n)
    BY <2>9 DEF ConnectFails, AttachFailed
  <2>10. CASE Connect(n)
    BY <2>10 DEF Connect
  <2>11. CASE AttachLoadFails(n)
    BY <2>11 DEF AttachLoadFails, AttachFailed
  <2>12. CASE AttachLoad(n)
    BY <2>12 DEF AttachLoad
  <2>13. CASE AttachSwap(n)
    BY <2>13 DEF AttachSwap, AttachFailed, VersionRead
  <2> HIDE DEF TypeOK, Config, Loaders, Reloaders, Goto, LoaderGoto, Up,
        Attached, dbVars, chanVars, startVars, storeVars, histVars, reqVars,
        loadVars, budgetVars, WrittenInv, WriterInv, PhaseInv, Active,
        Saved, SaveMuFree, HoldsSaveMu
  <2> QED
    BY <1>3, <2>1, <2>2, <2>3, <2>4, <2>5, <2>6, <2>7, <2>8, <2>9, <2>10,
       <2>11, <2>12, <2>13 DEF Poll, Boot
<1>4. CASE DbDown
  BY <1>4 DEF TypeOK, Config, Loaders, Reloaders, Goto, LoaderGoto, Up,
     Attached, dbVars, chanVars, startVars, storeVars, histVars, reqVars,
     loadVars, budgetVars, WrittenInv, WriterInv, PhaseInv, Active,
        Saved, SaveMuFree, HoldsSaveMu, DbDown
<1>5. CASE DbBack
  BY <1>5 DEF TypeOK, Config, Loaders, Reloaders, Goto, LoaderGoto, Up,
     Attached, dbVars, chanVars, startVars, storeVars, histVars, reqVars,
     loadVars, budgetVars, WrittenInv, WriterInv, PhaseInv, Active,
        Saved, SaveMuFree, HoldsSaveMu, DbBack
<1>6. CASE UNCHANGED vars
  BY <1>6 DEF TypeOK, Config, Loaders, Reloaders, Goto, LoaderGoto, Up,
     Attached, dbVars, chanVars, startVars, storeVars, histVars, reqVars,
     loadVars, budgetVars, WrittenInv, WriterInv, PhaseInv, Active,
        Saved, SaveMuFree, HoldsSaveMu, vars
<1> QED
  BY <1>1, <1>2, <1>3, <1>4, <1>5, <1>6 DEF Next


\* A change acknowledged by a node that is not attached has reached its file
\* (Save's copy and write under saveMu); DetachedFileSafe says that it stays.
THEOREM AnsweredIsWritten == Spec => []AnsweredIsInFile
<1> DEFINE IInv == TypeOK /\ PhaseInv /\ WriterInv /\ WrittenInv
<1>1. Init => IInv
  BY HomeAssumption DEF Init, TypeOK, PhaseInv, WriterInv, WrittenInv, Active,
     Saved, Up, Attached, Config, ReqPoints, LoadPoints, Loaders, Reloaders
<1>2. IInv /\ [Next]_vars => IInv'
  BY TypeStep, PhaseStep, WriterStep, WrittenStep
<1>3. IInv => AnsweredIsInFile
  BY DEF WrittenInv, AnsweredIsInFile, Saved
<1> QED
  BY <1>1, <1>2, <1>3, PTL DEF Spec

\* config.json and its temporary file have one writer at a time: no two requests,
\* two reloads, or a request and a reload of a node write together (saveMu).
THEOREM OneFileWriter == Spec => []WriterInv
<1> DEFINE IInv == TypeOK /\ PhaseInv /\ WriterInv
<1>1. Init => IInv
  BY HomeAssumption DEF Init, TypeOK, PhaseInv, WriterInv, Up, Attached,
     Config, ReqPoints, LoadPoints, Loaders, Reloaders
<1>2. IInv /\ [Next]_vars => IInv'
  BY TypeStep, PhaseStep, WriterStep
<1> QED
  BY <1>1, <1>2, PTL DEF Spec
=============================================================================
