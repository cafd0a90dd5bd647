--------------------------- MODULE ClusterConfig ---------------------------
(***************************************************************************)
(* The configuration store of a PxProxy cluster: N instances that keep     *)
(* their configuration in memory (config.Store.cfg), in a local file       *)
(* (config.json) and in the single row of the PostgreSQL table             *)
(* pxproxy_config, and that learn of each other's changes through          *)
(* LISTEN/NOTIFY and a poll of the row's version.                          *)
(*                                                                         *)
(* Three kinds of process run at a node:                                   *)
(*   - the panel's requests: one per element of Edits, each of which calls *)
(*     Store.Update and then Admin.rebuild;                                *)
(*   - the "watch" goroutine (PgBackend.WatchChanges), which reloads for   *)
(*     every notification;                                                 *)
(*   - the "poll" goroutine of main, which reloads when the row's version  *)
(*     differs from Store.lastVer.                                         *)
(*                                                                         *)
(* Abstractions.                                                           *)
(*   - A configuration is the set of edits it contains: an edit stands for *)
(*     one administrator's change (a rule added, a setting changed), and   *)
(*     no edit undoes another, so a configuration that lacks an edit has   *)
(*     lost it.                                                            *)
(*   - updated_at, the row's version, is a counter: the code compares      *)
(*     versions for equality only. 0 is the empty string of a failed read. *)
(*   - All nodes share secrets.key, so that a stored configuration always  *)
(*     decodes, and the row exists (the node that created it has run).     *)
(*   - Store.mu makes each in-memory read or write one step. saveMu is     *)
(*     held across steps by Save only, and is derived from the requests'   *)
(*     program points (SaveMuFree).                                        *)
(***************************************************************************)
EXTENDS Naturals, FiniteSets

CONSTANTS
    Nodes,       \* the PxProxy instances
    Edits,       \* the panel requests that change the configuration
    Home,        \* Home[e]: the node whose panel receives request e
    MaxTries,    \* attempts to attach the backend at start (3 in main.go)
    MaxOutages,  \* bound: times the database goes down
    MaxDrops,    \* bound: times one LISTEN connection is lost
    MaxCrashes,  \* bound: times a node stops and is started again
    Pollers,     \* bound: the nodes whose poll ticks (all of them in the code)
    DiskFaults   \* whether writing the local file may fail

ASSUME HomeAssumption == Home \in [Edits -> Nodes]
ASSUME TriesAssumption == MaxTries \in Nat \ {0}
ASSUME BoundsAssumption ==
    /\ MaxOutages \in Nat
    /\ MaxDrops \in Nat
    /\ MaxCrashes \in Nat
ASSUME PollersAssumption == Pollers \subseteq Nodes
ASSUME DiskAssumption == DiskFaults \in BOOLEAN

VARIABLES
    \* The database.
    dbUp,       \* whether PostgreSQL answers
    dbCfg,      \* pxproxy_config.data
    dbVer,      \* pxproxy_config.updated_at
    listening,  \* listening[n]: n's watch goroutine holds a LISTEN connection
    notified,   \* notified[n]: notifications delivered to it and yet to handle
    \* A node.
    phase,      \* "down", "starting", "attaching", "loaded", "up"
    tries,      \* attach attempts made since the start
    backend,    \* Store.backend: "nil", "open", or "closed" (set, pool closed)
    mem,        \* Store.cfg
    file,       \* the local config.json
    lastVer,    \* Store.lastVer
    backendOK,  \* Store.backendOK
    engine,     \* the configuration the routing table was built from
    \* The requests.
    pc,         \* the program point of each request
    buf,        \* the copy of the configuration the request is handling
    \* The two reloading goroutines of each node.
    rpc, rcfg, rver,
    \* Budgets, and history the properties refer to.
    outages, drops, crashes,
    published,  \* edits that were in some committed configuration
    degraded,   \* edits applied at a node that had started without the cluster
    hurried,    \* edits applied while another change was under way (see Calm)
    refused     \* edits answered with an error before they had been published

dbVars     == <<dbUp, dbCfg, dbVer, published>>
chanVars   == <<listening, notified>>
startVars  == <<phase, tries, backend>>
storeVars  == <<mem, file, lastVer, backendOK>>
histVars   == <<degraded, hurried, refused>>
reqVars    == <<pc, buf, histVars>>
loadVars   == <<rpc, rcfg, rver>>
budgetVars == <<outages, drops, crashes>>
vars == <<dbVars, chanVars, startVars, storeVars, engine, reqVars, loadVars,
          budgetVars>>

-----------------------------------------------------------------------------
Config == SUBSET Edits

\* The two goroutines that run main's reload closure.
Reloaders == {"watch", "poll"}
Loaders == Nodes \X Reloaders

ReqPoints ==
    {"idle", "local", "write", "push", "commit", "version", "get", "build",
     "done", "failed"}
LoadPoints ==
    {"idle", "compare", "load", "swap", "persist", "write", "version",
     "note", "get", "build"}

TypeOK ==
    /\ dbUp \in BOOLEAN
    /\ dbCfg \in Config
    /\ dbVer \in Nat
    /\ listening \in [Nodes -> BOOLEAN]
    /\ notified \in [Nodes -> Nat]
    /\ phase \in
         [Nodes -> {"down", "starting", "attaching", "loaded", "up"}]
    /\ tries \in [Nodes -> Nat]
    /\ backend \in [Nodes -> {"nil", "open", "closed"}]
    /\ mem \in [Nodes -> Config]
    /\ file \in [Nodes -> Config]
    /\ lastVer \in [Nodes -> Nat]
    /\ backendOK \in [Nodes -> BOOLEAN]
    /\ engine \in [Nodes -> Config]
    /\ pc \in [Edits -> ReqPoints]
    /\ buf \in [Edits -> Config]
    /\ rpc \in [Loaders -> LoadPoints]
    /\ rcfg \in [Loaders -> Config]
    /\ rver \in [Loaders -> Nat]
    /\ outages \in Nat /\ drops \in Nat /\ crashes \in Nat
    /\ published \in Config /\ degraded \in Config
    /\ hurried \in Config /\ refused \in Config

\* A node that is serving, and one that is serving as a cluster member.
Up(n) == phase[n] = "up"
Attached(n) == Up(n) /\ backend[n] = "open"

\* saveMu is held by a request from its first copy to the return of Save, and
\* by a reloading goroutine while it writes the file.
HoldsSaveMu(e) == pc[e] \in {"write", "push", "commit", "version"}
LoaderHoldsSaveMu_Kept(l) ==  \* mutant: kept until NoteBackendVersion
    rpc[l] \in {"write", "version", "note"}
LoaderHoldsSaveMu(l) == rpc[l] = "write"
SaveMuFree_Never(n) == TRUE  \* mutant: no saveMu
SaveMuFree(n) ==
    /\ \A e \in Edits : Home[e] = n => ~HoldsSaveMu(e)
    /\ \A l \in Loaders : l[1] = n => ~LoaderHoldsSaveMu(l)

\* Nothing is under way at the node that could still change its configuration.
Settled(n) ==
    /\ Up(n)
    /\ notified[n] = 0
    /\ \A e \in Edits : Home[e] = n => pc[e] \in {"idle", "done", "failed"}
    /\ \A l \in Loaders : l[1] = n => rpc[l] = "idle"

\* The node is at rest with the row's data and its version, and no panel of
\* the cluster is saving.
Calm(n) ==
    /\ Attached(n) /\ Settled(n)
    /\ mem[n] = dbCfg /\ lastVer[n] = dbVer
    /\ \A e \in Edits : pc[e] \in {"idle", "done", "failed"}

\* Store.BackendStatus's ok.
StatusOK(n) == backend[n] = "nil" \/ backendOK[n]

\* The LISTEN connections of the nodes in S break. A notification already
\* received is still handled or not, as the connection breaks.
LoseListen(S) ==
    /\ listening' = [n \in Nodes |-> listening[n] /\ n \notin S]
    /\ \E kept \in SUBSET S :
         notified' = [n \in Nodes |-> IF n \in S \ kept THEN 0 ELSE notified[n]]

Goto(e, point) == pc' = [pc EXCEPT ![e] = point]
LoaderGoto(l, point) == rpc' = [rpc EXCEPT ![l] = point]

\* Every node is an attached member that has loaded the seeded row.
Init ==
    /\ dbUp = TRUE /\ dbCfg = {} /\ dbVer = 1
    /\ listening = [n \in Nodes |-> FALSE]
    /\ notified = [n \in Nodes |-> 0]
    /\ phase = [n \in Nodes |-> "up"]
    /\ tries = [n \in Nodes |-> 0]
    /\ backend = [n \in Nodes |-> "open"]
    /\ mem = [n \in Nodes |-> {}]
    /\ file = [n \in Nodes |-> {}]
    /\ lastVer = [n \in Nodes |-> 1]
    /\ backendOK = [n \in Nodes |-> TRUE]
    /\ engine = [n \in Nodes |-> {}]
    /\ pc = [e \in Edits |-> "idle"]
    /\ buf = [e \in Edits |-> {}]
    /\ rpc = [l \in Loaders |-> "idle"]
    /\ rcfg = [l \in Loaders |-> {}]
    /\ rver = [l \in Loaders |-> 0]
    /\ outages = 0 /\ drops = 0 /\ crashes = 0
    /\ published = {} /\ degraded = {} /\ hurried = {} /\ refused = {}

-----------------------------------------------------------------------------
(* A panel request: Store.Update, Store.Save, Admin.rebuild.               *)

\* Store.Update: the change is made in the live configuration, under mu.
Apply(e) ==
    LET n == Home[e] IN
    /\ pc[e] = "idle"
    /\ Up(n)
    /\ mem' = [mem EXCEPT ![n] = @ \cup {e}]
    /\ degraded' = IF backend[n] = "open" THEN degraded ELSE degraded \cup {e}
    /\ hurried' = IF Calm(n) THEN hurried ELSE hurried \cup {e}
    /\ Goto(e, "local")
    /\ UNCHANGED <<dbVars, chanVars, startVars, file, lastVer, backendOK,
                   engine, buf, refused, loadVars, budgetVars>>

\* Save takes saveMu and copies the configuration.
SaveCopy(e) ==
    LET n == Home[e] IN
    /\ pc[e] = "local"
    /\ SaveMuFree(n)
    /\ buf' = [buf EXCEPT ![e] = mem[n]]
    /\ Goto(e, "write")
    /\ UNCHANGED <<dbVars, chanVars, startVars, storeVars, engine, histVars,
                   loadVars, budgetVars>>

\* The copy becomes the local file (a temporary file is renamed); without a
\* backend that is all Save does.
SaveWrite(e) ==
    LET n == Home[e] IN
    /\ pc[e] = "write"
    /\ file' = [file EXCEPT ![n] = buf[e]]
    /\ buf' = [buf EXCEPT ![e] = {}]
    /\ Goto(e, IF backend[n] = "nil" THEN "get" ELSE "push")
    /\ UNCHANGED <<dbVars, chanVars, startVars, mem, lastVer, backendOK,
                   engine, histVars, loadVars, budgetVars>>

\* writeLocal fails: Save returns the error and the handler answers 500.
SaveWriteFails(e) ==
    /\ DiskFaults
    /\ pc[e] = "write"
    /\ buf' = [buf EXCEPT ![e] = {}]
    /\ Goto(e, "failed")
    /\ UNCHANGED <<dbVars, chanVars, startVars, storeVars, engine, histVars,
                   loadVars, budgetVars>>

\* pushToBackend copies the configuration a second time.
PushCopy(e) ==
    /\ pc[e] = "push"
    /\ buf' = [buf EXCEPT ![e] = mem[Home[e]]]
    /\ Goto(e, "commit")
    /\ UNCHANGED <<dbVars, chanVars, startVars, storeVars, engine, histVars,
                   loadVars, budgetVars>>

\* PgBackend.Save: the row is replaced and every listening session notified,
\* whatever version the row had.
CommitRow(cfg) ==
    /\ dbCfg' = cfg
    /\ dbVer' = dbVer + 1
    /\ published' = published \cup cfg

Commit(e) ==
    /\ pc[e] = "commit"
    /\ dbUp /\ backend[Home[e]] = "open"
    /\ CommitRow(buf[e])
    /\ notified' =
         [n \in Nodes |-> IF listening[n] THEN notified[n] + 1 ELSE notified[n]]
    /\ buf' = [buf EXCEPT ![e] = {}]
    /\ Goto(e, "version")
    /\ UNCHANGED <<dbUp, listening, startVars, storeVars, engine, histVars,
                   loadVars, budgetVars>>

\* The transaction fails: Save returns the error, the handler answers 500
\* without rebuilding the routes, and the change stays in memory.
CommitFails(e) ==
    LET n == Home[e] IN
    /\ pc[e] = "commit"
    /\ ~dbUp \/ backend[n] = "closed"
    /\ backendOK' = [backendOK EXCEPT ![n] = FALSE]
    /\ refused' = refused \cup ({e} \ published)
    /\ buf' = [buf EXCEPT ![e] = {}]
    /\ Goto(e, "failed")
    /\ UNCHANGED <<dbVars, chanVars, startVars, mem, file, lastVer, engine,
                   degraded, hurried, loadVars, budgetVars>>

\* The connection is lost between the commit and its acknowledgement: the
\* row has changed and Save returns an error.
CommitLost(e) ==
    LET n == Home[e] IN
    /\ pc[e] = "commit"
    /\ dbUp /\ backend[n] = "open"
    /\ outages < MaxOutages
    /\ CommitRow(buf[e])
    /\ dbUp' = FALSE
    /\ outages' = outages + 1
    /\ LoseListen(Nodes)
    /\ backendOK' = [backendOK EXCEPT ![n] = FALSE]
    /\ buf' = [buf EXCEPT ![e] = {}]
    /\ Goto(e, "failed")
    /\ UNCHANGED <<startVars, mem, file, lastVer, engine, histVars, loadVars,
                   drops, crashes>>

\* The version a query returns at node n now; 0 when the query fails.
VersionRead(n) == IF dbUp /\ backend[n] = "open" THEN dbVer ELSE 0

\* The end of Save: the version is read by a query of its own, and saveMu
\* released.
SaveVersion(e) ==
    LET n == Home[e] IN
    /\ pc[e] = "version"
    /\ backendOK' = [backendOK EXCEPT ![n] = TRUE]
    /\ lastVer' = [lastVer EXCEPT ![n] = VersionRead(n)]
    /\ Goto(e, "get")
    /\ UNCHANGED <<dbVars, chanVars, startVars, mem, file, engine, buf,
                   histVars, loadVars, budgetVars>>

\* Admin.rebuild: Store.Get and Engine.Rebuild are two critical sections.
RebuildGet(e) ==
    /\ pc[e] = "get"
    /\ buf' = [buf EXCEPT ![e] = mem[Home[e]]]
    /\ Goto(e, "build")
    /\ UNCHANGED <<dbVars, chanVars, startVars, storeVars, engine, histVars,
                   loadVars, budgetVars>>

Rebuild(e) ==
    /\ pc[e] = "build"
    /\ engine' = [engine EXCEPT ![Home[e]] = buf[e]]
    /\ buf' = [buf EXCEPT ![e] = {}]
    /\ Goto(e, "done")
    /\ UNCHANGED <<dbVars, chanVars, startVars, storeVars, histVars, loadVars,
                   budgetVars>>

-----------------------------------------------------------------------------
(* The reload closure, run by the watch and the poll goroutines of a       *)
(* member with nothing to keep one from overtaking the other.              *)

\* WatchChanges takes a notification.
Notified_Spurious(n) ==  \* mutant: reloads for a notification not received
    LET l == <<n, "watch">> IN
    /\ Attached(n) /\ rpc[l] = "idle"
    /\ notified' = [notified EXCEPT ![n] = @ - 1]
    /\ LoaderGoto(l, "load")
    /\ UNCHANGED <<dbVars, listening, startVars, storeVars, engine, reqVars,
                   rcfg, rver, budgetVars>>

Notified(n) ==
    LET l == <<n, "watch">> IN
    /\ Attached(n)
    /\ rpc[l] = "idle" /\ notified[n] > 0
    /\ notified' = [notified EXCEPT ![n] = @ - 1]
    /\ LoaderGoto(l, "load")
    /\ UNCHANGED <<dbVars, listening, startVars, storeVars, engine, reqVars,
                   rcfg, rver, budgetVars>>

\* The poll's tick: Version is read.
PollVersion(n) ==
    LET l == <<n, "poll">> IN
    /\ Attached(n) /\ n \in Pollers
    /\ rpc[l] = "idle"
    /\ dbUp
    /\ rver' = [rver EXCEPT ![l] = dbVer]
    /\ LoaderGoto(l, "compare")
    /\ UNCHANGED <<dbVars, chanVars, startVars, storeVars, engine, reqVars,
                   rcfg, budgetVars>>

PollVersionFails(n) ==
    /\ Attached(n) /\ n \in Pollers
    /\ rpc[<<n, "poll">>] = "idle"
    /\ ~dbUp
    /\ backendOK' = [backendOK EXCEPT ![n] = FALSE]
    /\ UNCHANGED <<dbVars, chanVars, startVars, mem, file, lastVer, engine,
                   reqVars, loadVars, budgetVars>>

\* The comparison with lastVer: reload when they differ.
PollCompare_Always(n) ==  \* mutant: reloads whatever the version
    LET l == <<n, "poll">> IN
    /\ rpc[l] = "compare"
    /\ LoaderGoto(l, "load")
    /\ rver' = [rver EXCEPT ![l] = 0]
    /\ UNCHANGED <<dbVars, chanVars, startVars, storeVars, engine, reqVars,
                   rcfg, budgetVars>>

PollCompare_NotesOnly(n) ==  \* mutant: notes the new version, reloads nothing
    LET l == <<n, "poll">> IN
    /\ rpc[l] = "compare"
    /\ lastVer' = [lastVer EXCEPT ![n] = rver[l]]
    /\ LoaderGoto(l, "idle")
    /\ rver' = [rver EXCEPT ![l] = 0]
    /\ UNCHANGED <<dbVars, chanVars, startVars, mem, file, backendOK, engine,
                   reqVars, rcfg, budgetVars>>

PollCompare(n) ==
    LET l == <<n, "poll">> IN
    /\ rpc[l] = "compare"
    /\ \/ /\ lastVer[n] # rver[l]
          /\ LoaderGoto(l, "load")
          /\ UNCHANGED backendOK
       \/ /\ lastVer[n] = rver[l]
          /\ LoaderGoto(l, "idle")
          /\ backendOK' = [backendOK EXCEPT ![n] = TRUE]
    /\ rver' = [rver EXCEPT ![l] = 0]
    /\ UNCHANGED <<dbVars, chanVars, startVars, mem, file, lastVer, engine,
                   reqVars, rcfg, budgetVars>>

\* reload: PgBackend.Load.
ReloadLoad(l) ==
    /\ rpc[l] = "load"
    /\ dbUp
    /\ rcfg' = [rcfg EXCEPT ![l] = dbCfg]
    /\ LoaderGoto(l, "swap")
    /\ UNCHANGED <<dbVars, chanVars, startVars, storeVars, engine, reqVars,
                   rver, budgetVars>>

ReloadLoadFails(l) ==
    /\ rpc[l] = "load"
    /\ ~dbUp
    /\ backendOK' = [backendOK EXCEPT ![l[1]] = FALSE]
    /\ LoaderGoto(l, "idle")
    /\ UNCHANGED <<dbVars, chanVars, startVars, mem, file, lastVer, engine,
                   reqVars, rcfg, rver, budgetVars>>

ReloadSwap_NotPersisted(l) ==  \* mutant: the file is left behind
    /\ rpc[l] = "swap"
    /\ mem' = [mem EXCEPT ![l[1]] = rcfg[l]]
    /\ LoaderGoto(l, "version")
    /\ UNCHANGED <<dbVars, chanVars, startVars, file, lastVer, backendOK,
                   engine, reqVars, rcfg, rver, budgetVars>>

\* ReloadFromBytes: the configuration is replaced under mu, ...
ReloadSwap(l) ==
    /\ rpc[l] = "swap"
    /\ mem' = [mem EXCEPT ![l[1]] = rcfg[l]]
    /\ LoaderGoto(l, "persist")
    /\ UNCHANGED <<dbVars, chanVars, startVars, file, lastVer, backendOK,
                   engine, reqVars, rcfg, rver, budgetVars>>

\* ... and persistLocal takes saveMu, copies what is then in memory ...
ReloadCopy(l) ==
    LET n == l[1] IN
    /\ rpc[l] = "persist"
    /\ SaveMuFree(n)
    /\ rcfg' = [rcfg EXCEPT ![l] = mem[n]]
    /\ LoaderGoto(l, "write")
    /\ UNCHANGED <<dbVars, chanVars, startVars, storeVars, engine, reqVars,
                   rver, budgetVars>>

\* ... and writes the copy to the file.
ReloadWrite(l) ==
    /\ rpc[l] = "write"
    /\ file' = [file EXCEPT ![l[1]] = rcfg[l]]
    /\ rcfg' = [rcfg EXCEPT ![l] = {}]
    /\ LoaderGoto(l, "version")
    /\ UNCHANGED <<dbVars, chanVars, startVars, mem, lastVer, backendOK,
                   engine, reqVars, rver, budgetVars>>

\* The write fails: reload returns with the memory already replaced.
ReloadWriteFails(l) ==
    /\ DiskFaults
    /\ rpc[l] = "write"
    /\ rcfg' = [rcfg EXCEPT ![l] = {}]
    /\ LoaderGoto(l, "idle")
    /\ UNCHANGED <<dbVars, chanVars, startVars, storeVars, engine, reqVars,
                   rver, budgetVars>>

\* CurrentVersion, a second query after Load.
ReloadVersion(l) ==
    /\ rpc[l] = "version"
    /\ rver' = [rver EXCEPT ![l] = VersionRead(l[1])]
    /\ LoaderGoto(l, "note")
    /\ UNCHANGED <<dbVars, chanVars, startVars, storeVars, engine, reqVars,
                   rcfg, budgetVars>>

\* NoteBackendVersion ignores the empty version.
ReloadNote(l) ==
    LET n == l[1] IN
    /\ rpc[l] = "note"
    /\ SaveMuFree(n)
    /\ lastVer' = [lastVer EXCEPT ![n] = IF rver[l] # 0 THEN rver[l] ELSE @]
    /\ rver' = [rver EXCEPT ![l] = 0]
    /\ LoaderGoto(l, "get")
    /\ UNCHANGED <<dbVars, chanVars, startVars, mem, file, backendOK, engine,
                   reqVars, rcfg, budgetVars>>

\* Store.Get, then Engine.Rebuild.
ReloadGet(l) ==
    /\ rpc[l] = "get"
    /\ rcfg' = [rcfg EXCEPT ![l] = mem[l[1]]]
    /\ LoaderGoto(l, "build")
    /\ UNCHANGED <<dbVars, chanVars, startVars, storeVars, engine, reqVars,
                   rver, budgetVars>>

ReloadBuild(l) ==
    /\ rpc[l] = "build"
    /\ engine' = [engine EXCEPT ![l[1]] = rcfg[l]]
    /\ rcfg' = [rcfg EXCEPT ![l] = {}]
    /\ LoaderGoto(l, "idle")
    /\ UNCHANGED <<dbVars, chanVars, startVars, storeVars, reqVars, rver,
                   budgetVars>>

-----------------------------------------------------------------------------
(* The LISTEN connection and the database.                                 *)

\* The watch loop acquires a connection and listens, once the last one has
\* nothing left to deliver: what is notified meanwhile is lost.
Listen(n) ==
    /\ Attached(n)
    /\ rpc[<<n, "watch">>] = "idle"
    /\ dbUp /\ ~listening[n] /\ notified[n] = 0
    /\ listening' = [listening EXCEPT ![n] = TRUE]
    /\ UNCHANGED <<dbVars, notified, startVars, storeVars, engine, reqVars,
                   loadVars, budgetVars>>

\* One node loses its LISTEN connection.
ListenLost(n) ==
    /\ listening[n]
    /\ drops < MaxDrops
    /\ drops' = drops + 1
    /\ LoseListen({n})
    /\ UNCHANGED <<dbVars, startVars, storeVars, engine, reqVars, loadVars,
                   outages, crashes>>

DbDown ==
    /\ dbUp
    /\ outages < MaxOutages
    /\ outages' = outages + 1
    /\ dbUp' = FALSE
    /\ LoseListen(Nodes)
    /\ UNCHANGED <<dbCfg, dbVer, published, startVars, storeVars, engine,
                   reqVars, loadVars, drops, crashes>>

DbBack ==
    /\ ~dbUp
    /\ dbUp' = TRUE
    /\ UNCHANGED <<dbCfg, dbVer, published, chanVars, startVars, storeVars,
                   engine, reqVars, loadVars, budgetVars>>

-----------------------------------------------------------------------------
(* A node stops and starts.                                                *)

\* The process ends: its requests get no answer, its goroutines and its
\* memory are gone, its file stays.
Crash(n) ==
    /\ phase[n] # "down"
    /\ crashes < MaxCrashes
    /\ crashes' = crashes + 1
    /\ phase' = [phase EXCEPT ![n] = "down"]
    /\ backend' = [backend EXCEPT ![n] = "nil"]
    /\ LoseListen({n})
    /\ mem' = [mem EXCEPT ![n] = {}]
    /\ lastVer' = [lastVer EXCEPT ![n] = 0]
    /\ backendOK' = [backendOK EXCEPT ![n] = FALSE]
    /\ engine' = [engine EXCEPT ![n] = {}]
    /\ pc' = [e \in Edits |-> IF Home[e] = n /\ pc[e] \notin {"idle", "done"}
                              THEN "failed" ELSE pc[e]]
    /\ buf' = [e \in Edits |-> IF Home[e] = n THEN {} ELSE buf[e]]
    /\ rpc' = [l \in Loaders |-> IF l[1] = n THEN "idle" ELSE rpc[l]]
    /\ rcfg' = [l \in Loaders |-> IF l[1] = n THEN {} ELSE rcfg[l]]
    /\ rver' = [l \in Loaders |-> IF l[1] = n THEN 0 ELSE rver[l]]
    /\ UNCHANGED <<dbVars, tries, file, histVars, outages, drops>>

\* config.Load: the memory is read from the file (and saved back to it).
Start(n) ==
    /\ phase[n] = "down"
    /\ phase' = [phase EXCEPT ![n] = "starting"]
    /\ tries' = [tries EXCEPT ![n] = 0]
    /\ mem' = [mem EXCEPT ![n] = file[n]]
    /\ UNCHANGED <<dbVars, chanVars, backend, file, lastVer, backendOK, engine,
                   reqVars, loadVars, budgetVars>>

\* An attach attempt fails; after the last one the node serves without the
\* cluster, with the backend pointer as the attempts left it.
AttachFailed(n) ==
    /\ tries' = [tries EXCEPT ![n] = @ + 1]
    /\ phase' = [phase EXCEPT ![n] =
                   IF tries[n] + 1 >= MaxTries THEN "up" ELSE "starting"]

\* Connect fails: Store.backend is left as it was.
ConnectFails(n) ==
    /\ phase[n] = "starting"
    /\ ~dbUp
    /\ AttachFailed(n)
    /\ engine' = [engine EXCEPT ![n] = mem[n]]
    /\ UNCHANGED <<dbVars, chanVars, backend, storeVars, reqVars, loadVars,
                   budgetVars>>

\* Connect succeeds and SetBackend begins.
Connect(n) ==
    /\ phase[n] = "starting"
    /\ dbUp
    /\ phase' = [phase EXCEPT ![n] = "attaching"]
    /\ backend' = [backend EXCEPT ![n] = "open"]
    /\ backendOK' = [backendOK EXCEPT ![n] = TRUE]
    /\ UNCHANGED <<dbVars, chanVars, tries, mem, file, lastVer, engine,
                   reqVars, loadVars, budgetVars>>

\* SetBackend's Load fails: Store keeps a backend whose pool is then closed.
AttachLoadFails(n) ==
    /\ phase[n] = "attaching"
    /\ ~dbUp
    /\ AttachFailed(n)
    /\ backend' = [backend EXCEPT ![n] = "closed"]
    /\ backendOK' = [backendOK EXCEPT ![n] = FALSE]
    /\ engine' = [engine EXCEPT ![n] = mem[n]]
    /\ UNCHANGED <<dbVars, chanVars, mem, file, lastVer, reqVars, loadVars,
                   budgetVars>>

AttachLoad_Merges(n) ==  \* mutant: the local changes join the row's
    /\ phase[n] = "attaching"
    /\ dbUp
    /\ rcfg' = [rcfg EXCEPT ![<<n, "watch">>] = dbCfg \cup mem[n]]
    /\ phase' = [phase EXCEPT ![n] = "loaded"]
    /\ UNCHANGED <<dbVars, chanVars, tries, backend, storeVars, engine,
                   reqVars, rpc, rver, budgetVars>>

\* SetBackend's Load. No goroutine runs yet: the node's watch entry holds the
\* data until the next step.
AttachLoad(n) ==
    /\ phase[n] = "attaching"
    /\ dbUp
    /\ rcfg' = [rcfg EXCEPT ![<<n, "watch">>] = dbCfg]
    /\ phase' = [phase EXCEPT ![n] = "loaded"]
    /\ UNCHANGED <<dbVars, chanVars, tries, backend, storeVars, engine,
                   reqVars, rpc, rver, budgetVars>>

\* SetBackend replaces the configuration and reads the version by a second
\* query; then persistLocalLocked writes the file and main builds the routes
\* and starts the goroutines, or the write fails and with it the attempt.
AttachSwap(n) ==
    LET remote == rcfg[<<n, "watch">>] IN
    /\ phase[n] = "loaded"
    /\ mem' = [mem EXCEPT ![n] = remote]
    /\ lastVer' = [lastVer EXCEPT ![n] = VersionRead(n)]
    /\ rcfg' = [rcfg EXCEPT ![<<n, "watch">>] = {}]
    /\ engine' = [engine EXCEPT ![n] = remote]
    /\ \/ /\ file' = [file EXCEPT ![n] = remote]
          /\ phase' = [phase EXCEPT ![n] = "up"]
          /\ UNCHANGED <<tries, backend>>
       \/ /\ DiskFaults
          /\ AttachFailed(n)
          /\ backend' = [backend EXCEPT ![n] = "closed"]
          /\ UNCHANGED file
    /\ UNCHANGED <<dbVars, chanVars, backendOK, reqVars, rpc, rver, budgetVars>>

-----------------------------------------------------------------------------
\* A request's own steps, and those of a reloading goroutine.
Request(e) ==
    \/ SaveCopy(e) \/ SaveWrite(e) \/ SaveWriteFails(e) \/ PushCopy(e)
    \/ Commit(e) \/ CommitFails(e) \/ SaveVersion(e) \/ RebuildGet(e)
    \/ Rebuild(e)

Reload(l) ==
    \/ ReloadLoad(l) \/ ReloadLoadFails(l) \/ ReloadSwap(l) \/ ReloadCopy(l)
    \/ ReloadWrite(l) \/ ReloadWriteFails(l) \/ ReloadVersion(l)
    \/ ReloadNote(l) \/ ReloadGet(l) \/ ReloadBuild(l)

Poll(n) == PollVersion(n) \/ PollVersionFails(n) \/ PollCompare(n)

Boot(n) ==
    \/ Start(n) \/ ConnectFails(n) \/ Connect(n) \/ AttachLoadFails(n)
    \/ AttachLoad(n) \/ AttachSwap(n)

Next ==
    \/ \E e \in Edits : Apply(e) \/ Request(e) \/ CommitLost(e)
    \/ \E l \in Loaders : Reload(l)
    \/ \E n \in Nodes :
         \/ Notified(n) \/ Poll(n) \/ Listen(n) \/ ListenLost(n)
         \/ Crash(n) \/ Boot(n)
    \/ DbDown \/ DbBack

Spec == Init /\ [][Next]_vars

\* Goroutines are scheduled, a started node's boot runs to its end, and the
\* database comes back; nobody has to make a change, to stop a node or to
\* break a connection. Weak fairness is enough for the waiters of saveMu: a
\* member that can write its file stops reloading once it has the row.
Fairness ==
    /\ \A e \in Edits : WF_vars(Request(e))
    /\ \A l \in Loaders : WF_vars(Reload(l))
    /\ \A n \in Nodes :
         WF_vars(Notified(n)) /\ WF_vars(Poll(n)) /\ WF_vars(Listen(n))
         /\ WF_vars(Boot(n))
    /\ WF_vars(DbBack)

FairSpec == Spec /\ Fairness

-----------------------------------------------------------------------------
(* Properties.                                                             *)

\* The change a request is about to save, or a reload about to write, has yet
\* to reach the file.
WritePending(n) ==
    \/ \E e \in Edits : Home[e] = n /\ pc[e] \in {"local", "write"}
    \/ \E l \in Loaders : l[1] = n /\ rpc[l] \in {"persist", "write"}

\* Store.Update, Save, ReloadFromBytes and SetBackend change the memory and
\* the file in separate critical sections, in any interleaving: when none of
\* them is under way the file holds what the node would lose by stopping.
FileTracksMemory ==
    ~DiskFaults =>
      \A n \in Nodes :
        phase[n] # "down" /\ ~WritePending(n) => file[n] = mem[n]

\* A change is lost only if another is under way: while every change is made
\* at a member that is at rest with the row and its version, each one that is
\* acknowledged is in the row, whatever the outages, lost notifications, polls
\* and restarts (Save against reload, SetBackend and the other panels).
CalmChangesSurvive ==
    hurried = {} => \A e \in Edits : pc[e] = "done" => e \in dbCfg

\* What is changed at a node that started without the cluster stays at that
\* node: the attach at its next start replaces it by the cluster's row, and no
\* later Save carries it there ("el cluster manda", DOCUMENTO_TECNICO.md:219).
DegradedStartIsolated ==
    /\ degraded \cap published = {}
    /\ \A n \in Nodes : Attached(n) => mem[n] \cap degraded = {}

\* While a node is not attached (it started without the cluster, or is not
\* yet back in it) its file never loses a change, whatever the interleaving of
\* its requests' copies and writes, and crashes included (Save, config.Load).
DetachedFileKeepsChanges ==
    [][~DiskFaults =>
         \A n \in Nodes :
           backend[n] # "open" => file[n] \subseteq file'[n]]_vars

\* Every request gets its answer: nobody waits for saveMu for ever (Save
\* returns on every path with the mutex released).
RequestsEnd ==
    \A e \in Edits : pc[e] = "local" ~> pc[e] \in {"done", "failed"}

\* A change acknowledged while no other is under way reaches every attached
\* member and its routes, and stays there, though notifications may be lost
\* and the database go down (Save, WatchChanges, the poll, reload).
LoneChangeReachesAll ==
    \A e \in Edits :
      (\A f \in Edits \ {e} : pc[f] = "idle") /\ pc[e] = "done"
        ~> \/ \E f \in Edits \ {e} : pc[f] # "idle"
           \/ \A n \in Pollers :
                Attached(n) => mem[n] = dbCfg /\ engine[n] = dbCfg

-----------------------------------------------------------------------------
(* What the documentation says and the code does not do.                   *)

\* Writers do not conflict: a change that a member has acknowledged is in the
\* cluster's row (PgBackend.Save replaces the row whatever it holds, and a
\* reload replaces a memory that holds an unsaved change).
AcknowledgedSurvives ==
    \A e \in Edits : pc[e] = "done" /\ e \notin degraded => e \in dbCfg

\* A change refused because the database was down is not replicated (Update
\* leaves it in memory and the next Save of the node carries it).
RefusedNotReplicated == refused \cap dbCfg = {}

\* A member that has noted the row's version holds that row (reload reads the
\* version after the data, and two reloads may cross).
VersionNamesConfig ==
    \A n \in Nodes :
      Attached(n) /\ Settled(n) /\ lastVer[n] = dbVer => mem[n] = dbCfg

\* The routes are those of the configuration the node holds (Admin.rebuild
\* and reload pass Engine.Rebuild a copy that may be out of date).
RoutesFollowConfig == \A n \in Nodes : Settled(n) => engine[n] = mem[n]

\* A node that started without the cluster reports its storage as not ok
\* (BackendStatus without a backend).
DegradedStartReported ==
    \A n \in Nodes : Up(n) /\ backend[n] # "open" => ~StatusOK(n)
=============================================================================
