---------------------------- MODULE BackupRestore ----------------------------
(***************************************************************************)
(* The backups of the database: Backup, which reads the tables one query   *)
(* after the other, the files a panel and the scheduler of its node write, *)
(* list and prune, Restore, which replaces the tables in one transaction,  *)
(* and the members of the cluster that change and reload the row of        *)
(* pxproxy_config meanwhile.                                               *)
(*                                                                         *)
(* Abstractions.                                                           *)
(*   - A configuration is the set of the changes it contains. A member's   *)
(*     Save, its reload and its start are one step each: ClusterConfig has *)
(*     them in detail, and what a write that meets one of them can do. The *)
(*     properties here that depend on it speak of writes that meet none:   *)
(*     that is what hurried is for.                                        *)
(*   - A member is stale when a reload is to come: a notification waits    *)
(*     for it, or its noted version is not updated_at, which every write   *)
(*     changes.                                                            *)
(*   - pxproxy_audit is the set of its ids. pxproxy_locks is left out: it  *)
(*     is read between the other two and restored with them.               *)
(*   - A backup file is known by when it was written, which is what List   *)
(*     sorts by. Files called .tmp are never looked at and are left out.   *)
(*   - A restore reads its file in the step in which it commits: a file    *)
(*     has one content, and to remove it afterwards makes no difference.   *)
(*   - A query, a write or a restore may fail, and a restore that fails    *)
(*     changes nothing. Outages of the database are in ClusterConfig.      *)
(***************************************************************************)
EXTENDS Naturals, FiniteSets, FiniteSetsExt

CONSTANTS
    Members,    \* nodes of the cluster
    Home,       \* the member whose directory of backups is modelled
    Writers,    \* its goroutines that back up: the panel's, the scheduler
    Changes,    \* changes administrators make, each once
    NoChange,
    Keep,       \* storage.backup_keep
    MaxBackups, \* bound: files written
    MaxRestores,    \* bound: restores
    MaxEvents   \* bound: ids of pxproxy_audit

ASSUME HomeAssumption == Home \in Members
ASSUME NoChangeAssumption == NoChange \notin Changes
ASSUME BoundsAssumption ==
    {Keep, MaxBackups, MaxRestores, MaxEvents} \subseteq Nat

VARIABLES
    config,     \* the row of pxproxy_config
    audit,      \* ids of the rows of pxproxy_audit
    nextId,     \* the next value of its sequence
    mem,        \* mem[m]: the configuration of member m
    stale,      \* members with a reload to come
    request,    \* request[m]: the change a handler of m is making
    pc,         \* program point of each writer
    snap,       \* snap[w]: what it has read, or is writing
    victims,    \* victims[w]: files it is going to prune
    files,      \* the .json files of the directory
    written,    \* files written so far
    restores,
    made,       \* history: changes made
    unsent,     \* history: unsent[m]: changes in the memory of m whose save
                \*   has failed
    landed,     \* history: files that have got their name
    deleted,    \* history: a file was deleted by the administrator
    expected,   \* history: the last restored configuration and what was
                \*   committed since
    hurried     \* history: a change or a restore did not wait for the
                \*   requests and reloads before it

dbVars == <<config, audit, nextId>>
memberVars == <<mem, stale, request, made, unsent>>
writerVars == <<pc, snap, victims>>
dirVars == <<files, written, landed, deleted>>
histVars == <<expected, hurried>>
vars == <<dbVars, memberVars, writerVars, dirVars, restores, histVars>>

-----------------------------------------------------------------------------
Snapshots == [config : SUBSET Changes, audit : SUBSET (1..MaxEvents)]
File == [time : 1..MaxBackups, content : Snapshots]
Empty == [config |-> {}, audit |-> {}]

TypeOK ==
    /\ config \in SUBSET Changes
    /\ audit \in SUBSET (1..MaxEvents)
    /\ nextId \in 1..(MaxEvents + 1)
    /\ mem \in [Members -> SUBSET Changes]
    /\ stale \in SUBSET Members
    /\ request \in [Members -> Changes \cup {NoChange}]
    /\ made \in SUBSET Changes
    /\ unsent \in [Members -> SUBSET Changes]
    /\ pc \in [Writers -> {"idle", "audit", "write", "rename", "list", "prune"}]
    /\ snap \in [Writers -> [time : 0..MaxBackups, content : Snapshots]]
    /\ victims \in [Writers -> SUBSET (1..MaxBackups)]
    /\ files \in SUBSET File
    /\ written \in 0..MaxBackups
    /\ landed \in SUBSET (1..MaxBackups)
    /\ deleted \in BOOLEAN
    /\ restores \in 0..MaxRestores
    /\ expected \in SUBSET Changes
    /\ hurried \in BOOLEAN

NoSnap == [time |-> 0, content |-> Empty]

\* A cluster that has just started: the row is there and all have loaded it.
Init ==
    /\ config = {}
    /\ audit = {} /\ nextId = 1
    /\ mem = [m \in Members |-> {}]
    /\ stale = {}
    /\ request = [m \in Members |-> NoChange]
    /\ made = {}
    /\ unsent = [m \in Members |-> {}]
    /\ pc = [w \in Writers |-> "idle"]
    /\ snap = [w \in Writers |-> NoSnap]
    /\ victims = [w \in Writers |-> {}]
    /\ files = {} /\ written = 0 /\ landed = {} /\ deleted = FALSE
    /\ restores = 0
    /\ expected = {} /\ hurried = FALSE

Idle(m) == request[m] = NoChange

\* No request and no reload is under way, or about to be.
AtRest == stale = {} /\ \A m \in Members : Idle(m)

-----------------------------------------------------------------------------
(* The members.                                                            *)

\* A handler changes the memory of its member ...
Update(m, c) ==
    /\ Idle(m)
    /\ c \notin made
    /\ made' = made \cup {c}
    /\ mem' = [mem EXCEPT ![m] = @ \cup {c}]
    /\ request' = [request EXCEPT ![m] = c]
    /\ hurried' = (hurried \/ ~AtRest)
    /\ UNCHANGED <<dbVars, stale, unsent, writerVars, dirVars, restores, expected>>

\* ... and saves it: the whole configuration replaces the row, with what could
\* not be saved before, and its version is noted. The member's own notification
\* may come or be lost, and so may the answer of the commit.
Save(m) ==
    /\ ~Idle(m)
    /\ config' = mem[m]
    /\ stale' \in {Members, Members \ {m}}
    /\ request' = [request EXCEPT ![m] = NoChange]
    /\ expected' = expected \cup {request[m]} \cup unsent[m]
    /\ unsent' = [unsent EXCEPT ![m] = {}]
    /\ UNCHANGED <<audit, nextId, mem, made, writerVars, dirVars, restores,
                   hurried>>

\* The file cannot be written, or the push is refused: the request ends with an
\* error, and its change stays in the memory of the member.
SaveFails(m) ==
    /\ ~Idle(m)
    /\ request' = [request EXCEPT ![m] = NoChange]
    /\ unsent' = [unsent EXCEPT ![m] = @ \cup {request[m]}]
    /\ UNCHANGED <<dbVars, mem, stale, made, writerVars, dirVars, restores,
                   histVars>>

Loaded_Merges(m) == mem[m] \cup config  \* mutant: decoded over the memory

\* ReloadFromBytes: the memory becomes the row.
Loaded(m) == config

\* reload, called for a notification or by the poll. Another one may follow
\* when the poll was faster than the notification.
Reload(m) ==
    /\ m \in stale
    /\ mem' = [mem EXCEPT ![m] = Loaded(m)]
    /\ stale' \in {stale, stale \ {m}}
    /\ unsent' = [unsent EXCEPT ![m] = {}]
    /\ UNCHANGED <<dbVars, request, made, writerVars, dirVars, restores,
                   histVars>>

\* An event of any member reaches pxproxy_audit. An id that is taken would be
\* an error of the primary key.
AppendAudit ==
    /\ nextId <= MaxEvents
    /\ audit' = audit \cup {nextId}
    /\ nextId' = nextId + 1
    /\ UNCHANGED <<config, memberVars, writerVars, dirVars, restores, histVars>>

-----------------------------------------------------------------------------
(* Backups.                                                                *)

Goto(w, point) == pc' = [pc EXCEPT ![w] = point]

\* Backup: the configuration is read ...
ReadConfig(w) ==
    /\ pc[w] = "idle"
    /\ written < MaxBackups
    /\ snap' = [snap EXCEPT ![w].content.config = config]
    /\ Goto(w, "audit")
    /\ UNCHANGED <<dbVars, memberVars, victims, dirVars, restores, histVars>>

\* ... and in another query the audit.
ReadAudit(w) ==
    /\ pc[w] = "audit"
    /\ snap' = [snap EXCEPT ![w].content.audit = audit]
    /\ Goto(w, "write")
    /\ UNCHANGED <<dbVars, memberVars, victims, dirVars, restores, histVars>>

WriteTmp_ErrorIgnored(w) ==  \* mutant: a failed write is renamed all the same
    /\ pc[w] = "write"
    /\ Goto(w, "rename")
    /\ UNCHANGED <<dbVars, memberVars, snap, victims, dirVars, restores,
                   histVars>>

\* WriteBackupFile: the .tmp file is written ...
WriteTmp(w) ==
    /\ pc[w] = "write"
    /\ written < MaxBackups
    /\ written' = written + 1
    /\ snap' = [snap EXCEPT ![w].time = written']
    /\ Goto(w, "rename")
    /\ UNCHANGED <<dbVars, memberVars, victims, files, landed, deleted,
                   restores, histVars>>

\* ... and gets its name.
Rename(w) ==
    /\ pc[w] = "rename"
    /\ files' = files \cup {snap[w]}
    /\ landed' = landed \cup {snap[w].time}
    /\ snap' = [snap EXCEPT ![w] = NoSnap]
    /\ Goto(w, "list")
    /\ UNCHANGED <<dbVars, memberVars, victims, written, deleted, restores,
                   histVars>>

\* A query, the write or the rename fails, or the directory has no room.
BackupFails(w) ==
    /\ pc[w] \in {"audit", "write", "rename"}
    /\ snap' = [snap EXCEPT ![w] = NoSnap]
    /\ Goto(w, "idle")
    /\ UNCHANGED <<dbVars, memberVars, victims, dirVars, restores, histVars>>

Surplus_OldestKept(times) ==  \* mutant: sorted with the oldest first
    IF Keep = 0 THEN {}
    ELSE {t \in times : Cardinality({u \in times : u < t}) >= Keep}

\* What PruneBackupFiles is to remove of the files it has listed: all but the
\* newest Keep; nothing when Keep is 0.
Surplus(times) ==
    IF Keep = 0 THEN {}
    ELSE {t \in times : Cardinality({u \in times : u > t}) >= Keep}

ListFiles(w) ==
    /\ pc[w] = "list"
    /\ victims' = [victims EXCEPT ![w] = Surplus({f.time : f \in files})]
    /\ Goto(w, "prune")
    /\ UNCHANGED <<dbVars, memberVars, snap, dirVars, restores, histVars>>

Named(t) == {f \in files : f.time = t}

\* The files are removed one by one from the newest on; errors are ignored.
RemoveOne(w) ==
    /\ pc[w] = "prune"
    /\ victims[w] # {}
    /\ LET t == Max(victims[w])
       IN /\ victims' = [victims EXCEPT ![w] = @ \ {t}]
          /\ files' = files \ Named(t)
    /\ UNCHANGED <<dbVars, memberVars, pc, snap, written, landed, deleted,
                   restores, histVars>>

PruneDone(w) ==
    /\ pc[w] = "prune"
    /\ victims[w] = {}
    /\ Goto(w, "idle")
    /\ UNCHANGED <<dbVars, memberVars, snap, victims, dirVars, restores,
                   histVars>>

\* DeleteBackupFile.
Delete(f) ==
    /\ files' = files \ {f}
    /\ deleted' = TRUE
    /\ UNCHANGED <<dbVars, memberVars, writerVars, written, landed,
                   restores, histVars>>

-----------------------------------------------------------------------------
(* Restores.                                                               *)

SequenceAfter_Restart(ids) == 1  \* mutant: RESTART IDENTITY and no setval

\* The sequence after restoreAuditRow has put the rows back: TRUNCATE resets
\* it and each row sets it to its own id.
SequenceAfter(ids) == IF ids = {} THEN 1 ELSE Max(ids) + 1

Behind_Notified == SUBSET Members  \* mutant: updated_at is restored as well

\* The members that may have to reload after a restore: all, since its
\* updated_at is new, whether their notification comes or not.
Behind == {Members}

\* Restore replaces the tables by those of a file, in one transaction. If it
\* fails it is rolled back: nothing has changed.
Restore(f) ==
    /\ restores < MaxRestores
    /\ restores' = restores + 1
    /\ config' = f.content.config
    /\ audit' = f.content.audit
    /\ nextId' = SequenceAfter(f.content.audit)
    /\ \E ms \in Behind : stale' = stale \cup ms
    /\ expected' = f.content.config
    /\ hurried' = (hurried \/ ~AtRest)
    /\ UNCHANGED <<mem, request, made, unsent, writerVars, dirVars>>

\* The node of the backups stops, and starts with the row.
Crash ==
    /\ pc' = [w \in Writers |-> "idle"]
    /\ snap' = [w \in Writers |-> NoSnap]
    /\ victims' = [w \in Writers |-> {}]
    /\ mem' = [mem EXCEPT ![Home] = config]
    /\ stale' = stale \ {Home}
    /\ request' = [request EXCEPT ![Home] = NoChange]
    /\ unsent' = [unsent EXCEPT ![Home] = {}]
    /\ UNCHANGED <<dbVars, made, dirVars, restores, histVars>>

-----------------------------------------------------------------------------
Backup(w) ==
    \/ ReadConfig(w) \/ ReadAudit(w) \/ WriteTmp(w) \/ Rename(w)
    \/ BackupFails(w) \/ ListFiles(w) \/ RemoveOne(w) \/ PruneDone(w)

Next ==
    \/ \E m \in Members :
         \/ \E c \in Changes : Update(m, c)
         \/ Save(m) \/ SaveFails(m) \/ Reload(m)
    \/ AppendAudit
    \/ \E w \in Writers : Backup(w)
    \/ \E f \in files : Delete(f) \/ Restore(f)
    \/ Crash

Spec == Init /\ [][Next]_vars

\* Requests are served; the poll's ticker fires.
Fairness ==
    \A m \in Members : WF_vars(Save(m) \/ SaveFails(m)) /\ WF_vars(Reload(m))

FairSpec == Spec /\ Fairness

-----------------------------------------------------------------------------
(* Properties.                                                             *)

\* The newest backups stay, though two goroutines write and prune at once and
\* one may be late with its rename: of all files that ever got their name the
\* Keep newest are there, unless the administrator has deleted some
\* (WriteBackupFile, PruneBackupFiles).
NewestKept ==
    ~deleted =>
      \A t \in landed :
        Cardinality({u \in landed : u > t}) < Keep => Named(t) # {}

\* What has been restored stays: the row is the restored configuration and
\* what has been committed since, no more and no less, as long as changes and
\* restores are made one at a time, each when all members have reloaded. A change
\* whose save failed counts as committed with the next save of its member; if
\* a restore comes first it does not come back (Restore, ReloadFromBytes, Save).
RestoredStays == ~hurried => config = expected

\* The audit accepts events after any sequence of backups and restores: no
\* id that is still to come is taken (restoreAuditRow, AppendAudit).
AuditIdsFree == \A i \in audit : i < nextId

\* In the end every member runs on the row, the restored one as any other, with
\* its notification or without it, under the same condition, and apart from
\* changes it still holds since their save failed (Restore, Save, the poll).
RestoreReachesAll ==
    <>[](hurried \/ \A m \in Members : mem[m] = config \cup unsent[m])

-----------------------------------------------------------------------------
(* What the documentation says and the code does not do.                   *)

\* A backup is the database as it was at one time. The tables are read in
\* transactions of their own: a change or a restore may come in between.
SnapshotIsAState ==
    [][\A w \in Writers : ReadAudit(w) => snap[w].content.config = config]_vars

\* Writers are excluded from a restore. A handler that has changed its memory
\* before a restore saves its whole configuration after it.
RestoreExcludesWriters == restores > 0 => config \subseteq expected
=============================================================================
