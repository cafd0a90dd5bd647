---------------------------- MODULE LoginLimiter ----------------------------
(***************************************************************************)
(* The brute-force limiters of a cluster: security.Limiter at every node,  *)
(* the login handlers that consult it (handleLocalLogin, handleLDAPLogin)  *)
(* and limiterPersist.sync, which every 30 s merges a node's entries into  *)
(* the table pxproxy_locks and restores from it the entries it lacks.      *)
(*                                                                         *)
(* Abstractions.                                                           *)
(*   - Time is a counter; a login may take any number of ticks between two *)
(*     of its steps (a bind to a slow directory).                          *)
(*   - The limiters "ip" and "user" are one map: their keys differ and no  *)
(*     step relates two keys. The limiter "totp" is used in the same way   *)
(*     by handle2FAVerify, with one key.                                   *)
(*   - An entry with count 0 is one that is not in the map.                *)
(*   - A login is given its outcome when the password is checked.          *)
(***************************************************************************)
EXTENDS Naturals

CONSTANTS
    Nodes,
    Keys,       \* addresses and user names
    Logins,     \* login requests
    At,         \* At[a]: the node login a reaches
    KeysOf,     \* KeysOf[a]: its <<address, user>>
    MaxFails, Window, Lockout,
    LastTry,    \* bound: no login is under way after this time
    MaxTime,    \* bound: the last instant
    MaxRestarts \* bound: restarts of a node

ASSUME LoginAssumption ==
    /\ At \in [Logins -> Nodes]
    /\ KeysOf \in [Logins -> Keys \X Keys]
ASSUME LimitsAssumption ==
    /\ MaxFails \in Nat \ {0}
    /\ Window \in Nat \ {0}
    /\ Lockout \in Nat \ {0}
ASSUME TimeAssumption ==
    LastTry \in Nat /\ MaxTime \in Nat /\ MaxRestarts \in Nat

VARIABLES
    now,
    entries,   \* entries[n][k]: Limiter.entries of node n
    pc,        \* the program point of each login
    sync,      \* the program point of each node's limiterPersist.sync
    copy,      \* the snapshot it is saving, then the states it has loaded
    table,     \* pxproxy_locks
    restarts,
    fails,     \* history: failed logins of a key, at any node
    lastFail   \* history: when the last of them was counted

syncVars == <<sync, copy, table>>
histVars == <<fails, lastFail>>
vars == <<now, entries, pc, syncVars, restarts, histVars>>

-----------------------------------------------------------------------------
Entry == [count : Nat, first : Nat, until : Nat]
NoEntry == [count |-> 0, first |-> 0, until |-> 0]
Entries == [Keys -> Entry]
Empty == [k \in Keys |-> NoEntry]

LoginPoints ==
    {"idle", "user", "verify", "failIP", "failUser", "resetIP", "resetUser",
     "blocked", "refused", "accepted", "lost"}
SyncPoints == {"idle", "save", "load", "restore"}

TypeOK ==
    /\ now \in Nat
    /\ entries \in [Nodes -> Entries]
    /\ pc \in [Logins -> LoginPoints]
    /\ sync \in [Nodes -> SyncPoints]
    /\ copy \in [Nodes -> Entries]
    /\ table \in Entries
    /\ restarts \in Nat
    /\ fails \in [Keys -> Nat]
    /\ lastFail \in [Keys -> Nat]

Ended == {"blocked", "refused", "accepted", "lost"}
InFlight(a) == pc[a] \notin Ended \cup {"idle"}

Locked(e) == now < e.until

\* The window in which failures add up has passed.
Stale(e) == now > e.first + Window

\* What gc deletes, and Snapshot and Restore leave out.
Expired(e) == now > e.until /\ Stale(e)

\* The entries that count, among es.
Live(es) ==
    [k \in Keys |-> IF es[k].count > 0 /\ ~Expired(es[k]) THEN es[k]
                    ELSE NoEntry]

\* mergeLockStates: the entry in the row replaces the one coming in.
Newer(e, f) ==
    \/ e.until > f.until
    \/ e.until = f.until /\ e.count > f.count

Merged_Upsert(existing, incoming) ==  \* mutant: what comes in always wins
    [k \in Keys |-> IF incoming[k].count = 0 THEN existing[k] ELSE incoming[k]]

Merged(existing, incoming) ==
    [k \in Keys |-> IF Newer(existing[k], incoming[k]) THEN existing[k]
                    ELSE incoming[k]]

Restored_Adds(es, st) ==  \* mutant: the counts of both are added
    [k \in Keys |-> [es[k] EXCEPT !.count = @ + Live(st)[k].count]]

Restored_Any(es, st) ==  \* mutant: expired entries come back
    [k \in Keys |-> IF es[k].count = 0 THEN st[k] ELSE es[k]]

Restored_Only(es, st) ==  \* mutant: they take the place of the others
    [k \in {x \in Keys : st[x].count > 0} |-> Live(st)[k]]

Restored_Relocks(es, st) ==  \* mutant: what is kept is how long it is locked
    [k \in Keys |->
       IF es[k].count # 0 THEN es[k]
       ELSE IF Locked(st[k]) THEN [st[k] EXCEPT !.until = now + Lockout]
       ELSE Live(st)[k]]

\* Limiter.Restore: only the keys the node does not have.
Restored(es, st) ==
    [k \in Keys |-> IF es[k].count = 0 THEN Live(st)[k] ELSE es[k]]

\* Limiter.Fail.
Failed(e) ==
    LET r == IF e.count = 0 \/ Stale(e)
             THEN [count |-> 1, first |-> now, until |-> 0]
             ELSE [e EXCEPT !.count = @ + 1]
    IN IF r.count >= MaxFails THEN [r EXCEPT !.until = now + Lockout] ELSE r

Goto(a, point) == pc' = [pc EXCEPT ![a] = point]

Init ==
    /\ now = 1
    /\ entries = [n \in Nodes |-> Empty]
    /\ pc = [a \in Logins |-> "idle"]
    /\ sync = [n \in Nodes |-> "idle"]
    /\ copy = [n \in Nodes |-> Empty]
    /\ table = Empty
    /\ restarts = 0
    /\ fails = [k \in Keys |-> 0]
    /\ lastFail = [k \in Keys |-> 0]

-----------------------------------------------------------------------------
(* A login.                                                                *)

\* Limiter.Allowed at one program point of login a: either the key is locked
\* and the login is turned away, or it goes on and a stale entry is dropped.
Allowed(a, k, next) ==
    LET n == At[a]
        e == entries[n][k]
    IN /\ \/ /\ Locked(e)
             /\ Goto(a, "blocked")
             /\ UNCHANGED entries
          \/ /\ ~Locked(e)
             /\ Goto(a, next)
             /\ entries' =
                  [entries EXCEPT ![n][k] = IF Stale(e) THEN NoEntry ELSE e]
       /\ UNCHANGED <<now, syncVars, restarts, histVars>>

CheckIP(a) ==
    /\ pc[a] = "idle"
    /\ now <= LastTry
    /\ Allowed(a, KeysOf[a][1], "user")

CheckUser(a) == pc[a] = "user" /\ Allowed(a, KeysOf[a][2], "verify")

\* LocalLogin or LDAPLogin: the password is right or wrong.
Verify(a) ==
    /\ pc[a] = "verify"
    /\ \E point \in {"failIP", "resetIP"} : Goto(a, point)
    /\ UNCHANGED <<now, entries, syncVars, restarts, histVars>>

Fail(a, k, next) ==
    /\ entries' = [entries EXCEPT ![At[a]][k] = Failed(@)]
    /\ fails' = [fails EXCEPT ![k] = @ + 1]
    /\ lastFail' = [lastFail EXCEPT ![k] = now]
    /\ Goto(a, next)
    /\ UNCHANGED <<now, syncVars, restarts>>

FailIP(a) == pc[a] = "failIP" /\ Fail(a, KeysOf[a][1], "failUser")
FailUser(a) == pc[a] = "failUser" /\ Fail(a, KeysOf[a][2], "refused")

\* Limiter.Reset.
Reset(a, k, next) ==
    /\ entries' = [entries EXCEPT ![At[a]][k] = NoEntry]
    /\ Goto(a, next)
    /\ UNCHANGED <<now, syncVars, restarts, histVars>>

ResetIP(a) == pc[a] = "resetIP" /\ Reset(a, KeysOf[a][1], "resetUser")
ResetUser(a) == pc[a] = "resetUser" /\ Reset(a, KeysOf[a][2], "accepted")

-----------------------------------------------------------------------------
(* gc and limiterPersist.sync.                                             *)

Gc(n) ==
    /\ \E k \in Keys : entries[n][k].count > 0 /\ Expired(entries[n][k])
    /\ entries' = [entries EXCEPT ![n] = Live(@)]
    /\ UNCHANGED <<now, pc, syncVars, restarts, histVars>>

\* save: the snapshot ...
Snapshot(n) ==
    /\ sync[n] = "idle"
    /\ copy' = [copy EXCEPT ![n] = Live(entries[n])]
    /\ sync' = [sync EXCEPT ![n] = "save"]
    /\ UNCHANGED <<now, entries, pc, table, restarts, histVars>>

\* ... and SaveLocks, one transaction under the advisory lock, ...
SaveLocks(n) ==
    /\ sync[n] = "save"
    /\ table' = Merged(table, copy[n])
    /\ copy' = [copy EXCEPT ![n] = Empty]
    /\ sync' = [sync EXCEPT ![n] = "load"]
    /\ UNCHANGED <<now, entries, pc, restarts, histVars>>

\* ... or its failure, which is logged and otherwise ignored.
SaveLocksFails(n) ==
    /\ sync[n] = "save"
    /\ copy' = [copy EXCEPT ![n] = Empty]
    /\ sync' = [sync EXCEPT ![n] = "load"]
    /\ UNCHANGED <<now, entries, pc, table, restarts, histVars>>

LoadLocks(n) ==
    /\ sync[n] = "load"
    /\ copy' = [copy EXCEPT ![n] = table]
    /\ sync' = [sync EXCEPT ![n] = "restore"]
    /\ UNCHANGED <<now, entries, pc, table, restarts, histVars>>

LoadLocksFails(n) ==
    /\ sync[n] = "load"
    /\ sync' = [sync EXCEPT ![n] = "idle"]
    /\ UNCHANGED <<now, entries, pc, copy, table, restarts, histVars>>

Restore(n) ==
    /\ sync[n] = "restore"
    /\ entries' = [entries EXCEPT ![n] = Restored(@, copy[n])]
    /\ copy' = [copy EXCEPT ![n] = Empty]
    /\ sync' = [sync EXCEPT ![n] = "idle"]
    /\ UNCHANGED <<now, pc, table, restarts, histVars>>

\* The node stops, in order (saving once more) or not, and starts again with
\* what load finds, or with nothing when the database does not answer.
Restart(n) ==
    /\ restarts < MaxRestarts
    /\ restarts' = restarts + 1
    /\ table' \in {table, Merged(table, Live(entries[n]))}
    /\ \E found \in {Empty, table'} :
         entries' = [entries EXCEPT ![n] = Restored(Empty, found)]
    /\ pc' = [a \in Logins |-> IF At[a] = n /\ InFlight(a) THEN "lost"
                               ELSE pc[a]]
    /\ copy' = [copy EXCEPT ![n] = Empty]
    /\ sync' = [sync EXCEPT ![n] = "idle"]
    /\ UNCHANGED <<now, histVars>>

Tick ==
    /\ now < MaxTime
    /\ now >= LastTry => \A a \in Logins : ~InFlight(a)
    /\ now' = now + 1
    /\ UNCHANGED <<entries, pc, syncVars, restarts, histVars>>

-----------------------------------------------------------------------------
Login(a) ==
    \/ CheckIP(a) \/ CheckUser(a) \/ Verify(a) \/ FailIP(a) \/ FailUser(a)
    \/ ResetIP(a) \/ ResetUser(a)

Sync(n) ==
    \/ Snapshot(n) \/ SaveLocks(n) \/ SaveLocksFails(n) \/ LoadLocks(n)
    \/ LoadLocksFails(n) \/ Restore(n)

Next ==
    \/ \E a \in Logins : Login(a)
    \/ \E n \in Nodes : Gc(n) \/ Sync(n) \/ Restart(n)
    \/ Tick

Spec == Init /\ [][Next]_vars

\* Time passes, requests are served, gc and sync have tickers of their own.
Fairness ==
    /\ WF_vars(Tick)
    /\ \A a \in Logins : WF_vars(Login(a))
    /\ \A n \in Nodes : WF_vars(Gc(n)) /\ WF_vars(Sync(n))

FairSpec == Spec /\ Fairness

-----------------------------------------------------------------------------
(* Properties.                                                             *)

\* The table never forgets: no merge, of whatever stale snapshot, and in
\* whatever order of the nodes' transactions, makes the lock of a key end
\* earlier or lowers its count (mergeLockStates under the advisory lock).
TableKeepsNewest ==
    [][\A k \in Keys :
         /\ table'[k].until >= table[k].until
         /\ table'[k].until = table[k].until
              => table'[k].count >= table[k].count]_vars

\* Every copy of an entry: in a limiter, on its way, in the table.
Copies(k) ==
    {entries[n][k] : n \in Nodes} \cup {copy[n][k] : n \in Nodes}
      \cup {table[k]}

\* No failure is counted twice, though entries travel between limiters, the
\* table and restarted nodes (Fail, Restore, mergeLockStates).
NoFailureCountedTwice ==
    \A k \in Keys : \A e \in Copies(k) : e.count <= fails[k]

\* A key is locked for at most Lockout after its last failure anywhere: no
\* round trip through the table extends a lock (Fail, Restore).
LockBounded ==
    \A k \in Keys : \A e \in Copies(k) :
      e.until > 0 => e.until <= lastFail[k] + Lockout

\* Every limiter ends up empty once the logins stop: the table's entries,
\* which are never deleted, do not come back for ever (gc, Restore).
EntriesForgotten == <>[](\A n \in Nodes : entries[n] = Empty)

-----------------------------------------------------------------------------
(* What the documentation says and the code does not do.                   *)

\* After a sync a node holds every lock of the table it has read (Restore
\* leaves alone a key for which the node has an entry of its own).
SyncBringsLocks ==
    [][\A n \in Nodes : sync[n] = "restore" /\ restarts' = restarts
                        /\ sync'[n] = "idle" =>
         \A k \in Keys : Locked(copy[n][k]) => Locked(entries'[n][k])]_vars

\* A lock lasts until its end, a success or a restart (Fail starts a new entry
\* when the window has passed, locked or not).
LockLasts ==
    [][\A n \in Nodes, k \in Keys :
         Locked(entries[n][k]) /\ entries'[n][k].until < entries[n][k].until
           => \/ restarts' # restarts
              \/ \E a \in Logins : pc[a] \in {"resetIP", "resetUser"}
                                   /\ pc'[a] # pc[a]]_vars
=============================================================================
