------------------------------ MODULE AuditLog ------------------------------
(***************************************************************************)
(* security.AuditLog: the file audit.log of a node, its rotation to        *)
(* audit-<stamp>.log and the removal of the oldest rotated files.          *)
(*                                                                         *)
(* Abstractions.                                                           *)
(*   - Events are numbered as they are written; a file holds an interval   *)
(*     of them and is full with PerFile events (max bytes in the code).    *)
(*   - The stamp of a rotated file is a number: the order of the numbers   *)
(*     is the order of the names.                                          *)
(*   - The steps of Log under the mutex are actions, for the process may   *)
(*     end between two of them.  Any call to the disk may fail, but Stat   *)
(*     of the open file.                                                   *)
(*   - The copy of an event to the table pxproxy_audit (the sink) is left  *)
(*     to BackupRestore, which has that table.                             *)
(***************************************************************************)
EXTENDS Naturals, FiniteSets

CONSTANTS
    PerFile,
    Keep,        \* auditKeepRotated
    ClockFaults, \* the local time may stand still or go back
    MaxEvents    \* bound: events written

ASSUME SizeAssumption == PerFile \in Nat \ {0} /\ Keep \in Nat
ASSUME BoundAssumption == ClockFaults \in BOOLEAN /\ MaxEvents \in Nat

VARIABLES
    up,       \* does the process run
    f,        \* AuditLog.f: "open", or "nil" when it could not be opened again
    at,       \* the point Log has reached under the mutex
    last,     \* events written so far
    first,    \* audit.log holds the events first .. last
    rotated,  \* the rotated files
    dropped   \* history: an event was left out of the files

vars == <<up, f, at, last, first, rotated, dropped>>

-----------------------------------------------------------------------------
File == [stamp : Nat, lo : Nat, hi : Nat]

TypeOK ==
    /\ up \in BOOLEAN
    /\ f \in {"open", "nil"}
    /\ at \in {"idle", "rename", "prune", "reopen", "write"}
    /\ last \in Nat
    /\ first \in Nat
    /\ rotated \subseteq File
    /\ IsFiniteSet(rotated)
    /\ dropped \in BOOLEAN

Init ==
    /\ up = TRUE
    /\ f = "open"
    /\ at = "idle"
    /\ last = 0
    /\ first = 1
    /\ rotated = {}
    /\ dropped = FALSE

-----------------------------------------------------------------------------
Full == last + 1 - first >= PerFile

Newer(r) == {q \in rotated : q.stamp > r.stamp}

Excess_OneMore ==  \* mutant: one file less is kept
    {r \in rotated : Cardinality(Newer(r)) + 1 >= Keep}

\* sort.Strings, then all but the last auditKeepRotated of the names.
Excess == {r \in rotated : Cardinality(Newer(r)) >= Keep}

\* time.Now() as a name: the next number after those of the other files, unless
\* the second has not passed or the local time was set back.
NewStamp(s) ==
    \/ ClockFaults
    \/ /\ \A r \in rotated : r.stamp < s
       /\ s = 1 \/ \E r \in rotated : s = r.stamp + 1

\* Log: without a file the event is dropped.
LogDropped ==
    /\ up /\ at = "idle" /\ f = "nil"
    /\ dropped' = TRUE
    /\ UNCHANGED <<up, f, at, last, first, rotated>>

Log ==
    /\ up /\ at = "idle" /\ f = "open"
    /\ last < MaxEvents
    /\ at' = IF Full THEN "rename" ELSE "write"
    /\ UNCHANGED <<up, f, last, first, rotated, dropped>>

\* os.Rename over a file of that name replaces it.
Rename(s) ==
    /\ at = "rename"
    /\ NewStamp(s)
    /\ rotated' = {r \in rotated : r.stamp # s}
                    \cup {[stamp |-> s, lo |-> first, hi |-> last]}
    /\ first' = last + 1
    /\ at' = "prune"
    /\ UNCHANGED <<up, f, last, dropped>>

RenameFails ==
    /\ at = "rename"
    /\ at' = "prune"
    /\ UNCHANGED <<up, f, last, first, rotated, dropped>>

\* Each removal may fail, and no failure is looked at.
Prune ==
    /\ at = "prune"
    /\ \E gone \in SUBSET Excess : rotated' = rotated \ gone
    /\ at' = "reopen"
    /\ UNCHANGED <<up, f, last, first, dropped>>

Reopen ==
    /\ at = "reopen"
    /\ at' = "write"
    /\ UNCHANGED <<up, f, last, first, rotated, dropped>>

\* a.f stays nil until the process is started again.
ReopenFails ==
    /\ at = "reopen"
    /\ f' = "nil"
    /\ at' = "idle"
    /\ dropped' = TRUE
    /\ UNCHANGED <<up, last, first, rotated>>

Write ==
    /\ at = "write"
    /\ last' = last + 1
    /\ at' = "idle"
    /\ UNCHANGED <<up, f, first, rotated, dropped>>

WriteFails ==
    /\ at = "write"
    /\ at' = "idle"
    /\ dropped' = TRUE
    /\ UNCHANGED <<up, f, last, first, rotated>>

Stop ==
    /\ up
    /\ up' = FALSE
    /\ at' = "idle"
    /\ UNCHANGED <<f, last, first, rotated, dropped>>

\* OpenAudit appends to the file it finds; main ends when it fails.
Start ==
    /\ ~up
    /\ up' = TRUE
    /\ f' = "open"
    /\ UNCHANGED <<at, last, first, rotated, dropped>>

LogSteps ==
    \/ \E s \in 1 .. MaxEvents : Rename(s)
    \/ RenameFails
    \/ Prune
    \/ Reopen \/ ReopenFails
    \/ Write \/ WriteFails

Next == Log \/ LogDropped \/ LogSteps \/ Stop \/ Start

Spec == Init /\ [][Next]_vars

-----------------------------------------------------------------------------
(* Properties.                                                             *)

Events(r) == r.lo .. r.hi
Kept == (first .. last) \cup UNION {Events(r) : r \in rotated}

\* The files keep the promise of AuditTrail for the events of Keep full files:
\* whatever calls to the disk fail and wherever in Log the process ends, no
\* event is overwritten, and none is removed before Keep * PerFile newer ones
\* have been written (Log, rotateLocked, OpenAudit).
Trail == INSTANCE AuditTrail WITH Retain <- Keep * PerFile, kept <- Kept
TrailKept == Trail!Spec

-----------------------------------------------------------------------------
(* What the documentation says and the code does not do.                   *)

\* Every event is in the files.  One is not when the write fails, and none is
\* from a rotation that could not open the file again to the next start.
NothingDropped == ~dropped
=============================================================================
