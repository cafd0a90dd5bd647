----------------------------- MODULE NodeUpkeep -----------------------------
(***************************************************************************)
(* The upkeep of one node: its audit log and its updates, which end and    *)
(* begin with the same process.  An update asked of the panel writes the   *)
(* event update_scheduled before its script is started; the other          *)
(* handlers write theirs at any moment, and the log takes one at a time.   *)
(* The command line writes no event.                                       *)
(***************************************************************************)
EXTENDS AuditLog

CONSTANTS
    Panels, Clis, MaxRelease, MaxStarts,   \* of Updater
    Others                                 \* the callers that are no update

VARIABLES
    version, latest, file, writer, pc, rel, script, starts, crossed,
    caller,   \* whose event the log is writing
    entry     \* history: the number of the event of each panel update

U == INSTANCE Updater WITH running <- up

updaterVars == <<version, latest, file, writer, pc, rel, script, starts, crossed>>
allVars == <<vars, updaterVars, caller, entry>>

UpkeepInit ==
    /\ Init
    /\ U!Init
    /\ caller = Others
    /\ entry = [p \in Panels |-> 0]

-----------------------------------------------------------------------------
\* a.audit.Log of any other handler.
OtherLogs ==
    /\ Log \/ LogDropped
    /\ caller' = Others
    /\ UNCHANGED <<updaterVars, entry>>

PanelLogs(p) ==
    /\ pc[p] = "log"
    /\ Log
    /\ caller' = p
    /\ UNCHANGED <<updaterVars, entry>>

PanelLogDropped(p) ==
    /\ LogDropped
    /\ U!Logged(p)
    /\ UNCHANGED <<caller, entry>>

LogGoesOn ==
    /\ LogSteps
    /\ at' # "idle"
    /\ UNCHANGED <<updaterVars, caller, entry>>

\* Log returns to its caller, whether or not the event is in the file.
LogReturns ==
    /\ LogSteps
    /\ at' = "idle"
    /\ \/ caller = Others /\ UNCHANGED <<updaterVars, entry>>
       \/ /\ caller \in Panels
          /\ U!Logged(caller)
          /\ entry' = [entry EXCEPT ![caller] = IF last' > last THEN last' ELSE 0]
    /\ UNCHANGED caller

NodeStops == Stop /\ U!Stop /\ UNCHANGED <<caller, entry>>
NodeStarts == Start /\ U!Start /\ UNCHANGED <<caller, entry>>

ScriptStarts(p) ==
    /\ U!ScriptStarts(p)
    /\ IF up' = up THEN UNCHANGED vars ELSE Start
    /\ UNCHANGED <<caller, entry>>

UpdateStep ==
    /\ \/ \E p \in Panels :
            \/ U!PanelBegins(p)
            \/ U!DownloadEnds(p) \/ U!DownloadFails(p)
            \/ U!Schedule(p) \/ U!ScheduleFails(p)
            \/ U!RunScript(p)
            \/ U!ScriptKilled(p)
       \/ \E c \in Clis : U!CliBegins(c) \/ U!CliStep(c) \/ U!CliKilled(c)
       \/ U!Publish
    /\ UNCHANGED <<vars, caller, entry>>

ScriptMoves(p) ==
    /\ U!ScriptFetches(p) \/ U!ScriptPlaces(p)
    /\ UNCHANGED <<vars, caller, entry>>

ScriptStep(p) == ScriptMoves(p) \/ ScriptStarts(p)

UpkeepNext ==
    \/ OtherLogs
    \/ \E p \in Panels : PanelLogs(p) \/ PanelLogDropped(p) \/ ScriptStep(p)
    \/ LogGoesOn \/ LogReturns
    \/ NodeStops \/ NodeStarts
    \/ UpdateStep

UpkeepSpec ==
    /\ UpkeepInit /\ [][UpkeepNext]_allVars
    /\ \A p \in Panels : WF_allVars(ScriptStep(p))

-----------------------------------------------------------------------------
(* Properties.                                                             *)

ExecutableSurvives == U!ExecutableSurvives
NeverOlder == U!NeverOlder
ScheduledInstalls == U!ScheduledInstalls

\* The event of p can be read in the files, or enough newer ones have been
\* written, or it was among those the log dropped.
Traced(p) ==
    \/ entry[p] > 0 /\ (entry[p] \in Kept \/ entry[p] + Keep * PerFile <= last)
    \/ entry[p] = 0 /\ dropped

\* An executable is not replaced from the panel without a trace: no script runs
\* before its event is in the files, however the log rotates and whatever of it
\* fails meanwhile (handleUpdateApply, Log, rotateLocked).
ScriptsAreLogged == \A p \in Panels : script[p] # "none" => Traced(p)
=============================================================================
