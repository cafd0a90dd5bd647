------------------------------- MODULE Updater -------------------------------
(***************************************************************************)
(* internal/update and the panel's handler: the ways the executable of a   *)
(* node is replaced.                                                       *)
(*   - Panel (handleUpdateApply): downloads the release to pxproxy.update  *)
(*     and starts a script that waits for the end of the process, moves    *)
(*     the download over the executable and starts it.                     *)
(*   - Command line (update.apply): downloads to the same file, moves the  *)
(*     executable aside to .bak and the download into its place.           *)
(* Nothing keeps two of them from working at once: they share the four     *)
(* names below.                                                            *)
(*                                                                         *)
(* Abstractions.                                                           *)
(*   - A release is a number, later ones being higher; releases are not    *)
(*     withdrawn, and the process runs one.  A file holds one release,     *)
(*     whole or not.                                                       *)
(*   - The two requests for the latest release of the handler are one, its *)
(*     second: the first only decides whether to go on.                    *)
(*   - Downloads that are under way at once are of one release.            *)
(*   - The script is that of Unix; its texts for several updates are the   *)
(*     same.  Each update is done once.                                    *)
(***************************************************************************)
EXTENDS Naturals

CONSTANTS
    Panels,     \* updates asked of the panel
    Clis,       \* runs of "pxproxy update"
    MaxRelease, \* bound: the last release
    MaxStarts   \* bound: starts by the service manager

Updates == Panels \cup Clis

VARIABLES
    running,
    version,    \* Admin.version: the release the process was started from
    latest,     \* the latest release published
    file,       \* file[x]: the release under name x, 0 when there is none
    writer,     \* writer[x]: who emptied file x and has not written all of it
    pc,         \* the point of each update
    rel,        \* rel[u]: the release update u has fetched
    script,     \* script[p]: the point of the restart script of p
    starts,
    crossed     \* history: two updates were in each other's way

files == <<file, writer>>
process == <<running, version, starts>>
vars == <<process, latest, files, pc, rel, script, crossed>>

-----------------------------------------------------------------------------
Names == {"exe", "bak", "update", "part"}

PanelPoints == {"idle", "download", "schedule", "log", "answer", "ended"}
CliPoints ==
    {"idle", "download", "stat", "clear", "aside", "place", "revert", "discard",
     "ended"}
ScriptPoints == {"none", "wait", "fetch", "place", "start", "done", "killed"}

TypeOK ==
    /\ running \in BOOLEAN
    /\ version \in 1 .. MaxRelease
    /\ latest \in 1 .. MaxRelease
    /\ file \in [Names -> 0 .. MaxRelease]
    /\ writer \in [Names -> Updates \cup {"none"}]
    /\ pc \in [Updates -> PanelPoints \cup CliPoints]
    /\ rel \in [Updates -> 0 .. MaxRelease]
    /\ script \in [Panels -> ScriptPoints]
    /\ starts \in Nat
    /\ crossed \in BOOLEAN

Init ==
    /\ running = TRUE
    /\ version = 1
    /\ latest = 1
    /\ file = [x \in Names |-> IF x = "exe" THEN 1 ELSE 0]
    /\ writer = [x \in Names |-> "none"]
    /\ pc = [u \in Updates |-> "idle"]
    /\ rel = [u \in Updates |-> 0]
    /\ script = [p \in Panels |-> "none"]
    /\ starts = 0
    /\ crossed = FALSE

-----------------------------------------------------------------------------
(* Files.                                                                  *)

Exists(x) == file[x] # 0
Whole(x) == Exists(x) /\ writer[x] = "none"

\* os.Rename and mv -f: a file already under the name y is lost, and who is
\* writing x goes on writing it under its new name.
Move(x, y) ==
    /\ file' = [file EXCEPT ![y] = file[x], ![x] = 0]
    /\ writer' = [writer EXCEPT ![y] = writer[x], ![x] = "none"]

Remove(x) ==
    /\ file' = [file EXCEPT ![x] = 0]
    /\ writer' = [writer EXCEPT ![x] = "none"]

\* Moves whose failure is not looked at: without the file they do nothing.
MoveIfAny(x, y) == IF Exists(x) THEN Move(x, y) ELSE UNCHANGED files

-----------------------------------------------------------------------------
(* The download, which both ways share.                                    *)

Busy(u) == pc[u] \notin {"idle", "ended"}
Pending(p) == script[p] \notin {"none", "done", "killed"}
Goto(u, point) == pc' = [pc EXCEPT ![u] = point]

\* os.Create empties the file another download may be writing.
Create(u) ==
    /\ rel' = [rel EXCEPT ![u] = latest]
    /\ file' = [file EXCEPT !["part"] = latest]
    /\ writer' = [writer EXCEPT !["part"] = u]
    /\ crossed' = (\/ crossed
                   \/ \E v \in Updates : Busy(v)
                   \/ u \in Clis /\ \E p \in Panels : Pending(p))
    /\ Goto(u, "download")
    /\ UNCHANGED <<process, latest, script>>

\* Check: there is a later release than the one that runs.
UpdateAvailable == latest > version

PanelBegins(p) ==
    /\ running
    /\ pc[p] = "idle"
    /\ UpdateAvailable
    /\ Create(p)

\* apply does not look at the release that is installed.
CliBegins(c) ==
    /\ pc[c] = "idle"
    /\ Whole("exe")
    /\ Create(c)

\* The copy has ended: the file is whole, under whatever name it has now, and
\* the file that is now under the name .part is renamed.
DownloadEnds(u) ==
    /\ pc[u] = "download"
    /\ LET left == [x \in Names |-> IF writer[x] = u THEN "none" ELSE writer[x]]
       IN  IF Exists("part")
           THEN /\ file' = [file EXCEPT !["update"] = file["part"], !["part"] = 0]
                /\ writer' = [left EXCEPT !["update"] = left["part"],
                                          !["part"] = "none"]
                /\ Goto(u, IF u \in Panels THEN "schedule" ELSE "stat")
           ELSE /\ writer' = left
                /\ Goto(u, "ended")
                /\ UNCHANGED file
    /\ UNCHANGED <<process, latest, rel, script, crossed>>

DownloadFails_Eager(u) ==  \* mutant: an earlier download goes, too
    /\ pc[u] = "download"
    /\ file' = [file EXCEPT !["part"] = 0, !["update"] = 0]
    /\ writer' = [writer EXCEPT !["part"] = "none", !["update"] = "none"]
    /\ Goto(u, "ended")
    /\ UNCHANGED <<process, latest, rel, script, crossed>>

DownloadFails_Unseen(u) ==  \* mutant: the error of io.Copy is not looked at
    /\ pc[u] = "download"
    /\ Move("part", "update")
    /\ Goto(u, IF u \in Panels THEN "schedule" ELSE "stat")
    /\ UNCHANGED <<process, latest, rel, script, crossed>>

\* The file under the name .part is removed, whoever is writing it.
DownloadFails(u) ==
    /\ pc[u] = "download"
    /\ Remove("part")
    /\ Goto(u, "ended")
    /\ UNCHANGED <<process, latest, rel, script, crossed>>

-----------------------------------------------------------------------------
(* The panel: scheduleRestart, the audit log, the answer, the script.      *)

Schedule_Unlogged(p) ==  \* mutant: the event is forgotten
    /\ pc[p] = "schedule"
    /\ Goto(p, "answer")
    /\ UNCHANGED <<process, latest, files, rel, script, crossed>>

\* os.WriteFile of the script.
Schedule(p) ==
    /\ pc[p] = "schedule"
    /\ Goto(p, "log")
    /\ UNCHANGED <<process, latest, files, rel, script, crossed>>

ScheduleFails(p) ==
    /\ pc[p] = "schedule"
    /\ Remove("update")
    /\ Goto(p, "ended")
    /\ crossed' = (crossed \/ \E q \in Panels : Pending(q))
    /\ UNCHANGED <<process, latest, rel, script>>

Logged(p) ==
    /\ pc[p] = "log"
    /\ Goto(p, "answer")
    /\ UNCHANGED <<process, latest, files, rel, script, crossed>>

\* tryRunAsync: the script waits for the end of the process.  That it could not
\* be started is not looked at.
RunScript(p) ==
    /\ pc[p] = "answer"
    /\ script' = [script EXCEPT ![p] = "wait"] \/ UNCHANGED script
    /\ Goto(p, "ended")
    /\ UNCHANGED <<process, latest, files, rel, crossed>>

ScriptGoto(p, point) == script' = [script EXCEPT ![p] = point]

ScriptFetches_SavesOld(p) ==  \* mutant: the executable is saved there instead
    /\ script[p] = "fetch"
    /\ MoveIfAny("exe", "bak")
    /\ ScriptGoto(p, "place")
    /\ UNCHANGED <<process, latest, pc, rel, crossed>>

ScriptFetches(p) ==
    /\ script[p] = "fetch"
    /\ MoveIfAny("update", "bak")
    /\ ScriptGoto(p, "place")
    /\ UNCHANGED <<process, latest, pc, rel, crossed>>

ScriptPlaces(p) ==
    /\ script[p] = "place"
    /\ MoveIfAny("bak", "exe")
    /\ ScriptGoto(p, "start")
    /\ UNCHANGED <<process, latest, pc, rel, crossed>>

\* The service manager, or a restart of the machine, ends the script.
ScriptKilled(p) ==
    /\ Pending(p)
    /\ ScriptGoto(p, "killed")
    /\ UNCHANGED <<process, latest, files, pc, rel, crossed>>

-----------------------------------------------------------------------------
(* The command line.                                                       *)

Stat(c) ==
    /\ pc[c] = "stat"
    /\ Goto(c, IF Exists("exe") THEN "clear" ELSE "place")
    /\ UNCHANGED <<process, latest, files, rel, script, crossed>>

\* The copy of an earlier update is removed.
Clear(c) ==
    /\ pc[c] = "clear"
    /\ Remove("bak")
    /\ Goto(c, "aside")
    /\ UNCHANGED <<process, latest, rel, script, crossed>>

Aside(c) ==
    /\ pc[c] = "aside"
    /\ \/ Exists("exe") /\ Move("exe", "bak") /\ Goto(c, "place")
       \/ UNCHANGED files /\ Goto(c, "discard")
    /\ UNCHANGED <<process, latest, rel, script, crossed>>

Place(c) ==
    /\ pc[c] = "place"
    /\ \/ Exists("update") /\ Move("update", "exe") /\ Goto(c, "ended")
       \/ UNCHANGED files /\ Goto(c, "revert")
    /\ UNCHANGED <<process, latest, rel, script, crossed>>

\* The error of this rename is not looked at.
Revert(c) ==
    /\ pc[c] = "revert"
    /\ MoveIfAny("bak", "exe") \/ UNCHANGED files
    /\ Goto(c, "discard")
    /\ UNCHANGED <<process, latest, rel, script, crossed>>

Discard(c) ==
    /\ pc[c] = "discard"
    /\ Remove("update")
    /\ Goto(c, "ended")
    /\ UNCHANGED <<process, latest, rel, script, crossed>>

CliKilled(c) ==
    /\ Busy(c)
    /\ Goto(c, "ended")
    /\ UNCHANGED <<process, latest, files, rel, script, crossed>>

-----------------------------------------------------------------------------
(* The process and the releases.                                           *)

\* Its requests end with it, and the scripts that waited for it go on.
Stop ==
    /\ running
    /\ running' = FALSE
    /\ pc' = [u \in Updates |-> IF u \in Panels /\ Busy(u) THEN "ended" ELSE pc[u]]
    /\ script' = [p \in Panels |-> IF script[p] = "wait" THEN "fetch" ELSE script[p]]
    /\ UNCHANGED <<version, starts, latest, files, rel, crossed>>

Boot ==
    /\ running' = TRUE
    /\ version' = file["exe"]
    /\ starts' = starts + 1

\* The service manager starts what is under the name, if it can be run.
Start ==
    /\ ~running
    /\ starts < MaxStarts
    /\ Whole("exe")
    /\ Boot
    /\ UNCHANGED <<latest, files, pc, rel, script, crossed>>

\* A second process cannot listen and ends.
ScriptStarts(p) ==
    /\ script[p] = "start"
    /\ ScriptGoto(p, "done")
    /\ IF ~running /\ Whole("exe") THEN Boot ELSE UNCHANGED process
    /\ UNCHANGED <<latest, files, pc, rel, crossed>>

Publish ==
    /\ latest < MaxRelease
    /\ latest' = latest + 1
    /\ UNCHANGED <<process, files, pc, rel, script, crossed>>

PanelStep(p) ==
    \/ DownloadEnds(p) \/ DownloadFails(p)
    \/ Schedule(p) \/ ScheduleFails(p)
    \/ Logged(p)
    \/ RunScript(p)

ScriptStep(p) == ScriptFetches(p) \/ ScriptPlaces(p) \/ ScriptStarts(p)

CliStep(c) ==
    \/ DownloadEnds(c) \/ DownloadFails(c)
    \/ Stat(c) \/ Clear(c) \/ Aside(c) \/ Place(c) \/ Revert(c) \/ Discard(c)

Next ==
    \/ \E p \in Panels :
          PanelBegins(p) \/ PanelStep(p) \/ ScriptStep(p) \/ ScriptKilled(p)
    \/ \E c \in Clis : CliBegins(c) \/ CliStep(c) \/ CliKilled(c)
    \/ Stop
    \/ Start
    \/ Publish

Spec ==
    /\ Init /\ [][Next]_vars
    /\ \A p \in Panels : WF_vars(PanelStep(p)) /\ WF_vars(ScriptStep(p))
    /\ \A c \in Clis : WF_vars(CliStep(c))

-----------------------------------------------------------------------------
(* Properties.                                                             *)

\* The executable, or while there is none its copy.
Copy == IF Exists("exe") THEN "exe" ELSE "bak"
Installed == file[Copy]

\* Updates that are not in each other's way leave a whole executable, or its
\* whole copy, wherever they fail or are killed: no download that was cut off
\* takes its place (downloadAsset, apply, scheduleRestart).
ExecutableSurvives == ~crossed => Whole(Copy)

\* Nor does a step of theirs put an older release back, though a retry from
\* the panel, a copy left behind and a script that still waits all use the
\* same names.
NeverOlder == [][~crossed' => Installed' >= Installed]_vars

\* A script whose process has ended installs the release it was started for,
\* unless it is killed (scheduleRestart).
ScheduledInstalls ==
    \A p \in Panels :
        script[p] = "fetch" ~>
            file["exe"] >= rel[p] \/ script[p] = "killed" \/ crossed

-----------------------------------------------------------------------------
(* What the panel and the comments say and the code does not do.           *)

\* After the answer of the handler the service restarts with the new release.
\* It does not: nothing ends the process the script waits for.
RestartsByItself ==
    \A p \in Panels :
        script[p] = "wait" ~> version >= rel[p] \/ script[p] = "killed"

\* There is a copy of the release that was replaced.  The script's is the new
\* release, for a moment.
PreviousKept ==
    [][file'["exe"] > file["exe"] /\ file["exe"] # 0
         => file'["bak"] # 0]_vars

\* Two updates at once: two command lines can leave no executable and no copy,
\* and one can leave a script that puts the copy back.
SafeTogether ==
    (\A u \in Updates : ~Busy(u)) => Exists("exe") \/ Exists("bak")
NeverOlderTogether == [][Installed' >= Installed]_vars
=============================================================================
