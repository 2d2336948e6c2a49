---- MODULE ConfigStore ----
(***************************************************************************)
(* config.yml and who reads and writes it: the daemon, which loads it when *)
(* it starts and then stats it every two seconds (Store in                 *)
(* internal/config/config.go, configReloader and poller in                 *)
(* internal/server/server.go, runServer in cmd/shitty-ci/main.go), the     *)
(* user's editor, and `shitty-ci setup github-app`, which rewrites the     *)
(* file in place (main.go).                                                *)
(*                                                                         *)
(* A stamp is a modification time.  Whoever writes the file may give it    *)
(* any stamp: an editor's save and the one before can fall into one tick   *)
(* of the file system's clock, and a file restored from a backup brings an *)
(* old stamp along.                                                        *)
(***************************************************************************)
EXTENDS Naturals

CONSTANTS
    Versions,       \* what the user can write: all settings but github_app
    Plain,          \* among them: nothing written, so the defaults
    Unset,          \* the zero Config
    MaxStamp,       \* bound on the stamps, which count from 1
    MaxEdits        \* bound on the writes of the file

ASSUME PlainAssumption == Plain \in Versions
ASSUME StampAssumption == MaxStamp \in Nat \ {0} /\ MaxEdits \in Nat

VARIABLES
    file,           \* config.yml
    stage,          \* the daemon: "down", then the Refresh of runServer, then
                    \* that of Run, then the one of each tick
    pc,             \* where the daemon is in Refresh
    cfg,            \* Store.cfg
    modTime,        \* Store.modTime, 0 for the zero time
    info,           \* Refresh: the stamp it saw
    read,           \* Refresh: what it has loaded
    period,         \* the settings the poller's ticker was set by
    setup,          \* the setup command
    edits,          \* writes so far
    newest,         \* history: the newest stamp the file ever had
    fresh           \* history: the file's stamp was newer than every other
                    \* when it was given

daemon == <<stage, pc, cfg, modTime, info, read, period>>
written == <<file, edits, newest, fresh>>
vars == <<daemon, setup, written>>

Settings == [user : Versions, app : BOOLEAN]
Default == [user |-> Plain, app |-> FALSE]
ASSUME UnsetAssumption == Unset \notin Settings

Stamps == 1..MaxStamp
Missing == [kind |-> "missing", settings |-> Default, stamp |-> 0]
SetupIdle == [at |-> "idle", kind |-> "valid", settings |-> Default]

\* A missing file means the defaults, and so does an empty one.
File == {Missing} \cup
        [kind : {"valid", "invalid"}, settings : Settings, stamp : Stamps]

\* Once the daemon has started it has a configuration that was loaded.
TypeOK ==
    /\ file \in File
    /\ stage \in {"down", "starting", "booting", "up"}
    /\ pc \in {"idle", "load", "store"}
    /\ cfg \in Settings \cup {Unset}
    /\ stage \in {"booting", "up"} => cfg # Unset
    /\ modTime \in Stamps \cup {0}
    /\ info \in Stamps \cup {0}
    /\ read \in Settings
    /\ period \in Settings \cup {Unset}
    /\ setup \in [at : {"idle", "read", "truncated"},
                  kind : {"valid", "invalid"}, settings : Settings]
    /\ edits \in 0..MaxEdits
    /\ newest \in Stamps \cup {0}
    /\ fresh \in BOOLEAN

Init ==
    /\ stage = "down"
    /\ pc = "idle"
    /\ cfg = Unset
    /\ modTime = 0
    /\ info = 0
    /\ read = Default
    /\ period = Unset
    /\ file = Missing
    /\ setup = SetupIdle
    /\ edits = 0
    /\ newest = 0
    /\ fresh = FALSE

----------------------------------------------------------------------------
\* Those who write the file

Write(kind, settings, stamp) ==
    /\ edits < MaxEdits
    /\ edits' = edits + 1
    /\ file' = [kind |-> kind, settings |-> settings, stamp |-> stamp]
    /\ fresh' = (stamp > newest)
    /\ newest' = IF stamp > newest THEN stamp ELSE newest

\* The user saves the file, well formed or not; github_app is kept or dropped.
Edit ==
    /\ \E kind \in {"valid", "invalid"}, settings \in Settings, stamp \in Stamps :
           /\ settings.app => file.settings.app
           /\ Write(kind, settings, stamp)
    /\ UNCHANGED <<daemon, setup>>

Delete ==
    /\ file # Missing
    /\ file' = Missing
    /\ fresh' = FALSE
    /\ UNCHANGED <<daemon, setup, edits, newest>>

\* The file goes through a map of its keys, so a value that Load would refuse
\* stays.  An error of yaml.Unmarshal is dropped: the map is empty then, and the
\* settings of a file that is not YAML are lost.
SetupReads ==
    /\ setup.at = "idle"
    /\ \/ /\ file # Missing
          /\ setup' = [at |-> "read", kind |-> file.kind,
                       settings |-> [file.settings EXCEPT !.app = TRUE]]
       \/ /\ file.kind # "valid"
          /\ setup' = [at |-> "read", kind |-> "valid",
                       settings |-> [Default EXCEPT !.app = TRUE]]
    /\ UNCHANGED <<daemon, written>>

\* os.WriteFile truncates the file, which is a valid one then, ...
SetupTruncates ==
    /\ setup.at = "read"
    /\ \E stamp \in Stamps : Write("valid", Default, stamp)
    /\ setup' = [setup EXCEPT !.at = "truncated"]
    /\ UNCHANGED daemon

\* ... and writes it.
SetupWrites ==
    /\ setup.at = "truncated"
    /\ \E stamp \in Stamps : Write(setup.kind, setup.settings, stamp)
    /\ setup' = SetupIdle
    /\ UNCHANGED daemon

SetupDies ==
    /\ setup.at # "idle"
    /\ setup' = SetupIdle
    /\ UNCHANGED <<daemon, written>>

SetupStep == SetupReads \/ SetupTruncates \/ SetupWrites \/ SetupDies

----------------------------------------------------------------------------
\* The daemon

\* runServer, with a new Store.
Start ==
    /\ stage = "down"
    /\ stage' = "starting"
    /\ UNCHANGED <<pc, cfg, modTime, info, read, period, setup, written>>

\* Refresh returns nil.
Advance ==
    /\ pc' = "idle"
    /\ stage' = IF stage = "starting" THEN "booting" ELSE "up"

\* Refresh has no file to load.
Stat ==
    /\ stage # "down"
    /\ pc = "idle"
    /\ \/ /\ file = Missing
          /\ cfg' = Default
          /\ modTime' = 0
          /\ Advance
          /\ UNCHANGED info
       \/ /\ file # Missing
          /\ file.stamp <= modTime
          /\ modTime # 0
          /\ Advance
          /\ UNCHANGED <<cfg, modTime, info>>
       \/ /\ file # Missing
          /\ file.stamp > modTime \/ modTime = 0
          /\ info' = file.stamp
          /\ pc' = "load"
          /\ UNCHANGED <<stage, cfg, modTime>>
    /\ UNCHANGED <<read, period, setup, written>>

\* The file may be another one by now, or gone.
Load ==
    /\ pc = "load"
    /\ file.kind # "invalid"
    /\ read' = file.settings
    /\ pc' = "store"
    /\ UNCHANGED <<stage, cfg, modTime, info, period, setup, written>>

\* Bug: nobody looks at the error of the Refresh that starts the daemon.
LoadFailsEarly ==
    /\ pc = "load"
    /\ file.kind = "invalid"
    /\ Advance
    /\ UNCHANGED <<cfg, modTime, info, read, period, setup, written>>

\* The error ends a daemon that starts, and is dropped later on.
LoadFails ==
    /\ pc = "load"
    /\ file.kind = "invalid"
    /\ IF stage = "starting"
       THEN /\ stage' = "down"
            /\ pc' = "idle"
            /\ info' = 0
            /\ read' = Default
            /\ UNCHANGED <<cfg, modTime, period>>
       ELSE /\ Advance
            /\ UNCHANGED <<cfg, modTime, info, read, period>>
    /\ UNCHANGED <<setup, written>>

\* Bug: the stamp is taken after the file has been loaded.
StoreLateStamp ==
    /\ pc = "store"
    /\ cfg' = read
    /\ modTime' = file.stamp
    /\ Advance
    /\ UNCHANGED <<info, read, period, setup, written>>

Store ==
    /\ pc = "store"
    /\ cfg' = read
    /\ modTime' = info
    /\ Advance
    /\ UNCHANGED <<info, read, period, setup, written>>

\* Bug: the ticker keeps the interval it was made with.
PollTicksOnce ==
    /\ stage = "up"
    /\ period = Unset
    /\ period' = cfg
    /\ UNCHANGED <<stage, pc, cfg, modTime, info, read, setup, written>>

\* The poller makes its ticker, and sets it again at every tick.
PollTicks ==
    /\ stage = "up"
    /\ period' = cfg
    /\ UNCHANGED <<stage, pc, cfg, modTime, info, read, setup, written>>

\* A signal, or a crash.
Stop ==
    /\ stage # "down"
    /\ stage' = "down"
    /\ pc' = "idle"
    /\ cfg' = Unset
    /\ modTime' = 0
    /\ info' = 0
    /\ read' = Default
    /\ period' = Unset
    /\ UNCHANGED <<setup, written>>

Refresh == Stat \/ Load \/ LoadFails \/ Store
Next == Edit \/ Delete \/ SetupStep \/ Start \/ Refresh \/ PollTicks \/ Stop

Spec == Init /\ [][Next]_vars

\* The tickers fire, and a Refresh that has begun is carried on.
Fairness == WF_vars(Refresh) /\ WF_vars(PollTicks)
FairSpec == Spec /\ Fairness

----------------------------------------------------------------------------
\* Properties

\* A daemon that holds the stamp of the file holds its settings, however the
\* edits fell between its stat, its load and its store: it never takes itself
\* for up to date when it is not.  A stamp that is not newer than all before
\* deceives it, because Refresh asks for a later time and nothing else.
UpToDate ==
    fresh /\ modTime = file.stamp => cfg = file.settings

\* When the editing is over, a daemon that is up gets to serve what the file
\* says, and its poller to tick by it, whatever it has read in between: the
\* file while setup had truncated it, while it was invalid or missing, or what
\* came back with an old stamp.  Not so if the last stamp was an old one, and
\* while the last file is invalid.
CatchesUpWithFile ==
    <>[](stage = "up" =>
            \/ cfg = file.settings /\ period \in {Unset, cfg}
            \/ file # Missing /\ ~fresh
            \/ file.kind = "invalid")

====
