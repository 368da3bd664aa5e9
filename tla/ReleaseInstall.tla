--------------------------- MODULE ReleaseInstall ---------------------------
(***************************************************************************)
(* psu-ext install and update: one run after another, each cut off at any  *)
(* step by an error, a lost connection or the user.  What the services run *)
(* with is on disk: the `current` link, the configuration files and the    *)
(* installer's state, which keeps the ports.                               *)
(***************************************************************************)
EXTENDS Naturals, Sequences

CONSTANTS Versions, Ports, MaxRuns

VARIABLES release,      \* each release directory: "none", "begun", "passable", "whole"
          saved,        \* install-state.json: version and ports
          config,       \* the ports each configuration file has; the Caddyfile's release
          current,      \* the link the service units start
          registry,     \* devices.json
          run,          \* the run in progress
          since,        \* releases whose extraction was cut off; whether a run has saved its
                        \* version and not got to activating it; whether the user edited devices
          left
vars == <<release, saved, config, current, registry, run, since, left>>

None == "none"
ConfigFiles == <<"proxy.yaml", "runner.yaml", "runtime-config.json", "Caddyfile">>
Torn == "torn"
NoRun == [at |-> "idle", version |-> None, ports |-> None, file |-> 1]
At(step) == run.at = step
Goto(step) == run' = [run EXCEPT !.at = step]

-----------------------------------------------------------------------------
Install(v) ==
  /\ At("idle") /\ left > 0 /\ left' = left - 1
  /\ run' = [NoRun EXCEPT !.at = "layout", !.version = v]
  /\ UNCHANGED <<release, saved, config, current, registry, since>>

(* EnsureLayout writes the registry unless there is one.                   *)
EnsureLayout ==
  /\ At("layout") /\ Goto("state")
  /\ registry' = IF registry = None THEN "default" ELSE registry
  /\ UNCHANGED <<release, saved, config, current, since, left>>

(* loadOrCreateState: ports that other programs leave free, the first time.*)
PortsOf(p) == p \in Ports /\ (saved.ports # None => p = saved.ports)
LoadOrCreateState ==
  /\ At("state")
  /\ \E p \in Ports : PortsOf(p) /\ run' = [run EXCEPT !.at = "fetch", !.ports = p]
  /\ UNCHANGED <<release, saved, config, current, registry, since, left>>

(* downloadRelease: the archive is checked before it is extracted; if the  *)
(* release directory exists neither is done again.                         *)
Download ==
  /\ At("fetch")
  /\ IF release[run.version] = None
     THEN Goto("extract") /\ release' = [release EXCEPT ![run.version] = "begun"]
     ELSE Goto("validate") /\ UNCHANGED release
  /\ UNCHANGED <<saved, config, current, registry, since, left>>
Extract ==
  /\ At("extract")
  /\ release' = [release EXCEPT ![run.version] = IF @ = "begun" THEN "passable" ELSE "whole"]
  /\ IF release[run.version] = "passable" THEN Goto("validate") ELSE UNCHANGED run
  /\ UNCHANGED <<saved, config, current, registry, since, left>>
Validate ==
  /\ At("validate") /\ run' = IF release[run.version] = "begun" THEN NoRun ELSE [run EXCEPT !.at = "save"]
  /\ UNCHANGED <<release, saved, config, current, registry, since, left>>

SaveState ==
  /\ At("save") /\ saved' = [version |-> run.version, ports |-> run.ports] /\ Goto("config")
  /\ since' = [since EXCEPT !.behind = TRUE]
  /\ UNCHANGED <<release, config, current, registry, left>>
WriteConfig ==
  /\ At("config")
  /\ LET f == ConfigFiles[run.file] IN
       config' = [config EXCEPT !.ports[f] = run.ports, !.release = IF f = "Caddyfile" THEN run.version ELSE @]
  /\ run' = IF run.file < Len(ConfigFiles) THEN [run EXCEPT !.file = @ + 1] ELSE [run EXCEPT !.at = "activate"]
  /\ UNCHANGED <<release, saved, current, registry, since, left>>
Activate ==
  /\ At("activate") /\ current' = run.version /\ Goto("services")
  /\ since' = [since EXCEPT !.behind = FALSE]
  /\ UNCHANGED <<release, saved, config, registry, left>>
InstallServices ==
  /\ At("services") /\ run' = NoRun
  /\ UNCHANGED <<release, saved, config, current, registry, since, left>>

(* The run ends where it is.  A file that was being written in place may   *)
(* be left torn; the state file and the link are renamed into place.       *)
Interrupted ==
  /\ run # NoRun /\ run' = NoRun
  /\ since' = IF At("extract") THEN [since EXCEPT !.cut = @ \union {run.version}] ELSE since
  /\ \/ UNCHANGED <<config, registry>>
     \/ At("layout") /\ registry = None /\ registry' = Torn /\ UNCHANGED config
     \/ /\ At("config") /\ UNCHANGED registry
        /\ config' = [config EXCEPT !.ports[ConfigFiles[run.file]] = Torn]
  /\ UNCHANGED <<release, saved, current, left>>

(* The user edits devices through the proxy.                               *)
EditDevices ==
  /\ current # None /\ registry = "default" /\ registry' = "edited"
  /\ since' = [since EXCEPT !.edited = TRUE]
  /\ UNCHANGED <<release, saved, config, current, run, left>>

Init ==
  /\ release = [v \in Versions |-> None] /\ saved = [version |-> None, ports |-> None]
  /\ config = [ports |-> [i \in {ConfigFiles[n] : n \in DOMAIN ConfigFiles} |-> None], release |-> None]
  /\ current = None /\ registry = None /\ run = NoRun /\ left = MaxRuns
  /\ since = [cut |-> {}, behind |-> FALSE, edited |-> FALSE]
Next ==
  \/ \E v \in Versions : Install(v)
  \/ EnsureLayout \/ LoadOrCreateState \/ Download \/ Extract \/ Validate \/ SaveState \/ WriteConfig
  \/ Activate \/ InstallServices \/ Interrupted \/ EditDevices
Spec == Init /\ [][Next]_vars

-----------------------------------------------------------------------------
(* Wherever runs are cut off: what is active has passed validation, and is *)
(* the whole release unless its own extraction was cut off; a file that is *)
(* not torn has the ports of the first installation; once a run has got to *)
(* its activation, after whatever failed before it, the state, every file  *)
(* and the link are of one release; and no run replaces the user's devices.*)
InstalledIsConsistent ==
  /\ current # None => /\ release[current] \in {"passable", "whole"}
                       /\ current \notin since.cut => release[current] = "whole"
  /\ \A f \in DOMAIN config.ports : config.ports[f] \in {None, Torn, saved.ports}
  /\ current # None /\ ~since.behind =>
       /\ saved.version = current /\ config.release = current
       /\ \A f \in DOMAIN config.ports : config.ports[f] = saved.ports
  /\ since.edited => registry = "edited"
=============================================================================
