---------------------------- MODULE MCWindowParts ----------------------------
(* Five parts of the windows' exchange with the Runtime that share a run,  *)
(* each in behaviours of its own while the others rest: the exchange of a  *)
(* read (OnlineSource), the place a view under a time bound starts to read *)
(* from (TimeBound), the frame pane (FrameSlot), the launcher (Launcher)   *)
(* and the operations of a device (Device).                                *)
EXTENDS OnlineSource, TimeBound, FrameSlot, Launcher, Device

VARIABLE part

-----------------------------------------------------------------------------
(* What a person may press, and what happens to the devices meanwhile.     *)

Calm == Reading("unknown", "nothing", FALSE)

Bar(ops, kinds) ==
  [ops |-> ops, works |-> kinds, accounts |-> {1}, readings |-> {Calm}, others |-> {Calm},
   presses |-> 2, turns |-> 1, epochs |-> 1]

CheckedBars ==
  {[Bar({"EmulatorStop"}, {"refresh"}) EXCEPT
      !.readings = {Reading("on", "nothing", FALSE)},
      !.others = {Reading("off", "nothing", FALSE), Calm}, !.turns = 2],
   [Bar({"GameLaunch"}, {"refresh", "switch"}) EXCEPT !.presses = 3, !.epochs = 2],
   [Bar({"GameRestart", "EmulatorRestart"}, {}) EXCEPT
      !.accounts = {1, 2}, !.others = {Absent, Reading("on", "running", FALSE)}],
   [Bar({"SelfCheck", "GameLaunch", "EmulatorStart"}, {}) EXCEPT
      !.readings = {Reading("off", "nothing", TRUE)}, !.epochs = 2]}

-----------------------------------------------------------------------------
BoundRests ==
  /\ ledger = CHOOSE l \in Ledgers : TRUE
  /\ bound = 0 /\ upper = Snapshot /\ step = SLACK /\ probe = 0 /\ done = TRUE
LauncherRests == ~readable /\ daemon.is = "up"
DeviceRests == bar = CHOOSE b \in Bars : b.ops = {"GameLaunch"}

MCInit ==
  /\ Init /\ FrameInit /\ LauncherInit /\ DeviceInit
  /\ part \in {"exchange", "frame", "bound", "launcher", "device"}
  /\ IF part = "bound" THEN BoundInit ELSE BoundRests
  /\ part # "launcher" => LauncherRests
  /\ part # "device" => DeviceRests

MCNext ==
  /\ \/ part = "exchange" /\ Next
        /\ UNCHANGED <<boundVars, frameVars, launcherVars, deviceVars>>
     \/ part = "bound" /\ BoundNext
        /\ UNCHANGED <<vars, frameVars, launcherVars, deviceVars>>
     \/ part = "frame" /\ FrameNext
        /\ UNCHANGED <<vars, boundVars, launcherVars, deviceVars>>
     \/ part = "launcher" /\ LauncherNext
        /\ UNCHANGED <<vars, boundVars, frameVars, deviceVars>>
     \/ part = "device" /\ DeviceNext
        /\ UNCHANGED <<vars, boundVars, frameVars, launcherVars>>
  /\ UNCHANGED part

MCSpec ==
  MCInit /\ [][MCNext]_<<part, vars, boundVars, frameVars, launcherVars, deviceVars>>
=============================================================================
