------------------------------ MODULE MCParts ------------------------------
(* A TLC instance of four parts that share no state: the watchdog, the     *)
(* delay test of a group, the monitor of the default interface and the     *)
(* command socket.  A behaviour is about one of them; the others stay as   *)
(* they are, the watchdog at its end.                                      *)
EXTENDS Watchdog, GroupDelay, IfaceMonitor, IpcSocket

VARIABLE part

MCGiven ==
  [interval |-> 3, timeout |-> 2, failThreshold |-> 0, cooldown |-> 9]
MCDefault ==
  [interval |-> 6, timeout |-> 1, failThreshold |-> 3, cooldown |-> 30]

MCReports == {[name |-> "wlan0", index |-> 1], [name |-> "wlan0", index |-> 2],
              [name |-> "tun0", index |-> 3], [name |-> "", index |-> -1]}
MCNames == <<"wlan0", "rmnet0", "tun0">>

partVars == <<part, vars, batchVars, monitorVars, socketVars>>

PartsInit ==
  /\ part \in {"watchdog", "batch", "monitor", "socket"}
  /\ \/ part = "watchdog" /\ Init
     \/ /\ part # "watchdog"
        /\ ctx = "cancelled" /\ pc = "done" /\ link = "idle" /\ tick = "none"
        /\ fails = 0 /\ cooldown = 0 /\ until = 1 /\ spent = 0
        /\ sinceEnd = 0 /\ sinceFail = 0
  /\ BatchInit
  /\ MonitorInit
  /\ SocketInit

PartsNext ==
  \/ /\ part = "watchdog" /\ Next
     /\ UNCHANGED <<part, batchVars, monitorVars, socketVars>>
  \/ /\ part = "batch" /\ BatchNext
     /\ UNCHANGED <<part, vars, monitorVars, socketVars>>
  \/ /\ part = "monitor" /\ MonitorNext
     /\ UNCHANGED <<part, vars, batchVars, socketVars>>
  \/ /\ part = "socket" /\ SocketNext
     /\ UNCHANGED <<part, vars, batchVars, monitorVars>>

\* Only the watchdog promises that something happens.
PartsSpec ==
  /\ PartsInit /\ [][PartsNext]_partVars
  /\ WF_vars(Pass) /\ WF_vars(Loop) /\ SF_vars(Done)
=============================================================================
