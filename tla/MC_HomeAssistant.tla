-------------------------- MODULE MC_HomeAssistant --------------------------
(* Instances of HomeAssistant for TLC.                                     *)
EXTENDS HomeAssistant, TLC

CONSTANTS u1, u2

Tables ==
  [mode |-> "3" :> [name |-> "normal", evidence |-> "confirmed"]
         @@ "8" :> [name |-> "deep", evidence |-> "observed"],
   fan |-> "4" :> [name |-> "eco", evidence |-> "observed"]]

\* Docked and charging, and an error during a cleaning in an unlisted mode.
TwoReports ==
  {[work |-> "5", error |-> "0", mode |-> "3", fan |-> "4"],
   [work |-> "1", error |-> "7", mode |-> "8", fan |-> "4"]}

Scenario(reports, maps, calls, restarts, faults) ==
  [reports |-> reports, maps |-> maps, calls |-> calls, restarts |-> restarts,
   faults |-> faults]

Scenarios ==
  {Scenario(0, 0, 2, 0, 0), Scenario(1, 0, 1, 0, 1), Scenario(0, 2, 0, 1, 0)}
=============================================================================
