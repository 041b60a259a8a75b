---------------------------- MODULE MCHidRuntime ----------------------------
(***************************************************************************)
(* Instances of HidRuntime: each behaviour picks one group of operations   *)
(* that interact, and small bounds for it.                                 *)
(***************************************************************************)
EXTENDS HidRuntime

Behaviour(can, reports, sequences, cuts, requests) ==
  [can |-> can, reports |-> reports, sequences |-> sequences,
   cuts |-> cuts, requests |-> requests]

MCInstances ==
  { \* two reports against a release-all, either of which may fail on the bus
    Behaviour({"report", "releaseAll", "fail"}, 2, 0, 2, 2),
    \* a release-all on a link that stalls, and a report that may fail on the bus
    Behaviour({"report", "releaseAll", "stall", "fail"}, 1, 0, 2, 2),
    \* both interfaces owe an all-up
    Behaviour({"report", "mouse", "request"}, 2, 0, 2, 2),
    \* a detach while a report is on the wire, and the next attach
    Behaviour({"report", "detach", "fail", "unplug"}, 1, 0, 2, 3),
    \* a route released with something held
    Behaviour({"report", "route", "fail", "suspend"}, 1, 0, 3, 3),
    \* the link stalls or the bus is suspended, and a release is asked for
    Behaviour({"report", "stall", "suspend", "request"}, 1, 0, 2, 3),
    \* a sequence against the control task's own reports
    Behaviour({"report", "sequence", "request"}, 2, 1, 2, 2),
    \* unplugged and plugged in again
    Behaviour({"report", "unplug", "request"}, 2, 0, 3, 2) }

\* A release-all on a link that stalls, by itself, refutes ReleaseTruth.
MCStalledRelease == { Behaviour({"report", "releaseAll", "stall", "fail"}, 1, 0, 2, 2) }

\* For liveness: two reports or both interfaces against a release, and a route
\* that is released.
MCLiveInstances ==
  { Behaviour({"report", "request"}, 2, 0, 1, 2),
    Behaviour({"report", "mouse", "request"}, 1, 0, 2, 2),
    Behaviour({"report", "route"}, 1, 0, 2, 3) }
=============================================================================
