--------------------------- MODULE MCHidSequence ---------------------------
(* Codes for HidSequence: each operation, reports with and without delays, *)
(* a plan that is too long to schedule, one that needs a third slot.       *)
EXTENDS HidSequence

Op(op, v) == [op |-> op, v |-> v]

MCCodes ==
  { <<Op("delay", 1), Op("press", 2), Op("press", 1)>>,
    <<Op("wait", 2), Op("release", 1)>>,
    <<Op("button", 1)>>,
    <<Op("press", 1), Op("press", 2), Op("press", 3)>>,
    <<Op("wait", 2), Op("wait", 2)>> }
MCRoles == { {"keyboard"} }
=============================================================================
