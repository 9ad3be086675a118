---------------------------- MODULE MCGlobalSync ----------------------------
(* Instances of GlobalSync for TLC.                                        *)
EXTENDS GlobalSync, TLC

CONSTANTS s1, s2, c1

TwoStarts == {s1, s2}
OneCancel == {c1}
NoCancel == {}

\* One duration that is refused, and one that is not.
ShortDurations == {0, 1}

InTurn(faults) == [serial |-> TRUE, faults |-> faults, maxTime |-> 4]
Racing(faults) == [serial |-> FALSE, faults |-> faults, maxTime |-> 2]

\* A query that fails at boot leaves a live sync without its timer: with
\* serial operators everything else may fail.
AnyFault == {InTurn({"crash", "db"}), Racing({"crash", "db", "boot"})}
FaultlessRace == {Racing({})}
FaultlessTurns == {InTurn({})}
=============================================================================
