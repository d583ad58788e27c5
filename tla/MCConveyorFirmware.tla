------------------------ MODULE MCConveyorFirmware --------------------------
(* The firmware's own timings, in units of 50 milliseconds.                *)
EXTENDS ConveyorFirmware

FirmwareTimings ==
    [entryDebounce |-> 8, exitReleaseDebounce |-> 6, captureSettle |-> 10,
     captureInterval |-> 5, exitHold |-> 60, jamWithdraw |-> 300,
     jamBackstop |-> 100, entryClear |-> 5, betweenBricks |-> 20]

\* A red brick and a blue one.
TwoBricks == <<48, 29>>
=============================================================================
