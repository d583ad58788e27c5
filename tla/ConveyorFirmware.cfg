\* Two bricks under the firmware's timings: the default travel, one longer
\* than the jam clock, one that ends with its backstop and one longer than
\* that; the default dwell and none; a controller that follows the run request
\* within half a second and one that does whatever it likes.
SPECIFICATION FairSpec
CONSTANTS
    Timings <- FirmwareTimings
    Bricks <- TwoBricks
    Travels = {24, 310, 395, 420}
    Dwells = {0, 30}
    Cycles = 2
    NoReading = 0
    Policies = {"follows", "free"}
    MaxLag = 10
INVARIANTS
    TravelNeedsMotor
    ReadingIsOfBrick
PROPERTIES
    ExitHeld
    BricksComplete
