CONSTANTS
    processes = 2
    num_graphics = 2
    num_compute = 1
    Module = {m1}
    Crashing = {1}
    MaxCrashes = 2
    MaxVerr = 1
SPECIFICATION Spec
INVARIANTS TypeOK KillTarget ZombieNoticed RestartKnowsCulprits
PROPERTIES StartsForward TimeoutFires
CHECK_DEADLOCK FALSE
