CONSTANTS
    processes = 2
    num_graphics = 2
    num_compute = 1
    Module = {m1}
    Crashing = {1}
    MaxCrashes = 1
    MaxVerr = 1
SPECIFICATION Spec
PROPERTY HungChildKilled
CHECK_DEADLOCK FALSE
