CONSTANTS
    Proc = {p1, p2, p3}
    num_iterations = 2
SPECIFICATION Spec
INVARIANTS LockTypeOK MutualExclusion NoLostWakeup CountExact
PROPERTY AllJoined
