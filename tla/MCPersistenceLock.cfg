SPECIFICATION Spec
CONSTANTS
    Daemons = {d1, d2}
    MaxChanges = 2
INVARIANT OneDaemon
