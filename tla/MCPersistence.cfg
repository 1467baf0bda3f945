SPECIFICATION Spec
CONSTANTS
    Daemons = {d1}
    MaxChanges = 3
INVARIANTS
    QuietIsSaved
    NeverTorn
    StopSaves
PROPERTY NeverBackwards
