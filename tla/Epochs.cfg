SPECIFICATION Spec
CONSTANTS
    v1 = v1
    v2 = v2
    Validators = {v1, v2}
    EpochLength = 3
    SnapshotLead = 1
    MaxBlock = 9
    MaxAdvances = 2
SYMMETRY Symmetry
INVARIANTS MarkersWithinDvf VotersAuthor
PROPERTIES FollowsDvf CatchesUpAtBoundary SequencesFixed
