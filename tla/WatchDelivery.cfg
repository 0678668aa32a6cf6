SPECIFICATION WatchSpec
CONSTANTS
    Stops = {s1, s2}
    NoStop = NoStop
    MaxKills = 1
INVARIANTS WatchTypeOK LossOnlyByRaceOrFailedWrite
PROPERTIES OutboxEmpties
CHECK_DEADLOCK FALSE
