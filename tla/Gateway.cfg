SPECIFICATION Spec
CONSTANTS
    press = press
    running = running
    fault = fault
    console = console
    file = file
    Machines = {press}
    Values = {0, 1}
    Tags <- MCTags
    RulesInOrder <- MCRules
    Sinks = {console, file}
    Consumer = console
    Thresholds = {0, 2}
    None = None
    Unread = Unread
    MaxTime = 5
INVARIANT TypeOK
PROPERTY KeepsItsPromise
