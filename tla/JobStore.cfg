\* Three jobs, every order of statements.
CONSTANT Jobs = {j1, j2, j3}
SPECIFICATION ClockSpec
INVARIANT EndExplained
PROPERTY TerminalIsFinal
PROPERTY SweepTakesTheStalled
PROPERTY LifecycleSafe
PROPERTY LifecycleLive
