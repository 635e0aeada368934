CONSTANTS
    Threads = {1, 2, 3}
    MaxPlayers = 2
    NoThread = 0
    Drivers = {"court_test2"}
SPECIFICATION TimedSpec
PROPERTY QuitOnlyWithoutMatch
CHECK_DEADLOCK FALSE
