CONSTANTS
    Threads = {1, 2, 3, 4, 5}
    MaxPlayers = 3
    NoThread = 0
    Drivers = {"court_test", "court_test2"}
SPECIFICATION OrderlySpec
INVARIANT FullOutput
PROPERTIES
    ImplementsPromise
    EveryoneLeaves
