SPECIFICATION WrrSpec
CONSTANTS
    Backends = {1, 2, 3}
    Users = {1, 2, 3}
    Filters = {{1, 2, 3}}
    Attributes = {1}
    Width = 16
    MaxChosen = 3
    MaxDones = 0
CHECK_DEADLOCK FALSE
INVARIANT WeightedShare
