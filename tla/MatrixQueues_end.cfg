CONSTANTS
    NCases = 2
    MaxRestarts = 0
SPECIFICATION Spec
PROPERTIES
    QueuesEnd
