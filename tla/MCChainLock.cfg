SPECIFICATION Spec
CONSTANTS
    Servers = {1}
    MaxNumber = 2
    MaxRequests = 2
CHECK_DEADLOCK FALSE
PROPERTY RequestsReturn
