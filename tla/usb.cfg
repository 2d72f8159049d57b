SPECIFICATION Spec
CONSTANTS
    MaxPacket = 64
    MaxEndpoint = 4
    Builds <- MCBuilds
    Requests <- MCRequests
INVARIANTS DataExact HaltReported StatesAgree OthersAnswered
