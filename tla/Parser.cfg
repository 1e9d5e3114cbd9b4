SPECIFICATION Spec
CONSTANT Streams <- MCStreams
INVARIANTS TextIsKept HeadersAsSent KeepsInStep CompletedInTime
CHECK_DEADLOCK FALSE
