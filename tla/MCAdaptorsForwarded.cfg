CONSTANTS
    Nobody = Nobody
    Workers = {w1}
    Depth = 2
    Settings <- Forwarded
SPECIFICATION Spec
INVARIANTS
    SourceOutlivesRequest
