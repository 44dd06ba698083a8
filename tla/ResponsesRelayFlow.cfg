CONSTANTS
    Scripts <- WholeTurn
    Readers = {FALSE}
SPECIFICATION RelaySpec
INVARIANT FlowNeverCut
