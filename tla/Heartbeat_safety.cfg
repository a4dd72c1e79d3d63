\* PING every 2 ticks, timeout after 6, as the settings' 10 s and 30 s.
SPECIFICATION Spec
CONSTANTS
    c1 = c1
    c2 = c2
    NoConn = NoConn
    Conn <- TwoConnections
    Prompt <- OnePrompt
    Interval = 2
    Timeout = 6
    Delay = 1
    Stall = 1
    MaxTime = 16
INVARIANTS
    PromptNotTimedOut
    SilenceIsNoticed
\* Everyone may have left, and the time is bounded.
CHECK_DEADLOCK FALSE
