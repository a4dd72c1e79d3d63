SPECIFICATION Spec
CONSTANTS
    Request = {r1, r2}
    Session = {s1}
    Event = {e1, e2}
    Behavior = {b1}
    Conversation = {c1, c2}
    Tool = {t1}
    SessionOf <- MCSessionOf
    BehaviorOf <- MCBehaviorOf
    AllowedTool = {music, message}
    ConfirmedTool = {message}
    UnknownTool = unknown
    MaxTurns = 1
    Low = 3
    High = 5
    None = None
SYMMETRY Symmetry
INVARIANTS
    OneOpenPerBehavior
    MessagesInOrder
PROPERTIES
    ConsentIsFinal
    NothingAfterEnd
    OneStepPerResponse
CHECK_DEADLOCK FALSE
