SPECIFICATION FairSpec
CONSTANTS
    Actions = {x1, x2, x3}
    Awaiters = {w1, w2}
    AwaitAgents = {g1}
    HasExecutor = TRUE
    MaxRestarts = 1
    None = None
INVARIANTS
    MailboxIntact
PROPERTIES
    FailedAgentStopped
    AgentServes
