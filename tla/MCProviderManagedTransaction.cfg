\* Every way a provider may behave, well or badly.
CONSTANT MaxInvocations <- MCInvocations
SPECIFICATION ProviderFairSpec
INVARIANTS SuccessIsCommitted UncertainClientIsGone NoFailureLost
PROPERTY CallerIsAnswered
CHECK_DEADLOCK FALSE
