CONSTANTS
  MaxCalls = 3
  Backlog = 2
  None = None
SPECIFICATION FairSpec
CHECK_DEADLOCK FALSE
INVARIANTS OutcomeIsOwn SubscriptionAsAsked NoEventAfterUnsubscribe
PROPERTIES CallSettles
