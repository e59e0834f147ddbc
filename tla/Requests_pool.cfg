SPECIFICATION FairSpec
CONSTANTS
  h1 = h1
  h2 = h2
  Handlers = {h1, h2}
  Worker = Worker
  Nobody = Nobody
  Capacity = 2
  MaxFaults = 2
INVARIANTS Inv StatusTellsOutcome QueuesFirst
PROPERTIES ProviderErrorsAreNotOurs Answered
