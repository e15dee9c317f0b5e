CONSTANTS
  MAX_TASKS = 4
  TURN_LIMIT = 5
SPECIFICATION FairSpec
INVARIANTS QueueHoldsTheRest SwitchesAreSound
PROPERTIES ImplementsRoundRobin EveryTaskRuns
