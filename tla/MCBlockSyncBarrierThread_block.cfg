SPECIFICATION MCSpec
CONSTANTS
  Threads = {t1, t2, t3}
  Generations = 2
INVARIANTS TypeOK NoRaceOnGeneration
PROPERTIES ImplementsBlockSync EverybodyGetsOut TeamImplementsBlockSync
