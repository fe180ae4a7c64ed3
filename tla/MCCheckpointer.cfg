SPECIFICATION Spec
CONSTANTS
  p1 = p1
  p2 = p2
  w1 = w1
  k1 = k1
  k2 = k2
  v1 = v1
  v2 = v2
  NoWorker = NoWorker
  Workers <- MCWorkers
  Workflows <- MCWorkflows
  StepKeys <- MCStepKeys
  Values <- MCValues
  Budgets <- MCBudgets
  Windows <- MCWindows
  MaxTime = 3
  MaxToken = 3
  MaxRecords = 2
SYMMETRY Symmetry
INVARIANTS
  AliveWithinBudget
  OneWriter
  AliveIsEarned
  WritesInTokenOrder
  EffectWithItsRecord
PROPERTIES
  DiscardFencesEveryPass
  LogSpec
  PassSpec
