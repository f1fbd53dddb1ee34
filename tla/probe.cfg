\* Two tasks of one agent, or two calls to one worker; each probe ends.
SPECIFICATION MCSpec
CONSTANTS
  t1 = t1
  t2 = t2
  Tasks = {t1, t2}
  pub4 = pub4
  pub6 = pub6
  priv4 = priv4
  None = none
  Addresses <- MCAddresses
  V4 = {pub4, priv4}
  Private = {priv4}
  Inputs <- MCInputs
  MaxAnswers = 1
INVARIANTS
  TypeOK
  OnlyPublicTargets
  NoDefunct
  AnswersAccountedFor
  WellFormedConversation
PROPERTIES
  ProbeReturns
