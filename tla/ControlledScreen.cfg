CONSTANTS
  StrictMode = TRUE
  MaxHosts = 6
SPECIFICATION Spec
CHECK_DEADLOCK FALSE
INVARIANTS TypeOK EffectHostIsOnScreen OnlyThisPin ReadyUnlessLost
PROPERTY StartSettles
