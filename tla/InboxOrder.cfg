CONSTANTS
  o1 = o1
  i1 = i1
  e1 = e1
  e2 = e2
  w1 = w1
  w2 = w2
  r1 = r1
  p1 = p1
  p2 = p2
  NoBody = NoBody
  Operations = {o1}
  Investigations = {i1}
  Events = {e1, e2}
  Bodies <- MixedBodies
  References = {p1, p2}
  Workers = {w1}
  Requests = {r1}
  MAX_ATTEMPTS = 1
  LeaseTicks = 1
  BatchSize = 2
SPECIFICATION Spec
CHECK_DEADLOCK FALSE
INVARIANT CallbackReflected
INVARIANT EffectOnce
PROPERTY ReferenceKept
PROPERTY Lifecycle
