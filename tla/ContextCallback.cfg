\* Is the interrupt callback of the context of a call asked?
SPECIFICATION Spec
CONSTANTS
  Thread = {t1, t2}
  Context = {c1, c2, c3}
  NoContext = NoContext
  MaxDepth = 2
  MaxRequests = 1
INVARIANT ContextCallbackAsked
