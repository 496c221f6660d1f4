SPECIFICATION Spec
CONSTANTS
  Callers = {c1}
  Sessions = {s1, s2}
  Tokens = {t1, t2}
  Lifetimes <- MCLifetimes
  MaxReplies = 1
  Margin = 1
  Retry = 1
INVARIANT SentValidates
CHECK_DEADLOCK FALSE
