SPECIFICATION Spec
CONSTANTS
  Tasks0 = {a1, a2}
  Tasks1 = {b}
  Names0 = {x, y}
  Names1 = {x}
  MaxLate = 1
  MayTimeOut = {1}
INVARIANT AnswerIsOwn
PROPERTIES GetReturns
