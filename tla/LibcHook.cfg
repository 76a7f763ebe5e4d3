CONSTANT MaxTime = 3
SPECIFICATION Spec
INVARIANTS
  TypeOK
  LibcTimeIsHookTime
