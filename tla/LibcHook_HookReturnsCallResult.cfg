CONSTANT MaxTime = 3
SPECIFICATION Spec
INVARIANT HookReturnsCallResult
