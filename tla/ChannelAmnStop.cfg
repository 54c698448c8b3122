\* One unnoticed failure inside stop is allowed.
CONSTANT MaxIgnored = 1
SPECIFICATION Spec
INVARIANT StopRemovesEverything
