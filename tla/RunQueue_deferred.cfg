CONSTANT Builds <- Clash
SPECIFICATION Spec
INVARIANT NoneInBoth
