CONSTANT Graphs <- AllGraphs
SPECIFICATION CollapseSpec
INVARIANTS NeverFatal UnskippableExact NoCircle HandedOver
