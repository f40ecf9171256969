SPECIFICATION Spec
CONSTANT Worlds <- OnlySlowCard
INVARIANTS ReadyMeansArmed
