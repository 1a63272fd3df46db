SPECIFICATION Spec
CONSTANT Sample <- Sets
INVARIANTS Antisymmetric Transitive LowestAttributeWins
