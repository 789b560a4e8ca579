CONSTANTS
    m_associativity = 5
    approx_margin = 2
    Tag = {t1, t2, t3, t4}
    NoTag = NoTag
SPECIFICATION Spec
SYMMETRY BlockSymmetry
INVARIANTS LruPermutation TagsUnique
PROPERTIES EvictionsReported FillInPartition ImplementsLru
