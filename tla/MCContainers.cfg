\* Two lists and three items; one thread that adds and removes, or two.
CONSTANTS
    Lists = {l1, l2}
    Items = {a, b, c}
    NULL = null
    Producers = {t, u}
    Consumer = t
    max = 3
    Values = {v, w}
    Zero = zero
    MaxMulti = 2
INIT MCInit
NEXT MCNext
INVARIANTS
    ListsSound AnswersRight PremisesHold
PROPERTIES
    ImplementsLists ImplementsFifo
SYMMETRY Symmetry
