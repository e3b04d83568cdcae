CONSTANTS
    Consumer = {c1, c2}
    Producer = p
    MaxConsumer = 2
    Values = 2
    MaxSpurious = 2
    Nobody = nobody
SPECIFICATION Spec
INVARIANT PostsAccountedFor
PROPERTIES NoOverwriteBeforeRead EveryRoundEnds
