SPECIFICATION FairSpec
CONSTANTS
    c1 = c1
    Conns = {c1}
    Seqs = {1, 2}
    max_retry_ttl = 3
    max_wait_ttl = 6
    SeqMod = 2
INVARIANTS TypeOK SendsBounded DropIsFinal AckStatBounded
PROPERTIES AckStops QueueDrains AckTaken
CHECK_DEADLOCK FALSE
