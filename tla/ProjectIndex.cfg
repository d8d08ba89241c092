SPECIFICATION Spec
CONSTANTS
    Docs = {d1, d2}
    Writers = {w1, w2}
    Readers = {r1, r2}
    MaxFaults = 2
    None = None
SYMMETRY Symmetry
INVARIANTS ReadyPublished DeletedUnpublished
PROPERTIES TornByOverlap PublicationRefined
CHECK_DEADLOCK FALSE
