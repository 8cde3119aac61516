\* Overlapping saves of one document, any file operation failing, and crashes.
SPECIFICATION FairSpec
CONSTANTS
    Writers = {w1, w2, w3}
    Bodies = {b1, b2}
    NoDocument = NoDocument
    Partial = Partial
    MaxSaves = 3
PROPERTIES NewerStays AtomicSpec EverySaveAnswered
