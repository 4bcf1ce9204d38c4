CONSTANTS
    h1 = h1
    h2 = h2
    c1 = c1
    c2 = c2
    Garbage = Garbage
    Hashes <- MCHashes
    Callers <- MCCallers
SPECIFICATION Spec
INVARIANTS MirroredWhenQuiet AnswersDurable
PROPERTIES FileIsASnapshot
