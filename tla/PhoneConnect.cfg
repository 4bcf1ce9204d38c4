CONSTANTS
    MaxKeys = 3
SPECIFICATION Spec
INVARIANTS PinStaysValid NoFalseMismatch PinnedUnlessDismissed
