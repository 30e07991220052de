SPECIFICATION Spec
CONSTANTS
    Sizes = {1, 2}
    Formats <- MCFormats
    Convertible <- MCConvertible
    Stamps <- MCStamps
    MaxImages = 3
INVARIANTS
    DeviceFitsEncoder
PROPERTY ImagesInOrder
CHECK_DEADLOCK FALSE
