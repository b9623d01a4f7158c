\* One evaluation writing two values under one key.
CONSTANTS
    Keys = {k1}
    Values = {x, y}
    Evaluations = {e1}
    None = None
SPECIFICATION CommonStorageSpec
PROPERTY SetUpdates
