SPECIFICATION Spec
CONSTANTS
    small = small
    large = large
    Contexts = {c1, c2, c3}
    Unset = Unset
    NumInputs = 3
    Shapes = {small, large}
    Accepted <- FirstBounded
SYMMETRY Symmetric
INVARIANT ExecutedAsAsked
INVARIANT PlannedAsAsked
