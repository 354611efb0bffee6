\* The guarantee of errm.h, on the array size and the weights of the board;
\* reading a null template is given the harmless outcome.
SPECIFICATION Spec
CONSTANTS
    ERRM_COUNT_MAX = 5
    Weights = {1, 5, 10}
    NullWeights = {1}
INVARIANT SevereErrorStays
CHECK_DEADLOCK TRUE
