\* Requests and answers may be lost.  A table of two windows for three keys is
\* full, swept and full again; a window of two seconds, of two ticks each, is the
\* smallest in which the rest of a window is more than a second and not a whole
\* number of them.
CONSTANTS
    o1 = o1
    o2 = o2
    k1 = k1
    k2 = k2
    k3 = k3
    Candidates = {o1, o2}
    Door = o1
    Client = k1
    Lossy = TRUE
    Keys = {k1, k2, k3}
    Maximum <- Requests
    Duration = 4
    Second = 2
    Capacity = 2
SYMMETRY Others
SPECIFICATION Spec
INVARIANTS AnsweredSignatureIsFinal BurstBounded WaitIsEnough
