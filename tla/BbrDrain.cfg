SPECIFICATION Spec
CONSTANTS
    Rates = {6}
    Rtts = {2}
    Unit = 1
    FilterLen = 3
    RtWindow = 2
    ProbeRttTime = 1
    Mss = 1

PROPERTY DrainEnds
