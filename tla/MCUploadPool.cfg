CONSTANTS
    w1 = w1
    w2 = w2
    c1 = c1
    c2 = c2
    Workers <- MCWorkers
    Classes <- MCClasses
    N <- MCN
    StartBreakers <- MCStartBreakers
SPECIFICATION Spec
INVARIANTS SettledOnce Overshoot PhaseOutcomeTrue
PROPERTIES VerdictStable Terminates
