CONSTANTS
    Data = {d1, d2, d3}
    Pushers = {Main}
    Main = Main
    ProgressBuffer = 3
    NoData = NoData
    \* built for the machine it runs on, by cargo's default
    Unwinds = TRUE
SPECIFICATION ClientFairSpec
\* The program ends.
CHECK_DEADLOCK FALSE
PROPERTY
    ClientEnds
