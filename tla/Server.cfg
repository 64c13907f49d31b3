\* Two workers and a stream meet passes of the threads in the background.
SPECIFICATION ServerSpec
CONSTANTS
    Workers = {w1, w2}
    Streamers = {s1}
    Background <- AllBackground
    MaxQueue = 1
    MaxRequests = 3
    MaxPasses = 1
INVARIANTS NoRing UnitsWaitAlone
PROPERTIES Answered
