CONSTANTS
    SignalNumbers <- MCSignalNumbers
    MaxSignals = 3
SPECIFICATION HungFairSpec
PROPERTIES
    SecondSignalTerminates
