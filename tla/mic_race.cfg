SPECIFICATION VoiceSpec
CONSTANTS
    MaxSwitches = 2
INVARIANTS
    NoCloseWhileReading
CHECK_DEADLOCK FALSE
