SPECIFICATION LaunchSpec
CONSTANT MaxSessions = 4
INVARIANTS NoMissedCrash NoFalseAlarm RomPromisesKept
