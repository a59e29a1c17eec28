\* Two cards over three cron minutes: vetoes, human tickets, moving lanes, a fault anywhere.
SPECIFICATION KeeperSpec
CONSTANTS
    Files <- TheFiles
    Calendar <- TheCalendar
    MaxMinute = 2
    Day = 1
    Week = 1
    AttentionCap = 1
    StageCeiling = 1
    Tries = 2
    MaxTickets = 2
    MaxDrafts = 2
    MaxHuman = 1
    MaxMoves = 2
    MaxFaults = 1
    MaxTrouble = 2
INVARIANTS
    EnvelopeHolds
    DuplicatesAreRaces
    WindowsFire
