SPECIFICATION CacheSpec
CONSTANTS
    Key = {k1, k2, k3}
    NoKey = NoKey
    Capacity = 2
    MaxSerial = 6
INVARIANTS CacheTypeOK OneSlotPerKey OneTicketPerPin ClockSound StatsBalance
PROPERTIES StaleForever PinProtects ImplementsLru
CHECK_DEADLOCK FALSE
