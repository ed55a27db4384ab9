CONSTANTS
    ByteBits <- MCByteBits
    PtrBytes <- MCPtrBytes
    ColTypes <- MCColTypes
    Floats <- MCFloats
    Payloads <- MCPayloads
    Years <- MCYears
    NativeYears <- MCNativeYears
    Months <- MCMonths
    Days <- MCDays
    Hours <- MCHours
    Minutes <- MCMinutes
    Seconds <- MCSeconds
    Micros <- MCMicros
    TimeDays <- MCTimeDays
    DurSecs <- MCDurSecs
    ChronoLeapAnySecond = TRUE

SPECIFICATION Spec

PROPERTY ContractRefinement
