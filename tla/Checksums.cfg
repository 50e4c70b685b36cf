SPECIFICATION ChecksumSpec
INVARIANTS
    MistakesCaught
    OneCheckDigit
