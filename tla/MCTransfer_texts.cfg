SPECIFICATION MCSpec
CONSTANTS
  Names = {"k", "p", "d", "n", "e", "f", "no", "route", "digest", "query", "announce", "registry", "resolve"}
  Caps = {"X"}
  Numerals <- MCNumerals
  IntMax = 8388607
  DepthSize = 5
  None = None
  Immediate = 3
  ByteSize = 8
  Messages <- MCMessages
  Chunks = {9, 100}
  Idle = Idle
  Pending = Pending
  Lost = Lost
  MaxStrokes = 4
INVARIANTS TypeOK AnswersArriveAsText CutIsRefused ReadsWhatIsWritten TypedAtomsSurvive
PROPERTY ArrivesWholeOrFails
CHECK_DEADLOCK FALSE
