SPECIFICATION Spec
CONSTANTS
  V1 = V1
  V03 = V03
  None = None
  mSend = mSend
  mCard = mCard
  mOld = mOld
  Presets <- PresetsMC
  NoParams <- NoParamsMC
  HistorySize = 1
  MaxTurns = 1
INVARIANTS FocusDefers NothingOfTheDead
PROPERTIES CancelsInView DraftKept
