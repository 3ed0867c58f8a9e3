SPECIFICATION Spec
CONSTANTS
  Signal <- MCSignal
  NoName = NoName
  Output <- MCOutput
  Val <- MCVal
  PowerUp = 0
  Texts <- MCTexts
INVARIANTS
  TypeOK
  EventsFitPolicy
  ActsAsWritten
