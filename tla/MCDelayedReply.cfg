CONSTANTS
  Byte = 2
  PowerUp = 3
  Delays = {1, 8, 16, 20}
  MaxWait = 50
SPECIFICATION ReplySpec
INVARIANTS AnswerIsKept TimestampsMeasure
