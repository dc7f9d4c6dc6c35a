SPECIFICATION RouterSpec
CONSTANTS
    Routers = 2
    MaxEntries = 2
    WordLengths = {0, 1, 127, 128, 255, 256, 16383, 16384, 65535, 65536, 2097151, 2097152, 16777215, 16777216, 268435455}
INVARIANTS
    RouterTypeOK
    AnswerIsWhole
    OneReplyAtATime
    SentIsTold
    WordsGetThrough
PROPERTY PollEnds
