SPECIFICATION SeqSpec
CONSTANTS
  Window = 3
  Word = 8
  Moduli = {4, 8}
INVARIANT Bitmap
PROPERTIES NoReplay NoFalseReplay InSequence
