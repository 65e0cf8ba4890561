\* Up to three items of 1-8 bits, 0-9 bytes or a mask, over six words: a byte block with
\* and without a head, whole words and a tail, from every offset in a word.
CONSTANTS
  Word = 8
  Byte = 2
  CountBits = 1
  IndexBits = 3
  Masks <- SomeMasks
  MaxItems = 3
  MaxBytes = 9
  Words = 6
SPECIFICATION Spec
INVARIANTS
  OneStream
  ReadsBack
CHECK_DEADLOCK FALSE
