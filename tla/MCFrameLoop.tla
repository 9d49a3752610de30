---------------------------- MODULE MCFrameLoop ----------------------------
EXTENDS FrameLoop

LongFrames == {2, 3}   \* no shorter than a buffer
ShortFrames == {1}     \* several to a buffer
WholeSlices == {READ_LEN}
AllSlices == 1 .. READ_LEN
=============================================================================
