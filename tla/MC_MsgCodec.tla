---------------------------- MODULE MC_MsgCodec ----------------------------
EXTENDS MsgCodec

\* Message times in ms: the sender's clock may be ahead of the receiver's.
MCTimes == {0, 1}

\* uint64_t narrowed to 4 bits: the same wrap-around, in TLC's integers.
MCUintWidth == 4

=============================================================================
