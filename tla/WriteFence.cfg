SPECIFICATION FenceSpec
CONSTANTS
    Exchange = {q1, q2}
    PassThrough = {q2}
INVARIANT PinnedWhenMarkedInTime
