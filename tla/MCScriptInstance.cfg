CONSTANTS
    Threads = {main, w1}
    Main = main
    Props = {scalar, array}
    Scalars = {scalar}
    MaxSwaps = 2
    MaxDepth = 2
    MaxWrites = 2
SPECIFICATION FairSpec
INVARIANTS NoFreeUnderCall ExactlyCurrentLeft StateKept
PROPERTIES CallbackAnswered WriterServed
\* A callback under the exclusive lock, and a call that re-enters behind a waiting
\* hot_swap(), stop for good.
CHECK_DEADLOCK FALSE
