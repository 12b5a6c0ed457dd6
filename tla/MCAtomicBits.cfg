CONSTANTS
    Thread = {t1, t2}
    Bit = {b1}
    Op <- Ops
    HandlerOp <- HandlerOps
SPECIFICATION FairSpec
INVARIANT SignalsHeldOff
PROPERTIES ImplementsAtomicWord SomeoneReturns
