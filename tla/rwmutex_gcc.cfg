CONSTANTS
  Readers = {r1, r2, r3}
  Writers = {w1, w2}
  Backend = "gcc"
SPECIFICATION FairSpec
INVARIANT MutualExclusion
PROPERTIES ImplementsRWLock SomeWriterEnters CountedReaderEnters
