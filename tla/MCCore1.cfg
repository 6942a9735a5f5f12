SPECIFICATION SampleSpec
CONSTANTS
  Bufs = 2
  Stamps = 4
  Pace = 2
  Failures = 1
INVARIANTS NoSharedBuffer
PROPERTIES StreamsInOrder StallResumes
