SPECIFICATION Spec
CONSTANTS
  MaxBuffers = 3
  Descriptors = {3, 4}
  FrameCount = 2
INVARIANTS NothingLeaks NoStarvation ReadsOwnBuffer
