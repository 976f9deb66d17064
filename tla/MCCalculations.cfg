SPECIFICATION Spec
CONSTANTS
  ByteBits = 3
  kMagic = 1210
  kVersion = 3
  kDefaultMaxPayloadBytes = 8
  kMaxDimension = 4
  V4L2_PIX_FMT_YUYV = 2000
  Polynomial = {11, 10, 8, 5, 1}
  kFixtureWidth = 2
  kFixtureHeight = 2
  kFixtureTimestampBase = 1700
  kFixtureTimestampStep = 33
  NotFinite = 1000000
  Headers <- MCHeaders
  CapturedFrames <- MCCapturedFrames
  Payloads <- MCPayloads
  Dimensions <- MCDimensions
  Limits = {8, 4095}
  Samples <- MCSamples
  MaxSamples = 5
  Images <- MCImages
  ImageSizes <- MCImageSizes
  FixtureFrames = {1, 2, 3}
  FileSystems <- MCFileSystems
  Lines <- MCLines
  CommandLines <- MCCommandLines
INVARIANTS
  HeaderRoundTrip CrcIsPolynomialDivision UsableFramesAccepted DamageContained
  SummaryExact ImagesAgree FixtureExact ConfigHonoured
