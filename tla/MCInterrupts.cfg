SPECIFICATION Spec
CONSTANTS
  Devices <- MCDevices
  Frequencies = {0, 2, 3, 64, 1024, 2048}
  WriteSizes = {2, 4}
INVARIANTS WaitsForTick RateIsAsked
PROPERTIES UndefOnlyInBoot RtcReadReturns
