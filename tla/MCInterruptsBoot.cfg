SPECIFICATION Spec
CONSTANTS
  Devices <- MCDevices
  Frequencies = {0}
  WriteSizes = {4}
PROPERTIES MasksDecide
