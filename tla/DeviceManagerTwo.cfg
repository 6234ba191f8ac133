\* Two modules in one process.
SPECIFICATION Spec
CONSTANTS
  led1 = led1
  led2 = led2
  slow1 = slow1
  slow2 = slow2
  ip1 = ip1
  ip2 = ip2
  a1 = a1
  a2 = a2
  a3 = a3
  Emulated = Emulated
  None = None
  Addresses <- MCAddresses
  Garbage = {None}
  Interfaces = {led1, led2}
  Board <- TwoModules
INVARIANT
  HeldDevicesKept
