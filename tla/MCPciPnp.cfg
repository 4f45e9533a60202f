\* One function in which two kinds of device take turns, and two device objects.
CONSTANTS
  Slot = {s1}
  Device = {dA, dB}
  Pdo = {p1, p2}
  none = none
SPECIFICATION PnpSpec
INVARIANTS PnpTypeOK NoCheckFails StatesAgree KnownPdosExist ReportsTheBus
PROPERTY MissingIsDestroyed
