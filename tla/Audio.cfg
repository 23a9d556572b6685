CONSTANTS
    Sensor = Sensor
    Window = Window
    Buffer = {b1, b2, b3}
    NULL = NULL
SPECIFICATION Spec
INVARIANTS
    PlaysWhole
    NeverBothHang
