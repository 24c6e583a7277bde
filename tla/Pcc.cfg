\* A timer, the SCSI controller and a software interrupt; level 7 included.
CONSTANTS
    timer1 = timer1
    scsi = scsi
    soft1 = soft1
    Latched = {timer1}
    Device = {scsi}
    Soft = {soft1}
    Scsi = scsi
    Vec <- MCVec
    Levels = {0, 7}
    Masks = {0, 1}
    Bases = {64, 80}
    DefaultBase = 64
    SuppressFor = 2
SPECIFICATION Spec
INVARIANTS RequestCurrent LineKept
PROPERTIES DriverWindow WakesFromStop
CHECK_DEADLOCK TRUE
