\* A driver that keeps the chip's rules, and any guest at all: two disks, and a
\* CD-ROM drive whose medium comes and goes under the second.
CONSTANTS
    d0 = d0
    d1 = d1
    cd = cd
    None = None
    Disk = {d0, d1}
    Cdrom = {cd}
    MaxLen = 3
    Guests = {"driver", "any"}
    Swaps = {"any"}
SPECIFICATION Spec
INVARIANTS BusFree NoSilentCommand StatusAfterData NoTornWrite FollowUpFresh
PROPERTIES LevelOneReportsStatus
CHECK_DEADLOCK TRUE
