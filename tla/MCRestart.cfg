\* Two bases, of which one makes a long operand cross pages; one page taken away.
CONSTANTS
    Instr <- MCInstr
    Bases = {1, 4}
    Datas = {11, 6}
    MaxEvict = 1
SPECIFICATION Spec
INVARIANTS RestartExact TrapTellsCause
CHECK_DEADLOCK FALSE
