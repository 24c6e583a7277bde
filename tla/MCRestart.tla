----------------------------- MODULE MCRestart ------------------------------
(***************************************************************************)
(* Instructions of every handler, in the addressing modes that change      *)
(* registers, fetch or read before the operand is accessed.                *)
(***************************************************************************)
EXTENDS Restart

Ind(r) == [mode |-> "ind", reg |-> r]
Inc(r) == [mode |-> "inc", reg |-> r]
Dec(r) == [mode |-> "dec", reg |-> r]
Disp(r) == [mode |-> "disp", reg |-> r]
MemInd(r) == [mode |-> "memind", reg |-> r]
Imm == [mode |-> "imm", reg |-> "none"]
Dn == [mode |-> "reg", reg |-> "d0"]

\* Three extension words, of which words from split on are on the second page.
Make(op, n, alu, ea, ea2, split) ==
    [op |-> op, n |-> n, alu |-> alu, ea |-> ea, ea2 |-> ea2, split |-> split,
     words |-> <<0, 1, 2, 1>>]

Simple(op, alu, ea) == Make(op, 2, alu, ea, ea, 1)

MCFpuInstr == {Simple(op, "none", Inc("a0")) : op \in {"fpArith", "frestore"}}

MCInstr ==
    {Make("move", n, "none", e[1], e[2], 2) :
        n \in {1, 2},
        e \in {<<Inc("a0"), Dec("a1")>>, <<Disp("a0"), Disp("a1")>>, <<MemInd("a0"), Inc("a0")>>,
               <<Imm, Inc("a1")>>, <<Dn, MemInd("a1")>>, <<Inc("a0"), Dn>>}}
    \cup {Make("modify", n, a, e, e, 1) :
            n \in {1, 2}, a \in {"add", "not"}, e \in {Inc("a0"), Disp("a0"), MemInd("a1"), Dn}}
    \cup {Make("modifyImm", 2, "sub", e, e, s) : e \in {Dec("a0"), Disp("a1")}, s \in {1, 2}}
    \cup {Simple("writeOnly", "none", e) : e \in {Dec("a0"), Inc("a1")}}
    \cup {Simple("toReg", "sub", e) : e \in {Inc("a0"), MemInd("a0")}}
    \cup {Make("extended", n, "add", Dn, Dn, 1) : n \in {1, 2}}
    \cup {Make("cmpm", n, "none", Dn, Dn, 1) : n \in {1, 2}}
    \cup {Simple("bitField", a, Ind("a0")) : a \in {"chg", "clr", "ins"}}
    \cup {Simple("cas", "none", Inc("a0")), Make("cas", 1, "none", Ind("a0"), Dn, 1),
          Simple("cas2", "none", Dn), Make("cas2", 1, "none", Dn, Dn, 1)}
    \cup {Simple("reload", k, e) : k \in {"mmu", "fp"}, e \in {Inc("a0")}}
    \cup {Simple("unload", "fp", Dec("a0")), Simple("toRegs", "mul", Inc("a0")),
          Simple("unpk", "none", Dn), Simple("movemIn", "none", Inc("a0")),
          Simple("movemIn", "none", Inc("a1")), Simple("movemOut", "none", Dec("a0")),
          Simple("movemOut", "none", Dec("a1")), Simple("movep", "none", Dn),
          Simple("pea", "none", Disp("a0")), Simple("link", "none", Dn),
          Simple("unlk", "none", Dn), Simple("jsr", "none", MemInd("a0")),
          Simple("rts", "none", Dn), Simple("movec", "none", Dn), Simple("stop", "none", Dn),
          Simple("moves", "none", Inc("a0"))}
    \cup MCFpuInstr
=============================================================================
