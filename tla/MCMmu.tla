------------------------------- MODULE MCMmu -------------------------------
(* Instances of Mmu for TLC: a user space of two pages, one of them         *)
(* write-protected, and a kernel space that is one large page.             *)
EXTENDS Mmu

CONSTANTS user, kernel, nil

D(dt, wp, frame) == [dt |-> dt, wp |-> wp, m |-> FALSE, frame |-> frame]

MCTables ==
    [s \in {user, kernel, nil} \X (-1..1) |->
        CASE s = <<user, -1>> -> D("table", FALSE, 0)
          [] s = <<user, 0>> -> D("page", TRUE, 1)
          [] s = <<user, 1>> -> D("page", FALSE, 0)
          [] s = <<kernel, -1>> -> D("page", FALSE, 3)
          [] OTHER -> D("invalid", FALSE, 0)]

\* The user's pages become protected, one of them moves, the kernel's table
\* loses its large page and has no others.
MCEdits == {<<<<user, -1>>, D("table", TRUE, 0)>>, <<<<user, 1>>, D("page", FALSE, 2)>>,
            <<<<kernel, -1>>, D("table", FALSE, 0)>>}

\* Every function code competes for the page's line: the ATC evicts.
MCIndex == [k \in [fc : [s : BOOLEAN, prog : BOOLEAN], page : 0..1] |-> k.page]

\* User space: the supervisor's own is what it reads and writes anyway.
MCOverrides == {[s |-> FALSE, prog |-> FALSE]}

NoTT == [pages |-> {}, s |-> {}, reads |-> TRUE, writes |-> TRUE]
SuperTT == [pages |-> {1}, s |-> {TRUE}, reads |-> TRUE, writes |-> TRUE]

\* The roots are set before the MMU is turned on.
Zero == [tc |-> [on |-> FALSE, sre |-> FALSE], crp |-> nil, srp |-> nil, tt |-> NoTT]
Roots == [Zero EXCEPT !.crp = user, !.srp = kernel]
On == [Roots EXCEPT !.tc = [on |-> TRUE, sre |-> TRUE]]
MCConfigs == {Zero, [Zero EXCEPT !.crp = user], Roots, On,
              [On EXCEPT !.tt = SuperTT], [On EXCEPT !.crp = kernel]}
=============================================================================
