------------------------------- MODULE MCAlu -------------------------------
(* What instructions compute, in two parts of one run: two machines that     *)
(* execute the same instructions (Datapath), with bytes of two bits, words   *)
(* of four and long words of eight; and one guest that computes with numbers *)
(* of several words (MultiWord), of two bits each.  Each behaviour is of one *)
(* part, and the other part's variables are parked.                          *)
EXTENDS Datapath, MultiWord

MCWidth   == [size \in Sizes |-> CASE size = "b" -> 2 [] size = "w" -> 4 [] size = "l" -> 8]
MCCodes   == {{"N"}, {"X", "Z", "V", "C"}}
MCMemory  == [v \in Long |-> (7 * v + 128) % 256]
MCChainCodes == {{"Z"}, {"X"}}

Parked == [d |-> [r \in Regs |-> 0], a |-> [r \in Regs |-> 0], ccr |-> {}, pc |-> 0]

MCInit ==
  \/ /\ ChainInit
     /\ cpu = Parked /\ jit = Parked /\ stale = {} /\ steps = MaxSteps
  \/ /\ DataInit
     /\ routine = "none" /\ src = <<>> /\ dst = <<>> /\ at = 0 /\ count = 0
     /\ high = 0 /\ ccr = {} /\ stage = "parked" /\ start = <<>>

MCNext == \/ DataNext /\ UNCHANGED chainVars
          \/ ChainNext /\ UNCHANGED dataVars

MCSpec == MCInit /\ [][MCNext]_<<dataVars, chainVars>>
=============================================================================
