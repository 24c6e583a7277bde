------------------------------- MODULE MCJit -------------------------------
(* Memory of two pages of two words, entered at the first word of each page: *)
(* every pair of instructions before one that sets all flags, a Bcc or one   *)
(* that the JIT does not know; behind a branch, one that it does not know.   *)
(* The pages of a mode are in order, exchanged, or both on one frame.        *)
EXTENDS Jit

Branches == {"bcc", "bra", "rts"}

MCImages == {[a \in Addresses |-> s[a + 1]] :
               s \in {t \in Kinds \X Kinds \X {"add", "bcc", "other"} \X {"other"} :
                        /\ t[1] # "other"
                        /\ t[1] \in Branches <=> t[2] = "other"
                        /\ t[2] \in Branches \cup {"other"} => t[3] = "other"}}

MCMaps == {[p \in 0 .. Pages - 1 |-> p], [p \in 0 .. Pages - 1 |-> 1 - p],
           [p \in 0 .. Pages - 1 |-> 0]}
=============================================================================
