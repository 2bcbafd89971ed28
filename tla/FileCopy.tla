------------------------------ MODULE FileCopy ------------------------------
(***************************************************************************)
(* What "file send" and "file receive" promise together: the destination   *)
(* gets copies of the files, one after the other.  A copy grows from its   *)
(* beginning, and a file is begun only when every file before it that has  *)
(* any contents is complete, or was given up because its copy could not be *)
(* written.  No copy ever gets a unit that is not its own or that is not   *)
(* the next one.  The transfer may stop at any point.                      *)
(***************************************************************************)
EXTENDS Integers

CONSTANT N              \* the number of files found by readDirectory

File == 1 .. N
Absent == -1            \* the length of a copy that does not exist

VARIABLES size,         \* the length of each file
          copy,         \* the length of each copy
          spoiled,      \* the files that were given up
          garbled       \* the files whose copy has a unit out of its place

vars == <<size, copy, spoiled, garbled>>

Init == /\ size \in [File -> Nat]
        /\ copy = [f \in File |-> Absent]
        /\ spoiled = {}
        /\ garbled = {}

Settled(f) == size[f] = 0 \/ copy[f] = size[f] \/ f \in spoiled

Longer(f) == copy[f] + 1 .. size[f]

Begin(f) == /\ copy[f] = Absent
            /\ \A g \in 1 .. f - 1 : Settled(g)
            /\ \E k \in Longer(f) : copy' = [copy EXCEPT ![f] = k]

Extend(f) == /\ copy[f] # Absent
             /\ f \notin spoiled
             /\ \E k \in Longer(f) : copy' = [copy EXCEPT ![f] = k]

GiveUp(f) == spoiled' = spoiled \cup {f}

\* Growing by a part of a segment and giving up may come in one step.
Next == \E f \in File :
          /\ Begin(f) \/ Extend(f) \/ UNCHANGED copy
          /\ GiveUp(f) \/ UNCHANGED spoiled
          /\ UNCHANGED <<size, garbled>>

Spec == Init /\ [][Next]_vars
=============================================================================
