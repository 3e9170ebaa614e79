------------------------------ MODULE Custody ------------------------------
(* What quarantine and restore promise the owner of a package, without archives,   *)
(* rows, commands or faults: a file is installed, held, or both.  pkgwatch takes   *)
(* away only what it holds, holds it until a person throws it away, and puts back  *)
(* only what it holds, and only where nothing is.                                  *)
EXTENDS Naturals

CONSTANTS
    Files,
    Contents,  \* what a file may be; 0 for no file, and a later one is greater
    Damaged    \* a file that a failed write left, of no use to anybody

VARIABLES
    here,      \* file -> what is on the machine
    held,      \* the trees in custody
    discarded  \* a person threw away what was held

vars == <<here, held, discarded>>

Trees == [Files -> Contents \cup {Damaged}]

Init == here \in [Files -> Contents] /\ held = {} /\ discarded = FALSE

Hold ==
    /\ \E tree \in Trees : held' = held \cup {tree}
    /\ UNCHANGED <<here, discarded>>

IsHeld(f, content) == \E tree \in held : tree[f] = content

Take(f) ==
    /\ IsHeld(f, here[f]) \/ here[f] = Damaged \/ discarded
    /\ here' = [here EXCEPT ![f] = 0]
    /\ UNCHANGED <<held, discarded>>

GiveBack(f) ==
    /\ here[f] = 0
    /\ \E content \in Contents \cup {Damaged} :
          /\ IsHeld(f, content) \/ content = Damaged \/ discarded
          /\ here' = [here EXCEPT ![f] = content]
    /\ UNCHANGED <<held, discarded>>

\* The owner, and the owner's package manager.
Discard ==
    /\ held' \in SUBSET held /\ discarded' = TRUE
    /\ UNCHANGED here

Reinstall(f) ==
    /\ \E content \in Contents : here[f] < content /\ here' = [here EXCEPT ![f] = content]
    /\ UNCHANGED <<held, discarded>>

MoveAside ==
    /\ here' = [f \in Files |-> 0]
    /\ UNCHANGED <<held, discarded>>

Next ==
    \/ Hold \/ Discard \/ MoveAside
    \/ \E f \in Files : Take(f) \/ GiveBack(f) \/ Reinstall(f)

Spec == Init /\ [][Next]_vars
=============================================================================
