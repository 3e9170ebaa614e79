---------------------------- MODULE FleetTimeline ----------------------------
(***************************************************************************)
(* What event sync promises a reader of the hub's timeline page, without   *)
(* queues, cursors, requests or crashes: a device records events one after *)
(* the other and owes each of them; the timeline shows only recorded       *)
(* events, in order and without holes; a debt ends by being paid, or by    *)
(* being given up on purpose.                                              *)
(***************************************************************************)
EXTENDS Integers

VARIABLES
    recorded,   \* events 1..recorded have happened
    owed,       \* those the device still means to deliver
    shown,      \* those the timeline shows
    abandoned   \* those the device gave up

vars == <<recorded, owed, shown, abandoned>>

Init == recorded = 0 /\ owed = {} /\ shown = {} /\ abandoned = {}

Record ==
    /\ recorded' = recorded + 1
    /\ owed' = owed \cup {recorded + 1}
    /\ UNCHANGED <<shown, abandoned>>

\* A batch appears.  Everything older than any of it is there too, or was
\* given up.
Show ==
    /\ \E batch \in SUBSET (1..recorded) :
          /\ \A e \in batch : \A f \in 1..recorded :
                f < e => f \in batch \cup shown \cup abandoned
          /\ shown' = shown \cup batch
    /\ UNCHANGED <<recorded, owed, abandoned>>

Settle ==
    /\ \E paid \in SUBSET owed :
          paid \subseteq shown \cup abandoned /\ owed' = owed \ paid
    /\ UNCHANGED <<recorded, shown, abandoned>>

GiveUp ==
    /\ \E lost \in SUBSET owed :
          owed' = owed \ lost /\ abandoned' = abandoned \cup lost
    /\ UNCHANGED <<recorded, shown>>

Next == Record \/ Show \/ Settle \/ GiveUp

Spec == Init /\ [][Next]_vars
==============================================================================
