----------------------------- MODULE AccountMap -----------------------------
(***************************************************************************)
(* What the state vault promises, without slots, handles, roots or hashes: *)
(* a map from keys to accounts that is written in place, a saved copy, and *)
(* a restart that returns to the saved copy.                               *)
(***************************************************************************)
CONSTANTS Key, State, None

VARIABLES cur, saved

Init == cur = saved /\ saved \in [Key -> State \cup {None}]

\* Operations write accounts; none of them removes one.
Write ==
    /\ cur' \in [Key -> State \cup {None}]
    /\ \A k \in Key : cur[k] # None => cur'[k] # None
    /\ saved' = saved

Save    == saved' = cur /\ cur' = cur
Restart == cur' = saved /\ saved' = saved

Next == Write \/ Save \/ Restart

Spec == Init /\ [][Next]_<<cur, saved>>
=============================================================================
