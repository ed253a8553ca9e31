------------------------------ MODULE JobBoard ------------------------------
(***************************************************************************)
(* What the job feed promises its miners, whatever locks are missing: each *)
(* connection posts its headers one after the other; a miner takes what    *)
(* all connections have posted, at once; and what it mines on for a        *)
(* connection is what it has taken, now or earlier.                        *)
(***************************************************************************)
EXTENDS Naturals

CONSTANTS Miners,
          Kinds    \* the connections

VARIABLES posted, \* posted[k]: number of the last header posted, 0 before the first
          held,   \* held[m][k]: the header miner m has taken
          mined   \* mined[m][k]: the header miner m mines on

Init ==
  /\ posted = [k \in Kinds |-> 0]
  /\ held = [m \in Miners |-> posted]
  /\ mined = held

Post(k) ==
  /\ posted' = [posted EXCEPT ![k] = @ + 1]
  /\ UNCHANGED <<held, mined>>

Take(m) ==
  /\ held' = [held EXCEPT ![m] = posted]
  /\ UNCHANGED <<posted, mined>>

MineOn(m, k) ==
  /\ mined' = [mined EXCEPT ![m][k] = held[m][k]]
  /\ UNCHANGED <<posted, held>>

Next == \/ \E k \in Kinds : Post(k)
        \/ \E m \in Miners : Take(m) \/ \E k \in Kinds : MineOn(m, k)

Spec == Init /\ [][Next]_<<posted, held, mined>>
=============================================================================
