------------------------------ MODULE Lifecycle ------------------------------
(***************************************************************************)
(* What every status column of the platform promises: a record is born     *)
(* once, moves only along the edges of its lifecycle and never leaves a    *)
(* state that has no outgoing edge.  The intent ledger and the execution   *)
(* engine's order records are both shown to implement this specification,  *)
(* each with its own edges.                                                *)
(***************************************************************************)
CONSTANTS Ids,      \* the records
          Absent,   \* the pseudo-status of a record that does not exist yet
          Edges     \* the legal moves, a set of <<from, to>> pairs

VARIABLE st         \* id -> status

Init == st = [i \in Ids |-> Absent]

Move(i, s) ==
    /\ <<st[i], s>> \in Edges
    /\ st' = [st EXCEPT ![i] = s]

Next == \E i \in Ids : \E e \in Edges : Move(i, e[2])

Spec == Init /\ [][Next]_st
=============================================================================
