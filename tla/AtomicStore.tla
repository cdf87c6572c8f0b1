------------------------------ MODULE AtomicStore ------------------------------
(***************************************************************************)
(* What db_commit promises: whoever opens the database file finds a whole  *)
(* version, also after a power loss, which may only bring back versions    *)
(* that were committed and that no flush has made obsolete.                *)
(***************************************************************************)
CONSTANTS Value, Initial

VARIABLES
  val,       \* the version a reader finds
  survivors  \* the versions a power loss may leave

Init == val = Initial /\ survivors = {Initial}

Commit(v) == val' = v /\ survivors' = survivors \union {v}

Flush == survivors' = {val} /\ UNCHANGED val

Loss == val' \in survivors /\ survivors' = {val'}

Next == Flush \/ Loss \/ \E v \in Value : Commit(v)

Spec == Init /\ [][Next]_<<val, survivors>>
===============================================================================
