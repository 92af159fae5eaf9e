--------------------------- MODULE ServerLifecycle ---------------------------
(***************************************************************************)
(* What a gRPC server promises its callers while it opens, serves, closes  *)
(* and goes: every call ends once, none is accepted outside the open       *)
(* phase, and one that was accepted is answered unless the server has      *)
(* given up waiting or the process is killed.                              *)
(***************************************************************************)
CONSTANT Calls

VARIABLES phase,     \* "opening", "open", "closing" or "gone"
          outcome,   \* of each call
          gaveUp     \* the server no longer waits for accepted calls

vars == <<phase, outcome, gaveUp>>

Outcomes == {"none", "pending", "answered", "refused", "lost"}

Init == /\ phase = "opening"
        /\ outcome = [c \in Calls |-> "none"]
        /\ gaveUp = FALSE

Open == /\ phase = "opening" /\ phase' = "open"
        /\ UNCHANGED <<outcome, gaveUp>>

Settle(c, from, to) == /\ outcome[c] = from
                       /\ outcome' = [outcome EXCEPT ![c] = to]
                       /\ UNCHANGED <<phase, gaveUp>>

Accept(c) == phase = "open"              /\ Settle(c, "none", "pending")
Refuse(c) == phase # "open"              /\ Settle(c, "none", "refused")
Answer(c) == phase \in {"open", "closing"} /\ Settle(c, "pending", "answered")
Lose(c)   == phase = "closing" /\ gaveUp /\ Settle(c, "pending", "lost")

Close == /\ phase = "open" /\ phase' = "closing"
         /\ UNCHANGED <<outcome, gaveUp>>

GiveUp == /\ phase = "closing" /\ ~gaveUp /\ gaveUp' = TRUE
          /\ UNCHANGED <<phase, outcome>>

Pending == {c \in Calls : outcome[c] = "pending"}

\* The process ends: what is pending then is lost.
Ended == [c \in Calls |-> IF c \in Pending THEN "lost" ELSE outcome[c]]

Go == /\ phase = "closing" /\ gaveUp
      /\ phase' = "gone" /\ outcome' = Ended
      /\ UNCHANGED gaveUp

Kill == /\ phase \in {"opening", "open"}
        /\ phase' = "gone" /\ outcome' = Ended
        /\ UNCHANGED gaveUp

Next == \/ Open \/ Close \/ GiveUp \/ Go \/ Kill
        \/ \E c \in Calls : Accept(c) \/ Refuse(c) \/ Answer(c) \/ Lose(c)

Spec == Init /\ [][Next]_vars
=============================================================================
