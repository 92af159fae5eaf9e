------------------------------- MODULE UnaryCall -------------------------------
(* What unary calls promise whoever makes them, over connections that break *)
(* and servers that come and go: a call has one outcome, the handler runs   *)
(* at most once for it, perhaps only after it has failed or was dropped, an *)
(* answer is a handler's, and whoever listens is told when the call ends    *)
(* and never again.  Calls are independent: a step of the system may be a   *)
(* step of several.                                                         *)
CONSTANT Calls

VARIABLES state,    \* of each call: "idle", "going", "ok", "failed", "dropped"
          handled,  \* how often its handler has run
          told      \* who was told of its outcome, "no" for nobody yet

vars == <<state, handled, told>>

Init == /\ state = [c \in Calls |-> "idle"]
        /\ handled = [c \in Calls |-> 0]
        /\ told = [c \in Calls |-> "no"]

Turns(c, from, to) == state[c] = from /\ state'[c] = to

\* A handler runs for a call that is going, if it has not yet.
MayRun(c) == handled'[c] = handled[c] \/ (handled[c] = 0 /\ handled'[c] = 1)

Make(c)   == Turns(c, "idle", "going")     /\ handled'[c] = handled[c] /\ told'[c] = told[c]
Handle(c) == Turns(c, "going", "going")    /\ MayRun(c)                /\ told'[c] = told[c]
Answer(c) == /\ Turns(c, "going", "ok")     /\ handled'[c] = handled[c] /\ handled[c] = 1
             /\ told[c] = "no" /\ told'[c] # "no"
Fail(c)   == /\ Turns(c, "going", "failed") /\ MayRun(c)
             /\ told[c] = "no" /\ told'[c] # "no"
Drop(c)   == Turns(c, "going", "dropped")  /\ handled'[c] = handled[c] /\ told'[c] = told[c]
Late(c)   == state[c] \in {"failed", "dropped"} /\ Turns(c, state[c], state[c])
             /\ MayRun(c) /\ told'[c] = told[c]
Rest(c)   == Turns(c, state[c], state[c])  /\ handled'[c] = handled[c] /\ told'[c] = told[c]

Step(c) == Make(c) \/ Handle(c) \/ Answer(c) \/ Fail(c) \/ Drop(c) \/ Late(c) \/ Rest(c)

Next == \A c \in Calls : Step(c)

Spec == Init /\ [][Next]_vars
================================================================================
