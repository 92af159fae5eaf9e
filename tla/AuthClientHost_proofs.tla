------------------------- MODULE AuthClientHost_proofs -------------------------
(* How AuthDemo.Client stops, for every number of hosted services and every   *)
(* round of calls.                                                            *)
EXTENDS AuthClientHost, TLAPS

Places == {"test", "delay", "ready", "sent", "failed", "ended", "faulted"}

(* The tokens cancelled so far are those of the service whose StopAsync is    *)
(* awaited and of all that were registered behind it; a host that has stopped *)
(* went through all of them.                                                  *)
Tokens ==
    /\ token = stopping..N
    /\ phase = "running" => stopping = N + 1 /\ clock = "fast"
    /\ phase = "stopped" => stopping = 1 /\ (clock = "expired" \/ Over(1))

(* Behind the awaited service every loop is over, or the time is.             *)
Behind == \A q \in Loops : q > stopping => Over(q) \/ clock = "expired"

IInv == TypeOK /\ OwnEnd /\ Tokens /\ Behind

(* Rounds are not empty, and every call of a round has its server.            *)
LEMMA RoundFact ==
    ASSUME NEW s \in Loops
    PROVE  Len(Round[s]) \in Nat /\ Len(Round[s]) >= 1
  <1>1. Round[s] \in Seq(Servers) /\ Round[s] # <<>>
    BY RoundAssumption
  <1> QED
    BY <1>1

(* The initial states satisfy the inductive invariant. *)
LEMMA InitIInv == Init => IInv
  <1> SUFFICES ASSUME Init PROVE IInv
    OBVIOUS
  <1>0. N \in Nat /\ N >= 1
    BY NAssumption
  <1>1. TypeOK
    <2>1. step \in [Loops -> Nat] /\ \A s \in Loops : step[s] \in 1..Len(Round[s])
      BY RoundFact DEF Init
    <2>2. server \in [Servers -> {"up", "down", "stuck"}]
      BY DEF Init
    <2>3. stopping \in 1..(N + 1)
      BY <1>0 DEF Init
    <2> QED
      BY <2>1, <2>2, <2>3 DEF Init, TypeOK
  <1>2. OwnEnd
    BY DEF Init, OwnEnd
  <1>3. Tokens
    BY <1>0 DEF Init, Tokens
  <1>4. Behind
    BY <1>0 DEF Init, Behind, Loops
  <1> QED
    BY <1>1, <1>2, <1>3, <1>4 DEF IInv

(* A loop that is over stays over, one that is not may only end as it should: *)
(* what a step of one loop or of a server does to the invariant.              *)
LoopStep ==
    /\ phase # "stopped" /\ UNCHANGED host
    /\ at' \in [Loops -> Places]
    /\ \A s \in Loops : Over(s) => at'[s] = at[s]
    /\ \A s \in Loops : at'[s] = "ended" => at[s] = "ended" \/ s \in token
    /\ \A s \in Loops : at'[s] = "faulted" => at[s] = "faulted" \/ s \notin Catches

LEMMA LoopStepKeeps ==
    ASSUME IInv, LoopStep
    PROVE  OwnEnd' /\ Tokens' /\ Behind'
  <1>1. OwnEnd'
    BY DEF IInv, OwnEnd, LoopStep, host
  <1>2. \A s \in Loops : Over(s) => Over(s)'
    BY DEF LoopStep, Over
  <1>3. Tokens'
    BY DEF IInv, Tokens, LoopStep, host
  <1>4. Behind'
    BY <1>2 DEF IInv, Behind, LoopStep, host
  <1> QED
    BY <1>1, <1>3, <1>4

(* A loop goes from a place where it is not over.                             *)
LEMMA GotoStep ==
    ASSUME IInv, NEW s \in Loops, NEW from \in Places \ {"ended", "faulted"},
           NEW to \in Places, Goto(s, from, to),
           to = "ended" => s \in token, to = "faulted" => s \notin Catches
    PROVE  LoopStep /\ UNCHANGED server
  BY DEF IInv, TypeOK, Goto, LoopStep, Over, Places

(* A step that only moves loops keeps the types, given those of step.         *)
LEMMA TypeOfStep ==
    ASSUME IInv, LoopStep, UNCHANGED server,
           step' \in [Loops -> Nat], \A s \in Loops : step'[s] \in 1..Len(Round[s])
    PROVE  IInv'
  <1>1. TypeOK'
    BY DEF IInv, TypeOK, LoopStep, Places, host
  <1> QED
    BY <1>1, LoopStepKeeps DEF IInv

(* Every step of a loop keeps the invariant. *)
LEMMA ExecuteStep ==
    ASSUME IInv, NEW s \in Loops, Execute(s)
    PROVE  IInv'
  <1>0. /\ step \in [Loops -> Nat]
        /\ \A q \in Loops : step[q] \in 1..Len(Round[q])
    BY DEF IInv, TypeOK
  <1>1. CASE LoopTest(s)
    <2>1. LoopStep /\ UNCHANGED <<server, step>>
      <3>1. CASE s \in token
        BY <1>1, <3>1, GotoStep DEF LoopTest, Places
      <3>2. CASE s \notin token
        BY <1>1, <3>2, GotoStep DEF LoopTest, Places
      <3> QED
        BY <3>1, <3>2
    <2> QED
      BY <1>0, <2>1, TypeOfStep
  <1>2. CASE Delay(s)
    <2>1. LoopStep /\ UNCHANGED server /\ step' = [step EXCEPT ![s] = 1]
      BY <1>2, GotoStep DEF Delay, Places
    <2> QED
      BY <1>0, <2>1, TypeOfStep, RoundFact
  <1>3. CASE Send(s)
    <2>1. LoopStep /\ UNCHANGED <<server, step>>
      <3>1. CASE server[Target(s)] = "down"
        BY <1>3, <3>1, GotoStep DEF Send, Places
      <3>2. CASE server[Target(s)] # "down"
        BY <1>3, <3>2, GotoStep DEF Send, Places
      <3> QED
        BY <3>1, <3>2
    <2> QED
      BY <1>0, <2>1, TypeOfStep
  <1>4. CASE Answered(s)
    <2>1. CASE step[s] < Len(Round[s]) /\ Goto(s, "sent", "ready") /\ step' = [step EXCEPT ![s] = @ + 1]
      <3>1. LoopStep /\ UNCHANGED server
        BY <2>1, GotoStep DEF Places
      <3>2. step' \in [Loops -> Nat] /\ \A q \in Loops : step'[q] \in 1..Len(Round[q])
        BY <1>0, <2>1, RoundFact
      <3> QED
        BY <3>1, <3>2, TypeOfStep
    <2>2. CASE Goto(s, "sent", "test") /\ UNCHANGED step
      <3>1. LoopStep /\ UNCHANGED <<server, step>>
        BY <2>2, GotoStep DEF Places
      <3> QED
        BY <1>0, <3>1, TypeOfStep
    <2> QED
      BY <1>4, <2>1, <2>2 DEF Answered
  <1>5. CASE Refused(s) \/ Caught(s) \/ Fault(s)
    <2>1. LoopStep /\ UNCHANGED <<server, step>>
      BY <1>5, GotoStep DEF Refused, Caught, Fault, Places
    <2> QED
      BY <1>0, <2>1, TypeOfStep
  <1> QED
    BY <1>1, <1>2, <1>3, <1>4, <1>5 DEF Execute

(* Every step of a server keeps the invariant. *)
LEMMA ServerStep ==
    ASSUME IInv, NEW v \in Servers, ServerUp(v) \/ ServerStuck(v) \/ ServerDown(v)
    PROVE  IInv'
  <1>1. TypeOK'
    <2>1. server' \in [Servers -> {"up", "down", "stuck"}]
      BY DEF IInv, TypeOK, ServerUp, ServerStuck, ServerDown, Change
    <2>2. at' \in [Loops -> Places]
      BY DEF IInv, TypeOK, ServerUp, ServerStuck, ServerDown, Change, Places
    <2> QED
      BY <2>1, <2>2 DEF IInv, TypeOK, ServerUp, ServerStuck, ServerDown, Change, Places, host
  <1>2. /\ UNCHANGED <<phase, stopping, token>>
        /\ phase = "running" => UNCHANGED clock
        /\ clock = "expired" => clock' = "expired"
        /\ \A s \in Loops : at'[s] = at[s] \/ (~Over(s) /\ at'[s] = "failed")
    BY DEF IInv, TypeOK, ServerUp, ServerStuck, ServerDown, Change, Over
  <1>3. OwnEnd'
    BY <1>2 DEF IInv, OwnEnd, Over
  <1>4. Tokens'
    <2>1. 1 \in Loops
      BY NAssumption DEF Loops
    <2>2. Over(1) => Over(1)'
      BY <1>2, <2>1 DEF Over
    <2> QED
      BY <1>2, <2>2 DEF IInv, Tokens
  <1>5. Behind'
    BY <1>2 DEF IInv, Behind, Over
  <1> QED
    BY <1>1, <1>3, <1>4, <1>5 DEF IInv

(* Every step of the host keeps the invariant. *)
LEMMA HostStep ==
    ASSUME IInv, StopApplication \/ StopNext \/ Expire \/ Stopped
    PROVE  IInv'
  <1>0. N \in Nat /\ stopping \in 1..(N + 1)
    BY NAssumption DEF IInv, TypeOK
  <1>1. CASE StopApplication \/ Expire \/ Stopped
    <2>1. UNCHANGED <<at, step, server, stopping, token>>
      BY <1>1 DEF StopApplication, Expire, Stopped
    <2>2. \A s \in Loops : Over(s)' <=> Over(s)
      BY <2>1 DEF Over
    <2>3. clock = "expired" => clock' = "expired"
      BY <1>1 DEF StopApplication, Expire, Stopped, IInv, Tokens
    <2>4. TypeOK'
      BY <1>1, <2>1 DEF IInv, TypeOK, StopApplication, Expire, Stopped
    <2>5. OwnEnd'
      BY <2>1 DEF IInv, OwnEnd
    <2>6. Tokens'
      BY <1>1, <2>1 DEF IInv, Tokens, StopApplication, Expire, Stopped, Over
    <2>7. Behind'
      BY <2>1, <2>2, <2>3 DEF IInv, Behind
    <2> QED
      BY <2>4, <2>5, <2>6, <2>7 DEF IInv
  <1>2. CASE StopNext
    <2>1. /\ stopping' = stopping - 1 /\ stopping > 1 /\ stopping' \in 1..N
          /\ token' = token \cup {stopping'}
          /\ UNCHANGED <<at, step, server, phase, clock>> /\ phase = "stopping"
          /\ stopping <= N => Over(stopping) \/ clock = "expired"
      BY <1>0, <1>2 DEF StopNext
    <2>2. TypeOK'
      BY <1>0, <2>1 DEF IInv, TypeOK, Loops
    <2>3. OwnEnd'
      BY <2>1 DEF IInv, OwnEnd
    <2>4. Tokens'
      BY <1>0, <2>1 DEF IInv, Tokens
    <2>5. Behind'
      BY <1>0, <2>1 DEF IInv, Behind, Over, Loops
    <2> QED
      BY <2>2, <2>3, <2>4, <2>5 DEF IInv
  <1> QED
    BY <1>1, <1>2

(* The invariant is inductive. *)
LEMMA NextIInv == IInv /\ [Next]_vars => IInv'
  <1> SUFFICES ASSUME IInv, [Next]_vars PROVE IInv'
    OBVIOUS
  <1>1. CASE UNCHANGED vars
    BY <1>1 DEF vars, IInv, TypeOK, OwnEnd, Tokens, Behind, Over
  <1> QED
    BY <1>1, ExecuteStep, ServerStep, HostStep DEF Next, FaultStops, CtrlC

-----------------------------------------------------------------------------
(* The inductive invariant holds in every state of every behaviour. *)
THEOREM IInvHolds == Spec => []IInv
  BY InitIInv, NextIInv, PTL DEF Spec

(* The types hold. *)
THEOREM TypeCorrect == Spec => []TypeOK
  <1>1. IInv => TypeOK
    BY DEF IInv
  <1> QED
    BY <1>1, IInvHolds, PTL

(* Services are stopped one by one from the last registered to the first.     *)
THEOREM StopsInReverse == Spec => []ReverseOrder
  <1>1. IInv => ReverseOrder
    <2> SUFFICES ASSUME IInv, NEW s \in token, NEW q \in Loops, q > s
                 PROVE  q \in token /\ (Over(q) \/ clock = "expired")
      BY DEF ReverseOrder
    <2>1. N \in Nat /\ stopping \in 1..(N + 1) /\ token = stopping..N /\ q \in 1..N
      BY NAssumption DEF IInv, TypeOK, Tokens, Loops
    <2>2. q \in token /\ q > stopping
      BY <2>1
    <2> QED
      BY <2>2 DEF IInv, Behind
  <1> QED
    BY <1>1, IInvHolds, PTL

(* A loop ends by its own token or its own fault.                             *)
THEOREM EndsOnItsOwn == Spec => []OwnEnd
  <1>1. IInv => OwnEnd
    BY DEF IInv
  <1> QED
    BY <1>1, IInvHolds, PTL

(* A host that has stopped has told every service, and waited for all of them *)
(* unless its time ran out.                                                   *)
THEOREM StopIsComplete == Spec => []NobodyForgotten
  <1>1. IInv => NobodyForgotten
    <2> SUFFICES ASSUME IInv, phase = "stopped"
                 PROVE  token = Loops /\ (clock = "expired" \/ \A s \in Loops : Over(s))
      BY DEF NobodyForgotten
    <2>1. stopping = 1 /\ token = Loops /\ (clock = "expired" \/ Over(1))
      BY DEF IInv, Tokens, Loops
    <2>2. \A s \in Loops : s = 1 \/ s > 1
      BY NAssumption DEF Loops
    <2> QED
      BY <2>1, <2>2 DEF IInv, Behind
  <1> QED
    BY <1>1, IInvHolds, PTL

-----------------------------------------------------------------------------
(***************************************************************************)
(* How a stop comes to its end.  A loop whose token is cancelled finishes   *)
(* the round it is in and begins no other: each of its moves uses up some   *)
(* of what ToGo counts.                                                     *)
(***************************************************************************)
CallsAhead(s) == 2 * (Len(Round[s]) - step[s])

ToGo(s) ==
    CASE at[s] = "delay"  -> 2 * Len(Round[s]) + 3
      [] at[s] = "ready"  -> CallsAhead(s) + 4
      [] at[s] = "sent"   -> CallsAhead(s) + 3
      [] at[s] = "failed" -> 2
      [] at[s] = "test"   -> 1
      [] OTHER            -> 0

\* Only a test whose token is still good goes on to a delay.
Falls(s) == ToGo(s) \in Nat /\ ToGo(s)' < ToGo(s)
Rewinds(s) == at[s] = "test" /\ at'[s] = "delay" /\ s \notin token

(* The counts are natural numbers. *)
LEMMA ToGoFact ==
    ASSUME TypeOK, NEW s \in Loops
    PROVE  /\ Len(Round[s]) \in Nat /\ step[s] \in Nat
           /\ step[s] >= 1 /\ step[s] <= Len(Round[s])
           /\ at[s] \in Places
           /\ ToGo(s) \in Nat
  <1>1. Len(Round[s]) \in Nat /\ step[s] \in 1..Len(Round[s])
    BY RoundFact DEF TypeOK
  <1>2. at[s] \in Places
    BY DEF TypeOK, Places
  <1>3. CallsAhead(s) \in Nat
    BY <1>1 DEF CallsAhead
  <1> QED
    BY <1>1, <1>2, <1>3 DEF ToGo

(* A step of one loop moves that loop, nearer to its end or round again. *)
LEMMA ExecuteMoves ==
    ASSUME TypeOK, NEW s \in Loops, Execute(s)
    PROVE  /\ at'[s] # at[s]
           /\ Falls(s) \/ Rewinds(s)
           /\ \A q \in Loops \ {s} : at'[q] = at[q] /\ step'[q] = step[q]
  <1>0. /\ at \in [Loops -> Places] /\ step \in [Loops -> Nat]
        /\ Len(Round[s]) \in Nat /\ step[s] \in Nat
        /\ step[s] >= 1 /\ step[s] <= Len(Round[s])
        /\ ToGo(s) \in Nat
    BY ToGoFact DEF TypeOK, Places
  <1>1. CASE LoopTest(s)
    BY <1>0, <1>1 DEF LoopTest, Goto, Falls, Rewinds, ToGo
  <1>2. CASE Delay(s)
    <2>1. /\ at[s] = "delay" /\ at'[s] = "ready" /\ step'[s] = 1
          /\ \A q \in Loops \ {s} : at'[q] = at[q] /\ step'[q] = step[q]
      BY <1>0, <1>2 DEF Delay, Goto
    <2>2. ToGo(s) = 2 * Len(Round[s]) + 3 /\ ToGo(s)' = 2 * (Len(Round[s]) - 1) + 4
      BY <2>1 DEF ToGo, CallsAhead
    <2> QED
      BY <1>0, <2>1, <2>2 DEF Falls
  <1>3. CASE Send(s)
    <2>1. /\ at[s] = "ready" /\ at'[s] \in {"failed", "sent"} /\ step' = step
          /\ \A q \in Loops \ {s} : at'[q] = at[q]
      BY <1>0, <1>3 DEF Send, Goto
    <2>2. ToGo(s) = CallsAhead(s) + 4 /\ ToGo(s)' \in {2, CallsAhead(s) + 3}
      BY <2>1 DEF ToGo, CallsAhead
    <2>3. CallsAhead(s) \in Nat
      BY <1>0 DEF CallsAhead
    <2>4. ToGo(s)' < ToGo(s)
      BY <2>2, <2>3
    <2> QED
      BY <1>0, <2>1, <2>4 DEF Falls
  <1>4. CASE Answered(s) \/ Refused(s)
    <2>1. /\ at[s] = "sent"
          /\ \/ at'[s] = "ready" /\ step'[s] = step[s] + 1
             \/ at'[s] \in {"test", "failed"}
          /\ \A q \in Loops \ {s} : at'[q] = at[q] /\ step'[q] = step[q]
      BY <1>0, <1>4 DEF Answered, Refused, Goto
    <2>2. ToGo(s) = CallsAhead(s) + 3 /\ CallsAhead(s) \in Nat
      BY <1>0, <2>1 DEF ToGo, CallsAhead
    <2>3. CASE at'[s] = "ready" /\ step'[s] = step[s] + 1
      <3>1. ToGo(s)' = 2 * (Len(Round[s]) - (step[s] + 1)) + 4
        BY <2>3 DEF ToGo, CallsAhead
      <3>2. ToGo(s)' < ToGo(s)
        BY <1>0, <2>2, <3>1 DEF CallsAhead
      <3> QED
        BY <1>0, <2>1, <2>3, <3>2 DEF Falls
    <2>4. CASE at'[s] \in {"test", "failed"}
      <3>1. ToGo(s)' \in {1, 2}
        BY <2>4 DEF ToGo
      <3> QED
        BY <1>0, <2>1, <2>2, <2>4, <3>1 DEF Falls
    <2> QED
      BY <2>1, <2>3, <2>4
  <1>5. CASE Caught(s) \/ Fault(s)
    BY <1>0, <1>5 DEF Caught, Fault, Goto, Falls, ToGo
  <1> QED
    BY <1>1, <1>2, <1>3, <1>4, <1>5 DEF Execute

(* A server that goes away fails the calls it held, which is nearer too. *)
LEMMA ServerMoves ==
    ASSUME TypeOK, NEW v \in Servers, ServerUp(v) \/ ServerStuck(v) \/ ServerDown(v),
           NEW s \in Loops
    PROVE  step' = step /\ (at'[s] = at[s] \/ Falls(s))
  <1>1. step' = step /\ (at'[s] = at[s] \/ (at[s] = "sent" /\ at'[s] = "failed"))
    BY DEF ServerUp, ServerStuck, ServerDown, Change
  <1>2. CASE at[s] = "sent" /\ at'[s] = "failed"
    <2>1. ToGo(s) = CallsAhead(s) + 3 /\ CallsAhead(s) \in Nat /\ ToGo(s)' = 2
      BY <1>2, ToGoFact DEF ToGo, CallsAhead
    <2> QED
      BY <1>1, <2>1 DEF Falls
  <1> QED
    BY <1>1, <1>2

(* What any step does to a loop. *)
LEMMA LoopMoves ==
    ASSUME TypeOK, [Next]_vars, NEW s \in Loops
    PROVE  \/ at'[s] = at[s] /\ ToGo(s)' = ToGo(s)
           \/ at'[s] # at[s] /\ Falls(s)
           \/ Rewinds(s)
  <1>1. ASSUME at'[s] = at[s], step'[s] = step[s]
        PROVE  ToGo(s)' = ToGo(s)
    BY <1>1 DEF ToGo, CallsAhead
  <1>2. Falls(s) => at'[s] # at[s] \/ step'[s] # step[s]
    BY <1>1 DEF Falls
  <1>3. CASE \E q \in Loops : Execute(q)
    BY <1>1, <1>3, ExecuteMoves
  <1>4. CASE \E v \in Servers : ServerUp(v) \/ ServerStuck(v) \/ ServerDown(v)
    <2>1. step' = step /\ (at'[s] = at[s] \/ Falls(s))
      BY <1>4, ServerMoves
    <2>2. CASE at'[s] = at[s]
      BY <1>1, <2>1, <2>2
    <2>3. CASE at'[s] # at[s]
      BY <2>1, <2>3
    <2> QED
      BY <2>2, <2>3
  <1>5. CASE UNCHANGED <<at, step>>
    BY <1>1, <1>5
  <1> QED
    BY <1>3, <1>4, <1>5
    DEF Next, FaultStops, CtrlC, StopApplication, StopNext, Expire, Stopped, vars

(* The stop only ever turns to the service before: what it awaits falls.      *)
THEOREM StopGoesDown == Spec => [][stopping' \in {stopping, stopping - 1}]_vars
  <1>1. [Next]_vars => stopping' \in {stopping, stopping - 1}
    BY DEF Next, Execute, LoopTest, Delay, Send, Answered, Refused, Caught, Fault, Goto,
           FaultStops, CtrlC, StopApplication, StopNext, Expire, Stopped,
           ServerUp, ServerStuck, ServerDown, Change, host, vars
  <1>2. [Next]_vars => [stopping' \in {stopping, stopping - 1}]_vars
    BY <1>1
  <1> QED
    BY <1>2, PTL DEF Spec

(* Once its token is cancelled, a loop only comes nearer to its end: it      *)
(* finishes the round it is in, a failing call cuts it short, and no new      *)
(* round begins.                                                              *)
THEOREM LastRoundOnly ==
    Spec => [][\A s \in token : \/ at'[s] = at[s] /\ ToGo(s)' = ToGo(s)
                                \/ at'[s] # at[s] /\ Falls(s)]_vars
  <1>1. TypeOK /\ [Next]_vars
          => [\A s \in token : \/ at'[s] = at[s] /\ ToGo(s)' = ToGo(s)
                               \/ at'[s] # at[s] /\ Falls(s)]_vars
    BY LoopMoves DEF TypeOK, Rewinds
  <1> QED
    BY <1>1, TypeCorrect, PTL DEF Spec

-----------------------------------------------------------------------------
(* While the time of a stop has not begun to run, no server is stuck; and no *)
(* loop awaits a server that is down.                                        *)
FastUnlessStuck == phase = "stopping" /\ clock = "fast" => Stuck = {}
SentToSomebody == \A s \in Loops : at[s] = "sent" => server[Target(s)] # "down"

FInv == TypeOK /\ FastUnlessStuck /\ SentToSomebody

LEMMA InitFInv == Init => FInv
  <1>1. Init => TypeOK
    BY InitIInv DEF IInv
  <1> QED
    BY <1>1 DEF Init, FInv, FastUnlessStuck, SentToSomebody

(* Every step keeps both. *)
LEMMA FInvStep == FInv /\ TypeOK' /\ [Next]_vars => FInv'
  <1> SUFFICES ASSUME FInv, TypeOK', [Next]_vars
               PROVE  FastUnlessStuck' /\ SentToSomebody'
    BY DEF FInv
  <1>0. at \in [Loops -> Places] /\ step \in [Loops -> Nat] /\ DOMAIN server = Servers
    BY DEF FInv, TypeOK, Places
  <1>1. CASE \E s \in Loops : Execute(s)
    <2>1. PICK s \in Loops : Execute(s)
      BY <1>1
    <2>2. UNCHANGED <<server, host>>
      BY <2>1 DEF Execute, LoopTest, Delay, Send, Answered, Refused, Caught, Fault, Goto
    <2>3. FastUnlessStuck'
      BY <2>2 DEF FInv, FastUnlessStuck, Stuck, host
    <2>4. ASSUME NEW q \in Loops, at'[q] = "sent"
          PROVE  server'[Target(q)'] # "down"
      <3>1. CASE q = s
        <4>1. Send(s) /\ at[s] = "ready" /\ step' = step
          BY <1>0, <2>1, <2>4, <3>1
          DEF Execute, LoopTest, Delay, Send, Answered, Refused, Caught, Fault, Goto
        <4>2. server[Target(s)] # "down"
          BY <1>0, <2>4, <3>1, <4>1 DEF Send, Goto
        <4> QED
          BY <2>2, <3>1, <4>1, <4>2 DEF Target
      <3>2. CASE q # s
        <4>1. at'[q] = at[q] /\ step'[q] = step[q]
          BY <2>1, <3>2, ExecuteMoves DEF FInv
        <4> QED
          BY <2>2, <2>4, <4>1 DEF FInv, SentToSomebody, Target
      <3> QED
        BY <3>1, <3>2
    <2> QED
      BY <2>3, <2>4 DEF SentToSomebody
  <1>2. CASE \E v \in Servers : ServerUp(v) \/ ServerStuck(v) \/ ServerDown(v)
    <2>1. PICK v \in Servers : ServerUp(v) \/ ServerStuck(v) \/ ServerDown(v)
      BY <1>2
    <2>2. UNCHANGED <<step, phase>> /\ \A w \in Servers \ {v} : server'[w] = server[w]
      BY <1>0, <2>1 DEF ServerUp, ServerStuck, ServerDown, Change
    <2>3. FastUnlessStuck'
      <3>1. CASE ServerStuck(v)
        BY <3>1 DEF ServerStuck, Change, FastUnlessStuck
      <3>2. CASE ServerUp(v) \/ ServerDown(v)
        <4>1. clock' = clock /\ server'[v] # "stuck"
          BY <1>0, <3>2 DEF ServerUp, ServerDown, Change
        <4> QED
          BY <2>2, <4>1 DEF FInv, FastUnlessStuck, Stuck
      <3> QED
        BY <2>1, <3>1, <3>2
    <2>4. ASSUME NEW q \in Loops, at'[q] = "sent"
          PROVE  server'[Target(q)'] # "down"
      <3>1. Target(q)' = Target(q)
        BY <2>2 DEF Target
      <3>2. at[q] = "sent"
        BY <2>1, <2>4 DEF ServerUp, ServerStuck, ServerDown
      <3>3. CASE Target(q) = v
        <4>1. ~ ServerDown(v)
          BY <2>4, <3>2, <3>3 DEF ServerDown
        <4>2. server'[v] \in {"up", "stuck"}
          BY <1>0, <2>1, <4>1 DEF ServerUp, ServerStuck, Change
        <4> QED
          BY <3>1, <3>3, <4>2
      <3>4. CASE Target(q) # v
        <4>1. Target(q) \in Servers
          BY RoundAssumption, ToGoFact DEF FInv, Target
        <4> QED
          BY <2>2, <3>1, <3>2, <3>4, <4>1 DEF FInv, SentToSomebody
      <3> QED
        BY <3>3, <3>4
    <2> QED
      BY <2>3, <2>4 DEF SentToSomebody
  <1>3. CASE StopApplication
    BY <1>3 DEF StopApplication, FInv, FastUnlessStuck, SentToSomebody, Stuck, Target
  <1>4. CASE StopNext \/ Expire \/ Stopped \/ UNCHANGED vars
    <2>1. /\ UNCHANGED <<at, step, server>>
          /\ phase' = "stopping" /\ clock' = "fast" => phase = "stopping" /\ clock = "fast"
      BY <1>4 DEF StopNext, Expire, Stopped, vars
    <2> QED
      BY <2>1 DEF FInv, FastUnlessStuck, SentToSomebody, Stuck, Target
  <1> QED
    BY <1>1, <1>2, <1>3, <1>4 DEF Next, FaultStops, CtrlC

LEMMA FInvHolds == Spec => [](FInv /\ Tokens)
  <1>1. FInv => TypeOK
    BY DEF FInv
  <1>2. IInv => Tokens
    BY DEF IInv
  <1> QED
    BY <1>1, <1>2, InitFInv, FInvStep, TypeCorrect, IInvHolds, PTL DEF Spec

(* A loop that awaits a server awaits one that answers, or one is stuck. *)
LEMMA AnswersUnlessStuck ==
    ASSUME FInv, Stuck = {}, NEW s \in Loops, at[s] = "sent"
    PROVE  server[Target(s)] = "up"
  <1>1. Target(s) \in Servers
    BY RoundAssumption, ToGoFact DEF FInv, Target
  <1>2. server[Target(s)] \in {"up", "down", "stuck"} /\ server[Target(s)] # "stuck"
    BY <1>1 DEF FInv, TypeOK, Stuck
  <1> QED
    BY <1>2 DEF FInv, SentToSomebody

-----------------------------------------------------------------------------
(* What the three theorems below need to be possible: a loop goes on unless  *)
(* it is over or awaits a server that does not answer, the host sees a fault, *)
(* the stop goes on.                                                          *)
LoopCanGo(s) ==
    /\ phase # "stopped" /\ ~ Over(s) /\ (at[s] = "sent" => server[Target(s)] = "up")
         => ENABLED <<Execute(s)>>_vars
    /\ phase = "running" /\ at[s] = "faulted" => ENABLED <<FaultStops(s)>>_vars

StopCanGo ==
    phase = "stopping" =>
      /\ clock = "slow" => ENABLED <<Expire>>_vars
      /\ stopping = N + 1 \/ Over(stopping) \/ clock = "expired" =>
           IF stopping > 1 THEN ENABLED <<StopNext>>_vars ELSE ENABLED <<Stopped>>_vars

CanGoOn == StopCanGo /\ \A s \in Loops : LoopCanGo(s)

(* The stop at rest: it awaits service k, whose loop has m to go. *)
AtRest(k, m) == stopping = k /\ (k \in Loops => ToGo(k) = m)

\* The stop may go on.
Free == phase = "stopping" /\ (stopping = N + 1 \/ Over(stopping) \/ clock = "expired")

(* A stop is not taken back, and its time only runs on. *)
LEMMA StopRunsOn ==
    ASSUME [Next]_vars, phase = "stopping"
    PROVE  /\ phase' = "stopping" \/ phase' = "stopped"
           /\ clock = "slow" => clock' \in {"slow", "expired"}
           /\ clock = "expired" => clock' = "expired"
  BY DEF Next, Execute, LoopTest, Delay, Send, Answered, Refused, Caught, Fault, Goto,
         FaultStops, CtrlC, StopApplication, StopNext, Expire, Stopped,
         ServerUp, ServerStuck, ServerDown, Change, host, vars

(* A stop at rest stays free to go on once it is. *)
LEMMA FreeStays ==
    ASSUME NEW k, NEW m
    PROVE  FInv /\ Tokens /\ AtRest(k, m) /\ AtRest(k, m)' /\ [Next]_vars
             => /\ Free => (Free \/ phase = "stopped")'
                /\ phase = "stopping" /\ clock = "slow"
                     => (clock \in {"slow", "expired"} \/ phase = "stopped")'
                /\ phase = "stopping" /\ clock = "expired" => Free
                /\ ~ <<StopNext>>_vars
  <1> SUFFICES ASSUME FInv, Tokens, AtRest(k, m), AtRest(k, m)', [Next]_vars
               PROVE  /\ Free => (Free \/ phase = "stopped")'
                      /\ phase = "stopping" /\ clock = "slow"
                           => (clock \in {"slow", "expired"} \/ phase = "stopped")'
                      /\ phase = "stopping" /\ clock = "expired" => Free
                      /\ ~ <<StopNext>>_vars
    OBVIOUS
  <1>0. stopping = k /\ stopping' = k /\ k \in 1..(N + 1) /\ N \in Nat
    BY NAssumption DEF AtRest, FInv, TypeOK
  <1>1. ~ StopNext
    BY <1>0 DEF StopNext
  <1>2. phase = "stopping" =>
          /\ phase' = "stopping" \/ phase' = "stopped"
          /\ clock = "slow" => clock' \in {"slow", "expired"}
          /\ clock = "expired" => clock' = "expired"
    BY StopRunsOn
  <1>3. ASSUME k \in Loops, Over(k) PROVE Over(k)'
    <2>1. ToGo(k) = 0 /\ at[k] # "test"
      BY <1>3 DEF Over, ToGo
    <2>2. ~ Falls(k) /\ ~ Rewinds(k)
      <3>1. ToGo(k)' = m /\ ToGo(k) = m
        BY <1>3 DEF AtRest
      <3> QED
        BY <2>1, <3>1 DEF Falls, Rewinds
    <2>3. at'[k] = at[k]
      BY <1>3, <2>2, LoopMoves DEF FInv
    <2> QED
      BY <1>3, <2>3 DEF Over
  <1>4. k = N + 1 \/ k \in Loops
    BY <1>0 DEF Loops
  <1> QED
    BY <1>0, <1>1, <1>2, <1>3, <1>4 DEF Free

(* A stop that awaits a loop with nothing stuck does not rest there. *)
LEMMA AwaitedGoes ==
    ASSUME NEW k \in Loops, NEW m
    PROVE  /\ FInv /\ Tokens /\ phase = "stopping" /\ AtRest(k, m) /\ AtRest(k, m)'
                => ~ <<Execute(k)>>_vars
           /\ FInv /\ CanGoOn /\ phase = "stopping" /\ AtRest(k, m) /\ ~ Free
                /\ clock = "fast" => ENABLED <<Execute(k)>>_vars
  <1>1. ASSUME FInv, Tokens, phase = "stopping", AtRest(k, m), AtRest(k, m)', Execute(k)
        PROVE  FALSE
    <2>1. k \in token
      BY <1>1, NAssumption DEF Tokens, AtRest, Loops, FInv, TypeOK
    <2>2. Falls(k)
      BY <1>1, <2>1, ExecuteMoves DEF FInv, Rewinds
    <2>3. ToGo(k)' = ToGo(k)
      BY <1>1 DEF AtRest
    <2> QED
      BY <2>2, <2>3 DEF Falls
  <1>2. ASSUME FInv, CanGoOn, phase = "stopping", AtRest(k, m), ~ Free, clock = "fast"
        PROVE  ENABLED <<Execute(k)>>_vars
    <2>1. Stuck = {} /\ ~ Over(k)
      BY <1>2 DEF FInv, FastUnlessStuck, Free, AtRest
    <2>2. at[k] = "sent" => server[Target(k)] = "up"
      BY <1>2, <2>1, AnswersUnlessStuck
    <2>3. LoopCanGo(k)
      BY <1>2 DEF CanGoOn
    <2> QED
      BY <1>2, <2>1, <2>2, <2>3 DEF LoopCanGo
  <1> QED
    BY <1>1, <1>2

(* A stop ends: each service the host turns to lets it go on, by its own end  *)
(* or because the time runs out on a call that a stuck server holds.  What is  *)
(* awaited only falls, and so does what the awaited loop has to go, so they    *)
(* come to rest, at some k and m.                                              *)
THEOREM StopComesToEnd ==
    ASSUME NEW k, NEW m
    PROVE  Spec /\ []CanGoOn /\ <>[]AtRest(k, m) => StopEnds
  <1> DEFINE Inv    == FInv /\ Tokens
             Rest   == AtRest(k, m)
             D      == phase = "stopping"
             E      == phase = "stopped"
             Slow   == clock = "slow"
             Late   == clock = "expired"
             First  == Free /\ ~ (stopping > 1)
             Later  == Free /\ stopping > 1
             Fast   == D /\ ~ Free /\ clock = "fast"
  <1>1. Inv /\ Rest /\ Rest' /\ [Next]_vars
          => /\ Free => (Free \/ E)'
             /\ D /\ Slow => (Slow \/ Late \/ E)'
             /\ D /\ Late => Free
             /\ ~ <<StopNext>>_vars
    BY FreeStays
  <1>2. Inv /\ Rest /\ Rest' /\ [Next]_vars
          => /\ First => (First \/ E)'
             /\ Later => (Later \/ E)'
    <2>1. Rest /\ Rest' => (stopping > 1 <=> stopping' > 1)
      BY DEF AtRest
    <2> QED
      BY <1>1, <2>1
  <1>2a. D /\ [Next]_vars => (D \/ E)'
    BY StopRunsOn
  <1>3. CanGoOn => /\ First => ENABLED <<Stopped>>_vars
                   /\ Later => ENABLED <<StopNext>>_vars
                   /\ D /\ Slow => ENABLED <<Expire>>_vars
    BY DEF CanGoOn, StopCanGo, Free
  <1>4. /\ <<Stopped>>_vars => E'
        /\ <<Expire>>_vars => Late'
    BY DEF Stopped, Expire
  <1>5. /\ Free <=> First \/ Later
        /\ Inv /\ D => Slow \/ Late \/ Free \/ Fast
        /\ Free => D
        /\ Fast => D /\ ~ Slow /\ ~ Late /\ ~ Free
        /\ E => ~ D
    BY DEF FInv, TypeOK, Free
  <1>6. Spec => []Inv
    BY FInvHolds
  <1>7. Spec => StopFair /\ [][Next]_vars
    BY DEF Spec
  <1>8. CASE k \in Loops
    <2>1. Inv /\ D /\ Rest /\ Rest' => ~ <<Execute(k)>>_vars
      BY <1>8, AwaitedGoes
    <2>2. Inv /\ CanGoOn /\ Rest /\ Fast => ENABLED <<Execute(k)>>_vars
      BY <1>8, AwaitedGoes
    <2>3. Spec => LoopFair(k)
      BY <1>8 DEF Spec
    <2> HIDE DEF Inv, Rest, Slow, Late, First, Later, Fast, Free
    <2>4. Spec /\ []CanGoOn /\ <>[]Rest => StopEnds
      BY <1>1, <1>2, <1>2a, <1>3, <1>4, <1>5, <1>6, <1>7, <2>1, <2>2, <2>3, PTL
      DEF StopFair, LoopFair, StopEnds
    <2> QED
      BY <2>4 DEF Rest
  <1>9. CASE k \notin Loops
    <2>1. Inv /\ D /\ Rest => Free
      BY <1>9, NAssumption DEF FInv, TypeOK, AtRest, Free, Loops
    <2> HIDE DEF Inv, Rest, Slow, Late, First, Later, Fast, Free
    <2>2. Spec /\ []CanGoOn /\ <>[]Rest => StopEnds
      BY <1>1, <1>2, <1>2a, <1>3, <1>4, <1>5, <1>6, <1>7, <2>1, PTL DEF StopFair, StopEnds
    <2> QED
      BY <2>2 DEF Rest
  <1> QED
    BY <1>8, <1>9

-----------------------------------------------------------------------------
(* Until a stop no loop has ended, and one that catches goes on. *)
LEMMA RunningLoops ==
    ASSUME IInv, phase = "running", NEW s \in Loops
    PROVE  s \notin token /\ at[s] # "ended" /\ (s \in Catches => ~ Over(s))
  <1>1. token = {}
    BY NAssumption DEF IInv, Tokens
  <1> QED
    BY <1>1 DEF IInv, OwnEnd, Over

\* A loop that never again delays comes to rest.
Settles(s, m) == <>[](at[s] # "delay") => <>[](ToGo(s) = m)

(* The loops over http and https outlive every failure of the server.  One    *)
(* that is never again at its delay has only the rest of a round to go, and    *)
(* less with every move, so what it has to go comes to rest, at some m[s].     *)
THEOREM LoopsOutliveErrors ==
    ASSUME NEW m
    PROVE  Spec /\ []CanGoOn /\ (\A s \in Catches : Settles(s, m[s])) => ErrorsSurvived
  <1>1. ASSUME NEW s \in Catches
        PROVE  Spec /\ []CanGoOn /\ Settles(s, m[s])
                 => ((<>[](\A v \in Servers : server[v] # "stuck"))
                       => []<>(phase # "running" \/ at[s] = "delay"))
    <2> DEFINE Inv     == IInv /\ FInv
               Calm    == \A v \in Servers : server[v] # "stuck"
               Away    == at[s] # "delay"
               Home    == phase # "running" \/ at[s] = "delay"
               Rest    == ToGo(s) = m[s]
               R       == phase = "running"
    <2>0. s \in Loops
      BY CatchesAssumption
    <2>1. Inv /\ R /\ Away' /\ Rest /\ Rest' => ~ <<Execute(s)>>_vars
      <3> SUFFICES ASSUME Inv, Rest, Rest', Away', Execute(s) PROVE FALSE
        OBVIOUS
      <3>1. Falls(s)
        BY <2>0, ExecuteMoves DEF FInv, Rewinds
      <3> QED
        BY <3>1 DEF Falls
    <2>2. Inv /\ CanGoOn /\ R /\ Calm => ENABLED <<Execute(s)>>_vars
      <3> SUFFICES ASSUME Inv, CanGoOn, R, Calm PROVE ENABLED <<Execute(s)>>_vars
        OBVIOUS
      <3>1. Stuck = {} /\ ~ Over(s)
        BY <2>0, RunningLoops DEF Stuck
      <3>2. at[s] = "sent" => server[Target(s)] = "up"
        BY <2>0, <3>1, AnswersUnlessStuck
      <3>3. LoopCanGo(s)
        BY <2>0 DEF CanGoOn
      <3> QED
        BY <3>1, <3>2, <3>3 DEF LoopCanGo
    <2>3. Spec => LoopFair(s) /\ [][Next]_vars
      BY <2>0 DEF Spec
    <2>4. Spec => []Inv
      BY IInvHolds, FInvHolds, PTL
    <2>5. ~ Home => R /\ Away
      OBVIOUS
    <2> HIDE DEF Inv, Calm, Away, Home, Rest, R
    <2>6. Spec /\ []CanGoOn /\ (<>[]Away => <>[]Rest) => (<>[]Calm => []<>Home)
      BY <2>1, <2>2, <2>3, <2>4, <2>5, PTL DEF LoopFair
    <2> QED
      BY <2>6 DEF Calm, Away, Home, Rest, Settles
  <1> QED
    BY <1>1 DEF ErrorsSurvived

(* Where the loop of a dead server goes. *)
Doomed(p) == CASE p = "test" -> "delay"
               [] p = "delay" -> "ready"
               [] p = "ready" -> "failed"
               [] p = "failed" -> "faulted"

Dead(s) == \A i \in DOMAIN Round[s] : server[Round[s][i]] = "down"

LEMMA DeadLoopStep ==
    ASSUME IInv, FInv, phase = "running", [Next]_vars,
           NEW s \in Loops \ Catches, Dead(s)
    PROVE  /\ at[s] \in {"test", "delay", "ready", "failed", "faulted"}
           /\ Execute(s) => at[s] # "faulted" /\ at'[s] = Doomed(at[s])
           /\ ~ Execute(s) => at'[s] = at[s]
  <1>0. at \in [Loops -> Places] /\ Target(s) = Round[s][step[s]]
        /\ step[s] \in DOMAIN Round[s]
    <2>1. Round[s] \in Seq(Servers)
      BY RoundAssumption
    <2> QED
      BY <2>1 DEF IInv, TypeOK, Places, Target
  <1>1. server[Target(s)] = "down"
    BY <1>0 DEF Dead
  <1>2. at[s] # "sent" /\ at[s] # "ended" /\ s \notin token
    BY <1>1, RunningLoops DEF FInv, SentToSomebody
  <1>3. at[s] \in {"test", "delay", "ready", "failed", "faulted"}
    BY <1>0, <1>2 DEF Places
  <1>4. ASSUME Execute(s)
        PROVE  at[s] # "faulted" /\ at'[s] = Doomed(at[s])
    BY <1>0, <1>1, <1>2, <1>4
    DEF Execute, LoopTest, Delay, Send, Answered, Refused, Caught, Fault, Goto, Doomed
  <1>5. ASSUME ~ Execute(s)
        PROVE  at'[s] = at[s]
    <2>1. CASE \E q \in Loops : Execute(q)
      BY <1>5, <2>1, ExecuteMoves DEF FInv
    <2>2. CASE \E v \in Servers : ServerUp(v) \/ ServerStuck(v) \/ ServerDown(v)
      BY <1>0, <1>2, <2>2 DEF ServerUp, ServerStuck, ServerDown
    <2>3. CASE UNCHANGED at
      BY <2>3
    <2> QED
      BY <2>1, <2>2, <2>3
      DEF Next, FaultStops, CtrlC, StopApplication, StopNext, Expire, Stopped, vars
  <1> QED
    BY <1>3, <1>4, <1>5

(* An AuthDemo.Server that stays away ends the whole client: its tester's     *)
(* loop faults, the fault stops the host, and a stop comes to its end.        *)
THEOREM DeadServerEndsAll == Spec /\ []CanGoOn /\ StopEnds => DeadServerEndsClient
  <1>1. ASSUME NEW s \in Loops \ Catches
        PROVE  Spec /\ []CanGoOn /\ StopEnds /\ <>[]Dead(s) => <>(phase = "stopped")
    <2> DEFINE Inv   == IInv /\ FInv
               Gone  == Dead(s)
               R     == phase = "running"
               At(p) == at[s] = p
    <2>1. Inv /\ R /\ Gone =>
            \/ At("test") \/ At("delay") \/ At("ready") \/ At("failed") \/ At("faulted")
      <3> SUFFICES ASSUME Inv, R, Gone
                   PROVE  at[s] \in {"test", "delay", "ready", "failed", "faulted"}
        OBVIOUS
      <3>1. step[s] \in DOMAIN Round[s]
        BY RoundAssumption DEF IInv, TypeOK
      <3> QED
        BY <3>1, RunningLoops DEF FInv, IInv, TypeOK, SentToSomebody, Target, Dead
    <2>2. Inv /\ R /\ Gone /\ [Next]_vars
            => /\ At("test") => (At("test") \/ At("delay"))'
               /\ At("delay") => (At("delay") \/ At("ready"))'
               /\ At("ready") => (At("ready") \/ At("failed"))'
               /\ At("failed") => (At("failed") \/ At("faulted"))'
               /\ At("faulted") => At("faulted")'
      BY DeadLoopStep DEF Doomed
    <2>3. Inv /\ R /\ Gone /\ [Next]_vars /\ <<Execute(s)>>_vars
            => /\ At("test") => At("delay")'
               /\ At("delay") => At("ready")'
               /\ At("ready") => At("failed")'
               /\ At("failed") => At("faulted")'
      BY DeadLoopStep DEF Doomed
    <2>4. CanGoOn /\ R => /\ At("test") \/ At("delay") \/ At("ready") \/ At("failed")
                               => ENABLED <<Execute(s)>>_vars
                          /\ At("faulted") => ENABLED <<FaultStops(s)>>_vars
      <3> SUFFICES ASSUME CanGoOn, R
                   PROVE  /\ At("test") \/ At("delay") \/ At("ready") \/ At("failed")
                               => ENABLED <<Execute(s)>>_vars
                          /\ At("faulted") => ENABLED <<FaultStops(s)>>_vars
        OBVIOUS
      <3>1. LoopCanGo(s)
        BY DEF CanGoOn
      <3> QED
        BY <3>1 DEF LoopCanGo, Over
    <2>5. <<FaultStops(s)>>_vars => ~ R'
      BY DEF FaultStops, StopApplication
    <2>6. Inv /\ ~ R => phase = "stopping" \/ phase = "stopped"
      BY DEF IInv, TypeOK
    <2>7. Spec => LoopFair(s) /\ [][Next]_vars
      BY DEF Spec
    <2>8. Spec => []Inv
      BY IInvHolds, FInvHolds, PTL
    <2> HIDE DEF Inv, Gone, R, At
    <2>9. Spec /\ []CanGoOn /\ StopEnds /\ <>[]Gone => <>(phase = "stopped")
      BY <2>1, <2>2, <2>3, <2>4, <2>5, <2>6, <2>7, <2>8, PTL DEF LoopFair, StopEnds
    <2> QED
      BY <2>9 DEF Gone
  <1> QED
    BY <1>1 DEF DeadServerEndsClient, Dead
=============================================================================
