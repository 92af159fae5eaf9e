--------------------------- MODULE JvmServer_proofs ---------------------------
(* What JvmServer promises for every number of calls. *)
EXTENDS JvmServer, TLAPS

(* How the threads, the server and the JVM move together. *)
Together ==
    /\ server = "built" <=> main = "starting"
    /\ main \in {"starting", "started"} => hook = "absent"
    /\ hook \in {"absent", "registered", "begun"} <=> server \in {"built", "serving"}
    /\ main = "returned" => server = "terminated"
    /\ hook \in {"absent", "registered"} <=> jvm = "up" \/ (jvm = "halted" /\ hook = "absent")
    /\ jvm = "halted" => hook \in {"absent", "done"}
    /\ server \in {"built", "terminated"} \/ jvm = "halted" => Running = {}

(* What Java's hook knows when it returns. *)
Drain ==
    /\ hook = "forcing" => drained = "no"
    /\ hook \notin {"forcing", "done"} => drained = "unknown"
    /\ drained = "yes" => server = "terminated"
    /\ HookAwaits => hook # "stopped"
    /\ HookAwaits /\ hook = "done" => drained \in {"yes", "no"}

Loss ==
    HookAwaits =>
      \A c \in Calls :
        Unanswered(c) => drained = "no" \/ (hook = "absent" /\ jvm = "halted")

IInv == TypeOK /\ Together /\ Drain /\ Loss

(* The initial states satisfy the inductive invariant. *)
LEMMA InitIInv == Init => IInv
  BY DEF Init, IInv, TypeOK, Together, Drain, Loss, Running, Unanswered

(* Every step keeps the types. *)
LEMMA TypeStep == TypeOK /\ [Next]_vars => TypeOK'
  <1> SUFFICES ASSUME TypeOK, [Next]_vars PROVE TypeOK'
    OBVIOUS
  <1> USE DEF TypeOK
  <1>1. CASE Start
    BY <1>1 DEF Start
  <1>2. CASE AddShutdownHook
    BY <1>2 DEF AddShutdownHook
  <1>3. CASE AwaitTermination
    BY <1>3 DEF AwaitTermination
  <1>4. CASE Terminate
    BY <1>4 DEF Terminate
  <1>5. CASE Signal
    BY <1>5 DEF Signal, Killed
  <1>6. CASE Halt
    BY <1>6 DEF Halt, Killed
  <1>7. CASE Hook
    BY <1>7 DEF Hook, Shutdown, JavaDrained, JavaShutdownNow, JavaForced, KtPrint
  <1>8. ASSUME NEW c \in Calls, Accept(c) \/ Refuse(c) \/ Answer(c) \/ Cancel(c)
        PROVE  TypeOK'
    BY <1>8 DEF Accept, Refuse, Answer, Cancel, Settle
  <1>9. CASE UNCHANGED vars
    BY <1>9 DEF vars
  <1> QED
    BY <1>1, <1>2, <1>3, <1>4, <1>5, <1>6, <1>7, <1>8, <1>9 DEF Next

(* A process that ends leaves no call running and changes no other. *)
LEMMA KilledFact ==
    ASSUME TypeOK, calls' = Killed
    PROVE  /\ Running' = {}
           /\ \A c \in Calls : calls'[c] = IF calls[c] = "running" THEN "lost" ELSE calls[c]
  BY DEF TypeOK, Killed, Running

(* The JVM runs one program from start to end. *)
LEMMA SameApp == [Next]_vars => HookAwaits' = HookAwaits
  BY DEF vars, Next, Start, AddShutdownHook, AwaitTermination, Terminate, Signal, Halt,
         Hook, Shutdown, JavaDrained, JavaShutdownNow, JavaForced, KtPrint,
         Accept, Refuse, Answer, Cancel, Settle, HookAwaits

(* Every step keeps the threads together. *)
LEMMA TogetherStep == IInv /\ [Next]_vars => (Together /\ Drain)'
  <1> SUFFICES ASSUME IInv, [Next]_vars PROVE (Together /\ Drain)'
    OBVIOUS
  <1>0. HookAwaits' = HookAwaits
    BY SameApp
  <1> USE <1>0 DEF IInv, Together, Drain
  <1>1. CASE Start
    BY <1>1 DEF Start, Running
  <1>2. CASE AddShutdownHook
    BY <1>2 DEF AddShutdownHook, Running
  <1>3. CASE AwaitTermination
    BY <1>3 DEF AwaitTermination, Running
  <1>4. CASE Terminate
    BY <1>4 DEF Terminate, Running
  <1>5. CASE Signal
    BY <1>5, KilledFact DEF Signal, Running
  <1>6. CASE Halt
    BY <1>6, KilledFact DEF Halt, Running
  <1>7. CASE Shutdown
    BY <1>7 DEF Shutdown, Running
  <1>8. CASE JavaDrained \/ JavaShutdownNow \/ JavaForced \/ KtPrint
    BY <1>8 DEF JavaDrained, JavaShutdownNow, JavaForced, KtPrint, Running
  <1>9. ASSUME NEW c \in Calls, Accept(c)
        PROVE  (Together /\ Drain)'
    BY <1>9 DEF Accept, Settle, Running
  <1>10. ASSUME NEW c \in Calls, NEW from, NEW to, to # "running", Settle(c, from, to)
         PROVE  (Together /\ Drain)'
    <2>1. Running' \subseteq Running
      BY <1>10 DEF Settle, Running, TypeOK
    <2> QED
      BY <1>10, <2>1 DEF Settle
  <1>11. CASE UNCHANGED vars
    BY <1>11 DEF vars, Running
  <1> QED
    BY <1>1, <1>2, <1>3, <1>4, <1>5, <1>6, <1>7, <1>8, <1>9, <1>10, <1>11
    DEF Next, Hook, Refuse, Answer, Cancel

(* Every step keeps the account of the unanswered calls. *)
LEMMA LossStep == IInv /\ [Next]_vars => Loss'
  <1> SUFFICES ASSUME IInv, [Next]_vars, HookAwaits', NEW c \in Calls, Unanswered(c)'
               PROVE  (drained = "no" \/ (hook = "absent" /\ jvm = "halted"))'
    BY DEF Loss
  <1>0. HookAwaits
    BY SameApp
  <1> USE <1>0 DEF IInv, Unanswered
  <1>1. CASE Start \/ AddShutdownHook \/ AwaitTermination \/ Terminate
    BY <1>1 DEF Start, AddShutdownHook, AwaitTermination, Terminate, Loss, Together
  <1>2. CASE Signal
    BY <1>2, KilledFact DEF Signal, Loss, Together
  <1>3. CASE Halt
    <2>1. drained \in {"yes", "no"}
      BY <1>3 DEF Halt, Drain
    <2>2. drained = "yes" => Running = {}
      BY DEF Drain, Together
    <2>3. calls'[c] = IF calls[c] = "running" THEN "lost" ELSE calls[c]
      BY <1>3, KilledFact DEF Halt
    <2> QED
      BY <1>3, <2>1, <2>2, <2>3 DEF Halt, Loss, Running
  <1>4. CASE Hook
    BY <1>4 DEF Hook, Shutdown, JavaDrained, JavaShutdownNow, JavaForced, KtPrint,
                Loss, Together, Drain
  <1>5. ASSUME NEW d \in Calls, Accept(d) \/ Refuse(d) \/ Answer(d) \/ Cancel(d)
        PROVE  (drained = "no" \/ (hook = "absent" /\ jvm = "halted"))'
    BY <1>5 DEF Accept, Refuse, Answer, Cancel, Settle, Loss, Drain, TypeOK
  <1>6. CASE UNCHANGED vars
    BY <1>6 DEF vars, Loss
  <1> QED
    BY <1>1, <1>2, <1>3, <1>4, <1>5, <1>6 DEF Next

-----------------------------------------------------------------------------
(* The inductive invariant holds in every state of every behaviour. *)
THEOREM IInvHolds == Spec => []IInv
  <1>1. IInv /\ [Next]_vars => IInv'
    BY TypeStep, TogetherStep, LossStep DEF IInv
  <1> QED
    BY InitIInv, <1>1, PTL DEF Spec

(* The threads and the server keep to their states. *)
THEOREM TypeCorrect == Spec => []TypeOK
  BY IInvHolds, PTL DEF IInv

(* With Java's hook an accepted call is lost only after the 30 seconds, or   *)
(* before there was a hook.                                                  *)
THEOREM JavaGrace == Spec => []LossNeedsGrace
  <1>1. IInv => LossNeedsGrace
    BY DEF IInv, Loss, LossNeedsGrace
  <1> QED
    BY <1>1, IInvHolds, PTL

(* A halted JVM and a terminated server leave no caller waiting. *)
THEOREM NobodyWaits == Spec => []NobodyLeftWaiting
  <1>1. IInv => NobodyLeftWaiting
    BY DEF IInv, Together, NobodyLeftWaiting
  <1> QED
    BY <1>1, IInvHolds, PTL

-----------------------------------------------------------------------------
(* The refinement of ServerLifecycle. *)

(* The outcome the callers see of a call in a given state. *)
LEMMA OutcomeFact ==
    ASSUME TypeOK, NEW c \in Calls
    PROVE  /\ Outcome[c] = "pending" <=> calls[c] = "running"
           /\ Outcome[c] = "none" <=> calls[c] = "none"
  BY DEF Outcome, TypeOK

(* A step that settles one call is the abstract step that settles it. *)
LEMMA SettleFact ==
    ASSUME TypeOK, NEW c \in Calls,
           NEW from \in {"none", "running"},
           NEW to \in {"running", "answered", "refused", "cancelled", "lost"},
           Settle(c, from, to)
    PROVE  Lifecycle!Settle(c, IF from = "running" THEN "pending" ELSE "none",
                            CASE to = "running" -> "pending"
                              [] to = "cancelled" -> "lost"
                              [] OTHER -> to)
  <1> DEFINE new == CASE to = "running" -> "pending"
                      [] to = "cancelled" -> "lost"
                      [] OTHER -> to
  <1>1. UNCHANGED <<Phase, GaveUp>>
    BY DEF Settle, Phase, GaveUp
  <1>2. Outcome[c] = IF from = "running" THEN "pending" ELSE "none"
    BY DEF Settle, Outcome
  <1>3. Outcome' = [Outcome EXCEPT ![c] = new]
    BY DEF Settle, Outcome, TypeOK
  <1> QED
    BY <1>1, <1>2, <1>3 DEF Lifecycle!Settle

(* The calls pending when the JVM halts are the abstract server's losses. *)
LEMMA EndedFact ==
    ASSUME TypeOK, calls' = Killed
    PROVE  Outcome' = Lifecycle!Ended
  <1>1. \A c \in Calls : Outcome'[c] = Lifecycle!Ended[c]
    BY OutcomeFact, KilledFact
    DEF Lifecycle!Ended, Lifecycle!Pending, Outcome, TypeOK
  <1> QED
    BY <1>1 DEF Outcome, Lifecycle!Ended

(* The servers start as the abstract one does. *)
LEMMA InitRefines == Init => Lifecycle!Init
  BY DEF Init, Lifecycle!Init, Phase, Outcome, GaveUp

(* Every step of the servers is a step of the abstract one or none. *)
LEMMA NextRefines ==
    IInv /\ IInv' /\ [Next]_vars => [Lifecycle!Next]_(Lifecycle!vars)
  <1> SUFFICES ASSUME IInv, IInv', [Next]_vars
               PROVE  Lifecycle!Next \/ UNCHANGED <<Phase, Outcome, GaveUp>>
    BY DEF Lifecycle!vars
  <1>0. TypeOK /\ Together
    BY DEF IInv
  <1> USE DEF Lifecycle!Next
  <1>1. CASE Start
    <2>1. Lifecycle!Open
      BY <1>0, <1>1 DEF Start, Together, Lifecycle!Open, Phase, Outcome, GaveUp
    <2> QED
      BY <2>1
  <1>2. CASE AddShutdownHook \/ AwaitTermination \/ Terminate
    <2>1. UNCHANGED <<Phase, Outcome, GaveUp>>
      BY <1>0, <1>2
      DEF AddShutdownHook, AwaitTermination, Terminate, Together, Phase, Outcome, GaveUp
    <2> QED
      BY <2>1
  <1>3. CASE Signal
    <2>1. CASE hook = "registered"
      BY <1>3, <2>1 DEF Signal, Phase, Outcome, GaveUp
    <2>2. CASE hook # "registered"
      <3>1. Outcome' = Lifecycle!Ended
        BY <1>0, <1>3, <2>2, EndedFact DEF Signal
      <3>2. Phase \in {"opening", "open"} /\ Phase' = "gone" /\ UNCHANGED GaveUp
        BY <1>0, <1>3, <2>2 DEF Signal, Together, TypeOK, Phase, GaveUp
      <3> QED
        BY <3>1, <3>2 DEF Lifecycle!Kill
    <2> QED
      BY <2>1, <2>2
  <1>4. CASE Halt
    <2>1. Outcome' = Lifecycle!Ended
      BY <1>0, <1>4, EndedFact DEF Halt
    <2>2. Phase = "closing" /\ Phase' = "gone" /\ GaveUp /\ UNCHANGED GaveUp
      BY <1>0, <1>4 DEF Halt, Together, TypeOK, Phase, GaveUp
    <2> QED
      BY <2>1, <2>2 DEF Lifecycle!Go
  <1>5. CASE Shutdown
    <2>1. Phase = "open" /\ Phase' = "closing"
      BY <1>0, <1>5 DEF Shutdown, Together, TypeOK, Phase
    <2>2. UNCHANGED <<Outcome, GaveUp>>
      BY <1>5 DEF Shutdown, Outcome, GaveUp
    <2> QED
      BY <2>1, <2>2 DEF Lifecycle!Close
  <1>6. CASE JavaDrained \/ JavaShutdownNow \/ KtPrint
    <2>1. Phase = "closing" /\ UNCHANGED Phase
      BY <1>0, <1>6 DEF JavaDrained, JavaShutdownNow, KtPrint, Together, TypeOK, Phase
    <2>2. ~GaveUp /\ GaveUp' /\ UNCHANGED Outcome
      BY <1>6 DEF JavaDrained, JavaShutdownNow, KtPrint, Outcome, GaveUp
    <2> QED
      BY <2>1, <2>2 DEF Lifecycle!GiveUp, GaveUp
  <1>7. CASE JavaForced
    BY <1>7 DEF JavaForced, Phase, Outcome, GaveUp
  <1>8. ASSUME NEW c \in Calls, Accept(c)
        PROVE  Lifecycle!Accept(c)
    <2>1. Phase = "open"
      BY <1>8 DEF Accept, Phase
    <2>2. Lifecycle!Settle(c, "none", "pending")
      BY <1>0, <1>8, SettleFact DEF Accept
    <2> QED
      BY <2>1, <2>2 DEF Lifecycle!Accept
  <1>9. ASSUME NEW c \in Calls, Refuse(c)
        PROVE  Lifecycle!Refuse(c)
    <2>1. Phase # "open"
      BY <1>9 DEF Refuse, Phase
    <2>2. Lifecycle!Settle(c, "none", "refused")
      BY <1>0, <1>9, SettleFact DEF Refuse
    <2> QED
      BY <2>1, <2>2 DEF Lifecycle!Refuse
  <1>10. ASSUME NEW c \in Calls, Answer(c)
         PROVE  Lifecycle!Answer(c)
    <2>0. server # "built"
      <3>1. calls[c] = "running"
        BY <1>10 DEF Answer, Settle
      <3> QED
        BY <3>1 DEF IInv, Together, Running
    <2>1. Phase \in {"open", "closing"}
      BY <1>0, <1>10, <2>0 DEF Answer, Phase, TypeOK
    <2>2. Lifecycle!Settle(c, "pending", "answered")
      BY <1>0, <1>10, SettleFact DEF Answer
    <2> QED
      BY <2>1, <2>2 DEF Lifecycle!Answer
  <1>11. ASSUME NEW c \in Calls, Cancel(c)
         PROVE  Lifecycle!Lose(c)
    <2>0. hook \in {"forcing", "done"}
      BY <1>11 DEF Cancel, IInv, Drain
    <2>1. Phase = "closing" /\ GaveUp
      BY <1>0, <1>11, <2>0 DEF Cancel, Together, TypeOK, Phase, GaveUp
    <2>2. Lifecycle!Settle(c, "pending", "lost")
      BY <1>0, <1>11, SettleFact DEF Cancel
    <2> QED
      BY <2>1, <2>2 DEF Lifecycle!Lose
  <1>12. CASE UNCHANGED vars
    BY <1>12 DEF vars, Phase, Outcome, GaveUp
  <1> QED
    BY <1>1, <1>2, <1>3, <1>4, <1>5, <1>6, <1>7, <1>8, <1>9, <1>10, <1>11, <1>12
    DEF Next, Hook

(* Both servers implement ServerLifecycle. *)
THEOREM Refinement == Spec => LifecycleSpec
  BY InitRefines, NextRefines, IInvHolds, PTL DEF Spec, LifecycleSpec, Lifecycle!Spec

-----------------------------------------------------------------------------
(* Liveness.  The provers know nothing of ENABLED, so the theorem takes as   *)
(* hypothesis what TLC finds in every state of the run: the hook and the     *)
(* halt can step wherever their guards say so.                               *)
HookMoves == {"begun", "draining", "stopped", "forcing"}

ExitCanStep ==
    /\ hook \in HookMoves => ENABLED <<Hook>>_vars
    /\ jvm = "exiting" /\ hook = "done" => ENABLED <<Halt>>_vars

(* Where the exit is, ordered by what the hook has left to do. *)
At(h) == jvm = "exiting" /\ hook \in h

(* A JVM that is exiting is somewhere in its hook. *)
LEMMA ExitingIsInHook == IInv /\ jvm = "exiting" => At(HookMoves) \/ At({"done"})
  BY DEF IInv, TypeOK, Together, At, HookMoves

(* Only the hook moves the hook, and only Halt ends the exit. *)
LEMMA OnlyHookMoves ==
    ASSUME [Next]_vars, jvm = "exiting"
    PROVE  \/ UNCHANGED <<jvm, hook>>
           \/ Hook /\ jvm' = "exiting"
           \/ hook = "done" /\ jvm' = "halted"
  BY DEF Next, vars, Start, AddShutdownHook, AwaitTermination, Terminate, Signal, Halt,
         Hook, Shutdown, JavaDrained, JavaShutdownNow, JavaForced, KtPrint,
         Accept, Refuse, Answer, Cancel, Settle

(* Each step of the hook leaves it less to do. *)
LEMMA HookGoesOn ==
    ASSUME Hook
    PROVE  /\ hook = "begun" => hook' \in {"draining", "stopped"}
           /\ hook \in {"draining", "stopped"} => hook' \in {"forcing", "done"}
           /\ hook = "forcing" => hook' = "done"
           /\ hook \in HookMoves
  BY DEF Hook, Shutdown, JavaDrained, JavaShutdownNow, JavaForced, KtPrint, HookMoves

(* Both hooks end: an exiting JVM halts, for every number of calls and with  *)
(* calls that never finish.                                                  *)
THEOREM ExitEnds == Spec /\ []ExitCanStep => ExitHalts
  <1> DEFINE Waits == At({"draining", "stopped"})
             Gone  == jvm = "halted"
  <1>1. At({"begun"}) /\ [Next]_vars => At({"begun"})' \/ Waits'
    BY OnlyHookMoves, HookGoesOn DEF At
  <1>2. At({"begun"}) /\ <<Hook>>_vars /\ [Next]_vars => Waits'
    BY OnlyHookMoves, HookGoesOn DEF At
  <1>3. Waits /\ [Next]_vars => Waits' \/ At({"forcing"})' \/ At({"done"})'
    BY OnlyHookMoves, HookGoesOn DEF At
  <1>4. Waits /\ <<Hook>>_vars /\ [Next]_vars => At({"forcing"})' \/ At({"done"})'
    BY OnlyHookMoves, HookGoesOn DEF At
  <1>5. At({"forcing"}) /\ [Next]_vars => At({"forcing"})' \/ At({"done"})'
    BY OnlyHookMoves, HookGoesOn DEF At
  <1>6. At({"forcing"}) /\ <<Hook>>_vars /\ [Next]_vars => At({"done"})'
    BY OnlyHookMoves, HookGoesOn DEF At
  <1>7. At({"done"}) /\ [Next]_vars => At({"done"})' \/ Gone'
    BY OnlyHookMoves, HookGoesOn DEF At, HookMoves
  <1>8. At({"done"}) /\ <<Halt>>_vars => Gone'
    BY DEF Halt
  <1>9. ExitCanStep =>
          /\ At({"begun"}) \/ Waits \/ At({"forcing"}) => ENABLED <<Hook>>_vars
          /\ At({"done"}) => ENABLED <<Halt>>_vars
    BY DEF ExitCanStep, At, HookMoves
  <1>10. IInv /\ jvm = "exiting" => At({"begun"}) \/ Waits \/ At({"forcing"}) \/ At({"done"})
    BY ExitingIsInHook DEF At, HookMoves
  <1> QED
    BY <1>1, <1>2, <1>3, <1>4, <1>5, <1>6, <1>7, <1>8, <1>9, <1>10, IInvHolds, PTL
    DEF Spec, Fairness, ExitHalts
=============================================================================
