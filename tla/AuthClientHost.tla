---------------------------- MODULE AuthClientHost ----------------------------
(***************************************************************************)
(* AuthDemo.Client: background services in one generic host (.NET 7), each *)
(* a loop that waits, makes the calls of a round and tests its token.      *)
(*                                                                         *)
(* The loops over http and https catch whatever a call throws; the tester  *)
(* does not, and its exception stops the host.  The host stops its         *)
(* services one after the other in the reverse order of registration: it   *)
(* cancels the token of one, waits for that one's loop, or until the       *)
(* shutdown time of the whole stop is over, and turns to the next.  No     *)
(* call has a deadline, no delay looks at its token.                       *)
(***************************************************************************)
EXTENDS Naturals, Sequences

CONSTANTS
    N,         \* number of hosted services, in the order of registration
    Servers,   \* the servers that are called
    Round,     \* [service -> the servers called in a round, in order]
    Catches,   \* services whose round stands in a try/catch
    Refuses    \* <<service, call of its round>>: answered with an error at times

Loops == 1..N

ASSUME NAssumption == N \in Nat \ {0}
ASSUME RoundAssumption == Round \in [Loops -> Seq(Servers) \ {<<>>}]
ASSUME CatchesAssumption == Catches \subseteq Loops /\ Refuses \subseteq Loops \X Nat

VARIABLES
    at,        \* where each loop is
    step,      \* the call of the round it is at
    server,    \* "up", "down" or "stuck" (accepts and does not answer)
    phase,     \* the host: "running", "stopping" or "stopped"
    stopping,  \* the service whose StopAsync the host awaits, N + 1 before
    token,     \* services whose stoppingToken is cancelled
    clock      \* of the stop: "fast", "slow" or "expired"

vars == <<at, step, server, phase, stopping, token, clock>>
host == <<phase, stopping, token, clock>>

Init ==
    /\ at = [s \in Loops |-> "test"]
    /\ step = [s \in Loops |-> 1]
    /\ server \in [Servers -> {"up", "down"}]
    /\ phase = "running" /\ stopping = N + 1
    /\ token = {} /\ clock = "fast"

Target(s) == Round[s][step[s]]
Over(s) == at[s] \in {"ended", "faulted"}
Stuck == {v \in Servers : server[v] = "stuck"}

-----------------------------------------------------------------------------
(* ExecuteAsync of one service. *)

Goto(s, from, to) ==
    /\ phase # "stopped"
    /\ at[s] = from /\ at' = [at EXCEPT ![s] = to]
    /\ UNCHANGED <<server, host>>

\* Mutant: while (true).
LoopForever(s) == Goto(s, "test", "delay") /\ UNCHANGED step

\* while (!stoppingToken.IsCancellationRequested)
LoopTest(s) ==
    /\ Goto(s, "test", IF s \in token THEN "ended" ELSE "delay")
    /\ UNCHANGED step

Delay(s) == Goto(s, "delay", "ready") /\ step' = [step EXCEPT ![s] = 1]

Send(s) ==
    /\ Goto(s, "ready", IF server[Target(s)] = "down" THEN "failed" ELSE "sent")
    /\ UNCHANGED step

Answered(s) ==
    /\ server[Target(s)] = "up"
    /\ \/ /\ step[s] < Len(Round[s])
          /\ Goto(s, "sent", "ready") /\ step' = [step EXCEPT ![s] = @ + 1]
       \/ /\ step[s] = Len(Round[s])
          /\ Goto(s, "sent", "test") /\ UNCHANGED step

\* An error status: CertsAuthService answers 403 to one of two requests that
\* collide at ccc.pfx.
Refused(s) ==
    /\ server[Target(s)] = "up" /\ <<s, step[s]>> \in Refuses
    /\ Goto(s, "sent", "failed") /\ UNCHANGED step

\* Mutant: the exception is caught outside the loop.
CaughtOutside(s) == s \in Catches /\ Goto(s, "failed", "ended") /\ UNCHANGED step

\* catch (Exception): logged, and on with the next round.
Caught(s) == s \in Catches /\ Goto(s, "failed", "test") /\ UNCHANGED step

\* Mutant: the tester catches as well.
FaultCaught(s) == s \notin Catches /\ Goto(s, "failed", "test") /\ UNCHANGED step

Fault(s) == s \notin Catches /\ Goto(s, "failed", "faulted") /\ UNCHANGED step

Execute(s) == \/ LoopTest(s) \/ Delay(s) \/ Send(s) \/ Answered(s)
              \/ Refused(s) \/ Caught(s) \/ Fault(s)

-----------------------------------------------------------------------------
(* The host. *)

StopApplication ==
    /\ phase = "running" /\ phase' = "stopping"
    /\ clock' = IF Stuck = {} THEN "fast" ELSE "slow"
    /\ UNCHANGED <<at, step, server, stopping, token>>

CtrlC == StopApplication

\* BackgroundServiceExceptionBehavior.StopHost.
FaultStops(s) == at[s] = "faulted" /\ StopApplication

\* Mutant: the next StopAsync does not wait for the one before.
StopNextAtOnce ==
    /\ phase = "stopping" /\ stopping > 1
    /\ stopping' = stopping - 1
    /\ token' = token \cup {stopping - 1}
    /\ UNCHANGED <<at, step, server, phase, clock>>

\* StopAsync of the next service: cancel its token, then await its loop.
StopNext ==
    /\ phase = "stopping" /\ stopping > 1
    /\ stopping <= N => Over(stopping) \/ clock = "expired"
    /\ stopping' = stopping - 1
    /\ token' = token \cup {stopping - 1}
    /\ UNCHANGED <<at, step, server, phase, clock>>

\* The shutdown time is longer than all the delays together (9 of 30 seconds):
\* it runs out only on calls that a stuck server holds.
Expire ==
    /\ phase = "stopping" /\ clock = "slow" /\ clock' = "expired"
    /\ UNCHANGED <<at, step, server, phase, stopping, token>>

\* Mutant: a stop that has run out of time skips the remaining services.
StoppedEarly ==
    /\ phase = "stopping" /\ (clock = "expired" \/ (stopping = 1 /\ Over(1)))
    /\ phase' = "stopped"
    /\ UNCHANGED <<at, step, server, stopping, token, clock>>

\* Whatever still runs ends with the process.
Stopped ==
    /\ phase = "stopping" /\ stopping = 1 /\ (Over(1) \/ clock = "expired")
    /\ phase' = "stopped"
    /\ UNCHANGED <<at, step, server, stopping, token, clock>>

-----------------------------------------------------------------------------
(* The servers. *)

Change(v, from, to) ==
    /\ server[v] \in from /\ server' = [server EXCEPT ![v] = to]
    /\ UNCHANGED <<step, phase, stopping, token>>

ServerUp(v) == Change(v, {"down", "stuck"}, "up") /\ UNCHANGED <<at, clock>>

ServerStuck(v) ==
    /\ Change(v, {"up"}, "stuck") /\ UNCHANGED at
    /\ clock' = IF phase = "stopping" /\ clock = "fast" THEN "slow" ELSE clock

\* The calls it had accepted fail.
ServerDown(v) ==
    /\ Change(v, {"up", "stuck"}, "down") /\ UNCHANGED clock
    /\ at' = [s \in Loops |-> IF at[s] = "sent" /\ Target(s) = v THEN "failed" ELSE at[s]]

-----------------------------------------------------------------------------
Next == \/ \E s \in Loops : Execute(s) \/ FaultStops(s)
        \/ CtrlC \/ StopNext \/ Expire \/ Stopped
        \/ \E v \in Servers : ServerUp(v) \/ ServerStuck(v) \/ ServerDown(v)

\* Delays elapse, a server that is up answers, a fault is seen by the host,
\* the stop goes on and its time runs.  Servers and users do as they like.
LoopFair(s) == WF_vars(Execute(s)) /\ WF_vars(FaultStops(s))
StopFair == WF_vars(StopNext) /\ WF_vars(Expire) /\ WF_vars(Stopped)

Spec == Init /\ [][Next]_vars /\ (\A s \in Loops : LoopFair(s)) /\ StopFair

-----------------------------------------------------------------------------
(* Properties. *)

\* The type invariant; a loop is at a call of its round.
TypeOK ==
    /\ at \in [Loops -> {"test", "delay", "ready", "sent", "failed", "ended", "faulted"}]
    /\ step \in [Loops -> Nat] /\ \A s \in Loops : step[s] \in 1..Len(Round[s])
    /\ server \in [Servers -> {"up", "down", "stuck"}]
    /\ phase \in {"running", "stopping", "stopped"}
    /\ stopping \in 1..(N + 1)
    /\ token \subseteq Loops
    /\ clock \in {"fast", "slow", "expired"}

\* Services stop in reverse order and one by one: a token is cancelled only
\* when every later service's loop is over or the shutdown time has run out.
\* Until then the earlier loops go on calling.
ReverseOrder ==
    \A s \in token : \A q \in Loops : q > s => q \in token /\ (Over(q) \/ clock = "expired")

\* A loop ends only by its own token or its own fault, so one service cannot
\* take another's loop down but through the host.
OwnEnd ==
    \A s \in Loops : /\ at[s] = "ended" => s \in token
                     /\ at[s] = "faulted" => s \notin Catches

\* Also a stop that ran out of time has cancelled every token; one that did
\* not, because no server was stuck meanwhile, leaves no loop behind.
NobodyForgotten ==
    phase = "stopped" => token = Loops /\ (clock = "expired" \/ \A s \in Loops : Over(s))

\* A stop ends: by the loops themselves while every server answers, by the
\* shutdown time when one holds a call in flight for good.
StopEnds == phase = "stopping" ~> phase = "stopped"

\* The loops over http and https outlive every failure of the server: as long
\* as no server hangs for good and nobody stops the host they go round.
ErrorsSurvived ==
    \A s \in Catches :
      (<>[](\A v \in Servers : server[v] # "stuck"))
        => []<>(phase # "running" \/ at[s] = "delay")

\* An AuthDemo.Server that stays away ends the whole client, the two loops
\* that have nothing to do with it included.
DeadServerEndsClient ==
    \A s \in Loops \ Catches :
      (<>[](\A i \in DOMAIN Round[s] : server[Round[s][i]] = "down"))
        => <>(phase = "stopped")
=============================================================================
