------------------------------- MODULE CsClient -------------------------------
(***************************************************************************)
(* CsDemo: the background service ClientService of CsDemo.CsClient in its  *)
(* generic host, the CsDemo.Server it calls, and the two result files.     *)
(*                                                                         *)
(* The client process may be stopped (Ctrl-C), killed and started again;   *)
(* the server process too.  The host's 30 seconds of shutdown time are     *)
(* longer than the loop's delays (11 seconds), so they run out only while  *)
(* a call is in flight.  The client's own pictures and texts fit each      *)
(* other: SkiaDemo draws them unless it is short of memory; ImageSharp may *)
(* answer Code -1.  A file is its blocks, each with the picture it was     *)
(* written for; one write is not torn.                                     *)
(***************************************************************************)
EXTENDS Naturals, Sequences

CONSTANTS
    Pictures,   \* Resources.Picture1 and Picture2
    Blocks,     \* [kind -> [picture -> blocks of the answer]]
    MaxRuns     \* bound: starts of the client process

Kinds == {"skia", "sharp"}

ASSUME BlocksAssumption == Blocks \in [Kinds -> [Pictures -> Nat \ {0}]]
ASSUME RunsAssumption == MaxRuns \in Nat \ {0}

VARIABLES
    pc,       \* where ExecuteAsync is; "off" while the process is not there
    call,     \* the call ExecuteAsync waits for: "none", "sent" or "accepted"
    once,     \* skiaOnce and imageSharpOnce
    host,     \* the host: "running", "stopping" (stoppingToken cancelled), "stopped"
    channel,  \* the client's channel
    server,   \* "up", "draining" (in ShutdownAsync) or "down"
    files,    \* result.jpg and isresult.jpg
    runs,     \* starts of the client process so far
    saves,    \* history: which run wrote which answer
    late,     \* history: calls sent since the host began to stop, up to MostLate
    refused   \* history: ImageSharp has answered this run with Code -1

vars == <<pc, call, once, host, channel, server, files, runs, saves, late, refused>>
process == <<once, host, channel, runs, late, refused>>

MostLate == 5    \* bound: one more call than a round has

Calling == {"greet", "book", "skia", "sharp"}

Init ==
    /\ pc = "off" /\ call = "none"
    /\ once = [k \in Kinds |-> FALSE]
    /\ host = "stopped" /\ channel = "open"
    /\ server \in {"up", "down"}
    /\ files = [k \in Kinds |-> <<>>]
    /\ runs = 0 /\ saves = <<>> /\ late = 0 /\ refused = FALSE

-----------------------------------------------------------------------------
(* The client process and its host. *)

Start ==
    /\ pc = "off" /\ runs < MaxRuns
    /\ pc' = "loop" /\ call' = "none"
    /\ once' = [k \in Kinds |-> FALSE]
    /\ host' = "running" /\ channel' = "open"
    /\ runs' = runs + 1 /\ late' = 0 /\ refused' = FALSE
    /\ UNCHANGED <<server, files, saves>>

\* The process is gone: nothing of it is left but the files.
Gone ==
    /\ pc' = "off" /\ call' = "none"
    /\ host' = "stopped"
    /\ UNCHANGED <<once, channel, server, files, runs, saves, late, refused>>

Kill == pc # "off" /\ Gone

\* Ctrl-C: the host cancels stoppingToken and waits for ExecuteAsync.
CtrlC ==
    /\ pc # "off" /\ host = "running"
    /\ host' = "stopping"
    /\ UNCHANGED <<pc, call, once, channel, server, files, runs, saves, late, refused>>

\* An exception leaves ExecuteAsync: the host stops itself.
FaultStops ==
    /\ pc = "faulted" /\ host = "running"
    /\ host' = "stopping"
    /\ UNCHANGED <<pc, call, once, channel, server, files, runs, saves, late, refused>>

Exit == host = "stopping" /\ pc \in {"ended", "faulted"} /\ Gone

\* The shutdown time runs out while a call is in flight.
ExitTimeout == host = "stopping" /\ call # "none" /\ Gone

-----------------------------------------------------------------------------
(* ExecuteAsync. *)

Goto(from, to) ==
    /\ pc = from /\ pc' = to
    /\ UNCHANGED <<call, process, server, files, saves>>

\* Mutant: while (true).
LoopForever == host # "stopped" /\ Goto("loop", "delay1")

\* while (!stoppingToken.IsCancellationRequested)
LoopTest == \/ host = "running"  /\ Goto("loop", "delay1")
            \/ host = "stopping" /\ Goto("loop", "closing")

\* The delays do not look at the token.
Delay1  == Goto("delay1", "greet")
Delay10 == Goto("delay10", "loop")

SkipDrawn == \/ once["skia"]  /\ Goto("skia", "sharp")
             \/ once["sharp"] /\ Goto("sharp", "delay10")

CloseChannel ==
    /\ pc = "closing"
    /\ pc' = "ended" /\ channel' = "shut"
    /\ UNCHANGED <<call, once, host, server, files, runs, saves, late, refused>>

Send ==
    /\ pc \in Calling /\ call = "none"
    /\ pc \in Kinds => ~once[pc]
    /\ call' = "sent"
    /\ late' = IF host = "stopping" /\ late < MostLate THEN late + 1 ELSE late
    /\ UNCHANGED <<pc, once, host, channel, server, files, runs, saves, refused>>

\* Mutant: a failed call is caught and tried again next round.
UnreachableCaught ==
    /\ call = "sent" /\ server # "up"
    /\ pc' = "delay10" /\ call' = "none"
    /\ UNCHANGED <<process, server, files, saves>>

\* No try/catch around any call: an RpcException ends ExecuteAsync.
Unreachable ==
    /\ call = "sent" /\ server # "up"
    /\ pc' = "faulted" /\ call' = "none"
    /\ UNCHANGED <<process, server, files, saves>>

\* Greeter.SayHello, then Book.SayHello with a random number of marks.
GreeterReply ==
    /\ pc = "greet" /\ call = "accepted"
    /\ pc' = "book" /\ call' = "none"
    /\ UNCHANGED <<process, server, files, saves>>

BookReply ==
    /\ pc = "book" /\ call = "accepted"
    /\ pc' = "skia" /\ call' = "none"
    /\ UNCHANGED <<process, server, files, saves>>

\* Mutant: FileMode.Append.
Appended(file, p, n) == file \o [b \in 1..n |-> p]

\* FileMode.OpenOrCreate: what is longer than the new content stays.
Overwrite(file, p, n) ==
    [b \in 1..(IF n > Len(file) THEN n ELSE Len(file)) |-> IF b <= n THEN p ELSE file[b]]

Save(kind, p) ==
    /\ files' = [files EXCEPT ![kind] = Overwrite(@, p, Blocks[kind][p])]
    /\ saves' = Append(saves, [run |-> runs, kind |-> kind, picture |-> p])
    /\ UNCHANGED refused

\* Mutant: the flag is not set.
DrawnForgotten(kind, next) ==
    /\ pc = kind /\ call = "accepted"
    /\ pc' = next /\ call' = "none"
    /\ UNCHANGED <<once, host, channel, server, runs, late>>

\* Mutant: one flag for both pictures.
DrawnBoth(kind, next) ==
    /\ pc = kind /\ call = "accepted"
    /\ pc' = next /\ call' = "none"
    /\ once' = [k \in Kinds |-> TRUE]
    /\ UNCHANGED <<host, channel, server, runs, late>>

Drawn(kind, next) ==
    /\ pc = kind /\ call = "accepted"
    /\ pc' = next /\ call' = "none"
    /\ once' = [once EXCEPT ![kind] = TRUE]
    /\ UNCHANGED <<host, channel, server, runs, late>>

DoSkia == \E p \in Pictures : Drawn("skia", "sharp") /\ Save("skia", p)

\* Code -1 writes nothing, and is not asked for again either.
DoImageSharp ==
    /\ Drawn("sharp", "delay10")
    /\ \/ \E p \in Pictures : Save("sharp", p)
       \/ refused' = TRUE /\ UNCHANGED <<files, saves>>

\* SkiaDemo has no memory for the canvas, or the result file cannot be opened:
\* the exception ends ExecuteAsync like that of a call.
DrawingThrows ==
    /\ pc \in Kinds /\ call = "accepted"
    /\ pc' = "faulted" /\ call' = "none"
    /\ UNCHANGED <<process, server, files, saves>>

-----------------------------------------------------------------------------
(* The server process. *)

Accept ==
    /\ call = "sent" /\ server = "up"
    /\ call' = "accepted"
    /\ UNCHANGED <<pc, process, server, files, saves>>

ServerStart ==
    /\ server = "down" /\ server' = "up"
    /\ UNCHANGED <<pc, call, process, files, saves>>

\* ServerService.StopAsync: ShutdownAsync lets the accepted call finish.
ServerStop ==
    /\ server = "up" /\ server' = "draining"
    /\ UNCHANGED <<pc, call, process, files, saves>>

ServerDrained ==
    /\ server = "draining" /\ call # "accepted"
    /\ server' = "down"
    /\ UNCHANGED <<pc, call, process, files, saves>>

ServerKill ==
    /\ server # "down" /\ server' = "down"
    /\ IF call = "accepted"
         THEN pc' = "faulted" /\ call' = "none"
         ELSE UNCHANGED <<pc, call>>
    /\ UNCHANGED <<process, files, saves>>

-----------------------------------------------------------------------------
Replies == GreeterReply \/ BookReply \/ DoSkia \/ DoImageSharp \/ DrawingThrows

Execute == \/ LoopTest \/ Delay1 \/ Delay10 \/ SkipDrawn \/ CloseChannel
           \/ Send \/ Unreachable \/ Replies \/ Accept

Host == FaultStops \/ Exit \/ ExitTimeout

Next == \/ Start \/ Kill \/ CtrlC \/ Host
        \/ Execute
        \/ ServerStart \/ ServerStop \/ ServerDrained \/ ServerKill

\* Delays elapse, a call reaches a server that is up or fails, a handler ends,
\* the host's stop goes on.  Nobody has to start, stop or kill a process.
Spec == Init /\ [][Next]_vars /\ WF_vars(Execute) /\ WF_vars(Host)

-----------------------------------------------------------------------------
(* Properties. *)

\* The type invariant: ClientService's fields and locals, the states of host,
\* channel and server, and the files' blocks.
TypeOK ==
    /\ pc \in Calling \cup {"off", "loop", "delay1", "delay10", "closing", "ended", "faulted"}
    /\ call \in {"none", "sent", "accepted"} /\ (call # "none" => pc \in Calling)
    /\ once \in [Kinds -> BOOLEAN]
    /\ host \in {"running", "stopping", "stopped"}
    /\ channel \in {"open", "shut"}
    /\ server \in {"up", "draining", "down"}
    /\ files \in [Kinds -> Seq(Pictures)]
    /\ runs \in 0..MaxRuns
    /\ saves \in Seq([run : 1..MaxRuns, kind : Kinds, picture : Pictures])
    /\ late \in 0..MostLate
    /\ refused \in BOOLEAN

\* skiaOnce and imageSharpOnce: however often the loop runs, a process writes
\* each file at most once.
SavedOncePerRun ==
    \A i, j \in DOMAIN saves :
      saves[i].run = saves[j].run /\ saves[i].kind = saves[j].kind => i = j

Reaches(i, kind, b) ==
    saves[i].kind = kind /\ Blocks[kind][saves[i].picture] >= b

\* Over all runs a result file is the answer of the last write, followed by
\* what longer answers of earlier runs left behind: OpenOrCreate neither
\* truncates nor shrinks, and no write loses a block of the newest answer.
FileIsLayered ==
    \A k \in Kinds :
      /\ \A i \in DOMAIN saves :
           saves[i].kind = k => Len(files[k]) >= Blocks[k][saves[i].picture]
      /\ \A b \in DOMAIN files[k] :
           \E i \in DOMAIN saves :
             /\ Reaches(i, k, b) /\ saves[i].picture = files[k][b]
             /\ \A j \in DOMAIN saves : j > i => ~Reaches(j, k, b)

\* The channel is shut down once, behind the loop: no call is ever sent on a
\* channel that is shut, on whichever way ExecuteAsync is left.
ShutChannelIsQuiet ==
    channel = "shut" /\ pc # "off" => pc = "ended" /\ call = "none"

\* The token is only looked at between two rounds: a host that begins to stop
\* still sees the calls that are left of the round, and never a fifth one.
OneRoundMore == late <= 4

\* A host that begins to stop is stopped in the end, in whatever call, delay
\* or failure the stop finds the loop.
StopEnds == host = "stopping" ~> host = "stopped"

\* One failed call takes the whole process down: a client cannot outlive a
\* server that stays away.
DeadServerEndsClient == <>[](server # "up") => <>[](pc = "off")

Written(kind) == \E i \in DOMAIN saves : saves[i].run = runs /\ saves[i].kind = kind

\* A process that is not disturbed writes both result files, whatever its
\* flags say: only the one whose picture ImageSharp has refused may be missing.
DrawsOrEnds ==
    pc = "loop" /\ host = "running"
      ~> \/ Written("skia") /\ (Written("sharp") \/ refused)
         \/ host # "running" \/ pc = "faulted"
=============================================================================
