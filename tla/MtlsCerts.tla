------------------------------- MODULE MtlsCerts -------------------------------
(***************************************************************************)
(* godemo2: a server and its clients that require a certificate of each    *)
(* other, and cert/gen.sh, which makes the certificates.                   *)
(*                                                                         *)
(* Both programs read ca-cert.pem, server-cert.pem and server-key.pem, in  *)
(* this order, once, when they start; both present the server's            *)
(* certificate.  The script removes what there is and makes a new CA, a    *)
(* new key and a new certificate.  It does not stop at a step that failed, *)
(* the removal of a file included; it may be killed anywhere, and nothing  *)
(* keeps a program from reading meanwhile.                                 *)
(***************************************************************************)
EXTENDS Naturals

CONSTANTS
    Servers,  \* processes of srvdemo
    Clients,  \* processes of clidemo
    NoOne,    \* no process
    MaxRuns   \* bound: runs of gen.sh

Procs == Servers \cup Clients

ASSUME ProcsAssumption == Servers \cap Clients = {} /\ NoOne \notin Procs
ASSUME RunsAssumption == MaxRuns \in Nat

VARIABLES
    caCert,  \* ca-cert.pem: the run that made it, 0 if absent or unfinished
    cert,    \* server-cert.pem: the runs of its key and of its CA
    key,     \* server-key.pem
    req,     \* server-req.pem: the run of the key it is for
    script,  \* where gen.sh is
    runs,    \* runs of gen.sh so far
    kept,    \* history: the files that an rm could not remove
    at,      \* where each process is
    mem,     \* what it has read: its CA, certificate and key
    port     \* the server that listens

disk == <<caCert, cert, key, req>>
gen == <<disk, script, runs, kept>>
vars == <<gen, at, mem, port>>

None == [key |-> 0, ca |-> 0]
Empty == [ca |-> 0, cert |-> None, key |-> 0]

Init ==
    /\ caCert = 0 /\ cert = None /\ key = 0 /\ req = 0
    /\ script = "idle" /\ runs = 0 /\ kept = {}
    /\ at = [p \in Procs |-> "off"]
    /\ mem = [p \in Procs |-> Empty]
    /\ port = NoOne

-----------------------------------------------------------------------------
(* gen.sh.  Its ca-key.pem is left out: nobody but Sign reads it, and Sign  *)
(* may fail in any state.                                                   *)

Files == {"ca-cert", "cert", "key", "req"}

Step(from, to) ==
    /\ script = from /\ script' = to
    /\ UNCHANGED <<at, mem, port>>

GenStart ==
    /\ runs < MaxRuns /\ runs' = runs + 1
    /\ Step("idle", "rm ca-cert") /\ UNCHANGED <<disk, kept>>

\* rm *.pem, in the order of the names: what cannot be removed stays, and rm
\* goes on with the next one.
Removes(file, old, new, none) ==
    /\ \/ new = none /\ UNCHANGED kept
       \/ old # none /\ new = old /\ kept' = kept \cup {file}
    /\ UNCHANGED runs

\* Mutant: only the CA's files are removed.
RemoveCaOnly ==
    /\ Step("rm ca-cert", "make ca") /\ Removes("ca-cert", caCert, caCert', 0)
    /\ UNCHANGED <<cert, key, req>>

RemoveCa ==
    /\ Step("rm ca-cert", "rm cert") /\ Removes("ca-cert", caCert, caCert', 0)
    /\ UNCHANGED <<cert, key, req>>
RemoveCert ==
    /\ Step("rm cert", "rm key") /\ Removes("cert", cert, cert', None)
    /\ UNCHANGED <<caCert, key, req>>
RemoveKey ==
    /\ Step("rm key", "rm req") /\ Removes("key", key, key', 0)
    /\ UNCHANGED <<caCert, cert, req>>
RemoveReq ==
    /\ Step("rm req", "make ca") /\ Removes("req", req, req', 0)
    /\ UNCHANGED <<caCert, cert, key>>

\* openssl begins a file, and so empties it, then writes it or fails; the next
\* command is run all the same.
Writes(from, to, old, new, none, made) ==
    /\ \/ Step(from, from) /\ new = none
       \/ Step(from, to) /\ new \in {old} \cup made
    /\ UNCHANGED <<runs, kept>>

MakeCa ==
    /\ Writes("make ca", "make key", caCert, caCert', 0, {runs})
    /\ UNCHANGED <<cert, key, req>>

\* The key, then the request for it.
MakeKey ==
    /\ Writes("make key", "sign", key, key', 0, {runs})
    /\ req' \in IF key' = runs THEN {req, 0, runs} ELSE {req}
    /\ UNCHANGED <<caCert, cert>>

Signed == IF req # 0 /\ caCert # 0 THEN {[key |-> req, ca |-> caCert]} ELSE {}

Sign ==
    /\ Writes("sign", "idle", cert, cert', None, Signed)
    /\ UNCHANGED <<caCert, key, req>>

GenKilled == script # "idle" /\ Step(script, "idle") /\ UNCHANGED <<disk, runs, kept>>

Remove == RemoveCa \/ RemoveCert \/ RemoveKey \/ RemoveReq
Make == MakeCa \/ MakeKey \/ Sign

Script == GenStart \/ Remove \/ Make \/ GenKilled

-----------------------------------------------------------------------------
(* Starting a program: the same three reads in both. *)

Ended == {"off", "answered", "refused", "fatal"}

\* Process p goes on knowing m, or ends.
Goto(p, from, to, m) ==
    /\ at[p] \in from /\ at' = [at EXCEPT ![p] = to]
    /\ mem' = [mem EXCEPT ![p] = IF to \in Ended THEN Empty ELSE m]
    /\ UNCHANGED gen

Start(p) == Goto(p, Ended, "read ca", Empty) /\ UNCHANGED port

\* os.ReadFile and AppendCertsFromPEM
ReadCa(p) ==
    /\ Goto(p, {"read ca"}, IF caCert = 0 THEN "fatal" ELSE "read cert",
            [mem[p] EXCEPT !.ca = caCert])
    /\ UNCHANGED port

\* tls.LoadX509KeyPair: the certificate, then its key, which must fit.
ReadCert(p) ==
    /\ Goto(p, {"read cert"}, IF cert.ca = 0 THEN "fatal" ELSE "read key",
            [mem[p] EXCEPT !.cert = cert])
    /\ UNCHANGED port

ReadKey(p) ==
    /\ Goto(p, {"read key"}, IF key # 0 /\ key = mem[p].cert.key THEN "ready" ELSE "fatal",
            [mem[p] EXCEPT !.key = key])
    /\ UNCHANGED port

Load(p) == Start(p) \/ ReadCa(p) \/ ReadCert(p) \/ ReadKey(p)

-----------------------------------------------------------------------------
(* The server. *)

Listen(s) ==
    IF port = NoOne
      THEN Goto(s, {"ready"}, "serving", mem[s]) /\ port' = s
      ELSE Goto(s, {"ready"}, "fatal", Empty) /\ UNCHANGED port

\* Ctrl+C: the calls it had accepted fail.
Kill(s) ==
    LET hit == {s} \cup {p \in Procs : at[p] = "called"} IN
    /\ at[s] = "serving" /\ port' = NoOne
    /\ at' = [p \in Procs |-> IF p = s THEN "off" ELSE IF p \in hit THEN "fatal" ELSE at[p]]
    /\ mem' = [p \in Procs |-> IF p \in hit THEN Empty ELSE mem[p]]
    /\ UNCHANGED gen

-----------------------------------------------------------------------------
(* The client. *)

\* Mutant: ClientAuth is left at its default.
AcceptedOneSided(c, s) == mem[s].cert.ca = mem[c].ca

\* RootCAs of the client, RequireAndVerifyClientCert with ClientCAs of the
\* server: each wants the other's certificate signed by the CA it has read.
Accepted(c, s) == mem[s].cert.ca = mem[c].ca /\ mem[c].cert.ca = mem[s].ca

Dial(c) ==
    /\ \/ port = NoOne /\ Goto(c, {"ready"}, "fatal", Empty)
       \/ port # NoOne /\ Goto(c, {"ready"}, IF Accepted(c, port) THEN "called" ELSE "refused", mem[c])
    /\ UNCHANGED port

GetName(c) == Goto(c, {"called"}, "answered", Empty) /\ UNCHANGED port

\* Mutant: no time limit on the call.
NoDeadline(c) == FALSE /\ UNCHANGED vars

\* context.WithTimeout of four seconds, then log.Fatal.
Deadline(c) == Goto(c, {"ready", "called"}, "fatal", Empty) /\ UNCHANGED port

-----------------------------------------------------------------------------
Next == \/ Script
        \/ \E p \in Procs : Load(p)
        \/ \E s \in Servers : Listen(s) \/ Kill(s)
        \/ \E c \in Clients : Dial(c) \/ GetName(c) \/ Deadline(c)

\* Only a started client must go on, and only its own clock ends a call: the
\* server may be suspended.
Client(c) == ReadCa(c) \/ ReadCert(c) \/ ReadKey(c) \/ Dial(c) \/ Deadline(c)

Fair(c) == WF_vars(Client(c))

Spec == Init /\ [][Next]_vars /\ \A c \in Clients : Fair(c)

-----------------------------------------------------------------------------
(* Properties. *)

Runs == 0..runs
Pairs == [key : Runs, ca : Runs]

\* The type invariant; one server listens at a time.
TypeOK ==
    /\ caCert \in Runs /\ cert \in Pairs /\ key \in Runs /\ req \in Runs
    /\ script \in {"idle", "rm ca-cert", "rm cert", "rm key", "rm req", "make ca", "make key", "sign"}
    /\ runs \in Nat /\ kept \subseteq Files
    /\ at \in [Procs -> {"off", "read ca", "read cert", "read key", "ready", "serving",
                         "called", "answered", "refused", "fatal"}]
    /\ mem \in [Procs -> [ca : Runs, cert : Pairs, key : Runs]]
    /\ port \in Servers \cup {NoOne}
    /\ \A p \in Procs : at[p] = "serving" <=> port = p

\* A server's certificate and its key have outlived an rm, and with it perhaps
\* the CA that signed the certificate.
PairKept == {"cert", "key"} \subseteq kept

\* Whoever is answered trusts the same CA as the server that answers, and that
\* CA has signed both certificates: a program that read across a regeneration,
\* its CA of one run and its certificate of the next, never talks to anybody,
\* not even to another one caught in the same way.  As long as every rm removes
\* every file, all that the two hold is of one and the same run of gen.sh.
OneRun ==
    [][\A c \in Clients :
         at[c] # "answered" /\ at'[c] = "answered" /\ ~ PairKept =>
           \E n \in 1..runs : \A p \in {c, port} :
             /\ mem[p].ca = n /\ mem[p].cert.ca = n /\ mem[p].key = mem[p].cert.key
             /\ kept = {} => mem[p].key = n]_vars

\* What process p has read is what is on the disk.
Fresh(p) == mem[p] = [ca |-> caCert, cert |-> cert, key |-> key]

\* No set of files that gen.sh leaves behind, whichever of its steps failed and
\* wherever it was killed, can be loaded by both sides and then be refused: a
\* refusal means that one of the two has read files that are gone.  The one
\* way out: an rm removed neither the server's certificate nor its key.
RefusedIsStale ==
    [][\A c \in Clients :
         at[c] = "ready" /\ at'[c] = "refused" => ~ Fresh(c) \/ ~ Fresh(port) \/ PairKept]_vars

\* Every client that was started comes to an end, even when the server that
\* accepted its call never answers.
ClientEnds ==
    \A c \in Clients : at[c] = "read ca" ~> at[c] \in {"answered", "refused", "fatal"}
=============================================================================
