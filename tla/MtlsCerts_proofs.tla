---------------------------- MODULE MtlsCerts_proofs ----------------------------
(***************************************************************************)
(* Proofs about MtlsCerts for any number of servers, clients and runs.     *)
(*                                                                         *)
(* Certificates of later runs carry greater numbers.  A program reads its  *)
(* CA before its certificate, so the CA it holds is never the newer one,   *)
(* unless an rm left the certificate in place; and if it could also load   *)
(* the key, the key was left too.  The client's CA has signed the server's *)
(* certificate and the server's CA the client's: client CA <= client       *)
(* certificate = server CA <= server certificate = client CA, and all four *)
(* are of one run.                                                         *)
(***************************************************************************)
EXTENDS MtlsCerts, TLAPS

\* Where the script is when files that can be removed are gone.
NoCert == {"rm key", "rm req", "make ca", "make key", "sign"}
NoKey == {"rm req", "make ca", "make key"}

\* A certificate, or a key, on the disk that is older than CA a was kept.
CertNotOlder(a) == cert.ca # 0 /\ cert.ca < a => "cert" \in kept /\ cert.key < a
KeyNotOlder(a) == key # 0 /\ key < a => "key" \in kept

\* The files on the disk, wherever the script may be.
DiskInv ==
    /\ cert.ca # 0 /\ caCert # 0 => cert.ca <= caCert
    /\ CertNotOlder(caCert) /\ KeyNotOlder(caCert)
    /\ script # "idle" => runs # 0
    /\ script # "idle" /\ cert.ca # 0 => cert.key < runs
    /\ script \in NoCert /\ cert.ca # 0 => "cert" \in kept
    /\ script \in NoKey /\ key # 0 => "key" \in kept

\* They belong together as long as every rm has removed its file.
CleanInv ==
    kept = {} =>
      /\ cert.key = cert.ca
      /\ script \in {"rm cert", "rm key", "rm req", "make ca"} => caCert = 0
      /\ script \in {"make ca", "make key"} => req = 0
      /\ script \in {"make key", "sign"} => caCert \in {0, runs}
      /\ script = "sign" => req \in {0, runs}

\* What a process has read so far, and in which order it was made.
MemOf(p) ==
    /\ caCert # 0 => mem[p].ca <= caCert
    /\ CertNotOlder(mem[p].ca) /\ KeyNotOlder(mem[p].ca)
    /\ at[p] \in {"read cert", "read key", "ready", "serving", "called"} => mem[p].ca # 0
    /\ at[p] \in {"read key", "ready", "serving", "called"} => mem[p].cert.ca # 0
    /\ at[p] = "read key" /\ mem[p].cert.ca < mem[p].ca => "cert" \in kept /\ mem[p].cert.key < mem[p].ca
    /\ at[p] \in {"ready", "serving", "called"} =>
         /\ mem[p].key = mem[p].cert.key
         /\ mem[p].cert.ca < mem[p].ca => PairKept
    /\ kept = {} => mem[p].cert.key = mem[p].cert.ca

MemInv == \A p \in Procs : MemOf(p)

\* A call that is under way is one that both sides have let in.
CallInv ==
    \A c \in Clients : at[c] = "called" => port \in Servers /\ Accepted(c, port)

IInv == TypeOK /\ DiskInv /\ CleanInv /\ MemInv /\ CallInv

-----------------------------------------------------------------------------
USE DEF disk, gen, vars, Procs, Pairs, Runs

Places == {"off", "read ca", "read cert", "read key", "ready", "serving",
           "called", "answered", "refused", "fatal"}
Mem == [ca : Runs, cert : Pairs, key : Runs]

\* Nothing is on the disk or in memory at first.
LEMMA InitHolds == Init => IInv
  <1> SUFFICES ASSUME Init
               PROVE  IInv
    OBVIOUS
  <1> USE DEF Init, None, Empty
  <1>1. 0 \in Runs /\ None \in Pairs /\ Empty \in Mem
    BY DEF Mem
  <1>2. TypeOK
    BY <1>1, ProcsAssumption DEF TypeOK, Mem
  <1>3. DiskInv /\ CleanInv /\ MemInv /\ CallInv
    BY DEF DiskInv, CleanInv, MemInv, MemOf, CertNotOlder, KeyNotOlder, CallInv
  <1> QED
    BY <1>2, <1>3 DEF IInv

\* The runs recorded are natural numbers.
LEMMA Numbers ==
  ASSUME TypeOK
  PROVE  /\ runs \in Nat /\ 0..runs \subseteq Nat
         /\ caCert \in 0..runs /\ key \in 0..runs /\ req \in 0..runs
         /\ cert \in [key : 0..runs, ca : 0..runs] /\ cert.ca \in 0..runs /\ cert.key \in 0..runs
         /\ \A p \in Procs : /\ mem[p].ca \in 0..runs /\ mem[p].cert.ca \in 0..runs
                             /\ mem[p].cert.key \in 0..runs /\ mem[p].key \in 0..runs
  <1>1. runs \in Nat
    BY DEF TypeOK
  <1>2. 0..runs \subseteq Nat
    BY <1>1
  <1> QED
    BY <1>1, <1>2 DEF TypeOK

\* Numbers up to runs stay numbers up to runs.
LEMMA RunsGrow ==
  ASSUME TypeOK, runs' \in Nat, runs <= runs'
  PROVE  /\ 0..runs \subseteq 0..runs' /\ Pairs \subseteq Pairs'
         /\ mem \in [Procs -> [ca : Runs', cert : Pairs', key : Runs']]
  <1>0. runs \in Nat
    BY DEF TypeOK
  <1>1. 0..runs \subseteq 0..runs'
    BY <1>0
  <1>2. [key : 0..runs, ca : 0..runs] \subseteq [key : 0..runs', ca : 0..runs']
    BY <1>1
  <1>3. [ca : 0..runs, cert : [key : 0..runs, ca : 0..runs], key : 0..runs]
          \subseteq [ca : 0..runs', cert : [key : 0..runs', ca : 0..runs'], key : 0..runs']
    BY <1>1, <1>2
  <1> QED
    BY <1>1, <1>2, <1>3 DEF TypeOK

\* What one step of the script does to the four files and to its place.
Stays(file) == kept \subseteq kept' /\ file \in kept'

RemoveStep ==
    \/ /\ script = "rm ca-cert" /\ script' = "rm cert"
       /\ (caCert' = 0 /\ kept' = kept) \/ (caCert' = caCert /\ Stays("ca-cert"))
       /\ cert' = cert /\ key' = key /\ req' = req
    \/ /\ script = "rm cert" /\ script' = "rm key"
       /\ (cert' = None /\ kept' = kept) \/ (cert' = cert /\ Stays("cert"))
       /\ caCert' = caCert /\ key' = key /\ req' = req
    \/ /\ script = "rm key" /\ script' = "rm req"
       /\ (key' = 0 /\ kept' = kept) \/ (key' = key /\ Stays("key"))
       /\ caCert' = caCert /\ cert' = cert /\ req' = req
    \/ /\ script = "rm req" /\ script' = "make ca"
       /\ (req' = 0 /\ kept' = kept) \/ (req' = req /\ Stays("req"))
       /\ caCert' = caCert /\ cert' = cert /\ key' = key

MakeStep ==
    /\ kept' = kept
    /\ \/ /\ script = "make ca" /\ script' \in {"make ca", "make key"}
          /\ caCert' \in {0, caCert, runs}
          /\ script' = "make ca" => caCert' = 0
          /\ cert' = cert /\ key' = key /\ req' = req
       \/ /\ script = "make key" /\ script' \in {"make key", "sign"}
          /\ key' \in {0, key, runs}
          /\ script' = "make key" => key' = 0
          /\ req' \in {req, 0, runs} /\ (key' # runs => req' = req)
          /\ caCert' = caCert /\ cert' = cert
       \/ /\ script = "sign" /\ script' \in {"sign", "idle"}
          /\ cert' \in {None, cert} \/ (caCert # 0 /\ req # 0 /\ cert' = [key |-> req, ca |-> caCert])
          /\ script' = "sign" => cert' = None
          /\ caCert' = caCert /\ key' = key /\ req' = req

ScriptForm ==
    \/ /\ script = "idle" /\ script' = "rm ca-cert" /\ runs' = runs + 1
       /\ kept' = kept /\ caCert' = caCert /\ cert' = cert /\ key' = key /\ req' = req
    \/ runs' = runs /\ (RemoveStep \/ MakeStep)
    \/ /\ runs' = runs /\ script' = "idle" /\ kept' = kept
       /\ caCert' = caCert /\ cert' = cert /\ key' = key /\ req' = req

LEMMA Forms ==
  ASSUME Script
  PROVE  ScriptForm /\ UNCHANGED <<at, mem, port>> /\ (TypeOK => kept' \subseteq Files)
  <1> USE DEF Step, TypeOK, Files
  <1>1. CASE GenStart \/ GenKilled
    BY <1>1 DEF GenStart, GenKilled, ScriptForm
  <1>2. CASE Remove
    BY <1>2 DEF Remove, RemoveCa, RemoveCert, RemoveKey, RemoveReq, Removes, Stays, RemoveStep, ScriptForm
  <1>3. CASE Make
    <2>1. CASE MakeCa
      BY <2>1 DEF MakeCa, Writes, MakeStep, ScriptForm
    <2>2. CASE MakeKey
      BY <2>2 DEF MakeKey, Writes, MakeStep, ScriptForm
    <2>3. CASE Sign
      BY <2>3 DEF Sign, Writes, Signed, MakeStep, ScriptForm
    <2> QED
      BY <1>3, <2>1, <2>2, <2>3 DEF Make
  <1> QED
    BY <1>1, <1>2, <1>3 DEF Script

\* The script touches neither the processes nor the port.
LEMMA ScriptStep ==
  ASSUME IInv, Script
  PROVE  IInv'
  <1>a. ScriptForm /\ UNCHANGED <<at, mem, port>>
    BY Forms
  <1>b. TypeOK /\ DiskInv /\ CleanInv /\ MemInv /\ CallInv
    BY DEF IInv
  <1>c. /\ runs \in Nat /\ caCert \in Nat /\ key \in Nat /\ req \in Nat
        /\ cert.ca \in Nat /\ cert.key \in Nat
        /\ caCert <= runs /\ key <= runs /\ req <= runs /\ cert.ca <= runs /\ cert.key <= runs
    BY <1>b, Numbers
  <1>d. kept \subseteq kept' /\ (kept' = {} => kept = {})
    BY <1>a DEF ScriptForm, RemoveStep, MakeStep, Stays
  <1>e. runs' \in Nat /\ runs <= runs'
    <2>1. runs' = runs + 1 \/ runs' = runs
      BY <1>a, Zenon DEF ScriptForm
    <2> QED
      BY <1>c, <2>1
  <1>f. None.ca = 0 /\ None.key = 0
    BY DEF None
  <1>1. TypeOK'
    <2>1. /\ caCert \in Runs' /\ key \in Runs' /\ req \in Runs' /\ cert \in Pairs'
          /\ 0 \in Runs' /\ runs \in Runs' /\ None \in Pairs'
      <3>1. caCert \in 0..runs /\ key \in 0..runs /\ req \in 0..runs /\ cert \in Pairs
        BY <1>b DEF TypeOK
      <3>2. 0..runs \subseteq 0..runs' /\ Pairs \subseteq Pairs'
        BY <1>b, <1>e, RunsGrow
      <3>3. 0 \in 0..runs' /\ runs \in 0..runs'
        BY <1>c, <1>e
      <3> QED
        BY <3>1, <3>2, <3>3 DEF None
    <2>2. [key |-> req, ca |-> caCert] \in Pairs'
      BY <2>1
    <2>3. caCert' \in Runs' /\ key' \in Runs' /\ req' \in Runs' /\ cert' \in Pairs'
      BY <1>a, <2>1, <2>2 DEF ScriptForm, RemoveStep, MakeStep
    <2>4. mem' \in [Procs -> [ca : Runs', cert : Pairs', key : Runs']]
      BY <1>a, <1>b, <1>e, RunsGrow
    <2>5. /\ script' \in {"idle", "rm ca-cert", "rm cert", "rm key", "rm req", "make ca", "make key", "sign"}
          /\ kept' \subseteq Files
      BY <1>a, <1>b, Forms DEF ScriptForm, RemoveStep, MakeStep, TypeOK
    <2> QED
      BY <1>a, <1>b, <1>e, <2>3, <2>4, <2>5 DEF TypeOK
  <1>2. DiskInv'
    <2> USE DEF DiskInv, CertNotOlder, KeyNotOlder, NoCert, NoKey
    <2>1. CASE runs' = runs /\ RemoveStep
      <3>1. CASE script = "rm ca-cert"
        <4>1. ~ (cert.ca < 0) /\ ~ (key < 0)
          BY <1>c
        <4>2. caCert' \in {0, caCert} /\ cert' = cert /\ key' = key /\ script' = "rm cert"
          BY <2>1, <3>1 DEF RemoveStep
        <4> QED
          BY <1>b, <1>d, <2>1, <3>1, <4>1, <4>2
      <3>2. CASE script = "rm cert"
        BY <1>b, <1>c, <1>d, <1>f, <2>1, <3>2 DEF RemoveStep, Stays
      <3>3. CASE script = "rm key"
        BY <1>b, <1>c, <1>d, <2>1, <3>3 DEF RemoveStep, Stays
      <3>4. CASE script = "rm req"
        BY <1>b, <1>c, <1>d, <2>1, <3>4 DEF RemoveStep, Stays
      <3> QED
        BY <2>1, <3>1, <3>2, <3>3, <3>4 DEF RemoveStep
    <2>2. CASE runs' = runs /\ MakeStep
      <3>1. CASE script = "make ca"
        <4>1. ~ (cert.ca < 0) /\ ~ (key < 0) /\ cert.ca <= runs
          BY <1>c
        <4>2. /\ caCert' \in {0, caCert, runs} /\ cert' = cert /\ key' = key /\ kept' = kept
              /\ script' \in {"make ca", "make key"}
          BY <2>2, <3>1 DEF MakeStep
        <4> QED
          BY <1>b, <2>2, <3>1, <4>1, <4>2
      <3>2. CASE script = "make key"
        <4>1. ~ (runs < caCert)
          BY <1>c
        <4>2. /\ key' \in {0, key, runs} /\ caCert' = caCert /\ cert' = cert /\ kept' = kept
              /\ script' \in {"make key", "sign"} /\ (script' = "make key" => key' = 0)
          BY <2>2, <3>2 DEF MakeStep
        <4> QED
          BY <1>b, <2>2, <3>2, <4>1, <4>2
      <3>3. CASE script = "sign"
        <4>1. /\ caCert' = caCert /\ key' = key /\ kept' = kept /\ script' \in {"sign", "idle"}
              /\ script' = "sign" => cert' = None
          BY <2>2, <3>3 DEF MakeStep
        <4>2. CASE cert' \in {None, cert}
          BY <1>b, <1>f, <2>2, <3>3, <4>1, <4>2
        <4>3. CASE cert' = [key |-> req, ca |-> caCert] /\ cert' # None
          <5>1. cert'.ca = caCert /\ script' = "idle" /\ caCert <= caCert /\ ~ (caCert < caCert)
            BY <1>c, <4>1, <4>3
          <5> QED
            BY <1>b, <2>2, <4>1, <5>1
        <4> QED
          BY <2>2, <3>3, <4>2, <4>3 DEF MakeStep
      <3> QED
        BY <2>2, <3>1, <3>2, <3>3 DEF MakeStep
    <2>3. CASE runs' = runs + 1 /\ script = "idle" /\ script' = "rm ca-cert" /\ UNCHANGED <<disk, kept>>
      <3>1. runs' # 0 /\ cert.key < runs'
        <4>1. \A n, k \in Nat : k <= n => n + 1 # 0 /\ k < n + 1
          OBVIOUS
        <4> QED
          BY <1>c, <2>3, <4>1, Zenon
      <3> QED
        BY <1>b, <2>3, <3>1
    <2>4. CASE runs' = runs /\ script' = "idle" /\ UNCHANGED <<disk, kept>>
      BY <1>b, <2>4
    <2> QED
      BY <1>a, <2>1, <2>2, <2>3, <2>4 DEF ScriptForm
  <1>3. CleanInv'
    <2> SUFFICES ASSUME kept = {}, kept' = {}
                 PROVE  CleanInv'
      BY <1>d DEF CleanInv
    <2> USE DEF CleanInv
    <2>1. CASE runs' = runs /\ RemoveStep
      BY <1>b, <1>f, <2>1 DEF RemoveStep, Stays
    <2>2. CASE runs' = runs /\ MakeStep
      <3>1. CASE script = "make ca"
        BY <1>b, <2>2, <3>1 DEF MakeStep
      <3>2. CASE script = "make key"
        BY <1>b, <2>2, <3>2 DEF MakeStep
      <3>3. CASE script = "sign"
        <4>1. /\ caCert' = caCert /\ script' \in {"sign", "idle"} /\ req' = req /\ runs' = runs
              /\ cert' \in {None, cert} \/ (caCert # 0 /\ req # 0 /\ cert' = [key |-> req, ca |-> caCert])
          BY <2>2, <3>3 DEF MakeStep
        <4>2. cert'.key = cert'.ca
          <5>1. caCert \in {0, runs} /\ req \in {0, runs} /\ cert.key = cert.ca
            BY <1>b, <3>3
          <5> QED
            BY <1>f, <4>1, <5>1
        <4> QED
          BY <1>b, <3>3, <4>1, <4>2
      <3> QED
        BY <2>2, <3>1, <3>2, <3>3 DEF MakeStep
    <2> QED
      BY <1>a, <1>b, <2>1, <2>2 DEF ScriptForm
  <1>4. MemInv'
    <2> SUFFICES ASSUME NEW p \in Procs
                 PROVE  MemOf(p)'
      BY DEF MemInv
    <2>1. MemOf(p) /\ mem' = mem /\ at' = at
      BY <1>a, <1>b DEF MemInv
    <2>2. mem[p].ca \in Nat /\ mem[p].ca <= runs
      BY <1>b, Numbers
    <2>3. caCert' # 0 => mem[p].ca <= caCert'
      BY <1>a, <1>c, <2>1, <2>2 DEF MemOf, ScriptForm, RemoveStep, MakeStep
    <2>4. CertNotOlder(mem[p].ca)'
      <3>1. cert' \in {cert, None} \/ (caCert # 0 /\ cert'.ca = caCert)
        <4>1. CASE MakeStep
          <5>1. CASE cert' = [key |-> req, ca |-> caCert] /\ caCert # 0
            BY <5>1
          <5>2. CASE cert' \in {None, cert}
            BY <5>2
          <5>3. cert' = cert \/ cert' \in {None, cert} \/ (cert' = [key |-> req, ca |-> caCert] /\ caCert # 0)
            BY <4>1, Zenon DEF MakeStep
          <5> QED
            BY <5>1, <5>2, <5>3
        <4>2. CASE RemoveStep
          BY <4>2 DEF RemoveStep
        <4> QED
          BY <1>a, <4>1, <4>2 DEF ScriptForm
      <3>2. CASE cert' \in {cert, None}
        BY <1>d, <1>f, <2>1, <3>2 DEF MemOf, CertNotOlder
      <3>3. CASE caCert # 0 /\ cert'.ca = caCert
        <4>1. mem[p].ca <= caCert
          BY <2>1, <3>3 DEF MemOf
        <4>2. ~ (cert'.ca < mem[p].ca)
          BY <1>c, <2>2, <3>3, <4>1
        <4> QED
          BY <2>1, <4>2 DEF CertNotOlder
      <3> QED
        BY <3>1, <3>2, <3>3
    <2>5. KeyNotOlder(mem[p].ca)'
      <3>1. key' \in {key, 0, runs}
        BY <1>a DEF ScriptForm, RemoveStep, MakeStep
      <3>2. CASE key' \in {key, 0}
        BY <1>d, <2>1, <3>2 DEF MemOf, KeyNotOlder
      <3>3. CASE key' = runs
        <4>1. ~ (key' < mem[p].ca)
          BY <1>c, <2>2, <3>3
        <4> QED
          BY <2>1, <4>1 DEF KeyNotOlder
      <3> QED
        BY <3>1, <3>2, <3>3
    <2> QED
      BY <1>d, <2>1, <2>3, <2>4, <2>5 DEF MemOf, PairKept
  <1>5. CallInv'
    BY <1>a, <1>b DEF CallInv, Accepted
  <1> QED
    BY <1>1, <1>2, <1>3, <1>4, <1>5 DEF IInv

-----------------------------------------------------------------------------
\* What is on the disk can be in memory.
LEMMA Members ==
  ASSUME TypeOK
  PROVE  /\ at \in [Procs -> Places] /\ mem \in [Procs -> Mem] /\ Empty \in Mem
         /\ \A p \in Procs : /\ [mem[p] EXCEPT !.ca = caCert] \in Mem
                             /\ [mem[p] EXCEPT !.cert = cert] \in Mem
                             /\ [mem[p] EXCEPT !.key = key] \in Mem
  <1>1. runs \in Nat /\ 0 \in Runs
    <2>1. runs \in Nat
      BY DEF TypeOK
    <2> QED
      BY <2>1
  <1>2. at \in [Procs -> Places] /\ mem \in [Procs -> Mem]
    BY DEF TypeOK, Places, Mem
  <1>3. Empty \in Mem
    BY <1>1 DEF Empty, None, Mem
  <1>4. caCert \in Runs /\ cert \in Pairs /\ key \in Runs
    BY DEF TypeOK
  <1> QED
    BY <1>2, <1>3, <1>4 DEF Mem

\* 0 stands for a file that is absent, and is older than every run.
LEMMA NotNegative == \A n \in Nat : ~ (n < 0) /\ 0 <= n
  OBVIOUS

\* Whoever ends knows nothing, and nothing is wrong with that.
LEMMA EndedIsFine ==
  ASSUME TypeOK, NEW p \in Procs, mem'[p] = Empty, at'[p] \in Ended \cup {"read ca"}, UNCHANGED gen
  PROVE  MemOf(p)'
  <1>1. caCert \in Nat /\ cert.ca \in Nat /\ key \in Nat
    BY Numbers
  <1>2. mem'[p].ca = 0 /\ mem'[p].cert.ca = 0 /\ mem'[p].cert.key = 0
    <2>1. Empty.ca = 0 /\ Empty.cert.ca = 0 /\ Empty.cert.key = 0
      BY DEF Empty, None
    <2> QED
      BY <2>1, Zenon
  <1>3. /\ caCert' = caCert /\ cert' = cert /\ key' = key
        /\ ~ (cert.ca < 0) /\ ~ (key < 0) /\ 0 <= caCert
    BY <1>1, NotNegative, Zenon
  <1>4. at'[p] \notin {"read cert", "read key", "ready", "serving", "called"}
    BY DEF Ended
  <1> QED
    BY <1>2, <1>3, <1>4 DEF MemOf, CertNotOlder, KeyNotOlder

\* The others, and what a process that goes on in place keeps.
LEMMA SameIsFine ==
  ASSUME NEW p \in Procs, MemOf(p), mem'[p] = mem[p], UNCHANGED gen,
         at'[p] = at[p] \/ (at[p] = "ready" /\ at'[p] \in {"serving", "called"})
  PROVE  MemOf(p)'
  BY DEF MemOf, CertNotOlder, KeyNotOlder, PairKept

\* Loading: a process reads one file after the other.
LEMMA LoadStep ==
  ASSUME IInv, NEW p \in Procs, Load(p)
  PROVE  IInv'
  <1>a. TypeOK /\ DiskInv /\ CleanInv /\ MemInv /\ CallInv /\ MemOf(p)
    BY DEF IInv, MemInv
  <1>b. /\ at \in [Procs -> Places] /\ mem \in [Procs -> Mem] /\ Empty \in Mem
        /\ [mem[p] EXCEPT !.ca = caCert] \in Mem
        /\ [mem[p] EXCEPT !.cert = cert] \in Mem
        /\ [mem[p] EXCEPT !.key = key] \in Mem
    BY <1>a, Members
  <1>c. /\ caCert \in Nat /\ cert.ca \in Nat /\ cert.key \in Nat /\ key \in Nat
        /\ mem[p].ca \in Nat /\ mem[p].cert.ca \in Nat /\ mem[p].cert.key \in Nat
    BY <1>a, Numbers
  <1>1. /\ at[p] \notin {"serving", "called"} /\ at'[p] \notin {"serving", "called"}
        /\ \A q \in Procs \ {p} : at'[q] = at[q] /\ mem'[q] = mem[q]
        /\ at' \in [Procs -> Places] /\ mem' \in [Procs -> Mem]
        /\ UNCHANGED gen /\ UNCHANGED port
        /\ MemOf(p)'
    <2>1. CASE Start(p)
      <3>1. /\ at[p] \in Ended /\ UNCHANGED gen /\ UNCHANGED port
            /\ \A q \in Procs \ {p} : at'[q] = at[q] /\ mem'[q] = mem[q]
            /\ at' \in [Procs -> Places]
        BY <1>b, <2>1 DEF Start, Goto, Places
      <3>2. at'[p] = "read ca" /\ mem'[p] = Empty /\ mem' \in [Procs -> Mem]
        BY <1>b, <2>1 DEF Start, Goto, Ended
      <3>3. MemOf(p)'
        BY <1>a, <3>1, <3>2, EndedIsFine
      <3> QED
        BY <3>1, <3>2, <3>3 DEF Ended
    <2>2. CASE ReadCa(p)
      <3>1. /\ at[p] = "read ca" /\ UNCHANGED gen /\ UNCHANGED port
            /\ \A q \in Procs \ {p} : at'[q] = at[q] /\ mem'[q] = mem[q]
            /\ at' \in [Procs -> Places]
        BY <1>b, <2>2 DEF ReadCa, Goto, Places
      <3>2. CASE caCert = 0
        <4>1. at'[p] = "fatal" /\ mem'[p] = Empty /\ mem' \in [Procs -> Mem]
          BY <1>b, <2>2, <3>2 DEF ReadCa, Goto, Ended
        <4>2. MemOf(p)'
          BY <1>a, <3>1, <4>1, EndedIsFine DEF Ended
        <4> QED
          BY <3>1, <4>1, <4>2
      <3>3. CASE ~ (caCert = 0)
        <4>1. /\ at'[p] = "read cert" /\ mem' \in [Procs -> Mem]
              /\ mem'[p] = [mem[p] EXCEPT !.ca = caCert]
          BY <1>b, <2>2, <3>3 DEF ReadCa, Goto, Ended
        <4>2. mem'[p].ca = caCert /\ mem'[p].cert = mem[p].cert
          BY <1>b, <4>1 DEF Mem
        <4>3. MemOf(p)'
          <5>1. caCert <= caCert
            BY <1>c
          <5>2. mem'[p].cert.key = mem[p].cert.key /\ mem'[p].cert.ca = mem[p].cert.ca
            BY <4>2
          <5>3. kept = {} => mem[p].cert.key = mem[p].cert.ca
            BY <1>a DEF MemOf
          <5> QED
            BY <1>a, <3>1, <3>3, <4>1, <4>2, <5>1, <5>2, <5>3 DEF MemOf, DiskInv, CertNotOlder, KeyNotOlder
        <4> QED
          BY <3>1, <4>1, <4>3
      <3> QED
        BY <3>2, <3>3
    <2>3. CASE ReadCert(p)
      <3>1. /\ at[p] = "read cert" /\ UNCHANGED gen /\ UNCHANGED port
            /\ \A q \in Procs \ {p} : at'[q] = at[q] /\ mem'[q] = mem[q]
            /\ at' \in [Procs -> Places]
        BY <1>b, <2>3 DEF ReadCert, Goto, Places
      <3>2. CASE cert.ca = 0
        <4>1. at'[p] = "fatal" /\ mem'[p] = Empty /\ mem' \in [Procs -> Mem]
          BY <1>b, <2>3, <3>2 DEF ReadCert, Goto, Ended
        <4>2. MemOf(p)'
          BY <1>a, <3>1, <4>1, EndedIsFine DEF Ended
        <4> QED
          BY <3>1, <4>1, <4>2
      <3>3. CASE ~ (cert.ca = 0)
        <4>1. /\ at'[p] = "read key" /\ mem' \in [Procs -> Mem]
              /\ mem'[p] = [mem[p] EXCEPT !.cert = cert]
          BY <1>b, <2>3, <3>3 DEF ReadCert, Goto, Ended
        <4>2. mem'[p].cert = cert /\ mem'[p].ca = mem[p].ca
          BY <1>b, <4>1 DEF Mem
        <4>3. MemOf(p)'
          BY <1>a, <1>c, <3>1, <3>3, <4>1, <4>2 DEF MemOf, CleanInv, CertNotOlder, KeyNotOlder
        <4> QED
          BY <3>1, <4>1, <4>3
      <3> QED
        BY <3>2, <3>3
    <2>4. CASE ReadKey(p)
      <3>1. /\ at[p] = "read key" /\ UNCHANGED gen /\ UNCHANGED port
            /\ \A q \in Procs \ {p} : at'[q] = at[q] /\ mem'[q] = mem[q]
            /\ at' \in [Procs -> Places]
        BY <1>b, <2>4 DEF ReadKey, Goto, Places
      <3>2. CASE ~ (key # 0 /\ key = mem[p].cert.key)
        <4>1. at'[p] = "fatal" /\ mem'[p] = Empty /\ mem' \in [Procs -> Mem]
          BY <1>b, <2>4, <3>2 DEF ReadKey, Goto, Ended
        <4>2. MemOf(p)'
          BY <1>a, <3>1, <4>1, EndedIsFine DEF Ended
        <4> QED
          BY <3>1, <4>1, <4>2
      <3>3. CASE ~ (~ (key # 0 /\ key = mem[p].cert.key))
        <4>1. /\ at'[p] = "ready" /\ mem' \in [Procs -> Mem]
              /\ mem'[p] = [mem[p] EXCEPT !.key = key]
          BY <1>b, <2>4, <3>3 DEF ReadKey, Goto, Ended
        <4>2. mem'[p].key = key /\ mem'[p].ca = mem[p].ca /\ mem'[p].cert = mem[p].cert
          BY <1>b, <4>1 DEF Mem
        <4>3. MemOf(p)'
          BY <1>a, <1>c, <3>1, <3>3, <4>1, <4>2 DEF MemOf, PairKept, CertNotOlder, KeyNotOlder
        <4> QED
          BY <3>1, <4>1, <4>3
      <3> QED
        BY <3>2, <3>3
    <2> QED
      BY <2>1, <2>2, <2>3, <2>4 DEF Load
  <1>2. TypeOK'
    BY <1>1, <1>a DEF TypeOK, Places, Mem
  <1>3. DiskInv' /\ CleanInv'
    BY <1>1, <1>a DEF DiskInv, CleanInv, CertNotOlder, KeyNotOlder
  <1>4. MemInv'
    <2> SUFFICES ASSUME NEW q \in Procs \ {p}
                 PROVE  MemOf(q)'
      BY <1>1 DEF MemInv
    <2> QED
      BY <1>1, <1>a, SameIsFine DEF MemInv
  <1>5. CallInv'
    <2> SUFFICES ASSUME NEW c \in Clients, at'[c] = "called"
                 PROVE  port' \in Servers /\ Accepted(c, port)'
      BY DEF CallInv
    <2>1. c # p /\ at[c] = "called"
      BY <1>1
    <2>2. port \in Servers /\ Accepted(c, port) /\ at[port] = "serving"
      BY <1>a, <2>1 DEF CallInv, TypeOK
    <2> QED
      BY <1>1, <2>1, <2>2 DEF Accepted
  <1> QED
    BY <1>2, <1>3, <1>4, <1>5 DEF IInv

\* A server listens, or is killed with the calls it has accepted.
LEMMA ServeStep ==
  ASSUME IInv, NEW s \in Servers, Listen(s) \/ Kill(s)
  PROVE  IInv'
  <1>a. TypeOK /\ DiskInv /\ CleanInv /\ MemInv /\ CallInv
    BY DEF IInv
  <1>b. at \in [Procs -> Places] /\ mem \in [Procs -> Mem] /\ Empty \in Mem
    BY <1>a, Members
  <1>1. CASE Listen(s) /\ port = NoOne
    <2>1. Goto(s, {"ready"}, "serving", mem[s]) /\ port' = s
      BY <1>1 DEF Listen
    <2>2. /\ at[s] = "ready" /\ at'[s] = "serving" /\ mem'[s] = mem[s]
          /\ \A q \in Procs \ {s} : at'[q] = at[q] /\ mem'[q] = mem[q]
          /\ at' \in [Procs -> Places] /\ mem' \in [Procs -> Mem] /\ UNCHANGED gen
      BY <1>b, <2>1 DEF Goto, Places, Ended
    <2>3. TypeOK'
      BY <1>a, <1>1, <2>1, <2>2, ProcsAssumption DEF TypeOK, Places, Mem
    <2>4. DiskInv' /\ CleanInv'
      BY <2>2, <1>a DEF DiskInv, CleanInv, CertNotOlder, KeyNotOlder
    <2>5. MemInv'
      <3> SUFFICES ASSUME NEW q \in Procs
                   PROVE  MemOf(q)'
        BY DEF MemInv
      <3> QED
        BY <2>2, <1>a, SameIsFine DEF MemInv
    <2>6. \A c \in Clients : at'[c] # "called"
      BY <1>1, <1>a, <2>2, ProcsAssumption DEF CallInv
    <2> QED
      BY <2>3, <2>4, <2>5, <2>6 DEF IInv, CallInv
  <1>2. CASE Listen(s) /\ port # NoOne
    <2>1. Goto(s, {"ready"}, "fatal", Empty) /\ port' = port
      BY <1>2 DEF Listen
    <2>2. /\ at[s] = "ready" /\ at'[s] = "fatal" /\ mem'[s] = Empty
          /\ \A q \in Procs \ {s} : at'[q] = at[q] /\ mem'[q] = mem[q]
          /\ at' \in [Procs -> Places] /\ mem' \in [Procs -> Mem] /\ UNCHANGED gen
      BY <1>b, <2>1 DEF Goto, Places, Ended
    <2>3. TypeOK'
      BY <1>a, <2>1, <2>2 DEF TypeOK, Places, Mem
    <2>4. DiskInv' /\ CleanInv'
      BY <2>2, <1>a DEF DiskInv, CleanInv, CertNotOlder, KeyNotOlder
    <2>5. MemInv'
      <3> SUFFICES ASSUME NEW q \in Procs
                   PROVE  MemOf(q)'
        BY DEF MemInv
      <3> QED
        BY <2>2, <1>a, SameIsFine, EndedIsFine DEF MemInv, Ended
    <2>6. CallInv'
      <3> SUFFICES ASSUME NEW c \in Clients, at'[c] = "called"
                   PROVE  port' \in Servers /\ Accepted(c, port)'
        BY DEF CallInv
      <3>1. c # s /\ at[c] = "called"
        BY <2>2
      <3>2. port \in Servers /\ Accepted(c, port) /\ at[port] = "serving"
        BY <1>a, <3>1 DEF CallInv, TypeOK
      <3> QED
        BY <2>1, <2>2, <3>1, <3>2 DEF Accepted
    <2> QED
      BY <2>3, <2>4, <2>5, <2>6 DEF IInv
  <1>3. CASE Kill(s)
    <2>1. /\ UNCHANGED gen /\ port' = NoOne
          /\ \A q \in Procs : \/ mem'[q] = mem[q] /\ at'[q] = at[q] /\ q # s /\ at[q] # "called"
                              \/ mem'[q] = Empty /\ at'[q] \in {"off", "fatal"}
          /\ at' \in [Procs -> Places]
      BY <1>a, <1>3 DEF Kill, TypeOK, Places
    <2>2. mem' \in [Procs -> Mem]
      BY <1>a, <1>b, <1>3 DEF Kill, TypeOK, Mem
    <2>3. TypeOK'
      <3>1. \A q \in Procs : at'[q] # "serving"
        BY <1>a, <1>3, <2>1 DEF Kill, TypeOK
      <3> QED
        BY <1>a, <2>1, <2>2, <3>1, ProcsAssumption DEF TypeOK, Places, Mem
    <2>4. DiskInv' /\ CleanInv'
      BY <2>1, <1>a DEF DiskInv, CleanInv, CertNotOlder, KeyNotOlder
    <2>5. MemInv'
      <3> SUFFICES ASSUME NEW q \in Procs
                   PROVE  MemOf(q)'
        BY DEF MemInv
      <3> QED
        BY <2>1, <1>a, SameIsFine, EndedIsFine DEF MemInv, Ended
    <2> QED
      BY <2>1, <2>3, <2>4, <2>5 DEF IInv, CallInv
  <1> QED
    BY <1>1, <1>2, <1>3

\* A client only enters a call that both sides accept.
LEMMA ClientStep ==
  ASSUME IInv, NEW c \in Clients, Dial(c) \/ GetName(c) \/ Deadline(c)
  PROVE  IInv'
  <1>a. TypeOK /\ DiskInv /\ CleanInv /\ MemInv /\ CallInv
    BY DEF IInv
  <1>b. at \in [Procs -> Places] /\ mem \in [Procs -> Mem] /\ Empty \in Mem
    BY <1>a, Members
  <1>1. PICK to \in {"called", "answered", "refused", "fatal"}, m \in {mem[c], Empty} :
          /\ Goto(c, {"ready", "called"}, to, m) /\ UNCHANGED port
          /\ to = "called" => at[c] = "ready" /\ m = mem[c] /\ port # NoOne /\ Accepted(c, port)
    <2>1. CASE Dial(c)
      <3>1. CASE port = NoOne
        BY <2>1, <3>1 DEF Dial, Goto
      <3>2. CASE port # NoOne /\ Accepted(c, port)
        BY <2>1, <3>2 DEF Dial, Goto
      <3>3. CASE port # NoOne /\ ~ Accepted(c, port)
        BY <2>1, <3>3 DEF Dial, Goto
      <3> QED
        BY <3>1, <3>2, <3>3
    <2>2. CASE GetName(c)
      BY <2>2 DEF GetName, Goto
    <2>3. CASE Deadline(c)
      BY <2>3 DEF Deadline
    <2> QED
      BY <2>1, <2>2, <2>3
  <1>2. /\ at[c] \in {"ready", "called"} /\ at'[c] = to /\ mem'[c] = (IF to \in Ended THEN Empty ELSE m)
        /\ \A q \in Procs \ {c} : at'[q] = at[q] /\ mem'[q] = mem[q]
        /\ at' \in [Procs -> Places] /\ mem' \in [Procs -> Mem] /\ UNCHANGED gen
    <2>1. to \in Places /\ mem[c] \in Mem
      BY <1>b DEF Places
    <2>2. m \in Mem
      BY <1>b, <2>1
    <2> QED
      BY <1>b, <1>1, <2>1, <2>2 DEF Goto
  <1>3. TypeOK'
    BY <1>a, <1>1, <1>2 DEF TypeOK, Places, Mem
  <1>4. DiskInv' /\ CleanInv'
    BY <1>2, <1>a DEF DiskInv, CleanInv, CertNotOlder, KeyNotOlder
  <1>5. MemInv'
    <2> SUFFICES ASSUME NEW q \in Procs
                 PROVE  MemOf(q)'
      BY DEF MemInv
    <2>1. CASE q # c
      BY <1>2, <1>a, <2>1, SameIsFine DEF MemInv
    <2>2. CASE q = c /\ to = "called"
      BY <1>1, <1>2, <1>a, <2>2, SameIsFine DEF MemInv, Ended
    <2>3. CASE q = c /\ to # "called"
      BY <1>1, <1>2, <1>a, <2>3, EndedIsFine DEF Ended
    <2> QED
      BY <2>1, <2>2, <2>3
  <1>6. CallInv'
    <2> SUFFICES ASSUME NEW d \in Clients, at'[d] = "called"
                 PROVE  port' \in Servers /\ Accepted(d, port)'
      BY DEF CallInv
    <2>1. port \in Servers /\ Accepted(d, port)
      BY <1>a, <1>1, <1>2 DEF CallInv, TypeOK
    <2>2. port # c
      BY <2>1, ProcsAssumption
    <2>3. mem'[d] = mem[d] /\ mem'[port] = mem[port]
      BY <1>1, <1>2, <2>1, <2>2 DEF Ended
    <2> QED
      BY <1>1, <2>1, <2>3 DEF Accepted
  <1> QED
    BY <1>3, <1>4, <1>5, <1>6 DEF IInv

-----------------------------------------------------------------------------
\* Everything the other theorems rest on.
THEOREM IInvHolds == Spec => []IInv
  <1>1. IInv /\ [Next]_vars => IInv'
    <2> SUFFICES ASSUME IInv, [Next]_vars
                 PROVE  IInv'
      OBVIOUS
    <2>1. CASE UNCHANGED vars
      <3>1. TypeOK'
        BY <2>1 DEF IInv, TypeOK
      <3>2. DiskInv' /\ CleanInv'
        BY <2>1 DEF IInv, DiskInv, CleanInv, CertNotOlder, KeyNotOlder
      <3>3. MemInv'
        BY <2>1, SameIsFine DEF IInv, MemInv
      <3>4. CallInv'
        BY <2>1 DEF IInv, CallInv, Accepted
      <3> QED
        BY <3>1, <3>2, <3>3, <3>4 DEF IInv
    <2>2. CASE Next
      BY <2>2, ScriptStep, LoadStep, ServeStep, ClientStep DEF Next
    <2> QED
      BY <2>1, <2>2
  <1> QED
    BY InitHolds, <1>1, PTL DEF Spec

\* The type invariant of MtlsCerts, with at most one server listening.
THEOREM TypeCorrect == Spec => []TypeOK
  BY IInvHolds, PTL DEF IInv

\* Only an accepted call is answered, and only a dial is refused.
LEMMA Moves ==
  ASSUME IInv, [Next]_vars, NEW c \in Clients
  PROVE  /\ at[c] # "answered" /\ at'[c] = "answered" => at[c] = "called"
         /\ at[c] = "ready" /\ at'[c] = "refused" => port # NoOne /\ ~ Accepted(c, port)
  <1>1. CASE Script \/ UNCHANGED vars
    BY <1>1, Forms
  <1>2. ASSUME NEW p \in Procs, Load(p)
        PROVE  ((at[c] # "answered" => at'[c] # "answered") /\ at'[c] # "refused") \/ at'[c] = at[c]
    BY <1>2 DEF Load, Start, ReadCa, ReadCert, ReadKey, Goto, IInv, TypeOK
  <1>3. ASSUME NEW s \in Servers, Listen(s) \/ Kill(s)
        PROVE  at'[c] \notin {"answered", "refused"} \/ at'[c] = at[c]
    BY <1>3 DEF Listen, Kill, Goto, IInv, TypeOK
  <1>4. ASSUME NEW d \in Clients, Dial(d) \/ GetName(d) \/ Deadline(d), d # c
        PROVE  at'[c] = at[c]
    BY <1>4 DEF Dial, GetName, Deadline, Goto, IInv, TypeOK
  <1>5. CASE Dial(c) \/ GetName(c) \/ Deadline(c)
    BY <1>5 DEF Dial, GetName, Deadline, Goto, IInv, TypeOK
  <1> QED
    BY <1>1, <1>2, <1>3, <1>4, <1>5 DEF Next

\* Between any two programs, however the regenerations of their files and
\* their starts interleave, a call is answered only if both trust one CA that
\* has signed both their certificates; all they hold is then of one run of
\* gen.sh, if no rm failed.  It needs that one of the server's certificate and
\* its key was always removed.
THEOREM AnsweredHoldOneRun == Spec => OneRun
  <1> DEFINE A == \A c \in Clients :
         at[c] # "answered" /\ at'[c] = "answered" /\ ~ PairKept =>
           \E n \in 1..runs : \A p \in {c, port} :
             /\ mem[p].ca = n /\ mem[p].cert.ca = n /\ mem[p].key = mem[p].cert.key
             /\ kept = {} => mem[p].key = n
  <1>1. IInv /\ [Next]_vars => A
    <2> SUFFICES ASSUME IInv, [Next]_vars, NEW c \in Clients,
                        at[c] # "answered", at'[c] = "answered", ~ PairKept
                 PROVE  \E n \in 1..runs : \A p \in {c, port} :
                          /\ mem[p].ca = n /\ mem[p].cert.ca = n /\ mem[p].key = mem[p].cert.key
                          /\ kept = {} => mem[p].key = n
      OBVIOUS
    <2>1. at[c] = "called"
      BY Moves
    <2>2. port \in Servers /\ Accepted(c, port) /\ at[port] = "serving"
      BY <2>1 DEF IInv, CallInv, TypeOK
    <2>3. \A p \in {c, port} : /\ mem[p].ca # 0 /\ ~ (mem[p].cert.ca < mem[p].ca)
                               /\ mem[p].key = mem[p].cert.key
                               /\ kept = {} => mem[p].cert.key = mem[p].cert.ca
      BY <2>1, <2>2 DEF IInv, MemInv, MemOf
    <2>4. /\ mem[c].ca \in 1..runs
          /\ mem[c].cert.ca = mem[c].ca /\ mem[port].ca = mem[c].ca /\ mem[port].cert.ca = mem[c].ca
      <3>1. /\ runs \in Nat /\ 0..runs \subseteq Nat
            /\ mem[c].ca \in 0..runs /\ mem[c].cert.ca \in 0..runs
            /\ mem[port].ca \in 0..runs /\ mem[port].cert.ca \in 0..runs
        BY <2>2, Numbers DEF IInv
      <3>2. mem[port].cert.ca = mem[c].ca /\ mem[c].cert.ca = mem[port].ca
        BY <2>2 DEF Accepted
      <3> QED
        BY <2>3, <3>1, <3>2
    <2> QED
      BY <2>3, <2>4
  <1>2. IInv /\ [Next]_vars => [A]_vars
    BY <1>1
  <1> QED
    BY IInvHolds, <1>2, PTL DEF Spec, OneRun

\* Two programs that both hold what is on the disk never refuse each other, so
\* gen.sh leaves no set of files that loads and does not work, whatever failed
\* in it, unless an rm left the server's certificate and its key together.
THEOREM FreshAreNotRefused == Spec => RefusedIsStale
  <1> DEFINE A == \A c \in Clients :
         at[c] = "ready" /\ at'[c] = "refused" => ~ Fresh(c) \/ ~ Fresh(port) \/ PairKept
  <1>1. IInv /\ [Next]_vars => A
    <2> SUFFICES ASSUME IInv, [Next]_vars, NEW c \in Clients,
                        at[c] = "ready", at'[c] = "refused", Fresh(c), Fresh(port), ~ PairKept
                 PROVE  FALSE
      OBVIOUS
    <2>1. port # NoOne /\ ~ Accepted(c, port)
      BY Moves
    <2>2. MemOf(c) /\ DiskInv /\ TypeOK
      BY DEF IInv, MemInv
    <2>3. mem[c].ca = caCert /\ mem[c].cert = cert
      BY DEF Fresh
    <2>4. caCert # 0 /\ cert.ca # 0 /\ ~ (cert.ca < caCert)
      BY <2>2, <2>3 DEF MemOf
    <2>5. cert.ca = caCert
      BY <2>2, <2>4, Numbers DEF DiskInv
    <2> QED
      BY <2>1, <2>5 DEF Fresh, Accepted
  <1>2. IInv /\ [Next]_vars => [A]_vars
    BY <1>1
  <1> QED
    BY IInvHolds, <1>2, PTL DEF Spec, RefusedIsStale

-----------------------------------------------------------------------------
\* Liveness.  The provers know nothing of ENABLED, so the theorem takes as
\* hypothesis what TLC finds in every state of the run: a client that was
\* started and has not ended can go on.
Alive == {"read ca", "read cert", "read key", "ready", "called"}

CanGoOn(c) == at[c] \in Alive => ENABLED <<Client(c)>>_vars
AllCanGoOn == \A c \in Clients : CanGoOn(c)

\* Where a client goes from each place; nobody else moves it but the server
\* that answers it or dies under its call.
Onward(p) == CASE p = "read ca" -> {"read cert", "fatal"}
               [] p = "read cert" -> {"read key", "fatal"}
               [] p = "read key" -> {"ready", "fatal"}
               [] p = "ready" -> {"called", "refused", "fatal"}
               [] p = "called" -> {"answered", "fatal"}

\* Its own steps take a client onward.
LEMMA ClientGoesOn ==
  ASSUME TypeOK, NEW c \in Clients, Client(c)
  PROVE  at[c] \in Alive /\ at'[c] \in Onward(at[c])
  BY DEF Client, ReadCa, ReadCert, ReadKey, Dial, Deadline, Goto, TypeOK, Alive, Onward

\* So does every other step that moves it.
LEMMA OnlyOnward ==
  ASSUME TypeOK, NEW c \in Clients, [Next]_vars, at[c] \in Alive
  PROVE  at'[c] = at[c] \/ at'[c] \in Onward(at[c])
  <1>1. CASE Script
    BY <1>1, Forms
  <1>2. ASSUME NEW p \in Procs, Load(p)
        PROVE  at'[c] = at[c] \/ at'[c] \in Onward(at[c])
    BY <1>2 DEF Load, Start, ReadCa, ReadCert, ReadKey, Goto, TypeOK, Alive, Onward, Ended
  <1>3. ASSUME NEW s \in Servers, Listen(s) \/ Kill(s)
        PROVE  at'[c] = at[c] \/ at'[c] \in Onward(at[c])
    BY <1>3, ProcsAssumption DEF Listen, Kill, Goto, TypeOK, Alive, Onward
  <1>4. ASSUME NEW d \in Clients, Dial(d) \/ GetName(d) \/ Deadline(d)
        PROVE  at'[c] = at[c] \/ at'[c] \in Onward(at[c])
    BY <1>4 DEF Dial, GetName, Deadline, Goto, TypeOK, Alive, Onward
  <1>5. CASE UNCHANGED vars
    BY <1>5
  <1> QED
    BY <1>1, <1>2, <1>3, <1>4, <1>5 DEF Next

\* The step of a client from one place to the next.
PassesOn(c, p) == at[c] = p ~> at[c] \in Onward(p)

LEMMA Passes ==
  ASSUME NEW c \in Clients, NEW p \in Alive
  PROVE  Spec /\ []AllCanGoOn => PassesOn(c, p)
  <1> DEFINE In   == at[c] = p
             Left == at[c] \in Onward(p)
  <1>1. TypeOK /\ In /\ [Next]_vars => In' \/ Left'
    BY OnlyOnward
  <1>2. TypeOK /\ In /\ <<Client(c)>>_vars => Left'
    BY ClientGoesOn
  <1>3. AllCanGoOn /\ In => ENABLED <<Client(c)>>_vars
    BY DEF AllCanGoOn, CanGoOn
  <1>4. Spec => Fair(c)
    BY DEF Spec
  <1> HIDE DEF In, Left
  <1>5. Spec /\ []AllCanGoOn => (In ~> Left)
    BY <1>1, <1>2, <1>3, <1>4, TypeCorrect, PTL DEF Spec, Fair
  <1> QED
    BY <1>5 DEF In, Left, PassesOn

\* Every client that was started ends, for any number of clients, servers and
\* runs of gen.sh: its own four seconds end the call that no server answers.
THEOREM EveryClientEnds == Spec /\ []AllCanGoOn => ClientEnds
  <1>1. ASSUME NEW c \in Clients
        PROVE  Spec /\ []AllCanGoOn =>
                 (at[c] = "read ca" ~> at[c] \in {"answered", "refused", "fatal"})
    <2> DEFINE Over == at[c] \in {"answered", "refused", "fatal"}
    <2>1. /\ at[c] \in Onward("read ca") => at[c] = "read cert" \/ Over
          /\ at[c] \in Onward("read cert") => at[c] = "read key" \/ Over
          /\ at[c] \in Onward("read key") => at[c] = "ready" \/ Over
          /\ at[c] \in Onward("ready") => at[c] = "called" \/ Over
          /\ at[c] \in Onward("called") => Over
      BY DEF Onward
    <2>2. Spec /\ []AllCanGoOn => /\ PassesOn(c, "read ca") /\ PassesOn(c, "read cert")
                                  /\ PassesOn(c, "read key") /\ PassesOn(c, "ready")
                                  /\ PassesOn(c, "called")
      BY Passes DEF Alive
    <2> QED
      BY <2>1, <2>2, PTL DEF PassesOn
  <1> QED
    BY <1>1 DEF ClientEnds
=============================================================================
