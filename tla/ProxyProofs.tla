---------------------------- MODULE ProxyProofs -----------------------------
(***************************************************************************)
(* The proxy leaves no process behind and asks before it kills, for any    *)
(* patterns, ports, numbers of attempts and faults.                        *)
(***************************************************************************)
EXTENDS Proxy, SequenceTheorems, TLAPS

Process == [pat : Patterns, state : {"booting", "up", "exited", "killed"},
            own : BOOLEAN, asked : SUBSET {"initialize", "start", "drain", "stop"}]

Steps == {"", "spawn", "connect", "initialize", "start", "stop", "kill"}
Statuses == {"Uninitialized", "Starting", "Running", "Degraded", "Failed", "Stopping", "Stopped"}

Stages == {"starting", "serving", "draining", "stopping", "exited"}
Operation == [p : Patterns \cup {""}, step : Steps, tries : Nat]

(* The types, as far as the proofs need them.                              *)
Typed ==
  /\ procs \in Seq(Process)
  /\ child \in [Patterns -> Nat] /\ client \in [Patterns -> Nat]
  /\ status \in [Patterns -> Statuses]
  /\ stage \in Stages /\ todo \subseteq Patterns
  /\ op \in Operation
  /\ op.step # "" => op.p \in Patterns
  /\ \A p \in Patterns : client[p] # 0 => client[p] \in Procs

(* The manager knows every process that lives as the child of its pattern, *)
(* and spawns one only where there is none.  While patterns are stopped no *)
(* operation but stopping is under way, and a pattern dealt with has no    *)
(* child.                                                                  *)
Tracked ==
  /\ \A n \in Alive : child[procs[n].pat] = n
  /\ \A p \in Patterns : child[p] # 0 => child[p] \in Procs /\ procs[child[p]].pat = p
  /\ \A p \in Patterns : status[p] = "Stopped" => child[p] = 0
  /\ Step("spawn") => child[op.p] = 0 /\ status[op.p] # "Stopped"
  /\ stage = "starting" => /\ \A p \in todo : child[p] = 0
                           /\ op.step # "" => op.p \notin todo
  /\ stage \in {"stopping", "exited"} =>
       /\ op.step \in {"", "stop", "kill"}
       /\ \A p \in Patterns \ todo : child[p] = 0 \/ (op.p = p /\ op.step # "")
  /\ stage = "exited" => todo = {} /\ op.step = ""

(* A client that connected to its own process is still the client of that  *)
(* process while it lives, and its process is killed only once it was      *)
(* asked to stop.                                                          *)
Polite ==
  /\ \A n \in Alive : procs[n].own => client[procs[n].pat] = n
  /\ Step("connect") => \A n \in Alive : procs[n].pat = op.p => ~procs[n].own
  /\ Step("kill") /\ client[op.p] # 0 => "stop" \in procs[client[op.p]].asked
  /\ \A n \in Procs : procs[n].state = "killed" /\ procs[n].own => "stop" \in procs[n].asked

(* Without use of the manager after the start, no process is killed before *)
(* the draining is over, and then every client has asked for it.           *)
Ordered ==
  ~Api =>
    /\ stage \in {"starting", "serving", "draining"} =>
         /\ op.step \notin {"stop", "kill"}
         /\ \A n \in Procs : procs[n].state # "killed"
    /\ stage \in {"serving", "draining"} => op.step = ""
    /\ stage \in {"draining", "stopping", "exited"} =>
         \A p \in Patterns : client[p] # 0 /\ (stage = "draining" => p \notin todo) =>
                               "drain" \in procs[client[p]].asked
    /\ \A n \in Procs : procs[n].state = "killed" /\ procs[n].own => "drain" \in procs[n].asked

Inv == Typed /\ Tracked /\ Polite /\ Ordered

USE DEF Procs, IsUp, Alive, Patterns, Api, Step

(* It holds when main begins.                                              *)
LEMMA InitInv == Init => Inv
<1> SUFFICES ASSUME Init PROVE Inv
  OBVIOUS
<1>1. procs = <<>> /\ Len(procs) = 0 /\ Procs = {} /\ Alive = {}
  BY DEF Init
<1>2. op \in Operation /\ op.step = ""
  BY ZenonT(60) DEF Init, NoOp, Steps, Operation
<1>3. /\ child \in [Patterns -> Nat] /\ client \in [Patterns -> Nat] /\ status \in [Patterns -> Statuses]
      /\ stage = "starting" /\ todo \subseteq Patterns
      /\ \A p \in Patterns : child[p] = 0 /\ client[p] = 0 /\ status[p] = "Uninitialized"
  BY DEF Init, Statuses
<1>4. Typed
  <2>1. procs \in Seq(Process)
    BY <1>1
  <2> QED BY <2>1, <1>2, <1>3, ZenonT(60) DEF Typed, Stages
<1>5. Tracked
  BY <1>1, <1>2, <1>3, ZenonT(60) DEF Tracked
<1>6. Polite /\ Ordered
  BY <1>1, <1>2, <1>3, ZenonT(60) DEF Polite, Ordered
<1> QED BY <1>4, <1>5, <1>6 DEF Inv

(* What a call that is sent leaves of the processes.                       *)
Kept ==
  /\ procs' \in Seq(Process) /\ Len(procs') = Len(procs)
  /\ \A m \in Procs : /\ procs'[m].pat = procs[m].pat /\ procs'[m].state = procs[m].state
                      /\ procs'[m].own = procs[m].own /\ procs[m].asked \subseteq procs'[m].asked

(* Every process is a Process record.                                      *)
LEMMA Elements ==
  ASSUME Typed
  PROVE  /\ Len(procs) \in Nat
         /\ \A n \in Procs : procs[n] \in Process
<1>1. procs \in Seq(Process)
  BY ZenonT(60) DEF Typed
<1> QED BY <1>1, LenProperties, ElementOfSeq

(* One process is replaced by r.                                           *)
LEMMA Replaced ==
  ASSUME Typed, NEW n \in Procs, NEW r \in Process, procs' = [procs EXCEPT ![n] = r]
  PROVE  /\ procs' \in Seq(Process) /\ Len(procs') = Len(procs) /\ Procs' = Procs
         /\ procs'[n] = r
         /\ \A m \in Procs : m # n => procs'[m] = procs[m]
<1>1. procs \in Seq(Process)
  BY ZenonT(60) DEF Typed
<1> QED BY <1>1, ExceptSeq

(* A call of the host is noted in its process, and changes nothing else.   *)
LEMMA HostKeeps ==
  ASSUME Typed, NEW n \in Procs, NEW what \in {"initialize", "start", "drain", "stop"},
         Host(n, what)
  PROVE  Kept /\ what \in procs'[n].asked
<1> DEFINE r == [procs[n] EXCEPT !.asked = procs[n].asked \cup {what}]
<1>1. procs[n] \in Process
  BY Elements
<1>2. /\ r \in Process /\ r.pat = procs[n].pat /\ r.state = procs[n].state /\ r.own = procs[n].own
      /\ r.asked = procs[n].asked \cup {what}
  BY <1>1 DEF Process
<1>3. procs' = [procs EXCEPT ![n] = r]
  BY DEF Host
<1> HIDE DEF r
<1>4. /\ procs' \in Seq(Process) /\ Len(procs') = Len(procs) /\ procs'[n] = r
      /\ \A m \in Procs : m # n => procs'[m] = procs[m]
  BY <1>2, <1>3, Replaced, ZenonT(60)
<1> QED BY <1>2, <1>4 DEF Kept

(* The configuration, and the types that come from it, never change.       *)
LEMMA ConfFixed ==
  ASSUME conf' = conf
  PROVE  Process' = Process /\ Operation' = Operation
BY DEF Process, Operation

(* What Kept says of the next state.                                       *)
LEMMA KeptFacts ==
  ASSUME Typed, Kept, conf' = conf, client' = client
  PROVE  /\ Procs' = Procs /\ Alive' = Alive /\ Process' = Process
         /\ procs' \in Seq(Process')
         /\ \A p \in Patterns : client'[p] # 0 => client'[p] \in Procs'
         /\ \A m \in Procs : /\ procs'[m].pat = procs[m].pat /\ procs'[m].state = procs[m].state
                             /\ procs'[m].own = procs[m].own /\ procs[m].asked \subseteq procs'[m].asked
<1>1. Process' = Process
  BY ConfFixed
<1>2. Procs' = Procs /\ Alive' = Alive
  BY DEF Kept
<1> QED BY <1>1, <1>2, ZenonT(60) DEF Kept, Typed

(* A client's call, answered or failed.                                    *)
Sent(p, what) == IF client[p] = 0 THEN UNCHANGED procs ELSE Host(client[p], what)

(* A call that is sent is noted, and changes nothing else.                 *)
LEMMA SentKeeps ==
  ASSUME Typed, NEW p \in Patterns, NEW what \in {"initialize", "start", "drain", "stop"},
         Sent(p, what)
  PROVE  Kept /\ (client[p] # 0 => what \in procs'[client[p]].asked)
<1>1. CASE client[p] = 0
  BY <1>1, ZenonT(60) DEF Sent, Kept, Typed
<1>2. CASE client[p] # 0
  <2>1. client[p] \in Procs /\ Host(client[p], what)
    BY <1>2, ZenonT(60) DEF Sent, Typed
  <2> QED BY <2>1, HostKeeps
<1> QED BY <1>1, <1>2

(* The fields of an operation.                                             *)
LEMMA OpFields ==
  ASSUME op \in Operation
  PROVE  op.p \in Patterns \cup {""} /\ op.step \in Steps /\ op.tries \in Nat
BY ZenonT(60) DEF Operation

(* The operation goes on with step s, or ends.                             *)
LEMMA OpSteps ==
  ASSUME op \in Operation, NEW s \in Steps
  PROVE  /\ GoTo(s) => /\ op' \in Operation
                       /\ op'.step = s /\ op'.p = op.p
         /\ op' = NoOp => /\ op' \in Operation
                          /\ op'.step = ""
<1> DEFINE o == [p |-> op.p, step |-> s, tries |-> 0]
<1>1. NoOp \in Operation /\ NoOp.step = ""
  BY ZenonT(60) DEF NoOp, Steps, Operation
<1>2. GoTo(s) => op' = o
  BY ZenonT(60) DEF GoTo, Operation
<1>3. o \in Operation /\ o.step = s /\ o.p = op.p
  BY ZenonT(60) DEF Operation
<1> HIDE DEF o
<1> QED BY <1>1, <1>2, <1>3, ZenonT(60)

(* A step of an operation that only sends calls and goes on or ends.       *)
LEMMA CallStep ==
  ASSUME Inv, Kept, UNCHANGED <<conf, stage, todo, child, client>>,
         op.step \in {"initialize", "start"},
         op' = NoOp \/ GoTo("start"),
         status' = status \/ Set(op.p, "Failed") \/ Set(op.p, "Running")
  PROVE  Inv'
<1> USE DEF Inv
<1>1. /\ op'.step \in {"", "start"} /\ (op'.step # "" => op'.p = op.p)
      /\ op' \in Operation
  BY OpSteps, ZenonT(60) DEF Typed, Steps
<1>2. /\ status' \in [Patterns -> Statuses]
      /\ \A p \in Patterns : status'[p] = "Stopped" => status[p] = "Stopped"
  BY ZenonT(60) DEF Typed, Set, Statuses
<1>3. Typed'
  BY <1>1, <1>2, KeptFacts, ConfFixed, ZenonT(60) DEF Typed
<1>4. Tracked'
  BY <1>1, <1>2, KeptFacts, ZenonT(60) DEF Tracked, Typed
<1>5. Polite'
  BY <1>1, KeptFacts, ZenonT(60) DEF Polite, Typed
<1>6. Ordered'
  BY <1>1, KeptFacts, ZenonT(60) DEF Ordered, Typed
<1> QED BY <1>3, <1>4, <1>5, <1>6

(* Initialize and Start, answered or failed, keep the invariant.           *)
LEMMA StartCallStep == Inv /\ (InitializePattern \/ StartPattern) => Inv'
<1> SUFFICES ASSUME Inv, InitializePattern \/ StartPattern PROVE Inv'
  OBVIOUS
<1>1. PICK what \in {"initialize", "start"} : Sent(op.p, what)
  BY DEF InitializePattern, StartPattern, Calls, CallFails, Sent
<1>2. op.step \in {"initialize", "start"} /\ op.p \in Patterns /\ Typed
  BY ZenonT(60) DEF InitializePattern, StartPattern, Inv, Typed
<1>3. Kept
  BY <1>1, <1>2, SentKeeps
<1> QED BY <1>2, <1>3, CallStep DEF InitializePattern, StartPattern, StartFails

(* The Stop before the kill keeps it: the client has asked to stop.        *)
LEMMA StopStep == Inv /\ StopPattern => Inv'
<1> SUFFICES ASSUME Inv, StopPattern PROVE Inv'
  OBVIOUS
<1> USE DEF Inv
<1>1. Sent(op.p, "stop")
  BY DEF StopPattern, Calls, CallFails, Sent
<1>2. op.step = "stop" /\ op.p \in Patterns /\ Typed
  BY DEF StopPattern, Typed
<1>3. Kept /\ (client[op.p] # 0 => "stop" \in procs'[client[op.p]].asked)
  BY <1>1, <1>2, SentKeeps
<1>4. op' \in Operation /\ op'.step = "kill" /\ op'.p = op.p
  BY OpSteps, ZenonT(60) DEF StopPattern, Typed, Steps
<1>5. UNCHANGED <<conf, stage, todo, status, child, client>>
  BY DEF StopPattern
<1>6. Typed'
  BY <1>2, <1>3, <1>4, <1>5, KeptFacts, ConfFixed DEF Typed
<1>7. Tracked'
  BY <1>2, <1>3, <1>4, <1>5, KeptFacts, ZenonT(60) DEF Tracked, Typed
<1>8. Polite'
  BY <1>2, <1>3, <1>4, <1>5, KeptFacts, ZenonT(60) DEF Polite, Typed
<1>9. Ordered'
  BY <1>2, <1>3, <1>4, <1>5, KeptFacts, ZenonT(60) DEF Ordered, Typed
<1> QED BY <1>6, <1>7, <1>8, <1>9

(* drain_pattern keeps it: the client has asked to drain.                  *)
LEMMA DrainStep == Inv /\ DrainNext => Inv'
<1> SUFFICES ASSUME Inv, DrainNext PROVE Inv'
  OBVIOUS
<1> USE DEF Inv
<1>1. PICK p \in todo : DrainPattern(p) /\ todo' = todo \ {p}
  BY DEF DrainNext
<1>2. p \in Patterns /\ Typed /\ stage = "draining"
  BY ZenonT(60) DEF Typed, DrainNext
<1>3. Sent(p, "drain") /\ UNCHANGED <<conf, stage, op, status, child, client>>
  BY <1>1 DEF DrainPattern, Calls, CallFails, Sent
<1>4. Kept /\ (client[p] # 0 => "drain" \in procs'[client[p]].asked)
  BY <1>2, <1>3, SentKeeps
<1>5. Typed'
  BY <1>1, <1>3, <1>4, KeptFacts, ConfFixed, ZenonT(60) DEF Typed
<1>6. Tracked'
  BY <1>1, <1>2, <1>3, <1>4, KeptFacts, ZenonT(60) DEF Tracked, Typed
<1>7. Polite'
  BY <1>2, <1>3, <1>4, KeptFacts, ZenonT(60) DEF Polite, Typed
<1>8. Ordered'
  BY <1>1, <1>2, <1>3, <1>4, KeptFacts, ZenonT(60) DEF Ordered, Typed
<1> QED BY <1>5, <1>6, <1>7, <1>8

(* A spawn keeps it, because the pattern has no child that lives.          *)
LEMMA SpawnStep == Inv /\ Spawn => Inv'
<1> SUFFICES ASSUME Inv, Spawn PROVE Inv'
  OBVIOUS
<1> USE DEF Inv
<1>1. /\ op.step = "spawn" /\ op.p \in Patterns /\ child[op.p] = 0 /\ status[op.p] # "Stopped" /\ op \in Operation
      /\ UNCHANGED <<conf, stage, todo, client>> /\ stage \notin {"stopping", "exited"}
      /\ Len(procs) \in Nat
  BY Elements DEF Spawn, Typed, Tracked
<1>2. ASSUME StartFails, UNCHANGED <<procs, child>>
      PROVE  Inv'
  <2>1. op' \in Operation /\ op'.step = ""
    BY <1>1, <1>2, OpSteps, ZenonT(60) DEF StartFails, Steps
  <2>2. /\ status' \in [Patterns -> Statuses]
        /\ \A p \in Patterns : status'[p] = "Stopped" => status[p] = "Stopped"
    BY <1>2, ZenonT(60) DEF Typed, Set, Statuses, StartFails
  <2>3. Typed'
    BY <1>1, <1>2, <2>1, <2>2, ConfFixed, ZenonT(60) DEF Typed
  <2>4. Tracked'
    BY <1>1, <1>2, <2>1, <2>2, ZenonT(60) DEF Tracked, Typed
  <2>5. Polite' /\ Ordered'
    BY <1>1, <1>2, <2>1, ZenonT(60) DEF Polite, Ordered, Typed
  <2> QED BY <2>3, <2>4, <2>5
<1>3. ASSUME procs' = Append(procs, [pat |-> op.p, state |-> "booting", own |-> FALSE, asked |-> {}]),
             child' = [child EXCEPT ![op.p] = Len(procs) + 1],
             GoTo("connect"), UNCHANGED status
      PROVE  Inv'
  <2> DEFINE r == [pat |-> op.p, state |-> "booting", own |-> FALSE, asked |-> {}]
             k == Len(procs) + 1
  <2>1. op' \in Operation /\ op'.step = "connect" /\ op'.p = op.p
    BY <1>1, <1>3, OpSteps, ZenonT(60) DEF Steps
  <2>2. r \in Process /\ r.pat = op.p /\ r.state = "booting" /\ ~r.own
    BY <1>1 DEF Process
  <2>3. procs \in Seq(Process) /\ procs' = Append(procs, r)
    BY <1>3, ZenonT(60) DEF Typed
  <2> HIDE DEF r
  <2>4. /\ procs' \in Seq(Process) /\ Len(procs') = k /\ procs'[k] = r
        /\ \A n \in Procs : procs'[n] = procs[n]
    BY <2>2, <2>3, AppendProperties
  <2>5. Procs' = Procs \cup {k} /\ k \notin Procs /\ Alive' = Alive \cup {k}
    BY <1>1, <2>2, <2>4
  <2>6. \A n \in Alive : procs[n].pat # op.p /\ procs[n].pat \in Patterns
    <3>1. \A n \in Procs : procs[n] \in Process
      BY Elements
    <3> QED BY <1>1, <3>1 DEF Tracked, Process
  <2>7. child' \in [Patterns -> Nat] /\ child'[op.p] = k /\ \A p \in Patterns : p # op.p => child'[p] = child[p]
    BY <1>1, <1>3 DEF Typed
  <2>8. Typed'
    BY <1>1, <1>3, <2>1, <2>4, <2>5, <2>7, ConfFixed, SMTT(60) DEF Typed
  <2>9. Tracked'
    BY <1>1, <1>3, <2>1, <2>2, <2>4, <2>5, <2>6, <2>7 DEF Tracked, Typed
  <2>10. Polite'
    BY <1>1, <1>3, <2>1, <2>2, <2>4, <2>5, <2>6 DEF Polite, Typed
  <2>11. Ordered'
    BY <1>1, <1>3, <2>1, <2>2, <2>4, <2>5 DEF Ordered, Typed
  <2> QED BY <2>8, <2>9, <2>10, <2>11
<1> QED BY <1>2, <1>3 DEF Spawn

(* connect_client keeps it, whichever process it reaches.                  *)
LEMMA ConnectStep == Inv /\ ConnectClient => Inv'
<1> SUFFICES ASSUME Inv, ConnectClient PROVE Inv'
  OBVIOUS
<1> USE DEF Inv
<1>1. /\ op.step = "connect" /\ op.p \in Patterns /\ op \in Operation
      /\ UNCHANGED <<conf, stage, todo, child>> /\ stage \notin {"stopping", "exited"}
  BY DEF ConnectClient, Typed, Tracked
<1>2. ASSUME NEW n \in Procs, IsUp(n), client' = [client EXCEPT ![op.p] = n],
             procs' = [procs EXCEPT ![n].own = @ \/ procs[n].pat = op.p],
             GoTo("initialize"), UNCHANGED status
      PROVE  Inv'
  <2> DEFINE r == [procs[n] EXCEPT !.own = procs[n].own \/ procs[n].pat = op.p]
  <2>1. op' \in Operation /\ op'.step = "initialize" /\ op'.p = op.p
    BY <1>1, <1>2, OpSteps, ZenonT(60) DEF Steps
  <2>2. \A m \in Procs : procs[m] \in Process
    BY Elements
  <2>3. /\ r \in Process /\ r.pat = procs[n].pat /\ r.state = "up" /\ r.asked = procs[n].asked
        /\ (r.own <=> procs[n].own \/ procs[n].pat = op.p)
    BY <1>2, <2>2, ZenonT(60) DEF Process
  <2>4. procs' = [procs EXCEPT ![n] = r]
    BY <1>2
  <2> HIDE DEF r
  <2>5. /\ procs' \in Seq(Process) /\ Procs' = Procs /\ procs'[n] = r
        /\ \A m \in Procs : m # n => procs'[m] = procs[m]
    BY <2>3, <2>4, Replaced, ZenonT(60)
  <2>6. Alive' = Alive /\ \A m \in Procs : /\ procs'[m].pat = procs[m].pat /\ procs'[m].state = procs[m].state
                                           /\ procs'[m].asked = procs[m].asked
    BY <1>2, <2>3, <2>5
  <2>7. /\ client' \in [Patterns -> Nat] /\ client'[op.p] = n
        /\ \A p \in Patterns : p # op.p => client'[p] = client[p]
    BY <1>1, <1>2, Elements DEF Typed
  <2>8. Typed'
    BY <1>1, <1>2, <2>1, <2>5, <2>7, ConfFixed DEF Typed
  <2>9. Tracked'
    BY <1>1, <1>2, <2>1, <2>6 DEF Tracked, Typed
  <2>10. Polite'
    <3>1. \A m \in Alive : procs'[m].own => client'[procs'[m].pat] = m
      <4> SUFFICES ASSUME NEW m \in Alive, procs'[m].own PROVE client'[procs[m].pat] = m
        BY <2>6
      <4>1. procs[m].pat \in Patterns
        BY <2>2 DEF Process
      <4>2. CASE procs[m].pat = op.p
        <5>1. m = child[op.p] /\ ~procs[m].own
          BY <1>1, <4>2 DEF Tracked, Polite
        <5> QED BY <5>1, <4>2, <2>3, <2>5, <2>7, ZenonT(60)
      <4>3. CASE procs[m].pat # op.p
        BY <4>1, <4>3, <2>3, <2>5, <2>7 DEF Polite
      <4> QED BY <4>2, <4>3
    <3>2. \A m \in Procs : procs[m].state = "killed" /\ procs'[m].own => "stop" \in procs[m].asked
      BY <1>2, <2>5 DEF Polite
    <3> QED BY <1>1, <2>1, <2>5, <2>6, <3>1, <3>2, ZenonT(60) DEF Polite
  <2>11. Ordered'
    BY <1>1, <1>2, <2>1, <2>5, <2>6, <2>7 DEF Ordered, Typed
  <2> QED BY <2>8, <2>9, <2>10, <2>11
<1>3. ASSUME \/ op' = [op EXCEPT !.tries = @ + 1] /\ UNCHANGED status
             \/ StartFails,
             UNCHANGED <<client, procs>>
      PROVE  Inv'
  <2>1. op' \in Operation /\ (op'.step = "" \/ (op'.step = "connect" /\ op'.p = op.p))
    <3>1. CASE StartFails
      BY <1>1, <3>1, OpSteps, ZenonT(60) DEF StartFails, Steps
    <3>2. CASE op' = [op EXCEPT !.tries = @ + 1]
      <4> DEFINE o == [p |-> op.p, step |-> op.step, tries |-> op.tries + 1]
      <4>1. op' = o
        BY <1>1, <3>2, ZenonT(60) DEF Operation
      <4> HIDE DEF Patterns
      <4>2. op.p \in Patterns \cup {""} /\ op.step \in Steps /\ op.tries \in Nat
        BY <1>1, OpFields, ZenonT(60)
      <4>3. op.tries + 1 \in Nat
        <5>1. \A t \in Nat : t + 1 \in Nat
          OBVIOUS
        <5> QED BY <4>2, <5>1, Zenon
      <4>4. o \in Operation /\ o.step = op.step /\ o.p = op.p
        BY <4>2, <4>3, ZenonT(60) DEF Operation
      <4> HIDE DEF o
      <4> QED BY <1>1, <4>1, <4>4
    <3> QED BY <1>3, <3>1, <3>2, ZenonT(60)
  <2>2. /\ status' \in [Patterns -> Statuses]
        /\ \A p \in Patterns : status'[p] = "Stopped" => status[p] = "Stopped"
    BY <1>3, ZenonT(60) DEF Typed, Set, Statuses, StartFails
  <2>3. Typed'
    BY <1>1, <1>3, <2>1, <2>2, ConfFixed, ZenonT(60) DEF Typed
  <2>4. Tracked'
    BY <1>1, <1>3, <2>1, <2>2, ZenonT(60) DEF Tracked, Typed
  <2>5. Polite' /\ Ordered'
    BY <1>1, <1>3, <2>1, ZenonT(60) DEF Polite, Ordered, Typed
  <2> QED BY <2>3, <2>4, <2>5
<1> QED BY <1>2, <1>3 DEF ConnectClient

(* The state of one process changes; it does not come to life.             *)
LEMMA StateChanged ==
  ASSUME Typed, NEW n \in Procs, NEW s \in {"up", "exited", "killed"},
         procs' = [procs EXCEPT ![n].state = s]
  PROVE  /\ procs' \in Seq(Process) /\ Procs' = Procs
         /\ procs'[n].state = s
         /\ \A m \in Procs : /\ procs'[m].pat = procs[m].pat /\ procs'[m].own = procs[m].own
                             /\ procs'[m].asked = procs[m].asked
                             /\ m # n => procs'[m].state = procs[m].state
<1> DEFINE r == [procs[n] EXCEPT !.state = s]
<1>1. procs[n] \in Process
  BY Elements
<1>2. /\ r \in Process /\ r.pat = procs[n].pat /\ r.state = s /\ r.own = procs[n].own
      /\ r.asked = procs[n].asked
  BY <1>1 DEF Process
<1>3. procs' = [procs EXCEPT ![n] = r]
  OBVIOUS
<1> HIDE DEF r
<1>4. /\ procs' \in Seq(Process) /\ Procs' = Procs /\ procs'[n] = r
      /\ \A m \in Procs : m # n => procs'[m] = procs[m]
  BY <1>2, <1>3, Replaced, ZenonT(60)
<1> QED BY <1>2, <1>4

(* The kill keeps it: it ends the only process of the pattern that lives.  *)
LEMMA KillStep == Inv /\ KillProcess => Inv'
<1> SUFFICES ASSUME Inv, KillProcess PROVE Inv'
  OBVIOUS
<1> USE DEF Inv
<1>1. /\ op.step = "kill" /\ op.p \in Patterns /\ op \in Operation
      /\ UNCHANGED <<conf, stage, todo, client>>
  BY DEF KillProcess, Typed
<1>2. op' \in Operation /\ op'.step = ""
  BY <1>1, OpSteps, ZenonT(60) DEF KillProcess, Steps
<1>3. /\ child' \in [Patterns -> Nat] /\ child'[op.p] = 0
      /\ \A p \in Patterns : p # op.p => child'[p] = child[p]
  BY <1>1 DEF KillProcess, Typed
<1>4. /\ status' \in [Patterns -> Statuses]
      /\ \A p \in Patterns : p # op.p => status'[p] = status[p]
  BY <1>1 DEF KillProcess, Typed, Set, Statuses
<1>5. /\ procs' \in Seq(Process) /\ Procs' = Procs
      /\ \A m \in Procs : /\ procs'[m].pat = procs[m].pat /\ procs'[m].own = procs[m].own
                          /\ procs'[m].asked = procs[m].asked
                          /\ \/ procs'[m].state = procs[m].state /\ (m \in Alive => m # child[op.p])
                             \/ procs'[m].state = "killed" /\ m \in Alive /\ m = child[op.p]
  <2>1. CASE child[op.p] \in Alive
    <3> DEFINE k == child[op.p]
    <3>1. k \in Procs /\ k \in Alive /\ procs' = [procs EXCEPT ![k].state = "killed"]
      BY <2>1 DEF KillProcess
    <3> HIDE DEF k
    <3>2. /\ procs' \in Seq(Process) /\ Procs' = Procs /\ procs'[k].state = "killed"
          /\ \A m \in Procs : /\ procs'[m].pat = procs[m].pat /\ procs'[m].own = procs[m].own
                              /\ procs'[m].asked = procs[m].asked
                              /\ m # k => procs'[m].state = procs[m].state
      BY <3>1, StateChanged, ZenonT(60)
    <3> QED BY <3>1, <3>2 DEF k
  <2>2. CASE child[op.p] \notin Alive
    BY <2>2 DEF KillProcess, Typed
  <2> QED BY <2>1, <2>2
<1>6. \A m \in Alive : procs[m].pat \in Patterns /\ child[procs[m].pat] = m
  <2>1. \A m \in Procs : procs[m] \in Process
    BY Elements
  <2> QED BY <2>1, ZenonT(60) DEF Tracked, Process
<1>7. /\ Alive' = Alive \ {child[op.p]}
      /\ \A m \in Alive' : procs[m].pat # op.p
  BY <1>5, <1>6
<1>8. Typed'
  BY <1>1, <1>2, <1>3, <1>4, <1>5, ConfFixed, ZenonT(60) DEF Typed
<1>9. Tracked'
  <2>1. \A m \in Alive' : child'[procs'[m].pat] = m
    BY <1>3, <1>5, <1>6, <1>7, SMTT(60)
  <2>2. \A p \in Patterns : child'[p] # 0 => child'[p] \in Procs' /\ procs'[child'[p]].pat = p
    <3> SUFFICES ASSUME NEW p \in Patterns, child'[p] # 0
                 PROVE  child'[p] \in Procs' /\ procs'[child'[p]].pat = p
      OBVIOUS
    <3>1. child'[p] = child[p] /\ child[p] # 0
      BY <1>3
    <3>2. child[p] \in Procs /\ procs[child[p]].pat = p
      BY <3>1, ZenonT(60) DEF Tracked
    <3> HIDE DEF Procs
    <3> QED BY <1>5, <3>1, <3>2
  <2>3. \A p \in Patterns : status'[p] = "Stopped" => child'[p] = 0
    BY <1>3, <1>4, ZenonT(60) DEF Tracked
  <2>4. \A p \in Patterns : child[p] = 0 => child'[p] = 0
    BY <1>3
  <2>5. stage = "starting" => \A p \in todo : child'[p] = 0
    BY <2>4, ZenonT(60) DEF Tracked, Typed
  <2>6. stage \in {"stopping", "exited"} => \A p \in Patterns \ todo : child'[p] = 0
    BY <1>3, <2>4, ZenonT(60) DEF Tracked
  <2> QED BY <1>1, <1>2, <2>1, <2>2, <2>3, <2>5, <2>6, ZenonT(60) DEF Tracked
<1>10. \A m \in Procs : m \in Alive /\ m = child[op.p] /\ procs[m].own =>
                          /\ client[op.p] = m /\ client[op.p] # 0 /\ "stop" \in procs[m].asked
  <2> SUFFICES ASSUME NEW m \in Procs, m \in Alive, m = child[op.p], procs[m].own
               PROVE  client[op.p] = m /\ client[op.p] # 0 /\ "stop" \in procs[m].asked
    OBVIOUS
  <2>1. procs[m].pat = op.p
    BY <1>1, <1>6 DEF Tracked, Typed
  <2> QED BY <1>1, <2>1, Elements DEF Polite
<1>11. Polite'
  <2>1. \A m \in Alive' : procs'[m].own => client'[procs'[m].pat] = m
    BY <1>1, <1>5, <1>7 DEF Polite
  <2>2. \A m \in Procs : procs'[m].state = "killed" /\ procs'[m].own => "stop" \in procs'[m].asked
    BY <1>5, <1>10 DEF Polite
  <2> HIDE DEF Procs, Alive
  <2> QED BY <1>2, <1>5, <2>1, <2>2, ZenonT(60) DEF Polite
<1>12. Ordered'
  <2> SUFFICES ASSUME ~Api PROVE Ordered'
    BY <1>1, ZenonT(60) DEF Ordered
  <2>1. stage \in {"stopping", "exited"}
    BY <1>1 DEF Ordered, Typed, Stages
  <2>2. \A m \in Procs : procs'[m].state = "killed" /\ procs'[m].own => "drain" \in procs'[m].asked
    BY <1>1, <1>5, <1>10, <2>1 DEF Ordered
  <2> QED BY <1>1, <1>2, <1>5, <2>1, <2>2, ZenonT(60) DEF Ordered, Typed
<1> QED BY <1>8, <1>9, <1>11, <1>12

(* Processes that live were spawned.                                       *)
LEMMA AliveProcs == Alive \subseteq Procs
BY DEF Alive

(* A process that comes up, fails to or dies keeps it.                     *)
LEMMA HostStep ==
  ASSUME Inv, NEW n \in Procs, ServeBackendDriver(n) \/ Dies(n)
  PROVE  Inv'
<1> USE DEF Inv
<1>1. UNCHANGED <<conf, stage, todo, op, status, child, client>> /\ n \in Alive
  BY DEF ServeBackendDriver, Dies
<1>2. PICK s \in {"up", "exited"} : procs' = [procs EXCEPT ![n].state = s]
  BY DEF ServeBackendDriver, BootstrapWithConfig, Dies
<1>3. /\ procs' \in Seq(Process) /\ Procs' = Procs
      /\ procs'[n].state = s
      /\ \A m \in Procs : /\ procs'[m].pat = procs[m].pat /\ procs'[m].own = procs[m].own
                          /\ procs'[m].asked = procs[m].asked
                          /\ m # n => procs'[m].state = procs[m].state
  BY <1>2, StateChanged, ZenonT(60)
<1>4. /\ Alive' \subseteq Alive
      /\ \A m \in Procs : procs'[m].state = "killed" <=> procs[m].state = "killed"
  BY <1>1, <1>2, <1>3
<1>5. Typed'
  BY <1>1, <1>3, ConfFixed, ZenonT(60) DEF Typed
<1> HIDE DEF Procs, Alive
<1>6. Tracked'
  <2>1. \A m \in Alive' : child'[procs'[m].pat] = m
    <3> SUFFICES ASSUME NEW m \in Alive' PROVE child'[procs'[m].pat] = m
      OBVIOUS
    <3>1. m \in Alive /\ m \in Procs
      BY <1>4, AliveProcs
    <3>2. child[procs[m].pat] = m /\ procs'[m].pat = procs[m].pat
      BY <1>3, <3>1, ZenonT(60) DEF Tracked
    <3> QED BY <1>1, <3>2
  <2>2. \A p \in Patterns : child'[p] # 0 => child'[p] \in Procs' /\ procs'[child'[p]].pat = p
    BY <1>1, <1>3, ZenonT(60) DEF Tracked
  <2> QED BY <1>1, <2>1, <2>2, ZenonT(60) DEF Tracked
<1>7. Polite'
  <2>1. \A m \in Alive' : procs'[m].own => client'[procs'[m].pat] = m
    BY <1>1, <1>3, <1>4, AliveProcs DEF Polite
  <2>2. Step("connect") => \A m \in Alive' : procs'[m].pat = op.p => ~procs'[m].own
    BY <1>3, <1>4, AliveProcs DEF Polite
  <2>3. Step("kill") /\ client[op.p] # 0 => "stop" \in procs'[client[op.p]].asked
    BY <1>3 DEF Polite, Typed
  <2>4. \A m \in Procs : procs'[m].state = "killed" /\ procs'[m].own => "stop" \in procs'[m].asked
    BY <1>3, <1>4, SMTT(60) DEF Polite
  <2> QED BY <1>1, <1>3, <2>1, <2>2, <2>3, <2>4 DEF Polite
<1>8. Ordered'
  BY <1>1, <1>3, <1>4, ZenonT(60) DEF Ordered, Typed
<1> QED BY <1>5, <1>6, <1>7, <1>8

(* An operation begins on pattern p.                                       *)
LEMMA Begun ==
  ASSUME Typed, NEW p \in Patterns, NEW s \in {"spawn", "stop"}, Begins(p, s),
         NEW t \in {"Starting", "Stopping"}, Set(p, t)
  PROVE  /\ op' \in Operation /\ op'.step = s /\ op'.p = p
         /\ status' \in [Patterns -> Statuses]
         /\ status'[p] # "Stopped" /\ \A q \in Patterns : q # p => status'[q] = status[q]
<1>1. op' \in Operation /\ op'.step = s /\ op'.p = p
  BY ZenonT(60) DEF Begins, Operation, Steps
<1>2. /\ status' \in [Patterns -> Statuses]
      /\ status'[p] # "Stopped" /\ \A q \in Patterns : q # p => status'[q] = status[q]
  BY ZenonT(60) DEF Set, Typed, Statuses
<1> QED BY <1>1, <1>2

(* The steps of main leave the processes as they are.  The start of the    *)
(* next pattern, and the end of the start.                                 *)
LEMMA StartNextStep == Inv /\ StartNext => Inv'
<1> SUFFICES ASSUME Inv, StartNext PROVE Inv'
  OBVIOUS
<1> USE DEF Inv
<1>1. stage = "starting" /\ op.step = "" /\ UNCHANGED <<conf, child, client, procs>>
  BY ZenonT(60) DEF StartNext, NoOp
<1>2. ASSUME NEW p \in todo, Begins(p, "spawn"), Set(p, "Starting"), todo' = todo \ {p}, UNCHANGED stage
      PROVE  Inv'
  <2>1. p \in Patterns
    BY ZenonT(60) DEF Typed
  <2>2. /\ op' \in Operation /\ op'.step = "spawn" /\ op'.p = p
        /\ status' \in [Patterns -> Statuses]
        /\ status'[p] # "Stopped" /\ \A q \in Patterns : q # p => status'[q] = status[q]
    BY <1>2, <2>1, Begun
  <2>3. Typed'
    BY <1>1, <1>2, <2>1, <2>2, ConfFixed, ZenonT(60) DEF Typed
  <2>4. Tracked'
    BY <1>1, <1>2, <2>1, <2>2, ZenonT(60) DEF Tracked, Typed
  <2>5. Polite' /\ Ordered'
    BY <1>1, <1>2, <2>1, <2>2, ZenonT(60) DEF Polite, Ordered, Typed
  <2> QED BY <2>3, <2>4, <2>5
<1>3. ASSUME todo = {}, stage' = "serving", UNCHANGED <<todo, op, status>>
      PROVE  Inv'
  <2>1. Typed'
    BY <1>1, <1>3, ConfFixed, ZenonT(60) DEF Typed, Stages
  <2>2. Tracked'
    BY <1>1, <1>3, ZenonT(60) DEF Tracked
  <2>3. Polite' /\ Ordered'
    BY <1>1, <1>3, ZenonT(60) DEF Polite, Ordered
  <2> QED BY <2>1, <2>2, <2>3
<1> QED BY <1>2, <1>3 DEF StartNext

(* The stop of the next pattern, and the end of the shutdown.              *)
LEMMA StopNextStep == Inv /\ StopNext => Inv'
<1> SUFFICES ASSUME Inv, StopNext PROVE Inv'
  OBVIOUS
<1> USE DEF Inv
<1>1. stage = "stopping" /\ op.step = "" /\ UNCHANGED <<conf, child, client, procs>>
  BY ZenonT(60) DEF StopNext, NoOp
<1>2. ASSUME NEW p \in todo, Begins(p, "stop"), Set(p, "Stopping"), todo' = todo \ {p}, UNCHANGED stage
      PROVE  Inv'
  <2>1. p \in Patterns
    BY ZenonT(60) DEF Typed
  <2>2. /\ op' \in Operation /\ op'.step = "stop" /\ op'.p = p
        /\ status' \in [Patterns -> Statuses]
        /\ status'[p] # "Stopped" /\ \A q \in Patterns : q # p => status'[q] = status[q]
    BY <1>2, <2>1, Begun
  <2>3. Typed'
    BY <1>1, <1>2, <2>1, <2>2, ConfFixed, ZenonT(60) DEF Typed
  <2>4. Tracked'
    BY <1>1, <1>2, <2>1, <2>2, ZenonT(60) DEF Tracked, Typed
  <2>5. Polite' /\ Ordered'
    BY <1>1, <1>2, <2>1, <2>2, ZenonT(60) DEF Polite, Ordered, Typed
  <2> QED BY <2>3, <2>4, <2>5
<1>3. ASSUME todo = {}, stage' = "exited", UNCHANGED <<todo, op, status>>
      PROVE  Inv'
  <2>1. Typed'
    BY <1>1, <1>3, ConfFixed, ZenonT(60) DEF Typed, Stages
  <2>2. Tracked'
    BY <1>1, <1>3, ZenonT(60) DEF Tracked
  <2>3. Polite' /\ Ordered'
    BY <1>1, <1>3, ZenonT(60) DEF Polite, Ordered
  <2> QED BY <2>1, <2>2, <2>3
<1> QED BY <1>2, <1>3 DEF StopNext

(* A stop or a start asked of the manager while it serves.                 *)
LEMMA ManageStep ==
  ASSUME Inv, NEW p \in Patterns, Manage(p)
  PROVE  Inv'
<1> USE DEF Inv
<1>1. /\ Api /\ stage = "serving" /\ op.step = ""
      /\ UNCHANGED <<conf, stage, todo, child, client, procs>>
  BY ZenonT(60) DEF Manage, NoOp
<1>2. PICK s \in {"spawn", "stop"} : /\ Begins(p, s) /\ (Set(p, "Starting") \/ Set(p, "Stopping"))
                                     /\ s = "spawn" => status[p] = "Stopped"
  BY DEF Manage
<1>3. /\ op' \in Operation /\ op'.step = s /\ op'.p = p
      /\ status' \in [Patterns -> Statuses]
      /\ status'[p] # "Stopped" /\ \A q \in Patterns : q # p => status'[q] = status[q]
  BY <1>2, Begun
<1>4. Typed'
  BY <1>1, <1>3, ConfFixed, ZenonT(60) DEF Typed
<1>5. Tracked'
  BY <1>1, <1>2, <1>3, ZenonT(60) DEF Tracked, Typed
<1>6. Polite' /\ Ordered'
  BY <1>1, <1>3, ZenonT(60) DEF Polite, Ordered, Typed
<1> QED BY <1>4, <1>5, <1>6

(* health_check keeps it: it never makes a pattern Stopped.                *)
LEMMA HealthStep ==
  ASSUME Inv, NEW p \in Patterns, HealthCheck(p)
  PROVE  Inv'
<1> USE DEF Inv
<1>1. UNCHANGED <<conf, stage, todo, op, child, client, procs>> /\ op.step = ""
  BY ZenonT(60) DEF HealthCheck, NoOp
<1>2. /\ status' \in [Patterns -> Statuses]
      /\ \A q \in Patterns : status'[q] = "Stopped" => status[q] = "Stopped"
  BY ZenonT(60) DEF HealthCheck, HostHealth, Typed, Statuses
<1>3. Typed'
  BY <1>1, <1>2, ConfFixed, ZenonT(60) DEF Typed
<1>4. Tracked'
  BY <1>1, <1>2, ZenonT(60) DEF Tracked, Typed
<1>5. Polite' /\ Ordered'
  BY <1>1, ZenonT(60) DEF Polite, Ordered, Typed
<1> QED BY <1>3, <1>4, <1>5

(* ctrl_c, and the end of the draining.                                    *)
LEMMA ShutdownStep == Inv /\ (CtrlC \/ Drained) => Inv'
<1> SUFFICES ASSUME Inv, CtrlC \/ Drained PROVE Inv'
  OBVIOUS
<1> USE DEF Inv
<1>1. /\ UNCHANGED <<conf, op, status, child, client, procs>> /\ todo' = Patterns
      /\ \/ stage = "serving" /\ stage' = "draining"
         \/ stage = "draining" /\ stage' = "stopping" /\ op.step = "" /\ todo = {}
  <2>1. CASE CtrlC
    BY <2>1 DEF CtrlC
  <2>2. CASE Drained
    BY <2>2, ZenonT(60) DEF Drained, NoOp
  <2> QED BY <2>1, <2>2, ZenonT(60)
<1>2. Typed'
  BY <1>1, ConfFixed, ZenonT(60) DEF Typed, Stages
<1>3. Tracked'
  BY <1>1, ZenonT(60) DEF Tracked, Typed
<1>4. Polite' /\ Ordered'
  BY <1>1, ZenonT(60) DEF Polite, Ordered, Typed
<1> QED BY <1>2, <1>3, <1>4

(* A step of something else.                                               *)
LEMMA Stutter == Inv /\ UNCHANGED vars => Inv'
<1> SUFFICES ASSUME Inv, UNCHANGED vars PROVE Inv'
  OBVIOUS
<1> USE DEF Inv, vars
<1>1. Typed'
  BY ConfFixed, ZenonT(60) DEF Typed
<1>2. Tracked'
  BY ZenonT(60) DEF Tracked
<1>3. Polite' /\ Ordered'
  BY ZenonT(60) DEF Polite, Ordered
<1> QED BY <1>1, <1>2, <1>3

(* The inductive invariant holds of every behaviour of the proxy.          *)
THEOREM Invariance == Spec => []Inv
<1>1. Init => Inv
  BY InitInv
<1>2. Inv /\ [Next]_vars => Inv'
  <2> SUFFICES ASSUME Inv, [Next]_vars PROVE Inv'
    OBVIOUS
  <2>1. CASE Manager
    BY <2>1, SpawnStep, ConnectStep, StartCallStep, StopStep, KillStep DEF Manager
  <2>2. CASE StartNext \/ CtrlC \/ DrainNext \/ Drained \/ StopNext
    BY <2>2, StartNextStep, ShutdownStep, DrainStep, StopNextStep
  <2>3. CASE \E p \in Patterns : Manage(p) \/ HealthCheck(p)
    BY <2>3, ManageStep, HealthStep
  <2>4. CASE \E n \in Procs : ServeBackendDriver(n) \/ Dies(n)
    BY <2>4, HostStep
  <2>5. CASE UNCHANGED vars
    BY <2>5, Stutter
  <2> QED BY <2>1, <2>2, <2>3, <2>4, <2>5 DEF Next
<1> QED BY <1>1, <1>2, PTL DEF Spec

(* When prism-proxy has shut down none of the processes it spawned runs,   *)
(* whatever the patterns, their ports, the faults and the attempts.        *)
THEOREM NoneLeft == Spec => []NoneLeftBehind
<1>1. Inv => NoneLeftBehind
  <2> SUFFICES ASSUME Inv, stage = "exited", NEW n \in Alive PROVE FALSE
    BY DEF NoneLeftBehind
  <2>1. procs[n].pat \in Patterns
    BY Elements DEF Inv, Process
  <2>2. child[procs[n].pat] = n /\ child[procs[n].pat] = 0
    BY <2>1, ZenonT(60) DEF Inv, Tracked
  <2> QED BY <2>2
<1> QED BY <1>1, Invariance, PTL

(* A plugin the proxy is connected to is asked to drain and to stop before *)
(* it is killed, for every setup.                                          *)
THEOREM Graceful == Spec => []GracefulOrder
<1>1. Inv => GracefulOrder
  BY ZenonT(60) DEF Inv, Polite, Ordered, GracefulOrder
<1> QED BY <1>1, Invariance, PTL

=============================================================================
