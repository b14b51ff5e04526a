--------------------------- MODULE ControlStream ---------------------------
(***************************************************************************)
(* The control plane between the proxy and a pattern process: the stream   *)
(* ManagePattern (pkg/plugin/proxy_control_plane_server.go) that a pattern *)
(* opens and registers on, SendCommand, which numbers a command, queues it *)
(* and waits for the answer with its number, and the pattern's client      *)
(* (pattern_control_plane_client.go), which carries commands out on the    *)
(* runner one by one.  A runner may also work from a file, without proxy.  *)
(*                                                                         *)
(* One pattern, with the same name and process id after a restart, as in a *)
(* container: all its connections have the same instance ID.  Connection i *)
(* is that of the i-th process.                                            *)
(***************************************************************************)
EXTENDS Runner

CONSTANT Capacity  \* of a connection's channel of commands, 10 in the code

VARIABLES
  main, loop,  \* of the pattern process: its main, its processCommands
  stopped,     \* stopChan is closed
  job,         \* the command, or the answer, in hand
  conns,       \* the connections, as the proxy has them
  registered,  \* s.patterns: the connection under the instance ID, 0 for none
  call, sent,  \* of each caller: its SendCommand; commands sent
  wrong,       \* callers that got an answer to another command
  panicked     \* the proxy process has panicked

process == <<runner, main, loop, stopped, job>>
proxy   == <<conns, registered, call, sent, wrong, panicked>>
vars    == <<conf, process, proxy>>

mode        == conf.mode      \* "proxy" or "file"
Commands    == conf.commands  \* the commands the proxy sends
Faults      == conf.faults    \* connections break, processes are killed
Signals     == conf.signals   \* the process gets SIGTERM
Callers     == conf.callers   \* goroutines that call SendCommand
MaxSent     == conf.sent      \* bound: commands sent
MaxConns    == conf.conns     \* bound: processes started

NoJob  == [id |-> 0, who |-> "", op |-> ""]
NoCall == [pc |-> "idle", conn |-> 0, cmd |-> NoJob]

NewConn == [srv |-> "registering", open |-> TRUE, next |-> 0, pending |-> {},
            queue |-> <<>>, closed |-> FALSE, sender |-> TRUE, down |-> <<>>, up |-> <<>>]

Init ==
  /\ RunnerInit
  /\ main = "off" /\ loop = "off" /\ stopped = FALSE /\ job = NoJob
  /\ conns = <<>> /\ registered = 0
  /\ call = [c \in Callers |-> NoCall] /\ sent = 0
  /\ wrong = {} /\ panicked = FALSE

Conns == 1 .. Len(conns)
me    == Len(conns)   \* the connection of the process that runs

-----------------------------------------------------------------------------
(* ManagePattern.  The connection is stored before the registration is     *)
(* acknowledged; when that fails it stays stored.                          *)

Register(i) ==
  /\ conns[i].srv = "registering"
  /\ registered' = i
  /\ conns' = [conns EXCEPT ![i].srv = "stored"]
  /\ UNCHANGED <<conf, process, call, sent, wrong, panicked>>

Acknowledge(i) ==
  /\ conns[i].srv = "stored"
  /\ conns' = [conns EXCEPT
       ![i].srv  = IF conns[i].open THEN "serving" ELSE "refused",
       ![i].down = IF conns[i].open THEN Append(@, [NoJob EXCEPT !.op = "ack"]) ELSE @]
  /\ UNCHANGED <<conf, process, registered, call, sent, wrong, panicked>>

(* The goroutine that receives: an answer goes to the caller that waits    *)
(* for its number; others are dropped.                                     *)
Waiting(i, n) == {p \in conns[i].pending : p.id = n}

Receive(i) ==
  /\ conns[i].srv \in {"serving", "ending", "closing"} /\ conns[i].up # <<>>
  /\ LET a == Head(conns[i].up) IN
     /\ conns' = [conns EXCEPT ![i].up = Tail(@), ![i].pending = @ \ Waiting(i, a.id)]
     /\ wrong' = wrong \cup {p.who : p \in {q \in Waiting(i, a.id) : call[q.who].cmd # a}}
     /\ call' = [c \in Callers |->
          IF \E p \in Waiting(i, a.id) : p.who = c THEN NoCall ELSE call[c]]
  /\ UNCHANGED <<conf, process, registered, sent, panicked>>

(* It sees that the connection is broken, or closed by the pattern.        *)
ReceiveEnds(i) ==
  /\ conns[i].srv = "serving" /\ ~conns[i].open /\ conns[i].up = <<>>
  /\ conns' = [conns EXCEPT ![i].srv = "ending"]
  /\ UNCHANGED <<conf, process, registered, call, sent, wrong, panicked>>

(* The goroutine that sends; an error of Send ends it and the connection.  *)
Send(i) ==
  /\ conns[i].sender /\ conns[i].queue # <<>>
  /\ conns[i].srv \notin {"registering", "stored", "refused"}
  /\ conns' = [conns EXCEPT
       ![i].queue  = Tail(@),
       ![i].down   = IF conns[i].open THEN Append(@, Head(conns[i].queue)) ELSE @,
       ![i].sender = conns[i].open,
       ![i].srv    = IF ~conns[i].open /\ @ = "serving" THEN "ending" ELSE @]
  /\ UNCHANGED <<conf, process, registered, call, sent, wrong, panicked>>

(* The clean-up: the instance ID is deleted, whoever has it, then the      *)
(* channel is closed.                                                      *)
CleanUp(i) ==
  \/ /\ conns[i].srv = "ending"
     /\ registered' = 0
     /\ conns' = [conns EXCEPT ![i].srv = "closing"]
     /\ UNCHANGED <<conf, process, call, sent, wrong, panicked>>
  \/ /\ conns[i].srv = "closing"
     /\ conns' = [conns EXCEPT ![i].srv = "done", ![i].closed = TRUE]
     /\ UNCHANGED <<conf, process, registered, call, sent, wrong, panicked>>

-----------------------------------------------------------------------------
(* SendCommand: the connection is looked up and the command numbered, then *)
(* queued, in a channel that may be full, or closed by now.                *)
(* Mutant: the numbers are not counted up.                                 *)
SendCommandUnnumbered(c, op) ==
  /\ call[c].pc = "idle" /\ registered # 0 /\ sent < MaxSent
  /\ LET i == registered
         cmd == [id |-> 1, who |-> c, op |-> op] IN
     /\ conns' = [conns EXCEPT
          ![i].pending = (@ \ Waiting(i, 1)) \cup {[id |-> 1, who |-> c]}]
     /\ call' = [call EXCEPT ![c] = [pc |-> "queue", conn |-> i, cmd |-> cmd]]
  /\ sent' = sent + 1
  /\ UNCHANGED <<conf, process, registered, wrong, panicked>>

SendCommand(c, op) ==
  /\ call[c].pc = "idle" /\ registered # 0 /\ sent < MaxSent
  /\ LET i == registered
         n == conns[i].next + 1 IN
     /\ conns' = [conns EXCEPT ![i].next = n,
                               ![i].pending = @ \cup {[id |-> n, who |-> c]}]
     /\ call' = [call EXCEPT ![c] = [pc |-> "queue", conn |-> i,
                                     cmd |-> [id |-> n, who |-> c, op |-> op]]]
  /\ sent' = sent + 1
  /\ UNCHANGED <<conf, process, registered, wrong, panicked>>

Enqueue(c) ==
  /\ call[c].pc = "queue"
  /\ LET i == call[c].conn IN
     \/ /\ conns[i].closed
        /\ panicked' = TRUE /\ UNCHANGED <<conns, call>>
     \/ /\ ~conns[i].closed /\ Len(conns[i].queue) < Capacity
        /\ conns' = [conns EXCEPT ![i].queue = Append(@, call[c].cmd)]
        /\ call' = [call EXCEPT ![c].pc = "wait"]
        /\ UNCHANGED panicked
  /\ UNCHANGED <<conf, process, registered, sent, wrong>>

-----------------------------------------------------------------------------
(* The pattern process.  Connect: dial, open the stream, register, and     *)
(* wait for the acknowledgement.                                           *)

Connect ==
  /\ mode = "proxy" /\ main = "off" /\ Len(conns) < MaxConns
  /\ main' = "connect"
  /\ conns' = Append(conns, NewConn)
  /\ UNCHANGED <<conf, runner, loop, stopped, job, registered, call, sent, wrong, panicked>>

Connected ==
  /\ main = "connect" /\ conns[me].down # <<>>
  /\ main' = "up" /\ loop' = "check"
  /\ conns' = [conns EXCEPT ![me].down = Tail(@)]
  /\ UNCHANGED <<conf, runner, stopped, job, registered, call, sent, wrong, panicked>>

(* processCommands: stopChan is looked at before every Recv, and Recv      *)
(* waits for a command or the end of the connection.                       *)
LoopCheck ==
  /\ loop = "check"
  /\ loop' = IF stopped THEN "off" ELSE "recv"
  /\ UNCHANGED <<conf, runner, main, stopped, job, proxy>>

LoopRecv ==
  /\ loop = "recv"
  /\ \/ /\ conns[me].down # <<>>
        /\ job' = Head(conns[me].down)
        /\ conns' = [conns EXCEPT ![me].down = Tail(@)]
        /\ loop' = "handle"
     \/ /\ conns[me].down = <<>> /\ ~conns[me].open
        /\ loop' = "off" /\ UNCHANGED <<job, conns>>
  /\ UNCHANGED <<conf, runner, main, stopped, registered, call, sent, wrong, panicked>>

(* handleShutdown: the runner's errors are dropped.  stopChan is closed a  *)
(* second time, with a panic, when Close has done it before.               *)
HandleShutdown ==
  \/ ~stopped /\ StopPattern /\ stopped' = TRUE
  \/ stopped /\ crashed' = TRUE /\ UNCHANGED <<held, pattern, last, stopped>>

HandleInitialize  == AdapterInitialize /\ UNCHANGED stopped
HandleStart       == StartPattern /\ UNCHANGED stopped
HandleStop        == StopPattern /\ UNCHANGED stopped
HandleHealthCheck == UNCHANGED <<runner, stopped>>

(* handleCommand.  A command of another type is an error, and an error     *)
(* still has an (empty) answer.                                            *)
HandleCommand ==
  CASE job.op = "Initialize"  -> HandleInitialize
    [] job.op = "Start"       -> HandleStart
    [] job.op = "Stop"        -> HandleStop
    [] job.op = "HealthCheck" -> HandleHealthCheck
    [] job.op = "Shutdown"    -> HandleShutdown
    [] OTHER                  -> UNCHANGED <<runner, stopped>>

(* Mutant: an error has no answer.                                         *)
LoopHandleQuietly ==
  /\ loop = "handle" /\ HandleCommand
  /\ loop' = IF job.op = "Other" THEN "check" ELSE "answer"
  /\ UNCHANGED <<conf, main, job, proxy>>

LoopHandle ==
  /\ loop = "handle" /\ HandleCommand
  /\ loop' = "answer"
  /\ UNCHANGED <<conf, main, job, proxy>>

LoopAnswer ==
  /\ loop = "answer"
  /\ IF conns[me].open
       THEN /\ conns' = [conns EXCEPT ![me].up = Append(@, job)]
            /\ loop' = "check"
       ELSE loop' = "off" /\ UNCHANGED conns
  /\ job' = NoJob
  /\ UNCHANGED <<conf, runner, main, stopped, registered, call, sent, wrong, panicked>>

(* A signal: main returns, and the deferred Close closes stopChan, which a *)
(* Shutdown may have closed, waits for the loop, and closes the connection. *)
Close ==
  /\ Signals /\ main = "up" /\ mode = "proxy"
  /\ main' = "closing"
  /\ stopped' = TRUE
  /\ crashed' = stopped
  /\ UNCHANGED <<conf, held, pattern, last, loop, job, proxy>>

Ends ==
  /\ main' = "off" /\ loop' = "off" /\ stopped' = FALSE /\ job' = NoJob
  /\ RunnerLost

Closed ==
  /\ main = "closing" /\ loop = "off" /\ Ends
  /\ conns' = [conns EXCEPT ![me].open = FALSE]
  /\ UNCHANGED <<conf, registered, call, sent, wrong, panicked>>

(* The process is killed, has panicked, or could not connect.              *)
Killed ==
  /\ main # "off" /\ (Faults \/ crashed \/ (main = "connect" /\ ~conns[me].open))
  /\ Ends
  /\ conns' = IF conns = <<>> THEN conns
              ELSE [conns EXCEPT ![me].open = FALSE, ![me].down = <<>>]
  /\ UNCHANGED <<conf, registered, call, sent, wrong, panicked>>

(* The network fails, and takes with it what was under way.                *)
Breaks(i) ==
  /\ Faults /\ conns[i].open
  /\ conns' = [conns EXCEPT ![i].open = FALSE, ![i].down = <<>>, ![i].up = <<>>]
  /\ UNCHANGED <<conf, process, registered, call, sent, wrong, panicked>>

-----------------------------------------------------------------------------
(* The runners' mains: the control plane's client, or a configuration      *)
(* file, where every error ends the process.                               *)

FileStep(from, to, Op) ==
  /\ mode = "file" /\ main = from
  /\ Op /\ main' = IF last'.ok THEN to ELSE "failed"
  /\ UNCHANGED <<conf, loop, stopped, job, proxy>>

FileMain(Initialize, Start, Stop) ==
  \/ FileStep("off", "init", UNCHANGED runner)
  \/ FileStep("init", "start", Initialize)
  \/ FileStep("start", "up", Start)
  \/ Signals /\ FileStep("up", "exited", Stop)

ProxyMain == Connect \/ Connected \/ Close \/ Closed

ConsumerMain ==
  kind = "consumer" /\ (ProxyMain \/ FileMain(ConsumerInitialize, ConsumerStart, ConsumerStop))

KeyValueMain ==
  kind = "keyvalue" /\ (ProxyMain \/ FileMain(KeyValueInitialize, KeyValueStart, KeyValueStop))

MulticastMain ==
  kind = "multicast" /\ (ProxyMain \/ FileMain(MulticastInitialize, MulticastStart, MulticastStop))

ProducerMain ==
  kind = "producer" /\ FileMain(ProducerInitialize, ConsumerStart, ProducerStop)

Main == ConsumerMain \/ KeyValueMain \/ MulticastMain \/ ProducerMain

Proxy ==
  \/ \E i \in Conns : Register(i) \/ Acknowledge(i) \/ Receive(i) \/ ReceiveEnds(i)
                      \/ Send(i) \/ CleanUp(i) \/ Breaks(i)
  \/ \E c \in Callers : Enqueue(c) \/ \E op \in Commands : SendCommand(c, op)

Loop == LoopCheck \/ LoopRecv \/ LoopHandle \/ LoopAnswer

Next ==
  \/ ~panicked /\ Proxy
  \/ ~crashed /\ (Main \/ Loop)
  \/ Killed

Spec == Init /\ [][Next]_vars

(* The goroutines of both processes run, and what is sent arrives.         *)
Fairness ==
  /\ WF_vars(~crashed /\ Loop)
  /\ WF_vars(~panicked /\ \E c \in Callers : Enqueue(c))
  /\ WF_vars(~panicked /\ \E i \in Conns : Send(i) \/ Receive(i))

-----------------------------------------------------------------------------
(* Each caller of SendCommand gets the answer to its own command, although *)
(* commands of several callers are under way on one connection, and every  *)
(* connection of the pattern numbers its commands from one again.          *)
AnswersMatch == wrong = {}

(* When the pattern has answered Stop or Shutdown without an error, no     *)
(* driver that the runner has is open, also after an Initialize that       *)
(* failed half-way and with no pattern made.                               *)
StopReleases ==
  last.op = "Stop" /\ last.ok /\ kind # "producer" => \A s \in Slots : held[s] # "open"

(* A command that is under way is answered, whatever it is and whether it  *)
(* succeeds, as long as the connection and the pattern's loop last: no     *)
(* command is lost in a full channel, and errors have an answer too.       *)
CommandsAnswered ==
  (\E c \in Callers : call[c].pc # "idle") ~>
    \/ \A c \in Callers : call[c].pc = "idle"
    \/ panicked \/ crashed \/ main # "up" \/ loop = "off"
    \/ \E c \in Callers : call[c].pc # "idle" /\ (call[c].conn # me \/ ~conns[me].open)
=============================================================================
