----------------------------- MODULE MCPlatform -----------------------------
(* Instances of the launcher, of the control stream with the runners and   *)
(* of the proxy.  In a behaviour one of them runs, part; the others stay   *)
(* as they are at first.                                                   *)
EXTENDS Proxy

CONSTANTS MaxErrors, Capacity

VARIABLES
  part,
  lconf, phase, call, calls, im, info, state, pend, pc, seen, made, comp, closed,
  handle, launches, os, by, doomed, waited, errs, orphans, healthless,
  sconf, held, pattern, crashed, last, main, loop, stopped, job, conns, registered,
  scall, sent, wrong, panicked

launcher == <<lconf, phase, call, calls, im, info, state, pend, pc, seen, made, comp, closed,
              handle, launches, os, by, doomed, waited, errs, orphans, healthless>>
stream   == <<sconf, held, pattern, crashed, last, main, loop, stopped, job, conns, registered,
              scall, sent, wrong, panicked>>
proxy    == vars
all      == <<part, launcher, stream, proxy>>

-----------------------------------------------------------------------------
(* The launcher.                                                           *)

Manifest(p) == [pattern |-> p, named |-> TRUE, executable |-> TRUE, level |-> "namespace",
                port |-> 8080]
Request(l, n, s) == [pattern |-> "p", level |-> l, namespace |-> n, session |-> s]

Launching ==
  [default |-> "namespace", requests |-> {Request("namespace", "a", "")},
   manifests |-> {Manifest("p"), [Manifest("q") EXCEPT !.executable = FALSE]},
   clients |-> {"c1"}, launches |-> 2, calls |-> 2, faults |-> FALSE, detector |-> FALSE,
   stops |-> FALSE]

(* A pattern that fails until the breaker opens, one that fails while it   *)
(* is terminated; two clients, one of whose requests is not valid; a       *)
(* launcher that is stopped, that kills what it takes for orphans, and one *)
(* with sessions of a namespace under the default isolation level.         *)
LauncherSetups ==
  { [Launching EXCEPT !.launches = 4, !.faults = TRUE, !.calls = 1],
    [Launching EXCEPT !.faults = TRUE],
    [Launching EXCEPT !.requests = {Request("namespace", n, "") : n \in {"a", ""}},
                      !.clients = {"c1", "c2"}, !.calls = 3],
    [Launching EXCEPT !.stops = TRUE, !.launches = 3],
    [Launching EXCEPT !.detector = TRUE, !.launches = 3],
    [Launching EXCEPT !.requests = {Request("session", "a", s) : s \in {"s", "t"}},
                      !.clients = {"c1", "c2"}] }

L == INSTANCE Launcher WITH conf <- lconf, Setups <- LauncherSetups

-----------------------------------------------------------------------------
(* The control stream and the runners.                                     *)

Streaming ==
  [runner |-> "consumer", slots |-> <<"message_source", "state_store">>, mode |-> "proxy",
   commands |-> {"Initialize", "Stop", "Other"}, faults |-> FALSE, signals |-> FALSE,
   callers |-> {"c1"}, sent |-> 3, conns |-> 1]
Lifecycle ==
  [Streaming EXCEPT !.commands = {"Initialize", "Start", "Stop", "HealthCheck", "Shutdown"},
                    !.sent = 4]

(* A connection that breaks, and one that is closed; two callers; the life *)
(* of each runner under the proxy, and with a configuration file.          *)
StreamSetups ==
  { [Streaming EXCEPT !.faults = TRUE, !.conns = 2, !.commands = {"Other"},
                      !.callers = {"c1", "c2"}, !.sent = 2],
    [Streaming EXCEPT !.signals = TRUE, !.commands = {"Initialize", "Shutdown", "Other"},
                      !.sent = 2],
    [Streaming EXCEPT !.callers = {"c1", "c2"}, !.commands = {"Initialize", "Other"}],
    Lifecycle,
    [Lifecycle EXCEPT !.runner = "keyvalue", !.slots = <<"backend">>],
    [Lifecycle EXCEPT !.runner = "multicast", !.slots = <<"registry", "messaging">>] }
  \cup {[Streaming EXCEPT !.runner = k, !.mode = "file", !.signals = TRUE] :
          k \in {"consumer", "keyvalue", "multicast", "producer"}}

S == INSTANCE ControlStream WITH conf <- sconf, call <- scall, Setups <- StreamSetups

-----------------------------------------------------------------------------
(* The proxy: patterns with ports of their own, with the same port, and    *)
(* one that is stopped and started again.                                  *)

Proxying == [patterns |-> {"p", "q"}, port |-> [p |-> 1, q |-> 2], faults |-> TRUE,
             api |-> FALSE, spawns |-> 2]
ProxySetups ==
  { Proxying, [Proxying EXCEPT !.port = [p |-> 1, q |-> 1], !.faults = FALSE],
    [Proxying EXCEPT !.patterns = {"p"}, !.api = TRUE] }

-----------------------------------------------------------------------------
Some(set) == CHOOSE x \in set : TRUE

MCInit ==
  /\ part \in {"launcher", "stream", "proxy"}
  /\ L!Init /\ (part # "launcher" => lconf = Some(LauncherSetups))
  /\ S!Init /\ (part # "stream" => sconf = Some(StreamSetups))
  /\ Init   /\ (part # "proxy" => conf = Some(ProxySetups))

MCNext ==
  /\ UNCHANGED part
  /\ \/ part = "launcher" /\ L!Next /\ UNCHANGED <<stream, proxy>>
     \/ part = "stream"   /\ S!Next /\ UNCHANGED <<launcher, proxy>>
     \/ part = "proxy"    /\ Next   /\ UNCHANGED <<launcher, stream>>

(* The fair steps of the launcher and of the stream are disabled as long   *)
(* as the part does not run.                                               *)
MCSpec ==
  MCInit /\ [][MCNext]_all /\ L!Fairness /\ S!Fairness

-----------------------------------------------------------------------------
(* The properties of the parts, see there.                                 *)
(* Launcher: one process for each id at a time, none when it is terminated. *)
NoStrayProcess == L!NoStrayProcess
(* Launcher: the breaker bounds the launches of a process without health.  *)
BreakerTrips == L!BreakerTrips
(* Launcher: a termination comes to its end.                               *)
TerminationFinishes == L!TerminationFinishes
(* ControlStream: an answer is that of the command it is taken for.        *)
AnswersMatch == S!AnswersMatch
(* ControlStream: a stopped pattern holds nothing it did not leak before.  *)
StopReleases == S!StopReleases
(* ControlStream: a command that reaches the pattern is answered.          *)
CommandsAnswered == S!CommandsAnswered
=============================================================================
