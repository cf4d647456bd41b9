------------------------------ MODULE Service --------------------------------
(***************************************************************************)
(* The agent's process from its command line to its exit (src/main.go), as *)
(* a console program or under the Windows service manager                  *)
(* (src/service_windows.go): what it checks, starts, serves and stops, and *)
(* in which order.  The HTTP server runs in a goroutine of its own, and    *)
(* may have streams open that do not end by themselves.                    *)
(***************************************************************************)
EXTENDS Integers, Sequences, SequencesExt

CONSTANTS Grace,    \* how long Shutdown waits for requests in progress
          MaxTime   \* bound: the clock stops here

\* What is assumed of the constants.
ServiceAssumption == {Grace, MaxTime} \subseteq Nat \ {0}

\* What is started, in the order of main, and stopped in the reverse order.
Order == <<"sampler", "updates", "claude", "codex", "usage">>

VARIABLES
  now,
  mode,      \* console, service or self-check
  main,      \* where the main goroutine is
  running,   \* what was started and not stopped, in order
  server,    \* the server goroutine: none, starting, open, failed or closed
  streams,   \* is a stream open on the server?
  stop,      \* was the agent asked to stop?
  deadline,  \* when Shutdown gives up
  status,    \* what the service manager was told last
  exit       \* the process's exit code, -1 while it runs

vars == <<now, mode, main, running, server, streams, stop, deadline, status, exit>>

Init ==
  /\ now = 0 /\ mode \in {"console", "service", "self-check"}
  /\ main = "setting up" /\ running = <<>>
  /\ server = "none" /\ streams = FALSE /\ stop = FALSE /\ deadline = 0
  /\ status = "none" /\ exit = -1

Alive == exit = -1

Main(from, to) == Alive /\ main = from /\ main' = to /\ UNCHANGED <<now, mode>>

\* log.Fatal: the process ends at once, and nothing deferred runs.
Fatal ==
  /\ exit' = 1 /\ streams' = FALSE
  /\ server' = IF server = "open" THEN "closed" ELSE server

-----------------------------------------------------------------------------
\* Unreadable settings, a bad peer list, host settings that cannot be saved,
\* a bad port or TLS without files.
SetupFails ==
  /\ Main("setting up", "ended") /\ Fatal
  /\ UNCHANGED <<running, stop, deadline, status>>

\* The self-check drives the handler and starts nothing.
SelfCheck(passes) ==
  /\ mode = "self-check" /\ Main("setting up", "ended")
  /\ exit' = IF passes THEN 0 ELSE 1
  /\ UNCHANGED <<running, server, streams, stop, deadline, status>>

SetUp ==
  /\ mode # "self-check" /\ Main("setting up", "starting")
  /\ UNCHANGED <<running, server, streams, stop, deadline, status, exit>>

StartNext ==
  /\ Len(running) < Len(Order) /\ Main("starting", "starting")
  /\ running' = Append(running, Order[Len(running) + 1])
  /\ UNCHANGED <<server, streams, stop, deadline, status, exit>>

\* serviceMain reports that it is starting before it runs the server.
Serve ==
  /\ Len(running) = Len(Order) /\ Main("starting", "ready")
  /\ server' = "starting"
  /\ status' = IF mode = "service" THEN "start pending" ELSE status
  /\ UNCHANGED <<running, streams, stop, deadline, exit>>

\* ready is called next, whatever the server goroutine has come to.
Ready ==
  /\ Main("ready", "serving")
  /\ status' = IF mode = "service" THEN "running" ELSE status
  /\ UNCHANGED <<running, server, streams, stop, deadline, exit>>

-----------------------------------------------------------------------------
(* The server goroutine and its clients.                                    *)

\* The certificate cannot be loaded or the address is in use.
ListenFails ==
  /\ Alive /\ server = "starting" /\ server' = "failed"
  /\ UNCHANGED <<now, mode, main, running, streams, stop, deadline, status, exit>>

\* A server that was shut down before it listens closes its listener again.
Listens ==
  /\ Alive /\ server = "starting"
  /\ server' = IF main \in {"shutting down", "stopping"} THEN "closed" ELSE "open"
  /\ UNCHANGED <<now, mode, main, running, streams, stop, deadline, status, exit>>

StreamOpens ==
  /\ Alive /\ server = "open" /\ ~streams /\ streams' = TRUE
  /\ UNCHANGED <<now, mode, main, running, server, stop, deadline, status, exit>>

StreamCloses ==
  /\ streams /\ streams' = FALSE
  /\ UNCHANGED <<now, mode, main, running, server, stop, deadline, status, exit>>

-----------------------------------------------------------------------------
(* The end.                                                                 *)

\* SIGTERM or Ctrl-C on the console; STOP or SHUTDOWN of a service that has
\* said that it accepts them.
AskToStop ==
  /\ Alive /\ ~stop /\ stop' = TRUE
  /\ IF mode = "service" THEN status = "running" /\ status' = "stop pending"
     ELSE main \in {"ready", "serving"} /\ UNCHANGED status
  /\ UNCHANGED <<now, mode, main, running, server, streams, deadline, exit>>

\* serve returned an error: told to the service manager, and fatal.
EndsInError ==
  /\ status' = IF mode = "service" THEN "stopped with an error" ELSE status
  /\ Fatal

ServerFailed ==
  /\ server = "failed" /\ Main("serving", "ended") /\ EndsInError
  /\ UNCHANGED <<running, stop, deadline>>

\* The listener is closed at once.
ShutDown ==
  /\ stop /\ Main("serving", "shutting down")
  /\ server' = IF server = "open" THEN "closed" ELSE server
  /\ deadline' = now + Grace
  /\ UNCHANGED <<running, streams, stop, status, exit>>

\* Shutdown failed, so serve does.
GivesUp == main' = "ended" /\ EndsInError

ShutdownTimesOut ==
  /\ Alive /\ main = "shutting down" /\ streams /\ now >= deadline
  /\ GivesUp
  /\ UNCHANGED <<now, mode, running, stop, deadline>>

ShutdownDone ==
  /\ ~streams /\ Main("shutting down", "stopping")
  /\ status' = IF mode = "service" THEN "stopped" ELSE status
  /\ UNCHANGED <<running, server, streams, stop, deadline, exit>>

\* The deferred calls of main.
StopLast ==
  /\ running # <<>> /\ Main("stopping", "stopping")
  /\ running' = Front(running)
  /\ UNCHANGED <<server, streams, stop, deadline, status, exit>>

Return ==
  /\ running = <<>> /\ Main("stopping", "ended") /\ exit' = 0
  /\ UNCHANGED <<running, server, streams, stop, deadline, status>>

Tick ==
  /\ Alive /\ now < MaxTime /\ now' = now + 1
  /\ UNCHANGED <<mode, main, running, server, streams, stop, deadline, status, exit>>

Next ==
  \/ SetupFails
  \/ \E passes \in BOOLEAN : SelfCheck(passes)
  \/ SetUp
  \/ StartNext
  \/ Serve
  \/ Ready
  \/ ListenFails
  \/ Listens
  \/ StreamOpens
  \/ StreamCloses
  \/ AskToStop
  \/ ServerFailed
  \/ ShutDown
  \/ ShutdownTimesOut
  \/ ShutdownDone
  \/ StopLast
  \/ Return
  \/ Tick

Spec == Init /\ [][Next]_vars

-----------------------------------------------------------------------------
TypeOK ==
  /\ now \in 0..MaxTime /\ IsPrefix(running, Order)
  /\ server \in {"none", "starting", "open", "failed", "closed"}
  /\ status \in {"none", "start pending", "running", "stop pending", "stopped",
                 "stopped with an error"}
  /\ exit \in {-1, 0, 1}

\* No request is served by a process whose sampling loops, pollers or checker
\* have been stopped or never ran: a client that stays connected past the grace
\* of a shutdown is cut off with the process, never left on a dead stream.
ServedWhileRunning ==
  Alive /\ (server = "open" \/ streams) => running = Order

\* "performing a graceful shutdown on stop" (main.go): a stop that is asked for
\* ends with success, and nothing that was started is left running.
StopIsGraceful == ~Alive /\ stop /\ server # "failed" => exit = 0 /\ running = <<>>

\* "invoking ready once the listener is bound" (main.go): a service that reports
\* that it is running has its listener.
RunningMeansListening == Alive /\ status = "running" => server \in {"open", "closed"}
=============================================================================
