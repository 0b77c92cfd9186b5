------------------------------- MODULE SisHost -------------------------------
(***************************************************************************)
(* The life of a plugin host process (cmk/plugins/sis and sis-builtin):    *)
(* main brings it up, waits for a signal and takes it down; the status     *)
(* server, the HTTP server and the ping requests are goroutines beside it. *)
(* The two programs differ in the way to their plugin (Available), in an   *)
(* external plugin being a process of its own (PluginExits), in what is    *)
(* validated before the call (InvalidRequest) and in what follows an error *)
(* (ResultAlways).                                                         *)
(***************************************************************************)
EXTENDS Naturals

CONSTANT Pings  \* the ping requests that clients send

VARIABLES
  program,    \* which of the two programs this is; it never changes
  main,       \* where the main goroutine is
  errs,       \* what it has to report when it returns
  exit,       \* the exit code, NoExit while the process runs
  cancelled,  \* has the context of signal.NotifyContext been cancelled?
  status,     \* the status server's goroutine
  catalog,    \* the plugins: not loaded, open, closed, or half closed
  found,      \* which of the ways to the sis plugin the catalog has filled
  server,     \* the HTTP server
  ping,       \* ping[p]: where request p is
  body,       \* body[p]: what has been written to its client
  \* History variable, read by a property only.
  answered    \* the requests whose plugin answered

vars == <<program, main, errs, exit, cancelled, status, catalog, found, server, ping, body,
          answered>>

NoExit == 3
Stages == {"load", "catalog", "meters", "handlers", "listen", "wait", "close",
           "shutdown", "sleep", "exited"}
PingStates == {"none", "open", "calling", "ok", "failed", "refused", "written",
               "returned", "done", "cut"}
InFlight(p) == ping[p] \notin {"none", "done", "cut"}

Init ==
  /\ program \in {"sis", "sis-builtin"}
  /\ main = "load" /\ errs = {} /\ exit = NoExit /\ cancelled = FALSE
  /\ status = "none" /\ catalog = "none" /\ found = {} /\ server = "none"
  /\ ping = [p \in Pings |-> "none"]
  /\ body = [p \in Pings |-> {}]
  /\ answered = {}

Running == exit = NoExit

\* sis-builtin writes the result after an error, too.
ResultAlways == program = "sis-builtin"

-----------------------------------------------------------------------------
\* The main goroutine.  A step that fails makes run return, and the process
\* goes to its graceful sleep with whatever it has opened.
Goes(from, to) == main = from /\ main' = to

Fails(from, what) == Goes(from, "sleep") /\ errs' = errs \cup {what}

\* Configuration, logger and telemetry; then the status server is started.
LoadConfig ==
  /\ \/ Goes("load", "catalog") /\ status' = "up" /\ UNCHANGED errs
     \/ Fails("load", "config") /\ UNCHANGED status
  /\ UNCHANGED <<program, exit, cancelled, catalog, found, server, ping, body, answered>>

\* The plugin of sis is a process of its own, which may end before it serves.
PluginExits == program = "sis" /\ Fails("catalog", "binary") /\ UNCHANGED <<catalog, found>>

\* The plugin cannot parse the configuration that the catalog hands it.
ConfigureFails == Fails("catalog", "configure") /\ UNCHANGED <<catalog, found>>

\* catalog.New opens the configured plugins.  One that it can look up by type
\* and name is "named", one that it bound to the repository is "bound"; the
\* configuration need not have either.
CreateServiceRepository ==
  \/ /\ Goes("catalog", "meters") /\ catalog' = "open"
     /\ found' \in SUBSET {"named", "bound"}
     /\ UNCHANGED errs
  \/ Fails("catalog", "plugins") /\ UNCHANGED <<catalog, found>>

LoadPlugins ==
  /\ PluginExits \/ ConfigureFails \/ CreateServiceRepository
  /\ UNCHANGED <<program, exit, cancelled, status, server, ping, body, answered>>

InitMeters ==
  /\ \/ Goes("meters", "handlers") /\ UNCHANGED errs
     \/ Fails("meters", "meters")
  /\ UNCHANGED <<program, exit, cancelled, status, catalog, found, server, ping, body, answered>>

\* sis looks its plugin up in the catalog, sis-builtin asks the repository for
\* the instance that is bound.
Available == (IF program = "sis" THEN "named" ELSE "bound") \in found

\* Mutant: the panic is recovered from somewhere and leaves no exit code.
RegisterHandlersRecovered ==
  /\ IF Available THEN Goes("handlers", "listen") ELSE Goes("handlers", "exited")
  /\ UNCHANGED <<program, errs, exit, cancelled, status, catalog, found, server, ping, body, answered>>

\* Without its plugin sis dereferences nil and sis-builtin panics.
RegisterHandlers ==
  /\ \/ Available /\ Goes("handlers", "listen") /\ UNCHANGED exit
     \/ ~Available /\ Goes("handlers", "exited") /\ exit' = 2
  /\ UNCHANGED <<program, errs, cancelled, status, catalog, found, server, ping, body, answered>>

Listen ==
  /\ \/ Goes("listen", "wait") /\ server' = "bound" /\ UNCHANGED errs
     \/ Fails("listen", "listen") /\ UNCHANGED server
  /\ UNCHANGED <<program, exit, cancelled, status, catalog, found, ping, body, answered>>

\* Mutant: the signal is not what main waits for.
WaitForServer ==
  /\ Goes("wait", "close") /\ server = "failed"
  /\ UNCHANGED <<program, errs, exit, cancelled, status, catalog, found, server, ping, body, answered>>

WaitForSignal ==
  /\ Goes("wait", "close") /\ cancelled
  /\ UNCHANGED <<program, errs, exit, cancelled, status, catalog, found, server, ping, body, answered>>

\* Mutant: the error of Close is not looked at.
ClosePluginsUnchecked ==
  /\ Goes("close", "shutdown") /\ catalog' \in {"closed", "half"}
  /\ UNCHANGED <<program, errs, exit, cancelled, status, found, server, ping, body, answered>>

\* Close goes through the plugins; an error may leave some of them open.  It is
\* kept for the end and stops nothing.
ClosePlugins ==
  /\ Goes("close", "shutdown")
  /\ \/ catalog' = "closed" /\ UNCHANGED errs
     \/ catalog' \in {"closed", "half"} /\ errs' = errs \cup {"close"}
  /\ UNCHANGED <<program, exit, cancelled, status, found, server, ping, body, answered>>

\* Mutant: the error of Shutdown is not looked at.
ShutdownUnchecked ==
  /\ Goes("shutdown", "sleep") /\ server' = "closed"
  /\ UNCHANGED <<program, errs, exit, cancelled, status, catalog, found, ping, body, answered>>

\* Shutdown's context derives from the cancelled one: it waits for nobody, and
\* reports an error when a connection is not idle.
ShutdownServer ==
  /\ Goes("shutdown", "sleep") /\ server' = "closed"
  /\ errs' = IF \E p \in Pings : InFlight(p) THEN errs \cup {"shutdown"} ELSE errs
  /\ UNCHANGED <<program, exit, cancelled, status, catalog, found, ping, body, answered>>

\* The graceful sleep is over: what is still in flight is cut.
Exit ==
  /\ Goes("sleep", "exited") /\ exit' = IF errs = {} THEN 0 ELSE 1
  /\ ping' = [p \in Pings |-> IF InFlight(p) THEN "cut" ELSE ping[p]]
  /\ UNCHANGED <<program, errs, cancelled, status, catalog, found, server, body, answered>>

-----------------------------------------------------------------------------
\* The other goroutines and the outside world.  A later signal is swallowed.
Signal ==
  /\ Running /\ cancelled' = TRUE
  /\ UNCHANGED <<program, main, errs, exit, status, catalog, found, server, ping, body, answered>>

StatusFails ==
  /\ Running /\ status = "up" /\ status' = "failed"
  /\ UNCHANGED <<program, main, errs, exit, cancelled, catalog, found, server, ping, body, answered>>

\* Mutant: the failure is logged and no more.
StatusOnlyLogs ==
  /\ Running /\ status = "failed" /\ status' = "reported"
  /\ UNCHANGED <<program, main, errs, exit, cancelled, catalog, found, server, ping, body, answered>>

\* The status goroutine sends its own process a SIGTERM.
StatusTerminates ==
  /\ Running /\ status = "failed" /\ status' = "reported" /\ cancelled' = TRUE
  /\ UNCHANGED <<program, main, errs, exit, catalog, found, server, ping, body, answered>>

\* Serve after Shutdown returns at once: "closed" stays.
Serve ==
  /\ Running /\ server = "bound" /\ server' = "serving"
  /\ UNCHANGED <<program, main, errs, exit, cancelled, status, catalog, found, ping, body, answered>>

\* Serve's error is logged; main is not told.
ServeFails ==
  /\ Running /\ server = "serving" /\ server' = "failed"
  /\ UNCHANGED <<program, main, errs, exit, cancelled, status, catalog, found, ping, body, answered>>

-----------------------------------------------------------------------------
\* One ping request.
Moves(p, from, to) ==
  /\ Running /\ ping[p] = from
  /\ ping' = [ping EXCEPT ![p] = to]
  /\ UNCHANGED <<program, main, errs, exit, cancelled, status, catalog, found, server>>

Accept(p) == server = "serving" /\ Moves(p, "none", "open") /\ UNCHANGED <<body, answered>>

\* The plugin of the ping may be one that a failed Close has left open.
CallPlugin(p) ==
  /\ \/ catalog \in {"open", "half"} /\ Moves(p, "open", "calling")
     \/ catalog # "open" /\ Moves(p, "open", "refused")
  /\ UNCHANGED <<body, answered>>

\* sis-builtin's wrapper validates the request before it calls the plugin.
InvalidRequest(p) ==
  program = "sis-builtin" /\ Moves(p, "open", "failed") /\ UNCHANGED <<body, answered>>

\* The plugin validates what it is asked and answers; a call may also fail.
PluginReturns(p) ==
  /\ \/ Moves(p, "calling", "ok") /\ answered' = answered \cup {p}
     \/ Moves(p, "calling", "failed") /\ UNCHANGED answered
  /\ UNCHANGED body

\* Mutant: a failed write of the error is not looked at.
WriteErrorUnchecked(p) ==
  /\ \E from \in {"failed", "refused"} :
       /\ Moves(p, from, IF ResultAlways THEN "ok" ELSE "written")
       /\ body' \in {body, [body EXCEPT ![p] = @ \cup {"error"}]}
  /\ UNCHANGED answered

\* The write itself may fail, and the handler returns.
WriteError(p) ==
  /\ \E from \in {"failed", "refused"} :
       \/ /\ Moves(p, from, IF ResultAlways THEN "ok" ELSE "written")
          /\ body' = [body EXCEPT ![p] = @ \cup {"error"}]
       \/ Moves(p, from, "returned") /\ UNCHANGED body
  /\ UNCHANGED answered

WriteResult(p) ==
  /\ \/ Moves(p, "ok", "written") /\ body' = [body EXCEPT ![p] = @ \cup {"result"}]
     \/ Moves(p, "ok", "returned") /\ UNCHANGED body
  /\ UNCHANGED answered

\* The deferred function runs on every path, and the connection is idle.
Finish(p) ==
  /\ Moves(p, "written", "done") \/ Moves(p, "returned", "done")
  /\ UNCHANGED <<body, answered>>

PingStep(p) == \/ CallPlugin(p) \/ InvalidRequest(p) \/ PluginReturns(p)
               \/ WriteError(p) \/ WriteResult(p) \/ Finish(p)

-----------------------------------------------------------------------------
MainStep == \/ LoadConfig \/ LoadPlugins \/ InitMeters \/ RegisterHandlers \/ Listen
            \/ WaitForSignal \/ ClosePlugins \/ ShutdownServer \/ Exit

Next ==
  \/ MainStep
  \/ Signal \/ StatusFails \/ StatusTerminates \/ Serve \/ ServeFails
  \/ \E p \in Pings : Accept(p) \/ PingStep(p)

Spec == Init /\ [][Next]_vars

\* The goroutines are scheduled: main and the one that reports the status
\* server's failure.  Nobody promises a signal, a client or a plugin's answer.
Fairness == WF_vars(MainStep) /\ WF_vars(StatusTerminates)

FairSpec == Spec /\ Fairness

-----------------------------------------------------------------------------
\* The variables have their types; the process has an exit code once it ended.
TypeOK ==
  /\ program \in {"sis", "sis-builtin"}
  /\ main \in Stages /\ exit \in {0, 1, 2, NoExit} /\ cancelled \in BOOLEAN
  /\ main = "exited" <=> exit # NoExit
  /\ errs \subseteq {"config", "binary", "configure", "plugins", "meters", "listen", "close", "shutdown"}
  /\ status \in {"none", "up", "failed", "reported"}
  /\ catalog \in {"none", "open", "half", "closed"} /\ found \subseteq {"named", "bound"}
  /\ server \in {"none", "bound", "serving", "failed", "closed"}
  /\ ping \in [Pings -> PingStates]
  /\ body \in [Pings -> SUBSET {"error", "result"}]
  /\ answered \subseteq Pings

\* Exit code 0 says that no request was cut off: the process was brought up,
\* its plugins closed, and all it accepted has been answered.
CleanExit ==
  exit = 0 => /\ catalog = "closed" /\ server = "closed"
              /\ \A p \in Pings : ping[p] \in {"none", "done"}

\* No plugin is left behind in silence.  A process that ends with plugins open
\* exits with an error, and it is one of two: it never came to listen after it
\* had loaded them, or closing them has failed.
OpenPluginsReported ==
  exit # NoExit /\ catalog \in {"open", "half"} =>
    \/ server = "none" /\ (exit = 2 \/ (exit = 1 /\ errs \in {{"meters"}, {"listen"}}))
    \/ exit = 1 /\ "close" \in errs

\* A process that listens serves until it is told to stop: before a signal, its
\* own or another's, neither a failed status server nor a failed HTTP server
\* ends it, closes a plugin under a request or cuts a request off.
ServesUntilTold ==
  server # "none" /\ ~cancelled =>
    /\ exit = NoExit /\ catalog = "open"
    /\ \A p \in Pings : ping[p] \notin {"refused", "cut"}

\* What a client reads is true.  A result alone comes from a plugin that has
\* answered and an error from one that has not, whatever fails on the way and
\* whichever write is lost; both are what sis-builtin answers, sis never.
TruthfulPing ==
  \A p \in Pings : /\ body[p] = {"result"} => p \in answered
                   /\ "error" \in body[p] => p \notin answered
                   /\ body[p] = {"error", "result"} => ResultAlways

\* A process that was told to stop, or whose status server failed, ends, though
\* its clients and plugins never answer.
StopsWhenTold == cancelled ~> main = "exited"
StopsWithoutStatus == status = "failed" ~> main = "exited"

\* "graceful shutdown so running goroutines may finish": a request accepted
\* before the shutdown does not find its plugin closed.
PluginsOutliveRequests == \A p \in Pings : ping[p] # "refused"

\* ShutdownTimeout gives the requests in flight their time: no shutdown fails
\* for the only reason that there are some.
GracefulStop == errs # {"shutdown"}
=============================================================================
