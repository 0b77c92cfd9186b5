---------------------------- MODULE SisHostProofs ----------------------------
(***************************************************************************)
(* Theorems about SisHost, for any set of ping requests.                   *)
(***************************************************************************)
EXTENDS SisHost, TLAPS

\* One step of main, of another goroutine or of a ping keeps the types.
LEMMA TypeStep ==
  ASSUME TypeOK, [Next]_vars
  PROVE  TypeOK'
<1>1. CASE MainStep
  <2> USE DEF TypeOK, Stages, NoExit, Goes, Fails
  <2>1. CASE LoadConfig
    BY <2>1 DEF LoadConfig
  <2>2. CASE LoadPlugins
    <3>1. errs' \subseteq errs \cup {"binary", "configure", "plugins"}
      BY <2>2 DEF LoadPlugins, PluginExits, ConfigureFails, CreateServiceRepository
    <3>2. catalog' \in {"none", "open", "half", "closed"} /\ found' \subseteq {"named", "bound"}
      BY <2>2 DEF LoadPlugins, PluginExits, ConfigureFails, CreateServiceRepository
    <3>3. main = "catalog" /\ main' \in {"meters", "sleep"}
      BY <2>2 DEF LoadPlugins, PluginExits, ConfigureFails, CreateServiceRepository
    <3>4. UNCHANGED <<program, exit, cancelled, status, server, ping, body, answered>>
      BY <2>2 DEF LoadPlugins
    <3>5. QED
      BY <3>1, <3>2, <3>3, <3>4
  <2>3. CASE InitMeters
    BY <2>3 DEF InitMeters
  <2>4. CASE RegisterHandlers
    BY <2>4 DEF RegisterHandlers
  <2>5. CASE Listen
    BY <2>5 DEF Listen
  <2>6. CASE WaitForSignal
    BY <2>6 DEF WaitForSignal
  <2>7. CASE ClosePlugins
    BY <2>7 DEF ClosePlugins
  <2>8. CASE ShutdownServer
    BY <2>8 DEF ShutdownServer
  <2>9. CASE Exit
    <3>1. ping' \in [Pings -> PingStates]
      BY <2>9 DEF Exit, PingStates
    <3>2. QED
      BY <2>9, <3>1 DEF Exit
  <2>10. QED
    BY <1>1, <2>1, <2>2, <2>3, <2>4, <2>5, <2>6, <2>7, <2>8, <2>9 DEF MainStep
<1>2. CASE Signal \/ StatusFails \/ StatusTerminates
  BY <1>2 DEF TypeOK, Signal, StatusFails, StatusTerminates
<1>3. CASE Serve \/ ServeFails
  BY <1>3 DEF TypeOK, Serve, ServeFails
<1>4. ASSUME NEW p \in Pings, Accept(p) \/ PingStep(p)
      PROVE  TypeOK'
  <2>1. PICK from \in PingStates, to \in PingStates : Moves(p, from, to)
    BY <1>4 DEF Accept, PingStep, CallPlugin, InvalidRequest, PluginReturns,
                WriteError, WriteResult, Finish, PingStates
  <2>2. ping' \in [Pings -> PingStates]
    BY <2>1 DEF TypeOK, Moves
  <2>3. body' \in [Pings -> SUBSET {"error", "result"}] /\ answered' \subseteq Pings
    <3>1. CASE Accept(p) \/ CallPlugin(p) \/ InvalidRequest(p) \/ PluginReturns(p) \/ Finish(p)
      BY <3>1 DEF TypeOK, Accept, CallPlugin, InvalidRequest, PluginReturns, Finish
    <3>2. CASE WriteError(p)
      BY <3>2 DEF TypeOK, WriteError
    <3>3. CASE WriteResult(p)
      BY <3>3 DEF TypeOK, WriteResult
    <3>4. QED
      BY <1>4, <3>1, <3>2, <3>3 DEF PingStep
  <2>4. QED
    BY <2>1, <2>2, <2>3 DEF TypeOK, Moves
<1>5. CASE UNCHANGED vars
  BY <1>5 DEF TypeOK, vars
<1>6. QED
  BY <1>1, <1>2, <1>3, <1>4, <1>5 DEF Next

\* The type invariant of a host, for any number of requests.
THEOREM TypeCorrect == Spec => []TypeOK
<1>1. Init => TypeOK
  <2>1. Init => ping \in [Pings -> PingStates]
    BY DEF Init, PingStates
  <2>2. Init => body \in [Pings -> SUBSET {"error", "result"}]
    BY DEF Init
  <2>3. Init => (main = "exited" <=> exit # NoExit)
    BY DEF Init
  <2>4. Init => cancelled \in BOOLEAN /\ errs = {}
    BY DEF Init
  <2>5. Init => exit = NoExit /\ answered \subseteq Pings
    BY DEF Init
  <2>6. QED
    BY <2>1, <2>2, <2>3, <2>4, <2>5 DEF Init, TypeOK, Stages
<1>2. TypeOK /\ [Next]_vars => TypeOK'
  BY TypeStep
<1>3. QED
  BY <1>1, <1>2, PTL DEF Spec

-----------------------------------------------------------------------------
(***************************************************************************)
(* What the exit code says.  CleanExit and OpenPluginsReported speak of an *)
(* ended process; the strengthening says what main has left behind at each *)
(* stage: no server and no error before "listen" is over, plugins that are *)
(* open from then on until they are closed or closing them has failed, and *)
(* in a sleep without errors no request in flight and none that could be   *)
(* accepted any more.                                                      *)
(***************************************************************************)
Quiet == /\ catalog = "closed" /\ server = "closed"
         /\ \A p \in Pings : ping[p] \in {"none", "done"}

\* Why plugins are open when main goes to sleep.
Excused == \/ catalog \in {"none", "closed"}
           \/ server = "none" /\ errs \in {{"meters"}, {"listen"}}
           \/ "close" \in errs

StopInv ==
  /\ main \in {"load", "catalog", "meters", "handlers", "listen"} =>
       server = "none" /\ errs = {}
  /\ main \in {"load", "catalog"} => catalog = "none"
  /\ main = "shutdown" => catalog = "closed" \/ "close" \in errs
  /\ main = "sleep" => Excused
  /\ main = "sleep" /\ errs = {} => Quiet
  /\ exit \in {0, 1} => Excused
  /\ exit = 1 => errs # {}
  /\ exit = 2 => server = "none"
  /\ exit = 0 => errs = {} /\ Quiet
  /\ exit = NoExit => \A p \in Pings : ping[p] # "cut"

\* A step of main leaves behind what StopInv says of the next stage.
LEMMA StopMain ==
  ASSUME TypeOK, StopInv, MainStep
  PROVE  StopInv'
<1> USE DEF TypeOK, StopInv, Quiet, Excused, Goes, Fails, NoExit
<1>1. CASE LoadConfig
  BY <1>1 DEF LoadConfig
<1>2. CASE LoadPlugins
  <2>1. main = "catalog" /\ main' \in {"meters", "sleep"} /\ (main' = "sleep" => errs' # {})
    BY <1>2 DEF LoadPlugins, PluginExits, ConfigureFails, CreateServiceRepository
  <2>2. UNCHANGED <<exit, server, ping>> /\ (main' = "sleep" => UNCHANGED catalog)
    BY <1>2 DEF LoadPlugins, PluginExits, ConfigureFails, CreateServiceRepository
  <2>3. main' = "meters" => UNCHANGED errs
    BY <1>2 DEF LoadPlugins, PluginExits, ConfigureFails, CreateServiceRepository
  <2>4. QED
    BY <2>1, <2>2, <2>3
<1>3. CASE InitMeters
  BY <1>3 DEF InitMeters
<1>4. CASE RegisterHandlers
  BY <1>4 DEF RegisterHandlers
<1>5. CASE Listen
  <2>1. main = "listen" /\ errs = {} /\ server = "none" /\ UNCHANGED <<exit, catalog, ping>>
    BY <1>5 DEF Listen
  <2>2. CASE Goes("listen", "wait") /\ UNCHANGED errs
    BY <2>1, <2>2
  <2>3. CASE Fails("listen", "listen") /\ UNCHANGED server
    BY <2>1, <2>3
  <2>4. QED
    BY <1>5, <2>2, <2>3 DEF Listen
<1>6. CASE WaitForSignal
  BY <1>6 DEF WaitForSignal
<1>7. CASE ClosePlugins
  BY <1>7 DEF ClosePlugins
<1>8. CASE ShutdownServer
  BY <1>8 DEF ShutdownServer, InFlight, PingStates
<1>9. CASE Exit
  BY <1>9 DEF Exit, InFlight
<1>10. QED
  BY <1>1, <1>2, <1>3, <1>4, <1>5, <1>6, <1>7, <1>8, <1>9 DEF MainStep

\* No other goroutine and no request undoes it.
LEMMA StopOthers ==
  ASSUME TypeOK, StopInv, [Next]_vars, ~MainStep
  PROVE  StopInv'
<1> USE DEF TypeOK, StopInv, Quiet, Excused, NoExit, Running
<1>1. CASE Signal \/ StatusFails \/ StatusTerminates
  BY <1>1 DEF Signal, StatusFails, StatusTerminates
<1>2. CASE Serve \/ ServeFails
  BY <1>2 DEF Serve, ServeFails
<1>3. ASSUME NEW p \in Pings, Accept(p)
      PROVE  StopInv'
  BY <1>3 DEF Accept, Moves
<1>4. ASSUME NEW p \in Pings, PingStep(p)
      PROVE  StopInv'
  <2>1. PICK from \in {"open", "calling", "ok", "failed", "refused", "written",
                       "returned"}, to \in PingStates \ {"none", "cut"} :
          Moves(p, from, to)
    BY <1>4 DEF PingStep, CallPlugin, InvalidRequest, PluginReturns,
                WriteError, WriteResult, Finish, PingStates
  <2>2. QED
    BY <2>1 DEF Moves, PingStates
<1>5. CASE UNCHANGED vars
  BY <1>5 DEF vars
<1>6. QED
  BY <1>1, <1>2, <1>3, <1>4, <1>5 DEF Next

\* StopInv holds in every reachable state.
LEMMA StopCorrect == Spec => []StopInv
<1>1. Init => StopInv
  BY DEF Init, StopInv, Quiet, Excused, NoExit
<1>2. TypeOK /\ StopInv /\ [Next]_vars => StopInv'
  BY StopMain, StopOthers
<1>3. QED
  BY <1>1, <1>2, TypeCorrect, PTL DEF Spec

\* Exit code 0 says that the host came up, closed its plugins and server and cut
\* off no request, however many there were and wherever the signal, the failure
\* of the status server or of the HTTP server came in between.
THEOREM ExitIsClean == Spec => []CleanExit
<1>1. StopInv => CleanExit
  BY DEF StopInv, Quiet, CleanExit
<1>2. QED
  BY <1>1, StopCorrect, PTL

\* A host that ends with plugins open says so: it exits with an error, because it
\* never came to listen or because closing them failed.
THEOREM OpenPluginsAreReported == Spec => []OpenPluginsReported
<1>1. TypeOK /\ StopInv => OpenPluginsReported
  BY DEF TypeOK, StopInv, Excused, OpenPluginsReported, NoExit
<1>2. QED
  BY <1>1, TypeCorrect, StopCorrect, PTL

-----------------------------------------------------------------------------
(***************************************************************************)
(* Before the signal.  A server exists once main waits for the signal, and *)
(* until that comes main is there and leaves the plugins alone; a request  *)
(* is refused only by a plugin that is not open.                           *)
(***************************************************************************)
ToldInv ==
  /\ main \in {"load", "catalog", "meters", "handlers", "listen"} =>
       server = "none" /\ (main \notin {"load", "catalog"} => catalog = "open")
  /\ main \in {"wait", "close", "shutdown"} => server # "none"
  /\ server = "none" => \A p \in Pings : ping[p] = "none"
  /\ server # "none" /\ ~cancelled =>
       /\ main = "wait" /\ catalog = "open"
       /\ \A p \in Pings : ping[p] \notin {"refused", "cut"}

LEMMA ToldStep ==
  ASSUME TypeOK, ToldInv, [Next]_vars
  PROVE  ToldInv'
<1> USE DEF TypeOK, ToldInv
<1>1. CASE MainStep
  <2> USE DEF Goes, Fails
  <2>1. CASE LoadConfig
    BY <2>1 DEF LoadConfig
  <2>2. CASE LoadPlugins
    <3>1. main = "catalog" /\ main' \in {"meters", "sleep"} /\ (main' = "meters" => catalog' = "open")
      BY <2>2 DEF LoadPlugins, PluginExits, ConfigureFails, CreateServiceRepository
    <3>2. UNCHANGED <<cancelled, server, ping>>
      BY <2>2 DEF LoadPlugins
    <3>3. QED
      BY <3>1, <3>2
  <2>3. CASE InitMeters
    BY <2>3 DEF InitMeters
  <2>4. CASE RegisterHandlers
    BY <2>4 DEF RegisterHandlers
  <2>5. CASE Listen
    BY <2>5 DEF Listen
  <2>6. CASE WaitForSignal
    BY <2>6 DEF WaitForSignal
  <2>7. CASE ClosePlugins
    BY <2>7 DEF ClosePlugins
  <2>8. CASE ShutdownServer
    BY <2>8 DEF ShutdownServer
  <2>9. CASE Exit
    BY <2>9 DEF Exit, InFlight
  <2>10. QED
    BY <1>1, <2>1, <2>2, <2>3, <2>4, <2>5, <2>6, <2>7, <2>8, <2>9 DEF MainStep
<1>2. CASE Signal \/ StatusFails \/ StatusTerminates
  BY <1>2 DEF Signal, StatusFails, StatusTerminates
<1>3. CASE Serve \/ ServeFails
  BY <1>3 DEF Serve, ServeFails
<1>4. ASSUME NEW p \in Pings, Accept(p) \/ PingStep(p)
      PROVE  ToldInv'
  <2>1. PICK from \in PingStates, to \in PingStates \ {"cut"} :
          /\ Moves(p, from, to)
          /\ from = "none" => server # "none"
          /\ to = "refused" => catalog # "open"
    BY <1>4 DEF Accept, PingStep, CallPlugin, InvalidRequest, PluginReturns,
                WriteError, WriteResult, Finish, PingStates
  <2>2. QED
    BY <2>1 DEF Moves, PingStates
<1>5. CASE UNCHANGED vars
  BY <1>5 DEF vars
<1>6. QED
  BY <1>1, <1>2, <1>3, <1>4, <1>5 DEF Next

\* No failure of the other goroutines ends a host that listens, closes a plugin
\* under a request or cuts a request off: only the signal does.
THEOREM HostServesUntilTold == Spec => []ServesUntilTold
<1>1. Init => ToldInv
  BY DEF Init, ToldInv
<1>2. TypeOK /\ ToldInv /\ [Next]_vars => ToldInv'
  BY ToldStep
<1>3. TypeOK /\ ToldInv => ServesUntilTold
  BY DEF TypeOK, ToldInv, ServesUntilTold
<1>4. QED
  BY <1>1, <1>2, <1>3, TypeCorrect, PTL DEF Spec

-----------------------------------------------------------------------------
(***************************************************************************)
(* Replies.  TruthfulPing says too little of a request on its way: nothing *)
(* has been written until its plugin's answer is there, and what is about  *)
(* to be answered with a result has been answered by its plugin, or (in    *)
(* sis-builtin) with the error already.                                    *)
(***************************************************************************)
ReplyOK(p) ==
  /\ body[p] = {"result"} => p \in answered
  /\ "error" \in body[p] => p \notin answered
  /\ body[p] = {"error", "result"} => ResultAlways
  /\ ping[p] \in {"none", "open", "calling", "failed", "refused"} =>
       p \notin answered /\ body[p] = {}
  /\ ping[p] = "ok" =>
       \/ p \in answered /\ body[p] = {}
       \/ ResultAlways /\ p \notin answered /\ body[p] = {"error"}

ReplyInv == \A p \in Pings : ReplyOK(p)

\* One step of a ping's handler.
LEMMA HandlerReplies ==
  ASSUME TypeOK, NEW p \in Pings, ReplyOK(p), Accept(p) \/ PingStep(p)
  PROVE  ReplyOK(p)'
<1> USE DEF TypeOK, ReplyOK, Moves
<1>1. CASE Accept(p) \/ CallPlugin(p) \/ InvalidRequest(p) \/ Finish(p)
  BY <1>1 DEF Accept, CallPlugin, InvalidRequest, Finish, ResultAlways
<1>2. CASE PluginReturns(p)
  <2>1. /\ p \notin answered /\ body[p] = {} /\ body' = body
        /\ \/ ping'[p] = "ok" /\ p \in answered'
           \/ ping'[p] = "failed" /\ p \notin answered'
    BY <1>2 DEF PluginReturns
  <2>2. QED
    BY <2>1
<1>3. CASE WriteError(p)
  <2>1. PICK from \in {"failed", "refused"} :
          \/ /\ Moves(p, from, IF ResultAlways THEN "ok" ELSE "written")
             /\ body' = [body EXCEPT ![p] = @ \cup {"error"}]
          \/ Moves(p, from, "returned") /\ UNCHANGED body
    BY <1>3 DEF WriteError
  <2>2. p \notin answered' /\ ping[p] = from
    BY <1>3, <2>1 DEF WriteError
  <2>3. ResultAlways' = ResultAlways
    BY <2>1 DEF ResultAlways
  <2>4. body[p] = {}
    BY <2>2
  <2>5. CASE /\ ping' = [ping EXCEPT ![p] = IF ResultAlways THEN "ok" ELSE "written"]
             /\ body' = [body EXCEPT ![p] = @ \cup {"error"}]
    <3>1. body'[p] = {"error"} /\ ping'[p] = IF ResultAlways THEN "ok" ELSE "written"
      BY <2>4, <2>5
    <3>2. QED
      BY <2>2, <2>3, <3>1
  <2>6. CASE ping' = [ping EXCEPT ![p] = "returned"] /\ body' = body
    BY <2>2, <2>4, <2>6
  <2>7. QED
    BY <2>1, <2>5, <2>6
<1>4. CASE WriteResult(p)
  <2>1. ping[p] = "ok" /\ answered' = answered /\ ResultAlways' = ResultAlways
    BY <1>4 DEF WriteResult, ResultAlways
  <2>2. ping'[p] \in {"written", "returned"} /\ body'[p] \in {body[p], body[p] \cup {"result"}}
    BY <1>4 DEF WriteResult
  <2>3. QED
    BY <2>1, <2>2
<1>5. QED
  BY <1>1, <1>2, <1>3, <1>4 DEF PingStep

\* Every step keeps it; an exit cuts off what has been written to nobody.
LEMMA ReplyStep ==
  ASSUME TypeOK, ReplyInv, [Next]_vars
  PROVE  ReplyInv'
<1> SUFFICES ASSUME NEW q \in Pings
             PROVE  ReplyOK(q)'
  BY DEF ReplyInv
<1>1. ReplyOK(q)
  BY DEF ReplyInv
<1>2. CASE MainStep
  <2>1. CASE Exit
    BY <1>1, <2>1 DEF Exit, ReplyOK, ResultAlways, InFlight, TypeOK
  <2>2. CASE ~Exit
    BY <1>1, <1>2, <2>2 DEF MainStep, LoadConfig, LoadPlugins, InitMeters, RegisterHandlers,
                            Listen, WaitForSignal, ClosePlugins, ShutdownServer, ReplyOK,
                            ResultAlways
  <2>3. QED
    BY <2>1, <2>2
<1>3. CASE Signal \/ StatusFails \/ StatusTerminates \/ Serve \/ ServeFails
  BY <1>1, <1>3 DEF Signal, StatusFails, StatusTerminates, Serve, ServeFails, ReplyOK,
                    ResultAlways
<1>4. ASSUME NEW p \in Pings, Accept(p) \/ PingStep(p)
      PROVE  ReplyOK(q)'
  <2>1. CASE p = q
    BY <1>1, <1>4, <2>1, HandlerReplies
  <2>2. CASE p # q
    <3>1. UNCHANGED <<ping[q], body[q], program>> /\ (q \in answered' <=> q \in answered)
      BY <1>4, <2>2 DEF Accept, PingStep, CallPlugin, InvalidRequest, PluginReturns,
                        WriteError, WriteResult, Finish, Moves, TypeOK
    <3>2. QED
      BY <1>1, <3>1 DEF ReplyOK, ResultAlways
  <2>3. QED
    BY <2>1, <2>2
<1>5. CASE UNCHANGED vars
  BY <1>1, <1>5 DEF vars, ReplyOK, ResultAlways
<1>6. QED
  BY <1>2, <1>3, <1>4, <1>5 DEF Next

\* What a client of either host reads is true, for any number of pings and
\* whenever its plugin or the process goes away.
THEOREM PingsAreTruthful == Spec => []TruthfulPing
<1>1. Init => ReplyInv
  BY DEF Init, ReplyInv, ReplyOK
<1>2. TypeOK /\ ReplyInv /\ [Next]_vars => ReplyInv'
  BY ReplyStep
<1>3. ReplyInv => TruthfulPing
  BY DEF ReplyInv, ReplyOK, TruthfulPing
<1>4. QED
  BY <1>1, <1>2, <1>3, TypeCorrect, PTL DEF Spec
=============================================================================
