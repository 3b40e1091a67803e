----------------------------- MODULE RelayProcess -----------------------------
(***************************************************************************)
(* The life of one relay process: its assembly (local-reference-app.js),   *)
(* the requests it serves (server.js) and its shutdown (start.js), which   *)
(* drains connections until a deadline, cuts them, and gives the HTTP      *)
(* server a last second before it closes the databases all the same.       *)
(*                                                                         *)
(* Node's HTTP server is external: close() stops accepting and calls back  *)
(* once no connection is left, a connection may be kept alive for another  *)
(* request, and accepting may fail.  The host is an address, so listening  *)
(* succeeds or fails before any signal is handled.                         *)
(***************************************************************************)
EXTENDS FiniteSets, Naturals

CONSTANTS
    Connections,    \* connections at the same time
    Candidates,     \* what clients publish
    Large,          \* those whose representation exceeds maximumResponseBytes
    Placements,     \* [candidates, capabilities |-> the file each path resolves to]
    Signals,        \* SIGINT, SIGTERM
    None

ASSUME LargeOnes == Large \subseteq Candidates
ASSUME NoneIsNoCode == None \notin {0, 1}

VARIABLES
    pc,             \* the process: "off", its assembly, "running"
    placement,      \* where the two database paths lead
    files,          \* the database files that exist
    store,          \* handles: "candidates", "capabilities" -> open or not
    server,         \* "none", "listening", "closing", "closed"
    socket,         \* per connection: open or not
    handler,        \* per connection: what its request waits for
    shutdown,       \* shuttingDown, forced, finished, the two timers, application closed
    handled,        \* signals whose one handler has run
    exitCode,       \* process.exitCode, or None
    visible,        \* candidates committed to the database
    answer,         \* history: the last answer a client got, or None
    cut, failed     \* history: a client's request was cut; the server emitted "error"

request == <<socket, handler, visible, answer, cut>>
life == <<pc, placement, files, store, server, shutdown, handled, exitCode, failed>>
vars == <<request, life>>

Databases == {"candidates", "capabilities"}
Closed == [d \in Databases |-> FALSE]
Quiet == [asked |-> FALSE, forced |-> FALSE, finished |-> FALSE, closed |-> FALSE,
          deadline |-> "off", finalDeadline |-> "off"]
NoRequest == [step |-> "none", candidate |-> None]

Init ==
    /\ pc = "off" /\ placement \in Placements
    /\ files \in SUBSET {placement[d] : d \in Databases}
    /\ store = Closed /\ server = "none"
    /\ socket = [c \in Connections |-> FALSE]
    /\ handler = [c \in Connections |-> NoRequest]
    /\ shutdown = Quiet /\ handled = {} /\ exitCode = None
    /\ visible = {} /\ answer = None /\ cut = FALSE /\ failed = FALSE

-----------------------------------------------------------------------------
(* Assembly: createLocalReferenceRelayApplication, one synchronous call.    *)

SameFile == placement["candidates"] = placement["capabilities"]

Launch ==
    /\ pc = "off"
    /\ pc' = "paths" /\ exitCode' = None /\ shutdown' = Quiet /\ handled' = {} /\ failed' = FALSE
    /\ cut' = FALSE /\ answer' = None
    /\ UNCHANGED <<placement, files, store, server, socket, handler, visible>>

(* The catch of the assembly; start.js then exits with 1. *)
StartupFails ==
    /\ pc \in {"paths", "candidates", "capabilities"}
    /\ store' = Closed
    /\ pc' = "off" /\ exitCode' = 1
    /\ UNCHANGED <<placement, files, server, shutdown, handled, failed, request>>

Proceed(from, to, database) ==
    /\ pc = from
    /\ pc' = to
    /\ store' = [store EXCEPT ![database] = TRUE]
    /\ files' = files \cup {placement[database]}
    /\ UNCHANGED <<placement, server, shutdown, handled, exitCode, failed, request>>

(* assertDistinctExistingDatabaseFiles, then new SQLiteStore *)
OpenCandidates ==
    /\ SameFile => placement["candidates"] \notin files
    /\ Proceed("paths", "candidates", "candidates")

OpenCapabilities == Proceed("candidates", "capabilities", "capabilities")

(* assertDistinctDatabaseFiles; the server listens. *)
Listen ==
    /\ pc = "capabilities"
    /\ ~SameFile
    /\ pc' = "running" /\ server' = "listening"
    /\ UNCHANGED <<placement, files, store, shutdown, handled, exitCode, failed, request>>

(* Variant: the databases stay open. *)
ReportErrorOnly ==
    /\ ~failed /\ failed' = TRUE
    /\ exitCode' = 1
    /\ UNCHANGED <<placement, files, store, shutdown, handled, request>>

(* The handler of the server's first "error" event. *)
ReportError ==
    /\ ~failed /\ failed' = TRUE
    /\ exitCode' = 1 /\ store' = Closed
    /\ shutdown' = [shutdown EXCEPT !.closed = TRUE]
    /\ UNCHANGED <<placement, files, handled, request>>

ListenFails ==
    /\ pc = "capabilities" /\ ~SameFile
    /\ pc' = "running" /\ UNCHANGED server
    /\ ReportError

(* Accepting a connection fails; the server goes on listening. *)
AcceptFails ==
    /\ pc = "running" /\ server = "listening"
    /\ ReportError
    /\ UNCHANGED <<pc, server>>

-----------------------------------------------------------------------------
(* Requests.  A step runs from one await to the next.                       *)

Accept(c) ==
    /\ server = "listening" /\ ~socket[c] /\ handler[c] = NoRequest
    /\ socket' = [socket EXCEPT ![c] = TRUE]
    /\ UNCHANGED <<handler, visible, answer, cut, life>>

(* The client, or an idle timeout, closes the connection. *)
Disconnect(c) ==
    /\ socket[c]
    /\ socket' = [socket EXCEPT ![c] = FALSE]
    /\ UNCHANGED <<handler, visible, answer, cut, life>>

AllOpen == \A d \in Databases : store[d]

(* The answer to c's request; a closed connection swallows it, an open one  *)
(* may be kept alive.  The history notes whether the databases were open.   *)
Send(c, status, committed) ==
    /\ handler' = [handler EXCEPT ![c] = NoRequest]
    /\ IF socket[c]
       THEN /\ answer' = [status |-> status, committed |-> committed, open |-> AllOpen,
                        candidate |-> handler[c].candidate]
            /\ \E keepAlive \in BOOLEAN : socket' = [socket EXCEPT ![c] = keepAlive]
       ELSE UNCHANGED <<answer, socket>>
    /\ UNCHANGED <<cut, life>>

(* StoreAccessError: the database is closed, is busy for too long or cannot *)
(* be read or written; so is a blob.                                        *)
Unavailable(c) == Send(c, 503, FALSE)

(* A read route: one statement, or one transaction.  Without the database,  *)
(* the request may be invalid all the same.                                 *)
Get(c) ==
    /\ pc = "running" /\ socket[c] /\ handler[c] = NoRequest
    /\ \/ store["candidates"] /\ \E code \in {200, 404, 409, 413} : Send(c, code, FALSE)
       \/ Send(c, 400, FALSE)
       \/ Unavailable(c)
    /\ UNCHANGED visible

(* POST /v1/publications: the body is being read. *)
Post(c, candidate) ==
    /\ pc = "running" /\ socket[c] /\ handler[c] = NoRequest
    /\ handler' = [handler EXCEPT ![c] = [step |-> "reading", candidate |-> candidate]]
    /\ UNCHANGED <<socket, visible, answer, cut, life>>

(* readJsonBody throws: above the limit, no JSON object, or the client left. *)
BadBody(c) ==
    /\ pc = "running" /\ handler[c].step = "reading"
    /\ \E code \in {400, 413, 500} : Send(c, code, FALSE)
    /\ UNCHANGED visible

(* normalizeCandidate and verifyBearer: the candidate or the header is no   *)
(* good, the row is corrupt or cannot be read, or all is well.              *)
Verify(c) ==
    /\ pc = "running" /\ handler[c].step = "reading"
    /\ \/ \E code \in {400, 401} : Send(c, code, FALSE)
       \/ store["capabilities"] /\ Send(c, 409, FALSE)
       \/ Unavailable(c)
       \/ /\ store["capabilities"]
          /\ handler' = [handler EXCEPT ![c].step = "admitting"]
          /\ UNCHANGED <<socket, answer, cut, life>>
    /\ UNCHANGED visible

(* The policy rejects or throws, or the stored object conflicts. *)
Refuse(c) ==
    /\ pc = "running" /\ handler[c].step = "admitting"
    /\ \E code \in {403, 409, 500} : Send(c, code, FALSE)
    /\ UNCHANGED visible

(* writeJson after the commit: above the response limit the answer is a 413. *)
status(candidate) ==
    IF candidate \in Large THEN 413 ELSE IF candidate \in visible THEN 200 ELSE 201

(* Variant: the answer is sent before the append. *)
PublishAfterAnswer(c) ==
    LET candidate == handler[c].candidate IN
    /\ pc = "running" /\ handler[c].step = "admitting"
    /\ Send(c, status(candidate), candidate \notin visible)
    /\ visible' = IF store["candidates"] THEN visible \cup {candidate} ELSE visible

(* The policy admits: blob, append and answer, or one of the stores fails   *)
(* and nothing is appended.                                                 *)
Publish(c) ==
    LET candidate == handler[c].candidate IN
    /\ pc = "running" /\ handler[c].step = "admitting"
    /\ \/ /\ store["candidates"]
          /\ visible' = visible \cup {candidate}
          /\ Send(c, status(candidate), candidate \notin visible)
       \/ /\ Unavailable(c)
          /\ UNCHANGED visible

-----------------------------------------------------------------------------
(* Shutdown.                                                                *)

(* application.close: once; the capability store first, whose close may     *)
(* throw and then leaves the candidate store open.                          *)
CloseApplication(exit) ==
    \/ /\ shutdown.closed
       /\ exitCode' = exit /\ UNCHANGED store
    \/ /\ ~shutdown.closed
       /\ \/ exitCode' = exit /\ store' = Closed
          \/ exitCode' = 1 /\ UNCHANGED store

(* finish, and the timers it or its caller clears. *)
finish(exit) ==
    IF shutdown.finished THEN UNCHANGED <<store, exitCode, shutdown>>
    ELSE /\ CloseApplication(exit)
         /\ shutdown' = [shutdown EXCEPT !.closed = TRUE, !.finished = TRUE,
                                         !.deadline = "off", !.finalDeadline = "off"]

(* Variant: the databases are closed when the signal arrives. *)
SignalAndClose(signal) ==
    /\ pc = "running" /\ signal \notin handled /\ ~shutdown.asked
    /\ handled' = handled \cup {signal}
    /\ server' = IF server = "listening" THEN "closing" ELSE server
    /\ socket' = [c \in Connections |-> socket[c] /\ handler[c] # NoRequest]
    /\ shutdown' = [shutdown EXCEPT !.asked = TRUE, !.deadline = "armed", !.closed = TRUE]
    /\ store' = Closed
    /\ UNCHANGED <<pc, placement, files, exitCode, failed, handler, visible, answer, cut>>

(* Variant: the drain has no deadline. *)
SignalAndWait(signal) ==
    /\ pc = "running" /\ signal \notin handled /\ ~shutdown.asked
    /\ handled' = handled \cup {signal}
    /\ server' = IF server = "listening" THEN "closing" ELSE server
    /\ socket' = [c \in Connections |-> socket[c] /\ handler[c] # NoRequest]
    /\ shutdown' = [shutdown EXCEPT !.asked = TRUE]
    /\ UNCHANGED <<pc, placement, files, store, exitCode, failed, handler, visible, answer, cut>>

(* The first signal: no more connections, idle ones are closed, and the     *)
(* drain has a deadline.                                                    *)
Signal(signal) ==
    /\ pc = "running" /\ signal \notin handled
    /\ handled' = handled \cup {signal}
    /\ IF shutdown.asked THEN UNCHANGED <<server, socket, shutdown>>
       ELSE /\ server' = IF server = "listening" THEN "closing" ELSE server
            /\ socket' = [c \in Connections |-> socket[c] /\ handler[c] # NoRequest]
            /\ shutdown' = [shutdown EXCEPT !.asked = TRUE, !.deadline = "armed"]
    /\ UNCHANGED <<pc, placement, files, store, exitCode, failed, handler, visible, answer, cut>>

(* Every open connection is destroyed. *)
CutConnections ==
    /\ socket' = [c \in Connections |-> FALSE]
    /\ cut' = (cut \/ \E c \in Connections : socket[c] /\ handler[c] # NoRequest)

(* Variant: no last second after the cut. *)
DeadlinePassesOnce ==
    /\ pc = "running" /\ shutdown.deadline = "armed"
    /\ shutdown' = [shutdown EXCEPT !.deadline = "off", !.forced = TRUE]
    /\ CutConnections
    /\ UNCHANGED <<pc, placement, files, store, server, handled, exitCode, failed, handler, visible, answer>>

DeadlinePasses ==
    /\ pc = "running" /\ shutdown.deadline = "armed"
    /\ shutdown' = [shutdown EXCEPT !.deadline = "off", !.forced = TRUE, !.finalDeadline = "armed"]
    /\ CutConnections
    /\ UNCHANGED <<pc, placement, files, store, server, handled, exitCode, failed, handler, visible, answer>>

FinalDeadlinePasses ==
    /\ pc = "running" /\ shutdown.finalDeadline = "armed"
    /\ finish(1)
    /\ UNCHANGED <<pc, placement, files, server, handled, failed, request>>

(* Variant: a drained server exits with 0. *)
exitWhenClosedZero == IF server = "none" THEN 1 ELSE 0

(* The code server.close's callback ends with; it gets an error when the    *)
(* server never listened.                                                   *)
exitWhenClosed == IF server = "none" \/ shutdown.forced THEN 1 ELSE 0

(* server.close's callback, once no connection is left. *)
ServerCloses ==
    /\ pc = "running" /\ shutdown.asked
    /\ server \in {"closing", "none"} /\ \A c \in Connections : ~socket[c]
    /\ server' = "closed"
    /\ finish(exitWhenClosed)
    /\ UNCHANGED <<pc, placement, files, handled, failed, request>>

Off(exit) ==
    /\ pc' = "off" /\ exitCode' = exit /\ server' = "none" /\ store' = Closed
    /\ socket' = [c \in Connections |-> FALSE] /\ handler' = [c \in Connections |-> NoRequest]
    /\ UNCHANGED <<placement, files, shutdown, handled, failed, visible, answer, cut>>

(* A signal whose handler is gone, an uncaught exception or SIGKILL. *)
Die == pc = "running" /\ Off(1)

(* Nothing keeps the event loop alive. *)
Exit ==
    /\ pc = "running" /\ server \in {"closed", "none"}
    /\ \A c \in Connections : ~socket[c] /\ handler[c] = NoRequest
    /\ Off(IF exitCode = None THEN 0 ELSE exitCode)

-----------------------------------------------------------------------------
Serve(c) ==
    \/ Accept(c) \/ Disconnect(c) \/ Get(c)
    \/ \E candidate \in Candidates : Post(c, candidate)
    \/ BadBody(c) \/ Verify(c) \/ Refuse(c) \/ Publish(c)

Next ==
    \/ Launch \/ StartupFails \/ OpenCandidates \/ OpenCapabilities
    \/ Listen \/ ListenFails
    \/ \E c \in Connections : Serve(c)
    \/ \E signal \in Signals : Signal(signal)
    \/ DeadlinePasses \/ FinalDeadlinePasses \/ ServerCloses \/ AcceptFails
    \/ Die \/ Exit

Spec == Init /\ [][Next]_vars

(* Timers fire. *)
TimerSpec == Spec /\ WF_vars(DeadlinePasses) /\ WF_vars(FinalDeadlinePasses)

(* Callbacks run too, and policies decide; clients owe nothing. *)
Work(c) == BadBody(c) \/ Verify(c) \/ Refuse(c) \/ Publish(c)
CallbacksRun ==
    /\ WF_vars(ServerCloses) /\ WF_vars(Exit)
    /\ \A c \in Connections : WF_vars(Work(c))

-----------------------------------------------------------------------------
Statuses == {200, 201, 400, 401, 403, 404, 409, 413, 500, 503}

(* The shape of the state; timers run only while a drain is unfinished, the *)
(* last one only once connections were cut.                                 *)
TypeOK ==
    /\ pc \in {"off", "paths", "candidates", "capabilities", "running"}
    /\ files \subseteq {placement[d] : d \in Databases}
    /\ store \in [Databases -> BOOLEAN]
    /\ server \in {"none", "listening", "closing", "closed"}
    /\ socket \in [Connections -> BOOLEAN]
    /\ handler \in [Connections -> [step : {"none", "reading", "admitting"}, candidate : Candidates \cup {None}]]
    /\ handled \subseteq Signals /\ exitCode \in {0, 1, None} /\ visible \subseteq Candidates
    /\ answer # None => answer.status \in Statuses
    /\ shutdown.deadline = "armed" => shutdown.asked /\ ~shutdown.forced /\ ~shutdown.finished
    /\ shutdown.finalDeadline = "armed" => shutdown.forced /\ ~shutdown.finished

(* A process that exits with 0 was asked to stop, cut no connection, closed *)
(* both databases and answered every request a client still waited for,     *)
(* whichever of callback, deadline and last second came first.              *)
(* (DEPLOYMENT.md:104; installShutdownHandler)                              *)
CleanExitsAreDrained ==
    [][pc = "running" /\ pc' = "off" /\ exitCode' = 0 =>
          /\ shutdown.asked /\ ~shutdown.forced /\ ~cut
          /\ store = Closed /\ server = "closed"
          /\ \A c \in Connections : ~(socket[c] /\ handler[c] # NoRequest)]_vars

(* The databases outlive every request: whoever gets an answer, be it a 503 *)
(* of a busy database, gets it from a process that has closed neither of    *)
(* them, unless the server reported an error before.  (the order of         *)
(* server.close, closeAllConnections and application.close)                 *)
StoresOutliveRequests == answer # None /\ ~answer.open => failed

(* Once the server reported an error, nothing more is published or read: a  *)
(* request that was on its way, whatever it waited for, is turned down.     *)
(* The process itself may go on for long.  (the handler of "error")         *)
NothingIsServedAfterAnError ==
    [][failed => /\ visible' = visible
                 /\ answer' # answer /\ answer' # None => answer'.status \notin {200, 201}]_vars

(* A client is told that its candidate is published only when it is, and a  *)
(* refusal means that its request inserted nothing, but for a 413 after the *)
(* commit: the answer to a large candidate.  (the publication route)        *)
AnswersTellTheTruth ==
    answer # None /\ answer.candidate # None =>
        /\ answer.status \in {200, 201} => answer.candidate \in visible
        /\ answer.committed => \/ answer.status = 201
                               \/ answer.status = 413 /\ answer.candidate \in Large

(* Once asked to stop, the process closes its databases and settles its     *)
(* exit code, even if the server never calls back.  (the two deadlines)     *)
DrainEnds == pc = "running" /\ shutdown.asked ~> shutdown.finished \/ pc = "off"

(* When the server does call back, the process ends, whatever its clients   *)
(* do with their connections.  (finish sets the exit code, and the event    *)
(* loop runs empty)                                                         *)
ShutdownEnds == CallbacksRun => (pc = "running" /\ shutdown.asked ~> pc = "off")
=============================================================================
