-------------------------- MODULE RelayProcess_proofs --------------------------
(***************************************************************************)
(* Why no client of a relay process meets a closed database, and what an   *)
(* exit code of 0 says: the databases are closed only by an error of the   *)
(* server or once no connection is left and none can come, whichever of    *)
(* the server's callback, the deadline and the last second comes first.    *)
(* For every number of connections, candidates, signals and placements.    *)
(***************************************************************************)
EXTENDS RelayProcess, TLAPS

-----------------------------------------------------------------------------
(* The inductive invariant.                                                 *)

Switch == {"off", "armed"}

Shapes ==
    /\ shutdown \in [asked : BOOLEAN, forced : BOOLEAN, finished : BOOLEAN, closed : BOOLEAN,
                     deadline : Switch, finalDeadline : Switch]
    /\ failed \in BOOLEAN /\ cut \in BOOLEAN
    /\ \A c \in Connections : handler[c].step # "none" => handler[c].candidate \in Candidates

\* A process that does not run serves nothing; while it starts, its databases
\* are opened one by one and nothing has gone wrong yet.
Starting ==
    /\ pc # "running" => server = "none" /\ \A c \in Connections : ~socket[c] /\ handler[c] = NoRequest
    /\ pc \in {"paths", "candidates", "capabilities"} => shutdown = Quiet /\ ~failed /\ ~cut
    /\ pc \in {"candidates", "capabilities"} => store["candidates"]
    /\ pc = "capabilities" => store["capabilities"]

\* The databases of a running process are open until it has finished or failed,
\* and closed once it has failed.
OpenUntilFinished ==
    /\ pc = "running" /\ ~failed /\ ~shutdown.finished => AllOpen
    /\ pc = "running" /\ failed => store = Closed

\* A process that was asked to stop accepts no connection, and one that cut its
\* connections, or has finished, has none.
NoneLeft ==
    /\ pc = "running" /\ shutdown.asked => server # "listening"
    /\ shutdown.forced \/ shutdown.finished => shutdown.asked /\ \A c \in Connections : ~socket[c]
    /\ cut => shutdown.forced

\* Why a process ends as it does.
CodesAreEarned ==
    /\ pc = "running" /\ server = "none" => exitCode = 1
    /\ server = "closed" => shutdown.finished
    /\ pc = "running" /\ shutdown.closed /\ ~shutdown.finished => store = Closed
    /\ pc = "running" /\ shutdown.finished =>
          exitCode # None /\ (exitCode # 1 => ~shutdown.forced /\ store = Closed)

ProcessInv ==
    /\ TypeOK /\ Shapes
    /\ Starting /\ OpenUntilFinished /\ NoneLeft /\ CodesAreEarned
    /\ StoresOutliveRequests /\ AnswersTellTheTruth

Handlers == [step : {"none", "reading", "admitting"}, candidate : Candidates \cup {None}]

LEMMA ProcessInit == Init => ProcessInv
<1> SUFFICES ASSUME Init PROVE ProcessInv
  OBVIOUS
<1> USE DEF Init
<1>1. TypeOK
  BY DEF TypeOK, Closed, NoRequest, Quiet
<1>2. Shapes
  BY DEF Shapes, Quiet, Switch, NoRequest
<1>3. Starting /\ OpenUntilFinished /\ NoneLeft /\ CodesAreEarned
  BY DEF Starting, OpenUntilFinished, AllOpen, NoneLeft, CodesAreEarned, Quiet
<1>4. StoresOutliveRequests /\ AnswersTellTheTruth
  BY DEF StoresOutliveRequests, AnswersTellTheTruth
<1>5. QED
  BY <1>1, <1>2, <1>3, <1>4 DEF ProcessInv

-----------------------------------------------------------------------------
(* Requests.                                                                *)

\* While a client waits and the server has reported no error, the databases are
\* open: a drain that has finished, or has cut its connections, left none.
LEMMA OpenWhileServing ==
    ASSUME ProcessInv, NEW c \in Connections, pc = "running", socket[c], ~failed
    PROVE  AllOpen
<1>1. ~shutdown.finished
  BY DEF ProcessInv, NoneLeft
<1>2. QED
  BY <1>1 DEF ProcessInv, OpenUntilFinished, AllOpen

\* A step of a connection: it opens none but on a listening server.
LEMMA ServingStep ==
    ASSUME ProcessInv, UNCHANGED <<life, cut>>, pc = "running",
           socket' \in [Connections -> BOOLEAN], handler' \in [Connections -> Handlers],
           \A c \in Connections : handler'[c].step # "none" => handler'[c].candidate \in Candidates,
           \A c \in Connections : socket'[c] => socket[c] \/ server = "listening",
           visible' \subseteq Candidates,
           answer' # None => answer'.status \in Statuses,
           StoresOutliveRequests', AnswersTellTheTruth'
    PROVE  ProcessInv'
<1>1. UNCHANGED <<pc, placement, files, store, server, shutdown, handled, exitCode, failed, cut>>
  BY DEF life
<1>2. TypeOK'
  BY <1>1 DEF ProcessInv, TypeOK, Handlers
<1>3. Shapes'
  BY <1>1 DEF ProcessInv, Shapes
<1>4. Starting' /\ OpenUntilFinished' /\ CodesAreEarned'
  BY <1>1 DEF ProcessInv, Starting, OpenUntilFinished, AllOpen, CodesAreEarned
<1>5. NoneLeft'
  BY <1>1 DEF ProcessInv, NoneLeft
<1>6. QED
  BY <1>2, <1>3, <1>4, <1>5 DEF ProcessInv

\* An answer, if there is someone to send it to.
LEMMA SentStep ==
    ASSUME ProcessInv, pc = "running", NEW c \in Connections, NEW code \in Statuses,
           handler' = [handler EXCEPT ![c] = NoRequest], UNCHANGED <<life, cut>>,
           ~socket[c] => UNCHANGED <<answer, socket>>,
           socket[c] => /\ answer'.status = code /\ answer'.candidate = handler[c].candidate
                        /\ \E keepAlive \in BOOLEAN : socket' = [socket EXCEPT ![c] = keepAlive]
                        /\ answer'.committed => code = 201 \/ (code = 413 /\ handler[c].candidate \in Large),
           visible \subseteq visible', visible' \subseteq Candidates,
           socket[c] /\ AllOpen => answer'.open,
           code \in {200, 201} /\ handler[c].candidate # None => handler[c].candidate \in visible'
    PROVE  ProcessInv'
<1>1. /\ socket \in [Connections -> BOOLEAN] /\ handler \in [Connections -> Handlers]
      /\ answer # None => answer.status \in Statuses
  BY DEF ProcessInv, TypeOK, Handlers
<1>2. UNCHANGED failed
  BY DEF life
<1>3. NoRequest \in Handlers /\ NoRequest.step = "none"
  BY DEF NoRequest, Handlers
<1>4. /\ handler' \in [Connections -> Handlers]
      /\ \A d \in Connections : handler'[d].step # "none" => handler'[d].candidate \in Candidates
  BY <1>1, <1>3 DEF ProcessInv, Shapes
<1>5. CASE socket[c]
  <2>1. /\ socket' \in [Connections -> BOOLEAN]
        /\ \A d \in Connections : socket'[d] => socket[d]
    BY <1>1, <1>5
  <2>2. StoresOutliveRequests' /\ AnswersTellTheTruth'
    <3>1. failed \/ AllOpen
      BY <1>5, OpenWhileServing
    <3>2. StoresOutliveRequests'
      BY <1>2, <1>5, <3>1 DEF StoresOutliveRequests
    <3>3. AnswersTellTheTruth'
      BY <1>5 DEF AnswersTellTheTruth
    <3>4. QED BY <3>2, <3>3
  <2>3. QED
    BY <1>4, <1>5, <2>1, <2>2, ServingStep
<1>6. CASE ~socket[c]
  <2>1. StoresOutliveRequests' /\ AnswersTellTheTruth'
    BY <1>2, <1>6 DEF ProcessInv, StoresOutliveRequests, AnswersTellTheTruth
  <2>2. QED
    BY <1>1, <1>4, <1>6, <2>1, ServingStep
<1>7. QED BY <1>5, <1>6

\* An answer without a commit ...
Answer(c, code) == Send(c, code, FALSE)

LEMMA SendStep ==
    ASSUME ProcessInv, pc = "running", NEW c \in Connections, NEW code \in Statuses,
           Answer(c, code), UNCHANGED visible,
           code \in {200, 201} => handler[c].candidate = None
    PROVE  ProcessInv'
<1>1. /\ handler' = [handler EXCEPT ![c] = NoRequest] /\ UNCHANGED <<life, cut>>
      /\ ~socket[c] => UNCHANGED <<answer, socket>>
  BY DEF Answer, Send
<1>2. socket[c] => /\ answer'.status = code /\ answer'.candidate = handler[c].candidate
                   /\ ~answer'.committed
                   /\ \E keepAlive \in BOOLEAN : socket' = [socket EXCEPT ![c] = keepAlive]
  BY DEF Answer, Send
<1>3. visible' \subseteq Candidates /\ visible \subseteq visible'
  BY DEF ProcessInv, TypeOK
<1>4. socket[c] => (answer'.committed => code = 201 \/ (code = 413 /\ handler[c].candidate \in Large))
  BY <1>2
<1>5. code \in {200, 201} /\ handler[c].candidate # None => handler[c].candidate \in visible'
  OBVIOUS
<1>6. socket[c] => /\ answer'.status = code /\ answer'.candidate = handler[c].candidate
                   /\ \E keepAlive \in BOOLEAN : socket' = [socket EXCEPT ![c] = keepAlive]
                   /\ answer'.committed => code = 201 \/ (code = 413 /\ handler[c].candidate \in Large)
  BY <1>2, <1>4
<1>7. socket[c] /\ AllOpen => answer'.open
  BY DEF Answer, Send
<1>8. QED
  BY <1>1, <1>3, <1>5, <1>6, <1>7, SentStep

\* ... and one after it.
AnswerCommit(c, candidate) == Send(c, status(candidate), candidate \notin visible)

LEMMA CommitStep ==
    ASSUME ProcessInv, pc = "running", NEW c \in Connections,
           handler[c].candidate \in Candidates,
           visible' = visible \cup {handler[c].candidate},
           AnswerCommit(c, handler[c].candidate)
    PROVE  ProcessInv'
<1>1. PICK code \in Statuses : code = status(handler[c].candidate)
  BY DEF status, Statuses
<1>2. /\ code \in Statuses /\ code # 503
      /\ handler[c].candidate \notin visible => code = 201 \/ (code = 413 /\ handler[c].candidate \in Large)
  BY <1>1 DEF status
<1>3. /\ handler' = [handler EXCEPT ![c] = NoRequest] /\ UNCHANGED <<life, cut>>
      /\ ~socket[c] => UNCHANGED <<answer, socket>>
  BY DEF AnswerCommit, Send
<1>4. socket[c] => /\ answer'.status = code /\ answer'.candidate = handler[c].candidate
                   /\ answer'.committed = (handler[c].candidate \notin visible)
                   /\ \E keepAlive \in BOOLEAN : socket' = [socket EXCEPT ![c] = keepAlive]
  BY <1>1 DEF AnswerCommit, Send
<1>5. visible \subseteq visible' /\ visible' \subseteq Candidates /\ handler[c].candidate \in visible'
  BY DEF ProcessInv, TypeOK
<1>6. socket[c] => (answer'.committed => code = 201 \/ (code = 413 /\ handler[c].candidate \in Large))
  BY <1>2, <1>4
<1>7. socket[c] => /\ answer'.status = code /\ answer'.candidate = handler[c].candidate
                   /\ \E keepAlive \in BOOLEAN : socket' = [socket EXCEPT ![c] = keepAlive]
                   /\ answer'.committed => code = 201 \/ (code = 413 /\ handler[c].candidate \in Large)
  BY <1>4, <1>6
<1>8. socket[c] /\ AllOpen => answer'.open
  BY DEF AnswerCommit, Send
<1>9. code \in {200, 201} /\ handler[c].candidate # None => handler[c].candidate \in visible'
  BY <1>5
<1>10. code \in Statuses
  BY <1>2
<1>11. visible \subseteq visible'
  BY <1>5
<1>12. visible' \subseteq Candidates
  BY <1>5
<1>13. UNCHANGED <<life, cut>>
  BY <1>3
<1>14. handler' = [handler EXCEPT ![c] = NoRequest]
  BY <1>3
<1>15. ~socket[c] => UNCHANGED <<answer, socket>>
  BY <1>3
<1>16. QED
  BY <1>7, <1>8, <1>9, <1>10, <1>11, <1>12, <1>13, <1>14, <1>15, SentStep

\* The steps that answer nothing.
LEMMA QuietStep ==
    ASSUME ProcessInv, UNCHANGED <<visible, answer, cut, life>>, pc = "running",
           socket' \in [Connections -> BOOLEAN], handler' \in [Connections -> Handlers],
           \A c \in Connections : handler'[c].step # "none" => handler'[c].candidate \in Candidates,
           \A c \in Connections : socket'[c] => socket[c] \/ server = "listening"
    PROVE  ProcessInv'
<1>1. StoresOutliveRequests' /\ AnswersTellTheTruth'
  BY DEF ProcessInv, StoresOutliveRequests, AnswersTellTheTruth, life
<1>2. visible' \subseteq Candidates /\ (answer' # None => answer'.status \in Statuses)
  BY DEF ProcessInv, TypeOK
<1>3. QED
  BY <1>1, <1>2, ServingStep

LEMMA ServeStep ==
    ASSUME ProcessInv, NEW c \in Connections, Serve(c)
    PROVE  ProcessInv'
<1>1. /\ socket \in [Connections -> BOOLEAN] /\ handler \in [Connections -> Handlers]
      /\ visible \subseteq Candidates
      /\ \A d \in Connections : handler[d].step # "none" => handler[d].candidate \in Candidates
  BY DEF ProcessInv, TypeOK, Handlers, Shapes
<1>2. \A d \in Connections : socket[d] => pc = "running"
  BY DEF ProcessInv, Starting
<1>3. CASE Accept(c)
  <2>1. pc = "running"
    BY <1>3 DEF Accept, ProcessInv, Starting
  <2>2. /\ socket' = [socket EXCEPT ![c] = TRUE] /\ UNCHANGED <<handler, visible, answer, cut, life>>
        /\ server = "listening"
    BY <1>3 DEF Accept
  <2>3. QED
    BY <1>1, <2>1, <2>2, QuietStep
<1>4. CASE Disconnect(c)
  <2>1. pc = "running"
    BY <1>2, <1>4 DEF Disconnect
  <2>2. socket' = [socket EXCEPT ![c] = FALSE] /\ UNCHANGED <<handler, visible, answer, cut, life>>
    BY <1>4 DEF Disconnect
  <2>3. QED
    BY <1>1, <2>1, <2>2, QuietStep
<1>5. CASE Get(c)
  <2>1. PICK code \in {200, 400, 404, 409, 413, 503} : Answer(c, code)
    <3>1. \/ \E code \in {200, 404, 409, 413} : Answer(c, code)
          \/ Answer(c, 400) \/ Answer(c, 503)
      BY <1>5 DEF Get, Unavailable, Answer
    <3>2. QED
      BY <3>1
  <2>2. pc = "running" /\ handler[c].candidate = None /\ UNCHANGED visible
    BY <1>5 DEF Get, NoRequest
  <2>3. code \in Statuses
    BY <2>1 DEF Statuses
  <2>4. QED
    BY <2>1, <2>2, <2>3, SendStep
<1>6. ASSUME NEW candidate \in Candidates, Post(c, candidate) PROVE ProcessInv'
  <2>1. /\ pc = "running"
        /\ handler' = [handler EXCEPT ![c] = [step |-> "reading", candidate |-> candidate]]
        /\ UNCHANGED <<socket, visible, answer, cut, life>>
    BY <1>6 DEF Post
  <2>2. /\ handler' \in [Connections -> Handlers]
        /\ \A d \in Connections : handler'[d].step # "none" => handler'[d].candidate \in Candidates
    BY <1>1, <2>1 DEF Handlers
  <2>3. QED
    BY <1>1, <2>1, <2>2, QuietStep
<1>7. CASE BadBody(c)
  <2>1. PICK code \in {400, 413, 500} : Answer(c, code)
    BY <1>7 DEF BadBody, Answer
  <2>2. pc = "running" /\ UNCHANGED visible /\ code \in Statuses /\ code \notin {200, 201, 503}
    BY <1>7 DEF BadBody, Statuses
  <2>3. QED
    BY <1>1, <2>1, <2>2, SendStep
<1>8. CASE Verify(c)
  <2>1. pc = "running" /\ UNCHANGED visible /\ handler[c].step = "reading"
    BY <1>8 DEF Verify
  <2>2. ASSUME NEW code \in {400, 401, 409, 503}, Answer(c, code) PROVE ProcessInv'
    <3>1. code \in Statuses /\ code \notin {200, 201}
      BY DEF Statuses
    <3>2. QED
      BY <2>1, <2>2, <3>1, SendStep
  <2>4. CASE handler' = [handler EXCEPT ![c].step = "admitting"] /\ UNCHANGED <<socket, answer, cut, life>>
    <3>1. handler[c] \in Handlers /\ handler[c].candidate \in Candidates
      BY <1>1, <2>1
    <3>2. /\ handler' \in [Connections -> Handlers]
          /\ \A d \in Connections : handler'[d].step # "none" => handler'[d].candidate \in Candidates
      BY <1>1, <2>4, <3>1 DEF Handlers
    <3>3. QED
      BY <1>1, <2>1, <2>4, <3>2, QuietStep
  <2>3. \/ \E code \in {400, 401} : Answer(c, code)
        \/ Answer(c, 409) \/ Answer(c, 503)
        \/ handler' = [handler EXCEPT ![c].step = "admitting"] /\ UNCHANGED <<socket, answer, cut, life>>
    BY <1>8 DEF Verify, Unavailable, Answer
  <2>5. QED
    BY <2>2, <2>3, <2>4
<1>9. CASE Refuse(c)
  <2>1. PICK code \in {403, 409, 500} : Answer(c, code)
    BY <1>9 DEF Refuse, Answer
  <2>2. pc = "running" /\ UNCHANGED visible /\ code \in Statuses /\ code \notin {200, 201, 503}
    BY <1>9 DEF Refuse, Statuses
  <2>3. QED
    BY <1>1, <2>1, <2>2, SendStep
<1>10. CASE Publish(c)
  <2> DEFINE candidate == handler[c].candidate
  <2>1. pc = "running" /\ candidate \in Candidates
    BY <1>1, <1>10 DEF Publish
  <2>2. CASE /\ visible' = visible \cup {candidate}
             /\ AnswerCommit(c, candidate)
    BY <2>1, <2>2, CommitStep
  <2>3. CASE Answer(c, 503) /\ UNCHANGED visible
    BY <2>1, <2>3, SendStep DEF Statuses
  <2>4. QED
    BY <1>10, <2>2, <2>3 DEF Publish, Unavailable, Answer, AnswerCommit
<1>11. QED
  BY <1>3, <1>4, <1>5, <1>6, <1>7, <1>8, <1>9, <1>10 DEF Serve

-----------------------------------------------------------------------------
(* Assembly.                                                                *)

\* What was answered stays true as long as nothing is answered.
LEMMA AnswersStay ==
    ASSUME ProcessInv, UNCHANGED <<visible, answer>>, failed => failed'
    PROVE  StoresOutliveRequests' /\ AnswersTellTheTruth'
BY DEF ProcessInv, StoresOutliveRequests, AnswersTellTheTruth

LEMMA LaunchStep == ProcessInv /\ Launch => ProcessInv'
<1> SUFFICES ASSUME ProcessInv, Launch PROVE ProcessInv'
  OBVIOUS
<1>1. /\ pc = "off" /\ pc' = "paths" /\ exitCode' = None /\ shutdown' = Quiet /\ handled' = {}
      /\ failed' = FALSE /\ cut' = FALSE /\ answer' = None
      /\ UNCHANGED <<placement, files, store, server, socket, handler, visible>>
  BY DEF Launch
<1>2. TypeOK'
  BY <1>1 DEF ProcessInv, TypeOK, Quiet
<1>3. Shapes'
  BY <1>1 DEF ProcessInv, Shapes, Quiet, Switch
<1>4. Starting' /\ OpenUntilFinished' /\ CodesAreEarned'
  BY <1>1 DEF ProcessInv, Starting, OpenUntilFinished, AllOpen, CodesAreEarned
<1>5. NoneLeft' /\ StoresOutliveRequests' /\ AnswersTellTheTruth'
  BY <1>1 DEF NoneLeft, StoresOutliveRequests, AnswersTellTheTruth, Quiet
<1>6. QED
  BY <1>2, <1>3, <1>4, <1>5 DEF ProcessInv

LEMMA StartupFailsStep == ProcessInv /\ StartupFails => ProcessInv'
<1> SUFFICES ASSUME ProcessInv, StartupFails PROVE ProcessInv'
  OBVIOUS
<1>1. /\ pc \in {"paths", "candidates", "capabilities"} /\ pc' = "off" /\ store' = Closed /\ exitCode' = 1
      /\ UNCHANGED <<placement, files, server, shutdown, handled, failed, socket, handler, visible, answer, cut>>
  BY DEF StartupFails, request
<1>2. TypeOK'
  BY <1>1 DEF ProcessInv, TypeOK, Closed
<1>3. Shapes' /\ NoneLeft'
  BY <1>1 DEF ProcessInv, Shapes, NoneLeft
<1>4. Starting' /\ OpenUntilFinished' /\ CodesAreEarned'
  BY <1>1 DEF ProcessInv, Starting, OpenUntilFinished, AllOpen, CodesAreEarned
<1>5. QED
  BY <1>1, <1>2, <1>3, <1>4, AnswersStay DEF ProcessInv

\* Opening one of the two databases.
LEMMA OpeningStep ==
    ASSUME ProcessInv, NEW from, NEW to, NEW database \in Databases, Proceed(from, to, database),
           \/ from = "paths" /\ to = "candidates" /\ database = "candidates"
           \/ from = "candidates" /\ to = "capabilities" /\ database = "capabilities"
    PROVE  ProcessInv'
<1>1. /\ pc = from /\ pc' = to /\ store' = [store EXCEPT ![database] = TRUE]
      /\ files' = files \cup {placement[database]}
      /\ UNCHANGED <<placement, server, shutdown, handled, exitCode, failed, socket, handler, visible, answer, cut>>
  BY DEF Proceed, request
<1>2. store \in [Databases -> BOOLEAN] /\ store' \in [Databases -> BOOLEAN]
  BY <1>1 DEF ProcessInv, TypeOK
<1>3. TypeOK'
  <2>1. files' \subseteq {placement'[d] : d \in Databases}
    BY <1>1 DEF ProcessInv, TypeOK
  <2>2. pc' \in {"off", "paths", "candidates", "capabilities", "running"}
    BY <1>1
  <2>3. QED
    BY <1>1, <1>2, <2>1, <2>2 DEF ProcessInv, TypeOK
<1>4. Shapes' /\ NoneLeft'
  BY <1>1 DEF ProcessInv, Shapes, NoneLeft
<1>5. Starting' /\ OpenUntilFinished' /\ CodesAreEarned'
  <2>1. pc' # "running" /\ (pc = "paths" \/ pc = "candidates")
    BY <1>1
  <2>2. /\ store'["candidates"]
        /\ pc' = "capabilities" => store'["capabilities"]
    BY <1>1, <1>2 DEF Databases, ProcessInv, Starting
  <2>3. QED
    BY <1>1, <2>1, <2>2 DEF ProcessInv, Starting, OpenUntilFinished, AllOpen, CodesAreEarned
<1>6. QED
  BY <1>1, <1>3, <1>4, <1>5, AnswersStay DEF ProcessInv

LEMMA ListenStep == ProcessInv /\ Listen => ProcessInv'
<1> SUFFICES ASSUME ProcessInv, Listen PROVE ProcessInv'
  OBVIOUS
<1>1. /\ pc = "capabilities" /\ pc' = "running" /\ server' = "listening"
      /\ UNCHANGED <<placement, files, store, shutdown, handled, exitCode, failed, socket, handler, visible, answer, cut>>
  BY DEF Listen, request
<1>2. shutdown = Quiet /\ store["candidates"] /\ store["capabilities"]
  BY <1>1 DEF ProcessInv, Starting
<1>3. TypeOK'
  BY <1>1 DEF ProcessInv, TypeOK
<1>4. Shapes'
  BY <1>1 DEF ProcessInv, Shapes
<1>5. Starting' /\ OpenUntilFinished' /\ NoneLeft' /\ CodesAreEarned'
  BY <1>1, <1>2 DEF ProcessInv, Starting, OpenUntilFinished, AllOpen, NoneLeft, CodesAreEarned, Quiet, Databases
<1>6. QED
  BY <1>1, <1>3, <1>4, <1>5, AnswersStay DEF ProcessInv

\* The server reports an error: the one event after which a client may meet a
\* closed database.
LEMMA ErrorStep ==
    ASSUME ProcessInv, ReportError,
           \/ pc = "capabilities" /\ pc' = "running" /\ UNCHANGED server
           \/ pc = "running" /\ server = "listening" /\ UNCHANGED <<pc, server>>
    PROVE  ProcessInv'
<1>1. /\ failed' = TRUE /\ exitCode' = 1 /\ store' = Closed
      /\ shutdown' = [shutdown EXCEPT !.closed = TRUE]
      /\ UNCHANGED <<placement, files, handled, socket, handler, visible, answer, cut>>
  BY DEF ReportError, request
<1>2. pc' = "running" /\ UNCHANGED server
  OBVIOUS
<1>3. /\ shutdown' \in [asked : BOOLEAN, forced : BOOLEAN, finished : BOOLEAN, closed : BOOLEAN,
                        deadline : Switch, finalDeadline : Switch]
      /\ shutdown'.asked = shutdown.asked /\ shutdown'.forced = shutdown.forced
      /\ shutdown'.finished = shutdown.finished
      /\ shutdown'.deadline = shutdown.deadline /\ shutdown'.finalDeadline = shutdown.finalDeadline
  BY <1>1 DEF ProcessInv, Shapes
<1>4. ~shutdown.finished
  BY DEF ProcessInv, Starting, NoneLeft, Quiet
<1>5. TypeOK'
  BY <1>1, <1>2, <1>3 DEF ProcessInv, TypeOK, Closed
<1>6. Shapes' /\ Starting' /\ OpenUntilFinished'
  BY <1>1, <1>2, <1>3 DEF ProcessInv, Shapes, Starting, OpenUntilFinished, AllOpen
<1>7. NoneLeft'
  BY <1>1, <1>2, <1>3 DEF ProcessInv, Starting, NoneLeft
<1>8. CodesAreEarned'
  BY <1>1, <1>2, <1>3, <1>4 DEF ProcessInv, Starting, CodesAreEarned
<1>9. QED
  BY <1>1, <1>5, <1>6, <1>7, <1>8, AnswersStay DEF ProcessInv

-----------------------------------------------------------------------------
(* Shutdown.                                                                *)

Shutdowns == [asked : BOOLEAN, forced : BOOLEAN, finished : BOOLEAN, closed : BOOLEAN,
              deadline : Switch, finalDeadline : Switch]

LEMMA SignalStep ==
    ASSUME ProcessInv, NEW signal \in Signals, Signal(signal)
    PROVE  ProcessInv'
<1>1. /\ pc = "running" /\ handled' = handled \cup {signal}
      /\ UNCHANGED <<pc, placement, files, store, exitCode, failed, handler, visible, answer, cut>>
  BY DEF Signal
<1>2. CASE shutdown.asked
  <2>1. UNCHANGED <<server, socket, shutdown>>
    BY <1>2 DEF Signal
  <2>2. TypeOK'
    BY <1>1, <2>1 DEF ProcessInv, TypeOK
  <2>3. Shapes' /\ Starting' /\ OpenUntilFinished' /\ NoneLeft' /\ CodesAreEarned'
    BY <1>1, <2>1 DEF ProcessInv, Shapes, Starting, OpenUntilFinished, AllOpen, NoneLeft, CodesAreEarned
  <2>4. QED
    BY <1>1, <2>2, <2>3, AnswersStay DEF ProcessInv
<1>3. CASE ~shutdown.asked
  <2>1. /\ server' = IF server = "listening" THEN "closing" ELSE server
        /\ socket' = [c \in Connections |-> socket[c] /\ handler[c] # NoRequest]
        /\ shutdown' = [shutdown EXCEPT !.asked = TRUE, !.deadline = "armed"]
    BY <1>3 DEF Signal
  <2>2. shutdown \in Shutdowns /\ ~shutdown.forced /\ ~shutdown.finished
    BY <1>3 DEF ProcessInv, Shapes, NoneLeft, Shutdowns
  <2>3. /\ shutdown' \in Shutdowns
        /\ shutdown'.asked /\ ~shutdown'.forced /\ ~shutdown'.finished
        /\ shutdown'.closed = shutdown.closed
        /\ shutdown'.finalDeadline = shutdown.finalDeadline
    BY <2>1, <2>2 DEF Shutdowns, Switch
  <2>4. /\ socket' \in [Connections -> BOOLEAN]
        /\ server' \in {"none", "closing", "closed"}
        /\ server' \in {"none", "closed"} => server' = server
    BY <2>1 DEF ProcessInv, TypeOK
  <2>5. TypeOK'
    BY <1>1, <2>2, <2>3, <2>4 DEF ProcessInv, TypeOK
  <2>6. Shapes'
    BY <1>1, <2>3 DEF ProcessInv, Shapes, Shutdowns
  <2>7. Starting' /\ OpenUntilFinished' /\ NoneLeft'
    BY <1>1, <2>2, <2>3, <2>4 DEF ProcessInv, Starting, OpenUntilFinished, AllOpen, NoneLeft
  <2>8. CodesAreEarned'
    BY <1>1, <2>2, <2>3, <2>4 DEF ProcessInv, CodesAreEarned
  <2>9. QED
    BY <1>1, <2>5, <2>6, <2>7, <2>8, AnswersStay DEF ProcessInv
<1>4. QED BY <1>2, <1>3

LEMMA DeadlineStep == ProcessInv /\ DeadlinePasses => ProcessInv'
<1> SUFFICES ASSUME ProcessInv, DeadlinePasses PROVE ProcessInv'
  OBVIOUS
<1>1. /\ pc = "running" /\ shutdown.deadline = "armed"
      /\ shutdown' = [shutdown EXCEPT !.deadline = "off", !.forced = TRUE, !.finalDeadline = "armed"]
      /\ socket' = [c \in Connections |-> FALSE]
      /\ cut' = (cut \/ \E c \in Connections : socket[c] /\ handler[c] # NoRequest)
      /\ UNCHANGED <<pc, placement, files, store, server, handled, exitCode, failed, handler, visible, answer>>
  BY DEF DeadlinePasses, CutConnections
<1>2. shutdown \in Shutdowns /\ shutdown.asked /\ ~shutdown.finished
  BY <1>1 DEF ProcessInv, TypeOK, Shapes, Shutdowns
<1>3. /\ shutdown' \in Shutdowns
      /\ shutdown'.asked /\ shutdown'.forced /\ ~shutdown'.finished
      /\ shutdown'.closed = shutdown.closed /\ shutdown'.deadline = "off"
  BY <1>1, <1>2 DEF Shutdowns, Switch
<1>4. TypeOK'
  BY <1>1, <1>3 DEF ProcessInv, TypeOK
<1>5. Shapes' /\ Starting' /\ OpenUntilFinished'
  BY <1>1, <1>2, <1>3 DEF ProcessInv, Shapes, Starting, OpenUntilFinished, AllOpen, Shutdowns
<1>6. NoneLeft'
  BY <1>1, <1>2, <1>3 DEF ProcessInv, NoneLeft
<1>7. CodesAreEarned'
  BY <1>1, <1>2, <1>3 DEF ProcessInv, CodesAreEarned
<1>8. QED
  BY <1>1, <1>4, <1>5, <1>6, <1>7, AnswersStay DEF ProcessInv

\* finish, whoever calls it: with no connection left, and with 0 only when none
\* was cut.
LEMMA FinishStep ==
    ASSUME ProcessInv, pc = "running", NEW code \in {0, 1}, finish(code),
           shutdown.asked, \A c \in Connections : ~socket[c],
           code = 0 => ~shutdown.forced,
           server' \in {"closed", server}, server' = "none" => code = 1,
           UNCHANGED <<pc, placement, files, handled, failed, request>>
    PROVE  ProcessInv'
<1>1. UNCHANGED <<pc, placement, files, handled, failed, socket, handler, visible, answer, cut>>
  BY DEF request
<1>2. /\ TypeOK /\ store \in [Databases -> BOOLEAN] /\ exitCode \in {0, 1, None}
      /\ server \in {"none", "listening", "closing", "closed"}
  BY DEF ProcessInv, TypeOK
<1>3. server' # "listening" /\ server' \in {"none", "listening", "closing", "closed"}
  BY <1>2 DEF ProcessInv, NoneLeft
<1>4. CASE shutdown.finished
  <2>1. UNCHANGED <<store, exitCode, shutdown>>
    BY <1>4 DEF finish
  <2>2. TypeOK'
    BY <1>1, <1>3, <2>1 DEF ProcessInv, TypeOK
  <2>3. Shapes' /\ Starting' /\ OpenUntilFinished' /\ NoneLeft'
    BY <1>1, <1>3, <2>1 DEF ProcessInv, Shapes, Starting, OpenUntilFinished, AllOpen, NoneLeft
  <2>4. CodesAreEarned'
    BY <1>1, <1>4, <2>1 DEF ProcessInv, CodesAreEarned
  <2>5. QED
    BY <1>1, <2>2, <2>3, <2>4, AnswersStay DEF ProcessInv
<1>5. CASE ~shutdown.finished
  <2>1. /\ CloseApplication(code)
        /\ shutdown' = [shutdown EXCEPT !.closed = TRUE, !.finished = TRUE,
                                        !.deadline = "off", !.finalDeadline = "off"]
    BY <1>5 DEF finish
  <2>2. shutdown \in Shutdowns
    BY DEF ProcessInv, Shapes, Shutdowns
  <2>3. /\ shutdown' \in Shutdowns
        /\ shutdown'.asked /\ shutdown'.finished /\ shutdown'.forced = shutdown.forced
        /\ shutdown'.deadline = "off" /\ shutdown'.finalDeadline = "off"
    BY <2>1, <2>2 DEF Shutdowns, Switch
  <2>4. shutdown.closed => store = Closed
    BY <1>5 DEF ProcessInv, CodesAreEarned
  <2>5. /\ store' \in {store, Closed} /\ exitCode' \in {code, 1}
        /\ exitCode' # 1 => store' = Closed
    BY <2>1, <2>4 DEF CloseApplication
  <2>6. store' \in [Databases -> BOOLEAN] /\ exitCode' \in {0, 1, None} /\ exitCode' # None
    BY <1>2, <2>5, NoneIsNoCode DEF Closed
  <2>7. TypeOK'
    BY <1>1, <1>3, <2>3, <2>6 DEF ProcessInv, TypeOK
  <2>8. Shapes' /\ Starting' /\ OpenUntilFinished'
    BY <1>1, <2>3, <2>5 DEF ProcessInv, Shapes, Starting, OpenUntilFinished, AllOpen, Shutdowns
  <2>9. NoneLeft'
    BY <1>1, <1>3, <2>3 DEF ProcessInv, NoneLeft
  <2>10. CodesAreEarned'
    BY <1>1, <2>3, <2>5, <2>6 DEF CodesAreEarned
  <2>11. QED
    BY <1>1, <2>7, <2>8, <2>9, <2>10, AnswersStay DEF ProcessInv
<1>6. QED BY <1>4, <1>5

LEMMA FinalDeadlineStep == ProcessInv /\ FinalDeadlinePasses => ProcessInv'
<1> SUFFICES ASSUME ProcessInv, FinalDeadlinePasses PROVE ProcessInv'
  OBVIOUS
<1>1. /\ pc = "running" /\ shutdown.finalDeadline = "armed" /\ finish(1)
      /\ server' = server /\ UNCHANGED <<pc, placement, files, handled, failed, request>>
  BY DEF FinalDeadlinePasses
<1>2. shutdown.asked /\ \A c \in Connections : ~socket[c]
  BY <1>1 DEF ProcessInv, TypeOK, NoneLeft
<1>3. QED
  BY <1>1, <1>2, FinishStep

LEMMA ServerClosesStep == ProcessInv /\ ServerCloses => ProcessInv'
<1> SUFFICES ASSUME ProcessInv, ServerCloses PROVE ProcessInv'
  OBVIOUS
<1>1. /\ pc = "running" /\ shutdown.asked /\ \A c \in Connections : ~socket[c]
      /\ server' = "closed" /\ finish(exitWhenClosed)
      /\ UNCHANGED <<pc, placement, files, handled, failed, request>>
  BY DEF ServerCloses
<1>2. PICK code \in {0, 1} : code = exitWhenClosed
  BY DEF exitWhenClosed
<1>3. code \in {0, 1} /\ finish(code) /\ (code = 0 => ~shutdown.forced)
  BY <1>1, <1>2 DEF exitWhenClosed
<1>4. QED
  BY <1>1, <1>3, FinishStep

\* The end of a process, however it comes.
LEMMA OffStep ==
    ASSUME ProcessInv, pc = "running", NEW code \in {0, 1}, Off(code)
    PROVE  ProcessInv'
<1>1. /\ pc' = "off" /\ exitCode' = code /\ server' = "none" /\ store' = Closed
      /\ socket' = [c \in Connections |-> FALSE] /\ handler' = [c \in Connections |-> NoRequest]
      /\ UNCHANGED <<placement, files, shutdown, handled, failed, visible, answer, cut>>
  BY DEF Off
<1>2. TypeOK'
  BY <1>1 DEF ProcessInv, TypeOK, Closed, NoRequest
<1>3. Shapes' /\ Starting'
  BY <1>1 DEF ProcessInv, Shapes, Starting, NoRequest
<1>4. OpenUntilFinished' /\ NoneLeft' /\ CodesAreEarned'
  BY <1>1 DEF ProcessInv, OpenUntilFinished, AllOpen, NoneLeft, CodesAreEarned
<1>5. QED
  BY <1>1, <1>2, <1>3, <1>4, AnswersStay DEF ProcessInv

LEMMA EndStep == ProcessInv /\ (Die \/ Exit) => ProcessInv'
<1> SUFFICES ASSUME ProcessInv, Die \/ Exit PROVE ProcessInv'
  OBVIOUS
<1>1. CASE Die
  BY <1>1, OffStep DEF Die
<1>2. CASE Exit
  <2>1. PICK code \in {0, 1} : code = IF exitCode = None THEN 0 ELSE exitCode
    BY DEF ProcessInv, TypeOK
  <2>2. code \in {0, 1} /\ Off(code) /\ pc = "running"
    BY <1>2, <2>1 DEF Exit
  <2>3. QED
    BY <2>2, OffStep
<1>3. QED BY <1>1, <1>2

-----------------------------------------------------------------------------
LEMMA ProcessStep == ProcessInv /\ [Next]_vars => ProcessInv'
<1> SUFFICES ASSUME ProcessInv, [Next]_vars PROVE ProcessInv'
  OBVIOUS
<1>1. CASE Next
  <2>1. CASE Launch \/ StartupFails \/ Listen
    BY <2>1, LaunchStep, StartupFailsStep, ListenStep
  <2>2. CASE OpenCandidates
    BY <2>2, OpeningStep DEF OpenCandidates, Databases
  <2>3. CASE OpenCapabilities
    BY <2>3, OpeningStep DEF OpenCapabilities, Databases
  <2>4. CASE ListenFails
    BY <2>4, ErrorStep DEF ListenFails
  <2>5. CASE AcceptFails
    BY <2>5, ErrorStep DEF AcceptFails
  <2>6. CASE \E c \in Connections : Serve(c)
    BY <2>6, ServeStep
  <2>7. CASE \E signal \in Signals : Signal(signal)
    BY <2>7, SignalStep
  <2>8. CASE DeadlinePasses \/ FinalDeadlinePasses \/ ServerCloses \/ Die \/ Exit
    BY <2>8, DeadlineStep, FinalDeadlineStep, ServerClosesStep, EndStep
  <2>9. QED
    BY <1>1, <2>1, <2>2, <2>3, <2>4, <2>5, <2>6, <2>7, <2>8 DEF Next
<1>2. CASE UNCHANGED vars
  <2>1. UNCHANGED <<pc, placement, files, store, server, shutdown, handled, exitCode, failed,
                    socket, handler, visible, answer, cut>>
    BY <1>2 DEF vars, request, life
  <2>2. QED
    BY <2>1 DEF ProcessInv, TypeOK, Shapes, Starting, OpenUntilFinished, AllOpen, NoneLeft, CodesAreEarned,
                StoresOutliveRequests, AnswersTellTheTruth
<1>3. QED BY <1>1, <1>2

\* The inductive invariant of the process.
THEOREM ProcessInvariant == Spec => []ProcessInv
<1>1. Init => ProcessInv
  BY ProcessInit
<1>2. ProcessInv /\ [Next]_vars => ProcessInv'
  BY ProcessStep
<1>3. QED
  BY <1>1, <1>2, PTL DEF Spec

\* The databases outlive every request: an answer of a process that has closed
\* one of them comes only after the server reported an error.
THEOREM NoClientMeetsAClosedDatabase == Spec => []StoresOutliveRequests
<1>1. ProcessInv => StoresOutliveRequests
  BY DEF ProcessInv
<1>2. QED
  BY <1>1, ProcessInvariant, PTL

\* What a client is told of its publication is what happened to it.
THEOREM ClientsAreToldTheTruth == Spec => []AnswersTellTheTruth
<1>1. ProcessInv => AnswersTellTheTruth
  BY DEF ProcessInv
<1>2. QED
  BY <1>1, ProcessInvariant, PTL

\* Whoever takes a step for a connection of a failed process.
LEMMA FailedServe ==
    ASSUME ProcessInv, failed, NEW c \in Connections, Serve(c)
    PROVE  visible' = visible /\ (answer' # answer => answer'.status \notin {200, 201})
<1>1. pc = "running" => ~store["candidates"]
  BY DEF ProcessInv, OpenUntilFinished, Closed, Databases
<1>2. CASE Accept(c) \/ Disconnect(c) \/ \E candidate \in Candidates : Post(c, candidate)
  BY <1>2 DEF Accept, Disconnect, Post
<1>3. CASE Get(c)
  BY <1>1, <1>3 DEF Get, Unavailable, Send
<1>4. CASE BadBody(c)
  BY <1>4 DEF BadBody, Send
<1>5. CASE Verify(c)
  BY <1>5 DEF Verify, Unavailable, Send
<1>6. CASE Refuse(c)
  BY <1>6 DEF Refuse, Send
<1>7. CASE Publish(c)
  BY <1>1, <1>7 DEF Publish, Unavailable, Send
<1>8. QED
  BY <1>2, <1>3, <1>4, <1>5, <1>6, <1>7 DEF Serve

\* Once the server reported an error, nothing is published and no client is told
\* that anything was, or given anything.
THEOREM ErrorsEndTheService == Spec => NothingIsServedAfterAnError
<1> DEFINE Ended == failed => /\ visible' = visible
                              /\ answer' # answer /\ answer' # None => answer'.status \notin {200, 201}
<1>1. ASSUME ProcessInv, Next PROVE Ended
  <2>1. CASE \E c \in Connections : Serve(c)
    BY <1>1, <2>1, FailedServe
  <2>2. CASE Launch
    BY <2>2 DEF Launch
  <2>3. CASE StartupFails \/ OpenCandidates \/ OpenCapabilities \/ Listen
    BY <2>3 DEF StartupFails, OpenCandidates, OpenCapabilities, Proceed, Listen, request
  <2>4. CASE ListenFails \/ AcceptFails
    BY <2>4 DEF ListenFails, AcceptFails, ReportError, request
  <2>5. CASE \E signal \in Signals : Signal(signal)
    BY <2>5 DEF Signal
  <2>6. CASE DeadlinePasses \/ FinalDeadlinePasses \/ ServerCloses \/ Die \/ Exit
    BY <2>6 DEF DeadlinePasses, FinalDeadlinePasses, ServerCloses, Die, Exit, Off, request
  <2>7. QED
    BY <1>1, <2>1, <2>2, <2>3, <2>4, <2>5, <2>6 DEF Next
<1>2. ProcessInv /\ [Next]_vars => [Ended]_vars
  BY <1>1
<1>3. QED
  BY <1>2, ProcessInvariant, PTL DEF Spec, NothingIsServedAfterAnError

\* A step in which a running process ends with the code 0.
LEMMA CleanExit ==
    ASSUME ProcessInv, Next, pc = "running", pc' = "off", exitCode' = 0
    PROVE  /\ shutdown.asked /\ ~shutdown.forced /\ ~cut
           /\ store = Closed /\ server = "closed"
           /\ \A c \in Connections : ~(socket[c] /\ handler[c] # NoRequest)
<1>1. Exit
  <2>1. ~Launch /\ ~StartupFails /\ ~OpenCandidates /\ ~OpenCapabilities /\ ~Listen /\ ~ListenFails
    BY DEF Launch, StartupFails, OpenCandidates, OpenCapabilities, Proceed, Listen, ListenFails
  <2>2. ~AcceptFails /\ ~DeadlinePasses /\ ~FinalDeadlinePasses /\ ~ServerCloses
    BY DEF AcceptFails, DeadlinePasses, FinalDeadlinePasses, ServerCloses
  <2>3. \A signal \in Signals : ~Signal(signal)
    BY DEF Signal
  <2>4. \A c \in Connections : ~Serve(c)
    BY DEF Serve, Accept, Disconnect, Get, Post, BadBody, Verify, Refuse, Publish, Unavailable, Send, life
  <2>5. ~Die
    BY DEF Die, Off
  <2>6. QED
    BY <2>1, <2>2, <2>3, <2>4, <2>5 DEF Next
<1>2. /\ server \in {"closed", "none"} /\ \A c \in Connections : ~socket[c] /\ handler[c] = NoRequest
      /\ exitCode = None \/ exitCode = 0
  BY <1>1 DEF Exit, Off
<1>3. server = "closed"
  BY <1>2, NoneIsNoCode DEF ProcessInv, CodesAreEarned
<1>4. shutdown.finished /\ exitCode # None /\ exitCode # 1
  BY <1>2, <1>3 DEF ProcessInv, CodesAreEarned
<1>5. ~shutdown.forced /\ store = Closed
  BY <1>4 DEF ProcessInv, CodesAreEarned
<1>6. shutdown.asked /\ ~cut
  BY <1>4, <1>5 DEF ProcessInv, Shapes, NoneLeft
<1>7. QED
  BY <1>2, <1>3, <1>5, <1>6

\* A process that exits with 0 was asked to stop, cut no connection, closed both
\* databases and left no client waiting.
THEOREM ZeroMeansDrained == Spec => CleanExitsAreDrained
<1> DEFINE Clean == pc = "running" /\ pc' = "off" /\ exitCode' = 0 =>
                       /\ shutdown.asked /\ ~shutdown.forced /\ ~cut
                       /\ store = Closed /\ server = "closed"
                       /\ \A c \in Connections : ~(socket[c] /\ handler[c] # NoRequest)
<1>1. ProcessInv /\ [Next]_vars => [Clean]_vars
  BY CleanExit
<1>2. QED
  BY <1>1, ProcessInvariant, PTL DEF Spec, CleanExitsAreDrained

=============================================================================
