-------------------------- MODULE SessionTransport --------------------------
(***************************************************************************)
(* The scoped Python session: caller threads, the session's one IO thread  *)
(* and the worker process it talks to over pipes (Session in _session.py,  *)
(* Client in client.py, run in session_transport.rs).                      *)
(*                                                                         *)
(* Two locks protect different things: `serial` admits one request at a    *)
(* time and is waited for with a deadline; `cleanup` orders close() with   *)
(* the enqueue of a request and is held while close() joins the IO thread. *)
(* closed, stop and failure are read outside those locks too, so close() is*)
(* one action per assignment.  A request is its number in `sequence`; the  *)
(* handshake is exchange 0.  The worker may be slow, garble an answer or   *)
(* die at any moment: nothing fair is assumed of it.                       *)
(***************************************************************************)
EXTENDS Integers, Sequences, FiniteSets

CONSTANTS Threads,   \* the threads of the Python process that use the client
          Opener,    \* the thread that enters the context
          NoThread,  \* a lock nobody holds
          MaxCalls   \* bound: requests started

ASSUME SessionAssumption ==
  /\ Opener \in Threads
  /\ NoThread \notin Threads
  /\ MaxCalls \in Nat

Hello    == 0          \* the number of the handshake exchange
Requests == 1..MaxCalls
NoId     == -1         \* no exchange; as an answer, a frame of no request
Quit     == -2         \* the None that close() queues

VARIABLES
  serial, cleanup,          \* the holders of the two locks
  closed, stop, failure,    \* _closed, _stop, _failure
  clientClosed,             \* Client._closed
  opened,                   \* Client._session is set
  tasks,                    \* _tasks, a queue of one
  sequence,                 \* _sequence
  exchange,                 \* the _Exchange of every number
  ioPc, ioTask,             \* the IO thread and its `current`
  pc, request, raise,       \* a thread's step, its request, what it raises
  calls,                    \* requests started
  outcome,                  \* what the caller of each request was told
  worker,                   \* "up", "busy" or "dead"
  lastId, running,          \* the worker's last_id and current request
  greeted,                  \* the worker wrote its handshake
  stdin, stdout,            \* the pipes
  written, served           \* history: frames sent, requests dispatched

locks    == <<serial, cleanup>>
flags    == <<closed, stop, failure, clientClosed, opened>>
io       == <<ioPc, ioTask>>
callers  == <<pc, request, raise, calls, outcome>>
process  == <<worker, lastId, running, greeted>>
pipes    == <<stdin, stdout>>
history  == <<written, served>>
vars     == <<locks, flags, tasks, sequence, exchange, io, callers, process,
              pipes, history>>

Fresh == [done |-> FALSE, error |-> "none", response |-> NoId]

Init ==
  /\ serial = NoThread /\ cleanup = NoThread
  /\ closed = FALSE /\ stop = FALSE /\ failure = FALSE
  /\ clientClosed = FALSE /\ opened = FALSE
  /\ tasks = <<>> /\ sequence = 0
  /\ exchange = [i \in Requests \cup {Hello} |-> Fresh]
  /\ ioPc = "read" /\ ioTask = Hello
  /\ pc = [t \in Threads |-> IF t = Opener THEN "ready" ELSE "idle"]
  /\ request = [t \in Threads |-> NoId]
  /\ raise = [t \in Threads |-> "none"]
  /\ calls = 0
  /\ outcome = [i \in Requests |-> "none"]
  /\ worker = "up" /\ lastId = 0 /\ running = NoId /\ greeted = FALSE
  /\ stdin = <<>> /\ stdout = <<>>
  /\ written = {} /\ served = <<>>

-----------------------------------------------------------------------------
(* Leaving request(): `finally: self._serial.release()` and the answer or  *)
(* the exception that the caller of the client sees.                       *)

Leave(t, what) ==
  /\ pc' = [pc EXCEPT ![t] = "idle"]
  /\ request' = [request EXCEPT ![t] = NoId]
  /\ raise' = [raise EXCEPT ![t] = "none"]
  /\ serial' = IF serial = t THEN NoThread ELSE serial
  /\ outcome' = [i \in Requests |-> IF i = request[t] THEN what ELSE outcome[i]]

(* The thread calls close() and raises `what` once it returns.             *)
CloseThen(t, what) ==
  /\ pc' = [pc EXCEPT ![t] = "close"]
  /\ raise' = [raise EXCEPT ![t] = what]
  /\ UNCHANGED <<request, calls, outcome>>

Goto(t, step) ==
  /\ pc' = [pc EXCEPT ![t] = step]
  /\ UNCHANGED <<request, raise, calls, outcome>>

-----------------------------------------------------------------------------
(* Entering the context: the rest of Session.__init__ waits for the        *)
(* handshake that the IO thread reads first.                               *)

Ready(t) ==
  /\ pc[t] = "ready" /\ exchange[Hello].done
  /\ exchange[Hello].error = "none" /\ exchange[Hello].response = Hello
  /\ opened' = TRUE
  /\ Goto(t, "idle")
  /\ UNCHANGED <<locks, closed, stop, failure, clientClosed, tasks, sequence,
                 exchange, io, process, pipes, history>>

(* A timeout, an IO error or an unexpected handshake closes the session;   *)
(* __enter__ then closes the client for good.                              *)
StartupFails(t) ==
  /\ pc[t] = "ready"
  /\ exchange[Hello].done =>
       exchange[Hello].error # "none" \/ exchange[Hello].response # Hello
  /\ clientClosed' = TRUE
  /\ CloseThen(t, "startup")
  /\ UNCHANGED <<locks, closed, stop, failure, opened, tasks, sequence,
                 exchange, io, process, pipes, history>>

-----------------------------------------------------------------------------
(* Client._run and Session.request                                         *)

Call(t) ==
  /\ pc[t] = "idle" /\ opened /\ ~clientClosed /\ calls < MaxCalls
  /\ calls' = calls + 1
  /\ pc' = [pc EXCEPT ![t] = "serial"]
  /\ UNCHANGED <<locks, flags, tasks, sequence, exchange, io, request, raise,
                 outcome, process, pipes, history>>

AcquireSerial(t) ==
  /\ pc[t] = "serial" /\ serial = NoThread
  /\ serial' = t
  /\ Goto(t, "check")
  /\ UNCHANGED <<cleanup, flags, tasks, sequence, exchange, io, process,
                 pipes, history>>

(* SessionTimeout(before_dispatch=True) while another call holds the slot. *)
SerialTimeout(t) ==
  /\ pc[t] = "serial" /\ serial # NoThread
  /\ Leave(t, "not_sent")
  /\ UNCHANGED <<cleanup, flags, tasks, sequence, exchange, io, calls,
                 process, pipes, history>>

Broken == closed \/ failure \/ worker = "dead"

RefuseBroken(t) ==
  /\ pc[t] = "check" /\ Broken
  /\ CloseThen(t, "not_sent")
  /\ UNCHANGED <<locks, flags, tasks, sequence, exchange, io, process, pipes,
                 history>>

NextId == sequence + 1

TakeNumber(t) ==
  /\ pc[t] = "check" /\ ~Broken
  /\ sequence' = NextId
  /\ request' = [request EXCEPT ![t] = NextId]
  /\ pc' = [pc EXCEPT ![t] = "enqueue"]
  /\ UNCHANGED <<locks, flags, tasks, exchange, io, raise, calls, outcome,
                 process, pipes, history>>

(* A frame over the limit, or no time left: the number is used up.         *)
RefuseFrame(t) ==
  /\ pc[t] = "enqueue"
  /\ Leave(t, "not_sent")
  /\ UNCHANGED <<cleanup, flags, tasks, sequence, exchange, io, calls,
                 process, pipes, history>>

(* The block `with self._cleanup`.  put_nowait would raise queue.Full over *)
(* a queued exchange, which the request slot does not let happen.          *)
EnqueueClosed(t) ==
  /\ pc[t] = "enqueue" /\ cleanup = NoThread /\ closed
  /\ Leave(t, "not_sent")
  /\ UNCHANGED <<cleanup, flags, tasks, sequence, exchange, io, calls,
                 process, pipes, history>>

Enqueue(t) ==
  /\ pc[t] = "enqueue" /\ cleanup = NoThread /\ ~closed
  /\ tasks' = Append(tasks, request[t])
  /\ Goto(t, "wait")
  /\ UNCHANGED <<locks, flags, sequence, exchange, io, process, pipes,
                 history>>

(* Mutant: any well-formed answer is taken for this request's.             *)
AnswerFitsAny(t) ==
  exchange[request[t]].done /\ exchange[request[t]].error = "none"

AnswerFits(t) ==
  LET x == exchange[request[t]]
  IN  x.done /\ x.error = "none" /\ x.response = request[t]

Answered(t) ==
  /\ pc[t] = "wait" /\ AnswerFits(t)
  /\ Leave(t, "ok")
  /\ UNCHANGED <<cleanup, flags, tasks, sequence, exchange, io, calls,
                 process, pipes, history>>

(* An error from the IO thread or from close(), or an answer that is not   *)
(* the answer to this request.                                             *)
AnswerRefused(t) ==
  /\ pc[t] = "wait" /\ exchange[request[t]].done /\ ~AnswerFits(t)
  /\ LET x == exchange[request[t]]
     IN  /\ CloseThen(t, IF x.error = "broken" THEN "not_sent" ELSE "protocol")
         /\ failure' = (failure \/ x.error = "none")
  /\ UNCHANGED <<locks, closed, stop, clientClosed, opened, tasks, sequence,
                 exchange, io, process, pipes, history>>

(* Mutant: a timed-out request leaves the session open for the next call.  *)
WaitTimeoutKeepsSession(t) ==
  /\ pc[t] = "wait" /\ ~exchange[request[t]].done
  /\ Leave(t, "timeout")
  /\ UNCHANGED <<cleanup, flags, tasks, sequence, exchange, io, calls,
                 process, pipes, history>>

WaitTimeout(t) ==
  /\ pc[t] = "wait" /\ ~exchange[request[t]].done
  /\ failure' = TRUE
  /\ CloseThen(t, "timeout")
  /\ UNCHANGED <<locks, closed, stop, clientClosed, opened, tasks, sequence,
                 exchange, io, process, pipes, history>>

(* KeyboardInterrupt while waiting: the handler for BaseException.         *)
Interrupt(t) ==
  /\ pc[t] = "wait"
  /\ failure' = (failure \/ ~closed)
  /\ IF closed THEN Leave(t, "interrupted") /\ UNCHANGED calls
               ELSE CloseThen(t, "interrupted") /\ UNCHANGED serial
  /\ UNCHANGED <<cleanup, closed, stop, clientClosed, opened, tasks, sequence,
                 exchange, io, process, pipes, history>>

-----------------------------------------------------------------------------
(* close(), by an explicit call, by leaving the context or from request(). *)

ClientClose(t) ==
  /\ pc[t] = "idle" /\ opened /\ ~clientClosed
  /\ clientClosed' = TRUE
  /\ CloseThen(t, "none")
  /\ UNCHANGED <<locks, closed, stop, failure, opened, tasks, sequence,
                 exchange, io, process, pipes, history>>

CloseAgain(t) ==
  /\ pc[t] = "close" /\ cleanup = NoThread /\ closed
  /\ Leave(t, raise[t])
  /\ UNCHANGED <<cleanup, flags, tasks, sequence, exchange, io, calls,
                 process, pipes, history>>

CloseBegin(t) ==
  /\ pc[t] = "close" /\ cleanup = NoThread /\ ~closed
  /\ cleanup' = t
  /\ closed' = TRUE
  /\ Goto(t, "stop")
  /\ UNCHANGED <<serial, stop, failure, clientClosed, opened, tasks, sequence,
                 exchange, io, process, pipes, history>>

CloseStop(t) ==
  /\ pc[t] = "stop"
  /\ stop' = TRUE
  /\ Goto(t, "kill")
  /\ UNCHANGED <<locks, closed, failure, clientClosed, opened, tasks,
                 sequence, exchange, io, process, pipes, history>>

CloseKill(t) ==
  /\ pc[t] = "kill"
  /\ worker' = "dead"
  /\ Goto(t, "drain")
  /\ UNCHANGED <<locks, flags, tasks, sequence, exchange, io, lastId, running,
                 greeted, pipes, history>>

(* Mutant: a queued exchange is dropped without waking its caller.         *)
CloseDrainSilently(t) ==
  /\ pc[t] = "drain"
  /\ tasks' = <<>>
  /\ Goto(t, "quit")
  /\ UNCHANGED <<locks, flags, sequence, exchange, io, process, pipes,
                 history>>

CloseDrain(t) ==
  /\ pc[t] = "drain"
  /\ tasks' = <<>>
  /\ exchange' = [i \in DOMAIN exchange |->
                    IF tasks # <<>> /\ Head(tasks) = i
                    THEN [exchange[i] EXCEPT !.error = "broken", !.done = TRUE]
                    ELSE exchange[i]]
  /\ Goto(t, "quit")
  /\ UNCHANGED <<locks, flags, sequence, io, process, pipes, history>>

CloseQuit(t) ==
  /\ pc[t] = "quit"
  /\ tasks' = IF tasks = <<>> THEN <<Quit>> ELSE tasks
  /\ Goto(t, "join")
  /\ UNCHANGED <<locks, flags, sequence, exchange, io, process, pipes,
                 history>>

(* thread.join returned: the streams are closed and the lock is released.  *)
CloseJoined(t) ==
  /\ pc[t] = "join" /\ ioPc = "ended"
  /\ cleanup' = NoThread
  /\ Leave(t, raise[t])
  /\ UNCHANGED <<flags, tasks, sequence, exchange, io, calls, process, pipes,
                 history>>

(* The join timed out: close() raises SessionProtocolError instead.        *)
(* Mutant: the lock is not released on this path.                          *)
CloseGivesUpLocked(t) ==
  /\ pc[t] = "join" /\ ioPc # "ended"
  /\ Leave(t, "protocol")
  /\ UNCHANGED <<cleanup, flags, tasks, sequence, exchange, io, calls,
                 process, pipes, history>>

CloseGivesUp(t) ==
  /\ pc[t] = "join" /\ ioPc # "ended"
  /\ cleanup' = NoThread
  /\ Leave(t, "protocol")
  /\ UNCHANGED <<flags, tasks, sequence, exchange, io, calls, process, pipes,
                 history>>

-----------------------------------------------------------------------------
(* The IO thread (_io)                                                     *)

IoUnchanged == UNCHANGED <<locks, closed, stop, clientClosed, opened,
                           sequence, callers, process>>

(* Mutant: every failure of the IO thread is reported as a closed session. *)
IoFailsAsBroken(error) ==
  /\ failure' = TRUE
  /\ exchange' = [exchange EXCEPT ![ioTask].error = "broken",
                                  ![ioTask].done = TRUE]
  /\ ioPc' = "ended"
  /\ UNCHANGED <<ioTask, tasks, pipes, history>>

IoFails(error) ==
  /\ failure' = TRUE
  /\ exchange' = [exchange EXCEPT ![ioTask].error = error,
                                  ![ioTask].done = TRUE]
  /\ ioPc' = "ended"
  /\ UNCHANGED <<ioTask, tasks, pipes, history>>

IoLoop ==
  /\ ioPc = "loop"
  /\ ioPc' = IF stop THEN "ended" ELSE "take"
  /\ UNCHANGED <<ioTask, failure, exchange, tasks, pipes, history>>
  /\ IoUnchanged

IoTake ==
  /\ ioPc = "take" /\ tasks # <<>>
  /\ tasks' = <<>>
  /\ ioTask' = Head(tasks)
  /\ ioPc' = IF ioTask' = Quit THEN "ended" ELSE "check"
  /\ UNCHANGED <<failure, exchange, pipes, history>>
  /\ IoUnchanged

IoCheck ==
  /\ ioPc = "check"
  /\ IF stop THEN IoFails("broken")
             ELSE /\ ioPc' = "write"
                  /\ UNCHANGED <<ioTask, failure, exchange, tasks, pipes,
                                 history>>
  /\ IoUnchanged

IoWrite ==
  /\ ioPc = "write"
  /\ IF worker = "dead"
     THEN IoFails("failed")
     ELSE /\ stdin' = Append(stdin, ioTask)
          /\ written' = written \cup {ioTask}
          /\ ioPc' = "read"
          /\ UNCHANGED <<ioTask, failure, exchange, tasks, stdout, served>>
  /\ IoUnchanged

(* What the worker wrote before it died can still be read.                 *)
IoRead ==
  /\ ioPc = "read" /\ stdout # <<>>
  /\ stdout' = Tail(stdout)
  /\ exchange' = [exchange EXCEPT ![ioTask].response = Head(stdout),
                                  ![ioTask].done = TRUE]
  /\ ioPc' = "loop"
  /\ UNCHANGED <<ioTask, failure, tasks, stdin, history>>
  /\ IoUnchanged

IoEof ==
  /\ ioPc = "read" /\ stdout = <<>> /\ worker = "dead"
  /\ IoFails("failed")
  /\ IoUnchanged

IoStep == IoLoop \/ IoTake \/ IoCheck \/ IoWrite \/ IoRead \/ IoEof

-----------------------------------------------------------------------------
(* The worker process                                                      *)

WorkerUnchanged == UNCHANGED <<locks, flags, tasks, sequence, exchange, io,
                               callers, written>>

(* An answer names its request; a garbled frame names none.                *)
WorkerHello ==
  /\ worker = "up" /\ ~greeted
  /\ \E answer \in {Hello, NoId} : stdout' = Append(stdout, answer)
  /\ greeted' = TRUE
  /\ UNCHANGED <<worker, lastId, running, stdin, served>>
  /\ WorkerUnchanged

(* A number that does not grow is refused, and the worker ends.            *)
WorkerTake ==
  /\ worker = "up" /\ greeted /\ stdin # <<>>
  /\ LET id == Head(stdin)
     IN  IF id <= lastId
         THEN /\ worker' = "dead"
              /\ UNCHANGED <<lastId, running, served>>
         ELSE /\ worker' = "busy"
              /\ lastId' = id
              /\ running' = id
              /\ served' = Append(served, id)
  /\ stdin' = Tail(stdin)
  /\ UNCHANGED <<greeted, stdout>>
  /\ WorkerUnchanged

WorkerAnswer ==
  /\ worker = "busy"
  /\ \E answer \in {running, NoId} : stdout' = Append(stdout, answer)
  /\ worker' = "up"
  /\ running' = NoId
  /\ UNCHANGED <<lastId, greeted, stdin, served>>
  /\ WorkerUnchanged

WorkerDies ==
  /\ worker # "dead"
  /\ worker' = "dead"
  /\ UNCHANGED <<lastId, running, greeted, pipes, served>>
  /\ WorkerUnchanged

-----------------------------------------------------------------------------
CallerStep(t) ==
  \/ Ready(t) \/ StartupFails(t)
  \/ AcquireSerial(t) \/ SerialTimeout(t)
  \/ RefuseBroken(t) \/ TakeNumber(t) \/ RefuseFrame(t)
  \/ EnqueueClosed(t) \/ Enqueue(t)
  \/ Answered(t) \/ AnswerRefused(t) \/ WaitTimeout(t)
  \/ CloseAgain(t) \/ CloseBegin(t) \/ CloseStop(t) \/ CloseKill(t)
  \/ CloseDrain(t) \/ CloseQuit(t) \/ CloseJoined(t) \/ CloseGivesUp(t)

Next ==
  \/ \E t \in Threads : CallerStep(t)
  \/ \E t \in Threads : Call(t) \/ ClientClose(t) \/ Interrupt(t)
  \/ IoStep
  \/ WorkerHello \/ WorkerTake \/ WorkerAnswer \/ WorkerDies

(* The operating system runs every thread and every timer fires; a wait    *)
(* ends with the event or with its deadline.                               *)
Fairness == (\A t \in Threads : WF_vars(CallerStep(t))) /\ WF_vars(IoStep)

Spec == Init /\ [][Next]_vars /\ Fairness

-----------------------------------------------------------------------------
(* The shape of the state: locks, queue, exchanges and steps.  In          *)
(* particular a thread inside close() past its first step holds `cleanup`. *)
TypeOK ==
  /\ {serial, cleanup} \subseteq Threads \cup {NoThread}
  /\ {closed, stop, failure, clientClosed, opened, greeted} \subseteq BOOLEAN
  /\ tasks \in Seq(Requests \cup {Quit})
  /\ sequence \in 0..MaxCalls /\ calls \in 0..MaxCalls
  /\ exchange \in [Requests \cup {Hello} ->
                     [done : BOOLEAN, error : {"none", "broken", "failed"},
                      response : Requests \cup {Hello, NoId}]]
  /\ ioPc \in {"loop", "take", "check", "write", "read", "ended"}
  /\ ioTask \in Requests \cup {Hello, Quit}
  /\ pc \in [Threads -> {"idle", "ready", "serial", "check", "enqueue", "wait",
                         "close", "stop", "kill", "drain", "quit", "join"}]
  /\ \A t \in Threads :
       pc[t] \in {"stop", "kill", "drain", "quit", "join"} <=> cleanup = t
  /\ request \in [Threads -> Requests \cup {NoId}]
  /\ raise \in [Threads -> {"none", "startup", "not_sent", "timeout",
                            "protocol", "interrupted"}]
  /\ outcome \in [Requests -> {"none", "ok", "not_sent", "timeout",
                               "protocol", "interrupted"}]
  /\ worker \in {"up", "busy", "dead"}
  /\ lastId \in 0..MaxCalls /\ running \in Requests \cup {NoId}
  /\ written \subseteq Requests
  /\ served \in Seq(Requests)

(* A caller that is told its request was not sent (SessionBroken, or a     *)
(* timeout before dispatch) can rely on it: no frame of that request ever  *)
(* reaches the worker, whatever close(), the queue and the IO thread do.   *)
NotSentIsTrue == \A i \in written : outcome[i] # "not_sent"

(* A caller that gets a result gets the answer to its own request, which   *)
(* the worker dispatched exactly once.                                     *)
OkIsTheAnswer ==
  \A i \in Requests : outcome[i] = "ok" =>
    /\ exchange[i].response = i
    /\ Cardinality({k \in 1..Len(served) : served[k] = i}) = 1

Ended == \E i \in Requests : outcome[i] \in {"timeout", "protocol"}

(* "Timeout or a broken worker ends the session without replay": once a    *)
(* caller was told of either, no frame reaches the worker any more.        *)
NothingSentAfterTheEnd == [][Ended => UNCHANGED <<written, served>>]_vars

(* Closing wakes every caller: a request that was queued when the session  *)
(* was closed gets an answer or an error, without help of its deadline.    *)
CloseSettles ==
  \A i \in Requests :
    (closed /\ \E t \in Threads : pc[t] = "wait" /\ request[t] = i)
      ~> exchange[i].done

(* Every call returns: no order of waiting, closing, joining and dying     *)
(* leaves a caller blocked.                                                *)
RequestReturns == \A t \in Threads : pc[t] # "idle" ~> pc[t] = "idle"
=============================================================================
