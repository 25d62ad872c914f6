----------------------- MODULE SessionTransportProofs -----------------------
(***************************************************************************)
(* Safety of the Python session, for every number of threads and requests: *)
(* what a caller is told about its request is true, and nothing reaches the*)
(* worker after a session has ended.                                       *)
(***************************************************************************)
EXTENDS SessionTransport, FiniteSetTheorems, TLAPS

(***************************************************************************)
(* The inductive invariant                                                 *)
(***************************************************************************)
Closing == {"stop", "kill", "drain", "quit", "join"}

Steps == {"idle", "ready", "serial", "check", "enqueue", "wait", "close"} \cup Closing

Exchange == [done : BOOLEAN, error : {"none", "broken", "failed"},
             response : Requests \cup {Hello, NoId}]

Elems(s) == {s[k] : k \in 1..Len(s)}

\* The threads that were admitted by the client and have no number yet.
Starting == {t \in Threads : pc[t] \in {"serial", "check"}}

\* Every number is taken by a call of its own.
CountInv ==
  /\ IsFiniteSet(Starting)
  /\ sequence + Cardinality(Starting) <= calls

\* The request slot: who has a number holds it, and it is the newest number.
SlotInv ==
  \A t \in Threads :
    /\ pc[t] \in {"check", "enqueue", "wait"} => serial = t
    /\ request[t] # NoId => serial = t /\ request[t] = sequence
    /\ pc[t] \in {"enqueue", "wait"} => request[t] # NoId
    /\ pc[t] \in {"idle", "ready", "serial", "check"} => request[t] = NoId
    /\ raise[t] # "none" => pc[t] \in Closing \cup {"close"}
    /\ raise[t] = "startup" => request[t] = NoId

\* A request that no other thread has heard of.
Private(i) == i > sequence \/ \E t \in Threads : request[t] = i /\ pc[t] = "enqueue"

PrivateInv ==
  \A i \in Requests : Private(i) =>
    /\ i \notin written /\ exchange[i] = Fresh /\ outcome[i] = "none"
    /\ ioTask # i /\ tasks # <<i>>

\* The queue holds at most one exchange, of a caller that still waits unless
\* the session is closed.
QueueInv ==
  /\ tasks = <<>> \/ \E x \in Requests \cup {Quit} : tasks = <<x>>
  /\ tasks = <<Quit>> => closed
  /\ \A i \in Requests : tasks = <<i>> =>
       /\ i \notin written /\ ~ exchange[i].done /\ ioTask # i
       /\ closed \/ \E t \in Threads : request[t] = i /\ pc[t] \in {"wait", "close"}

\* The IO thread settles an exchange once, and writes it once.
IoInv ==
  /\ ioPc \in {"check", "write"} => ioTask \in Requests /\ ioTask \notin written
  /\ ioPc \in {"check", "write", "read"} => ioTask # Quit /\ ~ exchange[ioTask].done

\* Neither sent nor on its way to the worker.
Unsent(i) ==
  /\ i \notin written /\ tasks # <<i>> /\ ~ Private(i)
  /\ ~ (ioTask = i /\ ioPc \in {"check", "write"})

\* Every ground for telling a caller that its request was not sent.
SentInv ==
  \A i \in Requests :
    \/ outcome[i] = "not_sent"
    \/ exchange[i].error = "broken"
    \/ \E t \in Threads : request[t] = i /\ raise[t] = "not_sent"
    => Unsent(i)

\* The worker dispatches growing numbers and answers what it dispatched.
WorkerInv ==
  /\ stdin \in Seq(Requests) /\ stdout \in Seq(Requests \cup {Hello, NoId})
  /\ \A k, l \in 1..Len(served) : k < l => served[k] < served[l]
  /\ \A k \in 1..Len(served) : served[k] <= lastId
  /\ running # NoId => running \in Elems(served)
  /\ worker = "busy" => running # NoId
  /\ Elems(stdout) \subseteq Elems(served) \cup {Hello, NoId}

AnswerInv ==
  \A i \in Requests :
    /\ exchange[i].response \in Elems(served) \cup {Hello, NoId}
    /\ outcome[i] = "ok" => exchange[i].response = i /\ exchange[i].done

\* close() kills the worker before it lets anyone else go on.
KillInv ==
  /\ closed /\ cleanup = NoThread => worker = "dead"
  /\ \A t \in Threads : pc[t] \in {"drain", "quit", "join"} => worker = "dead"
  /\ cleanup # NoThread => closed
  /\ Ended => worker = "dead"

IInv ==
  /\ TypeOK /\ CountInv /\ SlotInv /\ PrivateInv /\ QueueInv /\ IoInv /\ SentInv
  /\ WorkerInv /\ AnswerInv /\ KillInv

(***************************************************************************)
(* Sequences                                                               *)
(***************************************************************************)
LEMMA ElemsAppend ==
  ASSUME NEW S, NEW s \in Seq(S), NEW x \in S
  PROVE  /\ Append(s, x) \in Seq(S)
         /\ Elems(Append(s, x)) = Elems(s) \cup {x}
<1>1. Append(s, x) \in Seq(S) /\ Len(Append(s, x)) = Len(s) + 1 /\ Len(s) \in Nat
  OBVIOUS
<1>2. Append(s, x)[Len(s) + 1] = x /\ \A k \in 1..Len(s) : Append(s, x)[k] = s[k]
  OBVIOUS
<1>3. \A k \in 1..(Len(s) + 1) : k \in 1..Len(s) \/ k = Len(s) + 1
  BY <1>1
<1>4. 1..Len(s) \subseteq 1..(Len(s) + 1) /\ Len(s) + 1 \in 1..(Len(s) + 1)
  BY <1>1
<1> QED
  BY <1>1, <1>2, <1>3, <1>4 DEF Elems

LEMMA ElemsTail ==
  ASSUME NEW S, NEW s \in Seq(S), s # <<>>
  PROVE  /\ Head(s) \in S /\ Head(s) \in Elems(s)
         /\ Tail(s) \in Seq(S) /\ Elems(Tail(s)) \subseteq Elems(s)
<1>1. Len(s) \in Nat /\ Len(s) >= 1 /\ Head(s) = s[1] /\ s[1] \in S
  OBVIOUS
<1>2. Tail(s) \in Seq(S) /\ Len(Tail(s)) = Len(s) - 1
  OBVIOUS
<1>3. \A k \in 1..(Len(s) - 1) : Tail(s)[k] = s[k + 1] /\ k + 1 \in 1..Len(s)
  BY <1>1
<1>4. 1 \in 1..Len(s)
  BY <1>1
<1> QED
  BY <1>1, <1>2, <1>3, <1>4 DEF Elems

(***************************************************************************)
(* Steps                                                                   *)
(***************************************************************************)
\* A step of a caller: of its own, or one the environment asks of it.
Caller(t) == CallerStep(t) \/ Call(t) \/ ClientClose(t) \/ Interrupt(t)

Worker == WorkerHello \/ WorkerTake \/ WorkerAnswer \/ WorkerDies

\* The steps of a caller: it leaves, it turns to close(), or it moves on.
Leaves(t) ==
  \/ SerialTimeout(t) \/ RefuseFrame(t) \/ EnqueueClosed(t) \/ Answered(t)
  \/ CloseAgain(t) \/ CloseJoined(t) \/ CloseGivesUp(t)
  \/ Interrupt(t) /\ closed

Turns(t) ==
  \/ StartupFails(t) \/ RefuseBroken(t) \/ AnswerRefused(t) \/ WaitTimeout(t) \/ ClientClose(t)
  \/ Interrupt(t) /\ ~ closed

Moves(t) ==
  \/ Ready(t) \/ Call(t) \/ AcquireSerial(t) \/ TakeNumber(t) \/ Enqueue(t)
  \/ CloseBegin(t) \/ CloseStop(t) \/ CloseKill(t) \/ CloseDrain(t) \/ CloseQuit(t)

LEMMA CallerKinds ==
  ASSUME NEW t, Caller(t)
  PROVE  Leaves(t) \/ Turns(t) \/ Moves(t)
BY DEF Caller, CallerStep, Leaves, Turns, Moves

\* Leaving: the slot is released and the caller is told the outcome.
LEMMA LeavesShape ==
  ASSUME IInv, NEW t \in Threads, Leaves(t)
  PROVE  /\ UNCHANGED <<flags, tasks, sequence, exchange, io, calls, process, pipes, history>>
         /\ pc' = [pc EXCEPT ![t] = "idle"] /\ request' = [request EXCEPT ![t] = NoId]
         /\ raise' = [raise EXCEPT ![t] = "none"]
         /\ serial' = IF serial = t THEN NoThread ELSE serial
         /\ \/ cleanup' = cleanup /\ pc[t] \notin Closing
            \/ cleanup' = NoThread /\ pc[t] = "join"
         /\ \E what \in {"none", "startup", "ok", "not_sent", "timeout", "protocol", "interrupted"} :
              /\ outcome' = [i \in Requests |-> IF i = request[t] THEN what ELSE outcome[i]]
              /\ what = "startup" => raise[t] = "startup"
              /\ what = "ok" => pc[t] = "wait" /\ AnswerFits(t)
              /\ what = "not_sent" => pc[t] \in {"serial", "enqueue"} \/ raise[t] = "not_sent"
              /\ what \in {"timeout", "protocol"} => closed /\ cleanup' = NoThread
         /\ pc[t] \in {"serial", "enqueue"} \/ closed \/ AnswerFits(t)
<1>1. raise[t] \in {"none", "startup", "not_sent", "timeout", "protocol", "interrupted"}
  BY DEF IInv, TypeOK
<1>2. pc[t] \in Closing => cleanup = t /\ closed
  BY SessionAssumption DEF IInv, TypeOK, Closing, KillInv
<1>3. UNCHANGED <<flags, tasks, sequence, exchange, io, calls, process, pipes, history>>
  <2>1. CASE Interrupt(t) /\ closed
    <3>1. failure' = failure
      BY <2>1 DEF Interrupt, IInv, TypeOK
    <3> QED
      BY <2>1, <3>1 DEF Interrupt, flags
  <2> QED
    BY <2>1 DEF Leaves, SerialTimeout, RefuseFrame, EnqueueClosed, Answered, CloseAgain,
       CloseJoined, CloseGivesUp
<1>4. PICK what \in {"none", "startup", "ok", "not_sent", "timeout", "protocol", "interrupted"} :
        /\ Leave(t, what)
        /\ what = "startup" => raise[t] = "startup"
        /\ what = "ok" => pc[t] = "wait" /\ AnswerFits(t)
        /\ what = "not_sent" => pc[t] \in {"serial", "enqueue"} \/ raise[t] = "not_sent"
        /\ what \in {"timeout", "protocol"} => closed /\ cleanup' = NoThread
        /\ \/ cleanup' = cleanup /\ pc[t] \notin Closing
           \/ cleanup' = NoThread /\ pc[t] = "join"
        /\ pc[t] \in {"serial", "enqueue"} \/ closed \/ AnswerFits(t)
  <2>1. CASE SerialTimeout(t)
    BY <2>1 DEF SerialTimeout, Closing
  <2>2. CASE RefuseFrame(t)
    BY <2>2 DEF RefuseFrame, Closing
  <2>3. CASE EnqueueClosed(t)
    BY <2>3 DEF EnqueueClosed, Closing
  <2>4. CASE Answered(t)
    BY <2>4 DEF Answered, Closing
  <2>5. CASE CloseAgain(t)
    BY <1>1, <2>5 DEF CloseAgain, Closing
  <2>6. CASE CloseJoined(t)
    BY <1>1, <1>2, <2>6 DEF CloseJoined, Closing
  <2>7. CASE CloseGivesUp(t)
    BY <1>2, <2>7 DEF CloseGivesUp, Closing
  <2>8. CASE Interrupt(t) /\ closed
    BY <2>8 DEF Interrupt, Closing
  <2> QED
    BY <2>1, <2>2, <2>3, <2>4, <2>5, <2>6, <2>7, <2>8 DEF Leaves
<1> QED
  BY <1>3, <1>4 DEF Leave

\* Turning to close(): the caller keeps its number and notes what to raise.
LEMMA TurnsShape ==
  ASSUME IInv, NEW t \in Threads, Turns(t)
  PROVE  /\ UNCHANGED <<locks, closed, stop, opened, tasks, sequence, exchange, io, process,
                        pipes, history, request, calls, outcome>>
         /\ failure' \in BOOLEAN /\ clientClosed' \in BOOLEAN
         /\ pc' = [pc EXCEPT ![t] = "close"]
         /\ pc[t] \in {"ready", "check", "wait", "idle"}
         /\ \E what \in {"none", "startup", "not_sent", "timeout", "protocol", "interrupted"} :
              /\ raise' = [raise EXCEPT ![t] = what]
              /\ what = "startup" => pc[t] = "ready"
              /\ what = "not_sent" => pc[t] = "check" \/ exchange[request[t]].error = "broken"
<1>1. failure \in BOOLEAN /\ clientClosed \in BOOLEAN
  BY DEF IInv, TypeOK
<1> USE DEF CloseThen, locks
<1>2. CASE StartupFails(t)
  BY <1>1, <1>2 DEF StartupFails
<1>3. CASE RefuseBroken(t)
  BY <1>1, <1>3 DEF RefuseBroken, flags
<1>4. CASE AnswerRefused(t)
  BY <1>1, <1>4 DEF AnswerRefused
<1>5. CASE WaitTimeout(t)
  BY <1>1, <1>5 DEF WaitTimeout
<1>6. CASE ClientClose(t)
  BY <1>1, <1>6 DEF ClientClose
<1>7. CASE Interrupt(t) /\ ~ closed
  BY <1>1, <1>7 DEF Interrupt
<1> QED
  BY <1>2, <1>3, <1>4, <1>5, <1>6, <1>7 DEF Turns

(***************************************************************************)
(* The invariant, part by part                                             *)
(***************************************************************************)

\* The session's records.
LEMMA SettleRecord ==
  ASSUME NEW x \in Exchange, NEW e \in {"broken", "failed"}
  PROVE  LET y == [x EXCEPT !.error = e, !.done = TRUE]
         IN  y \in Exchange /\ y.done = TRUE /\ y.error = e /\ y.response = x.response
<1>1. [x EXCEPT !.error = e, !.done = TRUE] \in Exchange
  BY Zenon DEF Exchange
<1> QED
  BY <1>1 DEF Exchange

LEMMA AnswerRecord ==
  ASSUME NEW x \in Exchange, NEW r \in Requests \cup {Hello, NoId}
  PROVE  LET y == [x EXCEPT !.response = r, !.done = TRUE]
         IN  y \in Exchange /\ y.done = TRUE /\ y.error = x.error /\ y.response = r
<1>1. [x EXCEPT !.response = r, !.done = TRUE] \in Exchange
  BY Zenon DEF Exchange
<1> QED
  BY <1>1 DEF Exchange

\* A caller moves on and stays inside, or outside, the locked part of close().
LEMMA StepType ==
  ASSUME IInv, NEW t \in Threads, NEW step \in Steps, pc' = [pc EXCEPT ![t] = step],
         cleanup' = cleanup, step \in Closing <=> pc[t] \in Closing
  PROVE  pc' \in [Threads -> Steps] /\ \A u \in Threads : pc'[u] \in Closing <=> cleanup' = u
<1>1. pc \in [Threads -> Steps] /\ \A u \in Threads : pc[u] \in Closing <=> cleanup = u
  BY DEF IInv, TypeOK, Steps, Closing
<1> QED
  BY <1>1

\* The exchange that the IO thread settles.
LEMMA IoTaskType ==
  ASSUME IInv, ioPc \in {"check", "write", "read"}
  PROVE  ioTask \in Requests \cup {Hello} /\ exchange \in [Requests \cup {Hello} -> Exchange]
BY DEF IInv, TypeOK, IoInv, Exchange

LEMMA IoFailsSettles ==
  ASSUME IInv, ioPc \in {"check", "write", "read"},
         NEW error \in {"broken", "failed"}, IoFails(error)
  PROVE  /\ exchange' \in [Requests \cup {Hello} -> Exchange]
         /\ \A i \in Requests \cup {Hello} : i # ioTask => exchange'[i] = exchange[i]
         /\ exchange'[ioTask].done /\ exchange'[ioTask].error = error
         /\ exchange'[ioTask].response = exchange[ioTask].response
<1> DEFINE y == [exchange[ioTask] EXCEPT !.error = error, !.done = TRUE]
<1>1. ioTask \in Requests \cup {Hello} /\ exchange \in [Requests \cup {Hello} -> Exchange]
  BY IoTaskType
<1>2. exchange' = [exchange EXCEPT ![ioTask] = y]
  BY <1>1 DEF IoFails
<1>3. /\ y \in Exchange /\ y.done = TRUE /\ y.error = error
      /\ y.response = exchange[ioTask].response
  <2>1. exchange[ioTask] \in Exchange
    BY <1>1
  <2> QED
    BY <2>1, SettleRecord, Zenon
<1> HIDE DEF y
<1> QED
  BY <1>1, <1>2, <1>3

LEMMA IoReadSettles ==
  ASSUME IInv, IoRead
  PROVE  /\ exchange' \in [Requests \cup {Hello} -> Exchange]
         /\ \A i \in Requests \cup {Hello} : i # ioTask => exchange'[i] = exchange[i]
         /\ exchange'[ioTask].done /\ exchange'[ioTask].error = exchange[ioTask].error
         /\ exchange'[ioTask].response = Head(stdout)
<1> DEFINE y == [exchange[ioTask] EXCEPT !.response = Head(stdout), !.done = TRUE]
<1>1. ioTask \in Requests \cup {Hello} /\ exchange \in [Requests \cup {Hello} -> Exchange]
  BY IoTaskType DEF IoRead
<1>2. Head(stdout) \in Requests \cup {Hello, NoId}
  BY ElemsTail DEF IInv, WorkerInv, IoRead
<1>3. exchange' = [exchange EXCEPT ![ioTask] = y]
  BY <1>1 DEF IoRead
<1>4. /\ y \in Exchange /\ y.done = TRUE /\ y.error = exchange[ioTask].error
      /\ y.response = Head(stdout)
  BY <1>1, <1>2, AnswerRecord
<1> HIDE DEF y
<1> QED
  BY <1>1, <1>3, <1>4

\* Draining the queue answers the exchange that was in it.
LEMMA DrainSettles ==
  ASSUME IInv, NEW t, CloseDrain(t)
  PROVE  /\ exchange' \in [Requests \cup {Hello} -> Exchange]
         /\ \A i \in Requests \cup {Hello} :
              \/ tasks # <<i>> /\ exchange'[i] = exchange[i]
              \/ /\ tasks = <<i>> /\ exchange'[i].done /\ exchange'[i].error = "broken"
                 /\ exchange'[i].response = exchange[i].response
<1>1. exchange \in [Requests \cup {Hello} -> Exchange]
  BY DEF IInv, TypeOK, Exchange
<1>2. \A i : tasks # <<>> /\ Head(tasks) = i <=> tasks = <<i>>
  BY DEF IInv, QueueInv
<1> DEFINE y(i) == [exchange[i] EXCEPT !.error = "broken", !.done = TRUE]
<1>3. exchange' = [i \in Requests \cup {Hello} |-> IF tasks = <<i>> THEN y(i) ELSE exchange[i]]
  BY <1>1, <1>2 DEF CloseDrain
<1>4. \A i \in Requests \cup {Hello} :
        y(i) \in Exchange /\ y(i).done /\ y(i).error = "broken" /\ y(i).response = exchange[i].response
  BY <1>1, SettleRecord
<1> HIDE DEF y
<1> QED
  BY <1>1, <1>3, <1>4

LEMMA TypeMoves ==
  ASSUME IInv, NEW t \in Threads, Moves(t)
  PROVE  TypeOK'
<1> USE DEF flags, locks, io, process, pipes, history, callers
<1>0. /\ pc \in [Threads -> Steps] /\ (\A u \in Threads : pc[u] \in Closing <=> cleanup = u)
      /\ exchange \in [Requests \cup {Hello} -> Exchange]
  BY DEF IInv, TypeOK, Steps, Closing, Exchange
<1>1. CASE Ready(t)
  <2>1. pc' \in [Threads -> Steps] /\ \A u \in Threads : pc'[u] \in Closing <=> cleanup' = u
    BY <1>1, StepType DEF Ready, Goto, Steps, Closing
  <2> QED
    BY <1>1, <2>1 DEF IInv, TypeOK, Steps, Closing, Ready, Goto
<1>2. CASE Call(t)
  <2>1. pc' \in [Threads -> Steps] /\ \A u \in Threads : pc'[u] \in Closing <=> cleanup' = u
    BY <1>2, StepType DEF Call, Steps, Closing
  <2>2. calls' \in 0..MaxCalls
    BY <1>2, SessionAssumption DEF Call, IInv, TypeOK
  <2> QED
    BY <1>2, <2>1, <2>2 DEF IInv, TypeOK, Steps, Closing, Call
<1>3. CASE AcquireSerial(t)
  <2>1. pc' \in [Threads -> Steps] /\ \A u \in Threads : pc'[u] \in Closing <=> cleanup' = u
    BY <1>3, StepType DEF AcquireSerial, Goto, Steps, Closing
  <2> QED
    BY <1>3, <2>1 DEF IInv, TypeOK, Steps, Closing, AcquireSerial, Goto
<1>4. CASE TakeNumber(t)
  <2>1. t \in Starting /\ IsFiniteSet(Starting) /\ sequence + Cardinality(Starting) <= calls
    BY <1>4 DEF Starting, TakeNumber, IInv, CountInv
  <2>2. Cardinality(Starting) \in Nat /\ Cardinality(Starting) # 0
    BY <2>1, FS_CardinalityType, FS_EmptySet
  <2>3. sequence + 1 \in Requests /\ sequence' = sequence + 1 /\ sequence' \in 0..MaxCalls
    BY <1>4, <2>1, <2>2, SessionAssumption DEF TakeNumber, NextId, IInv, TypeOK, Requests
  <2>4. pc' \in [Threads -> Steps] /\ \A u \in Threads : pc'[u] \in Closing <=> cleanup' = u
    BY <1>4, StepType DEF TakeNumber, Steps, Closing
  <2>5. request' \in [Threads -> Requests \cup {NoId}]
    BY <1>4, <2>3 DEF IInv, TypeOK, TakeNumber, NextId
  <2> QED
    BY <1>4, <2>3, <2>4, <2>5 DEF IInv, TypeOK, Steps, Closing, TakeNumber
<1>5. CASE Enqueue(t)
  <2>1. pc' \in [Threads -> Steps] /\ \A u \in Threads : pc'[u] \in Closing <=> cleanup' = u
    BY <1>5, StepType DEF Enqueue, Goto, Steps, Closing
  <2>2. request[t] \in Requests
    BY <1>5 DEF IInv, TypeOK, SlotInv, Enqueue
  <2>3. tasks' \in Seq(Requests \cup {Quit})
    BY <1>5, <2>2, ElemsAppend DEF IInv, TypeOK, Enqueue
  <2> QED
    BY <1>5, <2>1, <2>3 DEF IInv, TypeOK, Steps, Closing, Enqueue, Goto
<1>6. CASE CloseBegin(t)
  <2>1. pc' \in [Threads -> Steps] /\ \A u \in Threads : pc'[u] \in Closing <=> cleanup' = u
    BY <1>0, <1>6, SessionAssumption DEF CloseBegin, Goto, Steps, Closing
  <2> QED
    BY <1>6, <2>1 DEF IInv, TypeOK, Steps, Closing, CloseBegin, Goto
<1>7. CASE CloseStop(t)
  <2>1. pc' \in [Threads -> Steps] /\ \A u \in Threads : pc'[u] \in Closing <=> cleanup' = u
    BY <1>7, StepType DEF CloseStop, Goto, Steps, Closing
  <2> QED
    BY <1>7, <2>1 DEF IInv, TypeOK, Steps, Closing, CloseStop, Goto
<1>8. CASE CloseKill(t)
  <2>1. pc' \in [Threads -> Steps] /\ \A u \in Threads : pc'[u] \in Closing <=> cleanup' = u
    BY <1>8, StepType DEF CloseKill, Goto, Steps, Closing
  <2> QED
    BY <1>8, <2>1 DEF IInv, TypeOK, Steps, Closing, CloseKill, Goto
<1>9. CASE CloseDrain(t)
  <2>1. pc' \in [Threads -> Steps] /\ \A u \in Threads : pc'[u] \in Closing <=> cleanup' = u
    BY <1>9, StepType DEF CloseDrain, Goto, Steps, Closing
  <2>2. exchange' \in [Requests \cup {Hello} -> Exchange]
    BY <1>9, DrainSettles
  <2>3. tasks' \in Seq(Requests \cup {Quit})
    <3>1. <<>> \in Seq(Requests \cup {Quit})
      OBVIOUS
    <3> QED
      BY <1>9, <3>1 DEF CloseDrain
  <2> QED
    BY <1>9, <2>1, <2>2, <2>3 DEF IInv, TypeOK, Steps, Closing, CloseDrain, Goto, Exchange
<1>10. CASE CloseQuit(t)
  <2>1. pc' \in [Threads -> Steps] /\ \A u \in Threads : pc'[u] \in Closing <=> cleanup' = u
    BY <1>10, StepType DEF CloseQuit, Goto, Steps, Closing
  <2>2. tasks' \in Seq(Requests \cup {Quit})
    <3>1. <<Quit>> \in Seq(Requests \cup {Quit}) /\ tasks \in Seq(Requests \cup {Quit})
      BY DEF IInv, TypeOK
    <3> QED
      BY <1>10, <3>1 DEF CloseQuit
  <2> QED
    BY <1>10, <2>1, <2>2 DEF IInv, TypeOK, Steps, Closing, CloseQuit, Goto
<1> QED
  BY <1>1, <1>2, <1>3, <1>4, <1>5, <1>6, <1>7, <1>8, <1>9, <1>10 DEF Moves

LEMMA TypeCaller ==
  ASSUME IInv, NEW t \in Threads, Caller(t)
  PROVE  TypeOK'
<1> USE DEF flags, locks, io, process, pipes, history
<1>0. pc \in [Threads -> Steps] /\ \A u \in Threads : pc[u] \in Closing <=> cleanup = u
  BY DEF IInv, TypeOK, Steps, Closing
<1>1. CASE Leaves(t)
  <2>1. PICK what \in {"none", "startup", "ok", "not_sent", "timeout", "protocol", "interrupted"} :
          /\ outcome' = [i \in Requests |-> IF i = request[t] THEN what ELSE outcome[i]]
          /\ what = "startup" => raise[t] = "startup"
    BY <1>1, LeavesShape
  <2>2. what = "startup" => request[t] \notin Requests
    BY <2>1 DEF IInv, SlotInv, NoId, Requests
  <2>3. outcome' \in [Requests -> {"none", "ok", "not_sent", "timeout", "protocol", "interrupted"}]
    BY <2>1, <2>2 DEF IInv, TypeOK
  <2>4. /\ UNCHANGED <<flags, tasks, sequence, exchange, io, calls, process, pipes, history>>
        /\ pc' = [pc EXCEPT ![t] = "idle"] /\ request' = [request EXCEPT ![t] = NoId]
        /\ raise' = [raise EXCEPT ![t] = "none"]
        /\ serial' = IF serial = t THEN NoThread ELSE serial
        /\ \/ cleanup' = cleanup /\ pc[t] \notin Closing
           \/ cleanup' = NoThread /\ pc[t] = "join"
    BY <1>1, LeavesShape
  <2>5. pc' \in [Threads -> Steps] /\ \A u \in Threads : pc'[u] \in Closing <=> cleanup' = u
    BY <1>0, <2>4, SessionAssumption DEF Steps, Closing
  <2>6. /\ request' \in [Threads -> Requests \cup {NoId}]
        /\ raise' \in [Threads -> {"none", "startup", "not_sent", "timeout",
                                   "protocol", "interrupted"}]
        /\ {serial', cleanup'} \subseteq Threads \cup {NoThread}
    BY <2>4 DEF IInv, TypeOK
  <2> QED
    BY <2>3, <2>4, <2>5, <2>6 DEF IInv, TypeOK, Steps, Closing
<1>2. CASE Turns(t)
  <2>1. /\ UNCHANGED <<locks, closed, stop, opened, tasks, sequence, exchange, io, process,
                       pipes, history, request, calls, outcome>>
        /\ failure' \in BOOLEAN /\ clientClosed' \in BOOLEAN
        /\ pc' = [pc EXCEPT ![t] = "close"] /\ pc[t] \notin Closing
    BY <1>2, TurnsShape DEF Closing
  <2>2. raise' \in [Threads -> {"none", "startup", "not_sent", "timeout",
                                "protocol", "interrupted"}]
    BY <1>2, TurnsShape DEF IInv, TypeOK
  <2>3. pc' \in [Threads -> Steps] /\ \A u \in Threads : pc'[u] \in Closing <=> cleanup' = u
    BY <1>0, <2>1 DEF Steps, Closing
  <2> QED
    BY <2>1, <2>2, <2>3 DEF IInv, TypeOK, Steps, Closing
<1> QED
  BY <1>1, <1>2, CallerKinds, TypeMoves

LEMMA TypeOthers ==
  ASSUME IInv, IoStep \/ Worker
  PROVE  TypeOK'
<1> USE DEF flags, locks, io, process, pipes, history, callers
<1>1. CASE IoLoop
  BY <1>1 DEF IInv, TypeOK, IoLoop, IoUnchanged
<1>2. CASE IoTake
  <2>1. Head(tasks) \in Requests \cup {Quit} /\ tasks' \in Seq(Requests \cup {Quit})
    BY <1>2, ElemsTail DEF IInv, TypeOK, IoTake
  <2> QED
    BY <1>2, <2>1 DEF IInv, TypeOK, IoTake, IoUnchanged
<1>3. ASSUME NEW error \in {"broken", "failed"}, IoFails(error), IoUnchanged,
             ioPc \in {"check", "write", "read"}
      PROVE  TypeOK'
  <2>1. exchange' \in [Requests \cup {Hello} -> Exchange]
    BY <1>3, IoFailsSettles
  <2> QED
    BY <1>3, <2>1 DEF IInv, TypeOK, IoFails, IoUnchanged, Exchange
<1>4. CASE IoCheck
  BY <1>3, <1>4 DEF IInv, TypeOK, IoCheck, IoUnchanged
<1>5. CASE IoWrite
  <2>1. written \cup {ioTask} \subseteq Requests
    BY <1>5 DEF IInv, TypeOK, IoInv, IoWrite
  <2> QED
    BY <1>3, <1>5, <2>1 DEF IInv, TypeOK, IoWrite, IoUnchanged
<1>6. CASE IoRead
  <2>2. exchange' \in [Requests \cup {Hello} -> Exchange]
    BY <1>6, IoReadSettles
  <2> QED
    BY <1>6, <2>2 DEF IInv, TypeOK, IoRead, IoUnchanged, Exchange
<1>7. CASE IoEof
  BY <1>3, <1>7 DEF IoEof
<1>8. CASE WorkerTake
  <2>0. Head(stdin) \in Requests
    BY <1>8, ElemsTail DEF IInv, WorkerInv, WorkerTake
  <2>1. Head(stdin) \in Requests /\ Head(stdin) \in 0..MaxCalls
    BY <2>0, SessionAssumption DEF Requests
  <2>2. Append(served, Head(stdin)) \in Seq(Requests)
    BY <2>1, ElemsAppend DEF IInv, TypeOK
  <2> QED
    BY <1>8, <2>1, <2>2 DEF IInv, TypeOK, WorkerTake, WorkerUnchanged
<1>9. CASE WorkerHello \/ WorkerAnswer \/ WorkerDies
  BY <1>9 DEF IInv, TypeOK, WorkerHello, WorkerAnswer, WorkerDies, WorkerUnchanged
<1> QED
  BY <1>1, <1>2, <1>4, <1>5, <1>6, <1>7, <1>8, <1>9 DEF IoStep, Worker

\* Every caller that takes a number was counted when it called.
LEMMA CountCaller ==
  ASSUME IInv, NEW t \in Threads, Caller(t)
  PROVE  CountInv'
<1>1. /\ IsFiniteSet(Starting) /\ sequence + Cardinality(Starting) <= calls
      /\ sequence \in Nat /\ calls \in Nat /\ Cardinality(Starting) \in Nat
  BY SessionAssumption, FS_CardinalityType DEF IInv, CountInv, TypeOK
<1>2. pc \in [Threads -> Steps]
  BY DEF IInv, TypeOK, Steps, Closing
<1>3. /\ IsFiniteSet(Starting \ {t})
      /\ Cardinality(Starting \ {t}) = IF t \in Starting THEN Cardinality(Starting) - 1
                                                         ELSE Cardinality(Starting)
      /\ IsFiniteSet(Starting \cup {t})
      /\ Cardinality(Starting \cup {t}) = IF t \in Starting THEN Cardinality(Starting)
                                                            ELSE Cardinality(Starting) + 1
  BY <1>1, FS_RemoveElement, FS_AddElement
<1>4. CASE Leaves(t) \/ Turns(t)
  <2>1. /\ UNCHANGED <<sequence, calls>>
        /\ pc' = [pc EXCEPT ![t] = "idle"] \/ pc' = [pc EXCEPT ![t] = "close"]
    BY <1>4, LeavesShape, TurnsShape
  <2>2. Starting' = Starting \ {t}
    BY <1>2, <2>1 DEF Starting
  <2> QED
    BY <1>1, <1>3, <2>1, <2>2 DEF CountInv
<1>5. CASE Call(t)
  <2>1. sequence' = sequence /\ calls' = calls + 1 /\ t \notin Starting
    BY <1>5 DEF Call, Starting
  <2>2. Starting' = Starting \cup {t}
    BY <1>2, <1>5 DEF Starting, Call
  <2> QED
    BY <1>1, <1>3, <2>1, <2>2 DEF CountInv
<1>6. CASE TakeNumber(t)
  <2>1. sequence' = sequence + 1 /\ calls' = calls /\ t \in Starting
    BY <1>6 DEF TakeNumber, NextId, Starting
  <2>2. Starting' = Starting \ {t}
    BY <1>2, <1>6 DEF Starting, TakeNumber
  <2> QED
    BY <1>1, <1>3, <2>1, <2>2 DEF CountInv
<1>7. CASE Moves(t) /\ ~ Call(t) /\ ~ TakeNumber(t)
  <2>1. UNCHANGED <<sequence, calls>>
    BY <1>7 DEF Moves, Ready, AcquireSerial, Enqueue, CloseBegin, CloseStop, CloseKill, CloseDrain,
       CloseQuit, Goto
  <2>2. \E step \in Steps : /\ pc' = [pc EXCEPT ![t] = step]
                            /\ step \in {"serial", "check"} <=> pc[t] \in {"serial", "check"}
    BY <1>7 DEF Moves, Ready, AcquireSerial, Enqueue, CloseBegin, CloseStop, CloseKill, CloseDrain,
       CloseQuit, Goto, Steps, Closing
  <2>3. Starting' = Starting
    BY <1>2, <2>2 DEF Starting
  <2> QED
    BY <1>1, <2>1, <2>3 DEF CountInv
<1> QED
  BY <1>4, <1>5, <1>6, <1>7, CallerKinds

\* The slot is held from the check to the return, also while close() runs.
LEMMA SlotCaller ==
  ASSUME IInv, NEW t \in Threads, Caller(t)
  PROVE  SlotInv'
<1>1. /\ pc \in [Threads -> Steps] /\ request \in [Threads -> Requests \cup {NoId}]
      /\ DOMAIN raise = Threads /\ sequence \in Nat
  BY SessionAssumption DEF IInv, TypeOK, Steps, Closing
<1>2. SlotInv /\ NoThread \notin Threads
  BY SessionAssumption DEF IInv
<1>3. CASE Leaves(t)
  <2>1. /\ UNCHANGED sequence
        /\ pc' = [pc EXCEPT ![t] = "idle"] /\ request' = [request EXCEPT ![t] = NoId]
        /\ raise' = [raise EXCEPT ![t] = "none"]
        /\ serial' = IF serial = t THEN NoThread ELSE serial
    BY <1>3, LeavesShape
  <2> QED
    BY <1>1, <1>2, <2>1 DEF SlotInv, Closing
<1>4. CASE Turns(t)
  <2>1. /\ UNCHANGED <<serial, sequence, request>>
        /\ pc' = [pc EXCEPT ![t] = "close"] /\ pc[t] \in {"ready", "check", "wait", "idle"}
    BY <1>4, TurnsShape DEF locks
  <2>2. PICK what \in {"none", "startup", "not_sent", "timeout", "protocol", "interrupted"} :
          raise' = [raise EXCEPT ![t] = what] /\ (what = "startup" => pc[t] = "ready")
    BY <1>4, TurnsShape
  <2> QED
    BY <1>1, <1>2, <2>1, <2>2 DEF SlotInv, Closing
<1>5. CASE Moves(t)
  <2> USE DEF SlotInv, Closing, Goto
  <2>1. CASE Ready(t) \/ Call(t)
    BY <1>1, <1>2, <2>1 DEF Ready, Call, locks
  <2>2. CASE AcquireSerial(t)
    BY <1>1, <1>2, <2>2 DEF AcquireSerial
  <2>3. CASE TakeNumber(t)
    <3>1. serial = t /\ request[t] = NoId /\ \A u \in Threads \ {t} : request[u] = NoId
      BY <1>1, <1>2, <2>3 DEF TakeNumber
    <3> QED
      BY <1>1, <1>2, <2>3, <3>1 DEF TakeNumber, NextId, NoId, locks
  <2>4. CASE Enqueue(t)
    BY <1>1, <1>2, <2>4 DEF Enqueue, locks
  <2>5. CASE CloseBegin(t) \/ CloseStop(t) \/ CloseKill(t) \/ CloseDrain(t) \/ CloseQuit(t)
    <3>1. /\ UNCHANGED <<serial, sequence, request, raise>>
          /\ pc[t] \in Closing \cup {"close"}
          /\ \E step \in Closing : pc' = [pc EXCEPT ![t] = step]
      BY <2>5 DEF CloseBegin, CloseStop, CloseKill, CloseDrain, CloseQuit, locks
    <3> QED
      BY <1>1, <1>2, <3>1
  <2> QED
    BY <1>5, <2>1, <2>2, <2>3, <2>4, <2>5 DEF Moves
<1> QED
  BY <1>3, <1>4, <1>5, CallerKinds

\* close() kills the worker before it releases the lock.
LEMMA KillCaller ==
  ASSUME IInv, NEW t \in Threads, Caller(t)
  PROVE  KillInv'
<1>1. /\ pc \in [Threads -> Steps] /\ (\A u \in Threads : pc[u] \in Closing <=> cleanup = u)
      /\ cleanup \in Threads \cup {NoThread} /\ NoThread \notin Threads
      /\ KillInv /\ closed \in BOOLEAN
  BY SessionAssumption DEF IInv, TypeOK, Steps, Closing
<1>2. CASE Leaves(t)
  <2>1. /\ UNCHANGED <<closed, worker>> /\ pc' = [pc EXCEPT ![t] = "idle"]
        /\ \/ cleanup' = cleanup /\ pc[t] \notin Closing
           \/ cleanup' = NoThread /\ pc[t] = "join"
    BY <1>2, LeavesShape DEF flags, process
  <2>2. PICK what \in {"none", "startup", "ok", "not_sent", "timeout", "protocol", "interrupted"} :
          /\ outcome' = [i \in Requests |-> IF i = request[t] THEN what ELSE outcome[i]]
          /\ what \in {"timeout", "protocol"} => closed /\ cleanup' = NoThread
    BY <1>2, LeavesShape
  <2>3. /\ closed' /\ cleanup' = NoThread => worker' = "dead"
        /\ \A u \in Threads : pc'[u] \in {"drain", "quit", "join"} => worker' = "dead"
        /\ cleanup' # NoThread => closed'
    BY <1>1, <2>1 DEF KillInv, Closing
  <2>4. Ended' => worker' = "dead"
    <3>1. CASE what \in {"timeout", "protocol"}
      BY <2>1, <2>2, <2>3, <3>1
    <3>2. CASE what \notin {"timeout", "protocol"}
      BY <1>1, <2>1, <2>2, <3>2 DEF Ended, KillInv
    <3> QED
      BY <3>1, <3>2
  <2> QED
    BY <2>3, <2>4 DEF KillInv
<1>3. CASE Turns(t)
  <2>1. UNCHANGED <<cleanup, closed, worker, outcome>> /\ pc' = [pc EXCEPT ![t] = "close"]
    BY <1>3, TurnsShape DEF locks, process
  <2> QED
    BY <1>1, <2>1 DEF KillInv, Ended
<1>4. CASE Moves(t)
  <2> USE DEF KillInv, Ended, Closing, Goto, flags, locks, process
  <2>1. CASE Ready(t) \/ Call(t) \/ AcquireSerial(t) \/ TakeNumber(t) \/ Enqueue(t)
    BY <1>1, <2>1 DEF Ready, Call, AcquireSerial, TakeNumber, Enqueue
  <2>2. CASE CloseBegin(t)
    BY <1>1, <2>2 DEF CloseBegin
  <2>3. CASE CloseStop(t) \/ CloseKill(t)
    BY <1>1, <2>3 DEF CloseStop, CloseKill
  <2>4. CASE CloseDrain(t) \/ CloseQuit(t)
    BY <1>1, <2>4 DEF CloseDrain, CloseQuit
  <2> QED
    BY <1>4, <2>1, <2>2, <2>3, <2>4 DEF Moves
<1> QED
  BY <1>2, <1>3, <1>4, CallerKinds

\* The parts that only callers can disturb.
LEMMA OthersFrame ==
  ASSUME IInv, IoStep \/ Worker
  PROVE  /\ UNCHANGED <<locks, closed, sequence, callers>>
         /\ worker = "dead" => worker' = "dead"
         /\ CountInv' /\ SlotInv' /\ KillInv'
<1>1. /\ UNCHANGED <<locks, closed, sequence, callers>>
      /\ worker = "dead" => worker' = "dead"
  <2>1. CASE IoStep
    BY <2>1 DEF IoStep, IoLoop, IoTake, IoCheck, IoWrite, IoRead, IoEof, IoUnchanged, process
  <2>2. CASE Worker
    BY <2>2 DEF Worker, WorkerHello, WorkerTake, WorkerAnswer, WorkerDies, WorkerUnchanged, flags
  <2> QED
    BY <2>1, <2>2
<1>2. CountInv'
  BY <1>1 DEF IInv, CountInv, Starting, callers
<1>3. SlotInv'
  BY <1>1 DEF IInv, SlotInv, callers, locks
<1>4. KillInv'
  BY <1>1 DEF IInv, KillInv, Ended, callers, locks
<1> QED
  BY <1>1, <1>2, <1>3, <1>4

(***************************************************************************)
(* The way of a request: private, queued, taken, written or given up       *)
(***************************************************************************)
\* put_nowait finds the queue empty.
LEMMA QueueFree ==
  ASSUME IInv, NEW t \in Threads, pc[t] = "enqueue", ~ closed
  PROVE  tasks = <<>>
<1>1. \A u \in Threads : request[u] # NoId => u = t
  BY DEF IInv, SlotInv
<1>2. ASSUME NEW i \in Requests, tasks = <<i>>
      PROVE  FALSE
  <2>1. PICK u \in Threads : request[u] = i /\ pc[u] \in {"wait", "close"}
    BY <1>2 DEF IInv, QueueInv
  <2>2. i # NoId
    BY DEF Requests, NoId
  <2> QED
    BY <1>1, <2>1, <2>2
<1> QED
  BY <1>2 DEF IInv, QueueInv

LEMMA EnqueueOne ==
  ASSUME IInv, NEW t \in Threads, Enqueue(t)
  PROVE  tasks' = <<request[t]>> /\ pc[t] = "enqueue"
<1>1. tasks = <<>> /\ tasks' = Append(tasks, request[t]) /\ pc[t] = "enqueue"
  BY QueueFree DEF Enqueue
<1>2. \A x : Append(<<>>, x) = <<x>>
  OBVIOUS
<1> QED
  BY <1>1, <1>2

\* Only the newest number can be with a caller.
LEMMA NewestNumber ==
  ASSUME IInv, NEW t \in Threads, request[t] # NoId
  PROVE  /\ request[t] \in Requests /\ request[t] = sequence
         /\ \A u \in Threads : request[u] = request[t] => u = t
         /\ Private(request[t]) => pc[t] = "enqueue"
<1>1. /\ request[t] \in Requests /\ request[t] = sequence /\ serial = t /\ sequence \in Nat
      /\ \A u \in Threads : request[u] # NoId => serial = u
  BY DEF IInv, TypeOK, SlotInv
<1> QED
  BY <1>1 DEF Private

\* No step makes a number private again.
LEMMA PrivateShrinks ==
  ASSUME IInv, (\E t \in Threads : Caller(t)) \/ IoStep \/ Worker
  PROVE  \A i \in Requests : Private(i)' => Private(i)
<1>1. CASE IoStep \/ Worker
  BY <1>1, OthersFrame DEF Private, callers
<1>2. ASSUME NEW t \in Threads, Caller(t)
      PROVE  \A i \in Requests : Private(i)' => Private(i)
  <2>1. /\ pc \in [Threads -> Steps] /\ request \in [Threads -> Requests \cup {NoId}]
        /\ sequence \in Nat /\ \A i \in Requests : i \in Int /\ i # NoId
    BY DEF IInv, TypeOK, Steps, Closing, Requests, NoId
  <2>2. CASE Leaves(t)
    BY <2>1, <2>2, LeavesShape DEF Private
  <2>3. CASE Turns(t)
    BY <2>1, <2>3, TurnsShape DEF Private
  <2>4. CASE TakeNumber(t)
    BY <2>1, <2>4 DEF Private, TakeNumber, NextId
  <2>5. CASE Moves(t) /\ ~ TakeNumber(t)
    <3>1. UNCHANGED <<sequence, request>> /\ \E step \in Steps \ {"enqueue"} : pc' = [pc EXCEPT ![t] = step]
      BY <2>5 DEF Moves, Ready, Call, AcquireSerial, Enqueue, CloseBegin, CloseStop, CloseKill,
         CloseDrain, CloseQuit, Goto, Steps, Closing
    <3> QED
      BY <2>1, <3>1 DEF Private
  <2> QED
    BY <1>2, <2>2, <2>3, <2>4, <2>5, CallerKinds
<1> QED
  BY <1>1, <1>2

\* What a caller leaves to the IO thread and the worker.
LEMMA CallerFrame ==
  ASSUME IInv, NEW t \in Threads, Caller(t)
  PROVE  /\ UNCHANGED <<io, lastId, running, pipes, history>>
         /\ worker' \in {worker, "dead"}
         /\ exchange' = exchange \/ CloseDrain(t)
         /\ tasks' = tasks \/ Enqueue(t) \/ CloseDrain(t) \/ CloseQuit(t)
<1>1. CASE Leaves(t)
  BY <1>1, LeavesShape DEF process
<1>2. CASE Turns(t)
  BY <1>2, TurnsShape DEF process
<1>3. CASE Moves(t)
  BY <1>3 DEF Moves, Ready, Call, AcquireSerial, TakeNumber, Enqueue, CloseBegin, CloseStop,
     CloseKill, CloseDrain, CloseQuit, process
<1> QED
  BY <1>1, <1>2, <1>3, CallerKinds

LEMMA PrivateCaller ==
  ASSUME IInv, NEW t \in Threads, Caller(t)
  PROVE  PrivateInv'
<1> SUFFICES ASSUME NEW i \in Requests, Private(i)'
             PROVE  (/\ i \notin written /\ exchange[i] = Fresh /\ outcome[i] = "none"
                     /\ ioTask # i /\ tasks # <<i>>)'
  BY DEF PrivateInv
<1>1. Private(i)
  BY PrivateShrinks
<1>2. /\ i \notin written /\ exchange[i] = Fresh /\ outcome[i] = "none"
      /\ ioTask # i /\ tasks # <<i>>
  BY <1>1 DEF IInv, PrivateInv
<1>3. i \notin written' /\ ioTask' # i
  BY <1>2, CallerFrame DEF io, history
<1>4. exchange'[i] = Fresh
  BY <1>2, CallerFrame, DrainSettles
<1>5. outcome'[i] = "none"
  <2>1. CASE Leaves(t)
    <3>1. request[t] # i
      <4>1. SUFFICES ASSUME request[t] = i
                     PROVE  FALSE
        OBVIOUS
      <4>2. i # NoId
        BY DEF Requests, NoId
      <4>3. i = sequence /\ sequence \in Nat /\ \A u \in Threads \ {t} : request[u] # i
        BY <4>1, <4>2, NewestNumber DEF IInv, TypeOK
      <4>4. request' = [request EXCEPT ![t] = NoId] /\ sequence' = sequence
        BY <2>1, LeavesShape
      <4>5. \A u \in Threads : request'[u] # i
        BY <4>2, <4>3, <4>4 DEF IInv, TypeOK
      <4> QED
        BY <4>3, <4>4, <4>5 DEF Private
    <3> QED
      BY <1>2, <2>1, <3>1, LeavesShape
  <2>2. CASE Turns(t) \/ Moves(t)
    <3>1. outcome' = outcome
      BY <2>2, TurnsShape DEF Moves, Ready, Call, AcquireSerial, TakeNumber, Enqueue, CloseBegin,
         CloseStop, CloseKill, CloseDrain, CloseQuit, Goto
    <3> QED
      BY <1>2, <3>1
  <2> QED
    BY <2>1, <2>2, CallerKinds
<1>6. tasks' # <<i>>
  <2>1. CASE Enqueue(t)
    <3>1. tasks' = <<request[t]>> /\ pc[t] = "enqueue"
      BY <2>1, EnqueueOne
    <3>2. request[t] # i
      <4>1. SUFFICES ASSUME request[t] = i
                     PROVE  FALSE
        OBVIOUS
      <4>2. i = sequence /\ sequence \in Nat /\ \A u \in Threads \ {t} : request[u] # i
        BY <4>1, NewestNumber DEF IInv, TypeOK, Requests, NoId
      <4>3. UNCHANGED <<request, sequence>> /\ pc' = [pc EXCEPT ![t] = "wait"]
        BY <2>1 DEF Enqueue, Goto
      <4> QED
        BY <4>2, <4>3 DEF Private, IInv, TypeOK
    <3> QED
      BY <3>1, <3>2
  <2>2. CASE CloseDrain(t) \/ CloseQuit(t)
    <3>1. tasks' \in {tasks, <<>>, <<Quit>>}
      BY <2>2 DEF CloseDrain, CloseQuit
    <3>2. i # Quit
      BY DEF Requests, Quit
    <3> QED
      BY <1>2, <3>1, <3>2
  <2> QED
    BY <1>2, <2>1, <2>2, CallerFrame
<1> QED
  BY <1>3, <1>4, <1>5, <1>6

LEMMA QueueCaller ==
  ASSUME IInv, NEW t \in Threads, Caller(t)
  PROVE  QueueInv'
<1>1. pc \in [Threads -> Steps] /\ request \in [Threads -> Requests \cup {NoId}]
  BY DEF IInv, TypeOK, Steps, Closing
<1>2. CASE Enqueue(t)
  <2>1. /\ tasks' = <<request[t]>> /\ UNCHANGED <<written, exchange, ioTask, request>>
        /\ pc[t] = "enqueue" /\ pc' = [pc EXCEPT ![t] = "wait"]
    BY <1>2, EnqueueOne DEF Enqueue, Goto, io, history
  <2>2. request[t] \in Requests /\ Private(request[t]) /\ request[t] # Quit
    BY <1>1, <2>1 DEF IInv, SlotInv, Private, Requests, Quit
  <2>3. /\ request[t] \notin written /\ exchange[request[t]] = Fresh /\ ioTask # request[t]
    BY <2>2 DEF IInv, PrivateInv
  <2>4. ~ Fresh.done
    BY DEF Fresh
  <2> QED
    BY <1>1, <2>1, <2>2, <2>3, <2>4 DEF QueueInv
<1>3. CASE CloseDrain(t)
  BY <1>3 DEF QueueInv, CloseDrain
<1>4. CASE CloseQuit(t)
  <2>1. closed /\ UNCHANGED <<closed, written, exchange, io, request>> /\ tasks' \in {tasks, <<Quit>>}
    BY <1>4, SessionAssumption DEF CloseQuit, IInv, TypeOK, KillInv, flags, history, Goto
  <2>2. Quit \notin Requests
    BY DEF Requests, Quit
  <2> QED
    BY <2>1, <2>2 DEF IInv, QueueInv, io
<1>5. CASE tasks' = tasks /\ exchange' = exchange
  <2>1. closed => closed'
    <3>1. CASE Leaves(t) \/ Turns(t)
      BY <3>1, LeavesShape, TurnsShape DEF flags
    <3>2. CASE Moves(t)
      BY <3>2 DEF Moves, Ready, Call, AcquireSerial, TakeNumber, Enqueue, CloseBegin, CloseStop,
         CloseKill, CloseDrain, CloseQuit, flags
    <3> QED
      BY <3>1, <3>2, CallerKinds
  <2>2. ASSUME NEW i \in Requests, tasks = <<i>>, ~ closed'
        PROVE  \E u \in Threads : request'[u] = i /\ pc'[u] \in {"wait", "close"}
    <3>1. PICK u \in Threads : request[u] = i /\ pc[u] \in {"wait", "close"}
      BY <2>1, <2>2 DEF IInv, QueueInv
    <3>2. ~ exchange[i].done /\ ~ closed
      BY <2>1, <2>2 DEF IInv, QueueInv
    <3>3. CASE Leaves(t)
      <4>1. /\ pc' = [pc EXCEPT ![t] = "idle"] /\ request' = [request EXCEPT ![t] = NoId]
            /\ pc[t] \in {"serial", "enqueue"} \/ AnswerFits(t)
        BY <3>2, <3>3, LeavesShape
      <4>2. u # t
        BY <3>1, <3>2, <4>1 DEF AnswerFits
      <4> QED
        BY <1>1, <3>1, <4>1, <4>2
    <3>4. CASE Turns(t)
      BY <1>1, <3>1, <3>4, TurnsShape
    <3>5. CASE Moves(t)
      <4>1. pc[t] \notin Closing
        BY <3>2, SessionAssumption DEF IInv, TypeOK, KillInv, Closing
      <4>2. ~ CloseBegin(t)
        BY <2>2 DEF CloseBegin
      <4>3. /\ \A x \in Threads \ {t} : request'[x] = request[x] /\ pc'[x] = pc[x]
            /\ pc[t] \notin {"wait", "close"}
        BY <1>1, <3>5, <4>1, <4>2 DEF Moves, Ready, Call, AcquireSerial, TakeNumber, Enqueue,
           CloseStop, CloseKill, CloseDrain, CloseQuit, Goto, Closing
      <4> QED
        BY <3>1, <4>3
    <3> QED
      BY <3>3, <3>4, <3>5, CallerKinds
  <2> QED
    BY <1>5, <2>1, <2>2, CallerFrame DEF IInv, QueueInv, io, history
<1> QED
  BY <1>2, <1>3, <1>4, <1>5, CallerFrame

LEMMA IoCaller ==
  ASSUME IInv, NEW t \in Threads, Caller(t)
  PROVE  IoInv'
<1>1. UNCHANGED <<ioPc, ioTask, written>> /\ IoInv
  BY CallerFrame DEF io, history, IInv
<1>2. CASE exchange' = exchange
  BY <1>1, <1>2 DEF IoInv
<1>3. CASE CloseDrain(t)
  <2>1. ASSUME ioPc \in {"check", "write", "read"}
        PROVE  tasks # <<ioTask>> /\ ioTask \in Requests \cup {Hello}
    <3>1. ioTask \in Requests \cup {Hello}
      BY <2>1, IoTaskType
    <3>2. Hello \notin Requests /\ Hello # Quit
      BY DEF Hello, Requests, Quit
    <3> QED
      BY <3>1, <3>2 DEF IInv, QueueInv
  <2>2. ioPc \in {"check", "write", "read"} => exchange'[ioTask] = exchange[ioTask]
    BY <1>3, <2>1, DrainSettles
  <2> QED
    BY <1>1, <2>2 DEF IoInv
<1> QED
  BY <1>2, <1>3, CallerFrame

LEMMA SentCaller ==
  ASSUME IInv, NEW t \in Threads, Caller(t)
  PROVE  SentInv'
<1>1. ASSUME NEW i \in Requests, Unsent(i), tasks' # <<i>>
      PROVE  Unsent(i)'
  BY <1>1, PrivateShrinks, CallerFrame DEF Unsent, io, history
<1>2. /\ SentInv /\ request \in [Threads -> Requests \cup {NoId}] /\ DOMAIN raise = Threads
      /\ \A i \in Requests : i # NoId /\ i # Quit
  BY DEF IInv, TypeOK, Requests, NoId, Quit
<1>3. CASE Leaves(t)
  <2>1. PICK what \in {"none", "startup", "ok", "not_sent", "timeout", "protocol", "interrupted"} :
          /\ outcome' = [i \in Requests |-> IF i = request[t] THEN what ELSE outcome[i]]
          /\ what = "not_sent" => pc[t] \in {"serial", "enqueue"} \/ raise[t] = "not_sent"
    BY <1>3, LeavesShape
  <2>2. /\ UNCHANGED <<exchange, tasks, sequence>> /\ request' = [request EXCEPT ![t] = NoId]
        /\ raise' = [raise EXCEPT ![t] = "none"] /\ pc' = [pc EXCEPT ![t] = "idle"]
    BY <1>3, LeavesShape
  <2>3. ASSUME NEW n \in Requests, n = request[t], what = "not_sent"
        PROVE  Unsent(n)'
    <3>1. CASE raise[t] = "not_sent"
      BY <1>1, <1>2, <2>2, <2>3, <3>1 DEF SentInv, Unsent
    <3>2. CASE pc[t] = "enqueue"
      <4>1. Private(n)
        BY <2>3, <3>2 DEF Private
      <4>2. /\ n \notin written /\ ioTask # n /\ tasks # <<n>>
        BY <4>1 DEF IInv, PrivateInv
      <4>3. ~ Private(n)'
        <5>1. n # NoId
          BY <1>2
        <5>2. /\ n = sequence /\ sequence \in Nat
              /\ \A u \in Threads : request[u] = n => u = t
          BY <2>3, <5>1, NewestNumber DEF IInv, TypeOK
        <5>3. \A u \in Threads : request'[u] # n
          BY <1>2, <2>2, <5>1, <5>2
        <5>4. ~ (n > sequence')
          BY <2>2, <5>2
        <5> QED
          BY <5>3, <5>4 DEF Private
      <4> QED
        BY <2>2, <4>2, <4>3, CallerFrame DEF Unsent, io, history
    <3>3. pc[t] # "serial"
      BY <1>2, <2>3 DEF IInv, SlotInv
    <3> QED
      BY <2>1, <2>3, <3>1, <3>2, <3>3
  <2>4. ASSUME NEW i \in Requests, i # request[t], 
               \/ outcome'[i] = "not_sent"
               \/ exchange'[i].error = "broken"
               \/ \E u \in Threads : request'[u] = i /\ raise'[u] = "not_sent"
        PROVE  Unsent(i)'
    BY <1>1, <1>2, <2>1, <2>2, <2>4 DEF SentInv, Unsent
  <2>5. ASSUME NEW i \in Requests, i = request[t], what # "not_sent",
               \/ outcome'[i] = "not_sent"
               \/ exchange'[i].error = "broken"
               \/ \E u \in Threads : request'[u] = i /\ raise'[u] = "not_sent"
        PROVE  Unsent(i)'
    BY <1>1, <1>2, <2>1, <2>2, <2>5 DEF SentInv, Unsent
  <2> QED
    BY <2>3, <2>4, <2>5 DEF SentInv
<1>4. CASE Turns(t)
  <2>1. PICK what \in {"none", "startup", "not_sent", "timeout", "protocol", "interrupted"} :
          /\ raise' = [raise EXCEPT ![t] = what]
          /\ what = "not_sent" => pc[t] = "check" \/ exchange[request[t]].error = "broken"
    BY <1>4, TurnsShape
  <2>2. UNCHANGED <<exchange, tasks, request, outcome>>
    BY <1>4, TurnsShape
  <2>3. pc[t] = "check" => request[t] = NoId
    BY DEF IInv, SlotInv
  <2> QED
    BY <1>1, <1>2, <2>1, <2>2, <2>3 DEF SentInv, Unsent
<1>5. CASE TakeNumber(t)
  <2>1. /\ UNCHANGED <<exchange, tasks, outcome, raise>>
        /\ request' = [request EXCEPT ![t] = sequence + 1] /\ raise[t] = "none"
    BY <1>5 DEF TakeNumber, NextId, IInv, SlotInv, Closing
  <2> QED
    BY <1>1, <1>2, <2>1 DEF SentInv, Unsent
<1>6. CASE Enqueue(t)
  <2>1. UNCHANGED <<exchange, outcome, raise, request>> /\ tasks' = <<request[t]>>
    BY <1>6, EnqueueOne DEF Enqueue, Goto
  <2>2. Private(request[t])
    BY <1>6 DEF Enqueue, Private
  <2>3. \A i \in Requests : Unsent(i) => tasks' # <<i>>
    BY <2>1, <2>2 DEF Unsent
  <2> QED
    BY <1>1, <1>2, <2>1, <2>3 DEF SentInv
<1>7. CASE CloseDrain(t)
  <2>1. UNCHANGED <<outcome, raise, request>> /\ tasks' = <<>>
    BY <1>7 DEF CloseDrain, Goto
  <2>2. ASSUME NEW i \in Requests, tasks = <<i>>
        PROVE  Unsent(i)'
    <3>1. i \notin written /\ ioTask # i /\ ~ Private(i)
      BY <2>2 DEF IInv, QueueInv, PrivateInv
    <3> QED
      BY <2>1, <3>1, PrivateShrinks, CallerFrame DEF Unsent, io, history
  <2>3. \A i \in Requests : tasks = <<i>> \/ exchange'[i] = exchange[i]
    BY <1>7, DrainSettles
  <2>4. \A i \in Requests : tasks' # <<i>>
    BY <2>1
  <2> QED
    BY <1>1, <1>2, <2>1, <2>2, <2>3, <2>4 DEF SentInv
<1>8. CASE CloseQuit(t)
  <2>1. UNCHANGED <<exchange, outcome, raise, request>> /\ tasks' \in {tasks, <<Quit>>}
    BY <1>8 DEF CloseQuit, Goto
  <2> QED
    BY <1>1, <1>2, <2>1 DEF SentInv, Unsent
<1>9. CASE Ready(t) \/ Call(t) \/ AcquireSerial(t) \/ CloseBegin(t) \/ CloseStop(t) \/ CloseKill(t)
  <2>1. UNCHANGED <<exchange, outcome, raise, request, tasks>>
    BY <1>9 DEF Ready, Call, AcquireSerial, CloseBegin, CloseStop, CloseKill, Goto
  <2> QED
    BY <1>1, <1>2, <2>1 DEF SentInv, Unsent
<1> QED
  BY <1>3, <1>4, <1>5, <1>6, <1>7, <1>8, <1>9, CallerKinds DEF Moves

LEMMA AnswerCaller ==
  ASSUME IInv, NEW t \in Threads, Caller(t)
  PROVE  AnswerInv' /\ WorkerInv'
<1>1. UNCHANGED <<lastId, running, stdin, stdout, served>> /\ worker' \in {worker, "dead"}
  BY CallerFrame DEF pipes, history
<1>2. WorkerInv'
  BY <1>1 DEF IInv, WorkerInv, Elems
<1>3. \A i \in Requests : /\ exchange'[i].response = exchange[i].response
                          /\ exchange[i].done => exchange'[i].done
  BY CallerFrame, DrainSettles
<1>4. ASSUME NEW i \in Requests, outcome'[i] = "ok"
      PROVE  exchange[i].response = i /\ exchange[i].done
  <2>1. CASE outcome[i] = "ok"
    BY <2>1 DEF IInv, AnswerInv
  <2>2. CASE Leaves(t) /\ outcome[i] # "ok"
    <3>1. request[t] = i /\ AnswerFits(t)
      BY <1>4, <2>2, LeavesShape
    <3> QED
      BY <3>1 DEF AnswerFits
  <2>3. CASE Turns(t) \/ Moves(t)
    <3>1. outcome' = outcome
      BY <2>3, TurnsShape DEF Moves, Ready, Call, AcquireSerial, TakeNumber, Enqueue, CloseBegin,
         CloseStop, CloseKill, CloseDrain, CloseQuit, Goto
    <3> QED
      BY <1>4, <2>1, <3>1
  <2> QED
    BY <2>1, <2>2, <2>3, CallerKinds
<1>5. AnswerInv'
  BY <1>1, <1>3, <1>4 DEF IInv, AnswerInv, Elems
<1> QED
  BY <1>2, <1>5

(***************************************************************************)
(* The IO thread and the worker                                            *)
(***************************************************************************)
LEMMA IoShape ==
  ASSUME IInv, IoStep
  PROVE  \/ /\ UNCHANGED <<ioTask, exchange, tasks, pipes, history>>
            /\ \/ ioPc = "loop" /\ ioPc' \in {"take", "ended"}
               \/ ioPc = "check" /\ ioPc' = "write"
         \/ IoTake
         \/ /\ ioPc \in {"check", "write", "read"}
            /\ \E error \in {"broken", "failed"} :
                 IoFails(error) /\ (error = "broken" => ioPc = "check")
         \/ /\ ioPc = "write" /\ ioPc' = "read" /\ worker # "dead"
            /\ stdin' = Append(stdin, ioTask) /\ written' = written \cup {ioTask}
            /\ UNCHANGED <<ioTask, exchange, tasks, stdout, served>>
         \/ IoRead
<1>1. CASE IoLoop
  BY <1>1 DEF IoLoop
<1>2. CASE IoCheck
  BY <1>2 DEF IoCheck
<1>3. CASE IoWrite
  BY <1>3 DEF IoWrite
<1>4. CASE IoEof
  BY <1>4 DEF IoEof
<1> QED
  BY <1>1, <1>2, <1>3, <1>4 DEF IoStep

LEMMA IoPrivate ==
  ASSUME IInv, IoStep
  PROVE  PrivateInv'
<1> SUFFICES ASSUME NEW i \in Requests, Private(i)'
             PROVE  (/\ i \notin written /\ exchange[i] = Fresh /\ outcome[i] = "none"
                     /\ ioTask # i /\ tasks # <<i>>)'
  BY DEF PrivateInv
<1>1. /\ i \notin written /\ exchange[i] = Fresh /\ outcome[i] = "none"
      /\ ioTask # i /\ tasks # <<i>>
  BY PrivateShrinks DEF IInv, PrivateInv
<1>2. outcome' = outcome
  BY OthersFrame DEF callers
<1>3. CASE UNCHANGED <<ioTask, exchange, tasks, pipes, history>>
  BY <1>1, <1>2, <1>3 DEF history
<1>4. CASE IoTake
  <2>1. PICK x \in Requests \cup {Quit} : tasks = <<x>>
    BY <1>4 DEF IoTake, IInv, QueueInv
  <2>2. tasks' = <<>> /\ ioTask' = x /\ exchange' = exchange /\ written' = written
    BY <1>4, <2>1 DEF IoTake, history
  <2> QED
    BY <1>1, <1>2, <2>1, <2>2
<1>5. ASSUME NEW error \in {"broken", "failed"}, IoFails(error), ioPc \in {"check", "write", "read"}
      PROVE  (/\ i \notin written /\ exchange[i] = Fresh /\ outcome[i] = "none"
              /\ ioTask # i /\ tasks # <<i>>)'
  <2>1. UNCHANGED <<ioTask, tasks, written>>
    BY <1>5 DEF IoFails, history
  <2>2. exchange'[i] = exchange[i]
    BY <1>1, <1>5, IoFailsSettles
  <2> QED
    BY <1>1, <1>2, <2>1, <2>2
<1>6. CASE IoRead
  <2>1. UNCHANGED <<ioTask, tasks, written>>
    BY <1>6 DEF IoRead, history
  <2>2. exchange'[i] = exchange[i]
    BY <1>1, <1>6, IoReadSettles
  <2> QED
    BY <1>1, <1>2, <2>1, <2>2
<1> QED
  BY <1>1, <1>2, <1>3, <1>4, <1>5, <1>6, IoShape

LEMMA IoQueue ==
  ASSUME IInv, IoStep
  PROVE  QueueInv'
<1>1. QueueInv /\ UNCHANGED <<closed, pc, request>>
  BY OthersFrame DEF IInv, callers
<1>2. CASE UNCHANGED <<ioTask, exchange, tasks, pipes, history>>
  BY <1>1, <1>2 DEF QueueInv, history
<1>3. CASE IoTake
  BY <1>3 DEF IoTake, QueueInv
<1>4. ASSUME NEW error \in {"broken", "failed"}, IoFails(error), ioPc \in {"check", "write", "read"}
      PROVE  QueueInv'
  <2>1. UNCHANGED <<ioTask, tasks, written>>
    BY <1>4 DEF IoFails, history
  <2>2. \A i \in Requests : i # ioTask => exchange'[i] = exchange[i]
    BY <1>4, IoFailsSettles
  <2> QED
    BY <1>1, <2>1, <2>2 DEF QueueInv
<1>5. CASE /\ written' = written \cup {ioTask}
           /\ UNCHANGED <<ioTask, exchange, tasks, stdout, served>>
  BY <1>1, <1>5 DEF QueueInv
<1>6. CASE IoRead
  <2>1. UNCHANGED <<ioTask, tasks, written>>
    BY <1>6 DEF IoRead, history
  <2>2. \A i \in Requests : i # ioTask => exchange'[i] = exchange[i]
    BY <1>6, IoReadSettles
  <2> QED
    BY <1>1, <2>1, <2>2 DEF QueueInv
<1> QED
  BY <1>2, <1>3, <1>4, <1>5, <1>6, IoShape

LEMMA IoIo ==
  ASSUME IInv, IoStep
  PROVE  IoInv'
<1>1. CASE /\ UNCHANGED <<ioTask, exchange, tasks, pipes, history>>
           /\ \/ ioPc = "loop" /\ ioPc' \in {"take", "ended"}
              \/ ioPc = "check" /\ ioPc' = "write"
  BY <1>1 DEF IInv, IoInv, history
<1>2. CASE IoTake
  <2>1. PICK x \in Requests \cup {Quit} : tasks = <<x>>
    BY <1>2 DEF IoTake, IInv, QueueInv
  <2>2. /\ ioTask' = x /\ exchange' = exchange /\ written' = written
        /\ ioPc' = IF x = Quit THEN "ended" ELSE "check"
    BY <1>2, <2>1 DEF IoTake, history
  <2>3. x \in Requests => x \notin written /\ ~ exchange[x].done
    BY <2>1 DEF IInv, QueueInv
  <2> QED
    BY <2>2, <2>3 DEF IoInv
<1>3. CASE \E error \in {"broken", "failed"} : IoFails(error)
  BY <1>3 DEF IoFails, IoInv
<1>4. CASE /\ ioPc = "write" /\ ioPc' = "read"
           /\ UNCHANGED <<ioTask, exchange, tasks, stdout, served>>
  BY <1>4 DEF IInv, IoInv
<1>5. CASE IoRead
  BY <1>5 DEF IoRead, IoInv
<1> QED
  BY <1>1, <1>2, <1>3, <1>4, <1>5, IoShape

\* An exchange that the IO thread gives up as broken was not written.
LEMMA IoSent ==
  ASSUME IInv, IoStep
  PROVE  SentInv'
<1>1. SentInv /\ UNCHANGED <<outcome, request, raise>>
  BY OthersFrame DEF IInv, callers
<1>2. CASE /\ UNCHANGED <<ioTask, exchange, tasks, pipes, history>>
           /\ \/ ioPc = "loop" /\ ioPc' \in {"take", "ended"}
              \/ ioPc = "check" /\ ioPc' = "write"
  BY <1>1, <1>2, PrivateShrinks DEF SentInv, Unsent, history
<1>3. CASE IoTake
  <2>1. PICK x \in Requests \cup {Quit} : tasks = <<x>>
    BY <1>3 DEF IoTake, IInv, QueueInv
  <2>2. tasks' = <<>> /\ ioTask' = x /\ exchange' = exchange /\ written' = written
    BY <1>3, <2>1 DEF IoTake, history
  <2>3. \A i \in Requests : Unsent(i) => Unsent(i)'
    BY <2>1, <2>2, PrivateShrinks DEF Unsent
  <2> QED
    BY <1>1, <2>2, <2>3 DEF SentInv
<1>4. ASSUME NEW error \in {"broken", "failed"}, IoFails(error), error = "broken" => ioPc = "check",
             ioPc \in {"check", "write", "read"}
      PROVE  SentInv'
  <2>1. UNCHANGED <<ioTask, tasks, written>> /\ ioPc' = "ended"
    BY <1>4 DEF IoFails, history
  <2>2. /\ \A i \in Requests : i # ioTask => exchange'[i] = exchange[i]
        /\ exchange'[ioTask].error = error
    BY <1>4, IoFailsSettles
  <2>3. \A i \in Requests : Unsent(i) => Unsent(i)'
    BY <2>1, PrivateShrinks DEF Unsent
  <2>4. ASSUME NEW i \in Requests, i = ioTask, error = "broken"
        PROVE  Unsent(i)'
    <3>1. i \notin written /\ tasks # <<i>> /\ ~ Private(i)
      BY <1>4, <2>4 DEF IInv, IoInv, QueueInv, PrivateInv
    <3> QED
      BY <2>1, <3>1, PrivateShrinks DEF Unsent
  <2>5. ASSUME NEW i \in Requests, exchange'[i].error = "broken"
        PROVE  Unsent(i)'
    BY <1>1, <2>2, <2>3, <2>4, <2>5 DEF SentInv
  <2> QED
    BY <1>1, <2>3, <2>5 DEF SentInv
<1>5. CASE /\ ioPc = "write" /\ ioPc' = "read" /\ written' = written \cup {ioTask}
           /\ UNCHANGED <<ioTask, exchange, tasks, stdout, served>>
  <2>1. \A i \in Requests : Unsent(i) => Unsent(i)'
    BY <1>5, PrivateShrinks DEF Unsent
  <2> QED
    BY <1>1, <1>5, <2>1 DEF SentInv
<1>6. CASE IoRead
  <2>1. UNCHANGED <<ioTask, tasks, written>> /\ ioPc' = "loop"
    BY <1>6 DEF IoRead, history
  <2>2. \A i \in Requests : exchange'[i].error = exchange[i].error
    BY <1>6, IoReadSettles
  <2>3. \A i \in Requests : Unsent(i) => Unsent(i)'
    BY <2>1, PrivateShrinks DEF Unsent
  <2> QED
    BY <1>1, <2>2, <2>3 DEF SentInv
<1> QED
  BY <1>2, <1>3, <1>4, <1>5, <1>6, IoShape

LEMMA IoAnswer ==
  ASSUME IInv, IoStep
  PROVE  WorkerInv' /\ AnswerInv'
<1>1. WorkerInv /\ AnswerInv /\ UNCHANGED <<outcome, worker, lastId, running>>
  BY DEF IInv, IoStep, IoLoop, IoTake, IoCheck, IoWrite, IoRead, IoEof, IoUnchanged, callers, process
<1>2. served' = served
  BY IoShape DEF IoTake, IoFails, IoRead, history
<1>3. CASE UNCHANGED <<exchange, pipes>>
  <2>1. UNCHANGED <<exchange, stdin, stdout>>
    BY <1>3 DEF pipes
  <2>2. WorkerInv'
    BY <1>1, <1>2, <2>1 DEF WorkerInv, Elems
  <2>3. AnswerInv'
    BY <1>1, <1>2, <2>1 DEF AnswerInv, Elems
  <2> QED
    BY <2>2, <2>3
<1>4. ASSUME NEW error \in {"broken", "failed"}, IoFails(error), ioPc \in {"check", "write", "read"}
      PROVE  WorkerInv' /\ AnswerInv'
  <2>1. UNCHANGED pipes
    BY <1>4 DEF IoFails
  <2>2. \A i \in Requests : /\ exchange'[i].response = exchange[i].response
                            /\ exchange[i].done => exchange'[i].done
    BY <1>4, IoFailsSettles
  <2>3. WorkerInv'
    BY <1>1, <1>2, <2>1 DEF WorkerInv, Elems, pipes
  <2>4. AnswerInv'
    BY <1>1, <1>2, <2>2 DEF AnswerInv, Elems
  <2> QED
    BY <2>3, <2>4
<1>5. CASE /\ ioPc = "write" /\ stdin' = Append(stdin, ioTask)
           /\ UNCHANGED <<ioTask, exchange, tasks, stdout, served>>
  <2>1. stdin' \in Seq(Requests)
    BY <1>1, <1>5, ElemsAppend DEF WorkerInv, IInv, IoInv
  <2>2. WorkerInv'
    BY <1>1, <1>5, <2>1 DEF WorkerInv, Elems
  <2>3. AnswerInv'
    BY <1>1, <1>5 DEF AnswerInv, Elems
  <2> QED
    BY <2>2, <2>3
<1>6. CASE IoRead
  <2>1. stdout' = Tail(stdout) /\ stdin' = stdin /\ stdout # <<>> /\ ioPc = "read"
    BY <1>6 DEF IoRead
  <2>2. /\ stdout' \in Seq(Requests \cup {Hello, NoId}) /\ Elems(stdout)' \subseteq Elems(stdout)
        /\ Head(stdout) \in Elems(served) \cup {Hello, NoId}
    <3>1. stdout \in Seq(Requests \cup {Hello, NoId})
      BY <1>1 DEF WorkerInv
    <3>2. /\ Tail(stdout) \in Seq(Requests \cup {Hello, NoId})
          /\ Elems(Tail(stdout)) \subseteq Elems(stdout) /\ Head(stdout) \in Elems(stdout)
      BY <2>1, <3>1, ElemsTail
    <3>3. Elems(stdout)' = Elems(Tail(stdout))
      BY <2>1 DEF Elems
    <3> QED
      BY <1>1, <2>1, <3>2, <3>3 DEF WorkerInv
  <2>3. WorkerInv'
    <3>1. Elems(served)' = Elems(served)
      BY <1>2 DEF Elems
    <3> QED
      BY <1>1, <1>2, <2>1, <2>2, <3>1 DEF WorkerInv
  <2>4. /\ \A i \in Requests : i # ioTask => exchange'[i] = exchange[i]
        /\ exchange'[ioTask].response = Head(stdout)
    BY <1>6, IoReadSettles
  <2>5. ioTask \in Requests => outcome[ioTask] # "ok"
    BY <1>1, <2>1 DEF AnswerInv, IInv, IoInv
  <2>6. AnswerInv'
    <3>1. Elems(served)' = Elems(served)
      BY <1>2 DEF Elems
    <3> QED
      BY <1>1, <2>2, <2>4, <2>5, <3>1 DEF AnswerInv
  <2> QED
    BY <2>3, <2>6
<1>7. CASE IoTake
  BY <1>3, <1>7 DEF IoTake
<1> QED
  BY <1>3, <1>4, <1>5, <1>6, <1>7, IoShape

\* The worker sees neither the queue nor the exchanges.
LEMMA WorkerFrame ==
  ASSUME IInv, Worker
  PROVE  PrivateInv' /\ QueueInv' /\ IoInv' /\ SentInv'
<1>1. UNCHANGED <<pc, request, raise, outcome, closed, sequence, tasks, exchange, io, written>>
  BY DEF Worker, WorkerHello, WorkerTake, WorkerAnswer, WorkerDies, WorkerUnchanged, flags, callers
<1>2. UNCHANGED <<ioPc, ioTask>>
  BY <1>1 DEF io
<1>3. \A i \in Requests : Private(i)' <=> Private(i)
  BY <1>1 DEF Private
<1>4. PrivateInv'
  BY <1>1, <1>2, <1>3 DEF IInv, PrivateInv
<1>5. QueueInv'
  BY <1>1, <1>2 DEF IInv, QueueInv
<1>6. IoInv'
  BY <1>1, <1>2 DEF IInv, IoInv
<1>7. SentInv'
  BY <1>1, <1>2, <1>3 DEF IInv, SentInv, Unsent
<1> QED
  BY <1>4, <1>5, <1>6, <1>7

LEMMA WorkerAnswers ==
  ASSUME IInv, Worker
  PROVE  WorkerInv' /\ AnswerInv'
<1>1. /\ WorkerInv /\ AnswerInv /\ UNCHANGED <<outcome, exchange>>
      /\ served \in Seq(Requests) /\ lastId \in Nat
  BY DEF IInv, TypeOK, Worker, WorkerHello, WorkerTake, WorkerAnswer, WorkerDies,
     WorkerUnchanged, callers
<1>2. stdin \in Seq(Requests) /\ stdout \in Seq(Requests \cup {Hello, NoId})
  BY <1>1 DEF WorkerInv
<1>3. CASE WorkerHello
  <2>1. PICK x \in {Hello, NoId} : stdout' = Append(stdout, x)
    BY <1>3 DEF WorkerHello
  <2>2. UNCHANGED <<worker, lastId, running, stdin, served>>
    BY <1>3 DEF WorkerHello
  <2>3. stdout' \in Seq(Requests \cup {Hello, NoId}) /\ Elems(stdout)' = Elems(stdout) \cup {x}
    <3>1. /\ Append(stdout, x) \in Seq(Requests \cup {Hello, NoId})
          /\ Elems(Append(stdout, x)) = Elems(stdout) \cup {x}
      BY <1>2, ElemsAppend
    <3> QED
      BY <2>1, <3>1 DEF Elems
  <2>4. Elems(served)' = Elems(served)
    BY <2>2 DEF Elems
  <2>5. WorkerInv'
    BY <1>1, <2>2, <2>3, <2>4 DEF WorkerInv
  <2> QED
    BY <1>1, <2>4, <2>5 DEF AnswerInv
<1>4. CASE WorkerAnswer
  <2>1. PICK x \in {running, NoId} : stdout' = Append(stdout, x)
    BY <1>4 DEF WorkerAnswer
  <2>2. UNCHANGED <<lastId, stdin, served>> /\ worker' = "up" /\ running' = NoId /\ worker = "busy"
    BY <1>4 DEF WorkerAnswer
  <2>3. x \in Elems(served) \cup {NoId} /\ x \in Requests \cup {Hello, NoId}
    BY <1>1, <2>2 DEF WorkerInv, IInv, TypeOK
  <2>4. stdout' \in Seq(Requests \cup {Hello, NoId}) /\ Elems(stdout)' = Elems(stdout) \cup {x}
    <3>1. /\ Append(stdout, x) \in Seq(Requests \cup {Hello, NoId})
          /\ Elems(Append(stdout, x)) = Elems(stdout) \cup {x}
      BY <1>2, <2>3, ElemsAppend
    <3> QED
      BY <2>1, <3>1 DEF Elems
  <2>5. Elems(served)' = Elems(served)
    BY <2>2 DEF Elems
  <2>6. WorkerInv'
    BY <1>1, <2>2, <2>3, <2>4, <2>5 DEF WorkerInv
  <2> QED
    BY <1>1, <2>5, <2>6 DEF AnswerInv
<1>5. CASE WorkerDies
  <2>1. UNCHANGED <<lastId, running, stdin, stdout, served>> /\ worker' = "dead"
    BY <1>5 DEF WorkerDies, pipes
  <2>2. WorkerInv'
    BY <1>1, <2>1 DEF WorkerInv, Elems
  <2> QED
    BY <1>1, <2>1, <2>2 DEF AnswerInv, Elems
<1>6. CASE WorkerTake
  <2> DEFINE n == Head(stdin)
  <2>1. stdin # <<>> /\ stdin' = Tail(stdin) /\ stdout' = stdout
    BY <1>6 DEF WorkerTake
  <2>2. n \in Requests /\ n \in Int /\ stdin' \in Seq(Requests)
    <3>1. n \in Requests /\ Tail(stdin) \in Seq(Requests)
      BY <1>2, <2>1, ElemsTail
    <3> QED
      BY <2>1, <3>1 DEF Requests
  <2>3. CASE n <= lastId
    <3>1. UNCHANGED <<lastId, running, served>> /\ worker' = "dead"
      BY <1>6, <2>3 DEF WorkerTake
    <3>2. WorkerInv'
      BY <1>1, <2>1, <2>2, <3>1 DEF WorkerInv, Elems
    <3> QED
      BY <1>1, <3>1, <3>2 DEF AnswerInv, Elems
  <2>4. CASE n > lastId
    <3>1. worker' = "busy" /\ lastId' = n /\ running' = n /\ served' = Append(served, n)
      BY <1>1, <1>6, <2>2, <2>4 DEF WorkerTake
    <3> HIDE DEF n
    <3>2. Elems(served)' = Elems(served) \cup {n}
      <4>1. Elems(Append(served, n)) = Elems(served) \cup {n}
        BY <1>1, <2>2, ElemsAppend
      <4> QED
        BY <3>1, <4>1 DEF Elems
    <3>3. /\ Len(served') = Len(served) + 1 /\ Len(served) \in Nat /\ served'[Len(served) + 1] = n
          /\ \A k \in 1..Len(served) : served'[k] = served[k] /\ served[k] \in Int
      <4>1. \A k \in 1..Len(served) : served[k] \in Requests
        BY <1>1
      <4> QED
        BY <1>1, <2>2, <3>1, <4>1 DEF Requests
    <3>4. \A k \in 1..Len(served') : k \in 1..Len(served) \/ k = Len(served) + 1
      BY <3>3
    <3>5. \A k \in 1..Len(served) : served[k] <= lastId
      BY <1>1 DEF WorkerInv
    <3>6. \A k \in 1..Len(served') : served'[k] <= n
      BY <1>1, <2>2, <2>4, <3>3, <3>4, <3>5
    <3>7. ASSUME NEW k \in 1..Len(served'), NEW l \in 1..Len(served'), k < l
          PROVE  served'[k] < served'[l]
      <4>1. k \in 1..Len(served)
        BY <3>3, <3>7
      <4>2. CASE l \in 1..Len(served)
        BY <1>1, <3>3, <3>7, <4>1, <4>2 DEF WorkerInv
      <4>3. CASE l = Len(served) + 1
        BY <1>1, <2>2, <2>4, <3>3, <3>5, <4>1, <4>3
      <4> QED
        BY <3>4, <4>2, <4>3
    <3>8. Elems(stdout)' = Elems(stdout)
      BY <2>1 DEF Elems
    <3>9. WorkerInv'
      <4>1. \A k, l \in 1..Len(served') : k < l => served'[k] < served'[l]
        BY <3>7
      <4>2. /\ running' \in Elems(served)'
            /\ Elems(stdout)' \subseteq Elems(served)' \cup {Hello, NoId}
        BY <1>1, <3>1, <3>2, <3>8 DEF WorkerInv
      <4>3. \A k \in 1..Len(served') : served'[k] <= lastId'
        BY <3>1, <3>6
      <4>4. n # NoId
        BY <2>2 DEF Requests, NoId
      <4> QED
        BY <1>2, <2>1, <2>2, <3>1, <4>1, <4>2, <4>3, <4>4 DEF WorkerInv
    <3> QED
      BY <1>1, <3>2, <3>9 DEF AnswerInv
  <2> QED
    BY <1>1, <2>2, <2>3, <2>4
<1> QED
  BY <1>3, <1>4, <1>5, <1>6 DEF Worker

(***************************************************************************)
(* The invariant                                                           *)
(***************************************************************************)
LEMMA InvInit ==
  ASSUME Init
  PROVE  IInv
<1> USE SessionAssumption DEF Init
<1>1. \A i \in Requests : i \in Int /\ i >= 1 /\ i # Hello /\ i # NoId /\ i # Quit
  BY DEF Requests, Hello, NoId, Quit
<1>2. <<>> \in Seq(Requests \cup {Quit}) /\ <<>> \in Seq(Requests)
      /\ <<>> \in Seq(Requests \cup {Hello, NoId}) /\ Len(<<>>) = 0
  OBVIOUS
<1>3. Fresh \in Exchange /\ Fresh.done = FALSE /\ Fresh.error = "none" /\ Fresh.response = NoId
  BY DEF Fresh, Exchange
<1>4. exchange \in [Requests \cup {Hello} -> Exchange]
  BY <1>3
<1>5. TypeOK
  <2>1. /\ {serial, cleanup} \subseteq Threads \cup {NoThread}
        /\ sequence \in 0..MaxCalls /\ calls \in 0..MaxCalls /\ lastId \in 0..MaxCalls
    OBVIOUS
  <2>2. /\ tasks \in Seq(Requests \cup {Quit}) /\ served \in Seq(Requests)
        /\ ioPc = "read" /\ ioTask \in Requests \cup {Hello, Quit}
        /\ worker = "up" /\ running \in Requests \cup {NoId} /\ written \subseteq Requests
    BY <1>2
  <2>3. /\ pc \in [Threads -> {"idle", "ready"}]
        /\ request \in [Threads -> Requests \cup {NoId}]
        /\ raise \in [Threads -> {"none"}] /\ outcome \in [Requests -> {"none"}]
    OBVIOUS
  <2>4. cleanup \notin Threads
    OBVIOUS
  <2>5. {closed, stop, failure, clientClosed, opened, greeted} \subseteq BOOLEAN
    BY Zenon
  <2> QED
    BY <1>4, <2>1, <2>2, <2>3, <2>4, <2>5 DEF TypeOK, Exchange
<1>6. CountInv
  <2>1. Starting = {}
    BY DEF Starting
  <2> QED
    BY <2>1, FS_EmptySet DEF CountInv
<1>7. SlotInv
  BY DEF SlotInv, Closing
<1>8. PrivateInv
  BY <1>1, <1>2 DEF PrivateInv
<1>9. QueueInv
  BY DEF QueueInv
<1>10. IoInv
  BY <1>3 DEF IoInv, Hello, Quit
<1>11. SentInv
  BY <1>3 DEF SentInv
<1>12. WorkerInv
  BY <1>2 DEF WorkerInv, Elems
<1>13. AnswerInv
  BY <1>3 DEF AnswerInv
<1>14. KillInv
  BY DEF KillInv, Ended
<1> QED
  BY <1>5, <1>6, <1>7, <1>8, <1>9, <1>10, <1>11, <1>12, <1>13, <1>14 DEF IInv

LEMMA InvStutter ==
  ASSUME IInv, UNCHANGED vars
  PROVE  IInv'
<1> USE DEF vars, locks, flags, io, callers, process, pipes, history
<1>1. TypeOK'
  BY DEF IInv, TypeOK
<1>2. CountInv' /\ SlotInv' /\ PrivateInv'
  BY DEF IInv, CountInv, Starting, SlotInv, PrivateInv, Private
<1>3. QueueInv' /\ IoInv' /\ SentInv'
  BY DEF IInv, QueueInv, IoInv, SentInv, Unsent, Private
<1>4. WorkerInv' /\ AnswerInv' /\ KillInv'
  BY DEF IInv, WorkerInv, AnswerInv, KillInv, Ended, Elems
<1> QED
  BY <1>1, <1>2, <1>3, <1>4 DEF IInv

LEMMA InvNext ==
  ASSUME IInv, [Next]_vars
  PROVE  IInv'
<1>1. ASSUME NEW t \in Threads, Caller(t)
      PROVE  IInv'
  BY <1>1, TypeCaller, CountCaller, SlotCaller, PrivateCaller, QueueCaller, IoCaller, SentCaller,
     AnswerCaller, KillCaller DEF IInv
<1>2. CASE IoStep
  BY <1>2, TypeOthers, OthersFrame, IoPrivate, IoQueue, IoIo, IoSent, IoAnswer DEF IInv
<1>3. CASE Worker
  BY <1>3, TypeOthers, OthersFrame, WorkerFrame, WorkerAnswers DEF IInv
<1> QED
  BY <1>1, <1>2, <1>3, InvStutter DEF Next, Caller, Worker

(* The session keeps its invariant: every request is private to its caller,*)
(* queued, in the hands of the IO thread, written or given up, and never   *)
(* two of them.                                                            *)
THEOREM SessionInvariant == Spec => []IInv
BY InvInit, InvNext, PTL DEF Spec

(* The locks, the queue, the exchanges and the steps keep their shape; a   *)
(* thread is inside close() exactly while it holds `cleanup`.              *)
THEOREM SessionTypeCorrect == Spec => []TypeOK
<1>1. IInv => TypeOK
  BY DEF IInv
<1> QED
  BY <1>1, SessionInvariant, PTL

(***************************************************************************)
(* What the caller is told                                                 *)
(***************************************************************************)
(* "Not sent" is true: the frame of a request whose caller got             *)
(* SessionBroken, or a timeout before dispatch, never goes to the worker.  *)
THEOREM SessionNotSent == Spec => []NotSentIsTrue
<1>1. IInv => NotSentIsTrue
  BY DEF IInv, TypeOK, SentInv, Unsent, NotSentIsTrue
<1> QED
  BY <1>1, SessionInvariant, PTL

(* A result is the answer to the caller's own request, which the worker    *)
(* dispatched exactly once: numbers grow, and an answer names a number.    *)
THEOREM SessionAnswers == Spec => []OkIsTheAnswer
<1>1. ASSUME IInv, NEW i \in Requests, outcome[i] = "ok"
      PROVE  /\ exchange[i].response = i
             /\ Cardinality({k \in 1..Len(served) : served[k] = i}) = 1
  <2>1. exchange[i].response = i /\ i \in Elems(served) \cup {Hello, NoId}
    BY <1>1 DEF IInv, AnswerInv
  <2>2. i # Hello /\ i # NoId
    BY DEF Requests, Hello, NoId
  <2>3. PICK k \in 1..Len(served) : served[k] = i
    BY <2>1, <2>2 DEF Elems
  <2>4. \A l \in 1..Len(served) : served[l] = i => l = k
    <3>1. SUFFICES ASSUME NEW l \in 1..Len(served), served[l] = i, l # k
                   PROVE  FALSE
      OBVIOUS
    <3>2. l < k \/ k < l
      BY <3>1
    <3>3. served[l] < served[k] \/ served[k] < served[l]
      BY <1>1, <3>2 DEF IInv, WorkerInv
    <3> QED
      BY <2>3, <3>1, <3>3 DEF Requests
  <2>5. {l \in 1..Len(served) : served[l] = i} = {k}
    BY <2>3, <2>4
  <2>6. Cardinality({k}) = 1
    BY FS_Singleton
  <2> QED
    BY <2>1, <2>5, <2>6
<1>2. IInv => OkIsTheAnswer
  BY <1>1 DEF OkIsTheAnswer
<1> QED
  BY <1>2, SessionInvariant, PTL

(* Once a caller was told of a timeout or of a protocol failure, close()   *)
(* has killed the worker: no later frame is written and none dispatched.   *)
THEOREM SessionEnds == Spec => NothingSentAfterTheEnd
<1>1. ASSUME IInv, [Next]_vars, Ended
      PROVE  UNCHANGED <<written, served>>
  <2>1. worker = "dead"
    BY <1>1 DEF IInv, KillInv
  <2>2. ASSUME NEW t \in Threads, Caller(t)
        PROVE  UNCHANGED <<written, served>>
    BY <1>1, <2>2, CallerFrame DEF history
  <2>3. CASE IoStep
    BY <1>1, <2>1, <2>3, IoShape DEF IoTake, IoFails, IoRead, history
  <2>4. CASE Worker
    BY <2>1, <2>4 DEF Worker, WorkerHello, WorkerTake, WorkerAnswer, WorkerDies
  <2>5. CASE UNCHANGED vars
    BY <2>5 DEF vars, history
  <2> QED
    BY <1>1, <2>2, <2>3, <2>4, <2>5 DEF Next, Caller, Worker
<1>2. IInv /\ [Next]_vars => [Ended => UNCHANGED <<written, served>>]_vars
  BY <1>1
<1> QED
  BY <1>2, SessionInvariant, PTL DEF Spec, NothingSentAfterTheEnd

(* put_nowait never raises queue.Full: whoever reaches it with the session *)
(* still open finds the queue of one empty, although an earlier caller may *)
(* have left its exchange there.                                           *)
THEOREM SessionQueueFree ==
  Spec => [](\A t \in Threads : pc[t] = "enqueue" /\ ~ closed => tasks = <<>>)
<1>1. IInv => \A t \in Threads : pc[t] = "enqueue" /\ ~ closed => tasks = <<>>
  BY QueueFree
<1> QED
  BY <1>1, SessionInvariant, PTL
=============================================================================
