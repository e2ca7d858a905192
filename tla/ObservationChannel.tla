------------------------- MODULE ObservationChannel -------------------------
(***************************************************************************)
(* The private observation channel of a managed runtime session: the      *)
(* ObservationCollector of runtime/instrumentation.py, the                *)
(* _ObservationWriter thread and the "finally" block of runtime/worker.py,*)
(* and the read-back in ManagedRuntimeSession.close (runtime/session.py). *)
(*                                                                         *)
(* Any merchant thread may emit at any time, before, during and after the *)
(* worker's shutdown.  The collector numbers an event by its position, so *)
(* the queue and the file carry sequence numbers, and 0 is the None that  *)
(* tells the writer to stop.                                              *)
(***************************************************************************)
EXTENDS Integers, Sequences

CONSTANTS
  Observations,   \* what an emitter reports: request, kind and target
  MaxEvents,      \* ObservationCollector(max_events=...): 10_000 in the code
  QueueSize,      \* queue.Queue(maxsize=...): 10_001 in the code
  MaxOffers       \* bound of the model: calls of emit made in a behaviour

ASSUME ChannelAssumption ==
  /\ MaxEvents \in Nat \ {0}
  /\ QueueSize \in Nat \ {0}
  /\ MaxOffers \in Nat

VARIABLES
  alive,          \* the worker process is running
  offered,        \* calls of emit so far
  events,         \* ObservationCollector._events
  complete,       \* ObservationCollector._complete
  queue,          \* _ObservationWriter.items
  inHand,         \* the item the writer took and has not written, or 0
  file,           \* the complete lines of observations.jsonl
  torn,           \* the last line of the file is cut short
  writer,         \* the writer thread: "running", "done" or "failed"
  writerFailed,   \* _ObservationWriter.failed
  closing,        \* the worker's finally block
  status,         \* the closing status record: what was counted, and whether all
  transcript      \* what ManagedRuntimeSession.close returns

collectorVars == <<offered, events, complete>>
writerVars == <<queue, inHand, file, torn, writer, writerFailed>>
sealVars == <<closing, status, transcript>>
channelVars == <<alive, collectorVars, writerVars, sealVars>>

Stop == 0
ClosingSteps == {"open", "joining", "joined", "sealed"}

NoStatus == [count |-> 0, offered |-> 0, complete |-> FALSE]
NoTranscript == [state |-> "none", events |-> << >>]

ChannelInit ==
  /\ alive = TRUE
  /\ offered = 0
  /\ events = << >>
  /\ complete = TRUE
  /\ queue = << >>
  /\ inHand = 0
  /\ file = << >>
  /\ torn = FALSE
  /\ writer = "running"
  /\ writerFailed = FALSE
  /\ closing = "open"
  /\ status = NoStatus
  /\ transcript = NoTranscript
-----------------------------------------------------------------------------
(* ObservationCollector.emit: one critical section of its lock.            *)

CollectorFullLate == Len(events) > MaxEvents    \* mutant: off by one
CollectorFull == Len(events) >= MaxEvents

EmitOverflow ==
  /\ CollectorFull
  /\ complete' = FALSE
  /\ UNCHANGED <<events, queue>>

EmitQueued(observation) ==
  /\ ~CollectorFull
  /\ Len(queue) < QueueSize
  /\ events' = Append(events, observation)
  /\ queue' = Append(queue, Len(events) + 1)
  /\ UNCHANGED complete

(* put_nowait raises queue.Full: the event stays in the collector.         *)
EmitSinkFull(observation) ==
  /\ ~CollectorFull
  /\ Len(queue) >= QueueSize
  /\ events' = Append(events, observation)
  /\ complete' = FALSE
  /\ UNCHANGED queue

Emit(observation) ==
  /\ alive
  /\ offered < MaxOffers
  /\ offered' = offered + 1
  /\ \/ EmitOverflow
     \/ EmitQueued(observation)
     \/ EmitSinkFull(observation)
  /\ UNCHANGED <<alive, inHand, file, torn, writer, writerFailed, sealVars>>

(* ObservationCollector.fail: an uncorrelated execution or a tracer error. *)
CollectorFail ==
  /\ alive
  /\ complete' = FALSE
  /\ UNCHANGED <<alive, offered, events, writerVars, sealVars>>
-----------------------------------------------------------------------------
(* _ObservationWriter._run, one step per queue item and per line.          *)

WriterStop ==
  /\ alive
  /\ writer = "running"
  /\ inHand = 0
  /\ queue # << >>
  /\ Head(queue) = Stop
  /\ queue' = Tail(queue)
  /\ writer' = "done"
  /\ UNCHANGED <<alive, collectorVars, inHand, file, torn, writerFailed, sealVars>>

WriterTake ==
  /\ alive
  /\ writer = "running"
  /\ inHand = 0
  /\ queue # << >>
  /\ Head(queue) # Stop
  /\ queue' = Tail(queue)
  /\ inHand' = Head(queue)
  /\ UNCHANGED <<alive, collectorVars, file, torn, writer, writerFailed, sealVars>>

WriterWrite ==
  /\ alive
  /\ writer = "running"
  /\ inHand # 0
  /\ file' = Append(file, inHand)
  /\ inHand' = 0
  /\ UNCHANGED <<alive, collectorVars, queue, torn, writer, writerFailed, sealVars>>

(* Opening, writing or flushing raises: a line may be left half written.   *)
WriterRaise ==
  /\ alive
  /\ writer = "running"
  /\ writer' = "failed"
  /\ writerFailed' = TRUE
  /\ inHand' = 0
  /\ \/ UNCHANGED torn
     \/ inHand # 0 /\ torn' = TRUE
  /\ UNCHANGED <<alive, collectorVars, queue, file, sealVars>>
-----------------------------------------------------------------------------
(* _serve's finally block: close the writer, then seal the collector.      *)

PutStop ==
  /\ alive
  /\ closing = "open"
  /\ Len(queue) < QueueSize
  /\ queue' = Append(queue, Stop)
  /\ closing' = "joining"
  /\ UNCHANGED <<alive, collectorVars, inHand, file, torn, writer, writerFailed,
                 status, transcript>>

(* put(None, timeout=1) gives up on a queue that stays full.               *)
PutStopTimeout ==
  /\ alive
  /\ closing = "open"
  /\ Len(queue) >= QueueSize
  /\ writerFailed' = TRUE
  /\ closing' = "joining"
  /\ UNCHANGED <<alive, collectorVars, queue, inHand, file, torn, writer,
                 status, transcript>>

Join ==
  /\ alive
  /\ closing = "joining"
  /\ writer # "running"
  /\ closing' = "joined"
  /\ UNCHANGED <<alive, collectorVars, writerVars, status, transcript>>

JoinForever == FALSE                            \* mutant: join() without timeout

(* join(timeout=5) returns with the thread still alive.                    *)
JoinTimeout ==
  /\ alive
  /\ closing = "joining"
  /\ writer = "running"
  /\ writerFailed' = TRUE
  /\ closing' = "joined"
  /\ UNCHANGED <<alive, collectorVars, queue, inHand, file, torn, writer,
                 status, transcript>>

(* collector.fail if the writer failed, collector.snapshot, _write_status.  *)
Snapshot ==
  /\ alive
  /\ closing = "joined"
  /\ complete' = (complete /\ ~writerFailed)
  /\ status' = [count |-> Len(events), offered |-> offered, complete |-> complete']
  /\ closing' = "sealed"
  /\ UNCHANGED <<alive, offered, events, writerVars, transcript>>

(* The interpreter exits once the non-daemon writer thread has ended.       *)
WorkerExit ==
  /\ alive
  /\ closing = "sealed"
  /\ writer # "running"
  /\ alive' = FALSE
  /\ UNCHANGED <<collectorVars, writerVars, sealVars>>

(* A crash, SIGTERM or SIGKILL: a line being written may be cut short.      *)
WorkerKilled ==
  /\ alive
  /\ alive' = FALSE
  /\ \/ UNCHANGED torn
     \/ inHand # 0 /\ torn' = TRUE
  /\ UNCHANGED <<collectorVars, queue, inHand, file, writer, writerFailed, sealVars>>
-----------------------------------------------------------------------------
(* ManagedRuntimeSession.close: _read_events, the status record, the        *)
(* transcript.  parentComplete is the session's own _complete flag.         *)

StatusClosed == closing = "sealed"              \* mutant: ignores "complete"
StatusAccepted == closing = "sealed" /\ status.complete

ReadBackUncounted == ~torn                      \* mutant: ignores event_count
ReadBackIntact == ~torn /\ status.count = Len(file)

(* RuntimeObservationTranscript.validate_transcript: sequences from 1 on.   *)
Contiguous(numbers) == \A i \in 1..Len(numbers) : numbers[i] = i

(* A gap makes the model reject the transcript and close raise.  A worker   *)
(* that survived SIGKILL (CLEANUP_FAILED) is read while it runs.            *)
ReadBack(parentComplete) ==
  /\ transcript.state = "none"
  /\ parentComplete => ~alive
  /\ transcript' =
       [state  |-> IF ~Contiguous(file) THEN "rejected"
                   ELSE IF parentComplete /\ StatusAccepted /\ ReadBackIntact
                   THEN "complete" ELSE "incomplete",
        events |-> file]
  /\ UNCHANGED <<alive, collectorVars, writerVars, closing, status>>

ChannelNext ==
  \/ \E observation \in Observations : Emit(observation)
  \/ CollectorFail
  \/ WriterStop \/ WriterTake \/ WriterWrite \/ WriterRaise
  \/ PutStop \/ PutStopTimeout \/ Join \/ JoinTimeout
  \/ Snapshot \/ WorkerExit \/ WorkerKilled
  \/ \E parentComplete \in BOOLEAN : ReadBack(parentComplete)

ChannelSpec == ChannelInit /\ [][ChannelNext]_channelVars

(* Once in its finally block the worker's main thread runs, and its timeout *)
(* expires.  Nothing is assumed of the writer thread or of the emitters.    *)
Shutdown == Join \/ JoinTimeout \/ Snapshot
ChannelFairSpec == ChannelSpec /\ WF_channelVars(Shutdown)
-----------------------------------------------------------------------------
StatusRecord == [count : 0..MaxEvents, offered : 0..MaxOffers, complete : BOOLEAN]
Transcripts == [state : {"none", "complete", "incomplete", "rejected"}, events : Seq(1..MaxEvents)]

(* The type of every variable of the channel.                               *)
TypeOK ==
  /\ alive \in BOOLEAN
  /\ offered \in 0..MaxOffers
  /\ events \in Seq(Observations)
  /\ Len(events) <= MaxEvents
  /\ complete \in BOOLEAN
  /\ queue \in Seq(0..MaxEvents)
  /\ inHand \in 0..MaxEvents
  /\ file \in Seq(1..MaxEvents)
  /\ torn \in BOOLEAN
  /\ writer \in {"running", "done", "failed"}
  /\ writerFailed \in BOOLEAN
  /\ closing \in ClosingSteps
  /\ status \in StatusRecord
  /\ transcript \in Transcripts

(* A transcript marked complete holds every observation that any thread     *)
(* offered to the collector before the worker sealed it, each once and in   *)
(* order: nothing overflowed, was left in the queue, lost with the writer   *)
(* or cut off in the file.  (_read_events, close, emit, _ObservationWriter) *)
SealedTranscriptExact ==
  transcript.state = "complete" =>
    /\ Len(transcript.events) = status.offered
    /\ Contiguous(transcript.events)

(* The queue is one larger than the collector, so neither put_nowait in    *)
(* submit nor put(None) in close can meet a full queue; and so the file is  *)
(* always a prefix of what was observed, whatever crashed, failed or        *)
(* overflowed, and close returns a transcript.                              *)
NeverFullNeverRejected ==
  QueueSize > MaxEvents =>
    /\ Len(events) < MaxEvents => Len(queue) < QueueSize
    /\ closing = "open" => Len(queue) < QueueSize
    /\ transcript.state # "rejected"

(* A worker that starts its finally block seals the collector or dies: a   *)
(* writer thread that hangs or has failed does not hold it up.             *)
ShutdownSeals == (closing = "joining") ~> (closing = "sealed" \/ ~alive)

-----------------------------------------------------------------------------
(* Why a complete transcript is exact.  While nothing was dropped, the      *)
(* file, the item in hand and the queue up to the stop item spell out the   *)
(* events in order.                                                         *)
Unbroken == complete \/ QueueSize > MaxEvents
Taken == Len(file) + (IF inHand = 0 THEN 0 ELSE 1)
StopAfter(i) == \A j \in 1..i : queue[j] # Stop

ItemsRecorded ==
  /\ inHand <= Len(events)
  /\ \A i \in 1..Len(queue) : queue[i] <= Len(events)
  /\ \A i \in 1..Len(file) : file[i] <= Len(events)
  /\ \A i \in 1..Len(transcript.events) : transcript.events[i] <= Len(events)
NoneDropped == complete => Len(events) = offered
FileInOrder ==
  Unbroken => /\ Contiguous(file)
              /\ inHand # 0 => inHand = Len(file) + 1
QueueInOrder ==
  Unbroken /\ writer = "running" =>
    /\ \A i \in 1..Len(queue) : StopAfter(i) => queue[i] = Taken + i
    /\ StopAfter(Len(queue)) => Taken + Len(queue) = Len(events)
QueueBounded ==
  Len(queue) <= Len(events) + (IF closing = "open" THEN 0 ELSE 1)
WriterJoined ==
  /\ writer = "failed" => writerFailed
  /\ closing \in {"joined", "sealed"} => writerFailed \/ writer # "running"
SealedFile ==
  closing = "sealed" /\ status.complete =>
    /\ writer # "running"
    /\ status.count = status.offered
    /\ Contiguous(file)
StatusBound ==
  /\ closing # "sealed" => status = NoStatus
  /\ status.count <= Len(events)
TranscriptRead ==
  transcript.state = "complete" =>
    /\ closing = "sealed"
    /\ Len(transcript.events) = status.count
NotRejected == QueueSize > MaxEvents => transcript.state # "rejected"

(* The inductive invariant of the channel.                                  *)
ChannelInv ==
  /\ TypeOK
  /\ ItemsRecorded
  /\ NoneDropped /\ FileInOrder /\ QueueInOrder /\ QueueBounded
  /\ WriterJoined /\ SealedFile /\ StatusBound /\ TranscriptRead
  /\ SealedTranscriptExact /\ NotRejected
-----------------------------------------------------------------------------
(* The channel as its reader sees it.  Recording stops at the snapshot:     *)
(* what a merchant thread emits later reaches no transcript.                *)
RecordedEvents ==
  IF closing = "sealed" THEN SubSeq(events, 1, status.count) ELSE events
SealState ==
  IF transcript.state = "rejected" THEN "incomplete"
  ELSE IF transcript.state # "none" THEN transcript.state
  ELSE IF closing = "sealed" THEN "frozen" ELSE "open"
PublishedEvents ==
  [i \in 1..Len(transcript.events) |-> events[transcript.events[i]]]

Abstract == INSTANCE SealedTranscript WITH
  recorded <- RecordedEvents, seal <- SealState, published <- PublishedEvents

(* The channel implements the sealed transcript.                            *)
ImplementsSealedTranscript == Abstract!SealSpec
=============================================================================
