---------------------- MODULE ObservationChannelProofs ----------------------
(***************************************************************************)
(* Proofs about the observation channel, for any limits and any number of  *)
(* emissions.  ChannelInv is inductive; exactness of a sealed transcript   *)
(* and the refinement of SealedTranscript follow from it.                  *)
(***************************************************************************)
EXTENDS ObservationChannel, TLAPS

(* The initial state of the channel satisfies its invariant.                *)
LEMMA InitInv == ChannelInit => ChannelInv
<1> SUFFICES ASSUME ChannelInit PROVE ChannelInv
  OBVIOUS
<1> USE ChannelAssumption DEF ChannelAssumption, ChannelInit, NoStatus, NoTranscript
<1>1. TypeOK
  <2>1. << >> \in Seq(Observations) /\ << >> \in Seq(0..MaxEvents) /\ << >> \in Seq(1..MaxEvents)
    OBVIOUS
  <2>2. status \in StatusRecord
    BY DEF StatusRecord
  <2>3. transcript \in Transcripts
    BY <2>1 DEF Transcripts
  <2>4. Len(events) <= MaxEvents
    OBVIOUS
  <2>5. offered \in 0..MaxOffers /\ inHand \in 0..MaxEvents
    OBVIOUS
  <2> QED
    BY <2>1, <2>2, <2>3, <2>4, <2>5 DEF TypeOK, ClosingSteps
<1>2. Len(queue) = 0 /\ Len(file) = 0 /\ Len(events) = 0 /\ Len(transcript.events) = 0
  OBVIOUS
<1>3. ItemsRecorded /\ NoneDropped /\ FileInOrder /\ QueueBounded /\ WriterJoined
  BY <1>2 DEF Contiguous, ItemsRecorded, NoneDropped, FileInOrder, QueueBounded, WriterJoined
<1>4. QueueInOrder
  BY <1>2 DEF QueueInOrder, Taken, StopAfter
<1>5. SealedFile /\ StatusBound /\ TranscriptRead /\ SealedTranscriptExact
  BY <1>2 DEF SealedFile, StatusBound, TranscriptRead, SealedTranscriptExact
<1>6. NotRejected
  BY DEF NotRejected
<1> QED
  BY <1>1, <1>3, <1>4, <1>5, <1>6 DEF ChannelInv

(* Every step of the channel keeps its types.                               *)
LEMMA TypeStep == TypeOK /\ [ChannelNext]_channelVars => TypeOK'
<1> SUFFICES ASSUME TypeOK, [ChannelNext]_channelVars PROVE TypeOK'
  OBVIOUS
<1> USE ChannelAssumption DEF ChannelAssumption, TypeOK, StatusRecord, Transcripts, ClosingSteps, Stop,
      collectorVars, writerVars, sealVars
<1>1. ASSUME NEW observation \in Observations, Emit(observation) PROVE TypeOK'
  <2> USE <1>1 DEF Emit, CollectorFull
  <2>1. offered' \in 0..MaxOffers
    OBVIOUS
  <2>2. CASE EmitOverflow
    BY <2>1, <2>2 DEF EmitOverflow
  <2>3. CASE EmitQueued(observation)
    <3>1. Len(events) + 1 \in 0..MaxEvents
      BY <2>3 DEF EmitQueued
    <3> QED
      BY <2>1, <2>3, <3>1 DEF EmitQueued
  <2>4. CASE EmitSinkFull(observation)
    <3>1. Len(events) + 1 \in 0..MaxEvents
      BY <2>4 DEF EmitSinkFull
    <3>2. events' \in Seq(Observations) /\ Len(events') <= MaxEvents
      BY <2>4, <3>1 DEF EmitSinkFull
    <3> QED
      BY <2>1, <2>4, <3>2 DEF EmitSinkFull
  <2> QED
    BY <2>2, <2>3, <2>4
<1>2. CASE CollectorFail
  BY <1>2 DEF CollectorFail
<1>3. CASE WriterStop
  BY <1>3 DEF WriterStop
<1>4. CASE WriterTake
  BY <1>4 DEF WriterTake
<1>5. CASE WriterWrite
  BY <1>5 DEF WriterWrite
<1>6. CASE WriterRaise
  <2>1. torn' \in BOOLEAN
    BY <1>6 DEF WriterRaise
  <2> QED
    BY <1>6, <2>1 DEF WriterRaise
<1>7. CASE PutStop
  BY <1>7 DEF PutStop
<1>8. CASE PutStopTimeout
  BY <1>8 DEF PutStopTimeout
<1>9. CASE Join \/ JoinTimeout
  BY <1>9 DEF Join, JoinTimeout
<1>10. CASE Snapshot
  BY <1>10 DEF Snapshot
<1>11. CASE WorkerExit \/ WorkerKilled
  BY <1>11 DEF WorkerExit, WorkerKilled
<1>12. ASSUME NEW parentComplete \in BOOLEAN, ReadBack(parentComplete) PROVE TypeOK'
  BY <1>12 DEF ReadBack
<1>13. CASE UNCHANGED channelVars
  BY <1>13 DEF channelVars
<1> QED
  BY <1>1, <1>2, <1>3, <1>4, <1>5, <1>6, <1>7, <1>8, <1>9, <1>10, <1>11, <1>12, <1>13
     DEF ChannelNext


(* Every step of the channel keeps its invariant.                            *)
LEMMA InvStep == ChannelInv /\ [ChannelNext]_channelVars => ChannelInv'
<1> SUFFICES ASSUME ChannelInv, [ChannelNext]_channelVars PROVE ChannelInv'
  OBVIOUS
<1>0. TypeOK /\ TypeOK'
  BY TypeStep DEF ChannelInv
<1>a. /\ events \in Seq(Observations) /\ events' \in Seq(Observations)
      /\ queue \in Seq(Nat) /\ queue' \in Seq(Nat)
      /\ file \in Seq(Nat) /\ file' \in Seq(Nat)
      /\ transcript.events \in Seq(Nat)
      /\ inHand \in Nat /\ inHand' \in Nat /\ offered \in Nat
      /\ Len(events) \in Nat /\ Len(queue) \in Nat /\ Len(file) \in Nat
  <2>1. /\ queue \in Seq(0..MaxEvents) /\ queue' \in Seq(0..MaxEvents)
        /\ file \in Seq(1..MaxEvents) /\ file' \in Seq(1..MaxEvents)
        /\ transcript.events \in Seq(1..MaxEvents)
        /\ inHand \in Nat /\ inHand' \in Nat /\ offered \in Nat
        /\ events \in Seq(Observations) /\ events' \in Seq(Observations)
    BY <1>0 DEF TypeOK, Transcripts
  <2>2. \A s : s \in Seq(0..MaxEvents) \/ s \in Seq(1..MaxEvents) => s \in Seq(Nat)
    BY ChannelAssumption DEF ChannelAssumption
  <2> QED
    BY <2>1, <2>2
<1>b. /\ ItemsRecorded /\ NoneDropped /\ FileInOrder /\ QueueInOrder /\ QueueBounded
      /\ WriterJoined /\ SealedFile /\ StatusBound /\ TranscriptRead
      /\ SealedTranscriptExact /\ NotRejected
  BY DEF ChannelInv
<1> USE <1>0 DEF ChannelInv, Contiguous, Unbroken, collectorVars, writerVars, sealVars, Stop
<1>1. ASSUME NEW observation \in Observations, Emit(observation) PROVE ChannelInv'
  <2> USE <1>1 DEF Emit
  <2>1. (WriterJoined /\ SealedFile /\ TranscriptRead /\ SealedTranscriptExact /\ NotRejected)'
    BY <1>b DEF WriterJoined, SealedFile, TranscriptRead, SealedTranscriptExact, NotRejected
  <2>2. CASE EmitOverflow
    <3> USE <2>2 DEF EmitOverflow
    <3>1. (ItemsRecorded /\ QueueBounded /\ StatusBound)'
      BY <1>b DEF ItemsRecorded, QueueBounded, StatusBound
    <3>2. (NoneDropped /\ FileInOrder /\ QueueInOrder)'
      BY <1>b DEF NoneDropped, FileInOrder, QueueInOrder, StopAfter, Taken
    <3> QED
      BY <2>1, <3>1, <3>2
  <2>3. CASE EmitQueued(observation)
    <3> USE <2>3 DEF EmitQueued
    <3>1. /\ Len(events') = Len(events) + 1
          /\ Len(queue') = Len(queue) + 1
          /\ \A i \in 1..Len(queue) : queue'[i] = queue[i]
          /\ queue'[Len(queue')] = Len(events')
      BY <1>a
    <3>2. ItemsRecorded'
      <4>1. \A n \in Nat : n <= Len(events) => n <= Len(events')
        BY <1>a, <3>1
      <4>2. \A i \in 1..Len(queue') : queue'[i] <= Len(events')
        <5>1. ASSUME NEW i \in 1..Len(queue) PROVE queue'[i] <= Len(events')
          BY <1>a, <1>b, <3>1, <4>1 DEF ItemsRecorded
        <5> QED
          BY <1>a, <3>1, <5>1
      <4>3. /\ inHand <= Len(events')
            /\ \A i \in 1..Len(file) : file[i] <= Len(events')
            /\ \A i \in 1..Len(transcript.events) : transcript.events[i] <= Len(events')
        BY <1>a, <1>b, <4>1 DEF ItemsRecorded
      <4> QED
        BY <4>2, <4>3 DEF ItemsRecorded
    <3>3. QueueInOrder'
      <4> SUFFICES ASSUME Unbroken, writer = "running" PROVE QueueInOrder'
        BY DEF QueueInOrder
      <4>1. Taken' = Taken /\ Taken \in Nat
        BY <1>a DEF Taken
      <4>5. StopAfter(Len(queue)) => Taken + Len(queue) = Len(events)
        BY <1>b DEF QueueInOrder
      <4>2. ASSUME NEW n \in 0..Len(queue'), StopAfter(n)'
            PROVE IF n <= Len(queue) THEN StopAfter(n) ELSE StopAfter(Len(queue))
        BY <1>a, <3>1, <4>2 DEF StopAfter
      <4>3. ASSUME NEW i \in 1..Len(queue'), StopAfter(i)' PROVE queue'[i] = Taken + i
        <5>1. CASE i \in 1..Len(queue)
          BY <1>a, <1>b, <3>1, <4>2, <4>3, <5>1 DEF QueueInOrder
        <5>2. CASE i = Len(queue')
          <6>1. StopAfter(Len(queue))
            BY <1>a, <3>1, <4>2, <4>3, <5>2
          <6> QED
            BY <1>a, <3>1, <4>1, <4>5, <5>2, <6>1
        <5> QED
          BY <1>a, <3>1, <5>1, <5>2
      <4>4. StopAfter(Len(queue))' => Taken + Len(queue') = Len(events')
        <5> SUFFICES ASSUME StopAfter(Len(queue))' PROVE Taken + Len(queue') = Len(events')
          OBVIOUS
        <5>1. StopAfter(Len(queue))
          BY <1>a, <3>1, <4>2
        <5> HIDE <1>0, <1>1, <2>3
        <5>2. Taken + Len(queue) = Len(events)
          BY <4>5, <5>1
        <5>3. Taken + (Len(queue) + 1) = Len(events) + 1
          BY <1>a, <4>1, <5>2
        <5> QED
          BY <3>1, <5>3
      <4> QED
        BY <4>1, <4>3, <4>4 DEF QueueInOrder
    <3>4. (QueueBounded /\ StatusBound)'
      BY <1>a, <1>b, <3>1, <1>0 DEF QueueBounded, StatusBound, TypeOK, StatusRecord
    <3>5. (NoneDropped /\ FileInOrder)'
      BY <1>a, <1>b, <3>1 DEF NoneDropped, FileInOrder
    <3> QED
      BY <2>1, <3>2, <3>3, <3>4, <3>5
  <2>4. CASE EmitSinkFull(observation)
    <3> USE <2>4 DEF EmitSinkFull
    <3>1. Len(events') = Len(events) + 1
      BY <1>a
    <3>2. ItemsRecorded'
      <4>1. \A n \in Nat : n <= Len(events) => n <= Len(events')
        BY <1>a, <3>1
      <4> QED
        BY <1>a, <1>b, <4>1 DEF ItemsRecorded
    <3>3. (NoneDropped /\ FileInOrder /\ QueueInOrder)'
      <4>1. ~Unbroken'
        BY <1>a, <1>b, ChannelAssumption DEF CollectorFull, QueueBounded, ChannelAssumption
      <4> QED
        BY <4>1 DEF NoneDropped, FileInOrder, QueueInOrder
    <3>4. (QueueBounded /\ StatusBound)'
      BY <1>a, <1>b, <3>1, <1>0 DEF QueueBounded, StatusBound, TypeOK, StatusRecord
    <3> QED
      BY <2>1, <3>2, <3>3, <3>4
  <2> QED
    BY <2>2, <2>3, <2>4
<1>2. CASE CollectorFail
  BY <1>2, <1>b DEF CollectorFail, ItemsRecorded, NoneDropped, FileInOrder, QueueInOrder,
     StopAfter, Taken, QueueBounded, WriterJoined, SealedFile, StatusBound, TranscriptRead,
     SealedTranscriptExact, NotRejected
<1>3. CASE WriterStop
  <2> USE <1>3 DEF WriterStop
  <2>1. Len(queue') = Len(queue) - 1 /\ \A i \in 1..Len(queue') : queue'[i] = queue[i + 1]
    BY <1>a
  <2>2. (ItemsRecorded /\ QueueBounded)'
    <3>1. ItemsRecorded'
      BY <1>a, <1>b, <2>1 DEF ItemsRecorded
    <3> QED
      BY <1>a, <1>b, <2>1, <3>1 DEF QueueBounded
  <2>3. (NoneDropped /\ FileInOrder /\ QueueInOrder /\ WriterJoined)'
    BY <1>b DEF NoneDropped, FileInOrder, QueueInOrder, WriterJoined
  <2>4. (SealedFile /\ StatusBound /\ TranscriptRead /\ SealedTranscriptExact /\ NotRejected)'
    BY <1>b DEF SealedFile, StatusBound, TranscriptRead, SealedTranscriptExact, NotRejected
  <2> QED
    BY <2>2, <2>3, <2>4
<1>4. CASE WriterTake
  <2> USE <1>4 DEF WriterTake
  <2>1. /\ Len(queue) >= 1
        /\ Len(queue') = Len(queue) - 1
        /\ \A i \in 1..Len(queue') : queue'[i] = queue[i + 1]
        /\ inHand' = queue[1] /\ queue[1] # 0
    BY <1>a
  <2>2. (ItemsRecorded /\ QueueBounded)'
    <3>1. ItemsRecorded'
      BY <1>a, <1>b, <2>1 DEF ItemsRecorded
    <3> QED
      BY <1>a, <1>b, <2>1, <3>1 DEF QueueBounded
  <2>3. FileInOrder'
    BY <1>a, <1>b, <2>1 DEF FileInOrder, QueueInOrder, StopAfter, Taken
  <2>4. QueueInOrder'
    <3> SUFFICES ASSUME Unbroken PROVE QueueInOrder'
      BY DEF QueueInOrder
    <3>1. Taken' = Taken + 1 /\ Taken \in Nat
      BY <1>a, <2>1 DEF Taken
    <3>2. ASSUME NEW n \in 0..Len(queue'), StopAfter(n)' PROVE StopAfter(n + 1)
      <4>1. \A j \in 1..n : queue[j + 1] # 0
        BY <1>a, <2>1, <3>2 DEF StopAfter
      <4>2. ASSUME NEW j \in 1..(n + 1) PROVE queue[j] # 0
        <5>1. CASE j = 1
          BY <2>1, <5>1
        <5>2. CASE j - 1 \in 1..n
          <6>1. queue[(j - 1) + 1] # 0
            BY <4>1, <5>2
          <6> QED
            BY <6>1
        <5> QED
          BY <1>a, <2>1, <5>1, <5>2
      <4> QED
        BY <4>2 DEF StopAfter
    <3>3. ASSUME NEW i \in 1..Len(queue'), StopAfter(i)' PROVE queue'[i] = Taken' + i
      <4>1. StopAfter(i + 1) /\ i + 1 \in 1..Len(queue)
        BY <1>a, <2>1, <3>2, <3>3
      <4>2. queue[i + 1] = Taken + (i + 1)
        BY <1>b, <4>1 DEF QueueInOrder
      <4> QED
        BY <1>a, <2>1, <3>1, <4>2
    <3>4. StopAfter(Len(queue))' => Taken' + Len(queue') = Len(events')
      <4> SUFFICES ASSUME StopAfter(Len(queue))' PROVE Taken' + Len(queue') = Len(events')
        OBVIOUS
      <4>1. StopAfter(Len(queue))
        BY <1>a, <2>1, <3>2
      <4> QED
        BY <1>a, <1>b, <2>1, <3>1, <4>1 DEF QueueInOrder
    <3> QED
      BY <3>3, <3>4 DEF QueueInOrder
  <2>5. (NoneDropped /\ WriterJoined /\ SealedFile)'
    BY <1>b DEF NoneDropped, WriterJoined, SealedFile
  <2>6. (StatusBound /\ TranscriptRead /\ SealedTranscriptExact /\ NotRejected)'
    BY <1>b DEF StatusBound, TranscriptRead, SealedTranscriptExact, NotRejected
  <2> QED
    BY <2>2, <2>3, <2>4, <2>5, <2>6
<1>5. CASE WriterWrite
  <2> USE <1>5 DEF WriterWrite
  <2>1. /\ Len(file') = Len(file) + 1
        /\ \A i \in 1..Len(file) : file'[i] = file[i]
        /\ file'[Len(file')] = inHand
    BY <1>a
  <2>2. (ItemsRecorded /\ FileInOrder)'
    BY <1>a, <1>b, <2>1 DEF ItemsRecorded, FileInOrder
  <2>3. Taken' = Taken
    BY <1>a, <2>1 DEF Taken
  <2>4. QueueInOrder'
    BY <1>b, <2>3 DEF QueueInOrder, StopAfter
  <2>5. (NoneDropped /\ QueueBounded /\ WriterJoined /\ SealedFile)'
    BY <1>b DEF NoneDropped, QueueBounded, WriterJoined, SealedFile
  <2>6. (StatusBound /\ TranscriptRead /\ SealedTranscriptExact /\ NotRejected)'
    BY <1>b DEF StatusBound, TranscriptRead, SealedTranscriptExact, NotRejected
  <2> QED
    BY <2>2, <2>4, <2>5, <2>6
<1>6. CASE WriterRaise
  BY <1>6, <1>a, <1>b DEF WriterRaise, ItemsRecorded, NoneDropped, FileInOrder,
     QueueInOrder, QueueBounded, WriterJoined, SealedFile, StatusBound, TranscriptRead,
     SealedTranscriptExact, NotRejected
<1>7. CASE PutStop
  <2> USE <1>7 DEF PutStop
  <2>1. /\ Len(queue') = Len(queue) + 1
        /\ \A i \in 1..Len(queue) : queue'[i] = queue[i]
        /\ queue'[Len(queue')] = Stop
    BY <1>a
  <2>2. (ItemsRecorded /\ QueueBounded)'
    <3>1. ItemsRecorded'
      BY <1>a, <1>b, <2>1 DEF ItemsRecorded
    <3> QED
      BY <1>a, <1>b, <2>1, <3>1 DEF QueueBounded
  <2>3. Taken' = Taken
    BY DEF Taken
  <2>4. QueueInOrder'
    BY <1>a, <1>b, <2>1, <2>3 DEF QueueInOrder, StopAfter
  <2>5. (NoneDropped /\ FileInOrder /\ WriterJoined /\ SealedFile)'
    BY <1>b DEF NoneDropped, FileInOrder, WriterJoined, SealedFile
  <2>6. (StatusBound /\ TranscriptRead /\ SealedTranscriptExact /\ NotRejected)'
    BY <1>b DEF StatusBound, TranscriptRead, SealedTranscriptExact, NotRejected
  <2> QED
    BY <2>2, <2>4, <2>5, <2>6
<1>8. CASE PutStopTimeout
  BY <1>8, <1>a, <1>b DEF PutStopTimeout, ItemsRecorded, NoneDropped, FileInOrder,
     QueueInOrder, StopAfter, Taken, QueueBounded, WriterJoined, SealedFile, StatusBound,
     TranscriptRead, SealedTranscriptExact, NotRejected
<1>9. CASE Join \/ JoinTimeout
  <2> USE <1>9 DEF Join, JoinTimeout
  <2>1. (ItemsRecorded /\ NoneDropped /\ FileInOrder)'
    BY <1>b DEF ItemsRecorded, NoneDropped, FileInOrder
  <2>2. (QueueInOrder /\ QueueBounded)'
    <3>1. UNCHANGED <<events, complete, queue, writer, Taken>>
      BY DEF Taken
    <3>2. QueueInOrder'
      BY <1>b, <3>1 DEF QueueInOrder, StopAfter
    <3> QED
      BY <1>a, <1>b, <3>1, <3>2 DEF QueueBounded
  <2>4. (WriterJoined /\ SealedFile)'
    BY <1>b DEF WriterJoined, SealedFile
  <2>3. (StatusBound /\ TranscriptRead /\ SealedTranscriptExact /\ NotRejected)'
    BY <1>b DEF StatusBound, TranscriptRead, SealedTranscriptExact, NotRejected
  <2> QED
    BY <2>1, <2>2, <2>3, <2>4
<1>10. CASE Snapshot
  <2> USE <1>10 DEF Snapshot
  <2>1. /\ status'.count = Len(events) /\ status'.offered = offered
        /\ status'.complete = complete' /\ complete' => complete /\ ~writerFailed
    OBVIOUS
  <2>2. SealedFile'
    BY <1>b, <2>1 DEF SealedFile, NoneDropped, FileInOrder, WriterJoined
  <2>3. transcript.state # "complete"
    BY <1>b DEF TranscriptRead
  <2>4. (StatusBound /\ TranscriptRead /\ SealedTranscriptExact /\ NotRejected)'
    BY <1>a, <2>1, <2>3 DEF StatusBound, TranscriptRead, SealedTranscriptExact, NotRejected
  <2>5. (ItemsRecorded /\ QueueBounded /\ WriterJoined)'
    BY <1>b DEF ItemsRecorded, QueueBounded, WriterJoined
  <2>6. (NoneDropped /\ FileInOrder /\ QueueInOrder)'
    BY <1>b, <2>1 DEF NoneDropped, FileInOrder, QueueInOrder, StopAfter, Taken
  <2> QED
    BY <2>2, <2>4, <2>5, <2>6
<1>11. CASE WorkerExit \/ WorkerKilled
  <2> USE <1>11 DEF WorkerExit, WorkerKilled
  <2>1. (ItemsRecorded /\ NoneDropped /\ FileInOrder)'
    BY <1>b DEF ItemsRecorded, NoneDropped, FileInOrder
  <2>2. (QueueInOrder /\ QueueBounded)'
    <3>1. UNCHANGED <<events, complete, queue, writer, Taken>>
      BY DEF Taken
    <3>2. QueueInOrder'
      BY <1>b, <3>1 DEF QueueInOrder, StopAfter
    <3> QED
      BY <1>a, <1>b, <3>1, <3>2 DEF QueueBounded
  <2>4. (WriterJoined /\ SealedFile)'
    BY <1>b DEF WriterJoined, SealedFile
  <2>3. (StatusBound /\ TranscriptRead /\ SealedTranscriptExact /\ NotRejected)'
    BY <1>b DEF StatusBound, TranscriptRead, SealedTranscriptExact, NotRejected
  <2> QED
    BY <2>1, <2>2, <2>3, <2>4
<1>12. ASSUME NEW parentComplete \in BOOLEAN, ReadBack(parentComplete) PROVE ChannelInv'
  <2> USE <1>12 DEF ReadBack
  <2>1. transcript'.events = file
    OBVIOUS
  <2>2. transcript'.state = "complete" => StatusAccepted /\ ReadBackIntact
    OBVIOUS
  <2>3. (TranscriptRead /\ SealedTranscriptExact /\ NotRejected)'
    BY <1>b, <2>1, <2>2
       DEF FileInOrder, StatusAccepted, ReadBackIntact, SealedFile, TranscriptRead, SealedTranscriptExact, NotRejected
  <2>4. ItemsRecorded'
    BY <1>b, <2>1 DEF ItemsRecorded
  <2>5. (NoneDropped /\ FileInOrder /\ QueueInOrder /\ QueueBounded)'
    BY <1>b DEF NoneDropped, FileInOrder, QueueInOrder, StopAfter, Taken, QueueBounded
  <2>6. (WriterJoined /\ SealedFile /\ StatusBound)'
    BY <1>b DEF WriterJoined, SealedFile, StatusBound
  <2> QED
    BY <2>3, <2>4, <2>5, <2>6
<1>13. CASE UNCHANGED channelVars
  BY <1>13, <1>b DEF channelVars, ItemsRecorded, NoneDropped, FileInOrder, QueueInOrder,
     StopAfter, Taken, QueueBounded, WriterJoined, SealedFile, StatusBound, TranscriptRead,
     SealedTranscriptExact, NotRejected
<1> QED
  BY <1>1, <1>2, <1>3, <1>4, <1>5, <1>6, <1>7, <1>8, <1>9, <1>10, <1>11, <1>12, <1>13
     DEF ChannelNext

(* The channel's invariant holds for every MaxEvents, QueueSize and number *)
(* of emissions.                                                            *)
THEOREM ChannelInvariant == ChannelSpec => []ChannelInv
<1>1. ChannelInit => ChannelInv
  BY InitInv
<1>2. ChannelInv /\ [ChannelNext]_channelVars => ChannelInv'
  BY InvStep
<1> QED
  BY <1>1, <1>2, PTL DEF ChannelSpec

(* Every variable of the channel keeps its type.                            *)
THEOREM ChannelTypes == ChannelSpec => []TypeOK
<1>1. ChannelInv => TypeOK
  BY DEF ChannelInv
<1> QED
  BY <1>1, ChannelInvariant, PTL

(* A transcript marked complete holds every observation offered before the  *)
(* seal, once and in order: emit, _ObservationWriter, close, _read_events.  *)
THEOREM CompleteTranscriptIsExact == ChannelSpec => []SealedTranscriptExact
<1>1. ChannelInv => SealedTranscriptExact
  BY DEF ChannelInv
<1> QED
  BY <1>1, ChannelInvariant, PTL

(* With a queue one larger than the collector, as in the code, no put meets *)
(* a full queue and no transcript is rejected for a gap.                    *)
THEOREM StopAlwaysFits == ChannelSpec => []NeverFullNeverRejected
<1>1. ChannelInv => NeverFullNeverRejected
  <2> SUFFICES ASSUME ChannelInv PROVE NeverFullNeverRejected
    OBVIOUS
  <2>1. Len(queue) \in Nat /\ Len(events) \in Nat /\ Len(events) <= MaxEvents
    BY DEF ChannelInv, TypeOK
  <2> QED
    BY <2>1, ChannelAssumption DEF ChannelAssumption, ChannelInv, QueueBounded, NotRejected,
       NeverFullNeverRejected
<1> QED
  BY <1>1, ChannelInvariant, PTL
-----------------------------------------------------------------------------
(* What a prefix of the events spells does not change when one is appended. *)
LEMMA PrefixStable ==
  ASSUME NEW S, NEW s \in Seq(S), NEW e \in S, NEW n \in Nat, n <= Len(s)
  PROVE  SubSeq(Append(s, e), 1, n) = SubSeq(s, 1, n)
OBVIOUS

(* The channel starts as an open sealed transcript.                          *)
LEMMA AbstractInit == ChannelInit => Abstract!SealInit
BY DEF ChannelInit, NoTranscript, NoStatus, Abstract!SealInit, RecordedEvents, SealState,
       PublishedEvents

(* Every step of the channel is a step of the sealed transcript or a stutter *)
LEMMA AbstractStep ==
  ASSUME ChannelInv, ChannelInv', [ChannelNext]_channelVars
  PROVE  [Abstract!SealNext]_(Abstract!svars)
<1>a. /\ events \in Seq(Observations) /\ Len(events) \in Nat
      /\ status.count \in Nat /\ status.count <= Len(events)
      /\ transcript.events \in Seq(Nat)
      /\ \A i \in 1..Len(transcript.events) : transcript.events[i] \in 1..Len(events)
      /\ file \in Seq(Nat) /\ \A i \in 1..Len(file) : file[i] \in 1..Len(events)
      /\ transcript.state \in {"none", "complete", "incomplete", "rejected"}
  <2>1. /\ events \in Seq(Observations) /\ file \in Seq(1..MaxEvents)
        /\ transcript.events \in Seq(1..MaxEvents)
        /\ transcript.state \in {"none", "complete", "incomplete", "rejected"}
        /\ status.count \in Nat
    BY DEF ChannelInv, TypeOK, Transcripts, StatusRecord
  <2>2. ItemsRecorded /\ status.count <= Len(events)
    BY DEF ChannelInv, StatusBound
  <2>3. Len(events) \in Nat
    BY <2>1
  <2>4. ASSUME NEW s \in Seq(1..MaxEvents), \A i \in 1..Len(s) : s[i] <= Len(events)
        PROVE  s \in Seq(Nat) /\ \A i \in 1..Len(s) : s[i] \in 1..Len(events)
    BY <2>3, <2>4, ChannelAssumption DEF ChannelAssumption
  <2> QED
    BY <2>1, <2>2, <2>3, <2>4 DEF ItemsRecorded
<1>b. transcript.state = "complete" => closing = "sealed"
  BY DEF ChannelInv, TranscriptRead
<1> USE DEF collectorVars, writerVars, sealVars, Abstract!svars
<1>1. ASSUME UNCHANGED <<events, transcript, status>>,
             closing' = closing \/ (closing # "sealed" /\ closing' # "sealed")
      PROVE  UNCHANGED Abstract!svars
  BY <1>1 DEF RecordedEvents, SealState, PublishedEvents
<1>2. ASSUME NEW observation \in Observations, Emit(observation)
      PROVE  [Abstract!SealNext]_(Abstract!svars)
  <2> USE <1>2 DEF Emit
  <2>1. CASE EmitOverflow
    BY <1>1, <2>1 DEF EmitOverflow
  <2>2. CASE EmitQueued(observation) \/ EmitSinkFull(observation)
    <3>1. events' = Append(events, observation)
      BY <2>2 DEF EmitQueued, EmitSinkFull
    <3>2. SealState' = SealState /\ UNCHANGED <<status, transcript, closing>>
      BY DEF SealState
    <3>3. PublishedEvents' = PublishedEvents
      BY <1>a, <3>1, <3>2 DEF PublishedEvents
    <3>4. CASE closing = "sealed"
      <4>1. RecordedEvents' = RecordedEvents
        BY <1>a, <3>1, <3>2, <3>4, PrefixStable DEF RecordedEvents
      <4> QED
        BY <3>2, <3>3, <4>1
    <3>5. CASE closing # "sealed"
      <4>1. RecordedEvents = events /\ RecordedEvents' = Append(events, observation)
        BY <3>1, <3>2, <3>5 DEF RecordedEvents
      <4>2. SealState \in {"open", "incomplete"}
        BY <1>a, <1>b, <3>5 DEF SealState
      <4>3. Abstract!Record(observation)
        BY <3>2, <3>3, <4>1, <4>2 DEF Abstract!Record
      <4> QED
        BY <4>3 DEF Abstract!SealNext
    <3> QED
      BY <3>4, <3>5
  <2> QED
    BY <2>1, <2>2
<1>3. CASE Snapshot
  <2> USE <1>3 DEF Snapshot
  <2>1. RecordedEvents = events /\ RecordedEvents' = events
    BY <1>a DEF RecordedEvents
  <2>2. PublishedEvents' = PublishedEvents
    BY DEF PublishedEvents
  <2>3. CASE transcript.state = "none"
    <3>1. SealState = "open" /\ SealState' = "frozen"
      BY <2>3 DEF SealState
    <3>2. Abstract!Freeze
      BY <2>1, <2>2, <3>1 DEF Abstract!Freeze
    <3> QED
      BY <3>2 DEF Abstract!SealNext
  <2>4. CASE transcript.state # "none"
    <3>1. SealState' = SealState
      BY <2>4 DEF SealState
    <3> QED
      BY <2>1, <2>2, <3>1
  <2> QED
    BY <2>3, <2>4
<1>4. ASSUME NEW parentComplete \in BOOLEAN, ReadBack(parentComplete)
      PROVE  [Abstract!SealNext]_(Abstract!svars)
  <2> USE <1>4 DEF ReadBack
  <2>1. RecordedEvents' = RecordedEvents /\ transcript'.events = file
    BY DEF RecordedEvents
  <2>2. CASE transcript'.state = "complete"
    <3>1. /\ closing = "sealed" /\ status.complete /\ status.count = Len(file)
          /\ \A i \in 1..Len(file) : file[i] = i
      BY <2>2 DEF StatusAccepted, ReadBackIntact, Contiguous, ChannelInv, SealedFile
    <3>2. SealState = "frozen" /\ SealState' = "complete"
      BY <2>2, <3>1 DEF SealState
    <3>3. PublishedEvents' = [i \in 1..Len(file) |-> events[i]]
      BY <2>1, <3>1 DEF PublishedEvents
    <3>4. PublishedEvents' = RecordedEvents
      BY <1>a, <3>1, <3>3 DEF RecordedEvents
    <3>5. Abstract!PublishComplete
      BY <2>1, <3>2, <3>4 DEF Abstract!PublishComplete
    <3> QED
      BY <3>5 DEF Abstract!SealNext
  <2>3. CASE transcript'.state \in {"incomplete", "rejected"}
    <3>1. SealState \in {"open", "frozen"} /\ SealState' = "incomplete"
      BY <2>3 DEF SealState
    <3>2. PublishedEvents' \in Seq(Observations)
      BY <1>a, <2>1 DEF PublishedEvents
    <3>3. Abstract!PublishIncomplete
      BY <2>1, <3>1, <3>2 DEF Abstract!PublishIncomplete
    <3> QED
      BY <3>3 DEF Abstract!SealNext
  <2> QED
    BY <2>2, <2>3
<1>5. CASE CollectorFail \/ WriterStop \/ WriterTake \/ WriterWrite \/ WriterRaise
  BY <1>1, <1>5 DEF CollectorFail, WriterStop, WriterTake, WriterWrite, WriterRaise
<1>6. CASE PutStop \/ PutStopTimeout \/ Join \/ JoinTimeout \/ WorkerExit \/ WorkerKilled
  BY <1>1, <1>6 DEF PutStop, PutStopTimeout, Join, JoinTimeout, WorkerExit, WorkerKilled
<1>7. CASE UNCHANGED channelVars
  BY <1>1, <1>7 DEF channelVars
<1> QED
  BY <1>2, <1>3, <1>4, <1>5, <1>6, <1>7 DEF ChannelNext

(* The channel, with its collector, queue, writer thread, status record and *)
(* read-back, implements the sealed transcript its reader relies on.        *)
THEOREM ChannelImplementsSealedTranscript == ChannelSpec => ImplementsSealedTranscript
<1>1. ChannelInit => Abstract!SealInit
  BY AbstractInit
<1>2. ChannelInv /\ ChannelInv' /\ [ChannelNext]_channelVars
        => [Abstract!SealNext]_(Abstract!svars)
  BY AbstractStep
<1> QED
  BY <1>1, <1>2, ChannelInvariant, PTL
     DEF ChannelSpec, ImplementsSealedTranscript, Abstract!SealSpec
=============================================================================
