------------------------------ MODULE CallAudio ------------------------------
(***************************************************************************)
(* One direction of CallAudio (packages/runtime/src/audio.ts): resampler   *)
(* (packages/audio/src/resampler.ts), bounded queue and pacer              *)
(* (packages/audio/src/index.ts) on a 5 ms timer that fires late.  "in" is *)
(* the phone's audio on its way to Live, "out" Live's on its way to the    *)
(* phone; the two meet only in failed(), which ends both.                  *)
(*                                                                         *)
(* Times are relative to the present, in timer periods; amounts are bytes, *)
(* two to a sample.  Both rates are the same: a resampler's whole samples  *)
(* come out in pieces of any length.                                       *)
(***************************************************************************)
EXTENDS Integers

CONSTANTS
  PhonePeriod,   \* duration of the phone's frames, in timer periods
  LivePeriod,    \* 20 ms
  FrameBytes,    \* bytesPerFrame
  Capacity,      \* 500 ms of bytes
  PipeLimit,     \* the resampler's maxBufferedBytes
  ProcessBuffer, \* bytes the process and its pipes hold before they take no more
  MaxGap         \* bound: how late the timer fires

Long == 9   \* longer than any frame duration, in timer periods

\* Frames are whole samples; the audio route's buffers and durations are set in the code.
ASSUME AudioAssumption ==
  /\ PhonePeriod \in 1 .. Long /\ LivePeriod \in 1 .. Long
  /\ FrameBytes \in Nat /\ FrameBytes % 2 = 0
  /\ Capacity \in Nat /\ PipeLimit \in Nat /\ ProcessBuffer \in Nat /\ MaxGap \in Nat

VARIABLES
  route,    \* direction, resampled or not, running, failed or closed
  queue,    \* bytes pending, and whether half a sample was taken
  pipe,     \* bytes written, a half sample kept back, bytes to come, bytes fed in halves
  pace      \* time until due, time since the last two frames, a write in flight

audioVars == <<route, queue, pipe, pace>>

Period == IF route.direction = "in" THEN LivePeriod ELSE PhonePeriod

NoQueue == [bytes |-> 0, split |-> FALSE]
NoPipe == [waiting |-> 0, trailing |-> 0, output |-> 0, split |-> FALSE]

AudioInit ==
  /\ \E d \in {"in", "out"}, r \in BOOLEAN : route = [direction |-> d, resampled |-> r, state |-> "running"]
  /\ queue = NoQueue /\ pipe = NoPipe
  /\ pace = [due |-> 0, started |-> FALSE, last |-> Long, before |-> Long, burst |-> FALSE, writing |-> FALSE]

Running == route.state = "running"

\* close(): the pacers stop, the queues are cleared, the resamplers destroyed.
Stops(state) ==
  /\ route' = [route EXCEPT !.state = state]
  /\ queue' = [queue EXCEPT !.bytes = 0]
  /\ pipe' = [NoPipe EXCEPT !.split = pipe.split]

Fails == Stops("failed") /\ UNCHANGED pace
CloseAudio == Running /\ Stops("closed") /\ UNCHANGED pace

\* enqueue(): a full queue fails the route.
Enqueue(n, p) ==
  IF queue.bytes + n > Capacity THEN Fails
  ELSE queue' = [queue EXCEPT !.bytes = @ + n] /\ pipe' = p /\ UNCHANGED <<route, pace>>

\* receive() and play() without a resampler.
Direct(n) == Running /\ ~route.resampled /\ Enqueue(n, pipe)

\* With one: FfmpegResampler.write, which says when its buffer is full.
Write(n) ==
  /\ Running /\ route.resampled
  /\ IF pipe.waiting + n >= PipeLimit THEN Fails
     ELSE pipe' = [pipe EXCEPT !.waiting = @ + n] /\ UNCHANGED <<route, queue, pace>>

\* Faulty: chunks go to the process as they come.
FeedHalves(p) ==
  [p EXCEPT !.waiting = 0, !.output = @ + p.waiting, !.split = @ # (p.waiting % 2 = 1)]

\* _write: whole samples to the process, a half one kept for the next chunk.
Fed(p) ==
  LET length == p.trailing + p.waiting
      whole == 2 * (length \div 2)
  IN [p EXCEPT !.waiting = 0, !.trailing = length % 2, !.output = @ + whole,
               !.split = @ # (whole % 2 = 1)]

Feed ==
  /\ Running /\ pipe.waiting > 0 /\ pipe.output < ProcessBuffer
  /\ pipe' = Fed(pipe) /\ UNCHANGED <<route, queue, pace>>

\* The process answers in pieces; it may also fail, or end early.
Resampled(n) ==
  /\ Running /\ n <= pipe.output
  /\ IF n > PipeLimit THEN Fails ELSE Enqueue(n, [pipe EXCEPT !.output = @ - n])
ResamplerFails == Running /\ route.resampled /\ Fails

\* PcmFrameQueue.take(true): a frame, or the whole samples there are and silence.
Take(q) ==
  LET n == IF q.bytes < FrameBytes THEN 2 * (q.bytes \div 2) ELSE FrameBytes
  IN [bytes |-> q.bytes - n, split |-> q.split # (n % 2 = 1)]

\* The nominal clock stands unless a whole slot was missed.
NextDue(due) == IF due + Period > 0 THEN due + Period ELSE Period

Older(age, gap) == IF age + gap > Long THEN Long ELSE age + gap

\* One timer callback, gap periods after the last: at most one frame.  A frame
\* that comes while the last is still being written, or cannot be written,
\* fails the route, as may the other direction's.
Tick(gap) ==
  LET due == IF pace.started THEN pace.due - gap ELSE 0
      older == [pace EXCEPT !.due = due, !.last = Older(@, gap), !.before = Older(@, gap)]
  IN
  /\ Running
  /\ \/ /\ pace.started /\ due > 0
        /\ pace' = older /\ UNCHANGED <<route, queue, pipe>>
     \/ /\ ~pace.started \/ due <= 0
        /\ ~pace.writing
        /\ queue' = Take(queue)
        /\ pace' = [due |-> NextDue(due), started |-> TRUE, last |-> 0, before |-> older.last,
                    burst |-> older.before < Period, writing |-> route.direction = "out"]
        /\ UNCHANGED <<route, pipe>>
     \/ Fails

WriteSettles ==
  /\ pace.writing /\ pace' = [pace EXCEPT !.writing = FALSE]
  /\ UNCHANGED <<route, queue, pipe>> \/ (Running /\ Stops("failed"))

AudioNext ==
  \/ Feed \/ ResamplerFails \/ WriteSettles \/ CloseAudio
  \/ \E n \in 1..FrameBytes : Direct(n) \/ Write(n)
  \/ \E n \in 1..(PipeLimit + 1) : Resampled(n)
  \/ \E gap \in 1..MaxGap : Tick(gap)

\* However late the timer fires (PcmPacer.tick, audio/src/index.ts:54), no three
\* frames of a direction go out within the duration of one.
NoBursts == ~pace.burst

\* Chunks of any length keep their samples together: what the resampler was fed
\* and what the frames took (resampler.ts:68, index.ts:36) is whole samples.
SamplesAreWhole == ~queue.split /\ ~pipe.split

\* Late timers, overflowing queues and chunks that split a sample never reach the
\* other side as a burst of frames or as shifted samples.
AudioIsKept == NoBursts /\ SamplesAreWhole
=============================================================================
