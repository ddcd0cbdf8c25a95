---------------------------- MODULE BytesBenchmark ----------------------------
(***************************************************************************)
(* The bytes benchmark: a talker that numbers and fills its frames, and a   *)
(* listener that counts the frames it missed and spot-checks the others     *)
(* (enterprise_bytes_talker.cpp, enterprise_bytes_listener.cpp).            *)
(*                                                                         *)
(* The channel between them is what FlatChannel promises, LatestWins: in    *)
(* order, and without the oldest when the buffer is full.  Either process   *)
(* may be restarted.  The data of a frame is given by its profile and its   *)
(* bytes are computed where they are looked at.                             *)
(*                                                                         *)
(* On the flat channel the listener's callback runs on the poll thread, and *)
(* nothing keeps it from the destructor that reports the counters on the    *)
(* main thread.  The counters are plain integers between calls that the     *)
(* compiler does not see into, so they may be stored, and be read, in any   *)
(* order.  On the proto channel both run on the thread that spins.          *)
(***************************************************************************)
EXTENDS Naturals, Sequences, Functions

CONSTANTS Profiles,     \* payload_size and chunk_count of a talker: pairs
          BufferSize,   \* of the subscriber
          MaxFrames, MaxRestarts

\* The constructor of the talker throws on other parameters.
ASSUME ProfileAssumption == Profiles \subseteq (Nat \ {0}) \X (Nat \ {0})
ASSUME BoundAssumption == BufferSize \in Nat \ {0} /\ MaxFrames \in Nat /\ MaxRestarts \in Nat

VARIABLES
  profile,     \* of the talker
  seq,         \* seq_ of the talker: the number of its next frame
  hashes,      \* chunk_hashes_size() of its cached_msg_
  wire,        \* the subscriber's buffer
  channel,     \* channel_type of both
  phase,       \* of the listener: "spinning", "reporting" (in its destructor), "down"
  last,        \* last_seq_ of the listener
  valid,       \* last_seq_valid_
  counters,    \* received_, dropped_ and verify_failures_
  pending,     \* what the running callback has still to store of them
  report,      \* what the destructor has read of them
  window,      \* of throughput_mbps(), in frames: what it got and has accounted, and
               \* the bytes of the open window and (history) of the closed ones
  first,       \* (history) the number of the first frame the listener got
  lastNth,     \* (history) how many frames all talkers had published before the last one
  published,   \* frames of all talkers so far
  restarts

talkerVars == <<profile, seq, hashes, published>>
callbackVars == <<last, valid, counters, pending, window, first, lastNth>>
listenerVars == <<callbackVars, phase, report>>
vars == <<talkerVars, wire, channel, listenerVars, restarts>>

Counters == {"received", "dropped", "verifyFailures"}
Nothing == [c \in {} |-> 0]

-------------------------------------------------------------------------------
(* A frame: sizes, number and hashes.                                       *)

Pattern(i) == (i * 31 + 7) % 256

\* The filler of one chunk, repeated for every chunk.
ChunkSize(size, count) == IF size \div count = 0 THEN 1 ELSE size \div count

Size(frame) == frame.chunkSize * frame.chunkCount
Byte(frame, i) == Pattern(i % frame.chunkSize)

\* The listener's spot check (parameter verify on); a frame is never empty.
Verify(frame) ==
  LET end == Size(frame) - 1
      chunk == Size(frame) \div frame.chunkCount
  IN /\ Byte(frame, 0) = 7 /\ Byte(frame, end) = Pattern(end)
     /\ \A i \in 0..frame.chunkCount - 1 : Byte(frame, i * chunk) = 7
     /\ frame.hashes = frame.chunkCount

NewWindow == [got |-> 0, accounted |-> 0, open |-> 0, closed |-> 0, started |-> FALSE]

Init ==
  /\ profile \in Profiles /\ seq = 0 /\ hashes = 0 /\ wire = <<>>
  /\ channel \in {"flat", "proto"} /\ phase = "spinning"
  /\ last = 0 /\ valid = FALSE
  /\ counters = [c \in Counters |-> 0] /\ pending = Nothing /\ report = Nothing
  /\ window = NewWindow
  /\ first = 0 /\ lastNth = 0 /\ published = 0 /\ restarts = 0

-------------------------------------------------------------------------------
\* Slip: the cached message is filled again without being cleared.
BugFill == hashes' = hashes + profile[2]

\* The timer callback clears cached_msg_ and adds one hash per chunk.
Fill == hashes' = profile[2]

Number == /\ published < MaxFrames
          /\ published' = published + 1 /\ seq' = seq + 1 /\ UNCHANGED profile

\* The frame that is published; nth (history) counts those of all talkers.
NewFrame == [seq |-> seq, nth |-> published, hashes |-> hashes', chunkCount |-> profile[2],
             chunkSize |-> ChunkSize(profile[1], profile[2])]

\* Slip: nothing is dropped from a full buffer.
BugPublish ==
  /\ Number /\ Fill
  /\ wire' = Append(wire, NewFrame)
  /\ UNCHANGED <<channel, listenerVars, restarts>>

Publish ==
  /\ Number /\ Fill
  /\ wire' = Append(IF Len(wire) = BufferSize THEN Tail(wire) ELSE wire, NewFrame)
  /\ UNCHANGED <<channel, listenerVars, restarts>>

\* publish() drops the frame and says nothing: its number is used up.
PublishFails ==
  /\ Number /\ Fill
  /\ UNCHANGED <<wire, channel, listenerVars, restarts>>

\* Slip: the frame itself is counted among the missing ones.
BugMissed(n) == IF valid /\ n > last + 1 THEN n - last ELSE 0

\* Slip: last_seq_valid_ is not asked.
BugMissedFirst(n) == IF n > last + 1 THEN n - last - 1 ELSE 0

\* The numbers skipped since the last frame; none when the talker started again.
Missed(n) == IF valid /\ n > last + 1 THEN n - last - 1 ELSE 0

\* The callback begins: what it will store follows from the frame and from what
\* the callbacks before it left.
Receive ==
  /\ phase # "down" /\ pending = Nothing /\ wire # <<>> /\ wire' = Tail(wire)
  /\ channel = "proto" => phase = "spinning"
  /\ LET frame == Head(wire)
     IN /\ pending' = [received |-> counters.received + 1,
                       dropped |-> counters.dropped + Missed(frame.seq),
                       verifyFailures |->
                         counters.verifyFailures + IF Verify(frame) THEN 0 ELSE 1]
        /\ last' = frame.seq /\ valid' = TRUE
        /\ first' = IF valid THEN first ELSE frame.seq
        /\ lastNth' = frame.nth
  /\ window' = [window EXCEPT !.got = window.got + 1]
  /\ UNCHANGED <<talkerVars, channel, phase, counters, report, restarts>>

\* One counter is stored.
Store ==
  /\ \E c \in DOMAIN pending :
       /\ counters' = [counters EXCEPT ![c] = pending[c]]
       /\ pending' = Restrict(pending, DOMAIN pending \ {c})
  /\ UNCHANGED <<talkerVars, wire, channel, phase, last, valid, report, window, first, lastNth,
                 restarts>>

\* Slip: a window that is closed is not emptied.
BugThroughput(over) ==
  LET sum == (IF window.started THEN window.open ELSE 0) + window.got - window.accounted
  IN [got |-> window.got, accounted |-> window.got, started |-> TRUE, open |-> sum,
      closed |-> window.closed + IF over THEN sum ELSE 0]

\* throughput_mbps(): the first call opens the window, one after two seconds (over)
\* reports it and opens the next.
Throughput(over) ==
  LET sum == (IF window.started THEN window.open ELSE 0) + window.got - window.accounted
  IN [got |-> window.got, accounted |-> window.got, started |-> TRUE,
      open |-> IF over THEN 0 ELSE sum, closed |-> window.closed + IF over THEN sum ELSE 0]

\* The message that the callback may log at its end asks for the throughput.
Log ==
  /\ phase # "down" /\ pending = Nothing /\ window.got > window.accounted
  /\ \E over \in BOOLEAN : (over => window.started) /\ window' = Throughput(over)
  /\ UNCHANGED <<talkerVars, wire, channel, phase, last, valid, counters, pending, report,
                 first, lastNth, restarts>>

\* Slip: the proto channel's callback is on another thread, too.
BugStop ==
  /\ phase = "spinning"
  /\ phase' = IF counters.received > 0 THEN "reporting" ELSE "down"
  /\ UNCHANGED <<talkerVars, wire, channel, callbackVars, report, restarts>>

\* spin() returns and the destructor looks whether there is anything to report.
Stop ==
  /\ phase = "spinning" /\ (channel = "proto" => pending = Nothing)
  /\ phase' = IF counters.received > 0 THEN "reporting" ELSE "down"
  /\ UNCHANGED <<talkerVars, wire, channel, callbackVars, report, restarts>>

\* BENCH SUMMARY: one counter is read.  Then the subscription goes; the callback
\* that runs at that moment ends later.
Summarize ==
  /\ phase = "reporting"
  /\ \E c \in Counters \ DOMAIN report :
       report' = [d \in DOMAIN report \union {c} |-> IF d = c THEN counters[c] ELSE report[d]]
  /\ phase' = IF DOMAIN report' = Counters THEN "down" ELSE phase
  /\ UNCHANGED <<talkerVars, wire, channel, callbackVars, restarts>>

Restart == restarts < MaxRestarts /\ restarts' = restarts + 1

\* A new talker, perhaps with other parameters; what was sent is still delivered.
TalkerRestarts ==
  /\ Restart
  /\ profile' \in Profiles /\ seq' = 0 /\ hashes' = 0
  /\ UNCHANGED <<published, wire, channel, listenerVars>>

\* A new listener, after a crash or after the summary of the one before, counts from
\* nothing, and gets only what is sent from now on.
ListenerRestarts ==
  /\ Restart
  /\ wire' = <<>> /\ last' = 0 /\ valid' = FALSE /\ first' = 0 /\ lastNth' = 0
  /\ counters' = [c \in Counters |-> 0] /\ pending' = Nothing /\ report' = Nothing
  /\ window' = NewWindow /\ phase' = "spinning"
  /\ UNCHANGED <<talkerVars, channel>>

Next ==
  \/ Publish \/ PublishFails \/ Receive \/ Store \/ Log \/ Stop \/ Summarize
  \/ TalkerRestarts \/ ListenerRestarts

Spec == Init /\ [][Next]_vars

-------------------------------------------------------------------------------
Frame == [seq : Nat, nth : Nat, hashes : Nat, chunkCount : Nat, chunkSize : Nat]

TalkerTypeOK ==
  /\ profile \in Profiles /\ seq \in 0..published /\ hashes \in {0, profile[2]}
  /\ published \in 0..MaxFrames /\ restarts \in 0..MaxRestarts

WireTypeOK ==
  /\ wire \in Seq(Frame) /\ Len(wire) <= BufferSize
  /\ \A i \in 1..Len(wire) : wire[i].seq < published /\ wire[i].nth < published

CallbackTypeOK ==
  /\ last \in Nat /\ valid \in BOOLEAN /\ first \in Nat /\ lastNth \in Nat
  /\ counters \in [Counters -> Nat]
  /\ DOMAIN pending \subseteq Counters /\ pending \in [DOMAIN pending -> Nat]

ReportTypeOK ==
  /\ channel \in {"flat", "proto"} /\ phase \in {"spinning", "reporting", "down"}
  /\ DOMAIN report \subseteq Counters /\ report \in [DOMAIN report -> Nat]
  /\ phase = "spinning" => report = Nothing

WindowTypeOK ==
  /\ window \in [got : Nat, accounted : Nat, open : Nat, closed : Nat, started : BOOLEAN]
  /\ window.accounted <= window.got

\* The buffer keeps its bound, the frames in it were published, and no frame is
\* accounted to the throughput before the listener got it.
TypeOK == TalkerTypeOK /\ WireTypeOK /\ CallbackTypeOK /\ ReportTypeOK /\ WindowTypeOK

\* The frames from the first to the last that the listener began to count.
Span == IF valid THEN last - first + 1 ELSE 0

\* While the talker stays the same, the frames a listener got and those it reports
\* as dropped are exactly those from its first to its last one, once the callback of
\* the last one has returned.
DropsAreExact ==
  restarts = 0 /\ pending = Nothing => counters.received + counters.dropped = Span

\* Whoever is restarted, and at whatever moment one looks, a frame counted as
\* received or dropped was published.
NoPhantomDrops == counters.received + counters.dropped <= published

\* The destructor's BENCH SUMMARY, read while the poll thread may be counting, never
\* reports more frames than there were between the first and the last; where no
\* other thread counts, it reports them all.
SummaryIsOfItsRun ==
  restarts = 0 /\ DOMAIN report = Counters =>
    /\ report.received + report.dropped <= Span
    /\ report.verifyFailures <= counters.received + 1
    /\ channel = "proto" => report.received + report.dropped = Span

\* "Deterministic fill pattern; the listener spot-checks it": no frame that a talker
\* filled fails the check, whichever of the two was restarted.  The filler starts anew
\* with every chunk while the listener computes the last byte from its place in the
\* whole, so Profiles must be those whose chunks before the last are a multiple of 256
\* bytes together; ProfileAssumption alone does not make it so.
IntactFramesPass == counters.verifyFailures = 0

\* The throughput counts a frame in exactly one window, the one that is open when the
\* next message is logged, however logging is throttled.
FramesInOneWindow == window.closed + window.open = window.accounted
===============================================================================
