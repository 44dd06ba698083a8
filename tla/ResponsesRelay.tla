--------------------------- MODULE ResponsesRelay ---------------------------
(***************************************************************************)
(* One streamed answer on its way to a /v1/responses client:               *)
(* StreamChatToResponses scans the upstream's Chat Completions events and  *)
(* feeds them to the bridge, which writes Responses events. Three things   *)
(* can end a silence: the StallReader around the body, the completion      *)
(* watchdog of the bridge, and the idle watch of the scanner, a goroutine  *)
(* per line that is awaited while the terminal event is owed. Each runs    *)
(* beside the scan. Durations are left out: a timer that is armed may fire *)
(* at any moment, and does unless it is reset or stopped.                  *)
(***************************************************************************)
EXTENDS Integers, Sequences

CONSTANTS
    Scripts,    \* what an upstream may have to say: sequences of Lines
    Readers     \* which StallReader wraps the body: TRUE for the one with a first-event
                \* deadline (the Gemini lane), FALSE for the plain one

\* A line stands for an event with the blank line that ends it. "finish" carries the
\* finish_reason, "usage" the token counts, "whole" both; "done" is [DONE] or a payload
\* that does not parse, "comment" a keep-alive.
Lines == {"text", "finish", "usage", "whole", "done", "comment"}

MaxLines == 6

ASSUME ScriptsAssumption ==
    /\ Scripts \subseteq Seq(Lines) /\ \A s \in Scripts : Len(s) < MaxLines
    /\ Readers \subseteq BOOLEAN

VARIABLES
    script,     \* the lines of this upstream
    sent,       \* how many of them it has sent
    broke,      \* "no", or how the upstream ended: "eof" or "lost"
    dual,       \* the reader has a first-event deadline
    client,     \* "here" or "gone": the context of the request
    stopping,   \* the process shuts down
    scan,       \* where the scan is
    read,       \* lines in or past the scanner's buffer
    taken,      \* lines the scanner has handed on
    watched,    \* the line awaited has a watch
    watch,      \* per line, the goroutine of its watch: "none", "spawned" (it has not come
                \* to its select), "parked" in it, "cutting" (it took <-ctx.Done()), "gone"
    expired,    \* idleWatch.expired
    quiet,      \* history: the window of a watch has run out while its line was awaited
    stall,      \* the StallReader: its timer armed, its timer's function past the check of
                \* firstSeen, firstSeen, firstExpired, stalled, and the body closed
    bridge,     \* the ResponsesBridge and its translation state
    dog,        \* the completionWatchdog: timer, its function, emitted
    wire        \* what the client has been written

relay == <<script, sent, broke, dual, client, stopping, scan, read, taken, watched, watch,
           expired, quiet, stall, bridge, dog, wire>>

RelayInit ==
    /\ script \in Scripts /\ sent = 0 /\ broke = "no"
    /\ dual \in Readers /\ client = "here" /\ stopping = FALSE
    /\ scan = "scanning" /\ read = 0 /\ taken = 0 /\ watched = FALSE
    /\ watch = [n \in 1 .. MaxLines |-> "none"] /\ expired = FALSE /\ quiet = FALSE
    /\ stall = [armed |-> TRUE, checked |-> FALSE, firstSeen |-> FALSE,
                firstExpired |-> FALSE, stalled |-> FALSE, closed |-> FALSE]
    /\ bridge = [usage |-> FALSE, owed |-> FALSE, completed |-> FALSE,
                 pending |-> FALSE, finished |-> FALSE, err |-> FALSE]
    /\ dog = [timer |-> "none", function |-> "none", emitted |-> FALSE]
    /\ wire = <<>>

upstream == <<script, sent, broke, dual>>
scanner == <<scan, read, taken, watched>>
watches == <<watch, expired, quiet>>
output == <<bridge, dog, wire>>

------------------------------------------------------------------------------
(* The upstream, the client and the process. *)

UpstreamSends ==
    /\ broke = "no" /\ sent < Len(script)
    /\ sent' = sent + 1
    /\ UNCHANGED <<script, broke, dual, client, stopping, scanner, watches, stall, output>>

BreakOff ==
    /\ broke = "no"
    /\ broke' \in {"eof", "lost"}
    /\ UNCHANGED <<script, sent, dual, client, stopping, scanner, watches, stall, output>>

\* The cancelled context wakes the watch that is parked on it.
ClientLeaves ==
    /\ client = "here" /\ scan # "returned"
    /\ client' = "gone"
    /\ watch' = [n \in DOMAIN watch |-> IF watch[n] = "parked" THEN "cutting" ELSE watch[n]]
    /\ UNCHANGED <<upstream, stopping, scanner, expired, quiet, stall, output>>

ShutDown ==
    /\ ~stopping /\ scan # "returned"
    /\ stopping' = TRUE
    /\ UNCHANGED <<upstream, client, scanner, watches, stall, output>>

------------------------------------------------------------------------------
(* The StallReader. *)

\* Close stops the timer; the body is closed once.
Shut(s) == [s EXCEPT !.armed = FALSE, !.closed = TRUE]

StallUnclosed ==                                                         \* mutant
    /\ stall.armed
    /\ stall' = [stall EXCEPT !.armed = FALSE, !.stalled = TRUE]
    /\ UNCHANGED <<upstream, client, stopping, scanner, watches, output>>

\* The timer's function. The dual reader's returns at once when data has been seen.
StallFires ==
    /\ stall.armed
    /\ stall' = IF ~dual THEN [Shut(stall) EXCEPT !.stalled = TRUE]
                ELSE [stall EXCEPT !.armed = FALSE, !.checked = ~stall.firstSeen]
    /\ UNCHANGED <<upstream, client, stopping, scanner, watches, output>>

FirstEventExpires ==
    /\ stall.checked
    /\ stall' = [Shut(stall) EXCEPT !.checked = FALSE, !.firstExpired = TRUE, !.stalled = TRUE]
    /\ UNCHANGED <<upstream, client, stopping, scanner, watches, output>>

\* The goroutine that waits for the context, the shutdown or the Close.
StreamCloses ==
    /\ ~stall.closed
    /\ client = "gone" \/ stopping
    /\ stall' = Shut(stall)
    /\ UNCHANGED <<upstream, client, stopping, scanner, watches, output>>

------------------------------------------------------------------------------
(* The scan, and the watch over each line that is awaited. *)

Awaited == taken + 1

\* idleWatch.scan and the read it wraps: no watch while nothing is owed, none for a
\* client that has left.
Await ==
    /\ scan = "top"
    /\ IF ~bridge.pending THEN scan' = "scanning" /\ UNCHANGED <<watched, watches>>
       ELSE IF client = "gone"
       THEN scan' = "over" /\ expired' = TRUE /\ UNCHANGED <<watched, watch, quiet>>
       ELSE /\ scan' = "scanning" /\ watched' = TRUE
            /\ watch' = [watch EXCEPT ![Awaited] = "spawned"]
            /\ UNCHANGED <<expired, quiet>>
    /\ UNCHANGED <<upstream, client, stopping, read, taken, stall, output>>

\* Scan returns: close(released), which wakes a watch parked in its select, then
\* cancel(). One that has not come to its select will find both channels ready.
ReleaseWatch ==
    /\ watched' = FALSE
    /\ watch' = IF watch[Awaited] = "parked" THEN [watch EXCEPT ![Awaited] = "gone"] ELSE watch
    /\ UNCHANGED <<expired, quiet>>

\* A line that is in the buffer is handed on without a read.
TakeLine ==
    /\ scan = "scanning" /\ taken < read
    /\ ReleaseWatch
    /\ taken' = taken + 1
    /\ scan' = IF script[Awaited] = "comment" THEN "top" ELSE "feeding"
    /\ UNCHANGED <<upstream, client, stopping, read, stall, output>>

\* Read resets the timer before it blocks.
StartRead ==
    /\ scan = "scanning" /\ taken = read
    /\ scan' = "reading"
    /\ stall' = [stall EXCEPT !.armed = TRUE]
    /\ UNCHANGED <<upstream, client, stopping, read, taken, watched, watches, output>>

\* The first data of a dual reader resets the timer once more.
ReadData ==
    /\ scan = "reading" /\ ~stall.closed
    /\ read' \in read + 1 .. sent
    /\ scan' = "scanning"
    /\ stall' = [stall EXCEPT !.firstSeen = TRUE,
                              !.armed = stall.armed \/ (dual /\ ~stall.firstSeen)]
    /\ UNCHANGED <<upstream, client, stopping, taken, watched, watches, output>>

\* The body is closed, or the upstream has ended and everything has been read.
ReadFails ==
    /\ scan = "reading"
    /\ stall.closed \/ (broke # "no" /\ read = sent)
    /\ ReleaseWatch
    /\ scan' = "over"
    /\ stall' = [stall EXCEPT !.armed = FALSE]
    /\ UNCHANGED <<upstream, client, stopping, read, taken, output>>

\* The context of a watch is done: its window has run out, the client has left, or
\* the scan, which has moved on, has cancelled it.
Released(n) == ~(watched /\ n = Awaited)

Park(n) ==
    /\ watch[n] = "spawned" /\ ~Released(n) /\ client = "here"
    /\ watch' = [watch EXCEPT ![n] = "parked"]
    /\ UNCHANGED <<upstream, client, stopping, scanner, expired, quiet, stall, output>>

WindowElapses(n) ==
    /\ watch[n] \in {"spawned", "parked"} /\ ~Released(n)
    /\ watch' = [watch EXCEPT ![n] = "cutting"]
    /\ quiet' = TRUE
    /\ UNCHANGED <<upstream, client, stopping, scanner, expired, stall, output>>

\* The select takes either of two channels that are ready.
TakesReleased(n) ==
    /\ watch[n] = "spawned" /\ Released(n)
    /\ watch' = [watch EXCEPT ![n] = "gone"]
    /\ UNCHANGED <<upstream, client, stopping, scanner, expired, quiet, stall, output>>

TakesDone(n) ==
    /\ watch[n] = "spawned" /\ (Released(n) \/ client = "gone")
    /\ watch' = [watch EXCEPT ![n] = "cutting"]
    /\ UNCHANGED <<upstream, client, stopping, scanner, expired, quiet, stall, output>>

Cut(n) ==
    /\ watch[n] = "cutting"
    /\ watch' = [watch EXCEPT ![n] = "gone"]
    /\ expired' = TRUE
    /\ stall' = Shut(stall)
    /\ UNCHANGED <<upstream, client, stopping, scanner, quiet, output>>

------------------------------------------------------------------------------
(* The bridge, the translation and the completion watchdog. *)

\* TranslateOpenAIToResponses and FlushResponses: the translation state after a line,
\* and the frames it gives.
Flushed(b) == [b EXCEPT !.completed = TRUE]
Terminal(b) == IF b.completed THEN <<>> ELSE <<"terminal">>

WithUsage(b, line) == IF line \in {"usage", "whole"} THEN [b EXCEPT !.usage = TRUE] ELSE b

Finished(b) ==
    [b EXCEPT !.completed = b.completed \/ b.usage, !.owed = ~(b.completed \/ b.usage)]

Translated(b, line) ==
    CASE line = "done" -> Flushed(b)
      [] line \in {"finish", "whole"} -> Finished(WithUsage(b, line))
      [] OTHER -> WithUsage(b, line)

Frames(b, line) ==
    CASE line = "done" -> Terminal(b)
      [] line = "text" -> <<"delta">>
      [] line \in {"finish", "whole"} ->
            IF WithUsage(b, line).usage /\ ~b.completed THEN <<"delta", "terminal">>
            ELSE <<"delta">>
      [] OTHER -> <<>>

\* A write to a client that has left fails once the HeartbeatWriter has seen it.
WriteFails(frames) == frames # <<>> /\ client = "gone"

\* Nothing more is written: the terminal event has been, or a write has failed.
SealedByError == bridge.err                                            \* mutant
Sealed == bridge.err \/ bridge.finished

\* feed, under bridge.mu: a failed write leaves pending and finished as they were.
Feed(line) ==
    LET next == Translated(bridge, line)
        frames == Frames(bridge, line)
        pending == next.owed /\ ~next.completed
    IN  IF Sealed THEN UNCHANGED <<bridge, wire, dog>>
        ELSE \/ /\ bridge' = [next EXCEPT !.finished = next.completed, !.pending = pending]
                /\ wire' = wire \o frames
                /\ dog' = IF pending /\ ~dog.emitted /\ dog.timer = "none"
                          THEN [dog EXCEPT !.timer = "armed"] ELSE dog
             \/ /\ WriteFails(frames)
                /\ bridge' = [next EXCEPT !.err = TRUE]
                /\ UNCHANGED <<wire, dog>>

FeedLine ==
    /\ scan = "feeding"
    /\ Feed(script[taken])
    /\ scan' = "top"
    /\ UNCHANGED <<upstream, client, stopping, read, taken, watched, watches, stall>>

DogFires ==
    /\ dog.timer = "armed"
    /\ dog' = [dog EXCEPT !.timer = "fired", !.function = "fired"]
    /\ UNCHANGED <<upstream, client, stopping, scanner, watches, stall, bridge, wire>>

\* emit marks itself under its own lock and takes the bridge's afterwards.
EmitMarks ==
    /\ dog.function = "fired"
    /\ dog' = [timer |-> "none", emitted |-> TRUE,
               function |-> IF dog.emitted THEN "none" ELSE "emitting"]
    /\ UNCHANGED <<upstream, client, stopping, scanner, watches, stall, bridge, wire>>

EmitToWriter ==                                                        \* mutant
    /\ dog.function = "emitting"
    /\ wire' = wire \o Terminal(bridge)
    /\ dog' = [dog EXCEPT !.function = "none"]
    /\ UNCHANGED <<upstream, client, stopping, scanner, watches, stall, bridge>>

Emit ==
    /\ dog.function = "emitting"
    /\ LET next == Flushed(bridge) IN
       IF Sealed THEN UNCHANGED <<bridge, wire>>
       ELSE \/ /\ bridge' = [next EXCEPT !.finished = TRUE, !.pending = FALSE]
               /\ wire' = wire \o Terminal(bridge)
            \/ /\ WriteFails(Terminal(bridge))
               /\ bridge' = [next EXCEPT !.err = TRUE]
               /\ UNCHANGED wire
    /\ dog' = [dog EXCEPT !.function = "none"]
    /\ UNCHANGED <<upstream, client, stopping, scanner, watches, stall>>

\* bridge.Close, deferred by the relay: the timer is stopped, a function that has
\* started is not.
CloseBridge ==
    /\ scan = "over"
    /\ scan' = "closed"
    /\ dog' = [dog EXCEPT !.timer = "none"]
    /\ IF Sealed THEN UNCHANGED <<bridge, wire>>
       ELSE \/ /\ bridge' = [Flushed(bridge) EXCEPT !.finished = TRUE]
               /\ wire' = wire \o Terminal(bridge)
            \/ /\ WriteFails(Terminal(bridge))
               /\ bridge' = [Flushed(bridge) EXCEPT !.finished = TRUE, !.err = TRUE]
               /\ UNCHANGED wire
    /\ UNCHANGED <<upstream, client, stopping, read, taken, watched, watches, stall>>

\* The writer and the body are closed, and the handler returns.
HandlerReturns ==
    /\ scan = "closed"
    /\ scan' = "returned"
    /\ stall' = Shut(stall)
    /\ UNCHANGED <<upstream, client, stopping, read, taken, watched, watches, output>>

Over == scan = "returned" /\ UNCHANGED relay

------------------------------------------------------------------------------
Environment == UpstreamSends \/ BreakOff \/ ClientLeaves \/ ShutDown

Scan == Await \/ TakeLine \/ StartRead \/ ReadData \/ ReadFails \/ FeedLine \/ CloseBridge \/ HandlerReturns

Watch(n) == Park(n) \/ WindowElapses(n) \/ TakesReleased(n) \/ TakesDone(n) \/ Cut(n)

Gateway ==
    \/ Scan
    \/ StallFires \/ FirstEventExpires \/ StreamCloses
    \/ \E n \in 1 .. MaxLines : Watch(n)
    \/ DogFires \/ EmitMarks \/ Emit

RelayNext == Environment \/ Gateway \/ Over

\* The goroutines are scheduled and the timers fire; the upstream and the client may
\* stay silent for good.
RelaySpec == RelayInit /\ [][RelayNext]_relay /\ WF_relay(Gateway)

------------------------------------------------------------------------------
Bridge == [usage : BOOLEAN, owed : BOOLEAN, completed : BOOLEAN,
           pending : BOOLEAN, finished : BOOLEAN, err : BOOLEAN]

Stall == [armed : BOOLEAN, checked : BOOLEAN, firstSeen : BOOLEAN,
          firstExpired : BOOLEAN, stalled : BOOLEAN, closed : BOOLEAN]

Dog == [timer : {"none", "armed", "fired"}, function : {"none", "fired", "emitting"},
        emitted : BOOLEAN]

RelayTypeOK ==
    /\ script \in Scripts /\ sent \in 0 .. Len(script)
    /\ read \in 0 .. sent /\ taken \in 0 .. read
    /\ broke \in {"no", "eof", "lost"} /\ client \in {"here", "gone"}
    /\ {dual, stopping, watched, expired, quiet} \subseteq BOOLEAN
    /\ scan \in {"top", "scanning", "reading", "feeding", "over", "closed", "returned"}
    /\ watch \in [1 .. MaxLines -> {"none", "spawned", "parked", "cutting", "gone"}]
    /\ stall \in Stall /\ bridge \in Bridge /\ dog \in Dog
    /\ wire \in Seq({"delta", "terminal"})

\* The terminal event is the last thing the client is written, and nothing is written
\* into the reply of a handler that has returned, though the watchdog's function may
\* run beside the scan, the bridge's Close and the return (completion_watchdog.go: a
\* second response.completed must not follow, nor a write into a writer that is torn
\* down).
WireSealed == \E i \in DOMAIN wire : wire[i] = "terminal"
NothingAfterTerminal == [][WireSealed \/ scan = "returned" => wire' = wire]_relay

\* A terminal event that is owed is watched (completion_watchdog.go: an upstream that
\* stalls "would keep it waiting forever. The watchdog gives that wait an end"): while
\* the bridge waits for a trailer, the watchdog's timer is armed or its function is on
\* its way, though the function marks itself before it has the bridge's lock, lines go
\* on coming in between, and no second timer is ever set.
OwedIsWatched == bridge.pending /\ ~Sealed => dog.timer = "armed" \/ dog.function # "none"

\* No read waits unwatched: while the scan is in one, the stall timer is armed, its
\* function is about to close the body, or the body is closed, whatever reset and
\* expiry interleave, but for the reader that has become deaf (below).
Deaf == dual /\ stall.firstSeen
ReadIsTimed == scan = "reading" /\ ~Deaf => stall.armed \/ stall.checked \/ stall.closed

\* Nobody in the relay waits for an upstream that nobody watches.
WaitsAreWatched == OwedIsWatched /\ ReadIsTimed

\* The relay returns whatever the upstream does, and a client that has stayed has then
\* been written its terminal event: one that is silent is given up on. The reader with
\* a first-event deadline is the exception: once it has seen data, its timer's function
\* returns without a word, and the relay may wait for good.
RelayEnds == <>(scan = "returned" /\ (WireSealed \/ bridge.err)) \/ <>[]Deaf

\* "Then idle gaps are bounded by timeout" (stall.go, NewStallReaderWithFirstEvent): in
\* the words of that comment there is no exception. It does not hold.
IdleGapsBounded == <>(scan = "returned")

\* "A stream that keeps flowing is never cut off however long the turn runs"
\* (sse_scanner.go, ScanStreamWithDeadline): the watches close the body only when a
\* window has run out with its line still awaited, or the client has left. It does not
\* hold: see TakesDone.
FlowNeverCut == expired => quiet \/ client = "gone"
==============================================================================
