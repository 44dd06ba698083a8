------------------------ MODULE ResponsesRelay_proofs ------------------------
(***************************************************************************)
(* For every script and both readers: the terminal event is the last thing *)
(* the client of a Responses relay is written, and a handler that has      *)
(* returned writes nothing more; a terminal event that is owed and a read  *)
(* of the upstream are never left without a timer.                         *)
(***************************************************************************)
EXTENDS ResponsesRelay, TLAPS

Written == {"delta", "terminal"}

\* What makes the seal inductive: the terminal event is written with the translation
\* completed, a completed translation has sealed the bridge (it was written, or the
\* write failed), and the bridge's Close leaves it sealed.
BridgeType == bridge \in Bridge /\ wire \in Seq(Written)
TerminalCompletes == WireSealed => bridge.completed
CompletedSeals == bridge.completed => Sealed
ClosedIsSealed == scan \in {"closed", "returned"} => Sealed

SealInv == BridgeType /\ TerminalCompletes /\ CompletedSeals /\ ClosedIsSealed

------------------------------------------------------------------------------
\* Frames: what a line gives the client, and when it holds the terminal event.
LEMMA TerminalFrames ==
    ASSUME NEW b \in Bridge
    PROVE  Terminal(b) \in {<<>>, <<"terminal">>}
  BY DEF Terminal

\* A line gives nothing, a delta, or frames that end with the terminal event, and then
\* its translation is completed.
LEMMA FramesOfALine ==
    ASSUME NEW b \in Bridge, NEW line
    PROVE  /\ Translated(b, line) \in Bridge
           /\ \/ Frames(b, line) \in {<<>>, <<"delta">>}
              \/ /\ Frames(b, line) \in {<<"terminal">>, <<"delta", "terminal">>}
                 /\ Translated(b, line).completed
  <1>1. CASE line = "done"
    BY <1>1, TerminalFrames DEF Translated, Frames, Flushed, Bridge
  <1>2. CASE line = "text"
    BY <1>2 DEF Translated, Frames, WithUsage, Bridge
  <1>3. CASE line \in {"finish", "whole"}
    <2>1. WithUsage(b, line) \in Bridge /\ WithUsage(b, line).completed = b.completed
      BY DEF WithUsage, Bridge
    <2>2. /\ Finished(WithUsage(b, line)) \in Bridge
          /\ WithUsage(b, line).usage => Finished(WithUsage(b, line)).completed
      BY <2>1 DEF Finished, Bridge
    <2>3. Translated(b, line) = Finished(WithUsage(b, line))
      BY <1>3 DEF Translated
    <2>4. Frames(b, line) = IF WithUsage(b, line).usage /\ ~b.completed
                            THEN <<"delta", "terminal">> ELSE <<"delta">>
      BY <1>3 DEF Frames
    <2> QED BY <2>2, <2>3, <2>4
  <1>4. CASE line \notin {"done", "text", "finish", "whole"}
    <2>1. Frames(b, line) = <<>> /\ Translated(b, line) = WithUsage(b, line)
      BY <1>4 DEF Frames, Translated
    <2>2. WithUsage(b, line) \in Bridge
      BY DEF WithUsage, Bridge
    <2> QED BY <2>1, <2>2
  <1> QED BY <1>1, <1>2, <1>3, <1>4

\* All of them are frames.
LEMMA FramesAreWritten ==
    {<<>>, <<"delta">>, <<"terminal">>, <<"delta", "terminal">>} \subseteq Seq(Written)
  <1>1. "delta" \in Written /\ "terminal" \in Written
    BY DEF Written
  <1>2. /\ <<>> \in Seq(Written)
        /\ <<"delta">> \in Seq(Written)
        /\ <<"terminal">> \in Seq(Written)
        /\ <<"delta", "terminal">> \in Seq(Written)
    BY <1>1
  <1> QED BY <1>2

\* Appending frames without the terminal event seals nothing.
LEMMA AppendKeepsOpen ==
    ASSUME NEW s \in Seq(Written), NEW f \in {<<>>, <<"delta">>},
           NEW i \in DOMAIN (s \o f), (s \o f)[i] = "terminal"
    PROVE  \E j \in DOMAIN s : s[j] = "terminal"
  <1>1. CASE f = <<>>
    <2>1. s \o f = s
      BY <1>1
    <2> QED BY <2>1
  <1>2. CASE f = <<"delta">>
    <2>1. DOMAIN s = 1 .. Len(s) /\ DOMAIN (s \o f) = 1 .. (Len(s) + 1) /\ Len(s) \in Nat
      BY <1>2
    <2>2. (s \o f)[Len(s) + 1] = "delta"
      BY <1>2
    <2>3. \A j \in 1 .. Len(s) : (s \o f)[j] = s[j]
      BY <1>2
    <2> QED BY <2>1, <2>2, <2>3
  <1> QED BY <1>1, <1>2
------------------------------------------------------------------------------
\* Nothing has been written, and nothing sealed.
LEMMA SealInit == RelayInit => SealInv
  <1> SUFFICES ASSUME RelayInit PROVE SealInv
    OBVIOUS
  <1>1. BridgeType
    BY DEF RelayInit, BridgeType, Bridge
  <1>2. ~WireSealed
    BY DEF RelayInit, WireSealed
  <1>3. CompletedSeals /\ ClosedIsSealed
    BY DEF RelayInit, CompletedSeals, ClosedIsSealed
  <1> QED BY <1>1, <1>2, <1>3 DEF SealInv, TerminalCompletes

\* The three steps that write.
Writes == FeedLine \/ Emit \/ CloseBridge

\* Every other step leaves the bridge and the wire alone.
LEMMA OthersAreSilent ==
    ASSUME SealInv, RelayNext, ~Writes
    PROVE  UNCHANGED <<bridge, wire>> /\ (scan' \in {"closed", "returned"} => Sealed)
  <1>1. CASE Environment
    BY <1>1 DEF SealInv, ClosedIsSealed, Environment, UpstreamSends, BreakOff, ClientLeaves,
                ShutDown, scanner, output
  <1>2. CASE Await \/ TakeLine \/ StartRead \/ ReadData \/ ReadFails \/ HandlerReturns
    BY <1>2 DEF SealInv, ClosedIsSealed, Await, TakeLine, StartRead, ReadData, ReadFails,
                HandlerReturns, output
  <1>3. CASE StallFires \/ FirstEventExpires \/ StreamCloses
    BY <1>3 DEF SealInv, ClosedIsSealed, StallFires, FirstEventExpires, StreamCloses,
                scanner, output
  <1>4. ASSUME NEW n \in 1 .. MaxLines, Watch(n)
        PROVE  UNCHANGED <<bridge, wire, scan>>
    BY <1>4 DEF Watch, Park, WindowElapses, TakesReleased, TakesDone, Cut, scanner, output
  <1>5. CASE DogFires \/ EmitMarks
    BY <1>5 DEF SealInv, ClosedIsSealed, DogFires, EmitMarks, scanner
  <1>6. CASE Over
    BY <1>6 DEF SealInv, ClosedIsSealed, Over, relay
  <1> QED
    BY <1>1, <1>2, <1>3, <1>4, <1>5, <1>6
       DEF RelayNext, Gateway, Scan, Writes, SealInv, ClosedIsSealed

\* A write happens while the bridge is open, and leaves it as the invariant wants it.
LEMMA FeedKeepsSeal ==
    ASSUME SealInv, FeedLine
    PROVE  SealInv'
  <1> DEFINE line == script[taken]
             next == Translated(bridge, line)
             frames == Frames(bridge, line)
  <1>1. scan' = "top" /\ Feed(line)
    BY DEF FeedLine
  <1>2. /\ bridge \in Bridge /\ wire \in Seq(Written)
        /\ next \in Bridge
        /\ \/ frames \in {<<>>, <<"delta">>}
           \/ frames \in {<<"terminal">>, <<"delta", "terminal">>} /\ next.completed
    BY FramesOfALine DEF SealInv, BridgeType
  <1>3. CASE Sealed
    <2>1. UNCHANGED <<bridge, wire>>
      BY <1>1, <1>3 DEF Feed
    <2> QED BY <1>1, <2>1 DEF SealInv, BridgeType, TerminalCompletes, WireSealed,
                              CompletedSeals, ClosedIsSealed, Sealed
  <1>4. CASE ~Sealed
    <2>1. ~WireSealed
      BY <1>4 DEF SealInv, TerminalCompletes, CompletedSeals
    <2>2. CASE /\ bridge' = [next EXCEPT !.err = TRUE]
               /\ wire' = wire
      BY <1>1, <1>2, <2>1, <2>2 DEF SealInv, BridgeType, Bridge, TerminalCompletes, WireSealed,
                                    CompletedSeals, ClosedIsSealed, Sealed
    <2>3. CASE /\ bridge' = [next EXCEPT !.finished = next.completed,
                                        !.pending = next.owed /\ ~next.completed]
               /\ wire' = wire \o frames
      <3>1. bridge' \in Bridge /\ bridge'.completed = next.completed
                               /\ bridge'.finished = next.completed
        BY <1>2, <2>3 DEF Bridge
      <3>2. frames \in Seq(Written)
        BY <1>2, FramesAreWritten
      <3>3. wire' \in Seq(Written)
        BY <1>2, <2>3, <3>2
      <3>4. ASSUME WireSealed' PROVE next.completed
        <4>1. CASE frames \in {<<>>, <<"delta">>}
          <5>1. PICK i \in DOMAIN (wire \o frames) : (wire \o frames)[i] = "terminal"
            BY <2>3, <3>4 DEF WireSealed
          <5> QED BY <1>2, <2>1, <4>1, <5>1, AppendKeepsOpen DEF WireSealed
        <4> QED BY <1>2, <4>1
      <3> QED BY <1>1, <3>1, <3>3, <3>4 DEF SealInv, BridgeType, TerminalCompletes,
                                           CompletedSeals, ClosedIsSealed, Sealed
    <2> QED BY <1>1, <1>4, <2>2, <2>3 DEF Feed
  <1> QED BY <1>3, <1>4

\* A flush completes the translation.
LEMMA FlushedType ==
    ASSUME NEW b \in Bridge
    PROVE  Flushed(b) \in Bridge /\ Flushed(b).completed
  BY DEF Flushed, Bridge

\* The wire with the terminal event at its end is still a sequence of frames.
LEMMA TerminalIsWritten ==
    ASSUME SealInv
    PROVE  wire \o Terminal(bridge) \in Seq(Written)
  <1>1. Terminal(bridge) \in Seq(Written)
    BY TerminalFrames, FramesAreWritten DEF SealInv, BridgeType
  <1> QED BY <1>1 DEF SealInv, BridgeType

\* The watchdog's emission seals the bridge, or finds it sealed.
LEMMA EmitKeepsSeal ==
    ASSUME SealInv, Emit
    PROVE  SealInv'
  <1>1. scan' = scan
    BY DEF Emit, scanner
  <1>2. CASE UNCHANGED <<bridge, wire>>
    BY <1>1, <1>2 DEF SealInv, BridgeType, TerminalCompletes, WireSealed, CompletedSeals,
                      ClosedIsSealed, Sealed
  <1>3. CASE /\ bridge' = [Flushed(bridge) EXCEPT !.finished = TRUE, !.pending = FALSE]
             /\ wire' = wire \o Terminal(bridge)
    <2>1. bridge' \in Bridge /\ bridge'.completed /\ bridge'.finished
      BY <1>3, FlushedType DEF SealInv, BridgeType, Bridge
    <2> QED BY <1>3, <2>1, TerminalIsWritten
               DEF SealInv, BridgeType, TerminalCompletes, CompletedSeals, ClosedIsSealed, Sealed
  <1>4. CASE bridge' = [Flushed(bridge) EXCEPT !.err = TRUE] /\ wire' = wire
    <2>1. bridge' \in Bridge /\ bridge'.completed /\ bridge'.err
      BY <1>4, FlushedType DEF SealInv, BridgeType, Bridge
    <2> QED BY <1>4, <2>1
               DEF SealInv, BridgeType, TerminalCompletes, CompletedSeals, ClosedIsSealed, Sealed
  <1> QED BY <1>2, <1>3, <1>4 DEF Emit

\* So does the Close.
LEMMA CloseKeepsSeal ==
    ASSUME SealInv, CloseBridge
    PROVE  SealInv'
  <1>1. CASE Sealed /\ UNCHANGED <<bridge, wire>>
    BY <1>1 DEF SealInv, BridgeType, TerminalCompletes, WireSealed, CompletedSeals,
                ClosedIsSealed, Sealed
  <1>2. CASE /\ bridge' = [Flushed(bridge) EXCEPT !.finished = TRUE]
             /\ wire' = wire \o Terminal(bridge)
    <2>1. bridge' \in Bridge /\ bridge'.completed /\ bridge'.finished
      BY <1>2, FlushedType DEF SealInv, BridgeType, Bridge
    <2> QED BY <1>2, <2>1, TerminalIsWritten
               DEF SealInv, BridgeType, TerminalCompletes, CompletedSeals, ClosedIsSealed, Sealed
  <1>3. CASE /\ bridge' = [Flushed(bridge) EXCEPT !.finished = TRUE, !.err = TRUE]
             /\ wire' = wire
    <2>1. bridge' \in Bridge /\ bridge'.completed /\ bridge'.finished
      BY <1>3, FlushedType DEF SealInv, BridgeType, Bridge
    <2> QED BY <1>3, <2>1
               DEF SealInv, BridgeType, TerminalCompletes, CompletedSeals, ClosedIsSealed, Sealed
  <1> QED BY <1>1, <1>2, <1>3 DEF CloseBridge

\* Every step keeps the seal.
LEMMA SealStep == SealInv /\ [RelayNext]_relay => SealInv'
  <1> SUFFICES ASSUME SealInv, [RelayNext]_relay PROVE SealInv'
    OBVIOUS
  <1>1. CASE Writes
    BY <1>1, FeedKeepsSeal, EmitKeepsSeal, CloseKeepsSeal DEF Writes
  <1>2. CASE RelayNext /\ ~Writes
    <2>1. UNCHANGED <<bridge, wire>> /\ (scan' \in {"closed", "returned"} => Sealed)
      BY <1>2, OthersAreSilent
    <2> QED BY <2>1 DEF SealInv, BridgeType, TerminalCompletes, WireSealed, CompletedSeals,
                        ClosedIsSealed, Sealed
  <1>3. CASE UNCHANGED relay
    BY <1>3 DEF relay, SealInv, BridgeType, TerminalCompletes, WireSealed, CompletedSeals,
                ClosedIsSealed, Sealed
  <1> QED BY <1>1, <1>2, <1>3

\* A sealed bridge writes nothing, whoever comes to it: a line, the watchdog, the Close.
LEMMA SealedWritesNothing ==
    ASSUME SealInv, [RelayNext]_relay, WireSealed \/ scan = "returned"
    PROVE  wire' = wire
  <1>1. Sealed
    BY DEF SealInv, TerminalCompletes, CompletedSeals, ClosedIsSealed
  <1>2. CASE FeedLine
    BY <1>1, <1>2 DEF FeedLine, Feed
  <1>3. CASE Emit \/ CloseBridge
    BY <1>1, <1>3 DEF Emit, CloseBridge
  <1>4. CASE RelayNext /\ ~Writes
    BY <1>4, OthersAreSilent
  <1>5. CASE UNCHANGED relay
    BY <1>5 DEF relay
  <1> QED BY <1>2, <1>3, <1>4, <1>5 DEF Writes

\* The reply is sealed (ResponsesBridge.feed, Close and completionWatchdog.emit): the
\* terminal event is written last and once, and nothing follows the handler's return.
THEOREM ReplySealed == RelaySpec => NothingAfterTerminal
  <1>1. RelaySpec => []SealInv
    BY SealInit, SealStep, PTL DEF RelaySpec
  <1>2. SealInv /\ [RelayNext]_relay =>
          [WireSealed \/ scan = "returned" => wire' = wire]_relay
    BY SealedWritesNothing
  <1> QED BY <1>1, <1>2, PTL DEF RelaySpec, NothingAfterTerminal

------------------------------------------------------------------------------
(* Types, and the two watches over a silence.                              *)

\* What the watchdog needs: a timer that has fired has its function running, and once
\* the function has marked itself no timer is set again, because it will seal the
\* bridge, or something has.
DogInv ==
    /\ dog.timer = "fired" => dog.function = "fired"
    /\ dog.emitted => dog.timer = "none" /\ (dog.function = "emitting" \/ Sealed)

WatchInv == RelayTypeOK /\ DogInv /\ OwedIsWatched /\ ReadIsTimed

\* The relay starts with the stall timer armed and nothing owed.
LEMMA WatchInit == RelayInit => WatchInv
  <1> SUFFICES ASSUME RelayInit PROVE WatchInv
    OBVIOUS
  <1>1. bridge \in Bridge /\ stall \in Stall /\ dog \in Dog
    BY DEF RelayInit, Bridge, Stall, Dog
  <1>2. {dual, stopping, watched, expired, quiet} \subseteq BOOLEAN
    BY ScriptsAssumption DEF RelayInit
  <1>3. Len(script) \in Nat /\ script \in Scripts
    BY ScriptsAssumption DEF RelayInit
  <1>4. RelayTypeOK
    BY <1>1, <1>2, <1>3 DEF RelayInit, RelayTypeOK
  <1>5. DogInv /\ OwedIsWatched /\ ReadIsTimed
    BY DEF RelayInit, DogInv, OwedIsWatched, ReadIsTimed
  <1> QED BY <1>4, <1>5 DEF WatchInv

\* The line awaited is within the bound, the position after the last line included.
LEMMA PositionsInRange ==
    ASSUME RelayTypeOK
    PROVE  /\ Len(script) \in Nat /\ Len(script) < MaxLines
           /\ sent \in Nat /\ read \in Nat /\ taken \in Nat
           /\ taken <= read /\ read <= sent /\ sent <= Len(script)
  BY ScriptsAssumption DEF RelayTypeOK

\* A body is closed for good.
LEMMA ShutStall ==
    ASSUME NEW s \in Stall
    PROVE  Shut(s) \in Stall /\ Shut(s).closed /\ Shut(s).firstSeen = s.firstSeen
  BY DEF Shut, Stall

\* The upstream, the client and the shutdown touch neither timer.
LEMMA EnvironmentWatched ==
    ASSUME WatchInv, Environment
    PROVE  WatchInv'
  <1> USE DEF WatchInv
  <1>1. UNCHANGED <<script, dual, scan, read, taken, watched, stall, bridge, dog, wire,
                    expired, quiet>>
    BY DEF Environment, UpstreamSends, BreakOff, ClientLeaves, ShutDown, upstream, scanner,
           watches, output
  <1>2. DogInv' /\ OwedIsWatched' /\ ReadIsTimed'
    BY <1>1 DEF DogInv, OwedIsWatched, ReadIsTimed, Sealed, Deaf
  <1>3. sent' \in 0 .. Len(script) /\ read \in 0 .. sent'
    BY PositionsInRange DEF Environment, UpstreamSends, BreakOff, ClientLeaves, ShutDown,
           upstream, scanner, RelayTypeOK
  <1>4. /\ broke' \in {"no", "eof", "lost"} /\ client' \in {"here", "gone"}
        /\ watch' \in [1 .. MaxLines -> {"none", "spawned", "parked", "cutting", "gone"}]
        /\ stopping' \in {stopping, TRUE}
    BY DEF Environment, UpstreamSends, BreakOff, ClientLeaves, ShutDown,
           upstream, watches, RelayTypeOK
  <1>5. RelayTypeOK'
    <2>1. {dual', stopping', watched', expired', quiet'} \subseteq BOOLEAN
      BY <1>1, <1>4 DEF RelayTypeOK
    <2> QED BY <1>1, <1>3, <1>4, <2>1 DEF RelayTypeOK
  <1> QED BY <1>2, <1>5

\* The stall reader's functions leave the body closed, or its closing under way.
LEMMA StallWatched ==
    ASSUME WatchInv, StallFires \/ FirstEventExpires \/ StreamCloses
    PROVE  WatchInv'
  <1> USE DEF WatchInv
  <1>1. UNCHANGED <<script, sent, broke, dual, client, stopping, scan, read, taken, watched,
                    watch, expired, quiet, bridge, dog, wire>>
    BY DEF StallFires, FirstEventExpires, StreamCloses, upstream, scanner, watches, output
  <1>2. stall \in Stall
    BY DEF RelayTypeOK
  <1>3. /\ stall' \in Stall /\ stall'.firstSeen = stall.firstSeen
        /\ stall'.closed \/ (dual /\ ~stall.firstSeen => stall'.checked)
        /\ stall'.closed \/ dual
    <2>1. CASE StallFires /\ ~dual
      <3>1. Shut(stall) \in Stall /\ Shut(stall).closed /\ Shut(stall).firstSeen = stall.firstSeen
        BY <1>2, ShutStall
      <3>2. stall' = [Shut(stall) EXCEPT !.stalled = TRUE]
        BY <2>1 DEF StallFires
      <3> HIDE DEF WatchInv
      <3> QED BY <3>1, <3>2 DEF Stall
    <2>2. CASE StallFires /\ dual
      BY <1>2, <2>2 DEF StallFires, Stall
    <2>3. CASE FirstEventExpires
      <3>1. Shut(stall) \in Stall /\ Shut(stall).closed /\ Shut(stall).firstSeen = stall.firstSeen
        BY <1>2, ShutStall
      <3>2. stall' = [Shut(stall) EXCEPT !.checked = FALSE, !.firstExpired = TRUE,
                                         !.stalled = TRUE]
        BY <2>3 DEF FirstEventExpires
      <3> QED BY <3>1, <3>2 DEF Stall
    <2>4. CASE StreamCloses
      BY <1>2, <2>4, ShutStall DEF StreamCloses
    <2> QED BY <2>1, <2>2, <2>3, <2>4
  <1>4. RelayTypeOK'
    BY <1>1, <1>3 DEF RelayTypeOK
  <1>5. DogInv' /\ OwedIsWatched' /\ ReadIsTimed'
    BY <1>1, <1>3 DEF DogInv, OwedIsWatched, ReadIsTimed, Sealed, Deaf
  <1> QED BY <1>4, <1>5

\* The idle watches may close the body, and touch neither timer otherwise.
LEMMA WatchesWatched ==
    ASSUME WatchInv, NEW n \in 1 .. MaxLines, Watch(n)
    PROVE  WatchInv'
  <1> USE DEF WatchInv
  <1>1. UNCHANGED <<script, sent, broke, dual, client, stopping, scan, read, taken, watched,
                    bridge, dog, wire>>
    BY DEF Watch, Park, WindowElapses, TakesReleased, TakesDone, Cut, upstream, scanner, output
  <1>2. /\ watch' \in [1 .. MaxLines -> {"none", "spawned", "parked", "cutting", "gone"}]
        /\ expired' \in {expired, TRUE} /\ quiet' \in {quiet, TRUE}
        /\ stall' \in {stall, Shut(stall)}
    BY DEF Watch, Park, WindowElapses, TakesReleased, TakesDone, Cut, RelayTypeOK
  <1>3. stall' \in Stall /\ stall'.firstSeen = stall.firstSeen /\ (stall' = stall \/ stall'.closed)
    BY <1>2, ShutStall DEF RelayTypeOK
  <1>4. RelayTypeOK'
    <2>1. {dual', stopping', watched', expired', quiet'} \subseteq BOOLEAN
      BY <1>1, <1>2 DEF RelayTypeOK
    <2> QED BY <1>1, <1>2, <1>3, <2>1 DEF RelayTypeOK
  <1>5. DogInv' /\ OwedIsWatched' /\ ReadIsTimed'
    BY <1>1, <1>3 DEF DogInv, OwedIsWatched, ReadIsTimed, Sealed, Deaf
  <1> QED BY <1>4, <1>5

\* The scan: it enters a read with the timer armed, and leaves it otherwise.
LEMMA ScanWatched ==
    ASSUME WatchInv, Await \/ TakeLine \/ StartRead \/ ReadData \/ ReadFails \/ HandlerReturns
    PROVE  WatchInv'
  <1> USE DEF WatchInv
  <1>1. UNCHANGED <<script, sent, broke, dual, client, stopping, quiet, bridge, dog, wire>>
    BY DEF Await, TakeLine, StartRead, ReadData, ReadFails, HandlerReturns, ReleaseWatch,
           upstream, scanner, watches, output
  <1>2. /\ watch' \in [1 .. MaxLines -> {"none", "spawned", "parked", "cutting", "gone"}]
        /\ watched' \in {watched, TRUE, FALSE} /\ expired' \in {expired, TRUE}
    BY DEF Await, TakeLine, StartRead, ReadData, ReadFails, HandlerReturns, ReleaseWatch,
           watches, RelayTypeOK
  <1>3. /\ read' \in 0 .. sent /\ taken' \in 0 .. read'
        /\ scan' \in {"top", "scanning", "reading", "feeding", "over", "closed", "returned"}
    BY PositionsInRange DEF Await, TakeLine, StartRead, ReadData, ReadFails, HandlerReturns,
           RelayTypeOK
  <1>4. stall \in Stall
    BY DEF RelayTypeOK
  <1>5. stall' \in Stall /\ (scan' = "reading" => stall'.armed)
    <2>1. CASE Await \/ TakeLine
      BY <1>4, <2>1 DEF Await, TakeLine
    <2>2. CASE StartRead \/ ReadFails
      BY <1>4, <2>2 DEF StartRead, ReadFails, Stall
    <2>3. CASE ReadData
      BY <1>4, <2>3 DEF ReadData, Stall
    <2>4. CASE HandlerReturns
      BY <1>4, <2>4, ShutStall DEF HandlerReturns
    <2> QED BY <2>1, <2>2, <2>3, <2>4
  <1>6. RelayTypeOK'
    <2>1. {dual', stopping', watched', expired', quiet'} \subseteq BOOLEAN
      BY <1>1, <1>2 DEF RelayTypeOK
    <2> QED BY <1>1, <1>2, <1>3, <1>5, <2>1 DEF RelayTypeOK
  <1>7. DogInv' /\ OwedIsWatched' /\ ReadIsTimed'
    BY <1>1, <1>5 DEF DogInv, OwedIsWatched, ReadIsTimed, Sealed
  <1> QED BY <1>6, <1>7

\* The bridge is sealed for good: by the terminal event, a failed write, or the Close.
LEMMA BridgeWatched ==
    ASSUME WatchInv, SealInv', FeedLine \/ DogFires \/ EmitMarks \/ Emit \/ CloseBridge
    PROVE  WatchInv'
  <1> USE DEF WatchInv
  <1>1. UNCHANGED <<script, sent, broke, dual, client, stopping, read, taken, watched, watch,
                    expired, quiet, stall>>
    BY DEF FeedLine, DogFires, EmitMarks, Emit, CloseBridge, upstream, scanner, watches
  <1>2. dog \in Dog
    BY DEF RelayTypeOK
  <1>3. /\ dog' \in Dog
        /\ scan' \in {"top", "scanning", "reading", "feeding", "over", "closed", "returned"}
        /\ scan' = "reading" => scan = "reading"
    <2>1. CASE FeedLine
      BY <1>2, <2>1 DEF FeedLine, Feed, Dog
    <2>2. CASE DogFires \/ EmitMarks \/ Emit
      <3>1. scan' = scan
        BY <2>2 DEF DogFires, EmitMarks, Emit, scanner
      <3>2. dog' \in Dog
        <4>1. CASE DogFires
          BY <1>2, <4>1 DEF DogFires, Dog
        <4>2. CASE EmitMarks
          BY <1>2, <4>2 DEF EmitMarks, Dog
        <4>3. CASE Emit
          BY <1>2, <4>3 DEF Emit, Dog
        <4> QED BY <2>2, <4>1, <4>2, <4>3
      <3> QED BY <3>1, <3>2 DEF RelayTypeOK
    <2>3. CASE CloseBridge
      BY <1>2, <2>3 DEF CloseBridge, Dog
    <2> QED BY <2>1, <2>2, <2>3
  <1>4. RelayTypeOK'
    BY <1>1, <1>3 DEF RelayTypeOK, SealInv, BridgeType, Written
  <1>5. ReadIsTimed'
    BY <1>1, <1>3 DEF ReadIsTimed, Deaf
  <1>6. DogInv' /\ OwedIsWatched'
    <2>1. CASE FeedLine
      <3>1. CASE Sealed
        <4>1. UNCHANGED <<bridge, dog>>
          BY <2>1, <3>1 DEF FeedLine, Feed
        <4> QED BY <4>1 DEF DogInv, OwedIsWatched, Sealed
      <3>2. CASE ~Sealed /\ bridge'.err
        <4>1. dog' = dog \/ (~dog.emitted /\ dog' = [dog EXCEPT !.timer = "armed"])
          BY <2>1 DEF FeedLine, Feed
        <4> QED BY <1>2, <3>2, <4>1 DEF Dog, DogInv, OwedIsWatched, Sealed
      <3>3. CASE ~Sealed /\ ~bridge'.err
        <4> DEFINE next == Translated(bridge, script[taken])
                   pending == next.owed /\ ~next.completed
        <4>1. next \in Bridge
          BY FramesOfALine DEF RelayTypeOK
        <4>2. bridge' # [next EXCEPT !.err = TRUE]
          BY <3>3, <4>1 DEF Bridge
        <4>3. /\ bridge' = [next EXCEPT !.finished = next.completed, !.pending = pending]
              /\ dog' = IF pending /\ ~dog.emitted /\ dog.timer = "none"
                        THEN [dog EXCEPT !.timer = "armed"] ELSE dog
          BY <2>1, <3>3, <4>2 DEF FeedLine, Feed
        <4>4. bridge'.pending = pending
          BY <4>1, <4>3 DEF Bridge
        <4>5. dog.emitted => dog.function = "emitting"
          BY <3>3 DEF DogInv
        <4> QED BY <1>2, <4>3, <4>4, <4>5 DEF Dog, DogInv, OwedIsWatched
      <3> QED BY <3>1, <3>2, <3>3
    <2>2. CASE DogFires
      <3>1. bridge' = bridge /\ dog.timer = "armed"
        BY <2>2 DEF DogFires
      <3>2. dog'.timer = "fired" /\ dog'.function = "fired" /\ dog'.emitted = dog.emitted
        BY <1>2, <2>2 DEF DogFires, Dog
      <3> QED BY <3>1, <3>2 DEF DogInv, OwedIsWatched, Sealed
    <2>3. CASE EmitMarks
      BY <1>2, <2>3 DEF EmitMarks, Dog, DogInv, OwedIsWatched, Sealed
    <2>4. CASE Emit \/ CloseBridge
      <3>1. Sealed'
        <4>1. bridge \in Bridge /\ Flushed(bridge) \in Bridge
          BY FlushedType DEF RelayTypeOK
        <4>2. CASE CloseBridge
          BY <4>2 DEF CloseBridge, SealInv, ClosedIsSealed
        <4>3. CASE Emit
          <5>1. CASE Sealed /\ bridge' = bridge
            BY <5>1 DEF Sealed
          <5>2. CASE bridge' = [Flushed(bridge) EXCEPT !.finished = TRUE, !.pending = FALSE]
            BY <4>1, <5>2 DEF Bridge, Sealed
          <5>3. CASE bridge' = [Flushed(bridge) EXCEPT !.err = TRUE]
            BY <4>1, <5>3 DEF Bridge, Sealed
          <5> QED BY <4>3, <5>1, <5>2, <5>3 DEF Emit
        <4> QED BY <2>4, <4>2, <4>3
      <3>2. /\ dog'.timer = "fired" => dog'.function = "fired"
            /\ dog'.emitted => dog'.timer = "none"
        BY <1>2, <2>4 DEF Emit, CloseBridge, Dog, DogInv
      <3> QED BY <3>1, <3>2 DEF DogInv, OwedIsWatched
    <2> QED BY <2>1, <2>2, <2>3, <2>4
  <1> QED BY <1>4, <1>5, <1>6

\* Every step keeps the two watches, given the seal.
LEMMA WatchStep == WatchInv /\ SealInv /\ SealInv' /\ [RelayNext]_relay => WatchInv'
  <1> SUFFICES ASSUME WatchInv, SealInv', [RelayNext]_relay PROVE WatchInv'
    OBVIOUS
  <1>1. CASE Over \/ UNCHANGED relay
    <2>1. UNCHANGED <<upstream, client, stopping, scanner, watches, stall, output>>
      BY <1>1 DEF Over, relay, upstream, scanner, watches, output
    <2>2. RelayTypeOK'
      BY <2>1 DEF WatchInv, RelayTypeOK, upstream, scanner, watches, output
    <2>3. DogInv' /\ OwedIsWatched' /\ ReadIsTimed'
      BY <2>1 DEF WatchInv, DogInv, OwedIsWatched, ReadIsTimed, Deaf, Sealed,
                  upstream, scanner, watches, output
    <2> QED BY <2>2, <2>3 DEF WatchInv
  <1>2. CASE RelayNext /\ ~Over
    BY <1>2, EnvironmentWatched, StallWatched, WatchesWatched, ScanWatched, BridgeWatched
       DEF RelayNext, Gateway, Scan
  <1> QED BY <1>1, <1>2

\* Every state of the relay satisfies both invariants.
THEOREM RelayInvariance == RelaySpec => [](SealInv /\ WatchInv)
  <1>1. SealInv /\ WatchInv /\ [RelayNext]_relay => (SealInv /\ WatchInv)'
    BY SealStep, WatchStep
  <1> QED BY SealInit, WatchInit, <1>1, PTL DEF RelaySpec

\* The positions never overtake one another, and the timers, the watches, the bridge and
\* the wire keep their ranges.
THEOREM RelayTypeCorrect == RelaySpec => []RelayTypeOK
  <1>1. WatchInv => RelayTypeOK
    BY DEF WatchInv
  <1> QED BY <1>1, RelayInvariance, PTL

\* A terminal event that is owed is never without a watchdog that will give up on its
\* trailer, nor a read of the upstream without an end (the deaf reader's excepted), for
\* any script and however functions, lines and resets interleave.
THEOREM NoWaitForgotten == RelaySpec => []WaitsAreWatched
  <1>1. WatchInv => WaitsAreWatched
    BY DEF WatchInv, WaitsAreWatched
  <1> QED BY <1>1, RelayInvariance, PTL
==============================================================================
