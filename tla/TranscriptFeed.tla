---------------------------- MODULE TranscriptFeed ----------------------------
(***************************************************************************)
(* The transcript of a running session and a browser that follows it       *)
(* through the headless server: TranscriptState and SessionRuntime's sink  *)
(* on the pipeline thread, the server's broadcast channel and handle_ws,   *)
(* and the page's TranscriptAccumulator.                                   *)
(*                                                                         *)
(* The sink applies an event to the shared state under a lock and passes   *)
(* it on after unlocking.  A page that connects is sent a snapshot of that *)
(* state first and is subscribed to the channel afterwards; the channel    *)
(* keeps a bounded number of events for a receiver that lags.              *)
(***************************************************************************)
EXTENDS Integers, Sequences, FiniteSets

CONSTANTS
  Speakers,             \* the speaker_id of each stream
  MaxEvents,            \* bound: events of the session
  Buffer,               \* capacity of the broadcast channel
  Nothing

ASSUME FeedAssumption ==
  /\ MaxEvents \in Nat /\ Buffer \in Nat \ {0}
  /\ Speakers \subseteq Nat /\ IsFiniteSet(Speakers) /\ Nothing \notin Nat

VARIABLES
  slot,                 \* the server's running listen: empty, starting, running, taken
  stage,                \* SessionRuntime.stage (idle stands for starting too)
  committed,            \* TranscriptState.committed
  hypothesis,           \* TranscriptState.hypothesis: each speaker's, or Nothing
  applied,              \* events the sink has let into the state so far
  emitting,             \* the event applied and not yet broadcast, or Nothing
  log,                  \* the events broadcast so far
  conn,                 \* the page's connection in handle_ws
  greeting,             \* the stage in the snapshot the page was sent, or Nothing
  missed,               \* events fell between the snapshot and the subscription
  twice,                \* the event in the snapshot that was broadcast later still, or 0
  position,             \* the next event in log this receiver takes
  lines,                \* TranscriptAccumulator.lines
  partialKey,           \* partialKeyBySpeaker: index into lines, 0 if there is none
  ui                    \* what the page says: idle, listening or paused

serverVars == <<stage, committed, hypothesis, applied, emitting>>
viewVars   == <<lines, partialKey, ui>>
gapVars    == <<missed, twice>>    \* history: read by the properties only
vars == <<slot, serverVars, log, conn, greeting, gapVars, position, viewVars>>

Stages == {"recording", "paused", "idle"}
SegmentEvents ==
  [kind : {"segment"}, speaker : Speakers, partial : BOOLEAN, text : 1..MaxEvents]
StatusEvents == [kind : {"status"}, stage : Stages]
Lines == [speaker : Speakers, text : 1..MaxEvents, partial : BOOLEAN]

ASSUME NothingIsNoEvent == Nothing \notin SegmentEvents \cup StatusEvents

Init ==
  /\ slot = "empty" /\ stage = "idle"
  /\ committed = <<>> /\ hypothesis = [s \in Speakers |-> Nothing]
  /\ applied = 0 /\ emitting = Nothing /\ log = <<>>
  /\ conn = "off" /\ greeting = Nothing /\ missed = FALSE /\ twice = 0 /\ position = 1
  /\ lines = <<>> /\ partialKey = [s \in Speakers |-> 0] /\ ui = "idle"
--------------------------------------------------------------------------------
\* Mutant: a final segment leaves the hypothesis it replaces in place.
KeepHypothesis(ev) ==
  IF ev.partial THEN hypothesis' = [hypothesis EXCEPT ![ev.speaker] = ev.text]
                ELSE UNCHANGED hypothesis

UpdateHypothesis(ev) ==
  hypothesis' = [hypothesis EXCEPT ![ev.speaker] = IF ev.partial THEN ev.text ELSE Nothing]

\* TranscriptState::apply.
ApplySegment(ev) ==
  /\ UpdateHypothesis(ev)
  /\ committed' = IF ev.partial THEN committed
                  ELSE Append(committed, [speaker |-> ev.speaker, text |-> ev.text])
  /\ UNCHANGED stage

ApplyStatus(ev) == stage' = ev.stage /\ UNCHANGED <<committed, hypothesis>>

\* SessionRuntime's sink, from its call to the release of the lock.
Apply(ev) ==
  /\ slot # "empty" /\ emitting = Nothing /\ applied < MaxEvents
  /\ \/ ev.kind = "segment" /\ ApplySegment(ev)
     \/ ev.kind = "status" /\ ApplyStatus(ev)
  /\ applied' = applied + 1
  /\ emitting' = ev
  /\ UNCHANGED <<slot, log, conn, greeting, gapVars, position, viewVars>>

\* Whatever the pipeline reports next, the text standing for the event's number.
Emit ==
  \/ \E s \in Speakers, p \in BOOLEAN :
       Apply([kind |-> "segment", speaker |-> s, partial |-> p, text |-> applied + 1])
  \/ \E st \in Stages : Apply([kind |-> "status", stage |-> st])

\* ... and the rest of the sink: the event enters the broadcast channel.
Broadcast ==
  /\ emitting # Nothing
  /\ log' = Append(log, emitting)
  /\ emitting' = Nothing
  /\ UNCHANGED <<slot, stage, committed, hypothesis, applied, conn, greeting, gapVars,
                 position, viewVars>>

\* start_listen_api holds the lock of the slot while the service starts, which
\* sets the pipeline going; stop_listen_api takes the session out, when no
\* snapshot is being made of it, before it is finished.
StartListen == slot = "empty" /\ slot' = "starting"
Started     == slot = "starting" /\ slot' = "running"
StopListen  == slot = "running" /\ conn # "stageRead" /\ slot' = "taken"

Server ==
  /\ StartListen \/ Started \/ StopListen
  /\ UNCHANGED <<serverVars, log, conn, greeting, gapVars, position, viewVars>>
--------------------------------------------------------------------------------
\* TranscriptAccumulator.push, on a view [lines, partialKey].
NewLine(view, seg) ==
  [lines |-> Append(view.lines, [speaker |-> seg.speaker, text |-> seg.text, partial |-> seg.partial]),
   partialKey |-> IF seg.partial
                  THEN [view.partialKey EXCEPT ![seg.speaker] = Len(view.lines) + 1]
                  ELSE view.partialKey]

\* Mutant: a final keeps the key of the line it has fixed.
UpdateLineKeepingKey(view, seg) ==
  [lines |-> [view.lines EXCEPT ![view.partialKey[seg.speaker]] =
                [@ EXCEPT !.text = seg.text, !.partial = seg.partial]],
   partialKey |-> view.partialKey]

UpdateLine(view, seg) ==
  [lines |-> [view.lines EXCEPT ![view.partialKey[seg.speaker]] =
                [@ EXCEPT !.text = seg.text, !.partial = seg.partial]],
   partialKey |-> IF seg.partial THEN view.partialKey
                  ELSE [view.partialKey EXCEPT ![seg.speaker] = 0]]

Push(view, seg) ==
  IF view.partialKey[seg.speaker] = 0 THEN NewLine(view, seg) ELSE UpdateLine(view, seg)

EmptyView == [lines |-> <<>>, partialKey |-> [s \in Speakers |-> 0]]
SetView(view) == lines' = view.lines /\ partialKey' = view.partialKey

\* applySnapshot: the committed segments, then each speaker's hypothesis, by id.
Speaking == {s \in Speakers : hypothesis[s] # Nothing}
RankOf(s) == Cardinality({t \in Speaking : t <= s})

HypothesisEvents ==
  [i \in 1..Cardinality(Speaking) |->
     LET s == CHOOSE s \in Speaking : RankOf(s) = i
     IN  [speaker |-> s, partial |-> TRUE, text |-> hypothesis[s]]]

CommittedEvents ==
  [i \in 1..Len(committed) |->
     [speaker |-> committed[i].speaker, partial |-> FALSE, text |-> committed[i].text]]

SnapshotView ==
  LET events == CommittedEvents \o HypothesisEvents
      view[i \in 0..Len(events)] ==
        IF i = 0 THEN EmptyView ELSE Push(view[i - 1], events[i])
  IN  view[Len(events)]
--------------------------------------------------------------------------------
\* handle_ws: the slot is locked for the length of snapshot(), which reads the
\* stage under one lock and then the transcript under another.
ReadStage ==
  /\ conn = "off" /\ slot = "running"
  /\ conn' = "stageRead" /\ greeting' = stage
  /\ UNCHANGED <<slot, serverVars, log, gapVars, position, viewVars>>

\* The page shows the snapshot; of its stages it knows only "recording".
ReadTranscript ==
  /\ conn = "stageRead"
  /\ conn' = "greeted"
  /\ SetView(SnapshotView)
  /\ ui' = IF greeting = "recording" THEN "listening" ELSE "idle"
  /\ position' = applied + 1        \* where a receiver without a gap goes on
  /\ UNCHANGED <<slot, serverVars, log, greeting, gapVars>>

\* Without a running listen there is no snapshot.
GreetWithoutSnapshot ==
  /\ conn = "off" /\ slot \in {"empty", "taken"}
  /\ conn' = "greeted"
  /\ position' = 1
  /\ UNCHANGED <<slot, serverVars, log, greeting, gapVars, viewVars>>

NextToCome == Len(log) + 1

\* state.events.subscribe(): the events from here on.  Events broadcast since the
\* snapshot are missed; the one that was in the state and not yet broadcast when the
\* snapshot was made is still to come if it has not been broadcast by now.
Subscribe ==
  /\ conn = "greeted" /\ conn' = "live"
  /\ missed' = (position < NextToCome)
  /\ twice' = IF position > NextToCome THEN NextToCome ELSE 0
  /\ position' = NextToCome
  /\ UNCHANGED <<slot, serverVars, log, greeting, viewVars>>

Lagging == Len(log) - (position - 1) > Buffer

\* The page handles one event.
Show(ev) ==
  IF ev.kind = "segment"
  THEN SetView(Push([lines |-> lines, partialKey |-> partialKey], ev)) /\ UNCHANGED ui
  ELSE /\ ui' = CASE ev.stage = "recording" -> "listening"
                  [] ev.stage = "paused" -> "paused"
                  [] OTHER -> "idle"
       /\ UNCHANGED <<lines, partialKey>>

Deliver ==
  /\ conn = "live" /\ position <= Len(log) /\ ~Lagging
  /\ Show(log[position])
  /\ position' = position + 1
  /\ UNCHANGED <<slot, serverVars, log, conn, greeting, gapVars>>

\* Mutant: the error of a receiver that lags is ignored.
IgnoreLag == UNCHANGED <<conn, position>>

CloseOnLag == conn' = "closed" /\ UNCHANGED position

\* A receiver that lags gets an error, upon which the server closes the socket;
\* the page does not connect again by itself.
FallBehind ==
  /\ conn = "live" /\ Lagging
  /\ CloseOnLag
  /\ UNCHANGED <<slot, serverVars, log, greeting, gapVars, viewVars>>

\* The user reloads the page, at any time.
Reload ==
  /\ conn # "off" /\ conn' = "off"
  /\ SetView(EmptyView) /\ ui' = "idle"
  /\ greeting' = Nothing /\ missed' = FALSE /\ twice' = 0 /\ position' = 1
  /\ UNCHANGED <<slot, serverVars, log>>
--------------------------------------------------------------------------------
Page == ReadStage \/ ReadTranscript \/ GreetWithoutSnapshot \/ Subscribe \/ Deliver \/ FallBehind

Next == Emit \/ Broadcast \/ Server \/ Page \/ Reload

Spec == Init /\ [][Next]_vars

\* The sink passes on what it has applied, and the connection's task is served.
FeedFairness == WF_vars(Broadcast) /\ WF_vars(Deliver \/ FallBehind)

FairSpec == Spec /\ FeedFairness
--------------------------------------------------------------------------------
FeedTypeOK ==
  /\ slot \in {"empty", "starting", "running", "taken"} /\ stage \in Stages
  /\ committed \in Seq([speaker : Speakers, text : 1..MaxEvents])
  /\ hypothesis \in [Speakers -> 1..MaxEvents \cup {Nothing}]
  /\ applied \in 0..MaxEvents
  /\ emitting \in SegmentEvents \cup StatusEvents \cup {Nothing}
  /\ log \in Seq(SegmentEvents \cup StatusEvents)
  /\ conn \in {"off", "stageRead", "greeted", "live", "closed"}
  /\ greeting \in Stages \cup {Nothing} /\ missed \in BOOLEAN /\ twice \in 0..applied
  /\ position \in 1..(applied + 1)
  /\ lines \in Seq(Lines)
  /\ DOMAIN partialKey = Speakers /\ \A s \in Speakers : partialKey[s] \in 0..Len(lines)
  /\ ui \in {"idle", "listening", "paused"}

FinalLines(s)  == {i \in 1..Len(lines) : lines[i].speaker = s /\ ~lines[i].partial}
OpenLines(s)   == {i \in 1..Len(lines) : lines[i].speaker = s /\ lines[i].partial}
CommittedBy(s) == {i \in 1..Len(committed) : committed[i].speaker = s}
TextsOf(seq, places) == {seq[i].text : i \in places}
InOrder(seq, places) == \A i, j \in places : i < j => seq[i].text < seq[j].text

\* The same, but for one text that may come twice in succession.
InOrderBut(text, seq, places) ==
  /\ \A i, j \in places : i < j => seq[i].text < seq[j].text
                                     \/ (seq[i].text = text /\ seq[j].text = text)
  /\ \A i, j, k \in places : i < j /\ j < k => seq[i].text < seq[k].text

CaughtUp == position = Len(log) + 1 /\ emitting = Nothing

\* A page that missed nothing between snapshot and subscription shows, for each
\* speaker, the committed segments in the order in which they were said and one open
\* line exactly when there is a hypothesis: the accumulators in Rust and TypeScript
\* agree.  Each segment is shown once, but for the one that was in the state and not
\* yet broadcast when the snapshot was made and came through the channel too: a final
\* is then on two neighbouring lines of its speaker.
PageAgrees ==
  conn = "live" /\ ~missed /\ CaughtUp =>
    \A s \in Speakers :
      /\ TextsOf(lines, FinalLines(s)) = TextsOf(committed, CommittedBy(s))
      /\ InOrderBut(twice, lines, FinalLines(s)) /\ InOrder(committed, CommittedBy(s))
      /\ TextsOf(lines, OpenLines(s)) = {hypothesis[s]} \ {Nothing}
      /\ \A i, j \in OpenLines(s) : i = j

\* What a connected page shows when it has caught up is what the session's state
\* says, as far as the snapshot and the channel gave it everything
\* (transcript.rs, runtime.rs:36-47, server lib.rs:1008-1025, transcript.ts).
CaughtUpAgrees == FeedTypeOK /\ PageAgrees

\* What architecture-v2.md:303 says of the snapshot that a page is sent before it is
\* subscribed: by it no reload loses what was said meanwhile.
ReloadLosesNothing ==
  conn = "live" /\ greeting # Nothing /\ CaughtUp =>
    \A s \in Speakers :
      TextsOf(committed, CommittedBy(s)) \subseteq TextsOf(lines, FinalLines(s))

\* What the page has shown as final stays as it is until the page is reloaded.
FinalLinesStay ==
  [][conn = "live" /\ conn' = "live" =>
       \A i \in 1..Len(lines) : ~lines[i].partial => lines'[i] = lines[i]]_vars

\* A connected page catches up with the session, or its socket is closed.
CatchesUp == (conn = "live") ~> (conn # "live" \/ CaughtUp)
================================================================================
