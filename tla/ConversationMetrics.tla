-------------------------- MODULE ConversationMetrics --------------------------
(***************************************************************************)
(* The figures of a conversation, computed anew from all its final         *)
(* segments after each of them, and the rules that turn them into advice   *)
(* (crates/talksage-core/src/metrics.rs).                                  *)
(*                                                                         *)
(* A segment says whose it is, when it ended (by the wall clock), how long *)
(* it was, how many words it has and whether one of them asks.  Ratios are   *)
(* compared by cross multiplication.                                       *)
(***************************************************************************)
EXTENDS Naturals, Sequences

CONSTANTS
  MinSpan, MinCall,     \* the least spans a pace is computed over
  Gap, MonologueTime,   \* what ends a monologue, and what makes one
  Cooldown,             \* between two pieces of advice
  MinSpeech,            \* before the share of the talk is commented on
  QuestionsAfter, QuestionTime, \* before questions are counted; one is expected in each
  FastPace,             \* words per MinuteTime
  MinuteTime,
  WrapUp                \* when the call should come to its end: set of <<from, to>>

ASSUME MetricsBounds ==
  /\ {MinSpan, MinCall, Gap, MonologueTime, Cooldown, MinSpeech} \subseteq Nat
  /\ {QuestionsAfter, FastPace} \subseteq Nat /\ {QuestionTime, MinuteTime} \subseteq Nat \ {0}
  /\ WrapUp \subseteq Nat \X Nat

Less(m, n) == IF m > n THEN m - n ELSE 0
More(m, n) == IF m > n THEN m ELSE n

\* ts_ms is the end of the segment; nothing starts before 0.
Turn(seg) == [me |-> seg.me, start |-> Less(seg.ts, seg.duration), end |-> seg.ts,
              words |-> seg.words, asks |-> seg.asks]

\* No segment that is logged is blank or partial.
Turns(log) == [i \in DOMAIN log |-> Turn(log[i])]

\* Mutant: the segments are taken in the order in which they came.
TimelineAsHeard(log) == Turns(log)

Place(sorted, turn) ==
  LET before == CHOOSE n \in 0..Len(sorted) :
                  \A i \in DOMAIN sorted : sorted[i].start <= turn.start <=> i <= n
  IN SubSeq(sorted, 1, before) \o <<turn>> \o SubSeq(sorted, before + 1, Len(sorted))

\* The turns by the time they began, those of one time in the order they came.
Timeline(log) ==
  LET sorted[n \in 0..Len(log)] == IF n = 0 THEN <<>> ELSE Place(sorted[n - 1], Turns(log)[n])
  IN sorted[Len(log)]

Of(line, me) == SelectSeq(line, LAMBDA t : t.me = me)
Length(turn) == Less(turn.end, turn.start)
Total(numbers) ==
  LET sum[n \in 0..Len(numbers)] == IF n = 0 THEN 0 ELSE sum[n - 1] + numbers[n]
  IN sum[Len(numbers)]
TalkTime(line, me) == Total([i \in DOMAIN Of(line, me) |-> Length(Of(line, me)[i])])
Words(line, me) == Total([i \in DOMAIN Of(line, me) |-> Of(line, me)[i].words])
Questions(line) == Len(SelectSeq(Of(line, TRUE), LAMBDA t : t.asks))
CallEnd(line) ==
  LET end[n \in 0..Len(line)] == IF n = 0 THEN 0 ELSE More(end[n - 1], line[n].end)
  IN end[Len(line)]

\* A turn that begins before the turn in front of it, of the other side, ends.
Interrupts(line, n) ==
  n > 1 /\ line[n - 1].me # line[n].me /\ line[n].start < line[n - 1].end
Interruptions(line) ==
  Total([n \in DOMAIN line |-> IF Interrupts(line, n) THEN 1 ELSE 0])

Silence == [on |-> FALSE, from |-> 0, to |-> 0, longest |-> 0]
Close(s) == [on |-> FALSE, from |-> 0, to |-> 0,
             longest |-> IF s.on THEN More(s.longest, Less(s.to, s.from)) ELSE s.longest]
Listen(s, t) ==
  IF ~t.me THEN Close(s)
  ELSE IF s.on /\ Less(t.start, s.to) < Gap THEN [s EXCEPT !.to = t.end]
  ELSE [on |-> TRUE, from |-> t.start, to |-> t.end, longest |-> Close(s).longest]

\* detect_monologue: the longest stretch of my turns that no turn of another and
\* no gap interrupts.
LongestMonologue(line) ==
  LET heard[n \in 0..Len(line)] == IF n = 0 THEN Silence ELSE Listen(heard[n - 1], line[n])
  IN Close(heard[Len(line)]).longest

\* My words and the span they are spread over: from my first turn to my last, or
\* else all of the call; <<0, 1>> when both are too short.
Pace(line) ==
  LET mine == Of(line, TRUE)
      span == IF mine = <<>> THEN 0 ELSE Less(mine[Len(mine)].end, mine[1].start)
  IN IF span > MinSpan THEN <<Words(line, TRUE), span>>
     ELSE IF CallEnd(line) > MinCall THEN <<Words(line, TRUE), CallEnd(line)>>
     ELSE <<0, 1>>

\* The average length is rounded down, and so is what is computed from it.
Speech(line, me) ==
  LET n == Len(Of(line, me)) IN IF n = 0 THEN 0 ELSE n * (TalkTime(line, me) \div n)

\* compute_conversation_metrics.
Metrics(log) ==
  LET line == Timeline(log)
  IN [mine |-> TalkTime(line, TRUE), theirs |-> TalkTime(line, FALSE),
      pace |-> Pace(line), questions |-> Questions(line),
      longest |-> LongestMonologue(line),
      monologue |-> LongestMonologue(line) > MonologueTime,
      interruptions |-> Interruptions(line),
      speech |-> Speech(line, TRUE) + Speech(line, FALSE)]
--------------------------------------------------------------------------------
\* NudgeEngine: the rules in their order; the first that has something to say.
OverTalks(m) == m.speech >= MinSpeech /\ 100 * m.mine > 65 * (m.mine + m.theirs)
AsksLittle(m, call) ==
  /\ call >= QuestionsAfter
  /\ m.questions < (call \div QuestionTime) \div 2
Hurries(m) == m.pace[1] * MinuteTime > FastPace * m.pace[2]

Advice(m, call) ==
  IF OverTalks(m)
  THEN {<<"talk_ratio", IF 100 * m.mine > 75 * (m.mine + m.theirs) THEN "medium" ELSE "low">>}
  ELSE IF AsksLittle(m, call) THEN {<<"questions", "low">>}
  ELSE IF Hurries(m) THEN {<<"pace", "low">>}
  ELSE {<<"next_steps", w[1]>> : w \in {v \in WrapUp : v[1] <= call /\ call < v[2]}}

\* NudgeEngine::evaluate: nothing within the cooldown of the last advice.
Evaluate(m, call, now, last) ==
  IF Less(now, last) < Cooldown THEN {} ELSE Advice(m, call)
--------------------------------------------------------------------------------
\* The figures again, said of the turns without an order or a state: a turn of
\* mine goes on to the next one of mine when the gap is short and nobody else
\* began in between.
TurnSet(log) == {Turns(log)[i] : i \in DOMAIN Turns(log)}
Between(turns, a, b) == {t \in turns : a.start < t.start /\ t.start < b.start}

Unbroken(turns, a, b) ==
  /\ a.me /\ b.me /\ a.start <= b.start
  /\ \A t \in Between(turns, a, b) : t.me
  /\ \A c \in {a} \cup Between(turns, a, b) : c = b \/
       \E d \in {b} \cup Between(turns, c, b) : Less(d.start, c.end) < Gap

LongestByTurns(turns) ==
  LET stretches == {p \in turns \X turns : Unbroken(turns, p[1], p[2])}
  IN {Less(p[2].end, p[1].start) : p \in stretches}

InterruptedByTurns(turns) ==
  {p \in turns \X turns : /\ p[1].me # p[2].me /\ Between(turns, p[1], p[2]) = {}
                          /\ p[1].start < p[2].start /\ p[2].start < p[1].end}

DistinctStarts(log) ==
  \A i, j \in DOMAIN Turns(log) : Turns(log)[i].start = Turns(log)[j].start => i = j
================================================================================
