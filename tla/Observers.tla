------------------------------- MODULE Observers -------------------------------
(***************************************************************************)
(* What the observers make of the final segments of a session, and what    *)
(* the page shows of it: figures and advice, explained terms, briefs,      *)
(* translations and key points (crates/talksage-plugins/src: term_         *)
(* explainer.rs, brief_retriever.rs, translator.rs,                        *)
(* conversation_metrics.rs, key_point_extractor.rs; make_on_final in       *)
(* crates/talksage-pipeline/src/lib.rs; App.tsx of the page).              *)
(*                                                                         *)
(* The pipeline's thread asks one observer after the other whether a       *)
(* segment concerns it, shows at once what it has, and leaves the slow     *)
(* rest to the workers of the plugin executor, who run the jobs beside it. *)
(* The wall clock is far from zero, where a time that was never set is.    *)
(***************************************************************************)
EXTENDS KeyPoints, ConversationMetrics, FiniteSets

CONSTANTS
  Sessions,             \* the observers that are on, whether advice is, how many
                        \* segments come, in what time, and which may come, each with
                        \* its lag, the time from its end to its dispatch; none of
                        \* them is blank
  Epoch,                \* the wall clock at the start
  Second,               \* in units of the clock
  Workers,              \* of the plugin executor
  TermCooldown, BriefCooldown,
  Translation,          \* mode and languages of the translation policy
  MaxBriefs,            \* briefs on the page
  None

IsTalk(said) ==
  /\ said.me \in BOOLEAN /\ {said.lag, said.duration, said.words} \subseteq Nat
  /\ said.clauses \in Seq({said.clauses[i] : i \in DOMAIN said.clauses})

ASSUME ObserverBounds ==
  /\ {Second, Workers} \subseteq Nat \ {0}
  /\ {Epoch, TermCooldown, BriefCooldown} \subseteq Nat
  /\ MaxBriefs \in Nat
  /\ \A s \in Sessions : {s.most, s.time} \subseteq Nat /\ \A said \in s.says : IsTalk(said)
  /\ Epoch > TermCooldown /\ Epoch > BriefCooldown /\ Epoch > Cooldown

VARIABLES
  session,              \* one of Sessions
  now,
  heard,                \* segments dispatched so far
  until,                \* the end of the last one of each side
  call,                 \* the dispatch: the segment and the observers still to ask
  log, advised,         \* conversation_metrics: segments, time of the last advice
  points,               \* key_point_extractor
  seen, termAt, pending,\* term_explainer
  briefAt,              \* brief_retriever
  queue, running,       \* the jobs
  page,
  briefs,               \* every brief so far (history)
  times                 \* of the segments that brought key points (history)

observerVars == <<log, advised, points, seen, termAt, pending, briefAt>>
liveVars == <<session, now, heard, until, call, observerVars, queue, running, page, briefs, times>>

\* The observers that are on, in the order in which the plugins are registered.
Only(o) == IF o \in session.on THEN <<o>> ELSE <<>>
Others == Only("terms") \o Only("translator") \o Only("briefs") \o Only("points")
Asked == Only("metrics") \o Others

EmptyPage == [points |-> <<>>, terms |-> <<>>, briefs |-> <<>>, metrics |-> None,
              advice |-> None, translations |-> [l \in {"me", "them"} |-> None]]

LiveInit ==
  /\ session \in Sessions
  /\ now = Epoch /\ heard = 0 /\ until = [me \in BOOLEAN |-> 0] /\ call = None
  /\ log = <<>> /\ advised = 0 /\ points = <<>>
  /\ seen = {} /\ termAt = 0 /\ pending = None /\ briefAt = 0
  /\ queue = <<>> /\ running = {} /\ page = EmptyPage
  /\ briefs = <<>> /\ times = <<>>
--------------------------------------------------------------------------------
\* The page, which puts a key point or a term that it has in its place again.
Upsert(list, item) ==
  IF \E i \in DOMAIN list : list[i].id = item.id
  THEN [list EXCEPT ![CHOOSE i \in DOMAIN list : list[i].id = item.id] = item]
  ELSE Append(list, item)

ShowPoint(list, point) ==
  IF \E i \in DOMAIN list : list[i].id = point.id THEN Upsert(list, point)
  ELSE Newest(MaxItems, Append(list, point))

ShowPoints(list, added) ==
  LET shown[n \in 0..Len(added)] == IF n = 0 THEN list ELSE ShowPoint(shown[n - 1], added[n])
  IN shown[Len(added)]

ShowTerm(id, terms, final) ==
  page' = [page EXCEPT !.terms = Upsert(@, [id |-> id, terms |-> terms, final |-> final])]

\* applyIncomingNudge: the same advice is not shown anew.
ShowAdvice(shown, advice) == IF advice = {} THEN shown ELSE CHOOSE a \in advice : TRUE
--------------------------------------------------------------------------------
Tick ==
  /\ now < Epoch + session.time /\ now' = now + 1
  /\ UNCHANGED <<session, heard, until, call, observerVars, queue, running, page, briefs, times>>

Segment(said) ==
  [me |-> said.me, ts |-> now - said.lag, duration |-> said.duration, no |-> heard,
   words |-> said.words, asks |-> said.asks, noisy |-> said.noisy, length |-> said.length,
   clauses |-> said.clauses, terms |-> said.terms, matches |-> said.matches]

\* A final segment that the filters let through; its time is that of its end, and
\* the segments of one side follow each other.
Hear(said) ==
  /\ call = None /\ heard < session.most
  /\ until[said.me] + said.duration <= now - said.lag
  /\ heard' = heard + 1 /\ until' = [until EXCEPT ![said.me] = now - said.lag]
  /\ call' = IF Asked = <<>> THEN None
             ELSE [seg |-> Segment(said), ask |-> Asked, act |-> FALSE, known |-> 0]
  /\ UNCHANGED <<session, now, observerVars, queue, running, page, briefs, times>>

Unseen(seg) == seg.terms \ seen
Cooling(last, cooldown) == cooldown > 0 /\ last > 0 /\ now - last < cooldown

ShouldTrigger(o, seg) ==
  CASE o \in {"metrics", "points", "translator"} -> TRUE
    [] o = "terms" -> ~seg.me /\ Unseen(seg) # {} /\ ~Cooling(termAt, TermCooldown)
    [] o = "briefs" -> ~seg.me /\ ~Cooling(briefAt, BriefCooldown)

Rest == IF Len(call.ask) = 1 THEN None ELSE [call EXCEPT !.ask = Tail(@), !.act = FALSE]

Ask ==
  /\ call # None /\ ~call.act
  /\ call' = IF ShouldTrigger(Head(call.ask), call.seg)
             THEN [call EXCEPT !.act = TRUE, !.known = Len(briefs)] ELSE Rest
  /\ UNCHANGED <<session, now, heard, until, observerVars, queue, running, page, briefs, times>>
--------------------------------------------------------------------------------
Job(o, id) ==
  [observer |-> o, stage |-> "queued", event |-> None, known |-> call.known,
   skeleton |-> id, alone |-> FALSE,
   seg |-> [me |-> call.seg.me, no |-> call.seg.no, ts |-> call.seg.ts,
            terms |-> call.seg.terms, matches |-> call.seg.matches]]

Jobs == {queue[i] : i \in DOMAIN queue} \cup running
Crowded(job) == [job EXCEPT !.alone = FALSE]

\* PluginExecutorHandle::submit.  The runs of the figures and of the key points do
\* nothing; what the queue holds of them is left out, and so the queue may be full
\* at any time.  A job of the term explainer is alone until another segment comes
\* to it.
Submit(job) ==
  LET alone == job.skeleton # None /\ \A other \in Jobs : other.observer # "terms"
      crowded == job.observer = "terms"
      waiting == IF crowded THEN [i \in DOMAIN queue |-> Crowded(queue[i])] ELSE queue
  IN /\ queue' \in {waiting, Append(waiting, [job EXCEPT !.alone = alone])}
     /\ running' = IF crowded THEN {Crowded(other) : other \in running} ELSE running

Act(o) ==
  /\ call # None /\ call.act /\ Head(call.ask) = o /\ call' = Rest
  /\ UNCHANGED <<session, now, heard, until, briefs>>

\* ConversationMetricsObserver::skeleton.
ActMetrics ==
  /\ Act("metrics")
  /\ LET longer == Append(log, call.seg)
         m == Metrics(longer)
         advice == IF session.advise THEN Evaluate(m, now - Epoch, now, advised) ELSE {}
     IN /\ log' = longer
        /\ advised' = IF advice = {} THEN advised ELSE now
        /\ page' = [page EXCEPT !.metrics = m, !.advice = ShowAdvice(@, advice)]
  /\ UNCHANGED <<queue, running, points, seen, termAt, pending, briefAt, times>>

\* KeyPointExtractorObserver::skeleton.
ActPoints ==
  /\ Act("points")
  /\ LET pushed == Push(points, call.seg, call.seg.ts)
     IN /\ points' = pushed.items
        /\ page' = [page EXCEPT !.points = ShowPoints(@, pushed.added)]
        /\ times' = IF pushed.added = <<>> THEN times ELSE Append(times, call.seg.ts)
  /\ UNCHANGED <<queue, running, log, advised, seen, termAt, pending, briefAt>>

TermId == now \div Second

\* TermExplainerPlugin::skeleton: by now the terms may all be explained.
ActTerms ==
  /\ Act("terms")
  /\ IF Unseen(call.seg) = {} THEN UNCHANGED <<pending, page>> /\ Submit(Job("terms", None))
     ELSE /\ pending' = TermId
          /\ ShowTerm(TermId, Unseen(call.seg), FALSE)
          /\ Submit(Job("terms", TermId))
  /\ UNCHANGED <<log, advised, points, seen, termAt, briefAt, times>>

\* The translator and the brief retriever have nothing to show at once.
ActLater(o) ==
  /\ o \in {"translator", "briefs"} /\ Act(o) /\ Submit(Job(o, None))
  /\ UNCHANGED <<observerVars, page, times>>
--------------------------------------------------------------------------------
Take ==
  /\ queue # <<>> /\ Cardinality(running) < Workers
  /\ running' = running \cup {[Head(queue) EXCEPT !.stage = "run"]}
  /\ queue' = Tail(queue)
  /\ UNCHANGED <<session, now, heard, until, call, observerVars, page, briefs, times>>

Becomes(job, next) == running' = (running \ {job}) \cup {next}
Ends(job) == running' = running \ {job}
Done(job, event) == [job EXCEPT !.stage = "done", !.event = event]

\* direction of TranslatorPlugin::run, None when it has nothing to do.
Direction(seg) ==
  LET from == IF seg.me THEN Translation.mine ELSE Translation.theirs
      to == IF seg.me THEN Translation.theirs ELSE Translation.mine
  IN IF \/ Translation.mode = "off"
        \/ Translation.mode = "client_to_user" /\ seg.me
        \/ <<from, to>> \notin {<<"en", "zh">>, <<"zh", "en">>}
     THEN None ELSE <<from, to>>

Asks(job) ==
  \/ job.observer = "terms" /\ job.seg.terms # {}
  \/ job.observer = "translator" /\ Direction(job.seg) # None

\* A run that brings nothing: no work, nothing found, an empty answer, an error.
Nothing(job) ==
  /\ job.stage = "run" /\ (job.observer = "briefs" => ~job.seg.matches)
  /\ Ends(job)
  /\ UNCHANGED <<session, now, heard, until, call, observerVars, queue, page, briefs, times>>

\* Mutant: the cooldown begins when the segment ended.
FindBriefSince(job) ==
  /\ job.stage = "run" /\ job.observer = "briefs" /\ job.seg.matches
  /\ briefAt' = job.seg.ts
  /\ Becomes(job, Done(job, job.seg.no))
  /\ briefs' = Append(briefs, [found |-> now, known |-> job.known])
  /\ UNCHANGED <<session, now, heard, until, call, log, advised, points, seen, termAt, pending, queue, page, times>>

\* BriefRetrieverPlugin::run.
FindBrief(job) ==
  /\ job.stage = "run" /\ job.observer = "briefs" /\ job.seg.matches
  /\ briefAt' = now
  /\ Becomes(job, Done(job, job.seg.no))
  /\ briefs' = Append(briefs, [found |-> now, known |-> job.known])
  /\ UNCHANGED <<session, now, heard, until, call, log, advised, points, seen, termAt, pending, queue, page, times>>

\* TranslatorPlugin::run, with an answer.
Translate(job) ==
  /\ job.stage = "run" /\ job.observer = "translator" /\ Asks(job)
  /\ Becomes(job, Done(job, job.seg.no))
  /\ UNCHANGED <<session, now, heard, until, call, observerVars, queue, page, briefs, times>>

\* TermExplainerPlugin::run with an answer: all the terms of the segment are
\* explained, in the place that the last skeleton left.
Explain(job) ==
  /\ job.stage = "run" /\ job.observer = "terms" /\ Asks(job)
  /\ seen' = seen \cup job.seg.terms /\ termAt' = now
  /\ Becomes(job, [job EXCEPT !.stage = "explained"])
  /\ UNCHANGED <<session, now, heard, until, call, log, advised, points, pending, briefAt, queue, page, briefs, times>>

TakePlace(job) ==
  /\ job.stage = "explained"
  /\ Becomes(job, Done(job, IF pending = None THEN TermId ELSE pending))
  /\ pending' = None
  /\ UNCHANGED <<session, now, heard, until, call, log, advised, points, seen, termAt, briefAt, queue, page, briefs, times>>

Show(job) ==
  CASE job.observer = "terms" -> ShowTerm(job.event, job.seg.terms, TRUE)
    [] job.observer = "briefs" -> page' = [page EXCEPT !.briefs = Newest(MaxBriefs, Append(@, job.event))]
    [] job.observer = "translator" ->
         page' = [page EXCEPT !.translations[IF Direction(job.seg) = <<"en", "zh">> THEN "them" ELSE "me"] = job.event]

\* The worker emits the event, unless the run has taken too long.
Emit(job) ==
  /\ job.stage = "done" /\ Ends(job)
  /\ Show(job) \/ UNCHANGED page
  /\ UNCHANGED <<session, now, heard, until, call, observerVars, queue, briefs, times>>
--------------------------------------------------------------------------------
LiveNext ==
  \/ Tick
  \/ \E said \in session.says : Hear(said)
  \/ Ask
  \/ ActMetrics \/ ActPoints \/ ActTerms \/ \E o \in session.on : ActLater(o)
  \/ Take
  \/ \E job \in running : \/ Nothing(job) \/ FindBrief(job) \/ Translate(job) \/ Explain(job)
                          \/ TakePlace(job) \/ Emit(job)

LiveSpec == LiveInit /\ [][LiveNext]_liveVars
--------------------------------------------------------------------------------
LiveTypeOK ==
  /\ session \in Sessions /\ now \in Epoch..Epoch + session.time /\ heard \in 0..session.most
  /\ Len(points) <= MaxItems /\ Len(page.briefs) <= MaxBriefs
  /\ Cardinality(running) <= Workers

\* The cards of key points on the page are the session's own list, in its order,
\* across the cut at its end, as long as no two segments that brought points
\* ended at the same time; and no point comes again within the window (key_
\* points.rs:49-75, App.tsx:217-228).
PageShowsThePoints ==
  (\A i, j \in DOMAIN times : times[i] = times[j] => i = j) => page.points = points

RecentPointsDiffer ==
  \A i, j \in DOMAIN points :
    i < j /\ j - i <= DedupWindow => points[i].content # points[j].content

\* The key points, in the session and on the page.
KeyPointsAreKept == LiveTypeOK /\ RecentPointsDiffer /\ PageShowsThePoints

\* The figures are those of the talk, in whatever order its segments came: as
\* long as no two began at the same time, the longest monologue and the
\* interruptions are what they are by the times of the turns (metrics.rs:83-225).
FiguresAreOfTheTalk ==
  page.metrics # None /\ DistinctStarts(log) =>
    LET turns == TurnSet(log)
    IN /\ page.metrics.interruptions = Cardinality(InterruptedByTurns(turns))
       /\ \A n \in LongestByTurns(turns) : n <= page.metrics.longest
       /\ page.metrics.longest \in LongestByTurns(turns) \cup {0}

\* A brief comes within the cooldown of an earlier one only when its segment was
\* let through before that one was found: what is checked when a segment comes
\* is set by the workers later (brief_retriever.rs:36-64).
BriefsAreSpaced ==
  \A i, j \in DOMAIN briefs :
    i < j /\ briefs[j].found - briefs[i].found < BriefCooldown => briefs[j].known < i

\* An explanation takes the place of its own skeleton when no other job of the
\* term explainer was there from the one to the other.  Of the rest nothing is said:
\* the place is one slot that all segments share (term_explainer.rs:54-55, 96-150).
AnswersTakeTheirPlace ==
  \A job \in running :
    job.observer = "terms" /\ job.stage = "done" /\ job.alone => job.event = job.skeleton

\* What the workers bring later fits what has happened in between.
LateAnswersFit == BriefsAreSpaced /\ AnswersTakeTheirPlace

\* lib.rs:129 (talksage-core): every explanation replaces the card that was shown
\* for it, whatever other segments bring in the meantime.
AnswersFindTheirCards ==
  \A job \in running :
    job.observer = "terms" /\ job.stage = "done" /\ job.skeleton # None => job.event = job.skeleton
================================================================================
