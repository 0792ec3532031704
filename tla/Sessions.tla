------------------------------- MODULE Sessions -------------------------------
(***************************************************************************)
(* The sessions of one program, one after the other and overlapping: the   *)
(* slot of the running one, the thread that finishes another, their        *)
(* engines from one pool, their rows in one database                       *)
(* (crates/talksage-pipeline/src/service.rs, crates/talksage-asr/src/      *)
(* lib.rs, crates/talksage-session/src/lib.rs and the commands of          *)
(* crates/talksage-server/src/lib.rs and web/src-tauri/src/lib.rs).        *)
(*                                                                         *)
(* SessionLifecycle looks into one session; here a session has one stream, *)
(* writes a row at a time and may be deleted, summarised or cut off by a   *)
(* crash while another one runs.                                           *)
(***************************************************************************)
EXTENDS Naturals, Sequences, FiniteSets, SequencesExt, FiniteSetsExt

CONSTANTS
  MaxSessions,          \* bound: sessions started in the life of the database
  MaxSegments,          \* bound: segments in the table
  MaxJobs,              \* bound: summaries asked for
  Hotwords,             \* settings of the recogniser a session may be started with
  Capacity,             \* POOL_MAX_PER_KEY of a streaming engine, 1 of another
  Epoch, MaxTime,       \* seconds since 1970 at the start, and the last second
  None

\* The session that a thread starts, first without a row.
Starters == [step : {"built", "row"}, hotwords : Hotwords, id : Nat \cup {None}]

ASSUME SessionsAssumption ==
  /\ MaxSessions \in Nat \ {0} /\ MaxSegments \in Nat /\ MaxJobs \in Nat
  /\ Capacity \in Nat \ {0}
  /\ Epoch \in Nat \ {0} /\ MaxTime \in Nat /\ MaxTime >= Epoch
  /\ None \notin Nat /\ None \notin Starters

Ids == 1..MaxSessions
Engines == 1..(MaxSessions + 1)

VARIABLES
  process, now, hotwords,  \* up or down, the clock, the configuration
  starter,              \* the thread that holds the slot's lock to start, or None
  slot,                 \* AppState.running: the session listening, or None
  finishing,            \* sessions taken out of the slot, and how far finish is
  pipeline,             \* the pipeline thread of each session
  options,              \* the settings each session was built with
  engine,               \* the engine its stream holds, or None
  pool,                 \* EnginePool: by key, the engines kept, last one on top
  heard,                \* what an engine has heard since it was reset: sessions
  built,                \* engines created so far
  sequence,             \* SQLite's sequence of session ids
  sessions,             \* the table of sessions: what is in each of its rows
  segments,             \* the table of segments
  jobs,                 \* summaries in the making: the id and whose text it is
  unclosed              \* sessions whose end could not be written

slotVars   == <<starter, slot, finishing>>
streamVars == <<pipeline, options, engine>>
poolVars   == <<pool, heard, built>>
storeVars  == <<sequence, sessions, segments, unclosed>>
vars == <<process, now, hotwords, slotVars, streamVars, poolVars, storeVars, jobs>>

Rows == DOMAIN sessions

Init ==
  /\ process = "up" /\ now = Epoch /\ hotwords \in Hotwords
  /\ starter = None /\ slot = None /\ finishing = [id \in {} |-> None]
  /\ pipeline = [id \in Ids |-> "none"] /\ options = [id \in Ids |-> None]
  /\ engine = [id \in Ids |-> None]
  /\ pool = [key \in Hotwords |-> <<>>] /\ heard = [e \in Engines |-> {}]
  /\ built = [e \in {} |-> None]
  /\ sequence = 0 /\ sessions = [id \in {} |-> None] /\ segments = {}
  /\ jobs = {} /\ unclosed = {}
--------------------------------------------------------------------------------
\* The session store.  UPDATE of a row that is gone changes nothing.
Update(id, column, value) ==
  sessions' = IF id \in Rows THEN [sessions EXCEPT ![id][column] = value] ELSE sessions

\* start_session: AUTOINCREMENT gives no id twice.
NextId == sequence + 1

InsertSession(birth) ==
  /\ sequence' = sequence + 1
  /\ sessions' = [id \in Rows \cup {NextId} |->
       IF id = NextId THEN [birth |-> birth, started |-> now, ended |-> None, notes |-> None]
       ELSE sessions[id]]

\* Mutant: foreign keys are not enforced.
InsertSegmentUnchecked(id, length) ==
  segments' = segments \cup {[of |-> id, ts |-> now, length |-> length]}

\* add_segment: its time is the end of the segment, in milliseconds since 1970.
\* The bundled SQLite enforces foreign keys: a segment of a session that is
\* gone is refused, which the writer logs.
InsertSegment(id, length) ==
  segments' = IF id \in Rows
              THEN segments \cup {[of |-> id, ts |-> now, length |-> length]}
              ELSE segments

\* end_session, whose error the service ignores.
EndSession(id) ==
  \/ Update(id, "ended", now) /\ UNCHANGED unclosed
  \/ unclosed' = unclosed \cup {id} /\ UNCHANGED sessions

\* close_orphan_sessions: started_at plus the largest of its segments' times
\* and lengths.
OrphanEnd(id) ==
  LET last == {s.ts + s.length : s \in {t \in segments : t.of = id}}
  IN sessions[id].started + IF last = {} THEN 0 ELSE Max(last)

CloseOrphans ==
  sessions' = [id \in Rows |->
    IF sessions[id].ended = None THEN [sessions[id] EXCEPT !.ended = OrphanEnd(id)]
    ELSE sessions[id]]

\* What is read: list_sessions and search, of which the pages show the latest, and
\* get_session, which fails without a row.
ListSessions ==
  {[id |-> id, ended |-> sessions[id].ended, segments |-> Cardinality({s \in segments : s.of = id})] :
     id \in Rows}

Search == segments

GetSession(id) == [row |-> sessions[id], segments |-> {s \in segments : s.of = id}]
--------------------------------------------------------------------------------
\* The pool.  EnginePool::key: kind, directory and settings.
Key(wanted) == wanted

Acquire(id) ==
  LET key == Key(options[id])
      new == CHOOSE e \in Engines : e \notin DOMAIN built
  IN \/ /\ pool[key] # <<>>
        /\ engine' = [engine EXCEPT ![id] = Last(pool[key])]
        /\ pool' = [pool EXCEPT ![key] = Front(@)]
        /\ UNCHANGED <<heard, built>>
     \/ /\ pool[key] = <<>> /\ Engines \ DOMAIN built # {}
        /\ engine' = [engine EXCEPT ![id] = new]
        /\ built' = [e \in DOMAIN built \cup {new} |->
                       IF e = new THEN options[id] ELSE built[e]]
        /\ UNCHANGED <<pool, heard>>

\* Mutant: an engine is put back as it is.
ReleaseDirty(id) ==
  LET key == Key(options[id])
  IN /\ engine' = [engine EXCEPT ![id] = None]
     /\ IF Len(pool[key]) < Capacity
        THEN /\ pool' = [pool EXCEPT ![key] = Append(@, engine[id])]
             /\ UNCHANGED <<heard, built>>
        ELSE /\ built' = [e \in DOMAIN built \ {engine[id]} |-> built[e]]
             /\ UNCHANGED <<pool, heard>>

\* release_with_options: reset, then kept if there is room for it.
Release(id) ==
  LET key == Key(options[id])
  IN /\ engine' = [engine EXCEPT ![id] = None]
     /\ heard' = [heard EXCEPT ![engine[id]] = {}]
     /\ IF Len(pool[key]) < Capacity
        THEN pool' = [pool EXCEPT ![key] = Append(@, engine[id])] /\ UNCHANGED built
        ELSE /\ built' = [e \in DOMAIN built \ {engine[id]} |-> built[e]]
             /\ UNCHANGED pool
--------------------------------------------------------------------------------
\* start_listen: the lock of the slot is held from the test to the assignment.
\* build_live_config takes its snapshot of the configuration; without models
\* there is no session and no row.
StartListen ==
  /\ process = "up" /\ starter = None /\ slot = None /\ sequence < MaxSessions
  /\ starter' = [step |-> "built", hotwords |-> hotwords, id |-> None]
  /\ UNCHANGED <<process, now, hotwords, slot, finishing, streamVars, poolVars,
                 storeVars, jobs>>

StartRow ==
  /\ starter # None /\ starter.step = "built"
  /\ InsertSession(sequence + 1)
  /\ starter' = [starter EXCEPT !.step = "row", !.id = NextId]
  /\ options' = [options EXCEPT ![NextId] = starter.hotwords]
  /\ UNCHANGED <<process, now, hotwords, slot, finishing, pipeline, engine, poolVars,
                 segments, unclosed, jobs>>

\* The writer and the runtime start; the streams are built by the new thread.
StartDone ==
  /\ starter # None /\ starter.step = "row"
  /\ slot' = starter.id /\ starter' = None
  /\ pipeline' = [pipeline EXCEPT ![starter.id] = "loading"]
  /\ UNCHANGED <<process, now, hotwords, finishing, options, engine, poolVars,
                 storeVars, jobs>>

\* Mutant: the row stays open when the start fails.
StartFailsOpen ==
  /\ starter # None /\ starter.step = "row" /\ starter' = None
  /\ UNCHANGED <<process, now, hotwords, slot, finishing, streamVars, poolVars,
                 storeVars, jobs>>

\* The writer's thread or the runtime cannot be started: the row is ended.
StartFails ==
  /\ starter # None /\ starter.step = "row" /\ starter' = None
  /\ EndSession(starter.id)
  /\ UNCHANGED <<process, now, hotwords, slot, finishing, streamVars, poolVars,
                 sequence, segments, jobs>>

\* stop_listen takes the session out of the slot and hands it to a thread, from
\* when on the next one may start.
StopListen ==
  /\ starter = None /\ slot # None
  /\ finishing' = [id \in DOMAIN finishing \cup {slot} |->
                     IF id = slot THEN "taken" ELSE finishing[id]]
  /\ slot' = None
  /\ UNCHANGED <<process, now, hotwords, starter, streamVars, poolVars, storeVars, jobs>>

\* TalkSageService::finish: cancel the pipeline; wait for it, but not for ever;
\* close the writer; end the session.
FinishCancels(id) ==
  /\ finishing[id] = "taken"
  /\ finishing' = [finishing EXCEPT ![id] = "joining"]
  /\ UNCHANGED <<process, now, hotwords, starter, slot, streamVars, poolVars,
                 storeVars, jobs>>

Without(id) == [other \in DOMAIN finishing \ {id} |-> finishing[other]]

FinishEnds(id) ==
  /\ finishing[id] = "joining"                  \* joined, or after five seconds
  /\ finishing' = Without(id)
  /\ EndSession(id)                             \* or the writer panicked
  /\ UNCHANGED <<process, now, hotwords, starter, slot, streamVars, poolVars,
                 sequence, segments, jobs>>
--------------------------------------------------------------------------------
\* The pipeline thread builds its stream.  StreamWorker::new drops an engine it
\* has got if what comes after it fails.
Load(id) ==
  /\ pipeline[id] = "loading"
  /\ pipeline' = [pipeline EXCEPT ![id] = "running"]
  /\ Acquire(id)
  /\ UNCHANGED <<process, now, hotwords, slotVars, options, storeVars, jobs>>

LoadFails(id) ==
  /\ pipeline[id] = "loading"
  /\ pipeline' = [pipeline EXCEPT ![id] = "gone"]
  /\ LET key == Key(options[id])
     IN \/ UNCHANGED <<pool, built>>
        \/ /\ pool[key] # <<>>
           /\ pool' = [pool EXCEPT ![key] = Front(@)]
           /\ built' = [e \in DOMAIN built \ {Last(pool[key])} |-> built[e]]
  /\ UNCHANGED <<process, now, hotwords, slotVars, options, engine, heard,
                 storeVars, jobs>>

\* A segment is begun with an engine reset once more; it is committed through
\* the writer as long as that is open, unless it turned out to have no text.
Hear(id) ==
  /\ pipeline[id] = "running"
  /\ heard' = [heard EXCEPT ![engine[id]] = {id}]
  /\ UNCHANGED <<process, now, hotwords, slotVars, streamVars, pool, built,
                 storeVars, jobs>>

Commit(id) ==
  /\ pipeline[id] = "running" /\ id \in heard[engine[id]]
  /\ heard' = [heard EXCEPT ![engine[id]] = {}]
  /\ \/ UNCHANGED segments
     \/ /\ id = slot \/ id \in DOMAIN finishing
        /\ Cardinality(segments) < MaxSegments
        /\ \E length \in 0..1 : InsertSegment(id, length)
  /\ UNCHANGED <<process, now, hotwords, slotVars, streamVars, pool, built,
                 sequence, sessions, unclosed, jobs>>

\* run_loop ends: cancelled, out of input, or on an error.  StreamWorker::
\* shutdown gives the engine back, in the middle of a segment or not.
PipelineEnds(id) ==
  /\ pipeline[id] = "running"
  /\ pipeline' = [pipeline EXCEPT ![id] = "gone"]
  /\ Release(id)
  /\ UNCHANGED <<process, now, hotwords, slotVars, options, storeVars, jobs>>
--------------------------------------------------------------------------------
\* generate_notes and generate_trio_notes: read the session, ask the language
\* model for as long as it takes, store the text under the id.
AskForNotes ==
  /\ process = "up" /\ Cardinality(jobs) < MaxJobs
  /\ \E id \in Rows : jobs' = jobs \cup {[id |-> id, birth |-> GetSession(id).row.birth]}
  /\ UNCHANGED <<process, now, hotwords, slotVars, streamVars, poolVars, storeVars>>

StoreNotes ==
  /\ \E job \in jobs :
       /\ jobs' = jobs \ {job}
       /\ Update(job.id, "notes", job.birth)
  /\ UNCHANGED <<process, now, hotwords, slotVars, streamVars, poolVars, sequence,
                 segments, unclosed>>

NotesFail ==
  /\ \E job \in jobs : jobs' = jobs \ {job}
  /\ UNCHANGED <<process, now, hotwords, slotVars, streamVars, poolVars, storeVars>>

\* delete_session: the segments first, then the row, also of a running session.
Delete ==
  /\ process = "up"
  /\ \E id \in Rows :
       /\ segments' = {s \in segments : s.of # id}
       /\ sessions' = [other \in Rows \ {id} |-> sessions[other]]
  /\ UNCHANGED <<process, now, hotwords, slotVars, streamVars, poolVars, sequence,
                 unclosed, jobs>>

ChangeHotwords ==
  /\ process = "up" /\ hotwords' \in Hotwords \ {hotwords}
  /\ UNCHANGED <<process, now, slotVars, streamVars, poolVars, storeVars, jobs>>

\* The end of the process: quit ends it at once, as a crash does.
Gone ==
  /\ process' = "down" /\ starter' = None /\ slot' = None
  /\ finishing' = [id \in {} |-> None]
  /\ pipeline' = [id \in Ids |-> IF pipeline[id] = "none" THEN "none" ELSE "gone"]
  /\ engine' = [id \in Ids |-> None]
  /\ pool' = [key \in Hotwords |-> <<>>] /\ heard' = [e \in Engines |-> {}]
  /\ built' = [e \in {} |-> None] /\ jobs' = {}

Exit ==
  /\ process = "up" /\ Gone
  /\ UNCHANGED <<now, hotwords, options, storeVars>>

\* It ends between the two statements of delete_session.
ExitInDelete ==
  /\ process = "up" /\ Gone
  /\ \E id \in Rows : segments' = {s \in segments : s.of # id}
  /\ UNCHANGED <<now, hotwords, options, sequence, sessions, unclosed>>

\* The next start: recover_on_startup before anything else.
Restart ==
  /\ process = "down" /\ process' = "up"
  /\ CloseOrphans /\ unclosed' = {}
  /\ UNCHANGED <<now, hotwords, slotVars, streamVars, poolVars, sequence, segments, jobs>>

Tick ==
  /\ now < MaxTime /\ now' = now + 1
  /\ UNCHANGED <<process, hotwords, slotVars, streamVars, poolVars, storeVars, jobs>>

Next ==
  \/ StartListen \/ StartRow \/ StartDone \/ StartFails \/ StopListen
  \/ \E id \in DOMAIN finishing : FinishCancels(id) \/ FinishEnds(id)
  \/ \E id \in Ids : \/ Load(id) \/ LoadFails(id) \/ Hear(id) \/ Commit(id)
                     \/ PipelineEnds(id)
  \/ AskForNotes \/ StoreNotes \/ NotesFail \/ Delete \/ ChangeHotwords
  \/ Exit \/ ExitInDelete \/ Restart \/ Tick

Spec == Init /\ [][Next]_vars
--------------------------------------------------------------------------------
\* A segment belongs to a session that is in the table: deleting a session
\* while it runs, while it is finished or before a crash leaves no segments
\* that searches would still find.
SegmentsHaveTheirSession ==
  \A hit \in Search : \E listed \in ListSessions :
    /\ listed.id = hit.of /\ listed.segments > 0
    /\ hit \in GetSession(hit.of).segments

\* A summary that took its time is stored only with the session whose text it
\* was made from, whatever was deleted and started meanwhile.
NotesAreOfTheirSession ==
  \A id \in Rows : sessions[id].notes # None => sessions[id].notes = sessions[id].birth

\* What is written of a session, late as it may be, is written of that session
\* and of no other that took its place (session lib.rs:634-800).
RowsAreOfTheirSession == SegmentsHaveTheirSession /\ NotesAreOfTheirSession

\* While the program runs, a session without an end is being started, listened
\* to or finished, unless its end could not be written.
OpenHasOwner ==
  process = "up" =>
    \A id \in Rows : sessions[id].ended = None =>
      \/ starter # None /\ starter.id = id
      \/ id = slot \/ id \in DOMAIN finishing \/ id \in unclosed

\* Sessions that overlap share the pool and no engine: the engine of a stream
\* was built with the settings of that session's snapshot, nobody else holds it
\* and it is not in the pool, and it has heard nothing of another session.
EngineIsOwn ==
  \A id \in Ids : engine[id] # None =>
    /\ built[engine[id]] = options[id]
    /\ heard[engine[id]] \subseteq {id}
    /\ \A other \in Ids \ {id} : engine[other] # engine[id]
    /\ \A key \in Hotwords : ~Contains(pool[key], engine[id])

\* session/src/lib.rs:652: an orphan ends when its last segment ended, which
\* was at some time in the past.
OrphansEndWithTheirLastSegment ==
  \A id \in Rows : sessions[id].ended # None =>
    sessions[id].ended <= now
================================================================================
