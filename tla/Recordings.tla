------------------------------ MODULE Recordings ------------------------------
(***************************************************************************)
(* The recordings of a session on disk: a file of each stream under a      *)
(* temporary name, its header and its final name, the stereo master, and   *)
(* what the next start recovers after a crash                              *)
(* (crates/talksage-audio/src/wav.rs, StreamWorker in                      *)
(* crates/talksage-pipeline/src/lib.rs, build_master_recording and         *)
(* recover_incomplete_recordings in crates/talksage-pipeline/src/          *)
(* service.rs).                                                            *)
(*                                                                         *)
(* The module goes with the steps of Capture: a stream writes the chunks   *)
(* that it accepts.  A file is its header and the blocks behind it, each   *)
(* what one write has left there: a chunk or, where the process ended or   *)
(* the disk was full in the middle of it, a piece of one.                  *)
(***************************************************************************)
EXTENDS Capture, SequencesExt, FiniteSetsExt

CONSTANTS
  Dirs, First,          \* recording directories that the configuration may name,
                        \* and the one that it names at first
  Rate,                 \* TARGET_SAMPLE_RATE
  Silence,              \* what fills up the shorter track
  None

ASSUME RecordingsAssumption ==
  /\ First \in Dirs /\ "master" \notin Streams
  /\ None \notin Dirs \cup Streams \cup Nat /\ Rate \in Nat \ {0}

VARIABLES
  up,                   \* the process runs
  dir,                  \* the configured directory
  home,                 \* the session's directory, None if it does not record
  files,                \* by name: directory, stem, temporary or final
  recorder,             \* per stream: WavRecorder.data_bytes, or None without one
  unwritten,            \* the stream that has accepted a chunk and is to write it, or
                        \* was when the process ended
  master,               \* of the service: none, writing, or how it ended
  sound                 \* no write, no finish and no recovery has failed

recordVars == <<up, dir, home, files, recorder, unwritten, master, sound>>
vars == <<captureVars, recordVars>>

Part(d, stem)  == [dir |-> d, stem |-> stem, part |-> TRUE]
Final(d, stem) == [dir |-> d, stem |-> stem, part |-> FALSE]
Names == DOMAIN files

\* Of a header, what readers look at: RIFF and WAVE, the number of channels, the
\* sample rate, the length of the data.
Header(channels, length) ==
  [wave |-> TRUE, channels |-> channels, rate |-> Rate, length |-> length]
Zeros == [wave |-> FALSE, channels |-> 0, rate |-> 0, length |-> 0]

\* write_pcm16_header over the header h: what a process that ends between two of
\* its writes has left, from the first to the last.
Patches(h, new) ==
  <<h, [h EXCEPT !.wave = TRUE], [h EXCEPT !.wave = TRUE, !.channels = new.channels],
    [new EXCEPT !.length = h.length], new>>

Block(chunk, whole) == [chunk |-> chunk, whole |-> whole]
File(header, body) == [header |-> header, body |-> body]
Put(fs, name, file) == [n \in DOMAIN fs \cup {name} |-> IF n = name THEN file ELSE fs[n]]
Unlink(fs, name) == [n \in DOMAIN fs \ {name} |-> fs[n]]

\* rename: the file of the final name, if there is one, is replaced.
Rename(fs, name) ==
  Unlink(Put(fs, Final(name.dir, name.stem), fs[name]), name)

Init ==
  /\ CaptureInit
  /\ up = TRUE /\ dir = First /\ home \in {First, None}
  /\ files = [n \in {} |-> None] /\ recorder = [s \in Streams |-> None]
  /\ unwritten = None /\ master = "none" /\ sound = TRUE
--------------------------------------------------------------------------------
\* WavRecorder::create: an empty file with a header of zeros.
Create(s) ==
  IF home = None THEN UNCHANGED <<files, recorder>>
  ELSE /\ files' = Put(files, Part(home, s), File(Zeros, <<>>))
       /\ recorder' = [recorder EXCEPT ![s] = 0]

BuildStream(s) ==
  /\ up /\ Build(s) /\ Create(s)
  /\ UNCHANGED <<up, dir, home, unwritten, master, sound>>

\* The build fails before or after the file is there; the recorder is gone.
BuildStreamFails(s) ==
  /\ up /\ BuildFails(s)
  /\ \/ UNCHANGED files
     \/ home # None /\ files' = Put(files, Part(home, s), File(Zeros, <<>>))
  /\ UNCHANGED <<up, dir, home, recorder, unwritten, master, sound>>

\* tick: the clock counts the chunk, then the recorder has it.
Accept(s) ==
  /\ up /\ AcceptChunk(s)
  /\ unwritten' = IF recorder[s] = None THEN None ELSE s
  /\ UNCHANGED <<up, dir, home, files, recorder, master, sound>>

\* The disk with one more block in a file.
Grown(name, block) == [files EXCEPT ![name].body = Append(@, block)]
NextBlock(s, whole) == Grown(Part(home, s), Block(Last(accepted[s]), whole))

\* WavRecorder::write, whose error the stream ignores: of the chunk nothing, or a
\* piece, is then on the disk, and not counted.
Write(s) ==
  /\ up /\ unwritten = s /\ recorder[s] # None /\ unwritten' = None
  /\ \/ /\ files' = NextBlock(s, TRUE) /\ recorder' = [recorder EXCEPT ![s] = @ + 1]
        /\ UNCHANGED sound
     \/ files' \in {files, NextBlock(s, FALSE)} /\ UNCHANGED recorder /\ sound' = FALSE
  /\ UNCHANGED <<captureVars, up, dir, home, master>>

\* Mutant: the file is renamed first.
FinishStagesRenameFirst(fs, name, new) ==
  LET renamed == Rename(fs, name)
  IN <<fs, renamed, [renamed EXCEPT ![Final(name.dir, name.stem)].header = new]>>

\* The header, then the rename (WavRecorder::finish): the states of the disk, from
\* the first to the last.
FinishStages(fs, name, new) ==
  LET patched(i) == [fs EXCEPT ![name].header = Patches(fs[name].header, new)[i]]
  IN <<fs, patched(2), patched(3), patched(4), patched(5), Rename(patched(5), name)>>

ClosingStages(s) == FinishStages(files, Part(home, s), Header(1, recorder[s]))

\* The end of StreamWorker::shutdown; a finish that fails leaves the file as it
\* is at that stage.
CloseAndFinish(s) ==
  /\ up /\ CloseStream(s)
  /\ recorder' = [recorder EXCEPT ![s] = None]
  /\ IF recorder[s] = None THEN UNCHANGED <<files, sound>>
     ELSE \/ files' = Last(ClosingStages(s)) /\ UNCHANGED sound
          \/ files' \in Range(Front(ClosingStages(s))) /\ sound' = FALSE
  /\ UNCHANGED <<up, dir, home, unwritten, master>>
--------------------------------------------------------------------------------
\* build_master_recording, when the loop has ended in time: of the recordings
\* that are there, in the order of the streams.
Recorded == {i \in 1..Len(workers) : home # None /\ Final(home, workers[i]) \in Names}
Track(t) == workers[CHOOSE i \in Recorded : Cardinality({j \in Recorded : j <= i}) = t]
Longer(m, n) == IF m > n THEN m ELSE n
MasterName == Part(home, "master")

Frame(s, i) ==
  LET track == files[Final(home, s)]
  IN IF i <= track.header.length THEN track.body[i].chunk ELSE Silence

\* Mutant: the shorter track ends the master.
TotalFramesOfShorter ==
  LET m == files[Final(home, Track(1))].header.length
      n == files[Final(home, Track(2))].header.length
  IN IF m < n THEN m ELSE n

TotalFrames ==
  Longer(files[Final(home, Track(1))].header.length,
         files[Final(home, Track(2))].header.length)

\* What the next write adds, to its end or cut off.
Frames(whole) ==
  LET i == Len(files[MasterName].body) + 1
  IN Grown(MasterName, Block(<<Frame(Track(1), i), Frame(Track(2), i)>>, whole))

MasterStarts ==
  /\ up /\ loop = "ended" /\ workers # <<>> /\ master = "none"
  /\ IF Cardinality(Recorded) < 2 THEN master' = "single" /\ UNCHANGED files
     ELSE /\ master' = "writing"
          /\ files' = Put(files, MasterName, File(Header(2, 0), <<>>))
  /\ UNCHANGED <<captureVars, up, dir, home, recorder, unwritten, sound>>

MasterGrowing == up /\ master = "writing" /\ Len(files[MasterName].body) < TotalFrames
MasterFull    == up /\ master = "writing" /\ Len(files[MasterName].body) = TotalFrames
MasterStages  == FinishStages(files, MasterName, Header(2, TotalFrames))

MasterGrows ==
  /\ MasterGrowing /\ files' = Frames(TRUE)
  /\ UNCHANGED <<captureVars, up, dir, home, recorder, unwritten, master, sound>>

MasterEnds ==
  /\ MasterFull /\ files' = Last(MasterStages) /\ master' = "done"
  /\ UNCHANGED <<captureVars, up, dir, home, recorder, unwritten, sound>>

\* A track that ends before its header says, a full disk: nothing stays.
MasterFails ==
  /\ up /\ master = "writing"
  /\ master' = "failed" /\ files' = Unlink(files, MasterName)
  /\ UNCHANGED <<captureVars, up, dir, home, recorder, unwritten, sound>>
--------------------------------------------------------------------------------
\* The process ends, and with it all that the loop and the devices kept in memory.
Halt ==
  /\ up' = FALSE
  /\ loop' = "ended" /\ UNCHANGED <<workers, accepted>>
  /\ now' = 0 /\ offset' = 0 /\ cursor' = 0 /\ stopping' = FALSE
  /\ paused' = FALSE /\ wasPaused' = FALSE /\ drainedNow' = FALSE
  /\ pauses' = 0 /\ held' = 0 /\ unwanted' = [s \in Streams |-> {}]
  /\ device' = [s \in Streams |-> "off"]
  /\ begun' = [s \in Streams |-> 0] /\ delivered' = [s \in Streams |-> 0]
  /\ overruns' = [s \in Streams |-> 0]
  /\ queue' = [s \in Streams |-> <<>>] /\ dropped' = [s \in Streams |-> {}]
  /\ due' = [s \in Streams |-> 0] /\ done' = [s \in Streams |-> FALSE]
  /\ recorder' = [s \in Streams |-> None]
  /\ master' = IF master \in {"none", "writing"} THEN "cut" ELSE master
  /\ UNCHANGED <<dir, home, unwritten>>

Crash == up /\ Halt /\ UNCHANGED <<files, sound>>

\* In the middle of a write or of a finish, of a stream or of the master.  (A master
\* that has no frames yet is removed again, whatever there is of its header.)
CrashInWrite(s) ==
  /\ up /\ unwritten = s /\ recorder[s] # None /\ files' = NextBlock(s, FALSE)
  /\ Halt /\ UNCHANGED sound

CrashInFinish(s) ==
  /\ up /\ ShuttingDown(s) /\ device[s] = "off" /\ recorder[s] # None
  /\ files' \in Range(ClosingStages(s))
  /\ Halt /\ UNCHANGED sound

CrashInMaster ==
  /\ \/ MasterGrowing /\ files' = Frames(FALSE)
     \/ MasterFull /\ files' \in Range(MasterStages)
  /\ Halt /\ UNCHANGED sound

\* recover_part_file, for a recording that is not empty: the length is the file's;
\* channels and rate are those of its header if that is recognised, and at least 1.
Rescued(file) ==
  LET length == Len(file.body)
  IN IF file.header.wave
     THEN [file.header EXCEPT !.channels = Longer(@, 1), !.rate = Longer(@, 1),
                              !.length = length]
     ELSE Header(1, length)

RecoveryStages(fs, name) == FinishStages(fs, name, Rescued(fs[name]))

\* Mutant: an empty recording is passed over.
RecoverOneNotEmpty(fs, name) ==
  IF fs[name].body = <<>> THEN fs ELSE Last(RecoveryStages(fs, name))

\* An empty recording is removed.
RecoverOne(fs, name) ==
  IF fs[name].body = <<>> THEN Unlink(fs, name) ELSE Last(RecoveryStages(fs, name))

\* The process ends in the middle of a recovery.
CrashInRecovery(name) ==
  /\ ~up /\ name.part /\ files[name].body # <<>>
  /\ files' \in Range(RecoveryStages(files, name))
  /\ UNCHANGED <<captureVars, up, dir, home, recorder, unwritten, master, sound>>

\* recover_orphan_recordings of the directory that is configured by then, and of
\* no other; an error at one of the files is logged.
Left(d) == {n \in Names : n.part /\ n.dir = d}

Restart ==
  /\ ~up /\ up' = TRUE
  /\ dir' \in Dirs
  /\ \E failing \in SUBSET Left(dir') :
       /\ files' = FoldSet(LAMBDA n, fs : RecoverOne(fs, n), files, Left(dir') \ failing)
       /\ sound' = (sound /\ failing = {})
  /\ UNCHANGED <<captureVars, home, recorder, unwritten, master>>

\* The loop's thread: one step of it may also be a step of a recorder.
Loop ==
  /\ up /\ unwritten = None
  /\ \/ LoopStep /\ UNCHANGED recordVars
     \/ \E s \in Streams : \/ BuildStream(s) \/ BuildStreamFails(s)
                           \/ Accept(s) \/ CloseAndFinish(s)

Next ==
  \/ Loop \/ (\E s \in Streams : Write(s))
  \/ up /\ Around /\ UNCHANGED recordVars
  \/ MasterStarts \/ MasterGrows \/ MasterEnds \/ MasterFails
  \/ Crash \/ CrashInMaster \/ Restart
  \/ \E s \in Streams : CrashInWrite(s) \/ CrashInFinish(s)
  \/ \E n \in Names : CrashInRecovery(n)

Spec == Init /\ [][Next]_vars
--------------------------------------------------------------------------------
\* wav.rs: that the final name exists means that the file is complete and can
\* be read: a header that is recognised and claims what is behind it, all of it
\* unless a write failed, at whatever point the process ended and however often
\* it recovered.
FinalIsWhole ==
  \A n \in Names : ~n.part =>
    LET header == files[n].header
    IN /\ header.wave /\ header.channels = IF n.stem = "master" THEN 2 ELSE 1
       /\ header.length <= Len(files[n].body)
       /\ sound => header.length = Len(files[n].body)

\* The blocks that a stream has handed over in full.
Written(s) == Len(accepted[s]) - (IF unwritten = s THEN 1 ELSE 0)

\* wav.rs: what a stream accepted is in its recording, under one name or the other,
\* in its order and with nothing else, through the finish, the master, a crash and
\* the recovery.  Missing, in part or all of it, is at most the block that was to be
\* written when the process ended.
NothingRecordedIsLost ==
  home # None /\ sound =>
    \A s \in Range(workers) : LET names == {Part(home, s), Final(home, s)} \cap Names IN
      /\ Written(s) > 0 => names # {}
      /\ \A n \in names : LET body == files[n].body IN
           /\ Len(body) \in {Written(s), Len(accepted[s])}
           /\ \A i \in 1..Len(body) : /\ body[i].chunk = accepted[s][i]
                                      /\ i <= Written(s) => body[i].whole

\* A recording is what its stream accepted, from the first chunk to the last, and
\* says so when it has its final name (wav.rs:85-200).
RecordingIsWhole == FinalIsWhole /\ NothingRecordedIsLost

\* The master has both tracks from beginning to end, the shorter one filled up;
\* one that a crash cut off is a beginning of it, up to a piece of the last block.
MasterHasBothTracks ==
  home # None /\ Final(home, "master") \in Names /\ sound =>
    LET tracks == [i \in 1..2 |-> accepted[workers[i]]]
        body == files[Final(home, "master")].body
    IN /\ \A i \in 1..Len(body), t \in 1..2 :
            body[i].chunk[t] = IF i <= Len(tracks[t]) THEN tracks[t][i] ELSE Silence
       /\ \A i \in 1..Len(body) : body[i].whole \/ (master = "cut" /\ i = Len(body))
       /\ master = "done" => Len(body) = Longer(Len(tracks[1]), Len(tracks[2]))

\* service.rs: after the start that follows a crash no recording is left under
\* its temporary name, if it was made in the directory that is configured.
RestartRecovers ==
  [][~up /\ up' /\ sound' => \A n \in DOMAIN files' : n.part => n.dir # dir']_vars
================================================================================
