--------------------------- MODULE FileTranscription ---------------------------
(***************************************************************************)
(* POST /v1/audio/transcriptions: an uploaded recording is written down,   *)
(* brought to the pipeline's sample rate, transcribed by a pipeline of its *)
(* own, and answered (transcribe_api in crates/talksage-server/src/lib.rs, *)
(* transcribe_file in crates/talksage-pipeline/src/offline.rs).            *)
(*                                                                         *)
(* Requests run side by side and share a directory for their files.  The   *)
(* client may go away at any time; the handler then stops where it waits,  *)
(* and what it started goes on.                                            *)
(***************************************************************************)
EXTENDS Naturals, Sequences

CONSTANTS
  Requests,
  MaxParts,             \* final segments of a recording
  LastStamp             \* of the clock of the file names

VARIABLES
  handler,              \* of each request: upload, named, written, waiting, answered
                        \* or gone with its client
  stamp, sequence,      \* the clock, and the number of the next file
  name,                 \* of the request's files: <<stamp, number>>
  files,                \* on disk: [name, kind, audio], audio the request it is of
  job,                  \* the blocking thread: none, polling, stopping, text, done
  pipeline,             \* none, building, running, idle
  reads,                \* whose recordings the pipeline has read
  text, parts,          \* what the sink has collected
  answer                \* text and parts, as the thread has read them, and whether
                        \* the pipeline had ended by then

fileVars == <<handler, stamp, sequence, name, files, job, pipeline, reads, text, parts, answer>>

FileInit ==
  /\ handler = [r \in Requests |-> "upload"]
  /\ stamp = 0 /\ sequence = 0 /\ name = [r \in Requests |-> <<>>]
  /\ files = {} /\ job = [r \in Requests |-> "none"]
  /\ pipeline = [r \in Requests |-> "none"] /\ reads = [r \in Requests |-> {}]
  /\ text = [r \in Requests |-> <<>>] /\ parts = [r \in Requests |-> <<>>]
  /\ answer = [r \in Requests |-> [text |-> <<>>, parts |-> <<>>, whole |-> FALSE]]
--------------------------------------------------------------------------------
Handler(r, from, to) == handler[r] = from /\ handler' = [handler EXCEPT ![r] = to]
Thread(r, from, to) == job[r] = from /\ job' = [job EXCEPT ![r] = to]
Pipeline(r, from, to) == pipeline[r] = from /\ pipeline' = [pipeline EXCEPT ![r] = to]

File(r, kind, audio) == [name |-> name[r], kind |-> kind, audio |-> audio]
FilesNamed(r, kind) == {f \in files : f.name = name[r] /\ f.kind = kind}
Put(file) == {f \in files : <<f.name, f.kind>> # <<file.name, file.kind>>} \cup {file}
RemoveFiles(r) == files' = {f \in files : f.name # name[r]}

TickStamp ==
  /\ stamp < LastStamp /\ stamp' = stamp + 1
  /\ UNCHANGED <<handler, sequence, name, files, job, pipeline, reads, text, parts, answer>>

\* No token, no file, an unknown format, a model that is not there; or the client
\* goes away while its upload is read.
Refuse(r) ==
  /\ Handler(r, "upload", "answered") \/ Handler(r, "upload", "gone")
  /\ UNCHANGED <<stamp, sequence, name, files, job, pipeline, reads, text, parts, answer>>

\* Mutant: the time alone names the files.
NameAfterTime(r) == name' = [name EXCEPT ![r] = <<stamp, 0>>] /\ sequence' = sequence + 1

NameFiles(r) == name' = [name EXCEPT ![r] = <<stamp, sequence>>] /\ sequence' = sequence + 1

Accept(r) ==
  /\ Handler(r, "upload", "named") /\ NameFiles(r)
  /\ UNCHANGED <<stamp, files, job, pipeline, reads, text, parts, answer>>

WriteUpload(r) ==
  /\ Handler(r, "named", "written") /\ files' = Put(File(r, "upload", r))
  /\ UNCHANGED <<stamp, sequence, name, job, pipeline, reads, text, parts, answer>>

\* normalize_wav, and the blocking thread.
NormalizeWav(r) ==
  /\ Handler(r, "written", "waiting") /\ Thread(r, "none", "starting")
  /\ \E f \in FilesNamed(r, "upload") : files' = Put(File(r, "wav", f.audio))
  /\ UNCHANGED <<stamp, sequence, name, pipeline, reads, text, parts, answer>>

\* What is written of the two files is removed.
PrepareFails(r) ==
  /\ Handler(r, "named", "answered") \/ Handler(r, "written", "answered")
  /\ RemoveFiles(r)
  /\ UNCHANGED <<stamp, sequence, name, job, pipeline, reads, text, parts, answer>>

\* The client goes away while the handler waits for the blocking thread.
Leave(r) ==
  /\ Handler(r, "waiting", "gone")
  /\ UNCHANGED <<stamp, sequence, name, files, job, pipeline, reads, text, parts, answer>>

\* The files go, and the answer, an error or not, is sent.
Reply(r) ==
  /\ Handler(r, "waiting", "answered") /\ job[r] = "done" /\ RemoveFiles(r)
  /\ UNCHANGED <<stamp, sequence, name, job, pipeline, reads, text, parts, answer>>
--------------------------------------------------------------------------------
\* runtime.start, which may fail.
StartPipeline(r) ==
  /\ \/ Thread(r, "starting", "polling") /\ Pipeline(r, "none", "building")
     \/ Thread(r, "starting", "done") /\ UNCHANGED pipeline
  /\ UNCHANGED <<handler, stamp, sequence, name, files, reads, text, parts, answer>>

\* The recording is read as a whole when the stream is built, if it is there; a
\* pipeline that cannot be built says that it is idle, and ends.
ReadRecording(r) ==
  /\ \/ FilesNamed(r, "wav") # {} /\ Pipeline(r, "building", "running")
     \/ Pipeline(r, "building", "idle")
  /\ reads' = [reads EXCEPT ![r] = @ \cup {f.audio : f \in FilesNamed(r, "wav")}]
  /\ UNCHANGED <<handler, stamp, sequence, name, files, job, text, parts, answer>>

\* The sink holds the text while it appends the segment to the list as well.
Collect(r) ==
  /\ pipeline[r] = "running" /\ Len(parts[r]) < MaxParts
  /\ text' = [text EXCEPT ![r] = Append(@, Len(@))]
  /\ parts' = [parts EXCEPT ![r] = Append(@, Len(@))]
  /\ UNCHANGED <<handler, stamp, sequence, name, files, job, pipeline, reads, answer>>

\* The end of the recording, or the stop, after which it is idle.
Idle(r) ==
  /\ Pipeline(r, "running", "idle")
  /\ UNCHANGED <<handler, stamp, sequence, name, files, job, reads, text, parts, answer>>

\* Mutant: only the pipeline ends the waiting.
StopPollingWhenIdle(r) ==
  /\ pipeline[r] = "idle" /\ Thread(r, "polling", "stopping")
  /\ UNCHANGED <<handler, stamp, sequence, name, files, pipeline, reads, text, parts, answer>>

\* The pipeline is idle, or the deadline of the whole is over.
StopPolling(r) ==
  /\ Thread(r, "polling", "stopping")
  /\ UNCHANGED <<handler, stamp, sequence, name, files, pipeline, reads, text, parts, answer>>

\* stop waits for the pipeline, but not for ever; then the text is read, and then
\* the list.
ReadResult(r) ==
  /\ \/ /\ Thread(r, "stopping", "text")
        /\ answer' = [answer EXCEPT ![r].text = text[r], ![r].whole = pipeline[r] = "idle"]
     \/ /\ Thread(r, "text", "done") /\ answer' = [answer EXCEPT ![r].parts = parts[r]]
  /\ UNCHANGED <<handler, stamp, sequence, name, files, pipeline, reads, text, parts>>
--------------------------------------------------------------------------------
Serve(r) ==
  \/ Accept(r) \/ WriteUpload(r) \/ NormalizeWav(r) \/ Reply(r)
  \/ StartPipeline(r) \/ StopPolling(r) \/ ReadResult(r)

FileNext ==
  \/ TickStamp
  \/ \E r \in Requests :
       \/ Serve(r) \/ Refuse(r) \/ PrepareFails(r) \/ Leave(r)
       \/ ReadRecording(r) \/ Collect(r) \/ Idle(r)

\* The handler and the blocking thread go on, with their deadlines; the pipeline
\* may hang.
FileFairness == \A r \in Requests : WF_fileVars(Serve(r))

FileSpec == FileInit /\ [][FileNext]_fileVars /\ FileFairness
--------------------------------------------------------------------------------
\* A pipeline reads the recording of its own request, and no file of a request
\* that has been answered stays behind (transcribe_api, lib.rs:1158-1187).
TranscribesItsOwn ==
  \A r \in Requests :
    /\ reads[r] \subseteq {r}
    /\ handler[r] = "answered" => \A f \in files : f.audio # r

\* The text that is answered is that of the first of the segments answered, and of
\* all of them unless the pipeline outlived the deadline and the stop (offline.rs:
\* 97-147).
TextIsOfTheSegments ==
  \A r \in Requests : job[r] = "done" =>
    /\ \E n \in 0..Len(answer[r].parts) : answer[r].text = SubSeq(answer[r].parts, 1, n)
    /\ answer[r].whole => answer[r].text = text[r] /\ answer[r].parts = parts[r]

\* What a request is answered was made of its own recording, and of all of it.
AnswersAreOwn == TranscribesItsOwn /\ TextIsOfTheSegments

\* A request that was accepted is answered, if its client stays (offline.rs:131).
RequestsAreAnswered ==
  \A r \in Requests : handler[r] = "named" ~> handler[r] \in {"answered", "gone"}
================================================================================
