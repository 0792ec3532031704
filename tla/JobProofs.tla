-------------------------------- MODULE JobProofs -------------------------------
(***************************************************************************)
(* Proofs about the jobs a user waits for, and about what the observers    *)
(* make of a session while it runs.                                        *)
(*                                                                         *)
(* FileTranscription: for any number of requests, of any length, what a    *)
(* request is answered was made of its own recording, and of all of it.    *)
(* The argument: a number is given to one request only, so that two        *)
(* requests never have files of one name, whatever the clock says; a file  *)
(* is therefore of the request that has its name.  The sink appends to the *)
(* text and to the list as one, and the thread reads the text before the   *)
(* list, so that the text it has read is that of the first of the segments *)
(* it reads.                                                               *)
(*                                                                         *)
(* SessionReport: for any verdicts, webhook settings and number of changes *)
(* of them, what is pushed is the verdict that is in the session's row in  *)
(* the end.  The argument: the webhook's thread is only started when the   *)
(* quality's turn is over, and a turn that was completed is one whose      *)
(* thread has ended, after which nothing writes the row.                   *)
(*                                                                         *)
(* ModelDownloads: for any number of downloads, what counts as installed   *)
(* is whole, the registry knows the downloads that run, and a cancelled    *)
(* one leaves nothing behind.  The argument: a model's registry entry      *)
(* admits one thread at a time to its files, so that each of them is what  *)
(* that thread has made of it; under the name that counts there is never   *)
(* less than a whole file, but for the punctuation model, whose part file  *)
(* has that name already.                                                  *)
(*                                                                         *)
(* Observers: for any number of segments, whenever they come and in which  *)
(* order ever the workers answer, what comes late fits what has happened   *)
(* since, an explanation as long as no other one is under way, and the     *)
(* page has the key points and the figures of the session.                 *)
(* The argument for the first: a job that was let through is accounted     *)
(* for, from the segment that asked for it to the answer, and until the    *)
(* answer is there nothing else of its observer is let through.  For the   *)
(* second: the page takes what a segment added to the list and cuts it to  *)
(* the length the list has, and what is added to the end of the newest     *)
(* points leaves the newest points.  For the third: the turns, put into    *)
(* place one by one, are a line in which a turn comes before another just  *)
(* when it began before it, so that neighbours in the line are turns with  *)
(* nothing in between, and stretches of the line are stretches of the      *)
(* talk; the loops over the line are followed step by step.                *)
(***************************************************************************)
EXTENDS FileTranscription, SessionReport, ModelDownloads, Observers, DataLemmas,
        SequenceTheorems, TLAPS

FileTypeInv ==
  /\ stamp \in Nat /\ sequence \in Nat
  /\ handler \in [Requests -> {"upload", "named", "written", "waiting", "answered", "gone"}]
  /\ name \in [Requests -> Seq(Nat)]
  /\ job \in [Requests -> {"none", "starting", "polling", "stopping", "text", "done"}]
  /\ pipeline \in [Requests -> {"none", "building", "running", "idle"}]
  /\ reads \in [Requests -> SUBSET Requests]
  /\ text \in [Requests -> Seq(Nat)] /\ parts \in [Requests -> Seq(Nat)]
  /\ answer \in [Requests -> [text : Seq(Nat), parts : Seq(Nat), whole : BOOLEAN]]

\* The names are distinct, for the numbers in them are.
NamesAreDistinct ==
  /\ \A r \in Requests : name[r] # <<>> => Len(name[r]) = 2 /\ name[r][2] < sequence
  /\ \A r, s \in Requests : name[r] # <<>> /\ name[r] = name[s] => r = s
  /\ \A r \in Requests : /\ handler[r] = "upload" => name[r] = <<>>
                         /\ handler[r] \in {"named", "written", "waiting"} => name[r] # <<>>

\* Whose name a file has, his the recording is, and he has not been answered.
FilesAreOwn ==
  \A f \in files : /\ f.audio \in Requests /\ f.name = name[f.audio] /\ f.name # <<>>
                   /\ handler[f.audio] # "answered"

ReadsAreOwn == \A r \in Requests : reads[r] \subseteq {r}

First(s, t) == \E n \in 0..Len(t) : s = SubSeq(t, 1, n)

\* What the thread has read so far.
AnswerIsRead ==
  \A r \in Requests :
    /\ text[r] = parts[r]
    /\ job[r] \in {"none", "starting", "polling", "stopping"} =>
         answer[r].text = <<>> /\ answer[r].parts = <<>> /\ ~answer[r].whole
    /\ job[r] = "text" => First(answer[r].text, parts[r])
    /\ job[r] = "done" => First(answer[r].text, answer[r].parts)
    /\ answer[r].whole => pipeline[r] = "idle" /\ answer[r].text = text[r]
    /\ answer[r].whole /\ job[r] = "done" => answer[r].parts = parts[r]

FileInv == FileTypeInv /\ NamesAreDistinct /\ FilesAreOwn /\ ReadsAreOwn /\ AnswerIsRead
--------------------------------------------------------------------------------
\* What is the beginning of a sequence is the beginning of a longer one.
LEMMA FirstOfAppend ==
  ASSUME NEW s \in Seq(Nat), NEW t \in Seq(Nat), NEW e \in Nat, First(s, t)
  PROVE  First(s, Append(t, e))
<1>1. PICK n \in 0..Len(t) : s = SubSeq(t, 1, n)
  BY DEF First
<1>2. SubSeq(Append(t, e), 1, n) = SubSeq(t, 1, n)
  OBVIOUS
<1>3. n \in 0..Len(Append(t, e))
  OBVIOUS
<1> QED BY <1>1, <1>2, <1>3 DEF First

LEMMA FirstOfItself == ASSUME NEW t \in Seq(Nat) PROVE First(t, t)
<1>1. SubSeq(t, 1, Len(t)) = t
  OBVIOUS
<1>2. Len(t) \in 0..Len(t)
  OBVIOUS
<1> QED BY <1>1, <1>2 DEF First

\* A file with a request's name is that request's.
LEMMA OwnFile ==
  ASSUME FileInv, NEW r \in Requests, NEW f \in files, f.name = name[r]
  PROVE  f.audio = r
<1>1. f.audio \in Requests /\ name[f.audio] = name[r] /\ name[r] # <<>>
  BY DEF FileInv, FilesAreOwn
<1> QED BY <1>1 DEF FileInv, NamesAreDistinct

LEMMA InitFileInv == FileInit => FileInv
<1> SUFFICES ASSUME FileInit PROVE FileInv
  OBVIOUS
<1> USE DEF FileInit
<1>1. FileTypeInv
  BY DEF FileTypeInv
<1>2. NamesAreDistinct
  BY DEF NamesAreDistinct
<1>3. FilesAreOwn /\ ReadsAreOwn
  BY DEF FilesAreOwn, ReadsAreOwn
<1>4. AnswerIsRead
  BY DEF AnswerIsRead
<1> QED BY <1>1, <1>2, <1>3, <1>4 DEF FileInv

LEMMA NextFileInv == FileInv /\ [FileNext]_fileVars => FileInv'
<1> SUFFICES ASSUME FileInv, [FileNext]_fileVars PROVE FileInv'
  OBVIOUS
<1> USE DEF FileInv, FileTypeInv, Handler, Thread, Pipeline
<1>1. CASE TickStamp
  BY <1>1 DEF TickStamp, NamesAreDistinct, FilesAreOwn, ReadsAreOwn, AnswerIsRead
<1>2. ASSUME NEW r \in Requests, Refuse(r) PROVE FileInv'
  <2>1. FileTypeInv'
    BY <1>2 DEF Refuse
  <2>2. NamesAreDistinct'
    BY <1>2 DEF Refuse, NamesAreDistinct
  <2>3. FilesAreOwn'
    BY <1>2 DEF Refuse, FilesAreOwn, NamesAreDistinct
  <2>4. ReadsAreOwn'
    BY <1>2 DEF Refuse, ReadsAreOwn
  <2>5. AnswerIsRead'
    BY <1>2, FirstOfAppend, FirstOfItself DEF Refuse, AnswerIsRead
  <2> QED BY <2>1, <2>2, <2>3, <2>4, <2>5
<1>3. ASSUME NEW r \in Requests, Accept(r) PROVE FileInv'
  <2>1. FileTypeInv'
    BY <1>3 DEF Accept, NameFiles
  <2>2. NamesAreDistinct'
    <3>1. name' = [name EXCEPT ![r] = <<stamp, sequence>>] /\ sequence' = sequence + 1
      BY <1>3 DEF Accept, NameFiles
    <3>2. name'[r] = <<stamp, sequence>> /\ \A s \in Requests \ {r} : name'[s] = name[s]
      BY <3>1
    <3>3. /\ <<stamp, sequence>> # <<>> /\ Len(<<stamp, sequence>>) = 2
          /\ <<stamp, sequence>>[2] = sequence
      OBVIOUS
    <3>4. \A s \in Requests : name[s] # <<stamp, sequence>>
      BY <3>3, SMTT(30) DEF NamesAreDistinct
    <3>5. \A s \in Requests : name'[s] # <<>> => Len(name'[s]) = 2 /\ name'[s][2] < sequence'
      BY <3>1, <3>2, <3>3, SMTT(30) DEF NamesAreDistinct
    <3>6. \A s, t \in Requests : name'[s] # <<>> /\ name'[s] = name'[t] => s = t
      BY <3>2, <3>4, ZenonT(30) DEF NamesAreDistinct
    <3>7. \A s \in Requests : /\ handler'[s] = "upload" => name'[s] = <<>>
                              /\ handler'[s] \in {"named", "written", "waiting"} => name'[s] # <<>>
      <4>1. handler' = [handler EXCEPT ![r] = "named"]
        BY <1>3 DEF Accept
      <4>2. \A s \in Requests \ {r} : handler'[s] = handler[s]
        BY <4>1
      <4>3. handler'[r] = "named" /\ name'[r] # <<>>
        BY <4>1, <3>2, <3>3
      <4> QED BY <3>2, <4>2, <4>3 DEF NamesAreDistinct
    <3> QED BY <3>5, <3>6, <3>7 DEF NamesAreDistinct
  <2>3. FilesAreOwn'
    BY <1>3 DEF Accept, NameFiles, FilesAreOwn, NamesAreDistinct
  <2>4. ReadsAreOwn'
    BY <1>3 DEF Accept, NameFiles, ReadsAreOwn
  <2>5. AnswerIsRead'
    BY <1>3, FirstOfAppend, FirstOfItself DEF Accept, NameFiles, AnswerIsRead
  <2> QED BY <2>1, <2>2, <2>3, <2>4, <2>5
<1>4. ASSUME NEW r \in Requests, WriteUpload(r) PROVE FileInv'
  <2>1. FileTypeInv'
    BY <1>4 DEF WriteUpload, File, Put
  <2>2. NamesAreDistinct'
    BY <1>4 DEF WriteUpload, File, Put, NamesAreDistinct
  <2>3. FilesAreOwn'
    BY <1>4 DEF WriteUpload, File, Put, FilesAreOwn, NamesAreDistinct
  <2>4. ReadsAreOwn'
    BY <1>4 DEF WriteUpload, File, Put, ReadsAreOwn
  <2>5. AnswerIsRead'
    BY <1>4, FirstOfAppend, FirstOfItself DEF WriteUpload, File, Put, AnswerIsRead
  <2> QED BY <2>1, <2>2, <2>3, <2>4, <2>5
<1>5. ASSUME NEW r \in Requests, NormalizeWav(r) PROVE FileInv'
  <2>1. FileTypeInv'
    BY <1>5 DEF NormalizeWav, File, FilesNamed, Put
  <2>2. NamesAreDistinct'
    BY <1>5 DEF NormalizeWav, File, FilesNamed, Put, NamesAreDistinct
  <2>3. FilesAreOwn'
    <3>1. PICK f \in FilesNamed(r, "upload") : files' = Put(File(r, "wav", f.audio))
      BY <1>5 DEF NormalizeWav
    <3>2. f.audio = r
      BY OwnFile DEF FilesNamed
    <3>3. \A g \in files' : g \in files \/ g = [name |-> name[r], kind |-> "wav", audio |-> r]
      BY <3>1, <3>2 DEF Put, File
    <3>4. /\ name[r] # <<>> /\ UNCHANGED name /\ handler'[r] # "answered"
          /\ \A s \in Requests \ {r} : handler'[s] = handler[s]
      BY <1>5 DEF NormalizeWav, NamesAreDistinct
    <3> QED BY <3>3, <3>4 DEF FilesAreOwn
  <2>4. ReadsAreOwn'
    BY <1>5 DEF NormalizeWav, File, FilesNamed, Put, ReadsAreOwn
  <2>5. AnswerIsRead'
    BY <1>5, FirstOfAppend, FirstOfItself DEF NormalizeWav, File, FilesNamed, Put, AnswerIsRead
  <2> QED BY <2>1, <2>2, <2>3, <2>4, <2>5
<1>6. ASSUME NEW r \in Requests, PrepareFails(r) PROVE FileInv'
  <2>1. FileTypeInv'
    BY <1>6 DEF PrepareFails, RemoveFiles
  <2>2. NamesAreDistinct'
    BY <1>6 DEF PrepareFails, RemoveFiles, NamesAreDistinct
  <2>3. FilesAreOwn'
    BY <1>6 DEF PrepareFails, RemoveFiles, FilesAreOwn, NamesAreDistinct
  <2>4. ReadsAreOwn'
    BY <1>6 DEF PrepareFails, RemoveFiles, ReadsAreOwn
  <2>5. AnswerIsRead'
    BY <1>6, FirstOfAppend, FirstOfItself DEF PrepareFails, RemoveFiles, AnswerIsRead
  <2> QED BY <2>1, <2>2, <2>3, <2>4, <2>5
<1>7. ASSUME NEW r \in Requests, Leave(r) PROVE FileInv'
  <2>1. FileTypeInv'
    BY <1>7 DEF Leave
  <2>2. NamesAreDistinct'
    BY <1>7 DEF Leave, NamesAreDistinct
  <2>3. FilesAreOwn'
    BY <1>7 DEF Leave, FilesAreOwn, NamesAreDistinct
  <2>4. ReadsAreOwn'
    BY <1>7 DEF Leave, ReadsAreOwn
  <2>5. AnswerIsRead'
    BY <1>7, FirstOfAppend, FirstOfItself DEF Leave, AnswerIsRead
  <2> QED BY <2>1, <2>2, <2>3, <2>4, <2>5
<1>8. ASSUME NEW r \in Requests, Reply(r) PROVE FileInv'
  <2>1. FileTypeInv'
    BY <1>8 DEF Reply, RemoveFiles
  <2>2. NamesAreDistinct'
    BY <1>8 DEF Reply, RemoveFiles, NamesAreDistinct
  <2>3. FilesAreOwn'
    BY <1>8 DEF Reply, RemoveFiles, FilesAreOwn, NamesAreDistinct
  <2>4. ReadsAreOwn'
    BY <1>8 DEF Reply, RemoveFiles, ReadsAreOwn
  <2>5. AnswerIsRead'
    BY <1>8, FirstOfAppend, FirstOfItself DEF Reply, RemoveFiles, AnswerIsRead
  <2> QED BY <2>1, <2>2, <2>3, <2>4, <2>5
<1>9. ASSUME NEW r \in Requests, StartPipeline(r) PROVE FileInv'
  <2>1. FileTypeInv'
    <3>1. job' \in [Requests -> {"none", "starting", "polling", "stopping", "text", "done"}]
      BY <1>9, ZenonT(30) DEF StartPipeline
    <3>2. pipeline' \in [Requests -> {"none", "building", "running", "idle"}]
      <4>1. CASE pipeline' = [pipeline EXCEPT ![r] = "building"]
        BY <4>1
      <4>2. CASE pipeline' = pipeline
        BY <4>2
      <4> QED BY <1>9, <4>1, <4>2 DEF StartPipeline
    <3> QED BY <1>9, <3>1, <3>2 DEF StartPipeline
  <2>2. NamesAreDistinct'
    BY <1>9 DEF StartPipeline, NamesAreDistinct
  <2>3. FilesAreOwn'
    BY <1>9 DEF StartPipeline, FilesAreOwn, NamesAreDistinct
  <2>4. ReadsAreOwn'
    BY <1>9 DEF StartPipeline, ReadsAreOwn
  <2>5. AnswerIsRead'
    BY <1>9, FirstOfAppend, FirstOfItself DEF StartPipeline, AnswerIsRead
  <2> QED BY <2>1, <2>2, <2>3, <2>4, <2>5
<1>10. ASSUME NEW r \in Requests, ReadRecording(r) PROVE FileInv'
  <2>0. reads' = [reads EXCEPT ![r] = @ \cup {f.audio : f \in FilesNamed(r, "wav")}]
    BY <1>10 DEF ReadRecording
  <2>a. {f.audio : f \in FilesNamed(r, "wav")} \subseteq {r}
    BY OwnFile DEF FilesNamed
  <2>1. FileTypeInv'
    <3>1. pipeline' \in [Requests -> {"none", "building", "running", "idle"}]
      <4>1. CASE pipeline' = [pipeline EXCEPT ![r] = "running"]
        BY <4>1
      <4>2. CASE pipeline' = [pipeline EXCEPT ![r] = "idle"]
        BY <4>2
      <4> QED BY <1>10, <4>1, <4>2 DEF ReadRecording
    <3>2. reads' \in [Requests -> SUBSET Requests]
      BY <2>0, <2>a
    <3> QED BY <1>10, <3>1, <3>2 DEF ReadRecording
  <2>2. NamesAreDistinct'
    BY <1>10 DEF ReadRecording, FilesNamed, NamesAreDistinct
  <2>3. FilesAreOwn'
    BY <1>10 DEF ReadRecording, FilesNamed, FilesAreOwn, NamesAreDistinct
  <2>4. ReadsAreOwn'
    <3> DEFINE here == {f.audio : f \in FilesNamed(r, "wav")}
    <3>1. here \subseteq {r} /\ reads' = [reads EXCEPT ![r] = @ \cup here]
      BY <2>0, <2>a
    <3> HIDE DEF here
    <3>2. reads \in [Requests -> SUBSET Requests] /\ \A s \in Requests : reads[s] \subseteq {s}
      BY DEF ReadsAreOwn
    <3>3. \A s \in Requests : reads'[s] \subseteq {s}
      BY ONLY <3>1, <3>2
    <3> QED BY <3>3 DEF ReadsAreOwn
  <2>5. AnswerIsRead'
    BY <1>10, FirstOfAppend, FirstOfItself DEF ReadRecording, FilesNamed, AnswerIsRead
  <2> QED BY <2>1, <2>2, <2>3, <2>4, <2>5
<1>11. ASSUME NEW r \in Requests, Collect(r) PROVE FileInv'
  <2>1. FileTypeInv'
    BY <1>11 DEF Collect
  <2>2. NamesAreDistinct'
    BY <1>11 DEF Collect, NamesAreDistinct
  <2>3. FilesAreOwn'
    BY <1>11 DEF Collect, FilesAreOwn, NamesAreDistinct
  <2>4. ReadsAreOwn'
    BY <1>11 DEF Collect, ReadsAreOwn
  <2>5. AnswerIsRead'
    BY <1>11, FirstOfAppend, FirstOfItself DEF Collect, AnswerIsRead
  <2> QED BY <2>1, <2>2, <2>3, <2>4, <2>5
<1>12. ASSUME NEW r \in Requests, Idle(r) PROVE FileInv'
  <2>1. FileTypeInv'
    BY <1>12 DEF Idle
  <2>2. NamesAreDistinct'
    BY <1>12 DEF Idle, NamesAreDistinct
  <2>3. FilesAreOwn'
    BY <1>12 DEF Idle, FilesAreOwn, NamesAreDistinct
  <2>4. ReadsAreOwn'
    BY <1>12 DEF Idle, ReadsAreOwn
  <2>5. AnswerIsRead'
    BY <1>12, FirstOfAppend, FirstOfItself DEF Idle, AnswerIsRead
  <2> QED BY <2>1, <2>2, <2>3, <2>4, <2>5
<1>13. ASSUME NEW r \in Requests, StopPolling(r) PROVE FileInv'
  <2>1. FileTypeInv'
    BY <1>13 DEF StopPolling
  <2>2. NamesAreDistinct'
    BY <1>13 DEF StopPolling, NamesAreDistinct
  <2>3. FilesAreOwn'
    BY <1>13 DEF StopPolling, FilesAreOwn, NamesAreDistinct
  <2>4. ReadsAreOwn'
    BY <1>13 DEF StopPolling, ReadsAreOwn
  <2>5. AnswerIsRead'
    BY <1>13, FirstOfAppend, FirstOfItself DEF StopPolling, AnswerIsRead
  <2> QED BY <2>1, <2>2, <2>3, <2>4, <2>5
<1>14. ASSUME NEW r \in Requests, ReadResult(r) PROVE FileInv'
  <2>0. UNCHANGED <<handler, stamp, sequence, name, files, pipeline, reads, text, parts>>
    BY <1>14 DEF ReadResult
  <2>2. NamesAreDistinct'
    BY <2>0 DEF NamesAreDistinct
  <2>3. FilesAreOwn'
    BY <2>0 DEF FilesAreOwn
  <2>4. ReadsAreOwn'
    BY <2>0 DEF ReadsAreOwn
  <2>a. CASE /\ job[r] = "stopping" /\ job' = [job EXCEPT ![r] = "text"]
             /\ answer' = [answer EXCEPT ![r].text = text[r], ![r].whole = pipeline[r] = "idle"]
    <3>1. PICK ended \in BOOLEAN : ended <=> pipeline[r] = "idle"
      OBVIOUS
    <3>2. answer' = [answer EXCEPT ![r].text = text[r], ![r].whole = ended]
      BY <2>a, <3>1
    <3>3. FileTypeInv'
      <4>1. answer' \in [Requests -> [text : Seq(Nat), parts : Seq(Nat), whole : BOOLEAN]]
        BY <3>2, ZenonT(30)
      <4>2. job' \in [Requests -> {"none", "starting", "polling", "stopping", "text", "done"}]
        BY <2>a
      <4> QED BY <2>0, <4>1, <4>2
    <3>4. /\ answer'[r].text = text[r] /\ answer'[r].whole = ended /\ job'[r] = "text"
          /\ \A s \in Requests \ {r} : answer'[s] = answer[s] /\ job'[s] = job[s]
      BY <2>a, <3>2
    <3>5. text[r] = parts[r] /\ First(parts[r], parts[r])
      BY FirstOfItself DEF AnswerIsRead
    <3>6. ASSUME NEW s \in Requests
          PROVE  /\ text'[s] = parts'[s]
                 /\ job'[s] \in {"none", "starting", "polling", "stopping"} =>
                      answer'[s].text = <<>> /\ answer'[s].parts = <<>> /\ ~answer'[s].whole
                 /\ job'[s] = "text" => First(answer'[s].text, parts'[s])
                 /\ job'[s] = "done" => First(answer'[s].text, answer'[s].parts)
                 /\ answer'[s].whole => pipeline'[s] = "idle" /\ answer'[s].text = text'[s]
                 /\ answer'[s].whole /\ job'[s] = "done" => answer'[s].parts = parts'[s]
      <4>1. CASE s = r
        BY <2>0, <3>1, <3>4, <3>5, <4>1
      <4>2. CASE s # r
        BY <2>0, <3>4, <4>2 DEF AnswerIsRead
      <4> QED BY <4>1, <4>2
    <3>7. AnswerIsRead'
      BY <3>6 DEF AnswerIsRead
    <3> QED BY <2>2, <2>3, <2>4, <3>3, <3>7
  <2>b. CASE /\ job[r] = "text" /\ job' = [job EXCEPT ![r] = "done"]
             /\ answer' = [answer EXCEPT ![r].parts = parts[r]]
    <3>1. FileTypeInv'
      BY <2>b, <2>0
    <3>2. /\ answer'[r].text = answer[r].text /\ answer'[r].parts = parts[r]
          /\ answer'[r].whole = answer[r].whole /\ job'[r] = "done"
          /\ \A s \in Requests \ {r} : answer'[s] = answer[s] /\ job'[s] = job[s]
      BY <2>b
    <3>3. First(answer[r].text, parts[r])
      BY <2>b DEF AnswerIsRead
    <3>4. ASSUME NEW s \in Requests
          PROVE  /\ text'[s] = parts'[s]
                 /\ job'[s] \in {"none", "starting", "polling", "stopping"} =>
                      answer'[s].text = <<>> /\ answer'[s].parts = <<>> /\ ~answer'[s].whole
                 /\ job'[s] = "text" => First(answer'[s].text, parts'[s])
                 /\ job'[s] = "done" => First(answer'[s].text, answer'[s].parts)
                 /\ answer'[s].whole => pipeline'[s] = "idle" /\ answer'[s].text = text'[s]
                 /\ answer'[s].whole /\ job'[s] = "done" => answer'[s].parts = parts'[s]
      <4>1. CASE s = r
        <5>1. /\ text[r] = parts[r]
              /\ answer[r].whole => pipeline[r] = "idle" /\ answer[r].text = text[r]
          BY DEF AnswerIsRead
        <5> QED BY <2>0, <3>2, <3>3, <4>1, <5>1
      <4>2. CASE s # r
        BY <2>0, <3>2, <4>2 DEF AnswerIsRead
      <4> QED BY <4>1, <4>2
    <3>5. AnswerIsRead'
      BY <3>4 DEF AnswerIsRead
    <3> QED BY <2>2, <2>3, <2>4, <3>1, <3>5
  <2> QED BY <1>14, <2>a, <2>b DEF ReadResult
<1>15. CASE UNCHANGED fileVars
  BY <1>15 DEF fileVars, NamesAreDistinct, FilesAreOwn, ReadsAreOwn, AnswerIsRead
<1> QED
  BY <1>1, <1>2, <1>3, <1>4, <1>5, <1>6, <1>7, <1>8, <1>9, <1>10, <1>11, <1>12, <1>13, <1>14, <1>15
  DEF FileNext, Serve

LEMMA SpecFileInv == FileSpec => []FileInv
  BY InitFileInv, NextFileInv, PTL DEF FileSpec

\* A pipeline reads the recording of its own request only, and no file stays behind
\* an answer; what is answered is the text of the segments that are answered, and of
\* all of them if the pipeline had ended (transcribe_api, transcribe_file).
THEOREM AnswersAreTheirOwn == FileSpec => []AnswersAreOwn
<1>1. FileInv => AnswersAreOwn
  <2> SUFFICES ASSUME FileInv PROVE AnswersAreOwn
    OBVIOUS
  <2>1. TranscribesItsOwn
    BY DEF FileInv, FileTypeInv, ReadsAreOwn, FilesAreOwn, TranscribesItsOwn
  <2>2. TextIsOfTheSegments
    BY DEF FileInv, AnswerIsRead, First, TextIsOfTheSegments
  <2> QED BY <2>1, <2>2 DEF AnswersAreOwn
<1> QED BY <1>1, SpecFileInv, PTL
--------------------------------------------------------------------------------
Threads == {"quality", "webhook"}
Unread == [urls : Seq(STRING), row : {"unread"}]
Read == [urls : Seq(STRING), row : {"read"}, meta : SUBSET Verdicts]

ReportTypeInv ==
  /\ measured \in BOOLEAN
  /\ hooks \in Settings
  /\ thread \in [Threads -> {"idle", "running", "done", "failed"}]
  /\ outcome \in [Threads -> {"none", "completed", "failed", "late"}]
  /\ chain \in {Finalizers, <<"quality">>, <<"webhook">>, <<>>}
  /\ judged \in SUBSET Verdicts /\ stored \in SUBSET Verdicts /\ trouble \in BOOLEAN
  /\ pusher \subseteq Unread \cup Read
  /\ sent \in Seq([url : STRING, ok : BOOLEAN, meta : SUBSET Verdicts])

QualityDue == chain \in {Finalizers, <<"quality">>}

\* The turns are taken in their order, and a completed turn is that of a thread
\* that has ended.
PushedInOrder ==
  /\ QualityDue => outcome["quality"] = "none" /\ thread["webhook"] = "idle"
  /\ outcome["quality"] = "completed" => thread["quality"] = "done"
  /\ thread["webhook"] = "idle" => pusher = {} /\ sent = <<>>

\* The row is written once, in the end of the thread that judges.
RowIsFinal ==
  /\ thread["quality"] = "idle" => judged = {}
  /\ thread["quality"] # "done" => stored = {} /\ ~trouble
  /\ thread["quality"] = "done" /\ ~trouble => stored = judged

Settled == outcome["quality"] = "completed" /\ ~trouble

\* What the pushing thread has read, and what it has sent, is the row.
PushedIsTheRow ==
  /\ \A p \in pusher : p.row = "read" /\ Settled => p.meta = stored
  /\ \A i \in DOMAIN sent : Settled => sent[i].meta = stored

ReportInv == ReportTypeInv /\ PushedInOrder /\ RowIsFinal /\ PushedIsTheRow
--------------------------------------------------------------------------------
LEMMA InitReportInv == ReportInit => ReportInv
<1> SUFFICES ASSUME ReportInit PROVE ReportInv
  OBVIOUS
<1> USE DEF ReportInit
<1>1. ReportTypeInv
  <2>1. /\ thread \in [Threads -> {"idle", "running", "done", "failed"}]
        /\ outcome \in [Threads -> {"none", "completed", "failed", "late"}]
    BY DEF Threads
  <2>2. sent \in Seq([url : STRING, ok : BOOLEAN, meta : SUBSET Verdicts])
    OBVIOUS
  <2> QED BY <2>1, <2>2 DEF ReportTypeInv
<1>2. PushedInOrder /\ RowIsFinal /\ PushedIsTheRow
  BY DEF PushedInOrder, RowIsFinal, PushedIsTheRow
<1> QED BY <1>1, <1>2 DEF ReportInv

\* The chain after a turn.
LEMMA AfterTurns ==
  /\ Head(Finalizers) = "quality" /\ Tail(Finalizers) = <<"webhook">>
  /\ Head(<<"quality">>) = "quality" /\ Tail(<<"quality">>) = <<>>
  /\ Head(<<"webhook">>) = "webhook" /\ Tail(<<"webhook">>) = <<>>
  /\ Finalizers # <<"quality">> /\ Finalizers # <<"webhook">> /\ Finalizers # <<>>
  /\ <<"quality">> # <<"webhook">> /\ <<"quality">> # <<>> /\ <<"webhook">> # <<>>
  BY DEF Finalizers

LEMMA NextReportInv == ReportInv /\ [ReportNext]_reportVars => ReportInv'
<1> SUFFICES ASSUME ReportInv, [ReportNext]_reportVars PROVE ReportInv'
  OBVIOUS
<1> USE DEF ReportInv, ReportTypeInv, PushedInOrder, RowIsFinal, PushedIsTheRow, Threads, QualityDue,
            Settled, Runs
<1>1. CASE Spawn
  BY <1>1, AfterTurns, ZenonT(30) DEF Spawn
<1>2. CASE Wait
  <2>0. UNCHANGED <<measured, hooks, changes, thread, judged, stored, trouble, pusher, sent>>
    BY <1>2 DEF Wait
  <2>1. PICK f \in Threads : f = Head(chain) /\ thread[f] # "idle" /\ chain' = Tail(chain)
    BY <1>2, AfterTurns DEF Wait
  <2>2. PICK what \in {"completed", "failed", "late"} :
          /\ outcome' = [outcome EXCEPT ![f] = what]
          /\ what = "completed" => thread[f] = "done"
    BY <1>2, <2>1 DEF Wait
  <2>3. chain' \in {<<"webhook">>, <<>>}
    BY <1>2, <2>1, AfterTurns DEF Wait
  <2>4. ~QualityDue'
    BY <2>3, AfterTurns
  <2>5. f = "webhook" => chain = <<"webhook">>
    BY <1>2, <2>1, AfterTurns DEF Wait
  <2>6. ReportTypeInv'
    BY <2>0, <2>2, <2>3
  <2>7. PushedInOrder' /\ RowIsFinal'
    BY <2>0, <2>1, <2>2, <2>4
  <2>8. PushedIsTheRow'
    <3>1. CASE f = "quality"
      <4>1. pusher = {} /\ sent = <<>>
        BY <2>1, <3>1, <1>2, AfterTurns DEF Wait
      <4> QED BY <4>1, <2>0
    <3>2. CASE f = "webhook"
      BY <2>0, <2>2, <3>2
    <3> QED BY <3>1, <3>2
  <2> QED BY <2>6, <2>7, <2>8
<1>3. CASE Judge
  BY <1>3 DEF Judge
<1>4. CASE Store
  BY <1>4 DEF Store
<1>5. CASE HandOver
  BY <1>5, SettingsAssumption DEF HandOver, Unread, Read
<1>6. CASE ReadRow
  BY <1>6 DEF ReadRow, Unread, Read
<1>7. CASE SendOne
  <2>0. UNCHANGED <<measured, hooks, changes, chain, thread, outcome, judged, stored, trouble>>
    BY <1>7 DEF SendOne
  <2>1. PICK p \in pusher, ok \in BOOLEAN :
          /\ p.row = "read" /\ p.urls # <<>>
          /\ sent' = Append(sent, [url |-> Head(p.urls), ok |-> ok, meta |-> p.meta])
          /\ pusher' = {[p EXCEPT !.urls = Tail(@)]}
    BY <1>7 DEF SendOne
  <2>2. p \in Read
    BY <2>1 DEF Unread
  <2>3. Head(p.urls) \in STRING /\ Tail(p.urls) \in Seq(STRING) /\ p.meta \in SUBSET Verdicts
    BY <2>1, <2>2, HeadTailProperties DEF Read
  <2>4. [p EXCEPT !.urls = Tail(@)] \in Read /\ [p EXCEPT !.urls = Tail(@)].meta = p.meta
    BY <2>2, <2>3 DEF Read
  <2> DEFINE one == [url |-> Head(p.urls), ok |-> ok, meta |-> p.meta]
  <2>5. one \in [url : STRING, ok : BOOLEAN, meta : SUBSET Verdicts]
    BY <2>3
  <2>6. /\ sent' \in Seq([url : STRING, ok : BOOLEAN, meta : SUBSET Verdicts])
        /\ \A i \in DOMAIN sent' : (i \in DOMAIN sent /\ sent'[i] = sent[i]) \/ sent'[i] = one
        /\ sent' # <<>>
    BY <2>1, <2>5, AppendProperties
  <2>7. ReportTypeInv'
    BY <2>0, <2>1, <2>4, <2>6
  <2>8. PushedInOrder' /\ RowIsFinal'
    BY <2>0, <2>1
  <2>9. PushedIsTheRow'
    <3>1. Settled => p.meta = stored
      BY <2>1
    <3>2. one.meta = p.meta
      OBVIOUS
    <3> QED BY <2>0, <2>1, <2>4, <2>6, <3>1, <3>2
  <2> QED BY <2>7, <2>8, <2>9
<1>8. CASE Configure
  BY <1>8 DEF Configure
<1>9. CASE UNCHANGED reportVars
  BY <1>9 DEF reportVars
<1> QED
  BY <1>1, <1>2, <1>3, <1>4, <1>5, <1>6, <1>7, <1>8, <1>9 DEF ReportNext

LEMMA SpecReportInv == ReportSpec => []ReportInv
  BY InitReportInv, NextReportInv, PTL DEF ReportSpec

\* What is pushed carries the verdict of the session's row (run_finalizers_with_timeout,
\* finalize.rs).
THEOREM PushedIsJudged == ReportSpec => []PushedWithQuality
<1>1. ReportInv => PushedWithQuality
  BY DEF ReportInv, PushedInOrder, RowIsFinal, PushedIsTheRow, Settled, PushedWithQuality
<1> QED BY <1>1, SpecReportInv, PTL
--------------------------------------------------------------------------------
\* A directory of files, for each model.
DiskFun(d) == /\ d = [k \in Kinds |-> d[k]]
              /\ \A k \in Kinds : d[k] \in [FilesOf(k) -> Contents]

DiskInv ==
  /\ DiskFun(part) /\ DiskFun(file)
  /\ staging \in [Kinds -> Contents] /\ final \in [Kinds -> Contents]

RegistryInv ==
  /\ adapter \in Adapters /\ cancel \subseteq Tasks
  /\ registry \in [Kinds -> Tasks \cup {Unset}]
  /\ RegistryIsExact

Records == [kind : Kinds \cup {Unset}, at : Places, left : Seq({"encoder", "tokens", "one"}),
            result : {"done", "cancelled", "error", Unset}]

\* What a task's place says of it.
PlaceInv(t) ==
  /\ task[t].at = "unused" => task[t] = NoTask
  /\ task[t].at # "unused" => /\ task[t].kind \in Kinds
                              /\ task[t].left \in Seq(FilesOf(task[t].kind))
  /\ task[t].at \notin {"ended", "gone"} => task[t].result = Unset
  /\ task[t].at = "reading" => task[t].left # <<>>
  /\ task[t].at = "unpacking" => task[t].kind = "archive" /\ task[t].left = <<>>
  /\ task[t].at = "installing" => /\ task[t].kind \in {"archive", "punct"}
                                  /\ task[t].left = <<>>
                                  /\ task[t].kind = "archive" => staging["archive"] = "whole"

TasksInv == task \in [Tasks -> Records] /\ \A t \in Tasks : PlaceInv(t)

\* Only the part file of the punctuation model is ever less than whole under the
\* name that counts, and only while it is read or after it was interrupted.
ReadingPunct == \E t \in Tasks : task[t].kind = "punct" /\ task[t].at = "reading"

WholeInv ==
  /\ \A k \in Kinds \ {"punct"} : \A f \in FilesOf(k) : file[k][f] \in {"none", "whole"}
  /\ "archive" \in Kinds => final["archive"] \in {"none", "whole"}
  /\ "punct" \in Kinds =>
       /\ part["punct"]["one"] = "none"
       /\ final["punct"] \in {"none", "whole"} \/ Interrupted("punct")
       /\ file["punct"]["one"] \in {"none", "whole"} \/ Interrupted("punct") \/ ReadingPunct

IInv == DiskInv /\ RegistryInv /\ TasksInv /\ WholeInv /\ CancelledIsClean
--------------------------------------------------------------------------------
LEMMA Files ==
  /\ FilesOf("files") = {"encoder", "tokens"}
  /\ FilesOf("archive") = {"one"} /\ FilesOf("punct") = {"one"}
<1>1. Sources("files") = <<"encoder", "tokens">> /\ Sources("archive") = <<"one">>
      /\ Sources("punct") = <<"one">>
  BY DEF Sources
<1>2. Len(<<"encoder", "tokens">>) = 2 /\ Len(<<"one">>) = 1
  OBVIOUS
<1> QED BY <1>1, <1>2 DEF FilesOf

LEMMA AllFiles == ASSUME NEW k \in Kinds
                  PROVE  /\ Sources(k) \in Seq(FilesOf(k))
                         /\ FilesOf(k) \subseteq {"encoder", "tokens", "one"}
                         /\ k # "files" => FilesOf(k) = {"one"}
<1>1. k \in {"files", "archive", "punct"}
  BY DownloadsAssumption
<1>2. Sources(k) \in Seq(FilesOf(k))
  BY <1>1, Files DEF Sources
<1> QED BY <1>1, <1>2, Files

\* One file of one model changes.
LEMMA OneChanges ==
  ASSUME NEW d, DiskFun(d), NEW k \in Kinds, NEW f \in FilesOf(k), NEW c \in Contents,
         NEW e, e = [d EXCEPT ![k][f] = c]
  PROVE  /\ DiskFun(e) /\ e[k][f] = c
         /\ \A g \in FilesOf(k) \ {f} : e[k][g] = d[k][g]
         /\ \A j \in Kinds \ {k} : e[j] = d[j]
  BY DEF DiskFun

\* All files of one model are gone.
LEMMA AllGo ==
  ASSUME NEW d, DiskFun(d), NEW k \in Kinds, NEW e, e = [d EXCEPT ![k] = Empty[k]]
  PROVE  /\ DiskFun(e) /\ e[k] = Empty[k] /\ \A f \in FilesOf(k) : e[k][f] = "none"
         /\ \A j \in Kinds \ {k} : e[j] = d[j]
  BY DEF DiskFun, Empty, Contents

\* A model's files are one thread's.
LEMMA OneThreadEach ==
  ASSUME IInv, NEW t \in Tasks, NEW u \in Tasks, Active(t), Active(u), task[t].kind = task[u].kind
  PROVE  t = u
  BY DEF IInv, RegistryInv, RegistryIsExact

LEMMA InitIInv == Init => IInv
<1> SUFFICES ASSUME Init PROVE IInv
  OBVIOUS
<1> USE DEF Init
<1>1. DiskFun(Empty) /\ \A k \in Kinds : \A f \in FilesOf(k) : Empty[k][f] = "none"
  BY DEF DiskFun, Empty, Contents
<1>2. DiskInv
  BY <1>1 DEF DiskInv, Contents
<1>3. RegistryInv
  BY DownloadsAssumption DEF RegistryInv, RegistryIsExact, Active, NoTask
<1>4. TasksInv
  BY DEF TasksInv, PlaceInv, NoTask, Records, Places
<1>5. WholeInv
  BY <1>1, Files DEF WholeInv
<1>6. CancelledIsClean
  BY DEF CancelledIsClean, NoTask
<1> QED BY <1>2, <1>3, <1>4, <1>5, <1>6 DEF IInv

\* A step of a thread: where it is afterwards, and what it has made of the files of
\* its model, with which nobody else is concerned.
Moves(t) ==
  /\ UNCHANGED <<adapter, registry, cancel>>
  /\ task' \in [Tasks -> Records]
  /\ \A u \in Tasks \ {t} : task'[u] = task[u]
  /\ task'[t].kind = task[t].kind /\ task'[t].at \notin {"unused", "gone"}

Touches(k) ==
  /\ DiskFun(part') /\ DiskFun(file')
  /\ staging' \in [Kinds -> Contents] /\ final' \in [Kinds -> Contents]
  /\ \A j \in Kinds \ {k} : /\ part'[j] = part[j] /\ file'[j] = file[j]
                            /\ staging'[j] = staging[j] /\ final'[j] = final[j]

Fails(t) == task'[t].at = "ended" /\ task'[t].result = "error"

StaysWhole(t, k) ==
  /\ k # "punct" => \A f \in FilesOf(k) : file'[k][f] \in {"none", "whole"}
  /\ k = "archive" => final'[k] \in {"none", "whole"}
  /\ k = "punct" =>
       /\ part'[k]["one"] = "none"
       /\ final'[k] \in {"none", "whole"} \/ Interrupted(k)
       /\ \/ file'[k]["one"] \in {"none", "whole"} \/ Interrupted(k)
          \/ Fails(t) \/ task'[t].at = "reading"

CleansUp(t, k) ==
  task'[t].at = "ended" /\ task'[t].result = "cancelled" =>
    IF task'[t].left # <<>> THEN part'[k][Head(task'[t].left)] = "none"
    ELSE staging'[k] = "none" /\ file'[k] = Empty[k]

LEMMA StepIInv ==
  ASSUME IInv, NEW t \in Tasks, Active(t), task[t].at # "ended",
         Moves(t), Touches(task[t].kind), PlaceInv(t)',
         StaysWhole(t, task[t].kind), CleansUp(t, task[t].kind)
  PROVE  IInv'
<1> DEFINE k == task[t].kind
<1>0. k \in Kinds
  BY DEF IInv, TasksInv, PlaceInv, Active
<1>1. \A u \in Tasks \ {t} : Active(u) => task[u].kind # k
  BY OneThreadEach
<1>2. \A u \in Tasks \ {t} : task'[u] = task[u]
  BY DEF Moves
<1>3. DiskInv'
  BY DEF Touches, DiskInv
<1>4. TasksInv'
  <2>1. ASSUME NEW u \in Tasks \ {t} PROVE PlaceInv(u)'
    <3>1. PlaceInv(u)
      BY DEF IInv, TasksInv
    <3>2. task[u].at = "installing" => staging'["archive"] = staging["archive"] \/ task[u].kind # "archive"
      BY <1>1, <2>1, DownloadsAssumption DEF Active, Touches, IInv, TasksInv, PlaceInv
    <3> QED BY <3>1, <3>2, <1>2 DEF PlaceInv
  <2> QED BY <2>1 DEF Moves, TasksInv
<1>5. RegistryInv'
  <2>1. \A u \in Tasks : task'[u].kind = task[u].kind /\ (Active(u)' <=> Active(u))
    BY <1>2 DEF Moves, Active
  <2>2. \A u \in Tasks : task'[u].result = task[u].result \/ Active(u)'
    BY <1>2 DEF Moves, Active
  <2> QED BY <2>1, <2>2 DEF Moves, IInv, RegistryInv, RegistryIsExact
<1>6. Interrupted("punct") => Interrupted("punct")'
  BY <1>2 DEF Interrupted, Active
<1>7. k = "punct" /\ Fails(t) => Interrupted("punct")'
  BY DEF Fails, Interrupted, Moves
<1>8. k # "punct" /\ ReadingPunct => ReadingPunct'
  BY <1>2 DEF ReadingPunct
<1>9. k = "punct" /\ task'[t].at = "reading" => ReadingPunct'
  BY DEF ReadingPunct, Moves
<1>10. WholeInv'
  <2>1. CASE k = "punct"
    BY <2>1, <1>6, <1>7, <1>9 DEF IInv, WholeInv, StaysWhole, Touches
  <2>2. CASE k # "punct"
    BY <2>2, <1>6, <1>8 DEF IInv, WholeInv, StaysWhole, Touches
  <2> QED BY <2>1, <2>2
<1>11. CancelledIsClean'
  <2>1. ASSUME NEW u \in Tasks \ {t}, task[u].at = "ended" PROVE task[u].kind \in Kinds \ {k}
    BY <2>1, <1>1 DEF Active, IInv, TasksInv, PlaceInv
  <2> QED BY <1>2, <2>1 DEF CleansUp, Moves, Touches, IInv, CancelledIsClean
<1> QED BY <1>3, <1>4, <1>5, <1>10, <1>11 DEF IInv

\* The ways in which a thread moves.
LEMMA Goes ==
  ASSUME IInv, NEW t \in Tasks, UNCHANGED <<adapter, registry, cancel>>,
         NEW place \in Places \ {"unused", "gone"}, Go(t, place)
  PROVE  /\ Moves(t) /\ task'[t].at = place /\ task'[t].left = task[t].left
         /\ task'[t].result = task[t].result
  BY DEF Go, Moves, IInv, TasksInv, Records

LEMMA Picks ==
  ASSUME IInv, NEW t \in Tasks, UNCHANGED <<adapter, registry, cancel>>,
         NEW left \in Seq({"encoder", "tokens", "one"}),
         task' = [task EXCEPT ![t].at = "picking", ![t].left = left]
  PROVE  /\ Moves(t) /\ task'[t].at = "picking" /\ task'[t].left = left
         /\ task'[t].result = task[t].result
  BY DEF Moves, IInv, TasksInv, Records, Places

LEMMA Results ==
  ASSUME IInv, NEW t \in Tasks, UNCHANGED <<adapter, registry, cancel>>,
         NEW r \in {"done", "cancelled", "error"}, Result(t, r)
  PROVE  /\ Moves(t) /\ task'[t].at = "ended" /\ task'[t].left = task[t].left
         /\ task'[t].result = r
  BY DEF Result, Moves, IInv, TasksInv, Records, Places

\* What setting the part file of a model changes, and nothing else does.
Parts(k, f, c) ==
  /\ DiskFun(part') /\ DiskFun(file')
  /\ \A j \in Kinds \ {k} : part'[j] = part[j] /\ file'[j] = file[j]
  /\ k = "punct" => part' = part /\ file'[k]["one"] = c
  /\ k # "punct" => file' = file /\ part'[k][f] = c

LEMMA Sets ==
  ASSUME IInv, NEW k \in Kinds, NEW f \in FilesOf(k), NEW c \in Contents, SetPart(k, f, c)
  PROVE  Parts(k, f, c)
<1>1. DiskFun(part) /\ DiskFun(file)
  BY DEF IInv, DiskInv
<1>2. CASE k = "punct"
  <2>1. file' = [file EXCEPT ![k][f] = c] /\ part' = part /\ f = "one"
    BY <1>2, Files DEF SetPart
  <2> QED BY <1>1, <1>2, <2>1 DEF DiskFun, Parts
<1>3. CASE k # "punct"
  <2>1. part' = [part EXCEPT ![k][f] = c] /\ file' = file
    BY <1>3 DEF SetPart
  <2> QED BY <1>1, <1>3, <2>1 DEF DiskFun, Parts
<1> QED BY <1>2, <1>3

\* What a thread does.
LEMMA TaskIInv ==
  ASSUME IInv, NEW t \in Tasks, OwnStep(t) \/ ReadMore(t)
  PROVE  IInv'
<1> DEFINE k == task[t].kind
           f == Head(task[t].left)
<1> USE DEF IInv, TasksInv, Records, Places
<1>0. /\ task[t] \in Records /\ PlaceInv(t) /\ task \in [Tasks -> Records]
  OBVIOUS
<1>a. ASSUME Active(t)
      PROVE  /\ k \in Kinds /\ k \in {"files", "archive", "punct"}
             /\ task[t].left \in Seq(FilesOf(k)) /\ Sources(k) \in Seq(FilesOf(k))
             /\ Tail(task[t].left) \in Seq(FilesOf(k)) \/ task[t].left = <<>>
             /\ f \in FilesOf(k) \/ task[t].left = <<>>
             /\ FilesOf(k) \subseteq {"encoder", "tokens", "one"}
             /\ Seq(FilesOf(k)) \subseteq Seq({"encoder", "tokens", "one"})
  <2>1. k \in Kinds /\ task[t].left \in Seq(FilesOf(k))
    BY <1>a DEF PlaceInv, Active
  <2>2. /\ FilesOf(k) \subseteq {"encoder", "tokens", "one"} /\ Sources(k) \in Seq(FilesOf(k))
        /\ k \in {"files", "archive", "punct"}
    BY <2>1, AllFiles, DownloadsAssumption
  <2>3. Tail(task[t].left) \in Seq(FilesOf(k)) \/ task[t].left = <<>>
    BY <2>1, HeadTailProperties
  <2>4. f \in FilesOf(k) \/ task[t].left = <<>>
    BY <2>1, HeadTailProperties
  <2>5. Seq(FilesOf(k)) \subseteq Seq({"encoder", "tokens", "one"})
    BY <2>2, SeqMonotonic
  <2> QED BY <2>1, <2>2, <2>3, <2>4, <2>5
<1>b. ASSUME Active(t), UNCHANGED disk
      PROVE  Touches(k) /\ (task[t].at # "reading" \/ task'[t].at = "reading" => StaysWhole(t, k))
  <2>1. Touches(k)
    BY <1>b DEF disk, Touches, DiskInv
  <2>2. ASSUME task[t].at # "reading" \/ task'[t].at = "reading" PROVE StaysWhole(t, k)
    <3>1. k = "punct" /\ ReadingPunct => task[t].at = "reading"
      BY <1>b, OneThreadEach DEF ReadingPunct, Active
    <3> QED BY <1>a, <1>b, <2>2, <3>1 DEF disk, StaysWhole, WholeInv
  <2> QED BY <2>1, <2>2
<1>1. CASE Begin(t)
  <2>1. Active(t) /\ task[t].at = "started"
    BY <1>1 DEF Begin, Active
  <2>2. CASE Installed(k)
    <3>1. Moves(t) /\ UNCHANGED disk /\ task'[t].at = "ended" /\ task'[t].result = "done"
      BY <1>1, <2>2, Results DEF Begin
    <3>2. PlaceInv(t)'
      BY <1>1, <2>1, <2>2, <3>1 DEF Begin, Result, PlaceInv
    <3>3. Touches(k) /\ StaysWhole(t, k)
      BY <1>b, <2>1, <3>1
    <3>4. CleansUp(t, k)
      BY <3>1 DEF CleansUp
    <3> QED BY <2>1, <3>1, <3>2, <3>3, <3>4, StepIInv
  <2>3. CASE ~Installed(k)
    <3>1. /\ Moves(t) /\ UNCHANGED <<part, file, final>>
          /\ task'[t].at = "picking" /\ task'[t].left = Sources(k) /\ task'[t].result = Unset
          /\ staging' = staging \/ (k = "archive" /\ staging' = [staging EXCEPT ![k] = "empty"])
      <4>1. /\ task' = [task EXCEPT ![t].at = "picking", ![t].left = Sources(k)]
            /\ UNCHANGED <<adapter, registry, cancel, part, file, final>>
            /\ staging' = IF k = "archive" THEN [staging EXCEPT ![k] = "empty"] ELSE staging
        BY <1>1, <2>3 DEF Begin
      <4>2. Sources(k) \in Seq({"encoder", "tokens", "one"})
        BY <1>a, <2>1
      <4> QED BY <4>1, <4>2, <2>1, Picks DEF PlaceInv
    <3>2. PlaceInv(t)'
      BY <1>a, <2>1, <3>1 DEF PlaceInv, Moves
    <3>3. Touches(k)
      BY <3>1 DEF Touches, DiskInv, Contents
    <3>4. StaysWhole(t, k)
      <4>1. k = "punct" => ~ReadingPunct
        BY <2>1, OneThreadEach DEF ReadingPunct, Active
      <4> QED BY <1>a, <2>1, <3>1, <4>1 DEF StaysWhole, WholeInv
    <3>5. CleansUp(t, k)
      BY <3>1 DEF CleansUp
    <3> QED BY <2>1, <3>1, <3>2, <3>3, <3>4, <3>5, StepIInv
  <2> QED BY <2>2, <2>3
<1>2. CASE PassOver(t)
  <2>1. Active(t) /\ task[t].at = "picking" /\ task[t].left # <<>>
    BY <1>2 DEF PassOver, Active
  <2>2. /\ Moves(t) /\ UNCHANGED disk
        /\ task'[t].at = "picking" /\ task'[t].left = Tail(task[t].left) /\ task'[t].result = Unset
    <3>1. Tail(task[t].left) \in Seq({"encoder", "tokens", "one"})
      BY <1>a, <2>1
    <3> QED BY <1>2, <2>1, <3>1, Picks DEF PassOver, NextFile, PlaceInv
  <2>3. PlaceInv(t)'
    BY <1>a, <2>1, <2>2 DEF PlaceInv, Moves
  <2>4. Touches(k) /\ StaysWhole(t, k)
    BY <1>b, <2>1, <2>2
  <2>5. CleansUp(t, k)
    BY <2>2 DEF CleansUp
  <2> QED BY <2>1, <2>2, <2>3, <2>4, <2>5, StepIInv
<1>3. CASE AllThere(t)
  <2>1. Active(t) /\ task[t].at = "picking" /\ task[t].left = <<>>
    BY <1>3 DEF AllThere, Active
  <2>2. UNCHANGED disk
    BY <1>3 DEF AllThere
  <2>3. /\ Moves(t) /\ task'[t].left = <<>>
        /\ \/ task'[t].at = "ended" /\ task'[t].result = "done"
           \/ k = "archive" /\ task'[t].at = "unpacking" /\ task'[t].result = Unset
           \/ k = "punct" /\ task'[t].at = "installing" /\ task'[t].result = Unset
    <3>1. UNCHANGED <<adapter, registry, cancel>> /\ task[t].result = Unset
      BY <1>3, <2>1 DEF AllThere, PlaceInv
    <3>2. CASE k = "files"
      <4>1. Result(t, "done")
        BY <1>3, <3>2 DEF AllThere
      <4> QED BY <4>1, <3>1, <2>1, Results
    <3>3. CASE k = "archive"
      <4>1. Go(t, "unpacking")
        BY <1>3, <3>3 DEF AllThere
      <4> QED BY <4>1, <3>1, <3>3, <2>1, Goes
    <3>4. CASE k = "punct"
      <4>1. Go(t, "installing")
        BY <1>3, <3>4 DEF AllThere
      <4> QED BY <4>1, <3>1, <3>4, <2>1, Goes
    <3> QED BY <1>a, <2>1, <3>2, <3>3, <3>4
  <2>4. PlaceInv(t)'
    BY <1>a, <2>1, <2>3 DEF PlaceInv, Moves
  <2>5. Touches(k) /\ StaysWhole(t, k)
    BY <1>b, <2>1, <2>2
  <2>6. CleansUp(t, k)
    BY <2>3 DEF CleansUp
  <2> QED BY <2>1, <2>3, <2>4, <2>5, <2>6, StepIInv
<1>c. ASSUME Active(t), task[t].left # <<>>, UNCHANGED <<adapter, registry, cancel, staging, final>>,
             Discard(k, f), NEW r \in {"cancelled", "error"}, Result(t, r), task[t].at # "ended"
      PROVE  IInv'
  <2>1. Moves(t) /\ task'[t].at = "ended" /\ task'[t].left = task[t].left /\ task'[t].result = r
    BY <1>c, Results
  <2>2. k \in Kinds /\ f \in FilesOf(k) /\ Parts(k, f, "none")
    BY <1>a, <1>c, Sets DEF Discard, Contents
  <2>3. PlaceInv(t)'
    BY <1>a, <1>c, <2>1 DEF PlaceInv, Moves
  <2>4. Touches(k)
    BY <1>c, <2>2 DEF Parts, Touches, DiskInv
  <2>5. StaysWhole(t, k)
    BY <1>c, <2>2 DEF Parts, StaysWhole, WholeInv
  <2>6. CleansUp(t, k)
    BY <1>c, <2>1, <2>2, Files DEF Parts, CleansUp, WholeInv
  <2> QED BY <1>c, <2>1, <2>3, <2>4, <2>5, <2>6, StepIInv
<1>d. ASSUME Active(t), task[t].at # "ended", UNCHANGED <<adapter, registry, cancel, disk>>,
             Result(t, "error")
      PROVE  IInv'
  <2>1. Moves(t) /\ task'[t].at = "ended" /\ task'[t].left = task[t].left /\ task'[t].result = "error"
    BY <1>d, Results
  <2>2. PlaceInv(t)'
    BY <1>a, <1>d, <2>1 DEF PlaceInv, Moves
  <2>3. Touches(k)
    BY <1>b, <1>d
  <2>4. StaysWhole(t, k) /\ CleansUp(t, k)
    <3>1. UNCHANGED <<part, file, final>> /\ Fails(t) /\ k \in Kinds
      BY <1>a, <1>d, <2>1 DEF disk, Fails
    <3>2. StaysWhole(t, k)
      BY <3>1 DEF StaysWhole, WholeInv
    <3> QED BY <2>1, <3>2 DEF CleansUp
  <2> QED BY <1>d, <2>1, <2>2, <2>3, <2>4, StepIInv
<1>4. CASE OpenFile(t)
  <2>1. /\ Active(t) /\ task[t].at = "picking" /\ task[t].left # <<>>
        /\ UNCHANGED <<adapter, registry, cancel, staging, final>>
    BY <1>4 DEF OpenFile, Active
  <2>2. CASE Discard(k, f) /\ Result(t, "cancelled")
    BY <1>c, <2>1, <2>2
  <2>3. CASE UNCHANGED <<part, file>> /\ Result(t, "error")
    BY <1>d, <2>1, <2>3 DEF disk
  <2>4. CASE SetPart(k, f, "empty") /\ Go(t, "reading")
    <3>1. Moves(t) /\ task'[t].at = "reading" /\ task'[t].left = task[t].left /\ task'[t].result = Unset
      BY <2>1, <2>4, <1>0, Goes DEF PlaceInv
    <3>2. k \in Kinds /\ f \in FilesOf(k) /\ Parts(k, f, "empty")
      BY <1>a, <2>1, <2>4, Sets DEF Contents
    <3>3. PlaceInv(t)'
      BY <1>a, <2>1, <3>1 DEF PlaceInv, Moves
    <3>4. Touches(k)
      BY <2>1, <3>2 DEF Parts, Touches, DiskInv
    <3>5. StaysWhole(t, k) /\ CleansUp(t, k)
      BY <2>1, <3>1, <3>2 DEF Parts, StaysWhole, CleansUp, WholeInv
    <3> QED BY <2>1, <3>1, <3>3, <3>4, <3>5, StepIInv
  <2> QED BY <1>4, <2>2, <2>3, <2>4 DEF OpenFile
<1>5. CASE StopReading(t)
  <2>1. /\ Active(t) /\ task[t].at = "reading" /\ task[t].left # <<>>
        /\ UNCHANGED <<adapter, registry, cancel, staging, final>>
        /\ Discard(k, f) /\ Result(t, "cancelled")
    BY <1>5, <1>0 DEF StopReading, Active, PlaceInv
  <2> QED BY <1>c, <2>1
<1>6. CASE ReadMore(t)
  <2>1. /\ Active(t) /\ task[t].at = "reading" /\ task[t].left # <<>> /\ task[t].result = Unset
        /\ UNCHANGED <<adapter, registry, cancel, staging, final>>
    BY <1>6, <1>0 DEF ReadMore, Active, PlaceInv
  <2>2. CASE SetPart(k, f, "cut") /\ UNCHANGED task
    <3>1. Moves(t) /\ task'[t].at = "reading"
      BY <1>0, <2>1, <2>2 DEF Moves
    <3>2. k \in Kinds /\ f \in FilesOf(k) /\ Parts(k, f, "cut")
      BY <1>a, <2>1, <2>2, Sets DEF Contents
    <3>3. PlaceInv(t)'
      BY <1>0, <2>1, <2>2 DEF PlaceInv
    <3>4. Touches(k)
      BY <2>1, <3>2 DEF Parts, Touches, DiskInv
    <3>5. StaysWhole(t, k) /\ CleansUp(t, k)
      BY <2>1, <3>1, <3>2 DEF Parts, StaysWhole, CleansUp, WholeInv
    <3> QED BY <2>1, <3>1, <3>3, <3>4, <3>5, StepIInv
  <2>3. CASE ReadError(t, k, f)
    BY <1>d, <2>1, <2>3 DEF ReadError, disk
  <2>4. CASE Rename(k, f, "whole") /\ NextFile(t)
    <3>1. Tail(task[t].left) \in Seq(FilesOf(k)) /\ Tail(task[t].left) \in Seq({"encoder", "tokens", "one"})
      BY <1>a, <2>1
    <3>2. /\ Moves(t) /\ task'[t].at = "picking" /\ task'[t].left = Tail(task[t].left)
          /\ task'[t].result = Unset
      BY <2>1, <2>4, <3>1, Picks DEF NextFile
    <3>3. k \in Kinds /\ f \in FilesOf(k) /\ DiskFun(part) /\ DiskFun(file)
      BY <1>a, <2>1 DEF DiskInv
    <3>4. /\ DiskFun(file') /\ file'[k][f] = "whole"
          /\ \A g \in FilesOf(k) \ {f} : file'[k][g] = file[k][g]
          /\ \A j \in Kinds \ {k} : file'[j] = file[j]
      BY <2>4, <3>3 DEF Rename, DiskFun, Contents
    <3>5. /\ DiskFun(part') /\ \A j \in Kinds \ {k} : part'[j] = part[j]
          /\ k = "punct" => part' = part
      <4>1. CASE k = "punct"
        BY <2>4, <3>3, <4>1 DEF Rename, DiskFun
      <4>2. CASE k # "punct"
        <5>1. part' = [part EXCEPT ![k][f] = "none"]
          BY <2>4, <4>2 DEF Rename
        <5> QED BY <3>3, <4>2, <5>1 DEF DiskFun, Contents
      <4> QED BY <4>1, <4>2
    <3>6. PlaceInv(t)'
      BY <1>a, <2>1, <3>1, <3>2 DEF PlaceInv, Moves
    <3>7. Touches(k)
      BY <2>1, <3>4, <3>5 DEF Touches, DiskInv
    <3>8. StaysWhole(t, k)
      BY <2>1, <3>3, <3>4, <3>5, Files DEF StaysWhole, WholeInv
    <3>9. CleansUp(t, k)
      BY <3>2 DEF CleansUp
    <3> QED BY <2>1, <3>2, <3>6, <3>7, <3>8, <3>9, StepIInv
  <2>5. CASE Discard(k, f) /\ Result(t, "error")
    BY <1>c, <2>1, <2>5
  <2> QED BY <1>6, <2>2, <2>3, <2>4, <2>5 DEF ReadMore
<1>7. CASE Unpack(t)
  <2>1. /\ Active(t) /\ task[t].at = "unpacking" /\ k = "archive" /\ task[t].left = <<>>
        /\ task[t].result = Unset /\ k \in Kinds
        /\ UNCHANGED <<adapter, registry, cancel, part, final>>
    BY <1>7, <1>0 DEF Unpack, Active, PlaceInv
  <2>2. ASSUME NEW r \in {"cancelled", "error"}, Result(t, r),
               staging' = [staging EXCEPT ![k] = "none"], file' = [file EXCEPT ![k] = Empty[k]]
        PROVE  IInv'
    <3>1. Moves(t) /\ task'[t].at = "ended" /\ task'[t].left = <<>> /\ task'[t].result = r
      BY <2>1, <2>2, Results
    <3>2. /\ DiskFun(file') /\ file'[k] = Empty[k] /\ \A g \in FilesOf(k) : file'[k][g] = "none"
          /\ \A j \in Kinds \ {k} : file'[j] = file[j]
      BY <2>1, <2>2 DEF DiskInv, DiskFun, Empty, Contents
    <3>3. PlaceInv(t)'
      BY <1>a, <2>1, <3>1 DEF PlaceInv, Moves
    <3>4. Touches(k)
      BY <2>1, <2>2, <3>2 DEF Touches, DiskInv, Contents, DiskFun
    <3>5. StaysWhole(t, k)
      BY <2>1, <3>2 DEF StaysWhole, WholeInv
    <3>6. CleansUp(t, k)
      BY <2>1, <2>2, <3>1, <3>2 DEF CleansUp, DiskInv
    <3> QED BY <2>1, <3>1, <3>3, <3>4, <3>5, <3>6, StepIInv
  <2>3. CASE staging' = [staging EXCEPT ![k] = "whole"] /\ Go(t, "installing") /\ UNCHANGED file
    <3>1. Moves(t) /\ task'[t].at = "installing" /\ task'[t].left = <<>> /\ task'[t].result = Unset
      BY <2>1, <2>3, Goes
    <3>2. staging'["archive"] = "whole"
      BY <2>1, <2>3 DEF DiskInv
    <3>3. PlaceInv(t)'
      BY <1>a, <2>1, <3>1, <3>2 DEF PlaceInv, Moves
    <3>4. Touches(k)
      BY <2>1, <2>3 DEF Touches, DiskInv, Contents, DiskFun
    <3>5. StaysWhole(t, k) /\ CleansUp(t, k)
      BY <2>1, <2>3, <3>1 DEF StaysWhole, CleansUp, WholeInv
    <3> QED BY <2>1, <3>1, <3>3, <3>4, <3>5, StepIInv
  <2> QED BY <1>7, <2>2, <2>3 DEF Unpack
<1>8. CASE Install(t)
  <2> DEFINE new == IF k = "archive" THEN staging[k] ELSE file[k]["one"]
  <2>1. /\ Active(t) /\ task[t].at = "installing" /\ k \in {"archive", "punct"} /\ k \in Kinds
        /\ task[t].left = <<>> /\ task[t].result = Unset
        /\ UNCHANGED <<adapter, registry, cancel, part>>
    BY <1>8, <1>0 DEF Install, Active, PlaceInv
  <2>2. CASE new = "none"
    <3>1. Result(t, "error") /\ UNCHANGED disk
      BY <1>8, <2>1, <2>2 DEF Install, disk
    <3> QED BY <1>d, <2>1, <3>1
  <2>3. CASE new # "none"
    <3>1. /\ final' = [final EXCEPT ![k] = new] /\ staging' = [staging EXCEPT ![k] = "none"]
          /\ file' = [file EXCEPT ![k] = Empty[k]] /\ Result(t, "done")
      BY <1>8, <2>3 DEF Install
    <3>2. Moves(t) /\ task'[t].at = "ended" /\ task'[t].result = "done" /\ task'[t].left = <<>>
      BY <2>1, <3>1, Results
    <3>3. new \in Contents /\ (k = "archive" => new = "whole")
      BY <1>0, <2>1, Files DEF DiskInv, DiskFun, PlaceInv, Contents
    <3>4. k = "punct" => new = "whole" \/ Interrupted(k)
      <4>1. k = "punct" => ~ReadingPunct
        BY <2>1, OneThreadEach DEF ReadingPunct, Active
      <4> QED BY <2>1, <2>3, <4>1 DEF WholeInv
    <3>5. final'[k] = new
      BY <2>1, <3>1 DEF DiskInv
    <3>6. /\ DiskFun(file') /\ \A g \in FilesOf(k) : file'[k][g] = "none"
          /\ \A j \in Kinds \ {k} : file'[j] = file[j]
      BY <2>1, <3>1 DEF DiskInv, DiskFun, Empty, Contents
    <3>7. PlaceInv(t)'
      BY <1>a, <2>1, <3>2 DEF PlaceInv, Moves
    <3>8. Touches(k)
      BY <2>1, <3>1, <3>3, <3>6 DEF Touches, DiskInv, Contents, DiskFun
    <3>9. StaysWhole(t, k)
      BY <2>1, <3>3, <3>4, <3>5, <3>6, Files DEF StaysWhole, WholeInv
    <3>10. CleansUp(t, k)
      BY <3>2 DEF CleansUp
    <3> QED BY <2>1, <3>2, <3>7, <3>8, <3>9, <3>10, StepIInv
  <2> QED BY <2>2, <2>3
<1>9. CASE Deregister(t)
  <2>1. /\ task[t].at = "ended" /\ Active(t) /\ k \in Kinds
        /\ UNCHANGED <<adapter, cancel, part, file, staging, final>>
        /\ registry' = IF RemovesEntry(t) THEN [registry EXCEPT ![k] = Unset] ELSE registry
    BY <1>9, <1>0 DEF Deregister, Active, PlaceInv, disk
  <2>2. /\ task' \in [Tasks -> Records] /\ \A u \in Tasks \ {t} : task'[u] = task[u]
        /\ task'[t].at = "gone" /\ task'[t].kind = k /\ task'[t].left = task[t].left
        /\ task'[t].result = task[t].result
    BY <1>9 DEF Deregister, Go
  <2>3. DiskInv'
    BY <2>1 DEF DiskInv, DiskFun
  <2>4. TasksInv'
    BY <1>0, <2>1, <2>2 DEF PlaceInv
  <2>5. RegistryInv'
    <3>1. registry[k] = t /\ \A u \in Tasks \ {t} : Active(u) => task[u].kind # k
      BY <2>1, OneThreadEach DEF RegistryInv, RegistryIsExact
    <3>2. \A u \in Tasks \ {t} : Active(u)' <=> Active(u)
      BY <2>2 DEF Active
    <3>3. ~Active(t)'
      BY <2>2 DEF Active
    <3>4. CASE RemovesEntry(t)
      <4>1. registry' = [registry EXCEPT ![k] = Unset]
        BY <2>1, <3>4
      <4>2. \A j \in Kinds : registry'[j] # Unset => registry'[j] = registry[j] /\ registry[j] # t
        BY <2>1, <3>1, <4>1 DEF RegistryInv, RegistryIsExact
      <4>3. \A u \in Tasks : Active(u)' => registry'[task'[u].kind] = u
        BY <2>2, <3>1, <3>2, <3>3, <4>1, SMTT(30) DEF RegistryInv, RegistryIsExact, PlaceInv, Active
      <4> QED BY <2>1, <2>2, <3>2, <4>1, <4>2, <4>3 DEF RegistryInv, RegistryIsExact
    <3>5. CASE ~RemovesEntry(t)
      <4>1. registry' = registry
        BY <2>1, <3>5
      <4>2. adapter = "desktop" /\ (k = "punct" \/ task[t].result = "error")
        BY <3>5, DownloadsAssumption DEF RemovesEntry, RegistryInv
      <4>3. \A u \in Tasks : Active(u)' => registry'[task'[u].kind] = u
        BY <2>2, <3>2, <3>3, <4>1, ZenonT(30) DEF RegistryInv, RegistryIsExact
      <4>4. ASSUME NEW j \in Kinds, registry[j] # Unset
            PROVE  /\ task'[registry[j]].kind = j
                   /\ \/ Active(registry[j])'
                      \/ adapter = "desktop" /\ (j = "punct" \/ task'[registry[j]].result = "error")
        <5>1. /\ registry[j] \in Tasks /\ task[registry[j]].kind = j
              /\ \/ Active(registry[j])
                 \/ adapter = "desktop" /\ (j = "punct" \/ task[registry[j]].result = "error")
          BY <4>4 DEF RegistryInv, RegistryIsExact
        <5>2. CASE registry[j] = t
          BY <2>2, <4>1, <4>2, <5>1, <5>2
        <5>3. CASE registry[j] # t
          BY <2>2, <4>1, <5>1, <5>3 DEF Active
        <5> QED BY <5>2, <5>3
      <4> QED BY <2>1, <4>1, <4>3, <4>4 DEF RegistryInv, RegistryIsExact
    <3> QED BY <3>4, <3>5
  <2>6. WholeInv'
    <3>1. Interrupted("punct") => Interrupted("punct")'
      BY <2>2, ZenonT(30) DEF Interrupted
    <3>2. ReadingPunct => ReadingPunct'
      BY <2>1, <2>2 DEF ReadingPunct
    <3> QED BY <2>1, <3>1, <3>2 DEF WholeInv
  <2>7. CancelledIsClean'
    <3> SUFFICES ASSUME NEW u \in Tasks, task'[u].at = "ended", task'[u].result = "cancelled"
                 PROVE  LET j == task'[u].kind
                        IN  IF task'[u].left # <<>> THEN part'[j][Head(task'[u].left)] = "none"
                            ELSE staging'[j] = "none" /\ file'[j] = Empty[j]
      BY DEF CancelledIsClean
    <3>1. u # t /\ task'[u] = task[u]
      BY <2>2
    <3> QED BY <2>1, <3>1 DEF CancelledIsClean
  <2> QED BY <2>3, <2>4, <2>5, <2>6, <2>7
<1> QED
  BY <1>1, <1>2, <1>3, <1>4, <1>5, <1>6, <1>7, <1>8, <1>9 DEF OwnStep

LEMMA NextIInv == IInv /\ [Next]_vars => IInv'
<1> SUFFICES ASSUME IInv, [Next]_vars PROVE IInv'
  OBVIOUS
<1>1. ASSUME NEW k \in Kinds, NEW t \in Tasks, Request(k, t) PROVE IInv'
  <2>0. /\ task' = [task EXCEPT ![t] = [kind |-> k, at |-> "started", left |-> <<>>, result |-> Unset]]
        /\ task[t] = NoTask /\ registry[k] = Unset /\ registry' = [registry EXCEPT ![k] = t]
        /\ UNCHANGED <<adapter, cancel, part, file, staging, final>>
    BY <1>1 DEF Request, NotRegistered, disk
  <2>1. DiskInv'
    BY <2>0 DEF IInv, DiskInv, DiskFun
  <2>2. TasksInv'
    <3>1. [kind |-> k, at |-> "started", left |-> <<>>, result |-> Unset] \in Records
      BY DEF Records, Places
    <3>2. /\ task' \in [Tasks -> Records] /\ \A u \in Tasks \ {t} : task'[u] = task[u]
          /\ task'[t].at = "started" /\ task'[t].kind = k /\ task'[t].left = <<>>
          /\ task'[t].result = Unset
      BY <2>0, <3>1 DEF IInv, TasksInv
    <3>3. PlaceInv(t)'
      BY <3>2 DEF PlaceInv
    <3> QED BY <2>0, <3>2, <3>3 DEF IInv, TasksInv, PlaceInv
  <2>3. RegistryInv'
    <3>1. /\ registry' = [registry EXCEPT ![k] = t] /\ registry[k] = Unset
          /\ task'[t].at = "started" /\ task'[t].kind = k
          /\ \A u \in Tasks \ {t} : task'[u] = task[u]
      BY <2>0 DEF IInv, TasksInv
    <3>2. \A u \in Tasks : Active(u) => task[u].kind # k
      BY <3>1, DownloadsAssumption DEF IInv, RegistryInv, RegistryIsExact
    <3>3. \A u \in Tasks \ {t} : Active(u)' <=> Active(u)
      BY <3>1 DEF Active
    <3>4. Active(t)' /\ ~Active(t)
      BY <2>0, <3>1 DEF Active, NoTask
    <3>5. registry' \in [Kinds -> Tasks \cup {Unset}]
      BY <3>1 DEF IInv, RegistryInv
    <3>6. \A u \in Tasks : Active(u)' => registry'[task'[u].kind] = u
      BY <3>1, <3>2, <3>3, <3>4 DEF IInv, RegistryInv, RegistryIsExact, TasksInv, PlaceInv, Active
    <3>7. \A j \in Kinds \ {k} : registry'[j] = registry[j] /\ registry[j] # t
      BY <2>0, <3>1, DownloadsAssumption DEF IInv, RegistryInv, RegistryIsExact, NoTask, Active
    <3> QED BY <2>0, <3>1, <3>3, <3>4, <3>5, <3>6, <3>7, DownloadsAssumption
            DEF IInv, RegistryInv, RegistryIsExact
  <2>4. WholeInv'
    BY <2>0 DEF IInv, WholeInv, Interrupted, ReadingPunct, TasksInv, NoTask
  <2>5. CancelledIsClean'
    BY <2>0 DEF IInv, CancelledIsClean, TasksInv
  <2> QED BY <2>1, <2>2, <2>3, <2>4, <2>5 DEF IInv
<1>2. ASSUME NEW k \in Kinds, Cancel(k) PROVE IInv'
  <2>0. UNCHANGED <<adapter, registry, task, part, file, staging, final>> /\ cancel' \subseteq Tasks
    BY <1>2 DEF Cancel, disk, IInv, RegistryInv
  <2> QED BY <2>0 DEF IInv, DiskInv, DiskFun, TasksInv, PlaceInv, RegistryInv, RegistryIsExact, Active,
                     WholeInv, Interrupted, ReadingPunct, CancelledIsClean
<1>3. ASSUME NEW k \in Kinds, Remove(k) PROVE IInv'
  <2>0. /\ UNCHANGED <<adapter, registry, cancel, task, staging>>
        /\ final' = [final EXCEPT ![k] = "none"]
        /\ file' = [file EXCEPT ![k] = Empty[k]]
        /\ part' = part \/ part' = [part EXCEPT ![k] = Empty[k]]
    BY <1>3 DEF Remove
  <2>1. /\ DiskFun(file') /\ file'[k] = Empty[k] /\ \A f \in FilesOf(k) : file'[k][f] = "none"
        /\ \A j \in Kinds \ {k} : file'[j] = file[j]
    BY <2>0 DEF IInv, DiskInv, DiskFun, Empty, Contents
  <2>2. /\ DiskFun(part')
        /\ \A j \in Kinds : \A f \in FilesOf(j) : part'[j][f] = part[j][f] \/ part'[j][f] = "none"
    <3>1. CASE part' = part
      BY <3>1 DEF IInv, DiskInv, DiskFun
    <3>2. CASE part' = [part EXCEPT ![k] = Empty[k]]
      BY <3>2 DEF IInv, DiskInv, DiskFun, Empty, Contents
    <3> QED BY <2>0, <3>1, <3>2
  <2>3. DiskInv'
    BY <2>0, <2>1, <2>2 DEF IInv, DiskInv, Contents
  <2>4. TasksInv' /\ RegistryInv'
    BY <2>0 DEF IInv, TasksInv, PlaceInv, RegistryInv, RegistryIsExact, Active
  <2>5. WholeInv'
    BY <2>0, <2>1, <2>2, Files DEF IInv, DiskInv, WholeInv, Interrupted, ReadingPunct
  <2>6. CancelledIsClean'
    <3> SUFFICES ASSUME NEW t \in Tasks, task[t].at = "ended", task[t].result = "cancelled"
                 PROVE  LET j == task[t].kind
                        IN  IF task[t].left # <<>> THEN part'[j][Head(task[t].left)] = "none"
                            ELSE staging[j] = "none" /\ file'[j] = Empty[j]
      BY <2>0 DEF CancelledIsClean
    <3>1. task[t].kind \in Kinds /\ task[t].left \in Seq(FilesOf(task[t].kind))
      BY DEF IInv, TasksInv, PlaceInv
    <3>2. task[t].left # <<>> => Head(task[t].left) \in FilesOf(task[t].kind)
      BY <3>1, HeadTailProperties
    <3> QED BY <2>1, <2>2, <3>1, <3>2 DEF IInv, CancelledIsClean
  <2> QED BY <2>3, <2>4, <2>5, <2>6 DEF IInv
<1>4. CASE Restart
  <2>0. /\ UNCHANGED <<adapter, part, file, staging, final>> /\ cancel' = {}
        /\ registry' = [k \in Kinds |-> Unset]
        /\ task' = [t \in Tasks |-> IF task[t] = NoTask THEN NoTask ELSE [task[t] EXCEPT !.at = "gone"]]
    BY <1>4 DEF Restart, disk
  <2>1. DiskInv'
    BY <2>0 DEF IInv, DiskInv, DiskFun
  <2>2. /\ task' \in [Tasks -> Records]
        /\ \A t \in Tasks : \/ task[t] = NoTask /\ task'[t] = NoTask
                            \/ /\ task[t] # NoTask /\ task'[t].at = "gone"
                               /\ task'[t].kind = task[t].kind /\ task'[t].left = task[t].left
                               /\ task'[t].result = task[t].result
    BY <2>0 DEF IInv, TasksInv, Records, Places
  <2>3. TasksInv'
    BY <2>2 DEF IInv, TasksInv, PlaceInv, NoTask
  <2>4. RegistryInv'
    BY <2>0, <2>2, DownloadsAssumption DEF IInv, RegistryInv, RegistryIsExact, Active, NoTask
  <2>5. Interrupted("punct") \/ ReadingPunct => Interrupted("punct")'
    BY <2>2, DownloadsAssumption DEF Interrupted, ReadingPunct, NoTask, IInv, TasksInv, PlaceInv
  <2>6. WholeInv'
    BY <2>0, <2>5 DEF IInv, WholeInv
  <2>7. CancelledIsClean'
    BY <2>2 DEF CancelledIsClean, NoTask
  <2> QED BY <2>1, <2>3, <2>4, <2>6, <2>7 DEF IInv
<1>5. ASSUME NEW t \in Tasks, OwnStep(t) \/ ReadMore(t) PROVE IInv'
  BY <1>5, TaskIInv
<1>6. CASE UNCHANGED vars
  BY <1>6 DEF vars, disk, IInv, DiskInv, DiskFun, TasksInv, PlaceInv, RegistryInv, RegistryIsExact, Active,
              WholeInv, Interrupted, ReadingPunct, CancelledIsClean
<1> QED
  BY <1>1, <1>2, <1>3, <1>4, <1>5, <1>6 DEF Next

LEMMA SpecIInv == Spec => []IInv
  BY InitIInv, NextIInv, PTL DEF Spec

\* The files and the registry of downloads tell the truth (models.rs, the
\* download, cancel and remove handlers).
THEOREM DownloadsStaySound == Spec => []DownloadsAreSound
<1>1. IInv => DownloadsAreSound
  <2> SUFFICES ASSUME IInv PROVE DownloadsAreSound
    OBVIOUS
  <2>1. TypeOK
    BY DEF IInv, DiskInv, DiskFun, RegistryInv, TasksInv, PlaceInv, Records, TypeOK
  <2>2. InstalledIsWhole
    <3> SUFFICES ASSUME NEW k \in Kinds, Installed(k)
                 PROVE  IF k = "files" THEN \A f \in FilesOf(k) : file[k][f] = "whole"
                        ELSE final[k] = "whole" \/ (k = "punct" /\ Interrupted(k))
      BY DEF InstalledIsWhole
    <3>1. CASE k = "files"
      BY <3>1 DEF IInv, WholeInv, Installed
    <3>2. CASE k # "files"
      <4>1. k \in {"archive", "punct"} /\ final[k] # "none"
        BY <3>2, DownloadsAssumption DEF Installed
      <4> QED BY <3>2, <4>1 DEF IInv, WholeInv
    <3> QED BY <3>1, <3>2
  <2> QED BY <2>1, <2>2 DEF IInv, RegistryInv, DownloadsAreSound
<1> QED BY <1>1, SpecIInv, PTL
--------------------------------------------------------------------------------
IsJob(j) ==
  /\ j.observer \in {"terms", "briefs", "translator"}
  /\ j = [observer |-> j.observer, stage |-> j.stage, event |-> j.event, known |-> j.known,
          skeleton |-> j.skeleton, alone |-> j.alone, seg |-> j.seg]

QueueInv ==
  /\ queue \in Seq(Jobs) /\ \A work \in Jobs : IsJob(work)
  /\ \A i \in DOMAIN queue : queue[i].stage = "queued"

\* What was let through when k briefs were there came after their cooldown.
Spaced(k) == k \in 0..Len(briefs) /\ \A i \in 1..k : now - briefs[i].found >= BriefCooldown

CallInv ==
  call # None => /\ call = [seg |-> call.seg, ask |-> call.ask, act |-> call.act, known |-> call.known]
                 /\ call.act \in BOOLEAN
                 /\ call.act /\ Head(call.ask) = "briefs" => Spaced(call.known)

Briefs == [found : Nat, known : Nat]

FoundInv ==
  /\ now \in Nat /\ briefAt \in Nat /\ briefAt <= now /\ now >= Epoch
  /\ briefs \in Seq(Briefs)
  /\ \A i \in 1..Len(briefs) : briefs[i].found \in Nat /\ Epoch <= briefs[i].found /\ briefs[i].found <= briefAt

BriefsInv ==
  /\ FoundInv
  /\ \A work \in Jobs : work.observer = "briefs" /\ work.stage \in {"queued", "run"} => Spaced(work.known)
  /\ BriefsAreSpaced

AloneInv ==
  /\ \A work \in running : work.stage = "explained" => work.observer = "terms"
  /\ \A work \in running : work.observer = "terms" /\ work.alone =>
       /\ \A other \in running : other.observer = "terms" => other = work
       /\ \A i \in DOMAIN queue : queue[i].observer # "terms"
       /\ work.skeleton # None
       /\ IF work.stage = "done" THEN work.event = work.skeleton ELSE pending = work.skeleton
  /\ \A i \in DOMAIN queue : queue[i].observer = "terms" /\ queue[i].alone =>
       /\ \A j \in DOMAIN queue : queue[j].observer = "terms" => j = i
       /\ \A other \in running : other.observer # "terms"
       /\ queue[i].skeleton # None /\ pending = queue[i].skeleton

LateInv == QueueInv /\ CallInv /\ BriefsInv /\ AloneInv

OfItsOwn(s) == s \in Seq({s[i] : i \in DOMAIN s})

LEMMA IsOfItsOwn == ASSUME NEW S, NEW s \in Seq(S) PROVE OfItsOwn(s)
BY DEF OfItsOwn

LEMMA JobsAre == /\ Jobs = {queue[i] : i \in DOMAIN queue} \cup running
                 /\ Jobs' = {queue'[i] : i \in DOMAIN queue'} \cup running'
BY DEF Jobs

LEMMA LateInit == LiveInit => LateInv
<1> SUFFICES ASSUME LiveInit PROVE LateInv
  OBVIOUS
<1>1. Jobs = {} /\ queue = <<>> /\ running = {}
  BY JobsAre DEF LiveInit
<1>2. QueueInv /\ AloneInv
  BY <1>1 DEF QueueInv, AloneInv
<1>3. CallInv /\ FoundInv /\ briefs = <<>>
  BY ObserverBounds DEF LiveInit, CallInv, FoundInv
<1> QED BY <1>1, <1>2, <1>3 DEF LateInv, BriefsInv, BriefsAreSpaced

\* What is submitted joins the others or is lost; the others only get company.
LEMMA Submitted ==
  ASSUME QueueInv, NEW work, IsJob(work), work.stage = "queued", Submit(work)
  PROVE  /\ QueueInv'
         /\ \A n \in Jobs' : \E o \in Jobs \cup {work} :
              n.observer = o.observer /\ n.stage = o.stage /\ n.known = o.known
<1> DEFINE Waiting == [i \in DOMAIN queue |-> Crowded(queue[i])]
           Old == {queue[i] : i \in DOMAIN queue} \cup running
           alone == work.skeleton # None /\ \A other \in Jobs : other.observer # "terms"
           new == [work EXCEPT !.alone = alone]
           Same(n, o) == n.observer = o.observer /\ n.stage = o.stage /\ n.known = o.known
<1>1. Jobs = Old /\ Jobs' = {queue'[i] : i \in DOMAIN queue'} \cup running'
  BY JobsAre
<1>2. ASSUME NEW j, IsJob(j), NEW b
      PROVE  LET n == [j EXCEPT !.alone = b] IN IsJob(n) /\ Same(n, j)
  BY <1>2 DEF IsJob
<1>3. \A j \in Jobs : IsJob(j) /\ IsJob(Crowded(j)) /\ Same(Crowded(j), j)
  BY <1>2 DEF Crowded, QueueInv
<1>4. IsJob(new) /\ Same(new, work)
  BY <1>2
<1>5. PICK w \in {queue, Waiting} :
        /\ queue' \in {w, Append(w, new)}
        /\ running' = running \/ running' = {Crowded(other) : other \in running}
  BY DEF Submit
<1>6. w \in Seq({w[i] : i \in DOMAIN w}) /\ DOMAIN w = DOMAIN queue
  <2>1. queue \in Seq(Jobs)
    BY DEF QueueInv
  <2> QED BY <2>1, <1>5
<1>7. \A i \in DOMAIN w : queue[i] \in Jobs /\ w[i] \in {queue[i], Crowded(queue[i])}
  BY <1>5, <1>1
<1>8. \A n \in Jobs' : IsJob(n) /\ \E o \in Jobs \cup {work} : Same(n, o)
  <2>1. ASSUME NEW n \in running' PROVE \E j \in Jobs : n \in {j, Crowded(j)}
    BY <2>1, <1>1, <1>5
  <2>2. ASSUME NEW i \in DOMAIN queue' PROVE queue'[i] = new \/ \E j \in Jobs : queue'[i] \in {j, Crowded(j)}
    <3>1. i \in DOMAIN w => queue'[i] = w[i]
      BY <2>2, <1>5, <1>6
    <3>2. i \notin DOMAIN w => queue'[i] = new
      BY <2>2, <1>5, <1>6
    <3> QED BY <3>1, <3>2, <1>7
  <2>3. ASSUME NEW n \in Jobs' PROVE n = new \/ \E j \in Jobs : n \in {j, Crowded(j)}
    BY <2>1, <2>2, <2>3, <1>1
  <2>4. \A j \in Jobs : Same(j, j)
    OBVIOUS
  <2> HIDE DEF new, Same
  <2> QED BY <2>3, <2>4, <1>3, <1>4
<1>10. \A i \in DOMAIN queue' : queue'[i].stage = "queued"
  <2>1. \A i \in DOMAIN w : w[i].stage = "queued"
    BY <1>3, <1>7, <1>6 DEF QueueInv
  <2> SUFFICES ASSUME NEW i \in DOMAIN queue' PROVE queue'[i].stage = "queued"
    OBVIOUS
  <2>2. i \in DOMAIN w => queue'[i] = w[i]
    BY <1>5, <1>6
  <2>3. i \notin DOMAIN w => queue'[i] = new
    BY <1>5, <1>6
  <2> QED BY <2>1, <2>2, <2>3, <1>4
<1>9. OfItsOwn(queue')
  <2>1. w \in Seq({w[i] : i \in DOMAIN w})
    BY <1>6
  <2>2. queue' = w \/ queue' = Append(w, new)
    BY <1>5
  <2> DEFINE All == {w[i] : i \in DOMAIN w} \cup {new}
  <2>3. w \in Seq(All) /\ new \in All
    BY <2>1
  <2> HIDE DEF new, Waiting, All
  <2>4. queue' \in Seq(All)
    BY <2>2, <2>3
  <2>5. PICK q : q = queue'
    OBVIOUS
  <2>6. q \in Seq(All)
    BY <2>4, <2>5
  <2>8. PICK S : S = All
    OBVIOUS
  <2>9. q \in Seq(S)
    BY <2>6, <2>8
  <2>7. OfItsOwn(q)
    BY ONLY <2>9, IsOfItsOwn
  <2> QED BY <2>5, <2>7
<1>11. queue' \in Seq(Jobs')
  BY <1>1, <1>9 DEF OfItsOwn
<1> QED BY <1>1, <1>8, <1>10, <1>11 DEF QueueInv
LEMMA SpacedStays ==
  ASSUME FoundInv, now' \in Nat, now' >= now, NEW k, Spaced(k),
         briefs' = briefs \/ \E b \in Briefs : briefs' = Append(briefs, b)
  PROVE  Spaced(k)'
<1>1. k \in 0..Len(briefs) /\ \A i \in 1..k : now - briefs[i].found >= BriefCooldown
  BY DEF Spaced
<1>0. briefs \in Seq(Briefs) /\ now \in Nat
  BY DEF FoundInv
<1>7. briefs' = briefs \/ \E b \in Briefs : briefs' = Append(briefs, b)
  OBVIOUS
<1>2. Len(briefs) \in Nat /\ Len(briefs') \in Nat /\ Len(briefs') >= Len(briefs)
  BY <1>0, <1>7
<1>3. \A i \in 1..Len(briefs) : briefs'[i] = briefs[i]
  BY <1>0, <1>7
<1>6. \A i \in 1..Len(briefs) : briefs[i].found \in Nat
  BY DEF FoundInv
<1>4. k \in 0..Len(briefs') /\ k' = k
  BY <1>1, <1>2
<1>5. \A i \in 1..k : now' - briefs'[i].found >= BriefCooldown
  <2> SUFFICES ASSUME NEW i \in 1..k PROVE now' - briefs'[i].found >= BriefCooldown
    OBVIOUS
  <2>1. briefs'[i] = briefs[i] /\ briefs[i].found \in Nat /\ now - briefs[i].found >= BriefCooldown
    BY <1>1, <1>2, <1>3, <1>6
  <2>2. BriefCooldown \in Nat
    BY Zenon, ObserverBounds
  <2> QED BY <2>1, <2>2, <1>0
<1> QED BY <1>4, <1>5 DEF Spaced

\* A dispatch that was let through has the briefs of that time behind it.
LEMMA AskedInTime ==
  ASSUME FoundInv, CallInv, Ask
  PROVE  CallInv'
<1>1. call # None /\ call.act = FALSE /\ briefs' = briefs /\ now' = now
  BY Zenon DEF Ask, CallInv
<1>2. CASE ShouldTrigger(Head(call.ask), call.seg)
  <2>1. call' = [seg |-> call.seg, ask |-> call.ask, act |-> TRUE, known |-> Len(briefs)]
    BY <1>1, <1>2 DEF Ask, CallInv
  <2>2. ASSUME Head(call.ask) = "briefs" PROVE ~Cooling(briefAt, BriefCooldown)
    BY <1>2, <2>2 DEF ShouldTrigger
  <2>3. ASSUME Head(call.ask) = "briefs" PROVE Spaced(Len(briefs))
    <3>1. BriefCooldown = 0 \/ briefAt = 0 \/ now - briefAt >= BriefCooldown
      BY <2>2, <2>3, ObserverBounds DEF Cooling, FoundInv
    <3>2. Len(briefs) \in Nat
      BY DEF FoundInv
    <3>3. \A i \in 1..Len(briefs) : now - briefs[i].found >= BriefCooldown
      BY <3>1, ObserverBounds DEF FoundInv
    <3> QED BY <3>2, <3>3 DEF Spaced
  <2>4. Head(call'.ask) = "briefs" => Spaced(call.known)'
    BY <2>1, <2>3, <1>1 DEF Spaced
  <2>5. /\ call' = [seg |-> call'.seg, ask |-> call'.ask, act |-> call'.act, known |-> call'.known]
        /\ call'.act \in BOOLEAN
    BY <2>1
  <2> QED BY <2>4, <2>5 DEF CallInv
<1>3. CASE ~ShouldTrigger(Head(call.ask), call.seg)
  BY <1>1, <1>3 DEF Ask, Rest, CallInv
<1> QED BY <1>2, <1>3

LEMMA ActedOnce ==
  ASSUME CallInv, NEW o, Act(o)
  PROVE  CallInv' /\ call.act /\ Head(call.ask) = o /\ UNCHANGED <<now, briefs, heard, session>>
BY DEF Act, Rest, CallInv

LEMMA JobIs == ASSUME NEW o \in {"terms", "briefs", "translator"}, NEW id
               PROVE  LET j == Job(o, id) IN /\ IsJob(j) /\ j.observer = o /\ j.stage = "queued"
                                             /\ j.known = call.known /\ j.skeleton = id
BY DEF Job, IsJob

LEMMA DoneIs ==
  ASSUME NEW work, IsJob(work), NEW event
  PROVE  LET next == Done(work, event)
         IN  IsJob(next) /\ next.observer = work.observer /\ next.stage = "done" /\ next.event = event
             /\ next.alone = work.alone /\ next.skeleton = work.skeleton
<1> DEFINE ran == [work EXCEPT !.stage = "done"]
<1>1. /\ ran = [observer |-> work.observer, stage |-> "done", event |-> work.event,
                 known |-> work.known, skeleton |-> work.skeleton, alone |-> work.alone, seg |-> work.seg]
  BY DEF IsJob
<1>2. Done(work, event) = [ran EXCEPT !.event = event]
  BY DEF Done
<1> HIDE DEF ran
<1>3. Done(work, event) = [observer |-> work.observer, stage |-> "done", event |-> event,
                 known |-> work.known, skeleton |-> work.skeleton, alone |-> work.alone, seg |-> work.seg]
  BY <1>1, <1>2
<1> QED BY <1>3 DEF IsJob

\* The worker's steps: a job that is running ends or becomes another.
LEMMA Worked ==
  ASSUME QueueInv, NEW work \in running, queue' = queue,
         NEW next, IsJob(next), running' \in {running \ {work}, (running \ {work}) \cup {next}}
  PROVE  QueueInv' /\ \A n \in Jobs' : n = next \/ n \in Jobs
<1>1. QueueInv' <=> queue' \in Seq(Jobs') /\ (\A n \in Jobs' : IsJob(n)) /\ \A i \in DOMAIN queue' : queue'[i].stage = "queued"
  BY DEF QueueInv
<1>2. queue \in Seq({queue[i] : i \in DOMAIN queue})
  BY DEF QueueInv
<1> QED BY <1>1, <1>2, JobsAre DEF QueueInv
--------------------------------------------------------------------------------
LEMMA BriefsStep == ASSUME QueueInv, CallInv, BriefsInv, LiveNext
                    PROVE  QueueInv' /\ CallInv' /\ BriefsInv'
<1> USE DEF observerVars
<1>1. CASE UNCHANGED <<queue, running, briefs, briefAt>> /\ CallInv' /\ now' \in Nat /\ now' >= now
  <2>1. Jobs' = Jobs /\ QueueInv'
    BY <1>1, JobsAre DEF QueueInv
  <2>2. \A k : Spaced(k) => Spaced(k)'
    BY <1>1, SpacedStays DEF BriefsInv
  <2>3. BriefsAreSpaced'
    BY <1>1 DEF BriefsInv, BriefsAreSpaced
  <2>4. FoundInv'
    <3>1. FoundInv
      BY DEF BriefsInv
    <3> QED BY <3>1, <1>1, ObserverBounds DEF FoundInv
  <2> QED BY <2>4, <1>1, <2>1, <2>2, <2>3 DEF BriefsInv
<1>2. CASE Tick
  <2>1. now' \in Nat /\ now' >= now /\ UNCHANGED <<queue, running, briefs, briefAt, call>>
    BY <1>2 DEF Tick, BriefsInv, FoundInv
  <2>2. CallInv'
    BY <2>1, SpacedStays DEF CallInv, BriefsInv
  <2> QED BY <2>1, <2>2, <1>1
<1>3. ASSUME NEW said, Hear(said) PROVE CallInv'
  BY <1>3 DEF Hear, CallInv
<1>4. CASE \E said \in session.says : Hear(said)
  <2>1. UNCHANGED <<queue, running, briefs, briefAt, now>> /\ CallInv'
    BY <1>3, <1>4 DEF Hear
  <2> QED BY <1>1, <2>1 DEF BriefsInv, FoundInv
<1>5. CASE Ask
  BY <1>1, <1>5, AskedInTime DEF Ask, BriefsInv, FoundInv
<1>6. CASE ActMetrics \/ ActPoints
  BY <1>1, <1>6, ActedOnce DEF ActMetrics, ActPoints, BriefsInv, FoundInv
<1>7. ASSUME NEW o \in {"terms", "briefs", "translator"}, NEW id, Act(o), Submit(Job(o, id)),
             briefAt' = briefAt
      PROVE  QueueInv' /\ CallInv' /\ BriefsInv'
  <2>1. CallInv' /\ call.act /\ Head(call.ask) = o /\ UNCHANGED <<now, briefs, heard, session>>
    BY <1>7, ActedOnce
  <2>2. QueueInv' /\ \A n \in Jobs' : \E j \in Jobs \cup {Job(o, id)} :
              n.observer = j.observer /\ n.stage = j.stage /\ n.known = j.known
    BY <1>7, JobIs, Submitted
  <2>3. call # None
    BY <1>7 DEF Act
  <2>4. o = "briefs" => Spaced(call.known)
    BY <2>1, <2>3 DEF CallInv
  <2>5. \A k : Spaced(k) => Spaced(k)'
    BY <2>1 DEF Spaced
  <2>6. FoundInv' /\ BriefsAreSpaced'
    BY <2>1, <1>7 DEF BriefsInv, FoundInv, BriefsAreSpaced
  <2>7. ASSUME NEW n \in Jobs', n.observer = "briefs" /\ n.stage \in {"queued", "run"}
        PROVE  Spaced(n.known)'
    <3>1. PICK j \in Jobs \cup {Job(o, id)} :
            n.observer = j.observer /\ n.stage = j.stage /\ n.known = j.known
      BY <2>2, <2>7
    <3>3. j = Job(o, id) => j.observer = o /\ j.known = call.known
      BY JobIs
    <3>2. Spaced(j.known)
      BY <3>1, <3>3, <2>4, <2>7 DEF BriefsInv
    <3> QED BY <3>1, <3>2, <2>5
  <2> QED BY <2>1, <2>2, <2>6, <2>7 DEF BriefsInv
<1>8. CASE ActTerms
  BY <1>7, <1>8 DEF ActTerms
<1>9. CASE \E o \in session.on : ActLater(o)
  BY <1>7, <1>9 DEF ActLater
<1>10. ASSUME NEW work \in running, queue' = queue, UNCHANGED <<now, call>>, NEW next, IsJob(next),
              running' \in {running \ {work}, (running \ {work}) \cup {next}},
              (next.observer = work.observer /\ next.stage \notin {"queued", "run"}) \/ next = work,
              briefs' = briefs \/ \E b \in Briefs : briefs' = Append(briefs, b),
              FoundInv', BriefsAreSpaced'
       PROVE  QueueInv' /\ CallInv' /\ BriefsInv'
  <2>1. QueueInv' /\ \A n \in Jobs' : n = next \/ n \in Jobs
    BY <1>10, Worked
  <2>2. \A k : Spaced(k) => Spaced(k)'
    BY <1>10, SpacedStays DEF BriefsInv, FoundInv
  <2>3. CallInv'
    BY <2>2, <1>10 DEF CallInv
  <2>4. work \in Jobs
    BY JobsAre
  <2> QED BY <2>1, <2>2, <2>3, <2>4, <1>10 DEF BriefsInv
<1>11. CASE Take
  <2>1. queue # <<>> /\ UNCHANGED <<briefs, briefAt, call, now>>
    BY <1>11 DEF Take
  <2> DEFINE work == [Head(queue) EXCEPT !.stage = "run"]
  <2>2. queue \in Seq({queue[i] : i \in DOMAIN queue}) /\ Head(queue) \in Jobs /\ IsJob(Head(queue))
    BY <2>1, JobsAre DEF QueueInv
  <2>3. IsJob(work) /\ work.observer = Head(queue).observer /\ work.known = Head(queue).known
    BY <2>2 DEF IsJob
  <2>4. /\ queue' = Tail(queue) /\ running' = running \cup {work}
        /\ \A i \in DOMAIN queue' : i + 1 \in DOMAIN queue /\ queue'[i] = queue[i + 1]
    BY <1>11, <2>1, <2>2 DEF Take
  <2>5. queue' \in Seq({queue'[i] : i \in DOMAIN queue'})
    <3> DEFINE Old == {queue[i] : i \in DOMAIN queue}
    <3>1. queue' \in Seq(Old)
      <4>1. queue \in Seq(Old)
        BY <2>2
      <4> HIDE DEF Old
      <4> QED BY <4>1, <2>4, <2>1
    <3> QED BY <3>1
  <2> HIDE DEF work
  <2>6. \A n \in Jobs' : n = work \/ n \in Jobs
    BY <2>4, JobsAre
  <2>7. QueueInv'
    <3>1. queue' \in Seq(Jobs')
      BY <2>5, JobsAre
    <3>2. \A i \in DOMAIN queue' : queue'[i].stage = "queued"
      BY <2>4 DEF QueueInv
    <3> QED BY <3>1, <3>2, <2>3, <2>6 DEF QueueInv
  <2>8. \A k : Spaced(k) => Spaced(k)'
    BY <2>1 DEF Spaced
  <2>9. FoundInv' /\ BriefsAreSpaced' /\ CallInv'
    BY <2>1, <2>8 DEF BriefsInv, FoundInv, BriefsAreSpaced, CallInv
  <2>10. ASSUME NEW n \in Jobs', n.observer = "briefs", n.stage \in {"queued", "run"}
         PROVE  Spaced(n.known)'
    <3>1. CASE n \in Jobs
      BY <3>1, <2>8, <2>10 DEF BriefsInv
    <3>2. CASE n = work
      <4>1. Head(queue).stage = "queued"
        BY <2>2, <2>1 DEF QueueInv
      <4> QED BY <4>1, <3>2, <2>2, <2>3, <2>8, <2>10 DEF BriefsInv
    <3> QED BY <3>1, <3>2, <2>6
  <2> QED BY <2>7, <2>9, <2>10 DEF BriefsInv
<1>12. ASSUME NEW work \in running, Nothing(work) \/ Emit(work) PROVE QueueInv' /\ CallInv' /\ BriefsInv'
  <2>1. UNCHANGED <<now, call, queue, briefs, briefAt>> /\ running' = running \ {work}
    BY <1>12 DEF Nothing, Emit, Ends
  <2>2. FoundInv' /\ BriefsAreSpaced'
    BY <2>1 DEF BriefsInv, FoundInv, BriefsAreSpaced
  <2>3. IsJob(work)
    BY JobsAre DEF QueueInv
  <2> QED BY <2>1, <2>2, <2>3, <1>10
<1>14. ASSUME NEW work \in running, NEW next, Becomes(work, next), IsJob(next),
              next.observer = work.observer, next.stage \in {"explained", "done"},
              UNCHANGED <<now, call, queue, briefs, briefAt>>
       PROVE  QueueInv' /\ CallInv' /\ BriefsInv'
  <2>1. FoundInv' /\ BriefsAreSpaced'
    BY <1>14 DEF BriefsInv, FoundInv, BriefsAreSpaced
  <2> QED BY <1>14, <2>1, <1>10 DEF Becomes
<1>15. ASSUME NEW work \in running, Translate(work) PROVE QueueInv' /\ CallInv' /\ BriefsInv'
  <2>1. IsJob(work)
    BY JobsAre DEF QueueInv
  <2> DEFINE next == Done(work, work.seg.no)
  <2>2. IsJob(next) /\ next.observer = work.observer /\ next.stage = "done"
    BY <2>1, DoneIs
  <2> HIDE DEF next
  <2>3. Becomes(work, next) /\ UNCHANGED <<now, call, queue, briefs, briefAt>>
    BY <1>15 DEF Translate, next
  <2> QED BY <1>14, <2>2, <2>3
<1>16. ASSUME NEW work \in running, Explain(work) \/ TakePlace(work)
       PROVE  QueueInv' /\ CallInv' /\ BriefsInv'
  <2>1. IsJob(work)
    BY JobsAre DEF QueueInv
  <2>2. Explain(work) => QueueInv' /\ CallInv' /\ BriefsInv'
    <3> DEFINE next == [work EXCEPT !.stage = "explained"]
    <3>1. IsJob(next) /\ next.observer = work.observer /\ next.stage = "explained"
      BY <2>1 DEF IsJob
    <3> HIDE DEF next
    <3>2. Explain(work) => Becomes(work, next) /\ UNCHANGED <<now, call, queue, briefs, briefAt>>
      BY DEF Explain, next
    <3> QED BY <1>14, <3>1, <3>2
  <2>3. TakePlace(work) => QueueInv' /\ CallInv' /\ BriefsInv'
    <3> DEFINE next == Done(work, IF pending = None THEN TermId ELSE pending)
    <3>1. IsJob(next) /\ next.observer = work.observer /\ next.stage = "done"
      BY <2>1, DoneIs
    <3> HIDE DEF next
    <3>2. TakePlace(work) => Becomes(work, next) /\ UNCHANGED <<now, call, queue, briefs, briefAt>>
      BY DEF TakePlace, next
    <3> QED BY <1>14, <3>1, <3>2
  <2> QED BY <1>16, <2>2, <2>3
<1>17. ASSUME NEW work \in running, FindBrief(work) PROVE QueueInv' /\ CallInv' /\ BriefsInv'
  <2> DEFINE b == [found |-> now, known |-> work.known]
             next == Done(work, work.seg.no)
  <2>1. /\ work.observer = "briefs" /\ work.stage = "run" /\ briefAt' = now /\ Becomes(work, next)
        /\ briefs' = Append(briefs, b) /\ UNCHANGED <<now, call, queue>>
    BY <1>17 DEF FindBrief
  <2>2. work \in Jobs /\ IsJob(work)
    BY JobsAre DEF QueueInv
  <2>3. IsJob(next) /\ next.observer = work.observer /\ next.stage = "done"
    BY <2>2, DoneIs
  <2>4. FoundInv /\ Spaced(work.known)
    BY <2>1, <2>2 DEF BriefsInv
  <2>5. b \in Briefs /\ b.found = now /\ b.known = work.known
    BY <2>4 DEF FoundInv, Spaced, Briefs
  <2>6. /\ briefs \in Seq(Briefs) /\ briefs' \in Seq(Briefs) /\ Len(briefs') = Len(briefs) + 1
        /\ \A i \in 1..Len(briefs) : briefs'[i] = briefs[i]
        /\ briefs'[Len(briefs) + 1] = b
    <3>1. briefs \in Seq(Briefs)
      BY <2>4 DEF FoundInv
    <3> HIDE DEF b
    <3> QED BY <3>1, <2>1, <2>5
  <2> HIDE DEF b, next
  <2>7. FoundInv'
    <3> SUFFICES ASSUME NEW i \in 1..Len(briefs')
                 PROVE  briefs'[i].found \in Nat /\ Epoch <= briefs'[i].found /\ briefs'[i].found <= now
      BY <2>1, <2>4, <2>6 DEF FoundInv
    <3> QED BY <2>1, <2>4, <2>5, <2>6, ObserverBounds DEF FoundInv
  <2>8. BriefsAreSpaced'
    <3> SUFFICES ASSUME NEW i \in 1..Len(briefs'), NEW j \in 1..Len(briefs'), i < j,
                        briefs'[j].found - briefs'[i].found < BriefCooldown
                 PROVE  briefs'[j].known < i
      BY <2>6 DEF BriefsAreSpaced
    <3>1. i \in 1..Len(briefs) /\ briefs'[i] = briefs[i]
      BY <2>6
    <3>2. CASE j \in 1..Len(briefs)
      BY <3>1, <3>2, <2>6 DEF BriefsInv, BriefsAreSpaced
    <3>3. CASE j = Len(briefs) + 1
      <4>1. now - briefs[i].found < BriefCooldown
        BY <3>1, <3>3, <2>5, <2>6
      <4>3. BriefCooldown \in Nat /\ now \in Nat /\ briefs[i].found \in Nat
        <5>1. BriefCooldown \in Nat
          BY Zenon, ObserverBounds
        <5> QED BY <5>1, <3>1 DEF BriefsInv, FoundInv
      <4>2. work.known \in Nat /\ ~(i \in 1..work.known)
        <5>1. work.known \in Nat /\ \A l \in 1..work.known : now - briefs[l].found >= BriefCooldown
          BY <2>4 DEF Spaced, BriefsInv, FoundInv
        <5> QED BY <4>1, <4>3, <5>1
      <4> QED BY <4>2, <3>1, <3>3, <2>5, <2>6
    <3> QED BY <3>2, <3>3, <2>6
  <2> QED BY <2>1, <2>3, <2>5, <2>7, <2>8, <1>10 DEF Becomes
<1> QED
  BY <1>2, <1>4, <1>5, <1>6, <1>8, <1>9, <1>11, <1>12, <1>15, <1>16, <1>17 DEF LiveNext
--------------------------------------------------------------------------------
LEMMA WorkedAlone ==
  ASSUME QueueInv, AloneInv, NEW work \in running, NEW next,
         queue' = queue, running' \subseteq (running \ {work}) \cup {next},
         next.observer = work.observer, next.alone = work.alone, next.skeleton = work.skeleton,
         next.stage = "explained" => work.observer = "terms",
         work.observer # "terms" => pending' = pending,
         work.observer = "terms" /\ work.alone =>
           IF next.stage = "done" THEN next.event = next.skeleton ELSE pending' = next.skeleton
  PROVE  AloneInv'
<1>1. \A n \in running' : n = next \/ (n \in running /\ n # work)
  OBVIOUS
<1>2. ASSUME NEW n \in running', n.observer = "terms" /\ n.alone
      PROVE  /\ \A other \in running' : other.observer = "terms" => other = n
             /\ \A i \in DOMAIN queue' : queue'[i].observer # "terms"
             /\ n.skeleton # None
             /\ IF n.stage = "done" THEN n.event = n.skeleton ELSE pending' = n.skeleton
  <2>1. CASE n = next
    BY <2>1, <1>1, <1>2 DEF AloneInv
  <2>2. CASE n \in running /\ n # work
    BY <2>2, <1>1, <1>2 DEF AloneInv
  <2> QED BY <2>1, <2>2, <1>1
<1>3. ASSUME NEW i \in DOMAIN queue', queue'[i].observer = "terms" /\ queue'[i].alone
      PROVE  /\ \A j \in DOMAIN queue' : queue'[j].observer = "terms" => j = i
             /\ \A other \in running' : other.observer # "terms"
             /\ queue'[i].skeleton # None /\ pending' = queue'[i].skeleton
  BY <1>1, <1>3 DEF AloneInv
<1>4. \A n \in running' : n.stage = "explained" => n.observer = "terms"
  BY <1>1 DEF AloneInv
<1> QED BY <1>2, <1>3, <1>4 DEF AloneInv

LEMMA AloneStep == ASSUME QueueInv, AloneInv, LiveNext PROVE AloneInv'
<1> USE DEF observerVars
<1>1. CASE UNCHANGED <<queue, running, pending>>
  BY <1>1 DEF AloneInv
<1>2. CASE Tick \/ (\E said \in session.says : Hear(said)) \/ Ask \/ ActMetrics \/ ActPoints
  <2>1. UNCHANGED <<queue, running, pending>>
    BY <1>2 DEF Tick, Hear, Ask, ActMetrics, ActPoints
  <2> QED BY <2>1, <1>1
<1>3. \A j \in Jobs : IsJob(j)
  BY DEF QueueInv
<1>4. ASSUME NEW o \in {"briefs", "translator"}, Submit(Job(o, None)), pending' = pending PROVE AloneInv'
  <2> DEFINE new == [Job(o, None) EXCEPT !.alone = FALSE]
  <2>1. new.observer = o
    BY DEF Job
  <2>2. running' = running /\ queue' \in {queue, Append(queue, new)}
    <3> DEFINE work == Job(o, None)
               alone == work.skeleton # None /\ \A other \in Jobs : other.observer # "terms"
    <3>1. work.observer = o /\ work.skeleton = None
      BY JobIs
    <3>2. alone = FALSE
      BY <3>1
    <3>3. running' = running /\ queue' \in {queue, Append(queue, [work EXCEPT !.alone = alone])}
      <4> HIDE DEF work
      <4> QED BY <1>4, <3>1 DEF Submit, work
    <3> QED BY <3>2, <3>3
  <2> HIDE DEF new
  <2>3. /\ queue \in Seq(Jobs) /\ \A i \in DOMAIN queue : i \in DOMAIN queue' /\ queue'[i] = queue[i]
        /\ \A i \in DOMAIN queue' : i \in DOMAIN queue \/ queue'[i] = new
    BY <2>2 DEF QueueInv
  <2>4. \A i \in DOMAIN queue' : queue'[i].observer = "terms" => i \in DOMAIN queue /\ queue'[i] = queue[i]
    BY <2>1, <2>3, <1>4
  <2> QED BY <2>2, <2>4, <1>4 DEF AloneInv
<1>5. CASE \E o \in session.on : ActLater(o)
  BY <1>4, <1>5 DEF ActLater
<1>6. CASE ActTerms
  <2>1. PICK id : /\ Submit(Job("terms", id))
                  /\ id = None \/ pending' = id
    BY <1>6 DEF ActTerms
  <2> DEFINE alone == id # None /\ \A other \in Jobs : other.observer # "terms"
             new == [Job("terms", id) EXCEPT !.alone = alone]
             waiting == [i \in DOMAIN queue |-> Crowded(queue[i])]
  <2>2. new.observer = "terms" /\ new.alone = alone /\ new.skeleton = id
    BY DEF Job
  <2>3. /\ running' = {Crowded(other) : other \in running}
        /\ queue' \in {waiting, Append(waiting, new)}
    BY <2>1, JobIs DEF Submit
  <2>4. \A j \in Jobs : Crowded(j).alone = FALSE /\ Crowded(j).observer = j.observer /\ Crowded(j).stage = j.stage
    BY <1>3 DEF Crowded, IsJob
  <2>5. DOMAIN waiting = DOMAIN queue /\ \E S : waiting \in Seq(S)
    <3>1. queue \in Seq(Jobs)
      BY DEF QueueInv
    <3>2. waiting \in Seq({waiting[i] : i \in DOMAIN waiting})
      BY <3>1
    <3> QED BY <3>2
  <2>6. PICK S : waiting \in Seq(S)
    BY <2>5
  <2>7. /\ \A i \in DOMAIN queue' : IF i \in DOMAIN waiting THEN queue'[i] = waiting[i] ELSE queue'[i] = new
        /\ \A i, j \in DOMAIN queue' : i \in DOMAIN waiting \/ j \in DOMAIN waiting \/ i = j
    <3> DEFINE All == S \cup {new}
    <3>1. waiting \in Seq(All) /\ new \in All
      BY <2>6
    <3> HIDE DEF new, waiting, All
    <3> QED BY <3>1, <2>3
  <2>8. \A i \in DOMAIN waiting : /\ queue[i] \in Jobs
                                  /\ waiting[i].alone = FALSE /\ waiting[i].observer = queue[i].observer
    BY <2>4, JobsAre
  <2>9. \A n \in running' : \E j \in Jobs : j \in running /\ n.alone = FALSE /\ n.observer = j.observer /\ n.stage = j.stage
    BY <2>3, <2>4, JobsAre
  <2>10. ASSUME NEW i \in DOMAIN queue', queue'[i].observer = "terms" /\ queue'[i].alone
         PROVE  /\ \A j \in DOMAIN queue' : queue'[j].observer = "terms" => j = i
                /\ \A other \in running' : other.observer # "terms"
                /\ queue'[i].skeleton # None /\ pending' = queue'[i].skeleton
    <3>1. i \notin DOMAIN waiting /\ queue'[i] = new
      BY <2>7, <2>8, <2>10
    <3>2. alone
      BY <3>1, <2>2, <2>10
    <3>3. \A j \in DOMAIN queue' : queue'[j].observer = "terms" => j = i
      <4> SUFFICES ASSUME NEW j \in DOMAIN queue', j \in DOMAIN waiting PROVE queue'[j].observer # "terms"
        BY <3>1, <2>7
      <4> QED BY <3>2, <2>7, <2>8
    <3>4. \A other \in running' : other.observer # "terms"
      BY <3>2, <2>9
    <3>5. queue'[i].skeleton = id
      BY <3>1, <2>2
    <3> QED BY <3>2, <3>3, <3>4, <3>5, <2>1
  <2>11. \A n \in running' : n.alone = FALSE /\ (n.stage = "explained" => n.observer = "terms")
    BY <2>9 DEF AloneInv
  <2> QED BY <2>10, <2>11 DEF AloneInv
<1>7. CASE Take
  <2> DEFINE first == Head(queue)
             work == [first EXCEPT !.stage = "run"]
  <2>1. queue # <<>> /\ pending' = pending /\ running' = running \cup {work} /\ queue' = Tail(queue)
    BY <1>7 DEF Take
  <2>2. /\ 1 \in DOMAIN queue /\ first = queue[1] /\ first \in Jobs
        /\ \A i \in DOMAIN queue' : i + 1 \in DOMAIN queue /\ queue'[i] = queue[i + 1] /\ i + 1 # 1 /\ i \in Nat
    BY <2>1 DEF QueueInv
  <2>3. /\ work.observer = first.observer /\ work.alone = first.alone /\ work.skeleton = first.skeleton
        /\ work.stage = "run"
    BY <2>2, <1>3 DEF IsJob
  <2> HIDE DEF work, first
  <2>4. \A n \in running' : n = work \/ n \in running
    BY <2>1
  <2>5. ASSUME NEW n \in running', n.observer = "terms" /\ n.alone
        PROVE  /\ \A other \in running' : other.observer = "terms" => other = n
               /\ \A i \in DOMAIN queue' : queue'[i].observer # "terms"
               /\ n.skeleton # None
               /\ IF n.stage = "done" THEN n.event = n.skeleton ELSE pending' = n.skeleton
    <3>1. CASE n = work
      BY <3>1, <2>1, <2>2, <2>3, <2>4, <2>5 DEF AloneInv
    <3>2. CASE n \in running
      BY <3>2, <2>1, <2>2, <2>3, <2>4, <2>5 DEF AloneInv
    <3> QED BY <3>1, <3>2, <2>4
  <2>6. ASSUME NEW i \in DOMAIN queue', queue'[i].observer = "terms" /\ queue'[i].alone
        PROVE  /\ \A j \in DOMAIN queue' : queue'[j].observer = "terms" => j = i
               /\ \A other \in running' : other.observer # "terms"
               /\ queue'[i].skeleton # None /\ pending' = queue'[i].skeleton
    <3>1. \A j \in DOMAIN queue : queue[j].observer = "terms" => j = i + 1
      BY <2>2, <2>6 DEF AloneInv
    <3>2. queue[i + 1].skeleton # None /\ pending = queue[i + 1].skeleton
      BY <2>2, <2>6 DEF AloneInv
    <3>3. \A other \in running : other.observer # "terms"
      BY <2>2, <2>6 DEF AloneInv
    <3>4. work.observer # "terms"
      BY <3>1, <2>2, <2>3, <2>6
    <3>5. \A j \in DOMAIN queue' : queue'[j].observer = "terms" => j = i
      BY <3>1, <2>2, <2>6
    <3> QED BY <3>2, <3>3, <3>4, <3>5, <2>1, <2>2, <2>4, <2>6
  <2>7. \A n \in running' : n.stage = "explained" => n.observer = "terms"
    BY <2>3, <2>4 DEF AloneInv
  <2> QED BY <2>5, <2>6, <2>7 DEF AloneInv
<1>8. ASSUME NEW work \in running PROVE IsJob(work)
  BY <1>3, JobsAre
<1>9. ASSUME NEW work \in running, Nothing(work) \/ Emit(work) PROVE AloneInv'
  <2>1. running' = running \ {work} /\ queue' = queue /\ pending' = pending
    BY <1>9 DEF Nothing, Emit, Ends
  <2>2. /\ work.stage = "explained" => work.observer = "terms"
        /\ work.observer = "terms" /\ work.alone =>
             IF work.stage = "done" THEN work.event = work.skeleton ELSE pending' = work.skeleton
    BY <2>1 DEF AloneInv
  <2> QED BY <2>1, <2>2, WorkedAlone
<1>10. ASSUME NEW work \in running, FindBrief(work) \/ Translate(work) PROVE AloneInv'
  <2> DEFINE next == Done(work, work.seg.no)
  <2>1. /\ next.observer = work.observer /\ next.stage = "done" /\ next.alone = work.alone
        /\ next.skeleton = work.skeleton
    BY <1>8, DoneIs
  <2> HIDE DEF next
  <2>2. /\ running' = (running \ {work}) \cup {next} /\ queue' = queue /\ pending' = pending
        /\ work.observer # "terms"
    BY <1>10 DEF FindBrief, Translate, Becomes, next
  <2> QED BY <2>1, <2>2, WorkedAlone
<1>11. ASSUME NEW work \in running, Explain(work) PROVE AloneInv'
  <2> DEFINE next == [work EXCEPT !.stage = "explained"]
  <2>1. /\ next.observer = work.observer /\ next.stage = "explained" /\ next.alone = work.alone
        /\ next.skeleton = work.skeleton
    BY <1>8 DEF IsJob
  <2> HIDE DEF next
  <2>2. /\ running' = (running \ {work}) \cup {next} /\ queue' = queue /\ pending' = pending
        /\ work.observer = "terms" /\ work.stage = "run"
    BY <1>11 DEF Explain, Becomes, next
  <2>3. work.alone => pending = work.skeleton
    BY <2>2 DEF AloneInv
  <2> QED BY <2>1, <2>2, <2>3, WorkedAlone
<1>12. ASSUME NEW work \in running, TakePlace(work) PROVE AloneInv'
  <2> DEFINE event == IF pending = None THEN TermId ELSE pending
             next == Done(work, event)
  <2>1. /\ next.observer = work.observer /\ next.stage = "done" /\ next.alone = work.alone
        /\ next.skeleton = work.skeleton /\ next.event = event
    BY <1>8, DoneIs
  <2>2. /\ running' = (running \ {work}) \cup {next} /\ queue' = queue
        /\ work.observer = "terms" /\ work.stage = "explained"
    BY <1>12 DEF TakePlace, Becomes, AloneInv
  <2> HIDE DEF next
  <2>3. work.alone => event = work.skeleton
    BY <2>2 DEF AloneInv
  <2> QED BY <2>1, <2>2, <2>3, WorkedAlone
<1> QED
  BY <1>2, <1>5, <1>6, <1>7, <1>9, <1>10, <1>11, <1>12 DEF LiveNext
--------------------------------------------------------------------------------
LEMMA LateStep == LateInv /\ [LiveNext]_liveVars => LateInv'
<1> SUFFICES ASSUME LateInv, [LiveNext]_liveVars PROVE LateInv'
  OBVIOUS
<1>1. CASE LiveNext
  BY <1>1, BriefsStep, AloneStep DEF LateInv
<1>2. CASE UNCHANGED liveVars
  <2>1. UNCHANGED <<queue, running, pending, briefs, briefAt, call, now>>
    BY <1>2 DEF liveVars, observerVars
  <2>2. Jobs' = Jobs
    BY <2>1, JobsAre
  <2>3. QueueInv' /\ AloneInv'
    BY <2>1, <2>2 DEF LateInv, QueueInv, AloneInv
  <2>4. CallInv' /\ BriefsInv'
    BY <2>1, <2>2 DEF LateInv, CallInv, BriefsInv, FoundInv, BriefsAreSpaced, Spaced
  <2> QED BY <2>3, <2>4 DEF LateInv
<1> QED BY <1>1, <1>2

\* What the workers bring late fits what has happened since they were sent for: of the
\* term explainer that is said of a job that had it for itself from the card to the
\* answer, and of no other.
THEOREM LateAnswers == LiveSpec => []LateAnswersFit
<1>1. LateInv /\ [LiveNext]_liveVars => LateInv'
  BY LateStep
<1>2. LateInv => LateAnswersFit
  BY DEF LateInv, LateAnswersFit, BriefsInv, AloneInv, AnswersTakeTheirPlace
<1> QED BY <1>1, <1>2, LateInit, PTL DEF LiveSpec
--------------------------------------------------------------------------------
\* The end of a sequence, of n elements or all of it.
IsNewest(e, n, s) ==
  /\ Len(e) \in Nat /\ Len(s) \in Nat /\ Len(e) = (IF Len(s) > n THEN n ELSE Len(s))
  /\ \A i \in 1..Len(e) : e[i] = s[Len(s) - Len(e) + i]

LEMMA NewestIs ==
  ASSUME NEW n \in Nat, NEW S, NEW s \in Seq(S)
  PROVE  Newest(n, s) \in Seq(S) /\ IsNewest(Newest(n, s), n, s)
<1>1. Len(s) \in Nat
  OBVIOUS
<1>2. CASE Len(s) > n
  <2> DEFINE from == Len(s) - n + 1
  <2>1. from \in 1..Len(s)+1 /\ \A i \in from..Len(s) : i \in 1..Len(s)
    BY <1>1, <1>2
  <2>2. /\ SubSeq(s, from, Len(s)) \in Seq(S)
        /\ Len(SubSeq(s, from, Len(s))) = n
        /\ \A i \in 1..n : SubSeq(s, from, Len(s))[i] = s[from + i - 1]
    BY <1>1, <1>2, <2>1
  <2>3. Newest(n, s) = SubSeq(s, from, Len(s))
    BY <1>2 DEF Newest
  <2> HIDE DEF from
  <2>4. \A i \in 1..n : from + i - 1 = Len(s) - n + i
    BY <1>1 DEF from
  <2>5. Len(Newest(n, s)) = IF Len(s) > n THEN n ELSE Len(s)
    BY <2>2, <2>3, <1>2
  <2>6. \A i \in 1..n : Newest(n, s)[i] = s[Len(s) - n + i]
    BY <2>2, <2>3, <2>4
  <2> QED BY <2>2, <2>3, <2>5, <2>6, <1>1, <1>2 DEF IsNewest
<1>3. CASE ~(Len(s) > n)
  BY <1>1, <1>3 DEF Newest, IsNewest
<1> QED BY <1>2, <1>3

LEMMA NewestOfNewest ==
  ASSUME NEW n \in Nat, NEW S, NEW s \in Seq(S), NEW x \in S
  PROVE  Newest(n, Append(Newest(n, s), x)) = Newest(n, Append(s, x))
<1> DEFINE e == Newest(n, s)
           a == Append(e, x)
           b == Append(s, x)
<1>1. e \in Seq(S) /\ IsNewest(e, n, s)
  BY NewestIs
<1> HIDE DEF e
<1>2. /\ a \in Seq(S) /\ Len(a) = Len(e) + 1 /\ a[Len(a)] = x
      /\ \A i \in 1..Len(e) : a[i] = e[i]
  BY <1>1
<1>3. /\ b \in Seq(S) /\ Len(b) = Len(s) + 1 /\ b[Len(b)] = x
      /\ \A i \in 1..Len(s) : b[i] = s[i]
  OBVIOUS
<1> HIDE DEF a, b
<1>4. IsNewest(Newest(n, a), n, a) /\ Newest(n, a) \in Seq(S)
  BY <1>2, NewestIs
<1>5. IsNewest(Newest(n, b), n, b) /\ Newest(n, b) \in Seq(S)
  BY <1>3, NewestIs
<1>6. Len(Newest(n, a)) = Len(Newest(n, b))
  BY <1>1, <1>2, <1>3, <1>4, <1>5 DEF IsNewest
<1>7. ASSUME NEW i \in 1..Len(Newest(n, a)) PROVE Newest(n, a)[i] = Newest(n, b)[i]
  <2> DEFINE k == Len(Newest(n, a))
  <2>1. k \in Nat /\ k <= Len(a) /\ k <= Len(b) /\ i \in 1..k /\ Len(e) \in Nat /\ Len(s) \in Nat
    BY <1>1, <1>2, <1>3, <1>4, <1>6, <1>5 DEF IsNewest
  <2>2. Newest(n, a)[i] = a[Len(a) - k + i] /\ Newest(n, b)[i] = b[Len(b) - k + i]
    BY <1>4, <1>5, <1>6 DEF IsNewest
  <2>3. CASE i = k
    BY <2>1, <2>2, <2>3, <1>2, <1>3
  <2>4. CASE i # k
    <3>1. Len(a) - k + i \in 1..Len(e) /\ Len(b) - k + i \in 1..Len(s)
      BY <2>1, <2>4, <1>2, <1>3
    <3>2. e[Len(a) - k + i] = s[Len(s) - Len(e) + (Len(a) - k + i)]
      BY <3>1, <1>1 DEF IsNewest
    <3>3. Len(s) - Len(e) + (Len(a) - k + i) = Len(b) - k + i
      BY <2>1, <1>2, <1>3
    <3> QED BY <3>1, <3>2, <3>3, <2>2, <1>2, <1>3
  <2> QED BY <2>3, <2>4
<1>8. Newest(n, a) = Newest(n, b)
  BY <1>4, <1>5, <1>6, <1>7, SeqEqual
<1> QED BY <1>8 DEF a, b, e
--------------------------------------------------------------------------------
\* What is extracted is a list, whatever the rules find.
LEMMA Extracted ==
  ASSUME NEW spoken, NEW C, spoken.clauses \in Seq(C)
  PROVE  \E F : Extract(spoken) \in Seq(F)
<1> DEFINE F == {[category |-> Fitting(c)[1].category, says |-> c.says, content |-> Content(c)] : c \in C}
           n == Len(spoken.clauses)
           step == [p \in Seq(F) \X (1..n) |-> Gather(p[1], spoken.clauses[p[2]])]
<1>1. n \in Nat /\ \A i \in 1..n : spoken.clauses[i] \in C
  OBVIOUS
<1>2. ASSUME NEW found \in Seq(F), NEW c \in C PROVE Gather(found, c) \in Seq(F)
  <2> DEFINE new == [category |-> Fitting(c)[1].category, says |-> c.says, content |-> Content(c)]
  <2>1. new \in F
    OBVIOUS
  <2>2. Gather(found, c) \in {found, Append(found, new)}
    BY DEF Gather
  <2> HIDE DEF new, F
  <2> QED BY <2>1, <2>2
<1>3. /\ step \in [Seq(F) \X (1..n) -> Seq(F)]
      /\ \A l \in Seq(F), i \in 1..n : step[<<l, i>>] = Gather(l, spoken.clauses[i])
  <2> HIDE DEF F, n
  <2> QED BY <1>1, <1>2
<1>4. <<>> \in Seq(F)
  OBVIOUS
<1> HIDE DEF step, F, n
<1>5. PICK g : Iterates(g, n, Seq(F), <<>>, step)
  BY ONLY <1>1, <1>3, <1>4, IterationExists
<1>6. g \in [0..n -> Seq(F)] /\ g[0] = <<>> /\ \A i \in 1..n : g[i] = Gather(g[i - 1], spoken.clauses[i])
  <2>1. g \in [0..n -> Seq(F)] /\ g[0] = <<>>
    BY <1>5 DEF Iterates
  <2>2. ASSUME NEW i \in 1..n PROVE g[i] = Gather(g[i - 1], spoken.clauses[i])
    <3>1. g[i] = step[<<g[i - 1], i>>]
      BY <1>5 DEF Iterates
    <3>2. g[i - 1] \in Seq(F)
      BY <1>1, <2>1
    <3> QED BY <1>3, <3>1, <3>2
  <2> QED BY <2>1, <2>2
<1> DEFINE Rule(h) == [i \in 0..n |-> IF i = 0 THEN <<>> ELSE Gather(h[i - 1], spoken.clauses[i])]
           all == CHOOSE h : h = Rule(h)
<1>7. Extract(spoken) \in {<<>>, all[n]}
  BY DEF Extract, n
<1>8. g = Rule(g)
  <2>1. \A i \in 0..n : i = 0 \/ i \in 1..n
    BY <1>1
  <2> QED BY <1>6, <2>1
<1>9. all = Rule(all)
  <2> HIDE DEF Rule
  <2> QED BY <1>8, Zenon
<1>10. all[0] = <<>> /\ \A i \in 1..n : all[i] = Gather(all[i - 1], spoken.clauses[i])
  <2>1. 0 \in 0..n /\ \A i \in 1..n : i \in 0..n /\ i # 0
    BY <1>1
  <2> QED BY <1>9, <2>1, Zenon
<1> HIDE DEF all, Rule
<1> DEFINE T == {i \in 0..n : all[i] \in Seq(F)}
<1>11. 0 \in T /\ \A i \in 1..n : i - 1 \in T => i \in T
  <2>1. 0 \in T
    <3>1. 0 \in 0..n
      BY <1>1
    <3>2. all[0] \in Seq(F)
      BY <1>4, <1>10, Zenon
    <3> QED BY <3>1, <3>2
  <2>2. ASSUME NEW i \in 1..n, i - 1 \in T PROVE i \in T
    <3>1. all[i - 1] \in Seq(F) /\ spoken.clauses[i] \in C /\ i \in 0..n
      BY <1>1, <2>2
    <3>2. all[i] \in Seq(F)
      BY <1>2, <1>10, <3>1
    <3> QED BY <3>1, <3>2
  <2> QED BY <2>1, <2>2
<1> HIDE DEF T
<1>12. 0..n \subseteq T
  BY ONLY <1>1, <1>11, InductionUpTo
<1>13. all[n] \in Seq(F)
  BY <1>1, <1>12 DEF T
<1> QED BY <1>4, <1>7, <1>13
--------------------------------------------------------------------------------
\* No content comes again within the window.
Differ(list) ==
  \A i, j \in 1..Len(list) : i < j /\ j - i <= DedupWindow => list[i].content # list[j].content

LEMMA AddDiffers ==
  ASSUME NEW S, NEW list \in Seq(S), Differ(list), NEW point, NEW ts,
         [id |-> <<ts, Len(list)>>, content |-> point.content] \in S
  PROVE  LET longer == Append(list, [id |-> <<ts, Len(list)>>, content |-> point.content])
         IN  \/ Add(list, point, ts) = list
             \/ Add(list, point, ts) = longer /\ Differ(longer)
<1> DEFINE new == [id |-> <<ts, Len(list)>>, content |-> point.content]
           longer == Append(list, new)
           e == Newest(DedupWindow, list)
<1>0. DedupWindow \in Nat /\ DedupWindow >= 1
  BY KeyPointBounds
<1>1. CASE IsRecent(point.content, list)
  BY <1>1 DEF Add
<1>2. CASE ~IsRecent(point.content, list)
  <2>1. Add(list, point, ts) = longer
    BY <1>2 DEF Add
  <2>2. e \in Seq(S) /\ IsNewest(e, DedupWindow, list)
    BY <1>0, NewestIs
  <2>3. \A k \in 1..Len(e) : e[k].content # point.content
    BY <1>2, <2>2 DEF IsRecent
  <2>4. new.content = point.content /\ new \in S
    OBVIOUS
  <2> HIDE DEF new, e
  <2>5. /\ Len(longer) = Len(list) + 1 /\ longer[Len(list) + 1] = new
        /\ \A i \in 1..Len(list) : longer[i] = list[i]
    BY <2>4
  <2>6. Len(list) \in Nat
    OBVIOUS
  <2> HIDE DEF longer
  <2>7. ASSUME NEW i \in 1..Len(longer), NEW j \in 1..Len(longer), i < j, j - i <= DedupWindow
        PROVE  longer[i].content # longer[j].content
    <3>1. CASE j \in 1..Len(list)
      <4>1. i \in 1..Len(list)
        BY <2>6, <2>7, <3>1
      <4> QED BY <3>1, <4>1, <2>5, <2>7 DEF Differ
    <3>2. CASE j = Len(list) + 1
      <4> DEFINE k == i - Len(list) + Len(e)
      <4>1. i \in 1..Len(list) /\ k \in 1..Len(e) /\ Len(list) - Len(e) + k = i
        <5>1. i \in Nat /\ i >= 1 /\ i <= Len(list) /\ Len(list) + 1 - i <= DedupWindow
          BY <2>6, <2>7, <2>5, <3>2
        <5>2. Len(e) \in Nat /\ Len(e) = IF Len(list) > DedupWindow THEN DedupWindow ELSE Len(list)
          BY <2>2 DEF IsNewest
        <5>3. PICK m : m = Len(e)
          OBVIOUS
        <5>4. m \in Nat /\ m <= Len(list) /\ Len(list) - m < i
          BY <5>1, <5>2, <5>3, <2>6, <1>0
        <5>5. i - Len(list) + m \in 1..m /\ Len(list) - m + (i - Len(list) + m) = i /\ i \in 1..Len(list)
          BY <5>1, <5>4, <2>6
        <5> QED BY <5>3, <5>5
      <4>2. e[k] = list[i]
        BY <4>1, <2>2 DEF IsNewest
      <4>3. longer[i] = list[i] /\ longer[j] = new
        BY <2>5, <3>2, <4>1
      <4> HIDE DEF k
      <4>4. list[i].content # point.content
        BY <2>3, <4>1, <4>2
      <4> QED BY ONLY <2>4, <4>3, <4>4
    <3>3. j \in 1..Len(list) \/ j = Len(list) + 1
      BY <2>5, <2>6
    <3> QED BY ONLY <3>1, <3>2, <3>3
  <2>8. Differ(longer)
    BY <2>7 DEF Differ
  <2> QED BY <2>1, <2>8 DEF longer, new
<1> QED BY <1>1, <1>2

\* A list that is longer by points of one time.
Longer(list, items, ts) ==
  /\ Len(items) <= Len(list) /\ \A i \in 1..Len(items) : list[i] = items[i]
  /\ \A i \in Len(items) + 1..Len(list) : list[i].id = <<ts, i - 1>>
  /\ Differ(list)

LEMMA AddLonger ==
  ASSUME NEW S, NEW items \in Seq(S), NEW list \in Seq(S), NEW point, NEW ts, Longer(list, items, ts),
         \A k \in Nat : [id |-> <<ts, k>>, content |-> point.content] \in S
  PROVE  Add(list, point, ts) \in Seq(S) /\ Longer(Add(list, point, ts), items, ts)
<1> DEFINE new == [id |-> <<ts, Len(list)>>, content |-> point.content]
           longer == Append(list, new)
<1>1. Len(list) \in Nat /\ Len(items) \in Nat /\ new \in S /\ Differ(list)
  BY DEF Longer
<1>2. \/ Add(list, point, ts) = list
      \/ Add(list, point, ts) = longer /\ Differ(longer)
  BY <1>1, AddDiffers
<1>3. new.id = <<ts, Len(list)>>
  OBVIOUS
<1> HIDE DEF new
<1>4. /\ longer \in Seq(S) /\ Len(longer) = Len(list) + 1 /\ longer[Len(list) + 1] = new
      /\ \A i \in 1..Len(list) : longer[i] = list[i]
  BY <1>1
<1> HIDE DEF longer
<1>5. CASE Add(list, point, ts) = longer /\ Differ(longer)
  <2>1. Len(items) <= Len(longer) /\ \A i \in 1..Len(items) : longer[i] = items[i]
    BY <1>1, <1>4 DEF Longer
  <2>2. \A i \in Len(items) + 1..Len(longer) : longer[i].id = <<ts, i - 1>>
    <3> SUFFICES ASSUME NEW i \in Len(items) + 1..Len(longer) PROVE longer[i].id = <<ts, i - 1>>
      OBVIOUS
    <3>1. CASE i = Len(list) + 1
      BY <1>1, <1>3, <1>4, <3>1
    <3>2. CASE i \in 1..Len(list)
      BY <1>1, <1>4, <3>2 DEF Longer
    <3> QED BY <3>1, <3>2, <1>1, <1>4
  <2> QED BY <2>1, <2>2, <1>4, <1>5 DEF Longer
<1> QED BY <1>2, <1>5

LEMMA PushedIs ==
  ASSUME NEW O, NEW items \in Seq(O), Differ(items), NEW spoken, NEW C, spoken.clauses \in Seq(C), NEW ts
  PROVE  \E S : \E list \in Seq(S) :
           /\ items \in Seq(S) /\ Longer(list, items, ts)
           /\ Push(items, spoken, ts) = [items |-> Newest(MaxItems, list),
                                       added |-> SubSeq(list, Len(items) + 1, Len(list))]
<1>1. PICK F : Extract(spoken) \in Seq(F)
  <2>1. PICK c : c = spoken.clauses
    OBVIOUS
  <2> QED BY Extracted
<1>2. PICK found \in Seq(F) : found = Extract(spoken)
  BY <1>1
<1> DEFINE n == Len(found)
           S == O \cup {[id |-> <<ts, q[1]>>, content |-> q[2].content] : q \in Nat \X F}
           Lists == {list \in Seq(S) : Longer(list, items, ts)}
           step == [p \in Lists \X (1..n) |-> Add(p[1], found[p[2]], ts)]
<1>3. n \in Nat /\ \A i \in 1..n : found[i] \in F
  OBVIOUS
<1>4. items \in Seq(S)
  OBVIOUS
<1>5. \A p \in F, k \in Nat : [id |-> <<ts, k>>, content |-> p.content] \in S
  <2> SUFFICES ASSUME NEW p \in F, NEW k \in Nat PROVE [id |-> <<ts, k>>, content |-> p.content] \in S
    OBVIOUS
  <2>1. PICK q \in Nat \X F : q[1] = k /\ q[2] = p
    BY <<k, p>> \in Nat \X F
  <2> QED BY <2>1
<1> HIDE DEF n, S
<1>6. items \in Lists
  BY <1>4 DEF Longer
<1>7. ASSUME NEW list \in Lists, NEW i \in 1..n PROVE Add(list, found[i], ts) \in Lists
  <2>1. PICK p : p = found[i]
    OBVIOUS
  <2>2. list \in Seq(S) /\ Longer(list, items, ts) /\ \A k \in Nat : [id |-> <<ts, k>>, content |-> p.content] \in S
    BY <1>3, <1>5, <2>1
  <2>3. Add(list, p, ts) \in Seq(S) /\ Longer(Add(list, p, ts), items, ts)
    BY ONLY <1>4, <2>2, AddLonger
  <2> QED BY <2>1, <2>3
<1>8. /\ step \in [Lists \X (1..n) -> Lists]
      /\ \A l \in Lists, i \in 1..n : step[<<l, i>>] = Add(l, found[i], ts)
  <2> HIDE DEF Lists
  <2> QED BY <1>7
<1> HIDE DEF step, Lists
<1>9. PICK g : Iterates(g, n, Lists, items, step)
  BY ONLY <1>3, <1>6, <1>8, IterationExists
<1>10. g \in [0..n -> Lists] /\ g[0] = items /\ \A i \in 1..n : g[i] = Add(g[i - 1], found[i], ts)
  <2>1. g \in [0..n -> Lists] /\ g[0] = items
    BY <1>9 DEF Iterates
  <2>2. ASSUME NEW i \in 1..n PROVE g[i] = Add(g[i - 1], found[i], ts)
    <3>1. g[i] = step[<<g[i - 1], i>>]
      BY <1>9 DEF Iterates
    <3>2. g[i - 1] \in Lists
      BY <1>3, <2>1
    <3> QED BY <1>8, <3>1, <3>2
  <2> QED BY <2>1, <2>2
<1> DEFINE Rule(h) == [i \in 0..n |-> IF i = 0 THEN items ELSE Add(h[i - 1], found[i], ts)]
           all == CHOOSE h : h = Rule(h)
<1>11. AddAll(items, found, ts) = all[n]
  BY DEF AddAll, n
<1>12. g = Rule(g)
  <2>1. \A i \in 0..n : i = 0 \/ i \in 1..n
    BY <1>3
  <2> QED BY <1>10, <2>1
<1>13. all = Rule(all)
  <2> HIDE DEF Rule
  <2> QED BY <1>12, Zenon
<1>14. all[0] = items /\ \A i \in 1..n : all[i] = Add(all[i - 1], found[i], ts)
  <2>1. 0 \in 0..n /\ \A i \in 1..n : i \in 0..n /\ i # 0
    BY <1>3
  <2> QED BY <1>13, <2>1, Zenon
<1> HIDE DEF all, Rule
<1> DEFINE T == {i \in 0..n : all[i] \in Lists}
<1>15. 0 \in T
  BY <1>3, <1>6, <1>14
<1>16. ASSUME NEW i \in 1..n, i - 1 \in T PROVE i \in T
  <2>1. all[i - 1] \in Lists /\ i \in 0..n
    BY <1>3, <1>16
  <2> QED BY <1>7, <1>14, <2>1
<1> HIDE DEF T
<1>17. 0..n \subseteq T
  BY ONLY <1>3, <1>15, <1>16, InductionUpTo
<1>18. PICK list \in Lists : list = AddAll(items, found, ts)
  BY <1>3, <1>11, <1>17 DEF T
<1>19. Push(items, spoken, ts) = [items |-> Newest(MaxItems, list),
                                added |-> SubSeq(list, Len(items) + 1, Len(list))]
  BY <1>2, <1>18, Zenon DEF Push
<1> QED BY <1>4, <1>18, <1>19 DEF Lists
--------------------------------------------------------------------------------
\* The cards that are shown one by one are the end of the longer list, as the
\* session's own is.
LEMMA ShownIs ==
  ASSUME NEW S, NEW items \in Seq(S), NEW list \in Seq(S), NEW ts, Longer(list, items, ts),
         Len(items) <= MaxItems, \A i \in 1..Len(items) : items[i].id[1] # ts
  PROVE  ShowPoints(items, SubSeq(list, Len(items) + 1, Len(list))) = Newest(MaxItems, list)
<1> DEFINE m == Len(items)
           added == SubSeq(list, m + 1, Len(list))
           n == Len(added)
           shown(k) == Newest(MaxItems, SubSeq(list, 1, m + k))
<1>1. /\ m \in Nat /\ n \in Nat /\ Len(list) = m + n /\ MaxItems \in Nat
      /\ \A k \in 1..n : added[k] = list[m + k] /\ m + k \in 1..Len(list)
  BY KeyPointBounds DEF Longer
<1>2. shown(0) = items
  <2>1. SubSeq(list, 1, m) \in Seq(S) /\ Len(SubSeq(list, 1, m)) = m /\ \A i \in 1..m : SubSeq(list, 1, m)[i] = items[i]
    BY <1>1 DEF Longer
  <2>2. SubSeq(list, 1, m) = items
    BY <2>1, SeqEqual
  <2>3. Newest(MaxItems, items) = items
    BY <1>1 DEF Newest
  <2>4. m + 0 = m
    BY <1>1
  <2> QED BY <2>2, <2>3, <2>4
<1> HIDE DEF n, added
<1>3. ASSUME NEW k \in 1..n PROVE ShowPoint(shown(k - 1), added[k]) = shown(k)
  <2> DEFINE before == SubSeq(list, 1, m + (k - 1))
             point == list[m + k]
  <2>1. /\ before \in Seq(S) /\ Len(before) = m + (k - 1) /\ point \in S
        /\ \A i \in 1..Len(before) : before[i] = list[i]
    BY <1>1
  <2>2. SubSeq(list, 1, m + k) = Append(before, point)
    <3>1. m + k - 1 = m + (k - 1) /\ m + k \in 1..Len(list)
      BY <1>1
    <3>2. /\ SubSeq(list, 1, m + k) \in Seq(S) /\ Len(SubSeq(list, 1, m + k)) = m + k
          /\ \A i \in 1..m + k : SubSeq(list, 1, m + k)[i] = list[i]
      BY <1>1, <3>1
    <3>3. /\ Append(before, point) \in Seq(S) /\ Len(Append(before, point)) = m + k
          /\ \A i \in 1..m + k : Append(before, point)[i] = list[i]
      <4>1. PICK b \in Seq(S), x \in S : b = before /\ x = point
        BY <2>1
      <4>2. /\ Append(b, x) \in Seq(S) /\ Len(Append(b, x)) = Len(b) + 1 /\ Append(b, x)[Len(b) + 1] = x
            /\ \A i \in 1..Len(b) : Append(b, x)[i] = b[i]
        OBVIOUS
      <4>3. Len(b) + 1 = m + k /\ Len(b) = m + (k - 1) /\ (\A i \in 1..Len(b) : b[i] = list[i]) /\ x = list[m + k]
        BY <1>1, <2>1, <4>1
      <4>4. \A i \in 1..m + k : i = m + k \/ i \in 1..Len(b)
        BY <4>3, <1>1
      <4> HIDE DEF before, point
      <4> QED BY <4>1, <4>2, <4>3, <4>4
    <3>4. PICK a : a = SubSeq(list, 1, m + k)
      OBVIOUS
    <3>5. PICK b : b = Append(before, point)
      OBVIOUS
    <3>6. /\ a \in Seq(S) /\ b \in Seq(S) /\ Len(a) = Len(b)
          /\ \A i \in 1..Len(a) : a[i] = b[i]
      BY <3>2, <3>3, <3>4, <3>5
    <3>7. a = b
      BY ONLY <3>6, SeqEqual
    <3> QED BY <3>4, <3>5, <3>7
  <2> DEFINE e == Newest(MaxItems, before)
  <2>3. e \in Seq(S) /\ IsNewest(e, MaxItems, before)
    BY <2>1, <1>1, NewestIs
  <2>4. point.id = <<ts, m + k - 1>> /\ added[k] = point
    <3>1. m + k \in Len(items) + 1..Len(list)
      BY <1>1
    <3>2. list[m + k].id = <<ts, m + k - 1>>
      BY <3>1 DEF Longer
    <3> QED BY <1>1, <3>2
  <2>5. ASSUME NEW i \in DOMAIN e PROVE e[i].id # point.id
    <3>1. PICK j \in 1..m + (k - 1) : e[i] = list[j]
      <4> HIDE DEF before, e
      <4> DEFINE j == Len(before) - Len(e) + i
      <4>3. MaxItems \in Nat /\ DOMAIN e = 1..Len(e)
        BY <1>1, <2>3
      <4>1. i \in 1..Len(e) /\ Len(e) \in Nat /\ Len(e) <= Len(before) /\ Len(before) \in Nat
        BY <4>3, <2>3, <2>5 DEF IsNewest
      <4>2. j \in 1..Len(before) /\ e[i] = before[j]
        BY <4>1, <2>3 DEF IsNewest
      <4> QED BY <4>2, <2>1
    <3>2. CASE j \in 1..m
      <4>1. list[j].id[1] # ts
        BY <3>2 DEF Longer
      <4>2. point.id[1] = ts
        BY <2>4
      <4> QED BY <3>1, <4>1, <4>2
    <3>3. CASE j \in m + 1..Len(list)
      <4>1. list[j].id = <<ts, j - 1>> /\ j - 1 # m + k - 1
        BY <1>1, <3>1, <3>3 DEF Longer
      <4> QED BY <2>4, <3>1, <4>1
    <3> QED BY <1>1, <3>1, <3>2, <3>3
  <2>6. ShowPoint(e, point) = Newest(MaxItems, Append(e, point))
    BY <2>5 DEF ShowPoint
  <2>7. Newest(MaxItems, Append(e, point)) = Newest(MaxItems, Append(before, point))
    <3>1. PICK b : b = before
      OBVIOUS
    <3>2. PICK x : x = point
      OBVIOUS
    <3>3. MaxItems \in Nat /\ b \in Seq(S) /\ x \in S
      BY <1>1, <2>1, <3>1, <3>2
    <3>4. Newest(MaxItems, Append(Newest(MaxItems, b), x)) = Newest(MaxItems, Append(b, x))
      BY ONLY <3>3, NewestOfNewest
    <3> QED BY <3>1, <3>2, <3>4
  <2> QED BY <2>2, <2>4, <2>6, <2>7
<1> HIDE DEF shown, m
<1> DEFINE Rule(h) == [i \in 0..n |-> IF i = 0 THEN items ELSE ShowPoint(h[i - 1], added[i])]
           all == CHOOSE h : h = Rule(h)
           g == [i \in 0..n |-> shown(i)]
<1>4. ShowPoints(items, added) = all[n]
  BY DEF ShowPoints, n
<1>5. g = Rule(g)
  <2>1. n \in Nat
    BY <1>1
  <2>2. \A i \in 0..n : i = 0 \/ (i \in 1..n /\ i - 1 \in 0..n)
    BY ONLY <2>1
  <2>3. \A i \in 0..n : g[i] = IF i = 0 THEN items ELSE ShowPoint(g[i - 1], added[i])
    BY <1>2, <1>3, <2>2
  <2> HIDE DEF shown
  <2> QED BY <2>3
<1>6. all = Rule(all)
  <2> HIDE DEF Rule
  <2> QED BY <1>5, Zenon
<1>7. all[0] = items /\ \A i \in 1..n : all[i] = ShowPoint(all[i - 1], added[i])
  <2>1. 0 \in 0..n /\ \A i \in 1..n : i \in 0..n /\ i # 0
    BY <1>1
  <2> QED BY <1>6, <2>1, Zenon
<1> HIDE DEF all, Rule, g
<1> DEFINE T == {i \in 0..n : all[i] = shown(i)}
<1>8. 0 \in T
  BY <1>1, <1>2, <1>7
<1>9. ASSUME NEW i \in 1..n, i - 1 \in T PROVE i \in T
  <2>1. all[i - 1] = shown(i - 1) /\ i \in 0..n
    BY <1>1, <1>9
  <2> QED BY <1>3, <1>7, <2>1
<1> HIDE DEF T
<1>10. 0..n \subseteq T
  BY ONLY <1>1, <1>8, <1>9, InductionUpTo
<1>11. all[n] = shown(n)
  BY <1>1, <1>10 DEF T
<1>12. shown(n) = Newest(MaxItems, list)
  <2>1. SubSeq(list, 1, Len(list)) = list
    OBVIOUS
  <2> QED BY <1>1, <2>1 DEF shown
<1> QED BY <1>4, <1>11, <1>12 DEF added, m
--------------------------------------------------------------------------------
IsPage ==
  page = [points |-> page.points, terms |-> page.terms, briefs |-> page.briefs,
          metrics |-> page.metrics, advice |-> page.advice, translations |-> page.translations]

Distinct(s) == \A i, j \in DOMAIN s : s[i] = s[j] => i = j

\* The points are of the times at which some came, and as long as these are
\* distinct, the page has them.
PointsInv ==
  /\ Len(points) <= MaxItems /\ OfItsOwn(points) /\ Differ(points)
  /\ OfItsOwn(times)
  /\ \A i \in DOMAIN points : \E k \in DOMAIN times : points[i].id[1] = times[k]
  /\ Distinct(times) => page.points = points

\* A finite set of w members or less.
Room(s, w) == IsFiniteSet(s) /\ Cardinality(s) \in Nat /\ Cardinality(s) <= w

ShapeInv ==
  /\ IsPage /\ OfItsOwn(page.briefs) /\ Len(page.briefs) <= MaxBriefs
  /\ call # None => OfItsOwn(call.seg.clauses)
  /\ session \in Sessions /\ now \in Epoch..Epoch + session.time /\ heard \in 0..session.most
  /\ Room(running, Workers)

LEMMA ShowNothing == ASSUME NEW list PROVE ShowPoints(list, <<>>) = list
<1> DEFINE Rule(h) == [i \in 0..Len(<<>>) |-> IF i = 0 THEN list ELSE ShowPoint(h[i - 1], <<>>[i])]
           all == CHOOSE h : h = Rule(h)
           g == [i \in 0..0 |-> list]
<1>1. ShowPoints(list, <<>>) = all[Len(<<>>)]
  BY DEF ShowPoints
<1>2. Len(<<>>) = 0
  OBVIOUS
<1>3. g = Rule(g)
  BY <1>2
<1>4. all = Rule(all)
  <2> HIDE DEF Rule
  <2> QED BY <1>3, Zenon
<1>5. all[0] = list
  <2>1. 0 \in 0..Len(<<>>)
    BY <1>2
  <2> QED BY <1>4, <2>1, Zenon
<1> QED BY <1>1, <1>2, <1>5

LEMMA NewestDiffers ==
  ASSUME NEW S, NEW list \in Seq(S), Differ(list), NEW n \in Nat
  PROVE  Differ(Newest(n, list))
<1> DEFINE e == Newest(n, list)
<1>1. IsNewest(e, n, list)
  BY NewestIs
<1> HIDE DEF e
<1> SUFFICES ASSUME NEW i \in 1..Len(e), NEW j \in 1..Len(e), i < j, j - i <= DedupWindow
             PROVE  e[i].content # e[j].content
  BY DEF Differ, e
<1> DEFINE d == Len(list) - Len(e)
<1>2. /\ d + i \in 1..Len(list) /\ d + j \in 1..Len(list) /\ d + i < d + j
      /\ (d + j) - (d + i) <= DedupWindow
  <2>1. Len(e) \in Nat /\ Len(list) \in Nat /\ Len(e) <= Len(list)
    BY <1>1 DEF IsNewest
  <2> QED BY <2>1, KeyPointBounds
<1>3. e[i] = list[d + i] /\ e[j] = list[d + j]
  BY <1>1 DEF IsNewest
<1> QED BY <1>2, <1>3 DEF Differ

LEMMA PointsStep ==
  ASSUME PointsInv, CallInv, ShapeInv, ActPoints
  PROVE  PointsInv'
<1> DEFINE seg == call.seg
           ts == seg.ts
           pushed == Push(points, seg, ts)
<1>1. /\ points' = pushed.items
      /\ page' = [page EXCEPT !.points = ShowPoints(page.points, pushed.added)]
      /\ times' = IF pushed.added = <<>> THEN times ELSE Append(times, ts)
  BY DEF ActPoints
<1>2. page'.points = ShowPoints(page.points, pushed.added)
  BY <1>1 DEF ShapeInv, IsPage
<1>3. PICK O : points \in Seq(O)
  BY DEF PointsInv, OfItsOwn
<1>4. PICK C : seg.clauses \in Seq(C)
  BY DEF ActPoints, Act, ShapeInv, OfItsOwn
<1>5. PICK S : \E list \in Seq(S) :
        /\ points \in Seq(S) /\ Longer(list, points, ts)
        /\ pushed = [items |-> Newest(MaxItems, list), added |-> SubSeq(list, Len(points) + 1, Len(list))]
  <2>1. PICK s : s = seg
    OBVIOUS
  <2>2. PICK t : t = ts
    OBVIOUS
  <2>3. PICK p \in Seq(O) : p = points /\ Differ(p)
    BY <1>3 DEF PointsInv
  <2>4. s.clauses \in Seq(C)
    BY <1>4, <2>1
  <2>5. \E S : \E list \in Seq(S) :
           /\ p \in Seq(S) /\ Longer(list, p, t)
           /\ Push(p, s, t) = [items |-> Newest(MaxItems, list), added |-> SubSeq(list, Len(p) + 1, Len(list))]
    BY ONLY <2>3, <2>4, PushedIs
  <2> QED BY <2>1, <2>2, <2>3, <2>5
<1>6. PICK list \in Seq(S) :
        /\ points \in Seq(S) /\ Longer(list, points, ts)
        /\ pushed = [items |-> Newest(MaxItems, list), added |-> SubSeq(list, Len(points) + 1, Len(list))]
  BY <1>5
<1> DEFINE added == SubSeq(list, Len(points) + 1, Len(list))
<1>7. points' = Newest(MaxItems, list) /\ pushed.added = added
  BY <1>1, <1>6
<1> HIDE DEF pushed
<1>8. MaxItems \in Nat /\ Len(points) \in Nat /\ Len(list) \in Nat /\ Len(points) <= Len(list)
  BY <1>6, KeyPointBounds DEF Longer
<1>9. points' \in Seq(S) /\ IsNewest(points', MaxItems, list) /\ Differ(points')
  <2>1. Differ(list)
    BY <1>6 DEF Longer
  <2>2. IsNewest(Newest(MaxItems, list), MaxItems, list) /\ Newest(MaxItems, list) \in Seq(S)
    BY <1>8, NewestIs
  <2>3. Differ(Newest(MaxItems, list))
    BY <1>8, <2>1, NewestDiffers
  <2> QED BY <1>7, <2>2, <2>3
<1>10. Len(points') <= MaxItems /\ OfItsOwn(points') /\ Differ(points)'
  <2>1. Differ(points)' <=> Differ(points')
    BY DEF Differ
  <2>2. PICK q \in Seq(S) : q = points'
    BY <1>9
  <2>3. OfItsOwn(q)
    BY IsOfItsOwn
  <2> QED BY <1>8, <1>9, <2>1, <2>2, <2>3 DEF IsNewest
<1>11. \A i \in 1..Len(points') : \E k \in 1..Len(list) : points'[i] = list[k]
  <2> SUFFICES ASSUME NEW i \in 1..Len(points') PROVE \E k \in 1..Len(list) : points'[i] = list[k]
    OBVIOUS
  <2>1. /\ Len(points') \in Nat /\ Len(points') <= Len(list)
        /\ points'[i] = list[Len(list) - Len(points') + i]
    <3>1. points'[i] = list[Len(list) - Len(points') + i]
      BY <1>9 DEF IsNewest
    <3>2. Len(points') \in Nat /\ Len(points') <= Len(list)
      BY <1>8, <1>9 DEF IsNewest
    <3> QED BY <3>1, <3>2
  <2>2. Len(list) - Len(points') + i \in 1..Len(list)
    BY <1>8, <2>1
  <2> QED BY <2>1, <2>2
<1>12. DOMAIN points' = 1..Len(points') /\ DOMAIN points = 1..Len(points)
  BY <1>6, <1>9
<1>13. CASE added = <<>>
  <2>1. Len(list) = Len(points)
    <3>1. Len(added) = Len(list) - Len(points)
      BY <1>6, <1>8
    <3>2. Len(added) = 0
      <4> HIDE DEF added
      <4> QED BY <1>13
    <3> QED BY <1>8, <3>1, <3>2
  <2>2. Len(points') = Len(points) /\ \A i \in 1..Len(points') : points'[i] = points[i]
    <3>1. Len(points') = Len(points)
      BY <1>8, <1>9, <2>1 DEF IsNewest, PointsInv
    <3>2. \A i \in 1..Len(points') : points'[i] = list[i]
      <4> SUFFICES ASSUME NEW i \in 1..Len(points') PROVE points'[i] = list[i]
        OBVIOUS
      <4>1. points'[i] = list[Len(list) - Len(points') + i]
        BY <1>9 DEF IsNewest
      <4>2. Len(list) - Len(points') + i = i
        BY <1>8, <2>1, <3>1
      <4> QED BY <4>1, <4>2
    <3> QED BY <1>6, <3>1, <3>2 DEF Longer
  <2>3. points' = points
    <3>1. PICK q : q = points'
      OBVIOUS
    <3>2. PICK p : p = points
      OBVIOUS
    <3>3. q \in Seq(S) /\ p \in Seq(S) /\ Len(q) = Len(p) /\ \A i \in 1..Len(q) : q[i] = p[i]
      BY <1>6, <1>9, <2>2, <3>1, <3>2
    <3>4. q = p
      BY ONLY <3>3, SeqEqual
    <3> QED BY <3>1, <3>2, <3>4
  <2>4. times' = times /\ page'.points = page.points
    BY <1>1, <1>2, <1>7, <1>13, ShowNothing
  <2> QED BY <1>10, <2>3, <2>4 DEF PointsInv, Distinct
<1>14. CASE added # <<>>
  <2>1. times' = Append(times, ts)
    BY <1>1, <1>7, <1>14
  <2>2. PICK R : times \in Seq(R) /\ ts \in R
    <3>1. times \in Seq({times[i] : i \in DOMAIN times} \cup {ts})
      BY DEF PointsInv, OfItsOwn
    <3> QED BY <3>1
  <2> HIDE DEF ts, added
  <2>3. /\ times' \in Seq(R) /\ DOMAIN times = 1..Len(times) /\ DOMAIN times' = 1..Len(times) + 1
        /\ Len(times) \in Nat /\ times'[Len(times) + 1] = ts
        /\ \A k \in 1..Len(times) : times'[k] = times[k]
    BY <2>1, <2>2
  <2>4. OfItsOwn(times')
    <3>1. PICK q \in Seq(R) : q = times'
      BY <2>3
    <3>2. OfItsOwn(q)
      BY IsOfItsOwn
    <3> QED BY <3>1, <3>2
  <2>5. ASSUME NEW i \in DOMAIN points' PROVE \E k \in DOMAIN times' : points'[i].id[1] = times'[k]
    <3>1. PICK k \in 1..Len(list) : points'[i] = list[k]
      BY <1>11, <1>12
    <3>2. CASE k \in 1..Len(points)
      <4>1. list[k] = points[k] /\ \E m \in DOMAIN times : points[k].id[1] = times[m]
        BY <1>6, <1>12, <3>2 DEF Longer, PointsInv
      <4> QED BY <4>1, <2>3, <3>1
    <3>3. CASE k \in Len(points) + 1..Len(list)
      <4>1. list[k].id = <<ts, k - 1>>
        BY <1>6, <3>3 DEF Longer
      <4>2. points'[i].id[1] = ts
        BY <3>1, <4>1
      <4>3. Len(times) + 1 \in DOMAIN times'
        BY <2>3
      <4> QED BY <2>3, <4>2, <4>3
    <3> QED BY <1>8, <3>2, <3>3
  <2>6. ASSUME Distinct(times)' PROVE page'.points = points'
    <3>1. Distinct(times)
      BY <2>3, <2>6 DEF Distinct
    <3>2. page.points = points
      BY <3>1 DEF PointsInv
    <3>3. \A k \in DOMAIN times : times[k] # ts
      <4> SUFFICES ASSUME NEW k \in DOMAIN times, times[k] = ts PROVE FALSE
        OBVIOUS
      <4>1. k \in DOMAIN times' /\ Len(times) + 1 \in DOMAIN times' /\ times'[k] = times'[Len(times) + 1]
        BY <2>3
      <4>2. k = Len(times) + 1
        BY <2>6, <4>1 DEF Distinct
      <4> QED BY <2>3, <4>2
    <3>4. \A i \in 1..Len(points) : points[i].id[1] # ts
      BY <1>12, <3>3 DEF PointsInv
    <3>5. PICK p \in Seq(S) : p = points
      BY <1>6
    <3>6. PICK t : t = ts
      OBVIOUS
    <3>7. Longer(list, p, t) /\ Len(p) <= MaxItems /\ \A i \in 1..Len(p) : p[i].id[1] # t
      BY <1>6, <3>4, <3>5, <3>6 DEF PointsInv
    <3>8. ShowPoints(p, SubSeq(list, Len(p) + 1, Len(list))) = Newest(MaxItems, list)
      BY ONLY <3>7, list \in Seq(S), ShownIs
    <3> QED BY <1>2, <1>7, <3>2, <3>5, <3>8 DEF added
  <2> QED BY <1>10, <2>4, <2>5, <2>6 DEF PointsInv
<1> QED BY <1>13, <1>14
--------------------------------------------------------------------------------
LEMMA OneMoreFits ==
  ASSUME NEW s, NEW w \in Nat, Room(s, w), NEW x
  PROVE  /\ Cardinality(s) < w => Room(s \cup {x}, w)
         /\ x \in s => Room(s \ {x}, w) /\ Cardinality(s \ {x}) < w
<1>1. IsFiniteSet(s) /\ Cardinality(s) \in Nat /\ Cardinality(s) <= w
  BY DEF Room
<1>2. /\ IsFiniteSet(s \cup {x})
      /\ Cardinality(s \cup {x}) = IF x \in s THEN Cardinality(s) ELSE Cardinality(s) + 1
  BY <1>1, FS_AddElement
<1>3. /\ IsFiniteSet(s \ {x})
      /\ Cardinality(s \ {x}) = IF x \in s THEN Cardinality(s) - 1 ELSE Cardinality(s)
  BY <1>1, FS_RemoveElement
<1>4. Cardinality(s \cup {x}) \in Nat /\ Cardinality(s \ {x}) \in Nat
  BY <1>2, <1>3, FS_CardinalityType
<1> QED BY <1>1, <1>2, <1>3, <1>4 DEF Room

LEMMA CrowdFits ==
  ASSUME NEW s, NEW w \in Nat, Room(s, w)
  PROVE  Room({Crowded(x) : x \in s}, w)
<1> DEFINE t == {Crowded(x) : x \in s}
           f == [x \in s |-> Crowded(x)]
<1>1. IsFiniteSet(s) /\ Cardinality(s) \in Nat /\ Cardinality(s) <= w
  BY DEF Room
<1>2. f \in Surjection(s, t)
  BY DEF Surjection
<1> HIDE DEF f, t
<1>3. IsFiniteSet(t) /\ Cardinality(t) <= Cardinality(s)
  BY <1>1, <1>2, FS_Surjection
<1>4. Cardinality(t) \in Nat
  BY <1>3, FS_CardinalityType
<1> QED BY <1>1, <1>3, <1>4 DEF Room, t

\* The jobs that run are as many as there are workers.
LEMMA RunningStays ==
  ASSUME Room(running, Workers), LiveNext
  PROVE  Room(running', Workers)
<1>0. Workers \in Nat
  BY Zenon, ObserverBounds
<1>1. Room({Crowded(other) : other \in running}, Workers)
  BY <1>0, CrowdFits
<1>2. ASSUME NEW work \in running, NEW next
      PROVE  Room(running \ {work}, Workers) /\ Room((running \ {work}) \cup {next}, Workers)
  <2>1. Room(running \ {work}, Workers) /\ Cardinality(running \ {work}) < Workers
    BY <1>0, <1>2, OneMoreFits
  <2>2. PICK rest : rest = running \ {work}
    OBVIOUS
  <2>3. Room(rest, Workers) /\ Cardinality(rest) < Workers
    BY <2>1, <2>2
  <2>4. Room(rest \cup {next}, Workers)
    BY <1>0, <2>3, OneMoreFits
  <2> QED BY <2>1, <2>2, <2>4
<1>3. Room(running, Workers)
  OBVIOUS
<1>4. ASSUME Cardinality(running) < Workers, NEW work PROVE Room(running \cup {work}, Workers)
  BY <1>0, <1>4, OneMoreFits
<1>5. CASE Tick \/ (\E said \in session.says : Hear(said)) \/ Ask \/ ActMetrics \/ ActPoints
  BY <1>3, <1>5 DEF Tick, Hear, Ask, ActMetrics, ActPoints
<1>6. ASSUME NEW work, Submit(work) PROVE Room(running', Workers)
  BY <1>1, <1>3, <1>6 DEF Submit
<1>7. CASE ActTerms \/ \E o \in session.on : ActLater(o)
  BY <1>6, <1>7 DEF ActTerms, ActLater
<1>8. CASE Take
  BY <1>4, <1>8 DEF Take
<1>9. ASSUME NEW work \in running, \/ Nothing(work) \/ FindBrief(work) \/ Translate(work) \/ Explain(work)
                                  \/ TakePlace(work) \/ Emit(work)
      PROVE  Room(running', Workers)
  <2>1. running' = running \ {work} \/ \E next : running' = (running \ {work}) \cup {next}
    BY <1>9 DEF Nothing, FindBrief, Translate, Explain, TakePlace, Emit, Ends, Becomes
  <2> QED BY <1>2, <2>1
<1> QED BY <1>5, <1>7, <1>8, <1>9 DEF LiveNext
--------------------------------------------------------------------------------
\* What a step makes of the page.
LEMMA PageStep ==
  ASSUME QueueInv, IsPage, LiveNext
  PROVE  /\ IsPage'
         /\ page'.points = page.points \/ ActPoints
         /\ page'.briefs = page.briefs \/ \E e : page'.briefs = Newest(MaxBriefs, Append(page.briefs, e))
         /\ page'.metrics = page.metrics \/ ActMetrics
<1> DEFINE Same == page'.points = page.points /\ page'.metrics = page.metrics
           Kept == page'.briefs = page.briefs
           Longer1 == \E e : page'.briefs = Newest(MaxBriefs, Append(page.briefs, e))
<1>1. CASE UNCHANGED page
  BY <1>1 DEF IsPage
<1>2. CASE Tick \/ (\E said \in session.says : Hear(said)) \/ Ask \/ (\E o \in session.on : ActLater(o)) \/ Take
  BY <1>1, <1>2 DEF Tick, Hear, Ask, ActLater, Take
<1>3. CASE ActMetrics
  <2>1. PICK m, a : page' = [page EXCEPT !.metrics = m, !.advice = a]
    BY <1>3 DEF ActMetrics
  <2> DEFINE p1 == [page EXCEPT !.metrics = m]
  <2>2. p1 = [points |-> page.points, terms |-> page.terms, briefs |-> page.briefs,
              metrics |-> m, advice |-> page.advice, translations |-> page.translations]
    BY DEF IsPage
  <2>3. page' = [p1 EXCEPT !.advice = a]
    BY <2>1
  <2> HIDE DEF p1
  <2>4. page' = [points |-> page.points, terms |-> page.terms, briefs |-> page.briefs,
                 metrics |-> m, advice |-> a, translations |-> page.translations]
    BY <2>2, <2>3
  <2> QED BY <1>3, <2>4 DEF IsPage
<1>4. CASE ActPoints
  <2>1. PICK l : page' = [page EXCEPT !.points = l]
    BY <1>4 DEF ActPoints
  <2>2. page' = [points |-> l, terms |-> page.terms, briefs |-> page.briefs,
                 metrics |-> page.metrics, advice |-> page.advice, translations |-> page.translations]
    BY <2>1 DEF IsPage
  <2> QED BY <2>2, <1>4 DEF IsPage
<1>5. ASSUME NEW id, NEW terms, NEW isFinal, ShowTerm(id, terms, isFinal) PROVE IsPage' /\ Same /\ Kept
  <2>1. PICK l : page' = [page EXCEPT !.terms = l]
    BY <1>5 DEF ShowTerm
  <2>2. page' = [points |-> page.points, terms |-> l, briefs |-> page.briefs,
                 metrics |-> page.metrics, advice |-> page.advice, translations |-> page.translations]
    BY <2>1 DEF IsPage
  <2> QED BY <2>2 DEF IsPage
<1>6. CASE ActTerms
  BY <1>1, <1>5, <1>6 DEF ActTerms
<1>7. ASSUME NEW work \in running, Show(work) PROVE IsPage' /\ Same /\ (Kept \/ Longer1)
  <2>1. work.observer \in {"terms", "briefs", "translator"}
    BY JobsAre DEF QueueInv, IsJob
  <2>2. CASE work.observer = "terms"
    BY <1>5, <1>7, <2>2 DEF Show
  <2>3. CASE work.observer = "briefs"
    <3>1. page' = [page EXCEPT !.briefs = Newest(MaxBriefs, Append(page.briefs, work.event))]
      BY <1>7, <2>3 DEF Show
    <3>2. PICK l : l = Newest(MaxBriefs, Append(page.briefs, work.event))
      OBVIOUS
    <3>3. page' = [points |-> page.points, terms |-> page.terms, briefs |-> l,
                   metrics |-> page.metrics, advice |-> page.advice, translations |-> page.translations]
      BY <3>1, <3>2 DEF IsPage
    <3> QED BY <3>2, <3>3 DEF IsPage
  <2>4. CASE work.observer = "translator"
    <3>1. PICK side : page' = [page EXCEPT !.translations[side] = work.event]
      BY <1>7, <2>4 DEF Show
    <3>2. page' = [points |-> page.points, terms |-> page.terms, briefs |-> page.briefs,
                   metrics |-> page.metrics, advice |-> page.advice,
                   translations |-> [page.translations EXCEPT ![side] = work.event]]
      BY <3>1 DEF IsPage
    <3> QED BY <3>2 DEF IsPage
  <2> QED BY <2>1, <2>2, <2>3, <2>4
<1>8. ASSUME NEW work \in running, Nothing(work) \/ FindBrief(work) \/ Translate(work) \/ Explain(work) \/ TakePlace(work)
      PROVE  UNCHANGED page
  BY <1>8 DEF Nothing, FindBrief, Translate, Explain, TakePlace
<1>9. ASSUME NEW work \in running, Emit(work) PROVE Show(work) \/ UNCHANGED page
  BY <1>9 DEF Emit
<1> QED BY <1>1, <1>2, <1>3, <1>4, <1>6, <1>7, <1>8, <1>9 DEF LiveNext

\* The dispatch, the session and its clock.
LEMMA DispatchStep ==
  ASSUME CallInv, LiveNext, call # None => OfItsOwn(call.seg.clauses),
         session \in Sessions, now \in Epoch..Epoch + session.time, heard \in 0..session.most
  PROVE  /\ call' # None => OfItsOwn(call'.seg.clauses)
         /\ session' = session
         /\ now' \in Epoch..Epoch + session.time /\ heard' \in 0..session.most
<1> DEFINE Call == call' # None => OfItsOwn(call'.seg.clauses)
<1>0. /\ Epoch \in Nat /\ session.time \in Nat /\ session.most \in Nat
      /\ \A said \in session.says : OfItsOwn(said.clauses)
  BY ObserverBounds DEF IsTalk, OfItsOwn
<1>1. CASE UNCHANGED <<session, now, heard>> /\ (call' = call \/ call' = None \/ (call'.seg = call.seg /\ call # None))
  BY <1>1
<1>2. CASE Tick
  BY <1>0, <1>2 DEF Tick
<1>3. CASE \E said \in session.says : Hear(said)
  <2>1. PICK said \in session.says : Hear(said)
    BY <1>3
  <2>2. UNCHANGED <<session, now>> /\ heard' = heard + 1 /\ heard < session.most
    BY <2>1 DEF Hear
  <2>3. CASE call' = None
    BY <1>0, <2>2, <2>3
  <2>4. CASE call' # None
    <3>1. call'.seg.clauses = said.clauses
      BY <2>1, <2>4 DEF Hear, Segment
    <3> QED BY <1>0, <2>2, <3>1
  <2> QED BY <2>3, <2>4
<1>4. CASE Ask
  BY <1>1, <1>4 DEF Ask, Rest, CallInv
<1>5. ASSUME NEW o, Act(o) PROVE UNCHANGED <<session, now, heard>> /\ (call' = None \/ (call'.seg = call.seg /\ call # None))
  BY <1>5 DEF Act, Rest, CallInv
<1>6. CASE ActMetrics \/ ActPoints \/ ActTerms \/ \E o \in session.on : ActLater(o)
  BY <1>1, <1>5, <1>6 DEF ActMetrics, ActPoints, ActTerms, ActLater
<1>7. CASE Take
  BY <1>1, <1>7 DEF Take
<1>8. CASE \E work \in running : \/ Nothing(work) \/ FindBrief(work) \/ Translate(work) \/ Explain(work)
                                \/ TakePlace(work) \/ Emit(work)
  BY <1>1, <1>8 DEF Nothing, FindBrief, Translate, Explain, TakePlace, Emit
<1> QED BY <1>2, <1>3, <1>4, <1>6, <1>7, <1>8 DEF LiveNext

LEMMA ShapeStep == ASSUME QueueInv, CallInv, ShapeInv, LiveNext PROVE ShapeInv'
<1>1. IsPage' /\ (page'.briefs = page.briefs \/ \E e : page'.briefs = Newest(MaxBriefs, Append(page.briefs, e)))
  BY PageStep DEF ShapeInv
<1>2. MaxBriefs \in Nat
  BY Zenon, ObserverBounds
<1>3. OfItsOwn(page'.briefs) /\ Len(page'.briefs) <= MaxBriefs
  <2>1. ASSUME NEW e, page'.briefs = Newest(MaxBriefs, Append(page.briefs, e))
        PROVE  OfItsOwn(page'.briefs) /\ Len(page'.briefs) <= MaxBriefs
    <3>1. PICK b : b = page.briefs
      OBVIOUS
    <3> DEFINE S == {b[i] : i \in DOMAIN b} \cup {e}
    <3>2. b \in Seq(S) /\ e \in S
      BY <3>1 DEF ShapeInv, OfItsOwn
    <3> HIDE DEF S
    <3>7. Append(b, e) \in Seq(S)
      BY <3>2
    <3>3. PICK longer \in Seq(S) : longer = Append(b, e)
      BY <3>7, Zenon
    <3>4. Newest(MaxBriefs, longer) \in Seq(S) /\ IsNewest(Newest(MaxBriefs, longer), MaxBriefs, longer)
      BY <1>2, NewestIs
    <3>5. PICK q \in Seq(S) : q = Newest(MaxBriefs, longer)
      BY <3>4
    <3>6. OfItsOwn(q)
      BY IsOfItsOwn
    <3> QED BY <1>2, <2>1, <3>1, <3>3, <3>4, <3>5, <3>6 DEF IsNewest
  <2> QED BY <1>1, <2>1 DEF ShapeInv
<1>4. /\ call' # None => OfItsOwn(call'.seg.clauses)
      /\ session' = session
      /\ now' \in Epoch..Epoch + session.time /\ heard' \in 0..session.most
  BY DispatchStep DEF ShapeInv
<1>5. Room(running', Workers)
  BY RunningStays DEF ShapeInv
<1>6. OfItsOwn(page.briefs)' /\ (call # None => OfItsOwn(call.seg.clauses))' /\ Room(running, Workers)'
  BY <1>3, <1>4, <1>5 DEF OfItsOwn, Room
<1> QED BY <1>1, <1>3, <1>4, <1>6 DEF ShapeInv

LEMMA PointsKept == ASSUME QueueInv, CallInv, ShapeInv, PointsInv, LiveNext PROVE PointsInv'
<1>1. CASE ActPoints
  BY <1>1, PointsStep
<1>2. CASE ~ActPoints
  <2>1. page'.points = page.points
    BY <1>2, PageStep DEF ShapeInv
  <2>2. points' = points /\ times' = times
    BY <1>2 DEF LiveNext, observerVars, Tick, Hear, Ask, ActMetrics, ActTerms, ActLater, Act, Take,
                Nothing, FindBrief, Translate, Explain, TakePlace, Emit
  <2> QED BY <2>1, <2>2 DEF PointsInv, OfItsOwn, Differ, Distinct
<1> QED BY <1>1, <1>2

LEMMA EmptyIsKept == LiveInit => LateInv /\ ShapeInv /\ PointsInv
<1> SUFFICES ASSUME LiveInit PROVE LateInv /\ ShapeInv /\ PointsInv
  OBVIOUS
<1>1. LateInv
  BY LateInit
<1>2. OfItsOwn(<<>>)
  BY DEF OfItsOwn
<1>3. MaxItems \in Nat /\ MaxBriefs \in Nat /\ Workers \in Nat /\ Epoch \in Nat
      /\ session.time \in Nat /\ session.most \in Nat
  <2>1. MaxItems \in Nat
    BY KeyPointBounds
  <2>2. session \in Sessions
    BY DEF LiveInit
  <2> QED BY <2>1, <2>2, ObserverBounds
<1>4. IsPage /\ page.points = <<>> /\ page.briefs = <<>>
  BY DEF LiveInit, EmptyPage, IsPage
<1>5. Room({}, Workers)
  BY <1>3, FS_EmptySet DEF Room
<1>6. ShapeInv
  BY <1>2, <1>3, <1>4, <1>5 DEF LiveInit, ShapeInv
<1>7. PointsInv
  BY <1>2, <1>3, <1>4 DEF LiveInit, PointsInv, Differ
<1> QED BY <1>1, <1>6, <1>7

\* The points of a session and the cards of the page, whatever is said in which
\* order, and however the workers' answers come in between.
THEOREM KeyPointsKept == LiveSpec => []KeyPointsAreKept
<1> DEFINE Inv == LateInv /\ ShapeInv /\ PointsInv
<1>1. LiveInit => Inv
  BY EmptyIsKept
<1>2. Inv /\ [LiveNext]_liveVars => Inv'
  <2> SUFFICES ASSUME Inv, [LiveNext]_liveVars PROVE Inv'
    OBVIOUS
  <2>1. LateInv'
    BY LateStep
  <2>2. CASE LiveNext
    BY <2>1, <2>2, ShapeStep, PointsKept DEF LateInv
  <2>3. CASE UNCHANGED liveVars
    <3>1. UNCHANGED <<running, call, now, page, points, times, session, heard>>
      BY <2>3 DEF liveVars, observerVars
    <3>2. ShapeInv'
      BY <3>1 DEF ShapeInv, IsPage, OfItsOwn, Room
    <3>3. PointsInv'
      BY <3>1 DEF PointsInv, OfItsOwn, Differ, Distinct
    <3> QED BY <2>1, <3>2, <3>3
  <2> QED BY <2>2, <2>3
<1>3. Inv => KeyPointsAreKept
  <2> SUFFICES ASSUME Inv PROVE KeyPointsAreKept
    OBVIOUS
  <2>1. LiveTypeOK
    BY DEF ShapeInv, PointsInv, LiveTypeOK, Room
  <2>2. RecentPointsDiffer
    <3>1. PICK S : points \in Seq(S)
      BY DEF PointsInv, OfItsOwn
    <3>2. DOMAIN points = 1..Len(points) /\ Differ(points)
      BY <3>1 DEF PointsInv
    <3> QED BY <3>2 DEF Differ, RecentPointsDiffer
  <2>3. PageShowsThePoints
    BY DEF PointsInv, Distinct, PageShowsThePoints
  <2> QED BY <2>1, <2>2, <2>3 DEF KeyPointsAreKept
<1> HIDE DEF Inv
<1> QED BY <1>1, <1>2, <1>3, PTL DEF LiveSpec
--------------------------------------------------------------------------------
IsTurn(t) == t.me \in BOOLEAN /\ t.start \in Nat /\ t.end \in Nat /\ t.start <= t.end
InOrder(line) == \A i, j \in 1..Len(line) : i < j => line[i].start < line[j].start
Members(line) == {line[i] : i \in 1..Len(line)}

\* Where a turn comes in a line.
LEMMA PlaceExists ==
  ASSUME NEW T, \A u \in T : IsTurn(u), NEW line \in Seq(T), InOrder(line), NEW t \in T
  PROVE  \E n \in 0..Len(line) : \A i \in 1..Len(line) : line[i].start <= t.start <=> i <= n
<1> DEFINE m == Len(line)
           Splits(n, k) == \A i \in 1..k : line[i].start <= t.start <=> i <= n
           U == {k \in 0..m : \E n \in 0..k : Splits(n, k)}
<1>1. m \in Nat /\ t.start \in Nat /\ \A i \in 1..m : line[i].start \in Nat
  BY DEF IsTurn
<1>2. 0 \in U
  <2>1. Splits(0, 0) /\ 0 \in 0..0 /\ 0 \in 0..m
    BY <1>1
  <2> QED BY <2>1
<1>3. ASSUME NEW k \in 1..m, k - 1 \in U PROVE k \in U
  <2>1. PICK n \in 0..k - 1 : Splits(n, k - 1)
    BY <1>3
  <2>2. k \in 0..m /\ k - 1 \in Nat /\ \A i \in 1..k : i \in 1..k - 1 \/ i = k
    BY <1>1
  <2>3. CASE line[k].start <= t.start
    <3>1. \A i \in 1..k : line[i].start <= t.start
      <4> SUFFICES ASSUME NEW i \in 1..k, i # k PROVE line[i].start <= t.start
        BY <2>3
      <4>1. i \in 1..m /\ i < k
        BY <1>1
      <4>2. line[i].start < line[k].start
        BY <4>1 DEF InOrder
      <4> QED BY <1>1, <2>3, <4>1, <4>2
    <3>2. Splits(k, k) /\ k \in 0..k
      BY <2>2, <3>1
    <3> QED BY <2>2, <3>2
  <2>4. CASE ~(line[k].start <= t.start)
    <3>1. Splits(n, k)
      BY <2>1, <2>2, <2>4
    <3>2. n \in 0..k
      BY <2>2
    <3> HIDE DEF Splits
    <3> QED BY <2>2, <3>1, <3>2
  <2> QED BY <2>3, <2>4
<1>4. m \in U
  <2> HIDE DEF U, m
  <2>1. 0..m \subseteq U
    BY ONLY <1>1, <1>2, <1>3, InductionUpTo
  <2> QED BY <1>1, <2>1
<1> QED BY <1>4

IsInserted(p, T, s, t, n) ==
  /\ p \in Seq(T) /\ Len(p) = Len(s) + 1
  /\ \A i \in 1..Len(s) + 1 : p[i] = IF i <= n THEN s[i] ELSE IF i = n + 1 THEN t ELSE s[i - 1]

LEMMA Inserted ==
  ASSUME NEW T, NEW s \in Seq(T), NEW t \in T, NEW n \in 0..Len(s)
  PROVE  IsInserted(SubSeq(s, 1, n) \o <<t>> \o SubSeq(s, n + 1, Len(s)), T, s, t, n)
<1>1. PICK m \in Nat : m = Len(s) /\ n \in Nat /\ n <= m /\ \A i \in 1..m : s[i] \in T
  OBVIOUS
<1>2. PICK a \in Seq(T) : a = SubSeq(s, 1, n) /\ Len(a) = n /\ \A i \in 1..n : a[i] = s[i]
  <2>1. 1 \in Int /\ n \in Int /\ (\A i \in 1..n : s[i] \in T) /\ (IF 1 <= n THEN n - 1 + 1 ELSE 0) = n
        /\ n - 1 + 1 = n /\ \A i \in 1..n : 1 + i - 1 = i
    BY <1>1
  <2>2. /\ SubSeq(s, 1, n) \in Seq(T)
        /\ Len(SubSeq(s, 1, n)) = IF 1 <= n THEN n - 1 + 1 ELSE 0
        /\ \A i \in 1..n - 1 + 1 : SubSeq(s, 1, n)[i] = s[1 + i - 1]
    BY ONLY <2>1, SubSeqProperties
  <2> QED BY ONLY <2>1, <2>2
<1>3. PICK b \in Seq(T) : /\ b = SubSeq(s, n + 1, m) /\ Len(b) = m - n
                          /\ \A i \in 1..m - n : b[i] = s[n + i]
  <2>1. n + 1 \in Int /\ m \in Int /\ (\A i \in n + 1..m : s[i] \in T)
        /\ (IF n + 1 <= m THEN m - (n + 1) + 1 ELSE 0) = m - n
        /\ \A i \in 1..m - n : i \in 1..m - (n + 1) + 1 /\ n + 1 + i - 1 = n + i
    BY <1>1
  <2>2. /\ SubSeq(s, n + 1, m) \in Seq(T)
        /\ Len(SubSeq(s, n + 1, m)) = IF n + 1 <= m THEN m - (n + 1) + 1 ELSE 0
        /\ \A i \in 1..m - (n + 1) + 1 : SubSeq(s, n + 1, m)[i] = s[n + 1 + i - 1]
    BY ONLY <2>1, SubSeqProperties
  <2> QED BY ONLY <2>1, <2>2
<1>4. PICK c \in Seq(T) : /\ c = a \o <<t>> /\ Len(c) = n + 1
                          /\ \A i \in 1..n + 1 : c[i] = IF i <= n THEN s[i] ELSE t
  <2>6. <<t>> \in Seq(T) /\ Len(<<t>>) = 1 /\ <<t>>[1] = t
    OBVIOUS
  <2>1. PICK u \in Seq(T) : u = <<t>> /\ Len(u) = 1 /\ u[1] = t
    BY <2>6, Zenon
  <2>2. /\ a \o u \in Seq(T) /\ Len(a \o u) = Len(a) + Len(u)
        /\ \A i \in 1..Len(a) + Len(u) : (a \o u)[i] = IF i <= Len(a) THEN a[i] ELSE u[i - Len(a)]
    BY ONLY a \in Seq(T), u \in Seq(T), ConcatProperties
  <2>3. Len(a) = n /\ Len(u) = 1 /\ \A i \in 1..n + 1 : IF i <= n THEN i \in 1..n ELSE i - n = 1
    BY <1>1, <1>2, <2>1
  <2>4. PICK c \in Seq(T) : c = a \o u /\ Len(c) = n + 1
                          /\ \A i \in 1..n + 1 : c[i] = IF i <= n THEN a[i] ELSE u[i - n]
    BY ONLY <2>2, <2>3
  <2>5. \A i \in 1..n + 1 : c[i] = IF i <= n THEN s[i] ELSE t
    BY <1>2, <2>1, <2>3, <2>4
  <2> QED BY ONLY <2>1, <2>4, <2>5
<1>5. PICK p \in Seq(T) : /\ p = c \o b /\ Len(p) = m + 1
                          /\ \A i \in 1..m + 1 : p[i] = IF i <= n + 1 THEN c[i] ELSE b[i - (n + 1)]
  <2>1. /\ c \o b \in Seq(T) /\ Len(c \o b) = Len(c) + Len(b)
        /\ \A i \in 1..Len(c) + Len(b) : (c \o b)[i] = IF i <= Len(c) THEN c[i] ELSE b[i - Len(c)]
    BY ONLY c \in Seq(T), b \in Seq(T), ConcatProperties
  <2>2. Len(c) = n + 1 /\ Len(c) + Len(b) = m + 1
    <3>1. m \in Nat /\ n \in Nat /\ Len(c) = n + 1 /\ Len(b) = m - n
      BY <1>1, <1>3, <1>4, Zenon
    <3> QED BY ONLY <3>1
  <2> QED BY ONLY <2>1, <2>2
<1>6. ASSUME NEW i \in 1..m + 1
      PROVE  p[i] = IF i <= n THEN s[i] ELSE IF i = n + 1 THEN t ELSE s[i - 1]
  <2>1. CASE i <= n + 1
    BY <1>1, <1>4, <1>5, <2>1
  <2>2. CASE ~(i <= n + 1)
    <3>1. i - (n + 1) \in 1..m - n /\ n + (i - (n + 1)) = i - 1
      BY <1>1, <2>2
    <3> QED BY <1>1, <1>3, <1>5, <2>2, <3>1
  <2> QED BY <2>1, <2>2
<1>7. IsInserted(p, T, s, t, n)
  BY <1>1, <1>5, <1>6 DEF IsInserted
<1> QED BY <1>1, <1>2, <1>3, <1>4, <1>5, <1>7

LEMMA PlaceIs ==
  ASSUME NEW T, \A u \in T : IsTurn(u), NEW line \in Seq(T), InOrder(line), NEW t \in T,
         \A i \in 1..Len(line) : line[i].start # t.start
  PROVE  /\ Place(line, t) \in Seq(T) /\ InOrder(Place(line, t))
         /\ Members(Place(line, t)) = Members(line) \cup {t}
<1> DEFINE m == Len(line)
           n == CHOOSE k \in 0..m : \A i \in DOMAIN line : line[i].start <= t.start <=> i <= k
           p == Place(line, t)
<1>1. m \in Nat /\ DOMAIN line = 1..m /\ t.start \in Nat /\ \A i \in 1..m : line[i].start \in Nat /\ line[i] \in T
  BY DEF IsTurn
<1>2. n \in 0..m /\ \A i \in 1..m : line[i].start <= t.start <=> i <= n
  <2>1. \E k \in 0..m : \A i \in DOMAIN line : line[i].start <= t.start <=> i <= k
    BY <1>1, PlaceExists
  <2> QED BY <1>1, <2>1
<1> HIDE DEF n
<1>3. p = SubSeq(line, 1, n) \o <<t>> \o SubSeq(line, n + 1, m)
  BY DEF Place, n
<1>4. n \in Nat /\ m - n \in Nat
  BY <1>1, <1>2
<1>5. n \in Nat
  BY <1>4
<1>6. /\ p \in Seq(T) /\ Len(p) = m + 1
      /\ \A i \in 1..m + 1 : p[i] = IF i <= n THEN line[i] ELSE IF i = n + 1 THEN t ELSE line[i - 1]
  <2>1. IsInserted(SubSeq(line, 1, n) \o <<t>> \o SubSeq(line, n + 1, Len(line)), T, line, t, n)
    BY <1>2, Inserted
  <2> QED BY <1>3, <2>1 DEF IsInserted
<1> HIDE DEF p
<1>9. /\ p[n + 1] = t /\ n + 1 \in 1..m + 1
      /\ \A i \in 1..m : i <= n => i \in 1..m + 1 /\ p[i] = line[i]
      /\ \A i \in 1..m : i > n => i + 1 \in 1..m + 1 /\ p[i + 1] = line[i]
  <2>1. n + 1 \in 1..m + 1 /\ ~(n + 1 <= n) /\ \A i \in 1..m : i + 1 - 1 = i /\ i \in 1..m + 1 /\ i + 1 \in 1..m + 1
        /\ (i > n => ~(i + 1 <= n) /\ i + 1 # n + 1)
    BY <1>1, <1>2
  <2> QED BY <1>6, <2>1
<1>10. \A i \in 1..m + 1 : /\ i <= n => i \in 1..m /\ p[i] = line[i]
                           /\ i > n + 1 => i - 1 \in 1..m /\ p[i] = line[i - 1]
  <2>1. \A i \in 1..m + 1 : (i <= n => i \in 1..m) /\ (i > n + 1 => i - 1 \in 1..m /\ ~(i <= n) /\ i # n + 1)
    BY <1>1, <1>2
  <2> QED BY <1>6, <2>1
<1>7. InOrder(p)
  <2> SUFFICES ASSUME NEW i \in 1..m + 1, NEW j \in 1..m + 1, i < j PROVE p[i].start < p[j].start
    BY <1>6 DEF InOrder
  <2>1. \A k \in 1..m : (k <= n => line[k].start < t.start) /\ (k > n => t.start < line[k].start)
    BY <1>1, <1>2, <1>5
  <2>2. CASE j <= n
    <3>1. i \in 1..m /\ j \in 1..m /\ p[i] = line[i] /\ p[j] = line[j]
      BY <1>1, <1>5, <1>10, <2>2
    <3> QED BY <3>1 DEF InOrder
  <2>3. CASE j = n + 1
    <3>1. i \in 1..m /\ i <= n /\ p[i] = line[i] /\ p[j] = t
      BY <1>1, <1>5, <1>9, <1>10, <2>3
    <3> QED BY <2>1, <3>1
  <2>4. CASE j > n + 1
    <3>1. p[j] = line[j - 1] /\ j - 1 \in 1..m /\ j - 1 > n
      BY <1>1, <1>5, <1>10, <2>4
    <3>2. CASE i <= n
      <4>1. p[i] = line[i] /\ i \in 1..m /\ i < j - 1
        BY <1>1, <1>5, <1>10, <2>4, <3>2
      <4> QED BY <3>1, <4>1 DEF InOrder
    <3>3. CASE i = n + 1
      <4>1. p[i] = t
        BY <1>9, <3>3
      <4> QED BY <2>1, <3>1, <4>1
    <3>4. CASE i > n + 1
      <4>1. p[i] = line[i - 1] /\ i - 1 \in 1..m /\ i - 1 < j - 1
        BY <1>1, <1>5, <1>10, <3>4
      <4> QED BY <3>1, <4>1 DEF InOrder
    <3> QED BY <1>5, <3>2, <3>3, <3>4
  <2> QED BY <1>5, <2>2, <2>3, <2>4
<1>8. Members(p) = Members(line) \cup {t}
  <2>1. ASSUME NEW i \in 1..m + 1 PROVE p[i] \in Members(line) \cup {t}
    <3>1. i <= n \/ i = n + 1 \/ i > n + 1
      BY <1>5
    <3> QED BY <1>9, <1>10, <3>1 DEF Members
  <2>2. ASSUME NEW i \in 1..m PROVE \E k \in 1..m + 1 : p[k] = line[i]
    <3>1. CASE i <= n
      <4>1. i \in 1..m + 1 /\ p[i] = line[i]
        BY <1>9, <3>1
      <4> QED BY <4>1
    <3>2. CASE i > n
      <4>1. i + 1 \in 1..m + 1 /\ p[i + 1] = line[i]
        BY <1>9, <3>2
      <4> QED BY <4>1
    <3>3. i <= n \/ i > n
      BY <1>5
    <3> QED BY ONLY <3>1, <3>2, <3>3
  <2>3. n + 1 \in 1..m + 1 /\ p[n + 1] = t
    BY <1>9
  <2>4. Members(p) = {p[k] : k \in 1..m + 1}
    BY <1>6 DEF Members
  <2>5. ASSUME NEW u \in Members(line) PROVE u \in Members(p)
    <3>1. PICK i \in 1..m : u = line[i]
      BY DEF Members
    <3>2. PICK k \in 1..m + 1 : p[k] = line[i]
      BY <2>2
    <3> QED BY ONLY <2>4, <3>1, <3>2
  <2>6. t \in Members(p)
    BY ONLY <2>3, <2>4
  <2>7. Members(p) \subseteq Members(line) \cup {t}
    BY ONLY <2>1, <2>4
  <2> QED BY ONLY <2>5, <2>6, <2>7
<1> QED BY <1>6, <1>7, <1>8 DEF p

\* The segments of a talk: those of one side follow each other.
IsLog(l) ==
  /\ OfItsOwn(l)
  /\ \A i \in 1..Len(l) : l[i].me \in BOOLEAN /\ l[i].ts \in Nat /\ l[i].duration \in Nat
  /\ \A i, j \in 1..Len(l) : i < j /\ l[i].me = l[j].me => l[i].ts + l[j].duration <= l[j].ts

IsLine(line, T) == line \in Seq(T) /\ InOrder(line) /\ Members(line) = T /\ \A t \in T : IsTurn(t)

MineApart(T) == \A t, u \in T : t.me /\ u.me /\ t.start < u.start => t.end <= u.start

LEMMA TurnsAre ==
  ASSUME NEW l, IsLog(l)
  PROVE  /\ Len(l) \in Nat /\ DOMAIN Turns(l) = 1..Len(l)
         /\ TurnSet(l) = {Turns(l)[i] : i \in 1..Len(l)}
         /\ \A i \in 1..Len(l) : Turns(l)[i] = Turn(l[i]) /\ IsTurn(Turns(l)[i])
         /\ \A i \in 1..Len(l) : /\ Turns(l)[i].me = l[i].me /\ Turns(l)[i].end = l[i].ts
                                 /\ Turns(l)[i].start = Less(l[i].ts, l[i].duration)
<1>1. PICK S : l \in Seq(S)
  BY DEF IsLog, OfItsOwn
<1>2. Len(l) \in Nat /\ DOMAIN l = 1..Len(l)
  BY <1>1
<1>3. DOMAIN Turns(l) = 1..Len(l) /\ \A i \in 1..Len(l) : Turns(l)[i] = Turn(l[i])
  BY <1>2 DEF Turns
<1>4. \A i \in 1..Len(l) : /\ Turns(l)[i].me = l[i].me /\ Turns(l)[i].end = l[i].ts
                           /\ Turns(l)[i].start = Less(l[i].ts, l[i].duration)
  BY <1>3 DEF Turn
<1>5. ASSUME NEW i \in 1..Len(l) PROVE IsTurn(Turns(l)[i])
  <2>1. l[i].me \in BOOLEAN /\ l[i].ts \in Nat /\ l[i].duration \in Nat
    BY DEF IsLog
  <2>2. Less(l[i].ts, l[i].duration) \in Nat /\ Less(l[i].ts, l[i].duration) <= l[i].ts
    BY <2>1 DEF Less
  <2> QED BY <1>4, <2>1, <2>2 DEF IsTurn
<1> QED BY <1>2, <1>3, <1>4, <1>5 DEF TurnSet

LEMMA MineAreApart == ASSUME NEW l, IsLog(l) PROVE MineApart(TurnSet(l))
<1> SUFFICES ASSUME NEW t \in TurnSet(l), NEW u \in TurnSet(l), t.me, u.me, t.start < u.start
             PROVE  t.end <= u.start
  BY DEF MineApart
<1>1. PICK i \in 1..Len(l) : t = Turns(l)[i]
  BY TurnsAre
<1>2. PICK j \in 1..Len(l) : u = Turns(l)[j]
  BY TurnsAre
<1>3. /\ Len(l) \in Nat /\ IsTurn(t) /\ IsTurn(u) /\ t.me = l[i].me /\ u.me = l[j].me
      /\ t.end = l[i].ts /\ u.end = l[j].ts
      /\ t.start = Less(l[i].ts, l[i].duration) /\ u.start = Less(l[j].ts, l[j].duration)
  BY <1>1, <1>2, TurnsAre
<1>4. /\ l[i].ts \in Nat /\ l[i].duration \in Nat /\ l[j].ts \in Nat /\ l[j].duration \in Nat
      /\ l[i].me \in BOOLEAN /\ l[j].me \in BOOLEAN /\ l[i].me = l[j].me
  BY <1>3 DEF IsLog
<1>5. /\ i < j => l[i].ts + l[j].duration <= l[j].ts
      /\ j < i => l[j].ts + l[i].duration <= l[i].ts
  BY <1>4 DEF IsLog
<1>6. CASE i < j
  BY <1>3, <1>4, <1>5, <1>6 DEF Less
<1>7. CASE j < i
  BY <1>3, <1>4, <1>5, <1>7 DEF Less, IsTurn
<1>8. CASE i = j
  BY <1>3, <1>8 DEF IsTurn
<1> QED BY <1>6, <1>7, <1>8

LineOf(r, l, n) == /\ r \in Seq(TurnSet(l)) /\ InOrder(r)
                   /\ Members(r) = {Turns(l)[i] : i \in 1..n}

LEMMA LineStep ==
  ASSUME NEW l, IsLog(l), DistinctStarts(l), NEW n \in 1..Len(l), NEW r, LineOf(r, l, n - 1)
  PROVE  LineOf(Place(r, Turns(l)[n]), l, n)
<1> DEFINE T == TurnSet(l)
           t == Turns(l)[n]
<1>1. /\ Len(l) \in Nat /\ DOMAIN Turns(l) = 1..Len(l) /\ (\A u \in T : IsTurn(u)) /\ t \in T
  BY TurnsAre
<1>2. r \in Seq(T) /\ InOrder(r) /\ Members(r) = {Turns(l)[i] : i \in 1..n - 1}
  BY DEF LineOf
<1>3. ASSUME NEW k \in 1..Len(r) PROVE r[k].start # t.start
  <2>1. r[k] \in Members(r)
    BY DEF Members
  <2>2. PICK i \in 1..n - 1 : r[k] = Turns(l)[i]
    BY <1>2, <2>1
  <2>3. i \in 1..Len(l) /\ i # n
    BY <1>1
  <2> QED BY <1>1, <2>2, <2>3 DEF DistinctStarts
<1> HIDE DEF T, t
<1>4. /\ Place(r, t) \in Seq(T) /\ InOrder(Place(r, t)) /\ Members(Place(r, t)) = Members(r) \cup {t}
  BY <1>1, <1>2, <1>3, PlaceIs
<1>5. \A i : i \in 1..n <=> i \in 1..n - 1 \/ i = n
  BY <1>1
<1>6. Members(r) \cup {t} = {Turns(l)[i] : i \in 1..n}
  BY <1>2, <1>5 DEF t
<1> QED BY <1>4, <1>6 DEF LineOf, T, t

LEMMA TimelineIs ==
  ASSUME NEW l, IsLog(l), DistinctStarts(l)
  PROVE  IsLine(Timeline(l), TurnSet(l))
<1> DEFINE n == Len(l)
           Placed(r, i) == Place(r, Turns(l)[i])
           A == Seq(TurnSet(l))
           step == [p \in A \X (1..n) |-> IF LineOf(p[1], l, p[2] - 1)
                                          THEN Placed(p[1], p[2]) ELSE <<>>]
           Rule(h) == [i \in 0..n |-> IF i = 0 THEN <<>> ELSE Place(h[i - 1], Turns(l)[i])]
           all == CHOOSE h : h = Rule(h)
<1>0. n \in Nat
  BY TurnsAre
<1>1. <<>> \in A
  OBVIOUS
<1>2. ASSUME NEW r, NEW i \in 1..n, LineOf(r, l, i - 1) PROVE LineOf(Placed(r, i), l, i)
  BY <1>2, LineStep
<1>3. LineOf(<<>>, l, 0)
  BY <1>1 DEF LineOf, InOrder, Members
<1>4. /\ step \in [A \X (1..n) -> A]
      /\ \A r \in A, i \in 1..n : LineOf(r, l, i - 1) => step[<<r, i>>] = Placed(r, i)
  <2>1. ASSUME NEW r, NEW i \in 1..n, LineOf(r, l, i - 1) PROVE Placed(r, i) \in A
    <3>1. LineOf(Placed(r, i), l, i)
      BY <1>2, <2>1
    <3> HIDE DEF Placed
    <3> QED BY <3>1 DEF LineOf
  <2> HIDE DEF Placed, A, n
  <2>2. ASSUME NEW p \in A \X (1..n) PROVE step[p] \in A
    BY <1>1, <2>1, <2>2
  <2>3. step \in [A \X (1..n) -> A]
    BY <2>2
  <2>4. ASSUME NEW r \in A, NEW i \in 1..n, LineOf(r, l, i - 1) PROVE step[<<r, i>>] = Placed(r, i)
    <3>1. <<r, i>> \in A \X (1..n)
      OBVIOUS
    <3> QED BY <2>4, <3>1
  <2> QED BY <2>3, <2>4
<1> HIDE DEF step, A
<1>5. PICK g : Iterates(g, n, A, <<>>, step)
  <2> HIDE DEF n
  <2> QED BY ONLY <1>0, <1>1, <1>4, IterationExists
<1> DEFINE U == {i \in 0..n : LineOf(g[i], l, i)}
<1>6. 0 \in U /\ \A i \in 1..n : i - 1 \in U => i \in U /\ g[i] = Placed(g[i - 1], i)
  <2>1. 0 \in U
    BY <1>0, <1>3, <1>5 DEF Iterates
  <2>2. ASSUME NEW i \in 1..n, i - 1 \in U PROVE i \in U /\ g[i] = Placed(g[i - 1], i)
    <3>1. LineOf(g[i - 1], l, i - 1) /\ i \in 0..n
      BY <1>0, <2>2
    <3>2. g[i] = step[<<g[i - 1], i>>] /\ g[i - 1] \in A
      <4>1. i - 1 \in 0..n
        BY <2>2
      <4> QED BY <4>1, <1>5 DEF Iterates
    <3> HIDE DEF Placed
    <3>3. g[i] = Placed(g[i - 1], i)
      BY <1>4, <3>1, <3>2
    <3> QED BY <1>2, <3>1, <3>3
  <2> QED BY <2>1, <2>2
<1>7. 0..n \subseteq U
  <2> HIDE DEF U, n, Placed
  <2> QED BY ONLY <1>0, <1>6, InductionUpTo
<1>8. \A i \in 1..n : g[i] = Placed(g[i - 1], i)
  <2>1. \A i \in 1..n : i - 1 \in 0..n
    BY <1>0
  <2> HIDE DEF U, Placed
  <2> QED BY <1>6, <1>7, <2>1
<1>9. g = Rule(g)
  <2>1. \A i \in 0..n : i = 0 \/ i \in 1..n
    BY <1>0
  <2>2. g = [i \in 0..n |-> g[i]] /\ g[0] = <<>>
    BY <1>5 DEF Iterates
  <2> HIDE DEF n
  <2> QED BY <1>8, <2>1, <2>2
<1>10. all = Rule(all)
  <2> HIDE DEF Rule
  <2> QED BY <1>9, Zenon
<1>11. all[0] = <<>> /\ \A i \in 1..n : all[i] = Placed(all[i - 1], i)
  <2>1. 0 \in 0..n /\ \A i \in 1..n : i \in 0..n /\ i # 0
    BY <1>0
  <2> QED BY <1>10, <2>1, Zenon
<1>12. Timeline(l) = all[n]
  BY DEF Timeline
<1> HIDE DEF all, Rule
<1> DEFINE V == {i \in 0..n : LineOf(all[i], l, i)}
<1>13. 0 \in V /\ \A i \in 1..n : i - 1 \in V => i \in V
  <2>1. 0 \in V
    BY <1>0, <1>3, <1>11
  <2>2. ASSUME NEW i \in 1..n, i - 1 \in V PROVE i \in V
    <3>1. LineOf(all[i - 1], l, i - 1) /\ i \in 0..n
      BY <1>0, <2>2
    <3>2. all[i] = Placed(all[i - 1], i)
      BY <1>11
    <3> HIDE DEF Placed
    <3> QED BY <1>2, <3>1, <3>2
  <2> QED BY <2>1, <2>2
<1>14. 0..n \subseteq V
  <2> HIDE DEF V, n
  <2> QED BY ONLY <1>0, <1>13, InductionUpTo
<1>15. LineOf(Timeline(l), l, n)
  BY <1>0, <1>12, <1>14
<1> QED BY <1>15, TurnsAre DEF LineOf, IsLine

LEMMA LinesAre ==
  ASSUME NEW T, NEW line, IsLine(line, T)
  PROVE  /\ Len(line) \in Nat /\ DOMAIN line = 1..Len(line)
         /\ \A i \in 1..Len(line) : line[i] \in T /\ IsTurn(line[i])
         /\ \A t \in T : \E i \in 1..Len(line) : t = line[i]
         /\ \A i, j \in 1..Len(line) : /\ line[i].start < line[j].start <=> i < j
                                       /\ line[i].start <= line[j].start <=> i <= j
<1>1. /\ Len(line) \in Nat /\ DOMAIN line = 1..Len(line)
      /\ \A i \in 1..Len(line) : line[i] \in T
  BY DEF IsLine
<1>2. \A i \in 1..Len(line) : IsTurn(line[i])
  BY <1>1 DEF IsLine
<1>3. \A t \in T : \E i \in 1..Len(line) : t = line[i]
  BY DEF IsLine, Members
<1>4. ASSUME NEW i \in 1..Len(line), NEW j \in 1..Len(line)
      PROVE  /\ line[i].start < line[j].start <=> i < j
             /\ line[i].start <= line[j].start <=> i <= j
  <2>1. line[i].start \in Nat /\ line[j].start \in Nat
    BY <1>2 DEF IsTurn
  <2>2. /\ i < j => line[i].start < line[j].start
        /\ j < i => line[j].start < line[i].start
    BY DEF IsLine, InOrder
  <2> QED BY <1>1, <2>1, <2>2
<1> QED BY <1>1, <1>2, <1>3, <1>4

\* Who begins between two turns of a line comes between them in it.
LEMMA BetweenIs ==
  ASSUME NEW T, NEW line, IsLine(line, T), NEW i \in 1..Len(line), NEW j \in 1..Len(line)
  PROVE  /\ \A k \in 1..Len(line) : line[k] \in Between(T, line[i], line[j]) <=> i < k /\ k < j
         /\ \A t \in Between(T, line[i], line[j]) : \E k \in 1..Len(line) : t = line[k] /\ i < k /\ k < j
<1>1. \A k \in 1..Len(line) : line[k] \in Between(T, line[i], line[j]) <=> i < k /\ k < j
  BY LinesAre DEF Between
<1>2. \A t \in Between(T, line[i], line[j]) : \E k \in 1..Len(line) : t = line[k]
  BY LinesAre DEF Between
<1> QED BY <1>1, <1>2

Interrupting(line, n) == {k \in 1..n : Interrupts(line, k)}

LEMMA InterruptingGrows ==
  ASSUME NEW line, NEW n \in Nat, n > 0
  PROVE  /\ IsFiniteSet(Interrupting(line, n)) /\ Cardinality(Interrupting(line, n)) \in Nat
         /\ Cardinality(Interrupting(line, n))
              = Cardinality(Interrupting(line, n - 1)) + IF Interrupts(line, n) THEN 1 ELSE 0
<1>1. \A m \in Nat : IsFiniteSet(1..m)
  BY FS_Interval
<1>2. \A m \in Nat : IsFiniteSet(Interrupting(line, m))
  BY <1>1, FS_Subset DEF Interrupting
<1>3. \A m \in Nat : Cardinality(Interrupting(line, m)) \in Nat
  BY <1>2, FS_CardinalityType
<1>4. n - 1 \in Nat /\ \A k : k \in 1..n <=> k \in 1..n - 1 \/ k = n
  OBVIOUS
<1>5. CASE Interrupts(line, n)
  <2>1. Interrupting(line, n) = Interrupting(line, n - 1) \cup {n} /\ n \notin Interrupting(line, n - 1)
    BY <1>4, <1>5 DEF Interrupting
  <2>2. IsFiniteSet(Interrupting(line, n - 1)) /\ Cardinality(Interrupting(line, n - 1)) \in Nat
    BY <1>2, <1>3, <1>4
  <2>3. Cardinality(Interrupting(line, n - 1) \cup {n}) = Cardinality(Interrupting(line, n - 1)) + 1
    BY <2>1, <2>2, FS_AddElement
  <2> QED BY <1>2, <1>3, <1>5, <2>1, <2>3
<1>6. CASE ~Interrupts(line, n)
  <2>1. Interrupting(line, n) = Interrupting(line, n - 1)
    BY <1>4, <1>6 DEF Interrupting
  <2>2. Cardinality(Interrupting(line, n - 1)) \in Nat
    BY <1>3, <1>4
  <2> QED BY <1>2, <1>3, <1>6, <2>1, <2>2
<1> QED BY <1>5, <1>6

\* What the loop counts.
LEMMA CountIs ==
  ASSUME NEW line, Len(line) \in Nat, DOMAIN line = 1..Len(line)
  PROVE  Interruptions(line) = Cardinality(Interrupting(line, Len(line)))
<1> DEFINE m == Len(line)
           ones == [n \in DOMAIN line |-> IF Interrupts(line, n) THEN 1 ELSE 0]
           Rule(h) == [n \in 0..m |-> IF n = 0 THEN 0 ELSE h[n - 1] + ones[n]]
           count == [n \in 0..m |-> Cardinality(Interrupting(line, n))]
           all == CHOOSE h : h = Rule(h)
<1>1. Len(ones) = m /\ m \in Nat /\ \A n \in 1..m : ones[n] = IF Interrupts(line, n) THEN 1 ELSE 0
  <2>1. ones \in Seq({0, 1}) /\ DOMAIN ones = 1..m
    OBVIOUS
  <2> QED BY <2>1
<1>2. count[0] = 0
  <2>1. Interrupting(line, 0) = {}
    BY DEF Interrupting
  <2> QED BY <2>1, <1>1, FS_EmptySet
<1>3. ASSUME NEW n \in 1..m
      PROVE  /\ n \in 0..m /\ n - 1 \in 0..m /\ n # 0 /\ count[n - 1] \in Nat
             /\ count[n] = count[n - 1] + ones[n]
  <2>1. n \in Nat /\ n > 0 /\ n \in 0..m /\ n - 1 \in 0..m
    BY <1>1
  <2>2. Cardinality(Interrupting(line, n))
              = Cardinality(Interrupting(line, n - 1)) + IF Interrupts(line, n) THEN 1 ELSE 0
    BY <2>1, InterruptingGrows
  <2>3. Cardinality(Interrupting(line, n - 1)) \in Nat
    <3>1. CASE n - 1 = 0
      BY <1>2, <2>1, <3>1
    <3>2. CASE n - 1 > 0
      <4>1. n - 1 \in Nat
        BY <2>1
      <4> QED BY <4>1, <3>2, InterruptingGrows
    <3> QED BY <2>1, <3>1, <3>2
  <2> HIDE DEF ones
  <2> QED BY <1>1, <2>1, <2>2, <2>3
<1> HIDE DEF ones, m
<1>4. count = Rule(count)
  <2>1. \A n \in 0..m : count[n] = IF n = 0 THEN 0 ELSE count[n - 1] + ones[n]
    <3>1. \A n \in 0..m : n = 0 \/ n \in 1..m
      BY <1>1
    <3> HIDE DEF count
    <3> QED BY <1>2, <1>3, <3>1
  <2>2. count = [n \in 0..m |-> count[n]]
    OBVIOUS
  <2> HIDE DEF count
  <2> QED BY <2>1, <2>2
<1>5. all = Rule(all)
  <2> HIDE DEF Rule, count
  <2> QED BY <1>4, Zenon
<1>6. Interruptions(line) = all[m]
  BY <1>1 DEF Interruptions, Total, ones
<1>7. all[0] = 0 /\ \A n \in 1..m : all[n] = all[n - 1] + ones[n]
  <2>1. 0 \in 0..m /\ \A n \in 1..m : n \in 0..m /\ n # 0
    BY <1>1
  <2> HIDE DEF all
  <2> QED BY <1>5, <2>1, Zenon
<1> HIDE DEF all, Rule
<1> DEFINE U == {n \in 0..m : all[n] = count[n]}
<1>8. 0 \in U /\ \A n \in 1..m : n - 1 \in U => n \in U
  <2> HIDE DEF count
  <2>1. 0 \in U
    BY <1>1, <1>2, <1>7
  <2>2. ASSUME NEW n \in 1..m, n - 1 \in U PROVE n \in U
    BY <1>3, <1>7, <2>2
  <2> QED BY <2>1, <2>2
<1>9. 0..m \subseteq U
  <2> HIDE DEF U
  <2> QED BY ONLY <1>1, <1>8, InductionUpTo
<1>10. all[m] = count[m] /\ m \in 0..m
  BY <1>1, <1>9
<1> QED BY <1>6, <1>10 DEF m

\* And the interruptions that are there.
LEMMA InterruptionsAre ==
  ASSUME NEW T, NEW line, IsLine(line, T)
  PROVE  Interruptions(line) = Cardinality(InterruptedByTurns(T))
<1> DEFINE m == Len(line)
           S == Interrupting(line, m)
           Pairs == InterruptedByTurns(T)
           f == [k \in S |-> <<line[k - 1], line[k]>>]
<1>1. /\ m \in Nat /\ DOMAIN line = 1..m
      /\ \A i \in 1..m : line[i] \in T /\ IsTurn(line[i])
      /\ \A t \in T : \E i \in 1..m : t = line[i]
      /\ \A i, j \in 1..m : line[i].start < line[j].start <=> i < j
  BY LinesAre
<1>2. IsFiniteSet(S)
  <2>1. IsFiniteSet(1..m)
    BY <1>1, FS_Interval
  <2> QED BY <2>1, FS_Subset DEF Interrupting
<1>3. ASSUME NEW k \in S PROVE f[k] \in Pairs /\ f[k] = <<line[k - 1], line[k]>> /\ k \in 1..m /\ k - 1 \in 1..m
  <2>1. /\ k \in 1..m /\ k - 1 \in 1..m /\ k - 1 < k
        /\ line[k - 1].me # line[k].me /\ line[k].start < line[k - 1].end
    BY <1>1 DEF Interrupting, Interrupts
  <2>2. ASSUME NEW t \in Between(T, line[k - 1], line[k]) PROVE FALSE
    <3>0. PICK h \in 1..Len(line) : h = k - 1
      BY <2>1
    <3>1. \A u \in Between(T, line[h], line[k]) : \E i \in 1..m : u = line[i] /\ h < i /\ i < k
      BY <2>1, BetweenIs
    <3>2. PICK i \in 1..m : k - 1 < i /\ i < k
      BY <2>2, <3>0, <3>1
    <3> QED BY <1>1, <2>1, <3>2
  <2>3. line[k - 1] \in T /\ line[k] \in T /\ line[k - 1].start < line[k].start
    BY <1>1, <2>1
  <2> QED BY <2>1, <2>2, <2>3 DEF InterruptedByTurns
<1>4. f \in [S -> Pairs]
  BY <1>3
<1>5. ASSUME NEW j \in S, NEW k \in S, f[j] = f[k] PROVE j = k
  <2>1. line[j] = line[k] /\ j \in 1..m /\ k \in 1..m
    BY <1>3, <1>5
  <2>2. line[j].start \in Nat
    BY <1>1, <2>1 DEF IsTurn
  <2>3. ~(j < k) /\ ~(k < j)
    BY <1>1, <2>1, <2>2
  <2> QED BY <2>1, <2>3
<1>6. ASSUME NEW p \in Pairs PROVE \E k \in S : f[k] = p
  <2>1. /\ p \in T \X T /\ p[1].me # p[2].me /\ Between(T, p[1], p[2]) = {}
        /\ p[1].start < p[2].start /\ p[2].start < p[1].end
    BY DEF InterruptedByTurns
  <2>2. PICK i \in 1..m : p[1] = line[i]
    BY <1>1, <2>1
  <2>3. PICK j \in 1..m : p[2] = line[j]
    BY <1>1, <2>1
  <2>4. i < j
    BY <1>1, <2>1, <2>2, <2>3
  <2>5. i + 1 = j
    <3> SUFFICES ASSUME i + 1 < j PROVE FALSE
      BY <1>1, <2>4
    <3>1. i + 1 \in 1..m /\ i < i + 1
      BY <1>1
    <3>2. line[i + 1] \in Between(T, line[i], line[j])
      BY <3>1, BetweenIs
    <3> QED BY <2>1, <2>2, <2>3, <3>2
  <2>6. j \in S /\ j - 1 = i
    BY <1>1, <2>1, <2>2, <2>3, <2>4, <2>5 DEF Interrupting, Interrupts
  <2>7. p = <<line[j - 1], line[j]>>
    BY <2>1, <2>2, <2>3, <2>6
  <2> QED BY <2>6, <2>7
<1> HIDE DEF f, S, Pairs
<1>7. f \in Bijection(S, Pairs)
  <2>1. f \in Injection(S, Pairs)
    BY <1>4, <1>5 DEF Injection, IsInjective
  <2>2. f \in Surjection(S, Pairs)
    BY <1>4, <1>6 DEF Surjection
  <2> QED BY <2>1, <2>2 DEF Bijection
<1>8. Cardinality(Pairs) = Cardinality(S)
  BY <1>2, <1>7, FS_Bijection DEF ExistsBijection
<1> QED BY <1>1, <1>8, CountIs DEF S, m, Pairs

\* A turn of mine follows one of mine after a short gap.
Links(line, k) == line[k - 1].me /\ line[k].me /\ Less(line[k].start, line[k - 1].end) < Gap
Chain(line, i, j) == i <= j /\ line[i].me /\ \A k \in i + 1..j : Links(line, k)
Span(line, i, j) == Less(line[j].end, line[i].start)

LEMMA LessIs ==
  ASSUME NEW m \in Nat, NEW n \in Nat
  PROVE  /\ Less(m, n) \in Nat /\ (n <= m => Less(m, n) = m - n)
         /\ \A p \in Nat : m <= p => Less(m, n) <= Less(p, n)
         /\ \A p \in Nat : p <= n => Less(m, n) <= Less(m, p)
BY DEF Less

LEMMA ChainIsMine ==
  ASSUME NEW line, NEW i \in Nat, NEW j \in Nat, Chain(line, i, j), NEW k \in i..j
  PROVE  line[k].me
<1>1. k = i \/ k \in i + 1..j
  OBVIOUS
<1> QED BY <1>1 DEF Chain, Links

LEMMA UnbrokenIs ==
  ASSUME NEW T, NEW line, IsLine(line, T), NEW i \in 1..Len(line), NEW j \in 1..Len(line)
  PROVE  Unbroken(T, line[i], line[j]) <=> Chain(line, i, j)
<1> DEFINE m == Len(line)
           a == line[i]
           b == line[j]
<1>1. /\ m \in Nat /\ DOMAIN line = 1..m
      /\ \A k \in 1..m : line[k] \in T /\ IsTurn(line[k])
      /\ \A k, n \in 1..m : /\ line[k].start < line[n].start <=> k < n
                            /\ line[k].start <= line[n].start <=> k <= n
  BY LinesAre
<1>2. \A k, n \in 1..m : /\ \A p \in 1..m : line[p] \in Between(T, line[k], line[n]) <=> k < p /\ p < n
                         /\ \A t \in Between(T, line[k], line[n]) : \E p \in 1..m : t = line[p] /\ k < p /\ p < n
  BY BetweenIs
<1>3. ASSUME Unbroken(T, a, b) PROVE Chain(line, i, j)
  <2>1. i <= j /\ a.me /\ b.me
    BY <1>1, <1>3 DEF Unbroken
  <2>2. ASSUME NEW k \in i..j PROVE line[k].me /\ k \in 1..m
    <3>1. k \in 1..m /\ (k = i \/ k = j \/ (i < k /\ k < j))
      BY <1>1
    <3>2. i < k /\ k < j => line[k] \in Between(T, a, b)
      BY <1>2, <3>1
    <3> QED BY <1>3, <2>1, <3>1, <3>2 DEF Unbroken
  <2>3. ASSUME NEW k \in i + 1..j PROVE Links(line, k)
    <3>1. PICK h \in 1..m : h = k - 1 /\ h \in i..j /\ k \in i..j /\ h < j /\ h < k /\ k \in 1..m
      BY <1>1
    <3>2. line[h] \in {a} \cup Between(T, a, b)
      <4>1. h = i \/ (i < h /\ h < j)
        BY <1>1, <3>1
      <4> QED BY <1>2, <4>1
    <3>3. line[h] # b
      <4>1. line[h].start < b.start /\ b.start \in Nat
        BY <1>1, <3>1 DEF IsTurn
      <4> QED BY <4>1
    <3>4. PICK d \in {b} \cup Between(T, line[h], b) : Less(d.start, line[h].end) < Gap
      BY <1>3, <3>2, <3>3 DEF Unbroken
    <3>5. PICK p \in 1..m : d = line[p] /\ h < p
      <4>1. CASE d = b
        BY <3>1, <4>1
      <4>2. CASE d \in Between(T, line[h], line[j])
        <5>1. PICK p \in 1..m : d = line[p] /\ h < p /\ p < j
          BY <1>2, <4>2
        <5> QED BY <5>1
      <4> QED BY <4>1, <4>2
    <3>6. k <= p
      BY <1>1, <3>1, <3>5
    <3>7. line[k].start <= d.start
      BY <1>1, <3>1, <3>5, <3>6
    <3>8. line[k].start \in Nat /\ d.start \in Nat /\ line[h].end \in Nat
      BY <1>1, <3>1, <3>5 DEF IsTurn
    <3>9. Less(line[k].start, line[h].end) < Gap
      <4>1. Gap \in Nat
        BY MetricsBounds
      <4>2. PICK x \in Nat, y \in Nat, z \in Nat : x = line[k].start /\ y = d.start /\ z = line[h].end
        BY <3>8
      <4>3. x <= y /\ Less(y, z) < Gap
        BY <3>4, <3>7, <4>2
      <4>4. Less(x, z) \in Nat /\ Less(y, z) \in Nat /\ Less(x, z) <= Less(y, z)
        BY <4>3, LessIs
      <4>5. Less(x, z) < Gap
        BY <4>1, <4>3, <4>4
      <4> QED BY <4>2, <4>5
    <3> QED BY <2>2, <3>1, <3>9 DEF Links
  <2> QED BY <2>1, <2>3 DEF Chain
<1>4. ASSUME Chain(line, i, j) PROVE Unbroken(T, a, b)
  <2>1. i <= j /\ i \in Nat /\ j \in Nat
    BY <1>1, <1>4 DEF Chain
  <2>2. \A k \in i..j : line[k].me
    BY <1>4, <2>1, ChainIsMine
  <2>3. a.me /\ b.me /\ a.start <= b.start
    BY <1>1, <2>1, <2>2
  <2>4. \A t \in Between(T, a, b) : t.me
    <3> SUFFICES ASSUME NEW t \in Between(T, a, b) PROVE t.me
      OBVIOUS
    <3>1. PICK p \in 1..m : t = line[p] /\ i < p /\ p < j
      BY <1>2
    <3> QED BY <2>2, <3>1
  <2>5. ASSUME NEW c \in {a} \cup Between(T, a, b), c # b
        PROVE  \E d \in {b} \cup Between(T, c, b) : Less(d.start, c.end) < Gap
    <3>1. PICK k \in 1..m : c = line[k] /\ i <= k /\ k < j
      <4>1. CASE c = a
        <5>1. i # j
          BY <2>5, <4>1
        <5> QED BY <2>1, <4>1, <5>1
      <4>2. CASE c \in Between(T, a, b)
        <5>1. PICK k \in 1..m : c = line[k] /\ i < k /\ k < j
          BY <1>2, <4>2
        <5> QED BY <5>1
      <4> QED BY <4>1, <4>2
    <3>2. PICK n \in 1..m : n = k + 1 /\ n \in i + 1..j /\ n - 1 = k /\ k < n
      BY <1>1, <3>1
    <3>3. Less(line[n].start, c.end) < Gap
      BY <1>4, <3>1, <3>2 DEF Chain, Links
    <3>4. line[n] \in {b} \cup Between(T, c, b)
      <4>1. n = j \/ (k < n /\ n < j)
        BY <3>2
      <4> QED BY <1>2, <3>1, <4>1
    <3> QED BY <3>3, <3>4
  <2> QED BY <2>3, <2>4, <2>5 DEF Unbroken
<1> QED BY <1>3, <1>4

States == [on : BOOLEAN, from : Nat, to : Nat, longest : Nat]

\* The chains of the first n turns that end before turn f.
Bounds(s, line, n, f) ==
  \A i, j \in 1..n : Chain(line, i, j) /\ j < f => Span(line, i, j) <= s.longest

\* The stretch that is still open begins with turn f.
Opens(s, line, n, f) ==
  /\ Chain(line, f, n) /\ (f = 1 \/ ~Links(line, f))
  /\ s.from = line[f].start /\ s.to = line[n].end /\ Bounds(s, line, n, f)

IsSpan(length, line, n) ==
  length = 0 \/ \E i, j \in 1..n : Chain(line, i, j) /\ length = Span(line, i, j)

ListenInv(s, line, n) ==
  /\ s \in States /\ IsSpan(s.longest, line, n)
  /\ IF s.on THEN \E f \in 1..n : Opens(s, line, n, f)
     ELSE (n = 0 \/ ~line[n].me) /\ Bounds(s, line, n, n + 1)

\* Every chain of the first n turns is as short as what a close records.
LEMMA CloseIs ==
  ASSUME NEW T, NEW line, IsLine(line, T), MineApart(T), NEW n \in 0..Len(line), NEW s, ListenInv(s, line, n)
  PROVE  /\ Close(s) \in States /\ ~Close(s).on /\ IsSpan(Close(s).longest, line, n)
         /\ \A i, j \in 1..n : Chain(line, i, j) => Span(line, i, j) <= Close(s).longest
<1> DEFINE m == Len(line)
<1>1. /\ m \in Nat /\ \A k \in 1..m : line[k] \in T /\ IsTurn(line[k])
      /\ \A k, p \in 1..m : /\ line[k].start < line[p].start <=> k < p
                            /\ line[k].start <= line[p].start <=> k <= p
  BY LinesAre
<1>2. s \in States /\ IsSpan(s.longest, line, n)
  BY DEF ListenInv
<1>3. s.on \in BOOLEAN /\ s.from \in Nat /\ s.to \in Nat /\ s.longest \in Nat
  BY <1>2 DEF States
<1>4. CASE ~s.on
  <2>1. Close(s).longest = s.longest /\ Close(s).on = FALSE
    BY <1>4 DEF Close
  <2>2. Close(s) \in States
    BY <1>3, <1>4 DEF Close, States
  <2>3. Bounds(s, line, n, n + 1)
    BY <1>4 DEF ListenInv
  <2>4. \A j \in 1..n : j < n + 1
    OBVIOUS
  <2> QED BY <1>2, <2>1, <2>2, <2>3, <2>4 DEF Bounds
<1>5. CASE s.on
  <2>1. PICK f \in 1..n : Opens(s, line, n, f)
    BY <1>5 DEF ListenInv
  <2>2. n \in Nat /\ f \in 1..m /\ n \in 1..m /\ f \in Nat /\ f <= n
    BY <1>1
  <2>3. /\ line[f].start \in Nat /\ line[n].end \in Nat /\ line[n].start <= line[n].end
        /\ line[f].start <= line[n].start /\ line[n].start \in Nat
    BY <1>1, <2>2 DEF IsTurn
  <2>4. PICK g \in Nat : g = Span(line, f, n) /\ g = Less(s.to, s.from)
    BY <2>1, <2>3 DEF Opens, Span, Less
  <2>5. Close(s).longest = More(s.longest, g) /\ Close(s).on = FALSE
    BY <1>5, <2>4 DEF Close
  <2>6. More(s.longest, g) \in {s.longest, g} /\ s.longest <= More(s.longest, g) /\ g <= More(s.longest, g)
    BY <1>3, <2>4 DEF More
  <2>7. Close(s) \in States
    BY <1>3, <1>5, <2>4, <2>6 DEF Close, States
  <2>8. IsSpan(g, line, n)
    <3>1. Chain(line, f, n) /\ n \in 1..n
      BY <2>1, <2>2 DEF Opens
    <3> QED BY <2>4, <3>1 DEF IsSpan
  <2>9. ASSUME NEW i \in 1..n, NEW j \in 1..n, Chain(line, i, j)
        PROVE  Span(line, i, j) <= More(s.longest, g)
    <3>0. i \in 1..m /\ j \in 1..m /\ i <= j /\ i \in Nat /\ j \in Nat
      BY <1>1, <2>9 DEF Chain
    <3>1. Span(line, i, j) \in Nat
      BY <1>1, <3>0, LessIs DEF Span, IsTurn
    <3>2. CASE j < f
      <4>1. Span(line, i, j) <= s.longest
        BY <2>1, <2>9, <3>2 DEF Opens, Bounds
      <4> QED BY <1>3, <2>4, <2>6, <3>1, <4>1
    <3>3. CASE f <= j
      <4>1. f <= i
        <5> SUFFICES ASSUME i < f PROVE FALSE
          BY <2>2, <3>0
        <5>1. f \in i + 1..j /\ f # 1
          BY <2>2, <3>0, <3>3
        <5> QED BY <2>1, <2>9, <5>1 DEF Opens, Chain
      <4>2. line[f].start <= line[i].start
        BY <1>1, <2>2, <3>0, <4>1
      <4>3. line[j].end <= line[n].end
        <5>1. CASE j = n
          BY <2>3, <5>1
        <5>2. CASE j < n
          <6>1. line[j].me /\ line[n].me
            <7>1. Chain(line, f, n) /\ j \in f..n /\ n \in f..n
              BY <2>1, <2>2, <3>0, <3>3 DEF Opens
            <7> QED BY <2>2, <7>1, ChainIsMine
          <6>2. line[j].start < line[n].start
            BY <1>1, <2>2, <3>0, <5>2
          <6>3. line[j].end <= line[n].start
            BY <1>1, <2>2, <3>0, <6>1, <6>2 DEF MineApart
          <6>4. line[j].end \in Nat
            BY <1>1, <3>0 DEF IsTurn
          <6> QED BY <2>3, <6>3, <6>4
        <5> QED BY <2>2, <3>0, <5>1, <5>2
      <4>4. line[j].end \in Nat /\ line[i].start \in Nat
        BY <1>1, <3>0 DEF IsTurn
      <4>5. Span(line, i, j) <= g
        <5>1. PICK a \in Nat, b \in Nat, c \in Nat, d \in Nat :
                a = line[f].start /\ b = line[i].start /\ c = line[j].end /\ d = line[n].end
          BY <2>3, <4>4
        <5>2. a <= b /\ c <= d
          BY <4>2, <4>3, <5>1
        <5>3. Less(c, b) <= Less(d, a)
          BY ONLY <5>2, a \in Nat, b \in Nat, c \in Nat, d \in Nat DEF Less
        <5> QED BY <2>4, <5>1, <5>3 DEF Span
      <4> QED BY <1>3, <2>4, <2>6, <3>1, <4>5
    <3> QED BY <2>2, <3>0, <3>2, <3>3
  <2> QED BY <1>2, <2>5, <2>6, <2>7, <2>8, <2>9
<1> QED BY <1>3, <1>4, <1>5

LEMMA ListenStep ==
  ASSUME NEW T, NEW line, IsLine(line, T), MineApart(T), NEW n \in 1..Len(line), NEW s,
         ListenInv(s, line, n - 1)
  PROVE  ListenInv(Listen(s, line[n]), line, n)
<1> DEFINE m == Len(line)
           r == Listen(s, line[n])
<1>1. /\ m \in Nat /\ n \in Nat /\ n - 1 \in 0..m /\ n - 1 \in Nat
      /\ \A k \in 1..n - 1 : k \in 1..n /\ k < n
      /\ line[n].me \in BOOLEAN /\ line[n].start \in Nat /\ line[n].end \in Nat
  BY LinesAre DEF IsTurn
<1>2. s \in States /\ IsSpan(s.longest, line, n - 1)
  BY DEF ListenInv
<1>3. s.on \in BOOLEAN /\ s.from \in Nat /\ s.to \in Nat /\ s.longest \in Nat
  BY <1>2 DEF States
<1>4. PICK c : c = Close(s)
  OBVIOUS
<1>5. /\ c \in States /\ ~c.on /\ IsSpan(c.longest, line, n - 1)
      /\ \A i, j \in 1..n - 1 : Chain(line, i, j) => Span(line, i, j) <= c.longest
  BY <1>1, <1>4, CloseIs
<1>6. \A l : IsSpan(l, line, n - 1) => IsSpan(l, line, n)
  BY <1>1 DEF IsSpan
<1>7. CASE ~line[n].me
  <2>1. r = c
    BY <1>4, <1>7 DEF Listen
  <2>2. ASSUME NEW i \in 1..n, NEW j \in 1..n, Chain(line, i, j) PROVE Span(line, i, j) <= c.longest
    <3>1. i \in Nat /\ j \in Nat /\ i <= j
      BY <1>1, <2>2 DEF Chain
    <3>2. j # n
      <4> SUFFICES ASSUME j = n PROVE FALSE
        OBVIOUS
      <4>1. j \in i..j
        BY <3>1
      <4>2. line[j].me
        BY ONLY <2>2, <3>1, <4>1, ChainIsMine
      <4> QED BY <1>7, <4>2
    <3>3. i \in 1..n - 1 /\ j \in 1..n - 1
      BY <1>1, <3>1, <3>2
    <3> QED BY <1>5, <2>2, <3>3
  <2> HIDE DEF r
  <2>3. Bounds(r, line, n, n + 1)
    BY <2>1, <2>2 DEF Bounds
  <2>4. r \in States /\ r.on = FALSE /\ IsSpan(r.longest, line, n)
    BY <1>5, <1>6, <2>1
  <2>5. ListenInv(r, line, n)
    BY <1>7, <2>3, <2>4 DEF ListenInv
  <2> QED BY <2>5 DEF r
<1>8. CASE line[n].me /\ s.on /\ Less(line[n].start, s.to) < Gap
  <2>1. r = [s EXCEPT !.to = line[n].end]
    BY <1>8 DEF Listen
  <2>2. r \in States /\ r.on = s.on /\ r.from = s.from /\ r.to = line[n].end /\ r.longest = s.longest
    BY <1>1, <1>2, <2>1 DEF States
  <2> HIDE DEF r
  <2>3. PICK f \in 1..n - 1 : Opens(s, line, n - 1, f)
    BY <1>8 DEF ListenInv
  <2>4. Links(line, n)
    <3>1. line[n - 1].me
      <4>1. f \in Nat /\ n - 1 \in f..n - 1 /\ Chain(line, f, n - 1)
        BY <1>1, <2>3 DEF Opens
      <4> QED BY <1>1, <4>1, ChainIsMine
    <3> QED BY <1>8, <2>3, <3>1 DEF Links, Opens
  <2>5. Chain(line, f, n)
    <3>1. \A k \in f + 1..n : k = n \/ k \in f + 1..n - 1
      BY <1>1
    <3> QED BY <1>1, <2>3, <2>4, <3>1 DEF Opens, Chain
  <2>6. Bounds(r, line, n, f)
    <3> SUFFICES ASSUME NEW i \in 1..n, NEW j \in 1..n, Chain(line, i, j), j < f
                 PROVE  Span(line, i, j) <= r.longest
      BY DEF Bounds
    <3>1. i \in 1..n - 1 /\ j \in 1..n - 1
      BY <1>1 DEF Chain
    <3> QED BY <2>2, <2>3, <3>1 DEF Opens, Bounds
  <2>7. Opens(r, line, n, f) /\ f \in 1..n
    BY <1>1, <2>2, <2>3, <2>5, <2>6 DEF Opens
  <2>8. IsSpan(r.longest, line, n) /\ r.on
    BY <1>2, <1>6, <1>8, <2>2
  <2>9. ListenInv(r, line, n)
    BY <2>2, <2>7, <2>8 DEF ListenInv
  <2> QED BY <2>9 DEF r
<1>9. CASE line[n].me /\ ~(s.on /\ Less(line[n].start, s.to) < Gap)
  <2>1. r = [on |-> TRUE, from |-> line[n].start, to |-> line[n].end, longest |-> c.longest]
    BY <1>4, <1>9 DEF Listen
  <2>2. c.longest \in Nat
    BY <1>5 DEF States
  <2>3. r \in States /\ r.on /\ r.from = line[n].start /\ r.to = line[n].end /\ r.longest = c.longest
    BY <1>1, <2>1, <2>2 DEF States
  <2> HIDE DEF r
  <2>4. n = 1 \/ ~Links(line, n)
    <3>1. CASE s.on
      <4>1. PICK f \in 1..n - 1 : Opens(s, line, n - 1, f)
        BY <3>1 DEF ListenInv
      <4> QED BY <1>9, <3>1, <4>1 DEF Opens, Links
    <3>2. CASE ~s.on
      <4>1. n - 1 = 0 \/ ~line[n - 1].me
        BY <3>2 DEF ListenInv
      <4> QED BY <1>1, <4>1 DEF Links
    <3> QED BY <3>1, <3>2
  <2>5. Chain(line, n, n)
    <3>1. n + 1..n = {}
      BY <1>1
    <3> QED BY <1>1, <1>9, <3>1 DEF Chain
  <2>6. Bounds(r, line, n, n)
    <3> SUFFICES ASSUME NEW i \in 1..n, NEW j \in 1..n, Chain(line, i, j), j < n
                 PROVE  Span(line, i, j) <= r.longest
      BY DEF Bounds
    <3>1. i \in 1..n - 1 /\ j \in 1..n - 1
      BY <1>1 DEF Chain
    <3> QED BY <1>5, <2>3, <3>1
  <2>7. Opens(r, line, n, n) /\ n \in 1..n
    BY <1>1, <2>3, <2>4, <2>5, <2>6 DEF Opens
  <2>8. IsSpan(r.longest, line, n)
    BY <1>5, <1>6, <2>3
  <2>9. ListenInv(r, line, n)
    BY <2>3, <2>7, <2>8 DEF ListenInv
  <2> QED BY <2>9 DEF r
<1> QED BY <1>3, <1>7, <1>8, <1>9

\* The longest monologue bounds every chain, and is one of them.
LEMMA MonologueIs ==
  ASSUME NEW T, NEW line, IsLine(line, T), MineApart(T)
  PROVE  LET n == Len(line)
         IN  /\ \A i, j \in 1..n : Chain(line, i, j) => Span(line, i, j) <= LongestMonologue(line)
             /\ IsSpan(LongestMonologue(line), line, n)
<1> DEFINE n == Len(line)
           Heard(s, i) == Listen(s, line[i])
           step == [p \in States \X (1..n) |-> IF ListenInv(p[1], line, p[2] - 1)
                                               THEN Heard(p[1], p[2]) ELSE Silence]
           Rule(h) == [i \in 0..n |-> IF i = 0 THEN Silence ELSE Listen(h[i - 1], line[i])]
           all == CHOOSE h : h = Rule(h)
<1>0. n \in Nat
  BY LinesAre
<1>1. Silence \in States
  BY DEF States, Silence
<1>2. ASSUME NEW s, NEW i \in 1..n, ListenInv(s, line, i - 1) PROVE ListenInv(Heard(s, i), line, i)
  BY <1>2, ListenStep
<1>3. ListenInv(Silence, line, 0)
  <2>1. ~Silence.on /\ Silence.longest = 0
    BY DEF Silence
  <2> QED BY <1>1, <2>1 DEF ListenInv, Bounds, IsSpan
<1>4. /\ step \in [States \X (1..n) -> States]
      /\ \A s \in States, i \in 1..n : ListenInv(s, line, i - 1) => step[<<s, i>>] = Heard(s, i)
  <2>1. ASSUME NEW s, NEW i \in 1..n, ListenInv(s, line, i - 1) PROVE Heard(s, i) \in States
    <3>1. ListenInv(Heard(s, i), line, i)
      BY <1>2, <2>1
    <3> HIDE DEF Heard
    <3> QED BY <3>1 DEF ListenInv
  <2> HIDE DEF Heard, n
  <2>2. ASSUME NEW p \in States \X (1..n) PROVE step[p] \in States
    BY <1>1, <2>1, <2>2
  <2>3. step \in [States \X (1..n) -> States]
    BY <2>2
  <2>4. ASSUME NEW s \in States, NEW i \in 1..n, ListenInv(s, line, i - 1) PROVE step[<<s, i>>] = Heard(s, i)
    <3>1. <<s, i>> \in States \X (1..n)
      OBVIOUS
    <3> QED BY <2>4, <3>1
  <2> QED BY <2>3, <2>4
<1> HIDE DEF step
<1>5. PICK g : Iterates(g, n, States, Silence, step)
  <2> HIDE DEF n
  <2> QED BY ONLY <1>0, <1>1, <1>4, IterationExists
<1> DEFINE U == {i \in 0..n : ListenInv(g[i], line, i)}
<1>6. 0 \in U /\ \A i \in 1..n : i - 1 \in U => i \in U /\ g[i] = Heard(g[i - 1], i)
  <2>1. 0 \in U
    BY <1>0, <1>3, <1>5 DEF Iterates
  <2>2. ASSUME NEW i \in 1..n, i - 1 \in U PROVE i \in U /\ g[i] = Heard(g[i - 1], i)
    <3>1. ListenInv(g[i - 1], line, i - 1) /\ i \in 0..n
      BY <1>0, <2>2
    <3>2. g[i] = step[<<g[i - 1], i>>] /\ g[i - 1] \in States
      <4>1. i - 1 \in 0..n
        BY <2>2
      <4> QED BY <4>1, <1>5 DEF Iterates
    <3> HIDE DEF Heard
    <3>3. g[i] = Heard(g[i - 1], i)
      BY <1>4, <3>1, <3>2
    <3> QED BY <1>2, <3>1, <3>3
  <2> QED BY <2>1, <2>2
<1>7. 0..n \subseteq U
  <2> HIDE DEF U, n, Heard
  <2> QED BY ONLY <1>0, <1>6, InductionUpTo
<1>8. \A i \in 1..n : g[i] = Heard(g[i - 1], i)
  <2>1. \A i \in 1..n : i - 1 \in 0..n
    BY <1>0
  <2> HIDE DEF U, Heard
  <2> QED BY <1>6, <1>7, <2>1
<1>9. g = Rule(g)
  <2>1. \A i \in 0..n : i = 0 \/ i \in 1..n
    BY <1>0
  <2>2. g = [i \in 0..n |-> g[i]] /\ g[0] = Silence
    BY <1>5 DEF Iterates
  <2> HIDE DEF n
  <2> QED BY <1>8, <2>1, <2>2
<1>10. all = Rule(all)
  <2> HIDE DEF Rule
  <2> QED BY <1>9, Zenon
<1>11. all[0] = Silence /\ \A i \in 1..n : all[i] = Heard(all[i - 1], i)
  <2>1. 0 \in 0..n /\ \A i \in 1..n : i \in 0..n /\ i # 0
    BY <1>0
  <2> QED BY <1>10, <2>1, Zenon
<1>12. LongestMonologue(line) = Close(all[n]).longest
  BY DEF LongestMonologue
<1> HIDE DEF all, Rule
<1> DEFINE V == {i \in 0..n : ListenInv(all[i], line, i)}
<1>13. 0 \in V /\ \A i \in 1..n : i - 1 \in V => i \in V
  <2>1. 0 \in V
    BY <1>0, <1>3, <1>11
  <2>2. ASSUME NEW i \in 1..n, i - 1 \in V PROVE i \in V
    <3>1. ListenInv(all[i - 1], line, i - 1) /\ i \in 0..n
      BY <1>0, <2>2
    <3>2. all[i] = Heard(all[i - 1], i)
      BY <1>11
    <3> HIDE DEF Heard
    <3> QED BY <1>2, <3>1, <3>2
  <2> QED BY <2>1, <2>2
<1>14. 0..n \subseteq V
  <2> HIDE DEF V, n
  <2> QED BY ONLY <1>0, <1>13, InductionUpTo
<1>15. ListenInv(all[n], line, n) /\ n \in 0..n
  BY <1>0, <1>14
<1> QED BY <1>12, <1>15, CloseIs

\* What FiguresAreOfTheTalk says of a line and its turns.
LEMMA FiguresAre ==
  ASSUME NEW l, IsLog(l), DistinctStarts(l)
  PROVE  LET m == Metrics(l)
             turns == TurnSet(l)
         IN  /\ m.interruptions = Cardinality(InterruptedByTurns(turns))
             /\ \A n \in LongestByTurns(turns) : n <= m.longest
             /\ m.longest \in LongestByTurns(turns) \cup {0}
<1> DEFINE T == TurnSet(l)
           line == Timeline(l)
<1>1. Metrics(l).interruptions = Interruptions(line) /\ Metrics(l).longest = LongestMonologue(line)
  BY DEF Metrics
<1>2. IsLine(line, T) /\ MineApart(T)
  BY TimelineIs, MineAreApart
<1> HIDE DEF T, line
<1>3. Interruptions(line) = Cardinality(InterruptedByTurns(T))
  BY <1>2, InterruptionsAre
<1>4. /\ \A i, j \in 1..Len(line) : Chain(line, i, j) => Span(line, i, j) <= LongestMonologue(line)
      /\ IsSpan(LongestMonologue(line), line, Len(line))
  BY <1>2, MonologueIs
<1>5. \A t \in T : \E i \in 1..Len(line) : t = line[i]
  BY <1>2, LinesAre
<1>6. \A i \in 1..Len(line) : line[i] \in T
  BY <1>2, LinesAre
<1>7. ASSUME NEW n \in LongestByTurns(T) PROVE n <= LongestMonologue(line)
  <2>1. PICK p \in T \X T : Unbroken(T, p[1], p[2]) /\ n = Less(p[2].end, p[1].start)
    BY DEF LongestByTurns
  <2>2. PICK i \in 1..Len(line) : p[1] = line[i]
    BY <1>5
  <2>3. PICK j \in 1..Len(line) : p[2] = line[j]
    BY <1>5
  <2>4. Chain(line, i, j)
    BY <1>2, <2>1, <2>2, <2>3, UnbrokenIs
  <2> QED BY <1>4, <2>1, <2>2, <2>3, <2>4 DEF Span
<1>8. LongestMonologue(line) \in LongestByTurns(T) \cup {0}
  <2> SUFFICES ASSUME LongestMonologue(line) # 0 PROVE LongestMonologue(line) \in LongestByTurns(T)
    OBVIOUS
  <2>1. PICK i \in 1..Len(line), j \in 1..Len(line) :
          Chain(line, i, j) /\ LongestMonologue(line) = Span(line, i, j)
    BY <1>4 DEF IsSpan
  <2>2. Unbroken(T, line[i], line[j])
    BY <1>2, <2>1, UnbrokenIs
  <2>3. PICK p \in T \X T : p[1] = line[i] /\ p[2] = line[j]
    <3>1. <<line[i], line[j]>> \in T \X T
      BY <1>6
    <3> QED BY <3>1
  <2> QED BY <2>1, <2>2, <2>3 DEF LongestByTurns, Span
<1> QED BY <1>1, <1>3, <1>7, <1>8 DEF T, line
--------------------------------------------------------------------------------
Names == {"metrics", "terms", "translator", "briefs", "points"}

\* A segment that is dispatched to an observer comes after those of its side that
\* the figures already count; the figures come first, and on the page.
DueInv ==
  call # None =>
    /\ call.seg.me \in BOOLEAN /\ call.seg.ts \in Nat /\ call.seg.duration \in Nat
    /\ call.seg.ts <= until[call.seg.me]
    /\ call.ask \in Seq(Names) /\ call.ask # <<>>
    /\ \A k \in 2..Len(call.ask) : call.ask[k] # "metrics"
    /\ call.ask[1] = "metrics" => \A i \in 1..Len(log) :
         log[i].me = call.seg.me => log[i].ts + call.seg.duration <= call.seg.ts

TalkInv ==
  /\ IsLog(log) /\ until \in [BOOLEAN -> Nat]
  /\ \A i \in 1..Len(log) : log[i].ts <= until[log[i].me]
  /\ page.metrics = None \/ page.metrics = Metrics(log)
  /\ DueInv

\* Only the first observer that is asked can be the one of the figures.
LEMMA AskedAre ==
  /\ Asked \in Seq(Names) /\ \A k \in 2..Len(Asked) : Asked[k] # "metrics"
<1> DEFINE S == {"terms", "translator", "briefs", "points"}
<1>1. ASSUME NEW o \in S PROVE Only(o) \in Seq(S)
  <2> HIDE DEF S
  <2>1. <<o>> \in Seq(S) /\ <<>> \in Seq(S)
    OBVIOUS
  <2> QED BY <2>1, Zenon DEF Only
<1>2. Others \in Seq(S)
  <2> HIDE DEF S
  <2>0. {"terms", "translator", "briefs", "points"} \subseteq S
    BY DEF S
  <2>1. PICK a \in Seq(S) : a = Only("terms")
    BY <1>1, <2>0, Zenon
  <2>2. PICK b \in Seq(S) : b = Only("translator")
    BY <1>1, <2>0, Zenon
  <2>3. PICK c \in Seq(S) : c = Only("briefs")
    BY <1>1, <2>0, Zenon
  <2>4. PICK d \in Seq(S) : d = Only("points")
    BY <1>1, <2>0, Zenon
  <2>5. Others = ((a \o b) \o c) \o d
    BY <2>1, <2>2, <2>3, <2>4 DEF Others
  <2>6. PICK e \in Seq(S) : e = a \o b
    BY ConcatProperties
  <2>7. PICK f \in Seq(S) : f = e \o c
    BY ConcatProperties
  <2>8. f \o d \in Seq(S)
    BY ConcatProperties
  <2> QED BY <2>5, <2>6, <2>7, <2>8
<1>3. PICK q \in Seq(S) : q = Others
  BY <1>2
<1>4. \A k \in 1..Len(q) : q[k] \in Names /\ q[k] # "metrics"
  <2>1. ASSUME NEW k \in 1..Len(q) PROVE q[k] \in S
    BY <1>3
  <2>2. \A o \in S : o \in Names /\ o # "metrics"
    BY DEF Names
  <2> HIDE DEF S
  <2> QED BY <2>1, <2>2
<1>5. q \in Seq(Names)
  BY <1>4
<1>6. CASE "metrics" \in session.on
  <2>1. Asked = <<"metrics">> \o q
    BY <1>3, <1>6 DEF Asked, Only
  <2>2. PICK h \in Seq(Names) : h = <<"metrics">> /\ Len(h) = 1
    <3>1. <<"metrics">> \in Seq(Names) /\ Len(<<"metrics">>) = 1
      BY DEF Names
    <3> QED BY <3>1, Zenon
  <2>3. h \o q \in Seq(Names) /\ Len(h \o q) = 1 + Len(q)
        /\ \A k \in 2..1 + Len(q) : (h \o q)[k] = q[k - 1]
    BY <1>5, <2>2
  <2>4. \A k \in 2..1 + Len(q) : k - 1 \in 1..Len(q)
    BY <1>5
  <2> QED BY <1>4, <2>1, <2>2, <2>3, <2>4
<1>7. CASE "metrics" \notin session.on
  <2>1. Asked = <<>> \o q
    BY <1>3, <1>7 DEF Asked, Only
  <2>2. <<>> \o q = q
    BY <1>5
  <2>3. \A k \in 2..Len(q) : k \in 1..Len(q)
    BY <1>5
  <2> QED BY <1>4, <1>5, <2>1, <2>2, <2>3
<1> QED BY <1>6, <1>7

\* The dispatch goes on, without the figures.
LEMMA RestIs ==
  ASSUME CallInv, DueInv, call # None
  PROVE  Rest = None \/ /\ Rest.seg = call.seg /\ Rest.ask \in Seq(Names) /\ Rest.ask # <<>>
                        /\ \A k \in 1..Len(Rest.ask) : Rest.ask[k] # "metrics"
<1> SUFFICES ASSUME Len(call.ask) # 1
             PROVE  /\ Rest.seg = call.seg /\ Rest.ask \in Seq(Names) /\ Rest.ask # <<>>
                    /\ \A k \in 1..Len(Rest.ask) : Rest.ask[k] # "metrics"
  BY DEF Rest
<1>1. PICK a \in Seq(Names) : a = call.ask
  BY DEF DueInv
<1>2. /\ Len(a) \in Nat /\ Len(a) > 1 /\ Tail(a) \in Seq(Names) /\ Len(Tail(a)) = Len(a) - 1
      /\ \A k \in 1..Len(a) - 1 : Tail(a)[k] = a[k + 1] /\ k + 1 \in 2..Len(a)
  <2>1. a # <<>> /\ Len(a) # 1
    BY <1>1 DEF DueInv
  <2>2. Len(a) \in Nat /\ Len(a) > 1
    <3>1. Len(a) \in Nat \ {0}
      BY <2>1, EmptySeq, Zenon
    <3>2. PICK m : m = Len(a)
      OBVIOUS
    <3> QED BY <2>1, <3>1, <3>2
  <2>3. \A k \in 1..Len(a) - 1 : k + 1 \in 2..Len(a)
    BY <2>2
  <2> QED BY <2>1, <2>2, <2>3, HeadTailProperties
<1>3. PICK u \in Seq(Names) : u = Tail(a)
  BY <1>2
<1> DEFINE c1 == [call EXCEPT !.ask = u]
<1>4. c1 = [seg |-> call.seg, ask |-> u, act |-> call.act, known |-> call.known]
  BY DEF CallInv
<1>5. Rest = [c1 EXCEPT !.act = FALSE]
  BY <1>1, <1>3 DEF Rest
<1> HIDE DEF c1
<1>6. Rest = [seg |-> call.seg, ask |-> u, act |-> FALSE, known |-> call.known]
  BY <1>4, <1>5
<1>7. \A k \in 2..Len(a) : a[k] # "metrics"
  BY <1>1 DEF DueInv
<1>8. u # <<>> /\ \A k \in 1..Len(u) : u[k] # "metrics"
  <2>1. Len(u) = Len(a) - 1 /\ Len(u) # 0
    <3>1. Len(a) \in Nat /\ Len(a) > 1
      BY <1>2, Zenon
    <3>2. Len(u) = Len(a) - 1
      BY <1>2, <1>3, Zenon
    <3> QED BY ONLY <3>1, <3>2
  <2> QED BY <1>2, <1>3, <1>7, <2>1
<1> QED BY <1>6, <1>8

LEMMA HeardInTime ==
  ASSUME TalkInv, session \in Sessions, now \in Nat, NEW said \in session.says, Hear(said)
  PROVE  until' \in [BOOLEAN -> Nat] /\ (\A i \in 1..Len(log) : log[i].ts <= until'[log[i].me]) /\ DueInv'
<1>1. said.me \in BOOLEAN /\ said.lag \in Nat /\ said.duration \in Nat
  BY ObserverBounds DEF IsTalk
<1>2. /\ until[said.me] \in Nat /\ until[said.me] + said.duration <= now - said.lag
      /\ until' = [until EXCEPT ![said.me] = now - said.lag] /\ log' = log
  BY <1>1 DEF Hear, TalkInv, observerVars
<1>3. PICK t \in Nat : t = now - said.lag
  BY <1>1, <1>2
<1>4. /\ \A me \in BOOLEAN : until[me] \in Nat /\ until'[me] = IF me = said.me THEN t ELSE until[me]
      /\ until' \in [BOOLEAN -> Nat]
  <2>1. PICK side \in BOOLEAN : side = said.me
    BY <1>1
  <2>2. until' = [until EXCEPT ![side] = t] /\ until \in [BOOLEAN -> Nat]
    BY <1>2, <1>3, <2>1 DEF TalkInv
  <2> QED BY <2>1, <2>2
<1>5. \A i \in 1..Len(log) : log[i].me \in BOOLEAN /\ log[i].ts \in Nat /\ log[i].ts <= until[log[i].me]
  BY DEF TalkInv, IsLog
<1>6. ASSUME NEW i \in 1..Len(log) PROVE log[i].ts <= until'[log[i].me]
  <2>1. PICK me \in BOOLEAN : me = log[i].me
    BY <1>5
  <2>2. log[i].ts \in Nat /\ log[i].ts <= until[me] /\ until[me] \in Nat
    BY <1>4, <1>5, <2>1
  <2>3. until[me] <= until'[me]
    <3>1. CASE me = said.me
      BY <1>1, <1>2, <1>3, <1>4, <3>1
    <3>2. CASE me # said.me
      BY <1>4, <3>2
    <3> QED BY <3>1, <3>2
  <2>4. until'[me] \in Nat
    BY <1>4
  <2> QED BY <2>1, <2>2, <2>3, <2>4
<1>7. ASSUME call' # None
      PROVE  /\ call'.ask = Asked /\ Asked # <<>> /\ call'.seg.me = said.me
             /\ call'.seg.ts = t /\ call'.seg.duration = said.duration
  BY <1>3, <1>7 DEF Hear, Segment
<1>8. ASSUME NEW i \in 1..Len(log), log[i].me = said.me PROVE log[i].ts + said.duration <= t
  <2>1. log[i].ts \in Nat /\ log[i].ts <= until[said.me]
    BY <1>5, <1>8
  <2> QED BY <1>1, <1>2, <1>3, <2>1
<1>9. DueInv'
  <2> SUFFICES ASSUME call' # None
               PROVE  /\ call'.seg.me \in BOOLEAN /\ call'.seg.ts \in Nat /\ call'.seg.duration \in Nat
                      /\ call'.seg.ts <= until'[call'.seg.me]
                      /\ call'.ask \in Seq(Names) /\ call'.ask # <<>>
                      /\ \A k \in 2..Len(call'.ask) : call'.ask[k] # "metrics"
                      /\ call'.ask[1] = "metrics" => \A i \in 1..Len(log') :
                           log'[i].me = call'.seg.me => log'[i].ts + call'.seg.duration <= call'.seg.ts
    BY DEF DueInv
  <2>1. until'[said.me] = t
    BY <1>1, <1>4
  <2> QED BY <1>1, <1>2, <1>7, <1>8, <2>1, AskedAre
<1> QED BY <1>4, <1>6, <1>9

LEMMA Counted ==
  ASSUME TalkInv, CallInv, ShapeInv, ActMetrics
  PROVE  TalkInv'
<1>1. /\ call # None /\ Head(call.ask) = "metrics" /\ call' = Rest /\ log' = Append(log, call.seg)
      /\ until' = until
  BY DEF ActMetrics, Act
<1>2. PICK s : s = call.seg
  OBVIOUS
<1>3. /\ s.me \in BOOLEAN /\ s.ts \in Nat /\ s.duration \in Nat /\ s.ts <= until[s.me]
  BY <1>1, <1>2 DEF TalkInv, DueInv
<1>4. call.ask[1] = "metrics"
  <2>1. call.ask \in Seq(Names) /\ call.ask # <<>>
    BY <1>1 DEF TalkInv, DueInv
  <2> QED BY <1>1, <2>1
<1>5. \A i \in 1..Len(log) : log[i].me = s.me => log[i].ts + s.duration <= s.ts
  BY <1>1, <1>2, <1>4 DEF TalkInv, DueInv
<1> DEFINE S == {log[i] : i \in DOMAIN log} \cup {s}
<1>6. PICK l \in Seq(S) : l = log
  <2>1. PICK l : l = log
    OBVIOUS
  <2>2. l \in Seq({l[i] : i \in DOMAIN l})
    BY <2>1 DEF TalkInv, IsLog, OfItsOwn
  <2>3. l \in Seq(S)
    BY <2>1, <2>2
  <2> QED BY <2>1, <2>3
<1>7. s \in S
  OBVIOUS
<1> HIDE DEF S
<1>8. PICK n \in Nat : n = Len(l)
  OBVIOUS
<1>9. PICK longer \in Seq(S) : longer = log'
  BY <1>1, <1>2, <1>6, <1>7
<1>10. Len(longer) = n + 1 /\ longer[n + 1] = s /\ \A i \in 1..n : longer[i] = l[i]
  BY <1>1, <1>2, <1>6, <1>7, <1>8, <1>9
<1>11. \A i \in 1..n + 1 : i = n + 1 \/ i \in 1..n
  BY <1>8
<1>12. IsLog(longer)
  <2>1. OfItsOwn(longer)
    BY IsOfItsOwn
  <2>2. \A i \in 1..n : l[i].me \in BOOLEAN /\ l[i].ts \in Nat /\ l[i].duration \in Nat
    BY <1>6, <1>8 DEF TalkInv, IsLog
  <2>3. \A i, j \in 1..n : i < j /\ l[i].me = l[j].me => l[i].ts + l[j].duration <= l[j].ts
    BY <1>6, <1>8 DEF TalkInv, IsLog
  <2>4. \A i \in 1..n + 1 : longer[i].me \in BOOLEAN /\ longer[i].ts \in Nat /\ longer[i].duration \in Nat
    BY <1>3, <1>10, <1>11, <2>2
  <2>5. ASSUME NEW i \in 1..n + 1, NEW j \in 1..n + 1, i < j, longer[i].me = longer[j].me
        PROVE  longer[i].ts + longer[j].duration <= longer[j].ts
    <3>1. i \in 1..n
      BY <1>8, <1>11, <2>5
    <3>2. CASE j = n + 1
      BY <1>5, <1>6, <1>8, <1>10, <2>5, <3>1, <3>2
    <3>3. CASE j \in 1..n
      BY <1>10, <2>3, <2>5, <3>1, <3>3
    <3> QED BY <1>11, <3>2, <3>3
  <2> QED BY <1>10, <2>1, <2>4, <2>5 DEF IsLog
<1>13. \A i \in 1..n + 1 : longer[i].ts <= until[longer[i].me]
  <2>1. \A i \in 1..n : l[i].ts <= until[l[i].me]
    BY <1>6, <1>8 DEF TalkInv
  <2> QED BY <1>3, <1>10, <1>11, <2>1
<1>14. page'.metrics = Metrics(log')
  <2>1. PICK m, a : page' = [page EXCEPT !.metrics = m, !.advice = a] /\ m = Metrics(log')
    BY <1>1 DEF ActMetrics
  <2> DEFINE p1 == [page EXCEPT !.metrics = m]
  <2>2. p1 = [points |-> page.points, terms |-> page.terms, briefs |-> page.briefs,
              metrics |-> m, advice |-> page.advice, translations |-> page.translations]
    <3>1. IsPage
      BY DEF ShapeInv
    <3> QED BY ONLY <3>1 DEF IsPage
  <2>3. page' = [p1 EXCEPT !.advice = a]
    BY <2>1
  <2> HIDE DEF p1
  <2> QED BY <2>1, <2>2, <2>3
<1>15. DueInv'
  <2>1. call' = None \/ /\ call'.seg = s /\ call'.ask \in Seq(Names) /\ call'.ask # <<>>
                        /\ \A k \in 1..Len(call'.ask) : call'.ask[k] # "metrics"
    BY <1>1, <1>2, RestIs DEF TalkInv
  <2> SUFFICES ASSUME call' # None
               PROVE  /\ call'.ask[1] # "metrics"
                      /\ \A k \in 2..Len(call'.ask) : call'.ask[k] # "metrics"
    BY <1>1, <1>3, <2>1 DEF DueInv
  <2>2. PICK q \in Seq(Names) : q = call'.ask /\ q # <<>> /\ \A k \in 1..Len(q) : q[k] # "metrics"
    BY <2>1
  <2> QED BY <2>2
<1> QED BY <1>1, <1>9, <1>10, <1>12, <1>13, <1>14, <1>15 DEF TalkInv

\* The dispatch without the figures, and every other step.
LEMMA DueStays ==
  ASSUME CallInv, DueInv, UNCHANGED <<until, log>>,
         call' = call \/ call' = None \/ (call # None /\ (call' = Rest \/ (call'.seg = call.seg /\ call'.ask = call.ask)))
  PROVE  DueInv'
<1>1. CASE call' = call \/ call' = None
  BY <1>1 DEF DueInv
<1>2. CASE call # None /\ call'.seg = call.seg /\ call'.ask = call.ask
  BY <1>2 DEF DueInv
<1>3. CASE call # None /\ call' = Rest
  <2>1. call' = None \/ /\ call'.seg = call.seg /\ call'.ask \in Seq(Names) /\ call'.ask # <<>>
                        /\ \A k \in 1..Len(call'.ask) : call'.ask[k] # "metrics"
    BY <1>3, RestIs
  <2> SUFFICES ASSUME call' # None
               PROVE  /\ call'.ask[1] # "metrics"
                      /\ \A k \in 2..Len(call'.ask) : call'.ask[k] # "metrics"
    BY <1>3, <2>1 DEF DueInv
  <2>2. PICK q \in Seq(Names) : q = call'.ask /\ q # <<>> /\ \A k \in 1..Len(q) : q[k] # "metrics"
    BY <2>1
  <2> QED BY <2>2
<1> QED BY <1>1, <1>2, <1>3

LEMMA TalkStep ==
  ASSUME QueueInv, CallInv, ShapeInv, TalkInv, LiveNext
  PROVE  TalkInv'
<1>1. page'.metrics = page.metrics \/ ActMetrics
  BY PageStep DEF ShapeInv
<1>2. CASE ActMetrics
  BY <1>2, Counted
<1>3. CASE \E said \in session.says : Hear(said)
  <2>1. PICK said \in session.says : Hear(said)
    BY <1>3
  <2>2. log' = log /\ page' = page
    BY <2>1 DEF Hear, observerVars
  <2>3. session \in Sessions /\ now \in Nat
    BY ObserverBounds DEF ShapeInv
  <2> QED BY <2>1, <2>2, <2>3, HeardInTime DEF TalkInv
<1>4. ASSUME page'.metrics = page.metrics, UNCHANGED <<until, log>>,
             call' = call \/ call' = None \/ (call # None /\ (call' = Rest \/ (call'.seg = call.seg /\ call'.ask = call.ask)))
      PROVE  TalkInv'
  BY <1>4, DueStays DEF TalkInv
<1>5. CASE Ask
  <2>1. UNCHANGED <<until, log, page>> /\ call # None
    BY <1>5 DEF Ask, observerVars
  <2>2. call' = Rest \/ (call'.seg = call.seg /\ call'.ask = call.ask)
    BY <1>5, <2>1 DEF Ask, CallInv
  <2> QED BY <1>4, <2>1, <2>2
<1>6. ASSUME ~ActMetrics, ActPoints \/ ActTerms \/ \E o \in session.on : ActLater(o) PROVE TalkInv'
  <2>1. UNCHANGED <<until, log>> /\ call # None /\ call' = Rest
    BY <1>6 DEF ActPoints, ActTerms, ActLater, Act, observerVars
  <2> QED BY <1>1, <1>4, <1>6, <2>1
<1>7. ASSUME ~ActMetrics,
             Tick \/ Take \/ \E work \in running : \/ Nothing(work) \/ FindBrief(work) \/ Translate(work)
                                                   \/ Explain(work) \/ TakePlace(work) \/ Emit(work)
      PROVE  TalkInv'
  <2>1. UNCHANGED <<until, log, call>>
    BY <1>7 DEF Tick, Take, Nothing, FindBrief, Translate, Explain, TakePlace, Emit, observerVars
  <2> QED BY <1>1, <1>4, <1>7, <2>1
<1> QED BY <1>2, <1>3, <1>5, <1>6, <1>7 DEF LiveNext

\* The figures on the page are those of the talk, whatever is said by whom and
\* when, and in whatever order it comes.
THEOREM FiguresAreTrue == LiveSpec => []FiguresAreOfTheTalk
<1> DEFINE Inv == LateInv /\ ShapeInv /\ TalkInv
<1>1. LiveInit => Inv
  <2> SUFFICES ASSUME LiveInit PROVE TalkInv
    BY EmptyIsKept
  <2>1. log = <<>> /\ call = None /\ page.metrics = None /\ until = [me \in BOOLEAN |-> 0]
    BY DEF LiveInit, EmptyPage
  <2>2. IsLog(<<>>)
    BY DEF IsLog, OfItsOwn
  <2> QED BY <2>1, <2>2 DEF TalkInv, DueInv
<1>2. Inv /\ [LiveNext]_liveVars => Inv'
  <2> SUFFICES ASSUME Inv, [LiveNext]_liveVars PROVE Inv'
    OBVIOUS
  <2>1. LateInv'
    BY LateStep
  <2>2. CASE LiveNext
    BY <2>1, <2>2, ShapeStep, TalkStep DEF LateInv
  <2>3. CASE UNCHANGED liveVars
    <3>1. UNCHANGED <<running, call, now, page, log, until, session, heard>>
      BY <2>3 DEF liveVars, observerVars
    <3>2. ShapeInv'
      BY <3>1 DEF ShapeInv, IsPage, OfItsOwn, Room
    <3>3. DueInv'
      BY <3>1, DueStays DEF LateInv, TalkInv
    <3> QED BY <2>1, <3>1, <3>2, <3>3 DEF TalkInv
  <2> QED BY <2>2, <2>3
<1>3. Inv => FiguresAreOfTheTalk
  <2> SUFFICES ASSUME Inv, page.metrics # None, DistinctStarts(log)
               PROVE  LET turns == TurnSet(log)
                      IN /\ page.metrics.interruptions = Cardinality(InterruptedByTurns(turns))
                         /\ \A n \in LongestByTurns(turns) : n <= page.metrics.longest
                         /\ page.metrics.longest \in LongestByTurns(turns) \cup {0}
    BY DEF FiguresAreOfTheTalk
  <2>1. page.metrics = Metrics(log) /\ IsLog(log)
    BY DEF TalkInv
  <2> QED BY <2>1, FiguresAre
<1> HIDE DEF Inv
<1> QED BY <1>1, <1>2, <1>3, PTL DEF LiveSpec
================================================================================
