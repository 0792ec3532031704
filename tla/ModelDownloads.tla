---------------------------- MODULE ModelDownloads ----------------------------
(***************************************************************************)
(* Installing models from within the application: the registry of running  *)
(* downloads with its cancel flags (download_model, cancel_model_download, *)
(* remove_model of the headless server, crates/talksage-server/src/lib.rs, *)
(* and of the desktop application, web/src-tauri/src/lib.rs), the threads  *)
(* that download, and what they do on disk                                 *)
(* (crates/talksage-asr/src/models.rs).                                    *)
(*                                                                         *)
(* A model is a set of files, an archive that is unpacked, or the          *)
(* punctuation model.  A user may ask for a download, cancel it or remove  *)
(* the model at any moment; a download may fail at any moment; the process *)
(* may be killed at any moment.  The handlers also refuse while a session  *)
(* is running; they look at that once and then go on without the lock, so  *)
(* that it does not restrict what happens here.                            *)
(***************************************************************************)
EXTENDS Integers, Sequences, FiniteSets

CONSTANTS
  Adapters,             \* a subset of {"server", "desktop"}
  Kinds,                \* the models: a subset of {"files", "archive", "punct"}
  Tasks,                \* bound: the downloads that are started, one task each
  Unset

ASSUME DownloadsAssumption ==
  /\ Adapters \subseteq {"server", "desktop"}
  /\ Kinds \subseteq {"files", "archive", "punct"}
  /\ IsFiniteSet(Tasks)
  /\ Unset \notin Tasks \cup Kinds \cup {"done", "cancelled", "error"}

\* The files that are downloaded for a model, in their order (sources).
Sources(k) == IF k = "files" THEN <<"encoder", "tokens">> ELSE <<"one">>
FilesOf(k) == {Sources(k)[i] : i \in 1..Len(Sources(k))}

\* What there is under a name on disk.
Contents == {"none", "empty", "cut", "whole"}

VARIABLES
  adapter,              \* the program: the server or the desktop application
  registry,             \* the task registered for a model, or Unset
  cancel,               \* the tasks whose cancel flag is set
  task,                 \* [model, where it is, the files it has left, its result]
  part, file,           \* the .part files, and the files they are renamed to
  staging, final        \* where an archive is unpacked, and the installed model
                        \*   (for "files", the files are)

disk == <<part, file, staging, final>>
vars == <<adapter, registry, cancel, task, disk>>

NoTask == [kind |-> Unset, at |-> "unused", left |-> <<>>, result |-> Unset]
Empty  == [k \in Kinds |-> [f \in FilesOf(k) |-> "none"]]

Init ==
  /\ adapter \in Adapters /\ registry = [k \in Kinds |-> Unset] /\ cancel = {}
  /\ task = [t \in Tasks |-> NoTask]
  /\ part = Empty /\ file = Empty
  /\ staging = [k \in Kinds |-> "none"] /\ final = [k \in Kinds |-> "none"]
--------------------------------------------------------------------------------
\* is_available, is_punct_model_available
Installed(k) ==
  IF k = "files" THEN \A f \in FilesOf(k) : file[k][f] \in {"cut", "whole"}
                 ELSE final[k] # "none"

Go(t, place) == task' = [task EXCEPT ![t].at = place]

NotRegistered(k) == registry[k] = Unset

\* download_model, up to the start of the thread.
Request(k, t) ==
  /\ task[t] = NoTask
  /\ k = "punct" => ~Installed(k)
  /\ NotRegistered(k)
  /\ registry' = [registry EXCEPT ![k] = t]
  /\ task' = [task EXCEPT ![t] = [kind |-> k, at |-> "started", left |-> <<>>, result |-> Unset]]
  /\ UNCHANGED <<adapter, cancel, disk>>

\* cancel_model_download
Cancel(k) ==
  /\ registry[k] # Unset /\ registry[k] \notin cancel
  /\ cancel' = cancel \cup {registry[k]}
  /\ UNCHANGED <<adapter, registry, task, disk>>

\* remove_model.  Of an archive it removes what was installed and the archive, not
\* the directory that it is unpacked in (remove_file on a directory fails) and
\* not its .part, which has another name than the one looked for.
Remove(k) ==
  /\ final' = [final EXCEPT ![k] = "none"]
  /\ file' = [file EXCEPT ![k] = Empty[k]]
  /\ part' = IF k = "archive" THEN part ELSE [part EXCEPT ![k] = Empty[k]]
  /\ UNCHANGED <<adapter, registry, cancel, task, staging>>
--------------------------------------------------------------------------------
Result(t, r) == task' = [task EXCEPT ![t].at = "ended", ![t].result = r]

\* The beginning of download_engine, download_qwen3_asr and download_punct_model.
Begin(t) ==
  /\ task[t].at = "started"
  /\ LET k == task[t].kind
     IN  IF Installed(k)
         THEN Result(t, "done") /\ UNCHANGED disk
         ELSE /\ task' = [task EXCEPT ![t].at = "picking", ![t].left = Sources(k)]
              /\ staging' = IF k = "archive" THEN [staging EXCEPT ![k] = "empty"] ELSE staging
              /\ UNCHANGED <<part, file, final>>
  /\ UNCHANGED <<adapter, registry, cancel>>

\* The name a file has while it is downloaded: with_extension("part").  For the
\* punctuation model, whose target is model.onnx.part, that is the target.
PartOf(k, f) == IF k = "punct" THEN file[k][f] ELSE part[k][f]
SetPart(k, f, c) ==
  IF k = "punct" THEN file' = [file EXCEPT ![k][f] = c] /\ UNCHANGED part
                 ELSE part' = [part EXCEPT ![k][f] = c] /\ UNCHANGED file

Discard(k, f) == SetPart(k, f, "none")

Nonempty(c) == c \in {"cut", "whole"}

\* A file is there; what is left is looked at next.
NextFile(t) == task' = [task EXCEPT ![t].at = "picking", ![t].left = Tail(@)]

\* The loop over the files.  One that is there is passed over.
PassOver(t) ==
  /\ task[t].at = "picking" /\ task[t].left # <<>>
  /\ Nonempty(file[task[t].kind][Head(task[t].left)])
  /\ NextFile(t)
  /\ UNCHANGED <<adapter, registry, cancel, disk>>

AllThere(t) ==
  /\ task[t].at = "picking" /\ task[t].left = <<>>
  /\ IF task[t].kind = "files" THEN Result(t, "done")
     ELSE Go(t, IF task[t].kind = "archive" THEN "unpacking" ELSE "installing")
  /\ UNCHANGED <<adapter, registry, cancel, disk>>

\* download_file, until it reads: cancelled, no answer, or the .part is created.
OpenFile(t) ==
  /\ task[t].at = "picking" /\ task[t].left # <<>>
  /\ LET k == task[t].kind
         f == Head(task[t].left)
     IN  /\ ~Nonempty(file[k][f])
         /\ \/ t \in cancel /\ Discard(k, f) /\ Result(t, "cancelled")
            \/ t \notin cancel /\ UNCHANGED <<part, file>> /\ Result(t, "error")
            \/ t \notin cancel /\ SetPart(k, f, "empty") /\ Go(t, "reading")
  /\ UNCHANGED <<adapter, registry, cancel, staging, final>>

\* Mutant: the loop does not look at the flag.
NeverCancelled(t) == FALSE

Cancelled(t) == t \in cancel

\* The .part is renamed when all of it was read.
Rename(k, f, content) ==
  /\ file' = [file EXCEPT ![k][f] = content]
  /\ part' = IF k = "punct" THEN part ELSE [part EXCEPT ![k][f] = "none"]

\* Mutant: an error while reading is taken for the end of the file.
ErrorEndsTheFile(t, k, f) ==
  IF PartOf(k, f) = "cut" THEN Rename(k, f, "cut") /\ NextFile(t)
                          ELSE UNCHANGED <<part, file>> /\ Result(t, "error")

\* An error while reading ends the download; the .part is left.
ReadError(t, k, f) == UNCHANGED <<part, file>> /\ Result(t, "error")

\* A round of the loop of download_file that finds the flag set.
StopReading(t) ==
  /\ task[t].at = "reading" /\ Cancelled(t)
  /\ Discard(task[t].kind, Head(task[t].left)) /\ Result(t, "cancelled")
  /\ UNCHANGED <<adapter, registry, cancel, staging, final>>

\* A round that does not: more data, an error of the connection, or the end, where
\* the .part must not be empty.  What was removed in the meantime is written to a
\* file without a name.  A connection that is cut is an error of it: the client
\* (ureq) knows the length or the chunks.
ReadMore(t) ==
  /\ task[t].at = "reading" /\ ~Cancelled(t)
  /\ LET k == task[t].kind
         f == Head(task[t].left)
     IN  \/ PartOf(k, f) = "empty" /\ SetPart(k, f, "cut") /\ UNCHANGED task
         \/ ReadError(t, k, f)
         \/ PartOf(k, f) = "cut" /\ Rename(k, f, "whole") /\ NextFile(t)
         \/ PartOf(k, f) # "cut" /\ Discard(k, f) /\ Result(t, "error")
  /\ UNCHANGED <<adapter, registry, cancel, staging, final>>

\* unpack_tar_bz2_strip_top and the checks after it: whatever goes wrong, the
\* archive and what was unpacked are removed.
Unpack(t) ==
  /\ task[t].at = "unpacking"
  /\ LET k == task[t].kind
     IN  \/ /\ \E r \in {"cancelled", "error"} :
                 (r = "cancelled" => t \in cancel) /\ Result(t, r)
            /\ staging' = [staging EXCEPT ![k] = "none"]
            /\ file' = [file EXCEPT ![k] = Empty[k]]
         \/ /\ file[k]["one"] = "whole"
            /\ staging' = [staging EXCEPT ![k] = "whole"]
            /\ Go(t, "installing") /\ UNCHANGED file
  /\ UNCHANGED <<adapter, registry, cancel, part, final>>

\* The last renaming, which installs the model.  It fails if what is to be renamed
\* was removed.
Install(t) ==
  /\ task[t].at = "installing"
  /\ LET k   == task[t].kind
         new == IF k = "archive" THEN staging[k] ELSE file[k]["one"]
     IN  IF new = "none" THEN Result(t, "error") /\ UNCHANGED <<file, staging, final>>
         ELSE /\ final' = [final EXCEPT ![k] = new]
              /\ staging' = [staging EXCEPT ![k] = "none"]
              /\ file' = [file EXCEPT ![k] = Empty[k]]
              /\ Result(t, "done")
  /\ UNCHANGED <<adapter, registry, cancel, part>>

\* The server removes the entry in any case.  The desktop application does it in a
\* map over the result, so not after an error, and never for "punct".
RemovesEntry(t) ==
  adapter = "server" \/ (task[t].kind # "punct" /\ task[t].result # "error")

\* The result was reported as an event; the thread ends.
Deregister(t) ==
  /\ task[t].at = "ended" /\ Go(t, "gone")
  /\ registry' = IF RemovesEntry(t) THEN [registry EXCEPT ![task[t].kind] = Unset]
                 ELSE registry
  /\ UNCHANGED <<adapter, cancel, disk>>
--------------------------------------------------------------------------------
\* The process is killed and started again: only the disk is as it was.
Restart ==
  /\ \E t \in Tasks : task[t].at \notin {"unused", "gone"}
  /\ registry' = [k \in Kinds |-> Unset] /\ cancel' = {}
  /\ task' = [t \in Tasks |-> IF task[t] = NoTask THEN NoTask ELSE [task[t] EXCEPT !.at = "gone"]]
  /\ UNCHANGED <<adapter, disk>>

\* What a thread does by itself, apart from what it is sent.
OwnStep(t) ==
  \/ Begin(t) \/ PassOver(t) \/ AllThere(t) \/ OpenFile(t) \/ StopReading(t)
  \/ Unpack(t) \/ Install(t) \/ Deregister(t)

Next ==
  \/ \E k \in Kinds : Cancel(k) \/ Remove(k) \/ (\E t \in Tasks : Request(k, t))
  \/ \E t \in Tasks : OwnStep(t) \/ ReadMore(t)
  \/ Restart

Spec == Init /\ [][Next]_vars

\* A thread goes on, and comes round to look at the flag while it reads (a request
\* has a deadline of 900 s).  Unset is assumed of what it reads: the other side may
\* go on sending, or never answer.
DownloadFairness == \A t \in Tasks : WF_vars(OwnStep(t))

FairSpec == Spec /\ DownloadFairness
--------------------------------------------------------------------------------
Places == {"unused", "started", "picking", "reading", "unpacking", "installing", "ended", "gone"}
Active(t) == task[t].at \notin {"unused", "gone"}

TypeOK ==
  /\ adapter \in Adapters
  /\ registry \in [Kinds -> Tasks \cup {Unset}] /\ cancel \subseteq Tasks
  /\ \A t \in Tasks :
       /\ task[t].kind \in Kinds \cup {Unset} /\ task[t].at \in Places
       /\ task[t].at = "reading" => task[t].left # <<>>
       /\ task[t].result \in {"done", "cancelled", "error", Unset}
  /\ \A k \in Kinds : /\ part[k] \in [FilesOf(k) -> Contents]
                      /\ file[k] \in [FilesOf(k) -> Contents]
  /\ staging \in [Kinds -> Contents] /\ final \in [Kinds -> Contents]

\* What counts as installed is whole, whatever failed, was cancelled or killed
\* before, and however the model was removed in the meantime; but for the
\* punctuation model, whose file is taken for complete after a download that ended
\* in an error or with the process.
Interrupted(k) == \E t \in Tasks : /\ task[t].kind = k /\ task[t].at \in {"ended", "gone"}
                                  /\ task[t].result \in {"error", Unset}

InstalledIsWhole ==
  \A k \in Kinds : Installed(k) =>
    IF k = "files" THEN \A f \in FilesOf(k) : file[k][f] = "whole"
    ELSE final[k] = "whole" \/ (k = "punct" /\ Interrupted(k))

\* No two threads work on the same files, and the registry knows every thread
\* there is: a running download can be cancelled.  A model without one can be
\* downloaded, but on the desktop, for the punctuation model and after an error.
RegistryIsExact ==
  /\ \A t \in Tasks : Active(t) => registry[task[t].kind] = t
  /\ \A k \in Kinds : registry[k] # Unset =>
       /\ task[registry[k]].kind = k
       /\ \/ Active(registry[k])
          \/ adapter = "desktop" /\ (k = "punct" \/ task[registry[k]].result = "error")

\* A cancelled download cleans up after itself (models.rs:317): the .part of the
\* file it was at is gone, or the archive it unpacked and what it had unpacked, even
\* if the model was removed or the process was killed halfway before.
CancelledIsClean ==
  \A t \in Tasks : task[t].at = "ended" /\ task[t].result = "cancelled" =>
    LET k == task[t].kind
    IN  IF task[t].left # <<>> THEN part[k][Head(task[t].left)] = "none"
        ELSE staging[k] = "none" /\ file[k] = Empty[k]

\* The files and the registry of downloads tell the truth, whatever failed, was
\* cancelled, removed or killed (models.rs:317-380, server lib.rs:355).
DownloadsAreSound == TypeOK /\ InstalledIsWhole /\ RegistryIsExact /\ CancelledIsClean

\* A download that is cancelled comes to its end, even if the other side keeps
\* sending.
CancelStops == \A t \in Tasks : (t \in cancel) ~> ~Active(t)
================================================================================
