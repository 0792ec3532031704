-------------------------------- MODULE MCJobs --------------------------------
(***************************************************************************)
(* The work beside a session, each kind by itself: a behaviour is one of   *)
(* the observers of a live session, of the report on a session that has    *)
(* ended, of the transcription of uploaded files, of the downloads of      *)
(* models, or it looks at one tape whose silence is cut out.               *)
(***************************************************************************)
EXTENDS Observers, SessionReport, FileTranscription, SilenceTrim, ModelDownloads

CONSTANT MaxBlocks      \* of a tape

VARIABLE
  about                 \* the part that the behaviour is of

allVars == <<about, tape, liveVars, reportVars, fileVars, vars>>

Tapes == {[speech |-> s, samples |-> n] :
            s \in UNION {[1..b -> BOOLEAN] : b \in 0..MaxBlocks}, n \in 0..MaxBlocks * Block}
Whole == {t \in Tapes : IsTape(t)}
Blank == [speech |-> <<>>, samples |-> 0]

TheSession == CHOOSE s \in Sessions : TRUE

MCInit ==
  /\ about \in {"live", "report", "files", "downloads", "tape"}
  /\ LiveInit /\ ReportInit /\ FileInit /\ Init
  /\ about # "live" => session = TheSession
  /\ about # "report" => measured /\ hooks = CHOOSE h \in Settings : TRUE
  /\ about # "report" => chain = Finalizers
  /\ about # "downloads" => adapter = CHOOSE a \in Adapters : TRUE
  /\ IF about = "tape" THEN tape \in Whole ELSE tape = Blank

MCNext ==
  \/ about = "live" /\ LiveNext /\ UNCHANGED <<about, tape, reportVars, fileVars, vars>>
  \/ about = "report" /\ ReportNext /\ UNCHANGED <<about, tape, liveVars, fileVars, vars>>
  \/ about = "files" /\ FileNext /\ UNCHANGED <<about, tape, liveVars, reportVars, vars>>
  \/ about = "downloads" /\ Next /\ UNCHANGED <<about, tape, liveVars, reportVars, fileVars>>

\* Nobody downloads where no download was asked for; but requests are there from the
\* start, and served in the behaviours that are of them.
MCSpec ==
  /\ MCInit /\ [][MCNext]_allVars
  /\ \A r \in Requests : WF_allVars(about = "files" /\ Serve(r) /\ MCNext)
  /\ DownloadFairness
--------------------------------------------------------------------------------
\* What the speakers say.
Clause(says, cues, length) == [says |-> says, clipped |-> says, cues |-> cues, length |-> length]
Says(me, lag, duration) ==
  [me |-> me, lag |-> lag, duration |-> duration, words |-> 2, asks |-> FALSE, noisy |-> FALSE,
   length |-> 9, clauses |-> <<>>, terms |-> {}, matches |-> FALSE]

Talk == {[Says(me, lag, d) EXCEPT !.asks = me, !.words = IF d = 1 THEN 6 ELSE 1] :
           me \in BOOLEAN, lag \in 0..2, d \in 1..2}
Long(w) == Clause(w, {"question", "action"}, 9)
Cut(w, clipped) == [Clause(w, {"decision"}, 21) EXCEPT !.clipped = clipped]
Short(w) == Clause(w, {"question"}, 2)
Act9(w) == Clause(w, {"person", "delivery"}, 6)
Remarks == {[Says(FALSE, 0, 0) EXCEPT !.clauses = c] : c \in {<<Long("a")>>, <<Short("a"), Act9("b"), Long("a")>>, <<Long("c"), Long("c"), Cut("c and more", "c"), Long("d")>>}}
  \cup {[Says(TRUE, 0, 0) EXCEPT !.clauses = <<Long("a")>>, !.noisy = TRUE]}
Jargon == {[Says(FALSE, 0, 0) EXCEPT !.terms = t] : t \in {{"NPI"}, {"NPI", "MOQ"}}}
Matter == {[Says(me, lag, 0) EXCEPT !.matches = TRUE] : me \in BOOLEAN, lag \in {0, 1}}
          \cup {Says(FALSE, 0, 0)}

MCSessions ==
  { [on |-> {"metrics"}, advise |-> TRUE, most |-> 3, time |-> 4, says |-> Talk],
    [on |-> {"points"}, advise |-> FALSE, most |-> 4, time |-> 3, says |-> Remarks],
    [on |-> {"terms"}, advise |-> FALSE, most |-> 3, time |-> 2, says |-> Jargon],
    [on |-> {"briefs"}, advise |-> FALSE, most |-> 3, time |-> 3, says |-> Matter],
    [on |-> {"translator"}, advise |-> FALSE, most |-> 2, time |-> 1,
     says |-> {Says(me, 0, 0) : me \in BOOLEAN}] }
MCWrapUp == {<<5, 6>>}
MCTranslation == [mode |-> "bidirectional", mine |-> "zh", theirs |-> "en"]

MCSettings == {[on |-> TRUE, urls |-> <<"a", "lan", "b">>], [on |-> TRUE, urls |-> <<"b">>],
               [on |-> FALSE, urls |-> <<"a">>]}
================================================================================
