-------------------------------- MODULE Finals ---------------------------------
(***************************************************************************)
(* What becomes of a finished segment: finish_speech in                    *)
(* crates/talksage-pipeline/src/lib.rs, with the speaker registry          *)
(* (speaker.rs, speaker_assignment.rs) and the two filters of              *)
(* crates/talksage-plugins/src (short_segment.rs, cross_stream_dedup.rs).  *)
(*                                                                         *)
(* The streams of a session are polled by one thread and share the         *)
(* registry and the filters.  A segment ends with a text, which the        *)
(* punctuation may split into parts, and each part is a final: filtered,   *)
(* shown, and, if it is the last, handed to the observers.  The voice is   *)
(* looked up before the filters and remembered after them.                 *)
(*                                                                         *)
(* A voice is a point on a line: voices no further than Near from a centre *)
(* are those whose similarity reaches the threshold of the grey zone.      *)
(***************************************************************************)
EXTENDS Integers, FiniteSets, SequencesExt

CONSTANTS
  User, Client,         \* the streams: speaker_id 0, and the loopback
  Voices,               \* what a segment's audio may sound like
  OwnerVoice,           \* the owner's voice, if one is enrolled
  Near,                 \* the distance of the grey zone, threshold - 0.08
  MaxClients,           \* MAX_CLIENT_SPEAKERS
  Texts, Long,          \* texts, and those of four characters or more
  Alike,                \* the pairs {t, u} of texts of similarity 0.9
  Speeches,             \* bound: what segments say, as restore_and_split splits it
  MinLength,            \* min_ms of short_segment
  EchoWindow,           \* three seconds
  HistoryCap,           \* HISTORY_CAP
  DuplicateWindow,      \* five seconds
  Lag,                  \* how far a stream may be behind the other, by its queue
  MaxTime, MaxSegments, \* bounds: the clock, the segments of both streams
  None

Streams == {User, Client}
Parts   == [text : Texts, length : Nat]

ASSUME FinalsAssumption ==
  /\ User # Client
  /\ Voices \subseteq Int /\ None \notin Int /\ OwnerVoice \in Voices
  /\ Near \in Nat /\ MaxClients \in Nat /\ MinLength \in Nat
  /\ Long \subseteq Texts /\ Alike \subseteq SUBSET Texts /\ Speeches \subseteq Seq(Parts)
  /\ EchoWindow \in Nat /\ HistoryCap \in Nat \ {0} /\ Lag \in Nat
  /\ DuplicateWindow \in Nat
  /\ MaxTime \in Nat /\ MaxSegments \in Nat

VARIABLES
  setup,                \* the session: its streams, whether speakers are told apart, and
                        \*   whether an owner was enrolled
  segments,             \* how many segments have ended
  clock,                \* when each stream's last segment ended, by its AudioClock
  nextId,               \* Inner.next_client_id
  candidates,           \* Inner.candidates: number -> voice
  clients,              \* Inner.prototypes, without the owner's: number -> centre
  history,              \* CrossStreamDedupFilter.recent
  echoes,               \* the finals that filter dropped
  shown,                \* the finals emitted
  dispatched            \* the finals on_final was called with

registryVars == <<nextId, candidates, clients>>
finalsVars == <<setup, segments, clock, registryVars, history, echoes, shown, dispatched>>

Setups == [streams : {{User}, Streams}, identifier : BOOLEAN, owner : BOOLEAN]

FinalsInit ==
  /\ setup \in Setups
  /\ segments = 0 /\ clock = [s \in Streams |-> 0]
  /\ nextId = 1 /\ candidates = <<>> /\ clients = <<>>
  /\ history = <<>> /\ echoes = {} /\ shown = <<>> /\ dispatched = <<>>
--------------------------------------------------------------------------------
(* The speaker.                                                            *)
Distance(a, b) == IF a > b THEN a - b ELSE b - a

\* The numbers whose centre is the nearest to the voice, if it is near; max_by
\* over a HashMap takes any of those that tie.
Nearest(centres, voice) ==
  {n \in DOMAIN centres :
     /\ Distance(centres[n], voice) <= Near
     /\ \A m \in DOMAIN centres : Distance(centres[n], voice) <= Distance(centres[m], voice)}

\* Where a centre may move, the mean of what it was and what was heard.
Between(a, b) == {v \in Voices : (a <= v /\ v <= b) \/ (b <= v /\ v <= a)}

Query(decision, number, centre) == [decision |-> decision, number |-> number, centre |-> centre]

\* Without the identifier, or with too little audio.
Fallback == Query("fallback", 0, None)

\* The stream whose speakers are told apart: that of the others, and the
\* microphone's only if it is alone.
Classified == IF ~setup.identifier THEN {} ELSE IF Client \in setup.streams THEN {Client} ELSE {User}

IsOwner(s, voice) == s = User /\ setup.owner /\ voice = OwnerVoice

\* query_for_role: the possible results.
Queries(s, voice) ==
  CASE voice = None -> {Fallback}
    [] voice # None /\ IsOwner(s, voice) -> {Query("owner", 0, None)}
    [] OTHER ->
         LET known   == Nearest(clients, voice)
             pending == Nearest(candidates, voice)
         IN  CASE known # {} ->
                    UNION {{Query("existing", n, c) : c \in Between(clients[n], voice)}
                           : n \in known}
               [] known = {} /\ pending # {} ->
                    {Query("confirmed", n, voice) : n \in pending}
               [] known = {} /\ pending = {} /\ nextId > MaxClients ->
                    {Query("limit", 0, None)}
               [] OTHER -> {Query("started", nextId, voice)}

\* The channel's label (of a session that names its speakers), but at a microphone
\* shared by several nobody is the owner unless one is enrolled.
FallbackLabel(s) ==
  CASE s = Client -> "other"
    [] s = User /\ s \in Classified /\ ~setup.owner -> "speaker"
    [] OTHER -> "me"

\* SpeakerAssignment::resolve: the label, and the voice if it is certain whose.
Label(s, q) ==
  CASE q.decision = "owner" -> "me"
    [] q.decision \in {"existing", "confirmed"} -> "client"
    [] OTHER -> FallbackLabel(s)

\* Number 0 stands for the identity "owner".
VoiceOf(q) == IF q.decision \in {"owner", "existing", "confirmed"} THEN q.number ELSE None

Put(f, n, v) == [m \in DOMAIN f \cup {n} |-> IF m = n THEN v ELSE f[m]]

AddCandidate(n, voice) == Put(candidates, n, voice)

\* SpeakerIdentifier::commit.
Commit(q) ==
  CASE q.decision = "started" ->
         /\ candidates' = AddCandidate(q.number, q.centre)
         /\ nextId' = q.number + 1
         /\ UNCHANGED clients
    [] q.decision = "confirmed" ->
         /\ clients' = Put(clients, q.number, q.centre)
         /\ candidates' = [m \in DOMAIN candidates \ {q.number} |-> candidates[m]]
         /\ UNCHANGED nextId
    [] q.decision = "existing" ->
         /\ clients' = [clients EXCEPT ![q.number] = q.centre]
         /\ UNCHANGED <<nextId, candidates>>
    [] OTHER -> UNCHANGED <<nextId, candidates, clients>>
--------------------------------------------------------------------------------
(* The filters.  An account is what they and finish_speech leave behind.   *)
AccountNow == [history |-> history, echoes |-> echoes, shown |-> shown, dispatched |-> dispatched]

\* is_echo_duplicate, with the filter's saturating difference of the times.
SameWords(t, u) == {t, u} \subseteq Long /\ (t = u \/ {t, u} \in Alike)
Gap(later, earlier) == IF later > earlier THEN later - earlier ELSE 0

IsEcho(account, final) ==
  \E i \in 1..Len(account.history) :
    LET said == account.history[i]
    IN  /\ said.stream # final.stream
        /\ Gap(final.ts, said.ts) <= EchoWindow
        /\ SameWords(said.text, final.text)

Remember(past, final) ==
  LET all == Append(past, final) IN IF Len(all) > HistoryCap THEN Tail(all) ELSE all

TooShort(part) == MinLength > 0 /\ part.length < MinLength

\* What cross_stream_dedup makes of the account; it is the last of the filters.
Dedup(account, final) ==
  IF IsEcho(account, final) THEN [account EXCEPT !.echoes = @ \cup {final}]
  ELSE [account EXCEPT !.history = Remember(@, final)]

Passes(account, final, part) == ~TooShort(part) /\ ~IsEcho(account, final)

\* Mutant: the filters in the other order.
DedupFirst(account, final, part) == Dedup(account, final)

\* apply_filters: what it leaves in the filters.
Filter(account, final, part) == IF TooShort(part) THEN account ELSE Dedup(account, final)

\* Mutant: the observers are called for the last part, dropped or not.
DispatchAnyway(i, last, passes) == i = last

Dispatch(i, last, passes) == passes /\ i = last

\* The account after the i-th part of the speech has been through the filters.
Handle(account, speech, i, final) ==
  LET passes   == Passes(account, final, speech[i])
      filtered == Filter(account, final, speech[i])
  IN  [filtered EXCEPT
         !.shown = IF passes THEN Append(@, final) ELSE @,
         !.dispatched = IF Dispatch(i, Len(speech), passes) THEN Append(@, final) ELSE @]
--------------------------------------------------------------------------------
\* How long the first i parts of a speech are together, for each i.
Elapsed(speech) ==
  LET sum[i \in 0..Len(speech)] == IF i = 0 THEN 0 ELSE sum[i - 1] + speech[i].length
  IN  sum

LengthOf(speech) == Elapsed(speech)[Len(speech)]

\* The i-th part as a final of a segment that ended at end: its time is counted
\* from the segment's start.
FinalOf(s, speech, i, end, voice, q) ==
  [segment |-> segments + 1, stream |-> s, text |-> speech[i].text,
   ts |-> end - LengthOf(speech) + Elapsed(speech)[i],
   voice |-> voice, decision |-> q.decision, number |-> q.number,
   label |-> Label(s, q), identity |-> VoiceOf(q)]

\* The account after all the parts.
AfterSpeech(s, speech, end, voice, q) ==
  LET account[i \in 0..Len(speech)] ==
        IF i = 0 THEN AccountNow
        ELSE Handle(account[i - 1], speech, i, FinalOf(s, speech, i, end, voice, q))
  IN  account[Len(speech)]

\* Mutant: the voice is remembered whatever the filters say.
RememberAlways(before, after) == TRUE

\* a.commit() runs with the first part that passes.
SpeakerIsCommitted(before, after) == Len(after.shown) > Len(before.shown)

\* finish_speech.  A segment starts after the stream's last one ended, and the
\* streams' clocks differ by what waits in their queues at most.
Finish(s) ==
  \E speech \in Speeches, end \in 1..MaxTime, voice \in Voices \cup {None} :
    /\ segments < MaxSegments /\ s \in setup.streams
    /\ end - LengthOf(speech) >= clock[s] /\ end > clock[s]
    /\ \A other \in Streams : end + Lag >= clock[other]
    /\ s \notin Classified => voice = None
    /\ segments' = segments + 1 /\ UNCHANGED setup
    /\ clock' = [clock EXCEPT ![s] = end]
    /\ \E q \in Queries(s, voice) :
         LET after == AfterSpeech(s, speech, end, voice, q)
         IN  /\ history' = after.history /\ echoes' = after.echoes
             /\ shown' = after.shown /\ dispatched' = after.dispatched
             /\ IF SpeakerIsCommitted(AccountNow, after) THEN Commit(q)
                ELSE UNCHANGED registryVars

FinalsNext == \E s \in Streams : Finish(s)

FinalsSpec == FinalsInit /\ [][FinalsNext]_finalsVars
--------------------------------------------------------------------------------
Finals == [segment : 1..MaxSegments, stream : Streams, text : Texts, ts : 0..MaxTime,
           voice : Voices \cup {None},
           decision : {"fallback", "owner", "existing", "confirmed", "limit", "started"},
           number : 0..MaxClients, label : {"me", "speaker", "other", "client"},
           identity : 0..MaxClients \cup {None}]

\* The state is bounded: the history by HISTORY_CAP, the numbers of clients by
\* MAX_CLIENT_SPEAKERS, and a number is a candidate's or a client's.
TypeOK ==
  /\ setup \in Setups
  /\ segments \in 0..MaxSegments /\ clock \in [Streams -> 0..MaxTime]
  /\ nextId \in 1..(MaxClients + 1)
  /\ DOMAIN candidates \cup DOMAIN clients = 1..(nextId - 1)
  /\ DOMAIN candidates \cap DOMAIN clients = {}
  /\ \A n \in DOMAIN candidates : candidates[n] \in Voices
  /\ \A n \in DOMAIN clients : clients[n] \in Voices
  /\ history \in Seq(Finals) /\ Len(history) <= HistoryCap
  /\ echoes \subseteq Finals /\ shown \in Seq(Finals) /\ dispatched \in Seq(Finals)

\* What is dropped as an echo has been shown, in the other stream's words, no more
\* than three seconds earlier: the two filters together never drop both copies of
\* a sentence, nor a sentence for one that was itself dropped
\* (cross_stream_dedup.rs:1-2, builtin.rs:44).
EchoKeepsOne ==
  \A e \in echoes : \E i \in 1..Len(shown) :
    /\ shown[i].stream # e.stream /\ SameWords(shown[i].text, e.text)
    /\ e.ts - shown[i].ts <= EchoWindow /\ shown[i].segment < e.segment

\* A sentence that both streams hear is not shown twice, if no more than HISTORY_CAP
\* finals came between.
EchoIsShownOnce ==
  \A j \in 1..Len(shown) : \A i \in 1..(j - 1) :
    /\ j - i <= HistoryCap
    /\ shown[i].stream # shown[j].stream /\ SameWords(shown[i].text, shown[j].text)
    => Gap(shown[j].ts, shown[i].ts) > EchoWindow

\* Who the registry knows was heard in a final that was shown: a candidate sounds
\* as the final that started it, a client was confirmed by another, and a label
\* with a number is a client's.  A segment that a filter drops leaves no trace
\* (architecture-v2.md:561, testing.md:49).
KnownWereShown ==
  LET ShownAs(decision, n) == {i \in 1..Len(shown) : shown[i].decision = decision
                                                      /\ shown[i].number = n}
  IN  /\ \A n \in DOMAIN candidates : \E i \in ShownAs("started", n) :
            shown[i].voice = candidates[n]
      /\ \A n \in DOMAIN clients : \E i \in ShownAs("started", n), j \in ShownAs("confirmed", n) :
            i < j /\ Distance(shown[i].voice, shown[j].voice) <= Near
      /\ \A i \in 1..Len(shown) : shown[i].label = "client" => shown[i].number \in DOMAIN clients

\* Speakers who alternate do not forget each other: the first voice like a
\* candidate's that is shown after it is given a name, whatever was heard between
\* (architecture-v2.md:562, testing.md:52).
AlternatingVoicesAreTold ==
  \A j \in 1..Len(shown) : \A i \in 1..(j - 1) :
    LET Like(k) == shown[k].voice # None /\ Distance(shown[k].voice, shown[i].voice) <= Near
                     /\ shown[k].segment > shown[i].segment
    IN  /\ shown[i].decision = "started" /\ Like(j)
        /\ \A k \in (i + 1)..(j - 1) : Like(k) => shown[k].segment = shown[j].segment
        => shown[j].decision \in {"owner", "existing", "confirmed"}

\* What a final says of who spoke.  Where several share the microphone, "me" is what
\* the owner is called, who is enrolled then, and whoever has no name yet, but nobody
\* who has a number; and nobody is called so by the loopback.  An identity is the
\* owner's, whose voice it was, or a client's, whose number an earlier final was
\* started with; a voice heard once, or not well, has none, though it may be
\* called "me" (speaker_assignment.rs:9-17, 46-53; speaker.rs:308-338).
NamesAreEarned ==
  \A i \in 1..Len(shown) :
    LET f == shown[i]
    IN  /\ f.label = "me" /\ f.stream \in Classified => setup.owner /\ f.identity \in {0, None}
        /\ f.stream = Client => f.label # "me"
        /\ f.identity = 0 => f.voice = OwnerVoice /\ setup.owner
        /\ f.identity \in 1..MaxClients =>
             \E k \in 1..(i - 1) : shown[k].number = f.identity /\ shown[k].identity = None

\* find_duplicate_segments, over what was shown in the order it is stored: for each
\* final the later ones of its stream, up to the first that is too late.
Similar(t, u) == t = u \/ {t, u} \in Alike

Duplicates(finals) ==
  {p \in (DOMAIN finals) \X (DOMAIN finals) :
     LET Late(k) == Gap(finals[k].ts, finals[p[1]].ts) > DuplicateWindow
     IN  /\ p[1] < p[2] /\ finals[p[1]].stream = finals[p[2]].stream
         /\ ~\E k \in (p[1] + 1)..p[2] : finals[k].stream = finals[p[1]].stream /\ Late(k)
         /\ Similar(finals[p[1]].text, finals[p[2]].text)}

\* Giving up at the first that is too late misses no pair (session lib.rs:111).
DuplicatesAreFound ==
  Duplicates(shown) =
    {p \in (DOMAIN shown) \X (DOMAIN shown) :
       /\ p[1] < p[2] /\ shown[p[1]].stream = shown[p[2]].stream
       /\ Gap(shown[p[2]].ts, shown[p[1]].ts) <= DuplicateWindow
       /\ Similar(shown[p[1]].text, shown[p[2]].text)}

\* The observers are called in the order of what is shown, once for a segment at
\* most and with its last final, never with one that a filter dropped
\* (tests/pipeline_live.rs:353-359).
ObserversSeeWhatIsShown ==
  /\ \A i \in 1..Len(dispatched) : \E k \in 1..Len(shown) :
       /\ shown[k] = dispatched[i]
       /\ \A m \in (k + 1)..Len(shown) : shown[m].segment > shown[k].segment
  /\ \A i \in 1..Len(dispatched) : \A k \in 1..(i - 1) :
       dispatched[k].segment < dispatched[i].segment

\* The two streams together: a sentence that both hear is shown, and once.
EchoesAreDropped == TypeOK /\ EchoKeepsOne /\ EchoIsShownOnce /\ DuplicatesAreFound

\* Who is known was heard, who was heard twice is known, and who has a name has
\* earned it.
SpeakersAreKnown == KnownWereShown /\ AlternatingVoicesAreTold /\ NamesAreEarned
================================================================================
