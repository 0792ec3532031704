------------------------ MODULE SessionLifecycleProofs ------------------------
(***************************************************************************)
(* For any number of streams and segments and any capacity of the channel: *)
(* a session's record has no holes, is whole if its pipeline ended in      *)
(* time, and is the record that SessionRecord promises.                    *)
(*                                                                         *)
(* The argument: the channel is a queue, so that what is stored and what   *)
(* is still in it is, in this order, what the session has handed over; the *)
(* request to stop comes last if the pipeline had ended before it, and the *)
(* thread in finish waits for the writer before it ends the session.       *)
(***************************************************************************)
EXTENDS SessionLifecycle, SequenceTheorems, TLAPS

\* Who is where: the thread in finish, the writer, the finalizers.
CallerInv ==
  /\ process # "up" => /\ pipeline = "ended" /\ writer = "exited" /\ caller = "failed"
                       /\ joined = FALSE /\ quality = "off" /\ webhook = "off"
  /\ writer # "running" => queue = <<>>
  /\ caller \in {"listening", "joining", "closingWriter"} =>
       /\ writer # "exited" /\ \A i \in 1..Len(queue) : queue[i] # Shutdown
  /\ caller \in {"listening", "joining"} => joined = FALSE
  /\ joined = TRUE => pipeline = "ended"
  /\ Finalizing \/ caller = "ending" => writer = "exited"
  /\ ended = TRUE => Finalizing \/ process # "up"
  /\ Finalizing => ended = TRUE
  /\ quality = "running" => caller \in {"awaitingQuality", "webhook", "done"}
  /\ caller \in {"listening", "joining", "closingWriter", "joiningWriter", "ending", "quality"}
       => quality = "off"
  /\ webhook # "off" => caller = "done"
  /\ process = "up" /\ quality # "ended" => report = None
  /\ process = "up" /\ webhook # "sent" => payload = None

\* The pipeline's own state.
PipelineInv ==
  /\ pipeline = "loading" => workers = <<>>
  /\ process = "up" => \A s \in StreamSet :
       recording[s] # "none" => \E i \in 1..Len(workers) : workers[i] = s
  /\ pipeline = "stats" =>
       /\ Len(todo) <= Len(workers)
       /\ \A i \in 1..Len(todo) : todo[i] = workers[(Len(workers) - Len(todo)) + i]
  /\ \A n \in Segments : fate[n] # "unsubmitted" => n <= committed
  /\ (\E s \in StreamSet : Stats(s) \in handed) => pipeline \in {"stats", "ended"}

StoredSet == RowsWritten \cup refusedRows

\* With S stored and q in the channel: segment n is stored, or comes before
\* position i; so do the first k segments; and each command in the channel
\* comes after the segments it has to come after.
Covered(S, q, i, n) == Segment(n) \in S \/ \E j \in 1..(i - 1) : q[j] = Segment(n)

CoveredUpTo(S, q, i, k) == \A n \in 1..k : Covered(S, q, i, n)

Ordered(S, q) ==
  \A i \in 1..Len(q), m \in Segments :
    /\ q[i] = Segment(m) => CoveredUpTo(S, q, i, m - 1)
    /\ q[i] = Result(m) => CoveredUpTo(S, q, i, m)

OrderInv ==
  /\ Ordered(StoredSet, queue)
  /\ joined = TRUE => \A i \in 1..Len(queue) :
       queue[i] = Shutdown => CoveredUpTo(StoredSet, queue, i, committed)
  /\ writer = "running" => CoveredUpTo(StoredSet, queue, Len(queue) + 1, committed)
  /\ writer = "exited" /\ joined = TRUE => CoveredUpTo(StoredSet, <<>>, 1, committed)

\* The number of streams whose statistics were sent, as the pipeline has it.
SentStats ==
  IF pipeline = "stats" THEN Len(workers) - Len(todo)
  ELSE IF pipeline = "ended" THEN Len(workers) ELSE 0

\* f[i]: how many statistics have been sent up to position i of the channel q,
\* of which h are collected; they are those of the streams w, in that order, s
\* of them in all, and all of them before a request to stop if whole.
Ranks(f, q, w, h, s, whole) ==
  /\ f \in [0..Len(q) -> Nat]
  /\ f[0] = h /\ f[Len(q)] = s
  /\ \A i \in 1..Len(q) :
       /\ q[i].type = "stats" => f[i] = f[i - 1] + 1 /\ f[i] <= Len(w) /\ q[i].of = w[f[i]]
       /\ q[i].type # "stats" => f[i] = f[i - 1]
       /\ whole = TRUE /\ q[i] = Shutdown => f[i] = Len(w)

StatsInv ==
  /\ Len(hostStats) <= Len(workers)
  /\ \A i \in 1..Len(hostStats) : hostStats[i] = workers[i]
  /\ writer = "running" => \E f : Ranks(f, queue, workers, Len(hostStats), SentStats, joined)
  /\ writer = "exited" /\ joined = TRUE => hostStats = workers

IInv == TypeOK /\ CallerInv /\ PipelineInv /\ OrderInv /\ NoHoles /\ StatsInv /\ MasterIsWhole

USE DEF pipelineVars, pluginVars, channelVars, callerVars, finalVars, storeVars
--------------------------------------------------------------------------------
LEMMA Kinds ==
  /\ \A n \in Segments : /\ Segment(n) \in Commands /\ Segment(n).type = "segment"
                         /\ Result(n) \in Commands /\ Result(n).type = "result"
                         /\ Segment(n).of = n /\ Result(n).of = n
  /\ \A s \in StreamSet : /\ Stats(s) \in Commands /\ Stats(s).type = "stats"
                          /\ Stats(s).of = s
  /\ Shutdown \in Commands /\ Shutdown.type = "shutdown"
  /\ \A c \in Commands :
       /\ c.type = "stats" => c.of \in StreamSet
       /\ c.type \in {"segment", "result", "stats"} \/ c = Shutdown
       /\ c.type \in {"segment", "result"} => c \in RowSet
<1>1. \A n \in Segments : /\ Segment(n) \in Commands /\ Segment(n).type = "segment"
                          /\ Result(n) \in Commands /\ Result(n).type = "result"
                          /\ Segment(n).of = n /\ Result(n).of = n
  BY DEF Commands, Segment, Result
<1>2. \A s \in StreamSet : /\ Stats(s) \in Commands /\ Stats(s).type = "stats"
                           /\ Stats(s).of = s
  BY DEF Commands, Stats
<1>3. Shutdown \in Commands /\ Shutdown.type = "shutdown"
  BY DEF Commands, Shutdown
<1>4. ASSUME NEW c \in Commands
      PROVE  /\ c.type = "stats" => c.of \in StreamSet
             /\ c.type \in {"segment", "result", "stats"} \/ c = Shutdown
             /\ c.type \in {"segment", "result"} => c \in RowSet
  <2>1. CASE \E n \in Segments : c = Segment(n) \/ c = Result(n)
    BY <1>1, <2>1 DEF RowSet
  <2>2. CASE \E s \in StreamSet : c = Stats(s)
    BY <1>2, <2>2
  <2>3. CASE c = Shutdown
    BY <1>3, <2>3
  <2> QED BY <2>1, <2>2, <2>3 DEF Commands
<1> QED BY <1>1, <1>2, <1>3, <1>4

\* What a row more makes of the table.
LEMMA AppendedRow ==
  ASSUME TypeOK, NEW c \in RowSet, rows' = Append(rows, c)
  PROVE  rows' \in Seq(RowSet) /\ RowsWritten' = RowsWritten \cup {c}
<1>1. /\ rows \in Seq(RowSet) /\ rows' \in Seq(RowSet) /\ Len(rows') = Len(rows) + 1
      /\ \A i \in 1..Len(rows) : rows'[i] = rows[i]
      /\ rows'[Len(rows) + 1] = c /\ Len(rows) \in Nat
  BY AppendProperties DEF TypeOK
<1>2. RowsWritten' \subseteq RowsWritten \cup {c}
  BY <1>1 DEF RowsWritten
<1>3. RowsWritten \cup {c} \subseteq RowsWritten'
  <2>1. ASSUME NEW i \in 1..Len(rows) PROVE rows[i] \in RowsWritten'
    BY <1>1, <2>1 DEF RowsWritten
  <2>2. c \in RowsWritten'
    BY <1>1 DEF RowsWritten
  <2> QED BY <2>1, <2>2 DEF RowsWritten
<1> QED BY <1>1, <1>2, <1>3
--------------------------------------------------------------------------------
(* The channel takes a command: what was covered still is, and the command   *)
(* comes after all that was sent before it.                                  *)
LEMMA CoveredAppend ==
  ASSUME NEW S, NEW q \in Seq(Commands), NEW c \in Commands, NEW k \in Nat,
         NEW i \in 1..Len(q) + 1, CoveredUpTo(S, q, i, k)
  PROVE  CoveredUpTo(S, Append(q, c), i, k)
<1> DEFINE r == Append(q, c)
<1>1. Len(q) \in Nat /\ \A j \in 1..Len(q) : r[j] = q[j]
  BY AppendProperties
<1> HIDE DEF r
<1>2. \A j \in 1..(i - 1) : r[j] = q[j]
  BY <1>1
<1>3. CoveredUpTo(S, r, i, k)
  BY <1>2 DEF CoveredUpTo, Covered
<1> QED BY <1>3 DEF r

LEMMA OrderedAppend ==
  ASSUME NEW S, NEW q \in Seq(Commands), NEW c \in Commands, NEW k \in Nat,
         Ordered(S, q), CoveredUpTo(S, q, Len(q) + 1, k),
         \A m \in Segments : /\ c = Segment(m) => m - 1 <= k
                             /\ c = Result(m) => m <= k
  PROVE  Ordered(S, Append(q, c))
<1> DEFINE r == Append(q, c)
<1>1. /\ Len(q) \in Nat /\ Len(r) = Len(q) + 1 /\ r[Len(q) + 1] = c
      /\ \A j \in 1..Len(q) : r[j] = q[j]
  BY AppendProperties
<1> SUFFICES ASSUME NEW i \in 1..Len(r), NEW m \in Segments
             PROVE  /\ r[i] = Segment(m) => CoveredUpTo(S, r, i, m - 1)
                    /\ r[i] = Result(m) => CoveredUpTo(S, r, i, m)
  BY DEF Ordered
<1>2. m \in Nat \ {0} /\ m - 1 \in Nat
  BY LifecycleAssumption DEF Segments
<1>3. CASE i \in 1..Len(q)
  <2>1. r[i] = q[i] /\ i \in 1..Len(q) + 1
    BY <1>1, <1>3
  <2>2. /\ q[i] = Segment(m) => CoveredUpTo(S, q, i, m - 1)
        /\ q[i] = Result(m) => CoveredUpTo(S, q, i, m)
    BY <1>3 DEF Ordered
  <2> QED BY <1>2, <2>1, <2>2, CoveredAppend
<1>4. CASE i = Len(q) + 1
  <2>1. r[i] = c
    BY <1>1, <1>4
  <2>2. CoveredUpTo(S, r, i, k)
    BY <1>1, <1>4, CoveredAppend
  <2>3. ASSUME NEW l \in Nat, l <= k PROVE CoveredUpTo(S, r, i, l)
    BY <2>2, <2>3 DEF CoveredUpTo
  <2> QED BY <1>2, <2>1, <2>3
<1> QED BY <1>1, <1>3, <1>4

LEMMA RanksAppend ==
  ASSUME NEW f, NEW q \in Seq(Commands), NEW c \in Commands, NEW w, NEW h, NEW s \in Nat,
         NEW t \in Nat, NEW whole, Ranks(f, q, w, h, s, whole),
         c.type = "stats" => t = s + 1 /\ t <= Len(w) /\ c.of = w[t],
         c.type # "stats" => t = s,
         whole = TRUE /\ c = Shutdown => t = Len(w)
  PROVE  \E g : Ranks(g, Append(q, c), w, h, t, whole)
<1> DEFINE r == Append(q, c)
           n == Len(q)
           g == [i \in 0..n + 1 |-> IF i <= n THEN f[i] ELSE t]
<1>1. /\ n \in Nat /\ Len(r) = n + 1 /\ r[n + 1] = c
      /\ \A j \in 1..n : r[j] = q[j]
  BY AppendProperties
<1>2. f \in [0..n -> Nat] /\ f[0] = h /\ f[n] = s
  BY DEF Ranks
<1>3. /\ g \in [0..n + 1 -> Nat] /\ \A i \in 0..n : g[i] = f[i]
      /\ g[n + 1] = t
  BY <1>1, <1>2
<1> HIDE DEF g, r
<1>4. ASSUME NEW i \in 1..n + 1
      PROVE  /\ r[i].type = "stats" => g[i] = g[i - 1] + 1 /\ g[i] <= Len(w) /\ r[i].of = w[g[i]]
             /\ r[i].type # "stats" => g[i] = g[i - 1]
             /\ whole = TRUE /\ r[i] = Shutdown => g[i] = Len(w)
  <2>1. CASE i \in 1..n
    <3>1. r[i] = q[i] /\ g[i] = f[i] /\ g[i - 1] = f[i - 1]
      BY <1>1, <1>3, <2>1
    <3>2. /\ q[i].type = "stats" => f[i] = f[i - 1] + 1 /\ f[i] <= Len(w) /\ q[i].of = w[f[i]]
          /\ q[i].type # "stats" => f[i] = f[i - 1]
          /\ whole = TRUE /\ q[i] = Shutdown => f[i] = Len(w)
      BY <2>1 DEF Ranks
    <3> QED BY <3>1, <3>2
  <2>2. CASE i = n + 1
    <3>1. r[i] = c /\ g[i] = t /\ g[i - 1] = s
      BY <1>1, <1>2, <1>3, <2>2
    <3> QED BY <3>1
  <2>3. i \in 1..n \/ i = n + 1
    BY <1>1
  <2> QED BY <2>1, <2>2, <2>3
<1>5. g[0] = h /\ g[Len(r)] = t
  BY <1>1, <1>2, <1>3
<1>6. Ranks(g, r, w, h, t, whole)
  BY <1>1, <1>3, <1>4, <1>5 DEF Ranks
<1> QED BY <1>6 DEF r
--------------------------------------------------------------------------------
(* The writer takes the first command, and stores it if it is a row.         *)
LEMMA CoveredTail ==
  ASSUME NEW S, NEW T, S \subseteq T, NEW q \in Seq(Commands), q # <<>>, NEW k \in Nat,
         Head(q).type = "segment" => Head(q) \in T,
         NEW i \in 1..Len(q), CoveredUpTo(S, q, i + 1, k), k <= MaxSegments
  PROVE  CoveredUpTo(T, Tail(q), i, k)
<1> DEFINE r == Tail(q)
<1>1. /\ Len(q) \in Nat \ {0} /\ Head(q) = q[1]
      /\ \A j \in 1..(Len(q) - 1) : r[j] = q[j + 1]
  BY HeadTailProperties, EmptySeq
<1> SUFFICES ASSUME NEW n \in 1..k PROVE Covered(T, r, i, n)
  BY DEF CoveredUpTo
<1>2. n \in Segments
  BY LifecycleAssumption DEF Segments
<1>3. CASE Segment(n) \in S
  BY <1>3 DEF Covered
<1>4. CASE Segment(n) \notin S
  <2>1. PICK j \in 1..i : q[j] = Segment(n)
    BY <1>4 DEF CoveredUpTo, Covered
  <2>2. CASE j = 1
    BY <1>1, <1>2, <2>1, <2>2, Kinds DEF Covered
  <2>3. CASE j # 1
    <3>1. j - 1 \in 1..(i - 1) /\ j - 1 \in 1..(Len(q) - 1) /\ r[j - 1] = q[j]
      BY <1>1, <2>1, <2>3
    <3> QED BY <2>1, <3>1 DEF Covered
  <2> QED BY <2>2, <2>3
<1> QED BY <1>3, <1>4

LEMMA OrderedTail ==
  ASSUME NEW S, NEW T, S \subseteq T, NEW q \in Seq(Commands), q # <<>>,
         Head(q).type = "segment" => Head(q) \in T, Ordered(S, q)
  PROVE  Ordered(T, Tail(q))
<1> DEFINE r == Tail(q)
<1>1. /\ Len(q) \in Nat \ {0} /\ Len(r) = Len(q) - 1
      /\ \A j \in 1..(Len(q) - 1) : r[j] = q[j + 1]
  BY HeadTailProperties, EmptySeq
<1> SUFFICES ASSUME NEW i \in 1..Len(r), NEW m \in Segments
             PROVE  /\ r[i] = Segment(m) => CoveredUpTo(T, r, i, m - 1)
                    /\ r[i] = Result(m) => CoveredUpTo(T, r, i, m)
  BY DEF Ordered
<1>2. m \in Nat /\ m - 1 \in Nat /\ m <= MaxSegments /\ m - 1 <= MaxSegments
  BY LifecycleAssumption DEF Segments
<1>3. r[i] = q[i + 1] /\ i + 1 \in 1..Len(q) /\ i \in 1..Len(q)
  BY <1>1
<1>4. /\ q[i + 1] = Segment(m) => CoveredUpTo(S, q, i + 1, m - 1)
      /\ q[i + 1] = Result(m) => CoveredUpTo(S, q, i + 1, m)
  BY <1>3 DEF Ordered
<1> QED BY <1>2, <1>3, <1>4, CoveredTail

LEMMA RanksTail ==
  ASSUME NEW f, NEW q \in Seq(Commands), q # <<>>, NEW w, NEW h, NEW s, NEW whole,
         Ranks(f, q, w, h, s, whole)
  PROVE  \E g : Ranks(g, Tail(q), w, f[1], s, whole)
<1> DEFINE r == Tail(q)
           n == Len(q) - 1
           g == [i \in 0..n |-> f[i + 1]]
<1>1. /\ n \in Nat /\ Len(r) = n /\ Len(q) = n + 1
      /\ \A j \in 1..n : r[j] = q[j + 1]
  BY HeadTailProperties, EmptySeq
<1>2. f \in [0..n + 1 -> Nat] /\ f[n + 1] = s
  BY <1>1 DEF Ranks
<1>3. g \in [0..n -> Nat] /\ \A i \in 0..n : g[i] = f[i + 1]
  BY <1>1, <1>2
<1> HIDE DEF g, r, n
<1>4. ASSUME NEW i \in 1..n
      PROVE  /\ r[i].type = "stats" => g[i] = g[i - 1] + 1 /\ g[i] <= Len(w) /\ r[i].of = w[g[i]]
             /\ r[i].type # "stats" => g[i] = g[i - 1]
             /\ whole = TRUE /\ r[i] = Shutdown => g[i] = Len(w)
  <2>1. i + 1 \in 1..Len(q) /\ r[i] = q[i + 1] /\ g[i] = f[i + 1] /\ g[i - 1] = f[i]
    BY <1>1, <1>3
  <2>2. /\ q[i + 1].type = "stats" =>
             f[i + 1] = f[i] + 1 /\ f[i + 1] <= Len(w) /\ q[i + 1].of = w[f[i + 1]]
        /\ q[i + 1].type # "stats" => f[i + 1] = f[i]
        /\ whole = TRUE /\ q[i + 1] = Shutdown => f[i + 1] = Len(w)
    <3>1. (i + 1) - 1 = i
      BY <1>1
    <3> QED BY <2>1, <3>1 DEF Ranks
  <2> QED BY <2>1, <2>2
<1>5. g[0] = f[1] /\ g[Len(r)] = s
  BY <1>1, <1>2, <1>3
<1>6. Ranks(g, r, w, f[1], s, whole)
  BY <1>1, <1>3, <1>4, <1>5 DEF Ranks
<1> QED BY <1>6 DEF r
--------------------------------------------------------------------------------
LEMMA Sent ==
  ASSUME TypeOK, CallerInv, NEW cmd \in Commands, Enqueue(cmd)
  PROVE  /\ queue' \in Seq(Commands) /\ Len(queue') <= Capacity /\ handed' \subseteq Commands
         /\ handed' \subseteq handed \cup {cmd}
         /\ \A i \in 1..Len(queue') : (i \in 1..Len(queue) /\ queue'[i] = queue[i]) \/ queue'[i] = cmd
         /\ \/ writer = "running" /\ queue' = Append(queue, cmd) /\ Len(queue') = Len(queue) + 1
            \/ writer # "running" /\ queue' = queue /\ queue = <<>>
<1>1. CASE writer = "running"
  <2>1. queue' = Append(queue, cmd) /\ handed' = handed \cup {cmd} /\ Len(queue) < Capacity
    BY <1>1 DEF Enqueue
  <2>2. queue \in Seq(Commands) /\ Len(queue) \in Nat /\ Capacity \in Nat /\ handed \subseteq Commands
    BY LifecycleAssumption DEF TypeOK
  <2>3. /\ queue' \in Seq(Commands) /\ Len(queue') = Len(queue) + 1
        /\ \A i \in 1..Len(queue) : queue'[i] = queue[i]
        /\ queue'[Len(queue) + 1] = cmd
    BY <2>1, <2>2, AppendProperties
  <2>4. \A i \in 1..Len(queue') : (i \in 1..Len(queue) /\ queue'[i] = queue[i]) \/ queue'[i] = cmd
    BY <2>2, <2>3
  <2> QED BY <1>1, <2>1, <2>2, <2>3, <2>4
<1>2. CASE writer # "running"
  BY <1>2 DEF Enqueue, CallerInv, TypeOK
<1> QED BY <1>1, <1>2

LEMMA StartedStreams ==
  ASSUME NEW n \in 1..Len(Streams)
  PROVE  /\ SubSeq(Streams, 1, n) \in Seq(StreamSet) /\ Len(SubSeq(Streams, 1, n)) = n
         /\ \A i \in 1..n : SubSeq(Streams, 1, n)[i] = Streams[i]
<1>1. Streams \in Seq(StreamSet) /\ Len(Streams) \in Nat
  BY LifecycleAssumption DEF StreamSet
<1> QED BY <1>1, SubSeqProperties

LEMMA TypeInit == Init => TypeOK
<1> SUFFICES ASSUME Init PROVE TypeOK
  OBVIOUS
<1>1. /\ <<>> \in Seq(StreamSet) /\ <<>> \in Seq(Commands) /\ <<>> \in Seq(RowSet)
      /\ <<>> \in Seq(Segments) /\ Len(<<>>) = 0
  OBVIOUS
<1>2. 0 \in 0..MaxSegments /\ 0 <= Capacity
  BY LifecycleAssumption
<1> QED BY <1>1, <1>2 DEF Init, TypeOK, Plugins!Init

LEMMA TypeStep ==
  ASSUME TypeOK, CallerInv, [Next]_vars
  PROVE  TypeOK'
<1>1. CASE StartStreams
  <2>1. PICK n \in 1..Len(Streams), dir \in {"none", "part"} :
          /\ workers' = SubSeq(Streams, 1, n)
          /\ recording' = [s \in StreamSet |->
               IF \E i \in 1..n : Streams[i] = s THEN dir ELSE "none"]
    BY <1>1 DEF StartStreams
  <2>2. workers' \in Seq(StreamSet)
    BY <2>1, StartedStreams
  <2>3. recording' \in [StreamSet -> {"none", "part", "final"}]
    BY <2>1
  <2> QED BY <1>1, <2>2, <2>3 DEF TypeOK, StartStreams
<1>2. CASE StartFails
  BY <1>2 DEF TypeOK, StartFails
<1>3. CASE Commit
  <2>1. committed' = committed + 1 /\ committed' \in Segments /\ committed' \in 0..MaxSegments
    BY <1>3, LifecycleAssumption DEF Commit, TypeOK, Segments
  <2>2. Enqueue(Segment(committed')) /\ Segment(committed') \in Commands
    BY <1>3, <2>1, Kinds DEF Commit
  <2>3. queue' \in Seq(Commands) /\ Len(queue') <= Capacity /\ handed' \subseteq Commands
    BY <2>2, Sent
  <2>4. /\ fate' \in [Segments -> {"unsubmitted", "refused", "accepted", "emitted", "discarded"}]
        /\ sent' = sent
    BY <1>3, <2>1 DEF Commit, TypeOK, Plugins!Accept, Plugins!Refuse, Plugins!Become
  <2> QED BY <1>3, <2>1, <2>3, <2>4 DEF TypeOK, Commit
<1>4. CASE LeaveLoop
  BY <1>4 DEF TypeOK, LeaveLoop
<1>5. CASE CloseStream
  <2>1. todo' \in Seq(StreamSet)
    BY <1>5, HeadTailProperties, EmptySeq DEF TypeOK, CloseStream
  <2>2. recording' \in [StreamSet -> {"none", "part", "final"}]
    BY <1>5 DEF TypeOK, CloseStream
  <2> QED BY <1>5, <2>1, <2>2 DEF TypeOK, CloseStream
<1>6. CASE ShutdownExecutor
  BY <1>6 DEF TypeOK, ShutdownExecutor, Plugins!Discard
<1>7. CASE SendStats
  <2>1. Head(todo) \in StreamSet /\ todo' \in Seq(StreamSet)
    BY <1>7 DEF TypeOK, SendStats
  <2>2. Enqueue(Stats(Head(todo))) /\ Stats(Head(todo)) \in Commands
    BY <1>7, <2>1, Kinds DEF SendStats
  <2>3. queue' \in Seq(Commands) /\ Len(queue') <= Capacity /\ handed' \subseteq Commands
    BY <2>2, Sent
  <2> QED BY <1>7, <2>1, <2>3 DEF TypeOK, SendStats
<1>8. CASE EndPipeline
  BY <1>8 DEF TypeOK, EndPipeline
<1>9. CASE \E n \in Segments : PluginSends(n)
  <2>1. PICK n \in Segments : PluginSends(n)
    BY <1>9
  <2>2. Enqueue(Result(n)) /\ Result(n) \in Commands
    BY <2>1, Kinds DEF PluginSends
  <2>3. queue' \in Seq(Commands) /\ Len(queue') <= Capacity /\ handed' \subseteq Commands
    BY <2>2, Sent
  <2>4. /\ fate' \in [Segments -> {"unsubmitted", "refused", "accepted", "emitted", "discarded"}]
        /\ sent' \in Seq(Segments)
    BY <2>1 DEF PluginSends, TypeOK, Plugins!Emit, Plugins!Become
  <2> QED BY <2>1, <2>3, <2>4 DEF TypeOK, PluginSends
<1>10. CASE \E n \in Segments : PluginDrops(n)
  BY <1>10 DEF TypeOK, PluginDrops, Plugins!Discard
<1>11. CASE WriterStep
  <2>1. /\ Head(queue) \in Commands /\ queue' \in Seq(Commands) /\ Len(queue') <= Capacity
    BY <1>11, HeadTailProperties, EmptySeq, LifecycleAssumption DEF TypeOK, WriterStep
  <2>2. CASE WriteRow
    <3>1. Head(queue) \in RowSet
      BY <2>1, <2>2 DEF WriteRow, RowSet
    <3>2. rows' \in Seq(RowSet) /\ refusedRows' \subseteq RowSet
      BY <2>2, <3>1, AppendedRow DEF TypeOK, WriteRow
    <3> QED BY <1>11, <2>1, <2>2, <3>2 DEF TypeOK, WriterStep, WriteRow
  <2>3. CASE CollectStats
    <3>1. Head(queue).of \in StreamSet
      BY <2>1, <2>3, Kinds DEF CollectStats
    <3> QED BY <1>11, <2>1, <2>3, <3>1 DEF TypeOK, WriterStep, CollectStats
  <2> QED BY <1>11, <2>2, <2>3 DEF WriterStep
<1>12. CASE WriterEnds
  <2>1. queue' \in Seq(Commands) /\ Len(queue') <= Capacity
    BY <1>12, LifecycleAssumption DEF WriterEnds
  <2> QED BY <1>12, <2>1 DEF TypeOK, WriterEnds
<1>13. CASE Stop
  BY <1>13 DEF TypeOK, Stop
<1>14. CASE JoinPipeline
  <2>1. joined' \in BOOLEAN
    BY <1>14 DEF JoinPipeline, PipelineEnded
  <2> QED BY <1>14, <2>1 DEF TypeOK, JoinPipeline
<1>15. CASE CloseWriter
  <2>1. queue' \in Seq(Commands) /\ Len(queue') <= Capacity /\ handed' \subseteq Commands
    BY <1>15, Sent, Kinds DEF CloseWriter, RequestShutdown
  <2> QED BY <1>15, <2>1 DEF TypeOK, CloseWriter
<1>16. CASE JoinWriter
  BY <1>16 DEF TypeOK, JoinWriter
<1>17. CASE EndSession
  <2>1. master' \subseteq StreamSet
    BY <1>17 DEF EndSession, Playable
  <2> QED BY <1>17, <2>1 DEF TypeOK, EndSession
<1>18. CASE RunQuality
  BY <1>18 DEF TypeOK, RunQuality
<1>19. CASE AwaitQuality
  BY <1>19 DEF TypeOK, AwaitQuality
<1>20. CASE RunWebhook
  BY <1>20 DEF TypeOK, RunWebhook
<1>21. CASE EvaluateQuality
  BY <1>21 DEF TypeOK, EvaluateQuality
<1>22. CASE SendWebhook
  BY <1>22 DEF TypeOK, SendWebhook
<1>23. CASE Crash
  <2>1. /\ <<>> \in Seq(StreamSet) /\ <<>> \in Seq(Commands) /\ <<>> \in Seq(Segments)
        /\ Len(<<>>) = 0 /\ 0 \in 0..MaxSegments /\ 0 <= Capacity
    BY LifecycleAssumption
  <2> QED BY <1>23, <2>1 DEF TypeOK, Crash
<1>24. CASE RecoverOnStartup
  BY <1>24 DEF TypeOK, RecoverOnStartup
<1>25. CASE UNCHANGED vars
  BY <1>25 DEF TypeOK, vars
<1> QED
  BY <1>1, <1>2, <1>3, <1>4, <1>5, <1>6, <1>7, <1>8, <1>9, <1>10, <1>11, <1>12, <1>13,
     <1>14, <1>15, <1>16, <1>17, <1>18, <1>19, <1>20, <1>21, <1>22, <1>23, <1>24, <1>25
     DEF Next, Running, Pipeline, Finish
--------------------------------------------------------------------------------
LEMMA CallerInit == Init => CallerInv
BY DEF Init, CallerInv, Finalizing

LEMMA CallerStep ==
  ASSUME TypeOK, CallerInv, [Next]_vars
  PROVE  CallerInv'
<1>1. CASE process = "up" /\ StartStreams
  BY <1>1 DEF TypeOK, CallerInv, Finalizing, StartStreams
<1>2. CASE process = "up" /\ StartFails
  BY <1>2 DEF TypeOK, CallerInv, Finalizing, StartFails
<1>3. CASE process = "up" /\ Commit
  <2>0. committed' \in Segments
    BY <1>3, LifecycleAssumption DEF Commit, TypeOK, Segments
  <2>1. /\ Enqueue(Segment(committed')) /\ Segment(committed') \in Commands
        /\ Segment(committed') # Shutdown
    BY <1>3, <2>0, Kinds DEF Commit
  <2>2. writer # "running" => queue' = <<>>
    BY <2>1, Sent
  <2>3. (\A i \in 1..Len(queue) : queue[i] # Shutdown)
          => \A i \in 1..Len(queue') : queue'[i] # Shutdown
    BY <2>1, Sent
  <2> QED BY <1>3, <2>1, <2>2, <2>3 DEF TypeOK, CallerInv, Finalizing, Commit
<1>4. CASE process = "up" /\ LeaveLoop
  BY <1>4 DEF TypeOK, CallerInv, Finalizing, LeaveLoop
<1>5. CASE process = "up" /\ CloseStream
  BY <1>5 DEF TypeOK, CallerInv, Finalizing, CloseStream
<1>6. CASE process = "up" /\ ShutdownExecutor
  BY <1>6 DEF TypeOK, CallerInv, Finalizing, ShutdownExecutor
<1>7. CASE process = "up" /\ SendStats
  <2>0. Head(todo) \in StreamSet
    BY <1>7 DEF TypeOK, SendStats
  <2>1. /\ Enqueue(Stats(Head(todo))) /\ Stats(Head(todo)) \in Commands
        /\ Stats(Head(todo)) # Shutdown
    BY <1>7, <2>0, Kinds DEF SendStats
  <2>2. writer # "running" => queue' = <<>>
    BY <2>1, Sent
  <2>3. (\A i \in 1..Len(queue) : queue[i] # Shutdown)
          => \A i \in 1..Len(queue') : queue'[i] # Shutdown
    BY <2>1, Sent
  <2> QED BY <1>7, <2>1, <2>2, <2>3 DEF TypeOK, CallerInv, Finalizing, SendStats
<1>8. CASE process = "up" /\ EndPipeline
  BY <1>8 DEF TypeOK, CallerInv, Finalizing, EndPipeline
<1>9. CASE process = "up" /\ \E n \in Segments : PluginSends(n)
  <2>0. PICK n \in Segments : PluginSends(n)
    BY <1>9
  <2>1. Enqueue(Result(n)) /\ Result(n) \in Commands /\ Result(n) # Shutdown
    BY <2>0, Kinds DEF PluginSends
  <2>2. writer # "running" => queue' = <<>>
    BY <2>1, Sent
  <2>3. (\A i \in 1..Len(queue) : queue[i] # Shutdown)
          => \A i \in 1..Len(queue') : queue'[i] # Shutdown
    BY <2>1, Sent
  <2> QED BY <1>9, <2>0, <2>1, <2>2, <2>3 DEF TypeOK, CallerInv, Finalizing, PluginSends
<1>10. CASE process = "up" /\ \E n \in Segments : PluginDrops(n)
  BY <1>10 DEF TypeOK, CallerInv, Finalizing, PluginDrops
<1>11. CASE process = "up" /\ WriterStep
  <2>1. writer' = writer /\ writer = "running"
    BY <1>11 DEF WriterStep, WriteRow, CollectStats
  <2>2. (\A i \in 1..Len(queue) : queue[i] # Shutdown)
          => \A i \in 1..Len(queue') : queue'[i] # Shutdown
    BY <1>11, HeadTailProperties, EmptySeq DEF TypeOK, WriterStep
  <2>3. ~Finalizing /\ caller # "ending"
    BY <2>1 DEF CallerInv
  <2> QED BY <1>11, <2>1, <2>2, <2>3 DEF TypeOK, CallerInv, Finalizing, WriterStep
<1>12. CASE process = "up" /\ WriterEnds
  BY <1>12 DEF TypeOK, CallerInv, Finalizing, WriterEnds
<1>13. CASE process = "up" /\ Stop
  BY <1>13 DEF TypeOK, CallerInv, Finalizing, Stop
<1>14. CASE process = "up" /\ JoinPipeline
  <2>1. joined' = TRUE => pipeline = "ended"
    BY <1>14 DEF JoinPipeline, PipelineEnded
  <2> QED BY <1>14, <2>1 DEF TypeOK, CallerInv, Finalizing, JoinPipeline
<1>15. CASE process = "up" /\ CloseWriter
  <2>1. writer # "running" => queue' = <<>>
    BY <1>15, Sent, Kinds DEF CloseWriter, RequestShutdown
  <2> QED BY <1>15, <2>1 DEF TypeOK, CallerInv, Finalizing, CloseWriter
<1>16. CASE process = "up" /\ JoinWriter
  BY <1>16 DEF TypeOK, CallerInv, Finalizing, JoinWriter, WriterJoined
<1>17. CASE process = "up" /\ EndSession
  BY <1>17 DEF TypeOK, CallerInv, Finalizing, EndSession
<1>18. CASE process = "up" /\ RunQuality
  BY <1>18 DEF TypeOK, CallerInv, Finalizing, RunQuality
<1>19. CASE process = "up" /\ AwaitQuality
  BY <1>19 DEF TypeOK, CallerInv, Finalizing, AwaitQuality
<1>20. CASE process = "up" /\ RunWebhook
  BY <1>20 DEF TypeOK, CallerInv, Finalizing, RunWebhook
<1>21. CASE process = "up" /\ EvaluateQuality
  BY <1>21 DEF TypeOK, CallerInv, Finalizing, EvaluateQuality
<1>22. CASE process = "up" /\ SendWebhook
  BY <1>22 DEF TypeOK, CallerInv, Finalizing, SendWebhook
<1>23. CASE Crash
  BY <1>23 DEF TypeOK, CallerInv, Finalizing, Crash
<1>24. CASE RecoverOnStartup
  BY <1>24 DEF TypeOK, CallerInv, Finalizing, RecoverOnStartup
<1>25. CASE UNCHANGED vars
  BY <1>25 DEF TypeOK, CallerInv, Finalizing, vars
<1> QED
  BY <1>1, <1>2, <1>3, <1>4, <1>5, <1>6, <1>7, <1>8, <1>9, <1>10, <1>11, <1>12, <1>13,
     <1>14, <1>15, <1>16, <1>17, <1>18, <1>19, <1>20, <1>21, <1>22, <1>23, <1>24, <1>25
     DEF Next, Running, Pipeline, Finish
--------------------------------------------------------------------------------
LEMMA PipelineInit == Init => PipelineInv
BY DEF Init, PipelineInv, Plugins!Init

LEMMA PipelineStep ==
  ASSUME TypeOK, CallerInv, PipelineInv, [Next]_vars
  PROVE  PipelineInv'
<1>1. CASE process = "up" /\ StartStreams
  <2>1. PICK n \in 1..Len(Streams), dir \in {"none", "part"} :
          /\ workers' = SubSeq(Streams, 1, n)
          /\ recording' = [s \in StreamSet |->
               IF \E i \in 1..n : Streams[i] = s THEN dir ELSE "none"]
    BY <1>1 DEF StartStreams
  <2>2. \A s \in StreamSet : recording'[s] # "none" => \E i \in 1..Len(workers') : workers'[i] = s
    BY <2>1, StartedStreams
  <2> QED BY <1>1, <2>2 DEF PipelineInv, StartStreams
<1>2. CASE process = "up" /\ StartFails
  BY <1>2 DEF PipelineInv, StartFails
<1>3. CASE process = "up" /\ Commit
  <2>1. committed' = committed + 1 /\ committed' \in Segments /\ committed \in Nat
    BY <1>3, LifecycleAssumption DEF Commit, TypeOK, Segments
  <2>2. handed' \subseteq handed \cup {Segment(committed')}
    BY <1>3, <2>1, Sent, Kinds DEF Commit
  <2>3. \A s \in StreamSet : Stats(s) \in handed' => Stats(s) \in handed
    BY <2>1, <2>2, Kinds
  <2>4. \A n \in Segments : n # committed' => fate'[n] = fate[n]
    BY <1>3, <2>1 DEF Commit, TypeOK, Plugins!Accept, Plugins!Refuse, Plugins!Become
  <2>5. \A n \in Segments : fate'[n] # "unsubmitted" => n <= committed'
    BY <2>1, <2>4, LifecycleAssumption DEF PipelineInv, Segments
  <2> QED BY <1>3, <2>3, <2>5 DEF PipelineInv, Commit
<1>4. CASE process = "up" /\ LeaveLoop
  BY <1>4 DEF PipelineInv, LeaveLoop
<1>5. CASE process = "up" /\ CloseStream
  <2>1. \A s \in StreamSet : recording'[s] # "none" => recording[s] # "none"
    BY <1>5 DEF CloseStream, TypeOK
  <2> QED BY <1>5, <2>1 DEF PipelineInv, CloseStream
<1>6. CASE process = "up" /\ ShutdownExecutor
  <2>1. \A n \in Segments : fate'[n] # "unsubmitted" => fate[n] # "unsubmitted"
    BY <1>6 DEF ShutdownExecutor, Plugins!Discard
  <2>2. Len(workers) \in Nat /\ todo' = workers
    BY <1>6 DEF ShutdownExecutor, TypeOK
  <2>3. \A i \in 1..Len(todo') : todo'[i] = workers[(Len(workers) - Len(todo')) + i]
    BY <2>2
  <2> QED BY <1>6, <2>1, <2>2, <2>3 DEF PipelineInv, ShutdownExecutor
<1>7. CASE process = "up" /\ SendStats
  <2>1. /\ Len(todo) \in Nat \ {0} /\ Len(workers) \in Nat /\ Len(todo') = Len(todo) - 1
        /\ \A i \in 1..Len(todo') : todo'[i] = todo[i + 1]
    BY <1>7, HeadTailProperties, EmptySeq DEF TypeOK, SendStats
  <2>2. Len(todo) <= Len(workers) /\ pipeline = "stats" /\ pipeline' = "stats"
    BY <1>7 DEF PipelineInv, SendStats, StatsDue
  <2>3. \A i \in 1..Len(todo') : todo'[i] = workers[(Len(workers) - Len(todo')) + i]
    <3> SUFFICES ASSUME NEW i \in 1..Len(todo')
                 PROVE  todo'[i] = workers[(Len(workers) - Len(todo')) + i]
      OBVIOUS
    <3>1. i + 1 \in 1..Len(todo) /\ (Len(workers) - Len(todo)) + (i + 1) = (Len(workers) - Len(todo')) + i
      BY <2>1, <2>2
    <3> QED BY <2>1, <2>2, <3>1 DEF PipelineInv
  <2> QED BY <1>7, <2>1, <2>2, <2>3 DEF PipelineInv, SendStats
<1>8. CASE process = "up" /\ EndPipeline
  BY <1>8 DEF PipelineInv, EndPipeline
<1>9. CASE process = "up" /\ \E n \in Segments : PluginSends(n)
  <2>1. PICK n \in Segments : PluginSends(n)
    BY <1>9
  <2>2. handed' \subseteq handed \cup {Result(n)}
    BY <2>1, Sent, Kinds DEF PluginSends
  <2>3. \A s \in StreamSet : Stats(s) \in handed' => Stats(s) \in handed
    BY <2>2, Kinds
  <2>4. \A m \in Segments : fate'[m] # "unsubmitted" => fate[m] # "unsubmitted"
    BY <2>1 DEF PluginSends, TypeOK, Plugins!Emit, Plugins!Become
  <2> QED BY <1>9, <2>1, <2>3, <2>4 DEF PipelineInv, PluginSends
<1>10. CASE process = "up" /\ \E n \in Segments : PluginDrops(n)
  <2>1. \A n \in Segments : fate'[n] # "unsubmitted" => fate[n] # "unsubmitted"
    BY <1>10 DEF PluginDrops, Plugins!Discard
  <2> QED BY <1>10, <2>1 DEF PipelineInv, PluginDrops
<1>11. CASE process = "up" /\ WriterStep
  BY <1>11 DEF PipelineInv, WriterStep
<1>12. CASE process = "up" /\ WriterEnds
  BY <1>12 DEF PipelineInv, WriterEnds
<1>13. CASE process = "up" /\ CloseWriter
  <2>1. handed' \subseteq handed \cup {Shutdown}
    BY <1>13, Sent, Kinds DEF CloseWriter, RequestShutdown
  <2>2. \A s \in StreamSet : Stats(s) \in handed' => Stats(s) \in handed
    BY <2>1, Kinds
  <2> QED BY <1>13, <2>2 DEF PipelineInv, CloseWriter
<1>14. CASE process = "up" /\ (Stop \/ JoinPipeline \/ JoinWriter \/ EndSession)
  BY <1>14 DEF PipelineInv, Stop, JoinPipeline, JoinWriter, EndSession
<1>15. CASE process = "up" /\ (RunQuality \/ AwaitQuality \/ RunWebhook)
  BY <1>15 DEF PipelineInv, RunQuality, AwaitQuality, RunWebhook
<1>16. CASE process = "up" /\ (EvaluateQuality \/ SendWebhook)
  BY <1>16 DEF PipelineInv, EvaluateQuality, SendWebhook
<1>17. CASE Crash
  BY <1>17 DEF PipelineInv, Crash
<1>18. CASE RecoverOnStartup
  BY <1>18 DEF PipelineInv, CallerInv, RecoverOnStartup
<1>19. CASE UNCHANGED vars
  BY <1>19 DEF PipelineInv, vars
<1> QED
  BY <1>1, <1>2, <1>3, <1>4, <1>5, <1>6, <1>7, <1>8, <1>9, <1>10, <1>11, <1>12, <1>13,
     <1>14, <1>15, <1>16, <1>17, <1>18, <1>19 DEF Next, Running, Pipeline, Finish
--------------------------------------------------------------------------------
(* What is stored and what is in the channel changes in few places.          *)
orderVars == <<queue, writer, rows, refusedRows, committed, joined>>

LEMMA OrderSteps ==
  ASSUME [Next]_vars
  PROVE  \/ process = "up" /\ Commit
         \/ process = "up" /\ SendStats
         \/ process = "up" /\ \E n \in Segments : PluginSends(n)
         \/ process = "up" /\ CloseWriter
         \/ process = "up" /\ WriterStep
         \/ process = "up" /\ WriterEnds
         \/ process = "up" /\ JoinPipeline
         \/ Crash
         \/ UNCHANGED orderVars
BY DEF Next, Running, Pipeline, Finish, StartStreams, StartFails, LeaveLoop, CloseStream,
       ShutdownExecutor, EndPipeline, PluginDrops, Stop, JoinWriter, EndSession, RunQuality,
       AwaitQuality, RunWebhook, EvaluateQuality, SendWebhook, RecoverOnStartup, vars, orderVars

LEMMA OrderInit == Init => OrderInv /\ NoHoles
<1> SUFFICES ASSUME Init PROVE OrderInv /\ NoHoles
  OBVIOUS
<1>1. RowsWritten = {} /\ queue = <<>> /\ Len(queue) = 0 /\ committed = 0 /\ joined = FALSE
  BY DEF Init, RowsWritten
<1>2. NoHoles
  BY <1>1 DEF NoHoles
<1> QED BY <1>1, <1>2 DEF Init, OrderInv, Ordered, CoveredUpTo

\* A command goes into the channel; the session may have committed it.
LEMMA SentOrder ==
  ASSUME TypeOK, CallerInv, OrderInv, NoHoles,
         NEW cmd \in Commands, Enqueue(cmd), UNCHANGED <<writer, rows, refusedRows, joined>>,
         committed' \in Nat,
         \/ committed' = committed
         \/ committed' = committed + 1 /\ joined = FALSE /\ cmd = Segment(committed'),
         \A m \in Segments : /\ cmd = Segment(m) => m = committed + 1
                             /\ cmd = Result(m) => m <= committed
  PROVE  OrderInv' /\ NoHoles'
<1> DEFINE S == StoredSet
           q == queue
<1>1. /\ S' = S /\ committed \in Nat /\ q \in Seq(Commands) /\ Len(q) \in Nat
  BY DEF StoredSet, RowsWritten, TypeOK
<1>2. NoHoles'
  BY DEF NoHoles, Stored, RowsWritten
<1>3. CASE writer # "running"
  <2>1. queue' = <<>> /\ Len(queue') = 0 /\ writer' # "running"
    BY <1>3, Sent
  <2>2. joined = TRUE => committed' = committed
    OBVIOUS
  <2>3. Ordered(S', queue')
    BY <2>1 DEF Ordered
  <2>4. writer' = "exited" /\ joined' = TRUE => CoveredUpTo(S', <<>>, 1, committed')
    BY <1>1, <2>2 DEF OrderInv
  <2> QED BY <1>2, <2>1, <2>3, <2>4 DEF OrderInv
<1>4. CASE writer = "running"
  <2>1. queue' = Append(q, cmd) /\ Len(queue') = Len(q) + 1
    BY <1>4, Sent
  <2>2. Ordered(S, q) /\ CoveredUpTo(S, q, Len(q) + 1, committed)
    BY <1>4 DEF OrderInv
  <2>3. /\ queue'[Len(q) + 1] = cmd
        /\ \A i \in 1..Len(q) : queue'[i] = q[i]
    BY <1>1, <2>1, AppendProperties
  <2>4. Ordered(S, queue')
    <3>1. \A m \in Segments : /\ cmd = Segment(m) => m - 1 <= committed
                              /\ cmd = Result(m) => m <= committed
      BY <1>1
    <3> QED BY <1>1, <2>1, <2>2, <3>1, OrderedAppend
  <2>5. CoveredUpTo(S, queue', Len(q) + 1, committed)
    BY <1>1, <2>1, <2>2, CoveredAppend
  <2>6. CoveredUpTo(S, queue', Len(queue') + 1, committed')
    <3> SUFFICES ASSUME NEW n \in 1..committed' PROVE Covered(S, queue', Len(queue') + 1, n)
      BY DEF CoveredUpTo
    <3>1. CASE n \in 1..committed
      <4>1. Covered(S, queue', Len(q) + 1, n)
        BY <2>5, <3>1 DEF CoveredUpTo
      <4> QED BY <1>1, <2>1, <4>1 DEF Covered
    <3>2. CASE n \notin 1..committed
      <4>1. cmd = Segment(n)
        BY <1>1, <3>2
      <4> QED BY <1>1, <2>1, <2>3, <4>1 DEF Covered
    <3> QED BY <3>1, <3>2
  <2>7. ASSUME joined' = TRUE, NEW i \in 1..Len(q) + 1, queue'[i] = Shutdown
        PROVE  CoveredUpTo(S, queue', i, committed')
    <3>1. committed' = committed /\ joined = TRUE
      BY <2>7
    <3>2. CASE i = Len(q) + 1
      BY <2>5, <3>1, <3>2
    <3>3. CASE i \in 1..Len(q)
      <4>1. CoveredUpTo(S, q, i, committed)
        BY <2>3, <2>7, <3>1, <3>3 DEF OrderInv
      <4> QED BY <1>1, <2>1, <3>1, <4>1, CoveredAppend
    <3> QED BY <1>1, <3>2, <3>3
  <2> QED BY <1>1, <1>2, <1>4, <2>1, <2>4, <2>6, <2>7 DEF OrderInv
<1> QED BY <1>3, <1>4

\* The writer takes the first command.
LEMMA TakenOrder ==
  ASSUME TypeOK, OrderInv, NoHoles, WriterStep
  PROVE  OrderInv' /\ NoHoles'
<1> DEFINE S == StoredSet
           T == StoredSet'
           q == queue
<1>1. /\ q \in Seq(Commands) /\ q # <<>> /\ queue' = Tail(q)
      /\ Len(q) \in Nat \ {0} /\ Len(queue') = Len(q) - 1 /\ Head(q) = q[1] /\ Head(q) \in Commands
      /\ \A i \in 1..Len(queue') : queue'[i] = q[i + 1]
  BY HeadTailProperties, EmptySeq DEF TypeOK, WriterStep
<1>2. /\ writer = "running" /\ writer' = "running" /\ joined' = joined
      /\ committed' = committed /\ committed \in Nat /\ committed <= MaxSegments
  BY LifecycleAssumption DEF WriterStep, WriteRow, CollectStats, TypeOK
<1>3. /\ S \subseteq T /\ (Head(q).type = "segment" => Head(q) \in T)
      /\ \/ RowsWritten' = RowsWritten
         \/ Head(q) \in RowSet /\ RowsWritten' = RowsWritten \cup {Head(q)}
  <2>1. CASE WriteRow
    <3>1. Head(q) \in RowSet
      BY <1>1, <2>1 DEF WriteRow, RowSet
    <3>2. CASE rows' = Append(rows, Head(queue)) /\ UNCHANGED refusedRows
      BY <3>1, <3>2, AppendedRow DEF StoredSet
    <3>3. CASE refusedRows' = refusedRows \cup {Head(queue)} /\ UNCHANGED rows
      <4>1. RowsWritten' = RowsWritten
        BY <3>3 DEF RowsWritten
      <4> QED BY <3>3, <4>1 DEF StoredSet
    <3> QED BY <2>1, <3>2, <3>3 DEF WriteRow
  <2>2. CASE CollectStats
    <3>1. RowsWritten' = RowsWritten
      BY <2>2 DEF CollectStats, RowsWritten
    <3> QED BY <2>2, <3>1 DEF CollectStats, StoredSet
  <2> QED BY <2>1, <2>2 DEF WriterStep
<1>4. Ordered(S, q)
  BY DEF OrderInv
<1>5. Ordered(T, queue')
  BY <1>1, <1>3, <1>4, OrderedTail
<1>6. ASSUME NEW i \in 1..Len(q), CoveredUpTo(S, q, i + 1, committed)
      PROVE  CoveredUpTo(T, queue', i, committed)
  BY <1>1, <1>2, <1>3, <1>6, CoveredTail
<1>7. CoveredUpTo(T, queue', Len(queue') + 1, committed)
  BY <1>1, <1>2, <1>6 DEF OrderInv
<1>8. ASSUME joined = TRUE, NEW i \in 1..(Len(q) - 1), queue'[i] = Shutdown
      PROVE  CoveredUpTo(T, queue', i, committed)
  <2>1. i + 1 \in 1..Len(q) /\ q[i + 1] = Shutdown /\ i \in 1..Len(q)
    BY <1>1, <1>8
  <2>2. CoveredUpTo(S, q, i + 1, committed)
    BY <1>8, <2>1 DEF OrderInv
  <2> QED BY <1>6, <2>1, <2>2
<1>9. OrderInv'
  BY <1>1, <1>2, <1>5, <1>7, <1>8 DEF OrderInv
<1>10. NoHoles'
  <2> SUFFICES ASSUME NEW m \in Segments, Segment(m) \in RowsWritten' \/ Result(m) \in RowsWritten',
                      NEW n \in 1..m
               PROVE  Segment(n) \in T
    BY DEF NoHoles, Stored, StoredSet
  <2>0. n \in Segments /\ m \in Nat /\ n \in Nat
    BY LifecycleAssumption DEF Segments
  <2>1. CASE Segment(m) \in RowsWritten \/ Result(m) \in RowsWritten
    BY <1>3, <2>1 DEF NoHoles, Stored, StoredSet
  <2>2. CASE Head(q) = Segment(m)
    <3>1. CASE n = m
      BY <1>3, <2>2, <3>1, Kinds
    <3>2. CASE n # m
      <4>1. n \in 1..(m - 1) /\ CoveredUpTo(S, q, 1, m - 1)
        BY <1>1, <1>4, <2>0, <2>2, <3>2 DEF Ordered
      <4>2. Segment(n) \in S
        BY <4>1 DEF CoveredUpTo, Covered
      <4> QED BY <1>3, <4>2
    <3> QED BY <3>1, <3>2
  <2>3. CASE Head(q) = Result(m)
    <3>1. CoveredUpTo(S, q, 1, m)
      BY <1>1, <1>4, <2>3 DEF Ordered
    <3>2. Segment(n) \in S
      BY <3>1 DEF CoveredUpTo, Covered
    <3> QED BY <1>3, <3>2
  <2> QED BY <1>3, <2>1, <2>2, <2>3
<1> QED BY <1>9, <1>10

LEMMA OrderStep ==
  ASSUME TypeOK, CallerInv, PipelineInv, OrderInv, NoHoles, [Next]_vars
  PROVE  OrderInv' /\ NoHoles'
<1>0. MaxSegments \in Nat /\ committed \in Nat
  BY LifecycleAssumption DEF TypeOK
<1>1. CASE process = "up" /\ Commit
  <2>1. committed' = committed + 1 /\ committed' \in Segments /\ committed' \in Nat
    BY <1>0, <1>1 DEF Commit, Segments
  <2>2. /\ Enqueue(Segment(committed')) /\ joined = FALSE
        /\ UNCHANGED <<writer, rows, refusedRows, joined>>
    BY <1>1 DEF Commit, CallerInv, TypeOK
  <2>3. \A m \in Segments : /\ Segment(committed') = Segment(m) => m = committed + 1
                            /\ Segment(committed') # Result(m)
    BY <2>1, Kinds
  <2>4. Segment(committed') \in Commands
    BY <2>1, Kinds
  <2> HIDE DEF Segment
  <2> QED BY <2>1, <2>2, <2>3, <2>4, SentOrder
<1>2. CASE process = "up" /\ SendStats
  <2>1. Stats(Head(todo)) \in Commands /\ Stats(Head(todo)).type = "stats"
    BY <1>2, Kinds DEF TypeOK, SendStats
  <2>2. /\ Enqueue(Stats(Head(todo)))
        /\ UNCHANGED <<writer, rows, refusedRows, joined>> /\ committed' = committed
    BY <1>2 DEF SendStats
  <2>3. \A m \in Segments : /\ Stats(Head(todo)) = Segment(m) => m = committed + 1
                            /\ Stats(Head(todo)) = Result(m) => m <= committed
    BY <2>1, Kinds
  <2>4. committed' \in Nat /\ committed' = committed
    BY <1>0, <2>2
  <2> QED BY <2>1, <2>2, <2>3, <2>4, SentOrder
<1>3. CASE process = "up" /\ \E n \in Segments : PluginSends(n)
  <2>1. PICK n \in Segments : PluginSends(n)
    BY <1>3
  <2>2. /\ Enqueue(Result(n)) /\ Result(n) \in Commands
        /\ UNCHANGED <<writer, rows, refusedRows, joined>> /\ committed' = committed
    BY <2>1, Kinds DEF PluginSends
  <2>3. n <= committed
    BY <2>1 DEF PluginSends, Plugins!Emit, Plugins!Become, PipelineInv
  <2>4. \A m \in Segments : /\ Result(n) = Segment(m) => m = committed + 1
                            /\ Result(n) = Result(m) => m <= committed
    BY <2>3, Kinds
  <2>5. committed' \in Nat /\ committed' = committed
    BY <1>0, <2>2
  <2> QED BY <2>2, <2>4, <2>5, SentOrder
<1>4. CASE process = "up" /\ CloseWriter
  <2>1. /\ Enqueue(Shutdown) /\ Shutdown \in Commands
        /\ UNCHANGED <<writer, rows, refusedRows, joined>> /\ committed' = committed
    BY <1>4, Kinds DEF CloseWriter, RequestShutdown
  <2>2. \A m \in Segments : /\ Shutdown = Segment(m) => m = committed + 1
                            /\ Shutdown = Result(m) => m <= committed
    BY Kinds
  <2>3. committed' \in Nat /\ committed' = committed
    BY <1>0, <2>1
  <2> QED BY <2>1, <2>2, <2>3, SentOrder
<1>5. CASE process = "up" /\ WriterStep
  BY <1>5, TakenOrder
<1>6. CASE process = "up" /\ WriterEnds
  <2>1. /\ queue' = <<>> /\ Len(queue') = 0 /\ writer' # "running"
        /\ UNCHANGED <<rows, refusedRows, committed, joined>>
    BY <1>6 DEF WriterEnds
  <2>2. StoredSet' = StoredSet
    BY <2>1 DEF StoredSet, RowsWritten
  <2>3. writer' = "exited" /\ joined = TRUE => CoveredUpTo(StoredSet, <<>>, 1, committed)
    <3> SUFFICES ASSUME writer' = "exited", joined = TRUE
                 PROVE  CoveredUpTo(StoredSet, <<>>, 1, committed)
      OBVIOUS
    <3>1. /\ Head(queue) = Shutdown /\ Head(queue) = queue[1] /\ Len(queue) \in Nat \ {0}
      BY <1>6, HeadTailProperties, EmptySeq DEF WriterEnds, TypeOK
    <3>2. CoveredUpTo(StoredSet, queue, 1, committed)
      BY <3>1 DEF OrderInv
    <3> QED BY <3>2 DEF CoveredUpTo, Covered
  <2>4. NoHoles'
    BY <2>1 DEF NoHoles, Stored, RowsWritten
  <2> QED BY <2>1, <2>2, <2>3, <2>4 DEF OrderInv, Ordered
<1>7. CASE process = "up" /\ JoinPipeline
  <2>1. UNCHANGED <<queue, writer, rows, refusedRows, committed>> /\ StoredSet' = StoredSet
    BY <1>7 DEF JoinPipeline, StoredSet, RowsWritten
  <2>2. writer # "exited" /\ \A i \in 1..Len(queue) : queue[i] # Shutdown
    BY <1>7 DEF JoinPipeline, CallerInv
  <2>3. NoHoles'
    BY <2>1 DEF NoHoles, Stored, RowsWritten
  <2> QED BY <2>1, <2>2, <2>3 DEF OrderInv
<1>8. CASE Crash
  <2>1. /\ queue' = <<>> /\ Len(queue') = 0 /\ writer' = "exited" /\ joined' = FALSE
        /\ UNCHANGED <<rows, refusedRows>>
    BY <1>8 DEF Crash
  <2>2. NoHoles'
    BY <2>1 DEF NoHoles, Stored, RowsWritten
  <2> QED BY <2>1, <2>2 DEF OrderInv, Ordered
<1>9. CASE UNCHANGED orderVars
  <2>1. StoredSet' = StoredSet /\ UNCHANGED <<queue, writer, rows, refusedRows, committed, joined>>
    BY <1>9 DEF orderVars, StoredSet, RowsWritten
  <2>2. NoHoles'
    BY <2>1 DEF NoHoles, Stored, RowsWritten
  <2> QED BY <2>1, <2>2 DEF OrderInv
<1> QED BY <1>1, <1>2, <1>3, <1>4, <1>5, <1>6, <1>7, <1>8, <1>9, OrderSteps
--------------------------------------------------------------------------------
(* The statistics.                                                           *)
LEMMA SentIsNat ==
  ASSUME TypeOK, PipelineInv
  PROVE  SentStats \in Nat /\ Len(workers) \in Nat /\ SentStats <= Len(workers)
BY DEF TypeOK, PipelineInv, SentStats

LEMMA StatsInit == Init => StatsInv
<1> SUFFICES ASSUME Init PROVE StatsInv
  OBVIOUS
<1>1. /\ queue = <<>> /\ workers = <<>> /\ hostStats = <<>> /\ Len(<<>>) = 0
      /\ SentStats = 0 /\ joined = FALSE
  BY DEF Init, SentStats
<1>2. Ranks([i \in 0..0 |-> 0], <<>>, <<>>, 0, 0, FALSE)
  BY <1>1 DEF Ranks
<1> QED BY <1>1, <1>2 DEF StatsInv

LEMMA SameStats ==
  ASSUME StatsInv, UNCHANGED <<queue, writer, hostStats, workers, joined>>, SentStats' = SentStats
  PROVE  StatsInv'
BY DEF StatsInv

\* A command goes into the channel.
LEMMA SentStatistics ==
  ASSUME TypeOK, CallerInv, PipelineInv, StatsInv, PipelineInv', TypeOK',
         NEW cmd \in Commands, Enqueue(cmd), UNCHANGED <<writer, hostStats, workers, joined>>,
         cmd.type = "stats" => /\ SentStats' = SentStats + 1
                               /\ cmd.of = workers[SentStats + 1],
         cmd.type # "stats" => SentStats' = SentStats,
         joined = TRUE /\ cmd = Shutdown => SentStats' = Len(workers)
  PROVE  StatsInv'
<1>1. SentStats \in Nat /\ SentStats' \in Nat /\ SentStats' <= Len(workers)
  <2>1. SentStats' \in Nat /\ SentStats' <= Len(workers')
    BY DEF TypeOK, PipelineInv, SentStats
  <2> QED BY <2>1, SentIsNat
<1>2. CASE writer # "running"
  BY <1>2 DEF StatsInv
<1>3. CASE writer = "running"
  <2>1. queue \in Seq(Commands) /\ queue' = Append(queue, cmd)
    BY <1>3, Sent DEF TypeOK
  <2>2. PICK f : Ranks(f, queue, workers, Len(hostStats), SentStats, joined)
    BY <1>3 DEF StatsInv
  <2>3. /\ cmd.type = "stats" =>
             SentStats' = SentStats + 1 /\ SentStats' <= Len(workers) /\ cmd.of = workers[SentStats']
        /\ joined = TRUE /\ cmd = Shutdown => SentStats' = Len(workers)
    BY <1>1
  <2>4. \E g : Ranks(g, Append(queue, cmd), workers, Len(hostStats), SentStats', joined)
    BY <1>1, <2>1, <2>2, <2>3, RanksAppend
  <2> QED BY <1>3, <2>1, <2>4 DEF StatsInv
<1> QED BY <1>2, <1>3

\* The writer takes the first command.
LEMMA TakenStatistics ==
  ASSUME TypeOK, StatsInv, WriterStep
  PROVE  StatsInv'
<1>1. /\ queue \in Seq(Commands) /\ queue # <<>> /\ queue' = Tail(queue)
      /\ Len(queue) \in Nat \ {0} /\ Head(queue) = queue[1]
      /\ Head(queue) \in Commands /\ hostStats \in Seq(StreamSet) /\ Len(hostStats) \in Nat
  BY HeadTailProperties, EmptySeq DEF TypeOK, WriterStep
<1>2. /\ writer = "running" /\ writer' = "running" /\ joined' = joined
      /\ workers' = workers /\ SentStats' = SentStats
  BY DEF WriterStep, WriteRow, CollectStats, SentStats
<1>3. PICK f : Ranks(f, queue, workers, Len(hostStats), SentStats, joined)
  BY <1>2 DEF StatsInv
<1>4. /\ f[0] = Len(hostStats) /\ 1 - 1 = 0 /\ f[1] \in Nat
      /\ Head(queue).type = "stats" =>
           f[1] = f[0] + 1 /\ f[1] <= Len(workers) /\ Head(queue).of = workers[f[1]]
      /\ Head(queue).type # "stats" => f[1] = f[0]
  BY <1>1, <1>3 DEF Ranks
<1>5. \E g : Ranks(g, queue', workers, f[1], SentStats, joined)
  BY <1>1, <1>3, RanksTail
<1>6. /\ Len(hostStats') = f[1] /\ Len(hostStats') <= Len(workers)
      /\ \A i \in 1..Len(hostStats') : hostStats'[i] = workers[i]
  <2>1. CASE WriteRow
    BY <1>4, <2>1 DEF WriteRow, StatsInv
  <2>2. CASE CollectStats
    <3>1. Head(queue).of \in StreamSet /\ hostStats' = Append(hostStats, Head(queue).of)
      BY <1>1, <2>2, Kinds DEF CollectStats
    <3>2. /\ Len(hostStats') = Len(hostStats) + 1
          /\ hostStats'[Len(hostStats) + 1] = Head(queue).of
          /\ \A i \in 1..Len(hostStats) : hostStats'[i] = hostStats[i]
      BY <1>1, <3>1, AppendProperties
    <3> QED BY <1>1, <1>4, <2>2, <3>2 DEF CollectStats, StatsInv
  <2> QED BY <2>1, <2>2 DEF WriterStep
<1> QED BY <1>2, <1>5, <1>6 DEF StatsInv

LEMMA StatsStep ==
  ASSUME TypeOK, CallerInv, PipelineInv, StatsInv, [Next]_vars, TypeOK', PipelineInv'
  PROVE  StatsInv'
<1>1. CASE process = "up" /\ StartStreams
  <2>1. workers = <<>> /\ Len(workers) = 0 /\ joined = FALSE /\ Len(workers') \in Nat
    BY <1>1 DEF StartStreams, PipelineInv, CallerInv, TypeOK
  <2>2. hostStats = <<>> /\ Len(hostStats) = 0
    BY <2>1, EmptySeq DEF StatsInv, TypeOK
  <2>3. SentStats' = SentStats /\ UNCHANGED <<queue, writer, hostStats, joined>>
    BY <1>1 DEF StartStreams, SentStats
  <2>4. ASSUME NEW f, Ranks(f, queue, workers, Len(hostStats), SentStats, joined)
        PROVE  Ranks(f, queue, workers', Len(hostStats), SentStats, joined)
    <3>1. \A i \in 1..Len(queue) : queue[i].type # "stats"
      <4> SUFFICES ASSUME NEW i \in 1..Len(queue), queue[i].type = "stats"
                   PROVE  FALSE
        OBVIOUS
      <4>0. Len(queue) \in Nat
        BY DEF TypeOK
      <4>1. i - 1 \in 0..Len(queue)
        BY <4>0
      <4>2. f[i] = f[i - 1] + 1 /\ f[i] <= Len(workers) /\ f[i - 1] \in Nat
        BY <2>4, <4>1 DEF Ranks
      <4> QED BY <2>1, <4>2
    <3> QED BY <2>1, <2>4, <3>1 DEF Ranks
  <2> QED BY <2>1, <2>2, <2>3, <2>4 DEF StatsInv
<1>2. CASE process = "up" /\ StartFails
  <2>1. SentStats' = SentStats
    BY <1>2 DEF StartFails, SentStats, PipelineInv
  <2> QED BY <1>2, <2>1, SameStats DEF StartFails
<1>3. CASE process = "up" /\ Commit
  <2>1. committed' \in Segments
    BY <1>3, LifecycleAssumption DEF Commit, TypeOK, Segments
  <2>2. /\ Enqueue(Segment(committed')) /\ Segment(committed') \in Commands
        /\ Segment(committed').type = "segment" /\ Segment(committed') # Shutdown
    BY <1>3, <2>1, Kinds DEF Commit
  <2>3. SentStats' = SentStats /\ UNCHANGED <<writer, hostStats, workers, joined>>
    BY <1>3 DEF Commit, SentStats
  <2> QED BY <2>2, <2>3, SentStatistics
<1>4. CASE process = "up" /\ LeaveLoop
  <2>1. SentStats' = SentStats
    BY <1>4 DEF LeaveLoop, SentStats
  <2> QED BY <1>4, <2>1, SameStats DEF LeaveLoop
<1>5. CASE process = "up" /\ CloseStream
  <2>1. SentStats' = SentStats
    BY <1>5 DEF CloseStream, SentStats
  <2> QED BY <1>5, <2>1, SameStats DEF CloseStream
<1>6. CASE process = "up" /\ ShutdownExecutor
  <2>1. SentStats' = SentStats
    BY <1>6 DEF ShutdownExecutor, SentStats, TypeOK
  <2> QED BY <1>6, <2>1, SameStats DEF ShutdownExecutor
<1>7. CASE process = "up" /\ SendStats
  <2>1. /\ Len(todo) \in Nat \ {0} /\ Len(workers) \in Nat /\ Len(todo') = Len(todo) - 1
        /\ Head(todo) = todo[1] /\ Head(todo) \in StreamSet
    BY <1>7, HeadTailProperties, EmptySeq DEF TypeOK, SendStats
  <2>2. /\ pipeline = "stats" /\ UNCHANGED <<pipeline, writer, hostStats, workers, joined>>
        /\ Enqueue(Stats(Head(todo)))
    BY <1>7 DEF SendStats, StatsDue
  <2>3. /\ Stats(Head(todo)) \in Commands /\ Stats(Head(todo)).type = "stats"
        /\ Stats(Head(todo)).of = Head(todo) /\ Stats(Head(todo)) # Shutdown
    BY <2>1, Kinds
  <2>4. SentStats' = SentStats + 1
    BY <2>1, <2>2 DEF SentStats
  <2>5. Head(todo) = workers[SentStats + 1]
    BY <2>1, <2>2 DEF SentStats, PipelineInv
  <2> QED BY <2>2, <2>3, <2>4, <2>5, SentStatistics
<1>8. CASE process = "up" /\ EndPipeline
  <2>1. SentStats' = SentStats
    BY <1>8 DEF EndPipeline, SentStats, TypeOK
  <2> QED BY <1>8, <2>1, SameStats DEF EndPipeline
<1>9. CASE process = "up" /\ \E n \in Segments : PluginSends(n)
  <2>1. PICK n \in Segments : PluginSends(n)
    BY <1>9
  <2>2. /\ Enqueue(Result(n)) /\ Result(n) \in Commands
        /\ Result(n).type = "result" /\ Result(n) # Shutdown
    BY <2>1, Kinds DEF PluginSends
  <2>3. SentStats' = SentStats /\ UNCHANGED <<writer, hostStats, workers, joined>>
    BY <2>1 DEF PluginSends, SentStats
  <2> QED BY <2>2, <2>3, SentStatistics
<1>10. CASE process = "up" /\ CloseWriter
  <2>1. Enqueue(Shutdown) /\ Shutdown \in Commands /\ Shutdown.type # "stats"
    BY <1>10, Kinds DEF CloseWriter, RequestShutdown
  <2>2. SentStats' = SentStats /\ UNCHANGED <<writer, hostStats, workers, joined>>
    BY <1>10 DEF CloseWriter, SentStats
  <2>3. joined = TRUE => SentStats' = Len(workers)
    BY <2>2 DEF CallerInv, SentStats
  <2> QED BY <2>1, <2>2, <2>3, SentStatistics
<1>11. CASE process = "up" /\ WriterStep
  BY <1>11, TakenStatistics
<1>12. CASE process = "up" /\ WriterEnds
  <2>1. /\ writer = "running" /\ writer' # "running"
        /\ UNCHANGED <<hostStats, workers, joined>>
    BY <1>12 DEF WriterEnds
  <2>2. writer' = "exited" /\ joined = TRUE => hostStats = workers
    <3> SUFFICES ASSUME writer' = "exited", joined = TRUE
                 PROVE  hostStats = workers
      OBVIOUS
    <3>1. /\ Head(queue) = Shutdown /\ Head(queue) = queue[1] /\ Len(queue) \in Nat \ {0}
      BY <1>12, HeadTailProperties, EmptySeq DEF WriterEnds, TypeOK
    <3>2. PICK f : Ranks(f, queue, workers, Len(hostStats), SentStats, joined)
      BY <2>1 DEF StatsInv
    <3>3. f[1] = Len(workers) /\ f[1] = f[1 - 1] /\ 1 - 1 = 0 /\ f[0] = Len(hostStats)
      BY <3>1, <3>2, Kinds DEF Ranks
    <3>4. /\ hostStats \in Seq(StreamSet) /\ workers \in Seq(StreamSet)
          /\ Len(hostStats) = Len(workers)
          /\ \A i \in 1..Len(hostStats) : hostStats[i] = workers[i]
      BY <3>3 DEF TypeOK, StatsInv
    <3> QED BY <3>4, SeqEqual
  <2> QED BY <2>1, <2>2 DEF StatsInv
<1>13. CASE process = "up" /\ JoinPipeline
  <2>1. /\ UNCHANGED <<queue, writer, workers, hostStats>> /\ SentStats' = SentStats
    BY <1>13 DEF JoinPipeline, SentStats
  <2>2. writer # "exited" /\ \A i \in 1..Len(queue) : queue[i] # Shutdown
    BY <1>13 DEF JoinPipeline, CallerInv
  <2>3. ASSUME NEW f, Ranks(f, queue, workers, Len(hostStats), SentStats, joined)
        PROVE  Ranks(f, queue, workers, Len(hostStats), SentStats, joined')
    BY <2>2, <2>3 DEF Ranks
  <2> QED BY <2>1, <2>2, <2>3 DEF StatsInv
<1>14. CASE process = "up" /\ \E n \in Segments : PluginDrops(n)
  BY <1>14, SameStats DEF PluginDrops, SentStats
<1>15. CASE process = "up" /\ (Stop \/ JoinWriter \/ EndSession)
  BY <1>15, SameStats DEF Stop, JoinWriter, EndSession, SentStats
<1>16. CASE process = "up" /\ (RunQuality \/ AwaitQuality \/ RunWebhook)
  BY <1>16, SameStats DEF RunQuality, AwaitQuality, RunWebhook, SentStats
<1>17. CASE process = "up" /\ (EvaluateQuality \/ SendWebhook)
  BY <1>17, SameStats DEF EvaluateQuality, SendWebhook, SentStats
<1>18. CASE Crash
  <2>1. hostStats' = <<>> /\ workers' = <<>> /\ writer' = "exited" /\ Len(<<>>) = 0
    BY <1>18 DEF Crash
  <2> QED BY <2>1 DEF StatsInv
<1>19. CASE RecoverOnStartup
  BY <1>19, SameStats DEF RecoverOnStartup, SentStats
<1>20. CASE UNCHANGED vars
  BY <1>20, SameStats DEF vars, SentStats
<1> QED
  BY <1>1, <1>2, <1>3, <1>4, <1>5, <1>6, <1>7, <1>8, <1>9, <1>10, <1>11, <1>12, <1>13,
     <1>14, <1>15, <1>16, <1>17, <1>18, <1>19, <1>20 DEF Next, Running, Pipeline, Finish
--------------------------------------------------------------------------------
(* The recording meant for playback is put together by a caller that waited. *)
LEMMA MasterStep ==
  ASSUME TypeOK, CallerInv, PipelineInv, StatsInv, MasterIsWhole, [Next]_vars
  PROVE  MasterIsWhole'
<1>1. CASE process = "up" /\ EndSession
  <2>1. /\ writer = "exited" /\ process = "up" /\ UNCHANGED <<joined, recording>>
    BY <1>1 DEF EndSession, CallerInv
  <2>2. joined = TRUE => Playable = {s \in StreamSet : recording[s] = "final"}
    <3> SUFFICES ASSUME joined = TRUE, NEW s \in StreamSet, recording[s] = "final"
                 PROVE  \E i \in 1..Len(hostStats) : hostStats[i] = s
      BY DEF Playable
    <3>1. hostStats = workers
      BY <2>1 DEF StatsInv
    <3> QED BY <2>1, <3>1 DEF PipelineInv
  <2>3. master' = Playable \/ master' = {}
    BY <1>1 DEF EndSession
  <2>4. joined \in BOOLEAN
    BY DEF TypeOK
  <2>5. CASE joined = TRUE
    BY <2>1, <2>2, <2>3, <2>5 DEF MasterIsWhole
  <2>6. CASE joined = FALSE
    BY <2>1, <2>6 DEF MasterIsWhole
  <2> QED BY <2>4, <2>5, <2>6
<1>2. CASE process = "up" /\ (StartStreams \/ CloseStream)
  <2>1. joined' = FALSE
    BY <1>2 DEF StartStreams, CloseStream, CallerInv, TypeOK
  <2> QED BY <2>1 DEF MasterIsWhole
<1>3. CASE process = "up" /\ (Stop \/ JoinPipeline \/ CloseWriter \/ JoinWriter)
  <2>1. ~Finalizing'
    BY <1>3 DEF Stop, JoinPipeline, CloseWriter, JoinWriter, Finalizing
  <2> QED BY <2>1 DEF MasterIsWhole
<1>4. CASE Crash
  BY <1>4 DEF Crash, MasterIsWhole, Finalizing
<1>5. CASE RecoverOnStartup
  BY <1>5 DEF RecoverOnStartup, CallerInv, MasterIsWhole, Finalizing
<1>6. CASE (Finalizing' => Finalizing) /\ UNCHANGED <<joined, master, recording>>
  BY <1>6 DEF MasterIsWhole
<1>7. CASE process = "up" /\ (RunQuality \/ AwaitQuality \/ RunWebhook)
  BY <1>6, <1>7 DEF RunQuality, AwaitQuality, RunWebhook, Finalizing
<1>8. CASE process = "up" /\ (EvaluateQuality \/ SendWebhook)
  BY <1>6, <1>8 DEF EvaluateQuality, SendWebhook, Finalizing
<1>9. CASE process = "up" /\ (StartFails \/ Commit \/ LeaveLoop)
  BY <1>6, <1>9 DEF StartFails, Commit, LeaveLoop, Finalizing
<1>10. CASE process = "up" /\ (ShutdownExecutor \/ SendStats \/ EndPipeline)
  BY <1>6, <1>10 DEF ShutdownExecutor, SendStats, EndPipeline, Finalizing
<1>11. CASE process = "up" /\ \E n \in Segments : PluginSends(n) \/ PluginDrops(n)
  BY <1>6, <1>11 DEF PluginSends, PluginDrops, Finalizing
<1>12. CASE process = "up" /\ (WriterStep \/ WriterEnds)
  BY <1>6, <1>12 DEF WriterStep, WriterEnds, Finalizing
<1>13. CASE UNCHANGED vars
  BY <1>6, <1>13 DEF vars, Finalizing
<1> QED
  BY <1>1, <1>2, <1>3, <1>4, <1>5, <1>7, <1>8, <1>9, <1>10, <1>11, <1>12, <1>13
     DEF Next, Running, Pipeline, Finish
--------------------------------------------------------------------------------
LEMMA Initially == Init => IInv
<1>1. Init => MasterIsWhole
  BY DEF Init, MasterIsWhole, Finalizing
<1> QED BY <1>1, TypeInit, CallerInit, PipelineInit, OrderInit, StatsInit DEF IInv

LEMMA Inductive == IInv /\ [Next]_vars => IInv'
<1> SUFFICES ASSUME IInv, [Next]_vars PROVE IInv'
  OBVIOUS
<1>1. TypeOK /\ CallerInv /\ PipelineInv /\ OrderInv /\ NoHoles /\ StatsInv /\ MasterIsWhole
  BY DEF IInv
<1>2. TypeOK' /\ CallerInv' /\ PipelineInv'
  BY <1>1, TypeStep, CallerStep, PipelineStep
<1>3. OrderInv' /\ NoHoles'
  BY <1>1, OrderStep
<1>4. StatsInv' /\ MasterIsWhole'
  BY <1>1, <1>2, StatsStep, MasterStep
<1> QED BY <1>2, <1>3, <1>4 DEF IInv

LEMMA Invariant == Spec => []IInv
BY Initially, Inductive, PTL DEF Spec

\* What a session leaves behind (session_writer.rs:133, service.rs:597-640):
\* its transcript has no holes, whatever happens; and if its pipeline ended in
\* time, the finalizers find all of it, and it can be played back as recorded.
THEOREM WholeRecord == Spec => []RecordIsWhole
<1>1. IInv => RecordIsWhole
  <2> SUFFICES ASSUME IInv PROVE RecordIsWhole
    OBVIOUS
  <2>1. DurableIfJoined
    <3> SUFFICES ASSUME Finalizing, joined = TRUE
                 PROVE  /\ \A n \in 1..committed : Stored(Segment(n))
                        /\ hostStats = workers
      BY DEF DurableIfJoined, IInv, TypeOK
    <3>1. writer = "exited"
      BY DEF IInv, CallerInv
    <3>2. hostStats = workers
      BY <3>1 DEF IInv, StatsInv
    <3>3. CoveredUpTo(StoredSet, <<>>, 1, committed)
      BY <3>1 DEF IInv, OrderInv
    <3>4. \A n \in 1..committed : Stored(Segment(n))
      BY <3>3 DEF CoveredUpTo, Covered, Stored, StoredSet
    <3> QED BY <3>2, <3>4
  <2> QED BY <2>1 DEF IInv, RecordIsWhole
<1> QED BY <1>1, Invariant, PTL

\* Statistics are sent when no more segments are committed (lib.rs run_loop).
THEOREM FinalStatistics == Spec => StatsAreFinal
<1>1. IInv /\ [Next]_vars =>
        [(\E s \in StreamSet : Stats(s) \in handed) => committed' <= committed]_vars
  <2> SUFFICES ASSUME IInv, Next, NEW s \in StreamSet, Stats(s) \in handed
               PROVE  committed' <= committed
    OBVIOUS
  <2>1. pipeline \in {"stats", "ended"} /\ committed \in Nat
    BY LifecycleAssumption DEF IInv, PipelineInv, TypeOK
  <2>2. CASE Crash
    BY <2>1, <2>2 DEF Crash
  <2>3. CASE process = "up" /\ Commit
    BY <2>1, <2>3 DEF Commit
  <2>4. CASE committed' = committed
    BY <2>1, <2>4
  <2>5. CASE process = "up" /\ Pipeline
    BY <2>3, <2>4, <2>5
       DEF Pipeline, StartStreams, StartFails, LeaveLoop, CloseStream, ShutdownExecutor,
           SendStats, EndPipeline
  <2>6. CASE process = "up" /\ \E n \in Segments : PluginSends(n) \/ PluginDrops(n)
    BY <2>4, <2>6 DEF PluginSends, PluginDrops
  <2>7. CASE process = "up" /\ Finish
    BY <2>4, <2>7
       DEF Finish, Stop, JoinPipeline, CloseWriter, JoinWriter, EndSession, RunQuality,
           AwaitQuality, RunWebhook
  <2>8. CASE process = "up" /\ (WriterStep \/ WriterEnds \/ EvaluateQuality \/ SendWebhook)
    BY <2>4, <2>8 DEF WriterStep, WriterEnds, EvaluateQuality, SendWebhook
  <2>9. CASE RecoverOnStartup
    BY <2>4, <2>9 DEF RecoverOnStartup
  <2> QED BY <2>2, <2>5, <2>6, <2>7, <2>8, <2>9 DEF Next, Running
<1> QED BY <1>1, Invariant, PTL DEF Spec, StatsAreFinal

\* The record of a session is the one that SessionRecord promises: sealed when
\* its writer is gone, rated and reported when it is sealed (service.rs:597-640,
\* session_writer.rs:133, finalize.rs).
THEOREM KeptRecord == Spec => RecordKept
<1>1. Init => Record!Init
  BY DEF Init, Record!Init
<1>2. IInv /\ [Next]_vars => [Record!Next]_Record!vars
  <2> SUFFICES ASSUME IInv, [Next]_vars PROVE [Record!Next]_Record!vars
    OBVIOUS
  <2>1. TypeOK /\ CallerInv
    BY DEF IInv
  <2>2. CASE UNCHANGED <<rows, ended, report, payload>>
    BY <2>2 DEF Record!vars
  <2>3. CASE process = "up" /\ WriterStep
    <3>1. /\ Head(queue) \in Commands /\ UNCHANGED <<ended, report, payload>>
          /\ writer = "running"
      BY <2>1, <2>3, HeadTailProperties, EmptySeq DEF TypeOK, WriterStep
    <3>2. ended = FALSE
      BY <2>1, <2>3, <3>1 DEF CallerInv, TypeOK
    <3>3. CASE rows' = rows
      BY <2>2, <3>1, <3>3
    <3>4. CASE rows' # rows
      <4>1. rows' = Append(rows, Head(queue)) /\ Head(queue) \in RowSet
        BY <2>3, <3>1, <3>4 DEF WriterStep, WriteRow, CollectStats, RowSet
      <4> QED BY <3>1, <3>2, <4>1 DEF Record!Next, Record!AppendRow
    <3> QED BY <3>3, <3>4
  <2>4. CASE process = "up" /\ EndSession
    <3>1. ended = FALSE /\ ended' = TRUE /\ UNCHANGED <<rows, report, payload>>
      BY <2>1, <2>4 DEF EndSession, CallerInv, TypeOK, Finalizing
    <3> QED BY <3>1 DEF Record!Next, Record!Seal
  <2>5. CASE process = "up" /\ EvaluateQuality
    <3>1. /\ ended = TRUE /\ report = None /\ UNCHANGED <<rows, ended, payload>>
      BY <2>1, <2>5 DEF EvaluateQuality, CallerInv, Finalizing
    <3>2. CASE report' = None
      BY <2>2, <3>1, <3>2
    <3>3. CASE report' # None
      BY <3>1, <3>3 DEF Record!Next, Record!AttachReport
    <3> QED BY <3>2, <3>3
  <2>6. CASE process = "up" /\ SendWebhook
    <3>1. /\ ended = TRUE /\ payload = None /\ UNCHANGED <<rows, ended, report>>
          /\ payload'.rows = rows
      BY <2>1, <2>6 DEF SendWebhook, CallerInv, Finalizing
    <3>2. CASE payload' = None
      BY <2>2, <3>1, <3>2
    <3>3. CASE payload' # None
      BY <3>1, <3>3 DEF Record!Next, Record!Publish
    <3> QED BY <3>2, <3>3
  <2>7. CASE RecoverOnStartup
    <3>1. ended' = TRUE /\ UNCHANGED <<rows, report, payload>>
      BY <2>7 DEF RecoverOnStartup
    <3>2. CASE ended = TRUE
      BY <2>2, <3>1, <3>2
    <3>3. CASE ended = FALSE
      BY <3>1, <3>3 DEF Record!Next, Record!Seal
    <3> QED BY <2>1, <3>2, <3>3 DEF TypeOK
  <2>8. CASE process = "up" /\ Pipeline
    BY <2>2, <2>8
       DEF Pipeline, StartStreams, StartFails, Commit, LeaveLoop, CloseStream,
           ShutdownExecutor, SendStats, EndPipeline
  <2>9. CASE process = "up" /\ (WriterEnds \/ \E n \in Segments : PluginSends(n) \/ PluginDrops(n))
    BY <2>2, <2>9 DEF WriterEnds, PluginSends, PluginDrops
  <2>10. CASE process = "up" /\ Finish
    BY <2>2, <2>4, <2>10
       DEF Finish, Stop, JoinPipeline, CloseWriter, JoinWriter, RunQuality, AwaitQuality,
           RunWebhook
  <2>11. CASE Crash
    BY <2>2, <2>11 DEF Crash
  <2>12. CASE UNCHANGED vars
    BY <2>2, <2>12 DEF vars
  <2> QED
    BY <2>3, <2>5, <2>6, <2>7, <2>8, <2>9, <2>10, <2>11, <2>12 DEF Next, Running
<1> QED BY <1>1, <1>2, Invariant, PTL DEF Spec, RecordKept, Record!Spec
================================================================================
