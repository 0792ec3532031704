---------------------------- MODULE SessionsProofs ----------------------------
(***************************************************************************)
(* For any number of sessions that follow one another and overlap, any     *)
(* settings and any room in the pool: rows and summaries are of the        *)
(* session they were made for, no two sessions share an engine, and a      *)
(* session without an end has somebody who will give it one.               *)
(***************************************************************************)
EXTENDS Sessions, DataLemmas, SequenceTheorems, TLAPS

\* Ids are given once and say whose row it is; a segment's row is there, and a
\* summary in the making knows whose text it is.
RowInv ==
  /\ sequence \in Nat /\ Rows \subseteq 1..sequence
  /\ \A id \in Rows :
       /\ {"birth", "ended", "notes"} \subseteq DOMAIN sessions[id]
       /\ sessions[id].birth = id /\ sessions[id].notes \in {None, id}
  /\ IsFiniteSet(segments) /\ \A s \in segments : s.of \in Rows
  /\ \A job \in jobs : job.birth = job.id

USE DEF slotVars, streamVars, poolVars, storeVars
--------------------------------------------------------------------------------
LEMMA RowInit == Init => RowInv
BY FS_EmptySet DEF Init, RowInv, Rows

LEMMA Updated ==
  ASSUME RowInv, NEW id, NEW column \in {"ended", "notes"}, NEW value,
         Update(id, column, value), column = "notes" => value = id
  PROVE  /\ Rows' = Rows
         /\ \A k \in Rows :
              /\ {"birth", "ended", "notes"} \subseteq DOMAIN sessions'[k]
              /\ sessions'[k].birth = k /\ sessions'[k].notes \in {None, k}
<1>1. CASE id \notin Rows
  BY <1>1 DEF Update, RowInv, Rows
<1>2. CASE id \in Rows
  <2>1. sessions' = [sessions EXCEPT ![id] = [sessions[id] EXCEPT ![column] = value]]
    BY <1>2 DEF Update
  <2>2. Rows' = Rows
    BY <2>1 DEF Rows
  <2>3. ASSUME NEW k \in Rows, k # id PROVE sessions'[k] = sessions[k]
    BY <2>1, <2>3 DEF Rows
  <2>4. sessions'[id] = [sessions[id] EXCEPT ![column] = value]
    BY <1>2, <2>1 DEF Rows
  <2>5. /\ {"birth", "ended", "notes"} \subseteq DOMAIN sessions'[id]
        /\ sessions'[id].birth = id /\ sessions'[id].notes \in {None, id}
    <3>1. CASE column = "ended"
      BY <1>2, <2>4, <3>1 DEF RowInv
    <3>2. CASE column = "notes"
      BY <1>2, <2>4, <3>2 DEF RowInv
    <3> QED BY <3>1, <3>2
  <2> QED BY <2>2, <2>3, <2>5 DEF RowInv
<1> QED BY <1>1, <1>2

LEMMA RowStep ==
  ASSUME RowInv, [Next]_vars
  PROVE  RowInv'
<1>1. CASE StartRow
  <2>1. /\ sequence' = sequence + 1 /\ UNCHANGED <<segments, jobs>>
        /\ sessions' = [id \in Rows \cup {NextId} |->
             IF id = NextId THEN [birth |-> NextId, started |-> now, ended |-> None, notes |-> None]
             ELSE sessions[id]]
    BY <1>1 DEF StartRow, InsertSession, NextId
  <2>2. Rows' = Rows \cup {NextId} /\ NextId \notin Rows /\ Rows' \subseteq 1..sequence'
    BY <2>1 DEF RowInv, Rows, NextId
  <2>3. \A id \in Rows' :
          /\ {"birth", "ended", "notes"} \subseteq DOMAIN sessions'[id]
          /\ sessions'[id].birth = id /\ sessions'[id].notes \in {None, id}
    <3>1. ASSUME NEW id \in Rows PROVE sessions'[id] = sessions[id]
      BY <2>1, <2>2, <3>1
    <3>2. sessions'[NextId] = [birth |-> NextId, started |-> now, ended |-> None, notes |-> None]
      BY <2>1
    <3> QED BY <2>2, <3>1, <3>2 DEF RowInv
  <2> QED BY <2>1, <2>2, <2>3 DEF RowInv
<1>2. ASSUME NEW id, EndSession(id), UNCHANGED <<sequence, segments, jobs>> PROVE RowInv'
  <2>1. CASE Update(id, "ended", now)
    <3>1. /\ Rows' = Rows
          /\ \A k \in Rows :
               /\ {"birth", "ended", "notes"} \subseteq DOMAIN sessions'[k]
               /\ sessions'[k].birth = k /\ sessions'[k].notes \in {None, k}
      BY <2>1, Updated
    <3> QED BY <1>2, <3>1 DEF RowInv
  <2>2. CASE UNCHANGED sessions
    BY <1>2, <2>2 DEF RowInv, Rows
  <2> QED BY <1>2, <2>1, <2>2 DEF EndSession
<1>3. CASE StartFails
  BY <1>2, <1>3 DEF StartFails
<1>4. CASE \E id \in DOMAIN finishing : FinishEnds(id)
  BY <1>2, <1>4 DEF FinishEnds
<1>5. ASSUME NEW id \in Ids, Commit(id) PROVE RowInv'
  <2>1. UNCHANGED <<sequence, sessions, jobs>> /\ Rows' = Rows
    BY <1>5 DEF Commit, Rows
  <2>2. CASE UNCHANGED segments
    BY <2>1, <2>2 DEF RowInv
  <2>3. ASSUME NEW length \in 0..1, InsertSegment(id, length) PROVE RowInv'
    <3>1. CASE id \in Rows
      <4> DEFINE new == [of |-> id, ts |-> now, length |-> length]
      <4>1. segments' = segments \cup {new} /\ new.of = id
        BY <2>3, <3>1 DEF InsertSegment
      <4> HIDE DEF new
      <4>2. IsFiniteSet(segments)
        BY DEF RowInv
      <4>3. IsFiniteSet(segments')
        BY <4>1, <4>2, FS_AddElement
      <4> QED BY <2>1, <3>1, <4>1, <4>3 DEF RowInv
    <3>2. CASE id \notin Rows
      BY <2>1, <2>3, <3>2 DEF InsertSegment, RowInv
    <3> QED BY <3>1, <3>2
  <2> QED BY <1>5, <2>2, <2>3 DEF Commit
<1>6. CASE AskForNotes
  <2>1. UNCHANGED <<sequence, sessions, segments>> /\ Rows' = Rows
    BY <1>6 DEF AskForNotes, Rows
  <2>2. PICK id \in Rows : jobs' = jobs \cup {[id |-> id, birth |-> sessions[id].birth]}
    BY <1>6 DEF AskForNotes, GetSession
  <2>3. \A job \in jobs' : job.birth = job.id
    BY <2>2 DEF RowInv
  <2> QED BY <2>1, <2>3 DEF RowInv
<1>7. CASE StoreNotes
  <2>1. PICK job \in jobs : jobs' = jobs \ {job} /\ Update(job.id, "notes", job.birth)
    BY <1>7 DEF StoreNotes
  <2>2. job.birth = job.id /\ UNCHANGED <<sequence, segments>>
    BY <1>7 DEF StoreNotes, RowInv
  <2>3. /\ Rows' = Rows
        /\ \A k \in Rows :
             /\ {"birth", "ended", "notes"} \subseteq DOMAIN sessions'[k]
             /\ sessions'[k].birth = k /\ sessions'[k].notes \in {None, k}
    BY <2>1, <2>2, Updated
  <2> QED BY <2>1, <2>2, <2>3 DEF RowInv
<1>8. CASE NotesFail
  <2>1. UNCHANGED <<sequence, sessions, segments>> /\ jobs' \subseteq jobs
    BY <1>8 DEF NotesFail
  <2> QED BY <2>1 DEF RowInv, Rows
<1>9. ASSUME NEW id \in Rows, segments' = {s \in segments : s.of # id}
      PROVE  /\ IsFiniteSet(segments') /\ \A s \in segments' : s.of \in Rows \ {id}
  BY <1>9, FS_Subset DEF RowInv
<1>10. CASE Delete
  <2>1. PICK id \in Rows :
          /\ segments' = {s \in segments : s.of # id}
          /\ sessions' = [other \in Rows \ {id} |-> sessions[other]]
    BY <1>10 DEF Delete
  <2>2. /\ Rows' = Rows \ {id} /\ \A k \in Rows' : sessions'[k] = sessions[k]
        /\ UNCHANGED <<sequence, jobs>>
    BY <1>10, <2>1 DEF Delete, Rows
  <2>3. IsFiniteSet(segments') /\ \A s \in segments' : s.of \in Rows'
    BY <1>9, <2>1, <2>2
  <2> QED BY <2>2, <2>3 DEF RowInv
<1>11. CASE Exit
  BY <1>11 DEF Exit, Gone, RowInv, Rows
<1>12. CASE ExitInDelete
  <2>1. PICK id \in Rows : segments' = {s \in segments : s.of # id}
    BY <1>12 DEF ExitInDelete
  <2>2. UNCHANGED <<sequence, sessions>> /\ Rows' = Rows /\ jobs' = {}
    BY <1>12 DEF ExitInDelete, Gone, Rows
  <2>3. IsFiniteSet(segments') /\ \A s \in segments' : s.of \in Rows'
    BY <1>9, <2>1, <2>2
  <2> QED BY <2>2, <2>3 DEF RowInv
<1>13. CASE Restart
  <2>1. /\ sessions' = [id \in Rows |->
             IF sessions[id].ended = None THEN [sessions[id] EXCEPT !.ended = OrphanEnd(id)]
             ELSE sessions[id]]
        /\ UNCHANGED <<sequence, segments, jobs>>
    BY <1>13 DEF Restart, CloseOrphans
  <2>2. Rows' = Rows
    BY <2>1 DEF Rows
  <2>3. ASSUME NEW id \in Rows
        PROVE  /\ {"birth", "ended", "notes"} \subseteq DOMAIN sessions'[id]
               /\ sessions'[id].birth = id /\ sessions'[id].notes \in {None, id}
    <3>1. \/ sessions'[id] = sessions[id]
          \/ sessions'[id] = [sessions[id] EXCEPT !.ended = OrphanEnd(id)]
      BY <2>1
    <3> QED BY <3>1 DEF RowInv
  <2> QED BY <2>1, <2>2, <2>3 DEF RowInv
<1>14. CASE UNCHANGED <<sequence, sessions, segments, jobs>>
  BY <1>14 DEF RowInv, Rows
<1>15. CASE StartListen \/ StartDone \/ StopListen \/ ChangeHotwords \/ Tick
  BY <1>14, <1>15 DEF StartListen, StartDone, StopListen, ChangeHotwords, Tick
<1>16. ASSUME NEW id \in DOMAIN finishing, FinishCancels(id) PROVE RowInv'
  BY <1>14, <1>16 DEF FinishCancels
<1>17. ASSUME NEW id \in Ids, Load(id) \/ LoadFails(id) \/ Hear(id) \/ PipelineEnds(id)
       PROVE  RowInv'
  BY <1>14, <1>17 DEF Load, LoadFails, Hear, PipelineEnds
<1>18. CASE UNCHANGED vars
  BY <1>14, <1>18 DEF vars
<1> QED
  BY <1>1, <1>3, <1>4, <1>5, <1>6, <1>7, <1>8, <1>10, <1>11, <1>12, <1>13, <1>15, <1>16,
     <1>17, <1>18 DEF Next

\* What is written of a session, late as it may be, is written of that session
\* and of no other that took its place (session lib.rs:634-800).
THEOREM RowsStayApart == Spec => []RowsAreOfTheirSession
<1>1. RowInv => RowsAreOfTheirSession
  <2> SUFFICES ASSUME RowInv PROVE RowsAreOfTheirSession
    OBVIOUS
  <2>1. ASSUME NEW hit \in segments
        PROVE  \E listed \in ListSessions :
                 /\ listed.id = hit.of /\ listed.segments > 0
                 /\ hit \in GetSession(hit.of).segments
    <3> DEFINE id == hit.of
               own == {s \in segments : s.of = id}
               listed == [id |-> id, ended |-> sessions[id].ended, segments |-> Cardinality(own)]
    <3>1. id \in Rows /\ hit \in own /\ IsFiniteSet(own)
      BY FS_Subset DEF RowInv
    <3>2. Cardinality(own) \in Nat /\ Cardinality(own) # 0
      BY <3>1, FS_CardinalityType, FS_EmptySet
    <3>3. listed \in ListSessions
      BY <3>1 DEF ListSessions
    <3>4. hit \in GetSession(id).segments
      BY <3>1 DEF GetSession
    <3>5. listed.id = id /\ listed.segments = Cardinality(own)
      OBVIOUS
    <3> HIDE DEF listed, own, id
    <3>6. listed.segments > 0
      BY <3>2, <3>5
    <3> QED BY <3>3, <3>4, <3>5, <3>6 DEF id
  <2>2. SegmentsHaveTheirSession
    BY <2>1 DEF SegmentsHaveTheirSession, Search
  <2>3. NotesAreOfTheirSession
    BY DEF RowInv, NotesAreOfTheirSession
  <2> QED BY <2>2, <2>3 DEF RowsAreOfTheirSession
<1> QED BY <1>1, RowInit, RowStep, PTL DEF Spec
--------------------------------------------------------------------------------
\* An engine in the pool was built with the settings it is kept for, is kept
\* once and has heard nothing; nor has one that is not yet built.
PoolInv ==
  /\ DOMAIN built \subseteq Engines
  /\ heard \in [Engines -> SUBSET Ids] /\ pool \in [Hotwords -> Seq(Engines)]
  /\ \A e \in Engines \ DOMAIN built : heard[e] = {}
  /\ \A key \in Hotwords : \A i \in 1..Len(pool[key]) :
       /\ pool[key][i] \in DOMAIN built /\ built[pool[key][i]] = key
       /\ heard[pool[key][i]] = {}
       /\ \A k \in 1..Len(pool[key]) : pool[key][i] = pool[key][k] => i = k

\* Only a pipeline that runs holds an engine.
HolderInv ==
  /\ engine \in [Ids -> Engines \cup {None}]
  /\ pipeline \in [Ids -> {"none", "loading", "running", "gone"}]
  /\ options \in [Ids -> Hotwords \cup {None}]
  /\ \A id \in Ids : engine[id] # None <=> pipeline[id] = "running"
  /\ \A id \in Ids : pipeline[id] \in {"loading", "running"} => options[id] \in Hotwords
  /\ \A id \in Ids : engine[id] # None => engine[id] \in DOMAIN built

\* The session that is being started has a number of its own.
StarterInv ==
  /\ sequence \in Nat /\ sequence <= MaxSessions /\ hotwords \in Hotwords
  /\ \A id \in Ids : pipeline[id] # "none" => id <= sequence
  /\ starter # None =>
       /\ {"step", "hotwords", "id"} \subseteq DOMAIN starter
       /\ starter.hotwords \in Hotwords
       /\ starter.step = "built" => sequence < MaxSessions
       /\ starter.step = "row" => /\ starter.id \in Ids /\ starter.id <= sequence
                                  /\ pipeline[starter.id] = "none"
                                  /\ options[starter.id] \in Hotwords

EngineInv == PoolInv /\ HolderInv /\ StarterInv /\ EngineIsOwn

LEMMA NoneIsNoEngine == None \notin Engines /\ MaxSessions \in Nat
BY SessionsAssumption DEF Engines

LEMMA EngineInit == Init => EngineInv
<1> SUFFICES ASSUME Init PROVE EngineInv
  OBVIOUS
<1>1. PoolInv
  BY DEF Init, PoolInv
<1>2. HolderInv /\ StarterInv
  BY NoneIsNoEngine DEF Init, HolderInv, StarterInv, Ids
<1>3. EngineIsOwn
  BY DEF Init, EngineIsOwn
<1> QED BY <1>1, <1>2, <1>3 DEF EngineInv

LEMMA FrontAndLast ==
  ASSUME NEW S, NEW q \in Seq(S), q # <<>>
  PROVE  /\ Len(q) \in Nat \ {0} /\ Last(q) = q[Len(q)] /\ Last(q) \in S
         /\ Front(q) \in Seq(S) /\ Len(Front(q)) = Len(q) - 1
         /\ \A i \in 1..(Len(q) - 1) : Front(q)[i] = q[i]
<1>1. Len(q) \in Nat \ {0}
  BY EmptySeq
<1> DEFINE n == Len(q) - 1
<1>2. n \in Int /\ 1 \in Int /\ \A i \in 1..n : q[i] \in S
  BY <1>1
<1>3. /\ SubSeq(q, 1, n) \in Seq(S)
      /\ Len(SubSeq(q, 1, n)) = IF 1 <= n THEN n - 1 + 1 ELSE 0
      /\ \A i \in 1..(n - 1 + 1) : SubSeq(q, 1, n)[i] = q[1 + i - 1]
  BY <1>2, SubSeqProperties
<1>4. \A i \in 1..n : SubSeq(q, 1, n)[i] = q[i]
  BY <1>1, <1>3
<1>5. Last(q) = q[Len(q)] /\ Last(q) \in S
  BY <1>1 DEF Last
<1>6. n \in Nat
  BY <1>1
<1>7. Len(SubSeq(q, 1, n)) = n
  <2> HIDE DEF n
  <2>1. CASE 1 <= n
    BY <1>3, <1>6, <2>1
  <2>2. CASE n = 0
    BY <1>3, <2>2
  <2> QED BY <1>6, <2>1, <2>2
<1> QED BY <1>1, <1>3, <1>4, <1>5, <1>7 DEF Front

\* The engine at the top of a pool leaves it.
LEMMA Popped ==
  ASSUME EngineInv, NEW key \in Hotwords, pool[key] # <<>>,
         pool' = [pool EXCEPT ![key] = Front(@)], heard' = heard,
         built' = built \/ built' = [e \in DOMAIN built \ {Last(pool[key])} |-> built[e]]
  PROVE  /\ PoolInv'
         /\ Last(pool[key]) \in DOMAIN built /\ built[Last(pool[key])] = key
         /\ heard[Last(pool[key])] = {}
         /\ \A id \in Ids : engine[id] # Last(pool[key])
         /\ \A k \in Hotwords : ~Contains(pool'[k], Last(pool[key]))
         /\ \A k \in Hotwords : \A e : Contains(pool'[k], e) => Contains(pool[k], e)
<1> DEFINE q == pool[key]
           n == Len(q)
           top == Last(q)
<1>0. pool \in [Hotwords -> Seq(Engines)] /\ q \in Seq(Engines)
  BY DEF EngineInv, PoolInv
<1>1. /\ pool \in [Hotwords -> Seq(Engines)] /\ q \in Seq(Engines) /\ n \in Nat \ {0}
      /\ top = q[n] /\ top \in Engines
      /\ pool'[key] \in Seq(Engines) /\ Len(pool'[key]) = n - 1
      /\ \A i \in 1..(n - 1) : pool'[key][i] = q[i]
      /\ \A k \in Hotwords : k # key => pool'[k] = pool[k]
      /\ pool' \in [Hotwords -> Seq(Engines)]
  <2>1. /\ n \in Nat \ {0} /\ top = q[n] /\ top \in Engines
        /\ Front(q) \in Seq(Engines) /\ Len(Front(q)) = n - 1
        /\ \A i \in 1..(n - 1) : Front(q)[i] = q[i]
    BY <1>0, FrontAndLast
  <2>2. pool'[key] = Front(q) /\ \A k \in Hotwords : k # key => pool'[k] = pool[k]
    BY <1>0
  <2>3. pool' \in [Hotwords -> Seq(Engines)]
    BY <1>0, <2>1
  <2> QED BY <1>0, <2>1, <2>2, <2>3
<1>2. top \in DOMAIN built /\ built[top] = key /\ heard[top] = {}
  BY <1>1 DEF EngineInv, PoolInv
<1>3. \A k \in Hotwords : \A i \in 1..Len(pool'[k]) :
        i \in 1..Len(pool[k]) /\ pool'[k][i] = pool[k][i] /\ pool[k][i] # top
  <2> SUFFICES ASSUME NEW k \in Hotwords, NEW i \in 1..Len(pool'[k])
               PROVE  i \in 1..Len(pool[k]) /\ pool'[k][i] = pool[k][i] /\ pool[k][i] # top
    OBVIOUS
  <2>1. CASE k = key
    <3>1. i \in 1..n /\ i # n /\ pool'[k][i] = q[i]
      BY <1>1, <2>1
    <3>2. q[i] # q[n]
      BY <1>1, <3>1 DEF EngineInv, PoolInv
    <3> QED BY <1>1, <2>1, <3>1, <3>2
  <2>2. CASE k # key
    <3>1. pool'[k] = pool[k] /\ i \in 1..Len(pool[k])
      BY <1>1, <2>2
    <3>2. built[pool[k][i]] = k
      BY <3>1 DEF EngineInv, PoolInv
    <3> QED BY <1>2, <2>2, <3>1, <3>2
  <2> QED BY <2>1, <2>2
<1>4. /\ DOMAIN built' \subseteq DOMAIN built
      /\ \A e \in DOMAIN built : e # top => e \in DOMAIN built' /\ built'[e] = built[e]
  OBVIOUS
<1>5. \A e \in DOMAIN built \ DOMAIN built' : e = top
  BY <1>4
<1>6. PoolInv'
  <2>1. DOMAIN built' \subseteq Engines /\ heard' \in [Engines -> SUBSET Ids]
    BY <1>4 DEF EngineInv, PoolInv
  <2>2. \A e \in Engines \ DOMAIN built' : heard'[e] = {}
    BY <1>2, <1>5 DEF EngineInv, PoolInv
  <2>3. \A k \in Hotwords : \A i \in 1..Len(pool'[k]) :
          /\ pool'[k][i] \in DOMAIN built' /\ built'[pool'[k][i]] = k
          /\ heard'[pool'[k][i]] = {}
    BY <1>3, <1>4 DEF EngineInv, PoolInv
  <2>4. \A k \in Hotwords : \A i, j \in 1..Len(pool'[k]) : pool'[k][i] = pool'[k][j] => i = j
    BY <1>3 DEF EngineInv, PoolInv
  <2> QED BY <1>1, <2>1, <2>2, <2>3, <2>4 DEF PoolInv
<1>7. \A id \in Ids : engine[id] # top
  <2>1. Contains(pool[key], top)
    BY <1>1 DEF Contains
  <2>2. top # None
    BY <1>1, NoneIsNoEngine
  <2> QED BY <2>1, <2>2 DEF EngineInv, EngineIsOwn
<1>8. /\ \A k \in Hotwords : ~Contains(pool'[k], top)
      /\ \A k \in Hotwords : \A e : Contains(pool'[k], e) => Contains(pool[k], e)
  BY <1>3 DEF Contains
<1> QED BY <1>2, <1>6, <1>7, <1>8

\* A pipeline that ends gives its engine back.
LEMMA Released ==
  ASSUME EngineInv, NEW id \in Ids, pipeline[id] = "running", Release(id)
  PROVE  /\ PoolInv' /\ engine' = [engine EXCEPT ![id] = None]
         /\ \A other \in Ids : other # id /\ engine[other] # None =>
              /\ engine[other] \in DOMAIN built' /\ built'[engine[other]] = built[engine[other]]
              /\ heard'[engine[other]] = heard[engine[other]]
              /\ \A k \in Hotwords : ~Contains(pool'[k], engine[other])
<1> DEFINE key == options[id]
           q == pool[key]
           n == Len(q)
           own == engine[id]
<1>1. /\ engine \in [Ids -> Engines \cup {None}] /\ own # None /\ own \in Engines
      /\ own \in DOMAIN built /\ built[own] = key /\ key \in Hotwords
      /\ \A k \in Hotwords : ~Contains(pool[k], own)
      /\ \A other \in Ids : other # id => engine[other] # own
  BY DEF EngineInv, HolderInv, EngineIsOwn
<1>2. /\ pool \in [Hotwords -> Seq(Engines)] /\ q \in Seq(Engines) /\ n \in Nat
      /\ heard \in [Engines -> SUBSET Ids]
  BY <1>1 DEF EngineInv, PoolInv
<1>3. /\ engine' = [engine EXCEPT ![id] = None]
      /\ heard' = [heard EXCEPT ![own] = {}]
      /\ \/ pool' = [pool EXCEPT ![key] = Append(q, own)] /\ built' = built
         \/ built' = [e \in DOMAIN built \ {own} |-> built[e]] /\ pool' = pool
  <2>1. CASE Len(pool[key]) < Capacity
    BY <2>1 DEF Release, Key
  <2>2. CASE ~(Len(pool[key]) < Capacity)
    BY <2>2 DEF Release, Key
  <2> QED BY <2>1, <2>2
<1>4. /\ heard' \in [Engines -> SUBSET Ids] /\ heard'[own] = {}
      /\ \A e \in Engines : e # own => heard'[e] = heard[e]
  BY <1>1, <1>2, <1>3
<1>5. \A k \in Hotwords : \A i \in 1..Len(pool[k]) : pool[k][i] # own
  BY <1>1 DEF Contains
<1> HIDE DEF own, key, q
<1>6. CASE pool' = [pool EXCEPT ![key] = Append(q, own)] /\ built' = built
  <2>1. /\ pool'[key] = Append(q, own) /\ pool'[key] \in Seq(Engines) /\ Len(pool'[key]) = n + 1
        /\ pool'[key][n + 1] = own /\ \A i \in 1..n : pool'[key][i] = q[i]
        /\ \A k \in Hotwords : k # key => pool'[k] = pool[k]
        /\ pool' \in [Hotwords -> Seq(Engines)]
    <3>1. pool'[key] = Append(q, own) /\ \A k \in Hotwords : k # key => pool'[k] = pool[k]
      BY <1>1, <1>2, <1>6
    <3>2. /\ Append(q, own) \in Seq(Engines) /\ Len(Append(q, own)) = n + 1
          /\ Append(q, own)[n + 1] = own /\ \A i \in 1..n : Append(q, own)[i] = q[i]
      BY <1>1, <1>2, AppendProperties
    <3>3. pool' \in [Hotwords -> Seq(Engines)]
      BY <1>2, <1>6, <3>2
    <3> QED BY <3>1, <3>2, <3>3
  <2>2. \A k \in Hotwords : \A i \in 1..Len(pool'[k]) :
          \/ i \in 1..Len(pool[k]) /\ pool'[k][i] = pool[k][i]
          \/ k = key /\ i = n + 1 /\ pool'[k][i] = own
    <3> SUFFICES ASSUME NEW k \in Hotwords, NEW i \in 1..Len(pool'[k])
                 PROVE  \/ i \in 1..Len(pool[k]) /\ pool'[k][i] = pool[k][i]
                        \/ k = key /\ i = n + 1 /\ pool'[k][i] = own
      OBVIOUS
    <3>1. CASE k = key
      BY <1>2, <2>1, <3>1 DEF q
    <3>2. CASE k # key
      BY <2>1, <3>2
    <3> QED BY <3>1, <3>2
  <2>3. \A k \in Hotwords : \A i \in 1..Len(pool'[k]) :
          /\ pool'[k][i] \in DOMAIN built' /\ built'[pool'[k][i]] = k
          /\ heard'[pool'[k][i]] = {}
    <3> SUFFICES ASSUME NEW k \in Hotwords, NEW i \in 1..Len(pool'[k])
                 PROVE  /\ pool'[k][i] \in DOMAIN built' /\ built'[pool'[k][i]] = k
                        /\ heard'[pool'[k][i]] = {}
      OBVIOUS
    <3>1. CASE i \in 1..Len(pool[k]) /\ pool'[k][i] = pool[k][i]
      <4>1. /\ pool[k][i] \in DOMAIN built /\ built[pool[k][i]] = k /\ heard[pool[k][i]] = {}
            /\ pool[k][i] # own /\ pool[k][i] \in Engines
        BY <1>2, <1>5, <3>1 DEF EngineInv, PoolInv
      <4> QED BY <1>4, <1>6, <3>1, <4>1
    <3>2. CASE k = key /\ pool'[k][i] = own
      BY <1>1, <1>4, <1>6, <3>2 DEF own, key
    <3> QED BY <2>2, <3>1, <3>2
  <2>4. \A k \in Hotwords : \A i, j \in 1..Len(pool'[k]) : pool'[k][i] = pool'[k][j] => i = j
    <3> SUFFICES ASSUME NEW k \in Hotwords, NEW i \in 1..Len(pool'[k]), NEW j \in 1..Len(pool'[k]),
                        pool'[k][i] = pool'[k][j]
                 PROVE  i = j
      OBVIOUS
    <3>1. CASE /\ i \in 1..Len(pool[k]) /\ pool'[k][i] = pool[k][i]
               /\ j \in 1..Len(pool[k]) /\ pool'[k][j] = pool[k][j]
      <4>1. \A a, b \in 1..Len(pool[k]) : pool[k][a] = pool[k][b] => a = b
        BY DEF EngineInv, PoolInv
      <4> QED BY <3>1, <4>1
    <3>2. CASE pool'[k][i] = own /\ i = n + 1
      BY <1>5, <2>2, <3>2
    <3>3. CASE pool'[k][j] = own /\ j = n + 1
      BY <1>5, <2>2, <3>3
    <3> QED BY <2>2, <3>1, <3>2, <3>3
  <2>5. \A e \in Engines \ DOMAIN built' : heard'[e] = {}
    BY <1>1, <1>4, <1>6 DEF EngineInv, PoolInv
  <2>6. PoolInv'
    BY <1>4, <1>6, <2>1, <2>3, <2>4, <2>5 DEF EngineInv, PoolInv
  <2>7. \A k \in Hotwords : \A e : e # own /\ ~Contains(pool[k], e) => ~Contains(pool'[k], e)
    BY <2>2 DEF Contains
  <2>8. ASSUME NEW other \in Ids, other # id, engine[other] # None
        PROVE  /\ engine[other] \in DOMAIN built' /\ built'[engine[other]] = built[engine[other]]
               /\ heard'[engine[other]] = heard[engine[other]]
               /\ \A k \in Hotwords : ~Contains(pool'[k], engine[other])
    <3>1. /\ engine[other] \in DOMAIN built /\ engine[other] # own /\ engine[other] \in Engines
          /\ \A k \in Hotwords : ~Contains(pool[k], engine[other])
      BY <1>1, <2>8 DEF EngineInv, HolderInv, EngineIsOwn
    <3> QED BY <1>4, <1>6, <2>7, <3>1
  <2> QED BY <1>3, <2>6, <2>8
<1>7. CASE built' = [e \in DOMAIN built \ {own} |-> built[e]] /\ pool' = pool
  <2>1. /\ DOMAIN built' = DOMAIN built \ {own}
        /\ \A e \in DOMAIN built' : built'[e] = built[e]
    BY <1>7
  <2>2. \A k \in Hotwords : \A i \in 1..Len(pool'[k]) :
          /\ pool'[k][i] \in DOMAIN built' /\ built'[pool'[k][i]] = k
          /\ heard'[pool'[k][i]] = {}
    BY <1>2, <1>4, <1>5, <1>7, <2>1 DEF EngineInv, PoolInv
  <2>3. \A e \in Engines \ DOMAIN built' : heard'[e] = {}
    BY <1>4, <2>1 DEF EngineInv, PoolInv
  <2>6. \A k \in Hotwords : \A i, j \in 1..Len(pool'[k]) : pool'[k][i] = pool'[k][j] => i = j
    BY <1>7 DEF EngineInv, PoolInv
  <2>7. DOMAIN built' \subseteq Engines /\ pool' \in [Hotwords -> Seq(Engines)]
    BY <1>2, <1>7, <2>1 DEF EngineInv, PoolInv
  <2>4. PoolInv'
    BY <1>4, <2>2, <2>3, <2>6, <2>7 DEF PoolInv
  <2>5. ASSUME NEW other \in Ids, other # id, engine[other] # None
        PROVE  /\ engine[other] \in DOMAIN built' /\ built'[engine[other]] = built[engine[other]]
               /\ heard'[engine[other]] = heard[engine[other]]
               /\ \A k \in Hotwords : ~Contains(pool'[k], engine[other])
    <3>1. /\ engine[other] \in DOMAIN built /\ engine[other] # own /\ engine[other] \in Engines
          /\ \A k \in Hotwords : ~Contains(pool[k], engine[other])
      BY <1>1, <2>5 DEF EngineInv, HolderInv, EngineIsOwn
    <3> QED BY <1>4, <1>7, <2>1, <3>1
  <2> QED BY <1>3, <2>4, <2>5
<1> QED BY <1>3, <1>6, <1>7 DEF own, key, q

\* The steps that leave the engines and their holders alone.
LEMMA SameHolders ==
  ASSUME EngineInv, StarterInv', UNCHANGED <<pipeline, options, engine, pool, heard, built>>
  PROVE  EngineInv'
BY DEF EngineInv, PoolInv, HolderInv, EngineIsOwn

LEMMA LoadStep ==
  ASSUME EngineInv, NEW id \in Ids, Load(id)
  PROVE  EngineInv'
<1>1. /\ pipeline[id] = "loading" /\ pipeline' = [pipeline EXCEPT ![id] = "running"]
      /\ engine[id] = None /\ options[id] \in Hotwords
      /\ UNCHANGED <<hotwords, starter, sequence, options>>
  BY DEF Load, EngineInv, HolderInv
<1>2. /\ engine \in [Ids -> Engines \cup {None}]
      /\ pipeline \in [Ids -> {"none", "loading", "running", "gone"}]
      /\ options \in [Ids -> Hotwords \cup {None}]
  BY DEF EngineInv, HolderInv
<1>3. StarterInv'
  BY <1>1, <1>2 DEF EngineInv, StarterInv
<1>4. ASSUME NEW e \in Engines, engine' = [engine EXCEPT ![id] = e], PoolInv', heard' = heard,
             e \in DOMAIN built', built'[e] = options[id], heard[e] = {},
             \A other \in Ids : engine[other] # e,
             \A k \in Hotwords : ~Contains(pool'[k], e),
             \A k \in Hotwords : \A d : Contains(pool'[k], d) => Contains(pool[k], d),
             \A d \in DOMAIN built : d \in DOMAIN built' /\ built'[d] = built[d]
      PROVE  EngineInv'
  <2>1. /\ engine' \in [Ids -> Engines \cup {None}] /\ engine'[id] = e
        /\ \A other \in Ids : other # id => engine'[other] = engine[other]
        /\ pipeline' \in [Ids -> {"none", "loading", "running", "gone"}] /\ pipeline'[id] = "running"
        /\ \A other \in Ids : other # id => pipeline'[other] = pipeline[other]
        /\ e # None
    BY <1>1, <1>2, <1>4, NoneIsNoEngine
  <2>2. HolderInv'
    BY <1>1, <1>2, <1>4, <2>1 DEF EngineInv, HolderInv
  <2>3. EngineIsOwn'
    <3> SUFFICES ASSUME NEW s \in Ids, engine'[s] # None
                 PROVE  /\ built'[engine'[s]] = options'[s]
                        /\ heard'[engine'[s]] \subseteq {s}
                        /\ \A other \in Ids \ {s} : engine'[other] # engine'[s]
                        /\ \A k \in Hotwords : ~Contains(pool'[k], engine'[s])
      BY DEF EngineIsOwn
    <3>1. CASE s = id
      BY <1>1, <1>4, <2>1, <3>1
    <3>2. CASE s # id
      <4>1. /\ engine'[s] = engine[s] /\ engine[s] \in DOMAIN built /\ built[engine[s]] = options[s]
            /\ heard[engine[s]] \subseteq {s}
            /\ \A other \in Ids \ {s} : engine[other] # engine[s]
            /\ \A k \in Hotwords : ~Contains(pool[k], engine[s])
        BY <2>1, <3>2 DEF EngineInv, HolderInv, EngineIsOwn
      <4> QED BY <1>1, <1>4, <2>1, <3>2, <4>1
    <3> QED BY <3>1, <3>2
  <2> QED BY <1>3, <1>4, <2>2, <2>3 DEF EngineInv
<1> DEFINE key == options[id]
           top == Last(pool[key])
           new == CHOOSE e \in Engines : e \notin DOMAIN built
<1>5. CASE /\ pool[key] # <<>>
           /\ engine' = [engine EXCEPT ![id] = top]
           /\ pool' = [pool EXCEPT ![key] = Front(@)]
           /\ UNCHANGED <<heard, built>>
  <2>1. /\ PoolInv'
        /\ top \in DOMAIN built /\ built[top] = key /\ heard[top] = {}
        /\ \A other \in Ids : engine[other] # top
        /\ \A k \in Hotwords : ~Contains(pool'[k], top)
        /\ \A k \in Hotwords : \A e : Contains(pool'[k], e) => Contains(pool[k], e)
    BY <1>1, <1>5, Popped
  <2>2. top \in Engines
    BY <2>1 DEF EngineInv, PoolInv
  <2> HIDE DEF top
  <2> QED BY <1>4, <1>5, <2>1, <2>2
<1>6. CASE /\ Engines \ DOMAIN built # {}
           /\ engine' = [engine EXCEPT ![id] = new]
           /\ built' = [e \in DOMAIN built \cup {new} |-> IF e = new THEN key ELSE built[e]]
           /\ UNCHANGED <<pool, heard>>
  <2>1. new \in Engines /\ new \notin DOMAIN built
    BY <1>6
  <2> HIDE DEF new
  <2>2. /\ DOMAIN built' = DOMAIN built \cup {new} /\ built'[new] = key
        /\ \A e \in DOMAIN built : built'[e] = built[e] /\ e # new
        /\ heard[new] = {}
    BY <1>6, <2>1 DEF EngineInv, PoolInv
  <2>3. \A k \in Hotwords : ~Contains(pool'[k], new)
    BY <1>6, <2>1 DEF EngineInv, PoolInv, Contains
  <2>4. \A other \in Ids : engine[other] # new
    BY <2>1, NoneIsNoEngine DEF EngineInv, HolderInv
  <2>5. PoolInv'
    <3>1. \A k \in Hotwords : \A i \in 1..Len(pool'[k]) :
            /\ pool'[k][i] \in DOMAIN built' /\ built'[pool'[k][i]] = k
            /\ heard'[pool'[k][i]] = {}
      BY <1>6, <2>2 DEF EngineInv, PoolInv
    <3>2. \A k \in Hotwords : \A i, j \in 1..Len(pool'[k]) : pool'[k][i] = pool'[k][j] => i = j
      BY <1>6 DEF EngineInv, PoolInv
    <3>3. /\ DOMAIN built' \subseteq Engines
          /\ heard' \in [Engines -> SUBSET Ids] /\ pool' \in [Hotwords -> Seq(Engines)]
          /\ \A e \in Engines \ DOMAIN built' : heard'[e] = {}
      BY <1>6, <2>1, <2>2 DEF EngineInv, PoolInv
    <3> QED BY <3>1, <3>2, <3>3 DEF PoolInv
  <2> QED BY <1>4, <1>6, <2>1, <2>2, <2>3, <2>4, <2>5
<1> QED BY <1>5, <1>6 DEF Load, Acquire, Key

LEMMA ReleaseStep ==
  ASSUME EngineInv, NEW id \in Ids, PipelineEnds(id)
  PROVE  EngineInv'
<1>1. /\ pipeline[id] = "running" /\ pipeline' = [pipeline EXCEPT ![id] = "gone"] /\ Release(id)
      /\ UNCHANGED <<hotwords, starter, sequence, options>>
  BY DEF PipelineEnds
<1>2. /\ engine \in [Ids -> Engines \cup {None}]
      /\ pipeline \in [Ids -> {"none", "loading", "running", "gone"}]
      /\ options \in [Ids -> Hotwords \cup {None}]
  BY DEF EngineInv, HolderInv
<1>3. StarterInv'
  BY <1>1, <1>2 DEF EngineInv, StarterInv
<1>4. /\ PoolInv' /\ engine' = [engine EXCEPT ![id] = None]
      /\ \A other \in Ids : other # id /\ engine[other] # None =>
           /\ engine[other] \in DOMAIN built' /\ built'[engine[other]] = built[engine[other]]
           /\ heard'[engine[other]] = heard[engine[other]]
           /\ \A k \in Hotwords : ~Contains(pool'[k], engine[other])
  BY <1>1, Released
<1>5. /\ engine' \in [Ids -> Engines \cup {None}] /\ engine'[id] = None
      /\ \A other \in Ids : other # id => engine'[other] = engine[other]
      /\ pipeline' \in [Ids -> {"none", "loading", "running", "gone"}] /\ pipeline'[id] = "gone"
      /\ \A other \in Ids : other # id => pipeline'[other] = pipeline[other]
  BY <1>1, <1>2, <1>4
<1>6. HolderInv'
  BY <1>1, <1>2, <1>4, <1>5 DEF EngineInv, HolderInv
<1>7. EngineIsOwn'
  <2> SUFFICES ASSUME NEW s \in Ids, engine'[s] # None
               PROVE  /\ built'[engine'[s]] = options'[s]
                      /\ heard'[engine'[s]] \subseteq {s}
                      /\ \A other \in Ids \ {s} : engine'[other] # engine'[s]
                      /\ \A k \in Hotwords : ~Contains(pool'[k], engine'[s])
    BY DEF EngineIsOwn
  <2>1. s # id /\ engine'[s] = engine[s]
    BY <1>5
  <2>2. /\ built[engine[s]] = options[s] /\ heard[engine[s]] \subseteq {s}
        /\ \A other \in Ids \ {s} : engine[other] # engine[s]
    BY <2>1 DEF EngineInv, EngineIsOwn
  <2> QED BY <1>1, <1>4, <1>5, <2>1, <2>2
<1> QED BY <1>3, <1>4, <1>6, <1>7 DEF EngineInv

\* What the engine of a running session hears changes.
LEMMA HeardStep ==
  ASSUME EngineInv, NEW id \in Ids, pipeline[id] = "running", NEW S \in SUBSET {id},
         heard' = [heard EXCEPT ![engine[id]] = S],
         UNCHANGED <<hotwords, starter, sequence, pipeline, options, engine, pool, built>>
  PROVE  EngineInv'
<1>1. /\ engine[id] \in Engines /\ engine[id] \in DOMAIN built /\ engine[id] # None
      /\ heard \in [Engines -> SUBSET Ids]
      /\ \A k \in Hotwords : ~Contains(pool[k], engine[id])
      /\ \A other \in Ids \ {id} : engine[other] # engine[id]
  BY DEF EngineInv, HolderInv, PoolInv, EngineIsOwn
<1>2. /\ heard' \in [Engines -> SUBSET Ids] /\ heard'[engine[id]] = S
      /\ \A e \in Engines : e # engine[id] => heard'[e] = heard[e]
  BY <1>1
<1>3. PoolInv'
  <2>1. \A k \in Hotwords : \A i \in 1..Len(pool[k]) : pool[k][i] # engine[id]
    BY <1>1 DEF Contains
  <2>2. \A k \in Hotwords : \A i \in 1..Len(pool[k]) : heard'[pool[k][i]] = {}
    BY <1>2, <2>1 DEF EngineInv, PoolInv
  <2>3. \A e \in Engines \ DOMAIN built : heard'[e] = {}
    BY <1>1, <1>2 DEF EngineInv, PoolInv
  <2> QED BY <1>2, <2>2, <2>3 DEF EngineInv, PoolInv
<1>4. EngineIsOwn'
  <2>1. ASSUME NEW s \in Ids, engine[s] # None PROVE heard'[engine[s]] \subseteq {s}
    <3>1. CASE s = id
      BY <1>2, <3>1
    <3>2. CASE s # id
      BY <1>1, <1>2, <2>1, <3>2 DEF EngineInv, HolderInv, EngineIsOwn
    <3> QED BY <3>1, <3>2
  <2> QED BY <2>1 DEF EngineInv, EngineIsOwn
<1>5. HolderInv' /\ StarterInv'
  BY DEF EngineInv, HolderInv, StarterInv
<1> QED BY <1>3, <1>4, <1>5 DEF EngineInv

LEMMA LoadFailsStep ==
  ASSUME EngineInv, NEW id \in Ids, LoadFails(id)
  PROVE  EngineInv'
<1> DEFINE key == options[id]
           top == Last(pool[key])
<1>1. /\ pipeline[id] = "loading" /\ pipeline' = [pipeline EXCEPT ![id] = "gone"]
      /\ engine[id] = None /\ key \in Hotwords
      /\ UNCHANGED <<hotwords, starter, sequence, options, engine, heard>>
  BY DEF LoadFails, EngineInv, HolderInv
<1>2. /\ pipeline' \in [Ids -> {"none", "loading", "running", "gone"}] /\ pipeline'[id] = "gone"
      /\ \A other \in Ids : other # id => pipeline'[other] = pipeline[other]
  BY <1>1 DEF EngineInv, HolderInv
<1>3. StarterInv'
  BY <1>1, <1>2 DEF EngineInv, StarterInv
<1>4. /\ PoolInv'
      /\ \A e \in DOMAIN built :
           (\E s \in Ids : engine[s] = e) => e \in DOMAIN built' /\ built'[e] = built[e]
      /\ \A k \in Hotwords : \A e : Contains(pool'[k], e) => Contains(pool[k], e)
  <2>1. CASE UNCHANGED <<pool, built>>
    BY <1>1, <2>1 DEF EngineInv, PoolInv
  <2>2. CASE /\ pool[key] # <<>>
             /\ pool' = [pool EXCEPT ![key] = Front(@)]
             /\ built' = [e \in DOMAIN built \ {top} |-> built[e]]
    <3>1. /\ PoolInv' /\ \A s \in Ids : engine[s] # top
          /\ \A k \in Hotwords : \A e : Contains(pool'[k], e) => Contains(pool[k], e)
      BY <1>1, <2>2, Popped
    <3> HIDE DEF top
    <3> QED BY <2>2, <3>1
  <2> QED BY <2>1, <2>2 DEF LoadFails, Key
<1>5. HolderInv'
  BY <1>1, <1>2, <1>4 DEF EngineInv, HolderInv
<1>6. EngineIsOwn'
  <2> SUFFICES ASSUME NEW s \in Ids, engine[s] # None
               PROVE  /\ built'[engine[s]] = options[s]
                      /\ heard[engine[s]] \subseteq {s}
                      /\ \A other \in Ids \ {s} : engine[other] # engine[s]
                      /\ \A k \in Hotwords : ~Contains(pool'[k], engine[s])
    BY <1>1 DEF EngineIsOwn
  <2>1. /\ engine[s] \in DOMAIN built /\ built[engine[s]] = options[s]
        /\ heard[engine[s]] \subseteq {s}
        /\ \A other \in Ids \ {s} : engine[other] # engine[s]
        /\ \A k \in Hotwords : ~Contains(pool[k], engine[s])
    BY DEF EngineInv, HolderInv, EngineIsOwn
  <2> QED BY <1>4, <2>1
<1> QED BY <1>3, <1>4, <1>5, <1>6 DEF EngineInv

LEMMA GoneStep ==
  ASSUME EngineInv, Gone, UNCHANGED <<hotwords, sequence, options>>
  PROVE  EngineInv'
<1>1. /\ starter' = None /\ engine' = [id \in Ids |-> None] /\ jobs' = {}
      /\ pipeline' = [id \in Ids |-> IF pipeline[id] = "none" THEN "none" ELSE "gone"]
      /\ pool' = [key \in Hotwords |-> <<>>] /\ heard' = [e \in Engines |-> {}]
      /\ built' = [e \in {} |-> None]
  BY DEF Gone
<1>2. PoolInv'
  BY <1>1 DEF PoolInv
<1>3. HolderInv'
  BY <1>1 DEF EngineInv, HolderInv
<1>4. StarterInv'
  BY <1>1 DEF EngineInv, StarterInv
<1>5. EngineIsOwn'
  BY <1>1 DEF EngineIsOwn
<1> QED BY <1>2, <1>3, <1>4, <1>5 DEF EngineInv

LEMMA StartRowStep ==
  ASSUME EngineInv, StartRow
  PROVE  EngineInv'
<1>1. /\ starter # None /\ starter.step = "built" /\ starter.hotwords \in Hotwords
      /\ {"step", "hotwords", "id"} \subseteq DOMAIN starter
      /\ sequence \in Nat /\ sequence < MaxSessions /\ sequence' = sequence + 1
      /\ starter' = [starter EXCEPT !.step = "row", !.id = NextId]
      /\ options' = [options EXCEPT ![NextId] = starter.hotwords]
      /\ UNCHANGED <<hotwords, pipeline, engine, pool, heard, built>>
  BY DEF StartRow, InsertSession, EngineInv, StarterInv
<1>2. NextId \in Ids /\ NextId = sequence'
  BY <1>1, NoneIsNoEngine DEF NextId, Ids
<1>3. pipeline[NextId] = "none" /\ engine[NextId] = None
  BY <1>1, <1>2 DEF EngineInv, HolderInv, StarterInv, NextId
<1>4. /\ options' \in [Ids -> Hotwords \cup {None}] /\ options'[NextId] = starter.hotwords
      /\ \A id \in Ids : id # NextId => options'[id] = options[id]
  BY <1>1, <1>2 DEF EngineInv, HolderInv
<1>5. PoolInv'
  BY <1>1 DEF EngineInv, PoolInv
<1>6. HolderInv'
  BY <1>1, <1>3, <1>4 DEF EngineInv, HolderInv
<1>7. StarterInv'
  <2>1. /\ starter'.step = "row" /\ starter'.id = NextId
        /\ starter'.hotwords = starter.hotwords /\ DOMAIN starter' = DOMAIN starter
    BY <1>1
  <2>2. sequence' \in Nat /\ sequence' <= MaxSessions
    BY <1>1, NoneIsNoEngine
  <2>3. \A id \in Ids : pipeline'[id] # "none" => id <= sequence'
    BY <1>1 DEF EngineInv, StarterInv, Ids
  <2> QED
    BY <1>1, <1>2, <1>3, <1>4, <2>1, <2>2, <2>3 DEF EngineInv, StarterInv
<1>8. EngineIsOwn'
  <2>1. ASSUME NEW id \in Ids, engine[id] # None PROVE options'[id] = options[id]
    BY <1>3, <1>4, <2>1
  <2> QED BY <1>1, <2>1 DEF EngineInv, EngineIsOwn
<1> QED BY <1>5, <1>6, <1>7, <1>8 DEF EngineInv

LEMMA StartDoneStep ==
  ASSUME EngineInv, StartDone
  PROVE  EngineInv'
<1> DEFINE id == starter.id
<1>1. /\ id \in Ids /\ id <= sequence /\ options[id] \in Hotwords
      /\ pipeline[id] = "none" /\ engine[id] = None /\ starter' = None
      /\ pipeline' = [pipeline EXCEPT ![id] = "loading"]
      /\ UNCHANGED <<hotwords, sequence, options, engine, pool, heard, built>>
  BY DEF StartDone, EngineInv, HolderInv, StarterInv
<1> HIDE DEF id
<1>2. /\ pipeline' \in [Ids -> {"none", "loading", "running", "gone"}] /\ pipeline'[id] = "loading"
      /\ \A other \in Ids : other # id => pipeline'[other] = pipeline[other]
  BY <1>1 DEF EngineInv, HolderInv
<1>3. PoolInv'
  BY <1>1 DEF EngineInv, PoolInv
<1>4. HolderInv'
  BY <1>1, <1>2 DEF EngineInv, HolderInv
<1>5. StarterInv'
  BY <1>1, <1>2 DEF EngineInv, StarterInv
<1>6. EngineIsOwn'
  BY <1>1 DEF EngineInv, EngineIsOwn
<1> QED BY <1>3, <1>4, <1>5, <1>6 DEF EngineInv

LEMMA EngineStep ==
  ASSUME EngineInv, [Next]_vars
  PROVE  EngineInv'
<1>1. ASSUME UNCHANGED <<hotwords, starter, sequence, pipeline, options, engine, pool, heard, built>>
      PROVE  EngineInv'
  <2>1. StarterInv'
    BY <1>1 DEF EngineInv, StarterInv
  <2> QED BY <1>1, <2>1, SameHolders
<1>2. CASE StartListen
  <2>1. /\ starter' = [step |-> "built", hotwords |-> hotwords, id |-> None]
        /\ sequence < MaxSessions
        /\ UNCHANGED <<hotwords, sequence, pipeline, options, engine, pool, heard, built>>
    BY <1>2 DEF StartListen
  <2>2. StarterInv'
    BY <2>1 DEF EngineInv, StarterInv
  <2> QED BY <2>1, <2>2, SameHolders
<1>3. CASE StartFails
  <2>1. /\ starter' = None
        /\ UNCHANGED <<hotwords, sequence, pipeline, options, engine, pool, heard, built>>
    BY <1>3 DEF StartFails
  <2>2. StarterInv'
    BY <2>1 DEF EngineInv, StarterInv
  <2> QED BY <2>1, <2>2, SameHolders
<1>4. CASE ChangeHotwords
  <2>1. /\ hotwords' \in Hotwords
        /\ UNCHANGED <<starter, sequence, pipeline, options, engine, pool, heard, built>>
    BY <1>4 DEF ChangeHotwords
  <2>2. StarterInv'
    BY <2>1 DEF EngineInv, StarterInv
  <2> QED BY <2>1, <2>2, SameHolders
<1>5. ASSUME NEW id \in Ids, Hear(id) PROVE EngineInv'
  <2>1. /\ pipeline[id] = "running" /\ heard' = [heard EXCEPT ![engine[id]] = {id}]
        /\ UNCHANGED <<hotwords, starter, sequence, pipeline, options, engine, pool, built>>
    BY <1>5 DEF Hear
  <2> QED BY <2>1, HeardStep
<1>6. ASSUME NEW id \in Ids, Commit(id) PROVE EngineInv'
  <2>1. /\ pipeline[id] = "running" /\ heard' = [heard EXCEPT ![engine[id]] = {}]
        /\ UNCHANGED <<hotwords, starter, sequence, pipeline, options, engine, pool, built>>
    BY <1>6 DEF Commit
  <2>2. {} \in SUBSET {id}
    OBVIOUS
  <2> QED BY <2>1, <2>2, HeardStep
<1>7. CASE Exit \/ ExitInDelete
  <2>1. Gone /\ UNCHANGED <<hotwords, sequence, options>>
    BY <1>7 DEF Exit, ExitInDelete
  <2> QED BY <2>1, GoneStep
<1>8. CASE StopListen \/ AskForNotes \/ StoreNotes \/ NotesFail \/ Delete \/ Restart \/ Tick
  BY <1>1, <1>8 DEF StopListen, AskForNotes, StoreNotes, NotesFail, Delete, Restart, Tick
<1>9. ASSUME NEW id \in DOMAIN finishing, FinishCancels(id) \/ FinishEnds(id) PROVE EngineInv'
  BY <1>1, <1>9 DEF FinishCancels, FinishEnds
<1>10. CASE UNCHANGED vars
  BY <1>1, <1>10 DEF vars
<1> QED
  BY <1>2, <1>3, <1>4, <1>5, <1>6, <1>7, <1>8, <1>9, <1>10, StartRowStep, StartDoneStep,
     LoadStep, LoadFailsStep, ReleaseStep DEF Next

\* Sessions that overlap share the pool and no engine: each stream's was built
\* with the settings of its session and has heard nobody else (asr lib.rs:596-650,
\* pipeline lib.rs:406 and 894).
THEOREM EnginesAreOwn == Spec => []EngineIsOwn
<1>1. EngineInv => EngineIsOwn
  BY DEF EngineInv
<1> QED BY <1>1, EngineInit, EngineStep, PTL DEF Spec
--------------------------------------------------------------------------------
\* What a row's end is compared with: times are numbers, and no session is
\* listened to while another is started.
TimesInv ==
  /\ now \in Nat
  /\ \A id \in Rows :
       {"started", "ended"} \subseteq DOMAIN sessions[id] /\ sessions[id].started \in Nat
  /\ \A s \in segments : s.ts \in Nat /\ s.length \in Nat

StartInv ==
  /\ hotwords \in Hotwords /\ starter \in Starters \cup {None}
  /\ starter # None => /\ slot = None
                       /\ starter.step = "built" => starter.id = None

OwnerInv == RowInv /\ TimesInv /\ StartInv /\ OpenHasOwner

LEMMA OwnerInit == Init => OwnerInv
BY RowInit, SessionsAssumption DEF Init, OwnerInv, TimesInv, StartInv, OpenHasOwner, Rows

LEMMA NoneIsNoRow == ASSUME RowInv PROVE None \notin Rows /\ None \notin Nat
<1>1. None \notin Nat
  BY SessionsAssumption
<1>2. \A id \in 1..sequence : id \in Nat
  BY DEF RowInv
<1> QED BY <1>1, <1>2 DEF RowInv

\* The time at which an orphan is said to have ended is a number.
LEMMA OrphanEndIsTime ==
  ASSUME RowInv, TimesInv, NEW id \in Rows
  PROVE  OrphanEnd(id) \in Nat
<1> DEFINE own == {t \in segments : t.of = id}
           last == {s.ts + s.length : s \in own}
           f == [s \in own |-> s.ts + s.length]
<1>1. IsFiniteSet(own)
  BY FS_Subset DEF RowInv
<1>2. last \subseteq Nat
  BY DEF TimesInv
<1>3. f \in Surjection(own, last)
  BY DEF Surjection
<1>4. IsFiniteSet(last)
  <2> HIDE DEF own, last, f
  <2> QED BY <1>1, <1>3, FS_Surjection
<1>5. OrphanEnd(id) = sessions[id].started + IF last = {} THEN 0 ELSE Max(last)
  BY DEF OrphanEnd
<1> HIDE DEF own, last, f
<1>6. last # {} => Max(last) \in Nat
  <2>1. last # {} => \E x \in last : \A y \in last : x >= y
    BY <1>2, <1>4, LargestNumber
  <2> QED BY <1>2, <2>1 DEF Max
<1>7. sessions[id].started \in Nat
  BY DEF TimesInv
<1> QED BY <1>5, <1>6, <1>7

LEMMA WrittenIs ==
  ASSUME NEW id, NEW column \in {"ended", "notes"}, NEW value, Update(id, column, value), TimesInv
  PROVE  /\ Rows' = Rows
         /\ \A k \in Rows :
              /\ {"started", "ended"} \subseteq DOMAIN sessions'[k]
              /\ sessions'[k].started = sessions[k].started
              /\ sessions'[k].ended = IF k = id /\ column = "ended" THEN value
                                      ELSE sessions[k].ended
<1>1. CASE id \notin Rows
  BY <1>1 DEF Update, TimesInv, Rows
<1>2. CASE id \in Rows
  <2>1. sessions' = [sessions EXCEPT ![id] = [sessions[id] EXCEPT ![column] = value]]
    BY <1>2 DEF Update
  <2>2. Rows' = Rows
    BY <2>1 DEF Rows
  <2>3. ASSUME NEW k \in Rows, k # id PROVE sessions'[k] = sessions[k]
    BY <2>1, <2>3 DEF Rows
  <2>4. sessions'[id] = [sessions[id] EXCEPT ![column] = value]
    BY <1>2, <2>1 DEF Rows
  <2>5. {"started", "ended"} \subseteq DOMAIN sessions[id]
    BY <1>2 DEF TimesInv
  <2>6. /\ {"started", "ended"} \subseteq DOMAIN sessions'[id]
        /\ sessions'[id].started = sessions[id].started
        /\ sessions'[id].ended = IF column = "ended" THEN value ELSE sessions[id].ended
    <3>1. CASE column = "ended"
      BY <2>4, <2>5, <3>1
    <3>2. CASE column = "notes"
      BY <2>4, <2>5, <3>2
    <3> QED BY <3>1, <3>2
  <2> QED BY <2>2, <2>3, <2>6 DEF TimesInv
<1> QED BY <1>1, <1>2

\* A session that is ended has an end or is one whose end could not be written.
LEMMA EndStep ==
  ASSUME OwnerInv, NEW id, EndSession(id), UNCHANGED <<process, now, segments>>,
         \A k : k # id =>
           /\ (starter # None /\ starter.id = k) => (starter # None /\ starter.id = k)'
           /\ k = slot => k = slot'
           /\ k \in DOMAIN finishing => k \in DOMAIN finishing'
  PROVE  TimesInv' /\ OpenHasOwner'
<1>1. CASE Update(id, "ended", now) /\ UNCHANGED unclosed
  <2>1. /\ Rows' = Rows
        /\ \A k \in Rows :
             /\ {"started", "ended"} \subseteq DOMAIN sessions'[k]
             /\ sessions'[k].started = sessions[k].started
             /\ sessions'[k].ended = IF k = id THEN now ELSE sessions[k].ended
    BY <1>1, WrittenIs DEF OwnerInv
  <2>2. TimesInv'
    BY <2>1 DEF OwnerInv, TimesInv
  <2>3. now # None
    BY NoneIsNoRow DEF OwnerInv, TimesInv
  <2> QED BY <1>1, <2>1, <2>2, <2>3 DEF OwnerInv, OpenHasOwner
<1>2. CASE unclosed' = unclosed \cup {id} /\ UNCHANGED sessions
  BY <1>2 DEF OwnerInv, TimesInv, OpenHasOwner, Rows
<1> QED BY <1>1, <1>2 DEF EndSession

\* A step that gives no row another end, and takes no session from its owner.
LEMMA SameOwners ==
  ASSUME OwnerInv, process' = "up" => process = "up", UNCHANGED <<now, segments>>,
         Rows' \subseteq Rows, \A id \in Rows' : sessions'[id] = sessions[id],
         \A k \in Rows :
           \/ ~(\/ starter # None /\ starter.id = k
                \/ k = slot \/ k \in DOMAIN finishing \/ k \in unclosed)
           \/ starter' # None /\ starter'.id = k
           \/ k = slot' \/ k \in DOMAIN finishing' \/ k \in unclosed'
  PROVE  TimesInv' /\ OpenHasOwner'
BY DEF OwnerInv, TimesInv, OpenHasOwner

LEMMA OwnerStep ==
  ASSUME OwnerInv, [Next]_vars
  PROVE  OwnerInv'
<1>1. RowInv'
  BY RowStep DEF OwnerInv
<1> SUFFICES TimesInv' /\ StartInv' /\ OpenHasOwner'
  BY <1>1 DEF OwnerInv
<1>2. None \notin Rows /\ None \notin Nat
  BY NoneIsNoRow DEF OwnerInv
<1>3. CASE StartListen
  <2>1. /\ starter = None /\ slot = None
        /\ starter' = [step |-> "built", hotwords |-> hotwords, id |-> None]
        /\ UNCHANGED <<process, now, hotwords, segments, sessions, slot, finishing, unclosed>>
    BY <1>3 DEF StartListen
  <2>2. StartInv'
    BY <2>1 DEF OwnerInv, StartInv, Starters
  <2> QED BY <2>1, <2>2, SameOwners DEF Rows
<1>4. CASE StartRow
  <2> DEFINE row == [birth |-> NextId, started |-> now, ended |-> None, notes |-> None]
  <2>1. /\ starter # None /\ starter.step = "built"
        /\ starter' = [starter EXCEPT !.step = "row", !.id = NextId]
        /\ sessions' = [id \in Rows \cup {NextId} |->
             IF id = NextId THEN [birth |-> sequence + 1, started |-> now, ended |-> None,
                                  notes |-> None]
             ELSE sessions[id]]
        /\ UNCHANGED <<process, now, hotwords, segments, slot, finishing, unclosed>>
    BY <1>4 DEF StartRow, InsertSession
  <2>2. starter.id = None /\ slot = None /\ starter \in Starters /\ NextId \in Nat
    BY <2>1 DEF OwnerInv, StartInv, RowInv, NextId
  <2>3. starter' \in Starters /\ starter'.step = "row" /\ starter'.id = NextId
    BY <2>1, <2>2 DEF Starters
  <2>4. /\ Rows' = Rows \cup {NextId}
        /\ \A id \in Rows : id # NextId => sessions'[id] = sessions[id]
        /\ {"started", "ended"} \subseteq DOMAIN sessions'[NextId]
        /\ sessions'[NextId].started = now
    BY <2>1 DEF Rows
  <2>5. starter' # None
    BY <2>3, SessionsAssumption
  <2>6. StartInv'
    BY <2>1, <2>2, <2>3 DEF OwnerInv, StartInv
  <2>7. TimesInv'
    BY <2>1, <2>4 DEF OwnerInv, TimesInv
  <2>8. OpenHasOwner'
    BY <1>2, <2>1, <2>2, <2>3, <2>4, <2>5 DEF OwnerInv, OpenHasOwner
  <2> QED BY <2>6, <2>7, <2>8
<1>5. CASE StartDone
  <2>1. /\ starter # None /\ slot' = starter.id /\ starter' = None
        /\ UNCHANGED <<process, now, hotwords, segments, sessions, finishing, unclosed>>
    BY <1>5 DEF StartDone
  <2>2. slot = None
    BY <2>1 DEF OwnerInv, StartInv
  <2>3. StartInv'
    BY <2>1 DEF OwnerInv, StartInv
  <2> QED BY <1>2, <2>1, <2>2, <2>3, SameOwners DEF Rows
<1>6. CASE StartFails
  <2>1. /\ starter' = None /\ EndSession(starter.id)
        /\ UNCHANGED <<process, now, hotwords, segments, slot, finishing>>
    BY <1>6 DEF StartFails
  <2>2. StartInv'
    BY <2>1 DEF OwnerInv, StartInv
  <2> QED BY <2>1, <2>2, EndStep
<1>7. CASE StopListen
  <2>1. /\ starter = None
        /\ finishing' = [id \in DOMAIN finishing \cup {slot} |->
                           IF id = slot THEN "taken" ELSE finishing[id]]
        /\ UNCHANGED <<process, now, hotwords, segments, sessions, starter, unclosed>>
    BY <1>7 DEF StopListen
  <2>2. StartInv'
    BY <2>1 DEF OwnerInv, StartInv
  <2> QED BY <2>1, <2>2, SameOwners DEF Rows
<1>8. ASSUME NEW id \in DOMAIN finishing, FinishCancels(id)
      PROVE  TimesInv' /\ StartInv' /\ OpenHasOwner'
  <2>1. /\ finishing' = [finishing EXCEPT ![id] = "joining"]
        /\ UNCHANGED <<process, now, hotwords, segments, sessions, starter, slot, unclosed>>
    BY <1>8 DEF FinishCancels
  <2>2. StartInv'
    BY <2>1 DEF OwnerInv, StartInv
  <2> QED BY <2>1, <2>2, SameOwners DEF Rows
<1>9. ASSUME NEW id \in DOMAIN finishing, FinishEnds(id)
      PROVE  TimesInv' /\ StartInv' /\ OpenHasOwner'
  <2>1. /\ finishing' = [other \in DOMAIN finishing \ {id} |-> finishing[other]]
        /\ EndSession(id) /\ UNCHANGED <<process, now, hotwords, segments, starter, slot>>
    BY <1>9 DEF FinishEnds, Without
  <2>2. StartInv'
    BY <2>1 DEF OwnerInv, StartInv
  <2> QED BY <2>1, <2>2, EndStep
<1>10. ASSUME NEW id \in Ids, Commit(id)
       PROVE  TimesInv' /\ StartInv' /\ OpenHasOwner'
  <2>1. UNCHANGED <<process, now, hotwords, sessions, starter, slot, finishing, unclosed>>
    BY <1>10 DEF Commit
  <2>2. \A s \in segments' : s.ts \in Nat /\ s.length \in Nat
    <3>1. CASE UNCHANGED segments
      BY <3>1 DEF OwnerInv, TimesInv
    <3>2. ASSUME NEW length \in 0..1, InsertSegment(id, length)
          PROVE  \A s \in segments' : s.ts \in Nat /\ s.length \in Nat
      BY <3>2 DEF InsertSegment, OwnerInv, TimesInv
    <3> QED BY <1>10, <3>1, <3>2 DEF Commit
  <2> QED BY <2>1, <2>2 DEF OwnerInv, TimesInv, StartInv, OpenHasOwner, Rows
<1>11. CASE StoreNotes
  <2>1. PICK job \in jobs : Update(job.id, "notes", job.birth)
    BY <1>11 DEF StoreNotes
  <2>2. UNCHANGED <<process, now, hotwords, segments, starter, slot, finishing, unclosed>>
    BY <1>11 DEF StoreNotes
  <2>3. /\ Rows' = Rows
        /\ \A k \in Rows :
             /\ {"started", "ended"} \subseteq DOMAIN sessions'[k]
             /\ sessions'[k].started = sessions[k].started
             /\ sessions'[k].ended = sessions[k].ended
    BY <2>1, WrittenIs DEF OwnerInv
  <2> QED BY <2>2, <2>3 DEF OwnerInv, TimesInv, StartInv, OpenHasOwner
<1>12. CASE Delete
  <2>1. PICK id \in Rows :
          /\ segments' = {s \in segments : s.of # id}
          /\ sessions' = [other \in Rows \ {id} |-> sessions[other]]
    BY <1>12 DEF Delete
  <2>2. /\ Rows' = Rows \ {id} /\ \A k \in Rows' : sessions'[k] = sessions[k]
        /\ UNCHANGED <<process, now, hotwords, starter, slot, finishing, unclosed>>
    BY <1>12, <2>1 DEF Delete, Rows
  <2> QED BY <2>1, <2>2 DEF OwnerInv, TimesInv, StartInv, OpenHasOwner
<1>13. CASE Exit \/ ExitInDelete
  <2>1. /\ process' = "down" /\ starter' = None /\ UNCHANGED <<now, hotwords, sessions>>
        /\ segments' \subseteq segments
    BY <1>13 DEF Exit, ExitInDelete, Gone
  <2> QED BY <2>1 DEF OwnerInv, TimesInv, StartInv, OpenHasOwner, Rows
<1>14. CASE Restart
  <2>1. /\ sessions' = [id \in Rows |->
             IF sessions[id].ended = None THEN [sessions[id] EXCEPT !.ended = OrphanEnd(id)]
             ELSE sessions[id]]
        /\ UNCHANGED <<now, hotwords, segments, starter, slot>>
    BY <1>14 DEF Restart, CloseOrphans
  <2>2. Rows' = Rows
    BY <2>1 DEF Rows
  <2>3. ASSUME NEW id \in Rows
        PROVE  /\ {"started", "ended"} \subseteq DOMAIN sessions'[id]
               /\ sessions'[id].started \in Nat /\ sessions'[id].ended # None
    <3>1. {"started", "ended"} \subseteq DOMAIN sessions[id] /\ sessions[id].started \in Nat
      BY DEF OwnerInv, TimesInv
    <3>2. CASE sessions[id].ended # None
      BY <2>1, <3>1, <3>2
    <3>3. CASE sessions[id].ended = None
      <4>1. sessions'[id] = [sessions[id] EXCEPT !.ended = OrphanEnd(id)]
        BY <2>1, <3>3
      <4>2. OrphanEnd(id) # None
        BY <1>2, OrphanEndIsTime DEF OwnerInv
      <4> QED BY <3>1, <4>1, <4>2
    <3> QED BY <3>2, <3>3
  <2> QED BY <2>1, <2>2, <2>3 DEF OwnerInv, TimesInv, StartInv, OpenHasOwner
<1>15. CASE Tick
  BY <1>15 DEF Tick, OwnerInv, TimesInv, StartInv, OpenHasOwner, Rows
<1>16. ASSUME UNCHANGED <<process, now, hotwords, starter, slot, finishing, sessions, segments,
                          unclosed>>
       PROVE  TimesInv' /\ StartInv' /\ OpenHasOwner'
  BY <1>16 DEF OwnerInv, TimesInv, StartInv, OpenHasOwner, Rows
<1>17. CASE AskForNotes \/ NotesFail \/ UNCHANGED vars
  BY <1>16, <1>17 DEF AskForNotes, NotesFail, vars
<1>19. CASE ChangeHotwords
  BY <1>19 DEF ChangeHotwords, OwnerInv, TimesInv, StartInv, OpenHasOwner, Rows
<1>18. ASSUME NEW id \in Ids, Load(id) \/ LoadFails(id) \/ Hear(id) \/ PipelineEnds(id)
       PROVE  TimesInv' /\ StartInv' /\ OpenHasOwner'
  BY <1>16, <1>18 DEF Load, LoadFails, Hear, PipelineEnds
<1> QED
  BY <1>3, <1>4, <1>5, <1>6, <1>7, <1>8, <1>9, <1>10, <1>11, <1>12, <1>13, <1>14, <1>15,
     <1>17, <1>18, <1>19 DEF Next

\* While the program runs, a session without an end is being started, listened
\* to or finished, unless its end could not be written: a start closes what a
\* crash left open (session lib.rs:640-674, service.rs:735-860).
THEOREM OpenSessionsHaveOwners == Spec => []OpenHasOwner
<1>1. OwnerInv => OpenHasOwner
  BY DEF OwnerInv
<1> QED BY <1>1, OwnerInit, OwnerStep, PTL DEF Spec
================================================================================
