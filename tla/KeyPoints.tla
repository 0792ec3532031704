------------------------------- MODULE KeyPoints -------------------------------
(***************************************************************************)
(* Key points: what a final segment says that is worth a card, found by    *)
(* local rules, and the bounded list that a session keeps of them          *)
(* (crates/talksage-core/src/key_points.rs).                               *)
(*                                                                         *)
(* A text is its score (noisy or not), its length, and the clauses that    *)
(* split_for_kp cuts it into.  A clause is what it says, what is left of   *)
(* it when it is clipped, its length and the cues that are found in it.    *)
(***************************************************************************)
EXTENDS Naturals, Sequences

CONSTANTS
  DedupWindow,          \* how many of the last points a new one is compared with
  MaxItems,             \* points kept
  MaxPerSegment,        \* points taken from one segment
  MinText, MinClause, MinAction, MaxChars     \* lengths, in characters

ASSUME KeyPointBounds ==
  /\ {DedupWindow, MaxItems, MaxPerSegment} \subseteq Nat \ {0}
  /\ {MinText, MinClause, MinAction, MaxChars} \subseteq Nat

\* The rules, the first of which that fits decides; a rule fits when all the
\* cues of one of its sets are in the clause.
Rules == <<
  [category |-> "question",    cues |-> {{"question"}}],
  [category |-> "decision",    cues |-> {{"decision"}}],
  [category |-> "action",      cues |-> {{"action"}, {"number"}}],
  [category |-> "requirement", cues |-> {{"requirement"}}],
  [category |-> "technical",   cues |-> {{"technical"}}],
  [category |-> "action",      cues |-> {{"person", "delivery"}}] >>

Fits(rule, clause) == \E all \in rule.cues : all \subseteq clause.cues

Fitting(clause) == SelectSeq(Rules, LAMBDA rule : Fits(rule, clause))

LongEnough(clause) ==
  clause.length >= IF Fitting(clause)[1].category = "action" THEN MinAction ELSE MinClause

Content(clause) == IF clause.length > MaxChars THEN clause.clipped ELSE clause.says

\* extract_key_points: at most MaxPerSegment clauses, none of them twice.
Gather(points, clause) ==
  IF \/ Len(points) = MaxPerSegment
     \/ Fitting(clause) = <<>> \/ ~LongEnough(clause)
     \/ \E i \in DOMAIN points : points[i].says = clause.says
  THEN points
  ELSE Append(points, [category |-> Fitting(clause)[1].category,
                       says |-> clause.says, content |-> Content(clause)])

Extract(text) ==
  LET gathered[n \in 0..Len(text.clauses)] ==
        IF n = 0 THEN <<>> ELSE Gather(gathered[n - 1], text.clauses[n])
  IN IF text.length < MinText \/ text.noisy THEN <<>> ELSE gathered[Len(text.clauses)]

Newest(n, items) == IF Len(items) > n THEN SubSeq(items, Len(items) - n + 1, Len(items)) ELSE items

IsRecent(content, items) == \E i \in DOMAIN Newest(DedupWindow, items) :
                              Newest(DedupWindow, items)[i].content = content

\* Mutant: the number alone is the identity of a point.
AddNumbered(list, point, ts) ==
  IF IsRecent(point.content, list) THEN list
  ELSE Append(list, [id |-> <<0, Len(list)>>, content |-> point.content])

\* A point that was not there lately gets an identity from the time and its number.
Add(list, point, ts) ==
  IF IsRecent(point.content, list) THEN list
  ELSE Append(list, [id |-> <<ts, Len(list)>>, content |-> point.content])

AddAll(items, found, ts) ==
  LET list[n \in 0..Len(found)] == IF n = 0 THEN items ELSE Add(list[n - 1], found[n], ts)
  IN list[Len(found)]

\* KeyPointAggregator::push: the list, cut to MaxItems when all of the segment's
\* points are in it, and the points that are new.
Push(items, text, ts) ==
  LET longer == AddAll(items, Extract(text), ts)
  IN [items |-> Newest(MaxItems, longer), added |-> SubSeq(longer, Len(items) + 1, Len(longer))]
================================================================================
