---------------------------- MODULE RequestLogProofs ----------------------------
(***************************************************************************)
(* Proofs about RequestLog, whatever the number of rows kept, and however  *)
(* jobs, prunes and failures interleave: what the logs keep and what they  *)
(* let go.                                                                 *)
(***************************************************************************)
EXTENDS RequestLog, FiniteSetTheorems, WellFoundedInduction, TLAPS

(***************************************************************************)
(* Rows in order                                                           *)
(***************************************************************************)

\* The rows newer than n.
Newer(rows, n) == {m \in rows : m > n}

\* Rows have an earliest one.
LEMMA EarliestRow ==
  ASSUME NEW S, S \subseteq Nat, S # {}
  PROVE  \E x \in S : \A y \in S : x <= y
<1> DEFINE R == OpToRel(<, Nat)
<1>1. IsWellFoundedOn(R, Nat)
  BY NatLessThanWellFounded
<1>2. \A x, y \in Nat : <<y, x>> \in R <=> y < x
  BY DEF OpToRel
<1> HIDE DEF R
<1>3. PICK x \in S : \A y \in S : ~(<<y, x>> \in R)
  BY <1>1, WFMin
<1>4. ASSUME NEW y \in S PROVE x <= y
  <2>1. x \in Nat /\ y \in Nat /\ ~(y < x)
    BY <1>2, <1>3
  <2>2. QED
    BY <2>1
<1>5. QED
  BY <1>4

\* Rows below a bound have a latest one.
LEMMA LatestRow ==
  ASSUME NEW S \in SUBSET Nat, S # {}, NEW c \in Nat, \A n \in S : n < c
  PROVE  \E d \in S : \A n \in S : n <= d
<1> DEFINE T == {c - n : n \in S}
<1>1. T \subseteq Nat /\ T # {}
  <2>1. \A n \in S : c - n \in Nat
    OBVIOUS
  <2>2. QED
    BY <2>1
<1> HIDE DEF T
<1>2. PICK x \in T : \A y \in T : x <= y
  BY <1>1, EarliestRow
<1>3. PICK d \in S : x = c - d
  BY DEF T
<1>4. ASSUME NEW n \in S PROVE n <= d
  <2>1. c - n \in T
    BY DEF T
  <2>2. c - d <= c - n
    BY <1>2, <1>3, <2>1
  <2>3. c \in Nat /\ d \in Nat /\ n \in Nat
    OBVIOUS
  <2>4. QED
    BY <2>2, <2>3
<1>5. QED
  BY <1>4

(***************************************************************************)
(* The history of the requests                                             *)
(***************************************************************************)

HistoryInv ==
  /\ clock \in Nat \ {0} /\ newest \in Nat /\ newest < clock
  /\ record \in [pc : {"none", "waiting", "trim"}, at : Nat, run : Nat]
  /\ record.pc # "none" => record.at >= newest /\ record.at > 0 /\ record.at < clock
  /\ IsFiniteSet(history) /\ \A row \in history : row.at \in Nat /\ row.at <= newest
  /\ newest > 0 => \E row \in history : row.at = newest
  /\ record.pc = "none" /\ "history" \notin untrimmed => Cardinality(history) <= KeepHistory

\* A removal keeps the last row, and no more than it should.
LEMMA CleanupKeeps ==
  ASSUME HistoryInv, NEW S \in Latest(history, KeepHistory)
  PROVE  /\ IsFiniteSet(S) /\ S \subseteq history /\ Cardinality(S) <= KeepHistory
         /\ newest > 0 => \E row \in S : row.at = newest
<1>1. /\ S \in SUBSET history
      /\ Cardinality(S) = IF Cardinality(history) < KeepHistory THEN Cardinality(history)
                                                                ELSE KeepHistory
      /\ \A s \in S, t \in history \ S : s.at >= t.at
  BY DEF Latest
<1>2. IsFiniteSet(history) /\ IsFiniteSet(S)
  BY <1>1, FS_Subset DEF HistoryInv
<1>3. Cardinality(history) \in Nat /\ KeepHistory \in Nat \ {0}
  BY <1>2, FS_CardinalityType, LogConstants
<1>4. Cardinality(S) <= KeepHistory
  BY <1>1, <1>3
<1>5. ASSUME newest > 0 PROVE \E row \in S : row.at = newest
  <2>1. PICK row \in history : row.at = newest
    BY <1>5 DEF HistoryInv
  <2>2. CASE row \in S
    BY <2>1, <2>2
  <2>3. CASE row \notin S
    <3>1. Cardinality(history) # 0
      BY <1>2, <2>1, FS_EmptySet
    <3>2. Cardinality(S) # 0
      BY <1>1, <1>3, <3>1
    <3>3. S # {}
      BY <3>2, FS_EmptySet
    <3>4. PICK s \in S : s.at >= row.at
      BY <1>1, <2>3, <3>3
    <3>5. s.at \in Nat /\ s.at <= newest /\ newest \in Nat
      BY <1>1 DEF HistoryInv
    <3>6. QED
      BY <2>1, <3>4, <3>5
  <2>4. QED
    BY <2>2, <2>3
<1>6. QED
  BY <1>1, <1>2, <1>4, <1>5

LEMMA HistoryStep == HistoryInv /\ [LogNext]_logVars => HistoryInv'
<1> SUFFICES ASSUME HistoryInv, [LogNext]_logVars PROVE HistoryInv'
  OBVIOUS
<1> USE DEF HistoryInv
<1>1. CASE AddSubscriptionRequestRecord
  <2>1. UNCHANGED <<history, newest, untrimmed>> /\ clock' = clock + 1
    BY <1>1 DEF AddSubscriptionRequestRecord, Tick
  <2>2. CASE record = NoRecord
    BY <1>1, <2>1, <2>2 DEF AddSubscriptionRequestRecord
  <2>3. CASE record # NoRecord
    BY <1>1, <2>1, <2>3 DEF AddSubscriptionRequestRecord
  <2>4. QED
    BY <2>2, <2>3
<1>2. CASE CreateRecord
  <2> DEFINE row == [at |-> record.at, run |-> record.run]
  <2>1. /\ record'.pc = "trim" /\ record'.at = record.at /\ record'.run = record.run
        /\ record' \in [pc : {"none", "waiting", "trim"}, at : Nat, run : Nat]
    BY <1>2 DEF CreateRecord
  <2>2. history' = history \cup {row} /\ newest' = record.at /\ clock' = clock
    BY <1>2 DEF CreateRecord
  <2>3. row.at = record.at
    OBVIOUS
  <2> HIDE DEF row
  <2>4. IsFiniteSet(history')
    BY <2>2, FS_AddElement
  <2>5. \A o \in history' : o.at \in Nat /\ o.at <= newest'
    BY <1>2, <2>2, <2>3 DEF CreateRecord
  <2>6. QED
    BY <1>2, <2>1, <2>2, <2>3, <2>4, <2>5 DEF CreateRecord
<1>3. CASE CreateRecordFails
  BY <1>3 DEF CreateRecordFails
<1>4. CASE CleanupUserRecords
  <2>1. PICK S \in Latest(history, KeepHistory) : history' = S
    BY <1>4 DEF CleanupUserRecords
  <2>2. QED
    BY <1>4, <2>1, CleanupKeeps DEF CleanupUserRecords, NoRecord
<1>5. CASE CleanupFails
  BY <1>5 DEF CleanupFails, NoRecord
<1>6. CASE StallRecord
  BY <1>6 DEF StallRecord
<1>7. CASE CreateDecision
  BY <1>7 DEF CreateDecision, Tick
<1>8. CASE CascadeDecisions
  BY <1>8 DEF CascadeDecisions
<1>9. ASSUME NEW p \in prunes, FindStale(p) \/ DeleteStale(p) \/ PruneFails(p)
      PROVE  HistoryInv'
  BY <1>9 DEF FindStale, DeleteStale, PruneFails
<1>10. CASE TruncateHistory
  BY <1>10, FS_EmptySet, LogConstants DEF TruncateHistory
<1>11. CASE UNCHANGED logVars
  BY <1>11 DEF logVars
<1>12. QED
  BY <1>1, <1>2, <1>3, <1>4, <1>5, <1>6, <1>7, <1>8, <1>9, <1>10, <1>11
     DEF LogNext, HistoryNext, DecisionsNext

\* Whatever fails, and however often a job is run, the last request recorded is in the
\* history, until an administrator empties it; and unless the last removal failed, the history is no longer than it may be
\* (handleAddRecordJob, cleanupUserRecords).
THEOREM HistoryIsKept == LogSpec => []HistoryKept
<1>1. LogInit => HistoryInv
  BY LogConstants, FS_EmptySet DEF LogInit, NoRecord, HistoryInv
<1>2. HistoryInv => HistoryKept
  BY DEF HistoryInv, HistoryKept, NoRecord
<1>3. QED
  BY <1>1, <1>2, HistoryStep, PTL DEF LogSpec

(***************************************************************************)
(* The decisions of the host balancer                                      *)
(***************************************************************************)

\* The decisions that no prune has deleted.
Unpruned == decisions \cup cascaded

\* A prune that has yet to look, or has found all there is to delete, is under way
\* unless nothing is: or one has failed.
DecisionsInv ==
  /\ clock \in Nat
  /\ decisions \in SUBSET Nat /\ IsFiniteSet(decisions) /\ \A n \in decisions : n < clock
  /\ cascaded \in SUBSET Nat /\ IsFiniteSet(cascaded) /\ \A n \in cascaded : n < clock
  /\ \A p \in prunes : /\ p.pc = "find" => p.stale = {}
                      /\ \A n \in p.stale : n \in Nat /\ n < clock
  /\ \A p \in prunes : \A n \in p.stale \cap decisions :
       Cardinality(Newer(Unpruned, n)) >= KeepDecisions
  /\ \/ "decisions" \in untrimmed
     \/ \E p \in prunes : p.pc = "find" \/ Stale(decisions, KeepDecisions) \subseteq p.stale
     \/ Stale(decisions, KeepDecisions) = {}

LEMMA NewerFinite ==
  ASSUME NEW rows, IsFiniteSet(rows), NEW n
  PROVE  IsFiniteSet(Newer(rows, n)) /\ Cardinality(Newer(rows, n)) \in Nat
<1>1. Newer(rows, n) \in SUBSET rows
  BY DEF Newer
<1>2. QED
  BY <1>1, FS_Subset, FS_CardinalityType

LEMMA NewerSubset ==
  ASSUME NEW rows, IsFiniteSet(rows), NEW n, NEW S \in SUBSET Newer(rows, n)
  PROVE  Cardinality(S) <= Cardinality(Newer(rows, n))
BY NewerFinite, FS_Subset

\* The heart of the matter: deleting rows that all have enough newer ones leaves every
\* row that had enough newer ones with enough.
LEMMA DeletingKeepsNewer ==
  ASSUME NEW rows \in SUBSET Nat, IsFiniteSet(rows), NEW c \in Nat, \A m \in rows : m < c,
         NEW k \in Nat, NEW gone \in SUBSET rows,
         \A d \in gone : Cardinality(Newer(rows, d)) >= k,
         NEW n \in rows, Cardinality(Newer(rows, n)) >= k
  PROVE  Cardinality(Newer(rows \ gone, n)) >= k
<1> DEFINE D == {d \in gone : d > n}
<1>1. IsFiniteSet(rows \ gone)
  BY FS_Subset
<1>2. CASE D = {}
  <2>1. Newer(rows \ gone, n) = Newer(rows, n)
    BY <1>2 DEF Newer
  <2>2. QED
    BY <2>1
<1>3. CASE D # {}
  <2>1. D \in SUBSET Nat /\ \A d \in D : d < c
    OBVIOUS
  <2>2. PICK d \in D : \A e \in D : e <= d
    BY <1>3, <2>1, LatestRow
  <2>3. d \in gone /\ d > n /\ d \in Nat /\ n \in Nat
    OBVIOUS
  <2>4. ASSUME NEW m \in Newer(rows, d) PROVE m \in Newer(rows \ gone, n)
    <3>1. m \in rows /\ m > d /\ m \in Nat
      BY DEF Newer
    <3>2. m > n
      BY <2>3, <3>1
    <3>3. m \notin gone
      BY <2>2, <2>3, <3>1, <3>2
    <3>4. QED
      BY <3>1, <3>2, <3>3 DEF Newer
  <2>5. Cardinality(Newer(rows, d)) <= Cardinality(Newer(rows \ gone, n))
    BY <1>1, <2>4, NewerSubset
  <2>6. Cardinality(Newer(rows, d)) >= k
    BY <2>3
  <2>7. Cardinality(Newer(rows, d)) \in Nat /\ Cardinality(Newer(rows \ gone, n)) \in Nat
    BY <1>1, NewerFinite
  <2>8. QED
    BY <2>5, <2>6, <2>7
<1>4. QED
  BY <1>2, <1>3

\* Without stale rows there are not too many.
LEMMA NothingStale ==
  ASSUME NEW rows \in SUBSET Nat, IsFiniteSet(rows), NEW k \in Nat \ {0}, Stale(rows, k) = {}
  PROVE  Cardinality(rows) <= k
<1>1. CASE rows = {}
  BY <1>1, FS_EmptySet
<1>2. CASE rows # {}
  <2>1. PICK n \in rows : \A m \in rows : n <= m
    BY <1>2, EarliestRow
  <2>2. Newer(rows, n) = rows \ {n}
    <3>1. ASSUME NEW m \in rows PROVE m > n <=> m # n
      <4>1. n <= m /\ m \in Nat /\ n \in Nat
        BY <2>1
      <4>2. QED
        BY <4>1
    <3>2. QED
      BY <3>1 DEF Newer
  <2>3. ~(Cardinality(Newer(rows, n)) >= k)
    BY DEF Stale, Newer
  <2>4. Cardinality(rows \ {n}) = Cardinality(rows) - 1 /\ Cardinality(rows) \in Nat
    BY FS_RemoveElement, FS_CardinalityType
  <2>5. QED
    BY <2>2, <2>3, <2>4
<1>3. QED
  BY <1>1, <1>2

LEMMA UnprunedFinite == DecisionsInv => Unpruned \in SUBSET Nat /\ IsFiniteSet(Unpruned)
BY FS_Union DEF DecisionsInv, Unpruned

\* With more rows there are not fewer newer ones.
LEMMA NewerGrows ==
  ASSUME NEW rows, NEW more, IsFiniteSet(rows), IsFiniteSet(more), rows \subseteq more,
         NEW n, NEW k \in Nat, Cardinality(Newer(rows, n)) >= k
  PROVE  Cardinality(Newer(more, n)) >= k
<1>1. Newer(rows, n) \in SUBSET Newer(more, n)
  BY DEF Newer
<1>2. Cardinality(Newer(rows, n)) <= Cardinality(Newer(more, n))
  BY <1>1, NewerSubset
<1>3. Cardinality(Newer(rows, n)) \in Nat /\ Cardinality(Newer(more, n)) \in Nat
  BY NewerFinite
<1>4. QED
  BY <1>2, <1>3

\* Of fewer rows no more are stale.
LEMMA StaleShrinks ==
  ASSUME NEW rows, NEW more, IsFiniteSet(rows), IsFiniteSet(more), rows \subseteq more, NEW k \in Nat
  PROVE  Stale(rows, k) \subseteq Stale(more, k)
<1>1. ASSUME NEW n \in Stale(rows, k) PROVE n \in Stale(more, k)
  <2>1. n \in rows /\ Cardinality(Newer(rows, n)) >= k
    BY DEF Stale, Newer
  <2>2. Cardinality(Newer(more, n)) >= k
    BY <2>1, NewerGrows
  <2>3. QED
    BY <2>1, <2>2 DEF Stale, Newer
<1>2. QED
  BY <1>1

LEMMA DecisionsStep == DecisionsInv /\ [LogNext]_logVars => DecisionsInv'
<1> SUFFICES ASSUME DecisionsInv, [LogNext]_logVars PROVE DecisionsInv'
  OBVIOUS
<1> DEFINE stale == Stale(decisions, KeepDecisions)
<1>1. KeepDecisions \in Nat
  BY LogConstants
<1>2. stale = {n \in decisions : Cardinality(Newer(decisions, n)) >= KeepDecisions}
  BY DEF Stale, Newer
<1>3. Stale(decisions, KeepDecisions)'
        = {n \in decisions' : Cardinality(Newer(decisions', n)) >= KeepDecisions}
  BY DEF Stale, Newer
<1> HIDE DEF stale
<1>4. CASE UNCHANGED <<decisions, cascaded, prunes>> /\ clock' \in {clock, clock + 1}
           /\ ("decisions" \in untrimmed => "decisions" \in untrimmed')
  <2>1. /\ clock' \in Nat /\ (\A n \in decisions' : n < clock') /\ (\A n \in cascaded' : n < clock')
        /\ \A p \in prunes' : \A n \in p.stale : n \in Nat /\ n < clock'
    BY <1>4 DEF DecisionsInv
  <2>2. \/ "decisions" \in untrimmed'
        \/ \E p \in prunes' : p.pc = "find" \/ Stale(decisions, KeepDecisions)' \subseteq p.stale
        \/ Stale(decisions, KeepDecisions)' = {}
    <3>1. Stale(decisions, KeepDecisions)' = Stale(decisions, KeepDecisions)
      BY <1>2, <1>3, <1>4 DEF stale
    <3>2. QED
      BY <1>4, <3>1 DEF DecisionsInv
  <2>3. Unpruned' = Unpruned
    BY <1>4 DEF Unpruned
  <2>4. QED
    BY <1>4, <2>1, <2>2, <2>3 DEF DecisionsInv
<1>5. CASE HistoryNext \/ UNCHANGED logVars
  BY <1>4, <1>5 DEF HistoryNext, AddSubscriptionRequestRecord, Tick, CreateRecord, CreateRecordFails,
     CleanupUserRecords, CleanupFails, StallRecord, TruncateHistory, logVars
<1>6. CASE CreateDecision
  <2> DEFINE new == [by |-> clock, pc |-> "find", stale |-> {}]
  <2>1. /\ decisions' = decisions \cup {clock} /\ prunes' = prunes \cup {new} /\ clock' = clock + 1
        /\ cascaded' = cascaded
    BY <1>6 DEF CreateDecision, Tick
  <2>2. new.pc = "find" /\ new.stale = {}
    OBVIOUS
  <2> HIDE DEF new
  <2>3. IsFiniteSet(decisions') /\ IsFiniteSet(Unpruned) /\ IsFiniteSet(Unpruned')
    <3>1. Unpruned' = Unpruned \cup {clock}
      BY <2>1 DEF Unpruned
    <3>2. QED
      BY <2>1, <3>1, UnprunedFinite, FS_AddElement DEF DecisionsInv
  <2>4. ASSUME NEW p \in prunes', NEW n \in p.stale \cap decisions'
        PROVE  Cardinality(Newer(Unpruned', n)) >= KeepDecisions
    <3>1. p \in prunes
      BY <2>1, <2>2
    <3>2. CASE n \in decisions
      <4>1. Cardinality(Newer(Unpruned, n)) >= KeepDecisions
        BY <2>4, <3>1, <3>2 DEF DecisionsInv
      <4>2. Unpruned \subseteq Unpruned'
        BY <2>1 DEF Unpruned
      <4>3. QED
        BY <1>1, <2>3, <4>1, <4>2, NewerGrows
    <3>3. CASE n = clock
      BY <3>1, <3>3, <2>4 DEF DecisionsInv
    <3>4. QED
      BY <2>1, <3>2, <3>3
  <2>5. /\ clock' \in Nat /\ decisions' \in SUBSET Nat /\ (\A n \in decisions' : n < clock')
        /\ cascaded' \in SUBSET Nat /\ IsFiniteSet(cascaded') /\ (\A n \in cascaded' : n < clock')
    BY <2>1 DEF DecisionsInv
  <2>6. \A p \in prunes' : (p.pc = "find" => p.stale = {}) /\ \A n \in p.stale : n \in Nat /\ n < clock'
    BY <2>1, <2>2 DEF DecisionsInv
  <2>7. \E p \in prunes' : p.pc = "find"
    BY <2>1, <2>2
  <2>8. QED
    BY <2>3, <2>4, <2>5, <2>6, <2>7 DEF DecisionsInv
<1>7. ASSUME NEW p \in prunes, FindStale(p) PROVE DecisionsInv'
  <2>1. decisions' = decisions /\ clock' = clock /\ cascaded' = cascaded /\ Unpruned' = Unpruned
    BY <1>7 DEF FindStale, Unpruned
  <2>2. CASE stale = {}
    <3>1. prunes' = prunes \ {p}
      BY <1>7, <2>2 DEF FindStale, stale
    <3>2. Stale(decisions, KeepDecisions)' = {}
      BY <1>2, <1>3, <2>1, <2>2
    <3>3. QED
      BY <2>1, <3>1, <3>2 DEF DecisionsInv
  <2>3. CASE stale # {}
    <3> DEFINE new == [by |-> p.by, pc |-> "delete", stale |-> stale]
    <3>1. prunes' = (prunes \ {p}) \cup {new}
      BY <1>7, <2>3 DEF FindStale, stale
    <3>2. new.pc = "delete" /\ new.stale = stale
      OBVIOUS
    <3> HIDE DEF new
    <3>3. Stale(decisions, KeepDecisions)' = stale
      BY <1>2, <1>3, <2>1
    <3>4. \A q \in prunes' : (q.pc = "find" => q.stale = {}) /\ \A n \in q.stale : n \in Nat /\ n < clock'
      BY <1>2, <2>1, <3>1, <3>2 DEF DecisionsInv
    <3>5. ASSUME NEW n \in stale PROVE Cardinality(Newer(Unpruned, n)) >= KeepDecisions
      <4>1. decisions \subseteq Unpruned /\ IsFiniteSet(decisions) /\ IsFiniteSet(Unpruned)
        BY UnprunedFinite DEF Unpruned, DecisionsInv
      <4>2. Cardinality(Newer(decisions, n)) >= KeepDecisions
        BY <1>2
      <4>3. QED
        BY <1>1, <4>1, <4>2, NewerGrows
    <3>6. \A q \in prunes' : \A n \in q.stale \cap decisions' :
            Cardinality(Newer(Unpruned', n)) >= KeepDecisions
      BY <2>1, <3>1, <3>2, <3>5 DEF DecisionsInv
    <3>7. QED
      BY <2>1, <3>1, <3>2, <3>3, <3>4, <3>6 DEF DecisionsInv
  <2>4. QED
    BY <2>2, <2>3
<1>8. ASSUME NEW p \in prunes, DeleteStale(p) PROVE DecisionsInv'
  <2> DEFINE gone == p.stale \cap decisions
  <2>1. /\ decisions' = decisions \ gone /\ prunes' = prunes \ {p} /\ cascaded' = cascaded
        /\ clock' = clock /\ untrimmed' = untrimmed /\ p.pc = "delete"
    BY <1>8 DEF DeleteStale
  <2>2. /\ gone \in SUBSET Unpruned /\ gone \in SUBSET decisions
        /\ \A d \in gone : Cardinality(Newer(Unpruned, d)) >= KeepDecisions
    BY DEF DecisionsInv, Unpruned
  <2> HIDE DEF gone
  <2>3. IsFiniteSet(decisions) /\ IsFiniteSet(decisions')
    BY <2>1, <2>2, FS_Subset DEF DecisionsInv
  <2>4. ASSUME NEW n \in decisions', Cardinality(Newer(Unpruned, n)) >= KeepDecisions
        PROVE  Cardinality(Newer(Unpruned', n)) >= KeepDecisions
    <3>1. n \in Unpruned /\ Unpruned \in SUBSET Nat /\ IsFiniteSet(Unpruned)
      BY <2>1, UnprunedFinite DEF Unpruned
    <3>2. \A m \in Unpruned : m < clock
      BY DEF DecisionsInv, Unpruned
    <3>3. clock \in Nat
      BY DEF DecisionsInv
    <3>4. Cardinality(Newer(Unpruned \ gone, n)) >= KeepDecisions
      BY <1>1, <2>2, <2>4, <3>1, <3>2, <3>3, DeletingKeepsNewer
    <3>5. Unpruned \ gone \subseteq Unpruned' /\ IsFiniteSet(Unpruned \ gone)
      BY <2>1, <3>1, FS_Subset DEF Unpruned
    <3>6. IsFiniteSet(Unpruned')
      <4>1. Unpruned' \subseteq Unpruned
        BY <2>1 DEF Unpruned
      <4>2. QED
        BY <3>1, <4>1, FS_Subset
    <3>7. QED
      BY <1>1, <3>4, <3>5, <3>6, NewerGrows
  <2>5. \A q \in prunes' : \A n \in q.stale \cap decisions' :
          Cardinality(Newer(Unpruned', n)) >= KeepDecisions
    BY <2>1, <2>4 DEF DecisionsInv
  <2>6. Stale(decisions, KeepDecisions)' \subseteq stale
    <3>1. Stale(decisions', KeepDecisions) \subseteq Stale(decisions, KeepDecisions)
      BY <1>1, <2>1, <2>3, StaleShrinks
    <3>2. QED
      BY <3>1 DEF stale, Stale
  <2>7. stale \subseteq p.stale => Stale(decisions, KeepDecisions)' = {}
    <3>1. ASSUME NEW n \in Stale(decisions, KeepDecisions)', stale \subseteq p.stale PROVE FALSE
      <4>1. n \in stale /\ n \in decisions'
        BY <1>3, <2>6
      <4>2. n \in gone
        BY <1>2, <3>1, <4>1 DEF gone
      <4>3. QED
        BY <2>1, <4>1, <4>2
    <3>2. QED
      BY <3>1
  <2>8. \/ "decisions" \in untrimmed'
        \/ \E q \in prunes' : q.pc = "find" \/ Stale(decisions, KeepDecisions)' \subseteq q.stale
        \/ Stale(decisions, KeepDecisions)' = {}
    <3>1. CASE "decisions" \in untrimmed
      BY <2>1, <3>1
    <3>2. ASSUME NEW q \in prunes, q.pc = "find" \/ stale \subseteq q.stale
          PROVE  \/ \E r \in prunes' : r.pc = "find" \/ Stale(decisions, KeepDecisions)' \subseteq r.stale
                 \/ Stale(decisions, KeepDecisions)' = {}
      <4>1. CASE q = p
        BY <2>1, <2>7, <3>2, <4>1
      <4>2. CASE q # p
        BY <2>1, <2>6, <3>2, <4>2
      <4>3. QED
        BY <4>1, <4>2
    <3>3. CASE stale = {}
      BY <2>6, <3>3
    <3>4. QED
      BY <3>1, <3>2, <3>3 DEF DecisionsInv, stale
  <2>9. /\ decisions' \in SUBSET Nat /\ clock' \in Nat /\ (\A n \in decisions' : n < clock')
        /\ cascaded' \in SUBSET Nat /\ IsFiniteSet(cascaded') /\ (\A n \in cascaded' : n < clock')
        /\ \A q \in prunes' : (q.pc = "find" => q.stale = {}) /\ \A n \in q.stale : n \in Nat /\ n < clock'
    BY <2>1 DEF DecisionsInv
  <2>10. QED
    BY <2>3, <2>5, <2>8, <2>9 DEF DecisionsInv
<1>9. ASSUME NEW p \in prunes, PruneFails(p) PROVE DecisionsInv'
  BY <1>9 DEF PruneFails, DecisionsInv, Unpruned
<1>10. CASE CascadeDecisions
  <2>1. PICK gone \in SUBSET decisions : /\ decisions' = decisions \ gone
                                         /\ cascaded' = cascaded \cup gone
    BY <1>10 DEF CascadeDecisions
  <2>2. UNCHANGED <<prunes, clock, untrimmed>>
    BY <1>10 DEF CascadeDecisions
  <2>3. Unpruned' = Unpruned
    BY <2>1 DEF Unpruned
  <2>4. IsFiniteSet(decisions) /\ IsFiniteSet(decisions') /\ IsFiniteSet(cascaded')
    BY <2>1, FS_Subset, FS_Union DEF DecisionsInv
  <2>5. Stale(decisions, KeepDecisions)' \subseteq Stale(decisions, KeepDecisions)
    <3>1. Stale(decisions', KeepDecisions) \subseteq Stale(decisions, KeepDecisions)
      BY <1>1, <2>1, <2>4, StaleShrinks
    <3>2. QED
      BY <3>1 DEF Stale
  <2>6. \/ "decisions" \in untrimmed'
        \/ \E q \in prunes' : q.pc = "find" \/ Stale(decisions, KeepDecisions)' \subseteq q.stale
        \/ Stale(decisions, KeepDecisions)' = {}
    BY <2>2, <2>5 DEF DecisionsInv
  <2>7. /\ decisions' \in SUBSET Nat /\ clock' \in Nat /\ (\A n \in decisions' : n < clock')
        /\ cascaded' \in SUBSET Nat /\ (\A n \in cascaded' : n < clock')
    BY <2>1, <2>2 DEF DecisionsInv
  <2>8. \A q \in prunes' : \A n \in q.stale \cap decisions' :
          Cardinality(Newer(Unpruned', n)) >= KeepDecisions
    BY <2>1, <2>2, <2>3 DEF DecisionsInv
  <2>9. QED
    BY <2>2, <2>4, <2>6, <2>7, <2>8 DEF DecisionsInv
<1>11. QED
  BY <1>5, <1>6, <1>7, <1>8, <1>9, <1>10 DEF LogNext, DecisionsNext

\* However prunes overlap with each other, with new decisions and with deletions of hosts
\* and users: of what a prune is about to delete, KeepDecisions newer ones are there still
\* or have gone with their host or user; and when all have ended, and none failed, nothing
\* old is left (createDecision, pruneDecisionRetention).
THEOREM DecisionsAreKept == LogSpec => []DecisionsKept
<1>1. LogInit => DecisionsInv
  BY LogConstants, FS_EmptySet DEF LogInit, DecisionsInv, Stale
<1>2. DecisionsInv => DecisionsKept
  <2> SUFFICES ASSUME DecisionsInv PROVE DecisionsKept
    OBVIOUS
  <2>1. \A p \in prunes : \A n \in p.stale \cap decisions :
          Cardinality({m \in decisions \cup cascaded : m > n}) >= KeepDecisions
    BY DEF DecisionsInv, Newer, Unpruned
  <2>2. ASSUME prunes = {}, "decisions" \notin untrimmed
        PROVE  Cardinality(decisions) <= KeepDecisions
    <3>1. Stale(decisions, KeepDecisions) = {}
      BY <2>2 DEF DecisionsInv
    <3>2. QED
      BY <3>1, NothingStale, LogConstants DEF DecisionsInv
  <2>3. QED
    BY <2>1, <2>2 DEF DecisionsKept
<1>3. QED
  BY <1>1, <1>2, DecisionsStep, PTL DEF LogSpec
=============================================================================
