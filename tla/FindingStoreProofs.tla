-------------------------- MODULE FindingStoreProofs --------------------------
(***************************************************************************)
(* Proofs about FindingStore for any findings, factors, horizons and       *)
(* number of pool threads.                                                 *)
(***************************************************************************)
EXTENDS FindingStore, FiniteSetTheorems, TLAPS

USE DEF vars, handler, history

(* A clamped urgency is in its range. *)
LEMMA ClampRange ==
  ASSUME NEW value \in Int
  PROVE  Clamp(value, 5, 100) \in 5..100
BY DEF Clamp

LEMMA UrgencyRange ==
  ASSUME NEW f \in Findings, NEW z \in Nat \ {0}
  PROVE  Urgency(f, z) \in 0..100
<1>1. Years[f] \in Nat
  BY FactorsAssumption
<1>2. (Years[f] - z) * 100 \in Int /\ 2 * z \in Nat /\ 2 * z > 0
  BY <1>1
<1>3. 50 + ((Years[f] - z) * 100) \div (2 * z) \in Int
  BY <1>2
<1> DEFINE raw == 50 + ((Years[f] - z) * 100) \div (2 * z)
<1>4. Clamp(raw, 5, 100) \in 5..100
  <2>1. raw \in Int
    BY <1>3
  <2> HIDE DEF raw
  <2> QED
    BY <2>1, ClampRange
<1> QED
  BY <1>4 DEF Urgency

LEMMA HundredthRange ==
  ASSUME NEW n \in 0..10000
  PROVE  n \div 100 \in 0..100
BY SMTT(60)

(* A product of two percentages is a percentage. *)
LEMMA PercentOfPercent ==
  ASSUME NEW a \in 0..100, NEW b \in 0..100
  PROVE  (a * b) \div 100 \in 0..100
<1>1. a * b \in Nat
  OBVIOUS
<1>2. a * b <= 100 * b
  OBVIOUS
<1> DEFINE product == a * b
<1>3. product \in 0..10000
  BY <1>1, <1>2
<1> HIDE DEF product
<1>4. product \div 100 \in 0..100
  BY <1>3, HundredthRange, SMTT(60)
<1> QED
  BY <1>4 DEF product

LEMMA ScoreRange ==
  ASSUME NEW f \in Findings, NEW z \in Nat \ {0}
  PROVE  ScoreAt(f, z) \in 0..100 /\ EngineScore(f, z) \in 0..100
<1>1. Weight[f] \in 0..100
  BY FactorsAssumption
<1>2. ScoreAt(f, z) \in 0..100
  BY <1>1, UrgencyRange, PercentOfPercent DEF ScoreAt
<1> QED
  BY <1>2 DEF EngineScore

LEMMA BandRange ==
  ASSUME NEW score \in 0..100 \cup {None}
  PROVE  BandOf(score) \in Bands
BY DEF BandOf, Bands

LEMMA RescoredRange ==
  ASSUME NEW f \in Findings, NEW z \in Nat
  PROVE  RescoredScore(f, z) \in 0..100 \cup {None}
BY ScoreRange DEF RescoredScore

(* A flush keeps a row a row. *)
LEMMA MergeType ==
  ASSUME NEW row \in Row, NEW loaded \in Row, NEW updated \in Row
  PROVE  Merge(row, loaded, updated) \in Row
BY DEF Merge, Flushed, Row

LEMMA RoundTripType ==
  ASSUME NEW row \in Row
  PROVE  RoundTrip(row) \in Row
BY DEF RoundTrip, Row

LEMMA RescoredRowType ==
  ASSUME NEW f \in Findings, NEW z \in Nat, rows[f] \in Row
  PROVE  RescoredRow(f, z) \in Row
<1>1. RescoredScore(f, z) \in 0..100 \cup {None} /\ BandOf(RescoredScore(f, z)) \in Bands
  BY RescoredRange, BandRange
<1> QED
  BY <1>1 DEF RescoredRow, Row

LEMMA AskedType ==
  ASSUME NEW z \in Horizons \cup {None}
  PROVE  Asked(z) \in Horizons /\ Asked(z) \in Nat
BY HorizonsAssumption DEF Asked

(* Counts of a part of the findings are natural numbers. *)
LEMMA CountedType ==
  ASSUME NEW among \in SUBSET Findings, NEW b
  PROVE  Counted(among, b) \in Nat /\ IsFiniteSet({f \in among : rows[f].band = b})
<1>1. {f \in among : rows[f].band = b} \in SUBSET Findings
  OBVIOUS
<1>2. IsFiniteSet({f \in among : rows[f].band = b})
  BY <1>1, FindingsAreFinite, FS_Subset
<1> QED
  BY <1>2, FS_CardinalityType DEF Counted

(* What a probe writes changes nothing but the mark of its findings. *)
LEMMA MarkedRow ==
  ASSUME NEW row \in Row, NEW loaded \in Row
  PROVE  /\ Merge(row, loaded, [loaded EXCEPT !.negotiated = TRUE]) \in Row
         /\ SameButMark(Merge(row, loaded, [loaded EXCEPT !.negotiated = TRUE]), row)
         /\ row.negotiated =>
              Merge(row, loaded, [loaded EXCEPT !.negotiated = TRUE]).negotiated
BY DEF Merge, Flushed, Row, SameButMark

LEMMA WriteMarksRows ==
  ASSUME TypeOK, NEW p \in Probers, WriteMarks(p)
  PROVE  /\ rows' \in [Findings -> Row]
         /\ \A f \in Findings : SameButMark(rows'[f], rows[f])
         /\ \A f \in Findings : rows[f].negotiated => rows'[f].negotiated
         /\ \A f \in Findings \ DOMAIN seen[p] : rows'[f] = rows[f]
<1>1. \A f \in Findings : f \in DOMAIN seen[p] => seen[p][f] \in Row
  BY DEF TypeOK
<1>2. \A f \in Findings : rows[f] \in Row /\ SameButMark(rows[f], rows[f])
  BY DEF TypeOK, SameButMark
<1> QED
  BY <1>1, <1>2, MarkedRow DEF WriteMarks

(* What a triage writes: its status and, of a finding without a score, no  *)
(* risk.                                                                   *)
LEMMA WriteTriageRows ==
  ASSUME TypeOK, TriageInv, WriteTriage
  PROVE  /\ about \in Findings /\ wanted \in Statuses
         /\ rows' \in [Findings -> Row]
         /\ \A f \in Findings \ {about} : rows'[f] = rows[f]
         /\ rows'[about].triage = wanted
         /\ rows'[about].score = rows[about].score
         /\ rows[about].score # None => /\ rows'[about].band = rows[about].band
                                        /\ rows'[about].z = rows[about].z
         /\ rows[about].score = None => rows'[about].band = None
         /\ ~overtaken /\ rows[about].negotiated => rows'[about].negotiated
<1> DEFINE row == rows[about]
           updated == [copy EXCEPT !.triage = wanted]
           new == Merge(row, existing, updated)
<1>1. /\ step = "loaded" /\ about \in Findings /\ wanted \in Statuses
      /\ copy \in Row /\ existing \in Row
      /\ SameButMark(copy, RoundTrip(row)) /\ SameButMark(existing, row)
      /\ ~overtaken => copy.negotiated = existing.negotiated
  BY DEF WriteTriage, TriageInv
<1>2. row \in Row
  BY <1>1 DEF TypeOK
<1>3. /\ updated \in Row /\ updated.triage = wanted
      /\ updated.score = copy.score /\ updated.band = copy.band /\ updated.z = copy.z
      /\ updated.negotiated = copy.negotiated
  BY <1>1 DEF Row
<1>4. /\ RoundTrip(row).score = row.score
      /\ row.score # None => RoundTrip(row) = row
      /\ row.score = None => RoundTrip(row).band = None
  BY <1>2 DEF RoundTrip, Row
<1> HIDE DEF updated
<1>5. new \in Row
  BY <1>1, <1>2, <1>3, MergeType
<1>6. /\ new.triage = wanted /\ new.score = row.score
      /\ row.score # None => new.band = row.band /\ new.z = row.z
      /\ row.score = None => new.band = None
      /\ ~overtaken /\ row.negotiated => new.negotiated
  BY <1>1, <1>3, <1>4 DEF Merge, Flushed, SameButMark
<1>7. rows' = [rows EXCEPT ![about] = new]
  BY DEF WriteTriage, updated
<1> HIDE DEF new
<1> QED
  BY <1>1, <1>5, <1>6, <1>7 DEF TypeOK

(* Everything but a rescore leaves scores as they are, and bands and       *)
(* horizons of the findings that have one.                                 *)
RiskKept ==
    /\ rows' \in [Findings -> Row]
    /\ \A f \in Findings :
         /\ rows'[f].score = rows[f].score
         /\ rows[f].score # None => rows'[f].band = rows[f].band /\ rows'[f].z = rows[f].z
         /\ rows[f].score = None => rows'[f].band \in {rows[f].band, None}
    /\ UNCHANGED <<bands, scoredAt, torn>>

LEMMA OthersKeepRisk ==
  ASSUME TypeOK, TriageInv, [Next]_vars
  PROVE  \/ RiskKept
         \/ \E z \in Horizons \cup {None} : BulkUpdate(z)
         \/ CommitRescore
<1>1. ASSUME UNCHANGED rows, UNCHANGED <<bands, scoredAt, torn>>
      PROVE  RiskKept
  BY <1>1 DEF TypeOK, RiskKept
<1>2. CASE WriteTriage
  BY <1>2, WriteTriageRows DEF WriteTriage, RiskKept
<1>3. ASSUME NEW p \in Probers, WriteMarks(p)
      PROVE  RiskKept
  BY <1>3, WriteMarksRows DEF WriteMarks, RiskKept, SameButMark
<1>4. ASSUME NEW f \in Findings, NEW status \in Statuses, ReadFinding(f, status)
      PROVE  RiskKept
  BY <1>1, <1>4 DEF ReadFinding
<1>5. CASE LoadExisting
  BY <1>1, <1>5 DEF LoadExisting
<1>6. ASSUME NEW p \in Probers, NEW matched \in SUBSET Findings, LoadForProbe(p, matched)
      PROVE  RiskKept
  BY <1>1, <1>6 DEF LoadForProbe
<1>7. ASSUME NEW p \in Probers, CutOffProbe(p)
      PROVE  RiskKept
  BY <1>1, <1>7 DEF CutOffProbe
<1>8. CASE CutOff
  BY <1>1, <1>8 DEF CutOff
<1>9. CASE UNCHANGED vars
  BY <1>1, <1>9
<1> QED
  BY <1>2, <1>3, <1>4, <1>5, <1>6, <1>7, <1>8, <1>9 DEF Next

(* The variables keep their types. *)
LEMMA TypeStep ==
  ASSUME TypeOK, TriageInv, [Next]_vars
  PROVE  TypeOK'
<1> USE DEF TypeOK
<1>1. ASSUME NEW f \in Findings, NEW status \in Statuses, ReadFinding(f, status)
      PROVE  TypeOK'
  <2>1. RoundTrip(rows[f]) \in Row
    BY RoundTripType
  <2> QED
    BY <1>1, <2>1 DEF ReadFinding
<1>2. CASE LoadExisting
  BY <1>2 DEF LoadExisting, TriageInv
<1>3. CASE WriteTriage
  BY <1>3, WriteTriageRows DEF WriteTriage
<1>4. ASSUME NEW z \in Horizons \cup {None}, BulkUpdate(z)
      PROVE  TypeOK'
  <2>1. \A f \in Findings : RescoredRow(f, Asked(z)) \in Row
    BY AskedType, RescoredRowType
  <2> QED
    BY <1>4, <2>1, AskedType DEF BulkUpdate
<1>5. CASE CommitRescore
  <2>1. Recounted \in [Bands -> Nat]
    BY CountedType DEF Recounted
  <2> QED
    BY <1>5, <2>1 DEF CommitRescore
<1>6. ASSUME NEW p \in Probers, NEW matched \in SUBSET Findings, LoadForProbe(p, matched)
      PROVE  TypeOK'
  <2> DEFINE marked == {g \in matched : ~rows[g].negotiated}
  <2>1. marked \subseteq Findings /\ [f \in marked |-> rows[f]] \in [marked -> Row]
    OBVIOUS
  <2>2. seen' = [seen EXCEPT ![p] = [f \in marked |-> rows[f]]]
    BY <1>6 DEF LoadForProbe
  <2>3. /\ seen' = [q \in Probers |-> seen'[q]]
        /\ seen'[p] = [f \in marked |-> rows[f]]
        /\ \A q \in Probers \ {p} : seen'[q] = seen[q]
    BY <2>2
  <2> HIDE DEF marked
  <2>4. \A q \in Probers : /\ DOMAIN seen'[q] \subseteq Findings
                           /\ seen'[q] \in [DOMAIN seen'[q] -> Row]
    BY <2>1, <2>3
  <2> QED
    BY <1>6, <2>3, <2>4 DEF LoadForProbe
<1>7. ASSUME NEW p \in Probers, WriteMarks(p)
      PROVE  TypeOK'
  BY <1>7, WriteMarksRows DEF WriteMarks, Nothing
<1>8. ASSUME NEW p \in Probers, CutOffProbe(p)
      PROVE  TypeOK'
  BY <1>8 DEF CutOffProbe, Nothing
<1>9. CASE CutOff
  BY <1>9 DEF CutOff
<1>10. CASE UNCHANGED vars
  BY <1>10
<1> QED
  BY <1>1, <1>2, <1>3, <1>4, <1>5, <1>6, <1>7, <1>8, <1>9, <1>10 DEF Next

(* A triage under way goes on knowing its row.                             *)
LEMMA TriageStep ==
  ASSUME TypeOK, TriageInv, [Next]_vars
  PROVE  TriageInv'
<1> USE DEF TriageInv
<1>1. ASSUME NEW f \in Findings, NEW status \in Statuses, ReadFinding(f, status)
      PROVE  TriageInv'
  <2>1. rows[f] \in Row /\ RoundTrip(rows[f]) \in Row
    BY RoundTripType DEF TypeOK
  <2>2. RoundTrip(rows[f]).negotiated = rows[f].negotiated
    BY <2>1 DEF RoundTrip, Row
  <2> QED
    BY <1>1, <2>1, <2>2 DEF ReadFinding, SameButMark
<1>2. CASE LoadExisting
  BY <1>2 DEF LoadExisting, TypeOK, SameButMark
<1>3. CASE WriteTriage
  BY <1>3 DEF WriteTriage
<1>4. ASSUME NEW z \in Horizons \cup {None}, BulkUpdate(z)
      PROVE  TriageInv'
  BY <1>4 DEF BulkUpdate
<1>5. CASE CommitRescore
  BY <1>5 DEF CommitRescore
<1>6. ASSUME NEW p \in Probers, NEW matched \in SUBSET Findings, LoadForProbe(p, matched)
      PROVE  TriageInv'
  BY <1>6 DEF LoadForProbe
<1>7. ASSUME NEW p \in Probers, WriteMarks(p), step \in {"read", "loaded"}
      PROVE  TriageInv'
  <2>1. /\ UNCHANGED handler /\ about \in Findings
        /\ rows[about] \in Row /\ rows'[about] \in Row
        /\ SameButMark(rows'[about], rows[about])
    BY <1>7, WriteMarksRows DEF WriteMarks, TypeOK
  <2>2. SameButMark(RoundTrip(rows'[about]), RoundTrip(rows[about]))
    BY <2>1 DEF RoundTrip, Row, SameButMark
  <2>3. SameButMark(copy, RoundTrip(rows'[about]))
    BY <1>7, <2>2 DEF SameButMark
  <2>4. step = "read" /\ ~overtaken' => copy.negotiated = rows'[about].negotiated
    BY <1>7, <2>1, WriteMarksRows DEF WriteMarks
  <2>5. step = "loaded" => SameButMark(existing, rows'[about])
    BY <1>7, <2>1 DEF SameButMark
  <2>6. ~overtaken' => ~overtaken
    BY <1>7 DEF WriteMarks, TypeOK
  <2> QED
    BY <1>7, <2>1, <2>3, <2>4, <2>5, <2>6
<1>8. ASSUME NEW p \in Probers, WriteMarks(p), step \notin {"read", "loaded"}
      PROVE  TriageInv'
  BY <1>8 DEF WriteMarks
<1>9. ASSUME NEW p \in Probers, CutOffProbe(p)
      PROVE  TriageInv'
  BY <1>9 DEF CutOffProbe
<1>10. CASE CutOff
  BY <1>10 DEF CutOff
<1>11. CASE UNCHANGED vars
  BY <1>11
<1> QED
  BY <1>1, <1>2, <1>3, <1>4, <1>5, <1>6, <1>7, <1>8, <1>9, <1>10, <1>11 DEF Next

(* What an answered triage said stays.                                     *)
LEMMA TriageKeptStep ==
  ASSUME TypeOK, TriageInv, TriageKept, [Next]_vars
  PROVE  TriageKept'
<1> USE DEF TriageKept
<1>1. CASE WriteTriage
  <2>1. answered' = [answered EXCEPT ![about] = wanted]
    BY <1>1 DEF WriteTriage
  <2> QED
    BY <1>1, <2>1, WriteTriageRows DEF TypeOK
<1>2. ASSUME NEW p \in Probers, WriteMarks(p)
      PROVE  TriageKept'
  BY <1>2, WriteMarksRows DEF WriteMarks, SameButMark
<1>3. ASSUME NEW z \in Horizons \cup {None}, BulkUpdate(z)
      PROVE  TriageKept'
  <2>1. \A f \in Findings : RescoredRow(f, Asked(z)).triage = rows[f].triage
    BY DEF RescoredRow, TypeOK, Row
  <2> QED
    BY <1>3, <2>1 DEF BulkUpdate
<1>4. ASSUME UNCHANGED <<rows, answered>>
      PROVE  TriageKept'
  BY <1>4
<1>5. CASE LoadExisting \/ CommitRescore \/ CutOff \/ UNCHANGED vars
  BY <1>4, <1>5 DEF LoadExisting, CommitRescore, CutOff
<1>6. ASSUME NEW f \in Findings, NEW status \in Statuses, ReadFinding(f, status)
      PROVE  TriageKept'
  BY <1>4, <1>6 DEF ReadFinding
<1>7. ASSUME NEW p \in Probers,
             CutOffProbe(p) \/ \E matched \in SUBSET Findings : LoadForProbe(p, matched)
      PROVE  TriageKept'
  BY <1>4, <1>7 DEF CutOffProbe, LoadForProbe
<1> QED
  BY <1>1, <1>2, <1>3, <1>5, <1>6, <1>7 DEF Next

(* What the bulk UPDATE makes of one row.                                  *)
LEMMA RescoredRowFacts ==
  ASSUME TypeOK, NEW f \in Findings, NEW z \in Nat
  PROVE  /\ f \in Broken => RescoredRow(f, z) = rows[f]
         /\ rows[f].score = None => RescoredRow(f, z) = rows[f]
         /\ RescoredRow(f, z).score = None /\ rows[f].score # None =>
              RescoredRow(f, z).band = "low"
         /\ f \notin Broken /\ rows[f].score # None /\ z # 0 =>
              /\ RescoredRow(f, z).score = ScoreAt(f, z)
              /\ RescoredRow(f, z).band = BandOf(ScoreAt(f, z))
<1>1. rows[f] \in Row
  BY DEF TypeOK
<1>2. z # 0 => RescoredScore(f, z) = ScoreAt(f, z) /\ ScoreAt(f, z) # None
  BY ScoreRange, NoneIsFresh DEF RescoredScore
<1>3. BandOf(None) = "low"
  BY DEF BandOf
<1> QED
  BY <1>1, <1>2, <1>3 DEF RescoredRow, Row

LEMMA UnscoredStep ==
  ASSUME TypeOK, TriageInv, UnscoredInv, [Next]_vars
  PROVE  UnscoredInv'
<1> USE DEF UnscoredInv, Unscored
<1>1. CASE RiskKept
  BY <1>1 DEF RiskKept
<1>2. ASSUME NEW z \in Horizons \cup {None}, BulkUpdate(z)
      PROVE  UnscoredInv'
  <2>1. \A f \in Findings : rows'[f] = RescoredRow(f, Asked(z))
    BY <1>2 DEF BulkUpdate
  <2> QED
    BY <2>1, AskedType, RescoredRowFacts
<1>3. CASE CommitRescore
  BY <1>3 DEF CommitRescore
<1> QED
  BY <1>1, <1>2, <1>3, OthersKeepRisk

LEMMA HorizonStep ==
  ASSUME TypeOK, TriageInv, ScoresOfOneHorizon, [Next]_vars
  PROVE  ScoresOfOneHorizon'
<1> USE DEF ScoresOfOneHorizon, Unscored
<1>1. CASE RiskKept
  <2>1. \A f \in Findings : rows'[f].score = rows[f].score
    BY <1>1 DEF RiskKept
  <2>2. \A f \in Findings : rows[f].score # None =>
          rows'[f].band = rows[f].band /\ rows'[f].z = rows[f].z
    BY <1>1 DEF RiskKept
  <2>3. scoredAt' = scoredAt
    BY <1>1 DEF RiskKept
  <2> QED
    BY <2>1, <2>2, <2>3
<1>2. ASSUME NEW z \in Horizons \cup {None}, BulkUpdate(z)
      PROVE  ScoresOfOneHorizon'
  <2>1. \A f \in Findings : rows'[f] = RescoredRow(f, Asked(z))
    BY <1>2 DEF BulkUpdate
  <2>2. scoredAt' = Asked(z) /\ Asked(z) \in Nat
    BY <1>2, AskedType DEF BulkUpdate
  <2> QED
    BY <2>1, <2>2, RescoredRowFacts
<1>3. CASE CommitRescore
  BY <1>3 DEF CommitRescore
<1> QED
  BY <1>1, <1>2, <1>3, OthersKeepRisk

LEMMA BandsStep ==
  ASSUME TypeOK, TriageInv, UnscoredInv, BandsCountFindings, [Next]_vars
  PROVE  BandsCountFindings'
<1>1. CASE RiskKept
  <2>1. Unscored' = Unscored
    BY <1>1 DEF RiskKept, Unscored
  <2>2. \A b : Counted(Findings \ Unscored, b)' = Counted(Findings \ Unscored, b)
    <3>1. ASSUME NEW b
          PROVE  {f \in Findings \ Unscored' : rows'[f].band = b}
                   = {f \in Findings \ Unscored : rows[f].band = b}
      BY <1>1, <2>1 DEF RiskKept, Unscored
    <3> QED
      BY <3>1 DEF Counted
  <2>3. UNCHANGED <<bands, torn>>
    BY <1>1 DEF RiskKept
  <2> QED
    BY <2>1, <2>2, <2>3 DEF BandsCountFindings
<1>2. ASSUME NEW z \in Horizons \cup {None}, BulkUpdate(z)
      PROVE  BandsCountFindings'
  BY <1>2 DEF BulkUpdate, BandsCountFindings
<1>3. CASE CommitRescore
  <2> DEFINE Of(among, b) == {f \in among : rows[f].band = b}
  <2>1. rows' = rows /\ Unscored' = Unscored /\ \A b \in Bands : bands'[b] = Counted(Findings, b)
    BY <1>3 DEF CommitRescore, Recounted, Unscored
  <2>2. \A b \in Bands \ {"low"} : Of(Findings, b) = Of(Findings \ Unscored, b)
    BY NoneIsFresh DEF UnscoredInv, Unscored
  <2>3. Cardinality(Of(Findings, "low")) - Cardinality(Of(Findings \ Unscored, "low"))
          \in 0..Cardinality(Unscored)
    <3> DEFINE A == Of(Findings \ Unscored, "low")
               B == Of(Unscored, "low")
    <3>1. Unscored \in SUBSET Findings /\ IsFiniteSet(Unscored) /\ Cardinality(Unscored) \in Nat
      BY FindingsAreFinite, FS_Subset, FS_CardinalityType DEF Unscored
    <3>2. IsFiniteSet(A) /\ Cardinality(A) \in Nat
      <4>1. A \in SUBSET Findings
        OBVIOUS
      <4> QED
        BY <4>1, FindingsAreFinite, FS_Subset, FS_CardinalityType
    <3>3. IsFiniteSet(B) /\ Cardinality(B) \in Nat /\ Cardinality(B) <= Cardinality(Unscored)
      <4>1. B \in SUBSET Unscored
        OBVIOUS
      <4> QED
        BY <3>1, <4>1, FS_Subset, FS_CardinalityType
    <3>4. Of(Findings, "low") = A \cup B /\ A \cap B = {}
      BY <3>1
    <3>5. Cardinality(A \cup B) = Cardinality(A) + Cardinality(B)
      <4>1. Cardinality(A \cup B) = Cardinality(A) + Cardinality(B) - Cardinality(A \cap B)
        BY <3>2, <3>3, FS_Union
      <4>2. Cardinality(A \cap B) = 0
        BY <3>4, FS_EmptySet
      <4> QED
        BY <4>1, <4>2, <3>2, <3>3
    <3> HIDE DEF A, B
    <3>6. Cardinality(A \cup B) - Cardinality(A) \in 0..Cardinality(Unscored)
      BY <3>1, <3>2, <3>3, <3>5
    <3> QED
      BY <3>4, <3>6 DEF A
  <2>4. Counted(Findings \ Unscored, "low")' = Cardinality(Of(Findings \ Unscored, "low"))
    BY <2>1 DEF Counted
  <2>5. bands'["low"] = Cardinality(Of(Findings, "low"))
    BY <2>1 DEF Counted, Bands
  <2>6. \A b \in Bands \ {"low"} : bands'[b] = Counted(Findings \ Unscored, b)'
    BY <2>1, <2>2 DEF Counted
  <2> QED
    BY <2>1, <2>3, <2>4, <2>5, <2>6 DEF BandsCountFindings
<1> QED
  BY <1>1, <1>2, <1>3, OthersKeepRisk

(* The scan as the engine concluded it.                                    *)
LEMMA InitInv == Init => IInv
<1> SUFFICES ASSUME Init PROVE IInv
  OBVIOUS
<1>1. horizon \in Nat \ {0} /\ horizon \in Horizons
  BY HorizonsAssumption DEF Init
<1>2. PICK s \in Statuses :
        /\ answered = [f \in Findings |-> s]
        /\ rows = [f \in Findings |->
             [score |-> EngineScore(f, horizon), band |-> BandOf(EngineScore(f, horizon)),
              z |-> horizon, triage |-> s, negotiated |-> FALSE]]
  BY DEF Init
<1>3. \A f \in Findings : /\ EngineScore(f, horizon) \in 0..100
                          /\ EngineScore(f, horizon) # None
                          /\ BandOf(EngineScore(f, horizon)) \in Bands
  BY <1>1, ScoreRange, BandRange, NoneIsFresh
<1>4. Unscored = {}
  BY <1>2, <1>3 DEF Unscored
<1>5. TypeOK
  <2>1. rows \in [Findings -> Row]
    BY <1>1, <1>2, <1>3 DEF Row
  <2>2. bands \in [Bands -> Nat]
    BY CountedType DEF Init
  <2> QED
    BY <1>1, <1>2, <2>1, <2>2 DEF Init, TypeOK, Nothing
<1>6. TriageInv /\ UnscoredInv /\ TriageKept
  BY <1>2, <1>4 DEF Init, TriageInv, UnscoredInv, TriageKept
<1>7. ScoresOfOneHorizon
  BY <1>2 DEF Init, ScoresOfOneHorizon
<1>8. BandsCountFindings
  <2>1. Findings \ Unscored = Findings /\ Cardinality(Unscored) = 0
    BY <1>4, FS_EmptySet
  <2>2. \A b \in Bands : bands[b] = Counted(Findings, b) /\ Counted(Findings, b) \in Nat
    BY CountedType DEF Init
  <2>3. "low" \in Bands
    BY DEF Bands
  <2>4. bands["low"] - Counted(Findings \ Unscored, "low") = 0
    BY <2>1, <2>2, <2>3
  <2> QED
    BY <2>1, <2>2, <2>4 DEF BandsCountFindings
<1> QED
  BY <1>5, <1>6, <1>7, <1>8 DEF IInv

(* Types, what a triage knows, and the three state properties of rows and  *)
(* bands are kept together by every read, commit and cut.                  *)
THEOREM InductiveInvariant == Spec => []IInv
<1>1. Init => IInv
  BY InitInv
<1>2. IInv /\ [Next]_vars => IInv'
  BY TypeStep, TriageStep, UnscoredStep, TriageKeptStep, HorizonStep, BandsStep DEF IInv
<1> QED
  BY <1>1, <1>2, PTL DEF Spec

(* A triage that was answered stays, whatever else writes its row          *)
(* (store.py replace_finding against reconcile_probe_findings).            *)
THEOREM AnsweredTriageStays == Spec => []TriageKept
<1>1. IInv => TriageKept
  BY DEF IInv
<1> QED
  BY <1>1, InductiveInvariant, PTL

(* A rescore leaves no finding that has a score at an older horizon,       *)
(* although its UPDATE skips the rows it takes for unchanged.              *)
THEOREM RescoreIsUniform == Spec => []ScoresOfOneHorizon
<1>1. IInv => ScoresOfOneHorizon
  BY DEF IInv
<1> QED
  BY <1>1, InductiveInvariant, PTL

(* Unless a rescore is cut off between its commits, the bands of the scan  *)
(* count its findings.                                                     *)
THEOREM BandsAreCounts == Spec => []BandsCountFindings
<1>1. IInv => BandsCountFindings
  BY DEF IInv
<1> QED
  BY <1>1, InductiveInvariant, PTL

(* Only a triage whose two reads a probe fell between takes its mark back. *)
THEOREM MarksAreLostOneWay == Spec => MarkLostOnlyIfOvertaken
<1> DEFINE LostOnlyIfOvertaken ==
      \A f \in Findings : rows[f].negotiated /\ ~rows'[f].negotiated =>
        overtaken /\ about = f
<1>1. IInv /\ [Next]_vars => LostOnlyIfOvertaken \/ UNCHANGED vars
  <2> SUFFICES ASSUME IInv, [Next]_vars PROVE LostOnlyIfOvertaken
    OBVIOUS
  <2>1. TypeOK /\ TriageInv
    BY DEF IInv
  <2>2. CASE WriteTriage
    BY <2>1, <2>2, WriteTriageRows DEF TypeOK
  <2>3. ASSUME NEW p \in Probers, WriteMarks(p)
        PROVE  LostOnlyIfOvertaken
    BY <2>1, <2>3, WriteMarksRows
  <2>4. ASSUME NEW z \in Horizons \cup {None}, BulkUpdate(z)
        PROVE  LostOnlyIfOvertaken
    <3>1. \A f \in Findings : RescoredRow(f, Asked(z)).negotiated = rows[f].negotiated
      BY <2>1 DEF RescoredRow, TypeOK, Row
    <3> QED
      BY <2>4, <3>1 DEF BulkUpdate
  <2>5. ASSUME UNCHANGED rows
        PROVE  LostOnlyIfOvertaken
    BY <2>5
  <2>6. CASE LoadExisting \/ CommitRescore \/ CutOff \/ UNCHANGED vars
    BY <2>5, <2>6 DEF LoadExisting, CommitRescore, CutOff
  <2>7. ASSUME NEW f \in Findings, NEW status \in Statuses, ReadFinding(f, status)
        PROVE  LostOnlyIfOvertaken
    BY <2>5, <2>7 DEF ReadFinding
  <2>8. ASSUME NEW p \in Probers,
               CutOffProbe(p) \/ \E matched \in SUBSET Findings : LoadForProbe(p, matched)
        PROVE  LostOnlyIfOvertaken
    BY <2>5, <2>8 DEF CutOffProbe, LoadForProbe
  <2> QED
    BY <2>2, <2>3, <2>4, <2>6, <2>7, <2>8 DEF Next
<1>2. IInv /\ [Next]_vars => [LostOnlyIfOvertaken]_vars
  BY <1>1
<1> QED
  BY <1>2, InductiveInvariant, PTL DEF Spec, MarkLostOnlyIfOvertaken
=============================================================================
