--------------------------- MODULE AttributionLedger ---------------------------
(***************************************************************************)
(* compute_ledger: the suspicion spans of one artifact are claimed by the  *)
(* findings that overlap them, or excluded by a predicate on their bytes,  *)
(* or left as residue, and the residue is joined into clusters.            *)
(*                                                                         *)
(* One action is one turn of one of the three loops.                       *)
(***************************************************************************)
EXTENDS Integers, Sequences, FiniteSets

CONSTANTS Bytes,       \* positions in the artifact: 0..Bytes
          Rules,       \* rules of extractors (their signal types)
          Predicates,  \* the exclusion predicates
          AppliesTo,   \* AppliesTo[p]: the rules whose spans p looks at
          Gap          \* gap_threshold

ASSUME NumbersAreNat == Bytes \in Nat /\ Gap \in Nat
ASSUME PredicatesAssumption == AppliesTo \in [Predicates -> SUBSET Rules]

VARIABLES
    phase,      \* the loop at work
    suspicion,  \* suspicion_spans
    findings,   \* ranges of the findings' spans
    todo,       \* how many spans the loop at work has dealt with
    attributed, unclaimed, excluded, residue,   \* the lists, in order
    records,    \* exclusion_records
    sorted,     \* sorted_spans
    current,    \* cur_start, cur_end, cur_spans
    clusters    \* residue_clusters

attribution == <<phase, suspicion, findings, todo, attributed, unclaimed, excluded,
                 residue, records, sorted, current, clusters>>

Place == 0..Bytes
SuspicionSpan == [rule : Rules, start : Place, end : Place]
FindingRange == [start : Place, end : Place]
Cluster == [start : Place, end : Place, spans : Seq(SuspicionSpan)]

NoCluster == [start |-> 0, end |-> 0, spans |-> <<>>]

LedgerTypeOK ==
    /\ phase \in {"claim", "exclude", "sort", "cluster", "done"}
    /\ findings \subseteq FindingRange
    /\ todo \in Nat
    /\ {suspicion, attributed, unclaimed, excluded, residue, sorted}
         \subseteq Seq(SuspicionSpan)
    /\ records \in Seq([span : SuspicionSpan, predicate : Predicates])
    /\ current \in Cluster
    /\ clusters \in Seq(Cluster)

Start(spans, ranges) ==
    /\ phase = "claim"
    /\ suspicion = spans
    /\ findings = ranges
    /\ todo = 0
    /\ attributed = <<>> /\ unclaimed = <<>> /\ excluded = <<>> /\ residue = <<>>
    /\ records = <<>> /\ sorted = <<>>
    /\ current = NoCluster /\ clusters = <<>>

LedgerInit ==
    \E spans \in Seq(SuspicionSpan), ranges \in SUBSET FindingRange : Start(spans, ranges)
-----------------------------------------------------------------------------
(* Defect: two spans that touch overlap. *)
SpansTouch(s, f) == s.start <= f.end /\ f.start <= s.end

(* On one artifact: max(start) < min(end).  An empty span overlaps nothing.*)
spans_overlap(s, f) ==
    /\ s.start < s.end /\ s.start < f.end
    /\ f.start < s.end /\ f.start < f.end

Claimed(s) == \E f \in findings : spans_overlap(s, f)

(* attribute_claims *)
Claim ==
    LET s == suspicion[todo + 1]
    IN  /\ phase = "claim"
        /\ todo < Len(suspicion)
        /\ todo' = todo + 1
        /\ IF Claimed(s)
           THEN attributed' = Append(attributed, s) /\ UNCHANGED unclaimed
           ELSE unclaimed' = Append(unclaimed, s) /\ UNCHANGED attributed
        /\ UNCHANGED <<phase, suspicion, findings, excluded, residue, records, sorted,
                       current, clusters>>

(* Defect: the loop leaves out the last span. *)
EndOfClaimsEarly ==
    /\ phase = "claim"
    /\ todo + 1 >= Len(suspicion)
    /\ phase' = "exclude"
    /\ todo' = 0
    /\ UNCHANGED <<suspicion, findings, attributed, unclaimed, excluded, residue,
                   records, sorted, current, clusters>>

EndOfClaims ==
    /\ phase = "claim"
    /\ todo = Len(suspicion)
    /\ phase' = "exclude"
    /\ todo' = 0
    /\ UNCHANGED <<suspicion, findings, attributed, unclaimed, excluded, residue,
                   records, sorted, current, clusters>>

(* Which predicates are asked about a span. *)
MayJudge(p, s) == s.rule \in AppliesTo[p]

(* evaluate_exclusions: the first predicate that holds is put on record.   *)
(* What the bytes are like, and so which one that is, is left open.        *)
Exclude ==
    LET s == unclaimed[todo + 1]
    IN  /\ phase = "exclude"
        /\ todo < Len(unclaimed)
        /\ todo' = todo + 1
        /\ \E p \in Predicates :
             /\ MayJudge(p, s)
             /\ records' = Append(records, [span |-> s, predicate |-> p])
        /\ excluded' = Append(excluded, s)
        /\ UNCHANGED <<phase, suspicion, findings, attributed, unclaimed, residue,
                       sorted, current, clusters>>

LeaveAsResidue ==
    /\ phase = "exclude"
    /\ todo < Len(unclaimed)
    /\ todo' = todo + 1
    /\ residue' = Append(residue, unclaimed[todo + 1])
    /\ UNCHANGED <<phase, suspicion, findings, attributed, unclaimed, excluded,
                   records, sorted, current, clusters>>

EndOfExclusions ==
    /\ phase = "exclude"
    /\ todo = Len(unclaimed)
    /\ phase' = "sort"
    /\ todo' = 0
    /\ UNCHANGED <<suspicion, findings, attributed, unclaimed, excluded, residue,
                   records, sorted, current, clusters>>
-----------------------------------------------------------------------------
(* cluster_residue_spans *)

(* (start, end), lexicographically *)
NotAfter(s, t) == s.start < t.start \/ (s.start = t.start /\ s.end <= t.end)

(* The one order that sorts a list, up to equal keys. *)
Orders(list) ==
    {order \in [1..Len(list) -> 1..Len(list)] :
       \A i, j \in 1..Len(list) :
         i < j => order[i] # order[j] /\ NotAfter(list[order[i]], list[order[j]])}

InOrder(list, order) == [i \in 1..Len(list) |-> list[order[i]]]

Sort ==
    /\ phase = "sort"
    /\ \E order \in Orders(residue) : sorted' = InOrder(residue, order)
    /\ phase' = "cluster"
    /\ UNCHANGED <<suspicion, findings, todo, attributed, unclaimed, excluded, residue,
                   records, current, clusters>>

(* Defect: a cluster ends where its last span does. *)
ReachOfLast(c, s) == s.end

Reach(c, s) == IF s.end > c.end THEN s.end ELSE c.end

Opened(s) == [start |-> s.start, end |-> s.end, spans |-> <<s>>]

Extended(c, s) ==
    [start |-> c.start, end |-> Reach(c, s), spans |-> Append(c.spans, s)]

Near(c, s) == s.start <= c.end + Gap

(* Nothing is open before the first span; a span out of reach closes the   *)
(* cluster that is.                                                        *)
Cluster1 ==
    LET s == sorted[todo + 1]
    IN  /\ phase = "cluster"
        /\ todo < Len(sorted)
        /\ todo' = todo + 1
        /\ IF todo = 0
           THEN current' = Opened(s) /\ UNCHANGED clusters
           ELSE IF Near(current, s)
           THEN current' = Extended(current, s) /\ UNCHANGED clusters
           ELSE current' = Opened(s) /\ clusters' = Append(clusters, current)
        /\ UNCHANGED <<phase, suspicion, findings, attributed, unclaimed, excluded,
                       residue, records, sorted>>

EndOfClusters ==
    /\ phase = "cluster"
    /\ todo = Len(sorted)
    /\ phase' = "done"
    /\ clusters' = IF sorted = <<>> THEN clusters ELSE Append(clusters, current)
    /\ UNCHANGED <<suspicion, findings, todo, attributed, unclaimed, excluded, residue,
                   records, sorted, current>>

Attribute == \/ Claim \/ EndOfClaims
             \/ Exclude \/ LeaveAsResidue \/ EndOfExclusions
             \/ Sort \/ Cluster1 \/ EndOfClusters

LedgerSpec == LedgerInit /\ [][Attribute]_attribution
-----------------------------------------------------------------------------
(* Properties *)

SharesByte(s) ==
    \E f \in findings : \E byte \in s.start..(s.end - 1) : byte \in f.start..(f.end - 1)

(* A span is attributed exactly if it shares a byte with a finding: no     *)
(* finding's evidence is excluded or left as residue, and no residue is    *)
(* counted as covered (claim.py:4).                                        *)
ClaimedFirst ==
    /\ \A i \in 1..Len(attributed) : SharesByte(attributed[i])
    /\ \A i \in 1..Len(excluded) : ~SharesByte(excluded[i])
    /\ \A i \in 1..Len(residue) : ~SharesByte(residue[i])

(* Every exclusion, and nothing else, is on record with a predicate that   *)
(* looks at such spans (exclude.py:9: "a predicate that cannot be stated   *)
(* falsifiably is NOT an exclusion").                                      *)
ExclusionsOnRecord ==
    /\ Len(records) = Len(excluded)
    /\ \A i \in 1..Len(records) :
         /\ records[i].span = excluded[i]
         /\ excluded[i].rule \in AppliesTo[records[i].predicate]

(* What an operator may take a ledger's lists for. *)
LedgerSound == ClaimedFirst /\ ExclusionsOnRecord

(* Conservation, counted: no span is lost between the three loops.         *)
SpansConserved ==
    phase = "done" =>
      Len(attributed) + Len(excluded) + Len(residue) = Len(suspicion)

(* More than gap_threshold bytes lie between s and t. *)
Far(s, t) == s.end + Gap < t.start

(* Residue spans of different clusters are far from each other, so that    *)
(* bytes near each other have one cluster and one hash, whatever the order *)
(* and the nesting of their spans.                                         *)
ClustersApart ==
    \A i, j \in 1..Len(clusters) : i < j =>
      \A s \in 1..Len(clusters[i].spans), t \in 1..Len(clusters[j].spans) :
        Far(clusters[i].spans[s], clusters[j].spans[t])
-----------------------------------------------------------------------------
(* The inductive strengthening that AttributionLedgerProofs uses: where    *)
(* the spans are that a loop has not reached, and how far the cluster that *)
(* is open reaches.                                                        *)
UnclaimedInv == \A i \in 1..Len(unclaimed) : ~SharesByte(unclaimed[i])

CountInv ==
    /\ phase = "claim" =>
         /\ todo <= Len(suspicion) /\ Len(attributed) + Len(unclaimed) = todo
         /\ Len(excluded) = 0 /\ Len(residue) = 0
    /\ phase = "exclude" =>
         /\ Len(attributed) + Len(unclaimed) = Len(suspicion)
         /\ todo <= Len(unclaimed) /\ Len(excluded) + Len(residue) = todo
    /\ phase \in {"sort", "cluster", "done"} =>
         Len(attributed) + Len(excluded) + Len(residue) = Len(suspicion)

Closed(s) == \E i \in 1..Len(clusters) : \E n \in 1..Len(clusters[i].spans) :
               s = clusters[i].spans[n]

OpenInv ==
    /\ phase \in {"claim", "exclude", "sort"} => clusters = <<>>
    /\ phase = "sort" => todo = 0
    /\ phase = "cluster" =>
         /\ todo <= Len(sorted)
         /\ todo = 0 => clusters = <<>>
         /\ \A i, j \in 1..Len(sorted) : i < j => sorted[i].start <= sorted[j].start
         /\ todo > 0 =>
              \A t \in 1..Len(current.spans) : current.spans[t].end <= current.end
         /\ \A s \in SuspicionSpan : Closed(s) =>
              /\ \A t \in 1..Len(current.spans) : Far(s, current.spans[t])
              /\ \A j \in 1..Len(sorted) : j > todo => Far(s, sorted[j])

LedgerInv ==
    /\ LedgerTypeOK /\ UnclaimedInv /\ CountInv /\ OpenInv
    /\ ClaimedFirst /\ ExclusionsOnRecord /\ ClustersApart
=============================================================================
