--------------------------- MODULE MassConservation ---------------------------
(***************************************************************************)
(* From the bytes of an artifact to its coverage certificate: an extractor *)
(* reports suspicion spans, compute_ledger attributes them, and            *)
(* generate_coverage_certificate sums up and lists the heaviest clusters.  *)
(***************************************************************************)
EXTENDS Extractors, AttributionLedger, SequencesExt

CONSTANT FindingRanges, \* sets of ranges that the findings' spans may have
         TopN,          \* top_n
         MaxSpans       \* bound: suspicion spans of a ledger

ASSUME TopNAssumption == TopN \in Nat /\ MaxSpans \in Nat
ASSUME LedgerTakesSpans == RuleNames \subseteq Rules /\ Size <= Bytes
ASSUME RangesAssumption == FindingRanges \subseteq SUBSET FindingRange

VARIABLES
    called,       \* compute_ledger has been called
    certificate   \* the certificate, or None

vars == <<extraction, attribution, called, certificate>>

Magnitude(s) == s.end - s.start

(* Masses(list)[n] is the sum over the first n spans. *)
Masses(list) ==
    LET mass[n \in 0..Len(list)] ==
          IF n = 0 THEN 0 ELSE mass[n - 1] + Magnitude(list[n])
    IN  mass

MassOf(list) == Masses(list)[Len(list)]

ClusterMass(c) == MassOf(c.spans)

TypeOK ==
    /\ ExtractorsTypeOK
    /\ LedgerTypeOK
    /\ called \in BOOLEAN
    /\ certificate = None
         \/ certificate \in [total : Nat, attributed : Nat, excluded : Nat,
                             residue : Nat, count : Nat, top : Seq(Cluster)]

Init ==
    /\ ExtractorsInit
    /\ Start(<<>>, {})
    /\ called = FALSE
    /\ certificate = None
-----------------------------------------------------------------------------
RunExtractor ==
    /\ Extract
    /\ UNCHANGED <<attribution, called, certificate>>

(* all_spans.sort and the call of compute_ledger.  Spans of the same bytes *)
(* are sorted by their rules, which is left open.                          *)
compute_ledger ==
    /\ Extracted
    /\ ~called
    /\ Len(spans) <= MaxSpans
    /\ called' = TRUE
    /\ \E order \in Orders(spans) : suspicion' = InOrder(spans, order)
    /\ findings' \in FindingRanges
    /\ UNCHANGED <<phase, todo, attributed, unclaimed, excluded, residue, records,
                   sorted, current, clusters, extraction, certificate>>

RunLedger ==
    /\ called
    /\ Attribute
    /\ UNCHANGED <<extraction, called, certificate>>

HeavierFirst(c, d) == ClusterMass(c) >= ClusterMass(d)

(* sorted is stable, also in reverse: ties keep their order. *)
TopClusters ==
    LET n == Len(clusters)
        order == SortSeq([i \in 1..n |-> i],
                   LAMBDA i, j : /\ HeavierFirst(clusters[i], clusters[j])
                                 /\ HeavierFirst(clusters[j], clusters[i]) => i < j)
    IN  [i \in 1..(IF n < TopN THEN n ELSE TopN) |-> clusters[order[i]]]

generate_coverage_certificate ==
    /\ phase = "done"
    /\ certificate = None
    /\ certificate' = [total |-> MassOf(suspicion), attributed |-> MassOf(attributed),
                       excluded |-> MassOf(excluded), residue |-> MassOf(residue),
                       count |-> Len(clusters), top |-> TopClusters]
    /\ UNCHANGED <<extraction, attribution, called>>

Next == RunExtractor \/ compute_ledger \/ RunLedger \/ generate_coverage_certificate

Spec == Init /\ [][Next]_vars
-----------------------------------------------------------------------------
(* Properties *)

(* The certificate conserves mass: what the extractors found suspicious is *)
(* attributed, excluded or residue, to the byte (ledger.py:3, and the      *)
(* assertion of verify_invariant at ledger.py:163).                        *)
Conservation ==
    certificate # None =>
      certificate.attributed + certificate.excluded + certificate.residue
        = certificate.total

(* The clusters, cut from the sorted spans at these places. *)
Cuts(last) ==
    {cut \in [0..Len(clusters) -> 0..last] :
       /\ cut[0] = 0
       /\ \A i \in 1..Len(clusters) :
            clusters[i].spans = SubSeq(sorted, cut[i - 1] + 1, cut[i])}

(* c reaches from the first byte of its spans to the last. *)
Spanned(c) ==
    LET held == ToSet(c.spans)
    IN  /\ \A s \in held : c.start <= s.start /\ s.end <= c.end
        /\ \E s \in held : s.start = c.start
        /\ \E s \in held : s.end = c.end

(* The clusters are the residue, no span more or less; each reaches from    *)
(* the first byte of its spans to the last, so that the hash that names it  *)
(* is that of all their bytes; and spans of different clusters are more     *)
(* than gap_threshold apart (ledger.py:57).                                *)
ClustersPartition ==
    /\ ClustersApart
    /\ phase = "done" =>
         /\ \E cut \in Cuts(Len(sorted)) : cut[Len(clusters)] = Len(sorted)
         /\ \A i \in 1..Len(clusters) : Spanned(clusters[i])
-----------------------------------------------------------------------------
(* The inductive invariant *)

(* What the lists weigh: that of the spans that the loop has dealt with. *)
BalanceInv ==
    /\ phase = "claim" => MassOf(attributed) + MassOf(unclaimed) = Masses(suspicion)[todo]
    /\ phase = "exclude" =>
         /\ MassOf(attributed) + MassOf(unclaimed) = MassOf(suspicion)
         /\ MassOf(excluded) + MassOf(residue) = Masses(unclaimed)[todo]
    /\ phase \in {"sort", "cluster", "done"} =>
         MassOf(attributed) + MassOf(excluded) + MassOf(residue) = MassOf(suspicion)

CertificateInv ==
    certificate # None =>
      /\ phase = "done"
      /\ certificate.total = MassOf(suspicion) /\ certificate.attributed = MassOf(attributed)
      /\ certificate.excluded = MassOf(excluded) /\ certificate.residue = MassOf(residue)

(* The clusters are cut from the sorted spans, the open one last. *)
CutInv ==
    /\ phase = "cluster" =>
         \E cut \in Cuts(todo) :
           todo > 0 => /\ cut[Len(clusters)] < todo
                       /\ current.spans = SubSeq(sorted, cut[Len(clusters)] + 1, todo)
                       /\ Spanned(current)
    /\ phase = "done" => \E cut \in Cuts(Len(sorted)) : cut[Len(clusters)] = Len(sorted)
    /\ phase \in {"cluster", "done"} => \A i \in 1..Len(clusters) : Spanned(clusters[i])

MassInv ==
    /\ ExtractorsInv
    /\ LedgerInv
    /\ called \in BOOLEAN
    /\ ~called => Start(<<>>, {})
    /\ BalanceInv /\ CertificateInv /\ CutInv
=============================================================================
