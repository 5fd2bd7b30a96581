----------------------------- MODULE FindingStore -----------------------------
(***************************************************************************)
(* The finding rows of one concluded scan and the handlers that change     *)
(* them: PATCH /findings/{id}/triage and POST /scans/{id}/rescore, which   *)
(* are coroutines without an await and so hold the event loop throughout,  *)
(* and the reconciliation of a probe, which runs in a pool thread.         *)
(*                                                                         *)
(* One action is one read of a row by a session or one commit.  Numbers    *)
(* are whole percents; the code computes in floating point.                *)
(***************************************************************************)
EXTENDS Integers, FiniteSets

CONSTANTS Findings,     \* finding ids of the scan
          Probers,      \* pool threads that reconcile a probe
          Weight,       \* Weight[f]: 100 V F E K, the factors no horizon changes
          Years,        \* Years[f]: X + Y, shelf life and migration time
          Broken,       \* findings with classically_broken
          PrivateKeys,  \* new keys of a Shor-broken family outside test paths
          Horizons,     \* horizons Z a request may ask for
          Default,      \* the one of a request that gives none
          Statuses,     \* triage statuses
          None          \* NULL, or "not given"

ASSUME FindingsAreFinite == IsFiniteSet(Findings) /\ Broken \subseteq Findings
ASSUME FactorsAssumption ==
    Weight \in [Findings -> 0..100] /\ Years \in [Findings -> Nat]
ASSUME HorizonsAssumption == Horizons \subseteq Nat /\ Default \in Horizons \ {0}
Bands == {"critical", "high", "medium", "low"}

ASSUME NoneIsFresh == None \notin 0..100 /\ None \notin Nat /\ None \notin Bands

VARIABLES
    rows,       \* rows[f]: the row of f in the findings table
    bands,      \* bands[b]: the count in the bands column of the scan
    horizon,    \* its crqc_years column
    (* the handler that holds the event loop *)
    step, about, wanted, copy, existing, given,
    (* the pool threads *)
    seen,       \* seen[p]: the rows the session of p has marked, as loaded
    (* history *)
    scoredAt,   \* horizon of the last bulk UPDATE, None for the scan's own
    torn,       \* a rescore has committed its findings and not yet its scan
    overtaken,  \* a probe marked the finding between the two reads of a triage
    answered    \* answered[f]: the last triage committed

handler == <<step, about, wanted, copy, existing, given>>
history == <<scoredAt, torn, overtaken, answered>>
vars == <<rows, bands, horizon, handler, seen, history>>

Nothing == [f \in {} |-> None]

Row == [score : 0..100 \cup {None}, band : Bands \cup {None},
        z : Nat \cup {None}, triage : Statuses, negotiated : BOOLEAN]
-----------------------------------------------------------------------------
(* engine/risk.py, and its mirror in the SQL of the rescore *)

Clamp(value, low, high) == IF value < low THEN low ELSE IF value > high THEN high ELSE value

Urgency(f, z) ==
    IF f \in Broken THEN 100
    ELSE Clamp(50 + ((Years[f] - z) * 100) \div (2 * z), 5, 100)

ScoreAt(f, z) == (Weight[f] * Urgency(f, z)) \div 100

(* SQLite divides by zero to NULL, and NULL spreads to the score. *)
RescoredScore(f, z) == IF z = 0 THEN None ELSE ScoreAt(f, z)

(* CASE without a true branch ends in its ELSE, for NULL too. *)
BandOf(score) ==
    IF score = None THEN "low"
    ELSE IF score >= 60 THEN "critical"
    ELSE IF score >= 35 THEN "high"
    ELSE IF score >= 15 THEN "medium" ELSE "low"

(* derive_risk: a private key scores 90 at least. *)
EngineScore(f, z) ==
    IF f \in PrivateKeys /\ ScoreAt(f, z) < 90 THEN 90 ELSE ScoreAt(f, z)

Counted(among, b) == Cardinality({f \in among : rows[f].band = b})
-----------------------------------------------------------------------------
TypeOK ==
    /\ rows \in [Findings -> Row]
    /\ bands \in [Bands -> Nat]
    /\ horizon \in Horizons
    /\ step \in {"idle", "read", "loaded", "rescored"}
    /\ about \in Findings \cup {None}
    /\ wanted \in Statuses \cup {None}
    /\ copy \in Row \cup {None} /\ existing \in Row \cup {None}
    /\ given \in Horizons \cup {None}
    /\ seen = [p \in Probers |-> seen[p]]
    /\ \A p \in Probers : /\ DOMAIN seen[p] \subseteq Findings
                         /\ seen[p] \in [DOMAIN seen[p] -> Row]
    /\ scoredAt \in Horizons \cup {None}
    /\ torn \in BOOLEAN /\ overtaken \in BOOLEAN
    /\ answered \in [Findings -> Statuses]

(* A scan the engine has just concluded at some horizon. *)
Init ==
    /\ horizon \in Horizons \ {0}
    /\ \E s \in Statuses :
         /\ answered = [f \in Findings |-> s]
         /\ rows = [f \in Findings |->
              [score |-> EngineScore(f, horizon), band |-> BandOf(EngineScore(f, horizon)),
               z |-> horizon, triage |-> s, negotiated |-> FALSE]]
    /\ bands = [b \in Bands |-> Counted(Findings, b)]
    /\ step = "idle" /\ about = None /\ wanted = None /\ given = None
    /\ copy = None /\ existing = None
    /\ seen = [p \in Probers |-> Nothing]
    /\ scoredAt = None
    /\ torn = FALSE /\ overtaken = FALSE
-----------------------------------------------------------------------------
(* Defect: the session writes the whole row it has in memory. *)
MergeWhole(row, loaded, updated) == updated

(* A flush writes the columns that differ from the row the session loaded. *)
Flushed(old, loaded, updated) == IF updated # loaded THEN updated ELSE old

Merge(row, loaded, updated) ==
    [score |-> Flushed(row.score, loaded.score, updated.score),
     band |-> Flushed(row.band, loaded.band, updated.band),
     z |-> Flushed(row.z, loaded.z, updated.z),
     triage |-> Flushed(row.triage, loaded.triage, updated.triage),
     negotiated |-> Flushed(row.negotiated, loaded.negotiated, updated.negotiated)]

(* record_to_finding gives a finding without a score no risk at all, and   *)
(* finding_to_record writes every risk column of such a finding as NULL.   *)
RoundTrip(row) ==
    IF row.score = None THEN [row EXCEPT !.band = None, !.z = None] ELSE row

ReadFinding(f, status) ==
    /\ step = "idle"
    /\ step' = "read"
    /\ about' = f
    /\ wanted' = status
    /\ copy' = RoundTrip(rows[f])
    /\ overtaken' = FALSE
    /\ UNCHANGED <<rows, bands, horizon, existing, given, seen, scoredAt, torn,
                   answered>>

(* replace_finding loads the row again in a session of its own. *)
LoadExisting ==
    /\ step = "read"
    /\ step' = "loaded"
    /\ existing' = rows[about]
    /\ UNCHANGED <<rows, bands, horizon, about, wanted, copy, given, seen, history>>

WriteTriage ==
    /\ step = "loaded"
    /\ step' = "idle"
    /\ rows' = [rows EXCEPT ![about] =
                  Merge(@, existing, [copy EXCEPT !.triage = wanted])]
    /\ answered' = [answered EXCEPT ![about] = wanted]
    /\ about' = None /\ wanted' = None /\ copy' = None /\ existing' = None
    /\ UNCHANGED <<bands, horizon, given, seen, scoredAt, torn, overtaken>>
-----------------------------------------------------------------------------
(* Defect: rows whose band stays are skipped. *)
RescoredRowBandOnly(f, z) ==
    LET new == RescoredScore(f, z) row == rows[f] IN
    IF f \notin Broken /\ row.score # None /\ row.band # BandOf(new)
    THEN [row EXCEPT !.score = new, !.band = BandOf(new), !.z = z]
    ELSE row

(* The bulk UPDATE: rows that have a score, are not classically broken and *)
(* change score or band; a comparison with NULL is not true.               *)
RescoredRow(f, z) ==
    LET new == RescoredScore(f, z) row == rows[f] IN
    IF /\ f \notin Broken /\ row.score # None
       /\ (new # None /\ row.score # new) \/ row.band # BandOf(new)
    THEN [row EXCEPT !.score = new, !.band = BandOf(new), !.z = z]
    ELSE row

Asked(z) == IF z = None THEN Default ELSE z

(* WITH ... UPDATE is no DML to the sqlite3 module: it opens no            *)
(* transaction, and the UPDATE commits by itself.                          *)
BulkUpdate(z) ==
    /\ step = "idle"
    /\ step' = "rescored"
    /\ given' = z
    /\ rows' = [f \in Findings |-> RescoredRow(f, Asked(z))]
    /\ scoredAt' = Asked(z)
    /\ torn' = TRUE
    /\ UNCHANGED <<bands, horizon, about, wanted, copy, existing, seen, overtaken,
                   answered>>

(* Defect: the counts leave out the rows that the UPDATE leaves out. *)
RecountedUnbroken == [b \in Bands |-> Counted(Findings \ Broken, b)]

Recounted == [b \in Bands |-> Counted(Findings, b)]

(* The bands and the horizon of the scan, in the transaction of the audit  *)
(* record.  COALESCE keeps the horizon of a request that gives none.       *)
CommitRescore ==
    /\ step = "rescored"
    /\ step' = "idle"
    /\ bands' = Recounted
    /\ horizon' = IF given = None THEN horizon ELSE given
    /\ given' = None
    /\ torn' = FALSE
    /\ UNCHANGED <<rows, about, wanted, copy, existing, seen, scoredAt, overtaken,
                   answered>>
-----------------------------------------------------------------------------
(* reconcile_probe_findings: the session loads the rows and marks those a  *)
(* token of the handshake matches, unless they are marked already.         *)
LoadForProbe(p, matched) ==
    /\ seen[p] = Nothing
    /\ \E f \in matched : ~rows[f].negotiated
    /\ seen' = [seen EXCEPT ![p] = [f \in {g \in matched : ~rows[g].negotiated} |-> rows[f]]]
    /\ UNCHANGED <<rows, bands, horizon, handler, history>>

WriteMarks(p) ==
    /\ seen[p] # Nothing
    /\ rows' = [f \in Findings |->
                  IF f \in DOMAIN seen[p]
                  THEN Merge(rows[f], seen[p][f], [seen[p][f] EXCEPT !.negotiated = TRUE])
                  ELSE rows[f]]
    /\ overtaken' = (overtaken \/ (step = "read" /\ about \in DOMAIN seen[p]))
    /\ seen' = [seen EXCEPT ![p] = Nothing]
    /\ UNCHANGED <<bands, horizon, handler, scoredAt, torn, answered>>
-----------------------------------------------------------------------------
(* An exception, or the death of the process, which cuts off all of them.  *)
CutOff ==
    /\ step # "idle"
    /\ step' = "idle"
    /\ about' = None /\ wanted' = None /\ copy' = None /\ existing' = None
    /\ given' = None
    /\ UNCHANGED <<rows, bands, horizon, seen, history>>

CutOffProbe(p) ==
    /\ seen[p] # Nothing
    /\ seen' = [seen EXCEPT ![p] = Nothing]
    /\ UNCHANGED <<rows, bands, horizon, handler, history>>

Next ==
    \/ \E f \in Findings, status \in Statuses : ReadFinding(f, status)
    \/ LoadExisting
    \/ WriteTriage
    \/ \E z \in Horizons \cup {None} : BulkUpdate(z)
    \/ CommitRescore
    \/ \E p \in Probers : \/ \E matched \in SUBSET Findings : LoadForProbe(p, matched)
                          \/ WriteMarks(p)
                          \/ CutOffProbe(p)
    \/ CutOff

Spec == Init /\ [][Next]_vars
-----------------------------------------------------------------------------
(* Properties *)

Unscored == {f \in Findings : rows[f].score = None}

(* The bands of the scan count its findings unless a rescore was cut off   *)
(* between its two commits, and the next rescore repairs that; findings    *)
(* that have lost their score are still counted as low or as nothing.      *)
BandsCountFindings ==
    ~torn =>
      /\ \A b \in Bands \ {"low"} : bands[b] = Counted(Findings \ Unscored, b)
      /\ bands["low"] - Counted(Findings \ Unscored, "low") \in 0..Cardinality(Unscored)

(* Whatever horizons were tried before, and whatever triage and probes did *)
(* meanwhile, a rescore leaves every finding that has a score with its     *)
(* score and band at the new horizon, and a broken one as the engine left  *)
(* it (docs/OPERATIONS.md:74).                                             *)
ScoresOfOneHorizon ==
    \A f \in Findings \ Unscored :
      IF f \in Broken
      THEN rows[f].score = EngineScore(f, rows[f].z)
      ELSE scoredAt \notin {None, 0} =>
             rows[f].score = ScoreAt(f, scoredAt) /\ rows[f].band = BandOf(rows[f].score)

(* A triage that was answered stays until the next one: neither a rescore  *)
(* nor a probe that loaded the row earlier brings the old status back.     *)
TriageKept == \A f \in Findings : rows[f].triage = answered[f]

(* The mark of a probe is lost only to a triage of that finding whose two  *)
(* reads it fell between.                                                  *)
MarkLostOnlyIfOvertaken ==
    [][\A f \in Findings : rows[f].negotiated /\ ~rows'[f].negotiated =>
         overtaken /\ about = f]_vars

-----------------------------------------------------------------------------
(* The inductive strengthening that FindingStoreProofs uses: a triage under*)
(* way knows the row as it is, but for the mark of a probe.                *)
SameButMark(a, b) ==
    a.score = b.score /\ a.band = b.band /\ a.z = b.z /\ a.triage = b.triage

TriageInv ==
    step \in {"read", "loaded"} =>
      /\ about \in Findings /\ wanted \in Statuses
      /\ copy \in Row /\ SameButMark(copy, RoundTrip(rows[about]))
      /\ step = "read" /\ ~overtaken => copy.negotiated = rows[about].negotiated
      /\ step = "loaded" =>
           /\ existing \in Row /\ SameButMark(existing, rows[about])
           /\ ~overtaken => copy.negotiated = existing.negotiated

(* No finding without a score is counted above low. *)
UnscoredInv == \A f \in Unscored : rows[f].band \in {"low", None}

IInv == TypeOK /\ TriageInv /\ UnscoredInv /\ TriageKept /\ ScoresOfOneHorizon
          /\ BandsCountFindings
=============================================================================
