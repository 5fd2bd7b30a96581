------------------------------ MODULE PolicyLedger ------------------------------
(***************************************************************************)
(* Policies, the criticalities that operators give to paths of a target,   *)
(* and the scans that are scored against both.  PUT /criticality runs in   *)
(* pool threads; a CSV import runs on the event loop and writes its rows   *)
(* one session at a time, without awaiting, so that PUTs fall between its  *)
(* rows and between the SELECT and the commit of one row; policies are     *)
(* read and written on the event loop in one session.  A scan of a target  *)
(* reads its policy in one session and the criticalities in the next, and  *)
(* scores what the engine finds against the two.                           *)
(***************************************************************************)
EXTENDS RiskFactors, Sequences

CONSTANTS Targets,          \* ids of targets
          Patterns, Paths,  \* globs, and the paths they are matched with
          Matches,          \* the pairs <<path, pattern>> that fnmatch accepts
          PolicyIds, DefaultId,
          DefaultPolicy,    \* stub_data.DEFAULT_POLICY
          PolicyBodies,     \* bodies of PUT /policies
          Writers,          \* threads that serve PUT /criticality
          Records,          \* bodies of PUT /criticality
          Files,            \* CSV files, sequences of rows
          Scans,            \* scans that may be started
          Detections,       \* what the engine finds in each of them
          Horizons          \* values of crqcYears in POST /scans

Importer == "import"

Word == STRING              \* a criticality as a CSV file spells it
AssetCriticality == [target : Targets, pattern : Patterns,
                     criticality : Criticality, facing : {"internal", "external"}]
FileRow == [target : Targets, pattern : Patterns, word : Word, facing : Word]

Globbed == [glob : Patterns, context : Context]
Policy == [crqcYears : Nat, default : Context, contexts : Seq(Globbed)]

ASSUME RecordsTyped == Records \subseteq AssetCriticality
ASSUME FilesTyped == Files \subseteq Seq(FileRow)
ASSUME DetectionsTyped == Detections \subseteq Detection
ASSUME PoliciesTyped == PolicyBodies \cup {DefaultPolicy} \subseteq Policy
ASSUME HorizonsTyped == Horizons \subseteq Nat
ASSUME NamesAreFresh == None \notin Targets /\ None \notin Files /\ Importer \notin Writers

VARIABLES
    policies,   \* policies[i]: the row of policy i, or None
    crits,      \* the rows of asset_criticalities, in rowid order
    writing,    \* writing[w]: the record that w has read for and not yet saved
    existing,   \* existing[w]: that SELECT found a row
    file,       \* the CSV file being imported, or None
    saved,      \* how many of its rows have been committed
    answer,     \* status of the import, None while it runs
    scan,       \* scan[s]: what is known of scan s
    (* history *)
    putSince,   \* keys a PUT has committed since the import wrote them
    known       \* known[s]: the keys that had a criticality when s read its
                \* policy, and the records seen until it read them

vars == <<policies, crits, writing, existing, file, saved, answer, scan,
          putSince, known>>

Key(rec) == <<rec.target, rec.pattern>>
Stored(key) == {i \in DOMAIN crits : Key(crits[i]) = key}

Stages == {"new", "policy", "resolved", "scored", "failed"}
Risk == [score : Nat, band : Band, context : Context, z : Nat]
ScanRecord == [stage : Stages, target : Targets \cup {None},
               policy : Policy \cup {None}, risk : [Detections -> Risk] \cup {None}]

(* Every key of asset_criticalities has one row at most, and a scan has    *)
(* what its stage says.                                                    *)
TypeOK ==
    /\ policies \in [PolicyIds -> Policy \cup {None}]
    /\ crits \in Seq(AssetCriticality)
    /\ \A i, j \in DOMAIN crits : Key(crits[i]) = Key(crits[j]) => i = j
    /\ writing \in [Writers \cup {Importer} -> AssetCriticality \cup {None}]
    /\ existing \in [Writers \cup {Importer} -> BOOLEAN]
    /\ file \in Files \cup {None}
    /\ saved \in Nat /\ IF file = None THEN saved = 0 ELSE saved <= Len(file)
    /\ answer \in {None, 200, 400}
    /\ scan \in [Scans -> ScanRecord]
    /\ \A s \in Scans :
         /\ scan[s].stage # "new" => scan[s].policy \in Policy
         /\ scan[s].stage = "policy" => scan[s].target \in Targets
         /\ scan[s].stage = "scored" => scan[s].risk \in [Detections -> Risk]
    /\ putSince \subseteq Targets \X Patterns
    /\ known \in [Scans -> [keys : SUBSET (Targets \X Patterns),
                           records : SUBSET AssetCriticality]]

NewScan == [stage |-> "new", target |-> None, policy |-> None, risk |-> None]

(* init_db seeds the default policy. *)
Init ==
    /\ policies = [i \in PolicyIds |-> IF i = DefaultId THEN DefaultPolicy ELSE None]
    /\ crits = <<>>
    /\ writing = [w \in Writers \cup {Importer} |-> None]
    /\ existing = [w \in Writers \cup {Importer} |-> FALSE]
    /\ file = None /\ saved = 0 /\ answer = None
    /\ scan = [s \in Scans |-> NewScan]
    /\ putSince = {}
    /\ known = [s \in Scans |-> [keys |-> {}, records |-> {}]]
-----------------------------------------------------------------------------
(* While an import runs nothing else runs on the event loop. *)
Importing == file # None /\ answer = None

(* PUT /policies, PUT /policies/{id} with the id of its body. *)
PutPolicy(i, body) ==
    /\ ~Importing
    /\ policies' = [policies EXCEPT ![i] = body]
    /\ UNCHANGED <<crits, writing, existing, file, saved, answer, scan,
                   putSince, known>>

(* The SELECT of set_asset_criticality. *)
Look(w, rec) ==
    /\ writing[w] = None
    /\ writing' = [writing EXCEPT ![w] = rec]
    /\ existing' = [existing EXCEPT ![w] = Stored(Key(rec)) # {}]

(* Defect: the record that exists already is kept. *)
SaveUnlessThere(rec, found) ==
    IF found THEN crits ELSE Append(crits, rec)

(* Delete and insert of one primary key are flushed as one UPDATE, which   *)
(* keeps the row's place.                                                  *)
Save(rec, found) ==
    IF found THEN [i \in DOMAIN crits |-> IF i \in Stored(Key(rec)) THEN rec ELSE crits[i]]
    ELSE Append(crits, rec)

(* The records a scan that has read its policy may now come to see. *)
SeenBy(rec) ==
    [s \in Scans |-> IF scan[s].stage = "policy"
                     THEN [known[s] EXCEPT !.records = @ \cup {rec}] ELSE known[s]]

(* Defect: an INSERT never fails. *)
CollidesNever(w) == FALSE

(* An INSERT of a key that another has inserted meanwhile fails. *)
Collides(w) == ~existing[w] /\ Stored(Key(writing[w])) # {}

PutLook(w, rec) ==
    /\ w \in Writers
    /\ Look(w, rec)
    /\ UNCHANGED <<policies, crits, file, saved, answer, scan, putSince, known>>

PutCommit(w) ==
    /\ w \in Writers /\ writing[w] # None
    /\ \/ /\ Collides(w)
          /\ UNCHANGED <<crits, putSince, known>>
       \/ /\ ~Collides(w)
          /\ crits' = Save(writing[w], existing[w])
          /\ known' = SeenBy(writing[w])
          /\ putSince' = putSince \cup {Key(writing[w])}
    /\ writing' = [writing EXCEPT ![w] = None]
    /\ existing' = [existing EXCEPT ![w] = FALSE]
    /\ UNCHANGED <<policies, file, saved, answer, scan>>
-----------------------------------------------------------------------------
(* A CSV spells its words in any case; "critical" is mission-critical and  *)
(* what it does not know is medium.                                        *)
CriticalityOf(word) ==
    CASE word = "critical" -> "mission-critical"
      [] word \in Criticality -> word
      [] OTHER -> "medium"

FacingOf(word) == IF word = "external" THEN "external" ELSE "internal"

Converted(row) ==
    [target |-> row.target, pattern |-> row.pattern,
     criticality |-> CriticalityOf(row.word), facing |-> FacingOf(row.facing)]

(* One import is enough: two never overlap. *)
BeginImport(csv) ==
    /\ file = None
    /\ file' = csv
    /\ UNCHANGED <<policies, crits, writing, existing, saved, answer, scan,
                   putSince, known>>

ImportLook ==
    /\ Importing /\ saved < Len(file)
    /\ Look(Importer, Converted(file[saved + 1]))
    /\ UNCHANGED <<policies, crits, file, saved, answer, scan, putSince, known>>

(* The first row that cannot be saved ends the import with a 400; the rows *)
(* before it have been committed.                                          *)
ImportCommit ==
    /\ Importing /\ writing[Importer] # None
    /\ \/ /\ Collides(Importer)
          /\ answer' = 400
          /\ UNCHANGED <<crits, saved, putSince, known>>
       \/ /\ ~Collides(Importer)
          /\ crits' = Save(writing[Importer], existing[Importer])
          /\ known' = SeenBy(writing[Importer])
          /\ putSince' = putSince \ {Key(writing[Importer])}
          /\ saved' = saved + 1
          /\ UNCHANGED answer
    /\ writing' = [writing EXCEPT ![Importer] = None]
    /\ existing' = [existing EXCEPT ![Importer] = FALSE]
    /\ UNCHANGED <<policies, file, scan>>

(* The reader meets a line it cannot parse. *)
ImportGarbled ==
    /\ Importing /\ writing[Importer] = None
    /\ answer' = 400
    /\ UNCHANGED <<policies, crits, writing, existing, file, saved, scan,
                   putSince, known>>

ImportAnswer ==
    /\ Importing /\ saved = Len(file)
    /\ answer' = 200
    /\ UNCHANGED <<policies, crits, writing, existing, file, saved, scan,
                   putSince, known>>
-----------------------------------------------------------------------------
(* The first session of resolve_policy: an unknown id gets the default of  *)
(* the code, and POST /scans may override the horizon.                     *)
ResolvePolicy(s, target, i, z) ==
    /\ scan[s].stage = "new"
    /\ IF target = None THEN ~Importing ELSE z = None
    /\ LET stored == IF policies[i] = None THEN DefaultPolicy ELSE policies[i]
           asked == IF z = None THEN stored ELSE [stored EXCEPT !.crqcYears = z]
       IN  scan' = [scan EXCEPT ![s].stage = IF target = None THEN "resolved" ELSE "policy",
                                ![s].target = target, ![s].policy = asked]
    /\ known' = [known EXCEPT ![s] = [keys |-> {Key(crits[n]) : n \in DOMAIN crits},
                                     records |-> {crits[n] : n \in DOMAIN crits}]]
    /\ UNCHANGED <<policies, crits, writing, existing, file, saved, answer, putSince>>

AsContext(rec, policy) ==
    [glob |-> rec.pattern,
     context |-> [exposure |-> rec.facing, criticality |-> rec.criticality,
                  shelfLife |-> policy.default.shelfLife,
                  migration |-> policy.default.migration]]

(* Defect: the operator's contexts come after the policy's own. *)
WithCriticalitiesLast(policy, recs) ==
    [policy EXCEPT !.contexts =
        @ \o [i \in DOMAIN recs |-> AsContext(recs[i], policy)]]

WithCriticalities(policy, recs) ==
    [policy EXCEPT !.contexts =
        [i \in DOMAIN recs |-> AsContext(recs[i], policy)] \o @]

(* list_asset_criticalities: the rows of one target, in their order. *)
Kept(recs, target) ==
    LET kept[n \in 0..Len(recs)] ==
          IF n = 0 THEN <<>>
          ELSE IF recs[n].target = target THEN Append(kept[n - 1], recs[n])
          ELSE kept[n - 1]
    IN  kept

OfTarget(recs, target) == Kept(recs, target)[Len(recs)]

(* The second session: the criticalities of the scan's target. *)
ResolveContexts(s) ==
    /\ scan[s].stage = "policy"
    /\ scan' = [scan EXCEPT
                  ![s].stage = "resolved",
                  ![s].policy = WithCriticalities(@, OfTarget(crits, scan[s].target))]
    /\ UNCHANGED <<policies, crits, writing, existing, file, saved, answer,
                   putSince, known>>

(* _matched_context: the first glob that matches. *)
MatchedContext(path, policy) ==
    LET hits == {i \in DOMAIN policy.contexts : <<path, policy.contexts[i].glob>> \in Matches}
    IN  IF hits = {} THEN policy.default
        ELSE policy.contexts[CHOOSE i \in hits : \A j \in hits : i <= j].context

DeriveRisk(d, policy) ==
    LET ctx == MatchedContext(d.path, policy)
        floored == Floored(d, ctx, ExactScore(d, ctx, policy.crqcYears))
    IN  [score |-> floored.score, band |-> floored.band, context |-> ctx,
         z |-> policy.crqcYears]

(* The engine scores every detection; a division by zero ends the scan. *)
Score(s) ==
    /\ scan[s].stage = "resolved"
    /\ LET policy == scan[s].policy IN
       scan' = [scan EXCEPT ![s] =
                  IF \A d \in Detections : HasScore(d, policy.crqcYears)
                  THEN [@ EXCEPT !.stage = "scored",
                                 !.risk = [d \in Detections |-> DeriveRisk(d, policy)]]
                  ELSE [@ EXCEPT !.stage = "failed"]]
    /\ UNCHANGED <<policies, crits, writing, existing, file, saved, answer,
                   putSince, known>>

Next ==
    \/ \E i \in PolicyIds, body \in PolicyBodies : PutPolicy(i, body)
    \/ \E w \in Writers, rec \in Records : PutLook(w, rec)
    \/ \E w \in Writers : PutCommit(w)
    \/ \E csv \in Files : BeginImport(csv)
    \/ ImportLook \/ ImportCommit \/ ImportGarbled \/ ImportAnswer
    \/ \E s \in Scans, target \in Targets \cup {None}, i \in PolicyIds,
          z \in Horizons \cup {None} : ResolvePolicy(s, target, i, z)
    \/ \E s \in Scans : ResolveContexts(s) \/ Score(s)

Spec == Init /\ [][Next]_vars
-----------------------------------------------------------------------------
(* The rows an import has reported as saved - all of them with a 200, those *)
(* before the failing one with a 400 - stand as the last line with their    *)
(* key has them, unless a PUT has saved that key since: row-by-row sessions *)
(* and requests between them lose no line (routes/criticality.py:41).       *)
ImportStands ==
    file # None =>
      \A i \in 1..saved :
        LET key == Key(file[i])
            lastLine == CHOOSE j \in 1..saved :
                          Key(file[j]) = key /\ \A k \in (j + 1)..saved : Key(file[k]) # key
        IN  key \in putSince \/ \E n \in Stored(key) : crits[n] = Converted(file[lastLine])

(* "Explicit, operator-set criticality takes priority over the policy's own *)
(* path-glob contexts" (store.py:97): a path that a criticality of the      *)
(* target matched when its scan began is scored by an operator's context,   *)
(* whatever is put, imported or changed in the policy before the scan has   *)
(* read the criticalities in its second session.                            *)
OperatorPrevails ==
    \A s \in Scans : scan[s].stage = "scored" =>
      \A d \in Detections :
        (\E key \in known[s].keys : key[1] = scan[s].target /\ <<d.path, key[2]>> \in Matches)
        => \E rec \in known[s].records :
             /\ rec.target = scan[s].target /\ <<d.path, rec.pattern>> \in Matches
             /\ scan[s].risk[d].context = AsContext(rec, scan[s].policy).context

Scored == {sd \in Scans \X Detections : scan[sd[1]].stage = "scored"}
RiskOf(sd) == scan[sd[1]].risk[sd[2]]

(* The limits of the bands, and the bands from each of them up (risk.py:5). *)
AtOrAbove == {<<6000, {"critical"}>>, <<3500, {"critical", "high"}>>,
              <<1500, {"critical", "high", "medium"}>>}

(* An earlier quantum horizon never lowers the risk of one detection in one *)
(* context, and leaves that of a family that is broken already; a generated *)
(* key of a broken family outside test paths is critical, at 90 or more; no *)
(* score is above 100; and the band that is stored is that of the score     *)
(* that is stored, but at a limit itself: the band is told before the score *)
(* is rounded, which may lift it to the limit (factors.py:76, :92,          *)
(* risk.py:1).                                                              *)
ScoresSound ==
    /\ \A sd, te \in Scored :
         (sd[2] = te[2] /\ RiskOf(sd).context = RiskOf(te).context) =>
           /\ RiskOf(sd).z <= RiskOf(te).z => RiskOf(sd).score >= RiskOf(te).score
           /\ IsClassicallyBroken(sd[2]) => RiskOf(sd).score = RiskOf(te).score
    /\ \A sd \in Scored :
         LET r == RiskOf(sd) IN
         /\ (/\ sd[2].function = "keygen" /\ Vulnerability(sd[2]) = 20
             /\ r.context.exposure # "test")
            => r.score >= PrivateKeyFloor /\ r.band = "critical"
         /\ r.score <= 10000
         /\ \A limit \in AtOrAbove :
              /\ r.score > limit[1] => r.band \in limit[2]
              /\ r.score < limit[1] => r.band \notin limit[2]

(* The tables of risk, recommendation and CBOM agree: a detection that is   *)
(* scored high has a recommended target, but a ChaCha20 with a short key,   *)
(* which Java code can ask for; post-quantum targets are for what a quantum *)
(* computer breaks, and the target replaces a primitive by one of its kind  *)
(* (families.py:37, recommend.py:30, cbom.py:43).                           *)
RemedyForRisk ==
    \A sd \in Scored :
      LET d == sd[2]
          Replaces(targets, primitives) ==
            Recommend(d) \in targets => Primitive(d) \in primitives
      IN  /\ (/\ RiskOf(sd).band \in {"critical", "high"} /\ d.family # None
              /\ ~(d.family = "ChaCha20" /\ Vulnerability(d) = 12))
             => Recommend(d) # None
          /\ Recommend(d) \in {"ML-KEM-768", "ML-KEM-1024", "ML-DSA-65", "ML-DSA-87"}
             <=> d.family \in ShorBroken
          /\ Replaces({"ML-DSA-65", "ML-DSA-87"}, {"signature"})
          /\ Replaces({"ML-KEM-768", "ML-KEM-1024"}, {"pke", "key-agree"})
          /\ Replaces({"AES-256-GCM"}, {"block-cipher", "stream-cipher", "ae"})
          /\ Replaces({"SHA-2-256"}, {"hash"})
          /\ Replaces({"HMAC-SHA-2-256"}, {"mac"})
-----------------------------------------------------------------------------
(* The inductive invariant *)

(* A row that a writer found is still there when it saves, and the importer *)
(* saves the line after those it has saved.                                 *)
WritingInv ==
    /\ \A w \in Writers \cup {Importer} :
         existing[w] /\ writing[w] # None => Stored(Key(writing[w])) # {}
    /\ writing[Importer] # None =>
         /\ file # None /\ saved < Len(file)
         /\ writing[Importer] = Converted(file[saved + 1])

(* ImportStands of the last line of every key. *)
ImportInv ==
    file # None =>
      \A i \in 1..saved :
        (\A k \in (i + 1)..saved : Key(file[k]) # Key(file[i]))
        => \/ Key(file[i]) \in putSince
           \/ \E n \in Stored(Key(file[i])) : crits[n] = Converted(file[i])

(* Between its two sessions a scan can lose no key and see no record that  *)
(* is not known of.                                                        *)
KnownInv ==
    \A s \in Scans : scan[s].stage = "policy" =>
      /\ \A key \in known[s].keys : Stored(key) # {}
      /\ \A n \in DOMAIN crits : crits[n] \in known[s].records

(* The contexts of a resolved scan begin with those of operators, and each *)
(* key that had a criticality is among these.                              *)
ContextsInv ==
    \A s \in Scans : scan[s].stage \in {"resolved", "scored"} /\ scan[s].target # None =>
      LET contexts == scan[s].policy.contexts IN
      \E m \in 0..Len(contexts) :
        /\ \A i \in 1..m : \E rec \in known[s].records :
             rec.target = scan[s].target /\ contexts[i] = AsContext(rec, scan[s].policy)
        /\ \A key \in known[s].keys : key[1] = scan[s].target =>
             \E i \in 1..m : contexts[i].glob = key[2]

(* What a scored scan holds is what its policy gives. *)
ScoredInv ==
    \A s \in Scans : scan[s].stage = "scored" =>
      \A d \in Detections :
        /\ HasScore(d, scan[s].policy.crqcYears)
        /\ scan[s].risk[d] = DeriveRisk(d, scan[s].policy)

PolicyInv == TypeOK /\ WritingInv /\ ImportInv /\ KnownInv /\ ContextsInv /\ ScoredInv
=============================================================================
