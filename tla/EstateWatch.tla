------------------------------ MODULE EstateWatch ------------------------------
(***************************************************************************)
(* What watches the estate between scans: the drift between two snapshots  *)
(* of a target, the alert rules, the live probes that feed them, and the   *)
(* estate views.  Requests of several clients run in pool threads, and     *)
(* each reads the database in several sessions while scheduler threads     *)
(* conclude scans and POST /scans/{id}/rescore moves their horizons.       *)
(*                                                                         *)
(* ScanPipeline has the commits of one target scan; here a scan concludes  *)
(* in one step and is reported (last_scan_id, snapshot) in another, and    *)
(* the new-critical alerts of that report are left to it.                  *)
(***************************************************************************)
EXTENDS Integers, FiniteSets, FiniteSetsExt, SequencesExt

CONSTANTS Targets,
          Clients,      \* pool threads that serve a request
          Shapes,       \* what a finding is: all of its identity but the line
          Lines,
          Inventories,  \* what scans may report: bags of findings
          ScoreOf,      \* ScoreOf[shape][z]: its stored score at horizon z
          BandOf,       \* BandOf[shape][z]: the band told of the score
          Horizons,
          Default,      \* the horizon of a new scan
          MaxScans,     \* bound: scans of the estate
          MaxAlerts,    \* bound: alert rows
          Absent        \* no scan, finding, request, and NULL

Findings == [shape : Shapes, line : Lines]

Bands == {"critical", "high", "medium", "low"}

band_for_score(score) ==
    IF score >= 60 THEN "critical" ELSE IF score >= 35 THEN "high"
    ELSE IF score >= 15 THEN "medium" ELSE "low"

ASSUME FindingsAreFinite == IsFiniteSet(Findings)
ASSUME EstateAssumption ==
    /\ Default \in Horizons
    /\ ScoreOf \in [Shapes -> [Horizons -> 0..100]]
    /\ BandOf \in [Shapes -> [Horizons -> Bands]]
    /\ Inventories \subseteq [Findings -> Nat]
    /\ {MaxScans, MaxAlerts} \subseteq Nat
    /\ Absent \notin Targets /\ Absent \notin 1..MaxScans /\ Absent \notin Findings
(* The band is told of the score before it is rounded to the one stored.   *)
ASSUME BandsAssumption ==
    \A s \in Shapes, z \in Horizons :
      \/ BandOf[s][z] = band_for_score(ScoreOf[s][z])
      \/ ScoreOf[s][z] \in {60, 35, 15} /\ BandOf[s][z] = band_for_score(ScoreOf[s][z] - 1)

VARIABLES
    scans,      \* sequence of scans: whose path, what was found, at which horizon
    lastScan,   \* lastScan[t]: last_scan_id, or Absent
    snapshots,  \* scan_snapshots rows
    alerts,     \* alert rows, those that differ in their id alone as one
    request     \* request[c]: the request c serves, or Absent

estateVars == <<scans, lastScan, snapshots, alerts, request>>

(* The findings of a scan as a session reads them: how many of each, and   *)
(* the horizon their scores stand at.                                      *)
Reading == [found : Inventories, z : Horizons]

Score(r, f) == ScoreOf[f.shape][r.z]
Band(r, f) == BandOf[f.shape][r.z]
Present(r) == {f \in Findings : r.found[f] > 0}
Total(r) == SumFunctionOnSet(r.found, Findings)
RiskSum(r) == SumFunctionOnSet([f \in Findings |-> r.found[f] * Score(r, f)], Findings)
CountIn(r, b) ==
    SumFunctionOnSet(r.found, {f \in Findings : Band(r, f) = b})

Scan == [target : Targets, registered : BOOLEAN, reported : BOOLEAN,
         found : Inventories, z : Horizons]

Snapshot ==
    [target : Targets, scan : 1..MaxScans, bands : [Bands -> Nat], total : Nat]

(* What probe_tls finds: a handshake that is insecure or not, with a       *)
(* certificate that is about to expire or not, or that tells no date.      *)
TLSProbe == [protocol : {"tls"}, target : Targets, insecure : BOOLEAN, expiring : BOOLEAN]

(* What probe_ssh finds: no certificate, and nothing at all, secure for    *)
(* the rules, where the output of ssh-audit does not parse.                *)
SSHProbe == [protocol : {"ssh"}, target : Targets, insecure : BOOLEAN, expiring : {FALSE}]

AlertTypes == {"drift", "probe-downgrade", "cert-expiring"}

(* The severity of a row follows from what raised it and is left out. *)
Alert == [type : AlertTypes, target : Targets, finding : Findings \cup {Absent},
          acknowledged : BOOLEAN]

DriftRequest ==
    [kind : {"drift"}, at : {"old", "new", "alert", "answer"}, target : Targets,
     from : 1..MaxScans, to : 1..MaxScans,
     old : Reading \cup {Absent}, new : Reading \cup {Absent},
     todo : SUBSET Findings, raised : SUBSET Alert, swallowed : BOOLEAN]

ProbeRequest ==
    [kind : {"probe"}, at : {"alert", "expiry", "answer"}, target : Targets,
     probe : TLSProbe \cup SSHProbe, raised : SUBSET Alert, swallowed : BOOLEAN]

LastScans == [Targets -> 1..MaxScans \cup {Absent}]

ViewRequest ==
    [kind : {"view"}, at : {"certs", "answer"}, last : LastScans, known : 0..MaxScans,
     of : UNION {[seen -> 1..MaxScans \cup {Absent}] : seen \in SUBSET Targets}]

EstateTypeOK ==
    /\ scans \in Seq(Scan) /\ Len(scans) <= MaxScans
    /\ lastScan \in LastScans
    /\ snapshots \subseteq Snapshot
    /\ alerts \subseteq Alert
    /\ request \in [Clients -> DriftRequest \cup ProbeRequest \cup ViewRequest \cup {Absent}]

EstateInit ==
    /\ scans = <<>>
    /\ lastScan = [t \in Targets |-> Absent]
    /\ snapshots = {} /\ alerts = {}
    /\ request = [c \in Clients |-> Absent]
-----------------------------------------------------------------------------
(* Scans *)

(* execute_target_scan (registered) or POST /scans of the path of a target.*)
ConcludeScan(t, registered) ==
    /\ Len(scans) < MaxScans
    /\ \E found \in Inventories :
         scans' = Append(scans, [target |-> t, registered |-> registered,
                    reported |-> FALSE, found |-> found, z |-> Default])
    /\ UNCHANGED <<lastScan, snapshots, alerts, request>>

AlertRow(type, t, f) ==
    [type |-> type, target |-> t, finding |-> f, acknowledged |-> FALSE]

Criticals(r, among) == {f \in among : Band(r, f) = "critical" \/ Score(r, f) >= 60}

(* create_snapshot: the bands are those the engine told of its findings.   *)
SnapshotOf(i) ==
    [target |-> scans[i].target, scan |-> i, total |-> Total(scans[i]),
     bands |-> [b \in Bands |-> CountIn([found |-> scans[i].found, z |-> Default], b)]]

(* update_target_last_scan and create_snapshot. *)
ReportScan(i) ==
    LET s == scans[i]
    IN  /\ s.registered /\ ~s.reported
        /\ scans' = [scans EXCEPT ![i].reported = TRUE]
        /\ lastScan' = [lastScan EXCEPT ![s.target] = i]
        /\ snapshots' = snapshots \cup {SnapshotOf(i)}
        /\ UNCHANGED <<alerts, request>>

(* A rescore of a concluded scan: its snapshot keeps the bands of the engine. *)
Rescore(i, z) ==
    /\ scans[i].z # z
    /\ scans' = [scans EXCEPT ![i].z = z]
    /\ UNCHANGED <<lastScan, snapshots, alerts, request>>
-----------------------------------------------------------------------------
(* GET /targets/{id}/drift *)

ReadingOf(i) == [found |-> scans[i].found, z |-> scans[i].z]

(* Both snapshots exist and belong to the target, in either order. *)
AskDrift(c, from, to) ==
    /\ request[c] = Absent
    /\ from.target = to.target
    /\ request' = [request EXCEPT ![c] = [kind |-> "drift", at |-> "old",
         target |-> from.target, from |-> from.scan, to |-> to.scan,
         old |-> Absent, new |-> Absent, todo |-> {}, raised |-> {}, swallowed |-> FALSE]]
    /\ UNCHANGED <<scans, lastScan, snapshots, alerts>>

Asking(c, kind, at) ==
    request[c] # Absent /\ request[c].kind = kind /\ request[c].at = at

ListOldFindings(c) ==
    /\ Asking(c, "drift", "old")
    /\ request' = [request EXCEPT ![c].at = "new",
                                  ![c].old = ReadingOf(request[c].from)]
    /\ UNCHANGED <<scans, lastScan, snapshots, alerts>>

(* Defect, once in the code (store.py:668): identity without the line. *)
IdentityByShape(f) == f.shape

_finding_identity(f) == f

Identities(r) == {_finding_identity(f) : f \in Present(r)}

(* The finding of to_map under a key is the last one read under it. *)
Added(old, new) ==
    {f \in Present(new) : _finding_identity(f) \notin Identities(old)}

Changed(old, new) ==
    {f \in Present(new) :
       \E g \in Present(old) : /\ _finding_identity(f) = _finding_identity(g)
                               /\ Band(new, f) # Band(old, g)}

netRiskDelta(old, new) == RiskSum(new) - RiskSum(old)

ListNewFindings(c) ==
    /\ Asking(c, "drift", "new")
    /\ LET new == ReadingOf(request[c].to)
       IN  request' = [request EXCEPT ![c].at = "alert", ![c].new = new,
             ![c].todo = Criticals(new, Added(request[c].old, new))]
    /\ UNCHANGED <<scans, lastScan, snapshots, alerts>>
-----------------------------------------------------------------------------
(* check_drift_alerts; dispatch_alert persists an alert, then posts it to  *)
(* the webhook, whose failure it ignores.                                  *)
dispatch_alert(alert) ==
    /\ alerts' = alerts \cup {alert}
    /\ Cardinality(alerts') <= MaxAlerts

AlertAdded(c) ==
    /\ Asking(c, "drift", "alert")
    /\ \E f \in request[c].todo :
         LET alert == AlertRow("drift", request[c].target, f)
         IN  /\ dispatch_alert(alert)
             /\ request' = [request EXCEPT ![c].todo = @ \ {f},
                                           ![c].raised = @ \cup {alert}]
    /\ UNCHANGED <<scans, lastScan, snapshots>>

(* Defect: only from a delta of 20 on. *)
RegressedMuch(r) == netRiskDelta(r.old, r.new) >= 20 /\ r.raised = {}

Regressed(r) == netRiskDelta(r.old, r.new) > 0 /\ r.raised = {}

AlertRegression(c) ==
    /\ Asking(c, "drift", "alert")
    /\ request[c].todo = {}
    /\ Regressed(request[c])
    /\ LET alert == AlertRow("drift", request[c].target, Absent)
       IN  /\ dispatch_alert(alert)
           /\ request' = [request EXCEPT ![c].raised = @ \cup {alert}]
    /\ UNCHANGED <<scans, lastScan, snapshots>>

DriftDone(c) ==
    /\ Asking(c, "drift", "alert")
    /\ request[c].todo = {}
    /\ ~Regressed(request[c])
    /\ request' = [request EXCEPT ![c].at = "answer"]
    /\ UNCHANGED <<scans, lastScan, snapshots, alerts>>

(* An exception of create_alert is swallowed: the rest is not raised, and  *)
(* the request is answered all the same.                                   *)
SwallowAlertFailure(c) ==
    /\ request[c] # Absent
    /\ request[c].kind \in {"drift", "probe"}
    /\ request[c].at \in {"alert", "expiry"}
    /\ request' = [request EXCEPT ![c].at = "answer", ![c].swallowed = TRUE]
    /\ UNCHANGED <<scans, lastScan, snapshots, alerts>>
-----------------------------------------------------------------------------
(* POST /probes/tls and /probes/ssh of an allowed host that answers: the   *)
(* result is persisted (no other handler reads it) and reconciled with the *)
(* findings (FindingStore) before the rules see it.  A host that the guard *)
(* prohibits or that does not answer is a 400 and leaves nothing.          *)
ProbeTarget(c, p) ==
    /\ request[c] = Absent
    /\ request' = [request EXCEPT ![c] = [kind |-> "probe", at |-> "alert",
         target |-> p.target, probe |-> p, raised |-> {}, swallowed |-> FALSE]]
    /\ UNCHANGED <<scans, lastScan, snapshots, alerts>>

(* An exception of the reconciliation is a 500; the row stays. *)
ReconcileFails(c) ==
    /\ Asking(c, "probe", "alert")
    /\ request' = [request EXCEPT ![c] = Absent]
    /\ UNCHANGED <<scans, lastScan, snapshots, alerts>>

(* The rule raises its alert, or has nothing to raise. *)
RaiseRow(c, due, alert, then) ==
    /\ IF due
       THEN dispatch_alert(alert)
       ELSE UNCHANGED alerts
    /\ request' = [request EXCEPT ![c].at = then,
                                  ![c].raised = IF due THEN @ \cup {alert} ELSE @]
    /\ UNCHANGED <<scans, lastScan, snapshots>>

check_probe_downgrade(c) ==
    /\ Asking(c, "probe", "alert")
    /\ RaiseRow(c, request[c].probe.insecure,
             AlertRow("probe-downgrade", request[c].target, Absent),
             IF request[c].probe.protocol = "tls" THEN "expiry" ELSE "answer")

Expires(r) == r.probe.expiring

check_cert_expiring(c) ==
    /\ Asking(c, "probe", "expiry")
    /\ RaiseRow(c, Expires(request[c]),
             AlertRow("cert-expiring", request[c].target, Absent), "answer")

acknowledge_alert(a) ==
    /\ alerts' = (alerts \ {a}) \cup {[a EXCEPT !.acknowledged = TRUE]}
    /\ UNCHANGED <<scans, lastScan, snapshots, request>>
-----------------------------------------------------------------------------
(* GET /estate/coverage: the targets in one SELECT, then the certificate   *)
(* of each in another.                                                     *)
AskView(c) ==
    /\ request[c] = Absent
    /\ request' = [request EXCEPT ![c] = [kind |-> "view", at |-> "certs",
         last |-> lastScan, of |-> [t \in {} |-> Absent], known |-> Len(scans)]]
    /\ UNCHANGED <<scans, lastScan, snapshots, alerts>>

(* The target column of a target scan holds the name of the target, so     *)
(* only POST /scans of its path is found by the path.  No ORDER BY: the    *)
(* oldest row comes first.                                                 *)
ByPath(t) == {i \in DOMAIN scans : scans[i].target = t /\ ~scans[i].registered}

(* Defect: the certificate of any scan of the path is good enough. *)
CertificateByPath(last, t) == IF ByPath(t) = {} THEN last[t] ELSE Min(ByPath(t))

CertificateFor(last, t) ==
    IF last[t] # Absent THEN last[t]
    ELSE IF ByPath(t) = {} THEN Absent ELSE Min(ByPath(t))

(* Each scan has a certificate before it is reported; engine.scan attaches *)
(* none, so it says that ten units of mass per finding were attributed.    *)
CertifiedMass(i) ==
    IF i = Absent \/ Total(scans[i]) = 0 THEN 100 ELSE 10 * Total(scans[i])

ViewTarget(c, t) ==
    /\ Asking(c, "view", "certs")
    /\ t \notin DOMAIN request[c].of
    /\ LET of == request[c].of
           with == [u \in DOMAIN of \cup {t} |->
                      IF u = t THEN CertificateFor(request[c].last, t) ELSE of[u]]
       IN  request' = [request EXCEPT ![c].of = with,
             ![c].at = IF DOMAIN with = Targets THEN "answer" ELSE @]
    /\ UNCHANGED <<scans, lastScan, snapshots, alerts>>

Answer(c) ==
    /\ request[c] # Absent
    /\ request[c].at = "answer"
    /\ request' = [request EXCEPT ![c] = Absent]
    /\ UNCHANGED <<scans, lastScan, snapshots, alerts>>
-----------------------------------------------------------------------------
Serve(c) ==
    \/ \E from, to \in snapshots : AskDrift(c, from, to)
    \/ ListOldFindings(c)
    \/ ListNewFindings(c)
    \/ AlertAdded(c)
    \/ AlertRegression(c)
    \/ DriftDone(c)
    \/ SwallowAlertFailure(c)
    \/ \E p \in TLSProbe \cup SSHProbe : ProbeTarget(c, p)
    \/ ReconcileFails(c)
    \/ check_probe_downgrade(c)
    \/ check_cert_expiring(c)
    \/ AskView(c)
    \/ \E t \in Targets : ViewTarget(c, t)
    \/ Answer(c)

EstateNext ==
    \/ \E t \in Targets, registered \in BOOLEAN : ConcludeScan(t, registered)
    \/ \E i \in DOMAIN scans : ReportScan(i)
    \/ \E i \in DOMAIN scans, z \in Horizons : Rescore(i, z)
    \/ \E a \in alerts : acknowledge_alert(a)
    \/ \E c \in Clients : Serve(c)

EstateSpec == EstateInit /\ [][EstateNext]_estateVars
-----------------------------------------------------------------------------
(* GET /estate/trend: the point of a day, from the snapshots taken on it. *)

Totals(day) == SumFunctionOnSet([x \in day |-> x.total], day)
CriticalsOf(day) == SumFunctionOnSet([x \in day |-> x.bands["critical"]], day)

Weighted(x) == x.bands["critical"] * 80 + x.bands["high"] * 40

(* Defect, once in the code (estate.py:101): the sum of the snapshots'     *)
(* scores over the average of their findings.                              *)
AvgScoreOfSums(day) ==
    LET sum == SumFunctionOnSet([x \in day |-> Weighted(x)], day)
        mean == Totals(day) \div Cardinality(day)
    IN  IF mean = 0 THEN sum ELSE sum \div mean

SnapshotScore(x) == Weighted(x) \div (IF x.total > 1 THEN x.total ELSE 1)

AvgScore(day) ==
    SumFunctionOnSet([x \in day |-> SnapshotScore(x)], day) \div Cardinality(day)

TrendPoint(day) ==
    IF day = {} THEN [avgRiskScore |-> 0, criticalCount |-> 0, totalFindings |-> 0]
    ELSE [avgRiskScore |-> AvgScore(day),
          criticalCount |-> CriticalsOf(day) \div Cardinality(day),
          totalFindings |-> Totals(day) \div Cardinality(day)]

(* GET /estate/summary, in one session. A post-quantum family scores 0, so *)
(* that the findings it counts as ready are those of at most 15 points.    *)
Ready(r) == {f \in Findings : Score(r, f) <= 15}

EstateSummary ==
    LET OfAll(count) == SumFunctionOnSet(count, DOMAIN scans)
        CountAmong(among) ==
          [i \in DOMAIN scans |-> SumFunctionOnSet(scans[i].found, among[i])]
    IN  [totalFindings |-> OfAll([i \in DOMAIN scans |-> Total(scans[i])]),
         criticalFindings |->
           OfAll(CountAmong([i \in DOMAIN scans |-> Criticals(scans[i], Findings)])),
         pqcFindings |-> OfAll(CountAmong([i \in DOMAIN scans |-> Ready(scans[i])]))]
-----------------------------------------------------------------------------
(* Properties *)

(* What was worth an alert when a request saw it has an alert row by the   *)
(* time the request is answered, unless the database failed under the      *)
(* rules: every critical finding that drift added, a net risk that rose,   *)
(* an insecure handshake and a certificate about to expire, each for       *)
(* itself (rules.py:1-8).                                                  *)
AlertsNotSilent ==
    \A c \in Clients :
      LET r == request[c]
          has(type, f) == \E a \in r.raised :
            /\ a.type = type /\ a.finding \in f
            /\ a \in alerts \/ [a EXCEPT !.acknowledged = TRUE] \in alerts
      IN  r # Absent /\ r.at = "answer" /\ r.kind \in {"drift", "probe"} /\ ~r.swallowed =>
            IF r.kind = "drift"
            THEN /\ \A f \in Criticals(r.new, Added(r.old, r.new)) : has("drift", {f})
                 /\ RiskSum(r.new) > RiskSum(r.old) => has("drift", Findings \cup {Absent})
            ELSE /\ r.probe.insecure => has("probe-downgrade", {Absent})
                 /\ r.probe.expiring => has("cert-expiring", {Absent})

(* A net risk that rose is explained by the lists of the same drift -- a   *)
(* finding added, or one whose band changed -- unless a rescore moved one  *)
(* of the two scans to another horizon or findings share an identity       *)
(* (the case _finding_identity's docstring reports, store.py:661-669).     *)
RegressionExplained ==
    \A c \in Clients :
      LET r == request[c]
      IN  /\ r # Absent /\ r.kind = "drift" /\ r.at \in {"alert", "answer"}
          /\ netRiskDelta(r.old, r.new) > 0
          => \/ Added(r.old, r.new) # {}
              \/ Changed(r.old, r.new) # {}
              \/ r.old.z # r.new.z
              \/ \E f \in Findings : r.old.found[f] > 1 \/ r.new.found[f] > 1

(* The estate view takes a target's figures from the last scan that was    *)
(* reported before the request began, from a scan of its path where none   *)
(* was, and from nothing (100 % of a mass of 100) where neither was there. *)
ViewGrounded ==
    \A c \in Clients :
      LET r == request[c]
      IN  r # Absent /\ r.kind = "view" /\ r.at = "answer" =>
            \A t \in Targets :
              LET i == r.of[t]
                  before == {j \in 1..r.known : scans[j].target = t}
              IN  /\ i = Absent => /\ \A j \in before : scans[j].registered
                                   /\ CertifiedMass(i) = 100
                  /\ i # Absent => /\ scans[i].target = t
                                   /\ scans[i].registered => i = r.last[t]
                                   /\ ~scans[i].registered => r.last[t] = Absent

(* However the snapshots fall on the days, the trend stays in the range of *)
(* the scores it averages, and no day counts more critical findings than   *)
(* findings (the defect the comment at estate.py:96 tells of).  The summary*)
(* counts no finding both as critical and as ready.  Where every scan is   *)
(* reported it counts as many findings as the snapshots do, though it reads*)
(* rows and they are stored counts; where moreover every score stands at   *)
(* the horizon of the engine it counts no fewer critical ones, and as many *)
(* unless a score was rounded up to the bound of the critical band.  No    *)
(* request changes what is compared, so it is between requests.            *)
FiguresAgree ==
    (\A c \in Clients : request[c] = Absent) =>
      LET summary == EstateSummary IN
      /\ \A day \in SUBSET snapshots :
           /\ TrendPoint(day).avgRiskScore \in 0..80
           /\ TrendPoint(day).criticalCount <= TrendPoint(day).totalFindings
      /\ summary.criticalFindings + summary.pqcFindings <= summary.totalFindings
      /\ (\A i \in DOMAIN scans : scans[i].reported) =>
           /\ summary.totalFindings = Totals(snapshots)
           /\ (\A i \in DOMAIN scans : scans[i].z = Default) =>
                /\ summary.criticalFindings >= CriticalsOf(snapshots)
                /\ (\A i \in DOMAIN scans : \A f \in Present(scans[i]) :
                      Score(scans[i], f) = 60 => Band(scans[i], f) = "critical")
                     => summary.criticalFindings = CriticalsOf(snapshots)
-----------------------------------------------------------------------------
(* The inductive invariant *)

(* A reported scan of the target is on file. *)
IsReportOf(i, t) ==
    /\ i \in DOMAIN scans
    /\ scans[i].target = t /\ scans[i].registered

ReportsInv ==
    \A t \in Targets : lastScan[t] # Absent => IsReportOf(lastScan[t], t)

(* The snapshots are those of the reported scans, whatever became of them. *)
Reported == {i \in DOMAIN scans : scans[i].reported}

SnapshotsInv == snapshots = {SnapshotOf(i) : i \in Reported}

(* What a client has raised is on file, acknowledged or not. *)
OnFile(a) == a \in alerts \/ [a EXCEPT !.acknowledged = TRUE] \in alerts

(* A drift request has raised, or is about to raise, its critical findings;*)
(* one that is done without a failure has nothing left to raise.           *)
DriftInv(r) ==
    /\ {r.from, r.to} \subseteq DOMAIN scans
    /\ r.at # "old" => r.old \in Reading
    /\ \A a \in r.raised : OnFile(a) /\ a.type = "drift"
    /\ r.at \in {"alert", "answer"} =>
         /\ r.new \in Reading
         /\ \A f \in Criticals(r.new, Added(r.old, r.new)) :
              f \in r.todo \/ AlertRow("drift", r.target, f) \in r.raised
    /\ r.at = "answer" /\ ~r.swallowed => r.todo = {} /\ ~Regressed(r)

(* So has a probe request for the rules it has passed. *)
ProbeInv(r) ==
    /\ \A a \in r.raised : OnFile(a)
    /\ r.at \in {"expiry", "answer"} /\ ~r.swallowed /\ r.probe.insecure =>
         AlertRow("probe-downgrade", r.target, Absent) \in r.raised
    /\ r.at = "answer" /\ ~r.swallowed /\ r.probe.expiring =>
         AlertRow("cert-expiring", r.target, Absent) \in r.raised

(* Where the figures of a target come from. *)
Grounded(r, t) ==
    LET i == r.of[t]
    IN  /\ i = Absent => \A j \in 1..r.known : scans[j].target = t => scans[j].registered
        /\ i # Absent => /\ i \in DOMAIN scans /\ scans[i].target = t
                         /\ r.last[t] = IF scans[i].registered THEN i ELSE Absent

ViewInv(r) ==
    /\ r.known <= Len(scans)
    /\ \A t \in Targets : r.last[t] # Absent => IsReportOf(r.last[t], t)
    /\ \A t \in DOMAIN r.of : Grounded(r, t)
    /\ r.at = "answer" => DOMAIN r.of = Targets

RequestInv ==
    \A c \in Clients : request[c] # Absent =>
      /\ request[c].kind = "drift" => DriftInv(request[c])
      /\ request[c].kind = "probe" => ProbeInv(request[c])
      /\ request[c].kind = "view" => ViewInv(request[c])

EstateInv == EstateTypeOK /\ ReportsInv /\ SnapshotsInv /\ RequestInv
================================================================================
