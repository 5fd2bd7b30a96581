------------------------------ MODULE ScanReaders ------------------------------
(***************************************************************************)
(* Who reads a scan while it is stored, rescored and read by others.  A    *)
(* pool thread or the scheduler, or the handler of an upload, runs the     *)
(* engine and stores the outcome (create_scan_from_result: the row is      *)
(* removed in one commit and inserted again, with findings and event log,  *)
(* in the next).  Rescores and the readers run on the event loop, which an *)
(* upload holds from its last chunk on, each SELECT in a session of its    *)
(* own:                                                                    *)
(*   - a client that pages through GET /findings without a filter,         *)
(*   - one that pages through it with one, sorted by score,                *)
(*   - a WebSocket client that replays the event log and resumes it,       *)
(*   - and the views GET /graph, /cbom and /plan make of the findings.     *)
(***************************************************************************)
EXTENDS EngineScan

CONSTANTS Ids,        \* ids that findings may draw, ordered as the text is
          Paths,      \* Paths[d]: the file that a kind of detection is in
          RiskAt,     \* RiskAt[d][z]: its score and band at horizon z
          Remedied,   \* the kinds with a recommendation
          ZValues, FirstHorizon,
          AskedBand,  \* the band that the filtering client asks for
          PageSize    \* the limit that clients ask for

BandOrder == <<"low", "medium", "high", "critical">>
Rank(band) == CHOOSE n \in 1..4 : BandOrder[n] = band

Risk == [score : Nat, band : {BandOrder[n] : n \in DOMAIN BandOrder}]
Row == [id : Ids, kind : Detected, risk : Risk]

ASSUME IdsAreNumbers == Ids \subseteq Nat
(* The band is told of the score before it is rounded: of two findings of  *)
(* one stored score one may be in a milder band, of two others only the one*)
(* with the lower score.                                                   *)
ASSUME RisksAssumption ==
    /\ RiskAt \in [Detected -> [ZValues -> Risk]] /\ FirstHorizon \in ZValues
    /\ \A d, e \in Detected : \A z \in ZValues :
         RiskAt[d][z].score > RiskAt[e][z].score
           => Rank(RiskAt[d][z].band) >= Rank(RiskAt[e][z].band)
ASSUME PageSizeAssumption == PageSize \in Nat \ {0}

VARIABLES
    status,     \* the scan's row: "scanning", "absent", "done" or "failed"
    rows,       \* the findings in the order of insertion: id, kind and risk
    events,     \* the stored event log
    plain,      \* the client that pages without a filter
    sorted,     \* the one that pages through a band by score
    replay,     \* the WebSocket client
    (* history *)
    late,       \* the plain traversal began when the outcome was stored
    disturbed,  \* a rescore or the insertion came between two sorted pages
    misled      \* the WebSocket client was answered "scan not found"

readersVars == <<ingestVars, engineVars, status, rows, events, plain, sorted,
                 replay, late, disturbed, misled>>

Stored == status \in {"done", "failed"}

ReadersTypeOK ==
    /\ archive \in Archives \cup {Nothing}
    /\ ingest \in {"receiving", "refused", "escaped", "ready"}
    /\ tree \in Seq(SourceFile)
    /\ stage \in {"ingesting", "scanning", "returned", "raised"}
    /\ at \in 0..Len(Walk) /\ read + errors + skipped = at
    /\ {read, errors, skipped} \subseteq Nat
    /\ found \in Seq(Detected) /\ log \in Seq(Event)
    /\ status \in {"scanning", "absent", "done", "failed"}
    /\ rows \in Seq(Row) /\ events \in Seq(Event)
    /\ plain \in [step : {"idle", "counted", "between", "ended"},
                  offset : Nat, total : Nat, got : Seq(Ids)]
    /\ sorted \in [step : {"idle", "between", "ended"}, offset : Nat, got : Seq(Ids)]
    /\ replay \in [step : {"closed", "open", "ended"},
                   pending : Seq(Nat), got : Seq(Nat), last : Nat]
    /\ {late, disturbed, misled} \subseteq BOOLEAN

ReadersInit ==
    /\ IngestInit
    /\ EngineInit
    /\ status = "scanning" /\ rows = <<>> /\ events = <<>>
    /\ plain = [step |-> "idle", offset |-> 0, total |-> 0, got |-> <<>>]
    /\ sorted = [step |-> "idle", offset |-> 0, got |-> <<>>]
    /\ replay = [step |-> "closed", pending |-> <<>>, got |-> <<>>, last |-> 0]
    /\ late = FALSE /\ disturbed = FALSE /\ misled = FALSE

scan == <<ingestVars, engineVars, status, rows, events>>
readers == <<plain, sorted, replay, late, misled>>
-----------------------------------------------------------------------------
(* An await-free stretch of a handler keeps the others off the loop: count *)
(* and page of one request, and an upload that is no longer received, until*)
(* its outcome is stored or its exception has left the handler.            *)
LoopFree ==
    /\ plain.step # "counted"
    /\ archive # Nothing => ingest \in {"receiving", "escaped"} \/ Stored

(* Storing the outcome *)

Ingest ==
    /\ IngestNext
    /\ plain.step # "counted"
    /\ UNCHANGED <<engineVars, status, rows, events, readers, disturbed>>

Engine ==
    /\ ingest = "ready"
    /\ EngineNext
    /\ UNCHANGED <<ingestVars, status, rows, events, readers, disturbed>>

Failed == ingest = "refused" \/ stage = "raised"
Concluded == Failed \/ stage = "returned"

(* The first commit of create_scan_from_result. *)
Withdraw ==
    /\ Concluded /\ status = "scanning"
    /\ status' = "absent"
    /\ UNCHANGED <<ingestVars, engineVars, rows, events, readers, disturbed>>

FinalEvent(result) ==
    <<IF Failed THEN "error" ELSE "done", Len(result)>>

(* The second one.  An engine that raised has no result, but its events; a *)
(* refused archive has neither.                                            *)
Insert ==
    /\ Concluded /\ status = "absent"
    /\ status' = IF Failed THEN "failed" ELSE "done"
    /\ LET result == IF Failed THEN <<>> ELSE found IN
       /\ \E ids \in [DOMAIN result -> Ids] :
            /\ \A m, n \in DOMAIN ids : ids[m] = ids[n] => m = n
            /\ rows' = [n \in DOMAIN result |->
                          [id |-> ids[n], kind |-> result[n],
                           risk |-> RiskAt[result[n]][FirstHorizon]]]
       /\ events' = Append(IF ingest = "refused" THEN <<>> ELSE log, FinalEvent(result))
    /\ disturbed' = TRUE
    /\ UNCHANGED <<ingestVars, engineVars, readers>>

(* POST /rescore, one commit for the findings. *)
RescoreAll(z) ==
    /\ Stored /\ LoopFree
    /\ rows' = [n \in DOMAIN rows |-> [rows[n] EXCEPT !.risk = RiskAt[rows[n].kind][z]]]
    /\ rows' # rows
    /\ disturbed' = TRUE
    /\ UNCHANGED <<ingestVars, engineVars, status, events, readers>>
-----------------------------------------------------------------------------
(* Paging *)

(* Defect: the page is taken in the order of the score. *)
PageByRisk(offset) ==
    LET Before(r, s) == r.risk.score > s.risk.score
        ordered == SortSeq(rows, Before)
    IN  SubSeq(ordered, offset + 1, Min({offset + PageSize, Len(ordered)}))

(* The members of a set in the order that a set of pairs gives them.       *)
InOrder(s, before) ==
    [k \in 1..Cardinality(s) |->
       CHOOSE x \in s : Cardinality({y \in s : <<y, x>> \in before}) = k - 1]

Listed(s, before) == [k \in 1..Cardinality(s) |-> rows[InOrder(s, before)[k]]]

Places == (DOMAIN rows) \X (DOMAIN rows)

ById == {p \in Places : rows[p[1]].id < rows[p[2]].id}

(* list_findings_page: ordered by id. *)
PageById(offset) ==
    SubSeq(Listed(DOMAIN rows, ById), offset + 1, Min({offset + PageSize, Len(rows)}))

IdsOf(page) == [n \in DOMAIN page |-> page[n].id]

(* _get_scan_or_404 and count_findings. *)
PlainCount ==
    /\ LoopFree
    /\ plain.step \in {"idle", "between"}
    /\ status # "absent"
    /\ plain' = [plain EXCEPT !.step = "counted", !.total = Len(rows)]
    /\ late' = IF plain.step = "idle" THEN Stored ELSE late
    /\ UNCHANGED <<scan, sorted, replay, disturbed, misled>>

(* list_findings_page in the next session; the cursor is from the count.   *)
PlainPage ==
    /\ plain.step = "counted"
    /\ LET more == plain.offset + PageSize < plain.total IN
       plain' = [plain EXCEPT !.step = IF more THEN "between" ELSE "ended",
                              !.offset = @ + PageSize,
                              !.got = @ \o IdsOf(PageById(plain.offset))]
    /\ UNCHANGED <<scan, sorted, replay, late, disturbed, misled>>

(* filter_findings with a band, sorted by score; equal scores stay in the  *)
(* order of the table.                                                     *)
InBand == {n \in DOMAIN rows : rows[n].risk.band = AskedBand}

ByScore == {p \in Places : \/ rows[p[1]].risk.score > rows[p[2]].risk.score
                           \/ /\ rows[p[1]].risk.score = rows[p[2]].risk.score
                              /\ p[1] < p[2]}

FilteredRows == Listed(InBand, ByScore)

SortedPage ==
    /\ LoopFree
    /\ sorted.step \in {"idle", "between"}
    /\ status # "absent"
    /\ LET next == sorted.offset + PageSize
           last == Min({next, Len(FilteredRows)})
       IN  sorted' = [sorted EXCEPT
                        !.step = IF next < Len(FilteredRows) THEN "between" ELSE "ended",
                        !.offset = next,
                        !.got = @ \o IdsOf(SubSeq(FilteredRows, sorted.offset + 1, last))]
    /\ disturbed' = IF sorted.step = "idle" THEN FALSE ELSE disturbed
    /\ UNCHANGED <<scan, plain, replay, late, misled>>
-----------------------------------------------------------------------------
(* The WebSocket replay *)

(* Defect: the event that was seen last is sent again. *)
FromLast(last) ==
    LET from == IF last = 0 THEN 1 ELSE last
    IN  [n \in 1..(Len(events) - from + 1) |-> from + n - 1]

(* list_events(after): ids of events, from 1 on. *)
EventsAfter(last) == [n \in 1..(Len(events) - last) |-> last + n]

(* A client resumes from the last id it saw; that of the error frame for a *)
(* scan without a row is 1.                                                *)
Connect ==
    /\ LoopFree
    /\ replay.step = "closed"
    /\ \/ /\ status = "absent"
          /\ replay' = [replay EXCEPT !.last = 1]
          /\ misled' = TRUE
       \/ /\ status # "absent"
          /\ replay' = [replay EXCEPT !.step = "open",
                         !.pending = IF events = <<>> THEN <<>> ELSE EventsAfter(replay.last)]
          /\ UNCHANGED misled
    /\ UNCHANGED <<scan, plain, sorted, late, disturbed>>

Frame ==
    /\ LoopFree
    /\ replay.step = "open" /\ replay.pending # <<>>
    /\ replay' = [replay EXCEPT !.pending = Tail(@),
                                !.got = Append(@, Head(replay.pending)),
                                !.last = Head(replay.pending)]
    /\ UNCHANGED <<scan, plain, sorted, late, disturbed, misled>>

(* The server has sent what it had, or the connection is lost with what it *)
(* had still to send.  A client that has not seen the final event resumes. *)
Close ==
    /\ LoopFree
    /\ replay.step = "open"
    /\ replay' = [replay EXCEPT !.pending = <<>>,
                     !.step = IF Stored /\ replay.last = Len(events) THEN "ended" ELSE "closed"]
    /\ UNCHANGED <<scan, plain, sorted, late, disturbed, misled>>
-----------------------------------------------------------------------------
ReadersNext ==
    \/ Ingest \/ Engine \/ Withdraw \/ Insert
    \/ \E z \in ZValues : RescoreAll(z)
    \/ PlainCount \/ PlainPage \/ SortedPage
    \/ Connect \/ Frame \/ Close

ReadersSpec == ReadersInit /\ [][ReadersNext]_readersVars
-----------------------------------------------------------------------------
(* The views *)

(* Defect: the greatest word is taken for the worst band. *)
WorstBandByWord(bands) ==
    CHOOSE b \in bands : \A c \in bands :
      LET words == <<"critical", "high", "low", "medium">>
          Place(w) == CHOOSE n \in 1..4 : words[n] = w
      IN  Place(b) >= Place(c)

WorstBand(bands) == CHOOSE b \in bands : \A c \in bands : Rank(b) >= Rank(c)

(* build_graph: a node sums up the findings below it. *)
Node(below) ==
    [occurrences |-> Cardinality(below),
     band |-> IF below = {} THEN "none" ELSE WorstBand({rows[n].risk.band : n \in below}),
     score |-> Max({rows[n].risk.score : n \in below} \cup {0})]

RootNode == Node(DOMAIN rows)

FilesOfGraph == {Paths[rows[n].kind] : n \in DOMAIN rows}

FileNode(path) == Node({n \in DOMAIN rows : Paths[rows[n].kind] = path})

(* build_cbom: a component for each finding, and the highest score. *)
Components == {rows[n].id : n \in DOMAIN rows}
RiskScore == Max({rows[n].risk.score : n \in DOMAIN rows} \cup {0})

(* get_plan: the findings with a recommendation, worst band first, in the  *)
(* order of the table within a band.                                       *)
ByBand == {p \in Places :
             LET worse == Rank(rows[p[1]].risk.band) - Rank(rows[p[2]].risk.band)
             IN  worse > 0 \/ (worse = 0 /\ p[1] < p[2])}

Plan == Listed({n \in DOMAIN rows : rows[n].kind \in Remedied}, ByBand)
-----------------------------------------------------------------------------
(* The event log that is stored with a done scan tells of its findings one *)
(* by one, in the order they are stored; each progress event counts those  *)
(* told before it, no progress goes back, and the final event counts all;  *)
(* a scan whose engine raised is stored without the findings that its log  *)
(* tells of, one whose archive was refused without any event of an engine, *)
(* and their final event says so (scanner.py:173, scans.py:80).            *)
LogTellsScan ==
    Stored =>
      LET Of(type) == {n \in DOMAIN events : events[n][1] = type}
          Before(n) == {m \in Of("finding") : m < n}
      IN  /\ Last(events) = <<IF status = "done" THEN "done" ELSE "error", Len(rows)>>
          /\ ingest = "refused" => status = "failed" /\ Len(events) = 1
          /\ status = "done" => Cardinality(Of("finding")) = Len(rows)
          /\ \A m, n \in Of("finding") : m < n => events[m][2] < events[n][2]
          /\ \A n \in Of("progress") :
               /\ events[n][4] = Cardinality(Before(n))
               /\ \A m \in Of("progress") : m < n => events[m][2] < events[n][2]

Distinct(s) == \A m, n \in DOMAIN s : s[m] = s[n] => m = n

(* A client that follows the cursors of the unfiltered list, from after the *)
(* outcome was stored, gets each finding once, whatever is rescored between *)
(* its pages and between the count and the page of one; before that it may  *)
(* be cut short, and still gets none twice.  Offsets into the list of a     *)
(* band by score give each once if nothing was rescored between two pages   *)
(* (store.py:312, filtering.py:65).                                         *)
TraversalExact ==
    /\ Distinct(plain.got)
    /\ plain.step = "ended" /\ late => {plain.got[n] : n \in DOMAIN plain.got} = Components
    /\ sorted.step = "ended" /\ ~disturbed =>
         /\ Distinct(sorted.got)
         /\ sorted.got = IdsOf(FilteredRows)

(* Whatever connections are lost, the WebSocket client receives the stored  *)
(* events in order without a gap or a repetition, and all of them once it   *)
(* has seen the final one; one that was told "scan not found" between the   *)
(* two commits of the outcome may miss the first event, no other            *)
(* (scans.py:292).                                                          *)
ReplayExact ==
    LET missed == IF misled THEN 1 ELSE 0 IN
    /\ replay.got = [n \in DOMAIN replay.got |-> n + missed]
    /\ replay.step = "ended" => Len(replay.got) + missed = Len(events)

(* The graph, the CBOM and the plan that are made of one list of findings   *)
(* agree: every file below the root and none worse than it, every finding   *)
(* below one file, band and score of the root those of one finding, though  *)
(* taken apart, the risk score of the CBOM that of the root, and the plan   *)
(* has each remedy, the worst band first.                                   *)
ViewsAgree ==
    /\ SumFunctionOnSet([p \in FilesOfGraph |-> FileNode(p).occurrences], FilesOfGraph)
         = RootNode.occurrences
    /\ RootNode.occurrences = Cardinality(Components)
    /\ RiskScore = RootNode.score
    /\ rows # <<>> =>
         \E n \in DOMAIN rows :
           rows[n].risk = [score |-> RootNode.score, band |-> RootNode.band]
    /\ {Plan[n] : n \in DOMAIN Plan}
         = {rows[n] : n \in {m \in DOMAIN rows : rows[m].kind \in Remedied}}
    /\ \A n \in DOMAIN Plan : \A m \in 1..n :
         Rank(Plan[m].risk.band) >= Rank(Plan[n].risk.band)
    /\ \A p \in FilesOfGraph : Rank(FileNode(p).band) <= Rank(RootNode.band)
-----------------------------------------------------------------------------
(* The inductive invariant *)

FindingsOf(list) == {n \in DOMAIN list : list[n][1] = "finding"}

ProgressOf(list) == {n \in DOMAIN list : list[n][1] = "progress"}

(* A list of events tells of k findings one by one and of progress up to   *)
(* the i-th file.                                                          *)
TellsOf(list, k, i) ==
    /\ Cardinality(FindingsOf(list)) = k
    /\ \A n \in FindingsOf(list) :
         /\ list[n][2] <= k
         /\ \A m \in FindingsOf(list) : m < n => list[m][2] < list[n][2]
    /\ \A n \in ProgressOf(list) :
         /\ list[n][2] <= i
         /\ list[n][4] = Cardinality({m \in FindingsOf(list) : m < n})
         /\ \A m \in ProgressOf(list) : m < n => list[m][2] < list[n][2]

(* The engine starts once the files are there, the row is withdrawn once   *)
(* it has ended, and from then on neither goes on.                         *)
OrderInv ==
    /\ stage # "ingesting" => ingest = "ready"
    /\ status # "scanning" => Concluded
    /\ Stored => (status = "failed" <=> Failed)

OutcomeInv ==
    LET result == IF Failed THEN <<>> ELSE found IN
    /\ TellsOf(log, Len(found), at)
    /\ ~Stored => rows = <<>> /\ events = <<>>
    /\ Stored =>
         /\ Len(rows) = Len(result)
         /\ events = Append(IF ingest = "refused" THEN <<>> ELSE log, FinalEvent(result))

ReplayInv ==
    LET missed == IF misled THEN 1 ELSE 0 IN
    /\ replay.last = Len(replay.got) + missed
    /\ \A n \in DOMAIN replay.got : replay.got[n] = n + missed
    /\ \A n \in DOMAIN replay.pending : replay.pending[n] = replay.last + n
    /\ ~Stored => replay.got = <<>> /\ replay.pending = <<>>
    /\ Stored => replay.last + Len(replay.pending) <= Len(events)
    /\ replay.step = "ended" => Stored /\ replay.last = Len(events)

(* What a client has got of a list is how that list begins.                *)
Begins(got, list) == \A n \in DOMAIN got : n \in DOMAIN list /\ got[n] = list[n]

(* The plain client has got whole pages, as long as it goes on.  It counts *)
(* what it then pages through, but for an insertion after its first count. *)
PlainInv ==
    LET list == IdsOf(Listed(DOMAIN rows, ById)) IN
    /\ Begins(plain.got, list)
    /\ plain.step # "ended" => Len(plain.got) = plain.offset
    /\ plain.step = "idle" => plain.offset = 0
    /\ plain.step = "between" => Stored /\ plain.offset < Len(rows)
    /\ plain.step = "counted" =>
         \/ plain.total = Len(rows) /\ plain.offset <= Len(rows)
         \/ plain.total = 0 /\ plain.offset = 0 /\ ~late
    /\ late => Stored
    /\ plain.step = "ended" /\ late => Len(plain.got) = Len(rows)

SortedInv ==
    /\ sorted.step = "idle" => sorted.offset = 0 /\ sorted.got = <<>>
    /\ sorted.step # "idle" /\ ~disturbed =>
         /\ Begins(sorted.got, IdsOf(FilteredRows))
         /\ sorted.step = "between" => /\ Len(sorted.got) = sorted.offset
                                       /\ sorted.offset < Len(FilteredRows)
         /\ sorted.step = "ended" => Len(sorted.got) = Len(FilteredRows)

DistinctIds == \A m, n \in DOMAIN rows : rows[m].id = rows[n].id => m = n

OneHorizon ==
    \E z \in ZValues : \A n \in DOMAIN rows : rows[n].risk = RiskAt[rows[n].kind][z]

ReadersInv ==
    /\ ReadersTypeOK /\ DistinctIds /\ OneHorizon
    /\ OrderInv /\ OutcomeInv /\ ReplayInv /\ PlainInv /\ SortedInv
=============================================================================
