------------------------------- MODULE DebtStore -------------------------------
(***************************************************************************)
(* engine/debt.py: the JSON file of closed clusters, and the processes     *)
(* that read and rewrite it, the ecdat debt commands and the callers of    *)
(* promote_cluster.  Every change loads the whole file, changes one record *)
(* and writes the whole file back; the file is truncated first and filled  *)
(* after, nothing locks it, and a process may die between any two steps.   *)
(***************************************************************************)
EXTENDS FiniteSets, Functions

CONSTANTS Processes,  \* commands that run, one after the other in a slot
          Hashes,   \* hashes of clusters
          Phrases,      \* what --reason and --owner may say, stripped
          Empty,      \* the empty one of Phrases
          Promoter,   \* "engine-promoter", and the reason it gives
          Torn,       \* what is in the file between truncation and end of write
          NoCommand

ASSUME EmptyIsAPhrase == Empty \in Phrases /\ Promoter \notin Phrases

VARIABLES
    file,      \* the debt store: records by cluster, or Torn
    rules,     \* clusters whose rule file is written
    fixtures,  \* clusters whose fixture file is written
    step,        \* step[p]: how far the command of p is
    command,   \* command[p]: what it was asked
    records,   \* records[p]: debt_store, as p loaded it
    trampled,   \* processes that others wrote under, since they truncated
    (* history *)
    last,      \* the records of the last write that was completed
    behind,    \* processes that have loaded what others have written since
    blind      \* processes that found the file torn

disk == <<file, rules, fixtures>>
history == <<last, behind, blind>>
debtVars == <<disk, step, command, records, trampled, history>>

Closed == [state : {"promoted-to-rule", "excluded", "accepted"},
           justification : Phrases \cup {Promoter}, owner : Phrases \cup {Promoter}]

Store == UNION {[S -> Closed] : S \in SUBSET Hashes}

ASSUME TornIsNoStore == Torn \notin Store

NoRecords == [c \in {} |-> NoCommand]

(* list takes no cluster, and only the last two a reason and an owner. *)
Command ==
    [act : {"list", "show", "promote", "cli promote"}, cluster : Hashes,
     justification : {Empty}, owner : {Empty}]
    \cup [act : {"excluded", "accepted"}, cluster : Hashes,
          justification : Phrases, owner : Phrases]

Changes == {"promote", "excluded", "accepted"}

DebtTypeOK ==
    /\ file \in Store \cup {Torn}
    /\ rules \subseteq Hashes /\ fixtures \subseteq Hashes
    /\ step \in [Processes -> {"idle", "invoked", "loaded", "fixture", "scaffolded",
                             "truncated"}]
    /\ command \in [Processes -> Command \cup {NoCommand}]
    /\ records \in [Processes -> Store]
    /\ trampled \subseteq Processes
    /\ last \in Store
    /\ behind \subseteq Processes /\ blind \subseteq Processes

(* No file is the same as one without records. *)
DebtInit ==
    /\ file = NoRecords /\ rules = {} /\ fixtures = {}
    /\ step = [p \in Processes |-> "idle"]
    /\ command = [p \in Processes |-> NoCommand]
    /\ records = [p \in Processes |-> NoRecords]
    /\ trampled = {}
    /\ last = NoRecords /\ behind = {} /\ blind = {}
-----------------------------------------------------------------------------
Goto(p, there) == step' = [step EXCEPT ![p] = there]

(* A blank reason or owner raises ValueError before anything is read. *)
Reasoned(m) ==
    m.act \in {"excluded", "accepted"} => m.justification # Empty /\ m.owner # Empty

Invoke(p, m) ==
    /\ step[p] = "idle"
    /\ Reasoned(m)
    /\ command' = [command EXCEPT ![p] = m]
    /\ Goto(p, "invoked")
    /\ UNCHANGED <<disk, records, trampled, history>>

(* A file that does not parse counts as one without records. *)
load_debt_store == IF file = Torn THEN NoRecords ELSE file

LoadStore(p) ==
    /\ step[p] = "invoked"
    /\ records' = [records EXCEPT ![p] = load_debt_store]
    /\ blind' = IF file = Torn THEN blind \cup {p} ELSE blind \ {p}
    /\ behind' = behind \ {p}
    /\ Goto(p, "loaded")
    /\ UNCHANGED <<disk, command, trampled, last>>

Finish(p) ==
    /\ Goto(p, "idle")
    /\ command' = [command EXCEPT ![p] = NoCommand]
    /\ records' = [records EXCEPT ![p] = NoRecords]
    /\ trampled' = trampled \ {p}
    /\ blind' = blind \ {p}
    /\ behind' = behind \ {p}

(* list and show answer from what was loaded.  The parser accepts promote, *)
(* and cli_main returns 0 without having done anything.                    *)
Answer(p) ==
    /\ step[p] = "loaded"
    /\ command[p].act \notin Changes
    /\ Finish(p)
    /\ UNCHANGED <<disk, last>>
-----------------------------------------------------------------------------
(* promote_cluster writes the fixture, then the rule, then the record. *)
WriteFixture(p) ==
    /\ step[p] = "loaded"
    /\ command[p].act = "promote"
    /\ fixtures' = fixtures \cup {command[p].cluster}
    /\ Goto(p, "fixture")
    /\ UNCHANGED <<file, rules, command, records, trampled, history>>

WriteRule(p) ==
    /\ step[p] = "fixture"
    /\ rules' = rules \cup {command[p].cluster}
    /\ Goto(p, "scaffolded")
    /\ UNCHANGED <<file, fixtures, command, records, trampled, history>>

(* Defect: the record is saved first. *)
ReadyAtOnce(p) == step[p] \in {"loaded", "scaffolded"} /\ command[p].act \in Changes

Ready(p) == \/ step[p] = "scaffolded"
            \/ step[p] = "loaded" /\ command[p].act \in Changes \ {"promote"}

RecordOf(m) ==
    IF m.act = "promote"
    THEN [state |-> "promoted-to-rule", justification |-> Promoter, owner |-> Promoter]
    ELSE [state |-> m.act, justification |-> m.justification, owner |-> m.owner]

(* Defect: the new record replaces the store. *)
ChangedAlone(store, m) == [c \in {m.cluster} |-> RecordOf(m)]

Changed(store, m) ==
    [c \in DOMAIN store \cup {m.cluster} |->
       IF c = m.cluster THEN RecordOf(m) ELSE store[c]]

(* write_text opens the file for writing. *)
Truncate(p) ==
    /\ Ready(p)
    /\ file' = Torn
    /\ Goto(p, "truncated")
    /\ UNCHANGED <<rules, fixtures, command, records, trampled, history>>

(* Who writes over what another wrote since leaves that one's end behind   *)
(* where it is the longer, and the file does not parse.                    *)
Write(p) ==
    LET written == Changed(records[p], command[p])
        others == {q \in Processes \ {p} : step[q] \notin {"idle", "invoked"}}
    IN  /\ step[p] = "truncated"
        /\ \/ file' = written /\ last' = written
           \/ p \in trampled /\ file' = Torn /\ UNCHANGED last
        /\ trampled' = (trampled \ {p}) \cup {q \in others : step[q] = "truncated"}
        /\ behind' = (behind \ {p}) \cup others
        /\ blind' = blind \ {p}
        /\ Goto(p, "idle")
        /\ command' = [command EXCEPT ![p] = NoCommand]
        /\ records' = [records EXCEPT ![p] = NoRecords]
        /\ UNCHANGED <<rules, fixtures>>

(* The process is killed: a file it had truncated stays torn. *)
Die(p) ==
    /\ step[p] # "idle"
    /\ Finish(p)
    /\ UNCHANGED <<disk, last>>

DebtNext ==
    \E p \in Processes :
      \/ \E m \in Command : Invoke(p, m)
      \/ LoadStore(p)
      \/ Answer(p)
      \/ WriteFixture(p)
      \/ WriteRule(p)
      \/ Truncate(p)
      \/ Write(p)
      \/ Die(p)

DebtSpec == DebtInit /\ [][DebtNext]_debtVars
-----------------------------------------------------------------------------
(* Properties *)

(* "Closed clusters are keyed by content hash in a persistent debt store   *)
(* so they never resurface" (debt.py:10): a write drops or changes the     *)
(* record of another cluster only if its process found the file torn, by a *)
(* write under way or one that was killed, or has fallen behind another.   *)
NeverResurfaces ==
    [][\A c \in Hashes :
         /\ last' # last
         /\ c \in DOMAIN last
         /\ c \notin DOMAIN last' \/ last'[c] # last[c]
         => \E p \in Processes :
              /\ step[p] = "truncated" /\ step'[p] = "idle"
              /\ command[p].cluster = c \/ p \in blind \cup behind]_debtVars

(* Whatever is killed and wherever, a cluster on file as promoted has the  *)
(* rule and the fixture it was promoted with, and every other closed one   *)
(* names a reason and an owner.                                            *)
ClosedWithCause ==
    \A c \in DOMAIN last :
      IF last[c].state = "promoted-to-rule"
      THEN c \in rules /\ c \in fixtures
      ELSE last[c].justification # Empty /\ last[c].owner # Empty
-----------------------------------------------------------------------------
(* The inductive invariant *)

(* A promotion has written what its record will tell of. *)
CommandInv ==
    \A p \in Processes : step[p] # "idle" =>
      LET m == command[p] IN
      /\ m \in Command /\ Reasoned(m)
      /\ step[p] \in {"fixture", "scaffolded"} => m.act = "promote"
      /\ step[p] = "truncated" => m.act \in Changes
      /\ step[p] \in {"fixture", "scaffolded", "truncated"} /\ m.act = "promote" =>
           m.cluster \in fixtures
      /\ step[p] \in {"scaffolded", "truncated"} /\ m.act = "promote" =>
           m.cluster \in rules

(* As ClosedWithCause, of any records. *)
Caused(store) ==
    \A c \in DOMAIN store :
      IF store[c].state = "promoted-to-rule"
      THEN c \in rules /\ c \in fixtures
      ELSE store[c].justification # Empty /\ store[c].owner # Empty

CauseInv ==
    /\ Caused(last)
    /\ file # Torn => Caused(file)
    /\ \A p \in Processes : Caused(records[p])

(* Who has neither found the file torn nor fallen behind holds what was    *)
(* written last, and so does the file unless it is torn.                   *)
LatestInv ==
    /\ file = Torn \/ file = last
    /\ \A p \in Processes :
         step[p] \notin {"idle", "invoked"} /\ p \notin blind \cup behind =>
           records[p] = last

DebtInv == DebtTypeOK /\ CommandInv /\ CauseInv /\ LatestInv
=============================================================================
