----------------------------- MODULE ResidueLedger -----------------------------
(***************************************************************************)
(* The residue_clusters table: PATCH /residue/{id}, which moves a cluster  *)
(* from state to state, and save_coverage, which files the clusters of a   *)
(* ledger.  PATCH handlers run in pool threads, each with two sessions:    *)
(* the route reads the cluster to judge the request, and the store reads   *)
(* it again and updates it.                                                *)
(*                                                                         *)
(* save_coverage has flushed its certificate before it looks for clusters, *)
(* so that it reads and writes them under the write lock: one action.      *)
(***************************************************************************)
EXTENDS FiniteSets

CONSTANTS Clusters,     \* ids of clusters
          Hash,         \* Hash[i]: content hash of the cluster with id i
          Clients,      \* threads that serve PATCH requests
          Texts,        \* justifications and owners that are not blank
          Blank,        \* the empty string, or one of spaces
          Occurrences,  \* (artifact, path, range) triples
          Targets,      \* ids of targets
          Bodies,       \* bodies of requests
          None          \* NULL, or "not given"

ASSUME NoneIsFresh == None \notin Texts \cup {Blank} \cup Targets
ASSUME BlankIsNoText == Blank \notin Texts
ASSUME HashesDistinct ==
    \A i, j \in Clusters : /\ Hash[i] = Hash[j] => i = j
                           /\ Hash[i] \notin Clusters

States == {"open", "promoted", "excluded", "accepted"}
Words == Texts \cup {Blank, None}

Row == [state : States, justification : Words, owner : Words,
        occurrences : SUBSET Occurrences, target : Targets \cup {None}]
Patch == [state : States, justification : Words, owner : Words]

ASSUME BodiesArePatches == Bodies \subseteq Patch
ASSUME NoneIsNoRow == None \notin Row

VARIABLES
    rows,        \* rows[i]: the row of cluster i, or None
    pc,          \* pc[c]: how far the request of c is
    named,       \* named[c]: the cluster it is about
    patch,       \* patch[c]: its body
    loaded,      \* loaded[c]: the row as the store's session loaded it
    (* history *)
    overtaken,   \* requests since whose judgement the cluster was promoted
    crossed      \* clusters whose last write was to a row another had changed

vars == <<rows, pc, named, patch, loaded, overtaken, crossed>>

TypeOK ==
    /\ rows \in [Clusters -> Row \cup {None}]
    /\ pc \in [Clients -> {"idle", "judged", "loaded"}]
    /\ named \in [Clients -> Clusters \cup {None}]
    /\ patch \in [Clients -> Bodies \cup {None}]
    /\ loaded \in [Clients -> Row \cup {None}]
    /\ overtaken \in [Clients -> BOOLEAN]
    /\ crossed \subseteq Clusters

Init ==
    /\ rows = [i \in Clusters |-> None]
    /\ pc = [c \in Clients |-> "idle"]
    /\ named = [c \in Clients |-> None]
    /\ patch = [c \in Clients |-> None]
    /\ loaded = [c \in Clients |-> None]
    /\ overtaken = [c \in Clients |-> FALSE]
    /\ crossed = {}
-----------------------------------------------------------------------------
(* A name in a request is an id, or else a content hash. *)
Named(name, i) == rows[i] # None /\ (i = name \/ (name \notin Clusters /\ Hash[i] = name))

Given(word) == word \notin {None, Blank}

Justified(p) == Given(p.justification) /\ Given(p.owner)

(* Defect: the terminal state is not checked. *)
MayPatchAnything(row, p) == p.state = "excluded" => Justified(p)

(* Defect: an exclusion needs an owner or a justification. *)
MayPatchHalfJustified(row, p) ==
    /\ p.state = "excluded" => Given(p.justification) \/ Given(p.owner)
    /\ row.state = "promoted" => p.state = "promoted"

(* The checks of the route, of the body and of the cluster it has read. *)
MayPatch(row, p) ==
    /\ p.state = "excluded" => Justified(p)
    /\ row.state = "promoted" => p.state = "promoted"

(* A request that names no cluster, or fails the checks, changes nothing. *)
Judge(c, name, p) ==
    /\ pc[c] = "idle"
    /\ \E i \in Clusters :
         /\ Named(name, i)
         /\ MayPatch(rows[i], p)
         /\ named' = [named EXCEPT ![c] = i]
    /\ patch' = [patch EXCEPT ![c] = p]
    /\ pc' = [pc EXCEPT ![c] = "judged"]
    /\ overtaken' = [overtaken EXCEPT ![c] = FALSE]
    /\ UNCHANGED <<rows, loaded, crossed>>

(* The SELECT of store.patch_residue_cluster. *)
Load(c) ==
    /\ pc[c] = "judged"
    /\ loaded' = [loaded EXCEPT ![c] = rows[named[c]]]
    /\ pc' = [pc EXCEPT ![c] = "loaded"]
    /\ UNCHANGED <<rows, named, patch, overtaken, crossed>>

Or(word, former) == IF word = None THEN former ELSE word

(* What the session makes of the row it loaded. *)
Patched(row, p) ==
    [row EXCEPT !.state = p.state,
                !.justification = Or(p.justification, @),
                !.owner = Or(p.owner, @)]

(* Defect: the session writes the whole row it has in memory. *)
MergeWhole(row, old, new) == new

(* The UPDATE sets the columns that differ from the row as loaded. *)
Merge(row, old, new) ==
    [column \in DOMAIN row |->
       IF new[column] # old[column] THEN new[column] ELSE row[column]]

(* Requests about cluster i that were judged and have not committed. *)
Pending(i) == {c \in Clients : pc[c] # "idle" /\ named[c] = i}

Commit(c) ==
    LET i == named[c]
        row == Merge(rows[i], loaded[c], Patched(loaded[c], patch[c]))
    IN  /\ pc[c] = "loaded"
        /\ rows' = [rows EXCEPT ![i] = row]
        /\ crossed' = IF rows[i] = loaded[c] THEN crossed \ {i} ELSE crossed \cup {i}
        /\ overtaken' = [d \in Clients |->
             overtaken[d] \/ (row.state = "promoted" /\ d \in Pending(i) \ {c})]
        /\ pc' = [pc EXCEPT ![c] = "idle"]
        /\ named' = [named EXCEPT ![c] = None]
        /\ patch' = [patch EXCEPT ![c] = None]
        /\ loaded' = [loaded EXCEPT ![c] = None]
-----------------------------------------------------------------------------
(* Defect: the occurrences of the new ledger replace those on file. *)
RefiledAfresh(row, found, target) ==
    [row EXCEPT !.occurrences = found,
                !.target = IF @ = None THEN target ELSE @]

(* A cluster seen again keeps its state and gains occurrences. *)
Refiled(row, found, target) ==
    [row EXCEPT !.occurrences = @ \cup found,
                !.target = IF @ = None THEN target ELSE @]

(* The ledger of the engine proposes every cluster as open. *)
Filed(found, target) ==
    [state |-> "open", justification |-> None, owner |-> None,
     occurrences |-> found, target |-> target]

save_coverage(i, found, target) ==
    /\ rows' = [rows EXCEPT ![i] =
                  IF @ = None THEN Filed(found, target) ELSE Refiled(@, found, target)]
    /\ UNCHANGED <<pc, named, patch, loaded, overtaken, crossed>>

Next ==
    \/ \E c \in Clients :
         \/ \E name \in Clusters \cup {Hash[i] : i \in Clusters}, p \in Bodies :
              Judge(c, name, p)
         \/ Load(c)
         \/ Commit(c)
    \/ \E i \in Clusters, found \in SUBSET Occurrences, target \in Targets \cup {None} :
         save_coverage(i, found, target)

Spec == Init /\ [][Next]_vars
-----------------------------------------------------------------------------
(* Properties *)

(* A cluster leaves "promoted" only by a request that was judged before it *)
(* was promoted (routes/residue.py:49, "terminal once a detection rule is  *)
(* created", checked on a row read in another session).                    *)
PromotedLeftOnlyIfOvertaken ==
    [][\A i \in Clusters :
         rows[i] # None /\ rows[i].state = "promoted" /\ rows'[i].state # "promoted"
         => \E c \in Clients : named[c] = i /\ overtaken[c] /\ pc'[c] = "idle"]_vars

(* An excluded cluster names a reason and an owner (routes/residue.py:41), *)
(* unless the row combines two requests: the UPDATE of an exclusion leaves *)
(* alone a justification that was there already, and an overlapping        *)
(* request may have blanked it.                                            *)
ExclusionJustified ==
    \A i \in Clusters :
      rows[i] # None /\ rows[i].state = "excluded" /\ i \notin crossed
      => Justified(rows[i])

(* No request or scan, in any interleaving, loses an occurrence that is on *)
(* file, the target that reported the cluster first, or the cluster.       *)
EvidenceKept ==
    [][\A i \in Clusters :
         rows[i] # None =>
           /\ rows'[i] # None
           /\ rows[i].occurrences \subseteq rows'[i].occurrences
           /\ rows[i].target # None => rows'[i].target = rows[i].target]_vars
-----------------------------------------------------------------------------
(* The inductive strengthening that ClusterLedgerProofs uses: a pending    *)
(* request is about a cluster on file and has passed the checks.           *)
PendingInv ==
    \A c \in Clients :
      pc[c] # "idle" =>
        /\ named[c] \in Clusters
        /\ patch[c] \in Bodies
        /\ rows[named[c]] # None
        /\ patch[c].state = "excluded" => Justified(patch[c])
        /\ pc[c] = "loaded" => loaded[c] \in Row

OvertakenInv ==
    \A c \in Clients :
      /\ pc[c] # "idle"
      /\ rows[named[c]].state = "promoted"
      /\ patch[c].state # "promoted"
      => overtaken[c]

LedgerInv == TypeOK /\ PendingInv /\ OvertakenInv /\ ExclusionJustified
=============================================================================
