-------------------------- MODULE ClusterLedgerProofs --------------------------
(***************************************************************************)
(* Proofs about the two ledgers a cluster of residue is judged in: the     *)
(* database rows of ResidueLedger, for any clusters, clients, bodies,      *)
(* texts, occurrences and targets, and the file of DebtStore, for any      *)
(* processes, hashes and phrases.                                          *)
(***************************************************************************)
EXTENDS ResidueLedger, DebtStore, TLAPS

-----------------------------------------------------------------------------
(* The database rows of ResidueLedger *)

USE DEF vars

(* What an UPDATE of the changed columns leaves is a row: of each column,  *)
(* the value the session made if it changed the column, or the row's own.  *)
LEMMA MergedRow ==
  ASSUME NEW row \in Row, NEW old \in Row, NEW new \in Row
  PROVE  /\ Merge(row, old, new) \in Row
         /\ Merge(row, old, new).state =
              IF new.state # old.state THEN new.state ELSE row.state
         /\ Merge(row, old, new).justification =
              IF new.justification # old.justification
              THEN new.justification ELSE row.justification
         /\ Merge(row, old, new).owner =
              IF new.owner # old.owner THEN new.owner ELSE row.owner
         /\ Merge(row, old, new).occurrences =
              IF new.occurrences # old.occurrences
              THEN new.occurrences ELSE row.occurrences
         /\ Merge(row, old, new).target =
              IF new.target # old.target THEN new.target ELSE row.target
<1>1. DOMAIN row = {"state", "justification", "owner", "occurrences", "target"}
  BY DEF Row
<1>2. Merge(row, old, new) =
        [state |-> IF new.state # old.state THEN new.state ELSE row.state,
         justification |-> IF new.justification # old.justification
                           THEN new.justification ELSE row.justification,
         owner |-> IF new.owner # old.owner THEN new.owner ELSE row.owner,
         occurrences |-> IF new.occurrences # old.occurrences
                         THEN new.occurrences ELSE row.occurrences,
         target |-> IF new.target # old.target THEN new.target ELSE row.target]
  BY <1>1 DEF Merge
<1> QED
  BY <1>2 DEF Row

(* What a patch makes of a row is a row; it leaves alone what the body does*)
(* not give.                                                               *)
LEMMA PatchedRow ==
  ASSUME NEW row \in Row, NEW p \in Bodies
  PROVE  /\ Patched(row, p) \in Row
         /\ Patched(row, p).state = p.state
         /\ Patched(row, p).justification = Or(p.justification, row.justification)
         /\ Patched(row, p).owner = Or(p.owner, row.owner)
         /\ Patched(row, p).occurrences = row.occurrences
         /\ Patched(row, p).target = row.target
<1>1. p \in Patch
  BY BodiesArePatches
<1> QED
  BY <1>1 DEF Patched, Row, Patch, Or, Words

(* A commit writes a row, changes neither its occurrences nor its target,  *)
(* and moves its state, if at all, to the one the body asks for.           *)
LEMMA CommittedRow ==
  ASSUME TypeOK, PendingInv, NEW c \in Clients, Commit(c)
  PROVE  /\ named[c] \in Clusters /\ rows[named[c]] \in Row
         /\ patch[c] \in Bodies /\ loaded[c] \in Row
         /\ rows' = [rows EXCEPT ![named[c]] =
                       Merge(rows[named[c]], loaded[c], Patched(loaded[c], patch[c]))]
         /\ rows'[named[c]] \in Row
         /\ rows'[named[c]].occurrences = rows[named[c]].occurrences
         /\ rows'[named[c]].target = rows[named[c]].target
         /\ rows'[named[c]].state \in {patch[c].state, rows[named[c]].state}
         /\ rows[named[c]] = loaded[c] =>
              /\ rows'[named[c]].state = patch[c].state
              /\ rows'[named[c]].justification =
                   Or(patch[c].justification, loaded[c].justification)
              /\ rows'[named[c]].owner = Or(patch[c].owner, loaded[c].owner)
<1> DEFINE i == named[c]
           new == Patched(loaded[c], patch[c])
<1>1. /\ i \in Clusters /\ rows[i] \in Row
      /\ patch[c] \in Bodies /\ loaded[c] \in Row
  BY DEF TypeOK, PendingInv, Commit
<1>2. rows' = [rows EXCEPT ![i] = Merge(rows[i], loaded[c], new)]
  BY DEF Commit
<1>3. rows'[i] = Merge(rows[i], loaded[c], new)
  BY <1>1, <1>2 DEF TypeOK
<1>4. /\ new \in Row
      /\ new.state = patch[c].state
      /\ new.justification = Or(patch[c].justification, loaded[c].justification)
      /\ new.owner = Or(patch[c].owner, loaded[c].owner)
      /\ new.occurrences = loaded[c].occurrences
      /\ new.target = loaded[c].target
  BY <1>1, PatchedRow
<1> HIDE DEF i, new
<1>5. /\ rows'[i] \in Row
      /\ rows'[i].state = IF new.state # loaded[c].state THEN new.state ELSE rows[i].state
      /\ rows'[i].justification = IF new.justification # loaded[c].justification
                                  THEN new.justification ELSE rows[i].justification
      /\ rows'[i].owner = IF new.owner # loaded[c].owner THEN new.owner ELSE rows[i].owner
      /\ rows'[i].occurrences = IF new.occurrences # loaded[c].occurrences
                                THEN new.occurrences ELSE rows[i].occurrences
      /\ rows'[i].target = IF new.target # loaded[c].target
                           THEN new.target ELSE rows[i].target
  BY <1>1, <1>3, <1>4, MergedRow
<1>6. /\ rows'[i].occurrences = rows[i].occurrences
      /\ rows'[i].target = rows[i].target
      /\ rows'[i].state \in {patch[c].state, rows[i].state}
  BY <1>4, <1>5
<1>7. rows[i] = loaded[c] =>
        /\ rows'[i].state = patch[c].state
        /\ rows'[i].justification = Or(patch[c].justification, loaded[c].justification)
        /\ rows'[i].owner = Or(patch[c].owner, loaded[c].owner)
  BY <1>4, <1>5
<1> QED
  BY <1>1, <1>2, <1>5, <1>6, <1>7 DEF i, new

(* A coverage run files a row, and loses nothing of one that was there.    *)
LEMMA FiledRow ==
  ASSUME TypeOK, NEW i \in Clusters, NEW found \in SUBSET Occurrences,
         NEW t \in Targets \cup {None}, save_coverage(i, found, t)
  PROVE  /\ rows' \in [Clusters -> Row \cup {None}]
         /\ rows'[i] \in Row
         /\ \A j \in Clusters \ {i} : rows'[j] = rows[j]
         /\ rows[i] = None => rows'[i].state = "open"
         /\ rows[i] # None =>
              /\ rows'[i].state = rows[i].state
              /\ rows'[i].justification = rows[i].justification
              /\ rows'[i].owner = rows[i].owner
              /\ rows[i].occurrences \subseteq rows'[i].occurrences
              /\ rows[i].target # None => rows'[i].target = rows[i].target
<1> DEFINE new == IF rows[i] = None THEN Filed(found, t) ELSE Refiled(rows[i], found, t)
<1>1. rows' = [rows EXCEPT ![i] = new]
  BY DEF save_coverage
<1>2. CASE rows[i] = None
  <2>1. new \in Row /\ new.state = "open"
    BY <1>2 DEF Filed, Row, Words, States
  <2> QED
    BY <1>1, <1>2, <2>1 DEF TypeOK
<1>3. CASE rows[i] # None
  <2>1. rows[i] \in Row
    BY <1>3 DEF TypeOK
  <2>2. /\ new \in Row
        /\ new.state = rows[i].state
        /\ new.justification = rows[i].justification
        /\ new.owner = rows[i].owner
        /\ rows[i].occurrences \subseteq new.occurrences
        /\ rows[i].target # None => new.target = rows[i].target
    BY <1>3, <2>1 DEF Refiled, Row
  <2> HIDE DEF new
  <2> QED
    BY <1>1, <1>3, <2>2 DEF TypeOK
<1> QED
  BY <1>2, <1>3

(* The initial state satisfies the invariant. *)
LEMMA LedgerInit == Init => LedgerInv
BY DEF Init, LedgerInv, TypeOK, PendingInv, OvertakenInv, ExclusionJustified

(* The variables keep their types. *)
LEMMA TypeStep == LedgerInv /\ [Next]_vars => TypeOK'
<1> SUFFICES ASSUME LedgerInv, [Next]_vars
             PROVE  TypeOK'
  OBVIOUS
<1> USE DEF TypeOK
<1>0. TypeOK /\ PendingInv
  BY DEF LedgerInv
<1>1. ASSUME NEW c \in Clients, NEW name, NEW p \in Bodies, Judge(c, name, p)
      PROVE  TypeOK'
  BY <1>0, <1>1 DEF Judge
<1>2. ASSUME NEW c \in Clients, Load(c)
      PROVE  TypeOK'
  BY <1>0, <1>2 DEF Load, PendingInv
<1>3. ASSUME NEW c \in Clients, Commit(c)
      PROVE  TypeOK'
  <2>1. rows' \in [Clusters -> Row \cup {None}]
    BY <1>0, <1>3, CommittedRow
  <2>2. crossed' \subseteq Clusters
    BY <1>0, <1>3, CommittedRow DEF Commit
  <2>3. overtaken' \in [Clients -> BOOLEAN]
    BY <1>3 DEF Commit
  <2> QED
    BY <1>0, <1>3, <2>1, <2>2, <2>3 DEF Commit
<1>4. ASSUME NEW i \in Clusters, NEW found \in SUBSET Occurrences,
             NEW t \in Targets \cup {None}, save_coverage(i, found, t)
      PROVE  TypeOK'
  BY <1>0, <1>4, FiledRow DEF save_coverage
<1>5. CASE UNCHANGED vars
  BY <1>0, <1>5
<1> QED
  BY <1>1, <1>2, <1>3, <1>4, <1>5 DEF Next

(* A request in progress stays one that has passed the checks.             *)
LEMMA PendingStep == LedgerInv /\ [Next]_vars => PendingInv'
<1> SUFFICES ASSUME LedgerInv, [Next]_vars
             PROVE  PendingInv'
  OBVIOUS
<1>0. TypeOK /\ PendingInv
  BY DEF LedgerInv
<1>1. ASSUME NEW c \in Clients, NEW name, NEW p \in Bodies, Judge(c, name, p)
      PROVE  PendingInv'
  <2>1. PICK i \in Clusters :
          Named(name, i) /\ MayPatch(rows[i], p) /\ named' = [named EXCEPT ![c] = i]
    BY <1>1 DEF Judge
  <2> QED
    BY <1>0, <1>1, <2>1 DEF Judge, Named, MayPatch, TypeOK, PendingInv
<1>2. ASSUME NEW c \in Clients, Load(c)
      PROVE  PendingInv'
  BY <1>0, <1>2 DEF Load, TypeOK, PendingInv
<1>3. ASSUME NEW c \in Clients, Commit(c)
      PROVE  PendingInv'
  <2>1. \A j \in Clusters : rows[j] # None => rows'[j] # None
    BY <1>0, <1>3, CommittedRow, NoneIsNoRow DEF TypeOK
  <2>2. /\ \A d \in Clients : pc'[d] # "idle" =>
             /\ d # c /\ pc'[d] = pc[d] /\ named'[d] = named[d]
             /\ patch'[d] = patch[d] /\ loaded'[d] = loaded[d]
    BY <1>0, <1>3 DEF Commit, TypeOK
  <2> QED
    BY <1>0, <2>1, <2>2 DEF PendingInv
<1>4. ASSUME NEW i \in Clusters, NEW found \in SUBSET Occurrences,
             NEW t \in Targets \cup {None}, save_coverage(i, found, t)
      PROVE  PendingInv'
  <2>1. \A j \in Clusters : rows[j] # None => rows'[j] # None
    BY <1>0, <1>4, FiledRow, NoneIsNoRow
  <2>2. UNCHANGED <<pc, named, patch, loaded>>
    BY <1>4 DEF save_coverage
  <2> QED
    BY <1>0, <2>1, <2>2 DEF PendingInv
<1>5. CASE UNCHANGED vars
  BY <1>0, <1>5 DEF PendingInv
<1> QED
  BY <1>1, <1>2, <1>3, <1>4, <1>5 DEF Next

(* Who was judged before a promotion, and asks for another state, is known.*)
LEMMA OvertakenStep == LedgerInv /\ [Next]_vars => OvertakenInv'
<1> SUFFICES ASSUME LedgerInv, [Next]_vars
             PROVE  OvertakenInv'
  OBVIOUS
<1>0. TypeOK /\ PendingInv /\ OvertakenInv
  BY DEF LedgerInv
<1>1. ASSUME NEW c \in Clients, NEW name, NEW p \in Bodies, Judge(c, name, p)
      PROVE  OvertakenInv'
  <2>1. PICK i \in Clusters :
          Named(name, i) /\ MayPatch(rows[i], p) /\ named' = [named EXCEPT ![c] = i]
    BY <1>1 DEF Judge
  <2> QED
    BY <1>0, <1>1, <2>1 DEF Judge, MayPatch, TypeOK, OvertakenInv
<1>2. ASSUME NEW c \in Clients, Load(c)
      PROVE  OvertakenInv'
  BY <1>0, <1>2 DEF Load, TypeOK, OvertakenInv
<1>3. ASSUME NEW c \in Clients, Commit(c)
      PROVE  OvertakenInv'
  <2> DEFINE row == Merge(rows[named[c]], loaded[c], Patched(loaded[c], patch[c]))
  <2> SUFFICES ASSUME NEW d \in Clients, pc'[d] # "idle",
                      rows'[named'[d]].state = "promoted", patch'[d].state # "promoted"
               PROVE  overtaken'[d]
    BY DEF OvertakenInv
  <2>1. /\ d # c /\ pc[d] # "idle"
        /\ named'[d] = named[d] /\ patch'[d] = patch[d]
    BY <1>0, <1>3 DEF Commit, TypeOK
  <2>2. /\ named[c] \in Clusters /\ rows[named[c]] \in Row
        /\ rows' = [rows EXCEPT ![named[c]] = row]
    BY <1>0, <1>3, CommittedRow
  <2>3. overtaken'[d] = (overtaken[d]
                          \/ (row.state = "promoted" /\ d \in Pending(named[c]) \ {c}))
    BY <1>3 DEF Commit
  <2> HIDE DEF row
  <2>4. CASE named[d] = named[c]
    <3>1. row.state = "promoted"
      BY <1>0, <2>1, <2>2, <2>4 DEF TypeOK
    <3>2. d \in Pending(named[c]) \ {c}
      BY <2>1, <2>4 DEF Pending
    <3> QED
      BY <2>3, <3>1, <3>2
  <2>5. CASE named[d] # named[c]
    <3>1. rows'[named[d]] = rows[named[d]]
      BY <1>0, <2>1, <2>2, <2>5 DEF PendingInv, TypeOK
    <3>2. overtaken[d]
      BY <1>0, <2>1, <3>1 DEF OvertakenInv
    <3> QED
      BY <2>3, <3>2
  <2> QED
    BY <2>4, <2>5
<1>4. ASSUME NEW i \in Clusters, NEW found \in SUBSET Occurrences,
             NEW t \in Targets \cup {None}, save_coverage(i, found, t)
      PROVE  OvertakenInv'
  <2>1. \A d \in Clients : pc[d] # "idle" =>
          rows[named[d]] # None /\ rows'[named[d]].state = rows[named[d]].state
    <3>1. \A d \in Clients : pc[d] # "idle" => named[d] \in Clusters /\ rows[named[d]] # None
      BY <1>0 DEF PendingInv
    <3>2. \A j \in Clusters : rows[j] # None => rows'[j].state = rows[j].state
      BY <1>0, <1>4, FiledRow
    <3> QED
      BY <3>1, <3>2
  <2>2. UNCHANGED <<pc, named, patch, overtaken>>
    BY <1>4 DEF save_coverage
  <2> QED
    BY <1>0, <2>1, <2>2 DEF OvertakenInv
<1>5. CASE UNCHANGED vars
  BY <1>0, <1>5 DEF OvertakenInv
<1> QED
  BY <1>1, <1>2, <1>3, <1>4, <1>5 DEF Next

(* An exclusion of one request carries that request's reason and owner.    *)
LEMMA ExclusionStep == LedgerInv /\ [Next]_vars => ExclusionJustified'
<1> SUFFICES ASSUME LedgerInv, [Next]_vars
             PROVE  ExclusionJustified'
  OBVIOUS
<1>0. TypeOK /\ PendingInv /\ ExclusionJustified
  BY DEF LedgerInv
<1>1. ASSUME NEW c \in Clients, NEW name, NEW p \in Bodies, Judge(c, name, p)
      PROVE  ExclusionJustified'
  BY <1>0, <1>1 DEF Judge, ExclusionJustified
<1>2. ASSUME NEW c \in Clients, Load(c)
      PROVE  ExclusionJustified'
  BY <1>0, <1>2 DEF Load, ExclusionJustified
<1>3. ASSUME NEW c \in Clients, Commit(c)
      PROVE  ExclusionJustified'
  <2> SUFFICES ASSUME NEW j \in Clusters, rows'[j] # None,
                      rows'[j].state = "excluded", j \notin crossed'
               PROVE  Justified(rows'[j])
    BY DEF ExclusionJustified
  <2>1. CASE j = named[c]
    <3>1. rows[j] = loaded[c]
      BY <1>3, <2>1 DEF Commit
    <3>2. patch[c].state = "excluded" /\ Justified(patch[c])
      <4>1. pc[c] # "idle"
        BY <1>3 DEF Commit
      <4>2. patch[c].state = "excluded"
        BY <1>0, <1>3, <2>1, <3>1, CommittedRow
      <4> QED
        BY <1>0, <4>1, <4>2 DEF PendingInv
    <3>3. /\ rows'[j].justification = patch[c].justification
          /\ rows'[j].owner = patch[c].owner
      BY <1>0, <1>3, <2>1, <3>1, <3>2, CommittedRow DEF Justified, Given, Or
    <3> QED
      BY <3>2, <3>3 DEF Justified
  <2>2. CASE j # named[c]
    <3>1. rows'[j] = rows[j]
      BY <1>0, <1>3, <2>2, CommittedRow DEF TypeOK
    <3>2. j \notin crossed
      BY <1>3, <2>2 DEF Commit
    <3> QED
      BY <1>0, <3>1, <3>2 DEF ExclusionJustified
  <2> QED
    BY <2>1, <2>2
<1>4. ASSUME NEW i \in Clusters, NEW found \in SUBSET Occurrences,
             NEW t \in Targets \cup {None}, save_coverage(i, found, t)
      PROVE  ExclusionJustified'
  <2> SUFFICES ASSUME NEW j \in Clusters, rows'[j] # None,
                      rows'[j].state = "excluded", j \notin crossed'
               PROVE  Justified(rows'[j])
    BY DEF ExclusionJustified
  <2>1. j \notin crossed
    BY <1>4 DEF save_coverage
  <2>2. CASE j = i
    <3>1. rows[j] # None /\ rows[j].state = "excluded"
      BY <1>0, <1>4, <2>2, FiledRow
    <3>2. /\ rows'[j].justification = rows[j].justification
          /\ rows'[j].owner = rows[j].owner
      BY <1>0, <1>4, <2>2, <3>1, FiledRow
    <3> QED
      BY <1>0, <2>1, <3>1, <3>2 DEF ExclusionJustified, Justified
  <2>3. CASE j # i
    BY <1>0, <1>4, <2>1, <2>3, FiledRow DEF ExclusionJustified
  <2> QED
    BY <2>2, <2>3
<1>5. CASE UNCHANGED vars
  BY <1>0, <1>5 DEF ExclusionJustified
<1> QED
  BY <1>1, <1>2, <1>3, <1>4, <1>5 DEF Next

(* The four parts of the invariant hold in every reachable state.          *)
THEOREM LedgerInvariant == Spec => []LedgerInv
<1>1. LedgerInv /\ [Next]_vars => LedgerInv'
  BY TypeStep, PendingStep, OvertakenStep, ExclusionStep DEF LedgerInv
<1> QED
  BY <1>1, LedgerInit, PTL DEF Spec

(* An excluded cluster names a reason and an owner, whatever requests and  *)
(* coverage runs overlap, unless its row combines two requests.            *)
THEOREM ExclusionsAreJustified == Spec => []ExclusionJustified
<1>1. LedgerInv => ExclusionJustified
  BY DEF LedgerInv
<1> QED
  BY <1>1, LedgerInvariant, PTL

(* Nothing but a request judged before the promotion undoes a promotion.   *)
THEOREM PromotionIsTerminalButForOvertaken == Spec => PromotedLeftOnlyIfOvertaken
<1> DEFINE Undone == \A i \in Clusters :
              rows[i] # None /\ rows[i].state = "promoted" /\ rows'[i].state # "promoted"
              => \E c \in Clients : named[c] = i /\ overtaken[c] /\ pc'[c] = "idle"
<1>1. LedgerInv /\ [Next]_vars => [Undone]_vars
  <2> SUFFICES ASSUME LedgerInv, Next, NEW i \in Clusters, rows[i] # None,
                      rows[i].state = "promoted", rows'[i].state # "promoted"
               PROVE  \E c \in Clients : named[c] = i /\ overtaken[c] /\ pc'[c] = "idle"
    OBVIOUS
  <2>0. TypeOK /\ PendingInv /\ OvertakenInv
    BY DEF LedgerInv
  <2>1. ASSUME NEW j \in Clusters, NEW found \in SUBSET Occurrences,
               NEW t \in Targets \cup {None}, save_coverage(j, found, t)
        PROVE  FALSE
    BY <2>0, <2>1, FiledRow
  <2>2. PICK c \in Clients : Commit(c)
    BY <2>1 DEF Next, Judge, Load
  <2>3. named[c] = i
    BY <2>0, <2>2, CommittedRow DEF TypeOK
  <2>4. patch[c].state # "promoted"
    BY <2>0, <2>2, <2>3, CommittedRow
  <2>5. overtaken[c]
    BY <2>0, <2>2, <2>3, <2>4 DEF Commit, OvertakenInv
  <2>6. pc'[c] = "idle"
    BY <2>0, <2>2 DEF Commit, TypeOK
  <2> QED
    BY <2>3, <2>5, <2>6
<1> QED
  BY <1>1, LedgerInvariant, PTL DEF Spec, PromotedLeftOnlyIfOvertaken

(* Occurrences, first target and cluster survive every step.               *)
THEOREM EvidenceIsKept == Spec => EvidenceKept
<1> DEFINE Kept == \A i \in Clusters :
                     rows[i] # None =>
                       /\ rows'[i] # None
                       /\ rows[i].occurrences \subseteq rows'[i].occurrences
                       /\ rows[i].target # None => rows'[i].target = rows[i].target
<1>1. LedgerInv /\ [Next]_vars => [Kept]_vars
  <2> SUFFICES ASSUME LedgerInv, Next, NEW i \in Clusters, rows[i] # None
               PROVE  /\ rows'[i] # None
                      /\ rows[i].occurrences \subseteq rows'[i].occurrences
                      /\ rows[i].target # None => rows'[i].target = rows[i].target
    OBVIOUS
  <2>0. TypeOK /\ PendingInv
    BY DEF LedgerInv
  <2>1. ASSUME NEW j \in Clusters, NEW found \in SUBSET Occurrences,
               NEW t \in Targets \cup {None}, save_coverage(j, found, t)
        PROVE  /\ rows'[i] # None
               /\ rows[i].occurrences \subseteq rows'[i].occurrences
               /\ rows[i].target # None => rows'[i].target = rows[i].target
    BY <2>0, <2>1, FiledRow, NoneIsNoRow
  <2>2. ASSUME NEW c \in Clients, Commit(c)
        PROVE  /\ rows'[i] # None
               /\ rows'[i].occurrences = rows[i].occurrences
               /\ rows'[i].target = rows[i].target
    BY <2>0, <2>2, CommittedRow, NoneIsNoRow DEF TypeOK
  <2>3. CASE UNCHANGED rows
    BY <2>3
  <2> QED
    BY <2>1, <2>2, <2>3 DEF Next, Judge, Load
<1> QED
  BY <1>1, LedgerInvariant, PTL DEF Spec, EvidenceKept
-----------------------------------------------------------------------------
(* The JSON file of engine/debt.py *)

LEMMA StoreIs ==
  /\ NoRecords \in Store /\ DOMAIN NoRecords = {}
  /\ \A store \in Store : DOMAIN store \subseteq Hashes /\ store \in [DOMAIN store -> Closed]
  /\ \A S \in SUBSET Hashes : \A store \in [S -> Closed] : store \in Store
<1>1. NoRecords \in [{} -> Closed] /\ DOMAIN NoRecords = {}
  BY DEF NoRecords
<1>2. \A S \in SUBSET Hashes : \A store \in [S -> Closed] : store \in Store
  BY DEF Store
<1>3. NoRecords \in Store
  BY <1>1, <1>2
<1>4. \A store \in Store : DOMAIN store \subseteq Hashes /\ store \in [DOMAIN store -> Closed]
  BY DEF Store
<1> QED
  BY <1>1, <1>2, <1>3, <1>4

(* The record that closes a cluster, and the store with it. *)
LEMMA RecordTyped ==
  ASSUME NEW m \in Command, m.act \in Changes
  PROVE  RecordOf(m) \in Closed /\ m.cluster \in Hashes
<1>1. /\ m.cluster \in Hashes /\ m.justification \in Phrases /\ m.owner \in Phrases
      /\ m.act \in {"list", "show", "promote", "cli promote", "excluded", "accepted"}
  BY EmptyIsAPhrase DEF Command
<1>2. CASE m.act = "promote"
  BY <1>1, <1>2 DEF RecordOf, Closed
<1>3. CASE m.act \in {"excluded", "accepted"}
  BY <1>1, <1>3 DEF RecordOf, Closed
<1> QED
  BY <1>1, <1>2, <1>3 DEF Changes

LEMMA ChangedIs ==
  ASSUME NEW store \in Store, NEW m \in Command, m.act \in Changes
  PROVE  LET new == Changed(store, m) IN
         /\ new \in Store
         /\ DOMAIN new = DOMAIN store \cup {m.cluster}
         /\ new[m.cluster] = RecordOf(m)
         /\ \A c \in DOMAIN store : c # m.cluster => new[c] = store[c]
<1> DEFINE new == Changed(store, m)
<1>1. DOMAIN store \subseteq Hashes /\ store \in [DOMAIN store -> Closed]
  BY StoreIs
<1>2. RecordOf(m) \in Closed /\ m.cluster \in Hashes
  BY RecordTyped
<1>3. /\ DOMAIN new = DOMAIN store \cup {m.cluster}
      /\ new[m.cluster] = RecordOf(m)
      /\ \A c \in DOMAIN store : c # m.cluster => new[c] = store[c]
  BY DEF Changed
<1>4. new \in [DOMAIN store \cup {m.cluster} -> Closed]
  BY <1>1, <1>2 DEF Changed
<1>5. DOMAIN store \cup {m.cluster} \in SUBSET Hashes
  BY <1>1, <1>2
<1> HIDE DEF new
<1>6. new \in Store
  BY <1>4, <1>5, StoreIs
<1> QED
  BY <1>3, <1>6 DEF new

LEMMA ChangedCaused ==
  ASSUME NEW store \in Store, NEW m \in Command, m.act \in Changes, Reasoned(m),
         m.act = "promote" => m.cluster \in fixtures /\ m.cluster \in rules,
         Caused(store)
  PROVE  Caused(Changed(store, m))
<1> DEFINE new == Changed(store, m)
<1>1. /\ DOMAIN new = DOMAIN store \cup {m.cluster}
      /\ new[m.cluster] = RecordOf(m)
      /\ \A c \in DOMAIN store : c # m.cluster => new[c] = store[c]
  BY ChangedIs
<1> HIDE DEF new
<1>2. CASE m.act = "promote"
  <2>1. RecordOf(m).state = "promoted-to-rule"
    BY <1>2 DEF RecordOf
  <2> QED
    BY <1>1, <1>2, <2>1 DEF Caused, new
<1>3. CASE m.act \in {"excluded", "accepted"}
  <2>1. /\ RecordOf(m).state # "promoted-to-rule"
        /\ RecordOf(m).justification # Empty /\ RecordOf(m).owner # Empty
    BY <1>3 DEF RecordOf, Reasoned
  <2> QED
    BY <1>1, <1>3, <2>1 DEF Caused, new
<1> QED
  BY <1>2, <1>3 DEF Changes

LEMMA DebtStart == DebtInit => DebtInv
<1> SUFFICES ASSUME DebtInit
             PROVE  DebtInv
  OBVIOUS
<1>1. DebtTypeOK
  BY StoreIs DEF DebtInit, DebtTypeOK
<1>2. CommandInv /\ LatestInv
  BY DEF DebtInit, CommandInv, LatestInv
<1>3. CauseInv
  BY StoreIs DEF DebtInit, CauseInv, Caused
<1> QED
  BY <1>1, <1>2, <1>3 DEF DebtInv

(* The variables at one process. *)
LEMMA DebtTypes ==
  ASSUME DebtInv, NEW p \in Processes
  PROVE  /\ records[p] \in Store /\ last \in Store
         /\ file # Torn => file \in Store
         /\ step[p] # "idle" => command[p] \in Command /\ Reasoned(command[p])
         /\ load_debt_store \in Store
BY StoreIs DEF DebtInv, DebtTypeOK, CommandInv, load_debt_store

LEMMA InvokeStep ==
  ASSUME DebtInv, NEW p \in Processes, NEW m \in Command, Invoke(p, m)
  PROVE  DebtInv'
<1>1. /\ Reasoned(m) /\ step[p] = "idle"
      /\ command' = [command EXCEPT ![p] = m] /\ step' = [step EXCEPT ![p] = "invoked"]
      /\ UNCHANGED <<file, rules, fixtures, records, trampled, last, behind, blind>>
  BY DEF Invoke, Goto, disk, history
<1>2. DebtTypeOK'
  BY <1>1 DEF DebtInv, DebtTypeOK
<1>3. CommandInv'
  BY <1>1 DEF DebtInv, DebtTypeOK, CommandInv, Reasoned
<1>4. CauseInv'
  BY <1>1 DEF DebtInv, CauseInv, Caused
<1>5. LatestInv'
  BY <1>1 DEF DebtInv, DebtTypeOK, LatestInv
<1> QED
  BY <1>2, <1>3, <1>4, <1>5 DEF DebtInv

LEMMA LoadStoreStep ==
  ASSUME DebtInv, NEW p \in Processes, LoadStore(p)
  PROVE  DebtInv'
<1>1. /\ step[p] = "invoked" /\ step' = [step EXCEPT ![p] = "loaded"]
      /\ records' = [records EXCEPT ![p] = load_debt_store]
      /\ blind' = IF file = Torn THEN blind \cup {p} ELSE blind \ {p}
      /\ behind' = behind \ {p}
      /\ UNCHANGED <<file, rules, fixtures, command, trampled, last>>
  BY DEF LoadStore, Goto, disk
<1>2. DebtTypeOK'
  BY <1>1, DebtTypes DEF DebtInv, DebtTypeOK
<1>3. CommandInv'
  BY <1>1 DEF DebtInv, DebtTypeOK, CommandInv, Reasoned
<1>4. CauseInv'
  <2>1. Caused(load_debt_store)
    BY StoreIs DEF DebtInv, CauseInv, load_debt_store, Caused
  <2>2. \A q \in Processes : Caused(records'[q])
    BY <1>1, <2>1 DEF DebtInv, DebtTypeOK, CauseInv
  <2> QED
    BY <1>1, <2>2 DEF DebtInv, CauseInv, Caused
<1>5. LatestInv'
  <2>1. p \notin blind' \cup behind' => load_debt_store = last
    BY <1>1 DEF DebtInv, LatestInv, load_debt_store
  <2> QED
    BY <1>1, <2>1 DEF DebtInv, DebtTypeOK, LatestInv
<1> QED
  BY <1>2, <1>3, <1>4, <1>5 DEF DebtInv

(* A command that ends, or is killed, leaves the disk as it is. *)
LEMMA FinishStep ==
  ASSUME DebtInv, NEW p \in Processes, Finish(p), UNCHANGED <<disk, last>>
  PROVE  DebtInv'
<1>1. /\ step' = [step EXCEPT ![p] = "idle"]
      /\ command' = [command EXCEPT ![p] = NoCommand]
      /\ records' = [records EXCEPT ![p] = NoRecords]
      /\ trampled' = trampled \ {p} /\ blind' = blind \ {p} /\ behind' = behind \ {p}
      /\ UNCHANGED <<file, rules, fixtures, last>>
  BY DEF Finish, Goto, disk
<1>2. DebtTypeOK'
  BY <1>1, StoreIs DEF DebtInv, DebtTypeOK
<1>3. CommandInv'
  BY <1>1 DEF DebtInv, DebtTypeOK, CommandInv, Reasoned
<1>4. CauseInv'
  <2>1. Caused(NoRecords)
    BY StoreIs DEF Caused
  <2>2. \A q \in Processes : Caused(records'[q])
    BY <1>1, <2>1 DEF DebtInv, DebtTypeOK, CauseInv
  <2> QED
    BY <1>1, <2>2 DEF DebtInv, CauseInv, Caused
<1>5. LatestInv'
  BY <1>1 DEF DebtInv, DebtTypeOK, LatestInv
<1> QED
  BY <1>2, <1>3, <1>4, <1>5 DEF DebtInv

(* The fixture, the rule and the truncation, on the way to the record. *)
LEMMA WayStep ==
  ASSUME DebtInv, NEW p \in Processes,
         WriteFixture(p) \/ WriteRule(p) \/ Truncate(p)
  PROVE  DebtInv'
<1>1. /\ UNCHANGED <<command, records, trampled, last, behind, blind>>
      /\ step[p] \in {"loaded", "fixture", "scaffolded"}
      /\ \E there \in {"fixture", "scaffolded", "truncated"} :
           step' = [step EXCEPT ![p] = there]
      /\ file' \in {file, Torn}
      /\ rules \subseteq rules' /\ fixtures \subseteq fixtures'
  BY DEF WriteFixture, WriteRule, Truncate, Ready, Goto, history
<1>c. command[p] \in Command /\ Reasoned(command[p])
  BY <1>1, DebtTypes
<1>h. command[p].cluster \in Hashes
  BY <1>c DEF Command
<1>2. DebtTypeOK'
  <2>1. rules' \subseteq Hashes /\ fixtures' \subseteq Hashes
    BY <1>h DEF DebtInv, DebtTypeOK, WriteFixture, WriteRule, Truncate
  <2> QED
    BY <1>1, <2>1 DEF DebtInv, DebtTypeOK
<1>3. CommandInv'
  <2>1. ASSUME NEW q \in Processes, step'[q] # "idle"
        PROVE  LET m == command[q] IN
          /\ m \in Command /\ Reasoned(m)
          /\ step'[q] \in {"fixture", "scaffolded"} => m.act = "promote"
          /\ step'[q] = "truncated" => m.act \in Changes
          /\ step'[q] \in {"fixture", "scaffolded", "truncated"} /\ m.act = "promote" =>
               m.cluster \in fixtures'
          /\ step'[q] \in {"scaffolded", "truncated"} /\ m.act = "promote" =>
               m.cluster \in rules'
    <3>1. CASE q # p
      <4>1. step'[q] = step[q]
        BY <1>1, <3>1 DEF DebtInv, DebtTypeOK
      <4> QED
        BY <1>1, <2>1, <4>1 DEF DebtInv, CommandInv
    <3>2. CASE q = p /\ WriteFixture(p)
      <4>1. /\ step'[p] = "fixture" /\ command[p].act = "promote"
            /\ command[p].cluster \in fixtures'
        BY <3>2 DEF WriteFixture, Goto, DebtInv, DebtTypeOK
      <4> QED
        BY <1>c, <3>2, <4>1
    <3>3. CASE q = p /\ WriteRule(p)
      <4>1. /\ step'[p] = "scaffolded" /\ step[p] = "fixture"
            /\ command[p].cluster \in rules'
        BY <3>3 DEF WriteRule, Goto, DebtInv, DebtTypeOK
      <4>2. command[p].act = "promote" /\ command[p].cluster \in fixtures
        BY <4>1 DEF DebtInv, CommandInv
      <4> QED
        BY <1>1, <1>c, <3>3, <4>1, <4>2
    <3>4. CASE q = p /\ Truncate(p)
      <4>1. step'[p] = "truncated" /\ UNCHANGED <<rules, fixtures>>
        BY <3>4 DEF Truncate, Goto, DebtInv, DebtTypeOK
      <4>2. /\ command[p].act \in Changes
            /\ command[p].act = "promote" =>
                 command[p].cluster \in fixtures /\ command[p].cluster \in rules
        BY <3>4 DEF Truncate, Ready, DebtInv, CommandInv, Changes
      <4> QED
        BY <1>c, <3>4, <4>1, <4>2
    <3> QED
      BY <3>1, <3>2, <3>3, <3>4
  <2> QED
    BY <1>1, <2>1 DEF CommandInv, Reasoned
<1>4. CauseInv'
  <2>1. Caused(last)'
    BY <1>1 DEF DebtInv, CauseInv, Caused
  <2>2. (file # Torn => Caused(file))'
    BY <1>1 DEF DebtInv, CauseInv, Caused
  <2>3. ASSUME NEW q \in Processes
        PROVE  Caused(records[q])'
    <3>1. Caused(records[q]) /\ records'[q] = records[q]
      BY <1>1 DEF DebtInv, CauseInv
    <3> QED
      BY <1>1, <3>1 DEF Caused
  <2> QED
    BY <2>1, <2>2, <2>3 DEF CauseInv
<1>5. LatestInv'
  BY <1>1 DEF DebtInv, DebtTypeOK, LatestInv
<1> QED
  BY <1>2, <1>3, <1>4, <1>5 DEF DebtInv

(* The write: the new record is on file, or the file is torn for good. *)
LEMMA WriteStep ==
  ASSUME DebtInv, NEW p \in Processes, Write(p)
  PROVE  DebtInv'
<1> DEFINE written == Changed(records[p], command[p])
           others == {q \in Processes \ {p} : step[q] \notin {"idle", "invoked"}}
<1>1. /\ step[p] = "truncated"
      /\ \/ file' = written /\ last' = written
         \/ file' = Torn /\ last' = last
      /\ trampled' \subseteq trampled \cup others
      /\ behind' = (behind \ {p}) \cup others
      /\ blind' = blind \ {p}
      /\ step' = [step EXCEPT ![p] = "idle"]
      /\ command' = [command EXCEPT ![p] = NoCommand]
      /\ records' = [records EXCEPT ![p] = NoRecords]
      /\ UNCHANGED <<rules, fixtures>>
  BY DEF Write, Goto
<1>2. /\ records[p] \in Store /\ command[p] \in Command /\ Reasoned(command[p])
      /\ command[p].act \in Changes
      /\ command[p].act = "promote" =>
           command[p].cluster \in fixtures /\ command[p].cluster \in rules
      /\ Caused(records[p])
  BY <1>1, DebtTypes DEF DebtInv, CommandInv, CauseInv
<1>3. written \in Store /\ Caused(written)
  BY <1>2, ChangedIs, ChangedCaused
<1>4. others \subseteq Processes
  OBVIOUS
<1>5. DebtTypeOK'
  BY <1>1, <1>3, <1>4, StoreIs DEF DebtInv, DebtTypeOK
<1>6. CommandInv'
  BY <1>1 DEF DebtInv, DebtTypeOK, CommandInv, Reasoned
<1>7. CauseInv'
  <2> HIDE DEF written
  <2>1. Caused(last)' /\ (file # Torn => Caused(file))'
    BY <1>1, <1>3 DEF DebtInv, CauseInv, Caused
  <2>2. ASSUME NEW q \in Processes
        PROVE  Caused(records[q])'
    <3>1. Caused(NoRecords)
      BY StoreIs DEF Caused
    <3>2. Caused(records'[q])
      BY <1>1, <3>1 DEF DebtInv, DebtTypeOK, CauseInv
    <3> QED
      BY <1>1, <3>2 DEF Caused
  <2> QED
    BY <2>1, <2>2 DEF CauseInv
<1>8. LatestInv'
  <2>1. (file = Torn \/ file = last)'
    BY <1>1
  <2>2. ASSUME NEW q \in Processes, step'[q] \notin {"idle", "invoked"},
               q \notin blind' \cup behind'
        PROVE  records'[q] = last'
    <3>1. q # p
      BY <1>1, <2>2 DEF DebtInv, DebtTypeOK
    <3>2. step'[q] = step[q]
      BY <1>1, <3>1 DEF DebtInv, DebtTypeOK
    <3> QED
      BY <1>1, <2>2, <3>1, <3>2
  <2> QED
    BY <2>1, <2>2 DEF LatestInv
<1> QED
  BY <1>5, <1>6, <1>7, <1>8 DEF DebtInv

(* Every variable stays as it is, or one process takes a step. *)
LEMMA DebtStep == DebtInv /\ [DebtNext]_debtVars => DebtInv'
<1> SUFFICES ASSUME DebtInv, [DebtNext]_debtVars
             PROVE  DebtInv'
  OBVIOUS
<1>1. CASE UNCHANGED debtVars
  <2>1. DebtTypeOK' /\ CommandInv' /\ LatestInv'
    BY <1>1 DEF debtVars, disk, history, DebtInv, DebtTypeOK, CommandInv, LatestInv,
                Reasoned
  <2>2. CauseInv'
    BY <1>1 DEF debtVars, disk, history, DebtInv, CauseInv, Caused
  <2> QED
    BY <2>1, <2>2 DEF DebtInv
<1>2. CASE DebtNext
  <2>1. PICK p \in Processes :
          \/ \E m \in Command : Invoke(p, m)
          \/ LoadStore(p)
          \/ Answer(p)
          \/ WriteFixture(p)
          \/ WriteRule(p)
          \/ Truncate(p)
          \/ Write(p)
          \/ Die(p)
    BY <1>2 DEF DebtNext
  <2>2. CASE \E m \in Command : Invoke(p, m)
    BY <2>2, InvokeStep
  <2>3. CASE LoadStore(p)
    BY <2>3, LoadStoreStep
  <2>4. CASE Answer(p) \/ Die(p)
    <3>1. Finish(p) /\ UNCHANGED <<disk, last>>
      BY <2>4 DEF Answer, Die
    <3> QED
      BY <3>1, FinishStep
  <2>5. CASE WriteFixture(p) \/ WriteRule(p) \/ Truncate(p)
    BY <2>5, WayStep
  <2>6. CASE Write(p)
    BY <2>6, WriteStep
  <2> QED
    BY <2>1, <2>2, <2>3, <2>4, <2>5, <2>6
<1> QED
  BY <1>1, <1>2

(* What a process holds of the debt store, and what it has written down    *)
(* before the record, at every step of every interleaving of the commands. *)
THEOREM DebtInvariant == DebtSpec => []DebtInv
BY DebtStart, DebtStep, PTL DEF DebtSpec

(* Whatever is killed, a cluster on file as promoted has its rule and its  *)
(* fixture, and every other closed one names a reason and an owner.        *)
THEOREM ClosedHaveCause == DebtSpec => []ClosedWithCause
<1>1. DebtInv => ClosedWithCause
  BY DEF DebtInv, CauseInv, Caused, ClosedWithCause
<1> QED
  BY <1>1, DebtInvariant, PTL

(* A write drops or changes the record of another cluster only if its      *)
(* process found the file torn or has fallen behind another's write.       *)
THEOREM ClosedNeverResurface == DebtSpec => NeverResurfaces
<1> DEFINE Lost(c) == /\ last' # last
                      /\ c \in DOMAIN last
                      /\ c \notin DOMAIN last' \/ last'[c] # last[c]
           By(p, c) == /\ step[p] = "truncated" /\ step'[p] = "idle"
                       /\ command[p].cluster = c \/ p \in blind \cup behind
<1>1. ASSUME DebtInv, [DebtNext]_debtVars
      PROVE  [\A c \in Hashes : Lost(c) => \E p \in Processes : By(p, c)]_debtVars
  <2> SUFFICES ASSUME NEW c \in Hashes, Lost(c), DebtNext
               PROVE  \E p \in Processes : By(p, c)
    BY <1>1
  <2>1. PICK p \in Processes : Write(p)
    BY DEF DebtNext, Invoke, LoadStore, Answer, WriteFixture, WriteRule, Truncate, Die,
           Finish, history
  <2>2. /\ step[p] = "truncated" /\ step'[p] = "idle"
        /\ last' = Changed(records[p], command[p])
    BY <1>1, <2>1 DEF Write, Goto, DebtInv, DebtTypeOK
  <2>3. /\ records[p] \in Store /\ command[p] \in Command
        /\ command[p].act \in Changes
    BY <2>2, DebtTypes, <1>1 DEF DebtInv, CommandInv
  <2>4. CASE command[p].cluster = c \/ p \in blind \cup behind
    BY <2>2, <2>4
  <2>5. CASE command[p].cluster # c /\ p \notin blind \cup behind
    <3>1. records[p] = last
      BY <1>1, <2>2, <2>5 DEF DebtInv, LatestInv
    <3>2. c \in DOMAIN last' /\ last'[c] = last[c]
      BY <2>2, <2>3, <2>5, <3>1, ChangedIs
    <3> QED
      BY <3>2
  <2> QED
    BY <2>4, <2>5
<1> QED
  BY <1>1, DebtInvariant, PTL DEF DebtSpec, NeverResurfaces
=============================================================================
