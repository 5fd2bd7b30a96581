------------------------------- MODULE EngineScan -------------------------------
(***************************************************************************)
(* engine/scanner.py: scan() walks a tree, gives each file to the detector *)
(* of its suffix, turns detections into findings and tells its caller, by  *)
(* events, what it does.  The detectors of the languages are constants:    *)
(* what they find in a file; the binary detector is modelled.              *)
(***************************************************************************)
EXTENDS ArchiveIngest, SequencesExt

CONSTANTS Trees,       \* the trees of targets: files in path order
          RootDirs,    \* the directories on the path of the target itself
          Detected,    \* kinds of detections
          Every        \* _PROGRESS_EVERY_N_FILES

SkipDirs == {".git", ".venv", "venv", "__pycache__", "node_modules",
             ".mypy_cache", ".ruff_cache"}
CFamily == {".c", ".h", ".cpp", ".cc", ".cxx", ".hpp", ".hxx"}
BinaryFamily == {".bin", ".elf", ".so", ".exe", ".dll", ".sys", ".dylib", ".macho"}
SourceExtensions == {".py", ".go", ".java", ".rs", ".cs"} \cup CFamily \cup BinaryFamily
Detectors == {"go", "java", "c", "rust", "csharp", "binary", "python"}

(* The constants that the binary detector looks for, in its order. *)
Constants == <<"aes_sbox", "sha256_k", "md5_t">>

(* A file has what each detector would find in it, and, if it is a binary, *)
(* the constants in each section and in the whole file.                    *)
SourceFile == [dirs : SUBSET STRING, suffix : STRING,
               hits : [Detectors -> Seq(Detected)],
               sections : Seq(SUBSET Detected), constants : SUBSET Detected,
               oversized : BOOLEAN, readable : BOOLEAN]

ASSUME EveryAssumption == Every \in Nat \ {0}
ASSUME ConstantsAreDetected == Constants \in Seq(Detected)
ASSUME TreesAreOfFiles ==
    Trees \cup {a.tree : a \in Archives} \subseteq Seq(SourceFile)

VARIABLES
    tree,       \* the tree that is scanned
    stage,      \* "ingesting", "scanning", "returned" or "raised"
    at,         \* how many of its files have been processed
    found,      \* the detections made findings, in order
    log,        \* the events told
    read,       \* how many files were read,
    errors,     \*   could not be,
    skipped     \*   or were too large

(* The events of a scan, the final one of its row included.                *)
Event == ({"stage"} \X {"ingesting", "scanning", "scoring"})
           \cup ({"finding"} \X Nat) \cup ({"progress"} \X Nat \X Nat \X Nat)
           \cup ({"done", "error"} \X Nat)

engineVars == <<tree, stage, at, found, log, read, errors, skipped>>
-----------------------------------------------------------------------------
Detector(suffix) ==
    CASE suffix = ".go" -> "go"
      [] suffix = ".java" -> "java"
      [] suffix \in CFamily -> "c"
      [] suffix = ".rs" -> "rust"
      [] suffix = ".cs" -> "csharp"
      [] suffix \in BinaryFamily -> "binary"
      [] OTHER -> "python"

(* _iter_source_files: every part of the path counts, those above the      *)
(* target too.                                                             *)
Walked(f) ==
    /\ f.suffix \in SourceExtensions
    /\ (RootDirs \cup f.dirs) \cap SkipDirs = {}

(* What passes the test, in the order of the list.                         *)
Kept(list, Test(_)) ==
    FlattenSeq([n \in DOMAIN list |-> IF Test(list[n]) THEN <<list[n]>> ELSE <<>>])

Walk == Kept(tree, Walked)

(* scan_binary: a constant counts once in each section that was parsed, or *)
(* once in the whole file when none was; what lies outside of the sections *)
(* is not looked at then.                                                  *)
ScanTargets(f) == IF f.sections # <<>> THEN f.sections ELSE <<f.constants>>

HitsIn(held) ==
    Kept(Constants, LAMBDA c : c \in held)

BinaryHits(f) ==
    FlattenSeq([n \in DOMAIN ScanTargets(f) |-> HitsIn(ScanTargets(f)[n])])

Detections(f) ==
    IF Detector(f.suffix) = "binary" THEN BinaryHits(f)
    ELSE f.hits[Detector(f.suffix)]

EngineInit ==
    /\ IF archive = Nothing THEN tree \in Trees ELSE tree = archive.tree
    /\ stage = "ingesting" /\ at = 0
    /\ found = <<>> /\ log = <<<<"stage", "ingesting">>>>
    /\ read = 0 /\ errors = 0 /\ skipped = 0
-----------------------------------------------------------------------------
Entered == IF at = 0 THEN <<<<"stage", "scanning">>>> ELSE <<>>

(* A file that is too large or cannot be read is passed over, with the     *)
(* progress that would have been told of it.                               *)
PassOver(f) ==
    /\ IF f.oversized
       THEN skipped' = skipped + 1 /\ UNCHANGED errors
       ELSE ~f.readable /\ errors' = errors + 1 /\ UNCHANGED skipped
    /\ log' = log \o Entered
    /\ UNCHANGED <<found, read>>

(* Defect: the progress is told before the findings of the file. *)
ToldProgressFirst(hits, progress) ==
    log \o Entered \o progress \o [n \in DOMAIN hits |-> <<"finding", Len(found) + n>>]

(* The log after a file: each of its findings by position, then progress.   *)
Told(hits, progress) ==
    log \o Entered \o [n \in DOMAIN hits |-> <<"finding", Len(found) + n>>] \o progress

Process(f) ==
    LET hits == Detections(f)
        i == at + 1
        progress == IF i = 1 \/ i = Len(Walk) \/ i % Every = 0
                    THEN <<<<"progress", i, Len(Walk), Len(found) + Len(hits)>>>>
                    ELSE <<>>
    IN  /\ ~f.oversized /\ f.readable
        /\ read' = read + 1
        /\ found' = found \o hits
        /\ log' = Told(hits, progress)
        /\ UNCHANGED <<errors, skipped>>

ScanFile ==
    /\ stage \in {"ingesting", "scanning"} /\ at < Len(Walk)
    /\ at' = at + 1
    /\ stage' = "scanning"
    /\ PassOver(Walk[at + 1]) \/ Process(Walk[at + 1])
    /\ UNCHANGED tree

Return ==
    /\ stage \in {"ingesting", "scanning"} /\ at = Len(Walk)
    /\ stage' = "returned"
    /\ log' = Append(log, <<"stage", "scoring">>)
    /\ UNCHANGED <<tree, at, found, read, errors, skipped>>

(* An exception of a detector or of the scoring: what has been told stays. *)
Raise ==
    /\ stage \in {"ingesting", "scanning"} /\ at < Len(Walk)
    /\ ~Walk[at + 1].oversized /\ Walk[at + 1].readable
    /\ stage' = "raised"
    /\ log' = log \o Entered
    /\ UNCHANGED <<tree, at, found, read, errors, skipped>>

EngineNext == ScanFile \/ Return \/ Raise
=============================================================================
