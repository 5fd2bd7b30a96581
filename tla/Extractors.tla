------------------------------ MODULE Extractors ------------------------------
(***************************************************************************)
(* The extractors of engine/extract: one call of one of them, on one       *)
(* artifact.  An extractor makes passes over the bytes, and a pass is one  *)
(* of two loops:                                                           *)
(*                                                                         *)
(*   a scan looks for a hit at the cursor (a regular expression, a table,  *)
(*   an ASN.1 sequence), goes on behind a hit, and reports it unless the   *)
(*   extractor has reported its bytes already;                             *)
(*                                                                         *)
(*   a density pass measures windows at a fixed stride and reports the     *)
(*   stretches that dense windows make up together.                        *)
(*                                                                         *)
(* What bytes match, decode or are dense is left open: every outcome is    *)
(* possible at every place.                                                *)
(***************************************************************************)
EXTENDS Integers, Sequences, FiniteSets

CONSTANTS Size,       \* bytes of the artifact
          TableSize,  \* entries of a byte permutation: 256
          WordSize,   \* bytes of a word of a constant table: 4
          TableWords, \* words of the shortest constant table: 8
          Frame,      \* bytes of the shortest ASN.1 sequence looked for
          MatchLengths, \* bytes a match of a regular expression may have
          Window, Stride, \* of the density passes
          None

ASSUME SizesAssumption ==
    /\ Size \in Nat
    /\ {TableSize, WordSize, TableWords, Frame, Window, Stride} \subseteq Nat \ {0}
ASSUME LengthsAssumption == MatchLengths \subseteq 1..Size
ASSUME NoRunIsNone == None \notin Nat \X Nat
-----------------------------------------------------------------------------
(* The passes, in their order.  A hit that a `keep` of "uncontained" or    *)
(* "apart" turns down lies within, or touches, something reported before.  *)

Scan(rule, kind, keep, lengths) ==
    [rule |-> rule, loop |-> "scan", kind |-> kind, keep |-> keep,
     lengths |-> lengths, from |-> 0, step |-> 1]

(* A scan with a regular expression. *)
Match(rule, kind, keep) == Scan(rule, kind, keep, MatchLengths)

Density(rule, kind) ==
    [rule |-> rule, loop |-> "density", kind |-> kind, keep |-> "all",
     lengths |-> {Window}, from |-> 0, step |-> Stride]

(* Tables of words are looked for at every alignment of a word. *)
WordTables(align) ==
    [Scan("constant_words", "any", "apart",
          {n \in 1..Size : n % WordSize = 0 /\ n >= TableWords * WordSize})
       EXCEPT !.from = align, !.step = WordSize]

extract_tables ==
    <<Scan("bijection_256", "any", "all", {TableSize})>>
      \o [a \in 1..WordSize |-> WordTables(a - 1)]
      \o <<Match("source_bijection_256", "source", "all")>>

extract_entropy == <<Density("sustained_high", "any")>>

extract_arx ==
    <<Match("source_rotate_xor", "source", "all"),
      Match("source_composite", "source", "uncontained"),
      Density("binary_opcode_density", "binary")>>

extract_bigint ==
    <<Match("modexp_loop", "any", "all"),
      Match("montgomery_call", "any", "uncontained")>>

extract_framing ==
    <<Match("pem_envelope", "any", "all"),
      Match("base64_blob", "any", "uncontained"),
      Scan("asn1_der", "any", "uncontained", {n \in 1..Size : n >= Frame})>>

extract_literals ==
    <<Match("key_length", "source", "all"),
      Match("numeric_array", "source", "uncontained"),
      Match("high_entropy_string", "source", "uncontained")>>

(* Those that extract_all runs one after the other. *)
extract_all == {extract_tables, extract_entropy, extract_arx, extract_bigint,
                extract_framing, extract_literals}
-----------------------------------------------------------------------------
VARIABLES
    passes,   \* the passes of the extractor that was called
    source,   \* the path ends like a source file's
    pass,     \* the pass it is at; behind the last one, the call has returned
    cursor,   \* i, or the next window
    run,      \* cur_start and cur_end of a density pass, or None
    spans,    \* what it has reported, in order
    hits      \* history: what matched, decoded or was dense, by pass

extraction == <<passes, source, pass, cursor, run, spans, hits>>

(* The names under which they report. *)
RuleNames == UNION {{list[p].rule : p \in DOMAIN list} : list \in extract_all}

Span == [rule : RuleNames, start : 0..Size, end : 0..Size]
Hit == [pass : Nat, start : 0..Size, end : 0..Size]

ExtractorsTypeOK ==
    /\ passes \in extract_all
    /\ source \in BOOLEAN
    /\ pass \in 1..(Len(passes) + 1)
    /\ cursor \in Nat
    /\ run \in ((0..Size) \X (0..Size)) \cup {None}
    /\ spans \in Seq(Span)
    /\ hits \subseteq Hit

ExtractorsInit ==
    /\ passes \in extract_all
    /\ source \in BOOLEAN
    /\ pass = 1
    /\ cursor = passes[1].from
    /\ run = None
    /\ spans = <<>>
    /\ hits = {}
-----------------------------------------------------------------------------
Within(a, b) == b.start <= a.start /\ a.end <= b.end

Overlap(a, b) == a.start < b.end /\ b.start < a.end

(* Defect: a hit that touches an earlier span is taken for reported. *)
KeepsUntouched(keep, found) ==
    \A i \in DOMAIN spans : keep # "all" => ~Overlap(found, spans[i])

Keeps(keep, found) ==
    \A i \in DOMAIN spans :
      /\ keep = "uncontained" => ~Within(found, spans[i])
      /\ keep = "apart" => ~Overlap(found, spans[i])

This == passes[pass]

(* A pass over source text leaves a binary alone, and the other way round. *)
Runs == /\ pass <= Len(passes)
        /\ This.kind = "source" => source
        /\ This.kind = "binary" => ~source

Left == \E n \in This.lengths : cursor + n <= Size

Report(found) == spans' = Append(spans, [found EXCEPT !.rule = This.rule])

Found(from, to) == [rule |-> "", start |-> from, end |-> to]

Record(found) ==
    hits' = hits \cup {[pass |-> pass, start |-> found.start, end |-> found.end]}

(* Nothing there; or a match of a regular expression that fails what is    *)
(* asked of it besides (a payload that does not decode, a string of low    *)
(* entropy), which is as good as missing at each of its bytes.             *)
Miss ==
    /\ Runs /\ Left
    /\ cursor' = cursor + This.step
    /\ UNCHANGED <<passes, source, pass, run, spans, hits>>

Strike ==
    /\ Runs /\ Left
    /\ This.loop = "scan"
    /\ \E n \in This.lengths :
         LET found == Found(cursor, cursor + n)
         IN  /\ cursor + n <= Size
             /\ cursor' = cursor + n
             /\ Record(found)
             /\ IF Keeps(This.keep, found) THEN Report(found) ELSE UNCHANGED spans
    /\ UNCHANGED <<passes, source, pass, run>>

Joins(from) == run # None /\ from <= run[2]

Dense ==
    LET window == Found(cursor, cursor + Window)
    IN  /\ Runs /\ Left
        /\ This.loop = "density"
        /\ Record(window)
        /\ IF Joins(window.start)
           THEN run' = <<run[1], window.end>> /\ UNCHANGED spans
           ELSE /\ run' = <<window.start, window.end>>
                /\ IF run = None THEN UNCHANGED spans
                   ELSE Report(Found(run[1], run[2]))
        /\ cursor' = cursor + This.step
        /\ UNCHANGED <<passes, source, pass>>

(* The last stretch is reported, and the next pass begins. *)
EndOfPass ==
    /\ pass <= Len(passes)
    /\ ~(Runs /\ Left)
    /\ IF run = None THEN UNCHANGED spans ELSE Report(Found(run[1], run[2]))
    /\ run' = None
    /\ pass' = pass + 1
    /\ cursor' = IF pass < Len(passes) THEN passes[pass + 1].from ELSE 0
    /\ UNCHANGED <<passes, source, hits>>

Extract == Miss \/ Strike \/ Dense \/ EndOfPass

Extracted == pass > Len(passes)
-----------------------------------------------------------------------------
(* Properties *)

RuleOf(h) == passes[h.pass].rule

(* Nothing that was found is lost (extract/*.py): a hit that was not       *)
(* reported itself lies within a span the extractor did report, or, in a   *)
(* table of words, shares bytes with one.                                  *)
EveryHitCovered ==
    \A h \in hits : h.pass < pass =>
      \E i \in DOMAIN spans :
        IF passes[h.pass].keep = "apart" THEN Overlap(h, spans[i])
        ELSE Within(h, spans[i])

Pass(rule) == {p \in 1..Len(passes) : passes[p].rule = rule}

(* Nor is mass invented: every byte of a span belongs to a hit of its      *)
(* rule, and the spans of one rule share no byte; those of dense windows   *)
(* do not even touch.                                                      *)
SpansAreHits ==
    \A i \in DOMAIN spans :
      /\ \A byte \in spans[i].start..(spans[i].end - 1) :
           \E h \in hits : /\ RuleOf(h) = spans[i].rule
                           /\ h.start <= byte /\ byte < h.end
      /\ \A j \in DOMAIN spans :
           i < j /\ spans[i].rule = spans[j].rule =>
             /\ ~Overlap(spans[i], spans[j])
             /\ passes[CHOOSE p \in Pass(spans[i].rule) : TRUE].loop = "density"
                => spans[i].end < spans[j].start

(* The spans of an extractor are the hits of its passes: none is lost and   *)
(* no mass is made up (EveryHitCovered, SpansAreHits).                     *)
SpansCoverHits == EveryHitCovered /\ SpansAreHits
-----------------------------------------------------------------------------
(* The inductive invariant *)

Covered(h) ==
    \E i \in DOMAIN spans :
      IF passes[h.pass].keep = "apart" THEN Overlap(h, spans[i]) ELSE Within(h, spans[i])

(* Hits and spans come from the passes up to this one. *)
HitsInv ==
    /\ \A h \in hits : h.pass \in 1..pass /\ h.pass <= Len(passes) /\ h.start < h.end
    /\ \A i \in DOMAIN spans :
         \E p \in 1..Len(passes) : p <= pass /\ spans[i].rule = passes[p].rule

(* A scan has covered its hits, and what it reported lies behind its       *)
(* cursor, unless it looks for hits apart from all.                        *)
ScanInv ==
    pass <= Len(passes) /\ This.loop = "scan" =>
      /\ run = None
      /\ \A h \in hits : h.pass = pass => Covered(h)
      /\ This.keep # "apart" =>
           \A i \in DOMAIN spans : spans[i].rule = This.rule => spans[i].end <= cursor

(* The stretch under way holds the hits that no span holds, is made of     *)
(* hits, and lies behind the spans of its pass.                            *)
DensityInv ==
    pass <= Len(passes) /\ This.loop = "density" =>
      /\ run = None =>
           /\ \A h \in hits : h.pass # pass
           /\ \A i \in DOMAIN spans : spans[i].rule # This.rule
      /\ run # None =>
           /\ run[1] <= run[2] /\ run[1] <= cursor /\ run[2] <= cursor + Window
           /\ \A h \in hits : h.pass = pass =>
                Covered(h) \/ (run[1] <= h.start /\ h.end <= run[2])
           /\ \A byte \in run[1]..(run[2] - 1) :
                \E h \in hits : h.pass = pass /\ h.start <= byte /\ byte < h.end
           /\ \A i \in DOMAIN spans : spans[i].rule = This.rule => spans[i].end < run[1]

ExtractorsInv ==
    /\ ExtractorsTypeOK /\ HitsInv /\ ScanInv /\ DensityInv
    /\ Extracted => run = None
    /\ SpansCoverHits
=============================================================================
