------------------------- MODULE MassConservationProofs -------------------------
(***************************************************************************)
(* Proofs about MassConservation and the modules it is composed of, for    *)
(* any artifact size, lengths of hits, findings, predicates, gap and       *)
(* number of clusters listed.                                              *)
(***************************************************************************)
EXTENDS MassConservation, WellFoundedInduction, TLAPS

-----------------------------------------------------------------------------
(* What an extractor finds and what it reports *)

(* A pass that the two loops can run, whatever its rule. *)
Passable(r) ==
  /\ r.loop \in {"scan", "density"}
  /\ r.from \in Nat /\ r.step \in Nat \ {0}
  /\ r.lengths \subseteq Nat \ {0}
  /\ r.loop = "density" => r.keep = "all" /\ r.lengths = {Window}

(* Passes that report under one name are scans for hits apart from all. *)
Partitioned(list) ==
  \A p, q \in 1..Len(list) :
    list[p].rule = list[q].rule /\ p # q =>
      list[p].loop = "scan" /\ list[p].keep = "apart"

LEMMA Sizes ==
  /\ Size \in Nat
  /\ TableSize \in Nat \ {0} /\ WordSize \in Nat \ {0} /\ TableWords \in Nat \ {0}
  /\ Frame \in Nat \ {0} /\ Window \in Nat \ {0} /\ Stride \in Nat \ {0}
  /\ MatchLengths \subseteq Nat \ {0}
<1>1. \A n \in {TableSize, WordSize, TableWords, Frame, Window, Stride} : n \in Nat \ {0}
  BY SizesAssumption
<1>2. 1..Size \subseteq Nat \ {0}
  BY SizesAssumption
<1> QED
  BY <1>1, <1>2, SizesAssumption, LengthsAssumption

LEMMA ScanPassable ==
  ASSUME NEW rule, NEW kind, NEW keep, NEW lengths \in SUBSET (Nat \ {0})
  PROVE  Passable(Scan(rule, kind, keep, lengths))
BY DEF Scan, Passable

LEMMA MatchPassable ==
  ASSUME NEW rule, NEW kind, NEW keep
  PROVE  Passable(Match(rule, kind, keep))
BY ScanPassable, Sizes DEF Match

LEMMA DensityPassable ==
  ASSUME NEW rule, NEW kind
  PROVE  Passable(Density(rule, kind))
BY Sizes DEF Density, Passable

LEMMA WordTablesPassable ==
  ASSUME NEW align \in Nat
  PROVE  /\ Passable(WordTables(align))
         /\ WordTables(align).rule = "constant_words"
         /\ WordTables(align).loop = "scan" /\ WordTables(align).keep = "apart"
<1> DEFINE lengths == {n \in 1..Size : n % WordSize = 0 /\ n >= TableWords * WordSize}
<1>1. lengths \subseteq Nat \ {0}
  BY Sizes
<1> HIDE DEF lengths
<1> QED
  BY <1>1, Sizes DEF WordTables, Scan, Passable, lengths

(* A list followed by another. *)
LEMMA ConcatIs ==
  ASSUME NEW R, NEW a \in Seq(R), NEW b \in Seq(R)
  PROVE  /\ a \o b \in Seq(R) /\ Len(a \o b) = Len(a) + Len(b)
         /\ \A i \in 1..Len(a) : (a \o b)[i] = a[i]
         /\ \A i \in 1..Len(b) : (a \o b)[Len(a) + i] = b[i]
OBVIOUS

(* The tables, at every alignment of a word between the other two scans. *)
LEMMA TablesArePasses ==
  /\ Len(extract_tables) = WordSize + 2
  /\ extract_tables[1] = Scan("bijection_256", "any", "all", {TableSize})
  /\ \A a \in 1..WordSize : extract_tables[a + 1] = WordTables(a - 1)
  /\ extract_tables[WordSize + 2] = Match("source_bijection_256", "source", "all")
<1> DEFINE S == {WordTables(a - 1) : a \in 1..WordSize}
                  \cup {Scan("bijection_256", "any", "all", {TableSize}),
                        Match("source_bijection_256", "source", "all")}
           first == <<Scan("bijection_256", "any", "all", {TableSize})>>
           words == [a \in 1..WordSize |-> WordTables(a - 1)]
           last == <<Match("source_bijection_256", "source", "all")>>
<1>1. WordSize \in Nat
  BY Sizes
<1>2. /\ first \in Seq(S) /\ Len(first) = 1
      /\ first[1] = Scan("bijection_256", "any", "all", {TableSize})
  OBVIOUS
<1>3. /\ last \in Seq(S) /\ Len(last) = 1
      /\ last[1] = Match("source_bijection_256", "source", "all")
  OBVIOUS
<1>4. /\ words \in Seq(S) /\ Len(words) = WordSize
      /\ \A a \in 1..WordSize : words[a] = WordTables(a - 1)
  <2>1. words \in [1..WordSize -> S]
    OBVIOUS
  <2>2. words \in Seq(S) /\ Len(words) = WordSize
    <3> HIDE DEF words, S
    <3> QED
      BY <1>1, <2>1
  <2> QED
    BY <2>2
<1>5. extract_tables = (first \o words) \o last
  BY DEF extract_tables
<1> HIDE DEF S, first, words, last
<1>6. /\ first \o words \in Seq(S) /\ Len(first \o words) = WordSize + 1
      /\ (first \o words)[1] = first[1]
      /\ \A a \in 1..WordSize : (first \o words)[1 + a] = words[a]
  <2>1. 1 \in 1..Len(first) /\ Len(first \o words) = 1 + WordSize
    <3>1. Len(first \o words) = Len(first) + Len(words)
      BY <1>2, <1>4, ConcatIs
    <3> QED
      BY <1>2, <1>4, <3>1
  <2> QED
    BY <1>1, <1>2, <1>4, <2>1, ConcatIs
<1>7. /\ Len(extract_tables) = WordSize + 2
      /\ \A p \in 1..(WordSize + 1) : extract_tables[p] = (first \o words)[p]
      /\ extract_tables[WordSize + 2] = last[1]
  <2>1. 1 \in 1..Len(last) /\ Len(extract_tables) = (WordSize + 1) + 1
    <3>1. Len(extract_tables) = Len(first \o words) + Len(last)
      BY <1>3, <1>5, <1>6, ConcatIs
    <3> QED
      BY <1>3, <1>6, <3>1
  <2>2. extract_tables[(WordSize + 1) + 1] = last[1]
    BY <1>3, <1>5, <1>6, <2>1, ConcatIs
  <2>3. \A p \in 1..(WordSize + 1) : extract_tables[p] = (first \o words)[p]
    BY <1>3, <1>5, <1>6, ConcatIs
  <2>4. (WordSize + 1) + 1 = WordSize + 2
    BY <1>1
  <2> QED
    BY <2>1, <2>2, <2>3, <2>4
<1>8. \A a \in 1..WordSize : 1 + a = a + 1 /\ a + 1 \in 1..(WordSize + 1)
  BY <1>1
<1>9. 1 \in 1..(WordSize + 1)
  BY <1>1
<1> QED
  BY <1>1, <1>2, <1>3, <1>4, <1>6, <1>7, <1>8, <1>9

LEMMA PassesOf ==
  ASSUME NEW list \in extract_all
  PROVE  /\ Len(list) \in Nat \ {0}
         /\ DOMAIN list = 1..Len(list)
         /\ \A p \in 1..Len(list) : Passable(list[p]) /\ list[p].rule \in RuleNames
         /\ Partitioned(list)
<1>1. CASE list = extract_tables
  <2>1. \A p \in 1..Len(list) : p = 1 \/ p = WordSize + 2 \/ p - 1 \in 1..WordSize
    BY <1>1, TablesArePasses, Sizes
  <2>2. extract_tables[1].rule = "bijection_256"
    BY TablesArePasses DEF Scan
  <2>3. extract_tables[WordSize + 2].rule = "source_bijection_256"
    BY TablesArePasses DEF Match, Scan
  <2>4. ASSUME NEW p \in 1..Len(list), p - 1 \in 1..WordSize
        PROVE  /\ Passable(list[p]) /\ list[p].rule = "constant_words"
               /\ list[p].loop = "scan" /\ list[p].keep = "apart"
    <3>1. list[(p - 1) + 1] = WordTables((p - 1) - 1) /\ (p - 1) + 1 = p
      BY <1>1, <2>4, TablesArePasses
    <3>2. (p - 1) - 1 \in Nat
      BY <2>4, Sizes
    <3> QED
      BY <3>1, <3>2, WordTablesPassable
  <2>5. Passable(list[1]) /\ Passable(list[WordSize + 2])
    BY <1>1, TablesArePasses, ScanPassable, MatchPassable, Sizes
  <2>6. Partitioned(list)
    BY <1>1, <2>1, <2>2, <2>3, <2>4 DEF Partitioned
  <2>7. Len(list) \in Nat \ {0} /\ DOMAIN list = 1..Len(list)
    <3>1. Len(list) \in Nat \ {0}
      BY <1>1, TablesArePasses, Sizes
    <3>2. DOMAIN list = 1..Len(list)
      BY <1>1, Sizes DEF extract_tables
    <3> QED
      BY <3>1, <3>2
  <2> QED
    BY <1>1, <2>1, <2>4, <2>5, <2>6, <2>7 DEF RuleNames
<1>2. CASE list = extract_entropy
  <2>1. Len(list) = 1 /\ list[1] = Density("sustained_high", "any")
    BY <1>2 DEF extract_entropy
  <2> QED
    BY <1>2, <2>1, DensityPassable DEF Partitioned, RuleNames, extract_entropy
<1>3. CASE list = extract_arx
  <2>1. /\ Len(list) = 3 /\ DOMAIN list = 1..3
        /\ list[1] = Match("source_rotate_xor", "source", "all")
        /\ list[2] = Match("source_composite", "source", "uncontained")
        /\ list[3] = Density("binary_opcode_density", "binary")
    BY <1>3 DEF extract_arx
  <2>2. /\ list[1].rule = "source_rotate_xor" /\ list[2].rule = "source_composite"
        /\ list[3].rule = "binary_opcode_density"
    BY <2>1 DEF Match, Scan, Density
  <2>3. \A p \in 1..3 : p = 1 \/ p = 2 \/ p = 3
    OBVIOUS
  <2>4. Partitioned(list)
    BY <2>1, <2>2, <2>3 DEF Partitioned
  <2>5. \A p \in 1..3 : Passable(list[p])
    BY <2>1, <2>3, MatchPassable, DensityPassable
  <2> QED
    BY <1>3, <2>1, <2>4, <2>5 DEF RuleNames
<1>4. CASE list = extract_bigint
  <2>1. /\ Len(list) = 2 /\ DOMAIN list = 1..2
        /\ list[1] = Match("modexp_loop", "any", "all")
        /\ list[2] = Match("montgomery_call", "any", "uncontained")
    BY <1>4 DEF extract_bigint
  <2>2. list[1].rule = "modexp_loop" /\ list[2].rule = "montgomery_call"
    BY <2>1 DEF Match, Scan
  <2>3. \A p \in 1..2 : p = 1 \/ p = 2
    OBVIOUS
  <2>4. Partitioned(list)
    BY <2>1, <2>2, <2>3 DEF Partitioned
  <2>5. \A p \in 1..2 : Passable(list[p])
    BY <2>1, <2>3, MatchPassable
  <2> QED
    BY <1>4, <2>1, <2>4, <2>5 DEF RuleNames
<1>5. CASE list = extract_framing
  <2> DEFINE framed == {n \in 1..Size : n >= Frame}
  <2>1. framed \in SUBSET (Nat \ {0})
    BY Sizes
  <2>2. /\ Len(list) = 3 /\ DOMAIN list = 1..3
        /\ list[1] = Match("pem_envelope", "any", "all")
        /\ list[2] = Match("base64_blob", "any", "uncontained")
        /\ list[3] = Scan("asn1_der", "any", "uncontained", framed)
    BY <1>5 DEF extract_framing
  <2> HIDE DEF framed
  <2>3. /\ list[1].rule = "pem_envelope" /\ list[2].rule = "base64_blob"
        /\ list[3].rule = "asn1_der"
    BY <2>2 DEF Match, Scan
  <2>4. \A p \in 1..3 : p = 1 \/ p = 2 \/ p = 3
    OBVIOUS
  <2>5. Partitioned(list)
    BY <2>2, <2>3, <2>4 DEF Partitioned
  <2>6. \A p \in 1..3 : Passable(list[p])
    BY <2>1, <2>2, <2>4, MatchPassable, ScanPassable
  <2> QED
    BY <1>5, <2>2, <2>5, <2>6 DEF RuleNames
<1>6. CASE list = extract_literals
  <2>1. /\ Len(list) = 3 /\ DOMAIN list = 1..3
        /\ list[1] = Match("key_length", "source", "all")
        /\ list[2] = Match("numeric_array", "source", "uncontained")
        /\ list[3] = Match("high_entropy_string", "source", "uncontained")
    BY <1>6 DEF extract_literals
  <2>2. /\ list[1].rule = "key_length" /\ list[2].rule = "numeric_array"
        /\ list[3].rule = "high_entropy_string"
    BY <2>1 DEF Match, Scan
  <2>3. \A p \in 1..3 : p = 1 \/ p = 2 \/ p = 3
    OBVIOUS
  <2>4. Partitioned(list)
    BY <2>1, <2>2, <2>3 DEF Partitioned
  <2>5. \A p \in 1..3 : Passable(list[p])
    BY <2>1, <2>3, MatchPassable
  <2> QED
    BY <1>6, <2>1, <2>4, <2>5 DEF RuleNames
<1> QED
  BY <1>1, <1>2, <1>3, <1>4, <1>5, <1>6 DEF extract_all

(* The parts of the invariant as operators on the values of the variables. *)
CoveredIn(list, held, h) ==
  \E i \in DOMAIN held :
    IF list[h.pass].keep = "apart" THEN Overlap(h, held[i]) ELSE Within(h, held[i])

MadeOf(list, held, found) ==
  \A i \in DOMAIN held : \A byte \in held[i].start..(held[i].end - 1) :
    \E h \in found : /\ list[h.pass].rule = held[i].rule
                     /\ h.start <= byte /\ byte < h.end

Measured(list, rule) ==
  list[CHOOSE p \in {q \in 1..Len(list) : list[q].rule = rule} : TRUE].loop = "density"

Behind(list, s, t) ==
  ~Overlap(s, t) /\ (Measured(list, s.rule) => s.end < t.start)

InTurn(list, held) ==
  \A i, j \in DOMAIN held :
    i < j /\ held[i].rule = held[j].rule => Behind(list, held[i], held[j])

LEMMA PartsOfCover ==
  /\ SpansAreHits <=> MadeOf(passes, spans, hits) /\ InTurn(passes, spans)
  /\ SpansAreHits' <=> MadeOf(passes', spans', hits') /\ InTurn(passes', spans')
  /\ EveryHitCovered <=> \A h \in hits : h.pass < pass => CoveredIn(passes, spans, h)
  /\ EveryHitCovered' <=> \A h \in hits' : h.pass < pass' => CoveredIn(passes', spans', h)
  /\ \A h : Covered(h) <=> CoveredIn(passes, spans, h)
  /\ \A h : Covered(h)' <=> CoveredIn(passes', spans', h)
<1>1. /\ SpansAreHits <=> MadeOf(passes, spans, hits) /\ InTurn(passes, spans)
      /\ SpansAreHits' <=> MadeOf(passes', spans', hits') /\ InTurn(passes', spans')
  BY DEF SpansAreHits, MadeOf, InTurn, Behind, Measured, Pass, RuleOf
<1> QED
  BY <1>1 DEF EveryHitCovered, CoveredIn, Covered

(* What a pass reports. *)
LEMMA ReportIs ==
  ASSUME NEW a \in 0..Size, NEW b \in 0..Size, NEW r \in RuleNames
  PROVE  LET s == [Found(a, b) EXCEPT !.rule = r] IN
         s \in Span /\ s.rule = r /\ s.start = a /\ s.end = b
BY DEF Found, Span

LEMMA AppendMember ==
  ASSUME NEW S, NEW list \in Seq(S), NEW s \in S
  PROVE  /\ Append(list, s) \in Seq(S)
         /\ DOMAIN Append(list, s) = 1..(Len(list) + 1)
         /\ DOMAIN list = 1..Len(list) /\ Len(list) \in Nat
         /\ \A i \in 1..Len(list) : Append(list, s)[i] = list[i]
         /\ Append(list, s)[Len(list) + 1] = s
OBVIOUS

LEMMA SpanPlaces ==
  ASSUME NEW held \in Seq(Span), NEW i \in DOMAIN held
  PROVE  held[i] \in Span /\ held[i].start \in 0..Size /\ held[i].end \in 0..Size
         /\ held[i].start \in Nat /\ held[i].end \in Nat
<1>1. held[i] \in Span
  OBVIOUS
<1> QED
  BY <1>1, SizesAssumption DEF Span

(* What is covered stays covered. *)
LEMMA CoverGrows ==
  ASSUME NEW list, NEW held \in Seq(Span), NEW s \in Span, NEW h, CoveredIn(list, held, h)
  PROVE  CoveredIn(list, Append(held, s), h)
<1>1. PICK i \in DOMAIN held :
        IF list[h.pass].keep = "apart" THEN Overlap(h, held[i]) ELSE Within(h, held[i])
  BY DEF CoveredIn
<1>2. i \in DOMAIN Append(held, s) /\ Append(held, s)[i] = held[i]
  BY AppendMember
<1> QED
  BY <1>1, <1>2 DEF CoveredIn

(* A span that is made of hits and lies behind those of its rule may be    *)
(* reported.                                                               *)
LEMMA ReportSound ==
  ASSUME NEW list, NEW held \in Seq(Span), NEW s \in Span, NEW old, NEW new,
         MadeOf(list, held, old), InTurn(list, held), old \subseteq new,
         \A byte \in s.start..(s.end - 1) :
           \E h \in new : /\ list[h.pass].rule = s.rule
                          /\ h.start <= byte /\ byte < h.end,
         \A i \in DOMAIN held : held[i].rule = s.rule => Behind(list, held[i], s)
  PROVE  MadeOf(list, Append(held, s), new) /\ InTurn(list, Append(held, s))
<1> DEFINE more == Append(held, s)
<1>1. /\ DOMAIN more = 1..(Len(held) + 1) /\ DOMAIN held = 1..Len(held)
      /\ \A i \in 1..Len(held) : more[i] = held[i]
      /\ more[Len(held) + 1] = s
      /\ Len(held) \in Nat
  BY AppendMember
<1> HIDE DEF more
<1>2. ASSUME NEW i \in DOMAIN more
      PROVE  \/ i \in DOMAIN held /\ more[i] = held[i]
             \/ i = Len(held) + 1 /\ more[i] = s
  <2>1. i \in 1..Len(held) \/ i = Len(held) + 1
    BY <1>1
  <2> QED
    BY <1>1, <2>1
<1>3. MadeOf(list, more, new)
  BY <1>2 DEF MadeOf
<1>4. ASSUME NEW i \in DOMAIN more, NEW j \in DOMAIN more, i < j, more[i].rule = more[j].rule
      PROVE  Behind(list, more[i], more[j])
  <2>1. i \in DOMAIN held /\ more[i] = held[i]
    BY <1>1, <1>4
  <2>2. CASE j \in DOMAIN held /\ more[j] = held[j]
    BY <1>4, <2>1, <2>2 DEF InTurn
  <2>3. CASE j = Len(held) + 1 /\ more[j] = s
    BY <1>4, <2>1, <2>3
  <2> QED
    BY <1>2, <2>2, <2>3
<1> QED
  BY <1>3, <1>4 DEF InTurn, more

LEMMA MoreHits ==
  ASSUME NEW list, NEW held, NEW old, NEW new, MadeOf(list, held, old), old \subseteq new
  PROVE  MadeOf(list, held, new)
BY DEF MadeOf

(* The rule of a pass that measures windows, or of a scan. *)
LEMMA MeasuredIs ==
  ASSUME NEW list \in extract_all, NEW p \in 1..Len(list)
  PROVE  Measured(list, list[p].rule) <=> list[p].loop = "density"
<1> DEFINE Named == {q \in 1..Len(list) : list[q].rule = list[p].rule}
           q1 == CHOOSE q \in Named : TRUE
<1>1. p \in Named
  OBVIOUS
<1>2. q1 \in Named
  BY <1>1
<1>3. list[q1].loop = list[p].loop
  <2>1. q1 \in 1..Len(list) /\ list[q1].rule = list[p].rule
    BY <1>2
  <2>2. Partitioned(list)
    BY PassesOf
  <2> HIDE DEF q1
  <2> QED
    BY <2>1, <2>2 DEF Partitioned
<1> QED
  BY <1>3 DEF Measured

(* The pass at work. *)
LEMMA ThisPass ==
  ASSUME ExtractorsInv, pass <= Len(passes)
  PROVE  /\ pass \in 1..Len(passes) /\ passes \in extract_all
         /\ Passable(This) /\ This.rule \in RuleNames
         /\ Measured(passes, This.rule) <=> This.loop = "density"
         /\ spans \in Seq(Span) /\ cursor \in Nat /\ hits \subseteq Hit
<1>1. ExtractorsTypeOK
  BY DEF ExtractorsInv
<1>2. passes \in extract_all /\ pass \in 1..(Len(passes) + 1) /\ Len(passes) \in Nat
  BY <1>1, PassesOf DEF ExtractorsTypeOK
<1>3. pass \in 1..Len(passes)
  BY <1>2
<1> QED
  BY <1>1, <1>2, <1>3, PassesOf, MeasuredIs DEF This, ExtractorsTypeOK

(* The next pass of an extractor. *)
LEMMA PassStart ==
  ASSUME NEW p \in 1..Len(passes), passes \in extract_all
  PROVE  passes[p].from \in Nat
BY PassesOf DEF Passable

LEMMA ExtractorsStart == ExtractorsInit => ExtractorsInv
<1> SUFFICES ASSUME ExtractorsInit
             PROVE  ExtractorsInv
  OBVIOUS
<1>1. Len(passes) \in Nat \ {0} /\ passes \in extract_all
  BY PassesOf DEF ExtractorsInit
<1>2. ExtractorsTypeOK
  BY <1>1, PassStart DEF ExtractorsInit, ExtractorsTypeOK
<1>3. SpansCoverHits
  BY DEF ExtractorsInit, SpansCoverHits, EveryHitCovered, SpansAreHits
<1>4. HitsInv /\ ScanInv /\ DensityInv
  BY DEF ExtractorsInit, HitsInv, ScanInv, DensityInv
<1> QED
  BY <1>1, <1>2, <1>3, <1>4 DEF ExtractorsInit, ExtractorsInv, Extracted

(* Nothing, or no valid match, at the cursor. *)
LEMMA MissStep ==
  ASSUME ExtractorsInv, Miss
  PROVE  ExtractorsInv'
<1>0. pass <= Len(passes)
  BY DEF Miss, Runs
<1>1. /\ cursor' = cursor + This.step /\ This.step \in Nat \ {0}
      /\ UNCHANGED <<passes, source, pass, run, spans, hits>>
  BY <1>0, ThisPass DEF Miss, Passable
<1>2. cursor \in Nat /\ cursor' \in Nat /\ cursor <= cursor'
  BY <1>0, <1>1, ThisPass
<1>3. ExtractorsTypeOK' /\ HitsInv' /\ SpansCoverHits' /\ (Extracted => run = None)'
  <2>1. ExtractorsTypeOK'
    BY <1>1, <1>2 DEF ExtractorsInv, ExtractorsTypeOK
  <2>2. HitsInv' /\ (Extracted => run = None)'
    BY <1>1 DEF ExtractorsInv, HitsInv, Extracted
  <2>3. SpansCoverHits'
    BY <1>1, PartsOfCover DEF ExtractorsInv, SpansCoverHits
  <2> QED
    BY <2>1, <2>2, <2>3
<1>4. ScanInv'
  <2>1. \A i \in DOMAIN spans : spans[i].end \in Nat
    BY <1>0, ThisPass, SpanPlaces
  <2> QED
    BY <1>0, <1>1, <1>2, <2>1 DEF ExtractorsInv, ScanInv, This, Covered
<1>5. DensityInv'
  <2>1. run # None => run[2] \in Nat
    BY SizesAssumption DEF ExtractorsInv, ExtractorsTypeOK
  <2>2. run # None /\ run[2] <= cursor + Window => run[2] <= cursor' + Window
    BY <1>2, <2>1, Sizes
  <2>3. run # None /\ run[1] <= cursor => run[1] <= cursor'
    <3>1. run # None => run[1] \in Nat
      BY SizesAssumption DEF ExtractorsInv, ExtractorsTypeOK
    <3> QED
      BY <1>2, <3>1
  <2> QED
    BY <1>0, <1>1, <2>2, <2>3 DEF ExtractorsInv, DensityInv, This, Covered
<1> QED
  BY <1>3, <1>4, <1>5 DEF ExtractorsInv

(* A hit of a scan, reported or not. *)
LEMMA StrikeStep ==
  ASSUME ExtractorsInv, Strike
  PROVE  ExtractorsInv'
<1>0. pass <= Len(passes) /\ This.loop = "scan"
  BY DEF Strike, Runs
<1>t. /\ pass \in 1..Len(passes) /\ passes \in extract_all
      /\ Passable(This) /\ This.rule \in RuleNames
      /\ ~Measured(passes, This.rule)
      /\ spans \in Seq(Span) /\ cursor \in Nat /\ hits \subseteq Hit
  BY <1>0, ThisPass
<1>1. PICK n \in This.lengths :
        LET found == Found(cursor, cursor + n)
        IN  /\ cursor + n <= Size
            /\ cursor' = cursor + n
            /\ Record(found)
            /\ IF Keeps(This.keep, found) THEN Report(found) ELSE UNCHANGED spans
  BY DEF Strike
<1> DEFINE found == Found(cursor, cursor + n)
           h == [pass |-> pass, start |-> cursor, end |-> cursor + n]
           s == [found EXCEPT !.rule = This.rule]
<1>2. UNCHANGED <<passes, source, pass, run>>
  BY DEF Strike
<1>n. /\ n \in Nat \ {0} /\ cursor \in 0..Size /\ cursor + n \in 0..Size
      /\ cursor < cursor + n /\ cursor' = cursor + n
  BY <1>t, <1>1, Sizes DEF Passable
<1>3. /\ s \in Span /\ s.rule = This.rule /\ s.start = cursor /\ s.end = cursor + n
  BY <1>t, <1>n, ReportIs
<1>4. /\ found.start = cursor /\ found.end = cursor + n
      /\ h.pass = pass /\ h.start = cursor /\ h.end = cursor + n /\ h \in Hit
  BY <1>t, <1>n, PassesOf DEF Found, Hit
<1>5. hits' = hits \cup {h}
  BY <1>1, <1>4 DEF Record
<1>6. \/ Keeps(This.keep, found) /\ spans' = Append(spans, s)
      \/ ~Keeps(This.keep, found) /\ spans' = spans
  BY <1>1 DEF Report
<1>l. /\ DOMAIN Append(spans, s) = 1..(Len(spans) + 1)
      /\ DOMAIN spans = 1..Len(spans) /\ Len(spans) \in Nat
      /\ \A i \in 1..Len(spans) : Append(spans, s)[i] = spans[i]
      /\ Append(spans, s)[Len(spans) + 1] = s
      /\ Append(spans, s) \in Seq(Span)
  BY <1>t, <1>3, AppendMember
<1>e. \A i \in DOMAIN spans : spans[i].end \in Nat /\ spans[i].start \in Nat
  BY <1>t, SpanPlaces
<1>i. /\ ExtractorsTypeOK /\ HitsInv
      /\ run = None
      /\ \A x \in hits : x.pass = pass => CoveredIn(passes, spans, x)
      /\ This.keep # "apart" =>
           \A i \in DOMAIN spans : spans[i].rule = This.rule => spans[i].end <= cursor
      /\ MadeOf(passes, spans, hits) /\ InTurn(passes, spans)
      /\ \A x \in hits : x.pass < pass => CoveredIn(passes, spans, x)
  BY <1>0, PartsOfCover DEF ExtractorsInv, ScanInv, SpansCoverHits
<1> HIDE DEF found, h, s
<1>7. ExtractorsTypeOK'
  BY <1>2, <1>n, <1>3, <1>4, <1>5, <1>6, <1>i, <1>l DEF ExtractorsTypeOK
<1>8. HitsInv'
  <2>1. \A x \in hits' : x.pass \in 1..pass /\ x.pass <= Len(passes) /\ x.start < x.end
    <3>1. h.pass \in 1..pass /\ h.pass <= Len(passes) /\ h.start < h.end
      BY <1>0, <1>t, <1>n, <1>4, PassesOf
    <3> QED
      BY <1>5, <1>i, <3>1 DEF HitsInv
  <2>2. \A i \in DOMAIN spans' :
          \E p \in 1..Len(passes) : p <= pass /\ spans'[i].rule = passes[p].rule
    <3>1. CASE spans' = Append(spans, s)
      <4>1. pass <= pass /\ s.rule = passes[pass].rule
        BY <1>t, <1>3, PassesOf DEF This
      <4>2. \A i \in DOMAIN spans' : \/ i \in DOMAIN spans /\ spans'[i] = spans[i]
                                     \/ spans'[i] = s
        BY <1>l, <3>1
      <4> QED
        BY <1>t, <1>i, <4>1, <4>2 DEF HitsInv
    <3>2. CASE spans' = spans
      BY <1>i, <3>2 DEF HitsInv
    <3> QED
      BY <1>6, <3>1, <3>2
  <2> QED
    BY <1>2, <2>1, <2>2 DEF HitsInv
<1>9. \A x \in hits : CoveredIn(passes, spans, x) => CoveredIn(passes, spans', x)
  BY <1>t, <1>3, <1>6, CoverGrows
<1>10. CoveredIn(passes, spans', h)
  <2>1. CASE spans' = Append(spans, s)
    <3>1. Within(h, s) /\ Overlap(h, s)
      BY <1>n, <1>3, <1>4 DEF Within, Overlap
    <3> QED
      BY <1>l, <2>1, <3>1 DEF CoveredIn
  <2>2. CASE ~Keeps(This.keep, found) /\ spans' = spans
    <3>1. PICK i \in DOMAIN spans : \/ This.keep = "uncontained" /\ Within(found, spans[i])
                                    \/ This.keep = "apart" /\ Overlap(found, spans[i])
      BY <2>2 DEF Keeps
    <3>2. passes[h.pass].keep = This.keep
      BY <1>4 DEF This
    <3>3. /\ Within(h, spans[i]) <=> Within(found, spans[i])
          /\ Overlap(h, spans[i]) <=> Overlap(found, spans[i])
      BY <1>4 DEF Within, Overlap
    <3> QED
      BY <2>2, <3>1, <3>2, <3>3 DEF CoveredIn
  <2> QED
    BY <1>6, <2>1, <2>2
<1>11. ScanInv'
  <2>1. \A x \in hits' : x.pass = pass => CoveredIn(passes, spans', x)
    BY <1>5, <1>9, <1>10, <1>i
  <2>2. This.keep # "apart" =>
          \A i \in DOMAIN spans' : spans'[i].rule = This.rule => spans'[i].end <= cursor'
    <3>1. \A i \in DOMAIN spans' : \/ i \in DOMAIN spans /\ spans'[i] = spans[i]
                                   \/ spans'[i] = s
      BY <1>6, <1>l
    <3>2. s.end <= cursor'
      BY <1>n, <1>3
    <3>3. \A e \in Nat : e <= cursor => e <= cursor'
      BY <1>n
    <3> QED
      BY <1>e, <1>i, <3>1, <3>2, <3>3
  <2> QED
    BY <1>0, <1>2, <1>i, <2>1, <2>2, PartsOfCover DEF ScanInv, This
<1>12. DensityInv' /\ (Extracted => run = None)'
  BY <1>0, <1>2, <1>i DEF DensityInv, This
<1>13. SpansCoverHits'
  <2>1. \A x \in hits' : x.pass < pass => CoveredIn(passes, spans', x)
    BY <1>5, <1>9, <1>10, <1>i
  <2>2. MadeOf(passes, spans', hits') /\ InTurn(passes, spans')
    <3>1. CASE Keeps(This.keep, found) /\ spans' = Append(spans, s)
      <4>1. \A byte \in s.start..(s.end - 1) :
              \E x \in hits' : /\ passes[x.pass].rule = s.rule
                               /\ x.start <= byte /\ byte < x.end
        <5>1. passes[h.pass].rule = s.rule /\ h \in hits'
          BY <1>3, <1>4, <1>5 DEF This
        <5>2. \A byte \in s.start..(s.end - 1) : h.start <= byte /\ byte < h.end
          BY <1>n, <1>3, <1>4
        <5> QED
          BY <5>1, <5>2
      <4>2. ASSUME NEW i \in DOMAIN spans, spans[i].rule = s.rule
            PROVE  Behind(passes, spans[i], s)
        <5>1. ~Overlap(spans[i], s)
          <6>1. CASE This.keep = "apart"
            <7>1. ~Overlap(found, spans[i])
              BY <3>1, <6>1 DEF Keeps
            <7> QED
              BY <1>3, <1>4, <7>1 DEF Overlap
          <6>2. CASE This.keep # "apart"
            <7>1. spans[i].end <= cursor
              BY <1>3, <1>i, <4>2, <6>2
            <7> QED
              BY <1>e, <1>n, <1>3, <7>1 DEF Overlap
          <6> QED
            BY <6>1, <6>2
        <5> QED
          BY <1>t, <1>3, <4>2, <5>1 DEF Behind
      <4> QED
        BY <1>t, <1>3, <1>5, <1>i, <3>1, <4>1, <4>2, ReportSound
    <3>2. CASE spans' = spans
      BY <1>5, <1>i, <3>2, MoreHits
    <3> QED
      BY <1>6, <3>1, <3>2
  <2> QED
    BY <1>2, <2>1, <2>2, PartsOfCover DEF SpansCoverHits
<1> QED
  BY <1>7, <1>8, <1>11, <1>12, <1>13 DEF ExtractorsInv

(* A dense window joins the stretch under way, or begins another one.      *)
LEMMA DenseStep ==
  ASSUME ExtractorsInv, Dense
  PROVE  ExtractorsInv'
<1>0. pass <= Len(passes) /\ This.loop = "density"
  BY DEF Dense, Runs
<1>t. /\ pass \in 1..Len(passes) /\ passes \in extract_all
      /\ Passable(This) /\ This.rule \in RuleNames
      /\ Measured(passes, This.rule)
      /\ spans \in Seq(Span) /\ cursor \in Nat /\ hits \subseteq Hit
  BY <1>0, ThisPass
<1>k. This.keep = "all" /\ This.lengths = {Window} /\ This.step \in Nat \ {0}
  BY <1>0, <1>t DEF Passable
<1> DEFINE h == [pass |-> pass, start |-> cursor, end |-> cursor + Window]
           s == [Found(run[1], run[2]) EXCEPT !.rule = This.rule]
<1>w. /\ Found(cursor, cursor + Window).start = cursor
      /\ Found(cursor, cursor + Window).end = cursor + Window
  BY DEF Found
<1>1. /\ UNCHANGED <<passes, source, pass>>
      /\ hits' = hits \cup {h}
      /\ cursor' = cursor + This.step
      /\ \/ Joins(cursor) /\ run' = <<run[1], cursor + Window>> /\ spans' = spans
         \/ /\ ~Joins(cursor) /\ run' = <<cursor, cursor + Window>>
            /\ \/ run = None /\ spans' = spans
               \/ run # None /\ spans' = Append(spans, s)
  BY <1>w DEF Dense, Record, Report
<1>n. /\ Window \in Nat \ {0} /\ cursor \in 0..Size /\ cursor + Window \in 0..Size
      /\ cursor < cursor + Window /\ cursor' \in Nat
      /\ cursor + Window <= cursor' + Window
  <2>1. cursor + Window <= Size
    BY <1>k DEF Dense, Left
  <2>2. Window \in Nat \ {0} /\ Size \in Nat
    BY Sizes
  <2>3. cursor \in 0..Size /\ cursor + Window \in 0..Size /\ cursor < cursor + Window
    BY <1>t, <2>1, <2>2
  <2>4. cursor' \in Nat /\ cursor + Window <= cursor' + Window
    BY <1>t, <1>k, <1>1, <2>2
  <2> QED
    BY <2>2, <2>3, <2>4
<1>4. h.pass = pass /\ h.start = cursor /\ h.end = cursor + Window /\ h \in Hit
  BY <1>t, <1>n, PassesOf DEF Hit
<1>i. /\ ExtractorsTypeOK /\ HitsInv
      /\ MadeOf(passes, spans, hits) /\ InTurn(passes, spans)
      /\ \A x \in hits : x.pass < pass => CoveredIn(passes, spans, x)
  BY PartsOfCover DEF ExtractorsInv, SpansCoverHits
<1>d. /\ run = None =>
           /\ \A x \in hits : x.pass # pass
           /\ \A i \in DOMAIN spans : spans[i].rule # This.rule
      /\ run # None =>
           /\ run[1] <= run[2] /\ run[1] <= cursor /\ run[2] <= cursor + Window
           /\ \A x \in hits : x.pass = pass =>
                CoveredIn(passes, spans, x) \/ (run[1] <= x.start /\ x.end <= run[2])
           /\ \A byte \in run[1]..(run[2] - 1) :
                \E x \in hits : x.pass = pass /\ x.start <= byte /\ byte < x.end
           /\ \A i \in DOMAIN spans : spans[i].rule = This.rule => spans[i].end < run[1]
  BY <1>0, PartsOfCover DEF ExtractorsInv, DensityInv
<1>r. run # None => run[1] \in 0..Size /\ run[2] \in 0..Size /\ run[1] \in Nat /\ run[2] \in Nat
  BY <1>i, SizesAssumption DEF ExtractorsTypeOK
<1>3. run # None => s \in Span /\ s.rule = This.rule /\ s.start = run[1] /\ s.end = run[2]
  BY <1>t, <1>r, ReportIs
<1>e. \A i \in DOMAIN spans : spans[i].end \in Nat /\ spans[i].start \in Nat
  BY <1>t, SpanPlaces
<1>x. \A x \in hits' : x.start \in Nat /\ x.end \in Nat
  BY <1>1, <1>4, <1>t, SizesAssumption DEF Hit
<1> HIDE DEF h, s
<1>l. run # None =>
      /\ DOMAIN Append(spans, s) = 1..(Len(spans) + 1)
      /\ DOMAIN spans = 1..Len(spans) /\ Len(spans) \in Nat
      /\ \A i \in 1..Len(spans) : Append(spans, s)[i] = spans[i]
      /\ Append(spans, s)[Len(spans) + 1] = s
      /\ Append(spans, s) \in Seq(Span)
  BY <1>t, <1>3, AppendMember
<1>m. /\ run' # None /\ run'[2] = cursor + Window
      /\ run' \in (0..Size) \X (0..Size)
      /\ run'[1] = IF Joins(cursor) THEN run[1] ELSE cursor
  <2>1. \A a, b \in 0..Size : <<a, b>> \in Nat \X Nat /\ <<a, b>> # None
    BY SizesAssumption, NoRunIsNone
  <2>2. Joins(cursor) => run[1] \in 0..Size
    BY <1>r DEF Joins
  <2> QED
    BY <1>1, <1>n, <2>1, <2>2
<1>9. /\ spans' \in Seq(Span)
      /\ \A x \in hits : CoveredIn(passes, spans, x) => CoveredIn(passes, spans', x)
      /\ \A i \in DOMAIN spans' : \/ i \in DOMAIN spans /\ spans'[i] = spans[i]
                                  \/ ~Joins(cursor) /\ run # None /\ spans'[i] = s
  <2>1. CASE run # None /\ spans' = Append(spans, s) /\ ~Joins(cursor)
    <3>1. \A x \in hits : CoveredIn(passes, spans, x) => CoveredIn(passes, spans', x)
      BY <1>t, <1>3, <2>1, CoverGrows
    <3>2. ASSUME NEW i \in DOMAIN spans'
          PROVE  \/ i \in DOMAIN spans /\ spans'[i] = spans[i]
                 \/ spans'[i] = s
      <4>1. i \in 1..Len(spans) \/ i = Len(spans) + 1
        BY <1>l, <2>1
      <4> QED
        BY <1>l, <2>1, <4>1
    <3> QED
      BY <1>l, <2>1, <3>1, <3>2
  <2>2. CASE spans' = spans
    BY <1>t, <2>2
  <2> QED
    BY <1>1, <2>1, <2>2
<1>7. ExtractorsTypeOK'
  BY <1>1, <1>n, <1>4, <1>9, <1>m, <1>i DEF ExtractorsTypeOK
<1>8. HitsInv'
  <2>1. \A x \in hits' : x.pass \in 1..pass /\ x.pass <= Len(passes) /\ x.start < x.end
    <3>1. h.pass \in 1..pass /\ h.pass <= Len(passes) /\ h.start < h.end
      BY <1>0, <1>t, <1>n, <1>4, PassesOf
    <3> QED
      BY <1>1, <1>i, <3>1 DEF HitsInv
  <2>2. \A i \in DOMAIN spans' :
          \E p \in 1..Len(passes) : p <= pass /\ spans'[i].rule = passes[p].rule
    <3>1. run # None => pass <= pass /\ s.rule = passes[pass].rule
      BY <1>t, <1>3, PassesOf DEF This
    <3> QED
      BY <1>t, <1>9, <1>i, <3>1 DEF HitsInv
  <2> QED
    BY <1>1, <2>1, <2>2 DEF HitsInv
<1>11. ScanInv' /\ (Extracted => run = None)'
  <2>1. pass' = pass /\ This'.loop = "density" /\ ~Extracted'
    BY <1>0, <1>1, <1>t, PassesOf DEF This, Extracted
  <2> QED
    BY <2>1 DEF ScanInv
<1>12. DensityInv'
  <2>1. run'[1] <= run'[2] /\ run'[1] <= cursor' /\ run'[2] <= cursor' + Window
    <3>1. run'[1] \in Nat /\ run'[1] <= cursor /\ cursor <= cursor'
      <4>1. CASE Joins(cursor)
        BY <1>1, <1>d, <1>k, <1>m, <1>r, <1>t, <4>1 DEF Joins
      <4>2. CASE ~Joins(cursor)
        BY <1>1, <1>k, <1>m, <1>t, <4>2
      <4> QED
        BY <4>1, <4>2
    <3>2. run'[1] <= cursor'
      BY <1>n, <1>t, <3>1
    <3>3. run'[1] <= run'[2]
      BY <1>m, <1>n, <1>t, <3>1
    <3> QED
      BY <1>m, <1>n, <3>2, <3>3
  <2>2. ASSUME NEW x \in hits', x.pass = pass
        PROVE  CoveredIn(passes, spans', x) \/ (run'[1] <= x.start /\ x.end <= run'[2])
    <3>1. CASE x = h
      <4>1. run'[1] <= cursor
        <5>1. CASE Joins(cursor)
          BY <1>d, <1>m, <5>1 DEF Joins
        <5>2. CASE ~Joins(cursor)
          BY <1>m, <1>t, <5>2
        <5> QED
          BY <5>1, <5>2
      <4> QED
        BY <1>4, <1>m, <1>n, <3>1, <4>1
    <3>2. CASE x \in hits
      <4>1. run # None
        BY <1>d, <2>2, <3>2
      <4>2. CASE CoveredIn(passes, spans, x)
        BY <1>9, <3>2, <4>2
      <4>3. CASE run[1] <= x.start /\ x.end <= run[2]
        <5>1. CASE Joins(cursor)
          BY <1>d, <1>m, <1>n, <1>r, <1>x, <4>1, <4>3, <5>1
        <5>2. CASE ~Joins(cursor)
          <6>1. spans' = Append(spans, s)
            BY <1>1, <4>1, <5>2
          <6>2. Within(x, s) /\ passes[x.pass].keep # "apart"
            BY <1>3, <1>k, <2>2, <4>1, <4>3 DEF Within, This
          <6> QED
            BY <1>l, <4>1, <6>1, <6>2 DEF CoveredIn
        <5> QED
          BY <5>1, <5>2
      <4> QED
        BY <1>d, <2>2, <3>2, <4>1, <4>2, <4>3
    <3> QED
      BY <1>1, <3>1, <3>2
  <2>3. ASSUME NEW byte \in run'[1]..(run'[2] - 1)
        PROVE  \E x \in hits' : x.pass = pass /\ x.start <= byte /\ byte < x.end
    <3>1. byte \in Int /\ run'[1] <= byte /\ byte < cursor + Window
      BY <1>m, <1>n, <1>r DEF Joins
    <3>2. CASE cursor <= byte
      BY <1>1, <1>4, <3>1, <3>2
    <3>3. CASE byte < cursor
      <4>1. Joins(cursor) /\ run'[1] = run[1]
        BY <1>m, <1>t, <3>1, <3>3
      <4>2. byte \in run[1]..(run[2] - 1)
        BY <1>r, <1>t, <3>1, <3>3, <4>1 DEF Joins
      <4> QED
        BY <1>1, <1>d, <4>1, <4>2 DEF Joins
    <3> QED
      BY <1>t, <3>1, <3>2, <3>3
  <2>4. ASSUME NEW i \in DOMAIN spans', spans'[i].rule = This.rule
        PROVE  spans'[i].end < run'[1]
    <3>1. CASE Joins(cursor)
      BY <1>9, <1>d, <1>m, <2>4, <3>1 DEF Joins
    <3>2. CASE ~Joins(cursor)
      <4>1. run # None => cursor > run[2]
        BY <1>r, <1>t, <3>2 DEF Joins
      <4>2. CASE i \in DOMAIN spans /\ spans'[i] = spans[i]
        <5>1. run # None /\ spans[i].end < run[1]
          BY <1>d, <2>4, <4>2
        <5>2. run[1] <= run[2]
          BY <1>0, <1>r, <5>1 DEF ExtractorsInv, DensityInv
        <5> QED
          BY <1>e, <1>m, <1>r, <1>t, <3>2, <4>1, <4>2, <5>1, <5>2
      <4>3. CASE run # None /\ spans'[i] = s
        BY <1>3, <1>m, <1>r, <1>t, <3>2, <4>1, <4>3
      <4> QED
        BY <1>9, <4>2, <4>3
    <3> QED
      BY <3>1, <3>2
  <2> QED
    BY <1>0, <1>1, <1>m, <2>1, <2>2, <2>3, <2>4, PartsOfCover DEF DensityInv, This
<1>13. SpansCoverHits'
  <2>1. \A x \in hits' : x.pass < pass => CoveredIn(passes, spans', x)
    BY <1>1, <1>4, <1>9, <1>i, <1>t, PassesOf
  <2>2. MadeOf(passes, spans', hits') /\ InTurn(passes, spans')
    <3>1. CASE run # None /\ spans' = Append(spans, s)
      <4>1. \A byte \in s.start..(s.end - 1) :
              \E x \in hits' : /\ passes[x.pass].rule = s.rule
                               /\ x.start <= byte /\ byte < x.end
        BY <1>1, <1>3, <1>d, <3>1 DEF This
      <4>2. ASSUME NEW i \in DOMAIN spans, spans[i].rule = s.rule
            PROVE  Behind(passes, spans[i], s)
        <5>1. spans[i].end < s.start
          BY <1>3, <1>d, <3>1, <4>2
        <5> QED
          BY <1>3, <1>e, <1>r, <3>1, <5>1 DEF Behind, Overlap
      <4> QED
        BY <1>t, <1>3, <1>1, <1>i, <3>1, <4>1, <4>2, ReportSound
    <3>2. CASE spans' = spans
      BY <1>1, <1>i, <3>2, MoreHits
    <3> QED
      BY <1>1, <3>1, <3>2
  <2> QED
    BY <1>1, <2>1, <2>2, PartsOfCover DEF SpansCoverHits
<1> QED
  BY <1>7, <1>8, <1>11, <1>12, <1>13 DEF ExtractorsInv

(* The stretch under way is reported at the end of its pass. *)
LEMMA EndStep ==
  ASSUME ExtractorsInv, EndOfPass
  PROVE  ExtractorsInv'
<1>0. pass <= Len(passes)
  BY DEF EndOfPass
<1>t. /\ pass \in 1..Len(passes) /\ passes \in extract_all
      /\ Passable(This) /\ This.rule \in RuleNames
      /\ Measured(passes, This.rule) <=> This.loop = "density"
      /\ spans \in Seq(Span) /\ cursor \in Nat /\ hits \subseteq Hit
  BY <1>0, ThisPass
<1> DEFINE s == [Found(run[1], run[2]) EXCEPT !.rule = This.rule]
<1>1. /\ UNCHANGED <<passes, source, hits>> /\ run' = None /\ pass' = pass + 1
      /\ cursor' = IF pass < Len(passes) THEN passes[pass + 1].from ELSE 0
      /\ \/ run = None /\ spans' = spans
         \/ run # None /\ spans' = Append(spans, s)
  BY DEF EndOfPass, Report
<1>n. Len(passes) \in Nat /\ pass \in Nat /\ pass' \in 1..(Len(passes) + 1)
  BY <1>t, <1>1, PassesOf
<1>i. /\ ExtractorsTypeOK /\ HitsInv
      /\ MadeOf(passes, spans, hits) /\ InTurn(passes, spans)
      /\ \A x \in hits : x.pass < pass => CoveredIn(passes, spans, x)
  BY PartsOfCover DEF ExtractorsInv, SpansCoverHits
<1>s. run # None => This.loop = "density"
  BY <1>0, <1>t DEF ExtractorsInv, ScanInv, Passable
<1>d. /\ run # None =>
           /\ \A x \in hits : x.pass = pass =>
                CoveredIn(passes, spans, x) \/ (run[1] <= x.start /\ x.end <= run[2])
           /\ \A byte \in run[1]..(run[2] - 1) :
                \E x \in hits : x.pass = pass /\ x.start <= byte /\ byte < x.end
           /\ \A i \in DOMAIN spans : spans[i].rule = This.rule => spans[i].end < run[1]
      /\ run = None => \A x \in hits : x.pass = pass => CoveredIn(passes, spans, x)
  BY <1>0, <1>s, <1>t, PartsOfCover DEF ExtractorsInv, DensityInv, ScanInv, Passable
<1>r. run # None => run[1] \in 0..Size /\ run[2] \in 0..Size /\ run[1] \in Nat /\ run[2] \in Nat
  BY <1>i, SizesAssumption DEF ExtractorsTypeOK
<1>3. run # None => s \in Span /\ s.rule = This.rule /\ s.start = run[1] /\ s.end = run[2]
  BY <1>t, <1>r, ReportIs
<1>e. \A i \in DOMAIN spans : spans[i].end \in Nat /\ spans[i].start \in Nat
  BY <1>t, SpanPlaces
<1> HIDE DEF s
<1>l. run # None =>
      /\ DOMAIN Append(spans, s) = 1..(Len(spans) + 1)
      /\ DOMAIN spans = 1..Len(spans) /\ Len(spans) \in Nat
      /\ \A i \in 1..Len(spans) : Append(spans, s)[i] = spans[i]
      /\ Append(spans, s)[Len(spans) + 1] = s
      /\ Append(spans, s) \in Seq(Span)
  BY <1>t, <1>3, AppendMember
<1>9. /\ spans' \in Seq(Span)
      /\ \A x \in hits : CoveredIn(passes, spans, x) => CoveredIn(passes, spans', x)
      /\ \A i \in DOMAIN spans' : \/ i \in DOMAIN spans /\ spans'[i] = spans[i]
                                  \/ run # None /\ spans'[i] = s
  <2>1. CASE run # None /\ spans' = Append(spans, s)
    <3>1. \A x \in hits : CoveredIn(passes, spans, x) => CoveredIn(passes, spans', x)
      BY <1>t, <1>3, <2>1, CoverGrows
    <3>2. ASSUME NEW i \in DOMAIN spans'
          PROVE  \/ i \in DOMAIN spans /\ spans'[i] = spans[i]
                 \/ spans'[i] = s
      <4>1. i \in 1..Len(spans) \/ i = Len(spans) + 1
        BY <1>l, <2>1
      <4> QED
        BY <1>l, <2>1, <4>1
    <3> QED
      BY <1>l, <2>1, <3>1, <3>2
  <2>2. CASE spans' = spans
    BY <1>t, <2>2
  <2> QED
    BY <1>1, <2>1, <2>2
<1>7. ExtractorsTypeOK'
  <2>1. cursor' \in Nat
    <3>1. pass < Len(passes) => pass + 1 \in 1..Len(passes)
      BY <1>n
    <3> QED
      BY <1>1, <1>t, <3>1, PassStart
  <2> QED
    BY <1>1, <1>n, <1>9, <1>i, <2>1 DEF ExtractorsTypeOK
<1>a. \A x \in hits : x.pass \in 1..pass /\ x.pass <= Len(passes) /\ x.start < x.end
  BY <1>i DEF HitsInv
<1>b. \A i \in DOMAIN spans' :
        \E p \in 1..Len(passes) : p <= pass /\ spans'[i].rule = passes[p].rule
  <2>1. run # None => pass <= pass /\ s.rule = passes[pass].rule
    BY <1>t, <1>n, <1>3 DEF This
  <2> QED
    BY <1>t, <1>9, <1>i, <2>1 DEF HitsInv
<1>8. HitsInv'
  <2>1. \A x \in hits : x.pass \in 1..pass'
    BY <1>1, <1>a, <1>n
  <2>2. \A p \in 1..Len(passes) : p <= pass => p <= pass'
    BY <1>1, <1>n
  <2> QED
    BY <1>1, <1>a, <1>b, <2>1, <2>2 DEF HitsInv
<1>10. \A x \in hits : x.pass # pass'
  BY <1>1, <1>a, <1>n
<1>11. ASSUME pass' <= Len(passes), NEW i \in DOMAIN spans',
              spans'[i].rule = passes[pass'].rule
       PROVE  passes[pass'].loop = "scan" /\ passes[pass'].keep = "apart"
  <2>1. PICK p \in 1..Len(passes) : p <= pass /\ spans'[i].rule = passes[p].rule
    BY <1>b, <1>11
  <2>2. pass' \in 1..Len(passes) /\ p # pass'
    BY <1>1, <1>n, <1>11, <2>1
  <2>3. Partitioned(passes)
    BY <1>t, PassesOf
  <2> QED
    BY <1>11, <2>1, <2>2, <2>3 DEF Partitioned
<1>12. ScanInv' /\ DensityInv' /\ (Extracted => run = None)'
  <2>1. This' = passes[pass']
    BY <1>1 DEF This
  <2>2. ScanInv'
    BY <1>1, <1>10, <1>11, <2>1 DEF ScanInv
  <2>3. DensityInv'
    BY <1>1, <1>10, <1>11, <2>1 DEF DensityInv
  <2> QED
    BY <1>1, <2>2, <2>3
<1>13. SpansCoverHits'
  <2>1. ASSUME NEW x \in hits, x.pass = pass
        PROVE  CoveredIn(passes, spans', x)
    <3>1. CASE CoveredIn(passes, spans, x)
      BY <1>9, <3>1
    <3>2. CASE run # None /\ run[1] <= x.start /\ x.end <= run[2]
      <4>1. spans' = Append(spans, s)
        BY <1>1, <3>2
      <4>2. passes[x.pass].keep # "apart"
        BY <1>s, <1>t, <2>1, <3>2 DEF This, Passable
      <4>3. Within(x, s)
        BY <1>3, <3>2 DEF Within
      <4> QED
        BY <1>l, <3>2, <4>1, <4>2, <4>3 DEF CoveredIn
    <3> QED
      BY <1>d, <2>1, <3>1, <3>2
  <2>2. \A x \in hits : x.pass < pass' => x.pass < pass \/ x.pass = pass
    BY <1>1, <1>a, <1>n
  <2>3. \A x \in hits' : x.pass < pass' => CoveredIn(passes, spans', x)
    BY <1>1, <1>9, <1>i, <2>1, <2>2
  <2>4. MadeOf(passes, spans', hits') /\ InTurn(passes, spans')
    <3>1. CASE run # None /\ spans' = Append(spans, s)
      <4>1. \A byte \in s.start..(s.end - 1) :
              \E x \in hits' : /\ passes[x.pass].rule = s.rule
                               /\ x.start <= byte /\ byte < x.end
        BY <1>1, <1>3, <1>d, <3>1 DEF This
      <4>2. ASSUME NEW i \in DOMAIN spans, spans[i].rule = s.rule
            PROVE  Behind(passes, spans[i], s)
        <5>1. spans[i].end < s.start
          BY <1>3, <1>d, <3>1, <4>2
        <5> QED
          BY <1>3, <1>e, <1>r, <3>1, <5>1 DEF Behind, Overlap
      <4> QED
        BY <1>t, <1>3, <1>1, <1>i, <3>1, <4>1, <4>2, ReportSound
    <3>2. CASE spans' = spans
      BY <1>1, <1>i, <3>2, MoreHits
    <3> QED
      BY <1>1, <3>1, <3>2
  <2> QED
    BY <1>1, <2>3, <2>4, PartsOfCover DEF SpansCoverHits
<1> QED
  BY <1>7, <1>8, <1>12, <1>13 DEF ExtractorsInv

LEMMA ExtractorsStep ==
  ASSUME ExtractorsInv, Extract \/ UNCHANGED extraction
  PROVE  ExtractorsInv'
<1>1. CASE Extract
  BY <1>1, MissStep, StrikeStep, DenseStep, EndStep DEF Extract
<1>2. CASE UNCHANGED extraction
  <2>1. /\ UNCHANGED <<passes, source, pass, cursor, run, spans, hits>>
        /\ ExtractorsTypeOK'
    BY <1>2 DEF extraction, ExtractorsInv, ExtractorsTypeOK
  <2>2. HitsInv' /\ (Extracted => run = None)' /\ SpansCoverHits'
    BY <2>1, PartsOfCover DEF ExtractorsInv, HitsInv, Extracted, SpansCoverHits
  <2>3. ScanInv' /\ DensityInv'
    BY <2>1 DEF ExtractorsInv, ScanInv, DensityInv, This, Covered
  <2> QED
    BY <2>1, <2>2, <2>3 DEF ExtractorsInv
<1> QED
  BY <1>1, <1>2
-----------------------------------------------------------------------------
(* What compute_ledger does with the spans *)

USE DEF attribution

(* Two ranges overlap, as compute_ledger tests it, exactly if they share a *)
(* byte.                                                                   *)
LEMMA ClaimedShares ==
  ASSUME LedgerTypeOK, NEW s \in SuspicionSpan
  PROVE  Claimed(s) <=> SharesByte(s)
<1>1. ASSUME NEW f \in findings, spans_overlap(s, f)
      PROVE  SharesByte(s)
  <2>1. f \in FindingRange
    BY DEF LedgerTypeOK
  <2> DEFINE byte == IF s.start > f.start THEN s.start ELSE f.start
  <2>2. byte \in s.start..(s.end - 1) /\ byte \in f.start..(f.end - 1)
    BY <1>1, <2>1, NumbersAreNat DEF spans_overlap, SuspicionSpan, FindingRange, Place
  <2> QED
    BY <2>2 DEF SharesByte
<1>2. ASSUME NEW f \in findings, NEW byte \in s.start..(s.end - 1),
             byte \in f.start..(f.end - 1)
      PROVE  spans_overlap(s, f)
  <2>1. f \in FindingRange
    BY DEF LedgerTypeOK
  <2>2. /\ s.start \in Int /\ s.end \in Int /\ f.start \in Int /\ f.end \in Int
        /\ byte \in Int
    BY <2>1, NumbersAreNat DEF SuspicionSpan, FindingRange, Place
  <2> QED
    BY <1>2, <2>2 DEF spans_overlap
<1> QED
  BY <1>1, <1>2 DEF Claimed, SharesByte

(* Spans and clusters lie at places, which are numbers. *)
LEMMA NumbersOf ==
  /\ Gap \in Nat
  /\ \A s \in SuspicionSpan : s.start \in Nat /\ s.end \in Nat
  /\ \A c \in Cluster : c.start \in Nat /\ c.end \in Nat
<1>1. \A x \in Place : x \in Nat
  BY NumbersAreNat DEF Place
<1> QED
  BY <1>1, NumbersAreNat DEF SuspicionSpan, Cluster

(* Appending to a list whose members have a property one that has it, too. *)
LEMMA AppendAll ==
  ASSUME NEW S, NEW list \in Seq(S), NEW s \in S
  PROVE  /\ Append(list, s) \in Seq(S)
         /\ Len(Append(list, s)) = Len(list) + 1
         /\ \A i \in 1..Len(list) : Append(list, s)[i] = list[i]
         /\ Append(list, s)[Len(list) + 1] = s
OBVIOUS

(* The initial state satisfies the invariant. *)
LEMMA StartInv == LedgerInit => LedgerInv
<1> SUFFICES ASSUME NEW taken \in Seq(SuspicionSpan), NEW ranges \in SUBSET FindingRange,
                    Start(taken, ranges)
             PROVE  LedgerInv
  BY DEF LedgerInit
<1>1. NoCluster \in Cluster
  <2>1. 0 \in Place
    BY NumbersAreNat DEF Place
  <2> QED
    BY <2>1 DEF NoCluster, Cluster
<1>2. LedgerTypeOK
  BY <1>1 DEF Start, LedgerTypeOK
<1>3. UnclaimedInv /\ ClaimedFirst /\ ExclusionsOnRecord /\ ClustersApart
  BY DEF Start, UnclaimedInv, ClaimedFirst, ExclusionsOnRecord, ClustersApart
<1>4. CountInv /\ OpenInv
  BY DEF Start, CountInv, OpenInv
<1> QED
  BY <1>2, <1>3, <1>4 DEF LedgerInv

(* The lists are lists of spans.                                           *)
LEMMA ListTypes ==
  ASSUME LedgerTypeOK
  PROVE  /\ suspicion \in Seq(SuspicionSpan) /\ attributed \in Seq(SuspicionSpan)
         /\ unclaimed \in Seq(SuspicionSpan) /\ excluded \in Seq(SuspicionSpan)
         /\ residue \in Seq(SuspicionSpan) /\ sorted \in Seq(SuspicionSpan)
         /\ todo \in Nat
BY DEF LedgerTypeOK

(* Sorting moves spans and makes up none. *)
LEMMA OrderedIs ==
  ASSUME NEW list \in Seq(SuspicionSpan), NEW order \in Orders(list)
  PROVE  LET new == InOrder(list, order) IN
         /\ new \in Seq(SuspicionSpan) /\ Len(new) = Len(list)
         /\ \A i, j \in 1..Len(new) : i < j => new[i].start <= new[j].start
<1> DEFINE new == InOrder(list, order)
<1>1. /\ order \in [1..Len(list) -> 1..Len(list)] /\ Len(list) \in Nat
      /\ \A i, j \in 1..Len(list) :
           i < j => NotAfter(list[order[i]], list[order[j]])
  BY DEF Orders
<1>2. \A i \in 1..Len(list) : list[order[i]] \in SuspicionSpan
  BY <1>1
<1>3. /\ new \in Seq(SuspicionSpan) /\ Len(new) = Len(list)
      /\ \A i \in 1..Len(list) : new[i] = list[order[i]]
  BY <1>1, <1>2 DEF InOrder
<1> HIDE DEF new
<1>4. ASSUME NEW i \in 1..Len(list), NEW j \in 1..Len(list), i < j
      PROVE  new[i].start <= new[j].start
  <2>1. NotAfter(list[order[i]], list[order[j]])
    BY <1>1, <1>4
  <2>2. new[i].start \in Nat /\ new[j].start \in Nat
    BY <1>2, <1>3, NumbersOf
  <2> QED
    BY <1>3, <2>1, <2>2 DEF NotAfter
<1> QED
  BY <1>3, <1>4 DEF new

LEMMA SortedResidue ==
  ASSUME LedgerTypeOK, Sort
  PROVE  /\ sorted' \in Seq(SuspicionSpan)
         /\ Len(sorted') = Len(residue)
         /\ \A i, j \in 1..Len(sorted') : i < j => sorted'[i].start <= sorted'[j].start
<1>1. residue \in Seq(SuspicionSpan)
  BY ListTypes
<1>2. PICK order \in Orders(residue) : sorted' = InOrder(residue, order)
  BY DEF Sort
<1> QED
  BY <1>1, <1>2, OrderedIs

(* The variables keep their types. *)
LEMMA TypeStep == LedgerInv /\ [Attribute]_attribution => LedgerTypeOK'
<1> SUFFICES ASSUME LedgerInv, [Attribute]_attribution
             PROVE  LedgerTypeOK'
  OBVIOUS
<1>0. LedgerTypeOK
  BY DEF LedgerInv
<1>t. /\ suspicion \in Seq(SuspicionSpan) /\ attributed \in Seq(SuspicionSpan)
      /\ unclaimed \in Seq(SuspicionSpan) /\ excluded \in Seq(SuspicionSpan)
      /\ residue \in Seq(SuspicionSpan) /\ sorted \in Seq(SuspicionSpan)
      /\ todo \in Nat
  BY <1>0, ListTypes
<1>1. CASE Claim
  <2>1. suspicion[todo + 1] \in SuspicionSpan
    BY <1>t, <1>1 DEF Claim
  <2>2. attributed' \in Seq(SuspicionSpan) /\ unclaimed' \in Seq(SuspicionSpan)
    <3>1. \/ attributed' = Append(attributed, suspicion[todo + 1]) /\ unclaimed' = unclaimed
          \/ unclaimed' = Append(unclaimed, suspicion[todo + 1]) /\ attributed' = attributed
      BY <1>1 DEF Claim
    <3>2. /\ Append(attributed, suspicion[todo + 1]) \in Seq(SuspicionSpan)
          /\ Append(unclaimed, suspicion[todo + 1]) \in Seq(SuspicionSpan)
      BY <1>t, <2>1, AppendAll
    <3> QED
      BY <1>t, <3>1, <3>2
  <2> QED
    BY <1>0, <1>1, <2>2 DEF Claim, LedgerTypeOK
<1>2. CASE EndOfClaims \/ EndOfExclusions
  BY <1>0, <1>2 DEF EndOfClaims, EndOfExclusions, LedgerTypeOK
<1>3. CASE Exclude
  <2>1. unclaimed[todo + 1] \in SuspicionSpan
    BY <1>t, <1>3 DEF Exclude
  <2>2. excluded' \in Seq(SuspicionSpan)
    BY <1>t, <1>3, <2>1 DEF Exclude
  <2>3. records' \in Seq([span : SuspicionSpan, predicate : Predicates])
    <3>1. PICK p \in Predicates :
            records' = Append(records, [span |-> unclaimed[todo + 1], predicate |-> p])
      BY <1>3 DEF Exclude
    <3>2. [span |-> unclaimed[todo + 1], predicate |-> p]
            \in [span : SuspicionSpan, predicate : Predicates]
      BY <2>1
    <3>3. records \in Seq([span : SuspicionSpan, predicate : Predicates])
      BY <1>0 DEF LedgerTypeOK
    <3> QED
      BY <3>1, <3>2, <3>3, AppendAll
  <2> QED
    BY <1>0, <1>3, <2>2, <2>3 DEF Exclude, LedgerTypeOK
<1>4. CASE LeaveAsResidue
  <2>1. residue' \in Seq(SuspicionSpan)
    BY <1>t, <1>4 DEF LeaveAsResidue
  <2> QED
    BY <1>0, <1>4, <2>1 DEF LeaveAsResidue, LedgerTypeOK
<1>5. CASE Sort
  BY <1>0, <1>5, SortedResidue DEF Sort, LedgerTypeOK
<1>6. CASE Cluster1
  <2> DEFINE s == sorted[todo + 1]
  <2>1. s \in SuspicionSpan /\ current \in Cluster /\ clusters \in Seq(Cluster)
    BY <1>0, <1>t, <1>6 DEF Cluster1, LedgerTypeOK
  <2>2. Opened(s) \in Cluster
    BY <2>1 DEF Opened, Cluster, SuspicionSpan
  <2>3. Extended(current, s) \in Cluster
    <3>1. Append(current.spans, s) \in Seq(SuspicionSpan)
      BY <2>1 DEF Cluster
    <3>2. Reach(current, s) \in Place /\ current.start \in Place
      BY <2>1 DEF Reach, Cluster, SuspicionSpan
    <3> QED
      BY <3>1, <3>2 DEF Extended, Cluster
  <2>4. Append(clusters, current) \in Seq(Cluster)
    BY <2>1
  <2> HIDE DEF s
  <2>5. current' \in Cluster /\ clusters' \in Seq(Cluster)
    BY <1>6, <2>1, <2>2, <2>3, <2>4 DEF Cluster1, s
  <2> QED
    BY <1>0, <1>6, <2>5 DEF Cluster1, LedgerTypeOK
<1>7. CASE EndOfClusters
  <2>1. clusters' \in Seq(Cluster)
    BY <1>0, <1>7 DEF EndOfClusters, LedgerTypeOK
  <2> QED
    BY <1>0, <1>7, <2>1 DEF EndOfClusters, LedgerTypeOK
<1>8. CASE UNCHANGED attribution
  BY <1>0, <1>8 DEF LedgerTypeOK
<1> QED
  BY <1>1, <1>2, <1>3, <1>4, <1>5, <1>6, <1>7, <1>8 DEF Attribute
(* What a turn of a loop takes from its list and appends to another.       *)
LEMMA ClaimStep ==
  ASSUME LedgerInv, Claim
  PROVE  \E s \in SuspicionSpan :
           /\ \/ /\ SharesByte(s)
                 /\ attributed' = Append(attributed, s) /\ unclaimed' = unclaimed
              \/ /\ ~SharesByte(s)
                 /\ unclaimed' = Append(unclaimed, s) /\ attributed' = attributed
           /\ UNCHANGED <<phase, suspicion, findings, excluded, residue, records, sorted,
                          current, clusters>>
           /\ phase = "claim" /\ todo < Len(suspicion) /\ todo' = todo + 1
<1>1. LedgerTypeOK
  BY DEF LedgerInv
<1>2. suspicion[todo + 1] \in SuspicionSpan
  BY <1>1, ListTypes DEF Claim
<1>3. Claimed(suspicion[todo + 1]) <=> SharesByte(suspicion[todo + 1])
  BY <1>1, <1>2, ClaimedShares
<1> QED
  BY <1>2, <1>3 DEF Claim

LEMMA JudgeStep ==
  ASSUME LedgerInv, Exclude \/ LeaveAsResidue
  PROVE  \E s \in SuspicionSpan :
           /\ ~SharesByte(s)
           /\ \/ /\ excluded' = Append(excluded, s) /\ residue' = residue
                 /\ \E p \in Predicates :
                      /\ s.rule \in AppliesTo[p]
                      /\ records' = Append(records, [span |-> s, predicate |-> p])
              \/ /\ residue' = Append(residue, s) /\ UNCHANGED <<excluded, records>>
           /\ UNCHANGED <<phase, suspicion, findings, attributed, unclaimed, sorted,
                          current, clusters>>
           /\ phase = "exclude" /\ todo < Len(unclaimed) /\ todo' = todo + 1
<1>1. LedgerTypeOK /\ UnclaimedInv
  BY DEF LedgerInv
<1>2. todo < Len(unclaimed)
  BY DEF Exclude, LeaveAsResidue
<1>3. unclaimed[todo + 1] \in SuspicionSpan /\ todo + 1 \in 1..Len(unclaimed)
  BY <1>1, <1>2, ListTypes
<1>4. ~SharesByte(unclaimed[todo + 1])
  BY <1>1, <1>3 DEF UnclaimedInv
<1>5. CASE Exclude
  BY <1>3, <1>4, <1>5 DEF Exclude, MayJudge
<1>6. CASE LeaveAsResidue
  BY <1>3, <1>4, <1>6 DEF LeaveAsResidue
<1> QED
  BY <1>5, <1>6

(* The other steps leave the three lists alone. *)
LEMMA OtherSteps ==
  ASSUME [Attribute]_attribution
  PROVE  \/ Claim \/ Exclude \/ LeaveAsResidue
         \/ UNCHANGED <<suspicion, findings, attributed, unclaimed, excluded, residue,
                        records>>
BY DEF Attribute, EndOfClaims, EndOfExclusions, Sort, Cluster1, EndOfClusters

(* No claimed span is excluded or left as residue, and no other attributed.*)
LEMMA ClaimedStep ==
  ASSUME LedgerInv, [Attribute]_attribution
  PROVE  UnclaimedInv' /\ ClaimedFirst'
<1>0. LedgerTypeOK /\ UnclaimedInv /\ ClaimedFirst
  BY DEF LedgerInv
<1>t. /\ attributed \in Seq(SuspicionSpan) /\ unclaimed \in Seq(SuspicionSpan)
      /\ excluded \in Seq(SuspicionSpan) /\ residue \in Seq(SuspicionSpan)
  BY <1>0, ListTypes
<1>1. CASE Claim
  <2>1. PICK s \in SuspicionSpan :
          /\ \/ /\ SharesByte(s)
                /\ attributed' = Append(attributed, s) /\ unclaimed' = unclaimed
             \/ /\ ~SharesByte(s)
                /\ unclaimed' = Append(unclaimed, s) /\ attributed' = attributed
          /\ UNCHANGED <<findings, excluded, residue>>
    BY <1>1, ClaimStep
  <2>2. \A x : SharesByte(x)' <=> SharesByte(x)
    BY <2>1 DEF SharesByte
  <2>3. CASE attributed' = Append(attributed, s) /\ unclaimed' = unclaimed /\ SharesByte(s)
    <3>1. \A i \in 1..Len(attributed') : SharesByte(attributed'[i])
      BY <1>0, <1>t, <2>3 DEF ClaimedFirst
    <3> QED
      BY <1>0, <2>1, <2>2, <2>3, <3>1 DEF UnclaimedInv, ClaimedFirst, SharesByte
  <2>4. CASE unclaimed' = Append(unclaimed, s) /\ attributed' = attributed /\ ~SharesByte(s)
    <3>1. \A i \in 1..Len(unclaimed') : ~SharesByte(unclaimed'[i])
      BY <1>0, <1>t, <2>4 DEF UnclaimedInv
    <3> QED
      BY <1>0, <2>1, <2>2, <2>4, <3>1 DEF UnclaimedInv, ClaimedFirst, SharesByte
  <2> QED
    BY <2>1, <2>3, <2>4
<1>2. CASE Exclude \/ LeaveAsResidue
  <2>1. PICK s \in SuspicionSpan :
          /\ ~SharesByte(s)
          /\ \/ excluded' = Append(excluded, s) /\ residue' = residue
             \/ residue' = Append(residue, s) /\ excluded' = excluded
          /\ UNCHANGED <<findings, attributed, unclaimed>>
    BY <1>2, JudgeStep
  <2>2. /\ \A i \in 1..Len(excluded') : ~SharesByte(excluded'[i])
        /\ \A i \in 1..Len(residue') : ~SharesByte(residue'[i])
    <3>1. CASE excluded' = Append(excluded, s) /\ residue' = residue
      BY <1>0, <1>t, <2>1, <3>1 DEF ClaimedFirst
    <3>2. CASE residue' = Append(residue, s) /\ excluded' = excluded
      BY <1>0, <1>t, <2>1, <3>2 DEF ClaimedFirst
    <3> QED
      BY <2>1, <3>1, <3>2
  <2> QED
    BY <1>0, <2>1, <2>2 DEF UnclaimedInv, ClaimedFirst, SharesByte
<1>3. CASE UNCHANGED <<findings, attributed, unclaimed, excluded, residue>>
  BY <1>0, <1>3 DEF UnclaimedInv, ClaimedFirst, SharesByte
<1> QED
  BY <1>1, <1>2, <1>3, OtherSteps

(* Exclusions and their records are appended together. *)
LEMMA RecordStep ==
  ASSUME LedgerInv, [Attribute]_attribution
  PROVE  ExclusionsOnRecord'
<1>0. LedgerTypeOK /\ ExclusionsOnRecord
  BY DEF LedgerInv
<1>t. /\ excluded \in Seq(SuspicionSpan)
      /\ records \in Seq([span : SuspicionSpan, predicate : Predicates])
  BY <1>0, ListTypes DEF LedgerTypeOK
<1>1. CASE Exclude \/ LeaveAsResidue
  <2>1. PICK s \in SuspicionSpan :
          \/ /\ excluded' = Append(excluded, s)
             /\ \E p \in Predicates :
                  /\ s.rule \in AppliesTo[p]
                  /\ records' = Append(records, [span |-> s, predicate |-> p])
          \/ UNCHANGED <<excluded, records>>
    BY <1>1, JudgeStep
  <2>2. ASSUME NEW p \in Predicates, s.rule \in AppliesTo[p],
               excluded' = Append(excluded, s),
               records' = Append(records, [span |-> s, predicate |-> p])
        PROVE  ExclusionsOnRecord'
    <3> DEFINE r == [span |-> s, predicate |-> p]
    <3>1. r \in [span : SuspicionSpan, predicate : Predicates]
          /\ r.span = s /\ r.predicate = p
      OBVIOUS
    <3> HIDE DEF r
    <3>2. /\ Len(excluded') = Len(excluded) + 1
          /\ \A i \in 1..Len(excluded) : excluded'[i] = excluded[i]
          /\ excluded'[Len(excluded) + 1] = s
      BY <1>t, <2>2, AppendAll
    <3>3. /\ Len(records') = Len(records) + 1
          /\ \A i \in 1..Len(records) : records'[i] = records[i]
          /\ records'[Len(records) + 1] = r
      BY <1>t, <2>2, <3>1, AppendAll DEF r
    <3>4. Len(records) = Len(excluded) /\ Len(records) \in Nat
      BY <1>0, <1>t DEF ExclusionsOnRecord
    <3>5. ASSUME NEW i \in 1..Len(records')
          PROVE  /\ records'[i].span = excluded'[i]
                 /\ excluded'[i].rule \in AppliesTo[records'[i].predicate]
      <4>1. CASE i = Len(records) + 1
        BY <2>2, <3>1, <3>2, <3>3, <3>4, <4>1
      <4>2. CASE i # Len(records) + 1
        <5>1. i \in 1..Len(records)
          BY <3>3, <3>4, <4>2
        <5> QED
          BY <1>0, <3>2, <3>3, <3>4, <5>1 DEF ExclusionsOnRecord
      <4> QED
        BY <4>1, <4>2
    <3> QED
      BY <3>2, <3>3, <3>4, <3>5 DEF ExclusionsOnRecord
  <2> QED
    BY <1>0, <2>1, <2>2 DEF ExclusionsOnRecord
<1>2. CASE UNCHANGED <<excluded, records>>
  BY <1>0, <1>2 DEF ExclusionsOnRecord
<1> QED
  BY <1>1, <1>2, OtherSteps DEF Claim
LEMMA OneMore ==
  ASSUME NEW a \in Nat, NEW b \in Nat, NEW t \in Nat, NEW c \in Nat, NEW d \in Nat, a + b = t,
         (c = a + 1 /\ d = b) \/ (c = a /\ d = b + 1)
  PROVE  c + d = t + 1
OBVIOUS

(* A span that a loop deals with goes to exactly one list. *)
LEMMA CountStep ==
  ASSUME LedgerInv, [Attribute]_attribution
  PROVE  CountInv'
<1>0. LedgerTypeOK /\ CountInv
  BY DEF LedgerInv
<1>t. /\ suspicion \in Seq(SuspicionSpan) /\ attributed \in Seq(SuspicionSpan)
      /\ unclaimed \in Seq(SuspicionSpan) /\ excluded \in Seq(SuspicionSpan)
      /\ residue \in Seq(SuspicionSpan) /\ todo \in Nat
  BY <1>0, ListTypes
<1>n. /\ Len(suspicion) \in Nat /\ Len(attributed) \in Nat /\ Len(unclaimed) \in Nat
      /\ Len(excluded) \in Nat /\ Len(residue) \in Nat /\ todo \in Nat
  BY <1>t
<1>1. CASE Claim
  <2>1. PICK s \in SuspicionSpan :
          /\ \/ attributed' = Append(attributed, s) /\ unclaimed' = unclaimed
             \/ unclaimed' = Append(unclaimed, s) /\ attributed' = attributed
          /\ UNCHANGED <<phase, suspicion, excluded, residue>>
          /\ phase = "claim" /\ todo < Len(suspicion) /\ todo' = todo + 1
    BY <1>1, ClaimStep
  <2>2. /\ Len(Append(attributed, s)) = Len(attributed) + 1
        /\ Len(Append(unclaimed, s)) = Len(unclaimed) + 1
    BY <1>t
  <2>3. Len(attributed') + Len(unclaimed') = todo + 1
    <3>1. Len(attributed) + Len(unclaimed) = todo
      BY <1>0, <2>1 DEF CountInv
    <3>2. \/ Len(attributed') = Len(attributed) + 1 /\ Len(unclaimed') = Len(unclaimed)
          \/ Len(attributed') = Len(attributed) /\ Len(unclaimed') = Len(unclaimed) + 1
      BY <2>1, <2>2
    <3>3. Len(attributed') \in Nat /\ Len(unclaimed') \in Nat
      BY <1>n, <3>2
    <3> QED
      BY <1>n, <3>1, <3>2, <3>3, OneMore
  <2> QED
    BY <1>0, <1>n, <1>t, <2>1, <2>3 DEF CountInv
<1>2. CASE Exclude \/ LeaveAsResidue
  <2>1. PICK s \in SuspicionSpan :
          /\ \/ excluded' = Append(excluded, s) /\ residue' = residue
             \/ residue' = Append(residue, s) /\ excluded' = excluded
          /\ UNCHANGED <<phase, suspicion, attributed, unclaimed>>
          /\ phase = "exclude" /\ todo < Len(unclaimed) /\ todo' = todo + 1
    BY <1>2, JudgeStep
  <2>2. /\ Len(Append(excluded, s)) = Len(excluded) + 1
        /\ Len(Append(residue, s)) = Len(residue) + 1
    BY <1>t
  <2>3. Len(excluded') + Len(residue') = todo + 1
    <3>1. Len(excluded) + Len(residue) = todo
      BY <1>0, <2>1 DEF CountInv
    <3>2. \/ Len(excluded') = Len(excluded) + 1 /\ Len(residue') = Len(residue)
          \/ Len(excluded') = Len(excluded) /\ Len(residue') = Len(residue) + 1
      BY <2>1, <2>2
    <3>3. Len(excluded') \in Nat /\ Len(residue') \in Nat
      BY <1>n, <3>2
    <3> QED
      BY <1>n, <3>1, <3>2, <3>3, OneMore
  <2> QED
    BY <1>0, <1>n, <1>t, <2>1, <2>3 DEF CountInv
<1>3. CASE EndOfClaims
  BY <1>0, <1>n, <1>t, <1>3 DEF EndOfClaims, CountInv
<1>4. CASE EndOfExclusions
  <2>1. Len(attributed) + Len(excluded) + Len(residue) = Len(suspicion)
    <3>1. /\ Len(attributed) + Len(unclaimed) = Len(suspicion)
          /\ Len(excluded) + Len(residue) = Len(unclaimed)
      BY <1>0, <1>4 DEF EndOfExclusions, CountInv
    <3> QED
      BY <1>n, <3>1
  <2> QED
    BY <1>4, <2>1 DEF EndOfExclusions, CountInv
<1>5. CASE Sort \/ Cluster1 \/ EndOfClusters
  <2>1. /\ phase \in {"sort", "cluster"} /\ phase' \in {"cluster", "done"}
        /\ UNCHANGED <<suspicion, attributed, excluded, residue>>
    BY <1>5 DEF Sort, Cluster1, EndOfClusters
  <2> QED
    BY <1>0, <2>1 DEF CountInv
<1>6. CASE UNCHANGED attribution
  BY <1>0, <1>6 DEF CountInv
<1> QED
  BY <1>1, <1>2, <1>3, <1>4, <1>5, <1>6 DEF Attribute

LEMMA EndsBefore ==
  ASSUME NEW a \in Nat, NEW b \in Nat, NEW c \in Nat, NEW d \in Nat, NEW g \in Nat,
         a <= b, c > b + g, c <= d
  PROVE  a + g < d
OBVIOUS

(* A cluster is closed by a span that is far from all of it, and the spans *)
(* to come start no earlier.                                               *)
LEMMA ClosingIsFar ==
  ASSUME LedgerInv, Cluster1, todo > 0, ~Near(current, sorted[todo + 1])
  PROVE  \A n \in 1..Len(current.spans), j \in 1..Len(sorted) :
           j > todo => Far(current.spans[n], sorted[j])
<1> SUFFICES ASSUME NEW n \in 1..Len(current.spans), NEW j \in 1..Len(sorted), j > todo
             PROVE  Far(current.spans[n], sorted[j])
  OBVIOUS
<1>1. LedgerTypeOK /\ OpenInv
  BY DEF LedgerInv
<1>2. /\ todo \in Nat /\ todo + 1 \in 1..Len(sorted) /\ Len(sorted) \in Nat
      /\ sorted[todo + 1] \in SuspicionSpan /\ sorted[j] \in SuspicionSpan
  BY <1>1, ListTypes DEF Cluster1
<1>3. current \in Cluster /\ current.spans[n] \in SuspicionSpan
  BY <1>1 DEF LedgerTypeOK, Cluster
<1>4. current.spans[n].end <= current.end
  BY <1>1 DEF OpenInv, Cluster1
<1>5. sorted[todo + 1].start <= sorted[j].start
  <2>1. CASE j = todo + 1
    BY <1>2, <2>1, NumbersOf
  <2>2. CASE todo + 1 < j
    BY <1>1, <1>2, <2>2 DEF OpenInv, Cluster1
  <2> QED
    BY <1>2, <2>1, <2>2
<1>6. /\ current.end \in Nat /\ current.spans[n].end \in Nat /\ Gap \in Nat
      /\ sorted[todo + 1].start \in Nat /\ sorted[j].start \in Nat
  BY <1>2, <1>3, NumbersOf
<1>7. sorted[todo + 1].start > current.end + Gap
  BY <1>6 DEF Near
<1>8. current.spans[n].end + Gap < sorted[j].start
  BY <1>4, <1>5, <1>6, <1>7, EndsBefore
<1> QED
  BY <1>8 DEF Far
(* Closing a cluster that is far from all that is closed keeps clusters    *)
(* apart.                                                                  *)
LEMMA AppendApart ==
  ASSUME clusters \in Seq(Cluster), current \in Cluster, ClustersApart,
         clusters' = Append(clusters, current),
         \A s \in SuspicionSpan : Closed(s) =>
           \A t \in 1..Len(current.spans) : Far(s, current.spans[t])
  PROVE  ClustersApart'
<1> SUFFICES ASSUME NEW i \in 1..Len(clusters'), NEW j \in 1..Len(clusters'), i < j,
                    NEW s \in 1..Len(clusters'[i].spans),
                    NEW t \in 1..Len(clusters'[j].spans)
             PROVE  Far(clusters'[i].spans[s], clusters'[j].spans[t])
  BY DEF ClustersApart, Far
<1>1. /\ Len(clusters') = Len(clusters) + 1 /\ Len(clusters) \in Nat
      /\ \A k \in 1..Len(clusters) : clusters'[k] = clusters[k]
      /\ clusters'[Len(clusters) + 1] = current
  BY AppendAll
<1>2. i \in 1..Len(clusters) /\ clusters'[i] = clusters[i]
  BY <1>1
<1>3. CASE j \in 1..Len(clusters)
  BY <1>1, <1>2, <1>3 DEF ClustersApart
<1>4. CASE j = Len(clusters) + 1
  <2>1. clusters[i].spans[s] \in SuspicionSpan
    <3>1. clusters[i] \in Cluster
      BY <1>2
    <3>2. clusters[i].spans \in Seq(SuspicionSpan) /\ s \in 1..Len(clusters[i].spans)
      BY <1>2, <3>1 DEF Cluster
    <3> QED
      BY <3>2
  <2>2. Closed(clusters[i].spans[s])
    BY <1>2 DEF Closed
  <2> QED
    BY <1>1, <1>2, <1>4, <2>1, <2>2
<1> QED
  BY <1>1, <1>3, <1>4

(* Clusters stay apart, and what is closed is far from what is to come.    *)
LEMMA ClusterStep ==
  ASSUME LedgerInv, [Attribute]_attribution
  PROVE  OpenInv' /\ ClustersApart'
<1>0. LedgerTypeOK /\ OpenInv /\ ClustersApart
  BY DEF LedgerInv
<1>t. /\ sorted \in Seq(SuspicionSpan) /\ todo \in Nat /\ Len(sorted) \in Nat
      /\ current \in Cluster /\ clusters \in Seq(Cluster)
  BY <1>0, ListTypes DEF LedgerTypeOK
<1>s. \A c \in Cluster : \A n \in 1..Len(c.spans) : c.spans[n] \in SuspicionSpan
  BY DEF Cluster
<1>1. CASE Claim \/ EndOfClaims \/ Exclude \/ LeaveAsResidue \/ EndOfExclusions
  <2>1. /\ phase \in {"claim", "exclude"} /\ phase' \in {"claim", "exclude", "sort"}
        /\ phase' = "sort" => todo' = 0
        /\ UNCHANGED clusters
    BY <1>1 DEF Claim, EndOfClaims, Exclude, LeaveAsResidue, EndOfExclusions
  <2>2. OpenInv'
    BY <1>0, <2>1 DEF OpenInv
  <2>3. ClustersApart'
    BY <1>0, <2>1 DEF ClustersApart, Far
  <2> QED
    BY <2>2, <2>3
<1>2. CASE Sort
  <2>1. clusters' = <<>> /\ phase' = "cluster" /\ todo' = 0
    BY <1>0, <1>2 DEF Sort, OpenInv
  <2>2. \A i, j \in 1..Len(sorted') : i < j => sorted'[i].start <= sorted'[j].start
    BY <1>0, <1>2, SortedResidue
  <2>3. \A s : ~Closed(s)'
    BY <2>1 DEF Closed
  <2>4. Len(sorted') \in Nat
    BY <1>0, <1>2, SortedResidue, ListTypes
  <2>5. OpenInv'
    BY <2>1, <2>2, <2>3, <2>4 DEF OpenInv
  <2>6. ClustersApart'
    BY <2>1 DEF ClustersApart
  <2> QED
    BY <2>5, <2>6
<1>3. CASE Cluster1
  <2> DEFINE s == sorted[todo + 1]
  <2>1. /\ phase = "cluster" /\ phase' = "cluster" /\ todo' = todo + 1
        /\ todo < Len(sorted) /\ sorted' = sorted
        /\ s \in SuspicionSpan /\ todo + 1 \in 1..Len(sorted)
    BY <1>t, <1>3 DEF Cluster1
  <2>2. /\ todo = 0 => clusters = <<>>
        /\ \A i, j \in 1..Len(sorted) : i < j => sorted[i].start <= sorted[j].start
        /\ todo > 0 =>
             \A t \in 1..Len(current.spans) : current.spans[t].end <= current.end
        /\ \A x \in SuspicionSpan : Closed(x) =>
             /\ \A t \in 1..Len(current.spans) : Far(x, current.spans[t])
             /\ \A j \in 1..Len(sorted) : j > todo => Far(x, sorted[j])
    BY <1>0, <2>1 DEF OpenInv
  <2>3. /\ Opened(s).end = s.end /\ Opened(s).spans = <<s>>
        /\ Extended(current, s).end = Reach(current, s)
        /\ Extended(current, s).spans = Append(current.spans, s)
    BY DEF Opened, Extended
  <2>4. CASE todo = 0 \/ Near(current, s)
    <3>1. /\ clusters' = clusters
          /\ \/ todo = 0 /\ current' = Opened(s)
             \/ todo > 0 /\ current' = Extended(current, s)
      BY <1>t, <1>3, <2>4 DEF Cluster1
    <3>2. \A t \in 1..Len(current'.spans) :
            \/ current'.spans[t] = s
            \/ /\ todo > 0
               /\ \E n \in 1..Len(current.spans) : current'.spans[t] = current.spans[n]
      <4>1. CASE current' = Opened(s)
        BY <2>3, <4>1
      <4>2. CASE todo > 0 /\ current' = Extended(current, s)
        <5>1. current.spans \in Seq(SuspicionSpan)
          BY <1>t DEF Cluster
        <5>2. current'.spans = Append(current.spans, s)
          BY <2>3, <4>2
        <5>3. /\ Len(current'.spans) = Len(current.spans) + 1
              /\ \A n \in 1..Len(current.spans) : current'.spans[n] = current.spans[n]
              /\ current'.spans[Len(current.spans) + 1] = s
              /\ Len(current.spans) \in Nat
          BY <2>1, <5>1, <5>2, AppendAll
        <5> HIDE DEF s
        <5> QED
          BY <4>2, <5>3
      <4> QED
        BY <3>1, <4>1, <4>2
    <3>3. /\ s.end <= current'.end
          /\ todo > 0 => current.end <= current'.end
      <4>1. s.end \in Nat /\ current.end \in Nat
        BY <1>t, <2>1, NumbersOf
      <4> HIDE DEF s
      <4> QED
        BY <1>t, <2>3, <3>1, <4>1 DEF Reach
    <3>4. \A t \in 1..Len(current'.spans) : current'.spans[t].end <= current'.end
      <4> SUFFICES ASSUME NEW t \in 1..Len(current'.spans)
                   PROVE  current'.spans[t].end <= current'.end
        OBVIOUS
      <4>1. CASE current'.spans[t] = s
        BY <3>3, <4>1
      <4>2. ASSUME todo > 0, NEW n \in 1..Len(current.spans),
                   current'.spans[t] = current.spans[n]
            PROVE  current'.spans[t].end <= current'.end
        <5>1. current.spans[n].end <= current.end /\ current.end <= current'.end
          BY <2>2, <3>3, <4>2
        <5>2. current' \in Cluster
          BY TypeStep DEF LedgerTypeOK
        <5>3. /\ current.spans[n].end \in Nat /\ current.end \in Nat
              /\ current'.end \in Nat
          BY <1>t, <1>s, <5>2, NumbersOf
        <5> QED
          BY <4>2, <5>1, <5>3
      <4> QED
        BY <3>2, <4>1, <4>2
    <3>5. ASSUME NEW x \in SuspicionSpan, Closed(x)'
          PROVE  /\ \A t \in 1..Len(current'.spans) : Far(x, current'.spans[t])
                 /\ \A j \in 1..Len(sorted) : j > todo' => Far(x, sorted[j])
      <4>1. Closed(x)
        BY <3>1, <3>5 DEF Closed
      <4>2. Far(x, s)
        BY <1>t, <2>1, <2>2, <4>1
      <4>3. \A t \in 1..Len(current'.spans) : Far(x, current'.spans[t])
        BY <2>2, <3>2, <4>1, <4>2
      <4>4. \A j \in 1..Len(sorted) : j > todo + 1 => Far(x, sorted[j])
        BY <1>t, <2>2, <4>1
      <4> QED
        BY <2>1, <4>3, <4>4
    <3> HIDE DEF s
    <3>6. OpenInv'
      BY <1>t, <2>1, <2>2, <3>1, <3>4, <3>5 DEF OpenInv, Far
    <3>7. ClustersApart'
      <4>1. clusters' = clusters
        BY <3>1
      <4> QED
        BY <1>0, <4>1 DEF ClustersApart, Far
    <3> QED
      BY <3>6, <3>7
  <2>5. CASE todo # 0 /\ ~Near(current, s)
    <3>1. clusters' = Append(clusters, current) /\ current' = Opened(s) /\ todo > 0
      BY <1>t, <1>3, <2>5 DEF Cluster1
    <3>2. \A n \in 1..Len(current.spans), j \in 1..Len(sorted) :
            j > todo => Far(current.spans[n], sorted[j])
      BY <1>3, <2>5, <3>1, ClosingIsFar
    <3>3. ASSUME NEW x \in SuspicionSpan, Closed(x)'
          PROVE  \A j \in 1..Len(sorted) : j > todo => Far(x, sorted[j])
      <4>1. Closed(x) \/ \E n \in 1..Len(current.spans) : x = current.spans[n]
        BY <1>t, <3>1, <3>3, AppendAll DEF Closed
      <4> QED
        BY <2>2, <3>2, <4>1
    <3>4. ASSUME NEW x \in SuspicionSpan, Closed(x)'
          PROVE  \A t \in 1..Len(current'.spans) : Far(x, current'.spans[t])
      <4>1. Far(x, s)
        BY <1>t, <2>1, <3>3, <3>4
      <4>2. \A t \in 1..Len(current'.spans) : current'.spans[t] = s
        BY <2>3, <3>1
      <4> QED
        BY <4>1, <4>2
    <3>5. \A t \in 1..Len(current'.spans) : current'.spans[t].end <= current'.end
      <4>1. s.end \in Nat
        BY <2>1, NumbersOf
      <4> QED
        BY <2>3, <3>1, <4>1
    <3> HIDE DEF s
    <3>6. OpenInv'
      <4>1. \A x \in SuspicionSpan : Closed(x)' =>
              /\ \A t \in 1..Len(current'.spans) : Far(x, current'.spans[t])
              /\ \A j \in 1..Len(sorted) : j > todo + 1 => Far(x, sorted[j])
        BY <1>t, <3>3, <3>4
      <4> QED
        BY <1>t, <2>1, <2>2, <3>1, <3>5, <4>1 DEF OpenInv, Far
    <3>7. ClustersApart'
      BY <1>0, <1>t, <1>s, <2>2, <3>1, AppendApart DEF Closed
    <3> QED
      BY <3>6, <3>7
  <2> QED
    BY <2>4, <2>5
<1>4. CASE EndOfClusters
  <2>1. phase = "cluster" /\ phase' = "done" /\ todo = Len(sorted)
    BY <1>4 DEF EndOfClusters
  <2>2. OpenInv'
    BY <2>1 DEF OpenInv
  <2>3. CASE clusters' = clusters
    BY <1>0, <2>2, <2>3 DEF ClustersApart, Far
  <2>4. CASE clusters' = Append(clusters, current)
    BY <1>0, <1>t, <1>s, <2>1, <2>4, AppendApart DEF OpenInv, Closed
  <2> QED
    BY <1>4, <2>2, <2>3, <2>4 DEF EndOfClusters
<1>5. CASE UNCHANGED attribution
  BY <1>0, <1>5 DEF OpenInv, ClustersApart, Closed, Far
<1> QED
  BY <1>1, <1>2, <1>3, <1>4, <1>5 DEF Attribute
-----------------------------------------------------------------------------
(* The parts of the invariant hold in every reachable state. *)
THEOREM LedgerInvariant == LedgerSpec => []LedgerInv
<1>1. LedgerInv /\ [Attribute]_attribution => LedgerInv'
  BY TypeStep, ClaimedStep, RecordStep, CountStep, ClusterStep DEF LedgerInv
<1> QED
  BY <1>1, StartInv, PTL DEF LedgerSpec

(* The lists of a ledger may be taken for what they are called.            *)
THEOREM LedgerIsSound == LedgerSpec => []LedgerSound
<1>1. LedgerInv => LedgerSound
  BY DEF LedgerInv, LedgerSound
<1> QED
  BY <1>1, LedgerInvariant, PTL

(* No span is lost, and none is counted twice.                             *)
THEOREM NoSpanIsLost == LedgerSpec => []SpansConserved
<1>1. LedgerInv => SpansConserved
  BY DEF LedgerInv, CountInv, SpansConserved
<1> QED
  BY <1>1, LedgerInvariant, PTL

(* Clusters are apart by more than the gap, for every gap.                 *)
THEOREM ClustersStayApart == LedgerSpec => []ClustersApart
<1>1. LedgerInv => ClustersApart
  BY DEF LedgerInv
<1> QED
  BY <1>1, LedgerInvariant, PTL
-----------------------------------------------------------------------------
(* The mass of a list *)

(* A set of numbers that is not empty has a least one. *)
LEMMA LeastNumber ==
  ASSUME NEW S \in SUBSET Nat, S # {}
  PROVE  \E m \in S : \A n \in S : m <= n
<1> DEFINE Less == {p \in Nat \X Nat : p[1] < p[2]}
<1>1. IsWellFoundedOn(Less, Nat)
  BY NatLessThanWellFounded DEF OpToRel
<1>2. \E m \in S : \A n \in S : <<n, m>> \notin Less
  <2> HIDE DEF Less
  <2> QED
    BY <1>1, WFMin
<1>3. PICK m \in S : \A n \in S : <<n, m>> \notin Less
  BY <1>2
<1>4. ASSUME NEW n \in S
      PROVE  m <= n
  <2>1. ~(n < m)
    BY <1>3
  <2> QED
    BY <2>1
<1> QED
  BY <1>4

(* Induction, with the set of the numbers that have the property. *)
LEMMA Induction ==
  ASSUME NEW S, 0 \in S, \A n \in Nat : n \in S => n + 1 \in S
  PROVE  Nat \subseteq S
<1> SUFFICES ASSUME Nat \ S # {}
             PROVE  FALSE
  OBVIOUS
<1>1. PICK m \in Nat \ S : \A n \in Nat \ S : m <= n
  BY LeastNumber
<1>2. m - 1 \in Nat /\ m - 1 \in S
  BY <1>1
<1> QED
  BY <1>1, <1>2

(* Masses is the function its recursion describes. *)
LEMMA MassesUnfolds ==
  ASSUME NEW list \in Seq(SuspicionSpan)
  PROVE  Masses(list) =
           [n \in 0..Len(list) |->
              IF n = 0 THEN 0 ELSE Masses(list)[n - 1] + Magnitude(list[n])]
<1> DEFINE Body(f, n) == IF n = 0 THEN 0 ELSE f[n - 1] + Magnitude(list[n])
           Solves(f, m) == f = [n \in 0..m |-> Body(f, n)]
           Solved == {m \in Nat : m <= Len(list) => \E f : Solves(f, m)}
<1>1. Masses(list) = CHOOSE f : Solves(f, Len(list))
  BY DEF Masses
<1>2. 0 \in Solved
  <2>1. Solves([n \in 0..0 |-> 0], 0)
    OBVIOUS
  <2> QED
    BY <2>1
<1>3. ASSUME NEW m \in Nat, m \in Solved
      PROVE  m + 1 \in Solved
  <2> HIDE DEF Solves
  <2> SUFFICES ASSUME m + 1 <= Len(list)
               PROVE  \E f : Solves(f, m + 1)
    OBVIOUS
  <2> USE DEF Solves
  <2>1. PICK f : Solves(f, m)
    BY <1>3
  <2> DEFINE g == [n \in 0..(m + 1) |-> IF n <= m THEN f[n] ELSE Body(f, n)]
  <2>2. \A n \in 0..m : f[n] = Body(f, n)
    BY <2>1
  <2>3. \A n \in 0..(m + 1) : g[n] = Body(g, n)
    <3> TAKE n \in 0..(m + 1)
    <3>1. n # 0 => g[n - 1] = f[n - 1]
      OBVIOUS
    <3>2. Body(g, n) = Body(f, n)
      BY <3>1
    <3> QED
      BY <2>2, <3>2
  <2>4. Solves(g, m + 1)
    BY <2>3
  <2> QED
    BY <2>4
<1>4. Len(list) \in Solved
  <2> HIDE DEF Solved
  <2> QED
    BY <1>2, <1>3, Induction
<1>5. \E f : Solves(f, Len(list))
  BY <1>4
<1>6. Solves(Masses(list), Len(list))
  <2> HIDE DEF Solves
  <2> QED
    BY <1>1, <1>5
<1> QED
  BY <1>6

(* How the sum goes on, one span after the other. *)
LEMMA MassesStep ==
  ASSUME NEW list \in Seq(SuspicionSpan)
  PROVE  /\ Masses(list)[0] = 0
         /\ \A n \in 1..Len(list) :
              Masses(list)[n] = Masses(list)[n - 1] + Magnitude(list[n])
<1> DEFINE F == Masses(list)
<1>1. F = [n \in 0..Len(list) |-> IF n = 0 THEN 0 ELSE F[n - 1] + Magnitude(list[n])]
  BY MassesUnfolds
<1> HIDE DEF F
<1>2. \A n \in 0..Len(list) : F[n] = IF n = 0 THEN 0 ELSE F[n - 1] + Magnitude(list[n])
  BY <1>1
<1>3. Len(list) \in Nat
  OBVIOUS
<1>4. F[0] = 0
  BY <1>2, <1>3
<1>5. \A n \in 1..Len(list) : n \in 0..Len(list) /\ n # 0
  BY <1>3
<1>6. \A n \in 1..Len(list) : F[n] = F[n - 1] + Magnitude(list[n])
  BY <1>2, <1>5
<1> QED
  BY <1>4, <1>6 DEF F

LEMMA MagnitudeIsInt == ASSUME NEW s \in SuspicionSpan PROVE Magnitude(s) \in Int
<1>1. s.start \in Nat /\ s.end \in Nat
  BY NumbersOf
<1> QED
  BY <1>1 DEF Magnitude

LEMMA MassesAreInts ==
  ASSUME NEW list \in Seq(SuspicionSpan), NEW n \in 0..Len(list)
  PROVE  Masses(list)[n] \in Int
<1> DEFINE Good == {m \in Nat : m <= Len(list) => Masses(list)[m] \in Int}
<1>1. 0 \in Good
  BY MassesStep
<1>2. ASSUME NEW m \in Nat, m \in Good
      PROVE  m + 1 \in Good
  <2> SUFFICES ASSUME m + 1 <= Len(list)
               PROVE  Masses(list)[m + 1] \in Int
    OBVIOUS
  <2>1. Masses(list)[m] \in Int /\ m + 1 \in 1..Len(list) /\ (m + 1) - 1 = m
    BY <1>2
  <2>2. Magnitude(list[m + 1]) \in Int
    BY <2>1, MagnitudeIsInt
  <2> QED
    BY <2>1, <2>2, MassesStep
<1> HIDE DEF Good
<1>3. n \in Good
  BY <1>1, <1>2, Induction
<1> QED
  BY <1>3 DEF Good

(* The sum over the first spans depends on them alone. *)
LEMMA MassesOfPrefix ==
  ASSUME NEW a \in Seq(SuspicionSpan), NEW b \in Seq(SuspicionSpan),
         NEW n \in Nat, n <= Len(a), n <= Len(b), \A i \in 1..n : a[i] = b[i]
  PROVE  Masses(a)[n] = Masses(b)[n]
<1> DEFINE Good == {m \in Nat : m <= n => Masses(a)[m] = Masses(b)[m]}
<1>1. 0 \in Good
  BY MassesStep
<1>2. ASSUME NEW m \in Nat, m \in Good
      PROVE  m + 1 \in Good
  <2> SUFFICES ASSUME m + 1 <= n
               PROVE  Masses(a)[m + 1] = Masses(b)[m + 1]
    OBVIOUS
  <2>1. /\ Masses(a)[m] = Masses(b)[m] /\ a[m + 1] = b[m + 1]
        /\ m + 1 \in 1..Len(a) /\ m + 1 \in 1..Len(b) /\ (m + 1) - 1 = m
    BY <1>2
  <2> QED
    BY <2>1, MassesStep
<1> HIDE DEF Good
<1>3. n \in Good
  BY <1>1, <1>2, Induction
<1> QED
  BY <1>3 DEF Good

LEMMA MassOfAppend ==
  ASSUME NEW list \in Seq(SuspicionSpan), NEW s \in SuspicionSpan
  PROVE  /\ MassOf(Append(list, s)) = MassOf(list) + Magnitude(s)
         /\ MassOf(list) \in Int /\ Magnitude(s) \in Int
<1> DEFINE more == Append(list, s)
           n == Len(list)
<1>1. /\ more \in Seq(SuspicionSpan) /\ Len(more) = n + 1 /\ n \in Nat
      /\ \A i \in 1..n : more[i] = list[i]
      /\ more[n + 1] = s
  BY AppendAll
<1> HIDE DEF more
<1>2. Masses(more)[n] = Masses(list)[n]
  BY <1>1, MassesOfPrefix
<1>3. Masses(more)[n + 1] = Masses(more)[n] + Magnitude(s)
  <2>1. n + 1 \in 1..Len(more) /\ (n + 1) - 1 = n
    BY <1>1
  <2> QED
    BY <1>1, <2>1, MassesStep
<1>4. Masses(list)[n] \in Int
  BY <1>1, MassesAreInts
<1> QED
  BY <1>1, <1>2, <1>3, <1>4, MagnitudeIsInt DEF MassOf, more

LEMMA MassOfNone == MassOf(<<>>) = 0
<1>1. <<>> \in Seq(SuspicionSpan) /\ Len(<<>>) = 0
  OBVIOUS
<1> QED
  BY <1>1, MassesStep DEF MassOf

LEMMA Moved ==
  ASSUME NEW a \in Int, NEW b \in Int, NEW c \in Int, NEW d \in Int, a + b = c
  PROVE  (a + d) + b = c + d /\ a + (b + d) = c + d
OBVIOUS

(* The lists weigh what the loop has dealt with. *)
LEMMA BalanceStep ==
  ASSUME LedgerInv, BalanceInv, [Attribute]_attribution
  PROVE  BalanceInv'
<1>t. /\ suspicion \in Seq(SuspicionSpan) /\ attributed \in Seq(SuspicionSpan)
      /\ unclaimed \in Seq(SuspicionSpan) /\ excluded \in Seq(SuspicionSpan)
      /\ residue \in Seq(SuspicionSpan) /\ todo \in Nat
  BY ListTypes DEF LedgerInv
<1>m. /\ MassOf(attributed) \in Int /\ MassOf(unclaimed) \in Int
      /\ MassOf(excluded) \in Int /\ MassOf(residue) \in Int /\ MassOf(suspicion) \in Int
  <2>1. \A list \in Seq(SuspicionSpan) : MassOf(list) \in Int
    BY MassesAreInts DEF MassOf
  <2> QED
    BY <1>t, <2>1
<1>1. CASE Claim
  <2> DEFINE s == suspicion[todo + 1]
  <2>1. /\ phase = "claim" /\ todo < Len(suspicion) /\ todo' = todo + 1
        /\ \/ attributed' = Append(attributed, s) /\ unclaimed' = unclaimed
           \/ unclaimed' = Append(unclaimed, s) /\ attributed' = attributed
        /\ UNCHANGED <<phase, suspicion>>
    BY <1>1 DEF Claim
  <2>2. todo + 1 \in 1..Len(suspicion) /\ todo \in 0..Len(suspicion) /\ s \in SuspicionSpan
    BY <1>t, <2>1
  <2>3. Masses(suspicion)[todo + 1] = Masses(suspicion)[todo] + Magnitude(s)
    <3>1. (todo + 1) - 1 = todo
      BY <1>t
    <3> QED
      BY <1>t, <2>2, <3>1, MassesStep
  <2> HIDE DEF s
  <2>4. /\ MassOf(Append(attributed, s)) = MassOf(attributed) + Magnitude(s)
        /\ MassOf(Append(unclaimed, s)) = MassOf(unclaimed) + Magnitude(s)
        /\ Magnitude(s) \in Int /\ Masses(suspicion)[todo] \in Int
    BY <1>t, <2>2, MassOfAppend, MassesAreInts
  <2>5. MassOf(attributed) + MassOf(unclaimed) = Masses(suspicion)[todo]
    BY <2>1 DEF BalanceInv
  <2>6. MassOf(attributed') + MassOf(unclaimed') = Masses(suspicion)[todo + 1]
    <3>1. CASE attributed' = Append(attributed, s) /\ unclaimed' = unclaimed
      BY <1>m, <2>3, <2>4, <2>5, <3>1, Moved
    <3>2. CASE unclaimed' = Append(unclaimed, s) /\ attributed' = attributed
      BY <1>m, <2>3, <2>4, <2>5, <3>2, Moved
    <3> QED
      BY <2>1, <3>1, <3>2
  <2> QED
    BY <2>1, <2>6 DEF BalanceInv
<1>2. CASE EndOfClaims
  <2>1. /\ phase = "claim" /\ phase' = "exclude" /\ todo = Len(suspicion) /\ todo' = 0
        /\ UNCHANGED <<suspicion, attributed, unclaimed, excluded, residue>>
    BY <1>2 DEF EndOfClaims
  <2>2. excluded = <<>> /\ residue = <<>>
    BY <1>t, <2>1 DEF LedgerInv, CountInv
  <2>3. Masses(unclaimed)[0] = 0
    BY <1>t, MassesStep
  <2> QED
    BY <2>1, <2>2, <2>3, MassOfNone DEF BalanceInv, MassOf
<1>3. CASE Exclude \/ LeaveAsResidue
  <2> DEFINE s == unclaimed[todo + 1]
  <2>1. /\ phase = "exclude" /\ todo < Len(unclaimed) /\ todo' = todo + 1
        /\ \/ excluded' = Append(excluded, s) /\ residue' = residue
           \/ residue' = Append(residue, s) /\ excluded' = excluded
        /\ UNCHANGED <<phase, suspicion, attributed, unclaimed>>
    BY <1>3 DEF Exclude, LeaveAsResidue
  <2>2. todo + 1 \in 1..Len(unclaimed) /\ todo \in 0..Len(unclaimed) /\ s \in SuspicionSpan
    BY <1>t, <2>1
  <2>3. Masses(unclaimed)[todo + 1] = Masses(unclaimed)[todo] + Magnitude(s)
    <3>1. (todo + 1) - 1 = todo
      BY <1>t
    <3> QED
      BY <1>t, <2>2, <3>1, MassesStep
  <2> HIDE DEF s
  <2>4. /\ MassOf(Append(excluded, s)) = MassOf(excluded) + Magnitude(s)
        /\ MassOf(Append(residue, s)) = MassOf(residue) + Magnitude(s)
        /\ Magnitude(s) \in Int /\ Masses(unclaimed)[todo] \in Int
    BY <1>t, <2>2, MassOfAppend, MassesAreInts
  <2>5. /\ MassOf(excluded) + MassOf(residue) = Masses(unclaimed)[todo]
        /\ MassOf(attributed) + MassOf(unclaimed) = MassOf(suspicion)
    BY <2>1 DEF BalanceInv
  <2>6. MassOf(excluded') + MassOf(residue') = Masses(unclaimed)[todo + 1]
    <3>1. CASE excluded' = Append(excluded, s) /\ residue' = residue
      BY <1>m, <2>3, <2>4, <2>5, <3>1, Moved
    <3>2. CASE residue' = Append(residue, s) /\ excluded' = excluded
      BY <1>m, <2>3, <2>4, <2>5, <3>2, Moved
    <3> QED
      BY <2>1, <3>1, <3>2
  <2> QED
    BY <2>1, <2>5, <2>6 DEF BalanceInv
<1>4. CASE EndOfExclusions
  <2>1. /\ phase = "exclude" /\ phase' = "sort" /\ todo = Len(unclaimed)
        /\ UNCHANGED <<suspicion, attributed, excluded, residue>>
    BY <1>4 DEF EndOfExclusions
  <2>2. /\ MassOf(attributed) + MassOf(unclaimed) = MassOf(suspicion)
        /\ MassOf(excluded) + MassOf(residue) = MassOf(unclaimed)
    BY <2>1 DEF BalanceInv, MassOf
  <2>3. MassOf(attributed) + MassOf(excluded) + MassOf(residue) = MassOf(suspicion)
    BY <1>m, <2>2
  <2> QED
    BY <2>1, <2>3 DEF BalanceInv
<1>5. CASE Sort \/ Cluster1 \/ EndOfClusters
  <2>1. /\ phase \in {"sort", "cluster"} /\ phase' \in {"cluster", "done"}
        /\ UNCHANGED <<suspicion, attributed, excluded, residue>>
    BY <1>5 DEF Sort, Cluster1, EndOfClusters
  <2> QED
    BY <2>1 DEF BalanceInv
<1>6. CASE UNCHANGED attribution
  BY <1>6 DEF BalanceInv
<1> QED
  BY <1>1, <1>2, <1>3, <1>4, <1>5, <1>6 DEF Attribute
-----------------------------------------------------------------------------
(* The clusters are cut from the sorted spans *)

(* Cuts, of the values of the variables. *)
CutsOf(list, parts, last) ==
  {cut \in [0..Len(parts) -> 0..last] :
     /\ cut[0] = 0
     /\ \A i \in 1..Len(parts) : parts[i].spans = SubSeq(list, cut[i - 1] + 1, cut[i])}

LEMMA CutsAre ==
  /\ \A last : Cuts(last) = CutsOf(sorted, clusters, last)
  /\ CutInv' <=>
       /\ phase' = "cluster" =>
            \E cut \in CutsOf(sorted', clusters', todo') :
              todo' > 0 =>
                /\ cut[Len(clusters')] < todo'
                /\ current'.spans = SubSeq(sorted', cut[Len(clusters')] + 1, todo')
                /\ Spanned(current')
       /\ phase' = "done" =>
            \E cut \in CutsOf(sorted', clusters', Len(sorted')) :
              cut[Len(clusters')] = Len(sorted')
       /\ phase' \in {"cluster", "done"} =>
            \A i \in 1..Len(clusters') : Spanned(clusters'[i])
BY DEF CutInv, Cuts, CutsOf

(* No cluster is closed yet. *)
LEMMA NoCuts ==
  ASSUME NEW list, NEW last \in Nat
  PROVE  \E cut \in CutsOf(list, <<>>, last) : cut[Len(<<>>)] = 0
<1> DEFINE cut == [i \in 0..0 |-> 0]
<1>1. cut \in [0..Len(<<>>) -> 0..last] /\ cut[0] = 0 /\ Len(<<>>) = 0
  OBVIOUS
<1> HIDE DEF cut
<1>2. \A i \in 1..Len(<<>>) : FALSE
  BY <1>1
<1> QED
  BY <1>1, <1>2 DEF CutsOf

LEMMA WiderCuts ==
  ASSUME NEW list, NEW parts, NEW last \in Nat, NEW further \in Nat, last <= further,
         NEW cut \in CutsOf(list, parts, last)
  PROVE  cut \in CutsOf(list, parts, further)
<1>1. 0..last \subseteq 0..further
  OBVIOUS
<1>2. cut \in [0..Len(parts) -> 0..further]
  BY <1>1 DEF CutsOf
<1> QED
  BY <1>2 DEF CutsOf

(* One more cluster, from the last cut to here. *)
LEMMA NextCut ==
  ASSUME NEW list, NEW parts \in Seq(Cluster), NEW last \in Nat, NEW c \in Cluster,
         NEW cut \in CutsOf(list, parts, last),
         c.spans = SubSeq(list, cut[Len(parts)] + 1, last)
  PROVE  \E new \in CutsOf(list, Append(parts, c), last) : new[Len(Append(parts, c))] = last
<1> DEFINE more == Append(parts, c)
           n == Len(parts)
           new == [i \in 0..(n + 1) |-> IF i <= n THEN cut[i] ELSE last]
<1>1. /\ Len(more) = n + 1 /\ n \in Nat
      /\ \A i \in 1..n : more[i] = parts[i]
      /\ more[n + 1] = c
  BY AppendAll
<1>2. /\ cut \in [0..n -> 0..last] /\ cut[0] = 0
      /\ \A i \in 1..n : parts[i].spans = SubSeq(list, cut[i - 1] + 1, cut[i])
  BY DEF CutsOf
<1>3. /\ new \in [0..(n + 1) -> 0..last]
      /\ \A i \in 0..n : new[i] = cut[i]
      /\ new[n + 1] = last
  BY <1>1, <1>2
<1> HIDE DEF more, new
<1>4. ASSUME NEW i \in 1..Len(more)
      PROVE  more[i].spans = SubSeq(list, new[i - 1] + 1, new[i])
  <2>1. CASE i \in 1..n
    <3>1. i \in 0..n /\ i - 1 \in 0..n
      BY <1>1, <2>1
    <3> QED
      BY <1>1, <1>2, <1>3, <2>1, <3>1
  <2>2. CASE i = n + 1
    <3>1. i - 1 = n /\ n \in 0..n
      BY <1>1, <2>2
    <3> QED
      BY <1>1, <1>3, <2>2, <3>1
  <2> QED
    BY <1>1, <2>1, <2>2
<1>5. new[0] = 0
  BY <1>1, <1>2, <1>3
<1>6. new \in CutsOf(list, more, last)
  BY <1>1, <1>3, <1>4, <1>5 DEF CutsOf
<1> QED
  BY <1>1, <1>3, <1>6 DEF more

LEMMA SliceGrows ==
  ASSUME NEW S, NEW list \in Seq(S), NEW a \in Nat, NEW b \in Nat, a <= b, b < Len(list)
  PROVE  SubSeq(list, a + 1, b + 1) = Append(SubSeq(list, a + 1, b), list[b + 1])
OBVIOUS

LEMMA SliceOfOne ==
  ASSUME NEW S, NEW list \in Seq(S), NEW n \in 1..Len(list)
  PROVE  SubSeq(list, n, n) = <<list[n]>>
<1> DEFINE one == SubSeq(list, n, n)
<1>1. one \in Seq(S) /\ Len(one) = 1 /\ one[1] = list[n]
  OBVIOUS
<1> HIDE DEF one
<1>2. one = <<list[n]>>
  BY <1>1
<1> QED
  BY <1>2 DEF one

LEMMA SpannedOpened ==
  ASSUME NEW s \in SuspicionSpan
  PROVE  Spanned(Opened(s))
<1>1. Opened(s).spans = <<s>> /\ Opened(s).start = s.start /\ Opened(s).end = s.end
  BY DEF Opened
<1>2. ToSet(Opened(s).spans) = {s}
  BY <1>1 DEF ToSet
<1>3. s.start \in Nat /\ s.end \in Nat
  BY NumbersOf
<1> QED
  BY <1>1, <1>2, <1>3 DEF Spanned

LEMMA SpannedExtended ==
  ASSUME NEW c \in Cluster, NEW s \in SuspicionSpan, Spanned(c),
         \A t \in ToSet(c.spans) : t.start <= s.start
  PROVE  Spanned(Extended(c, s))
<1> DEFINE e == Extended(c, s)
<1>1. /\ e.spans = Append(c.spans, s) /\ e.start = c.start
      /\ e.end = IF s.end > c.end THEN s.end ELSE c.end
  BY DEF Extended, Reach
<1>2. c.spans \in Seq(SuspicionSpan)
  BY DEF Cluster
<1>3. ToSet(e.spans) = ToSet(c.spans) \cup {s} /\ ToSet(c.spans) \subseteq SuspicionSpan
  BY <1>1, <1>2 DEF ToSet
<1> HIDE DEF e
<1>4. /\ s.start \in Nat /\ s.end \in Nat /\ c.start \in Nat /\ c.end \in Nat
      /\ \A t \in ToSet(c.spans) : t.start \in Nat /\ t.end \in Nat
  BY <1>3, NumbersOf
<1>5. /\ \A t \in ToSet(c.spans) : c.start <= t.start /\ t.end <= c.end
      /\ \E t \in ToSet(c.spans) : t.start = c.start
      /\ \E t \in ToSet(c.spans) : t.end = c.end
  BY DEF Spanned
<1>6. c.start <= s.start
  BY <1>5
<1>7. \A t \in ToSet(e.spans) : e.start <= t.start /\ t.end <= e.end
  <2>1. e.start <= s.start /\ s.end <= e.end
    BY <1>1, <1>4, <1>6
  <2>2. \A t \in ToSet(c.spans) : e.start <= t.start /\ t.end <= e.end
    BY <1>1, <1>4, <1>5
  <2> QED
    BY <1>3, <2>1, <2>2
<1>8. \E t \in ToSet(e.spans) : t.start = e.start
  BY <1>1, <1>3, <1>5
<1>9. \E t \in ToSet(e.spans) : t.end = e.end
  BY <1>1, <1>3, <1>5
<1> QED
  BY <1>7, <1>8, <1>9 DEF Spanned, e

(* What a slice of a list holds. *)
LEMMA SliceHolds ==
  ASSUME NEW S, NEW list \in Seq(S), NEW a \in Nat, NEW b \in Nat, b <= Len(list)
  PROVE  \A t \in ToSet(SubSeq(list, a + 1, b)) : \E i \in 1..Len(list) : i <= b /\ t = list[i]
BY DEF ToSet

(* The open cluster begins at the last cut. *)
LEMMA CutsGoOn ==
  ASSUME NEW cut \in CutsOf(sorted', clusters', todo'), phase' = "cluster",
         cut[Len(clusters')] < todo',
         current'.spans = SubSeq(sorted', cut[Len(clusters')] + 1, todo'),
         Spanned(current'), \A i \in 1..Len(clusters') : Spanned(clusters'[i])
  PROVE  CutInv'
BY CutsAre

LEMMA CutStep ==
  ASSUME LedgerInv, CutInv, [Attribute]_attribution
  PROVE  CutInv'
<1>t. /\ sorted \in Seq(SuspicionSpan) /\ todo \in Nat /\ Len(sorted) \in Nat
      /\ current \in Cluster /\ clusters \in Seq(Cluster) /\ Len(clusters) \in Nat
  BY ListTypes DEF LedgerInv, LedgerTypeOK
<1>o. OpenInv
  BY DEF LedgerInv
<1>1. CASE Claim \/ EndOfClaims \/ Exclude \/ LeaveAsResidue \/ EndOfExclusions
  <2>1. phase' \in {"claim", "exclude", "sort"}
    BY <1>1 DEF Claim, EndOfClaims, Exclude, LeaveAsResidue, EndOfExclusions
  <2> QED
    BY <2>1 DEF CutInv
<1>2. CASE Sort
  <2>1. clusters' = <<>> /\ phase' = "cluster" /\ todo' = 0
    BY <1>o, <1>2 DEF Sort, OpenInv
  <2>2. \E cut \in CutsOf(sorted', clusters', 0) : TRUE
    BY <2>1, NoCuts
  <2> QED
    BY <2>1, <2>2, CutsAre
<1>3. CASE Cluster1
  <2> DEFINE s == sorted[todo + 1]
  <2>1. /\ phase = "cluster" /\ phase' = "cluster" /\ todo' = todo + 1
        /\ todo < Len(sorted) /\ sorted' = sorted
        /\ s \in SuspicionSpan /\ todo + 1 \in 1..Len(sorted) /\ todo + 1 \in Nat
    BY <1>t, <1>3 DEF Cluster1
  <2>2. PICK cut \in CutsOf(sorted, clusters, todo) :
          todo > 0 => /\ cut[Len(clusters)] < todo
                      /\ current.spans = SubSeq(sorted, cut[Len(clusters)] + 1, todo)
                      /\ Spanned(current)
    BY <2>1, CutsAre DEF CutInv
  <2>3. cut[Len(clusters)] \in 0..todo
    BY <1>t DEF CutsOf
  <2>4. \A i \in 1..Len(clusters) : Spanned(clusters[i])
    BY <2>1 DEF CutInv
  <2>5. SubSeq(sorted, todo + 1, todo + 1) = <<s>> /\ Opened(s).spans = <<s>>
    BY <1>t, <2>1, SliceOfOne DEF Opened
  <2>6. Spanned(Opened(s))
    BY <2>1, SpannedOpened
  <2> HIDE DEF s
  <2>7. CASE todo = 0
    <3>1. current' = Opened(s) /\ clusters' = clusters /\ clusters = <<>>
      BY <1>o, <1>3, <2>1, <2>7 DEF Cluster1, OpenInv, s
    <3>2. PICK new \in CutsOf(sorted, <<>>, todo + 1) : new[Len(<<>>)] = 0
      BY <2>1, NoCuts
    <3>3. /\ new[Len(clusters')] < todo + 1
          /\ current'.spans = SubSeq(sorted, new[Len(clusters')] + 1, todo + 1)
      <4>1. clusters' = <<>> /\ new[Len(clusters')] = todo
        BY <2>7, <3>1, <3>2
      <4>2. todo < todo + 1
        BY <1>t
      <4>3. current'.spans = SubSeq(sorted, todo + 1, todo + 1)
        BY <2>5, <3>1
      <4> QED
        BY <4>1, <4>2, <4>3
    <3>4. new \in CutsOf(sorted', clusters', todo') /\ Spanned(current')
      BY <2>1, <2>6, <3>1, <3>2
    <3>5. \A i \in 1..Len(clusters') : Spanned(clusters'[i])
      BY <2>4, <3>1
    <3> QED
      BY <2>1, <3>3, <3>4, <3>5, CutsGoOn
  <2>8. CASE todo > 0 /\ Near(current, s)
    <3>1. current' = Extended(current, s) /\ clusters' = clusters
      BY <1>3, <1>t, <2>8 DEF Cluster1, s
    <3>2. cut \in CutsOf(sorted, clusters, todo + 1)
      <4>1. todo <= todo + 1
        BY <1>t
      <4> QED
        BY <1>t, <2>1, <4>1, WiderCuts
    <3>3. current'.spans = SubSeq(sorted, cut[Len(clusters)] + 1, todo + 1)
      <4>1. current'.spans = Append(current.spans, s)
        BY <3>1 DEF Extended
      <4>2. SubSeq(sorted, cut[Len(clusters)] + 1, todo + 1)
              = Append(SubSeq(sorted, cut[Len(clusters)] + 1, todo), sorted[todo + 1])
        <5>1. cut[Len(clusters)] \in Nat /\ cut[Len(clusters)] <= todo
          BY <1>t, <2>3
        <5> QED
          BY <1>t, <2>1, <5>1, SliceGrows
      <4> QED
        BY <2>2, <2>8, <4>1, <4>2 DEF s
    <3>4. \A t \in ToSet(current.spans) : t.start <= s.start
      <4> SUFFICES ASSUME NEW t \in ToSet(current.spans)
                   PROVE  t.start <= s.start
        OBVIOUS
      <4>1. PICK i \in 1..Len(sorted) : i <= todo /\ t = sorted[i]
        <5>1. cut[Len(clusters)] \in Nat
          BY <1>t, <2>3
        <5>2. todo <= Len(sorted)
          BY <1>t, <2>1
        <5>3. t \in ToSet(SubSeq(sorted, cut[Len(clusters)] + 1, todo))
          BY <2>2, <2>8
        <5> QED
          BY <1>t, <5>1, <5>2, <5>3, SliceHolds
      <4>2. i < todo + 1
        BY <1>t, <4>1
      <4> QED
        BY <1>o, <2>1, <4>1, <4>2 DEF OpenInv, s
    <3>5. Spanned(current')
      BY <1>t, <2>1, <2>2, <2>8, <3>1, <3>4, SpannedExtended
    <3>6. cut[Len(clusters)] < todo + 1
      BY <1>t, <2>3
    <3>7. cut \in CutsOf(sorted', clusters', todo')
      BY <2>1, <3>1, <3>2
    <3>8. \A i \in 1..Len(clusters') : Spanned(clusters'[i])
      BY <2>4, <3>1
    <3> QED
      BY <2>1, <3>1, <3>3, <3>5, <3>6, <3>7, <3>8, CutsGoOn
  <2>9. CASE todo > 0 /\ ~Near(current, s)
    <3>1. current' = Opened(s) /\ clusters' = Append(clusters, current)
      BY <1>3, <1>t, <2>9 DEF Cluster1, s
    <3>2. PICK new \in CutsOf(sorted, clusters', todo) : new[Len(clusters')] = todo
      <4>1. current.spans = SubSeq(sorted, cut[Len(clusters)] + 1, todo)
        BY <2>2, <2>9
      <4>2. \E new \in CutsOf(sorted, Append(clusters, current), todo) :
              new[Len(Append(clusters, current))] = todo
        BY <1>t, <2>2, <4>1, NextCut
      <4> QED
        BY <3>1, <4>2
    <3>3. new \in CutsOf(sorted, clusters', todo + 1)
      <4>1. todo <= todo + 1
        BY <1>t
      <4> QED
        BY <1>t, <2>1, <4>1, WiderCuts
    <3>4. /\ new[Len(clusters')] < todo + 1
          /\ current'.spans = SubSeq(sorted, new[Len(clusters')] + 1, todo + 1)
      <4>1. todo < todo + 1
        BY <1>t
      <4>2. current'.spans = SubSeq(sorted, todo + 1, todo + 1)
        BY <2>5, <3>1
      <4> QED
        BY <3>2, <4>1, <4>2
    <3>5. \A i \in 1..Len(clusters') : Spanned(clusters'[i])
      <4>1. /\ Len(clusters') = Len(clusters) + 1 /\ clusters'[Len(clusters) + 1] = current
            /\ \A i \in 1..Len(clusters) : clusters'[i] = clusters[i]
        BY <1>t, <3>1, AppendAll
      <4>2. \A i \in 1..Len(clusters') : i \in 1..Len(clusters) \/ i = Len(clusters) + 1
        BY <1>t, <4>1
      <4> QED
        BY <2>2, <2>4, <2>9, <4>1, <4>2
    <3>6. new \in CutsOf(sorted', clusters', todo') /\ Spanned(current')
      BY <2>1, <2>6, <3>1, <3>3
    <3> QED
      BY <2>1, <3>4, <3>5, <3>6, CutsGoOn
  <2> QED
    BY <1>t, <2>7, <2>8, <2>9
<1>4. CASE EndOfClusters
  <2>1. /\ phase = "cluster" /\ phase' = "done" /\ todo = Len(sorted) /\ sorted' = sorted
        /\ clusters' = IF sorted = <<>> THEN clusters ELSE Append(clusters, current)
    BY <1>4 DEF EndOfClusters
  <2>2. PICK cut \in CutsOf(sorted, clusters, todo) :
          todo > 0 => /\ cut[Len(clusters)] < todo
                      /\ current.spans = SubSeq(sorted, cut[Len(clusters)] + 1, todo)
                      /\ Spanned(current)
    BY <2>1, CutsAre DEF CutInv
  <2>3. \A i \in 1..Len(clusters) : Spanned(clusters[i])
    BY <2>1 DEF CutInv
  <2>4. CASE sorted = <<>>
    <3>1. clusters' = <<>> /\ Len(sorted) = 0
      BY <1>o, <2>1, <2>4 DEF OpenInv
    <3>2. \E new \in CutsOf(sorted', clusters', 0) : new[Len(clusters')] = 0
      BY <3>1, NoCuts
    <3>3. clusters' = clusters
      BY <2>1, <2>4
    <3> QED
      BY <2>1, <2>3, <3>1, <3>2, <3>3, CutsAre
  <2>5. CASE sorted # <<>>
    <3>1. clusters' = Append(clusters, current) /\ todo > 0
      BY <1>t, <2>1, <2>5
    <3>2. \E new \in CutsOf(sorted, clusters', todo) : new[Len(clusters')] = todo
      <4>1. current.spans = SubSeq(sorted, cut[Len(clusters)] + 1, todo)
        BY <2>2, <3>1
      <4>2. \E new \in CutsOf(sorted, Append(clusters, current), todo) :
              new[Len(Append(clusters, current))] = todo
        BY <1>t, <2>2, <4>1, NextCut
      <4> QED
        BY <3>1, <4>2
    <3>3. \A i \in 1..Len(clusters') : Spanned(clusters'[i])
      <4>1. /\ Len(clusters') = Len(clusters) + 1 /\ clusters'[Len(clusters) + 1] = current
            /\ \A i \in 1..Len(clusters) : clusters'[i] = clusters[i]
        BY <1>t, <3>1, AppendAll
      <4>2. \A i \in 1..Len(clusters') : i \in 1..Len(clusters) \/ i = Len(clusters) + 1
        BY <1>t, <4>1
      <4> QED
        BY <2>2, <2>3, <3>1, <4>1, <4>2
    <3> QED
      BY <2>1, <3>2, <3>3, CutsAre
  <2> QED
    BY <2>4, <2>5
<1>5. CASE UNCHANGED attribution
  BY <1>5, CutsAre DEF CutInv
<1> QED
  BY <1>1, <1>2, <1>3, <1>4, <1>5 DEF Attribute
-----------------------------------------------------------------------------
(* From the bytes to the certificate *)

(* The spans of an extractor are spans a ledger takes. *)
LEMMA SpansAreSuspicion == Span \subseteq SuspicionSpan
<1>1. 0..Size \subseteq Place
  <2>1. Size \in Nat /\ Bytes \in Nat /\ Size <= Bytes
    BY SizesAssumption, NumbersAreNat, LedgerTakesSpans
  <2> QED
    BY <2>1 DEF Place
<1> QED
  BY <1>1, LedgerTakesSpans DEF Span, SuspicionSpan

LEMMA LedgerStep ==
  ASSUME LedgerInv, [Attribute]_attribution
  PROVE  LedgerInv'
BY TypeStep, ClaimedStep, RecordStep, CountStep, ClusterStep DEF LedgerInv

LEMMA StartBalances == LedgerInit => BalanceInv /\ CutInv
<1> SUFFICES ASSUME NEW taken \in Seq(SuspicionSpan), NEW ranges \in SUBSET FindingRange,
                    Start(taken, ranges)
             PROVE  BalanceInv /\ CutInv
  BY DEF LedgerInit
<1>1. /\ phase = "claim" /\ todo = 0 /\ suspicion = taken
      /\ attributed = <<>> /\ unclaimed = <<>>
  BY DEF Start
<1>2. Masses(taken)[0] = 0
  BY MassesStep
<1> QED
  BY <1>1, <1>2, MassOfNone DEF BalanceInv, CutInv

(* The same of a ledger that starts with the next state. *)
LEMMA LedgerStarts == LedgerInit' => LedgerInv' /\ BalanceInv' /\ CutInv'
BY StartInv, StartBalances, PTL

(* A new call of an extractor, and no ledger yet. *)
LEMMA MassStart == Init => MassInv
<1> SUFFICES ASSUME Init
             PROVE  MassInv
  OBVIOUS
<1>1. ExtractorsInv
  BY ExtractorsStart DEF Init
<1>2. LedgerInit
  <2>1. <<>> \in Seq(SuspicionSpan) /\ {} \in SUBSET FindingRange
    OBVIOUS
  <2> QED
    BY <2>1 DEF Init, LedgerInit
<1>3. LedgerInv /\ BalanceInv /\ CutInv
  BY <1>2, StartInv, StartBalances
<1> QED
  BY <1>1, <1>3 DEF Init, MassInv, CertificateInv

(* The spans of the extractor, in an order, are those of a ledger that     *)
(* starts.                                                                 *)
LEMMA ComputeStarts ==
  ASSUME MassInv, compute_ledger
  PROVE  LedgerInit'
<1>1. PICK order \in Orders(spans) : suspicion' = InOrder(spans, order)
  BY DEF compute_ledger
<1>2. spans \in Seq(SuspicionSpan)
  <2>1. spans \in Seq(Span)
    BY DEF MassInv, ExtractorsInv, ExtractorsTypeOK
  <2> QED
    BY <2>1, SpansAreSuspicion
<1>3. suspicion' \in Seq(SuspicionSpan)
  BY <1>1, <1>2, OrderedIs
<1>4. findings' \in SUBSET FindingRange
  BY RangesAssumption DEF compute_ledger
<1>5. Start(<<>>, {})
  BY DEF MassInv, compute_ledger
<1>6. /\ phase' = "claim" /\ todo' = 0
      /\ attributed' = <<>> /\ unclaimed' = <<>> /\ excluded' = <<>> /\ residue' = <<>>
      /\ records' = <<>> /\ sorted' = <<>> /\ current' = NoCluster /\ clusters' = <<>>
  BY <1>5 DEF Start, compute_ledger
<1> QED
  BY <1>3, <1>4, <1>6 DEF LedgerInit, Start

LEMMA MassStep == MassInv /\ [Next]_vars => MassInv'
<1> SUFFICES ASSUME MassInv, [Next]_vars
             PROVE  MassInv'
  OBVIOUS
<1>i. /\ ExtractorsInv /\ LedgerInv /\ BalanceInv /\ CertificateInv /\ CutInv
      /\ called \in BOOLEAN /\ (~called => Start(<<>>, {}))
  BY DEF MassInv
<1>u. ASSUME UNCHANGED attribution
      PROVE  LedgerInv' /\ BalanceInv' /\ CutInv' /\ (Start(<<>>, {}) => Start(<<>>, {})')
  <2>1. LedgerInv' /\ BalanceInv' /\ CutInv'
    BY <1>i, <1>u, LedgerStep, BalanceStep, CutStep
  <2>2. Start(<<>>, {}) => Start(<<>>, {})'
    BY <1>u DEF Start
  <2> QED
    BY <2>1, <2>2
<1>1. CASE RunExtractor
  <2>1. ExtractorsInv'
    BY <1>i, <1>1, ExtractorsStep DEF RunExtractor
  <2>2. UNCHANGED <<attribution, called, certificate>>
    BY <1>1 DEF RunExtractor
  <2>3. CertificateInv'
    BY <1>i, <2>2 DEF CertificateInv
  <2> QED
    BY <1>i, <1>u, <2>1, <2>2, <2>3 DEF MassInv
<1>2. CASE compute_ledger
  <2>1. LedgerInv' /\ BalanceInv' /\ CutInv'
    BY <1>2, ComputeStarts, LedgerStarts
  <2>2. UNCHANGED <<extraction, certificate, phase>> /\ called' = TRUE
    BY <1>2 DEF compute_ledger
  <2>3. ExtractorsInv'
    BY <1>i, <2>2, ExtractorsStep
  <2>4. certificate = None
    BY <1>i, <1>2 DEF CertificateInv, compute_ledger, Start
  <2>5. CertificateInv'
    BY <2>2, <2>4 DEF CertificateInv
  <2> QED
    BY <2>1, <2>2, <2>3, <2>5 DEF MassInv
<1>3. CASE RunLedger
  <2>1. Attribute /\ called /\ UNCHANGED <<extraction, called, certificate>>
    BY <1>3 DEF RunLedger
  <2>2. LedgerInv' /\ BalanceInv' /\ CutInv'
    BY <1>i, <2>1, LedgerStep, BalanceStep, CutStep
  <2>3. ExtractorsInv'
    BY <1>i, <2>1, ExtractorsStep
  <2>4. certificate = None
    <3>1. phase # "done"
      BY <2>1 DEF Attribute, Claim, EndOfClaims, Exclude, LeaveAsResidue, EndOfExclusions,
                  Sort, Cluster1, EndOfClusters
    <3> QED
      BY <1>i, <3>1 DEF CertificateInv
  <2>5. CertificateInv'
    BY <2>1, <2>4 DEF CertificateInv
  <2> QED
    BY <1>i, <2>1, <2>2, <2>3, <2>5 DEF MassInv
<1>4. CASE generate_coverage_certificate
  <2>1. /\ phase = "done" /\ UNCHANGED <<extraction, attribution, called>>
        /\ certificate' = [total |-> MassOf(suspicion), attributed |-> MassOf(attributed),
                           excluded |-> MassOf(excluded), residue |-> MassOf(residue),
                           count |-> Len(clusters), top |-> TopClusters]
    BY <1>4 DEF generate_coverage_certificate
  <2>2. ExtractorsInv'
    BY <1>i, <2>1, ExtractorsStep
  <2>3. CertificateInv'
    BY <2>1 DEF CertificateInv
  <2> QED
    BY <1>i, <1>u, <2>1, <2>2, <2>3 DEF MassInv
<1>5. CASE UNCHANGED vars
  <2>1. UNCHANGED <<extraction, called, certificate>> /\ UNCHANGED attribution
    BY <1>5 DEF vars
  <2>2. ExtractorsInv'
    BY <1>i, <2>1, ExtractorsStep
  <2>3. CertificateInv'
    BY <1>i, <2>1 DEF CertificateInv
  <2> QED
    BY <1>i, <1>u, <2>1, <2>2, <2>3 DEF MassInv
<1> QED
  BY <1>1, <1>2, <1>3, <1>4, <1>5 DEF Next

(* From bytes to certificate, the invariant holds in every reachable state.*)
THEOREM MassInvariant == Spec => []MassInv
BY MassStart, MassStep, PTL DEF Spec

(* Nothing an extractor found is lost, and no mass is made up, for every   *)
(* artifact and whatever matches, decodes or is dense in it.               *)
THEOREM SpansCoverTheHits == Spec => []SpansCoverHits
<1>1. MassInv => SpansCoverHits
  BY DEF MassInv, ExtractorsInv
<1> QED
  BY <1>1, MassInvariant, PTL

(* The lists of a ledger may be taken for what they are called.            *)
THEOREM LedgerOfArtifactIsSound == Spec => []LedgerSound
<1>1. MassInv => LedgerSound
  BY DEF MassInv, LedgerInv, LedgerSound
<1> QED
  BY <1>1, MassInvariant, PTL

(* The clusters are the residue, cut at gaps wider than gap_threshold, and *)
(* each is named by all the bytes of its spans.                            *)
THEOREM ClustersPartitionResidue == Spec => []ClustersPartition
<1>1. MassInv => ClustersPartition
  BY DEF MassInv, LedgerInv, CutInv, ClustersPartition
<1> QED
  BY <1>1, MassInvariant, PTL

(* A certificate conserves mass, to the byte.                              *)
THEOREM CertificateConserves == Spec => []Conservation
<1>1. MassInv => Conservation
  <2> SUFFICES ASSUME MassInv, certificate # None
               PROVE  certificate.attributed + certificate.excluded + certificate.residue
                        = certificate.total
    BY DEF Conservation
  <2> QED
    BY DEF MassInv, CertificateInv, BalanceInv
<1> QED
  BY <1>1, MassInvariant, PTL
=============================================================================
