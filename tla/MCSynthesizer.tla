---------------------------- MODULE MCSynthesizer ----------------------------
(* Instance of Synthesizer for TLC: S1 and S2 have room for all their evidence *)
(* and answers that cite it in every way, S3 has evidence beyond the budget.   *)
EXTENDS Synthesizer, TLC

Row(id, s, p, conf, chars) ==
  [id |-> id, section |-> s, paper |-> p, conf |-> conf, chars |-> chars]

\* No section, one, two different ones, the same one twice; packing alone and
\* before a section that has none.
SmallOutlines == {<<>>, <<"S1">>, <<"S1", "S2">>, <<"S1", "S1">>, <<"S3">>, <<"S3", "S1">>}

\* Two papers in S1, one of which is in S2 too, or S2 without evidence.
TwoSections == {{Row(1, "S1", "p", 90, 72), Row(2, "S1", "q", 50, 72)} \cup S2
                  : S2 \in {{}, {Row(3, "S2", "p", 70, 72)}}}

\* Lists of at most one entry and of one entry for each of two papers, with the
\* evidence of the other section and evidence that does not exist.
TwoPaperLists ==
  {{}} \cup {{r} : r \in [papers : SUBSET {"p", "q"}, ids : SUBSET (1..3)]}
       \cup {{[papers |-> {"p"}, ids |-> I], [papers |-> {"q"}, ids |-> J]}
                : I \in {{1}, {2}, {3}}, J \in {{1}, {2}, {3}, {1, 2}}}

\* One section of three papers, the first of two rows: all confidences and sizes
\* of a small set, which fill the budget in every way.
ThreePapers ==
  {{Row(4, "S3", "t", c[1], n[1]), Row(5, "S3", "t", c[2], n[2]),
    Row(6, "S3", "u", c[3], n[3]), Row(7, "S3", "v", c[4], n[4])}
     : c \in [1..4 -> {50, 90}], n \in [1..4 -> {72, 75, 199}]}

FirstRow == [t |-> 4, u |-> 6, v |-> 7]

\* For each set of papers, one entry for each of them, citing its first row.
PlainLists == {{[papers |-> {p}, ids |-> {FirstRow[p]}] : p \in S} : S \in SUBSET {"t", "u", "v"}}

AllStores == TwoSections \cup ThreePapers

\* The estimate on which the proof about dropped papers rests, on these stores.
ASSUME GrowingEstimate == EstimateGrows

AllLists == TwoPaperLists \cup PlainLists
=============================================================================
