-------------------------- MODULE MCAnnotationView --------------------------
(* A short recording, one word, and an annotation with an interval layer    *)
(* that has one anchor and a layer of instants that has one.                *)
EXTENDS AnnotationView

CONSTANTS w, a

MCTexts == {<<>>, <<w>>}

Interval(s, e, text) == [start |-> s, end |-> e, text |-> text]

MCDocuments == {
    << [label |-> a, instants |-> FALSE, events |-> <<Interval(0, 1, <<>>), Interval(1, Duration, <<w>>)>>],
       [label |-> a, instants |-> TRUE, events |-> <<Interval(1, 1, <<w>>)>>] >>,
    << [label |-> a, instants |-> FALSE, events |-> <<Interval(0, Duration, <<>>)>>],
       [label |-> a, instants |-> FALSE, events |-> <<Interval(0, 1, <<>>), Interval(1, Duration, <<w>>)>>] >> }
=============================================================================
