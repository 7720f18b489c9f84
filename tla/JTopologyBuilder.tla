--------------------------- MODULE JTopologyBuilder ---------------------------
(***************************************************************************)
(* Topology/JTopologyBuilder: which arrows, queues and pools are made for  *)
(* the components that have been registered, and how they are wired.       *)
(*                                                                         *)
(* A topology is a record of its arrows in the order of `arrows', of the   *)
(* listeners (pairs of indices, from attach()), of the number of queues    *)
(* and of the levels that have a pool.  An arrow fills its named places    *)
(* with queues and pools.                                                  *)
(*                                                                         *)
(* As in JScheduler, a definition that directly precedes another and       *)
(* differs from it in one place is a faulty variant no specification uses. *)
(***************************************************************************)
EXTENDS Naturals, Sequences, FiniteSets, SequencesExt

CONSTANT Levels   \* the event levels, from the top of the hierarchy down

Queue(n) == [kind |-> "queue", queue |-> n, level |-> "None"]
Pool(l)  == [kind |-> "pool", queue |-> 0, level |-> l]

NoTopology ==
    [throws |-> FALSE, arrows |-> <<>>, listeners |-> {}, queues |-> 0, pools |-> {}]

AtLevel(components, l) == SelectSeq(components, LAMBDA c : c.level = l)

Arrow(kind, places, components, sink) ==
    [kind |-> kind, places |-> places, components |-> components, is_sink |-> sink]

SourceArrow(sources, q, pool) ==
    Arrow("source", [input |-> pool, output |-> q], sources, FALSE)

TapArrow(q, output, processors, sink) ==
    Arrow("tap", [input |-> q, output |-> output], processors, sink)

\* attach_lower_level() throws for components it does not support and if there
\* is nothing to do at the level.
LowerLevelThrows(cm, l) ==
    \/ AtLevel(cm.sources, l) # <<>>
    \/ AtLevel(cm.unfolders, l) # <<>>
    \/ AtLevel(cm.processors, l) = <<>>

\* One level: its source feeds its tap.
SingleLevel(cm, l) ==
    [throws |-> FALSE,
     arrows |-> <<SourceArrow(AtLevel(cm.sources, l), Queue(1), Pool(l)),
                  TapArrow(Queue(1), Pool(l), AtLevel(cm.processors, l), TRUE)>>,
     listeners |-> {<<1, 2>>}, queues |-> 1, pools |-> {l}]

\* (What the unfold arrow was constructed with stays in its child_out.)
AttachLowerLevel_KeepsPlaceholder(cm, child, unfold, fold, found_sink) ==
    [unfold |-> [unfold EXCEPT !.places.child_in = Pool(child)],
     tap    |-> TapArrow(Queue(3), Queue(4), AtLevel(cm.processors, child), ~found_sink),
     fold   |-> [fold EXCEPT !.places.child_in = Queue(4), !.places.child_out = Pool(child)]]

\* attach_lower_level(): the tap of the lower level, between the two queues that
\* connect it with the unfold and the fold arrow.
AttachLowerLevel(cm, child, unfold, fold, found_sink) ==
    [unfold |-> [unfold EXCEPT !.places.child_in = Pool(child), !.places.child_out = Queue(3)],
     tap    |-> TapArrow(Queue(3), Queue(4), AtLevel(cm.processors, child), ~found_sink),
     fold   |-> [fold EXCEPT !.places.child_in = Queue(4), !.places.child_out = Pool(child)]]

\* Two levels.  The unfold and the fold arrow are constructed with placeholders.
\* If there are processors at the upper level, their tap is the sink.
TwoLevels(cm, l, child) ==
    LET processors == AtLevel(cm.processors, l)
        found_sink == processors # <<>>
        unfold == Arrow("unfold", [parent_in |-> Queue(2), child_in |-> Pool(l),
                                   child_out |-> Queue(2)], AtLevel(cm.unfolders, l), FALSE)
        fold   == Arrow("fold", [child_in |-> Queue(2), child_out |-> Pool(l),
                                 parent_out |-> Pool(l)], <<>>, FALSE)
        lower  == AttachLowerLevel(cm, child, unfold, fold, found_sink)
        head   == <<SourceArrow(AtLevel(cm.sources, l), Queue(1), Pool(l)),
                    Arrow("map", [input |-> Queue(1), output |-> Queue(2)], <<>>, FALSE),
                    lower.unfold, lower.tap>>
        links  == {<<1, 2>>, <<2, 3>>, <<3, 4>>, <<4, 5>>}
    IN  IF found_sink
        THEN [throws |-> FALSE,
              arrows |-> head \o <<[lower.fold EXCEPT !.places.parent_out = Queue(5)],
                                   TapArrow(Queue(5), Pool(l), processors, TRUE)>>,
              listeners |-> links \cup {<<5, 6>>}, queues |-> 5, pools |-> {l, child}]
        ELSE [throws |-> FALSE, arrows |-> Append(head, lower.fold), listeners |-> links,
              queues |-> 4, pools |-> {l, child}]

\* attach_top_level(): the first level with a source is the top.
Build(cm) ==
    LET withSources == {i \in DOMAIN Levels : AtLevel(cm.sources, Levels[i]) # <<>>}
    IN  IF withSources = {} THEN NoTopology
        ELSE LET l == Levels[CHOOSE i \in withSources : \A j \in withSources : i <= j]
                 unfolders == AtLevel(cm.unfolders, l)
             IN  IF unfolders = <<>> THEN SingleLevel(cm, l)
                 ELSE IF Len(unfolders) > 1 \/ LowerLevelThrows(cm, unfolders[1].child)
                      THEN [NoTopology EXCEPT !.throws = TRUE]
                      ELSE TwoLevels(cm, l, unfolders[1].child)
=============================================================================
