-------------------------- MODULE JComponentManager --------------------------
(***************************************************************************)
(* Services/JComponentManager: the components registered with the          *)
(* application, under the name of the plugin that is being loaded, and the *)
(* event sources found for the source names that the user gave.            *)
(*                                                                         *)
(* A component is a record of its kind, level, the child level of an       *)
(* unfolder, the parameters its Init() declares, the type of sources a     *)
(* generator makes and how well it can open each name, a source's own      *)
(* limit of events, its plugin name, and `adder', who registered it.       *)
(***************************************************************************)
EXTENDS Naturals, Sequences, FiniteSets, SequencesExt

NoManager ==
    [current |-> "", names |-> <<>>, generators |-> <<>>, factories |-> <<>>,
     sources |-> <<>>, processors |-> <<>>, unfolders |-> <<>>]

next_plugin(cm, n) == [cm EXCEPT !.current = n]

\* add(), one overload for each kind of component.
add(cm, c, adder) ==
    LET r == [c EXCEPT !.plugin = cm.current, !.adder = adder]
    IN  CASE c.kind = "generator" -> [cm EXCEPT !.generators = Append(@, r)]
          [] c.kind = "factory"   -> [cm EXCEPT !.factories = Append(@, r)]
          [] c.kind = "source"    -> [cm EXCEPT !.sources = Append(@, r)]
          [] c.kind = "processor" -> [cm EXCEPT !.processors = Append(@, r)]
          [] c.kind = "unfolder"  -> [cm EXCEPT !.unfolders = Append(@, r)]

add_name(cm, n) == [cm EXCEPT !.names = Append(@, n)]

\* The generators of the type the user asked for.
OfType(cm, type) == {i \in DOMAIN cm.generators : cm.generators[i].type = type}

\* The generators that can open a name better than any before them and not
\* worse than any after them.
Best(cm, n) ==
    {i \in DOMAIN cm.generators :
        LET like == [j \in DOMAIN cm.generators |-> cm.generators[j].openable[n]]
        IN  /\ like[i] > 0
            /\ \A j \in DOMAIN like : IF j < i THEN like[j] < like[i] ELSE like[j] <= like[i]}

\* resolve_event_source(): the user's choice, or the best generator.
Candidates(cm, type, n) ==
    IF type = "" THEN Best(cm, n)
    ELSE {i \in OfType(cm, type) : \A j \in OfType(cm, type) : i <= j}

ResolveThrows(cm, type) ==
    \/ type # "" /\ OfType(cm, type) = {}
    \/ \E k \in DOMAIN cm.names : Candidates(cm, type, cm.names[k]) = {}

MakeSource(cm, type, n) ==
    LET g == cm.generators[CHOOSE i \in Candidates(cm, type, n) : TRUE]
    IN  [g EXCEPT !.kind = "source"]

\* resolve_event_sources(): a source for every name, and the global limit for
\* every source without a limit of its own.
resolve_event_sources(cm, type, nevents) ==
    LET made == [k \in DOMAIN cm.names |-> MakeSource(cm, type, cm.names[k])]
        limit(s) == IF s.nevents = "0" THEN [s EXCEPT !.nevents = nevents] ELSE s
    IN  [cm EXCEPT !.sources = [k \in DOMAIN (cm.sources \o made) |->
                                   limit((cm.sources \o made)[k])]]
=============================================================================
