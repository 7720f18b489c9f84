------------------------------ MODULE MCStartup ------------------------------
(* Small instances of Startup: three plugins, of which B is found in two    *)
(* directories, components at two levels, of which two disagree on the      *)
(* default of their threshold, and a few command lines.                     *)
EXTENDS Startup, TLC

TwoLevelNames == <<"Timeslice", "PhysicsEvent">>

Spellings == "A" :> "A" @@ "B" :> "B" @@ "B.so" :> "B" @@ "C" :> "C"

Directories == "A" :> {1} @@ "B" :> {1, 2} @@ "C" :> {2}

Component(kind, level, declares) ==
    [kind |-> kind, level |-> level, child |-> "PhysicsEvent", declares |-> declares,
     type |-> "", openable |-> "file" :> 0, nevents |-> "0", plugin |-> "", adder |-> ""]

\* An opener of files that is not sure, and one that is.
Opener(type, level, likelihood) ==
    [Component("generator", level, <<>>) EXCEPT !.type = type, !.openable = "file" :> likelihood]

SomeComponents ==
    {Component("source", "Timeslice", <<>>),
     Component("unfolder", "Timeslice", <<>>),
     Component("processor", "Timeslice", <<>>),
     Component("processor", "PhysicsEvent", <<<<"threshold", <<"3">>>>>>),
     Component("factory", "PhysicsEvent", <<<<"threshold", <<"4">>>>>>),
     Opener("JGuess", "Timeslice", 1),
     Opener("JReader", "PhysicsEvent", 2)}

SomeSettings ==
    {<<"jana:event_pool_size", <<"2">>>>, <<"jana:nevents", <<"5">>>>, <<"threshold", <<"7">>>>}

SomeDefaults == {<<"threshold", <<"3">>>>}

SomeServices == {"JTopologyBuilder"}

SomeCommandLines ==
    {[params |-> <<>>, file |-> <<>>, names |-> <<>>],
     [params |-> <<<<"plugins", <<"A">>>>, <<"nthreads", <<"8">>>>>>,
      file |-> <<<<"nthreads", <<"Ncores">>>>, <<"threshold", <<"9">>>>>>, names |-> <<"file">>],
     [params |-> <<<<"plugins", <<"A", "B">>>>, <<"plugins", <<"C">>>>,
                   <<"plugins_to_ignore", <<"B.so">>>>, <<"jana:parameter_strictness", <<"2">>>>>>,
      file |-> <<<<"nthreads", <<"Ncores">>>>, <<"event_source_type", <<"JGuess">>>>>>,
      names |-> <<"file">>]}
=============================================================================
