------------------------------- MODULE Startup -------------------------------
(***************************************************************************)
(* From the command line to a topology that can run: CreateJApplication(), *)
(* the calls of the main program, JApplication::Initialize() with its      *)
(* services, plugins and components, and the check of the parameters in    *)
(* Run().  Everything happens on one thread, but the plugins decide what   *)
(* happens: InitPlugin() calls back into the application, may add further  *)
(* plugins, and may throw.                                                 *)
(*                                                                         *)
(* As in JScheduler, a definition that directly precedes another and       *)
(* differs from it in one place is a faulty variant no specification uses. *)
(***************************************************************************)
EXTENDS JParameterManager, JPluginLoader, JComponentManager, JTopologyBuilder

CONSTANTS
    CommandLines,    \* records of the -P options, the config file and the source names
    Settings,        \* pairs of a key and a value for SetParameterValue()
    Components,      \* the components that may be added
    Defaults,        \* pairs of a key and a default that callers may declare
    EarlyServices,   \* services a caller may ask for before they are needed
    NumCpus,         \* JCpuInfo::GetNumCpus()
    MaxCalls         \* bound on the calls of the main program and the plugins

VARIABLES
    pc,       \* where the main thread is
    app,      \* the application and its services
    calls,    \* how many calls have been made
    given,    \* key -> the value that was set for it last, by anyone
    late,     \* the keys that were set after the engine had read them
    asked     \* the plugins that AddPlugin() was called with

vars == <<pc, app, calls, given, late, asked>>

Set(f, k, v) == [x \in DOMAIN f \cup {k} |-> IF x = k THEN v ELSE f[x]]

NewApp ==
    [params |-> <<>>, initialized |-> {}, loader |-> NewLoader, cm |-> NoManager,
     event_pool_size |-> "4", nthreads |-> "1", nevents |-> "0", source_type |-> "",
     held |-> <<>>, topology |-> NoTopology]

Init ==
    /\ pc = "command_line"
    /\ app = NewApp
    /\ calls = 0
    /\ given = <<>>
    /\ late = {}
    /\ asked = {}

-----------------------------------------------------------------------------
(* The command line: JMain.cc.                                             *)

\* Of two options for the same key, options.params.insert() keeps the first.
FirstOfEach(pairs) ==
    FoldLeft(LAMBDA acc, p : IF p[1] \in DOMAIN acc THEN acc ELSE Set(acc, p[1], p[2]),
             <<>>, pairs)

CreateJApplication(cl) ==
    LET options  == FirstOfEach(cl.params)
        fromUser == [k \in DOMAIN options |->
                        [value |-> options[k], default |-> <<>>, has_default |-> FALSE,
                         is_default |-> FALSE, is_used |-> FALSE]]
    IN  /\ pc = "command_line"
        /\ pc' = "main"
        /\ app' = [app EXCEPT !.params = ReadConfigFile(fromUser, cl.file),
                              !.cm = FoldLeft(add_name, @, cl.names)]
        /\ given' = FirstOfEach(cl.params \o cl.file)
        /\ UNCHANGED <<calls, late, asked>>

-----------------------------------------------------------------------------
(* The services of the application, in the order in which they fetch each  *)
(* other: DoInit() of each happens once, when it is first asked for.       *)

Value(ps, k) == ps[k].value

Word(ps, k) == IF Value(ps, k) = <<>> THEN "" ELSE Value(ps, k)[1]

Threads(ps) == IF Word(ps, "nthreads") = "Ncores" THEN NumCpus ELSE Word(ps, "nthreads")

DoInitLogging(a) ==
    IF "JLoggingService" \in a.initialized THEN a
    ELSE [a EXCEPT !.params = SetDefaultParameter(@, "log:global", <<"INFO">>),
                   !.initialized = @ \cup {"JLoggingService"}]

DoInitComponentManager(a) ==
    [DoInitLogging(a) EXCEPT !.initialized = @ \cup {"JComponentManager"}]

\* The names from AddPlugin() are the default of the parameter "plugins".
DoInitPluginLoader(a) ==
    IF "JPluginLoader" \in a.initialized THEN a
    ELSE LET ps == SetDefaultParameters(a.params,
                       <<<<"plugins", a.loader.include>>,
                         <<"plugins_to_ignore", a.loader.exclude>>>>)
         IN  [a EXCEPT !.params = ps,
                       !.loader.include = Value(ps, "plugins"),
                       !.loader.exclude = Value(ps, "plugins_to_ignore"),
                       !.initialized = @ \cup {"JPluginLoader"}]

\* acquire_services(): the size of the pools is the number of threads, if that is
\* known by now.  (Seven other parameters are declared in the same way.)
DoInitTopologyBuilder(a) ==
    LET b    == DoInitComponentManager(a)
        used == IF Exists(b.params, "nthreads") THEN MarkUsed(b.params, "nthreads") ELSE b.params
        size == IF Exists(b.params, "nthreads") THEN Threads(b.params) ELSE b.event_pool_size
        ps   == SetDefaultParameter(used, "jana:event_pool_size", <<size>>)
    IN  IF "JTopologyBuilder" \in b.initialized THEN b
        ELSE [b EXCEPT !.params = ps,
                       !.event_pool_size = Word(ps, "jana:event_pool_size"),
                       !.initialized = @ \cup {"JTopologyBuilder"}]

DoInit(a, s) ==
    CASE s = "JLoggingService"   -> DoInitLogging(a)
      [] s = "JComponentManager" -> DoInitComponentManager(a)
      [] s = "JPluginLoader"     -> DoInitPluginLoader(a)
      [] s = "JTopologyBuilder"  -> DoInitTopologyBuilder(a)

-----------------------------------------------------------------------------
(* The calls the main program makes before Initialize(), and a plugin from  *)
(* InitPlugin().                                                           *)

InUserCode == pc \in {"main", "InitPlugin"} /\ calls < MaxCalls

Caller == IF pc = "main" THEN "" ELSE PluginFile[Current(app.loader)]

\* Who reads a setting of the engine, if its reader does not wait for the plugins.
ReadBy(k) ==
    CASE k \in {"plugins", "plugins_to_ignore"}      -> {"JPluginLoader"}
      [] k \in {"nthreads", "jana:event_pool_size"}  -> {"JTopologyBuilder"}
      [] OTHER                                       -> {}

SetParameterValue(k, v) ==
    /\ InUserCode
    /\ app' = [app EXCEPT !.params = SetParameter(@, k, v)]
    /\ given' = Set(given, k, v)
    /\ late' = IF ReadBy(k) \cap app.initialized # {} THEN late \cup {k} ELSE late
    /\ calls' = calls + 1
    /\ UNCHANGED <<pc, asked>>

\* SetDefaultParameter() and RegisterParameter(), outside of any component.
DeclareParameter(k, v) ==
    /\ InUserCode
    /\ app' = [app EXCEPT !.params = SetDefaultParameter(@, k, v)]
    /\ calls' = calls + 1
    /\ UNCHANGED <<pc, given, late, asked>>

AddPlugin(n) ==
    /\ InUserCode
    /\ app' = [app EXCEPT !.loader = add_plugin(@, n)]
    /\ asked' = asked \cup {n}
    /\ calls' = calls + 1
    /\ UNCHANGED <<pc, given, late>>

Add(c) ==
    /\ InUserCode
    /\ app' = [app EXCEPT !.cm = add(@, c, Caller)]
    /\ calls' = calls + 1
    /\ UNCHANGED <<pc, given, late, asked>>

GetService(s) ==
    /\ InUserCode
    /\ app' = DoInit(app, s)
    /\ calls' = calls + 1
    /\ UNCHANGED <<pc, given, late, asked>>

UserCall ==
    \/ \E kv \in Settings : SetParameterValue(kv[1], kv[2])
    \/ \E kv \in Defaults : DeclareParameter(kv[1], kv[2])
    \/ \E n \in DOMAIN PluginFile : AddPlugin(n)
    \/ \E c \in Components : Add(c)
    \/ \E s \in EarlyServices : GetService(s)

-----------------------------------------------------------------------------
(* JApplication::Initialize().                                             *)

\* Initialize() begins: the services, one after the other.
InitializeServices ==
    /\ pc = "main"
    /\ pc' = "attach_plugins"
    /\ app' = DoInitTopologyBuilder(DoInitPluginLoader(DoInitComponentManager(DoInitLogging(app))))
    /\ UNCHANGED <<calls, given, late, asked>>

\* A step of attach_plugins() that changes nothing but the loader.
LoaderStep(ld) ==
    /\ pc = "attach_plugins"
    /\ app' = [app EXCEPT !.loader = ld]
    /\ UNCHANGED <<pc, calls, given, late, asked>>

Loop ==
    LET ld == app.loader
    IN  \/ MorePlugins(ld) /\ LoaderStep(NextBatch(ld))
        \/ ~BatchDone(ld) /\ Excluded(ld, Current(ld)) /\ LoaderStep(NextPlugin(ld))
        \/ Searching(ld) /\ ~Found(ld) /\ LoaderStep(NextPath(ld))

\* The name is announced before the file is opened.
NamePlugin(a) == [a EXCEPT !.cm = next_plugin(@, PluginFile[Current(a.loader)])]

\* dlopen() fails: the exception is caught, and the next path is tried.
OpenFails ==
    /\ pc = "attach_plugins"
    /\ Found(app.loader)
    /\ app' = [NamePlugin(app) EXCEPT !.loader = NextPath(@)]
    /\ UNCHANGED <<pc, calls, given, late, asked>>

\* There is no InitPlugin() in the file, and none is missed.
OpenIgnored ==
    /\ pc = "attach_plugins"
    /\ Found(app.loader)
    /\ app' = [NamePlugin(app) EXCEPT !.loader = Attached(@)]
    /\ UNCHANGED <<pc, calls, given, late, asked>>

\* (The name is not announced.)
Open_Unnamed ==
    /\ pc = "attach_plugins"
    /\ Found(app.loader)
    /\ pc' = "InitPlugin"
    /\ UNCHANGED <<app, calls, given, late, asked>>

\* InitPlugin() is called.
Open ==
    /\ pc = "attach_plugins"
    /\ Found(app.loader)
    /\ pc' = "InitPlugin"
    /\ app' = NamePlugin(app)
    /\ UNCHANGED <<calls, given, late, asked>>

InitPluginReturns ==
    /\ pc = "InitPlugin"
    /\ pc' = "attach_plugins"
    /\ app' = [app EXCEPT !.loader = Attached(@)]
    /\ UNCHANGED <<calls, given, late, asked>>

\* What InitPlugin() has done until it throws stays, and the next path is tried.
InitPluginThrows ==
    /\ pc = "InitPlugin"
    /\ pc' = "attach_plugins"
    /\ app' = [app EXCEPT !.loader = NextPath(@)]
    /\ UNCHANGED <<calls, given, late, asked>>

\* "Couldn't find plugin": Initialize() throws.
PluginMissing ==
    /\ pc = "attach_plugins"
    /\ NotFoundAnywhere(app.loader)
    /\ pc' = "threw"
    /\ UNCHANGED <<app, calls, given, late, asked>>

\* Init() of a component declares its parameters, each with the default that
\* this component has for it, and is given the values.
Declare(a, kv) ==
    LET ps == SetDefaultParameter(a.params, kv[1], kv[2])
    IN  [a EXCEPT !.params = ps, !.held = Set(@, kv[1], Value(ps, kv[1]))]

InitAll(a, components) ==
    FoldLeft(Declare, a, FlattenSeq([i \in DOMAIN components |-> components[i].declares]))

\* configure_components(): the parameters are read here, and not in Init(), so
\* that plugins can set them; then the sources are resolved and a set of dummy
\* factories is initialized.
ConfigureComponents ==
    LET ps == SetDefaultParameters(app.params,
                  <<<<"event_source_type", <<>>>>, <<"jana:nevents", <<app.nevents>>>>>>)
        read == [app EXCEPT !.params = ps, !.nevents = Word(ps, "jana:nevents"),
                            !.source_type = Word(ps, "event_source_type")]
        cm   == resolve_event_sources(read.cm, read.source_type, read.nevents)
    IN  /\ pc = "attach_plugins"
        /\ AllAttached(app.loader)
        /\ IF ResolveThrows(read.cm, read.source_type)
           THEN pc' = "threw" /\ app' = read
           ELSE /\ pc' = "create_topology"
                /\ app' = InitAll([read EXCEPT !.cm = cm], cm.factories)
        /\ UNCHANGED <<calls, given, late, asked>>

\* The number of threads is read, and the topology is made.
CreateTopology ==
    LET ps       == SetDefaultParameter(app.params, "nthreads", <<"1">>)
        topology == Build(app.cm)
    IN  /\ pc = "create_topology"
        /\ pc' = IF topology.throws THEN "threw" ELSE "initialize"
        /\ app' = [app EXCEPT !.params = ps, !.nthreads = Threads(ps), !.topology = topology]
        /\ UNCHANGED <<calls, given, late, asked>>

\* JArrowProcessingController::initialize(): every arrow initializes its
\* components.  m_initialized is set.
InitializeController ==
    /\ pc = "initialize"
    /\ pc' = "initialized"
    /\ app' = FoldLeft(LAMBDA a, arrow : InitAll(a, arrow.components), app, app.topology.arrows)
    /\ UNCHANGED <<calls, given, late, asked>>

\* Run() prints the parameters, unless it is told not to, and does not go on if
\* it finds one that nobody has read and is told to mind.
PrintParameters ==
    LET ps == SetDefaultParameters(app.params,
                  <<<<"jana:parameter_verbosity", <<"1">>>>,
                    <<"jana:parameter_strictness", <<"1">>>>>>)
    IN  /\ pc = "initialized"
        /\ pc' = IF /\ Word(ps, "jana:parameter_verbosity") # "0"
                    /\ Word(ps, "jana:parameter_strictness") = "2"
                    /\ Unused(ps) # {}
                 THEN "threw"
                 ELSE "running"
        /\ app' = [app EXCEPT !.params = ps]
        /\ UNCHANGED <<calls, given, late, asked>>

Initialize ==
    \/ InitializeServices \/ Loop \/ OpenFails \/ OpenIgnored \/ Open
    \/ InitPluginReturns \/ InitPluginThrows \/ PluginMissing
    \/ ConfigureComponents \/ CreateTopology \/ InitializeController

Next ==
    \/ \E cl \in CommandLines : CreateJApplication(cl)
    \/ UserCall \/ Initialize \/ PrintParameters

Spec == Init /\ [][Next]_vars

-----------------------------------------------------------------------------
(* Properties.                                                             *)

Ready == pc \in {"initialized", "running"}

\* How many of the plugins on the list the loop is through with.
Through(ld) == ld.inext - Len(ld.batch) + ld.pos - 1

\* attach_plugins() attaches every plugin on the list once, in the order of the
\* list, except those to be ignored; plugins that plugins add included.  A plugin
\* that AddPlugin() was called for is on the list, unless the user gave a list.
PluginsAttachedInOrder ==
    LET ld == app.loader
    IN  /\ ld.attached = SelectSeq(SubSeq(ld.include, 1, Through(ld)), LAMBDA n : ~Excluded(ld, n))
        /\ Ready => Through(ld) = Len(ld.include)
        /\ Ready /\ "plugins" \notin DOMAIN given => asked \subseteq Range(ld.include)

\* Every component is registered under the name of the plugin that added it,
\* and so are the sources that its generators make, whatever plugins failed to
\* load in between: what a crash report and the component table show the user.
OwnerNamed ==
    LET cm == app.cm
    IN  \A c \in Range(cm.generators \o cm.factories \o cm.sources \o cm.processors
                       \o cm.unfolders) :
            c.plugin = c.adder

\* What the user has set is what is used, be it on the command line, in a file
\* or with SetParameterValue(), before or in InitPlugin(), and whoever declares
\* which default: by components, by the component manager for its limit of events
\* and its choice of generator, and for the number of threads.  The size of the
\* event pool is the one exception: it is fixed when the topology builder is
\* initialized, before any plugin is loaded.
SettingsTakeEffect ==
    Ready =>
        /\ \A k \in DOMAIN given : Value(app.params, k) = given[k]
        /\ \A k \in DOMAIN app.held \cap DOMAIN given : app.held[k] = given[k]
        /\ "jana:nevents" \in DOMAIN given => app.nevents = given["jana:nevents"][1]
        /\ "event_source_type" \in DOMAIN given => app.source_type = given["event_source_type"][1]
        /\ "nthreads" \in DOMAIN given /\ given["nthreads"] # <<"Ncores">>
              => app.nthreads = given["nthreads"][1]
        /\ "jana:event_pool_size" \in DOMAIN given \ late
              => app.event_pool_size = given["jana:event_pool_size"][1]
        /\ "nthreads" \in DOMAIN given \ late /\ "jana:event_pool_size" \notin DOMAIN given
              => app.event_pool_size = app.nthreads

Fills(arrow, place, names) ==
    \E n \in DOMAIN arrow.places \cap names : arrow.places[n] = place

\* The arrows that put events into a place, and those that take them out.
Producers(t, place) ==
    {i \in DOMAIN t.arrows : Fills(t.arrows[i], place, {"output", "child_out", "parent_out"})}
Consumers(t, place) ==
    {i \in DOMAIN t.arrows : Fills(t.arrows[i], place, {"input", "child_in", "parent_in"})}

\* The topology is what the other modules take it to be: every queue and every
\* pool has one arrow at each end; an arrow is attached to exactly those that
\* read its queues, so that the scheduler drains them in order; one arrow, the
\* last, counts the events; and no processor at a level with a pool is left out.
TopologyWired ==
    Ready /\ app.topology # NoTopology =>
        LET t      == app.topology
            queues == {Queue(q) : q \in 1 .. t.queues}
            pools  == {Pool(l) : l \in t.pools}
        IN  /\ \A p \in queues \cup pools :
                   Cardinality(Producers(t, p)) = 1 /\ Cardinality(Consumers(t, p)) = 1
            /\ t.listeners = UNION {Producers(t, q) \X Consumers(t, q) : q \in queues}
            /\ Cardinality({i \in DOMAIN t.arrows : t.arrows[i].is_sink}) = 1
            /\ \A c \in Range(app.cm.processors) :
                   c.level \in t.pools =>
                       \E i \in DOMAIN t.arrows : Contains(t.arrows[i].components, c)

=============================================================================
