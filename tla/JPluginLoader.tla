---------------------------- MODULE JPluginLoader ----------------------------
(***************************************************************************)
(* Services/JPluginLoader: the list of plugins to include and the loop of  *)
(* attach_plugins() over it, which grows while the plugins are attached.   *)
(*                                                                         *)
(* A loader is a record of m_plugins_to_include, m_plugins_to_exclude, of  *)
(* inext and the copy `batch' of the plugins that the loop is working on,  *)
(* of the positions in `batch' and in m_plugin_paths, and of the plugins   *)
(* attached so far (m_sohandles and those without an InitPlugin()).        *)
(*                                                                         *)
(* As in JScheduler, a definition that directly precedes another and       *)
(* differs from it in one place is a faulty variant no specification uses. *)
(***************************************************************************)
EXTENDS Naturals, Sequences, SequencesExt

CONSTANTS
    PluginFile,   \* plugin name, with or without ".so" -> the file it stands for
    Paths,        \* the number of directories in m_plugin_paths
    FoundIn       \* file -> the directories that contain it

ASSUME PathsAssumption == \A f \in DOMAIN FoundIn : FoundIn[f] \subseteq 1 .. Paths

NewLoader ==
    [include |-> <<>>, exclude |-> <<>>, inext |-> 0, batch |-> <<>>, pos |-> 1,
     path |-> 1, attached |-> <<>>]

add_plugin(ld, n) ==
    IF Contains(ld.include, n) THEN ld ELSE [ld EXCEPT !.include = Append(@, n)]

\* A name is excluded by its short or its full form.
Excluded(ld, n) ==
    \E i \in DOMAIN ld.exclude : PluginFile[ld.exclude[i]] = PluginFile[n]

BatchDone(ld) == ld.pos > Len(ld.batch)

MorePlugins(ld) == BatchDone(ld) /\ ld.inext < Len(ld.include)

AllAttached(ld) == BatchDone(ld) /\ ld.inext >= Len(ld.include)

Current(ld) == ld.batch[ld.pos]

\* (The plugins from the beginning, instead of those that have been added.)
NextBatch_FromStart(ld) ==
    [ld EXCEPT !.batch = ld.include, !.inext = Len(ld.include), !.pos = 1, !.path = 1]

\* One round of the while loop: the plugins that have been added since the last.
NextBatch(ld) ==
    [ld EXCEPT !.batch = SubSeq(ld.include, ld.inext + 1, Len(ld.include)),
               !.inext = Len(ld.include), !.pos = 1, !.path = 1]

NextPlugin(ld) == [ld EXCEPT !.pos = @ + 1, !.path = 1]

NextPath(ld) == [ld EXCEPT !.path = @ + 1]

Attached(ld) == NextPlugin([ld EXCEPT !.attached = Append(@, Current(ld))])

\* The loop has not given up on the current plugin.
Searching(ld) == ~BatchDone(ld) /\ ~Excluded(ld, Current(ld)) /\ ld.path <= Paths

Found(ld) == Searching(ld) /\ ld.path \in FoundIn[PluginFile[Current(ld)]]

NotFoundAnywhere(ld) == ~BatchDone(ld) /\ ~Excluded(ld, Current(ld)) /\ ld.path > Paths
=============================================================================
