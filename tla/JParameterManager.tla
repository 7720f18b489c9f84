-------------------------- MODULE JParameterManager --------------------------
(***************************************************************************)
(* Services/JParameterManager: the configuration parameters, a function    *)
(* from the keys that exist to JParameters, records of the fields that are *)
(* not documentation.  Keys are the names after ToLower().  A value        *)
(* is a sequence of words, what Stringify() and Parse() make of a number,  *)
(* a word or a comma-separated list.                                       *)
(*                                                                         *)
(* As in JScheduler, a definition that directly precedes another and       *)
(* differs from it in one place is a faulty variant no specification uses. *)
(***************************************************************************)
EXTENDS Sequences, FiniteSets, Naturals, Functions, SequencesExt

Exists(ps, k) == k \in DOMAIN ps

Put(ps, k, p) == [x \in DOMAIN ps \cup {k} |-> IF x = k THEN p ELSE ps[x]]

SetParameter(ps, k, v) ==
    Put(ps, k,
        IF Exists(ps, k)
        THEN [ps[k] EXCEPT !.value = v, !.is_default = FALSE]
        ELSE [value |-> v, default |-> <<>>, has_default |-> FALSE,
              is_default |-> FALSE, is_used |-> FALSE])

\* (The value is overwritten although it is not a default.)
SetDefaultParameter_Overwrites(ps, k, v) ==
    Put(ps, k,
        IF ~Exists(ps, k)
        THEN [value |-> v, default |-> v, has_default |-> TRUE,
              is_default |-> TRUE, is_used |-> TRUE]
        ELSE IF ~ps[k].has_default
        THEN [ps[k] EXCEPT !.has_default = TRUE, !.default = v, !.is_used = TRUE]
        ELSE IF ps[k].default # v
        THEN [ps[k] EXCEPT !.value = v, !.is_used = TRUE]
        ELSE [ps[k] EXCEPT !.is_used = TRUE])

\* The caller is given the value stored afterwards.  A second default that
\* differs from the first replaces a value that is still a default, but not the
\* default it is compared with.
SetDefaultParameter(ps, k, v) ==
    Put(ps, k,
        IF ~Exists(ps, k)
        THEN [value |-> v, default |-> v, has_default |-> TRUE,
              is_default |-> TRUE, is_used |-> TRUE]
        ELSE IF ~ps[k].has_default
        THEN [ps[k] EXCEPT !.has_default = TRUE, !.default = v, !.is_used = TRUE]
        ELSE IF ps[k].default # v /\ ps[k].is_default
        THEN [ps[k] EXCEPT !.value = v, !.is_used = TRUE]
        ELSE [ps[k] EXCEPT !.is_used = TRUE])

\* Several defaults, declared one after the other: a sequence of pairs.
SetDefaultParameters(ps, defaults) ==
    FoldLeft(LAMBDA acc, d : SetDefaultParameter(acc, d[1], d[2]), ps, defaults)

\* GetParameterValue() of a parameter that exists.
MarkUsed(ps, k) == [ps EXCEPT ![k].is_used = TRUE]

\* A file that could be opened, as the key and the value of each line.
ReadConfigFile(ps, lines) ==
    FoldLeft(LAMBDA acc, l :
                 IF ~Exists(acc, l[1]) \/ acc[l[1]].has_default
                 THEN SetParameter(acc, l[1], l[2])
                 ELSE acc,
             ps, lines)

\* What PrintParameters() complains about if it is told to be strict.
Unused(ps) == {k \in DOMAIN ps : ~ps[k].is_default /\ ~ps[k].is_used}
=============================================================================
