-------------------------- MODULE UnfoldFoldProofs --------------------------
(***************************************************************************)
(* Proofs about UnfoldFold, for pools of any size, any number of tap       *)
(* workers, and with or without processors at the parents' level.          *)
(***************************************************************************)
EXTENDS UnfoldFoldSteps

-----------------------------------------------------------------------------
(* The steps of the fold arrow.                                            *)

\* It pulls a child.
LEMMA FoldPullChildStep == ASSUME IInv, FoldPullChild PROVE IInv'
<1>0. PICK c : c = Head(mailbox["child_in"].queue)
  OBVIOUS
<1>1. /\ fold \in FoldArrow /\ fold.step = "child_in" /\ fold.child = None /\ "child_in" \in Queues
  BY Types DEF IInv, FoldPullChild, FoldControl, Has, Queues
<1>2. UNCHANGED <<parent_pool, child_pool, parent_of, refs, source_data, tap_data, parent_tap_data, unfold>>
  BY DEF FoldPullChild, aroundFold
<1>3. UnfoldControl'
  BY <1>2, ControlKept DEF IInv
<1>4. fold' = [fold EXCEPT !.step = "parent_out", !.child_slot = 1, !.child = c]
  BY <1>0 DEF FoldPullChild
<1>5. /\ mailbox' \in [Queues -> LocalQueue(Parents \cup Children)]
      /\ \A q \in Queues \ {"child_in"} : mailbox'[q].queue = mailbox[q].queue
      /\ Loses(mailbox["child_in"].queue, mailbox'["child_in"].queue, c)
  BY <1>0, <1>1, TakesOne, ZenonT(30) DEF IInv, FoldPullChild
<1>6. c \in Children /\ c # None
  BY <1>5, QueueKinds, Types DEF Loses, IInv
<1>7. /\ fold' \in FoldArrow /\ fold'.step = "parent_out" /\ fold'.child = c /\ fold'.parent = fold.parent
  <2>1. c \in Opt(Children) /\ 1 \in 0 .. 1
    BY <1>6 DEF Opt
  <2>2. fold' \in FoldArrow
    BY <1>1, <1>4, <2>1, ZenonT(30) DEF FoldArrow
  <2> QED
    BY <1>1, <1>4, <2>2 DEF FoldArrow
<1>8. Moved(ChildrenAt, ChildrenAt', "child_in", "fold_in", c)
  <2>1. fold.step \notin EarlyFold /\ fold'.step \in EarlyFold
    BY <1>1, <1>7 DEF EarlyFold
  <2>2. Gains(ItemsOf(fold.child), ItemsOf(fold'.child), c)
    BY <1>1, <1>6, <1>7, ItemsOfMoves
  <2> QED
    BY <1>1, <1>2, <1>5, <1>7, <2>1, <2>2, ChildrenByPlace, FoldPlaces, ChildrenMoved, ZenonT(30) DEF Queues
<1>9. ParentsAt' = ParentsAt
  BY <1>2, <1>5, <1>7, ZenonT(30) DEF ParentsAt, Queues
<1>10. TypeOK'
  BY <1>2, <1>5, <1>7, ZenonT(30) DEF IInv, TypeOK
<1>11. FoldControl'
  BY <1>1, <1>4, <1>6 DEF IInv, FoldControl, FoldArrow, Has
<1>12. ChildFamily'
  <2>1. {"child_in", "fold_in"} \subseteq Attached
    BY DEF Attached
  <2> QED
    BY <1>2, <1>8, <2>1, ChildMoves DEF IInv
<1>13. ParentFamily' /\ Counted'
  BY <1>2, <1>9, ParentsStay DEF IInv
<1> QED
  BY <1>3, <1>10, <1>11, <1>12, <1>13 DEF IInv

\* It reserves a slot for the parent, or returns without the child.
LEMMA FoldPullParentStep == ASSUME IInv, FoldPullParent PROVE IInv'
<1> DEFINE n == IF fold.is_queue THEN reserve_count(mailbox["parent_out"], 1, 1) ELSE 0
<1>0. PICK c : c = fold.child
  OBVIOUS
<1>1. /\ fold \in FoldArrow /\ fold.step = "parent_out" /\ fold.parent = None /\ c # None
      /\ "parent_out" \in Queues /\ mailbox["parent_out"] \in LocalQueue(Parents \cup Children)
  BY <1>0, Types DEF IInv, FoldPullParent, FoldControl, Has, Queues
<1>2. UNCHANGED <<parent_pool, child_pool, parent_of, refs, source_data, tap_data, parent_tap_data, unfold>>
  BY DEF FoldPullParent, aroundFold
<1>3. UnfoldControl'
  BY <1>2, ControlKept DEF IInv
<1>4. n \in 0 .. 1 /\ (~fold.is_queue => n = 0)
  <2>1. reserve_count(mailbox["parent_out"], 1, 1) \in 0 .. 1
    BY <1>1, QueueOps, ZenonT(30)
  <2> QED
    BY <2>1
<1>5. /\ Reserves("parent_out", n)
      /\ fold' = IF n = 0 /\ fold.is_queue
                 THEN [fold EXCEPT !.step = "child_in", !.child = None, !.child_slot = 0]
                 ELSE [fold EXCEPT !.step = "release", !.parent_slot = n]
  BY DEF FoldPullParent
<1> HIDE DEF n
<1>6. /\ mailbox' \in [Queues -> LocalQueue(Parents \cup Children)]
      /\ \A q \in Queues : mailbox'[q].queue = mailbox[q].queue
  BY <1>1, <1>4, <1>5, ReservesOne, ZenonT(30) DEF IInv
<1>7. CASE n = 0 /\ fold.is_queue
  <2>1. fold' = [fold EXCEPT !.step = "child_in", !.child = None, !.child_slot = 0]
    BY <1>5, <1>7
  <2>2. /\ fold' \in FoldArrow /\ fold'.step = "child_in" /\ fold'.child = None /\ fold'.parent = fold.parent
    <3>1. None \in Opt(Children) /\ 0 \in 0 .. 1
      BY DEF Opt
    <3>2. fold' \in FoldArrow
      BY <1>1, <2>1, <3>1, ZenonT(30) DEF FoldArrow
    <3> QED
      BY <1>1, <2>1, <3>2 DEF FoldArrow
  <2>3. Left(ChildrenAt, ChildrenAt', "fold_in", c)
    <3>1. fold.step \in EarlyFold /\ fold'.step \notin EarlyFold
      BY <1>1, <2>2 DEF EarlyFold
    <3>2. Loses(ItemsOf(fold.child), ItemsOf(None), c)
      BY <1>0, <1>1, ItemsOfMoves, ZenonT(30)
    <3>3. /\ ChildrenAt["fold_in"] = ItemsOf(fold.child) /\ ChildrenAt'["fold_in"] = ItemsOf(None)
          /\ ChildrenAt["fold_out"] = ItemsOf(None) /\ ChildrenAt'["fold_out"] = ItemsOf(None)
      BY <2>2, <3>1, FoldPlaces
    <3>4. \A x \in DOMAIN ChildrenAt \ {"fold_in"} : ChildrenAt'[x] = ChildrenAt[x]
      BY <1>2, <1>6, <3>3, ChildrenElsewhere, ZenonT(30) DEF Queues
    <3> QED
      BY <3>2, <3>3, <3>4, ChildrenByPlace, ZenonT(30) DEF Left
  <2>4. ChildFamily'
    <3>1. /\ Apart(ChildrenAt')
          /\ \A X \in SUBSET DOMAIN ChildrenAt : Within(ChildrenAt', X) = Within(ChildrenAt, X) \ {c}
      BY <2>3, LeftApart DEF IInv, ChildFamily
    <3>2. /\ Attached \in SUBSET DOMAIN ChildrenAt /\ Detached \in SUBSET DOMAIN ChildrenAt
          /\ Attached \cup Detached \in SUBSET DOMAIN ChildrenAt
      BY PlaceNames
    <3> QED
      BY <1>2, <3>1, <3>2, ZenonT(30) DEF IInv, ChildFamily
  <2>5. ParentsAt' = ParentsAt
    BY <1>2, <1>6, <2>2, ZenonT(30) DEF ParentsAt, Queues
  <2>6. TypeOK'
    BY <1>2, <1>6, <2>2, ZenonT(30) DEF IInv, TypeOK
  <2>7. FoldControl'
    BY <1>1, <2>1, ZenonT(30) DEF IInv, FoldControl, FoldArrow, Has
  <2>8. ParentFamily' /\ Counted'
    BY <1>2, <2>5, ParentsStay DEF IInv
  <2> QED
    BY <1>3, <2>4, <2>6, <2>7, <2>8, ZenonT(30) DEF IInv
<1>8. CASE ~(n = 0 /\ fold.is_queue)
  <2>1. fold' = [fold EXCEPT !.step = "release", !.parent_slot = n]
    BY <1>5, <1>8
  <2>2. /\ fold' \in FoldArrow /\ fold'.step = "release" /\ fold'.child = fold.child /\ fold'.parent = fold.parent
    BY <1>1, <1>4, <2>1, ZenonT(30) DEF FoldArrow
  <2>3. ChildrenAt' = ChildrenAt
    <3>1. fold.step \in EarlyFold /\ fold'.step \in EarlyFold
      BY <1>1, <2>2 DEF EarlyFold
    <3> QED
      BY <1>2, <1>6, <2>2, <3>1, ZenonT(30) DEF ChildrenAt, Tapped, Queues
  <2>4. ParentsAt' = ParentsAt
    BY <1>2, <1>6, <2>2, ZenonT(30) DEF ParentsAt, Queues
  <2>5. TypeOK'
    BY <1>2, <1>6, <2>2, ZenonT(30) DEF IInv, TypeOK
  <2>6. FoldControl'
    BY <1>1, <1>4, <1>8, <2>1 DEF IInv, FoldControl, FoldArrow, Has
  <2>7. ParentFamily' /\ Counted' /\ ChildFamily'
    BY <1>2, <2>3, <2>4, ParentsStay, ChildrenStay, ZenonT(30) DEF IInv
  <2> QED
    BY <1>3, <2>5, <2>6, <2>7, ZenonT(30) DEF IInv
<1> QED
  BY <1>7, <1>8

\* ReleaseParent(): the child has a parent, and the parent's count says so.
LEMMA FoldReleaseEffect ==
    ASSUME IInv, FoldRelease, NEW c, NEW p, c = fold.child, p = parent_of[fold.child]
    PROVE  /\ fold \in FoldArrow /\ fold.step = "release" /\ fold.parent = None
           /\ c \in Children /\ c # None /\ p \in Parents /\ p # None
           /\ parent_of \in [Children -> Opt(Parents)] /\ refs \in [Parents -> Int]
           /\ c \in Range(ChildrenAt["fold_in"])
           /\ c \in Kids(p) /\ Cardinality(Kids(p)) \in Nat /\ Cardinality(Kids(p)) # 0
           /\ refs[p] = Cardinality(Kids(p)) + IF p \in Within(ParentsAt, Upstream) THEN 1 ELSE 0
           /\ p \notin Within(ParentsAt, Downstream)
           /\ UNCHANGED <<mailbox, parent_pool, child_pool, source_data, tap_data, parent_tap_data, unfold>>
           /\ parent_of' = [parent_of EXCEPT ![c] = None] /\ refs' = [refs EXCEPT ![p] = @ - 1]
           /\ fold' = [fold EXCEPT !.step = "push_in", !.parent = IF LastRef(p) THEN p ELSE None]
<1>1. /\ fold \in FoldArrow /\ fold.step = "release" /\ fold.parent = None
      /\ c \in Children /\ c # None /\ p \in Opt(Parents)
      /\ parent_of \in [Children -> Opt(Parents)] /\ refs \in [Parents -> Int]
  BY Types DEF IInv, FoldRelease, FoldControl, FoldArrow, Has, Opt
<1>2. c \in Range(ChildrenAt["fold_in"])
  <2>1. ChildrenAt["fold_in"] = ItemsOf(c)
    BY <1>1, FoldPlaces DEF EarlyFold
  <2> QED
    BY <1>1, <2>1, ItemsOfMoves
<1>3. p # None /\ p \in Parents
  <2>1. c \in Within(ChildrenAt, Attached)
    BY <1>2 DEF Within, Attached
  <2> QED
    BY <1>1, <2>1 DEF IInv, ChildFamily, Opt
<1>4. c \in Kids(p) /\ Kids(p) # {} /\ Cardinality(Kids(p)) \in Nat /\ Cardinality(Kids(p)) # 0
  <2>1. c \in Kids(p)
    BY <1>1 DEF Kids
  <2> QED
    BY <1>1, <1>3, <2>1, KidsOf, ZenonT(30) DEF IInv
<1>5. /\ refs[p] = Cardinality(Kids(p)) + IF p \in Within(ParentsAt, Upstream) THEN 1 ELSE 0
      /\ p \notin Within(ParentsAt, Downstream)
  BY <1>3, <1>4 DEF IInv, Counted, ParentFamily
<1>6. refs[p] >= 1
  BY <1>4, <1>5
<1>7. /\ UNCHANGED <<mailbox, parent_pool, child_pool, source_data, tap_data, parent_tap_data, unfold>>
      /\ parent_of' = [parent_of EXCEPT ![c] = None] /\ refs' = [refs EXCEPT ![p] = @ - 1]
      /\ fold' = [fold EXCEPT !.step = "push_in", !.parent = IF LastRef(p) THEN p ELSE None]
  BY <1>3, <1>6 DEF FoldRelease, aroundFold
<1> QED
  BY <1>1, <1>2, <1>3, <1>4, <1>5, <1>7, ZenonT(30)

\* The child's reference goes, and with the last one the parent
\* comes to the fold arrow.
LEMMA FoldReleaseStep == ASSUME IInv, FoldRelease PROVE IInv'
<1> DEFINE S == ParentsAt
           T == ParentsAt'
<1>0. PICK c, p : c = fold.child /\ p = parent_of[fold.child]
  OBVIOUS
<1> DEFINE up == IF LastRef(p) THEN p ELSE None
<1>1. /\ fold \in FoldArrow /\ fold.step = "release" /\ fold.parent = None
      /\ c \in Children /\ c # None /\ parent_of \in [Children -> Opt(Parents)] /\ refs \in [Parents -> Int]
  BY <1>0, FoldReleaseEffect, ZenonT(30)
<1>2. c \in Range(ChildrenAt["fold_in"])
  BY <1>0, FoldReleaseEffect, ZenonT(30)
<1>3. p # None /\ p \in Parents
  BY <1>0, FoldReleaseEffect, ZenonT(30)
<1>4. c \in Kids(p) /\ Cardinality(Kids(p)) \in Nat /\ Cardinality(Kids(p)) # 0
  BY <1>0, FoldReleaseEffect, ZenonT(30)
<1>5. /\ refs[p] = Cardinality(Kids(p)) + IF p \in Within(S, Upstream) THEN 1 ELSE 0
      /\ p \notin Within(S, Downstream)
  BY <1>0, FoldReleaseEffect, ZenonT(30)
<1>7. /\ UNCHANGED <<mailbox, parent_pool, child_pool, source_data, tap_data, parent_tap_data, unfold>>
      /\ parent_of' = [parent_of EXCEPT ![c] = None] /\ refs' = [refs EXCEPT ![p] = @ - 1]
      /\ fold' = [fold EXCEPT !.step = "push_in", !.parent = up]
  BY <1>0, FoldReleaseEffect, ZenonT(30)
<1>8. up \in Opt(Parents) /\ (refs[p] = 1 => up = p) /\ (refs[p] # 1 => up = None)
  BY <1>3 DEF Opt, LastRef
<1> HIDE DEF up
<1>9. fold' \in FoldArrow /\ fold'.step = "push_in" /\ fold'.parent = up /\ fold'.child = c
  BY <1>0, <1>1, <1>7, <1>8, ZenonT(30) DEF FoldArrow
<1>10. /\ parent_of' \in [Children -> Opt(Parents)] /\ refs' \in [Parents -> Int]
       /\ parent_of'[c] = None /\ \A d \in Children \ {c} : parent_of'[d] = parent_of[d]
       /\ refs'[p] = refs[p] - 1 /\ \A r \in Parents \ {p} : refs'[r] = refs[r]
  <2>1. None \in Opt(Parents) /\ refs[p] - 1 \in Int
    BY <1>1, <1>3 DEF Opt
  <2> QED
    BY <1>1, <1>3, <1>7, <2>1, ZenonT(30)
<1>11. TypeOK'
  BY <1>7, <1>9, <1>10, ZenonT(30) DEF IInv, TypeOK
<1>12. FoldControl'
  BY <1>1, <1>7 DEF IInv, FoldControl, FoldArrow, Has
<1>13. UnfoldControl'
  <2>1. ASSUME unfold.step = "release"
        PROVE  parent_of'[unfold.child] = parent_of[unfold.child]
    <3>1. unfold.child \in Children /\ unfold.child # None
      BY <2>1, Types, ZenonT(30) DEF IInv, UnfoldControl, UnfoldArrow, Has, Opt
    <3>2. unfold.child \in Range(ChildrenAt["unfold_out"])
      <4>1. ChildrenAt["unfold_out"] = ItemsOf(unfold.child)
        BY <2>1, UnfoldPlaces DEF LateUnfold
      <4> QED
        BY <3>1, <4>1, ItemsOfMoves
    <3>3. Range(ChildrenAt["unfold_out"]) \cap Range(ChildrenAt["fold_in"]) = {}
      <4>1. "unfold_out" \in DOMAIN ChildrenAt /\ "fold_in" \in DOMAIN ChildrenAt
        BY ChildrenByPlace
      <4> QED
        BY <4>1 DEF IInv, ChildFamily, Apart
    <3>4. unfold.child # c
      BY <1>2, <3>2, <3>3
    <3> QED
      BY <1>10, <3>1, <3>4
  <2> QED
    BY <1>7, <2>1 DEF IInv, UnfoldControl, Has
<1>14. ChildFamily'
  <2>1. Moved(ChildrenAt, ChildrenAt', "fold_in", "fold_out", c)
    <3>1. fold.step \in EarlyFold /\ fold'.step \notin EarlyFold
      BY <1>1, <1>9 DEF EarlyFold
    <3>2. Loses(ItemsOf(c), ItemsOf(None), c) /\ Gains(ItemsOf(None), ItemsOf(c), c)
      BY <1>1, ItemsOfMoves
    <3> QED
      BY <1>0, <1>7, <1>9, <3>1, <3>2, ChildrenByPlace, FoldPlaces, ChildrenMoved, ZenonT(30)
  <2>2. /\ Apart(ChildrenAt')
        /\ \A X \in SUBSET DOMAIN ChildrenAt :
              Within(ChildrenAt', X) = (Within(ChildrenAt, X) \ {c}) \cup {d \in {c} : "fold_out" \in X}
    BY <2>1, MovedApart DEF IInv, ChildFamily
  <2>3. /\ Within(ChildrenAt', Attached) = Within(ChildrenAt, Attached) \ {c}
        /\ Within(ChildrenAt', Detached) = Within(ChildrenAt, Detached) \cup {c}
    <3>1. "fold_out" \notin Attached /\ "fold_out" \in Detached
      BY DEF Attached, Detached
    <3> QED
      BY <2>2, <3>1, PlaceNames
  <2>4. /\ Within(ChildrenAt, Attached) \subseteq Children /\ Within(ChildrenAt, Detached) \subseteq Children
        /\ Within(ChildrenAt', Attached \cup Detached) \subseteq Children
    <3>1. Within(ChildrenAt, Attached \cup Detached) \subseteq Children
      BY ZenonT(30) DEF IInv, ChildFamily
    <3> QED
      BY <1>1, <2>3, <3>1, PlaceNames
  <2> QED
    BY <1>1, <1>10, <2>2, <2>3, <2>4, ZenonT(30) DEF IInv, ChildFamily
<1>15. Kids(p)' = Kids(p) \ {c} /\ \A r \in Parents \ {p} : Kids(r)' = Kids(r)
  <2>1. None \notin Parents
    BY Types DEF IInv
  <2>2. Kids(p)' = Kids(p) \ {c}
    BY <1>1, <1>3, <1>10, ZenonT(30) DEF Kids
  <2>3. ASSUME NEW r \in Parents \ {p}
        PROVE  Kids(r)' = Kids(r)
    BY <1>0, <1>1, <1>10, <2>1, ZenonT(30) DEF Kids
  <2> QED
    BY <2>2, <2>3
<1>16. Cardinality(Kids(p)') = Cardinality(Kids(p)) - 1 /\ (Cardinality(Kids(p)) = 1 <=> Kids(p)' = {})
  <2>1. Cardinality(Kids(p) \ {c}) = Cardinality(Kids(p)) - 1
    BY <1>1, <1>3, <1>4, KidsOf, ZenonT(30) DEF IInv
  <2>2. Cardinality(Kids(p) \ {c}) = 0 <=> Kids(p) \ {c} = {}
    <3>1. Kids(p) \ {c} \in SUBSET Children
      BY DEF Kids
    <3> QED
      BY <3>1 DEF IInv, Counting
  <2> QED
    BY <1>4, <1>15, <2>1, <2>2
<1>17. /\ Apart(T) /\ Within(T, Upstream) = Within(S, Upstream)
       /\ Within(T, Downstream) = Within(S, Downstream) \cup {d \in {p} : refs[p] = 1}
       /\ refs[p] = 1 => Kids(p)' = {}
       /\ refs[p] # 1 => p \in Within(S, Upstream) \/ Kids(p)' # {}
  <2>1. CASE refs[p] = 1
    <3>1. Cardinality(Kids(p)) = 1 /\ p \notin Within(S, Upstream)
      BY <1>4, <1>5, <2>1
    <3>2. p \notin Within(S, DOMAIN S)
      BY <1>5, <3>1, PlaceNames
    <3>3. Entered(S, T, "fold", p)
      <4>1. Gains(ItemsOf(None), ItemsOf(p), p)
        BY <1>3, ItemsOfMoves
      <4>2. fold.parent = None /\ fold'.parent = p
        BY <1>1, <1>8, <1>9, <2>1, ZenonT(30)
      <4>3. Gains(S["fold"], T["fold"], p)
        BY <4>1, <4>2, ParentPlaces, ZenonT(30)
      <4>4. \A z \in DOMAIN S \ {"fold"} : T[z] = S[z]
        BY <1>7, ParentsElsewhere, ZenonT(30)
      <4> QED
        BY <4>3, <4>4, ParentPlaces, ZenonT(30) DEF Entered
    <3>4. "fold" \notin Upstream /\ "fold" \in Downstream
      BY DEF Upstream, Downstream
    <3>5. Upstream \in SUBSET DOMAIN S /\ Downstream \in SUBSET DOMAIN S
      BY PlaceNames
    <3> HIDE DEF S, T
    <3>6. Apart(T) /\ \A X \in SUBSET DOMAIN S : Within(T, X) = Within(S, X) \cup {d \in {p} : "fold" \in X}
      BY <3>2, <3>3, EnteredApart DEF IInv, ParentFamily, S
    <3> QED
      BY <1>16, <2>1, <3>1, <3>4, <3>5, <3>6, ZenonT(30)
  <2>2. CASE refs[p] # 1
    <3>1. T = S
      BY <1>1, <1>7, <1>8, <1>9, <2>2, ZenonT(30) DEF ParentsAt
    <3>2. p \in Within(S, Upstream) \/ Cardinality(Kids(p)) # 1
      BY <1>4, <1>5, <2>2
    <3> QED
      BY <1>16, <2>2, <3>1, <3>2, ZenonT(30) DEF IInv, ParentFamily
  <2> QED
    BY <2>1, <2>2
<1> HIDE DEF S, T
<1>18. ParentFamily'
  <2>1. \A q \in Within(T, Downstream) : Kids(q)' = {}
    <3>1. \A q \in Within(S, Downstream) : Kids(q) = {} /\ q \in Parents
      BY PlaceNames DEF IInv, ParentFamily, S
    <3> QED
      BY <1>5, <1>15, <1>17, <3>1
  <2>2. \A q \in Parents : q \in Within(T, Upstream \cup Downstream) \/ Kids(q)' # {}
    <3> SUFFICES ASSUME NEW q \in Parents, Kids(q)' = {}
                 PROVE  q \in Within(T, Upstream \cup Downstream)
      OBVIOUS
    <3>1. CASE q = p
      BY <1>17, <3>1, PlaceNames
    <3>2. CASE q # p
      <4>1. q \in Within(S, Upstream \cup Downstream)
        BY <1>15, <3>2, ZenonT(30) DEF IInv, ParentFamily, S
      <4> QED
        BY <1>17, <4>1, PlaceNames
    <3> QED
      BY <3>1, <3>2
  <2>3. Within(T, Upstream \cup Downstream) \subseteq Parents
    <3>1. Within(S, Upstream \cup Downstream) \subseteq Parents
      BY ZenonT(30) DEF IInv, ParentFamily, S
    <3> QED
      BY <1>3, <1>17, <3>1, PlaceNames
  <2> QED
    BY <1>17, <2>1, <2>2, <2>3, ZenonT(30) DEF ParentFamily, T
<1>19. Counted'
  <2> SUFFICES ASSUME NEW r \in Parents
               PROVE  refs'[r] = Cardinality(Kids(r)') + IF r \in Within(T, Upstream) THEN 1 ELSE 0
    BY DEF Counted, T
  <2>1. CASE r = p
    <3>1. refs'[r] = refs[p] - 1 /\ Cardinality(Kids(r)') = Cardinality(Kids(p)) - 1
      BY <1>10, <1>16, <2>1, ZenonT(30)
    <3>2. p \in Within(T, Upstream) <=> p \in Within(S, Upstream)
      BY <1>17
    <3> QED
      BY <1>4, <1>5, <2>1, <3>1, <3>2
  <2>2. CASE r # p
    <3>1. refs[r] = Cardinality(Kids(r)) + IF r \in Within(S, Upstream) THEN 1 ELSE 0
      BY ZenonT(30) DEF IInv, Counted, S
    <3> QED
      BY <1>10, <1>15, <1>17, <2>2, <3>1, ZenonT(30)
  <2> QED
    BY <2>1, <2>2
<1> QED
  BY <1>11, <1>12, <1>13, <1>14, <1>18, <1>19, ZenonT(30) DEF IInv

\* push_all() returns the child's slot ...
LEMMA FoldPushInStep == ASSUME IInv, FoldPushIn PROVE IInv'
<1>1. /\ fold \in FoldArrow /\ fold.step = "push_in" /\ fold.child_slot \in 0 .. 1
      /\ "child_in" \in Queues /\ None \in Opt(Parents \cup Children)
  BY Types DEF IInv, FoldPushIn, Queues, FoldArrow, Opt
<1>2. UNCHANGED <<parent_pool, child_pool, parent_of, refs, source_data, tap_data, parent_tap_data, unfold>>
  BY DEF FoldPushIn, aroundFold
<1>3. UnfoldControl'
  BY <1>2, ControlKept DEF IInv
<1>4. fold' = [fold EXCEPT !.step = "push_child", !.child_slot = 0]
  BY DEF FoldPushIn
<1>5. /\ mailbox' \in [Queues -> LocalQueue(Parents \cup Children)]
      /\ \A q \in Queues : mailbox'[q].queue = mailbox[q].queue
  <2>1. Pushes("child_in", ItemsOf(None), fold.child_slot)
    BY <1>1 DEF FoldPushIn, ItemsOf
  <2> QED
    BY <1>1, <2>1, PushesOne, ZenonT(30) DEF IInv
<1>6. fold' \in FoldArrow /\ fold'.step = "push_child" /\ fold'.child = fold.child /\ fold'.parent = fold.parent
  <2>1. 0 \in 0 .. 1
    OBVIOUS
  <2>2. fold' \in FoldArrow
    BY <1>1, <1>4, <2>1, ZenonT(30) DEF FoldArrow
  <2> QED
    BY <1>1, <1>4, <2>2 DEF FoldArrow
<1>7. ParentsAt' = ParentsAt
  BY <1>2, <1>5, <1>6, ZenonT(30) DEF ParentsAt, Queues
<1>8. ChildrenAt' = ChildrenAt
  <2>1. fold.step \notin EarlyFold /\ fold'.step \notin EarlyFold
    BY <1>1, <1>6 DEF EarlyFold
  <2> QED
    BY <1>2, <1>5, <1>6, <2>1, ZenonT(30) DEF ChildrenAt, Tapped, Queues
<1>9. TypeOK'
  BY <1>2, <1>5, <1>6, ZenonT(30) DEF IInv, TypeOK
<1>10. FoldControl'
  BY <1>1, <1>4 DEF IInv, FoldControl, FoldArrow, Has
<1>11. ParentFamily' /\ Counted' /\ ChildFamily'
  BY <1>2, <1>7, <1>8, ParentsStay, ChildrenStay, ZenonT(30) DEF IInv
<1> QED
  BY <1>3, <1>9, <1>10, <1>11 DEF IInv

\* ... the child to its pool ...
LEMMA FoldPushChildStep == ASSUME IInv, FoldPushChild PROVE IInv'
<1> DEFINE c == fold.child
<1>1. /\ fold \in FoldArrow /\ fold.step = "push_child" /\ child_pool \in CP!Pool
      /\ c \in Children /\ c # None
  BY Types DEF IInv, FoldPushChild, FoldArrow, FoldControl, Has, Opt
<1>2. UNCHANGED <<mailbox, parent_pool, parent_of, refs, source_data, tap_data, parent_tap_data, unfold>>
  BY DEF FoldPushChild, aroundFold
<1>3. UnfoldControl'
  BY <1>2, ControlKept DEF IInv
<1>4. fold' = [fold EXCEPT !.step = "push_parent", !.child = None]
  BY DEF FoldPushChild
<1>5. child_pool' \in CP!Pool /\ Gains(child_pool.available[Here], child_pool'.available[Here], c)
  BY <1>1, ChildPoolOps DEF FoldPushChild
<1>6. fold' \in FoldArrow /\ fold'.step = "push_parent" /\ fold'.child = None /\ fold'.parent = fold.parent
  BY <1>1, <1>4, ZenonT(30) DEF FoldArrow, Opt
<1>7. Moved(ChildrenAt, ChildrenAt', "fold_out", "pool", c)
  <2>1. fold.step \notin EarlyFold /\ fold'.step \notin EarlyFold
    BY <1>1, <1>6 DEF EarlyFold
  <2>2. Loses(ItemsOf(fold.child), ItemsOf(fold'.child), c)
    BY <1>1, <1>6, ItemsOfMoves, ZenonT(30)
  <2> HIDE DEF c
  <2> QED
    BY <1>2, <1>5, <2>1, <2>2, ChildrenByPlace, FoldPlaces, ChildrenMoved, ZenonT(30)
<1>8. ParentsAt' = ParentsAt
  BY <1>2, <1>6, ZenonT(30) DEF ParentsAt
<1>9. TypeOK'
  BY <1>2, <1>5, <1>6, ZenonT(30) DEF IInv, TypeOK
<1>10. FoldControl'
  BY <1>1, <1>4 DEF IInv, FoldControl, FoldArrow, Has
<1>11. ChildFamily'
  <2>1. {"fold_out", "pool"} \subseteq Detached
    BY ZenonT(30) DEF Detached
  <2> QED
    BY <1>2, <1>7, <2>1, ChildMoves, ZenonT(30) DEF IInv
<1>12. ParentFamily' /\ Counted'
  BY <1>2, <1>8, ParentsStay DEF IInv
<1> QED
  BY <1>3, <1>9, <1>10, <1>11, <1>12 DEF IInv

\* ... and hands on the parent, if its last child is gone, to the parents' tap or
\* the pool.
LEMMA FoldPushParentStep == ASSUME IInv, FoldPushParent PROVE IInv'
<1>0. PICK p : p = fold.parent
  OBVIOUS
<1>1. /\ fold \in FoldArrow /\ fold.step = "push_parent" /\ fold.child = None /\ p \in Opt(Parents)
      /\ fold.parent_slot \in 0 .. 1 /\ "parent_out" \in Queues /\ p \in Opt(Parents \cup Children)
  BY <1>0, Types DEF IInv, FoldPushParent, FoldControl, FoldArrow, Has, Opt, Queues
<1>2. UNCHANGED <<child_pool, parent_of, source_data, tap_data, parent_tap_data, unfold>>
  BY DEF FoldPushParent, aroundFold
<1>3. UnfoldControl'
  BY <1>2, ControlKept DEF IInv
<1>4. fold' = [fold EXCEPT !.step = "child_in", !.parent = None, !.parent_slot = 0]
  BY DEF FoldPushParent
<1>5. fold' \in FoldArrow /\ fold'.step = "child_in" /\ fold'.child = None /\ fold'.parent = None
  <2>1. None \in Opt(Parents) /\ 0 \in 0 .. 1
    BY DEF Opt
  <2>2. fold' \in FoldArrow
    BY <1>1, <1>4, <2>1, ZenonT(30) DEF FoldArrow
  <2> QED
    BY <1>1, <1>4, <2>2 DEF FoldArrow
<1>6. FoldControl'
  BY <1>1, <1>4, ZenonT(30) DEF IInv, FoldControl, FoldArrow, Has
<1>7. ASSUME \A q \in {"child_out", "child_in"} : mailbox'[q].queue = mailbox[q].queue
      PROVE  ChildFamily'
  <2>1. fold.step \notin EarlyFold /\ fold'.step \notin EarlyFold
    BY <1>1, <1>5 DEF EarlyFold
  <2>2. ChildrenAt' = ChildrenAt
    BY <1>1, <1>2, <1>5, <1>7, <2>1, ZenonT(30) DEF ChildrenAt, Tapped
  <2> QED
    BY <1>2, <2>2, ChildrenStay, ZenonT(30) DEF IInv
<1>8. CASE fold.is_queue
  <2>1. Pushes("parent_out", ItemsOf(p), fold.parent_slot) /\ UNCHANGED <<parent_pool, refs>>
    BY <1>0, <1>8 DEF FoldPushParent
  <2>2. /\ mailbox' \in [Queues -> LocalQueue(Parents \cup Children)]
        /\ \A q \in Queues \ {"parent_out"} : mailbox'[q].queue = mailbox[q].queue
        /\ p # None => Gains(mailbox["parent_out"].queue, mailbox'["parent_out"].queue, p)
        /\ p = None => mailbox'["parent_out"].queue = mailbox["parent_out"].queue
    BY <1>1, <2>1, PushesOne, ZenonT(30) DEF IInv
  <2>3. TypeOK'
    BY <1>2, <1>5, <2>1, <2>2, ZenonT(30) DEF IInv, TypeOK
  <2>4. ChildFamily'
    BY <1>7, <2>2, ZenonT(30) DEF Queues
  <2>5. ParentFamily' /\ Counted'
    <3>1. CASE p = None
      <4>1. ParentsAt' = ParentsAt
        BY <1>0, <1>2, <1>5, <2>1, <2>2, <3>1, ZenonT(30) DEF ParentsAt, Queues
      <4> QED
        BY <1>2, <2>1, <4>1, ParentsStay, ZenonT(30) DEF IInv
    <3>2. CASE p # None
      <4>1. Loses(ItemsOf(p), ItemsOf(None), p)
        BY <3>2, ItemsOfMoves
      <4>2. Moved(ParentsAt, ParentsAt', "fold", "parent_out", p)
        BY <1>0, <1>2, <1>5, <2>1, <2>2, <3>2, <4>1, ParentPlaces, ParentsMoved, ZenonT(30) DEF Queues
      <4>3. {"fold", "parent_out"} \subseteq Downstream
        BY ZenonT(30) DEF Downstream
      <4> QED
        BY <1>2, <2>1, <4>2, <4>3, ParentMoves, ZenonT(30) DEF IInv
    <3> QED
      BY <3>1, <3>2
  <2> QED
    BY <1>3, <1>6, <2>3, <2>4, <2>5, ZenonT(30) DEF IInv
<1>9. CASE ~fold.is_queue /\ p = None
  <2>1. UNCHANGED <<parent_pool, refs, mailbox>>
    BY <1>0, <1>9 DEF FoldPushParent
  <2>2. TypeOK'
    BY <1>2, <1>5, <2>1, ZenonT(30) DEF IInv, TypeOK
  <2>3. ChildFamily'
    BY <1>7, <2>1
  <2>4. ParentsAt' = ParentsAt
    BY <1>0, <1>2, <1>5, <1>9, <2>1, ZenonT(30) DEF ParentsAt
  <2>5. ParentFamily' /\ Counted'
    BY <1>2, <2>1, <2>4, ParentsStay, ZenonT(30) DEF IInv
  <2> QED
    BY <1>3, <1>6, <2>2, <2>3, <2>5 DEF IInv
<1>10. CASE ~fold.is_queue /\ p # None
  <2>1. Recycle(p) /\ UNCHANGED mailbox /\ p \in Parents
    BY <1>0, <1>1, <1>10, ZenonT(30) DEF FoldPushParent, Opt
  <2>2. /\ parent_pool' \in PP!Pool /\ refs' \in [Parents -> Int]
        /\ Gains(parent_pool.available[Here], parent_pool'.available[Here], p)
        /\ refs' = [refs EXCEPT ![p] = 1]
    BY <2>1, RecycleEffect DEF IInv
  <2>3. TypeOK'
    BY <1>2, <1>5, <2>1, <2>2, ZenonT(30) DEF IInv, TypeOK
  <2>4. ChildFamily'
    BY <1>7, <2>1
  <2>5. Moved(ParentsAt, ParentsAt', "fold", "pool", p)
    <3>1. Loses(ItemsOf(p), ItemsOf(None), p)
      BY <1>10, ItemsOfMoves
    <3> QED
      BY <1>0, <1>2, <1>5, <2>1, <2>2, <3>1, ParentPlaces, ParentsMoved, ZenonT(30)
  <2>6. ParentFamily' /\ Counted'
    <3>1. "fold" \in Downstream
      BY DEF Downstream
    <3> QED
      BY <1>2, <2>1, <2>2, <2>5, <3>1, ParentRecycled, ZenonT(30) DEF IInv
  <2> QED
    BY <1>3, <1>6, <2>3, <2>4, <2>6 DEF IInv
<1> QED
  BY <1>8, <1>9, <1>10

-----------------------------------------------------------------------------
(* The invariant.                                                          *)

\* The topology as JTopologyBuilder leaves it: every event is in its pool.
LEMMA InitIInv == Counting /\ Init => IInv
<1> SUFFICES ASSUME Counting, Init PROVE IInv
  OBVIOUS
<1>1. /\ source_data = None /\ parent_tap_data = None /\ parent_of = [c \in Children |-> None]
      /\ tap_data = [w \in TapWorkers |-> None] /\ refs = [p \in Parents |-> 1]
      /\ mailbox = [q \in Queues |-> EmptyQueue]
      /\ parent_pool = PP!InitialPool /\ child_pool = CP!InitialPool
  BY DEF Init
<1>2. /\ unfold \in UnfoldArrow /\ unfold.step = "parent_in" /\ unfold.parent_in = None
      /\ unfold.parent_slot = 0 /\ unfold.child = None /\ unfold.out_slot = 0
      /\ unfold.parent_event = None /\ unfold.ready = TRUE /\ unfold.last = FALSE
  <2>1. unfold = [step |-> "parent_in", parent_in |-> None, parent_slot |-> 0, child |-> None,
                  out_slot |-> 0, parent_event |-> None, ready |-> TRUE, child_number |-> 0,
                  last |-> FALSE]
    BY DEF Init
  <2>2. None \in Opt(Parents) /\ None \in Opt(Children) /\ 0 \in 0 .. 1 /\ 0 \in 0 .. MaxChildren
    BY HierarchyAssumption DEF Opt
  <2> QED
    BY <2>1, <2>2, ZenonT(30) DEF UnfoldArrow
<1>3. /\ fold \in FoldArrow /\ fold.step = "child_in" /\ fold.child = None /\ fold.child_slot = 0
      /\ fold.parent = None /\ fold.parent_slot = 0
  <2>1. PICK b \in BOOLEAN : fold = [step |-> "child_in", child |-> None, child_slot |-> 0, parent |-> None,
                                     parent_slot |-> 0, is_queue |-> b]
    BY DEF Init
  <2>2. None \in Opt(Parents) /\ None \in Opt(Children) /\ 0 \in 0 .. 1
    BY DEF Opt
  <2> QED
    BY <2>1, <2>2, ZenonT(30) DEF FoldArrow
<1>4. /\ parent_pool \in PP!Pool /\ parent_pool.available[Here] = ParentItems
      /\ child_pool \in CP!Pool /\ child_pool.available[Here] = ChildItems
  BY <1>1, ParentItemsDistinct, ChildItemsDistinct, ZenonT(30) DEF PP!InitialPool, CP!InitialPool
<1>5. /\ mailbox \in [Queues -> LocalQueue(Parents \cup Children)]
      /\ \A q \in Queues : mailbox[q].queue = <<>>
  <2>1. EmptyQueue \in LocalQueue(Parents \cup Children) /\ EmptyQueue.queue = <<>>
    BY DEF EmptyQueue, LocalQueue
  <2> QED
    BY <1>1, <2>1
<1>6. TypeOK
  <2>1. None \in Opt(Parents) /\ None \in Opt(Children)
    BY DEF Opt
  <2>2. /\ tap_data \in [TapWorkers -> Opt(Children)] /\ parent_of \in [Children -> Opt(Parents)]
        /\ refs \in [Parents -> Int]
    BY <1>1, <2>1
  <2> QED
    BY <1>1, <1>2, <1>3, <1>4, <1>5, <2>1, <2>2, ZenonT(30) DEF TypeOK
<1>7. UnfoldControl /\ FoldControl
  BY <1>2, <1>3 DEF UnfoldControl, FoldControl, Has
<1>8. IsInjective(<<>>) /\ Range(<<>>) = {} /\ ItemsOf(None) = <<>>
  BY DEF IsInjective, Range, ItemsOf
<1>9. /\ ParentsAt["pool"] = ParentItems /\ \A x \in DOMAIN ParentsAt \ {"pool"} : ParentsAt[x] = <<>>
      /\ "pool" \in Upstream
  BY <1>1, <1>2, <1>3, <1>4, <1>5, <1>8, ParentPlaces, ZenonT(90) DEF Queues, Upstream
<1>10. Within(ParentsAt, Upstream) = Parents /\ Within(ParentsAt, Downstream) = {} /\ Apart(ParentsAt)
  <2>1. "pool" \notin Downstream
    BY DEF Downstream
  <2>2. \A x \in DOMAIN ParentsAt : Range(ParentsAt[x]) = {p \in Parents : x = "pool"} /\ IsInjective(ParentsAt[x])
    BY <1>8, <1>9, ParentItemsDistinct
  <2>3. Apart(ParentsAt)
    BY <2>2 DEF Apart
  <2>4. Upstream \subseteq DOMAIN ParentsAt /\ Downstream \subseteq DOMAIN ParentsAt
    BY PlaceNames
  <2> QED
    BY <1>9, <2>1, <2>2, <2>3, <2>4 DEF Within
<1>11. \A p \in Parents : Kids(p) = {}
  BY <1>1, HierarchyAssumption DEF Kids
<1>12. ParentFamily
  BY <1>10, <1>11, PlaceNames DEF ParentFamily
<1>13. Counted
  BY <1>1, <1>10, <1>11 DEF Counted, Counting
<1>14. /\ ChildrenAt["pool"] = ChildItems /\ "pool" \in Detached
       /\ \A x \in DOMAIN ChildrenAt \ {"pool"} : ChildrenAt[x] = <<>>
  <2>1. Tapped = <<>>
    <3>1. {w \in TapWorkers : tap_data[w] # None} = {}
      BY <1>1
    <3>2. Tapped = [w \in {} |-> tap_data[w]]
      BY <3>1 DEF Tapped
    <3> QED
      BY <3>2
  <2> QED
    <3>1. unfold.step \notin LateUnfold /\ fold.step \notin EarlyFold
      BY <1>2, <1>3 DEF LateUnfold, EarlyFold
    <3> QED
      BY <1>2, <1>3, <1>4, <1>5, <1>8, <2>1, <3>1, ChildrenByPlace, UnfoldPlaces, FoldPlaces, ZenonT(60)
         DEF Queues, Detached
<1>15. Within(ChildrenAt, Detached) = Children /\ Within(ChildrenAt, Attached) = {} /\ Apart(ChildrenAt)
  <2>1. "pool" \notin Attached
    BY DEF Attached
  <2>2. \A x \in DOMAIN ChildrenAt : Range(ChildrenAt[x]) = {p \in Children : x = "pool"} /\ IsInjective(ChildrenAt[x])
    BY <1>8, <1>14, ChildItemsDistinct, ZenonT(30)
  <2>3. Apart(ChildrenAt)
    BY <2>2 DEF Apart
  <2>4. Attached \subseteq DOMAIN ChildrenAt /\ Detached \subseteq DOMAIN ChildrenAt
    BY PlaceNames
  <2> QED
    BY <1>14, <2>1, <2>2, <2>3, <2>4 DEF Within
<1>16. ChildFamily
  BY <1>1, <1>15, PlaceNames DEF ChildFamily
<1> QED
  BY <1>6, <1>7, <1>12, <1>13, <1>16, ZenonT(30) DEF IInv

\* Every step, and every step of something else, keeps it.
LEMMA NextIInv == IInv /\ [Next]_vars => IInv'
<1> SUFFICES ASSUME IInv, [Next]_vars PROVE IInv'
  OBVIOUS
<1>1. CASE SourcePull \/ SourcePush \/ ParentTapPull \/ ParentTapPush
  BY <1>1, SourcePullStep, SourcePushStep, ParentTapPullStep, ParentTapPushStep, ZenonT(30)
<1>2. ASSUME NEW w \in TapWorkers, TapPull(w) \/ TapPush(w)
      PROVE  IInv'
  BY <1>2, TapPullStep, TapPushStep
<1>3. CASE UnfoldPullParent \/ UnfoldPullChild \/ UnfoldPullOut \/ UnfoldReturnParent \/ UnfoldReturnChild
  BY <1>3, UnfoldPullParentStep, UnfoldPullChildStep, UnfoldPullOutStep, UnfoldReturnParentStep, ZenonT(30),
     UnfoldReturnChildStep
<1>4. ASSUME NEW last \in BOOLEAN, Unfold(last)
      PROVE  IInv'
  BY <1>4, UnfoldStep
<1>5. CASE UnfoldRelease \/ UnfoldPushParent \/ UnfoldPushOut
  BY <1>5, UnfoldReleaseStep, UnfoldPushParentStep, UnfoldPushOutStep, ZenonT(30)
<1>6. CASE FoldPullChild \/ FoldPullParent \/ FoldRelease \/ FoldPushIn \/ FoldPushChild \/ FoldPushParent
  BY <1>6, FoldPullChildStep, FoldPullParentStep, FoldReleaseStep, FoldPushInStep, FoldPushChildStep, ZenonT(30),
     FoldPushParentStep
<1>7. CASE UNCHANGED vars
  <2>1. ParentsAt' = ParentsAt /\ ChildrenAt' = ChildrenAt
    BY <1>7, ZenonT(30) DEF vars, ParentsAt, ChildrenAt, Tapped
  <2>2. TypeOK'
    BY <1>7, ZenonT(30) DEF IInv, TypeOK, vars
  <2>3. UnfoldControl' /\ FoldControl'
    BY <1>7, ControlKept DEF IInv, vars
  <2>4. ParentFamily' /\ Counted' /\ ChildFamily'
    BY <1>7, <2>1, ParentsStay, ChildrenStay, ZenonT(30) DEF IInv, vars
  <2> QED
    BY <2>2, <2>3, <2>4, ZenonT(30) DEF IInv
<1> QED
  BY <1>1, <1>2, <1>3, <1>4, <1>5, <1>6, <1>7, ZenonT(30) DEF Next

-----------------------------------------------------------------------------
(* What the invariant says of the counts.                                  *)

\* What is in a Data's items.
LEMMA RangeOfItems == \A e, p : p # None => (p \in Range(ItemsOf(e)) <=> e = p)
<1> SUFFICES ASSUME NEW e, NEW p, p # None PROVE p \in Range(ItemsOf(e)) <=> e = p
  OBVIOUS
<1>1. CASE e = None
  BY <1>1 DEF ItemsOf, Range
<1>2. CASE e # None
  <2>1. ItemsOf(e) = <<e>>
    BY <1>2 DEF ItemsOf
  <2> QED
    BY <2>1 DEF Range
<1> QED
  BY <1>1, <1>2

\* A parent's own reference lasts exactly in the places upstream of the release.
LEMMA BeforeMeans ==
    ASSUME IInv, NEW p \in Parents
    PROVE  Before(p) # {} <=> p \in Within(ParentsAt, Upstream)
<1>1. p # None
  BY Types DEF IInv
<1>2. /\ p \in Range(ParentsAt["pool"]) <=> \E i \in DOMAIN parent_pool.available[Here] : parent_pool.available[Here][i] = p
      /\ p \in Range(ParentsAt["parent_in"]) <=> \E i : i \in In("parent_in", p)
      /\ p \in Range(ParentsAt["source"]) <=> source_data = p
      /\ p \in Range(ParentsAt["unfold_data"]) <=> unfold.parent_in = p
      /\ p \in Range(ParentsAt["unfold"]) <=> unfold.parent_event = p
  <2>1. /\ ParentsAt["pool"] = parent_pool.available[Here] /\ ParentsAt["parent_in"] = mailbox["parent_in"].queue
        /\ ParentsAt["source"] = ItemsOf(source_data) /\ ParentsAt["unfold_data"] = ItemsOf(unfold.parent_in)
        /\ ParentsAt["unfold"] = ItemsOf(unfold.parent_event)
    BY ZenonT(30) DEF ParentsAt
  <2>2. p \in Range(ParentsAt["pool"]) <=> \E i \in DOMAIN parent_pool.available[Here] : parent_pool.available[Here][i] = p
    BY <2>1, ZenonT(30) DEF Range
  <2>3. p \in Range(ParentsAt["parent_in"]) <=> \E i : i \in In("parent_in", p)
    BY <2>1 DEF Range, In
  <2> QED
    BY <1>1, <2>1, <2>2, <2>3, RangeOfItems, ZenonT(30)
<1>3. p \in Within(ParentsAt, Upstream) <=>
         \/ p \in Range(ParentsAt["pool"]) \/ p \in Range(ParentsAt["parent_in"])
         \/ p \in Range(ParentsAt["source"]) \/ p \in Range(ParentsAt["unfold_data"])
         \/ p \in Range(ParentsAt["unfold"])
  BY DEF Within, Upstream
<1>4. Before(p) # {} <=>
         \/ \E i \in DOMAIN parent_pool.available[Here] : parent_pool.available[Here][i] = p
         \/ \E i : i \in In("parent_in", p)
         \/ source_data = p \/ unfold.parent_in = p \/ unfold.parent_event = p
  BY ZenonT(30) DEF Before
<1> QED
  BY <1>2, <1>3, <1>4, ZenonT(30)

\* The reference counts are exact.
LEMMA CountsAreExact == IInv => RefCountExact
BY BeforeMeans DEF IInv, Counted, RefCountExact

-----------------------------------------------------------------------------
(* Reference counting implements EventHierarchy.                           *)

\* A parent's stage, read off its count.
StageByCount ==
    \A p \in Parents :
       LET n == Cardinality(Kids(p))
       IN  /\ Families[p] = Kids(p) /\ n \in Nat /\ refs[p] \in Int
           /\ unfold.parent_event = p => Stage[p] = "open" /\ refs[p] = n + 1
           /\ unfold.parent_event # p /\ refs[p] = n + 1 => Stage[p] = "free"
           /\ unfold.parent_event # p /\ refs[p] = n => Stage[p] = "closed"
           /\ refs[p] = n \/ refs[p] = n + 1

\* With exact counts, this is its stage.
LEMMA StageMeans == IInv => StageByCount
<1> SUFFICES ASSUME IInv, NEW p \in Parents
             PROVE  /\ Families[p] = Kids(p) /\ Cardinality(Kids(p)) \in Nat /\ refs[p] \in Int
                    /\ unfold.parent_event = p => Stage[p] = "open" /\ refs[p] = Cardinality(Kids(p)) + 1
                    /\ unfold.parent_event # p /\ refs[p] = Cardinality(Kids(p)) + 1 => Stage[p] = "free"
                    /\ unfold.parent_event # p /\ refs[p] = Cardinality(Kids(p)) => Stage[p] = "closed"
                    /\ refs[p] = Cardinality(Kids(p)) \/ refs[p] = Cardinality(Kids(p)) + 1
  BY DEF StageByCount
<1>1. Families[p] = Kids(p) /\ refs[p] \in Int
  BY Types DEF Families, IInv
<1>2. Cardinality(Kids(p)) \in Nat
  <2>1. Kids(p) \in SUBSET Children
    BY DEF Kids
  <2> QED
    BY <2>1 DEF IInv, Counting
<1>3. refs[p] = Cardinality(Kids(p)) + IF Before(p) # {} THEN 1 ELSE 0
  BY CountsAreExact DEF RefCountExact
<1>4. unfold.parent_event = p => Before(p) # {}
  BY DEF Before
<1>5. Before(p) # {} <=> refs[p] = Cardinality(Kids(p)) + 1
  BY <1>2, <1>3
<1>6. Before(p) = {} <=> refs[p] = Cardinality(Kids(p))
  BY <1>2, <1>3
<1>7. Stage[p] = IF unfold.parent_event = p THEN "open" ELSE IF Before(p) # {} THEN "free" ELSE "closed"
  BY DEF Stage
<1> QED
  BY <1>1, <1>2, <1>4, <1>5, <1>6, <1>7, ZenonT(30)

\* And it is after every step.
LEMMA StageMeansNext == IInv' => StageByCount'
BY StageMeans, PTL

\* A parent whose count, children and unfolder stay is in the same stage after a step.
LEMMA StageStays ==
    ASSUME IInv, IInv', NEW p \in Parents, refs'[p] - Cardinality(Kids(p)') = refs[p] - Cardinality(Kids(p)),
           unfold'.parent_event = p <=> unfold.parent_event = p
    PROVE  Stage'[p] = Stage[p]
<1> DEFINE n == Cardinality(Kids(p))
           m == Cardinality(Kids(p)')
<1>1. /\ n \in Nat /\ refs[p] \in Int
      /\ unfold.parent_event = p => Stage[p] = "open"
      /\ unfold.parent_event # p /\ refs[p] = n + 1 => Stage[p] = "free"
      /\ unfold.parent_event # p /\ refs[p] = n => Stage[p] = "closed"
      /\ refs[p] = n \/ refs[p] = n + 1
  BY StageMeans, ZenonT(30) DEF StageByCount
<1>2. /\ m \in Nat /\ refs'[p] \in Int
      /\ unfold'.parent_event = p => Stage'[p] = "open"
      /\ unfold'.parent_event # p /\ refs'[p] = m + 1 => Stage'[p] = "free"
      /\ unfold'.parent_event # p /\ refs'[p] = m => Stage'[p] = "closed"
  BY StageMeansNext, ZenonT(30) DEF StageByCount
<1>3. (refs[p] = n => refs'[p] = m) /\ (refs[p] = n + 1 => refs'[p] = m + 1)
  <2> HIDE DEF n, m
  <2>1. refs'[p] - m = refs[p] - n
    BY ZenonT(30) DEF n, m
  <2> QED
    BY <1>1, <1>2, <2>1
<1> HIDE DEF n, m
<1> QED
  BY <1>1, <1>2, <1>3

\* Both maps have the parents for their domain.
LEMMA Maps ==
    /\ Stage \in [Parents -> {"open", "free", "closed"}] /\ Families = [p \in Parents |-> Kids(p)]
    /\ Stage' \in [Parents -> {"open", "free", "closed"}] /\ Families' = [p \in Parents |-> Kids(p)']
BY ZenonT(30) DEF Stage, Families

\* Where neither the counts nor the parents of children change, a family stays as it is.
LEMMA FamilyStays ==
    ASSUME IInv, IInv', UNCHANGED <<refs, parent_of>>, unfold'.parent_event = unfold.parent_event
    PROVE  UNCHANGED H!vars
<1>1. \A p : Kids(p)' = Kids(p)
  BY ZenonT(30) DEF Kids
<1>2. ASSUME NEW p \in Parents PROVE Stage'[p] = Stage[p]
  <2>1. refs'[p] - Cardinality(Kids(p)') = refs[p] - Cardinality(Kids(p))
    BY <1>1
  <2> QED
    BY <2>1, StageStays
<1>3. Stage' = Stage
  BY <1>2, Maps
<1>4. Families' = Families
  BY <1>1, Maps
<1> QED
  BY <1>3, <1>4, ZenonT(30) DEF H!vars

\* put() is the recycling of a parent.
LEMMA RecycleIsRecycle ==
    ASSUME IInv, IInv', NEW p \in Within(ParentsAt, Downstream), refs' = [refs EXCEPT ![p] = 1],
           UNCHANGED <<parent_of, unfold>>
    PROVE  H!Next
<1>1. p \in Parents /\ Kids(p) = {} /\ p \notin Within(ParentsAt, Upstream) /\ refs \in [Parents -> Int]
  BY WithinApart, PlaceNames, Types DEF IInv, ParentFamily
<1>2. \A q : Kids(q)' = Kids(q)
  BY DEF Kids
<1>3. Cardinality(Kids(p)) = 0 /\ Cardinality(Kids(p)') = 0 /\ refs[p] = 0 /\ refs'[p] = 1
  <2>1. Kids(p)' = Kids(p) /\ Cardinality(Kids(p)) = 0
    BY <1>1, <1>2 DEF IInv, Counting
  <2>2. refs[p] = Cardinality(Kids(p)) + 0
    BY <1>1, ZenonT(30) DEF IInv, Counted
  <2>3. refs'[p] = 1
    BY <1>1
  <2> QED
    BY <2>1, <2>2, <2>3
<1>4. unfold.parent_event # p
  <2>1. unfold.parent_event = p => refs[p] = Cardinality(Kids(p)) + 1
    BY <1>1, StageMeans, ZenonT(30) DEF StageByCount
  <2> QED
    BY <1>3, <2>1
<1>5. Stage[p] = "closed"
  BY <1>1, <1>3, <1>4, StageMeans, ZenonT(30) DEF StageByCount
<1>6. Stage'[p] = "free"
  <2>1. unfold'.parent_event # p /\ refs'[p] = Cardinality(Kids(p)') + 1 => Stage'[p] = "free"
    BY <1>1, StageMeansNext, ZenonT(30) DEF StageByCount
  <2> QED
    BY <1>3, <1>4, <2>1
<1>7. ASSUME NEW q \in Parents \ {p} PROVE Stage'[q] = Stage[q]
  <2>1. refs'[q] - Cardinality(Kids(q)') = refs[q] - Cardinality(Kids(q))
    BY <1>1, <1>2
  <2> QED
    BY <2>1, StageStays, ZenonT(30)
<1>8. Stage' = [Stage EXCEPT ![p] = "free"]
  BY <1>1, <1>6, <1>7, Maps, ZenonT(30)
<1>9. Families' = Families /\ Families[p] = {}
  BY <1>1, <1>2, Maps, ZenonT(30)
<1>10. H!Recycle(p)
  BY <1>5, <1>8, <1>9, ZenonT(30) DEF H!Recycle
<1> QED
  BY <1>1, <1>10, ZenonT(30) DEF H!Next

\* SetParent() is the birth of a child.
LEMMA UnfoldIsSpawn ==
    ASSUME IInv, IInv', NEW last \in BOOLEAN, Unfold(last)
    PROVE  H!Next
<1>0. PICK c, p : /\ c = unfold.child
                  /\ p = IF unfold.ready THEN unfold.parent_in ELSE unfold.parent_event
  OBVIOUS
<1>1. /\ unfold \in UnfoldArrow /\ c \in Children /\ p \in Parents /\ p # None
      /\ unfold.ready => unfold.parent_in = p /\ unfold.parent_event = None
      /\ ~unfold.ready => unfold.parent_in = None /\ unfold.parent_event = p
      /\ parent_of \in [Children -> Opt(Parents)] /\ refs \in [Parents -> Int] /\ parent_of[c] = None
  BY <1>0, UnfoldEffect, ZenonT(30)
<1>2. parent_of' = [parent_of EXCEPT ![c] = p] /\ refs' = [refs EXCEPT ![p] = @ + 1]
  BY <1>0, UnfoldEffect, ZenonT(30)
<1>3. unfold'.parent_event = p
  <2>1. unfold' = [unfold EXCEPT !.step = "release", !.parent_in = None, !.parent_event = p,
                                 !.ready = FALSE, !.last = last, !.child_number = NextChildNumber(last)]
    BY <1>0, UnfoldEffect, ZenonT(60)
  <2> QED
    BY <1>1, <2>1 DEF UnfoldArrow
<1>4. None \notin Parents /\ p \in Within(ParentsAt, Upstream)
  BY <1>0, UnfoldEffect, Types, ZenonT(30) DEF IInv
<1>5. Kids(p)' = Kids(p) \cup {c} /\ \A r \in Parents \ {p} : Kids(r)' = Kids(r)
  <2>1. Kids(p)' = Kids(p) \cup {c}
    BY <1>1, <1>2 DEF Kids
  <2>2. ASSUME NEW r \in Parents \ {p} PROVE Kids(r)' = Kids(r)
    BY <1>1, <1>2, <1>4, ZenonT(30) DEF Kids
  <2> QED
    BY <2>1, <2>2
<1>6. \A q \in Parents : c \notin Families[q]
  BY <1>1, <1>4, Maps, ZenonT(30) DEF Kids
<1>7. Stage[p] \in {"free", "open"}
  <2>1. refs[p] = Cardinality(Kids(p)) + 1
    BY <1>1, <1>4, ZenonT(30) DEF IInv, Counted
  <2> QED
    BY <1>1, <2>1, StageMeans, ZenonT(30) DEF StageByCount
<1>8. \A q \in Parents \ {p} : Stage[q] # "open"
  <2> SUFFICES ASSUME NEW q \in Parents \ {p} PROVE Stage[q] # "open"
    OBVIOUS
  <2>1. unfold.parent_event # q
    BY <1>1, <1>4, ZenonT(30)
  <2> QED
    BY <2>1, StageMeans, ZenonT(30) DEF StageByCount
<1>9. Stage'[p] = "open"
  BY <1>1, <1>3, StageMeansNext, ZenonT(30) DEF StageByCount
<1>10. ASSUME NEW q \in Parents \ {p} PROVE Stage'[q] = Stage[q]
  <2>1. refs'[q] - Cardinality(Kids(q)') = refs[q] - Cardinality(Kids(q))
    BY <1>1, <1>2, <1>5, ZenonT(30)
  <2>2. unfold'.parent_event # q /\ unfold.parent_event # q
    BY <1>1, <1>3, <1>4, ZenonT(30)
  <2> QED
    BY <2>1, <2>2, StageStays, ZenonT(30)
<1>11. Stage' = [Stage EXCEPT ![p] = "open"]
  BY <1>1, <1>9, <1>10, Maps, ZenonT(30)
<1>12. Families' = [Families EXCEPT ![p] = @ \cup {c}]
  BY <1>1, <1>5, Maps, ZenonT(30)
<1>13. H!Spawn(p, c)
  BY <1>6, <1>7, <1>8, <1>11, <1>12, ZenonT(30) DEF H!Spawn
<1> QED
  BY <1>1, <1>13 DEF H!Next

\* Release() of the unfold arrow closes the parent, which has a child then.
LEMMA UnfoldReleaseIsClose ==
    ASSUME IInv, IInv', UnfoldRelease
    PROVE  H!Next \/ UNCHANGED H!vars
<1>0. PICK c, p : c = unfold.child /\ p = unfold.parent_event
  OBVIOUS
<1>1. /\ unfold \in UnfoldArrow /\ c \in Children /\ p \in Parents /\ p # None /\ parent_of[c] = p
      /\ refs \in [Parents -> Int] /\ None \notin Parents /\ UNCHANGED parent_of
  BY <1>0, Types, ZenonT(30) DEF IInv, UnfoldRelease, UnfoldControl, UnfoldArrow, Has, Opt
<1>2. CASE ~unfold.last
  <2>1. unfold' = [unfold EXCEPT !.step = "push_parent"] /\ UNCHANGED refs
    BY <1>2 DEF UnfoldRelease, After
  <2>2. unfold'.parent_event = unfold.parent_event
    BY <1>1, <2>1, ZenonT(30) DEF UnfoldArrow
  <2> QED
    BY <1>1, <2>1, <2>2, FamilyStays, ZenonT(30)
<1>3. CASE unfold.last
  <2>1. /\ unfold' = [unfold EXCEPT !.step = "push_parent", !.parent_event = None,
                                    !.ready = TRUE, !.last = FALSE]
        /\ refs' = [refs EXCEPT ![p] = @ - 1]
    BY <1>0, <1>3 DEF UnfoldRelease, After
  <2>2. unfold'.parent_event = None
    BY <1>1, <2>1 DEF UnfoldArrow
  <2>3. \A r : Kids(r)' = Kids(r)
    BY <1>1, ZenonT(30) DEF Kids
  <2>4. Stage[p] = "open" /\ refs[p] = Cardinality(Kids(p)) + 1 /\ Cardinality(Kids(p)) \in Nat
    BY <1>0, <1>1, StageMeans DEF StageByCount
  <2>5. Stage'[p] = "closed"
    <3>1. refs'[p] = Cardinality(Kids(p)')
      <4>1. refs'[p] = refs[p] - 1
        BY <1>1, <2>1
      <4> QED
        BY <2>3, <2>4, <4>1
    <3> QED
      BY <1>1, <2>2, <3>1, StageMeansNext, ZenonT(30) DEF StageByCount
  <2>6. ASSUME NEW q \in Parents \ {p} PROVE Stage'[q] = Stage[q]
    <3>1. refs'[q] - Cardinality(Kids(q)') = refs[q] - Cardinality(Kids(q))
      BY <1>1, <2>1, <2>3, ZenonT(30)
    <3>2. unfold'.parent_event # q /\ unfold.parent_event # q
      BY <1>0, <1>1, <2>2, ZenonT(30)
    <3> QED
      BY <3>1, <3>2, StageStays, ZenonT(30)
  <2>7. Stage' = [Stage EXCEPT ![p] = "closed"]
    BY <1>1, <2>5, <2>6, Maps, ZenonT(30)
  <2>8. Families' = Families /\ Families[p] # {}
    <3>1. c \in Kids(p)
      BY <1>1 DEF Kids
    <3> QED
      BY <1>1, <2>3, <3>1, Maps, ZenonT(30)
  <2>9. H!Close(p)
    BY <2>4, <2>7, <2>8, ZenonT(30) DEF H!Close
  <2> QED
    BY <1>1, <2>9 DEF H!Next
<1> QED
  BY <1>2, <1>3

\* ReleaseParent() is the end of a child.
LEMMA FoldReleaseIsFold ==
    ASSUME IInv, IInv', FoldRelease
    PROVE  H!Next
<1>0. PICK c, p : c = fold.child /\ p = parent_of[fold.child]
  OBVIOUS
<1>1. /\ c \in Children /\ p \in Parents /\ p # None /\ c \in Kids(p) /\ refs \in [Parents -> Int]
      /\ parent_of \in [Children -> Opt(Parents)]
  BY <1>0, FoldReleaseEffect, ZenonT(30)
<1>2. parent_of' = [parent_of EXCEPT ![c] = None] /\ refs' = [refs EXCEPT ![p] = @ - 1] /\ unfold' = unfold
  BY <1>0, FoldReleaseEffect, ZenonT(30)
<1>3. Kids(p)' = Kids(p) \ {c} /\ \A r \in Parents \ {p} : Kids(r)' = Kids(r)
  <2>1. None \notin Parents
    BY Types DEF IInv
  <2>2. Kids(p)' = Kids(p) \ {c}
    BY <1>1, <1>2, ZenonT(30) DEF Kids
  <2>3. ASSUME NEW r \in Parents \ {p} PROVE Kids(r)' = Kids(r)
    BY <1>0, <1>1, <1>2, <2>1, ZenonT(30) DEF Kids
  <2> QED
    BY <2>2, <2>3, ZenonT(30)
<1>4. refs'[p] - Cardinality(Kids(p)') = refs[p] - Cardinality(Kids(p))
  <2>1. Cardinality(Kids(p)') = Cardinality(Kids(p)) - 1 /\ Cardinality(Kids(p)) \in Nat
    BY <1>1, <1>3, KidsOf, ZenonT(30) DEF IInv
  <2>2. refs'[p] = refs[p] - 1 /\ refs[p] \in Int
    BY <1>1, <1>2, ZenonT(30)
  <2> QED
    BY <2>1, <2>2
<1>5. ASSUME NEW q \in Parents PROVE Stage'[q] = Stage[q]
  <2>1. refs'[q] - Cardinality(Kids(q)') = refs[q] - Cardinality(Kids(q))
    <3>1. CASE q = p
      BY <1>4, <3>1, ZenonT(30)
    <3>2. CASE q # p
      BY <1>1, <1>2, <1>3, <3>2, ZenonT(30)
    <3> QED
      BY <3>1, <3>2, ZenonT(30)
  <2> QED
    BY <1>2, <2>1, StageStays, ZenonT(30)
<1>6. Stage' = Stage
  BY <1>5, Maps
<1>7. Families' = [Families EXCEPT ![p] = @ \ {c}] /\ c \in Families[p]
  BY <1>1, <1>3, Maps, ZenonT(30)
<1>8. H!Fold(p, c)
  BY <1>6, <1>7, ZenonT(30) DEF H!Fold
<1> QED
  BY <1>1, <1>8 DEF H!Next

\* What the unfold arrow pulls and pushes does not change whose parent it has.
LEMMA UnfoldKeepsParent ==
    ASSUME IInv, IInv',
           \/ UnfoldPullParent \/ UnfoldPullChild \/ UnfoldPullOut \/ UnfoldReturnParent
           \/ UnfoldReturnChild \/ UnfoldPushParent \/ UnfoldPushOut
    PROVE  UNCHANGED H!vars
<1>1. unfold \in UnfoldArrow
  BY Types DEF IInv
<1>2. UNCHANGED <<refs, parent_of>>
  BY ZenonT(30) DEF UnfoldPullParent, UnfoldPullChild, UnfoldPullOut, UnfoldReturnParent, UnfoldReturnChild,
         UnfoldPushParent, UnfoldPushOut
<1>3. CASE UnfoldPullParent
  <2>1. unfold'.parent_event = unfold.parent_event
    BY <1>1, <1>3, ZenonT(30) DEF UnfoldPullParent, UnfoldArrow
  <2> QED
    BY <1>2, <2>1, FamilyStays, ZenonT(30)
<1>4. CASE UnfoldPullChild
  <2>1. unfold'.parent_event = unfold.parent_event
    BY <1>1, <1>4, ZenonT(30) DEF UnfoldPullChild, UnfoldArrow
  <2> QED
    BY <1>2, <2>1, FamilyStays
<1>5. CASE UnfoldPullOut
  <2>1. unfold'.parent_event = unfold.parent_event
    BY <1>1, <1>5, ZenonT(30) DEF UnfoldPullOut, UnfoldArrow
  <2> QED
    BY <1>2, <2>1, FamilyStays
<1>6. CASE UnfoldReturnParent \/ UnfoldReturnChild
  <2>1. unfold'.parent_event = unfold.parent_event
    BY <1>1, <1>6, ZenonT(30) DEF UnfoldReturnParent, UnfoldReturnChild, UnfoldArrow
  <2> QED
    BY <1>2, <2>1, FamilyStays
<1>7. CASE UnfoldPushParent \/ UnfoldPushOut
  <2>1. unfold'.parent_event = unfold.parent_event
    BY <1>1, <1>7, ZenonT(30) DEF UnfoldPushParent, UnfoldPushOut, UnfoldArrow
  <2> QED
    BY <1>2, <2>1, FamilyStays
<1> QED
  BY <1>3, <1>4, <1>5, <1>6, <1>7, ZenonT(30)

\* Of what the fold arrow pushes only a recycled parent matters.
LEMMA FoldPushesParent ==
    ASSUME IInv, IInv', FoldPushParent
    PROVE  H!Next \/ UNCHANGED H!vars
<1>1. UNCHANGED <<parent_of, unfold>> /\ fold \in FoldArrow
  BY Types DEF FoldPushParent, aroundFold, IInv
<1>2. CASE fold.is_queue \/ fold.parent = None
  <2>1. UNCHANGED refs
    BY <1>2 DEF FoldPushParent
  <2> QED
    BY <1>1, <2>1, FamilyStays, ZenonT(30)
<1>3. CASE ~fold.is_queue /\ fold.parent # None
  <2>1. PICK p : p = fold.parent
    OBVIOUS
  <2>2. refs' = [refs EXCEPT ![p] = 1] /\ p # None
    BY <1>3, <2>1 DEF FoldPushParent, Recycle
  <2>3. p \in Within(ParentsAt, Downstream)
    <3>1. ParentsAt["fold"] = ItemsOf(p) /\ p \in Range(ItemsOf(p))
      BY <2>1, <2>2, RangeOfItems, ZenonT(30) DEF ParentsAt
    <3> QED
      BY <3>1, ZenonT(30) DEF Within, Downstream
  <2> QED
    BY <1>1, <2>2, <2>3, RecycleIsRecycle, ZenonT(30)
<1> QED
  BY <1>2, <1>3

\* So does what the parents' tap pushes.
LEMMA TapPushesParent ==
    ASSUME IInv, IInv', ParentTapPush
    PROVE  H!Next
<1>1. PICK p : p = parent_tap_data
  OBVIOUS
<1>2. refs' = [refs EXCEPT ![p] = 1] /\ p # None /\ UNCHANGED <<parent_of, unfold>>
  BY <1>1 DEF ParentTapPush, Recycle
<1>3. p \in Within(ParentsAt, Downstream)
  <2>1. ParentsAt["parent_tap"] = ItemsOf(p) /\ p \in Range(ItemsOf(p))
    BY <1>1, <1>2, RangeOfItems, ZenonT(30) DEF ParentsAt
  <2> QED
    BY <2>1, ZenonT(30) DEF Within, Downstream
<1> QED
  BY <1>2, <1>3, RecycleIsRecycle, ZenonT(30)

\* Every step is a step in the life of a family, or does not touch any.
LEMMA HierarchyStep == IInv /\ IInv' /\ [Next]_vars => [H!Next]_H!vars
<1> SUFFICES ASSUME IInv, IInv', [Next]_vars PROVE H!Next \/ UNCHANGED H!vars
  OBVIOUS
<1>1. CASE SourcePull \/ SourcePush \/ ParentTapPull
  <2>1. UNCHANGED <<refs, parent_of, unfold>>
    BY <1>1 DEF SourcePull, SourcePush, ParentTapPull
  <2> QED
    BY <2>1, FamilyStays, ZenonT(30)
<1>2. ASSUME NEW w \in TapWorkers, TapPull(w) \/ TapPush(w)
      PROVE  UNCHANGED H!vars
  <2>1. UNCHANGED <<refs, parent_of, unfold>>
    BY <1>2 DEF TapPull, TapPush
  <2> QED
    BY <2>1, FamilyStays, ZenonT(30)
<1>3. CASE \/ UnfoldPullParent \/ UnfoldPullChild \/ UnfoldPullOut \/ UnfoldReturnParent
           \/ UnfoldReturnChild \/ UnfoldPushParent \/ UnfoldPushOut
  BY <1>3, UnfoldKeepsParent
<1>4. ASSUME NEW last \in BOOLEAN, Unfold(last)
      PROVE  H!Next
  BY <1>4, UnfoldIsSpawn, ZenonT(30)
<1>5. CASE FoldPullChild \/ FoldPullParent \/ FoldPushIn \/ FoldPushChild
  <2>1. UNCHANGED <<refs, parent_of, unfold>>
    BY <1>5, ZenonT(30) DEF FoldPullChild, FoldPullParent, FoldPushIn, FoldPushChild, aroundFold
  <2> QED
    BY <2>1, FamilyStays
<1>6. CASE UNCHANGED vars
  <2>1. UNCHANGED <<refs, parent_of, unfold>>
    BY <1>6 DEF vars
  <2> QED
    BY <2>1, FamilyStays
<1>7. CASE ParentTapPush \/ UnfoldRelease \/ FoldRelease \/ FoldPushParent
  BY <1>7, TapPushesParent, UnfoldReleaseIsClose, FoldReleaseIsFold, FoldPushesParent, ZenonT(30)
<1> QED
  BY <1>1, <1>2, <1>3, <1>4, <1>5, <1>6, <1>7, ZenonT(30) DEF Next

-----------------------------------------------------------------------------
(* The properties.                                                         *)

INSTANCE FiniteSetTheorems

\* The children are as many as the items of their pool, and their sets finite.
LEMMA CountingHolds == Counting
<1>1. ChildItems \in Seq(Children) /\ Range(ChildItems) = Children
  BY ChildItemsDistinct, ZenonT(30)
<1>2. Len(ChildItems) \in Nat /\ DOMAIN ChildItems = 1 .. Len(ChildItems)
  BY <1>1, SeqElements, ZenonT(30)
<1>3. IsFiniteSet(Children)
  <2>1. IsFiniteSet(1 .. Len(ChildItems))
    BY <1>2, FS_Interval
  <2>2. ChildItems \in Surjection(1 .. Len(ChildItems), Children)
    BY <1>1, <1>2 DEF Surjection, Range
  <2> QED
    BY <2>1, <2>2, FS_Surjection, ZenonT(30)
<1>4. ASSUME NEW S \in SUBSET Children
      PROVE  /\ Cardinality(S) \in Nat /\ (Cardinality(S) = 0 <=> S = {})
             /\ \A c \in Children \ S : Cardinality(S \cup {c}) = Cardinality(S) + 1
             /\ \A c \in S : Cardinality(S \ {c}) = Cardinality(S) - 1
  <2>1. IsFiniteSet(S)
    BY <1>3, FS_Subset, ZenonT(30)
  <2>2. Cardinality(S) \in Nat /\ (Cardinality(S) = 0 <=> S = {})
    BY <2>1, FS_CardinalityType, FS_EmptySet, ZenonT(30)
  <2>3. \A c \in Children \ S : Cardinality(S \cup {c}) = Cardinality(S) + 1
    BY <2>1, FS_AddElement, ZenonT(30)
  <2>4. \A c \in S : Cardinality(S \ {c}) = Cardinality(S) - 1
    BY <2>1, FS_RemoveElement, ZenonT(30)
  <2> QED
    BY <2>2, <2>3, <2>4, ZenonT(30)
<1> QED
  BY <1>4, FS_EmptySet, ZenonT(30) DEF Counting

\* IInv always holds.
LEMMA Invariance == Spec => []IInv
BY InitIInv, CountingHolds, NextIInv, PTL DEF Spec

\* Every variable keeps its type, for any pools and any capacity.
THEOREM TypeCorrect == Spec => []TypeOK
<1>1. IInv => TypeOK
  BY DEF IInv
<1> QED
  BY <1>1, Invariance, PTL

\* mReferenceCount is the parent's own reference and one for each child in flight,
\* however SetParent(), Release() and ReleaseParent() interleave.
THEOREM RefCountCorrect == Spec => []RefCountExact
BY CountsAreExact, Invariance, PTL

\* Neither the exceptions of the two arrows nor those of JEvent ever fire.
THEOREM ThrowsCorrect == Spec => []NeverThrows
<1>1. IInv => NeverThrows
  BY DEF IInv, UnfoldControl, FoldControl, NeverThrows
<1> QED
  BY <1>1, Invariance, PTL

\* Reference counting implements the life of a family: a parent gets children from
\* one unfolder, is closed while a child of it is there, and is recycled once, when
\* its last child is gone.
THEOREM HierarchyImplemented == Spec => HierarchySpec
<1>1. Init => H!Init
  <2> SUFFICES ASSUME Init PROVE H!Init
    OBVIOUS
  <2>1. IInv /\ unfold.parent_event = None /\ None \notin Parents
    BY InitIInv, CountingHolds, HierarchyAssumption, ZenonT(30) DEF Init
  <2>2. parent_of = [c \in Children |-> None] /\ refs = [p \in Parents |-> 1]
    BY ZenonT(30) DEF Init
  <2>3. \A p \in Parents : Kids(p) = {}
    BY <2>1, <2>2, ZenonT(30) DEF Kids
  <2>4. \A p \in Parents : refs[p] = Cardinality(Kids(p)) + 1
    BY <2>1, <2>2, <2>3 DEF IInv, Counting
  <2>5. \A p \in Parents : Stage[p] = "free"
    BY <2>1, <2>4, StageMeans, ZenonT(30) DEF StageByCount
  <2>6. Stage = [p \in Parents |-> "free"] /\ Families = [p \in Parents |-> {}]
    BY <2>3, <2>5, Maps, ZenonT(30)
  <2> QED
    BY <2>6, ZenonT(30) DEF H!Init
<1>2. IInv /\ IInv' /\ [Next]_vars => [H!Next]_H!vars
  BY HierarchyStep
<1> QED
  BY <1>1, <1>2, Invariance, PTL DEF Spec, HierarchySpec, H!Spec

=============================================================================
