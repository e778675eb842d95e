------------------------- MODULE CompositorProofs --------------------------
(* What holds of the compositor for any number of windows.                  *)
EXTENDS Compositor, SequenceTheorems, TLAPS

-----------------------------------------------------------------------------
(* The lists.                                                               *)

\* A list of S in which no element occurs twice.
Lists(S) == {list \in Seq(S) : IsInjective(list)}

\* An order that list2 keeps: what comes after what in list2 does so in list1.
KeepsOrder(list1, list2) ==
  \A i, j \in DOMAIN list2 : i < j =>
    \E a, b \in DOMAIN list1 : a < b /\ list1[a] = list2[i] /\ list1[b] = list2[j]

\* Removal of an element leaves the others, in their order.
LEMMA RemoveFacts ==
  ASSUME NEW S, NEW list \in Lists(S), NEW s \in ToSet(list)
  PROVE  /\ RemoveFirst(list, s) \in Lists(S)
         /\ ToSet(RemoveFirst(list, s)) = ToSet(list) \ {s}
         /\ KeepsOrder(list, RemoveFirst(list, s))
<1>1. PICK n \in Nat : n = Len(list) /\ DOMAIN list = 1..n /\ list \in Seq(S)
  BY DEF Lists
<1>2. PICK k \in 1..n : list[k] = s
  BY <1>1 DEF ToSet
<1>3. \A i \in 1..n : list[i] = s => i = k
  BY <1>1, <1>2 DEF Lists, IsInjective
<1>4. RemoveFirst(list, s) = SubSeq(list, 1, k - 1) \o SubSeq(list, k + 1, n)
  <2>1. {i \in 1..Len(list) : list[i] = s} = {k}
    BY <1>1, <1>2, <1>3
  <2>2. Min({k}) = k
    BY <1>2 DEF Min
  <2>3. SelectInSeq(list, LAMBDA v : v = s) = k
    BY <2>1, <2>2 DEF SelectInSeq
  <2>4. QED
    BY <1>1, <1>2, <2>3 DEF RemoveFirst, RemoveAt
<1> DEFINE before == SubSeq(list, 1, k - 1)
           after  == SubSeq(list, k + 1, n)
           rest   == RemoveFirst(list, s)
<1> HIDE DEF rest
<1>5. /\ before \in Seq(S) /\ Len(before) = k - 1
      /\ \A i \in 1..(k - 1) : before[i] = list[i]
  BY <1>1, SubSeqProperties
<1>6. /\ after \in Seq(S) /\ Len(after) = n - k
      /\ \A i \in 1..(n - k) : after[i] = list[i + k]
  BY <1>1, SubSeqProperties
<1> HIDE DEF before, after
<1>7. /\ rest \in Seq(S) /\ DOMAIN rest = 1..(n - 1)
      /\ \A i \in 1..(n - 1) : rest[i] = IF i < k THEN list[i] ELSE list[i + 1]
  <2>1. /\ rest \in Seq(S) /\ Len(rest) = n - 1
        /\ \A i \in 1..(n - 1) : rest[i] = IF i <= k - 1 THEN before[i] ELSE after[i - (k - 1)]
    <3>1. rest = before \o after
      BY <1>4 DEF before, after, rest
    <3>2. /\ before \o after \in Seq(S) /\ Len(before \o after) = k - 1 + (n - k)
          /\ \A i \in 1..(k - 1 + (n - k)) : (before \o after)[i] =
               IF i <= k - 1 THEN before[i] ELSE after[i - (k - 1)]
      <4>1. before \in Seq(S) /\ after \in Seq(S)
        BY <1>5, <1>6
      <4>2. /\ before \o after \in Seq(S) /\ Len(before \o after) = Len(before) + Len(after)
            /\ \A i \in 1..Len(before) + Len(after) : (before \o after)[i] =
                 IF i <= Len(before) THEN before[i] ELSE after[i - Len(before)]
        BY ONLY <4>1, ConcatProperties
      <4>3. QED
        BY <1>5, <1>6, <4>2
    <3>3. k - 1 + (n - k) = n - 1
      OBVIOUS
    <3>4. QED
      BY <3>1, <3>2, <3>3
  <2>2. QED
    BY <1>5, <1>6, <2>1
<1>8. PICK at \in [1..(n - 1) -> 1..n] :
        at = [i \in 1..(n - 1) |-> IF i < k THEN i ELSE i + 1]
  <2>1. [i \in 1..(n - 1) |-> IF i < k THEN i ELSE i + 1] \in [1..(n - 1) -> 1..n]
    OBVIOUS
  <2>2. QED
    BY <2>1
<1>9. /\ \A i \in 1..(n - 1) : rest[i] = list[at[i]] /\ at[i] # k
      /\ \A i, j \in 1..(n - 1) : i < j => at[i] < at[j]
      /\ \A a \in 1..n : a # k => \E i \in 1..(n - 1) : at[i] = a
  <2>1. \A i \in 1..(n - 1) : rest[i] = list[at[i]] /\ at[i] # k
    BY <1>7, <1>8
  <2>2. \A i, j \in 1..(n - 1) : i < j => at[i] < at[j]
    BY <1>8
  <2>3. ASSUME NEW a \in 1..n, a # k PROVE \E i \in 1..(n - 1) : at[i] = a
    <3>1. CASE a < k
      BY <1>8, <3>1
    <3>2. CASE a > k
      <4>1. a - 1 \in 1..(n - 1) /\ at[a - 1] = a
        BY <1>8, <3>2
      <4>2. QED
        BY <4>1
    <3>3. QED
      BY <2>3, <3>1, <3>2
  <2>4. QED
    BY <2>1, <2>2, <2>3
<1>10. rest \in Lists(S)
  <2>1. ASSUME NEW i \in 1..(n - 1), NEW j \in 1..(n - 1), rest[i] = rest[j] PROVE i = j
    <3>1. at[i] \in 1..n /\ at[j] \in 1..n /\ list[at[i]] = list[at[j]]
      BY <1>8, <1>9, <2>1
    <3>2. at[i] = at[j]
      BY <1>1, <3>1 DEF Lists, IsInjective
    <3>3. QED
      BY <1>8, <1>9, <3>2
  <2>2. QED
    BY <1>7, <2>1 DEF Lists, IsInjective
<1>11. ToSet(rest) = ToSet(list) \ {s}
  <2>1. ToSet(rest) = {rest[i] : i \in 1..(n - 1)} /\ ToSet(list) = {list[i] : i \in 1..n}
    BY <1>1, <1>7 DEF ToSet
  <2>2. ASSUME NEW i \in 1..(n - 1) PROVE rest[i] \in ToSet(list) \ {s}
    <3>1. rest[i] = list[at[i]] /\ at[i] \in 1..n /\ at[i] # k
      BY <1>8, <1>9
    <3>2. QED
      BY <1>3, <2>1, <3>1
  <2>3. ASSUME NEW a \in 1..n, list[a] # s PROVE list[a] \in ToSet(rest)
    <3>1. PICK i \in 1..(n - 1) : at[i] = a
      BY <1>2, <1>9, <2>3
    <3>2. QED
      BY <1>9, <2>1, <3>1
  <2>4. QED
    BY <2>1, <2>2, <2>3
<1>12. KeepsOrder(list, rest)
  BY <1>1, <1>7, <1>8, <1>9 DEF KeepsOrder
<1>13. QED
  BY <1>10, <1>11, <1>12 DEF rest

\* An order that list2 keeps behind a new element.
KeepsOrderBehind(list1, s, list2) ==
  \A i, j \in DOMAIN list2 : i < j =>
    \/ list2[i] = s
    \/ \E a, b \in DOMAIN list1 : a < b /\ list1[a] = list2[i] /\ list1[b] = list2[j]

\* A new element is put before the others, which keep their order.
LEMMA FrontFacts ==
  ASSUME NEW S, NEW list \in Lists(S), NEW s \in S, s \notin ToSet(list)
  PROVE  /\ <<s>> \o list \in Lists(S) /\ ToSet(<<s>> \o list) = ToSet(list) \cup {s}
         /\ <<s>> \o list # <<>> /\ Head(<<s>> \o list) = s
         /\ KeepsOrderBehind(list, s, <<s>> \o list)
<1> DEFINE front == <<s>> \o list
<1>1. PICK n \in Nat : n = Len(list) /\ DOMAIN list = 1..n /\ list \in Seq(S)
  BY DEF Lists
<1>2. /\ front \in Seq(S) /\ DOMAIN front = 1..(n + 1)
      /\ \A i \in 1..(n + 1) : front[i] = IF i = 1 THEN s ELSE list[i - 1]
  <2>1. <<s>> \in Seq(S) /\ Len(<<s>>) = 1 /\ <<s>>[1] = s
    OBVIOUS
  <2>2. /\ <<s>> \o list \in Seq(S) /\ Len(<<s>> \o list) = 1 + n
        /\ \A i \in 1..(1 + n) : (<<s>> \o list)[i] = IF i <= 1 THEN <<s>>[i] ELSE list[i - 1]
    BY <1>1, <2>1, ConcatProperties
  <2>3. QED
    BY <2>1, <2>2
<1> HIDE DEF front
<1>3. \A i \in 1..n : list[i] # s
  BY <1>1 DEF ToSet
<1>4. \A i \in 2..(n + 1) : front[i] = list[i - 1] /\ i - 1 \in 1..n
  BY <1>2
<1>5. front[1] = s
  BY <1>2
<1>6. front \in Lists(S)
  <2>1. ASSUME NEW i \in 1..(n + 1), NEW j \in 1..(n + 1), front[i] = front[j] PROVE i = j
    <3>1. CASE i = 1 \/ j = 1
      BY <1>3, <1>4, <1>5, <2>1, <3>1
    <3>2. CASE i # 1 /\ j # 1
      <4>1. list[i - 1] = list[j - 1] /\ i - 1 \in 1..n /\ j - 1 \in 1..n
        BY <1>4, <2>1, <3>2
      <4>2. i - 1 = j - 1
        BY <1>1, <4>1 DEF Lists, IsInjective
      <4>3. QED
        BY <4>2
    <3>3. QED
      BY <3>1, <3>2
  <2>2. QED
    BY <1>2, <2>1 DEF Lists, IsInjective
<1>7. ToSet(front) = ToSet(list) \cup {s}
  <2>1. ASSUME NEW x \in ToSet(front) PROVE x \in ToSet(list) \cup {s}
    <3>1. PICK i \in 1..(n + 1) : x = front[i]
      BY <1>2 DEF ToSet
    <3>2. CASE i = 1
      BY <1>5, <3>1, <3>2
    <3>3. CASE i # 1
      BY <1>1, <1>4, <3>1, <3>3 DEF ToSet
    <3>4. QED
      BY <3>2, <3>3
  <2>2. ASSUME NEW x \in ToSet(list) PROVE x \in ToSet(front)
    <3>1. PICK i \in 1..n : x = list[i]
      BY <1>1 DEF ToSet
    <3>2. i + 1 \in 1..(n + 1) /\ front[i + 1] = list[i]
      BY <1>4
    <3>3. QED
      BY <1>2, <3>1, <3>2 DEF ToSet
  <2>3. s \in ToSet(front)
    BY <1>2, <1>5 DEF ToSet
  <2>4. QED
    BY <2>1, <2>2, <2>3
<1>8. front # <<>> /\ Head(front) = s
  BY <1>2, <1>5
<1>9. ASSUME NEW i \in 1..(n + 1), NEW j \in 1..(n + 1), i < j, front[i] # s
      PROVE  \E a, b \in DOMAIN list : a < b /\ list[a] = front[i] /\ list[b] = front[j]
  <2>1. i # 1 /\ j # 1
    BY <1>5, <1>9
  <2>2. /\ i - 1 \in 1..n /\ j - 1 \in 1..n /\ i - 1 < j - 1
        /\ list[i - 1] = front[i] /\ list[j - 1] = front[j]
    BY <1>4, <1>9, <2>1
  <2>3. QED
    BY <1>1, <2>2
<1>10. KeepsOrderBehind(list, s, front)
  BY <1>2, <1>9 DEF KeepsOrderBehind
<1>11. QED
  BY <1>6, <1>7, <1>8, <1>10 DEF front

-----------------------------------------------------------------------------
(* The focus.                                                               *)

\* The list of views and the scene change together in every handler, so they are
\* always in the same order.
THEOREM ListIsStackingHolds == Spec => []ListIsStacking
<1>1. Init => ListIsStacking
  BY DEF Init, ListIsStacking
<1>2. ListIsStacking /\ [Next]_vars => ListIsStacking'
  <2> SUFFICES ASSUME ListIsStacking, [Next]_vars
               PROVE  ListIsStacking'
    OBVIOUS
  <2>1. CASE UNCHANGED vars
    BY <2>1 DEF ListIsStacking, vars
  <2>2. ASSUME NEW s \in Surfaces, NewXdgSurface(s) PROVE ListIsStacking'
    BY <2>2 DEF ListIsStacking, NewXdgSurface
  <2>3. ASSUME NEW s \in Surfaces, ViewMap(s) PROVE ListIsStacking'
    BY <2>3 DEF ListIsStacking, ViewMap, FocusView, RaiseView
  <2>4. ASSUME NEW s \in Surfaces, ViewUnmap(s) PROVE ListIsStacking'
    BY <2>4 DEF ListIsStacking, ViewUnmap
  <2>5. ASSUME NEW s \in Surfaces, ViewDestroy(s) PROVE ListIsStacking'
    BY <2>5 DEF ListIsStacking, ViewDestroy, RemoveView
  <2>6. ASSUME NEW s \in Surfaces, SurfaceDestroy(s) PROVE ListIsStacking'
    BY <2>6 DEF ListIsStacking, SurfaceDestroy
  <2>7. CASE NewKeyboard \/ KeyboardGone
    BY <2>7 DEF ListIsStacking, NewKeyboard, KeyboardGone
  <2>8. CASE SuperQ \/ SuperShiftE
    BY <2>8 DEF ListIsStacking, SuperQ, SuperShiftE
  <2>9. QED
    BY <2>1, <2>2, <2>3, <2>4, <2>5, <2>6, <2>7, <2>8 DEF Next
<1>3. QED
  BY <1>1, <1>2, PTL DEF Spec

\* Without the types the focus could be cleared for a surface that still counts as
\* active: what is mapped or active has a view.
HasView == {s \in Surfaces : life[s] = "view"}

FocusInv == /\ life \in [Surfaces -> {"new", "view", "left", "gone"}]
            /\ mapped \subseteq HasView /\ activated \subseteq HasView
            /\ blind \in BOOLEAN /\ keyboard \in BOOLEAN
            /\ OnlyFocusedActive

\* Only the focused window has been told that it is active, unless a window was
\* mapped without a keyboard.
THEOREM OnlyFocusedActiveHolds == Spec => []OnlyFocusedActive
<1>1. Init => FocusInv
  BY DEF Init, FocusInv, HasView, OnlyFocusedActive
<1>2. FocusInv /\ [Next]_vars => FocusInv'
  <2> SUFFICES ASSUME FocusInv, [Next]_vars
               PROVE  FocusInv'
    OBVIOUS
  <2> USE DEF FocusInv, HasView, OnlyFocusedActive
  <2>1. CASE UNCHANGED vars
    BY <2>1 DEF vars, seat
  <2>2. ASSUME NEW s \in Surfaces, NewXdgSurface(s) PROVE FocusInv'
    BY <2>2 DEF NewXdgSurface, seat
  <2>3. ASSUME NEW s \in Surfaces, ViewMap(s) PROVE FocusInv'
    <3>1. CASE focused = s
      BY <2>3, <3>1 DEF ViewMap, FocusView
    <3>2. CASE focused # s
      <4>1. /\ activated' = (activated \ {focused}) \cup {s}
            /\ focused' = IF keyboard THEN s ELSE focused
            /\ blind' = (blind \/ ~keyboard)
            /\ mapped' = mapped \cup {s} /\ life' = life /\ keyboard' = keyboard
            /\ life[s] = "view"
        BY <2>3, <3>2 DEF ViewMap, FocusView, Deactivate
      <4>2. OnlyFocusedActive'
        BY <4>1
      <4>3. QED
        BY <4>1, <4>2
    <3>3. QED
      BY <3>1, <3>2
  <2>4. ASSUME NEW s \in Surfaces, ViewUnmap(s) PROVE FocusInv'
    BY <2>4 DEF ViewUnmap, seat
  <2>5. ASSUME NEW s \in Surfaces, ViewDestroy(s) PROVE FocusInv'
    BY <2>5 DEF ViewDestroy, seat
  <2>6. ASSUME NEW s \in Surfaces, SurfaceDestroy(s) PROVE FocusInv'
    <3>1. s \notin activated
      BY <2>6 DEF SurfaceDestroy
    <3>2. QED
      BY <2>6, <3>1 DEF SurfaceDestroy
  <2>7. CASE NewKeyboard
    BY <2>7 DEF NewKeyboard
  <2>8. CASE KeyboardGone
    BY <2>8 DEF KeyboardGone
  <2>9. CASE SuperQ \/ SuperShiftE
    BY <2>9 DEF SuperQ, SuperShiftE, seat
  <2>10. QED
    BY <2>1, <2>2, <2>3, <2>4, <2>5, <2>6, <2>7, <2>8, <2>9 DEF Next
<1>3. FocusInv => OnlyFocusedActive
  BY DEF FocusInv
<1>4. QED
  BY <1>1, <1>2, <1>3, PTL DEF Spec

-----------------------------------------------------------------------------
(* The order of the windows.                                                *)

\* No mapped view is in front of the focused one, be that mapped or not: a view that
\* was focused may be mapped again without being raised.
NoneInFront ==
  ~blind => \A i, j \in DOMAIN views : views[j] = focused /\ i < j => views[i] \notin mapped

ViewInv == /\ life \in [Surfaces -> {"new", "view", "left", "gone"}]
           /\ views \in Lists(Surfaces) /\ ToSet(views) = HasView
           /\ mapped \subseteq HasView /\ activated \subseteq HasView /\ closing \subseteq HasView
           /\ focused \in Surfaces \cup {NoSurface}
           /\ blind \in BOOLEAN /\ keyboard \in BOOLEAN /\ running \in BOOLEAN
           /\ NoneInFront

\* A view that is mapped gets the focus and is raised, or has both already.
LEMMA ViewMapInv == ASSUME ViewInv, NEW s \in Surfaces, ViewMap(s) PROVE ViewInv'
<1>1. /\ life[s] = "view" /\ s \notin mapped /\ mapped' = mapped \cup {s}
      /\ UNCHANGED <<life, keyboard, closing, running>>
      /\ s \in HasView /\ HasView' = HasView
  BY DEF ViewMap, HasView
<1>2. CASE focused = s
  <2>1. UNCHANGED <<views, activated, focused, blind>>
    BY <1>2 DEF ViewMap, FocusView
  <2>2. NoneInFront'
    <3>1. SUFFICES ASSUME ~blind, NEW i \in DOMAIN views, NEW j \in DOMAIN views,
                          views[j] = focused, i < j
                   PROVE  views[i] \notin mapped'
      BY <2>1 DEF NoneInFront
    <3>2. views[i] \notin mapped
      BY <3>1 DEF ViewInv, NoneInFront
    <3>3. i \in Nat /\ j \in Nat
      BY DEF ViewInv, Lists
    <3>4. i # j
      BY <3>1, <3>3
    <3>5. views[i] # s
      BY <1>2, <3>1, <3>4 DEF ViewInv, Lists, IsInjective
    <3>6. QED
      BY <1>1, <3>2, <3>5
  <2>3. QED
    BY <1>1, <2>1, <2>2 DEF ViewInv
<1>3. CASE focused # s
  <2>1. /\ activated' = (activated \ {focused}) \cup {s}
        /\ views' = <<s>> \o RemoveFirst(views, s)
        /\ focused' = IF keyboard THEN s ELSE focused
        /\ blind' = (blind \/ ~keyboard)
    BY <1>3 DEF ViewMap, FocusView, Deactivate, RaiseView, ToFront
  <2>2. PICK rest \in Lists(Surfaces) : /\ rest = RemoveFirst(views, s)
                                        /\ ToSet(rest) = HasView \ {s}
    BY <1>1, RemoveFacts DEF ViewInv
  <2>3. /\ views' \in Lists(Surfaces) /\ ToSet(views') = HasView
        /\ views' # <<>> /\ Head(views') = s
    <3>1. s \notin ToSet(rest)
      BY <2>2
    <3>2. /\ <<s>> \o rest \in Lists(Surfaces) /\ ToSet(<<s>> \o rest) = ToSet(rest) \cup {s}
          /\ <<s>> \o rest # <<>> /\ Head(<<s>> \o rest) = s
      BY <3>1, FrontFacts
    <3>3. QED
      BY <1>1, <2>1, <2>2, <3>2
  <2>4. NoneInFront'
    <3>1. SUFFICES ASSUME keyboard, NEW i \in DOMAIN views', NEW j \in DOMAIN views',
                          views'[j] = s, i < j
                   PROVE  FALSE
      BY <2>1 DEF NoneInFront
    <3>2. DOMAIN views' = 1..Len(views') /\ views'[1] = s /\ 1 \in DOMAIN views'
      BY <2>3 DEF Lists
    <3>3. j = 1
      BY <2>3, <3>1, <3>2 DEF Lists, IsInjective
    <3>4. QED
      BY <3>1, <3>2, <3>3
  <2>5. QED
    BY <1>1, <2>1, <2>3, <2>4 DEF ViewInv
<1>4. QED
  BY <1>2, <1>3

\* A new view is not mapped, and in front of the others.
LEMMA NewViewInv == ASSUME ViewInv, NEW s \in Surfaces, NewXdgSurface(s) PROVE ViewInv'
<1>1. /\ life[s] = "new" /\ life' = [life EXCEPT ![s] = "view"]
      /\ views' = <<s>> \o views
      /\ UNCHANGED <<mapped, activated, focused, keyboard, closing, running, blind>>
  BY DEF NewXdgSurface, seat
<1>2. s \notin HasView /\ HasView' = HasView \cup {s}
  BY <1>1 DEF HasView, ViewInv
<1>3. /\ views' \in Lists(Surfaces) /\ ToSet(views') = ToSet(views) \cup {s}
      /\ KeepsOrderBehind(views, s, views')
  <2>1. views \in Lists(Surfaces) /\ s \notin ToSet(views)
    BY <1>2 DEF ViewInv
  <2>2. /\ <<s>> \o views \in Lists(Surfaces)
        /\ ToSet(<<s>> \o views) = ToSet(views) \cup {s}
        /\ KeepsOrderBehind(views, s, <<s>> \o views)
    BY <2>1, FrontFacts
  <2>3. QED
    BY <1>1, <2>2
<1>4. NoneInFront'
  BY <1>1, <1>2, <1>3 DEF NoneInFront, ViewInv, KeepsOrderBehind
<1>5. QED
  BY <1>1, <1>2, <1>3, <1>4 DEF ViewInv

\* The view that goes is none of those that are mapped.
LEMMA ViewDestroyInv == ASSUME ViewInv, NEW s \in Surfaces, ViewDestroy(s) PROVE ViewInv'
<1>1. /\ life[s] = "view" /\ s \notin mapped /\ life' = [life EXCEPT ![s] = "left"]
      /\ views' = RemoveFirst(views, s)
      /\ activated' = activated \ {s} /\ closing' = closing \ {s}
      /\ UNCHANGED <<mapped, focused, keyboard, running, blind>>
  BY DEF ViewDestroy, RemoveView, seat
<1>2. s \in HasView /\ HasView' = HasView \ {s}
  BY <1>1 DEF HasView, ViewInv
<1>3. /\ views' \in Lists(Surfaces) /\ ToSet(views') = ToSet(views) \ {s}
      /\ KeepsOrder(views, views')
  BY <1>1, <1>2, RemoveFacts DEF ViewInv
<1>4. NoneInFront'
  BY <1>1, <1>3 DEF NoneInFront, ViewInv, KeepsOrder
<1>5. QED
  BY <1>1, <1>2, <1>3, <1>4 DEF ViewInv

\* What does not concern the list.
LEMMA OtherStepsInv ==
  ASSUME ViewInv, UNCHANGED <<views, blind>>, HasView' = HasView,
         life' \in [Surfaces -> {"new", "view", "left", "gone"}],
         mapped' \subseteq mapped, activated' \subseteq activated, closing' \subseteq HasView,
         focused' \in {focused, NoSurface}, keyboard' \in BOOLEAN, running' \in BOOLEAN
  PROVE  ViewInv'
<1>1. NoneInFront'
  <2>1. SUFFICES ASSUME ~blind, NEW i \in DOMAIN views, NEW j \in DOMAIN views,
                        views[j] = focused', i < j
                 PROVE  views[i] \notin mapped'
    BY DEF NoneInFront
  <2>2. views[j] \in Surfaces
    BY DEF ViewInv, Lists
  <2>3. focused' = focused
    BY <2>1, <2>2, NoSurfaceAssumption
  <2>4. QED
    BY <2>1, <2>3 DEF ViewInv, NoneInFront
<1>2. QED
  BY <1>1 DEF ViewInv

\* Every step preserves the invariant.
LEMMA ViewStep == ViewInv /\ [Next]_vars => ViewInv'
<1>1. SUFFICES ASSUME ViewInv, [Next]_vars PROVE ViewInv'
  OBVIOUS
<1>2. ASSUME NEW s \in Surfaces,
             NewXdgSurface(s) \/ ViewMap(s) \/ ViewDestroy(s)
      PROVE  ViewInv'
  BY <1>1, <1>2, NewViewInv, ViewMapInv, ViewDestroyInv
<1>3. ASSUME NEW s \in Surfaces, ViewUnmap(s) PROVE ViewInv'
  <2>1. HasView' = HasView
    BY <1>3 DEF ViewUnmap, HasView
  <2>2. QED
    BY <1>1, <1>3, <2>1, OtherStepsInv DEF ViewUnmap, seat, ViewInv
<1>4. ASSUME NEW s \in Surfaces, SurfaceDestroy(s) PROVE ViewInv'
  <2>1. /\ HasView' = HasView /\ life' \in [Surfaces -> {"new", "view", "left", "gone"}]
    BY <1>1, <1>4 DEF SurfaceDestroy, HasView, ViewInv
  <2>2. QED
    BY <1>1, <1>4, <2>1, OtherStepsInv DEF SurfaceDestroy, ViewInv
<1>5. CASE NewKeyboard \/ KeyboardGone \/ SuperShiftE \/ UNCHANGED vars
  <2>1. HasView' = HasView
    BY <1>5 DEF NewKeyboard, KeyboardGone, SuperShiftE, vars, HasView
  <2>2. QED
    BY <1>1, <1>5, <2>1, OtherStepsInv
       DEF NewKeyboard, KeyboardGone, SuperShiftE, vars, seat, ViewInv
<1>6. CASE SuperQ
  <2>1. HasView' = HasView /\ closing' \subseteq HasView
    BY <1>1, <1>6 DEF SuperQ, HasView, ViewInv
  <2>2. QED
    BY <1>1, <1>6, <2>1, OtherStepsInv DEF SuperQ, seat, ViewInv
<1>7. QED
  BY <1>1, <1>2, <1>3, <1>4, <1>5, <1>6 DEF Next

\* The invariant holds in every state.
LEMMA ViewAlways == Spec => []ViewInv
<1>1. Init => ViewInv
  <2>1. SUFFICES ASSUME Init PROVE ViewInv
    OBVIOUS
  <2>2. views \in Lists(Surfaces) /\ DOMAIN views = {}
    BY <2>1 DEF Init, Lists, IsInjective
  <2>3. ToSet(views) = HasView
    BY <2>1, <2>2 DEF Init, ToSet, HasView
  <2>4. QED
    BY <2>1, <2>2, <2>3 DEF Init, ViewInv, NoneInFront
<1>2. QED
  BY <1>1, ViewStep, PTL DEF Spec

\* The list holds the views that live, each once; what is mapped, active or asked to
\* close is one of them.
THEOREM TypeCorrect == Spec => []TypeOK
<1>1. ViewInv => TypeOK
  BY DEF ViewInv, Lists, HasView, TypeOK
<1>2. QED
  BY <1>1, ViewAlways, PTL

\* No mapped window is stacked above the one with the keyboard focus, unless a window
\* was mapped while there was no keyboard.
THEOREM FocusedInFrontHolds == Spec => []FocusedInFront
<1>1. ViewInv => FocusedInFront
  BY DEF ViewInv, NoneInFront, FocusedInFront
<1>2. QED
  BY <1>1, ViewAlways, PTL
=============================================================================
