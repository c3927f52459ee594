---------------------------- MODULE TuiProofs ----------------------------
(***************************************************************************)
(* What the terminal interface promises, proved for any panels of any types, *)
(* files, views and stacks of any size, and every capacity of the lists, of  *)
(* the output ring and of the history.                                       *)
(*                                                                           *)
(* That a panel keeps its window rests on what the slots and the list have   *)
(* in common (Slotted): a slot is that of a listed panel or of none, and a   *)
(* panel is listed once.  That the keys keep the focus in sight rests on the *)
(* source panel being one (Pointed), and on what the search for a panel      *)
(* finds.  The source and the call stack panel need their types              *)
(* (SourceTyped, ListTyped): what is hard is the arithmetic of the view.     *)
(* The ring holds the last lines (Latest) because a line is written over     *)
(* only when all places are taken (RingTyped), and the history the last      *)
(* commands because each keeps its place in what was entered (HistoryKept).  *)
(* Least and greatest elements come from the well-foundedness of <.          *)
(***************************************************************************)
EXTENDS TuiPanels, ListPanels, OutputPanel, SequenceTheorems, WellFoundedInduction, TLAPS

-----------------------------------------------------------------------------
(* Lists and least places.                                                  *)

\* Taking an entry out moves those behind it up by one.
LEMMA TakenOut ==
    ASSUME NEW S, NEW s \in Seq(S), NEW i \in DOMAIN s, NEW t, t = RemoveAt(s, i)
    PROVE  /\ t \in Seq(S) /\ Len(t) = Len(s) - 1 /\ Len(s) \in Nat \ {0} /\ i \in 1 .. Len(s)
           /\ DOMAIN s = 1 .. Len(s) /\ DOMAIN t = 1 .. (Len(s) - 1)
           /\ \A k \in DOMAIN t : t[k] = IF k < i THEN s[k] ELSE s[k + 1]
<1> DEFINE front == SubSeq(s, 1, i - 1)
           back == SubSeq(s, i + 1, Len(s))
<1>1. Len(s) \in Nat /\ DOMAIN s = 1 .. Len(s) /\ i \in 1 .. Len(s)
      /\ \A k \in 1 .. Len(s) : s[k] \in S
      BY LenProperties, ElementOfSeq
<1>2. /\ front \in Seq(S) /\ Len(front) = i - 1
      /\ \A k \in 1 .. (i - 1) : front[k] = s[k]
      BY <1>1, SubSeqProperties
<1>3. /\ back \in Seq(S) /\ Len(back) = Len(s) - i
      /\ \A k \in 1 .. (Len(s) - i) : back[k] = s[i + k]
      BY <1>1, SubSeqProperties
<1>4. t = front \o back
      BY DEF RemoveAt
<1> HIDE DEF front, back
<1>5. /\ front \o back \in Seq(S) /\ Len(front \o back) = Len(front) + Len(back)
      /\ \A k \in 1 .. (Len(front) + Len(back)) :
            (front \o back)[k] = IF k <= Len(front) THEN front[k] ELSE back[k - Len(front)]
      BY <1>2, <1>3, ConcatProperties
<1>6. Len(front) + Len(back) = Len(s) - 1
      BY <1>1, <1>2, <1>3
<1>7. t \in Seq(S) /\ Len(t) = Len(s) - 1 /\ DOMAIN t = 1 .. (Len(s) - 1)
      BY <1>4, <1>5, <1>6, LenProperties
<1>8. ASSUME NEW k \in 1 .. (Len(s) - 1)
      PROVE  t[k] = IF k < i THEN s[k] ELSE s[k + 1]
  <2>1. t[k] = IF k <= i - 1 THEN front[k] ELSE back[k - (i - 1)]
        BY <1>2, <1>4, <1>5, <1>6
  <2>2. CASE k < i
        BY <1>1, <1>2, <2>1, <2>2
  <2>3. CASE k >= i
    <3>1. k - (i - 1) \in 1 .. (Len(s) - i) /\ i + (k - (i - 1)) = k + 1 /\ ~(k <= i - 1)
          BY <1>1, <2>3
    <3> QED
        BY <1>1, <1>3, <2>1, <2>3, <3>1
  <2> QED
      BY <1>1, <2>2, <2>3
<1> QED
    BY <1>1, <1>7, <1>8

\* No item is twice in the list.
Once(s) == \A i, j \in DOMAIN s : s[i] = s[j] => i = j

LEMMA OnceOnly ==
    ASSUME NEW s, Once(s), NEW i \in DOMAIN s, NEW j \in DOMAIN s, s[i] = s[j]
    PROVE  i = j
BY DEF Once

LEMMA OnceTaken ==
    ASSUME NEW S, NEW s \in Seq(S), Once(s), NEW i \in DOMAIN s, NEW t, t = RemoveAt(s, i)
    PROVE  t \in Seq(S) /\ Once(t) /\ ToSet(t) = ToSet(s) \ {s[i]}
<1>1. /\ t \in Seq(S) /\ Len(t) = Len(s) - 1 /\ Len(s) \in Nat \ {0} /\ i \in 1 .. Len(s)
      /\ DOMAIN s = 1 .. Len(s) /\ DOMAIN t = 1 .. (Len(s) - 1)
      /\ \A k \in DOMAIN t : t[k] = IF k < i THEN s[k] ELSE s[k + 1]
      BY TakenOut
<1> DEFINE was(k) == IF k < i THEN k ELSE k + 1
<1>2. ASSUME NEW k \in DOMAIN t
      PROVE  was(k) \in DOMAIN s /\ was(k) # i /\ t[k] = s[was(k)]
      BY <1>1, <1>2
<1>3. ASSUME NEW k \in DOMAIN t, NEW l \in DOMAIN t, was(k) = was(l)
      PROVE  k = l
      BY <1>1, <1>3
<1>4. ASSUME NEW k \in DOMAIN s, k # i
      PROVE  \E l \in DOMAIN t : was(l) = k
  <2>1. CASE k < i
        BY <1>1, <1>4, <2>1
  <2>2. CASE k > i
    <3>1. k - 1 \in DOMAIN t /\ was(k - 1) = k
          BY <1>1, <1>4, <2>2
    <3> QED
        BY <3>1
  <2> QED
      BY <1>1, <1>4, <2>1, <2>2
<1> HIDE DEF was
<1>5. Once(t)
  <2> SUFFICES ASSUME NEW k \in DOMAIN t, NEW l \in DOMAIN t, t[k] = t[l] PROVE k = l
      BY DEF Once
  <2>1. was(k) = was(l)
        BY <1>2, OnceOnly
  <2> QED
      BY <1>3, <2>1
<1>6. ASSUME NEW x \in ToSet(t)
      PROVE  x \in ToSet(s) \ {s[i]}
  <2>1. PICK k \in DOMAIN t : x = t[k]
        BY DEF ToSet
  <2>2. was(k) \in DOMAIN s /\ was(k) # i /\ x = s[was(k)]
        BY <1>2, <2>1
  <2> QED
      BY <2>2, OnceOnly DEF ToSet
<1>7. ASSUME NEW x \in ToSet(s) \ {s[i]}
      PROVE  x \in ToSet(t)
  <2>1. PICK k \in DOMAIN s : x = s[k]
        BY DEF ToSet
  <2>2. PICK l \in DOMAIN t : was(l) = k
        BY <1>4, <1>7, <2>1
  <2> QED
      BY <1>2, <2>1, <2>2 DEF ToSet
<1> QED
    BY <1>1, <1>5, <1>6, <1>7

LEMMA OnceAdded ==
    ASSUME NEW S, NEW s \in Seq(S), Once(s), NEW x \in S, x \notin ToSet(s)
    PROVE  /\ Append(s, x) \in Seq(S) /\ Once(Append(s, x))
           /\ ToSet(Append(s, x)) = ToSet(s) \cup {x}
<1> DEFINE t == Append(s, x)
<1>1. Len(s) \in Nat /\ DOMAIN s = 1 .. Len(s)
      BY LenProperties
<1>2. /\ t \in Seq(S) /\ Len(t) = Len(s) + 1 /\ t[Len(s) + 1] = x
      /\ \A k \in 1 .. Len(s) : t[k] = s[k]
      BY AppendProperties
<1>3. DOMAIN t = 1 .. (Len(s) + 1)
      BY <1>2, LenProperties
<1> HIDE DEF t
<1>4. \A k \in DOMAIN t : (k \in DOMAIN s /\ t[k] = s[k]) \/ (k = Len(s) + 1 /\ t[k] = x)
      BY <1>1, <1>2, <1>3
<1>5. \A k \in DOMAIN s : k \in DOMAIN t /\ t[k] = s[k] /\ s[k] # x
      BY <1>1, <1>2, <1>3 DEF ToSet
<1>6. Len(s) + 1 \in DOMAIN t /\ t[Len(s) + 1] = x
      BY <1>1, <1>2, <1>3
<1>7. ToSet(t) = ToSet(s) \cup {x}
      BY <1>4, <1>5, <1>6, Zenon DEF ToSet
<1>8. Once(t)
  <2> SUFFICES ASSUME NEW k \in DOMAIN t, NEW l \in DOMAIN t, t[k] = t[l] PROVE k = l
      BY DEF Once
  <2> QED
      BY <1>4, <1>5, OnceOnly, Zenon
<1> QED
    BY <1>2, <1>7, <1>8 DEF t

\* A set of numbers has a least one.
LEMMA LeastIsThere ==
    ASSUME NEW T \in SUBSET Nat, T # {}
    PROVE  Min(T) \in T
<1>1. PICK m \in T : \A y \in T : ~(<<y, m>> \in OpToRel(<, Nat))
      BY NatLessThanWellFounded, WFMin, Zenon
<1>2. \A y \in T : ~(y < m)
      BY <1>1, Zenon DEF OpToRel
<1>3. \A y \in T : m <= y
      BY <1>2
<1> QED
    BY <1>3 DEF Min

-----------------------------------------------------------------------------
(* The windows of the panels.                                               *)

\* A panel is listed once; a slot is that of a listed panel, or of none any longer.
Slotted ==
    /\ listed \in Seq(Panels) /\ Once(listed)
    /\ slots \in Seq(Panels \cup {None}) /\ Len(slots) <= MaxPanels
    /\ id \in [Panels -> Nat]
    /\ ToSet(slots) \subseteq ToSet(listed) \cup {None}
    /\ deleted \subseteq ToSet(listed)
    /\ outgrown \in BOOLEAN

Kept == Slotted /\ OwnWindow

LEMMA ListedPanels ==
    ASSUME Slotted
    PROVE  ToSet(listed) \subseteq Panels
BY ElementOfSeq DEF Slotted, ToSet

LEMMA EmptyList ==
    ASSUME NEW S
    PROVE  <<>> \in Seq(S) /\ Len(<<>>) = 0 /\ ToSet(<<>>) = {} /\ Once(<<>>)
<1>1. <<>> \in Seq(S) /\ Len(<<>>) = 0 /\ DOMAIN <<>> = {}
      BY EmptySeq
<1> QED
    BY <1>1 DEF ToSet, Once

LEMMA StartKept ==
    ASSUME TuiStart
    PROVE  Kept
<1>1. /\ listed = <<>> /\ slots = <<>> /\ deleted = {} /\ outgrown = FALSE
      /\ id = [p \in Panels |-> 0]
      BY DEF TuiStart
<1>2. Slotted
  <2>1. listed \in Seq(Panels) /\ Once(listed)
        BY <1>1, EmptyList
  <2>2. slots \in Seq(Panels \cup {None}) /\ Len(slots) = 0 /\ ToSet(slots) = {}
        BY <1>1, EmptyList
  <2>3. id \in [Panels -> Nat] /\ outgrown \in BOOLEAN /\ deleted \subseteq ToSet(listed)
        BY <1>1
  <2>4. Len(slots) <= MaxPanels
        BY <2>2, TuiPanelsAssumption
  <2> QED
      BY <2>1, <2>2, <2>3, <2>4 DEF Slotted
<1>3. OwnWindow
      BY <1>1, EmptyList DEF OwnWindow
<1> QED
    BY <1>2, <1>3 DEF Kept

LEMMA InitializeKept ==
    ASSUME Kept, Initialize
    PROVE  Kept'
<1>1. slots' = <<>> /\ outgrown' = (listed # <<>>) /\ UNCHANGED <<listed, id, deleted>>
      BY DEF Initialize, panelVars
<1>2. ToSet(slots') = {} /\ slots' \in Seq(Panels \cup {None}) /\ Len(slots') = 0
      BY <1>1, EmptyList
<1>3. outgrown' \in BOOLEAN
      BY <1>1
<1>4. Slotted'
      BY <1>1, <1>2, <1>3, TuiPanelsAssumption DEF Kept, Slotted
<1>5. ~outgrown' => ToSet(listed') = {}
  <2>1. ~outgrown' => listed' = <<>>
        BY <1>1, Zenon
  <2> QED
      BY <2>1, EmptyList
<1> QED
    BY <1>4, <1>5 DEF Kept, OwnWindow

\* The slots that some panels leave.
LEMMA AbandonedSlots ==
    ASSUME Slotted, NEW set
    PROVE  /\ Abandoned(set) \in Seq(Panels \cup {None}) /\ Len(Abandoned(set)) = Len(slots)
           /\ DOMAIN slots = 1 .. Len(slots) /\ DOMAIN Abandoned(set) = 1 .. Len(slots)
           /\ \A k \in 1 .. Len(slots) : Abandoned(set)[k] = IF slots[k] \in set THEN None ELSE slots[k]
           /\ ToSet(Abandoned(set)) \subseteq (ToSet(listed) \ set) \cup {None}
<1>1. Len(slots) \in Nat /\ DOMAIN slots = 1 .. Len(slots)
      /\ \A k \in 1 .. Len(slots) : slots[k] \in Panels \cup {None}
      BY ElementOfSeq, LenProperties DEF Slotted
<1>2. Abandoned(set) \in [1 .. Len(slots) -> Panels \cup {None}]
      BY <1>1 DEF Abandoned
<1>3. Abandoned(set) \in Seq(Panels \cup {None})
      BY <1>1, <1>2, SeqDef
<1>4. DOMAIN Abandoned(set) = 1 .. Len(slots) /\ Len(Abandoned(set)) = Len(slots)
      BY <1>1, <1>2, <1>3, LenProperties
<1>5. ToSet(Abandoned(set)) \subseteq (ToSet(listed) \ set) \cup {None}
      BY <1>1, <1>4 DEF Abandoned, ToSet, Slotted
<1> QED
    BY <1>1, <1>3, <1>4, <1>5 DEF Abandoned

LEMMA DestroyKept ==
    ASSUME Kept, Destroy
    PROVE  Kept'
<1>1. /\ listed' = <<>> /\ slots' = Abandoned(ToSet(listed)) /\ deleted' = {}
      /\ id' = [p \in Panels |-> IF p \in ToSet(listed) THEN 0 ELSE id[p]]
      /\ outgrown' = outgrown
      BY DEF Destroy, Renewed
<1>2. ToSet(listed') = {} /\ listed' \in Seq(Panels) /\ Once(listed')
      BY <1>1, EmptyList
<1>3. id' \in [Panels -> Nat]
      BY <1>1 DEF Kept, Slotted
<1>4. slots' \in Seq(Panels \cup {None}) /\ Len(slots') = Len(slots) /\ ToSet(slots') \subseteq {None}
      BY <1>1, AbandonedSlots DEF Kept
<1> QED
    BY <1>1, <1>2, <1>3, <1>4 DEF Kept, Slotted, OwnWindow

LEMMA AddPanelKept ==
    ASSUME Kept, NEW p \in Panels, NEW initOk \in BOOLEAN, AddPanel(p, initOk)
    PROVE  Kept'
<1> DEFINE room == Len(slots) < MaxPanels
           q == IF initOk THEN p ELSE None
<1>1. /\ p \notin ToSet(listed) /\ deleted' = deleted
      /\ slots' = IF room THEN Append(slots, q) ELSE slots
      BY DEF AddPanel
<1>2. /\ listed \in Seq(Panels) /\ Len(listed) \in Nat /\ DOMAIN listed = 1 .. Len(listed)
      /\ slots \in Seq(Panels \cup {None}) /\ Len(slots) \in Nat /\ DOMAIN slots = 1 .. Len(slots)
      /\ MaxPanels \in Nat
      BY TuiPanelsAssumption, LenProperties DEF Kept, Slotted
<1>3. q \in Panels \cup {None}
      OBVIOUS
<1> HIDE DEF q
<1>4. /\ slots' \in Seq(Panels \cup {None}) /\ Len(slots') \in Nat /\ Len(slots') <= MaxPanels
      /\ DOMAIN slots' = 1 .. Len(slots')
      /\ Len(slots') = IF room THEN Len(slots) + 1 ELSE Len(slots)
      /\ \A k \in 1 .. Len(slots) : slots'[k] = slots[k]
      /\ room => slots'[Len(slots) + 1] = q
  <2>1. CASE room
        BY <1>1, <1>2, <1>3, <2>1, AppendProperties, LenProperties
  <2>2. CASE ~room
        BY <1>1, <1>2, <2>2 DEF Kept, Slotted
  <2> QED
      BY <2>1, <2>2
<1>5. ToSet(slots') \subseteq ToSet(slots) \cup {q}
      BY <1>2, <1>4 DEF ToSet
<1>6. CASE initOk
  <2>1. /\ listed' = Append(listed, p)
        /\ id' = [id EXCEPT ![p] = IF room THEN Len(slots) ELSE 0]
        /\ outgrown' = (outgrown \/ Len(slots) = MaxPanels)
        BY <1>6 DEF AddPanel
  <2>2. outgrown' \in BOOLEAN
        BY <2>1
  <2>3. listed' \in Seq(Panels) /\ Once(listed') /\ ToSet(listed') = ToSet(listed) \cup {p}
    <3>1. listed \in Seq(Panels) /\ Once(listed) /\ p \notin ToSet(listed)
          BY <1>1 DEF Kept, Slotted
    <3>2. /\ Append(listed, p) \in Seq(Panels) /\ Once(Append(listed, p))
          /\ ToSet(Append(listed, p)) = ToSet(listed) \cup {p}
          BY <3>1, OnceAdded
    <3> QED
        BY <2>1, <3>2
  <2>5. id' \in [Panels -> Nat]
        BY <1>2, <2>1 DEF Kept, Slotted
  <2>6. q = p
        BY <1>6 DEF q
  <2>7. Slotted'
        BY <1>1, <1>4, <1>5, <2>2, <2>3, <2>5, <2>6 DEF Kept, Slotted
  <2>8. ASSUME ~outgrown', NEW r \in ToSet(listed')
        PROVE  id'[r] < Len(slots') /\ slots'[id'[r] + 1] = r /\ r \notin deleted'
    <3>1. ~outgrown /\ room
      <4>1. ~outgrown /\ Len(slots) # MaxPanels
            BY <2>1, <2>8, Zenon
      <4>2. Len(slots) <= MaxPanels /\ Len(slots) \in Nat /\ MaxPanels \in Nat
            BY <1>2 DEF Kept, Slotted
      <4>3. Len(slots) < MaxPanels
            BY <4>1, <4>2
      <4> QED
          BY <4>1, <4>3, Zenon
    <3>2. CASE r = p
      <4>1. id'[p] = Len(slots)
            BY <2>1, <3>1 DEF Kept, Slotted
      <4>2. p \notin deleted'
            BY <1>1 DEF Kept, Slotted
      <4> QED
          BY <1>2, <1>4, <2>6, <3>1, <3>2, <4>1, <4>2
    <3>3. CASE r # p
      <4>1. r \in ToSet(listed) /\ r \in Panels /\ id'[r] = id[r] /\ id[r] \in Nat
            BY <2>1, <2>3, <2>8, <3>3, ListedPanels DEF Kept, Slotted
      <4>2. id[r] < Len(slots) /\ slots[id[r] + 1] = r /\ r \notin deleted
            BY <3>1, <4>1 DEF Kept, OwnWindow
      <4>3. id[r] + 1 \in 1 .. Len(slots)
            BY <1>2, <4>1, <4>2
      <4> QED
          BY <1>1, <1>2, <1>4, <3>1, <4>1, <4>2, <4>3
    <3> QED
        BY <3>2, <3>3
  <2> QED
      BY <2>7, <2>8 DEF Kept, OwnWindow
<1>7. CASE ~initOk
  <2>1. UNCHANGED <<listed, id, outgrown>> /\ q = None
        BY <1>7 DEF AddPanel, q
  <2>2. Slotted'
        BY <1>1, <1>4, <1>5, <2>1 DEF Kept, Slotted
  <2>3. ASSUME ~outgrown', NEW r \in ToSet(listed')
        PROVE  id'[r] < Len(slots') /\ slots'[id'[r] + 1] = r /\ r \notin deleted'
    <3>1. r \in ToSet(listed) /\ r \in Panels /\ id'[r] = id[r] /\ id[r] \in Nat
          BY <2>1, <2>3, ListedPanels DEF Kept, Slotted
    <3>2. id[r] < Len(slots) /\ slots[id[r] + 1] = r /\ r \notin deleted
          BY <2>1, <2>3, <3>1 DEF Kept, OwnWindow
    <3>3. id[r] + 1 \in 1 .. Len(slots)
          BY <1>2, <3>1, <3>2
    <3> QED
        BY <1>1, <1>2, <1>4, <3>1, <3>2, <3>3
  <2> QED
      BY <2>2, <2>3 DEF Kept, OwnWindow
<1> QED
    BY <1>6, <1>7

\* A listed panel has a first place, which is its only one.
LEMMA FirstPlaceOf ==
    ASSUME Slotted, NEW p \in ToSet(listed)
    PROVE  FirstPlace(p) \in DOMAIN listed /\ listed[FirstPlace(p)] = p
<1>1. PICK i \in DOMAIN listed : listed[i] = p
      BY DEF ToSet
<1>2. DOMAIN listed = 1 .. Len(listed) /\ Len(listed) \in Nat
      BY LenProperties DEF Slotted
<1>3. ASSUME NEW j \in 1 .. (i - 1)
      PROVE  listed[j] # p
  <2>1. j \in DOMAIN listed /\ j # i
        BY <1>1, <1>2
  <2> QED
      BY <1>1, <2>1, OnceOnly DEF Slotted
<1> QED
    BY <1>1, <1>3 DEF FirstPlace

LEMMA RemovePanelKept ==
    ASSUME Kept, NEW p \in Panels, RemovePanel(p)
    PROVE  Kept'
<1> DEFINE at == FirstPlace(p)
           other == IF id[p] < Len(slots) THEN deleted \cup {slots[id[p] + 1]} ELSE deleted
<1>1. /\ p \in ToSet(listed) /\ slots' = Abandoned({p}) /\ listed' = RemoveAt(listed, at)
      /\ deleted' = other \ {p, None} /\ outgrown' = outgrown
      /\ id' = [r \in Panels |-> IF r \in {p} THEN 0 ELSE id[r]]
      BY DEF RemovePanel, Removed, Renewed
<1>2. at \in DOMAIN listed /\ listed[at] = p
      BY <1>1, FirstPlaceOf DEF Kept
<1> HIDE DEF at
<1>3. listed' \in Seq(Panels) /\ Once(listed') /\ ToSet(listed') = ToSet(listed) \ {p}
      BY <1>1, <1>2, OnceTaken DEF Kept, Slotted
<1>4. /\ slots' \in Seq(Panels \cup {None}) /\ Len(slots') = Len(slots) /\ Len(slots) \in Nat
      /\ \A k \in 1 .. Len(slots) : slots'[k] = IF slots[k] \in {p} THEN None ELSE slots[k]
      /\ ToSet(slots') \subseteq (ToSet(listed) \ {p}) \cup {None}
      BY <1>1, AbandonedSlots, LenProperties DEF Kept, Slotted
<1>5. id' \in [Panels -> Nat]
      BY <1>1 DEF Kept, Slotted
<1>6. id[p] < Len(slots) => slots[id[p] + 1] \in ToSet(listed) \cup {None}
  <2>1. id[p] \in Nat /\ DOMAIN slots = 1 .. Len(slots)
        BY <1>4, LenProperties DEF Kept, Slotted
  <2>2. id[p] < Len(slots) => id[p] + 1 \in DOMAIN slots
        BY <1>4, <2>1
  <2> QED
      BY <2>2 DEF Kept, Slotted, ToSet
<1>7. deleted' \subseteq ToSet(listed')
      BY <1>1, <1>3, <1>6 DEF Kept, Slotted
<1>8. Slotted'
       BY <1>1, <1>3, <1>4, <1>5, <1>7 DEF Kept, Slotted
<1>9. ASSUME ~outgrown', NEW r \in ToSet(listed')
       PROVE  id'[r] < Len(slots') /\ slots'[id'[r] + 1] = r /\ r \notin deleted'
  <2>1. r \in ToSet(listed) /\ r # p /\ r \in Panels /\ id'[r] = id[r] /\ id[r] \in Nat
        BY <1>1, <1>3, <1>9, ListedPanels DEF Kept, Slotted
  <2>2. id[r] < Len(slots) /\ slots[id[r] + 1] = r /\ r \notin deleted
        BY <1>1, <1>9, <2>1 DEF Kept, OwnWindow
  <2>3. id[r] + 1 \in 1 .. Len(slots)
        BY <1>4, <2>1, <2>2
  <2>4. slots'[id'[r] + 1] = r
        BY <1>4, <2>1, <2>2, <2>3
  <2>5. id[p] < Len(slots) /\ slots[id[p] + 1] = p
        BY <1>1, <1>9 DEF Kept, OwnWindow
  <2> QED
      BY <1>1, <1>4, <2>1, <2>2, <2>4, <2>5
<1> QED
    BY <1>8, <1>9 DEF Kept, OwnWindow

\* Everything else leaves the list and the slots alone.
LEMMA OthersKeepSlots ==
    ASSUME TuiNext
    PROVE  \/ Initialize \/ Destroy
           \/ \E p \in Panels : RemovePanel(p) \/ \E initOk \in BOOLEAN : AddPanel(p, initOk)
           \/ UNCHANGED <<listed, slotVars>>
<1>1. CASE Shutdown
      BY <1>1 DEF Shutdown, panelVars
<1>2. ASSUME NEW p \in Panels, Click(p)
      PROVE  UNCHANGED <<listed, slotVars>>
      BY <1>2 DEF Click, panelVars
<1>3. ASSUME NEW c, Execute(c)
      PROVE  UNCHANGED <<listed, slotVars>>
      BY <1>3 DEF Execute, CloseHelp, panelVars, tuiVars
<1>4. ASSUME PressKey
      PROVE  UNCHANGED <<listed, slotVars>>
      BY <1>3, <1>4 DEF PressKey, CloseHelp
<1>5. ASSUME UNCHANGED panelVars
      PROVE  UNCHANGED listed
      BY <1>5 DEF panelVars
<1> QED
    BY <1>1, <1>2, <1>3, <1>4, <1>5 DEF TuiNext

LEMMA SlotsAlone ==
    ASSUME Kept, UNCHANGED <<listed, slotVars>>
    PROVE  Kept'
<1>1. listed' = listed /\ id' = id /\ slots' = slots /\ deleted' = deleted /\ outgrown' = outgrown
      BY DEF slotVars
<1> QED
    BY <1>1 DEF Kept, Slotted, OwnWindow

LEMMA NextKept ==
    ASSUME Kept, [TuiNext]_tuiVars
    PROVE  Kept'
<1>1. CASE TuiNext
      BY <1>1, OthersKeepSlots, InitializeKept, DestroyKept, RemovePanelKept, AddPanelKept, SlotsAlone
<1>2. CASE UNCHANGED tuiVars
      BY <1>2, SlotsAlone DEF tuiVars, panelVars
<1> QED
    BY <1>1, <1>2

\* A listed panel's id leads to its own window, which is still there, whatever panels were
\* added, failed to initialise or were removed in between (md_tui_add_panel,
\* md_tui_remove_panel).
THEOREM WindowsAreOwn == TuiSpec => []OwnWindow
<1>1. TuiStart => Kept
      BY StartKept
<1>2. Kept /\ [TuiNext]_tuiVars => Kept'
      BY NextKept
<1>3. Kept => OwnWindow
      BY DEF Kept
<1> QED
    BY <1>1, <1>2, <1>3, PTL DEF TuiSpec

-----------------------------------------------------------------------------
(* The focus.                                                               *)

\* tui->source_panel and the like are panels of their type.
Pointed ==
    /\ special \in [SpecialTypes -> Panels \cup {None}]
    /\ \A t \in SpecialTypes : special[t] # None => TypeOf[special[t]] = t

LEMMA AddPanelPointed ==
    ASSUME Pointed, NEW p \in Panels, NEW initOk \in BOOLEAN, AddPanel(p, initOk)
    PROVE  Pointed'
<1>1. CASE initOk
  <2>1. special' = [t \in SpecialTypes |-> IF t = TypeOf[p] THEN p ELSE special[t]]
        BY <1>1 DEF AddPanel
  <2> QED
      BY <2>1 DEF Pointed
<1>2. CASE ~initOk
  <2>1. special' = special
        BY <1>2 DEF AddPanel
  <2> QED
      BY <2>1 DEF Pointed
<1> QED
    BY <1>1, <1>2

LEMMA OthersKeepSpecial ==
    ASSUME TuiNext
    PROVE  \/ Destroy
           \/ \E p \in Panels : RemovePanel(p) \/ \E initOk \in BOOLEAN : AddPanel(p, initOk)
           \/ special' = special
<1>1. CASE Shutdown \/ Initialize
      BY <1>1 DEF Shutdown, Initialize, panelVars
<1>2. ASSUME NEW p \in Panels, Click(p)
      PROVE  special' = special
      BY <1>2 DEF Click, panelVars
<1>3. ASSUME NEW c, Execute(c)
      PROVE  special' = special
      BY <1>3 DEF Execute, CloseHelp, panelVars, tuiVars
<1>4. ASSUME PressKey
      PROVE  special' = special
      BY <1>3, <1>4 DEF PressKey, CloseHelp
<1>5. ASSUME UNCHANGED panelVars
      PROVE  special' = special
      BY <1>5 DEF panelVars
<1> QED
    BY <1>1, <1>2, <1>3, <1>4, <1>5 DEF TuiNext

LEMMA NextPointed ==
    ASSUME Pointed, [TuiNext]_tuiVars
    PROVE  Pointed'
<1>1. ASSUME special' = special
      PROVE  Pointed'
      BY <1>1 DEF Pointed
<1>2. ASSUME NEW p \in Panels, RemovePanel(p)
      PROVE  Pointed'
  <2>1. special' = [t \in SpecialTypes |-> IF special[t] = p THEN None ELSE special[t]]
        BY <1>2 DEF RemovePanel, Removed
  <2> QED
      BY <2>1 DEF Pointed
<1>3. ASSUME Destroy
      PROVE  Pointed'
  <2>1. special' = [t \in SpecialTypes |-> None]
        BY <1>3 DEF Destroy
  <2> QED
      BY <2>1 DEF Pointed
<1>4. CASE TuiNext
      BY <1>1, <1>2, <1>3, <1>4, AddPanelPointed, OthersKeepSpecial
<1>5. CASE UNCHANGED tuiVars
      BY <1>1, <1>5 DEF tuiVars, panelVars
<1> QED
    BY <1>4, <1>5

\* What md_tui_get_panel returns, if anything, is a listed panel of that type.
LEMMA GotPanel ==
    ASSUME Slotted, NEW t, GetPanel(t) # None
    PROVE  GetPanel(t) \in ToSet(listed) /\ TypeOf[GetPanel(t)] = t
<1> DEFINE at == {k \in DOMAIN listed : TypeOf[listed[k]] = t}
<1>1. at # {} /\ GetPanel(t) = listed[Min(at)]
      BY DEF GetPanel
<1>2. at \in SUBSET Nat
      BY LenProperties DEF Slotted
<1>3. Min(at) \in at
      BY <1>1, <1>2, LeastIsThere
<1> QED
    BY <1>1, <1>3 DEF ToSet

\* The next or the previous panel that is shown is listed, and is shown.
LEMMA NeighbourShown ==
    ASSUME Slotted, NEW step \in {1, -1}, Neighbour(step) # None
    PROVE  Neighbour(step) \in Shown
<1> DEFINE n == Len(listed)
           here == {k \in 0 .. (n - 1) : listed[k + 1] = focusedPanel}
           idx == IF here = {} THEN 0 ELSE Min(here)
           place(k) == ((idx + step * k + n) % n) + 1
           shown == {k \in 1 .. (n - 1) : listed[place(k)] \notin hidden}
<1>1. shown # {} /\ Neighbour(step) = listed[place(Min(shown))]
      BY DEF Neighbour
<1>2. n \in Nat /\ DOMAIN listed = 1 .. n
      BY LenProperties DEF Slotted
<1>3. idx \in Nat
  <2>1. here \in SUBSET Nat
        BY <1>2
  <2>2. here # {} => Min(here) \in here
        BY <2>1, LeastIsThere
  <2> QED
      BY <2>1, <2>2
<1>4. Min(shown) \in shown
  <2>1. shown \in SUBSET Nat
        BY <1>2
  <2> QED
      BY <1>1, <2>1, LeastIsThere
<1> HIDE DEF idx
<1>5. ASSUME NEW k \in 1 .. (n - 1)
      PROVE  place(k) \in DOMAIN listed
  <2>1. n \in Nat \ {0} /\ step * k \in Int
        BY <1>2, <1>5
  <2>2. idx + step * k + n \in Int
        BY <1>2, <1>3, <2>1
  <2>3. ASSUME NEW a \in Int, NEW b \in Nat \ {0}
        PROVE  a % b \in 0 .. (b - 1)
        BY <2>3
  <2>4. (idx + step * k + n) % n \in 0 .. (n - 1)
        BY <2>1, <2>2, <2>3
  <2> QED
      BY <1>2, <2>1, <2>4
<1> QED
    BY <1>1, <1>4, <1>5 DEF Shown, ToSet

\* Focusing on a shown panel leaves it the only one drawn as focused.
LEMMA FocusShown ==
    ASSUME FocusVisible, NEW p, Focus(p), listed' = listed, p \in Shown'
    PROVE  FocusVisible'
<1>1. focusedPanel' = p /\ flagged' = (flagged \ {focusedPanel}) \cup {p}
      BY DEF Focus
<1>2. p \in ToSet(listed)
      BY DEF Shown
<1>3. flagged \cap ToSet(listed) = {focusedPanel}
      BY DEF FocusVisible
<1>4. flagged' \cap ToSet(listed) = {p}
      BY <1>1, <1>2, <1>3
<1> QED
    BY <1>1, <1>4 DEF FocusVisible

\* Closing the help panel takes the focus to the source panel.
LEMMA CloseHelpShown ==
    ASSUME Slotted, Pointed, FocusVisible, special["source"] \in Shown, CloseHelp
    PROVE  FocusVisible'
<1> DEFINE s == special["source"]
           h == GetPanel("help")
<1>1. s \in ToSet(listed) /\ s \notin hidden /\ s \in Panels
      BY ListedPanels DEF Shown
<1>2. s # None
      BY <1>1, TuiPanelsAssumption
<1>3. TypeOf[s] = "source"
      BY <1>2 DEF Pointed, SpecialTypes
<1>4. Focus(s) /\ listed' = listed /\ hidden' = IF h = None THEN hidden ELSE hidden \cup {h}
      BY <1>2 DEF CloseHelp, FocusPanel, SetPanelVisible
<1>5. h # None => s # h
      BY <1>3, GotPanel
<1>6. s \in Shown'
      BY <1>1, <1>4, <1>5 DEF Shown
<1> QED
    BY <1>4, <1>6, FocusShown

LEMMA KeyCommands ==
    ASSUME NEW key \in Keys
    PROVE  CommandOf(key) \in DOMAIN KeysFor /\ CommandOf(key) \notin DOMAIN FocusTarget
<1>1. \E c \in DOMAIN KeysFor : key \in KeysFor[c]
      BY DEF Keys
<1>2. CommandOf(key) \in DOMAIN KeysFor
      BY <1>1 DEF CommandOf
<1> QED
    BY <1>2 DEF KeysFor, FocusTarget

\* What a key does to the focus.
LEMMA KeyShown ==
    ASSUME Slotted, Pointed, FocusVisible, special["source"] \in Shown, PressKey
    PROVE  FocusVisible'
<1>1. ASSUME NEW c, c \notin DOMAIN FocusTarget, Execute(c)
      PROVE  FocusVisible'
  <2>1. ASSUME NEW step \in {1, -1}, FocusPanel(Neighbour(step)), UNCHANGED panelVars
        PROVE  FocusVisible'
    <3>1. CASE Neighbour(step) = None
          BY <2>1, <3>1 DEF FocusPanel, FocusVisible, focusVars, panelVars, Shown
    <3>2. CASE Neighbour(step) # None
      <4>1. Neighbour(step) \in Shown /\ Focus(Neighbour(step))
            BY <2>1, <3>2, NeighbourShown DEF FocusPanel
      <4>2. listed' = listed /\ Neighbour(step) \in Shown'
            BY <2>1, <4>1 DEF panelVars, Shown
      <4> QED
          BY <4>1, <4>2, FocusShown
    <3> QED
        BY <3>1, <3>2
  <2>2. CASE c = "help" /\ SetPanelVisible("help", TRUE) /\ FocusPanel(GetPanel("help")) /\ UNCHANGED listed
    <3> DEFINE h == GetPanel("help")
    <3>1. CASE h = None
          BY <2>2, <3>1 DEF FocusPanel, SetPanelVisible, FocusVisible, focusVars, Shown
    <3>2. CASE h # None
      <4>1. Focus(h) /\ hidden' = hidden \ {h} /\ h \in ToSet(listed)
            BY <2>2, <3>2, GotPanel DEF FocusPanel, SetPanelVisible
      <4>2. h \in Shown'
            BY <2>2, <4>1 DEF Shown
      <4> QED
          BY <2>2, <4>1, <4>2, FocusShown
    <3> QED
        BY <3>1, <3>2
  <2>3. CASE UNCHANGED tuiVars
        BY <2>3 DEF tuiVars, focusVars, panelVars, FocusVisible, Shown
  <2>4. CASE CloseHelp
        BY <2>4, CloseHelpShown
  <2> QED
      BY <1>1, <2>1, <2>2, <2>3, <2>4 DEF Execute
<1>2. CASE CloseHelp
      BY <1>2, CloseHelpShown
<1> QED
    BY <1>1, <1>2, KeyCommands DEF PressKey

\* While the source panel is shown, no key takes the focus out of the user's sight: not past
\* hidden panels, nor into the help panel and back (process_input_key,
\* md_tui_focus_next_panel, help_panel_handle_key).
THEOREM FocusStaysInSight == TuiSpec => KeysKeepFocus
<1> DEFINE Step == PressKey /\ FocusVisible /\ special["source"] \in Shown => FocusVisible'
<1>1. TuiStart => Kept /\ Pointed
  <2>1. TuiStart => Pointed
        BY DEF TuiStart, Pointed
  <2> QED
      BY <2>1, StartKept
<1>2. Kept /\ Pointed /\ [TuiNext]_tuiVars => (Kept /\ Pointed)'
      BY NextKept, NextPointed
<1>3. Kept /\ Pointed /\ [TuiNext]_tuiVars => [Step]_tuiVars
      BY KeyShown DEF Kept
<1> QED
    BY <1>1, <1>2, <1>3, PTL DEF TuiSpec, KeysKeepFocus

-----------------------------------------------------------------------------
(* The source panel.                                                        *)

\* What the panel holds is numbers, and the lines it counts are those of its file.
SourceData ==
    [file : Files \cup {NoFile}, count : Nat, top : Int, cursor : Int, current : Int,
     searching : BOOLEAN, height : Int, follow : BOOLEAN]

SourceTyped ==
    /\ src \in SourceData
    /\ src.count > 0 => src.file \in Files /\ src.count = Length[src.file]

LEMMA MaxOfTwo ==
    ASSUME NEW a \in Int, NEW b \in Int
    PROVE  Max({a, b}) = IF a >= b THEN a ELSE b
BY DEF Max

LEMMA MinOfTwo ==
    ASSUME NEW a \in Int, NEW b \in Int
    PROVE  Min({a, b}) = IF a <= b THEN a ELSE b
BY DEF Min

\* A set of numbers with a bound has a greatest one.
LEMMA GreatestIsThere ==
    ASSUME NEW n \in Nat, NEW T \in SUBSET (0 .. n), T # {}
    PROVE  Max(T) \in T /\ \A y \in T : y <= Max(T)
<1> DEFINE U == {n - x : x \in T}
<1>1. U \in SUBSET Nat /\ U # {}
      OBVIOUS
<1>2. PICK m \in U : \A y \in U : ~(<<y, m>> \in OpToRel(<, Nat))
      BY <1>1, NatLessThanWellFounded, WFMin, Zenon
<1>3. \A y \in U : ~(y < m)
      BY <1>1, <1>2, Zenon DEF OpToRel
<1>4. PICK g \in T : m = n - g
      OBVIOUS
<1>5. \A x \in T : n - x \in U
      OBVIOUS
<1> HIDE DEF U
<1>6. \A y \in T : g >= y
      BY <1>1, <1>3, <1>4, <1>5
<1>7. Max(T) \in T /\ \A y \in T : Max(T) >= y
      BY <1>4, <1>6 DEF Max
<1> QED
    BY <1>7

LEMMA HalfIsInt ==
    ASSUME NEW n \in Int
    PROVE  Half(n) \in Int /\ (n > 0 => Half(n) \in 0 .. (n - 1))
BY DEF Half

\* Scrolling moves the view and nothing else, and if it goes to a line that is there, the line
\* is then in view.
LEMMA ScrolledView ==
    ASSUME NEW s \in SourceData, NEW line \in Int, NEW center \in BOOLEAN
    PROVE  /\ \E top \in Int : Scrolled(s, line, center) = [s EXCEPT !.top = top]
           /\ s.height > 0 /\ line \in 1 .. s.count => line \in Drawn(Scrolled(s, line, center))
<1> DEFINE goal == IF center THEN line - Half(s.height)
                   ELSE IF line < s.top THEN line
                   ELSE IF line >= s.top + s.height THEN line - s.height + 1
                   ELSE s.top
           first == Max({goal, 1})
           top == IF first + s.height > s.count + 1 THEN LastTop(s) ELSE first
<1>1. s.height \in Int /\ s.top \in Int /\ s.count \in Nat
      BY DEF SourceData
<1>2. goal \in Int /\ (s.height > 0 => goal <= line /\ line < goal + s.height)
      BY <1>1, HalfIsInt
<1> HIDE DEF goal
<1>3. first = IF goal >= 1 THEN goal ELSE 1
      BY <1>2, MaxOfTwo
<1>4. LastTop(s) = IF s.count - s.height + 1 >= 1 THEN s.count - s.height + 1 ELSE 1
      BY <1>1, MaxOfTwo DEF LastTop
<1> HIDE DEF first
<1>5. top \in Int
      BY <1>1, <1>2, <1>3, <1>4
<1>6. ASSUME s.height > 0, line \in 1 .. s.count
      PROVE  top <= line /\ line < top + s.height
      BY <1>1, <1>2, <1>3, <1>4, <1>6
<1>7. Scrolled(s, line, center) = IF line \notin 1 .. s.count THEN s ELSE [s EXCEPT !.top = top]
      BY Zenon DEF Scrolled, goal, first
<1> HIDE DEF top
<1>8. s = [s EXCEPT !.top = s.top]
      BY DEF SourceData
<1>9. ASSUME s.height > 0, line \in 1 .. s.count
      PROVE  line \in Drawn(Scrolled(s, line, center))
  <2>1. /\ Scrolled(s, line, center).top = top /\ Scrolled(s, line, center).height = s.height
        /\ Scrolled(s, line, center).count = s.count
        BY <1>7, <1>9 DEF SourceData
  <2> QED
      BY <1>6, <1>9, <2>1 DEF Drawn
<1> QED
    BY <1>1, <1>5, <1>7, <1>8, <1>9

\* What a step leaves alone when it only moves the view.
LEMMA OnlyTop ==
    ASSUME NEW s \in SourceData, NEW top \in Int, NEW t, t = [s EXCEPT !.top = top]
    PROVE  /\ t \in SourceData /\ t.file = s.file /\ t.count = s.count /\ t.cursor = s.cursor
           /\ t.current = s.current /\ t.height = s.height /\ t.top = top
BY DEF SourceData

LEMMA ScrolledKeeps ==
    ASSUME NEW s \in SourceData, NEW line \in Int, NEW center \in BOOLEAN
    PROVE  LET t == Scrolled(s, line, center)
           IN  /\ t \in SourceData /\ t.file = s.file /\ t.count = s.count /\ t.cursor = s.cursor
               /\ t.current = s.current /\ t.height = s.height
BY ScrolledView, OnlyTop

LEMMA MarkedKeeps ==
    ASSUME NEW s \in SourceData, NEW line \in Int, NEW t, t = WithCurrent(s, line)
    PROVE  /\ t \in SourceData /\ t.file = s.file /\ t.count = s.count /\ t.cursor = s.cursor
           /\ t.current = line /\ t.height = s.height
<1> DEFINE marked == [s EXCEPT !.current = line]
<1>1. /\ marked \in SourceData /\ marked.file = s.file /\ marked.count = s.count
      /\ marked.cursor = s.cursor /\ marked.current = line /\ marked.height = s.height
      BY DEF SourceData
<1>2. t = marked \/ t = Scrolled(marked, line, TRUE)
      BY DEF WithCurrent
<1> HIDE DEF marked
<1>3. CASE t = Scrolled(marked, line, TRUE)
  <2>1. LET u == Scrolled(marked, line, TRUE)
        IN  /\ u \in SourceData /\ u.file = marked.file /\ u.count = marked.count
            /\ u.cursor = marked.cursor /\ u.current = marked.current /\ u.height = marked.height
        BY <1>1, ScrolledKeeps
  <2> QED
      BY <1>1, <1>3, <2>1
<1> QED
    BY <1>1, <1>2, <1>3

LEMMA LoadedKeeps ==
    ASSUME NEW s \in SourceData, NEW f \in Files \cup {NoFile}, NEW readable \in BOOLEAN,
           readable => f \in Files, NEW t, t = Loaded(s, f, readable)
    PROVE  /\ t \in SourceData /\ t.height = s.height
           /\ t.count > 0 => t.file = f /\ f \in Files /\ t.count = Length[f]
<1>1. CASE readable
  <2>1. t = [s EXCEPT !.file = f, !.count = Length[f], !.top = 1, !.cursor = 1]
        BY <1>1 DEF Loaded
  <2>2. Length[f] \in Nat
        BY <1>1, SourcePanelAssumption
  <2>3. /\ t.file = f /\ t.count = Length[f] /\ t.height = s.height
        BY <2>1 DEF SourceData
  <2>4. t \in SourceData
    <3>1. t = [file |-> f, count |-> Length[f], top |-> 1, cursor |-> 1, current |-> s.current,
               searching |-> s.searching, height |-> s.height, follow |-> s.follow]
          BY <2>1 DEF SourceData
    <3>2. /\ s.current \in Int /\ s.searching \in BOOLEAN /\ s.height \in Int /\ s.follow \in BOOLEAN
          BY DEF SourceData
    <3> QED
        BY <2>2, <3>1, <3>2 DEF SourceData
  <2> QED
      BY <1>1, <2>3, <2>4
<1>2. CASE ~readable
  <2>1. t = [s EXCEPT !.count = 0]
        BY <1>2 DEF Loaded
  <2> QED
      BY <2>1 DEF SourceData
<1> QED
    BY <1>1, <1>2

\* The lines a search may find: a matching one that is not the cursor's, a line past the end
\* that the cursor is even further past, or none.
LEMMA FoundLine ==
    ASSUME SourceTyped, src.count > 0, NEW backward \in BOOLEAN, NEW line \in Find(src, backward)
    PROVE  line \in Candidates(src) \/ line \in Beyond(src) \/ line = 0
<1> DEFINE after == {m \in Candidates(src) : m > src.cursor}
           before == {m \in Candidates(src) : m < src.cursor}
<1>1. Candidates(src) \in SUBSET (0 .. src.count) /\ src.count \in Nat
      BY SourcePanelAssumption DEF SourceTyped, SourceData, Candidates
<1>2. after \in SUBSET (0 .. src.count) /\ before \in SUBSET (0 .. src.count)
      /\ after \in SUBSET Nat /\ before \in SUBSET Nat
      BY <1>1
<1>3. /\ after # {} => Max(after) \in after /\ Min(after) \in after
      /\ before # {} => Max(before) \in before /\ Min(before) \in before
      BY <1>1, <1>2, GreatestIsThere, LeastIsThere
<1>4. after \subseteq Candidates(src) /\ before \subseteq Candidates(src)
      OBVIOUS
<1>5. \/ line \in Beyond(src) \/ line = 0
      \/ after # {} /\ line \in {Max(after), Min(after)}
      \/ before # {} /\ line \in {Max(before), Min(before)}
      BY DEF Find, Beneath
<1> HIDE DEF after, before
<1> QED
    BY <1>3, <1>4, <1>5

\* What a search does to the panel.
LEMMA SearchGoes ==
    ASSUME SourceTyped, NEW backward \in BOOLEAN, Search(backward)
    PROVE  /\ src.count > 0 /\ src' \in SourceData /\ src'.file = src.file /\ src'.count = src.count
           /\ src'.height = src.height /\ src'.current = src.current
           /\ \E line \in Find(src, backward) :
                 /\ line \in Candidates(src) \cup Beyond(src) \cup {0}
                 /\ line = 0 => src'.cursor = src.cursor /\ src'.top = src.top
                 /\ line # 0 => src'.cursor = line
                 /\ src.height > 0 /\ line \in 1 .. src.count => line \in Drawn(src')
<1>1. src.count > 0 /\ src.count \in Nat /\ src \in SourceData
      BY DEF Search, SourceTyped, SourceData
<1>2. PICK line \in Find(src, backward) : src' = At([src EXCEPT !.searching = TRUE], line)
      BY DEF Search
<1>3. line \in Candidates(src) \cup Beyond(src) \cup {0}
      BY <1>1, FoundLine
<1>4. line \in Int
      BY <1>1, <1>3, SourcePanelAssumption DEF SourceTyped, SourceData, Candidates, Beyond
<1>5. CASE line = 0
  <2>1. src' = [src EXCEPT !.searching = TRUE]
        BY <1>2, <1>5 DEF At
  <2>2. /\ src' \in SourceData /\ src'.file = src.file /\ src'.count = src.count
        /\ src'.height = src.height /\ src'.current = src.current
        /\ src'.cursor = src.cursor /\ src'.top = src.top
        BY <1>1, <2>1 DEF SourceData
  <2>3. line \notin 1 .. src.count
        BY <1>5
  <2> QED
      BY <1>1, <1>3, <1>5, <2>2, <2>3
<1>6. CASE line # 0
  <2> DEFINE moved == [src EXCEPT !.searching = TRUE, !.cursor = line]
  <2>1. src' = Scrolled(moved, line, FALSE)
        BY <1>2, <1>6 DEF At
  <2>2. /\ moved \in SourceData /\ moved.cursor = line /\ moved.count = src.count
        /\ moved.height = src.height /\ moved.file = src.file /\ moved.current = src.current
        BY <1>1, <1>4 DEF SourceData
  <2> HIDE DEF moved
  <2>3. /\ src' \in SourceData /\ src'.file = src.file /\ src'.count = src.count /\ src'.cursor = line
        /\ src'.height = src.height /\ src'.current = src.current
        BY <1>4, <2>1, <2>2, ScrolledKeeps
  <2>4. src.height > 0 /\ line \in 1 .. src.count => line \in Drawn(src')
        BY <1>4, <2>1, <2>2, ScrolledView
  <2> QED
      BY <1>1, <1>3, <1>6, <2>3, <2>4
<1> QED
    BY <1>5, <1>6

\* The file and the lines it has stay as they are.
SameFile == src'.file = src.file /\ src'.count = src.count

LEMMA SameFileTyped ==
    ASSUME SourceTyped, src' \in SourceData, SameFile
    PROVE  SourceTyped'
BY DEF SourceTyped, SameFile

\* A key that moves the cursor and the view.
Placed(cursor, top) == src' = [src EXCEPT !.cursor = cursor, !.top = top]

\* What each key does, in a panel with a cursor in view.
LEMMA KeyTyped ==
    ASSUME SourceTyped, NEW key, src' = OnKey(src, key)
    PROVE  src' \in SourceData /\ SameFile
<1>1. src \in SourceData /\ src.count \in Nat /\ src.top \in Int /\ src.cursor \in Int
      /\ src.current \in Int /\ src.height \in Int
      BY DEF SourceTyped, SourceData
<1>2. CASE src' = [Scrolled(src, src.current, TRUE) EXCEPT !.cursor = src.current]
  <2>1. LET t == Scrolled(src, src.current, TRUE)
        IN  t \in SourceData /\ t.file = src.file /\ t.count = src.count
        BY <1>1, ScrolledKeeps
  <2> QED
      BY <1>1, <1>2, <2>1 DEF SourceData, SameFile
<1>3. ASSUME NEW c \in Int, NEW t \in Int, Placed(c, t)
      PROVE  src' \in SourceData /\ SameFile
      BY <1>1, <1>3 DEF SourceData, SameFile, Placed
<1>4. CASE src' = src
      BY <1>1, <1>4 DEF SameFile
<1>5. /\ Max({src.cursor - src.height, 1}) \in Int /\ Max({src.top - src.height, 1}) \in Int
      /\ Min({src.cursor + src.height, src.count}) \in Int /\ LastTop(src) \in Int
      /\ Min({src.top, src.cursor - 1}) \in Int
      BY <1>1, MaxOfTwo, MinOfTwo DEF LastTop
<1> DEFINE c == src.cursor
           h == src.height
           n == src.count
<1>6. \/ src' = [Scrolled(src, src.current, TRUE) EXCEPT !.cursor = src.current]
      \/ src' = src
      \/ Placed(c - 1, Min({src.top, c - 1}))
      \/ Placed(c + 1, IF c + 1 >= src.top + h THEN c - h + 2 ELSE src.top)
      \/ Placed(Max({c - h, 1}), Max({src.top - h, 1}))
      \/ Placed(Min({c + h, n}), IF src.top + 2 * h > n THEN LastTop(src) ELSE src.top + h)
      \/ Placed(1, 1)
      \/ Placed(n, LastTop(src))
      BY Zenon DEF OnKey, PagedDown, Placed
<1>7. /\ c - 1 \in Int /\ c + 1 \in Int /\ n \in Int /\ 1 \in Int
      /\ (IF c + 1 >= src.top + h THEN c - h + 2 ELSE src.top) \in Int
      /\ (IF src.top + 2 * h > n THEN LastTop(src) ELSE src.top + h) \in Int
      BY <1>1, <1>5
<1> QED
    BY <1>2, <1>3, <1>4, <1>5, <1>6, <1>7, Zenon

LEMMA KeyInView ==
    ASSUME SourceTyped, NEW key, src' = OnKey(src, key), InView(src), src.current <= src.count,
           src'.height > 0
    PROVE  InView(src')
<1> DEFINE c == src.cursor
           t == src.top
           h == src.height
           n == src.count
<1>1. src \in SourceData /\ n \in Nat /\ t \in Int /\ c \in Int /\ src.current \in Int /\ h \in Int
      BY DEF SourceTyped, SourceData
<1>2. c \in 1 .. n /\ t <= c /\ c < t + h
      BY <1>1 DEF InView, Drawn
<1>3. h > 0
      BY <1>1, <1>2
<1>4. ASSUME NEW d \in Int, NEW u \in Int, Placed(d, u),
             d \in 1 .. n, u <= d, d < u + h
      PROVE  InView(src')
      BY <1>1, <1>4 DEF SourceData, InView, Drawn, Placed
<1>5. CASE key = "Up" /\ c > 1
  <2>1. Placed(c - 1, Min({t, c - 1}))
        BY <1>5 DEF Placed, OnKey
  <2>2. Min({t, c - 1}) = IF t <= c - 1 THEN t ELSE c - 1
        BY <1>1, MinOfTwo
  <2>3. Min({t, c - 1}) \in Int /\ Min({t, c - 1}) <= c - 1 /\ c - 1 < Min({t, c - 1}) + h
        BY <1>1, <1>2, <1>3, <2>2
  <2> QED
      BY <1>1, <1>2, <1>4, <1>5, <2>1, <2>3
<1>6. CASE key = "Down" /\ c < n
  <2> DEFINE u == IF c + 1 >= t + h THEN c - h + 2 ELSE t
  <2>1. Placed(c + 1, u)
        BY <1>6 DEF Placed, OnKey
  <2>2. u \in Int /\ u <= c + 1 /\ c + 1 < u + h
        BY <1>1, <1>2, <1>3
  <2> HIDE DEF u
  <2> QED
      BY <1>1, <1>2, <1>4, <1>6, <2>1, <2>2
<1>7. CASE key = "PageUp"
  <2> DEFINE d == Max({c - h, 1})
             u == Max({t - h, 1})
  <2>1. Placed(d, u)
        BY <1>7 DEF Placed, OnKey
  <2>2. /\ d = IF c - h >= 1 THEN c - h ELSE 1
        /\ u = IF t - h >= 1 THEN t - h ELSE 1
        BY <1>1, MaxOfTwo
  <2> HIDE DEF d, u
  <2>3. d \in 1 .. n /\ u \in Int /\ u <= d /\ d < u + h
        BY <1>1, <1>2, <1>3, <2>2
  <2> QED
      BY <1>1, <1>4, <2>1, <2>3
<1>8. CASE key = "PageDown"
  <2> DEFINE d == Min({c + h, n})
             u == IF t + 2 * h > n THEN LastTop(src) ELSE t + h
  <2>1. Placed(d, u)
        BY <1>8 DEF Placed, OnKey, PagedDown
  <2>2. /\ d = IF c + h <= n THEN c + h ELSE n
        /\ LastTop(src) = IF n - h + 1 >= 1 THEN n - h + 1 ELSE 1
        BY <1>1, MaxOfTwo, MinOfTwo DEF LastTop
  <2>3. u = IF t + 2 * h > n THEN (IF n - h + 1 >= 1 THEN n - h + 1 ELSE 1) ELSE t + h
        BY <2>2
  <2> HIDE DEF d, u
  <2>4. d \in 1 .. n /\ u \in Int /\ u <= d /\ d < u + h
        BY <1>1, <1>2, <1>3, <2>2, <2>3
  <2> QED
      BY <1>1, <1>4, <2>1, <2>4
<1>9. CASE key = "Home"
  <2>1. Placed(1, 1)
        BY <1>9 DEF Placed, OnKey
  <2>2. 1 \in 1 .. n /\ 1 <= 1 /\ 1 < 1 + h
        BY <1>1, <1>2, <1>3
  <2> QED
      BY <1>4, <2>1, <2>2
<1>10. CASE key = "End"
  <2> DEFINE u == LastTop(src)
  <2>1. Placed(n, u)
        BY <1>10 DEF Placed, OnKey
  <2>2. u = IF n - h + 1 >= 1 THEN n - h + 1 ELSE 1
        BY <1>1, MaxOfTwo DEF LastTop
  <2> HIDE DEF u
  <2>3. n \in 1 .. n /\ u \in Int /\ u <= n /\ n < u + h
        BY <1>1, <1>2, <1>3, <2>2
  <2> QED
      BY <1>1, <1>4, <2>1, <2>3
<1>11. CASE key = "g" /\ src.current > 0
  <2> DEFINE s == Scrolled(src, src.current, TRUE)
  <2>1. src' = [s EXCEPT !.cursor = src.current]
        BY <1>11 DEF OnKey
  <2>2. s \in SourceData
        BY <1>1, ScrolledKeeps
  <2>3. src.current \in 1 .. n
        BY <1>1, <1>11
  <2>4. src.current \in Drawn(s)
        BY <1>1, <1>3, <2>3, ScrolledView
  <2> HIDE DEF s
  <2>5. src'.cursor = src.current /\ src'.top = s.top /\ src'.height = s.height /\ src'.count = s.count
        BY <2>1, <2>2 DEF SourceData
  <2> QED
      BY <2>4, <2>5 DEF InView, Drawn
<1>12. CASE src' = src
       BY <1>12
<1> QED
    BY <1>5, <1>6, <1>7, <1>8, <1>9, <1>10, <1>11, <1>12 DEF OnKey

LEMMA ResizedView ==
    ASSUME SourceTyped, NEW height \in Int, src' = Resized(src, height)
    PROVE  /\ src' \in SourceData /\ SameFile
           /\ InView(src) /\ src'.height > 0 => InView(src')
<1> DEFINE t == IF src.cursor < src.top THEN src.cursor
                ELSE IF src.cursor >= src.top + height THEN src.cursor - height + 1
                ELSE src.top
<1>1. src \in SourceData /\ src.count \in Nat /\ src.top \in Int /\ src.cursor \in Int
      BY DEF SourceTyped, SourceData
<1>2. src' = [src EXCEPT !.height = height, !.top = t]
      BY DEF Resized
<1>3. t \in Int /\ (height > 0 => t <= src.cursor /\ src.cursor < t + height)
      BY <1>1
<1> HIDE DEF t
<1>4. /\ src' \in SourceData /\ SameFile /\ src'.height = height /\ src'.top = t
      /\ src'.cursor = src.cursor
      BY <1>1, <1>2, <1>3 DEF SourceData, SameFile
<1> QED
    BY <1>3, <1>4 DEF InView, Drawn, SameFile

LEMMA InnerHeightIsInt ==
    ASSUME NEW screen \in Screens
    PROVE  InnerHeight(screen) \in Int
<1>1. screen \in Nat
      BY SourcePanelAssumption
<1> QED
    BY <1>1 DEF InnerHeight

LEMMA SourceStart ==
    ASSUME SourceInit
    PROVE  SourceTyped
<1>1. PICK follow \in BOOLEAN :
        src = [file |-> NoFile, count |-> 0, top |-> 1, cursor |-> 1, current |-> 0,
               searching |-> FALSE, height |-> -2, follow |-> follow]
      BY DEF SourceInit
<1> QED
    BY <1>1 DEF SourceTyped, SourceData

LEMMA SearchTyped ==
    ASSUME SourceTyped, NEW backward \in BOOLEAN, Search(backward)
    PROVE  SourceTyped'
BY SearchGoes, SameFileTyped DEF SameFile

LEMMA SourceNextTyped ==
    ASSUME SourceTyped, SourceNext
    PROVE  SourceTyped'
<1>1. ASSUME NEW key, src' = OnKey(src, key)
      PROVE  SourceTyped'
      BY <1>1, KeyTyped, SameFileTyped
<1>2. ASSUME NEW screen \in Screens, src' = Resized(src, InnerHeight(screen))
      PROVE  SourceTyped'
      BY <1>2, InnerHeightIsInt, ResizedView, SameFileTyped
<1>3. ASSUME NEW f \in Files, NEW readable \in BOOLEAN, src' = Loaded(src, f, readable)
      PROVE  SourceTyped'
      BY <1>3, LoadedKeeps DEF SourceTyped
<1>4. ASSUME NEW line \in Int, src' = WithCurrent(src, line)
      PROVE  SourceTyped'
  <2>1. src' \in SourceData /\ SameFile
        BY <1>4, MarkedKeeps DEF SourceTyped, SameFile
  <2> QED
      BY <2>1, SameFileTyped
<1>5. ASSUME NEW line \in Int, NEW center \in BOOLEAN, src' = Scrolled(src, line, center)
      PROVE  SourceTyped'
  <2>1. src' \in SourceData /\ SameFile
        BY <1>5, ScrolledKeeps DEF SourceTyped, SameFile
  <2> QED
      BY <2>1, SameFileTyped
<1>6. Lines \subseteq Int
      BY DEF Lines
<1> QED
    BY <1>1, <1>2, <1>3, <1>4, <1>5, <1>6, SearchTyped DEF SourceNext, Press, Layout

\* In a panel that has room for a line and a file that has the current line, a cursor that is
\* drawn is still drawn after every key, every search and every resize, whatever the heights
\* and the lengths (source_panel_handle_key, source_panel_on_resize, md_source_panel_find).
THEOREM CursorKeptInView == SourceSpec => CursorStaysInView
<1> DEFINE Moved == Press \/ Layout \/ \E backward \in BOOLEAN : Search(backward)
           Step == Moved /\ InView(src) /\ src.current <= src.count /\ src'.height > 0 => InView(src')
<1>1. SourceInit => SourceTyped
      BY SourceStart
<1>2. SourceTyped /\ [SourceNext]_src => SourceTyped'
      BY SourceNextTyped DEF SourceTyped
<1>3. SourceTyped => Step
  <2> SUFFICES ASSUME SourceTyped, Moved, InView(src), src.current <= src.count, src'.height > 0
               PROVE  InView(src')
      OBVIOUS
  <2>1. ASSUME NEW backward \in BOOLEAN, Search(backward)
        PROVE  InView(src')
    <3>1. /\ src.count \in Nat /\ src.cursor \in Int /\ src.cursor \in 1 .. src.count
          /\ Matches[src.file] \subseteq 1 .. src.count
          BY <2>1, SourcePanelAssumption DEF SourceTyped, SourceData, InView, Drawn, Search
    <3>2. Candidates(src) \subseteq 1 .. src.count /\ Beyond(src) = {}
          BY <3>1 DEF Candidates, Beyond
    <3>3. src.height > 0 /\ src'.height = src.height /\ src'.count = src.count
          BY <2>1, SearchGoes
    <3> QED
        BY <2>1, <3>1, <3>2, <3>3, SearchGoes DEF InView, Drawn
  <2> QED
      BY <2>1, KeyInView, ResizedView, InnerHeightIsInt DEF Press, Layout
<1>4. SourceTyped => [Step]_src
      BY <1>3
<1> QED
    BY <1>1, <1>2, <1>4, PTL DEF SourceSpec, CursorStaysInView

LEMMA LeastOf ==
    ASSUME NEW T \in SUBSET Nat, T # {}
    PROVE  \A y \in T : Min(T) <= y
<1>1. PICK m \in T : \A y \in T : ~(<<y, m>> \in OpToRel(<, Nat))
      BY NatLessThanWellFounded, WFMin, Zenon
<1>2. \A y \in T : ~(y < m)
      BY <1>1, Zenon DEF OpToRel
<1>3. \A y \in T : m <= y
      BY <1>2
<1> QED
    BY <1>3 DEF Min

\* Distances around the file, for two different lines of it.
LEMMA AroundFile ==
    ASSUME NEW n \in Nat, NEW a \in Int, -n < a, a < n, a # 0
    PROVE  a % n = IF a > 0 THEN a ELSE a + n
<1>1. n \in Nat \ {0}
      OBVIOUS
<1>2. CASE a > 0
      BY <1>1, <1>2
<1>3. CASE a < 0
      BY <1>1, <1>3
<1> QED
    BY <1>2, <1>3

\* A search goes to the nearest other line with the pattern in its direction, wrapping around
\* the end of the file, whatever the file holds (md_source_panel_find).
THEOREM NearestIsFound == SourceSpec => SearchIsNearest
<1> DEFINE Near(backward) ==
              Search(backward) /\ src.cursor \in 1 .. src.count /\ Candidates(src) # {}
              => /\ src'.cursor \in Candidates(src)
                 /\ \A m \in Candidates(src) :
                       Distance(src, src'.cursor, backward) <= Distance(src, m, backward)
           Step == \A backward \in BOOLEAN : Near(backward)
<1>1. SourceInit => SourceTyped
      BY SourceStart
<1>2. SourceTyped /\ [SourceNext]_src => SourceTyped'
      BY SourceNextTyped DEF SourceTyped
<1>3. SourceTyped => Step
  <2> SUFFICES ASSUME SourceTyped, NEW backward \in BOOLEAN, Search(backward),
                      src.cursor \in 1 .. src.count, Candidates(src) # {}
               PROVE  /\ src'.cursor \in Candidates(src)
                      /\ \A m \in Candidates(src) :
                            Distance(src, src'.cursor, backward) <= Distance(src, m, backward)
      OBVIOUS
  <2> DEFINE n == src.count
             c == src.cursor
             C == Candidates(src)
             after == {m \in C : m > c}
             before == {m \in C : m < c}
  <2>1. n \in Nat \ {0} /\ c \in 1 .. n /\ Matches[src.file] \subseteq 1 .. n
        BY SourcePanelAssumption DEF SourceTyped, SourceData, Search
  <2>2. C \subseteq (1 .. n) \ {c} /\ Beyond(src) = {} /\ Beneath(src) = {} /\ C # {}
        BY <2>1 DEF Candidates, Beyond, Beneath
  <2>3. PICK line \in Find(src, backward) : line # 0 => src'.cursor = line
        BY SearchGoes
  <2>4. line = IF backward
               THEN IF before # {} THEN Max(before) ELSE IF after # {} THEN Max(after) ELSE 0
               ELSE IF after # {} THEN Min(after) ELSE IF before # {} THEN Min(before) ELSE 0
        BY <2>2, <2>3 DEF Find
  <2> HIDE DEF C
  <2>5. \A m \in C : m \in 1 .. n /\ m # c /\ (m \in after \/ m \in before)
        BY <2>1, <2>2
  <2>6. /\ after \in SUBSET Nat /\ before \in SUBSET Nat
        /\ after \in SUBSET (0 .. n) /\ before \in SUBSET (0 .. n)
    <3>1. C \subseteq Nat /\ C \subseteq 0 .. n
          BY <2>1, <2>2
    <3> QED
        BY <3>1
  <2>7. /\ \A m \in after : m \in C /\ m > c
        /\ \A m \in before : m \in C /\ m < c
        OBVIOUS
  <2>8. after # {} \/ before # {}
        BY <2>2, <2>5
  <2> HIDE DEF after, before
  <2>9. after # {} => /\ Max(after) \in after /\ Min(after) \in after
                      /\ \A m \in after : m <= Max(after) /\ Min(after) <= m
        BY <2>1, <2>6, GreatestIsThere, LeastIsThere, LeastOf
  <2>10. before # {} => /\ Max(before) \in before /\ Min(before) \in before
                        /\ \A m \in before : m <= Max(before) /\ Min(before) <= m
         BY <2>1, <2>6, GreatestIsThere, LeastIsThere, LeastOf
  <2>11. line \in C
         BY <2>4, <2>7, <2>8, <2>9, <2>10
  <2>12. src'.cursor = line
    <3>1. line # 0
          BY <2>5, <2>11
    <3> QED
        BY <2>3, <3>1
  <2> DEFINE far(m) == IF backward THEN (IF m < c THEN c - m ELSE c - m + n)
                       ELSE (IF m > c THEN m - c ELSE m - c + n)
  <2>13. ASSUME NEW m \in C
         PROVE  Distance(src, m, backward) = far(m)
    <3>1. m \in 1 .. n /\ m # c
          BY <2>5
    <3>2. /\ c - m \in Int /\ -n < c - m /\ c - m < n /\ c - m # 0
          /\ m - c \in Int /\ -n < m - c /\ m - c < n /\ m - c # 0
          BY <2>1, <3>1
    <3>3. /\ (c - m) % n = IF c - m > 0 THEN c - m ELSE c - m + n
          /\ (m - c) % n = IF m - c > 0 THEN m - c ELSE m - c + n
          BY <2>1, <3>2, AroundFile
    <3> QED
        BY <2>1, <3>1, <3>3 DEF Distance
  <2>14. ASSUME NEW m \in C
         PROVE  far(line) <= far(m)
    <3>1. /\ m \in 1 .. n /\ line \in 1 .. n /\ (m \in after \/ m \in before)
          /\ (m \in after => m > c) /\ (m \in before => m < c)
          BY <2>5, <2>7, <2>11
    <3>2. CASE backward /\ before # {}
      <4>1. line < c /\ (m \in before => m <= line)
            BY <2>4, <2>7, <2>10, <3>2
      <4> QED
          BY <2>1, <3>1, <3>2, <4>1
    <3>3. CASE backward /\ before = {}
      <4>1. line > c /\ m > c /\ m <= line
            BY <2>4, <2>7, <2>8, <2>9, <3>1, <3>3
      <4> QED
          BY <2>1, <3>1, <3>3, <4>1
    <3>4. CASE ~backward /\ after # {}
      <4>1. line > c /\ (m \in after => line <= m)
            BY <2>4, <2>7, <2>9, <3>4
      <4> QED
          BY <2>1, <3>1, <3>4, <4>1
    <3>5. CASE ~backward /\ after = {}
      <4>1. line < c /\ m < c /\ line <= m
            BY <2>4, <2>7, <2>8, <2>10, <3>1, <3>5
      <4> QED
          BY <2>1, <3>1, <3>5, <4>1
    <3> QED
        BY <3>2, <3>3, <3>4, <3>5
  <2> QED
      BY <2>11, <2>12, <2>13, <2>14 DEF C
<1>4. SourceTyped => [Step]_src
      BY <1>3
<1> QED
    BY <1>1, <1>2, <1>4, PTL DEF SourceSpec, SearchIsNearest

-----------------------------------------------------------------------------
(* The call stack panel.                                                    *)

Frames == [file : Files \cup {NoFile}, line : Nat]

ListTyped ==
    /\ SourceTyped
    /\ lists \in [ListNames -> [count : 0 .. MaxItems, selected : 0 .. (MaxItems - 1)]]
    /\ frames \in [0 .. (MaxItems - 1) -> Frames]

LEMMA ShownTyped ==
    ASSUME SourceTyped, NEW frame \in Frames, NEW readable \in BOOLEAN, frame.file = NoFile => ~readable
    PROVE  LET t == ShownFrame(src, frame, readable)
           IN  /\ t \in SourceData /\ t.current = frame.line
               /\ t.count > 0 => t.file = frame.file /\ t.file \in Files /\ t.count = Length[t.file]
               /\ t.height > 0 /\ frame.line \in 1 .. t.count => frame.line \in Drawn(t)
<1> DEFINE a == Loaded(src, frame.file, readable)
           b == Scrolled(a, frame.line, TRUE)
           t == WithCurrent(b, frame.line)
<1>1. frame.file \in Files \cup {NoFile} /\ frame.line \in Nat /\ src \in SourceData
      /\ (readable => frame.file \in Files)
      BY DEF Frames, SourceTyped
<1>2. /\ a \in SourceData /\ a.height = src.height
      /\ a.count > 0 => a.file = frame.file /\ frame.file \in Files /\ a.count = Length[frame.file]
      BY <1>1, LoadedKeeps
<1> HIDE DEF a
<1>3. /\ b \in SourceData /\ b.file = a.file /\ b.count = a.count /\ b.height = a.height
      /\ b.height > 0 /\ frame.line \in 1 .. b.count => frame.line \in Drawn(b)
  <2>1. frame.line \in Int
        BY <1>1
  <2>2. /\ b \in SourceData /\ b.file = a.file /\ b.count = a.count /\ b.height = a.height
        BY <1>2, <2>1, ScrolledKeeps
  <2>3. a.height > 0 /\ frame.line \in 1 .. a.count => frame.line \in Drawn(b)
        BY <1>2, <2>1, ScrolledView
  <2> QED
      BY <2>2, <2>3
<1> HIDE DEF b
<1>4. /\ t \in SourceData /\ t.file = b.file /\ t.count = b.count /\ t.current = frame.line
      /\ t.height = b.height
      BY <1>1, <1>3, MarkedKeeps
<1>5. ASSUME t.height > 0, frame.line \in 1 .. t.count
      PROVE  frame.line \in Drawn(t)
  <2> DEFINE marked == [b EXCEPT !.current = frame.line]
  <2>1. /\ marked \in SourceData /\ marked.count = b.count /\ marked.height = b.height
        /\ marked.top = b.top
        BY <1>1, <1>3 DEF SourceData
  <2>2. t = marked \/ t = Scrolled(marked, frame.line, TRUE)
        BY DEF WithCurrent
  <2> HIDE DEF marked
  <2>3. CASE t = marked
        BY <1>3, <1>4, <1>5, <2>1, <2>3 DEF Drawn
  <2>4. CASE t = Scrolled(marked, frame.line, TRUE)
    <3>1. marked.height > 0 /\ frame.line \in 1 .. marked.count /\ frame.line \in Int
          BY <1>4, <1>5, <2>1
    <3>2. frame.line \in Drawn(Scrolled(marked, frame.line, TRUE))
          BY <2>1, <3>1, ScrolledView
    <3> QED
        BY <2>4, <3>2
  <2> QED
      BY <2>2, <2>3, <2>4
<1>6. t = ShownFrame(src, frame, readable)
      BY DEF ShownFrame, a, b
<1> HIDE DEF t
<1> QED
    BY <1>2, <1>3, <1>4, <1>5, <1>6

LEMMA ListStart ==
    ASSUME SourceInit, ListInit
    PROVE  ListTyped
BY SourceStart, ListPanelsAssumption DEF ListInit, ListTyped, Frames, ZeroFrame

LEMMA MoveTyped ==
    ASSUME ListTyped, NEW l \in ListNames, Move(l)
    PROVE  ListTyped'
<1>1. UNCHANGED <<src, frames>> /\ MaxItems \in Nat \ {0}
      BY ListPanelsAssumption DEF Move
<1>2. lists[l] \in [count : 0 .. MaxItems, selected : 0 .. (MaxItems - 1)]
      BY DEF ListTyped
<1>3. PICK k \in 0 .. (MaxItems - 1) : lists' = [lists EXCEPT ![l].selected = k]
      BY <1>1, <1>2 DEF Move
<1>4. lists' \in [ListNames -> [count : 0 .. MaxItems, selected : 0 .. (MaxItems - 1)]]
      BY <1>3 DEF ListTyped
<1> QED
    BY <1>1, <1>4 DEF ListTyped, SourceTyped

LEMMA CountedTyped ==
    ASSUME ListTyped, NEW l \in ListNames, NEW n \in 0 .. MaxItems, Counted(l, n)
    PROVE  lists' \in [ListNames -> [count : 0 .. MaxItems, selected : 0 .. (MaxItems - 1)]]
BY DEF Counted, ListTyped

LEMMA ListedTyped ==
    ASSUME ListTyped, NEW stack \in Stacks, Listed(stack), UNCHANGED src
    PROVE  ListTyped'
<1> DEFINE F == [file : Files, line : Nat]
<1>0. F \subseteq Frames
      BY DEF Frames
<1>1. stack \in Seq(F) /\ Len(stack) \in 0 .. MaxItems
  <2>1. stack \in Seq(F) /\ Len(stack) <= MaxItems /\ MaxItems \in Nat
        BY ListPanelsAssumption
  <2> HIDE DEF F
  <2>2. Len(stack) \in Nat
        BY <2>1, LenProperties
  <2> QED
      BY <2>1, <2>2
<1> HIDE DEF F
<1>2. lists' \in [ListNames -> [count : 0 .. MaxItems, selected : 0 .. (MaxItems - 1)]]
      BY <1>1, CountedTyped DEF Listed, ListNames
<1>3. \A k \in 1 .. Len(stack) : stack[k] \in Frames
      BY <1>0, <1>1, ElementOfSeq
<1>4. frames' \in [0 .. (MaxItems - 1) -> Frames]
      BY <1>1, <1>3 DEF Listed, ListTyped
<1> QED
    BY <1>2, <1>4 DEF ListTyped, SourceTyped

LEMMA EnterTyped ==
    ASSUME ListTyped, NEW readable \in BOOLEAN, CallstackEnter(readable)
    PROVE  ListTyped'
<1> DEFINE frame == frames[lists["callstack"].selected]
           r == readable /\ frame.file # NoFile
<1>1. src' = ShownFrame(src, frame, r) /\ UNCHANGED <<lists, frames>>
      BY DEF CallstackEnter
<1>2. frame \in Frames
      BY DEF ListTyped, ListNames
<1>3. r \in BOOLEAN /\ (frame.file = NoFile => ~r)
      OBVIOUS
<1> HIDE DEF frame, r
<1>4. /\ src' \in SourceData
      /\ src'.count > 0 => src'.file \in Files /\ src'.count = Length[src'.file]
      BY <1>1, <1>2, <1>3, ShownTyped DEF ListTyped
<1> QED
    BY <1>1, <1>4 DEF ListTyped, SourceTyped

\* Entering a listed frame shows the frame that becomes active: its file is loaded, the
\* execution marker is on its line, and if the file could be read and has the line, the line is
\* in view (callstack_panel_handle_key, md_source_panel_load_file, scroll_to_line).
THEOREM EnteredIsShown == ListSpec => EnterShowsActive
<1> DEFINE Next == ListNext \/ (SourceNext /\ UNCHANGED listVars)
           Shows(readable) ==
              CallstackEnter(readable) /\ lists["callstack"].selected < lists["callstack"].count
              => /\ src'.current = activeFrame'.line
                 /\ src'.count > 0 => src'.file = activeFrame'.file
                 /\ src'.height > 0 /\ src'.current \in 1 .. src'.count => src'.current \in Drawn(src')
           Step == \A readable \in BOOLEAN : Shows(readable)
<1>1. SourceInit /\ ListInit => ListTyped
      BY ListStart
<1>2. ListTyped /\ [Next]_<<src, listVars>> => ListTyped'
  <2> SUFFICES ASSUME ListTyped, [Next]_<<src, listVars>> PROVE ListTyped'
      OBVIOUS
  <2>1. CASE ListNext
    <3>1. ASSUME NEW n \in 0 .. MaxItems, ThreadUpdate(n)
          PROVE  ListTyped'
          BY <3>1, CountedTyped DEF ThreadUpdate, ListNames, ListTyped, SourceTyped
    <3>2. ASSUME NEW stack \in Stacks, CallstackUpdate(stack) \/ ThreadEnter(stack)
          PROVE  ListTyped'
          BY <3>2, ListedTyped DEF CallstackUpdate, ThreadEnter
    <3> QED
        BY <2>1, <3>1, <3>2, MoveTyped, EnterTyped DEF ListNext
  <2>2. CASE SourceNext /\ UNCHANGED listVars
        BY <2>2, SourceNextTyped DEF ListTyped, listVars
  <2>3. CASE UNCHANGED <<src, listVars>>
        BY <2>3 DEF ListTyped, SourceTyped, listVars
  <2> QED
      BY <2>1, <2>2, <2>3
<1>3. ListTyped => Step
  <2> SUFFICES ASSUME ListTyped, NEW readable \in BOOLEAN, CallstackEnter(readable),
                      lists["callstack"].selected < lists["callstack"].count
               PROVE  /\ src'.current = activeFrame'.line
                      /\ src'.count > 0 => src'.file = activeFrame'.file
                      /\ src'.height > 0 /\ src'.current \in 1 .. src'.count
                         => src'.current \in Drawn(src')
      OBVIOUS
  <2> DEFINE frame == frames[lists["callstack"].selected]
             r == readable /\ frame.file # NoFile
  <2>1. src' = ShownFrame(src, frame, r) /\ activeFrame' = frame
        BY DEF CallstackEnter
  <2>2. frame \in Frames
        BY DEF ListTyped, ListNames
  <2>3. r \in BOOLEAN /\ (frame.file = NoFile => ~r)
        OBVIOUS
  <2> HIDE DEF frame, r
  <2> QED
      BY <2>1, <2>2, <2>3, ShownTyped DEF ListTyped
<1>4. ListTyped => [Step]_<<src, listVars>>
      BY <1>3
<1> QED
    BY <1>1, <1>2, <1>4, PTL DEF ListSpec, EnterShowsActive

-----------------------------------------------------------------------------
(* The output panel.                                                        *)

\* The ring has been filled, or starts at its beginning.
RingTyped ==
    /\ lines \in [Slots -> Nat] /\ count \in 0 .. MaxLines /\ startIndex \in Slots
    /\ written \in Nat /\ scrollOffset \in Int /\ outputHeight \in Int
    /\ IF count < MaxLines THEN startIndex = 0 /\ written = count ELSE written >= MaxLines
    /\ written <= MaxLines => startIndex = 0

Latest == \A k \in 0 .. (count - 1) : lines[(startIndex + k) % MaxLines] = written - count + 1 + k

RingKept == RingTyped /\ Latest

\* Places in the ring, at most once around it.
LEMMA OnceAround ==
    ASSUME NEW m, NEW s, NEW k, m \in Nat, s \in Nat, k \in Nat, s + k < m + m
    PROVE  (s + k) % m = IF s + k < m THEN s + k ELSE s + k - m
<1>1. CASE s + k < m
      BY <1>1
<1>2. CASE s + k >= m
      BY <1>2
<1> QED
    BY <1>1, <1>2

LEMMA LatestAt ==
    ASSUME RingKept, NEW k, k \in 0 .. (count - 1)
    PROVE  /\ lines[IF startIndex + k < MaxLines THEN startIndex + k ELSE startIndex + k - MaxLines]
                 = written - count + 1 + k
           /\ (startIndex + k) % MaxLines
                 = IF startIndex + k < MaxLines THEN startIndex + k ELSE startIndex + k - MaxLines
<1>1. MaxLines \in Nat \ {0} /\ count \in 0 .. MaxLines /\ startIndex \in 0 .. (MaxLines - 1)
      BY OutputPanelAssumption DEF RingKept, RingTyped, Slots
<1>2. MaxLines \in Nat /\ startIndex \in Nat /\ k \in Nat /\ startIndex + k < MaxLines + MaxLines
      BY <1>1
<1>3. (startIndex + k) % MaxLines
         = IF startIndex + k < MaxLines THEN startIndex + k ELSE startIndex + k - MaxLines
      BY <1>2, OnceAround
<1>4. lines[(startIndex + k) % MaxLines] = written - count + 1 + k
      BY DEF RingKept, Latest
<1> QED
    BY <1>3, <1>4

LEMMA RingStart ==
    ASSUME OutputInit
    PROVE  RingKept
<1>1. MaxLines \in Nat \ {0} /\ Heights \subseteq Int
      BY OutputPanelAssumption
<1>2. count = 0 /\ startIndex = 0 /\ written = 0 /\ scrollOffset = 0 /\ outputHeight \in Heights
      /\ lines = [k \in Slots |-> 0]
      BY DEF OutputInit
<1>3. RingTyped
      BY <1>1, <1>2 DEF RingTyped, Slots
<1>4. Latest
      BY <1>2 DEF Latest
<1> QED
    BY <1>3, <1>4 DEF RingKept

LEMMA ClearRing ==
    ASSUME RingKept, ClearOutput
    PROVE  RingKept'
<1>1. MaxLines \in Nat \ {0} /\ outputHeight \in Int
      BY OutputPanelAssumption DEF RingKept, RingTyped
<1>2. count' = 0 /\ startIndex' = 0 /\ written' = 0 /\ scrollOffset' = 0
      /\ outputHeight' = outputHeight /\ lines' = [k \in Slots |-> 0]
      BY DEF ClearOutput
<1>3. RingTyped'
      BY <1>1, <1>2 DEF RingTyped, Slots
<1>4. Latest'
      BY <1>2 DEF Latest
<1> QED
    BY <1>3, <1>4 DEF RingKept

LEMMA ScrollRing ==
    ASSUME RingKept, Scroll
    PROVE  RingKept'
<1>1. UNCHANGED <<lines, count, startIndex, outputHeight, written>> /\ OutputKey
      BY DEF Scroll
<1>2. scrollOffset \in Int /\ outputHeight \in Int /\ count \in Int
      BY OutputPanelAssumption DEF RingKept, RingTyped
<1>3. Max({count - outputHeight, 0}) \in Int /\ Max({scrollOffset - outputHeight, 0}) \in Int
      BY <1>2, MaxOfTwo
<1>4. scrollOffset' \in Int
      BY <1>1, <1>2, <1>3 DEF OutputKey
<1> QED
    BY <1>1, <1>4 DEF RingKept, RingTyped, Latest

\* A line goes to the end of what has been written, over the oldest when the ring is full.
LEMMA AddLineRing ==
    ASSUME RingKept, AddLine
    PROVE  RingKept'
<1> DEFINE M == MaxLines
           at(k) == IF startIndex' + k < M THEN startIndex' + k ELSE startIndex' + k - M
<1>1. M \in Nat \ {0} /\ count \in 0 .. M /\ startIndex \in 0 .. (M - 1) /\ written \in Nat
      /\ lines \in [0 .. (M - 1) -> Nat] /\ Slots = 0 .. (M - 1)
      BY OutputPanelAssumption DEF RingKept, RingTyped, Slots
<1>2. written' = written + 1 /\ UNCHANGED <<scrollOffset, outputHeight>>
      BY DEF AddLine
<1>3. CASE count < M
  <2>1. count' = count + 1 /\ startIndex' = startIndex /\ lines' = [lines EXCEPT ![count] = written']
        BY <1>3 DEF AddLine
  <2>2. startIndex = 0 /\ written = count
        BY <1>3 DEF RingKept, RingTyped
  <2>3. RingTyped'
        BY <1>1, <1>2, <1>3, <2>1, <2>2 DEF RingKept, RingTyped
  <2>4. ASSUME NEW k \in 0 .. count
        PROVE  lines'[at(k)] = written' - count' + 1 + k
    <3>1. at(k) = k
          BY <1>1, <1>3, <2>1, <2>2, <2>4
    <3>2. CASE k = count
          BY <1>1, <1>2, <1>3, <2>1, <2>2, <3>1, <3>2
    <3>3. CASE k < count
      <4>0. lines[IF startIndex + k < M THEN startIndex + k ELSE startIndex + k - M]
                = written - count + 1 + k
        <5>1. k \in 0 .. (count - 1)
              BY <1>1, <2>4, <3>3
        <5> QED
            BY <5>1, LatestAt
      <4>1. lines[k] = written - count + 1 + k
            BY <1>1, <1>3, <2>2, <2>4, <3>3, <4>0
      <4> QED
          BY <1>1, <1>2, <1>3, <2>1, <2>2, <2>4, <3>1, <3>3, <4>1
    <3> QED
        BY <1>1, <2>4, <3>2, <3>3
  <2>5. ASSUME NEW k \in 0 .. count
        PROVE  (startIndex' + k) % M = at(k)
    <3>1. M \in Nat /\ startIndex' \in Nat /\ k \in Nat /\ startIndex' + k < M + M
          BY <1>1, <1>3, <2>1, <2>2
    <3> QED
        BY <3>1, OnceAround
  <2> HIDE DEF at
  <2>6. Latest'
    <3>1. \A k \in 0 .. count :
             lines'[(startIndex' + k) % M] = written' - count' + 1 + k
          BY <2>4, <2>5
    <3>2. 0 .. (count' - 1) = 0 .. count
          BY <1>1, <2>1
    <3> QED
        BY <3>1, <3>2 DEF Latest
  <2> QED
      BY <2>3, <2>6 DEF RingKept
<1>4. CASE count = M
  <2>1. /\ count' = M /\ startIndex' = (startIndex + 1) % M
        /\ lines' = [lines EXCEPT ![startIndex] = written']
    <3>1. ~(count < MaxLines)
          BY <1>1, <1>4
    <3> QED
        BY <1>4, <3>1 DEF AddLine
  <2>2. startIndex' = IF startIndex + 1 < M THEN startIndex + 1 ELSE 0
    <3>1. M \in Nat /\ startIndex \in Nat /\ startIndex + 1 < M + M
          BY <1>1
    <3>2. (startIndex + 1) % M = IF startIndex + 1 < M THEN startIndex + 1 ELSE startIndex + 1 - M
          BY <3>1, OnceAround
    <3> QED
        BY <1>1, <2>1, <3>2
  <2>3. written >= M
        BY <1>1, <1>4 DEF RingKept, RingTyped
  <2>4. lines' \in [0 .. (M - 1) -> Nat]
        BY <1>1, <1>2, <2>1
  <2>5. RingTyped'
        BY <1>1, <1>2, <2>1, <2>2, <2>3, <2>4 DEF RingKept, RingTyped
  <2>6. ASSUME NEW k \in 0 .. (M - 1)
        PROVE  lines'[at(k)] = written' - M + 1 + k
    <3>1. CASE k = M - 1
      <4>1. at(k) = startIndex
            BY <1>1, <2>2, <3>1
      <4> QED
          BY <1>1, <1>2, <2>1, <3>1, <4>1
    <3>2. CASE k < M - 1
      <4> DEFINE old == IF startIndex + (k + 1) < M THEN startIndex + (k + 1) ELSE startIndex + (k + 1) - M
      <4>1. at(k) = old /\ old # startIndex /\ old \in 0 .. (M - 1)
            BY <1>1, <2>2, <2>6, <3>2
      <4>2. k + 1 \in 0 .. (count - 1)
            BY <1>1, <1>4, <2>6, <3>2
      <4>3. lines[old] = written - count + 1 + (k + 1)
            BY <4>2, LatestAt
      <4> HIDE DEF old, at
      <4>4. lines'[at(k)] = written - count + 1 + (k + 1)
            BY <1>1, <2>1, <4>1, <4>3
      <4> QED
          BY <1>1, <1>2, <1>4, <2>6, <4>4
    <3> QED
        BY <1>1, <2>6, <3>1, <3>2
  <2>7. ASSUME NEW k \in 0 .. (M - 1)
        PROVE  (startIndex' + k) % M = at(k)
    <3>1. M \in Nat /\ startIndex' \in Nat /\ k \in Nat /\ startIndex' + k < M + M
          BY <1>1, <2>2
    <3> QED
        BY <3>1, OnceAround
  <2> HIDE DEF at
  <2>8. Latest'
        BY <2>1, <2>6, <2>7 DEF Latest
  <2> QED
      BY <2>5, <2>8 DEF RingKept
<1> QED
    BY <1>1, <1>3, <1>4

LEMMA OutputKept ==
    ASSUME RingKept, [OutputNext]_outputVars
    PROVE  RingKept'
<1>1. CASE UNCHANGED outputVars
      BY <1>1 DEF outputVars, RingKept, RingTyped, Latest
<1> QED
    BY <1>1, AddLineRing, ClearRing, ScrollRing DEF OutputNext

\* What is drawn before the ring has wrapped.
LEMMA RenderedLines ==
    ASSUME RingKept, written <= MaxLines, outputHeight > 0, Rendered # <<>>
    PROVE  /\ \A k \in 1 .. (Len(Rendered) - 1) : Rendered[k + 1] = Rendered[k] + 1
           /\ scrollOffset = 0 => Last(Rendered) = written
<1> DEFINE start == Max({count - outputHeight - scrollOffset, 0})
           last == Min({start + outputHeight, count}) - 1
           n == last - start + 1
<1>1. MaxLines \in Nat \ {0} /\ count \in 0 .. MaxLines /\ scrollOffset \in Int /\ outputHeight \in Int
      /\ written = count /\ startIndex = 0
      BY OutputPanelAssumption DEF RingKept, RingTyped
<1>2. Rendered = [k \in 1 .. n |-> lines[start + k - 1]]
      BY DEF Rendered
<1>3. start = IF count - outputHeight - scrollOffset >= 0 THEN count - outputHeight - scrollOffset ELSE 0
      BY <1>1, MaxOfTwo
<1>4. start \in Nat
      BY <1>1, <1>3
<1> HIDE DEF start
<1>5. last = (IF start + outputHeight <= count THEN start + outputHeight ELSE count) - 1
      BY <1>1, <1>4, MinOfTwo
<1> HIDE DEF last
<1>6. n \in Int /\ start + n <= count /\ (scrollOffset = 0 => start + n = count)
      BY <1>1, <1>3, <1>4, <1>5
<1> HIDE DEF n
<1>7. ASSUME NEW k \in 1 .. n
      PROVE  lines[start + k - 1] = start + k
  <2>1. start + k - 1 \in 0 .. (count - 1) /\ start + k - 1 < MaxLines
        BY <1>1, <1>4, <1>6, <1>7
  <2> DEFINE j == start + k - 1
  <2>2. lines[IF startIndex + j < MaxLines THEN startIndex + j ELSE startIndex + j - MaxLines]
          = written - count + 1 + j
        BY <2>1, LatestAt
  <2>3. lines[j] = written - count + 1 + j
        BY <1>1, <2>1, <2>2
  <2> QED
      BY <1>1, <1>4, <1>6, <2>3
<1>8. \A k \in 1 .. n : Rendered[k] = start + k
      BY <1>2, <1>7
<1>9. n > 0
  <2>1. ASSUME n <= 0
        PROVE  FALSE
    <3>1. 1 .. n = 1 .. 0
          BY <1>6, <2>1
    <3>2. Rendered \in [1 .. 0 -> Nat]
          BY <1>2, <3>1
    <3>3. Rendered \in Seq(Nat) /\ Len(Rendered) = 0
          BY <3>2, SeqDef, LenProperties
    <3> QED
        BY <3>3, EmptySeq
  <2> QED
      BY <1>6, <2>1
<1>10. Len(Rendered) = n
  <2>1. Rendered \in [1 .. n -> Nat] /\ n \in Nat
    <3>1. \A k \in 1 .. n : start + k \in Nat
          BY <1>4, <1>6
    <3>2. n \in Nat
          BY <1>6, <1>9
    <3> QED
        BY <1>2, <1>7, <3>1, <3>2
  <2> QED
      BY <2>1, SeqDef, LenProperties
<1>11. Last(Rendered) = start + n
       BY <1>6, <1>8, <1>9, <1>10 DEF Last
<1> QED
    BY <1>1, <1>4, <1>6, <1>8, <1>9, <1>10, <1>11

LEMMA LatestLines ==
    ASSUME RingKept
    PROVE  BufferKeepsLatest
<1>1. MaxLines \in Nat \ {0} /\ count \in 0 .. MaxLines /\ written \in Nat
      /\ IF count < MaxLines THEN written = count ELSE written >= MaxLines
      BY OutputPanelAssumption DEF RingKept, RingTyped
<1>2. Min({written, MaxLines}) = IF written <= MaxLines THEN written ELSE MaxLines
      BY <1>1, MinOfTwo
<1>3. count = Min({written, MaxLines})
      BY <1>1, <1>2
<1> QED
    BY <1>3, RenderedLines DEF BufferKeepsLatest, RingKept, Latest

-----------------------------------------------------------------------------
(* The command history.                                                     *)

\* The n-th of the commands repeats none just before it.
Newer(e, n) == n = 1 \/ e[n] # e[n - 1]

\* The places in e of the commands that h holds.
Places(h, e, at) ==
    /\ at \in [DOMAIN h -> DOMAIN e]
    /\ \A k \in DOMAIN h : h[k] = e[at[k]] /\ Newer(e, at[k])
    /\ \A j, k \in DOMAIN h : j < k => at[j] < at[k]
    /\ \A n \in DOMAIN e : Newer(e, n) =>
          \/ \E k \in DOMAIN h : at[k] = n
          \/ Len(h) = MaxHistory /\ n < at[1]

\* The history ends with the last command entered.
HistoryKept ==
    /\ history \in Seq(CommandLines) /\ entered \in Seq(CommandLines)
    /\ Len(history) <= MaxHistory
    /\ \E at : Places(history, entered, at)
    /\ entered # <<>> => history # <<>> /\ Last(history) = Last(entered)

\* One more command was entered.
LEMMA OneMore ==
    ASSUME NEW S, NEW s \in Seq(S), NEW c \in S
    PROVE  LET t == Append(s, c)
           IN  /\ t \in Seq(S) /\ Len(s) \in Nat /\ Len(t) = Len(s) + 1
               /\ DOMAIN s = 1 .. Len(s) /\ DOMAIN t = 1 .. (Len(s) + 1)
               /\ \A k \in 1 .. Len(s) : t[k] = s[k]
               /\ t[Len(s) + 1] = c /\ t # <<>> /\ Last(t) = c
<1> DEFINE t == Append(s, c)
<1>1. /\ t \in Seq(S) /\ Len(s) \in Nat /\ Len(t) = Len(s) + 1 /\ DOMAIN s = 1 .. Len(s)
      /\ \A k \in 1 .. Len(s) : t[k] = s[k]
      /\ t[Len(s) + 1] = c
      BY AppendProperties, LenProperties
<1> HIDE DEF t
<1>2. DOMAIN t = 1 .. (Len(s) + 1)
      BY <1>1, LenProperties
<1>3. t # <<>>
  <2>1. Len(t) # 0
        BY <1>1
  <2> QED
      BY <1>1, <2>1, EmptySeq
<1>4. Last(t) = c
      BY <1>1 DEF Last
<1> QED
    BY <1>1, <1>2, <1>3, <1>4 DEF t

LEMMA StillNewer ==
    ASSUME NEW S, NEW e \in Seq(S), NEW c \in S, NEW n \in DOMAIN e
    PROVE  Newer(Append(e, c), n) <=> Newer(e, n)
<1> DEFINE f == Append(e, c)
<1>1. /\ Len(e) \in Nat /\ DOMAIN e = 1 .. Len(e)
      /\ \A k \in 1 .. Len(e) : f[k] = e[k]
      BY OneMore
<1> HIDE DEF f
<1>2. n \in 1 .. Len(e) /\ (n # 1 => n - 1 \in 1 .. Len(e))
      BY <1>1
<1>3. f[n] = e[n] /\ (n # 1 => f[n - 1] = e[n - 1])
      BY <1>1, <1>2
<1>4. Newer(f, n) <=> Newer(e, n)
      BY <1>3 DEF Newer
<1> QED
    BY <1>4 DEF f

\* The command repeats the last one: the places are the same.
LEMMA RepeatedPlaces ==
    ASSUME NEW S, NEW e \in Seq(S), NEW c \in S, NEW h, NEW at, Places(h, e, at),
           e # <<>>, Last(e) = c
    PROVE  Places(h, Append(e, c), at)
<1> DEFINE f == Append(e, c)
           n == Len(e)
<1>1. /\ n \in Nat /\ DOMAIN e = 1 .. n /\ DOMAIN f = 1 .. (n + 1)
      /\ \A k \in 1 .. n : f[k] = e[k]
      /\ f[n + 1] = c
      BY OneMore
<1>2. \A k \in DOMAIN e : Newer(f, k) <=> Newer(e, k)
      BY StillNewer
<1>3. n # 0
      BY EmptySeq
<1> HIDE DEF f
<1>4. ~Newer(f, n + 1)
  <2>1. n \in 1 .. n /\ n + 1 # 1 /\ (n + 1) - 1 = n
        BY <1>1, <1>3
  <2>2. f[n] = c
        BY <1>1, <2>1 DEF Last
  <2> QED
      BY <1>1, <2>1, <2>2 DEF Newer
<1>5. at \in [DOMAIN h -> DOMAIN f]
  <2>1. DOMAIN e \subseteq DOMAIN f
        BY <1>1
  <2> QED
      BY <2>1 DEF Places
<1>6. ASSUME NEW k \in DOMAIN h
      PROVE  h[k] = f[at[k]] /\ Newer(f, at[k])
  <2>1. at[k] \in DOMAIN e /\ h[k] = e[at[k]] /\ Newer(e, at[k])
        BY DEF Places
  <2> QED
      BY <1>1, <1>2, <2>1
<1>7. \A j, k \in DOMAIN h : j < k => at[j] < at[k]
      BY DEF Places
<1>8. ASSUME NEW m \in DOMAIN f, Newer(f, m)
      PROVE  (\E k \in DOMAIN h : at[k] = m) \/ (Len(h) = MaxHistory /\ m < at[1])
  <2>1. m \in DOMAIN e
        BY <1>1, <1>4, <1>8
  <2> QED
      BY <1>2, <1>8, <2>1 DEF Places
<1>9. Places(h, f, at)
      BY <1>5, <1>6, <1>7, <1>8 DEF Places
<1> QED
    BY <1>9 DEF f

\* The command is new: the places of those kept, d of them dropped, and its own.
LEMMA NewPlaces ==
    ASSUME NEW S, NEW e \in Seq(S), NEW c \in S, NEW h \in Seq(S), NEW at, Places(h, e, at),
           e = <<>> \/ Last(e) # c,
           NEW d, d = 0 \/ d = 1, d <= Len(h), d = 1 => Len(h) = MaxHistory,
           NEW g \in Seq(S), Len(g) = Len(h) - d + 1,
           \A k \in 1 .. (Len(h) - d) : g[k] = h[k + d], g[Len(g)] = c,
           Len(h) <= MaxHistory, MaxHistory \in Nat, Len(g) <= MaxHistory
    PROVE  \E to : Places(g, Append(e, c), to)
<1> DEFINE f == Append(e, c)
           n == Len(e)
           l == Len(h) - d
           to == [k \in 1 .. (l + 1) |-> IF k <= l THEN at[k + d] ELSE n + 1]
<1>1. /\ n \in Nat /\ DOMAIN e = 1 .. n /\ DOMAIN f = 1 .. (n + 1)
      /\ \A k \in 1 .. n : f[k] = e[k]
      /\ f[n + 1] = c
      BY OneMore
<1>2. \A k \in DOMAIN e : Newer(f, k) <=> Newer(e, k)
      BY StillNewer
<1>3. Newer(f, n + 1)
  <2>1. CASE n = 0
        BY <2>1 DEF Newer
  <2>2. CASE n # 0
    <3>1. e # <<>>
          BY <2>2, EmptySeq
    <3>2. n \in 1 .. n /\ (n + 1) - 1 = n
          BY <1>1, <2>2
    <3>3. f[n] = Last(e)
          BY <1>1, <3>2 DEF Last
    <3> QED
        BY <1>1, <3>1, <3>2, <3>3 DEF Newer
  <2> QED
      BY <2>1, <2>2
<1> HIDE DEF f
<1>4. /\ l \in Nat /\ Len(h) = l + d /\ DOMAIN h = 1 .. (l + d) /\ DOMAIN g = 1 .. (l + 1)
      /\ Len(g) = l + 1 /\ (d = 0 \/ d = 1) /\ d \in Nat
  <2>1. Len(h) \in Nat /\ DOMAIN h = 1 .. Len(h) /\ DOMAIN g = 1 .. Len(g)
        BY LenProperties
  <2> DEFINE m == Len(h)
  <2>2. m \in Nat /\ l = m - d /\ d <= m /\ (d = 0 \/ d = 1)
        BY <2>1
  <2>3. DOMAIN h = 1 .. m /\ DOMAIN g = 1 .. Len(g) /\ Len(g) = l + 1
        BY <2>1
  <2> HIDE DEF m, l
  <2>4. l \in Nat /\ m = l + d /\ d \in Nat
        BY <2>2
  <2> QED
      BY <2>2, <2>3, <2>4 DEF m
<1>5. \A k \in 1 .. l : k + d \in DOMAIN h /\ g[k] = h[k + d]
  <2>1. \A k \in 1 .. l : g[k] = h[k + d]
        OBVIOUS
  <2> HIDE DEF l
  <2>2. \A k \in 1 .. l : k + d \in DOMAIN h
        BY <1>4
  <2> QED
      BY <2>1, <2>2
<1> HIDE DEF l
<1>6. \A k \in DOMAIN h : at[k] \in 1 .. n /\ h[k] = e[at[k]] /\ Newer(e, at[k])
      BY <1>1 DEF Places
<1>7. \A k \in 1 .. l : to[k] = at[k + d]
      BY <1>4
<1>8. to[l + 1] = n + 1
      BY <1>4
<1>9. to \in [DOMAIN g -> DOMAIN f]
  <2>1. \A k \in 1 .. (l + 1) : (IF k <= l THEN at[k + d] ELSE n + 1) \in 1 .. (n + 1)
    <3> SUFFICES ASSUME NEW k \in 1 .. (l + 1)
                 PROVE  (IF k <= l THEN at[k + d] ELSE n + 1) \in 1 .. (n + 1)
        OBVIOUS
    <3>1. CASE k <= l
      <4>1. k \in 1 .. l
            BY <1>4, <3>1
      <4>2. at[k + d] \in 1 .. n
            BY <1>5, <1>6, <4>1
      <4> QED
          BY <1>1, <3>1, <4>2
    <3>2. CASE ~(k <= l)
          BY <1>1, <3>2
    <3> QED
        BY <3>1, <3>2
  <2> QED
      BY <1>1, <1>4, <2>1
<1> HIDE DEF to
<1>10. ASSUME NEW k \in DOMAIN g
       PROVE  g[k] = f[to[k]] /\ Newer(f, to[k])
  <2>1. CASE k \in 1 .. l
    <3>1. k + d \in DOMAIN h /\ g[k] = h[k + d] /\ to[k] = at[k + d]
          BY <1>5, <1>7, <2>1
    <3>2. to[k] \in 1 .. n /\ g[k] = e[to[k]] /\ Newer(e, to[k])
          BY <1>6, <3>1
    <3> QED
        BY <1>1, <1>2, <3>2
  <2>2. CASE k = l + 1
        BY <1>1, <1>3, <1>4, <1>8, <2>2
  <2> QED
      BY <1>4, <1>10, <2>1, <2>2
<1>11. ASSUME NEW j \in DOMAIN g, NEW k \in DOMAIN g, j < k
       PROVE  to[j] < to[k]
  <2>1. j \in 1 .. l /\ j + d \in DOMAIN h /\ to[j] = at[j + d]
    <3>1. j \in 1 .. l
          BY <1>4, <1>11
    <3> QED
        BY <1>5, <1>7, <3>1
  <2>2. CASE k \in 1 .. l
    <3>0. k + d \in DOMAIN h /\ to[k] = at[k + d]
          BY <1>5, <1>7, <2>2
    <3>1. k + d \in DOMAIN h /\ to[k] = at[k + d] /\ j + d < k + d
          BY <1>4, <1>11, <2>1, <2>2, <3>0
    <3> QED
        BY <2>1, <3>1 DEF Places
  <2>3. CASE k = l + 1
    <3>1. at[j + d] \in 1 .. n
          BY <1>6, <2>1
    <3> QED
        BY <1>1, <1>8, <2>1, <2>3, <3>1
  <2> QED
      BY <1>4, <1>11, <2>2, <2>3
<1>12. ASSUME NEW m \in DOMAIN f, Newer(f, m)
       PROVE  (\E k \in DOMAIN g : to[k] = m) \/ (Len(g) = MaxHistory /\ m < to[1])
  <2>1. CASE m = n + 1
    <3>1. l + 1 \in DOMAIN g
          BY <1>4
    <3> QED
        BY <1>8, <2>1, <3>1
  <2>2. CASE m \in 1 .. n
    <3>1. (\E k \in DOMAIN h : at[k] = m) \/ (Len(h) = MaxHistory /\ m < at[1])
          BY <1>1, <1>2, <1>12, <2>2 DEF Places
    <3>2. ASSUME NEW k \in DOMAIN h, at[k] = m, k > d
          PROVE  \E i \in DOMAIN g : to[i] = m
      <4>1. k - d \in 1 .. l /\ (k - d) + d = k
            BY <1>4, <3>2
      <4>2. to[k - d] = m
            BY <1>7, <3>2, <4>1
      <4>3. k - d \in DOMAIN g
            BY <1>4, <4>1
      <4> QED
          BY <4>2, <4>3
    <3>3. ASSUME d = 1, m <= at[1]
          PROVE  Len(g) = MaxHistory /\ m < to[1]
      <4>1. Len(g) = MaxHistory
            BY <1>4, <3>3
      <4>2. CASE l = 0
            BY <1>1, <1>8, <2>2, <4>1, <4>2
      <4>3. CASE l > 0
        <5>1. 1 \in DOMAIN h /\ 2 \in DOMAIN h /\ 1 \in 1 .. l /\ 1 + d = 2
              BY <1>4, <3>3, <4>3
        <5>2. to[1] = at[2] /\ at[1] \in 1 .. n /\ at[2] \in 1 .. n
              BY <1>6, <1>7, <5>1
        <5>3. at[1] < at[2]
              BY <5>1 DEF Places
        <5> QED
            BY <2>2, <3>3, <4>1, <5>2, <5>3
      <4> QED
          BY <1>4, <4>1, <4>2, <4>3
    <3>4. CASE d = 0
      <4>1. ~(Len(h) = MaxHistory)
            BY <1>4, <3>4
      <4>2. PICK k \in DOMAIN h : at[k] = m
            BY <3>1, <4>1
      <4>3. k > d
            BY <1>4, <3>4
      <4> QED
          BY <3>2, <4>2, <4>3
    <3>5. CASE d = 1
      <4>1. CASE \E k \in DOMAIN h : at[k] = m /\ k > d
            BY <3>2, <4>1
      <4>2. CASE \E k \in DOMAIN h : at[k] = m /\ ~(k > d)
        <5>1. PICK k \in DOMAIN h : at[k] = m /\ ~(k > d)
              BY <4>2
        <5>2. k = 1
              BY <1>4, <3>5, <5>1
        <5>3. m <= at[1]
              BY <2>2, <5>1, <5>2
        <5> QED
            BY <3>3, <3>5, <5>3
      <4>3. CASE Len(h) = MaxHistory /\ m < at[1]
        <5>1. 1 \in DOMAIN h
              BY <1>4, <3>5
        <5>2. at[1] \in 1 .. n
              BY <1>6, <5>1
        <5>3. m <= at[1]
              BY <2>2, <4>3, <5>2
        <5> QED
            BY <3>3, <3>5, <5>3
      <4> QED
          BY <3>1, <4>1, <4>2, <4>3
    <3> QED
        BY <1>4, <3>4, <3>5
  <2> QED
      BY <1>1, <1>12, <2>1, <2>2
<1>13. Places(g, f, to)
       BY <1>9, <1>10, <1>11, <1>12 DEF Places
<1> QED
    BY <1>13 DEF f

\* What is kept when the array is full: all but the oldest.
LEMMA RoomLeft ==
    ASSUME NEW S, NEW h \in Seq(S), Len(h) <= MaxHistory
    PROVE  LET room == IF Len(h) >= MaxHistory THEN Tail(h) ELSE h
           IN  /\ room \in Seq(S)
               /\ \E d : /\ d = 0 \/ d = 1
                         /\ d <= Len(h) /\ (d = 1 => Len(h) = MaxHistory)
                         /\ Len(room) = Len(h) - d /\ Len(room) + 1 <= MaxHistory
                         /\ \A k \in 1 .. (Len(h) - d) : room[k] = h[k + d]
<1>1. MaxHistory \in Nat \ {0} /\ Len(h) \in Nat
      BY OutputPanelAssumption, LenProperties
<1>2. CASE Len(h) >= MaxHistory
  <2>1. Len(h) # 0 /\ Len(h) = MaxHistory /\ 1 <= Len(h)
        BY <1>1, <1>2
  <2>2. h # <<>>
        BY <2>1, EmptySeq
  <2>3. /\ Tail(h) \in Seq(S) /\ Len(Tail(h)) = Len(h) - 1
        /\ \A k \in 1 .. Len(Tail(h)) : Tail(h)[k] = h[k + 1]
        BY <2>2, HeadTailProperties
  <2>4. Len(Tail(h)) + 1 <= MaxHistory
        BY <1>1, <2>1, <2>3
  <2> QED
      BY <1>2, <2>1, <2>3, <2>4
<1>3. CASE ~(Len(h) >= MaxHistory)
  <2>1. /\ Len(h) + 1 <= MaxHistory /\ Len(h) - 0 = Len(h) /\ 0 <= Len(h)
        BY <1>1, <1>3
  <2>2. \A k \in 1 .. (Len(h) - 0) : k + 0 = k
        BY <1>1
  <2>3. \A k \in 1 .. (Len(h) - 0) : h[k] = h[k + 0]
        BY <2>2
  <2> QED
      BY <1>3, <2>1, <2>3
<1> QED
    BY <1>2, <1>3

LEMMA HistoryStart == history = <<>> /\ entered = <<>> => HistoryKept
<1> SUFFICES ASSUME history = <<>>, entered = <<>> PROVE HistoryKept
    OBVIOUS
<1>1. <<>> \in Seq(CommandLines) /\ Len(<<>>) = 0 /\ DOMAIN <<>> = {}
      BY EmptySeq
<1>2. MaxHistory \in Nat
      BY OutputPanelAssumption
<1>3. Places(<<>>, <<>>, <<>>)
  <2>1. <<>> \in [{} -> {}]
        OBVIOUS
  <2> QED
      BY <1>1, <2>1 DEF Places
<1>4. \E at : Places(history, entered, at)
      BY <1>3
<1> QED
    BY <1>1, <1>2, <1>4 DEF HistoryKept

LEMMA AddHistoryKept ==
    ASSUME HistoryKept, NEW c \in CommandLines, AddHistory(c)
    PROVE  HistoryKept'
<1> DEFINE room == IF Len(history) >= MaxHistory THEN Tail(history) ELSE history
<1>1. /\ entered' = Append(entered, c)
      /\ history' = IF history # <<>> /\ Last(history) = c THEN history ELSE Append(room, c)
      BY DEF AddHistory
<1>2. /\ history \in Seq(CommandLines) /\ entered \in Seq(CommandLines)
      /\ Len(history) <= MaxHistory
      /\ entered # <<>> => history # <<>> /\ Last(history) = Last(entered)
      BY DEF HistoryKept
<1>3. PICK at : Places(history, entered, at)
      BY DEF HistoryKept
<1>4. /\ entered' \in Seq(CommandLines) /\ entered' # <<>> /\ Last(entered') = c
      BY <1>1, <1>2, OneMore
<1>5. history # <<>> => entered # <<>>
  <2> SUFFICES ASSUME history # <<>> PROVE entered # <<>>
      OBVIOUS
  <2>1. Len(history) \in Nat /\ Len(history) # 0 /\ DOMAIN history = 1 .. Len(history)
        BY <1>2, LenProperties, EmptySeq
  <2>2. 1 \in DOMAIN history
        BY <2>1
  <2>3. at[1] \in DOMAIN entered
        BY <1>3, <2>2 DEF Places
  <2>4. DOMAIN <<>> = {}
        BY EmptySeq
  <2> QED
      BY <2>3, <2>4
<1>6. CASE history # <<>> /\ Last(history) = c
  <2>1. history' = history
        BY <1>1, <1>6
  <2>2. Places(history, Append(entered, c), at)
        BY <1>2, <1>3, <1>5, <1>6, RepeatedPlaces
  <2>3. \E to : Places(history', entered', to)
        BY <1>1, <2>1, <2>2
  <2> QED
      BY <1>2, <1>4, <1>6, <2>1, <2>3 DEF HistoryKept
<1>7. CASE ~(history # <<>> /\ Last(history) = c)
  <2>1. history' = Append(room, c)
        BY <1>1, <1>7
  <2>2. entered = <<>> \/ Last(entered) # c
        BY <1>2, <1>7
  <2>3. room \in Seq(CommandLines)
        BY <1>2, RoomLeft
  <2>4. PICK d : /\ d = 0 \/ d = 1
                 /\ d <= Len(history) /\ (d = 1 => Len(history) = MaxHistory)
                 /\ Len(room) = Len(history) - d /\ Len(room) + 1 <= MaxHistory
                 /\ \A k \in 1 .. (Len(history) - d) : room[k] = history[k + d]
        BY <1>2, RoomLeft
  <2> HIDE DEF room
  <2>5. /\ history' \in Seq(CommandLines) /\ history' # <<>> /\ Last(history') = c
        /\ Len(history') = Len(room) + 1 /\ history'[Len(room) + 1] = c
        /\ \A k \in 1 .. Len(room) : history'[k] = room[k]
        BY <2>1, <2>3, OneMore
  <2>6. /\ Len(history') = Len(history) - d + 1 /\ history'[Len(history')] = c
        /\ \A k \in 1 .. (Len(history) - d) : history'[k] = history[k + d]
        /\ Len(history') <= MaxHistory
        BY <2>4, <2>5
  <2>7. MaxHistory \in Nat
        BY OutputPanelAssumption
  <2>8. \E to : Places(history', Append(entered, c), to)
        BY <1>2, <1>3, <2>2, <2>4, <2>5, <2>6, <2>7, NewPlaces
  <2>9. \E to : Places(history', entered', to)
        BY <1>1, <2>8
  <2> QED
      BY <1>4, <2>5, <2>6, <2>9 DEF HistoryKept
<1> QED
    BY <1>6, <1>7

LEMMA HistoryNextKept ==
    ASSUME HistoryKept, [HistoryNext]_historyVars
    PROVE  HistoryKept'
<1>1. ASSUME ClearHistory
      PROVE  HistoryKept'
  <2>1. (history = <<>> /\ entered = <<>>)' => HistoryKept'
        BY HistoryStart, PTL
  <2> QED
      BY <1>1, <2>1 DEF ClearHistory
<1>2. CASE UNCHANGED historyVars
      BY <1>2 DEF historyVars, HistoryKept
<1> QED
    BY <1>1, <1>2, AddHistoryKept DEF HistoryNext

LEMMA RecentHistory ==
    ASSUME HistoryKept
    PROVE  HistoryIsRecent
<1>1. PICK at : Places(history, entered, at)
      BY DEF HistoryKept
<1>2. \A n : New(n) <=> Newer(entered, n)
      BY DEF New, Newer
<1> QED
    BY <1>1, <1>2, Zenon DEF HistoryIsRecent, HistoryKept, Places

\* Of the lines written to the output panel and of the commands entered, the latest are kept,
\* complete and in order, for every size of the two arrays (md_output_panel_add_line,
\* md_tui_add_history).
THEOREM LatestIsKept == OutputSpec /\ HistorySpec => []KeepsLatest
<1>1. OutputInit => RingKept
      BY RingStart
<1>2. RingKept /\ [OutputNext]_outputVars => RingKept'
      BY OutputKept
<1>3. HistoryInit => HistoryKept
      BY HistoryStart DEF HistoryInit
<1>4. HistoryKept /\ [HistoryNext]_historyVars => HistoryKept'
      BY HistoryNextKept
<1>5. RingKept /\ HistoryKept => KeepsLatest
      BY LatestLines, RecentHistory DEF KeepsLatest
<1> QED
    BY <1>1, <1>2, <1>3, <1>4, <1>5, PTL DEF OutputSpec, HistorySpec
===============================================================================
